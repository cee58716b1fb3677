----------------------------- MODULE MCEnvNand -----------------------------
(* Small instances of EnvNand: one or two variables, a few blocks. *)
EXTENDS EnvNandRefine

\* Every variable starts with the shortest entry.
MCDefault == [n \in Name |-> 1]
=============================================================================
