------------------------------ MODULE EnvStore ------------------------------
(***************************************************************************)
(* What saveenv promises: an environment in RAM, one in persistent         *)
(* storage, and a save that replaces the stored one in a single step.  A   *)
(* boot always gets exactly what is stored, and saveenv reports success    *)
(* only when the environment in RAM is what is stored.                     *)
(***************************************************************************)
CONSTANTS Data, Default

VARIABLES
    ram,        \* the environment setenv and printenv see
    disk,       \* the environment the next boot will get
    acked       \* the environment last loaded or reported as saved

vars == <<ram, disk, acked>>

Init == ram = Default /\ disk = Default /\ acked = Default

Edit    == ram' \in Data /\ UNCHANGED <<disk, acked>>
Commit  == disk' = ram /\ UNCHANGED <<ram, acked>>
Ack     == disk = ram /\ acked' = ram /\ UNCHANGED <<ram, disk>>
Restart == ram' = disk /\ acked' = disk /\ UNCHANGED disk

Next == Edit \/ Commit \/ Ack \/ Restart

Spec == Init /\ [][Next]_vars
=============================================================================
