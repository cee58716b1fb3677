--------------------------- MODULE EnvNandRefine ---------------------------
(***************************************************************************)
(* EnvNand with two copies implements EnvStore: the stored environment is  *)
(* the one env_relocate_spec would choose now, so it changes in the single *)
(* step that programs the last block of the new copy.                      *)
(***************************************************************************)
EXTENDS EnvNand

Store == INSTANCE EnvStore WITH
    ram   <- mem.data,
    disk  <- BootMem.data,
    acked <- last.data

\* saveenv of env_nand.c behaves as an atomic update of persistent storage:
\* at every moment, power cuts included, a boot gets the old or the new
\* environment, and "done" is printed only for what a boot would get.
StoreSpec == Store!Spec
=============================================================================
