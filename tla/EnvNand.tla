------------------------------ MODULE EnvNand ------------------------------
(***************************************************************************)
(* The U-Boot environment kept in NAND: the RAM copy that setenv edits     *)
(* (common/cmd_nvedit.c), its CRC (common/env_common.c), and saveenv,      *)
(* readenv and env_relocate_spec of common/env_nand.c, in both builds:     *)
(* Redundant = TRUE is CONFIG_ENV_OFFSET_REDUND (two copies and a serial   *)
(* number), FALSE is the single copy this board is configured with.        *)
(*                                                                         *)
(* A value of a variable is the length of its "name=value" entry, 0 when   *)
(* the variable is not set.  The CRC of some data is represented by the    *)
(* data itself: a CRC field is right iff it equals the data it precedes.   *)
(* A copy occupies EnvBlocks good erase blocks out of the EnvRange blocks  *)
(* reserved for it; erasing and writing go block by block, and the power   *)
(* may fail between and within blocks.                                     *)
(*                                                                         *)
(* Left out: the console devices and baud rate that setenv also switches,  *)
(* the counter env_id it increments for the network code, and the globals  *)
(* bi_ip_addr, load_addr and BootFile that it and the network commands set.*)
(***************************************************************************)
EXTENDS Naturals, FiniteSets, Functions

CONSTANTS
    Redundant,      \* is CONFIG_ENV_OFFSET_REDUND defined?
    Name,           \* variable names
    Console,        \* names among stdin, stdout, stderr
    WriteOnce,      \* "serial#" and "ethaddr" (no CONFIG_ENV_OVERWRITE)
    Baud,           \* "baudrate"
    MaxLen,         \* bound on the length of an entry
    Unsupported,    \* values no console device or baud rate table has
    EnvSize,        \* ENV_SIZE, without the final '\0'
    Default,        \* default_environment
    EnvRange,       \* CONFIG_ENV_RANGE, in erase blocks
    EnvBlocks,      \* CONFIG_ENV_SIZE, in erase blocks
    FlagMod,        \* number of values of env_t.flags (256)
    Faults          \* what can go wrong: "power", "write", "status", "erase", "flip"

Val   == 0..MaxLen
Data  == [Name -> Val]
Copy  == IF Redundant THEN {1, 2} ELSE {1}
Block == 1..EnvRange

\* env_t.  Without Redundant there is no flags field: it stays 0.
Image == [crc : Data, flags : 0..(FlagMod - 1), data : Data]

\* Contents of an erase block: a chunk of an image is its idx-th block.
Erased  == [st |-> "erased"]
Garbage == [st |-> "garbage"]
Chunk(i, k) == [st |-> "chunk", img |-> i, idx |-> k]
Content == {Erased, Garbage} \cup {Chunk(i, k) : i \in Image, k \in 0..EnvBlocks}

ASSUME ParamAssumption ==
    /\ Redundant \in BOOLEAN
    /\ IsFiniteSet(Name)
    /\ Console \subseteq Name /\ WriteOnce \subseteq Name
    /\ Baud \subseteq Name
    /\ MaxLen \in Nat
    /\ Unsupported \subseteq Val
    /\ EnvSize \in Nat
    /\ EnvRange \in Nat \ {0} /\ EnvBlocks \in Nat \ {0}
    /\ FlagMod \in Nat /\ FlagMod >= 3
    /\ Faults \subseteq {"power", "write", "status", "erase", "flip"}

ASSUME DefaultAssumption == Default \in Data

VARIABLES
    mem,        \* *env_ptr: the environment in RAM
    valid,      \* gd->env_valid: the copy in use, 1 or 2
    nand,       \* contents of the blocks of each copy
    bad,        \* blocks marked bad in each copy
    worn,       \* blocks holding a bit error that the ECC corrects
    op,         \* progress of saveenv: stage, block reached, blocks saved
    saved,      \* history: is some completed save still promised?
    last        \* history: the image it stored

vars == <<mem, valid, nand, bad, worn, op, saved, last>>

Idle == [st |-> "idle", blk |-> 1, amt |-> 0]
----------------------------------------------------------------------------
(* Layout: which blocks of a copy writeenv and readenv use.                *)

\* Good blocks of copy c before block b: the chunk that belongs at b.
PosCountsBad(c, b) == Cardinality({x \in Block : x < b})
Pos(c, b) == Cardinality({x \in Block : x < b /\ x \notin bad[c]})
Needed(c) == {b \in Block : b \notin bad[c] /\ Pos(c, b) < EnvBlocks}
Fits(c)   == \E b \in Needed(c) : Pos(c, b) + 1 = EnvBlocks

(* readenv: any nonzero result of nand_read ends it, a corrected bit       *)
(* error (-EUCLEAN) included.                                              *)
ReadFails(c) ==
    \/ ~Fits(c)
    \/ \E b \in Needed(c) : <<c, b>> \in worn \/ nand[c][b] = Garbage

\* The buffer readenv leaves behind is image i in full.
Loads(c, i) ==
    /\ Fits(c)
    /\ \A b \in Needed(c) : nand[c][b] = Chunk(i, Pos(c, b))
    /\ \A b \in Needed(c) : <<c, b>> \in worn => Pos(c, b) + 1 = EnvBlocks

Candidates(c) == {nand[c][b].img : b \in {x \in Needed(c) : nand[c][x].st = "chunk"}}
LoadsValid(c, i) == Loads(c, i) /\ i.crc = i.data
CrcOk(c)      == \E i \in Candidates(c) : LoadsValid(c, i)
ImageAt(c)    == CHOOSE i \in Candidates(c) : LoadsValid(c, i)
----------------------------------------------------------------------------
(* env_relocate: what a boot finds.                                        *)

SerialPickNoWrap(f1, f2) == IF f1 >= f2 THEN 1 ELSE 2
SerialPick(f1, f2) ==
    IF f1 = FlagMod - 1 /\ f2 = 0 THEN 2
    ELSE IF f2 = FlagMod - 1 /\ f1 = 0 THEN 1
    ELSE IF f1 >= f2 THEN 1 ELSE 2

\* env_relocate_spec: the copy to use, 0 for use_default().
Chosen ==
    IF Redundant
    THEN IF CrcOk(1) /\ CrcOk(2) THEN SerialPick(ImageAt(1).flags, ImageAt(2).flags)
         ELSE IF CrcOk(1) THEN 1
         ELSE IF CrcOk(2) THEN 2 ELSE 0
    ELSE IF CrcOk(1) /\ ~ReadFails(1) THEN 1 ELSE 0

\* set_default_env
DefaultImage ==
    [crc |-> Default, flags |-> IF Redundant THEN FlagMod - 1 ELSE 0, data |-> Default]

BootMem   == IF Chosen = 0 THEN DefaultImage ELSE ImageAt(Chosen)
BootValid == IF Chosen = 2 THEN 2 ELSE 1

\* env_relocate: everything in RAM is new; a boot never writes to NAND.
Boot ==
    /\ mem' = BootMem'
    /\ valid' = BootValid'
    /\ op' = Idle
    /\ saved' = (Chosen' # 0)
    /\ last' = mem'
----------------------------------------------------------------------------
(* _do_setenv *)

Used(d) == SumFunction(d)
Without(d, n) == [d EXCEPT ![n] = 0]

\* The early returns that leave the environment as it is.
Refused(n, v) ==
    \/ n \in Console /\ (v = 0 \/ v \in Unsupported)
    \/ mem.data[n] # 0 /\ n \in WriteOnce
    \/ mem.data[n] # 0 /\ n \in Baud /\ (v = 0 \/ v \in Unsupported)

SetEnv(n, v) ==
    /\ op = Idle
    /\ ~Refused(n, v)
    /\ LET d0 == Without(mem.data, n)
           d1 == [mem.data EXCEPT ![n] = v]
       IN IF v # 0 /\ Used(d0) + v > EnvSize
          THEN mem' = [mem EXCEPT !.data = d0]
          ELSE mem' = [mem EXCEPT !.data = d1, !.crc = d1]
    /\ UNCHANGED <<valid, nand, bad, worn, op, saved, last>>
----------------------------------------------------------------------------
(* saveenv *)

\* The copy that saveenv erases and writes.
Target == IF Redundant /\ valid = 1 THEN 2 ELSE 1

\* env_ptr->flags++, an unsigned char.
BumpFlagsNever(i) == i
BumpFlagsWide(i) == [i EXCEPT !.flags = i.flags + 1]
BumpFlags(i) ==
    IF Redundant THEN [i EXCEPT !.flags = (i.flags + 1) % FlagMod] ELSE i

\* nand_block_isbad on block b of the copy being written.
IsBadNever(b) == FALSE
IsBad(b) == b \in bad[Target]

\* The block the loop of writeenv goes on to.
NextBlockStuck(b) == IF IsBad(b) THEN b ELSE b + 1
NextBlock(b) == b + 1

\* A single copy is about to be erased: what was saved is no longer promised.
SaveStart ==
    /\ op = Idle
    /\ mem' = BumpFlags(mem)
    /\ IF EnvRange < EnvBlocks
       THEN UNCHANGED <<op, saved>>
       ELSE /\ op' = [st |-> "erase", blk |-> 1, amt |-> 0]
            /\ saved' = (saved /\ Redundant)
    /\ UNCHANGED <<valid, nand, bad, worn, last>>

\* One iteration of the loop of nand_erase_opts.  A failing erase is
\* reported on the console and the loop goes on.
EraseBlock ==
    /\ op.st = "erase"
    /\ \/ IsBad(op.blk) /\ UNCHANGED <<nand, worn>>
       \/ /\ ~IsBad(op.blk)
          /\ nand' = [nand EXCEPT ![Target][op.blk] = Erased]
          /\ worn' = worn \ {<<Target, op.blk>>}
       \/ /\ ~IsBad(op.blk)
          /\ "erase" \in Faults
          /\ UNCHANGED <<nand, worn>>
    /\ op' = IF op.blk = EnvRange THEN [st |-> "write", blk |-> 1, amt |-> 0]
             ELSE [st |-> "erase", blk |-> op.blk + 1, amt |-> 0]
    /\ UNCHANGED <<mem, valid, bad, saved, last>>

\* Programming can only clear bits: over old contents it leaves garbage.
Programmed(old, i, k) == IF old = Erased THEN Chunk(i, k) ELSE Garbage

Writing == op.st = "write" /\ op.amt < EnvBlocks /\ op.blk <= EnvRange

\* One iteration of the loop of writeenv that nand_write completes.
WriteBlock ==
    /\ Writing
    /\ IF IsBad(op.blk)
       THEN /\ nand' = nand
            /\ op' = [st |-> "write", blk |-> NextBlock(op.blk), amt |-> op.amt]
       ELSE /\ nand' = [nand EXCEPT ![Target][op.blk] = Programmed(@, mem, op.amt)]
            /\ op' = [st |-> "write", blk |-> NextBlock(op.blk), amt |-> op.amt + 1]
    /\ UNCHANGED <<mem, valid, bad, worn, saved, last>>

\* nand_write fails: "FAILED!".  The block is unreadable ("write"), or it is
\* programmed all the same and only the status was wrong ("status").
WriteError ==
    /\ Writing
    /\ ~IsBad(op.blk)
    /\ \/ "write" \in Faults /\ nand' = [nand EXCEPT ![Target][op.blk] = Garbage]
       \/ /\ "status" \in Faults
          /\ nand' = [nand EXCEPT ![Target][op.blk] = Programmed(@, mem, op.amt)]
    /\ op' = Idle
    /\ UNCHANGED <<mem, valid, bad, worn, saved, last>>

\* writeenv returns.  Success prints "done" and switches to the new copy.
SaveEndNoCheck ==
    /\ op.st = "write" /\ ~Writing
    /\ op' = Idle
    /\ valid' = Target /\ saved' = TRUE /\ last' = mem
    /\ UNCHANGED <<mem, nand, bad, worn>>

SaveEnd ==
    /\ op.st = "write" /\ ~Writing
    /\ op' = Idle
    /\ IF op.amt = EnvBlocks
       THEN valid' = Target /\ saved' = TRUE /\ last' = mem
       ELSE UNCHANGED <<valid, saved, last>>
    /\ UNCHANGED <<mem, nand, bad, worn>>
----------------------------------------------------------------------------
(* The world outside: resets, power cuts, and bits that flip.              *)

Reset ==
    /\ op = Idle
    /\ UNCHANGED <<nand, bad, worn>>
    /\ Boot

\* The power fails during saveenv: the block being erased or programmed is
\* left as it was or unreadable.
PowerCut ==
    /\ "power" \in Faults
    /\ op # Idle
    /\ \/ nand' = nand
       \/ /\ op.blk \in Block /\ ~IsBad(op.blk)
          /\ op.st = "erase" \/ Writing
          /\ nand' = [nand EXCEPT ![Target][op.blk] = Garbage]
    /\ UNCHANGED <<bad, worn>>
    /\ Boot

BitFlip(c, b) ==
    /\ "flip" \in Faults
    /\ op = Idle
    /\ nand[c][b].st = "chunk"
    /\ <<c, b>> \notin worn
    /\ worn' = worn \cup {<<c, b>>}
    /\ UNCHANGED <<mem, valid, nand, bad, op, saved, last>>
----------------------------------------------------------------------------
\* A board that has never saved: the environment area is erased.
Init ==
    /\ mem = DefaultImage
    /\ valid = 1
    /\ nand = [c \in Copy |-> [b \in Block |-> Erased]]
    /\ bad \in [Copy -> SUBSET Block]
    /\ worn = {}
    /\ op = Idle
    /\ saved = FALSE
    /\ last = DefaultImage

SaveStep == EraseBlock \/ WriteBlock \/ SaveEnd

Next ==
    \/ \E n \in Name, v \in Val : SetEnv(n, v)
    \/ SaveStart
    \/ SaveStep
    \/ WriteError
    \/ Reset
    \/ PowerCut
    \/ \E c \in Copy, b \in Block : BitFlip(c, b)

\* saveenv runs to its end unless the power fails: its loops never wait.
Spec == Init /\ [][Next]_vars /\ WF_vars(SaveStep)
----------------------------------------------------------------------------
(* Types; the serial number stays in its width.                            *)
TypeOK ==
    /\ mem \in Image
    /\ valid \in Copy
    /\ nand \in [Copy -> [Block -> Content]]
    /\ bad \in [Copy -> SUBSET Block]
    /\ worn \in SUBSET (Copy \X Block)
    /\ op \in [st : {"idle", "erase", "write"}, blk : 1..(EnvRange + 1), amt : 0..EnvBlocks]
    /\ saved \in BOOLEAN
    /\ last \in Image

\* The image of a save in progress: it may already be complete in NAND.
InFlight == IF op = Idle THEN {} ELSE {mem}

\* Once saveenv has printed "done" for an image whose CRC was right, a boot
\* at any moment (also in the middle of the next saveenv) loads that image,
\* or the one being saved if it is already complete (env_relocate_spec).
Durable == saved /\ last.crc = last.data => BootMem \in {last} \cup InFlight

\* Once saveenv has printed "done", a boot at any later moment, in the middle
\* of later saves and after any number of failed writes and power cuts, finds
\* a valid copy and does not fall back to default_environment.
BackupSurvives == [](saved => [](Chosen # 0))

\* No block of copy c has a bit error or was programmed over old contents.
Readable(c) == \A b \in Block : <<c, b>> \notin worn /\ nand[c][b] # Garbage

\* What saveenv reported as saved is what the next boot loads, until a bit
\* flips and unless a block of the environment could not be erased.
SavedIsLoaded == saved /\ op = Idle /\ Readable(valid) => BootMem = last

\* Bad blocks are never erased or programmed: they keep their contents.
BadUntouched ==
    [][\A c \in Copy : \A b \in bad[c] : nand'[c][b] = nand[c][b]]_vars

\* saveenv returns, however many blocks are bad.
SaveTerminates == op # Idle ~> op = Idle
----------------------------------------------------------------------------
(* The inductive invariant behind Durable, for two copies and power cuts.  *)

Succ(f) == (f + 1) % FlagMod

EraseProgress == op.st = "erase" =>
    \A b \in Block \ bad[Target] : b < op.blk => nand[Target][b] = Erased

WriteProgress == op.st = "write" =>
    /\ op.amt = Pos(Target, op.blk)
    /\ op.amt > 0 => \E b \in Needed(Target) : Pos(Target, b) + 1 = op.amt
    /\ \A b \in Block \ bad[Target] :
         nand[Target][b] = IF b < op.blk THEN Chunk(mem, Pos(Target, b)) ELSE Erased

\* The copy in use holds the last saved image, if there is one.
ActiveInv ==
    /\ saved => Loads(valid, last)
    /\ ~saved => \A i \in Image : ~LoadsValid(valid, i)

\* The serial number in RAM is that of the copy in use, one more during a
\* save; a valid image in the other copy is the one just before it.
SerialInv ==
    /\ saved /\ Fits(Target) =>
          mem.flags = IF op = Idle THEN last.flags ELSE Succ(last.flags)
    /\ op.st # "write" => \A i \in Image :
          LoadsValid(Target, i) => saved /\ last.flags = Succ(i.flags)

\* saveenv and env_relocate_spec agree, at every step, on which copy is in
\* use, how far the other one has been erased or written, and by how much
\* the serial numbers differ.
SaveInv == worn = {} /\ EraseProgress /\ WriteProgress /\ ActiveInv /\ SerialInv
=============================================================================
