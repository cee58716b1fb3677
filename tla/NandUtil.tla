------------------------------ MODULE NandUtil ------------------------------
(***************************************************************************)
(* The nand erase, scrub, read, write and markbad commands of              *)
(* common/cmd_nand.c over drivers/mtd/nand/nand_util.c and nand_base.c, as *)
(* built for the board (CONFIG_MTD_NAND_YAFFS2): one step for each erase   *)
(* block, on a chip with bad blocks whose operations can fail.             *)
(*                                                                         *)
(* Lengths are in units; WriteSize units and one oob unit make a page.  A  *)
(* unit is Erased, Junk, or holds a unit of an image.  Programming a page  *)
(* that is not erased leaves Junk.                                         *)
(***************************************************************************)
EXTENDS Integers, FiniteSets

CONSTANTS
    WriteSize, EraseSize, NBlocks,
    RamSize,            \* units of the image in memory
    Offs, Sizes,        \* arguments of the commands
    MaxCmds, MaxFails   \* bounds on commands and failing chip operations

ASSUME NandAssumption ==
    /\ WriteSize \in Nat \ {0} /\ NBlocks \in Nat \ {0}
    /\ EraseSize \in Nat \ {0} /\ EraseSize % WriteSize = 0
    /\ RamSize \in Nat /\ MaxCmds \in Nat /\ MaxFails \in Nat
    /\ Offs \subseteq Nat /\ Sizes \subseteq Nat

VARIABLES
    flash, oob,         \* data of each unit, oob of each page
    marked,             \* blocks with a bad block mark in their oob
    bbt,                \* blocks the table in memory has as bad
    ram,                \* the image to write
    cmd,                \* the command that runs or has returned
    last,               \* the last image written with OK, while it must be readable
    ncmds, fails

chip == <<flash, oob, marked>>
vars == <<flash, oob, marked, bbt, ram, cmd, last, ncmds, fails>>

size == NBlocks * EraseSize
Units == 0..(size - 1)
Pages == 0..((size \div WriteSize) - 1)
Blocks == 0..(NBlocks - 1)

Erased == 0
Junk == -1
CleanMarker == -2
Image == [i \in 0..(RamSize - 1) |-> i + 1]

Block(u) == u \div EraseSize
BlockLeft(off) == EraseSize - (off % EraseSize)
Least(a, b) == IF a < b THEN a ELSE b
----------------------------------------------------------------------------
(* nand_base.c *)

\* nand_block_isbad, by the table: at most one entry past its end is read, of
\* which nothing is known; beyond that -EINVAL, which the callers take as bad.  The
\* address they ask about has 32 bits: beyond 4 GiB it is that of a block again, and
\* their loops go on to one that is good, if there is any.
nand_block_isbad(off) ==
    IF off < size THEN {Block(off) \in bbt}
    ELSE IF off = size THEN BOOLEAN ELSE {Blocks \subseteq bbt}

\* Page p has been erased and not been programmed since.
Blank(p, data, spare) ==
    spare[p] = Erased /\ \A u \in Units : u \div WriteSize = p => data[u] = Erased

\* nand_do_write_ops, n units at off, where image[i] is unit i and spare[k] the oob
\* of page k; programming fails in page stop, or nowhere.
Program(off, n, image, spare, stop) ==
    LET first == off \div WriteSize
        Page(u) == (u \div WriteSize) - first
    IN  /\ flash' = [u \in Units |->
              IF u \notin off..(off + n - 1) \/ Page(u) > stop THEN flash[u]
              ELSE IF Page(u) = stop \/ ~Blank(u \div WriteSize, flash, oob) THEN Junk
              ELSE image[u - off]]
        /\ oob' = [p \in Pages |->
              IF p - first \notin 0..((n \div WriteSize) - 1) \/ p - first > stop THEN oob[p]
              ELSE IF p - first = stop \/ ~Blank(p, flash, oob) THEN Junk
              ELSE spare[p - first]]

\* One loop of nand_write for yaffs2: the oob of page i goes behind everything else
\* of the n pages at p.
MoveOob(buf, p, n, i) ==
    LET from == p + WriteSize * (i + 1)
        end == p + n * (WriteSize + 1) - 1
    IN  [u \in DOMAIN buf |-> IF u \notin from..end THEN buf[u]
                              ELSE IF u = end THEN buf[from] ELSE buf[u + 1]]

\* All its loops: data of the pages first, then their oob.
DataThenOob(buf, p, n) ==
    LET after[i \in 0..n] == IF i = 0 THEN buf ELSE MoveOob(after[i - 1], p, n, i - 1)
    IN  after[n]

\* What the clean marker leaves in the oob of the first page of a block; a failing
\* write_oob is printed, no more.
Markers == IF cmd.clean THEN {CleanMarker, Junk} ELSE {Erased}

\* nand_erase_nand on one block, done or failed.
EraseOk(b) ==
    /\ flash' = [u \in Units |-> IF Block(u) = b THEN Erased ELSE flash[u]]
    /\ \E m \in Markers :
         /\ oob' = [p \in Pages |-> IF Block(p * WriteSize) # b THEN oob[p]
                                    ELSE IF p * WriteSize = b * EraseSize THEN m ELSE Erased]
         /\ \/ m # Junk /\ UNCHANGED fails
            \/ m = Junk /\ fails < MaxFails /\ fails' = fails + 1
    /\ marked' = marked \ {b}

EraseFails(b) ==
    /\ fails < MaxFails /\ fails' = fails + 1
    /\ flash' = [u \in Units |-> IF Block(u) = b THEN Junk ELSE flash[u]]
    /\ oob' = [p \in Pages |-> IF Block(p * WriteSize) = b THEN Junk ELSE oob[p]]
    /\ UNCHANGED marked
----------------------------------------------------------------------------
(* nand_util.c *)

\* The first block boundary with length units in good blocks before it, or the end
\* of the device, is where get_len_incl_bad stops.
get_len_incl_bad(off, length) ==
    LET Good(e) == Cardinality({u \in off..(e - 1) : Block(u) \notin bbt})
        Stops(b) == b * EraseSize >= size \/ Good(b * EraseSize) >= length
        last_block == CHOOSE b \in (Block(off) + 1)..(Block(off) + NBlocks) :
                        Stops(b) /\ \A d \in (Block(off) + 1)..(b - 1) : ~Stops(d)
    IN  IF length = 0 THEN 0 ELSE last_block * EraseSize - off

PageAligned(off, length) == off % WriteSize = 0 /\ length % WriteSize = 0

NewCmd(op, off, len) ==
    [op |-> op, ret |-> "run", at |-> off, off |-> off, len |-> len, left |-> len, p |-> 0,
     rw_oob |-> FALSE, skipfirstblk |-> FALSE, clean |-> FALSE, scrub |-> FALSE,
     bad |-> bbt, image |-> ram, before |-> flash, beforeOob |-> oob, got |-> [i \in {} |-> 0]]

Return(s, ret) == [s EXCEPT !.ret = ret]
Idle == cmd.ret # "run"

\* A command is entered.
Enter(s) ==
    /\ Idle /\ ncmds < MaxCmds /\ ncmds' = ncmds + 1
    /\ cmd' = s

\* nand erase and scrub: nand_erase_opts up to its loop.
NandErase(off, len, clean, scrub) ==
    /\ Enter([NewCmd("erase", off, len) EXCEPT
                !.left = IF len < EraseSize THEN EraseSize ELSE len,
                !.clean = clean, !.scrub = scrub])
    /\ last' = {}
    /\ UNCHANGED <<chip, bbt, ram, fails>>

\* Its loop: bad blocks are skipped, errors of erase too, and past the device it
\* ends with -1.  scrub looks at no block and reads the marks again at the end.
EraseBlock ==
    /\ cmd.op = "erase" /\ ~Idle
    /\ \/ /\ cmd.off >= cmd.at + cmd.left
          /\ cmd' = Return(cmd, "ok")
          /\ bbt' = IF cmd.scrub THEN marked ELSE bbt
          /\ UNCHANGED <<chip, fails>>
       \/ /\ cmd.off < cmd.at + cmd.left /\ cmd.off > size /\ ~cmd.scrub
          /\ cmd' = Return(cmd, "error")
          /\ UNCHANGED <<chip, bbt, fails>>
       \/ /\ cmd.off < cmd.at + cmd.left /\ (cmd.off <= size \/ cmd.scrub)
          /\ cmd' = [cmd EXCEPT !.off = @ + EraseSize]
          /\ \E bad \in nand_block_isbad(cmd.off) :
               \/ /\ (bad /\ ~cmd.scrub) \/ cmd.off % EraseSize # 0 \/ cmd.off >= size
                  /\ UNCHANGED <<chip, fails>>
               \/ /\ (~bad \/ cmd.scrub) /\ cmd.off % EraseSize = 0 /\ cmd.off < size
                  /\ EraseOk(Block(cmd.off)) \/ EraseFails(Block(cmd.off))
          /\ UNCHANGED bbt
    /\ UNCHANGED <<ram, last, ncmds>>

\* nand write, write.yaffs2 and read.yaffs2 (which calls the same function):
\* nand_write_skip_bad up to its loop.
NandWrite(off, len, yaffs) ==
    LET n == IF yaffs THEN (len \div (WriteSize + 1)) * WriteSize ELSE len
        s == [NewCmd("write", off, n) EXCEPT !.rw_oob = yaffs, !.skipfirstblk = yaffs]
    IN  /\ len <= RamSize
        /\ Enter(IF \/ yaffs /\ len % (WriteSize + 1) # 0
                    \/ ~PageAligned(off, n)
                    \/ off + get_len_incl_bad(off, n) > size
                 THEN Return(s, "einval") ELSE s)
        /\ last' = {}
        /\ UNCHANGED <<chip, bbt, ram, fails>>

NextBlockWhole(s) == [s EXCEPT !.off = @ + EraseSize]
NextBlockNot(s) == s

\* The rest of a bad block is skipped.
NextBlock(s) == [s EXCEPT !.off = @ + BlockLeft(@)]

ChunkFull(s) == BlockLeft(s.off)

\* What goes into, or comes from, the block at off.
Chunk(s) == Least(s.left, BlockLeft(s.off))

AdvanceNoOob(s, n) == [s EXCEPT !.left = @ - n, !.off = @ + n, !.p = @ + n]

\* left_to_write, offset and p_buffer after n units.
Advance(s, n) ==
    [s EXCEPT !.left = @ - n, !.off = @ + n,
              !.p = @ + n + (IF s.rw_oob THEN n \div WriteSize ELSE 0)]

MustSkipNot(s, bad) == s.skipfirstblk

\* A bad block, or the first good one of a yaffs2 image, is not written.
MustSkip(s, bad) == bad \/ s.skipfirstblk

\* nand_write of n units at off.  The image is rearranged before anything is checked.
WriteChunk(n) ==
    \E pages \in {n \div WriteSize} :
    \E buf \in {IF cmd.rw_oob THEN DataThenOob(ram, cmd.p, pages) ELSE ram} :
        /\ ram' = buf
        /\ \/ /\ cmd.off + n > size
              /\ cmd' = Return(cmd, "failed")
              /\ UNCHANGED <<chip, fails>>
           \/ /\ cmd.off + n <= size
              /\ \E stop \in (IF fails < MaxFails THEN 0 ELSE pages)..pages :
                   /\ Program(cmd.off, n, [i \in 0..(n - 1) |-> buf[cmd.p + i]],
                        [k \in 0..(pages - 1) |->
                            IF cmd.rw_oob THEN buf[cmd.p + n + k] ELSE Erased], stop)
                   /\ cmd' = IF stop < pages THEN Return(cmd, "failed") ELSE Advance(cmd, n)
                   /\ fails' = IF stop < pages THEN fails + 1 ELSE fails
              /\ UNCHANGED marked

\* The loop of nand_write_skip_bad.  Past the device nand_write fails; if every block
\* is bad the loop never ends, and goes on counting.
WriteBlock ==
    /\ cmd.op = "write" /\ ~Idle
    /\ \/ /\ cmd.left = 0
          /\ cmd' = Return(cmd, "ok")
          /\ last' = IF cmd.rw_oob THEN {} ELSE {cmd}
          /\ UNCHANGED <<chip, ram, fails>>
       \/ /\ cmd.left > 0
          /\ \E bad \in nand_block_isbad(cmd.off) :
               \/ /\ MustSkip(cmd, bad)
                  /\ cmd' = IF cmd.off > size /\ bad THEN cmd
                            ELSE NextBlock([cmd EXCEPT !.skipfirstblk = bad /\ @])
                  /\ UNCHANGED <<chip, ram, fails>>
               \/ ~MustSkip(cmd, bad) /\ WriteChunk(Chunk(cmd))
          /\ UNCHANGED last
    /\ UNCHANGED <<bbt, ncmds>>

\* n more units read at off.
Got(s, n) ==
    [i \in DOMAIN s.got \cup s.p..(s.p + n - 1) |->
        IF i < s.p THEN s.got[i] ELSE flash[s.off + i - s.p]]

DirectAtLeast(off, len) == get_len_incl_bad(off, len) >= len

\* The whole image is read with one call.
Direct(off, len) == get_len_incl_bad(off, len) = len

\* nand read: nand_read_skip_bad up to its loop.
NandRead(off, len) ==
    LET s == NewCmd("read", off, len)
        inside == off + get_len_incl_bad(off, len) <= size
    IN  /\ \/ ~inside /\ Enter(Return(s, "einval")) /\ UNCHANGED fails
           \/ inside /\ ~Direct(off, len) /\ Enter(s) /\ UNCHANGED fails
           \/ /\ inside /\ Direct(off, len) /\ UNCHANGED fails
              /\ Enter([Return(s, "ok") EXCEPT !.got = Got(s, len), !.left = 0])
           \/ /\ inside /\ Direct(off, len) /\ fails < MaxFails /\ fails' = fails + 1
              /\ Enter(Return(s, "failed"))
        /\ UNCHANGED <<chip, bbt, ram, last>>

\* Its loop, past the device like the one of nand_write_skip_bad.
ReadBlock ==
    LET n == Chunk(cmd)
    IN  /\ cmd.op = "read" /\ ~Idle
        /\ \/ /\ cmd.left = 0
              /\ cmd' = Return(cmd, "ok")
              /\ UNCHANGED fails
           \/ /\ cmd.left > 0
              /\ \E bad \in nand_block_isbad(cmd.off) :
                   \/ /\ bad
                      /\ cmd' = IF cmd.off > size /\ bad THEN cmd ELSE NextBlock(cmd)
                      /\ UNCHANGED fails
                   \/ /\ ~bad /\ cmd.off + n > size
                      /\ cmd' = Return(cmd, "failed")
                      /\ UNCHANGED fails
                   \/ /\ ~bad /\ cmd.off + n <= size
                      /\ cmd' = Advance([cmd EXCEPT !.got = Got(cmd, n)], n)
                      /\ UNCHANGED fails
                   \/ /\ ~bad /\ cmd.off + n <= size /\ fails < MaxFails
                      /\ cmd' = Return(cmd, "failed")
                      /\ fails' = fails + 1
        /\ UNCHANGED <<chip, bbt, ram, last, ncmds>>

\* nand markbad: nand_block_markbad and nand_default_block_markbad.  The table has
\* the block as bad even if its mark cannot be written.  The mark is taken to go where
\* the scan looks for it, although ops.mode is as the command before has left it.
MarkBad(b) ==
    LET s == NewCmd("markbad", b * EraseSize, 0)
    IN  /\ bbt' = bbt \cup {b}
        /\ last' = {}
        /\ \/ b \in bbt /\ Enter(Return(s, "ok")) /\ UNCHANGED <<marked, fails>>
           \/ b \notin bbt /\ Enter(Return(s, "ok")) /\ marked' = marked \cup {b} /\ UNCHANGED fails
           \/ /\ b \notin bbt /\ fails < MaxFails
              /\ Enter(Return(s, "error")) /\ fails' = fails + 1 /\ UNCHANGED marked
        /\ UNCHANGED <<flash, oob, ram>>

\* An image is loaded into memory again.
Load ==
    /\ Enter(Return(NewCmd("load", 0, 0), "ok"))
    /\ ram # Image /\ ram' = Image
    /\ UNCHANGED <<chip, bbt, last, fails>>
----------------------------------------------------------------------------
Init ==
    /\ marked \in SUBSET Blocks /\ bbt = marked
    /\ flash = [u \in Units |-> Erased] /\ oob = [p \in Pages |-> Erased]
    /\ ram = Image
    /\ cmd = [op |-> "none", ret |-> "ok"]
    /\ last = {} /\ ncmds = 0 /\ fails = 0

Command ==
    \/ \E off \in Offs, len \in Sizes :
         \/ \E clean, scrub \in BOOLEAN : NandErase(off, len, clean, scrub)
         \/ \E yaffs \in BOOLEAN : NandWrite(off, len, yaffs)
         \/ NandRead(off, len)
    \/ \E b \in Blocks : MarkBad(b)
    \/ Load

Loop == EraseBlock \/ WriteBlock \/ ReadBlock

Done == Idle /\ ncmds = MaxCmds /\ UNCHANGED vars

Next == Command \/ Loop \/ Done

Spec == Init /\ [][Next]_vars

\* A command that has been entered runs; nothing else runs beside it.
FairSpec == Spec /\ WF_vars(Loop)
----------------------------------------------------------------------------
(* Where an image belongs: the units from off on that are in good blocks,  *)
(* for yaffs2 without those of the first good block.                       *)

Usable(s) ==
    LET good == {u \in Units : u >= s.at /\ Block(u) \notin s.bad}
    IN  IF s.op = "write" /\ s.rw_oob
        THEN {u \in good : \E v \in good : Block(v) < Block(u)} ELSE good

Rank(u, S) == Cardinality({v \in S : v < u})

Fits(s) == Cardinality(Usable(s)) >= s.len

\* Unit i of the data in the image of command s.
Data(s, i) == IF s.rw_oob THEN s.image[i + i \div WriteSize] ELSE s.image[i]

\* The oob of page k.
Spare(s, k) == IF s.rw_oob THEN s.image[k * (WriteSize + 1) + WriteSize] ELSE Erased

\* Units of the image the command reports as written.
Reported(s) == s.len - s.left

(* Types.  In particular left_to_write and left_to_read, which are         *)
(* unsigned, never drop below 0.                                           *)
TypeOK ==
    /\ flash \in [Units -> Int] /\ oob \in [Pages -> Int]
    /\ marked \subseteq Blocks /\ bbt \subseteq Blocks
    /\ ncmds \in 0..MaxCmds /\ fails \in 0..MaxFails
    /\ cmd.ret \in {"run", "ok", "error", "einval", "failed"}
    /\ cmd.op \in {"write", "read"} => cmd.left \in 0..cmd.len

(* Whether nand_write_skip_bad ends with OK or with an error in the middle *)
(* of the image, the units it reports as written are in the good blocks    *)
(* from the offset on, in order, as they were in memory when the command   *)
(* was entered; for yaffs2 with the oob of each page, although the image   *)
(* in memory is rearranged block by block on the way.                      *)
ImageStored ==
    cmd.op = "write" /\ cmd.ret \in {"ok", "failed"} =>
        LET target == Usable(cmd)
        IN  \A u \in target :
              LET i == Rank(u, target)
                  p == u \div WriteSize
              IN  i < Reported(cmd) /\ Blank(p, cmd.before, cmd.beforeOob) =>
                    /\ flash[u] = Data(cmd, i)
                    /\ oob[p] = Spare(cmd, i \div WriteSize)

(* A write leaves every unit alone that the image does not belong in, and  *)
(* an erase every block its range does not reach.                          *)
OthersKept ==
    /\ cmd.op = "write" =>
         LET target == Usable(cmd)
         IN  \A u \in Units : u \notin target \/ Rank(u, target) >= cmd.len
                                 => flash[u] = cmd.before[u]
    /\ cmd.op = "erase" =>
         \A u \in Units : Block(u) * EraseSize \notin cmd.at..(cmd.at + cmd.left - 1)
                             => flash[u] = cmd.before[u]

(* Until the flash or the bad block table changes, reading at least a part *)
(* of what was written at the same offset gives the image back, though the *)
(* read takes one call where the write goes block by block.                *)
ReadBack ==
    \A w \in last :
        cmd.op = "read" /\ cmd.ret = "ok" /\ cmd.at = w.at /\ cmd.len <= w.len
        /\ (\A p \in Pages : Blank(p, w.before, w.beforeOob))
        => \A i \in 0..(cmd.len - 1) : cmd.got[i] = w.image[i]

(* Only scrub changes a block that is in the bad block table.              *)
BadUntouched ==
    [][\A u \in Units : Block(u) \in bbt /\ flash'[u] # flash[u] => cmd.scrub]_vars

(* A command ends, whatever chip operations fail and also if its image     *)
(* does not fit into the good blocks, unless it reads or writes and every  *)
(* block is bad.                                                           *)
Returns ==
    (~Idle /\ (cmd.op = "erase" \/ ~(Blocks \subseteq bbt))) ~> Idle

(* "Check if length including bad blocks fits into device": a command      *)
(* whose image does not fit is refused, it does not end with OK and it     *)
(* leaves the flash as it was.                                             *)
TooLongRejected ==
    cmd.op \in {"read", "write"} /\ ~Fits(cmd) => cmd.ret # "ok" /\ flash = cmd.before
=============================================================================
