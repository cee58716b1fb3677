--------------------------- MODULE NandUtilProofs ---------------------------
(***************************************************************************)
(* Proofs about NandUtil, for every size of the chip, its blocks and its   *)
(* pages, every layout of bad blocks, any arguments and any number of      *)
(* commands and failing operations.                                        *)
(***************************************************************************)
EXTENDS NandUtil, NaturalLemmas, FiniteSetTheorems, TLAPS

----------------------------------------------------------------------------
(* Division. *)

LEMMA TimesType == \A a, n \in Nat : a * n \in Nat
OBVIOUS

LEMMA TimesMono ==
  ASSUME NEW a \in Nat, NEW b \in Nat, NEW n \in Nat, a <= b
  PROVE  a * n <= b * n
<1>1. b * n = a * n + (b - a) * n
  OBVIOUS
<1>2. (b - a) * n \in Nat /\ a * n \in Nat
  BY TimesType
<1> QED BY <1>1, <1>2

LEMMA DivMod ==
  ASSUME NEW a \in Nat, NEW n \in Nat \ {0}
  PROVE  /\ a \div n \in Nat /\ a % n \in 0..(n - 1)
         /\ a = (a \div n) * n + (a % n)
<1>1. a \div n \in Nat
  OBVIOUS
<1>2. a % n \in 0..(n - 1)
  OBVIOUS
<1>3. a = n * (a \div n) + (a % n)
  OBVIOUS
<1> QED BY <1>1, <1>2, <1>3

LEMMA DivUnique ==
  ASSUME NEW q \in Nat, NEW r \in Nat, NEW n \in Nat \ {0}, r < n
  PROVE  (q * n + r) \div n = q /\ (q * n + r) % n = r
<1> DEFINE a == q * n + r
           d == a \div n
           m == a % n
<1>1. a \in Nat
  BY TimesType
<1>2. d \in Nat /\ m \in 0..(n - 1) /\ a = d * n + m
  <2> HIDE DEF a
  <2> QED BY <1>1, DivMod
<1>3. ASSUME d < q PROVE FALSE
  <2>1. (d + 1) * n <= q * n /\ (d + 1) * n = d * n + n
    <3> HIDE DEF d
    <3>1. d + 1 \in Nat /\ d + 1 <= q
      BY <1>2, <1>3
    <3>2. (d + 1) * n = d * n + n
      BY <1>2
    <3> QED BY <3>1, <3>2, TimesMono
  <2>2. d * n \in Nat /\ q * n \in Nat
    BY <1>2, TimesType
  <2> HIDE DEF d, m
  <2> QED BY <1>2, <2>1, <2>2
<1>4. ASSUME q < d PROVE FALSE
  <2>1. (q + 1) * n <= d * n /\ (q + 1) * n = q * n + n
    <3> HIDE DEF d
    <3>1. q + 1 \in Nat /\ q + 1 <= d
      BY <1>2, <1>4
    <3>2. (q + 1) * n = q * n + n
      OBVIOUS
    <3> QED BY <1>2, <3>1, <3>2, TimesMono
  <2>2. d * n \in Nat /\ q * n \in Nat
    BY <1>2, TimesType
  <2> HIDE DEF d, m
  <2> QED BY <1>2, <2>1, <2>2
<1>5. d = q
  <2> HIDE DEF d
  <2> QED BY <1>2, <1>3, <1>4
<1>6. m = r
  <2>1. q * n \in Nat
    BY TimesType
  <2> HIDE DEF d, m
  <2> QED BY <1>2, <1>5, <2>1
<1> QED BY <1>5, <1>6 DEF d, m, a
----------------------------------------------------------------------------
(* Pages and blocks. *)

Whole(x) == x % WriteSize = 0

LEMMA Params ==
  /\ WriteSize \in Nat \ {0} /\ EraseSize \in Nat \ {0} /\ NBlocks \in Nat \ {0}
  /\ RamSize \in Nat /\ MaxCmds \in Nat /\ MaxFails \in Nat
  /\ Whole(EraseSize) /\ Offs \subseteq Nat /\ Sizes \subseteq Nat
BY NandAssumption DEF Whole

LEMMA WholeDef ==
  ASSUME NEW x \in Nat
  PROVE  /\ Whole(x) => x = (x \div WriteSize) * WriteSize /\ x \div WriteSize \in Nat
         /\ \A k \in Nat : x = k * WriteSize => Whole(x) /\ x \div WriteSize = k
<1>1. x \div WriteSize \in Nat /\ x = (x \div WriteSize) * WriteSize + (x % WriteSize)
  BY Params, DivMod
<1>2. Whole(x) => x = (x \div WriteSize) * WriteSize
  <2>1. (x \div WriteSize) * WriteSize \in Nat
    BY <1>1, Params, TimesType
  <2> QED BY <1>1, <2>1 DEF Whole
<1>3. ASSUME NEW k \in Nat, x = k * WriteSize
      PROVE  Whole(x) /\ x \div WriteSize = k
  <2>1. 0 \in Nat /\ 0 < WriteSize /\ k * WriteSize + 0 = x
    BY <1>3, Params
  <2>2. (k * WriteSize + 0) \div WriteSize = k /\ (k * WriteSize + 0) % WriteSize = 0
    BY <2>1, Params, DivUnique
  <2> QED BY <2>1, <2>2 DEF Whole
<1> QED BY <1>1, <1>2, <1>3

LEMMA WholeSum ==
  ASSUME NEW x \in Nat, NEW y \in Nat, Whole(x), Whole(y)
  PROVE  Whole(x + y) /\ (x + y) \div WriteSize = (x \div WriteSize) + (y \div WriteSize)
<1> DEFINE j == x \div WriteSize
           k == y \div WriteSize
<1>1. j \in Nat /\ k \in Nat /\ x = j * WriteSize /\ y = k * WriteSize
  BY WholeDef
<1> HIDE DEF j, k
<1>2. x + y = (j + k) * WriteSize
  BY <1>1, Params
<1>3. Whole(x + y) /\ (x + y) \div WriteSize = j + k
  BY <1>1, <1>2, WholeDef
<1> QED BY <1>3 DEF j, k

LEMMA WholeDiff ==
  ASSUME NEW x \in Nat, NEW y \in Nat, Whole(x), Whole(y), y <= x
  PROVE  Whole(x - y) /\ (x - y) \div WriteSize = (x \div WriteSize) - (y \div WriteSize)
<1> DEFINE j == x \div WriteSize
           k == y \div WriteSize
<1>1. j \in Nat /\ k \in Nat /\ x = j * WriteSize /\ y = k * WriteSize
  BY WholeDef
<1> HIDE DEF j, k
<1>2. k <= j
  <2> SUFFICES ASSUME j < k PROVE FALSE
    BY <1>1
  <2>1. (j + 1) * WriteSize <= k * WriteSize
    BY <1>1, Params, TimesMono
  <2>2. (j + 1) * WriteSize = j * WriteSize + WriteSize
    BY <1>1, Params
  <2> QED BY <1>1, <2>1, <2>2, Params
<1>3. x - y = (j - k) * WriteSize /\ j - k \in Nat
  BY <1>1, <1>2, Params
<1>4. Whole(x - y) /\ (x - y) \div WriteSize = j - k
  BY <1>3, WholeDef
<1> QED BY <1>4 DEF j, k

\* The block that an offset lies in, and where it ends.
LEMMA BlockFacts ==
  ASSUME NEW u \in Nat
  PROVE  /\ Block(u) \in Nat /\ Block(u) * EraseSize \in Nat
         /\ Block(u) * EraseSize <= u /\ u < Block(u) * EraseSize + EraseSize
         /\ BlockLeft(u) \in 1..EraseSize
         /\ u + BlockLeft(u) = Block(u) * EraseSize + EraseSize
         /\ u % EraseSize = 0 => u = Block(u) * EraseSize
<1> DEFINE b == u \div EraseSize
           m == u % EraseSize
<1>1. b \in Nat /\ m \in 0..(EraseSize - 1) /\ u = b * EraseSize + m
  BY Params, DivMod
<1>2. b * EraseSize \in Nat
  BY <1>1, Params, TimesType
<1> HIDE DEF b, m
<1>3. /\ b * EraseSize <= u /\ u < b * EraseSize + EraseSize
      /\ EraseSize - m \in 1..EraseSize /\ u + (EraseSize - m) = b * EraseSize + EraseSize
      /\ m = 0 => u = b * EraseSize
  BY <1>1, <1>2, Params
<1> QED BY <1>1, <1>2, <1>3 DEF Block, BlockLeft, b, m

LEMMA BlockOf ==
  ASSUME NEW u \in Nat, NEW b \in Nat, b * EraseSize <= u, u < b * EraseSize + EraseSize
  PROVE  Block(u) = b
<1>1. b * EraseSize \in Nat
  BY Params, TimesType
<1>2. PICK r : r = u - b * EraseSize
  OBVIOUS
<1>3. r \in Nat /\ r < EraseSize /\ u = b * EraseSize + r
  BY <1>1, <1>2, Params
<1> QED BY <1>3, Params, DivUnique DEF Block

LEMMA BlockSame ==
  ASSUME NEW off \in Nat, NEW u \in Nat, off <= u, u < off + BlockLeft(off)
  PROVE  Block(u) = Block(off)
<1> DEFINE b == Block(off)
<1>1. b \in Nat /\ b * EraseSize \in Nat /\ b * EraseSize <= off
      /\ off + BlockLeft(off) = b * EraseSize + EraseSize
  BY BlockFacts
<1> HIDE DEF b
<1>2. b * EraseSize <= u /\ u < b * EraseSize + EraseSize
  BY <1>1
<1>3. Block(u) = b
  BY <1>1, <1>2, BlockOf
<1> QED BY <1>3 DEF b

LEMMA BlockMono ==
  ASSUME NEW u \in Nat, NEW v \in Nat, u <= v
  PROVE  Block(u) <= Block(v)
<1> DEFINE a == Block(u)
           b == Block(v)
<1>1. /\ a \in Nat /\ b \in Nat /\ a * EraseSize \in Nat /\ b * EraseSize \in Nat
      /\ a * EraseSize <= u /\ v < b * EraseSize + EraseSize
  BY BlockFacts
<1> HIDE DEF a, b
<1>2. ASSUME b < a PROVE FALSE
  <2>1. (b + 1) * EraseSize <= a * EraseSize
    BY <1>1, <1>2, Params, TimesMono
  <2>2. (b + 1) * EraseSize = b * EraseSize + EraseSize
    BY <1>1, Params
  <2> QED BY <1>1, <2>1, <2>2, Params
<1>3. a <= b
  BY <1>1, <1>2
<1> QED BY <1>3 DEF a, b

LEMMA SizeFacts ==
  /\ size \in Nat \ {0} /\ Whole(size) /\ size \div WriteSize \in Nat
  /\ size = (size \div WriteSize) * WriteSize
  /\ Units \subseteq Nat /\ \A u \in Nat : u \in Units <=> u < size
  /\ \A u \in Nat : u < size => Block(u) \in Blocks
<1>1. size \in Nat \ {0}
  <2>1. NBlocks * EraseSize = (NBlocks - 1) * EraseSize + EraseSize
    BY Params
  <2>2. (NBlocks - 1) * EraseSize \in Nat
    BY Params, TimesType
  <2> QED BY <2>1, <2>2, Params DEF size
<1>2. Whole(size)
  <2> DEFINE k == EraseSize \div WriteSize
  <2>1. k \in Nat /\ EraseSize = k * WriteSize
    BY Params, WholeDef
  <2> HIDE DEF k
  <2>2. size = (NBlocks * k) * WriteSize /\ NBlocks * k \in Nat
    BY <2>1, Params, TimesType DEF size
  <2> QED BY <1>1, <2>2, WholeDef
<1>3. size = (size \div WriteSize) * WriteSize /\ size \div WriteSize \in Nat
  BY <1>1, <1>2, WholeDef
<1>4. Units \subseteq Nat /\ \A u \in Nat : u \in Units <=> u < size
  BY <1>1 DEF Units
<1>5. ASSUME NEW u \in Nat, u < size PROVE Block(u) \in Blocks
  <2> DEFINE b == Block(u)
  <2>1. b \in Nat /\ b * EraseSize \in Nat /\ b * EraseSize <= u
    BY BlockFacts
  <2> HIDE DEF b
  <2>2. ASSUME NBlocks <= b PROVE FALSE
    <3>1. NBlocks * EraseSize <= b * EraseSize
      BY <2>1, <2>2, Params, TimesMono
    <3> QED BY <1>1, <1>5, <2>1, <3>1 DEF size
  <2>3. b \in 0..(NBlocks - 1)
    BY <2>1, <2>2, Params
  <2> QED BY <2>3 DEF Blocks, b
<1> QED BY <1>1, <1>2, <1>3, <1>4, <1>5

\* Page p and the units it consists of.
LEMMA PageFacts ==
  ASSUME NEW u \in Nat
  PROVE  /\ u \div WriteSize \in Nat
         /\ (u \div WriteSize) * WriteSize <= u
         /\ u < (u \div WriteSize) * WriteSize + WriteSize
         /\ u < size => u \div WriteSize \in Pages
         /\ \A x \in Nat : Whole(x) => (u < x <=> u \div WriteSize < x \div WriteSize)
<1> DEFINE p == u \div WriteSize
           m == u % WriteSize
<1>1. p \in Nat /\ m \in 0..(WriteSize - 1) /\ u = p * WriteSize + m
  BY Params, DivMod
<1>2. p * WriteSize \in Nat
  BY <1>1, Params, TimesType
<1> HIDE DEF p, m
<1>3. p * WriteSize <= u /\ u < p * WriteSize + WriteSize
  BY <1>1, <1>2, Params
<1>4. ASSUME NEW x \in Nat, Whole(x) PROVE u < x <=> p < x \div WriteSize
  <2> DEFINE k == x \div WriteSize
  <2>1. k \in Nat /\ x = k * WriteSize
    BY <1>4, WholeDef
  <2> HIDE DEF k
  <2>2. ASSUME p < k PROVE u < x
    <3>1. (p + 1) * WriteSize <= k * WriteSize
      BY <1>1, <2>1, <2>2, Params, TimesMono
    <3>2. (p + 1) * WriteSize = p * WriteSize + WriteSize
      BY <1>1, Params
    <3> QED BY <1>2, <1>3, <2>1, <3>1, <3>2, Params
  <2>3. ASSUME k <= p PROVE x <= u
    <3>1. k * WriteSize <= p * WriteSize
      BY <1>1, <2>1, <2>3, Params, TimesMono
    <3> QED BY <1>2, <1>3, <2>1, <3>1
  <2>4. u < x <=> p < k
    BY <1>1, <2>1, <2>2, <2>3
  <2> QED BY <2>4 DEF k
<1>5. u < size => p \in Pages
  <2>1. u < size => p < size \div WriteSize
    BY <1>4, SizeFacts
  <2> QED BY <1>1, <2>1, SizeFacts DEF Pages
<1> QED BY <1>1, <1>3, <1>4, <1>5 DEF p

\* What is written into, or left of, a block is whole pages.
LEMMA ChunkFacts ==
  ASSUME NEW off \in Nat, NEW left \in Nat \ {0}, NEW n, n = Least(left, BlockLeft(off))
  PROVE  /\ n \in Nat \ {0} /\ n <= left /\ n <= BlockLeft(off)
         /\ Whole(off) => Whole(BlockLeft(off)) /\ Whole(off + BlockLeft(off))
         /\ Whole(off) /\ Whole(left) => Whole(n)
<1>1. BlockLeft(off) \in Nat \ {0}
  <2>1. BlockLeft(off) \in 1..EraseSize
    BY BlockFacts
  <2> QED BY <2>1, Params
<1>2. n \in Nat \ {0} /\ n <= left /\ n <= BlockLeft(off) /\ n \in {left, BlockLeft(off)}
  BY <1>1 DEF Least
<1>3. Whole(off) => Whole(BlockLeft(off)) /\ Whole(off + BlockLeft(off))
  <2> HAVE Whole(off)
  <2> DEFINE b == Block(off)
             k == EraseSize \div WriteSize
  <2>1. b \in Nat /\ off + BlockLeft(off) = b * EraseSize + EraseSize
    BY BlockFacts
  <2>2. k \in Nat /\ EraseSize = k * WriteSize
    BY Params, WholeDef
  <2> HIDE DEF b, k
  <2>3. b * EraseSize + EraseSize = ((b + 1) * k) * WriteSize /\ (b + 1) * k \in Nat
    BY <2>1, <2>2, Params, TimesType
  <2>4. Whole(off + BlockLeft(off))
    BY <1>1, <2>1, <2>3, WholeDef
  <2>5. Whole((off + BlockLeft(off)) - off)
    BY <1>1, <2>4, WholeDiff
  <2> QED BY <1>1, <2>4, <2>5
<1> QED BY <1>2, <1>3
----------------------------------------------------------------------------
(* Types. *)

Ops == {"erase", "write", "read", "markbad", "load"}
Rets == {"run", "ok", "error", "einval", "failed"}
FlashType == [Units -> Int]
OobType == [Pages -> Int]
Images == [0..(RamSize - 1) -> Int]
Results == UNION {[0..(k - 1) -> Int] : k \in Nat}
Cmd ==
    [op : Ops, ret : Rets, at : Nat, off : Nat, len : Nat, left : Nat, p : Nat,
     rw_oob : BOOLEAN, skipfirstblk : BOOLEAN, clean : BOOLEAN, scrub : BOOLEAN,
     bad : SUBSET Blocks, image : Images, before : FlashType, beforeOob : OobType,
     got : Results]
None == [op |-> "none", ret |-> "ok"]

\* What a command never changes once it has been entered.
Kept(s, t) ==
    /\ t.op = s.op /\ t.at = s.at /\ t.len = s.len /\ t.rw_oob = s.rw_oob
    /\ t.clean = s.clean /\ t.scrub = s.scrub
    /\ t.bad = s.bad /\ t.image = s.image /\ t.before = s.before /\ t.beforeOob = s.beforeOob

LEMMA ReturnFacts ==
  ASSUME NEW s \in Cmd, NEW r \in Rets
  PROVE  /\ Return(s, r) \in Cmd /\ Kept(s, Return(s, r)) /\ Return(s, r).ret = r
         /\ Return(s, r).off = s.off /\ Return(s, r).left = s.left /\ Return(s, r).p = s.p
         /\ Return(s, r).got = s.got /\ Return(s, r).skipfirstblk = s.skipfirstblk
BY DEF Return, Cmd, Kept

LEMMA AdvanceFacts ==
  ASSUME NEW s \in Cmd, NEW n \in Nat, n <= s.left, Whole(n)
  PROVE  LET t == Advance(s, n) IN
         /\ t \in Cmd /\ Kept(s, t) /\ t.ret = s.ret /\ t.off = s.off + n /\ t.left = s.left - n
         /\ t.p = s.p + n + (IF s.rw_oob THEN n \div WriteSize ELSE 0)
         /\ t.got = s.got /\ t.skipfirstblk = s.skipfirstblk
<1> DEFINE l == s.left - n
           o == s.off + n
           q == s.p + n + (IF s.rw_oob THEN n \div WriteSize ELSE 0)
           t == Advance(s, n)
<1>0. s.left \in Nat /\ s.off \in Nat /\ s.p \in Nat
  BY DEF Cmd
<1>1. l \in Nat /\ o \in Nat /\ q \in Nat
  <2>1. n \div WriteSize \in Nat
    BY WholeDef
  <2> QED BY <1>0, <2>1
<1>2. t = [s EXCEPT !.left = l, !.off = o, !.p = q]
  BY DEF Advance
<1> HIDE DEF l, o, q, t
<1>3. /\ t \in Cmd /\ Kept(s, t) /\ t.ret = s.ret /\ t.off = o /\ t.left = l /\ t.p = q
      /\ t.got = s.got /\ t.skipfirstblk = s.skipfirstblk
  BY <1>1, <1>2 DEF Cmd, Kept
<1> QED BY <1>3 DEF l, o, q, t

\* A step of the loops to another offset.
LEMMA SkipFacts ==
  ASSUME NEW s \in Cmd, NEW o \in Nat, NEW k \in BOOLEAN, NEW t,
         t = [s EXCEPT !.off = o, !.skipfirstblk = k]
  PROVE  /\ t \in Cmd /\ Kept(s, t) /\ t.ret = s.ret /\ t.off = o /\ t.left = s.left /\ t.p = s.p
         /\ t.got = s.got /\ t.skipfirstblk = k
BY DEF Cmd, Kept

LEMMA NextBlockFacts ==
  ASSUME NEW s \in Cmd
  PROVE  LET t == NextBlock(s) IN
         /\ t \in Cmd /\ Kept(s, t) /\ t.ret = s.ret /\ t.off = s.off + BlockLeft(s.off)
         /\ t.left = s.left /\ t.p = s.p /\ t.got = s.got /\ t.skipfirstblk = s.skipfirstblk
<1> DEFINE o == s.off + BlockLeft(s.off)
           t == NextBlock(s)
<1>0. s.off \in Nat
  BY DEF Cmd
<1>1. BlockLeft(s.off) \in 1..EraseSize
  BY <1>0, BlockFacts
<1>2. o \in Nat
  BY <1>0, <1>1, Params
<1>3. t = [s EXCEPT !.off = o]
  BY DEF NextBlock
<1> HIDE DEF o, t
<1>4. /\ t \in Cmd /\ Kept(s, t) /\ t.ret = s.ret /\ t.off = o
      /\ t.left = s.left /\ t.p = s.p /\ t.got = s.got /\ t.skipfirstblk = s.skipfirstblk
  BY <1>2, <1>3 DEF Cmd, Kept
<1> QED BY <1>4 DEF o, t

ChipType ==
    /\ flash \in FlashType /\ oob \in OobType
    /\ marked \subseteq Blocks /\ bbt \subseteq Blocks
    /\ ram \in Images

LEMMA EmptyResult ==
  /\ [i \in {} |-> 0] \in Results
  /\ \A k \in Nat : \A f \in [0..(k - 1) -> Int] : f \in Results
<1>1. \A k \in Nat : \A f \in [0..(k - 1) -> Int] : f \in Results
  BY DEF Results
<1>2. [i \in {} |-> 0] \in [0..(0 - 1) -> Int]
  OBVIOUS
<1> QED BY <1>1, <1>2

\* A command when it is entered.
LEMMA NewCmdFacts ==
  ASSUME ChipType, NEW op \in Ops, NEW off \in Nat, NEW len \in Nat
  PROVE  LET t == NewCmd(op, off, len) IN
         /\ t \in Cmd /\ t.op = op /\ t.ret = "run" /\ t.at = off /\ t.off = off
         /\ t.len = len /\ t.left = len /\ t.p = 0 /\ ~t.rw_oob /\ ~t.skipfirstblk
         /\ t.bad = bbt /\ t.image = ram /\ t.before = flash /\ t.beforeOob = oob
         /\ t.got = [i \in {} |-> 0] /\ ~t.scrub
<1> DEFINE none == [i \in {} |-> 0]
<1>1. none \in Results
  BY EmptyResult
<1> HIDE DEF none
<1>2. LET t == [op |-> op, ret |-> "run", at |-> off, off |-> off, len |-> len, left |-> len, p |-> 0,
                rw_oob |-> FALSE, skipfirstblk |-> FALSE, clean |-> FALSE, scrub |-> FALSE,
                bad |-> bbt, image |-> ram, before |-> flash, beforeOob |-> oob, got |-> none]
      IN  /\ t \in Cmd /\ t.op = op /\ t.ret = "run" /\ t.at = off /\ t.off = off
          /\ t.len = len /\ t.left = len /\ t.p = 0 /\ ~t.rw_oob /\ ~t.skipfirstblk
          /\ t.bad = bbt /\ t.image = ram /\ t.before = flash /\ t.beforeOob = oob
          /\ t.got = none /\ ~t.scrub
  BY <1>1 DEF Cmd, ChipType, Ops, Rets
<1> QED BY <1>2 DEF NewCmd, none
----------------------------------------------------------------------------
(* nand_write for yaffs2: what its loops make of the image. *)

\* The image after the oob of i pages has been moved.
Shifted(buf, p, n, i) ==
    [u \in DOMAIN buf |->
        IF u < p \/ u >= p + n * (WriteSize + 1) THEN buf[u]
        ELSE IF u < p + i * WriteSize THEN buf[u + ((u - p) \div WriteSize)]
        ELSE IF u < p + n * (WriteSize + 1) - i THEN buf[u + i]
        ELSE buf[p + (u - (p + n * (WriteSize + 1) - i)) * (WriteSize + 1) + WriteSize]]

\* Where the parts of n pages with their oob begin.
LEMMA PageProducts ==
  ASSUME NEW n \in Nat, NEW i \in Nat, i < n
  PROVE  /\ i * WriteSize \in Nat /\ n * WriteSize \in Nat
         /\ i * WriteSize + WriteSize <= n * WriteSize
         /\ (i + 1) * WriteSize = i * WriteSize + WriteSize
         /\ WriteSize * (i + 1) = i * WriteSize + WriteSize
         /\ i * (WriteSize + 1) = i * WriteSize + i
         /\ n * (WriteSize + 1) = n * WriteSize + n
<1>1. (i + 1) * WriteSize <= n * WriteSize
  BY Params, TimesMono
<1>2. (i + 1) * WriteSize = i * WriteSize + WriteSize
  BY Params
<1>3. WriteSize * (i + 1) = i * WriteSize + WriteSize
  BY Params
<1>4. i * (WriteSize + 1) = i * WriteSize + i /\ n * (WriteSize + 1) = n * WriteSize + n
  BY Params
<1>5. i * WriteSize \in Nat /\ n * WriteSize \in Nat
  BY Params, TimesType
<1> QED BY <1>1, <1>2, <1>3, <1>4, <1>5

LEMMA MoveOobType ==
  ASSUME NEW buf \in Images, NEW p \in Nat, NEW n \in Nat, NEW i \in Nat, i < n,
         p + n * (WriteSize + 1) <= RamSize
  PROVE  MoveOob(buf, p, n, i) \in Images
<1> DEFINE from == p + WriteSize * (i + 1)
           end == p + n * (WriteSize + 1) - 1
<1>1. from \in Nat /\ end \in Nat /\ from <= end /\ end < RamSize
  BY PageProducts, Params
<1> HIDE DEF from, end
<1>2. \A u \in 0..(RamSize - 1) : u \in from..end /\ u # end => u + 1 \in 0..(RamSize - 1)
  BY <1>1, Params
<1>3. from \in 0..(RamSize - 1)
  BY <1>1, Params
<1>4. [u \in DOMAIN buf |-> IF u \notin from..end THEN buf[u]
                            ELSE IF u = end THEN buf[from] ELSE buf[u + 1]] \in Images
  BY <1>2, <1>3 DEF Images
<1> QED BY <1>4 DEF MoveOob, from, end

LEMMA ShiftStep ==
  ASSUME NEW buf \in Images, NEW p \in Nat, NEW n \in Nat, NEW i \in Nat, i < n,
         p + n * (WriteSize + 1) <= RamSize
  PROVE  MoveOob(Shifted(buf, p, n, i), p, n, i) = Shifted(buf, p, n, i + 1)
<1> DEFINE D == 0..(RamSize - 1)
           a == i * WriteSize
           T == n * (WriteSize + 1)
           old == Shifted(buf, p, n, i)
           new == Shifted(buf, p, n, i + 1)
           moved == MoveOob(old, p, n, i)
           from == p + a + WriteSize
           end == p + T - 1
<1>0. /\ a \in Nat /\ T \in Nat /\ a + WriteSize + n <= T /\ WriteSize \in Nat \ {0}
      /\ (i + 1) * WriteSize = a + WriteSize /\ i * (WriteSize + 1) = a + i
      /\ p + WriteSize * (i + 1) = from
  BY PageProducts, Params
<1>1. DOMAIN buf = D /\ DOMAIN old = D /\ DOMAIN new = D /\ DOMAIN moved = D
  BY DEF Images, Shifted, MoveOob
<1>2. \A u \in D : moved[u] = IF u \notin from..end THEN old[u]
                              ELSE IF u = end THEN old[from] ELSE old[u + 1]
  BY <1>0, <1>1 DEF MoveOob
<1>3. \A u \in D : old[u] =
        IF u < p \/ u >= p + T THEN buf[u]
        ELSE IF u < p + a THEN buf[u + ((u - p) \div WriteSize)]
        ELSE IF u < p + T - i THEN buf[u + i]
        ELSE buf[p + (u - (p + T - i)) * (WriteSize + 1) + WriteSize]
  BY <1>1 DEF Shifted
<1>4. \A u \in D : new[u] =
        IF u < p \/ u >= p + T THEN buf[u]
        ELSE IF u < p + (a + WriteSize) THEN buf[u + ((u - p) \div WriteSize)]
        ELSE IF u < p + T - (i + 1) THEN buf[u + (i + 1)]
        ELSE buf[p + (u - (p + T - (i + 1))) * (WriteSize + 1) + WriteSize]
  BY <1>0, <1>1 DEF Shifted
<1>5. ASSUME NEW u \in D, p + a <= u, u < from
      PROVE  (u - p) \div WriteSize = i
  <2> DEFINE r == u - p - a
  <2>1. r \in Nat /\ r < WriteSize /\ u - p = a + r
    BY <1>0, <1>5
  <2> HIDE DEF r
  <2> QED BY <2>1, <1>0, DivUnique
<1>6. moved = [u \in D |-> moved[u]] /\ new = [u \in D |-> new[u]]
  BY <1>1 DEF MoveOob, Shifted
<1> HIDE DEF a, T, old, new, moved, D
<1>7. ASSUME NEW u \in D PROVE moved[u] = new[u]
  <2>0. u \in Nat
    BY Params DEF D
  <2>1. CASE u < p \/ u >= p + T
    <3>1. u \notin from..end
      BY <1>0, <2>0, <2>1
    <3> QED BY <1>2, <1>3, <1>4, <2>1, <3>1
  <2>2. CASE p <= u /\ u < p + a
    <3>1. u \notin from..end /\ ~(u < p \/ u >= p + T) /\ u < p + (a + WriteSize)
      BY <1>0, <2>0, <2>2
    <3> QED BY <1>2, <1>3, <1>4, <2>2, <3>1
  <2>3. CASE p + a <= u /\ u < from
    <3>1. /\ u \notin from..end /\ ~(u < p \/ u >= p + T) /\ ~(u < p + a) /\ u < p + T - i
          /\ u < p + (a + WriteSize)
      BY <1>0, <2>0, <2>3
    <3>2. (u - p) \div WriteSize = i
      BY <1>5, <2>3
    <3> QED BY <1>2, <1>3, <1>4, <3>1, <3>2
  <2>4. CASE from <= u /\ u < end
    <3>1. /\ u \in from..end /\ u # end /\ u + 1 \in Nat /\ u + 1 < p + T
          /\ ~(u < p \/ u >= p + T) /\ ~(u + 1 < p \/ u + 1 >= p + T)
          /\ ~(u < p + (a + WriteSize)) /\ ~(u + 1 < p + a)
      BY <1>0, <2>0, <2>4
    <3>2. u + 1 \in D
      BY <2>0, <3>1, <1>0, Params DEF D, T
    <3>3. moved[u] = old[u + 1]
      BY <1>2, <3>1
    <3>4. CASE u + 1 < p + T - i
      <4>1. u < p + T - (i + 1) /\ (u + 1) + i = u + (i + 1)
        BY <1>0, <2>0, <3>4
      <4> QED BY <1>3, <1>4, <3>1, <3>2, <3>3, <3>4, <4>1
    <3>5. CASE ~(u + 1 < p + T - i)
      <4>1. ~(u < p + T - (i + 1)) /\ (u + 1) - (p + T - i) = u - (p + T - (i + 1))
        BY <1>0, <2>0, <3>5
      <4>2. old[u + 1] = buf[p + ((u + 1) - (p + T - i)) * (WriteSize + 1) + WriteSize]
        BY <1>3, <3>1, <3>2, <3>5
      <4>3. new[u] = buf[p + (u - (p + T - (i + 1))) * (WriteSize + 1) + WriteSize]
        BY <1>4, <3>1, <4>1
      <4> QED BY <3>3, <4>1, <4>2, <4>3
    <3> QED BY <3>4, <3>5
  <2>5. CASE u = end
    <3>1. /\ u \in from..end /\ from \in Nat /\ from < p + T /\ ~(u < p \/ u >= p + T)
          /\ ~(from < p \/ from >= p + T) /\ ~(from < p + a) /\ from < p + T - i
          /\ ~(u < p + (a + WriteSize)) /\ ~(u < p + T - (i + 1)) /\ u - (p + T - (i + 1)) = i
      BY <1>0, <2>0, <2>5
    <3>2. from \in D
      BY <3>1, <1>0, Params DEF D, T
    <3>3. moved[u] = buf[from + i]
      BY <1>2, <1>3, <2>5, <3>1, <3>2
    <3>4. new[u] = buf[p + i * (WriteSize + 1) + WriteSize]
      BY <1>4, <3>1
    <3>5. p + i * (WriteSize + 1) + WriteSize = from + i
      BY <1>0
    <3> QED BY <3>3, <3>4, <3>5
  <2> QED BY <1>0, <2>0, <2>1, <2>2, <2>3, <2>4, <2>5
<1>8. moved = new
  BY <1>6, <1>7, Zenon
<1> QED BY <1>8 DEF moved, old, new

LEMMA ShiftNone ==
  ASSUME NEW buf \in Images, NEW p \in Nat, NEW n \in Nat
  PROVE  Shifted(buf, p, n, 0) = buf
<1> DEFINE D == 0..(RamSize - 1)
           T == n * (WriteSize + 1)
           new == Shifted(buf, p, n, 0)
<1>0. T \in Nat /\ 0 * WriteSize = 0
  BY Params, TimesType
<1>1. DOMAIN buf = D /\ DOMAIN new = D
  BY DEF Images, Shifted
<1>2. buf = [u \in D |-> buf[u]] /\ new = [u \in D |-> new[u]]
  BY <1>1 DEF Images, Shifted
<1>3. ASSUME NEW u \in D PROVE new[u] = buf[u]
  <2>1. u \in Nat /\ u + 0 = u
    BY Params
  <2>2. new[u] =
          IF u < p \/ u >= p + T THEN buf[u]
          ELSE IF u < p + 0 * WriteSize THEN buf[u + ((u - p) \div WriteSize)]
          ELSE IF u < p + T - 0 THEN buf[u + 0]
          ELSE buf[p + (u - (p + T - 0)) * (WriteSize + 1) + WriteSize]
    BY <1>1 DEF Shifted
  <2> HIDE DEF T, new
  <2>3. CASE u < p \/ u >= p + T
    BY <2>2, <2>3
  <2>4. CASE ~(u < p \/ u >= p + T)
    <3>1. ~(u < p + 0 * WriteSize) /\ u < p + T - 0
      BY <1>0, <2>1, <2>4
    <3> QED BY <2>1, <2>2, <2>4, <3>1
  <2> QED BY <2>3, <2>4
<1> HIDE DEF new, D
<1>4. new = buf
  BY <1>2, <1>3, Zenon
<1> QED BY <1>4 DEF new

LEMMA DataThenOobShift ==
  ASSUME NEW buf \in Images, NEW p \in Nat, NEW n \in Nat, p + n * (WriteSize + 1) <= RamSize
  PROVE  DataThenOob(buf, p, n) = Shifted(buf, p, n, n) /\ DataThenOob(buf, p, n) \in Images
<1> DEFINE S(i) == Shifted(buf, p, n, i)
           Loops(f) == f = [i \in 0..n |-> IF i = 0 THEN buf ELSE MoveOob(f[i - 1], p, n, i - 1)]
           f == [i \in 0..n |-> S(i)]
           after == CHOOSE g : Loops(g)
<1>1. S(0) = buf
  BY ShiftNone
<1>2. \A i \in Nat : i < n => MoveOob(S(i), p, n, i) = S(i + 1)
  BY ShiftStep
<1> HIDE DEF S
<1>3. Loops(f)
  <2>1. ASSUME NEW i \in 0..n
        PROVE  S(i) = IF i = 0 THEN buf ELSE MoveOob(f[i - 1], p, n, i - 1)
    <3>1. CASE i = 0
      BY <1>1, <3>1
    <3>2. CASE i # 0
      <4>1. i - 1 \in Nat /\ i - 1 < n /\ i - 1 \in 0..n /\ (i - 1) + 1 = i
        BY <3>2
      <4>2. MoveOob(S(i - 1), p, n, i - 1) = S(i)
        BY <1>2, <4>1
      <4>3. f[i - 1] = S(i - 1)
        BY <4>1
      <4> QED BY <3>2, <4>2, <4>3
    <3> QED BY <3>1, <3>2
  <2> QED BY <2>1, Zenon
<1>4. Loops(after)
  <2> HIDE DEF Loops
  <2> QED BY <1>3, Zenon
<1>5. DataThenOob(buf, p, n) = after[n]
  BY Zenon DEF DataThenOob
<1> HIDE DEF f, after
<1>6. \A i \in Nat : i <= n => after[i] = S(i) /\ S(i) \in Images
  <2> DEFINE Q == {i \in Nat : i <= n => after[i] = S(i) /\ S(i) \in Images}
  <2>1. 0 \in Q
    BY <1>1, <1>4
  <2>2. ASSUME NEW i \in Q PROVE i + 1 \in Q
    <3> SUFFICES ASSUME i + 1 <= n PROVE after[i + 1] = S(i + 1) /\ S(i + 1) \in Images
      OBVIOUS
    <3>1. i \in Nat /\ i < n /\ i <= n /\ i + 1 \in 0..n /\ i + 1 # 0 /\ (i + 1) - 1 = i
      OBVIOUS
    <3>2. after[i] = S(i) /\ S(i) \in Images
      BY <3>1
    <3>3. after[i + 1] = MoveOob(after[i], p, n, i)
      BY <1>4, <3>1
    <3>4. MoveOob(S(i), p, n, i) = S(i + 1)
      BY <1>2, <3>1
    <3>5. MoveOob(S(i), p, n, i) \in Images
      BY <3>1, <3>2, MoveOobType
    <3> QED BY <3>2, <3>3, <3>4, <3>5
  <2>3. Q = Nat
    <3> HIDE DEF Q
    <3>1. Q \in SUBSET Nat
      BY DEF Q
    <3> QED BY <2>1, <2>2, <3>1, SetInduction
  <2> QED BY <2>3
<1>7. after[n] = S(n) /\ S(n) \in Images
  BY <1>6
<1> QED BY <1>5, <1>7 DEF S

\* The data of n pages comes first, then their oob; the rest of the image stays.
LEMMA DataThenOobFacts ==
  ASSUME NEW buf \in Images, NEW p \in Nat, NEW n \in Nat, p + n * (WriteSize + 1) <= RamSize,
         NEW new, new = DataThenOob(buf, p, n)
  PROVE  /\ new \in Images
         /\ \A k \in Nat : k < n * WriteSize => new[p + k] = buf[p + k + (k \div WriteSize)]
         /\ \A j \in Nat : j < n =>
               new[p + n * WriteSize + j] = buf[p + j * (WriteSize + 1) + WriteSize]
         /\ \A u \in Nat : p + n * (WriteSize + 1) <= u /\ u < RamSize => new[u] = buf[u]
<1> DEFINE D == 0..(RamSize - 1)
           T == n * (WriteSize + 1)
           N == n * WriteSize
<1>0. N \in Nat /\ T = N + n
  BY Params, TimesType
<1>1. DOMAIN buf = D /\ new = Shifted(buf, p, n, n) /\ new \in Images
  BY DataThenOobShift DEF Images
<1>2. \A u \in D : new[u] =
        IF u < p \/ u >= p + T THEN buf[u]
        ELSE IF u < p + N THEN buf[u + ((u - p) \div WriteSize)]
        ELSE IF u < p + T - n THEN buf[u + n]
        ELSE buf[p + (u - (p + T - n)) * (WriteSize + 1) + WriteSize]
  BY <1>1 DEF Shifted
<1>3. p + T <= RamSize /\ RamSize \in Nat
  BY Params
<1> HIDE DEF T, N
<1>4. \A u \in Nat : u < RamSize => u \in D
  BY <1>3
<1> HIDE DEF D
<1>5. ASSUME NEW k \in Nat, k < N PROVE new[p + k] = buf[p + k + (k \div WriteSize)]
  <2>1. p + k \in Nat /\ p + k < RamSize /\ ~(p + k < p \/ p + k >= p + T) /\ p + k < p + N
        /\ (p + k) - p = k
    BY <1>0, <1>3, <1>5
  <2> QED BY <1>2, <1>4, <2>1
<1>6. ASSUME NEW j \in Nat, j < n
      PROVE  new[p + N + j] = buf[p + j * (WriteSize + 1) + WriteSize]
  <2>1. /\ p + N + j \in Nat /\ p + N + j < RamSize /\ ~(p + N + j < p \/ p + N + j >= p + T)
        /\ ~(p + N + j < p + N) /\ ~(p + N + j < p + T - n) /\ (p + N + j) - (p + T - n) = j
    BY <1>0, <1>3, <1>6
  <2>2. new[p + N + j] = buf[p + ((p + N + j) - (p + T - n)) * (WriteSize + 1) + WriteSize]
    BY <1>2, <1>4, <2>1
  <2> QED BY <2>1, <2>2
<1>7. ASSUME NEW u \in Nat, p + T <= u, u < RamSize PROVE new[u] = buf[u]
  BY <1>2, <1>4, <1>7
<1> QED BY <1>1, <1>5, <1>6, <1>7 DEF N, T
----------------------------------------------------------------------------
(* The inductive invariant for TypeOK: the pages still to be written, with *)
(* their oob, lie inside the image in memory.                              *)

Running(op) == cmd.op = op /\ cmd.ret = "run"

\* Units of the image that l units of data take.
InImage(s, l) == l + (IF s.rw_oob THEN l \div WriteSize ELSE 0)

WritePlace(s) == Whole(s.off) /\ Whole(s.left) /\ s.p + InImage(s, s.left) <= RamSize
ReadPlace(s) == ~s.rw_oob /\ s.got \in [0..(s.p - 1) -> Int]

CmdInv(s) ==
    /\ s \in Cmd
    /\ s.op \in {"write", "read"} => s.left <= s.len
    /\ s.op = "write" /\ s.ret = "run" => WritePlace(s)
    /\ s.op = "read" /\ s.ret = "run" => ReadPlace(s)

TypeInv ==
    /\ ChipType
    /\ ncmds \in 0..MaxCmds /\ fails \in 0..MaxFails
    /\ cmd = None \/ CmdInv(cmd)

LEMMA RunningCmd ==
  ASSUME TypeInv, cmd.ret = "run"
  PROVE  CmdInv(cmd) /\ cmd \in Cmd
BY DEF TypeInv, None, CmdInv

LEMMA TypeInvOK == TypeInv => TypeOK
<1> SUFFICES ASSUME TypeInv PROVE TypeOK
  OBVIOUS
<1>1. cmd.ret \in Rets /\ (cmd.op \in {"write", "read"} => cmd.left \in 0..cmd.len)
  <2>1. CASE cmd = None
    BY <2>1 DEF None, Rets
  <2>2. CASE CmdInv(cmd)
    <3>1. cmd.ret \in Rets /\ cmd.left \in Nat /\ cmd.len \in Nat
      BY <2>2 DEF CmdInv, Cmd
    <3> QED BY <2>2, <3>1 DEF CmdInv
  <2> QED BY <2>1, <2>2 DEF TypeInv
<1> QED BY <1>1 DEF TypeInv, ChipType, FlashType, OobType, TypeOK, Rets

LEMMA InitTypes == Init => TypeInv
<1> SUFFICES ASSUME Init PROVE TypeInv
  OBVIOUS
<1>1. Image \in Images
  BY DEF Image, Images
<1>2. flash \in FlashType /\ oob \in OobType
  BY DEF Init, FlashType, OobType, Erased
<1> QED BY <1>1, <1>2, Params DEF Init, TypeInv, ChipType, None

\* A command that is entered.
LEMMA EnterTypes ==
  ASSUME TypeInv, NEW s, CmdInv(s), Enter(s), ChipType', fails' \in 0..MaxFails
  PROVE  TypeInv'
<1>1. ncmds' \in 0..MaxCmds
  BY Params DEF TypeInv, Enter
<1>2. cmd' = s
  BY DEF Enter
<1> QED BY <1>1, <1>2 DEF TypeInv

LEMMA SameChip ==
  ASSUME ChipType, UNCHANGED <<chip, bbt, ram>>
  PROVE  ChipType'
BY DEF ChipType, chip

LEMMA ReturnInv ==
  ASSUME NEW s, CmdInv(s), NEW r \in Rets \ {"run"}
  PROVE  CmdInv(Return(s, r))
<1>1. s \in Cmd /\ r \in Rets
  BY DEF CmdInv
<1>2. /\ Return(s, r) \in Cmd /\ Kept(s, Return(s, r)) /\ Return(s, r).ret = r
      /\ Return(s, r).left = s.left
  BY <1>1, ReturnFacts
<1> QED BY <1>2 DEF CmdInv, Kept

LEMMA EraseCmdTypes ==
  ASSUME TypeInv, NEW off \in Nat, NEW len \in Nat, NEW clean \in BOOLEAN, NEW scrub \in BOOLEAN,
         NandErase(off, len, clean, scrub)
  PROVE  TypeInv'
<1> DEFINE n == NewCmd("erase", off, len)
           l == IF len < EraseSize THEN EraseSize ELSE len
           s == [n EXCEPT !.left = l, !.clean = clean, !.scrub = scrub]
<1>1. n \in Cmd /\ n.op = "erase" /\ l \in Nat
  BY NewCmdFacts, Params DEF TypeInv, Ops
<1>2. Enter(s)
  BY DEF NandErase
<1> HIDE DEF n, l
<1>3. s \in Cmd /\ s.op = "erase"
  BY <1>1 DEF Cmd
<1> HIDE DEF s
<1>4. CmdInv(s)
  BY <1>3 DEF CmdInv
<1>5. ChipType'
  BY SameChip DEF NandErase, TypeInv
<1> QED BY <1>2, <1>4, <1>5, EnterTypes DEF NandErase, TypeInv

\* The command that nand_write_skip_bad starts with.
WriteCmd(off, n, yaffs) ==
    [NewCmd("write", off, n) EXCEPT !.rw_oob = yaffs, !.skipfirstblk = yaffs]

LEMMA WriteCmdFacts ==
  ASSUME ChipType, NEW off \in Nat, NEW len \in Nat, NEW yaffs \in BOOLEAN, len <= RamSize,
         NEW n, n = IF yaffs THEN (len \div (WriteSize + 1)) * WriteSize ELSE len,
         NEW s, s = WriteCmd(off, n, yaffs)
  PROVE  /\ n \in Nat /\ s \in Cmd /\ s.op = "write" /\ s.ret = "run" /\ s.at = off /\ s.off = off
         /\ s.len = n /\ s.left = n /\ s.p = 0 /\ s.rw_oob = yaffs /\ s.skipfirstblk = yaffs
         /\ s.bad = bbt /\ s.image = ram /\ s.before = flash /\ s.beforeOob = oob
         /\ ~(yaffs /\ len % (WriteSize + 1) # 0) /\ PageAligned(off, n) => CmdInv(s)
<1>0. /\ len \div (WriteSize + 1) \in Nat
      /\ len = (len \div (WriteSize + 1)) * (WriteSize + 1) + (len % (WriteSize + 1))
  <2>1. WriteSize + 1 \in Nat \ {0}
    BY Params
  <2> QED BY <2>1, DivMod, Zenon
<1>1. n \in Nat
  <2>1. len \div (WriteSize + 1) \in Nat
    BY <1>0
  <2> QED BY <2>1, Params, TimesType
<1> DEFINE t == NewCmd("write", off, n)
<1>2. /\ t \in Cmd /\ t.op = "write" /\ t.ret = "run" /\ t.at = off /\ t.off = off
      /\ t.len = n /\ t.left = n /\ t.p = 0
      /\ t.bad = bbt /\ t.image = ram /\ t.before = flash /\ t.beforeOob = oob
  BY <1>1, NewCmdFacts DEF Ops
<1> HIDE DEF t
<1>3. s = [t EXCEPT !.rw_oob = yaffs, !.skipfirstblk = yaffs]
  BY DEF t, WriteCmd
<1>4. /\ s \in Cmd /\ s.op = t.op /\ s.ret = t.ret /\ s.at = t.at /\ s.off = t.off
      /\ s.len = t.len /\ s.left = t.left /\ s.p = t.p /\ s.rw_oob = yaffs /\ s.skipfirstblk = yaffs
      /\ s.bad = t.bad /\ s.image = t.image /\ s.before = t.before /\ s.beforeOob = t.beforeOob
  BY <1>2, <1>3 DEF Cmd
<1>5. ASSUME ~(yaffs /\ len % (WriteSize + 1) # 0), PageAligned(off, n)
      PROVE  WritePlace(s)
  <2>1. Whole(off) /\ Whole(n)
    BY <1>5 DEF PageAligned, Whole
  <2>2. InImage(s, n) <= RamSize
    <3>1. CASE yaffs
      <4> DEFINE k == len \div (WriteSize + 1)
      <4>1. k \in Nat /\ len = k * (WriteSize + 1) + (len % (WriteSize + 1))
        BY <1>0
      <4>2. len % (WriteSize + 1) = 0
        BY <1>5, <3>1
      <4> HIDE DEF k
      <4>3. n = k * WriteSize
        BY <3>1 DEF k
      <4>4. n \div WriteSize = k
        BY <1>1, <4>1, <4>3, WholeDef
      <4>5. k * (WriteSize + 1) = k * WriteSize + k /\ k * WriteSize \in Nat
        BY <4>1, Params, TimesType
      <4>6. InImage(s, n) = n + (n \div WriteSize)
        BY <1>4, <3>1 DEF InImage
      <4>7. len = k * WriteSize + k
        BY <4>1, <4>2, <4>5
      <4> QED BY <4>3, <4>4, <4>6, <4>7
    <3>2. CASE ~yaffs
      BY <1>1, <1>4, <3>2 DEF InImage
    <3> QED BY <3>1, <3>2
  <2>3. InImage(s, n) \in Nat
    BY <1>1, <2>1, WholeDef DEF InImage
  <2> QED BY <1>2, <1>4, <2>1, <2>2, <2>3 DEF WritePlace
<1>6. s.left <= s.len
  BY <1>1, <1>2, <1>4
<1> QED BY <1>1, <1>2, <1>4, <1>5, <1>6 DEF CmdInv

LEMMA WriteCmdTypes ==
  ASSUME TypeInv, NEW off \in Nat, NEW len \in Nat, NEW yaffs \in BOOLEAN,
         NandWrite(off, len, yaffs)
  PROVE  TypeInv'
<1>1. PICK n : n = IF yaffs THEN (len \div (WriteSize + 1)) * WriteSize ELSE len
  OBVIOUS
<1>2. PICK s : s = WriteCmd(off, n, yaffs)
  OBVIOUS
<1>3. /\ len <= RamSize
      /\ Enter(IF \/ yaffs /\ len % (WriteSize + 1) # 0
                  \/ ~PageAligned(off, n)
                  \/ off + get_len_incl_bad(off, n) > size
               THEN Return(s, "einval") ELSE s)
      /\ UNCHANGED <<chip, bbt, ram, fails>>
  BY <1>1, <1>2, Zenon DEF NandWrite, WriteCmd
<1>4. /\ s \in Cmd /\ s.op = "write" /\ s.len = n /\ s.left = n /\ n \in Nat
      /\ ~(yaffs /\ len % (WriteSize + 1) # 0) /\ PageAligned(off, n) => CmdInv(s)
  <2>1. ChipType /\ len <= RamSize
    BY <1>3 DEF TypeInv
  <2>2. /\ n \in Nat /\ s \in Cmd /\ s.op = "write" /\ s.ret = "run" /\ s.at = off /\ s.off = off
        /\ s.len = n /\ s.left = n /\ s.p = 0 /\ s.rw_oob = yaffs /\ s.skipfirstblk = yaffs
        /\ s.bad = bbt /\ s.image = ram /\ s.before = flash /\ s.beforeOob = oob
        /\ ~(yaffs /\ len % (WriteSize + 1) # 0) /\ PageAligned(off, n) => CmdInv(s)
    BY <1>1, <1>2, <2>1, WriteCmdFacts
  <2> QED BY <2>2
<1>5. CmdInv(Return(s, "einval"))
  <2>1. /\ Return(s, "einval") \in Cmd /\ Kept(s, Return(s, "einval"))
        /\ Return(s, "einval").ret = "einval" /\ Return(s, "einval").left = s.left
    BY <1>4, ReturnFacts DEF Rets
  <2> QED BY <1>4, <2>1 DEF CmdInv, Kept
<1>6. ChipType' /\ fails' \in 0..MaxFails
  BY <1>3, SameChip DEF TypeInv
<1>7. \/ Enter(Return(s, "einval"))
      \/ Enter(s) /\ ~(yaffs /\ len % (WriteSize + 1) # 0) /\ PageAligned(off, n)
  BY <1>3
<1> QED BY <1>4, <1>5, <1>6, <1>7, EnterTypes

\* What a read has got after n more units.
LEMMA GotFacts ==
  ASSUME NEW f \in FlashType, f = flash, NEW s \in Cmd, s.got \in [0..(s.p - 1) -> Int], NEW n \in Nat,
         s.off + n <= size
  PROVE  Got(s, n) \in [0..(s.p + n - 1) -> Int] /\ Got(s, n) \in Results
<1>1. s.p \in Nat /\ s.off \in Nat
  BY DEF Cmd
<1>2. DOMAIN s.got \cup s.p..(s.p + n - 1) = 0..(s.p + n - 1)
  BY <1>1
<1>3. ASSUME NEW i \in 0..(s.p + n - 1)
      PROVE  (IF i < s.p THEN s.got[i] ELSE flash[s.off + i - s.p]) \in Int
  <2>1. CASE i < s.p
    BY <1>1, <2>1
  <2>2. CASE ~(i < s.p)
    <3>0. size \in Nat
      BY SizeFacts
    <3>1. s.off + i - s.p \in Nat /\ s.off + i - s.p < size
      BY <1>1, <2>2, <3>0, SMTT(30)
    <3>2. s.off + i - s.p \in Units
      BY <3>1, SizeFacts
    <3> QED BY <2>2, <3>2 DEF FlashType
  <2> QED BY <2>1, <2>2
<1>4. Got(s, n) \in [0..(s.p + n - 1) -> Int]
  BY <1>2, <1>3 DEF Got
<1>5. s.p + n \in Nat /\ (s.p + n) - 1 = s.p + n - 1
  BY <1>1
<1>6. ASSUME NEW k \in Nat, k = s.p + n PROVE Got(s, n) \in Results
  BY <1>4, <1>5, <1>6, EmptyResult
<1>7. Got(s, n) \in Results
  BY <1>5, <1>6
<1> QED BY <1>4, <1>7, Zenon

LEMMA ReadCmdTypes ==
  ASSUME TypeInv, NEW off \in Nat, NEW len \in Nat, NandRead(off, len)
  PROVE  TypeInv'
<1>0. ChipType /\ fails \in 0..MaxFails
  BY DEF TypeInv
<1>1. PICK s : s = NewCmd("read", off, len)
  OBVIOUS
<1>2. /\ s \in Cmd /\ s.op = "read" /\ s.ret = "run" /\ s.off = off /\ s.len = len /\ s.left = len
      /\ s.p = 0 /\ ~s.rw_oob /\ s.got = [i \in {} |-> 0]
  BY <1>0, <1>1, NewCmdFacts DEF Ops
<1>3. s.got \in [0..(s.p - 1) -> Int]
  BY <1>2
<1>4. CmdInv(s)
  BY <1>2, <1>3 DEF CmdInv, ReadPlace
<1>5. ChipType'
  BY <1>0, SameChip DEF NandRead
<1>6. CASE Enter(Return(s, "einval")) /\ UNCHANGED fails
  BY <1>0, <1>4, <1>5, <1>6, ReturnInv, EnterTypes DEF Rets
<1>7. CASE Enter(s) /\ UNCHANGED fails
  BY <1>0, <1>4, <1>5, <1>7, EnterTypes
<1>8. CASE /\ off + get_len_incl_bad(off, len) <= size /\ Direct(off, len) /\ UNCHANGED fails
           /\ Enter([Return(s, "ok") EXCEPT !.got = Got(s, len), !.left = 0])
  <2> DEFINE r == Return(s, "ok")
             f == Got(s, len)
             t == [r EXCEPT !.got = f, !.left = 0]
  <2>1. f \in Results
    BY <1>0, <1>2, <1>3, <1>8, GotFacts DEF Direct, ChipType
  <2>2. r \in Cmd /\ r.op = "read" /\ r.ret = "ok" /\ r.len = len
    BY <1>2, ReturnFacts DEF Rets, Kept
  <2> HIDE DEF r, f
  <2>3. t \in Cmd /\ t.op = "read" /\ t.ret = "ok" /\ t.left = 0 /\ t.len = len
    BY <2>1, <2>2 DEF Cmd
  <2> HIDE DEF t
  <2>4. CmdInv(t)
    BY <2>3 DEF CmdInv
  <2>5. Enter(t)
    BY <1>8 DEF t, r, f
  <2> QED BY <1>0, <1>5, <1>8, <2>4, <2>5, EnterTypes
<1>9. CASE fails < MaxFails /\ fails' = fails + 1 /\ Enter(Return(s, "failed"))
  <2>1. fails' \in 0..MaxFails
    BY <1>0, <1>9, Params
  <2> QED BY <1>4, <1>5, <1>9, <2>1, ReturnInv, EnterTypes DEF Rets
<1> QED BY <1>1, <1>6, <1>7, <1>8, <1>9 DEF NandRead

LEMMA MarkBadTypes ==
  ASSUME TypeInv, NEW b \in Blocks, MarkBad(b)
  PROVE  TypeInv'
<1>0. ChipType /\ fails \in 0..MaxFails
  BY DEF TypeInv
<1>1. PICK s : s = NewCmd("markbad", b * EraseSize, 0)
  OBVIOUS
<1>2. b * EraseSize \in Nat
  BY Params, TimesType DEF Blocks
<1>3. s \in Cmd /\ s.op = "markbad"
  BY <1>0, <1>1, <1>2, NewCmdFacts DEF Ops
<1>4. CmdInv(s)
  BY <1>3 DEF CmdInv
<1>5. ChipType' /\ fails' \in 0..MaxFails
  BY <1>0, Params DEF MarkBad, ChipType
<1>6. Enter(Return(s, "ok")) \/ Enter(Return(s, "error"))
  BY <1>1 DEF MarkBad
<1> QED BY <1>4, <1>5, <1>6, ReturnInv, EnterTypes DEF Rets

LEMMA LoadTypes ==
  ASSUME TypeInv, Load
  PROVE  TypeInv'
<1>0. ChipType /\ fails \in 0..MaxFails
  BY DEF TypeInv
<1>1. PICK s : s = NewCmd("load", 0, 0)
  OBVIOUS
<1>3. s \in Cmd /\ s.op = "load"
  BY <1>0, <1>1, NewCmdFacts DEF Ops
<1>4. CmdInv(s)
  BY <1>3 DEF CmdInv
<1>5. Image \in Images
  BY DEF Image, Images
<1>6. ChipType' /\ fails' \in 0..MaxFails
  BY <1>0, <1>5 DEF Load, ChipType, chip
<1>7. Enter(Return(s, "ok"))
  BY <1>1 DEF Load
<1> QED BY <1>4, <1>6, <1>7, ReturnInv, EnterTypes DEF Rets
----------------------------------------------------------------------------
(* The loops keep the types. *)

LEMMA EraseLoopTypes ==
  ASSUME TypeInv, EraseBlock
  PROVE  TypeInv'
<1>0. /\ ChipType /\ fails \in 0..MaxFails /\ ncmds \in 0..MaxCmds /\ ncmds' = ncmds /\ ram' = ram
      /\ cmd.op = "erase" /\ cmd.ret = "run"
  BY DEF TypeInv, EraseBlock, Idle
<1>1. CmdInv(cmd) /\ cmd \in Cmd
  BY <1>0, RunningCmd
<1>2. CmdInv(cmd')
  <2>1. CASE cmd' = Return(cmd, "ok") \/ cmd' = Return(cmd, "error")
    BY <1>1, <2>1, ReturnInv DEF Rets
  <2>2. CASE cmd' = [cmd EXCEPT !.off = @ + EraseSize]
    <3>1. cmd.off + EraseSize \in Nat
      BY <1>1, Params DEF Cmd
    <3>2. cmd' \in Cmd /\ cmd'.op = "erase"
      BY <1>0, <1>1, <2>2, <3>1 DEF Cmd
    <3> QED BY <3>2 DEF CmdInv
  <2> QED BY <2>1, <2>2 DEF EraseBlock
<1>3. ChipType' /\ fails' \in 0..MaxFails
  <2>1. CASE UNCHANGED <<chip, fails>>
    <3>1. bbt' = bbt \/ bbt' = marked
      BY DEF EraseBlock
    <3> QED BY <1>0, <2>1, <3>1 DEF ChipType, chip
  <2>2. ASSUME EraseOk(Block(cmd.off)), bbt' = bbt PROVE ChipType' /\ fails' \in 0..MaxFails
    <3>1. PICK m \in Markers :
            /\ oob' = [p \in Pages |-> IF Block(p * WriteSize) # Block(cmd.off) THEN oob[p]
                        ELSE IF p * WriteSize = Block(cmd.off) * EraseSize THEN m ELSE Erased]
            /\ fails' = fails \/ (fails < MaxFails /\ fails' = fails + 1)
      BY <2>2 DEF EraseOk
    <3>2. m \in {Erased, CleanMarker, Junk}
      BY DEF Markers
    <3>3. oob' \in OobType
      BY <1>0, <3>1, <3>2 DEF ChipType, OobType, Erased, CleanMarker, Junk
    <3>4. flash' \in FlashType
      BY <1>0, <2>2 DEF ChipType, FlashType, EraseOk, Erased
    <3>5. fails' \in 0..MaxFails
      BY <1>0, <3>1, Params
    <3> QED BY <1>0, <2>2, <3>3, <3>4, <3>5 DEF ChipType, EraseOk
  <2>3. ASSUME EraseFails(Block(cmd.off)), bbt' = bbt PROVE ChipType' /\ fails' \in 0..MaxFails
    <3>1. flash' \in FlashType /\ oob' \in OobType
      BY <1>0, <2>3 DEF ChipType, FlashType, OobType, EraseFails, Junk
    <3>2. fails' \in 0..MaxFails
      BY <1>0, <2>3, Params DEF EraseFails
    <3> QED BY <1>0, <2>3, <3>1, <3>2 DEF ChipType, EraseFails
  <2> QED BY <2>1, <2>2, <2>3 DEF EraseBlock
<1> QED BY <1>0, <1>2, <1>3 DEF TypeInv

\* What one round of nand_write_skip_bad has to do with.
LEMMA WriteRoom ==
  ASSUME NEW s, CmdInv(s), s.op = "write", s.ret = "run", s.left > 0,
         NEW n, n = Chunk(s), NEW pages, pages = n \div WriteSize
  PROVE  /\ n \in Nat \ {0} /\ n <= s.left /\ n <= BlockLeft(s.off) /\ Whole(n)
         /\ pages \in Nat \ {0} /\ n = pages * WriteSize
         /\ InImage(s, n) = n + (IF s.rw_oob THEN pages ELSE 0)
         /\ InImage(s, s.left - n) \in Nat
         /\ InImage(s, s.left) = InImage(s, n) + InImage(s, s.left - n)
         /\ s.p + InImage(s, n) <= RamSize
         /\ CmdInv(Advance(s, n))
<1>0. /\ s \in Cmd /\ s.off \in Nat /\ s.left \in Nat \ {0} /\ s.p \in Nat /\ s.len \in Nat
      /\ Whole(s.off) /\ Whole(s.left) /\ s.p + InImage(s, s.left) <= RamSize /\ s.left <= s.len
      /\ s.rw_oob \in BOOLEAN
  BY DEF CmdInv, WritePlace, Cmd
<1>1. n \in Nat \ {0} /\ n <= s.left /\ n <= BlockLeft(s.off) /\ Whole(n)
  <2>1. n = Least(s.left, BlockLeft(s.off))
    BY DEF Chunk
  <2> QED BY <1>0, <2>1, ChunkFacts
<1>2. pages \in Nat /\ n = pages * WriteSize
  BY <1>1, WholeDef
<1>3. pages # 0
  <2>1. 0 * WriteSize = 0
    BY Params
  <2> QED BY <1>1, <1>2, <2>1, Zenon
<1>4. s.left - n \in Nat /\ Whole(s.left - n) /\ Whole(s.off + n)
      /\ (s.left - n) \div WriteSize = (s.left \div WriteSize) - pages
      /\ s.left \div WriteSize \in Nat /\ (s.left - n) \div WriteSize \in Nat
  <2>1. s.left \in Nat /\ n \in Nat /\ s.left - n \in Nat
    BY <1>0, <1>1
  <2>2. Whole(s.left - n) /\ (s.left - n) \div WriteSize = (s.left \div WriteSize) - pages
    BY <1>0, <1>1, <2>1, WholeDiff
  <2>3. Whole(s.off + n)
    BY <1>0, <1>1, <2>1, WholeSum
  <2>4. s.left \div WriteSize \in Nat /\ (s.left - n) \div WriteSize \in Nat
    BY <2>1, PageFacts
  <2> QED BY <2>1, <2>2, <2>3, <2>4
<1>5. /\ InImage(s, n) = n + (IF s.rw_oob THEN pages ELSE 0)
      /\ InImage(s, s.left - n) \in Nat
      /\ InImage(s, s.left) = InImage(s, n) + InImage(s, s.left - n)
  <2>1. CASE s.rw_oob
    <3>1. /\ InImage(s, n) = n + pages
          /\ InImage(s, s.left - n) = (s.left - n) + ((s.left - n) \div WriteSize)
          /\ InImage(s, s.left) = s.left + (s.left \div WriteSize)
      BY <2>1 DEF InImage
    <3> QED BY <1>0, <1>1, <1>2, <1>4, <2>1, <3>1
  <2>2. CASE ~s.rw_oob
    <3>1. InImage(s, n) = n + 0 /\ InImage(s, s.left - n) = (s.left - n) + 0
          /\ InImage(s, s.left) = s.left + 0
      BY <2>2 DEF InImage
    <3> QED BY <1>0, <1>1, <2>2, <3>1
  <2> QED BY <2>1, <2>2
<1>6. s.p + InImage(s, n) <= RamSize
  <2>1. InImage(s, n) \in Nat
    BY <1>1, <1>2, <1>5
  <2> QED BY <1>0, <1>5, <2>1, Params
<1>7. CmdInv(Advance(s, n))
  <2> DEFINE t == Advance(s, n)
  <2>1. /\ t \in Cmd /\ Kept(s, t) /\ t.ret = s.ret /\ t.off = s.off + n /\ t.left = s.left - n
        /\ t.p = s.p + n + (IF s.rw_oob THEN n \div WriteSize ELSE 0)
    BY <1>0, <1>1, AdvanceFacts
  <2> HIDE DEF t
  <2>2. t.p = s.p + InImage(s, n)
    BY <1>0, <1>1, <1>2, <1>5, <2>1
  <2>2b. InImage(t, t.left) = InImage(s, s.left - n)
    BY <2>1 DEF InImage, Kept
  <2>3. WritePlace(t)
    <3>1. InImage(s, n) \in Nat
      BY <1>1, <1>2, <1>5
    <3>2. t.p + InImage(t, t.left) = s.p + InImage(s, s.left)
      BY <1>0, <1>5, <2>2, <2>2b, <3>1
    <3> QED BY <1>0, <1>4, <2>1, <3>2 DEF WritePlace
  <2>4. t.left <= t.len /\ t.op = "write"
    BY <1>0, <1>1, <2>1 DEF Kept
  <2>5. CmdInv(t)
    BY <2>1, <2>3, <2>4 DEF CmdInv
  <2> QED BY <2>5 DEF t
<1> QED BY <1>1, <1>2, <1>3, <1>5, <1>6, <1>7

\* Programming inside the device.
LEMMA ProgramTypes ==
  ASSUME ChipType, NEW off \in Nat, NEW n \in Nat, NEW pages \in Nat, pages = n \div WriteSize,
         Whole(off), Whole(n),
         NEW image \in [0..(n - 1) -> Int], NEW spare \in [0..(pages - 1) -> Int], NEW stop \in Nat,
         Program(off, n, image, spare, stop)
  PROVE  flash' \in FlashType /\ oob' \in OobType
<1>1. \A u \in Units : u \in off..(off + n - 1) => u - off \in 0..(n - 1)
  BY SizeFacts
<1>2. flash' \in FlashType
  BY <1>1 DEF ChipType, Program, FlashType, Junk
<1>3. oob' \in OobType
  BY DEF ChipType, Program, OobType, Junk
<1> QED BY <1>2, <1>3

\* The image, the data and the oob that nand_write is to program.
Rearranged(s, image, n) == IF s.rw_oob THEN DataThenOob(image, s.p, n \div WriteSize) ELSE image
ToFlash(s, buf, n) == [i \in 0..(n - 1) |-> buf[s.p + i]]
ToOob(s, buf, n) ==
    [k \in 0..((n \div WriteSize) - 1) |-> IF s.rw_oob THEN buf[s.p + n + k] ELSE Erased]

\* The outcomes of a round.
WriteEnds ==
    /\ cmd.left = 0 /\ cmd' = Return(cmd, "ok")
    /\ last' = IF cmd.rw_oob THEN {} ELSE {cmd}
    /\ UNCHANGED <<chip, ram, fails>>
WriteSkips(bad) ==
    /\ cmd.left > 0 /\ MustSkip(cmd, bad)
    /\ cmd' = IF cmd.off > size /\ bad THEN cmd ELSE NextBlock([cmd EXCEPT !.skipfirstblk = bad /\ @])
    /\ UNCHANGED <<chip, ram, fails, last>>
WriteRefused(n) ==
    /\ ram' = Rearranged(cmd, ram, n)
    /\ cmd.off + n > size /\ cmd' = Return(cmd, "failed")
    /\ UNCHANGED <<chip, fails, last>>
WriteProgrammed(n, stop) ==
    /\ ram' = Rearranged(cmd, ram, n)
    /\ cmd.off + n <= size
    /\ Program(cmd.off, n, ToFlash(cmd, ram', n), ToOob(cmd, ram', n), stop)
    /\ cmd' = IF stop < n \div WriteSize THEN Return(cmd, "failed") ELSE Advance(cmd, n)
    /\ fails' = IF stop < n \div WriteSize THEN fails + 1 ELSE fails
    /\ UNCHANGED <<marked, last>>

LEMMA WriteRounds ==
  ASSUME WriteBlock
  PROVE  /\ cmd.op = "write" /\ cmd.ret = "run" /\ bbt' = bbt /\ ncmds' = ncmds
         /\ \/ WriteEnds
            \/ \E bad \in nand_block_isbad(cmd.off) :
                 \/ WriteSkips(bad)
                 \/ /\ cmd.left > 0 /\ ~MustSkip(cmd, bad)
                    /\ \/ WriteRefused(Chunk(cmd))
                       \/ \E stop \in (IF fails < MaxFails THEN 0 ELSE Chunk(cmd) \div WriteSize)..
                                        (Chunk(cmd) \div WriteSize) :
                            WriteProgrammed(Chunk(cmd), stop)
<1>1. cmd.op = "write" /\ cmd.ret = "run" /\ bbt' = bbt /\ ncmds' = ncmds
  BY DEF WriteBlock, Idle
<1>2. CASE cmd.left = 0
  BY <1>1, <1>2 DEF WriteBlock, WriteEnds
<1>3. CASE ~(cmd.left = 0)
  <2>1. PICK bad \in nand_block_isbad(cmd.off) :
          /\ cmd.left > 0 /\ UNCHANGED last
          /\ \/ /\ MustSkip(cmd, bad)
                /\ cmd' = IF cmd.off > size /\ bad THEN cmd
                          ELSE NextBlock([cmd EXCEPT !.skipfirstblk = bad /\ @])
                /\ UNCHANGED <<chip, ram, fails>>
             \/ ~MustSkip(cmd, bad) /\ WriteChunk(Chunk(cmd))
    BY <1>3, Zenon DEF WriteBlock
  <2>2. CASE MustSkip(cmd, bad)
    <3>1. WriteSkips(bad)
      BY <2>1, <2>2, Zenon DEF WriteSkips
    <3> QED BY <1>1, <3>1
  <2>3. CASE ~MustSkip(cmd, bad)
    <3> DEFINE n == Chunk(cmd)
    <3>1. WriteChunk(n)
      BY <2>1, <2>3
    <3> HIDE DEF n
    <3>2. \/ WriteRefused(n)
          \/ \E stop \in (IF fails < MaxFails THEN 0 ELSE n \div WriteSize)..(n \div WriteSize) :
               WriteProgrammed(n, stop)
      BY <2>1, <3>1, ZenonT(60)
         DEF WriteChunk, WriteRefused, WriteProgrammed, Rearranged, ToFlash, ToOob
    <3> QED BY <1>1, <2>1, <2>3, <3>2, Zenon DEF n
  <2> QED BY <2>2, <2>3
<1> QED BY <1>2, <1>3

\* nand_write keeps inside the image.
LEMMA RearrangedTypes ==
  ASSUME NEW s, CmdInv(s), s.op = "write", s.ret = "run", s.left > 0, NEW image \in Images,
         NEW n, n = Chunk(s), NEW buf, buf = Rearranged(s, image, n)
  PROVE  /\ buf \in Images
         /\ ToFlash(s, buf, n) \in [0..(n - 1) -> Int]
         /\ ToOob(s, buf, n) \in [0..((n \div WriteSize) - 1) -> Int]
<1> DEFINE pages == n \div WriteSize
<1>1. /\ n \in Nat \ {0} /\ pages \in Nat \ {0} /\ n = pages * WriteSize
      /\ s.p + InImage(s, n) <= RamSize /\ InImage(s, n) = n + (IF s.rw_oob THEN pages ELSE 0)
      /\ s.p \in Nat
  BY WriteRoom DEF CmdInv, Cmd
<1> HIDE DEF pages
<1>2. buf \in Images
  <2>1. CASE s.rw_oob
    <3>1. pages * (WriteSize + 1) = n + pages
      BY <1>1, Params, TimesType
    <3>2. s.p + pages * (WriteSize + 1) <= RamSize
      BY <1>1, <2>1, <3>1
    <3>3. buf = DataThenOob(image, s.p, pages)
      BY <2>1 DEF Rearranged, pages
    <3> QED BY <1>1, <3>2, <3>3, DataThenOobShift
  <2>2. CASE ~s.rw_oob
    BY <2>2 DEF Rearranged
  <2> QED BY <2>1, <2>2
<1>3. s.p + n <= RamSize /\ (s.rw_oob => s.p + n + pages <= RamSize)
  BY <1>1, Params
<1>4. \A i \in 0..(n - 1) : s.p + i \in 0..(RamSize - 1)
  BY <1>1, <1>3, Params
<1>5. s.rw_oob => \A k \in 0..(pages - 1) : s.p + n + k \in 0..(RamSize - 1)
  BY <1>1, <1>3, Params
<1>6. ToFlash(s, buf, n) \in [0..(n - 1) -> Int]
  BY <1>2, <1>4 DEF ToFlash, Images
<1>7. ToOob(s, buf, n) \in [0..(pages - 1) -> Int]
  <2>1. \A k \in 0..(pages - 1) : (IF s.rw_oob THEN buf[s.p + n + k] ELSE Erased) \in Int
    BY <1>2, <1>5 DEF Images, Erased
  <2>2. ToOob(s, buf, n) = [k \in 0..(pages - 1) |-> IF s.rw_oob THEN buf[s.p + n + k] ELSE Erased]
    BY DEF ToOob, pages
  <2> QED BY <2>1, <2>2
<1> QED BY <1>2, <1>6, <1>7 DEF pages

\* A block that is skipped.
LEMMA SkipInv ==
  ASSUME NEW s, CmdInv(s), s.op = "write", s.ret = "run", NEW bad \in BOOLEAN,
         NEW t, t = NextBlock([s EXCEPT !.skipfirstblk = bad /\ @])
  PROVE  /\ CmdInv(t) /\ t \in Cmd /\ Kept(s, t) /\ t.ret = "run"
         /\ t.off = s.off + BlockLeft(s.off) /\ t.left = s.left /\ t.p = s.p
         /\ t.skipfirstblk = (bad /\ s.skipfirstblk)
<1>0. /\ s \in Cmd /\ s.off \in Nat /\ s.left \in Nat /\ s.left <= s.len /\ Whole(s.off)
      /\ Whole(s.left) /\ s.p + InImage(s, s.left) <= RamSize /\ s.skipfirstblk \in BOOLEAN
  BY DEF CmdInv, WritePlace, Cmd
<1> DEFINE k == bad /\ s.skipfirstblk
           r == [s EXCEPT !.skipfirstblk = k]
<1>1. k \in BOOLEAN
  OBVIOUS
<1> HIDE DEF k
<1>2. /\ r \in Cmd /\ Kept(s, r) /\ r.ret = s.ret /\ r.off = s.off /\ r.left = s.left /\ r.p = s.p
      /\ r.skipfirstblk = k
  BY <1>0, <1>1 DEF Cmd, Kept
<1>3. t = NextBlock(r)
  BY DEF k
<1> HIDE DEF r
<1>4. /\ t \in Cmd /\ Kept(r, t) /\ t.ret = r.ret /\ t.off = r.off + BlockLeft(r.off)
      /\ t.left = r.left /\ t.p = r.p /\ t.skipfirstblk = r.skipfirstblk
  BY <1>2, <1>3, NextBlockFacts
<1>5. Kept(s, t)
  BY <1>2, <1>4 DEF Kept
<1>6. Whole(s.off + BlockLeft(s.off))
  <2>1. 1 \in Nat \ {0} /\ s.off \in Nat /\ Whole(s.off)
    BY <1>0
  <2> QED BY <2>1, ChunkFacts
<1>7. InImage(t, t.left) = InImage(s, s.left)
  BY <1>2, <1>4, <1>5 DEF InImage, Kept
<1>8. WritePlace(t)
  BY <1>0, <1>2, <1>4, <1>6, <1>7 DEF WritePlace
<1>9. CmdInv(t)
  BY <1>0, <1>2, <1>4, <1>5, <1>8 DEF CmdInv, Kept
<1> QED BY <1>2, <1>4, <1>5, <1>9 DEF k

\* What the loops are told of a block.
LEMMA IsBadFacts ==
  ASSUME NEW off, NEW bad \in nand_block_isbad(off)
  PROVE  /\ bad \in BOOLEAN
         /\ off < size => (bad <=> Block(off) \in bbt)
<1>1. CASE off < size
  <2>1. bad \in {Block(off) \in bbt}
    BY <1>1, Zenon DEF nand_block_isbad
  <2>2. bad = (Block(off) \in bbt)
    BY <2>1, Zenon
  <2>3. (Block(off) \in bbt) \in BOOLEAN
    <3>1. CASE Block(off) \in bbt
      BY <3>1
    <3>2. CASE ~(Block(off) \in bbt)
      BY <3>2
    <3> QED BY <3>1, <3>2
  <2> QED BY <1>1, <2>2, <2>3
<1>2. CASE ~(off < size) /\ off = size
  <2>1. bad \in BOOLEAN
    BY <1>2, Zenon DEF nand_block_isbad
  <2> QED BY <1>2, <2>1
<1>3. CASE ~(off < size) /\ off # size
  <2>1. bad = (Blocks \subseteq bbt)
    BY <1>3, Zenon DEF nand_block_isbad
  <2>2. (Blocks \subseteq bbt) \in BOOLEAN
    <3>1. CASE Blocks \subseteq bbt
      BY <3>1
    <3>2. CASE ~(Blocks \subseteq bbt)
      BY <3>2
    <3> QED BY <3>1, <3>2
  <2> QED BY <1>3, <2>1, <2>2
<1> QED BY <1>1, <1>2, <1>3

LEMMA WriteLoopTypes ==
  ASSUME TypeInv, WriteBlock
  PROVE  TypeInv'
<1>0. /\ ChipType /\ fails \in 0..MaxFails /\ ncmds \in 0..MaxCmds /\ ncmds' = ncmds /\ bbt' = bbt
      /\ cmd.op = "write" /\ cmd.ret = "run"
  BY WriteRounds DEF TypeInv
<1>1. CmdInv(cmd) /\ cmd \in Cmd
  BY <1>0, RunningCmd
<1>2. CASE WriteEnds
  <2>1. CmdInv(cmd')
    BY <1>1, <1>2, ReturnInv DEF Rets, WriteEnds
  <2>2. ChipType' /\ fails' \in 0..MaxFails
    BY <1>0, <1>2 DEF ChipType, WriteEnds, chip
  <2> QED BY <1>0, <2>1, <2>2 DEF TypeInv
<1>3. ASSUME NEW bad \in nand_block_isbad(cmd.off), WriteSkips(bad)
      PROVE  TypeInv'
  <2>1. bad \in BOOLEAN
    BY IsBadFacts
  <2>2. CmdInv(cmd')
    <3>1. CASE cmd' = cmd
      BY <1>1, <3>1
    <3>2. CASE cmd' = NextBlock([cmd EXCEPT !.skipfirstblk = bad /\ @])
      <4>1. \A t : t = NextBlock([cmd EXCEPT !.skipfirstblk = bad /\ @]) => CmdInv(t)
        BY <1>0, <1>1, <2>1, SkipInv, Zenon
      <4> QED BY <3>2, <4>1, Zenon
    <3> QED BY <1>3, <3>1, <3>2, Zenon DEF WriteSkips
  <2>3. ChipType' /\ fails' \in 0..MaxFails
    BY <1>0, <1>3 DEF ChipType, WriteSkips, chip
  <2> QED BY <1>0, <2>2, <2>3 DEF TypeInv
<1> DEFINE n == Chunk(cmd)
           pages == n \div WriteSize
<1>4. ASSUME cmd.left > 0
      PROVE  /\ n \in Nat \ {0} /\ pages \in Nat \ {0} /\ Whole(n) /\ CmdInv(Advance(cmd, n))
             /\ Whole(cmd.off) /\ cmd.off \in Nat
             /\ \A buf : buf = Rearranged(cmd, ram, n) =>
                  /\ buf \in Images
                  /\ ToFlash(cmd, buf, n) \in [0..(n - 1) -> Int]
                  /\ ToOob(cmd, buf, n) \in [0..(pages - 1) -> Int]
  <2>1. cmd.left > 0 /\ ram \in Images
    BY <1>0, <1>4 DEF ChipType
  <2>2. n \in Nat \ {0} /\ pages \in Nat \ {0} /\ Whole(n) /\ CmdInv(Advance(cmd, n))
    BY <1>0, <1>1, <2>1, WriteRoom
  <2>3. Whole(cmd.off) /\ cmd.off \in Nat
    BY <1>0, <1>1 DEF CmdInv, WritePlace, Cmd
  <2>4. \A buf : buf = Rearranged(cmd, ram, n) =>
                  /\ buf \in Images
                  /\ ToFlash(cmd, buf, n) \in [0..(n - 1) -> Int]
                  /\ ToOob(cmd, buf, n) \in [0..(pages - 1) -> Int]
    BY <1>0, <1>1, <2>1, RearrangedTypes, Zenon
  <2> QED BY <2>2, <2>3, <2>4
<1> HIDE DEF n
<1>5. ASSUME cmd.left > 0, WriteRefused(n)
      PROVE  TypeInv'
  <2>1. CmdInv(cmd')
    BY <1>1, <1>5, ReturnInv DEF Rets, WriteRefused
  <2>2. ram' \in Images
    BY <1>4, <1>5 DEF WriteRefused
  <2>3. ChipType' /\ fails' \in 0..MaxFails
    BY <1>0, <1>5, <2>2 DEF ChipType, WriteRefused, chip
  <2> QED BY <1>0, <2>1, <2>3 DEF TypeInv
<1>6. ASSUME cmd.left > 0, NEW stop \in (IF fails < MaxFails THEN 0 ELSE pages)..pages,
             WriteProgrammed(n, stop)
      PROVE  TypeInv'
  <2>0. stop \in Nat /\ (stop < pages => fails < MaxFails)
    BY <1>4, <1>6
  <2>1. CmdInv(cmd')
    <3>1. CASE stop < pages
      BY <1>1, <1>6, <3>1, ReturnInv DEF Rets, WriteProgrammed
    <3>2. CASE ~(stop < pages)
      BY <1>4, <1>6, <3>2 DEF WriteProgrammed
    <3> QED BY <3>1, <3>2
  <2>2. ram' = Rearranged(cmd, ram, n)
    BY <1>6 DEF WriteProgrammed
  <2>3. PICK buf : buf = Rearranged(cmd, ram, n)
    OBVIOUS
  <2>4. flash' \in FlashType /\ oob' \in OobType
    <3> DEFINE data == ToFlash(cmd, buf, n)
               spare == ToOob(cmd, buf, n)
    <3>1. data \in [0..(n - 1) -> Int] /\ spare \in [0..(pages - 1) -> Int]
      BY <1>4, <1>6, <2>3
    <3>2. Program(cmd.off, n, data, spare, stop)
      BY <1>6, <2>2, <2>3 DEF WriteProgrammed
    <3> HIDE DEF data, spare
    <3>3. n \in Nat /\ pages \in Nat /\ cmd.off \in Nat /\ Whole(cmd.off) /\ Whole(n)
      BY <1>4, <1>6
    <3> QED BY <1>0, <2>0, <3>1, <3>2, <3>3, ProgramTypes
  <2>5. ram' \in Images
    BY <1>4, <1>6, <2>2
  <2>6. fails' \in 0..MaxFails
    BY <1>0, <1>6, <2>0, Params DEF WriteProgrammed
  <2>7. ChipType'
    BY <1>0, <1>6, <2>4, <2>5 DEF ChipType, WriteProgrammed
  <2> QED BY <1>0, <2>1, <2>6, <2>7 DEF TypeInv
<1> QED BY <1>2, <1>3, <1>5, <1>6, WriteRounds DEF n

LEMMA ReadLoopTypes ==
  ASSUME TypeInv, ReadBlock
  PROVE  TypeInv'
<1>0. /\ ChipType /\ fails \in 0..MaxFails /\ ncmds \in 0..MaxCmds /\ ncmds' = ncmds
      /\ cmd.op = "read" /\ cmd.ret = "run" /\ UNCHANGED <<chip, bbt, ram>>
  BY DEF TypeInv, ReadBlock, Idle
<1>1. /\ CmdInv(cmd) /\ cmd \in Cmd /\ cmd.off \in Nat /\ cmd.left \in Nat /\ cmd.p \in Nat
      /\ cmd.len \in Nat /\ cmd.left <= cmd.len /\ cmd.rw_oob = FALSE
      /\ cmd.got \in [0..(cmd.p - 1) -> Int]
  <2>1. CmdInv(cmd)
    BY <1>0, RunningCmd
  <2> QED BY <1>0, <2>1 DEF CmdInv, Cmd, ReadPlace
<1>2. ChipType'
  BY <1>0, SameChip
<1>3. fails' \in 0..MaxFails
  BY <1>0, Params DEF ReadBlock
<1> DEFINE n == Chunk(cmd)
<1>4. CmdInv(cmd')
  <2>1. CASE cmd' = Return(cmd, "ok") \/ cmd' = Return(cmd, "failed")
    BY <1>1, <2>1, ReturnInv DEF Rets
  <2>2. CASE cmd' = cmd
    BY <1>1, <2>2
  <2>3. CASE cmd' = NextBlock(cmd)
    <3>1. PICK t : t = NextBlock(cmd)
      OBVIOUS
    <3>2. t \in Cmd /\ Kept(cmd, t) /\ t.left = cmd.left /\ t.p = cmd.p /\ t.got = cmd.got
      BY <1>1, <3>1, NextBlockFacts
    <3>3. CmdInv(t)
      BY <1>0, <1>1, <3>2 DEF CmdInv, ReadPlace, Kept
    <3> QED BY <2>3, <3>1, <3>3
  <2>4. CASE /\ cmd.left > 0 /\ cmd.off + n <= size
             /\ cmd' = Advance([cmd EXCEPT !.got = Got(cmd, n)], n)
    <3>0. n \in Nat /\ n <= cmd.left
      <4>1. cmd.left \in Nat \ {0} /\ n = Least(cmd.left, BlockLeft(cmd.off))
        BY <1>1, <2>4 DEF Chunk
      <4> HIDE DEF n
      <4> QED BY <1>1, <4>1, ChunkFacts
    <3> HIDE DEF n
    <3> DEFINE f == Got(cmd, n)
               s == [cmd EXCEPT !.got = f]
               t == [s EXCEPT !.left = cmd.left - n, !.off = cmd.off + n, !.p = cmd.p + n]
    <3>1. f \in [0..(cmd.p + n - 1) -> Int] /\ f \in Results
      BY <1>0, <1>1, <2>4, <3>0, GotFacts DEF ChipType
    <3> HIDE DEF f
    <3>2. s \in Cmd /\ Kept(cmd, s) /\ s.off = cmd.off /\ s.left = cmd.left /\ s.p = cmd.p
          /\ s.ret = cmd.ret /\ s.got = f /\ s.rw_oob = FALSE
      BY <1>1, <3>1 DEF Cmd, Kept
    <3>3. cmd.left - n \in Nat /\ cmd.off + n \in Nat /\ cmd.p + n \in Nat /\ cmd.p + n + 0 = cmd.p + n
      BY <1>1, <3>0
    <3> HIDE DEF s
    <3>4. cmd' = t
      BY <2>4, <3>2, <3>3 DEF Advance, s, f
    <3>5. /\ t \in Cmd /\ t.op = s.op /\ t.len = s.len /\ t.rw_oob = FALSE /\ t.got = f
          /\ t.left = cmd.left - n /\ t.p = cmd.p + n
      BY <3>2, <3>3 DEF Cmd
    <3> HIDE DEF t
    <3>6. CmdInv(t)
      <4>1. t.p - 1 = cmd.p + n - 1
        BY <1>1, <3>0, <3>5
      <4>2. t.got \in [0..(t.p - 1) -> Int]
        BY <3>1, <3>5, <4>1
      <4>3. t.op = "read" /\ t.left <= t.len
        BY <1>0, <1>1, <3>0, <3>2, <3>5 DEF Kept
      <4> QED BY <3>5, <4>2, <4>3 DEF CmdInv, ReadPlace
    <3> QED BY <3>4, <3>6
  <2> QED BY <2>1, <2>2, <2>3, <2>4 DEF ReadBlock
<1> QED BY <1>0, <1>2, <1>3, <1>4 DEF TypeInv

LEMMA NextTypes == TypeInv /\ [Next]_vars => TypeInv'
<1> SUFFICES ASSUME TypeInv, [Next]_vars PROVE TypeInv'
  OBVIOUS
<1>1. CASE UNCHANGED vars
  BY <1>1 DEF vars, TypeInv, ChipType, CmdInv
<1>2. CASE Command
  <2>1. Offs \subseteq Nat /\ Sizes \subseteq Nat
    BY Params
  <2> QED BY <1>2, <2>1, EraseCmdTypes, WriteCmdTypes, ReadCmdTypes, MarkBadTypes, LoadTypes
          DEF Command
<1>3. CASE Loop
  BY <1>3, EraseLoopTypes, WriteLoopTypes, ReadLoopTypes DEF Loop
<1> QED BY <1>1, <1>2, <1>3 DEF Next, Done

LEMMA TypesAlways == Spec => []TypeInv
<1> QED BY InitTypes, NextTypes, PTL DEF Spec

(* Types, for every chip and any arguments: in particular left_to_write    *)
(* and left_to_read, which are unsigned, never drop below 0.               *)
THEOREM TypeCorrect == Spec => []TypeOK
<1> QED BY TypesAlways, TypeInvOK, PTL
----------------------------------------------------------------------------
(* Bad blocks. *)

LEMMA EraseKeepsBad ==
  ASSUME TypeInv, EraseBlock, NEW u \in Units, flash'[u] # flash[u], ~cmd.scrub
  PROVE  Block(u) \notin bbt
<1>1. PICK bad \in nand_block_isbad(cmd.off) :
        /\ (~bad \/ cmd.scrub) /\ cmd.off < size
        /\ EraseOk(Block(cmd.off)) \/ EraseFails(Block(cmd.off))
  <2>1. \/ UNCHANGED chip
        \/ \E bad \in nand_block_isbad(cmd.off) :
             /\ (~bad \/ cmd.scrub) /\ cmd.off < size
             /\ EraseOk(Block(cmd.off)) \/ EraseFails(Block(cmd.off))
    BY DEF EraseBlock
  <2> QED BY <2>1 DEF chip
<1>2. Block(cmd.off) \notin bbt
  BY <1>1, IsBadFacts
<1>3. Block(u) = Block(cmd.off)
  BY <1>1 DEF EraseOk, EraseFails
<1> QED BY <1>2, <1>3

LEMMA ProgramKeeps ==
  ASSUME NEW off, NEW n, NEW image, NEW spare, NEW stop, Program(off, n, image, spare, stop)
  PROVE  \A u \in Units : u \notin off..(off + n - 1) => flash'[u] = flash[u]
BY DEF Program

LEMMA WriteKeepsBad ==
  ASSUME TypeInv, WriteBlock, NEW u \in Units, flash'[u] # flash[u]
  PROVE  Block(u) \notin bbt
<1> DEFINE n == Chunk(cmd)
<1>1. PICK bad \in nand_block_isbad(cmd.off) :
        cmd.left > 0 /\ ~MustSkip(cmd, bad) /\ \E stop : WriteProgrammed(n, stop)
  <2>1. ~WriteEnds /\ ~WriteRefused(n) /\ \A bad : ~WriteSkips(bad)
    BY DEF WriteEnds, WriteRefused, WriteSkips, chip
  <2> QED BY <2>1, WriteRounds, Zenon
<1>2. cmd.op = "write" /\ cmd.ret = "run"
  BY WriteRounds
<1>3. CmdInv(cmd) /\ cmd.off \in Nat
  BY <1>2, RunningCmd DEF Cmd
<1>4. n \in Nat \ {0} /\ n <= BlockLeft(cmd.off)
  BY <1>1, <1>2, <1>3, WriteRoom
<1>5. cmd.off + n <= size /\ u \in cmd.off..(cmd.off + n - 1)
  BY <1>1, ProgramKeeps DEF WriteProgrammed
<1> HIDE DEF n
<1>6. u \in Nat /\ cmd.off <= u /\ u < cmd.off + BlockLeft(cmd.off) /\ cmd.off < size
  BY <1>3, <1>4, <1>5, SizeFacts, BlockFacts
<1>7. Block(u) = Block(cmd.off)
  BY <1>3, <1>6, BlockSame
<1>8. ~bad
  BY <1>1 DEF MustSkip
<1> QED BY <1>6, <1>7, <1>8, IsBadFacts

(* Only scrub changes a block that is in the bad block table, whatever     *)
(* offsets, lengths and failing operations there are.                      *)
THEOREM BadBlocksUntouched == Spec => BadUntouched
<1> DEFINE A == \A u \in Units : Block(u) \in bbt /\ flash'[u] # flash[u] => cmd.scrub
<1>1. TypeInv /\ [Next]_vars => [A]_vars
  <2> SUFFICES ASSUME TypeInv, Next PROVE A
    OBVIOUS
  <2> SUFFICES ASSUME NEW u \in Units, Block(u) \in bbt, flash'[u] # flash[u] PROVE cmd.scrub
    OBVIOUS
  <2>1. ~UNCHANGED flash
    OBVIOUS
  <2>2. ~Command
    <3>1. \A off, len, clean, scrub : ~NandErase(off, len, clean, scrub)
      BY <2>1, Zenon DEF NandErase, chip
    <3>2. \A off, len, yaffs : ~NandWrite(off, len, yaffs)
      BY <2>1, Zenon DEF NandWrite, chip
    <3>3. \A off, len : ~NandRead(off, len)
      BY <2>1, Zenon DEF NandRead, chip
    <3>4. ~Load /\ \A b : ~MarkBad(b)
      BY <2>1, Zenon DEF MarkBad, Load, chip
    <3> QED BY <3>1, <3>2, <3>3, <3>4 DEF Command
  <2>3. ~ReadBlock /\ ~Done
    BY <2>1, Zenon DEF ReadBlock, Done, vars, chip
  <2>4. EraseBlock \/ WriteBlock
    BY <2>2, <2>3 DEF Next, Loop
  <2> QED BY <2>4, EraseKeepsBad, WriteKeepsBad
<1> QED BY <1>1, TypesAlways, PTL DEF Spec, BadUntouched
----------------------------------------------------------------------------
(* Counting the units an image belongs in. *)

Below(S, x) == {v \in S : v < x}

LEMMA UnitsFinite ==
  ASSUME NEW S \in SUBSET Units
  PROVE  IsFiniteSet(S) /\ Cardinality(S) \in Nat
<1>1. IsFiniteSet(Units)
  <2>1. 0 \in Int /\ size - 1 \in Int
    BY SizeFacts
  <2> QED BY <2>1, FS_Interval DEF Units
<1>2. IsFiniteSet(S)
  BY <1>1, FS_Subset
<1> QED BY <1>2, FS_CardinalityType

\* k more units that all belong to S.
LEMMA BelowMore ==
  ASSUME NEW S \in SUBSET Units, NEW x \in Nat, NEW k \in Nat,
         \A u \in Nat : x <= u /\ u < x + k => u \in S
  PROVE  Cardinality(Below(S, x + k)) = Cardinality(Below(S, x)) + k
<1> DEFINE A == Below(S, x)
           I == x..(x + k - 1)
<1>1. Below(S, x + k) = A \cup I /\ A \cap I = {}
  <2>1. \A v \in S : v \in Nat
    BY SizeFacts
  <2>2. \A v : v \in Below(S, x + k) <=> v \in S /\ v < x + k
    BY DEF Below
  <2>3. \A v : v \in A <=> v \in S /\ v < x
    BY DEF Below
  <2>4. \A v : v \in I <=> v \in Nat /\ x <= v /\ v < x + k
    OBVIOUS
  <2> HIDE DEF A, I
  <2>5. \A v : v \in Below(S, x + k) <=> v \in A \/ v \in I
    BY <2>1, <2>2, <2>3, <2>4
  <2>6. \A v : ~(v \in A /\ v \in I)
    BY <2>1, <2>3, <2>4
  <2> QED BY <2>5, <2>6, Zenon
<1>2. IsFiniteSet(A) /\ Cardinality(A) \in Nat
  <2>1. A \in SUBSET Units
    BY DEF Below
  <2> HIDE DEF A
  <2> QED BY <2>1, UnitsFinite
<1>3. IsFiniteSet(I) /\ Cardinality(I) = k
  <2>1. x \in Int /\ x + k - 1 \in Int /\ (x > x + k - 1 <=> k = 0) /\ (x + k - 1) - x + 1 = k
    OBVIOUS
  <2> QED BY <2>1, FS_Interval
<1> HIDE DEF A, I
<1>4. Cardinality(A \cup I) = Cardinality(A) + Cardinality(I) - Cardinality(A \cap I)
  BY <1>2, <1>3, FS_Union
<1>5. Cardinality(A \cap I) = 0
  BY <1>1, FS_EmptySet
<1>6. Cardinality(Below(S, x + k)) = Cardinality(A \cup I)
  BY <1>1
<1>7. Cardinality(A) + k - 0 = Cardinality(A) + k
  BY <1>2
<1> QED BY <1>3, <1>4, <1>5, <1>6, <1>7 DEF A

\* No unit of S from x up to y.
LEMMA BelowSame ==
  ASSUME NEW S \in SUBSET Units, NEW x \in Nat, NEW y \in Nat, x <= y,
         \A u \in S : ~(x <= u /\ u < y)
  PROVE  Below(S, x) = Below(S, y)
<1>1. \A v \in S : v \in Nat
  BY SizeFacts
<1>2. \A v \in S : v < x <=> v < y
  BY <1>1
<1> QED BY <1>2, Zenon DEF Below

LEMMA BelowMono ==
  ASSUME NEW S \in SUBSET Units, NEW x \in Nat, NEW y \in Nat, x <= y
  PROVE  /\ Cardinality(Below(S, x)) <= Cardinality(Below(S, y))
         /\ Cardinality(Below(S, x)) \in Nat
<1>1. \A v \in S : v \in Nat
  BY SizeFacts
<1>2. \A v \in S : v < x => v < y
  BY <1>1
<1>3. Below(S, x) \subseteq Below(S, y) /\ Below(S, x) \in SUBSET Units /\ Below(S, y) \in SUBSET Units
  BY <1>2, Zenon DEF Below
<1>4. IsFiniteSet(Below(S, y)) /\ Cardinality(Below(S, x)) \in Nat
  BY <1>3, UnitsFinite
<1> QED BY <1>3, <1>4, FS_Subset
----------------------------------------------------------------------------
(* The inductive invariant of the commands: how far an erase has come, and *)
(* for a write where the next unit goes, what has been stored before it,   *)
(* and that neither the flash nor the image has changed from there on.     *)

Good(s) == {u \in Units : u >= s.at /\ Block(u) \notin s.bad}

EraseInv(s, f) ==
    /\ s.at <= s.off
    /\ \A u \in Units : Block(u) * EraseSize \notin s.at..(s.at + s.left - 1) => f[u] = s.before[u]

\* As many units of data are stored as there are places before off.
CountInv(s) == Cardinality(Below(Usable(s), s.off)) = s.len - s.left

StoredInv(s, f, o) ==
    \A u \in Usable(s) :
        u < s.off /\ Blank(u \div WriteSize, s.before, s.beforeOob) =>
            /\ f[u] = Data(s, Rank(u, Usable(s)))
            /\ o[u \div WriteSize] = Spare(s, Rank(u, Usable(s)) \div WriteSize)

OthersInv(s, f) ==
    \A u \in Units : f[u] # s.before[u] => u \in Usable(s) /\ Rank(u, Usable(s)) < s.len

\* The first good block of a yaffs2 image is either ahead or behind.
FirstInv(s) ==
    /\ s.skipfirstblk => s.rw_oob /\ \A v \in Good(s) : v >= s.off
    /\ s.rw_oob /\ ~s.skipfirstblk =>
         \A u \in Good(s) : u >= s.off => \E v \in Good(s) : Block(v) < Block(u)

AheadInv(s, f, o) ==
    /\ \A u \in Units : u >= s.off => f[u] = s.before[u]
    /\ \A q \in Pages : q * WriteSize >= s.off => o[q] = s.beforeOob[q]

RamInv(s, r) ==
    /\ s.p = InImage(s, s.len - s.left)
    /\ \A j \in 0..(RamSize - 1) : j >= s.p => r[j] = s.image[j]

WriteInv(s, f, o, b, r) ==
    /\ s.at <= s.off /\ CountInv(s) /\ StoredInv(s, f, o) /\ OthersInv(s, f)
    /\ s.ret = "run" => b = s.bad /\ Whole(s.len) /\ FirstInv(s) /\ AheadInv(s, f, o) /\ RamInv(s, r)

CommandInv ==
    /\ cmd.op = "erase" => EraseInv(cmd, flash)
    /\ cmd.op = "write" => WriteInv(cmd, flash, oob, bbt, ram)

LEMMA UsableFacts ==
  ASSUME NEW s \in Cmd
  PROVE  /\ Usable(s) \in SUBSET Units /\ Usable(s) \subseteq Good(s)
         /\ s.op = "write" /\ s.rw_oob =>
              Usable(s) = {u \in Good(s) : \E v \in Good(s) : Block(v) < Block(u)}
         /\ ~(s.op = "write" /\ s.rw_oob) => Usable(s) = Good(s)
<1> DEFINE G == Good(s)
<1>1. G \in SUBSET Units
  BY DEF Good
<1>2. Usable(s) = IF s.op = "write" /\ s.rw_oob THEN {u \in G : \E v \in G : Block(v) < Block(u)} ELSE G
  BY Zenon DEF Usable, Good
<1> HIDE DEF G
<1> QED BY <1>1, <1>2 DEF G

LEMMA UsableKept ==
  ASSUME NEW s, NEW t, Kept(s, t)
  PROVE  /\ Good(t) = Good(s) /\ Usable(t) = Usable(s)
         /\ \A i : Data(t, i) = Data(s, i) /\ Spare(t, i) = Spare(s, i) /\ InImage(t, i) = InImage(s, i)
<1>1. t.op = s.op /\ t.at = s.at /\ t.bad = s.bad /\ t.rw_oob = s.rw_oob /\ t.image = s.image
  BY DEF Kept
<1>2. Good(t) = Good(s)
  BY <1>1, Zenon DEF Good
<1>3. Usable(t) = Usable(s)
  BY <1>1, Zenon DEF Usable
<1>4. \A i : Data(t, i) = Data(s, i) /\ Spare(t, i) = Spare(s, i) /\ InImage(t, i) = InImage(s, i)
  BY <1>1, Zenon DEF Data, Spare, InImage
<1> QED BY <1>2, <1>3, <1>4

LEMMA RankBelow == \A u, S : Rank(u, S) = Cardinality(Below(S, u))
BY Zenon DEF Rank, Below

\* A command that is entered: nothing has been done yet.
LEMMA WriteBegins ==
  ASSUME NEW s \in Cmd, s.off = s.at, s.left = s.len, s.p = 0,
         s.ret = "run" => Whole(s.len) /\ s.skipfirstblk = s.rw_oob
  PROVE  WriteInv(s, s.before, s.beforeOob, s.bad, s.image)
<1>0. s.at \in Nat /\ s.len \in Nat /\ s.rw_oob \in BOOLEAN
  BY DEF Cmd
<1>1. /\ \A u \in Good(s) : u \in Nat /\ u >= s.at
      /\ \A u \in Usable(s) : u \in Nat /\ ~(u < s.at)
  <2>1. \A u \in Good(s) : u \in Nat /\ u >= s.at
    BY SizeFacts DEF Good
  <2>2. Usable(s) \subseteq Good(s)
    BY UsableFacts
  <2>3. \A u \in Nat : u >= s.at => ~(u < s.at)
    BY <1>0
  <2> QED BY <2>1, <2>2, <2>3
<1>2. CountInv(s)
  <2>1. Below(Usable(s), s.off) = {}
    BY <1>1 DEF Below
  <2>2. Cardinality(Below(Usable(s), s.off)) = 0
    BY <2>1, FS_EmptySet
  <2>3. s.len - s.left = 0
    BY <1>0
  <2> QED BY <2>2, <2>3 DEF CountInv
<1>3. StoredInv(s, s.before, s.beforeOob)
  BY <1>1 DEF StoredInv
<1>4. OthersInv(s, s.before)
  BY DEF OthersInv
<1>5. ASSUME s.ret = "run" PROVE FirstInv(s) /\ AheadInv(s, s.before, s.beforeOob) /\ RamInv(s, s.image)
  <2>1. s.skipfirstblk = s.rw_oob
    BY <1>5
  <2>2. FirstInv(s)
    BY <1>0, <1>1, <2>1 DEF FirstInv
  <2>3. InImage(s, 0) = 0
    <3>1. 0 \div WriteSize = 0
      <4>1. 0 = 0 * WriteSize /\ 0 \in Nat
        BY Params
      <4> QED BY <4>1, WholeDef
    <3> QED BY <3>1 DEF InImage
  <2>4. s.len - s.left = 0
    BY <1>0
  <2> QED BY <2>2, <2>3, <2>4 DEF AheadInv, RamInv
<1> QED BY <1>0, <1>2, <1>3, <1>4, <1>5 DEF WriteInv

\* A write that returns, with the units from off on changed or not.
LEMMA WriteReturns ==
  ASSUME NEW s \in Cmd, NEW r \in Rets \ {"run"}, NEW t, t = Return(s, r),
         NEW f, NEW o, NEW f2, NEW o2, NEW b, NEW b2, NEW i, NEW i2,
         WriteInv(s, f, o, b, i), Whole(s.off), OthersInv(s, f2),
         \A u \in Units : u < s.off => f2[u] = f[u],
         \A q \in Pages : q * WriteSize < s.off => o2[q] = o[q]
  PROVE  WriteInv(t, f2, o2, b2, i2)
<1>1. t.ret = r /\ t.off = s.off /\ t.left = s.left /\ Kept(s, t)
  BY ReturnFacts
<1>2. /\ Usable(t) = Usable(s)
      /\ \A k : Data(t, k) = Data(s, k) /\ Spare(t, k) = Spare(s, k)
  BY <1>1, UsableKept
<1>3. t.at = s.at /\ t.len = s.len /\ t.before = s.before /\ t.beforeOob = s.beforeOob
  BY <1>1 DEF Kept
<1>4. CountInv(t) /\ OthersInv(t, f2)
  BY <1>1, <1>2, <1>3 DEF CountInv, OthersInv, WriteInv
<1>5. StoredInv(t, f2, o2)
  <2> SUFFICES ASSUME NEW u \in Usable(s), u < s.off, Blank(u \div WriteSize, s.before, s.beforeOob)
               PROVE  /\ f2[u] = Data(s, Rank(u, Usable(s)))
                      /\ o2[u \div WriteSize] = Spare(s, Rank(u, Usable(s)) \div WriteSize)
    BY <1>1, <1>2, <1>3 DEF StoredInv
  <2>1. /\ f[u] = Data(s, Rank(u, Usable(s)))
        /\ o[u \div WriteSize] = Spare(s, Rank(u, Usable(s)) \div WriteSize)
    BY DEF WriteInv, StoredInv
  <2>2. u \in Units /\ u \in Nat /\ u < size
    BY UsableFacts, SizeFacts
  <2>3. u \div WriteSize \in Pages /\ (u \div WriteSize) * WriteSize < s.off
    <3>1. /\ u \div WriteSize \in Pages /\ u \div WriteSize \in Nat
          /\ (u \div WriteSize) * WriteSize <= u
      BY <2>2, PageFacts
    <3>2. (u \div WriteSize) * WriteSize \in Nat /\ s.off \in Nat
      BY <3>1, Params, TimesType DEF Cmd
    <3> QED BY <2>2, <3>1, <3>2
  <2> QED BY <2>1, <2>2, <2>3
<1> QED BY <1>1, <1>3, <1>4, <1>5 DEF WriteInv

\* The block behind the one of x.
LEMMA BlockAfter ==
  ASSUME NEW x \in Nat, NEW u \in Nat, x + BlockLeft(x) <= u
  PROVE  Block(x) < Block(u)
<1> DEFINE a == Block(x)
           b == Block(u)
<1>1. /\ a \in Nat /\ a * EraseSize \in Nat /\ x + BlockLeft(x) = a * EraseSize + EraseSize
      /\ b \in Nat /\ b * EraseSize \in Nat /\ u < b * EraseSize + EraseSize
  BY BlockFacts
<1> HIDE DEF a, b
<1>2. b <= a => b * EraseSize <= a * EraseSize
  BY <1>1, Params, TimesMono
<1>3. EraseSize \in Nat
  BY Params
<1>4. ~(b <= a)
  BY <1>1, <1>2, <1>3
<1> QED BY <1>1, <1>4 DEF a, b

\* A block that is not written: none of its units is one the image belongs in.
LEMMA WriteSkipped ==
  ASSUME NEW s \in Cmd, NEW t \in Cmd, s.op = "write", s.ret = "run", t.ret = "run",
         NEW bad \in BOOLEAN, bad \/ s.skipfirstblk, Kept(s, t), t.off = s.off + BlockLeft(s.off),
         t.left = s.left, t.p = s.p, t.skipfirstblk = (bad /\ s.skipfirstblk),
         NEW f, NEW o, NEW b, NEW i, WriteInv(s, f, o, b, i),
         s.off < size => (bad <=> Block(s.off) \in b)
  PROVE  WriteInv(t, f, o, b, i)
<1> DEFINE x == s.off
           y == t.off
<1>0. /\ x \in Nat /\ y \in Nat /\ x < y /\ s.at \in Nat /\ s.at <= x
      /\ s.skipfirstblk \in BOOLEAN /\ s.rw_oob \in BOOLEAN /\ size \in Nat
  BY BlockFacts, SizeFacts DEF Cmd, WriteInv
<1>1. /\ b = s.bad /\ FirstInv(s) /\ AheadInv(s, f, o) /\ RamInv(s, i) /\ Whole(s.len)
      /\ CountInv(s) /\ StoredInv(s, f, o) /\ OthersInv(s, f)
  BY DEF WriteInv
<1>2. /\ Usable(t) = Usable(s) /\ Good(t) = Good(s)
      /\ \A k : Data(t, k) = Data(s, k) /\ Spare(t, k) = Spare(s, k) /\ InImage(t, k) = InImage(s, k)
  BY UsableKept
<1>3. /\ t.at = s.at /\ t.len = s.len /\ t.before = s.before /\ t.beforeOob = s.beforeOob
      /\ t.bad = s.bad /\ t.image = s.image /\ t.rw_oob = s.rw_oob
  BY DEF Kept
<1>4. \A u \in Good(s) : u \in Nat /\ u < size /\ u \in Units /\ Block(u) \notin b
  BY <1>1, SizeFacts DEF Good
<1>5. Usable(s) \in SUBSET Units /\ Usable(s) \subseteq Good(s)
  BY UsableFacts
<1>6. \A u \in Nat : x <= u /\ u < y => Block(u) = Block(x)
  BY <1>0, BlockSame
<1> HIDE DEF x, y
<1>7. ASSUME NEW u \in Good(s), x <= u, u < y, bad PROVE FALSE
  <2>1. x < size /\ Block(u) = Block(x)
    BY <1>0, <1>4, <1>6, <1>7
  <2> QED BY <1>4, <1>7, <2>1 DEF x
<1>8. ASSUME NEW u \in Usable(s), x <= u, u < y PROVE FALSE
  <2>0. u \in Good(s) /\ u \in Nat
    BY <1>4, <1>5
  <2>1. ~bad /\ s.skipfirstblk /\ s.rw_oob
    BY <1>1, <1>7, <1>8, <2>0 DEF FirstInv
  <2>2. PICK v \in Good(s) : Block(v) < Block(u)
    BY <2>1, UsableFacts
  <2>3. v \in Nat /\ x <= v
    BY <1>0, <1>1, <1>4, <2>1 DEF FirstInv, x
  <2>4. Block(x) <= Block(v) /\ Block(u) = Block(x) /\ Block(v) \in Nat /\ Block(x) \in Nat
    BY <1>0, <1>6, <1>8, <2>0, <2>3, BlockMono, BlockFacts
  <2> QED BY <2>2, <2>4
<1>9. CountInv(t)
  <2>1. Below(Usable(s), x) = Below(Usable(s), y)
    <3>1. \A u \in Usable(s) : ~(x <= u /\ u < y)
      BY <1>8
    <3> QED BY <1>0, <1>5, <3>1, BelowSame
  <2> QED BY <1>1, <1>2, <1>3, <2>1 DEF CountInv, x, y
<1>10. StoredInv(t, f, o)
  <2>1. \A u \in Usable(s) : u < y => u < x
    BY <1>0, <1>4, <1>5, <1>8
  <2> QED BY <1>1, <1>2, <1>3, <2>1 DEF StoredInv, x, y
<1>11. OthersInv(t, f)
  BY <1>1, <1>2, <1>3 DEF OthersInv
<1>12. AheadInv(t, f, o)
  <2>1. \A u \in Nat : u >= y => u >= x
    BY <1>0
  <2>2. \A u \in Units : u \in Nat
    BY SizeFacts
  <2>3. \A q \in Pages : q * WriteSize \in Nat
    BY Params, TimesType, SizeFacts DEF Pages
  <2> QED BY <1>1, <1>3, <2>1, <2>2, <2>3 DEF AheadInv, x, y
<1>13. RamInv(t, i)
  BY <1>1, <1>2, <1>3 DEF RamInv
<1>14. FirstInv(t)
  <2>1. ASSUME t.skipfirstblk PROVE t.rw_oob /\ \A v \in Good(t) : v >= y
    <3>1. bad /\ s.skipfirstblk
      BY <2>1
    <3>2. s.rw_oob /\ \A v \in Good(s) : v >= x
      BY <1>1, <3>1 DEF FirstInv, x
    <3>3. \A v \in Good(s) : v >= y
      BY <1>0, <1>4, <1>7, <3>1, <3>2
    <3> QED BY <1>2, <1>3, <3>2, <3>3
  <2>2. ASSUME t.rw_oob, ~t.skipfirstblk, NEW u \in Good(t), u >= y
        PROVE  \E v \in Good(t) : Block(v) < Block(u)
    <3>0. u \in Good(s) /\ u \in Nat /\ u < size /\ s.rw_oob /\ u >= x
      BY <1>0, <1>2, <1>3, <1>4, <2>2
    <3>1. CASE ~s.skipfirstblk
      BY <1>1, <1>2, <3>0, <3>1 DEF FirstInv, x
    <3>2. CASE s.skipfirstblk
      <4>1. ~bad /\ x < size
        BY <1>0, <2>2, <3>0, <3>2
      <4>2. x \in Units /\ Block(x) \notin s.bad
        BY <1>0, <1>1, <4>1, SizeFacts DEF x
      <4>3. x \in Good(s)
        BY <1>0, <4>2 DEF Good
      <4>4. Block(x) < Block(u)
        BY <1>0, <2>2, <3>0, BlockAfter DEF x, y
      <4> QED BY <1>2, <4>3, <4>4
    <3> QED BY <3>1, <3>2
  <2> QED BY <2>1, <2>2 DEF FirstInv, y
<1>15. t.at <= t.off
  BY <1>0, <1>3 DEF y
<1> QED BY <1>1, <1>3, <1>9, <1>10, <1>11, <1>12, <1>13, <1>14, <1>15 DEF WriteInv

LEMMA WholePlus ==
  ASSUME NEW x \in Nat, NEW k \in Nat, Whole(x)
  PROVE  (x + k) \div WriteSize = (x \div WriteSize) + (k \div WriteSize)
<1> DEFINE a == x \div WriteSize
           c == k \div WriteSize
           r == k % WriteSize
<1>1. a \in Nat /\ x = a * WriteSize
  BY WholeDef
<1>2. c \in Nat /\ r \in 0..(WriteSize - 1) /\ k = c * WriteSize + r
  BY Params, DivMod
<1>3. WriteSize \in Nat \ {0}
  BY Params
<1> HIDE DEF a, c, r
<1>4. a + c \in Nat /\ r \in Nat /\ r < WriteSize
  BY <1>1, <1>2, <1>3
<1>5. (a + c) * WriteSize = a * WriteSize + c * WriteSize /\ a * WriteSize \in Nat /\ c * WriteSize \in Nat
  BY <1>1, <1>2, <1>3, TimesType
<1>6. x + k = (a + c) * WriteSize + r
  BY <1>1, <1>2, <1>4, <1>5
<1>7. ((a + c) * WriteSize + r) \div WriteSize = a + c
  BY <1>3, <1>4, DivUnique
<1> QED BY <1>6, <1>7 DEF a, c

\* The units of a chunk are the next ones the image belongs in.
LEMMA ChunkPlaces ==
  ASSUME NEW s \in Cmd, s.op = "write", s.ret = "run", ~s.skipfirstblk,
         NEW f, NEW o, NEW b, NEW i, WriteInv(s, f, o, b, i), Block(s.off) \notin b,
         NEW n \in Nat, n <= BlockLeft(s.off), s.off + n <= size
  PROVE  /\ \A u \in Nat : s.off <= u /\ u < s.off + n =>
              u \in Usable(s) /\ Rank(u, Usable(s)) = (s.len - s.left) + (u - s.off)
         /\ Cardinality(Below(Usable(s), s.off + n)) = (s.len - s.left) + n
<1> DEFINE x == s.off
           S == Usable(s)
<1>0. /\ x \in Nat /\ s.at \in Nat /\ s.at <= x /\ size \in Nat /\ s.rw_oob \in BOOLEAN
      /\ b = s.bad /\ FirstInv(s) /\ Cardinality(Below(S, x)) = s.len - s.left
      /\ BlockLeft(x) \in Nat
  BY SizeFacts, BlockFacts DEF Cmd, WriteInv, CountInv
<1>1. S \in SUBSET Units
  BY UsableFacts
<1>2. ASSUME NEW u \in Nat, x <= u, u < x + n PROVE u \in S
  <2>1. u < size /\ u < x + BlockLeft(x) /\ u >= s.at
    BY <1>0, <1>2
  <2>2. Block(u) = Block(x)
    BY <1>0, <1>2, <2>1, BlockSame
  <2>3. u \in Good(s)
    BY <1>0, <2>1, <2>2, SizeFacts DEF Good
  <2>4. CASE s.rw_oob
    <3>1. \E v \in Good(s) : Block(v) < Block(u)
      BY <1>0, <1>2, <2>3, <2>4 DEF FirstInv
    <3> QED BY <2>3, <2>4, <3>1, UsableFacts
  <2>5. CASE ~s.rw_oob
    BY <2>3, <2>5, UsableFacts
  <2> QED BY <2>4, <2>5
<1> HIDE DEF x, S
<1>3. ASSUME NEW k \in Nat, k <= n PROVE Cardinality(Below(S, x + k)) = (s.len - s.left) + k
  <2>1. \A u \in Nat : x <= u /\ u < x + k => u \in S
    BY <1>0, <1>2, <1>3
  <2> QED BY <1>0, <1>1, <2>1, BelowMore
<1>4. ASSUME NEW u \in Nat, x <= u, u < x + n PROVE Rank(u, S) = (s.len - s.left) + (u - x)
  <2>1. u - x \in Nat /\ u - x <= n /\ x + (u - x) = u
    BY <1>0, <1>4
  <2> QED BY <1>3, <2>1, RankBelow
<1>5. Cardinality(Below(S, x + n)) = (s.len - s.left) + n
  BY <1>3
<1> QED BY <1>2, <1>4, <1>5 DEF x, S

\* What programming n units at off changes.
LEMMA ProgramFacts ==
  ASSUME NEW off \in Nat, NEW n \in Nat, Whole(off), Whole(n), off + n <= size,
         NEW image, NEW spare, NEW stop \in Nat, Program(off, n, image, spare, stop)
  PROVE  /\ \A u \in Units : u < off \/ u >= off + n => flash'[u] = flash[u]
         /\ \A q \in Pages : q * WriteSize < off \/ q * WriteSize >= off + n => oob'[q] = oob[q]
         /\ stop >= n \div WriteSize =>
              \A k \in Nat : k < n /\ Blank((off + k) \div WriteSize, flash, oob) =>
                /\ flash'[off + k] = image[k]
                /\ oob'[(off + k) \div WriteSize] = spare[k \div WriteSize]
<1> DEFINE first == off \div WriteSize
           pages == n \div WriteSize
<1>0. first \in Nat /\ pages \in Nat /\ size \in Nat
  BY PageFacts, SizeFacts
<1>1. \A u \in Units : flash'[u] =
              IF u \notin off..(off + n - 1) \/ (u \div WriteSize) - first > stop THEN flash[u]
              ELSE IF (u \div WriteSize) - first = stop \/ ~Blank(u \div WriteSize, flash, oob) THEN Junk
              ELSE image[u - off]
  BY DEF Program
<1>2. \A q \in Pages : oob'[q] =
              IF q - first \notin 0..(pages - 1) \/ q - first > stop THEN oob[q]
              ELSE IF q - first = stop \/ ~Blank(q, flash, oob) THEN Junk
              ELSE spare[q - first]
  BY DEF Program
<1> HIDE DEF first, pages
<1>3. \A u \in Units : u < off \/ u >= off + n => flash'[u] = flash[u]
  <2>1. \A u \in Nat : u < off \/ u >= off + n => u \notin off..(off + n - 1)
    OBVIOUS
  <2>2. \A u \in Units : u \in Nat
    BY SizeFacts
  <2> QED BY <1>1, <2>1, <2>2
<1>4. ASSUME NEW q \in Pages, q * WriteSize < off \/ q * WriteSize >= off + n
      PROVE  oob'[q] = oob[q]
  <2>0. q \in Nat
    BY SizeFacts DEF Pages
  <2>1. q * WriteSize \in Nat /\ (q * WriteSize) \div WriteSize = q
    BY <2>0, Params, TimesType, WholeDef
  <2>2. off + n \in Nat /\ Whole(off + n) /\ (off + n) \div WriteSize = first + pages
    BY WholeSum DEF first, pages
  <2>3. (q * WriteSize < off <=> q < first) /\ (q * WriteSize < off + n <=> q < first + pages)
    BY <2>1, <2>2, PageFacts DEF first
  <2>4. q < first \/ q >= first + pages
    BY <1>0, <1>4, <2>0, <2>1, <2>3
  <2>5. q - first \notin 0..(pages - 1)
    BY <1>0, <2>0, <2>4
  <2> QED BY <1>2, <2>5
<1>5. ASSUME stop >= pages, NEW k \in Nat, k < n, Blank((off + k) \div WriteSize, flash, oob)
      PROVE  /\ flash'[off + k] = image[k]
             /\ oob'[(off + k) \div WriteSize] = spare[k \div WriteSize]
  <2> DEFINE u == off + k
             q == u \div WriteSize
             c == k \div WriteSize
  <2>1. u \in Nat /\ u < size /\ u \in off..(off + n - 1) /\ u - off = k
    BY <1>0, <1>5
  <2>2. q = first + c
    BY WholePlus DEF first
  <2>3. c \in Nat /\ c < pages
    BY <1>5, PageFacts DEF pages
  <2>4. u \in Units /\ q \in Pages
    BY <2>1, SizeFacts, PageFacts
  <2> HIDE DEF u, q, c
  <2>5. q - first = c /\ ~(c > stop) /\ c # stop /\ c \in 0..(pages - 1)
    BY <1>0, <1>5, <2>2, <2>3
  <2>6. Blank(q, flash, oob)
    BY <1>5 DEF q, u
  <2>7. flash'[u] = image[k]
    BY <1>1, <2>1, <2>4, <2>5, <2>6 DEF q
  <2>8. oob'[q] = spare[c]
    BY <1>2, <2>4, <2>5, <2>6
  <2> QED BY <2>7, <2>8 DEF u, q, c
<1> QED BY <1>3, <1>4, <1>5 DEF pages

\* What nand_write programs is what the image has for these units, and behind them
\* the image stays as it is.
LEMMA ChunkData ==
  ASSUME NEW s, CmdInv(s), s.op = "write", s.ret = "run", s.left > 0, Whole(s.len),
         NEW i \in Images, RamInv(s, i), NEW n, n = Chunk(s),
         NEW buf, buf = Rearranged(s, i, n), NEW R, R = s.len - s.left
  PROVE  /\ R \in Nat /\ Whole(R)
         /\ \A k \in Nat : k < n =>
              /\ ToFlash(s, buf, n)[k] = Data(s, R + k)
              /\ ToOob(s, buf, n)[k \div WriteSize] = Spare(s, (R + k) \div WriteSize)
         /\ s.p + InImage(s, n) = InImage(s, R + n)
         /\ \A j \in 0..(RamSize - 1) : j >= s.p + InImage(s, n) => buf[j] = s.image[j]
<1> DEFINE pages == n \div WriteSize
           r == R \div WriteSize
           p == s.p
<1>0. /\ s \in Cmd /\ s.len \in Nat /\ s.left \in Nat /\ s.left <= s.len /\ Whole(s.left) /\ p \in Nat
      /\ s.rw_oob \in BOOLEAN /\ RamSize \in Nat /\ WriteSize \in Nat \ {0}
  BY Params DEF CmdInv, WritePlace, Cmd
<1>1. /\ n \in Nat \ {0} /\ pages \in Nat \ {0} /\ n = pages * WriteSize /\ Whole(n)
      /\ InImage(s, n) = n + (IF s.rw_oob THEN pages ELSE 0) /\ p + InImage(s, n) <= RamSize
  BY WriteRoom
<1>2. R \in Nat /\ Whole(R)
  <2>1. Whole(s.len - s.left)
    BY <1>0, WholeDiff
  <2> QED BY <1>0, <2>1, SMTT(30)
<1>3. r \in Nat /\ R = r * WriteSize /\ p = InImage(s, R) /\ (R + n) \div WriteSize = r + pages
  BY <1>1, <1>2, WholeDef, WholeSum DEF RamInv
<1>4. \A j \in 0..(RamSize - 1) : j >= p => i[j] = s.image[j]
  BY DEF RamInv
<1>5. \A k \in Nat : /\ (R + k) \div WriteSize = r + (k \div WriteSize) /\ k \div WriteSize \in Nat
                     /\ k < n => k \div WriteSize < pages
  BY <1>1, <1>2, WholePlus, PageFacts
<1> HIDE DEF pages, r, p
<1>6. CASE ~s.rw_oob
  <2>1. buf = i /\ p = R /\ InImage(s, n) = n /\ InImage(s, R + n) = R + n
    BY <1>1, <1>2, <1>3, <1>6 DEF InImage, Rearranged
  <2>2. ASSUME NEW k \in Nat, k < n
        PROVE  /\ ToFlash(s, buf, n)[k] = Data(s, R + k)
               /\ ToOob(s, buf, n)[k \div WriteSize] = Spare(s, (R + k) \div WriteSize)
    <3>1. k \in 0..(n - 1) /\ p + k \in 0..(RamSize - 1) /\ p + k >= p
      BY <1>0, <1>1, <2>1, <2>2
    <3>2. ToFlash(s, buf, n)[k] = buf[p + k]
      BY <3>1 DEF ToFlash, p
    <3>3. buf[p + k] = s.image[R + k]
      BY <1>4, <2>1, <3>1
    <3>4. k \div WriteSize \in 0..(pages - 1)
      BY <1>1, <1>5, <2>2
    <3>5. ToOob(s, buf, n)[k \div WriteSize] = Erased
      BY <1>6, <3>4 DEF ToOob, pages
    <3> QED BY <1>6, <3>2, <3>3, <3>5 DEF Data, Spare
  <2>3. \A j \in 0..(RamSize - 1) : j >= p + n => buf[j] = s.image[j]
    BY <1>0, <1>1, <1>4, <2>1
  <2> QED BY <1>2, <2>1, <2>2, <2>3 DEF p
<1>7. CASE s.rw_oob
  <2> DEFINE W == WriteSize
  <2>0. r * W \in Nat /\ r * (W + 1) = r * W + r
    BY <1>0, <1>3, TimesType
  <2>1. buf = DataThenOob(i, p, pages) /\ p = R + r /\ InImage(s, n) = n + pages
        /\ InImage(s, R + n) = (R + n) + (r + pages)
    BY <1>1, <1>2, <1>3, <1>7 DEF InImage, Rearranged, p, pages, r
  <2>2. pages * (W + 1) = n + pages
    BY <1>0, <1>1, TimesType
  <2>3. /\ \A k \in Nat : k < pages * W => buf[p + k] = i[p + k + (k \div W)]
        /\ \A j \in Nat : j < pages => buf[p + pages * W + j] = i[p + j * (W + 1) + W]
        /\ \A u \in Nat : p + pages * (W + 1) <= u /\ u < RamSize => buf[u] = i[u]
    <3>1. p \in Nat /\ pages \in Nat /\ p + pages * (WriteSize + 1) <= RamSize
      BY <1>0, <1>1, <2>1, <2>2
    <3> QED BY <2>1, <3>1, DataThenOobFacts
  <2>4. ASSUME NEW k \in Nat, k < n
        PROVE  /\ ToFlash(s, buf, n)[k] = Data(s, R + k)
               /\ ToOob(s, buf, n)[k \div W] = Spare(s, (R + k) \div W)
    <3> DEFINE c == k \div W
    <3>0. c \in Nat /\ c < pages /\ (R + k) \div W = r + c
      BY <1>5, <2>4
    <3> HIDE DEF c
    <3>1. k \in 0..(n - 1) /\ p + k + c \in 0..(RamSize - 1) /\ p + k + c >= p /\ c \in 0..(pages - 1)
          /\ p + k + c = (R + k) + (r + c)
      <4>1. n \in Nat /\ pages \in Nat /\ p + (n + pages) <= RamSize
        BY <1>1, <2>1
      <4>2. p = R + r /\ r \in Nat /\ R \in Nat
        BY <1>2, <1>3, <2>1
      <4>3. p + k + c < p + (n + pages)
        BY <1>0, <2>4, <3>0, <4>1
      <4>4. p + k + c \in 0..(RamSize - 1)
        BY <1>0, <3>0, <4>1, <4>3
      <4>5. p + k + c = (R + k) + (r + c)
        BY <3>0, <4>2
      <4> QED BY <1>0, <2>4, <3>0, <4>1, <4>4, <4>5
    <3>2. ToFlash(s, buf, n)[k] = buf[p + k]
      BY <3>1 DEF ToFlash, p
    <3>3. buf[p + k] = i[p + k + c]
      BY <1>1, <2>3, <2>4 DEF c
    <3>4. i[p + k + c] = s.image[(R + k) + (r + c)]
      BY <1>4, <3>1
    <3>5. Data(s, R + k) = s.image[(R + k) + (r + c)]
      BY <1>7, <3>0 DEF Data
    <3>6. ToOob(s, buf, n)[c] = buf[p + n + c]
      BY <1>7, <3>1 DEF ToOob, pages, p
    <3>7. buf[p + n + c] = i[p + c * (W + 1) + W]
      BY <1>1, <2>3, <3>0
    <3>8. /\ c * (W + 1) = c * W + c /\ c * W \in Nat /\ c * W + W <= n
          /\ (r + c) * (W + 1) = r * (W + 1) + c * (W + 1)
      <4>1. c * W \in Nat /\ c * (W + 1) = c * W + c /\ (c + 1) * W = c * W + W
        BY <1>0, <3>0, TimesType
      <4>2. (c + 1) * W <= pages * W
        <5>1. c + 1 \in Nat /\ pages \in Nat /\ c + 1 <= pages /\ W \in Nat
          BY <1>0, <1>1, <3>0
        <5> QED BY <5>1, TimesMono
      <4>3. (r + c) * (W + 1) = r * (W + 1) + c * (W + 1)
        BY <1>0, <1>3, <3>0
      <4> QED BY <1>1, <4>1, <4>2, <4>3
    <3>9. p + c * (W + 1) + W = (r + c) * (W + 1) + W
      <4> DEFINE a == r * W
                 d == c * W
      <4>1. a \in Nat /\ d \in Nat /\ R = a /\ r * (W + 1) = a + r /\ c * (W + 1) = d + c
            /\ (r + c) * (W + 1) = r * (W + 1) + c * (W + 1) /\ p = R + r
        BY <1>3, <2>0, <2>1, <3>8
      <4> HIDE DEF a, d
      <4>2. (r + c) * (W + 1) = (a + r) + (d + c) /\ p = a + r
        BY <4>1
      <4> QED BY <1>0, <1>3, <3>0, <4>1, <4>2
    <3>10. p + c * (W + 1) + W \in 0..(RamSize - 1) /\ p + c * (W + 1) + W >= p
      <4> DEFINE d == c * W
      <4>1. d \in Nat /\ d + W <= n /\ c * (W + 1) = d + c
        BY <3>8
      <4> HIDE DEF d
      <4> QED BY <1>0, <1>1, <2>1, <3>0, <4>1
    <3>11. buf[p + n + c] = Spare(s, r + c)
      BY <1>4, <1>7, <3>7, <3>9, <3>10 DEF Spare
    <3> QED BY <3>0, <3>2, <3>3, <3>4, <3>5, <3>6, <3>11 DEF c
  <2>5. \A j \in 0..(RamSize - 1) : j >= p + (n + pages) => buf[j] = s.image[j]
    <3>1. \A j \in 0..(RamSize - 1) : j \in Nat /\ j < RamSize /\ (j >= p + (n + pages) => j >= p)
      BY <1>0, <1>1
    <3> QED BY <1>0, <1>1, <1>4, <2>2, <2>3, <3>1
  <2>6. p + (n + pages) = (R + n) + (r + pages)
    BY <1>1, <1>2, <1>3, <2>1
  <2> QED BY <1>2, <2>1, <2>4, <2>5, <2>6 DEF p
<1> QED BY <1>6, <1>7

\* Where nothing has been written, a page is as blank as it was before.
LEMMA BlankAhead ==
  ASSUME NEW s \in Cmd, NEW f, NEW o, AheadInv(s, f, o), NEW q \in Pages, q * WriteSize >= s.off
  PROVE  Blank(q, f, o) <=> Blank(q, s.before, s.beforeOob)
<1>1. o[q] = s.beforeOob[q]
  BY DEF AheadInv
<1>2. ASSUME NEW u \in Units, u \div WriteSize = q PROVE f[u] = s.before[u]
  <2>1. u \in Nat /\ q * WriteSize <= u
    BY <1>2, SizeFacts, PageFacts
  <2>2. q * WriteSize \in Nat /\ s.off \in Nat
    <3>1. q \in Nat
      BY SizeFacts DEF Pages
    <3> QED BY <3>1, Params, TimesType DEF Cmd
  <2>3. u >= s.off
    BY <2>1, <2>2
  <2> QED BY <2>3 DEF AheadInv
<1> QED BY <1>1, <1>2 DEF Blank

\* A chunk, stored or spoilt, leaves the other units alone.
LEMMA ChunkOthers ==
  ASSUME NEW s \in Cmd, s.op = "write", s.ret = "run", ~s.skipfirstblk,
         NEW f, NEW o, NEW b, NEW i, WriteInv(s, f, o, b, i), Block(s.off) \notin b,
         NEW n \in Nat, n <= BlockLeft(s.off), n <= s.left, s.left <= s.len, s.off + n <= size,
         NEW f2, \A u \in Units : u < s.off \/ u >= s.off + n => f2[u] = f[u]
  PROVE  OthersInv(s, f2)
<1> SUFFICES ASSUME NEW u \in Units, f2[u] # s.before[u]
             PROVE  u \in Usable(s) /\ Rank(u, Usable(s)) < s.len
  BY DEF OthersInv
<1>0. u \in Nat /\ s.off \in Nat /\ s.left \in Nat /\ s.len \in Nat
  BY SizeFacts DEF Cmd
<1>1. CASE u < s.off \/ u >= s.off + n
  BY <1>1 DEF WriteInv, OthersInv
<1>2. CASE ~(u < s.off \/ u >= s.off + n)
  <2>1. s.off <= u /\ u < s.off + n
    BY <1>0, <1>2
  <2>2. u \in Usable(s) /\ Rank(u, Usable(s)) = (s.len - s.left) + (u - s.off)
    BY <1>0, <2>1, ChunkPlaces
  <2>3. (s.len - s.left) + (u - s.off) < s.len
    BY <1>0, <2>1
  <2> QED BY <2>2, <2>3
<1> QED BY <1>1, <1>2

\* A chunk that has been stored.
LEMMA ChunkStored ==
  ASSUME NEW s, CmdInv(s), s.op = "write", s.ret = "run", s.left > 0, ~s.skipfirstblk,
         NEW f, NEW o, NEW b, NEW i \in Images, WriteInv(s, f, o, b, i), Block(s.off) \notin b,
         NEW n, n = Chunk(s), s.off + n <= size, NEW t, t = Advance(s, n),
         NEW buf, buf = Rearranged(s, i, n),
         NEW f2, \A u \in Units : u < s.off \/ u >= s.off + n => f2[u] = f[u],
         NEW o2, \A q \in Pages : q * WriteSize < s.off \/ q * WriteSize >= s.off + n => o2[q] = o[q],
         \A k \in Nat : k < n /\ Blank((s.off + k) \div WriteSize, f, o) =>
             /\ f2[s.off + k] = ToFlash(s, buf, n)[k]
             /\ o2[(s.off + k) \div WriteSize] = ToOob(s, buf, n)[k \div WriteSize]
  PROVE  WriteInv(t, f2, o2, b, buf)
<1> DEFINE x == s.off
           S == Usable(s)
           R == s.len - s.left
<1>0. /\ s \in Cmd /\ x \in Nat /\ s.left \in Nat /\ s.len \in Nat /\ s.left <= s.len /\ Whole(x)
      /\ s.p \in Nat /\ s.skipfirstblk = FALSE /\ s.at \in Nat
  BY DEF CmdInv, WritePlace, Cmd
<1>1. /\ b = s.bad /\ FirstInv(s) /\ AheadInv(s, f, o) /\ RamInv(s, i) /\ Whole(s.len)
      /\ StoredInv(s, f, o) /\ s.at <= x
  BY DEF WriteInv
<1>2. n \in Nat \ {0} /\ n <= s.left /\ n <= BlockLeft(x) /\ Whole(n)
      /\ InImage(s, n) = n + (IF s.rw_oob THEN n \div WriteSize ELSE 0)
  BY WriteRoom
<1>3. /\ t \in Cmd /\ Kept(s, t) /\ t.ret = "run" /\ t.off = x + n /\ t.left = s.left - n
      /\ t.p = s.p + n + (IF s.rw_oob THEN n \div WriteSize ELSE 0) /\ t.skipfirstblk = FALSE
  BY <1>0, <1>2, AdvanceFacts
<1>4. /\ Usable(t) = S /\ Good(t) = Good(s)
      /\ \A k : Data(t, k) = Data(s, k) /\ Spare(t, k) = Spare(s, k) /\ InImage(t, k) = InImage(s, k)
  BY <1>3, UsableKept
<1>5. /\ t.at = s.at /\ t.len = s.len /\ t.before = s.before /\ t.beforeOob = s.beforeOob
      /\ t.bad = s.bad /\ t.image = s.image /\ t.rw_oob = s.rw_oob
  BY <1>3 DEF Kept
<1>6. /\ R \in Nat
      /\ \A k \in Nat : k < n => /\ ToFlash(s, buf, n)[k] = Data(s, R + k)
                                 /\ ToOob(s, buf, n)[k \div WriteSize] = Spare(s, (R + k) \div WriteSize)
      /\ s.p + InImage(s, n) = InImage(s, R + n)
      /\ \A j \in 0..(RamSize - 1) : j >= s.p + InImage(s, n) => buf[j] = s.image[j]
  BY <1>1, ChunkData
<1>7. /\ \A u \in Nat : x <= u /\ u < x + n => u \in S /\ Rank(u, S) = R + (u - x)
      /\ Cardinality(Below(S, x + n)) = R + n
  BY <1>0, <1>2, ChunkPlaces
<1>8. OthersInv(t, f2)
  <2>1. OthersInv(s, f2)
    BY <1>0, <1>2, ChunkOthers
  <2> QED BY <1>4, <1>5, <2>1 DEF OthersInv
<1>9. t.len - t.left = R + n
  BY <1>0, <1>2, <1>3, <1>5
<1>10. CountInv(t)
  BY <1>3, <1>4, <1>7, <1>9 DEF CountInv
<1>11. \A u \in S : u \in Units /\ u \in Nat /\ u < size
  BY <1>0, UsableFacts, SizeFacts
<1> HIDE DEF x, S, R
<1>12. ASSUME NEW u \in S, u < x + n, Blank(u \div WriteSize, s.before, s.beforeOob)
       PROVE  /\ f2[u] = Data(s, Rank(u, S))
              /\ o2[u \div WriteSize] = Spare(s, Rank(u, S) \div WriteSize)
  <2> DEFINE q == u \div WriteSize
  <2>0. /\ q \in Pages /\ q \in Nat /\ q * WriteSize <= u /\ q * WriteSize \in Nat
        /\ (u < x <=> q < x \div WriteSize)
    BY <1>0, <1>11, PageFacts, Params, TimesType
  <2>1. CASE u < x
    <3>1. q * WriteSize < x
      BY <1>0, <1>11, <2>0, <2>1
    <3>2. f[u] = Data(s, Rank(u, S)) /\ o[q] = Spare(s, Rank(u, S) \div WriteSize)
      BY <1>1, <1>12, <2>1 DEF StoredInv, x, S
    <3> QED BY <1>11, <2>0, <2>1, <3>1, <3>2 DEF x
  <2>2. CASE ~(u < x)
    <3> DEFINE k == u - x
    <3>1. k \in Nat /\ k < n /\ x + k = u /\ x <= u
      BY <1>0, <1>2, <1>11, <1>12, <2>2
    <3> HIDE DEF k
    <3>2. q * WriteSize >= x
      <4>1. x \div WriteSize \in Nat /\ x = (x \div WriteSize) * WriteSize
        BY <1>0, WholeDef
      <4> DEFINE a == x \div WriteSize
      <4> HIDE DEF a, q
      <4>2. a \in Nat /\ x = a * WriteSize /\ a <= q
        BY <2>0, <2>2, <4>1 DEF a
      <4>3. a * WriteSize <= q * WriteSize
        BY <2>0, <4>2, Params, TimesMono
      <4> QED BY <1>0, <2>0, <4>2, <4>3
    <3>3. Blank(q, f, o)
      BY <1>0, <1>1, <1>12, <2>0, <3>2, BlankAhead DEF x
    <3>4. f2[u] = ToFlash(s, buf, n)[k] /\ o2[q] = ToOob(s, buf, n)[k \div WriteSize]
      BY <3>1, <3>3 DEF x
    <3>5. Rank(u, S) = R + k
      BY <1>7, <1>11, <1>12, <3>1 DEF k
    <3> QED BY <1>6, <3>1, <3>4, <3>5
  <2> QED BY <2>1, <2>2
<1>13. StoredInv(t, f2, o2)
  BY <1>3, <1>4, <1>5, <1>12 DEF StoredInv
<1>14. FirstInv(t)
  <2>1. \A u \in Good(s) : u \in Nat
    BY SizeFacts DEF Good
  <2>2. \A u \in Nat : u >= x + n => u >= x
    BY <1>0, <1>2
  <2> QED BY <1>0, <1>1, <1>3, <1>4, <1>5, <2>1, <2>2 DEF FirstInv, x
<1>15. AheadInv(t, f2, o2)
  <2>1. \A u \in Units : u \in Nat
    BY SizeFacts
  <2>2. \A q \in Pages : q * WriteSize \in Nat
    BY Params, TimesType, SizeFacts DEF Pages
  <2>3. \A u \in Nat : u >= x + n => u >= x
    BY <1>0, <1>2
  <2> QED BY <1>1, <1>3, <1>5, <2>1, <2>2, <2>3 DEF AheadInv, x
<1>16. RamInv(t, buf)
  <2>1. t.p = s.p + InImage(s, n)
    <3>1. n \div WriteSize \in Nat
      BY <1>2, PageFacts
    <3> QED BY <1>0, <1>2, <1>3, <3>1
  <2> QED BY <1>4, <1>5, <1>6, <1>9, <2>1 DEF RamInv
<1>17. t.at <= t.off
  BY <1>0, <1>1, <1>2, <1>3, <1>5
<1> QED BY <1>1, <1>3, <1>5, <1>8, <1>10, <1>13, <1>14, <1>15, <1>16, <1>17 DEF WriteInv
----------------------------------------------------------------------------
(* Every step keeps it. *)

LEMMA InitCommand == Init => CommandInv
BY DEF Init, CommandInv

LEMMA EraseEntered ==
  ASSUME TypeInv, NEW off \in Nat, NEW len \in Nat, NEW clean \in BOOLEAN, NEW scrub \in BOOLEAN,
         NandErase(off, len, clean, scrub)
  PROVE  CommandInv' /\ cmd'.op = "erase"
<1>0. PICK n : n = NewCmd("erase", off, len)
  OBVIOUS
<1> DEFINE l == IF len < EraseSize THEN EraseSize ELSE len
<1> DEFINE s == [n EXCEPT !.left = l, !.clean = clean, !.scrub = scrub]
<1>1. n \in Cmd /\ n.op = "erase" /\ n.at = off /\ n.off = off /\ n.before = flash
  <2>1. ChipType /\ "erase" \in Ops
    BY DEF TypeInv, Ops
  <2>2. LET t == NewCmd("erase", off, len) IN
        /\ t \in Cmd /\ t.op = "erase" /\ t.ret = "run" /\ t.at = off /\ t.off = off
        /\ t.len = len /\ t.left = len /\ t.p = 0 /\ ~t.rw_oob /\ ~t.skipfirstblk
        /\ t.bad = bbt /\ t.image = ram /\ t.before = flash /\ t.beforeOob = oob
        /\ t.got = [i \in {} |-> 0] /\ ~t.scrub
    BY <2>1, NewCmdFacts, ZenonT(60)
  <2> QED BY <1>0, <2>2, ZenonT(60)
<1>2. cmd' = s /\ flash' = flash
  BY <1>0 DEF NandErase, Enter, chip
<1> HIDE DEF l
<1>3. s.op = "erase" /\ s.at = off /\ s.off = off /\ s.before = flash
  BY <1>1 DEF Cmd
<1> HIDE DEF s
<1>4. EraseInv(s, flash)
  BY <1>3 DEF EraseInv
<1> QED BY <1>2, <1>3, <1>4 DEF CommandInv

LEMMA WriteEntered ==
  ASSUME TypeInv, NEW off \in Nat, NEW len \in Nat, NEW yaffs \in BOOLEAN,
         NandWrite(off, len, yaffs)
  PROVE  CommandInv' /\ cmd'.op = "write"
<1>1. PICK n : n = IF yaffs THEN (len \div (WriteSize + 1)) * WriteSize ELSE len
  OBVIOUS
<1>2. PICK s : s = WriteCmd(off, n, yaffs)
  OBVIOUS
<1>3. /\ len <= RamSize
      /\ Enter(IF \/ yaffs /\ len % (WriteSize + 1) # 0
                  \/ ~PageAligned(off, n)
                  \/ off + get_len_incl_bad(off, n) > size
               THEN Return(s, "einval") ELSE s)
      /\ UNCHANGED <<chip, bbt, ram, fails>>
  BY <1>1, <1>2, Zenon DEF NandWrite, WriteCmd
<1>4. ChipType /\ len <= RamSize
  BY <1>3 DEF TypeInv
<1>5. /\ n \in Nat /\ s \in Cmd /\ s.op = "write" /\ s.ret = "run" /\ s.at = off /\ s.off = off
      /\ s.len = n /\ s.left = n /\ s.p = 0 /\ s.rw_oob = yaffs /\ s.skipfirstblk = yaffs
      /\ s.bad = bbt /\ s.image = ram /\ s.before = flash /\ s.beforeOob = oob
  BY <1>1, <1>2, <1>4, WriteCmdFacts
<1>6. flash' = flash /\ oob' = oob /\ bbt' = bbt /\ ram' = ram
  BY <1>3 DEF chip
<1>7. CASE cmd' = s /\ PageAligned(off, n)
  <2>1. Whole(s.len) /\ s.skipfirstblk = s.rw_oob
    BY <1>5, <1>7 DEF PageAligned, Whole
  <2>2. WriteInv(s, s.before, s.beforeOob, s.bad, s.image)
    BY <1>5, <2>1, WriteBegins
  <2>3. WriteInv(s, flash, oob, bbt, ram)
    BY <1>5, <2>2
  <2> QED BY <1>5, <1>6, <1>7, <2>3 DEF CommandInv
<1>8. CASE cmd' = Return(s, "einval")
  <2>1. PICK t : t = Return(s, "einval")
    OBVIOUS
  <2>2. t \in Cmd /\ Kept(s, t) /\ t.ret = "einval" /\ t.off = s.off /\ t.left = s.left /\ t.p = s.p
    BY <1>5, <2>1, ReturnFacts DEF Rets
  <2>3. /\ t.op = "write" /\ t.off = t.at /\ t.left = t.len /\ t.bad = bbt /\ t.image = ram
        /\ t.before = flash /\ t.beforeOob = oob
    BY <1>5, <2>2 DEF Kept
  <2>4. WriteInv(t, t.before, t.beforeOob, t.bad, t.image)
    BY <1>5, <2>2, <2>3, WriteBegins
  <2>5. WriteInv(t, flash, oob, bbt, ram)
    BY <2>3, <2>4
  <2> QED BY <1>6, <1>8, <2>1, <2>3, <2>5 DEF CommandInv
<1> QED BY <1>3, <1>7, <1>8 DEF Enter

\* The other commands are neither.
LEMMA ReadsEntered ==
  ASSUME TypeInv, NEW off \in Nat, NEW len \in Nat, NandRead(off, len)
  PROVE  CommandInv'
<1>0. ChipType
  BY DEF TypeInv
<1>1. \A r \in Rets, s \in Cmd : Return(s, r).op = s.op /\ Return(s, r) \in Cmd
  BY ReturnFacts DEF Kept
<1>2. cmd'.op = "read"
  <2>1. PICK s : s = NewCmd("read", off, len)
    OBVIOUS
  <2>2. s \in Cmd /\ s.op = "read"
    BY <1>0, <2>1, NewCmdFacts DEF Ops
  <2>3. \/ cmd' = s \/ cmd' = Return(s, "einval") \/ cmd' = Return(s, "failed")
        \/ cmd' = [Return(s, "ok") EXCEPT !.got = Got(s, len), !.left = 0]
    BY <2>1 DEF NandRead, Enter
  <2>4. Return(s, "ok") \in Cmd /\ Return(s, "ok").op = "read"
    BY <1>1, <2>2 DEF Rets
  <2>5. ASSUME NEW g, NEW r \in Cmd, r.op = "read" PROVE [r EXCEPT !.got = g, !.left = 0].op = "read"
    BY <2>5 DEF Cmd
  <2>6. CASE cmd' = [Return(s, "ok") EXCEPT !.got = Got(s, len), !.left = 0]
    <3> DEFINE r == Return(s, "ok")
               g == Got(s, len)
    <3>1. cmd' = [r EXCEPT !.got = g, !.left = 0] /\ r \in Cmd /\ r.op = "read"
      BY <2>4, <2>6
    <3> HIDE DEF r, g
    <3> QED BY <2>5, <3>1
  <2> QED BY <1>1, <2>2, <2>3, <2>6 DEF Rets
<1> QED BY <1>2 DEF CommandInv

LEMMA OthersEntered ==
  ASSUME TypeInv, (\E b \in Blocks : MarkBad(b)) \/ Load
  PROVE  CommandInv' /\ cmd'.op \in {"markbad", "load"}
<1>0. ChipType
  BY DEF TypeInv
<1>1. \A r \in Rets, s \in Cmd : Return(s, r).op = s.op /\ Return(s, r) \in Cmd
  BY ReturnFacts DEF Kept
<1>3. ASSUME NEW b \in Blocks, MarkBad(b) PROVE cmd'.op = "markbad"
  <2>1. PICK s : s = NewCmd("markbad", b * EraseSize, 0)
    OBVIOUS
  <2>2. b * EraseSize \in Nat
    BY Params, TimesType DEF Blocks
  <2>3. s \in Cmd /\ s.op = "markbad"
    BY <1>0, <2>1, <2>2, NewCmdFacts DEF Ops
  <2>4. cmd' = Return(s, "ok") \/ cmd' = Return(s, "error")
    BY <1>3, <2>1 DEF MarkBad, Enter
  <2> QED BY <1>1, <2>3, <2>4 DEF Rets
<1>4. ASSUME Load PROVE cmd'.op = "load"
  <2>1. PICK s : s = NewCmd("load", 0, 0)
    OBVIOUS
  <2>2. s \in Cmd /\ s.op = "load"
    <3>1. "load" \in Ops /\ 0 \in Nat
      BY DEF Ops
    <3> QED BY <1>0, <2>1, <3>1, NewCmdFacts, Zenon
  <2>3. cmd' = Return(s, "ok")
    BY <1>4, <2>1 DEF Load, Enter
  <2> QED BY <1>1, <2>2, <2>3 DEF Rets
<1> QED BY <1>3, <1>4 DEF CommandInv

LEMMA EraseKeepsInv ==
  ASSUME TypeInv, CommandInv, EraseBlock
  PROVE  CommandInv' /\ cmd'.op = "erase"
<1>0. cmd.op = "erase" /\ cmd.ret = "run"
  BY DEF EraseBlock, Idle
<1>1. /\ CmdInv(cmd) /\ cmd \in Cmd /\ cmd.at \in Nat /\ cmd.off \in Nat /\ cmd.left \in Nat
      /\ EraseInv(cmd, flash) /\ EraseSize \in Nat
  BY <1>0, RunningCmd, Params DEF Cmd, CommandInv
<1>2. PICK t : t = cmd'
  OBVIOUS
<1>3. PICK f : f = flash'
  OBVIOUS
<1>4. t.op = "erase" /\ t.at = cmd.at /\ t.left = cmd.left /\ t.before = cmd.before /\ t.off \in Nat /\ t.off >= cmd.off
  <2>1. CASE cmd' = Return(cmd, "ok") \/ cmd' = Return(cmd, "error")
    <3>1. PICK r \in Rets : t = Return(cmd, r)
      BY <1>2, <2>1 DEF Rets
    <3>2. Kept(cmd, t) /\ t.off = cmd.off /\ t.left = cmd.left
      BY <1>1, <3>1, ReturnFacts
    <3> QED BY <1>0, <1>1, <3>2 DEF Kept
  <2>2. CASE cmd' = [cmd EXCEPT !.off = @ + EraseSize]
    BY <1>0, <1>1, <1>2, <2>2 DEF Cmd
  <2> QED BY <2>1, <2>2 DEF EraseBlock
<1>5. ASSUME NEW u \in Units, Block(u) * EraseSize \notin cmd.at..(cmd.at + cmd.left - 1)
      PROVE  f[u] = flash[u]
  <2>0. u \in Nat
    BY SizeFacts
  <2>1. CASE flash' = flash
    BY <1>3, <2>1
  <2>2. CASE /\ cmd.off < cmd.at + cmd.left /\ cmd.off % EraseSize = 0
             /\ EraseOk(Block(cmd.off)) \/ EraseFails(Block(cmd.off))
    <3>1. cmd.off = Block(cmd.off) * EraseSize
      BY <1>1, <2>2, BlockFacts
    <3>2. cmd.off \in cmd.at..(cmd.at + cmd.left - 1)
      BY <1>1, <2>2 DEF EraseInv
    <3>3. Block(u) # Block(cmd.off)
      BY <1>5, <3>1, <3>2
    <3> QED BY <1>3, <2>2, <3>3 DEF EraseOk, EraseFails
  <2> QED BY <2>1, <2>2 DEF EraseBlock, chip
<1>6. EraseInv(t, f)
  <2>1. t.at <= t.off
    BY <1>1, <1>4 DEF EraseInv
  <2> QED BY <1>1, <1>4, <1>5, <2>1 DEF EraseInv
<1> QED BY <1>2, <1>3, <1>4, <1>6 DEF CommandInv

LEMMA WriteKeepsInv ==
  ASSUME TypeInv, CommandInv, WriteBlock
  PROVE  CommandInv' /\ cmd'.op = "write"
<1>0. cmd.op = "write" /\ cmd.ret = "run" /\ bbt' = bbt
  BY WriteRounds
<1>1. PICK s, f, o, b, i : s = cmd /\ f = flash /\ o = oob /\ b = bbt /\ i = ram
  OBVIOUS
<1>2. PICK t, f2, o2, i2 : t = cmd' /\ f2 = flash' /\ o2 = oob' /\ i2 = ram'
  OBVIOUS
<1>3. /\ CmdInv(s) /\ s \in Cmd /\ s.op = "write" /\ s.ret = "run" /\ WriteInv(s, f, o, b, i)
      /\ i \in Images /\ Whole(s.off) /\ s.off \in Nat /\ s.left \in Nat /\ s.len \in Nat
      /\ s.left <= s.len
  <2>1. CmdInv(s) /\ s \in Cmd
    BY <1>0, <1>1, RunningCmd
  <2> QED BY <1>0, <1>1, <2>1 DEF CommandInv, TypeInv, ChipType, CmdInv, WritePlace, Cmd
<1>4. OthersInv(s, f)
  BY <1>3 DEF WriteInv
<1> SUFFICES t.op = "write" /\ WriteInv(t, f2, o2, b, i2)
  BY <1>0, <1>1, <1>2 DEF CommandInv
<1>5. \A r \in Rets : Return(s, r).op = "write"
  BY <1>3, ReturnFacts DEF Kept
<1>6. CASE WriteEnds
  <2>1. t = Return(s, "ok") /\ f2 = f /\ o2 = o
    BY <1>1, <1>2, <1>6 DEF WriteEnds, chip
  <2>2. "ok" \in Rets \ {"run"}
    BY DEF Rets
  <2>3. WriteInv(t, f2, o2, b, i2)
    BY <1>3, <1>4, <2>1, <2>2, WriteReturns
  <2> QED BY <1>5, <2>1, <2>2, <2>3
<1>7. ASSUME NEW bad \in nand_block_isbad(cmd.off), WriteSkips(bad)
      PROVE  t.op = "write" /\ WriteInv(t, f2, o2, b, i2)
  <2>0. bad \in BOOLEAN /\ (s.off < size => (bad <=> Block(s.off) \in b))
    BY <1>1, IsBadFacts
  <2>1. f2 = f /\ o2 = o /\ i2 = i /\ (bad \/ s.skipfirstblk)
    BY <1>1, <1>2, <1>7 DEF WriteSkips, chip, MustSkip
  <2>2. t = s \/ t = NextBlock([s EXCEPT !.skipfirstblk = bad /\ @])
    BY <1>1, <1>2, <1>7, Zenon DEF WriteSkips
  <2>3. CASE t = s
    BY <1>3, <2>1, <2>3
  <2>4. CASE t = NextBlock([s EXCEPT !.skipfirstblk = bad /\ @])
    <3>1. /\ CmdInv(t) /\ t \in Cmd /\ Kept(s, t) /\ t.ret = "run"
          /\ t.off = s.off + BlockLeft(s.off) /\ t.left = s.left /\ t.p = s.p
          /\ t.skipfirstblk = (bad /\ s.skipfirstblk)
      BY <1>3, <2>0, <2>4, SkipInv, ZenonT(120)
    <3>2. WriteInv(t, f, o, b, i)
      BY <1>3, <2>0, <2>1, <3>1, WriteSkipped
    <3> QED BY <1>3, <2>1, <3>1, <3>2 DEF Kept
  <2> QED BY <2>2, <2>3, <2>4
<1> DEFINE n == Chunk(cmd)
<1>8. ASSUME WriteRefused(n) PROVE t.op = "write" /\ WriteInv(t, f2, o2, b, i2)
  <2>1. t = Return(s, "failed") /\ f2 = f /\ o2 = o
    BY <1>1, <1>2, <1>8 DEF WriteRefused, chip
  <2>2. "failed" \in Rets \ {"run"}
    BY DEF Rets
  <2>3. WriteInv(t, f2, o2, b, i2)
    BY <1>3, <1>4, <2>1, <2>2, WriteReturns
  <2> QED BY <1>5, <2>1, <2>2, <2>3
<1>9. ASSUME cmd.left > 0, NEW bad \in nand_block_isbad(cmd.off), ~MustSkip(cmd, bad), NEW stop \in Nat,
             WriteProgrammed(n, stop)
      PROVE  t.op = "write" /\ WriteInv(t, f2, o2, b, i2)
  <2>0. n = Chunk(s) /\ s.left > 0
    BY <1>1, <1>9
  <2>1. /\ n \in Nat \ {0} /\ n <= s.left /\ n <= BlockLeft(s.off) /\ Whole(n)
        /\ n \div WriteSize \in Nat
    BY <1>3, <2>0, WriteRoom
  <2> HIDE DEF n
  <2>2. s.off + n <= size /\ s.off < size
    <3>1. s.off + n <= size
      BY <1>1, <1>9 DEF WriteProgrammed
    <3> QED BY <1>3, <2>1, <3>1, SizeFacts
  <2>3. ~bad /\ ~s.skipfirstblk /\ Block(s.off) \notin b
    BY <1>1, <1>9, <2>2, IsBadFacts DEF MustSkip
  <2>4. PICK buf : buf = Rearranged(s, i, n)
    OBVIOUS
  <2>5. i2 = buf /\ Program(s.off, n, ToFlash(s, buf, n), ToOob(s, buf, n), stop)
    BY <1>1, <1>2, <1>9, <2>4 DEF WriteProgrammed
  <2>6. /\ \A u \in Units : u < s.off \/ u >= s.off + n => f2[u] = f[u]
        /\ \A q \in Pages : q * WriteSize < s.off \/ q * WriteSize >= s.off + n => o2[q] = o[q]
        /\ stop >= n \div WriteSize =>
             \A k \in Nat : k < n /\ Blank((s.off + k) \div WriteSize, f, o) =>
               /\ f2[s.off + k] = ToFlash(s, buf, n)[k]
               /\ o2[(s.off + k) \div WriteSize] = ToOob(s, buf, n)[k \div WriteSize]
    <3> DEFINE data == ToFlash(s, buf, n)
               spare == ToOob(s, buf, n)
    <3>1. Program(s.off, n, data, spare, stop)
      BY <2>5
    <3> HIDE DEF data, spare
    <3>2. n \in Nat
      BY <2>1
    <3>3. /\ \A u \in Units : u < s.off \/ u >= s.off + n => flash'[u] = flash[u]
          /\ \A q \in Pages : q * WriteSize < s.off \/ q * WriteSize >= s.off + n => oob'[q] = oob[q]
          /\ stop >= n \div WriteSize =>
               \A k \in Nat : k < n /\ Blank((s.off + k) \div WriteSize, flash, oob) =>
                 /\ flash'[s.off + k] = data[k]
                 /\ oob'[(s.off + k) \div WriteSize] = spare[k \div WriteSize]
      BY <1>3, <2>1, <2>2, <3>1, <3>2, ProgramFacts
    <3> QED BY <1>1, <1>2, <3>3 DEF data, spare
  <2>7. CASE stop < n \div WriteSize
    <3>1. t = Return(s, "failed")
      BY <1>1, <1>2, <1>9, <2>7 DEF WriteProgrammed
    <3>2. "failed" \in Rets \ {"run"}
      BY DEF Rets
    <3>3. OthersInv(s, f2)
      BY <1>3, <2>1, <2>2, <2>3, <2>6, ChunkOthers
    <3>4. WriteInv(t, f2, o2, b, i2)
      BY <1>3, <2>6, <3>1, <3>2, <3>3, WriteReturns
    <3> QED BY <1>5, <3>1, <3>2, <3>4
  <2>8. CASE ~(stop < n \div WriteSize)
    <3>1. t = Advance(s, n)
      BY <1>1, <1>2, <1>9, <2>8 DEF WriteProgrammed
    <3>2. WriteInv(t, f2, o2, b, buf)
      <4>1. stop >= n \div WriteSize
        BY <2>1, <2>8
      <4> QED BY <1>3, <2>0, <2>2, <2>3, <2>4, <2>6, <3>1, <4>1, ChunkStored
    <3>3. t.op = "write"
      BY <1>3, <2>1, <3>1, AdvanceFacts DEF Kept
    <3> QED BY <2>5, <3>2, <3>3
  <2> QED BY <2>7, <2>8
<1> QED
  <2>1. \A stop : stop \in (IF fails < MaxFails THEN 0 ELSE n \div WriteSize)..(n \div WriteSize)
                  /\ cmd.left > 0 => stop \in Nat
    <3>1. cmd.left > 0 => n \div WriteSize \in Nat
      BY <1>1, <1>3, WriteRoom
    <3> HIDE DEF n
    <3> QED BY <3>1
  <2> QED BY <1>6, <1>7, <1>8, <1>9, <2>1, WriteRounds

LEMMA ReadKeepsInv ==
  ASSUME TypeInv, ReadBlock
  PROVE  CommandInv'
<1>0. cmd.op = "read" /\ cmd.ret = "run"
  BY DEF ReadBlock, Idle
<1>1. cmd \in Cmd
  BY <1>0, RunningCmd
<1>2. ASSUME NEW n, NEW g, NEW t, t = Advance([cmd EXCEPT !.got = g], n) PROVE t.op = "read"
  BY <1>0, <1>1, <1>2 DEF Advance, Cmd
<1>3. \A r \in Rets : Return(cmd, r).op = "read"
  BY <1>0, <1>1, ReturnFacts DEF Kept
<1>4. NextBlock(cmd).op = "read"
  BY <1>0, <1>1, NextBlockFacts DEF Kept
<1>5. PICK t : t = cmd'
  OBVIOUS
<1>6. \/ \E r \in Rets : t = Return(cmd, r)
      \/ t = cmd \/ t = NextBlock(cmd)
      \/ \E n, g : t = Advance([cmd EXCEPT !.got = g], n)
  <2> DEFINE n == Chunk(cmd)
             g == Got(cmd, n)
  <2>1. \/ t = Return(cmd, "ok") \/ t = Return(cmd, "failed") \/ t = cmd \/ t = NextBlock(cmd)
        \/ t = Advance([cmd EXCEPT !.got = g], n)
    BY <1>5 DEF ReadBlock
  <2> HIDE DEF n, g
  <2>2. "ok" \in Rets /\ "failed" \in Rets
    BY DEF Rets
  <2> QED BY <2>1, <2>2, Zenon
<1>7. t.op = "read"
  <2>1. CASE \E n, g : t = Advance([cmd EXCEPT !.got = g], n)
    BY <1>2, <2>1, Zenon
  <2> QED BY <1>0, <1>3, <1>4, <1>6, <2>1, Zenon
<1> QED BY <1>5, <1>7 DEF CommandInv

LEMMA NextCommand == TypeInv /\ CommandInv /\ [Next]_vars => CommandInv'
<1> SUFFICES ASSUME TypeInv, CommandInv, [Next]_vars PROVE CommandInv'
  OBVIOUS
<1>1. CASE UNCHANGED vars
  BY <1>1 DEF vars, CommandInv
<1>2. CASE Command
  <2>1. Offs \subseteq Nat /\ Sizes \subseteq Nat
    BY Params
  <2> QED BY <1>2, <2>1, EraseEntered, WriteEntered, ReadsEntered, OthersEntered DEF Command
<1>3. CASE Loop
  BY <1>3, EraseKeepsInv, WriteKeepsInv, ReadKeepsInv DEF Loop
<1> QED BY <1>1, <1>2, <1>3 DEF Next, Done

LEMMA CommandsAlways == Spec => [](TypeInv /\ CommandInv)
<1>1. Init => TypeInv /\ CommandInv
  BY InitTypes, InitCommand
<1>2. TypeInv /\ CommandInv /\ [Next]_vars => (TypeInv /\ CommandInv)'
  BY NextTypes, NextCommand
<1> QED BY <1>1, <1>2, PTL DEF Spec

LEMMA WriteCommand ==
  ASSUME TypeInv, CommandInv, cmd.op = "write"
  PROVE  cmd \in Cmd /\ WriteInv(cmd, flash, oob, bbt, ram)
BY DEF TypeInv, CmdInv, CommandInv, None

LEMMA StoredImplied == TypeInv /\ CommandInv => ImageStored
<1> SUFFICES ASSUME TypeInv, CommandInv, cmd.op = "write" PROVE ImageStored
  BY DEF ImageStored
<1>0. PICK s : s = cmd
  OBVIOUS
<1>1. s \in Cmd /\ CountInv(s) /\ StoredInv(s, flash, oob)
  BY <1>0, WriteCommand DEF WriteInv
<1>2. ASSUME NEW u \in Usable(s), Rank(u, Usable(s)) < Reported(s) PROVE u < s.off
  <2>1. Usable(s) \in SUBSET Units /\ u \in Nat /\ s.off \in Nat /\ s.len \in Nat /\ s.left \in Nat
    BY <1>1, UsableFacts, SizeFacts DEF Cmd
  <2>2. s.off <= u => Cardinality(Below(Usable(s), s.off)) <= Cardinality(Below(Usable(s), u))
    BY <2>1, BelowMono
  <2>3. Cardinality(Below(Usable(s), s.off)) = s.len - s.left
    BY <1>1 DEF CountInv
  <2>4. Cardinality(Below(Usable(s), u)) \in Nat /\ Cardinality(Below(Usable(s), u)) < s.len - s.left
    BY <1>2, <2>1, BelowMono, RankBelow DEF Reported
  <2> QED BY <2>1, <2>2, <2>3, <2>4
<1> QED BY <1>0, <1>1, <1>2 DEF ImageStored, StoredInv

LEMMA OthersImplied == TypeInv /\ CommandInv => OthersKept
<1> SUFFICES ASSUME TypeInv, CommandInv PROVE OthersKept
  OBVIOUS
<1>1. ASSUME cmd.op = "write", NEW u \in Units,
             u \notin Usable(cmd) \/ Rank(u, Usable(cmd)) >= cmd.len
      PROVE  flash[u] = cmd.before[u]
  <2>1. cmd \in Cmd /\ OthersInv(cmd, flash)
    BY <1>1, WriteCommand DEF WriteInv
  <2>2. cmd.len \in Nat /\ Usable(cmd) \in SUBSET Units /\ u \in Nat
    BY <2>1, UsableFacts, SizeFacts DEF Cmd
  <2>3. Rank(u, Usable(cmd)) \in Nat
    BY <2>2, BelowMono, RankBelow
  <2>4. ~(u \in Usable(cmd) /\ Rank(u, Usable(cmd)) < cmd.len)
    BY <1>1, <2>2, <2>3
  <2> QED BY <2>1, <2>4 DEF OthersInv
<1>2. ASSUME cmd.op = "erase", NEW u \in Units,
             Block(u) * EraseSize \notin cmd.at..(cmd.at + cmd.left - 1)
      PROVE  flash[u] = cmd.before[u]
  BY <1>2 DEF CommandInv, EraseInv
<1> QED BY <1>1, <1>2, Zenon DEF OthersKept

(* Whether nand_write_skip_bad ends with OK or with an error in the middle *)
(* of the image, the units it reports as written are in the good blocks    *)
(* from the offset on, in order and as they were in memory when the        *)
(* command was entered, with the oob of each page for yaffs2: for every    *)
(* chip, layout of bad blocks, offset and image.                           *)
THEOREM WrittenImageStored == Spec => []ImageStored
<1> QED BY CommandsAlways, StoredImplied, PTL

(* A write leaves every unit alone that the image does not belong in, and  *)
(* an erase every block its range does not reach, whether or not they      *)
(* succeed.                                                                *)
THEOREM OtherUnitsKept == Spec => []OthersKept
<1> QED BY CommandsAlways, OthersImplied, PTL
----------------------------------------------------------------------------
(* What a read gets: the units an image belongs in, in order, and the last *)
(* image written is still in them.                                         *)

Gotten(s, f, n) ==
    \A i \in 0..(n - 1) : \E u \in Usable(s) : Rank(u, Usable(s)) = i /\ s.got[i] = f[u]

\* A read with one call gets them only if there are enough of them.
ReadInv(s, f, b) ==
    /\ b = s.bad
    /\ s.ret = "run" => s.at <= s.off /\ s.p = s.len - s.left /\ CountInv(s) /\ Gotten(s, f, s.p)
    /\ s.ret = "ok" /\ Fits(s) => Gotten(s, f, s.len)

LastOK(w, f, o, b) ==
    /\ w \in Cmd /\ w.op = "write" /\ w.rw_oob = FALSE /\ w.left = 0
    /\ b = w.bad /\ CountInv(w) /\ StoredInv(w, f, o)

ReadingInv ==
    /\ cmd.op = "read" => ReadInv(cmd, flash, bbt)
    /\ cmd.ret = "run" /\ cmd.op \in {"erase", "write"} => last = {}
    /\ \A w \in last : LastOK(w, flash, oob, bbt)

\* A set of k of the k units from x on is all of them.
LEMMA AllOfThem ==
  ASSUME NEW x \in Nat, NEW k \in Nat, NEW A \in SUBSET (x..(x + k - 1)), Cardinality(A) >= k
  PROVE  A = x..(x + k - 1)
<1> DEFINE I == x..(x + k - 1)
<1>1. IsFiniteSet(I) /\ Cardinality(I) = k
  <2>1. x \in Int /\ x + k - 1 \in Int /\ (x > x + k - 1 <=> k = 0) /\ (x + k - 1) - x + 1 = k
    OBVIOUS
  <2> QED BY <2>1, FS_Interval
<1> HIDE DEF I
<1>2. IsFiniteSet(A) /\ Cardinality(A) <= k /\ (k = Cardinality(A) => I = A)
  BY <1>1, FS_Subset DEF I
<1>3. Cardinality(A) \in Nat
  BY <1>2, FS_CardinalityType
<1>4. k = Cardinality(A)
  BY <1>2, <1>3
<1> QED BY <1>2, <1>4 DEF I

\* get_len_incl_bad gives the length itself only if it meets no bad block, or not
\* enough good ones.
LEMMA DirectGood ==
  ASSUME NEW off \in Nat, NEW len \in Nat, Direct(off, len), off + len <= size,
         NEW S, S = {u \in Units : u >= off /\ Block(u) \notin bbt}, Cardinality(S) >= len
  PROVE  \A u \in Nat : off <= u /\ u < off + len => u \in S
<1>1. CASE len = 0
  BY <1>1
<1>2. CASE len # 0
  <2> DEFINE G(e) == Cardinality({u \in off..(e - 1) : Block(u) \notin bbt})
             Stops(b) == b * EraseSize >= size \/ G(b * EraseSize) >= len
             B == (Block(off) + 1)..(Block(off) + NBlocks)
             Q(b) == Stops(b) /\ \A d \in (Block(off) + 1)..(b - 1) : ~Stops(d)
             c == CHOOSE b \in B : Q(b)
  <2>1. c * EraseSize - off = len
    <3>1. get_len_incl_bad(off, len) = c * EraseSize - off
      BY <1>2, Zenon DEF get_len_incl_bad
    <3> QED BY <3>1 DEF Direct
  <2>2. Block(off) \in Nat /\ NBlocks \in Nat \ {0} /\ EraseSize \in Nat /\ size \in Nat
    BY BlockFacts, Params, SizeFacts
  <2>3. \E b \in B : Q(b)
    <3> DEFINE T == {b \in B : Stops(b)}
    <3>1. Block(off) + NBlocks \in T
      <4>1. Block(off) + NBlocks \in B
        BY <2>2
      <4>2. NBlocks * EraseSize <= (Block(off) + NBlocks) * EraseSize
        <5>1. NBlocks \in Nat /\ Block(off) + NBlocks \in Nat /\ NBlocks <= Block(off) + NBlocks
          BY <2>2
        <5> QED BY <2>2, <5>1, TimesMono
      <4>3. (Block(off) + NBlocks) * EraseSize \in Nat
        BY <2>2, TimesType
      <4>4. (Block(off) + NBlocks) * EraseSize >= size
        BY <2>2, <4>2, <4>3 DEF size
      <4> QED BY <4>1, <4>4
    <3>2. T \in SUBSET Nat
      BY <2>2
    <3> HIDE DEF T
    <3>3. PICK x \in T : \A y \in T : x <= y
      BY <3>1, <3>2, LeastElement
    <3>4. x \in B /\ Stops(x)
      BY DEF T
    <3>5. ASSUME NEW d \in (Block(off) + 1)..(x - 1), Stops(d) PROVE FALSE
      <4>1. d \in B /\ d \in Nat /\ x \in Nat /\ d < x
        BY <2>2, <3>4
      <4>2. d \in T
        BY <3>5, <4>1 DEF T
      <4> QED BY <3>3, <4>1, <4>2
    <3> QED BY <3>4, <3>5
  <2>4. c \in B /\ Stops(c)
    <3> HIDE DEF Q, B
    <3>1. c \in B /\ Q(c)
      BY <2>3, Zenon
    <3> QED BY <3>1 DEF Q
  <2> HIDE DEF c
  <2>5. c * EraseSize = off + len
    <3>1. c \in Nat
      BY <2>2, <2>4
    <3>2. c * EraseSize \in Nat
      BY <2>2, <3>1, TimesType
    <3> QED BY <2>1, <3>2
  <2> DEFINE A == {u \in off..(off + len - 1) : Block(u) \notin bbt}
  <2>6. (off + len) - 1 = off + len - 1
    OBVIOUS
  <2>7. G(off + len) = Cardinality(A)
    BY <2>6
  <2>8. Cardinality(A) >= len
    <3>1. CASE off + len >= size
      <4>1. off + len = size
        BY <2>2, <3>1
      <4>2. \A u : u \in S <=> u \in A
        <5>1. \A u : u \in S <=> u \in Units /\ u >= off /\ Block(u) \notin bbt
          OBVIOUS
        <5>2. \A u : u \in A <=> u \in off..(off + len - 1) /\ Block(u) \notin bbt
          OBVIOUS
        <5>3. \A u : u \in off..(off + len - 1) <=> u \in Nat /\ off <= u /\ u < size
          BY <2>2, <4>1
        <5>4. \A u : u \in Units <=> u \in Nat /\ u < size
          BY SizeFacts
        <5> HIDE DEF A
        <5>5. \A u \in Nat : u >= off <=> off <= u
          OBVIOUS
        <5> QED BY <5>1, <5>2, <5>3, <5>4, <5>5, Zenon
      <4>3. S = A
        <5> HIDE DEF A
        <5> QED BY <4>2, Zenon
      <4> QED BY <4>3
    <3>2. CASE ~(off + len >= size)
      BY <2>4, <2>5, <2>7, <3>2
    <3> QED BY <3>1, <3>2
  <2>9. A = off..(off + len - 1)
    <3>1. A \in SUBSET (off..(off + len - 1))
      OBVIOUS
    <3> HIDE DEF A
    <3> QED BY <2>8, <3>1, AllOfThem
  <2>10. ASSUME NEW u \in Nat, off <= u, u < off + len PROVE u \in S
    <3>1. u \in off..(off + len - 1) /\ u < size
      BY <2>2, <2>10
    <3>2. Block(u) \notin bbt
      BY <2>9, <3>1
    <3> QED BY <2>10, <3>1, <3>2, SizeFacts
  <2> QED BY <2>10
<1> QED BY <1>1, <1>2

LEMMA ReadReturned ==
  ASSUME NEW s \in Cmd, NEW f, NEW b, ReadInv(s, f, b), s.ret = "run",
         NEW r \in Rets \ {"run"}, r = "ok" => s.left = 0, NEW t, t = Return(s, r)
  PROVE  ReadInv(t, f, b) /\ t.op = s.op
<1>1. Kept(s, t) /\ t.ret = r /\ t.got = s.got
  BY ReturnFacts
<1>2. Usable(t) = Usable(s) /\ t.bad = s.bad /\ t.len = s.len /\ t.op = s.op
  BY <1>1, UsableKept DEF Kept
<1>3. r = "ok" => s.p = s.len
  BY DEF ReadInv, Cmd
<1> QED BY <1>1, <1>2, <1>3 DEF ReadInv, Gotten

LEMMA ReadSkipped ==
  ASSUME NEW s \in Cmd, NEW f, NEW b, ReadInv(s, f, b), s.op = "read", s.ret = "run",
         s.off < size => Block(s.off) \in b, NEW t, t = NextBlock(s)
  PROVE  ReadInv(t, f, b) /\ t.op = "read"
<1>0. s.off \in Nat /\ s.at \in Nat /\ size \in Nat /\ b = s.bad /\ s.at <= s.off
  BY SizeFacts DEF Cmd, ReadInv
<1>1. /\ Kept(s, t) /\ t.ret = "run" /\ t.off = s.off + BlockLeft(s.off)
      /\ t.left = s.left /\ t.p = s.p /\ t.got = s.got
  BY NextBlockFacts
<1>2. /\ Usable(t) = Usable(s) /\ t.bad = s.bad /\ t.len = s.len /\ t.op = s.op /\ t.at = s.at
  BY <1>1, UsableKept DEF Kept
<1>3. t.off \in Nat /\ s.off < t.off
  BY <1>0, <1>1, BlockFacts
<1>4. ASSUME NEW u \in Usable(s), s.off <= u, u < t.off PROVE FALSE
  <2>1. u \in Good(s)
    BY UsableFacts
  <2>2. u \in Nat /\ u < size /\ Block(u) \notin s.bad
    BY <2>1, SizeFacts DEF Good
  <2>3. Block(u) = Block(s.off) /\ s.off < size
    BY <1>0, <1>1, <1>4, <2>2, BlockSame
  <2> QED BY <1>0, <2>2, <2>3
<1>5. Below(Usable(s), s.off) = Below(Usable(s), t.off)
  <2>1. Usable(s) \in SUBSET Units /\ \A u \in Usable(s) : ~(s.off <= u /\ u < t.off)
    BY <1>4, UsableFacts
  <2> QED BY <1>0, <1>3, <2>1, BelowSame
<1>6. CountInv(t)
  BY <1>1, <1>2, <1>5 DEF ReadInv, CountInv
<1>7. t.at <= t.off
  BY <1>0, <1>2, <1>3
<1> QED BY <1>1, <1>2, <1>6, <1>7 DEF ReadInv, Gotten

LEMMA ReadAdvanced ==
  ASSUME NEW s \in Cmd, NEW t \in Cmd, NEW f, NEW b, ReadInv(s, f, b), s.op = "read", s.ret = "run",
         Block(s.off) \notin b, NEW n \in Nat, n <= BlockLeft(s.off), s.off + n <= size,
         n <= s.left, s.left <= s.len,
         Kept(s, t), t.ret = "run", t.off = s.off + n, t.left = s.left - n, t.p = s.p + n,
         \A i \in 0..(s.p + n - 1) : t.got[i] = IF i < s.p THEN s.got[i] ELSE f[s.off + i - s.p]
  PROVE  ReadInv(t, f, b)
<1> DEFINE x == s.off
           S == Usable(s)
<1>0. /\ x \in Nat /\ s.at \in Nat /\ s.p \in Nat /\ s.len \in Nat /\ s.left \in Nat /\ size \in Nat
      /\ b = s.bad /\ s.at <= x /\ s.p = s.len - s.left /\ Cardinality(Below(S, x)) = s.p
      /\ BlockLeft(x) \in Nat /\ S \in SUBSET Units /\ S = Good(s) /\ Gotten(s, f, s.p)
  BY SizeFacts, BlockFacts, UsableFacts DEF Cmd, ReadInv, CountInv
<1>1. Usable(t) = S /\ t.bad = s.bad /\ t.len = s.len /\ t.at = s.at
  BY UsableKept DEF Kept
<1>2. ASSUME NEW u \in Nat, x <= u, u < x + n PROVE u \in S
  <2>1. u < size /\ u < x + BlockLeft(x) /\ u >= s.at
    BY <1>0, <1>2
  <2>2. Block(u) = Block(x)
    BY <1>0, <1>2, <2>1, BlockSame
  <2> QED BY <1>0, <2>1, <2>2, SizeFacts DEF Good
<1> HIDE DEF x, S
<1>3. ASSUME NEW k \in Nat, k <= n PROVE Cardinality(Below(S, x + k)) = s.p + k
  <2>1. \A u \in Nat : x <= u /\ u < x + k => u \in S
    BY <1>0, <1>2, <1>3
  <2> QED BY <1>0, <2>1, BelowMore
<1>4. CountInv(t)
  <2>1. t.len - t.left = s.p + n
    BY <1>0, <1>1
  <2> QED BY <1>1, <1>3, <2>1 DEF CountInv, x
<1>5. ASSUME NEW i \in 0..(t.p - 1) PROVE \E u \in S : Rank(u, S) = i /\ t.got[i] = f[u]
  <2>0. i \in 0..(s.p + n - 1) /\ i \in Nat
    BY <1>0
  <2>1. CASE i < s.p
    <3>1. i \in 0..(s.p - 1)
      BY <1>0, <2>0, <2>1
    <3>2. \E u \in S : Rank(u, S) = i /\ s.got[i] = f[u]
      BY <1>0, <3>1 DEF Gotten, S
    <3> QED BY <2>0, <2>1, <3>2
  <2>2. CASE ~(i < s.p)
    <3> DEFINE k == i - s.p
    <3>1. k \in Nat /\ k < n /\ x + i - s.p = x + k /\ s.p + k = i
      BY <1>0, <2>0, <2>2
    <3> HIDE DEF k
    <3>2. x + k \in S
      BY <1>0, <1>2, <3>1
    <3>3. Rank(x + k, S) = i
      BY <1>3, <3>1, RankBelow
    <3>4. t.got[i] = f[x + k]
      BY <2>0, <2>2, <3>1 DEF x
    <3> QED BY <3>2, <3>3, <3>4
  <2> QED BY <2>1, <2>2
<1>6. Gotten(t, f, t.p)
  BY <1>1, <1>5 DEF Gotten
<1>7. t.at <= t.off /\ t.p = t.len - t.left
  BY <1>0, <1>1 DEF x
<1> QED BY <1>0, <1>1, <1>4, <1>6, <1>7 DEF ReadInv

LEMMA ReadEntered ==
  ASSUME TypeInv, NEW off \in Nat, NEW len \in Nat, NandRead(off, len)
  PROVE  cmd'.op = "read" /\ ReadInv(cmd', flash, bbt)
<1>0. ChipType
  BY DEF TypeInv
<1>1. PICK s : s = NewCmd("read", off, len)
  OBVIOUS
<1>2. /\ s \in Cmd /\ s.op = "read" /\ s.ret = "run" /\ s.at = off /\ s.off = off /\ s.len = len
      /\ s.left = len /\ s.p = 0 /\ s.bad = bbt /\ s.got = [i \in {} |-> 0]
  BY <1>0, <1>1, NewCmdFacts DEF Ops
<1>3. PICK t : t = cmd'
  OBVIOUS
<1>4. \A r \in Rets : LET v == Return(s, r) IN v \in Cmd /\ Kept(s, v) /\ v.ret = r
  BY <1>2, ReturnFacts
<1>5. CASE t = s
  <2>1. \A u \in Usable(s) : ~(u < off)
    <3>1. \A u \in Good(s) : u \in Nat /\ u >= off
      BY <1>2, SizeFacts DEF Good
    <3>2. Usable(s) \subseteq Good(s)
      BY <1>2, UsableFacts
    <3> QED BY <3>1, <3>2
  <2>2. Below(Usable(s), s.off) = {}
    BY <1>2, <2>1 DEF Below
  <2>3. Cardinality(Below(Usable(s), s.off)) = 0 /\ s.len - s.left = 0
    BY <1>2, <2>2, FS_EmptySet
  <2>4. Gotten(s, flash, s.p)
    BY <1>2 DEF Gotten
  <2>5. ReadInv(s, flash, bbt)
    BY <1>2, <2>3, <2>4 DEF ReadInv, CountInv
  <2> QED BY <1>2, <1>3, <1>5, <2>5
<1>6. ASSUME NEW r \in {"einval", "failed"}, t = Return(s, r)
      PROVE  cmd'.op = "read" /\ ReadInv(cmd', flash, bbt)
  <2>1. Kept(s, t) /\ t.ret = r
    BY <1>4, <1>6 DEF Rets
  <2>2. t.op = "read" /\ t.bad = bbt
    BY <1>2, <2>1 DEF Kept
  <2>3. ReadInv(t, flash, bbt)
    BY <1>6, <2>1, <2>2 DEF ReadInv
  <2> QED BY <1>3, <2>2, <2>3
<1>7. CASE /\ off + get_len_incl_bad(off, len) <= size /\ Direct(off, len)
           /\ t = [Return(s, "ok") EXCEPT !.got = Got(s, len), !.left = 0]
  <2> DEFINE v == Return(s, "ok")
             g == Got(s, len)
  <2>1. v \in Cmd /\ Kept(s, v) /\ v.ret = "ok"
    BY <1>4 DEF Rets
  <2>2. \A i \in 0..(len - 1) : g[i] = flash[off + i]
    <3>1. 0..(0 + len - 1) = 0..(len - 1)
      OBVIOUS
    <3>2. DOMAIN s.got \cup s.p..(s.p + len - 1) = 0..(len - 1)
      BY <1>2, <3>1
    <3>3. \A i \in 0..(len - 1) : ~(i < s.p) /\ s.off + i - s.p = off + i
      BY <1>2
    <3> QED BY <3>2, <3>3 DEF Got
  <2>3. t = [v EXCEPT !.got = g, !.left = 0]
    BY <1>7
  <2> HIDE DEF v, g
  <2>4. t.op = v.op /\ t.ret = "ok" /\ t.at = v.at /\ t.len = v.len /\ t.bad = v.bad /\ t.got = g
    BY <2>1, <2>3 DEF Cmd
  <2>5. t.op = "read" /\ t.ret = "ok" /\ t.at = off /\ t.len = len /\ t.bad = bbt
    BY <1>2, <2>1, <2>4 DEF Kept
  <2>6. Usable(t) = {u \in Units : u >= off /\ Block(u) \notin bbt}
    BY <2>5, Zenon DEF Usable
  <2>7. ASSUME Fits(t), NEW i \in 0..(len - 1)
        PROVE  \E u \in Usable(t) : Rank(u, Usable(t)) = i /\ t.got[i] = flash[u]
    <3>0. off + len <= size
      BY <1>7 DEF Direct
    <3> DEFINE S == Usable(t)
    <3>1. S = {u \in Units : u >= off /\ Block(u) \notin bbt} /\ Cardinality(S) >= len
      BY <2>5, <2>6, <2>7 DEF Fits
    <3> HIDE DEF S
    <3>2. \A u \in Nat : off <= u /\ u < off + len => u \in S
      BY <1>7, <3>0, <3>1, DirectGood
    <3>3. i \in Nat /\ i < len /\ off + i \in Nat
      OBVIOUS
    <3>4. \A u \in Nat : off <= u /\ u < off + i => u \in S
      BY <3>2, <3>3
    <3>5. S \in SUBSET Units
      BY <3>1
    <3>6. Cardinality(Below(S, off + i)) = Cardinality(Below(S, off)) + i
      BY <3>3, <3>4, <3>5, BelowMore
    <3>7. Below(S, off) = {}
      <4>1. \A u \in S : u \in Nat /\ u >= off
        BY <3>1, SizeFacts
      <4>2. \A u \in S : ~(u < off)
        BY <4>1
      <4> QED BY <4>2 DEF Below
    <3>8. Rank(off + i, S) = i
      <4>1. Cardinality(Below(S, off)) = 0
        BY <3>7, FS_EmptySet
      <4> QED BY <3>3, <3>6, <4>1, RankBelow
    <3>9. off + i \in S
      BY <3>2, <3>3
    <3> QED BY <2>2, <2>4, <3>8, <3>9 DEF S
  <2>8. ReadInv(t, flash, bbt)
    BY <2>5, <2>7 DEF ReadInv, Gotten
  <2> QED BY <1>3, <2>5, <2>8
<1>8. \/ t = s \/ t = Return(s, "einval") \/ t = Return(s, "failed")
      \/ /\ off + get_len_incl_bad(off, len) <= size /\ Direct(off, len)
         /\ t = [Return(s, "ok") EXCEPT !.got = Got(s, len), !.left = 0]
  BY <1>1, <1>3 DEF NandRead, Enter
<1> QED BY <1>5, <1>6, <1>7, <1>8

\* Nothing but the command, which is a read, has changed.
LEMMA ReadOnly ==
  ASSUME ReadingInv, cmd'.op = "read", ReadInv(cmd', flash, bbt), UNCHANGED <<chip, bbt, last>>
  PROVE  ReadingInv'
<1>1. PICK t : t = cmd'
  OBVIOUS
<1>2. flash' = flash /\ oob' = oob /\ bbt' = bbt /\ last' = last
  BY DEF chip
<1>3. t.op = "read" /\ ReadInv(t, flash, bbt) /\ \A w \in last : LastOK(w, flash, oob, bbt)
  BY <1>1 DEF ReadingInv
<1> QED BY <1>1, <1>2, <1>3 DEF ReadingInv

LEMMA ReadLoopInv ==
  ASSUME TypeInv, ReadingInv, ReadBlock
  PROVE  ReadingInv'
<1>0. cmd.op = "read" /\ cmd.ret = "run" /\ UNCHANGED <<chip, bbt, last>>
  BY DEF ReadBlock, Idle
<1>1. PICK s : s = cmd
  OBVIOUS
<1>2. PICK t : t = cmd'
  OBVIOUS
<1>3. /\ CmdInv(s) /\ s \in Cmd /\ s.op = "read" /\ s.ret = "run" /\ ReadInv(s, flash, bbt)
      /\ s.off \in Nat /\ s.left \in Nat /\ s.p \in Nat /\ s.len \in Nat /\ s.left <= s.len
      /\ s.rw_oob = FALSE /\ s.got \in [0..(s.p - 1) -> Int]
  <2>1. CmdInv(s) /\ s \in Cmd
    BY <1>0, <1>1, RunningCmd
  <2> QED BY <1>0, <1>1, <2>1 DEF CmdInv, Cmd, ReadPlace, ReadingInv
<1> SUFFICES t.op = "read" /\ ReadInv(t, flash, bbt)
  BY <1>0, <1>2, ReadOnly
<1> DEFINE n == Chunk(s)
<1>4. CASE s.left = 0 /\ t = Return(s, "ok")
  BY <1>3, <1>4, ReadReturned DEF Rets
<1>5. CASE t = Return(s, "failed")
  BY <1>3, <1>5, ReadReturned DEF Rets
<1>6. CASE t = s
  BY <1>3, <1>6
<1>7. ASSUME NEW bad \in nand_block_isbad(s.off), bad, t = NextBlock(s)
      PROVE  t.op = "read" /\ ReadInv(t, flash, bbt)
  <2>1. s.off < size => Block(s.off) \in bbt
    BY <1>7, IsBadFacts
  <2> QED BY <1>3, <1>7, <2>1, ReadSkipped
<1>8. ASSUME NEW bad \in nand_block_isbad(s.off), ~bad, s.left > 0, s.off + n <= size,
             t = Advance([s EXCEPT !.got = Got(s, n)], n)
      PROVE  t.op = "read" /\ ReadInv(t, flash, bbt)
  <2>0. n \in Nat \ {0} /\ n <= s.left /\ n <= BlockLeft(s.off)
    <3>1. s.left \in Nat \ {0} /\ n = Least(s.left, BlockLeft(s.off))
      BY <1>3, <1>8 DEF Chunk
    <3> HIDE DEF n
    <3> QED BY <1>3, <3>1, ChunkFacts
  <2> HIDE DEF n
  <2>1. Block(s.off) \notin bbt
    <3>1. s.off < size
      BY <1>3, <1>8, <2>0, SizeFacts
    <3> QED BY <1>8, <3>1, IsBadFacts
  <2> DEFINE g == Got(s, n)
             v == [s EXCEPT !.got = g]
  <2>2. g \in Results /\ \A i \in 0..(s.p + n - 1) : g[i] = IF i < s.p THEN s.got[i] ELSE flash[s.off + i - s.p]
    <3>1. flash \in FlashType /\ n \in Nat
      BY <2>0 DEF TypeInv, ChipType
    <3>2. g \in Results
      BY <1>3, <1>8, <3>1, GotFacts
    <3>3. DOMAIN s.got \cup s.p..(s.p + n - 1) = 0..(s.p + n - 1)
      BY <1>3, <2>0
    <3> QED BY <3>2, <3>3 DEF Got
  <2>3. t = Advance(v, n)
    BY <1>8
  <2> HIDE DEF g
  <2>4. v \in Cmd /\ Kept(s, v) /\ v.off = s.off /\ v.left = s.left /\ v.p = s.p /\ v.ret = s.ret
        /\ v.got = g /\ v.rw_oob = FALSE
    BY <1>3, <2>2 DEF Cmd, Kept
  <2> HIDE DEF v
  <2> DEFINE l == v.left - n
             x == v.off + n
             q == v.p + n
  <2>5. l \in Nat /\ x \in Nat /\ q \in Nat /\ v.p + n + 0 = q
    BY <1>3, <2>0, <2>4
  <2>6. t = [v EXCEPT !.left = l, !.off = x, !.p = q]
    BY <2>3, <2>4, <2>5 DEF Advance
  <2> HIDE DEF l, x, q
  <2>7. t \in Cmd /\ Kept(v, t) /\ t.ret = v.ret /\ t.off = x /\ t.left = l /\ t.p = q /\ t.got = v.got
    BY <2>4, <2>5, <2>6 DEF Cmd, Kept
  <2>8. Kept(s, t)
    BY <2>4, <2>7 DEF Kept
  <2>9. t.ret = "run" /\ t.off = s.off + n /\ t.left = s.left - n /\ t.p = s.p + n /\ t.op = "read"
    BY <1>3, <2>4, <2>7, <2>8 DEF l, x, q, Kept
  <2>10. \A i \in 0..(s.p + n - 1) : t.got[i] = IF i < s.p THEN s.got[i] ELSE flash[s.off + i - s.p]
    BY <2>2, <2>4, <2>7
  <2>11. n \in Nat /\ s.off + n <= size
    BY <1>8, <2>0
  <2>12. ReadInv(t, flash, bbt)
    BY <1>3, <2>0, <2>1, <2>7, <2>8, <2>9, <2>10, <2>11, ReadAdvanced
  <2> QED BY <2>9, <2>12
<1> QED BY <1>1, <1>2, <1>4, <1>5, <1>6, <1>7, <1>8 DEF ReadBlock

\* With no image to keep, and no read.
LEMMA NothingKept ==
  ASSUME cmd'.op # "read", last' = {}
  PROVE  ReadingInv'
BY DEF ReadingInv

LEMMA NextReading == TypeInv /\ CommandInv /\ ReadingInv /\ [Next]_vars => ReadingInv'
<1> SUFFICES ASSUME TypeInv, CommandInv, ReadingInv, [Next]_vars PROVE ReadingInv'
  OBVIOUS
<1>0. Offs \subseteq Nat /\ Sizes \subseteq Nat
  BY Params
<1>1. CASE UNCHANGED vars
  BY <1>1 DEF vars, ReadingInv
<1>2. ASSUME NEW off \in Nat, NEW len \in Nat, NEW clean \in BOOLEAN, NEW scrub \in BOOLEAN,
             NandErase(off, len, clean, scrub)
      PROVE  ReadingInv'
  <2>1. cmd'.op = "erase" /\ last' = {}
    BY <1>2, EraseEntered DEF NandErase
  <2> QED BY <2>1, NothingKept
<1>3. ASSUME NEW off \in Nat, NEW len \in Nat, NEW yaffs \in BOOLEAN, NandWrite(off, len, yaffs)
      PROVE  ReadingInv'
  <2>1. cmd'.op = "write"
    BY <1>3, WriteEntered
  <2>2. last' = {}
    BY <1>3, Zenon DEF NandWrite
  <2> QED BY <2>1, <2>2, NothingKept
<1>4. ASSUME NEW off \in Nat, NEW len \in Nat, NandRead(off, len) PROVE ReadingInv'
  <2>1. cmd'.op = "read" /\ ReadInv(cmd', flash, bbt)
    BY <1>4, ReadEntered
  <2>2. UNCHANGED <<chip, bbt, last>>
    BY <1>4, Zenon DEF NandRead
  <2> QED BY <2>1, <2>2, ReadOnly
<1>5. ASSUME NEW b \in Blocks, MarkBad(b) PROVE ReadingInv'
  <2>1. cmd'.op \in {"markbad", "load"} /\ last' = {}
    BY <1>5, OthersEntered DEF MarkBad
  <2> QED BY <2>1, NothingKept
<1>6. CASE Load
  <2>1. cmd'.op \in {"markbad", "load"}
    BY <1>6, OthersEntered
  <2>2. flash' = flash /\ oob' = oob /\ bbt' = bbt /\ last' = last
    BY <1>6 DEF Load, chip
  <2>3. \A w \in last : LastOK(w, flash, oob, bbt)
    BY DEF ReadingInv
  <2> QED BY <2>1, <2>2, <2>3 DEF ReadingInv
<1>7. CASE EraseBlock
  <2>1. cmd'.op = "erase" /\ last' = last /\ last = {}
    BY <1>7, EraseKeepsInv DEF EraseBlock, Idle, ReadingInv
  <2> QED BY <2>1, NothingKept
<1>8. CASE WriteBlock
  <2>0. cmd.op = "write" /\ cmd.ret = "run" /\ bbt' = bbt /\ last = {} /\ cmd'.op = "write"
    BY <1>8, WriteRounds, WriteKeepsInv DEF ReadingInv
  <2>1. CASE WriteEnds
    <3>0. PICK s : s = cmd
      OBVIOUS
    <3>1. /\ s \in Cmd /\ WriteInv(s, flash, oob, bbt, ram) /\ s.op = "write" /\ s.ret = "run" /\ s.left = 0
      BY <2>0, <2>1, <3>0, WriteCommand DEF WriteEnds
    <3>2. /\ flash' = flash /\ oob' = oob /\ last' = IF s.rw_oob THEN {} ELSE {s}
          /\ cmd' = Return(s, "ok")
      BY <2>1, <3>0 DEF WriteEnds, chip
    <3>3. cmd'.ret = "ok"
      BY <3>1, <3>2, ReturnFacts DEF Rets
    <3>4. \A w \in last' : LastOK(w, flash, oob, bbt)
      <4>1. CASE s.rw_oob
        BY <3>2, <4>1
      <4>2. CASE ~s.rw_oob
        <5>1. s.rw_oob = FALSE
          BY <3>1, <4>2 DEF Cmd
        <5>2. LastOK(s, flash, oob, bbt)
          BY <3>1, <5>1 DEF LastOK, WriteInv
        <5> QED BY <3>2, <4>2, <5>2
      <4> QED BY <4>1, <4>2
    <3> QED BY <2>0, <3>2, <3>3, <3>4 DEF ReadingInv
  <2>2. CASE ~WriteEnds
    <3>1. last' = last
      BY <1>8, <2>2, WriteRounds DEF WriteSkips, WriteRefused, WriteProgrammed
    <3> QED BY <2>0, <3>1, NothingKept
  <2> QED BY <2>1, <2>2
<1>9. CASE ReadBlock
  BY <1>9, ReadLoopInv
<1> QED BY <1>0, <1>1, <1>2, <1>3, <1>4, <1>5, <1>6, <1>7, <1>8, <1>9 DEF Next, Command, Loop, Done

LEMMA ReadBackImplied == TypeInv /\ ReadingInv => ReadBack
<1> SUFFICES ASSUME TypeInv, ReadingInv, NEW w \in last,
                    cmd.op = "read", cmd.ret = "ok", cmd.at = w.at, cmd.len <= w.len,
                    \A p \in Pages : Blank(p, w.before, w.beforeOob),
                    NEW i \in 0..(cmd.len - 1)
             PROVE  cmd.got[i] = w.image[i]
  BY DEF ReadBack
<1>1. /\ LastOK(w, flash, oob, bbt) /\ ReadInv(cmd, flash, bbt) /\ cmd \in Cmd /\ w \in Cmd
  BY DEF ReadingInv, LastOK, TypeInv, CmdInv, None
<1>2. /\ w.op = "write" /\ w.rw_oob = FALSE /\ w.left = 0 /\ CountInv(w) /\ StoredInv(w, flash, oob)
      /\ w.bad = cmd.bad /\ w.len \in Nat /\ w.off \in Nat /\ cmd.len \in Nat
  BY <1>1 DEF LastOK, ReadInv, Cmd
<1> DEFINE S == Usable(w)
<1>3. Usable(cmd) = S /\ S \in SUBSET Units
  <2>1. Usable(cmd) = Good(cmd) /\ Usable(w) = Good(w) /\ Usable(w) \in SUBSET Units
    BY <1>1, <1>2, UsableFacts
  <2> QED BY <1>2, <2>1, Zenon DEF Good
<1>4. Cardinality(Below(S, w.off)) = w.len
  BY <1>2 DEF CountInv
<1> HIDE DEF S
<1>5. Fits(cmd)
  <2>1. Below(S, w.off) \in SUBSET S /\ IsFiniteSet(S) /\ Cardinality(S) \in Nat
    BY <1>3, UnitsFinite DEF Below
  <2>2. Cardinality(Below(S, w.off)) <= Cardinality(S)
    BY <2>1, FS_Subset
  <2> QED BY <1>2, <1>3, <1>4, <2>1, <2>2 DEF Fits
<1>6. PICK u \in S : Rank(u, S) = i /\ cmd.got[i] = flash[u]
  BY <1>1, <1>3, <1>5 DEF ReadInv, Gotten
<1>7. u \in Nat /\ u < size
  BY <1>3, SizeFacts
<1>8. u < w.off
  <2>1. w.off <= u => Cardinality(Below(S, w.off)) <= Cardinality(Below(S, u))
    BY <1>2, <1>3, <1>7, BelowMono
  <2>2. Cardinality(Below(S, u)) = i
    BY <1>6, RankBelow
  <2> QED BY <1>2, <1>4, <1>7, <2>1, <2>2
<1>9. u \div WriteSize \in Pages
  BY <1>7, PageFacts
<1>10. flash[u] = Data(w, Rank(u, S))
  BY <1>2, <1>8, <1>9 DEF StoredInv, S
<1> QED BY <1>2, <1>6, <1>10 DEF Data

(* Until the flash or the bad block table changes, reading at least a part *)
(* of what was written at the same offset gives the image back, though the *)
(* write goes block by block and the read takes one call where             *)
(* get_len_incl_bad meets no bad block: for every chip, layout of bad      *)
(* blocks, offset and length.                                              *)
THEOREM ReadGivesBack == Spec => []ReadBack
<1>1. Init => TypeInv /\ CommandInv /\ ReadingInv
  BY InitTypes, InitCommand DEF Init, ReadingInv
<1>2. TypeInv /\ CommandInv /\ ReadingInv /\ [Next]_vars => (TypeInv /\ CommandInv /\ ReadingInv)'
  BY NextTypes, NextCommand, NextReading
<1>3. TypeInv /\ CommandInv /\ ReadingInv => ReadBack
  BY ReadBackImplied
<1> QED BY <1>1, <1>2, <1>3, PTL DEF Spec
=============================================================================
