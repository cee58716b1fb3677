--------------------------- MODULE EnvNandProofs ---------------------------
(***************************************************************************)
(* Proofs about EnvNand, for every set of variables, every layout of bad   *)
(* blocks and every size of the environment.                               *)
(***************************************************************************)
EXTENDS EnvNandRefine, FiniteSetTheorems, TLAPS

NandType ==
    /\ nand \in [Copy -> [Block -> Content]]
    /\ bad \in [Copy -> SUBSET Block]

LEMMA DefaultImageType == DefaultImage \in Image
BY ParamAssumption, DefaultAssumption DEF DefaultImage, Image

LEMMA ContentImage ==
  ASSUME NEW x \in Content, x.st = "chunk"
  PROVE  x.img \in Image
BY DEF Content, Erased, Garbage, Chunk

LEMMA ImageAtType ==
  ASSUME NandType, NEW c \in Copy, CrcOk(c)
  PROVE  /\ ImageAt(c) \in Image
         /\ ImageAt(c) \in Candidates(c)
         /\ LoadsValid(c, ImageAt(c))
<1>1. PICK i \in Candidates(c) : LoadsValid(c, i)
  BY DEF CrcOk
<1>2. /\ ImageAt(c) \in Candidates(c)
      /\ LoadsValid(c, ImageAt(c))
  BY <1>1, Zenon DEF ImageAt
<1>3. ImageAt(c) \in Image
  BY <1>2, ContentImage DEF Candidates, NandType, Needed
<1> QED BY <1>2, <1>3

LEMMA ChosenValues ==
  ASSUME NandType
  PROVE  /\ Chosen \in {0} \cup Copy
         /\ Chosen # 0 => CrcOk(Chosen)
<1>1. \A f1, f2 : SerialPick(f1, f2) \in {1, 2}
  BY DEF SerialPick
<1> QED BY <1>1 DEF Chosen, Copy

BootOK == BootMem \in Image /\ BootValid \in Copy

LEMMA BootType == NandType => BootOK
<1> SUFFICES ASSUME NandType PROVE BootOK
  OBVIOUS
<1>1. BootMem \in Image
  BY ChosenValues, ImageAtType, DefaultImageType DEF BootMem
<1>2. BootValid \in Copy
  BY ChosenValues, ParamAssumption DEF BootValid, Copy
<1> QED BY <1>1, <1>2 DEF BootOK

LEMMA BootTypePrime == NandType' => BootOK'
BY BootType, PTL
----------------------------------------------------------------------------
(* Type correctness. *)

LEMMA IdleType == Idle \in [st : {"idle", "erase", "write"}, blk : 1..(EnvRange + 1), amt : 0..EnvBlocks]
BY ParamAssumption DEF Idle

LEMMA TargetType == valid \in Copy => Target \in Copy
BY ParamAssumption DEF Target, Copy

LEMMA ProgrammedType ==
  ASSUME NEW x \in Content, NEW i \in Image, NEW k \in 0..EnvBlocks
  PROVE  Programmed(x, i, k) \in Content
BY DEF Programmed, Content

LEMMA ErasedGarbageType == Erased \in Content /\ Garbage \in Content
BY DEF Content

\* Storing x in block b of copy c keeps the type of the NAND.
LEMMA NandUpdateType ==
  ASSUME TypeOK, NEW c \in Copy, NEW b \in Block, NEW x \in Content
  PROVE  [nand EXCEPT ![c][b] = x] \in [Copy -> [Block -> Content]]
BY DEF TypeOK

LEMMA TypeOKNandType == TypeOK => NandType
BY DEF TypeOK, NandType

\* A reboot leaves RAM well typed, whatever is in NAND.
LEMMA BootStepType ==
  ASSUME nand' \in [Copy -> [Block -> Content]],
         bad' \in [Copy -> SUBSET Block],
         worn' \in SUBSET (Copy \X Block),
         Boot
  PROVE  TypeOK'
<1>1. BootMem' \in Image /\ BootValid' \in Copy
  BY BootTypePrime DEF NandType, BootOK
<1>2. mem' \in Image /\ last' \in Image /\ valid' \in Copy
  BY <1>1 DEF Boot
<1>4. saved' \in BOOLEAN
  BY DEF Boot
<1>5. op' \in [st : {"idle", "erase", "write"}, blk : 1..(EnvRange + 1), amt : 0..EnvBlocks]
  BY IdleType DEF Boot
<1> QED BY <1>2, <1>4, <1>5 DEF TypeOK

LEMMA TypeInit == Init => TypeOK
<1> SUFFICES ASSUME Init PROVE TypeOK
  OBVIOUS
<1>1. mem \in Image /\ last \in Image
  BY DefaultImageType DEF Init
<1>2. valid \in Copy /\ worn \in SUBSET (Copy \X Block) /\ saved \in BOOLEAN
  BY ParamAssumption DEF Init, Copy
<1>4. nand \in [Copy -> [Block -> Content]]
  BY ErasedGarbageType DEF Init
<1>5. op \in [st : {"idle", "erase", "write"}, blk : 1..(EnvRange + 1), amt : 0..EnvBlocks]
  BY IdleType DEF Init
<1> QED BY <1>1, <1>2, <1>4, <1>5 DEF Init, TypeOK

LEMMA SetEnvType ==
  ASSUME TypeOK, NEW n \in Name, NEW v \in Val, SetEnv(n, v)
  PROVE  TypeOK'
<1>1. Without(mem.data, n) \in Data
  BY ParamAssumption DEF Without, TypeOK, Image, Data, Val
<1>2. [mem.data EXCEPT ![n] = v] \in Data
  BY DEF TypeOK, Image, Data
<1>3. mem' \in Image
  BY <1>1, <1>2 DEF SetEnv, TypeOK, Image
<1> QED BY <1>3 DEF SetEnv, TypeOK

LEMMA SaveStartType == TypeOK /\ SaveStart => TypeOK'
<1> SUFFICES ASSUME TypeOK, SaveStart PROVE TypeOK'
  OBVIOUS
<1>1. mem' \in Image
  BY ParamAssumption DEF SaveStart, BumpFlags, TypeOK, Image
<1>2. op' \in [st : {"idle", "erase", "write"}, blk : 1..(EnvRange + 1), amt : 0..EnvBlocks]
  BY ParamAssumption DEF SaveStart, TypeOK
<1>3. saved' \in BOOLEAN
  BY DEF SaveStart, TypeOK
<1> QED BY <1>1, <1>2, <1>3 DEF SaveStart, TypeOK

LEMMA EraseBlockType == TypeOK /\ op.blk \in Block /\ EraseBlock => TypeOK'
<1> SUFFICES ASSUME TypeOK, op.blk \in Block, EraseBlock PROVE TypeOK'
  OBVIOUS
<1>1. Target \in Copy
  BY TargetType DEF TypeOK
<1>2. nand' \in [Copy -> [Block -> Content]]
  <2>1. [nand EXCEPT ![Target][op.blk] = Erased] \in [Copy -> [Block -> Content]]
    BY <1>1, NandUpdateType, ErasedGarbageType
  <2> QED BY <2>1 DEF EraseBlock, TypeOK
<1>3. worn' \in SUBSET (Copy \X Block)
  BY DEF EraseBlock, TypeOK
<1>4. op' \in [st : {"idle", "erase", "write"}, blk : 1..(EnvRange + 1), amt : 0..EnvBlocks]
  BY ParamAssumption DEF EraseBlock, TypeOK, Block
<1> QED BY <1>2, <1>3, <1>4 DEF EraseBlock, TypeOK

LEMMA WriteBlockType == TypeOK /\ WriteBlock => TypeOK'
<1> SUFFICES ASSUME TypeOK, WriteBlock PROVE TypeOK'
  OBVIOUS
<1>1. Target \in Copy /\ op.blk \in Block /\ op.amt \in 0..EnvBlocks
  BY TargetType, ParamAssumption DEF TypeOK, WriteBlock, Writing, Block
<1>2. nand' \in [Copy -> [Block -> Content]]
  <2>1. Programmed(nand[Target][op.blk], mem, op.amt) \in Content
    BY <1>1, ProgrammedType DEF TypeOK
  <2>2. [nand EXCEPT ![Target][op.blk] = Programmed(@, mem, op.amt)]
            \in [Copy -> [Block -> Content]]
    BY <1>1, <2>1, NandUpdateType
  <2> QED BY <2>2 DEF WriteBlock, TypeOK
<1>3. op' \in [st : {"idle", "erase", "write"}, blk : 1..(EnvRange + 1), amt : 0..EnvBlocks]
  BY ParamAssumption DEF WriteBlock, NextBlock, Writing, TypeOK
<1> QED BY <1>2, <1>3 DEF WriteBlock, TypeOK

LEMMA WriteErrorType == TypeOK /\ WriteError => TypeOK'
<1> SUFFICES ASSUME TypeOK, WriteError PROVE TypeOK'
  OBVIOUS
<1>1. Target \in Copy /\ op.blk \in Block /\ op.amt \in 0..EnvBlocks
  BY TargetType, ParamAssumption DEF TypeOK, WriteError, Writing, Block
<1>2. nand' \in [Copy -> [Block -> Content]]
  <2>1. Programmed(nand[Target][op.blk], mem, op.amt) \in Content
    BY <1>1, ProgrammedType DEF TypeOK
  <2>2. [nand EXCEPT ![Target][op.blk] = Programmed(@, mem, op.amt)]
            \in [Copy -> [Block -> Content]]
    BY <1>1, <2>1, NandUpdateType
  <2>3. [nand EXCEPT ![Target][op.blk] = Garbage] \in [Copy -> [Block -> Content]]
    BY <1>1, NandUpdateType, ErasedGarbageType
  <2> QED BY <2>2, <2>3 DEF WriteError
<1> QED BY <1>2, IdleType DEF WriteError, TypeOK

LEMMA SaveEndType == TypeOK /\ SaveEnd => TypeOK'
BY TargetType, IdleType DEF TypeOK, SaveEnd

LEMMA ResetType == TypeOK /\ Reset => TypeOK'
BY BootStepType DEF TypeOK, Reset

LEMMA PowerCutType == TypeOK /\ PowerCut => TypeOK'
<1> SUFFICES ASSUME TypeOK, PowerCut PROVE TypeOK'
  OBVIOUS
<1>1. Target \in Copy
  BY TargetType DEF TypeOK
<1>2. nand' \in [Copy -> [Block -> Content]]
  <2>1. CASE nand' = nand
    BY <2>1 DEF TypeOK
  <2>2. CASE op.blk \in Block /\ nand' = [nand EXCEPT ![Target][op.blk] = Garbage]
    BY <1>1, <2>2, NandUpdateType, ErasedGarbageType
  <2> QED BY <2>1, <2>2 DEF PowerCut
<1> QED BY <1>2, BootStepType DEF PowerCut, TypeOK

LEMMA BitFlipType ==
  ASSUME TypeOK, NEW c \in Copy, NEW b \in Block, BitFlip(c, b)
  PROVE  TypeOK'
BY DEF TypeOK, BitFlip

\* saveenv is idle, or its erase loop stands on a block of the range.
OpOK ==
    /\ op.st = "idle" => op = Idle
    /\ op.st = "erase" => op.blk \in Block /\ op.amt = 0

LEMMA OpInit == Init => OpOK
BY DEF Init, OpOK, Idle

LEMMA OpStep == TypeOK /\ OpOK /\ [Next]_vars => OpOK'
<1> SUFFICES ASSUME TypeOK, OpOK, [Next]_vars PROVE OpOK'
  OBVIOUS
<1> USE ParamAssumption
<1>1. ASSUME NEW n \in Name, NEW v \in Val, SetEnv(n, v) PROVE OpOK'
  BY <1>1 DEF SetEnv, OpOK
<1>2. CASE SaveStart
  BY <1>2 DEF SaveStart, OpOK, Block
<1>3. CASE EraseBlock
  BY <1>3 DEF EraseBlock, OpOK, Block
<1>4. CASE WriteBlock
  BY <1>4 DEF WriteBlock, OpOK
<1>5. CASE SaveEnd
  BY <1>5 DEF SaveEnd, OpOK, Idle
<1>6. CASE WriteError
  BY <1>6 DEF WriteError, OpOK, Idle
<1>7. CASE Reset
  BY <1>7 DEF Reset, Boot, OpOK, Idle
<1>8. CASE PowerCut
  BY <1>8 DEF PowerCut, Boot, OpOK, Idle
<1>9. ASSUME NEW c \in Copy, NEW b \in Block, BitFlip(c, b) PROVE OpOK'
  BY <1>9 DEF BitFlip, OpOK
<1>10. CASE UNCHANGED vars
  BY <1>10 DEF vars, OpOK
<1> QED BY <1>1, <1>2, <1>3, <1>4, <1>5, <1>6, <1>7, <1>8, <1>9, <1>10 DEF Next, SaveStep

LEMMA TypeStep == TypeOK /\ OpOK /\ [Next]_vars => TypeOK'
<1> SUFFICES ASSUME TypeOK, OpOK, [Next]_vars PROVE TypeOK'
  OBVIOUS
<1>1. CASE EraseBlock
  BY <1>1, EraseBlockType DEF EraseBlock, OpOK
<1>2. CASE UNCHANGED vars
  BY <1>2 DEF vars, TypeOK
<1> QED BY <1>1, <1>2, SetEnvType, SaveStartType, WriteBlockType, SaveEndType, WriteErrorType,
           ResetType, PowerCutType, BitFlipType DEF Next, SaveStep

\* Every state of saveenv, setenv and reboot is well typed: in particular
\* the serial number stays within its byte, and saveenv never addresses a
\* block beyond CONFIG_ENV_RANGE.
THEOREM TypeCorrect == Spec => []TypeOK
<1>1. Init => TypeOK /\ OpOK
  BY TypeInit, OpInit
<1>2. TypeOK /\ OpOK /\ [Next]_vars => (TypeOK /\ OpOK)'
  BY TypeStep, OpStep
<1> QED BY <1>1, <1>2, PTL DEF Spec
----------------------------------------------------------------------------
(* Where the chunks of an image go. *)

LEMMA PosFinite ==
  ASSUME NEW c, NEW b
  PROVE  /\ IsFiniteSet({x \in Block : x < b /\ x \notin bad[c]})
         /\ Pos(c, b) \in Nat
<1>1. IsFiniteSet(Block)
  BY ParamAssumption, FS_Interval DEF Block
<1>2. IsFiniteSet({x \in Block : x < b /\ x \notin bad[c]})
  BY <1>1, FS_Subset
<1> QED BY <1>2, FS_CardinalityType DEF Pos

LEMMA PosFirst == ASSUME NEW c PROVE Pos(c, 1) = 0
<1>1. {x \in Block : x < 1 /\ x \notin bad[c]} = {}
  BY ParamAssumption DEF Block
<1> QED BY <1>1, FS_EmptySet DEF Pos

\* Passing a good block advances to the next chunk, passing a bad one does not.
LEMMA PosStep ==
  ASSUME NEW c, NEW b \in Block
  PROVE  Pos(c, b + 1) = IF b \in bad[c] THEN Pos(c, b) ELSE Pos(c, b) + 1
<1> DEFINE S == {x \in Block : x < b /\ x \notin bad[c]}
           T == {x \in Block : x < b + 1 /\ x \notin bad[c]}
<1>1. CASE b \in bad[c]
  <2>1. T = S
    BY <1>1, ParamAssumption DEF Block
  <2> QED BY <1>1, <2>1 DEF Pos
<1>2. CASE b \notin bad[c]
  <2>1. T = S \cup {b}
    BY <1>2, ParamAssumption DEF Block
  <2>2. b \notin S
    BY ParamAssumption DEF Block
  <2>3. IsFiniteSet(S)
    BY PosFinite
  <2>4. Cardinality(S \cup {b}) = Cardinality(S) + 1
    <3> HIDE DEF S
    <3> QED BY <2>2, <2>3, FS_AddElement
  <2>5. Cardinality(T) = Cardinality(S) + 1
    BY <2>1, <2>4
  <2> QED BY <1>2, <2>5 DEF Pos
<1> QED BY <1>1, <1>2

LEMMA PosMonotone ==
  ASSUME NEW c, NEW a \in 1..(EnvRange + 1), NEW b \in 1..(EnvRange + 1), a <= b
  PROVE  Pos(c, a) <= Pos(c, b)
<1> DEFINE S == {x \in Block : x < a /\ x \notin bad[c]}
           T == {x \in Block : x < b /\ x \notin bad[c]}
<1>1. S \in SUBSET T
  BY ParamAssumption DEF Block
<1>2. IsFiniteSet(T)
  BY PosFinite
<1>3. Cardinality(S) <= Cardinality(T)
  BY <1>1, <1>2, FS_Subset
<1> QED BY <1>3 DEF Pos

\* The block of chunk k is at least the (k + 1)-th of the range.
LEMMA PosBound == ASSUME NEW c, NEW b \in Block PROVE Pos(c, b) < b
<1> DEFINE S == {x \in Block : x < b /\ x \notin bad[c]}
<1>1. S \in SUBSET (1..(b - 1))
  BY ParamAssumption DEF Block
<1>2. b - 1 \in Int /\ b \in Nat
  BY ParamAssumption DEF Block
<1>3. IsFiniteSet(1..(b - 1)) /\ Cardinality(1..(b - 1)) = IF 1 > b - 1 THEN 0 ELSE (b - 1) - 1 + 1
  BY <1>2, FS_Interval
<1>4. Cardinality(S) <= Cardinality(1..(b - 1))
  BY <1>1, <1>3, FS_Subset
<1>5. Cardinality(S) \in Nat
  BY PosFinite DEF Pos
<1>6. b >= 1
  BY ParamAssumption DEF Block
<1> HIDE DEF S
<1> QED BY <1>2, <1>3, <1>4, <1>5, <1>6 DEF Pos, S

LEMMA RangeTooSmall ==
  ASSUME NEW c, EnvRange < EnvBlocks
  PROVE  ~Fits(c)
<1> SUFFICES ASSUME NEW b \in Needed(c), Pos(c, b) + 1 = EnvBlocks PROVE FALSE
  BY DEF Fits
<1>1. b \in Block
  BY DEF Needed
<1>2. Pos(c, b) < b /\ Pos(c, b) \in Nat
  BY <1>1, PosBound, PosFinite
<1> QED BY <1>1, <1>2, ParamAssumption DEF Block

\* writeenv ran out of blocks before it had stored everything.
LEMMA OutOfBlocks ==
  ASSUME NEW c, Pos(c, EnvRange + 1) < EnvBlocks
  PROVE  ~Fits(c)
<1> SUFFICES ASSUME NEW b \in Needed(c), Pos(c, b) + 1 = EnvBlocks PROVE FALSE
  BY DEF Fits
<1>1. b \in Block /\ b \notin bad[c]
  BY DEF Needed
<1>2. Pos(c, b + 1) = EnvBlocks
  BY <1>1, PosStep
<1>3. b + 1 \in 1..(EnvRange + 1) /\ EnvRange + 1 \in 1..(EnvRange + 1) /\ b + 1 <= EnvRange + 1
  BY <1>1, ParamAssumption DEF Block
<1>4. Pos(c, b + 1) <= Pos(c, EnvRange + 1)
  BY <1>3, PosMonotone
<1>5. Pos(c, EnvRange + 1) \in Nat
  BY PosFinite
<1> QED BY <1>2, <1>4, <1>5, ParamAssumption
----------------------------------------------------------------------------
(* Reading a copy back. *)

\* A copy holds at most one image, and readenv finds it.
LoadFacts == \A c \in Copy : \A i \in Image :
    /\ LoadsValid(c, i) => CrcOk(c) /\ ImageAt(c) = i
    /\ \A j \in Image : Loads(c, i) /\ Loads(c, j) => i = j

LEMMA LoadFactsHold == NandType => LoadFacts
<1> SUFFICES ASSUME NandType, NEW c \in Copy, NEW i \in Image
             PROVE  /\ LoadsValid(c, i) => CrcOk(c) /\ ImageAt(c) = i
                    /\ \A j \in Image : Loads(c, i) /\ Loads(c, j) => i = j
  BY DEF LoadFacts
<1>1. ASSUME NEW j \in Image, Loads(c, i), Loads(c, j) PROVE i = j
  <2>1. PICK b \in Needed(c) : Pos(c, b) + 1 = EnvBlocks
    BY <1>1 DEF Loads, Fits
  <2>2. nand[c][b] = Chunk(i, Pos(c, b)) /\ nand[c][b] = Chunk(j, Pos(c, b))
    BY <1>1, <2>1 DEF Loads
  <2>3. Chunk(i, Pos(c, b)).img = i /\ Chunk(j, Pos(c, b)).img = j
    BY DEF Chunk
  <2> QED BY <2>2, <2>3
<1>2. ASSUME LoadsValid(c, i) PROVE CrcOk(c) /\ ImageAt(c) = i
  <2>1. PICK b \in Needed(c) : Pos(c, b) + 1 = EnvBlocks
    BY <1>2 DEF LoadsValid, Loads, Fits
  <2>2. nand[c][b] = Chunk(i, Pos(c, b))
    BY <1>2, <2>1 DEF LoadsValid, Loads
  <2>3. nand[c][b].st = "chunk" /\ nand[c][b].img = i
    BY <2>2 DEF Chunk
  <2>4. i \in Candidates(c)
    BY <2>1, <2>3 DEF Candidates
  <2>5. CrcOk(c)
    BY <1>2, <2>4 DEF CrcOk
  <2>6. ImageAt(c) \in Image /\ Loads(c, ImageAt(c))
    BY <2>5, ImageAtType DEF LoadsValid
  <2> QED BY <1>2, <2>5, <2>6, <1>1 DEF LoadsValid
<1> QED BY <1>1, <1>2

LEMMA LoadFactsPrime == NandType' => LoadFacts'
BY LoadFactsHold, PTL

\* The serial numbers of two valid copies are neighbours.
Adjacent == \A i, j \in Image :
    LoadsValid(1, i) /\ LoadsValid(2, j) => i.flags = Succ(j.flags) \/ j.flags = Succ(i.flags)

\* Of two neighbours the comparison of env_relocate_spec takes the later.
LEMMA SerialPickLater ==
  ASSUME NEW f \in 0..(FlagMod - 1), NEW g \in 0..(FlagMod - 1)
  PROVE  /\ f = Succ(g) => SerialPick(f, g) = 1
         /\ g = Succ(f) => SerialPick(f, g) = 2
<1>1. \A h \in 0..(FlagMod - 1) : Succ(h) = IF h = FlagMod - 1 THEN 0 ELSE h + 1
  BY ParamAssumption DEF Succ
<1> QED BY <1>1, ParamAssumption DEF SerialPick

\* What a boot finds when the serial numbers are neighbours.
BootFacts ==
    /\ Chosen = 0 => \A c \in Copy, i \in Image : ~LoadsValid(c, i)
    /\ Chosen # 0 =>
          /\ Chosen \in Copy
          /\ BootMem \in Image
          /\ BootValid = Chosen
          /\ LoadsValid(Chosen, BootMem)
          /\ \A c \in Copy, i \in Image :
                c # Chosen /\ LoadsValid(c, i) => BootMem.flags = Succ(i.flags)
    /\ Chosen = 0 => BootMem = DefaultImage /\ BootValid = 1

LEMMA BootFactsHold == Redundant /\ NandType /\ Adjacent => BootFacts
<1> SUFFICES ASSUME Redundant, NandType, Adjacent PROVE BootFacts
  OBVIOUS
<1>1. Copy = {1, 2}
  BY DEF Copy
<1>2. LoadFacts
  BY LoadFactsHold
<1>3. ASSUME Chosen = 0, NEW c \in Copy, NEW i \in Image, LoadsValid(c, i) PROVE FALSE
  <2>1. CrcOk(c)
    BY <1>2, <1>3 DEF LoadFacts
  <2>2. \A f, g : SerialPick(f, g) # 0
    BY DEF SerialPick
  <2> QED BY <1>1, <1>3, <2>1, <2>2 DEF Chosen
<1>4. ASSUME Chosen # 0
      PROVE  Chosen \in Copy /\ BootMem \in Image /\ BootValid = Chosen /\ LoadsValid(Chosen, BootMem)
  <2>1. Chosen \in Copy /\ CrcOk(Chosen)
    BY <1>4, ChosenValues
  <2>2. BootMem = ImageAt(Chosen)
    BY <1>4 DEF BootMem
  <2>3. BootValid = Chosen
    BY <1>1, <2>1 DEF BootValid
  <2> QED BY <2>1, <2>2, <2>3, ImageAtType
<1>5. ASSUME Chosen # 0, NEW c \in Copy, NEW i \in Image, c # Chosen, LoadsValid(c, i)
      PROVE  BootMem.flags = Succ(i.flags)
  <2>1. CrcOk(c) /\ ImageAt(c) = i /\ CrcOk(Chosen) /\ ImageAt(Chosen) = BootMem
    BY <1>2, <1>4, <1>5 DEF LoadFacts
  <2>2. BootMem \in Image /\ LoadsValid(Chosen, BootMem) /\ Chosen \in Copy
    BY <1>4, <1>5
  <2>3. BootMem.flags \in 0..(FlagMod - 1) /\ i.flags \in 0..(FlagMod - 1)
    BY <2>2 DEF Image
  <2>4. BootMem.flags = Succ(i.flags) \/ i.flags = Succ(BootMem.flags)
    BY <1>1, <1>5, <2>2 DEF Adjacent
  <2>5. CASE Chosen = 1
    <3>1. c = 2
      BY <1>1, <1>5, <2>5
    <3>2. SerialPick(BootMem.flags, i.flags) = 1
      BY <2>1, <2>5, <3>1 DEF Chosen
    <3> QED BY <2>3, <2>4, <3>2, SerialPickLater
  <2>6. CASE Chosen = 2
    <3>1. c = 1
      BY <1>1, <1>5, <2>6
    <3>2. SerialPick(i.flags, BootMem.flags) = 2
      BY <2>1, <2>6, <3>1 DEF Chosen
    <3> QED BY <2>3, <2>4, <3>2, SerialPickLater
  <2> QED BY <1>1, <2>2, <2>5, <2>6
<1>6. Chosen = 0 => BootMem = DefaultImage /\ BootValid = 1
  BY DEF BootMem, BootValid
<1> QED BY <1>3, <1>4, <1>5, <1>6 DEF BootFacts

LEMMA BootFactsPrime ==
  ASSUME Redundant
  PROVE  NandType' /\ Adjacent' => BootFacts'
<1>1. NandType /\ Adjacent => BootFacts
  BY BootFactsHold
<1> QED BY <1>1, PTL
----------------------------------------------------------------------------
(* SaveInv is inductive. *)

LEMMA GeometryFrame ==
  ASSUME bad' = bad, NEW c
  PROVE  /\ \A b : Pos(c, b)' = Pos(c, b)
         /\ Needed(c)' = Needed(c)
         /\ Fits(c)' <=> Fits(c)
<1>1. \A b : Pos(c, b)' = Pos(c, b)
  BY DEF Pos
<1>2. Needed(c)' = Needed(c)
  BY <1>1 DEF Needed
<1>3. Fits(c)' <=> Fits(c)
  BY <1>1, <1>2 DEF Fits
<1> QED BY <1>1, <1>2, <1>3

\* A copy nothing is done to keeps its image.
LEMMA LoadsFrame ==
  ASSUME bad' = bad, worn' = worn, NEW c, nand'[c] = nand[c], NEW i
  PROVE  /\ Loads(c, i)' <=> Loads(c, i)
         /\ LoadsValid(c, i)' <=> LoadsValid(c, i)
<1>1. Loads(c, i)' <=> Loads(c, i)
  BY GeometryFrame DEF Loads
<1> QED BY <1>1 DEF LoadsValid

LEMMA BootInv ==
  ASSUME Redundant, NandType', Adjacent', worn' = {}, Boot
  PROVE  SaveInv'
<1>1. BootFacts'
  BY BootFactsPrime
<1>2. op' = Idle /\ op'.st = "idle"
  BY DEF Boot, Idle
<1>3. EraseProgress' /\ WriteProgress'
  BY <1>2 DEF EraseProgress, WriteProgress
<1>4. CASE Chosen' = 0
  <2>1. saved' = FALSE /\ valid' = 1
    BY <1>1, <1>4 DEF Boot, BootFacts
  <2>2. \A c \in Copy, i \in Image : ~LoadsValid(c, i)'
    BY <1>1, <1>4 DEF BootFacts
  <2>3. Target' = 2
    BY <2>1 DEF Target
  <2>4. ActiveInv'
    BY <2>1, <2>2 DEF ActiveInv, Copy
  <2>5. SerialInv'
    BY <2>1, <2>2, <2>3 DEF SerialInv, Copy
  <2> QED BY <1>3, <2>4, <2>5 DEF SaveInv
<1>5. CASE Chosen' # 0
  <2>1. saved' = TRUE /\ valid' = Chosen' /\ last' = BootMem' /\ mem' = last'
    BY <1>1, <1>5 DEF Boot, BootFacts
  <2>2. Chosen' \in Copy /\ LoadsValid(Chosen, BootMem)'
    BY <1>1, <1>5 DEF BootFacts
  <2>3. \A c \in Copy, i \in Image :
            c # Chosen' /\ LoadsValid(c, i)' => BootMem'.flags = Succ(i.flags)
    BY <1>1, <1>5 DEF BootFacts
  <2>4. Target' \in Copy /\ Target' # Chosen'
    BY <2>1, <2>2 DEF Target, Copy
  <2>5. ActiveInv'
    BY <2>1, <2>2 DEF ActiveInv, LoadsValid
  <2>6. SerialInv'
    BY <1>2, <2>1, <2>3, <2>4 DEF SerialInv
  <2> QED BY <1>3, <2>5, <2>6 DEF SaveInv
<1> QED BY <1>4, <1>5

\* Erasing or spoiling a block never makes an image appear.
LEMMA LoadsSpoiled ==
  ASSUME TypeOK, bad' = bad, worn = {}, NEW c \in Copy, NEW b \in Block,
         NEW x \in {Erased, Garbage}, nand' = [nand EXCEPT ![c][b] = x],
         NEW i, Loads(c, i)'
  PROVE  Loads(c, i)
<1>1. Fits(c)
  BY GeometryFrame DEF Loads
<1>2. \A d \in Needed(c) : nand'[c][d] = Chunk(i, Pos(c, d))
  BY GeometryFrame DEF Loads
<1>3. x # Chunk(i, Pos(c, b))
  BY DEF Erased, Garbage, Chunk
<1>4. nand'[c][b] = x
  BY DEF TypeOK
<1>5. b \notin Needed(c)
  BY <1>2, <1>3, <1>4
<1>6. \A d \in Needed(c) : nand'[c][d] = nand[c][d]
  BY <1>5 DEF TypeOK
<1> QED BY <1>1, <1>2, <1>6 DEF Loads

\* During writeenv a complete image in the other copy is the one being saved.
LEMMA WritingLoads ==
  ASSUME TypeOK, SaveInv, op.st = "write", NEW i, Loads(Target, i)
  PROVE  i = mem /\ op # Idle
<1>1. PICK b \in Needed(Target) : Pos(Target, b) + 1 = EnvBlocks
  BY DEF Loads, Fits
<1>2. nand[Target][b] = Chunk(i, Pos(Target, b))
  BY DEF Loads
<1>3. b \in Block \ bad[Target]
  BY DEF Needed
<1>4. nand[Target][b] = Chunk(mem, Pos(Target, b))
  BY <1>2, <1>3 DEF SaveInv, WriteProgress, Erased, Chunk
<1>5. i = mem
  BY <1>2, <1>4 DEF Chunk
<1> QED BY <1>5 DEF Idle

LEMMA CopiesSplit ==
  ASSUME Redundant, valid \in Copy
  PROVE  Copy = {valid, Target} /\ valid # Target /\ Copy = {1, 2}
BY DEF Copy, Target

\* The valid images of the two copies have neighbouring serial numbers.
PairFact == \A i, j \in Image :
    LoadsValid(valid, i) /\ LoadsValid(Target, j) =>
        i.flags = Succ(j.flags) \/ j.flags = Succ(i.flags)

LEMMA PairFactHolds ==
  ASSUME TypeOK, SaveInv
  PROVE  PairFact
<1> SUFFICES ASSUME NEW i \in Image, NEW j \in Image,
                    LoadsValid(valid, i), LoadsValid(Target, j)
             PROVE  i.flags = Succ(j.flags) \/ j.flags = Succ(i.flags)
  BY DEF PairFact
<1>1. saved /\ Loads(valid, last)
  BY DEF SaveInv, ActiveInv
<1>2. i = last
  <2>1. LoadFacts /\ valid \in Copy /\ last \in Image
    BY LoadFactsHold, TypeOKNandType DEF TypeOK
  <2> QED BY <1>1, <2>1 DEF LoadFacts, LoadsValid
<1>3. CASE op.st # "write"
  BY <1>2, <1>3 DEF SaveInv, SerialInv
<1>4. CASE op.st = "write"
  <2>1. j = mem /\ op # Idle
    BY <1>4, WritingLoads DEF LoadsValid
  <2>2. Fits(Target)
    BY DEF LoadsValid, Loads
  <2> QED BY <1>1, <1>2, <2>1, <2>2 DEF SaveInv, SerialInv
<1> QED BY <1>3, <1>4

LEMMA AdjacentHolds ==
  ASSUME Redundant, TypeOK, SaveInv
  PROVE  Adjacent
<1>1. PairFact /\ Copy = {valid, Target} /\ valid # Target /\ Copy = {1, 2}
  BY PairFactHolds, CopiesSplit DEF TypeOK
<1>2. (valid = 1 /\ Target = 2) \/ (valid = 2 /\ Target = 1)
  BY DEF TypeOK, Copy, Target
<1> QED BY <1>1, <1>2 DEF PairFact, Adjacent

\* The serial numbers stay neighbours when the power fails.
LEMMA AdjacentAfterCut ==
  ASSUME Redundant, TypeOK, SaveInv, bad' = bad, worn' = worn,
         \/ nand' = nand
         \/ op.blk \in Block /\ nand' = [nand EXCEPT ![Target][op.blk] = Garbage]
  PROVE  Adjacent'
<1>1. Copy = {valid, Target} /\ valid # Target /\ Copy = {1, 2}
  BY CopiesSplit DEF TypeOK
<1>2. ASSUME NEW c \in Copy, NEW i, LoadsValid(c, i)' PROVE LoadsValid(c, i)
  <2>1. CASE nand'[c] = nand[c]
    BY <1>2, <2>1, LoadsFrame
  <2>2. CASE nand'[c] # nand[c]
    <3>1. c = Target /\ op.blk \in Block /\ nand' = [nand EXCEPT ![c][op.blk] = Garbage]
      BY <1>1, <2>2 DEF TypeOK
    <3>2. Loads(c, i)' /\ i.crc = i.data
      BY <1>2 DEF LoadsValid
    <3>3. Loads(c, i)
      BY <3>1, <3>2, LoadsSpoiled DEF SaveInv
    <3> QED BY <3>2, <3>3 DEF LoadsValid
  <2> QED BY <2>1, <2>2
<1>3. Adjacent
  BY AdjacentHolds
<1> QED BY <1>1, <1>2, <1>3 DEF Adjacent

LEMMA ResetInv ==
  ASSUME Redundant, TypeOK, SaveInv, Reset
  PROVE  SaveInv'
<1>1. NandType' /\ worn' = {}
  BY DEF Reset, TypeOK, NandType, SaveInv
<1>2. Adjacent'
  BY AdjacentAfterCut DEF Reset
<1> QED BY <1>1, <1>2, BootInv DEF Reset

LEMMA PowerCutInv ==
  ASSUME Redundant, TypeOK, SaveInv, PowerCut
  PROVE  SaveInv'
<1>1. NandType'
  BY PowerCutType DEF TypeOK, NandType
<1>2. worn' = {}
  BY DEF PowerCut, SaveInv
<1>3. Adjacent'
  BY AdjacentAfterCut DEF PowerCut
<1> QED BY <1>1, <1>2, <1>3, BootInv DEF PowerCut

LEMMA SetEnvInv ==
  ASSUME Redundant, TypeOK, SaveInv, NEW n \in Name, NEW v \in Val, SetEnv(n, v)
  PROVE  SaveInv'
<1>1. mem'.flags = mem.flags
  BY DEF SetEnv, TypeOK, Image
<1>2. op = Idle /\ op' = Idle /\ Idle.st = "idle"
  BY DEF SetEnv, Idle
<1>3. UNCHANGED <<valid, nand, bad, worn, saved, last>>
  BY DEF SetEnv
<1>4. Target' = Target
  BY <1>3 DEF Target
<1>5. EraseProgress' /\ WriteProgress' /\ worn' = {}
  BY <1>2, <1>3 DEF EraseProgress, WriteProgress, SaveInv
<1>6. \A c, i : (Loads(c, i)' <=> Loads(c, i)) /\ (LoadsValid(c, i)' <=> LoadsValid(c, i))
  BY <1>3, LoadsFrame
<1>7. \A c : Fits(c)' <=> Fits(c)
  BY <1>3, GeometryFrame
<1>8. ActiveInv'
  BY <1>3, <1>6 DEF SaveInv, ActiveInv
<1>9. SerialInv'
  BY <1>1, <1>2, <1>3, <1>4, <1>6, <1>7 DEF SaveInv, SerialInv
<1> QED BY <1>5, <1>8, <1>9 DEF SaveInv

LEMMA SaveStartInv ==
  ASSUME Redundant, TypeOK, SaveInv, SaveStart
  PROVE  SaveInv'
<1>1. mem'.flags = Succ(mem.flags)
  BY DEF SaveStart, BumpFlags, TypeOK, Image, Succ
<1>2. op = Idle /\ Idle.st = "idle" /\ saved' = saved
  BY DEF SaveStart, Idle, TypeOK
<1>3. UNCHANGED <<valid, nand, bad, worn, last>>
  BY DEF SaveStart
<1>4. Target' = Target
  BY <1>3 DEF Target
<1>5. \A c, i : (Loads(c, i)' <=> Loads(c, i)) /\ (LoadsValid(c, i)' <=> LoadsValid(c, i))
  BY <1>3, LoadsFrame
<1>6. \A c : Fits(c)' <=> Fits(c)
  BY <1>3, GeometryFrame
<1>7. ActiveInv'
  BY <1>2, <1>3, <1>5 DEF SaveInv, ActiveInv
<1>8. op'.st # "write"
  BY <1>2 DEF SaveStart
<1>9. EraseProgress'
  BY <1>2, ParamAssumption DEF SaveStart, EraseProgress, Block
<1>10. Fits(Target) => op' # Idle
  BY <1>2, RangeTooSmall, ParamAssumption DEF SaveStart, Idle
<1>11. SerialInv'
  BY <1>1, <1>2, <1>3, <1>4, <1>5, <1>6, <1>8, <1>10 DEF SaveInv, SerialInv
<1> QED BY <1>3, <1>7, <1>8, <1>9, <1>11 DEF SaveInv, WriteProgress

\* How far nand_erase_opts has come, in either build.
LEMMA EraseBlockProgress ==
  ASSUME "erase" \notin Faults, TypeOK, OpOK, worn = {}, EraseProgress, EraseBlock
  PROVE  EraseProgress' /\ WriteProgress' /\ worn' = {}
<1> DEFINE t == Target
<1>1. op.st = "erase" /\ op.blk \in Block /\ op # Idle
  BY DEF EraseBlock, OpOK, Idle
<1>2. UNCHANGED <<mem, valid, bad, saved, last>> /\ Target' = Target
  BY DEF EraseBlock, Target
<1>3. worn' = {}
  BY DEF EraseBlock
<1>4. t \in Copy
  BY TargetType DEF TypeOK
<1>5. \/ op.blk \in bad[t] /\ nand' = nand
      \/ op.blk \notin bad[t] /\ nand' = [nand EXCEPT ![t][op.blk] = Erased]
  BY DEF EraseBlock, IsBad
<1>6. \A b \in Block \ bad[t] : b <= op.blk => nand'[t][b] = Erased
  <2> SUFFICES ASSUME NEW b \in Block \ bad[t], b <= op.blk PROVE nand'[t][b] = Erased
    OBVIOUS
  <2>1. CASE b = op.blk
    BY <1>4, <1>5, <2>1 DEF TypeOK
  <2>2. CASE b # op.blk
    <3>1. b < op.blk
      BY <1>1, <2>2, ParamAssumption DEF Block
    <3>2. nand[t][b] = Erased
      BY <1>1, <3>1 DEF EraseProgress
    <3> QED BY <1>4, <1>5, <2>2, <3>2 DEF TypeOK
  <2> QED BY <2>1, <2>2
<1>7. EraseProgress'
  <2>1. op'.st = "erase" => op'.blk = op.blk + 1
    BY DEF EraseBlock
  <2> QED BY <1>1, <1>2, <1>6, <2>1, ParamAssumption DEF EraseProgress, Block
<1>8. WriteProgress'
  <2> SUFFICES ASSUME op'.st = "write" PROVE WriteProgress'
    BY DEF WriteProgress
  <2>1. op.blk = EnvRange /\ op' = [st |-> "write", blk |-> 1, amt |-> 0]
    BY DEF EraseBlock
  <2>2. op'.blk = 1 /\ op'.amt = 0
    BY <2>1
  <2>3. Pos(t, 1)' = 0
    BY <1>2, PosFirst, GeometryFrame
  <2>4. \A b \in Block \ bad[t] : nand'[t][b] = Erased /\ ~(b < 1)
    BY <1>6, <2>1, ParamAssumption DEF Block
  <2> QED BY <1>2, <2>2, <2>3, <2>4 DEF WriteProgress
<1> QED BY <1>3, <1>7, <1>8

LEMMA EraseBlockInv ==
  ASSUME Redundant, "erase" \notin Faults, TypeOK, OpOK, SaveInv, EraseBlock
  PROVE  SaveInv'
<1> DEFINE t == Target
<1>1. op.st = "erase" /\ op.blk \in Block /\ op # Idle
  BY DEF EraseBlock, OpOK, Idle
<1>2. UNCHANGED <<mem, valid, bad, saved, last>> /\ Target' = Target
  BY DEF EraseBlock, Target
<1>3. worn' = {} /\ worn' = worn
  BY DEF EraseBlock, SaveInv
<1>4. Copy = {valid, t} /\ valid # t /\ t \in Copy
  BY CopiesSplit DEF TypeOK
<1>5. \/ op.blk \in bad[t] /\ nand' = nand
      \/ op.blk \notin bad[t] /\ nand' = [nand EXCEPT ![t][op.blk] = Erased]
  BY DEF EraseBlock, IsBad
<1>6. nand'[valid] = nand[valid]
  BY <1>4, <1>5 DEF TypeOK
<1>7. ActiveInv'
  <2>1. \A i : (Loads(valid, i)' <=> Loads(valid, i)) /\ (LoadsValid(valid, i)' <=> LoadsValid(valid, i))
    <3> SUFFICES ASSUME NEW i, NEW v, v = valid
                 PROVE (Loads(v, i)' <=> Loads(v, i)) /\ (LoadsValid(v, i)' <=> LoadsValid(v, i))
      BY <1>2
    <3> QED BY <1>2, <1>3, <1>6, LoadsFrame
  <2> QED BY <1>2, <2>1 DEF SaveInv, ActiveInv
<1>9. \A i : LoadsValid(t, i)' => LoadsValid(t, i)
  <2> SUFFICES ASSUME NEW i, NEW c, c = t, LoadsValid(c, i)' PROVE LoadsValid(c, i)
    BY <1>2
  <2>1. CASE nand' = nand
    BY <1>2, <1>3, <2>1, LoadsFrame
  <2>2. CASE nand' = [nand EXCEPT ![t][op.blk] = Erased]
    <3>1. Loads(c, i)' /\ i.crc = i.data
      BY DEF LoadsValid
    <3>2. Loads(c, i)
      BY <1>1, <1>2, <1>4, <2>2, <3>1, LoadsSpoiled DEF SaveInv
    <3> QED BY <3>1, <3>2 DEF LoadsValid
  <2> QED BY <1>5, <2>1, <2>2
<1>10. Fits(t)' <=> Fits(t)
  BY <1>2, GeometryFrame
<1>11. op' # Idle /\ op'.st \in {"erase", "write"}
  BY DEF EraseBlock, Idle
<1>12. SerialInv'
  BY <1>1, <1>2, <1>9, <1>10, <1>11 DEF SaveInv, SerialInv
<1>13. EraseProgress' /\ WriteProgress'
  BY EraseBlockProgress DEF SaveInv
<1> QED BY <1>3, <1>7, <1>12, <1>13 DEF SaveInv

\* How far writeenv has come, in either build.
LEMMA WriteBlockProgress ==
  ASSUME TypeOK, WriteProgress, WriteBlock
  PROVE  WriteProgress'
<1> DEFINE t == Target
<1>1. op.st = "write" /\ op.blk \in Block /\ op # Idle /\ op.amt < EnvBlocks
  BY ParamAssumption DEF WriteBlock, Writing, TypeOK, Idle, Block
<1>2. UNCHANGED <<mem, valid, bad, worn, saved, last>> /\ Target' = Target
  BY DEF WriteBlock, Target
<1>4. t \in Copy
  BY TargetType DEF TypeOK
<1>5. /\ op.amt = Pos(t, op.blk)
      /\ op.amt > 0 => \E b \in Needed(t) : Pos(t, b) + 1 = op.amt
      /\ \A b \in Block \ bad[t] :
           nand[t][b] = IF b < op.blk THEN Chunk(mem, Pos(t, b)) ELSE Erased
  BY <1>1 DEF WriteProgress
<1>6. op'.st = "write" /\ op'.blk = op.blk + 1 /\ op' # Idle
  BY DEF WriteBlock, IsBad, NextBlock, Idle
<1>7. /\ op'.amt = Pos(t, op.blk + 1)
      /\ op'.amt > 0 => \E b \in Needed(t) : Pos(t, b) + 1 = op'.amt
      /\ \A b \in Block \ bad[t] :
           nand'[t][b] = IF b < op.blk + 1 THEN Chunk(mem, Pos(t, b)) ELSE Erased
  <2>1. CASE op.blk \in bad[t]
    <3>1. nand' = nand /\ op'.amt = op.amt
      BY <2>1 DEF WriteBlock, IsBad, NextBlock
    <3>2. Pos(t, op.blk + 1) = op.amt
      BY <1>1, <1>5, <2>1, PosStep
    <3>3. \A b \in Block \ bad[t] : b < op.blk + 1 <=> b < op.blk
      BY <1>1, <2>1, ParamAssumption DEF Block
    <3> QED BY <1>5, <3>1, <3>2, <3>3
  <2>2. CASE op.blk \notin bad[t]
    <3>1. op'.amt = op.amt + 1
      BY <2>2 DEF WriteBlock, IsBad, NextBlock
    <3>2. nand[t][op.blk] = Erased
      BY <1>1, <1>5, <2>2, ParamAssumption DEF Block
    <3>3. nand' = [nand EXCEPT ![t][op.blk] = Chunk(mem, op.amt)]
      BY <2>2, <3>2 DEF WriteBlock, IsBad, NextBlock, Programmed
    <3>4. Pos(t, op.blk + 1) = op.amt + 1
      BY <1>1, <1>5, <2>2, PosStep
    <3>5. op.blk \in Needed(t) /\ Pos(t, op.blk) + 1 = op'.amt
      BY <1>1, <1>5, <2>2, <3>1 DEF Needed
    <3>6. ASSUME NEW b \in Block \ bad[t]
          PROVE  nand'[t][b] = IF b < op.blk + 1 THEN Chunk(mem, Pos(t, b)) ELSE Erased
      <4>1. CASE b = op.blk
        <5>1. nand'[t][b] = Chunk(mem, op.amt)
          BY <1>1, <1>4, <3>3, <4>1 DEF TypeOK
        <5>2. b < op.blk + 1
          BY <4>1, ParamAssumption DEF Block
        <5> QED BY <1>5, <4>1, <5>1, <5>2
      <4>2. CASE b # op.blk
        <5>1. nand'[t][b] = nand[t][b]
          BY <1>4, <3>3, <4>2 DEF TypeOK
        <5>2. b < op.blk + 1 <=> b < op.blk
          BY <1>1, <4>2, ParamAssumption DEF Block
        <5> QED BY <1>5, <5>1, <5>2
      <4> QED BY <4>1, <4>2
    <3> QED BY <3>1, <3>4, <3>5, <3>6
  <2> QED BY <2>1, <2>2
<1>8. WriteProgress'
  <2>1. (\A b : Pos(t, b)' = Pos(t, b)) /\ Needed(t)' = Needed(t)
    BY <1>2, GeometryFrame
  <2> QED BY <1>2, <1>6, <1>7, <2>1 DEF WriteProgress
<1> QED BY <1>8

LEMMA WriteBlockInv ==
  ASSUME Redundant, TypeOK, SaveInv, WriteBlock
  PROVE  SaveInv'
<1> DEFINE t == Target
<1>1. op.st = "write" /\ op.blk \in Block /\ op # Idle /\ op.amt < EnvBlocks
  BY ParamAssumption DEF WriteBlock, Writing, TypeOK, Idle, Block
<1>2. UNCHANGED <<mem, valid, bad, worn, saved, last>> /\ Target' = Target
  BY DEF WriteBlock, Target
<1>3. worn' = {}
  BY <1>2 DEF SaveInv
<1>4. Copy = {valid, t} /\ valid # t /\ t \in Copy
  BY CopiesSplit DEF TypeOK
<1>6. op'.st = "write" /\ op'.blk = op.blk + 1 /\ op' # Idle
  BY DEF WriteBlock, IsBad, NextBlock, Idle
<1>9. nand'[valid] = nand[valid]
  BY <1>4 DEF TypeOK, WriteBlock
<1>10. ActiveInv'
  <2>1. \A i : (Loads(valid, i)' <=> Loads(valid, i)) /\ (LoadsValid(valid, i)' <=> LoadsValid(valid, i))
    <3> SUFFICES ASSUME NEW i, NEW v, v = valid
                 PROVE (Loads(v, i)' <=> Loads(v, i)) /\ (LoadsValid(v, i)' <=> LoadsValid(v, i))
      BY <1>2
    <3> QED BY <1>2, <1>9, LoadsFrame
  <2> QED BY <1>2, <2>1 DEF SaveInv, ActiveInv
<1>11. SerialInv'
  <2>1. Fits(t)' <=> Fits(t)
    BY <1>2, GeometryFrame
  <2> QED BY <1>1, <1>2, <1>6, <2>1 DEF SaveInv, SerialInv
<1>12. WriteProgress'
  BY WriteBlockProgress DEF SaveInv
<1> QED BY <1>3, <1>6, <1>10, <1>11, <1>12 DEF SaveInv, EraseProgress

\* writeenv has stored everything: the other copy holds the image in RAM.
LEMMA Complete ==
  ASSUME TypeOK, worn = {}, WriteProgress, op.st = "write", op.amt = EnvBlocks
  PROVE  Loads(Target, mem)
<1> DEFINE t == Target
<1>1. /\ EnvBlocks = Pos(t, op.blk)
      /\ \E b \in Needed(t) : Pos(t, b) + 1 = EnvBlocks
      /\ \A b \in Block \ bad[t] :
           nand[t][b] = IF b < op.blk THEN Chunk(mem, Pos(t, b)) ELSE Erased
  BY ParamAssumption DEF WriteProgress
<1>2. ASSUME NEW b \in Needed(t) PROVE nand[t][b] = Chunk(mem, Pos(t, b))
  <2>1. b \in Block /\ b \notin bad[t] /\ Pos(t, b) < EnvBlocks
    BY DEF Needed
  <2>2. ~(op.blk <= b)
    <3> SUFFICES ASSUME op.blk <= b PROVE FALSE
      OBVIOUS
    <3>1. op.blk \in 1..(EnvRange + 1) /\ b \in 1..(EnvRange + 1)
      BY <2>1, ParamAssumption DEF TypeOK, Block
    <3>2. Pos(t, op.blk) <= Pos(t, b)
      BY <3>1, PosMonotone
    <3>3. Pos(t, b) \in Nat
      BY PosFinite
    <3> QED BY <1>1, <2>1, <3>2, <3>3, ParamAssumption
  <2>3. b < op.blk
    BY <2>1, <2>2, ParamAssumption DEF TypeOK, Block
  <2> QED BY <1>1, <2>1, <2>3
<1> QED BY <1>1, <1>2 DEF Loads, Fits

LEMMA SaveEndInv ==
  ASSUME Redundant, TypeOK, SaveInv, SaveEnd
  PROVE  SaveInv'
<1> DEFINE t == Target
<1>1. op.st = "write" /\ op # Idle /\ op' = Idle /\ op'.st = "idle"
  BY DEF SaveEnd, Idle
<1>2. UNCHANGED <<mem, nand, bad, worn>>
  BY DEF SaveEnd
<1>3. EraseProgress' /\ WriteProgress' /\ worn' = {}
  BY <1>1, <1>2 DEF EraseProgress, WriteProgress, SaveInv
<1>4. \A c, i : (Loads(c, i)' <=> Loads(c, i)) /\ (LoadsValid(c, i)' <=> LoadsValid(c, i))
  BY <1>2, LoadsFrame
<1>5. \A c : Fits(c)' <=> Fits(c)
  BY <1>2, GeometryFrame
<1>6. Copy = {valid, t} /\ valid # t
  BY CopiesSplit DEF TypeOK
<1>7. CASE op.amt = EnvBlocks
  <2>1. valid' = t /\ saved' = TRUE /\ last' = mem
    BY <1>7 DEF SaveEnd
  <2>2. Loads(t, mem)
    BY <1>1, <1>7, Complete DEF SaveInv
  <2>3. Target' = valid
    BY <1>6, <2>1 DEF Target, TypeOK, Copy
  <2>4. ActiveInv'
    BY <1>4, <2>1, <2>2 DEF ActiveInv
  <2>5. ASSUME NEW i \in Image, LoadsValid(valid, i) PROVE mem.flags = Succ(i.flags)
    <3>1. saved /\ Loads(valid, last) /\ last \in Image
      BY <2>5 DEF SaveInv, ActiveInv, TypeOK
    <3>2. i = last
      BY <2>5, <3>1, LoadFactsHold, TypeOKNandType DEF LoadFacts, LoadsValid, TypeOK
    <3>3. Fits(t)
      BY <2>2 DEF Loads
    <3> QED BY <1>1, <3>1, <3>2, <3>3 DEF SaveInv, SerialInv
  <2>6. SerialInv'
    BY <1>1, <1>2, <1>4, <2>1, <2>3, <2>5 DEF SerialInv
  <2> QED BY <1>3, <2>4, <2>6 DEF SaveInv
<1>8. CASE op.amt # EnvBlocks
  <2>1. UNCHANGED <<valid, saved, last>> /\ Target' = t
    BY <1>8 DEF SaveEnd, Target
  <2>2. op.blk = EnvRange + 1 /\ op.amt < EnvBlocks
    <3>1. op.amt \in 0..EnvBlocks /\ op.blk \in 1..(EnvRange + 1)
      BY DEF TypeOK
    <3>2. op.amt < EnvBlocks
      BY <1>8, <3>1, ParamAssumption
    <3>3. ~(op.blk <= EnvRange)
      BY <1>1, <3>2 DEF SaveEnd, Writing
    <3> QED BY <3>1, <3>2, <3>3, ParamAssumption
  <2>3. ~Fits(t)
    BY <1>1, <2>2, OutOfBlocks DEF SaveInv, WriteProgress
  <2>4. ActiveInv'
    BY <1>4, <2>1 DEF SaveInv, ActiveInv
  <2>5. SerialInv'
    BY <1>4, <1>5, <2>1, <2>3 DEF SerialInv, LoadsValid, Loads
  <2> QED BY <1>3, <2>4, <2>5 DEF SaveInv
<1> QED BY <1>7, <1>8
----------------------------------------------------------------------------
(* The theorems about two copies under power cuts. *)

LEMMA SaveInvInit == ASSUME Redundant PROVE Init => SaveInv
<1> SUFFICES ASSUME Init PROVE SaveInv
  OBVIOUS
<1>1. op = Idle /\ op.st = "idle" /\ saved = FALSE /\ worn = {} /\ valid = 1 /\ Target = 2
  BY DEF Init, Idle, Target
<1>2. ASSUME NEW c \in Copy, NEW i, Loads(c, i) PROVE FALSE
  <2>1. PICK b \in Needed(c) : nand[c][b] = Chunk(i, Pos(c, b))
    BY <1>2 DEF Loads, Fits
  <2>2. nand[c][b] = Erased
    BY <2>1 DEF Init, Needed
  <2> QED BY <2>1, <2>2 DEF Erased, Chunk
<1>3. ActiveInv
  BY <1>1, <1>2 DEF ActiveInv, LoadsValid, Copy
<1>4. SerialInv
  BY <1>1, <1>2 DEF SerialInv, LoadsValid, Copy
<1> QED BY <1>1, <1>3, <1>4 DEF SaveInv, EraseProgress, WriteProgress

LEMMA SaveInvStep ==
  ASSUME Redundant, Faults \subseteq {"power"}
  PROVE  TypeOK /\ OpOK /\ SaveInv /\ [Next]_vars => SaveInv'
<1> SUFFICES ASSUME TypeOK, OpOK, SaveInv, [Next]_vars PROVE SaveInv'
  OBVIOUS
<1>1. "erase" \notin Faults /\ "write" \notin Faults /\ "status" \notin Faults /\ "flip" \notin Faults
  OBVIOUS
<1>2. ~WriteError
  BY <1>1 DEF WriteError
<1>3. \A c \in Copy, b \in Block : ~BitFlip(c, b)
  BY <1>1 DEF BitFlip
<1>4. CASE UNCHANGED vars
  <2>1. UNCHANGED <<mem, valid, nand, bad, worn, op, saved, last>>
    BY <1>4 DEF vars
  <2>2. \A c, i : (Loads(c, i)' <=> Loads(c, i)) /\ (LoadsValid(c, i)' <=> LoadsValid(c, i))
    BY <2>1, LoadsFrame
  <2>3. \A c : (Fits(c)' <=> Fits(c)) /\ Needed(c)' = Needed(c) /\ \A b : Pos(c, b)' = Pos(c, b)
    BY <2>1, GeometryFrame
  <2>4. Target' = Target
    BY <2>1 DEF Target
  <2>5. ActiveInv'
    BY <2>1, <2>2 DEF SaveInv, ActiveInv
  <2>6. SerialInv'
    BY <2>1, <2>2, <2>3, <2>4 DEF SaveInv, SerialInv
  <2>7. EraseProgress'
    BY <2>1, <2>4 DEF SaveInv, EraseProgress
  <2>8. WriteProgress'
    BY <2>1, <2>3, <2>4 DEF SaveInv, WriteProgress
  <2> QED BY <2>1, <2>5, <2>6, <2>7, <2>8 DEF SaveInv
<1> QED BY <1>1, <1>2, <1>3, <1>4, SetEnvInv, SaveStartInv, EraseBlockInv, WriteBlockInv, SaveEndInv,
           ResetInv, PowerCutInv DEF Next, SaveStep

LEMMA SaveInvDurable ==
  ASSUME Redundant
  PROVE  TypeOK /\ SaveInv => Durable
<1> SUFFICES ASSUME TypeOK, SaveInv, saved, last.crc = last.data
             PROVE  BootMem \in {last} \cup InFlight
  BY DEF Durable
<1>1. BootFacts
  BY AdjacentHolds, BootFactsHold, TypeOKNandType
<1>2. LoadsValid(valid, last) /\ last \in Image /\ valid \in Copy
  BY DEF SaveInv, ActiveInv, LoadsValid, TypeOK
<1>3. Chosen # 0 /\ Chosen \in Copy /\ BootMem \in Image /\ LoadsValid(Chosen, BootMem)
  BY <1>1, <1>2 DEF BootFacts
<1>4. CASE Chosen = valid
  BY <1>2, <1>3, <1>4, LoadFactsHold, TypeOKNandType DEF LoadFacts, LoadsValid
<1>5. CASE Chosen # valid
  <2>1. Chosen = Target
    BY <1>2, <1>3, <1>5, CopiesSplit
  <2>2. BootMem.flags = Succ(last.flags)
    BY <1>1, <1>2, <1>3, <1>5 DEF BootFacts
  <2>3. CASE op.st = "write"
    BY <1>3, <2>1, <2>3, WritingLoads DEF LoadsValid, InFlight
  <2>4. CASE op.st # "write"
    <3>1. last.flags = Succ(BootMem.flags)
      BY <1>3, <2>1, <2>4 DEF SaveInv, SerialInv
    <3>2. last.flags \in 0..(FlagMod - 1) /\ BootMem.flags \in 0..(FlagMod - 1)
      BY <1>2, <1>3 DEF Image
    <3>3. \A h \in 0..(FlagMod - 1) : Succ(h) = IF h = FlagMod - 1 THEN 0 ELSE h + 1
      BY ParamAssumption DEF Succ
    <3> QED BY <2>2, <3>1, <3>2, <3>3, ParamAssumption
  <2> QED BY <2>3, <2>4
<1> QED BY <1>4, <1>5

\* SaveInv holds of the redundant build when only the power can fail.
THEOREM SaveInvariant ==
  ASSUME Redundant, Faults \subseteq {"power"}
  PROVE  Spec => [](TypeOK /\ SaveInv)
<1>1. Init => TypeOK /\ OpOK /\ SaveInv
  BY TypeInit, OpInit, SaveInvInit
<1>2. TypeOK /\ OpOK /\ SaveInv /\ [Next]_vars => (TypeOK /\ OpOK /\ SaveInv)'
  BY TypeStep, OpStep, SaveInvStep
<1> QED BY <1>1, <1>2, PTL DEF Spec

\* With CONFIG_ENV_OFFSET_REDUND, whenever the power fails a boot loads the
\* image that saveenv last reported as saved with a right CRC, or the one it
\* is saving: for every number of blocks, bad blocks and serial numbers.
THEOREM SavedSurvivesPowerCut ==
  ASSUME Redundant, Faults \subseteq {"power"}
  PROVE  Spec => []Durable
<1>1. TypeOK /\ SaveInv => Durable
  BY SaveInvDurable
<1> QED BY <1>1, SaveInvariant, PTL

\* In either build saveenv skips the bad blocks, whatever fails.
THEOREM BadBlocksUntouched == Spec => BadUntouched
<1>1. TypeOK /\ OpOK /\ [Next]_vars =>
        [\A c \in Copy : \A b \in bad[c] : nand'[c][b] = nand[c][b]]_vars
  <2> SUFFICES ASSUME TypeOK, OpOK, [Next]_vars, NEW c \in Copy, NEW b \in bad[c]
               PROVE  nand'[c][b] = nand[c][b]
    OBVIOUS
  <2>1. \/ nand' = nand
        \/ ~IsBad(op.blk) /\ \E x : nand' = [nand EXCEPT ![Target][op.blk] = x]
    BY DEF Next, SaveStep, vars, SetEnv, SaveStart, EraseBlock, WriteBlock, SaveEnd, WriteError,
           Reset, PowerCut, BitFlip
  <2>2. CASE ~IsBad(op.blk) /\ \E x : nand' = [nand EXCEPT ![Target][op.blk] = x]
    BY <2>2 DEF IsBad, TypeOK
  <2> QED BY <2>1, <2>2
<1>2. Init => TypeOK /\ OpOK
  BY TypeInit, OpInit
<1>3. TypeOK /\ OpOK /\ [Next]_vars => (TypeOK /\ OpOK)'
  BY TypeStep, OpStep
<1> QED BY <1>1, <1>2, <1>3, PTL DEF Spec, BadUntouched
----------------------------------------------------------------------------
(* Either build, when erasing works and no bit flips.                      *)

Progressing == worn = {} /\ EraseProgress /\ WriteProgress

LEMMA ProgressInit == Init => Progressing
BY DEF Init, Progressing, EraseProgress, WriteProgress, Idle

LEMMA ProgressStep ==
  ASSUME "erase" \notin Faults, "flip" \notin Faults
  PROVE  TypeOK /\ OpOK /\ Progressing /\ [Next]_vars => Progressing'
<1> SUFFICES ASSUME TypeOK, OpOK, Progressing, [Next]_vars PROVE Progressing'
  OBVIOUS
<1>1. worn = {} /\ EraseProgress /\ WriteProgress
  BY DEF Progressing
<1>2. ASSUME op' = Idle, worn' = worn PROVE Progressing'
  BY <1>1, <1>2 DEF Progressing, EraseProgress, WriteProgress, Idle
<1>3. CASE SaveStart
  <2>1. worn' = {} /\ (op' = Idle \/ op' = [st |-> "erase", blk |-> 1, amt |-> 0])
    BY <1>1, <1>3 DEF SaveStart
  <2> QED BY <1>1, <1>2, <2>1, ParamAssumption
          DEF Progressing, EraseProgress, WriteProgress, Block
<1>4. CASE EraseBlock
  BY <1>1, <1>4, EraseBlockProgress DEF Progressing
<1>5. CASE WriteBlock
  <2>1. op'.st = "write" /\ worn' = worn
    BY <1>5 DEF WriteBlock
  <2> QED BY <1>1, <1>5, <2>1, WriteBlockProgress DEF Progressing, EraseProgress
<1>6. CASE UNCHANGED vars
  <2>1. UNCHANGED <<mem, valid, nand, bad, worn, op>> /\ Target' = Target
    BY <1>6 DEF vars, Target
  <2>2. \A c : Needed(c)' = Needed(c) /\ \A b : Pos(c, b)' = Pos(c, b)
    BY <2>1, GeometryFrame
  <2> QED BY <1>1, <2>1, <2>2 DEF Progressing, EraseProgress, WriteProgress
<1>7. ASSUME NEW n \in Name, NEW v \in Val, SetEnv(n, v) PROVE Progressing'
  BY <1>2, <1>7 DEF SetEnv
<1>8. CASE SaveEnd \/ WriteError \/ Reset \/ PowerCut
  BY <1>2, <1>8 DEF SaveEnd, WriteError, Reset, PowerCut, Boot
<1>9. \A c \in Copy, b \in Block : ~BitFlip(c, b)
  BY DEF BitFlip
<1> QED BY <1>3, <1>4, <1>5, <1>6, <1>7, <1>8, <1>9 DEF Next, SaveStep

LEMMA ProgressHolds ==
  ASSUME "erase" \notin Faults, "flip" \notin Faults
  PROVE  Spec => [](TypeOK /\ OpOK /\ Progressing)
<1>1. Init => TypeOK /\ OpOK /\ Progressing
  BY TypeInit, OpInit, ProgressInit
<1>2. TypeOK /\ OpOK /\ Progressing /\ [Next]_vars => (TypeOK /\ OpOK /\ Progressing)'
  BY TypeStep, OpStep, ProgressStep
<1> QED BY <1>1, <1>2, PTL DEF Spec

\* What a boot takes is what it found valid.
BootTakes ==
    /\ \A c \in Copy : CrcOk(c) => ImageAt(c) \in Image /\ LoadsValid(c, ImageAt(c))
    /\ Chosen \in {0} \cup Copy
    /\ Chosen # 0 => CrcOk(Chosen) /\ BootMem = ImageAt(Chosen)
    /\ Chosen = 0 => BootMem = DefaultImage

LEMMA BootTakesHold == NandType => BootTakes
BY ImageAtType, ChosenValues DEF BootTakes, BootMem

LEMMA BootTakesPrime == NandType' => BootTakes'
BY BootTakesHold, PTL
----------------------------------------------------------------------------
(* When no environment is too long for EnvSize, setenv always brings the   *)
(* CRC up to date, and every image saved has a right one.                  *)

NoOverflow == \A e \in Data, n \in Name, v \in Val : ~(Used(Without(e, n)) + v > EnvSize)

CrcInv ==
    /\ mem.crc = mem.data /\ last.crc = last.data
    /\ Redundant /\ ~saved => last = DefaultImage

LEMMA CrcInit == Init => CrcInv
BY DEF Init, CrcInv, DefaultImage

LEMMA CrcStep ==
  ASSUME NoOverflow
  PROVE  TypeOK /\ CrcInv /\ NandType' /\ [Next]_vars => CrcInv'
<1> SUFFICES ASSUME TypeOK, CrcInv, NandType', [Next]_vars PROVE CrcInv'
  OBVIOUS
<1>1. ASSUME NEW n \in Name, NEW v \in Val, SetEnv(n, v) PROVE CrcInv'
  <2> DEFINE d0 == Without(mem.data, n)
             d1 == [mem.data EXCEPT ![n] = v]
  <2>1. mem.data \in Data
    BY DEF TypeOK, Image
  <2>2. ~(Used(d0) + v > EnvSize)
    BY <2>1 DEF NoOverflow
  <2>3. mem' = [mem EXCEPT !.data = d1, !.crc = d1]
    BY <1>1, <2>2 DEF SetEnv
  <2> HIDE DEF d0, d1
  <2>4. mem'.crc = mem'.data
    BY <2>3 DEF TypeOK, Image
  <2> QED BY <1>1, <2>4 DEF SetEnv, CrcInv
<1>2. CASE SaveStart
  <2>1. mem'.data = mem.data /\ mem'.crc = mem.crc
    BY <1>2 DEF SaveStart, BumpFlags, TypeOK, Image
  <2>2. Redundant => saved' = saved
    BY <1>2 DEF SaveStart, TypeOK
  <2> QED BY <1>2, <2>1, <2>2 DEF SaveStart, CrcInv
<1>3. CASE Boot
  <2>1. mem' = BootMem' /\ last' = BootMem' /\ (saved' <=> Chosen' # 0)
    BY <1>3 DEF Boot
  <2>2. BootTakes'
    BY BootTakesPrime
  <2>3. CASE Chosen' = 0
    BY <2>1, <2>2, <2>3 DEF BootTakes, DefaultImage, CrcInv
  <2>4. CASE Chosen' # 0
    <3>1. Chosen' \in Copy /\ BootMem' = ImageAt(Chosen)' /\ LoadsValid(Chosen, ImageAt(Chosen))'
      BY <2>2, <2>4 DEF BootTakes
    <3> QED BY <2>1, <2>4, <3>1 DEF LoadsValid, CrcInv
  <2> QED BY <2>3, <2>4
<1>4. CASE SaveEnd
  BY <1>4 DEF SaveEnd, CrcInv
<1>5. CASE UNCHANGED <<mem, saved, last>>
  BY <1>5 DEF CrcInv
<1> QED BY <1>1, <1>2, <1>3, <1>4, <1>5 DEF Next, SaveStep, vars, EraseBlock, WriteBlock,
           WriteError, Reset, PowerCut, BitFlip
----------------------------------------------------------------------------
(* Two copies, and writes that fail. *)

\* The copy in use holds the last image that was saved with a right CRC.
KeptInv == saved /\ last.crc = last.data => LoadsValid(valid, last)

ChosenFact == \A c \in Copy, i \in Image : LoadsValid(c, i) => Chosen # 0

LEMMA ValidIsChosen == ASSUME Redundant PROVE NandType => ChosenFact
<1>1. \A f, g : SerialPick(f, g) # 0
  BY DEF SerialPick
<1>2. Copy = {1, 2}
  BY DEF Copy
<1> QED BY <1>1, <1>2, LoadFactsHold DEF LoadFacts, Chosen, ChosenFact

LEMMA ValidIsChosenPrime == ASSUME Redundant PROVE NandType' => ChosenFact'
<1>1. NandType => ChosenFact
  BY ValidIsChosen
<1> QED BY <1>1, PTL

LEMMA KeptStep ==
  ASSUME Redundant, "erase" \notin Faults, "flip" \notin Faults
  PROVE  TypeOK /\ OpOK /\ Progressing /\ KeptInv /\ [Next]_vars => KeptInv'
<1> SUFFICES ASSUME TypeOK, OpOK, Progressing, KeptInv, [Next]_vars PROVE KeptInv'
  OBVIOUS
<1>1. NandType'
  BY TypeStep DEF TypeOK, NandType
<1>2. valid # Target /\ valid \in Copy
  BY CopiesSplit DEF TypeOK
<1>3. ASSUME UNCHANGED <<valid, bad, worn, saved, last>>, nand'[valid] = nand[valid] PROVE KeptInv'
  <2> PICK v : v = valid
    OBVIOUS
  <2> PICK i : i = last
    OBVIOUS
  <2>1. LoadsValid(v, i)' <=> LoadsValid(v, i)
    BY <1>3, LoadsFrame
  <2> QED BY <1>3, <2>1 DEF KeptInv
<1>4. ASSUME NEW n \in Name, NEW v \in Val, SetEnv(n, v) PROVE KeptInv'
  BY <1>3, <1>4 DEF SetEnv
<1>5. CASE SaveStart
  BY <1>3, <1>5 DEF SaveStart, TypeOK
<1>6. CASE EraseBlock
  <2>1. worn' = worn
    BY <1>6 DEF EraseBlock, Progressing
  <2>2. nand'[valid] = nand[valid]
    BY <1>2, <1>6 DEF EraseBlock, TypeOK
  <2> QED BY <1>3, <1>6, <2>1, <2>2 DEF EraseBlock
<1>7. CASE WriteBlock \/ WriteError
  <2>1. nand'[valid] = nand[valid]
    BY <1>2, <1>7 DEF WriteBlock, WriteError, TypeOK
  <2> QED BY <1>3, <1>7, <2>1 DEF WriteBlock, WriteError
<1>8. CASE SaveEnd
  <2>1. CASE op.amt = EnvBlocks
    <3>1. Loads(Target, mem) /\ valid' = Target /\ last' = mem
      BY <1>8, <2>1, Complete DEF SaveEnd, Progressing
    <3>2. \A c, i : Loads(c, i)' <=> Loads(c, i)
      BY <1>8, LoadsFrame DEF SaveEnd
    <3> QED BY <3>1, <3>2 DEF KeptInv, LoadsValid
  <2>2. CASE op.amt # EnvBlocks
    BY <1>3, <1>8, <2>2 DEF SaveEnd
  <2> QED BY <2>1, <2>2
<1>9. CASE Boot
  <2> SUFFICES ASSUME saved' PROVE LoadsValid(valid, last)'
    BY DEF KeptInv
  <2>1. Chosen' # 0 /\ last' = BootMem' /\ valid' = BootValid'
    BY <1>9 DEF Boot
  <2>2. Chosen' \in {1, 2} /\ last' = ImageAt(Chosen)' /\ LoadsValid(Chosen, ImageAt(Chosen))'
    BY <1>1, <2>1, BootTakesPrime DEF BootTakes, Copy
  <2>3. valid' = Chosen'
    BY <2>1, <2>2 DEF BootValid
  <2> QED BY <2>2, <2>3
<1>10. CASE UNCHANGED vars
  BY <1>3, <1>10 DEF vars
<1>11. \A c \in Copy, b \in Block : ~BitFlip(c, b)
  BY DEF BitFlip
<1> QED BY <1>4, <1>5, <1>6, <1>7, <1>8, <1>9, <1>10, <1>11 DEF Next, SaveStep, Reset, PowerCut

\* No step takes back that something has been saved: a boot in the middle of
\* a save still finds the copy in use.
LEMMA SavedStays ==
  ASSUME Redundant, "erase" \notin Faults, "flip" \notin Faults
  PROVE  TypeOK /\ CrcInv /\ KeptInv /\ NandType' /\ [Next]_vars => (saved => saved')
<1> SUFFICES ASSUME TypeOK, CrcInv, KeptInv, NandType', [Next]_vars, saved PROVE saved'
  OBVIOUS
<1>1. CASE Reset \/ PowerCut
  <2> PICK v, i : v = valid /\ i = last
    OBVIOUS
  <2>1. v \in Copy /\ i \in Image /\ LoadsValid(v, i)
    BY DEF TypeOK, CrcInv, KeptInv
  <2>2. bad' = bad /\ worn' = worn /\ nand'[v] = nand[v]
    <3>1. v # Target
      BY CopiesSplit DEF TypeOK
    <3> QED BY <1>1, <3>1 DEF Reset, PowerCut, TypeOK
  <2>3. LoadsValid(v, i)'
    BY <2>1, <2>2, LoadsFrame
  <2>4. Chosen' # 0
    BY <2>1, <2>3, ValidIsChosenPrime DEF ChosenFact
  <2> QED BY <1>1, <2>4 DEF Reset, PowerCut, Boot
<1>2. ASSUME ~Reset, ~PowerCut PROVE saved'
  BY <1>2 DEF Next, SaveStep, vars, SetEnv, SaveStart, EraseBlock, WriteBlock, SaveEnd,
              WriteError, BitFlip
<1> QED BY <1>1, <1>2

\* With two copies, a failing nand_write (whether or not it programmed the
\* block) and a power cut at any moment never lose both copies: from the first
\* completed saveenv on, every boot finds a valid one.  NoOverflow is needed:
\* two saves after a setenv that overflowed leave no right CRC.
THEOREM BackupAlwaysFound ==
  ASSUME Redundant, "erase" \notin Faults, "flip" \notin Faults, NoOverflow
  PROVE  Spec => BackupSurvives
<1> DEFINE J == TypeOK /\ OpOK /\ Progressing /\ CrcInv /\ KeptInv
<1>1. Init => J
  <2>1. Init => KeptInv
    BY DEF Init, KeptInv
  <2> QED BY <2>1, TypeInit, OpInit, ProgressInit, CrcInit
<1>2. J /\ [Next]_vars => J' /\ (saved => saved')
  <2> SUFFICES ASSUME J, [Next]_vars PROVE J' /\ (saved => saved')
    OBVIOUS
  <2>1. TypeOK' /\ OpOK' /\ Progressing' /\ KeptInv'
    BY TypeStep, OpStep, ProgressStep, KeptStep
  <2>2. NandType'
    BY <2>1 DEF TypeOK, NandType
  <2> QED BY <2>1, <2>2, CrcStep, SavedStays
<1>3. J => (saved => Chosen # 0)
  BY ValidIsChosen, TypeOKNandType DEF TypeOK, CrcInv, KeptInv, ChosenFact
<1> HIDE DEF J
<1> QED BY <1>1, <1>2, <1>3, PTL DEF Spec, BackupSurvives
----------------------------------------------------------------------------
(* What a boot loads depends on the NAND alone. *)

LEMMA BootSame ==
  ASSUME NandType, NandType', UNCHANGED <<nand, bad, worn>>
  PROVE  BootMem' = BootMem /\ Chosen' = Chosen
<1>1. \A c, i : LoadsValid(c, i)' <=> LoadsValid(c, i)
  BY LoadsFrame
<1>2. LoadFacts /\ LoadFacts' /\ BootTakes /\ BootTakes'
  BY LoadFactsHold, LoadFactsPrime, BootTakesHold, BootTakesPrime
<1>3. ASSUME NEW c \in Copy
      PROVE  (CrcOk(c)' <=> CrcOk(c)) /\ (CrcOk(c) => ImageAt(c)' = ImageAt(c))
  <2>1. CASE CrcOk(c)
    <3>1. ImageAt(c) \in Image /\ LoadsValid(c, ImageAt(c))
      BY <1>2, <2>1 DEF BootTakes
    <3> PICK i : i = ImageAt(c)
      OBVIOUS
    <3>2. i \in Image /\ LoadsValid(c, i)'
      BY <1>1, <3>1
    <3> QED BY <1>2, <2>1, <3>2 DEF LoadFacts
  <2>2. CASE CrcOk(c)'
    <3>1. ImageAt(c)' \in Image /\ LoadsValid(c, ImageAt(c))'
      BY <1>2, <2>2 DEF BootTakes
    <3> PICK i : i = ImageAt(c)'
      OBVIOUS
    <3>2. i \in Image /\ LoadsValid(c, i)
      BY <1>1, <3>1
    <3>3. CrcOk(c)
      BY <1>2, <3>2 DEF LoadFacts
    <3> QED BY <2>1, <3>3
  <2> QED BY <2>1, <2>2
<1>4. ReadFails(1)' <=> ReadFails(1)
  BY GeometryFrame DEF ReadFails
<1>5. Redundant => 2 \in Copy
  BY DEF Copy
<1>6. 1 \in Copy
  BY DEF Copy
<1>7. Chosen' = Chosen
  BY <1>3, <1>4, <1>5, <1>6 DEF Chosen
<1> QED BY <1>2, <1>3, <1>7 DEF BootTakes
----------------------------------------------------------------------------
(* One copy. *)

\* While the only copy is being rewritten nothing is promised.
PromiseInv == op # Idle => ~saved

\* The blocks writeenv has passed hold their chunk, unless they were
\* programmed over old contents.
StoredInv == op.st = "write" =>
    /\ op.amt = Pos(Target, op.blk)
    /\ op.amt > 0 => \E b \in Needed(Target) : Pos(Target, b) + 1 = op.amt
    /\ \A b \in Block \ bad[Target] :
         b < op.blk => nand[Target][b] \in {Chunk(mem, Pos(Target, b)), Garbage}

LEMMA StoredWriteBlock ==
  ASSUME TypeOK, StoredInv, WriteBlock
  PROVE  StoredInv'
<1> DEFINE t == Target
<1>1. op.st = "write" /\ op.blk \in Block /\ op.amt < EnvBlocks
  BY ParamAssumption DEF WriteBlock, Writing, TypeOK, Block
<1>2. UNCHANGED <<mem, valid, bad>> /\ Target' = Target
  BY DEF WriteBlock, Target
<1>3. t \in Copy
  BY TargetType DEF TypeOK
<1>4. /\ op.amt = Pos(t, op.blk)
      /\ op.amt > 0 => \E b \in Needed(t) : Pos(t, b) + 1 = op.amt
      /\ \A b \in Block \ bad[t] : b < op.blk => nand[t][b] \in {Chunk(mem, Pos(t, b)), Garbage}
  BY <1>1 DEF StoredInv
<1>5. op'.st = "write" /\ op'.blk = op.blk + 1
  BY DEF WriteBlock, IsBad, NextBlock
<1>6. /\ op'.amt = Pos(t, op.blk + 1)
      /\ op'.amt > 0 => \E b \in Needed(t) : Pos(t, b) + 1 = op'.amt
      /\ \A b \in Block \ bad[t] :
           b < op.blk + 1 => nand'[t][b] \in {Chunk(mem, Pos(t, b)), Garbage}
  <2>1. CASE op.blk \in bad[t]
    <3>1. nand' = nand /\ op'.amt = op.amt
      BY <2>1 DEF WriteBlock, IsBad, NextBlock
    <3>2. Pos(t, op.blk + 1) = op.amt
      BY <1>1, <1>4, <2>1, PosStep
    <3>3. \A b \in Block \ bad[t] : b < op.blk + 1 <=> b < op.blk
      BY <1>1, <2>1, ParamAssumption DEF Block
    <3> QED BY <1>4, <3>1, <3>2, <3>3
  <2>2. CASE op.blk \notin bad[t]
    <3>1. op'.amt = op.amt + 1
      BY <2>2 DEF WriteBlock, IsBad, NextBlock
    <3>2. nand' = [nand EXCEPT ![t][op.blk] = Programmed(nand[t][op.blk], mem, op.amt)]
      BY <2>2 DEF WriteBlock, IsBad, NextBlock
    <3>3. Pos(t, op.blk + 1) = op.amt + 1
      BY <1>1, <1>4, <2>2, PosStep
    <3>4. op.blk \in Needed(t) /\ Pos(t, op.blk) + 1 = op'.amt
      BY <1>1, <1>4, <2>2, <3>1 DEF Needed
    <3>5. ASSUME NEW b \in Block \ bad[t], b < op.blk + 1
          PROVE  nand'[t][b] \in {Chunk(mem, Pos(t, b)), Garbage}
      <4>1. CASE b = op.blk
        <5>1. nand'[t][b] = Programmed(nand[t][b], mem, op.amt)
          BY <1>1, <1>3, <3>2, <4>1 DEF TypeOK
        <5> QED BY <1>4, <4>1, <5>1 DEF Programmed
      <4>2. CASE b # op.blk
        <5>1. nand'[t][b] = nand[t][b]
          BY <1>3, <3>2, <4>2 DEF TypeOK
        <5>2. b < op.blk
          BY <1>1, <3>5, <4>2, ParamAssumption DEF Block
        <5> QED BY <1>4, <5>1, <5>2
      <4> QED BY <4>1, <4>2
    <3> QED BY <3>1, <3>3, <3>4, <3>5
  <2> QED BY <2>1, <2>2
<1>7. (\A b : Pos(t, b)' = Pos(t, b)) /\ Needed(t)' = Needed(t)
  BY <1>2, GeometryFrame
<1> QED BY <1>2, <1>5, <1>6, <1>7 DEF StoredInv

\* When writeenv has stored everything and every block can be read, the copy
\* holds the image in RAM.
LEMMA StoredComplete ==
  ASSUME TypeOK, StoredInv, op.st = "write", op.amt = EnvBlocks, Readable(Target)
  PROVE  Loads(Target, mem)
<1> DEFINE t == Target
<1>1. /\ EnvBlocks = Pos(t, op.blk)
      /\ \E b \in Needed(t) : Pos(t, b) + 1 = EnvBlocks
      /\ \A b \in Block \ bad[t] : b < op.blk => nand[t][b] \in {Chunk(mem, Pos(t, b)), Garbage}
  BY ParamAssumption DEF StoredInv
<1>2. ASSUME NEW b \in Needed(t)
      PROVE  nand[t][b] = Chunk(mem, Pos(t, b)) /\ <<t, b>> \notin worn
  <2>1. b \in Block /\ b \notin bad[t] /\ Pos(t, b) < EnvBlocks
    BY DEF Needed
  <2>2. ~(op.blk <= b)
    <3> SUFFICES ASSUME op.blk <= b PROVE FALSE
      OBVIOUS
    <3>1. op.blk \in 1..(EnvRange + 1) /\ b \in 1..(EnvRange + 1)
      BY <2>1, ParamAssumption DEF TypeOK, Block
    <3>2. Pos(t, op.blk) <= Pos(t, b)
      BY <3>1, PosMonotone
    <3>3. Pos(t, b) \in Nat
      BY PosFinite
    <3> QED BY <1>1, <2>1, <3>2, <3>3, ParamAssumption
  <2>3. b < op.blk
    BY <2>1, <2>2, ParamAssumption DEF TypeOK, Block
  <2>4. nand[t][b] # Garbage /\ <<t, b>> \notin worn
    BY <2>1 DEF Readable
  <2> QED BY <1>1, <2>1, <2>3, <2>4
<1> QED BY <1>1, <1>2 DEF Loads, Fits

SingleInv == PromiseInv /\ StoredInv /\ SavedIsLoaded

LEMMA SingleStep ==
  ASSUME ~Redundant
  PROVE  TypeOK /\ OpOK /\ CrcInv /\ SingleInv /\ NandType' /\ valid' \in Copy /\ [Next]_vars
         => SingleInv'
<1> SUFFICES ASSUME TypeOK, OpOK, CrcInv, SingleInv, NandType', valid' \in Copy, [Next]_vars
             PROVE  SingleInv'
  OBVIOUS
<1> USE DEF SingleInv
<1>1. NandType
  BY TypeOKNandType
<1>2. valid = 1 /\ valid' = 1 /\ Target = 1 /\ Target' = 1 /\ Copy = {1} /\ mem \in Image
  BY DEF Copy, Target, TypeOK
<1>3. ASSUME ~saved' PROVE PromiseInv' /\ SavedIsLoaded'
  BY <1>3 DEF PromiseInv, SavedIsLoaded
<1>4. ASSUME op'.st # "write" PROVE StoredInv'
  BY <1>4 DEF StoredInv
<1>5. Idle.st = "idle"
  BY DEF Idle
<1>6. ASSUME UNCHANGED <<nand, bad, worn, op, saved, last>>, op.st # "write" PROVE SingleInv'
  <2>1. BootMem' = BootMem
    BY <1>1, <1>6, BootSame
  <2>2. Readable(1)' <=> Readable(1)
    BY <1>6 DEF Readable
  <2> QED BY <1>2, <1>4, <1>6, <2>1, <2>2 DEF PromiseInv, SavedIsLoaded
<1>7. ASSUME NEW n \in Name, NEW v \in Val, SetEnv(n, v) PROVE SingleInv'
  BY <1>5, <1>6, <1>7 DEF SetEnv
<1>8. CASE SaveStart
  <2>1. op.st # "write" /\ op'.st # "write"
    BY <1>5, <1>8 DEF SaveStart
  <2> QED BY <1>3, <1>4, <1>6, <1>8, <2>1 DEF SaveStart
<1>9. CASE EraseBlock \/ WriteBlock \/ WriteError
  <2>1. op # Idle
    BY <1>5, <1>9 DEF EraseBlock, WriteBlock, WriteError, Writing
  <2>2. ~saved'
    BY <1>9, <2>1 DEF EraseBlock, WriteBlock, WriteError, PromiseInv
  <2>3. StoredInv'
    <3>1. CASE EraseBlock
      <4>1. CASE op.blk = EnvRange
        <5>1. op' = [st |-> "write", blk |-> 1, amt |-> 0] /\ bad' = bad
          BY <3>1, <4>1 DEF EraseBlock
        <5>2. Pos(1, 1)' = 0
          BY <5>1, PosFirst, GeometryFrame
        <5> QED BY <1>2, <5>1, <5>2, ParamAssumption DEF StoredInv, Block
      <4>2. CASE op.blk # EnvRange
        BY <1>4, <3>1, <4>2 DEF EraseBlock
      <4> QED BY <4>1, <4>2
    <3>2. CASE WriteBlock
      BY <3>2, StoredWriteBlock
    <3>3. CASE WriteError
      BY <1>4, <1>5, <3>3 DEF WriteError
    <3> QED BY <1>9, <3>1, <3>2, <3>3
  <2> QED BY <1>3, <2>2, <2>3
<1>10. CASE SaveEnd
  <2>1. op # Idle /\ op.st = "write" /\ StoredInv'
    BY <1>4, <1>5, <1>10 DEF SaveEnd
  <2>2. CASE op.amt # EnvBlocks
    <3>1. ~saved'
      BY <1>10, <2>1, <2>2 DEF SaveEnd, PromiseInv
    <3> QED BY <1>3, <2>1, <3>1
  <2>3. CASE op.amt = EnvBlocks
    <3>1. UNCHANGED <<nand, bad, worn>> /\ last' = mem /\ op' = Idle
      BY <1>10, <2>3 DEF SaveEnd
    <3>2. ASSUME Readable(1) PROVE BootMem = mem
      <4>1. Loads(1, mem)
        BY <1>2, <2>1, <2>3, <3>2, StoredComplete
      <4>2. CrcOk(1) /\ ImageAt(1) = mem
        BY <1>1, <1>2, <4>1, LoadFactsHold DEF LoadFacts, LoadsValid, CrcInv
      <4>3. ~ReadFails(1)
        BY <3>2, <4>1 DEF ReadFails, Readable, Loads, Needed
      <4> QED BY <4>2, <4>3 DEF BootMem, Chosen
    <3>3. BootMem' = BootMem
      BY <1>1, <3>1, BootSame
    <3>4. Readable(1)' <=> Readable(1)
      BY <3>1 DEF Readable
    <3> QED BY <1>2, <2>1, <3>1, <3>2, <3>3, <3>4 DEF SavedIsLoaded, PromiseInv
  <2> QED BY <2>2, <2>3
<1>11. CASE Boot
  BY <1>4, <1>5, <1>11 DEF Boot, PromiseInv, SavedIsLoaded
<1>12. ASSUME NEW c \in Copy, NEW b \in Block, BitFlip(c, b) PROVE SingleInv'
  <2>1. op = Idle /\ op' = op /\ worn' = worn \cup {<<1, b>>}
    BY <1>2, <1>12 DEF BitFlip
  <2>2. ~Readable(1)'
    BY <2>1 DEF Readable
  <2> QED BY <1>2, <1>4, <1>5, <2>1, <2>2 DEF PromiseInv, SavedIsLoaded
<1>13. CASE UNCHANGED vars
  <2>1. UNCHANGED <<mem, valid, nand, bad, worn, op, saved, last>>
    BY <1>13 DEF vars
  <2>2. Needed(1)' = Needed(1) /\ \A b : Pos(1, b)' = Pos(1, b)
    BY <2>1, GeometryFrame
  <2>3. StoredInv'
    BY <1>2, <2>1, <2>2 DEF StoredInv
  <2>4. BootMem' = BootMem
    BY <1>1, <2>1, BootSame
  <2>5. Readable(1)' <=> Readable(1)
    BY <2>1 DEF Readable
  <2> QED BY <1>2, <2>1, <2>3, <2>4, <2>5 DEF PromiseInv, SavedIsLoaded
<1> QED BY <1>7, <1>8, <1>9, <1>10, <1>11, <1>12, <1>13 DEF Next, SaveStep, Reset, PowerCut

\* The build of this board: what saveenv reported as saved is what the next
\* boot loads, also after saves in which erases and writes failed or the power
\* was cut, as long as no environment overflows (the run EnvStaleCrc shows
\* that it is not so when one does), the blocks it lies in were erased and
\* none of their bits has flipped.
THEOREM SavedLoadsAgain ==
  ASSUME ~Redundant, NoOverflow
  PROVE  Spec => []SavedIsLoaded
<1> DEFINE J == TypeOK /\ OpOK /\ CrcInv /\ SingleInv
<1>1. Init => J
  <2>1. Init => SingleInv
    BY DEF Init, SingleInv, PromiseInv, StoredInv, SavedIsLoaded, Idle
  <2> QED BY <2>1, TypeInit, OpInit, CrcInit
<1>2. J /\ [Next]_vars => J'
  <2> SUFFICES ASSUME J, [Next]_vars PROVE J'
    OBVIOUS
  <2>1. TypeOK' /\ OpOK'
    BY TypeStep, OpStep
  <2>2. NandType' /\ valid' \in Copy
    BY <2>1 DEF TypeOK, NandType
  <2>3. CrcInv'
    BY <2>2, CrcStep
  <2>4. SingleInv'
    BY <2>2, SingleStep
  <2> QED BY <2>1, <2>3, <2>4
<1>3. J => SavedIsLoaded
  BY DEF SingleInv
<1> HIDE DEF J
<1> QED BY <1>1, <1>2, <1>3, PTL DEF Spec
----------------------------------------------------------------------------
(* Two copies implement EnvStore.                                          *)

\* A boot loads image i of copy v if a valid image in the other copy is older,
\* and the default environment if neither is valid.
PickFacts ==
    /\ \A v \in Copy, i \in Image :
         /\ LoadsValid(v, i)
         /\ \A c \in Copy \ {v}, j \in Image : LoadsValid(c, j) => i.flags = Succ(j.flags)
         => BootMem = i
    /\ (\A c \in Copy, j \in Image : ~LoadsValid(c, j)) => BootMem = DefaultImage

LEMMA SuccTwice ==
  ASSUME NEW f \in 0..(FlagMod - 1), NEW g \in 0..(FlagMod - 1), f = Succ(g), g = Succ(f)
  PROVE  FALSE
<1>1. \A h \in 0..(FlagMod - 1) : Succ(h) = IF h = FlagMod - 1 THEN 0 ELSE h + 1
  BY ParamAssumption DEF Succ
<1> QED BY <1>1, ParamAssumption

LEMMA PickFactsHold ==
  ASSUME Redundant
  PROVE  NandType => PickFacts
<1> SUFFICES ASSUME NandType PROVE PickFacts
  OBVIOUS
<1>1. LoadFacts /\ Copy = {1, 2}
  BY LoadFactsHold DEF Copy
<1>2. ASSUME NEW v \in Copy, NEW i \in Image, LoadsValid(v, i),
             \A c \in Copy \ {v}, j \in Image : LoadsValid(c, j) => i.flags = Succ(j.flags)
      PROVE  BootMem = i
  <2>1. \A j \in Image : LoadsValid(v, j) => j = i
    BY <1>1, <1>2 DEF LoadFacts, LoadsValid
  <2>2. Adjacent
    BY <1>1, <1>2, <2>1 DEF Adjacent
  <2>3. BootFacts
    BY <2>2, BootFactsHold
  <2>4. Chosen # 0 /\ Chosen \in Copy /\ BootMem \in Image /\ LoadsValid(Chosen, BootMem)
    BY <1>2, <2>3 DEF BootFacts
  <2>5. CASE Chosen = v
    BY <2>1, <2>4, <2>5
  <2>6. CASE Chosen # v
    <3>1. BootMem.flags = Succ(i.flags)
      BY <1>2, <2>3, <2>4, <2>6 DEF BootFacts
    <3>2. i.flags = Succ(BootMem.flags)
      BY <1>2, <2>4, <2>6
    <3>3. i.flags \in 0..(FlagMod - 1) /\ BootMem.flags \in 0..(FlagMod - 1)
      BY <2>4 DEF Image
    <3> QED BY <3>1, <3>2, <3>3, SuccTwice
  <2> QED BY <2>5, <2>6
<1>3. ASSUME \A c \in Copy, j \in Image : ~LoadsValid(c, j) PROVE BootMem = DefaultImage
  BY <1>3, BootTakesHold DEF BootTakes
<1> QED BY <1>2, <1>3 DEF PickFacts

LEMMA PickFactsPrime ==
  ASSUME Redundant
  PROVE  NandType' => PickFacts'
<1>1. NandType => PickFacts
  BY PickFactsHold
<1> QED BY <1>1, PTL

\* Until its last chunk is written the other copy holds no image.
LEMMA PartialLoads ==
  ASSUME TypeOK, WriteProgress, op.st = "write", op.amt < EnvBlocks, NEW i
  PROVE  ~Loads(Target, i)
<1> SUFFICES ASSUME Loads(Target, i) PROVE FALSE
  OBVIOUS
<1> DEFINE t == Target
<1>1. PICK b \in Needed(t) : Pos(t, b) + 1 = EnvBlocks
  BY DEF Loads, Fits
<1>2. nand[t][b] = Chunk(i, Pos(t, b)) /\ b \in Block \ bad[t]
  BY DEF Loads, Needed
<1>3. nand[t][b] # Erased
  BY <1>2 DEF Erased, Chunk
<1>4. b < op.blk
  BY <1>2, <1>3 DEF WriteProgress
<1>5. b + 1 \in 1..(EnvRange + 1) /\ op.blk \in 1..(EnvRange + 1) /\ b + 1 <= op.blk
  BY <1>2, <1>4, ParamAssumption DEF TypeOK, Block
<1>6. Pos(t, b + 1) <= Pos(t, op.blk)
  BY <1>5, PosMonotone
<1>7. Pos(t, b + 1) = EnvBlocks
  BY <1>1, <1>2, PosStep
<1>8. op.amt = Pos(t, op.blk) /\ Pos(t, op.blk) \in Nat
  BY PosFinite DEF WriteProgress
<1> QED BY <1>6, <1>7, <1>8, ParamAssumption

\* The stored environment is the last one reported, until the copy being
\* written is complete; then it is the one in RAM.
DiskFacts ==
    /\ op.st # "write" \/ op.amt < EnvBlocks => BootMem = last
    /\ op.st = "write" /\ op.amt = EnvBlocks => BootMem = mem

LEMMA DiskFactsHold ==
  ASSUME Redundant
  PROVE  TypeOK /\ SaveInv /\ CrcInv => DiskFacts
<1> SUFFICES ASSUME TypeOK, SaveInv, CrcInv PROVE DiskFacts
  OBVIOUS
<1>1. PickFacts /\ LoadFacts
  BY PickFactsHold, LoadFactsHold, TypeOKNandType
<1>2. Copy = {valid, Target} /\ valid # Target /\ mem \in Image /\ last \in Image
  BY CopiesSplit DEF TypeOK
<1>3. worn = {} /\ WriteProgress
  BY DEF SaveInv
<1>4. ASSUME op.st # "write" \/ op.amt < EnvBlocks PROVE BootMem = last
  <2>1. \A j \in Image : LoadsValid(Target, j) => saved /\ last.flags = Succ(j.flags)
    BY <1>3, <1>4, PartialLoads DEF SaveInv, SerialInv, LoadsValid
  <2>2. CASE saved
    <3>1. LoadsValid(valid, last)
      BY <2>2 DEF SaveInv, ActiveInv, LoadsValid, CrcInv
    <3> QED BY <1>1, <1>2, <2>1, <3>1 DEF PickFacts
  <2>3. CASE ~saved
    <3>1. \A c \in Copy, j \in Image : ~LoadsValid(c, j)
      BY <1>2, <2>1, <2>3 DEF SaveInv, ActiveInv
    <3> QED BY <1>1, <2>3, <3>1 DEF PickFacts, CrcInv
  <2> QED BY <2>2, <2>3
<1>5. ASSUME op.st = "write", op.amt = EnvBlocks PROVE BootMem = mem
  <2>1. Loads(Target, mem)
    BY <1>3, <1>5, Complete
  <2>2. LoadsValid(Target, mem) /\ Fits(Target) /\ op # Idle
    BY <1>5, <2>1 DEF LoadsValid, Loads, CrcInv, Idle
  <2>3. ASSUME NEW j \in Image, LoadsValid(valid, j) PROVE mem.flags = Succ(j.flags)
    <3>1. saved /\ Loads(valid, last)
      BY <2>3 DEF SaveInv, ActiveInv
    <3>2. j = last
      BY <1>1, <1>2, <2>3, <3>1 DEF LoadFacts, LoadsValid
    <3> QED BY <2>2, <3>1, <3>2 DEF SaveInv, SerialInv
  <2> QED BY <1>1, <1>2, <2>2, <2>3 DEF PickFacts
<1> QED BY <1>4, <1>5 DEF DiskFacts

LEMMA DiskFactsPrime ==
  ASSUME Redundant
  PROVE  TypeOK' /\ SaveInv' /\ CrcInv' => DiskFacts'
<1>1. TypeOK /\ SaveInv /\ CrcInv => DiskFacts
  BY DiskFactsHold
<1> QED BY <1>1, PTL

\* A power cut changes nothing of what is stored.
LEMMA CutKeepsDisk ==
  ASSUME Redundant, TypeOK, SaveInv, CrcInv, NandType', PowerCut
  PROVE  BootMem' = BootMem
<1>1. UNCHANGED <<bad, worn>> /\ NandType
  BY TypeOKNandType DEF PowerCut
<1>2. CASE nand' = nand
  BY <1>1, <1>2, BootSame
<1>3. CASE /\ op.blk \in Block
           /\ op.st = "erase" \/ Writing
           /\ nand' = [nand EXCEPT ![Target][op.blk] = Garbage]
  <2>1. Copy = {valid, Target} /\ valid # Target /\ last \in Image
    BY CopiesSplit DEF TypeOK
  <2>2. BootMem = last /\ (op.st # "write" \/ op.amt < EnvBlocks)
    BY <1>3, DiskFactsHold DEF DiskFacts, Writing
  <2> PICK v : v = valid
    OBVIOUS
  <2> PICK t : t = Target
    OBVIOUS
  <2> PICK i : i = last
    OBVIOUS
  <2>3. nand'[v] = nand[v]
    BY <1>3, <2>1 DEF TypeOK
  <2>4. \A j : LoadsValid(v, j)' <=> LoadsValid(v, j)
    BY <1>1, <2>3, LoadsFrame
  <2>5. ASSUME NEW j \in Image, LoadsValid(t, j)' PROVE saved /\ i.flags = Succ(j.flags)
    <3>1. Loads(t, j)' /\ j.crc = j.data
      BY <2>5 DEF LoadsValid
    <3>2. Loads(t, j)
      BY <1>1, <1>3, <2>1, <3>1, LoadsSpoiled DEF SaveInv
    <3>3. LoadsValid(Target, j)
      BY <3>1, <3>2 DEF LoadsValid
    <3> QED BY <2>2, <3>2, <3>3, PartialLoads DEF SaveInv, SerialInv
  <2>6. PickFacts'
    BY PickFactsPrime
  <2>7. CASE saved
    <3>1. LoadsValid(v, i)'
      BY <2>4, <2>7 DEF SaveInv, ActiveInv, LoadsValid, CrcInv
    <3>2. BootMem' = i
      BY <2>1, <2>5, <2>6, <3>1 DEF PickFacts
    <3> QED BY <2>2, <3>2
  <2>8. CASE ~saved
    <3>1. \A c \in Copy, j \in Image : ~LoadsValid(c, j)'
      BY <2>1, <2>4, <2>5, <2>8 DEF SaveInv, ActiveInv
    <3>2. BootMem' = DefaultImage
      BY <2>6, <3>1 DEF PickFacts
    <3> QED BY <2>2, <2>8, <3>2 DEF CrcInv
  <2> QED BY <2>7, <2>8
<1> QED BY <1>2, <1>3 DEF PowerCut

LEMMA StoreInit == ASSUME Redundant PROVE Init => Store!Init
<1> SUFFICES ASSUME Init PROVE Store!Init
  OBVIOUS
<1>1. op.st # "write" /\ mem = DefaultImage /\ last = DefaultImage
  BY DEF Init, Idle
<1>2. BootMem = last
  BY <1>1, TypeInit, SaveInvInit, CrcInit, DiskFactsHold DEF DiskFacts
<1> QED BY <1>1, <1>2 DEF Store!Init, DefaultImage

LEMMA StoreStep ==
  ASSUME Redundant, Faults \subseteq {"power"}
  PROVE  /\ TypeOK /\ OpOK /\ SaveInv /\ CrcInv
         /\ TypeOK' /\ SaveInv' /\ CrcInv' /\ [Next]_vars
         => [Store!Next]_(Store!vars)
<1> SUFFICES ASSUME TypeOK, OpOK, SaveInv, CrcInv, TypeOK', SaveInv', CrcInv', [Next]_vars
             PROVE  Store!Next \/ UNCHANGED <<mem.data, BootMem.data, last.data>>
  BY DEF Store!vars
<1>1. NandType /\ NandType' /\ DiskFacts /\ DiskFacts'
  BY DiskFactsHold, DiskFactsPrime DEF TypeOK, NandType
<1>2. ASSUME UNCHANGED <<nand, bad, worn>> PROVE BootMem' = BootMem
  BY <1>1, <1>2, BootSame
<1>3. ASSUME NEW n \in Name, NEW v \in Val, SetEnv(n, v) PROVE Store!Next
  <2>1. mem'.data \in Data
    BY DEF TypeOK, Image
  <2> QED BY <1>2, <1>3, <2>1 DEF SetEnv, Store!Next, Store!Edit
<1>4. CASE SaveStart
  <2>1. mem'.data = mem.data
    BY <1>4 DEF SaveStart, BumpFlags, TypeOK, Image
  <2> QED BY <1>2, <1>4, <2>1 DEF SaveStart
<1>5. CASE EraseBlock
  <2>1. op.st # "write" /\ (op'.st # "write" \/ op'.amt < EnvBlocks)
    BY <1>5, ParamAssumption DEF EraseBlock
  <2> QED BY <1>1, <1>5, <2>1 DEF EraseBlock, DiskFacts
<1>6. CASE WriteBlock
  <2>1. op.st = "write" /\ op.amt < EnvBlocks /\ op'.st = "write" /\ op'.amt \in 0..EnvBlocks
    BY <1>6 DEF WriteBlock, Writing, TypeOK
  <2>2. op'.amt < EnvBlocks \/ op'.amt = EnvBlocks
    BY <2>1, ParamAssumption
  <2> QED BY <1>1, <1>6, <2>1, <2>2 DEF WriteBlock, DiskFacts, Store!Next, Store!Commit
<1>7. CASE SaveEnd
  <2>1. BootMem' = BootMem /\ mem' = mem
    BY <1>2, <1>7 DEF SaveEnd
  <2>2. CASE op.amt = EnvBlocks
    BY <1>1, <1>7, <2>1, <2>2 DEF SaveEnd, DiskFacts, Store!Next, Store!Ack
  <2>3. CASE op.amt # EnvBlocks
    BY <1>7, <2>1, <2>3 DEF SaveEnd
  <2> QED BY <2>2, <2>3
<1>8. ASSUME Boot, BootMem' = BootMem PROVE Store!Next
  BY <1>8 DEF Boot, Store!Next, Store!Restart
<1>9. CASE Reset
  BY <1>2, <1>8, <1>9 DEF Reset
<1>10. CASE PowerCut
  BY <1>1, <1>8, <1>10, CutKeepsDisk DEF PowerCut
<1>11. CASE UNCHANGED vars
  BY <1>2, <1>11 DEF vars
<1>12. ~WriteError /\ \A c \in Copy, b \in Block : ~BitFlip(c, b)
  BY DEF WriteError, BitFlip
<1> QED BY <1>3, <1>4, <1>5, <1>6, <1>7, <1>9, <1>10, <1>11, <1>12 DEF Next, SaveStep

\* With two copies saveenv is an atomic update of persistent storage at every
\* moment, power cuts included, for every layout of bad blocks.
THEOREM SaveIsAtomic ==
  ASSUME Redundant, Faults \subseteq {"power"}, NoOverflow
  PROVE  Spec => StoreSpec
<1> DEFINE J == TypeOK /\ OpOK /\ SaveInv /\ CrcInv
<1>1. Init => J /\ Store!Init
  BY TypeInit, OpInit, SaveInvInit, CrcInit, StoreInit
<1>2. J /\ [Next]_vars => J'
  <2> SUFFICES ASSUME J, [Next]_vars PROVE J'
    OBVIOUS
  <2>1. TypeOK' /\ OpOK' /\ SaveInv'
    BY TypeStep, OpStep, SaveInvStep
  <2>2. NandType'
    BY <2>1 DEF TypeOK, NandType
  <2> QED BY <2>1, <2>2, CrcStep
<1>3. J /\ J' /\ [Next]_vars => [Store!Next]_(Store!vars)
  BY StoreStep
<1> HIDE DEF J
<1> QED BY <1>1, <1>2, <1>3, PTL DEF Spec, StoreSpec, Store!Spec
=============================================================================
