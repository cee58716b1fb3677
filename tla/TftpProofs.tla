----------------------------- MODULE TftpProofs -----------------------------
(***************************************************************************)
(* Proofs about Tftp, for every file, block size, timeout count, netretry  *)
(* and any number of lost, repeated and late packets and restarts.         *)
(***************************************************************************)
EXTENDS Tftp, TLAPS

\* The source port changes with every attempt, and the file is short enough for the
\* block numbers not to start again: 32 MB with blocks of 512 bytes.
Separate == ~FixedPort /\ \A n \in ServerSizes : FileLen < (SeqSize - 1) * n

Session == [port : Nat, live : BOOLEAN, blk : Nat, size : {DefBlk, OptBlk}]
Bytes == 0..(FileLen - 1)
----------------------------------------------------------------------------
(* The inductive invariant for TypeOK: acknowledgements go to transfers    *)
(* that exist.                                                             *)

Addressed ==
    /\ TftpState # "rrq" => TftpServerPort \in ServerPorts
    /\ \A m \in toServer : m.type = "ack" => m.dst \in ServerPorts

TypeInv == TypeOK /\ Addressed
----------------------------------------------------------------------------
(* The inductive invariant for the contents of memory.                     *)

\* Block b in blocks of n units is in memory.
Has(b, n) == \A i \in Bytes : Off(b, n) <= i /\ i < Off(b, n) + n => i \in DOMAIN ram

\* What is in memory is the file's, in its place.
RamInv ==
    /\ DOMAIN ram \subseteq Bytes /\ \A i \in DOMAIN ram : ram[i] = i
    /\ NetBootFileXferSize <= FileLen

\* Every transfer of the server: what it is past is in memory, it never goes past
\* the end, and only the one the client has chosen goes on in this attempt.
SessInv(s) ==
    /\ sess[s].port <= TftpOurPort
    /\ sess[s].size \in ServerSizes
    /\ Off(sess[s].blk, sess[s].size) <= FileLen
    /\ \A i \in Bytes : i < Off(sess[s].blk, sess[s].size) => i \in DOMAIN ram
    /\ sess[s].port = TftpOurPort /\ (TftpState = "rrq" \/ s # TftpServerPort)
         => sess[s].blk \in Starts(sess[s].size)

\* A packet of the server carries a block it has sent.
ToClientInv(m) ==
    /\ m.dst = sess[m.src].port
    /\ m.type = "oack" => m.len = IF sess[m.src].size = OptBlk THEN OptBlk ELSE 0
    /\ m.type = "data" =>
         /\ 1 <= m.seq /\ m.seq <= sess[m.src].blk
         /\ m.off = Off(m.seq, sess[m.src].size)
         /\ m.len = BlkLen(m.seq, sess[m.src].size)

\* An acknowledgement is for a block in memory, unless the attempt has failed.
ToServerInv(m) ==
    /\ m.src <= TftpOurPort
    /\ m.type = "ack" =>
         /\ m.src = TftpOurPort => TftpState # "rrq" /\ m.dst = TftpServerPort
         /\ m.seq = 0 \/ Has(m.seq, sess[m.dst].size) \/ NetState = "fail"

\* The client: its block size is the server's, and the blocks it remembers are in
\* memory while it listens.
ClientInv ==
    /\ TftpState = "rrq" => TftpBlock = 0 /\ TftpBlkSize = DefBlk
    /\ TftpState # "rrq" =>
         /\ sess[TftpServerPort].port = TftpOurPort
         /\ sess[TftpServerPort].size = TftpBlkSize
    /\ TftpState # "rrq" /\ packetHandler = "tftp" /\ NetState # "fail" =>
         TftpBlock = 0 \/ Has(TftpBlock, TftpBlkSize)
    /\ TftpState = "data" =>
         /\ TftpBlockWrapOffset = 0
         /\ TftpLastBlock = 0 \/ Has(TftpLastBlock, TftpBlkSize)

\* NetStartAgain: the timer belongs to the handler, and a failure is final.
TimerInv ==
    /\ packetHandler = "tftp" => timeHandler # "again"
    /\ packetHandler = "ignore" => timeHandler # "tftp"
    /\ NetState = "fail" => packetHandler = "tftp" /\ NetTryCount >= retrycnt

SuccessInv ==
    NetState = "success" \/ ret = "ok" =>
        Bytes \subseteq DOMAIN ram /\ NetBootFileXferSize = FileLen

Inv ==
    /\ TypeInv /\ RamInv /\ ClientInv /\ TimerInv /\ SuccessInv
    /\ \A s \in ServerPorts : SessInv(s)
    /\ \A m \in toClient : ToClientInv(m)
    /\ \A m \in toServer : ToServerInv(m)
----------------------------------------------------------------------------
(* Arithmetic of blocks. *)

LEMMA BlockSizes ==
  /\ DefBlk \in Nat \ {0} /\ OptBlk \in Nat \ {0} /\ FileLen \in Nat
  /\ SeqSize \in Nat /\ SeqSize >= 2 /\ ServerSizes \subseteq {DefBlk, OptBlk}
  /\ \A b \in Nat : b % SeqSize \in 0..(SeqSize - 1)
BY TftpAssumption

LEMMA TimesType == \A a, n \in Nat : a * n \in Nat
OBVIOUS

LEMMA OffFacts ==
  ASSUME NEW b \in Nat, NEW n \in Nat \ {0}
  PROVE  /\ Off(b, n) \in Int /\ Off(b + 1, n) = Off(b, n) + n
         /\ b # 0 => Off(b, n) \in Nat
         /\ Off(1, n) = 0 /\ Off(0, n) = -n
         /\ Off(b, n) = b * n - n
BY DEF Off

LEMMA BlkLenFacts ==
  ASSUME NEW b \in Nat \ {0}, NEW n \in Nat \ {0}
  PROVE  BlkLen(b, n) \in Nat /\ BlkLen(b, n) <= n
<1> DEFINE o == Off(b, n)
<1>1. o \in Nat
  BY OffFacts
<1> HIDE DEF o
<1>2. (IF o >= FileLen THEN 0 ELSE IF FileLen - o < n THEN FileLen - o ELSE n) \in Nat
  BY <1>1, BlockSizes
<1>3. (IF o >= FileLen THEN 0 ELSE IF FileLen - o < n THEN FileLen - o ELSE n) <= n
  BY <1>1, BlockSizes
<1> QED BY <1>2, <1>3 DEF BlkLen, o
----------------------------------------------------------------------------
(* Types. *)

TransferType ==
    /\ TftpState \in {"rrq", "oack", "data"}
    /\ TftpServerPort \in {0} \cup ServerPorts
    /\ TftpBlock \in 0..(SeqSize - 1) /\ TftpLastBlock \in 0..(SeqSize - 1)
    /\ TftpBlockWrapOffset \in Nat /\ TftpBlkSize \in {DefBlk, OptBlk}
CountType == TftpTimeoutCountMax \in {RRQCountMax, CountMax} /\ TftpTimeoutCount \in Nat
LoopType ==
    /\ NetState \in {"continue", "restart", "success", "fail"}
    /\ NetTryCount \in {1} \cup 1..retrycnt
    /\ packetHandler \in {"tftp", "ignore"}
    /\ timeHandler \in {"none", "tftp", "again"}
MemoryType ==
    /\ NetBootFileXferSize \in Nat
    /\ DOMAIN ram \subseteq Nat /\ \A i \in DOMAIN ram : ram[i] \in Nat
PassType == TftpOurPort \in Nat /\ pass \in {"rx", "switch"} /\ ret \in {"running", "ok", "fail"}
SentType ==
    /\ toServer \subseteq ClientPkt
    /\ \A m \in toServer : m.type = "ack" => m.dst \in ServerPorts
    /\ TftpState # "rrq" => TftpServerPort \in ServerPorts
ServerType == toClient \subseteq ServerPkt /\ sess \in Seq(Session)
FaultType == lost \in 0..MaxLoss /\ dups \in 0..MaxDup /\ errs \in 0..MaxErr

LEMMA TypeParts ==
  TypeInv <=> /\ TransferType /\ CountType /\ LoopType /\ MemoryType
              /\ PassType /\ SentType /\ ServerType /\ FaultType
BY DEF TypeInv, TypeOK, Addressed, TransferType, CountType, LoopType, MemoryType,
       PassType, SentType, ServerType, FaultType, Session

LEMMA SendType ==
  ASSUME TftpOurPort \in Nat, NEW st, NEW srv \in {0} \cup ServerPorts,
         NEW blk \in 0..(SeqSize - 1)
  PROVE  /\ TftpSend(st, srv, blk) \in ClientPkt
         /\ st # "rrq" /\ srv \in ServerPorts => TftpSend(st, srv, blk).dst \in ServerPorts
         /\ st = "rrq" => TftpSend(st, srv, blk).type # "ack"
<1>1. 0 \in 0..(SeqSize - 1)
  BY BlockSizes
<1> QED BY <1>1 DEF TftpSend, Rrq, Ack, ClientPkt

LEMMA OutstandingType ==
  ASSUME NEW s \in ServerPorts, NEW x \in Session
  PROVE  Outstanding(s, x) \in ServerPkt
<1>1. CASE x.blk = 0
  <2>1. /\ 0 \in 0..(SeqSize - 1) /\ 0 \in Nat
        /\ (IF x.size = OptBlk THEN OptBlk ELSE 0) \in Nat
    BY BlockSizes
  <2> QED BY <1>1, <2>1 DEF Outstanding, ToClient, ServerPkt, Session
<1>2. CASE x.blk # 0
  <2> DEFINE q == x.blk % SeqSize
             o == Off(x.blk, x.size)
             l == BlkLen(x.blk, x.size)
  <2>1. x.blk \in Nat \ {0} /\ x.size \in Nat \ {0} /\ x.port \in Nat
    BY <1>2, BlockSizes DEF Session
  <2>2. q \in 0..(SeqSize - 1) /\ o \in Nat /\ l \in Nat
    BY <2>1, BlockSizes, OffFacts, BlkLenFacts
  <2> HIDE DEF q, o, l
  <2>3. ToClient("data", s, x.port, q, o, l) \in ServerPkt
    BY <2>1, <2>2 DEF ToClient, ServerPkt
  <2> QED BY <1>2, <2>3 DEF Outstanding, q, o, l
<1> QED BY <1>1, <1>2

\* The same in the next state.
OutstandingTyped == \A s \in ServerPorts, x \in Session : Outstanding(s, x) \in ServerPkt

LEMMA OutstandingNext == OutstandingTyped'
<1>1. OutstandingTyped
  BY OutstandingType DEF OutstandingTyped
<1> QED BY <1>1, PTL

LEMMA InitTypes == Init => TypeInv
<1> SUFFICES ASSUME Init PROVE TypeInv
  OBVIOUS
<1>1. toServer \subseteq ClientPkt /\ \A m \in toServer : m.type # "ack"
  BY BlockSizes DEF Init, Rrq, ClientPkt
<1>2. 0 \in 0..(SeqSize - 1) /\ 0 \in 0..MaxLoss /\ 0 \in 0..MaxDup /\ 0 \in 0..MaxErr
  BY TftpAssumption
<1>3. sess \in Seq([port : Nat, live : BOOLEAN, blk : Nat, size : {DefBlk, OptBlk}])
  BY DEF Init
<1>4. DOMAIN ram = {}
  BY DEF Init
<1> QED BY <1>1, <1>2, <1>3, <1>4 DEF Init, TypeInv, TypeOK, Addressed

\* NetStartAgain keeps its types whatever its caller left in timeHandler.
LEMMA StartAgainType ==
  ASSUME LoopType, NEW th \in {"none", "tftp", "again"}, NetStartAgain(th)
  PROVE  LoopType'
BY TftpAssumption DEF NetStartAgain, LoopType

LEMMA StoreType ==
  ASSUME MemoryType, NEW at \in Nat, NEW o \in Nat, NEW l \in Nat, store_block(at, o, l)
  PROVE  MemoryType'
<1> DEFINE range == at..(at + l - 1)
<1>1. range \subseteq Nat /\ \A i \in range : o + (i - at) \in Nat
  OBVIOUS
<1>2. NetBootFileXferSize' \in Nat
  BY DEF store_block, MemoryType
<1>3. ram' = [i \in DOMAIN ram \cup range |-> IF i \in range THEN o + (i - at) ELSE ram[i]]
  BY Zenon DEF store_block
<1> HIDE DEF range
<1>4. DOMAIN ram' = DOMAIN ram \cup range
  BY <1>3
<1>5. ASSUME NEW i \in DOMAIN ram \cup range
      PROVE  ram'[i] \in Nat
  BY <1>1, <1>3 DEF MemoryType
<1> QED BY <1>1, <1>2, <1>4, <1>5 DEF MemoryType

LEMMA OffsetType ==
  ASSUME TransferType, NEW n \in 0..(SeqSize - 1), First => n = 1
  PROVE  WrapOffset(n) \in Nat /\ Offset(n, WrapOffset(n)) \in Nat
<1>0. TftpBlkSize \in Nat \ {0} /\ TftpBlockWrapOffset \in Nat /\ SeqSize \in Nat /\ SeqSize >= 2
  BY BlockSizes DEF TransferType
<1>1. TftpBlkSize * SeqSize \in Nat /\ TftpBlkSize * SeqSize >= TftpBlkSize
  <2>1. TftpBlkSize * SeqSize = TftpBlkSize * (SeqSize - 1) + TftpBlkSize
    BY <1>0
  <2>2. TftpBlkSize * (SeqSize - 1) \in Nat
    BY <1>0, TimesType
  <2> QED BY <1>0, <2>1, <2>2
<1>2. n # 0 => n * TftpBlkSize - TftpBlkSize \in Nat
  <2> HAVE n # 0
  <2>1. n * TftpBlkSize = (n - 1) * TftpBlkSize + TftpBlkSize
    BY <1>0
  <2>2. (n - 1) * TftpBlkSize \in Nat
    BY <1>0, TimesType
  <2> QED BY <1>0, <2>1, <2>2
<1>3. n = 0 => n * TftpBlkSize = 0
  BY <1>0
<1>4. WrapOffset(n) \in Nat /\ (n = 0 => WrapOffset(n) >= TftpBlkSize)
  BY <1>0, <1>1 DEF WrapOffset
<1>5. n * TftpBlkSize \in Nat
  BY <1>0, TimesType
<1> QED BY <1>0, <1>2, <1>3, <1>4, <1>5 DEF Offset

LEMMA DataTypes ==
  ASSUME TypeInv, NEW m \in ServerPkt, Data(m), UNCHANGED <<TftpOurPort, sess>>
  PROVE  TransferType' /\ CountType' /\ LoopType' /\ MemoryType' /\ SentType'
<1>0. /\ TransferType /\ CountType /\ LoopType /\ MemoryType /\ PassType /\ SentType /\ ServerType
      /\ m.src \in ServerPorts /\ m.seq \in 0..(SeqSize - 1) /\ m.off \in Nat /\ m.len \in Nat
      /\ ServerPorts' = ServerPorts /\ ClientPkt' = ClientPkt
  BY TypeParts DEF ServerPkt, ClientPkt, ServerPorts
<1> DEFINE lastBlock == IF First THEN 0 ELSE TftpLastBlock
<1>1. lastBlock \in 0..(SeqSize - 1)
  BY <1>0, BlockSizes DEF TransferType
<1>2. WrapOffset(m.seq) \in Nat
  <2>1. TftpBlkSize * SeqSize \in Nat /\ TftpBlockWrapOffset \in Nat
    BY <1>0, BlockSizes, TimesType DEF TransferType
  <2> QED BY <2>1 DEF WrapOffset
<1>3. /\ TftpBlock' = m.seq /\ TftpState' = "data" /\ TftpServerPort' = m.src
      /\ TftpBlockWrapOffset' = WrapOffset(m.seq) /\ TftpBlkSize' = TftpBlkSize
      /\ TftpLastBlock' \in {lastBlock, m.seq}
  BY DEF Data
<1>4. TransferType'
  BY <1>0, <1>1, <1>2, <1>3 DEF TransferType
<1>5. CASE NetStartAgain(timeHandler) /\ UNCHANGED <<tmo, result, toServer>>
  <2>1. LoopType'
    BY <1>0, <1>5, StartAgainType DEF LoopType
  <2> QED BY <1>0, <1>3, <1>4, <1>5, <2>1 DEF CountType, MemoryType, SentType, tmo, result
<1>6. CASE UNCHANGED <<tmo, netloop, result, toServer>>
  BY <1>0, <1>3, <1>4, <1>6 DEF CountType, LoopType, MemoryType, SentType, tmo, result, netloop
<1>7. CASE /\ First => m.seq = 1
           /\ TftpTimeoutCountMax' = CountMax
           /\ timeHandler' = "tftp"
           /\ store_block(Offset(m.seq, WrapOffset(m.seq)), m.off, m.len)
           /\ toServer' = toServer \cup {TftpSend("data", m.src, m.seq)}
           /\ NetState' = IF m.len < TftpBlkSize THEN "success" ELSE NetState
           /\ UNCHANGED <<TftpTimeoutCount, NetTryCount, packetHandler>>
  <2>1. MemoryType'
    <3> DEFINE at == Offset(m.seq, WrapOffset(m.seq))
    <3>1. at \in Nat
      BY <1>0, <1>7, OffsetType
    <3> HIDE DEF at
    <3>2. store_block(at, m.off, m.len)
      BY <1>7 DEF at
    <3> QED BY <1>0, <3>1, <3>2, StoreType
  <2>2. CountType' /\ LoopType'
    BY <1>0, <1>7 DEF CountType, LoopType
  <2>3. SentType'
    <3> DEFINE a == TftpSend("data", m.src, m.seq)
    <3>1. a \in ClientPkt /\ a.dst \in ServerPorts
      BY <1>0, SendType DEF PassType
    <3> HIDE DEF a
    <3>2. toServer' = toServer \cup {a}
      BY <1>7 DEF a
    <3> QED BY <1>0, <1>3, <3>1, <3>2 DEF SentType
  <2> QED BY <1>4, <2>1, <2>2, <2>3
<1> QED BY <1>5, <1>6, <1>7 DEF Data

LEMMA ReceiveTypes ==
  ASSUME TypeInv, Receive
  PROVE  TypeInv'
<1>0. /\ TransferType /\ CountType /\ LoopType /\ MemoryType /\ PassType /\ SentType /\ ServerType
      /\ FaultType /\ UNCHANGED <<TftpOurPort, pass, ret, sess>>
  BY TypeParts DEF Receive
<1>1. PICK m \in toClient, dup \in BOOLEAN :
         /\ Deliver(m, dup)
         /\ \/ /\ packetHandler = "tftp" /\ ForUs(m)
               /\ \/ m.type = "oack" /\ Oack(m)
                  \/ m.type = "data" /\ Data(m)
                  \/ m.type = "error" /\ Error(m)
            \/ /\ packetHandler # "tftp" \/ ~ForUs(m)
               /\ UNCHANGED <<transfer, tmo, netloop, result, toServer>>
  BY Zenon DEF Receive
<1>2. /\ ServerPorts' = ServerPorts /\ ClientPkt' = ClientPkt /\ ServerPkt' = ServerPkt
      /\ m \in ServerPkt /\ m.src \in ServerPorts
  BY <1>0, <1>1 DEF ClientPkt, ServerPkt, ServerPorts, ServerType
<1>3. ServerType' /\ FaultType' /\ PassType'
  <2>1. toClient' \subseteq toClient /\ dups' \in 0..MaxDup /\ lost' = lost /\ errs' = errs
    BY <1>0, <1>1, TftpAssumption DEF Deliver, FaultType
  <2>2. ServerType'
    BY <1>0, <1>2, <2>1 DEF ServerType, Session
  <2> QED BY <1>0, <2>1, <2>2 DEF FaultType, PassType
<1>4. CASE Oack(m)
  <2> DEFINE a == TftpSend("oack", m.src, TftpBlock)
  <2>1. a \in ClientPkt /\ a.dst \in ServerPorts
    BY <1>0, <1>2, SendType DEF PassType, TransferType
  <2>2. toServer' = toServer \cup {a}
    BY <1>4 DEF Oack
  <2> HIDE DEF a
  <2>3. SentType'
    BY <1>0, <1>2, <1>4, <2>1, <2>2 DEF SentType, Oack
  <2>4. TransferType'
    BY <1>0, <1>2, <1>4 DEF TransferType, Oack
  <2>5. CountType' /\ LoopType' /\ MemoryType'
    BY <1>0, <1>4 DEF CountType, LoopType, MemoryType, Oack, tmo, netloop, result
  <2> QED BY <1>3, <2>3, <2>4, <2>5, TypeParts, PTL
<1>5. CASE Data(m)
  <2>1. TransferType' /\ CountType' /\ LoopType' /\ MemoryType' /\ SentType'
    BY <1>0, <1>2, <1>5, DataTypes
  <2> QED BY <1>3, <2>1, TypeParts, PTL
<1>6. CASE Error(m)
  <2>1. LoopType'
    BY <1>0, <1>6, StartAgainType DEF Error, LoopType
  <2>2. TransferType' /\ CountType' /\ MemoryType' /\ SentType'
    BY <1>0, <1>2, <1>6 DEF TransferType, CountType, MemoryType, SentType, Error,
                            transfer, tmo, result
  <2> QED BY <1>3, <2>1, <2>2, TypeParts, PTL
<1>7. CASE UNCHANGED <<transfer, tmo, netloop, result, toServer>>
  <2>1. TransferType' /\ CountType' /\ LoopType' /\ MemoryType' /\ SentType'
    BY <1>0, <1>2, <1>7 DEF TransferType, CountType, LoopType, MemoryType, SentType,
                            transfer, tmo, netloop, result
  <2> QED BY <1>3, <2>1, TypeParts, PTL
<1> QED BY <1>1, <1>4, <1>5, <1>6, <1>7

LEMMA TimeoutTypes ==
  ASSUME TypeInv, Timeout
  PROVE  TypeInv'
<1>0. /\ TransferType /\ CountType /\ LoopType /\ MemoryType /\ PassType /\ SentType /\ ServerType
      /\ FaultType /\ UNCHANGED <<transfer, TftpOurPort, TftpTimeoutCountMax, result, ret>>
      /\ UNCHANGED <<toClient, sess, faults>>
  BY TypeParts DEF Timeout
<1>1. /\ ServerPorts' = ServerPorts /\ ClientPkt' = ClientPkt /\ ServerPkt' = ServerPkt
  BY <1>0 DEF ClientPkt, ServerPkt, ServerPorts
<1>2. TransferType' /\ MemoryType' /\ PassType' /\ ServerType' /\ FaultType'
  BY <1>0, <1>1 DEF TransferType, MemoryType, PassType, ServerType, FaultType,
                    transfer, result, faults, Timeout
<1>3. CountType'
  BY <1>0 DEF CountType, Timeout
<1>4. LoopType' /\ SentType'
  <2>1. CASE NetStartAgain("none") /\ UNCHANGED toServer
    BY <1>0, <1>1, <2>1, StartAgainType DEF SentType, transfer
  <2>2. CASE /\ timeHandler' = "tftp"
             /\ toServer' = toServer \cup {TftpSend(TftpState, TftpServerPort, TftpBlock)}
             /\ UNCHANGED <<NetState, NetTryCount, packetHandler>>
    <3> DEFINE a == TftpSend(TftpState, TftpServerPort, TftpBlock)
    <3>1. a \in ClientPkt /\ (a.type = "ack" => a.dst \in ServerPorts)
      BY <1>0, SendType DEF PassType, TransferType, SentType
    <3> HIDE DEF a
    <3>2. toServer' = toServer \cup {a}
      BY <2>2 DEF a
    <3>3. SentType'
      BY <1>0, <1>1, <3>1, <3>2 DEF SentType, transfer
    <3> QED BY <1>0, <2>2, <3>3 DEF LoopType
  <2>3. CASE /\ NetState' = "restart"
             /\ timeHandler' = "none"
             /\ UNCHANGED <<NetTryCount, packetHandler, TftpTimeoutCount, toServer>>
    BY <1>0, <1>1, <2>3 DEF LoopType, SentType, transfer
  <2> QED BY <2>1, <2>2, <2>3 DEF Timeout, TftpTimeout
<1> QED BY <1>2, <1>3, <1>4, TypeParts, PTL

LEMMA SwitchTypes ==
  ASSUME TypeInv, LoopSwitch
  PROVE  TypeInv'
<1>0. /\ TransferType /\ CountType /\ LoopType /\ MemoryType /\ PassType /\ SentType /\ ServerType
      /\ FaultType /\ UNCHANGED <<toClient, sess, faults>> /\ pass' = "rx"
  BY TypeParts DEF LoopSwitch
<1>1. /\ ServerPorts' = ServerPorts /\ ClientPkt' = ClientPkt /\ ServerPkt' = ServerPkt
  BY <1>0 DEF ClientPkt, ServerPkt, ServerPorts
<1>2. ServerType' /\ FaultType'
  BY <1>0, <1>1 DEF ServerType, FaultType, faults
<1>3. CASE NetRestart(StartPort) /\ UNCHANGED <<NetTryCount, ram, ret>>
  <2>1. StartPort \in Nat /\ 0 \in 0..(SeqSize - 1)
    BY <1>0, BlockSizes DEF StartPort, PassType
  <2>2. Rrq(StartPort) \in ClientPkt /\ Rrq(StartPort).type = "rrq"
    BY <2>1 DEF Rrq, ClientPkt
  <2>3. TransferType' /\ CountType' /\ PassType'
    BY <1>0, <1>3, <2>1 DEF TransferType, CountType, PassType, NetRestart
  <2>4. LoopType' /\ MemoryType'
    BY <1>0, <1>3 DEF LoopType, MemoryType, NetRestart
  <2>5. SentType'
    BY <1>0, <1>1, <1>3, <2>2 DEF SentType, NetRestart
  <2> QED BY <1>2, <2>3, <2>4, <2>5, TypeParts, PTL
<1>4. CASE /\ ret' = IF NetState = "success" THEN "ok" ELSE "fail"
           /\ UNCHANGED <<transfer, TftpOurPort, tmo, netloop, result, toServer>>
  <2>1. TransferType' /\ CountType' /\ LoopType' /\ MemoryType' /\ SentType' /\ PassType'
    BY <1>0, <1>1, <1>4 DEF TransferType, CountType, LoopType, MemoryType, SentType, PassType,
                            transfer, tmo, netloop, result
  <2> QED BY <1>2, <2>1, TypeParts, PTL
<1> QED BY <1>3, <1>4 DEF LoopSwitch

LEMMA AbortTypes ==
  ASSUME TypeInv, Abort
  PROVE  TypeInv'
BY DEF Abort, TypeInv, TypeOK, Addressed, transfer, tmo, netloop, result, faults,
       ServerPorts, ClientPkt, ServerPkt

LEMMA StutterTypes ==
  ASSUME TypeInv, UNCHANGED vars
  PROVE  TypeInv'
BY DEF TypeInv, TypeOK, Addressed, vars, client, transfer, tmo, netloop, result, faults,
       ServerPorts, ClientPkt, ServerPkt

\* A step of the server or the network: transfers are only added.
LEMMA EnvTypes ==
  ASSUME TypeInv, UNCHANGED client, ServerPorts \subseteq ServerPorts', toServer' \subseteq toServer,
         sess' \in Seq(Session), FaultType',
         \A m \in toClient' : m \in toClient \/ m \in ServerPkt'
  PROVE  TypeInv'
<1>0. /\ TransferType /\ CountType /\ LoopType /\ MemoryType /\ PassType /\ SentType /\ ServerType
  BY TypeParts
<1>1. ClientPkt \subseteq ClientPkt' /\ ServerPkt \subseteq ServerPkt'
  BY DEF ClientPkt, ServerPkt
<1>2. TransferType' /\ CountType' /\ LoopType' /\ MemoryType' /\ PassType'
  BY <1>0 DEF TransferType, CountType, LoopType, MemoryType, PassType,
              client, transfer, tmo, netloop, result
<1>3. ServerType'
  BY <1>0, <1>1 DEF ServerType, Session
<1>4. SentType'
  BY <1>0, <1>1 DEF SentType, client, transfer
<1> QED BY <1>2, <1>3, <1>4, TypeParts, PTL

\* The new transfer of a request, and what becomes of the others.
LEMMA RequestFacts ==
  ASSUME TypeInv, ServerRequest
  PROVE  \E m \in toServer, n \in ServerSizes : \E b \in Starts(n) :
           LET x == [port |-> m.src, live |-> TRUE, size |-> n, blk |-> b] IN
           /\ m.type = "rrq" /\ x \in Session
           /\ sess' = Append(sess, x) /\ Len(sess') = Len(sess) + 1
           /\ sess' \in Seq(Session)
           /\ sess'[Len(sess) + 1] = x /\ \A s \in ServerPorts : sess'[s] = sess[s]
           /\ toClient' = toClient \cup {Outstanding(Len(sess) + 1, x)}
           /\ toServer' = toServer \ {m}
<1>0. SentType /\ ServerType
  BY TypeParts
<1>1. PICK m \in toServer, n \in ServerSizes : \E b \in Starts(n) :
         /\ m.type = "rrq"
         /\ LET x == [port |-> m.src, live |-> TRUE, size |-> n, blk |-> b]
            IN  /\ sess' = Append(sess, x)
                /\ toClient' = toClient \cup {Outstanding(Len(sess) + 1, x)}
         /\ toServer' = toServer \ {m}
  BY Zenon DEF ServerRequest
<1>b. PICK b \in Starts(n) :
         LET x == [port |-> m.src, live |-> TRUE, size |-> n, blk |-> b]
         IN  /\ sess' = Append(sess, x)
             /\ toClient' = toClient \cup {Outstanding(Len(sess) + 1, x)}
             /\ m.type = "rrq" /\ toServer' = toServer \ {m}
  BY <1>1, Zenon
<1> DEFINE x == [port |-> m.src, live |-> TRUE, size |-> n, blk |-> b]
<1>2. x \in Session
  BY <1>0, BlockSizes DEF Session, SentType, ClientPkt, Starts
<1>3. sess' = Append(sess, x) /\ toClient' = toClient \cup {Outstanding(Len(sess) + 1, x)}
  BY <1>b
<1> HIDE DEF x
<1>4. sess \in Seq(Session)
  BY <1>0 DEF ServerType
<1>5. /\ sess' \in Seq(Session) /\ Len(sess') = Len(sess) + 1
      /\ sess'[Len(sess) + 1] = x /\ \A s \in 1..Len(sess) : sess'[s] = sess[s]
  BY <1>2, <1>3, <1>4
<1>6. /\ m.type = "rrq" /\ x \in Session
      /\ sess' = Append(sess, x) /\ Len(sess') = Len(sess) + 1
      /\ sess' \in Seq(Session)
      /\ sess'[Len(sess) + 1] = x /\ \A s \in ServerPorts : sess'[s] = sess[s]
      /\ toClient' = toClient \cup {Outstanding(Len(sess) + 1, x)}
      /\ toServer' = toServer \ {m}
  BY <1>b, <1>2, <1>3, <1>5, Zenon DEF ServerPorts
<1> QED BY <1>6, Zenon DEF x

LEMMA RequestTypes ==
  ASSUME TypeInv, ServerRequest
  PROVE  TypeInv'
<1>1. PICK m \in toServer, n \in ServerSizes : \E b \in Starts(n) :
           LET x == [port |-> m.src, live |-> TRUE, size |-> n, blk |-> b] IN
           /\ m.type = "rrq" /\ x \in Session
           /\ sess' = Append(sess, x) /\ Len(sess') = Len(sess) + 1
           /\ sess' \in Seq(Session)
           /\ sess'[Len(sess) + 1] = x /\ \A s \in ServerPorts : sess'[s] = sess[s]
           /\ toClient' = toClient \cup {Outstanding(Len(sess) + 1, x)}
           /\ toServer' = toServer \ {m}
  BY RequestFacts
<1>3. PICK x \in Session :
         /\ Len(sess') = Len(sess) + 1 /\ sess' \in Seq(Session)
         /\ toClient' = toClient \cup {Outstanding(Len(sess) + 1, x)}
         /\ toServer' = toServer \ {m}
  BY <1>1
<1>4. Len(sess) \in Nat
  BY TypeParts DEF ServerType
<1>5. Len(sess) + 1 \in ServerPorts' /\ ServerPorts \subseteq ServerPorts'
  BY <1>3, <1>4 DEF ServerPorts
<1>6. Outstanding(Len(sess) + 1, x) \in ServerPkt'
  BY <1>3, <1>5, OutstandingNext DEF OutstandingTyped
<1>7. UNCHANGED client /\ FaultType'
  BY TypeParts DEF ServerRequest, FaultType, faults
<1> QED BY <1>3, <1>5, <1>6, <1>7, EnvTypes

\* An acknowledgement ends a transfer, moves it on by one block, or does nothing.
LEMMA AckFacts ==
  ASSUME TypeInv, ServerAck
  PROVE  \E m \in toServer :
           /\ m.type = "ack" /\ m.dst \in ServerPorts
           /\ toServer' = toServer \ {m}
           /\ \/ UNCHANGED <<sess, toClient>>
              \/ /\ sess' = [sess EXCEPT ![m.dst].live = FALSE]
                 /\ UNCHANGED toClient
              \/ /\ sess' = [sess EXCEPT ![m.dst].blk = @ + 1]
                 /\ toClient' = toClient \cup {Outstanding(m.dst, sess'[m.dst])}
                 /\ m.src = sess[m.dst].port /\ m.seq = sess[m.dst].blk % SeqSize
                 /\ sess[m.dst].blk = 0
                    \/ ~(BlkLen(sess[m.dst].blk, sess[m.dst].size) < sess[m.dst].size)
<1>1. PICK m \in toServer :
         /\ m.type = "ack"
         /\ toServer' = toServer \ {m}
         /\ IF sess[m.dst].live /\ m.src = sess[m.dst].port /\ m.seq = sess[m.dst].blk % SeqSize
            THEN IF sess[m.dst].blk # 0
                    /\ BlkLen(sess[m.dst].blk, sess[m.dst].size) < sess[m.dst].size
                 THEN /\ sess' = [sess EXCEPT ![m.dst].live = FALSE]
                      /\ UNCHANGED toClient
                 ELSE /\ sess' = [sess EXCEPT ![m.dst].blk = @ + 1]
                      /\ toClient' = toClient \cup {Outstanding(m.dst, sess'[m.dst])}
            ELSE UNCHANGED <<sess, toClient>>
  BY Zenon DEF ServerAck
<1>2. m.dst \in ServerPorts
  BY <1>1, TypeParts DEF SentType
<1> QED BY <1>1, <1>2

\* What the change of one transfer does to the sequence of them.
LEMMA SessUpdate ==
  ASSUME sess \in Seq(Session), NEW d \in ServerPorts, NEW x \in Session,
         sess' = [sess EXCEPT ![d] = x]
  PROVE  /\ sess' \in Seq(Session) /\ Len(sess') = Len(sess) /\ ServerPorts' = ServerPorts
         /\ sess'[d] = x /\ \A s \in ServerPorts : s # d => sess'[s] = sess[s]
BY DEF ServerPorts

LEMMA SessMoves ==
  ASSUME sess \in Seq(Session), NEW d \in ServerPorts
  PROVE  LET x == [sess[d] EXCEPT !.blk = @ + 1]
             y == [sess[d] EXCEPT !.live = FALSE]
         IN  /\ [sess EXCEPT ![d].blk = @ + 1] = [sess EXCEPT ![d] = x]
             /\ [sess EXCEPT ![d].live = FALSE] = [sess EXCEPT ![d] = y]
             /\ x \in Session /\ x.blk = sess[d].blk + 1 /\ x.size = sess[d].size
             /\ x.port = sess[d].port
             /\ y \in Session /\ y.blk = sess[d].blk /\ y.size = sess[d].size
             /\ y.port = sess[d].port
<1> DEFINE z == sess[d]
           k == z.blk + 1
           x == [z EXCEPT !.blk = k]
           y == [z EXCEPT !.live = FALSE]
<1>1. z \in Session
  BY DEF ServerPorts
<1>2. [sess EXCEPT ![d].blk = @ + 1] = [sess EXCEPT ![d] = x]
  BY DEF ServerPorts
<1>3. [sess EXCEPT ![d].live = FALSE] = [sess EXCEPT ![d] = y]
  BY DEF ServerPorts
<1> HIDE DEF z
<1>4. k \in Nat
  BY <1>1 DEF Session
<1> HIDE DEF k
<1>5. x \in Session /\ x.blk = k /\ x.size = z.size /\ x.port = z.port
  BY <1>1, <1>4 DEF Session
<1>6. y \in Session /\ y.blk = z.blk /\ y.size = z.size /\ y.port = z.port
  BY <1>1 DEF Session
<1> QED BY <1>2, <1>3, <1>5, <1>6, Zenon DEF x, y, k, z

LEMMA AckTypes ==
  ASSUME TypeInv, ServerAck
  PROVE  TypeInv'
<1>0. /\ sess \in Seq(Session) /\ UNCHANGED client /\ FaultType'
  BY TypeParts DEF ServerAck, FaultType, faults, ServerType
<1>1. PICK m \in toServer :
           /\ m.type = "ack" /\ m.dst \in ServerPorts
           /\ toServer' = toServer \ {m}
           /\ \/ UNCHANGED <<sess, toClient>>
              \/ /\ sess' = [sess EXCEPT ![m.dst].live = FALSE]
                 /\ UNCHANGED toClient
              \/ /\ sess' = [sess EXCEPT ![m.dst].blk = @ + 1]
                 /\ toClient' = toClient \cup {Outstanding(m.dst, sess'[m.dst])}
                 /\ m.src = sess[m.dst].port /\ m.seq = sess[m.dst].blk % SeqSize
                 /\ sess[m.dst].blk = 0
                    \/ ~(BlkLen(sess[m.dst].blk, sess[m.dst].size) < sess[m.dst].size)
  BY AckFacts
<1>2. CASE UNCHANGED <<sess, toClient>>
  BY <1>0, <1>1, <1>2, EnvTypes DEF ServerPorts
<1>3. CASE sess' = [sess EXCEPT ![m.dst].live = FALSE] /\ UNCHANGED toClient
  <2>1. sess' \in Seq(Session) /\ ServerPorts' = ServerPorts
    BY <1>0, <1>1, <1>3, SessMoves, SessUpdate
  <2> QED BY <1>0, <1>1, <1>3, <2>1, EnvTypes
<1>4. CASE /\ sess' = [sess EXCEPT ![m.dst].blk = @ + 1]
           /\ toClient' = toClient \cup {Outstanding(m.dst, sess'[m.dst])}
  <2>1. sess' \in Seq(Session) /\ ServerPorts' = ServerPorts /\ sess'[m.dst] \in Session
    BY <1>0, <1>1, <1>4, SessMoves, SessUpdate
  <2>2. Outstanding(m.dst, sess'[m.dst]) \in ServerPkt'
    BY <1>1, <2>1, OutstandingNext DEF OutstandingTyped
  <2> QED BY <1>0, <1>1, <1>4, <2>1, <2>2, EnvTypes
<1> QED BY <1>1, <1>2, <1>3, <1>4

LEMMA ResendTypes ==
  ASSUME TypeInv, ServerResend
  PROVE  TypeInv'
<1>0. /\ sess \in Seq(Session) /\ UNCHANGED <<client, toServer, sess>> /\ FaultType'
      /\ ServerPorts' = ServerPorts
  BY TypeParts DEF ServerResend, FaultType, faults, ServerType, ServerPorts
<1>1. PICK s \in ServerPorts : toClient' = toClient \cup {Outstanding(s, sess[s])}
  BY DEF ServerResend, ServerPorts
<1>2. sess[s] \in Session
  BY <1>0, <1>1 DEF ServerPorts
<1>3. Outstanding(s, sess[s]) \in ServerPkt'
  BY <1>0, <1>1, <1>2, OutstandingNext DEF OutstandingTyped
<1> QED BY <1>0, <1>1, <1>3, EnvTypes

LEMMA ErrorTypes ==
  ASSUME TypeInv, ServerError
  PROVE  TypeInv'
<1>0. /\ sess \in Seq(Session) /\ UNCHANGED <<client, toServer>> /\ FaultType'
  BY TypeParts, TftpAssumption, SMTT(30) DEF ServerError, FaultType, ServerType
<1>1. PICK s \in ServerPorts :
         /\ sess' = [sess EXCEPT ![s].live = FALSE]
         /\ toClient' = toClient \cup {ToClient("error", s, sess[s].port, 0, 0, 0)}
  BY DEF ServerError, ServerPorts
<1>2. sess' \in Seq(Session) /\ ServerPorts' = ServerPorts
  BY <1>0, <1>1, SessMoves, SessUpdate
<1>3. ToClient("error", s, sess[s].port, 0, 0, 0) \in ServerPkt'
  <2>0. sess[s] \in Session
    BY <1>0, <1>1 DEF ServerPorts
  <2>1. sess[s].port \in Nat /\ 0 \in 0..(SeqSize - 1) /\ 0 \in Nat
    BY <2>0, BlockSizes DEF Session
  <2> QED BY <1>1, <1>2, <2>1 DEF ToClient, ServerPkt
<1> QED BY <1>0, <1>1, <1>2, <1>3, EnvTypes

LEMMA LoseTypes ==
  ASSUME TypeInv, Lose
  PROVE  TypeInv'
<1>0. /\ sess \in Seq(Session) /\ UNCHANGED <<client, sess>> /\ FaultType'
      /\ ServerPorts' = ServerPorts
  BY TypeParts, TftpAssumption DEF Lose, FaultType, ServerType, ServerPorts
<1>1. toServer' \subseteq toServer /\ toClient' \subseteq toClient
  BY DEF Lose
<1> QED BY <1>0, <1>1, EnvTypes

LEMMA NextTypes == TypeInv /\ [Next]_vars => TypeInv'
BY ReceiveTypes, TimeoutTypes, SwitchTypes, AbortTypes, StutterTypes, RequestTypes, AckTypes,
   ResendTypes, ErrorTypes, LoseTypes
   DEF Next, Environment, Returned

LEMMA TypesInvariant == Spec => []TypeInv
BY InitTypes, NextTypes, PTL DEF Spec

\* The globals of tftp.c and net.c keep their types whatever arrives when: an
\* acknowledgement of TftpSend always goes to a transfer the server has, a number
\* stays in its range when it wraps, and store_block never gets an offset below 0.
THEOREM TypeCorrect == Spec => []TypeOK
<1>1. TypeInv => TypeOK
  BY DEF TypeInv
<1> QED BY <1>1, TypesInvariant, PTL
----------------------------------------------------------------------------
(* Blocks of the file. *)

LEMMA TimesMono ==
  ASSUME NEW a \in Nat, NEW b \in Nat, NEW n \in Nat, a <= b
  PROVE  a * n <= b * n
<1>1. b * n = a * n + (b - a) * n
  OBVIOUS
<1>2. (b - a) * n \in Nat /\ a * n \in Nat
  BY TimesType
<1> QED BY <1>1, <1>2

LEMMA OffMono ==
  ASSUME NEW a \in Nat \ {0}, NEW b \in Nat, NEW n \in Nat \ {0}, a < b
  PROVE  Off(a, n) + n <= Off(b, n)
<1>1. a * n <= (b - 1) * n
  BY TimesMono
<1>2. Off(a, n) + n = a * n
  BY OffFacts, TimesType
<1> QED BY <1>1, <1>2 DEF Off

\* The number of a block inside the file does not wrap around.
LEMMA BlockNumber ==
  ASSUME Separate, NEW n \in ServerSizes, NEW b \in Nat, Off(b, n) <= FileLen
  PROVE  b < SeqSize /\ b % SeqSize = b
<1>0. n \in Nat \ {0} /\ SeqSize \in Nat /\ SeqSize >= 2 /\ FileLen \in Nat
  BY BlockSizes
<1>1. FileLen < (SeqSize - 1) * n
  BY DEF Separate
<1>2. ASSUME b >= SeqSize PROVE FALSE
  <2>1. (SeqSize - 1) * n <= (b - 1) * n
    BY <1>0, <1>2, TimesMono
  <2>2. (SeqSize - 1) * n \in Nat /\ (b - 1) * n \in Nat
    BY <1>0, <1>2, TimesType
  <2> QED BY <1>0, <1>1, <2>1, <2>2 DEF Off
<1> QED BY <1>0, <1>2

\* Where a block that the server can send ends.
LEMMA BlockEnd ==
  ASSUME NEW n \in Nat \ {0}, NEW b \in Nat \ {0}, Off(b, n) <= FileLen
  PROVE  /\ Off(b, n) \in Nat /\ BlkLen(b, n) \in Nat
         /\ Off(b, n) + BlkLen(b, n) <= FileLen
         /\ BlkLen(b, n) < n => Off(b, n) + BlkLen(b, n) = FileLen
         /\ ~(BlkLen(b, n) < n) => Off(b + 1, n) <= FileLen
         /\ \A i \in Bytes : Off(b, n) <= i /\ i < Off(b, n) + n => i < Off(b, n) + BlkLen(b, n)
<1> DEFINE o == Off(b, n)
           l == BlkLen(b, n)
<1>1. o \in Nat /\ FileLen \in Nat /\ Off(b + 1, n) = o + n
  BY OffFacts, BlockSizes
<1>2. l = IF o >= FileLen THEN 0 ELSE IF FileLen - o < n THEN FileLen - o ELSE n
  BY DEF BlkLen
<1> HIDE DEF o, l
<1>3. l \in Nat
  BY <1>1, <1>2
<1>4. o <= FileLen
  BY DEF o
<1>5. /\ o + l <= FileLen /\ (l < n => o + l = FileLen) /\ (~(l < n) => o + n <= FileLen)
      /\ \A i \in Bytes : o <= i /\ i < o + n => i < o + l
  BY <1>1, <1>2, <1>4 DEF Bytes
<1> QED BY <1>1, <1>3, <1>5 DEF o, l

\* An earlier block than the last the server has sent is a full one.
LEMMA EarlierFull ==
  ASSUME NEW n \in Nat \ {0}, NEW b \in Nat, NEW a \in Nat \ {0}, a <= b, Off(b, n) <= FileLen
  PROVE  /\ Off(a, n) <= FileLen
         /\ BlkLen(a, n) < n => a = b
<1>1. CASE a = b
  BY <1>1
<1>2. CASE a < b
  <2>1. Off(a, n) + n <= Off(b, n) /\ Off(a, n) \in Nat /\ Off(b, n) \in Int /\ FileLen \in Nat
    BY <1>2, OffMono, OffFacts, BlockSizes
  <2>2. Off(a, n) + n <= FileLen
    BY <2>1
  <2>3. ~(BlkLen(a, n) < n)
    BY <2>1, <2>2 DEF BlkLen
  <2> QED BY <2>1, <2>2, <2>3
<1> QED BY <1>1, <1>2
----------------------------------------------------------------------------
(* The steps of the client. *)

SessionsInv == \A s \in ServerPorts : SessInv(s)
PacketsInv == (\A m \in toClient : ToClientInv(m)) /\ (\A m \in toServer : ToServerInv(m))

\* What a step of the client that keeps its transfer leaves to be shown.
LEMMA ServerSide ==
  ASSUME TypeInv, SessionsInv, PacketsInv, UNCHANGED <<sess, TftpOurPort>>,
         toClient' \subseteq toClient, DOMAIN ram \subseteq DOMAIN ram',
         TftpState # "rrq" => TftpState' # "rrq" /\ TftpServerPort' = TftpServerPort,
         NetState = "fail" => NetState' = "fail" \/ Bytes \subseteq DOMAIN ram',
         \A m \in toServer' : m \in toServer \/ ToServerInv(m)'
  PROVE  SessionsInv' /\ PacketsInv'
<1>1. ServerPorts' = ServerPorts /\ Bytes' = Bytes
  BY DEF ServerPorts, Bytes
<1>2. SessionsInv'
  BY <1>1 DEF SessionsInv, SessInv
<1>3. \A m \in toClient' : ToClientInv(m)'
  BY DEF PacketsInv, ToClientInv
<1>4. ASSUME NEW m \in toServer' PROVE ToServerInv(m)'
  <2>1. CASE m \in toServer
    <3>1. ToServerInv(m)
      BY <2>1 DEF PacketsInv
    <3>2. \A b, n : Has(b, n) => Has(b, n)'
      BY DEF Has
    <3>3. Bytes \subseteq DOMAIN ram' => \A b, n : Has(b, n)'
      BY <1>1 DEF Has
    <3> QED BY <3>1, <3>2, <3>3 DEF ToServerInv
  <2> QED BY <1>4, <2>1
<1> QED BY <1>2, <1>3, <1>4 DEF PacketsInv

\* A data packet the handler looks at: it is of the client's own transfer, cut into
\* blocks of the client's size, and goes to where it belongs in the file.
LEMMA DataPacket ==
  ASSUME TypeInv, ClientInv, SessionsInv, PacketsInv, NEW m \in toClient,
         ForUs(m), m.type = "data"
  PROVE  /\ m \in ServerPkt /\ m.src \in ServerPorts
         /\ sess[m.src].port = TftpOurPort /\ sess[m.src].size = TftpBlkSize
         /\ TftpBlkSize \in Nat \ {0} /\ m.seq \in Nat \ {0}
         /\ m.seq <= sess[m.src].blk /\ sess[m.src].blk \in Nat
         /\ Off(sess[m.src].blk, TftpBlkSize) <= FileLen
         /\ \A i \in Bytes : i < Off(sess[m.src].blk, TftpBlkSize) => i \in DOMAIN ram
         /\ m.off = Off(m.seq, TftpBlkSize) /\ m.len = BlkLen(m.seq, TftpBlkSize)
         /\ WrapOffset(m.seq) = 0 /\ Offset(m.seq, 0) = m.off
         /\ Off(m.seq, TftpBlkSize) <= FileLen
<1>0. TransferType /\ PassType /\ ServerType /\ TftpState \in {"rrq", "oack", "data"}
  BY TypeParts DEF TransferType
<1>1. m \in ServerPkt /\ m.src \in ServerPorts /\ m.seq \in 0..(SeqSize - 1)
  BY <1>0 DEF ServerType, ServerPkt
<1>2. sess[m.src] \in Session
  BY <1>0, <1>1 DEF ServerType, ServerPorts
<1>3. /\ ToClientInv(m) /\ SessInv(m.src) /\ m.dst = TftpOurPort
      /\ sess[m.src].port = TftpOurPort
  BY <1>1 DEF PacketsInv, SessionsInv, ForUs, ToClientInv
<1>4. m.seq \in Nat \ {0} /\ sess[m.src].blk \in Nat /\ m.seq <= sess[m.src].blk
  BY <1>1, <1>2, <1>3, BlockSizes DEF ToClientInv, Session
<1>5. sess[m.src].size = TftpBlkSize
  <2>1. CASE TftpState = "rrq"
    <3>1. sess[m.src].blk \in Starts(sess[m.src].size)
      BY <1>3, <2>1 DEF SessInv
    <3>2. sess[m.src].size # OptBlk
      BY <1>4, <3>1 DEF Starts
    <3> QED BY <1>2, <2>1, <3>2 DEF ClientInv, Session
  <2>2. CASE TftpState # "rrq"
    BY <2>2 DEF ForUs, ClientInv
  <2> QED BY <2>1, <2>2
<1>6. TftpBlkSize \in Nat \ {0}
  BY <1>0, BlockSizes DEF TransferType
<1>7. WrapOffset(m.seq) = 0
  BY <1>0, <1>4 DEF WrapOffset, First, ClientInv
<1>8. m.off = Off(m.seq, TftpBlkSize) /\ m.len = BlkLen(m.seq, TftpBlkSize)
  BY <1>3, <1>5 DEF ToClientInv
<1>9. Offset(m.seq, 0) = m.off
  <2>1. m.seq * TftpBlkSize \in Nat
    BY <1>4, <1>6, TimesType
  <2>2. m.off = m.seq * TftpBlkSize - TftpBlkSize
    BY <1>4, <1>6, <1>8, OffFacts
  <2>3. Offset(m.seq, 0) = m.seq * TftpBlkSize + 0 - TftpBlkSize
    BY DEF Offset
  <2> QED BY <1>6, <2>1, <2>2, <2>3
<1>10. Off(m.seq, TftpBlkSize) <= FileLen
  BY <1>3, <1>4, <1>5, <1>6, EarlierFull DEF SessInv
<1>11. /\ Off(sess[m.src].blk, TftpBlkSize) <= FileLen
       /\ \A i \in Bytes : i < Off(sess[m.src].blk, TftpBlkSize) => i \in DOMAIN ram
  BY <1>3, <1>5 DEF SessInv
<1> QED BY <1>1, <1>3, <1>4, <1>5, <1>6, <1>7, <1>8, <1>9, <1>10, <1>11

\* store_block of such a packet.
LEMMA StoreFacts ==
  ASSUME RamInv, MemoryType, NEW o \in Nat, NEW l \in Nat, o + l <= FileLen, store_block(o, o, l)
  PROVE  /\ RamInv' /\ DOMAIN ram \subseteq DOMAIN ram'
         /\ \A i \in Nat : o <= i /\ i < o + l => i \in DOMAIN ram'
         /\ o + l = FileLen => NetBootFileXferSize' = FileLen
         /\ NetBootFileXferSize = FileLen => NetBootFileXferSize' = FileLen
<1> DEFINE range == o..(o + l - 1)
<1>0. FileLen \in Nat /\ NetBootFileXferSize \in Nat
  BY BlockSizes DEF MemoryType
<1>1. /\ range \subseteq Bytes /\ \A i \in range : o + (i - o) = i
      /\ \A i \in Nat : o <= i /\ i < o + l => i \in range
  BY <1>0 DEF Bytes
<1>2. NetBootFileXferSize' = IF NetBootFileXferSize < o + l THEN o + l ELSE NetBootFileXferSize
  BY DEF store_block
<1>3. ram' = [i \in DOMAIN ram \cup range |-> IF i \in range THEN o + (i - o) ELSE ram[i]]
  BY Zenon DEF store_block
<1> HIDE DEF range
<1>4. DOMAIN ram' = DOMAIN ram \cup range
  BY <1>3
<1>5. \A i \in DOMAIN ram \cup range : ram'[i] = i
  BY <1>1, <1>3 DEF RamInv
<1>6. /\ NetBootFileXferSize' <= FileLen
      /\ NetBootFileXferSize = FileLen => NetBootFileXferSize' = FileLen
      /\ o + l = FileLen => NetBootFileXferSize' = FileLen
  BY <1>0, <1>2 DEF RamInv
<1>7. Bytes' = Bytes
  BY DEF Bytes
<1> QED BY <1>1, <1>4, <1>5, <1>6, <1>7 DEF RamInv

LEMMA HasKept ==
  ASSUME DOMAIN ram \subseteq DOMAIN ram'
  PROVE  \A b, n : Has(b, n) => Has(b, n)'
BY DEF Has, Bytes

MemInv == RamInv /\ ClientInv /\ TimerInv /\ SuccessInv /\ SessionsInv /\ PacketsInv

LEMMA InvParts == Inv <=> TypeInv /\ MemInv
BY DEF Inv, MemInv, SessionsInv, PacketsInv

\* NetStartAgain stops listening, or fails for good.
LEMMA StartAgainInv ==
  ASSUME LoopType, TimerInv, packetHandler = "tftp", NEW th \in {"none", "tftp"}, NetStartAgain(th)
  PROVE  /\ TimerInv'
         /\ packetHandler' = "ignore" \/ NetState' = "fail"
         /\ NetState = "fail" => NetState' = "fail"
         /\ NetState' = "success" => NetState = "success"
BY TftpAssumption DEF NetStartAgain, TimerInv, LoopType

\* case TFTP_DATA: not the first block, the same block again, or a block to store.
LEMMA DataInv ==
  ASSUME TypeInv, MemInv, NEW m \in toClient, ForUs(m), m.type = "data", packetHandler = "tftp",
         Data(m), UNCHANGED <<sess, TftpOurPort, ret>>, ret = "running", toClient' \subseteq toClient
  PROVE  MemInv'
<1>0. /\ TransferType /\ CountType /\ LoopType /\ MemoryType /\ PassType /\ SentType /\ ServerType
      /\ RamInv /\ ClientInv /\ TimerInv /\ SuccessInv /\ SessionsInv /\ PacketsInv
  BY TypeParts DEF MemInv
<1>z. PICK z : z = TftpBlkSize
  OBVIOUS
<1>b. PICK blk : blk = sess[m.src].blk
  OBVIOUS
<1>1. /\ m \in ServerPkt /\ m.src \in ServerPorts
      /\ sess[m.src].port = TftpOurPort /\ sess[m.src].size = z
      /\ z \in Nat \ {0} /\ m.seq \in Nat \ {0} /\ m.seq <= blk /\ blk \in Nat
      /\ Off(blk, z) <= FileLen
      /\ \A i \in Bytes : i < Off(blk, z) => i \in DOMAIN ram
      /\ m.off = Off(m.seq, z) /\ m.len = BlkLen(m.seq, z)
      /\ WrapOffset(m.seq) = 0 /\ Offset(m.seq, 0) = m.off
      /\ Off(m.seq, z) <= FileLen
  BY <1>0, <1>z, <1>b, DataPacket
<1>l. PICK lastBlock : lastBlock = IF First THEN 0 ELSE TftpLastBlock
  OBVIOUS
<1>2. /\ TftpBlock' = m.seq /\ TftpState' = "data" /\ TftpServerPort' = m.src
      /\ TftpBlockWrapOffset' = 0 /\ TftpBlkSize' = z
  BY <1>z, <1>1 DEF Data
<1>3. TftpState # "rrq" => TftpServerPort' = TftpServerPort
  BY <1>2 DEF ForUs
<1>4. lastBlock = 0 \/ Has(lastBlock, z)
  BY <1>0, <1>z, <1>l DEF ClientInv, First, TransferType
<1>5. CASE /\ NetStartAgain(timeHandler) /\ TftpLastBlock' = lastBlock
           /\ UNCHANGED <<tmo, result, toServer>>
  <2>0. timeHandler \in {"none", "tftp"}
    BY <1>0 DEF TimerInv, LoopType
  <2>1. /\ TimerInv' /\ (packetHandler' = "ignore" \/ NetState' = "fail")
        /\ (NetState = "fail" => NetState' = "fail")
        /\ (NetState' = "success" => NetState = "success")
    BY <1>0, <1>5, <2>0, StartAgainInv
  <2>2. UNCHANGED <<ram, NetBootFileXferSize, toServer>>
    BY <1>5 DEF result
  <2>3. RamInv' /\ SuccessInv' /\ Has(lastBlock, z)' = Has(lastBlock, z)
    BY <1>0, <2>1, <2>2 DEF RamInv, SuccessInv, Bytes, Has
  <2>4. ClientInv'
    BY <1>1, <1>2, <1>4, <1>5, <2>1, <2>3 DEF ClientInv
  <2>5. SessionsInv' /\ PacketsInv'
    BY <1>0, <1>2, <1>3, <2>1, <2>2, ServerSide
  <2> QED BY <2>1, <2>3, <2>4, <2>5 DEF MemInv
<1>6. CASE /\ m.seq = lastBlock /\ TftpLastBlock' = lastBlock
           /\ UNCHANGED <<tmo, netloop, result, toServer>>
  <2>1. UNCHANGED <<ram, NetBootFileXferSize, toServer, NetState, NetTryCount, packetHandler, timeHandler>>
    BY <1>6 DEF result, netloop
  <2>2. RamInv' /\ SuccessInv' /\ TimerInv' /\ Has(lastBlock, z)' = Has(lastBlock, z)
    BY <1>0, <2>1 DEF RamInv, SuccessInv, TimerInv, Bytes, Has
  <2>3. ClientInv'
    BY <1>1, <1>2, <1>4, <1>6, <2>2 DEF ClientInv
  <2>4. SessionsInv' /\ PacketsInv'
    BY <1>0, <1>2, <1>3, <2>1, ServerSide
  <2> QED BY <2>2, <2>3, <2>4 DEF MemInv
<1>7. CASE /\ TftpLastBlock' = m.seq
           /\ timeHandler' = "tftp"
           /\ store_block(Offset(m.seq, WrapOffset(m.seq)), m.off, m.len)
           /\ toServer' = toServer \cup {TftpSend("data", m.src, m.seq)}
           /\ NetState' = IF m.len < z THEN "success" ELSE NetState
           /\ UNCHANGED <<TftpTimeoutCount, NetTryCount, packetHandler>>
  <2> DEFINE o == Off(m.seq, z)
             l == BlkLen(m.seq, z)
  <2>a. PICK a : a = TftpSend("data", m.src, m.seq)
    OBVIOUS
  <2>1. /\ o \in Nat /\ l \in Nat /\ o + l <= FileLen /\ (l < z => o + l = FileLen)
        /\ \A i \in Bytes : o <= i /\ i < o + z => i < o + l
    BY <1>1, BlockEnd
  <2>2. store_block(o, o, l) /\ m.len = l
    BY <1>1, <1>7
  <2>3. /\ RamInv' /\ DOMAIN ram \subseteq DOMAIN ram'
        /\ \A i \in Nat : o <= i /\ i < o + l => i \in DOMAIN ram'
        /\ o + l = FileLen => NetBootFileXferSize' = FileLen
        /\ NetBootFileXferSize = FileLen => NetBootFileXferSize' = FileLen
    BY <1>0, <2>1, <2>2, StoreFacts
  <2>4. Has(m.seq, z)'
    BY <2>1, <2>3 DEF Has, Bytes
  <2>5. l < z => Bytes \subseteq DOMAIN ram' /\ NetBootFileXferSize' = FileLen
    <3> HAVE l < z
    <3>1. m.seq = blk
      BY <1>1, EarlierFull
    <3>2. ASSUME NEW i \in Bytes PROVE i \in DOMAIN ram'
      <4>1. i \in Nat /\ i < FileLen /\ o + l = FileLen
        BY <2>1, BlockSizes DEF Bytes
      <4>2. CASE i < o
        BY <1>1, <2>3, <3>1, <4>2
      <4>3. CASE ~(i < o)
        BY <2>1, <2>3, <4>1, <4>3
      <4> QED BY <4>2, <4>3
    <3> QED BY <2>1, <2>3, <3>2
  <2>6. SuccessInv'
    <3>1. NetState = "success" => Bytes \subseteq DOMAIN ram' /\ NetBootFileXferSize' = FileLen
      BY <1>0, <2>3 DEF SuccessInv
    <3>2. Bytes' = Bytes
      BY DEF Bytes
    <3> QED BY <1>7, <2>2, <2>5, <3>1, <3>2 DEF SuccessInv
  <2>7. TimerInv'
    BY <1>0, <1>7 DEF TimerInv
  <2>8. ClientInv'
    BY <1>1, <1>2, <1>7, <2>4 DEF ClientInv
  <2>9. a = Ack(TftpOurPort, m.src, m.seq)
    BY <2>a DEF TftpSend
  <2> HIDE DEF o, l
  <2>10. ToServerInv(a)'
    <3>1. /\ a.type = "ack" /\ a.src = TftpOurPort /\ a.dst = m.src /\ a.seq = m.seq
      BY <2>9 DEF Ack
    <3>2. a.src <= TftpOurPort'
      BY <1>0, <3>1 DEF PassType
    <3> QED BY <1>1, <1>2, <2>4, <3>1, <3>2 DEF ToServerInv
  <2>11. SessionsInv' /\ PacketsInv'
    <3>1. \A q \in toServer' : q \in toServer \/ ToServerInv(q)'
      BY <1>7, <2>a, <2>10
    <3>2. NetState = "fail" => NetState' = "fail" \/ Bytes \subseteq DOMAIN ram'
      BY <1>7, <2>2, <2>5
    <3> QED BY <1>0, <1>2, <1>3, <2>3, <3>1, <3>2, ServerSide
  <2> QED BY <2>3, <2>6, <2>7, <2>8, <2>11 DEF MemInv
<1> QED BY <1>z, <1>l, <1>5, <1>6, <1>7 DEF Data

\* case TFTP_OACK, also when it arrives again in the middle of a transfer.
LEMMA OackInv ==
  ASSUME TypeInv, MemInv, NEW m \in toClient, ForUs(m), m.type = "oack", packetHandler = "tftp",
         Oack(m), UNCHANGED <<sess, TftpOurPort, ret>>, toClient' \subseteq toClient
  PROVE  MemInv'
<1>0. /\ TransferType /\ PassType /\ ServerType /\ SentType
      /\ RamInv /\ ClientInv /\ TimerInv /\ SuccessInv /\ SessionsInv /\ PacketsInv
  BY TypeParts DEF MemInv
<1>1. /\ m.src \in ServerPorts /\ sess[m.src].port = TftpOurPort
      /\ sess[m.src] \in Session
      /\ m.len = IF sess[m.src].size = OptBlk THEN OptBlk ELSE 0
  BY <1>0 DEF ServerType, ServerPkt, ServerPorts, PacketsInv, ToClientInv, ForUs
<1>12. PICK n : n = sess[m.src].size
  OBVIOUS
<1>13. n \in {DefBlk, OptBlk} /\ m.len = IF n = OptBlk THEN OptBlk ELSE 0
  BY <1>1, <1>12 DEF Session
<1>3. /\ TftpState = "rrq" => TftpBlkSize = DefBlk
      /\ TftpState # "rrq" => TftpServerPort = m.src /\ TftpBlkSize = n
  BY <1>0, <1>12 DEF ForUs, ClientInv
<1>2. /\ TftpState' = "oack" /\ TftpServerPort' = m.src /\ TftpBlkSize' = n
      /\ UNCHANGED <<TftpBlock, ram, NetBootFileXferSize>>
      /\ UNCHANGED <<NetState, NetTryCount, packetHandler, timeHandler>>
  <2>1. TftpBlkSize' = IF m.len = 0 THEN TftpBlkSize ELSE OptBlk
    BY DEF Oack
  <2>2. TftpBlkSize' = n
    BY <1>3, <1>13, <2>1, BlockSizes
  <2> QED BY <2>2 DEF Oack, netloop, result
<1>4. TftpBlock = 0 \/ Has(TftpBlock, n) \/ NetState = "fail"
  BY <1>0, <1>3 DEF ClientInv
<1>5. RamInv' /\ TimerInv' /\ SuccessInv' /\ \A b, k : Has(b, k)' = Has(b, k)
  BY <1>0, <1>2 DEF RamInv, TimerInv, SuccessInv, Has, Bytes
<1>6. ClientInv'
  <2>1. PICK b : b = TftpBlock
    OBVIOUS
  <2>2. TftpBlock' = b /\ (b = 0 \/ Has(b, n)' \/ NetState' = "fail")
    BY <1>2, <1>4, <1>5, <2>1
  <2> QED BY <1>1, <1>12, <1>2, <2>2 DEF ClientInv
<1>7. PICK a : a = TftpSend("oack", m.src, TftpBlock)
  OBVIOUS
<1>8. a.type = "ack" /\ a.src = TftpOurPort /\ a.dst = m.src /\ a.seq = TftpBlock
  BY <1>7 DEF TftpSend, Ack
<1>9. ToServerInv(a)'
  <2>1. a.src <= TftpOurPort'
    BY <1>0, <1>8 DEF PassType
  <2>2. a.seq = 0 \/ Has(a.seq, n)' \/ NetState' = "fail"
    BY <1>2, <1>4, <1>5, <1>8
  <2> QED BY <1>1, <1>12, <1>2, <1>8, <2>1, <2>2 DEF ToServerInv
<1>10. \A q \in toServer' : q \in toServer \/ ToServerInv(q)'
  BY <1>7, <1>9 DEF Oack
<1>11. SessionsInv' /\ PacketsInv'
  BY <1>0, <1>2, <1>3, <1>10, ServerSide
<1> QED BY <1>5, <1>6, <1>11 DEF MemInv

\* A step that leaves the transfer and memory alone, as the handlers of an error and of
\* the timer do; the timer may repeat the last packet.
LEMMA QuietInv ==
  ASSUME TypeInv, MemInv, UNCHANGED <<sess, TftpOurPort, transfer, result>>,
         ret' = "ok" => ret = "ok" \/ NetState = "success",
         toClient' \subseteq toClient, TimerInv',
         packetHandler' = "tftp" => packetHandler = "tftp",
         NetState = "fail" => NetState' = "fail",
         NetState' = "success" => NetState = "success",
         \A m \in toServer' : m \in toServer \/ ToServerInv(m)'
  PROVE  MemInv'
<1>0. RamInv /\ ClientInv /\ SuccessInv /\ SessionsInv /\ PacketsInv
  BY DEF MemInv
<1>1. /\ UNCHANGED <<TftpState, TftpServerPort, TftpBlock, TftpLastBlock, TftpBlockWrapOffset>>
      /\ UNCHANGED <<TftpBlkSize, ram, NetBootFileXferSize>>
  BY DEF transfer, result
<1>2. RamInv' /\ SuccessInv'
  BY <1>0, <1>1 DEF RamInv, SuccessInv, Bytes
<1>3. ClientInv'
  <2>1. Has(TftpBlock, TftpBlkSize)' = Has(TftpBlock, TftpBlkSize)
    BY <1>1 DEF Has, Bytes
  <2>2. Has(TftpLastBlock, TftpBlkSize)' = Has(TftpLastBlock, TftpBlkSize)
    BY <1>1 DEF Has, Bytes
  <2> QED BY <1>0, <1>1, <2>1, <2>2 DEF ClientInv
<1>4. SessionsInv' /\ PacketsInv'
  BY <1>0, <1>1, ServerSide
<1> QED BY <1>2, <1>3, <1>4 DEF MemInv

LEMMA ReceiveInv ==
  ASSUME TypeInv, MemInv, Receive
  PROVE  MemInv'
<1>0. /\ LoopType /\ TimerInv /\ ret = "running" /\ UNCHANGED <<TftpOurPort, ret, sess>>
  BY TypeParts DEF Receive, MemInv
<1>1. PICK m \in toClient, dup \in BOOLEAN :
         /\ Deliver(m, dup)
         /\ \/ /\ packetHandler = "tftp" /\ ForUs(m)
               /\ \/ m.type = "oack" /\ Oack(m)
                  \/ m.type = "data" /\ Data(m)
                  \/ m.type = "error" /\ Error(m)
            \/ /\ packetHandler # "tftp" \/ ~ForUs(m)
               /\ UNCHANGED <<transfer, tmo, netloop, result, toServer>>
  BY Zenon DEF Receive
<1>2. toClient' \subseteq toClient
  BY <1>1 DEF Deliver
<1>3. CASE packetHandler = "tftp" /\ ForUs(m) /\ m.type = "oack" /\ Oack(m)
  BY <1>0, <1>2, <1>3, OackInv
<1>4. CASE packetHandler = "tftp" /\ ForUs(m) /\ m.type = "data" /\ Data(m)
  BY <1>0, <1>2, <1>4, DataInv
<1>5. CASE packetHandler = "tftp" /\ Error(m)
  <2>0. timeHandler \in {"none", "tftp"}
    BY <1>0, <1>5 DEF TimerInv, LoopType
  <2>1. /\ TimerInv' /\ (NetState = "fail" => NetState' = "fail")
        /\ (NetState' = "success" => NetState = "success")
    BY <1>0, <1>5, <2>0, StartAgainInv DEF Error
  <2>2. UNCHANGED <<transfer, result, toServer>>
    BY <1>5 DEF Error
  <2> QED BY <1>0, <1>2, <1>5, <2>1, <2>2, QuietInv
<1>6. CASE UNCHANGED <<transfer, tmo, netloop, result, toServer>>
  <2>1. TimerInv'
    BY <1>0, <1>6 DEF TimerInv, netloop
  <2> QED BY <1>0, <1>2, <1>6, <2>1, QuietInv DEF netloop
<1> QED BY <1>1, <1>3, <1>4, <1>5, <1>6

\* TftpTimeout repeats a request or acknowledges what is stored.
LEMMA TimeoutInv ==
  ASSUME TypeInv, MemInv, Timeout
  PROVE  MemInv'
<1>0. /\ LoopType /\ PassType /\ TimerInv /\ ClientInv /\ NetState # "success"
      /\ UNCHANGED <<transfer, TftpOurPort, result, ret, toClient, sess>>
  BY TypeParts DEF Timeout, MemInv
<1>1. CASE timeHandler = "tftp" /\ NetStartAgain("none") /\ UNCHANGED toServer
  <2>0. packetHandler = "tftp"
    BY <1>0, <1>1 DEF TimerInv, LoopType
  <2>1. /\ TimerInv' /\ (NetState = "fail" => NetState' = "fail")
        /\ (NetState' = "success" => NetState = "success")
    BY <1>0, <1>1, <2>0, StartAgainInv
  <2> QED BY <1>0, <1>1, <2>0, <2>1, QuietInv
<1>2. CASE /\ timeHandler = "tftp" /\ timeHandler' = "tftp"
           /\ toServer' = toServer \cup {TftpSend(TftpState, TftpServerPort, TftpBlock)}
           /\ UNCHANGED <<NetState, NetTryCount, packetHandler>>
  <2>0. packetHandler = "tftp"
    BY <1>0, <1>2 DEF TimerInv, LoopType
  <2>1. TimerInv'
    BY <1>0, <1>2 DEF TimerInv
  <2>2. PICK a : a = TftpSend(TftpState, TftpServerPort, TftpBlock)
    OBVIOUS
  <2>3. a.src = TftpOurPort /\ a.src <= TftpOurPort'
    BY <1>0, <2>2 DEF TftpSend, Rrq, Ack, PassType
  <2>4. ToServerInv(a)'
    <3>1. CASE TftpState = "rrq"
      BY <2>2, <2>3, <3>1 DEF ToServerInv, TftpSend, Rrq
    <3>2. CASE TftpState # "rrq"
      <4>1. /\ a.type = "ack" /\ a.dst = TftpServerPort /\ a.seq = TftpBlock
            /\ UNCHANGED <<TftpState, TftpServerPort, ram>>
        BY <1>0, <2>2, <3>2 DEF TftpSend, Ack, transfer, result
      <4>2. a.seq = 0 \/ Has(a.seq, sess[a.dst].size) \/ NetState = "fail"
        BY <1>0, <2>0, <3>2, <4>1 DEF ClientInv
      <4>3. Has(a.seq, sess[a.dst].size) => Has(a.seq, sess[a.dst].size)'
        BY <1>0, <4>1 DEF Has, Bytes
      <4> QED BY <1>2, <2>3, <3>2, <4>1, <4>2, <4>3 DEF ToServerInv
    <3> QED BY <3>1, <3>2
  <2>5. \A q \in toServer' : q \in toServer \/ ToServerInv(q)'
    BY <1>2, <2>2, <2>4
  <2> QED BY <1>0, <1>2, <2>0, <2>1, <2>5, QuietInv
<1>3. CASE /\ timeHandler = "again" /\ NetState' = "restart" /\ timeHandler' = "none"
           /\ UNCHANGED <<NetTryCount, packetHandler, toServer>>
  <2>1. TimerInv' /\ NetState # "fail"
    BY <1>0, <1>3 DEF TimerInv
  <2> QED BY <1>0, <1>3, <2>1, QuietInv
<1> QED BY <1>1, <1>2, <1>3 DEF Timeout, TftpTimeout

\* A new attempt has a new port, so that nothing in flight is for it.
LEMMA RestartInv ==
  ASSUME ~FixedPort, TypeInv, MemInv, NetRestart(StartPort), NetState = "restart",
         UNCHANGED <<ram, ret, toClient, sess>>, ret = "running"
  PROVE  MemInv'
<1>0. /\ PassType /\ SentType /\ ServerType
      /\ RamInv /\ ClientInv /\ SuccessInv /\ SessionsInv /\ PacketsInv
  BY TypeParts DEF MemInv
<1>1. /\ TftpOurPort' = TftpOurPort + 1 /\ TftpOurPort \in Nat
      /\ TftpState' = "rrq" /\ TftpBlock' = 0 /\ TftpBlkSize' = DefBlk
      /\ NetState' = "continue" /\ packetHandler' = "tftp" /\ timeHandler' = "tftp"
      /\ toServer' = toServer \cup {Rrq(TftpOurPort + 1)} /\ NetBootFileXferSize' = 0
  BY <1>0 DEF NetRestart, StartPort, PassType
<1>2. ServerPorts' = ServerPorts /\ Bytes' = Bytes
  BY DEF ServerPorts, Bytes
<1>3. RamInv' /\ ClientInv' /\ TimerInv' /\ SuccessInv'
  BY <1>0, <1>1, <1>2, BlockSizes DEF RamInv, ClientInv, TimerInv, SuccessInv
<1>4. ASSUME NEW s \in ServerPorts PROVE SessInv(s)'
  <2>1. SessInv(s)
    BY <1>0 DEF SessionsInv
  <2>2. sess[s].port \in Nat
    <3>1. sess[s] \in Session
      BY <1>0 DEF ServerType, ServerPorts
    <3> QED BY <3>1 DEF Session
  <2>3. sess[s].port <= TftpOurPort' /\ sess[s].port # TftpOurPort'
    BY <1>1, <2>1, <2>2 DEF SessInv
  <2> QED BY <1>2, <2>1, <2>3 DEF SessInv
<1>5. ASSUME NEW m \in toServer' PROVE ToServerInv(m)'
  <2>1. CASE m = Rrq(TftpOurPort + 1)
    BY <1>1, <2>1 DEF ToServerInv, Rrq
  <2>2. CASE m \in toServer
    <3>1. ToServerInv(m) /\ m.src \in Nat
      BY <1>0, <2>2 DEF PacketsInv, SentType, ClientPkt
    <3>2. m.src <= TftpOurPort' /\ m.src # TftpOurPort'
      BY <1>1, <3>1 DEF ToServerInv
    <3>3. \A b, n : Has(b, n) => Has(b, n)'
      BY HasKept
    <3> QED BY <3>1, <3>2, <3>3 DEF ToServerInv
  <2> QED BY <1>1, <1>5, <2>1, <2>2
<1>6. \A m \in toClient' : ToClientInv(m)'
  BY <1>0 DEF PacketsInv, ToClientInv
<1> QED BY <1>2, <1>3, <1>4, <1>5, <1>6 DEF MemInv, SessionsInv, PacketsInv

LEMMA SwitchInv ==
  ASSUME ~FixedPort, TypeInv, MemInv, LoopSwitch
  PROVE  MemInv'
<1>1. CASE NetState = "restart" /\ NetRestart(StartPort) /\ UNCHANGED <<NetTryCount, ram, ret>>
  BY <1>1, RestartInv DEF LoopSwitch
<1>2. CASE /\ ret' = IF NetState = "success" THEN "ok" ELSE "fail"
           /\ UNCHANGED <<transfer, TftpOurPort, tmo, netloop, result, toServer>>
  <2>1. TimerInv'
    BY <1>2 DEF MemInv, TimerInv, netloop
  <2>2. UNCHANGED <<toClient, sess>>
    BY DEF LoopSwitch
  <2> QED BY <1>2, <2>1, <2>2, QuietInv DEF netloop
<1> QED BY <1>1, <1>2 DEF LoopSwitch

LEMMA AbortInv ==
  ASSUME TypeInv, MemInv, Abort
  PROVE  MemInv'
<1>1. TimerInv' /\ ret' = "fail"
  BY DEF Abort, MemInv, TimerInv, netloop
<1> QED BY <1>1, QuietInv DEF Abort, netloop

LEMMA StutterInv ==
  ASSUME TypeInv, MemInv, UNCHANGED vars
  PROVE  MemInv'
<1>1. TimerInv'
  BY DEF vars, client, MemInv, TimerInv, netloop
<1> QED BY <1>1, QuietInv DEF vars, client, netloop
----------------------------------------------------------------------------
(* The steps of the server and the network. *)

\* A step that leaves the client alone: a transfer keeps its port and block size and
\* only goes forward, so what is in flight stays right.
LEMMA EnvInv ==
  ASSUME TypeInv, MemInv, UNCHANGED client, toServer' \subseteq toServer,
         ServerPorts \subseteq ServerPorts',
         \A s \in ServerPorts : /\ sess'[s].port = sess[s].port /\ sess'[s].size = sess[s].size
                                /\ sess[s].blk <= sess'[s].blk /\ sess'[s].blk \in Nat,
         \A s \in ServerPorts' : (s \in ServerPorts /\ sess'[s].blk = sess[s].blk) \/ SessInv(s)',
         \A m \in toClient' : m \in toClient \/ ToClientInv(m)'
  PROVE  MemInv'
<1>0. /\ TransferType /\ SentType /\ ServerType
      /\ RamInv /\ ClientInv /\ TimerInv /\ SuccessInv /\ SessionsInv /\ PacketsInv
  BY TypeParts DEF MemInv
<1>1. /\ UNCHANGED <<TftpState, TftpServerPort, TftpBlock, TftpLastBlock, TftpBlockWrapOffset>>
      /\ UNCHANGED <<TftpBlkSize, ram, NetBootFileXferSize, TftpOurPort, ret>>
      /\ UNCHANGED <<NetState, NetTryCount, packetHandler, timeHandler>>
      /\ Bytes' = Bytes
  BY DEF client, transfer, netloop, result, Bytes
<1>2. RamInv' /\ TimerInv' /\ SuccessInv'
  BY <1>0, <1>1 DEF RamInv, TimerInv, SuccessInv
<1>3. \A b, n : Has(b, n)' = Has(b, n)
  BY <1>1 DEF Has
<1>4. ClientInv'
  <2>1. Has(TftpBlock, TftpBlkSize)' = Has(TftpBlock, TftpBlkSize)
    BY <1>1 DEF Has
  <2>2. Has(TftpLastBlock, TftpBlkSize)' = Has(TftpLastBlock, TftpBlkSize)
    BY <1>1 DEF Has
  <2>3. TftpState # "rrq" => TftpServerPort \in ServerPorts
    BY <1>0 DEF SentType
  <2>4. TftpState # "rrq" =>
          /\ sess'[TftpServerPort].port = TftpOurPort
          /\ sess'[TftpServerPort].size = TftpBlkSize
    BY <1>0, <2>3 DEF ClientInv
  <2> QED BY <1>0, <1>1, <2>1, <2>2, <2>4 DEF ClientInv
<1>5. ASSUME NEW s \in ServerPorts' PROVE SessInv(s)'
  <2>1. CASE s \in ServerPorts /\ sess'[s].blk = sess[s].blk
    <3>1. SessInv(s)
      BY <1>0, <2>1 DEF SessionsInv
    <3> QED BY <1>1, <2>1, <3>1 DEF SessInv
  <2> QED BY <1>5, <2>1
<1>6. ASSUME NEW m \in toClient' PROVE ToClientInv(m)'
  <2>1. CASE m \in toClient
    <3>1. m.src \in ServerPorts /\ ToClientInv(m) /\ m.seq \in Int
      BY <1>0, <2>1 DEF ServerType, ServerPkt, PacketsInv
    <3>2. sess[m.src].blk \in Nat
      <4>1. sess[m.src] \in Session
        BY <1>0, <3>1 DEF ServerType, ServerPorts
      <4> QED BY <4>1 DEF Session
    <3>3. m.seq <= sess[m.src].blk => m.seq <= sess'[m.src].blk
      BY <3>1, <3>2
    <3> QED BY <3>1, <3>3 DEF ToClientInv
  <2> QED BY <1>6, <2>1
<1>7. ASSUME NEW m \in toServer' PROVE ToServerInv(m)'
  <2>1. ToServerInv(m) /\ (m.type = "ack" => m.dst \in ServerPorts)
    BY <1>0, <1>7 DEF PacketsInv, SentType
  <2> QED BY <1>1, <1>3, <2>1 DEF ToServerInv
<1> QED BY <1>2, <1>4, <1>5, <1>6, <1>7 DEF MemInv, SessionsInv, PacketsInv

\* What a transfer has outstanding is a block of the file under its own number.
OutstandingRight ==
    Separate /\ ServerType =>
        \A s \in ServerPorts : \A a : SessInv(s) /\ a = Outstanding(s, sess[s]) => ToClientInv(a)

LEMMA OutstandingInv == OutstandingRight
<1> SUFFICES ASSUME Separate, ServerType, NEW s \in ServerPorts, SessInv(s)
             PROVE  ToClientInv(Outstanding(s, sess[s]))
  BY DEF OutstandingRight
<1>1. sess[s] \in Session
  BY DEF ServerType, ServerPorts
<1>2. sess[s].blk \in Nat
  BY <1>1 DEF Session
<1>3. CASE sess[s].blk = 0
  BY <1>3 DEF Outstanding, ToClient, ToClientInv, SessInv
<1>4. CASE sess[s].blk # 0
  <2>1. sess[s].blk % SeqSize = sess[s].blk
    BY <1>2, BlockNumber DEF SessInv
  <2>2. 1 <= sess[s].blk /\ sess[s].blk <= sess[s].blk
    BY <1>2, <1>4
  <2> QED BY <1>4, <2>1, <2>2 DEF Outstanding, ToClient, ToClientInv
<1> QED BY <1>3, <1>4

LEMMA OutstandingInvNext ==
  ASSUME Separate, TypeInv', NEW s \in ServerPorts', SessInv(s)', NEW a,
         a = Outstanding(s, sess'[s])
  PROVE  ToClientInv(a)'
<1>1. OutstandingRight'
  BY OutstandingInv, PTL
<1>2. Separate' /\ ServerType'
  <2>1. ServerType'
    BY TypeParts, PTL
  <2> QED BY <2>1 DEF Separate
<1> QED BY <1>1, <1>2 DEF OutstandingRight

\* A request starts a transfer at its first block.
LEMMA RequestInv ==
  ASSUME Separate, TypeInv, MemInv, ServerRequest
  PROVE  MemInv'
<1>0. SentType /\ ServerType /\ PacketsInv /\ UNCHANGED client
  BY TypeParts DEF MemInv, ServerRequest
<1>t. TypeInv'
  BY RequestTypes
<1>1. PICK m \in toServer, n \in ServerSizes : \E b \in Starts(n) :
           LET x == [port |-> m.src, live |-> TRUE, size |-> n, blk |-> b] IN
           /\ m.type = "rrq" /\ x \in Session
           /\ sess' = Append(sess, x) /\ Len(sess') = Len(sess) + 1
           /\ sess' \in Seq(Session)
           /\ sess'[Len(sess) + 1] = x /\ \A s \in ServerPorts : sess'[s] = sess[s]
           /\ toClient' = toClient \cup {Outstanding(Len(sess) + 1, x)}
           /\ toServer' = toServer \ {m}
  BY RequestFacts
<1>b. PICK b \in Starts(n) :
           LET x == [port |-> m.src, live |-> TRUE, size |-> n, blk |-> b] IN
           /\ m.type = "rrq" /\ x \in Session
           /\ sess' = Append(sess, x) /\ Len(sess') = Len(sess) + 1
           /\ sess' \in Seq(Session)
           /\ sess'[Len(sess) + 1] = x /\ \A s \in ServerPorts : sess'[s] = sess[s]
           /\ toClient' = toClient \cup {Outstanding(Len(sess) + 1, x)}
           /\ toServer' = toServer \ {m}
  BY <1>1
<1>2. PICK x : x = [port |-> m.src, live |-> TRUE, size |-> n, blk |-> b]
  OBVIOUS
<1>d. PICK d : d = Len(sess) + 1
  OBVIOUS
<1>3. /\ x \in Session /\ Len(sess') = Len(sess) + 1
      /\ sess'[d] = x /\ \A s \in ServerPorts : sess'[s] = sess[s]
      /\ toClient' = toClient \cup {Outstanding(d, x)}
      /\ toServer' = toServer \ {m}
  BY <1>b, <1>2, <1>d
<1>4. Len(sess) \in Nat
  BY <1>0 DEF ServerType
<1>5. ServerPorts' = ServerPorts \cup {d} /\ d \notin ServerPorts
  BY <1>3, <1>4, <1>d DEF ServerPorts
<1>6. SessInv(d)'
  <2>1. x.port = m.src /\ x.size = n /\ x.blk = b /\ x.size \in ServerSizes
    BY <1>2
  <2>2. m.src <= TftpOurPort /\ TftpOurPort' = TftpOurPort
    BY <1>0 DEF PacketsInv, ToServerInv, client
  <2>3. n \in Nat \ {0} /\ FileLen \in Nat
    BY BlockSizes
  <2>5. Off(b, n) \in Int /\ Off(b, n) <= 0
    <3>1. Off(0, n) = -n /\ Off(1, n) = 0
      BY <2>3, OffFacts
    <3> QED BY <2>3, <3>1 DEF Starts
  <2>6. Off(b, n) <= FileLen
    BY <2>3, <2>5
  <2>7. \A i \in Bytes : ~(i < Off(b, n))
    BY <2>3, <2>5 DEF Bytes
  <2>8. Bytes' = Bytes
    BY DEF Bytes
  <2> QED BY <1>3, <2>1, <2>2, <2>6, <2>7, <2>8 DEF SessInv
<1>7. \A q \in toClient' : q \in toClient \/ ToClientInv(q)'
  <2>1. PICK a : a = Outstanding(d, x)
    OBVIOUS
  <2>2. ToClientInv(a)'
    BY <1>t, <1>3, <1>5, <1>6, <2>1, OutstandingInvNext
  <2> QED BY <1>3, <2>1, <2>2
<1>8. \A s \in ServerPorts : sess[s].blk <= sess'[s].blk /\ sess'[s].blk \in Nat
  <2> TAKE s \in ServerPorts
  <2>1. sess[s] \in Session
    BY <1>0 DEF ServerType, ServerPorts
  <2>2. sess[s].blk \in Nat
    BY <2>1 DEF Session
  <2> QED BY <1>3, <2>2
<1> QED BY <1>0, <1>3, <1>5, <1>6, <1>7, <1>8, EnvInv

\* One transfer changes without changing its port, its block size or its block.
LEMMA EnvSame ==
  ASSUME TypeInv, MemInv, UNCHANGED client, toServer' \subseteq toServer, ServerPorts' = ServerPorts,
         \A s \in ServerPorts : /\ sess'[s].port = sess[s].port /\ sess'[s].size = sess[s].size
                                /\ sess'[s].blk = sess[s].blk,
         \A m \in toClient' : m \in toClient \/ ToClientInv(m)'
  PROVE  MemInv'
<1>1. \A s \in ServerPorts : sess[s].blk \in Nat /\ sess[s].blk <= sess[s].blk
  <2> TAKE s \in ServerPorts
  <2>1. sess[s] \in Session
    BY TypeParts DEF ServerType, ServerPorts
  <2>2. sess[s].blk \in Nat
    BY <2>1 DEF Session
  <2> QED BY <2>2
<1> QED BY <1>1, EnvInv

\* The server goes on only past a block the client has stored: the acknowledgement is
\* for the block outstanding, its number is that of no other block, and a transfer of
\* this attempt gets acknowledgements only if it is the one the client has chosen.
LEMMA AckInv ==
  ASSUME Separate, TypeInv, MemInv, ServerAck, NetState # "fail"
  PROVE  MemInv'
<1>0. /\ PassType /\ SentType /\ sess \in Seq(Session) /\ SessionsInv /\ PacketsInv
      /\ UNCHANGED client
  BY TypeParts DEF MemInv, ServerAck, ServerType
<1>t. TypeInv'
  BY AckTypes
<1>1. PICK m \in toServer :
           /\ m.type = "ack" /\ m.dst \in ServerPorts
           /\ toServer' = toServer \ {m}
           /\ \/ UNCHANGED <<sess, toClient>>
              \/ /\ sess' = [sess EXCEPT ![m.dst].live = FALSE]
                 /\ UNCHANGED toClient
              \/ /\ sess' = [sess EXCEPT ![m.dst].blk = @ + 1]
                 /\ toClient' = toClient \cup {Outstanding(m.dst, sess'[m.dst])}
                 /\ m.src = sess[m.dst].port /\ m.seq = sess[m.dst].blk % SeqSize
                 /\ sess[m.dst].blk = 0
                    \/ ~(BlkLen(sess[m.dst].blk, sess[m.dst].size) < sess[m.dst].size)
  BY AckFacts
<1>d. PICK d : d = m.dst
  OBVIOUS
<1>2. CASE UNCHANGED <<sess, toClient>>
  BY <1>0, <1>1, <1>2, EnvSame DEF ServerPorts
<1>3. CASE sess' = [sess EXCEPT ![m.dst].live = FALSE] /\ UNCHANGED toClient
  <2>1. /\ ServerPorts' = ServerPorts
        /\ \A s \in ServerPorts : s # d => sess'[s] = sess[s]
        /\ sess'[d].port = sess[d].port /\ sess'[d].size = sess[d].size
        /\ sess'[d].blk = sess[d].blk
    <3>1. PICK y : y = [sess[d] EXCEPT !.live = FALSE]
      OBVIOUS
    <3>2. /\ sess' = [sess EXCEPT ![d] = y] /\ y \in Session
          /\ y.blk = sess[d].blk /\ y.size = sess[d].size /\ y.port = sess[d].port
      BY <1>0, <1>1, <1>3, <1>d, <3>1, SessMoves
    <3>3. /\ ServerPorts' = ServerPorts /\ sess'[d] = y
          /\ \A s \in ServerPorts : s # d => sess'[s] = sess[s]
      <4>1. d \in ServerPorts /\ sess \in Seq(Session)
        BY <1>0, <1>1, <1>d
      <4> QED BY <4>1, <3>2, SessUpdate
    <3> QED BY <3>2, <3>3
  <2>2. \A s \in ServerPorts : /\ sess'[s].port = sess[s].port /\ sess'[s].size = sess[s].size
                               /\ sess'[s].blk = sess[s].blk
    BY <2>1
  <2> QED BY <1>0, <1>1, <1>3, <2>1, <2>2, EnvSame
<1>4. CASE /\ sess' = [sess EXCEPT ![m.dst].blk = @ + 1]
           /\ toClient' = toClient \cup {Outstanding(m.dst, sess'[m.dst])}
           /\ m.src = sess[m.dst].port /\ m.seq = sess[m.dst].blk % SeqSize
           /\ sess[m.dst].blk = 0
              \/ ~(BlkLen(sess[m.dst].blk, sess[m.dst].size) < sess[m.dst].size)
  <2>b. PICK b : b = sess[d].blk
    OBVIOUS
  <2>n. PICK n : n = sess[d].size
    OBVIOUS
  <2>1. /\ ServerPorts' = ServerPorts
        /\ \A s \in ServerPorts : s # d => sess'[s] = sess[s]
        /\ sess'[d].port = sess[d].port /\ sess'[d].size = n /\ sess'[d].blk = b + 1
    <3>1. PICK x : x = [sess[d] EXCEPT !.blk = @ + 1]
      OBVIOUS
    <3>2. /\ sess' = [sess EXCEPT ![d] = x] /\ x \in Session
          /\ x.blk = b + 1 /\ x.size = n /\ x.port = sess[d].port
      BY <1>0, <1>1, <1>4, <1>d, <2>b, <2>n, <3>1, SessMoves
    <3>3. /\ ServerPorts' = ServerPorts /\ sess'[d] = x
          /\ \A s \in ServerPorts : s # d => sess'[s] = sess[s]
      <4>1. d \in ServerPorts /\ sess \in Seq(Session)
        BY <1>0, <1>1, <1>d
      <4> QED BY <4>1, <3>2, SessUpdate
    <3> QED BY <3>2, <3>3
  <2>2. d \in ServerPorts /\ SessInv(d) /\ b \in Nat /\ n \in ServerSizes /\ sess[d].port \in Nat
    <3>1. d \in ServerPorts /\ SessInv(d)
      BY <1>0, <1>1, <1>d DEF SessionsInv
    <3>2. sess[d] \in Session
      BY <1>0, <3>1 DEF ServerPorts
    <3> QED BY <2>b, <2>n, <3>1, <3>2 DEF SessInv, Session
  <2>3. n \in Nat \ {0} /\ FileLen \in Nat /\ Off(b, n) <= FileLen
    BY <2>b, <2>n, <2>2, BlockSizes DEF SessInv
  <2>4. m.seq = b
    BY <1>4, <1>d, <2>b, <2>2, <2>3, BlockNumber
  <2>5. Off(b + 1, n) <= FileLen /\ Off(b + 1, n) = Off(b, n) + n /\ Off(b, n) \in Int
    <3>1. Off(b + 1, n) = Off(b, n) + n /\ Off(b, n) \in Int /\ Off(0, n) = -n
      BY <2>2, <2>3, OffFacts
    <3>2. CASE b = 0
      BY <2>3, <3>1, <3>2
    <3>3. CASE b # 0
      <4>1. ~(BlkLen(b, n) < n)
        BY <1>4, <1>d, <2>b, <2>n, <3>3
      <4> QED BY <2>2, <2>3, <3>1, <3>3, <4>1, BlockEnd
    <3> QED BY <3>2, <3>3
  <2>6. \A i \in Bytes : i < Off(b + 1, n) => i \in DOMAIN ram
    <3> TAKE i \in Bytes
    <3> HAVE i < Off(b + 1, n)
    <3>1. i \in Nat
      BY <2>3 DEF Bytes
    <3>2. CASE i < Off(b, n)
      BY <2>b, <2>n, <2>2, <3>2 DEF SessInv
    <3>3. CASE ~(i < Off(b, n))
      <4>1. Off(b, n) <= i /\ i < Off(b, n) + n
        BY <2>5, <3>1, <3>3
      <4>2. b # 0
        <5>1. Off(0, n) = -n
          BY <2>3, OffFacts
        <5> QED BY <2>3, <3>1, <4>1, <5>1
      <4>3. Has(b, n)
        BY <1>0, <1>1, <1>d, <2>n, <2>4, <4>2 DEF PacketsInv, ToServerInv
      <4> QED BY <4>1, <4>3 DEF Has
    <3> QED BY <3>2, <3>3
  <2>7. sess[d].port = TftpOurPort => TftpState # "rrq" /\ d = TftpServerPort
    BY <1>0, <1>1, <1>4, <1>d DEF PacketsInv, ToServerInv
  <2>8. SessInv(d)'
    <3>1. UNCHANGED <<TftpOurPort, TftpState, TftpServerPort, ram>> /\ Bytes' = Bytes
      BY <1>0 DEF client, transfer, result, Bytes
    <3>2. sess[d].port <= TftpOurPort
      BY <2>2 DEF SessInv
    <3>3. b + 1 # 0
      BY <2>2
    <3> QED BY <2>1, <2>2, <2>5, <2>6, <2>7, <3>1, <3>2, <3>3 DEF SessInv
  <2>a. PICK a : a = Outstanding(d, sess'[d])
    OBVIOUS
  <2>9. ToClientInv(a)'
    BY <1>t, <2>1, <2>2, <2>8, <2>a, OutstandingInvNext
  <2>10. \A s \in ServerPorts :
            /\ sess'[s].port = sess[s].port /\ sess'[s].size = sess[s].size
            /\ sess[s].blk <= sess'[s].blk /\ sess'[s].blk \in Nat
    <3> TAKE s \in ServerPorts
    <3>1. sess[s] \in Session
      BY <1>0 DEF ServerPorts
    <3>2. sess[s].blk \in Nat
      BY <3>1 DEF Session
    <3> QED BY <2>b, <2>n, <2>1, <2>2, <3>2
  <2>11. \A s \in ServerPorts' : (s \in ServerPorts /\ sess'[s].blk = sess[s].blk) \/ SessInv(s)'
    BY <2>1, <2>8
  <2>12. \A q \in toClient' : q \in toClient \/ ToClientInv(q)'
    BY <1>4, <1>d, <2>a, <2>9
  <2>13. toServer' \subseteq toServer /\ ServerPorts \subseteq ServerPorts'
    BY <1>1, <2>1
  <2> QED BY <1>0, <2>10, <2>11, <2>12, <2>13, EnvInv
<1> QED BY <1>1, <1>2, <1>3, <1>4

LEMMA ResendInv ==
  ASSUME Separate, TypeInv, MemInv, ServerResend
  PROVE  MemInv'
<1>0. ServerType /\ SessionsInv /\ UNCHANGED <<client, toServer, sess>> /\ ServerPorts' = ServerPorts
  BY TypeParts DEF ServerResend, MemInv, ServerPorts
<1>1. PICK s \in ServerPorts : toClient' = toClient \cup {Outstanding(s, sess[s])}
  BY DEF ServerResend, ServerPorts
<1>2. ToClientInv(Outstanding(s, sess[s]))
  BY <1>0, OutstandingInv DEF OutstandingRight, SessionsInv
<1>3. PICK a : a = Outstanding(s, sess[s])
  OBVIOUS
<1>4. ToClientInv(a)'
  BY <1>0, <1>2, <1>3 DEF ToClientInv
<1>5. \A m \in toClient' : m \in toClient \/ ToClientInv(m)'
  BY <1>1, <1>3, <1>4
<1> QED BY <1>0, <1>5, EnvSame

LEMMA ErrorInv ==
  ASSUME TypeInv, MemInv, ServerError
  PROVE  MemInv'
<1>0. sess \in Seq(Session) /\ UNCHANGED <<client, toServer>>
  BY TypeParts DEF ServerError, ServerType
<1>1. PICK d \in ServerPorts :
         /\ sess' = [sess EXCEPT ![d].live = FALSE]
         /\ toClient' = toClient \cup {ToClient("error", d, sess[d].port, 0, 0, 0)}
  BY DEF ServerError, ServerPorts
<1>2. /\ ServerPorts' = ServerPorts
      /\ \A s \in ServerPorts : s # d => sess'[s] = sess[s]
      /\ sess'[d].port = sess[d].port /\ sess'[d].size = sess[d].size
      /\ sess'[d].blk = sess[d].blk
  BY <1>0, <1>1, SessMoves, SessUpdate
<1>3. \A s \in ServerPorts : /\ sess'[s].port = sess[s].port /\ sess'[s].size = sess[s].size
                             /\ sess'[s].blk = sess[s].blk
  BY <1>2
<1>4. PICK a : a = ToClient("error", d, sess[d].port, 0, 0, 0)
  OBVIOUS
<1>5. a.type = "error" /\ a.src = d /\ a.dst = sess[d].port
  BY <1>4 DEF ToClient
<1>6. ToClientInv(a)'
  BY <1>2, <1>5 DEF ToClientInv
<1>7. \A m \in toClient' : m \in toClient \/ ToClientInv(m)'
  BY <1>1, <1>4, <1>6
<1> QED BY <1>0, <1>2, <1>3, <1>7, EnvSame

LEMMA LoseInv ==
  ASSUME TypeInv, MemInv, Lose
  PROVE  MemInv'
<1>1. /\ UNCHANGED <<client, sess>> /\ ServerPorts' = ServerPorts
      /\ toServer' \subseteq toServer /\ toClient' \subseteq toClient
  BY DEF Lose, ServerPorts
<1> QED BY <1>1, EnvSame
----------------------------------------------------------------------------
(* The theorems. *)

LEMMA InitInv == Init => MemInv
<1> SUFFICES ASSUME Init PROVE MemInv
  OBVIOUS
<1>1. ServerPorts = {} /\ DOMAIN ram = {}
  BY DEF Init, ServerPorts
<1>2. RamInv /\ ClientInv /\ TimerInv /\ SuccessInv
  BY <1>1, BlockSizes DEF Init, RamInv, ClientInv, TimerInv, SuccessInv
<1>3. SessionsInv
  BY <1>1 DEF SessionsInv
<1>4. PacketsInv
  BY DEF Init, PacketsInv, ToServerInv, Rrq
<1> QED BY <1>2, <1>3, <1>4 DEF MemInv

LEMMA NextInv ==
  ASSUME Separate, TypeInv, MemInv, [Next]_vars
  PROVE  MemInv'
<1>1. CASE Environment
  BY <1>1, RequestInv, AckInv, ResendInv, ErrorInv, LoseInv DEF Environment
<1>2. CASE Receive
  BY <1>2, ReceiveInv
<1>3. CASE Timeout
  BY <1>3, TimeoutInv
<1>4. CASE LoopSwitch
  BY <1>4, SwitchInv DEF Separate
<1>5. CASE Abort
  BY <1>5, AbortInv
<1>6. CASE UNCHANGED vars
  BY <1>6, StutterInv
<1> QED BY <1>1, <1>2, <1>3, <1>4, <1>5, <1>6 DEF Next, Returned

LEMMA Invariant ==
  ASSUME Separate
  PROVE  Spec => []Inv
<1>1. Init => TypeInv /\ MemInv
  BY InitTypes, InitInv
<1>2. TypeInv /\ MemInv /\ [Next]_vars => TypeInv' /\ MemInv'
  BY NextTypes, NextInv
<1> QED BY <1>1, <1>2, InvParts, PTL DEF Spec

\* When NetLoop reports success, memory at load_addr holds the file and the size it
\* returns is the file's, whatever was lost, repeated or late and however often the
\* transfer was started again; for a file whose block numbers do not start again and
\* a source port that TftpStart changes with every attempt.
THEOREM SuccessMeansFile ==
  ASSUME Separate
  PROVE  Spec => []FileIntact
<1>1. Inv => FileIntact
  BY DEF Inv, RamInv, SuccessInv, FileIntact, Holds, Bytes
<1> QED BY <1>1, Invariant, PTL

\* store_block never writes outside the memory the file takes, under the same conditions.
THEOREM StoresWithinFile ==
  ASSUME Separate
  PROVE  Spec => []WithinFile
<1>1. Inv => WithinFile
  BY DEF Inv, RamInv, WithinFile, Bytes
<1> QED BY <1>1, Invariant, PTL

\* The server goes past a block only once store_block has put it into memory: every
\* acknowledgement TftpSend sends, also from TftpTimeout, is for stored data.
THEOREM AcksAreStored ==
  ASSUME Separate
  PROVE  Spec => []AckedStored
<1>1. ASSUME Inv PROVE AckedStored
  <2>1. \A s \in ServerPorts, i \in 0..(FileLen - 1) :
           i < Off(sess[s].blk, sess[s].size) => i \in DOMAIN ram
    BY <1>1 DEF Inv, SessInv, Bytes
  <2>2. \A i \in DOMAIN ram : ram[i] = i
    BY <1>1 DEF Inv, RamInv
  <2> QED BY <2>1, <2>2 DEF AckedStored
<1> QED BY <1>1, Invariant, PTL

\* While a transfer runs, TftpBlkSize is the size of the blocks the server sends,
\* whether it answered the option or not and also when its OACK arrives again.
THEOREM SizesAgree ==
  ASSUME Separate
  PROVE  Spec => []BlockSizeAgreed
<1>1. Inv => BlockSizeAgreed
  BY DEF Inv, ClientInv, BlockSizeAgreed
<1> QED BY <1>1, Invariant, PTL
=============================================================================
