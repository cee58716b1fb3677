-------------------------------- MODULE Tftp --------------------------------
(***************************************************************************)
(* A tftp download: the client of net/tftp.c inside the receive loop       *)
(* NetLoop of net/net.c, against a lock-step TFTP server over a network    *)
(* that loses, delays, reorders and duplicates packets.                    *)
(*                                                                         *)
(* Memory and the file are counted in units; unit i of the file holds the  *)
(* value i, so a packet's payload is the unit it starts at and its length. *)
(* The board has one network device, so NetStartAgain always waits and     *)
(* then restarts (NetRestartWrap is set by eth_try_another).  The address  *)
(* resolution of the first packet is not distinguished from its delivery.  *)
(* The file name, the progress marks and the multicast option (not built)  *)
(* are left out.                                                           *)
(***************************************************************************)
EXTENDS Integers, Sequences, FiniteSets

CONSTANTS
    FileLen,        \* length of the file, in units
    DefBlk,         \* TFTP_BLOCK_SIZE
    OptBlk,         \* TftpBlkSizeOption
    SeqSize,        \* TFTP_SEQUENCE_SIZE
    ServerSizes,    \* block sizes servers use: OptBlk if they know the option
    ServerRetries,  \* block sizes of the servers that retransmit
    FixedPort,      \* is the client's port given by tftpsrcp?
    CountMax,       \* TIMEOUT_COUNT
    RRQCountMax,    \* TftpRRQTimeoutCountMax
    retrycnt,       \* netretry; retry_forever is a count never reached
    MaxLoss, MaxDup, MaxErr     \* bounds on the faults of the network and server

ASSUME TftpAssumption ==
    /\ FileLen \in Nat /\ DefBlk \in Nat \ {0} /\ OptBlk \in Nat \ {0}
    /\ SeqSize \in Nat /\ SeqSize >= 2
    /\ ServerSizes \subseteq {DefBlk, OptBlk}
    /\ ServerRetries \subseteq ServerSizes /\ FixedPort \in BOOLEAN
    /\ CountMax \in Nat /\ RRQCountMax \in Nat /\ retrycnt \in Nat
    /\ MaxLoss \in Nat /\ MaxDup \in Nat /\ MaxErr \in Nat

VARIABLES
    TftpState,              \* "rrq", "oack" or "data"
    TftpServerPort,         \* the server's port: 0 is WELL_KNOWN_PORT
    TftpOurPort,
    TftpBlock,              \* sequence number of the packet last received
    TftpLastBlock,          \* sequence number of the block last stored
    TftpBlockWrapOffset,    \* in units
    TftpBlkSize,            \* in units
    TftpTimeoutCount, TftpTimeoutCountMax,
    NetState,               \* "continue", "restart", "success", "fail"
    pass,                   \* "switch": the timer was handled, NetState is next
    NetTryCount,
    packetHandler,          \* "tftp", or "ignore" for startAgainHandler
    timeHandler,            \* "none", "tftp", or "again" for startAgainTimeout
    NetBootFileXferSize,
    ram,                    \* units written at load_addr + i
    ret,                    \* result of NetLoop: "running", "ok", "fail"
    toServer, toClient,     \* packets in flight
    sess,                   \* the server's transfers; its port is the index
    lost, dups, errs        \* faults that have happened

transfer == <<TftpState, TftpServerPort, TftpBlock, TftpLastBlock,
              TftpBlockWrapOffset, TftpBlkSize>>
tmo      == <<TftpTimeoutCount, TftpTimeoutCountMax>>
netloop  == <<NetState, NetTryCount, packetHandler, timeHandler>>
result   == <<NetBootFileXferSize, ram>>
client   == <<transfer, TftpOurPort, tmo, netloop, pass, result, ret>>
faults   == <<lost, dups, errs>>
vars     == <<client, toServer, toClient, sess, faults>>
----------------------------------------------------------------------------
(* Packets.                                                                *)

Rrq(p)         == [type |-> "rrq", src |-> p, dst |-> 0, seq |-> 0]
Ack(p, s, n)   == [type |-> "ack", src |-> p, dst |-> s, seq |-> n]
ToClient(t, s, p, n, o, l) ==
    [type |-> t, src |-> s, dst |-> p, seq |-> n, off |-> o, len |-> l]

\* Block b of the file in blocks of n units: offset and length.
Off(b, n) == (b - 1) * n
BlkLen(b, n) ==
    IF Off(b, n) >= FileLen THEN 0
    ELSE IF FileLen - Off(b, n) < n THEN FileLen - Off(b, n) ELSE n

\* What transfer s of the server has outstanding.  An OACK has the blksize option,
\* here in len, if the server knows it.
Outstanding(s, x) ==
    IF x.blk = 0
    THEN ToClient("oack", s, x.port, 0, 0, IF x.size = OptBlk THEN OptBlk ELSE 0)
    ELSE ToClient("data", s, x.port, x.blk % SeqSize,
                  Off(x.blk, x.size), BlkLen(x.blk, x.size))

\* The packet TftpSend sends in state st.
TftpSend(st, srv, blk) ==
    IF st = "rrq" THEN Rrq(TftpOurPort) ELSE Ack(TftpOurPort, srv, blk)
----------------------------------------------------------------------------
(* net.c *)

NetStartAgainLate(th) ==
    IF NetTryCount > retrycnt
    THEN /\ NetState' = "fail"
         /\ timeHandler' = th
         /\ UNCHANGED <<NetTryCount, packetHandler>>
    ELSE /\ NetTryCount' = NetTryCount + 1
         /\ packetHandler' = "ignore"
         /\ timeHandler' = "again"
         /\ UNCHANGED NetState

\* NetStartAgain with one device; th is what the caller left in timeHandler.
NetStartAgain(th) ==
    IF NetTryCount >= retrycnt
    THEN /\ NetState' = "fail"
         /\ timeHandler' = th
         /\ UNCHANGED <<NetTryCount, packetHandler>>
    ELSE /\ NetTryCount' = NetTryCount + 1
         /\ packetHandler' = "ignore"
         /\ timeHandler' = "again"
         /\ UNCHANGED NetState

\* From restart: to the packet loop: NetState, TftpStart, and only then the
\* size of the previous attempt.  port is what get_timer() or tftpsrcp gives.
NetRestart(port) ==
    /\ NetState' = "continue"
    /\ TftpState' = "rrq"
    /\ TftpServerPort' = 0
    /\ TftpOurPort' = port
    /\ TftpBlock' = 0
    /\ TftpBlkSize' = DefBlk
    /\ TftpTimeoutCount' = 0
    /\ TftpTimeoutCountMax' = RRQCountMax
    /\ packetHandler' = "tftp"
    /\ timeHandler' = "tftp"
    /\ toServer' = toServer \cup {Rrq(port)}
    /\ NetBootFileXferSize' = 0
    /\ UNCHANGED <<TftpLastBlock, TftpBlockWrapOffset>>

StartPort == IF FixedPort THEN 1 ELSE TftpOurPort + 1

\* The switch on NetState that ends a pass of the loop.
LoopSwitch ==
    /\ ret = "running"
    /\ pass' = "rx"
    /\ \/ /\ NetState = "restart"
          /\ NetRestart(StartPort)
          /\ UNCHANGED <<NetTryCount, ram, ret>>
       \/ /\ NetState \in {"success", "fail"}
          /\ ret' = IF NetState = "success" THEN "ok" ELSE "fail"
          /\ UNCHANGED <<transfer, TftpOurPort, tmo, netloop, result, toServer>>
    /\ UNCHANGED <<toClient, sess, faults>>

\* ctrl-c ends the loop.
Abort ==
    /\ ret = "running"
    /\ pass = "rx"
    /\ ret' = "fail"
    /\ UNCHANGED <<transfer, TftpOurPort, tmo, netloop, pass, result>>
    /\ UNCHANGED <<toServer, toClient, sess, faults>>
----------------------------------------------------------------------------
(* TftpHandler *)

\* The packets the handler looks at: our port, and once the server has
\* answered only its port.
ForUsAnyPort(m) == TftpState # "rrq" => m.src = TftpServerPort
ForUs(m) ==
    /\ m.dst = TftpOurPort
    /\ TftpState # "rrq" => m.src = TftpServerPort

OackNoSize(m) ==
    /\ TftpState' = "oack"
    /\ TftpServerPort' = m.src
    /\ toServer' = toServer \cup {TftpSend("oack", m.src, TftpBlock)}
    /\ UNCHANGED <<TftpBlkSize, TftpBlock, TftpLastBlock, TftpBlockWrapOffset>>
    /\ UNCHANGED <<tmo, netloop, result>>

\* case TFTP_OACK: the block size changes only if the option is there.
Oack(m) ==
    /\ TftpState' = "oack"
    /\ TftpServerPort' = m.src
    /\ TftpBlkSize' = IF m.len = 0 THEN TftpBlkSize ELSE OptBlk
    /\ toServer' = toServer \cup {TftpSend("oack", m.src, TftpBlock)}
    /\ UNCHANGED <<TftpBlock, TftpLastBlock, TftpBlockWrapOffset>>
    /\ UNCHANGED <<tmo, netloop, result>>

\* Where the payload of the packet numbered n goes: store_block(n - 1).
OffsetNoMinus(n, wrap) == n * TftpBlkSize + wrap
Offset(n, wrap) == n * TftpBlkSize + wrap - TftpBlkSize

\* store_block: l units of payload, starting at unit o of the file, go to at.
store_block(at, o, l) ==
    /\ ram' = [i \in DOMAIN ram \cup at..(at + l - 1) |->
                 IF i \in at..(at + l - 1) THEN o + (i - at) ELSE ram[i]]
    /\ NetBootFileXferSize' =
         IF NetBootFileXferSize < at + l THEN at + l ELSE NetBootFileXferSize

\* The first block after RRQ or OACK starts the numbering afresh.
First == TftpState \in {"rrq", "oack"}

WrapOffsetNever(n) == IF First THEN 0 ELSE TftpBlockWrapOffset

\* TftpBlockWrapOffset once the number n of the packet has been seen.
WrapOffset(n) ==
    IF First THEN 0
    ELSE IF n = 0 THEN TftpBlockWrapOffset + TftpBlkSize * SeqSize
    ELSE TftpBlockWrapOffset

\* case TFTP_DATA
Data(m) ==
    LET lastBlock == IF First THEN 0 ELSE TftpLastBlock
        wrap      == WrapOffset(m.seq)
    IN  /\ TftpBlock' = m.seq
        /\ TftpState' = "data"
        /\ TftpServerPort' = m.src
        /\ TftpBlockWrapOffset' = wrap
        /\ UNCHANGED TftpBlkSize
        /\ \/ /\ First /\ m.seq # 1             \* not the first block
              /\ NetStartAgain(timeHandler)
              /\ TftpLastBlock' = lastBlock
              /\ UNCHANGED <<tmo, result, toServer>>
           \/ /\ ~First /\ m.seq = lastBlock    \* same block again
              /\ TftpLastBlock' = lastBlock
              /\ UNCHANGED <<tmo, netloop, result, toServer>>
           \/ /\ First => m.seq = 1
              /\ m.seq # lastBlock
              /\ TftpLastBlock' = m.seq
              /\ TftpTimeoutCountMax' = CountMax
              /\ timeHandler' = "tftp"
              /\ store_block(Offset(m.seq, wrap), m.off, m.len)
              /\ toServer' = toServer \cup {TftpSend("data", m.src, m.seq)}
              /\ NetState' = IF m.len < TftpBlkSize THEN "success" ELSE NetState
              /\ UNCHANGED <<TftpTimeoutCount, NetTryCount, packetHandler>>

\* case TFTP_ERROR
Error(m) ==
    /\ NetStartAgain(timeHandler)
    /\ UNCHANGED <<transfer, tmo, result, toServer>>

\* A packet is delivered; dup leaves a second copy of it in flight.
Deliver(m, dup) ==
    /\ dup => dups < MaxDup
    /\ dups' = IF dup THEN dups + 1 ELSE dups
    /\ toClient' = IF dup THEN toClient ELSE toClient \ {m}
    /\ UNCHANGED <<lost, errs>>

\* eth_rx: one packet to the current handler.
Receive ==
    /\ ret = "running" /\ pass = "rx"
    /\ \E m \in toClient, dup \in BOOLEAN :
         /\ Deliver(m, dup)
         /\ \/ /\ packetHandler = "tftp" /\ ForUs(m)
               /\ \/ m.type = "oack" /\ Oack(m)
                  \/ m.type = "data" /\ Data(m)
                  \/ m.type = "error" /\ Error(m)
            \/ /\ packetHandler # "tftp" \/ ~ForUs(m)
               /\ UNCHANGED <<transfer, tmo, netloop, result, toServer>>
    /\ UNCHANGED <<TftpOurPort, pass, ret, sess>>

\* TftpTimeout; the loop has already cleared timeHandler.
TftpTimeoutOnce ==
    IF TftpTimeoutCount + 1 > TftpTimeoutCountMax
    THEN NetStartAgain("none") /\ UNCHANGED toServer
    ELSE /\ timeHandler' = "none"
         /\ toServer' = toServer \cup {TftpSend(TftpState, TftpServerPort, TftpBlock)}
         /\ UNCHANGED <<NetState, NetTryCount, packetHandler>>
TftpTimeout ==
    IF TftpTimeoutCount + 1 > TftpTimeoutCountMax
    THEN NetStartAgain("none") /\ UNCHANGED toServer
    ELSE /\ timeHandler' = "tftp"
         /\ toServer' = toServer \cup {TftpSend(TftpState, TftpServerPort, TftpBlock)}
         /\ UNCHANGED <<NetState, NetTryCount, packetHandler>>

\* The loop finds the timer expired.  A block that ends the transfer has
\* just restarted the timer, so this never follows "success".
Timeout ==
    /\ ret = "running" /\ pass = "rx"
    /\ NetState # "success"
    /\ \/ /\ timeHandler = "tftp"
          /\ TftpTimeout
          /\ TftpTimeoutCount' = TftpTimeoutCount + 1
       \/ /\ timeHandler = "again"
          /\ NetState' = "restart"
          /\ timeHandler' = "none"
          /\ UNCHANGED <<NetTryCount, packetHandler, TftpTimeoutCount, toServer>>
    /\ pass' = IF NetState' = "continue" THEN "rx" ELSE "switch"
    /\ UNCHANGED <<transfer, TftpOurPort, TftpTimeoutCountMax, result, ret>>
    /\ UNCHANGED <<toClient, sess, faults>>
----------------------------------------------------------------------------
(* The server: lock-step, one transfer per request, a port of its own for  *)
(* each.  It takes up the blksize option always or never, and in the first *)
(* or for other options answers with an OACK; it goes on when the packet   *)
(* it sent is acknowledged, ignores any other acknowledgement and may send *)
(* its packet again at any time.                                           *)

\* Where a transfer in blocks of n units starts: 0 is an OACK.
Starts(n) == IF n = OptBlk THEN {0} ELSE {0, 1}

ServerRequest ==
    /\ \E m \in toServer, n \in ServerSizes : \E b \in Starts(n) :
         /\ m.type = "rrq"
         /\ Len(sess) > 0 => n = sess[1].size
         /\ LET x == [port |-> m.src, live |-> TRUE, size |-> n, blk |-> b]
            IN  /\ sess' = Append(sess, x)
                /\ toClient' = toClient \cup {Outstanding(Len(sess) + 1, x)}
         /\ toServer' = toServer \ {m}
    /\ UNCHANGED <<client, faults>>

ServerAck ==
    /\ \E m \in toServer :
         /\ m.type = "ack"
         /\ toServer' = toServer \ {m}
         /\ LET s == m.dst
                x == sess[s]
            IN  IF x.live /\ m.src = x.port /\ m.seq = x.blk % SeqSize
                THEN IF x.blk # 0 /\ BlkLen(x.blk, x.size) < x.size
                     THEN /\ sess' = [sess EXCEPT ![s].live = FALSE]
                          /\ UNCHANGED toClient
                     ELSE /\ sess' = [sess EXCEPT ![s].blk = @ + 1]
                          /\ toClient' = toClient \cup {Outstanding(s, sess'[s])}
                ELSE UNCHANGED <<sess, toClient>>
    /\ UNCHANGED <<client, faults>>

ServerResend ==
    /\ \E s \in 1..Len(sess) :
         /\ sess[s].live /\ sess[s].size \in ServerRetries
         /\ toClient' = toClient \cup {Outstanding(s, sess[s])}
    /\ UNCHANGED <<client, toServer, sess, faults>>

ServerError ==
    /\ errs < MaxErr
    /\ errs' = errs + 1
    /\ \E s \in 1..Len(sess) :
         /\ sess[s].live
         /\ sess' = [sess EXCEPT ![s].live = FALSE]
         /\ toClient' = toClient \cup {ToClient("error", s, sess[s].port, 0, 0, 0)}
    /\ UNCHANGED <<client, toServer, lost, dups>>

Lose ==
    /\ lost < MaxLoss
    /\ lost' = lost + 1
    /\ \/ \E m \in toServer : toServer' = toServer \ {m} /\ UNCHANGED toClient
       \/ \E m \in toClient : toClient' = toClient \ {m} /\ UNCHANGED toServer
    /\ UNCHANGED <<client, sess, dups, errs>>
----------------------------------------------------------------------------
Init ==
    /\ TftpState = "rrq" /\ TftpServerPort = 0 /\ TftpOurPort = 1
    /\ TftpBlock = 0 /\ TftpLastBlock = 0 /\ TftpBlockWrapOffset = 0
    /\ TftpBlkSize = DefBlk
    /\ TftpTimeoutCount = 0 /\ TftpTimeoutCountMax = RRQCountMax
    /\ NetState = "continue" /\ NetTryCount = 1 /\ pass = "rx"
    /\ packetHandler = "tftp" /\ timeHandler = "tftp"
    /\ NetBootFileXferSize = 0 /\ ram = [i \in {} |-> 0]
    /\ ret = "running"
    /\ toServer = {Rrq(1)} /\ toClient = {} /\ sess = <<>>
    /\ lost = 0 /\ dups = 0 /\ errs = 0

\* NetLoop has returned.
Returned == ret # "running" /\ UNCHANGED vars

\* What the server and the network do until the client has returned, or
\* eth_halt in NetStartAgain has stopped the receiver: what is sent later is
\* not received.  What the device holds already may still be.
Environment ==
    /\ ret = "running" /\ NetState # "fail"
    /\ ServerRequest \/ ServerAck \/ ServerResend \/ ServerError \/ Lose

Next == Receive \/ Timeout \/ LoopSwitch \/ Abort \/ Environment \/ Returned

Spec == Init /\ [][Next]_vars

\* The loop keeps turning: it polls the clock and NetState in every pass.
FairSpec == Spec /\ WF_vars(Timeout) /\ WF_vars(LoopSwitch)
----------------------------------------------------------------------------
ServerPorts == 1..Len(sess)
ClientPkt ==
    [type : {"rrq", "ack"}, src : Nat, dst : {0} \cup ServerPorts, seq : 0..(SeqSize - 1)]
ServerPkt ==
    [type : {"oack", "data", "error"}, src : ServerPorts, dst : Nat,
     seq : 0..(SeqSize - 1), off : Nat, len : Nat]

(* Types of the globals of tftp.c and net.c and of the packets.            *)
TypeOK ==
    /\ TftpState \in {"rrq", "oack", "data"}
    /\ TftpServerPort \in {0} \cup ServerPorts /\ TftpOurPort \in Nat
    /\ TftpBlock \in 0..(SeqSize - 1) /\ TftpLastBlock \in 0..(SeqSize - 1)
    /\ TftpBlockWrapOffset \in Nat /\ TftpBlkSize \in {DefBlk, OptBlk}
    /\ TftpTimeoutCountMax \in {RRQCountMax, CountMax}
    /\ TftpTimeoutCount \in Nat
    /\ NetState \in {"continue", "restart", "success", "fail"}
    /\ pass \in {"rx", "switch"}
    /\ NetTryCount \in {1} \cup 1..retrycnt
    /\ packetHandler \in {"tftp", "ignore"}
    /\ timeHandler \in {"none", "tftp", "again"}
    /\ NetBootFileXferSize \in Nat
    /\ DOMAIN ram \subseteq Nat /\ \A i \in DOMAIN ram : ram[i] \in Nat
    /\ ret \in {"running", "ok", "fail"}
    /\ toServer \subseteq ClientPkt /\ toClient \subseteq ServerPkt
    /\ sess \in Seq([port : Nat, live : BOOLEAN, blk : Nat, size : {DefBlk, OptBlk}])
    /\ lost \in 0..MaxLoss /\ dups \in 0..MaxDup /\ errs \in 0..MaxErr

Holds(n) == \A i \in 0..(n - 1) : i \in DOMAIN ram /\ ram[i] = i

(* When NetLoop reports success, memory at load_addr holds the file and    *)
(* the size it returns (and stores in "filesize") is the file's.           *)
FileIntact ==
    ret = "ok" => Holds(FileLen) /\ NetBootFileXferSize = FileLen

(* store_block never writes outside the memory the file takes.             *)
WithinFile == DOMAIN ram \subseteq 0..(FileLen - 1)

(* The server goes past a block only once the client has stored it: every  *)
(* acknowledgement TftpSend sends, also on a timeout, is for stored data.  *)
(* (A transfer that has already failed may acknowledge the block it failed *)
(* on, if the timer expires in the same pass of the loop.)                 *)
AckedStored ==
    NetState # "fail" => \A s \in ServerPorts :
        sess[s].blk # 0 => \A i \in 0..(FileLen - 1) :
            i < Off(sess[s].blk, sess[s].size) => i \in DOMAIN ram /\ ram[i] = i

(* While a transfer runs, client and server cut the file the same way.     *)
BlockSizeAgreed ==
    packetHandler = "tftp" /\ ~(TftpState = "rrq") =>
        sess[TftpServerPort].size = TftpBlkSize

(* With a limited netretry the command always returns: whatever is lost,   *)
(* the timer is armed again until the retries are used up.                 *)
Terminates == <>(ret # "running")
============================================================================
