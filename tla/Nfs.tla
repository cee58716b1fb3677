-------------------------------- MODULE Nfs --------------------------------
(***************************************************************************)
(* The NFS client of net/nfs.c inside NetLoop of net/net.c, against a      *)
(* portmapper, a mount and an NFS server over a network that loses,        *)
(* delays, reorders and duplicates packets.                                *)
(*                                                                         *)
(* Unit i of the file holds the value i.  nfs_path and nfs_filename are    *)
(* the number of symbolic links still to follow: 0 is the file itself.     *)
(* The board has one network device, so NetStartAgain waits and restarts.  *)
(* The static variables of nfs.c and net.c are the fields of c.            *)
(*                                                                         *)
(* The client compares the id of a reply with rpc_id, the id of its last   *)
(* request, and with nothing else.  A reply therefore carries, instead of  *)
(* the id, whether it answers the last request.  The servers keep no state *)
(* the client depends on, so a request turns into its answer when it is    *)
(* sent; a request or answer that is lost is an answer never received.     *)
(***************************************************************************)
EXTENDS Naturals, FiniteSets

CONSTANTS
    FileLen, NFS_READ_SIZE,     \* in units
    Links,                      \* symbolic links on the way to the file
    NFS_RETRY_COUNT,
    retrycnt,                   \* netretry
    MaxLate                     \* bound on the old answers still in flight

ASSUME NfsAssumption ==
    /\ FileLen \in Nat /\ NFS_READ_SIZE \in Nat \ {0} /\ Links \in Nat
    /\ NFS_RETRY_COUNT \in Nat /\ retrycnt \in Nat
    /\ MaxLate \in Nat

VARIABLES
    c,                  \* the client
    pass,               \* "switch": the timer was handled, NetState is next
    ret,                \* result of NetLoop: "running", "ok", "fail"
    air                 \* answers in flight

vars == <<c, pass, ret, air>>
----------------------------------------------------------------------------
(* Requests *)

\* The port NfsSend sends to in state st has been looked up.
PortKnown(s) ==
    CASE s.NfsState \in {"portmap_mount", "portmap_nfs"} -> TRUE
      [] s.NfsState \in {"mount", "umount"} -> s.NfsSrvMountPort
      [] OTHER -> s.NfsSrvNfsPort

\* nfs_umountall_req sends nothing when nothing is mounted.
Silent(s) == s.NfsState = "umount" /\ ~s.fs_mounted

Request(s) ==
    [proc |-> s.NfsState, off |-> s.nfs_offset,
     fh |-> IF s.NfsState \in {"mount", "lookup"} THEN s.nfs_path ELSE s.filefh]
----------------------------------------------------------------------------
(* The servers *)

Reply(q, st, fh, len) ==
    [last |-> TRUE, st |-> st, fh |-> fh, off |-> q.off, len |-> len]

\* What a request is answered with if nothing goes wrong.
Serve(q) ==
    CASE q.proc = "read" ->
            IF q.fh > 0 THEN Reply(q, "link", 0, 0)
            ELSE Reply(q, "ok", 0,
                   IF q.off >= FileLen THEN 0
                   ELSE IF FileLen - q.off < NFS_READ_SIZE THEN FileLen - q.off
                   ELSE NFS_READ_SIZE)
      [] q.proc = "readlink" -> Reply(q, "ok", q.fh - 1, 0)
      [] OTHER -> Reply(q, "ok", q.fh, 0)

\* A request is answered or refused; at a port never looked up it gets no answer.
Answers(s) ==
    IF ~PortKnown(s) THEN {}
    ELSE {Serve(Request(s))} \cup {Reply(Request(s), st, 0, 0) : st \in {"rpc", "status"}}
----------------------------------------------------------------------------
(* Sending *)

rpc_req_same_id(old) == old

\* rpc_req takes a new id for every request, also for one sent again: no answer
\* in flight is one to the last request any more.
rpc_req(old) == {[m EXCEPT !.last = FALSE] : m \in old}

\* NfsSend in the state s the handler leaves, with the answers old in flight.
NfsSend(s, old) ==
    /\ c' = s
    /\ IF Silent(s) THEN air' = old
       ELSE \E late \in {l \in SUBSET rpc_req(old) : Cardinality(l) <= MaxLate} :
              \/ ~PortKnown(s) /\ air' = late
              \/ \E m \in Answers(s) : air' = late \cup {m}

\* The handler returns without sending.
Quiet(s, old) == c' = s /\ air' = old

To(s, st) == [s EXCEPT !.NfsState = st]
----------------------------------------------------------------------------
(* net.c *)

NetStartAgain(s) ==
    IF s.NetTryCount >= retrycnt THEN [s EXCEPT !.NetState = "fail"]
    ELSE [s EXCEPT !.NetTryCount = @ + 1, !.packetHandler = "ignore",
                   !.timeHandler = "again"]

\* NfsStart.
NfsStart(s) ==
    [s EXCEPT !.NfsDownloadState = "fail", !.nfs_path = Links,
              !.timeHandler = "nfs", !.packetHandler = "nfs",
              !.NfsTimeoutCount = 0, !.NfsState = "portmap_mount"]

\* The switch on NetState that ends a pass of the loop.  restart: runs NfsStart
\* and only then forgets the size of the previous attempt.
LoopSwitch ==
    /\ ret = "running"
    /\ pass' = "rx"
    /\ \/ /\ c.NetState = "restart"
          /\ LET s == NfsStart([c EXCEPT !.NetState = "continue"])
             IN  NfsSend([s EXCEPT !.NetBootFileXferSize = 0], air)
          /\ UNCHANGED ret
       \/ /\ c.NetState \in {"success", "fail"}
          /\ ret' = IF c.NetState = "success" THEN "ok" ELSE "fail"
          /\ UNCHANGED <<c, air>>

\* ctrl-c ends the loop.
Abort ==
    /\ ret = "running" /\ pass = "rx"
    /\ ret' = "fail"
    /\ UNCHANGED <<c, pass, air>>

NfsTimeoutNoLimit(s) ==
    NfsSend([s EXCEPT !.NfsTimeoutCount = @ + 1, !.timeHandler = "nfs"], air)

NfsTimeoutOnce(s) ==
    LET t == [s EXCEPT !.NfsTimeoutCount = @ + 1]
    IN  IF t.NfsTimeoutCount > NFS_RETRY_COUNT THEN Quiet(NetStartAgain(t), air)
        ELSE NfsSend(t, air)

\* NfsTimeout; the loop has already cleared timeHandler.
NfsTimeout(s) ==
    LET t == [s EXCEPT !.NfsTimeoutCount = @ + 1]
    IN  IF t.NfsTimeoutCount > NFS_RETRY_COUNT THEN Quiet(NetStartAgain(t), air)
        ELSE NfsSend([t EXCEPT !.timeHandler = "nfs"], air)

\* The loop finds the timer expired.  Only reads restart it, so this may happen
\* whatever has been received.
Timeout ==
    /\ ret = "running" /\ pass = "rx"
    /\ LET s == [c EXCEPT !.timeHandler = "none"]
       IN  \/ c.timeHandler = "nfs" /\ NfsTimeout(s)
           \/ c.timeHandler = "again" /\ Quiet([s EXCEPT !.NetState = "restart"], air)
    /\ pass' = IF c'.NetState = "continue" THEN "rx" ELSE "switch"
    /\ UNCHANGED ret
----------------------------------------------------------------------------
(* NfsHandler, one action for each state.  m.st is "ok", "rpc" for an RPC  *)
(* that is refused, "status" for an NFS error, "link" for the error a read *)
(* of a symbolic link gives (NFSERR_INVAL, NFSERR_ISDIR).                  *)

AnyAnswer(m) == TRUE

\* The id of the reply is rpc_id.
IsAnswer(m) == m.last

\* rpc_lookup_reply; NfsHandler goes on whatever it returns.
PortmapMount(m, old) ==
    /\ c.NfsState = "portmap_mount"
    /\ NfsSend([To(c, "portmap_nfs") EXCEPT !.NfsSrvMountPort =
                IF IsAnswer(m) /\ m.st # "rpc" THEN m.st = "ok" ELSE @], old)

PortmapNfs(m, old) ==
    /\ c.NfsState = "portmap_nfs"
    /\ NfsSend([To(c, "mount") EXCEPT !.NfsSrvNfsPort =
                IF IsAnswer(m) /\ m.st # "rpc" THEN m.st = "ok" ELSE @], old)

Mount(m, old) ==
    /\ c.NfsState = "mount"
    /\ IF IsAnswer(m) /\ m.st = "ok"
       THEN NfsSend([To(c, "lookup") EXCEPT !.fs_mounted = TRUE], old)
       ELSE NfsSend(To(c, "umount"), old)

Umount(m, old) ==
    /\ c.NfsState = "umount"
    /\ IF IsAnswer(m) /\ m.st # "rpc"
       THEN Quiet([c EXCEPT !.fs_mounted = FALSE, !.NetState = c.NfsDownloadState], old)
       ELSE Quiet([c EXCEPT !.NetState = "fail"], old)

Lookup(m, old) ==
    /\ c.NfsState = "lookup"
    /\ IF IsAnswer(m) /\ m.st = "ok"
       THEN NfsSend([To(c, "read") EXCEPT !.filefh = m.fh, !.nfs_offset = 0], old)
       ELSE NfsSend(To(c, "umount"), old)

\* A relative link is appended to nfs_path, an absolute one replaces it.
ReadLink(m, old) ==
    /\ c.NfsState = "readlink"
    /\ IF IsAnswer(m) /\ m.st = "ok"
       THEN NfsSend([To(c, "mount") EXCEPT !.nfs_path = m.fh], old)
       ELSE NfsSend(To(c, "umount"), old)

StoreAtStart(s, m) ==
    [s EXCEPT !.ram = [i \in DOMAIN @ \cup 0..(m.len - 1) |->
                         IF i < m.len THEN m.off + i ELSE @[i]],
              !.NetBootFileXferSize = IF @ < m.len THEN m.len ELSE @]

\* store_block at nfs_offset: m.len units that start at unit m.off of the file.
store_block(s, m) ==
    LET at == s.nfs_offset
    IN  [s EXCEPT !.ram = [i \in DOMAIN @ \cup at..(at + m.len - 1) |->
                             IF i \in at..(at + m.len - 1) THEN m.off + (i - at) ELSE @[i]],
                  !.NetBootFileXferSize = IF @ < at + m.len THEN at + m.len ELSE @]

\* nfs_read_reply and its case in NfsHandler, which restarts the timer.
Read(m, old) ==
    LET s == [c EXCEPT !.timeHandler = "nfs"]
    IN  /\ c.NfsState = "read"
        /\ \/ /\ IsAnswer(m) /\ m.st = "ok" /\ m.len > 0
              /\ NfsSend([store_block(s, m) EXCEPT !.nfs_offset = @ + m.len], old)
           \/ /\ IsAnswer(m) /\ m.st = "ok" /\ m.len = 0
              /\ NfsSend([To(s, "umount") EXCEPT !.NfsDownloadState = "success"], old)
           \/ /\ IsAnswer(m) /\ m.st = "link"
              /\ NfsSend(To(s, "readlink"), old)
           \/ /\ ~(IsAnswer(m) /\ m.st \in {"ok", "link"})
              /\ NfsSend(To(s, "umount"), old)

NfsHandler(m, old) ==
    \/ PortmapMount(m, old) \/ PortmapNfs(m, old) \/ Mount(m, old) \/ Umount(m, old)
    \/ Lookup(m, old) \/ ReadLink(m, old) \/ Read(m, old)

\* eth_rx: one packet to the current handler; a doubled one leaves a copy behind.
Receive ==
    /\ ret = "running" /\ pass = "rx"
    /\ \E m \in air : \E old \in {air, air \ {m}} :
         \/ c.packetHandler = "nfs" /\ NfsHandler(m, old)
         \/ c.packetHandler # "nfs" /\ Quiet(c, old)
    /\ UNCHANGED <<pass, ret>>
----------------------------------------------------------------------------
\* NetLoop has called NfsStart for the first time.
FirstStart ==
    NfsStart([NfsState |-> "portmap_mount", fs_mounted |-> FALSE,
              nfs_offset |-> 0, NfsDownloadState |-> "fail", nfs_path |-> Links,
              filefh |-> Links, NfsSrvMountPort |-> FALSE, NfsSrvNfsPort |-> FALSE,
              NfsTimeoutCount |-> 0, NetState |-> "continue", NetTryCount |-> 1,
              packetHandler |-> "nfs", timeHandler |-> "nfs",
              NetBootFileXferSize |-> 0, ram |-> [i \in {} |-> 0]])
Init ==
    /\ c = FirstStart
    /\ \E m \in Answers(FirstStart) : air = {m}
    /\ pass = "rx" /\ ret = "running"

Returned == ret # "running" /\ UNCHANGED vars

Next == Receive \/ Timeout \/ LoopSwitch \/ Abort \/ Returned

Spec == Init /\ [][Next]_vars

\* The loop keeps turning: it polls the clock and NetState in every pass.
FairSpec == Spec /\ WF_vars(Timeout) /\ WF_vars(LoopSwitch)
----------------------------------------------------------------------------
States == {"portmap_mount", "portmap_nfs", "mount", "umount", "lookup", "read", "readlink"}
\* Memory at load_addr, no larger than the file.
Memory == UNION {[D -> 0..(FileLen - 1)] : D \in SUBSET (0..(FileLen - 1))}
Client ==
    [NfsState : States, fs_mounted : BOOLEAN, nfs_offset : Nat,
     NfsDownloadState : {"success", "fail"}, nfs_path : 0..Links, filefh : 0..Links,
     NfsSrvMountPort : BOOLEAN, NfsSrvNfsPort : BOOLEAN,
     NfsTimeoutCount : 0..(NFS_RETRY_COUNT + 1),
     NetState : {"continue", "restart", "success", "fail"},
     NetTryCount : {1} \cup 1..retrycnt,
     packetHandler : {"nfs", "ignore"}, timeHandler : {"none", "nfs", "again"},
     NetBootFileXferSize : Nat, ram : Memory]

(* Types; in particular store_block writes only where the file goes, and a *)
(* link is never followed past the file.                                   *)
TypeOK ==
    /\ c \in Client
    /\ pass \in {"rx", "switch"} /\ ret \in {"running", "ok", "fail"}
    /\ air \subseteq [last : BOOLEAN, st : {"ok", "rpc", "status", "link"},
                      fh : 0..Links, off : 0..FileLen, len : 0..NFS_READ_SIZE]

(* NetLoop reports success only with the whole file in memory and its size *)
(* as the result, whatever was lost, late, doubled or refused on the way.  *)
FileIntact ==
    ret = "ok" => /\ \A i \in 0..(FileLen - 1) : i \in DOMAIN c.ram /\ c.ram[i] = i
                  /\ c.NetBootFileXferSize = FileLen

(* While the file is read, memory holds the part of it before nfs_offset:  *)
(* a reply to an earlier request never moves the offset or fills the gap.  *)
PrefixStored ==
    c.NfsState = "read" /\ c.NetState # "restart" =>
        \A i \in 0..(c.nfs_offset - 1) : i \in DOMAIN c.ram /\ c.ram[i] = i

(* With a limited netretry the command returns: NfsTimeoutCount, which no  *)
(* answer sets back, ends every attempt, also the one that waits for the   *)
(* answer to an umount it never sent.                                      *)
Terminates == <>(ret # "running")
============================================================================
