----------------------------- MODULE NfsProofs -----------------------------
(***************************************************************************)
(* Proofs about Nfs, for every file, read size, number of symbolic links   *)
(* and number of retries.                                                  *)
(***************************************************************************)
EXTENDS Nfs, TLAPS

Packets == [last : BOOLEAN, st : {"ok", "rpc", "status", "link"},
            fh : 0..Links, off : 0..FileLen, len : 0..NFS_READ_SIZE]

\* The first n units of the file are in memory.
Stored(s, n) == \A i \in 0..(n - 1) : i \in DOMAIN s.ram /\ s.ram[i] = i

\* What the static variables say about memory, in each state.
ClientInv(s) ==
    /\ s.nfs_offset <= FileLen
    /\ s.NfsState \in {"portmap_mount", "portmap_nfs", "mount", "lookup"} =>
         s.NetBootFileXferSize = 0
    /\ s.NfsState \in {"read", "readlink"} => s.NetBootFileXferSize = s.nfs_offset
    /\ s.NfsState = "read" => Stored(s, s.nfs_offset)
    /\ s.NfsState = "read" /\ s.filefh > 0 => s.nfs_offset = 0
    /\ s.NfsState = "readlink" => s.filefh > 0 /\ s.nfs_offset = 0
    /\ s.NfsDownloadState = "success" =>
         s.NfsState = "umount" /\ Stored(s, FileLen) /\ s.NetBootFileXferSize = FileLen
    /\ s.NetState = "success" => s.NfsDownloadState = "success"

\* A reply that carries rpc_id is an answer to what the client asks now.  Only the
\* umount that is not sent leaves the id of an earlier request.
AirFor(s, a) ==
    \A m \in a : m.last /\ s.NfsState # "umount" =>
        m.st \in {"rpc", "status"} \/ m = Serve(Request(s))

\* Once the timeouts are used up nothing is handled before the restart.
CountInv ==
    c.NfsTimeoutCount > NFS_RETRY_COUNT /\ ret = "running" /\ pass = "rx" =>
        c.packetHandler = "ignore" /\ c.timeHandler # "nfs"

RetInv == ret = "ok" => c.NetState = "success"

Inv == TypeOK /\ ClientInv(c) /\ AirFor(c, air) /\ CountInv /\ RetInv
----------------------------------------------------------------------------
LEMMA ServeFacts ==
  ASSUME NEW q
  PROVE  /\ q.proc = "read" /\ q.fh > 0 => Serve(q) = Reply(q, "link", 0, 0)
         /\ q.proc = "read" /\ ~(q.fh > 0) => Serve(q) = Reply(q, "ok", 0,
                   IF q.off >= FileLen THEN 0
                   ELSE IF FileLen - q.off < NFS_READ_SIZE THEN FileLen - q.off
                   ELSE NFS_READ_SIZE)
         /\ q.proc = "readlink" => Serve(q) = Reply(q, "ok", q.fh - 1, 0)
         /\ q.proc \notin {"read", "readlink"} => Serve(q) = Reply(q, "ok", q.fh, 0)
BY DEF Serve

LEMMA ServeType ==
  ASSUME NEW s \in Client, ClientInv(s)
  PROVE  Serve(Request(s)) \in Packets
<1> DEFINE q == Request(s)
<1>1. /\ q.proc = s.NfsState /\ q.off = s.nfs_offset /\ q.fh \in 0..Links
      /\ q.off \in 0..FileLen
      /\ q.proc = "readlink" => q.fh > 0
  BY NfsAssumption DEF Request, Client, ClientInv
<1> HIDE DEF q
<1>2. \A st \in {"ok", "link"}, fh \in 0..Links, len \in 0..NFS_READ_SIZE :
        Reply(q, st, fh, len) \in Packets
  BY <1>1 DEF Reply, Packets
<1>3. Serve(q) \in Packets
  BY <1>1, <1>2, ServeFacts, NfsAssumption
<1> QED BY <1>3 DEF q

LEMMA AnswersType ==
  ASSUME NEW s \in Client, ClientInv(s), NEW m \in Answers(s)
  PROVE  m \in Packets /\ (m = Serve(Request(s)) \/ m.st \in {"rpc", "status"})
<1>1. CASE m = Serve(Request(s))
  BY <1>1, ServeType
<1>2. CASE \E st \in {"rpc", "status"} : m = Reply(Request(s), st, 0, 0)
  BY <1>2, NfsAssumption DEF Reply, Request, Packets, Client, ClientInv
<1> QED BY <1>1, <1>2 DEF Answers

\* Every way of sending leaves in flight only packets of their type, and among
\* them only answers to the new request carry its id.
LEMMA SendAir ==
  ASSUME NEW s \in Client, ClientInv(s), NEW old, old \subseteq Packets, NfsSend(s, old)
  PROVE  c' = s /\ air' \subseteq Packets /\ AirFor(s, air')
<1>1. CASE Silent(s)
  BY <1>1 DEF NfsSend, Silent, AirFor
<1>2. CASE ~Silent(s)
  <2>1. PICK late \in SUBSET rpc_req(old) :
           air' = late \/ \E m \in Answers(s) : air' = late \cup {m}
    BY <1>2 DEF NfsSend
  <2>2. \A m \in late : m \in Packets /\ ~m.last
    BY <2>1 DEF rpc_req, Packets
  <2> QED BY <2>1, <2>2, AnswersType DEF NfsSend, AirFor
<1> QED BY <1>1, <1>2

LEMMA StartAgainType ==
  ASSUME NEW s \in Client, ClientInv(s)
  PROVE  /\ NetStartAgain(s) \in Client /\ ClientInv(NetStartAgain(s))
         /\ NetStartAgain(s).NfsState = s.NfsState
         /\ Request(NetStartAgain(s)) = Request(s)
<1>1. NetStartAgain(s) \in Client
  <2>1. CASE s.NetTryCount >= retrycnt
    BY <2>1 DEF NetStartAgain, Client
  <2>2. CASE ~(s.NetTryCount >= retrycnt)
    <3> DEFINE n == s.NetTryCount + 1
    <3>1. n \in {1} \cup 1..retrycnt
      BY <2>2, NfsAssumption DEF Client
    <3>2. NetStartAgain(s) = [s EXCEPT !.NetTryCount = n, !.packetHandler = "ignore",
                                       !.timeHandler = "again"]
      BY <2>2 DEF NetStartAgain
    <3> HIDE DEF n
    <3> QED BY <3>1, <3>2 DEF Client
  <2> QED BY <2>1, <2>2
<1>2. /\ NetStartAgain(s).NetState \in {s.NetState, "fail"}
      /\ NetStartAgain(s).NfsState = s.NfsState
      /\ NetStartAgain(s).nfs_offset = s.nfs_offset
      /\ NetStartAgain(s).NfsDownloadState = s.NfsDownloadState
      /\ NetStartAgain(s).nfs_path = s.nfs_path
      /\ NetStartAgain(s).filefh = s.filefh
      /\ NetStartAgain(s).NetBootFileXferSize = s.NetBootFileXferSize
      /\ NetStartAgain(s).ram = s.ram
  BY DEF NetStartAgain, Client
<1>3. ClientInv(NetStartAgain(s))
  BY <1>2 DEF ClientInv, Stored
<1> QED BY <1>1, <1>2, <1>3 DEF Request

LEMMA AirKept ==
  ASSUME NEW s \in Client, NEW t \in Client, NEW a, NEW b, AirFor(s, a), b \subseteq a,
         t.NfsState = s.NfsState, Request(t) = Request(s)
  PROVE  AirFor(t, b)
BY DEF AirFor

LEMMA NfsStartType ==
  ASSUME NEW s \in Client, ClientInv(s), s.NetState = "continue",
         NEW t, t = [NfsStart(s) EXCEPT !.NetBootFileXferSize = 0]
  PROVE  t \in Client /\ ClientInv(t)
<1> DEFINE p == Links  k == 0  z == 0
<1>1. p \in 0..Links /\ k \in 0..(NFS_RETRY_COUNT + 1) /\ z \in Nat
  BY NfsAssumption
<1>2. t = [s EXCEPT !.NfsDownloadState = "fail", !.nfs_path = p, !.timeHandler = "nfs",
                    !.packetHandler = "nfs", !.NfsTimeoutCount = k,
                    !.NfsState = "portmap_mount", !.NetBootFileXferSize = z]
  BY DEF NfsStart
<1> HIDE DEF p, k, z
<1>3. t \in Client
  BY <1>1, <1>2, ZenonT(60) DEF Client, States
<1>4. /\ t.NetState = "continue" /\ t.NfsDownloadState = "fail"
      /\ t.NfsState = "portmap_mount" /\ t.nfs_offset = s.nfs_offset
      /\ t.NetBootFileXferSize = z
  BY <1>2 DEF Client
<1> QED BY <1>3, <1>4 DEF ClientInv, z
----------------------------------------------------------------------------
(* NfsHandler *)

\* What handling a packet leaves.
Handled ==
    /\ c' \in Client /\ ClientInv(c')
    /\ air' \subseteq Packets /\ AirFor(c', air')
    /\ c'.NfsTimeoutCount = c.NfsTimeoutCount

LEMMA SendHandled ==
  ASSUME NEW t \in Client, ClientInv(t), t.NfsTimeoutCount = c.NfsTimeoutCount,
         NEW old, old \subseteq Packets, NfsSend(t, old)
  PROVE  Handled
BY SendAir DEF Handled

\* A state in which nothing has been stored, and umount, say nothing about memory.
LEMMA UmountInv ==
  ASSUME NEW s \in Client, ClientInv(s), s.NfsState # "umount"
  PROVE  To(s, "umount") \in Client /\ ClientInv(To(s, "umount"))
<1>1. To(s, "umount") \in Client
  BY DEF To, Client, States
<1>2. /\ To(s, "umount").NfsState = "umount"
      /\ To(s, "umount").nfs_offset = s.nfs_offset
      /\ To(s, "umount").NfsDownloadState = s.NfsDownloadState
      /\ To(s, "umount").NetState = s.NetState
  BY DEF To, Client
<1> QED BY <1>1, <1>2 DEF ClientInv

LEMMA PortmapMountInv ==
  ASSUME Inv, NEW m \in air, NEW old, old \subseteq air, PortmapMount(m, old)
  PROVE  Handled
<1> DEFINE port == IF IsAnswer(m) /\ m.st # "rpc" THEN m.st = "ok" ELSE c.NfsSrvMountPort
           t == [To(c, "portmap_nfs") EXCEPT !.NfsSrvMountPort = port]
<1>1. port \in BOOLEAN /\ c \in Client /\ ClientInv(c) /\ old \subseteq Packets
  BY DEF Inv, TypeOK, Client, Packets
<1>2. NfsSend(t, old)
  BY DEF PortmapMount, To, Client, Inv, TypeOK
<1> HIDE DEF port
<1>3. t \in Client
  BY <1>1 DEF To, Client, States
<1>4. /\ t.NfsState = "portmap_nfs" /\ t.nfs_offset = c.nfs_offset
      /\ t.NfsDownloadState = c.NfsDownloadState /\ t.NetState = c.NetState
      /\ t.NetBootFileXferSize = c.NetBootFileXferSize
      /\ t.NfsTimeoutCount = c.NfsTimeoutCount
  BY <1>1 DEF To, Client
<1> HIDE DEF t
<1>5. ClientInv(t)
  BY <1>1, <1>4 DEF ClientInv, PortmapMount
<1> QED BY <1>1, <1>2, <1>3, <1>4, <1>5, SendHandled
LEMMA PortmapNfsInv ==
  ASSUME Inv, NEW m \in air, NEW old, old \subseteq air, PortmapNfs(m, old)
  PROVE  Handled
<1> DEFINE port == IF IsAnswer(m) /\ m.st # "rpc" THEN m.st = "ok" ELSE c.NfsSrvNfsPort
           t == [To(c, "mount") EXCEPT !.NfsSrvNfsPort = port]
<1>1. port \in BOOLEAN /\ c \in Client /\ ClientInv(c) /\ old \subseteq Packets
  BY DEF Inv, TypeOK, Client, Packets
<1>2. NfsSend(t, old)
  BY DEF PortmapNfs, To, Client, Inv, TypeOK
<1> HIDE DEF port
<1>3. t \in Client
  BY <1>1 DEF To, Client, States
<1>4. /\ t.NfsState = "mount" /\ t.nfs_offset = c.nfs_offset
      /\ t.NfsDownloadState = c.NfsDownloadState /\ t.NetState = c.NetState
      /\ t.NetBootFileXferSize = c.NetBootFileXferSize
      /\ t.NfsTimeoutCount = c.NfsTimeoutCount
  BY <1>1 DEF To, Client
<1> HIDE DEF t
<1>5. ClientInv(t)
  BY <1>1, <1>4 DEF ClientInv, PortmapNfs
<1> QED BY <1>1, <1>2, <1>3, <1>4, <1>5, SendHandled

\* A call that is refused, or not answered by the packet received, ends in umount.
LEMMA GiveUp ==
  ASSUME NEW s \in Client, ClientInv(s), s.NfsState # "umount",
         s.NfsTimeoutCount = c.NfsTimeoutCount,
         NEW old, old \subseteq Packets, NfsSend(To(s, "umount"), old)
  PROVE  Handled
<1>1. To(s, "umount").NfsTimeoutCount = c.NfsTimeoutCount
  BY DEF To, Client
<1> QED BY <1>1, UmountInv, SendHandled

LEMMA MountInv ==
  ASSUME Inv, NEW m \in air, NEW old, old \subseteq air, Mount(m, old)
  PROVE  Handled
<1> DEFINE t == [To(c, "lookup") EXCEPT !.fs_mounted = TRUE]
<1>1. c \in Client /\ ClientInv(c) /\ old \subseteq Packets /\ c.NfsState = "mount"
  BY DEF Inv, TypeOK, Packets, Mount
<1>2. CASE NfsSend(t, old)
  <2>1. t \in Client
    BY <1>1 DEF To, Client, States
  <2>2. /\ t.NfsState = "lookup" /\ t.nfs_offset = c.nfs_offset
        /\ t.NfsDownloadState = c.NfsDownloadState /\ t.NetState = c.NetState
        /\ t.NetBootFileXferSize = c.NetBootFileXferSize
        /\ t.NfsTimeoutCount = c.NfsTimeoutCount
    BY <1>1 DEF To, Client
  <2> HIDE DEF t
  <2>3. ClientInv(t)
    BY <1>1, <2>2 DEF ClientInv
  <2> QED BY <1>1, <1>2, <2>1, <2>2, <2>3, SendHandled
<1>3. CASE NfsSend(To(c, "umount"), old)
  BY <1>1, <1>3, GiveUp
<1> QED BY <1>2, <1>3 DEF Mount

\* The end of the transfer: success only if the last read found the end of the file.
LEMMA UmountHandled ==
  ASSUME Inv, NEW m \in air, NEW old, old \subseteq air, Umount(m, old)
  PROVE  Handled
<1>1. c \in Client /\ ClientInv(c) /\ old \subseteq Packets /\ c.NfsState = "umount"
  BY DEF Inv, TypeOK, Packets, Umount
<1>2. /\ c' \in Client /\ c'.NfsState = "umount" /\ air' = old
      /\ c'.NetState \in {c.NfsDownloadState, "fail"}
      /\ c'.NfsDownloadState = c.NfsDownloadState
      /\ c'.NetBootFileXferSize = c.NetBootFileXferSize /\ c'.ram = c.ram
      /\ c'.nfs_offset = c.nfs_offset /\ c'.NfsTimeoutCount = c.NfsTimeoutCount
  <2>1. CASE Quiet([c EXCEPT !.fs_mounted = FALSE, !.NetState = c.NfsDownloadState], old)
    BY <1>1, <2>1 DEF Quiet, Client
  <2>2. CASE Quiet([c EXCEPT !.NetState = "fail"], old)
    BY <1>1, <2>2 DEF Quiet, Client
  <2> QED BY <2>1, <2>2 DEF Umount
<1>3. ClientInv(c')
  BY <1>1, <1>2 DEF ClientInv, Stored
<1> QED BY <1>1, <1>2, <1>3 DEF Handled, AirFor

LEMMA LookupInv ==
  ASSUME Inv, NEW m \in air, NEW old, old \subseteq air, Lookup(m, old)
  PROVE  Handled
<1> DEFINE t == [To(c, "read") EXCEPT !.filefh = m.fh, !.nfs_offset = 0]
<1>1. /\ c \in Client /\ ClientInv(c) /\ old \subseteq Packets /\ m.fh \in 0..Links
      /\ c.NfsState = "lookup"
  BY DEF Inv, TypeOK, Packets, Lookup
<1>2. CASE NfsSend(t, old)
  <2>1. t \in Client
    BY <1>1 DEF To, Client, States
  <2>2. /\ t.NfsState = "read" /\ t.nfs_offset = 0
        /\ t.NfsDownloadState = c.NfsDownloadState /\ t.NetState = c.NetState
        /\ t.NetBootFileXferSize = c.NetBootFileXferSize
        /\ t.NfsTimeoutCount = c.NfsTimeoutCount
    BY <1>1 DEF To, Client
  <2> HIDE DEF t
  <2>3. ClientInv(t)
    BY <1>1, <2>2, NfsAssumption DEF ClientInv, Stored
  <2> QED BY <1>1, <1>2, <2>1, <2>2, <2>3, SendHandled
<1>3. CASE NfsSend(To(c, "umount"), old)
  BY <1>1, <1>3, GiveUp
<1> QED BY <1>2, <1>3 DEF Lookup

LEMMA ReadLinkInv ==
  ASSUME Inv, NEW m \in air, NEW old, old \subseteq air, ReadLink(m, old)
  PROVE  Handled
<1> DEFINE t == [To(c, "mount") EXCEPT !.nfs_path = m.fh]
<1>1. /\ c \in Client /\ ClientInv(c) /\ old \subseteq Packets /\ m.fh \in 0..Links
      /\ c.NfsState = "readlink"
  BY DEF Inv, TypeOK, Packets, ReadLink
<1>2. CASE NfsSend(t, old)
  <2>1. t \in Client
    BY <1>1 DEF To, Client, States
  <2>2. /\ t.NfsState = "mount" /\ t.nfs_offset = c.nfs_offset
        /\ t.NfsDownloadState = c.NfsDownloadState /\ t.NetState = c.NetState
        /\ t.NetBootFileXferSize = c.NetBootFileXferSize
        /\ t.NfsTimeoutCount = c.NfsTimeoutCount
    BY <1>1 DEF To, Client
  <2> HIDE DEF t
  <2>3. ClientInv(t)
    BY <1>1, <2>2 DEF ClientInv
  <2> QED BY <1>1, <1>2, <2>1, <2>2, <2>3, SendHandled
<1>3. CASE NfsSend(To(c, "umount"), old)
  BY <1>1, <1>3, GiveUp
<1> QED BY <1>2, <1>3 DEF ReadLink
----------------------------------------------------------------------------
(* Reading: the only handler that stores data. *)

\* The answer to a read request, taken apart.
LEMMA ReadAnswer ==
  ASSUME Inv, NEW m \in air, c.NfsState = "read", IsAnswer(m), m.st \in {"ok", "link"}
  PROVE  /\ m.st = "link" => c.filefh > 0
         /\ m.st = "ok" =>
              /\ c.filefh = 0 /\ m.off = c.nfs_offset
              /\ m.len = 0 => c.nfs_offset = FileLen
              /\ c.nfs_offset + m.len <= FileLen
<1> DEFINE q == Request(c)
<1>1. /\ q.proc = "read" /\ q.off = c.nfs_offset /\ q.fh = c.filefh
      /\ c.nfs_offset \in 0..FileLen /\ c.filefh \in 0..Links
  BY NfsAssumption DEF Request, Inv, TypeOK, Client, ClientInv
<1>2. m = Serve(q)
  BY DEF Inv, AirFor, IsAnswer
<1> HIDE DEF q
<1>3. CASE q.fh > 0
  BY <1>1, <1>2, <1>3, ServeFacts DEF Reply
<1>4. CASE ~(q.fh > 0)
  BY <1>1, <1>2, <1>4, ServeFacts, NfsAssumption DEF Reply
<1> QED BY <1>3, <1>4

\* Memory r after n units of the file have been stored at their place.
Extended(r, at, n) ==
    [i \in DOMAIN r \cup at..(at + n - 1) |->
        IF i \in at..(at + n - 1) THEN at + (i - at) ELSE r[i]]

\* store_block at the end of what has been stored extends it.
LEMMA StoreMemory ==
  ASSUME NEW r \in Memory, NEW at \in Nat, NEW n \in Nat, at + n <= FileLen,
         \A i \in 0..(at - 1) : i \in DOMAIN r /\ r[i] = i
  PROVE  /\ Extended(r, at, n) \in Memory
         /\ \A i \in 0..(at + n - 1) :
              i \in DOMAIN Extended(r, at, n) /\ Extended(r, at, n)[i] = i
<1> DEFINE r2 == Extended(r, at, n)
<1> USE DEF Extended
<1>1. PICK D \in SUBSET (0..(FileLen - 1)) : r \in [D -> 0..(FileLen - 1)]
  BY DEF Memory
<1> DEFINE E == D \cup at..(at + n - 1)
<1>2. E \in SUBSET (0..(FileLen - 1))
  BY NfsAssumption
<1>3. r2 \in [E -> 0..(FileLen - 1)]
  <2>1. DOMAIN r2 = E /\ r2 = [i \in E |-> r2[i]]
    BY <1>1
  <2>2. \A i \in E : r2[i] \in 0..(FileLen - 1)
    BY <1>1, <1>2, NfsAssumption
  <2> QED BY <2>1, <2>2
<1>4. r2 \in Memory
  BY <1>2, <1>3 DEF Memory
<1>5. \A i \in 0..(at + n - 1) : i \in DOMAIN r2 /\ r2[i] = i
  BY NfsAssumption
<1> QED BY <1>4, <1>5

LEMMA TimerInv ==
  ASSUME NEW s \in Client, ClientInv(s), NEW h \in {"none", "nfs", "again"}
  PROVE  LET t == [s EXCEPT !.timeHandler = h]
         IN  /\ t \in Client /\ ClientInv(t) /\ Request(t) = Request(s)
             /\ t = [s EXCEPT !.timeHandler = t.timeHandler] /\ t.timeHandler = h
             /\ t.NfsState = s.NfsState /\ t.NfsTimeoutCount = s.NfsTimeoutCount
             /\ t.nfs_offset = s.nfs_offset /\ t.filefh = s.filefh /\ t.ram = s.ram
             /\ t.NetState = s.NetState /\ t.packetHandler = s.packetHandler
<1> DEFINE t == [s EXCEPT !.timeHandler = h]
<1>1. t \in Client
  BY DEF Client
<1>2. /\ t.NfsState = s.NfsState /\ t.NfsTimeoutCount = s.NfsTimeoutCount
      /\ t.nfs_offset = s.nfs_offset /\ t.filefh = s.filefh /\ t.ram = s.ram
      /\ t.NetState = s.NetState /\ t.packetHandler = s.packetHandler
      /\ t.timeHandler = h /\ t.NfsDownloadState = s.NfsDownloadState
      /\ t.NetBootFileXferSize = s.NetBootFileXferSize /\ t.nfs_path = s.nfs_path
  BY DEF Client
<1>3. t = [s EXCEPT !.timeHandler = t.timeHandler]
  BY <1>2
<1> HIDE DEF t
<1>4. ClientInv(t)
  BY <1>2 DEF ClientInv, Stored
<1>5. Request(t) = Request(s)
  BY <1>2 DEF Request
<1> QED BY <1>1, <1>2, <1>3, <1>4, <1>5 DEF t

LEMMA ReadInv ==
  ASSUME Inv, NEW m \in air, NEW old, old \subseteq air, Read(m, old)
  PROVE  Handled
<1> DEFINE s == [c EXCEPT !.timeHandler = "nfs"]
<1>1. /\ c \in Client /\ ClientInv(c) /\ old \subseteq Packets /\ c.NfsState = "read"
      /\ m \in Packets
  BY DEF Inv, TypeOK, Packets, Read
<1>2. /\ s \in Client /\ ClientInv(s) /\ s.NfsState = "read"
      /\ s.NfsTimeoutCount = c.NfsTimeoutCount /\ s.nfs_offset = c.nfs_offset
      /\ s.filefh = c.filefh /\ s.ram = c.ram
  BY <1>1, TimerInv
<1> HIDE DEF s
<1>3. ASSUME IsAnswer(m), m.st = "ok", m.len > 0,
             NfsSend([store_block(s, m) EXCEPT !.nfs_offset = @ + m.len], old)
      PROVE  Handled
  <2> DEFINE at == s.nfs_offset
             r == [i \in DOMAIN s.ram \cup at..(at + m.len - 1) |->
                     IF i \in at..(at + m.len - 1) THEN m.off + (i - at) ELSE s.ram[i]]
             to == at + m.len
             t == [s EXCEPT !.ram = r, !.NetBootFileXferSize = to, !.nfs_offset = to]
  <2>1. /\ at \in Nat /\ m.len \in Nat /\ s.filefh = 0 /\ m.off = at /\ to <= FileLen
        /\ s.ram \in Memory /\ to \in Nat /\ s.NetBootFileXferSize = at
    BY <1>1, <1>2, <1>3, ReadAnswer, NfsAssumption DEF Packets, Client, ClientInv
  <2>2. store_block(s, m) = [s EXCEPT !.ram = r, !.NetBootFileXferSize = to]
    <3>1. s.NetBootFileXferSize < at + m.len
      BY <1>3, <2>1
    <3>2. store_block(s, m) = [s EXCEPT !.ram = r,
                                 !.NetBootFileXferSize = IF @ < at + m.len THEN at + m.len ELSE @]
      BY Zenon DEF store_block
    <3> HIDE DEF at, r
    <3> QED BY <3>1, <3>2
  <2>3. [store_block(s, m) EXCEPT !.nfs_offset = @ + m.len] = t
    BY <1>2, <2>2 DEF Client
  <2>4. r \in Memory /\ \A i \in 0..(to - 1) : i \in DOMAIN r /\ r[i] = i
    <3>1. \A i \in 0..(at - 1) : i \in DOMAIN s.ram /\ s.ram[i] = i
      BY <1>2 DEF ClientInv, Stored
    <3> HIDE DEF at
    <3>2. r = Extended(s.ram, at, m.len)
      BY <2>1 DEF Extended
    <3>3. at + m.len <= FileLen /\ at \in Nat /\ m.len \in Nat /\ s.ram \in Memory
      BY <2>1
    <3> HIDE DEF r
    <3> QED BY <3>1, <3>2, <3>3, StoreMemory
  <2> HIDE DEF r, to
  <2>5. t \in Client
    BY <1>2, <2>1, <2>4 DEF Client
  <2>6. /\ t.NfsState = "read" /\ t.nfs_offset = to /\ t.NetBootFileXferSize = to
        /\ t.ram = r /\ t.filefh = 0 /\ t.NfsDownloadState = s.NfsDownloadState
        /\ t.NetState = s.NetState /\ t.NfsTimeoutCount = c.NfsTimeoutCount
    BY <1>2, <2>1 DEF Client
  <2> HIDE DEF t
  <2>7. ClientInv(t)
    BY <1>2, <2>1, <2>4, <2>6 DEF ClientInv, Stored
  <2> QED BY <1>1, <1>3, <2>3, <2>5, <2>6, <2>7, SendHandled
<1>4. ASSUME IsAnswer(m), m.st = "ok", m.len = 0,
             NfsSend([To(s, "umount") EXCEPT !.NfsDownloadState = "success"], old)
      PROVE  Handled
  <2> DEFINE t == [To(s, "umount") EXCEPT !.NfsDownloadState = "success"]
  <2>1. t \in Client
    BY <1>2 DEF To, Client, States
  <2>2. /\ t.NfsState = "umount" /\ t.nfs_offset = s.nfs_offset
        /\ t.NetBootFileXferSize = s.NetBootFileXferSize /\ t.ram = s.ram
        /\ t.NfsDownloadState = "success" /\ t.NfsTimeoutCount = c.NfsTimeoutCount
    BY <1>2 DEF To, Client
  <2> HIDE DEF t
  <2>3. s.nfs_offset = FileLen
    BY <1>1, <1>2, <1>4, ReadAnswer
  <2>4. ClientInv(t)
    BY <1>2, <2>2, <2>3, NfsAssumption DEF ClientInv, Stored
  <2> QED BY <1>1, <1>4, <2>1, <2>2, <2>4, SendHandled DEF t
<1>5. ASSUME IsAnswer(m), m.st = "link", NfsSend(To(s, "readlink"), old)
      PROVE  Handled
  <2> DEFINE t == To(s, "readlink")
  <2>1. t \in Client
    BY <1>2 DEF To, Client, States
  <2>2. /\ t.NfsState = "readlink" /\ t.nfs_offset = s.nfs_offset /\ t.filefh = s.filefh
        /\ t.NetBootFileXferSize = s.NetBootFileXferSize /\ t.NetState = s.NetState
        /\ t.NfsDownloadState = s.NfsDownloadState /\ t.NfsTimeoutCount = c.NfsTimeoutCount
    BY <1>2 DEF To, Client
  <2> HIDE DEF t
  <2>3. s.filefh > 0
    BY <1>1, <1>2, <1>5, ReadAnswer
  <2>4. ClientInv(t)
    BY <1>2, <2>2, <2>3 DEF ClientInv
  <2> QED BY <1>1, <1>5, <2>1, <2>2, <2>4, SendHandled DEF t
<1>6. CASE NfsSend(To(s, "umount"), old)
  BY <1>1, <1>2, <1>6, GiveUp
<1> QED BY <1>3, <1>4, <1>5, <1>6 DEF Read, s
----------------------------------------------------------------------------
(* The steps of the loop. *)

LEMMA ReceiveInv == Inv /\ Receive => Inv'
<1> SUFFICES ASSUME Inv, Receive PROVE Inv'
  OBVIOUS
<1>1. PICK m \in air : \E old \in {air, air \ {m}} :
         \/ c.packetHandler = "nfs" /\ NfsHandler(m, old)
         \/ c.packetHandler # "nfs" /\ Quiet(c, old)
  BY DEF Receive
<1>2. PICK old \in {air, air \ {m}} :
         \/ c.packetHandler = "nfs" /\ NfsHandler(m, old)
         \/ c.packetHandler # "nfs" /\ Quiet(c, old)
  BY <1>1
<1>3. old \subseteq air /\ UNCHANGED <<pass, ret>> /\ ret = "running" /\ pass = "rx"
  BY <1>2 DEF Receive
<1>4. CASE c.packetHandler = "nfs" /\ NfsHandler(m, old)
  <2>1. Handled
    BY <1>3, <1>4, PortmapMountInv, PortmapNfsInv, MountInv, UmountHandled, LookupInv,
       ReadLinkInv, ReadInv DEF NfsHandler
  <2> QED BY <1>3, <1>4, <2>1 DEF Handled, Inv, TypeOK, Packets, CountInv, RetInv
<1>5. CASE c.packetHandler # "nfs" /\ Quiet(c, old)
  BY <1>3, <1>5 DEF Quiet, Inv, TypeOK, Packets, CountInv, RetInv, AirFor
<1> QED BY <1>2, <1>4, <1>5

LEMMA TimeoutInv == Inv /\ Timeout => Inv'
<1> SUFFICES ASSUME Inv, Timeout PROVE Inv'
  OBVIOUS
<1> DEFINE s == [c EXCEPT !.timeHandler = "none"]
           k == s.NfsTimeoutCount + 1
           t == [s EXCEPT !.NfsTimeoutCount = k]
<1>1. /\ c \in Client /\ ClientInv(c) /\ AirFor(c, air) /\ air \subseteq Packets
      /\ ret = "running" /\ ret' = ret /\ pass = "rx"
      /\ pass' = IF c'.NetState = "continue" THEN "rx" ELSE "switch"
  BY DEF Inv, TypeOK, Packets, Timeout
<1>2. /\ s \in Client /\ ClientInv(s) /\ s.NfsState = c.NfsState
      /\ Request(s) = Request(c) /\ s.timeHandler = "none"
      /\ s.NfsTimeoutCount = c.NfsTimeoutCount
  BY <1>1, TimerInv
<1>3. \/ c.timeHandler = "nfs" /\ NfsTimeout(s)
      \/ c.timeHandler = "again" /\ Quiet([s EXCEPT !.NetState = "restart"], air)
  BY DEF Timeout
<1> HIDE DEF s
<1>4. ASSUME c.timeHandler = "nfs", NfsTimeout(s)
      PROVE  /\ c' \in Client /\ ClientInv(c')
             /\ air' \subseteq Packets /\ AirFor(c', air')
             /\ c'.NfsTimeoutCount > NFS_RETRY_COUNT =>
                  \/ c'.NetState = "fail"
                  \/ c'.packetHandler = "ignore" /\ c'.timeHandler = "again"
  <2>1. k \in 0..(NFS_RETRY_COUNT + 1)
    BY <1>1, <1>2, <1>4, NfsAssumption DEF Inv, CountInv, Client
  <2>2. \/ k > NFS_RETRY_COUNT /\ Quiet(NetStartAgain(t), air)
        \/ ~(k > NFS_RETRY_COUNT) /\ NfsSend([t EXCEPT !.timeHandler = "nfs"], air)
    BY <1>2, <1>4 DEF NfsTimeout, Client
  <2> HIDE DEF k
  <2>3. t \in Client
    BY <1>2, <2>1 DEF Client
  <2>4. /\ t.NfsTimeoutCount = k /\ t.NfsState = s.NfsState
        /\ t.nfs_offset = s.nfs_offset /\ t.filefh = s.filefh /\ t.ram = s.ram
        /\ t.NetState = s.NetState /\ t.NfsDownloadState = s.NfsDownloadState
        /\ t.NetBootFileXferSize = s.NetBootFileXferSize /\ t.nfs_path = s.nfs_path
    BY <1>2 DEF Client
  <2> HIDE DEF t
  <2>5. ClientInv(t)
    BY <1>2, <2>4 DEF ClientInv, Stored
  <2>6. Request(t) = Request(c) /\ t.NfsState = c.NfsState
    BY <1>2, <2>4 DEF Request
  <2>7. CASE k > NFS_RETRY_COUNT /\ Quiet(NetStartAgain(t), air)
    <3>1. c' = NetStartAgain(t) /\ air' = air
      BY <2>7 DEF Quiet
    <3>2. c' \in Client /\ ClientInv(c') /\ c'.NfsState = c.NfsState /\ Request(c') = Request(c)
      BY <2>3, <2>5, <2>6, <3>1, StartAgainType
    <3>3. \/ c'.NetState = "fail"
          \/ c'.packetHandler = "ignore" /\ c'.timeHandler = "again"
      BY <2>3, <3>1 DEF NetStartAgain, Client
    <3> QED BY <1>1, <3>1, <3>2, <3>3, AirKept
  <2>8. CASE ~(k > NFS_RETRY_COUNT) /\ NfsSend([t EXCEPT !.timeHandler = "nfs"], air)
    <3> DEFINE u == [t EXCEPT !.timeHandler = "nfs"]
    <3>1. u \in Client /\ ClientInv(u) /\ u.NfsTimeoutCount = k
      BY <2>3, <2>4, <2>5, TimerInv
    <3> HIDE DEF u
    <3>2. c' = u /\ air' \subseteq Packets /\ AirFor(u, air')
      BY <1>1, <2>8, <3>1, SendAir DEF u
    <3> QED BY <2>8, <3>1, <3>2
  <2> QED BY <2>2, <2>7, <2>8
<1>5. ASSUME c.timeHandler = "again", Quiet([s EXCEPT !.NetState = "restart"], air)
      PROVE  /\ c' \in Client /\ ClientInv(c')
             /\ air' \subseteq Packets /\ AirFor(c', air') /\ c'.NetState = "restart"
  <2> DEFINE u == [s EXCEPT !.NetState = "restart"]
  <2>1. u \in Client
    BY <1>2 DEF Client
  <2>2. /\ u.NfsState = s.NfsState /\ u.NetState = "restart"
        /\ u.nfs_offset = s.nfs_offset /\ u.filefh = s.filefh /\ u.ram = s.ram
        /\ u.NfsDownloadState = s.NfsDownloadState
        /\ u.NetBootFileXferSize = s.NetBootFileXferSize /\ u.nfs_path = s.nfs_path
    BY <1>2 DEF Client
  <2>3. c' = u /\ air' = air
    BY <1>5 DEF Quiet
  <2> HIDE DEF u
  <2>4. ClientInv(u) /\ Request(u) = Request(c)
    BY <1>2, <2>2 DEF ClientInv, Stored, Request
  <2> QED BY <1>1, <1>2, <2>1, <2>2, <2>3, <2>4, AirKept
<1>6. CountInv'
  BY <1>1, <1>3, <1>4, <1>5 DEF CountInv
<1> QED BY <1>1, <1>3, <1>4, <1>5, <1>6 DEF Inv, TypeOK, Packets, RetInv

LEMMA LoopSwitchInv == Inv /\ LoopSwitch => Inv'
<1> SUFFICES ASSUME Inv, LoopSwitch PROVE Inv'
  OBVIOUS
<1>1. CASE c.NetState = "restart"
  <2> DEFINE s == [c EXCEPT !.NetState = "continue"]
             t == [NfsStart(s) EXCEPT !.NetBootFileXferSize = 0]
  <2>1. c \in Client /\ ClientInv(c) /\ air \subseteq Packets
    BY DEF Inv, TypeOK, Packets
  <2>2. s \in Client
    BY <2>1 DEF Client
  <2>3. /\ s.NfsState = c.NfsState /\ s.NetState = "continue"
        /\ s.nfs_offset = c.nfs_offset /\ s.filefh = c.filefh /\ s.ram = c.ram
        /\ s.NfsDownloadState = c.NfsDownloadState
        /\ s.NetBootFileXferSize = c.NetBootFileXferSize
    BY <2>1 DEF Client
  <2>4. NfsSend(t, air) /\ ret' = ret /\ pass' = "rx"
    BY <1>1 DEF LoopSwitch
  <2> HIDE DEF s
  <2>5. ClientInv(s)
    BY <2>1, <2>3 DEF ClientInv, Stored
  <2>6. t \in Client /\ ClientInv(t) /\ t.NfsTimeoutCount = 0 /\ t.NetState = "continue"
    <3>1. t \in Client /\ ClientInv(t)
      BY <2>2, <2>3, <2>5, NfsStartType
    <3>2. t.NfsTimeoutCount = 0 /\ t.NetState = "continue"
      BY <2>2, <2>3 DEF NfsStart, Client
    <3> QED BY <3>1, <3>2
  <2> HIDE DEF t
  <2>7. c' = t /\ air' \subseteq Packets /\ AirFor(t, air')
    BY <2>1, <2>4, <2>6, SendAir
  <2>8. ret = "running"
    BY DEF LoopSwitch
  <2>9. CountInv'
    BY <2>6, <2>7, NfsAssumption DEF CountInv
  <2> QED BY <2>4, <2>6, <2>7, <2>8, <2>9 DEF Inv, TypeOK, Packets, RetInv
<1>2. CASE c.NetState # "restart"
  BY <1>2 DEF LoopSwitch, Inv, TypeOK, CountInv, RetInv
<1> QED BY <1>1, <1>2

LEMMA InvInit == Init => Inv
<1> SUFFICES ASSUME Init PROVE Inv
  OBVIOUS
<1> DEFINE none == [i \in {} |-> 0]
<1>1. none \in Memory
  <2>1. none \in [{} -> 0..(FileLen - 1)]
    OBVIOUS
  <2> QED BY <2>1 DEF Memory
<1> HIDE DEF none
<1>2. c = FirstStart
  BY DEF Init
<1>3. /\ c.NfsState = "portmap_mount" /\ c.fs_mounted = FALSE /\ c.nfs_offset = 0
      /\ c.NfsDownloadState = "fail" /\ c.nfs_path = Links /\ c.filefh = Links
      /\ c.NfsTimeoutCount = 0 /\ c.NetState = "continue" /\ c.NetBootFileXferSize = 0
      /\ c.ram = none
  BY <1>2 DEF FirstStart, NfsStart, none
<1>4. c \in Client
  <2> DEFINE z == 0  p == Links  one == 1  k == 0
  <2>1. /\ z \in Nat /\ p \in 0..Links /\ one \in {1} \cup 1..retrycnt
        /\ k \in 0..(NFS_RETRY_COUNT + 1)
    BY NfsAssumption
  <2>2. c = [NfsState |-> "portmap_mount", fs_mounted |-> FALSE, nfs_offset |-> z,
             NfsDownloadState |-> "fail", nfs_path |-> p, filefh |-> p,
             NfsSrvMountPort |-> FALSE, NfsSrvNfsPort |-> FALSE, NfsTimeoutCount |-> k,
             NetState |-> "continue", NetTryCount |-> one, packetHandler |-> "nfs",
             timeHandler |-> "nfs", NetBootFileXferSize |-> z, ram |-> none]
    BY <1>2 DEF FirstStart, NfsStart, none
  <2> HIDE DEF z, p, one, k
  <2> QED BY <1>1, <2>1, <2>2 DEF Client, States
<1>5. ClientInv(c)
  BY <1>3, NfsAssumption DEF ClientInv
<1>6. air \subseteq Packets /\ AirFor(c, air)
  BY <1>2, <1>4, <1>5, AnswersType DEF Init, AirFor
<1>7. CountInv /\ RetInv
  BY <1>3, NfsAssumption DEF CountInv, RetInv, Init
<1> QED BY <1>4, <1>5, <1>6, <1>7 DEF Inv, Init, TypeOK, Packets

LEMMA InvStep == Inv /\ [Next]_vars => Inv'
<1> SUFFICES ASSUME Inv, [Next]_vars PROVE Inv'
  OBVIOUS
<1>1. CASE Receive
  BY <1>1, ReceiveInv
<1>2. CASE Timeout
  BY <1>2, TimeoutInv
<1>3. CASE LoopSwitch
  BY <1>3, LoopSwitchInv
<1>4. CASE Abort
  BY <1>4 DEF Abort, Inv, TypeOK, CountInv, RetInv
<1>5. CASE UNCHANGED vars
  BY <1>5 DEF vars, Inv, TypeOK, CountInv, RetInv
<1> QED BY <1>1, <1>2, <1>3, <1>4, <1>5 DEF Next, Returned

LEMMA Invariant == Spec => []Inv
BY InvInit, InvStep, PTL DEF Spec
----------------------------------------------------------------------------
(* The variables of nfs.c keep their types for every file and every number *)
(* of links: store_block writes only where the file goes, the handle of a  *)
(* link never leads past the file, and NfsTimeoutCount stops at its limit. *)
THEOREM TypeCorrect == Spec => []TypeOK
<1>1. Inv => TypeOK
  BY DEF Inv
<1> QED BY <1>1, Invariant, PTL

(* While the file is read, memory holds the part of it before nfs_offset,  *)
(* whatever late, doubled or refused replies nfs_read_reply has seen.      *)
THEOREM ReadKeepsPrefix == Spec => []PrefixStored
<1>1. Inv => PrefixStored
  BY DEF Inv, ClientInv, Stored, PrefixStored
<1> QED BY <1>1, Invariant, PTL

(* NetLoop reports success only with the whole file in memory and its size *)
(* as the result.                                                          *)
THEOREM SuccessMeansFile == Spec => []FileIntact
<1>1. Inv => FileIntact
  BY DEF Inv, RetInv, ClientInv, Stored, FileIntact
<1> QED BY <1>1, Invariant, PTL
============================================================================
