--------------------------- MODULE NetLoopProofs ---------------------------
(***************************************************************************)
(* Proofs about NetLoop, for every number of devices, every netretry,      *)
(* every timeout count and any number of commands, setenvs and errors.     *)
(***************************************************************************)
EXTENDS NetLoop, NaturalLemmas, TLAPS

Confs == [kind : [Devices -> Kinds], rotate : BOOLEAN, autoload : BOOLEAN,
          forever : BOOLEAN, retrycnt : Nat]
Packets == {"arp", "tftp", "ping", "bootp", "rarp"}
Leasing == {"bootp", "rarp"}
Plain == call.proto \in {"tftp", "ping"}

LEMMA DeviceFacts ==
  /\ N \in Nat \ {0} /\ 0 \in Devices /\ NoDev = N
  /\ \A x \in Nat : x % N \in Devices
  /\ \A d \in Devices : d \in Nat /\ d < N
BY NetLoopAssumption DEF Devices, NoDev

----------------------------------------------------------------------------
(* The inductive invariant.                                                *)
(*                                                                         *)
(* Every function of the loop takes globals to globals, so what it keeps   *)
(* is said of the globals s.  NetTryCount never falls behind the attempts, *)
(* and is ahead of them when one more is due: now (NetState is restart) or *)
(* when the timer that waits for it ends (timeHandler is again).  A tftp   *)
(* or ping has nothing to do with a BOOTP or RARP handler or timer, unless *)
(* a device without address and one left behind bring them together; a     *)
(* RARP reply that comes late then changes the address, not the state.     *)

Limit == IF conf.retrycnt = 0 THEN 1 ELSE conf.retrycnt
NoNomac == \A d \in Devices : conf.kind[d] # "nomac"

Tried(s) == ~conf.forever => s.NetTryCount \in 1..Limit /\ s.starts <= s.NetTryCount
Due(s) == ~conf.forever => s.starts < s.NetTryCount
Agrees(s) == ~s.leaseOpen => s.NetOurIP = s.ipaddr
AgreesOrChanged(s) == ~s.leaseOpen /\ ~s.envChanged => s.NetOurIP = s.ipaddr

\* A tftp or ping that no BOOTP or RARP handler can reach.
Calm == Plain /\ (NoNomac \/ call.n = 1)

\* In the packet loop, whatever the timer.
LoopInv(s) ==
    /\ s \in Globals /\ Tried(s)
    /\ s.NetState = "restart" => Due(s)
    /\ Calm => Agrees(s)
    /\ ~Plain /\ NoNomac => s.leaseOpen

TimerInv(s) ==
    /\ s.timeHandler = "again" => Due(s)
    /\ Calm => s.timeHandler \notin Leasing

TimedInv(s) == LoopInv(s) /\ TimerInv(s)

\* The handler of the packets too.
RxInv(s) == TimedInv(s) /\ (Calm => s.packetHandler \notin Leasing)

\* At restart:.
RestartInv(s) ==
    /\ s \in Globals /\ Tried(s) /\ Due(s)
    /\ Calm => AgreesOrChanged(s)
    /\ Plain /\ call.n = 1 => s.timeHandler \notin Leasing /\ s.packetHandler \notin Leasing

\* Between commands.
IdleInv(s) ==
    /\ s \in Globals /\ Tried(s)
    /\ call.n = 0 => s.timeHandler = "none" /\ s.packetHandler = "none" /\ AgreesOrChanged(s)
    /\ NoNomac \/ Calm => AgreesOrChanged(s)
    /\ Calm /\ call.ret = "noaddr" /\ ~s.envChanged /\ ~s.leaseOpen => s.ipaddr = "unset"

StaticInv ==
    /\ conf \in Confs
    /\ pc \in {"idle", "restart", "rx"}
    /\ call \in [proto : {"tftp", "ping", "bootp", "rarp"}, n : 0..MaxCalls,
                 ret : {"none", "ok", "fail", "abort", "noaddr", "noeth"}]
    /\ sets \in 0..MaxSets
    /\ pc # "idle" => call.n # 0

Inv ==
    /\ StaticInv
    /\ pc = "idle" => IdleInv(g)
    /\ pc = "restart" => RestartInv(g)
    /\ pc = "rx" => RxInv(g)
----------------------------------------------------------------------------
(* What the functions change, and what they leave alone. *)

Kept(s, t) ==
    /\ t \in Globals
    /\ t.starts = s.starts /\ t.NetTryCount = s.NetTryCount /\ t.NetDevExists = s.NetDevExists
    /\ t.leaseOpen = s.leaseOpen /\ t.NetOurIP = s.NetOurIP /\ t.ipaddr = s.ipaddr

\* Only packets and what counts or looks for them change.
Sent(s, t) ==
    /\ Kept(s, t)
    /\ t.NetState = s.NetState /\ t.timeHandler = s.timeHandler
    /\ t.packetHandler = s.packetHandler

LEMMA SmallNumbers ==
  /\ 0 \in 0..2 /\ 0 \in 0..1 /\ 0 \in Nat /\ 1 \in Nat
  /\ 0 \in 0..(ARP_TIMEOUT_COUNT - 1) /\ 1 \in 0..(ARP_TIMEOUT_COUNT - 1)
BY NetLoopAssumption

LEMMA TimeoutFacts ==
  ASSUME NEW s \in Globals, NEW h \in Handlers \cup {"again"}
  PROVE  LET t == NetSetTimeout(s, h) IN
         /\ Kept(s, t) /\ t.NetState = s.NetState
         /\ t.timeHandler = h /\ t.packetHandler = s.packetHandler
BY SmallNumbers DEF NetSetTimeout, Globals, Kept

\* What is on its way when a device is halted is lost or late.
LEMMA HaltFacts ==
  ASSUME NEW s \in Globals
  PROVE  LET t == eth_halt(s) IN
         /\ Sent(s, t) /\ t.envChanged = s.envChanged
         /\ t.air = {} /\ (s.air = {} => t.late = s.late)
         /\ t.arpPacket = s.arpPacket /\ t.NetRestarted = s.NetRestarted
         /\ t.NetRestartWrap = s.NetRestartWrap
         /\ t.first_failed = s.first_failed /\ t.eth_current = s.eth_current
<1> DEFINE L == s.late \cup {[dev |-> s.eth_current, m |-> m] :
                               m \in {x \in s.air : x.a \in Delayed}}
           t == [s EXCEPT !.air = {}, !.late = L]
<1>1. L \in SUBSET Late
  BY DEF Globals, Late
<1>2. s.air = {} => L = s.late
  OBVIOUS
<1> HIDE DEF L
<1>3. t \in Globals
  BY <1>1 DEF Globals
<1>4. /\ Sent(s, t) /\ t.envChanged = s.envChanged
      /\ t.air = {} /\ t.late = L
      /\ t.arpPacket = s.arpPacket /\ t.NetRestarted = s.NetRestarted
      /\ t.NetRestartWrap = s.NetRestartWrap
      /\ t.first_failed = s.first_failed /\ t.eth_current = s.eth_current
  BY <1>3 DEF Globals, Sent, Kept
<1> QED BY <1>2, <1>4 DEF eth_halt, L

LEMMA SendFacts ==
  ASSUME NEW s \in Globals, NEW a \in Packets
  PROVE  Sent(s, eth_send(s, a))
<1> DEFINE A == s.air \cup {Reply(s, a)}
           t == [s EXCEPT !.air = A]
<1>1. Reply(s, a) \in Packet
  BY DEF Reply, Packet, Packets, Globals
<1>2. A \in SUBSET Packet
  BY <1>1 DEF Globals
<1> HIDE DEF A
<1>3. Sent(s, t) /\ Sent(s, s)
  BY <1>2 DEF Globals, Sent, Kept
<1> QED BY <1>3 DEF eth_send, A

LEMMA NoArpWaitFacts ==
  ASSUME NEW s \in Globals
  PROVE  Sent(s, NoArpWait(s)) /\ NoArpWait(s).envChanged = s.envChanged
BY SmallNumbers DEF NoArpWait, Globals, Sent, Kept

LEMMA SentTwice ==
  ASSUME NEW s \in Globals, NEW t, NEW u, Sent(s, t), Sent(t, u)
  PROVE  Sent(s, u)
BY DEF Sent, Kept

LEMMA ArpWaitFacts ==
  ASSUME NEW s \in Globals, NEW a \in {"tftp", "ping"}
  PROVE  Sent(s, ArpWait(s, a))
<1> DEFINE t == [s EXCEPT !.arpPacket = a, !.NetArpWaitTry = 1, !.arpAge = 0]
<1>1. Sent(s, t) /\ t \in Globals
  BY SmallNumbers, ZenonT(120) DEF Globals, Sent, Kept
<1> HIDE DEF t
<1>2. Sent(t, eth_send(t, "arp"))
  BY <1>1, SendFacts DEF Packets
<1>3. Sent(s, eth_send(t, "arp"))
  BY <1>1, <1>2, SentTwice
<1> QED BY <1>3 DEF ArpWait, t

LEMMA UDPFacts ==
  ASSUME NEW s \in Globals
  PROVE  Sent(s, NetSendUDPPacket(s, "tftp"))
<1>1. Sent(s, ArpWait(s, "tftp"))
  BY ArpWaitFacts
<1>2. Sent(s, eth_send(s, "tftp"))
  BY SendFacts DEF Packets
<1> QED BY <1>1, <1>2 DEF NetSendUDPPacket, Sent

\* What eth_try_another changes, and what it leaves alone.
LEMMA AdvanceFacts ==
  ASSUME NEW s \in Globals, NEW k \in Nat, NEW ff \in Devices \cup {NoDev}
  PROVE  LET t == Advance(s, k, ff) IN
         Sent(s, t) /\ (s.envChanged => t.envChanged)
<1> DEFINE dev == (s.eth_current + k) % N
           ec == s.envChanged \/ (k > 0 /\ N > 1)
           rw == s.NetRestartWrap \/ \E j \in 1..k : (s.eth_current + j) % N = ff
           t == [s EXCEPT !.eth_current = dev, !.ethact = dev, !.first_failed = ff,
                          !.envChanged = ec, !.NetRestartWrap = rw]
<1>1. Advance(s, k, ff) = t
  BY DEF Advance
<1>2. s.eth_current \in Devices /\ s.envChanged \in BOOLEAN
  BY DEF Globals
<1>3. dev \in Devices
  BY <1>2, DeviceFacts
<1>4. ec \in BOOLEAN /\ rw \in BOOLEAN /\ (s.envChanged => ec)
  OBVIOUS
<1> HIDE DEF dev, ec, rw
<1>5. Sent(s, t) /\ t.envChanged = ec
  BY <1>3, <1>4, ZenonT(120) DEF Globals, Sent, Kept
<1> QED BY <1>1, <1>4, <1>5

LEMMA eth_initType ==
  ASSUME NEW d
  PROVE  eth_init(d) \in Nat
<1>1. CASE eth_init_ok(d)
  <2> DEFINE K == InitDistances(d)
  <2>1. K \in SUBSET Nat /\ K # {}
    BY <1>1, NetLoopAssumption DEF InitDistances, eth_init_ok
  <2> HIDE DEF K
  <2>2. \E k \in K : \A j \in K : k <= j
    BY <2>1, LeastElement
  <2>3. (CHOOSE k \in K : \A j \in K : k <= j) \in K
    BY <2>2
  <2> QED BY <1>1, <2>1, <2>3 DEF eth_init, K
<1>2. CASE ~eth_init_ok(d)
  BY <1>2, NetLoopAssumption DEF eth_init
<1> QED BY <1>1, <1>2

LEMMA NextDeviceFacts ==
  ASSUME NEW s \in Globals
  PROVE  Sent(s, NextDevice(s))
<1> DEFINE k == 1 + eth_init(next_dev(s.eth_current))
           ff == IF s.NetRestarted THEN s.first_failed ELSE s.eth_current
<1>1. k \in Nat
  BY eth_initType
<1>2. ff \in Devices \cup {NoDev}
  BY DEF Globals
<1>3. NextDevice(s) = IF ~conf.rotate THEN s ELSE Advance(s, k, ff)
  BY DEF NextDevice
<1> HIDE DEF k, ff
<1>4. Sent(s, Advance(s, k, ff))
  BY <1>1, <1>2, AdvanceFacts
<1>5. Sent(s, s)
  BY DEF Sent, Kept
<1> QED BY <1>3, <1>4, <1>5
----------------------------------------------------------------------------
(* Every function of the loop keeps the invariant of the globals. *)

LEMMA KeptLoop ==
  ASSUME NEW s, NEW t, LoopInv(s), Kept(s, t),
         t.NetState = "restart" => s.NetState = "restart" \/ Due(s)
  PROVE  LoopInv(t)
BY DEF LoopInv, Kept, Tried, Due, Agrees

LEMMA SentLoop ==
  ASSUME NEW s, NEW t, LoopInv(s), Sent(s, t)
  PROVE  LoopInv(t)
BY KeptLoop DEF Sent

LEMMA SentTimer ==
  ASSUME NEW s, NEW t, TimerInv(s), Sent(s, t)
  PROVE  TimerInv(t)
BY DEF TimerInv, Sent, Kept, Due

LEMMA SentRx ==
  ASSUME NEW s, NEW t, RxInv(s), Sent(s, t)
  PROVE  RxInv(t)
<1>1. TimedInv(t)
  BY SentLoop, SentTimer DEF RxInv, TimedInv
<1> QED BY <1>1 DEF RxInv, Sent

LEMMA TimeoutTimed ==
  ASSUME NEW s, NEW h \in Handlers, LoopInv(s), h \in Leasing => ~Calm
  PROVE  TimedInv(NetSetTimeout(s, h))
<1> DEFINE t == NetSetTimeout(s, h)
<1>1. s \in Globals
  BY DEF LoopInv
<1>2. Kept(s, t) /\ t.NetState = s.NetState /\ t.timeHandler = h
  BY <1>1, TimeoutFacts
<1> HIDE DEF t
<1>3. LoopInv(t)
  BY <1>2, KeptLoop DEF LoopInv
<1>4. TimerInv(t)
  BY <1>2 DEF TimerInv, Handlers
<1> QED BY <1>3, <1>4 DEF TimedInv, t

LEMMA TimeoutRx ==
  ASSUME NEW s, NEW h \in Handlers, RxInv(s), h \in Leasing => ~Calm
  PROVE  RxInv(NetSetTimeout(s, h))
<1>1. TimedInv(NetSetTimeout(s, h))
  BY TimeoutTimed DEF RxInv, TimedInv
<1>2. NetSetTimeout(s, h).packetHandler = s.packetHandler
  BY TimeoutFacts DEF RxInv, TimedInv, LoopInv
<1> QED BY <1>1, <1>2 DEF RxInv

\* A start or a request sets the handler after the timer.
LEMMA HandlerRx ==
  ASSUME NEW s, TimedInv(s), NEW p \in Handlers \cup {"ignore"}, p \in Leasing => ~Calm
  PROVE  LET t == [s EXCEPT !.packetHandler = p] IN RxInv(t) /\ t \in Globals
<1> DEFINE t == [s EXCEPT !.packetHandler = p]
<1>1. /\ Kept(s, t) /\ t.NetState = s.NetState /\ t.timeHandler = s.timeHandler
      /\ t.packetHandler = p
  BY DEF TimedInv, LoopInv, Kept, Globals
<1> HIDE DEF t
<1>2. TimedInv(t)
  BY <1>1, KeptLoop DEF TimedInv, LoopInv, TimerInv, Kept, Due
<1> QED BY <1>1, <1>2 DEF RxInv, Kept, t

LEMMA LimitFacts ==
  ASSUME conf \in Confs
  PROVE  /\ conf.retrycnt \in Nat /\ Limit \in Nat \ {0}
         /\ \A n \in Nat : n < conf.retrycnt => n + 1 \in Nat /\ n + 1 <= Limit
BY DEF Confs, Limit

\* NetStartAgain counts NetTryCount up whenever an attempt is to follow.
LEMMA StartAgainRx ==
  ASSUME conf \in Confs, NEW s, RxInv(s)
  PROVE  RxInv(NetStartAgain(s))
<1> DEFINE h == eth_halt(s)
<1>0. s.NetTryCount \in Nat /\ s.starts \in Nat /\ Tried(s)
  BY DEF RxInv, TimedInv, LoopInv, Globals
<1>h. RxInv(h) /\ h \in Globals /\ h.starts = s.starts /\ h.NetTryCount = s.NetTryCount
  <2>1. Sent(s, h)
    BY HaltFacts DEF RxInv, TimedInv, LoopInv
  <2> QED BY <2>1, SentRx DEF Sent, Kept
<1> HIDE DEF h
<1>1. CASE ~conf.forever /\ OutOfTries(s)
  <2> DEFINE t == [h EXCEPT !.NetState = "fail"]
  <2>1. /\ Kept(h, t) /\ t.NetState = "fail" /\ t.timeHandler = h.timeHandler
        /\ t.packetHandler = h.packetHandler
    BY <1>h DEF Kept, Globals
  <2> HIDE DEF t
  <2>2. LoopInv(t)
    BY <1>h, <2>1, KeptLoop DEF RxInv, TimedInv
  <2>3. RxInv(t)
    BY <1>h, <2>1, <2>2 DEF RxInv, TimedInv, TimerInv, Kept, Due
  <2> QED BY <1>1, <2>3 DEF NetStartAgain, t, h
<1>2. CASE ~(~conf.forever /\ OutOfTries(s))
  <2> DEFINE n == NextDevice(h)
             count == IF conf.forever THEN n.NetTryCount ELSE n.NetTryCount + 1
             t == [n EXCEPT !.NetTryCount = count]
             u == [t EXCEPT !.NetRestartWrap = FALSE]
             w == NetSetTimeout(u, "again")
             r1 == [t EXCEPT !.NetState = "restart"]
             r2 == [u EXCEPT !.NetState = "fail"]
             r3 == [w EXCEPT !.packetHandler = "ignore"]
  <2>1. RxInv(n) /\ n \in Globals /\ n.starts = s.starts /\ n.NetTryCount = s.NetTryCount
    <3>1. Sent(h, n)
      BY <1>h, NextDeviceFacts
    <3> QED BY <1>h, <3>1, SentRx DEF Sent, Kept
  <2> HIDE DEF n
  <2>2. count \in Nat
    BY <1>0, <2>1
  <2>3. ~conf.forever => count \in 1..Limit /\ s.starts < count /\ s.starts <= count
    <3> HAVE ~conf.forever
    <3>1. count = s.NetTryCount + 1
      BY <2>1
    <3>2. s.NetTryCount < conf.retrycnt
      BY <1>0, <1>2, LimitFacts DEF OutOfTries
    <3>3. s.starts <= s.NetTryCount
      BY <1>0 DEF Tried
    <3> QED BY <1>0, <3>1, <3>2, <3>3, LimitFacts
  <2> HIDE DEF count
  <2>4. /\ t \in Globals /\ t.NetTryCount = count /\ t.starts = s.starts
        /\ t.timeHandler = n.timeHandler /\ t.packetHandler = n.packetHandler
        /\ t.leaseOpen = n.leaseOpen /\ t.NetOurIP = n.NetOurIP /\ t.ipaddr = n.ipaddr
        /\ t.NetState = n.NetState
    BY <2>1, <2>2 DEF Globals
  <2> HIDE DEF t
  <2>5. RxInv(t) /\ Due(t)
    BY <2>1, <2>3, <2>4 DEF RxInv, TimedInv, LoopInv, TimerInv, Tried, Due, Agrees
  <2>6. Sent(t, u)
    BY <2>4, ZenonT(120) DEF Sent, Kept, Globals
  <2>7. Kept(t, r1) /\ r1.timeHandler = t.timeHandler /\ r1.packetHandler = t.packetHandler
    BY <2>4 DEF Kept, Globals
  <2> HIDE DEF u
  <2>8. RxInv(u) /\ Due(u) /\ u \in Globals
    BY <2>5, <2>6, SentRx DEF Sent, Kept, Due
  <2>9. /\ Kept(u, w) /\ w.NetState = u.NetState /\ w.timeHandler = "again" /\ w \in Globals
    BY <2>8, TimeoutFacts DEF Kept
  <2>10. /\ Kept(u, r2) /\ r2.timeHandler = u.timeHandler /\ r2.NetState = "fail"
         /\ r2.packetHandler = u.packetHandler
    BY <2>8 DEF Kept, Globals
  <2> HIDE DEF w
  <2>11. /\ Kept(w, r3) /\ r3.timeHandler = w.timeHandler /\ r3.NetState = w.NetState
         /\ r3.packetHandler = "ignore"
    BY <2>9 DEF Kept, Globals
  <2> HIDE DEF r1, r2, r3
  <2>12. RxInv(r1)
    <3>1. LoopInv(r1)
      BY <2>5, <2>7, KeptLoop DEF RxInv, TimedInv
    <3> QED BY <2>5, <2>7, <3>1 DEF RxInv, TimedInv, TimerInv, Kept, Due
  <2>13. RxInv(r2)
    <3>1. LoopInv(r2)
      BY <2>8, <2>10, KeptLoop DEF RxInv, TimedInv
    <3> QED BY <2>8, <2>10, <3>1 DEF RxInv, TimedInv, TimerInv, Kept, Due
  <2>14. RxInv(r3)
    <3>1. LoopInv(w) /\ Due(w)
      BY <2>8, <2>9, KeptLoop DEF RxInv, TimedInv, Kept, Due
    <3>2. LoopInv(r3) /\ Due(r3)
      BY <2>11, <3>1, KeptLoop DEF Kept, Due
    <3> QED BY <2>9, <2>11, <3>2 DEF RxInv, TimedInv, TimerInv, Leasing
  <2>15. NetStartAgain(s) = IF ~t.NetRestartWrap THEN r1 ELSE IF ~t.NetDevExists THEN r2 ELSE r3
    BY <1>2, Zenon DEF NetStartAgain, r1, r2, r3, w, u, t, count, n, h
  <2> QED BY <2>12, <2>13, <2>14, <2>15
<1> QED BY <1>1, <1>2

\* What TftpStart resets before it sends the read request.
LEMMA TftpResetFacts ==
  ASSUME NEW h \in Globals
  PROVE  LET c == [h EXCEPT !.packetHandler = "tftp"]
             t == [h EXCEPT !.packetHandler = "tftp", !.TimeoutCount = 0,
                            !.NetServerEther = FALSE, !.air = {m \in @ : m.a # "tftp"}]
         IN  c \in Globals /\ Sent(c, t) /\ t \in Globals
<1> DEFINE A == {m \in h.air : m.a # "tftp"}
           off == FALSE
           c == [h EXCEPT !.packetHandler = "tftp"]
           t == [h EXCEPT !.packetHandler = "tftp", !.TimeoutCount = 0,
                          !.NetServerEther = off, !.air = A]
<1>1. A \in SUBSET Packet /\ off \in BOOLEAN
  BY DEF Globals
<1> HIDE DEF A, off
<1>2. t \in Globals
  BY <1>1, SmallNumbers DEF Globals, Handlers
<1>3. c \in Globals
  BY DEF Globals, Handlers
<1>4. /\ t.starts = h.starts /\ t.NetTryCount = h.NetTryCount
      /\ t.NetDevExists = h.NetDevExists /\ t.leaseOpen = h.leaseOpen
      /\ t.NetOurIP = h.NetOurIP /\ t.ipaddr = h.ipaddr
      /\ t.NetState = h.NetState /\ t.timeHandler = h.timeHandler /\ t.packetHandler = "tftp"
  BY DEF Globals
<1>5. /\ c.starts = h.starts /\ c.NetTryCount = h.NetTryCount
      /\ c.NetDevExists = h.NetDevExists /\ c.leaseOpen = h.leaseOpen
      /\ c.NetOurIP = h.NetOurIP /\ c.ipaddr = h.ipaddr
      /\ c.NetState = h.NetState /\ c.timeHandler = h.timeHandler /\ c.packetHandler = "tftp"
  BY DEF Globals
<1> HIDE DEF t, c
<1>6. Sent(c, t)
  BY <1>2, <1>4, <1>5 DEF Sent, Kept
<1> QED BY <1>2, <1>3, <1>6 DEF t, c, A, off

LEMMA TftpStartRx ==
  ASSUME NEW s, LoopInv(s)
  PROVE  RxInv(TftpStart(s))
<1> DEFINE h == NetSetTimeout(s, "tftp")
           c == [h EXCEPT !.packetHandler = "tftp"]
           t == [h EXCEPT !.packetHandler = "tftp", !.TimeoutCount = 0,
                          !.NetServerEther = FALSE, !.air = {m \in @ : m.a # "tftp"}]
<1>1. TimedInv(h) /\ h \in Globals
  BY TimeoutTimed DEF Handlers, Leasing, TimedInv, LoopInv
<1> HIDE DEF h
<1>2. RxInv(c)
  BY <1>1, HandlerRx DEF Handlers, Leasing
<1>3. Sent(c, t) /\ t \in Globals
  BY <1>1, TftpResetFacts
<1> HIDE DEF c, t
<1>4. RxInv(t)
  BY <1>2, <1>3, SentRx
<1>5. Sent(t, NetSendUDPPacket(t, "tftp"))
  BY <1>3, UDPFacts
<1>6. RxInv(NetSendUDPPacket(t, "tftp"))
  BY <1>4, <1>5, SentRx
<1> QED BY <1>6 DEF TftpStart, t, h

LEMMA PingStartRx ==
  ASSUME NEW s, LoopInv(s)
  PROVE  RxInv(PingStart(s))
<1> DEFINE h == NetSetTimeout(s, "ping")
           t == [h EXCEPT !.packetHandler = "ping"]
<1>1. TimedInv(h)
  BY TimeoutTimed DEF Handlers, Leasing
<1> HIDE DEF h
<1>2. RxInv(t) /\ t \in Globals
  BY <1>1, HandlerRx DEF Handlers, Leasing
<1> HIDE DEF t
<1>3. RxInv(ArpWait(t, "ping"))
  BY <1>2, ArpWaitFacts, SentRx
<1> QED BY <1>3 DEF PingStart, t, h

LEMMA RequestRx ==
  ASSUME NEW s, NEW p \in Leasing, LoopInv(s), ~Calm
  PROVE  RxInv(Request(s, p))
<1> DEFINE n == s.TimeoutCount + 1
           c == [s EXCEPT !.TimeoutCount = n]
           t == eth_send(c, p)
           h == NetSetTimeout(t, p)
           r == [h EXCEPT !.packetHandler = p]
<1>1. s \in Globals /\ n \in Nat
  BY DEF LoopInv, Globals
<1> HIDE DEF n
<1>2. Sent(s, c) /\ c \in Globals
  BY <1>1 DEF Sent, Kept, Globals
<1> HIDE DEF c
<1>3. Sent(c, t)
  BY <1>2, SendFacts DEF Packets, Leasing
<1> HIDE DEF t
<1>4. LoopInv(t)
  BY <1>2, <1>3, SentLoop
<1>5. TimedInv(h)
  BY <1>4, TimeoutTimed DEF Handlers, Leasing
<1> HIDE DEF h
<1>6. RxInv(r)
  BY <1>5, HandlerRx DEF Handlers, Leasing
<1> QED BY <1>6 DEF Request, r, h, t, c, n

LEMMA RequestStartRx ==
  ASSUME NEW s \in Globals, NEW p \in Leasing, Tried(s), s.NetState = "continue", ~Plain
  PROVE  RxInv(RequestStart(s, p))
<1> DEFINE t == [s EXCEPT !.TimeoutCount = 0, !.NetOurIP = "unset", !.leaseOpen = TRUE]
<1>1. /\ t \in Globals /\ t.NetState = "continue" /\ t.leaseOpen = TRUE
      /\ t.NetTryCount = s.NetTryCount /\ t.starts = s.starts
  BY SmallNumbers DEF Globals
<1> HIDE DEF t
<1>2. LoopInv(t)
  BY <1>1 DEF LoopInv, Tried, Calm
<1>3. RxInv(Request(t, p))
  BY <1>2, RequestRx DEF Calm
<1> QED BY <1>3 DEF RequestStart, t

LEMMA LeaseRx ==
  ASSUME NEW s, NEW p \in Leasing, NEW named \in BOOLEAN, RxInv(s), ~Calm
  PROVE  RxInv(Lease(s, p, named))
<1> DEFINE ec == s.envChanged \/ (p = "bootp" /\ named)
           th == IF p = "bootp" THEN "none" ELSE s.timeHandler
           ta == IF p = "bootp" THEN 0 ELSE s.timeAge
           t == [s EXCEPT !.NetOurIP = "lease", !.envChanged = ec,
                          !.timeHandler = th, !.timeAge = ta]
           r == [t EXCEPT !.NetState = "success"]
<1>1. s \in Globals
  BY DEF RxInv, TimedInv, LoopInv
<1>2. /\ ec \in BOOLEAN /\ ta \in 0..2
      /\ th \in Handlers \cup {"again"} /\ (th = "again" => s.timeHandler = "again")
  BY <1>1, SmallNumbers DEF Globals, Handlers
<1> HIDE DEF ec, ta, th
<1>3. t \in Globals
  BY <1>1, <1>2, ZenonT(120) DEF Globals
<1>4. /\ t.starts = s.starts /\ t.NetTryCount = s.NetTryCount
      /\ t.leaseOpen = s.leaseOpen /\ t.NetState = s.NetState /\ t.timeHandler = th
      /\ t.packetHandler = s.packetHandler
  BY <1>1 DEF Globals
<1> HIDE DEF t
<1>5. RxInv(t)
  BY <1>2, <1>3, <1>4 DEF RxInv, TimedInv, LoopInv, TimerInv, Tried, Due
<1>6. /\ Kept(t, r) /\ r.NetState = "success" /\ r.timeHandler = t.timeHandler
      /\ r.packetHandler = t.packetHandler
  BY <1>3 DEF Kept, Globals
<1> HIDE DEF r
<1>7. RxInv(r)
  BY <1>5, <1>6, KeptLoop DEF RxInv, TimedInv, TimerInv, Kept, Due
<1>8. RxInv(TftpStart(t))
  BY <1>5, TftpStartRx DEF RxInv, TimedInv
<1>9. Lease(s, p, named) = IF conf.autoload THEN TftpStart(t) ELSE r
  BY DEF Lease, r, t, ec, th, ta
<1> QED BY <1>7, <1>8, <1>9

LEMMA TftpTimeoutRx ==
  ASSUME conf \in Confs, NEW s, RxInv(s)
  PROVE  RxInv(TftpTimeout(s))
<1> DEFINE n == s.TimeoutCount + 1
           t == [s EXCEPT !.TimeoutCount = n]
           h == NetSetTimeout(t, "tftp")
<1>1. s \in Globals /\ n \in Nat
  BY DEF RxInv, TimedInv, LoopInv, Globals
<1> HIDE DEF n
<1>2. Sent(s, t) /\ t.TimeoutCount = n
  BY <1>1 DEF Sent, Kept, Globals
<1> HIDE DEF t
<1>3. RxInv(t)
  BY <1>2, SentRx
<1>4. RxInv(h) /\ h \in Globals
  BY <1>3, TimeoutRx DEF Handlers, Leasing, RxInv, TimedInv, LoopInv
<1> HIDE DEF h
<1>5. Sent(h, NetSendUDPPacket(h, "tftp"))
  BY <1>4, UDPFacts
<1>6. RxInv(NetSendUDPPacket(h, "tftp"))
  BY <1>4, <1>5, SentRx DEF Leasing
<1>7. RxInv(NetStartAgain(t))
  BY <1>3, StartAgainRx
<1> QED BY <1>6, <1>7 DEF TftpTimeout, h, t, n

LEMMA RequestTimeoutRx ==
  ASSUME conf \in Confs, NEW s, NEW p \in Leasing, RxInv(s), ~Calm
  PROVE  RxInv(RequestTimeout(s, p))
BY StartAgainRx, RequestRx DEF RequestTimeout, RxInv, TimedInv

\* The timer of the loop: "again" was set when an attempt was due.
LEMMA CheckTimeoutRx ==
  ASSUME conf \in Confs, NEW s, RxInv(s)
  PROVE  RxInv(CheckTimeout(s))
<1> DEFINE h == s.timeHandler
           t == NetSetTimeout(s, "none")
           r == [t EXCEPT !.NetState = "restart"]
           e == eth_halt(t)
           f == [e EXCEPT !.NetState = "fail"]
<1>0. s \in Globals
  BY DEF RxInv, TimedInv, LoopInv
<1>1. RxInv(t) /\ t \in Globals
  BY TimeoutRx DEF Handlers, Leasing, RxInv, TimedInv, LoopInv
<1>2. Kept(s, t) /\ t.timeHandler = "none"
  BY <1>0, TimeoutFacts DEF Handlers
<1> HIDE DEF t
<1>3. ASSUME h = "again" PROVE RxInv(Expired(t, h))
  <2>1. Due(t)
    BY <1>2, <1>3 DEF RxInv, TimedInv, TimerInv, Kept, Due
  <2>2. Kept(t, r) /\ r.timeHandler = t.timeHandler /\ r.packetHandler = t.packetHandler
    BY <1>1 DEF Kept, Globals
  <2>3. Expired(t, h) = r
    BY <1>3 DEF Expired
  <2> HIDE DEF r
  <2>4. RxInv(r)
    BY <1>1, <2>1, <2>2, KeptLoop DEF RxInv, TimedInv, LoopInv, TimerInv, Kept, Due
  <2> QED BY <2>3, <2>4
<1>4. ASSUME h = "ping" PROVE RxInv(Expired(t, h))
  <2>1. Sent(t, e) /\ e \in Globals
    BY <1>1, HaltFacts DEF Sent, Kept
  <2>2. RxInv(e)
    BY <1>1, <2>1, SentRx
  <2>3. Expired(t, h) = f
    BY <1>4 DEF Expired
  <2> HIDE DEF e
  <2>4. /\ Kept(e, f) /\ f.timeHandler = e.timeHandler /\ f.NetState = "fail"
        /\ f.packetHandler = e.packetHandler
    BY <2>1 DEF Kept, Globals
  <2> HIDE DEF f
  <2>5. RxInv(f)
    BY <2>2, <2>4, KeptLoop DEF RxInv, TimedInv, LoopInv, TimerInv, Kept, Due
  <2> QED BY <2>3, <2>5
<1>5. ASSUME h = "tftp" PROVE RxInv(Expired(t, h))
  BY <1>1, <1>5, TftpTimeoutRx DEF Expired
<1>6. ASSUME h \in Leasing PROVE RxInv(Expired(t, h))
  <2>1. ~Calm
    BY <1>6 DEF RxInv, TimedInv, TimerInv
  <2>2. Expired(t, h) = RequestTimeout(t, h)
    BY <1>6 DEF Expired, Leasing
  <2> QED BY <1>1, <1>6, <2>1, <2>2, RequestTimeoutRx
<1>7. h \in {"none", "again", "ping", "tftp"} \cup Leasing
  BY <1>0 DEF Globals, Handlers, Leasing
<1> QED BY <1>3, <1>4, <1>5, <1>6, <1>7 DEF CheckTimeout, t

LEMMA ArpReplyRx ==
  ASSUME NEW s, RxInv(s)
  PROVE  RxInv(ArpReply(s))
<1>1. CASE s.NetOurIP = "unset" \/ s.arpPacket = "none"
  BY <1>1 DEF ArpReply
<1>2. CASE ~(s.NetOurIP = "unset" \/ s.arpPacket = "none")
  <2> DEFINE a == s.arpPacket
             n == NoArpWait(s)
             ne == n.NetServerEther \/ a = "tftp"
             t == [n EXCEPT !.NetServerEther = ne]
  <2>1. s \in Globals /\ a \in {"tftp", "ping"}
    BY <1>2 DEF RxInv, TimedInv, LoopInv, Globals
  <2> HIDE DEF a
  <2>2. Sent(s, n) /\ n \in Globals
    BY <2>1, NoArpWaitFacts DEF Sent, Kept
  <2> HIDE DEF n
  <2>3. ne \in BOOLEAN
    OBVIOUS
  <2> HIDE DEF ne
  <2>4. Sent(n, t) /\ t \in Globals
    BY <2>2, <2>3 DEF Sent, Kept, Globals
  <2> HIDE DEF t
  <2>5. Sent(t, eth_send(t, a))
    BY <2>1, <2>4, SendFacts DEF Packets
  <2>6. RxInv(t)
    <3>1. RxInv(n)
      BY <2>2, SentRx
    <3> QED BY <2>4, <3>1, SentRx
  <2>7. RxInv(eth_send(t, a))
    BY <2>1, <2>5, <2>6, SentRx DEF Leasing
  <2> QED BY <1>2, <2>7 DEF ArpReply, t, ne, n, a
<1> QED BY <1>1, <1>2

LEMMA SuccessRx ==
  ASSUME NEW s, RxInv(s)
  PROVE  RxInv([s EXCEPT !.NetState = "success"])
<1> DEFINE r == [s EXCEPT !.NetState = "success"]
<1>1. /\ Kept(s, r) /\ r.NetState = "success" /\ r.timeHandler = s.timeHandler
      /\ r.packetHandler = s.packetHandler
  BY DEF RxInv, TimedInv, LoopInv, Kept, Globals
<1> HIDE DEF r
<1>2. RxInv(r)
  BY <1>1, KeptLoop DEF RxInv, TimedInv, LoopInv, TimerInv, Kept, Due
<1> QED BY <1>2 DEF r

\* A RARP reply that no handler waits for changes addresses only.
LEMMA RarpReplyRx ==
  ASSUME NEW s, RxInv(s)
  PROVE  RxInv(RarpReply(s))
<1> DEFINE on == TRUE
           t == [s EXCEPT !.NetOurIP = "lease", !.leaseOpen = on, !.NetServerEther = on]
<1>1. s \in Globals /\ on \in BOOLEAN /\ on
  BY DEF RxInv, TimedInv, LoopInv
<1> HIDE DEF on
<1>2. t \in Globals
  BY <1>1, ZenonT(120) DEF Globals
<1>0. /\ t.leaseOpen = on /\ t.starts = s.starts /\ t.NetTryCount = s.NetTryCount
      /\ t.NetState = s.NetState /\ t.timeHandler = s.timeHandler
      /\ t.packetHandler = s.packetHandler
  BY <1>1, <1>2 DEF Globals
<1> HIDE DEF t
<1>3. RxInv(t)
  BY <1>0, <1>1, <1>2 DEF RxInv, TimedInv, LoopInv, TimerInv, Tried, Due, Agrees
<1>4. s.packetHandler = "rarp" => RxInv(Lease(t, "rarp", FALSE))
  <2> HAVE s.packetHandler = "rarp"
  <2>1. ~Calm
    BY DEF RxInv, Leasing
  <2> QED BY <1>3, <2>1, LeaseRx DEF Leasing
<1>5. RarpReply(s) = IF s.packetHandler = "rarp" THEN Lease(t, "rarp", FALSE) ELSE t
  BY DEF RarpReply, t, on
<1> QED BY <1>3, <1>4, <1>5

\* What an answer can do.
LEMMA AnswerCases ==
  ASSUME NEW s, NEW m, NEW bad \in BOOLEAN, NEW named
  PROVE  LET x == Answer(s, m, bad, named) IN
         \/ x = s \/ x = ArpReply(s) \/ x = RarpReply(s) \/ x = [s EXCEPT !.NetState = "success"]
         \/ s.packetHandler = "bootp" /\ x = Lease(s, "bootp", named)
         \/ bad /\ x = NetStartAgain([s EXCEPT !.errs = @ + 1])
<1> DEFINE t == [s EXCEPT !.NetState = "success"]
           e == NetStartAgain([s EXCEPT !.errs = @ + 1])
           b == Lease(s, "bootp", named)
           x == Answer(s, m, bad, named)
<1>1. x = IF ~ForUs(s, m) THEN s
          ELSE IF m.a = "arp" THEN ArpReply(s)
          ELSE IF m.a = "rarp" THEN RarpReply(s)
          ELSE IF m.a # s.packetHandler THEN s
          ELSE CASE m.a = "bootp"         -> b
                 [] m.a = "tftp" /\ bad  -> e
                 [] OTHER                 -> t
  BY Zenon DEF Answer
<1> HIDE DEF t, e, b, x
<1>2. CASE ~ForUs(s, m) \/ m.a = "arp" \/ m.a = "rarp" \/ m.a # s.packetHandler
  <2>1. x = s \/ x = ArpReply(s) \/ x = RarpReply(s)
    BY <1>1, <1>2
  <2> QED BY <2>1 DEF x
<1>3. CASE ForUs(s, m) /\ m.a \notin {"arp", "rarp"} /\ m.a = s.packetHandler
  <2>1. x = CASE m.a = "bootp"         -> b
              [] m.a = "tftp" /\ bad  -> e
              [] OTHER                 -> t
    BY <1>1, <1>3
  <2>2. \/ s.packetHandler = "bootp" /\ x = b
        \/ bad /\ x = e
        \/ x = t
    BY <1>3, <2>1
  <2> QED BY <2>2 DEF x, t, e, b
<1> QED BY <1>2, <1>3

\* An error packet, counted.
LEMMA ErrFacts ==
  ASSUME NEW s \in Globals, s.errs < MaxErrs
  PROVE  Sent(s, [s EXCEPT !.errs = @ + 1])
<1> DEFINE n == s.errs + 1
<1>1. n \in 0..MaxErrs
  BY NetLoopAssumption DEF Globals
<1> HIDE DEF n
<1>2. Sent(s, [s EXCEPT !.errs = n])
  BY <1>1 DEF Sent, Kept, Globals
<1> QED BY <1>2 DEF n

\* No handler of BOOTP or RARP is called in a command that is calm.
LEMMA AnswerRx ==
  ASSUME conf \in Confs, NEW s, RxInv(s), NEW m,
         NEW bad \in BOOLEAN, NEW named \in BOOLEAN, bad => s.errs < MaxErrs
  PROVE  RxInv(Answer(s, m, bad, named))
<1>1. RxInv(ArpReply(s)) /\ RxInv(RarpReply(s)) /\ RxInv([s EXCEPT !.NetState = "success"])
  BY ArpReplyRx, RarpReplyRx, SuccessRx
<1>2. s.packetHandler = "bootp" => RxInv(Lease(s, "bootp", named))
  <2> HAVE s.packetHandler = "bootp"
  <2>1. ~Calm
    BY DEF RxInv, Leasing
  <2> QED BY <2>1, LeaseRx DEF Leasing
<1>3. bad => RxInv(NetStartAgain([s EXCEPT !.errs = @ + 1]))
  <2> HAVE bad
  <2>1. Sent(s, [s EXCEPT !.errs = @ + 1])
    BY ErrFacts DEF RxInv, TimedInv, LoopInv
  <2> QED BY <2>1, SentRx, StartAgainRx
<1>4. PICK x : x = Answer(s, m, bad, named)
  OBVIOUS
<1>5. \/ x = s \/ x = ArpReply(s) \/ x = RarpReply(s) \/ x = [s EXCEPT !.NetState = "success"]
      \/ s.packetHandler = "bootp" /\ x = Lease(s, "bootp", named)
      \/ bad /\ x = NetStartAgain([s EXCEPT !.errs = @ + 1])
  BY <1>4, AnswerCases
<1>6. RxInv(x)
  BY <1>1, <1>2, <1>3, <1>5
<1> QED BY <1>4, <1>6

\* eth_rx leaves the globals alone or hands one answer to the handler, perhaps
\* one that is late.
LEMMA eth_rxCases ==
  ASSUME NEW s \in Globals, NEW r \in eth_rx(s)
  PROVE  \/ r = s
         \/ \E t \in Globals, m \in Packet, bad \in BOOLEAN, named \in BOOLEAN :
              /\ Sent(s, t) /\ (bad => t.errs < MaxErrs)
              /\ r = Answer(t, m, bad, named)
<1> DEFINE live == conf.kind[s.eth_current] = "live"
           B == {FALSE, ~live /\ s.errs < MaxErrs}
           A(m) == [s EXCEPT !.air = @ \ {m}]
           L(l) == [s EXCEPT !.late = @ \ {l}]
           none == IF live /\ s.air # {} THEN {} ELSE {s}
           S == {Answer(A(m), m, bad, named) : m \in s.air, bad \in B, named \in BOOLEAN}
           T == {Answer(L(l), l.m, FALSE, FALSE) : l \in {x \in s.late : x.dev = s.eth_current}}
<1>1. eth_rx(s) = (none \cup S) \cup T
  BY DEF eth_rx
<1>2. none \subseteq {s} /\ \A bad \in B : bad \in BOOLEAN /\ (bad => s.errs < MaxErrs)
  OBVIOUS
<1>3. \A m : Sent(s, A(m)) /\ A(m).errs = s.errs
  BY DEF Sent, Kept, Globals
<1>4. \A l : Sent(s, L(l)) /\ L(l).errs = s.errs
  BY DEF Sent, Kept, Globals
<1>5. s.air \subseteq Packet /\ \A l \in s.late : l.m \in Packet
  BY DEF Globals, Late
<1> HIDE DEF A, L, B
<1>6. r \in S => \E m \in s.air, bad \in B, named \in BOOLEAN : r = Answer(A(m), m, bad, named)
  OBVIOUS
<1>7. r \in T => \E l \in s.late : r = Answer(L(l), l.m, FALSE, FALSE)
  OBVIOUS
<1> HIDE DEF none, S, T
<1>8. CASE r \in S
  <2>1. PICK m \in s.air, bad \in B, named \in BOOLEAN : r = Answer(A(m), m, bad, named)
    BY <1>6, <1>8
  <2>2. A(m) \in Globals /\ m \in Packet /\ bad \in BOOLEAN /\ (bad => A(m).errs < MaxErrs)
    BY <1>2, <1>3, <1>5 DEF Sent, Kept
  <2> QED BY <1>3, <2>1, <2>2
<1>9. CASE r \in T
  <2>1. PICK l \in s.late : r = Answer(L(l), l.m, FALSE, FALSE)
    BY <1>7, <1>9
  <2>2. L(l) \in Globals /\ l.m \in Packet
    BY <1>4, <1>5 DEF Sent, Kept
  <2> QED BY <1>4, <2>1, <2>2
<1> QED BY <1>1, <1>2, <1>8, <1>9

LEMMA eth_rxRx ==
  ASSUME conf \in Confs, NEW s, RxInv(s), NEW r \in eth_rx(s)
  PROVE  RxInv(r)
<1>0. s \in Globals
  BY DEF RxInv, TimedInv, LoopInv
<1>1. CASE r = s
  BY <1>1
<1>2. CASE r # s
  <2>1. PICK t \in Globals, m \in Packet, bad \in BOOLEAN, named \in BOOLEAN :
          Sent(s, t) /\ (bad => t.errs < MaxErrs) /\ r = Answer(t, m, bad, named)
    BY <1>0, <1>2, eth_rxCases
  <2>2. RxInv(t)
    BY <2>1, SentRx
  <2> QED BY <2>1, <2>2, AnswerRx
<1> QED BY <1>1, <1>2

LEMMA ArpTimeoutRx ==
  ASSUME conf \in Confs, NEW s, RxInv(s)
  PROVE  RxInv(ArpTimeoutCheck(s))
<1> DEFINE n == s.NetArpWaitTry + 1
           t == [s EXCEPT !.NetArpWaitTry = n]
           u == [t EXCEPT !.NetArpWaitTry = 0]
           v == [t EXCEPT !.arpAge = 0]
<1>0. s \in Globals
  BY DEF RxInv, TimedInv, LoopInv
<1>1. CASE s.arpPacket = "none" \/ s.arpAge < 1
  BY <1>1 DEF ArpTimeoutCheck
<1>2. CASE ~(s.arpPacket = "none" \/ s.arpAge < 1) /\ n >= ARP_TIMEOUT_COUNT
  <2>1. Sent(s, u)
    BY <1>0, SmallNumbers DEF Sent, Kept, Globals
  <2>2. t.NetArpWaitTry = n
    BY <1>0 DEF Globals
  <2>3. ArpTimeoutCheck(s) = NetStartAgain(u)
    BY <1>2, <2>2 DEF ArpTimeoutCheck
  <2> HIDE DEF u
  <2>4. RxInv(NetStartAgain(u))
    BY <2>1, SentRx, StartAgainRx
  <2> QED BY <2>3, <2>4
<1>3. CASE ~(s.arpPacket = "none" \/ s.arpAge < 1) /\ ~(n >= ARP_TIMEOUT_COUNT)
  <2>1. n \in 0..(ARP_TIMEOUT_COUNT - 1)
    BY <1>0, <1>3, NetLoopAssumption DEF Globals
  <2>2. t.NetArpWaitTry = n
    BY <1>0 DEF Globals
  <2>3. ArpTimeoutCheck(s) = eth_send(v, "arp")
    BY <1>3, <2>2 DEF ArpTimeoutCheck
  <2> HIDE DEF n
  <2>4. Sent(s, v) /\ v \in Globals
    BY <1>0, <2>1, SmallNumbers DEF Sent, Kept, Globals
  <2> HIDE DEF v
  <2>5. RxInv(v)
    BY <2>4, SentRx
  <2>6. Sent(v, eth_send(v, "arp"))
    BY <2>4, SendFacts DEF Packets
  <2>7. RxInv(eth_send(v, "arp"))
    BY <2>5, <2>6, SentRx DEF Leasing
  <2> QED BY <2>3, <2>7
<1> QED BY <1>1, <1>2, <1>3
----------------------------------------------------------------------------
(* The actions. *)

\* What the globals keep when a command ends.
LeaveInv(s) ==
    /\ s \in Globals /\ Tried(s)
    /\ NoNomac \/ Calm => AgreesOrChanged(s)

LEMMA RxLeaves ==
  ASSUME NEW s, RxInv(s)
  PROVE  LeaveInv(s)
BY DEF RxInv, TimedInv, LoopInv, LeaveInv, Calm, Agrees, AgreesOrChanged

\* Nothing that the invariant asks of the board or the command changes.
LEMMA SameCommand ==
  ASSUME conf' = conf, call'.proto = call.proto, call'.n = call.n
  PROVE  /\ NoNomac' = NoNomac /\ Plain' = Plain /\ Calm' = Calm /\ Limit' = Limit
         /\ Confs' = Confs /\ Globals' = Globals
BY DEF NoNomac, Plain, Calm, Limit, Confs, Globals

LEMMA LeaveStep ==
  ASSUME StaticInv, pc # "idle", NEW t, LeaveInv(t), g' = t,
         NEW r \in {"ok", "fail", "abort", "noaddr"}, Return(r), UNCHANGED <<conf, sets>>,
         r = "noaddr" /\ Calm /\ ~t.envChanged /\ ~t.leaseOpen => t.ipaddr = "unset"
  PROVE  Inv'
<1>1. /\ call' = [call EXCEPT !.ret = r] /\ pc' = "idle" /\ call.n # 0
      /\ call'.proto = call.proto /\ call'.n = call.n /\ call'.ret = r
  BY DEF Return, StaticInv
<1>2. /\ NoNomac' = NoNomac /\ Plain' = Plain /\ Calm' = Calm /\ Limit' = Limit
  BY <1>1, SameCommand
<1>3. StaticInv'
  BY <1>1 DEF StaticInv, Confs
<1>4. Tried(t)'
  BY <1>2 DEF Tried, LeaveInv
<1>5. IdleInv(t)'
  BY <1>1, <1>2, <1>4 DEF IdleInv, LeaveInv, AgreesOrChanged, Globals
<1> QED BY <1>1, <1>3, <1>5 DEF Inv

LEMMA RxStep ==
  ASSUME StaticInv, pc # "idle", NEW t, RxInv(t), g' = t, pc' = "rx",
         UNCHANGED <<conf, call, sets>>
  PROVE  Inv'
<1>1. /\ NoNomac' = NoNomac /\ Plain' = Plain /\ Calm' = Calm /\ Limit' = Limit
  BY SameCommand
<1>2. StaticInv'
  BY DEF StaticInv, Confs
<1>3. RxInv(t)'
  BY <1>1 DEF RxInv, TimedInv, LoopInv, TimerInv, Tried, Due, Agrees, Globals
<1> QED BY <1>2, <1>3 DEF Inv

LEMMA RestartStep ==
  ASSUME StaticInv, pc # "idle", NEW t, RestartInv(t), g' = t, pc' = "restart",
         UNCHANGED <<conf, call, sets>>
  PROVE  Inv'
<1>1. /\ NoNomac' = NoNomac /\ Plain' = Plain /\ Calm' = Calm /\ Limit' = Limit
  BY SameCommand
<1>2. StaticInv'
  BY DEF StaticInv, Confs
<1>3. RestartInv(t)'
  BY <1>1 DEF RestartInv, Tried, Due, AgreesOrChanged, Globals
<1> QED BY <1>2, <1>3 DEF Inv

LEMMA InvInit == Init => Inv
<1> SUFFICES ASSUME Init PROVE Inv
  OBVIOUS
<1>1. conf \in Confs
  <2> DEFINE R == Retries \cup {0}
  <2>1. \A x \in R : x \in Nat
    BY NetLoopAssumption
  <2>2. conf \in [kind : [Devices -> Kinds], rotate : BOOLEAN, autoload : BOOLEAN,
                       forever : BOOLEAN, retrycnt : R]
    BY Zenon DEF Init
  <2> HIDE DEF R
  <2> QED BY <2>1, <2>2 DEF Confs
<1>2. StaticInv
  BY <1>1, NetLoopAssumption DEF Init, StaticInv
<1>3. g \in Globals
  <2>1. 0 \in 0..MaxErrs
    BY NetLoopAssumption
  <2> QED BY <2>1, SmallNumbers, DeviceFacts DEF Init, Globals, Handlers
<1>4. /\ g.NetTryCount = 1 /\ g.starts = 0 /\ g.timeHandler = "none" /\ g.envChanged
      /\ g.packetHandler = "none"
  BY DEF Init
<1>5. Tried(g)
  BY <1>1, <1>4, LimitFacts DEF Tried
<1>6. IdleInv(g)
  BY <1>3, <1>4, <1>5 DEF IdleInv, AgreesOrChanged
<1> QED BY <1>2, <1>6 DEF Inv, Init

\* The passes of the loop, from eth_rx to the switch on NetState.
LEMMA TurnInv ==
  ASSUME Inv, Turn
  PROVE  Inv'
<1> DEFINE Switch(s) ==
         \/ /\ s.NetState = "continue"
            /\ g' = s
            /\ UNCHANGED <<pc, call>>
         \/ /\ s.NetState = "restart"
            /\ g' = [s EXCEPT !.NetRestarted = TRUE]
            /\ pc' = "restart"
            /\ UNCHANGED call
         \/ /\ s.NetState = "success"
            /\ g' = IF call.proto = "ping" THEN eth_halt(s)
                    ELSE netboot_update_env(eth_halt(s))
            /\ Return("ok")
         \/ /\ s.NetState = "fail"
            /\ g' = s
            /\ Return("fail")
<1>0. StaticInv /\ conf \in Confs /\ pc = "rx" /\ RxInv(g) /\ UNCHANGED <<conf, sets>>
  BY DEF Inv, Turn, StaticInv
<1>1. PICK r \in eth_rx(g) : \E a \in {ArpTimeoutCheck(r)} : \E s \in {CheckTimeout(a)} : Switch(s)
  BY Zenon DEF Turn
<1> HIDE DEF Switch
<1>2. RxInv(r)
  BY <1>0, eth_rxRx
<1>3. PICK a \in {ArpTimeoutCheck(r)} : \E s \in {CheckTimeout(a)} : Switch(s)
  BY <1>1
<1>4. RxInv(a)
  BY <1>0, <1>2, <1>3, ArpTimeoutRx
<1>5. PICK s \in {CheckTimeout(a)} : Switch(s)
  BY <1>3
<1>6. RxInv(s) /\ s \in Globals
  BY <1>0, <1>4, <1>5, CheckTimeoutRx DEF RxInv, TimedInv, LoopInv
<1>7. CASE g' = s /\ UNCHANGED <<pc, call>>
  BY <1>0, <1>6, <1>7, RxStep
<1>8. CASE s.NetState = "restart" /\ g' = [s EXCEPT !.NetRestarted = TRUE] /\ pc' = "restart"
           /\ UNCHANGED call
  <2> DEFINE t == [s EXCEPT !.NetRestarted = TRUE]
  <2>1. Sent(s, t) /\ t.envChanged = s.envChanged
    BY <1>6 DEF Sent, Kept, Globals
  <2> HIDE DEF t
  <2>2. RxInv(t) /\ Due(t)
    BY <1>6, <1>8, <2>1, SentRx DEF RxInv, TimedInv, LoopInv, Sent, Kept, Due
  <2>3. RestartInv(t)
    BY <2>2 DEF RxInv, TimedInv, LoopInv, TimerInv, RestartInv, Calm, Agrees, AgreesOrChanged
  <2>4. g' = t
    BY <1>8 DEF t
  <2> QED BY <1>0, <1>8, <2>3, <2>4, RestartStep
<1>9. CASE /\ g' = IF call.proto = "ping" THEN eth_halt(s) ELSE netboot_update_env(eth_halt(s))
           /\ Return("ok")
  <2> DEFINE h == eth_halt(s)
             ip == IF h.NetOurIP = "unset" THEN h.ipaddr ELSE h.NetOurIP
             t == [h EXCEPT !.ipaddr = ip, !.envChanged = TRUE, !.leaseOpen = FALSE]
  <2>1. Sent(s, h) /\ h \in Globals
    BY <1>6, HaltFacts DEF Sent, Kept
  <2>2. RxInv(h)
    BY <1>6, <2>1, SentRx
  <2> HIDE DEF h
  <2>3. ip \in {"unset", "a", "lease"}
    BY <2>1 DEF Globals
  <2>4. netboot_update_env(h) = t
    BY DEF netboot_update_env
  <2> HIDE DEF ip
  <2>5. t \in Globals /\ t.starts = h.starts /\ t.NetTryCount = h.NetTryCount /\ t.envChanged = TRUE
    BY <2>1, <2>3, ZenonT(120) DEF Globals
  <2> HIDE DEF t
  <2>6. LeaveInv(t)
    BY <2>2, <2>5 DEF RxInv, TimedInv, LoopInv, LeaveInv, Tried, AgreesOrChanged
  <2>7. LeaveInv(h)
    BY <2>2, RxLeaves
  <2>8. g' = h \/ g' = t
    BY <1>9, <2>4 DEF h
  <2> QED BY <1>0, <1>9, <2>6, <2>7, <2>8, LeaveStep
<1>10. CASE g' = s /\ Return("fail")
  BY <1>0, <1>6, <1>10, RxLeaves, LeaveStep
<1> QED BY <1>5, <1>7, <1>8, <1>9, <1>10 DEF Switch

LEMMA AbortInv ==
  ASSUME Inv, Abort
  PROVE  Inv'
<1>0. /\ StaticInv /\ conf \in Confs /\ pc = "rx" /\ RxInv(g)
      /\ UNCHANGED <<conf, sets>> /\ Return("abort")
  BY DEF Inv, Abort, StaticInv
<1>1. PICK s \in eth_rx(g) : g' = eth_halt(s)
  BY DEF Abort
<1> DEFINE h == eth_halt(s)
<1>2. RxInv(s) /\ s \in Globals
  BY <1>0, <1>1, eth_rxRx DEF RxInv, TimedInv, LoopInv
<1>3. RxInv(h)
  BY <1>2, HaltFacts, SentRx
<1> QED BY <1>0, <1>1, <1>3, RxLeaves, LeaveStep

\* NetInitLoop leaves a calm command with the address of the environment.
LEMMA InitLoopFacts ==
  ASSUME NEW s, RestartInv(s)
  PROVE  LET t == NetInitLoop([s EXCEPT !.NetState = "continue"]) IN
         /\ t \in Globals /\ t.starts = s.starts /\ t.NetTryCount = s.NetTryCount
         /\ t.packetHandler = s.packetHandler /\ t.timeHandler = s.timeHandler /\ t.NetState = "continue"
         /\ Calm => Agrees(t)
<1> DEFINE c == [s EXCEPT !.NetState = "continue"]
           t == [c EXCEPT !.NetOurIP = c.ipaddr, !.envChanged = FALSE, !.leaseOpen = FALSE]
<1>1. /\ c \in Globals /\ c.starts = s.starts /\ c.NetTryCount = s.NetTryCount
      /\ c.packetHandler = s.packetHandler /\ c.timeHandler = s.timeHandler /\ c.NetState = "continue"
      /\ c.envChanged = s.envChanged /\ c.leaseOpen = s.leaseOpen
      /\ c.NetOurIP = s.NetOurIP /\ c.ipaddr = s.ipaddr
  BY DEF RestartInv, Globals
<1>2. Calm /\ ~c.envChanged => Agrees(c)
  BY <1>1 DEF RestartInv, Agrees, AgreesOrChanged
<1> HIDE DEF c
<1>3. /\ t \in Globals /\ t.starts = c.starts /\ t.NetTryCount = c.NetTryCount
      /\ t.packetHandler = c.packetHandler /\ t.timeHandler = c.timeHandler /\ t.NetState = c.NetState
      /\ t.NetOurIP = t.ipaddr
  BY <1>1, ZenonT(120) DEF Globals
<1>4. NetInitLoop(c) = IF c.envChanged THEN t ELSE c
  BY DEF NetInitLoop
<1> HIDE DEF t
<1> QED BY <1>1, <1>2, <1>3, <1>4 DEF c, Agrees

\* From restart: into the packet loop, or back without an address.
LEMMA RestartActionInv ==
  ASSUME Inv, Restart
  PROVE  Inv'
<1>0. StaticInv /\ conf \in Confs /\ pc = "restart" /\ RestartInv(g) /\ UNCHANGED <<conf, sets>>
  BY DEF Inv, Restart, StaticInv
<1>1. PICK s : s = NetInitLoop([g EXCEPT !.NetState = "continue"])
  OBVIOUS
<1> DEFINE n == IF conf.forever THEN s.starts ELSE s.starts + 1
           o == [s EXCEPT !.NetDevExists = TRUE, !.starts = n]
<1>2. PICK ok : ok = o
  OBVIOUS
<1>3. PICK p : p = call.proto
  OBVIOUS
<1>4. \/ /\ p \in {"tftp", "ping"} /\ s.NetOurIP = "unset"
         /\ g' = eth_halt(s)
         /\ Return("noaddr")
      \/ /\ g' = IF conf.kind[s.eth_current] = "nomac" THEN NetStartAgain(s)
                 ELSE IF p = "tftp" THEN TftpStart(ok)
                 ELSE IF p = "ping" THEN PingStart(ok)
                 ELSE RequestStart(ok, p)
         /\ pc' = "rx"
         /\ UNCHANGED call
  BY <1>1, <1>2, <1>3, Zenon DEF Restart
<1>5. /\ s \in Globals /\ s.starts = g.starts /\ s.NetTryCount = g.NetTryCount
      /\ s.packetHandler = g.packetHandler /\ s.timeHandler = g.timeHandler /\ s.NetState = "continue"
      /\ Calm => Agrees(s)
  BY <1>0, <1>1, InitLoopFacts
<1>6. Tried(s) /\ Due(s) /\ s.starts \in Nat
  BY <1>0, <1>5 DEF RestartInv, Tried, Due, Globals
<1>7. n \in Nat /\ (~conf.forever => n <= s.NetTryCount)
  BY <1>5, <1>6, LimitFacts, <1>0 DEF Tried, Due, Globals
<1>8. CASE p \in {"tftp", "ping"} /\ s.NetOurIP = "unset" /\ g' = eth_halt(s) /\ Return("noaddr")
  <2>1. PICK h : h = eth_halt(s)
    OBVIOUS
  <2>2. Sent(s, h) /\ h.envChanged = s.envChanged
    BY <1>5, <2>1, HaltFacts
  <2>3. Plain
    BY <1>3, <1>8 DEF Plain
  <2>4. LeaveInv(h)
    BY <1>5, <1>6, <2>2, <2>3 DEF LeaveInv, Sent, Kept, Tried, Calm, Agrees, AgreesOrChanged
  <2>5. Calm /\ ~h.leaseOpen => h.ipaddr = "unset"
    BY <1>5, <1>8, <2>2 DEF Agrees, Sent, Kept
  <2> QED BY <1>0, <1>8, <2>1, <2>4, <2>5, LeaveStep
<1>9. CASE /\ g' = IF conf.kind[s.eth_current] = "nomac" THEN NetStartAgain(s)
                   ELSE IF p = "tftp" THEN TftpStart(ok)
                   ELSE IF p = "ping" THEN PingStart(ok)
                   ELSE RequestStart(ok, p)
           /\ pc' = "rx"
           /\ UNCHANGED call
  <2> HIDE DEF n
  <2>1. /\ ok \in Globals /\ ok.starts = n /\ ok.NetTryCount = s.NetTryCount
        /\ ok.NetState = "continue"
        /\ ok.leaseOpen = s.leaseOpen /\ ok.NetOurIP = s.NetOurIP /\ ok.ipaddr = s.ipaddr
    BY <1>2, <1>5, <1>7 DEF Globals
  <2>2. Tried(ok)
    BY <1>6, <1>7, <2>1 DEF Tried
  <2>3. CASE conf.kind[s.eth_current] = "nomac"
    <3>1. ~NoNomac
      BY <1>5, <2>3 DEF NoNomac, Globals
    <3>2. RxInv(s)
      BY <1>0, <1>5, <1>6, <3>1 DEF RxInv, TimedInv, LoopInv, TimerInv, RestartInv, Calm
    <3>3. PICK t : t = NetStartAgain(s)
      OBVIOUS
    <3>4. RxInv(t)
      BY <1>0, <3>2, <3>3, StartAgainRx
    <3> QED BY <1>0, <1>9, <2>3, <3>3, <3>4, RxStep
  <2>4. CASE conf.kind[s.eth_current] # "nomac" /\ p \in {"tftp", "ping"}
    <3>1. Plain
      BY <1>3, <2>4 DEF Plain
    <3>2. LoopInv(ok)
      BY <1>0, <1>5, <2>1, <2>2, <3>1 DEF LoopInv, RestartInv, Agrees
    <3>3. PICK t : t = IF p = "tftp" THEN TftpStart(ok) ELSE PingStart(ok)
      OBVIOUS
    <3>4. RxInv(t)
      BY <3>2, <3>3, TftpStartRx, PingStartRx
    <3>5. g' = t
      BY <1>9, <2>4, <3>3
    <3> QED BY <1>0, <1>9, <3>4, <3>5, RxStep
  <2>5. CASE conf.kind[s.eth_current] # "nomac" /\ p \notin {"tftp", "ping"}
    <3>1. ~Plain /\ p \in Leasing
      BY <1>0, <1>3, <2>5 DEF Plain, Leasing, StaticInv
    <3>2. PICK t : t = RequestStart(ok, p)
      OBVIOUS
    <3>3. RxInv(t)
      BY <2>1, <2>2, <3>1, <3>2, RequestStartRx
    <3>4. g' = t
      BY <1>9, <2>5, <3>2
    <3> QED BY <1>0, <1>9, <3>3, <3>4, RxStep
  <2> QED BY <2>3, <2>4, <2>5
<1> QED BY <1>4, <1>8, <1>9

LEMMA TickInv ==
  ASSUME Inv, Tick
  PROVE  Inv'
<1>0. StaticInv /\ pc = "rx" /\ RxInv(g) /\ g \in Globals /\ UNCHANGED <<conf, pc, call, sets>>
  BY DEF Inv, Tick, RxInv, TimedInv, LoopInv
<1> DEFINE ta == IF g.timeAge < timeDelta(g.timeHandler) THEN g.timeAge + 1 ELSE g.timeAge
           aa == IF g.arpAge < 1 /\ g.arpPacket # "none" THEN g.arpAge + 1 ELSE g.arpAge
<1>1. ta \in 0..2 /\ aa \in 0..1
  BY <1>0 DEF Globals, timeDelta
<1>2. g' = [g EXCEPT !.timeAge = ta, !.arpAge = aa]
  BY DEF Tick
<1> HIDE DEF ta, aa
<1>3. PICK t : t = [g EXCEPT !.timeAge = ta, !.arpAge = aa]
  OBVIOUS
<1>4. Sent(g, t)
  BY <1>0, <1>1, <1>3 DEF Sent, Kept, Globals
<1>5. RxInv(t)
  BY <1>0, <1>4, SentRx
<1> QED BY <1>0, <1>2, <1>3, <1>5, RxStep

\* A command starts with one try and no attempt, and finds what the last one left.
LEMMA CallInv ==
  ASSUME Inv, NEW p \in Protocols, Call(p)
  PROVE  Inv'
<1>0. /\ StaticInv /\ conf \in Confs /\ pc = "idle" /\ IdleInv(g) /\ g \in Globals
      /\ UNCHANGED <<conf, sets>> /\ call.n < MaxCalls
  BY DEF Inv, Call, StaticInv, IdleInv
<1> DEFINE q == NoArpWait(eth_halt(g))
           dev == g.ethact
           s == [q EXCEPT !.NetRestarted = FALSE, !.NetDevExists = FALSE, !.NetTryCount = 1,
                          !.eth_current = dev, !.starts = 0]
           t == Advance(s, eth_init(g.ethact), g.first_failed)
           m == call.n + 1
           c == [proto |-> p, n |-> m, ret |-> "none"]
<1>1. /\ q \in Globals /\ q.timeHandler = g.timeHandler /\ q.packetHandler = g.packetHandler
      /\ q.leaseOpen = g.leaseOpen /\ q.envChanged = g.envChanged
      /\ q.NetOurIP = g.NetOurIP /\ q.ipaddr = g.ipaddr
  BY <1>0, HaltFacts, NoArpWaitFacts DEF Sent, Kept
<1> HIDE DEF q
<1>2. /\ s \in Globals /\ s.timeHandler = g.timeHandler /\ s.packetHandler = g.packetHandler
      /\ s.starts = 0 /\ s.NetTryCount = 1
      /\ s.leaseOpen = g.leaseOpen /\ s.envChanged = g.envChanged
      /\ s.NetOurIP = g.NetOurIP /\ s.ipaddr = g.ipaddr
  <2>1. dev \in Devices
    BY <1>0 DEF Globals
  <2> HIDE DEF dev
  <2>2. s \in Globals
    BY <1>1, <2>1, SmallNumbers DEF Globals
  <2>3. /\ s.timeHandler = q.timeHandler /\ s.packetHandler = q.packetHandler
        /\ s.starts = 0 /\ s.NetTryCount = 1
        /\ s.leaseOpen = q.leaseOpen /\ s.envChanged = q.envChanged
        /\ s.NetOurIP = q.NetOurIP /\ s.ipaddr = q.ipaddr
    BY <1>1 DEF Globals
  <2> QED BY <1>1, <2>2, <2>3
<1> HIDE DEF s
<1>3. eth_init(g.ethact) \in Nat /\ g.first_failed \in Devices \cup {NoDev}
  BY <1>0, eth_initType DEF Globals
<1>4. Sent(s, t) /\ (s.envChanged => t.envChanged)
  BY <1>2, <1>3, AdvanceFacts
<1>5. m \in 0..MaxCalls /\ m # 0 /\ (m = 1 => call.n = 0)
  BY <1>0, NetLoopAssumption DEF StaticInv
<1>6. /\ g' = t
      /\ \/ pc' = "restart" /\ call' = c
         \/ pc' = "idle" /\ call' = [c EXCEPT !.ret = "noeth"]
  BY Zenon DEF Call, t, s, q, dev
<1> HIDE DEF t, m
<1>7. /\ call' \in [proto : {"tftp", "ping", "bootp", "rarp"}, n : 0..MaxCalls,
                    ret : {"none", "ok", "fail", "abort", "noaddr", "noeth"}]
      /\ call'.n = m /\ call'.ret # "noaddr"
  BY <1>5, <1>6, NetLoopAssumption
<1>8. NoNomac' = NoNomac /\ Limit' = Limit /\ Globals' = Globals
  BY <1>0 DEF NoNomac, Limit, Globals
<1>9. StaticInv'
  BY <1>0, <1>5, <1>6, <1>7 DEF StaticInv, Confs
<1>10. Tried(g)' /\ Due(g)'
  BY <1>0, <1>2, <1>4, <1>6, <1>8, LimitFacts DEF Tried, Due, Sent, Kept
<1>11. /\ g' \in Globals /\ g'.timeHandler = g.timeHandler
       /\ g'.packetHandler = g.packetHandler
  BY <1>2, <1>4, <1>6 DEF Sent, Kept
<1>12. AgreesOrChanged(g) => AgreesOrChanged(g)'
  BY <1>2, <1>4, <1>6 DEF AgreesOrChanged, Sent, Kept
<1>13. NoNomac \/ m = 1 => AgreesOrChanged(g)'
  BY <1>0, <1>5, <1>12 DEF IdleInv
<1>14. m = 1 => g'.timeHandler = "none" /\ g'.packetHandler = "none"
  BY <1>0, <1>5, <1>11 DEF IdleInv
<1>15. RestartInv(g)'
  BY <1>7, <1>8, <1>10, <1>11, <1>13, <1>14 DEF RestartInv, Calm, Leasing
<1>16. IdleInv(g)'
  BY <1>5, <1>7, <1>8, <1>10, <1>11, <1>13 DEF IdleInv, Calm
<1> QED BY <1>6, <1>9, <1>15, <1>16 DEF Inv

LEMMA SetEnvInv ==
  ASSUME Inv, SetEnv
  PROVE  Inv'
<1>0. /\ StaticInv /\ conf \in Confs /\ pc = "idle" /\ IdleInv(g) /\ g \in Globals
      /\ UNCHANGED <<conf, pc, call>> /\ 0 < call.n /\ sets < MaxSets /\ sets' = sets + 1
  BY Zenon DEF Inv, SetEnv, StaticInv, IdleInv
<1>1. g' \in Globals /\ g'.starts = g.starts /\ g'.NetTryCount = g.NetTryCount /\ g'.envChanged = TRUE
  <2>1. CASE \E ip \in {"unset", "a"} : g' = [g EXCEPT !.ipaddr = ip, !.envChanged = TRUE]
    BY <1>0, <2>1, ZenonT(120) DEF Globals
  <2>2. CASE \E d \in Devices : g' = [g EXCEPT !.ethact = d, !.envChanged = TRUE]
    BY <1>0, <2>2, ZenonT(120) DEF Globals
  <2>3. (\E ip \in {"unset", "a"} : g' = [g EXCEPT !.ipaddr = ip, !.envChanged = TRUE])
        \/ (\E d \in Devices : g' = [g EXCEPT !.ethact = d, !.envChanged = TRUE])
    BY DEF SetEnv
  <2> QED BY <2>1, <2>2, <2>3
<1>2. NoNomac' = NoNomac /\ Calm' = Calm /\ Limit' = Limit /\ Globals' = Globals
  BY <1>0, SameCommand
<1>3. Tried(g)'
  BY <1>0, <1>1, <1>2 DEF Tried, IdleInv
<1>4. IdleInv(g)'
  BY <1>0, <1>1, <1>2, <1>3 DEF IdleInv, AgreesOrChanged
<1>5. StaticInv'
  BY <1>0, NetLoopAssumption DEF StaticInv, Confs
<1> QED BY <1>0, <1>4, <1>5 DEF Inv

LEMMA StutterInv ==
  ASSUME Inv, UNCHANGED vars
  PROVE  Inv'
<1>1. UNCHANGED <<conf, g, pc, call, sets>>
  BY DEF vars
<1>2. NoNomac' = NoNomac /\ Plain' = Plain /\ Calm' = Calm /\ Limit' = Limit /\ Globals' = Globals
  BY <1>1, SameCommand
<1> QED BY <1>1, <1>2 DEF Inv, StaticInv, Confs, IdleInv, RestartInv, RxInv, TimedInv, LoopInv,
                          TimerInv, Tried, Due, Agrees, AgreesOrChanged

LEMMA InvNext == Inv /\ [Next]_vars => Inv'
<1> SUFFICES ASSUME Inv, [Next]_vars PROVE Inv'
  OBVIOUS
<1>1. CASE \E p \in Protocols : Call(p)
  BY <1>1, CallInv
<1>2. CASE Restart
  BY <1>2, RestartActionInv
<1>3. CASE Turn
  BY <1>3, TurnInv
<1>4. CASE Abort
  BY <1>4, AbortInv
<1>5. CASE Tick
  BY <1>5, TickInv
<1>6. CASE SetEnv
  BY <1>6, SetEnvInv
<1>7. CASE UNCHANGED vars
  BY <1>7, StutterInv
<1> QED BY <1>1, <1>2, <1>3, <1>4, <1>5, <1>6, <1>7 DEF Next, Pass, Finished

LEMMA Invariant == Spec => []Inv
BY InvInit, InvNext, PTL DEF Spec
----------------------------------------------------------------------------
\* The globals of net.c and eth.c keep their types in every run of NetLoop; in
\* particular NetArpWaitTry never reaches ARP_TIMEOUT_COUNT, whatever packets
\* set it back while the other timer runs.
THEOREM TypeCorrect == Spec => []TypeOK
<1>1. Inv => TypeOK
  BY DEF Inv, StaticInv, Confs, IdleInv, RestartInv, RxInv, TimedInv, LoopInv, TypeOK
<1> QED BY <1>1, Invariant, PTL

\* netretry limits the attempts of a command: however NetStartAgain is reached
\* (ARP, TFTP, BOOTP, RARP, an error packet, a device without address, the timer
\* of a full round), NetTryCount was counted up before another attempt starts.
THEOREM AttemptsBounded == Spec => []BoundedAttempts
<1>1. Inv => BoundedAttempts
  <2> SUFFICES ASSUME Inv, ~conf.forever
               PROVE  g.starts <= Limit
    BY DEF BoundedAttempts, Limit
  <2>1. conf \in Confs /\ g \in Globals /\ Tried(g)
    BY DEF Inv, StaticInv, IdleInv, RestartInv, RxInv, TimedInv, LoopInv
  <2> QED BY <2>1, LimitFacts DEF Tried, Globals
<1> QED BY <1>1, Invariant, PTL

\* NetInitLoop gives a tftp or ping the ipaddr the environment has at the time of
\* the command, and nothing that arrives or expires later takes it away but a RARP
\* reply, which NetReceive obeys whatever protocol runs (leaseOpen then), as long
\* as no stale BOOTP or RARP handler is left (Sound).
THEOREM AddressIsFresh == Spec => []AddressFresh
<1>1. Inv => AddressFresh
  <2> SUFFICES ASSUME Inv, Plain, ~g.leaseOpen, Sound
               PROVE  /\ pc = "rx" => g.NetOurIP = g.ipaddr
                      /\ pc = "idle" /\ call.ret = "noaddr" /\ ~g.envChanged => g.ipaddr = "unset"
    BY DEF AddressFresh, Plain
  <2>1. Calm
    BY DEF Calm, Sound, NoNomac
  <2> QED BY <2>1 DEF Inv, IdleInv, RxInv, TimedInv, LoopInv, Agrees
<1> QED BY <1>1, Invariant, PTL
----------------------------------------------------------------------------
(* The round over the devices.                                             *)
(*                                                                         *)
(* With netretry unset a transfer ends in failure only when NetRestartWrap *)
(* is set and NetDevExists is not.  Once a device could be used, a         *)
(* transfer has found one (Found) and nothing makes it fail any more.      *)
(* Until then nothing was sent and no timer runs (Quiet), and the devices  *)
(* from first_failed up to the current one cannot be used (Round): so when *)
(* the search comes back to first_failed none can.                         *)

Searched == conf.forever /\ call.proto # "ping" /\ Sound
Unusable(d) == conf.kind[d] \in {"noinit", "nomac"}
NoneUsable == \A d \in Devices : Unusable(d)

Ready(s) == s.NetDevExists /\ s.NetState # "fail"
Found(s) == Ready(s) /\ s.timeHandler # "ping"
Quiet(s) == s.timeHandler = "none" /\ s.arpPacket = "none" /\ s.air = {} /\ s.late = {}

Round(s) ==
    /\ ~s.NetRestartWrap
    /\ s.first_failed # NoDev =>
         \E m \in Devices : /\ s.eth_current = (s.first_failed + m) % N
                            /\ \A j \in Devices : j < m => Unusable((s.first_failed + j) % N)

Searching(s) == ~s.NetDevExists /\ Quiet(s) /\ Round(s)

RoundIdle(s) ==
    /\ FailMeansNone
    /\ call.n = 0 => /\ ~s.NetRestartWrap /\ s.first_failed = NoDev
                     /\ s.timeHandler = "none" /\ s.air = {} /\ s.late = {}

RoundRestart(s) ==
    /\ call.ret = "none"
    /\ Searched =>
         \/ NoNomac
         \/ s.NetDevExists /\ s.timeHandler # "ping"
         \/ Searching(s) /\ (conf.rotate => (s.NetRestarted <=> s.first_failed # NoDev))

RoundRx(s) ==
    /\ call.ret = "none"
    /\ Searched =>
         \/ Found(s)
         \/ Searching(s) /\ s.NetState = "restart" /\ (conf.rotate => s.first_failed # NoDev)
         \/ Quiet(s) /\ s.NetState = "fail" /\ NoneUsable

RoundInv ==
    /\ pc = "idle" => RoundIdle(g)
    /\ pc = "restart" => RoundRestart(g)
    /\ pc = "rx" => RoundRx(g)
----------------------------------------------------------------------------
(* A transfer that has found a device does not lose it. *)

LEMMA SentFound ==
  ASSUME NEW s, NEW t, Sent(s, t), Found(s)
  PROVE  Found(t) /\ t \in Globals
BY DEF Sent, Kept, Found, Ready

LEMMA TimeoutFound ==
  ASSUME NEW s \in Globals, NEW h \in Handlers \cup {"again"}, h # "ping", Ready(s)
  PROVE  Found(NetSetTimeout(s, h)) /\ NetSetTimeout(s, h) \in Globals
<1>1. PICK t : t = NetSetTimeout(s, h)
  OBVIOUS
<1>2. Kept(s, t) /\ t.NetState = s.NetState /\ t.timeHandler = h
  BY <1>1, TimeoutFacts
<1> QED BY <1>1, <1>2 DEF Kept, Found, Ready

\* NetStartAgain: a full round sets the timer instead of giving up.
LEMMA StartAgainFound ==
  ASSUME NEW s \in Globals, conf.forever, Found(s)
  PROVE  Found(NetStartAgain(s))
<1> DEFINE h == eth_halt(s)
           n == NextDevice(h)
           count == IF conf.forever THEN n.NetTryCount ELSE n.NetTryCount + 1
           t == [n EXCEPT !.NetTryCount = count]
           u == [t EXCEPT !.NetRestartWrap = FALSE]
           w == NetSetTimeout(u, "again")
           r1 == [t EXCEPT !.NetState = "restart"]
           r3 == [w EXCEPT !.packetHandler = "ignore"]
<1>0. Found(h) /\ h \in Globals
  BY HaltFacts, SentFound
<1> HIDE DEF h
<1>1. Found(n) /\ n \in Globals
  BY <1>0, NextDeviceFacts, SentFound
<1> HIDE DEF n
<1>2. count \in Nat
  BY <1>1 DEF Globals
<1> HIDE DEF count
<1>3. /\ t \in Globals /\ t.NetDevExists = n.NetDevExists
      /\ t.NetState = n.NetState /\ t.timeHandler = n.timeHandler
  <2>1. t \in Globals
    BY <1>1, <1>2, ZenonT(120) DEF Globals
  <2> QED BY <1>1, <2>1 DEF Globals
<1> HIDE DEF t
<1>4. Found(t)
  BY <1>1, <1>3 DEF Found, Ready
<1>10. Sent(t, u)
  <2>1. u \in Globals
    BY <1>3, ZenonT(120) DEF Globals
  <2> QED BY <1>3, <2>1 DEF Sent, Kept, Globals
<1>5. Found(r1)
  BY <1>3, <1>4 DEF Found, Ready, Globals
<1> HIDE DEF u
<1>6. Found(w) /\ w \in Globals
  BY <1>4, <1>10, SentFound, TimeoutFound DEF Found
<1> HIDE DEF w
<1>7. Found(r3)
  BY <1>6 DEF Found, Ready, Globals
<1>8. t.NetDevExists
  BY <1>4 DEF Found, Ready
<1>9. NetStartAgain(s) = IF ~t.NetRestartWrap THEN r1 ELSE r3
  BY <1>8, Zenon DEF NetStartAgain, r1, r3, w, u, t, count, n, h
<1> QED BY <1>5, <1>7, <1>9

LEMMA UDPFound ==
  ASSUME NEW s \in Globals, Found(s)
  PROVE  Found(NetSendUDPPacket(s, "tftp"))
BY UDPFacts, SentFound

LEMMA TftpStartFound ==
  ASSUME NEW s \in Globals, Ready(s)
  PROVE  Found(TftpStart(s))
<1> DEFINE h == NetSetTimeout(s, "tftp")
           c == [h EXCEPT !.packetHandler = "tftp"]
           t == [h EXCEPT !.packetHandler = "tftp", !.TimeoutCount = 0,
                          !.NetServerEther = FALSE, !.air = {m \in @ : m.a # "tftp"}]
<1>1. Found(h) /\ h \in Globals
  BY TimeoutFound DEF Handlers
<1> HIDE DEF h
<1>2. Sent(c, t)
  BY <1>1, TftpResetFacts
<1>3. Found(c)
  BY <1>1 DEF Found, Ready, Globals
<1> HIDE DEF c, t
<1>4. Found(NetSendUDPPacket(t, "tftp"))
  BY <1>2, <1>3, SentFound, UDPFound
<1> QED BY <1>4 DEF TftpStart, t, h

LEMMA RequestFound ==
  ASSUME NEW s \in Globals, NEW p \in Leasing, Ready(s)
  PROVE  Found(Request(s, p))
<1> DEFINE n == s.TimeoutCount + 1
           c == [s EXCEPT !.TimeoutCount = n]
           t == eth_send(c, p)
           h == NetSetTimeout(t, p)
           r == [h EXCEPT !.packetHandler = p]
<1>1. n \in Nat
  BY DEF Globals
<1> HIDE DEF n
<1>2. Ready(c) /\ c \in Globals
  BY <1>1 DEF Ready, Globals
<1> HIDE DEF c
<1>3. Sent(c, t)
  BY <1>2, SendFacts DEF Packets, Leasing
<1> HIDE DEF t
<1>4. Ready(t) /\ t \in Globals
  BY <1>2, <1>3 DEF Sent, Kept, Ready
<1>5. Found(h) /\ h \in Globals
  BY <1>4, TimeoutFound DEF Handlers, Leasing
<1> HIDE DEF h
<1>6. Found(r)
  BY <1>5 DEF Found, Ready, Globals
<1> QED BY <1>6 DEF Request, r, h, t, c, n

LEMMA LeaseFound ==
  ASSUME NEW s \in Globals, NEW p \in Leasing, NEW named \in BOOLEAN, Found(s)
  PROVE  Found(Lease(s, p, named))
<1> DEFINE ec == s.envChanged \/ (p = "bootp" /\ named)
           th == IF p = "bootp" THEN "none" ELSE s.timeHandler
           ta == IF p = "bootp" THEN 0 ELSE s.timeAge
           t == [s EXCEPT !.NetOurIP = "lease", !.envChanged = ec,
                          !.timeHandler = th, !.timeAge = ta]
           r == [t EXCEPT !.NetState = "success"]
<1>1. ec \in BOOLEAN /\ ta \in 0..2 /\ th \in Handlers \cup {"again"} /\ th # "ping"
  BY SmallNumbers DEF Globals, Handlers, Found
<1> HIDE DEF ec, ta, th
<1>2. t \in Globals
  BY <1>1, ZenonT(120) DEF Globals
<1>3. Found(t)
  BY <1>1 DEF Globals, Found, Ready
<1> HIDE DEF t
<1>4. Found(r)
  BY <1>2, <1>3 DEF Globals, Found, Ready
<1>5. Found(TftpStart(t))
  BY <1>2, <1>3, TftpStartFound DEF Found
<1>6. Lease(s, p, named) = IF conf.autoload THEN TftpStart(t) ELSE r
  BY DEF Lease, r, t, ec, th, ta
<1> QED BY <1>4, <1>5, <1>6

LEMMA TftpTimeoutFound ==
  ASSUME NEW s \in Globals, conf.forever, Found(s)
  PROVE  Found(TftpTimeout(s))
<1> DEFINE n == s.TimeoutCount + 1
           t == [s EXCEPT !.TimeoutCount = n]
           h == NetSetTimeout(t, "tftp")
<1>1. n \in Nat
  BY DEF Globals
<1> HIDE DEF n
<1>2. Found(t) /\ t \in Globals
  BY <1>1 DEF Found, Ready, Globals
<1> HIDE DEF t
<1>3. Found(h) /\ h \in Globals
  BY <1>2, TimeoutFound DEF Found, Handlers
<1> HIDE DEF h
<1>4. Found(NetSendUDPPacket(h, "tftp")) /\ Found(NetStartAgain(t))
  BY <1>2, <1>3, UDPFound, StartAgainFound
<1> QED BY <1>4 DEF TftpTimeout, h, t, n

\* The timer of the loop: the one that ends a ping is not set.
LEMMA CheckTimeoutFound ==
  ASSUME NEW s \in Globals, conf.forever, Found(s)
  PROVE  Found(CheckTimeout(s))
<1> DEFINE h == s.timeHandler
           t == NetSetTimeout(s, "none")
           r == [t EXCEPT !.NetState = "restart"]
<1>1. Found(t) /\ t \in Globals
  BY TimeoutFound DEF Handlers, Found
<1> HIDE DEF t
<1>2. Found(r)
  BY <1>1 DEF Found, Ready, Globals
<1>3. h \in {"none", "again", "tftp"} \cup Leasing
  BY DEF Globals, Handlers, Leasing, Found
<1>4. CASE h = "again"
  BY <1>2, <1>4 DEF CheckTimeout, Expired, r, t
<1>5. CASE h = "tftp"
  <2>1. Expired(t, h) = TftpTimeout(t)
    BY <1>5 DEF Expired
  <2> QED BY <1>1, <2>1, TftpTimeoutFound DEF CheckTimeout, t
<1>6. CASE h \in Leasing
  <2>1. Found(RequestTimeout(t, h))
    BY <1>1, <1>6, StartAgainFound, RequestFound DEF RequestTimeout, Found
  <2>2. Expired(t, h) = RequestTimeout(t, h)
    BY <1>6 DEF Expired, Leasing
  <2> QED BY <2>1, <2>2 DEF CheckTimeout, t
<1>7. CASE h = "none"
  BY <1>7 DEF CheckTimeout
<1> QED BY <1>3, <1>4, <1>5, <1>6, <1>7

LEMMA ArpReplyFound ==
  ASSUME NEW s \in Globals, Found(s)
  PROVE  Found(ArpReply(s))
<1>1. CASE s.NetOurIP = "unset" \/ s.arpPacket = "none"
  BY <1>1 DEF ArpReply
<1>2. CASE ~(s.NetOurIP = "unset" \/ s.arpPacket = "none")
  <2> DEFINE a == s.arpPacket
             n == NoArpWait(s)
             ne == n.NetServerEther \/ a = "tftp"
             t == [n EXCEPT !.NetServerEther = ne]
  <2>1. a \in {"tftp", "ping"}
    BY <1>2 DEF Globals
  <2> HIDE DEF a
  <2>2. Found(n) /\ n \in Globals
    BY NoArpWaitFacts, SentFound
  <2> HIDE DEF n
  <2>3. ne \in BOOLEAN
    OBVIOUS
  <2> HIDE DEF ne
  <2>4. Found(t) /\ t \in Globals
    BY <2>2, <2>3 DEF Found, Ready, Globals
  <2> HIDE DEF t
  <2>5. Found(eth_send(t, a))
    BY <2>1, <2>4, SendFacts, SentFound DEF Packets
  <2> QED BY <1>2, <2>5 DEF ArpReply, t, ne, n, a
<1> QED BY <1>1, <1>2

LEMMA RarpReplyFound ==
  ASSUME NEW s \in Globals, Found(s)
  PROVE  Found(RarpReply(s))
<1> DEFINE on == TRUE
           t == [s EXCEPT !.NetOurIP = "lease", !.leaseOpen = on, !.NetServerEther = on]
<1>1. on \in BOOLEAN
  OBVIOUS
<1> HIDE DEF on
<1>2. t \in Globals
  BY <1>1, ZenonT(120) DEF Globals
<1>3. Found(t)
  BY DEF Found, Ready, Globals
<1> HIDE DEF t
<1>4. Found(Lease(t, "rarp", FALSE))
  BY <1>2, <1>3, LeaseFound DEF Leasing
<1>5. RarpReply(s) = IF s.packetHandler = "rarp" THEN Lease(t, "rarp", FALSE) ELSE t
  BY DEF RarpReply, t, on
<1> QED BY <1>3, <1>4, <1>5

LEMMA AnswerFound ==
  ASSUME NEW s \in Globals, conf.forever, Found(s), NEW m,
         NEW bad \in BOOLEAN, NEW named \in BOOLEAN, bad => s.errs < MaxErrs
  PROVE  Found(Answer(s, m, bad, named))
<1>1. Found(ArpReply(s)) /\ Found(RarpReply(s)) /\ Found(Lease(s, "bootp", named))
  BY ArpReplyFound, RarpReplyFound, LeaseFound DEF Leasing
<1>2. Found([s EXCEPT !.NetState = "success"])
  BY DEF Found, Ready, Globals
<1>3. bad => Found(NetStartAgain([s EXCEPT !.errs = @ + 1]))
  BY ErrFacts, SentFound, StartAgainFound
<1>4. PICK x : x = Answer(s, m, bad, named)
  OBVIOUS
<1>5. \/ x = s \/ x = ArpReply(s) \/ x = RarpReply(s) \/ x = [s EXCEPT !.NetState = "success"]
      \/ s.packetHandler = "bootp" /\ x = Lease(s, "bootp", named)
      \/ bad /\ x = NetStartAgain([s EXCEPT !.errs = @ + 1])
  BY <1>4, AnswerCases
<1>6. Found(x)
  BY <1>1, <1>2, <1>3, <1>5
<1> QED BY <1>4, <1>6

LEMMA ArpTimeoutFound ==
  ASSUME NEW s \in Globals, conf.forever, Found(s)
  PROVE  Found(ArpTimeoutCheck(s))
<1> DEFINE n == s.NetArpWaitTry + 1
           t == [s EXCEPT !.NetArpWaitTry = n]
           u == [t EXCEPT !.NetArpWaitTry = 0]
           v == [t EXCEPT !.arpAge = 0]
<1>1. CASE s.arpPacket = "none" \/ s.arpAge < 1
  BY <1>1 DEF ArpTimeoutCheck
<1>2. CASE ~(s.arpPacket = "none" \/ s.arpAge < 1) /\ n >= ARP_TIMEOUT_COUNT
  <2>1. Sent(s, u)
    BY SmallNumbers DEF Sent, Kept, Globals
  <2>2. t.NetArpWaitTry = n
    BY DEF Globals
  <2>3. ArpTimeoutCheck(s) = NetStartAgain(u)
    BY <1>2, <2>2 DEF ArpTimeoutCheck
  <2> HIDE DEF u
  <2> QED BY <2>1, <2>3, SentFound, StartAgainFound
<1>3. CASE ~(s.arpPacket = "none" \/ s.arpAge < 1) /\ ~(n >= ARP_TIMEOUT_COUNT)
  <2>1. n \in 0..(ARP_TIMEOUT_COUNT - 1)
    BY <1>3, NetLoopAssumption DEF Globals
  <2>2. t.NetArpWaitTry = n
    BY DEF Globals
  <2>3. ArpTimeoutCheck(s) = eth_send(v, "arp")
    BY <1>3, <2>2 DEF ArpTimeoutCheck
  <2> HIDE DEF n
  <2>4. Sent(s, v)
    BY <2>1, SmallNumbers DEF Sent, Kept, Globals
  <2> HIDE DEF v
  <2> QED BY <2>3, <2>4, SendFacts, SentFound DEF Packets
<1> QED BY <1>1, <1>2, <1>3
----------------------------------------------------------------------------
(* Positions on the circle of the devices, counted from first_failed. *)

LEMMA RemFacts ==
  ASSUME NEW x \in Nat
  PROVE  /\ x < N => x % N = x
         /\ x >= N /\ x < 2 * N => x % N = x - N
         /\ x >= 2 * N /\ x < 3 * N => x % N = x - (2 * N)
BY NetLoopAssumption

LEMMA CircleSum ==
  ASSUME NEW f \in Devices, NEW m \in Devices, NEW j \in 0..N
  PROVE  /\ (((f + m) % N) + j) % N = (f + (m + j)) % N
         /\ (f + (m + j)) % N = f => m + j = 0 \/ m + j >= N
         /\ m + j = N => (f + (m + j)) % N = f
<1>1. f \in Nat /\ m \in Nat /\ j \in Nat /\ f < N /\ m < N /\ j <= N /\ N \in Nat
  BY DeviceFacts
<1>2. CASE f + m < N
  <2>1. (f + m) % N = f + m
    BY <1>1, <1>2, RemFacts
  <2>2. \/ f + (m + j) < N /\ (f + (m + j)) % N = f + (m + j)
        \/ f + (m + j) >= N /\ (f + (m + j)) % N = (f + (m + j)) - N
    BY <1>1, <1>2, RemFacts
  <2> QED BY <1>1, <2>1, <2>2
<1>3. CASE f + m >= N
  <2>1. (f + m) % N = (f + m) - N
    BY <1>1, <1>3, RemFacts
  <2>2. \/ f + (m + j) < 2 * N /\ (f + (m + j)) % N = (f + (m + j)) - N
        \/ f + (m + j) >= 2 * N /\ (f + (m + j)) % N = (f + (m + j)) - (2 * N)
    BY <1>1, <1>3, RemFacts
  <2>3. \/ ((f + m) - N) + j < N /\ (((f + m) - N) + j) % N = ((f + m) - N) + j
        \/ ((f + m) - N) + j >= N /\ (((f + m) - N) + j) % N = (((f + m) - N) + j) - N
    BY <1>1, <1>3, RemFacts
  <2> QED BY <1>1, <2>1, <2>2, <2>3
<1> QED BY <1>1, <1>2, <1>3

\* Every device has a position.
LEMMA CircleAll ==
  ASSUME NEW f \in Devices, NEW d \in Devices
  PROVE  \E i \in Devices : d = (f + i) % N
<1>1. f \in Nat /\ d \in Nat /\ f < N /\ d < N /\ N \in Nat
  BY DeviceFacts
<1>2. CASE f <= d
  <2>1. (d - f) \in Devices /\ (f + (d - f)) % N = d
    BY <1>1, <1>2, RemFacts DEF Devices
  <2> QED BY <2>1
<1>3. CASE d < f
  <2>1. ((d - f) + N) \in Devices
    BY <1>1, <1>3 DEF Devices
  <2>2. f + ((d - f) + N) = d + N /\ (d + N) % N = d
    BY <1>1, RemFacts
  <2> QED BY <2>1, <2>2
<1> QED BY <1>1, <1>2, <1>3

\* eth_init with ethrotate passes only devices whose init fails.
LEMMA InitPasses ==
  ASSUME NEW d \in Devices, conf.rotate
  PROVE  \A i \in Devices : i < eth_init(d) => conf.kind[(d + i) % N] = "noinit"
<1>1. CASE eth_init_ok(d)
  <2> DEFINE K == InitDistances(d)
  <2>1. K \in SUBSET Nat /\ K # {}
    BY <1>1, NetLoopAssumption DEF InitDistances, eth_init_ok
  <2>2. \A i \in Devices : i \notin K => conf.kind[(d + i) % N] = "noinit"
    BY DEF InitDistances, Devices
  <2>3. eth_init(d) = CHOOSE k \in K : \A j \in K : k <= j
    BY <1>1 DEF eth_init
  <2> HIDE DEF K
  <2>4. \E k \in K : \A j \in K : k <= j
    BY <2>1, LeastElement
  <2>5. eth_init(d) \in K /\ \A j \in K : eth_init(d) <= j
    BY <2>3, <2>4
  <2>6. \A i \in Devices : i < eth_init(d) => i \notin K
    <3>1. \A i \in Devices : i \in Nat
      BY DeviceFacts
    <3>2. eth_init(d) \in Nat
      BY <2>1, <2>5
    <3>3. \A i \in Nat : i < eth_init(d) => ~(eth_init(d) <= i)
      BY <3>2
    <3> QED BY <2>5, <3>1, <3>3
  <2> QED BY <2>2, <2>6
<1>2. CASE ~eth_init_ok(d)
  BY <1>2 DEF eth_init_ok, InitDistances, Devices
<1> QED BY <1>1, <1>2

LEMMA AdvanceFields ==
  ASSUME NEW s \in Globals, NEW k \in Nat, NEW ff \in Devices \cup {NoDev}
  PROVE  LET t == Advance(s, k, ff) IN
         /\ t.eth_current = (s.eth_current + k) % N /\ t.first_failed = ff
         /\ t.NetRestartWrap <=> (s.NetRestartWrap \/ \E j \in 1..k : (s.eth_current + j) % N = ff)
         /\ t.arpPacket = s.arpPacket /\ t.air = s.air /\ t.late = s.late
<1> DEFINE dev == (s.eth_current + k) % N
           ec == s.envChanged \/ (k > 0 /\ N > 1)
           rw == s.NetRestartWrap \/ \E j \in 1..k : (s.eth_current + j) % N = ff
           t == [s EXCEPT !.eth_current = dev, !.ethact = dev, !.first_failed = ff,
                          !.envChanged = ec, !.NetRestartWrap = rw]
<1>1. Advance(s, k, ff) = t
  BY DEF Advance
<1> HIDE DEF dev, ec, rw
<1>2. /\ t.eth_current = dev /\ t.first_failed = ff /\ t.NetRestartWrap = rw
      /\ t.arpPacket = s.arpPacket /\ t.air = s.air /\ t.late = s.late
  BY DEF Globals
<1> QED BY <1>1, <1>2 DEF dev, rw

\* From a device without address the search moves on: it passes only devices
\* that cannot be used, and comes back to first_failed when it has passed all.
LEMMA RoundStep ==
  ASSUME NEW s \in Globals, conf.rotate, Round(s), conf.kind[s.eth_current] = "nomac",
         s.NetRestarted <=> s.first_failed # NoDev
  PROVE  LET t == NextDevice(s) IN
         /\ t.first_failed # NoDev
         /\ t.NetRestartWrap => NoneUsable
         /\ ~t.NetRestartWrap => Round(t)
<1> DEFINE cur == s.eth_current
           next == next_dev(cur)
           e == eth_init(next)
           k == 1 + e
           ff == IF s.NetRestarted THEN s.first_failed ELSE cur
<1>0. cur \in Devices /\ cur \in Nat /\ ff \in Devices /\ ff # NoDev
  BY DeviceFacts DEF Globals
<1>1. e \in Nat /\ k \in Nat /\ next \in Devices /\ next = (cur + 1) % N
  BY <1>0, eth_initType, DeviceFacts DEF next_dev
<1>2. PICK m \in Devices : /\ cur = (ff + m) % N
                           /\ \A j \in Devices : j < m => Unusable((ff + j) % N)
  <2>1. CASE s.NetRestarted
    BY <2>1 DEF Round
  <2>2. CASE ~s.NetRestarted
    <3>1. cur = (ff + 0) % N /\ \A j \in Devices : ~(j < 0)
      BY <1>0, <2>2, RemFacts, DeviceFacts
    <3> QED BY <3>1, DeviceFacts
  <2> QED BY <2>1, <2>2
<1>3. \A i \in Devices : i < e => conf.kind[(next + i) % N] = "noinit"
  BY <1>1, InitPasses
<1>4. NextDevice(s) = Advance(s, k, ff)
  BY DEF NextDevice
<1> HIDE DEF ff, e, next
<1>5. \A i \in Devices : i < m + k => Unusable((ff + i) % N)
  <2> SUFFICES ASSUME NEW i \in Devices, i < m + k
               PROVE  Unusable((ff + i) % N)
    OBVIOUS
  <2>0. i \in Nat /\ m \in Nat /\ i < N /\ m < N /\ N \in Nat
    BY DeviceFacts
  <2>1. CASE i < m
    BY <1>2, <2>1
  <2>2. CASE i = m
    BY <1>2, <2>2 DEF Unusable
  <2>3. CASE i > m
    <3>1. (i - m) \in 0..N /\ m + (i - m) = i
      BY <2>0, <2>3
    <3>2. (cur + (i - m)) % N = (ff + i) % N
      BY <1>0, <1>2, <3>1, CircleSum
    <3>3. 1 \in Devices /\ ((i - m) - 1) \in 0..N /\ ((i - m) - 1) \in Devices
      BY <2>0, <2>3 DEF Devices
    <3>4. (((cur + 1) % N) + ((i - m) - 1)) % N = (cur + (1 + ((i - m) - 1))) % N
      BY <1>0, <3>3, CircleSum
    <3>5. 1 + ((i - m) - 1) = i - m /\ (i - m) - 1 < e
      BY <1>1, <2>0, <2>3
    <3>6. conf.kind[(next + ((i - m) - 1)) % N] = "noinit"
      BY <1>3, <3>3, <3>5
    <3> QED BY <1>1, <3>2, <3>4, <3>5, <3>6 DEF Unusable
  <2> QED BY <2>0, <2>1, <2>2, <2>3
<1> HIDE DEF k
<1>6. PICK t : t = Advance(s, k, ff)
  OBVIOUS
<1>7. /\ t.eth_current = (cur + k) % N /\ t.first_failed = ff
      /\ t.NetRestartWrap <=> \E j \in 1..k : (cur + j) % N = ff
  <2>1. ~s.NetRestartWrap
    BY DEF Round
  <2> QED BY <1>0, <1>1, <1>6, <2>1, AdvanceFields
<1>8. ASSUME t.NetRestartWrap PROVE NoneUsable
  <2>1. PICK j \in 1..k : (cur + j) % N = ff
    BY <1>7, <1>8
  <2>2. m + k >= N
    <3>1. CASE j > N
      <4>1. m \in Nat /\ N \in Nat /\ k \in Nat /\ j \in Nat /\ j <= k
        BY <1>1, DeviceFacts
      <4> QED BY <3>1, <4>1
    <3>2. CASE j <= N
      <4>1. j \in 0..N /\ m \in Nat /\ j \in Nat /\ j >= 1 /\ j <= k
        BY <1>1, <3>2, DeviceFacts
      <4>2. (ff + (m + j)) % N = ff
        BY <1>0, <1>2, <2>1, <4>1, CircleSum
      <4>3. m + j >= N
        BY <1>0, <4>1, <4>2, CircleSum
      <4> QED BY <1>1, <4>1, <4>3, DeviceFacts
    <3> QED BY <1>1, <3>1, <3>2, DeviceFacts
  <2>3. \A i \in Devices : i < m + k
    BY <1>1, <2>2, DeviceFacts
  <2>4. \A i \in Devices : Unusable((ff + i) % N)
    BY <1>5, <2>3
  <2> QED BY <1>0, <2>4, CircleAll DEF NoneUsable
<1>9. ASSUME ~t.NetRestartWrap PROVE Round(t)
  <2>1. m + k < N
    <3> SUFFICES ASSUME m + k >= N PROVE FALSE
      BY <1>1, DeviceFacts
    <3>1. (N - m) \in 1..k /\ (N - m) \in 0..N /\ m + (N - m) = N
      BY <1>1, DeviceFacts
    <3>2. (cur + (N - m)) % N = ff
      BY <1>0, <1>2, <3>1, CircleSum
    <3> QED BY <1>7, <1>9, <3>1, <3>2
  <2>2. (m + k) \in Devices /\ k \in 0..N
    BY <1>1, <2>1, DeviceFacts DEF Devices
  <2>3. t.eth_current = (ff + (m + k)) % N
    BY <1>0, <1>2, <1>7, <2>2, CircleSum
  <2> QED BY <1>5, <1>7, <1>9, <2>2, <2>3 DEF Round
<1> QED BY <1>0, <1>4, <1>6, <1>7, <1>8, <1>9

\* NetStartAgain on a device without address, nothing having been found so far.
LEMMA SearchStep ==
  ASSUME NEW s \in Globals, conf.forever, Searching(s), conf.kind[s.eth_current] = "nomac",
         conf.rotate => (s.NetRestarted <=> s.first_failed # NoDev)
  PROVE  LET r == NetStartAgain(s) IN
         \/ Searching(r) /\ r.NetState = "restart" /\ (conf.rotate => r.first_failed # NoDev)
         \/ Quiet(r) /\ r.NetState = "fail" /\ NoneUsable
<1> DEFINE h == eth_halt(s)
           n == NextDevice(h)
           count == IF conf.forever THEN n.NetTryCount ELSE n.NetTryCount + 1
           t == [n EXCEPT !.NetTryCount = count]
           u == [t EXCEPT !.NetRestartWrap = FALSE]
           w == NetSetTimeout(u, "again")
           r1 == [t EXCEPT !.NetState = "restart"]
           r2 == [u EXCEPT !.NetState = "fail"]
           r3 == [w EXCEPT !.packetHandler = "ignore"]
<1>0. /\ h \in Globals /\ Searching(h) /\ h.eth_current = s.eth_current
      /\ h.NetRestarted = s.NetRestarted /\ h.first_failed = s.first_failed
  <2>1. /\ Sent(s, h) /\ h.air = {} /\ h.late = s.late
        /\ h.arpPacket = s.arpPacket /\ h.NetRestarted = s.NetRestarted
        /\ h.NetRestartWrap = s.NetRestartWrap
        /\ h.first_failed = s.first_failed /\ h.eth_current = s.eth_current
    BY HaltFacts DEF Searching, Quiet
  <2> HIDE DEF h
  <2>2. Round(h)
    BY <2>1 DEF Searching, Round
  <2> QED BY <2>1, <2>2 DEF Searching, Quiet, Sent, Kept
<1> HIDE DEF h
<1>1. /\ n \in Globals /\ n.NetDevExists = h.NetDevExists
      /\ n.timeHandler = h.timeHandler /\ n.arpPacket = h.arpPacket
      /\ n.air = h.air /\ n.late = h.late
  <2> DEFINE k == 1 + eth_init(next_dev(h.eth_current))
             ff == IF h.NetRestarted THEN h.first_failed ELSE h.eth_current
  <2>1. k \in Nat /\ ff \in Devices \cup {NoDev}
    BY <1>0, eth_initType DEF Globals
  <2>2. n = IF ~conf.rotate THEN h ELSE Advance(h, k, ff)
    BY DEF NextDevice
  <2> HIDE DEF k, ff
  <2>3. PICK x : x = Advance(h, k, ff)
    OBVIOUS
  <2>4. x.arpPacket = h.arpPacket /\ x.air = h.air /\ x.late = h.late
    BY <1>0, <2>1, <2>3, AdvanceFields
  <2>5. n.arpPacket = h.arpPacket /\ n.air = h.air /\ n.late = h.late
    BY <2>2, <2>3, <2>4
  <2> QED BY <1>0, <2>5, NextDeviceFacts DEF Sent, Kept
<1>2. /\ conf.rotate => n.first_failed # NoDev
      /\ n.NetRestartWrap => NoneUsable
      /\ ~n.NetRestartWrap => Round(n)
  <2>1. CASE conf.rotate
    BY <1>0, <2>1, RoundStep DEF Searching
  <2>2. CASE ~conf.rotate
    BY <1>0, <2>2 DEF NextDevice, Searching, Round
  <2> QED BY <2>1, <2>2
<1> HIDE DEF n
<1>3. count \in Nat
  BY <1>1 DEF Globals
<1> HIDE DEF count
<1>4. t \in Globals
  BY <1>1, <1>3, ZenonT(120) DEF Globals
<1>5. /\ t.NetDevExists = n.NetDevExists /\ t.timeHandler = n.timeHandler
      /\ t.arpPacket = n.arpPacket /\ t.air = n.air /\ t.late = n.late
      /\ t.NetRestartWrap = n.NetRestartWrap
      /\ t.first_failed = n.first_failed /\ t.eth_current = n.eth_current
  BY <1>1 DEF Globals
<1> HIDE DEF t
<1>6. /\ r1.NetDevExists = t.NetDevExists /\ r1.timeHandler = t.timeHandler
      /\ r1.arpPacket = t.arpPacket /\ r1.air = t.air /\ r1.late = t.late
      /\ r1.NetRestartWrap = t.NetRestartWrap
      /\ r1.first_failed = t.first_failed /\ r1.eth_current = t.eth_current
      /\ r1.NetState = "restart"
  BY <1>4 DEF Globals
<1>7. /\ r2.timeHandler = t.timeHandler /\ r2.arpPacket = t.arpPacket
      /\ r2.air = t.air /\ r2.late = t.late /\ r2.NetState = "fail"
  BY <1>4 DEF Globals
<1>8. ~t.NetDevExists
  BY <1>0, <1>1, <1>5 DEF Searching
<1>9. NetStartAgain(s) = IF ~t.NetRestartWrap THEN r1 ELSE r2
  BY <1>8, Zenon DEF NetStartAgain, r1, r2, r3, w, u, t, count, n, h
<1> HIDE DEF r1, r2
<1>10. Quiet(r1) /\ Quiet(r2)
  BY <1>0, <1>1, <1>5, <1>6, <1>7 DEF Searching, Quiet
<1>11. ~t.NetRestartWrap => Round(r1)
  BY <1>2, <1>5, <1>6 DEF Round
<1>12. CASE ~t.NetRestartWrap
  BY <1>2, <1>5, <1>6, <1>8, <1>9, <1>10, <1>11, <1>12 DEF Searching
<1>13. CASE t.NetRestartWrap
  BY <1>2, <1>5, <1>7, <1>9, <1>10, <1>13
<1> QED BY <1>12, <1>13

\* A pass of the loop with nothing on its way, waiting or timed does nothing.
LEMMA QuietPass ==
  ASSUME NEW s, Quiet(s), NEW r \in eth_rx(s)
  PROVE  r = s /\ CheckTimeout(ArpTimeoutCheck(r)) = s
<1>1. r = s
  BY DEF Quiet, eth_rx
<1>2. ArpTimeoutCheck(s) = s /\ CheckTimeout(s) = s
  BY DEF Quiet, ArpTimeoutCheck, CheckTimeout
<1> QED BY <1>1, <1>2

LEMMA eth_rxFound ==
  ASSUME conf.forever, NEW s \in Globals, Found(s), NEW r \in eth_rx(s)
  PROVE  Found(r)
<1>1. CASE r = s
  BY <1>1
<1>2. CASE r # s
  <2>1. PICK t \in Globals, m \in Packet, bad \in BOOLEAN, named \in BOOLEAN :
          Sent(s, t) /\ (bad => t.errs < MaxErrs) /\ r = Answer(t, m, bad, named)
    BY <1>2, eth_rxCases
  <2>2. Found(t)
    BY <2>1, SentFound
  <2> QED BY <2>1, <2>2, AnswerFound
<1> QED BY <1>1, <1>2
----------------------------------------------------------------------------
(* The actions keep the round. *)

LEMMA SameSearch ==
  ASSUME conf' = conf, call'.proto = call.proto, call'.n = call.n
  PROVE  Searched' = Searched /\ NoneUsable' = NoneUsable /\ NoNomac' = NoNomac
BY DEF Searched, Sound, NoneUsable, Unusable, NoNomac

LEMMA RoundRxStep ==
  ASSUME NEW t, RoundRx(t), g' = t, UNCHANGED <<conf, call>>, pc' = "rx"
  PROVE  RoundInv'
<1>1. Searched' = Searched /\ NoneUsable' = NoneUsable
  BY SameSearch
<1> QED BY <1>1 DEF RoundInv, RoundRx, Found, Ready, Searching, Quiet, Round, Unusable

LEMMA RoundRestartStep ==
  ASSUME NEW t, RoundRestart(t), g' = t, UNCHANGED <<conf, call>>, pc' = "restart"
  PROVE  RoundInv'
<1>1. Searched' = Searched /\ NoNomac' = NoNomac
  BY SameSearch
<1> QED BY <1>1 DEF RoundInv, RoundRestart, Searching, Quiet, Round, Unusable

LEMMA RoundLeaveStep ==
  ASSUME StaticInv, pc # "idle", NEW r, Return(r), conf' = conf,
         r = "fail" /\ Searched => NoneUsable
  PROVE  RoundInv'
<1>1. /\ call'.proto = call.proto /\ call'.n = call.n /\ call'.ret = r
      /\ pc' = "idle" /\ call.n # 0
  BY DEF Return, StaticInv
<1>2. Searched' = Searched /\ NoneUsable' = NoneUsable
  BY <1>1, SameSearch
<1>3. FailMeansNone'
  BY <1>1, <1>2 DEF FailMeansNone, Searched, NoneUsable, Unusable
<1> QED BY <1>1, <1>3 DEF RoundInv, RoundIdle

LEMMA TurnRound ==
  ASSUME Inv, RoundInv, Turn
  PROVE  RoundInv'
<1>0. /\ StaticInv /\ conf \in Confs /\ pc = "rx" /\ RxInv(g) /\ RoundRx(g) /\ g \in Globals
      /\ conf' = conf
  BY DEF Inv, RoundInv, Turn, StaticInv, RxInv, TimedInv, LoopInv
<1> DEFINE Switch(s) ==
         \/ s.NetState = "continue" /\ g' = s /\ UNCHANGED <<pc, call>>
         \/ /\ s.NetState = "restart" /\ g' = [s EXCEPT !.NetRestarted = TRUE]
            /\ pc' = "restart" /\ UNCHANGED call
         \/ s.NetState = "success" /\ Return("ok")
         \/ s.NetState = "fail" /\ Return("fail")
<1>1. PICK r \in eth_rx(g) : Switch(CheckTimeout(ArpTimeoutCheck(r)))
  BY Zenon DEF Turn
<1> HIDE DEF Switch
<1>2. PICK a, s : a = ArpTimeoutCheck(r) /\ s = CheckTimeout(a) /\ Switch(s)
  BY <1>1
<1>3. s \in Globals /\ r \in Globals /\ a \in Globals
  <2>1. RxInv(r) /\ RxInv(a) /\ RxInv(s)
    BY <1>0, <1>2, eth_rxRx, ArpTimeoutRx, CheckTimeoutRx
  <2> QED BY <2>1 DEF RxInv, TimedInv, LoopInv
<1>4. RoundRx(s)
  <2>1. CASE Searched /\ Found(g)
    <3>1. conf.forever
      BY <2>1 DEF Searched
    <3>2. Found(r)
      BY <1>0, <2>1, <3>1, eth_rxFound
    <3>3. Found(a)
      BY <1>2, <1>3, <3>1, <3>2, ArpTimeoutFound
    <3>4. Found(s)
      BY <1>2, <1>3, <3>1, <3>3, CheckTimeoutFound
    <3> QED BY <1>0, <3>4 DEF RoundRx
  <2>2. CASE Quiet(g)
    <3>1. s = g
      BY <1>2, <2>2, QuietPass
    <3> QED BY <1>0, <3>1
  <2>3. CASE ~Searched
    BY <1>0, <2>3 DEF RoundRx
  <2> QED BY <1>0, <2>1, <2>2, <2>3 DEF RoundRx, Searching
<1>5. CASE g' = s /\ UNCHANGED <<pc, call>>
  BY <1>0, <1>4, <1>5, RoundRxStep
<1>6. CASE /\ s.NetState = "restart" /\ g' = [s EXCEPT !.NetRestarted = TRUE]
           /\ pc' = "restart" /\ UNCHANGED call
  <2> DEFINE t == [s EXCEPT !.NetRestarted = TRUE]
  <2>1. /\ t.NetDevExists = s.NetDevExists /\ t.timeHandler = s.timeHandler
        /\ t.arpPacket = s.arpPacket /\ t.air = s.air /\ t.late = s.late /\ t.NetRestartWrap = s.NetRestartWrap
        /\ t.first_failed = s.first_failed /\ t.eth_current = s.eth_current
        /\ t.NetRestarted = TRUE
    BY <1>3 DEF Globals
  <2> HIDE DEF t
  <2>2. RoundRestart(t)
    <3>1. Round(s) => Round(t)
      BY <2>1 DEF Round
    <3> QED BY <1>4, <1>6, <2>1, <3>1 DEF RoundRx, RoundRestart, Found, Ready, Searching, Quiet
  <2> QED BY <1>0, <1>6, <2>2, RoundRestartStep DEF t
<1>7. CASE Return("ok")
  BY <1>0, <1>7, RoundLeaveStep
<1>8. CASE s.NetState = "fail" /\ Return("fail")
  <2>1. Searched => NoneUsable
    BY <1>4, <1>8 DEF RoundRx, Found, Ready
  <2> QED BY <1>0, <1>8, <2>1, RoundLeaveStep
<1> QED BY <1>2, <1>5, <1>6, <1>7, <1>8 DEF Switch

LEMMA AbortRound ==
  ASSUME Inv, Abort
  PROVE  RoundInv'
<1>1. StaticInv /\ pc # "idle" /\ Return("abort") /\ conf' = conf
  BY DEF Inv, Abort
<1> QED BY <1>1, RoundLeaveStep

\* NetInitLoop changes nothing the search looks at.
LEMMA InitLoopSearch ==
  ASSUME NEW s \in Globals
  PROVE  LET t == NetInitLoop([s EXCEPT !.NetState = "continue"]) IN
         /\ t.NetState = "continue"
         /\ t.NetDevExists = s.NetDevExists /\ t.timeHandler = s.timeHandler
         /\ t.arpPacket = s.arpPacket /\ t.air = s.air /\ t.late = s.late
         /\ t.NetRestartWrap = s.NetRestartWrap /\ t.NetRestarted = s.NetRestarted
         /\ t.first_failed = s.first_failed /\ t.eth_current = s.eth_current
<1> DEFINE c == [s EXCEPT !.NetState = "continue"]
           t == [c EXCEPT !.NetOurIP = c.ipaddr, !.envChanged = FALSE, !.leaseOpen = FALSE]
<1>1. /\ c \in Globals /\ c.NetState = "continue"
      /\ c.NetDevExists = s.NetDevExists /\ c.timeHandler = s.timeHandler
      /\ c.arpPacket = s.arpPacket /\ c.air = s.air /\ c.late = s.late
      /\ c.NetRestartWrap = s.NetRestartWrap /\ c.NetRestarted = s.NetRestarted
      /\ c.first_failed = s.first_failed /\ c.eth_current = s.eth_current
  BY DEF Globals
<1> HIDE DEF c
<1>2. /\ t.NetState = c.NetState
      /\ t.NetDevExists = c.NetDevExists /\ t.timeHandler = c.timeHandler
      /\ t.arpPacket = c.arpPacket /\ t.air = c.air /\ t.late = c.late
      /\ t.NetRestartWrap = c.NetRestartWrap /\ t.NetRestarted = c.NetRestarted
      /\ t.first_failed = c.first_failed /\ t.eth_current = c.eth_current
  BY <1>1 DEF Globals
<1>3. NetInitLoop(c) = IF c.envChanged THEN t ELSE c
  BY DEF NetInitLoop
<1> HIDE DEF t
<1>4. CASE c.envChanged
  BY <1>1, <1>2, <1>3, <1>4 DEF c
<1>5. CASE ~c.envChanged
  BY <1>1, <1>3, <1>5 DEF c
<1> QED BY <1>4, <1>5

\* A device with an address starts the transfer; one without is passed.
LEMMA RestartRound ==
  ASSUME Inv, RoundInv, Restart
  PROVE  RoundInv'
<1>0. /\ StaticInv /\ conf \in Confs /\ pc = "restart" /\ g \in Globals /\ RoundRestart(g)
      /\ conf' = conf
  BY DEF Inv, RoundInv, Restart, StaticInv, RestartInv
<1>1. PICK s : s = NetInitLoop([g EXCEPT !.NetState = "continue"])
  OBVIOUS
<1> DEFINE n == IF conf.forever THEN s.starts ELSE s.starts + 1
           o == [s EXCEPT !.NetDevExists = TRUE, !.starts = n]
<1>2. PICK ok : ok = o
  OBVIOUS
<1>3. PICK p : p = call.proto
  OBVIOUS
<1>4. \/ Return("noaddr")
      \/ /\ g' = IF conf.kind[s.eth_current] = "nomac" THEN NetStartAgain(s)
                 ELSE IF p = "tftp" THEN TftpStart(ok)
                 ELSE IF p = "ping" THEN PingStart(ok)
                 ELSE RequestStart(ok, p)
         /\ pc' = "rx"
         /\ UNCHANGED call
  BY <1>1, <1>2, <1>3, Zenon DEF Restart
<1>5. /\ s \in Globals /\ s.NetState = "continue"
      /\ s.NetDevExists = g.NetDevExists /\ s.timeHandler = g.timeHandler
      /\ s.arpPacket = g.arpPacket /\ s.air = g.air /\ s.late = g.late
      /\ s.NetRestartWrap = g.NetRestartWrap /\ s.NetRestarted = g.NetRestarted
      /\ s.first_failed = g.first_failed /\ s.eth_current = g.eth_current
  <2>1. RestartInv(g)
    BY <1>0 DEF Inv
  <2> QED BY <1>0, <1>1, <2>1, InitLoopFacts, InitLoopSearch
<1>6. CASE Return("noaddr")
  BY <1>0, <1>6, RoundLeaveStep
<1>7. CASE /\ g' = IF conf.kind[s.eth_current] = "nomac" THEN NetStartAgain(s)
                   ELSE IF p = "tftp" THEN TftpStart(ok)
                   ELSE IF p = "ping" THEN PingStart(ok)
                   ELSE RequestStart(ok, p)
           /\ pc' = "rx"
           /\ UNCHANGED call
  <2>1. PICK t : t = g'
    OBVIOUS
  <2>2. Searched => RoundRx(t)
    <3> HAVE Searched
    <3>0. conf.forever /\ p \in {"tftp", "bootp", "rarp"} /\ call.ret = "none"
      BY <1>0, <1>3 DEF Searched, StaticInv, RoundRestart
    <3>1. CASE conf.kind[s.eth_current] = "nomac" /\ g.NetDevExists /\ g.timeHandler # "ping"
      <4>1. Found(s)
        BY <1>5, <3>1 DEF Found, Ready
      <4>2. Found(NetStartAgain(s))
        BY <1>5, <3>0, <4>1, StartAgainFound
      <4> QED BY <1>7, <2>1, <3>0, <3>1, <4>2 DEF RoundRx
    <3>2. CASE /\ conf.kind[s.eth_current] = "nomac" /\ Searching(g)
               /\ conf.rotate => (g.NetRestarted <=> g.first_failed # NoDev)
      <4>1. Round(s)
        BY <1>5, <3>2 DEF Searching, Round
      <4>2. Searching(s)
        BY <1>5, <3>2, <4>1 DEF Searching, Quiet
      <4>3. t = NetStartAgain(s)
        BY <1>7, <2>1, <3>2
      <4>4. conf.rotate => (s.NetRestarted <=> s.first_failed # NoDev)
        BY <1>5, <3>2
      <4>5. \/ Searching(t) /\ t.NetState = "restart" /\ (conf.rotate => t.first_failed # NoDev)
            \/ Quiet(t) /\ t.NetState = "fail" /\ NoneUsable
        BY <1>5, <3>0, <3>2, <4>2, <4>3, <4>4, SearchStep
      <4> QED BY <3>0, <4>5 DEF RoundRx
    <3>3. CASE conf.kind[s.eth_current] # "nomac"
      <4>1. n \in Nat
        BY <1>5 DEF Globals
      <4> HIDE DEF n
      <4>2. ok \in Globals
        BY <1>2, <1>5, <4>1, ZenonT(120) DEF Globals
      <4>3. Ready(ok)
        BY <1>2, <1>5 DEF Ready, Globals
      <4>4. CASE p = "tftp"
        BY <1>7, <2>1, <3>0, <3>3, <4>2, <4>3, <4>4, TftpStartFound DEF RoundRx
      <4>5. CASE p \in Leasing
        <5> DEFINE q == [ok EXCEPT !.TimeoutCount = 0, !.NetOurIP = "unset", !.leaseOpen = TRUE]
        <5>1. q \in Globals
          BY <4>2, SmallNumbers, ZenonT(120) DEF Globals
        <5>2. Ready(q)
          BY <4>2, <4>3 DEF Ready, Globals
        <5>3. t = Request(q, p)
          BY <1>7, <2>1, <3>3, <4>5 DEF RequestStart, Leasing
        <5> HIDE DEF q
        <5>4. Found(t)
          BY <4>5, <5>1, <5>2, <5>3, RequestFound
        <5> QED BY <3>0, <5>4 DEF RoundRx
      <4> QED BY <3>0, <4>4, <4>5 DEF Leasing
    <3>4. NoNomac => conf.kind[s.eth_current] # "nomac"
      BY <1>5 DEF NoNomac, Globals
    <3> QED BY <1>0, <3>1, <3>2, <3>3, <3>4 DEF RoundRestart
  <2>3. RoundRx(t)
    BY <1>0, <2>2 DEF RoundRx, RoundRestart
  <2> QED BY <1>0, <1>7, <2>1, <2>3, RoundRxStep
<1> QED BY <1>4, <1>6, <1>7

LEMMA TickRound ==
  ASSUME Inv, RoundInv, Tick
  PROVE  RoundInv'
<1>0. pc = "rx" /\ RoundRx(g) /\ g \in Globals /\ UNCHANGED <<conf, pc, call>>
  BY DEF Inv, RoundInv, Tick, RxInv, TimedInv, LoopInv
<1> DEFINE ta == IF g.timeAge < timeDelta(g.timeHandler) THEN g.timeAge + 1 ELSE g.timeAge
           aa == IF g.arpAge < 1 /\ g.arpPacket # "none" THEN g.arpAge + 1 ELSE g.arpAge
<1>1. g' = [g EXCEPT !.timeAge = ta, !.arpAge = aa]
  BY DEF Tick
<1> HIDE DEF ta, aa
<1>2. PICK t : t = g'
  OBVIOUS
<1>3. /\ t.NetDevExists = g.NetDevExists /\ t.timeHandler = g.timeHandler
      /\ t.arpPacket = g.arpPacket /\ t.air = g.air /\ t.late = g.late /\ t.NetRestartWrap = g.NetRestartWrap
      /\ t.first_failed = g.first_failed /\ t.eth_current = g.eth_current
      /\ t.NetState = g.NetState
  BY <1>0, <1>1, <1>2 DEF Globals
<1>4. Round(g) => Round(t)
  BY <1>3 DEF Round
<1>5. RoundRx(t)
  BY <1>0, <1>3, <1>4 DEF RoundRx, Found, Ready, Searching, Quiet
<1> QED BY <1>0, <1>2, <1>5, RoundRxStep

\* The first command begins its search with first_failed not yet set.
LEMMA CallRound ==
  ASSUME Inv, RoundInv, NEW p \in Protocols, Call(p)
  PROVE  RoundInv'
<1>0. /\ StaticInv /\ pc = "idle" /\ IdleInv(g) /\ g \in Globals /\ RoundIdle(g)
      /\ conf' = conf /\ call.n \in Nat
  BY DEF Inv, RoundInv, Call, StaticInv, IdleInv
<1> DEFINE q == NoArpWait(eth_halt(g))
           dev == g.ethact
           s == [q EXCEPT !.NetRestarted = FALSE, !.NetDevExists = FALSE, !.NetTryCount = 1,
                          !.eth_current = dev, !.starts = 0]
           t == Advance(s, eth_init(g.ethact), g.first_failed)
           m == call.n + 1
           c == [proto |-> p, n |-> m, ret |-> "none"]
<1>1. /\ q \in Globals /\ q.air = {} /\ (g.air = {} => q.late = g.late)
      /\ q.timeHandler = g.timeHandler
      /\ q.arpPacket = "none" /\ q.NetRestartWrap = g.NetRestartWrap
  <2>1. PICK h : h = eth_halt(g)
    OBVIOUS
  <2>2. /\ h \in Globals /\ h.air = {} /\ (g.air = {} => h.late = g.late)
        /\ h.timeHandler = g.timeHandler /\ h.NetRestartWrap = g.NetRestartWrap
    BY <1>0, <2>1, HaltFacts DEF Sent, Kept
  <2>3. q \in Globals /\ q.timeHandler = h.timeHandler
    BY <2>1, <2>2, NoArpWaitFacts DEF Sent, Kept
  <2> QED BY <2>1, <2>2, <2>3 DEF NoArpWait, Globals
<1> HIDE DEF q
<1>2. /\ s \in Globals /\ s.air = {} /\ (g.air = {} => s.late = g.late)
      /\ s.timeHandler = g.timeHandler
      /\ s.arpPacket = "none" /\ s.NetRestartWrap = g.NetRestartWrap
      /\ s.NetDevExists = FALSE /\ s.NetRestarted = FALSE
  <2>1. dev \in Devices
    BY <1>0 DEF Globals
  <2> HIDE DEF dev
  <2>2. s \in Globals
    BY <1>1, <2>1, SmallNumbers DEF Globals
  <2> QED BY <1>1, <2>2 DEF Globals
<1>3. eth_init(g.ethact) \in Nat /\ g.first_failed \in Devices \cup {NoDev}
  BY <1>0, eth_initType DEF Globals
<1>4. /\ g' = t
      /\ \/ pc' = "restart" /\ call' = c
         \/ pc' = "idle" /\ call' = [c EXCEPT !.ret = "noeth"]
  BY Zenon DEF Call, t, s, q, dev
<1> HIDE DEF s
<1>5. /\ t.first_failed = g.first_failed /\ t.arpPacket = s.arpPacket /\ t.air = s.air
      /\ t.late = s.late
      /\ t.NetRestartWrap <=> \/ s.NetRestartWrap
                              \/ \E j \in 1..eth_init(g.ethact) :
                                   (s.eth_current + j) % N = g.first_failed
      /\ t.NetDevExists = s.NetDevExists /\ t.timeHandler = s.timeHandler
  BY <1>2, <1>3, AdvanceFacts, AdvanceFields DEF Sent, Kept
<1>6. t.NetRestarted = s.NetRestarted
  BY <1>2 DEF Advance, Globals
<1>7. call.n = 0 => Searching(t) /\ t.first_failed = NoDev
  <2> HAVE call.n = 0
  <2>1. /\ g.first_failed = NoDev /\ ~g.NetRestartWrap /\ g.timeHandler = "none"
        /\ g.air = {} /\ g.late = {}
    BY <1>0 DEF RoundIdle
  <2>2. \A j \in 1..eth_init(g.ethact) : (s.eth_current + j) % N # NoDev
    <3>1. \A x \in Nat : x % N # NoDev
      BY DeviceFacts
    <3>2. s.eth_current \in Nat
      BY <1>2, DeviceFacts DEF Globals
    <3>3. \A j \in 1..eth_init(g.ethact) : s.eth_current + j \in Nat
      BY <1>3, <3>2
    <3> QED BY <3>1, <3>3
  <2>3. ~t.NetRestartWrap
    BY <1>2, <1>5, <2>1, <2>2
  <2> QED BY <1>2, <1>5, <2>1, <2>3 DEF Searching, Quiet, Round
<1> HIDE DEF t
<1>8. PICK u : u = t
  OBVIOUS
<1>9. CASE pc' = "idle" /\ call' = [c EXCEPT !.ret = "noeth"]
  <2>1. call'.ret = "noeth" /\ call'.n # 0
    BY <1>0, <1>9
  <2> QED BY <1>9, <2>1 DEF RoundInv, RoundIdle, FailMeansNone
<1>10. CASE pc' = "restart" /\ call' = c
  <2>1. call'.ret = "none" /\ call'.n = call.n + 1
    BY <1>10
  <2>2. NoNomac' = NoNomac /\ (Searching(u) => Searching(u)')
    BY <1>0 DEF NoNomac, Searching, Quiet, Round, Unusable
  <2>3. Searched' => NoNomac \/ call.n = 0
    BY <1>0, <2>1 DEF Searched, Sound, NoNomac
  <2>4. call.n = 0 => Searching(u)' /\ u.first_failed = NoDev /\ u.NetRestarted = FALSE
    BY <1>2, <1>6, <1>7, <1>8, <2>2
  <2>5. RoundRestart(u)'
    BY <2>1, <2>2, <2>3, <2>4 DEF RoundRestart
  <2> QED BY <1>4, <1>8, <1>10, <2>5 DEF RoundInv
<1> QED BY <1>4, <1>9, <1>10

LEMMA SetEnvRound ==
  ASSUME Inv, RoundInv, SetEnv
  PROVE  RoundInv'
<1>1. pc = "idle" /\ pc' = "idle" /\ UNCHANGED <<conf, call>> /\ call.n # 0 /\ FailMeansNone
  <2>1. pc = "idle" /\ UNCHANGED <<conf, pc, call>> /\ 0 < call.n
    BY Zenon DEF SetEnv
  <2> QED BY <2>1 DEF RoundInv, RoundIdle
<1> QED BY <1>1 DEF RoundInv, RoundIdle, FailMeansNone, Sound

LEMMA StutterRound ==
  ASSUME RoundInv, UNCHANGED vars
  PROVE  RoundInv'
<1>1. UNCHANGED <<conf, g, pc, call>>
  BY DEF vars
<1>2. Searched' = Searched /\ NoneUsable' = NoneUsable /\ NoNomac' = NoNomac
  BY <1>1, SameSearch
<1>3. FailMeansNone' = FailMeansNone
  BY <1>1 DEF FailMeansNone, Sound
<1>4. Round(g)' = Round(g)
  BY <1>1 DEF Round, Unusable
<1> QED BY <1>1, <1>2, <1>3, <1>4 DEF RoundInv, RoundIdle, RoundRestart, RoundRx, Searching,
                                      Found, Ready, Quiet

LEMMA RoundInit == Init => RoundInv
BY DEF Init, RoundInv, RoundIdle, FailMeansNone

LEMMA RoundNext == Inv /\ RoundInv /\ [Next]_vars => RoundInv'
<1> SUFFICES ASSUME Inv, RoundInv, [Next]_vars PROVE RoundInv'
  OBVIOUS
<1>1. CASE \E p \in Protocols : Call(p)
  BY <1>1, CallRound
<1>2. CASE Restart
  BY <1>2, RestartRound
<1>3. CASE Turn
  BY <1>3, TurnRound
<1>4. CASE Abort
  BY <1>4, AbortRound
<1>5. CASE Tick
  BY <1>5, TickRound
<1>6. CASE SetEnv
  BY <1>6, SetEnvRound
<1>7. CASE UNCHANGED vars
  BY <1>7, StutterRound
<1> QED BY <1>1, <1>2, <1>3, <1>4, <1>5, <1>6, <1>7 DEF Next, Pass, Finished

\* With netretry unset NetStartAgain gives a transfer up only when no device can
\* be used, for any number of devices of any kind: eth_try_another sets
\* NetRestartWrap only after a round that left none out, and NetDevExists tells
\* whether one of them could be used.
THEOREM FailureMeansNone == Spec => []FailMeansNone
<1>1. Inv /\ RoundInv => FailMeansNone
  BY DEF RoundInv, RoundIdle, RoundRestart, RoundRx, FailMeansNone, Inv, StaticInv
<1> QED BY <1>1, InvInit, InvNext, RoundInit, RoundNext, PTL DEF Spec
=============================================================================
