------------------------------ MODULE NetLoop ------------------------------
(***************************************************************************)
(* The network loop of net/net.c over the ethernet devices of net/eth.c:   *)
(* address resolution, the one timer every protocol shares, restarting on  *)
(* the next device, and what survives from one network command to the      *)
(* next.  The exchanges of TFTP are in module Tftp, those of NFS in Nfs;   *)
(* here an exchange is a request and its answer.                           *)
(*                                                                         *)
(* Time is counted in ticks of ARP_TIMEOUT.  A device is "noinit" (its     *)
(* init fails), "nomac" (no ethaddr), "slow" (answers late, never or with  *)
(* an error) or "live" (answers before the next tick).  Halting a device   *)
(* does not stop what is on its way: it arrives later or never.  The       *)
(* globals of net.c and eth.c are the fields of g; serverip is set, and    *)
(* the servers of the protocols are one machine.                           *)
(***************************************************************************)
EXTENDS Naturals, FiniteSets

CONSTANTS
    N,                  \* devices, in the order of eth_devices
    Kinds,              \* of devices
    Retries,            \* values of netretry other than "yes"
    ARP_TIMEOUT_COUNT,
    TIMEOUT_COUNT,      \* of BOOTP and RARP
    RRQCountMax,        \* TftpRRQTimeoutCountMax
    Protocols,          \* of the commands given
    Delayed,            \* answers that can arrive after their device was halted
    MaxCalls, MaxSets,  \* bounds on the commands and on setenv by the user
    MaxErrs             \* bound on the error packets of a TFTP server

ASSUME NetLoopAssumption ==
    /\ N \in Nat \ {0}
    /\ Kinds \subseteq {"noinit", "nomac", "slow", "live"}
    /\ Retries \subseteq Nat
    /\ ARP_TIMEOUT_COUNT \in Nat /\ ARP_TIMEOUT_COUNT >= 2
    /\ TIMEOUT_COUNT \in Nat /\ RRQCountMax \in Nat
    /\ Protocols \subseteq {"tftp", "ping", "bootp", "rarp"}
    /\ Delayed \subseteq {"arp", "ping", "rarp"}
    /\ MaxCalls \in Nat /\ MaxSets \in Nat /\ MaxErrs \in Nat

VARIABLES
    conf,   \* the board and its environment: kind, rotate, autoload, forever, retrycnt
    g,      \* the globals
    pc,     \* where NetLoop is; "idle" between commands
    call,   \* the command: protocol, its number and its result
    sets    \* setenv commands given so far

vars == <<conf, g, pc, call, sets>>

Devices == 0..(N - 1)
NoDev == N              \* a null first_failed
next_dev(d) == (d + 1) % N
Answering(d) == conf.kind[d] \in {"slow", "live"}
----------------------------------------------------------------------------
(* net/eth.c *)

\* k calls of eth_try_another in a row, with first_failed = ff.  ethact follows
\* eth_current, and the setenv of each move counts env_id up.
Advance(s, k, ff) ==
    LET dev == (s.eth_current + k) % N
    IN  [s EXCEPT !.eth_current = dev, !.ethact = dev, !.first_failed = ff,
                  !.envChanged = @ \/ (k > 0 /\ N > 1),
                  !.NetRestartWrap = @ \/ \E j \in 1..k : (s.eth_current + j) % N = ff]

\* How far from device d eth_init finds one whose init succeeds; without
\* ethrotate it does not leave d.
InitDistances(d) ==
    {k \in 0..(N - 1) : /\ conf.kind[(d + k) % N] # "noinit"
                        /\ k > 0 => conf.rotate}
eth_init_ok(d) == InitDistances(d) # {}

\* The calls of eth_try_another eth_init makes, once around if all fail.
eth_init(d) ==
    IF eth_init_ok(d)
    THEN CHOOSE k \in InitDistances(d) : \A j \in InitDistances(d) : k <= j
    ELSE IF conf.rotate THEN N ELSE 0

\* The answer to a request of protocol p, and the address it is sent to.
Reply(s, p) == [a |-> p, to |-> IF p \in {"bootp", "rarp"} THEN "any" ELSE s.NetOurIP]

\* eth_halt: what is on its way to the device can still arrive once it has been
\* initialised again.  A TFTP answer is then for a port that is no longer used
\* and a BOOTP answer for another BootpID, so neither is kept.
eth_halt(s) ==
    [s EXCEPT !.air = {},
              !.late = @ \cup {[dev |-> s.eth_current, m |-> m] :
                                 m \in {x \in s.air : x.a \in Delayed}}]

\* A request leaves on the current device; some network answers it.
eth_send(s, p) ==
    IF Answering(s.eth_current) THEN [s EXCEPT !.air = @ \cup {Reply(s, p)}] ELSE s
----------------------------------------------------------------------------
(* net/net.c: timers, address resolution, starting again *)

NetSetTimeout(s, h) == [s EXCEPT !.timeHandler = h, !.timeAge = 0]

\* NetSendUDPPacket and PingSend while the receiver's address is not known.
ArpWait(s, packet) ==
    eth_send([s EXCEPT !.arpPacket = packet, !.NetArpWaitTry = 1, !.arpAge = 0], "arp")

\* Nothing waits: NetArpWaitPacketIP is 0, the count and the age mean nothing.
NoArpWait(s) == [s EXCEPT !.arpPacket = "none", !.NetArpWaitTry = 0, !.arpAge = 0]

NetSendUDPPacket(s, packet) ==
    IF s.NetServerEther THEN eth_send(s, packet) ELSE ArpWait(s, packet)

OutOfTriesLate(s) == s.NetTryCount > conf.retrycnt
OutOfTries(s) == s.NetTryCount >= conf.retrycnt

NextDeviceStays(s) == Advance(s, 0, s.first_failed)
NextDeviceEager(s) ==
    IF ~conf.rotate THEN s
    ELSE Advance(s, 1 + eth_init(next_dev(s.eth_current)),
                 IF s.NetRestarted THEN s.first_failed ELSE next_dev(s.eth_current))

\* eth_try_another and eth_init of NetStartAgain; the first failure of a command
\* is where the round over the devices begins.
NextDevice(s) ==
    IF ~conf.rotate THEN s
    ELSE Advance(s, 1 + eth_init(next_dev(s.eth_current)),
                 IF s.NetRestarted THEN s.first_failed ELSE s.eth_current)

\* NetStartAgain.  NetTryCount is only compared when netretry is limited.
NetStartAgain(s) ==
    IF ~conf.forever /\ OutOfTries(s)
    THEN [eth_halt(s) EXCEPT !.NetState = "fail"]
    ELSE LET t == [NextDevice(eth_halt(s)) EXCEPT
                       !.NetTryCount = IF conf.forever THEN @ ELSE @ + 1]
             u == [t EXCEPT !.NetRestartWrap = FALSE]
         IN  IF ~t.NetRestartWrap THEN [t EXCEPT !.NetState = "restart"]
             ELSE IF ~t.NetDevExists THEN [u EXCEPT !.NetState = "fail"]
             ELSE [NetSetTimeout(u, "again") EXCEPT !.packetHandler = "ignore"]

NetInitLoopOnce(s) ==
    IF s.NetOurIP = "unset" /\ s.envChanged
    THEN [s EXCEPT !.NetOurIP = s.ipaddr, !.envChanged = FALSE, !.leaseOpen = FALSE]
    ELSE s

\* NetInitLoop: addresses are read again when the environment has changed.
NetInitLoop(s) ==
    IF s.envChanged
    THEN [s EXCEPT !.NetOurIP = s.ipaddr, !.envChanged = FALSE, !.leaseOpen = FALSE]
    ELSE s
----------------------------------------------------------------------------
(* The protocols: start, answer and timeout. *)

\* TftpStart up to the read request.
TftpStart(s) ==
    NetSendUDPPacket(
        [NetSetTimeout(s, "tftp") EXCEPT !.packetHandler = "tftp",
                                         !.TimeoutCount = 0,
                                         !.NetServerEther = FALSE,
                                         !.air = {m \in @ : m.a # "tftp"}],
        "tftp")

\* PingStart and PingSend: always a new address resolution.
PingStart(s) ==
    ArpWait([NetSetTimeout(s, "ping") EXCEPT !.packetHandler = "ping"], "ping")

\* BootpRequest and RarpRequest: a broadcast.
Request(s, p) ==
    LET sent == eth_send([s EXCEPT !.TimeoutCount = @ + 1], p)
    IN  [NetSetTimeout(sent, p) EXCEPT !.packetHandler = p]

\* case BOOTP and RARP of NetLoop: BootpTry, NetOurIP and the first request.
RequestStart(s, p) ==
    Request([s EXCEPT !.TimeoutCount = 0, !.NetOurIP = "unset", !.leaseOpen = TRUE], p)

\* BootpHandler and RarpHandler: an address, then the file if autoload says so.
\* A BOOTP answer that names a file changes the environment (bootfile).
Lease(s, p, named) ==
    LET t == [s EXCEPT !.NetOurIP = "lease",
                       !.envChanged = @ \/ (p = "bootp" /\ named),
                       !.timeHandler = IF p = "bootp" THEN "none" ELSE @,
                       !.timeAge = IF p = "bootp" THEN 0 ELSE @]
    IN  IF conf.autoload THEN TftpStart(t) ELSE [t EXCEPT !.NetState = "success"]

\* TftpTimeout.
TftpTimeout(s) ==
    LET t == [s EXCEPT !.TimeoutCount = @ + 1]
    IN  IF t.TimeoutCount > RRQCountMax THEN NetStartAgain(t)
        ELSE NetSendUDPPacket(NetSetTimeout(t, "tftp"), "tftp")

RequestTimeoutNoCheck(s, p) == Request([s EXCEPT !.TimeoutCount = 0], p)

\* BootpTimeout and RarpTimeout.
RequestTimeout(s, p) ==
    IF s.TimeoutCount >= TIMEOUT_COUNT THEN NetStartAgain(s) ELSE Request(s, p)

\* The timeout handlers; the loop has cleared timeHandler.
Expired(s, h) ==
    CASE h = "again" -> [s EXCEPT !.NetState = "restart"]
      [] h = "ping"  -> [eth_halt(s) EXCEPT !.NetState = "fail"]
      [] h = "tftp"  -> TftpTimeout(s)
      [] OTHER       -> RequestTimeout(s, h)
----------------------------------------------------------------------------
(* NetLoop *)

Inside == pc # "idle"
Return(r) == pc' = "idle" /\ call' = [call EXCEPT !.ret = r]

\* NetLoop up to restart:.  The handlers, the timer, NetRestartWrap and
\* first_failed stay as the previous command left them.
Call(p) ==
    /\ pc = "idle"
    /\ call.n < MaxCalls
    /\ LET c == [proto |-> p, n |-> call.n + 1, ret |-> "none"]
           s == [NoArpWait(eth_halt(g)) EXCEPT
                    !.NetRestarted = FALSE, !.NetDevExists = FALSE, !.NetTryCount = 1,
                    !.eth_current = g.ethact, !.starts = 0]
       IN  /\ g' = Advance(s, eth_init(g.ethact), g.first_failed)
           /\ \/ eth_init_ok(g.ethact) /\ pc' = "restart" /\ call' = c
              \/ ~eth_init_ok(g.ethact) /\ pc' = "idle" /\ call' = [c EXCEPT !.ret = "noeth"]
    /\ UNCHANGED <<conf, sets>>

\* From restart: to the packet loop: NetInitLoop, net_check_prereq, the start.
Restart ==
    /\ pc = "restart"
    /\ LET s   == NetInitLoop([g EXCEPT !.NetState = "continue"])
           ok  == [s EXCEPT !.NetDevExists = TRUE, !.starts = IF conf.forever THEN @ ELSE @ + 1]
           p   == call.proto
       IN  \/ /\ p \in {"tftp", "ping"} /\ s.NetOurIP = "unset"
              /\ g' = eth_halt(s)
              /\ Return("noaddr")
           \/ /\ p \in {"tftp", "ping"} => s.NetOurIP # "unset"
              /\ g' = IF conf.kind[s.eth_current] = "nomac" THEN NetStartAgain(s)
                      ELSE IF p = "tftp" THEN TftpStart(ok)
                      ELSE IF p = "ping" THEN PingStart(ok)
                      ELSE RequestStart(ok, p)
              /\ pc' = "rx"
              /\ UNCHANGED call
    /\ UNCHANGED <<conf, sets>>

\* The ARP reply of NetReceive: the waiting packet is sent.
ArpReply(s) ==
    IF s.NetOurIP = "unset" \/ s.arpPacket = "none" THEN s
    ELSE eth_send([NoArpWait(s) EXCEPT !.NetServerEther = @ \/ s.arpPacket = "tftp"],
                  s.arpPacket)

\* NetReceive drops what is addressed to another IP.
ForUs(s, m) == s.NetOurIP = "unset" \/ m.to \in {"any", s.NetOurIP}

\* A RARP reply is taken whatever protocol runs, the handler called after it.
RarpReply(s) ==
    LET t == [s EXCEPT !.NetOurIP = "lease", !.leaseOpen = TRUE, !.NetServerEther = TRUE]
    IN  IF s.packetHandler = "rarp" THEN Lease(t, "rarp", FALSE) ELSE t

\* What NetReceive and packetHandler make of an answer; bad is an error packet
\* of a TFTP server, named a BOOTP answer with a file name.
Answer(s, m, bad, named) ==
    IF ~ForUs(s, m) THEN s
    ELSE IF m.a = "arp" THEN ArpReply(s)
    ELSE IF m.a = "rarp" THEN RarpReply(s)
    ELSE IF m.a # s.packetHandler THEN s
    ELSE CASE m.a = "bootp"         -> Lease(s, "bootp", named)
           [] m.a = "tftp" /\ bad  -> NetStartAgain([s EXCEPT !.errs = @ + 1])
           [] OTHER                 -> [s EXCEPT !.NetState = "success"]

\* What eth_rx may leave: nothing received, or one answer handled, perhaps one
\* asked for before the device was halted.  A live device has the answer to
\* what it has just sent by the time it is polled.
eth_rx(s) ==
    LET live == conf.kind[s.eth_current] = "live"
    IN  (IF live /\ s.air # {} THEN {} ELSE {s})
        \cup {Answer([s EXCEPT !.air = @ \ {m}], m, bad, named) :
                m \in s.air, bad \in {FALSE, ~live /\ s.errs < MaxErrs}, named \in BOOLEAN}
        \cup {Answer([s EXCEPT !.late = @ \ {l}], l.m, FALSE, FALSE) :
                l \in {x \in s.late : x.dev = s.eth_current}}

ArpTimeoutCheckGreater(s) ==
    LET t == [s EXCEPT !.NetArpWaitTry = @ + 1]
    IN  IF s.arpPacket = "none" \/ s.arpAge < 1 THEN s
        ELSE IF t.NetArpWaitTry > ARP_TIMEOUT_COUNT
        THEN NetStartAgain([t EXCEPT !.NetArpWaitTry = 0])
        ELSE eth_send([t EXCEPT !.arpAge = 0], "arp")

\* ArpTimeoutCheck.  Giving up leaves NetArpWaitTimerStart as it is.
ArpTimeoutCheck(s) ==
    LET t == [s EXCEPT !.NetArpWaitTry = @ + 1]
    IN  IF s.arpPacket = "none" \/ s.arpAge < 1 THEN s
        ELSE IF t.NetArpWaitTry >= ARP_TIMEOUT_COUNT
        THEN NetStartAgain([t EXCEPT !.NetArpWaitTry = 0])
        ELSE eth_send([t EXCEPT !.arpAge = 0], "arp")

\* ctrl-c, looked at after eth_rx.
Abort ==
    /\ pc = "rx"
    /\ \E s \in eth_rx(g) : g' = eth_halt(s)
    /\ Return("abort")
    /\ UNCHANGED <<conf, sets>>

\* Ticks a handler waits for.
timeDelta(h) ==
    IF h \in {"ping", "again"} THEN 2 ELSE IF h = "none" THEN 0 ELSE 1

\* The timer of the loop.
CheckTimeout(s) ==
    IF s.timeHandler = "none" \/ s.timeAge < timeDelta(s.timeHandler) THEN s
    ELSE Expired(NetSetTimeout(s, "none"), s.timeHandler)

\* netboot_update_env after a command other than ping: also sets env_id.
netboot_update_env(s) ==
    [s EXCEPT !.ipaddr = IF s.NetOurIP = "unset" THEN @ ELSE s.NetOurIP,
              !.envChanged = TRUE, !.leaseOpen = FALSE]

\* A pass of the loop: eth_rx, ArpTimeoutCheck, the timer, then the switch on
\* NetState.
Turn ==
    /\ pc = "rx"
    /\ \E r \in eth_rx(g) : \E a \in {ArpTimeoutCheck(r)} : \E s \in {CheckTimeout(a)} :
         \/ /\ s.NetState = "continue"
            /\ g' = s
            /\ UNCHANGED <<pc, call>>
         \/ /\ s.NetState = "restart"
            /\ g' = [s EXCEPT !.NetRestarted = TRUE]
            /\ pc' = "restart"
            /\ UNCHANGED call
         \/ /\ s.NetState = "success"
            /\ g' = IF call.proto = "ping" THEN eth_halt(s)
                    ELSE netboot_update_env(eth_halt(s))
            /\ Return("ok")
         \/ /\ s.NetState = "fail"
            /\ g' = s
            /\ Return("fail")
    /\ UNCHANGED <<conf, sets>>

\* A tick passes; a pass of the loop takes far less, so none falls inside one.
\* Ages are counted up to the tick at which they expire.
Tick ==
    /\ pc = "rx"
    /\ conf.kind[g.eth_current] = "live" => g.air = {}
    /\ g' = [g EXCEPT !.timeAge = IF @ < timeDelta(g.timeHandler) THEN @ + 1 ELSE @,
                      !.arpAge = IF @ < 1 /\ g.arpPacket # "none" THEN @ + 1 ELSE @]
    /\ g' # g
    /\ UNCHANGED <<conf, pc, call, sets>>

\* The user between commands: setenv of ipaddr or of ethact.
SetEnv ==
    /\ pc = "idle"
    /\ sets < MaxSets /\ 0 < call.n /\ call.n < MaxCalls
    /\ sets' = sets + 1
    /\ \/ \E ip \in {"unset", "a"} \ {g.ipaddr} :
            g' = [g EXCEPT !.ipaddr = ip, !.envChanged = TRUE]
       \/ \E d \in Devices \ {g.ethact} :
            g' = [g EXCEPT !.ethact = d, !.envChanged = TRUE]
    /\ UNCHANGED <<conf, pc, call>>
----------------------------------------------------------------------------
Init ==
    /\ conf \in [kind : [Devices -> Kinds], rotate : BOOLEAN, autoload : BOOLEAN,
                 forever : BOOLEAN, retrycnt : Retries \cup {0}]
    /\ conf.forever => conf.retrycnt = 0
    /\ pc = "idle"
    /\ call = [proto |-> "tftp", n |-> 0, ret |-> "none"]
    /\ sets = 0
    /\ \E ip \in {"unset", "a"} :
         g = [NetState |-> "continue", NetTryCount |-> 1, NetRestarted |-> FALSE,
              NetDevExists |-> FALSE, NetRestartWrap |-> FALSE,
              eth_current |-> 0, first_failed |-> NoDev, ethact |-> 0,
              packetHandler |-> "none", timeHandler |-> "none", timeAge |-> 0,
              arpPacket |-> "none", NetArpWaitTry |-> 0, arpAge |-> 0,
              NetServerEther |-> FALSE, TimeoutCount |-> 0,
              NetOurIP |-> "unset", ipaddr |-> ip, envChanged |-> TRUE,
              leaseOpen |-> FALSE, starts |-> 0, errs |-> 0, air |-> {},
              late |-> {}]

\* The commands are used up.
Finished == pc = "idle" /\ call.n = MaxCalls /\ UNCHANGED vars

Pass == Restart \/ Turn
Next ==
    \/ \E p \in Protocols : Call(p)
    \/ Pass \/ Abort \/ Tick \/ SetEnv \/ Finished

Spec == Init /\ [][Next]_vars

\* The loop keeps turning and the clock keeps running.
FairSpec == Spec /\ WF_vars(Pass) /\ WF_vars(Tick)
----------------------------------------------------------------------------
Handlers == {"none", "tftp", "ping", "bootp", "rarp"}
Packet == [a : {"arp", "tftp", "ping", "bootp", "rarp"}, to : {"any", "unset", "a", "lease"}]
Late == [dev : Devices, m : Packet]
Globals ==
    [NetState : {"continue", "restart", "success", "fail"}, NetTryCount : Nat,
     NetRestarted : BOOLEAN, NetDevExists : BOOLEAN, NetRestartWrap : BOOLEAN,
     eth_current : Devices, first_failed : Devices \cup {NoDev}, ethact : Devices,
     packetHandler : Handlers \cup {"ignore"}, timeHandler : Handlers \cup {"again"},
     timeAge : 0..2, arpPacket : {"none", "tftp", "ping"},
     NetArpWaitTry : 0..(ARP_TIMEOUT_COUNT - 1), arpAge : 0..1,
     NetServerEther : BOOLEAN, TimeoutCount : Nat,
     NetOurIP : {"unset", "a", "lease"}, ipaddr : {"unset", "a", "lease"},
     envChanged : BOOLEAN, leaseOpen : BOOLEAN, starts : Nat, errs : 0..MaxErrs,
     air : SUBSET Packet, late : SUBSET Late]

(* Types.  In particular NetArpWaitTry stays below ARP_TIMEOUT_COUNT, with *)
(* every packet that sets it back and two timers running beside it.        *)
TypeOK ==
    /\ conf \in [kind : [Devices -> Kinds], rotate : BOOLEAN, autoload : BOOLEAN,
                 forever : BOOLEAN, retrycnt : Nat]
    /\ g \in Globals
    /\ pc \in {"idle", "restart", "rx"}
    /\ call \in [proto : {"tftp", "ping", "bootp", "rarp"}, n : 0..MaxCalls,
                 ret : {"none", "ok", "fail", "abort", "noaddr", "noeth"}]
    /\ sets \in 0..MaxSets

\* Commands for which NetRestartWrap and the stale timer of an earlier command
\* do no harm: the first one, and all of them when every device has an address.
Sound == call.n = 1 \/ \A d \in Devices : conf.kind[d] # "nomac"

(* With netretry unset NetStartAgain gives a transfer up only when no      *)
(* device can be used: the round over the devices (first_failed,           *)
(* NetRestartWrap, NetDevExists) leaves none out.                          *)
FailMeansNone ==
    call.ret = "fail" /\ conf.forever /\ call.proto # "ping" /\ Sound =>
        \A d \in Devices : conf.kind[d] \in {"noinit", "nomac"}

(* netretry limits the attempts of a command: NetTryCount counts every     *)
(* restart, whatever made the loop start again.                            *)
BoundedAttempts ==
    ~conf.forever => g.starts <= (IF conf.retrycnt = 0 THEN 1 ELSE conf.retrycnt)

(* README, netretry: with "once" an operation fails when all interfaces are *)
(* tried once without success; a usable interface is tried by sending.     *)
OnceTriesAll ==
    call.ret = "fail" /\ call.proto # "ping" /\ conf.rotate /\ conf.retrycnt = 1 =>
        g.starts >= Cardinality({d \in Devices : Answering(d)})

(* tftp and ping use the ipaddr of the environment at the time of the      *)
(* command, also when it was changed after the last one, unless a bootp or *)
(* rarp that did not succeed, or a RARP reply that came late, has left its *)
(* own in NetOurIP (leaseOpen).                                            *)
AddressFresh ==
    call.proto \in {"tftp", "ping"} /\ ~g.leaseOpen /\ Sound =>
        /\ pc = "rx" => g.NetOurIP = g.ipaddr
        /\ pc = "idle" /\ call.ret = "noaddr" /\ ~g.envChanged => g.ipaddr = "unset"

(* With a limited netretry every network command returns: although each    *)
(* packet sent restarts the count of ARP requests, some timer gives up.    *)
Returns == Inside /\ ~conf.forever ~> ~Inside

(* With netretry unset and ethrotate on, a transfer gets to the device     *)
(* that works, past devices that are dead, slow or not configured.         *)
Reaches ==
    (/\ Inside /\ conf.forever /\ conf.rotate /\ Sound /\ call.proto # "ping"
     /\ \E d \in Devices : conf.kind[d] = "live")
    ~> ~Inside /\ call.ret \in {"ok", "abort", "noaddr"}
============================================================================
