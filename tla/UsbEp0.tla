------------------------------- MODULE UsbEp0 -------------------------------
(***************************************************************************)
(* Endpoint 0 of the USB device in drivers/usb/slave (usbenum.c, 2440usb.c *)
(* as built with CONFIG_USB_UART): the interrupt handler, the control      *)
(* requests and the descriptor transfers, against a host that asks, stops  *)
(* early, gives up and resets the bus.                                     *)
(*                                                                         *)
(* Byte i of object o is the pair <<o, i>>; the sections of the            *)
(* configuration follow each other in one object.  The controller and the  *)
(* host are external: they are modelled from the register bits that        *)
(* 2440usb.h names.  The code never sets EP0_SEND_STALL, so EP0_SENT_STALL *)
(* stays clear, and a stalled request is one that is not answered.         *)
(***************************************************************************)
EXTENDS Naturals, Sequences, FiniteSets

CONSTANTS
    EP0_MAX_PACKET_SIZE,
    Sections,                       \* sizes of the sections of the configuration
    DeviceLen, StringLen, LineLen,  \* sizes of the other objects
    StraySizes,                     \* first bytes behind the string table's pointers
    Lengths,                        \* wLength of the requests for a descriptor
    MaxAborts, MaxResets            \* bounds on what the host breaks off

ASSUME UsbAssumption ==
    /\ EP0_MAX_PACKET_SIZE \in Nat \ {0}
    /\ Sections \in Seq(Nat \ {0}) /\ Sections # <<>>
    /\ DeviceLen \in Nat \ {0} /\ StringLen \in Nat \ {0}
    \* The answer to GET_LINE_CODING is a local variable of the function that sends it:
    \* it goes out in one packet.
    /\ LineLen \in Nat \ {0} /\ LineLen < EP0_MAX_PACKET_SIZE
    /\ Lengths \subseteq Nat \ {0} /\ StraySizes \subseteq Nat
    /\ MaxAborts \in Nat /\ MaxResets \in Nat

VARIABLES
    d,          \* g_psUSBDevice[0]
    csr,        \* EP0_CSR bits and the two directions of the FIFO
    irq,        \* EP0_INT and RESET_INT pending
    pend,       \* what USBIntHandler has found pending and not yet handled
    dirty,      \* the device has written through pEP0Data
    h,          \* the host's control transfer
    served,     \* its SETUP packet was read before anything was sent, and with no
                \* other interrupt pending
    aborts, resets

vars == <<d, csr, irq, pend, dirty, h, served, aborts, resets>>

NumSections == Len(Sections)
\* Bytes of the configuration before section s (counted from 0).
Base[s \in 0..NumSections] == IF s = 0 THEN 0 ELSE Base[s - 1] + Sections[s]
Objects == {"device", "config", "string", "line"}
Length == [o \in Objects |->
             CASE o = "device" -> DeviceLen [] o = "string" -> StringLen
               [] o = "line" -> LineLen [] OTHER -> Base[NumSections]]
Null == "null"                      \* pEP0Data is a null pointer

\* What ppStringDescriptors[wValue & 0xFF] finds for an index behind the table: the
\* code does not compare it with ulNumStringDescriptors, so some word of memory is
\* taken for the pointer, and the byte that points at for the size.
Wild == "wild"

Least(a, b) == IF a < b THEN a ELSE b
Bytes(o, from, n) == [i \in 1..n |-> <<o, from + i - 1>>]

\* Requests.  "get" of Wild: a string that is not in the table; "set": SET_ADDRESS,
\* SET_CONFIGURATION, SET_CONTROL_LINE_STATE; "none": the standard requests with an
\* empty handler, and those it has no entry for; "bad": a descriptor of a type that
\* does not exist; "badconfig": a configuration that does not exist, or a null
\* pointer behind the string table.
Requests ==
    [kind : {"get"}, obj : Objects \cup {Wild}, len : Lengths]
    \cup [kind : {"set", "none", "bad", "badconfig", "setline"}, obj : {"device"}, len : {LineLen}]
----------------------------------------------------------------------------
(* 2440usb.c: each takes the registers and gives them back. *)

\* USBEndpointDataAck: the packet in the FIFO is done with.
DataAck(r, last) == [r EXCEPT !.out = FALSE, !.end = last \/ @]

\* USBEndpointDataPut and USBEndpointDataSend.
DataSend(r, bytes, last) ==
    [r EXCEPT !.fifo = @ \o bytes, !.in = TRUE, !.end = last \/ @]

NoRegisters == [out |-> FALSE, rx |-> {}, in |-> FALSE, fifo |-> <<>>,
                end |-> FALSE, setupEnd |-> FALSE, open |-> FALSE]
----------------------------------------------------------------------------
(* usbenum.c.  Each function gives the device and the registers after it.  *)

LastWhenEmpty(s, n) == s.remain = n

\* Only a packet shorter than the maximum ends a transfer.
LastPacket(s, n) == n < EP0_MAX_PACKET_SIZE

PacketSize(s) == Least(s.remain, EP0_MAX_PACKET_SIZE)

USBDEP0StateTx(s, r) ==
    LET n == PacketSize(s)
        last == LastPacket(s, n)
    IN  [dev |-> [s EXCEPT !.eEP0State = IF last THEN "idle" ELSE "tx",
                           !.remain = @ - n, !.off = @ + n],
         reg |-> DataSend(r, Bytes(s.obj, s.off, n), last)]

SectionNotEnded(s, n) == [s EXCEPT !.sectionOffset = @ + n]

\* The place in the sections n bytes on: ucConfigSection, ucSectionOffset.
Walk(s, n) ==
    LET pos == Base[s.section] + s.sectionOffset + n
        sec == CHOOSE k \in 0..NumSections :
                 /\ Base[k] <= pos
                 /\ k < NumSections => pos < Base[k + 1]
    IN  [s EXCEPT !.section = sec, !.sectionOffset = pos - Base[sec]]

\* n bytes from the sections.  What lies behind them is not part of them.
USBDEP0StateTxConfig(s, r) ==
    LET n == PacketSize(s)
        last == LastPacket(s, n)
        w == Walk(s, n)
        remain == IF w.section >= NumSections THEN 0 ELSE s.remain - n
    IN  [dev |-> [w EXCEPT !.eEP0State = IF last THEN "idle" ELSE "txconfig",
                           !.remain = remain,
                           !.off = IF remain # 0 THEN Base[w.section] + w.sectionOffset ELSE @],
         reg |-> DataSend(r, Bytes("config", Base[s.section] + s.sectionOffset, n), last)]

\* The data goes where pEP0Data was left, over or behind the object it points into.
\* How far it moves on is not kept: every transfer to the host sets it anew.
USBDEP0StateRx(s, r) ==
    LET n == PacketSize(s)
        last == s.remain < EP0_MAX_PACKET_SIZE
    IN  [dev |-> [s EXCEPT !.eEP0State = IF last THEN "idle" ELSE "rx",
                           !.remain = @ - n],
         reg |-> DataAck([r EXCEPT !.rx = {}], last)]

GetUnlimited(s, q, n) == [s EXCEPT !.obj = q.obj, !.off = 0, !.remain = n,
                                   !.section = 0, !.sectionOffset = 0]

\* GET_LINE_CODING does not look at wLength.
Limit(q, n) == IF q.obj = "line" THEN n ELSE Least(n, q.len)

GetSameSection(s, q, n) == [s EXCEPT !.obj = q.obj, !.off = 0, !.remain = Limit(q, n)]

\* The sizes that the object asked for may have.
Sizes(q) == IF q.obj = Wild THEN StraySizes ELSE {Length[q.obj]}

\* USBDGetDescriptor and GET_LINE_CODING up to the transfer of n bytes at most.
GetSetup(s, q, n) ==
    LET t == [s EXCEPT !.obj = q.obj, !.off = 0, !.remain = Limit(q, n)]
    IN  IF q.obj = "config" THEN [t EXCEPT !.section = 0, !.sectionOffset = 0] ELSE t

\* USBDReadAndDispatchRequest for request q, of an object of n bytes.  One that is
\* refused or has an empty handler leaves OUT_PKT_READY set.
Dispatch(q, n, s, r0) ==
    LET r == [r0 EXCEPT !.rx = {}]
        t == GetSetup(s, q, n)
    IN  CASE q.kind = "get" /\ q.obj = "config" -> USBDEP0StateTxConfig(t, DataAck(r, FALSE))
          [] q.kind = "get" /\ q.obj # "config" -> USBDEP0StateTx(t, DataAck(r, FALSE))
          [] q.kind = "set" -> [dev |-> [s EXCEPT !.eEP0State = "idle"], reg |-> DataAck(r, TRUE)]
          [] q.kind = "setline" ->
               [dev |-> [s EXCEPT !.eEP0State = "rx", !.remain = q.len], reg |-> DataAck(r, FALSE)]
          [] q.kind = "none" -> [dev |-> s, reg |-> r]
          [] q.kind = "bad" -> [dev |-> [s EXCEPT !.eEP0State = "idle"], reg |-> DataAck(r, FALSE)]
          [] q.kind = "badconfig" ->
               [dev |-> [s EXCEPT !.eEP0State = "idle", !.obj = Null, !.off = 0, !.remain = 0],
                reg |-> DataAck(r, FALSE)]

After(x) == d' = x.dev /\ csr' = x.reg

\* Ep0Handler on the registers as they are now.
Ep0Handler ==
    \/ /\ csr.setupEnd
       /\ d' = [d EXCEPT !.eEP0State = "idle"]
       /\ csr' = [csr EXCEPT !.setupEnd = FALSE, !.out = FALSE, !.rx = {}]
       /\ UNCHANGED <<dirty, served>>
    \/ /\ ~csr.setupEnd /\ d.eEP0State = "idle" /\ csr.out
       /\ \E q \in IF csr.rx = {} THEN Requests ELSE csr.rx :
            /\ \E n \in Sizes(q) : After(Dispatch(q, n, d, csr))
            /\ served' = (/\ csr.rx # {} /\ ~irq.ep0 /\ ~csr.in /\ h.got = <<>> /\ h.st # "statusout"
                          /\ q.kind \in {"get", "set", "setline"})
       /\ UNCHANGED dirty
    \/ /\ ~csr.setupEnd /\ d.eEP0State = "idle" /\ ~csr.out
       /\ UNCHANGED <<d, csr, dirty, served>>
    \/ /\ ~csr.setupEnd /\ d.eEP0State = "tx"
       /\ After(USBDEP0StateTx(d, csr))
       /\ UNCHANGED <<dirty, served>>
    \/ /\ ~csr.setupEnd /\ d.eEP0State = "txconfig"
       /\ After(USBDEP0StateTxConfig(d, csr))
       /\ UNCHANGED <<dirty, served>>
    \/ /\ ~csr.setupEnd /\ d.eEP0State = "rx"
       /\ After(USBDEP0StateRx(d, csr))
       /\ dirty' = TRUE
       /\ UNCHANGED served

\* USBIntHandler reads the pending interrupts; after a reset ConfigUsbd clears the
\* registers and every endpoint interrupt, one that came in after the reading too,
\* but not the state of endpoint 0.
EnterIsr ==
    /\ ~pend.ep0 /\ (irq.ep0 \/ irq.reset)
    /\ \E seen \in {irq.ep0} \cup (IF irq.reset THEN {FALSE} ELSE {}) : pend' = [ep0 |-> seen]
    /\ irq' = [ep0 |-> FALSE, reset |-> FALSE]
    /\ csr' = IF irq.reset THEN [csr EXCEPT !.out = FALSE, !.rx = {}, !.setupEnd = FALSE] ELSE csr
    /\ UNCHANGED <<d, dirty, h, served, aborts, resets>>

\* EP_INT_REG has been cleared; what came in since is pending again.  SRCPND and
\* INTPND, cleared last, are not kept: the controller holds its line while an
\* interrupt is pending.
RunEp0 ==
    /\ pend.ep0 /\ pend' = [ep0 |-> FALSE]
    /\ Ep0Handler
    /\ UNCHANGED <<irq, h, aborts, resets>>

\* USBDInit.
Init ==
    /\ d = [eEP0State |-> "idle", obj |-> Null, off |-> 0, remain |-> 0,
            section |-> 0, sectionOffset |-> 0]
    /\ csr = NoRegisters /\ irq = [ep0 |-> FALSE, reset |-> FALSE]
    /\ pend = [ep0 |-> FALSE] /\ dirty = FALSE
    /\ h = [st |-> "none", got |-> <<>>, req |-> {}]
    /\ served = FALSE /\ aborts = 0 /\ resets = 0
----------------------------------------------------------------------------
(* The controller and the host.  Every event of endpoint 0 raises EP0_INT. *)

Raise == irq' = [irq EXCEPT !.ep0 = TRUE]

\* A SETUP packet; one that breaks off a transfer empties the FIFO, and sets
\* SETUP_END unless the device has announced the end of its data.
HostSetup(q) ==
    /\ h.st # "none" => aborts < MaxAborts
    /\ aborts' = IF h.st # "none" THEN aborts + 1 ELSE aborts
    /\ h' = [st |-> CASE q.kind = "get" -> "in" [] q.kind = "setline" -> "out" [] OTHER -> "statusin",
             got |-> <<>>, req |-> {q}]
    /\ csr' = [NoRegisters EXCEPT !.out = TRUE, !.rx = {q}, !.open = TRUE,
                  !.setupEnd = csr.setupEnd \/ (csr.open /\ ~csr.end)]
    /\ served' = FALSE
    /\ Raise
    /\ UNCHANGED <<d, pend, dirty, resets>>

\* An IN packet, the end of the data stage if it is short or the last wanted.
HostIn ==
    /\ h.st = "in" /\ csr.in
    /\ \E all \in {h.got \o csr.fifo} :
         h' = [h EXCEPT !.got = all,
                        !.st = IF Len(csr.fifo) < EP0_MAX_PACKET_SIZE
                                  \/ \E q \in h.req : Len(all) >= q.len
                               THEN "statusout" ELSE "in"]
    /\ csr' = [csr EXCEPT !.in = FALSE, !.fifo = <<>>]
    /\ Raise
    /\ UNCHANGED <<d, pend, dirty, served, aborts, resets>>

\* The OUT packet with the data of SET_LINE_CODING.
HostOut ==
    /\ h.st = "out" /\ ~csr.out
    /\ csr' = [csr EXCEPT !.out = TRUE]
    /\ h' = [h EXCEPT !.st = "statusin"]
    /\ Raise
    /\ UNCHANGED <<d, pend, dirty, served, aborts, resets>>

\* The status stage ends the transfer, before the device expects it if DATA_END is
\* not set: the host has the bytes it wanted, the device still means to send more.
HostStatus ==
    /\ \/ h.st = "statusout"
       \/ h.st = "statusin" /\ csr.end
    /\ h' = [st |-> "none", got |-> <<>>, req |-> {}]
    /\ csr' = [csr EXCEPT !.end = FALSE, !.open = FALSE, !.in = FALSE, !.fifo = <<>>,
                          !.setupEnd = @ \/ ~csr.end]
    /\ Raise
    /\ UNCHANGED <<d, pend, dirty, served, aborts, resets>>

\* A bus reset.
HostReset ==
    /\ resets < MaxResets /\ resets' = resets + 1
    /\ h' = [st |-> "none", got |-> <<>>, req |-> {}]
    /\ csr' = NoRegisters
    /\ irq' = [irq EXCEPT !.reset = TRUE]
    /\ served' = FALSE
    /\ UNCHANGED <<d, pend, dirty, aborts>>

Isr == EnterIsr \/ RunEp0

Next ==
    \/ Isr \/ (\E q \in Requests : HostSetup(q))
    \/ HostIn \/ HostOut \/ HostStatus \/ HostReset

Spec == Init /\ [][Next]_vars

\* The processor serves pending interrupts, and the host goes on polling.
FairSpec == Spec /\ WF_vars(Isr) /\ WF_vars(HostIn) /\ WF_vars(HostOut) /\ WF_vars(HostStatus)
----------------------------------------------------------------------------
(* Types.  The place in the configuration is always inside a section, or   *)
(* behind the last.                                                        *)
TypeOK ==
    /\ d \in [eEP0State : {"idle", "tx", "txconfig", "rx"}, obj : Objects \cup {Null, Wild}, off : Nat,
              remain : Nat, section : 0..NumSections, sectionOffset : Nat]
    /\ d.section < NumSections => d.sectionOffset < Sections[d.section + 1]
    /\ csr.rx \subseteq Requests /\ Cardinality(csr.rx) <= 1
    /\ irq \in [ep0 : BOOLEAN, reset : BOOLEAN] /\ pend \in [ep0 : BOOLEAN]
    /\ dirty \in BOOLEAN /\ served \in BOOLEAN
    /\ h.st \in {"none", "in", "out", "statusin", "statusout"}

(* SET_LINE_CODING overwrites whatever pEP0Data points at, which may be a  *)
(* descriptor and the length in it: the properties speak of the time       *)
(* before its data has come.                                               *)

(* When the data stage of a request for an object that exists, read        *)
(* undisturbed, ends, the host has that object from its first byte on,     *)
(* whatever transfer the device was in before: cut off at wLength by       *)
(* USBDGetDescriptor, the whole of it by GET_LINE_CODING, whose host gets  *)
(* more than it wanted if it asks for less.                                *)
DataRight ==
    served /\ ~dirty /\ h.st = "statusout" =>
        \A q \in h.req : q.obj # Wild => h.got = Bytes(q.obj, 0, Limit(q, Length[q.obj]))

(* While the device sends from an object of its tables, it never means to  *)
(* send a byte from behind that object: not after a transfer broken off,   *)
(* an interrupt that finds the FIFO full, or a bus reset that leaves       *)
(* eEP0State as it was.  Of a string index behind the table nothing of the *)
(* kind holds: Wild is memory that is no object of the device.             *)
StaysInside ==
    /\ ~dirty /\ d.eEP0State = "tx" /\ d.obj # Wild => d.off + d.remain <= Length[d.obj]
    /\ ~dirty /\ d.eEP0State = "txconfig" =>
         Base[d.section] + d.sectionOffset + d.remain <= Base[NumSections]

(* A request that was read undisturbed is answered to the end, unless the  *)
(* host breaks it off: the interrupt the handler waits for always comes,   *)
(* and a transfer of a multiple of the packet size is ended too.           *)
Completes == (served /\ ~dirty /\ h.st # "none") ~> (h.st = "none" \/ ~served \/ dirty)
=============================================================================
