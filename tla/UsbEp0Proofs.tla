---------------------------- MODULE UsbEp0Proofs ----------------------------
(***************************************************************************)
(* Proofs about UsbEp0, for every packet size, every length of the         *)
(* descriptors, every division of the configuration into sections and      *)
(* any number of transfers broken off and bus resets.                      *)
(***************************************************************************)
EXTENDS UsbEp0, NaturalLemmas, FiniteSetTheorems, SequenceTheorems

----------------------------------------------------------------------------
(* The configuration: where its sections begin. *)

LEMMA SectionsType ==
  /\ NumSections \in Nat \ {0}
  /\ \A s \in 1..NumSections : Sections[s] \in Nat \ {0}
BY UsbAssumption DEF NumSections

\* f holds the beginnings of the first n sections.
Sums(f, n) ==
    /\ f \in [0..n -> Nat]
    /\ \A s \in 0..n : f[s] = IF s = 0 THEN 0 ELSE f[s - 1] + Sections[s]

LEMMA SumsExist == \E f : Sums(f, NumSections)
<1> DEFINE T == {n \in Nat : n <= NumSections => \E f : Sums(f, n)}
<1>1. 0 \in T
  <2>1. Sums([s \in 0..0 |-> 0], 0)
    BY DEF Sums
  <2> QED BY <2>1
<1>2. ASSUME NEW n \in T PROVE n + 1 \in T
  <2> SUFFICES ASSUME n + 1 <= NumSections PROVE \E f : Sums(f, n + 1)
    OBVIOUS
  <2>1. PICK f : Sums(f, n)
    BY SectionsType
  <2> DEFINE g == [s \in 0..(n + 1) |-> IF s = n + 1 THEN f[n] + Sections[n + 1] ELSE f[s]]
  <2>2. n \in Nat /\ f[n] \in Nat /\ Sections[n + 1] \in Nat
    BY <2>1, SectionsType DEF Sums
  <2>3. g \in [0..(n + 1) -> Nat]
    BY <2>1, <2>2 DEF Sums
  <2>4. \A s \in 0..(n + 1) : g[s] = IF s = 0 THEN 0 ELSE g[s - 1] + Sections[s]
    BY <2>1, <2>2 DEF Sums
  <2> QED BY <2>3, <2>4 DEF Sums
<1>3. T = Nat
  <2> HIDE DEF T
  <2>1. T \in SUBSET Nat
    BY DEF T
  <2> QED BY <1>1, <1>2, <2>1, SetInduction
<1> QED BY <1>3, SectionsType

LEMMA BaseSums == Sums(Base, NumSections)
<1>1. PICK f : Sums(f, NumSections)
  BY SumsExist
<1>2. f = [s \in 0..NumSections |-> IF s = 0 THEN 0 ELSE f[s - 1] + Sections[s]]
  BY <1>1 DEF Sums
<1>3. Base = [s \in 0..NumSections |-> IF s = 0 THEN 0 ELSE Base[s - 1] + Sections[s]]
  BY <1>2, Zenon DEF Base
<1>4. \A n \in Nat : n <= NumSections => Base[n] = f[n]
  <2> DEFINE T == {n \in Nat : n <= NumSections => Base[n] = f[n]}
  <2>1. 0 \in T
    BY <1>2, <1>3, SectionsType
  <2>2. ASSUME NEW n \in T PROVE n + 1 \in T
    BY <1>2, <1>3, SectionsType
  <2>3. T = Nat
    <3> HIDE DEF T
    <3>1. T \in SUBSET Nat
      BY DEF T
    <3> QED BY <2>1, <2>2, <3>1, SetInduction
  <2> QED BY <2>3
<1>5. \A s \in 0..NumSections : Base[s] = f[s]
  BY <1>4, SectionsType
<1>6. Base = f
  BY <1>1, <1>2, <1>3, <1>5
<1> QED BY <1>1, <1>6

LEMMA BaseFacts ==
  /\ \A s \in 0..NumSections : Base[s] \in Nat
  /\ Base[0] = 0
  /\ \A s \in 0..(NumSections - 1) : Base[s + 1] = Base[s] + Sections[s + 1]
BY BaseSums, SectionsType DEF Sums

\* The section that position pos of the configuration lies in.
LEMMA SectionExists ==
  ASSUME NEW pos \in Nat
  PROVE  \E k \in 0..NumSections : Base[k] <= pos /\ (k < NumSections => pos < Base[k + 1])
<1> DEFINE T == {k \in 0..NumSections : k < NumSections => pos < Base[k + 1]}
<1>1. NumSections \in T /\ T \in SUBSET Nat
  BY SectionsType
<1>2. PICK k \in T : \A j \in T : k <= j
  <2> HIDE DEF T
  <2> QED BY <1>1, LeastElement
<1>3. CASE k = 0
  BY <1>2, <1>3, BaseFacts
<1>4. CASE k # 0
  <2>1. k - 1 \in 0..NumSections /\ k - 1 \notin T
    BY <1>2, <1>4, SectionsType
  <2> QED BY <1>2, <1>4, <2>1, BaseFacts, SectionsType
<1> QED BY <1>3, <1>4

----------------------------------------------------------------------------
(* The inductive invariant.                                                *)
(*                                                                         *)
(* Types, and what the transfers need of the device to stay inside the     *)
(* object, hold of every behaviour.  DataRight needs the relation between  *)
(* the registers and the host's request, and, once the request was read    *)
(* undisturbed, how far its data stage has come: what the host has and     *)
(* what is in the FIFO are the first bytes of the object, the device       *)
(* stands right behind them, and the next interrupt finds the FIFO empty.  *)
(* Of what a string index behind the table finds, nothing is said.         *)

States == {"idle", "tx", "txconfig", "rx"}
Byte == (Objects \cup {Null, Wild}) \X Nat
Device == [eEP0State : States, obj : Objects \cup {Null, Wild}, off : Nat,
           remain : Nat, section : 0..NumSections, sectionOffset : Nat]
Registers == [out : BOOLEAN, rx : SUBSET Requests, in : BOOLEAN, fifo : Seq(Byte),
              end : BOOLEAN, setupEnd : BOOLEAN, open : BOOLEAN]
Host == [st : {"none", "in", "out", "statusin", "statusout"}, got : Seq(Byte),
         req : SUBSET Requests]

Placed(s) == s.section < NumSections => s.sectionOffset < Sections[s.section + 1]
CanTx(s) == /\ s.obj \in Objects \cup {Wild}
            /\ s.obj # Wild => s.off + s.remain <= Length[s.obj]
CanTxConfig(s) == Base[s.section] + s.sectionOffset + s.remain <= Base[NumSections]

DeviceInv(s) ==
    /\ s \in Device /\ Placed(s)
    /\ s.eEP0State = "tx" => CanTx(s)
    /\ s.eEP0State = "txconfig" => CanTxConfig(s)

RegistersInv(r) ==
    /\ r \in Registers
    /\ r.rx = {} \/ \E q \in Requests : r.rx = {q}
    /\ ~r.in => r.fifo = <<>>

HostInv ==
    /\ h \in Host
    /\ h.st # "none" => \E q \in Requests : h.req = {q}
    /\ h.st = "in" => \A q \in h.req : q.kind = "get"
    /\ csr.rx # {} /\ h.st # "none" => h.req = csr.rx

FlagsInv ==
    /\ irq \in [ep0 : BOOLEAN, reset : BOOLEAN] /\ pend \in [ep0 : BOOLEAN]
    /\ dirty \in BOOLEAN /\ served \in BOOLEAN
    /\ irq.reset /\ csr.rx # {} => irq.ep0
    /\ served => ~irq.reset

Total(q) == Limit(q, Length[q.obj])
Sent(r, got) == Len(got) + Len(r.fifo)

\* How far the answer to q has come: device s, registers r, the host has got.
Progress(q, s, r, got) ==
    /\ got = Bytes(q.obj, 0, Len(got))
    /\ r.fifo = Bytes(q.obj, Len(got), Len(r.fifo))
    /\ Sent(r, got) <= Total(q)
    /\ s.eEP0State = "idle" => Sent(r, got) = Total(q)
    /\ s.eEP0State = "tx" => /\ s.obj = q.obj /\ q.obj # "config"
                             /\ s.off = Sent(r, got) /\ s.remain = Total(q) - Sent(r, got)
    /\ s.eEP0State = "txconfig" => /\ q.obj = "config"
                                   /\ Base[s.section] + s.sectionOffset = Sent(r, got)
                                   /\ s.remain = Total(q) - Sent(r, got)
    /\ r.in /\ Len(r.fifo) < EP0_MAX_PACKET_SIZE => Sent(r, got) = Total(q)

DataStageInv ==
    served /\ h.st = "in" =>
      /\ ~csr.setupEnd /\ csr.rx = {} /\ ~csr.out /\ d.eEP0State # "rx"
      /\ csr.in => ~irq.ep0 /\ ~pend.ep0
      /\ ~(irq.ep0 /\ pend.ep0)
      /\ \A q \in h.req : q.obj # Wild => Progress(q, d, csr, h.got)

StatusStageInv ==
    served /\ h.st = "statusout" => 
      \A q \in h.req : q.obj # Wild => h.got = Bytes(q.obj, 0, Total(q))

Inv == DeviceInv(d) /\ RegistersInv(csr) /\ HostInv /\ FlagsInv /\ DataStageInv /\ StatusStageInv

----------------------------------------------------------------------------
(* Requests, lengths and bytes. *)

LEMMA RequestFacts ==
  ASSUME NEW q \in Requests
  PROVE  /\ q.kind \in {"get", "set", "none", "bad", "badconfig", "setline"}
         /\ q.obj \in Objects \cup {Wild} /\ q.len \in Nat \ {0}
BY UsbAssumption DEF Requests, Objects

LEMMA LengthFacts ==
  /\ \A o \in Objects : Length[o] \in Nat
  /\ Length["config"] = Base[NumSections] /\ Length["line"] = LineLen
BY UsbAssumption, BaseFacts, SectionsType DEF Length, Objects

LEMMA LeastFacts ==
  ASSUME NEW a \in Nat, NEW b \in Nat
  PROVE  /\ Least(a, b) \in Nat /\ Least(a, b) <= a /\ Least(a, b) <= b
         /\ Least(a, b) = a \/ Least(a, b) = b
         /\ Least(a, b) = Least(b, a)
BY DEF Least

\* What is asked for is no more than there is.
LEMMA LimitFacts ==
  ASSUME NEW q \in Requests, NEW n \in Nat
  PROVE  /\ Limit(q, n) \in Nat /\ Limit(q, n) <= n
         /\ q.obj # "line" => Limit(q, n) <= q.len
BY RequestFacts, LeastFacts DEF Limit

LEMMA SizesFacts ==
  ASSUME NEW q \in Requests, NEW n \in Sizes(q)
  PROVE  n \in Nat /\ (q.obj # Wild => n = Length[q.obj])
BY RequestFacts, LengthFacts, UsbAssumption DEF Sizes

LEMMA BytesFacts ==
  ASSUME NEW o \in Objects \cup {Null, Wild}, NEW from \in Nat, NEW n \in Nat
  PROVE  Bytes(o, from, n) \in Seq(Byte) /\ Len(Bytes(o, from, n)) = n
BY DEF Bytes, Byte

LEMMA BytesJoin ==
  ASSUME NEW o \in Objects \cup {Null, Wild}, NEW a \in Nat, NEW b \in Nat
  PROVE  Bytes(o, 0, a) \o Bytes(o, a, b) = Bytes(o, 0, a + b)
BY DEF Bytes, Byte

LEMMA BytesNone ==
  ASSUME NEW o \in Objects \cup {Null, Wild}, NEW from \in Nat
  PROVE  Bytes(o, from, 0) = <<>>
BY DEF Bytes, Byte

LEMMA PacketFacts ==
  ASSUME NEW s \in Device
  PROVE  /\ PacketSize(s) \in Nat /\ PacketSize(s) <= s.remain
         /\ PacketSize(s) <= EP0_MAX_PACKET_SIZE
         /\ LastPacket(s, PacketSize(s)) \in BOOLEAN
         /\ LastPacket(s, PacketSize(s)) <=> PacketSize(s) < EP0_MAX_PACKET_SIZE
         /\ LastPacket(s, PacketSize(s)) => PacketSize(s) = s.remain
BY UsbAssumption DEF PacketSize, LastPacket, Least, Device
----------------------------------------------------------------------------
(* The registers. *)

LEMMA AckFacts ==
  ASSUME NEW r, RegistersInv(r), NEW last \in BOOLEAN
  PROVE  /\ RegistersInv(DataAck(r, last))
         /\ DataAck(r, last).rx = r.rx /\ DataAck(r, last).in = r.in
         /\ DataAck(r, last).fifo = r.fifo /\ DataAck(r, last).setupEnd = r.setupEnd
         /\ ~DataAck(r, last).out
BY DEF RegistersInv, Registers, DataAck

LEMMA SendFacts ==
  ASSUME NEW r, RegistersInv(r), NEW bytes \in Seq(Byte), NEW last \in BOOLEAN
  PROVE  /\ RegistersInv(DataSend(r, bytes, last))
         /\ DataSend(r, bytes, last).rx = r.rx /\ DataSend(r, bytes, last).in
         /\ DataSend(r, bytes, last).fifo = r.fifo \o bytes
         /\ DataSend(r, bytes, last).setupEnd = r.setupEnd
         /\ DataSend(r, bytes, last).out = r.out
<1> DEFINE f == r.fifo \o bytes
           e == last \/ r.end
           u == [r EXCEPT !.fifo = f, !.in = TRUE, !.end = e]
<1>1. f \in Seq(Byte) /\ e \in BOOLEAN
  BY DEF RegistersInv, Registers
<1>2. DataSend(r, bytes, last) = u
  BY DEF DataSend
<1> HIDE DEF f, e
<1>3. /\ u \in Registers /\ u.rx = r.rx /\ u.in /\ u.fifo = f /\ u.setupEnd = r.setupEnd
      /\ u.out = r.out
  BY <1>1 DEF RegistersInv, Registers
<1> HIDE DEF u
<1>4. RegistersInv(u)
  BY <1>3 DEF RegistersInv
<1> QED BY <1>2, <1>3, <1>4 DEF f

LEMMA TakenFacts ==
  ASSUME NEW r, RegistersInv(r)
  PROVE  /\ RegistersInv([r EXCEPT !.rx = {}])
         /\ [r EXCEPT !.rx = {}].rx = {} /\ [r EXCEPT !.rx = {}].in = r.in
         /\ [r EXCEPT !.rx = {}].fifo = r.fifo /\ [r EXCEPT !.rx = {}].out = r.out
         /\ [r EXCEPT !.rx = {}].setupEnd = r.setupEnd
BY DEF RegistersInv, Registers

LEMMA EmptyRegisters == RegistersInv(NoRegisters)
BY DEF RegistersInv, Registers, NoRegisters
----------------------------------------------------------------------------
(* The transfers. *)

\* x is the device and the registers after one packet of n bytes of a transfer.
TxDone(s, r, x, n) ==
    /\ DeviceInv(x.dev) /\ RegistersInv(x.reg)
    /\ x.dev.eEP0State = IF n < EP0_MAX_PACKET_SIZE THEN "idle" ELSE "tx"
    /\ x.dev.obj = s.obj /\ x.dev.off = s.off + n /\ x.dev.remain = s.remain - n
    /\ x.reg.fifo = r.fifo \o Bytes(s.obj, s.off, n)
    /\ x.reg.in /\ x.reg.rx = r.rx /\ x.reg.out = r.out /\ x.reg.setupEnd = r.setupEnd

TxConfigDone(s, r, x, n) ==
    /\ DeviceInv(x.dev) /\ RegistersInv(x.reg)
    /\ x.dev.eEP0State = IF n < EP0_MAX_PACKET_SIZE THEN "idle" ELSE "txconfig"
    /\ Base[x.dev.section] + x.dev.sectionOffset = Base[s.section] + s.sectionOffset + n
    /\ x.dev.remain = s.remain - n
    /\ x.reg.fifo = r.fifo \o Bytes("config", Base[s.section] + s.sectionOffset, n)
    /\ x.reg.in /\ x.reg.rx = r.rx /\ x.reg.out = r.out /\ x.reg.setupEnd = r.setupEnd

\* USBDEP0StateTx stays inside the object, and puts its next bytes in the FIFO.
LEMMA TxFacts ==
  ASSUME NEW s, s \in Device, Placed(s), CanTx(s), NEW r, RegistersInv(r)
  PROVE  TxDone(s, r, USBDEP0StateTx(s, r), PacketSize(s))
<1> DEFINE n == PacketSize(s)
           x == USBDEP0StateTx(s, r)
           last == LastPacket(s, n)
           t == [s EXCEPT !.eEP0State = IF last THEN "idle" ELSE "tx",
                          !.remain = @ - n, !.off = @ + n]
           u == DataSend(r, Bytes(s.obj, s.off, n), last)
<1>1. x.dev = t /\ x.reg = u
  BY DEF USBDEP0StateTx
<1>2. n \in Nat /\ n <= s.remain /\ last \in BOOLEAN /\ (last <=> n < EP0_MAX_PACKET_SIZE)
  BY PacketFacts
<1>3. Bytes(s.obj, s.off, n) \in Seq(Byte)
  BY <1>2, BytesFacts DEF Device
<1>4. RegistersInv(u) /\ u.fifo = r.fifo \o Bytes(s.obj, s.off, n) /\ u.in /\ u.rx = r.rx
      /\ u.out = r.out /\ u.setupEnd = r.setupEnd
  <2> HIDE DEF last
  <2> QED BY <1>2, <1>3, SendFacts
<1>5. s.off + n \in Nat /\ s.remain - n \in Nat
  BY <1>2 DEF Device
<1> HIDE DEF last, u
<1>6. /\ t \in Device /\ t.eEP0State = (IF last THEN "idle" ELSE "tx")
      /\ t.obj = s.obj /\ t.off = s.off + n /\ t.remain = s.remain - n
      /\ t.section = s.section /\ t.sectionOffset = s.sectionOffset
  BY <1>2, <1>5 DEF Device, States
<1> HIDE DEF t
<1>7. Placed(t)
  BY <1>6 DEF Placed
<1>8. CanTx(t)
  BY <1>2, <1>6, LengthFacts DEF CanTx, Device
<1>9. DeviceInv(t)
  BY <1>6, <1>7, <1>8 DEF DeviceInv
<1> HIDE DEF x, n
<1>10. TxDone(s, r, x, n)
  BY <1>1, <1>2, <1>4, <1>6, <1>9 DEF TxDone
<1> QED BY <1>10 DEF x, n

\* Walk finds the section, and moves n bytes on.
LEMMA WalkFacts ==
  ASSUME NEW s \in Device, NEW n \in Nat
  PROVE  /\ Walk(s, n) \in Device /\ Placed(Walk(s, n))
         /\ Base[Walk(s, n).section] + Walk(s, n).sectionOffset
              = Base[s.section] + s.sectionOffset + n
         /\ Walk(s, n).off = s.off /\ Walk(s, n).remain = s.remain /\ Walk(s, n).obj = s.obj
         /\ Base[Walk(s, n).section] <= Base[s.section] + s.sectionOffset + n
<1> DEFINE pos == Base[s.section] + s.sectionOffset + n
           P(k) == Base[k] <= pos /\ (k < NumSections => pos < Base[k + 1])
           sec == CHOOSE k \in 0..NumSections : P(k)
           z == pos - Base[sec]
           w == [s EXCEPT !.section = sec, !.sectionOffset = z]
<1>1. Walk(s, n) = w
  BY Zenon DEF Walk
<1>2. pos \in Nat
  BY BaseFacts DEF Device
<1>3. sec \in 0..NumSections /\ P(sec)
  <2>1. \E k \in 0..NumSections : P(k)
    <3> HIDE DEF pos
    <3> QED BY <1>2, SectionExists
  <2> HIDE DEF P
  <2> QED BY <2>1
<1> HIDE DEF sec
<1>4. z \in Nat /\ Base[sec] + z = pos /\ Base[sec] \in Nat
  BY <1>2, <1>3, BaseFacts
<1>5. sec < NumSections => z < Sections[sec + 1]
  <2> HIDE DEF pos
  <2> QED BY <1>2, <1>3, BaseFacts, SectionsType
<1>6. P(sec)
  BY <1>3
<1> HIDE DEF z, P, pos
<1>7. /\ w \in Device /\ w.section = sec /\ w.sectionOffset = z
      /\ w.off = s.off /\ w.remain = s.remain /\ w.obj = s.obj
  BY <1>3, <1>4 DEF Device
<1> HIDE DEF w
<1>8. Placed(w)
  BY <1>5, <1>7 DEF Placed
<1>9. Base[w.section] + w.sectionOffset = pos /\ Base[w.section] <= pos
  BY <1>4, <1>6, <1>7 DEF P
<1> QED BY <1>1, <1>7, <1>8, <1>9 DEF pos

\* USBDEP0StateTxConfig does too; behind the last section nothing is left to send.
LEMMA TxConfigFacts ==
  ASSUME NEW s, s \in Device, Placed(s), CanTxConfig(s), NEW r, RegistersInv(r)
  PROVE  TxConfigDone(s, r, USBDEP0StateTxConfig(s, r), PacketSize(s))
<1> DEFINE n == PacketSize(s)
           x == USBDEP0StateTxConfig(s, r)
           last == LastPacket(s, n)
           w == Walk(s, n)
           m == IF w.section >= NumSections THEN 0 ELSE s.remain - n
           o == IF m # 0 THEN Base[w.section] + w.sectionOffset ELSE w.off
           t == [w EXCEPT !.eEP0State = IF last THEN "idle" ELSE "txconfig",
                          !.remain = m, !.off = o]
           from == Base[s.section] + s.sectionOffset
           u == DataSend(r, Bytes("config", from, n), last)
<1>1. x.dev = t /\ x.reg = u
  BY Zenon DEF USBDEP0StateTxConfig
<1>2. n \in Nat /\ n <= s.remain /\ last \in BOOLEAN /\ (last <=> n < EP0_MAX_PACKET_SIZE)
  BY PacketFacts
<1>3. from \in Nat /\ "config" \in Objects \cup {Null, Wild}
  BY BaseFacts DEF Device, Objects
<1>4. Bytes("config", from, n) \in Seq(Byte)
  <2> HIDE DEF from
  <2> QED BY <1>2, <1>3, BytesFacts
<1>5. RegistersInv(u) /\ u.fifo = r.fifo \o Bytes("config", from, n) /\ u.in /\ u.rx = r.rx
      /\ u.out = r.out /\ u.setupEnd = r.setupEnd
  <2> HIDE DEF last, from
  <2> QED BY <1>2, <1>4, SendFacts
<1>6. /\ w \in Device /\ Placed(w) /\ Base[w.section] + w.sectionOffset = from + n
      /\ w.off = s.off /\ w.remain = s.remain /\ Base[w.section] <= from + n
  BY <1>2, WalkFacts
<1> HIDE DEF w, last, u
<1>7. m = s.remain - n /\ m \in Nat
  <2>1. from + s.remain <= Base[NumSections] /\ s.remain \in Nat /\ Base[NumSections] \in Nat
    BY BaseFacts, SectionsType DEF CanTxConfig, Device
  <2>2. w.section \in 0..NumSections
    BY <1>6 DEF Device
  <2> HIDE DEF from
  <2>3. CASE w.section >= NumSections
    <3>1. w.section = NumSections
      BY <2>2, <2>3, SectionsType
    <3>2. Base[NumSections] <= from + n
      BY <1>6, <3>1
    <3> QED BY <1>2, <1>3, <2>1, <2>3, <3>2
  <2>4. CASE ~(w.section >= NumSections)
    BY <1>2, <2>1, <2>4
  <2> QED BY <2>3, <2>4
<1>8. o \in Nat
  BY <1>6, BaseFacts DEF Device
<1> HIDE DEF m, o
<1>9. /\ t \in Device /\ t.eEP0State = (IF last THEN "idle" ELSE "txconfig")
      /\ t.section = w.section /\ t.sectionOffset = w.sectionOffset /\ t.remain = m
  BY <1>6, <1>7, <1>8 DEF Device, States
<1> HIDE DEF t
<1>10. Placed(t)
  BY <1>6, <1>9 DEF Placed
<1>11. CanTxConfig(t)
  <2>1. from + s.remain <= Base[NumSections] /\ s.remain \in Nat /\ Base[NumSections] \in Nat
    BY BaseFacts, SectionsType DEF CanTxConfig, Device
  <2>2. from + n + m <= Base[NumSections]
    <3> HIDE DEF from
    <3> QED BY <1>2, <1>3, <1>7, <2>1
  <2> HIDE DEF from
  <2> QED BY <1>6, <1>9, <2>2 DEF CanTxConfig
<1>12. DeviceInv(t)
  BY <1>9, <1>10, <1>11 DEF DeviceInv
<1>13. Base[t.section] + t.sectionOffset = from + n
  BY <1>6, <1>9
<1>14. t.eEP0State = IF n < EP0_MAX_PACKET_SIZE THEN "idle" ELSE "txconfig"
  BY <1>2, <1>9
<1> HIDE DEF x, n
<1>15. TxConfigDone(s, r, x, n)
  BY <1>1, <1>5, <1>7, <1>9, <1>12, <1>13, <1>14 DEF TxConfigDone, from
<1> QED BY <1>15 DEF x, n

\* USBDEP0StateRx takes no more than was asked for.
LEMMA RxFacts ==
  ASSUME NEW s, DeviceInv(s), NEW r, RegistersInv(r),
         NEW x, x = USBDEP0StateRx(s, r)
  PROVE  /\ DeviceInv(x.dev) /\ RegistersInv(x.reg)
         /\ x.dev.eEP0State \in {"idle", "rx"} /\ x.reg.rx = {}
<1> DEFINE n == PacketSize(s)
           m == s.remain - n
           last == s.remain < EP0_MAX_PACKET_SIZE
           t == [s EXCEPT !.eEP0State = IF last THEN "idle" ELSE "rx", !.remain = m]
           u == DataAck([r EXCEPT !.rx = {}], last)
<1>1. x.dev = t /\ x.reg = u
  BY DEF USBDEP0StateRx
<1>2. m \in Nat /\ last \in BOOLEAN
  BY PacketFacts, UsbAssumption DEF DeviceInv, Device
<1> HIDE DEF m, last, n
<1>3. RegistersInv(u) /\ u.rx = {}
  BY <1>2, TakenFacts, AckFacts, ZenonT(60)
<1>4. /\ t \in Device /\ t.eEP0State \in {"idle", "rx"}
      /\ t.section = s.section /\ t.sectionOffset = s.sectionOffset
  BY <1>2 DEF DeviceInv, Device, States
<1> HIDE DEF t, u
<1>5. DeviceInv(t)
  BY <1>4 DEF DeviceInv, Placed
<1> QED BY <1>1, <1>3, <1>4, <1>5

\* A request for an object starts at its first byte, and asks for no more than it has.
LEMMA GetFacts ==
  ASSUME NEW s, DeviceInv(s), NEW q \in Requests, NEW n \in Sizes(q), NEW t, t = GetSetup(s, q, n)
  PROVE  /\ t \in Device /\ Placed(t) /\ CanTx(t)
         /\ t.obj = q.obj /\ t.off = 0 /\ (q.obj # Wild => t.remain = Total(q))
         /\ q.obj = "config" => CanTxConfig(t) /\ Base[t.section] + t.sectionOffset = 0
<1> DEFINE m == Limit(q, n)
           v == [s EXCEPT !.obj = q.obj, !.off = 0, !.remain = m]
           u == [v EXCEPT !.section = 0, !.sectionOffset = 0]
<1>1. t = IF q.obj = "config" THEN u ELSE v
  BY DEF GetSetup
<1>2. q.obj \in Objects \cup {Wild} /\ n \in Nat /\ (q.obj # Wild => n = Length[q.obj])
  BY RequestFacts, SizesFacts
<1>3. m \in Nat /\ m <= n /\ (q.obj # Wild => m = Total(q))
  BY <1>2, LimitFacts DEF Total
<1> HIDE DEF m
<1>4. /\ v \in Device /\ v.obj = q.obj /\ v.off = 0 /\ v.remain = m
      /\ v.section = s.section /\ v.sectionOffset = s.sectionOffset
  BY <1>2, <1>3 DEF DeviceInv, Device
<1> HIDE DEF v
<1>5. 0 \in 0..NumSections /\ 0 < Sections[1] /\ 0 + 1 = 1 /\ 0 \in Nat
  BY SectionsType
<1>6. /\ u \in Device /\ u.obj = q.obj /\ u.off = 0 /\ u.remain = m
      /\ u.section = 0 /\ u.sectionOffset = 0
  BY <1>4, <1>5 DEF Device
<1> HIDE DEF u
<1>7. Placed(v) /\ CanTx(v)
  BY <1>2, <1>3, <1>4 DEF DeviceInv, Placed, CanTx
<1>8. Placed(u) /\ CanTx(u)
  BY <1>2, <1>3, <1>5, <1>6 DEF Placed, CanTx
<1>9. q.obj = "config" => CanTxConfig(u) /\ Base[u.section] + u.sectionOffset = 0
  <2> SUFFICES ASSUME q.obj = "config"
               PROVE  CanTxConfig(u) /\ Base[u.section] + u.sectionOffset = 0
    OBVIOUS
  <2>1. n = Base[NumSections]
    BY <1>2, LengthFacts DEF Wild
  <2> QED BY <1>2, <1>3, <1>6, <2>1, BaseFacts DEF CanTxConfig
<1> QED BY <1>1, <1>3, <1>4, <1>6, <1>7, <1>8, <1>9

----------------------------------------------------------------------------
(* The data stage. *)

LEMMA TotalFacts ==
  ASSUME NEW q \in Requests, q.obj # Wild
  PROVE  /\ Total(q) \in Nat /\ q.obj \in Objects \cup {Null, Wild}
         /\ Total(q) <= q.len \/ Total(q) < EP0_MAX_PACKET_SIZE
<1>1. q.obj \in Objects /\ Length[q.obj] \in Nat
  BY RequestFacts, LengthFacts
<1>2. Total(q) \in Nat /\ Total(q) <= Length[q.obj] /\ (q.obj # "line" => Total(q) <= q.len)
  BY <1>1, LimitFacts DEF Total
<1> QED BY <1>1, <1>2, RequestFacts, LengthFacts, UsbAssumption

\* A packet with the next bytes of the object keeps the answer on its way.
LEMMA NextPacket ==
  ASSUME NEW q \in Requests, q.obj # Wild, NEW s \in Device, NEW got \in Seq(Byte),
         got = Bytes(q.obj, 0, Len(got)), s.remain = Total(q) - Len(got),
         NEW n, n = PacketSize(s), NEW t, NEW u, u \in Registers,
         u.in, u.fifo = Bytes(q.obj, Len(got), n), t.remain = s.remain - n,
         \/ /\ t.eEP0State = IF n < EP0_MAX_PACKET_SIZE THEN "idle" ELSE "tx"
            /\ t.obj = q.obj /\ q.obj # "config" /\ t.off = Len(got) + n
         \/ /\ t.eEP0State = IF n < EP0_MAX_PACKET_SIZE THEN "idle" ELSE "txconfig"
            /\ q.obj = "config" /\ Base[t.section] + t.sectionOffset = Len(got) + n
  PROVE  Progress(q, t, u, got)
<1> DEFINE a == Len(got)
<1>1. /\ n \in Nat /\ n <= s.remain /\ n <= EP0_MAX_PACKET_SIZE
      /\ n < EP0_MAX_PACKET_SIZE => n = s.remain
  BY PacketFacts
<1>2. a \in Nat /\ Total(q) \in Nat /\ q.obj \in Objects \cup {Null, Wild}
  BY TotalFacts
<1>3. Len(u.fifo) = n
  <2>1. Len(Bytes(q.obj, a, n)) = n
    <3> HIDE DEF a
    <3> QED BY <1>1, <1>2, BytesFacts
  <2> QED BY <2>1
<1>4. u.fifo = Bytes(q.obj, a, Len(u.fifo)) /\ Sent(u, got) = a + n
  BY <1>3 DEF Sent
<1> HIDE DEF a
<1>5. /\ a + n <= Total(q) /\ (n < EP0_MAX_PACKET_SIZE => a + n = Total(q))
      /\ t.remain = Total(q) - (a + n)
  BY <1>1, <1>2 DEF a
<1>6. t.eEP0State \in {"idle", "tx", "txconfig"} /\ (t.eEP0State = "idle" => n < EP0_MAX_PACKET_SIZE)
  OBVIOUS
<1>7. /\ t.eEP0State = "tx" => /\ t.obj = q.obj /\ q.obj # "config" /\ t.off = a + n
      /\ t.eEP0State = "txconfig" => q.obj = "config" /\ Base[t.section] + t.sectionOffset = a + n
  BY DEF a
<1>8. got = Bytes(q.obj, 0, Len(got)) /\ u.fifo = Bytes(q.obj, Len(got), Len(u.fifo))
  BY <1>4 DEF a
<1> QED BY <1>3, <1>4, <1>5, <1>6, <1>7, <1>8 DEF Progress

\* The next packet of a transfer, when the interrupt finds the FIFO empty.
LEMMA TxContinues ==
  ASSUME NEW s, DeviceInv(s), NEW r, RegistersInv(r), ~r.in, s.eEP0State = "tx",
         NEW q \in Requests, q.obj # Wild, NEW got \in Seq(Byte), Progress(q, s, r, got),
         NEW x, x = USBDEP0StateTx(s, r)
  PROVE  Progress(q, x.dev, x.reg, got)
<1> DEFINE n == PacketSize(s)
<1>1. s \in Device /\ Placed(s) /\ CanTx(s)
  BY DEF DeviceInv
<1>2. TxDone(s, r, x, n)
  BY <1>1, TxFacts
<1>3. r.fifo = <<>> /\ Sent(r, got) = Len(got)
  BY DEF RegistersInv, Sent
<1>4. /\ s.obj = q.obj /\ q.obj # "config" /\ s.off = Len(got) /\ s.remain = Total(q) - Len(got)
      /\ got = Bytes(q.obj, 0, Len(got))
  BY <1>3 DEF Progress
<1>5. Bytes(q.obj, Len(got), n) \in Seq(Byte)
  <2>1. n \in Nat /\ q.obj \in Objects \cup {Null, Wild} /\ Len(got) \in Nat
    BY <1>1, PacketFacts, TotalFacts
  <2> HIDE DEF n
  <2> QED BY <2>1, BytesFacts
<1>6. x.reg.fifo = Bytes(q.obj, Len(got), n)
  BY <1>2, <1>3, <1>4, <1>5 DEF TxDone
<1>7. x.reg \in Registers
  BY <1>2 DEF TxDone, RegistersInv
<1> HIDE DEF n
<1> QED BY <1>1, <1>2, <1>4, <1>6, <1>7, NextPacket DEF n, TxDone

LEMMA TxConfigContinues ==
  ASSUME NEW s, DeviceInv(s), NEW r, RegistersInv(r), ~r.in, s.eEP0State = "txconfig",
         NEW q \in Requests, q.obj # Wild, NEW got \in Seq(Byte), Progress(q, s, r, got),
         NEW x, x = USBDEP0StateTxConfig(s, r)
  PROVE  Progress(q, x.dev, x.reg, got)
<1> DEFINE n == PacketSize(s)
<1>1. s \in Device /\ Placed(s) /\ CanTxConfig(s)
  BY DEF DeviceInv
<1>2. TxConfigDone(s, r, x, n)
  BY <1>1, TxConfigFacts
<1>3. r.fifo = <<>> /\ Sent(r, got) = Len(got)
  BY DEF RegistersInv, Sent
<1>4. /\ q.obj = "config" /\ Base[s.section] + s.sectionOffset = Len(got)
      /\ s.remain = Total(q) - Len(got) /\ got = Bytes(q.obj, 0, Len(got))
  BY <1>3 DEF Progress
<1>5. Bytes(q.obj, Len(got), n) \in Seq(Byte)
  <2>1. n \in Nat /\ q.obj \in Objects \cup {Null, Wild} /\ Len(got) \in Nat
    BY <1>1, PacketFacts, TotalFacts
  <2> HIDE DEF n
  <2> QED BY <2>1, BytesFacts
<1>6. x.reg.fifo = Bytes(q.obj, Len(got), n)
  BY <1>2, <1>3, <1>4, <1>5 DEF TxConfigDone
<1>7. x.reg \in Registers
  BY <1>2 DEF TxConfigDone, RegistersInv
<1> HIDE DEF n
<1> QED BY <1>1, <1>2, <1>4, <1>6, <1>7, NextPacket DEF n, TxConfigDone

\* The first packet of the answer to a request for an object.
LEMMA DispatchGet ==
  ASSUME NEW s, DeviceInv(s), NEW r0, RegistersInv(r0), NEW q \in Requests, q.kind = "get",
         NEW k \in Sizes(q), NEW x, x = Dispatch(q, k, s, r0)
  PROVE  /\ DeviceInv(x.dev) /\ RegistersInv(x.reg) /\ x.reg.rx = {} /\ ~x.reg.out
         /\ x.reg.setupEnd = r0.setupEnd /\ x.dev.eEP0State # "rx"
         /\ ~r0.in /\ q.obj # Wild => Progress(q, x.dev, x.reg, <<>>)
<1> DEFINE r == DataAck([r0 EXCEPT !.rx = {}], FALSE)
           t == GetSetup(s, q, k)
           n == PacketSize(t)
<1>1. /\ t \in Device /\ Placed(t) /\ CanTx(t) /\ t.obj = q.obj /\ t.off = 0
      /\ q.obj # Wild => t.remain = Total(q)
      /\ q.obj = "config" => CanTxConfig(t) /\ Base[t.section] + t.sectionOffset = 0
  BY GetFacts
<1>2. RegistersInv(r) /\ r.rx = {} /\ ~r.out /\ r.setupEnd = r0.setupEnd /\ r.in = r0.in
      /\ (~r0.in => r.fifo = <<>>)
  <2> DEFINE z == [r0 EXCEPT !.rx = {}]
  <2>1. /\ RegistersInv(z) /\ z.rx = {} /\ z.in = r0.in /\ z.fifo = r0.fifo
        /\ z.setupEnd = r0.setupEnd
    BY TakenFacts
  <2> HIDE DEF z
  <2>2. /\ RegistersInv(DataAck(z, FALSE)) /\ DataAck(z, FALSE).rx = z.rx
        /\ DataAck(z, FALSE).in = z.in /\ DataAck(z, FALSE).fifo = z.fifo
        /\ DataAck(z, FALSE).setupEnd = z.setupEnd /\ ~DataAck(z, FALSE).out
    BY <2>1, AckFacts
  <2>3. ~r0.in => r0.fifo = <<>>
    BY DEF RegistersInv
  <2> QED BY <2>1, <2>2, <2>3 DEF z
<1>3. /\ q.obj = "config" => x = USBDEP0StateTxConfig(t, r)
      /\ q.obj # "config" => x = USBDEP0StateTx(t, r)
  BY Zenon DEF Dispatch
<1>4. /\ n \in Nat /\ Bytes(q.obj, 0, n) \in Seq(Byte) /\ <<>> \in Seq(Byte) /\ Len(<<>>) = 0
      /\ <<>> = Bytes(q.obj, 0, Len(<<>>)) /\ 0 + n = n
      /\ q.obj # Wild => Total(q) \in Nat /\ Total(q) - 0 = Total(q)
  <2>1. /\ n \in Nat /\ q.obj \in Objects \cup {Null, Wild}
        /\ q.obj # Wild => Total(q) \in Nat
    BY <1>1, PacketFacts, TotalFacts, RequestFacts
  <2> HIDE DEF n
  <2>2. Bytes(q.obj, 0, n) \in Seq(Byte) /\ Bytes(q.obj, 0, 0) = <<>>
    BY <2>1, BytesFacts, BytesNone
  <2> QED BY <2>1, <2>2
<1> HIDE DEF r, t
<1>5. CASE q.obj = "config"
  <2>1. TxConfigDone(t, r, x, n)
    BY <1>1, <1>2, <1>3, <1>5, TxConfigFacts
  <2> HIDE DEF n
  <2>2. ASSUME ~r0.in, q.obj # Wild PROVE Progress(q, x.dev, x.reg, <<>>)
    <3>1. x.reg.fifo = Bytes(q.obj, 0, n)
      <4>1. x.reg.fifo = r.fifo \o Bytes(q.obj, 0, n)
        BY <1>1, <1>5, <2>1 DEF TxConfigDone
      <4>2. r.fifo = <<>>
        BY <1>2, <2>2
      <4> QED BY <1>4, <4>1, <4>2
    <3>2. Base[x.dev.section] + x.dev.sectionOffset = Len(<<>>) + n /\ t.remain = Total(q) - Len(<<>>)
      BY <1>1, <1>4, <1>5, <2>1, <2>2 DEF TxConfigDone
    <3>3. x.reg.fifo = Bytes(q.obj, Len(<<>>), n) /\ x.reg \in Registers
      BY <1>4, <2>1, <3>1 DEF RegistersInv, TxConfigDone
    <3> QED BY <1>1, <1>4, <1>5, <2>1, <2>2, <3>2, <3>3, NextPacket DEF n, TxConfigDone
  <2>3. x.dev.eEP0State # "rx"
    BY <2>1 DEF TxConfigDone
  <2> QED BY <1>2, <2>1, <2>2, <2>3 DEF TxConfigDone
<1>6. CASE q.obj # "config"
  <2>1. TxDone(t, r, x, n)
    BY <1>1, <1>2, <1>3, <1>6, TxFacts
  <2> HIDE DEF n
  <2>2. ASSUME ~r0.in, q.obj # Wild PROVE Progress(q, x.dev, x.reg, <<>>)
    <3>1. x.reg.fifo = Bytes(q.obj, 0, n)
      <4>1. x.reg.fifo = r.fifo \o Bytes(q.obj, 0, n)
        BY <1>1, <1>6, <2>1 DEF TxDone
      <4>2. r.fifo = <<>>
        BY <1>2, <2>2
      <4> QED BY <1>4, <4>1, <4>2
    <3>2. x.dev.off = Len(<<>>) + n /\ t.remain = Total(q) - Len(<<>>) /\ x.dev.obj = q.obj
      BY <1>1, <1>4, <1>6, <2>1, <2>2 DEF TxDone
    <3>3. x.reg.fifo = Bytes(q.obj, Len(<<>>), n) /\ x.reg \in Registers
      BY <1>4, <2>1, <3>1 DEF RegistersInv, TxDone
    <3> QED BY <1>1, <1>4, <1>6, <2>1, <2>2, <3>2, <3>3, NextPacket DEF n, TxDone
  <2>3. x.dev.eEP0State # "rx"
    BY <2>1 DEF TxDone
  <2> QED BY <1>2, <2>1, <2>2, <2>3 DEF TxDone
<1> QED BY <1>5, <1>6

\* Every other request.
LEMMA DispatchOther ==
  ASSUME NEW s, DeviceInv(s), NEW r0, RegistersInv(r0), NEW q \in Requests, q.kind # "get",
         NEW k, NEW x, x = Dispatch(q, k, s, r0)
  PROVE  DeviceInv(x.dev) /\ RegistersInv(x.reg) /\ x.reg.rx = {}
<1> DEFINE r == [r0 EXCEPT !.rx = {}]
           idle == [s EXCEPT !.eEP0State = "idle"]
           rx == [s EXCEPT !.eEP0State = "rx", !.remain = q.len]
           null == [s EXCEPT !.eEP0State = "idle", !.obj = Null, !.off = 0, !.remain = 0]
           yes == DataAck(r, TRUE)
           no == DataAck(r, FALSE)
<1>1. RegistersInv(r) /\ r.rx = {}
  BY TakenFacts
<1>2. q.len \in Nat
  BY RequestFacts
<1>3. /\ idle \in Device /\ idle.eEP0State = "idle"
      /\ idle.section = s.section /\ idle.sectionOffset = s.sectionOffset
  BY DEF DeviceInv, Device, States
<1>4. /\ rx \in Device /\ rx.eEP0State = "rx"
      /\ rx.section = s.section /\ rx.sectionOffset = s.sectionOffset
  BY <1>2 DEF DeviceInv, Device, States
<1>5. /\ null \in Device /\ null.eEP0State = "idle"
      /\ null.section = s.section /\ null.sectionOffset = s.sectionOffset
  BY DEF DeviceInv, Device, States
<1>6. \/ q.kind = "set" /\ x = [dev |-> idle, reg |-> yes]
      \/ q.kind = "setline" /\ x = [dev |-> rx, reg |-> no]
      \/ q.kind = "none" /\ x = [dev |-> s, reg |-> r]
      \/ q.kind = "bad" /\ x = [dev |-> idle, reg |-> no]
      \/ q.kind = "badconfig" /\ x = [dev |-> null, reg |-> no]
  <2>1. q.kind \in {"set", "none", "bad", "badconfig", "setline"}
    BY RequestFacts
  <2> QED BY <2>1 DEF Dispatch
<1> HIDE DEF r, idle, rx, null
<1>7. DeviceInv(idle) /\ DeviceInv(rx) /\ DeviceInv(null)
  BY <1>3, <1>4, <1>5 DEF DeviceInv, Placed
<1>8. RegistersInv(yes) /\ yes.rx = {} /\ RegistersInv(no) /\ no.rx = {}
  BY <1>1, AckFacts
<1> HIDE DEF yes, no
<1>9. /\ x.dev = idle \/ x.dev = rx \/ x.dev = null \/ x.dev = s
      /\ x.reg = yes \/ x.reg = no \/ x.reg = r
  BY <1>6
<1> QED BY <1>1, <1>7, <1>8, <1>9
----------------------------------------------------------------------------
(* Every step keeps the invariant. *)

LEMMA InitInv == Init => Inv
<1> SUFFICES ASSUME Init PROVE Inv
  OBVIOUS
<1>1. 0 \in 0..NumSections /\ 0 < Sections[0 + 1]
  BY SectionsType
<1>2. d \in Device /\ d.eEP0State = "idle" /\ d.section = 0 /\ d.sectionOffset = 0
  BY <1>1 DEF Init, Device, States
<1>3. DeviceInv(d)
  <2>1. Placed(d)
    BY <1>1, <1>2 DEF Placed
  <2> QED BY <1>2, <2>1 DEF DeviceInv
<1>4. RegistersInv(csr) /\ csr.rx = {}
  BY EmptyRegisters DEF Init, NoRegisters
<1>5. h \in Host /\ h.st = "none"
  BY DEF Init, Host
<1>6. HostInv
  BY <1>5 DEF HostInv
<1>7. FlagsInv /\ ~served
  BY DEF Init, FlagsInv
<1> QED BY <1>3, <1>4, <1>6, <1>7 DEF Inv, DataStageInv, StatusStageInv

\* What the host and the pending interrupts know of the registers is kept when the
\* device takes the request or leaves it.
LEMMA HandlerKeeps ==
  ASSUME Inv, UNCHANGED <<irq, h>>, pend' = [ep0 |-> FALSE],
         DeviceInv(d'), RegistersInv(csr'), csr'.rx \in {{}, csr.rx}, dirty' \in BOOLEAN
  PROVE  /\ DeviceInv(d)' /\ RegistersInv(csr)' /\ HostInv'
         /\ served' \in BOOLEAN /\ (served' => ~irq.reset) => FlagsInv'
<1>1. HostInv'
  BY DEF Inv, HostInv
<1>2. ASSUME served' \in BOOLEAN, served' => ~irq.reset PROVE FlagsInv'
  BY <1>2 DEF Inv, FlagsInv
<1> QED BY <1>1, <1>2

\* A request is read.
LEMMA DispatchKeeps ==
  ASSUME Inv, pend.ep0, pend' = [ep0 |-> FALSE], UNCHANGED <<irq, h, dirty>>,
         ~csr.setupEnd, csr.out,
         NEW q \in IF csr.rx = {} THEN Requests ELSE csr.rx,
         NEW n \in Sizes(q), After(Dispatch(q, n, d, csr)),
         served' = (/\ csr.rx # {} /\ ~irq.ep0 /\ ~csr.in /\ h.got = <<>> /\ h.st # "statusout"
                    /\ q.kind \in {"get", "set", "setline"})
  PROVE  Inv'
<1> DEFINE x == Dispatch(q, n, d, csr)
<1>1. /\ DeviceInv(d) /\ RegistersInv(csr) /\ HostInv /\ FlagsInv /\ DataStageInv
      /\ StatusStageInv
  BY DEF Inv
<1>2. q \in Requests
  BY <1>1 DEF RegistersInv, Registers
<1>3. d' = x.dev /\ csr' = x.reg
  BY DEF After
<1>4. DeviceInv(x.dev) /\ RegistersInv(x.reg) /\ x.reg.rx = {}
  BY <1>1, <1>2, DispatchGet, DispatchOther
<1>5. DeviceInv(d') /\ RegistersInv(csr') /\ csr'.rx = {} /\ dirty' \in BOOLEAN
  BY <1>1, <1>3, <1>4 DEF FlagsInv
<1>6. served' \in BOOLEAN
  OBVIOUS
<1>7. served' => ~irq.reset
  BY <1>1 DEF FlagsInv
<1>8. DeviceInv(d)' /\ RegistersInv(csr)' /\ HostInv' /\ FlagsInv'
  BY <1>5, <1>6, <1>7, HandlerKeeps
<1>9. DataStageInv'
  <2> SUFFICES ASSUME served', h.st = "in"
               PROVE  /\ ~csr'.setupEnd /\ csr'.rx = {} /\ ~csr'.out /\ d'.eEP0State # "rx"
                      /\ csr'.in => ~irq'.ep0 /\ ~pend'.ep0
                      /\ ~(irq'.ep0 /\ pend'.ep0)
                      /\ \A p \in h'.req : p.obj # Wild => Progress(p, d', csr', h'.got)
    BY DEF DataStageInv
  <2>1. csr.rx # {} /\ ~irq.ep0 /\ ~csr.in /\ h.got = <<>> /\ h.req = csr.rx
    BY <1>1 DEF HostInv
  <2>2. h.req = {q} /\ q.kind = "get"
    BY <1>1, <2>1 DEF HostInv, RegistersInv
  <2>3. /\ ~x.reg.out /\ x.reg.setupEnd = csr.setupEnd /\ x.dev.eEP0State # "rx"
        /\ q.obj # Wild => Progress(q, x.dev, x.reg, <<>>)
    BY <1>1, <1>2, <2>1, <2>2, DispatchGet
  <2> QED BY <1>3, <1>4, <2>1, <2>2, <2>3
<1>10. StatusStageInv'
  BY DEF StatusStageInv
<1> QED BY <1>8, <1>9, <1>10 DEF Inv

\* The next packet is sent.
LEMMA TxKeeps ==
  ASSUME Inv, pend.ep0, pend' = [ep0 |-> FALSE], UNCHANGED <<irq, h, dirty, served>>,
         ~csr.setupEnd,
         \/ d.eEP0State = "tx" /\ After(USBDEP0StateTx(d, csr))
         \/ d.eEP0State = "txconfig" /\ After(USBDEP0StateTxConfig(d, csr))
  PROVE  Inv'
<1>1. /\ DeviceInv(d) /\ RegistersInv(csr) /\ HostInv /\ FlagsInv /\ DataStageInv
      /\ StatusStageInv
  BY DEF Inv
<1>2. /\ DeviceInv(d') /\ RegistersInv(csr') /\ csr'.rx = csr.rx
      /\ csr'.out = csr.out /\ csr'.setupEnd = csr.setupEnd /\ d'.eEP0State # "rx"
  <2>1. d \in Device /\ Placed(d)
    BY <1>1 DEF DeviceInv
  <2>2. CASE d.eEP0State = "tx" /\ After(USBDEP0StateTx(d, csr))
    <3>1. TxDone(d, csr, USBDEP0StateTx(d, csr), PacketSize(d))
      BY <1>1, <2>1, <2>2, TxFacts DEF DeviceInv
    <3> QED BY <2>2, <3>1 DEF TxDone, After
  <2>3. CASE d.eEP0State = "txconfig" /\ After(USBDEP0StateTxConfig(d, csr))
    <3>1. TxConfigDone(d, csr, USBDEP0StateTxConfig(d, csr), PacketSize(d))
      BY <1>1, <2>1, <2>3, TxConfigFacts DEF DeviceInv
    <3> QED BY <2>3, <3>1 DEF TxConfigDone, After
  <2> QED BY <2>2, <2>3
<1>3. DeviceInv(d)' /\ RegistersInv(csr)' /\ HostInv' /\ FlagsInv'
  BY <1>1, <1>2, HandlerKeeps DEF FlagsInv
<1>4. DataStageInv'
  <2> SUFFICES ASSUME served, h.st = "in"
               PROVE  /\ ~csr'.setupEnd /\ csr'.rx = {} /\ ~csr'.out /\ d'.eEP0State # "rx"
                      /\ csr'.in => ~irq'.ep0 /\ ~pend'.ep0
                      /\ ~(irq'.ep0 /\ pend'.ep0)
                      /\ \A p \in h'.req : p.obj # Wild => Progress(p, d', csr', h'.got)
    BY DEF DataStageInv
  <2>1. /\ csr.rx = {} /\ ~csr.out /\ ~csr.in /\ ~irq.ep0
        /\ \A p \in h.req : p.obj # Wild => Progress(p, d, csr, h.got)
    BY <1>1 DEF DataStageInv
  <2>2. h.got \in Seq(Byte) /\ h.req \in SUBSET Requests
    BY <1>1 DEF HostInv, Host
  <2>3. ASSUME NEW p \in h.req, p.obj # Wild PROVE Progress(p, d', csr', h.got)
    <3>1. p \in Requests /\ Progress(p, d, csr, h.got)
      BY <2>1, <2>2, <2>3
    <3>2. CASE d.eEP0State = "tx" /\ After(USBDEP0StateTx(d, csr))
      BY <1>1, <2>1, <2>2, <2>3, <3>1, <3>2, TxContinues DEF After
    <3>3. CASE d.eEP0State = "txconfig" /\ After(USBDEP0StateTxConfig(d, csr))
      BY <1>1, <2>1, <2>2, <2>3, <3>1, <3>3, TxConfigContinues DEF After
    <3> QED BY <3>2, <3>3
  <2> QED BY <1>2, <2>1, <2>3
<1>5. StatusStageInv'
  BY <1>1 DEF StatusStageInv
<1> QED BY <1>3, <1>4, <1>5 DEF Inv

LEMMA RunEp0Inv == Inv /\ RunEp0 => Inv'
<1> SUFFICES ASSUME Inv, RunEp0 PROVE Inv'
  OBVIOUS
<1>1. /\ DeviceInv(d) /\ RegistersInv(csr) /\ HostInv /\ FlagsInv /\ DataStageInv
      /\ StatusStageInv
  BY DEF Inv
<1>2. pend.ep0 /\ pend' = [ep0 |-> FALSE] /\ Ep0Handler /\ UNCHANGED <<irq, h>>
  BY DEF RunEp0
\* The transfer was broken off: whatever was read undisturbed is over.
<1>3. CASE /\ csr.setupEnd
           /\ d' = [d EXCEPT !.eEP0State = "idle"]
           /\ csr' = [csr EXCEPT !.setupEnd = FALSE, !.out = FALSE, !.rx = {}]
           /\ UNCHANGED <<dirty, served>>
  <2>1. d' \in Device /\ d'.eEP0State = "idle" /\ d'.section = d.section
        /\ d'.sectionOffset = d.sectionOffset
    BY <1>1, <1>3 DEF DeviceInv, Device, States
  <2>2. DeviceInv(d')
    BY <1>1, <2>1 DEF DeviceInv, Placed
  <2>3. RegistersInv(csr') /\ csr'.rx = {}
    BY <1>1, <1>3 DEF RegistersInv, Registers
  <2>4. DeviceInv(d)' /\ RegistersInv(csr)' /\ HostInv' /\ FlagsInv'
    BY <1>1, <1>2, <1>3, <2>2, <2>3, HandlerKeeps DEF FlagsInv
  <2>5. DataStageInv' /\ StatusStageInv'
    BY <1>1, <1>2, <1>3 DEF DataStageInv, StatusStageInv
  <2> QED BY <2>4, <2>5 DEF Inv
<1>4. CASE /\ ~csr.setupEnd /\ d.eEP0State = "idle" /\ csr.out
           /\ \E q \in IF csr.rx = {} THEN Requests ELSE csr.rx :
                /\ \E n \in Sizes(q) : After(Dispatch(q, n, d, csr))
                /\ served' = (/\ csr.rx # {} /\ ~irq.ep0 /\ ~csr.in /\ h.got = <<>>
                              /\ h.st # "statusout" /\ q.kind \in {"get", "set", "setline"})
           /\ UNCHANGED dirty
  <2>1. PICK q \in IF csr.rx = {} THEN Requests ELSE csr.rx :
               /\ \E n \in Sizes(q) : After(Dispatch(q, n, d, csr))
               /\ served' = (/\ csr.rx # {} /\ ~irq.ep0 /\ ~csr.in /\ h.got = <<>>
                             /\ h.st # "statusout" /\ q.kind \in {"get", "set", "setline"})
    BY <1>4
  <2>2. PICK n \in Sizes(q) : After(Dispatch(q, n, d, csr))
    BY <2>1
  <2> QED BY <1>2, <1>4, <2>1, <2>2, DispatchKeeps
<1>5. CASE ~csr.setupEnd /\ UNCHANGED <<d, csr, dirty, served>>
  <2>1. DeviceInv(d)' /\ RegistersInv(csr)' /\ HostInv' /\ FlagsInv'
    BY <1>1, <1>2, <1>5, HandlerKeeps DEF FlagsInv
  <2>2. DataStageInv' /\ StatusStageInv'
    BY <1>1, <1>2, <1>5 DEF DataStageInv, StatusStageInv
  <2> QED BY <2>1, <2>2 DEF Inv
<1>6. CASE /\ ~csr.setupEnd /\ UNCHANGED <<dirty, served>>
           /\ \/ d.eEP0State = "tx" /\ After(USBDEP0StateTx(d, csr))
              \/ d.eEP0State = "txconfig" /\ After(USBDEP0StateTxConfig(d, csr))
  BY <1>2, <1>6, TxKeeps
<1>7. CASE /\ ~csr.setupEnd /\ d.eEP0State = "rx"
           /\ After(USBDEP0StateRx(d, csr))
           /\ dirty' = TRUE
           /\ UNCHANGED served
  <2>1. DeviceInv(d') /\ RegistersInv(csr') /\ csr'.rx = {}
    BY <1>1, <1>7, RxFacts DEF After
  <2>2. DeviceInv(d)' /\ RegistersInv(csr)' /\ HostInv' /\ FlagsInv'
    BY <1>1, <1>2, <1>7, <2>1, HandlerKeeps DEF FlagsInv
  <2>3. ~(served /\ h.st = "in")
    BY <1>1, <1>7 DEF DataStageInv
  <2>4. DataStageInv' /\ StatusStageInv'
    BY <1>1, <1>2, <1>7, <2>3 DEF DataStageInv, StatusStageInv
  <2> QED BY <2>2, <2>4 DEF Inv
<1> QED BY <1>2, <1>3, <1>4, <1>5, <1>6, <1>7 DEF Ep0Handler

LEMMA EnterIsrInv == Inv /\ EnterIsr => Inv'
<1> SUFFICES ASSUME Inv, EnterIsr PROVE Inv'
  OBVIOUS
<1>1. /\ DeviceInv(d) /\ RegistersInv(csr) /\ HostInv /\ FlagsInv /\ DataStageInv
      /\ StatusStageInv
  BY DEF Inv
<1>2. /\ ~pend.ep0 /\ irq' = [ep0 |-> FALSE, reset |-> FALSE]
      /\ pend' \in [ep0 : BOOLEAN] /\ UNCHANGED <<d, dirty, h, served>>
  <2>1. PICK seen \in {irq.ep0} \cup (IF irq.reset THEN {FALSE} ELSE {}) : pend' = [ep0 |-> seen]
    BY DEF EnterIsr
  <2>2. irq.ep0 \in BOOLEAN
    BY <1>1 DEF FlagsInv
  <2>3. seen = irq.ep0 \/ seen = FALSE
    OBVIOUS
  <2>4. seen \in BOOLEAN
    BY <2>2, <2>3, Zenon
  <2> QED BY <2>1, <2>4 DEF EnterIsr
<1>3. RegistersInv(csr') /\ (csr'.rx = {} \/ csr'.rx = csr.rx)
  <2>1. CASE irq.reset
    BY <1>1, <2>1 DEF EnterIsr, RegistersInv, Registers
  <2>2. CASE ~irq.reset
    BY <1>1, <2>2 DEF EnterIsr
  <2> QED BY <2>1, <2>2
<1>4. HostInv'
  BY <1>1, <1>2, <1>3 DEF HostInv
<1>5. FlagsInv'
  BY <1>1, <1>2 DEF FlagsInv
<1>6. DataStageInv'
  <2> SUFFICES ASSUME served, h.st = "in" PROVE DataStageInv'
    BY <1>2 DEF DataStageInv
  <2>1. ~irq.reset
    BY <1>1 DEF FlagsInv
  <2>2. csr' = csr /\ pend' = [ep0 |-> irq.ep0]
    BY <2>1 DEF EnterIsr
  <2>3. csr.in => ~irq.ep0
    BY <1>1 DEF DataStageInv
  <2> QED BY <1>1, <1>2, <2>2, <2>3 DEF DataStageInv
<1>7. StatusStageInv'
  BY <1>1, <1>2 DEF StatusStageInv
<1> QED BY <1>1, <1>2, <1>3, <1>4, <1>5, <1>6, <1>7 DEF Inv

LEMMA HostSetupInv ==
  ASSUME Inv, NEW q \in Requests, HostSetup(q)
  PROVE  Inv'
<1>1. DeviceInv(d) /\ RegistersInv(csr) /\ HostInv /\ FlagsInv
  BY DEF Inv
<1>2. /\ h'.st \in {"in", "out", "statusin"} /\ h'.got = <<>> /\ h'.req = {q}
      /\ (h'.st = "in" => q.kind = "get") /\ h' \in Host
  <2> DEFINE st == CASE q.kind = "get" -> "in" [] q.kind = "setline" -> "out" [] OTHER -> "statusin"
  <2>1. st \in {"in", "out", "statusin"} /\ (st = "in" => q.kind = "get")
    OBVIOUS
  <2>2. h' = [st |-> st, got |-> <<>>, req |-> {q}]
    BY Zenon DEF HostSetup
  <2> HIDE DEF st
  <2> QED BY <2>1, <2>2 DEF Host
<1>3. /\ RegistersInv(csr') /\ csr'.rx = {q}
  <2> DEFINE e == csr.setupEnd \/ (csr.open /\ ~csr.end)
  <2>1. e \in BOOLEAN
    OBVIOUS
  <2>2. csr' = [NoRegisters EXCEPT !.out = TRUE, !.rx = {q}, !.open = TRUE, !.setupEnd = e]
    BY DEF HostSetup
  <2> HIDE DEF e
  <2>3. csr' = [out |-> TRUE, rx |-> {q}, in |-> FALSE, fifo |-> <<>>,
                end |-> FALSE, setupEnd |-> e, open |-> TRUE]
    BY <2>2 DEF NoRegisters
  <2>4. csr' \in Registers /\ csr'.rx = {q} /\ csr'.fifo = <<>>
    BY <2>1, <2>3 DEF Registers
  <2> QED BY <2>4 DEF RegistersInv
<1>4. ~served' /\ served' \in BOOLEAN /\ irq' = [irq EXCEPT !.ep0 = TRUE] /\ UNCHANGED <<d, pend, dirty>>
  BY DEF HostSetup, Raise
<1>5. HostInv'
  BY <1>2, <1>3 DEF HostInv
<1>6. FlagsInv'
  BY <1>1, <1>4 DEF FlagsInv
<1>7. DataStageInv' /\ StatusStageInv'
  BY <1>4 DEF DataStageInv, StatusStageInv
<1> QED BY <1>1, <1>3, <1>4, <1>5, <1>6, <1>7 DEF Inv

\* The host takes a packet: it goes on, or has the whole object.
LEMMA HostInInv == Inv /\ HostIn => Inv'
<1> SUFFICES ASSUME Inv, HostIn PROVE Inv'
  OBVIOUS
<1>1. /\ DeviceInv(d) /\ RegistersInv(csr) /\ HostInv /\ FlagsInv /\ DataStageInv
      /\ StatusStageInv
  BY DEF Inv
<1> DEFINE all == h.got \o csr.fifo
           done == \/ Len(csr.fifo) < EP0_MAX_PACKET_SIZE
                   \/ \E q \in h.req : Len(all) >= q.len
<1>2. /\ h.st = "in" /\ csr.in /\ csr' = [csr EXCEPT !.in = FALSE, !.fifo = <<>>]
      /\ irq' = [irq EXCEPT !.ep0 = TRUE] /\ UNCHANGED <<d, pend, dirty, served>>
  BY DEF HostIn, Raise
<1>3. h' = [h EXCEPT !.got = all, !.st = IF done THEN "statusout" ELSE "in"]
  BY DEF HostIn
<1>4. h.got \in Seq(Byte) /\ csr.fifo \in Seq(Byte)
  BY <1>1 DEF HostInv, Host, RegistersInv, Registers
<1> DEFINE none == <<>>
<1>0. none \in Seq(Byte) /\ none = <<>> /\ Len(none) = 0
  OBVIOUS
<1>5. PICK q \in Requests : h.req = {q} /\ q.kind = "get"
  BY <1>1, <1>2 DEF HostInv
<1>6. /\ all \in Seq(Byte) /\ Len(all) = Len(h.got) + Len(csr.fifo)
      /\ Len(all) \in Nat /\ Len(h.got) \in Nat /\ Len(csr.fifo) \in Nat
  <2>1. all \in Seq(Byte) /\ Len(all) = Len(h.got) + Len(csr.fifo)
    BY <1>4
  <2> HIDE DEF all
  <2> QED BY <1>4, <2>1, LenProperties, Zenon
<1>7. done <=> Len(csr.fifo) < EP0_MAX_PACKET_SIZE \/ Len(all) >= q.len
  BY <1>5
<1> HIDE DEF all, done, none
<1>8. /\ h' \in Host /\ h'.got = all /\ h'.req = {q}
      /\ h'.st = (IF done THEN "statusout" ELSE "in")
  BY <1>1, <1>3, <1>5, <1>6 DEF HostInv, Host
<1>9. /\ RegistersInv(csr') /\ csr'.rx = csr.rx /\ csr'.fifo = <<>> /\ ~csr'.in
      /\ csr'.out = csr.out /\ csr'.setupEnd = csr.setupEnd
  <2>1. /\ csr' \in Registers /\ csr'.rx = csr.rx /\ csr'.fifo = <<>> /\ ~csr'.in
        /\ csr'.out = csr.out /\ csr'.setupEnd = csr.setupEnd
    <3>1. csr' = [csr EXCEPT !.in = FALSE, !.fifo = none]
      BY <1>2, <1>0
    <3>2. csr \in Registers
      BY <1>1 DEF RegistersInv
    <3>3. /\ csr' \in Registers /\ csr'.rx = csr.rx /\ csr'.fifo = none /\ ~csr'.in
          /\ csr'.out = csr.out /\ csr'.setupEnd = csr.setupEnd
      BY <3>1, <3>2, <1>0 DEF Registers
    <3> QED BY <3>3, <1>0
  <2> QED BY <1>1, <2>1 DEF RegistersInv
<1>10. HostInv'
  BY <1>1, <1>2, <1>5, <1>8, <1>9 DEF HostInv
<1>11. FlagsInv'
  BY <1>1, <1>2, <1>9 DEF FlagsInv
<1>12. ASSUME served, q.obj # Wild
       PROVE  /\ Progress(q, d, csr, h.got) /\ all = Bytes(q.obj, 0, Len(all))
              /\ Len(all) <= Total(q) /\ (done => Len(all) = Total(q))
              /\ Sent(csr, h.got) = Len(all)
  <2>1. Progress(q, d, csr, h.got)
    BY <1>1, <1>2, <1>5, <1>12 DEF DataStageInv
  <2>2. Sent(csr, h.got) = Len(all) /\ Len(all) \in Nat /\ Len(h.got) \in Nat /\ Len(csr.fifo) \in Nat
    BY <1>6 DEF Sent
  <2>3. Len(all) <= Total(q) /\ (Len(csr.fifo) < EP0_MAX_PACKET_SIZE => Len(all) = Total(q))
    BY <1>2, <2>1, <2>2 DEF Progress
  <2>4. done => Len(all) = Total(q)
    <3>1. /\ Total(q) \in Nat /\ q.len \in Nat /\ EP0_MAX_PACKET_SIZE \in Nat
          /\ Total(q) <= q.len \/ Total(q) < EP0_MAX_PACKET_SIZE
      BY <1>12, TotalFacts, RequestFacts, UsbAssumption
    <3>2. Len(csr.fifo) <= Len(all)
      <4> DEFINE a == Len(h.got)
                 b == Len(csr.fifo)
                 c == Len(all)
      <4>1. a \in Nat /\ b \in Nat /\ c = a + b
        BY <1>6
      <4> HIDE DEF a, b, c
      <4>2. b <= c
        BY <4>1
      <4> QED BY <4>2 DEF b, c
    <3> QED BY <1>7, <2>2, <2>3, <3>1, <3>2
  <2>5. h.got = Bytes(q.obj, 0, Len(h.got)) /\ csr.fifo = Bytes(q.obj, Len(h.got), Len(csr.fifo))
    BY <2>1 DEF Progress
  <2>6. all = Bytes(q.obj, 0, Len(h.got)) \o Bytes(q.obj, Len(h.got), Len(csr.fifo))
    BY <2>5 DEF all
  <2>7. all = Bytes(q.obj, 0, Len(h.got) + Len(csr.fifo))
    BY <1>12, <2>2, <2>6, TotalFacts, BytesJoin
  <2> QED BY <1>6, <2>1, <2>2, <2>3, <2>4, <2>7
<1>13. DataStageInv'
  <2> SUFFICES ASSUME served, ~done
               PROVE  /\ ~csr'.setupEnd /\ csr'.rx = {} /\ ~csr'.out /\ d'.eEP0State # "rx"
                      /\ csr'.in => ~irq'.ep0 /\ ~pend'.ep0
                      /\ ~(irq'.ep0 /\ pend'.ep0)
                      /\ \A p \in h'.req : p.obj # Wild => Progress(p, d', csr', h'.got)
    BY <1>2, <1>8 DEF DataStageInv
  <2>1. ~csr.setupEnd /\ csr.rx = {} /\ ~csr.out /\ ~pend.ep0 /\ d.eEP0State # "rx"
    BY <1>1, <1>2 DEF DataStageInv
  <2>2. ASSUME q.obj # Wild PROVE Progress(q, d, csr', all)
    <3>1. /\ Progress(q, d, csr, h.got) /\ all = Bytes(q.obj, 0, Len(all))
          /\ Len(all) <= Total(q) /\ Sent(csr, h.got) = Len(all)
      BY <1>12, <2>2
    <3>2. Len(csr'.fifo) = 0 /\ Len(all) \in Nat
      BY <1>6, <1>9, <1>0
    <3>3. Bytes(q.obj, Len(all), 0) = <<>>
      BY <2>2, <3>2, TotalFacts, BytesNone
    <3>4. csr'.fifo = Bytes(q.obj, Len(all), Len(csr'.fifo)) /\ Sent(csr', all) = Len(all)
      BY <1>9, <3>2, <3>3 DEF Sent
    <3> QED BY <1>9, <3>1, <3>4 DEF Progress
  <2> QED BY <1>2, <1>8, <1>9, <2>1, <2>2
<1>14. StatusStageInv'
  BY <1>2, <1>8, <1>12 DEF StatusStageInv
<1> QED BY <1>1, <1>2, <1>9, <1>10, <1>11, <1>13, <1>14 DEF Inv

LEMMA HostOutInv == Inv /\ HostOut => Inv'
<1> SUFFICES ASSUME Inv, HostOut PROVE Inv'
  OBVIOUS
<1>1. DeviceInv(d) /\ RegistersInv(csr) /\ HostInv /\ FlagsInv
  BY DEF Inv
<1>2. /\ h.st = "out" /\ csr' = [csr EXCEPT !.out = TRUE] /\ h' = [h EXCEPT !.st = "statusin"]
      /\ irq' = [irq EXCEPT !.ep0 = TRUE] /\ UNCHANGED <<d, pend, dirty, served>>
  BY DEF HostOut, Raise
<1>3. RegistersInv(csr') /\ csr'.rx = csr.rx
  BY <1>1, <1>2 DEF RegistersInv, Registers
<1>4. h' \in Host /\ h'.st = "statusin" /\ h'.req = h.req
  BY <1>1, <1>2 DEF HostInv, Host
<1>5. HostInv'
  BY <1>1, <1>2, <1>3, <1>4 DEF HostInv
<1>6. FlagsInv'
  BY <1>1, <1>2, <1>3 DEF FlagsInv
<1>7. DataStageInv' /\ StatusStageInv'
  BY <1>4 DEF DataStageInv, StatusStageInv
<1> QED BY <1>1, <1>2, <1>3, <1>5, <1>6, <1>7 DEF Inv

LEMMA HostStatusInv == Inv /\ HostStatus => Inv'
<1> SUFFICES ASSUME Inv, HostStatus PROVE Inv'
  OBVIOUS
<1>1. DeviceInv(d) /\ RegistersInv(csr) /\ HostInv /\ FlagsInv
  BY DEF Inv
<1> DEFINE e == csr.setupEnd \/ ~csr.end
<1>2. /\ h' = [st |-> "none", got |-> <<>>, req |-> {}]
      /\ csr' = [csr EXCEPT !.end = FALSE, !.open = FALSE, !.in = FALSE, !.fifo = <<>>, !.setupEnd = e]
      /\ irq' = [irq EXCEPT !.ep0 = TRUE] /\ UNCHANGED <<d, pend, dirty, served>>
  BY DEF HostStatus, Raise
<1>3. e \in BOOLEAN
  OBVIOUS
<1> HIDE DEF e
<1>4. csr' \in Registers /\ csr'.rx = csr.rx /\ csr'.fifo = <<>>
  <2> DEFINE none == <<>>
  <2>1. none \in Seq(Byte)
    OBVIOUS
  <2>2. csr' = [csr EXCEPT !.end = FALSE, !.open = FALSE, !.in = FALSE, !.fifo = none, !.setupEnd = e]
    BY <1>2
  <2>3. csr \in Registers
    BY <1>1 DEF RegistersInv
  <2> HIDE DEF none
  <2>4. csr' \in Registers /\ csr'.rx = csr.rx /\ csr'.fifo = none
    BY <1>3, <2>1, <2>2, <2>3 DEF Registers
  <2> QED BY <2>4 DEF none
<1>5. RegistersInv(csr')
  BY <1>1, <1>4 DEF RegistersInv
<1>6. h' \in Host /\ h'.st = "none"
  BY <1>2 DEF Host
<1>7. HostInv'
  BY <1>6 DEF HostInv
<1>8. FlagsInv'
  BY <1>1, <1>2, <1>4 DEF FlagsInv
<1>9. DataStageInv' /\ StatusStageInv'
  BY <1>6 DEF DataStageInv, StatusStageInv
<1> QED BY <1>1, <1>2, <1>5, <1>7, <1>8, <1>9 DEF Inv

LEMMA HostResetInv == Inv /\ HostReset => Inv'
<1> SUFFICES ASSUME Inv, HostReset PROVE Inv'
  OBVIOUS
<1>1. DeviceInv(d) /\ FlagsInv
  BY DEF Inv
<1>2. /\ h' = [st |-> "none", got |-> <<>>, req |-> {}] /\ csr' = NoRegisters
      /\ irq' = [irq EXCEPT !.reset = TRUE] /\ ~served' /\ served' \in BOOLEAN
      /\ UNCHANGED <<d, pend, dirty>>
  BY DEF HostReset
<1>3. RegistersInv(csr') /\ csr'.rx = {}
  BY <1>2, EmptyRegisters DEF NoRegisters
<1>4. h' \in Host /\ h'.st = "none"
  BY <1>2 DEF Host
<1>5. HostInv' /\ DataStageInv' /\ StatusStageInv'
  BY <1>4 DEF HostInv, DataStageInv, StatusStageInv
<1>6. FlagsInv'
  BY <1>1, <1>2, <1>3 DEF FlagsInv
<1> QED BY <1>1, <1>2, <1>3, <1>5, <1>6 DEF Inv

LEMMA StutterInv == Inv /\ UNCHANGED vars => Inv'
<1> SUFFICES ASSUME Inv, UNCHANGED vars PROVE Inv'
  OBVIOUS
<1>1. UNCHANGED <<d, csr, irq, pend, dirty, h, served>>
  BY DEF vars
<1> QED BY <1>1 DEF Inv, HostInv, FlagsInv, DataStageInv, StatusStageInv

LEMMA NextInv == Inv /\ [Next]_vars => Inv'
BY EnterIsrInv, RunEp0Inv, HostSetupInv, HostInInv, HostOutInv, HostStatusInv, HostResetInv,
   StutterInv DEF Next, Isr

LEMMA AlwaysInv == Spec => []Inv
BY InitInv, NextInv, PTL DEF Spec
----------------------------------------------------------------------------
(* The theorems. *)

LEMMA AtMostOne ==
  ASSUME RegistersInv(csr)
  PROVE  Cardinality(csr.rx) <= 1
<1>1. CASE csr.rx = {}
  BY <1>1, FS_EmptySet
<1>2. CASE \E q \in Requests : csr.rx = {q}
  <2>1. PICK q \in Requests : csr.rx = {q}
    BY <1>2
  <2>2. Cardinality({q}) = 1
    BY FS_Singleton, Zenon
  <2> QED BY <2>1, <2>2
<1> QED BY <1>1, <1>2 DEF RegistersInv

(* Every value has its type; the place that USBDEP0StateTxConfig resumes   *)
(* from always lies in a section or behind the last, and the FIFO never    *)
(* holds two requests.                                                     *)
THEOREM TypeCorrect == Spec => []TypeOK
<1>1. Inv => TypeOK
  <2> SUFFICES ASSUME Inv PROVE TypeOK
    OBVIOUS
  <2>1. DeviceInv(d) /\ RegistersInv(csr) /\ HostInv /\ FlagsInv
    BY DEF Inv
  <2>2. csr.rx \subseteq Requests
    BY <2>1 DEF RegistersInv, Registers
  <2>3. h.st \in {"none", "in", "out", "statusin", "statusout"}
    BY <2>1 DEF HostInv, Host
  <2> QED BY <2>1, <2>2, <2>3, AtMostOne DEF TypeOK, DeviceInv, Device, States, Placed, FlagsInv
<1> QED BY <1>1, AlwaysInv, PTL

(* USBDEP0StateTx and USBDEP0StateTxConfig never go beyond an object of    *)
(* the device's tables, for any packet size and any division into          *)
(* sections.  A string index behind the table, which the code follows, is  *)
(* no such object: of it the theorem says nothing.                         *)
THEOREM NeverBehindObject == Spec => []StaysInside
<1>1. Inv => StaysInside
  BY DEF Inv, DeviceInv, CanTx, CanTxConfig, StaysInside
<1> QED BY <1>1, AlwaysInv, PTL

(* The data stage of a request that USBDReadAndDispatchRequest read        *)
(* undisturbed ends with the bytes of the object asked for, if there is    *)
(* one, whatever transfer eEP0State, pEP0Data and ucConfigSection were     *)
(* left in before.                                                         *)
THEOREM AnswerIsRight == Spec => []DataRight
<1>1. Inv => DataRight
  BY DEF Inv, StatusStageInv, DataRight, Total
<1> QED BY <1>1, AlwaysInv, PTL
=============================================================================
