---------------------------- MODULE RnicTxSteps -----------------------------
(***************************************************************************)
(* The steps of the transmit pipeline, whoever takes them and for every    *)
(* value of its constants: the types of its state, where a packet can be,  *)
(* the order of the attempts on the wire, and what the work queue has been *)
(* told of them.                                                           *)
(***************************************************************************)
EXTENDS RnicTxPipeline, FiniteSetTheorems, WellFoundedInduction, TLAPS

-----------------------------------------------------------------------------
(* Sequence numbers and the operators of the model. *)

\* A sequence number is a natural below the modulus.
LEMMA PsnType ==
    ASSUME NEW k \in Packet
    PROVE  Psn(k) \in 0 .. PsnModulus - 1
BY PsnAssumption, ConfigAssumption DEF Psn, PsnAfter, Packet

\* A map of packets keyed by sequence number has a first entry.
LEMMA LowestPsnProperty ==
    ASSUME NEW S \in SUBSET Packet, S # {}
    PROVE  /\ LowestPsn(S) \in S
           /\ \A j \in S : Psn(LowestPsn(S)) =< Psn(j)
<1> DEFINE T == {Psn(k) : k \in S}
<1>1. T \subseteq Nat /\ T # {}
  BY PsnType, PsnAssumption
<1>2. OpToRel(<, Nat) = {ss \in Nat \X Nat : ss[1] < ss[2]}
  BY Zenon DEF OpToRel
<1>3. \E x \in T : \A y \in T : x =< y
  <2> DEFINE R == OpToRel(<, Nat)
  <2> HIDE DEF T
  <2>1. \A x, y \in Nat : x < y => <<x, y>> \in R
    BY <1>2, Zenon
  <2>2. IsWellFoundedOn(R, Nat)
    BY NatLessThanWellFounded, Zenon
  <2> HIDE DEF R
  <2>3. PICK x \in T : \A y \in T : ~(<<y, x>> \in R)
    BY <1>1, <2>2, WFMin, Zenon
  <2>4. \A y \in T : ~(y < x)
    BY <1>1, <2>1, <2>3, Zenon
  <2> QED BY <1>1, <2>4
<1>4. \E k \in S : \A j \in S : Psn(k) =< Psn(j)
  BY <1>3, Zenon
<1> QED BY <1>4, Zenon DEF LowestPsn

\* The packets of a byte count are finite, so the count is a natural.
LEMMA SumBytesType ==
    ASSUME NEW S \in SUBSET Packet
    PROVE  /\ IsFiniteSet(S)
           /\ Cardinality(S) \in Nat
           /\ SumBytes(S) \in Nat
<1>1. IsFiniteSet(S)
  <2>1. 0 \in Int /\ MaxPackets - 1 \in Int
    BY ConfigAssumption
  <2>2. IsFiniteSet(Packet)
    BY <2>1, FS_Interval, Zenon DEF Packet
  <2> QED BY <2>2, FS_Subset, Zenon
<1>2. IsFiniteSet(S \X (1 .. Mtu))
  <2>1. 1 \in Int /\ Mtu \in Int
    BY ConfigAssumption
  <2>2. IsFiniteSet(1 .. Mtu)
    BY <2>1, FS_Interval, Zenon
  <2> QED BY <1>1, <2>2, FS_Product, Zenon
<1>3. IsFiniteSet({b \in S \X (1 .. Mtu) : b[2] =< packets[b[1]].bytes})
  BY <1>2, FS_Subset, Zenon
<1> QED BY <1>1, <1>3, FS_CardinalityType, Zenon DEF SumBytes

\* A packet carries between nothing and one MTU.
LEMMA PacketBytesType ==
    ASSUME NEW payload \in Payloads, NEW i \in 0 .. PacketCount(payload) - 1
    PROVE  PacketBytes(payload, i) \in 0 .. Mtu
<1>1. payload \in Nat /\ Mtu \in Nat \ {0}
  BY ConfigAssumption, Zenon
<1>2. i \in Nat /\ i * Mtu =< payload
  <2>1. CASE payload = 0
    BY <2>1, <1>1 DEF PacketCount
  <2>2. CASE payload # 0
    <3> DEFINE q == (payload + Mtu - 1) \div Mtu
    <3>1. q \in Nat /\ q * Mtu =< payload + Mtu - 1
      BY <1>1
    <3>2. i \in Nat /\ i + 1 =< q
      BY <2>2, <3>1 DEF PacketCount
    <3>3. (i + 1) * Mtu =< q * Mtu
      <4> HIDE DEF q
      <4> QED BY <1>1, <3>1, <3>2
    <3>4. (i + 1) * Mtu = i * Mtu + Mtu
      BY <1>1, <3>2
    <3> QED BY <1>1, <3>1, <3>2, <3>3, <3>4
  <2> QED BY <2>1, <2>2, Zenon
<1>3. payload - i * Mtu \in Nat
  BY <1>1, <1>2
<1> QED BY <1>1, <1>3 DEF PacketBytes, Min

-----------------------------------------------------------------------------
(* Type correctness. *)

\* The records the handlers build have their types.
LEMMA FreshExtentType ==
    ASSUME NEW first \in Nat, NEW size \in Nat
    PROVE  /\ FreshExtent(first, size) \in ExtentRecord
           /\ FreshExtent(first, size).status = "open"
           /\ FreshExtent(first, size).first = first
           /\ FreshExtent(first, size).size = size
           /\ FreshExtent(first, size).terminal_count = 0
BY Zenon DEF FreshExtent, NoExtent, ExtentRecord

\* A packet just cut is a packet.
LEMMA FreshPacketType ==
    ASSUME NEW e \in Extent, NEW bytes \in 0 .. Mtu, NEW t \in Nat
    PROVE  /\ FreshPacket(e, bytes, t) \in PacketRecord
           /\ FreshPacket(e, bytes, t).extent = e
           /\ ~FreshPacket(e, bytes, t).issued
           /\ ~FreshPacket(e, bytes, t).terminal
<1>1. 0 \in 0 .. MaxAttempts - 1
  BY ConfigAssumption
<1> QED BY <1>1, ZenonT(30) DEF FreshPacket, NoPacket, PacketRecord

\* So is one ready for its next transmission,
LEMMA RequeuedType ==
    ASSUME NEW packet \in PacketRecord, NEW t \in Nat,
           packet.attempt + 1 \in 0 .. MaxAttempts - 1
    PROVE  Requeued(packet, t) \in PacketRecord
<1>1. ASSUME NEW n \in 0 .. MaxAttempts - 1
      PROVE  [packet EXCEPT !.issued = FALSE, !.attempt = n, !.queued_at = t]
               \in PacketRecord
  BY Zenon DEF PacketRecord
<1> QED BY <1>1, Zenon DEF Requeued

\* ... which keeps the fields that replay does not touch.
LEMMA RequeuedFields ==
    ASSUME NEW packet \in PacketRecord, NEW t
    PROVE  /\ Requeued(packet, t).extent = packet.extent
           /\ Requeued(packet, t).bytes = packet.bytes
           /\ Requeued(packet, t).terminal = packet.terminal
           /\ Requeued(packet, t).issued_at = packet.issued_at
           /\ Requeued(packet, t).attempt = packet.attempt + 1
           /\ ~Requeued(packet, t).issued
BY Zenon DEF Requeued, PacketRecord

\* Go-back-N keeps the shape of everything it writes.
LEMMA GoBackNTypes ==
    ASSUME TxTypeOK, NEW bound \in SUBSET Token, NEW psn \in Nat,
           NEW t \in Time, GoBackN(bound, psn, t)
    PROVE  /\ packets' \in [Packet -> PacketRecord]
           /\ queue' \subseteq Packet
           /\ live' \subseteq Packet
           /\ bindings' \subseteq Token
           /\ inflight' \in [wqes : Int, packets : Int, bytes : Int]
           /\ told' \in [Token -> Stage]
<1> DEFINE closed == AtOrAbove(psn)
           p == inflight.packets - Cardinality(closed)
           b == inflight.bytes - SumBytes(closed)
<1>1. closed \in SUBSET Packet
  BY Zenon DEF AtOrAbove, TxTypeOK
<1>2. p \in Int /\ b \in Int
  BY <1>1, SumBytesType DEF TxTypeOK
<1>3. packets' \in [Packet -> PacketRecord]
  <2>1. packets' = [k \in Packet |->
           IF k \in closed THEN Requeued(packets[k], t) ELSE packets[k]]
    BY Zenon DEF GoBackN
  <2>2. ASSUME NEW k \in Packet, k \in closed
        PROVE  Requeued(packets[k], t) \in PacketRecord
    <3>1. packets[k] \in PacketRecord /\ t \in Nat
      BY DEF TxTypeOK, Time
    <3>2. packets[k].attempt + 1 < MaxAttempts
      BY <2>2, Zenon DEF GoBackN
    <3>3. packets[k].attempt \in Nat /\ MaxAttempts \in Nat
      BY <3>1, ConfigAssumption DEF PacketRecord
    <3>4. packets[k].attempt + 1 \in 0 .. MaxAttempts - 1
      BY <3>2, <3>3
    <3> QED BY <3>1, <3>4, RequeuedType, Zenon
  <2>3. \A k \in Packet : packets[k] \in PacketRecord
    BY Zenon DEF TxTypeOK
  <2> HIDE DEF closed
  <2> QED BY <2>1, <2>2, <2>3, Zenon
<1>4. inflight' \in [wqes : Int, packets : Int, bytes : Int]
  <2>1. inflight' = [inflight EXCEPT !.packets = p, !.bytes = b]
    BY Zenon DEF GoBackN
  <2>2. inflight \in [wqes : Int, packets : Int, bytes : Int]
    BY Zenon DEF TxTypeOK
  <2> HIDE DEF p, b
  <2> QED BY <1>2, <2>1, <2>2, Zenon
<1>5. queue' \subseteq Packet /\ live' \subseteq Packet /\ bindings' \subseteq Token
  BY <1>1, Zenon DEF GoBackN, TxTypeOK
<1>6. told' \in [Token -> Stage]
  BY Zenon DEF GoBackN, TxTypeOK, Stage
<1> QED BY <1>3, <1>4, <1>5, <1>6, Zenon

\* An extent stays an extent when one of its packets retires.
LEMMA RetireType ==
    ASSUME NEW extent \in ExtentRecord, NEW dropped \in BOOLEAN
    PROVE  Retire(extent, dropped) \in ExtentRecord
<1> DEFINE lost == extent.dropped \/ dropped
           n == extent.terminal_count + 1
           status == IF n # extent.size THEN extent.status
                     ELSE IF lost THEN "Dropped" ELSE "Delivered"
<1>1. lost \in BOOLEAN
  OBVIOUS
<1>2. n \in Nat
  BY DEF ExtentRecord
<1>3. status \in {"none", "open", "Delivered", "Dropped"}
  BY Zenon DEF ExtentRecord
<1>4. Retire(extent, dropped) =
        [extent EXCEPT !.terminal_count = n, !.dropped = lost,
                       !.status = status]
  BY Zenon DEF Retire
<1> HIDE DEF lost, n, status
<1> QED BY <1>1, <1>2, <1>3, <1>4, Zenon DEF ExtentRecord

\* The pipeline's state has its declared shape initially.
LEMMA TxInitTypes == TxInit => TxTypeOK
<1> SUFFICES ASSUME TxInit PROVE TxTypeOK
  OBVIOUS
<1>1. NoExtent \in ExtentRecord
  BY Zenon DEF NoExtent, ExtentRecord
<1>2. NoPacket \in PacketRecord
  BY ConfigAssumption DEF NoPacket, PacketRecord
<1>3. now \in Time /\ cut \in 0 .. MaxPackets
  BY ConfigAssumption DEF TxInit, Time
<1>4. gates \in [window : Nat, bits : Nat, messages : Nat, retry : Nat]
  BY Zenon DEF TxInit
<1>5. inflight \in [wqes : Int, packets : Int, bytes : Int]
  BY DEF TxInit
<1>6. recovery \in [active : BOOLEAN, psn : Nat]
  BY Zenon DEF TxInit
<1> QED BY <1>1, <1>2, <1>3, <1>4, <1>5, <1>6, Zenon DEF TxInit, TxTypeOK, Stage

\* ... after a submission,
LEMMA TrySubmitTypes ==
    ASSUME TxTypeOK, NEW payload \in Payloads, NEW t \in Time,
           TrySubmit(payload, t)
    PROVE  TxTypeOK'
<1> DEFINE n == PacketCount(payload)
<1>1. n \in Nat
  BY ConfigAssumption DEF PacketCount
<1>2. PICK e \in Extent :
         /\ extents' = [extents EXCEPT ![e] = FreshExtent(cut, n)]
         /\ packets' = [k \in Packet |->
               IF k \in cut .. cut + n - 1
               THEN FreshPacket(e, PacketBytes(payload, k - cut), t)
               ELSE packets[k]]
  BY Zenon DEF TrySubmit
<1>3. /\ cut + n =< MaxPackets /\ cut' = cut + n /\ now' = t
      /\ queue' = queue \cup (cut .. cut + n - 1)
  BY Zenon DEF TrySubmit
<1>4. cut \in Nat /\ cut' \in 0 .. MaxPackets
  <2>1. cut \in 0 .. MaxPackets /\ MaxPackets \in Nat
    BY ConfigAssumption, Zenon DEF TxTypeOK
  <2> HIDE DEF n
  <2> QED BY <2>1, <1>1, <1>3
<1>5. \A k \in cut .. cut + n - 1 : PacketBytes(payload, k - cut) \in 0 .. Mtu
  BY <1>1, <1>4, PacketBytesType
<1> HIDE DEF n
<1>6. extents' \in [Extent -> ExtentRecord]
  BY <1>1, <1>2, <1>4, FreshExtentType, Zenon DEF TxTypeOK
<1>7. packets' \in [Packet -> PacketRecord]
  <2>1. t \in Nat
    BY DEF Time
  <2>2. \A k \in Packet : packets[k] \in PacketRecord
    BY Zenon DEF TxTypeOK
  <2> QED BY <1>2, <1>5, <2>1, <2>2, FreshPacketType, Zenon
<1>8. queue' \subseteq Packet
  <2>1. queue \subseteq Packet /\ MaxPackets \in Nat
    BY ConfigAssumption, Zenon DEF TxTypeOK
  <2> QED BY <2>1, <1>1, <1>3, <1>4 DEF Packet
<1> QED BY <1>3, <1>4, <1>6, <1>7, <1>8, Zenon DEF TrySubmit, TxTypeOK

\* ... after a NAK,
LEMMA OnTransportPacketTypes ==
    ASSUME TxTypeOK, NEW kind, NEW psn \in Nat, NEW t \in Time,
           OnTransportPacket(kind, psn, t)
    PROVE  TxTypeOK'
<1>1. CASE Absorbed(kind, psn)
  BY <1>1, Zenon DEF OnTransportPacket, TxTypeOK
<1>2. CASE ~Absorbed(kind, psn)
  <2>1. GoBackN(bindings, psn, t) /\ OpenEpisode(psn)
    BY <1>2, Zenon DEF OnTransportPacket
  <2>2. bindings \in SUBSET Token
    BY Zenon DEF TxTypeOK
  <2> QED BY <2>1, <2>2, GoBackNTypes, Zenon
          DEF OnTransportPacket, OpenEpisode, TxTypeOK
<1> QED BY <1>1, <1>2, Zenon

\* ... when releaseDue starts, with or without a timeout,
LEMMA ReleaseBeginTypes ==
    ASSUME TxTypeOK, NEW t \in Time, ReleaseBegin(t)
    PROVE  TxTypeOK'
<1> DEFINE due == TimerArmed /\ EarliestTimeout =< t
<1>1. CASE ~due
  BY <1>1, Zenon DEF ReleaseBegin, TxTypeOK
<1>2. CASE due
  <2> DEFINE psn == Psn(LowestPsn(live))
  <2>1. psn \in Nat
    <3>1. live \in SUBSET Packet /\ live # {}
      BY <1>2, Zenon DEF TxTypeOK, TimerArmed
    <3>2. LowestPsn(live) \in Packet
      BY <3>1, LowestPsnProperty, Zenon
    <3> QED BY <3>2, PsnType, PsnAssumption
  <2>2. GoBackN(bindings, psn, t) /\ OpenEpisode(psn)
    BY <1>2, Zenon DEF ReleaseBegin
  <2>3. bindings \in SUBSET Token
    BY Zenon DEF TxTypeOK
  <2> HIDE DEF psn
  <2>4. /\ packets' \in [Packet -> PacketRecord] /\ queue' \subseteq Packet
        /\ live' \subseteq Packet /\ bindings' \subseteq Token
        /\ inflight' \in [wqes : Int, packets : Int, bytes : Int]
        /\ told' \in [Token -> Stage]
    BY <2>1, <2>2, <2>3, GoBackNTypes, Zenon
  <2>5. recovery' \in [active : BOOLEAN, psn : Nat]
    BY <2>1, <2>2, Zenon DEF OpenEpisode
  <2> QED BY <2>4, <2>5, Zenon DEF ReleaseBegin, TxTypeOK
<1> QED BY <1>1, <1>2, Zenon

\* What a step of the issue loop has at hand.
LEMMA IssueFacts ==
    ASSUME TxTypeOK, CanIssue, NEW k, k = LowestPsn(queue)
    PROVE  /\ k \in queue /\ k \in Packet
           /\ CurrentToken(k) \in Token
           /\ packets[k] \in PacketRecord
           /\ now \in Nat
<1>1. queue \in SUBSET Packet /\ queue # {}
  BY Zenon DEF TxTypeOK, CanIssue
<1>2. k \in queue /\ k \in Packet
  BY <1>1, LowestPsnProperty, Zenon
<1>3. packets[k] \in PacketRecord /\ now \in Nat
  BY <1>2 DEF TxTypeOK, Time
<1> QED BY <1>2, <1>3, Zenon DEF CurrentToken, Token, PacketRecord

\* ... when the port is busy or the loop ends,
LEMMA ReleaseStopsTypes ==
    ASSUME TxTypeOK, ReleaseEnd \/ \E retry \in Time : ReleaseBusy(retry)
    PROVE  TxTypeOK'
<1>1. CASE ReleaseEnd
  BY <1>1, Zenon DEF ReleaseEnd, TxTypeOK
<1>2. ASSUME NEW retry \in Time, ReleaseBusy(retry) PROVE TxTypeOK'
  <2>1. gates' \in [window : Nat, bits : Nat, messages : Nat, retry : Nat]
    BY <1>2 DEF ReleaseBusy, TxTypeOK, Time
  <2> QED BY <1>2, <2>1, Zenon DEF ReleaseBusy, TxTypeOK
<1> QED BY <1>1, <1>2, Zenon

\* ... when the port accepts a packet,
LEMMA ReleaseAcceptedTypes ==
    ASSUME TxTypeOK, NEW bitDelay \in Nat, NEW messageDelay \in Nat,
           ReleaseAccepted(bitDelay, messageDelay)
    PROVE  TxTypeOK'
<1> DEFINE k == LowestPsn(queue)
           e == packets[k].extent
           count == extents[e].issued_count + 1
           bits == now + bitDelay
           messages == IF IsFirst(k) THEN now + messageDelay
                       ELSE gates.messages
           w == inflight.wqes + (IF extents[e].in_flight THEN 0 ELSE 1)
           p == inflight.packets + 1
           b == inflight.bytes + packets[k].bytes
<1>1. CanIssue
  BY Zenon DEF ReleaseAccepted
<1>2. /\ k \in queue /\ k \in Packet /\ CurrentToken(k) \in Token
      /\ packets[k] \in PacketRecord /\ now \in Nat
  BY <1>1, IssueFacts, Zenon
<1>3. /\ gates \in [window : Nat, bits : Nat, messages : Nat, retry : Nat]
      /\ inflight \in [wqes : Int, packets : Int, bytes : Int]
      /\ packets \in [Packet -> PacketRecord]
      /\ extents \in [Extent -> ExtentRecord]
  BY Zenon DEF TxTypeOK
<1>4. bits \in Nat /\ messages \in Nat
  BY <1>2, <1>3
<1>5. w \in Int /\ p \in Int /\ b \in Int
  BY <1>2, <1>3 DEF PacketRecord
<1>6. gates' = [gates EXCEPT !.retry = 0, !.bits = bits, !.messages = messages]
  BY Zenon DEF ReleaseAccepted
<1>7. inflight' = [wqes |-> w, packets |-> p, bytes |-> b]
  BY Zenon DEF ReleaseAccepted
<1>8. packets' = [packets EXCEPT ![k].issued = TRUE, ![k].issued_at = now]
  BY Zenon DEF ReleaseAccepted
<1>9. extents' = [extents EXCEPT ![e] =
          [extents[e] EXCEPT !.in_flight = TRUE, !.issued_count = count]]
  BY Zenon DEF ReleaseAccepted
<1>10. e \in Extent => count \in Nat
  BY <1>3 DEF ExtentRecord
<1>11. gates' \in [window : Nat, bits : Nat, messages : Nat, retry : Nat]
  <2> HIDE DEF bits, messages
  <2> QED BY <1>3, <1>4, <1>6, Zenon
<1>12. inflight' \in [wqes : Int, packets : Int, bytes : Int]
  <2> HIDE DEF w, p, b
  <2> QED BY <1>5, <1>7, Zenon
<1>13. extents' \in [Extent -> ExtentRecord]
  <2> HIDE DEF count, e
  <2>1. CASE e \in Extent
    <3>1. [extents[e] EXCEPT !.in_flight = TRUE, !.issued_count = count]
            \in ExtentRecord
      BY <2>1, <1>3, <1>10, ZenonT(30) DEF ExtentRecord
    <3> QED BY <3>1, <1>3, <1>9, Zenon
  <2>2. CASE e \notin Extent
    BY <2>2, <1>3, <1>9, Zenon
  <2> QED BY <2>1, <2>2, Zenon
<1>14. packets' \in [Packet -> PacketRecord]
  <2> HIDE DEF k
  <2> QED BY <1>2, <1>3, <1>8, Zenon DEF PacketRecord
<1>15. recovery' \in [active : BOOLEAN, psn : Nat]
  <2>1. recovery \in [active : BOOLEAN, psn : Nat]
    BY Zenon DEF TxTypeOK
  <2>2. PICK a \in BOOLEAN : recovery' = [recovery EXCEPT !.active = a]
    BY Zenon DEF ReleaseAccepted
  <2> QED BY <2>1, <2>2, Zenon
<1>16. told' \in [Token -> Stage]
  BY ZenonT(30) DEF ReleaseAccepted, TxTypeOK, Stage
<1>17. now' \in Time /\ cut' \in 0 .. MaxPackets /\ releasing' \in BOOLEAN
  BY Zenon DEF ReleaseAccepted, TxTypeOK
<1>18. /\ queue' \subseteq Packet /\ live' \subseteq Packet
       /\ bindings' \subseteq Token
  BY <1>2, Zenon DEF ReleaseAccepted, TxTypeOK
<1> QED BY <1>11, <1>12, <1>13, <1>14, <1>15, <1>16, <1>17, <1>18, Zenon
           DEF TxTypeOK

\* ... when the port refuses a packet,
LEMMA ReleaseRejectedTypes ==
    ASSUME TxTypeOK, ReleaseRejected
    PROVE  TxTypeOK'
<1> DEFINE k == LowestPsn(queue)
           e == packets[k].extent
           count == extents[e].issued_count + 1
           before == [extents[e] EXCEPT !.in_flight = TRUE,
                                        !.issued_count = count]
           after == Retire(before, TRUE)
           w == inflight.wqes + (IF extents[e].in_flight THEN 0 ELSE 1)
                  - (IF after.status = "open" THEN 0 ELSE 1)
           window == IF after.status = "open" THEN gates.window ELSE now
<1>1. CanIssue
  BY Zenon DEF ReleaseRejected
<1>2. /\ k \in queue /\ k \in Packet /\ CurrentToken(k) \in Token
      /\ packets[k] \in PacketRecord /\ now \in Nat
  BY <1>1, IssueFacts, Zenon
<1>3. /\ gates \in [window : Nat, bits : Nat, messages : Nat, retry : Nat]
      /\ inflight \in [wqes : Int, packets : Int, bytes : Int]
      /\ packets \in [Packet -> PacketRecord]
      /\ extents \in [Extent -> ExtentRecord]
  BY Zenon DEF TxTypeOK
<1>4. window \in Nat
  BY <1>2, <1>3, Zenon
<1>5. w \in Int
  <2> HIDE DEF after
  <2> QED BY <1>3
<1>6. gates' = [gates EXCEPT !.retry = 0, !.window = window]
  BY Zenon DEF ReleaseRejected
<1>7. inflight' = [inflight EXCEPT !.wqes = w]
  BY Zenon DEF ReleaseRejected
<1>8. packets' = [packets EXCEPT ![k].issued = TRUE, ![k].issued_at = now,
                                 ![k].terminal = TRUE]
  BY Zenon DEF ReleaseRejected
<1>9. extents' = [extents EXCEPT ![e] = after]
  BY Zenon DEF ReleaseRejected
<1>10. ASSUME e \in Extent PROVE after \in ExtentRecord
  <2>1. count \in Nat /\ extents[e] \in ExtentRecord
    BY <1>3, <1>10 DEF ExtentRecord
  <2>2. before \in ExtentRecord
    <3> HIDE DEF count, e
    <3> QED BY <2>1, Zenon DEF ExtentRecord
  <2> HIDE DEF before
  <2> QED BY <2>2, RetireType, Zenon
<1>11. gates' \in [window : Nat, bits : Nat, messages : Nat, retry : Nat]
  <2> HIDE DEF window
  <2> QED BY <1>3, <1>4, <1>6, Zenon
<1>12. inflight' \in [wqes : Int, packets : Int, bytes : Int]
  <2> HIDE DEF w
  <2> QED BY <1>3, <1>5, <1>7, Zenon
<1>13. extents' \in [Extent -> ExtentRecord]
  <2> HIDE DEF after, e
  <2> QED BY <1>3, <1>9, <1>10, Zenon
<1>14. packets' \in [Packet -> PacketRecord]
  <2> HIDE DEF k
  <2> QED BY <1>2, <1>3, <1>8, Zenon DEF PacketRecord
<1>15. told' \in [Token -> Stage]
  BY Zenon DEF ReleaseRejected, TxTypeOK, Stage
<1>16. queue' \subseteq Packet
  BY Zenon DEF ReleaseRejected, TxTypeOK
<1> QED BY <1>11, <1>12, <1>13, <1>14, <1>15, <1>16, Zenon
        DEF ReleaseRejected, TxTypeOK

\* What a terminal of a bound attempt writes.
LEMMA TerminalTypes ==
    ASSUME TxTypeOK, NEW tok \in bindings, NEW kind \in {"delivered", "dropped"},
           NEW t \in Time, Terminal(tok, kind, t)
    PROVE  /\ packets' \in [Packet -> PacketRecord]
           /\ extents' \in [Extent -> ExtentRecord]
           /\ bindings' \subseteq Token
           /\ told' \in [Token -> Stage]
           /\ inflight' \in [wqes : Int, packets : Int, bytes : Int]
           /\ gates' \in [window : Nat, bits : Nat, messages : Nat, retry : Nat]
<1> DEFINE k == tok[1]
           e == packets[k].extent
           after == Retire(extents[e], kind = "dropped")
           w == inflight.wqes - (IF after.status = "open" THEN 0 ELSE 1)
           p == inflight.packets - 1
           b == inflight.bytes - packets[k].bytes
           window == IF after.status = "open" THEN gates.window ELSE t
<1>1. tok \in Token /\ k \in Packet
  BY Zenon DEF TxTypeOK, Token
<1>2. /\ gates \in [window : Nat, bits : Nat, messages : Nat, retry : Nat]
      /\ inflight \in [wqes : Int, packets : Int, bytes : Int]
      /\ packets \in [Packet -> PacketRecord]
      /\ extents \in [Extent -> ExtentRecord]
  BY Zenon DEF TxTypeOK
<1>3. packets' = [packets EXCEPT ![k].terminal = TRUE]
  BY Zenon DEF Terminal
<1>4. extents' = [extents EXCEPT ![e] = after]
  BY Zenon DEF Terminal
<1>5. inflight' = [wqes |-> w, packets |-> p, bytes |-> b]
  BY Zenon DEF Terminal
<1>6. gates' = [gates EXCEPT !.window = window]
  BY Zenon DEF Terminal
<1>7. window \in Nat
  BY <1>2 DEF Time
<1>8. w \in Int /\ p \in Int /\ b \in Int
  BY <1>1, <1>2 DEF PacketRecord
<1>9. e \in Extent => after \in ExtentRecord
  BY <1>2, RetireType, Zenon
<1>10. packets' \in [Packet -> PacketRecord]
  <2> HIDE DEF k
  <2> QED BY <1>1, <1>2, <1>3, ZenonT(30) DEF PacketRecord
<1>11. extents' \in [Extent -> ExtentRecord]
  <2> HIDE DEF after, e
  <2> QED BY <1>2, <1>4, <1>9, Zenon
<1>12. inflight' \in [wqes : Int, packets : Int, bytes : Int]
  <2> HIDE DEF w, p, b
  <2> QED BY <1>5, <1>8, Zenon
<1>13. gates' \in [window : Nat, bits : Nat, messages : Nat, retry : Nat]
  <2> HIDE DEF window
  <2> QED BY <1>2, <1>6, <1>7, Zenon
<1>14. bindings' \subseteq Token /\ told' \in [Token -> Stage]
  BY <1>1, Zenon DEF Terminal, TxTypeOK, Stage
<1> QED BY <1>10, <1>11, <1>12, <1>13, <1>14, Zenon

\* ... and after every report of the port.
LEMMA OnEventTypes ==
    ASSUME TxTypeOK, NEW tok \in Token, NEW t \in Time,
           \/ OnStaleEvent(tok, t) \/ OnArrived(tok, t)
           \/ OnDelivered(tok, t) \/ OnDropped(tok, t)
    PROVE  TxTypeOK'
<1>1. CASE OnStaleEvent(tok, t)
  BY <1>1, Zenon DEF OnStaleEvent, TxTypeOK
<1>2. CASE OnArrived(tok, t)
  BY <1>2, Zenon DEF OnArrived, TxTypeOK, Stage
<1>3. CASE OnDelivered(tok, t)
  <2>1. tok \in bindings /\ Terminal(tok, "delivered", t)
    BY <1>3, Zenon DEF OnDelivered
  <2>2. /\ packets' \in [Packet -> PacketRecord]
        /\ extents' \in [Extent -> ExtentRecord]
        /\ bindings' \subseteq Token
        /\ told' \in [Token -> Stage]
        /\ inflight' \in [wqes : Int, packets : Int, bytes : Int]
        /\ gates' \in [window : Nat, bits : Nat, messages : Nat, retry : Nat]
    BY <2>1, TerminalTypes, Zenon
  <2>3. recovery' \in [active : BOOLEAN, psn : Nat]
    <3>1. recovery \in [active : BOOLEAN, psn : Nat]
      BY Zenon DEF TxTypeOK
    <3>2. PICK a \in BOOLEAN : recovery' = [recovery EXCEPT !.active = a]
      BY <1>3, Zenon DEF OnDelivered
    <3> QED BY <3>1, <3>2, Zenon
  <2> QED BY <1>3, <2>2, <2>3, Zenon DEF OnDelivered, TxTypeOK
<1>4. CASE OnDropped(tok, t)
  <2> DEFINE psn == Psn(tok[1])
  <2>1. tok \in bindings
    BY <1>4, Zenon DEF OnDropped
  <2>2. psn \in Nat
    BY PsnType, PsnAssumption DEF Token
  <2>3. CASE ~TransportEnabled
    <3>1. Terminal(tok, "dropped", t)
      BY <1>4, <2>3, Zenon DEF OnDropped
    <3>2. /\ packets' \in [Packet -> PacketRecord]
          /\ extents' \in [Extent -> ExtentRecord]
          /\ bindings' \subseteq Token
          /\ told' \in [Token -> Stage]
          /\ inflight' \in [wqes : Int, packets : Int, bytes : Int]
          /\ gates' \in [window : Nat, bits : Nat, messages : Nat, retry : Nat]
      BY <2>1, <3>1, TerminalTypes, Zenon
    <3> QED BY <1>4, <2>3, <3>2, Zenon DEF OnDropped, TxTypeOK
  <2>4. CASE TransportEnabled /\ InEpisode(psn)
    BY <1>4, <2>4, Zenon DEF OnDropped, TxTypeOK
  <2>5. CASE TransportEnabled /\ ~InEpisode(psn)
    <3>1. GoBackN(bindings \ {tok}, psn, t) /\ OpenEpisode(psn)
      BY <1>4, <2>5, Zenon DEF OnDropped
    <3>2. bindings \ {tok} \in SUBSET Token
      BY Zenon DEF TxTypeOK
    <3>3. /\ packets' \in [Packet -> PacketRecord] /\ queue' \subseteq Packet
          /\ live' \subseteq Packet /\ bindings' \subseteq Token
          /\ inflight' \in [wqes : Int, packets : Int, bytes : Int]
          /\ told' \in [Token -> Stage]
      BY <2>2, <3>1, <3>2, GoBackNTypes, Zenon
    <3>4. recovery' \in [active : BOOLEAN, psn : Nat]
      BY <2>2, <3>1, Zenon DEF OpenEpisode
    <3> QED BY <1>4, <2>5, <3>3, <3>4, Zenon DEF OnDropped, TxTypeOK
  <2> QED BY <2>3, <2>4, <2>5, Zenon
<1> QED BY <1>1, <1>2, <1>3, <1>4, Zenon

-----------------------------------------------------------------------------
(* Where a packet can be. *)

\* Every packet cut belongs to the one extent whose range holds it.
Membership ==
    /\ \A k \in Cut : /\ packets[k].extent \in Extent
                      /\ extents[packets[k].extent].status # "none"
                      /\ k \in PacketsOf(packets[k].extent)
    /\ \A e \in Extent : extents[e].status # "none" =>
         \A k \in PacketsOf(e) : k \in Cut /\ packets[k].extent = e

Retired(e) == {k \in PacketsOf(e) : packets[k].terminal}

\* An extent is open until the last of its packets has retired.
Counted ==
    \A e \in Extent : extents[e].status # "none" =>
        /\ extents[e].terminal_count = Cardinality(Retired(e))
        /\ extents[e].status = "open" =>
             extents[e].terminal_count < extents[e].size
        /\ extents[e].status # "open" => Retired(e) = PacketsOf(e)

\* Every packet not retired is queued, or on the wire and known to be.
Places ==
    /\ queue \subseteq Cut /\ live \subseteq Cut
    /\ TransportEnabled \/ live = {}
    /\ \A k \in queue : ~packets[k].issued /\ ~packets[k].terminal
    /\ \A k \in live : packets[k].issued /\ ~packets[k].terminal
    /\ \A tok \in bindings : /\ tok = CurrentToken(tok[1])
                             /\ tok[1] \in Cut
                             /\ packets[tok[1]].issued
                             /\ ~packets[tok[1]].terminal
                             /\ TransportEnabled => tok[1] \in live
    /\ \A k \in Cut : \/ packets[k].terminal \/ k \in queue \/ k \in live
                      \/ CurrentToken(k) \in bindings

PlacesInv == TxTypeOK /\ Membership /\ Counted /\ Places

\* Steps that retire nothing and cut nothing keep membership and counts.
LEMMA NothingRetires ==
    ASSUME Membership, Counted, cut' = cut,
           \A e \in Extent : /\ extents'[e].first = extents[e].first
                             /\ extents'[e].size = extents[e].size
                             /\ extents'[e].status = extents[e].status
                             /\ extents'[e].terminal_count
                                  = extents[e].terminal_count,
           \A k \in Packet : /\ packets'[k].extent = packets[k].extent
                             /\ packets'[k].terminal = packets[k].terminal,
           TxTypeOK
    PROVE  Membership' /\ Counted'
<1>1. Cut' = Cut /\ Cut \subseteq Packet
  <2>1. cut \in 0 .. MaxPackets /\ MaxPackets \in Nat
    BY ConfigAssumption, Zenon DEF TxTypeOK
  <2> QED BY <2>1 DEF Cut, Packet
<1>2. \A e \in Extent : PacketsOf(e)' = PacketsOf(e)
  BY Zenon DEF PacketsOf
<1>3. \A e \in Extent : extents[e].status # "none" => Retired(e)' = Retired(e)
  <2> SUFFICES ASSUME NEW e \in Extent, extents[e].status # "none"
               PROVE  Retired(e)' = Retired(e)
    OBVIOUS
  <2>1. PacketsOf(e) \subseteq Packet
    BY <1>1, Zenon DEF Membership
  <2> QED BY <1>2, <2>1, Zenon DEF Retired
<1>4. Membership'
  BY <1>1, <1>2 DEF Membership
<1>5. Counted'
  BY <1>2, <1>3, Zenon DEF Counted
<1> QED BY <1>4, <1>5, Zenon

\* What Retire writes, field by field.
LEMMA RetireFields ==
    ASSUME NEW x \in ExtentRecord, NEW dropped \in BOOLEAN
    PROVE  /\ Retire(x, dropped).first = x.first
           /\ Retire(x, dropped).size = x.size
           /\ Retire(x, dropped).terminal_count = x.terminal_count + 1
           /\ x.terminal_count + 1 # x.size =>
                Retire(x, dropped).status = x.status
           /\ x.terminal_count + 1 = x.size =>
                Retire(x, dropped).status \in {"Delivered", "Dropped"}
BY Zenon DEF Retire, ExtentRecord

\* Retiring one packet counts it, and closes its extent exactly when it was
\* the last.
LEMMA OneRetires ==
    ASSUME TxTypeOK, Membership, Counted, cut' = cut,
           NEW k \in Cut, ~packets[k].terminal,
           NEW e, e = packets[k].extent,
           NEW x \in ExtentRecord, NEW dropped \in BOOLEAN,
           x.first = extents[e].first, x.size = extents[e].size,
           x.status = extents[e].status,
           x.terminal_count = extents[e].terminal_count,
           extents' = [extents EXCEPT ![e] = Retire(x, dropped)],
           \A j \in Packet : /\ packets'[j].extent = packets[j].extent
                             /\ packets'[j].terminal =
                                  (packets[j].terminal \/ j = k)
    PROVE  Membership' /\ Counted'
<1>1. Cut' = Cut /\ Cut \subseteq Packet
  <2>1. cut \in 0 .. MaxPackets /\ MaxPackets \in Nat
    BY ConfigAssumption, Zenon DEF TxTypeOK
  <2> QED BY <2>1 DEF Cut, Packet
<1>2. e \in Extent /\ extents[e].status # "none" /\ k \in PacketsOf(e)
  BY Zenon DEF Membership
<1>3. extents \in [Extent -> ExtentRecord]
  BY Zenon DEF TxTypeOK
<1>4. extents'[e] = Retire(x, dropped)
  BY <1>2, <1>3, Zenon
<1>5. \A d \in Extent : d # e => extents'[d] = extents[d]
  BY <1>3, Zenon
<1>6. extents'[e].status # "none"
  BY <1>2, <1>4, RetireFields
<1>7. \A d \in Extent : PacketsOf(d)' = PacketsOf(d)
  BY <1>4, <1>5, RetireFields DEF PacketsOf
<1>8. Membership'
  BY <1>1, <1>2, <1>5, <1>6, <1>7 DEF Membership
<1>9. ASSUME NEW d \in Extent, extents'[d].status # "none"
      PROVE  /\ extents'[d].terminal_count = Cardinality(Retired(d)')
             /\ extents'[d].status = "open" =>
                  extents'[d].terminal_count < extents'[d].size
             /\ extents'[d].status # "open" => Retired(d)' = PacketsOf(d)'
  <2>1. PacketsOf(d) \subseteq Packet
    BY <1>1, <1>2, <1>5, <1>9 DEF Membership
  <2>2. CASE d # e
    <3>1. Retired(d)' = Retired(d)
      <4>1. k \notin PacketsOf(d)
        BY <2>2, <1>5, <1>9 DEF Membership
      <4> QED BY <1>7, <2>1, <4>1, ZenonT(30) DEF Retired
    <3> QED BY <1>5, <1>7, <1>9, <2>2, <3>1 DEF Counted
  <2>3. CASE d = e
    <3> DEFINE n == extents[e].terminal_count
               size == extents[e].size
    <3>1. /\ n = Cardinality(Retired(e))
          /\ extents[e].status = "open" => n < size
          /\ extents[e].status # "open" => Retired(e) = PacketsOf(e)
      BY <1>2, Zenon DEF Counted
    <3>2. n \in Nat /\ size \in Nat /\ extents[e].first \in Nat
      BY <1>2, <1>3, Zenon DEF ExtentRecord
    <3>3. Retired(e)' = Retired(e) \cup {k} /\ k \notin Retired(e)
      BY <1>2, <1>7, <2>1, <2>3, ZenonT(30) DEF Retired
    <3>4. extents[e].status = "open" /\ n < size
      BY <1>2, <3>1, <3>3, Zenon
    <3>5. IsFiniteSet(PacketsOf(e)) /\ Cardinality(PacketsOf(e)) = size
      <4> DEFINE a == extents[e].first
                 b == extents[e].first + size - 1
      <4>1. a \in Int /\ b \in Int /\ a =< b /\ b - a + 1 = size
        BY <3>2, <3>4
      <4>2. PacketsOf(e) = a .. b
        BY Zenon DEF PacketsOf
      <4> HIDE DEF a, b, size
      <4>3. IsFiniteSet(a .. b) /\ Cardinality(a .. b) = size
        BY <4>1, FS_Interval
      <4> QED BY <4>2, <4>3, Zenon
    <3>6. IsFiniteSet(Retired(e))
      <4>1. Retired(e) \in SUBSET PacketsOf(e)
        BY Zenon DEF Retired
      <4> QED BY <3>5, <4>1, FS_Subset, Zenon
    <3>7. Cardinality(Retired(e)') = n + 1
      <4>1. Cardinality(Retired(e) \cup {k}) = Cardinality(Retired(e)) + 1
        BY <3>3, <3>6, FS_AddElement, Zenon
      <4> QED BY <3>1, <3>3, <4>1, Zenon
    <3>8. extents'[e].terminal_count = n + 1 /\ extents'[e].size = size
      BY <1>4, RetireFields
    <3>9. CASE n + 1 # size
      <4>1. extents'[e].status = "open"
        BY <1>4, <3>4, <3>9, RetireFields
      <4>2. n + 1 < size
        BY <3>2, <3>4, <3>9
      <4> HIDE DEF n, size
      <4> QED BY <2>3, <3>7, <3>8, <4>1, <4>2, Zenon
    <3>10. CASE n + 1 = size
      <4>1. extents'[e].status # "open"
        BY <1>4, <3>10, RetireFields
      <4>2. Retired(e)' \in SUBSET PacketsOf(e)
        BY <1>2, <3>3, Zenon DEF Retired
      <4>3. Retired(e)' = PacketsOf(e)
        BY <3>5, <3>7, <3>10, <4>2, FS_Subset
      <4> HIDE DEF n, size
      <4> QED BY <1>7, <2>3, <3>7, <3>8, <4>1, <4>3, Zenon
    <3> QED BY <3>9, <3>10, Zenon
  <2> QED BY <2>2, <2>3, Zenon
<1>10. Counted'
  BY <1>9, Zenon DEF Counted
<1> QED BY <1>8, <1>10, Zenon

\* A submission adds a fresh extent over fresh packets.
LEMMA SubmitCounts ==
    ASSUME TxTypeOK, Membership, Counted, NEW payload \in Payloads,
           NEW t \in Time, TrySubmit(payload, t)
    PROVE  Membership' /\ Counted'
<1> DEFINE n == PacketCount(payload)
<1>1. n \in Nat \ {0}
  <2>1. payload \in Nat /\ Mtu \in Nat \ {0}
    BY ConfigAssumption, Zenon
  <2>2. CASE payload = 0
    BY <2>2 DEF PacketCount
  <2>3. CASE payload # 0
    <3> DEFINE q == (payload + Mtu - 1) \div Mtu
    <3>1. q \in Nat /\ payload + Mtu - 1 < (q + 1) * Mtu
      BY <2>1
    <3>2. q # 0
      BY <2>1, <2>3, <3>1
    <3> QED BY <2>3, <3>1, <3>2, Zenon DEF PacketCount
  <2> QED BY <2>2, <2>3, Zenon
<1>2. PICK e \in Extent :
         /\ extents[e].status = "none"
         /\ extents' = [extents EXCEPT ![e] = FreshExtent(cut, n)]
         /\ packets' = [k \in Packet |->
               IF k \in cut .. cut + n - 1
               THEN FreshPacket(e, PacketBytes(payload, k - cut), t)
               ELSE packets[k]]
  BY Zenon DEF TrySubmit
<1>3. cut + n =< MaxPackets /\ cut' = cut + n
  BY Zenon DEF TrySubmit
<1>4. cut \in Nat /\ MaxPackets \in Nat
  BY ConfigAssumption DEF TxTypeOK
<1>5. extents \in [Extent -> ExtentRecord]
  BY Zenon DEF TxTypeOK
<1> HIDE DEF n
<1> DEFINE fresh == cut .. cut + n - 1
<1>6. /\ Cut' = Cut \cup fresh /\ Cut \cap fresh = {}
      /\ Cut \subseteq Packet /\ fresh \subseteq Packet
  BY <1>1, <1>3, <1>4 DEF Cut, Packet
<1>7. /\ extents'[e].status = "open" /\ extents'[e].first = cut
      /\ extents'[e].size = n /\ extents'[e].terminal_count = 0
  BY <1>1, <1>2, <1>4, <1>5, FreshExtentType
<1>8. \A d \in Extent : d # e => extents'[d] = extents[d]
  BY <1>2, <1>5, Zenon
<1>9. \A k \in fresh : packets'[k].extent = e /\ ~packets'[k].terminal
  <2> SUFFICES ASSUME NEW k \in fresh
               PROVE  packets'[k].extent = e /\ ~packets'[k].terminal
    OBVIOUS
  <2>1. PacketBytes(payload, k - cut) \in 0 .. Mtu
    BY <1>1, <1>4, PacketBytesType DEF n
  <2>2. packets'[k] = FreshPacket(e, PacketBytes(payload, k - cut), t)
    BY <1>2, <1>6, Zenon
  <2> QED BY <2>1, <2>2, FreshPacketType DEF Time
<1>10. \A k \in Packet : k \notin fresh => packets'[k] = packets[k]
  BY <1>2, Zenon
<1> HIDE DEF fresh
<1>11. PacketsOf(e)' = fresh
  BY <1>7, Zenon DEF PacketsOf, fresh
<1>12. \A d \in Extent : d # e => PacketsOf(d)' = PacketsOf(d)
  BY <1>8, Zenon DEF PacketsOf
<1>13. \A d \in Extent : d # e /\ extents[d].status # "none" =>
           PacketsOf(d) \subseteq Cut
  BY Zenon DEF Membership
<1>14. Membership'
  <2>1. ASSUME NEW k \in Cut'
        PROVE  /\ packets'[k].extent \in Extent
               /\ extents'[packets'[k].extent].status # "none"
               /\ k \in PacketsOf(packets[k].extent)'
    <3>1. CASE k \in fresh
      BY <3>1, <1>7, <1>9, <1>11, Zenon DEF PacketsOf
    <3>2. CASE k \notin fresh
      <4>1. k \in Cut /\ packets'[k] = packets[k]
        BY <3>2, <1>6, <1>10, Zenon
      <4>2. /\ packets[k].extent \in Extent /\ packets[k].extent # e
            /\ extents[packets[k].extent].status # "none"
            /\ k \in PacketsOf(packets[k].extent)
        BY <4>1, <1>2, Zenon DEF Membership
      <4> QED BY <4>1, <4>2, <1>8, Zenon DEF PacketsOf
    <3> QED BY <3>1, <3>2, Zenon
  <2>2. ASSUME NEW d \in Extent, extents'[d].status # "none",
               NEW k \in PacketsOf(d)'
        PROVE  k \in Cut' /\ packets'[k].extent = d
    <3>1. CASE d = e
      BY <3>1, <2>2, <1>6, <1>9, <1>11, Zenon
    <3>2. CASE d # e
      <4>1. k \in Cut /\ packets[k].extent = d
        BY <3>2, <2>2, <1>8, <1>12, Zenon DEF Membership
      <4> QED BY <4>1, <1>6, <1>10, Zenon
    <3> QED BY <3>1, <3>2, Zenon
  <2> QED BY <2>1, <2>2, Zenon DEF Membership
<1>15. Counted'
  <2>1. ASSUME NEW d \in Extent, d # e, extents[d].status # "none"
        PROVE  Retired(d)' = Retired(d)
    <3>1. \A k \in PacketsOf(d) : packets'[k] = packets[k]
      BY <2>1, <1>6, <1>10, <1>13, Zenon
    <3> QED BY <2>1, <3>1, <1>12, Zenon DEF Retired
  <2>2. Retired(e)' = {}
    BY <1>9, <1>11, Zenon DEF Retired
  <2>3. Cardinality(Retired(e)') = 0
    BY <2>2, FS_EmptySet, Zenon
  <2> QED BY <2>1, <2>3, <1>1, <1>7, <1>8, <1>12 DEF Counted
<1> QED BY <1>14, <1>15, Zenon

\* What go-back-N does to each packet.
LEMMA GoBackNPackets ==
    ASSUME TxTypeOK, NEW bound, NEW psn \in Nat, NEW t \in Time,
           GoBackN(bound, psn, t)
    PROVE  /\ \A k \in Packet : /\ packets'[k].extent = packets[k].extent
                                /\ packets'[k].terminal = packets[k].terminal
                                /\ packets'[k].bytes = packets[k].bytes
                                /\ packets'[k].issued_at = packets[k].issued_at
           /\ \A k \in AtOrAbove(psn) : ~packets'[k].issued
           /\ \A k \in Packet \ AtOrAbove(psn) : packets'[k] = packets[k]
<1>1. packets \in [Packet -> PacketRecord] /\ AtOrAbove(psn) \subseteq Packet
  BY Zenon DEF TxTypeOK, AtOrAbove
<1>2. packets' = [k \in Packet |->
         IF k \in AtOrAbove(psn) THEN Requeued(packets[k], t) ELSE packets[k]]
  BY Zenon DEF GoBackN
<1> QED BY <1>1, <1>2, RequeuedFields

\* Go-back-N moves packets from the wire to the queue and loses none.
LEMMA GoBackNPlaces ==
    ASSUME TxTypeOK, Places, TransportEnabled, NEW psn \in Nat, NEW t \in Time,
           NEW bound \in SUBSET bindings,
           \A tok \in bindings \ bound : tok[1] \in AtOrAbove(psn),
           GoBackN(bound, psn, t), cut' = cut
    PROVE  Places'
<1> DEFINE closed == AtOrAbove(psn)
<1>1. closed \subseteq live /\ live \subseteq Cut /\ Cut' = Cut
  BY Zenon DEF AtOrAbove, Places, Cut
<1>2. Cut \subseteq Packet
  <2>1. cut \in 0 .. MaxPackets /\ MaxPackets \in Nat
    BY ConfigAssumption, Zenon DEF TxTypeOK
  <2> QED BY <2>1 DEF Cut, Packet
<1>3. /\ \A k \in Packet : packets'[k].terminal = packets[k].terminal
      /\ \A k \in closed : ~packets'[k].issued
      /\ \A k \in Packet \ closed : packets'[k] = packets[k]
  BY GoBackNPackets, Zenon
<1>4. /\ queue' = queue \cup closed
      /\ live' = live \ closed
      /\ bindings' = bound \ {CurrentToken(k) : k \in closed}
  BY Zenon DEF GoBackN
<1> HIDE DEF closed
<1>5. queue \cap closed = {}
  BY <1>1, Zenon DEF Places
<1>6. queue' \subseteq Cut /\ live' \subseteq Cut
  BY <1>1, <1>4, Zenon DEF Places
<1>7. \A k \in queue' : ~packets'[k].issued /\ ~packets'[k].terminal
  BY <1>1, <1>2, <1>3, <1>4, <1>5, Zenon DEF Places
<1>8. \A k \in live' : packets'[k].issued /\ ~packets'[k].terminal
  BY <1>1, <1>2, <1>3, <1>4, Zenon DEF Places
<1>9. ASSUME NEW tok \in bindings'
      PROVE  /\ tok = CurrentToken(tok[1])' /\ tok[1] \in Cut
             /\ packets'[tok[1]].issued /\ ~packets'[tok[1]].terminal
             /\ TransportEnabled => tok[1] \in live'
  <2>1. /\ tok = CurrentToken(tok[1]) /\ tok[1] \in Cut /\ tok[1] \in live
        /\ packets[tok[1]].issued /\ ~packets[tok[1]].terminal
    BY <1>4, <1>9, Zenon DEF Places
  <2>2. tok[1] \notin closed
    BY <1>4, <1>9, <2>1, Zenon
  <2>3. packets'[tok[1]] = packets[tok[1]]
    BY <1>2, <1>3, <2>1, <2>2, Zenon
  <2> QED BY <1>4, <2>1, <2>2, <2>3, Zenon DEF CurrentToken
<1>10. \A k \in Cut : \/ packets'[k].terminal \/ k \in queue' \/ k \in live'
                      \/ CurrentToken(k)' \in bindings'
  <2> SUFFICES ASSUME NEW k \in Cut, ~packets[k].terminal, k \notin queue
               PROVE  k \in queue' \/ k \in live'
    BY <1>2, <1>3, <1>4, Zenon
  <2>1. k \in live
    <3>1. CASE CurrentToken(k) \in bindings
      <4>1. CurrentToken(k)[1] = k
        BY Zenon DEF CurrentToken
      <4> QED BY <3>1, <4>1, Zenon DEF Places
    <3> QED BY <3>1, Zenon DEF Places
  <2> QED BY <2>1, <1>4, Zenon
<1> QED BY <1>1, <1>6, <1>7, <1>8, <1>9, <1>10, Zenon DEF Places

\* Steps that touch none of it keep all of it.
LEMMA PlacesUnchanged ==
    ASSUME Membership, Counted, Places,
           UNCHANGED <<cut, extents, packets, queue, live, bindings>>
    PROVE  Membership' /\ Counted' /\ Places'
<1>1. Cut' = Cut
  BY Zenon DEF Cut
<1>2. \A e \in Extent : PacketsOf(e)' = PacketsOf(e) /\ Retired(e)' = Retired(e)
  BY Zenon DEF PacketsOf, Retired
<1>3. Membership'
  BY <1>1, Zenon DEF Membership, PacketsOf
<1>4. Counted'
  BY <1>2, Zenon DEF Counted
<1>5. Places'
  BY <1>1, Zenon DEF Places, CurrentToken
<1> QED BY <1>3, <1>4, <1>5, Zenon

\* A NAK keeps every packet somewhere.
LEMMA OnTransportPacketPlaces ==
    ASSUME TxTypeOK, Membership, Counted, Places, NEW psn \in Nat,
           NEW kind, NEW t \in Time, OnTransportPacket(kind, psn, t)
    PROVE  Membership' /\ Counted' /\ Places'
<1>1. TransportEnabled /\ cut' = cut /\ extents' = extents
  BY Zenon DEF OnTransportPacket
<1>2. CASE Absorbed(kind, psn)
  <2>1. UNCHANGED <<cut, extents, packets, queue, live, bindings>>
    BY <1>2, Zenon DEF OnTransportPacket
  <2> QED BY <2>1, PlacesUnchanged, Zenon
<1>3. CASE ~Absorbed(kind, psn)
  <2>1. GoBackN(bindings, psn, t)
    BY <1>3, Zenon DEF OnTransportPacket
  <2>2. Membership' /\ Counted'
    BY <1>1, <2>1, GoBackNPackets, NothingRetires, Zenon
  <2>3. Places'
    BY <1>1, <2>1, GoBackNPlaces, Zenon
  <2> QED BY <2>2, <2>3, Zenon
<1> QED BY <1>2, <1>3, Zenon

\* So does a timeout.
LEMMA ReleaseBeginPlaces ==
    ASSUME TxTypeOK, Membership, Counted, Places, NEW t \in Time,
           ReleaseBegin(t)
    PROVE  Membership' /\ Counted' /\ Places'
<1> DEFINE due == TimerArmed /\ EarliestTimeout =< t
<1>1. cut' = cut /\ extents' = extents
  BY Zenon DEF ReleaseBegin
<1>2. CASE ~due
  <2>1. UNCHANGED <<cut, extents, packets, queue, live, bindings>>
    BY <1>2, Zenon DEF ReleaseBegin
  <2> QED BY <2>1, PlacesUnchanged, Zenon
<1>3. CASE due
  <2> DEFINE psn == Psn(LowestPsn(live))
  <2>1. psn \in Nat
    <3>1. live \in SUBSET Packet /\ live # {}
      BY <1>3, Zenon DEF TxTypeOK, TimerArmed
    <3>2. LowestPsn(live) \in Packet
      BY <3>1, LowestPsnProperty, Zenon
    <3> QED BY <3>2, PsnType, PsnAssumption
  <2>2. GoBackN(bindings, psn, t) /\ TransportEnabled
    BY <1>3, Zenon DEF ReleaseBegin, TimerArmed
  <2> HIDE DEF psn
  <2>3. Membership' /\ Counted'
    BY <1>1, <2>1, <2>2, GoBackNPackets, NothingRetires, Zenon
  <2>4. Places'
    BY <1>1, <2>1, <2>2, GoBackNPlaces, Zenon
  <2> QED BY <2>3, <2>4, Zenon
<1> QED BY <1>2, <1>3, Zenon

\* An accepted packet moves from the queue to the wire.
LEMMA ReleaseAcceptedPlaces ==
    ASSUME TxTypeOK, Membership, Counted, Places, NEW bitDelay, NEW messageDelay,
           ReleaseAccepted(bitDelay, messageDelay),
           NEW k, k = LowestPsn(queue), NEW e, e = packets[k].extent
    PROVE  Membership' /\ Counted' /\ Places'
<1>1. CanIssue
  BY Zenon DEF ReleaseAccepted
<1>2. k \in queue /\ k \in Packet
  BY <1>1, IssueFacts, Zenon
<1>3. packets \in [Packet -> PacketRecord] /\ extents \in [Extent -> ExtentRecord]
  BY Zenon DEF TxTypeOK
<1>4. packets' = [packets EXCEPT ![k].issued = TRUE, ![k].issued_at = now]
  BY Zenon DEF ReleaseAccepted
<1>5. extents' = [extents EXCEPT ![e].in_flight = TRUE, ![e].issued_count = @ + 1]
  BY Zenon DEF ReleaseAccepted
<1>6. /\ queue' = queue \ {k} /\ cut' = cut
      /\ live' = IF TransportEnabled THEN live \cup {k} ELSE live
      /\ bindings' = bindings \cup {CurrentToken(k)}
  BY Zenon DEF ReleaseAccepted
<1>7. /\ \A j \in Packet : /\ packets'[j].extent = packets[j].extent
                           /\ packets'[j].terminal = packets[j].terminal
                           /\ packets'[j].attempt = packets[j].attempt
                           /\ j # k => packets'[j] = packets[j]
      /\ packets'[k].issued
  BY SMTT(20), <1>2, <1>3, <1>4 DEF PacketRecord
<1>8. \A d \in Extent : /\ extents'[d].first = extents[d].first
                        /\ extents'[d].size = extents[d].size
                        /\ extents'[d].status = extents[d].status
                        /\ extents'[d].terminal_count = extents[d].terminal_count
  BY <1>3, <1>5 DEF ExtentRecord
<1>9. Membership' /\ Counted'
  BY <1>6, <1>7, <1>8, NothingRetires, Zenon
<1>10. Cut' = Cut /\ Cut \subseteq Packet
  <2>1. cut \in 0 .. MaxPackets /\ MaxPackets \in Nat
    BY ConfigAssumption, Zenon DEF TxTypeOK
  <2> QED BY <2>1, <1>6 DEF Cut, Packet
<1>11. \A j \in Packet : CurrentToken(j)' = CurrentToken(j)
  BY <1>7, Zenon DEF CurrentToken
<1>12. queue' \subseteq Cut' /\ live' \subseteq Cut' /\ (TransportEnabled \/ live' = {})
  BY <1>2, <1>6, <1>10, Zenon DEF Places
<1>13. \A j \in queue' : ~packets'[j].issued /\ ~packets'[j].terminal
  BY <1>6, <1>7, <1>10, Zenon DEF Places
<1>14. \A j \in live' : packets'[j].issued /\ ~packets'[j].terminal
  BY <1>2, <1>6, <1>7, <1>10 DEF Places
<1>15. ASSUME NEW tok \in bindings'
       PROVE  /\ tok = CurrentToken(tok[1])' /\ tok[1] \in Cut'
              /\ packets'[tok[1]].issued /\ ~packets'[tok[1]].terminal
              /\ TransportEnabled => tok[1] \in live'
  <2>1. CASE tok = CurrentToken(k)
    <3>1. tok[1] = k /\ k \in Cut /\ ~packets[k].terminal
      BY <2>1, <1>2, Zenon DEF CurrentToken, Places
    <3> QED BY <2>1, <3>1, <1>2, <1>6, <1>7, <1>10, <1>11, Zenon
  <2>2. CASE tok \in bindings
    <3>1. /\ tok = CurrentToken(tok[1]) /\ tok[1] \in Cut
          /\ packets[tok[1]].issued /\ ~packets[tok[1]].terminal
          /\ TransportEnabled => tok[1] \in live
      BY <2>2, Zenon DEF Places
    <3>2. tok[1] # k
      BY <3>1, <1>2, Zenon DEF Places
    <3> QED BY <3>1, <3>2, <1>6, <1>7, <1>10, <1>11, Zenon
  <2> QED BY <2>1, <2>2, <1>6, <1>15, Zenon
<1>16. \A j \in Cut' : \/ packets'[j].terminal \/ j \in queue' \/ j \in live'
                       \/ CurrentToken(j)' \in bindings'
  <2> SUFFICES ASSUME NEW j \in Cut
               PROVE  \/ packets[j].terminal \/ j \in queue' \/ j \in live'
                      \/ CurrentToken(j) \in bindings'
    BY <1>7, <1>10, <1>11, Zenon
  <2>1. \/ packets[j].terminal \/ j \in queue \/ j \in live
        \/ CurrentToken(j) \in bindings
    BY Zenon DEF Places
  <2> QED BY <1>6, <2>1, Zenon
<1>17. Places'
  BY <1>12, <1>13, <1>14, <1>15, <1>16, SMTT(20) DEF Places
<1> QED BY <1>9, <1>17, Zenon

\* A packet that retires leaves every place.
LEMMA RetirePlaces ==
    ASSUME TxTypeOK, Places, cut' = cut, NEW k \in Cut, ~packets[k].terminal,
           \A j \in Packet : j # k => packets'[j] = packets[j],
           packets'[k].terminal,
           queue' = queue \ {k}, live' = live \ {k},
           bindings' = bindings \ {CurrentToken(k)}
    PROVE  Places'
<1>1. Cut' = Cut /\ Cut \subseteq Packet
  <2>1. cut \in 0 .. MaxPackets /\ MaxPackets \in Nat
    BY ConfigAssumption, Zenon DEF TxTypeOK
  <2> QED BY <2>1 DEF Cut, Packet
<1>2. /\ queue' \subseteq Cut' /\ live' \subseteq Cut'
      /\ TransportEnabled \/ live' = {}
  BY <1>1, Zenon DEF Places
<1>3. \A j \in queue' : ~packets'[j].issued /\ ~packets'[j].terminal
  BY <1>1, Zenon DEF Places
<1>4. \A j \in live' : packets'[j].issued /\ ~packets'[j].terminal
  BY <1>1, Zenon DEF Places
<1>5. ASSUME NEW tok \in bindings'
      PROVE  /\ tok = CurrentToken(tok[1])' /\ tok[1] \in Cut'
             /\ packets'[tok[1]].issued /\ ~packets'[tok[1]].terminal
             /\ TransportEnabled => tok[1] \in live'
  <2>1. /\ tok = CurrentToken(tok[1]) /\ tok[1] \in Cut
        /\ packets[tok[1]].issued /\ ~packets[tok[1]].terminal
        /\ TransportEnabled => tok[1] \in live
    BY <1>5, Zenon DEF Places
  <2>2. tok[1] # k
    BY <1>5, <2>1, Zenon
  <2> QED BY <2>1, <2>2, <1>1, Zenon DEF CurrentToken
<1>6. \A j \in Cut' : \/ packets'[j].terminal \/ j \in queue' \/ j \in live'
                      \/ CurrentToken(j)' \in bindings'
  <2> SUFFICES ASSUME NEW j \in Cut, j # k
               PROVE  \/ packets'[j].terminal \/ j \in queue' \/ j \in live'
                      \/ CurrentToken(j)' \in bindings'
    BY <1>1, Zenon
  <2>1. packets'[j] = packets[j] /\ CurrentToken(j)' = CurrentToken(j)
    BY <1>1, Zenon DEF CurrentToken
  <2>2. CurrentToken(j) # CurrentToken(k)
    BY Zenon DEF CurrentToken
  <2> QED BY <2>1, <2>2, Zenon DEF Places
<1> QED BY <1>2, <1>3, <1>4, <1>5, <1>6, Zenon DEF Places

\* A refused packet leaves the queue and retires.
LEMMA ReleaseRejectedPlaces ==
    ASSUME TxTypeOK, Membership, Counted, Places, ReleaseRejected
    PROVE  Membership' /\ Counted' /\ Places'
<1> DEFINE k == LowestPsn(queue)
           e == packets[k].extent
           x == [extents[e] EXCEPT !.in_flight = TRUE, !.issued_count = @ + 1]
<1>1. k \in queue /\ k \in Packet
  <2>1. CanIssue
    BY Zenon DEF ReleaseRejected
  <2> QED BY <2>1, IssueFacts, Zenon
<1>2. /\ packets' = [packets EXCEPT ![k].issued = TRUE, ![k].issued_at = now,
                                    ![k].terminal = TRUE]
      /\ extents' = [extents EXCEPT ![e] = Retire(x, TRUE)]
      /\ queue' = queue \ {k} /\ live' = live /\ bindings' = bindings
      /\ cut' = cut
  BY Zenon DEF ReleaseRejected
<1>3. packets \in [Packet -> PacketRecord] /\ extents \in [Extent -> ExtentRecord]
  BY Zenon DEF TxTypeOK
<1> HIDE DEF k
<1>4. k \in Cut /\ ~packets[k].terminal /\ k \notin live
      /\ CurrentToken(k) \notin bindings
  <2>1. CurrentToken(k)[1] = k
    BY Zenon DEF CurrentToken
  <2> QED BY <1>1, <2>1, Zenon DEF Places
<1>5. e \in Extent
  BY <1>4, Zenon DEF Membership
<1>6. x \in ExtentRecord /\ x.first = extents[e].first
      /\ x.size = extents[e].size /\ x.status = extents[e].status
      /\ x.terminal_count = extents[e].terminal_count
  <2> DEFINE n == extents[e].issued_count + 1
  <2>1. extents[e] \in ExtentRecord
    BY <1>3, <1>5, Zenon
  <2>2. n \in Nat
    BY <2>1 DEF ExtentRecord
  <2>3. x = [extents[e] EXCEPT !.in_flight = TRUE, !.issued_count = n]
    BY <2>1, Zenon DEF ExtentRecord
  <2> HIDE DEF n, x, e
  <2> QED BY <2>1, <2>2, <2>3, Zenon DEF ExtentRecord
<1>7. \A j \in Packet : /\ packets'[j].extent = packets[j].extent
                        /\ packets'[j].terminal = (packets[j].terminal \/ j = k)
                        /\ j # k => packets'[j] = packets[j]
  BY <1>1, <1>2, <1>3, Zenon DEF PacketRecord
<1>8. packets'[k].terminal
  BY <1>1, <1>7, Zenon
<1> HIDE DEF x
<1>9. Membership' /\ Counted'
  BY <1>2, <1>4, <1>6, <1>7, OneRetires, Zenon
<1>10. Places'
  BY <1>2, <1>4, <1>7, <1>8, RetirePlaces, ZenonT(30)
<1> QED BY <1>9, <1>10, Zenon

\* A submission queues every packet it cuts.
LEMMA SubmitPlaces ==
    ASSUME TxTypeOK, Places, NEW payload \in Payloads, NEW t \in Time,
           TrySubmit(payload, t)
    PROVE  Places'
<1> DEFINE n == PacketCount(payload)
           fresh == cut .. cut + n - 1
<1>1. PICK e \in Extent :
         packets' = [k \in Packet |->
               IF k \in fresh
               THEN FreshPacket(e, PacketBytes(payload, k - cut), t)
               ELSE packets[k]]
  BY Zenon DEF TrySubmit
<1>2. /\ cut + n =< MaxPackets /\ cut' = cut + n /\ queue' = queue \cup fresh
      /\ live' = live /\ bindings' = bindings
  BY Zenon DEF TrySubmit
<1>3. n \in Nat
  <2>1. payload \in Nat /\ Mtu \in Nat \ {0}
    BY ConfigAssumption, Zenon
  <2> QED BY <2>1 DEF PacketCount
<1>4. cut \in Nat /\ MaxPackets \in Nat
  BY ConfigAssumption DEF TxTypeOK
<1>5. ASSUME NEW k \in fresh
      PROVE  ~packets'[k].issued /\ ~packets'[k].terminal
  <2>1. PacketBytes(payload, k - cut) \in 0 .. Mtu
    BY <1>3, <1>4, PacketBytesType
  <2>2. k \in Packet
    BY <1>2, <1>3, <1>4 DEF Packet
  <2>3. packets'[k] = FreshPacket(e, PacketBytes(payload, k - cut), t)
    BY <1>1, <2>2, Zenon
  <2> QED BY <2>1, <2>3, FreshPacketType DEF Time
<1> HIDE DEF n
<1>6. /\ Cut' = Cut \cup fresh /\ Cut \cap fresh = {}
      /\ Cut \subseteq Packet
  BY <1>2, <1>3, <1>4 DEF Cut, Packet
<1>7. \A k \in Cut : packets'[k] = packets[k]
  BY <1>1, <1>6, Zenon
<1> HIDE DEF fresh
<1>8. \A k \in Cut : CurrentToken(k)' = CurrentToken(k)
  BY <1>7, Zenon DEF CurrentToken
<1> QED BY <1>2, <1>5, <1>6, <1>7, <1>8 DEF Places

\* The three terminals of an attempt that retire its packet.
LEMMA TerminalPlaces ==
    ASSUME TxTypeOK, Membership, Counted, Places, NEW tok \in bindings,
           NEW kind, NEW t, Terminal(tok, kind, t), cut' = cut,
           queue' = queue, live' = live \ {tok[1]}
    PROVE  Membership' /\ Counted' /\ Places'
<1> DEFINE k == tok[1]
           e == packets[k].extent
<1>1. k \in Cut /\ ~packets[k].terminal /\ k \notin queue
      /\ tok = CurrentToken(k)
  BY Zenon DEF Places
<1>2. k \in Packet
  <2>1. cut \in 0 .. MaxPackets /\ MaxPackets \in Nat
    BY ConfigAssumption, Zenon DEF TxTypeOK
  <2> QED BY <1>1, <2>1 DEF Cut, Packet
<1>3. /\ packets' = [packets EXCEPT ![k].terminal = TRUE]
      /\ extents' = [extents EXCEPT ![e] = Retire(extents[e], kind = "dropped")]
      /\ bindings' = bindings \ {tok}
  BY Zenon DEF Terminal
<1>4. packets \in [Packet -> PacketRecord] /\ extents \in [Extent -> ExtentRecord]
  BY Zenon DEF TxTypeOK
<1>5. extents[e] \in ExtentRecord
  BY <1>1, <1>4, Zenon DEF Membership
<1>6. \A j \in Packet : /\ packets'[j].extent = packets[j].extent
                        /\ packets'[j].terminal = (packets[j].terminal \/ j = k)
                        /\ j # k => packets'[j] = packets[j]
  BY <1>2, <1>3, <1>4, Zenon DEF PacketRecord
<1>7. packets'[k].terminal
  BY <1>2, <1>6, Zenon
<1>8. (kind = "dropped") \in BOOLEAN
  OBVIOUS
<1> HIDE DEF k
<1>9. Membership' /\ Counted'
  BY <1>1, <1>3, <1>5, <1>6, <1>8, OneRetires, Zenon
<1>10. queue' = queue \ {k} /\ live' = live \ {k}
  BY <1>1, Zenon DEF k
<1>11. Places'
  BY <1>1, <1>3, <1>6, <1>7, <1>10, RetirePlaces, SMTT(20)
<1> QED BY <1>9, <1>11, Zenon

\* A delivery retires the packet.
LEMMA OnDeliveredPlaces ==
    ASSUME TxTypeOK, Membership, Counted, Places, NEW tok, NEW t,
           OnDelivered(tok, t)
    PROVE  Membership' /\ Counted' /\ Places'
BY TerminalPlaces, Zenon DEF OnDelivered

\* A drop retires the packet, leaves it live for the timer, or requeues it.
LEMMA OnDroppedPlaces ==
    ASSUME TxTypeOK, Membership, Counted, Places, NEW tok, NEW t \in Time,
           OnDropped(tok, t)
    PROVE  Membership' /\ Counted' /\ Places'
<1> DEFINE psn == Psn(tok[1])
<1>1. tok \in bindings /\ cut' = cut
  BY Zenon DEF OnDropped
<1>2. CASE ~TransportEnabled
  <2>1. Terminal(tok, "dropped", t) /\ queue' = queue /\ live' = live
    BY <1>2, Zenon DEF OnDropped
  <2>2. live \ {tok[1]} = live
    BY <1>2, Zenon DEF Places
  <2> QED BY <1>1, <2>1, <2>2, TerminalPlaces, Zenon
<1>3. CASE TransportEnabled /\ InEpisode(psn)
  <2>1. /\ bindings' = bindings \ {tok}
        /\ UNCHANGED <<extents, packets, queue, live>>
    BY <1>3, Zenon DEF OnDropped
  <2>2. Membership' /\ Counted'
    BY <1>1, <2>1, NothingRetires, Zenon
  <2>3. tok[1] \in live /\ tok = CurrentToken(tok[1])
    BY <1>1, <1>3, Zenon DEF Places
  <2>4. Cut' = Cut /\ \A k \in Cut : CurrentToken(k)' = CurrentToken(k)
    BY <1>1, <2>1, Zenon DEF Cut, CurrentToken
  <2>5. \A k \in Cut : k # tok[1] => CurrentToken(k) # tok
    BY DEF CurrentToken
  <2>6. Places'
    BY <2>1, <2>3, <2>4, <2>5 DEF Places, CurrentToken
  <2> QED BY <2>2, <2>6, Zenon
<1>4. CASE TransportEnabled /\ ~InEpisode(psn)
  <2>1. GoBackN(bindings \ {tok}, psn, t) /\ extents' = extents
    BY <1>4, Zenon DEF OnDropped
  <2>2. tok[1] \in live /\ tok[1] \in Packet
    BY <1>1, <1>4, Zenon DEF Places, TxTypeOK
  <2>3. psn \in Nat
    BY <2>2, PsnType, PsnAssumption
  <2>4. tok[1] \in AtOrAbove(psn)
    BY <2>2, <2>3 DEF AtOrAbove
  <2> HIDE DEF psn
  <2>5. Membership' /\ Counted'
    BY <1>1, <2>1, <2>3, GoBackNPackets, NothingRetires, Zenon
  <2>6. Places'
    BY <1>1, <1>4, <2>1, <2>3, <2>4, GoBackNPlaces, Zenon
  <2> QED BY <2>5, <2>6, Zenon
<1> QED BY <1>2, <1>3, <1>4, Zenon

-----------------------------------------------------------------------------
(* A step of the pipeline, whoever takes it. *)

TxStep ==
    \/ \E t \in Time, payload \in Payloads : TrySubmit(payload, t)
    \/ \E t \in Time : ReleaseBegin(t)
    \/ \E b, m \in Nat : ReleaseAccepted(b, m)
    \/ ReleaseRejected
    \/ ReleaseEnd \/ \E t \in Time : ReleaseBusy(t)
    \/ \E t \in Time, psn \in Nat, kind \in {"Ack", "Nak"} :
          OnTransportPacket(kind, psn, t)
    \/ \E t \in Time, tok \in Token : OnDelivered(tok, t)
    \/ \E t \in Time, tok \in Token : OnDropped(tok, t)
    \/ \E t \in Time, tok \in Token : OnArrived(tok, t) \/ OnStaleEvent(tok, t)

\* The pipeline starts with nothing cut.
LEMMA TxInitPlaces == TxInit => PlacesInv
<1> SUFFICES ASSUME TxInit PROVE PlacesInv
  OBVIOUS
<1>1. TxTypeOK
  BY TxInitTypes, Zenon
<1>2. Cut = {}
  BY DEF TxInit, Cut
<1>3. \A e \in Extent : extents[e].status = "none"
  BY Zenon DEF TxInit, NoExtent
<1>4. queue = {} /\ live = {} /\ bindings = {}
  BY Zenon DEF TxInit
<1> QED BY <1>1, <1>2, <1>3, <1>4, Zenon DEF PlacesInv, Membership, Counted, Places

\* Every call into the pipeline, by whichever caller, keeps its state well
\* typed and every packet in its place.
LEMMA TxStepPlaces == PlacesInv /\ [TxStep]_txVars => PlacesInv'
<1> SUFFICES ASSUME PlacesInv, [TxStep]_txVars PROVE PlacesInv'
  OBVIOUS
<1>1. TxTypeOK /\ Membership /\ Counted /\ Places
  BY Zenon DEF PlacesInv
<1>2. CASE \E t \in Time, payload \in Payloads : TrySubmit(payload, t)
  BY <1>1, <1>2, TrySubmitTypes, SubmitCounts, SubmitPlaces, Zenon DEF PlacesInv
<1>3. CASE \E t \in Time : ReleaseBegin(t)
  BY <1>1, <1>3, ReleaseBeginTypes, ReleaseBeginPlaces, Zenon DEF PlacesInv
<1>4. CASE \E b, m \in Nat : ReleaseAccepted(b, m)
  BY <1>1, <1>4, ReleaseAcceptedTypes, ReleaseAcceptedPlaces, Zenon DEF PlacesInv
<1>5. CASE ReleaseRejected
  BY <1>1, <1>5, ReleaseRejectedTypes, ReleaseRejectedPlaces, Zenon DEF PlacesInv
<1>6. CASE \E t \in Time, psn \in Nat, kind \in {"Ack", "Nak"} :
             OnTransportPacket(kind, psn, t)
  BY <1>1, <1>6, OnTransportPacketTypes, OnTransportPacketPlaces, Zenon
     DEF PlacesInv
<1>7. CASE \E t \in Time, tok \in Token : OnDelivered(tok, t)
  BY <1>1, <1>7, OnEventTypes, OnDeliveredPlaces, Zenon DEF PlacesInv
<1>8. CASE \E t \in Time, tok \in Token : OnDropped(tok, t)
  BY <1>1, <1>8, OnEventTypes, OnDroppedPlaces, Zenon DEF PlacesInv
<1>9. CASE \/ ReleaseEnd \/ \E t \in Time : ReleaseBusy(t)
           \/ \E t \in Time, tok \in Token :
                OnArrived(tok, t) \/ OnStaleEvent(tok, t)
           \/ UNCHANGED txVars
  <2>1. TxTypeOK'
    <3>1. CASE UNCHANGED txVars
      BY <1>1, <3>1, Zenon DEF txVars, TxTypeOK
    <3> QED BY <1>1, <1>9, <3>1, ReleaseStopsTypes, OnEventTypes, Zenon
  <2>2. UNCHANGED <<cut, extents, packets, queue, live, bindings>>
    BY <1>9, Zenon DEF ReleaseBusy, ReleaseEnd, OnArrived, OnStaleEvent, txVars
  <2> QED BY <1>1, <2>1, <2>2, PlacesUnchanged, Zenon DEF PlacesInv
<1> QED BY <1>2, <1>3, <1>4, <1>5, <1>6, <1>7, <1>8, <1>9, Zenon DEF TxStep

-----------------------------------------------------------------------------
(* The order of the attempts on the wire, for every run whose sequence     *)
(* numbers do not wrap: past the wrap the lowest number is not the oldest. *)

\* The sequence numbers of a run never wrap.
NoWrap == InitialPsn + MaxPackets =< PsnModulus

\* What is on the wire went out in the order it was cut, and before what waits.
Order ==
    /\ \A j \in live, k \in queue : j < k
    /\ \A j, k \in live : j < k => packets[j].issued_at =< packets[k].issued_at
    /\ \A k \in live : packets[k].issued_at =< now

\* Without a wrap, sequence numbers compare as ordinals do.
LEMMA PsnOrder ==
    ASSUME NoWrap, NEW j \in Packet, NEW k \in Packet
    PROVE  (Psn(j) < Psn(k)) <=> (j < k)
<1>1. /\ InitialPsn \in Nat /\ MaxPackets \in Nat /\ PsnModulus \in Nat \ {0}
      /\ j \in Nat /\ k \in Nat /\ j < MaxPackets /\ k < MaxPackets
  BY ConfigAssumption, PsnAssumption DEF Packet
<1>2. \A i \in Nat : i < PsnModulus => i % PsnModulus = i
  BY <1>1
<1>3. InitialPsn + j < PsnModulus /\ InitialPsn + k < PsnModulus
  BY <1>1 DEF NoWrap
<1>4. Psn(j) = InitialPsn + j /\ Psn(k) = InitialPsn + k
  BY <1>1, <1>2, <1>3 DEF Psn, PsnAfter
<1> QED BY <1>1, <1>4

\* Go-back-N takes the newest attempts back and leaves the oldest.
LEMMA GoBackNOrder ==
    ASSUME TxTypeOK, Order, NoWrap, NEW bound, NEW psn \in Nat, NEW t \in Time,
           GoBackN(bound, psn, t), now' = t, t >= now
    PROVE  Order'
<1>1. live \subseteq Packet /\ queue \subseteq Packet /\ now \in Nat /\ t \in Nat
      /\ packets \in [Packet -> PacketRecord]
  BY DEF TxTypeOK, Time
<1>2. queue' = queue \cup AtOrAbove(psn) /\ live' = live \ AtOrAbove(psn)
  BY Zenon DEF GoBackN
<1>3. \A k \in Packet : packets'[k].issued_at = packets[k].issued_at
  BY GoBackNPackets, Zenon
<1>4. \A k \in Packet : packets[k].issued_at \in Nat
  BY <1>1, Zenon DEF PacketRecord
<1>5. ASSUME NEW j \in live', NEW k \in queue'
      PROVE  j < k
  <2>1. CASE k \in queue
    BY <2>1, <1>2, <1>5, Zenon DEF Order
  <2>2. CASE k \in AtOrAbove(psn)
    <3>1. j \in live /\ k \in live /\ Psn(j) \in Nat /\ Psn(k) \in Nat
      BY <2>2, <1>1, <1>2, PsnType, PsnAssumption DEF AtOrAbove
    <3>2. Psn(k) >= psn /\ ~(Psn(j) >= psn)
      BY <2>2, <1>2, <1>5, <3>1, Zenon DEF AtOrAbove
    <3>3. Psn(j) < Psn(k)
      BY <3>1, <3>2
    <3> QED BY <3>1, <3>3, <1>1, PsnOrder, Zenon
  <2> QED BY <2>1, <2>2, <1>2, Zenon
<1>6. \A k \in live' : packets'[k].issued_at =< now'
  <2> SUFFICES ASSUME NEW k \in live'
               PROVE  packets'[k].issued_at =< now'
    OBVIOUS
  <2>1. k \in Packet /\ packets[k].issued_at =< now /\ packets[k].issued_at \in Nat
    BY <1>1, <1>2, <1>4, Zenon DEF Order
  <2> QED BY <2>1, <1>1, <1>3
<1>7. \A j, k \in live' : j < k => packets'[j].issued_at =< packets'[k].issued_at
  BY <1>1, <1>2, <1>3, Zenon DEF Order
<1> QED BY <1>5, <1>6, <1>7, Zenon DEF Order

\* Attempts leave the wire and time passes: what stays is still in order.
LEMMA ShrinkingKeepsOrder ==
    ASSUME TxTypeOK, Order, now' \in Nat, now' >= now, live' \subseteq live,
           queue' \subseteq queue,
           \A k \in Packet : packets'[k].issued_at = packets[k].issued_at
    PROVE  Order'
<1>1. live \subseteq Packet /\ now \in Nat /\ packets \in [Packet -> PacketRecord]
  BY DEF TxTypeOK, Time
<1>2. \A k \in Packet : packets[k].issued_at \in Nat
  BY <1>1, Zenon DEF PacketRecord
<1>3. \A k \in live' : packets'[k].issued_at =< now'
  <2> SUFFICES ASSUME NEW k \in live'
               PROVE  packets'[k].issued_at =< now'
    OBVIOUS
  <2>1. k \in Packet /\ packets[k].issued_at =< now /\ packets[k].issued_at \in Nat
    BY <1>1, <1>2, Zenon DEF Order
  <2> QED BY <2>1, <1>1
<1> QED BY <1>1, <1>3, Zenon DEF Order

\* A submission cuts packets newer than everything on the wire.
LEMMA SubmitOrder ==
    ASSUME TxTypeOK, Places, Order, NEW payload \in Payloads, NEW t \in Time,
           TrySubmit(payload, t)
    PROVE  Order'
<1> DEFINE n == PacketCount(payload)
           fresh == cut .. cut + n - 1
<1>1. PICK e \in Extent :
         packets' = [k \in Packet |->
               IF k \in fresh
               THEN FreshPacket(e, PacketBytes(payload, k - cut), t)
               ELSE packets[k]]
  BY Zenon DEF TrySubmit
<1>2. queue' = queue \cup fresh /\ live' = live /\ now' = t /\ t >= now
  BY Zenon DEF TrySubmit
<1>3. live \subseteq Packet /\ now \in Nat /\ t \in Nat /\ cut \in Nat
      /\ packets \in [Packet -> PacketRecord]
  BY ConfigAssumption DEF TxTypeOK, Time
<1>4. \A j \in live : j \in Nat /\ j < cut
  BY <1>3 DEF Places, Cut
<1>5. n \in Nat
  <2>1. payload \in Nat /\ Mtu \in Nat \ {0}
    BY ConfigAssumption, Zenon
  <2> QED BY <2>1 DEF PacketCount
<1> HIDE DEF n
<1>6. \A j \in live : j \notin fresh /\ packets'[j] = packets[j]
  BY <1>1, <1>3, <1>4, <1>5
<1>7. \A j \in live', k \in queue' : j < k
  BY <1>2, <1>3, <1>4, <1>5 DEF Order
<1>8. \A k \in live' : packets'[k].issued_at =< now'
  <2> SUFFICES ASSUME NEW k \in live
               PROVE  packets[k].issued_at =< t
    BY <1>2, <1>6, Zenon
  <2>1. packets[k].issued_at \in Nat /\ packets[k].issued_at =< now
    BY <1>3, Zenon DEF Order, PacketRecord
  <2> QED BY <2>1, <1>2, <1>3
<1> QED BY <1>2, <1>6, <1>7, <1>8, Zenon DEF Order

\* The packet accepted is the oldest waiting and the newest on the wire.
LEMMA ReleaseAcceptedOrder ==
    ASSUME TxTypeOK, Places, Order, NoWrap, NEW bitDelay, NEW messageDelay,
           ReleaseAccepted(bitDelay, messageDelay),
           NEW k, k = LowestPsn(queue)
    PROVE  Order'
<1>1. k \in queue /\ k \in Packet
  BY IssueFacts, Zenon DEF ReleaseAccepted
<1>2. \A j \in queue \ {k} : k < j
  <2> SUFFICES ASSUME NEW j \in queue, j # k
               PROVE  k < j
    OBVIOUS
  <2>1. queue \in SUBSET Packet /\ queue # {}
    BY <1>1, Zenon DEF TxTypeOK
  <2>2. Psn(k) =< Psn(j)
    BY <2>1, LowestPsnProperty, Zenon
  <2>3. j \in Packet /\ Psn(j) \in Nat /\ Psn(k) \in Nat
    BY <1>1, <2>1, PsnType, PsnAssumption
  <2>4. ~(j < k)
    BY <1>1, <2>2, <2>3, PsnOrder
  <2> QED BY <1>1, <2>3, <2>4 DEF Packet
<1>3. packets \in [Packet -> PacketRecord] /\ now \in Nat
      /\ live \subseteq Packet
  BY DEF TxTypeOK, Time
<1>4. packets' = [packets EXCEPT ![k].issued = TRUE, ![k].issued_at = now]
  BY Zenon DEF ReleaseAccepted
<1>5. queue' = queue \ {k} /\ live' \subseteq live \cup {k} /\ now' = now
  BY Zenon DEF ReleaseAccepted
<1>6. packets'[k].issued_at = now
      /\ \A j \in Packet : j # k => packets'[j] = packets[j]
  BY <1>1, <1>3, <1>4, Zenon DEF PacketRecord
<1>7. k \notin live
  BY <1>1, Zenon DEF Places
<1>8. \A i \in live', j \in queue' : i < j
  BY <1>2, <1>5, Zenon DEF Order
<1>9. \A j \in live : j < k /\ packets'[j] = packets[j] /\ packets[j].issued_at =< now
  BY <1>1, <1>3, <1>6, <1>7, Zenon DEF Order
<1>10. \A j \in live' : packets'[j].issued_at =< now'
  BY <1>3, <1>5, <1>6, <1>9
<1>11. \A i, j \in live' : i < j => packets'[i].issued_at =< packets'[j].issued_at
  <2> SUFFICES ASSUME NEW i \in live', NEW j \in live', i < j
               PROVE  packets'[i].issued_at =< packets'[j].issued_at
    OBVIOUS
  <2>1. CASE j = k
    BY <2>1, <1>5, <1>6, <1>10, Zenon
  <2>2. CASE i = k
    <3>1. j \in live /\ j \in Packet /\ k \in Packet
      BY <2>2, <1>1, <1>3, <1>5 DEF Packet
    <3>2. j < k /\ k < j
      BY <2>2, <3>1, <1>9, Zenon
    <3> QED BY <3>1, <3>2 DEF Packet
  <2>3. CASE i # k /\ j # k
    BY <2>3, <1>5, <1>9, Zenon DEF Order
  <2> QED BY <2>1, <2>2, <2>3, Zenon
<1> QED BY <1>8, <1>10, <1>11, Zenon DEF Order

\* A refused packet leaves the queue; nothing goes on the wire.
LEMMA ReleaseRejectedOrder ==
    ASSUME TxTypeOK, Order, ReleaseRejected
    PROVE  Order'
<1> DEFINE k == LowestPsn(queue)
<1>1. k \in Packet /\ k \in queue
  BY IssueFacts, Zenon DEF ReleaseRejected
<1>2. /\ packets' = [packets EXCEPT ![k].issued = TRUE, ![k].issued_at = now,
                                    ![k].terminal = TRUE]
      /\ queue' = queue \ {k} /\ live' = live /\ now' = now
  BY Zenon DEF ReleaseRejected
<1>3. packets \in [Packet -> PacketRecord] /\ now \in Nat
  BY DEF TxTypeOK, Time
<1> HIDE DEF k
<1>4. \A j \in Packet : j # k => packets'[j] = packets[j]
  BY <1>2, <1>3, Zenon
<1>5. k \notin live
  BY <1>1 DEF Order, Packet
<1>6. live \subseteq Packet
  BY Zenon DEF TxTypeOK
<1>7. \A j \in live : packets'[j] = packets[j]
  BY <1>4, <1>5, <1>6, Zenon
<1> QED BY <1>2, <1>7, Zenon DEF Order

\* Every step of the pipeline keeps the order.
LEMMA OrderInductive ==
    ASSUME NoWrap, PlacesInv, Order, [TxStep]_txVars
    PROVE  Order'
<1>1. TxTypeOK /\ Places
  BY Zenon DEF PlacesInv
<1>2. now \in Nat /\ live \subseteq Packet /\ Time \subseteq Nat
      /\ packets \in [Packet -> PacketRecord]
  BY <1>1 DEF TxTypeOK, Time
<1>3. CASE \E t \in Time, payload \in Payloads : TrySubmit(payload, t)
  BY <1>1, <1>3, SubmitOrder, Zenon
<1>4. CASE \E t \in Time : ReleaseBegin(t)
  <2>1. PICK t \in Time : ReleaseBegin(t)
    BY <1>4, Zenon
  <2>2. now' = t /\ t >= now /\ t \in Nat
    BY <2>1, <1>2, Zenon DEF ReleaseBegin
  <2>3. CASE TimerArmed /\ EarliestTimeout =< t
    <3> DEFINE psn == Psn(LowestPsn(live))
    <3>1. live \in SUBSET Packet /\ live # {}
      BY <2>3, <1>2, Zenon DEF TimerArmed
    <3>2. psn \in Nat
      BY <3>1, LowestPsnProperty, PsnType, PsnAssumption
    <3>3. GoBackN(bindings, psn, t)
      BY <2>1, <2>3, Zenon DEF ReleaseBegin
    <3> QED BY <1>1, <2>2, <3>2, <3>3, GoBackNOrder, Zenon
  <2>4. CASE ~(TimerArmed /\ EarliestTimeout =< t)
    <3>1. packets' = packets /\ queue' = queue /\ live' = live
      BY <2>1, <2>4, Zenon DEF ReleaseBegin
    <3> QED BY <1>1, <2>2, <3>1, ShrinkingKeepsOrder, Zenon
  <2> QED BY <2>3, <2>4, Zenon
<1>5. CASE \E b, m \in Nat : ReleaseAccepted(b, m)
  BY <1>1, <1>5, ReleaseAcceptedOrder, Zenon
<1>6. CASE ReleaseRejected
  BY <1>1, <1>6, ReleaseRejectedOrder, Zenon
<1>7. CASE \E t \in Time, psn \in Nat, kind \in {"Ack", "Nak"} :
             OnTransportPacket(kind, psn, t)
  <2>1. PICK t \in Time, psn \in Nat, kind \in {"Ack", "Nak"} :
           OnTransportPacket(kind, psn, t)
    BY <1>7, Zenon
  <2>2. now' = t /\ t >= now /\ t \in Nat
    BY <2>1, <1>2, Zenon DEF OnTransportPacket
  <2>4. CASE Absorbed(kind, psn)
    <3>1. packets' = packets /\ queue' = queue /\ live' = live
      BY <2>1, <2>4, Zenon DEF OnTransportPacket
    <3> QED BY <1>1, <2>2, <3>1, ShrinkingKeepsOrder, Zenon
  <2>5. CASE ~Absorbed(kind, psn)
    <3>1. GoBackN(bindings, psn, t)
      BY <2>1, <2>5, Zenon DEF OnTransportPacket
    <3> QED BY <1>1, <2>2, <3>1, GoBackNOrder, Zenon
  <2> QED BY <2>4, <2>5, Zenon
<1>8. ASSUME NEW tok, NEW kind, NEW t, Terminal(tok, kind, t)
      PROVE  \A k \in Packet : packets'[k].issued_at = packets[k].issued_at
  <2>1. packets' = [packets EXCEPT ![tok[1]].terminal = TRUE]
    BY <1>8, Zenon DEF Terminal
  <2> QED BY <2>1, <1>2, Zenon DEF PacketRecord
<1>9. CASE \E t \in Time, tok \in Token : OnDelivered(tok, t)
  <2>1. PICK t \in Time, tok \in Token : OnDelivered(tok, t)
    BY <1>9, Zenon
  <2>2. /\ now' = t /\ t >= now /\ t \in Nat
        /\ queue' = queue /\ live' \subseteq live
        /\ Terminal(tok, "delivered", t)
    BY <2>1, <1>2, Zenon DEF OnDelivered
  <2> QED BY <1>1, <1>8, <2>2, ShrinkingKeepsOrder, Zenon
<1>10. CASE \E t \in Time, tok \in Token : OnDropped(tok, t)
  <2>1. PICK t \in Time, tok \in Token : OnDropped(tok, t)
    BY <1>10, Zenon
  <2>2. now' = t /\ t >= now /\ t \in Nat /\ tok \in bindings
    BY <2>1, <1>2, Zenon DEF OnDropped
  <2>3. CASE ~TransportEnabled
    <3>1. queue' = queue /\ live' = live /\ Terminal(tok, "dropped", t)
      BY <2>1, <2>3, Zenon DEF OnDropped
    <3> QED BY <1>1, <1>8, <2>2, <3>1, ShrinkingKeepsOrder, Zenon
  <2>4. CASE TransportEnabled /\ InEpisode(Psn(tok[1]))
    <3>1. packets' = packets /\ queue' = queue /\ live' = live
      BY <2>1, <2>4, Zenon DEF OnDropped
    <3> QED BY <1>1, <2>2, <3>1, ShrinkingKeepsOrder, Zenon
  <2>5. CASE TransportEnabled /\ ~InEpisode(Psn(tok[1]))
    <3>1. GoBackN(bindings \ {tok}, Psn(tok[1]), t)
      BY <2>1, <2>5, Zenon DEF OnDropped
    <3>2. Psn(tok[1]) \in Nat
      <4>1. tok[1] \in Packet
        BY <1>1, <2>2, <2>5, <1>2, Zenon DEF Places
      <4> QED BY <4>1, PsnType, PsnAssumption
    <3> QED BY <1>1, <2>2, <3>1, <3>2, GoBackNOrder, Zenon
  <2> QED BY <2>3, <2>4, <2>5, Zenon
<1>11. CASE \/ ReleaseEnd \/ \E t \in Time : ReleaseBusy(t)
            \/ \E t \in Time, tok \in Token :
                 OnArrived(tok, t) \/ OnStaleEvent(tok, t)
            \/ UNCHANGED txVars
  <2>1. packets' = packets /\ queue' = queue /\ live' = live
    BY <1>11, Zenon DEF ReleaseBusy, ReleaseEnd, OnArrived, OnStaleEvent, txVars
  <2>2. now' >= now /\ now' \in Nat
    BY <1>2, <1>11
       DEF ReleaseBusy, ReleaseEnd, OnArrived, OnStaleEvent, txVars
  <2> QED BY <1>1, <2>1, <2>2, ShrinkingKeepsOrder, Zenon
<1> QED BY <1>3, <1>4, <1>5, <1>6, <1>7, <1>9, <1>10, <1>11 DEF TxStep

-----------------------------------------------------------------------------
(* What the work queue has been told. *)

\* What it was told of the packet's latest attempt.
Said(k) == told[CurrentToken(k)]

\* Of one packet: nothing of an attempt still to come, a beginning of the one
\* on the wire and an end of the one that retired it.
LedgerOf(k) ==
    /\ \A n \in 0 .. MaxAttempts - 1 :
          n > packets[k].attempt => told[<<k, n>>] = "none"
    /\ k \notin Cut => packets[k].attempt = 0 /\ Said(k) = "none"
    /\ k \in queue => Said(k) = "none"
    /\ k \in Cut \ queue =>
         Said(k) \in (IF packets[k].terminal THEN {"delivered", "dropped"}
                                            ELSE {"started", "arrived"})

Ledger == \A k \in Packet : LedgerOf(k)

\* An extent remembers whether one of its packets was lost for good.
OutcomeOf(e) ==
    extents[e].status # "none" =>
        /\ extents[e].dropped =
             (\E k \in PacketsOf(e) : packets[k].terminal /\ Said(k) = "dropped")
        /\ extents[e].status = "Delivered" => ~extents[e].dropped
        /\ extents[e].status = "Dropped" => extents[e].dropped

Outcome == \A e \in Extent : OutcomeOf(e)

\* A packet nothing is said of keeps its entries,
LEMMA LedgerStays ==
    ASSUME NEW k \in Packet, LedgerOf(k),
           packets[k].attempt \in 0 .. MaxAttempts - 1,
           packets'[k].attempt = packets[k].attempt,
           packets'[k].terminal = packets[k].terminal,
           (k \in Cut') <=> (k \in Cut), (k \in queue') <=> (k \in queue),
           \A n \in 0 .. MaxAttempts - 1 : told'[<<k, n>>] = told[<<k, n>>]
    PROVE  LedgerOf(k)' /\ Said(k)' = Said(k)
<1>1. Said(k)' = Said(k)
  BY DEF Said, CurrentToken
<1> QED BY <1>1, Zenon DEF LedgerOf

\* and so does an extent none of whose packets retires.
LEMMA OutcomeStays ==
    ASSUME NEW e \in Extent, OutcomeOf(e),
           extents'[e].status = extents[e].status,
           extents'[e].dropped = extents[e].dropped,
           extents'[e].first = extents[e].first,
           extents'[e].size = extents[e].size,
           extents[e].status # "none" => \A k \in PacketsOf(e) :
               /\ packets'[k].terminal = packets[k].terminal
               /\ packets[k].terminal => Said(k)' = Said(k)
    PROVE  OutcomeOf(e)'
<1>1. PacketsOf(e)' = PacketsOf(e)
  BY Zenon DEF PacketsOf
<1> QED BY <1>1, Zenon DEF OutcomeOf

\* The packets of an extent were cut.
LEMMA PacketsWereCut ==
    ASSUME PlacesInv
    PROVE  /\ Cut \subseteq Packet
           /\ packets \in [Packet -> PacketRecord]
           /\ \A k \in Packet : packets[k].attempt \in 0 .. MaxAttempts - 1
           /\ \A e \in Extent : extents[e].status # "none" =>
                 PacketsOf(e) \subseteq Cut
<1>1. TxTypeOK /\ Membership
  BY Zenon DEF PlacesInv
<1>2. Cut \subseteq Packet
  <2>1. cut \in 0 .. MaxPackets /\ MaxPackets \in Nat
    BY <1>1, ConfigAssumption, Zenon DEF TxTypeOK
  <2> QED BY <2>1 DEF Cut, Packet
<1>3. packets \in [Packet -> PacketRecord]
  BY <1>1, Zenon DEF TxTypeOK
<1>4. \A k \in Packet : packets[k].attempt \in 0 .. MaxAttempts - 1
  BY <1>3, Zenon DEF PacketRecord
<1> QED BY <1>1, <1>2, <1>3, <1>4, Zenon DEF Membership

\* The extent of a packet not retired is open.
LEMMA UnretiredIsOpen ==
    ASSUME PlacesInv, NEW k \in Cut, ~packets[k].terminal
    PROVE  /\ packets[k].extent \in Extent
           /\ extents[packets[k].extent].status = "open"
<1>1. /\ packets[k].extent \in Extent /\ k \in PacketsOf(packets[k].extent)
      /\ extents[packets[k].extent].status # "none"
  BY Zenon DEF PlacesInv, Membership
<1>2. k \notin Retired(packets[k].extent)
  BY Zenon DEF Retired
<1> QED BY <1>1, <1>2, Zenon DEF PlacesInv, Counted

\* Steps that say nothing and move no packet.
LEMMA NothingSaid ==
    ASSUME PlacesInv, Ledger, Outcome,
           UNCHANGED <<cut, extents, packets, queue, told>>
    PROVE  Ledger' /\ Outcome'
<1>1. Cut' = Cut
  BY Zenon DEF Cut
<1>2. \A k \in Packet : LedgerOf(k)' /\ Said(k)' = Said(k)
  BY <1>1, PacketsWereCut, LedgerStays, Zenon DEF Ledger
<1>3. \A e \in Extent : extents[e].status # "none" => PacketsOf(e) \subseteq Packet
  BY PacketsWereCut, Zenon
<1>4. \A e \in Extent : OutcomeOf(e)'
  BY <1>2, <1>3, OutcomeStays, Zenon DEF Outcome
<1> QED BY <1>2, <1>4, Zenon DEF Ledger, Outcome

\* Go-back-N closes the attempts it replays and nothing else.
LEMMA GoBackNLedger ==
    ASSUME PlacesInv, Ledger, Outcome, NEW bound, NEW psn \in Nat,
           NEW t \in Time, GoBackN(bound, psn, t), cut' = cut,
           extents' = extents
    PROVE  Ledger' /\ Outcome'
<1> DEFINE closed == AtOrAbove(psn)
           tokens == {CurrentToken(k) : k \in closed}
<1>1. /\ Cut' = Cut /\ Cut \subseteq Packet
      /\ packets \in [Packet -> PacketRecord]
      /\ \A k \in Packet : packets[k].attempt \in 0 .. MaxAttempts - 1
      /\ TxTypeOK /\ Places
  BY PacketsWereCut, Zenon DEF Cut, PlacesInv
<1>2. closed \subseteq live /\ closed \subseteq Cut /\ closed \subseteq Packet
  BY <1>1, Zenon DEF AtOrAbove, Places
<1>3. /\ queue' = queue \cup closed
      /\ told' = [tok \in Token |->
                    IF tok \in tokens THEN "dropped" ELSE told[tok]]
      /\ packets' = [k \in Packet |->
            IF k \in closed THEN Requeued(packets[k], t) ELSE packets[k]]
  BY Zenon DEF GoBackN
<1>4. \A k \in Packet, n \in 0 .. MaxAttempts - 1 :
         <<k, n>> \in Token
           /\ (<<k, n>> \in tokens => k \in closed /\ n = packets[k].attempt)
  BY Zenon DEF Token, CurrentToken
<1>5. \A k \in Packet, n \in 0 .. MaxAttempts - 1 :
         ~(k \in closed /\ n = packets[k].attempt) =>
            told'[<<k, n>>] = told[<<k, n>>]
  <2> HIDE DEF tokens, closed
  <2> QED BY <1>3, <1>4, Zenon
<1>6. ASSUME NEW k \in Packet, k \notin closed
      PROVE  LedgerOf(k)' /\ Said(k)' = Said(k)
  <2> HIDE DEF closed
  <2>1. packets'[k] = packets[k] /\ (k \in queue' <=> k \in queue)
    BY <1>3, <1>6, Zenon
  <2> QED BY <1>1, <1>5, <1>6, <2>1, LedgerStays, Zenon DEF Ledger
<1>7. ASSUME NEW k \in closed
      PROVE  LedgerOf(k)'
  <2>1. k \in Packet /\ k \in Cut' /\ k \in queue'
    BY <1>1, <1>2, <1>3, Zenon
  <2>2. /\ packets'[k].attempt = packets[k].attempt + 1
        /\ packets[k].attempt + 1 < MaxAttempts
        /\ packets[k].attempt \in Nat
    <3>1. packets'[k] = Requeued(packets[k], t) /\ packets[k] \in PacketRecord
      BY <1>1, <1>3, <2>1, Zenon
    <3>2. packets'[k].attempt = packets[k].attempt + 1
      BY <3>1, RequeuedFields
    <3>3. packets[k].attempt + 1 < MaxAttempts
      BY ZenonT(30) DEF GoBackN
    <3> QED BY <1>1, <2>1, <3>2, <3>3
  <2>3. \A n \in 0 .. MaxAttempts - 1 : n > packets[k].attempt =>
           told'[<<k, n>>] = "none"
    BY <1>5, <2>1, <2>2 DEF Ledger, LedgerOf
  <2>4. Said(k)' = "none"
    <3>1. packets[k].attempt + 1 \in 0 .. MaxAttempts - 1
      BY <2>2, ConfigAssumption
    <3>2. told'[<<k, packets[k].attempt + 1>>] = "none"
      BY <2>2, <2>3, <3>1
    <3> QED BY <2>2, <3>2, Zenon DEF Said, CurrentToken
  <2>5. \A n \in 0 .. MaxAttempts - 1 : n > packets'[k].attempt =>
           told'[<<k, n>>] = "none"
    BY <2>2, <2>3
  <2> QED BY <2>1, <2>4, <2>5, Zenon DEF LedgerOf
<1>8. Ledger'
  BY <1>6, <1>7, Zenon DEF Ledger
<1>9. ASSUME NEW e \in Extent PROVE OutcomeOf(e)'
  <2>1. ASSUME extents[e].status # "none", NEW k \in PacketsOf(e)
        PROVE  /\ packets'[k].terminal = packets[k].terminal
               /\ packets[k].terminal => Said(k)' = Said(k)
    <3>1. k \in Packet
      BY <2>1, PacketsWereCut, Zenon
    <3>2. packets[k].terminal => k \notin closed
      BY <1>1, <1>2, Zenon DEF Places
    <3> QED BY <1>1, <1>6, <3>1, <3>2, GoBackNPackets, Zenon
  <2> QED BY <2>1, OutcomeStays, Zenon DEF Outcome
<1> QED BY <1>8, <1>9, Zenon DEF Outcome

\* A new extent starts with nothing said of its packets.
LEMMA SubmitLedger ==
    ASSUME PlacesInv, Ledger, Outcome, NEW payload \in Payloads,
           NEW t \in Time, TrySubmit(payload, t)
    PROVE  Ledger' /\ Outcome'
<1> DEFINE n == PacketCount(payload)
           fresh == cut .. cut + n - 1
<1>1. PICK e \in Extent :
         /\ extents[e].status = "none"
         /\ cut + n =< MaxPackets /\ cut' = cut + n
         /\ extents' = [extents EXCEPT ![e] = FreshExtent(cut, n)]
         /\ packets' = [k \in Packet |->
                IF k \in fresh
                THEN FreshPacket(e, PacketBytes(payload, k - cut), t)
                ELSE packets[k]]
         /\ queue' = queue \cup fresh
         /\ told' = told
  BY Zenon DEF TrySubmit
<1>2. /\ Cut \subseteq Packet /\ packets \in [Packet -> PacketRecord]
      /\ \A k \in Packet : packets[k].attempt \in 0 .. MaxAttempts - 1
      /\ extents \in [Extent -> ExtentRecord]
      /\ cut \in Nat /\ n \in Nat /\ queue \subseteq Cut
  <2>1. n \in Nat
    BY ConfigAssumption DEF PacketCount
  <2>2. TxTypeOK /\ Places
    BY Zenon DEF PlacesInv
  <2> HIDE DEF n
  <2>3. cut \in Nat
    BY <2>2, ConfigAssumption DEF TxTypeOK
  <2> QED BY <2>1, <2>2, <2>3, PacketsWereCut DEF TxTypeOK, Places
<1> HIDE DEF n
<1>3. Cut' = Cut \cup fresh /\ Cut \cap fresh = {} /\ fresh \subseteq Packet
  BY <1>1, <1>2, ConfigAssumption DEF Cut, Packet
<1>4. ASSUME NEW k \in Packet, k \notin fresh
      PROVE  packets'[k] = packets[k] /\ LedgerOf(k)' /\ Said(k)' = Said(k)
  <2>1. packets'[k] = packets[k]
    BY <1>1, <1>4, Zenon
  <2>2. (k \in Cut' <=> k \in Cut) /\ (k \in queue' <=> k \in queue)
    BY <1>1, <1>3, <1>4, Zenon
  <2> QED BY <1>1, <1>2, <2>1, <2>2, LedgerStays, ZenonT(30) DEF Ledger
<1>5. ASSUME NEW k \in fresh
      PROVE  ~packets'[k].terminal /\ LedgerOf(k)'
  <2>1. k \in Packet /\ k \notin Cut /\ k \in Cut' /\ k \in queue'
    BY <1>1, <1>3, Zenon
  <2>2. packets'[k] = FreshPacket(e, PacketBytes(payload, k - cut), t)
    BY <1>1, <2>1, Zenon
  <2>3. packets'[k].attempt = 0 /\ ~packets'[k].terminal
    BY <2>2, Zenon DEF FreshPacket, NoPacket
  <2>4. packets[k].attempt = 0 /\ told[<<k, 0>>] = "none"
    <3>1. LedgerOf(k)
      BY <2>1, Zenon DEF Ledger
    <3>2. packets[k].attempt = 0 /\ told[<<k, packets[k].attempt>>] = "none"
      BY <2>1, <3>1, Zenon DEF LedgerOf, Said, CurrentToken
    <3> QED BY <3>2, Zenon
  <2>5. \A i \in 0 .. MaxAttempts - 1 : told'[<<k, i>>] = "none"
    <3>1. LedgerOf(k)
      BY <2>1, Zenon DEF Ledger
    <3>2. \A i \in 0 .. MaxAttempts - 1 :
              i > packets[k].attempt => told[<<k, i>>] = "none"
      BY <3>1, Zenon DEF LedgerOf
    <3>3. \A i \in 0 .. MaxAttempts - 1 : i = 0 \/ i > 0
      OBVIOUS
    <3>4. told' = told
      BY <1>1, Zenon
    <3> QED BY <2>4, <3>2, <3>3, <3>4, Zenon
  <2>6. Said(k)' = "none"
    BY <1>1, <2>3, <2>4, Zenon DEF Said, CurrentToken
  <2> QED BY <2>1, <2>3, <2>5, <2>6, Zenon DEF LedgerOf
<1>6. Ledger'
  BY <1>4, <1>5, Zenon DEF Ledger
<1>7. ASSUME NEW d \in Extent, d # e
      PROVE  OutcomeOf(d)'
  <2>1. extents'[d] = extents[d]
    BY <1>1, <1>2, <1>7, Zenon
  <2>2. ASSUME extents[d].status # "none", NEW k \in PacketsOf(d)
        PROVE  packets'[k] = packets[k] /\ Said(k)' = Said(k)
    BY <1>3, <1>4, <2>2, PacketsWereCut, Zenon
  <2> QED BY <2>1, <2>2, OutcomeStays, Zenon DEF Outcome
<1>8. OutcomeOf(e)'
  <2>1. extents'[e] = FreshExtent(cut, n)
    BY <1>1, <1>2, Zenon
  <2>2. /\ extents'[e].status = "open" /\ extents'[e].dropped = FALSE
        /\ extents'[e].first = cut /\ extents'[e].size = n
    BY <2>1, FreshExtentType, <1>2, Zenon DEF FreshExtent, NoExtent
  <2>3. PacketsOf(e)' = fresh
    BY <2>2, Zenon DEF PacketsOf
  <2> QED BY <1>5, <2>2, <2>3, Zenon DEF OutcomeOf
<1> QED BY <1>6, <1>7, <1>8, Zenon DEF Outcome

\* The work queue hears of one attempt, the latest of a packet not retired.
LEMMA OneSaid ==
    ASSUME PlacesInv, Ledger, NEW k \in Cut, NEW stage, cut' = cut,
           told' = [told EXCEPT ![CurrentToken(k)] = stage],
           \A j \in Packet : packets'[j].attempt = packets[j].attempt,
           \A j \in Packet \ {k} : packets'[j].terminal = packets[j].terminal,
           queue' = queue \ {k},
           stage \in (IF packets'[k].terminal THEN {"delivered", "dropped"}
                                             ELSE {"started", "arrived"})
    PROVE  /\ Ledger'
           /\ Said(k)' = stage
           /\ \A j \in Packet \ {k} : Said(j)' = Said(j)
<1>1. /\ Cut' = Cut /\ Cut \subseteq Packet /\ k \in Packet
      /\ \A j \in Packet : packets[j].attempt \in 0 .. MaxAttempts - 1
      /\ told \in [Token -> Stage]
  BY PacketsWereCut, Zenon DEF Cut, PlacesInv, TxTypeOK
<1>2. \A j \in Packet, n \in 0 .. MaxAttempts - 1 :
         told'[<<j, n>>] = (IF j = k /\ n = packets[k].attempt THEN stage
                                                              ELSE told[<<j, n>>])
  <2>1. CurrentToken(k) = <<k, packets[k].attempt>>
    BY Zenon DEF CurrentToken
  <2>2. \A j \in Packet, n \in 0 .. MaxAttempts - 1 : <<j, n>> \in Token
    BY Zenon DEF Token
  <2>3. told' = [told EXCEPT ![<<k, packets[k].attempt>>] = stage]
    BY <2>1, Zenon
  <2> HIDE DEF Token
  <2> QED BY <1>1, <2>2, <2>3, Zenon
<1>3. ASSUME NEW j \in Packet \ {k}
      PROVE  LedgerOf(j)' /\ Said(j)' = Said(j)
  <2>1. j \in Packet /\ j # k /\ LedgerOf(j) /\ packets[j].attempt \in 0 .. MaxAttempts - 1
    BY <1>1, Zenon DEF Ledger
  <2>2. \A n \in 0 .. MaxAttempts - 1 : told'[<<j, n>>] = told[<<j, n>>]
    BY <1>2, <2>1
  <2>3. (j \in Cut') <=> (j \in Cut)
    BY <1>1, Zenon
  <2>4. (j \in queue') <=> (j \in queue)
    BY <2>1, Zenon
  <2> QED BY <2>1, <2>2, <2>3, <2>4, LedgerStays, Zenon
<1>4. Said(k)' = stage
  BY <1>1, <1>2 DEF Said, CurrentToken
<1>5. LedgerOf(k)'
  <2>1. \A n \in 0 .. MaxAttempts - 1 :
           n > packets'[k].attempt => told'[<<k, n>>] = "none"
    BY <1>1, <1>2 DEF Ledger, LedgerOf
  <2> QED BY <1>1, <1>4, <2>1, Zenon DEF LedgerOf
<1> QED BY <1>3, <1>4, <1>5, Zenon DEF Ledger

\* A packet retires: its extent counts the loss, and says so if it was the
\* last.
LEMMA RetireOutcome ==
    ASSUME PlacesInv, Outcome, NEW k \in Cut, ~packets[k].terminal,
           NEW e, e = packets[k].extent,
           NEW x \in ExtentRecord, NEW lost \in BOOLEAN,
           x.first = extents[e].first, x.size = extents[e].size,
           x.status = extents[e].status, x.dropped = extents[e].dropped,
           extents' = [extents EXCEPT ![e] = Retire(x, lost)],
           packets'[k].terminal,
           Said(k)' = (IF lost THEN "dropped" ELSE "delivered"),
           \A j \in Packet \ {k} : /\ packets'[j].terminal = packets[j].terminal
                                   /\ Said(j)' = Said(j)
    PROVE  Outcome'
<1>1. /\ Cut \subseteq Packet /\ extents \in [Extent -> ExtentRecord]
      /\ Membership /\ Counted
  BY PacketsWereCut, Zenon DEF PlacesInv, TxTypeOK
<1>2. e \in Extent /\ k \in PacketsOf(e) /\ extents[e].status # "none"
  BY <1>1, Zenon DEF Membership
<1>3. extents[e].status = "open"
  BY <1>1, <1>2, Zenon DEF Counted, Retired
<1>4. ASSUME NEW d \in Extent, d # e PROVE OutcomeOf(d)'
  <2>1. extents'[d] = extents[d]
    BY <1>1, <1>4, Zenon
  <2>2. ASSUME extents[d].status # "none", NEW j \in PacketsOf(d)
        PROVE  j \in Packet \ {k}
    BY <1>1, <1>4, <2>2, ZenonT(30) DEF Membership
  <2> QED BY <2>1, <2>2, OutcomeStays, Zenon DEF Outcome
<1>5. OutcomeOf(e)'
  <2>1. extents'[e] = Retire(x, lost)
    BY <1>1, <1>2, Zenon
  <2>2. /\ extents'[e].first = extents[e].first
        /\ extents'[e].size = extents[e].size
    <3>1. Retire(x, lost).first = x.first /\ Retire(x, lost).size = x.size
      BY RetireFields, Zenon
    <3> QED BY <2>1, <3>1, Zenon
  <2>3. /\ extents'[e].dropped = (extents[e].dropped \/ lost)
        /\ extents'[e].status = "Delivered" => ~(extents[e].dropped \/ lost)
        /\ extents'[e].status = "Dropped" => (extents[e].dropped \/ lost)
    <3>1. x.dropped \in BOOLEAN
      BY Zenon DEF ExtentRecord
    <3>2. Retire(x, lost).dropped = (x.dropped \/ lost)
      BY Zenon DEF Retire, ExtentRecord
    <3>3. Retire(x, lost).status \in
            {"open", IF x.dropped \/ lost THEN "Dropped" ELSE "Delivered"}
      BY <1>3, Zenon DEF Retire, ExtentRecord
    <3> QED BY <2>1, <3>1, <3>2, <3>3, Zenon
  <2>4. PacketsOf(e)' = PacketsOf(e) /\ PacketsOf(e) \subseteq Packet
    BY <1>2, <2>2, PacketsWereCut, Zenon DEF PacketsOf
  <2>5. extents[e].dropped =
          (\E j \in PacketsOf(e) : packets[j].terminal /\ Said(j) = "dropped")
    BY <1>2, Zenon DEF Outcome, OutcomeOf
  <2>6. (\E j \in PacketsOf(e) : packets'[j].terminal /\ Said(j)' = "dropped")
          = (extents[e].dropped \/ lost)
    BY <1>2, <2>4, <2>5, ZenonT(30)
  <2> QED BY <2>3, <2>4, <2>6, Zenon DEF OutcomeOf
<1> QED BY <1>4, <1>5, Zenon DEF Outcome

\* The head of the queue starts,
LEMMA ReleaseAcceptedLedger ==
    ASSUME PlacesInv, Ledger, Outcome, NEW b, NEW m, ReleaseAccepted(b, m),
           NEW k, k = LowestPsn(queue)
    PROVE  Ledger' /\ Outcome'
<1>1. /\ Cut \subseteq Packet /\ packets \in [Packet -> PacketRecord]
      /\ extents \in [Extent -> ExtentRecord] /\ TxTypeOK /\ Places
  BY PacketsWereCut, Zenon DEF PlacesInv, TxTypeOK
<1>2. k \in queue /\ k \in Cut /\ k \in Packet /\ ~packets[k].terminal
  BY <1>1, IssueFacts, Zenon DEF ReleaseAccepted, Places
<1>3. /\ packets' = [packets EXCEPT ![k].issued = TRUE, ![k].issued_at = now]
      /\ queue' = queue \ {k}
      /\ told' = [told EXCEPT ![CurrentToken(k)] = "started"]
      /\ cut' = cut
  BY Zenon DEF ReleaseAccepted
<1>4. \A j \in Packet : /\ packets'[j].attempt = packets[j].attempt
                        /\ packets'[j].terminal = packets[j].terminal
  BY <1>1, <1>2, <1>3, Zenon DEF PacketRecord
<1>5. Ledger' /\ \A j \in Packet \ {k} : Said(j)' = Said(j)
  BY <1>2, <1>3, <1>4, OneSaid, Zenon
<1>6. ASSUME NEW e \in Extent PROVE OutcomeOf(e)'
  <2>1. /\ extents'[e].status = extents[e].status
        /\ extents'[e].dropped = extents[e].dropped
        /\ extents'[e].first = extents[e].first
        /\ extents'[e].size = extents[e].size
    <3> DEFINE d == packets[k].extent
    <3>1. extents' = [extents EXCEPT ![d].in_flight = TRUE,
                                     ![d].issued_count = @ + 1]
      BY Zenon DEF ReleaseAccepted
    <3> HIDE DEF d
    <3> QED BY <1>1, <3>1, Zenon DEF ExtentRecord
  <2>2. ASSUME extents[e].status # "none", NEW j \in PacketsOf(e)
        PROVE  /\ packets'[j].terminal = packets[j].terminal
               /\ packets[j].terminal => Said(j)' = Said(j)
    BY <1>1, <1>2, <1>4, <1>5, <2>2, PacketsWereCut, Zenon
  <2> QED BY <2>1, <2>2, OutcomeStays, Zenon DEF Outcome
<1> QED BY <1>5, <1>6, Zenon DEF Outcome

\* or is refused;
LEMMA ReleaseRejectedLedger ==
    ASSUME PlacesInv, Ledger, Outcome, ReleaseRejected,
           NEW k, k = LowestPsn(queue)
    PROVE  Ledger' /\ Outcome'
<1>1. /\ Cut \subseteq Packet /\ packets \in [Packet -> PacketRecord]
      /\ extents \in [Extent -> ExtentRecord]
      /\ TxTypeOK /\ Places /\ Membership
  BY PacketsWereCut, Zenon DEF PlacesInv, TxTypeOK
<1>2. k \in queue /\ k \in Cut /\ k \in Packet /\ ~packets[k].terminal
  BY <1>1, IssueFacts, Zenon DEF ReleaseRejected, Places
<1>3. PICK e \in Extent : e = packets[k].extent
  BY <1>1, <1>2, Zenon DEF Membership
<1>4. PICK x : x = [extents[e] EXCEPT !.in_flight = TRUE, !.issued_count = @ + 1]
  OBVIOUS
<1>5. /\ packets' = [packets EXCEPT ![k].issued = TRUE, ![k].issued_at = now,
                                    ![k].terminal = TRUE]
      /\ queue' = queue \ {k}
      /\ told' = [told EXCEPT ![CurrentToken(k)] = "dropped"]
      /\ extents' = [extents EXCEPT ![e] = Retire(x, TRUE)]
      /\ cut' = cut
  BY <1>3, <1>4, Zenon DEF ReleaseRejected
<1>6. /\ x \in ExtentRecord
      /\ x.first = extents[e].first /\ x.size = extents[e].size
      /\ x.status = extents[e].status /\ x.dropped = extents[e].dropped
  <2>1. PICK n \in Nat : n = extents[e].issued_count + 1
    BY <1>1 DEF ExtentRecord
  <2>2. x = [extents[e] EXCEPT !.in_flight = TRUE, !.issued_count = n]
    BY <1>4, <2>1, Zenon
  <2> QED BY <1>1, <2>2, ZenonT(30) DEF ExtentRecord
<1>7. /\ \A j \in Packet : packets'[j].attempt = packets[j].attempt
      /\ \A j \in Packet \ {k} : packets'[j].terminal = packets[j].terminal
      /\ packets'[k].terminal
  BY <1>1, <1>2, <1>5, Zenon DEF PacketRecord
<1>8. /\ Ledger' /\ Said(k)' = "dropped"
      /\ \A j \in Packet \ {k} : Said(j)' = Said(j)
  BY <1>2, <1>5, <1>7, OneSaid, Zenon
<1>9. Outcome'
  BY <1>2, <1>3, <1>5, <1>6, <1>7, <1>8, RetireOutcome, ZenonT(60)
<1> QED BY <1>8, <1>9, Zenon

\* an attempt on the wire arrives,
LEMMA OnArrivedLedger ==
    ASSUME PlacesInv, Ledger, Outcome, NEW tok, NEW t, OnArrived(tok, t)
    PROVE  Ledger' /\ Outcome'
<1> DEFINE k == tok[1]
<1>1. /\ Places /\ tok \in bindings /\ cut' = cut /\ extents' = extents
      /\ packets' = packets /\ queue' = queue
      /\ told' = [told EXCEPT ![tok] = "arrived"]
  BY Zenon DEF OnArrived, PlacesInv
<1>2. /\ k \in Cut /\ tok = CurrentToken(k) /\ ~packets[k].terminal
      /\ queue \ {k} = queue
  BY <1>1, Zenon DEF Places
<1> HIDE DEF k
<1>3. Ledger' /\ \A j \in Packet \ {k} : Said(j)' = Said(j)
  BY <1>1, <1>2, OneSaid, Zenon
<1>4. \A e \in Extent : OutcomeOf(e)'
  <2>1. \A e \in Extent : extents[e].status # "none" => \A j \in PacketsOf(e) :
           packets[j].terminal => Said(j)' = Said(j)
    BY <1>2, <1>3, PacketsWereCut, Zenon
  <2> QED BY <1>1, <2>1, OutcomeStays, Zenon DEF Outcome
<1> QED BY <1>3, <1>4, Zenon DEF Outcome

\* or ends for good.
LEMMA TerminalLedger ==
    ASSUME PlacesInv, Ledger, Outcome, NEW tok \in bindings,
           NEW kind \in {"delivered", "dropped"}, NEW t,
           Terminal(tok, kind, t), cut' = cut, queue' = queue
    PROVE  Ledger' /\ Outcome'
<1> DEFINE k == tok[1]
           e == packets[k].extent
           lost == kind = "dropped"
<1>1. /\ Cut \subseteq Packet /\ packets \in [Packet -> PacketRecord]
      /\ extents \in [Extent -> ExtentRecord]
      /\ Places /\ Membership
  BY PacketsWereCut, Zenon DEF PlacesInv, TxTypeOK
<1>2. /\ k \in Cut /\ k \in Packet /\ tok = CurrentToken(k)
      /\ ~packets[k].terminal /\ queue \ {k} = queue
  BY <1>1, Zenon DEF Places
<1>3. /\ packets' = [packets EXCEPT ![k].terminal = TRUE]
      /\ told' = [told EXCEPT ![tok] = kind]
      /\ extents' = [extents EXCEPT ![e] = Retire(extents[e], lost)]
  BY Zenon DEF Terminal
<1>4. e \in Extent /\ extents[e] \in ExtentRecord /\ lost \in BOOLEAN
  BY <1>1, <1>2, Zenon DEF Membership
<1> HIDE DEF k
<1>5. /\ \A j \in Packet : packets'[j].attempt = packets[j].attempt
      /\ \A j \in Packet \ {k} : packets'[j].terminal = packets[j].terminal
      /\ packets'[k].terminal
  BY <1>1, <1>2, <1>3, Zenon DEF PacketRecord
<1>6. /\ Ledger' /\ Said(k)' = kind
      /\ \A j \in Packet \ {k} : Said(j)' = Said(j)
  BY <1>2, <1>3, <1>5, OneSaid, Zenon
<1>7. Said(k)' = (IF lost THEN "dropped" ELSE "delivered")
  BY <1>6, Zenon
<1>8. Outcome'
  <2> HIDE DEF lost
  <2> QED BY <1>2, <1>3, <1>4, <1>5, <1>6, <1>7, RetireOutcome, ZenonT(30)
<1> QED BY <1>6, <1>8, Zenon

\* Before the first extent the work queue was told nothing.
LEMMA TxInitLedger == TxInit => Ledger /\ Outcome
<1> SUFFICES ASSUME TxInit PROVE Ledger /\ Outcome
  OBVIOUS
<1>1. \A k \in Packet, n \in 0 .. MaxAttempts - 1 : told[<<k, n>>] = "none"
  BY Zenon DEF TxInit, Token
<1>2. \A k \in Packet : packets[k].attempt = 0
  BY Zenon DEF TxInit, NoPacket
<1>3. \A k \in Packet : Said(k) = "none"
  BY <1>1, <1>2, ConfigAssumption DEF Said, CurrentToken
<1>4. Cut = {}
  BY DEF TxInit, Cut
<1>5. \A e \in Extent : extents[e].status = "none"
  BY Zenon DEF TxInit, NoExtent
<1> QED BY <1>1, <1>2, <1>3, <1>4, <1>5, Zenon
        DEF Ledger, LedgerOf, Outcome, OutcomeOf

\* Every step of the pipeline keeps the ledger.
LEMMA TxStepLedger ==
    ASSUME PlacesInv, Ledger, Outcome, [TxStep]_txVars
    PROVE  Ledger' /\ Outcome'
<1>1. /\ bindings \subseteq Token /\ live \subseteq Packet
      /\ \A k \in Packet : Psn(k) \in Nat
  BY PsnType, PsnAssumption DEF PlacesInv, TxTypeOK
<1>2. CASE \E t \in Time, payload \in Payloads : TrySubmit(payload, t)
  BY <1>2, SubmitLedger, Zenon
<1>3. CASE \E t \in Time : ReleaseBegin(t)
  <2>1. PICK t \in Time : ReleaseBegin(t)
    BY <1>3, Zenon
  <2>2. CASE TimerArmed /\ EarliestTimeout =< t
    <3> DEFINE psn == Psn(LowestPsn(live))
    <3>1. psn \in Nat
      BY <1>1, <2>2, LowestPsnProperty, Zenon DEF TimerArmed
    <3>2. GoBackN(bindings, psn, t) /\ cut' = cut /\ extents' = extents
      BY <2>1, <2>2, Zenon DEF ReleaseBegin
    <3> HIDE DEF psn
    <3> QED BY <3>1, <3>2, GoBackNLedger, Zenon
  <2>3. CASE ~(TimerArmed /\ EarliestTimeout =< t)
    BY <2>1, <2>3, NothingSaid, Zenon DEF ReleaseBegin
  <2> QED BY <2>2, <2>3, Zenon
<1>4. CASE \E b, m \in Nat : ReleaseAccepted(b, m)
  BY <1>4, ReleaseAcceptedLedger, Zenon
<1>5. CASE ReleaseRejected
  BY <1>5, ReleaseRejectedLedger, Zenon
<1>6. CASE \E t \in Time, psn \in Nat, kind \in {"Ack", "Nak"} :
             OnTransportPacket(kind, psn, t)
  <2>1. PICK t \in Time, psn \in Nat, kind \in {"Ack", "Nak"} :
           OnTransportPacket(kind, psn, t)
    BY <1>6, Zenon
  <2>2. CASE Absorbed(kind, psn)
    BY <2>1, <2>2, NothingSaid, Zenon DEF OnTransportPacket
  <2>3. CASE ~Absorbed(kind, psn)
    BY <2>1, <2>3, GoBackNLedger, Zenon DEF OnTransportPacket
  <2> QED BY <2>2, <2>3, Zenon
<1>7. CASE \E t \in Time, tok \in Token : OnDelivered(tok, t)
  BY <1>7, TerminalLedger, Zenon DEF OnDelivered
<1>8. CASE \E t \in Time, tok \in Token : OnDropped(tok, t)
  <2>1. PICK t \in Time, tok \in Token : OnDropped(tok, t)
    BY <1>8, Zenon
  <2>2. tok \in bindings /\ cut' = cut /\ Psn(tok[1]) \in Nat
    BY <1>1, <2>1, Zenon DEF OnDropped, Token
  <2>3. CASE ~TransportEnabled
    BY <2>1, <2>2, <2>3, TerminalLedger, Zenon DEF OnDropped
  <2>4. CASE TransportEnabled /\ InEpisode(Psn(tok[1]))
    BY <2>1, <2>2, <2>4, NothingSaid, Zenon DEF OnDropped
  <2>5. CASE TransportEnabled /\ ~InEpisode(Psn(tok[1]))
    <3>1. GoBackN(bindings \ {tok}, Psn(tok[1]), t) /\ extents' = extents
      BY <2>1, <2>5, Zenon DEF OnDropped
    <3> QED BY <2>2, <3>1, GoBackNLedger, Zenon
  <2> QED BY <2>3, <2>4, <2>5, Zenon
<1>9. CASE \E t \in Time, tok \in Token : OnArrived(tok, t)
  BY <1>9, OnArrivedLedger, Zenon
<1>10. CASE \/ ReleaseEnd \/ \E t \in Time : ReleaseBusy(t)
            \/ \E t \in Time, tok \in Token : OnStaleEvent(tok, t)
            \/ UNCHANGED txVars
  <2>1. UNCHANGED <<cut, extents, packets, queue, told>>
    BY <1>10, Zenon DEF ReleaseBusy, ReleaseEnd, OnStaleEvent, txVars
  <2> QED BY <2>1, NothingSaid, Zenon
<1> QED BY <1>2, <1>3, <1>4, <1>5, <1>6, <1>7, <1>8, <1>9, <1>10, ZenonT(30)
           DEF TxStep

\* An extent closes when each of its packets has retired, and remembers the
\* worst.
LEMMA LedgerOutcome ==
    ASSUME PlacesInv, Ledger, Outcome
    PROVE  ExtentOutcome
<1> SUFFICES ASSUME NEW e \in Extent, extents[e].status \in {"Delivered", "Dropped"}
             PROVE  /\ extents[e].status = "Delivered" =>
                         \A k \in PacketsOf(e) : Said(k) = "delivered"
                    /\ extents[e].status = "Dropped" =>
                         /\ \A k \in PacketsOf(e) :
                               Said(k) \in {"delivered", "dropped"}
                         /\ \E k \in PacketsOf(e) : Said(k) = "dropped"
  BY Zenon DEF ExtentOutcome, Said
<1>1. \A k \in PacketsOf(e) : packets[k].terminal /\ k \in Cut /\ k \in Packet
  BY PacketsWereCut, Zenon DEF PlacesInv, Counted, Retired
<1>2. \A k \in PacketsOf(e) : k \notin queue
  BY <1>1, Zenon DEF PlacesInv, Places
<1>3. \A k \in PacketsOf(e) : Said(k) \in {"delivered", "dropped"}
  BY <1>1, <1>2, Zenon DEF Ledger, LedgerOf
<1> QED BY <1>1, <1>3, Zenon DEF Outcome, OutcomeOf
=============================================================================
