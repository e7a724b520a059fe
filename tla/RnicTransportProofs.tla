------------------------ MODULE RnicTransportProofs ------------------------
(***************************************************************************)
(* The two ends of a reliable connection agree: what the requester counts  *)
(* as delivered is what the responder has handed over, in the order it was *)
(* cut, and together they implement ReliableTransfer.                      *)
(***************************************************************************)
EXTENDS RnicTransport, RnicTxSteps

\* What the agreement rests on.  The number the responder expects after the
\* last packet must not wrap either, and a loss before the responder's first
\* packet would seed it past the packets lost.
Reliable ==
    /\ TransportEnabled /\ FirstPacketSafe
    /\ InitialPsn + MaxPackets < PsnModulus

-----------------------------------------------------------------------------
(* The inductive invariant. *)

Message == [kind : {"Nak"}, psn : Nat]
             \cup [kind : {"Delivered", "Dropped"}, tok : Token]

\* What is between the ends has its shape.
NetTypeOK ==
    /\ forward \in Seq(Token)
    /\ \A i \in DOMAIN forward : forward[i][1] \in Cut
    /\ replies \in Seq(Message)
    /\ responder \in [seen : BOOLEAN, expected : Nat, in_recovery : BOOLEAN]
    /\ host \in Seq(Nat)

\* The responder expects the packet after those it has handed over.  Before it
\* has seen any, the first packet is still queued, or is the next to arrive.
Abreast ==
    /\ HostInOrder
    /\ Len(host) =< cut
    /\ responder.seen => responder.expected = Psn(Len(host))
    /\ ~responder.seen => /\ host = <<>> /\ replies = <<>>
                          /\ forward = <<>> => Cut \subseteq queue
                          /\ forward # <<>> => Head(forward)[1] = 0

\* Deliveries told, or on their way, are of the n packets handed over.
VouchedFor(r, n) ==
    \A i \in DOMAIN r : r[i].kind = "Delivered" => r[i].tok[1] < n
Vouched ==
    /\ VouchedFor(replies, Len(host))
    /\ \A tok \in Token : told[tok] = "delivered" => tok[1] < Len(host)

NetInv == NetTypeOK /\ Abreast /\ Vouched

\* Extents are opened one after the other, and the last ends where the cut is.
OpenUpTo(x, n) == \A e \in Extent : x[e].status # "none" <=> e =< n
Posted(n) ==
    /\ OpenUpTo(extents, n)
    /\ n = 0 => cut = 0
    /\ n > 0 => extents[n].first + extents[n].size = cut
PostedInOrder == \E n \in 0 .. MaxExtents : Posted(n)

-----------------------------------------------------------------------------
(* Lemmas on the operators. *)

\* No number of a run wraps.
LEMMA PsnPlain ==
    ASSUME Reliable, NEW k \in 0 .. MaxPackets
    PROVE  Psn(k) = InitialPsn + k /\ Psn(k) \in Nat
<1>1. /\ InitialPsn \in Nat /\ MaxPackets \in Nat /\ PsnModulus \in Nat \ {0}
      /\ InitialPsn + k < PsnModulus
  BY ConfigAssumption, PsnAssumption DEF Reliable
<1> QED BY <1>1 DEF Psn, PsnAfter

\* The parts of a concatenation.
LEMMA Concatenation ==
    ASSUME NEW S, NEW a \in Seq(S), NEW b \in Seq(S)
    PROVE  /\ a \o b \in Seq(S)
           /\ Len(a \o b) = Len(a) + Len(b)
           /\ \A j \in 1 .. Len(a) : (a \o b)[j] = a[j]
           /\ \A j \in Len(a) + 1 .. Len(a) + Len(b) : (a \o b)[j] = b[j - Len(a)]
  OBVIOUS

\* A message taken out of the sequence leaves the others.
LEMMA WithoutProperty ==
    ASSUME NEW S, NEW s \in Seq(S), NEW i \in DOMAIN s
    PROVE  /\ Without(s, i) \in Seq(S)
           /\ \A j \in DOMAIN Without(s, i) :
                 \E h \in DOMAIN s : Without(s, i)[j] = s[h]
<1> DEFINE a == SubSeq(s, 1, i - 1)
           b == SubSeq(s, i + 1, Len(s))
<1>1. i \in 1 .. Len(s) /\ Len(s) \in Nat /\ DOMAIN s = 1 .. Len(s)
  OBVIOUS
<1>2. a \in Seq(S) /\ Len(a) = i - 1 /\ \A j \in 1 .. Len(a) : a[j] = s[j]
  BY <1>1
<1>3. /\ b \in Seq(S) /\ Len(b) = Len(s) - i
      /\ \A j \in 1 .. Len(b) : b[j] = s[j + i]
  BY SMTT(20), <1>1
<1> HIDE DEF a, b
<1>4. a \o b \in Seq(S) /\ DOMAIN (a \o b) = 1 .. Len(s) - 1
  <2>1. a \o b \in Seq(S) /\ Len(a \o b) = Len(a) + Len(b)
    BY <1>2, <1>3, Concatenation, Zenon
  <2>2. DOMAIN (a \o b) = 1 .. Len(a \o b)
    BY <2>1
  <2>3. Len(a) + Len(b) = Len(s) - 1
    BY <1>1, <1>2, <1>3
  <2> QED BY <2>1, <2>2, <2>3, Zenon
<1>5. ASSUME NEW j \in 1 .. Len(s) - 1
      PROVE  \E h \in DOMAIN s : (a \o b)[j] = s[h]
  <2>1. CASE j =< i - 1
    <3>1. (a \o b)[j] = s[j] /\ j \in DOMAIN s
      BY <1>1, <1>2, <1>3, <2>1
    <3> QED BY <3>1, Zenon
  <2>2. CASE j > i - 1
    <3>1. j \in Len(a) + 1 .. Len(a) + Len(b)
      BY <1>1, <1>2, <1>3, <2>2
    <3>2. (a \o b)[j] = b[j - Len(a)]
      BY <1>2, <1>3, <3>1, Concatenation, Zenon
    <3>3. j - Len(a) \in 1 .. Len(b) /\ j - Len(a) + i = j + 1 /\ j + 1 \in DOMAIN s
      BY SMTT(20), <1>1, <1>2, <1>3, <3>1
    <3>4. b[j - Len(a)] = s[j + 1]
      BY <1>3, <3>3, Zenon
    <3> QED BY <3>2, <3>3, <3>4, Zenon
  <2>3. j =< i - 1 \/ j > i - 1
    BY <1>1
  <2> QED BY <2>1, <2>2, <2>3, Zenon
<1> QED BY <1>4, <1>5, Zenon DEF Without, a, b

\* Every step of the connection is a step of the requester, or leaves it be.
LEMMA StepsRequester ==
    ASSUME TxTypeOK, NetTypeOK, [Next]_vars
    PROVE  [TxStep]_txVars
<1>1. now \in Time
  BY Zenon DEF TxTypeOK
<1>2. forward # <<>> => Head(forward) \in Token
  BY DEF NetTypeOK
<1>3. CASE Submit
  BY <1>1, <1>3, Zenon DEF Submit, TxStep
<1>4. CASE Release
  BY <1>4, Zenon DEF Release, TxStep
<1>5. CASE Accept
  BY <1>5, Zenon DEF Accept, TxStep
<1>6. CASE Stop
  BY <1>6, Zenon DEF Stop, TxStep
<1>7. CASE Arrive \/ ArriveAboveCeiling
  BY <1>1, <1>2, <1>7, Zenon DEF Arrive, ArriveAboveCeiling, TellRequester, TxStep
<1>8. CASE LosePacket \/ DropPacket \/ LoseReply
  BY <1>8, Zenon DEF LosePacket, DropPacket, LoseReply
<1>9. CASE Deliver
  <2>1. PICK i \in DOMAIN replies :
           \/ /\ replies[i].kind = "Nak"
              /\ OnTransportPacket("Nak", replies[i].psn, now)
           \/ /\ replies[i].kind = "Delivered"
              /\ OnDelivered(replies[i].tok, now) \/ OnStaleEvent(replies[i].tok, now)
           \/ /\ replies[i].kind = "Dropped"
              /\ OnDropped(replies[i].tok, now) \/ OnStaleEvent(replies[i].tok, now)
    BY <1>9, Zenon DEF Deliver
  <2>2. replies[i] \in Message
    BY DEF NetTypeOK
  <2>3. /\ replies[i].kind = "Nak" => replies[i].psn \in Nat
        /\ replies[i].kind \in {"Delivered", "Dropped"} => replies[i].tok \in Token
    BY <2>2, Zenon DEF Message
  <2> QED BY <1>1, <2>1, <2>3, Zenon DEF TxStep
<1>10. CASE UNCHANGED vars
  BY <1>10, Zenon DEF vars
<1> QED BY <1>3, <1>4, <1>5, <1>6, <1>7, <1>8, <1>9, <1>10 DEF Next

-----------------------------------------------------------------------------
(* The invariant is inductive. *)

\* Only OnDelivered tells a delivery, and nothing is ever uncut.
LEMMA NothingDelivered ==
    ASSUME PlacesInv, Reliable,
           \/ \E t \in Time, payload \in Payloads : TrySubmit(payload, t)
           \/ \E t \in Time : ReleaseBegin(t)
           \/ ReleaseAccepted(0, 0) \/ ReleaseEnd
           \/ \E t \in Time, psn \in Nat : OnTransportPacket("Nak", psn, t)
           \/ \E t \in Time, tok \in Token : \/ OnDropped(tok, t) \/ OnArrived(tok, t)
                                            \/ OnStaleEvent(tok, t)
           \/ UNCHANGED txVars
    PROVE  /\ cut =< cut' /\ Cut \subseteq Cut'
           /\ \A tok \in Token : told'[tok] = "delivered" => told[tok] = "delivered"
<1>1. told \in [Token -> Stage] /\ cut \in Nat
  BY DEF PlacesInv, TxTypeOK
<1>2. CASE \E t \in Time, payload \in Payloads : TrySubmit(payload, t)
  <2>1. PICK payload \in Payloads : cut' = cut + PacketCount(payload) /\ told' = told
    BY <1>2, Zenon DEF TrySubmit
  <2>2. PacketCount(payload) \in Nat
    BY ConfigAssumption DEF PacketCount
  <2> QED BY <1>1, <2>1, <2>2 DEF Cut
<1>3. ASSUME NEW bound, NEW psn, NEW t, GoBackN(bound, psn, t)
      PROVE  \A tok \in Token : told'[tok] = "delivered" => told[tok] = "delivered"
  BY <1>3, Zenon DEF GoBackN
<1>4. CASE \E t \in Time : ReleaseBegin(t)
  BY <1>1, <1>3, <1>4 DEF ReleaseBegin, Cut
<1>5. CASE ReleaseAccepted(0, 0)
  <2>1. cut' = cut /\ told' = [told EXCEPT ![CurrentToken(LowestPsn(queue))] = "started"]
    BY <1>5, Zenon DEF ReleaseAccepted
  <2> QED BY <1>1, <2>1 DEF Cut
<1>6. CASE \E t \in Time, psn \in Nat : OnTransportPacket("Nak", psn, t)
  BY <1>1, <1>3, <1>6 DEF OnTransportPacket, Cut
<1>7. CASE \E t \in Time, tok \in Token : OnDropped(tok, t)
  BY <1>1, <1>3, <1>7 DEF OnDropped, Reliable, Cut
<1>8. CASE \E t \in Time, tok \in Token : OnArrived(tok, t)
  <2>1. PICK tok \in Token : cut' = cut /\ told' = [told EXCEPT ![tok] = "arrived"]
    BY <1>8, Zenon DEF OnArrived
  <2> QED BY <1>1, <2>1 DEF Cut
<1>9. CASE \/ ReleaseEnd \/ UNCHANGED txVars
           \/ \E t \in Time, tok \in Token : OnStaleEvent(tok, t)
  BY <1>1, <1>9 DEF ReleaseEnd, OnStaleEvent, txVars, Cut
<1> QED BY SMTT(20), <1>2, <1>4, <1>5, <1>6, <1>7, <1>8, <1>9

\* The requester moves alone: it must not lose the first packet.
LEMMA RequesterStep ==
    ASSUME PlacesInv, PlacesInv', NetInv, UNCHANGED <<forward, replies, responder, host>>,
           cut =< cut', Cut \subseteq Cut',
           \A tok \in Token : told'[tok] = "delivered" => told[tok] = "delivered",
           ~responder.seen /\ forward = <<>> => Cut' \subseteq queue'
    PROVE  NetInv'
<1>1. NetTypeOK'
  BY Zenon DEF NetInv, NetTypeOK
<1>2. Abreast'
  <2>1. cut \in Nat /\ cut' \in Nat /\ Len(host) \in Nat
    BY DEF PlacesInv, TxTypeOK, NetInv, NetTypeOK
  <2>2. HostInOrder'
    BY Zenon DEF NetInv, Abreast, HostInOrder
  <2> QED BY <2>1, <2>2 DEF NetInv, Abreast
<1>3. Vouched'
  BY Zenon DEF NetInv, Vouched
<1> QED BY <1>1, <1>2, <1>3 DEF NetInv

\* Before the responder has seen a packet, the wire holds the first one or
\* nothing was ever issued: no timer runs.
LEMMA ReleaseNet ==
    ASSUME PlacesInv, PlacesInv', NetInv, Reliable, Release
    PROVE  NetInv'
<1>1. PICK t \in Time : ReleaseBegin(t)
  BY Zenon DEF Release
<1>2. /\ cut =< cut' /\ Cut \subseteq Cut'
      /\ \A tok \in Token : told'[tok] = "delivered" => told[tok] = "delivered"
  BY <1>1, NothingDelivered, Zenon
<1>3. ~responder.seen /\ forward = <<>> => Cut' \subseteq queue'
  <2> SUFFICES ASSUME ~responder.seen, forward = <<>> PROVE Cut' \subseteq queue'
    OBVIOUS
  <2>1. Cut \subseteq queue /\ Cut' = Cut
    BY <1>1, Zenon DEF NetInv, Abreast, ReleaseBegin, Cut
  <2>2. live = {}
    BY <2>1, Zenon DEF PlacesInv, Places
  <2>3. queue' = queue
    BY <1>1, <2>2, Zenon DEF ReleaseBegin, TimerArmed
  <2> QED BY <2>1, <2>3, Zenon
<1>4. UNCHANGED <<forward, replies, responder, host>>
  BY Zenon DEF Release
<1> QED BY <1>2, <1>3, <1>4, RequesterStep, Zenon

\* A submission cuts packets and leaves the rest be.
LEMMA SubmitNet ==
    ASSUME PlacesInv, PlacesInv', NetInv, Reliable, Submit
    PROVE  NetInv'
<1>1. PICK payload \in Payloads : TrySubmit(payload, now)
  BY Zenon DEF Submit
<1>2. now \in Time
  BY Zenon DEF PlacesInv, TxTypeOK
<1>3. /\ cut =< cut' /\ Cut \subseteq Cut'
      /\ \A tok \in Token : told'[tok] = "delivered" => told[tok] = "delivered"
  BY <1>1, <1>2, NothingDelivered, Zenon
<1>4. Cut' \subseteq Cut \cup (cut .. cut' - 1) /\ queue' = queue \cup (cut .. cut' - 1)
  <2> DEFINE n == PacketCount(payload)
  <2>1. n \in Nat /\ cut \in Nat
    BY ConfigAssumption DEF PacketCount, PlacesInv, TxTypeOK
  <2>2. cut' = cut + n /\ queue' = queue \cup (cut .. cut + n - 1)
    BY <1>1, Zenon DEF TrySubmit
  <2> HIDE DEF n
  <2> QED BY <2>1, <2>2 DEF Cut
<1>5. ~responder.seen /\ forward = <<>> => Cut' \subseteq queue'
  BY <1>4, Zenon DEF NetInv, Abreast
<1>6. UNCHANGED <<forward, replies, responder, host>>
  BY Zenon DEF Submit, netVars
<1> QED BY <1>3, <1>5, <1>6, RequesterStep, Zenon

\* A pass that ends touches nothing between the ends.
LEMMA StopNet ==
    ASSUME PlacesInv, PlacesInv', NetInv, Reliable, Stop
    PROVE  NetInv'
<1>1. ReleaseEnd /\ UNCHANGED <<forward, replies, responder, host>>
  BY Zenon DEF Stop, netVars
<1>2. /\ cut =< cut' /\ Cut \subseteq Cut'
      /\ \A tok \in Token : told'[tok] = "delivered" => told[tok] = "delivered"
  BY <1>1, NothingDelivered, Zenon
<1>3. queue' = queue /\ Cut' = Cut
  BY <1>1, Zenon DEF ReleaseEnd, Cut
<1>4. ~responder.seen /\ forward = <<>> => Cut' \subseteq queue'
  BY <1>3, Zenon DEF NetInv, Abreast
<1> QED BY <1>1, <1>2, <1>4, RequesterStep, Zenon

\* The first attempt put on the wire is of the first packet.
LEMMA AcceptNet ==
    ASSUME PlacesInv, PlacesInv', NetInv, Reliable, Accept,
           NEW k, k = LowestPsn(queue)
    PROVE  NetInv'
<1>1. /\ k \in queue /\ k \in Packet /\ k \in Cut /\ CurrentToken(k) \in Token
      /\ queue \subseteq Packet /\ queue \subseteq Cut
  BY IssueFacts, Zenon DEF Accept, ReleaseAccepted, PlacesInv, Places, TxTypeOK
<1>2. CurrentToken(k)[1] = k
  BY Zenon DEF CurrentToken
<1>3. PICK tok \in Token : tok = CurrentToken(k) /\ tok[1] = k
  BY <1>1, <1>2, Zenon
<1>4. /\ cut' = cut /\ Cut' = Cut
      /\ forward' = Append(forward, tok)
      /\ UNCHANGED <<replies, responder, host>>
  BY <1>3, Zenon DEF Accept, ReleaseAccepted, Cut
<1>5. \A x \in Token : told'[x] = "delivered" => told[x] = "delivered"
  BY NothingDelivered, Zenon DEF Accept
<1>6. /\ forward' \in Seq(Token) /\ forward' # <<>>
      /\ \A i \in DOMAIN forward' : forward'[i][1] \in Cut
      /\ forward # <<>> => Head(forward') = Head(forward)
      /\ forward = <<>> => Head(forward') = tok
  BY SMTT(20), <1>1, <1>3, <1>4 DEF NetInv, NetTypeOK
<1>7. NetTypeOK'
  BY <1>4, <1>6, Zenon DEF NetInv, NetTypeOK
<1>8. ASSUME ~responder.seen, forward = <<>> PROVE k = 0
  <2>1. Cut \subseteq queue
    BY <1>8, Zenon DEF NetInv, Abreast
  <2>2. 0 \in Cut /\ 0 \in queue /\ 0 \in Packet
    BY <1>1, <2>1 DEF Cut, Packet, PlacesInv, TxTypeOK
  <2>3. Psn(k) =< Psn(0)
    BY <1>1, <2>2, LowestPsnProperty, Zenon
  <2>4. k \in 0 .. MaxPackets /\ 0 \in 0 .. MaxPackets
    BY <1>1, ConfigAssumption DEF Packet
  <2>5. Psn(k) = InitialPsn + k /\ Psn(0) = InitialPsn + 0 /\ InitialPsn \in Nat
    BY <2>4, PsnPlain, ConfigAssumption, PsnAssumption
  <2> QED BY <2>3, <2>4, <2>5
<1>9. Abreast'
  <2>1. HostInOrder'
    BY <1>4, Zenon DEF NetInv, Abreast, HostInOrder
  <2> QED BY <1>3, <1>4, <1>6, <1>8, <2>1, ZenonT(30) DEF NetInv, Abreast
<1>10. Vouched'
  BY <1>4, <1>5, Zenon DEF NetInv, Vouched
<1> QED BY <1>7, <1>9, <1>10 DEF NetInv

\* What hearing of an arrival changes at the requester.
LEMMA TellNet ==
    ASSUME PlacesInv, Reliable, NEW tok \in Token, TellRequester(tok)
    PROVE  /\ UNCHANGED <<cut, extents, queue, packets>> /\ Cut' = Cut
           /\ \A x \in Token : told'[x] = "delivered" => told[x] = "delivered"
<1>1. now \in Time
  BY Zenon DEF PlacesInv, TxTypeOK
<1>2. UNCHANGED <<cut, extents, queue, packets>>
  BY Zenon DEF TellRequester, OnArrived, OnStaleEvent
<1>3. \A x \in Token : told'[x] = "delivered" => told[x] = "delivered"
  BY <1>1, NothingDelivered, Zenon DEF TellRequester
<1> QED BY <1>2, <1>3, Zenon DEF Cut

\* The attempt at the head of the wire, and the connection it finds.
LEMMA HeadFacts ==
    ASSUME PlacesInv, NetInv, Reliable, forward # <<>>,
           NEW tok, tok = Head(forward),
           NEW qp, qp = QpState(responder, Psn(tok[1]))
    PROVE  /\ tok \in Token /\ tok[1] \in Cut /\ tok[1] \in 0 .. MaxPackets
           /\ qp \in [seen : BOOLEAN, expected : Nat, in_recovery : BOOLEAN]
           /\ qp.seen /\ qp.expected = Psn(Len(host))
           /\ Len(host) \in 0 .. MaxPackets /\ cut \in 0 .. MaxPackets
           /\ Tail(forward) \in Seq(Token)
           /\ \A i \in DOMAIN Tail(forward) : Tail(forward)[i][1] \in Cut
<1>1. /\ tok \in Token /\ tok[1] \in Cut /\ Tail(forward) \in Seq(Token)
      /\ \A i \in DOMAIN Tail(forward) : Tail(forward)[i][1] \in Cut
  BY SMTT(20) DEF NetInv, NetTypeOK
<1>2. cut \in 0 .. MaxPackets /\ MaxPackets \in Nat
  BY ConfigAssumption, Zenon DEF PlacesInv, TxTypeOK
<1>3. Len(host) \in 0 .. MaxPackets
  BY <1>2 DEF NetInv, NetTypeOK, Abreast
<1>4. tok[1] \in 0 .. MaxPackets
  BY <1>1, <1>2 DEF Cut
<1>5. Psn(tok[1]) \in Nat
  BY <1>4, PsnPlain, Zenon
<1>6. /\ qp \in [seen : BOOLEAN, expected : Nat, in_recovery : BOOLEAN]
      /\ qp.seen
  BY <1>5, Zenon DEF QpState, NetInv, NetTypeOK
<1>7. qp.expected = Psn(Len(host))
  <2>1. CASE responder.seen
    BY <2>1 DEF QpState, NetInv, Abreast
  <2>2. CASE ~responder.seen
    <3>1. tok[1] = 0 /\ Len(host) = 0
      BY <2>2, Zenon DEF NetInv, Abreast
    <3> QED BY <2>2, <3>1, Zenon DEF QpState
  <2> QED BY <2>1, <2>2
<1> QED BY SMTT(20), <1>1, <1>2, <1>3, <1>4, <1>6, <1>7

\* An answer that vouches for what was handed over joins the others.
Answer(back, n) ==
    \/ back = <<>>
    \/ \E m \in Message : back = <<m>> /\ (m.kind = "Delivered" => m.tok[1] < n)
\* The replies so far and an answer vouch for what was handed over.
LEMMA RepliesVouched ==
    ASSUME NEW r \in Seq(Message), NEW back, NEW n \in Nat, NEW h \in Nat, n =< h,
           VouchedFor(r, n), Answer(back, h)
    PROVE  r \o back \in Seq(Message) /\ VouchedFor(r \o back, h)
<1>1. VouchedFor(r, h)
  <2> SUFFICES ASSUME NEW i \in DOMAIN r, r[i].kind = "Delivered"
               PROVE  r[i].tok[1] < h
    BY Zenon DEF VouchedFor
  <2>1. r[i] \in Message /\ r[i].tok[1] < n
    BY DEF VouchedFor
  <2>2. r[i].tok \in Token
    BY <2>1, Zenon DEF Message
  <2>3. r[i].tok[1] \in Int
    BY <2>2 DEF Token, Packet
  <2> QED BY <2>1, <2>3
<1>2. CASE back = <<>>
  <2>1. r \o back = r
    BY <1>2
  <2> QED BY <1>1, <2>1, Zenon
<1>3. ASSUME NEW m \in Message, back = <<m>>, m.kind = "Delivered" => m.tok[1] < h
      PROVE  r \o back \in Seq(Message) /\ VouchedFor(r \o back, h)
  <2>1. r \o back = Append(r, m)
    BY <1>3
  <2>2. /\ Append(r, m) \in Seq(Message)
        /\ \A i \in DOMAIN Append(r, m) :
              Append(r, m)[i] = m \/ (i \in DOMAIN r /\ Append(r, m)[i] = r[i])
    OBVIOUS
  <2>3. VouchedFor(Append(r, m), h)
    BY <1>1, <1>3, <2>2, Zenon DEF VouchedFor
  <2> QED BY <2>1, <2>2, <2>3, Zenon
<1> QED BY <1>2, <1>3 DEF Answer

\* The requester hears an acknowledgement as the attempt's terminal.
LEMMA AckIsMessage ==
    ASSUME NEW tok \in Token, NEW m, m = [kind |-> "Delivered", tok |-> tok]
    PROVE  m \in Message /\ m.kind = "Delivered" /\ m.tok = tok
BY Zenon DEF Message

\* The responder hands over the packet it expects and no other, and vouches
\* only for what it has handed over.
LEMMA ArriveNet ==
    ASSUME PlacesInv, NetInv, Reliable, Arrive,
           NEW tok, tok = Head(forward), NEW k, k = tok[1],
           NEW qp, qp = QpState(responder, Psn(k)),
           NEW checked, checked = SequenceCheck(qp, Psn(k), KindOf(tok)),
           NEW back, back = ReplyTo(tok, checked.result.reply)
    PROVE  NetInv'
<1> DEFINE Qp == [seen : BOOLEAN, expected : Nat, in_recovery : BOOLEAN]
<1>1. /\ tok \in Token /\ k \in Cut /\ k \in 0 .. MaxPackets
      /\ qp \in Qp /\ qp.seen /\ qp.expected = Psn(Len(host))
      /\ Len(host) \in 0 .. MaxPackets /\ cut \in 0 .. MaxPackets
      /\ Tail(forward) \in Seq(Token)
      /\ \A i \in DOMAIN Tail(forward) : Tail(forward)[i][1] \in Cut
  BY HeadFacts, Zenon DEF Arrive
<1>2. /\ TellRequester(tok) /\ forward' = Tail(forward)
      /\ responder' = checked.qp /\ replies' = replies \o back
      /\ host' = IF checked.result.what = "Delivered"
                 THEN Append(host, Psn(k)) ELSE host
  BY Zenon DEF Arrive
<1>3. /\ cut' = cut /\ Cut' = Cut
      /\ \A x \in Token : told'[x] = "delivered" => told[x] = "delivered"
  BY <1>1, <1>2, TellNet, ZenonT(30)
<1>4. /\ Psn(k) = InitialPsn + k /\ Psn(k) \in Nat
      /\ Psn(Len(host)) = InitialPsn + Len(host) /\ InitialPsn \in Nat
  BY <1>1, PsnPlain, ConfigAssumption, PsnAssumption
<1>5. /\ host \in Seq(Nat) /\ replies \in Seq(Message)
      /\ \A i \in DOMAIN host : host[i] = Psn(i - 1)
      /\ VouchedFor(replies, Len(host))
      /\ \A x \in Token : told[x] = "delivered" => x[1] < Len(host)
      /\ Len(host) =< cut
  BY Zenon DEF NetInv, NetTypeOK, Abreast, Vouched, HostInOrder
\* The three answers have the rest in common.
<1>6. ASSUME checked.qp \in Qp, checked.qp.seen, host' \in Seq(Nat),
             Len(host) =< Len(host'), Len(host') =< cut,
             checked.qp.expected = Psn(Len(host')), HostInOrder', Answer(back, Len(host'))
      PROVE  NetInv'
  <2>1. Len(host) \in Nat /\ Len(host') \in Nat
    <3>1. Len(host) \in Nat
      BY SMTT(20), <1>5
    <3>2. Len(host') \in Nat
      BY <1>6
    <3> QED BY <3>1, <3>2, ZenonT(30)
  <2>2. replies' \in Seq(Message) /\ VouchedFor(replies', Len(host'))
    <3>1. PICK n \in Nat : n = Len(host)
      BY <2>1, Zenon
    <3>2. PICK h \in Nat : h = Len(host')
      BY <2>1, ZenonT(30)
    <3>3. n =< h /\ Answer(back, h)
      BY <1>6, <3>1, <3>2
    <3>4. replies \in Seq(Message) /\ VouchedFor(replies, n)
      BY <1>5, <3>1, Zenon
    <3> QED BY <1>2, <3>2, <3>3, <3>4, RepliesVouched, ZenonT(30)
  <2>3. NetTypeOK'
    BY <1>1, <1>2, <1>3, <1>6, <2>2, ZenonT(30) DEF NetTypeOK
  <2>4. Abreast'
    BY <1>2, <1>3, <1>6, ZenonT(30) DEF Abreast
  <2>5. ASSUME NEW x \in Token, told'[x] = "delivered" PROVE x[1] < Len(host')
    <3>1. x[1] \in Int /\ x[1] < Len(host)
      BY <1>3, <1>5, <2>5 DEF Token, Packet
    <3>2. Len(host) =< Len(host')
      BY <1>6, Zenon
    <3> QED BY SMTT(20), <2>1, <3>1, <3>2
  <2> QED BY <2>2, <2>3, <2>4, <2>5 DEF NetInv, Vouched
<1>7. CASE k = Len(host)
  <2>1. checked = InSequence(qp, Psn(k))
    BY <1>1, <1>7, ZenonT(30) DEF SequenceCheck
  <2>2. /\ checked.qp = [qp EXCEPT !.expected = PsnAfter(@, 1), !.in_recovery = FALSE]
        /\ checked.result.what = "Delivered" /\ checked.result.reply.kind = "Ack"
    BY <2>1 DEF InSequence, Result
  <2>3. host' = Append(host, Psn(k)) /\ back = <<[kind |-> "Delivered", tok |-> tok]>>
    BY <1>2, <2>2, ZenonT(30) DEF ReplyTo
  <2>4. /\ host' \in Seq(Nat) /\ Len(host') = k + 1
        /\ Len(host) =< Len(host') /\ k < Len(host')
    <3>1. host \in Seq(Nat) /\ Psn(k) \in Nat /\ Len(host) \in Nat
      BY <1>4, <1>5
    <3>2. Append(host, Psn(k)) \in Seq(Nat) /\ Len(Append(host, Psn(k))) = Len(host) + 1
      BY <3>1
    <3> QED BY SMTT(20), <1>7, <2>3, <3>1, <3>2
  <2>5. k + 1 =< cut /\ k + 1 \in 0 .. MaxPackets
    <3>1. k \in 0 .. cut - 1 /\ cut \in 0 .. MaxPackets /\ MaxPackets \in Nat
      BY <1>1, ConfigAssumption, ZenonT(30) DEF Cut
    <3> QED BY <3>1
  <2>6. PICK next \in Nat : next = PsnAfter(qp.expected, 1) /\ next = Psn(k + 1)
    <3>1. Psn(k + 1) = InitialPsn + (k + 1) /\ Psn(k + 1) \in Nat
      BY <2>5, PsnPlain, Zenon
    <3>2. PsnAfter(qp.expected, 1) = (InitialPsn + k + 1) % PsnModulus
      BY <1>1, <1>4, <1>7, Zenon DEF PsnAfter
    <3>3. Psn(k + 1) = (InitialPsn + (k + 1)) % PsnModulus
      BY Zenon DEF Psn, PsnAfter
    <3>4. InitialPsn + k + 1 = InitialPsn + (k + 1)
      BY <1>1, <1>4
    <3> QED BY SMTT(20), <3>1, <3>2, <3>3, <3>4
  <2>7. checked.qp = [qp EXCEPT !.expected = next, !.in_recovery = FALSE]
    BY <2>2, <2>6, Zenon
  <2>8. checked.qp \in Qp /\ checked.qp.seen /\ checked.qp.expected = next
    BY <1>1, <2>7, Zenon
  <2>9. HostInOrder'
    <3>1. /\ host \in Seq(Nat) /\ Len(host) \in Nat /\ Psn(k) \in Nat
          /\ \A i \in 1 .. Len(host) : host[i] = Psn(i - 1)
      BY <1>4, <1>5
    <3>2. ASSUME NEW i \in 1 .. Len(host) + 1
          PROVE  Append(host, Psn(k))[i] = Psn(i - 1)
      <4>1. CASE i \in 1 .. Len(host)
        <5>1. Append(host, Psn(k))[i] = host[i]
          BY <3>1, <4>1
        <5> QED BY <3>1, <4>1, <5>1, ZenonT(30)
      <4>2. CASE i = Len(host) + 1
        <5>1. Append(host, Psn(k))[i] = Psn(k) /\ i - 1 = k
          BY SMTT(20), <1>7, <3>1, <4>2
        <5> QED BY <5>1, Zenon
      <4> QED BY <3>1, <4>1, <4>2
    <3>3. DOMAIN host' = 1 .. Len(host) + 1
      BY <2>3, <3>1
    <3> QED BY <2>3, <3>2, <3>3, ZenonT(30) DEF HostInOrder
  <2>10. Answer(back, Len(host'))
    <3>1. PICK m \in Message : m.kind = "Delivered" /\ m.tok = tok /\ back = <<m>>
      BY <1>1, <2>3, AckIsMessage, ZenonT(30)
    <3> QED BY <2>4, <3>1, Zenon DEF Answer
  <2> QED BY <1>6, <2>4, <2>5, <2>6, <2>8, <2>9, <2>10, ZenonT(30)
<1>8. CASE k < Len(host)
  <2>1. checked = Duplicate(qp)
    BY SMTT(20), <1>1, <1>4, <1>8 DEF SequenceCheck
  <2>2. /\ checked.qp = qp /\ checked.result.what = "DiscardedDuplicate"
        /\ checked.result.reply.kind = "Ack"
    BY <2>1 DEF Duplicate, Result
  <2>3. host' = host /\ back = <<[kind |-> "Delivered", tok |-> tok]>>
    BY <1>2, <2>2, Zenon DEF ReplyTo
  <2>4. HostInOrder'
    BY <1>5, <2>3, Zenon DEF HostInOrder
  <2>5. Answer(back, Len(host'))
    <3>1. PICK m \in Message : m.kind = "Delivered" /\ m.tok = tok /\ back = <<m>>
      BY <1>1, <2>3, AckIsMessage, ZenonT(30)
    <3> QED BY <1>8, <2>3, <3>1, Zenon DEF Answer
  <2>6. host' \in Seq(Nat) /\ Len(host) =< Len(host') /\ Len(host') =< cut
    BY <1>5, <2>3
  <2>7. checked.qp \in Qp /\ checked.qp.seen /\ checked.qp.expected = Psn(Len(host'))
    BY <1>1, <2>2, <2>3, Zenon
  <2> QED BY <1>6, <2>4, <2>5, <2>6, <2>7, ZenonT(30)
<1>9. CASE k > Len(host)
  <2> DEFINE nak == [kind |-> "Nak", psn |-> qp.expected]
             reply == IF qp.in_recovery /\ KindOf(tok) # "Retransmission"
                      THEN NoReply ELSE nak
  <2>1. checked = [qp |-> [qp EXCEPT !.in_recovery = TRUE],
                   result |-> [what |-> "DiscardedOutOfSequence", reply |-> reply]]
    <3>1. checked = OutOfSequence(qp, KindOf(tok))
      BY SMTT(20), <1>1, <1>4, <1>9 DEF SequenceCheck
    <3> QED BY <3>1, ZenonT(30) DEF OutOfSequence, Result
  <2> HIDE DEF reply
  <2>2. /\ checked.qp = [qp EXCEPT !.in_recovery = TRUE]
        /\ checked.result.what = "DiscardedOutOfSequence"
        /\ checked.result.reply = reply
    <3>1. PICK next : next = [qp EXCEPT !.in_recovery = TRUE]
      BY Zenon
    <3>2. checked = [qp |-> next,
                     result |-> [what |-> "DiscardedOutOfSequence", reply |-> reply]]
      BY <2>1, <3>1, ZenonT(30)
    <3>3. /\ checked.qp = next /\ checked.result.what = "DiscardedOutOfSequence"
          /\ checked.result.reply = reply
      BY <3>2
    <3> QED BY <3>1, <3>3
  <2>3. /\ host' = host
        /\ back = <<>> \/ back = <<nak>>
    <3>1. host' = host /\ back = ReplyTo(tok, reply)
      BY <1>2, <2>2, Zenon
    <3>2. CASE reply = NoReply
      <4>1. reply.kind = "none"
        BY <3>2 DEF NoReply
      <4> QED BY <3>1, <4>1, ZenonT(30) DEF ReplyTo
    <3>3. CASE reply = nak
      <4>1. reply.kind = "Nak" /\ reply.psn = qp.expected
        BY <3>3, Zenon
      <4> QED BY <3>1, <4>1, Zenon DEF ReplyTo
    <3> QED BY <3>2, <3>3, Zenon DEF reply
  <2>4. HostInOrder'
    BY <1>5, <2>3, ZenonT(30) DEF HostInOrder
  <2>5. Answer(back, Len(host'))
    <3>1. qp.expected \in Nat
      BY <1>1
    <3>2. PICK m \in Message : m = nak
      BY <3>1, Zenon DEF Message
    <3>3. m.kind # "Delivered"
      BY <3>2, ZenonT(30)
    <3> QED BY <2>3, <3>2, <3>3, ZenonT(30) DEF Answer
  <2>6. host' \in Seq(Nat) /\ Len(host) =< Len(host') /\ Len(host') =< cut
    BY <1>5, <2>3
  <2>7. checked.qp \in Qp /\ checked.qp.seen /\ checked.qp.expected = qp.expected
    BY <1>1, <2>2, ZenonT(30)
  <2>8. checked.qp.expected = Psn(Len(host'))
    BY <1>1, <2>3, <2>7, ZenonT(30)
  <2> QED BY <1>6, <2>4, <2>5, <2>6, <2>7, <2>8, ZenonT(30)
<1> QED BY <1>1, <1>7, <1>8, <1>9

\* A ceiling discards the packet, and the connection is seeded all the same.
LEMMA CeilingNet ==
    ASSUME PlacesInv, NetInv, Reliable, ArriveAboveCeiling,
           NEW tok, tok = Head(forward),
           NEW qp, qp = QpState(responder, Psn(tok[1]))
    PROVE  NetInv'
<1>1. /\ tok \in Token
      /\ qp \in [seen : BOOLEAN, expected : Nat, in_recovery : BOOLEAN]
      /\ qp.seen /\ qp.expected = Psn(Len(host))
      /\ Tail(forward) \in Seq(Token)
      /\ \A i \in DOMAIN Tail(forward) : Tail(forward)[i][1] \in Cut
  BY HeadFacts, Zenon DEF ArriveAboveCeiling
<1>2. /\ TellRequester(tok) /\ forward' = Tail(forward) /\ responder' = qp
      /\ UNCHANGED <<replies, host>>
  BY Zenon DEF ArriveAboveCeiling
<1>3. /\ cut' = cut /\ Cut' = Cut
      /\ \A x \in Token : told'[x] = "delivered" => told[x] = "delivered"
  BY <1>1, <1>2, TellNet, ZenonT(30)
<1>4. NetTypeOK'
  BY <1>1, <1>2, <1>3 DEF NetInv, NetTypeOK
<1>5. HostInOrder'
  BY <1>2, ZenonT(30) DEF NetInv, Abreast, HostInOrder
<1>6. Abreast'
  BY <1>1, <1>2, <1>3, <1>5 DEF NetInv, Abreast
<1>7. Vouched'
  BY <1>2, <1>3, Zenon DEF NetInv, Vouched
<1> QED BY <1>4, <1>6, <1>7, Zenon DEF NetInv

\* The wire loses a packet, with or without a report of it.
LEMMA LossNet ==
    ASSUME PlacesInv, NetInv, Reliable, LosePacket \/ DropPacket
    PROVE  NetInv'
<1>1. /\ forward # <<>> /\ responder.seen /\ forward' = Tail(forward)
      /\ UNCHANGED <<cut, told, responder, host>> /\ Cut' = Cut
  BY Zenon DEF LosePacket, DropPacket, Lose, MayLose, Reliable, txVars, Cut
<1>2. Head(forward) \in Token /\ replies \in Seq(Message) /\ Len(host) \in Nat
  BY <1>1 DEF NetInv, NetTypeOK
<1>3. replies' \in Seq(Message) /\ VouchedFor(replies', Len(host))
  <2>1. CASE LosePacket
    BY <1>2, <2>1, Zenon DEF LosePacket, NetInv, Vouched
  <2>2. CASE DropPacket
    <3>1. PICK m : m = [kind |-> "Dropped", tok |-> Head(forward)]
      BY Zenon
    <3>2. m \in Message /\ m.kind = "Dropped"
      BY <1>2, <3>1 DEF Message
    <3>3. replies' = Append(replies, m) /\ VouchedFor(replies, Len(host))
      BY <2>2, <3>1, ZenonT(30) DEF DropPacket, NetInv, Vouched
    <3>4. /\ Append(replies, m) \in Seq(Message)
          /\ \A i \in DOMAIN Append(replies, m) :
                \/ Append(replies, m)[i] = m
                \/ i \in DOMAIN replies /\ Append(replies, m)[i] = replies[i]
      BY <1>2, <3>2
    <3> QED BY <3>2, <3>3, <3>4, ZenonT(30) DEF VouchedFor
  <2> QED BY <2>1, <2>2, Zenon
<1>4. NetTypeOK'
  BY <1>1, <1>3 DEF NetInv, NetTypeOK
<1>5. HostInOrder'
  BY <1>1, Zenon DEF NetInv, Abreast, HostInOrder
<1>6. Abreast'
  BY <1>1, <1>5 DEF NetInv, Abreast
<1>7. Vouched'
  BY <1>1, <1>3 DEF NetInv, Vouched
<1> QED BY <1>4, <1>6, <1>7 DEF NetInv

\* A reply is taken off the wire, to the requester or for good.
LEMMA ReplyGone ==
    ASSUME PlacesInv, PlacesInv', NetInv, NEW i \in DOMAIN replies,
           replies' = Without(replies, i),
           UNCHANGED <<cut, forward, responder, host>>,
           \A tok \in Token : told'[tok] = "delivered" => tok[1] < Len(host)
    PROVE  NetInv'
<1>1. replies \in Seq(Message) /\ replies # <<>> /\ Cut' = Cut
  BY DEF NetInv, NetTypeOK, Cut
<1>2. responder.seen
  BY <1>1, Zenon DEF NetInv, Abreast
<1>3. /\ replies' \in Seq(Message)
      /\ \A j \in DOMAIN replies' : \E h \in DOMAIN replies : replies'[j] = replies[h]
  BY <1>1, WithoutProperty
<1>4. NetTypeOK'
  BY <1>1, <1>3, Zenon DEF NetInv, NetTypeOK
<1>5. HostInOrder'
  BY Zenon DEF NetInv, Abreast, HostInOrder
<1>6. Abreast'
  BY <1>2, <1>5, Zenon DEF NetInv, Abreast
<1>7. VouchedFor(replies, Len(host))
  BY Zenon DEF NetInv, Vouched
<1>8. VouchedFor(replies', Len(host'))
  BY <1>3, <1>7 DEF VouchedFor
<1> QED BY <1>4, <1>6, <1>8, ZenonT(30) DEF NetInv, Vouched

\* A reply that is lost vouches for nothing.
LEMMA LoseReplyNet ==
    ASSUME PlacesInv, PlacesInv', NetInv, LoseReply
    PROVE  NetInv'
<1>1. PICK i \in DOMAIN replies :
         /\ replies' = Without(replies, i)
         /\ UNCHANGED <<cut, told, forward, responder, host>>
  BY Zenon DEF LoseReply, txVars
<1>2. \A tok \in Token : told'[tok] = "delivered" => tok[1] < Len(host)
  BY <1>1, ZenonT(30) DEF NetInv, Vouched
<1> QED BY <1>1, <1>2, ReplyGone, Zenon

\* A delivery is told on the word of the responder only.
LEMMA DeliverNet ==
    ASSUME PlacesInv, PlacesInv', NetInv, Reliable, Deliver
    PROVE  NetInv'
<1>1. now \in Time /\ told \in [Token -> Stage]
  BY Zenon DEF PlacesInv, TxTypeOK
<1>2. PICK i \in DOMAIN replies :
         /\ \/ /\ replies[i].kind = "Nak"
               /\ OnTransportPacket("Nak", replies[i].psn, now)
            \/ /\ replies[i].kind = "Delivered"
               /\ OnDelivered(replies[i].tok, now) \/ OnStaleEvent(replies[i].tok, now)
            \/ /\ replies[i].kind = "Dropped"
               /\ OnDropped(replies[i].tok, now) \/ OnStaleEvent(replies[i].tok, now)
         /\ replies' = Without(replies, i)
         /\ UNCHANGED <<forward, responder, host>>
  BY Zenon DEF Deliver
<1>3. replies[i] \in Message
  BY DEF NetInv, NetTypeOK
<1>4. /\ replies[i].kind = "Nak" => replies[i].psn \in Nat
      /\ replies[i].kind \in {"Delivered", "Dropped"} => replies[i].tok \in Token
  BY <1>3, Zenon DEF Message
<1>5. \A tok \in Token : told[tok] = "delivered" => tok[1] < Len(host)
  BY ZenonT(30) DEF NetInv, Vouched
<1>6. CASE replies[i].kind = "Delivered" /\ OnDelivered(replies[i].tok, now)
  <2>1. PICK tok \in Token : tok = replies[i].tok
    BY <1>4, <1>6
  <2>2. tok[1] < Len(host)
    BY <1>6, <2>1 DEF NetInv, Vouched, VouchedFor
  <2>3. cut' = cut /\ told' = [told EXCEPT ![tok] = "delivered"]
    BY <1>6, <2>1, ZenonT(30) DEF OnDelivered, Terminal
  <2>4. \A x \in Token : told'[x] = "delivered" => x[1] < Len(host)
    BY SMTT(20), <1>1, <1>5, <2>2, <2>3
  <2> QED BY SMTT(20), <1>2, <2>3, <2>4, ReplyGone
<1>7. CASE \/ /\ replies[i].kind = "Nak"
              /\ OnTransportPacket("Nak", replies[i].psn, now)
           \/ /\ replies[i].kind = "Dropped"
              /\ OnDropped(replies[i].tok, now)
           \/ /\ replies[i].kind \in {"Delivered", "Dropped"}
              /\ OnStaleEvent(replies[i].tok, now)
  <2>1. \A tok \in Token : told'[tok] = "delivered" => told[tok] = "delivered"
    BY SMTT(20), <1>1, <1>4, <1>7, NothingDelivered
  <2>2. cut' = cut
    BY <1>7, Zenon DEF OnTransportPacket, OnDropped, OnStaleEvent
  <2> QED BY SMTT(20), <1>2, <1>5, <2>1, <2>2, ReplyGone
<1> QED BY <1>2, <1>6, <1>7

\* The agreement holds at first
LEMMA InitNet ==
    ASSUME Init PROVE PlacesInv /\ NetInv
<1>1. PlacesInv
  BY TxInitPlaces, Zenon DEF Init
<1>2. /\ forward = <<>> /\ replies = <<>> /\ host = <<>> /\ cut = 0
      /\ responder = NoQp /\ told = [tok \in Token |-> "none"]
  BY Zenon DEF Init, TxInit
<1>3. Cut = {}
  BY <1>2 DEF Cut
<1>4. NetTypeOK
  BY <1>2 DEF NetTypeOK, NoQp
<1>5. Abreast
  BY <1>2, <1>3 DEF Abreast, HostInOrder, NoQp
<1>6. Vouched
  BY <1>2 DEF Vouched, VouchedFor
<1> QED BY <1>1, <1>4, <1>5, <1>6 DEF NetInv

\* and after every step of the connection.
LEMMA StepNet ==
    ASSUME PlacesInv, NetInv, Reliable, [Next]_vars
    PROVE  PlacesInv' /\ NetInv'
<1>1. PlacesInv'
  <2>1. [TxStep]_txVars
    BY StepsRequester, Zenon DEF PlacesInv, NetInv
  <2> QED BY <2>1, TxStepPlaces, Zenon
<1>2. CASE Submit
  BY <1>1, <1>2, SubmitNet, ZenonT(30)
<1>3. CASE Release
  BY <1>1, <1>3, ReleaseNet
<1>4. CASE Accept
  BY SMTT(20), <1>1, <1>4, AcceptNet
<1>5. CASE Stop
  BY <1>1, <1>5, StopNet, Zenon
<1>6. CASE Arrive
  BY <1>1, <1>6, ArriveNet, Zenon
<1>7. CASE ArriveAboveCeiling
  BY <1>1, <1>7, CeilingNet, ZenonT(30)
<1>8. CASE LosePacket \/ DropPacket
  BY SMTT(20), <1>1, <1>8, LossNet
<1>9. CASE LoseReply
  BY SMTT(20), <1>1, <1>9, LoseReplyNet
<1>10. CASE Deliver
  BY <1>1, <1>10, DeliverNet, Zenon
<1>11. CASE UNCHANGED vars
  <2>1. UNCHANGED <<cut, told, queue, forward, replies, responder, host>> /\ Cut' = Cut
    BY <1>11, Zenon DEF vars, txVars, netVars, Cut
  <2> QED BY <1>1, <2>1, Zenon
          DEF NetInv, NetTypeOK, Abreast, HostInOrder, Vouched, VouchedFor
<1> QED BY SMTT(20), <1>1, <1>2, <1>3, <1>4, <1>5, <1>6, <1>7, <1>8, <1>9, <1>10,
           <1>11 DEF Next

\* The agreement of the two ends holds throughout.
LEMMA NetAlways ==
    ASSUME Reliable PROVE Spec => [](PlacesInv /\ NetInv)
<1>1. Init => PlacesInv /\ NetInv
  BY InitNet, Zenon
<1>2. PlacesInv /\ NetInv /\ [Next]_vars => PlacesInv' /\ NetInv'
  BY StepNet, Zenon
<1> QED BY <1>1, <1>2, PTL DEF Spec

\* Through losses, premature timeouts, stale reports and overtaking replies,
\* the far host is handed the packets cut, each once and in order.
THEOREM HandedOverInOrder ==
    ASSUME Reliable PROVE Spec => []HostInOrder
<1>1. PlacesInv /\ NetInv => HostInOrder
  BY Zenon DEF NetInv, Abreast
<1> QED BY <1>1, NetAlways, PTL

\* A packet the requester counts as delivered was handed to the far host.
THEOREM DeliveredWasHandedOver ==
    ASSUME Reliable PROVE Spec => []AckedWasDelivered
<1>1. ASSUME PlacesInv, NetInv PROVE AckedWasDelivered
  <2> SUFFICES ASSUME NEW tok \in Token, told[tok] = "delivered"
               PROVE  Psn(tok[1]) \in Accepted
    BY Zenon DEF AckedWasDelivered
  <2>1. tok[1] \in Nat /\ tok[1] < Len(host) /\ host \in Seq(Nat)
    BY <1>1 DEF NetInv, NetTypeOK, Vouched, Token, Packet
  <2>2. tok[1] + 1 \in DOMAIN host
    BY SMTT(20), <2>1
  <2>3. host[tok[1] + 1] = Psn((tok[1] + 1) - 1) /\ (tok[1] + 1) - 1 = tok[1]
    BY SMTT(20), <1>1, <2>1, <2>2 DEF NetInv, Abreast, HostInOrder
  <2> QED BY <2>2, <2>3, Zenon DEF Accepted
<1> QED BY <1>1, NetAlways, PTL

-----------------------------------------------------------------------------
(* The refinement of ReliableTransfer. *)

\* Its state, as RnicTransport maps it.
EndsOf(x) == [e \in {d \in Extent : x[d].status # "none"} |-> x[e].first + x[e].size]
Ends == EndsOf(extents)
Done == {e \in Extent : extents[e].status = "Delivered"}

\* The extents opened make a sequence of ends.
LEMMA EndsIsSequence ==
    ASSUME NEW x \in [Extent -> ExtentRecord], NEW n \in 0 .. MaxExtents,
           OpenUpTo(x, n)
    PROVE  /\ EndsOf(x) \in Seq(Nat) /\ Len(EndsOf(x)) = n /\ DOMAIN EndsOf(x) = 1 .. n
           /\ 1 .. n \subseteq Extent
           /\ \A e \in 1 .. n : EndsOf(x)[e] = x[e].first + x[e].size
<1>1. MaxExtents \in Nat /\ n \in Nat
  BY ConfigAssumption
<1>2. {d \in Extent : x[d].status # "none"} = 1 .. n /\ 1 .. n \subseteq Extent
  BY <1>1 DEF OpenUpTo, Extent
<1>3. \A e \in 1 .. n : x[e].first + x[e].size \in Nat
  BY <1>1, <1>2 DEF ExtentRecord
<1>4. EndsOf(x) = [e \in 1 .. n |-> x[e].first + x[e].size]
  BY <1>2, Zenon DEF EndsOf
<1> QED BY SMTT(20), <1>1, <1>2, <1>3, <1>4

\* A step that opens and ends no extent changes nothing in the abstract.
Alike(x, y) ==
    /\ x.first = y.first /\ x.size = y.size
    /\ x.status = "none" <=> y.status = "none"
\* Extents alike, ends alike.
LEMMA EndsKept ==
    ASSUME PlacesInv, PostedInOrder, cut' = cut,
           \A e \in Extent : Alike(extents'[e], extents[e])
    PROVE  Ends' = Ends /\ PostedInOrder'
<1>1. {d \in Extent : extents'[d].status # "none"}
        = {d \in Extent : extents[d].status # "none"}
  BY Zenon DEF Alike
<1>2. Ends' = Ends
  BY <1>1, Zenon DEF Ends, EndsOf, Alike
<1>3. PICK n \in 0 .. MaxExtents : Posted(n)
  BY Zenon DEF PostedInOrder
<1>4. n > 0 => n \in Extent
  BY <1>3, ConfigAssumption DEF Extent
<1>5. Posted(n)'
  BY <1>3, <1>4, Zenon DEF Posted, OpenUpTo, Alike
<1> QED BY <1>2, <1>5, Zenon DEF PostedInOrder

\* Submitting posts the extent's packets.
LEMMA SubmitPosts ==
    ASSUME PlacesInv, PlacesInv', PostedInOrder, Submit
    PROVE  PostedInOrder' /\ Abstract!Post
<1>1. PICK n \in 0 .. MaxExtents : Posted(n)
  BY Zenon DEF PostedInOrder
<1>2. PICK payload \in Payloads : TrySubmit(payload, now) /\ host' = host
  BY Zenon DEF Submit, netVars
<1>3. PICK c \in Nat : c = PacketCount(payload)
  BY ConfigAssumption DEF PacketCount
<1>4. PICK e \in Extent :
         /\ extents[e].status = "none"
         /\ \A d \in Extent : extents[d].status = "none" => e =< d
         /\ cut' = cut + c
         /\ extents' = [extents EXCEPT ![e] = FreshExtent(cut, c)]
  BY <1>2, <1>3, ZenonT(30) DEF TrySubmit
<1>5. /\ extents \in [Extent -> ExtentRecord] /\ extents' \in [Extent -> ExtentRecord]
      /\ cut \in Nat /\ MaxExtents \in Nat /\ n \in Nat
  BY ConfigAssumption DEF PlacesInv, TxTypeOK
<1>6. e = n + 1 /\ n + 1 \in 0 .. MaxExtents /\ n < MaxExtents
  <2>1. e \in 1 .. MaxExtents /\ ~(e =< n)
    BY <1>1, <1>4, ZenonT(30) DEF Posted, OpenUpTo, Extent
  <2>2. n + 1 \in Extent
    BY <1>5, <2>1 DEF Extent
  <2>3. ~(n + 1 =< n)
    BY <1>5
  <2>4. e =< n + 1
    BY <1>1, <1>4, <2>2, <2>3, ZenonT(30) DEF Posted, OpenUpTo
  <2> QED BY <1>5, <2>1, <2>4
<1>7. /\ extents'[e].status = "open" /\ extents'[e].first = cut /\ extents'[e].size = c
      /\ \A d \in Extent \ {e} : extents'[d] = extents[d]
  BY <1>4, <1>5, ZenonT(30) DEF FreshExtent, NoExtent
<1>8. OpenUpTo(extents', n + 1)
  <2> SUFFICES ASSUME NEW d \in Extent
               PROVE  extents'[d].status # "none" <=> d =< n + 1
    BY Zenon DEF OpenUpTo
  <2>1. d \in Int /\ (extents[d].status # "none" <=> d =< n)
    BY <1>1 DEF Posted, OpenUpTo, Extent
  <2>2. CASE d = e
    BY SMTT(20), <1>5, <1>6, <1>7, <2>2
  <2>3. CASE d # e
    BY SMTT(20), <1>5, <1>6, <1>7, <2>1, <2>3
  <2> QED BY <2>2, <2>3, Zenon
<1>9. Posted(n + 1)'
  BY SMTT(20), <1>4, <1>5, <1>6, <1>7, <1>8 DEF Posted
<1>10. /\ Ends \in Seq(Nat) /\ Len(Ends) = n /\ DOMAIN Ends = 1 .. n
       /\ 1 .. n \subseteq Extent
       /\ \A d \in 1 .. n : Ends[d] = extents[d].first + extents[d].size
  BY <1>1, <1>5, EndsIsSequence, ZenonT(30) DEF Ends, Posted
<1>11. /\ Ends' \in Seq(Nat) /\ Len(Ends') = n + 1
       /\ \A d \in 1 .. n + 1 : Ends'[d] = extents'[d].first + extents'[d].size
  BY SMTT(20), <1>5, <1>6, <1>8, EndsIsSequence DEF Ends
<1>12. PICK last \in Nat : /\ last = IF Len(Ends) = 0 THEN 0 ELSE Ends[Len(Ends)]
                          /\ last = cut
  <2>1. CASE n = 0
    BY SMTT(20), <1>1, <1>10, <2>1 DEF Posted
  <2>2. CASE n > 0
    BY SMTT(20), <1>1, <1>5, <1>10, <2>2 DEF Posted
  <2> QED BY SMTT(20), <1>5, <2>1, <2>2
<1>13. Ends' = Append(Ends, last + c)
  <2>1. last + c \in Nat
    BY <1>3, <1>12
  <2>2. Ends'[n + 1] = last + c
    BY SMTT(20), <1>5, <1>6, <1>7, <1>11, <1>12
  <2>3. \A d \in 1 .. n : Ends'[d] = Ends[d]
    BY SMTT(20), <1>5, <1>6, <1>7, <1>10, <1>11
  <2> QED BY SMTT(20), <1>5, <1>10, <1>11, <2>1, <2>2, <2>3
<1>14. Done' = Done
  BY <1>4, <1>7 DEF Done
<1>15. Abstract!Post
  <2>1. c \in {PacketCount(p) : p \in Payloads}
    BY <1>3, Zenon
  <2>2. Abstract!EndOf(Len(Ends)) = last
    BY <1>12, Zenon DEF Abstract!EndOf, Ends, EndsOf
  <2> QED BY <1>2, <1>6, <1>10, <1>13, <1>14, <2>1, <2>2, ZenonT(30)
             DEF Abstract!Post, Ends, EndsOf, Done
<1> QED BY <1>6, <1>9, <1>15 DEF PostedInOrder

\* What a release and the wire do is not seen in the abstract.
LEMMA OthersStutter ==
    ASSUME PlacesInv, PostedInOrder, Reliable, NEW t, NEW tok, NEW psn,
           \/ ReleaseBegin(t) \/ ReleaseAccepted(0, 0) \/ ReleaseEnd
           \/ OnTransportPacket("Nak", psn, t) \/ OnDropped(tok, t)
           \/ OnArrived(tok, t) \/ OnStaleEvent(tok, t) \/ UNCHANGED txVars
    PROVE  Ends' = Ends /\ PostedInOrder' /\ Done' = Done
<1>1. extents \in [Extent -> ExtentRecord]
  BY Zenon DEF PlacesInv, TxTypeOK
<1>2. CASE ReleaseAccepted(0, 0)
  <2>1. PICK e : /\ cut' = cut
                 /\ extents' = [extents EXCEPT ![e].in_flight = TRUE,
                                               ![e].issued_count = @ + 1]
    BY <1>2, Zenon DEF ReleaseAccepted
  <2>2. \A d \in Extent : Alike(extents'[d], extents[d])
                            /\ extents'[d].status = extents[d].status
    BY <1>1, <2>1 DEF Alike, ExtentRecord
  <2>3. Ends' = Ends /\ PostedInOrder'
    BY <2>1, <2>2, EndsKept, Zenon
  <2> QED BY <2>2, <2>3, Zenon DEF Done
<1>3. CASE \/ ReleaseBegin(t) \/ ReleaseEnd \/ OnTransportPacket("Nak", psn, t)
           \/ OnDropped(tok, t) \/ OnArrived(tok, t) \/ OnStaleEvent(tok, t)
           \/ UNCHANGED txVars
  <2>1. extents' = extents /\ cut' = cut
    BY <1>3, Zenon
       DEF ReleaseBegin, ReleaseEnd, OnTransportPacket, OnDropped, OnArrived,
                OnStaleEvent, Reliable, txVars
  <2>2. \A d \in Extent : Alike(extents'[d], extents[d])
    BY <2>1, Zenon DEF Alike
  <2>3. Ends' = Ends /\ PostedInOrder'
    BY <2>1, <2>2, EndsKept, ZenonT(30)
  <2> QED BY <2>1, <2>3, ZenonT(30) DEF Done
<1> QED BY <1>2, <1>3, Zenon

\* A delivery completes its extent, or is not seen: when the last packet of
\* the extent is told delivered, all of them have been handed over.
LEMMA DeliveredCompletes ==
    ASSUME PlacesInv, PlacesInv', NetInv', ExtentOutcome', PostedInOrder,
           NEW tok \in bindings, OnDelivered(tok, now), host' = host,
           NEW e, e = packets[tok[1]].extent
    PROVE  /\ PostedInOrder'
           /\ \/ Abstract!Complete
              \/ Ends' = Ends /\ Done' = Done
<1>1. /\ extents \in [Extent -> ExtentRecord] /\ extents' \in [Extent -> ExtentRecord]
      /\ Len(host) \in Nat
  <2>1. extents \in [Extent -> ExtentRecord] /\ extents' \in [Extent -> ExtentRecord]
    BY Zenon DEF PlacesInv, TxTypeOK
  <2>2. host' \in Seq(Nat)
    BY Zenon DEF NetInv, NetTypeOK
  <2> QED BY <2>1, <2>2
<1>2. tok[1] \in Cut /\ ~packets[tok[1]].terminal
  BY Zenon DEF PlacesInv, Places
<1>3. e \in Extent /\ extents[e].status = "open"
  BY <1>2, UnretiredIsOpen, ZenonT(30)
<1>4. extents[e].size \in Nat \ {0} /\ extents[e].first \in Nat
  <2>1. /\ extents[e].size \in Nat /\ extents[e].terminal_count \in Nat
        /\ extents[e].first \in Nat
    BY <1>1, <1>3, Zenon DEF ExtentRecord
  <2>2. extents[e].terminal_count < extents[e].size
    BY <1>3, Zenon DEF PlacesInv, Counted
  <2> QED BY <2>1, <2>2
<1>5. PICK after : after = Retire(extents[e], "delivered" = "dropped")
  OBVIOUS
<1>6. cut' = cut /\ extents' = [extents EXCEPT ![e] = after]
  BY SMTT(20), <1>5 DEF OnDelivered, Terminal
<1>7. /\ after.first = extents[e].first /\ after.size = extents[e].size
      /\ after.status \in {"open", "Delivered", "Dropped"}
  <2>1. extents[e] \in ExtentRecord
    BY <1>1, <1>3
  <2>2. after.first = extents[e].first /\ after.size = extents[e].size
    BY <1>5, <2>1, Zenon DEF Retire, ExtentRecord
  <2>3. after.status = (IF ~(extents[e].terminal_count + 1 = extents[e].size)
                        THEN extents[e].status
                        ELSE IF extents[e].dropped \/ "delivered" = "dropped"
                             THEN "Dropped" ELSE "Delivered")
    BY <1>5, <2>1, ZenonT(30) DEF Retire, ExtentRecord
  <2> QED BY SMTT(20), <1>3, <2>2, <2>3
<1>8. extents'[e] = after /\ \A d \in Extent \ {e} : extents'[d] = extents[d]
  BY SMTT(20), <1>1, <1>3, <1>6
<1>9. \A d \in Extent : Alike(extents'[d], extents[d])
  BY <1>3, <1>7, <1>8 DEF Alike
<1>10. Ends' = Ends /\ PostedInOrder'
  BY <1>6, <1>9, EndsKept, ZenonT(30)
<1>11. CASE after.status # "Delivered"
  <2>1. Done' = Done
    BY <1>3, <1>8, <1>11 DEF Done
  <2> QED BY <1>10, <2>1, ZenonT(30)
<1>12. CASE after.status = "Delivered"
  <2>1. Done' = Done \cup {e} /\ e \notin Done
    BY SMTT(20), <1>3, <1>8, <1>12 DEF Done
  <2>2. PICK k : k = extents[e].first + extents[e].size - 1
    OBVIOUS
  <2>3. k \in PacketsOf(e)' /\ k \in Int
    <3>1. extents'[e].first = extents[e].first /\ extents'[e].size = extents[e].size
      BY <1>7, <1>8, Zenon
    <3>2. PacketsOf(e)' = extents'[e].first .. extents'[e].first + extents'[e].size - 1
      BY Zenon DEF PacketsOf
    <3>3. \A a \in Nat, n \in Nat \ {0} : a + n - 1 \in a .. a + n - 1 /\ a + n - 1 \in Int
      OBVIOUS
    <3>4. /\ k \in extents[e].first .. extents[e].first + extents[e].size - 1
          /\ k \in Int
      BY <1>4, <2>2, <3>3, ZenonT(30)
    <3> QED BY <3>1, <3>2, <3>4, ZenonT(30)
  <2>4. told'[CurrentToken(k)'] = "delivered"
    BY SMTT(20), <1>3, <1>8, <1>12, <2>3 DEF ExtentOutcome
  <2>5. k \in Packet /\ packets'[k].attempt \in 0 .. MaxAttempts - 1
    <3>1. k \in Cut'
      BY <1>3, <1>8, <1>12, <2>3, ZenonT(30) DEF PlacesInv, Membership
    <3>2. k \in Packet
      <4>1. cut' \in 0 .. MaxPackets /\ MaxPackets \in Nat
        BY ConfigAssumption DEF PlacesInv, TxTypeOK
      <4>2. k \in 0 .. cut' - 1
        BY <3>1 DEF Cut
      <4>3. \A m, c \in Int : c =< m => 0 .. c - 1 \subseteq 0 .. m - 1
        OBVIOUS
      <4>4. MaxPackets \in Int /\ cut' \in Int /\ cut' =< MaxPackets
        BY <4>1
      <4> QED BY <4>1, <4>2, <4>3, <4>4, ZenonT(30) DEF Packet
    <3> QED BY <3>2, ZenonT(30) DEF PlacesInv, TxTypeOK, PacketRecord
  <2>6. CurrentToken(k)' \in Token /\ CurrentToken(k)'[1] = k
    BY <2>5 DEF CurrentToken, Token
  <2>7. k < Len(host)
    BY SMTT(20), <2>4, <2>6 DEF NetInv, Vouched
  <2>8. e \in DOMAIN Ends /\ Ends[e] = extents[e].first + extents[e].size /\ e # 0
    BY <1>3 DEF Ends, EndsOf, Extent
  <2>9. Ends[e] =< Len(host)
    <3>1. \A a, n, h \in Int : a + n - 1 < h => a + n =< h
      BY SMTT(20)
    <3>2. Len(host) \in Int /\ extents[e].first \in Int /\ extents[e].size \in Int
      BY SMTT(20), <1>1, <1>4
    <3> QED BY <2>2, <2>7, <2>8, <3>1, <3>2, ZenonT(30)
  <2>10. Abstract!EndOf(e) = Ends[e]
    BY <2>8 DEF Abstract!EndOf, Ends, EndsOf
  <2>11. Abstract!Complete
    BY <1>10, <2>1, <2>8, <2>9, <2>10, ZenonT(30)
       DEF Abstract!Complete, Ends, EndsOf, Done
  <2> QED BY <1>10, <2>11, ZenonT(30)
<1> QED BY <1>11, <1>12, ZenonT(30)

\* What the wire hands over is received.
LEMMA ArriveReceives ==
    ASSUME PlacesInv, PlacesInv', NetInv, NetInv', PostedInOrder, Arrive,
           Ends' = Ends, Done' = Done
    PROVE  Abstract!Receive \/ UNCHANGED <<Ends, host, Done>>
<1>1. PICK psn \in Nat : host' = Append(host, psn) \/ host' = host
  <2>1. PICK psn : host' = Append(host, psn) \/ host' = host
    BY Zenon DEF Arrive
  <2>2. CASE host' = host
    BY <2>2, Zenon
  <2>3. CASE host' = Append(host, psn)
    <3>1. host \in Seq(Nat) /\ host' \in Seq(Nat)
      BY Zenon DEF NetInv, NetTypeOK
    <3>2. host'[Len(host) + 1] = psn /\ Len(host) + 1 \in DOMAIN host'
      BY <2>3, <3>1
    <3> QED BY <2>3, <3>1, <3>2
  <2> QED BY <2>1, <2>2, <2>3
<1>2. CASE host' = host
  BY <1>2, ZenonT(30)
<1>3. CASE host' = Append(host, psn)
  <2>1. host \in Seq(Nat) /\ Len(host') = Len(host) + 1 /\ Len(host') =< cut'
    BY <1>1, <1>3 DEF NetInv, NetTypeOK, Abreast
  <2>2. cut' = cut /\ cut \in Nat
    <3>1. PICK tok : TellRequester(tok)
      BY Zenon DEF Arrive
    <3>2. cut' = cut
      BY SMTT(20), <3>1 DEF TellRequester, OnArrived, OnStaleEvent
    <3>3. cut \in Nat
      BY DEF PlacesInv, TxTypeOK
    <3> QED BY <3>2, <3>3, Zenon
  <2>3. PICK n \in 0 .. MaxExtents : Posted(n)
    BY ZenonT(30) DEF PostedInOrder
  <2>4. extents \in [Extent -> ExtentRecord] /\ MaxExtents \in Nat
    BY SMTT(20), ConfigAssumption DEF PlacesInv, TxTypeOK
  <2>5. /\ Len(Ends) = n
        /\ \A e \in 1 .. n : Ends[e] = extents[e].first + extents[e].size
    BY SMTT(20), <2>3, <2>4, EndsIsSequence DEF Posted, Ends
  <2>6. cut = IF n = 0 THEN 0 ELSE Ends[n]
    BY <2>3, <2>5 DEF Posted
  <2>7. Abstract!EndOf(Len(Ends)) = IF n = 0 THEN 0 ELSE Ends[n]
    BY <2>5, Zenon DEF Abstract!EndOf, Ends, EndsOf
  <2>8. Len(host) \in Nat /\ Len(host) < Abstract!EndOf(Len(Ends))
    BY SMTT(20), <2>1, <2>2, <2>6, <2>7
  <2> QED BY SMTT(20), <2>1, <2>8 DEF Abstract!Receive, Ends, EndsOf, Done
<1> QED BY <1>1, <1>2, <1>3

\* Every step of the connection is a step of the abstract transfer.
LEMMA StepRefines ==
    ASSUME PlacesInv, NetInv, Ledger, Outcome, PostedInOrder, Reliable, [Next]_vars
    PROVE  /\ Ledger' /\ Outcome' /\ PostedInOrder'
           /\ [Abstract!Next]_Abstract!vars
<1>1. PlacesInv' /\ NetInv' /\ Ledger' /\ Outcome' /\ ExtentOutcome'
  <2>1. [TxStep]_txVars
    BY StepsRequester, Zenon DEF PlacesInv, NetInv
  <2>2. PlacesInv' /\ NetInv' /\ Ledger' /\ Outcome'
    BY <2>1, StepNet, TxStepLedger
  <2>3. (PlacesInv /\ Ledger /\ Outcome => ExtentOutcome)'
    BY LedgerOutcome, PTL
  <2> QED BY <2>2, <2>3, Zenon
<1>2. ASSUME Ends' = Ends, Done' = Done, host' = host, PostedInOrder'
      PROVE  PostedInOrder' /\ [Abstract!Next]_Abstract!vars
  BY <1>2, Zenon DEF Abstract!vars, Ends, EndsOf, Done
<1>3. CASE Submit
  BY SMTT(20), <1>1, <1>3, SubmitPosts DEF Abstract!Next
<1>4. CASE Release \/ Accept \/ Stop
  <2>1. PICK t : ReleaseBegin(t) \/ ReleaseAccepted(0, 0) \/ ReleaseEnd
    BY <1>4, Zenon DEF Release, Accept, Stop
  <2>2. host' = host
    BY <1>4, ZenonT(30) DEF Release, Accept, Stop, netVars
  <2> QED BY SMTT(20), <1>1, <1>2, <2>1, <2>2, OthersStutter
<1>5. CASE LosePacket \/ DropPacket \/ LoseReply \/ UNCHANGED vars
  <2>1. UNCHANGED txVars /\ host' = host
    BY <1>5, ZenonT(30) DEF LosePacket, DropPacket, LoseReply, vars, netVars
  <2> QED BY SMTT(20), <1>1, <1>2, <2>1, OthersStutter
<1>6. CASE ArriveAboveCeiling
  <2>1. PICK tok : OnArrived(tok, now) \/ OnStaleEvent(tok, now)
    BY <1>6, Zenon DEF ArriveAboveCeiling, TellRequester
  <2>2. host' = host
    BY <1>6 DEF ArriveAboveCeiling
  <2> QED BY SMTT(20), <1>1, <1>2, <2>1, <2>2, OthersStutter
<1>7. CASE Arrive
  <2>1. PICK tok : OnArrived(tok, now) \/ OnStaleEvent(tok, now)
    BY <1>7, Zenon DEF Arrive, TellRequester
  <2>2. Ends' = Ends /\ Done' = Done /\ PostedInOrder'
    BY <2>1, OthersStutter
  <2>3. Abstract!Receive \/ UNCHANGED <<Ends, host, Done>>
    BY SMTT(20), <1>1, <1>7, <2>2, ArriveReceives
  <2> QED BY SMTT(20), <1>1, <1>2, <2>2, <2>3 DEF Abstract!Next
<1>8. CASE Deliver
  <2>1. PICK m :
           /\ \/ OnTransportPacket("Nak", m.psn, now)
              \/ OnDelivered(m.tok, now) \/ OnDropped(m.tok, now)
              \/ OnStaleEvent(m.tok, now)
           /\ host' = host
    BY <1>8, Zenon DEF Deliver
  <2>2. CASE OnDelivered(m.tok, now)
    <3>1. m.tok \in bindings
      BY <2>2, Zenon DEF OnDelivered
    <3>2. PostedInOrder' /\ (Abstract!Complete \/ (Ends' = Ends /\ Done' = Done))
      BY <1>1, <2>1, <2>2, <3>1, DeliveredCompletes, ZenonT(30)
    <3> QED BY SMTT(20), <1>1, <1>2, <2>1, <3>2 DEF Abstract!Next
  <2>3. CASE \/ OnTransportPacket("Nak", m.psn, now) \/ OnDropped(m.tok, now)
             \/ OnStaleEvent(m.tok, now)
    BY SMTT(20), <1>1, <1>2, <2>1, <2>3, OthersStutter
  <2> QED BY <2>1, <2>2, <2>3
<1> QED BY SMTT(20), <1>1, <1>3, <1>4, <1>5, <1>6, <1>7, <1>8 DEF Next

\* The requester, the wire and the responder together are a reliable in-order
\* transfer: each posted packet is received once and in order, and an extent
\* completes only after its last packet is there.
THEOREM ConnectionIsReliable ==
    ASSUME Reliable PROVE Spec => Abstract!Spec
<1>1. ASSUME Init
      PROVE  PlacesInv /\ NetInv /\ Ledger /\ Outcome /\ PostedInOrder /\ Abstract!Init
  <2>1. PlacesInv /\ NetInv /\ Ledger /\ Outcome
    BY <1>1, InitNet, TxInitLedger, ZenonT(30) DEF Init
  <2>2. cut = 0 /\ host = <<>> /\ \A e \in Extent : extents[e].status = "none"
    BY <1>1, Zenon DEF Init, TxInit, NoExtent
  <2>3. Posted(0) /\ 0 \in 0 .. MaxExtents
    BY <2>2, ConfigAssumption DEF Posted, OpenUpTo, Extent
  <2>4. Ends = <<>> /\ Done = {} /\ Len(host) = 0
    <3>1. {d \in Extent : extents[d].status # "none"} = {}
      BY <2>2, Zenon
    <3>2. Ends = [e \in {} |-> extents[e].first + extents[e].size]
      BY <3>1, Zenon DEF Ends, EndsOf
    <3>3. Ends = <<>>
      BY <3>2
    <3> QED BY <2>2, <3>3, Zenon DEF Done
  <2> QED BY <2>1, <2>3, <2>4 DEF PostedInOrder, Abstract!Init, Ends, EndsOf, Done
<1>2. PlacesInv /\ NetInv /\ Ledger /\ Outcome /\ PostedInOrder /\ [Next]_vars
        => /\ Ledger' /\ Outcome' /\ PostedInOrder'
           /\ [Abstract!Next]_Abstract!vars
  BY StepRefines, Zenon
<1> QED BY SMTT(20), <1>1, <1>2, NetAlways, PTL DEF Spec, Abstract!Spec
=============================================================================
