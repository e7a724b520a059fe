---------------------------- MODULE RnicTxProofs ----------------------------
(***************************************************************************)
(* The transmit pipeline at its port, for every value of the constants:    *)
(* type correctness, no dangling packet, the order of the attempts on the  *)
(* wire, what the work queue is told, and the window.                      *)
(***************************************************************************)
EXTENDS RnicTxPort, RnicTxSteps

\* Whatever the caller and the port do is a step of the pipeline.
LEMMA PortStepsPipeline ==
    ASSUME TxTypeOK, [PortNext]_portVars
    PROVE  [TxStep]_txVars
<1>1. BitDelays \subseteq Nat /\ MessageDelays \subseteq Nat
  BY ConfigAssumption, Zenon
<1>2. CASE Reply
  <2>1. PICK t \in Time, k \in 0 .. cut, kind \in {"Ack", "Nak"} :
           OnTransportPacket(kind, Psn(k), t)
    BY <1>2, Zenon DEF Reply
  <2>2. Psn(k) \in Nat
    BY ConfigAssumption, PsnAssumption DEF Psn, PsnAfter, TxTypeOK
  <2> QED BY <2>1, <2>2, Zenon DEF TxStep
<1>3. CASE PortSubmit \/ PortRelease \/ PortBusy \/ PortReject \/ PortStop
  BY <1>3, Zenon DEF PortSubmit, PortRelease, PortBusy, PortReject, PortStop, TxStep
<1>4. CASE PortAccept
  BY <1>1, <1>4, Zenon DEF PortAccept, TxStep
<1>5. CASE Arrived \/ Delivered \/ Dropped \/ Stale
  BY <1>5, Zenon DEF Arrived, Delivered, Dropped, Stale, TxStep
<1>6. CASE UNCHANGED portVars
  BY <1>6, Zenon DEF portVars
<1> QED BY <1>2, <1>3, <1>4, <1>5, <1>6, Zenon DEF PortNext

\* The places invariant holds throughout.
LEMMA PlacesAlways == PortSpec => []PlacesInv
<1>1. PortInit => PlacesInv
  BY TxInitPlaces, Zenon DEF PortInit
<1>2. PlacesInv /\ [PortNext]_portVars => PlacesInv'
  BY TxStepPlaces, PortStepsPipeline, Zenon DEF PlacesInv
<1> QED BY <1>1, <1>2, PTL DEF PortSpec

\* Every call into the pipeline, by whichever caller, keeps its state well
\* typed.
THEOREM TypeCorrect == PortSpec => []PortTypeOK
<1> DEFINE WireType == wire \in [Token -> {"none", "started", "arrived"}]
<1>1. PortInit => WireType
  BY Zenon DEF PortInit
<1>2. PlacesInv /\ WireType /\ [PortNext]_portVars => WireType'
  <2> SUFFICES ASSUME PlacesInv, WireType, [PortNext]_portVars
               PROVE  WireType'
    OBVIOUS
  <2>1. CASE \E tok \in Token, stage \in Stage : PortReports(tok, stage)
    BY <2>1, Zenon DEF PortReports
  <2>2. CASE PortAccept
    BY <2>2, Zenon DEF PortAccept
  <2>3. CASE wire' = wire
    BY <2>3, Zenon
  <2> QED BY <2>1, <2>2, <2>3, Zenon
          DEF PortNext, PortSubmit, PortRelease, PortBusy, PortReject, PortStop,
              Reply, Arrived, Delivered, Dropped, Stale, Stage, portVars
<1>3. PlacesInv /\ WireType => PortTypeOK
  BY Zenon DEF PlacesInv, PortTypeOK
<1> QED BY <1>1, <1>2, <1>3, PlacesAlways, PTL DEF PortSpec

\* At every instant of every run, what queue_, live_psns_ and
\* downstream_tokens_ name exists and is not retired, and no unretired packet
\* is lost from all three: the pipeline never throws out of extents_.at,
\* never retires a packet twice and never forgets one, whatever mix of NAKs,
\* drops, timeouts, refusals and late reports it meets.
THEOREM NothingDangles == PortSpec => []NoDanglingPacket
<1>1. PlacesInv => NoDanglingPacket
  <2> SUFFICES ASSUME PlacesInv PROVE NoDanglingPacket
    OBVIOUS
  <2>1. ASSUME NEW k \in Cut, ~packets[k].terminal
        PROVE  Open(k)
    <3> DEFINE e == packets[k].extent
    <3>1. e \in Extent /\ extents[e].status # "none" /\ k \in PacketsOf(e)
      BY Zenon DEF PlacesInv, Membership
    <3>2. k \notin Retired(e)
      BY <2>1, Zenon DEF Retired
    <3>3. extents[e].status = "open"
      BY <3>1, <3>2, Zenon DEF PlacesInv, Counted
    <3>4. e # 0
      BY <3>1, ConfigAssumption DEF Extent
    <3> QED BY <3>3, <3>4, Zenon DEF Open
  <2>2. \A tok \in bindings : Open(tok[1]) /\ InFlight(tok[1])
                             /\ tok = CurrentToken(tok[1])
    BY <2>1, Zenon DEF PlacesInv, Places, InFlight
  <2> QED BY <2>1, <2>2, Zenon DEF PlacesInv, Places, NoDanglingPacket, InFlight
<1> QED BY <1>1, PlacesAlways, PTL

\* As long as sequence numbers do not wrap, everything on the wire precedes
\* everything waiting, whatever NAKs, drops and timeouts replay, and the
\* lowest live sequence number is the oldest attempt, which is what
\* earliestTimeout takes it for.
THEOREM WireInSequence ==
    ASSUME NoWrap
    PROVE  PortSpec => []SequenceOrder
<1>1. PortInit => Order
  BY Zenon DEF PortInit, TxInit, Order
<1>2. PlacesInv /\ Order /\ [PortNext]_portVars => Order'
  BY PortStepsPipeline, OrderInductive, Zenon DEF PlacesInv
<1>3. PlacesInv => live \subseteq Packet /\ queue \subseteq Packet
  BY Zenon DEF PlacesInv, TxTypeOK
<1>4. PlacesInv /\ Order => SequenceOrder
  BY <1>3, PsnOrder, Zenon DEF Order, SequenceOrder
<1> QED BY <1>1, <1>2, <1>4, PlacesAlways, PTL DEF PortSpec

\* The ledger holds throughout.
LEMMA LedgerAlways == PortSpec => [](PlacesInv /\ Ledger /\ Outcome)
<1>1. PortInit => Ledger /\ Outcome
  BY TxInitLedger, Zenon DEF PortInit
<1>2. PlacesInv /\ Ledger /\ Outcome /\ [PortNext]_portVars => Ledger' /\ Outcome'
  BY PortStepsPipeline, TxStepLedger, Zenon DEF PlacesInv
<1> QED BY <1>1, <1>2, PlacesAlways, PTL DEF PortSpec

\* Through any mix of replays, refusals and late reports, the one terminal an
\* extent announces is the truth about every packet of it, and comes after
\* the last of them.
THEOREM ExtentsEndAsTold == PortSpec => []ExtentOutcome
<1>1. PlacesInv /\ Ledger /\ Outcome => ExtentOutcome
  BY LedgerOutcome, Zenon
<1> QED BY <1>1, LedgerAlways, PTL

-----------------------------------------------------------------------------
(* What the port still owes a terminal for. *)

\* A report of the attempt on the wire has been passed on.
WireInv ==
    /\ StaleMeansReplaced
    /\ \A tok \in bindings : wire[tok] = "arrived" => told[tok] = "arrived"

\* What the work queue knows of the attempts that are still going.
LEMMA GoingSaid ==
    ASSUME PlacesInv, Ledger
    PROVE  /\ bindings \subseteq Token
           /\ \A tok \in bindings : told[tok] \in {"started", "arrived"}
           /\ \A k \in live : /\ k \in Packet /\ CurrentToken(k) \in Token
                              /\ told[CurrentToken(k)] \in {"started", "arrived"}
           /\ \A k \in queue : /\ k \in Packet /\ CurrentToken(k) \in Token
                               /\ CurrentToken(k) \notin bindings
                               /\ told[CurrentToken(k)] = "none"
<1>1. /\ Places /\ Cut \subseteq Packet /\ bindings \subseteq Token
      /\ \A k \in Packet : CurrentToken(k) \in Token
  BY PacketsWereCut, Zenon DEF PlacesInv, TxTypeOK, CurrentToken, Token
<1>2. \A k \in Cut \ queue : ~packets[k].terminal =>
         told[CurrentToken(k)] \in {"started", "arrived"}
  BY <1>1, Zenon DEF Ledger, LedgerOf, Said
<1>3. \A k \in live : k \in Cut \ queue /\ ~packets[k].terminal
  BY <1>1, Zenon DEF Places
<1>4. \A tok \in bindings : /\ tok[1] \in Cut \ queue /\ ~packets[tok[1]].terminal
                            /\ tok = CurrentToken(tok[1])
  BY <1>1, Zenon DEF Places
<1>5. \A k \in queue : /\ CurrentToken(k) \notin bindings
                       /\ k \in Packet /\ told[CurrentToken(k)] = "none"
  <2>1. \A k \in queue : CurrentToken(k)[1] = k
    BY Zenon DEF CurrentToken
  <2>2. \A k \in queue : k \in Packet
    BY <1>1, Zenon DEF Places
  <2> QED BY <1>4, <2>1, <2>2 DEF Ledger, LedgerOf, Said
<1> QED BY <1>1, <1>2, <1>3, <1>4, <1>5, Zenon

\* Go-back-N closes what it takes off the wire, once.
LEMMA GoBackNWire ==
    ASSUME PlacesInv, Ledger, WireInv, TransportEnabled,
           NEW bound \in SUBSET bindings, NEW psn \in Nat, NEW t,
           GoBackN(bound, psn, t),
           \A tok \in Token : wire'[tok] \in {"none", wire[tok]},
           \A tok \in bindings \ bound : wire'[tok] = "none"
    PROVE  /\ WireInv'
           /\ \A tok \in Token : Follows(told[tok], told'[tok])
<1> DEFINE tokens == {CurrentToken(k) : k \in AtOrAbove(psn)}
<1>1. /\ bindings' = bound \ tokens
      /\ told' = [tok \in Token |->
                    IF tok \in tokens THEN "dropped" ELSE told[tok]]
  BY Zenon DEF GoBackN
<1>2. bindings \subseteq Token
  BY GoingSaid, Zenon
<1>3. \A tok \in tokens : told[tok] \in {"started", "arrived"}
  BY GoingSaid, Zenon DEF AtOrAbove
<1> HIDE DEF tokens
<1>4. \A tok \in Token : Follows(told[tok], told'[tok])
  BY <1>1, <1>3, Zenon DEF Follows
<1>5. ASSUME NEW tok \in Token, wire'[tok] # "none", tok \notin bindings'
      PROVE  told'[tok] = "dropped"
  BY <1>1, <1>5, Zenon DEF WireInv, StaleMeansReplaced
<1>6. ASSUME NEW tok \in bindings', wire'[tok] = "arrived"
      PROVE  told'[tok] = "arrived"
  <2>1. tok \in bindings /\ tok \notin tokens /\ tok \in Token
    BY <1>1, <1>2, Zenon
  <2>2. wire[tok] = "arrived"
    BY <1>6, <2>1, Zenon
  <2> QED BY <1>1, <2>1, <2>2, Zenon DEF WireInv
<1> QED BY <1>4, <1>5, <1>6, Zenon DEF WireInv, StaleMeansReplaced

\* A report for one attempt, which then says "stage" or ends.
LEMMA OneReport ==
    ASSUME PlacesInv, Ledger, WireInv, PortTypeOK, NEW tok \in bindings,
           NEW stage, told' = [told EXCEPT ![tok] = stage],
           \/ /\ stage = "arrived" /\ bindings' = bindings
              /\ wire' = [wire EXCEPT ![tok] = "arrived"]
           \/ /\ stage = "delivered" /\ wire[tok] = "arrived"
              /\ bindings' = bindings \ {tok}
              /\ wire' = [wire EXCEPT ![tok] = "none"]
           \/ /\ stage = "dropped" /\ bindings' = bindings \ {tok}
              /\ wire' = [wire EXCEPT ![tok] = "none"]
    PROVE  /\ WireInv'
           /\ \A i \in Token : Follows(told[i], told'[i])
<1>1. /\ wire \in [Token -> {"none", "started", "arrived"}]
      /\ told \in [Token -> Stage]
  BY Zenon DEF PortTypeOK, TxTypeOK
<1>2. /\ tok \in Token /\ bindings \subseteq Token
      /\ told[tok] \in {"started", "arrived"}
      /\ wire[tok] = "arrived" => told[tok] = "arrived"
  BY GoingSaid, Zenon DEF WireInv
<1>3. \A i \in Token : /\ told'[i] = (IF i = tok THEN stage ELSE told[i])
                       /\ i # tok => wire'[i] = wire[i]
                       /\ i # tok => (i \in bindings' <=> i \in bindings)
  BY <1>1, <1>2, Zenon
<1>4. \A i \in Token : Follows(told[i], told'[i])
  BY <1>2, <1>3, Zenon DEF Follows
<1>5. \A i \in Token \ {tok} :
        /\ wire'[i] # "none" /\ i \notin bindings' =>
              TransportEnabled /\ told'[i] = "dropped"
        /\ i \in bindings' /\ wire'[i] = "arrived" => told'[i] = "arrived"
  BY <1>3, Zenon DEF WireInv, StaleMeansReplaced
<1>6. /\ wire'[tok] # "none" => tok \in bindings'
      /\ tok \in bindings' => stage = "arrived"
  BY <1>1, <1>2, Zenon
<1>7. bindings' \subseteq Token
  BY <1>2, Zenon
<1> QED BY <1>2, <1>3, <1>4, <1>5, <1>6, <1>7 DEF WireInv, StaleMeansReplaced

\* Every step of the port keeps its account, and moves no attempt backwards.
LEMMA WireStep ==
    ASSUME PlacesInv, Ledger, WireInv, PortTypeOK, [PortNext]_portVars
    PROVE  /\ WireInv'
           /\ \A tok \in Token : Follows(told[tok], told'[tok])
<1>1. /\ wire \in [Token -> {"none", "started", "arrived"}]
      /\ told \in [Token -> Stage] /\ TxTypeOK
      /\ live \subseteq Packet /\ bindings \subseteq Token
      /\ \A k \in Packet : Psn(k) \in Nat
  BY PsnType, PsnAssumption DEF PortTypeOK, TxTypeOK
<1>2. CASE UNCHANGED <<told, bindings, wire>>
  BY <1>2, Zenon DEF WireInv, StaleMeansReplaced, Follows
<1>3. CASE PortRelease
  <2>1. PICK t \in Time : ReleaseBegin(t) /\ wire' = wire
    BY <1>3, Zenon DEF PortRelease
  <2>2. CASE TimerArmed /\ EarliestTimeout =< t
    <3> DEFINE psn == Psn(LowestPsn(live))
    <3>1. psn \in Nat
      BY <1>1, <2>2, LowestPsnProperty, Zenon DEF TimerArmed
    <3>2. GoBackN(bindings, psn, t) /\ TransportEnabled
      BY <2>1, <2>2, Zenon DEF ReleaseBegin, TimerArmed
    <3> HIDE DEF psn
    <3> QED BY <2>1, <3>1, <3>2, GoBackNWire, Zenon
  <2>3. CASE ~(TimerArmed /\ EarliestTimeout =< t)
    BY <1>2, <2>1, <2>3, Zenon DEF ReleaseBegin
  <2> QED BY <2>2, <2>3, Zenon
<1>4. CASE Reply
  <2>1. PICK t \in Time, k \in 0 .. cut, kind \in {"Ack", "Nak"} :
           OnTransportPacket(kind, Psn(k), t) /\ wire' = wire
    BY <1>4, Zenon DEF Reply
  <2>2. Psn(k) \in Nat
    BY <1>1, ConfigAssumption, PsnAssumption DEF Psn, PsnAfter, TxTypeOK
  <2>3. CASE Absorbed(kind, Psn(k))
    BY <1>2, <2>1, <2>3, Zenon DEF OnTransportPacket
  <2>4. CASE ~Absorbed(kind, Psn(k))
    <3>1. GoBackN(bindings, Psn(k), t) /\ TransportEnabled
      BY <2>1, <2>4, Zenon DEF OnTransportPacket
    <3> QED BY <2>1, <2>2, <3>1, GoBackNWire, Zenon
  <2> QED BY <2>3, <2>4, Zenon
<1>5. CASE PortAccept
  <2>1. PICK tok : tok = CurrentToken(LowestPsn(queue))
    OBVIOUS
  <2>2. LowestPsn(queue) \in queue
    BY <1>1, <1>5, IssueFacts, Zenon DEF PortAccept, ReleaseAccepted
  <2>3. tok \in Token /\ tok \notin bindings /\ told[tok] = "none"
    BY <2>1, <2>2, GoingSaid, Zenon
  <2>4. /\ told' = [told EXCEPT ![tok] = "started"]
        /\ bindings' = bindings \cup {tok}
        /\ wire' = [wire EXCEPT ![tok] = "started"]
    BY <1>5, <2>1, Zenon DEF PortAccept, ReleaseAccepted
  <2>5. \A i \in Token : Follows(told[i], told'[i])
    BY <1>1, <2>3, <2>4, Zenon DEF Follows
  <2>6. \A i \in Token \ {tok} : told'[i] = told[i] /\ wire'[i] = wire[i]
    BY <1>1, <2>4, Zenon
  <2>7. wire'[tok] = "started"
    BY <1>1, <2>3, <2>4, Zenon
  <2> QED BY <1>1, <2>4, <2>5, <2>6, <2>7, Zenon DEF WireInv, StaleMeansReplaced
<1>6. CASE PortReject
  <2>1. PICK tok : tok = CurrentToken(LowestPsn(queue))
    OBVIOUS
  <2>2. LowestPsn(queue) \in queue
    BY <1>1, <1>6, IssueFacts DEF PortReject, ReleaseRejected
  <2>3. tok \in Token /\ tok \notin bindings /\ told[tok] = "none"
    BY <2>1, <2>2, GoingSaid, Zenon
  <2>4. /\ told' = [told EXCEPT ![tok] = "dropped"]
        /\ bindings' = bindings /\ wire' = wire
    BY <1>6, <2>1, Zenon DEF PortReject, ReleaseRejected
  <2>5. \A i \in Token : Follows(told[i], told'[i])
    BY <1>1, <2>3, <2>4, Zenon DEF Follows
  <2>6. \A i \in Token \ {tok} : told'[i] = told[i]
    BY <1>1, <2>4, Zenon
  <2>7. told'[tok] = "dropped"
    BY <1>1, <2>3, <2>4, Zenon
  <2> QED BY SMTT(20), <1>1, <2>3, <2>4, <2>5, <2>6, <2>7
             DEF WireInv, StaleMeansReplaced
<1>7. CASE Arrived
  <2>1. PICK t \in Time, tok \in Token :
           PortReports(tok, "arrived") /\ OnArrived(tok, t)
    BY <1>7, Zenon DEF Arrived
  <2> QED BY <2>1, OneReport, Zenon DEF PortReports, OnArrived
<1>8. CASE Delivered
  <2>1. PICK t \in Time, tok \in Token :
           PortReports(tok, "delivered") /\ OnDelivered(tok, t)
    BY <1>8, Zenon DEF Delivered
  <2> QED BY <2>1, OneReport, Zenon DEF PortReports, OnDelivered, Terminal
<1>9. CASE Dropped
  <2>1. PICK t \in Time, tok \in Token :
           PortReports(tok, "dropped") /\ OnDropped(tok, t)
    BY <1>9, Zenon DEF Dropped
  <2>2. wire' = [wire EXCEPT ![tok] = "none"] /\ tok \in bindings
    BY <2>1, Zenon DEF PortReports, OnDropped
  <2>3. \A i \in Token : wire'[i] = (IF i = tok THEN "none" ELSE wire[i])
    BY <1>1, <2>2, Zenon
  <2>4. CASE ~TransportEnabled
    BY <2>1, <2>2, <2>4, OneReport, ZenonT(30) DEF OnDropped, Terminal
  <2>5. CASE TransportEnabled /\ InEpisode(Psn(tok[1]))
    <3>1. told' = told /\ bindings' = bindings \ {tok}
      BY <2>1, <2>5, Zenon DEF OnDropped
    <3> QED BY <1>1, <2>3, <3>1, Zenon DEF WireInv, StaleMeansReplaced, Follows
  <2>6. CASE TransportEnabled /\ ~InEpisode(Psn(tok[1]))
    <3>1. GoBackN(bindings \ {tok}, Psn(tok[1]), t)
      BY <2>1, <2>6, Zenon DEF OnDropped
    <3>2. Psn(tok[1]) \in Nat
      BY <1>1, Zenon DEF Token
    <3> QED BY <2>2, <2>3, <2>6, <3>1, <3>2, GoBackNWire
  <2> QED BY <2>4, <2>5, <2>6, Zenon
<1>10. CASE Stale
  <2>1. PICK t \in Time, tok \in Token, s \in {"arrived", "delivered", "dropped"} :
           PortReports(tok, s) /\ OnStaleEvent(tok, t)
    BY <1>10, Zenon DEF Stale
  <2>2. told' = told /\ bindings' = bindings /\ tok \notin bindings
    BY <2>1, Zenon DEF OnStaleEvent
  <2>3. wire[tok] # "none"
    BY <2>1, Zenon DEF PortReports
  <2>4. \A i \in Token : i # tok => wire'[i] = wire[i]
    BY <1>1, <2>1, Zenon DEF PortReports
  <2> QED BY <1>1, <2>2, <2>3, <2>4, Zenon DEF WireInv, StaleMeansReplaced, Follows
<1>11. CASE PortSubmit \/ PortBusy \/ PortStop \/ UNCHANGED portVars
  BY <1>2, <1>11, Zenon DEF PortSubmit, PortBusy, PortStop, TrySubmit, ReleaseBusy,
                     ReleaseEnd, portVars, txVars
<1> QED BY SMTT(20), <1>3, <1>4, <1>5, <1>6, <1>7, <1>8, <1>9, <1>10, <1>11
           DEF PortNext

\* The account is right throughout.
LEMMA WireAlways == PortSpec => [](PlacesInv /\ Ledger /\ PortTypeOK /\ WireInv)
<1>1. PortInit => WireInv
  BY Zenon DEF PortInit, TxInit, WireInv, StaleMeansReplaced
<1>2. PlacesInv /\ Ledger /\ PortTypeOK /\ WireInv /\ [PortNext]_portVars => WireInv'
  BY WireStep, Zenon
<1> QED BY <1>1, <1>2, LedgerAlways, TypeCorrect, PTL DEF PortSpec

\* The port never reports an attempt onDownstreamEvent would refuse as
\* unknown: what it still owes a terminal for is bound, or, with the
\* transport on, already closed as dropped.
THEOREM LateReportsAreStale == PortSpec => []StaleMeansReplaced
<1>1. WireInv => StaleMeansReplaced
  BY Zenon DEF WireInv
<1> QED BY <1>1, WireAlways, PTL

\* The events of an attempt reach the work queue in the order its
\* onPacketAttemptEvent accepts, one terminal each and nothing after it,
\* however the port's reports race with timeouts and NAKs.
THEOREM AttemptsMoveForward == PortSpec => AttemptLifecycle
<1>1. PlacesInv /\ Ledger /\ PortTypeOK /\ WireInv /\ [PortNext]_portVars
        => [\A tok \in Token : Follows(told[tok], told'[tok])]_txVars
  BY WireStep, Zenon
<1> QED BY <1>1, WireAlways, PTL DEF PortSpec, AttemptLifecycle

-----------------------------------------------------------------------------
(* The window. *)

OnWire == {k \in Cut : InFlight(k)}
Heavy == {k \in OnWire : packets[k].bytes > 0}
Active == {e \in Extent : extents[e].status = "open" /\ extents[e].in_flight}

\* An extent with a packet issued counts as a request in flight.
Started ==
    \A k \in Cut : packets[k].issued => extents[packets[k].extent].in_flight

\* The packets and bytes counted are those on the wire, within their bounds.
Loads ==
    /\ inflight.packets = Cardinality(OnWire)
    /\ inflight.bytes = SumBytes(OnWire)
    /\ MaxInflightPackets # 0 => inflight.packets =< MaxInflightPackets
    /\ MaxInflightBytes # 0 =>
         inflight.bytes =< MaxInflightBytes \/ \E k \in Packet : Heavy = {k}

\* So are the requests.
Requests ==
    /\ inflight.wqes = Cardinality(Active)
    /\ MaxInflightWqes # 0 => inflight.wqes =< MaxInflightWqes

Window == Started /\ Loads /\ Requests

\* The bytes of a packet add to those of the others,
LEMMA SumMore ==
    ASSUME packets \in [Packet -> PacketRecord],
           NEW S \in SUBSET Packet, NEW k \in Packet \ S
    PROVE  SumBytes(S \cup {k}) = SumBytes(S) + packets[k].bytes
<1> DEFINE B(T) == {b \in T \X (1 .. Mtu) : b[2] =< packets[b[1]].bytes}
           own == {k} \X (1 .. packets[k].bytes)
<1>1. packets[k].bytes \in 0 .. Mtu /\ Mtu \in Nat /\ packets[k].bytes \in Nat
  BY ConfigAssumption DEF PacketRecord
<1>2. IsFiniteSet(own) /\ Cardinality(own) = packets[k].bytes
  <2>1. /\ IsFiniteSet(1 .. packets[k].bytes)
        /\ Cardinality(1 .. packets[k].bytes) = packets[k].bytes
    <3>1. PICK n \in Nat : n = packets[k].bytes
      BY <1>1, Zenon
    <3>2. 1 \in Int /\ n \in Int
      OBVIOUS
    <3>3. /\ IsFiniteSet(1 .. n)
          /\ Cardinality(1 .. n) = IF 1 > n THEN 0 ELSE n - 1 + 1
      BY <3>2, FS_Interval, Zenon
    <3> QED BY <3>1, <3>3
  <2>2. IsFiniteSet({k}) /\ Cardinality({k}) = 1
    BY FS_Singleton, Zenon
  <2> QED BY <1>1, <2>1, <2>2, FS_Product
<1>3. B(S \cup {k}) = B(S) \cup own
  BY <1>1
<1>4. B(S) \cap own = {}
  OBVIOUS
<1>5. IsFiniteSet(B(S)) /\ Cardinality(B(S)) \in Nat
  <2>1. IsFiniteSet(S) /\ IsFiniteSet(1 .. Mtu)
    BY <1>1, SumBytesType, FS_Interval
  <2>2. IsFiniteSet(S \X (1 .. Mtu))
    BY <2>1, FS_Product, Zenon
  <2> QED BY <2>2, FS_Subset, FS_CardinalityType, Zenon
<1>6. Cardinality(B(S) \cup own) = Cardinality(B(S)) + packets[k].bytes
  <2> HIDE DEF B, own
  <2>1. Cardinality(B(S) \cup own)
          = Cardinality(B(S)) + Cardinality(own) - Cardinality({})
    BY <1>2, <1>4, <1>5, FS_Union
  <2> QED BY <1>1, <1>2, <1>5, <2>1, FS_EmptySet
<1> QED BY <1>3, <1>6, Zenon DEF SumBytes

\* and those of some packets are a part of those of all.
LEMMA SumLess ==
    ASSUME NEW S \in SUBSET Packet, NEW C \in SUBSET S
    PROVE  SumBytes(S \ C) = SumBytes(S) - SumBytes(C)
<1> DEFINE B(T) == {b \in T \X (1 .. Mtu) : b[2] =< packets[b[1]].bytes}
<1>1. B(S \ C) = B(S) \ B(C) /\ B(S) \cap B(C) = B(C)
  OBVIOUS
<1>2. IsFiniteSet(B(S))
  <2>1. IsFiniteSet(S) /\ IsFiniteSet(1 .. Mtu)
    BY SumBytesType, FS_Interval, ConfigAssumption
  <2>2. IsFiniteSet(S \X (1 .. Mtu))
    BY <2>1, FS_Product, Zenon
  <2> QED BY <2>2, FS_Subset, Zenon
<1>3. Cardinality(B(S) \ B(C)) = Cardinality(B(S)) - Cardinality(B(C))
  <2> HIDE DEF B
  <2>1. Cardinality(B(S) \ B(C))
          = Cardinality(B(S)) - Cardinality(B(S) \cap B(C))
    BY <1>2, FS_Difference, Zenon
  <2> QED BY <1>1, <2>1, Zenon
<1> QED BY <1>1, <1>3, Zenon DEF SumBytes

\* The sum looks at the sizes of its packets only,
LEMMA SumSame ==
    ASSUME NEW S, \A k \in S : packets'[k].bytes = packets[k].bytes
    PROVE  SumBytes(S)' = SumBytes(S)
BY Zenon DEF SumBytes

\* and is nothing when they are all empty.
LEMMA SumNothing ==
    ASSUME packets \in [Packet -> PacketRecord], NEW S \in SUBSET Packet
    PROVE  SumBytes(S) = 0 <=> \A k \in S : packets[k].bytes = 0
<1> DEFINE B == {b \in S \X (1 .. Mtu) : b[2] =< packets[b[1]].bytes}
<1>1. \A k \in S : packets[k].bytes \in 0 .. Mtu
  BY Zenon DEF PacketRecord
<1>2. B = {} <=> \A k \in S : packets[k].bytes = 0
  <2>1. ASSUME B = {}, NEW k \in S PROVE packets[k].bytes = 0
    <3>1. <<k, 1>> \notin B
      BY <2>1, Zenon
    <3> QED BY <1>1, <3>1, ConfigAssumption
  <2>2. ASSUME \A k \in S : packets[k].bytes = 0 PROVE B = {}
    BY <2>2
  <2> QED BY <2>1, <2>2, Zenon
<1>3. IsFiniteSet(B)
  <2>1. IsFiniteSet(S) /\ IsFiniteSet(1 .. Mtu)
    BY SumBytesType, FS_Interval, ConfigAssumption
  <2>2. IsFiniteSet(S \X (1 .. Mtu))
    BY <2>1, FS_Product, Zenon
  <2> QED BY <2>2, FS_Subset, Zenon
<1>4. Cardinality(B) = 0 <=> B = {}
  BY <1>3, FS_EmptySet, Zenon
<1> QED BY <1>2, <1>4, Zenon DEF SumBytes

\* Taking packets off the wire takes their share of the counters,
LEMMA LoadsShrink ==
    ASSUME PlacesInv, Loads, NEW C \in SUBSET Packet, C \subseteq OnWire,
           packets' \in [Packet -> PacketRecord], OnWire' = OnWire \ C,
           \A k \in OnWire : packets'[k].bytes = packets[k].bytes,
           inflight'.packets = inflight.packets - Cardinality(C),
           inflight'.bytes = inflight.bytes - SumBytes(C)
    PROVE  Loads'
<1>1. packets \in [Packet -> PacketRecord] /\ OnWire \subseteq Packet
  BY PacketsWereCut, Zenon DEF OnWire
<1>2. PICK W \in SUBSET Packet : W = OnWire
  BY <1>1, Zenon
<1>3. PICK V \in SUBSET Packet : V = W \ C /\ V = OnWire'
  BY <1>2, Zenon
<1>4. /\ Cardinality(W) \in Nat /\ Cardinality(C) \in Nat /\ IsFiniteSet(W)
      /\ SumBytes(W) \in Nat /\ SumBytes(C) \in Nat
  BY SumBytesType, Zenon
<1>5. Cardinality(V) = Cardinality(W) - Cardinality(C)
  <2>1. Cardinality(W \ C) = Cardinality(W) - Cardinality(W \cap C)
    BY <1>4, FS_Difference, Zenon
  <2>2. W \cap C = C
    BY <1>2, Zenon
  <2> QED BY <1>3, <2>1, <2>2, Zenon
<1>6. SumBytes(V) = SumBytes(W) - SumBytes(C)
  BY <1>2, <1>3, SumLess, Zenon
<1>7. SumBytes(OnWire)' = SumBytes(V)
  <2>1. SumBytes(V)' = SumBytes(V)
    BY <1>2, <1>3, SumSame, Zenon
  <2> QED BY <1>3, <2>1, Zenon DEF SumBytes
<1>8. inflight.packets = Cardinality(W) /\ inflight.bytes = SumBytes(W)
  BY <1>2, Zenon DEF Loads
<1>9. inflight'.packets = Cardinality(OnWire)' /\ inflight'.bytes = SumBytes(OnWire)'
  BY <1>3, <1>5, <1>6, <1>7, <1>8, ZenonT(30)
<1>10. MaxInflightPackets # 0 => inflight'.packets =< MaxInflightPackets
  BY <1>4, <1>8, ConfigAssumption DEF Loads
<1>11. ASSUME MaxInflightBytes # 0, inflight'.bytes > MaxInflightBytes
       PROVE  \E k \in Packet : Heavy' = {k}
  <2>1. inflight.bytes > MaxInflightBytes
    BY <1>4, <1>8, <1>11, ConfigAssumption
  <2>2. PICK h \in Packet : Heavy = {h}
    BY <1>4, <1>8, <1>11, <2>1, ConfigAssumption DEF Loads
  <2>3. Heavy' = Heavy \ C
    BY <1>1, Zenon DEF Heavy
  <2>4. h \notin C
    <3> SUFFICES ASSUME h \in C PROVE FALSE
      OBVIOUS
    <3>1. \A k \in V : packets[k].bytes = 0
      <4>1. \A k \in V : k \in OnWire /\ k \notin Heavy /\ packets[k] \in PacketRecord
        BY <1>1, <1>2, <1>3, <2>2, Zenon
      <4> QED BY <4>1 DEF Heavy, PacketRecord
    <3>2. SumBytes(V) = 0
      BY <1>1, <3>1, SumNothing, Zenon
    <3> QED BY <1>6, <1>8, <1>11, <3>2, ConfigAssumption
  <2> QED BY <2>2, <2>3, <2>4, Zenon
<1>12. inflight'.bytes \in Int
  BY <1>4, <1>8
<1>13. MaxInflightBytes # 0 =>
         inflight'.bytes =< MaxInflightBytes \/ \E j \in Packet : Heavy' = {j}
  <2>1. inflight'.bytes =< MaxInflightBytes \/ inflight'.bytes > MaxInflightBytes
    BY <1>12, ConfigAssumption
  <2> QED BY <1>11, <2>1, Zenon
<1> QED BY <1>9, <1>10, <1>13, Zenon DEF Loads

\* and putting one on it, where the window allows, adds one.
LEMMA LoadsGrow ==
    ASSUME PlacesInv, Loads, NEW k \in Packet, k \notin OnWire,
           packets' \in [Packet -> PacketRecord], OnWire' = OnWire \cup {k},
           \A j \in Packet : packets'[j].bytes = packets[j].bytes,
           inflight'.packets = inflight.packets + 1,
           inflight'.bytes = inflight.bytes + packets[k].bytes,
           \/ MaxInflightBytes = 0 \/ inflight.bytes = 0
           \/ inflight.bytes + packets[k].bytes =< MaxInflightBytes,
           \/ MaxInflightPackets = 0 \/ inflight.packets = 0
           \/ inflight.packets < MaxInflightPackets
    PROVE  Loads'
<1>1. packets \in [Packet -> PacketRecord] /\ OnWire \subseteq Packet
  BY PacketsWereCut, Zenon DEF OnWire
<1>2. PICK W \in SUBSET Packet : W = OnWire
  BY <1>1, Zenon
<1>3. PICK V \in SUBSET Packet : V = W \cup {k} /\ V = OnWire'
  BY <1>2, Zenon
<1>4. /\ Cardinality(W) \in Nat /\ IsFiniteSet(W) /\ SumBytes(W) \in Nat
      /\ packets[k].bytes \in Nat
  BY <1>1, SumBytesType DEF PacketRecord
<1>5. Cardinality(V) = Cardinality(W) + 1
  <2>1. Cardinality(W \cup {k}) =
          IF k \in W THEN Cardinality(W) ELSE Cardinality(W) + 1
    BY <1>4, FS_AddElement, Zenon
  <2> QED BY <1>2, <1>3, <2>1, Zenon
<1>6. SumBytes(V) = SumBytes(W) + packets[k].bytes
  BY <1>1, <1>2, <1>3, SumMore, Zenon
<1>7. SumBytes(OnWire)' = SumBytes(V)
  <2>1. SumBytes(V)' = SumBytes(V)
    BY <1>2, <1>3, SumSame, Zenon
  <2> QED BY <1>3, <2>1, Zenon DEF SumBytes
<1>8. inflight.packets = Cardinality(W) /\ inflight.bytes = SumBytes(W)
  BY <1>2, Zenon DEF Loads
<1>9. inflight'.packets = Cardinality(OnWire)' /\ inflight'.bytes = SumBytes(OnWire)'
  BY <1>3, <1>5, <1>6, <1>7, <1>8, ZenonT(30)
<1>10. MaxInflightPackets # 0 => inflight'.packets =< MaxInflightPackets
  BY <1>4, <1>8, ConfigAssumption
<1>11. ASSUME MaxInflightBytes # 0, inflight'.bytes > MaxInflightBytes
       PROVE  Heavy' = {k}
  <2>1. SumBytes(W) = 0 /\ packets[k].bytes > 0
    BY <1>4, <1>8, <1>11, ConfigAssumption
  <2>2. \A j \in W : packets[j].bytes = 0
    BY <1>1, <2>1, SumNothing, Zenon
  <2>3. Heavy' = {j \in V : packets[j].bytes > 0}
    BY <1>3, Zenon DEF Heavy
  <2> QED BY <1>3, <2>1, <2>2, <2>3
<1>12. inflight'.bytes \in Int
  BY <1>4, <1>8
<1>13. MaxInflightBytes # 0 =>
         inflight'.bytes =< MaxInflightBytes \/ \E j \in Packet : Heavy' = {j}
  <2>1. inflight'.bytes =< MaxInflightBytes \/ inflight'.bytes > MaxInflightBytes
    BY <1>12, ConfigAssumption
  <2> QED BY <1>11, <2>1, Zenon
<1> QED BY <1>9, <1>10, <1>13, Zenon DEF Loads

\* A request counts while it is open and has started.
LEMMA RequestsCount ==
    ASSUME Requests, NEW e \in Extent, NEW A, Active' = A,
           A = Active \cup {e} \/ A = Active \ {e},
           inflight'.wqes = inflight.wqes + (IF e \in Active THEN 0 ELSE 1)
                                          - (IF e \in A THEN 0 ELSE 1),
           e \in Active \/ MaxInflightWqes = 0 \/ inflight.wqes < MaxInflightWqes
    PROVE  Requests'
<1>1. PICK B : B = Active
  OBVIOUS
<1>2. IsFiniteSet(B) /\ Cardinality(B) \in Nat
  <2>1. MaxExtents \in Int /\ 1 \in Int
    BY ConfigAssumption
  <2>2. IsFiniteSet(Extent)
    BY <2>1, FS_Interval, Zenon DEF Extent
  <2> QED BY <1>1, <2>2, FS_Subset, FS_CardinalityType, Zenon DEF Active
<1>3. Cardinality(B \cup {e}) =
        IF e \in B THEN Cardinality(B) ELSE Cardinality(B) + 1
  BY <1>2, FS_AddElement, Zenon
<1>4. Cardinality(B \ {e}) =
        IF e \in B THEN Cardinality(B) - 1 ELSE Cardinality(B)
  BY <1>2, FS_RemoveElement, Zenon
<1>5. inflight.wqes = Cardinality(B)
  BY <1>1, Zenon DEF Requests
<1>6. inflight'.wqes = Cardinality(A)
  <2>1. CASE A = B \cup {e}
    BY <1>1, <1>2, <1>3, <1>5, <2>1
  <2>2. CASE A = B \ {e}
    BY <1>1, <1>2, <1>4, <1>5, <2>2
  <2> QED BY <1>1, <2>1, <2>2, Zenon
<1>7. MaxInflightWqes # 0 => inflight'.wqes =< MaxInflightWqes
  <2>1. MaxInflightWqes # 0 => inflight.wqes =< MaxInflightWqes
    BY Zenon DEF Requests
  <2> QED BY <1>1, <1>2, <1>5, <2>1, ConfigAssumption
<1> QED BY <1>6, <1>7, Zenon DEF Requests

\* Steps that issue nothing and retire nothing; C leaves the wire.
LEMMA WindowStays ==
    ASSUME PlacesInv, Window, NEW C \in SUBSET Packet, C \subseteq OnWire,
           packets' \in [Packet -> PacketRecord], OnWire' = OnWire \ C,
           \A k \in OnWire : packets'[k].bytes = packets[k].bytes,
           inflight'.packets = inflight.packets - Cardinality(C),
           inflight'.bytes = inflight.bytes - SumBytes(C),
           inflight'.wqes = inflight.wqes, Active' = Active,
           \A e \in Extent : extents[e].status # "none" =>
              extents'[e].in_flight = extents[e].in_flight,
           \A k \in Cut' : packets'[k].issued =>
              /\ k \in Cut /\ packets[k].issued
              /\ packets'[k].extent = packets[k].extent
    PROVE  Window'
<1>1. Loads'
  BY LoadsShrink, Zenon DEF Window
<1>2. Requests'
  BY Zenon DEF Window, Requests
<1>3. Started'
  BY Zenon DEF Window, Started, PlacesInv, Membership
<1> QED BY <1>1, <1>2, <1>3, Zenon DEF Window

\* Nothing at all moves.
LEMMA WindowUnchanged ==
    ASSUME PlacesInv, Window, UNCHANGED <<cut, extents, packets, inflight>>
    PROVE  Window'
<1>1. packets \in [Packet -> PacketRecord] /\ Cut' = Cut
  BY PacketsWereCut, Zenon DEF Cut
<1>2. /\ inflight.packets \in Int /\ inflight.bytes \in Int
  BY Zenon DEF PlacesInv, TxTypeOK
<1>3. Cardinality({}) = 0 /\ SumBytes({}) = 0
  BY <1>1, SumNothing, FS_EmptySet, Zenon
<1>4. OnWire' = OnWire \ {} /\ Active' = Active
  BY <1>1, Zenon DEF OnWire, InFlight, Active
<1> QED BY <1>1, <1>2, <1>3, <1>4, WindowStays

\* Go-back-N uncounts what it takes off the wire.
LEMMA GoBackNWindow ==
    ASSUME PlacesInv, Window, NEW bound, NEW psn \in Nat, NEW t \in Time,
           GoBackN(bound, psn, t), cut' = cut, extents' = extents,
           packets' \in [Packet -> PacketRecord]
    PROVE  Window'
<1>1. PICK C : C = AtOrAbove(psn)
  OBVIOUS
<1>2. /\ Cut \subseteq Packet /\ packets \in [Packet -> PacketRecord]
      /\ Cut' = Cut /\ TxTypeOK /\ Places
  BY PacketsWereCut, Zenon DEF Cut, PlacesInv
<1>3. C \subseteq live /\ C \subseteq Packet /\ C \subseteq OnWire
  BY <1>1, <1>2, Zenon DEF AtOrAbove, Places, OnWire, InFlight
<1>4. /\ \A k \in Packet : /\ packets'[k].extent = packets[k].extent
                           /\ packets'[k].terminal = packets[k].terminal
                           /\ packets'[k].bytes = packets[k].bytes
      /\ \A k \in C : ~packets'[k].issued
      /\ \A k \in Packet \ C : packets'[k] = packets[k]
  BY <1>1, <1>2, GoBackNPackets, Zenon
<1>5. OnWire' = OnWire \ C /\ Active' = Active
  BY <1>2, <1>3, <1>4, Zenon DEF OnWire, InFlight, Active
<1>6. /\ inflight'.packets = inflight.packets - Cardinality(C)
      /\ inflight'.bytes = inflight.bytes - SumBytes(C)
      /\ inflight'.wqes = inflight.wqes
  <2>1. inflight \in [wqes : Int, packets : Int, bytes : Int]
    BY <1>2, Zenon DEF TxTypeOK
  <2>2. inflight' = [inflight EXCEPT !.packets = @ - Cardinality(C),
                                     !.bytes = @ - SumBytes(C)]
    BY <1>1, Zenon DEF GoBackN
  <2> QED BY <2>1, <2>2, Zenon
<1>7. \A k \in Cut' : packets'[k].issued =>
         /\ k \in Cut /\ packets[k].issued
         /\ packets'[k].extent = packets[k].extent
  BY <1>2, <1>4, Zenon
<1>8. \A k \in OnWire : packets'[k].bytes = packets[k].bytes
  BY <1>2, <1>4, Zenon DEF OnWire
<1> QED BY <1>3, <1>5, <1>6, <1>7, <1>8, WindowStays

\* A new extent is not in flight yet.
LEMMA SubmitWindow ==
    ASSUME PlacesInv, Window, NEW payload \in Payloads, NEW t \in Time,
           TrySubmit(payload, t), packets' \in [Packet -> PacketRecord]
    PROVE  Window'
<1> DEFINE n == PacketCount(payload)
           fresh == cut .. cut + n - 1
<1>1. PICK e \in Extent :
         /\ extents[e].status = "none"
         /\ cut + n =< MaxPackets /\ cut' = cut + n
         /\ extents' = [extents EXCEPT ![e] = FreshExtent(cut, n)]
         /\ packets' = [k \in Packet |->
                IF k \in fresh
                THEN FreshPacket(e, PacketBytes(payload, k - cut), t)
                ELSE packets[k]]
         /\ inflight' = inflight
  BY Zenon DEF TrySubmit
<1>2. /\ Cut \subseteq Packet /\ packets \in [Packet -> PacketRecord]
      /\ extents \in [Extent -> ExtentRecord]
      /\ inflight.packets \in Int /\ inflight.bytes \in Int
      /\ cut \in Nat /\ n \in Nat
  <2>1. n \in Nat
    BY ConfigAssumption DEF PacketCount
  <2>2. TxTypeOK
    BY Zenon DEF PlacesInv
  <2> HIDE DEF n
  <2>3. cut \in Nat
    BY <2>2, ConfigAssumption DEF TxTypeOK
  <2> QED BY SMTT(20), <2>1, <2>2, <2>3, PacketsWereCut DEF TxTypeOK
<1> HIDE DEF n
<1>3. Cut' = Cut \cup fresh /\ Cut \cap fresh = {} /\ fresh \subseteq Packet
  BY <1>1, <1>2, ConfigAssumption DEF Cut, Packet
<1>4. \A k \in Packet \ fresh : packets'[k] = packets[k]
  BY <1>1, Zenon
<1>5. \A k \in fresh : ~packets'[k].issued
  BY <1>1, <1>3, Zenon DEF FreshPacket, NoPacket
<1>6. OnWire' = OnWire \ {}
  BY <1>2, <1>3, <1>4, <1>5 DEF OnWire, InFlight
<1>7. Active' = Active
  <2>1. extents'[e].in_flight = FALSE
    BY <1>1, <1>2, Zenon DEF FreshExtent, NoExtent
  <2>2. \A d \in Extent \ {e} : extents'[d] = extents[d]
    BY <1>1, <1>2, Zenon
  <2> QED BY <1>1, <2>1, <2>2, Zenon DEF Active
<1>8. Cardinality({}) = 0 /\ SumBytes({}) = 0
  BY <1>2, SumNothing, FS_EmptySet, Zenon
<1>9. \A k \in Cut' : packets'[k].issued =>
         /\ k \in Cut /\ packets[k].issued
         /\ packets'[k].extent = packets[k].extent
  BY <1>2, <1>3, <1>4, <1>5, ZenonT(30)
<1>10. \A d \in Extent : extents[d].status # "none" =>
          extents'[d].in_flight = extents[d].in_flight
  BY <1>1, <1>2, Zenon
<1>11. \A k \in OnWire : packets'[k].bytes = packets[k].bytes
  BY <1>2, <1>3, <1>4, Zenon DEF OnWire
<1> QED BY SMTT(20), <1>1, <1>2, <1>6, <1>7, <1>8, <1>9, <1>10, <1>11, WindowStays

\* A packet goes on the wire only where the window has room for it.
LEMMA ReleaseAcceptedWindow ==
    ASSUME PlacesInv, Window, NEW b, NEW m, ReleaseAccepted(b, m),
           packets' \in [Packet -> PacketRecord],
           NEW k, k = LowestPsn(queue), NEW e, e = packets[k].extent
    PROVE  Window'
<1>1. /\ Cut \subseteq Packet /\ packets \in [Packet -> PacketRecord]
      /\ extents \in [Extent -> ExtentRecord] /\ TxTypeOK /\ Places
  BY PacketsWereCut, Zenon DEF PlacesInv, TxTypeOK
<1>2. /\ k \in queue /\ k \in Cut /\ k \in Packet
      /\ ~packets[k].terminal /\ ~packets[k].issued
  BY <1>1, IssueFacts, Zenon DEF ReleaseAccepted, Places
<1>3. e \in Extent /\ extents[e].status = "open"
  BY <1>2, UnretiredIsOpen, Zenon
<1>4. /\ packets' = [packets EXCEPT ![k].issued = TRUE, ![k].issued_at = now]
      /\ extents' = [extents EXCEPT ![e].in_flight = TRUE,
                                    ![e].issued_count = @ + 1]
      /\ cut' = cut
      /\ inflight' = [wqes |-> inflight.wqes
                                 + (IF extents[e].in_flight THEN 0 ELSE 1),
                      packets |-> inflight.packets + 1,
                      bytes |-> inflight.bytes + packets[k].bytes]
  BY Zenon DEF ReleaseAccepted
<1>5. /\ Cut' = Cut
      /\ \A j \in Packet : /\ packets'[j].extent = packets[j].extent
                           /\ packets'[j].terminal <=> packets[j].terminal
                           /\ packets'[j].bytes = packets[j].bytes
                           /\ packets'[j].issued <=> packets[j].issued \/ j = k
  BY <1>1, <1>2, <1>4, ZenonT(30) DEF PacketRecord, Cut
<1>6. /\ \A d \in Extent : /\ extents'[d].status = extents[d].status
                           /\ extents'[d].in_flight <=>
                                 extents[d].in_flight \/ d = e
  BY SMTT(20), <1>1, <1>3, <1>4 DEF ExtentRecord
<1>7. Started'
  BY <1>1, <1>5, <1>6 DEF Window, Started, PlacesInv, Membership
<1>8. Loads'
  <2>1. OnWire' = OnWire \cup {k} /\ k \notin OnWire
    BY <1>1, <1>2, <1>5, Zenon DEF OnWire, InFlight
  <2>2. /\ inflight'.packets = inflight.packets + 1
        /\ inflight'.bytes = inflight.bytes + packets[k].bytes
    BY <1>4, Zenon
  <2>3. /\ \/ MaxInflightBytes = 0 \/ inflight.bytes = 0
           \/ inflight.bytes + packets[k].bytes =< MaxInflightBytes
        /\ \/ MaxInflightPackets = 0 \/ inflight.packets = 0
           \/ inflight.packets < MaxInflightPackets
    BY Zenon DEF ReleaseAccepted, CanIssue, WindowAllows
  <2> QED BY <1>2, <1>5, <2>1, <2>2, <2>3, LoadsGrow, ZenonT(30) DEF Window
<1>9. Requests'
  <2>1. PICK A : A = Active'
    OBVIOUS
  <2>2. A = Active \cup {e} /\ e \in A
    BY <1>3, <1>6, <2>1 DEF Active
  <2>3. e \in Active <=> extents[e].in_flight
    BY <1>3, Zenon DEF Active
  <2>4. e \in Active \/ MaxInflightWqes = 0 \/ inflight.wqes < MaxInflightWqes
    BY <2>3, ZenonT(30) DEF ReleaseAccepted, CanIssue, WindowAllows
  <2>5. inflight'.wqes = inflight.wqes + (IF e \in Active THEN 0 ELSE 1)
                                       - (IF e \in A THEN 0 ELSE 1)
    <3>1. inflight.wqes \in Int
      BY <1>1, Zenon DEF TxTypeOK
    <3> QED BY <1>4, <2>2, <2>3, <3>1
  <2> QED BY SMTT(20), <1>3, <2>1, <2>2, <2>4, <2>5, RequestsCount DEF Window
<1> QED BY <1>7, <1>8, <1>9, Zenon DEF Window

\* A packet of extent e retires; the request stays counted until its extent
\* closes.
LEMMA RetireRequests ==
    ASSUME PlacesInv, Requests, NEW e \in Extent, extents[e].status = "open",
           NEW after \in ExtentRecord, after.in_flight,
           extents' = [extents EXCEPT ![e] = after],
           inflight'.wqes = inflight.wqes
                              + (IF extents[e].in_flight THEN 0 ELSE 1)
                              - (IF after.status = "open" THEN 0 ELSE 1),
           \/ extents[e].in_flight \/ MaxInflightWqes = 0
           \/ inflight.wqes < MaxInflightWqes
    PROVE  Requests'
<1>1. extents \in [Extent -> ExtentRecord]
  BY Zenon DEF PlacesInv, TxTypeOK
<1>2. PICK A : A = Active'
  OBVIOUS
<1>3. extents'[e] = after /\ \A d \in Extent \ {e} : extents'[d] = extents[d]
  BY <1>1, Zenon
<1>4. e \in A <=> after.status = "open"
  BY <1>2, <1>3, Zenon DEF Active
<1>5. \A d : d # e => (d \in A <=> d \in Active)
  BY <1>2, <1>3, Zenon DEF Active
<1>6. A = Active \cup {e} \/ A = Active \ {e}
  BY <1>5, Zenon
<1>7. e \in Active <=> extents[e].in_flight
  BY Zenon DEF Active
<1>8. inflight'.wqes = inflight.wqes + (IF e \in Active THEN 0 ELSE 1)
                                     - (IF e \in A THEN 0 ELSE 1)
  BY <1>4, <1>7, Zenon
<1> QED BY <1>2, <1>6, <1>7, <1>8, RequestsCount

\* A refused packet never was on the wire.
LEMMA ReleaseRejectedWindow ==
    ASSUME PlacesInv, Window, ReleaseRejected,
           packets' \in [Packet -> PacketRecord],
           NEW k, k = LowestPsn(queue), NEW e, e = packets[k].extent
    PROVE  Window'
<1>1. /\ Cut \subseteq Packet /\ packets \in [Packet -> PacketRecord]
      /\ extents \in [Extent -> ExtentRecord] /\ TxTypeOK /\ Places
      /\ inflight \in [wqes : Int, packets : Int, bytes : Int]
  BY PacketsWereCut, Zenon DEF PlacesInv, TxTypeOK
<1>2. /\ k \in queue /\ k \in Cut /\ k \in Packet
      /\ ~packets[k].terminal /\ ~packets[k].issued
  BY <1>1, IssueFacts, Zenon DEF ReleaseRejected, Places
<1>3. e \in Extent /\ extents[e].status = "open"
  BY <1>2, UnretiredIsOpen, Zenon
<1>4. PICK x : x = [extents[e] EXCEPT !.in_flight = TRUE, !.issued_count = @ + 1]
  OBVIOUS
<1>5. PICK after : after = Retire(x, TRUE)
  BY Zenon
<1>6. /\ packets' = [packets EXCEPT ![k].issued = TRUE, ![k].issued_at = now,
                                    ![k].terminal = TRUE]
      /\ extents' = [extents EXCEPT ![e] = after]
      /\ cut' = cut
      /\ inflight' = [inflight EXCEPT !.wqes =
            @ + (IF extents[e].in_flight THEN 0 ELSE 1)
              - (IF after.status = "open" THEN 0 ELSE 1)]
  BY <1>4, <1>5, Zenon DEF ReleaseRejected
<1>7. after \in ExtentRecord /\ after.in_flight
  <2>1. PICK n \in Nat : n = extents[e].issued_count + 1
    BY <1>1, <1>3 DEF ExtentRecord
  <2>2. x = [extents[e] EXCEPT !.in_flight = TRUE, !.issued_count = n]
    BY <1>4, <2>1, Zenon
  <2>3. x \in ExtentRecord /\ x.in_flight
    <3>1. extents[e] \in ExtentRecord
      BY <1>1, <1>3, Zenon
    <3>2. x \in ExtentRecord
      BY <2>2, <3>1, ZenonT(30) DEF ExtentRecord
    <3>3. x.in_flight
      BY <2>2, <3>1, Zenon DEF ExtentRecord
    <3> QED BY <3>2, <3>3, Zenon
  <2>4. Retire(x, TRUE) \in ExtentRecord
    BY <2>3, RetireType, Zenon
  <2>5. Retire(x, TRUE).in_flight
    BY <2>3, Zenon DEF Retire, ExtentRecord
  <2> QED BY <1>5, <2>4, <2>5, Zenon
<1>8. /\ Cut' = Cut
      /\ \A j \in Packet : /\ packets'[j].extent = packets[j].extent
                           /\ packets'[j].terminal <=> packets[j].terminal \/ j = k
                           /\ packets'[j].bytes = packets[j].bytes
                           /\ packets'[j].issued <=> packets[j].issued \/ j = k
  BY <1>1, <1>2, <1>6, Zenon DEF PacketRecord, Cut
<1>9. \A d \in Extent : extents'[d] = (IF d = e THEN after ELSE extents[d])
  BY <1>1, <1>6, Zenon
<1>10. Started'
  <2> SUFFICES ASSUME NEW j \in Cut, packets'[j].issued
               PROVE  extents'[packets[j].extent].in_flight
    BY <1>1, <1>8, Zenon DEF Started
  <2>1. packets[j].extent \in Extent /\ j \in Packet
    BY <1>1, Zenon DEF PlacesInv, Membership
  <2>2. CASE packets[j].extent = e
    BY <1>7, <1>9, <2>1, <2>2, ZenonT(30)
  <2>3. CASE packets[j].extent # e
    <3>1. packets[j].issued
      BY <1>8, <2>1, <2>3, Zenon
    <3>2. extents[packets[j].extent].in_flight
      BY <3>1, Zenon DEF Window, Started
    <3> QED BY <1>9, <2>1, <2>3, <3>2
  <2> QED BY <2>2, <2>3, Zenon
<1>11. Loads'
  <2>1. OnWire' = OnWire \ {}
    BY <1>1, <1>2, <1>8, Zenon DEF OnWire, InFlight
  <2>2. Cardinality({}) = 0 /\ SumBytes({}) = 0
    BY <1>1, SumNothing, FS_EmptySet, Zenon
  <2>3. inflight'.packets = inflight.packets /\ inflight'.bytes = inflight.bytes
    BY <1>1, <1>6, Zenon
  <2>4. \A j \in OnWire : packets'[j].bytes = packets[j].bytes
    BY <1>1, <1>8, Zenon DEF OnWire
  <2>5. inflight.packets \in Int /\ inflight.bytes \in Int
    BY <1>1, Zenon
  <2> QED BY SMTT(20), <2>1, <2>2, <2>3, <2>4, <2>5, LoadsShrink DEF Window
<1>12. Requests'
  <2>1. inflight'.wqes = inflight.wqes
                           + (IF extents[e].in_flight THEN 0 ELSE 1)
                           - (IF after.status = "open" THEN 0 ELSE 1)
    BY <1>1, <1>6, Zenon
  <2>2. \/ extents[e].in_flight \/ MaxInflightWqes = 0
        \/ inflight.wqes < MaxInflightWqes
    BY Zenon DEF ReleaseRejected, CanIssue, WindowAllows
  <2> QED BY <1>3, <1>6, <1>7, <2>1, <2>2, RetireRequests, ZenonT(30) DEF Window
<1> QED BY <1>10, <1>11, <1>12, Zenon DEF Window

\* An attempt that ends for good leaves the wire.
LEMMA TerminalWindow ==
    ASSUME PlacesInv, Window, NEW tok \in bindings,
           NEW kind \in {"delivered", "dropped"}, NEW t,
           Terminal(tok, kind, t), cut' = cut,
           packets' \in [Packet -> PacketRecord],
           NEW k, k = tok[1], NEW e, e = packets[k].extent
    PROVE  Window'
<1>1. /\ Cut \subseteq Packet /\ packets \in [Packet -> PacketRecord]
      /\ extents \in [Extent -> ExtentRecord] /\ Places
      /\ inflight \in [wqes : Int, packets : Int, bytes : Int]
  BY PacketsWereCut, Zenon DEF PlacesInv, TxTypeOK
<1>2. /\ k \in Cut /\ k \in Packet /\ packets[k].issued /\ ~packets[k].terminal
  BY <1>1, Zenon DEF Places
<1>3. e \in Extent /\ extents[e].status = "open" /\ extents[e].in_flight
  BY <1>2, UnretiredIsOpen, Zenon DEF Window, Started
<1>4. PICK lost \in BOOLEAN : lost = (kind = "dropped")
  BY Zenon
<1>5. PICK after : after = Retire(extents[e], lost)
  OBVIOUS
<1>6. /\ packets' = [packets EXCEPT ![k].terminal = TRUE]
      /\ extents' = [extents EXCEPT ![e] = after]
      /\ inflight' = [wqes |-> inflight.wqes
                                 - (IF after.status = "open" THEN 0 ELSE 1),
                      packets |-> inflight.packets - 1,
                      bytes |-> inflight.bytes - packets[k].bytes]
  BY <1>4, <1>5, Zenon DEF Terminal
<1>7. after \in ExtentRecord /\ after.in_flight
  <2>1. extents[e] \in ExtentRecord
    BY <1>1, <1>3, Zenon
  <2>2. Retire(extents[e], lost) \in ExtentRecord
    BY <2>1, RetireType, Zenon
  <2>3. Retire(extents[e], lost).in_flight
    BY <1>3, <2>1, Zenon DEF Retire, ExtentRecord
  <2> QED BY <1>5, <2>2, <2>3
<1>8. /\ Cut' = Cut
      /\ \A j \in Packet : /\ packets'[j].extent = packets[j].extent
                           /\ packets'[j].terminal <=> packets[j].terminal \/ j = k
                           /\ packets'[j].bytes = packets[j].bytes
                           /\ packets'[j].issued <=> packets[j].issued
  BY <1>1, <1>2, <1>6 DEF PacketRecord, Cut
<1>9. \A d \in Extent : extents'[d] = (IF d = e THEN after ELSE extents[d])
  BY <1>1, <1>6, Zenon
<1>10. Started'
  <2> SUFFICES ASSUME NEW j \in Cut, packets'[j].issued
               PROVE  extents'[packets[j].extent].in_flight
    BY <1>1, <1>8, Zenon DEF Started
  <2>1. packets[j].extent \in Extent /\ j \in Packet
    BY <1>1, Zenon DEF PlacesInv, Membership
  <2>2. CASE packets[j].extent = e
    BY <1>7, <1>9, <2>1, <2>2, ZenonT(30)
  <2>3. CASE packets[j].extent # e
    <3>1. packets[j].issued
      BY <1>8, <2>1, <2>3, Zenon
    <3>2. extents[packets[j].extent].in_flight
      BY <3>1, Zenon DEF Window, Started
    <3> QED BY <1>9, <2>1, <2>3, <3>2
  <2> QED BY <2>2, <2>3, Zenon
<1>11. Loads'
  <2>1. OnWire' = OnWire \ {k} /\ k \in OnWire
    BY <1>1, <1>2, <1>8 DEF OnWire, InFlight
  <2>2. Cardinality({k}) = 1
    BY FS_Singleton, Zenon
  <2>3. SumBytes({k}) = packets[k].bytes
    <3>1. SumBytes({} \cup {k}) = SumBytes({}) + packets[k].bytes
      BY <1>1, <1>2, SumMore, ZenonT(30)
    <3>2. SumBytes({}) = 0 /\ packets[k].bytes \in Nat
      BY <1>1, <1>2, SumNothing DEF PacketRecord
    <3>3. {} \cup {k} = {k}
      OBVIOUS
    <3> QED BY <3>1, <3>2, <3>3
  <2>4. \A j \in OnWire : packets'[j].bytes = packets[j].bytes
    BY <1>1, <1>8, Zenon DEF OnWire
  <2>5. /\ inflight'.packets = inflight.packets - Cardinality({k})
        /\ inflight'.bytes = inflight.bytes - SumBytes({k})
    BY <1>6, <2>2, <2>3, Zenon
  <2> QED BY SMTT(20), <1>2, <2>1, <2>4, <2>5, LoadsShrink DEF Window
<1>12. Requests'
  <2>1. inflight'.wqes = inflight.wqes
                           + (IF extents[e].in_flight THEN 0 ELSE 1)
                           - (IF after.status = "open" THEN 0 ELSE 1)
    BY <1>1, <1>3, <1>6
  <2> QED BY <1>3, <1>6, <1>7, <2>1, RetireRequests, ZenonT(30) DEF Window
<1> QED BY <1>10, <1>11, <1>12, Zenon DEF Window

\* Nothing is on the wire at first.
LEMMA TxInitWindow == TxInit => Window
<1> SUFFICES ASSUME TxInit PROVE Window
  OBVIOUS
<1>1. PlacesInv /\ packets \in [Packet -> PacketRecord]
  BY TxInitPlaces, Zenon DEF PlacesInv, TxTypeOK
<1>2. Cut = {} /\ \A e \in Extent : extents[e].status = "none"
  BY DEF TxInit, Cut, NoExtent
<1>3. OnWire = {} /\ Active = {}
  BY <1>2, Zenon DEF OnWire, Active
<1>4. Cardinality({}) = 0 /\ SumBytes({}) = 0
  BY <1>1, SumNothing, FS_EmptySet, Zenon
<1>5. inflight.wqes = 0 /\ inflight.packets = 0 /\ inflight.bytes = 0
  BY Zenon DEF TxInit
<1>6. Started
  BY <1>2, Zenon DEF Started
<1>7. MaxInflightWqes \in Nat /\ MaxInflightPackets \in Nat /\ MaxInflightBytes \in Nat
  BY ConfigAssumption, Zenon
<1>8. Loads /\ Requests
  BY <1>3, <1>4, <1>5, <1>7 DEF Loads, Requests
<1> QED BY <1>6, <1>8, Zenon DEF Window

\* Every step keeps the counts.
LEMMA TxStepWindow ==
    ASSUME PlacesInv, Window, [TxStep]_txVars
    PROVE  Window'
<1>1. /\ bindings \subseteq Token /\ live \subseteq Packet
      /\ \A k \in Packet : Psn(k) \in Nat
  BY PsnType, PsnAssumption DEF PlacesInv, TxTypeOK
<1> DEFINE Typed == packets' \in [Packet -> PacketRecord]
<1>2. Typed
  BY TxStepPlaces, Zenon DEF PlacesInv, TxTypeOK
<1> HIDE DEF Typed
<1>3. ASSUME NEW bound, NEW psn \in Nat, NEW t \in Time, GoBackN(bound, psn, t),
             cut' = cut, extents' = extents
      PROVE  Window'
  BY <1>2, <1>3, GoBackNWindow, Zenon DEF Typed
<1>4. ASSUME NEW tok \in bindings, NEW kind \in {"delivered", "dropped"}, NEW t,
             Terminal(tok, kind, t), cut' = cut
      PROVE  Window'
  BY <1>2, <1>4, TerminalWindow, Zenon DEF Typed
<1>5. CASE \E t \in Time, payload \in Payloads : TrySubmit(payload, t)
  BY <1>2, <1>5, SubmitWindow, Zenon DEF Typed
<1>6. CASE \E t \in Time : ReleaseBegin(t)
  <2>1. PICK t \in Time : ReleaseBegin(t)
    BY <1>6, Zenon
  <2>2. CASE TimerArmed /\ EarliestTimeout =< t
    <3> DEFINE psn == Psn(LowestPsn(live))
    <3>1. psn \in Nat
      BY <1>1, <2>2, LowestPsnProperty, Zenon DEF TimerArmed
    <3>2. GoBackN(bindings, psn, t) /\ cut' = cut /\ extents' = extents
      BY <2>1, <2>2, Zenon DEF ReleaseBegin
    <3> HIDE DEF psn
    <3> QED BY <1>3, <3>1, <3>2, Zenon
  <2>3. CASE ~(TimerArmed /\ EarliestTimeout =< t)
    BY <2>1, <2>3, WindowUnchanged, Zenon DEF ReleaseBegin
  <2> QED BY <2>2, <2>3, Zenon
<1>7. CASE \E b, m \in Nat : ReleaseAccepted(b, m)
  BY <1>2, <1>7, ReleaseAcceptedWindow, Zenon DEF Typed
<1>8. CASE ReleaseRejected
  BY <1>2, <1>8, ReleaseRejectedWindow, Zenon DEF Typed
<1>9. CASE \E t \in Time, psn \in Nat, kind \in {"Ack", "Nak"} :
             OnTransportPacket(kind, psn, t)
  <2>1. PICK t \in Time, psn \in Nat, kind \in {"Ack", "Nak"} :
           OnTransportPacket(kind, psn, t)
    BY <1>9, Zenon
  <2>2. CASE Absorbed(kind, psn)
    BY <2>1, <2>2, WindowUnchanged, Zenon DEF OnTransportPacket
  <2>3. CASE ~Absorbed(kind, psn)
    BY <1>3, <2>1, <2>3, Zenon DEF OnTransportPacket
  <2> QED BY <2>2, <2>3, Zenon
<1>10. CASE \E t \in Time, tok \in Token : OnDelivered(tok, t)
  BY <1>4, <1>10, Zenon DEF OnDelivered
<1>11. CASE \E t \in Time, tok \in Token : OnDropped(tok, t)
  <2>1. PICK t \in Time, tok \in Token : OnDropped(tok, t)
    BY <1>11, Zenon
  <2>2. tok \in bindings /\ cut' = cut /\ Psn(tok[1]) \in Nat
    BY <1>1, <2>1, ZenonT(30) DEF OnDropped, Token
  <2>3. CASE ~TransportEnabled
    BY SMTT(20), <1>4, <2>1, <2>2, <2>3 DEF OnDropped
  <2>4. CASE TransportEnabled /\ InEpisode(Psn(tok[1]))
    BY <2>1, <2>2, <2>4, WindowUnchanged DEF OnDropped
  <2>5. CASE TransportEnabled /\ ~InEpisode(Psn(tok[1]))
    <3>1. GoBackN(bindings \ {tok}, Psn(tok[1]), t) /\ extents' = extents
      BY <2>1, <2>5, Zenon DEF OnDropped
    <3> QED BY <1>3, <2>2, <3>1, Zenon
  <2> QED BY <2>3, <2>4, <2>5, Zenon
<1>12. CASE \/ ReleaseEnd \/ \E t \in Time : ReleaseBusy(t)
            \/ \E t \in Time, tok \in Token : OnArrived(tok, t) \/ OnStaleEvent(tok, t)
            \/ UNCHANGED txVars
  <2>1. UNCHANGED <<cut, extents, packets, inflight>>
    BY <1>12, Zenon DEF ReleaseBusy, ReleaseEnd, OnArrived, OnStaleEvent, txVars
  <2> QED BY <2>1, WindowUnchanged, Zenon
<1> QED BY SMTT(20), <1>5, <1>6, <1>7, <1>8, <1>9, <1>10, <1>11, <1>12 DEF TxStep

\* The counters releaseDue throttles by are what is on the wire, through
\* replays and refusals, and the wire never carries more than configured but
\* for one packet that exceeds the byte bound alone.
THEOREM WindowNeverExceeded == PortSpec => []WindowBound
<1>1. PortInit => Window
  BY TxInitWindow, Zenon DEF PortInit
<1>2. PlacesInv /\ Window /\ [PortNext]_portVars => Window'
  BY PortStepsPipeline, TxStepWindow, Zenon DEF PlacesInv
<1>3. ASSUME Window PROVE WindowBound
  <2>1. {k \in Cut : InFlight(k) /\ packets[k].bytes > 0} = Heavy
    BY Zenon DEF Heavy, OnWire
  <2>2. \A k : Cardinality({k}) = 1
    BY FS_Singleton, Zenon
  <2> QED BY <1>3, <2>1, <2>2, Zenon
           DEF Window, Loads, Requests, WindowBound, OnWire, Active
<1> QED BY SMTT(20), <1>1, <1>2, <1>3, PlacesAlways, PTL DEF PortSpec
=============================================================================
