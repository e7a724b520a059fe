--------------------------- MODULE RnicTxPipeline ---------------------------
(***************************************************************************)
(* The transmit pipeline of the RNIC model                                 *)
(* (simllm/backends/rnic/src/rnic_tx_pipeline.cpp).                        *)
(*                                                                         *)
(* A flow extent (one per work request) is cut into packets with           *)
(* consecutive sequence numbers.  Packets are issued in sequence order     *)
(* through an outstanding-work window and a pacer; with the requester      *)
(* transport on, a loss is repaired by go-back-N.                          *)
(*                                                                         *)
(* A packet is named by its ordinal k, the k-th the pipeline ever cut; its *)
(* sequence number is Psn(k).  An attempt is a Token <<k, n>>: the n-th    *)
(* transmission of packet k.  It stands both for the attempt token given   *)
(* to the work queue and for the token the port returned, which are in     *)
(* one-to-one correspondence.  Byte rates and the congestion reaction only *)
(* decide how far a charge moves a gate: that distance is drawn from       *)
(* BitDelays and MessageDelays.                                            *)
(***************************************************************************)
EXTENDS RnicPsn, FiniteSets, FiniteSetsExt

CONSTANTS
    MaxExtents,          \* bound: extents submitted
    MaxPackets,          \* bound: packets cut
    MaxAttempts,         \* bound: transmissions of one packet
    MaxTime,             \* bound: last instant
    Payloads,            \* payload sizes of the submitted extents
    Mtu,                 \* config.mtu_bytes
    InitialPsn,          \* config.initial_psn
    MaxInflightWqes,     \* config.max_inflight_wqes, 0 disables
    MaxInflightBytes,    \* config.max_inflight_bytes, 0 disables
    MaxInflightPackets,  \* config.max_inflight_packets, 0 disables
    BitDelays,           \* what one packet can add to the bit-rate gates
    MessageDelays,       \* what one request can add to the message gates
    TransportEnabled,    \* config.transport_enabled
    Rto                  \* config.rto_ps, 0 disables the timer

\* validateRnicTxPipelineConfig, and bounds that leave something to do.
ASSUME ConfigAssumption ==
    /\ MaxExtents \in Nat /\ MaxPackets \in Nat /\ MaxTime \in Nat
    /\ MaxAttempts \in Nat \ {0}
    /\ Payloads \subseteq Nat /\ Mtu \in Nat \ {0}
    /\ InitialPsn \in 0 .. PsnModulus - 1
    /\ MaxInflightWqes \in Nat /\ MaxInflightBytes \in Nat
    /\ MaxInflightPackets \in Nat
    /\ BitDelays \subseteq Nat /\ MessageDelays \subseteq Nat
    /\ TransportEnabled \in BOOLEAN /\ Rto \in Nat
    /\ ~TransportEnabled => Rto = 0

Extent == 1 .. MaxExtents
Packet == 0 .. MaxPackets - 1
Token == Packet \X (0 .. MaxAttempts - 1)
Time == 0 .. MaxTime
Psn(k) == PsnAfter(InitialPsn, k)

VARIABLES
    now,        \* last_now_ps_
    cut,        \* packets cut so far: next_psn_ - initial_psn
    extents,    \* extents_; an erased extent keeps the terminal it was told
    packets,    \* Extent::packets of every extent
    queue,      \* queue_, keyed by sequence number
    live,       \* live_psns_, only used with the transport
    bindings,   \* downstream_tokens_
    gates,      \* window_open_ps_, downstream_retry_at_ps_ and the rate gates
    inflight,   \* counters_.inflight_wqes, _packets and _bytes
    recovery,   \* in_recovery_ and recovery_psn_
    releasing,  \* releaseDue is between two iterations of its issue loop
    told        \* what the work queue has been told of each attempt

txVars == <<now, cut, extents, packets, queue, live, bindings, gates,
            inflight, recovery, releasing, told>>

\* PacketTxFinished and PacketRxArrived are forwarded alike; "arrived" stands
\* for the two reports.
Stage == {"none", "started", "arrived", "delivered", "dropped"}

NoExtent == [status |-> "none", first |-> 0, size |-> 0, issued_count |-> 0,
             terminal_count |-> 0, in_flight |-> FALSE, dropped |-> FALSE]
NoPacket == [extent |-> 0, bytes |-> 0, issued |-> FALSE, terminal |-> FALSE,
             attempt |-> 0, issued_at |-> 0, queued_at |-> 0]

TxInit ==
    /\ now = 0
    /\ cut = 0
    /\ extents = [e \in Extent |-> NoExtent]
    /\ packets = [k \in Packet |-> NoPacket]
    /\ queue = {}
    /\ live = {}
    /\ bindings = {}
    /\ gates = [window |-> 0, bits |-> 0, messages |-> 0, retry |-> 0]
    /\ inflight = [wqes |-> 0, packets |-> 0, bytes |-> 0]
    /\ recovery = [active |-> FALSE, psn |-> 0]
    /\ releasing = FALSE
    /\ told = [tok \in Token |-> "none"]

PacketsOf(e) == extents[e].first .. extents[e].first + extents[e].size - 1
CurrentToken(k) == <<k, packets[k].attempt>>

\* begin() of a map keyed by sequence number.
LowestPsn(S) == CHOOSE k \in S : \A j \in S : Psn(k) =< Psn(j)

\* The bytes of S, each counted as an element; no packet exceeds the MTU.
SumBytes(S) ==
    Cardinality({b \in S \X (1 .. Mtu) : b[2] =< packets[b[1]].bytes})

-----------------------------------------------------------------------------
(* Submission: the packetizer. *)

PacketCount(payload) ==
    IF payload = 0 THEN 1 ELSE (payload + Mtu - 1) \div Mtu

PacketBytes(payload, index) == Min({Mtu, payload - index * Mtu})

FreshExtent(first, size) ==
    [NoExtent EXCEPT !.status = "open", !.first = first, !.size = size]
FreshPacket(e, bytes, t) ==
    [NoPacket EXCEPT !.extent = e, !.bytes = bytes, !.queued_at = t]

TrySubmit(payload, t) ==
    LET n == PacketCount(payload)
        fresh == cut .. cut + n - 1
    IN  \E e \in Extent :
          /\ ~releasing /\ t >= now
          /\ extents[e].status = "none"
          /\ \A d \in Extent : extents[d].status = "none" => e =< d
          /\ cut + n =< MaxPackets
          /\ now' = t
          /\ cut' = cut + n
          /\ extents' = [extents EXCEPT ![e] = FreshExtent(cut, n)]
          /\ packets' = [k \in Packet |->
                IF k \in fresh
                THEN FreshPacket(e, PacketBytes(payload, k - cut), t)
                ELSE packets[k]]
          /\ queue' = queue \cup fresh
          /\ UNCHANGED <<live, bindings, gates, inflight, recovery, releasing,
                         told>>

-----------------------------------------------------------------------------
(* The gates a queued packet waits at. *)

IsFirst(k) == k = extents[packets[k].extent].first

EligibleAt(k) ==
    Max({packets[k].queued_at, gates.window, gates.bits, gates.retry}
          \cup (IF IsFirst(k) THEN {gates.messages} ELSE {}))

\* Mutant: the bounds are compared before the packet is counted.
WindowAllows_OffByOne(k) ==
    /\ \/ extents[packets[k].extent].in_flight
       \/ MaxInflightWqes = 0
       \/ inflight.wqes < MaxInflightWqes
    /\ MaxInflightBytes = 0 \/ inflight.bytes =< MaxInflightBytes
    /\ MaxInflightPackets = 0 \/ inflight.packets =< MaxInflightPackets

WindowAllows(k) ==
    /\ \/ extents[packets[k].extent].in_flight
       \/ MaxInflightWqes = 0
       \/ inflight.wqes < MaxInflightWqes
    /\ \/ MaxInflightBytes = 0
       \/ inflight.bytes = 0
       \/ inflight.bytes + packets[k].bytes =< MaxInflightBytes
    /\ \/ MaxInflightPackets = 0
       \/ inflight.packets = 0
       \/ inflight.packets < MaxInflightPackets

\* Mutant: an open episode is trusted to repair the loss by itself.
TimerArmed_OutsideEpisodes ==
    TransportEnabled /\ Rto # 0 /\ live # {} /\ ~recovery.active

\* earliestTimeout: the deadline of the lowest live sequence number.
TimerArmed == TransportEnabled /\ Rto # 0 /\ live # {}
EarliestTimeout == packets[LowestPsn(live)].issued_at + Rto

-----------------------------------------------------------------------------
(* Recovery. *)

\* Mutant: only the packet named is replayed.
AtOrAbove_SelectiveRepeat(psn) == {k \in live : Psn(k) = psn}

AtOrAbove(psn) == {k \in live : Psn(k) >= psn}

\* The packet, ready for its next transmission.
Requeued(packet, t) ==
    [packet EXCEPT !.issued = FALSE, !.attempt = @ + 1, !.queued_at = t]

\* Mutants: the replayed attempts stay bound, stay counted in the window, or
\* vanish without a terminal.
GoBackN_With(bound, psn, t, keepBound, keepCounted, silent) ==
    LET closed == AtOrAbove(psn)
        tokens == {CurrentToken(k) : k \in closed}
    IN  /\ \A k \in closed : packets[k].attempt + 1 < MaxAttempts
        /\ packets' = [k \in Packet |->
              IF k \in closed THEN Requeued(packets[k], t) ELSE packets[k]]
        /\ queue' = queue \cup closed
        /\ live' = live \ closed
        /\ bindings' = IF keepBound THEN bound ELSE bound \ tokens
        /\ inflight' = IF keepCounted THEN inflight
              ELSE [inflight EXCEPT !.packets = @ - Cardinality(closed),
                                    !.bytes = @ - SumBytes(closed)]
        /\ told' = IF silent THEN told ELSE [tok \in Token |->
              IF tok \in tokens THEN "dropped" ELSE told[tok]]
GoBackN_KeepsBound(bound, psn, t) ==
    GoBackN_With(bound, psn, t, TRUE, FALSE, FALSE)
GoBackN_KeepsCounted(bound, psn, t) ==
    GoBackN_With(bound, psn, t, FALSE, TRUE, FALSE)
GoBackN_Silent(bound, psn, t) ==
    GoBackN_With(bound, psn, t, FALSE, FALSE, TRUE)

\* Closes every live attempt at or above psn and requeues its packet.
GoBackN(bound, psn, t) ==
    LET closed == AtOrAbove(psn)
        tokens == {CurrentToken(k) : k \in closed}
    IN  /\ \A k \in closed : packets[k].attempt + 1 < MaxAttempts
        /\ packets' = [k \in Packet |->
              IF k \in closed THEN Requeued(packets[k], t) ELSE packets[k]]
        /\ queue' = queue \cup closed
        /\ live' = live \ closed
        /\ bindings' = bound \ tokens
        /\ inflight' = [inflight EXCEPT !.packets = @ - Cardinality(closed),
                                        !.bytes = @ - SumBytes(closed)]
        /\ told' = [tok \in Token |->
              IF tok \in tokens THEN "dropped" ELSE told[tok]]

OpenEpisode(psn) == recovery' = [active |-> TRUE, psn |-> psn]
InEpisode(psn) == recovery.active /\ psn >= recovery.psn

\* An ACK says nothing the delivery terminal has not said; a NAK inside the
\* episode would replay the replay.
Absorbed(kind, psn) == kind # "Nak" \/ InEpisode(psn)

OnTransportPacket(kind, psn, t) ==
    /\ TransportEnabled /\ ~releasing /\ t >= now
    /\ now' = t
    /\ \/ /\ Absorbed(kind, psn)
          /\ UNCHANGED <<packets, queue, live, bindings, inflight, recovery,
                         told>>
       \/ /\ ~Absorbed(kind, psn)
          /\ OpenEpisode(psn)
          /\ GoBackN(bindings, psn, t)
    /\ UNCHANGED <<cut, extents, gates, releasing>>

-----------------------------------------------------------------------------
(* releaseDue: the timer, then the issue loop, one step per iteration.     *)
(* Nothing else runs between two iterations: every other action requires   *)
(* ~releasing.                                                             *)

ReleaseBegin(t) ==
    /\ ~releasing /\ t >= now
    /\ now' = t
    /\ releasing' = TRUE
    /\ \/ /\ TimerArmed /\ EarliestTimeout =< t
          /\ OpenEpisode(Psn(LowestPsn(live)))
          /\ GoBackN(bindings, Psn(LowestPsn(live)), t)
       \/ /\ ~(TimerArmed /\ EarliestTimeout =< t)
          /\ UNCHANGED <<packets, queue, live, bindings, inflight, recovery,
                         told>>
    /\ UNCHANGED <<cut, extents, gates>>

CanIssue ==
    /\ queue # {}
    /\ WindowAllows(LowestPsn(queue))
    /\ EligibleAt(LowestPsn(queue)) =< now

ReleaseEnd ==
    /\ releasing /\ ~CanIssue
    /\ releasing' = FALSE
    /\ UNCHANGED <<now, cut, extents, packets, queue, live, bindings, gates,
                   inflight, recovery, told>>

ReleaseBusy(retry) ==
    /\ releasing /\ CanIssue
    /\ retry > now
    /\ gates' = [gates EXCEPT !.retry = retry]
    /\ releasing' = FALSE
    /\ UNCHANGED <<now, cut, extents, packets, queue, live, bindings, inflight,
                   recovery, told>>

\* The port accepts the head of the queue and binds a token to the attempt.
ReleaseAccepted(bitDelay, messageDelay) ==
    LET k == LowestPsn(queue)
        e == packets[k].extent
    IN  /\ releasing /\ CanIssue
        /\ packets' = [packets EXCEPT ![k].issued = TRUE, ![k].issued_at = now]
        /\ extents' = [extents EXCEPT ![e].in_flight = TRUE,
                                      ![e].issued_count = @ + 1]
        /\ queue' = queue \ {k}
        /\ live' = IF TransportEnabled THEN live \cup {k} ELSE live
        /\ bindings' = bindings \cup {CurrentToken(k)}
        /\ told' = [told EXCEPT ![CurrentToken(k)] = "started"]
        /\ gates' = [gates EXCEPT !.retry = 0, !.bits = now + bitDelay,
              !.messages = IF IsFirst(k) THEN now + messageDelay ELSE @]
        /\ inflight' = [wqes |-> inflight.wqes
                                   + (IF extents[e].in_flight THEN 0 ELSE 1),
                        packets |-> inflight.packets + 1,
                        bytes |-> inflight.bytes + packets[k].bytes]
        /\ recovery' = [recovery EXCEPT !.active =
              @ /\ ~(TransportEnabled /\ Psn(k) = recovery.psn)]
        /\ UNCHANGED <<now, cut, releasing>>

\* Mutants: the last packet alone decides the outcome; the extent closes one
\* packet early.
Retire_LastDecides(extent, dropped) ==
    [extent EXCEPT
       !.terminal_count = @ + 1,
       !.dropped = dropped,
       !.status = IF extent.terminal_count + 1 # extent.size THEN @
                  ELSE IF dropped THEN "Dropped" ELSE "Delivered"]
Retire_Early(extent, dropped) ==
    LET lost == extent.dropped \/ dropped
    IN  [extent EXCEPT
           !.terminal_count = @ + 1,
           !.dropped = lost,
           !.status = IF extent.terminal_count + 2 < extent.size THEN @
                      ELSE IF lost THEN "Dropped" ELSE "Delivered"]

\* The extent after one of its packets retires; the last one closes it.
Retire(extent, dropped) ==
    LET lost == extent.dropped \/ dropped
        last == extent.terminal_count + 1 = extent.size
    IN  [extent EXCEPT
           !.terminal_count = @ + 1,
           !.dropped = lost,
           !.status = IF ~last THEN @
                      ELSE IF lost THEN "Dropped" ELSE "Delivered"]

\* The port refuses the head: started and dropped in one step, never resent.
ReleaseRejected ==
    LET k == LowestPsn(queue)
        e == packets[k].extent
        after == Retire([extents[e] EXCEPT !.in_flight = TRUE,
                                           !.issued_count = @ + 1], TRUE)
    IN  /\ releasing /\ CanIssue
        /\ packets' = [packets EXCEPT ![k].issued = TRUE, ![k].issued_at = now,
                                      ![k].terminal = TRUE]
        /\ extents' = [extents EXCEPT ![e] = after]
        /\ queue' = queue \ {k}
        /\ told' = [told EXCEPT ![CurrentToken(k)] = "dropped"]
        /\ gates' = [gates EXCEPT !.retry = 0,
              !.window = IF after.status = "open" THEN @ ELSE now]
        /\ inflight' = [inflight EXCEPT !.wqes =
              @ + (IF extents[e].in_flight THEN 0 ELSE 1)
                - (IF after.status = "open" THEN 0 ELSE 1)]
        /\ UNCHANGED <<now, cut, live, bindings, recovery, releasing>>

-----------------------------------------------------------------------------
(* onDownstreamEvent: what the port reports of an attempt. *)

\* A report for an attempt go-back-N has already replaced.
OnStaleEvent(tok, t) ==
    /\ TransportEnabled /\ ~releasing /\ t >= now
    /\ tok \notin bindings
    /\ now' = t
    /\ UNCHANGED <<cut, extents, packets, queue, live, bindings, gates,
                   inflight, recovery, releasing, told>>

OnArrived(tok, t) ==
    /\ ~releasing /\ t >= now
    /\ tok \in bindings
    /\ now' = t
    /\ told' = [told EXCEPT ![tok] = "arrived"]
    /\ UNCHANGED <<cut, extents, packets, queue, live, bindings, gates,
                   inflight, recovery, releasing>>

\* The common tail of the two terminals.
Terminal(tok, kind, t) ==
    LET k == tok[1]
        e == packets[k].extent
        after == Retire(extents[e], kind = "dropped")
    IN  /\ packets' = [packets EXCEPT ![k].terminal = TRUE]
        /\ extents' = [extents EXCEPT ![e] = after]
        /\ bindings' = bindings \ {tok}
        /\ told' = [told EXCEPT ![tok] = kind]
        /\ inflight' = [wqes |-> inflight.wqes
                                   - (IF after.status = "open" THEN 0 ELSE 1),
                        packets |-> inflight.packets - 1,
                        bytes |-> inflight.bytes - packets[k].bytes]
        /\ gates' = [gates EXCEPT
              !.window = IF after.status = "open" THEN @ ELSE t]

\* Mutant: the delivered sequence number stays live.
OnDelivered_StaysLive(tok, t) ==
    /\ ~releasing /\ t >= now
    /\ tok \in bindings
    /\ now' = t
    /\ Terminal(tok, "delivered", t)
    /\ recovery' = [recovery EXCEPT !.active =
          @ /\ ~(TransportEnabled /\ Psn(tok[1]) >= recovery.psn)]
    /\ UNCHANGED <<cut, queue, live, releasing>>

OnDelivered(tok, t) ==
    /\ ~releasing /\ t >= now
    /\ tok \in bindings
    /\ now' = t
    /\ Terminal(tok, "delivered", t)
    /\ live' = live \ {tok[1]}
    /\ recovery' = [recovery EXCEPT !.active =
          @ /\ ~(TransportEnabled /\ Psn(tok[1]) >= recovery.psn)]
    /\ UNCHANGED <<cut, queue, releasing>>

\* Without the transport a drop ends the extent; with it the drop opens a
\* recovery episode, or is absorbed by the one already open at or below it.
OnDropped(tok, t) ==
    LET psn == Psn(tok[1])
    IN  /\ ~releasing /\ t >= now
        /\ tok \in bindings
        /\ now' = t
        /\ \/ /\ ~TransportEnabled
              /\ Terminal(tok, "dropped", t)
              /\ UNCHANGED <<queue, live, recovery>>
           \/ /\ TransportEnabled /\ InEpisode(psn)
              /\ bindings' = bindings \ {tok}
              /\ UNCHANGED <<extents, packets, queue, live, gates, inflight,
                             recovery, told>>
           \/ /\ TransportEnabled /\ ~InEpisode(psn)
              /\ OpenEpisode(psn)
              /\ GoBackN(bindings \ {tok}, psn, t)
              /\ UNCHANGED <<extents, gates>>
        /\ UNCHANGED <<cut, releasing>>

-----------------------------------------------------------------------------
(* Properties. *)

Cut == 0 .. cut - 1
Open(k) == packets[k].extent # 0 /\ extents[packets[k].extent].status = "open"
InFlight(k) == packets[k].issued /\ ~packets[k].terminal

ExtentRecord ==
    [status : {"none", "open", "Delivered", "Dropped"}, first : Nat,
     size : Nat, issued_count : Nat, terminal_count : Nat,
     in_flight : BOOLEAN, dropped : BOOLEAN]
PacketRecord ==
    [extent : {0} \cup Extent, bytes : 0 .. Mtu, issued : BOOLEAN,
     terminal : BOOLEAN, attempt : 0 .. MaxAttempts - 1,
     issued_at : Nat, queued_at : Nat]

\* The state has its declared shape.
TxTypeOK ==
    /\ now \in Time
    /\ cut \in 0 .. MaxPackets
    /\ extents \in [Extent -> ExtentRecord]
    /\ packets \in [Packet -> PacketRecord]
    /\ queue \subseteq Packet
    /\ live \subseteq Packet
    /\ bindings \subseteq Token
    /\ gates \in [window : Nat, bits : Nat, messages : Nat, retry : Nat]
    /\ inflight \in [wqes : Int, packets : Int, bytes : Int]
    /\ recovery \in [active : BOOLEAN, psn : Nat]
    /\ releasing \in BOOLEAN
    /\ told \in [Token -> Stage]

\* Across any mix of NAKs, reported drops and timeouts the wire stays older in
\* sequence than everything waiting, so a replay never leaves a higher number
\* ahead of a lower one (rnic_tx_pipeline.h:238-244); and the lowest live
\* number is the oldest attempt, so its deadline is the earliest: the claim
\* earliestTimeout relies on to look at one packet only.
SequenceOrder ==
    /\ \A j \in live, k \in queue : Psn(j) < Psn(k)
    /\ \A j, k \in live :
          Psn(j) < Psn(k) => packets[j].issued_at =< packets[k].issued_at

\* Every packet reachable from queue_, live_psns_ or downstream_tokens_
\* belongs to an extent still in extents_ and is not retired (extents_.at
\* would throw, or retirePacket would retire it twice), and every unretired
\* packet cut is in one of the places it can leave from.
NoDanglingPacket ==
    /\ \A k \in queue : Open(k) /\ ~packets[k].issued /\ ~packets[k].terminal
    /\ \A k \in live : Open(k) /\ InFlight(k)
    /\ \A tok \in bindings : Open(tok[1]) /\ InFlight(tok[1])
                             /\ tok = CurrentToken(tok[1])
    /\ \A k \in Cut : packets[k].terminal \/ k \in queue
                      \/ CurrentToken(k) \in bindings \/ k \in live

\* The window holds at every instant, replays included, for what is really on
\* the wire: the counters are the sums validateInvariants recomputes, however
\* a packet leaves (delivery, drop, replay). Only a packet that is alone on
\* the wire may exceed the byte bound.
WindowBound ==
    /\ inflight.packets = Cardinality({k \in Cut : InFlight(k)})
    /\ inflight.bytes = SumBytes({k \in Cut : InFlight(k)})
    /\ inflight.wqes = Cardinality({e \in Extent :
          extents[e].status = "open" /\ extents[e].in_flight})
    /\ MaxInflightWqes # 0 => inflight.wqes =< MaxInflightWqes
    /\ MaxInflightPackets # 0 => inflight.packets =< MaxInflightPackets
    /\ MaxInflightBytes # 0 =>
         \/ inflight.bytes =< MaxInflightBytes
         \/ Cardinality({k \in Cut : InFlight(k) /\ packets[k].bytes > 0}) = 1

\* The events of one attempt reach the work queue as the lifecycle that
\* WorkQueue::onPacketAttemptEvent accepts: forwards only, one terminal, and
\* nothing after it, however late the port's own terminal is.
Follows(a, b) ==
    \/ a = b
    \/ a = "none" /\ b \in {"started", "dropped"}
    \/ a = "started" /\ b \in {"arrived", "dropped"}
    \/ a = "arrived" /\ b \in {"delivered", "dropped"}
AttemptLifecycle == [][\A tok \in Token : Follows(told[tok], told'[tok])]_txVars

\* An extent's terminal says what happened to its packets: Delivered when the
\* last attempt of each was delivered, Dropped when one was lost for good;
\* and it comes when no attempt of the extent is open in the work queue.
ExtentOutcome ==
    \A e \in Extent :
        /\ extents[e].status = "Delivered" =>
             \A k \in PacketsOf(e) : told[CurrentToken(k)] = "delivered"
        /\ extents[e].status = "Dropped" =>
             /\ \A k \in PacketsOf(e) :
                  told[CurrentToken(k)] \in {"delivered", "dropped"}
             /\ \E k \in PacketsOf(e) : told[CurrentToken(k)] = "dropped"

\* validateInvariants: "RNIC transmit extent counts are impossible".
ExtentCounts ==
    \A e \in Extent : extents[e].status = "open" =>
        /\ extents[e].terminal_count =< extents[e].issued_count
        /\ extents[e].issued_count =< extents[e].size
=============================================================================
