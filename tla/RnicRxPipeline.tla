--------------------------- MODULE RnicRxPipeline ---------------------------
(***************************************************************************)
(* The receive pipeline of the RNIC model                                  *)
(* (simllm/backends/rnic/src/rnic_rx_pipeline.cpp), fluid drain: the       *)
(* ingress meter, the packet-rate ceilings and the responder's sequence    *)
(* check, all inside one onPacket.                                         *)
(***************************************************************************)
EXTENDS RateGate, RnicResponder, Sequences, FiniteSets

CONSTANTS
    Connections,   \* (source, qpn) pairs
    Reliable,      \* those of a reliable connection
    Psns,          \* sequence numbers on offer
    WireBytes,     \* packet sizes on offer
    IngressBytes,  \* config.ingress_bytes, 0 disables
    DrainRate,     \* config.drain_bps
    DrainScale,    \* 8 * kPicosecondsPerSecond: DrainRate / DrainScale bytes
                   \* leave per instant
    RcPps, UdPps, NicPps,  \* packet-rate ceilings, 0 disables
    MaxTime,       \* bound: last instant
    MaxOffered     \* bound: packets offered

\* validateRnicRxPipelineConfig.
ASSUME RxConfigAssumption ==
    /\ Reliable \subseteq Connections
    /\ Psns \subseteq 0 .. PsnModulus - 1 /\ WireBytes \subseteq Nat \ {0}
    /\ IngressBytes \in Nat /\ DrainRate \in Nat
    /\ DrainScale \in Nat \ {0}
    /\ IngressBytes # 0 => DrainRate # 0
    /\ RcPps \in Nat /\ UdPps \in Nat /\ NicPps \in Nat
    /\ MaxTime \in Nat /\ MaxOffered \in Nat

VARIABLES
    now,        \* last_now_ps_
    meter,      \* occupancy_bytes_ and drain_remainder_
    nicRate,    \* nic_rate_
    qpRates,    \* QpState::rate of every connection
    qps,        \* qps_; a connection not yet in the map is not seen
    offered,    \* counters_.packets_offered
    outcome,    \* the RnicRxResult of the last onPacket
    admissions, \* history: [at, conn, bytes] of every packet past the ceilings, with
                \* the bytes admitted up to and including it
    host        \* history: the sequence numbers delivered, per connection

vars == <<now, meter, nicRate, qpRates, qps, offered, outcome, admissions, host>>

Gate == [free_at : Nat, remainder : Nat]
Admission == [at : Nat, conn : Connections, bytes : Nat, total : Nat]

\* The state has its declared shape.
TypeOK ==
    /\ now \in Nat /\ offered \in Nat
    /\ meter \in [occupancy : Nat, remainder : Nat]
    /\ nicRate \in Gate /\ qpRates \in [Connections -> Gate]
    /\ qps \in [Connections -> [seen : BOOLEAN, expected : 0 .. PsnModulus - 1,
                                in_recovery : BOOLEAN]]
    /\ admissions \in Seq(Admission)
    /\ host \in [Connections -> Seq(Psns)]

Init ==
    /\ now = 0
    /\ meter = [occupancy |-> 0, remainder |-> 0]
    /\ nicRate = FreeGate
    /\ qpRates = [c \in Connections |-> FreeGate]
    /\ qps = [c \in Connections |-> NoQp]
    /\ offered = 0
    /\ outcome = Result("none", NoReply)
    /\ admissions = <<>>
    /\ host = [c \in Connections |-> <<>>]

-----------------------------------------------------------------------------
(* Block one: the ingress meter. *)

\* Mutant: every call rounds the drain up.
DrainTo_RoundsUp(t) ==
    LET drained == ((t - now) * DrainRate + DrainScale - 1) \div DrainScale
    IN  [occupancy |-> Max({0, meter.occupancy - drained}), remainder |-> 0]

\* drainTo, with the two divisions (bits, then bytes) folded into one.
DrainTo(t) ==
    LET numerator == (t - now) * DrainRate + meter.remainder
        drained == numerator \div DrainScale
    IN  IF DrainRate = 0
        THEN [meter EXCEPT !.remainder = 0]
        ELSE IF drained >= meter.occupancy
        THEN [occupancy |-> 0, remainder |-> 0]
        ELSE [occupancy |-> meter.occupancy - drained,
              remainder |-> numerator % DrainScale]

Overflows(m, bytes) == IngressBytes # 0 /\ m.occupancy + bytes > IngressBytes

-----------------------------------------------------------------------------
(* Block two: the ceilings and the responder. *)

PpsOf(c) == IF c \in Reliable THEN RcPps ELSE UdPps

MeterDiscard(c, bytes, t) ==
    /\ Overflows(DrainTo(t), bytes)
    /\ meter' = DrainTo(t)
    /\ outcome' = Silently
    /\ UNCHANGED <<nicRate, qpRates, qps, admissions, host>>

CeilingsAdmit(c, t) ==
    Admits(qpRates[c], PpsOf(c), t) /\ Admits(nicRate, NicPps, t)

\* The connection's state exists from here on, whatever becomes of the packet.
RateDiscard(c, psn, bytes, t) ==
    /\ ~Overflows(DrainTo(t), bytes)
    /\ ~CeilingsAdmit(c, t)
    /\ meter' = DrainTo(t)
    /\ qps' = [qps EXCEPT ![c] = QpState(@, psn)]
    /\ outcome' = Silently
    /\ UNCHANGED <<nicRate, qpRates, admissions, host>>

Checked(c, psn, kind) ==
    LET qp == QpState(qps[c], psn)
    IN  IF c \in Reliable THEN SequenceCheck(qp, psn, kind)
        ELSE [qp |-> qp, result |-> Result("Delivered", NoReply)]

Admitted == IF admissions = <<>> THEN 0 ELSE admissions[Len(admissions)].total

Admit(c, psn, bytes, kind, t) ==
    LET checked == Checked(c, psn, kind)
    IN  /\ ~Overflows(DrainTo(t), bytes)
        /\ CeilingsAdmit(c, t)
        /\ meter' = [DrainTo(t) EXCEPT !.occupancy = @ + bytes]
        /\ nicRate' = Charge(nicRate, NicPps, 1, t)
        /\ qpRates' = [qpRates EXCEPT ![c] = Charge(@, PpsOf(c), 1, t)]
        /\ qps' = [qps EXCEPT ![c] = checked.qp]
        /\ outcome' = checked.result
        /\ admissions' = Append(admissions, [at |-> t, conn |-> c, bytes |-> bytes,
                                             total |-> Admitted + bytes])
        /\ host' = IF checked.result.what = "Delivered"
                   THEN [host EXCEPT ![c] = Append(@, psn)] ELSE host

OnPacket(c, psn, bytes, kind, t) ==
    /\ offered < MaxOffered
    /\ now' = t
    /\ offered' = offered + 1
    /\ \/ MeterDiscard(c, bytes, t)
       \/ RateDiscard(c, psn, bytes, t)
       \/ Admit(c, psn, bytes, kind, t)

\* progress: drain with no arrival.
Progress(t) ==
    /\ now' = t
    /\ meter' = DrainTo(t)
    /\ UNCHANGED <<nicRate, qpRates, qps, offered, outcome, admissions, host>>

Next ==
    \E t \in now .. MaxTime :
        \/ Progress(t)
        \/ \E c \in Connections, psn \in Psns, bytes \in WireBytes,
              kind \in {"Data", "Retransmission"} :
              OnPacket(c, psn, bytes, kind, t)

Spec == Init /\ [][Next]_vars

-----------------------------------------------------------------------------
(* Properties. *)

Between(i, j, c) ==
    {n \in i .. j : admissions[n].conn = c}
Elapsed(i, j) == admissions[j].at - admissions[i].at

\* A packet-rate ceiling holds over every interval, not only on average: the
\* admissions of a stretch exceed what the ceiling earns in it by at most the
\* packet that opens it and the one packet of credit charge() may carry back
\* from an idle stretch, whatever the fractions do.
RateCeiling ==
    \A i, j \in DOMAIN admissions : i < j =>
        /\ \A c \in Connections : PpsOf(c) # 0 =>
             (Cardinality(Between(i, j, c)) - 2) * Second
                < PpsOf(c) * (Elapsed(i, j) + 1)
        /\ NicPps # 0 =>
             (j - i - 1) * Second < NicPps * (Elapsed(i, j) + 1)

BytesBetween(i, j) ==
    admissions[j].total - admissions[i].total + admissions[i].bytes

\* The ingress meter is a leaky bucket: what it admits in a stretch fits in
\* the buffer plus what the drain can remove in that stretch; an idle meter
\* banks no drain it did not use, however the caller cuts time into steps.
LeakyBucket ==
    IngressBytes # 0 => \A i, j \in DOMAIN admissions : i =< j =>
        (BytesBetween(i, j) - IngressBytes) * DrainScale
            =< Elapsed(i, j) * DrainRate

\* A reliable connection hands the host consecutive sequence numbers, and the
\* number it waits for is the one after the last it handed over, whatever the
\* meter and the ceilings discard in between.
HostInOrder ==
    \A c \in Reliable : \A i \in DOMAIN host[c] :
        /\ i > 1 => host[c][i] = PsnAfter(host[c][i - 1], 1)
        /\ i = Len(host[c]) => qps[c].expected = PsnAfter(host[c][i], 1)
=============================================================================
