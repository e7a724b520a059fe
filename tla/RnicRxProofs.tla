---------------------------- MODULE RnicRxProofs ----------------------------
(***************************************************************************)
(* Proofs about RnicRxPipeline, for every buffer size, drain and packet    *)
(* rate, number of connections and division of time into steps: the meter  *)
(* is a leaky bucket, the ceilings hold over every stretch, and a reliable *)
(* connection delivers consecutive sequence numbers.                       *)
(***************************************************************************)
EXTENDS RnicRxPipeline, FiniteSetTheorems, TLAPS

\* Where the virtual clock of a gate stands, in 1/rate-ths of an instant.
Clock(gate, rate) == gate.free_at * rate + gate.remainder

\* A gate is at most one packet ahead of the last instant, and leaves less than
\* an instant over.
GateSound(gate, rate) ==
    rate # 0 => /\ gate.remainder < rate
                /\ Clock(gate, rate) < (now + 1) * rate + Second

\* It has paid for all but the first of the k packets it let pass since
\* admission i.
Paid(gate, rate, i, k) ==
    rate # 0 /\ k # 0 =>
        (k - 1) * Second + admissions[i].at * rate =< Clock(gate, rate)

Gates ==
    /\ GateSound(nicRate, NicPps)
    /\ \A c \in Connections : GateSound(qpRates[c], PpsOf(c))
    /\ \A i \in DOMAIN admissions :
         /\ admissions[i].at =< now
         /\ Paid(nicRate, NicPps, i, Len(admissions) - i + 1)
         /\ \A c \in Connections :
              Paid(qpRates[c], PpsOf(c), i, Cardinality(Between(i, Len(admissions), c)))

\* What was admitted since admission i is still in the meter, or had the time to
\* drain.
Meter ==
    /\ meter.remainder < DrainScale
    /\ meter.occupancy = 0 => meter.remainder = 0
    /\ \A i \in DOMAIN admissions :
         /\ admissions[i].at =< now
         /\ BytesBetween(i, Len(admissions)) * DrainScale
              =< (now - admissions[i].at) * DrainRate
                 + meter.occupancy * DrainScale - meter.remainder

\* The responder waits for the successor of what it delivered last; nothing was
\* delivered on a connection it has not seen.
Responder ==
    \A c \in Reliable :
        /\ host[c] # <<>> => qps[c].seen
        /\ \A i \in DOMAIN host[c] :
             /\ i > 1 => host[c][i] = PsnAfter(host[c][i - 1], 1)
             /\ i = Len(host[c]) => qps[c].expected = PsnAfter(host[c][i], 1)

IInv == TypeOK /\ Gates /\ Meter /\ Responder /\ RateCeiling /\ LeakyBucket

----------------------------------------------------------------------------
(* Arithmetic *)

\* A product distributes over a sum and a difference,
LEMMA TimesSum ==
    ASSUME NEW a \in Int, NEW b \in Int, NEW s \in Int
    PROVE  /\ (a + b) * s = a * s + b * s
           /\ (a - b) * s = a * s - b * s
           /\ a * s \in Int
  BY SMT

\* is monotonic in its factors
LEMMA TimesMono ==
    ASSUME NEW a \in Int, NEW b \in Int, NEW s \in Nat, a =< b
    PROVE  a * s =< b * s
  <1>1. (b - a) * s >= 0
    BY SMT
  <1> QED  BY <1>1, TimesSum

\* and no smaller than one of them if the other is at least one.
LEMMA TimesAtLeast ==
    ASSUME NEW a \in Nat \ {0}, NEW s \in Nat
    PROVE  a * s >= s
  <1>1. (a - 1) * s >= 0
    BY SMT
  <1>2. (a - 1) * s = a * s - s
    BY SMT
  <1> QED  BY <1>1, <1>2, TimesSum

\* Quotient and remainder give the number back.
LEMMA Division ==
    ASSUME NEW n \in Nat, NEW d \in Nat \ {0}
    PROVE  /\ n = (n \div d) * d + (n % d)
           /\ n \div d \in Nat /\ n % d \in 0 .. d - 1
  BY SMT

\* The larger of two.
LEMMA MaxOfTwo ==
    ASSUME NEW a \in Int, NEW b \in Int
    PROVE  Max({a, b}) = IF a >= b THEN a ELSE b
  BY DEF Max

----------------------------------------------------------------------------
(* The gates and the meter as operators *)

\* charge: a gate that admits pays for the packet in full, does not fall behind
\* the instant, and is at most the packet ahead of it.
LEMMA ChargePays ==
    ASSUME NEW gate \in Gate, NEW rate \in Nat \ {0}, NEW t \in Nat,
           gate.remainder < rate, gate.free_at =< t
    PROVE  LET g == Charge(gate, rate, 1, t)
           IN  /\ g \in Gate /\ g.remainder < rate
               /\ g.free_at >= t
               /\ Clock(g, rate) >= Clock(gate, rate) + Second
               /\ Clock(g, rate) < (t + 1) * rate + Second
  <1> DEFINE g == Charge(gate, rate, 1, t)
             n == Second + gate.remainder
             d == n \div rate
             r == n % rate
             f == IF t - d > gate.free_at THEN t - d ELSE gate.free_at
  <1>1. /\ gate.free_at \in Nat /\ gate.remainder \in Nat /\ Second \in Nat \ {0}
        /\ n \in Nat
    BY SecondAssumption DEF Gate
  <1>2. n = d * rate + r /\ d \in Nat /\ r \in 0 .. rate - 1
    BY <1>1, Division, Zenon
  <1>3. Max({0, t - d}) = IF 0 >= t - d THEN 0 ELSE t - d
    BY <1>2, MaxOfTwo
  <1>4. Max({gate.free_at, Max({0, t - d})}) = f
    <2>1. Max({0, t - d}) \in Int
      BY <1>2, <1>3
    <2>2. Max({gate.free_at, Max({0, t - d})})
            = IF gate.free_at >= Max({0, t - d}) THEN gate.free_at ELSE Max({0, t - d})
      BY <1>1, <2>1, MaxOfTwo
    <2> HIDE DEF d
    <2> QED  BY <1>1, <1>2, <1>3, <2>2
  <1>5. g = [free_at |-> f + d, remainder |-> r]
    <2>1. 1 * Second + gate.remainder = n
      BY <1>1
    <2>2. DelayFor(gate, rate, 1) = [delay |-> d, remainder |-> r]
      BY <2>1 DEF DelayFor
    <2>3. g = [free_at |-> Max({gate.free_at, Max({0, t - DelayFor(gate, rate, 1).delay})})
                             + DelayFor(gate, rate, 1).delay,
               remainder |-> DelayFor(gate, rate, 1).remainder]
      BY DEF Charge
    <2>4. DelayFor(gate, rate, 1).delay = d /\ DelayFor(gate, rate, 1).remainder = r
      BY <2>2
    <2> HIDE DEF d, r, f, g
    <2> QED  BY <2>3, <2>4, <1>4, Zenon
  <1>6. f \in Nat /\ f >= gate.free_at /\ f >= t - d /\ f =< t
    <2>1. d \in Nat /\ gate.free_at \in Nat
      BY <1>1, <1>2, Zenon
    <2> HIDE DEF d, n
    <2> QED  BY <2>1
  <1> HIDE DEF n, d, r, f, g
  <1>7. g \in Gate /\ g.remainder < rate /\ g.free_at >= t
    BY <1>2, <1>5, <1>6 DEF Gate
  <1>8. Clock(g, rate) = f * rate + n
    <2>1. (f + d) * rate = f * rate + d * rate /\ f * rate \in Int /\ d * rate \in Int
      BY <1>2, <1>6, TimesSum
    <2> QED  BY <2>1, <1>2, <1>5 DEF Clock
  <1>9. gate.free_at * rate =< f * rate /\ f * rate =< t * rate
    BY <1>1, <1>6, TimesMono
  <1>10. (t + 1) * rate = t * rate + rate /\ t * rate \in Int
    BY TimesSum
  <1>11. gate.free_at * rate \in Int /\ f * rate \in Int
    BY <1>1, <1>6, TimesSum
  <1>12. Clock(g, rate) >= Clock(gate, rate) + Second
    BY <1>1, <1>8, <1>9, <1>11 DEF Clock, n
  <1>13. Clock(g, rate) < (t + 1) * rate + Second
    BY <1>1, <1>8, <1>9, <1>10, <1>11 DEF n
  <1> QED  BY <1>7, <1>12, <1>13, Zenon DEF g

\* What is left of o units after e / s of them drained, with the fraction r
\* carried over.
LEMMA Drained ==
    ASSUME NEW o \in Nat, NEW e \in Nat, NEW r \in Nat, NEW s \in Nat \ {0}
    PROVE  LET d == (e + r) \div s
           IN  /\ d \in Nat /\ (e + r) % s \in 0 .. s - 1
               /\ d >= o => o * s - r =< e
               /\ (o - d) * s - ((e + r) % s) = o * s - (e + r)
  <1> DEFINE n == e + r
             d == n \div s
             m == n % s
  <1>1. n \in Nat
    OBVIOUS
  <1> HIDE DEF n
  <1>2. n = d * s + m /\ d \in Nat /\ m \in 0 .. s - 1
    BY <1>1, Division, Zenon
  <1> HIDE DEF d, m
  <1>3. o * s \in Int /\ d * s \in Int /\ (o - d) * s = o * s - d * s
    BY <1>2, TimesSum
  <1>4. d >= o => o * s =< d * s
    BY <1>2, TimesMono
  <1>5. d >= o => o * s - r =< e
    BY <1>2, <1>3, <1>4 DEF n
  <1>6. (o - d) * s - m = o * s - n
    BY <1>1, <1>2, <1>3
  <1> QED  BY <1>2, <1>5, <1>6, Zenon DEF n, d, m

\* drainTo: the meter loses no more than the drain removes in the time, counted
\* in fractions of a byte.
LEMMA DrainBounded ==
    ASSUME TypeOK, Meter, NEW t \in Nat, now =< t
    PROVE  LET m == DrainTo(t)
           IN  /\ m \in [occupancy : Nat, remainder : Nat]
               /\ m.remainder < DrainScale
               /\ m.occupancy = 0 => m.remainder = 0
               /\ meter.occupancy * DrainScale - meter.remainder
                    =< m.occupancy * DrainScale - m.remainder + (t - now) * DrainRate
  <1> DEFINE e == (t - now) * DrainRate
             d == (e + meter.remainder) \div DrainScale
             r == (e + meter.remainder) % DrainScale
  <1>1. /\ meter.occupancy \in Nat /\ meter.remainder \in Nat
        /\ meter.remainder < DrainScale
        /\ DrainScale \in Nat \ {0} /\ DrainRate \in Nat
        /\ meter = [occupancy |-> meter.occupancy, remainder |-> meter.remainder]
    BY RxConfigAssumption, Zenon DEF TypeOK, Meter
  <1>2. e \in Nat
    <2>1. t - now \in Nat
      BY DEF TypeOK
    <2> QED  BY <2>1, <1>1, SMT
  <1>3. DrainTo(t) = IF DrainRate = 0
                     THEN [occupancy |-> meter.occupancy, remainder |-> 0]
                     ELSE IF d >= meter.occupancy
                     THEN [occupancy |-> 0, remainder |-> 0]
                     ELSE [occupancy |-> meter.occupancy - d, remainder |-> r]
    BY <1>1 DEF DrainTo
  <1> HIDE DEF e
  <1>4. /\ d \in Nat /\ r \in 0 .. DrainScale - 1
        /\ d >= meter.occupancy => meter.occupancy * DrainScale - meter.remainder =< e
        /\ (meter.occupancy - d) * DrainScale - r
             = meter.occupancy * DrainScale - (e + meter.remainder)
    BY SMTT(20), <1>1, <1>2, Drained
  <1> HIDE DEF d, r
  <1>5. meter.occupancy * DrainScale \in Int /\ 0 * DrainScale = 0
    BY <1>1, TimesSum
  <1>6. CASE DrainRate = 0
    BY <1>1, <1>2, <1>3, <1>5, <1>6 DEF e
  <1>7. CASE DrainRate # 0 /\ d >= meter.occupancy
    BY <1>1, <1>2, <1>3, <1>4, <1>5, <1>7 DEF e
  <1>8. CASE DrainRate # 0 /\ ~(d >= meter.occupancy)
    <2>1. meter.occupancy - d \in Nat \ {0}
      BY <1>1, <1>4, <1>8
    <2>2. DrainTo(t) = [occupancy |-> meter.occupancy - d, remainder |-> r]
      BY <1>3, <1>8, Zenon
    <2>3. DrainTo(t).occupancy = meter.occupancy - d /\ DrainTo(t).remainder = r
      BY <2>2
    <2>4. meter.occupancy * DrainScale - meter.remainder
            =< (meter.occupancy - d) * DrainScale - r + e
      BY <1>1, <1>2, <1>4, <1>5
    <2>5. DrainTo(t) \in [occupancy : Nat, remainder : Nat]
      BY <1>4, <2>1, <2>2
    <2>6. DrainTo(t).remainder < DrainScale /\ DrainTo(t).occupancy # 0
      BY <1>1, <1>4, <2>1, <2>3
    <2> QED  BY <2>3, <2>4, <2>5, <2>6, ZenonT(30) DEF e
  <1> QED  BY <1>6, <1>7, <1>8, Zenon

----------------------------------------------------------------------------
(* Every state has its declared shape *)

QpType == [seen : BOOLEAN, expected : 0 .. PsnModulus - 1, in_recovery : BOOLEAN]

\* A sequence number is below the modulus,
LEMMA PsnTypes == \A psn \in Psns : psn \in 0 .. PsnModulus - 1
  BY RxConfigAssumption, Zenon

\* and so is its successor.
LEMMA PsnAfterType ==
    ASSUME NEW psn \in 0 .. PsnModulus - 1
    PROVE  PsnAfter(psn, 1) \in 0 .. PsnModulus - 1
  BY PsnAssumption DEF PsnAfter

\* The responder's sequence check keeps the shape of its state.
LEMMA CheckedTypes ==
    ASSUME TypeOK, NEW c \in Connections, NEW psn \in Psns, NEW kind
    PROVE  /\ QpState(qps[c], psn) \in QpType
           /\ Checked(c, psn, kind).qp \in QpType
  <1> DEFINE qp == QpState(qps[c], psn)
  <1>1. qp \in QpType
    BY PsnTypes, Zenon DEF QpState, TypeOK, QpType
  <1> HIDE DEF qp
  <1>2. PsnAfter(qp.expected, 1) \in 0 .. PsnModulus - 1
    BY <1>1, PsnAfterType, Zenon DEF QpType
  <1>3. SequenceCheck(qp, psn, kind).qp \in QpType
    BY <1>1, <1>2, Zenon
       DEF SequenceCheck, InSequence, Duplicate, OutOfSequence, QpType
  <1>4. Checked(c, psn, kind).qp \in {qp, SequenceCheck(qp, psn, kind).qp}
    BY Zenon DEF Checked, qp
  <1> QED  BY <1>1, <1>3, <1>4, Zenon DEF qp

\* A gate that is charged is a gate.
LEMMA ChargeType ==
    ASSUME NEW gate \in Gate, NEW rate \in Nat, NEW t \in Nat,
           GateSound(gate, rate), Admits(gate, rate, t)
    PROVE  Charge(gate, rate, 1, t) \in Gate
  <1>1. CASE rate = 0
    BY <1>1, Zenon DEF Charge
  <1>2. CASE rate # 0
    BY <1>2, ChargePays, Zenon DEF GateSound, Admits, Gate
  <1> QED  BY <1>1, <1>2, Zenon

\* The ceilings are numbers.
LEMMA PpsType == NicPps \in Nat /\ \A c \in Connections : PpsOf(c) \in Nat
  BY RxConfigAssumption, Zenon DEF PpsOf

\* The admissions are a sequence of well-typed records.
LEMMA AdmissionTypes ==
    ASSUME TypeOK
    PROVE  /\ Len(admissions) \in Nat /\ DOMAIN admissions = 1 .. Len(admissions)
           /\ \A i \in DOMAIN admissions : /\ admissions[i] \in Admission
                                           /\ admissions[i].at \in Nat
                                           /\ admissions[i].bytes \in Nat
                                           /\ admissions[i].total \in Nat
           /\ admissions # <<>> => /\ Len(admissions) \in DOMAIN admissions
                                  /\ admissions[Len(admissions)].total \in Nat
  <1>1. Len(admissions) \in Nat /\ DOMAIN admissions = 1 .. Len(admissions)
    BY DEF TypeOK
  <1>2. \A i \in DOMAIN admissions : admissions[i] \in Admission
    BY DEF TypeOK
  <1>3. admissions # <<>> => Len(admissions) \in DOMAIN admissions
    BY DEF TypeOK
  <1> QED  BY <1>1, <1>2, <1>3, Zenon DEF Admission

\* progress keeps the shape of the state,
LEMMA ProgressTypes ==
    ASSUME IInv, NEW t \in Nat, now =< t, Progress(t)
    PROVE  TypeOK'
  BY DrainBounded, Zenon DEF Progress, IInv, TypeOK

\* and so does onPacket, whatever it does with the packet.
LEMMA PacketTypes ==
    ASSUME IInv, NEW t \in Nat, now =< t,
           NEW c \in Connections, NEW psn \in Psns, NEW bytes \in WireBytes, NEW kind,
           OnPacket(c, psn, bytes, kind, t)
    PROVE  TypeOK'
  <1> TypeOK /\ Gates /\ Meter  BY Zenon DEF IInv
  <1> DEFINE m == DrainTo(t)
  <1>1. m \in [occupancy : Nat, remainder : Nat]
    BY DrainBounded, Zenon
  <1>2. now' = t /\ offered' \in Nat
    BY DEF OnPacket, TypeOK
  <1>3. QpState(qps[c], psn) \in QpType /\ Checked(c, psn, kind).qp \in QpType
    BY CheckedTypes, Zenon
  <1>4. CASE MeterDiscard(c, bytes, t)
    BY <1>1, <1>2, <1>4, Zenon DEF MeterDiscard, TypeOK
  <1>5. CASE RateDiscard(c, psn, bytes, t)
    BY <1>1, <1>2, <1>3, <1>5, Zenon DEF RateDiscard, TypeOK, QpType
  <1>6. CASE Admit(c, psn, bytes, kind, t)
    <2> bytes \in Nat  BY RxConfigAssumption, Zenon
    <2>1. meter' \in [occupancy : Nat, remainder : Nat]
      <3>1. meter' = [m EXCEPT !.occupancy = @ + bytes]
        BY <1>6, Zenon DEF Admit
      <3> HIDE DEF m
      <3> QED  BY <1>1, <3>1
    <2>2. nicRate' \in Gate
      BY <1>6, ChargeType, PpsType, Zenon DEF Admit, CeilingsAdmit, Gates, TypeOK
    <2>3. Charge(qpRates[c], PpsOf(c), 1, t) \in Gate
      BY <1>6, ChargeType, PpsType, Zenon DEF Admit, CeilingsAdmit, Gates, TypeOK
    <2>4. qpRates' \in [Connections -> Gate]
      BY <1>6, <2>3, Zenon DEF Admit, TypeOK
    <2>5. qps' \in [Connections -> QpType]
      BY <1>3, <1>6, Zenon DEF Admit, TypeOK, QpType
    <2>6. Admitted \in Nat
      BY AdmissionTypes, Zenon DEF Admitted
    <2>7. admissions' \in Seq(Admission)
      BY <1>6, <2>6 DEF Admit, TypeOK, Admission
    <2>8. host' \in [Connections -> Seq(Psns)]
      BY <1>6 DEF Admit, TypeOK
    <2> QED  BY <1>2, <2>1, <2>2, <2>4, <2>5, <2>7, <2>8, Zenon DEF TypeOK, QpType
  <1> QED  BY <1>4, <1>5, <1>6, Zenon DEF OnPacket

----------------------------------------------------------------------------
(* The leaky bucket *)

\* Time passes and the meter drains; nothing is admitted.
LEMMA DrainStep ==
    ASSUME IInv, NEW t \in Nat, now =< t,
           now' = t, meter' = DrainTo(t), UNCHANGED admissions
    PROVE  Meter' /\ LeakyBucket'
  <1> TypeOK /\ Meter /\ LeakyBucket  BY Zenon DEF IInv
  <1> USE AdmissionTypes
  <1>1. /\ meter' \in [occupancy : Nat, remainder : Nat]
        /\ meter'.remainder < DrainScale
        /\ meter'.occupancy = 0 => meter'.remainder = 0
        /\ meter.occupancy * DrainScale - meter.remainder
             =< meter'.occupancy * DrainScale - meter'.remainder + (t - now) * DrainRate
    BY DrainBounded, Zenon
  <1>2. LeakyBucket'
    BY Zenon DEF LeakyBucket, BytesBetween, Elapsed
  <1>3. ASSUME NEW i \in DOMAIN admissions
        PROVE  /\ admissions[i].at =< t
               /\ BytesBetween(i, Len(admissions)) * DrainScale
                    =< (t - admissions[i].at) * DrainRate
                       + meter'.occupancy * DrainScale - meter'.remainder
    <2> DEFINE a == admissions[i].at
               B == BytesBetween(i, Len(admissions))
    <2>1. a \in Nat /\ a =< now /\ now \in Nat /\ DrainRate \in Nat /\ DrainScale \in Nat
      BY <1>3, RxConfigAssumption, Zenon DEF Meter, TypeOK
    <2>2. B \in Int
      BY <1>3 DEF BytesBetween
    <2>3. B * DrainScale =< (now - a) * DrainRate
                            + meter.occupancy * DrainScale - meter.remainder
      BY <1>3, Zenon DEF Meter
    <2>4. /\ meter.occupancy \in Nat /\ meter.remainder \in Nat
          /\ meter'.occupancy \in Nat /\ meter'.remainder \in Nat
      BY <1>1, Zenon DEF TypeOK
    <2> HIDE DEF a, B
    <2>5. B * DrainScale =< (t - a) * DrainRate
                            + meter'.occupancy * DrainScale - meter'.remainder
      <3> HIDE AdmissionTypes
      <3> DEFINE b == B * DrainScale
                 x == (now - a) * DrainRate
                 y == (t - now) * DrainRate
                 z == (t - a) * DrainRate
                 u == meter.occupancy * DrainScale
                 v == meter'.occupancy * DrainScale
      <3>1. t - a = (now - a) + (t - now) /\ now - a \in Int /\ t - now \in Int
        BY <2>1
      <3>2. /\ z = x + y /\ b \in Int /\ x \in Int /\ y \in Int
            /\ z \in Int /\ u \in Int /\ v \in Int
        BY <2>1, <2>2, <2>4, <3>1, TimesSum
      <3>3. b =< x + u - meter.remainder
        BY <2>3, Zenon
      <3>4. u - meter.remainder =< v - meter'.remainder + y
        BY <1>1, Zenon
      <3> HIDE DEF b, x, y, z, u, v
      <3>5. b =< z + v - meter'.remainder
        BY <2>4, <3>2, <3>3, <3>4
      <3> QED  BY <3>5, Zenon DEF b, z, v
    <2>6. a =< t
      BY <2>1
    <2> QED  BY <2>5, <2>6, Zenon DEF a, B
  <1>4. Meter'
    BY <1>1, <1>3, Zenon DEF Meter, BytesBetween
  <1> QED  BY <1>2, <1>4, Zenon

\* The packet admitted fits in what the meter has left.
LEMMA AdmitMeter ==
    ASSUME IInv, NEW t \in Nat, now =< t, now' = t,
           NEW c \in Connections, NEW psn \in Psns, NEW bytes \in WireBytes, NEW kind,
           Admit(c, psn, bytes, kind, t)
    PROVE  Meter' /\ LeakyBucket'
  <1> TypeOK /\ Meter /\ LeakyBucket  BY Zenon DEF IInv
  <1> USE AdmissionTypes
  <1> DEFINE m == DrainTo(t)
             n == Len(admissions)
             new == [at |-> t, conn |-> c, bytes |-> bytes, total |-> Admitted + bytes]
             bytesTo(i) == admissions'[n + 1].total - admissions'[i].total + admissions'[i].bytes
  <1>1. /\ m \in [occupancy : Nat, remainder : Nat]
        /\ m.remainder < DrainScale
        /\ m.occupancy = 0 => m.remainder = 0
        /\ meter.occupancy * DrainScale - meter.remainder
             =< m.occupancy * DrainScale - m.remainder + (t - now) * DrainRate
    BY DrainBounded, Zenon
  <1>2. bytes \in Nat \ {0} /\ DrainRate \in Nat /\ DrainScale \in Nat \ {0} /\ IngressBytes \in Nat
    BY RxConfigAssumption, Zenon
  <1>3. meter' = [m EXCEPT !.occupancy = @ + bytes]
    BY Zenon DEF Admit
  <1> DEFINE o == m.occupancy
             r == m.remainder
  <1>4. o \in Nat /\ r \in Nat /\ meter'.occupancy = o + bytes /\ meter'.remainder = r
    <2> HIDE DEF m
    <2> QED  BY <1>1, <1>3, Zenon
  <1>5. IngressBytes # 0 => o + bytes =< IngressBytes
    BY <1>2, <1>4 DEF Admit, Overflows
  <1>6. admissions' = Append(admissions, new)
    BY Zenon DEF Admit
  <1> HIDE DEF m, o, r
  <1>7. /\ Len(admissions') = n + 1 /\ DOMAIN admissions' = 1 .. n + 1
        /\ admissions'[n + 1] = new
        /\ \A i \in 1 .. n : admissions'[i] = admissions[i]
    BY <1>6 DEF TypeOK
  <1>8. ASSUME NEW i \in 1 .. n + 1
        PROVE  /\ admissions'[i].at =< t
               /\ bytesTo(i) \in Int
               /\ bytesTo(i) * DrainScale
                    =< (t - admissions'[i].at) * DrainRate + (o + bytes) * DrainScale - r
    <2>1. (o + bytes) * DrainScale = o * DrainScale + bytes * DrainScale
          /\ o * DrainScale \in Int /\ bytes * DrainScale \in Int
      BY <1>2, <1>4, TimesSum
    <2>2. CASE i = n + 1
      <3>1. bytesTo(i) = bytes
        <4>1. admissions'[n + 1].total = Admitted + bytes /\ admissions'[n + 1].bytes = bytes
          BY <1>7
        <4>2. Admitted \in Nat
          BY Zenon DEF Admitted
        <4> QED  BY <1>2, <2>2, <4>1, <4>2
      <3>2. admissions'[i].at = t /\ (t - t) * DrainRate = 0
        BY <1>2, <1>7, <2>2
      <3>3. o * DrainScale >= r
        <4>1. CASE o = 0
          BY <1>1, <1>2, <4>1 DEF o, r
        <4>2. CASE o # 0
          <5>1. o * DrainScale >= DrainScale
            BY <1>2, <1>4, <4>2, TimesAtLeast, Zenon
          <5>2. r < DrainScale
            BY <1>1, Zenon DEF r
          <5> QED  BY <1>2, <1>4, <2>1, <5>1, <5>2
        <4> QED  BY <4>1, <4>2, Zenon
      <3> HIDE AdmissionTypes
      <3>4. /\ bytes * DrainScale =< 0 + (o + bytes) * DrainScale - r
        BY <1>4, <2>1, <3>3
      <3>5. bytes \in Int /\ t =< t
        BY <1>2
      <3> HIDE DEF bytesTo
      <3> QED  BY <3>1, <3>2, <3>4, <3>5, ZenonT(30)
    <2>3. CASE i \in 1 .. n
      <3> DEFINE a == admissions[i].at
                 B == BytesBetween(i, n)
      <3>1. a \in Nat /\ a =< now /\ now \in Nat /\ n \in DOMAIN admissions
        BY <2>3 DEF Meter, TypeOK
      <3>2. B \in Int /\ bytesTo(i) = B + bytes
        <4>1. Admitted = admissions[n].total
          BY <3>1 DEF Admitted
        <4>2. admissions'[n + 1].total = admissions[n].total + bytes
          BY <1>7, <4>1
        <4>3. admissions'[i] = admissions[i]
          BY <1>7, <2>3, Zenon
        <4>4. /\ admissions[n].total \in Nat
              /\ admissions[i].total \in Nat /\ admissions[i].bytes \in Nat
          BY <2>3, <3>1, Zenon
        <4>5. B = admissions[n].total - admissions[i].total + admissions[i].bytes
          BY Zenon DEF BytesBetween
        <4>6. bytesTo(i) = (admissions[n].total + bytes) - admissions[i].total + admissions[i].bytes
          BY <4>2, <4>3, ZenonT(30)
        <4> HIDE AdmissionTypes DEF B, n, bytesTo
        <4> QED  BY <1>2, <4>4, <4>5, <4>6
      <3>3. B * DrainScale =< (now - a) * DrainRate
                              + meter.occupancy * DrainScale - meter.remainder
        BY <2>3, Zenon DEF Meter
      <3>4. admissions'[i].at = a
        BY <1>7, <2>3, Zenon
      <3> HIDE DEF a, B
      <3>5. meter.occupancy \in Nat /\ meter.remainder \in Nat /\ DrainScale \in Nat
        BY <1>2, Zenon DEF TypeOK
      <3>6. meter.occupancy * DrainScale - meter.remainder
             =< o * DrainScale - r + (t - now) * DrainRate
        BY <1>1, Zenon DEF o, r
      <3>7. B * DrainScale =< (t - a) * DrainRate + o * DrainScale - r
        <4> HIDE AdmissionTypes
        <4> DEFINE b == B * DrainScale
                   x == (now - a) * DrainRate
                   y == (t - now) * DrainRate
                   z == (t - a) * DrainRate
                   u == meter.occupancy * DrainScale
                   v == o * DrainScale
        <4>1. t - a = (now - a) + (t - now) /\ now - a \in Int /\ t - now \in Int
          BY <3>1
        <4>2. z = x + y /\ x \in Int /\ y \in Int /\ z \in Int
          BY <1>2, <4>1, TimesSum
        <4>3. b \in Int /\ u \in Int /\ v \in Int
          BY SMTT(20), <1>4, <3>2, <3>5, TimesSum
        <4>4. b =< x + u - meter.remainder
          BY <3>3, Zenon
        <4>5. u - meter.remainder =< v - r + y
          BY <3>6, Zenon
        <4> HIDE DEF b, x, y, z, u, v
        <4>6. b =< z + v - r
          BY <1>4, <3>5, <4>2, <4>4, <4>5, <4>3
        <4> QED  BY <4>6, Zenon DEF b, z, v
      <3>8. (B + bytes) * DrainScale =< (t - a) * DrainRate + (o + bytes) * DrainScale - r
        <4> DEFINE x == B * DrainScale
                   y == bytes * DrainScale
                   z == (t - a) * DrainRate
                   u == o * DrainScale
        <4>1. (B + bytes) * DrainScale = x + y /\ (o + bytes) * DrainScale = u + y
          BY <1>2, <1>4, <3>2, TimesSum
        <4>2. x \in Int /\ y \in Int /\ u \in Int
          BY <1>2, <1>4, <3>2, TimesSum
        <4>3. z \in Int
          <5>1. t - a \in Int /\ DrainRate \in Int
            BY <1>2, <3>1
          <5> QED  BY <5>1, TimesSum, Zenon
        <4>4. x =< z + u - r
          BY <3>7, Zenon
        <4> HIDE DEF x, y, z, u
        <4>5. x + y =< z + (u + y) - r
          BY SMTT(20), <1>4, <4>2, <4>3, <4>4
        <4> QED  BY <4>1, <4>5, Zenon DEF z
      <3> QED  BY SMTT(20), <1>2, <3>1, <3>2, <3>4, <3>8
    <2> QED  BY <2>2, <2>3
  <1>9. Meter'
    <2>1. meter'.remainder < DrainScale /\ meter'.occupancy # 0
      BY <1>1, <1>2, <1>4 DEF r
    <2>2. ASSUME NEW i \in DOMAIN admissions'
          PROVE  /\ admissions'[i].at =< now'
                 /\ BytesBetween(i, Len(admissions))' * DrainScale
                      =< (now' - admissions'[i].at) * DrainRate
                         + meter'.occupancy * DrainScale - meter'.remainder
      <3>1. BytesBetween(i, Len(admissions))' = bytesTo(i)
        BY <1>7, Zenon DEF BytesBetween
      <3>2. i \in 1 .. n + 1
        BY <1>7, <2>2, Zenon
      <3> HIDE DEF bytesTo
      <3> QED  BY <1>4, <1>8, <3>1, <3>2, ZenonT(30)
    <2> QED  BY <2>1, <2>2, Zenon DEF Meter
  <1>10. ASSUME IngressBytes # 0, NEW i \in 1 .. n + 1
         PROVE  (bytesTo(i) - IngressBytes) * DrainScale
                  =< (t - admissions'[i].at) * DrainRate
    <2>1. (o + bytes) * DrainScale =< IngressBytes * DrainScale
      BY <1>2, <1>4, <1>5, <1>10, TimesMono
    <2> HIDE AdmissionTypes
    <2> DEFINE B == bytesTo(i)
    <2>2. B \in Int
      BY <1>8, Zenon
    <2> HIDE DEF bytesTo, B
    <2>3. /\ B \in Int /\ (B - IngressBytes) * DrainScale = B * DrainScale - IngressBytes * DrainScale
          /\ B * DrainScale \in Int /\ IngressBytes * DrainScale \in Int
          /\ (o + bytes) * DrainScale \in Int
      BY <1>2, <1>4, <2>2, TimesSum
    <2>4. admissions'[i].at \in Nat
      <3>1. CASE i = n + 1
        BY <1>7, <3>1
      <3>2. CASE i \in 1 .. n
        BY <1>7, <3>2, AdmissionTypes, Zenon
      <3> QED  BY <3>1, <3>2
    <2>5. (t - admissions'[i].at) * DrainRate \in Int
      BY <1>2, <2>4, TimesSum
    <2>6. B * DrainScale =< (t - admissions'[i].at) * DrainRate + (o + bytes) * DrainScale - r
      BY <1>8, Zenon DEF B
    <2> QED  BY <1>4, <2>1, <2>3, <2>5, <2>6 DEF B
  <1>11. LeakyBucket'
    <2> SUFFICES ASSUME IngressBytes # 0, NEW i \in 1 .. n + 1, NEW j \in 1 .. n + 1, i =< j
                 PROVE  (BytesBetween(i, j)' - IngressBytes) * DrainScale
                          =< Elapsed(i, j)' * DrainRate
      BY <1>7, Zenon DEF LeakyBucket
    <2>1. CASE j = n + 1
      <3>1. Elapsed(i, j)' = t - admissions'[i].at
        BY <1>7, <2>1 DEF Elapsed
      <3>2. BytesBetween(i, j)' = bytesTo(i)
        BY <2>1, Zenon DEF BytesBetween
      <3> HIDE DEF bytesTo
      <3> QED  BY <1>10, <3>1, <3>2, ZenonT(30)
    <2>2. CASE j \in 1 .. n
      <3>1. i \in 1 .. n
        BY <2>2
      <3>2. BytesBetween(i, j)' = BytesBetween(i, j) /\ Elapsed(i, j)' = Elapsed(i, j)
        BY <1>7, <2>2, <3>1, Zenon DEF BytesBetween, Elapsed
      <3> QED  BY <2>2, <3>1, <3>2, Zenon DEF LeakyBucket
    <2> QED  BY <2>1, <2>2
  <1> QED  BY <1>9, <1>11, Zenon

----------------------------------------------------------------------------
(* The ceilings *)

\* A gate that has paid for all but one of k packets, and is at most one ahead of
\* now, kept them below its ceiling.
LEMMA PaidBounds ==
    ASSUME NEW k \in Nat, NEW a \in Nat, NEW t \in Nat, a =< t, NEW rate \in Nat \ {0},
           NEW clock \in Int, clock < (t + 1) * rate + Second,
           k # 0 => (k - 1) * Second + a * rate =< clock
    PROVE  (k - 2) * Second < rate * (t - a + 1)
  <1> DEFINE x == (k - 2) * Second
             y == (t - a + 1) * rate
  <1>1. Second \in Nat \ {0}
    BY SecondAssumption, Zenon
  <1>2. x \in Int /\ (k - 1) * Second = x + Second
    <2>1. k - 1 = (k - 2) + 1 /\ k - 2 \in Int
      OBVIOUS
    <2> QED  BY <1>1, <2>1, TimesSum
  <1>3. y \in Int /\ y = (t + 1) * rate - a * rate /\ a * rate \in Int /\ (t + 1) * rate \in Int
    <2>1. t - a + 1 = (t + 1) - a /\ t + 1 \in Int
      OBVIOUS
    <2> QED  BY <2>1, TimesSum
  <1>4. rate * (t - a + 1) = y
    BY SMT
  <1>5. CASE k = 0
    <2>1. (k - 2) * Second < 0
      <3>1. (0 - 2) * Second = 0 - (Second + Second)
        BY <1>1, SMT
      <3> QED  BY <1>1, <1>5, <3>1
    <2>2. y >= 0
      <3>1. t - a + 1 \in Nat
        OBVIOUS
      <3> QED  BY <3>1, SMT
    <2> HIDE DEF y
    <2> QED  BY <1>2, <1>3, <1>4, <2>1, <2>2
  <1>6. CASE k # 0
    <2>1. x + Second + a * rate =< clock
      BY <1>2, <1>6, Zenon
    <2> HIDE DEF x, y
    <2>2. x < y
      BY <1>1, <1>2, <1>3, <2>1
    <2> QED  BY <1>4, <2>2, Zenon DEF x
  <1> QED  BY <1>5, <1>6, Zenon

\* A gate that is charged has paid for one packet more.
LEMMA PaidMore ==
    ASSUME NEW k \in Nat, NEW a \in Nat, NEW t \in Nat, a =< t, NEW rate \in Nat \ {0},
           NEW gate \in Gate, gate.remainder < rate, gate.free_at =< t,
           k # 0 => (k - 1) * Second + a * rate =< Clock(gate, rate)
    PROVE  k * Second + a * rate =< Clock(Charge(gate, rate, 1, t), rate)
  <1> DEFINE g == Charge(gate, rate, 1, t)
             x == k * Second
             y == a * rate
  <1>1. /\ g \in Gate /\ g.free_at >= t
        /\ Clock(g, rate) >= Clock(gate, rate) + Second
    BY ChargePays, Zenon
  <1> HIDE DEF g
  <1>2. g.free_at \in Nat /\ g.remainder \in Nat /\ Second \in Nat
    BY <1>1, SecondAssumption, Zenon DEF Gate
  <1>3. g.free_at * rate \in Int /\ y =< g.free_at * rate /\ y \in Int /\ x \in Int
    BY <1>1, <1>2, TimesSum, TimesMono
  <1>4. Clock(g, rate) \in Int /\ Clock(gate, rate) \in Int
    <2>1. gate.free_at \in Nat /\ gate.remainder \in Nat
      BY Zenon DEF Gate
    <2>2. gate.free_at * rate \in Int
      BY <2>1, TimesSum
    <2> QED  BY <1>2, <1>3, <2>1, <2>2 DEF Clock
  <1>5. CASE k = 0
    <2>1. x = 0
      BY <1>2, <1>5
    <2>2. y =< Clock(g, rate)
      <3> HIDE DEF y
      <3> QED  BY <1>2, <1>3 DEF Clock
    <2> HIDE DEF x, y
    <2> QED  BY <1>3, <2>1, <2>2 DEF x, y, g
  <1>6. CASE k # 0
    <2>1. (k - 1) * Second = x - Second
      BY <1>2, TimesSum
    <2>2. (x - Second) + y =< Clock(gate, rate)
      BY <1>6, <2>1, Zenon
    <2> HIDE DEF x, y
    <2>3. x + y =< Clock(g, rate)
      BY <1>1, <1>2, <1>3, <1>4, <2>2
    <2> QED  BY <2>3, Zenon DEF x, y, g
  <1> QED  BY <1>5, <1>6, Zenon

\* The virtual clock of a gate is a number.
LEMMA ClockType ==
    ASSUME NEW gate \in Gate, NEW rate \in Nat
    PROVE  Clock(gate, rate) \in Int
  <1>1. gate.free_at \in Nat /\ gate.remainder \in Nat
    BY Zenon DEF Gate
  <1>2. gate.free_at * rate \in Int
    BY <1>1, TimesSum
  <1> QED  BY <1>1, <1>2 DEF Clock

\* A gate left alone stays sound as time passes.
LEMMA SoundLater ==
    ASSUME NEW gate \in Gate, NEW rate \in Nat, NEW p \in Nat, NEW q \in Nat, p =< q,
           rate # 0 => gate.remainder < rate /\ Clock(gate, rate) < (p + 1) * rate + Second
    PROVE  rate # 0 => gate.remainder < rate /\ Clock(gate, rate) < (q + 1) * rate + Second
  <1> DEFINE x == (p + 1) * rate
             y == (q + 1) * rate
  <1>1. x =< y /\ x \in Int /\ y \in Int
    <2>1. p + 1 \in Int /\ q + 1 \in Int /\ p + 1 =< q + 1
      OBVIOUS
    <2> QED  BY <2>1, TimesSum, TimesMono
  <1>2. Clock(gate, rate) \in Int
    BY ClockType, Zenon
  <1>3. rate # 0 => gate.remainder < rate /\ Clock(gate, rate) < x + Second
    OBVIOUS
  <1> HIDE DEF x, y
  <1>4. rate # 0 => gate.remainder < rate /\ Clock(gate, rate) < y + Second
    BY <1>1, <1>2, <1>3, SecondAssumption
  <1> QED  BY <1>4, Zenon DEF y

\* Time passes and no gate is charged.
LEMMA GatesStay ==
    ASSUME IInv, NEW t \in Nat, now =< t, now' = t,
           UNCHANGED <<nicRate, qpRates, admissions>>
    PROVE  Gates' /\ RateCeiling'
  <1> TypeOK /\ Gates /\ RateCeiling  BY Zenon DEF IInv
  <1>1. RateCeiling'
    BY DEF RateCeiling, Between, Elapsed
  <1>2. GateSound(nicRate, NicPps)'
    BY SoundLater, PpsType, Zenon DEF Gates, GateSound, TypeOK
  <1>3. \A c \in Connections : GateSound(qpRates[c], PpsOf(c))'
    <2> TAKE c \in Connections
    <2>1. qpRates[c] \in Gate /\ PpsOf(c) \in Nat /\ GateSound(qpRates[c], PpsOf(c))
      BY PpsType, Zenon DEF Gates, TypeOK
    <2> QED  BY <2>1, SoundLater, Zenon DEF GateSound, TypeOK
  <1>4. \A i \in DOMAIN admissions :
           /\ admissions[i].at =< t
           /\ Paid(nicRate, NicPps, i, Len(admissions) - i + 1)'
           /\ \A c \in Connections :
                Paid(qpRates[c], PpsOf(c), i, Cardinality(Between(i, Len(admissions), c)))'
    <2> TAKE i \in DOMAIN admissions
    <2>1. admissions[i].at =< t
      <3>1. admissions[i].at \in Nat /\ admissions[i].at =< now /\ now \in Nat
        BY AdmissionTypes, Zenon DEF Gates, TypeOK
      <3> QED  BY <3>1
    <2> QED  BY <2>1, Zenon DEF Gates, Paid, Between
  <1> QED  BY <1>1, <1>2, <1>3, <1>4, Zenon DEF Gates

\* The admissions in a stretch are finitely many.
LEMMA BetweenCounts ==
    ASSUME NEW i \in Int, NEW j \in Int, NEW c
    PROVE  IsFiniteSet(Between(i, j, c)) /\ Cardinality(Between(i, j, c)) \in Nat
  <1>1. IsFiniteSet(i .. j)
    BY FS_Interval, Zenon
  <1> QED  BY <1>1, FS_Subset, FS_CardinalityType, Zenon DEF Between

\* The admissions of a connection, counted before and after one more.
LEMMA OneMore ==
    ASSUME TypeOK, NEW n, n = Len(admissions), NEW a \in Admission,
           admissions' = Append(admissions, a),
           NEW i \in 1 .. n + 1, NEW c \in Connections
    PROVE  LET K == Cardinality(Between(i, n, c))
           IN  /\ K \in Nat
               /\ i = n + 1 => K = 0
               /\ Cardinality(Between(i, n + 1, c)') = IF a.conn = c THEN K + 1 ELSE K
  <1> DEFINE later == {x \in i .. n + 1 : admissions'[x].conn = c}
             before == {x \in i .. n : admissions[x].conn = c}
  <1>1. n \in Nat /\ IsFiniteSet(before) /\ Cardinality(before) \in Nat
    <2>1. n \in Nat
      BY DEF TypeOK
    <2>2. before = Between(i, n, c)
      BY Zenon DEF Between
    <2>3. i \in Int /\ n \in Int
      BY <2>1
    <2> HIDE DEF before
    <2> QED  BY <2>1, <2>2, <2>3, BetweenCounts, Zenon
  <1>2. /\ admissions'[n + 1] = a
        /\ \A x \in 1 .. n : admissions'[x] = admissions[x]
    BY DEF TypeOK
  <1>3. n + 1 \notin before
    BY <1>1
  <1>4. later = IF a.conn = c THEN before \cup {n + 1} ELSE before
    <2>1. \A x \in i .. n : x \in 1 .. n /\ x # n + 1
      BY <1>1
    <2>2. i .. n + 1 = (i .. n) \cup {n + 1}
      BY <1>1
    <2> QED  BY <1>2, <2>1, <2>2
  <1>5. i = n + 1 => before = {}
    BY <1>1
  <1>6. Cardinality({}) = 0
    BY FS_EmptySet, Zenon
  <1>7. Cardinality(before \cup {n + 1}) = Cardinality(before) + 1
    BY <1>1, <1>3, FS_AddElement, Zenon
  <1>8. before = Between(i, n, c) /\ later = Between(i, n + 1, c)'
    BY Zenon DEF Between
  <1> HIDE DEF later, before
  <1> QED  BY <1>1, <1>4, <1>5, <1>6, <1>7, <1>8, Zenon

\* A charged gate is sound at the instant of the packet.
LEMMA SoundCharged ==
    ASSUME NEW gate \in Gate, NEW rate \in Nat, NEW t \in Nat,
           GateSound(gate, rate), Admits(gate, rate, t)
    PROVE  LET g == Charge(gate, rate, 1, t)
           IN  rate # 0 => g.remainder < rate /\ Clock(g, rate) < (t + 1) * rate + Second
  <1> SUFFICES ASSUME rate # 0
               PROVE  LET g == Charge(gate, rate, 1, t)
                      IN  g.remainder < rate /\ Clock(g, rate) < (t + 1) * rate + Second
    OBVIOUS
  <1>1. gate.remainder < rate /\ gate.free_at =< t
    BY Zenon DEF GateSound, Admits, Gate
  <1> QED  BY <1>1, ChargePays, ZenonT(30)

\* An admission charges the gate of the card and the one of its connection.
LEMMA AdmitGates ==
    ASSUME IInv, TypeOK', NEW t \in Nat, now =< t, now' = t,
           NEW c \in Connections, NEW psn \in Psns, NEW bytes \in WireBytes, NEW kind,
           Admit(c, psn, bytes, kind, t)
    PROVE  Gates' /\ RateCeiling'
  <1> TypeOK /\ Gates /\ RateCeiling  BY Zenon DEF IInv
  <1> DEFINE new == [at |-> t, conn |-> c, bytes |-> bytes, total |-> Admitted + bytes]
  <1>1. PICK n \in Nat : n = Len(admissions)
    BY AdmissionTypes, Zenon
  <1>2. /\ CeilingsAdmit(c, t)
        /\ nicRate' = Charge(nicRate, NicPps, 1, t)
        /\ qpRates' = [qpRates EXCEPT ![c] = Charge(qpRates[c], PpsOf(c), 1, t)]
        /\ admissions' = Append(admissions, new)
    BY Zenon DEF Admit
  <1>3. new \in Admission /\ new.at = t /\ new.conn = c
    BY AdmissionTypes, RxConfigAssumption DEF Admission, Admitted
  <1> HIDE DEF new
  <1>4. /\ Len(admissions') = n + 1 /\ DOMAIN admissions' = 1 .. n + 1
        /\ DOMAIN admissions = 1 .. n
        /\ admissions'[n + 1] = new
        /\ \A i \in 1 .. n : admissions'[i] = admissions[i]
    BY <1>1, <1>2 DEF TypeOK
  <1>5. /\ NicPps \in Nat /\ nicRate \in Gate /\ nicRate' \in Gate
        /\ \A d \in Connections : /\ PpsOf(d) \in Nat
                                  /\ qpRates[d] \in Gate /\ qpRates'[d] \in Gate
    BY PpsType, Zenon DEF TypeOK
  <1>6. /\ qpRates'[c] = Charge(qpRates[c], PpsOf(c), 1, t)
        /\ \A d \in Connections \ {c} : qpRates'[d] = qpRates[d]
    BY <1>2, Zenon DEF TypeOK
  <1>7. Admits(nicRate, NicPps, t) /\ Admits(qpRates[c], PpsOf(c), t)
    BY <1>2, Zenon DEF CeilingsAdmit
  <1>8. GateSound(nicRate, NicPps) /\ \A d \in Connections : GateSound(qpRates[d], PpsOf(d))
    BY Zenon DEF Gates
  <1>9. NicPps # 0 => /\ nicRate'.remainder < NicPps
                      /\ Clock(nicRate', NicPps) < (t + 1) * NicPps + Second
    BY <1>2, <1>5, <1>7, <1>8, SoundCharged, Zenon
  <1>10. ASSUME NEW d \in Connections
        PROVE  PpsOf(d) # 0 => /\ qpRates'[d].remainder < PpsOf(d)
                               /\ Clock(qpRates'[d], PpsOf(d)) < (t + 1) * PpsOf(d) + Second
    <2>1. CASE d = c
      BY <1>5, <1>6, <1>7, <1>8, <2>1, SoundCharged, Zenon
    <2>2. CASE d # c
      BY <1>5, <1>6, <1>8, <2>2, SoundLater, Zenon DEF GateSound, TypeOK
    <2> QED  BY <2>1, <2>2, Zenon
  <1>11. ASSUME NEW i \in 1 .. n + 1
         PROVE  admissions'[i].at \in Nat /\ admissions'[i].at =< t
    <2>1. CASE i = n + 1
      BY <1>3, <1>4, <2>1
    <2>2. CASE i \in 1 .. n
      <3>1. admissions[i].at \in Nat /\ admissions[i].at =< now /\ now \in Nat
        BY <1>4, <2>2, AdmissionTypes, Zenon DEF Gates, TypeOK
      <3> QED  BY <1>4, <2>2, <3>1
    <2> QED  BY <2>1, <2>2
  <1>12. ASSUME NEW i \in 1 .. n + 1, NicPps # 0
         PROVE  (n + 1 - i) * Second + admissions'[i].at * NicPps =< Clock(nicRate', NicPps)
    <2> DEFINE k == n + 1 - i
               a == admissions'[i].at
    <2>1. k \in Nat /\ a \in Nat /\ a =< t
      BY <1>11, <1>12
    <2>2. nicRate.remainder < NicPps /\ nicRate.free_at =< t
      BY <1>5, <1>7, <1>8, <1>12, Zenon DEF GateSound, Admits, Gate
    <2>3. k # 0 => (k - 1) * Second + a * NicPps =< Clock(nicRate, NicPps)
      <3> SUFFICES ASSUME k # 0
                   PROVE  (k - 1) * Second + a * NicPps =< Clock(nicRate, NicPps)
        OBVIOUS
      <3>1. i \in 1 .. n /\ n - i + 1 = k
        OBVIOUS
      <3>2. Paid(nicRate, NicPps, i, n - i + 1) /\ a = admissions[i].at
        BY <1>1, <1>4, <3>1, Zenon DEF Gates
      <3> HIDE DEF k, a
      <3> QED  BY <1>12, <3>1, <3>2, ZenonT(30) DEF Paid
    <2> HIDE DEF k, a
    <2>4. k * Second + a * NicPps =< Clock(Charge(nicRate, NicPps, 1, t), NicPps)
      BY <1>5, <1>12, <2>1, <2>2, <2>3, PaidMore, Zenon
    <2> QED  BY <1>2, <2>4, Zenon DEF k, a
  <1>13. ASSUME NEW i \in 1 .. n + 1, NEW d \in Connections, PpsOf(d) # 0
         PROVE  LET k == Cardinality(Between(i, n + 1, d)')
                IN  /\ k \in Nat
                    /\ k # 0 => (k - 1) * Second + admissions'[i].at * PpsOf(d)
                                  =< Clock(qpRates'[d], PpsOf(d))
    <2> DEFINE K == Cardinality(Between(i, n, d))
               k == Cardinality(Between(i, n + 1, d)')
               a == admissions'[i].at
    <2>1. K \in Nat /\ (i = n + 1 => K = 0) /\ k = IF c = d THEN K + 1 ELSE K
      <3>1. K \in Nat /\ (i = n + 1 => K = 0) /\ k = IF new.conn = d THEN K + 1 ELSE K
        BY <1>1, <1>2, <1>3, <1>13, OneMore
      <3> HIDE DEF K, k
      <3> QED  BY <1>3, <3>1, Zenon
    <2>2. K # 0 => (K - 1) * Second + a * PpsOf(d) =< Clock(qpRates[d], PpsOf(d))
      <3> SUFFICES ASSUME K # 0
                   PROVE  (K - 1) * Second + a * PpsOf(d) =< Clock(qpRates[d], PpsOf(d))
        OBVIOUS
      <3>1. i \in 1 .. n
        BY <2>1
      <3>2. Paid(qpRates[d], PpsOf(d), i, Cardinality(Between(i, n, d))) /\ a = admissions[i].at
        BY <1>1, <1>4, <3>1, Zenon DEF Gates
      <3> HIDE DEF a
      <3> QED  BY <1>13, <3>1, <3>2, ZenonT(30) DEF Paid
    <2>3. a \in Nat /\ a =< t
      BY <1>11, <1>13, Zenon
    <2> HIDE DEF K, k, a
    <2>4. CASE c = d
      <3>1. k = K + 1 /\ k - 1 = K
        BY <2>1, <2>4
      <3>2. qpRates[d].remainder < PpsOf(d) /\ qpRates[d].free_at =< t
        BY <1>5, <1>7, <1>8, <1>13, <2>4, Zenon DEF GateSound, Admits, Gate
      <3>3. K * Second + a * PpsOf(d) =< Clock(Charge(qpRates[d], PpsOf(d), 1, t), PpsOf(d))
        BY <1>5, <1>13, <2>1, <2>2, <2>3, <3>2, PaidMore
      <3>4. (k - 1) * Second + a * PpsOf(d) =< Clock(qpRates'[d], PpsOf(d))
        BY <1>6, <2>4, <3>1, <3>3, Zenon
      <3> QED  BY <2>1, <3>1, <3>4 DEF k, a
    <2>5. CASE c # d
      BY <1>6, <2>1, <2>2, <2>5, Zenon DEF k, a
    <2> QED  BY <2>4, <2>5, Zenon
  <1>14. Gates'
    <2>1. GateSound(nicRate, NicPps)' /\ \A d \in Connections : GateSound(qpRates[d], PpsOf(d))'
      BY <1>9, <1>10, Zenon DEF GateSound
    <2>2. ASSUME NEW i \in 1 .. n + 1
          PROVE  Paid(nicRate, NicPps, i, Len(admissions) - i + 1)'
      <3>1. Len(admissions') - i + 1 - 1 = n + 1 - i
        BY <1>4
      <3> SUFFICES ASSUME NicPps # 0
                   PROVE  (n + 1 - i) * Second + admissions'[i].at * NicPps
                            =< Clock(nicRate', NicPps)
        BY <3>1 DEF Paid
      <3> QED  BY <1>12, <2>2, Zenon
    <2>3. ASSUME NEW i \in 1 .. n + 1, NEW d \in Connections
          PROVE  Paid(qpRates[d], PpsOf(d), i, Cardinality(Between(i, Len(admissions), d)))'
      <3>1. Between(i, Len(admissions), d)' = Between(i, n + 1, d)'
        BY <1>4, Zenon DEF Between
      <3> QED  BY <1>13, <2>3, <3>1, Zenon DEF Paid
    <2> QED  BY <1>4, <1>11, <2>1, <2>2, <2>3, Zenon DEF Gates
  <1>15. RateCeiling'
    <2> SUFFICES ASSUME NEW i \in 1 .. n + 1, NEW j \in 1 .. n + 1, i < j
                 PROVE  /\ \A d \in Connections : PpsOf(d) # 0 =>
                             (Cardinality(Between(i, j, d)') - 2) * Second
                                < PpsOf(d) * (Elapsed(i, j)' + 1)
                        /\ NicPps # 0 =>
                             (j - i - 1) * Second < NicPps * (Elapsed(i, j)' + 1)
      BY <1>4, Zenon DEF RateCeiling
    <2>1. CASE j \in 1 .. n
      <3>1. i \in 1 .. n
        BY <2>1
      <3>2. Elapsed(i, j)' = Elapsed(i, j)
        BY <1>4, <2>1, <3>1, Zenon DEF Elapsed
      <3>3. \A d \in Connections : Between(i, j, d)' = Between(i, j, d)
        <4>1. \A x \in i .. j : x \in 1 .. n
          BY <2>1, <3>1
        <4> QED  BY <1>4, <4>1, Zenon DEF Between
      <3> QED  BY <1>4, <2>1, <3>1, <3>2, <3>3, Zenon DEF RateCeiling
    <2>2. CASE j = n + 1
      <3> DEFINE a == admissions'[i].at
      <3>1. Elapsed(i, j)' = t - a
        BY <1>3, <1>4, <2>2, Zenon DEF Elapsed
      <3>2. a \in Nat /\ a =< t
        BY <1>11, Zenon
      <3>3. /\ Clock(nicRate', NicPps) \in Int
            /\ \A d \in Connections : Clock(qpRates'[d], PpsOf(d)) \in Int
        BY <1>5, ClockType, Zenon
      <3> HIDE DEF a
      <3>4. ASSUME NicPps # 0
            PROVE  (j - i - 1) * Second < NicPps * (Elapsed(i, j)' + 1)
        <4> DEFINE k == n + 2 - i
        <4>1. k \in Nat /\ k - 1 = n + 1 - i /\ k - 2 = j - i - 1
          BY <2>2
        <4>2. (k - 1) * Second + a * NicPps =< Clock(nicRate', NicPps)
          BY <1>12, <3>4, <4>1, Zenon DEF a
        <4> HIDE DEF k
        <4>3. (k - 2) * Second < NicPps * (t - a + 1)
          BY <1>5, <1>9, <3>2, <3>3, <3>4, <4>1, <4>2, PaidBounds, Zenon
        <4> QED  BY <3>1, <4>1, <4>3, Zenon
      <3>5. ASSUME NEW d \in Connections, PpsOf(d) # 0
            PROVE  (Cardinality(Between(i, j, d)') - 2) * Second < PpsOf(d) * (Elapsed(i, j)' + 1)
        <4> DEFINE k == Cardinality(Between(i, n + 1, d)')
        <4>1. k \in Nat
          BY <1>13, <3>5, Zenon
        <4>2. k # 0 => (k - 1) * Second + a * PpsOf(d) =< Clock(qpRates'[d], PpsOf(d))
          BY <1>13, <3>5, Zenon DEF a
        <4> HIDE DEF k
        <4>3. (k - 2) * Second < PpsOf(d) * (t - a + 1)
          BY <1>5, <1>10, <3>2, <3>3, <3>5, <4>1, <4>2, PaidBounds, Zenon
        <4> QED  BY <2>2, <3>1, <4>3, Zenon DEF k
      <3> QED  BY <3>4, <3>5, Zenon
    <2> QED  BY <2>1, <2>2
  <1> QED  BY <1>14, <1>15, Zenon

----------------------------------------------------------------------------
(* The responder *)

\* A packet that is delivered is the expected one, and the next is expected then;
\* any other leaves the expected number alone.
LEMMA CheckedDelivers ==
    ASSUME TypeOK, NEW c \in Reliable, NEW psn \in Psns, NEW kind
    PROVE  LET qp == QpState(qps[c], psn)
               checked == Checked(c, psn, kind)
           IN  /\ checked.qp.seen
               /\ qps[c].seen => qp.expected = qps[c].expected
               /\ IF checked.result.what = "Delivered"
                  THEN psn = qp.expected /\ checked.qp.expected = PsnAfter(psn, 1)
                  ELSE checked.qp.expected = qp.expected
  <1> DEFINE qp == QpState(qps[c], psn)
  <1>1. c \in Connections
    BY RxConfigAssumption, Zenon
  <1>2. qp \in QpType /\ qp.seen /\ (qps[c].seen => qp = qps[c])
    BY <1>1, CheckedTypes, Zenon DEF QpState, TypeOK, QpType
  <1>3. Checked(c, psn, kind) = SequenceCheck(qp, psn, kind)
    BY Zenon DEF Checked
  <1> HIDE DEF qp
  <1>4. LET checked == SequenceCheck(qp, psn, kind)
        IN  /\ checked.qp.seen
            /\ IF checked.result.what = "Delivered"
               THEN psn = qp.expected /\ checked.qp.expected = PsnAfter(psn, 1)
               ELSE checked.qp.expected = qp.expected
    BY <1>2, Zenon
       DEF SequenceCheck, InSequence, Duplicate, OutOfSequence, Result, QpType
  <1> QED  BY <1>2, <1>3, <1>4, Zenon DEF qp

\* Nothing is delivered, and a connection once seen expects what it expected.
LEMMA SameResponder ==
    ASSUME TypeOK, Responder, UNCHANGED host,
           \A c \in Reliable : qps[c].seen => qps'[c].seen /\ qps'[c].expected = qps[c].expected
    PROVE  Responder'
  <1> SUFFICES ASSUME NEW c \in Reliable
               PROVE  /\ host[c] # <<>> => qps'[c].seen
                      /\ \A i \in DOMAIN host[c] :
                           /\ i > 1 => host[c][i] = PsnAfter(host[c][i - 1], 1)
                           /\ i = Len(host[c]) => qps'[c].expected = PsnAfter(host[c][i], 1)
    BY Zenon DEF Responder
  <1>1. host[c] # <<>> => qps[c].seen
    BY Zenon DEF Responder
  <1>2. CASE host[c] = <<>>
    BY <1>2
  <1>3. CASE host[c] # <<>>
    BY <1>1, <1>3, Zenon DEF Responder
  <1> QED  BY <1>2, <1>3, Zenon

\* onPacket delivers the successor of the last delivery, or nothing.
LEMMA ResponderStep ==
    ASSUME IInv, NEW t \in Nat,
           NEW c \in Connections, NEW psn \in Psns, NEW bytes \in WireBytes, NEW kind,
           OnPacket(c, psn, bytes, kind, t)
    PROVE  Responder'
  <1> TypeOK /\ Responder  BY Zenon DEF IInv
  <1> Reliable \subseteq Connections  BY RxConfigAssumption, Zenon
  <1>1. CASE MeterDiscard(c, bytes, t)
    BY <1>1, SameResponder, Zenon DEF MeterDiscard
  <1>2. CASE RateDiscard(c, psn, bytes, t)
    BY <1>2, SameResponder, Zenon DEF RateDiscard, QpState, TypeOK
  <1>3. CASE Admit(c, psn, bytes, kind, t)
    <2> DEFINE checked == Checked(c, psn, kind)
    <2>1. /\ qps' = [qps EXCEPT ![c] = checked.qp]
          /\ host' = IF checked.result.what = "Delivered"
                     THEN [host EXCEPT ![c] = Append(host[c], psn)] ELSE host
      BY <1>3, Zenon DEF Admit
    <2> HIDE DEF checked
    <2>2. \A d \in Connections \ {c} : qps'[d] = qps[d] /\ host'[d] = host[d]
      BY <2>1, Zenon DEF TypeOK
    <2>3. CASE c \notin Reliable
      BY <2>2, <2>3 DEF Responder
    <2>4. CASE c \in Reliable /\ checked.result.what # "Delivered"
      <3>1. checked.qp.seen /\ (qps[c].seen => checked.qp.expected = qps[c].expected)
        BY <2>4, CheckedDelivers, Zenon DEF checked
      <3>2. qps'[c] = checked.qp /\ UNCHANGED host
        BY <2>1, <2>4, Zenon DEF TypeOK
      <3> QED  BY <2>2, <3>1, <3>2, SameResponder, Zenon
    <2>5. CASE c \in Reliable /\ checked.result.what = "Delivered"
      <3>1. /\ checked.qp.seen /\ checked.qp.expected = PsnAfter(psn, 1)
            /\ qps[c].seen => psn = qps[c].expected
        BY <2>5, CheckedDelivers, Zenon DEF checked
      <3>2. qps'[c] = checked.qp /\ host'[c] = Append(host[c], psn)
        BY <2>1, <2>5, Zenon DEF TypeOK
      <3>3. PICK n \in Nat : n = Len(host[c]) /\ DOMAIN host[c] = 1 .. n
        BY DEF TypeOK
      <3>4. /\ Len(host'[c]) = n + 1 /\ DOMAIN host'[c] = 1 .. n + 1
            /\ host'[c][n + 1] = psn
            /\ \A i \in 1 .. n : host'[c][i] = host[c][i]
        BY <3>2, <3>3 DEF TypeOK
      <3>5. n # 0 => psn = PsnAfter(host[c][n], 1)
        <4>1. n # 0 => host[c] # <<>> /\ n \in DOMAIN host[c]
          BY <3>3 DEF TypeOK
        <4> QED  BY <2>5, <3>1, <3>3, <4>1, Zenon DEF Responder
      <3>6. ASSUME NEW i \in 1 .. n + 1, i > 1
            PROVE  host'[c][i] = PsnAfter(host'[c][i - 1], 1)
        <4>1. CASE i = n + 1
          BY <3>4, <3>5, <3>6, <4>1
        <4>2. CASE i \in 1 .. n
          <5>1. i \in DOMAIN host[c] /\ i - 1 \in 1 .. n
            BY <3>3, <3>6, <4>2
          <5>2. host[c][i] = PsnAfter(host[c][i - 1], 1)
            BY <2>5, <3>6, <5>1, Zenon DEF Responder
          <5>3. host'[c][i] = host[c][i] /\ host'[c][i - 1] = host[c][i - 1]
            BY <3>4, <4>2, <5>1, Zenon
          <5> QED  BY <5>2, <5>3, Zenon
        <4> QED  BY <4>1, <4>2
      <3>7. qps'[c].seen /\ qps'[c].expected = PsnAfter(host'[c][n + 1], 1)
        BY <3>1, <3>2, <3>4, Zenon
      <3> QED  BY <2>2, <3>4, <3>6, <3>7 DEF Responder
    <2> QED  BY <2>3, <2>4, <2>5, Zenon
  <1> QED  BY <1>1, <1>2, <1>3, Zenon DEF OnPacket

----------------------------------------------------------------------------

\* Nothing was admitted yet.
LEMMA InitInv == Init => IInv
  <1> SUFFICES ASSUME Init PROVE IInv
    OBVIOUS
  <1>1. TypeOK
    BY PsnAssumption DEF Init, TypeOK, FreeGate, NoQp, Gate
  <1>2. \A rate \in Nat : GateSound(FreeGate, rate)
    <2> TAKE rate \in Nat
    <2>1. 0 * rate + 0 = 0 /\ (0 + 1) * rate = rate
      BY SMT
    <2> QED  BY <2>1, SecondAssumption DEF Init, GateSound, Clock, FreeGate
  <1>3. admissions = <<>> /\ DOMAIN admissions = {}
    BY DEF Init
  <1>4. Gates
    BY <1>2, <1>3, PpsType, Zenon DEF Init, Gates
  <1>5. Meter /\ RateCeiling /\ LeakyBucket
    BY <1>3, RxConfigAssumption DEF Init, Meter, RateCeiling, LeakyBucket
  <1>6. Responder
    BY RxConfigAssumption DEF Init, Responder
  <1> QED  BY <1>1, <1>4, <1>5, <1>6, Zenon DEF IInv

\* Every step keeps the invariant.
LEMMA NextInv == IInv /\ [Next]_vars => IInv'
  <1> SUFFICES ASSUME IInv, [Next]_vars PROVE IInv'
    OBVIOUS
  <1>1. CASE UNCHANGED vars
    <2>1. TypeOK'
      BY <1>1, Zenon DEF vars, IInv, TypeOK
    <2>2. now \in Nat /\ now' = now /\ UNCHANGED <<nicRate, qpRates, admissions>>
      BY <1>1, RxConfigAssumption, Zenon DEF vars, IInv, TypeOK
    <2>3. Gates' /\ RateCeiling'
      BY <2>2, GatesStay DEF IInv
    <2>4. Responder'
      BY <1>1, SameResponder, Zenon DEF IInv, vars
    <2>5. Meter'
      BY <1>1, Zenon DEF vars, IInv, Meter, BytesBetween
    <2>6. LeakyBucket'
      BY <1>1, Zenon DEF vars, IInv, LeakyBucket, BytesBetween, Elapsed
    <2> QED  BY <2>1, <2>3, <2>4, <2>5, <2>6, Zenon DEF IInv
  <1>2. CASE Next
    <2>1. PICK t \in now .. MaxTime :
            \/ Progress(t)
            \/ \E c \in Connections, psn \in Psns, bytes \in WireBytes,
                  kind \in {"Data", "Retransmission"} : OnPacket(c, psn, bytes, kind, t)
      BY <1>2, Zenon DEF Next
    <2>2. t \in Nat /\ now =< t
      BY RxConfigAssumption DEF IInv, TypeOK
    <2>3. CASE Progress(t)
      <3>1. /\ now' = t /\ meter' = DrainTo(t)
            /\ UNCHANGED <<nicRate, qpRates, qps, admissions, host>>
        BY <2>3, Zenon DEF Progress
      <3>2. Responder'
        BY <3>1, SameResponder, Zenon DEF IInv
      <3> QED  BY <2>2, <2>3, <3>1, <3>2, ProgressTypes, DrainStep, GatesStay, Zenon
                  DEF IInv
    <2>4. CASE \E c \in Connections, psn \in Psns, bytes \in WireBytes,
                  kind \in {"Data", "Retransmission"} : OnPacket(c, psn, bytes, kind, t)
      <3>1. PICK c \in Connections, psn \in Psns, bytes \in WireBytes,
                 kind \in {"Data", "Retransmission"} : OnPacket(c, psn, bytes, kind, t)
        BY <2>4, Zenon
      <3>2. TypeOK' /\ Responder' /\ now' = t
        BY <2>2, <3>1, PacketTypes, ResponderStep, Zenon DEF OnPacket
      <3>3. CASE MeterDiscard(c, bytes, t) \/ RateDiscard(c, psn, bytes, t)
        <4>1. meter' = DrainTo(t) /\ UNCHANGED <<nicRate, qpRates, admissions>>
          BY <3>3, Zenon DEF MeterDiscard, RateDiscard
        <4> QED  BY <2>2, <3>2, <4>1, DrainStep, GatesStay, Zenon DEF IInv
      <3>4. CASE Admit(c, psn, bytes, kind, t)
        BY <2>2, <3>2, <3>4, AdmitMeter, AdmitGates, Zenon DEF IInv
      <3> QED  BY <3>1, <3>3, <3>4, Zenon DEF OnPacket
    <2> QED  BY <2>1, <2>3, <2>4, Zenon
  <1> QED  BY <1>1, <1>2, Zenon

\* The invariant always holds.
LEMMA AlwaysInv == Spec => []IInv
  BY InitInv, NextInv, PTL DEF Spec

\* RateGate::charge: over every stretch, a ceiling lets through at most what its
\* rate earns in it, the packet that opens it and one packet of credit, for every
\* rate and however its divisions round.
THEOREM CeilingsHold == Spec => []RateCeiling
  <1>1. IInv => RateCeiling
    BY Zenon DEF IInv
  <1> QED  BY AlwaysInv, <1>1, PTL

\* drainTo: over every stretch, the meter lets in at most the buffer and what the
\* drain removes, for every buffer and drain and however time is cut into calls.
THEOREM MeterIsLeakyBucket == Spec => []LeakyBucket
  <1>1. IInv => LeakyBucket
    BY Zenon DEF IInv
  <1> QED  BY AlwaysInv, <1>1, PTL

\* onPacket: a reliable connection hands over consecutive sequence numbers,
\* whatever arrives and whatever is discarded on the way.
THEOREM DeliversInOrder == Spec => []HostInOrder
  <1>1. IInv => HostInOrder
    BY Zenon DEF IInv, Responder, HostInOrder
  <1> QED  BY AlwaysInv, <1>1, PTL
=============================================================================
