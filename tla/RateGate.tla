------------------------------ MODULE RateGate ------------------------------
(***************************************************************************)
(* The exact rational rate gates of the RNIC model.  A gate of a positive  *)
(* rate holds the instant it is free again and the numerator of the        *)
(* fraction of an instant its divisions have left over; a rate of 0        *)
(* disables it.                                                            *)
(***************************************************************************)
EXTENDS Integers, FiniteSetsExt

CONSTANT Second     \* kPicosecondsPerSecond, in the instants of the model

ASSUME SecondAssumption == Second \in Nat \ {0}

FreeGate == [free_at |-> 0, remainder |-> 0]

\* RateGate::delayFor: the whole instants `units` cost at `rate`.
DelayFor(gate, rate, units) ==
    IF rate = 0 \/ units = 0
    THEN [delay |-> 0, remainder |-> gate.remainder]
    ELSE LET numerator == units * Second + gate.remainder
         IN  [delay |-> numerator \div rate, remainder |-> numerator % rate]

\* RnicRxPipeline::RateGate::admits.
Admits(gate, rate, t) == rate = 0 \/ t >= gate.free_at

\* Mutant: idle time is banked without limit.
Charge_Banks(gate, rate, units, t) ==
    IF rate = 0 \/ units = 0 THEN gate
    ELSE LET cost == DelayFor(gate, rate, units)
         IN  [free_at |-> gate.free_at + cost.delay,
              remainder |-> cost.remainder]

\* RnicRxPipeline::RateGate::charge: a virtual clock that may be behind by at
\* most the cost of the packet it charges.
Charge(gate, rate, units, t) ==
    IF rate = 0 \/ units = 0 THEN gate
    ELSE LET cost == DelayFor(gate, rate, units)
             floor == Max({0, t - cost.delay})
         IN  [free_at |-> Max({gate.free_at, floor}) + cost.delay,
              remainder |-> cost.remainder]
=============================================================================
