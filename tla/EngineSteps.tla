----------------------------- MODULE EngineSteps -----------------------------
(***************************************************************************)
(* The completion authority of independent engines                         *)
(* (simllm/core/engine_steps.py, EngineStepRuntime) over the virtual clock *)
(* it shares (simllm/core/clock.py).  A step is priced when it is          *)
(* submitted and published when its completion is due.  Other holders of   *)
(* the clock and of the prepared values may meddle with them, between two  *)
(* calls or inside a publish callback, and a callback may call back.       *)
(***************************************************************************)
EXTENDS Integers, FiniteSets, Sequences

CONSTANTS
    Engines,      \* engine_id
    StepIndices,  \* StepRecord.step_index
    Latencies,    \* StepResult.step_latency_ps
    Publishers,   \* the publishers bound to every step
    LastInstant,      \* bound: last instant
    MaxSubmissions,     \* bound: steps submitted
    MaxMeddling   \* bound: acts of other holders

ASSUME EngineStepsAssumption ==
    /\ Latencies \subseteq Nat
    /\ LastInstant \in Nat /\ MaxSubmissions \in Nat /\ MaxMeddling \in Nat

VARIABLES
    clock,       \* VirtualClock._now_ps
    heap,        \* VirtualClock._heap: [at, tie, token]
    tie,         \* VirtualClock._tie
    owned,       \* clock._engine_step_owner is this runtime
    seen,        \* _now_ps
    pending,     \* _pending: receipts, at most one per engine
    used,        \* _used
    sequence,    \* _sequence
    retiring,    \* _retiring: a receipt or none
    published,   \* _retiring.publishers
    failed,      \* _failure is not None
    closed,      \* _closed
    results,     \* _results
    publishing,  \* complete is inside pending.publish
    forged,      \* pending receipts whose values were changed
    changed,     \* pending steps whose record, price or prepared values were
    meddled,     \* bound: acts of other holders so far
    claims       \* history: [step, at] of the claims let through, by publisher

clockVars == <<clock, heap, tie, owned>>
stepVars == <<pending, used, sequence, retiring, published, results,
              publishing, claims>>
engineVars == <<clockVars, seen, stepVars, failed, closed, forged, changed,
                meddled>>

\* The payload of an event the runtime did not schedule.
Foreign == -1

EngineInit ==
    /\ clock = 0 /\ heap = {} /\ tie = 0 /\ owned = TRUE
    /\ seen = 0 /\ pending = {} /\ used = {} /\ sequence = 0
    /\ retiring = {} /\ published = {} /\ failed = FALSE /\ closed = FALSE
    /\ results = <<>> /\ publishing = FALSE
    /\ forged = {} /\ changed = {} /\ meddled = 0
    /\ claims = [b \in Publishers |-> <<>>]

-----------------------------------------------------------------------------
(* VirtualClock: a heap by time, ties by insertion. *)

HeapLess(g, h) == g.at < h.at \/ (g.at = h.at /\ g.tie =< h.tie)
IsHeapHead(h) == h \in heap /\ \A g \in heap : HeapLess(h, g)

\* peek_next_time() = t.
PeeksAt(t) == \E h \in heap : h.at = t /\ \A g \in heap : t =< g.at

ScheduleToken(t, token) ==
    /\ heap' = heap \cup {[at |-> t, tie |-> tie, token |-> token]}
    /\ tie' = tie + 1

\* pop_next takes the time of its event, be it earlier than the clock.
PopNext(h) ==
    /\ IsHeapHead(h)
    /\ heap' = heap \ {h}
    /\ clock' = h.at

-----------------------------------------------------------------------------
(* _check_live and _check_action. *)

Active == pending \ retiring

\* peek_next_time() equals the least completed_at_ps of the active steps: each
\* side has an element no later than any of the other's.
SameEarliest ==
    /\ \A h \in heap : \E p \in Active : p.completed =< h.at
    /\ \A p \in Active : \E h \in heap : h.at =< p.completed

CheckLive ==
    /\ ~failed /\ ~closed
    /\ owned
    /\ clock = seen
    /\ forged = {}
    /\ Cardinality(heap) = Cardinality(Active) /\ SameEarliest

CheckAction == CheckLive /\ retiring = {}

\* invalidate.
Poison ==
    /\ ~failed /\ ~closed
    /\ failed' = TRUE

\* A call that its check turns away; on a failed or closed runtime it only
\* raises.
EngineRefused(check) ==
    /\ ~check
    /\ Poison
    /\ UNCHANGED <<clockVars, seen, stepVars, closed, forged, changed, meddled>>

\* next_completion_ps reads the clock, and checks first.
NextCompletion == EngineRefused(CheckLive)

\* invalidate, called by the owner of an engine.
Invalidate ==
    /\ Poison
    /\ UNCHANGED <<clockVars, seen, stepVars, closed, forged, changed, meddled>>

-----------------------------------------------------------------------------
(* submit and advance_to. *)

\* Mutant: steps due now may still be waiting.
Submittable_WhileDue(e, step, latency, scheduled) ==
    /\ \A p \in pending : p.engine # e
    /\ <<e, step>> \notin used
    /\ scheduled <=> latency > 0

\* The checks of submit up to the guard; wrong types, a wrong release time, a
\* price that disagrees and a guard that raises or changes its input are the
\* caller's choice in Submit.
Submittable(e, step, latency, scheduled) ==
    /\ ~PeeksAt(seen)
    /\ \A p \in pending : p.engine # e
    /\ <<e, step>> \notin used
    /\ scheduled <=> latency > 0

Submit(e, step, latency, scheduled) ==
    LET receipt == [engine |-> e, step |-> step, sequence |-> sequence,
                    submitted |-> seen, completed |-> seen + latency]
    IN  /\ CheckAction
        /\ Submittable(e, step, latency, scheduled)
        /\ seen + latency =< LastInstant /\ sequence < MaxSubmissions
        /\ pending' = pending \cup {receipt}
        /\ used' = used \cup {<<e, step>>}
        /\ sequence' = sequence + 1
        /\ ScheduleToken(seen + latency, sequence)
        /\ UNCHANGED <<clock, owned, seen, retiring, published, failed, closed,
                       results, publishing, forged, changed, meddled, claims>>

SubmitRefused(e, step, latency, scheduled) ==
    EngineRefused(CheckAction /\ Submittable(e, step, latency, scheduled))

\* Mutants: one instant too late, one too early.
WithinDue_OffByOne(t) == \A h \in heap : t - 1 =< h.at

WithinDue_Short(t) == \A h \in heap : t < h.at

\* at_ps is not beyond peek_next_time().
WithinDue(t) == \A h \in heap : t =< h.at

EngineAdvanceTo(t) ==
    /\ CheckAction
    /\ t >= seen /\ WithinDue(t)
    /\ clock' = t /\ seen' = t
    /\ UNCHANGED <<heap, tie, owned, stepVars, failed, closed, forged, changed,
                   meddled>>

AdvanceRefused(t) == EngineRefused(CheckAction /\ t >= seen /\ WithinDue(t))

-----------------------------------------------------------------------------
(* complete: the checks, the publish callback, the record of the result. *)

DueBefore(p, q) ==
    p.completed < q.completed
      \/ (p.completed = q.completed /\ p.sequence =< q.sequence)

\* The receipt is the next one, due now, and its values are the frozen ones.
Retirable(p) ==
    /\ p \in pending
    /\ \A q \in pending : DueBefore(p, q)
    /\ p.completed = seen
    /\ p \notin changed

\* Mutant: any due receipt may be retired, its own event taken from the heap.
CompleteBegin_AnyDue(p) ==
    /\ CheckAction
    /\ p.completed = seen /\ p \notin changed
    /\ heap' = {h \in heap : h.token # p.sequence}
    /\ retiring' = {p} /\ publishing' = TRUE
    /\ UNCHANGED <<clock, tie, owned, seen, pending, used, sequence, published,
                   failed, closed, results, forged, changed, meddled, claims>>

\* Up to the call of pending.publish.
CompleteBegin(p) ==
    /\ CheckAction
    /\ Retirable(p)
    /\ \E h \in heap :
          /\ PopNext(h)
          /\ IF h.token = p.sequence /\ h.at = seen
             THEN /\ retiring' = {p} /\ publishing' = TRUE
                  /\ UNCHANGED failed
             ELSE /\ failed' = TRUE
                  /\ UNCHANGED <<retiring, publishing>>
    /\ UNCHANGED <<tie, owned, seen, pending, used, sequence, published,
                   closed, results, forged, changed, meddled, claims>>

\* A receipt that is foreign, consumed, early, out of order or changed, or a
\* guard that raises (Invalidate).
CompleteRefused(p) == EngineRefused(CheckAction /\ Retirable(p))

\* One turn of complete_due: the due receipts, by sequence.
CompleteDue ==
    /\ ~publishing
    /\ \/ EngineRefused(CheckAction)
       \/ \E p \in pending :
             /\ p.completed = seen
             /\ \A q \in pending :
                   q.completed = seen => p.sequence =< q.sequence
             /\ CompleteBegin(p) \/ CompleteRefused(p)

\* claim_publication(p, b); b was bound with its payload when p was submitted.
Claimable(p, b) ==
    /\ p \in retiring
    /\ b \notin published
    /\ p \notin changed

ClaimPublication(p, b) ==
    /\ CheckLive
    /\ Claimable(p, b)
    /\ published' = published \cup {b}
    /\ claims' = [claims EXCEPT ![b] = Append(@, [step |-> p, at |-> clock])]
    /\ UNCHANGED <<clockVars, seen, pending, used, sequence, retiring, failed,
                   closed, results, publishing, forged, changed, meddled>>

ClaimRefused(p, b) == EngineRefused(CheckLive /\ Claimable(p, b))

\* Mutants: the runtime is not checked again after the callback; a publisher
\* may have been left out.
Settled_Unchecked(p) == p \notin changed /\ published = Publishers
Settled_Partly(p) == CheckLive /\ p \notin changed

\* What complete checks once the callback has returned.
Settled(p) == CheckLive /\ p \notin changed /\ published = Publishers

\* The callback returned.
CompleteEnd(p) ==
    /\ publishing
    /\ p \in retiring
    /\ Settled(p)
    /\ results' = Append(results, p)
    /\ pending' = pending \ {p}
    /\ retiring' = {} /\ published' = {} /\ publishing' = FALSE
    /\ UNCHANGED <<clockVars, seen, used, sequence, failed, closed, forged,
                   changed, meddled, claims>>

\* The callback raised, or returned to a check that fails.
CompleteFails ==
    /\ publishing
    /\ publishing' = FALSE
    /\ failed' = TRUE
    /\ UNCHANGED <<clockVars, seen, pending, used, sequence, retiring,
                   published, closed, results, forged, changed, meddled,
                   claims>>

\* The callback was interrupted (a BaseException that is no Exception): the
\* step stays in retirement and nothing is recorded.
CompleteInterrupted ==
    /\ publishing
    /\ publishing' = FALSE
    /\ UNCHANGED <<clockVars, seen, pending, used, sequence, retiring,
                   published, failed, closed, results, forged, changed,
                   meddled, claims>>

-----------------------------------------------------------------------------
(* close. *)

Close ==
    /\ ~closed
    /\ \/ failed /\ pending = {} /\ heap = {} /\ owned
       \/ CheckAction /\ pending = {}
    /\ closed' = TRUE /\ owned' = FALSE
    /\ UNCHANGED <<clock, heap, tie, seen, stepVars, failed, forged, changed,
                   meddled>>

CloseRefused == EngineRefused(CheckAction /\ pending = {})

-----------------------------------------------------------------------------
(* Other holders of the clock and of the prepared values. *)

\* A failed or closed runtime turns every call away whatever they do.
Meddle ==
    /\ ~failed /\ ~closed
    /\ meddled < MaxMeddling
    /\ meddled' = meddled + 1
    /\ UNCHANGED <<seen, stepVars, failed, closed>>

ForeignAdvance(t) ==
    /\ t > clock
    /\ clock' = t
    /\ Meddle /\ UNCHANGED <<heap, tie, owned, forged, changed>>

ForeignSchedule(t) ==
    /\ t >= clock
    /\ ScheduleToken(t, Foreign)
    /\ Meddle /\ UNCHANGED <<clock, owned, forged, changed>>

ForeignPop ==
    /\ \E h \in heap : PopNext(h)
    /\ Meddle /\ UNCHANGED <<tie, owned, forged, changed>>

ReplaceOwner ==
    /\ owned /\ owned' = FALSE
    /\ Meddle /\ UNCHANGED <<clock, heap, tie, forged, changed>>

ForgeReceipt(p) ==
    /\ forged' = forged \cup {p}
    /\ Meddle /\ UNCHANGED <<clockVars, changed>>

ChangeValues(p) ==
    /\ changed' = changed \cup {p}
    /\ Meddle /\ UNCHANGED <<clockVars, forged>>

-----------------------------------------------------------------------------
Instant == 0 .. LastInstant

\* Every receipt handed out so far.
Known == pending \cup {results[i] : i \in 1 .. Len(results)}

EngineNext ==
    \/ NextCompletion \/ Invalidate
    \/ \E e \in Engines, s \in StepIndices, l \in Latencies, w \in BOOLEAN :
          Submit(e, s, l, w) \/ SubmitRefused(e, s, l, w)
    \/ \E t \in Instant : EngineAdvanceTo(t) \/ AdvanceRefused(t)
    \/ CompleteDue
    \/ \E p \in Known : CompleteBegin(p) \/ CompleteRefused(p)
    \/ \E p \in Known, b \in Publishers :
          ClaimPublication(p, b) \/ ClaimRefused(p, b)
    \/ \E p \in pending : CompleteEnd(p)
    \/ CompleteFails \/ CompleteInterrupted
    \/ Close \/ CloseRefused
    \/ \E t \in Instant : ForeignAdvance(t) \/ ForeignSchedule(t)
    \/ ForeignPop \/ ReplaceOwner
    \/ \E p \in pending : ForgeReceipt(p) \/ ChangeValues(p)

EngineSpec == EngineInit /\ [][EngineNext]_engineVars

\* The loop of pd_session.py, _drive_independent: it retires what is due and
\* moves on to the next due time; a callback returns.
DriveToDue == \E t \in Instant : t > seen /\ PeeksAt(t) /\ EngineAdvanceTo(t)
CallbackReturns ==
    (\E p \in pending : CompleteEnd(p)) \/ CompleteFails \/ CompleteInterrupted

FairSpec ==
    /\ EngineSpec
    /\ WF_engineVars(CompleteDue) /\ WF_engineVars(DriveToDue)
    /\ WF_engineVars(CallbackReturns)

-----------------------------------------------------------------------------
(* Properties. *)

Receipt == [engine : Engines, step : StepIndices, sequence : Nat,
            submitted : Nat, completed : Nat]

\* Type invariant.
TypeOK ==
    /\ clock \in Nat /\ seen \in Nat /\ tie \in Nat /\ sequence \in Nat
    /\ heap \subseteq [at : Nat, tie : Nat, token : Nat \cup {Foreign}]
    /\ owned \in BOOLEAN /\ failed \in BOOLEAN /\ closed \in BOOLEAN
    /\ publishing \in BOOLEAN
    /\ pending \subseteq Receipt /\ results \in Seq(Receipt)
    /\ retiring \subseteq pending /\ published \subseteq Publishers
    /\ publishing => retiring # {}
    /\ used \subseteq Engines \X StepIndices
    /\ forged \subseteq pending /\ changed \subseteq pending
    /\ meddled \in Nat
    /\ claims \in [Publishers -> Seq([step : Receipt, at : Nat])]

\* Results are recorded in due order, ties by submission, whoever else moves
\* the clock or takes its events, and whichever receipt complete is handed.
RetiredInDueOrder ==
    \A i, j \in 1 .. Len(results) :
       i < j => results[i] # results[j] /\ DueBefore(results[i], results[j])

\* The runtime's time never passes the completion of a step that has not been
\* retired: advance_to stops at the next due time.
NoCompletionSkipped == \A p \in pending : seen =< p.completed

\* A step submitted while another is pending was submitted before the other
\* was due: what is due now is retired before anything new is admitted.
DueRetiredFirst ==
    \A p \in pending, q \in Known :
       p.sequence < q.sequence => q.submitted < p.completed

\* Each publisher of a step is let through once, at the instant the step is
\* due, and a recorded result was let through by all of them.
PublishedOnceWhenDue ==
    \A b \in Publishers :
       /\ \A i \in 1 .. Len(claims[b]) :
             claims[b][i].at = claims[b][i].step.completed
       /\ \A i, j \in 1 .. Len(claims[b]) :
             claims[b][i].step.engine = claims[b][j].step.engine
               /\ claims[b][i].step.step = claims[b][j].step.step => i = j
       /\ \A i \in 1 .. Len(results) :
             \E j \in 1 .. Len(claims[b]) : claims[b][j].step = results[i]

\* After a failure nothing is submitted, published or recorded, also when the
\* callback that caused it swallows the exception and returns.
PoisonIsFinal ==
    [][failed =>
        UNCHANGED <<seen, pending, used, results, claims, failed>>]_engineVars

\* A submitted step is retired, or the runtime has failed: a completion is
\* never just forgotten.
EventuallyRetired ==
    \A n \in 0 .. MaxSubmissions - 1 :
       (\E p \in pending : p.sequence = n)
         ~> (failed \/ \E i \in 1 .. Len(results) : results[i].sequence = n)
=============================================================================
