------------------------- MODULE CompletionReducer -------------------------
(***************************************************************************)
(* The end of an engine step (core/completion.py): the reducer turns one   *)
(* executed graph into request metrics, hands the same step to the request *)
(* lifetime registry (core/request_lifetime.py), which gives the views of  *)
(* closed requests back to the routing arena (preplay/arena.py), and moves *)
(* the virtual clock.  Three owners commit one after the other, so the     *)
(* step is all or nothing only while no callback in between can raise.     *)
(*                                                                         *)
(* A refused call (a replayed execution id, a token gap, a request that is *)
(* scheduled after its finish, ...) works on copies and changes nothing;   *)
(* it is a stuttering step here.                                           *)
(***************************************************************************)
EXTENDS RequestLifetime

CONSTANTS
    Arrival,     \* the bookkeeping ledger's arrival of every request
    MaxSteps,    \* bound on the reduced steps
    MaxBatch,    \* bound on the requests one step schedules, and on those it finishes
    MaxLatency,  \* bound on the time one step takes
    MaxTime      \* bound on the virtual clock

ASSUME ReducerAssumption ==
    /\ Arrival \in [Request -> Nat]
    /\ {MaxSteps, MaxBatch, MaxLatency, MaxTime} \subseteq Nat

VARIABLES
    life,       \* RequestLifetimeRegistry._records
    consumed,   \* RequestLifetimeRegistry._consumed_execution_ids
    live,       \* requests whose arena view is live (RoutingArena._live_view_ids)
    open,       \* ~RoutingArena._closed
    now,        \* VirtualClock.now_ps
    metric,     \* CompletionReducer._requests
    reduced,    \* CompletionReducer._consumed_execution_ids
    bookkept,   \* was the reducer given a bookkeeping ledger?
    routed      \* history: tokens of a request that some step computed or cached

reducerVars == <<life, consumed, live, open, now, metric, reduced, bookkept,
                 routed>>

Time == 0 .. MaxTime

Execution == 1 .. MaxSteps   \* execution identities

NoTime == -1

\* _RequestMetricState; the attributions are kept by their total.
MetricFrom(t) ==
    [first |-> t, through |-> t, firstToken |-> NoTime, lastToken |-> NoTime,
     tokens |-> 0, interSum |-> 0, interCount |-> 0, pending |-> 0]

\* A request the reducer has not met.
Unmet == MetricFrom(NoTime)

MetricType ==
    [first : Int, through : Int, firstToken : Int, lastToken : Int,
     tokens : Nat, interSum : Int, interCount : Nat, pending : Int]

\* The state has its declared shape.
ReducerTypeOK ==
    /\ life \in [Request -> LifetimeType]
    /\ consumed \in SUBSET Execution
    /\ live \in SUBSET Request
    /\ open \in BOOLEAN
    /\ now \in Time
    /\ metric \in [Request -> MetricType]
    /\ reduced \in SUBSET Execution
    /\ bookkept \in BOOLEAN
    /\ routed \in [Request -> SUBSET (0 .. TokenCount)]

Registered == \A r \in Request : life[r].state # "absent"

ReducerInit ==
    /\ life = [r \in Request |-> Absent]
    /\ consumed = {}
    /\ live = {}
    /\ open = TRUE
    /\ now = 0
    /\ metric = [r \in Request |-> Unmet]
    /\ reduced = {}
    /\ bookkept \in BOOLEAN
    /\ routed = [r \in Request |-> {}]

----------------------------------------------------------------------------
(* create_request_lifetimes *)

\* One turn of the loop: acquire a view, register its lifetime.
Join(r) ==
    /\ open
    /\ life[r].state = "absent"
    /\ live' = live \cup {r}
    /\ life' = [life EXCEPT ![r] = Joined]
    /\ UNCHANGED <<consumed, open, now, metric, reduced, bookkept, routed>>

\* The except branch: every acquired view goes back, the registry is dropped.
JoinFailed ==
    /\ live # {}
    /\ ~Registered
    /\ live' = {}
    /\ life' = [r \in Request |-> Absent]
    /\ UNCHANGED <<consumed, open, now, metric, reduced, bookkept, routed>>

\* Mutant: the arena closes over live views.
CloseArena_Anyway ==
    /\ open
    /\ open' = FALSE
    /\ UNCHANGED <<life, consumed, live, now, metric, reduced, bookkept, routed>>

\* RoutingArena.close is refused while a view is live.
CloseArena ==
    /\ open
    /\ live = {}
    /\ open' = FALSE
    /\ UNCHANGED <<life, consumed, live, now, metric, reduced, bookkept, routed>>

----------------------------------------------------------------------------
(* CompletionReducer.reduce *)

\* The session lets time pass between two steps.
AdvanceTo(t) ==
    /\ t > now
    /\ now' = t
    /\ UNCHANGED <<life, consumed, live, open, metric, reduced, bookkept, routed>>

\* A request met for the first time is observed from its arrival, or from this
\* step when no bookkeeping ledger was given.
Observed(r) ==
    IF metric[r].first # NoTime THEN metric[r]
    ELSE MetricFrom(IF bookkept THEN Arrival[r] ELSE now)

\* The arrival check, and the one against moving backward in time.
Accountable(r) ==
    /\ metric[r].first = NoTime /\ bookkept => Arrival[r] =< now
    /\ Observed(r).through =< now

\* Mutant: the scheduler gap is not attributed.
Interval_NoGap(m, endpoint) == m.pending + (endpoint - now)

\* interval_attribution: what is pending, the scheduler gap since the request
\* was last accounted, and its critical path through this graph.
Interval(m, endpoint) == m.pending + (now - m.through) + (endpoint - now)

\* The request ran but emitted no token: its time stays pending.
Pend(m, endpoint) ==
    [m EXCEPT !.pending = Interval(m, endpoint), !.through = endpoint]

\* The request emitted a token: the interval is closed.
Emit(m, endpoint) ==
    LET isFirst == m.firstToken = NoTime
    IN  [first |-> m.first, through |-> endpoint,
         firstToken |-> IF isFirst THEN endpoint ELSE m.firstToken,
         lastToken |-> endpoint, tokens |-> m.tokens + 1,
         interSum |-> m.interSum + (IF isFirst THEN 0 ELSE endpoint - m.lastToken),
         interCount |-> m.interCount + (IF isFirst THEN 0 ELSE 1),
         pending |-> 0]

\* The latency of the token against the interval attributed to it.
Conserves(m, endpoint) ==
    Interval(m, endpoint) =
        endpoint - (IF m.firstToken = NoTime THEN m.first ELSE m.lastToken)

\* consume_step's staged copy of one record.
Staged(r, sched, finished, ran) ==
    LET ranOn == IF r \in DOMAIN sched THEN Schedule(life[r], sched[r], ran[r])
                 ELSE life[r]
    IN  Reconcile(IF r \in finished THEN Finish(ranOn) ELSE ranOn)

\* The conditions under which consume_step raises before it commits.
Consumable(x, sched, finished) ==
    /\ x \notin consumed
    /\ Registered
    /\ \A r \in DOMAIN sched : Enterable(life[r]) /\ Coverable(life[r], sched[r])
    /\ \A r \in finished : r \in DOMAIN sched \/ Finishable(life[r])

\* The tokens a step accounts for: computed now, or skipped as cached.
Routed(r, s) ==
    IF s.new = 0 THEN {}
    ELSE (Start(s) .. s.context - 1)
         \cup (IF life[r].cursor = 0 /\ s.cached = Start(s) THEN 0 .. Start(s) - 1 ELSE {})

\* One call of reduce.  The registry commits first and then releases the views
\* of closed requests; the clock and the metrics follow only if every release
\* callback returned.
Reduce(x, sched, sampled, finished, ran, endpoint, completed) ==
    LET staged == [r \in Request |-> Staged(r, sched, finished, ran)]
        due    == {r \in Request : staged[r].state = "closed" /\ ~staged[r].released}
        raises == ~open /\ due \cap live # {}
        Reduced(r) ==
            IF r \notin DOMAIN sched THEN metric[r]
            ELSE IF r \in sampled THEN Emit(Observed(r), endpoint[r])
            ELSE Pend(Observed(r), endpoint[r])
    IN  /\ x \notin reduced
        /\ \A r \in DOMAIN sched : Accountable(r)
        /\ \A r \in sampled : Conserves(Observed(r), endpoint[r])
        /\ Consumable(x, sched, finished)
        /\ consumed' = consumed \cup {x}
        /\ routed' = [r \in Request |-> routed[r] \cup
                        (IF r \in DOMAIN sched THEN Routed(r, sched[r]) ELSE {})]
        /\ life' = [r \in Request |->
                      IF r \in due /\ ~raises THEN Released(staged[r]) ELSE staged[r]]
        /\ live' = IF raises THEN live ELSE live \ due
        /\ now' = IF raises THEN now ELSE completed
        /\ metric' = [r \in Request |-> IF raises THEN metric[r] ELSE Reduced(r)]
        /\ reduced' = IF raises THEN reduced ELSE reduced \cup {x}
        /\ UNCHANGED <<open, bookkept>>

\* What a scheduler can ask of a request: the context and the cached count are
\* not read without new tokens, and the cached count matters only when it is
\* the start of the new tokens.
StepInput == {s \in Scheduled :
                IF s.new = 0 THEN s.context = 0 /\ s.cached = 0
                ELSE s.new =< s.context /\ s.cached \in {0, Start(s)}}

\* Every collective of the last token completed, or all but one did.
Outcome == {End} \cup {End \ {e} : e \in End}

Batch == {S \in SUBSET Request : Cardinality(S) =< MaxBatch}

\* The steps a session can present.  Unused execution ids are interchangeable,
\* so they are used in order; a step names some request; the completed
\* collectives of a request matter only when it reaches its last token.
Step ==
    \E x \in Execution, S \in Batch, finished \in Batch :
      /\ 1 .. x - 1 \subseteq reduced
      /\ S \cup finished # {}
      /\ \E sched \in [S -> StepInput] :
           /\ Consumable(x, sched, finished)
           /\ \E completed \in (now .. now + MaxLatency) \cap Time, sampled \in SUBSET S :
              \E endpoint \in [S -> now .. completed],
                 ran \in [{r \in S : ReachesFinal(life[r], sched[r])} -> Outcome] :
                 Reduce(x, sched, sampled, finished,
                        [r \in S |-> IF r \in DOMAIN ran THEN ran[r] ELSE {}],
                        endpoint, completed)

ReducerNext ==
    \/ \E r \in Request : Join(r)
    \/ JoinFailed
    \/ CloseArena
    \/ \E t \in Time : AdvanceTo(t)
    \/ Step

ReducerSpec == ReducerInit /\ [][ReducerNext]_reducerVars

----------------------------------------------------------------------------
(* Properties *)

\* The registry, the reducer and the arena commit a step together: neither has
\* an execution the other lacks, and a view is live exactly while its request
\* is registered and not closed.  A release callback that raised between the
\* two commits would separate them for good, because the registry refuses the
\* retried execution.
CommitsTogether ==
    /\ consumed = reduced
    /\ live = {r \in Request : life[r].state \notin {"absent", "closed"}}
    /\ \A r \in Request : life[r].released <=> life[r].state = "closed"

\* A request is closed by the very step after which the scheduler has finished
\* it and its last token has every end flag, and never otherwise: a finish that
\* comes too early leaves it open, for the audit to report.
ClosedWhenDrained ==
    \A r \in Request : life[r].state = "closed" <=> life[r].finished /\ Drained(life[r])

\* Every token below a request's cursor was computed by a step or was cached
\* when the request started: preemption, recomputation and prefix hits leave no
\* token of the view unrouted.
NoTokenSkipped ==
    \A r \in Request : 0 .. life[r].cursor - 1 \subseteq routed[r]

\* The time of a request is accounted without gap or overlap over any sequence
\* of steps: what is pending spans from its last token (or its first
\* observation) to the instant it is accounted through, which never passes the
\* clock, and the emitted latencies add up to the time of the last token.
TimeConserved ==
    \A r \in Request : metric[r].first # NoTime =>
        LET m == metric[r]
            prior == IF m.firstToken = NoTime THEN m.first ELSE m.lastToken
        IN  /\ m.first =< prior
            /\ prior =< m.through
            /\ m.through =< now
            /\ m.pending = m.through - prior
            /\ m.firstToken # NoTime =>
                 (m.firstToken - m.first) + m.interSum = m.lastToken - m.first
            /\ m.tokens = m.interCount + (IF m.firstToken = NoTime THEN 0 ELSE 1)

\* A lifetime only moves forward: its cursor and its end flags never shrink,
\* a finish is never taken back, and a closed record never changes again.
LifetimeForward ==
    [][\A r \in Request : life'[r].state # "absent" =>
          /\ life[r].cursor =< life'[r].cursor
          /\ life[r].ends \subseteq life'[r].ends
          /\ life[r].finished => life'[r].finished
          /\ life[r].state = "closed" => life'[r] = life[r]]_reducerVars
=============================================================================
