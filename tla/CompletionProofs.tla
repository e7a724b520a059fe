-------------------------- MODULE CompletionProofs --------------------------
(***************************************************************************)
(* Proofs about the two completion authorities of simllm/core, which share *)
(* no state.                                                               *)
(*                                                                         *)
(* The one of independent engines: its steps are retired in due order,     *)
(* each publisher is let through once, at the due instant, and a failure   *)
(* is final, for every number of engines, steps and publishers and however *)
(* much the others meddle.                                                 *)
(*                                                                         *)
(* The reducer of the shared backend: for any number of requests, layers,  *)
(* tokens and steps.                                                       *)
(***************************************************************************)
EXTENDS EngineSteps, CompletionReducer, TLAPS

-----------------------------------------------------------------------------
(* The completion reducer. *)

\* What holds of one lifetime record between two steps.
LifeInv(l) ==
    /\ l.finished <=> l.state \in {"finish-flagged", "closed"}
    /\ l.state = "closed" <=> l.finished /\ Drained(l)
    /\ l.released <=> l.state = "closed"
    /\ l.state = "absent" => l = Absent

\* What holds of the metric of one observed request at time t.
MetricInv(m, t) ==
    LET prior == IF m.firstToken = NoTime THEN m.first ELSE m.lastToken
    IN  /\ m.first >= 0
        /\ m.firstToken = NoTime \/ m.firstToken >= 0
        /\ m.first =< prior
        /\ prior =< m.through
        /\ m.through =< t
        /\ m.pending = m.through - prior
        /\ m.firstToken = NoTime => m.interSum = 0
        /\ m.firstToken # NoTime =>
             (m.firstToken - m.first) + m.interSum = m.lastToken - m.first
        /\ m.tokens = m.interCount + (IF m.firstToken = NoTime THEN 0 ELSE 1)

\* The inductive invariant.  A closed arena holds no live view, which is why no
\* release callback raises between the registry's commit and the reducer's.
ReducerInv ==
    /\ ReducerTypeOK
    /\ consumed = reduced
    /\ live = {r \in Request : life[r].state \notin {"absent", "closed"}}
    /\ ~open => live = {}
    /\ \A r \in Request : LifeInv(life[r])
    /\ \A r \in Request : 0 .. life[r].cursor - 1 \subseteq routed[r]
    /\ \A r \in Request : metric[r].first # NoTime => MetricInv(metric[r], now)

\* What a step does to one record, but for the release of its view.
StagedOK(q, r, S, sched) ==
    /\ q \in LifetimeType
    /\ q.finished <=> q.state \in {"finish-flagged", "closed"}
    /\ q.state = "closed" <=> q.finished /\ Drained(q)
    /\ q.cursor = IF r \in S THEN Cover(life[r], sched[r]) ELSE life[r].cursor
    /\ life[r].ends \subseteq q.ends
    /\ life[r].finished => q.finished
    /\ q.released <=> life[r].state = "closed"
    /\ q.state # "absent"
    /\ life[r].state = "closed" => q = life[r]

\* The forward step of every lifetime, as LifetimeForward states it.
Forward ==
    \A r \in Request : life'[r].state # "absent" =>
        /\ life[r].cursor =< life'[r].cursor
        /\ life[r].ends \subseteq life'[r].ends
        /\ life[r].finished => life'[r].finished
        /\ life[r].state = "closed" => life'[r] = life[r]

\* The invariant holds before any request joined.
LEMMA InitSound == ReducerInit => ReducerInv
PROOF
<1> SUFFICES ASSUME ReducerInit PROVE ReducerInv
  OBVIOUS
<1>1. Absent \in LifetimeType /\ Absent.state = "absent" /\ Absent.cursor = 0
  <2>1. 0 \in 0 .. TokenCount
    BY LifetimeAssumption
  <2> QED
    BY <2>1, Zenon DEF Absent, LifetimeType
<1>2. LifeInv(Absent)
  BY LifetimeAssumption, Zenon DEF LifeInv, Drained, Absent
<1>3. Unmet \in MetricType /\ Unmet.first = NoTime
  BY DEF Unmet, MetricFrom, MetricType, NoTime
<1>4. 0 \in Time
  BY ReducerAssumption DEF Time
<1>5. ReducerTypeOK
  BY <1>1, <1>3, <1>4, Zenon DEF ReducerInit, ReducerTypeOK
<1> QED
  BY <1>1, <1>2, <1>3, <1>5 DEF ReducerInit, ReducerInv

\* Every step of the system preserves the invariant.
LEMMA NextSound == ReducerInv /\ [ReducerNext]_reducerVars => ReducerInv' /\ Forward
\* Covering scheduled tokens keeps the cursor inside the view and never moves
\* it back.
<1>CoverSound.
    ASSUME NEW l \in LifetimeType, NEW s \in Scheduled
    PROVE  Cover(l, s) \in 0 .. TokenCount /\ l.cursor =< Cover(l, s)
  BY <1>CoverSound, LifetimeAssumption DEF Cover, LifetimeType, Scheduled
\* Scheduling an open request keeps its record well formed and open.
<1>ScheduleSound.
    ASSUME NEW l \in LifetimeType, LifeInv(l), Enterable(l), l.state # "absent",
           NEW s \in Scheduled, NEW ran \in SUBSET End
    PROVE  LET q == Schedule(l, s, ran)
           IN  /\ q \in LifetimeType
               /\ q.state = "executing"
               /\ ~q.finished
               /\ ~q.released
               /\ q.cursor = Cover(l, s)
               /\ l.ends \subseteq q.ends
  <2> USE <1>ScheduleSound
  <2> DEFINE q == Schedule(l, s, ran)
             st == IF l.state = "joined" THEN "executing" ELSE l.state
             en == l.ends \cup (IF ReachesFinal(l, s) THEN ran ELSE {})
  <2>1. Cover(l, s) \in 0 .. TokenCount
    BY <1>CoverSound, Zenon
  <2>2. st = "executing"
    BY Zenon DEF LifeInv, Enterable, LifetimeType
  <2>3. en \in SUBSET End /\ l.ends \subseteq en
    BY Zenon DEF LifetimeType
  <2>4. q = [l EXCEPT !.state = st, !.cursor = Cover(l, s), !.ends = en]
    BY Zenon DEF Schedule
  <2>5. ~l.finished /\ ~l.released
    BY Zenon DEF LifeInv, Enterable
  <2> HIDE DEF q, st, en
  <2>6. q \in LifetimeType
    BY ZenonT(60), <2>1, <2>2, <2>3, <2>4 DEF LifetimeType
  <2>7. q.state = st /\ q.cursor = Cover(l, s) /\ q.ends = en
        /\ q.finished = l.finished /\ q.released = l.released
    BY <2>4, Zenon DEF LifetimeType
  <2> QED
    BY <2>2, <2>3, <2>5, <2>6, <2>7, Zenon DEF q
\* Reconciling closes a finished and drained request at once, and no other.
<1>ReconcileSound.
    ASSUME NEW l \in LifetimeType,
           l.finished => l.state \in {"executing", "finish-flagged", "closed"},
           ~l.finished => l.state \in {"absent", "joined", "executing"},
           l.state = "closed" => Drained(l)
    PROVE  LET q == Reconcile(l)
           IN  /\ q \in LifetimeType
               /\ q.finished <=> q.state \in {"finish-flagged", "closed"}
               /\ q.state = "closed" <=> q.finished /\ Drained(q)
               /\ q.cursor = l.cursor
               /\ q.ends = l.ends
               /\ q.finished = l.finished
               /\ q.released = l.released
               /\ q.state = "absent" <=> l.state = "absent"
               /\ l.state = "closed" => q = l
  <2> USE <1>ReconcileSound
  <2> DEFINE q == Reconcile(l)
             flagged == \/ l.state = "finish-flagged"
                        \/ l.finished /\ l.state = "executing"
             st == CASE flagged /\ Drained(l) -> "closed"
                     [] flagged /\ ~Drained(l) -> "finish-flagged"
                     [] OTHER -> l.state
  <2>1. q = [l EXCEPT !.state = st]
    BY Zenon DEF Reconcile
  <2>2. CASE flagged /\ Drained(l)
    <3>1. st = "closed" /\ l.finished
      BY <2>2, Zenon DEF LifetimeType
    <3> HIDE DEF q, st, flagged
    <3>2. q \in LifetimeType /\ q.state = "closed" /\ q.cursor = l.cursor /\ q.ends = l.ends
          /\ q.finished = l.finished /\ q.released = l.released
      BY ZenonT(60), <2>1, <3>1 DEF LifetimeType
    <3>3. Drained(q)
      BY <2>2, <3>2, Zenon DEF Drained
    <3>4. l.state \notin {"absent", "closed"}
      BY <2>2, Zenon DEF flagged
    <3> QED
      BY <3>1, <3>2, <3>3, <3>4, Zenon DEF q
  <2>3. CASE flagged /\ ~Drained(l)
    <3>1. st = "finish-flagged" /\ l.finished
      BY <2>3, Zenon DEF LifetimeType
    <3> HIDE DEF q, st, flagged
    <3>2. q \in LifetimeType /\ q.state = "finish-flagged" /\ q.cursor = l.cursor
          /\ q.ends = l.ends /\ q.finished = l.finished /\ q.released = l.released
      BY ZenonT(60), <2>1, <3>1 DEF LifetimeType
    <3>3. ~Drained(q)
      BY <2>3, <3>2, Zenon DEF Drained
    <3>4. l.state \notin {"absent", "closed"}
      BY <2>3, Zenon DEF flagged
    <3> QED
      BY <3>1, <3>2, <3>3, <3>4, Zenon DEF q
  <2>4. CASE ~flagged
    <3>1. st = l.state
      BY <2>4, Zenon
    <3>2. l.finished <=> l.state = "closed"
      BY <2>4, Zenon DEF LifetimeType
    <3>3. l.state # "finish-flagged"
      BY <2>4, Zenon
    <3> HIDE DEF q, st, flagged
    <3>4. q = l
      BY <2>1, <3>1, Zenon DEF LifetimeType
    <3> QED
      BY <3>2, <3>3, <3>4, Zenon DEF q
  <2> QED
    BY <2>2, <2>3, <2>4, Zenon
\* The staged copy of one record: it is well formed but for the release of its
\* view, and it only moved forward.
<1>StagedSound.
    ASSUME ReducerTypeOK, NEW r \in Request, NEW S \in SUBSET Request,
           NEW sched \in [S -> Scheduled], NEW finished \in SUBSET Request,
           NEW ran \in [S -> SUBSET End],
           LifeInv(life[r]), life[r].state # "absent",
           r \in S => Enterable(life[r]),
           r \in finished => r \in S \/ Finishable(life[r])
    PROVE  StagedOK(Staged(r, sched, finished, ran), r, S, sched)
  <2> USE <1>StagedSound
  <2> DEFINE l == life[r]
             m == IF r \in S THEN Schedule(l, sched[r], ran[r]) ELSE l
             n == IF r \in finished THEN Finish(m) ELSE m
             q == Staged(r, sched, finished, ran)
  <2>1. l \in LifetimeType
    BY Zenon DEF ReducerTypeOK
  <2>2. q = Reconcile(n)
    BY Zenon DEF Staged
  <2>3. /\ m \in LifetimeType
        /\ r \in S => m.state = "executing" /\ ~m.finished /\ ~m.released
                      /\ m.cursor = Cover(l, sched[r]) /\ l.ends \subseteq m.ends
        /\ r \notin S => m = l
    <3>1. CASE r \in S
      <4>1. sched[r] \in Scheduled /\ ran[r] \in SUBSET End /\ Enterable(l)
        BY <3>1, Zenon
      <4>2. m = Schedule(l, sched[r], ran[r])
        BY <3>1, Zenon
      <4> HIDE DEF m, l
      <4>3. LifeInv(l) /\ l.state # "absent"
        BY Zenon DEF l
      <4> QED
        BY <2>1, <3>1, <4>1, <4>2, <4>3, <1>ScheduleSound, Zenon
    <3>2. CASE r \notin S
      BY <2>1, <3>2, Zenon
    <3> QED
      BY <3>1, <3>2, Zenon
  <2> HIDE DEF m
  <2>4. /\ n \in LifetimeType
        /\ n.finished <=> m.finished \/ r \in finished
        /\ n.state = m.state /\ n.cursor = m.cursor /\ n.ends = m.ends
        /\ n.released = m.released
        /\ r \notin finished => n = m
    BY ZenonT(60), <2>3 DEF Finish, LifetimeType
  <2>5. r \in finished => l.state \notin {"finish-flagged", "closed", "absent"} /\ ~l.finished
                          /\ (r \in S \/ l.state = "executing")
    BY <2>1, Zenon DEF LifeInv, Finishable, Enterable, LifetimeType
  <2>6. r \in S => l.state # "closed" /\ ~l.finished
    BY Zenon DEF Enterable
  <2>7. (l.finished <=> l.state \in {"finish-flagged", "closed"})
        /\ (l.state = "closed" => Drained(l)) /\ (l.released <=> l.state = "closed")
    BY Zenon DEF LifeInv
  <2>8. l.state # "absent"
    OBVIOUS
  <2> HIDE DEF l, n, q
  <2>9. n.finished => n.state \in {"executing", "finish-flagged", "closed"}
    BY <2>3, <2>4, <2>5, <2>6, <2>7, Zenon
  <2>10. ~n.finished => n.state \in {"absent", "joined", "executing"}
    BY <2>1, <2>3, <2>4, <2>7, Zenon DEF LifetimeType
  <2>11. n.state = "closed" => r \notin S /\ r \notin finished /\ n = l
    BY ZenonT(60), <2>3, <2>4, <2>5
  <2>12. n.state = "closed" => Drained(n)
    BY <2>7, <2>11, Zenon
  <2>13. /\ q \in LifetimeType
         /\ q.finished <=> q.state \in {"finish-flagged", "closed"}
         /\ q.state = "closed" <=> q.finished /\ Drained(q)
         /\ q.cursor = n.cursor /\ q.ends = n.ends /\ q.finished = n.finished
         /\ q.released = n.released
         /\ q.state = "absent" <=> n.state = "absent"
         /\ n.state = "closed" => q = n
    BY <2>2, <2>4, <2>9, <2>10, <2>12, <1>ReconcileSound, Zenon
  <2>14. l.state = "closed" => n = l
    BY <2>3, <2>4, <2>5, <2>6, Zenon
  <2>15. n.state # "absent"
    BY <2>3, <2>4, <2>8, Zenon
  <2>16. l.finished => n.finished
    BY <2>3, <2>4, <2>6, Zenon
  <2>17. n.released <=> l.state = "closed"
    BY <2>3, <2>4, <2>6, <2>7, Zenon
  <2>18. n.cursor = (IF r \in S THEN Cover(l, sched[r]) ELSE l.cursor) /\ l.ends \subseteq n.ends
    BY <2>3, <2>4, Zenon
  <2> QED
    BY <2>13, <2>14, <2>15, <2>16, <2>17, <2>18, Zenon DEF l, q, StagedOK
\* A cursor is a natural number.
<1>CursorType.
    ASSUME NEW l \in LifetimeType
    PROVE  l.cursor \in Nat /\ l.cursor =< l.cursor
  BY <1>CursorType, LifetimeAssumption DEF LifetimeType
\* The tokens a step accounts for lie in the view and close the gap between the
\* cursor before and after it.
<1>RoutedSound.
    ASSUME ReducerTypeOK, NEW r \in Request, NEW s \in Scheduled, Coverable(life[r], s),
           0 .. life[r].cursor - 1 \subseteq routed[r]
    PROVE  /\ Routed(r, s) \in SUBSET (0 .. TokenCount)
           /\ 0 .. Cover(life[r], s) - 1 \subseteq routed[r] \cup Routed(r, s)
  <2> USE <1>RoutedSound
  <2>1. life[r].cursor \in 0 .. TokenCount /\ TokenCount \in Nat
    BY LifetimeAssumption, Zenon DEF ReducerTypeOK, LifetimeType
  <2>2. s.new \in Nat /\ s.context \in 0 .. TokenCount /\ s.cached \in Nat
    BY <2>1 DEF Scheduled
  <2> QED
    BY <2>1, <2>2 DEF Routed, Cover, Coverable, Start
\* A sound metric stays sound as the clock moves on.
<1>MetricLater.
    ASSUME NEW m \in MetricType, NEW t \in Nat, NEW u \in Nat, t =< u, MetricInv(m, t)
    PROVE  MetricInv(m, u)
  <2> USE <1>MetricLater
  <2>1. m.through \in Int
    BY Zenon DEF MetricType
  <2>2. m.through =< u
    BY <2>1 DEF MetricInv
  <2> QED
    BY <2>2, Zenon DEF MetricInv
\* The observation a step starts from, new or carried over, is accounted up to
\* no later than the step's release.
<1>ObservedSound.
    ASSUME ReducerTypeOK, NEW r \in Request, Accountable(r),
           metric[r].first # NoTime => MetricInv(metric[r], now)
    PROVE  Observed(r) \in MetricType /\ MetricInv(Observed(r), now)
  <2> USE <1>ObservedSound
  <2>1. now \in Nat /\ metric[r] \in MetricType /\ bookkept \in BOOLEAN
    BY ReducerAssumption DEF ReducerTypeOK, Time
  <2>2. CASE metric[r].first # NoTime
    BY <2>1, <2>2, Zenon DEF Observed
  <2>3. CASE metric[r].first = NoTime
    <3> DEFINE t == IF bookkept THEN Arrival[r] ELSE now
               m == MetricFrom(t)
    <3>1. t \in Nat /\ t =< now
      BY <2>1, <2>3, ReducerAssumption DEF Accountable
    <3>2. Observed(r) = m
      BY <2>3, Zenon DEF Observed
    <3> HIDE DEF t
    <3>3. m.first = t /\ m.through = t /\ m.firstToken = NoTime
          /\ m.tokens = 0 /\ m.interCount = 0 /\ m.pending = 0 /\ m.interSum = 0
      BY <3>1, Zenon DEF MetricFrom, NoTime
    <3>4. m \in MetricType
      BY <3>1 DEF MetricFrom, MetricType, NoTime
    <3> HIDE DEF m
    <3>5. now \in Nat
      BY <2>1, Zenon
    <3>6. MetricInv(m, now)
      BY <3>1, <3>3, <3>5 DEF MetricInv
    <3> QED
      BY <3>2, <3>4, <3>6, Zenon
  <2> QED
    BY <2>2, <2>3, Zenon
\* A step without a token leaves its time pending.
<1>PendSound.
    ASSUME NEW m \in MetricType, now \in Nat, MetricInv(m, now),
           NEW c \in Nat, NEW e \in now .. c
    PROVE  Pend(m, e) \in MetricType /\ MetricInv(Pend(m, e), c)
  <2> USE <1>PendSound
  <2> DEFINE p == Interval(m, e)
             q == Pend(m, e)
  <2>1. p \in Int /\ p = m.pending + (e - m.through)
    BY DEF Interval, MetricType
  <2>2. q = [m EXCEPT !.pending = p, !.through = e]
    BY Zenon DEF Pend
  <2> HIDE DEF p, q
  <2>3. q \in MetricType /\ q.pending = p /\ q.through = e /\ q.first = m.first
        /\ q.firstToken = m.firstToken /\ q.lastToken = m.lastToken /\ q.tokens = m.tokens
        /\ q.interSum = m.interSum /\ q.interCount = m.interCount
    <3>1. e \in Int
      OBVIOUS
    <3>2. q \in MetricType
      BY ZenonT(60), <2>1, <2>2, <3>1 DEF MetricType
    <3> QED
      BY <2>2, <3>2, Zenon DEF MetricType
  <2>4. /\ m.first \in Int /\ m.through \in Int /\ m.firstToken \in Int /\ m.lastToken \in Int
        /\ m.pending \in Int /\ m.interSum \in Int /\ m.tokens \in Nat /\ m.interCount \in Nat
    BY Zenon DEF MetricType
  <2>5. MetricInv(q, c)
    BY <2>1, <2>3, <2>4 DEF MetricInv, NoTime
  <2> QED
    BY <2>3, <2>5, Zenon DEF q
\* A step with a token closes the interval at the token.
<1>EmitSound.
    ASSUME NEW m \in MetricType, now \in Nat, MetricInv(m, now),
           NEW c \in Nat, NEW e \in now .. c
    PROVE  Emit(m, e) \in MetricType /\ MetricInv(Emit(m, e), c)
  <2> USE <1>EmitSound
  <2> DEFINE ft == IF m.firstToken = NoTime THEN e ELSE m.firstToken
             is == m.interSum + (IF m.firstToken = NoTime THEN 0 ELSE e - m.lastToken)
             ic == m.interCount + (IF m.firstToken = NoTime THEN 0 ELSE 1)
             q == Emit(m, e)
  <2>1. /\ m.first \in Int /\ m.through \in Int /\ m.firstToken \in Int /\ m.lastToken \in Int
        /\ m.pending \in Int /\ m.interSum \in Int /\ m.tokens \in Nat /\ m.interCount \in Nat
    BY Zenon DEF MetricType
  <2>2. ft \in Int /\ is \in Int /\ ic \in Nat /\ m.tokens + 1 \in Nat /\ e \in Nat
    BY <2>1
  <2>3. q = [first |-> m.first, through |-> e, firstToken |-> ft, lastToken |-> e,
             tokens |-> m.tokens + 1, interSum |-> is, interCount |-> ic, pending |-> 0]
    BY Zenon DEF Emit
  <2>4. MetricInv(m, now)
    OBVIOUS
  <2> HIDE DEF q, ft, is, ic
  <2>5. q \in MetricType /\ q.pending = 0 /\ q.through = e /\ q.first = m.first
        /\ q.firstToken = ft /\ q.lastToken = e /\ q.tokens = m.tokens + 1
        /\ q.interSum = is /\ q.interCount = ic
    BY <2>1, <2>2, <2>3 DEF MetricType
  <2>6. ft # NoTime /\ ft >= 0
    BY <2>1, <2>4 DEF MetricInv, NoTime, ft
  <2>7. (ft - m.first) + is = e - m.first
    BY <2>1, <2>4 DEF MetricInv, ft, is
  <2>8. m.tokens + 1 = ic + 1
    BY <2>1, <2>4, Zenon DEF MetricInv, ic
  <2>9. 0 =< m.first /\ m.first =< e /\ e =< c
    BY <2>1, <2>4 DEF MetricInv
  <2>10. MetricInv(q, c)
    BY <2>1, <2>2, <2>5, <2>6, <2>7, <2>8, <2>9 DEF MetricInv
  <2> QED
    BY <2>5, <2>10, Zenon DEF q
\* No release callback raises, so one call of reduce commits everywhere: the
\* invariant holds after it and every lifetime moved forward.
<1>ReduceSound.
    ASSUME ReducerInv, NEW x \in Execution, NEW S \in SUBSET Request,
           NEW sched \in [S -> Scheduled], NEW sampled \in SUBSET S,
           NEW finished \in SUBSET Request, NEW ran \in [S -> SUBSET End],
           NEW completed \in Time, now =< completed,
           NEW endpoint \in [S -> now .. completed],
           Reduce(x, sched, sampled, finished, ran, endpoint, completed)
    PROVE  ReducerInv' /\ Forward
  <2> USE <1>ReduceSound
  <2> DEFINE st == [r \in Request |-> Staged(r, sched, finished, ran)]
             due == {r \in Request : st[r].state = "closed" /\ ~st[r].released}
             raises == ~open /\ due \cap live # {}
             Met(r) == IF r \notin DOMAIN sched THEN metric[r]
                       ELSE IF r \in sampled THEN Emit(Observed(r), endpoint[r])
                       ELSE Pend(Observed(r), endpoint[r])
  <2>1. /\ ReducerTypeOK
        /\ consumed = reduced
        /\ live = {r \in Request : life[r].state \notin {"absent", "closed"}}
        /\ ~open => live = {}
    BY Zenon DEF ReducerInv
  <2>2. ~raises
    BY <2>1, ZenonT(60)
  <2>3. /\ \A r \in S : Accountable(r) /\ Enterable(life[r]) /\ Coverable(life[r], sched[r])
        /\ \A r \in finished : r \in S \/ Finishable(life[r])
        /\ \A r \in Request : life[r].state # "absent"
    BY ZenonT(30) DEF Reduce, Consumable, Registered
  <2>4. /\ consumed' = consumed \cup {x} /\ reduced' = reduced \cup {x}
        /\ routed' = [r \in Request |-> routed[r] \cup
                         (IF r \in DOMAIN sched THEN Routed(r, sched[r]) ELSE {})]
        /\ life' = [r \in Request |-> IF r \in due THEN Released(st[r]) ELSE st[r]]
        /\ live' = live \ due /\ now' = completed
        /\ metric' = [r \in Request |-> Met(r)]
        /\ UNCHANGED <<open, bookkept>>
    <3>1. /\ consumed' = consumed \cup {x}
          /\ routed' = [r \in Request |-> routed[r] \cup
                           (IF r \in DOMAIN sched THEN Routed(r, sched[r]) ELSE {})]
          /\ life' = [r \in Request |->
                         IF r \in due /\ ~raises THEN Released(st[r]) ELSE st[r]]
          /\ live' = IF raises THEN live ELSE live \ due
          /\ now' = IF raises THEN now ELSE completed
          /\ metric' = [r \in Request |-> IF raises THEN metric[r] ELSE Met(r)]
          /\ reduced' = IF raises THEN reduced ELSE reduced \cup {x}
          /\ UNCHANGED <<open, bookkept>>
      BY ZenonT(60) DEF Reduce
    <3> HIDE DEF st, due, raises, Met
    <3> QED
      BY <2>2, <3>1, Zenon
  <2>20. \A r \in Request : r \in due <=> st[r].state = "closed" /\ ~st[r].released
    BY Zenon
  <2>21. ASSUME NEW r \in Request
         PROVE  Met(r) = IF r \notin S THEN metric[r]
                         ELSE IF r \in sampled THEN Emit(Observed(r), endpoint[r])
                         ELSE Pend(Observed(r), endpoint[r])
    <3>1. DOMAIN sched = S
      OBVIOUS
    <3> QED
      BY <3>1, Zenon
  <2> HIDE DEF due, raises, Met
  <2>5. ASSUME NEW r \in Request
        PROVE  /\ st[r] \in LifetimeType
               /\ st[r].finished <=> st[r].state \in {"finish-flagged", "closed"}
               /\ st[r].state = "closed" <=> st[r].finished /\ Drained(st[r])
               /\ st[r].cursor = IF r \in S THEN Cover(life[r], sched[r]) ELSE life[r].cursor
               /\ life[r].ends \subseteq st[r].ends
               /\ life[r].finished => st[r].finished
               /\ st[r].released <=> life[r].state = "closed"
               /\ st[r].state # "absent"
               /\ life[r].state = "closed" => st[r] = life[r]
    <3>1. LifeInv(life[r])
      BY Zenon DEF ReducerInv
    <3>2. st[r] = Staged(r, sched, finished, ran)
      OBVIOUS
    <3>3. /\ life[r].state # "absent"
          /\ r \in S => Enterable(life[r])
          /\ r \in finished => r \in S \/ Finishable(life[r])
      BY <2>3, Zenon
    <3> HIDE DEF st
    <3>4. StagedOK(Staged(r, sched, finished, ran), r, S, sched)
      BY <2>1, <3>1, <3>3, <1>StagedSound, ZenonT(60)
    <3>5. StagedOK(st[r], r, S, sched)
      BY <3>2, <3>4, Zenon
    <3> QED
      BY <3>5, Zenon DEF StagedOK
  <2> HIDE DEF st
  <2>6. ASSUME NEW r \in Request
        PROVE  /\ life'[r] \in LifetimeType
               /\ LifeInv(life'[r])
               /\ life'[r].cursor = st[r].cursor /\ life'[r].ends = st[r].ends
               /\ life'[r].finished = st[r].finished /\ life'[r].state = st[r].state
               /\ life[r].state = "closed" => life'[r] = life[r]
    <3>1. life'[r] = IF r \in due THEN Released(st[r]) ELSE st[r]
      BY <2>4, Zenon
    <3>2. r \in due <=> st[r].state = "closed" /\ ~st[r].released
      BY <2>20, Zenon
    <3>3. CASE r \in due
      <4>1. life'[r] = [st[r] EXCEPT !.released = TRUE]
        BY <3>1, <3>3, Zenon DEF Released
      <4>2. /\ life'[r] \in LifetimeType /\ life'[r].released
            /\ life'[r].cursor = st[r].cursor /\ life'[r].ends = st[r].ends
            /\ life'[r].finished = st[r].finished /\ life'[r].state = st[r].state
        BY <2>5, <4>1, ZenonT(60) DEF LifetimeType
      <4>3. Drained(life'[r]) <=> Drained(st[r])
        BY <4>2, Zenon DEF Drained
      <4> QED
        BY <2>5, <3>2, <3>3, <4>2, <4>3, Zenon DEF LifeInv
    <3>4. CASE r \notin due
      <4>1. life'[r] = st[r]
        BY <3>1, <3>4, Zenon
      <4>2. st[r].released <=> st[r].state = "closed"
        BY <2>5, <3>2, <3>4, Zenon
      <4> QED
        BY <2>5, <4>1, <4>2, Zenon DEF LifeInv
    <3> QED
      BY <3>3, <3>4, Zenon
  <2>7. Forward
    <3>1. ASSUME NEW r \in Request
          PROVE  life[r].cursor =< st[r].cursor
      <4>1. life[r] \in LifetimeType /\ (r \in S => sched[r] \in Scheduled)
        BY <2>1, Zenon DEF ReducerTypeOK
      <4>2. r \in S => life[r].cursor =< Cover(life[r], sched[r])
        BY <4>1, <1>CoverSound, Zenon
      <4>3. life[r].cursor =< life[r].cursor
        BY <4>1, <1>CursorType, Zenon
      <4> QED
        BY <2>5, <4>2, <4>3, Zenon
    <3> QED
      BY <2>5, <2>6, <3>1, Zenon DEF Forward
  <2>8. ASSUME NEW r \in Request
        PROVE  metric'[r] \in MetricType
               /\ (metric'[r].first # NoTime => MetricInv(metric'[r], now'))
    <3>1. now' = completed
          /\ metric'[r] = IF r \notin S THEN metric[r]
                          ELSE IF r \in sampled THEN Emit(Observed(r), endpoint[r])
                          ELSE Pend(Observed(r), endpoint[r])
      BY <2>4, <2>21, Zenon
    <3>2. now \in Nat /\ completed \in Nat /\ metric[r] \in MetricType
      <4>1. now \in Time /\ metric \in [Request -> MetricType]
        BY <2>1, ZenonT(30) DEF ReducerTypeOK
      <4> QED
        BY <4>1, ReducerAssumption DEF Time
    <3>3. metric[r].first # NoTime => MetricInv(metric[r], now)
      BY Zenon DEF ReducerInv
    <3>4. CASE r \in S
      <4>1. Observed(r) \in MetricType /\ MetricInv(Observed(r), now)
        BY <2>1, <2>3, <3>3, <3>4, <1>ObservedSound, Zenon
      <4>2. endpoint[r] \in now .. completed
        BY <3>4, Zenon
      <4>3. /\ Emit(Observed(r), endpoint[r]) \in MetricType
            /\ MetricInv(Emit(Observed(r), endpoint[r]), completed)
        BY <3>2, <4>1, <4>2, <1>EmitSound, Zenon
      <4>4. /\ Pend(Observed(r), endpoint[r]) \in MetricType
            /\ MetricInv(Pend(Observed(r), endpoint[r]), completed)
        BY <3>2, <4>1, <4>2, <1>PendSound, Zenon
      <4> QED
        BY <3>1, <3>4, <4>3, <4>4, Zenon
    <3>5. CASE r \notin S
      <4>1. metric'[r] = metric[r]
        BY <3>1, <3>5, Zenon
      <4>2. MetricInv(metric[r], now) => MetricInv(metric[r], completed)
        BY <3>2, <1>MetricLater, Zenon
      <4> QED
        BY <3>1, <3>2, <3>3, <4>1, <4>2, Zenon
    <3> QED
      BY <3>4, <3>5, Zenon
  <2>9. ASSUME NEW r \in Request
        PROVE  /\ routed'[r] \in SUBSET (0 .. TokenCount)
               /\ 0 .. life'[r].cursor - 1 \subseteq routed'[r]
    <3>1. 0 .. life[r].cursor - 1 \subseteq routed[r] /\ routed[r] \in SUBSET (0 .. TokenCount)
      BY <2>1, Zenon DEF ReducerInv, ReducerTypeOK
    <3>2. CASE r \in S
      <4>1. /\ Routed(r, sched[r]) \in SUBSET (0 .. TokenCount)
            /\ 0 .. Cover(life[r], sched[r]) - 1 \subseteq routed[r] \cup Routed(r, sched[r])
        BY <2>1, <2>3, <3>1, <3>2, <1>RoutedSound, Zenon
      <4>2. routed'[r] = routed[r] \cup Routed(r, sched[r])
        BY <2>4, <3>2, Zenon
      <4> QED
        BY <2>5, <2>6, <3>1, <3>2, <4>1, <4>2, ZenonT(30)
    <3>3. CASE r \notin S
      <4>1. routed'[r] = routed[r]
        BY <2>4, <3>3, Zenon
      <4> QED
        BY <2>5, <2>6, <3>1, <3>3, <4>1, ZenonT(30)
    <3> QED
      BY <3>2, <3>3, Zenon
  <2>10. live' = {r \in Request : life'[r].state \notin {"absent", "closed"}}
    <3>1. live' = live \ due
      BY <2>4, Zenon
    <3>2. ASSUME NEW r \in Request
          PROVE  r \in live \ due <=> life'[r].state \notin {"absent", "closed"}
      BY <2>1, <2>3, <2>5, <2>6, <2>20, ZenonT(30)
    <3> QED
      BY <2>1, <3>1, <3>2, Zenon
  <2>11. consumed' = reduced' /\ consumed' \in SUBSET Execution
    BY <2>1, <2>4, Zenon DEF ReducerTypeOK
  <2>12. now' \in Time /\ open' \in BOOLEAN /\ bookkept' \in BOOLEAN
    BY <2>1, <2>4, Zenon DEF ReducerTypeOK
  <2>13. ~open' => live' = {}
    BY <2>1, <2>4, Zenon
  <2>14. life' \in [Request -> LifetimeType] /\ metric' \in [Request -> MetricType]
         /\ routed' \in [Request -> SUBSET (0 .. TokenCount)]
    <3>1. life' = [r \in Request |-> life'[r]] /\ metric' = [r \in Request |-> metric'[r]]
          /\ routed' = [r \in Request |-> routed'[r]]
      BY <2>4, Zenon
    <3> QED
      BY <2>6, <2>8, <2>9, <3>1, Zenon
  <2>15. ReducerTypeOK'
    BY <2>10, <2>11, <2>12, <2>14, Zenon DEF ReducerTypeOK
  <2> QED
    BY <2>6, <2>7, <2>8, <2>9, <2>10, <2>11, <2>13, <2>15, Zenon DEF ReducerInv
\* A step of the session is a call of reduce with well-typed arguments.
<1>StepSound.
    ASSUME ReducerInv, Step
    PROVE  ReducerInv' /\ Forward
  <2> USE <1>StepSound
  <2>1. PICK x \in Execution, S \in Batch, finished \in Batch :
          /\ 1 .. x - 1 \subseteq reduced
          /\ S \cup finished # {}
          /\ \E sched \in [S -> StepInput] :
               /\ Consumable(x, sched, finished)
               /\ \E completed \in (now .. now + MaxLatency) \cap Time, sampled \in SUBSET S :
                  \E endpoint \in [S -> now .. completed],
                     ran \in [{r \in S : ReachesFinal(life[r], sched[r])} -> Outcome] :
                     Reduce(x, sched, sampled, finished,
                            [r \in S |-> IF r \in DOMAIN ran THEN ran[r] ELSE {}],
                            endpoint, completed)
    BY Zenon DEF Step
  <2>2. PICK sched \in [S -> StepInput] :
               \E completed \in (now .. now + MaxLatency) \cap Time, sampled \in SUBSET S :
                  \E endpoint \in [S -> now .. completed],
                     ran \in [{r \in S : ReachesFinal(life[r], sched[r])} -> Outcome] :
                     Reduce(x, sched, sampled, finished,
                            [r \in S |-> IF r \in DOMAIN ran THEN ran[r] ELSE {}],
                            endpoint, completed)
    BY <2>1, Zenon
  <2>20. PICK completed \in (now .. now + MaxLatency) \cap Time, sampled \in SUBSET S :
                  \E endpoint \in [S -> now .. completed],
                     ran \in [{r \in S : ReachesFinal(life[r], sched[r])} -> Outcome] :
                     Reduce(x, sched, sampled, finished,
                            [r \in S |-> IF r \in DOMAIN ran THEN ran[r] ELSE {}],
                            endpoint, completed)
    BY <2>2, Zenon
  <2>3. PICK endpoint \in [S -> now .. completed],
             ran \in [{r \in S : ReachesFinal(life[r], sched[r])} -> Outcome] :
          Reduce(x, sched, sampled, finished,
                 [r \in S |-> IF r \in DOMAIN ran THEN ran[r] ELSE {}],
                 endpoint, completed)
    BY <2>20, Zenon
  <2> DEFINE ranOn == [r \in S |-> IF r \in DOMAIN ran THEN ran[r] ELSE {}]
  <2>4. S \in SUBSET Request /\ finished \in SUBSET Request
    BY Zenon DEF Batch
  <2>5. sched \in [S -> Scheduled]
    BY Zenon DEF StepInput
  <2>6. completed \in Time /\ now =< completed
    BY ReducerAssumption DEF ReducerInv, ReducerTypeOK, Time
  <2>7. Outcome \subseteq SUBSET End
    BY Zenon DEF Outcome
  <2>8. ranOn \in [S -> SUBSET End]
    BY <2>7, Zenon
  <2>9. Reduce(x, sched, sampled, finished, ranOn, endpoint, completed)
    BY <2>3, Zenon
  <2> HIDE DEF ranOn
  <2> QED
    BY <2>4, <2>5, <2>6, <2>8, <2>9, <1>ReduceSound, Zenon
\* The steps that do not reduce: joining, giving the views back, closing the
\* arena and letting time pass.
<1>OtherSound.
    ASSUME ReducerInv,
           \/ \E r \in Request : Join(r)
           \/ JoinFailed
           \/ CloseArena
           \/ \E t \in Time : AdvanceTo(t)
           \/ UNCHANGED reducerVars
    PROVE  ReducerInv' /\ Forward
  <2> USE <1>OtherSound
  <2>1. /\ ReducerTypeOK
        /\ live = {r \in Request : life[r].state \notin {"absent", "closed"}}
        /\ ~open => live = {}
    BY Zenon DEF ReducerInv
  <2>2. Absent \in LifetimeType /\ Joined \in LifetimeType
    <3>1. 0 \in 0 .. TokenCount
      BY LifetimeAssumption
    <3>2. Absent \in LifetimeType
      BY <3>1, Zenon DEF Absent, LifetimeType
    <3> QED
      BY <3>2, Zenon DEF Joined, LifetimeType
  <2>3. Absent.state = "absent" /\ Absent.cursor = 0 /\ Joined.state = "joined" /\ Joined.cursor = 0
    BY Zenon DEF Absent, Joined
  <2>4. LifeInv(Absent) /\ LifeInv(Joined)
    BY LifetimeAssumption, Zenon DEF LifeInv, Drained, Absent, Joined
  <2>5. ASSUME UNCHANGED life PROVE Forward
    <3>1. \A r \in Request : life[r].cursor =< life[r].cursor
      BY <2>1, LifetimeAssumption DEF ReducerTypeOK, LifetimeType
    <3> QED
      BY <2>5, <3>1, Zenon DEF Forward
  <2>6. ASSUME NEW r \in Request, Join(r)
        PROVE  ReducerInv' /\ Forward
    <3>1. life' = [life EXCEPT ![r] = Joined]
          /\ UNCHANGED <<consumed, open, now, metric, reduced, bookkept, routed>>
          /\ live' = live \cup {r} /\ open /\ life[r].state = "absent"
      BY <2>6, Zenon DEF Join
    <3>2. \A q \in Request : life'[q] = IF q = r THEN Joined ELSE life[q]
      BY <2>1, <3>1, Zenon DEF ReducerTypeOK
    <3>3. ReducerTypeOK'
      BY <2>1, <2>2, <3>1, Zenon DEF ReducerTypeOK
    <3>4. live' = {q \in Request : life'[q].state \notin {"absent", "closed"}}
      BY <2>1, <2>3, <3>1, <3>2
    <3>5. \A q \in Request : LifeInv(life'[q])
      BY <2>4, <3>2, Zenon DEF ReducerInv
    <3>6. \A q \in Request : 0 .. life'[q].cursor - 1 \subseteq routed'[q]
      <4>1. \A q \in Request : 0 .. life[q].cursor - 1 \subseteq routed[q]
        BY Zenon DEF ReducerInv
      <4>2. 0 .. Joined.cursor - 1 = {}
        BY <2>3
      <4> HIDE DEF Joined
      <4> QED
        BY <3>1, <3>2, <4>1, <4>2, ZenonT(60)
    <3>7. Forward
      <4>1. life[r] = Absent
        BY <3>1, Zenon DEF ReducerInv, LifeInv
      <4>2. \A q \in Request : life[q].cursor =< life[q].cursor
        BY <2>1, LifetimeAssumption DEF ReducerTypeOK, LifetimeType
      <4> QED
        BY <3>2, <4>1, <4>2 DEF Forward, Absent, Joined
    <3> QED
      BY <3>1, <3>3, <3>4, <3>5, <3>6, <3>7, Zenon DEF ReducerInv
  <2>7. CASE JoinFailed
    <3>1. life' = [r \in Request |-> Absent] /\ live' = {}
          /\ UNCHANGED <<consumed, open, now, metric, reduced, bookkept, routed>>
      BY <2>7, Zenon DEF JoinFailed
    <3>2. ReducerTypeOK'
      BY <2>1, <2>2, <3>1, Zenon DEF ReducerTypeOK
    <3>3. live' = {q \in Request : life'[q].state \notin {"absent", "closed"}}
      BY <2>3, <3>1, Zenon
    <3>4. \A q \in Request : 0 .. life'[q].cursor - 1 \subseteq routed'[q]
      BY <2>3, <3>1
    <3>5. \A q \in Request : LifeInv(life'[q])
      BY <2>4, <3>1, Zenon
    <3>6. Forward
      BY <2>3, <3>1, Zenon DEF Forward
    <3> QED
      BY <3>1, <3>2, <3>3, <3>4, <3>5, <3>6, Zenon DEF ReducerInv
  <2>8. CASE CloseArena
    <3>1. UNCHANGED life /\ ReducerTypeOK' /\ live' = {}
      BY ZenonT(60), <2>1, <2>8 DEF CloseArena, ReducerTypeOK
    <3> QED
      BY <2>5, <2>8, <3>1, Zenon DEF ReducerInv, CloseArena
  <2>9. ASSUME NEW t \in Time, AdvanceTo(t)
        PROVE  ReducerInv' /\ Forward
    <3>1. UNCHANGED life /\ ReducerTypeOK'
      BY <2>1, <2>9, Zenon DEF AdvanceTo, ReducerTypeOK
    <3>2. \A r \in Request : metric'[r].first # NoTime => MetricInv(metric'[r], now')
      <4>1. now \in Nat /\ t \in Nat /\ now' = t /\ t > now /\ metric' = metric
        BY <2>1, <2>9, ReducerAssumption DEF AdvanceTo, ReducerTypeOK, Time
      <4>2. \A r \in Request : MetricInv(metric[r], now) => MetricInv(metric[r], t)
        BY <2>1, <4>1, <1>MetricLater DEF ReducerTypeOK
      <4> QED
        BY <4>1, <4>2, Zenon DEF ReducerInv
    <3> QED
      BY <2>5, <2>9, <3>1, <3>2, Zenon DEF ReducerInv, AdvanceTo
  <2>10. CASE UNCHANGED reducerVars
    <3>1. UNCHANGED life
      BY <2>10, Zenon DEF reducerVars
    <3> QED
      BY <2>5, <2>10, <3>1, Zenon DEF ReducerInv, ReducerTypeOK, reducerVars
  <2> QED
    BY <2>6, <2>7, <2>8, <2>9, <2>10, Zenon
<1> QED BY <1>StepSound, <1>OtherSound, Zenon DEF ReducerNext

\* The invariant always holds.
LEMMA ReducerAlways == ReducerSpec => []ReducerInv
BY InitSound, NextSound, PTL DEF ReducerSpec

\* The registry and the reducer always hold the same executions, and a view is
\* live exactly while its request is registered and open.
THEOREM StepsCommitTogether == ReducerSpec => []CommitsTogether
PROOF
<1>1. ReducerInv => CommitsTogether
  BY Zenon DEF ReducerInv, LifeInv, CommitsTogether
<1> QED
  BY <1>1, ReducerAlways, PTL

\* A request is closed exactly when it is finished and drained.
THEOREM ClosingIsExact == ReducerSpec => []ClosedWhenDrained
PROOF
<1>1. ReducerInv => ClosedWhenDrained
  BY Zenon DEF ReducerInv, LifeInv, ClosedWhenDrained
<1> QED
  BY <1>1, ReducerAlways, PTL

\* No token below a cursor was skipped.
THEOREM TokensAreCovered == ReducerSpec => []NoTokenSkipped
PROOF
<1>1. ReducerInv => NoTokenSkipped
  BY Zenon DEF ReducerInv, NoTokenSkipped
<1> QED
  BY <1>1, ReducerAlways, PTL

\* The time of every request is conserved over any history of steps.
THEOREM TimeIsConserved == ReducerSpec => []TimeConserved
PROOF
<1>1. ReducerInv => TimeConserved
  BY Zenon DEF ReducerInv, MetricInv, TimeConserved
<1> QED
  BY <1>1, ReducerAlways, PTL

\* A lifetime record only moves forward.
THEOREM LifetimesMoveForward == ReducerSpec => LifetimeForward
PROOF
<1>1. ReducerInv /\ [ReducerNext]_reducerVars => [Forward]_reducerVars
  BY NextSound, Zenon
<1> QED
  BY <1>1, ReducerAlways, PTL DEF ReducerSpec, LifetimeForward, Forward

-----------------------------------------------------------------------------
(* The engine-step authority. *)

\* Appending an element of S to a sequence over S gives a sequence over S.
LEMMA AppendSeq ==
    ASSUME NEW S, NEW s \in Seq(S), NEW x \in S
    PROVE  Append(s, x) \in Seq(S)
OBVIOUS

\* What the argument is about; the rest of the state can only refuse a call.
core == <<seen, pending, used, sequence, retiring, published, results, claims>>

\* The types of these variables.
CoreType ==
    /\ seen \in Nat /\ sequence \in Nat
    /\ pending \subseteq Receipt /\ results \in Seq(Receipt)
    /\ retiring \subseteq pending /\ published \subseteq Publishers
    /\ claims \in [Publishers -> Seq([step : Receipt, at : Nat])]

\* The times of the clock's events.
HeapTimes == clock \in Nat /\ \A h \in heap : h.at \in Nat

Result == 1 .. Len(results)

\* Sequence numbers are handed out once.
Numbered ==
    /\ \A p \in pending : p.sequence < sequence
    /\ \A p, q \in pending : p.sequence = q.sequence => p = q
    /\ \A i \in Result : results[i].sequence < sequence
    /\ \A i \in Result, p \in pending : results[i].sequence # p.sequence

\* What is recorded was due, and before everything pending.
RecordedFirst ==
    \A i \in Result :
       /\ results[i].completed =< seen
       /\ \A p \in pending : DueBefore(results[i], p)

\* At most one step is in retirement: the next one, due now.
OneRetiring ==
    /\ \A p, q \in retiring : p = q
    /\ \A p \in retiring :
          p.completed = seen /\ \A q \in pending : DueBefore(p, q)

\* The inductive invariant for the order.
OrderInv ==
    /\ CoreType /\ Numbered /\ RecordedFirst /\ OneRetiring
    /\ NoCompletionSkipped /\ DueRetiredFirst /\ RetiredInDueOrder

\* The five steps that change the core; all others leave it alone.
LEMMA CoreSteps ==
    ASSUME [EngineNext]_engineVars
    PROVE  \/ UNCHANGED core
           \/ \E e \in Engines, s \in StepIndices, l \in Latencies, w \in BOOLEAN :
                 Submit(e, s, l, w)
           \/ \E t \in Instant : EngineAdvanceTo(t)
           \/ \E p \in pending :
                 /\ CheckAction /\ Retirable(p) /\ retiring' = {p}
                 /\ UNCHANGED <<seen, pending, used, sequence, published,
                                results, claims>>
           \/ \E p \in retiring, b \in Publishers : ClaimPublication(p, b)
           \/ \E p \in pending : CompleteEnd(p)
<1> USE DEF core, engineVars, stepVars, clockVars
<1>1. ASSUME NEW check, EngineRefused(check)
      PROVE  UNCHANGED core
  BY <1>1, Zenon DEF EngineRefused
<1>2. ASSUME NEW p, CompleteBegin(p)
      PROVE  \/ UNCHANGED core
             \/ /\ CheckAction /\ Retirable(p) /\ retiring' = {p}
                /\ UNCHANGED <<seen, pending, used, sequence, published,
                               results, claims>>
  BY <1>2, Zenon DEF CompleteBegin
<1>3. ASSUME NEW p, Retirable(p)
      PROVE  p \in pending
  BY <1>3, Zenon DEF Retirable
<1>4. ASSUME NEW p, NEW b, ClaimPublication(p, b)
      PROVE  p \in retiring
  BY <1>4, Zenon DEF ClaimPublication, Claimable
<1>5. ASSUME Meddle
      PROVE  UNCHANGED core
  BY <1>5, Zenon DEF Meddle
<1>6. CASE UNCHANGED engineVars
  BY <1>6, Zenon
<1>7. CASE NextCompletion \/ Invalidate \/ Close \/ CloseRefused
  BY <1>7, <1>1, Zenon DEF NextCompletion, Invalidate, Close, CloseRefused
<1>8. CASE \E e \in Engines, s \in StepIndices, l \in Latencies, w \in BOOLEAN :
              Submit(e, s, l, w) \/ SubmitRefused(e, s, l, w)
  BY <1>8, <1>1, Zenon DEF SubmitRefused
<1>9. CASE \E t \in Instant : EngineAdvanceTo(t) \/ AdvanceRefused(t)
  BY <1>9, <1>1, Zenon DEF AdvanceRefused
<1>10. CASE CompleteDue
  <2>1. CASE EngineRefused(CheckAction)
    BY <2>1, <1>1, Zenon
  <2>2. CASE \E p \in pending : CompleteBegin(p) \/ CompleteRefused(p)
    BY <2>2, <1>1, <1>2, Zenon DEF CompleteRefused
  <2> QED
    BY <1>10, <2>1, <2>2, Zenon DEF CompleteDue
<1>11. CASE \E p \in Known : CompleteBegin(p) \/ CompleteRefused(p)
  BY <1>11, <1>1, <1>2, <1>3, Zenon DEF CompleteRefused
<1>12. CASE \E p \in Known, b \in Publishers :
               ClaimPublication(p, b) \/ ClaimRefused(p, b)
  BY <1>12, <1>1, <1>4, Zenon DEF ClaimRefused
<1>13. CASE \E p \in pending : CompleteEnd(p)
  BY <1>13, Zenon
<1>14. CASE CompleteFails \/ CompleteInterrupted
  BY <1>14, Zenon DEF CompleteFails, CompleteInterrupted
<1>15. CASE \/ \E t \in Instant : ForeignAdvance(t) \/ ForeignSchedule(t)
            \/ ForeignPop \/ ReplaceOwner
            \/ \E p \in pending : ForgeReceipt(p) \/ ChangeValues(p)
  BY <1>15, <1>5, Zenon DEF ForeignAdvance, ForeignSchedule, ForeignPop,
     ReplaceOwner, ForgeReceipt, ChangeValues
<1> QED
  BY <1>6, <1>7, <1>8, <1>9, <1>10, <1>11, <1>12, <1>13, <1>14, <1>15, Zenon
     DEF EngineNext

\* The fields of what is pending and recorded are numbers.
LEMMA Fields ==
    ASSUME CoreType
    PROVE  /\ \A p \in pending : /\ p.sequence \in Nat /\ p.completed \in Nat
                                 /\ p.submitted \in Nat
           /\ \A i \in Result : results[i] \in Receipt
           /\ \A i \in Result : /\ results[i].sequence \in Nat
                               /\ results[i].completed \in Nat
                               /\ results[i].submitted \in Nat
           /\ seen \in Nat /\ sequence \in Nat /\ Len(results) \in Nat
<1>1. \A p \in Receipt : /\ p.sequence \in Nat /\ p.completed \in Nat
                         /\ p.submitted \in Nat
  BY Zenon DEF Receipt
<1>2. results \in Seq(Receipt) /\ pending \subseteq Receipt
      /\ seen \in Nat /\ sequence \in Nat
  BY Zenon DEF CoreType
<1>3. Len(results) \in Nat /\ \A i \in Result : results[i] \in Receipt
  BY <1>2 DEF Result
<1> QED
  BY <1>1, <1>2, <1>3, Zenon

\* Nothing is submitted while anything is due, so what is pending is due later:
\* the clock's next event and the earliest completion agree.
LEMMA PendingIsLater ==
    ASSUME CoreType, HeapTimes, NoCompletionSkipped, CheckAction, ~PeeksAt(seen),
           NEW p \in pending
    PROVE  seen < p.completed
<1>1. p \in Active /\ seen =< p.completed
      /\ seen \in Nat /\ p.completed \in Nat
  BY Zenon
     DEF CheckAction, Active, NoCompletionSkipped, CoreType, HeapTimes, Receipt
<1>2. SUFFICES ASSUME p.completed = seen PROVE PeeksAt(seen)
  BY <1>1
<1>3. PICK h \in heap : h.at =< seen
  BY <1>1, <1>2, Zenon DEF CheckAction, CheckLive, SameEarliest
<1>4. \A g \in heap : g.at \in Nat /\ seen =< g.at
  <2> TAKE g \in heap
  <2>1. PICK q \in pending : q.completed =< g.at
    BY Zenon DEF CheckAction, CheckLive, SameEarliest, Active
  <2> QED
    BY <2>1 DEF NoCompletionSkipped, CoreType, HeapTimes, Receipt
<1> QED
  BY <1>1, <1>3, <1>4 DEF PeeksAt

\* A new step is due after everything recorded and has the highest number.
LEMMA SubmitOrder ==
    ASSUME OrderInv, HeapTimes, NEW e \in Engines, NEW s \in StepIndices,
           NEW l \in Latencies, NEW w \in BOOLEAN, Submit(e, s, l, w)
    PROVE  OrderInv'
<1> DEFINE r == [engine |-> e, step |-> s, sequence |-> sequence,
                 submitted |-> seen, completed |-> seen + l]
<1>1. /\ pending' = pending \cup {r} /\ sequence' = sequence + 1
      /\ UNCHANGED <<seen, retiring, published, results, claims>>
      /\ retiring = {} /\ CheckAction /\ ~PeeksAt(seen)
  BY Zenon DEF Submit, CheckAction, Submittable
<1>2. /\ r \in Receipt /\ r.sequence = sequence /\ r.submitted = seen
      /\ r.completed = seen + l /\ seen =< r.completed
  BY EngineStepsAssumption DEF Receipt, OrderInv, CoreType
<1> HIDE DEF r
<1>3. CoreType'
  <2>1. CoreType
    BY Zenon DEF OrderInv
  <2>2. sequence' \in Nat /\ pending' \subseteq Receipt /\ retiring' \subseteq pending'
    BY <2>1, <1>1, <1>2 DEF CoreType
  <2> QED
    BY <2>1, <2>2, <1>1, Zenon DEF CoreType
<1>4. /\ \A p \in pending : /\ p.sequence \in Nat /\ p.completed \in Nat
                            /\ p.submitted \in Nat
      /\ \A i \in Result : /\ results[i].sequence \in Nat
                          /\ results[i].completed \in Nat
      /\ seen \in Nat /\ sequence \in Nat /\ Result' = Result
  BY <1>1, Fields, Zenon DEF OrderInv, Result
<1>5. Numbered'
  <2>1. Numbered
    BY Zenon DEF OrderInv
  <2>2. \A n \in Nat : n < sequence => n < sequence + 1 /\ n # sequence
    BY <1>4
  <2> QED
    BY <2>1, <2>2, <1>1, <1>2, <1>4 DEF Numbered
<1>6. RecordedFirst'
  <2>1. \A i \in Result : /\ results[i].completed =< seen
                         /\ results[i].sequence < sequence
                         /\ \A p \in pending : DueBefore(results[i], p)
    BY Zenon DEF OrderInv, Numbered, RecordedFirst
  <2>2. \A i \in Result : DueBefore(results[i], r)
    BY <2>1, <1>2, <1>4, EngineStepsAssumption DEF DueBefore
  <2> QED
    BY <2>1, <2>2, <1>1, <1>4, Zenon DEF RecordedFirst
<1>7. OneRetiring' /\ NoCompletionSkipped' /\ RetiredInDueOrder'
  BY <1>1, <1>2, <1>4, ZenonT(30)
     DEF OrderInv, OneRetiring, NoCompletionSkipped, RetiredInDueOrder, Result
<1>8. DueRetiredFirst'
  <2>1. \A p \in pending : seen < p.completed
    BY <1>1, PendingIsLater, Zenon DEF OrderInv
  <2>2. \A q \in Known : q.sequence \in Nat /\ q.sequence < sequence
    BY <1>4, ZenonT(30) DEF OrderInv, Numbered, Known, Result
  <2>3. Known' = Known \cup {r}
    BY <1>1, Zenon DEF Known
  <2>4. \A p \in pending, q \in Known :
           p.sequence < q.sequence => q.submitted < p.completed
    BY Zenon DEF OrderInv, DueRetiredFirst
  <2>5. ASSUME NEW p \in pending, NEW q \in Known', p.sequence < q.sequence
        PROVE  q.submitted < p.completed
    <3>1. CASE q \in Known
      BY <2>4, <2>5, <3>1, Zenon
    <3>2. CASE q = r
      BY <2>1, <2>5, <3>2, <1>2, Zenon
    <3> QED BY <2>3, <2>5, <3>1, <3>2, Zenon
  <2>6. ASSUME NEW q \in Known', r.sequence < q.sequence
        PROVE  FALSE
    <3>1. r.sequence = sequence
      BY <1>2, Zenon
    <3>2. /\ \A n \in Nat : n < sequence => ~(sequence < n)
          /\ ~(sequence < sequence)
      BY <1>4
    <3>3. CASE q \in Known
      BY <2>2, <2>6, <3>1, <3>2, <3>3, Zenon
    <3>4. CASE q = r
      BY <2>6, <3>1, <3>2, <3>4, Zenon
    <3> QED BY <2>3, <2>6, <3>3, <3>4, Zenon
  <2>7. pending' = pending \cup {r}
    BY <1>1, Zenon
  <2> QED
    BY <2>5, <2>6, <2>7, Zenon DEF DueRetiredFirst
<1> QED
  BY <1>3, <1>5, <1>6, <1>7, <1>8, Zenon DEF OrderInv

\* advance_to stops at the clock's next event, hence at the next completion.
LEMMA AdvanceOrder ==
    ASSUME OrderInv, HeapTimes, NEW t \in Instant, EngineAdvanceTo(t)
    PROVE  OrderInv'
<1>1. /\ seen' = t /\ t >= seen /\ retiring = {} /\ t \in Nat
      /\ UNCHANGED <<pending, sequence, retiring, published, results, claims>>
  BY EngineStepsAssumption DEF EngineAdvanceTo, CheckAction, stepVars, Instant
<1>2. \A p \in pending : t =< p.completed
  <2> TAKE p \in pending
  <2>1. PICK h \in heap : h.at =< p.completed
    BY <1>1, Zenon DEF EngineAdvanceTo, CheckAction, CheckLive, SameEarliest, Active
  <2>2. t =< h.at /\ h.at \in Nat /\ p.completed \in Nat
    BY Zenon DEF EngineAdvanceTo, WithinDue, HeapTimes, OrderInv, CoreType, Receipt
  <2> QED
    BY <2>1, <2>2, <1>1
<1>3. CoreType' /\ Numbered' /\ DueRetiredFirst' /\ RetiredInDueOrder'
  BY <1>1, ZenonT(60) DEF OrderInv, CoreType, Numbered, DueRetiredFirst, Known,
     RetiredInDueOrder, Result
<1>4. OneRetiring' /\ NoCompletionSkipped'
  BY <1>1, <1>2, Zenon DEF OneRetiring, NoCompletionSkipped
<1>5. RecordedFirst'
  <2>1. \A i \in Result : results[i].completed \in Nat /\ seen \in Nat
    BY Fields, Zenon DEF OrderInv
  <2> QED
    BY <2>1, <1>1 DEF OrderInv, RecordedFirst, Result
<1> QED
  BY <1>3, <1>4, <1>5, Zenon DEF OrderInv

\* The retired step goes behind the recorded ones and before all others.
LEMMA EndOrder ==
    ASSUME OrderInv, NEW p \in pending, CompleteEnd(p)
    PROVE  OrderInv'
<1>1. /\ p \in retiring /\ results' = Append(results, p)
      /\ pending' = pending \ {p} /\ retiring' = {} /\ published' = {}
      /\ UNCHANGED <<seen, sequence, claims>>
  BY Zenon DEF CompleteEnd
<1>2. /\ p.completed = seen /\ \A q \in pending : DueBefore(p, q)
      /\ p.sequence < sequence
      /\ \A q \in pending : q.sequence = p.sequence => q = p
  BY <1>1, Zenon DEF OrderInv, OneRetiring, Numbered
<1>3. CoreType /\ p \in Receipt /\ results \in Seq(Receipt)
  BY Zenon DEF OrderInv, CoreType
<1>4. /\ Len(results') = Len(results) + 1 /\ Len(results) \in Nat
      /\ results'[Len(results) + 1] = p
      /\ \A i \in Result : results'[i] = results[i]
  BY <1>1, <1>3 DEF Result
<1>5. \A i \in Result' : i \in Result \/ (i = Len(results) + 1 /\ results'[i] = p)
  BY <1>4 DEF Result
<1>6. CoreType'
  <2>1. results' \in Seq(Receipt)
    BY <1>1, <1>3
  <2> QED
    BY <2>1, <1>1, <1>3, Zenon DEF CoreType
<1>7. /\ \A i \in Result : /\ results[i].sequence < sequence
                          /\ results[i].completed =< seen
                          /\ \A q \in pending : /\ results[i].sequence # q.sequence
                                                /\ DueBefore(results[i], q)
      /\ \A q, r \in pending : q.sequence = r.sequence => q = r
      /\ \A q \in pending : q.sequence < sequence
  BY Zenon DEF OrderInv, Numbered, RecordedFirst
<1>8. Numbered'
  <2>1. \A i \in Result' : results'[i].sequence < sequence
    BY <1>2, <1>4, <1>5, <1>7, Zenon
  <2>2. \A i \in Result', q \in pending' : results'[i].sequence # q.sequence
    <3> TAKE i \in Result', q \in pending'
    <3>1. q \in pending /\ q # p
      BY <1>1, Zenon
    <3> QED
      BY <3>1, <1>2, <1>4, <1>5, <1>7
  <2> QED
    BY <2>1, <2>2, <1>1, <1>7, Zenon DEF Numbered
<1>9. RecordedFirst'
  <2>1. seen =< seen
    BY <1>3, Fields
  <2> QED
    BY <2>1, <1>1, <1>2, <1>4, <1>5, <1>7, Zenon DEF RecordedFirst
<1>10. OneRetiring' /\ NoCompletionSkipped'
  BY <1>1, Zenon DEF OrderInv, OneRetiring, NoCompletionSkipped
<1>11. DueRetiredFirst'
  <2>1. Known' \subseteq Known
    <3> SUFFICES ASSUME NEW i \in Result' PROVE results'[i] \in Known
      BY <1>1, Zenon DEF Known, Result
    <3> QED
      BY <1>4, <1>5, Zenon DEF Known, Result
  <2> QED
    BY <2>1, <1>1, Zenon DEF OrderInv, DueRetiredFirst
<1>12. RetiredInDueOrder'
  <2> SUFFICES ASSUME NEW i \in Result', NEW j \in Result', i < j
               PROVE  results'[i] # results'[j] /\ DueBefore(results'[i], results'[j])
    BY Zenon DEF RetiredInDueOrder, Result
  <2>1. i \in Result
    BY <1>4 DEF Result
  <2>2. CASE j \in Result
    BY <2>1, <2>2, <1>4, Zenon DEF OrderInv, RetiredInDueOrder, Result
  <2>3. CASE results'[j] = p
    BY <2>1, <2>3, <1>4, <1>7, Zenon
  <2> QED
    BY <2>2, <2>3, <1>5, Zenon
<1> QED
  BY <1>6, <1>8, <1>9, <1>10, <1>11, <1>12, Zenon DEF OrderInv

\* Every event of the clock, its own or foreign, has a time.
LEMMA HeapStep ==
    ASSUME CoreType, HeapTimes, [EngineNext]_engineVars
    PROVE  HeapTimes'
<1> USE EngineStepsAssumption DEF stepVars, clockVars, HeapTimes
<1>1. ASSUME NEW check, EngineRefused(check) PROVE HeapTimes'
  BY <1>1, Zenon DEF EngineRefused
<1>2. ASSUME NEW t \in Nat, NEW token, ScheduleToken(t, token) PROVE \A h \in heap' : h.at \in Nat
  BY <1>2 DEF ScheduleToken
<1>3. ASSUME NEW h, PopNext(h) PROVE HeapTimes'
  BY <1>3, Zenon DEF PopNext, IsHeapHead
<1>4. ASSUME NEW e \in Engines, NEW s \in StepIndices, NEW l \in Latencies,
             NEW w \in BOOLEAN, Submit(e, s, l, w)
      PROVE  HeapTimes'
  <2>1. seen + l \in Nat
    BY DEF CoreType
  <2> QED
    BY <1>4, <1>2, <2>1, Zenon DEF Submit
<1>5. ASSUME NEW t \in Instant, EngineAdvanceTo(t) \/ ForeignAdvance(t) \/ ForeignSchedule(t)
      PROVE  HeapTimes'
  BY <1>5, <1>2 DEF EngineAdvanceTo, ForeignAdvance, ForeignSchedule, Instant
<1>6. ASSUME NEW p, CompleteBegin(p) PROVE HeapTimes'
  BY <1>6, <1>3, Zenon DEF CompleteBegin
<1>7. ASSUME NEW p, NEW b, ClaimPublication(p, b) PROVE HeapTimes'
  BY <1>7, Zenon DEF ClaimPublication
<1>8. ASSUME NEW p, CompleteEnd(p) \/ ForgeReceipt(p) \/ ChangeValues(p)
      PROVE  HeapTimes'
  BY <1>8, Zenon DEF CompleteEnd, ForgeReceipt, ChangeValues
<1>9. CASE \/ ForeignPop \/ ReplaceOwner \/ Close \/ Invalidate
           \/ CompleteFails \/ CompleteInterrupted \/ UNCHANGED engineVars
  BY <1>9, <1>3, Zenon
     DEF ForeignPop, ReplaceOwner, Close, Invalidate, CompleteFails,
     CompleteInterrupted, engineVars
<1>10. CASE CompleteDue \/ NextCompletion \/ CloseRefused
  BY <1>10, <1>1, <1>6, Zenon
     DEF CompleteDue, CompleteRefused, NextCompletion, CloseRefused
<1>11. CASE \/ \E e \in Engines, s \in StepIndices, l \in Latencies, w \in BOOLEAN :
                  Submit(e, s, l, w) \/ SubmitRefused(e, s, l, w)
            \/ \E t \in Instant : EngineAdvanceTo(t) \/ AdvanceRefused(t)
            \/ \E p \in Known : CompleteBegin(p) \/ CompleteRefused(p)
            \/ \E p \in Known, b \in Publishers :
                  ClaimPublication(p, b) \/ ClaimRefused(p, b)
  BY <1>11, <1>1, <1>4, <1>5, <1>6, <1>7, Zenon
     DEF SubmitRefused, AdvanceRefused, CompleteRefused, ClaimRefused
<1> QED
  BY <1>5, <1>8, <1>9, <1>10, <1>11, Zenon DEF EngineNext

\* The order is kept by every step.
LEMMA OrderStep ==
    ASSUME OrderInv, HeapTimes, [EngineNext]_engineVars
    PROVE  OrderInv'
<1>1. CASE UNCHANGED core
  BY <1>1, ZenonT(60)
     DEF core, OrderInv, CoreType, Numbered, RecordedFirst, OneRetiring,
     NoCompletionSkipped, DueRetiredFirst, RetiredInDueOrder, Result, Known
<1>2. ASSUME NEW p \in pending, CheckAction, Retirable(p), retiring' = {p},
             UNCHANGED <<seen, pending, used, sequence, published, results, claims>>
      PROVE  OrderInv'
  <2>1. OneRetiring'
    BY <1>2, Zenon DEF OneRetiring, Retirable
  <2>2. CoreType'
    BY <1>2, Zenon DEF OrderInv, CoreType
  <2>3. UNCHANGED <<seen, pending, sequence, results>>
    BY <1>2, Zenon
  <2>4. Result' = Result /\ Known' = Known
    BY <2>3, Zenon DEF Result, Known
  <2>5. Numbered'
    BY <2>3, <2>4, Zenon DEF OrderInv, Numbered
  <2>6. RecordedFirst'
    BY <2>3, <2>4, Zenon DEF OrderInv, RecordedFirst
  <2>7. NoCompletionSkipped'
    BY <2>3, <2>4, Zenon DEF OrderInv, NoCompletionSkipped
  <2>8. DueRetiredFirst'
    BY <2>3, <2>4, Zenon DEF OrderInv, DueRetiredFirst
  <2>9. RetiredInDueOrder'
    BY <2>3, <2>4, Zenon DEF OrderInv, RetiredInDueOrder
  <2> QED
    BY <2>1, <2>2, <2>5, <2>6, <2>7, <2>8, <2>9, Zenon DEF OrderInv
<1>3. ASSUME NEW p \in retiring, NEW b \in Publishers, ClaimPublication(p, b)
      PROVE  OrderInv'
  <2>1. /\ UNCHANGED <<seen, pending, sequence, retiring, results>>
        /\ published' = published \cup {b} /\ clock = seen
        /\ claims' = [claims EXCEPT ![b] = Append(@, [step |-> p, at |-> clock])]
    BY <1>3, Zenon DEF ClaimPublication, CheckLive
  <2>2. [step |-> p, at |-> clock] \in [step : Receipt, at : Nat]
    BY <2>1, Zenon DEF OrderInv, CoreType
  <2>3. Append(claims[b], [step |-> p, at |-> clock])
           \in Seq([step : Receipt, at : Nat])
    <3>1. claims[b] \in Seq([step : Receipt, at : Nat])
      BY Zenon DEF OrderInv, CoreType
    <3> QED BY <2>2, <3>1, AppendSeq, Zenon
  <2>4. claims' \in [Publishers -> Seq([step : Receipt, at : Nat])]
    BY <2>1, <2>3, Zenon DEF OrderInv, CoreType
  <2>5. CoreType'
    BY <2>1, <2>4, Zenon DEF OrderInv, CoreType
  <2>6. Result' = Result /\ Known' = Known
    BY <2>1, Zenon DEF Result, Known
  <2>7. Numbered'
    BY <2>1, <2>6, Zenon DEF OrderInv, Numbered
  <2>8. RecordedFirst'
    BY <2>1, <2>6, Zenon DEF OrderInv, RecordedFirst
  <2>9. OneRetiring'
    BY <2>1, Zenon DEF OrderInv, OneRetiring
  <2>10. NoCompletionSkipped'
    BY <2>1, <2>6, Zenon DEF OrderInv, NoCompletionSkipped
  <2>11. DueRetiredFirst'
    BY <2>1, <2>6, Zenon DEF OrderInv, DueRetiredFirst
  <2>12. RetiredInDueOrder'
    BY <2>1, <2>6, Zenon DEF OrderInv, RetiredInDueOrder
  <2> QED
    BY <2>5, <2>7, <2>8, <2>9, <2>10, <2>11, <2>12, Zenon DEF OrderInv
<1> QED
  BY CoreSteps, SubmitOrder, AdvanceOrder, EndOrder, <1>1, <1>2, <1>3, Zenon

\* The order holds in every reachable state.
LEMMA OrderInvariant == EngineSpec => [](OrderInv /\ HeapTimes)
<1>1. EngineInit => OrderInv /\ HeapTimes
  <2> SUFFICES ASSUME EngineInit PROVE OrderInv /\ HeapTimes
    OBVIOUS
  <2>1. CoreType /\ HeapTimes
    BY DEF EngineInit, CoreType, HeapTimes
  <2> QED
    BY <2>1 DEF EngineInit, OrderInv, Numbered, RecordedFirst, OneRetiring,
       NoCompletionSkipped, DueRetiredFirst, RetiredInDueOrder, Result, Known
<1>2. OrderInv /\ HeapTimes /\ [EngineNext]_engineVars => (OrderInv /\ HeapTimes)'
  <2> SUFFICES ASSUME OrderInv, HeapTimes, [EngineNext]_engineVars
               PROVE  OrderInv' /\ HeapTimes'
    OBVIOUS
  <2>1. CoreType
    BY Zenon DEF OrderInv
  <2> QED
    BY <2>1, OrderStep, HeapStep, Zenon
<1> QED
  BY <1>1, <1>2, PTL DEF EngineSpec

\* The runtime's time never passes a pending completion, however often the
\* shared clock is moved, filled or emptied by others.
THEOREM NeverPassesACompletion == EngineSpec => []NoCompletionSkipped
<1>1. OrderInv /\ HeapTimes => NoCompletionSkipped
  BY Zenon DEF OrderInv
<1> QED
  BY <1>1, OrderInvariant, PTL

\* Results are recorded in due order, ties by submission.
THEOREM ResultsInDueOrder == EngineSpec => []RetiredInDueOrder
<1>1. OrderInv /\ HeapTimes => RetiredInDueOrder
  BY Zenon DEF OrderInv
<1> QED
  BY <1>1, OrderInvariant, PTL

\* Whatever is due is retired before the next submission is let in.
THEOREM NothingSubmittedPastDue == EngineSpec => []DueRetiredFirst
<1>1. OrderInv /\ HeapTimes => DueRetiredFirst
  BY Zenon DEF OrderInv
<1> QED
  BY <1>1, OrderInvariant, PTL

\* No step takes a failure back.
LEMMA FailureStays ==
    ASSUME [EngineNext]_engineVars
    PROVE  failed' = TRUE \/ UNCHANGED failed
<1> USE DEF stepVars, clockVars
<1>1. ASSUME NEW check, EngineRefused(check) PROVE failed' = TRUE \/ UNCHANGED failed
  BY <1>1, Zenon DEF EngineRefused, Poison
<1>2. ASSUME NEW p, CompleteBegin(p) PROVE failed' = TRUE \/ UNCHANGED failed
  BY <1>2, Zenon DEF CompleteBegin
<1>3. ASSUME Meddle PROVE failed' = TRUE \/ UNCHANGED failed
  BY <1>3, Zenon DEF Meddle
<1>4. CASE \/ NextCompletion \/ Invalidate \/ CloseRefused \/ Close
           \/ CompleteFails \/ CompleteInterrupted \/ UNCHANGED engineVars
  BY <1>4, <1>1, Zenon DEF NextCompletion, Invalidate, Poison, CloseRefused, Close,
     CompleteFails, CompleteInterrupted, engineVars
<1>5. CASE \/ \E e \in Engines, s \in StepIndices, l \in Latencies, w \in BOOLEAN :
                 Submit(e, s, l, w) \/ SubmitRefused(e, s, l, w)
           \/ \E t \in Instant : EngineAdvanceTo(t) \/ AdvanceRefused(t)
           \/ \E p \in Known : CompleteBegin(p) \/ CompleteRefused(p)
           \/ \E p \in Known, b \in Publishers :
                 ClaimPublication(p, b) \/ ClaimRefused(p, b)
           \/ \E p \in pending : CompleteEnd(p)
           \/ CompleteDue
  BY <1>5, <1>1, <1>2, Zenon
     DEF Submit, SubmitRefused, EngineAdvanceTo, AdvanceRefused,
     CompleteRefused, ClaimPublication, ClaimRefused, CompleteEnd, CompleteDue
<1>6. CASE \/ \E t \in Instant : ForeignAdvance(t) \/ ForeignSchedule(t)
           \/ ForeignPop \/ ReplaceOwner
           \/ \E p \in pending : ForgeReceipt(p) \/ ChangeValues(p)
  BY <1>6, <1>3, Zenon
     DEF ForeignAdvance, ForeignSchedule, ForeignPop, ReplaceOwner,
     ForgeReceipt, ChangeValues
<1> QED
  BY <1>4, <1>5, <1>6, Zenon DEF EngineNext

\* The failure flag is a Boolean.
LEMMA FlagIsBoolean == EngineSpec => [](failed \in BOOLEAN)
<1>1. EngineInit => failed \in BOOLEAN
  BY Zenon DEF EngineInit
<1>2. failed \in BOOLEAN /\ [EngineNext]_engineVars => (failed \in BOOLEAN)'
  BY FailureStays, Zenon
<1> QED
  BY <1>1, <1>2, PTL DEF EngineSpec

\* A failed runtime submits, publishes and records nothing more.
THEOREM FailureIsFinal == EngineSpec => PoisonIsFinal
<1>1. ASSUME failed \in BOOLEAN, [EngineNext]_engineVars
      PROVE  [failed => UNCHANGED <<seen, pending, used, results, claims, failed>>]_engineVars
  <2> SUFFICES ASSUME failed = TRUE
               PROVE  UNCHANGED <<seen, pending, used, results, claims, failed>>
    BY <1>1, Zenon
  <2>1. ~CheckLive /\ ~CheckAction
    BY Zenon DEF CheckLive, CheckAction
  <2>2. UNCHANGED core
    BY <1>1, <2>1, CoreSteps, Zenon
       DEF Submit, EngineAdvanceTo, ClaimPublication, CompleteEnd, Settled
  <2> QED
    BY <1>1, <2>2, FailureStays, Zenon DEF core
<1> QED
  BY <1>1, FlagIsBoolean, PTL DEF EngineSpec, PoisonIsFinal

-----------------------------------------------------------------------------
(* Who was let through, and when. *)

Claims(b) == 1 .. Len(claims[b])

\* An engine's step is submitted once.
Identity ==
    /\ \A x \in Known : <<x.engine, x.step>> \in used
    /\ \A x, y \in Known : x.engine = y.engine /\ x.step = y.step => x = y

\* No publisher of nothing was let through.
Unclaimed == retiring = {} => published = {}

\* A claim was let through when its step was due.
OnTime ==
    \A b \in Publishers : \A i \in Claims(b) :
        claims[b][i].at = claims[b][i].step.completed /\ claims[b][i].step \in Known

\* The step of a claim is recorded, unless it is the one being retired.
Waiting ==
    \A b \in Publishers : \A i \in Claims(b) : claims[b][i].step \in pending =>
        claims[b][i].step \in retiring /\ b \in published

\* A publisher claims a step once.
Once ==
    \A b \in Publishers : \A i, j \in Claims(b) :
        claims[b][i].step = claims[b][j].step => i = j

\* Who was let through has claimed the step being retired.
Through ==
    \A b \in published, p \in retiring : \E j \in Claims(b) : claims[b][j].step = p

\* A recorded step has been claimed by all.
Recorded ==
    \A b \in Publishers, i \in Result :
        \E j \in Claims(b) : claims[b][j].step = results[i]

\* The inductive invariant for the claims.
ClaimInv == Unclaimed /\ OnTime /\ Waiting /\ Once /\ Through /\ Recorded

\* _used keeps an engine and step index from naming two receipts.
LEMMA IdentityStep ==
    ASSUME OrderInv, Identity, [EngineNext]_engineVars
    PROVE  Identity'
<1>1. CASE UNCHANGED <<pending, used, results>>
  BY <1>1 DEF Identity, Known
<1>2. ASSUME NEW e \in Engines, NEW s \in StepIndices, NEW l \in Latencies,
             NEW w \in BOOLEAN, Submit(e, s, l, w)
      PROVE  Identity'
  <2> DEFINE r == [engine |-> e, step |-> s, sequence |-> sequence,
                   submitted |-> seen, completed |-> seen + l]
  <2>1. /\ Known' = Known \cup {r} /\ used' = used \cup {<<e, s>>}
        /\ <<e, s>> \notin used
    BY <1>2, Zenon DEF Submit, Submittable, Known
  <2>2. r.engine = e /\ r.step = s
    OBVIOUS
  <2> HIDE DEF r
  <2> QED
    BY <2>1, <2>2 DEF Identity
<1>3. ASSUME NEW p \in pending, CompleteEnd(p)
      PROVE  Identity'
  <2>1. used' = used /\ results' = Append(results, p) /\ pending' = pending \ {p}
    BY <1>3, Zenon DEF CompleteEnd
  <2>2. results \in Seq(Receipt) /\ p \in Receipt
    BY Zenon DEF OrderInv, CoreType
  <2>3. \A i \in 1 .. Len(results') : results'[i] = p \/
           (i \in 1 .. Len(results) /\ results'[i] = results[i])
    BY <2>1, <2>2
  <2>4. Known' \subseteq Known
    BY <2>1, <2>3, Zenon DEF Known
  <2> QED
    BY <2>1, <2>4, Zenon DEF Identity
<1> QED
  BY CoreSteps, <1>1, <1>2, <1>3, Zenon
     DEF core, EngineAdvanceTo, stepVars, ClaimPublication

\* A claim that is let through is the publisher's first for this step, and is
\* made when the step is due.
LEMMA ClaimStep ==
    ASSUME OrderInv, ClaimInv, NEW p \in retiring, NEW b \in Publishers,
           ClaimPublication(p, b)
    PROVE  ClaimInv'
<1> DEFINE c == [step |-> p, at |-> clock]
<1>1. /\ UNCHANGED <<pending, retiring, results>> /\ published' = published \cup {b}
      /\ clock = seen /\ b \notin published
      /\ claims' = [claims EXCEPT ![b] = Append(@, c)]
  BY Zenon DEF ClaimPublication, CheckLive, Claimable
<1>2. p.completed = seen /\ p \in pending
      /\ \A q \in retiring : q = p
  BY Zenon DEF OrderInv, OneRetiring, CoreType
<1>3. c.step = p /\ c.at = p.completed
  BY <1>1, <1>2, Zenon
<1>4. claims \in [Publishers -> Seq([step : Receipt, at : Nat])]
  BY Zenon DEF OrderInv, CoreType
<1>5. \A d \in Publishers : d # b => claims'[d] = claims[d] /\ Claims(d)' = Claims(d)
  BY <1>1, <1>4, Zenon DEF Claims
<1>6. claims'[b] = Append(claims[b], c) /\ claims[b] \in Seq([step : Receipt, at : Nat])
  BY <1>1, <1>4, Zenon
<1> HIDE DEF c
<1>7. Len(claims[b]) \in Nat /\ Len(claims'[b]) = Len(claims[b]) + 1
      /\ claims'[b][Len(claims[b]) + 1] = c
      /\ \A i \in Claims(b) : claims'[b][i] = claims[b][i]
  BY <1>6 DEF Claims
<1>8. \A i \in Claims(b)' : i \in Claims(b) \/ (i = Len(claims[b]) + 1 /\ claims'[b][i] = c)
  <2>1. \A n \in Nat : \A i \in 1 .. n + 1 : i \in 1 .. n \/ i = n + 1
    OBVIOUS
  <2> QED
    BY <2>1, <1>7, Zenon DEF Claims
<1>9. Claims(b) \subseteq Claims(b)' /\ Len(claims[b]) + 1 \in Claims(b)'
  BY <1>7 DEF Claims
<1>10. Known' = Known /\ p \in Known /\ Result' = Result
  BY <1>1, <1>2, Zenon DEF Known, Result
<1>11. Unclaimed'
  BY <1>1, Zenon DEF Unclaimed
<1>12. OnTime' /\ Waiting'
  <2> SUFFICES ASSUME NEW d \in Publishers, NEW i \in Claims(d)'
               PROVE  /\ claims'[d][i].at = claims'[d][i].step.completed
                      /\ claims'[d][i].step \in Known'
                      /\ claims'[d][i].step \in pending' =>
                            claims'[d][i].step \in retiring' /\ d \in published'
    BY Zenon DEF OnTime, Waiting
  <2>1. CASE d # b
    <3>1. i \in Claims(d) /\ claims'[d][i] = claims[d][i]
      BY <2>1, <1>5, ZenonT(60)
    <3>2. /\ claims[d][i].at = claims[d][i].step.completed
          /\ claims[d][i].step \in Known
          /\ claims[d][i].step \in pending =>
                claims[d][i].step \in retiring /\ d \in published
      BY <3>1, Zenon DEF ClaimInv, OnTime, Waiting
    <3>3. pending' = pending /\ retiring' = retiring /\ published \subseteq published'
      BY <1>1, Zenon
    <3> QED
      BY <3>1, <3>2, <3>3, <1>10, ZenonT(30)
  <2>2. CASE d = b /\ i \in Claims(b)
    <3>1. /\ claims[b][i].at = claims[b][i].step.completed
          /\ claims[b][i].step \in Known
          /\ claims[b][i].step \in pending =>
                claims[b][i].step \in retiring /\ b \in published
      BY <2>2, Zenon DEF ClaimInv, OnTime, Waiting
    <3>2. claims'[d][i] = claims[b][i]
      BY <2>2, <1>7, ZenonT(60)
    <3>3. pending' = pending /\ retiring' = retiring /\ published \subseteq published'
      BY <1>1, Zenon
    <3> QED
      BY <2>2, <3>1, <3>2, <3>3, <1>10, ZenonT(30)
  <2>3. CASE d = b /\ claims'[b][i] = c
    BY <2>3, <1>1, <1>3, <1>10, Zenon
  <2>4. d = b => i \in Claims(b)'
    BY Zenon DEF Claims
  <2>5. d # b \/ (d = b /\ i \in Claims(b)) \/ (d = b /\ claims'[b][i] = c)
    BY <2>4, <1>8, ZenonT(60)
  <2> QED
    BY <2>1, <2>2, <2>3, <2>5, Zenon
<1>13. Once'
  <2>1. \A i \in Claims(b) : claims[b][i].step # p
    BY <1>1, <1>2, Zenon DEF ClaimInv, Waiting
  <2> SUFFICES ASSUME NEW d \in Publishers
               PROVE  \A i, j \in Claims(d)' :
                         claims'[d][i].step = claims'[d][j].step => i = j
    BY Zenon DEF Once
  <2>2. CASE d # b
    <3>1. \A i, j \in Claims(d) : claims[d][i].step = claims[d][j].step => i = j
      BY Zenon DEF ClaimInv, Once
    <3> QED
      BY <2>2, <3>1, <1>5, ZenonT(60)
  <2>3. \A i, j \in Claims(b)' : claims'[b][i].step = claims'[b][j].step => i = j
    <3> TAKE i, j \in Claims(b)'
    <3>1. CASE i \in Claims(b) /\ j \in Claims(b)
      BY <3>1, <1>7, Zenon DEF ClaimInv, Once
    <3>2. CASE i \in Claims(b) /\ claims'[b][j] = c
      BY <2>1, <3>2, <1>3, <1>7, Zenon
    <3>3. CASE claims'[b][i] = c /\ j \in Claims(b)
      BY <2>1, <3>3, <1>3, <1>7, Zenon
    <3> QED
      BY <3>1, <3>2, <3>3, <1>8, Zenon
  <2> QED
    BY <2>2, <2>3, ZenonT(30) DEF Claims
<1>14. Through'
  <2> SUFFICES ASSUME NEW d \in published', NEW q \in retiring'
               PROVE  \E j \in Claims(d)' : claims'[d][j].step = q
    BY Zenon DEF Through
  <2>1. q = p /\ q \in retiring
    BY <1>1, <1>2, Zenon
  <2>2. CASE d = b
    BY <2>1, <2>2, <1>3, <1>7, <1>9, Zenon
  <2>3. CASE d # b
    <3>1. d \in published /\ d \in Publishers
      BY <2>3, <1>1, Zenon DEF OrderInv, CoreType
    <3>2. \E j \in Claims(d) : claims[d][j].step = q
      BY <2>1, <3>1, Zenon DEF ClaimInv, Through
    <3> QED
      BY <2>3, <3>1, <3>2, <1>5, ZenonT(60)
  <2> QED
    BY <2>2, <2>3, Zenon
<1>15. Recorded'
  <2> SUFFICES ASSUME NEW d \in Publishers, NEW i \in Result'
               PROVE  \E j \in Claims(d)' : claims'[d][j].step = results'[i]
    BY Zenon DEF Recorded
  <2>1. PICK j \in Claims(d) : claims[d][j].step = results[i]
    BY <1>10, Zenon DEF ClaimInv, Recorded
  <2>2. j \in Claims(d)' /\ claims'[d][j] = claims[d][j]
    BY <1>5, <1>7, <1>9, Zenon
  <2> QED
    BY <2>1, <2>2, <1>1, Zenon
<1> QED
  BY <1>11, <1>12, <1>13, <1>14, <1>15, Zenon DEF ClaimInv

\* The step that is recorded has been claimed by every publisher.
LEMMA EndClaims ==
    ASSUME OrderInv, ClaimInv, NEW p \in pending, CompleteEnd(p)
    PROVE  ClaimInv'
<1>1. /\ p \in retiring /\ results' = Append(results, p)
      /\ pending' = pending \ {p} /\ retiring' = {} /\ published' = {}
      /\ UNCHANGED claims /\ published = Publishers
  BY Zenon DEF CompleteEnd, Settled
<1>2. /\ results \in Seq(Receipt) /\ p \in Receipt
      /\ \A q \in retiring : q = p
  BY <1>1, Zenon DEF OrderInv, CoreType, OneRetiring
<1>3. /\ Len(results') = Len(results) + 1 /\ Len(results) \in Nat
      /\ results'[Len(results) + 1] = p
      /\ \A i \in Result : results'[i] = results[i]
  BY <1>1, <1>2 DEF Result
<1>4. /\ \A i \in Result' : results'[i] = p \/ (i \in Result /\ results'[i] = results[i])
      /\ Result \subseteq Result' /\ Len(results) + 1 \in Result'
  BY <1>3 DEF Result
<1>5. Known \subseteq Known'
  <2> SUFFICES ASSUME NEW x \in Known PROVE x \in Known'
    OBVIOUS
  <2>1. x \in pending \/ \E i \in Result : x = results[i]
    BY Zenon DEF Known, Result
  <2>2. CASE x \in pending'
    BY <2>2, Zenon DEF Known
  <2>3. CASE \E i \in Result' : x = results'[i]
    BY <2>3, Zenon DEF Known, Result
  <2> QED
    BY <2>1, <2>2, <2>3, <1>1, <1>3, <1>4, Zenon
<1>6. \A b \in Publishers : Claims(b)' = Claims(b)
  <2>1. claims' = claims
    BY <1>1, Zenon
  <2> QED
    BY <2>1, Zenon DEF Claims
<1>7. \A b \in Publishers : \A i \in Claims(b) :
         /\ claims[b][i].at = claims[b][i].step.completed
         /\ claims[b][i].step \in Known'
         /\ claims[b][i].step \notin pending'
  <2>1. pending' = pending \ {p}
    BY <1>1, Zenon
  <2> QED
    BY <2>1, <1>2, <1>5, ZenonT(30) DEF ClaimInv, OnTime, Waiting
<1>8. \A b \in Publishers, i \in Result' :
         \E j \in Claims(b) : claims[b][j].step = results'[i]
  <2>3. \A b \in published, q \in retiring :
           \E j \in Claims(b) : claims[b][j].step = q
    BY Zenon DEF ClaimInv, Through
  <2>4. \A b \in Publishers, i \in Result :
           \E j \in Claims(b) : claims[b][j].step = results[i]
    BY Zenon DEF ClaimInv, Recorded
  <2> TAKE b \in Publishers, i \in Result'
  <2>1. CASE results'[i] = p
    <3>1. \E j \in Claims(b) : claims[b][j].step = p
      BY <2>3, <1>1, Zenon
    <3> QED
      BY <3>1, <2>1, Zenon
  <2>2. CASE i \in Result /\ results'[i] = results[i]
    <3>1. \E j \in Claims(b) : claims[b][j].step = results[i]
      BY <2>4, <2>2, Zenon
    <3> QED
      BY <3>1, <2>2, Zenon
  <2> QED
    BY <2>1, <2>2, <1>4, Zenon
<1>9. \A b \in Publishers : \A i, j \in Claims(b)' :
         claims'[b][i].step = claims'[b][j].step => i = j
  <2>1. \A b \in Publishers : \A i, j \in Claims(b) :
           claims[b][i].step = claims[b][j].step => i = j
    BY Zenon DEF ClaimInv, Once
  <2> QED
    BY <2>1, <1>1, <1>6, ZenonT(60)
<1>10. \A b \in Publishers : \A i \in Claims(b)' :
          /\ claims'[b][i].at = claims'[b][i].step.completed
          /\ claims'[b][i].step \in Known'
          /\ claims'[b][i].step \notin pending'
  BY <1>1, <1>6, <1>7, Zenon
<1>11. \A b \in Publishers, i \in Result' :
          \E j \in Claims(b)' : claims'[b][j].step = results'[i]
  BY <1>1, <1>6, <1>8, Zenon
<1>12. (retiring' = {} => published' = {}) /\ (\A b \in published' : FALSE)
  BY <1>1, Zenon
<1>13. Unclaimed' /\ Through'
  BY <1>12, Zenon DEF Unclaimed, Through
<1>14. Once' /\ Recorded'
  BY <1>9, <1>11, Zenon DEF Once, Recorded
<1>15. OnTime' /\ Waiting'
  BY <1>10, Zenon DEF OnTime, Waiting
<1> QED
  BY <1>13, <1>14, <1>15, Zenon DEF ClaimInv

\* Every publisher of a step is let through once, when the step is due, and a
\* recorded result has been through all of them.
THEOREM PublishedExactlyOnce == EngineSpec => []PublishedOnceWhenDue
<1>1. EngineInit => Identity /\ ClaimInv
  <2> SUFFICES ASSUME EngineInit
               PROVE  Identity /\ ClaimInv
    OBVIOUS
  <2>1. /\ retiring = {} /\ published = {} /\ pending = {} /\ results = << >>
        /\ claims = [b \in Publishers |-> << >>]
    BY Zenon DEF EngineInit
  <2>2. Result = {}
    BY <2>1 DEF Result
  <2>3. Known = {}
    BY <2>1, <2>2, Zenon DEF Known, Result
  <2>4. \A b \in Publishers : Claims(b) = {}
    BY <2>1 DEF Claims
  <2>5. Identity
    BY <2>3, Zenon DEF Identity
  <2>6. ClaimInv
    BY <2>1, <2>2, <2>4, Zenon
       DEF ClaimInv, Unclaimed, OnTime, Waiting, Once, Through, Recorded
  <2> QED
    BY <2>5, <2>6, Zenon
<1>2. ASSUME OrderInv, Identity, ClaimInv, [EngineNext]_engineVars
      PROVE  ClaimInv'
  <2>1. ASSUME UNCHANGED <<results, claims>>
        PROVE  /\ results' = results /\ claims' = claims
               /\ Result' = Result /\ \A b : Claims(b)' = Claims(b)
    BY <2>1, Zenon DEF Result, Claims
  <2>7. ASSUME UNCHANGED <<results, claims>>
        PROVE  Once' /\ Recorded'
    <3>1. Once /\ Recorded
      BY <1>2, Zenon DEF ClaimInv
    <3>2. Once'
      BY <2>1, <2>7, <3>1, Zenon DEF Once
    <3>3. Recorded'
      BY <2>1, <2>7, <3>1 DEF Recorded
    <3> QED BY <3>2, <3>3, Zenon
  <2>2. CASE UNCHANGED <<pending, retiring, published, results, claims>>
    <3>1. pending' = pending /\ retiring' = retiring /\ published' = published
          /\ UNCHANGED <<results, claims>>
      BY <2>2, Zenon
    <3>2. Known' = Known
      BY <3>1, Zenon DEF Known
    <3>3. Unclaimed' /\ OnTime' /\ Waiting'
      BY <1>2, <2>1, <3>1, <3>2, Zenon DEF ClaimInv, Unclaimed, OnTime, Waiting
    <3>4. Once' /\ Recorded'
      BY <2>7, <3>1, Zenon
    <3>5. Through'
      BY <1>2, <2>1, <3>1 DEF ClaimInv, Through
    <3> QED
      BY <3>3, <3>4, <3>5, Zenon DEF ClaimInv
  <2>3. ASSUME NEW e \in Engines, NEW s \in StepIndices, NEW l \in Latencies,
               NEW w \in BOOLEAN, Submit(e, s, l, w)
        PROVE  ClaimInv'
    <3> DEFINE r == [engine |-> e, step |-> s, sequence |-> sequence,
                     submitted |-> seen, completed |-> seen + l]
    <3>1. /\ pending' = pending \cup {r} /\ <<e, s>> \notin used
          /\ retiring' = retiring /\ published' = published
          /\ UNCHANGED <<results, claims>>
      BY <2>3, Zenon DEF Submit, Submittable
    <3>2. r.engine = e /\ r.step = s
      OBVIOUS
    <3> HIDE DEF r
    <3>3. Known' = Known \cup {r}
      BY <3>1, Zenon DEF Known
    <3>4. \A x \in Known : <<x.engine, x.step>> \in used
      BY <1>2, Zenon DEF Identity
    <3>5. r \notin Known
      BY <3>1, <3>2, <3>4, Zenon
    <3>6. \A b \in Publishers : \A i \in Claims(b) :
             claims[b][i].step \in pending' => claims[b][i].step \in pending
      BY <1>2, <3>1, <3>5, Zenon DEF ClaimInv, OnTime
    <3>7. Unclaimed' /\ OnTime' /\ Waiting'
      BY <1>2, <2>1, <3>1, <3>3, <3>6, Zenon
         DEF ClaimInv, Unclaimed, OnTime, Waiting
    <3>8. Once' /\ Recorded'
      BY <2>7, <3>1, Zenon
    <3>9. Through'
      BY <1>2, <2>1, <3>1 DEF ClaimInv, Through
    <3> QED
      BY <3>7, <3>8, <3>9, Zenon DEF ClaimInv
  <2>4. ASSUME NEW p \in pending, CheckAction, Retirable(p), retiring' = {p},
               UNCHANGED <<seen, pending, used, sequence, published, results, claims>>
        PROVE  ClaimInv'
    <3>1. /\ pending' = pending /\ published' = published /\ retiring' = {p}
          /\ retiring = {} /\ published = {} /\ UNCHANGED <<results, claims>>
      BY <1>2, <2>4, Zenon DEF CheckAction, ClaimInv, Unclaimed
    <3>2. Known' = Known
      BY <3>1, Zenon DEF Known
    <3>3. Unclaimed' /\ OnTime' /\ Waiting'
      BY <1>2, <2>1, <3>1, <3>2, Zenon DEF ClaimInv, Unclaimed, OnTime, Waiting
    <3>4. Once' /\ Recorded'
      BY <2>7, <3>1, Zenon
    <3>5. Through'
      BY <1>2, <2>1, <3>1, Zenon DEF ClaimInv, Through
    <3> QED
      BY <3>3, <3>4, <3>5, Zenon DEF ClaimInv
  <2>5. ASSUME NEW p \in retiring, NEW b \in Publishers, ClaimPublication(p, b)
        PROVE  ClaimInv'
    BY <1>2, <2>5, ClaimStep, Zenon
  <2>6. ASSUME NEW p \in pending, CompleteEnd(p)
        PROVE  ClaimInv'
    BY <1>2, <2>6, EndClaims, Zenon
  <2> QED
    BY <1>2, <2>2, <2>3, <2>4, <2>5, <2>6, CoreSteps, Zenon
       DEF core, EngineAdvanceTo, stepVars
<1>3. OrderInv /\ Identity /\ ClaimInv => PublishedOnceWhenDue
  <2> SUFFICES ASSUME Identity, ClaimInv, NEW b \in Publishers
               PROVE  /\ \A i \in Claims(b) : claims[b][i].at = claims[b][i].step.completed
                      /\ \A i, j \in Claims(b) :
                            claims[b][i].step.engine = claims[b][j].step.engine
                              /\ claims[b][i].step.step = claims[b][j].step.step => i = j
                      /\ \A i \in Result :
                            \E j \in Claims(b) : claims[b][j].step = results[i]
    BY Zenon DEF PublishedOnceWhenDue, Claims, Result
  <2> QED
    BY Zenon DEF Identity, ClaimInv, OnTime, Once, Recorded
<1>4. OrderInv /\ Identity /\ ClaimInv /\ [EngineNext]_engineVars => (Identity /\ ClaimInv)'
  BY <1>2, IdentityStep, Zenon
<1> QED
  BY <1>1, <1>3, <1>4, OrderInvariant, PTL DEF EngineSpec
=============================================================================
