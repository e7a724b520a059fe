-------------------------- MODULE RequestLifetime --------------------------
(***************************************************************************)
(* The lifetime record of one joined request (core/request_lifetime.py):   *)
(* its lifecycle state, the cursor over its routed tokens, the end flags   *)
(* of its last token and whether its arena view was given back.  Operators *)
(* on one record; CompletionReducer holds the registry and its steps.      *)
(***************************************************************************)
EXTENDS Integers, FiniteSets

CONSTANTS
    Request,     \* joined request identities
    Layer,       \* moe_layer_indices
    TokenCount   \* token_count of every routing view

ASSUME LifetimeAssumption ==
    /\ TokenCount \in Nat \ {0}
    /\ Layer # {}

\* The two end masks, as the set of (phase, layer) bits that are set.
End == {"dispatch", "combine"} \X Layer

Absent == [state |-> "absent", cursor |-> 0, finished |-> FALSE,
           ends |-> {}, released |-> FALSE]

Joined == [Absent EXCEPT !.state = "joined"]

LifetimeType ==
    [state : {"absent", "joined", "executing", "finish-flagged", "closed"},
     cursor : 0 .. TokenCount, finished : BOOLEAN,
     ends : SUBSET End, released : BOOLEAN]

Drained(l) == l.cursor = TokenCount /\ l.ends = End

\* What the scheduler says of one request in a step.
Scheduled == [new : 0 .. TokenCount, context : 0 .. TokenCount,
              cached : 0 .. TokenCount]

Start(s) == s.context - s.new

\* _enter_execution refuses a closed or a finished request; it passes through
\* ADMITTED without stopping there.
Enterable(l) == l.state # "closed" /\ ~l.finished

\* Mutant: a gap of one token passes.
Coverable_OffByOne(l, s) ==
    \/ s.new = 0
    \/ /\ Start(s) >= 0
       /\ s.context =< TokenCount
       /\ \/ Start(s) =< l.cursor + 1
          \/ l.cursor = 0 /\ s.cached = Start(s)

\* _cover_scheduled_tokens: the new tokens continue the cursor, repeat tokens
\* below it, or start it after a cached prefix.
Coverable(l, s) ==
    \/ s.new = 0
    \/ /\ Start(s) >= 0
       /\ s.context =< TokenCount
       /\ \/ Start(s) =< l.cursor
          \/ l.cursor = 0 /\ s.cached = Start(s)

Cover(l, s) ==
    IF s.new = 0 \/ s.context < l.cursor THEN l.cursor ELSE s.context

ReachesFinal(l, s) == l.cursor < TokenCount /\ Cover(l, s) = TokenCount

\* One scheduled request of a step.  ran is the set of MoE collectives that
\* completed with this request among theirs; they count only in the step that
\* reaches the last token.
Schedule(l, s, ran) ==
    [l EXCEPT !.state = IF l.state = "joined" THEN "executing" ELSE l.state,
              !.cursor = Cover(l, s),
              !.ends = l.ends \cup (IF ReachesFinal(l, s) THEN ran ELSE {})]

Finishable(l) == l.state # "joined" /\ ~l.finished

Finish(l) == [l EXCEPT !.finished = TRUE]

\* Mutant: one transition per step, so a drained request only becomes flagged by its finish.
Reconcile_OneStep(l) ==
    CASE l.finished /\ l.state = "executing" ->
            [l EXCEPT !.state = "finish-flagged"]
      [] l.state = "finish-flagged" /\ Drained(l) ->
            [l EXCEPT !.state = "closed"]
      [] OTHER -> l

\* _reconcile: EXECUTING becomes FINISH_FLAGGED, and at once DRAINED and
\* CLOSED when nothing of the request is outstanding.
Reconcile(l) ==
    LET flagged == \/ l.state = "finish-flagged"
                   \/ l.finished /\ l.state = "executing"
    IN  [l EXCEPT !.state =
            CASE flagged /\ Drained(l) -> "closed"
              [] flagged /\ ~Drained(l) -> "finish-flagged"
              [] OTHER -> l.state]

\* release_view after its callback returned.
Released(l) == [l EXCEPT !.released = TRUE]
=============================================================================
