----------------------------- MODULE KvRuntime -----------------------------
(***************************************************************************)
(* CoarseDeviceRuntime.execute (simllm/core/runtime.py) as far as the      *)
(* authorities it writes to go: a graph's KV work is replayed on a clone   *)
(* of the ledger, its work requests are staged in a transaction of the     *)
(* native session, and only when nothing can fail any more are the         *)
(* bookkeeper, the native session, the executed identities and the KV      *)
(* ledger brought up to date, one after the other.                         *)
(*                                                                         *)
(* An execution is named by its execution_id.  An exception may end it at  *)
(* any point before the transaction is prepared; from there on the code    *)
(* has checked everything it is about to do (_validate_bookkeeping_append, *)
(* and the contract of NativeRnicTransaction.prepare).                     *)
(***************************************************************************)
EXTENDS KvPool

CONSTANTS
    Execution,     \* the execution identities callers use
    MaxRefs,       \* bound: references taken in one ledger
    MaxReserved,   \* bound: blocks reserved by one request
    MaxCalls,      \* bound: calls of execute
    MaxBlocks      \* bound: blocks named by one observation

ASSUME RuntimeAssumption ==
    MaxRefs \in Nat /\ MaxReserved \in Nat /\ MaxCalls \in Nat
      /\ MaxBlocks \in Nat

VARIABLES
    at,         \* how far the running call is, or "idle"
    current,    \* the identity of the running call
    ledger,     \* _kv_ledger
    draft,      \* the clone _account_kv works on, then _pending_kv.ledger
    executed,   \* _state.execution_ids
    installed,  \* executions whose work requests the native session holds
    booked,     \* executions the bookkeeper has a completion of
    calls       \* calls of execute so far

vars == <<at, current, ledger, draft, executed, installed, booked, calls>>
authorities == <<ledger, executed, installed, booked>>

Stage == {"idle", "replaying", "scheduling", "prepared", "booked",
          "installed"}

Init ==
    /\ at = "idle" /\ current \in Execution
    /\ ledger = EmptyPool /\ draft = EmptyPool
    /\ executed = {} /\ installed = {} /\ booked = {}
    /\ calls = 0

-----------------------------------------------------------------------------
(* _preflight and _account_kv. *)

Execute(x) ==
    /\ at = "idle" /\ calls < MaxCalls
    /\ at' = "replaying"
    /\ current' = x
    /\ draft' = ledger
    /\ calls' = calls + 1
    /\ UNCHANGED authorities

Refused == at' = "idle" /\ draft' = ledger

\* observe: the handler's checks, its effect and the check after it.
Observe(legal, pool) ==
    /\ at = "replaying"
    /\ legal
    /\ Conserved(pool)
    /\ draft' = pool
    /\ pool.allocated + pool.touched + pool.retained =< MaxRefs
    /\ \A r \in Request : pool.reserved[r] =< MaxReserved
    /\ UNCHANGED <<at, current, calls, authorities>>

Named == {S \in SUBSET Block : S # {} /\ Cardinality(S) =< MaxBlocks}
Orders == {s \in UNION {[1 .. n -> Block] : n \in 1 .. MaxBlocks} :
              \A i, j \in DOMAIN s : s[i] = s[j] => i = j}

ObserveReserve == \E r \in Request, tokens \in 1 .. 2 * BlockTokens :
    Observe(CanReserve(draft, tokens), Reserve(draft, r, tokens))
ObserveAllocate == \E r \in Request, S \in Named :
    Observe(CanAllocate(draft, r, S), Allocate(draft, r, S))
ObserveTouch == \E r \in Request, S \in Named :
    Observe(CanTouch(draft, S), Touch(draft, r, S))
ObserveRetain == \E r \in Request, S \in Named :
    Observe(CanRetain(draft, S), Retain(draft, r, S))
ObserveWrite == \E r \in Request, s \in Orders,
                   fill \in [Block -> 0 .. BlockTokens] :
    Observe(Owned(draft, r, {s[i] : i \in DOMAIN s}) /\ Fills(draft, s, fill),
            Write(draft, fill))
ObserveRelease == \E r \in Request, S \in Named :
    Observe(Owned(draft, r, S), Release(draft, r, S))
ObserveEvict == \E S \in Named :
    Observe(CanEvict(draft, S), Evict(draft, S))
ObserveFree == \E S \in Named :
    Observe(CanFree(draft, S), Free(draft, S))

\* Read, transfer, bind-prefix, swap and recompute change no block.
ObserveRest == \E r \in Request, S \in Named :
    Observe(\/ Owned(draft, r, S)
            \/ S \subseteq draft.held /\ \A b \in S : Content(draft, b),
            draft)

\* Mutant: the identity is not checked.
Replayed_AnyIdentity ==
    /\ at = "replaying"
    /\ at' = "scheduling"
    /\ UNCHANGED <<current, draft, calls, authorities>>

\* The batch is legal; its identity must be new.  An old one is refused here,
\* with its replay left in _pending_kv.
Replayed ==
    /\ at = "replaying"
    /\ IF current \in executed THEN Refused
       ELSE at' = "scheduling" /\ UNCHANGED draft
    /\ UNCHANGED <<current, calls, authorities>>

-----------------------------------------------------------------------------
(* Scheduling, and the order of the commits. *)

\* Mutant: the native commit may fail after the bookkeeper was written.
Refuse_AfterBooking ==
    /\ at \in {"replaying", "scheduling", "prepared", "booked"}
    /\ Refused
    /\ UNCHANGED <<current, calls, authorities>>

\* An observation, a resource or the transaction refuses the graph, the
\* transaction is aborted, and what _pending_kv holds is never adopted.
Refuse ==
    /\ at \in {"replaying", "scheduling"}
    /\ Refused
    /\ UNCHANGED <<current, calls, authorities>>

Prepare ==
    /\ at = "scheduling"
    /\ at' = "prepared"
    /\ UNCHANGED <<current, draft, calls, authorities>>

AppendBookkeeping ==
    /\ at = "prepared"
    /\ at' = "booked"
    /\ booked' = booked \cup {current}
    /\ UNCHANGED <<current, ledger, draft, executed, installed, calls>>

CommitNative ==
    /\ at = "booked"
    /\ at' = "installed"
    /\ installed' = installed \cup {current}
    /\ UNCHANGED <<current, ledger, draft, executed, booked, calls>>

\* The handler of the caller's events runs after this, and whatever it raises
\* leaves the execution committed.
Adopt ==
    /\ at = "installed"
    /\ at' = "idle"
    /\ executed' = executed \cup {current}
    /\ ledger' = draft
    /\ UNCHANGED <<current, draft, installed, booked, calls>>

Next == \/ \E x \in Execution : Execute(x)
        \/ ObserveReserve \/ ObserveAllocate \/ ObserveTouch \/ ObserveRetain
        \/ ObserveWrite \/ ObserveRelease \/ ObserveEvict \/ ObserveFree
        \/ ObserveRest \/ Replayed \/ Refuse
        \/ Prepare \/ AppendBookkeeping \/ CommitNative \/ Adopt

Spec == Init /\ [][Next]_vars

-----------------------------------------------------------------------------
(* Properties. *)

\* Whatever a legal stream of observations does, and through every refused
\* one, the pool holds exactly its live and its reusable blocks, within its
\* capacity, and has lost none: "keeping each block in exactly one of FREE,
\* LIVE or RECLAIMABLE" (docs/modules/core.md).
PoolsConserved == BlocksConserved(ledger) /\ BlocksConserved(draft)

\* The references requests hold are those ever taken (allocate, touch,
\* retain) less those released.
ReferencesKept == ReferencesConserved(ledger) /\ ReferencesConserved(draft)

\* Between two calls the bookkeeper, the native session and the runtime have
\* seen the same executions; during the commits they differ at most by the
\* running one, which the bookkeeper learns first.
AuthoritiesAgree ==
    /\ executed \subseteq installed /\ installed \subseteq booked
    /\ booked \subseteq executed \cup {current}
    /\ at \notin {"booked", "installed"} => executed = booked

\* The pool changes only with an execution that was not executed before: a
\* refused graph, or one submitted a second time, leaves no trace in it.
AdoptedOnce ==
    [][ledger' # ledger => \E x \in Execution \ executed :
          executed' = executed \cup {x}]_vars
=============================================================================
