------------------------------- MODULE KvPool -------------------------------
(***************************************************************************)
(* One pool of the KV-cache ledger (simllm/core/kv.py, KvLifecycleLedger): *)
(* what each observed lifecycle action requires of a pool and what it      *)
(* leaves behind.                                                          *)
(*                                                                         *)
(* A pool is a record.  A block that is not in `held` has no _Block: its   *)
(* other fields are at their defaults.  A block is reusable (`content`)    *)
(* from the moment it is full, and its fill never shrinks, so the flag is  *)
(* not kept apart.  A reservation of zero blocks is an absent one.  Bytes, *)
(* tiers and the counters no check reads are left out.                     *)
(***************************************************************************)
EXTENDS Integers, Sequences, FiniteSets, FiniteSetsExt

CONSTANTS
    Block,         \* the block names observations use
    Request,
    Capacity,      \* spec.capacity_blocks
    BlockTokens    \* spec.block_tokens

ASSUME PoolAssumption ==
    /\ IsFiniteSet(Block)
    /\ Capacity \in Nat /\ BlockTokens \in Nat \ {0}

NoOwners == [r \in Request |-> 0]

EmptyPool ==
    [held |-> {}, filled |-> [b \in Block |-> 0],
     owners |-> [b \in Block |-> NoOwners],
     reserved |-> [r \in Request |-> 0],
     allocated |-> 0, touched |-> 0, retained |-> 0, released |-> 0,
     evicted |-> 0, freed |-> 0]

\* _Block.ref_count > 0.
Live(p, b) == \E r \in Request : p.owners[b][r] > 0
Content(p, b) == p.filled[b] = BlockTokens

\* _Block.state, and FREE for a name the pool does not hold.
State(p, b) == IF Live(p, b) THEN "Live"
               ELSE IF Content(p, b) THEN "Reclaimable" ELSE "Free"

AllIn(p, S, state) == \A b \in S : State(p, b) = state
Owned(p, r, S) == \A b \in S : p.owners[b][r] > 0

LiveBlocks(p) == {b \in p.held : Live(p, b)}
ReclaimableBlocks(p) == {b \in p.held : State(p, b) = "Reclaimable"}

\* _check_conservation, after every handler.
Conserved(p) ==
    Cardinality(LiveBlocks(p)) + Cardinality(ReclaimableBlocks(p)) =< Capacity

\* del pool.blocks[block_id], for every block of S.
Without(p, S) ==
    [p EXCEPT !.held = @ \ S,
              !.filled = [b \in Block |-> IF b \in S THEN 0 ELSE @[b]],
              !.owners = [b \in Block |-> IF b \in S THEN NoOwners ELSE @[b]]]

\* Mutant: a second reference of the same request is not counted.
Refer_Once(p, r, S, by) ==
    [p EXCEPT !.owners = [b \in Block |-> IF b \in S
        THEN [p.owners[b] EXCEPT ![r] = IF by = 1 THEN 1 ELSE @ + by]
        ELSE p.owners[b]]]

\* One more, or one fewer, reference of r to every block of S.
Refer(p, r, S, by) ==
    [p EXCEPT !.owners = [b \in Block |-> IF b \in S
        THEN [p.owners[b] EXCEPT ![r] = @ + by] ELSE p.owners[b]]]

-----------------------------------------------------------------------------
(* The handlers: what each one demands, and the pool it returns. *)

Outstanding(p) == MapThenSumSet(LAMBDA r : p.reserved[r], Request)
Demand(tokens) == (tokens + BlockTokens - 1) \div BlockTokens

CanReserve(p, tokens) ==
    Demand(tokens) + Outstanding(p) =< Capacity - Cardinality(LiveBlocks(p))

Reserve(p, r, tokens) == [p EXCEPT !.reserved[r] = @ + Demand(tokens)]

CanAllocate(p, r, S) ==
    /\ AllIn(p, S, "Free")
    /\ p.reserved[r] > 0 => Cardinality(S) =< p.reserved[r]

Allocate(p, r, S) ==
    [p EXCEPT !.held = @ \cup S,
              !.filled = [b \in Block |-> IF b \in S THEN 0 ELSE @[b]],
              !.owners = [b \in Block |-> IF b \in S
                  THEN [NoOwners EXCEPT ![r] = 1] ELSE @[b]],
              !.reserved[r] = IF @ > 0 THEN @ - Cardinality(S) ELSE 0,
              !.allocated = @ + Cardinality(S)]

CanTouch(p, S) == AllIn(p, S, "Reclaimable")
Touch(p, r, S) ==
    [Refer(p, r, S, 1) EXCEPT !.touched = @ + Cardinality(S)]

CanRetain(p, S) == AllIn(p, S, "Live")
Retain(p, r, S) ==
    [Refer(p, r, S, 1) EXCEPT !.retained = @ + Cardinality(S)]

\* A write of some number of tokens through the blocks of s, in order: each
\* is filled before the next one gets a token, and none beyond its size.
Fills(p, s, fill) ==
    /\ \A b \in Block : fill[b] \in p.filled[b] .. BlockTokens
    /\ \A b \in Block : (\A i \in DOMAIN s : s[i] # b) => fill[b] = p.filled[b]
    /\ \A i, j \in DOMAIN s : i < j /\ fill[s[j]] # p.filled[s[j]]
          => fill[s[i]] = BlockTokens
Write(p, fill) == [p EXCEPT !.filled = fill]

\* A block nobody holds any more, and that is not full, goes at once.
Dropped(p, S) == {b \in S : State(p, b) = "Free"}

\* Mutant: a partly written block stays in the pool.
Release_KeepsPartial(p, r, S) ==
    [Refer(p, r, S, -1) EXCEPT !.released = @ + Cardinality(S)]

Release(p, r, S) ==
    LET q == Refer(p, r, S, -1)
    IN  [Without(q, Dropped(q, S)) EXCEPT
            !.released = @ + Cardinality(S),
            !.freed = @ + Cardinality(Dropped(q, S))]

CanEvict(p, S) == AllIn(p, S, "Reclaimable")
Evict(p, S) == [Without(p, S) EXCEPT !.evicted = @ + Cardinality(S)]

\* A name the pool does not hold is skipped.
CanFree(p, S) == \A b \in S : ~Live(p, b)
Free(p, S) ==
    [Without(p, S) EXCEPT !.freed = @ + Cardinality(S \cap p.held)]

-----------------------------------------------------------------------------
(* What a legal stream of observations keeps true of a pool. *)

PoolType ==
    [held : SUBSET Block, filled : [Block -> 0 .. BlockTokens],
     owners : [Block -> [Request -> Nat]], reserved : [Request -> Nat],
     allocated : Nat, touched : Nat, retained : Nat, released : Nat,
     evicted : Nat, freed : Nat]

\* The pool holds exactly the blocks that are live or reusable, so that the
\* three states partition the names it is given; they fit its capacity; and
\* every block ever allocated is still held, was evicted or was freed.
BlocksConserved(p) ==
    /\ p.held = {b \in Block : State(p, b) # "Free"}
    /\ \A b \in Block \ p.held : p.filled[b] = 0
    /\ Cardinality(p.held) =< Capacity
    /\ p.allocated = Cardinality(p.held) + p.evicted + p.freed

\* The references held, one by one.
References(p) ==
    UNION {{<<b, r, n>> : n \in 1 .. p.owners[b][r]} :
              b \in Block, r \in Request}

\* Every reference ever taken is held by a request or was released.
ReferencesConserved(p) ==
    p.allocated + p.touched + p.retained
        = p.released + Cardinality(References(p))
=============================================================================
