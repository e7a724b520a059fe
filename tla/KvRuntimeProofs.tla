-------------------------- MODULE KvRuntimeProofs ---------------------------
(***************************************************************************)
(* The KV runtime: conservation of the pool for any blocks, requests,      *)
(* capacity and block size, and agreement of the authorities an execution  *)
(* commits to.  Sound(p) is what every handler preserves; the capacity is  *)
(* the check made after each of them, which only counts what it should     *)
(* because a sound pool holds no block in the state Free.                  *)
(***************************************************************************)
EXTENDS KvRuntime, FiniteSetTheorems, TLAPS

-----------------------------------------------------------------------------
(* The KV pool and its authorities. *)

Shaped(p) ==
    /\ p.held = {b \in Block : State(p, b) # "Free"}
    /\ \A b \in Block \ p.held : p.filled[b] = 0

Counted(p) == p.allocated = Cardinality(p.held) + p.evicted + p.freed

Sound(p) == p \in PoolType /\ Shaped(p) /\ Counted(p)

-----------------------------------------------------------------------------
(* Sets of blocks are finite, and count as sets do. *)

\* Subsets of Block are finite and have a natural number of elements.
LEMMA BlocksFinite ==
    ASSUME NEW S \in SUBSET Block
    PROVE  IsFiniteSet(S) /\ Cardinality(S) \in Nat
BY PoolAssumption, FS_Subset, FS_CardinalityType, Zenon

\* Disjoint sets of blocks add up.
LEMMA BlocksUnion ==
    ASSUME NEW S \in SUBSET Block, NEW T \in SUBSET Block, S \cap T = {}
    PROVE  Cardinality(S \cup T) = Cardinality(S) + Cardinality(T)
<1>1. IsFiniteSet(S) /\ IsFiniteSet(T)
  BY BlocksFinite, Zenon
<1>2. Cardinality(S) \in Nat /\ Cardinality(T) \in Nat
  BY BlocksFinite, Zenon
<1>3. Cardinality(S \cup T)
         = Cardinality(S) + Cardinality(T) - Cardinality(S \cap T)
  BY <1>1, FS_Union, Zenon
<1> QED  BY <1>2, <1>3, FS_EmptySet

\* What is taken from a set of blocks and what is left add up.
LEMMA BlocksSplit ==
    ASSUME NEW S \in SUBSET Block, NEW T \in SUBSET Block
    PROVE  Cardinality(S) = Cardinality(S \ T) + Cardinality(S \cap T)
<1>1. (S \ T) \cup (S \cap T) = S /\ (S \ T) \cap (S \cap T) = {}
  OBVIOUS
<1>2. S \ T \in SUBSET Block /\ S \cap T \in SUBSET Block
  OBVIOUS
<1>3. Cardinality((S \ T) \cup (S \cap T))
         = Cardinality(S \ T) + Cardinality(S \cap T)
  BY <1>1, <1>2, BlocksUnion, Zenon
<1> QED  BY <1>1, <1>3, Zenon

\* In a sound pool the check after each handler bounds what the pool holds.
LEMMA ConservedBounds ==
    ASSUME NEW p, Sound(p), Conserved(p)
    PROVE  BlocksConserved(p)
<1> DEFINE L == LiveBlocks(p)
           R == ReclaimableBlocks(p)
<1>1. L \in SUBSET Block /\ R \in SUBSET Block /\ p.held \in SUBSET Block
  BY Zenon DEF Sound, PoolType, LiveBlocks, ReclaimableBlocks
<1>2. L \cap R = {}
  BY Zenon DEF LiveBlocks, ReclaimableBlocks, State
<1>3. L \cup R = p.held
  BY Zenon DEF Sound, Shaped, LiveBlocks, ReclaimableBlocks, State
<1>4. Cardinality(p.held) = Cardinality(L) + Cardinality(R)
  BY <1>1, <1>2, <1>3, BlocksUnion, Zenon
<1> QED  BY <1>4, Zenon DEF Conserved, BlocksConserved, Sound, Shaped, Counted

-----------------------------------------------------------------------------
(* The handlers. *)

\* The pool without a set of blocks has its shape if the rest of it has.
LEMMA WithoutSound ==
    ASSUME NEW p \in PoolType, NEW S \in SUBSET Block,
           \A b \in Block \ S :
              /\ b \in p.held <=> State(p, b) # "Free"
              /\ b \notin p.held => p.filled[b] = 0
    PROVE  /\ Without(p, S) \in PoolType
           /\ Shaped(Without(p, S))
           /\ Without(p, S).held = p.held \ S
           /\ Without(p, S).allocated = p.allocated
           /\ Without(p, S).evicted = p.evicted
           /\ Without(p, S).freed = p.freed
           /\ Without(p, S).released = p.released
<1> DEFINE q == Without(p, S)
<1>1. /\ q.held = p.held \ S
      /\ q.allocated = p.allocated /\ q.evicted = p.evicted
      /\ q.freed = p.freed /\ q.released = p.released
      /\ q.filled = [b \in Block |-> IF b \in S THEN 0 ELSE p.filled[b]]
      /\ q.owners = [b \in Block |->
            IF b \in S THEN NoOwners ELSE p.owners[b]]
  <2>1. q.held = p.held \ S
    BY Zenon DEF Without, PoolType
  <2>2. /\ q.allocated = p.allocated /\ q.evicted = p.evicted
        /\ q.freed = p.freed /\ q.released = p.released
    BY Zenon DEF Without, PoolType
  <2>3. q.filled = [b \in Block |-> IF b \in S THEN 0 ELSE p.filled[b]]
    BY Zenon DEF Without, PoolType
  <2>4. q.owners = [b \in Block |-> IF b \in S THEN NoOwners ELSE p.owners[b]]
    <3> DEFINE o == [b \in Block |-> IF b \in S THEN NoOwners ELSE p.owners[b]]
    <3>1. q = [p EXCEPT !.held = p.held \ S,
                 !.filled = [b \in Block |-> IF b \in S THEN 0 ELSE p.filled[b]],
                 !.owners = o]
      BY Zenon DEF Without
    <3> HIDE DEF o, q
    <3>2. q.owners = o
      BY <3>1, ZenonT(60) DEF PoolType
    <3> QED  BY <3>2, Zenon DEF o
  <2> QED  BY <2>1, <2>2, <2>3, <2>4, Zenon
<1>2. q \in PoolType
  <2>1. [b \in Block |-> IF b \in S THEN 0 ELSE p.filled[b]]
           \in [Block -> 0 .. BlockTokens]
    BY PoolAssumption DEF PoolType
  <2>2. [b \in Block |-> IF b \in S THEN NoOwners ELSE p.owners[b]]
           \in [Block -> [Request -> Nat]]
    BY Zenon DEF PoolType, NoOwners
  <2>3. p.held \ S \in SUBSET Block
    BY Zenon DEF PoolType
  <2> QED  BY ZenonT(60), <2>1, <2>2, <2>3 DEF Without, PoolType
<1>3. ASSUME NEW b \in Block
      PROVE  IF b \in S THEN State(q, b) = "Free"
             ELSE State(q, b) = State(p, b)
  BY <1>1, PoolAssumption DEF State, Live, Content, NoOwners
<1>4. Shaped(q)
  BY SMTT(60), <1>1, <1>3 DEF Shaped, PoolType
<1> QED  BY <1>1, <1>2, <1>4, Zenon

\* The same when only the owners of the blocks in S change, S held.
LEMMA ReferTypes ==
    ASSUME NEW p \in PoolType, NEW r \in Request, NEW S \in SUBSET Block,
           NEW by \in Int, \A b \in S : p.owners[b][r] + by \in Nat
    PROVE  LET q == Refer(p, r, S, by)
           IN  /\ q \in PoolType
               /\ q.held = p.held /\ q.filled = p.filled
               /\ q.allocated = p.allocated /\ q.evicted = p.evicted
               /\ q.freed = p.freed
               /\ q.owners = [b \in Block |-> IF b \in S
                     THEN [p.owners[b] EXCEPT ![r] = @ + by] ELSE p.owners[b]]
<1> DEFINE q == Refer(p, r, S, by)
           o == [b \in Block |-> IF b \in S
                   THEN [p.owners[b] EXCEPT ![r] = @ + by] ELSE p.owners[b]]
<1>1. o \in [Block -> [Request -> Nat]]
  <2>1. ASSUME NEW b \in Block
        PROVE  o[b] \in [Request -> Nat]
    <3>1. p.owners[b] \in [Request -> Nat]
      BY Zenon DEF PoolType
    <3>2. CASE b \in S
      <4>1. [p.owners[b] EXCEPT ![r] = @ + by] \in [Request -> Nat]
        BY <3>1, <3>2, Zenon
      <4> QED  BY <4>1, <3>2, Zenon
    <3>3. CASE b \notin S
      BY <3>1, <3>3, Zenon
    <3> QED  BY <3>2, <3>3, Zenon
  <2> QED  BY <2>1, Zenon
<1>2. q = [p EXCEPT !.owners = o]
  BY Zenon DEF Refer
<1> QED  BY ZenonT(60), <1>1, <1>2 DEF PoolType

\* Taking one more reference keeps every block in a state that is not free,
\* and makes the blocks of S live.
LEMMA ReferSound ==
    ASSUME NEW p, Sound(p), NEW r \in Request, NEW S \in SUBSET p.held
    PROVE  Sound(Refer(p, r, S, 1))
<1> DEFINE q == Refer(p, r, S, 1)
<1>1. p \in PoolType /\ S \in SUBSET Block
  BY Zenon DEF Sound, PoolType
<1>2. \A b \in S : p.owners[b][r] + 1 \in Nat
  BY <1>1 DEF PoolType
<1>3. /\ q \in PoolType
      /\ q.held = p.held /\ q.filled = p.filled
      /\ q.allocated = p.allocated /\ q.evicted = p.evicted
      /\ q.freed = p.freed
      /\ q.owners = [b \in Block |-> IF b \in S
            THEN [p.owners[b] EXCEPT ![r] = @ + 1] ELSE p.owners[b]]
  BY <1>1, <1>2, ReferTypes
<1>4. ASSUME NEW b \in Block
      PROVE  IF b \in S THEN State(q, b) = "Live"
             ELSE State(q, b) = State(p, b)
  <2>1. CASE b \in S
    <3>1. q.owners[b][r] > 0
      BY <1>1, <1>3, <2>1 DEF PoolType
    <3> QED  BY <2>1, <3>1, Zenon DEF State, Live
  <2>2. CASE b \notin S
    BY <1>3, <2>2, Zenon DEF State, Live, Content
  <2> QED  BY <2>1, <2>2, Zenon
<1>5. Shaped(q)
  BY <1>1, <1>3, <1>4 DEF Sound, Shaped
<1>6. Counted(q)
  BY <1>3, Zenon DEF Sound, Counted
<1> QED  BY <1>3, <1>5, <1>6, Zenon DEF Sound

\* reserve leaves the blocks alone.
LEMMA ReserveSound ==
    ASSUME NEW p, Sound(p), NEW r \in Request, NEW tokens \in Nat
    PROVE  Sound(Reserve(p, r, tokens))
<1> DEFINE q == Reserve(p, r, tokens)
<1>1. Demand(tokens) \in Nat
  BY PoolAssumption DEF Demand
<1>2. p \in PoolType
  BY Zenon DEF Sound
<1>3. q \in PoolType
  <2>1. [p.reserved EXCEPT ![r] = @ + Demand(tokens)] \in [Request -> Nat]
    BY <1>1, <1>2 DEF PoolType
  <2> QED  BY ZenonT(60), <1>2, <2>1 DEF Reserve, PoolType
<1>4. /\ q.held = p.held /\ q.filled = p.filled /\ q.owners = p.owners
      /\ q.allocated = p.allocated /\ q.evicted = p.evicted
      /\ q.freed = p.freed
  BY <1>2, Zenon DEF Reserve, PoolType
<1>5. \A b \in Block : State(q, b) = State(p, b)
  BY <1>4, Zenon DEF State, Live, Content
<1> QED  BY <1>3, <1>4, <1>5, Zenon DEF Sound, Shaped, Counted

\* touch revives reusable blocks.
LEMMA TouchSound ==
    ASSUME NEW p, Sound(p), NEW r \in Request, NEW S \in SUBSET Block,
           CanTouch(p, S)
    PROVE  Sound(Touch(p, r, S))
<1> DEFINE q == Refer(p, r, S, 1)
<1>1. S \in SUBSET p.held
  BY Zenon DEF CanTouch, AllIn, Sound, Shaped
<1>2. Sound(q)
  BY <1>1, ReferSound, Zenon
<1>3. Cardinality(S) \in Nat
  BY BlocksFinite, Zenon
<1>4. Touch(p, r, S) = [q EXCEPT !.touched = @ + Cardinality(S)]
  BY Zenon DEF Touch
<1> HIDE DEF q
<1>5. Touch(p, r, S) \in PoolType
  <2>1. q \in PoolType /\ q.touched + Cardinality(S) \in Nat
    BY <1>2, <1>3 DEF Sound, PoolType
  <2> QED  BY ZenonT(60), <1>4, <2>1 DEF PoolType
<1>6. \A b \in Block : State(Touch(p, r, S), b) = State(q, b)
  BY <1>2, <1>4, Zenon DEF Sound, PoolType, State, Live, Content
<1>7. LET t == Touch(p, r, S)
      IN  /\ t.held = q.held /\ t.filled = q.filled
          /\ t.allocated = q.allocated /\ t.evicted = q.evicted
          /\ t.freed = q.freed
  BY <1>2, <1>4, Zenon DEF Sound, PoolType
<1> QED  BY <1>2, <1>5, <1>6, <1>7, Zenon DEF Sound, Shaped, Counted

\* retain adds references to live blocks.
LEMMA RetainSound ==
    ASSUME NEW p, Sound(p), NEW r \in Request, NEW S \in SUBSET Block,
           CanRetain(p, S)
    PROVE  Sound(Retain(p, r, S))
<1> DEFINE q == Refer(p, r, S, 1)
<1>1. S \in SUBSET p.held
  BY Zenon DEF CanRetain, AllIn, Sound, Shaped
<1>2. Sound(q)
  BY <1>1, ReferSound, Zenon
<1>3. Cardinality(S) \in Nat
  BY BlocksFinite, Zenon
<1>4. Retain(p, r, S) = [q EXCEPT !.retained = @ + Cardinality(S)]
  BY Zenon DEF Retain
<1> HIDE DEF q
<1>5. Retain(p, r, S) \in PoolType
  <2>1. q \in PoolType /\ q.retained + Cardinality(S) \in Nat
    BY <1>2, <1>3 DEF Sound, PoolType
  <2> QED  BY ZenonT(60), <1>4, <2>1 DEF PoolType
<1>6. \A b \in Block : State(Retain(p, r, S), b) = State(q, b)
  BY <1>2, <1>4, Zenon DEF Sound, PoolType, State, Live, Content
<1>7. LET t == Retain(p, r, S)
      IN  /\ t.held = q.held /\ t.filled = q.filled
          /\ t.allocated = q.allocated /\ t.evicted = q.evicted
          /\ t.freed = q.freed
  BY <1>2, <1>4, Zenon DEF Sound, PoolType
<1> QED  BY <1>2, <1>5, <1>6, <1>7, Zenon DEF Sound, Shaped, Counted

\* write only fills blocks that have an owner.
LEMMA WriteSound ==
    ASSUME NEW p, Sound(p), NEW r \in Request, NEW s \in Orders,
           NEW fill \in [Block -> 0 .. BlockTokens],
           Owned(p, r, {s[i] : i \in DOMAIN s}), Fills(p, s, fill)
    PROVE  Sound(Write(p, fill))
<1> DEFINE q == Write(p, fill)
<1>1. p \in PoolType
  BY Zenon DEF Sound
<1>2. q \in PoolType
  BY ZenonT(60), <1>1 DEF Write, PoolType
<1>3. /\ q.held = p.held /\ q.filled = fill /\ q.owners = p.owners
      /\ q.allocated = p.allocated /\ q.evicted = p.evicted
      /\ q.freed = p.freed
  BY <1>1, Zenon DEF Write, PoolType
<1>4. ASSUME NEW b \in Block
      PROVE  /\ State(q, b) = "Free" <=> State(p, b) = "Free"
             /\ b \notin p.held => fill[b] = p.filled[b]
  <2>1. CASE \E i \in DOMAIN s : s[i] = b
    <3>1. Live(p, b) /\ Live(q, b)
      BY <1>3, <2>1, Zenon DEF Owned, Live
    <3> QED  BY <3>1, Zenon DEF State, Sound, Shaped
  <2>2. CASE \A i \in DOMAIN s : s[i] # b
    <3>1. fill[b] = p.filled[b]
      BY <2>2, Zenon DEF Fills
    <3> QED  BY <1>3, <3>1, Zenon DEF State, Live, Content
  <2> QED  BY <2>1, <2>2, Zenon
<1> QED  BY <1>2, <1>3, <1>4, Zenon DEF Sound, Shaped, Counted

\* evict counts what it takes.
LEMMA EvictSound ==
    ASSUME NEW p, Sound(p), NEW S \in SUBSET Block, CanEvict(p, S)
    PROVE  Sound(Evict(p, S))
<1> DEFINE w == Without(p, S)
           q == Evict(p, S)
           n == Cardinality(S)
<1>1. p \in PoolType /\ Shaped(p) /\ S \subseteq p.held
  BY Zenon DEF Sound, Shaped, CanEvict, AllIn
<1>2. /\ w \in PoolType /\ Shaped(w) /\ w.held = p.held \ S
      /\ w.allocated = p.allocated /\ w.evicted = p.evicted
      /\ w.freed = p.freed
  <2>1. \A b \in Block \ S :
           /\ b \in p.held <=> State(p, b) # "Free"
           /\ b \notin p.held => p.filled[b] = 0
    BY <1>1, Zenon DEF Shaped
  <2> QED  BY <1>1, <2>1, WithoutSound, Zenon
<1>3. n \in Nat
  BY BlocksFinite, Zenon
<1>4. q = [w EXCEPT !.evicted = @ + n]
  BY Zenon DEF Evict
<1> HIDE DEF w, q, n
<1>5. q \in PoolType
  <2>1. w.evicted + n \in Nat
    BY <1>2, <1>3 DEF PoolType
  <2> QED  BY SMTT(60), <1>2, <1>4, <2>1 DEF PoolType
<1>6. /\ q.held = w.held /\ q.filled = w.filled /\ q.owners = w.owners
      /\ q.allocated = w.allocated /\ q.evicted = w.evicted + n
      /\ q.freed = w.freed
  BY <1>2, <1>4, Zenon DEF PoolType
<1>7. \A b \in Block : State(q, b) = State(w, b)
  BY <1>6, Zenon DEF State, Live, Content
<1>8. Cardinality(p.held) = Cardinality(p.held \ S) + n
  <2>1. p.held \in SUBSET Block /\ p.held \cap S = S
    BY <1>1, Zenon DEF PoolType
  <2> QED  BY <2>1, BlocksSplit DEF n
<1>9. Counted(q)
  <2>1. Cardinality(p.held \ S) \in Nat
    BY <1>1, BlocksFinite, Zenon DEF PoolType
  <2>2. p.evicted \in Nat /\ p.freed \in Nat
    BY <1>1, Zenon DEF PoolType
  <2> QED  BY <1>2, <1>3, <1>6, <1>8, <2>1, <2>2 DEF Sound, Counted
<1>10. Sound(q)
  BY <1>2, <1>5, <1>6, <1>7, <1>9, Zenon DEF Sound, Shaped
<1> QED  BY <1>10, Zenon DEF q

\* free skips the names the pool does not hold and counts the others.
LEMMA FreeSound ==
    ASSUME NEW p, Sound(p), NEW S \in SUBSET Block, CanFree(p, S)
    PROVE  Sound(Free(p, S))
<1> DEFINE w == Without(p, S)
           q == Free(p, S)
           n == Cardinality(S \cap p.held)
<1>1. p \in PoolType /\ Shaped(p)
  BY Zenon DEF Sound
<1>2. /\ w \in PoolType /\ Shaped(w) /\ w.held = p.held \ S
      /\ w.allocated = p.allocated /\ w.evicted = p.evicted
      /\ w.freed = p.freed
  <2>1. \A b \in Block \ S :
           /\ b \in p.held <=> State(p, b) # "Free"
           /\ b \notin p.held => p.filled[b] = 0
    BY <1>1, Zenon DEF Shaped
  <2> QED  BY <1>1, <2>1, WithoutSound, Zenon
<1>3. n \in Nat
  BY BlocksFinite, Zenon
<1>4. q = [w EXCEPT !.freed = @ + n]
  BY Zenon DEF Free
<1>5. Cardinality(p.held) = Cardinality(p.held \ S) + n
  <2>1. p.held \in SUBSET Block
    BY <1>1, Zenon DEF PoolType
  <2>2. p.held \cap S = S \cap p.held
    OBVIOUS
  <2>3. Cardinality(p.held) = Cardinality(p.held \ S) + Cardinality(p.held \cap S)
    BY <2>1, BlocksSplit, ZenonT(60)
  <2> QED  BY <2>2, <2>3, ZenonT(60)
<1> HIDE DEF w, q, n
<1>6. q \in PoolType
  <2>1. w.freed + n \in Nat
    BY <1>2, <1>3 DEF PoolType
  <2> QED  BY ZenonT(60), <1>2, <1>4, <2>1 DEF PoolType
<1>7. /\ q.held = w.held /\ q.filled = w.filled /\ q.owners = w.owners
      /\ q.allocated = w.allocated /\ q.evicted = w.evicted
      /\ q.freed = w.freed + n
  BY <1>2, <1>4, Zenon DEF PoolType
<1>8. \A b \in Block : State(q, b) = State(w, b)
  BY <1>7, Zenon DEF State, Live, Content
<1>9. Counted(q)
  <2>1. Cardinality(p.held \ S) \in Nat
    BY <1>1, BlocksFinite, Zenon DEF PoolType
  <2>2. p.evicted \in Nat /\ p.freed \in Nat
    BY <1>1, Zenon DEF PoolType
  <2> QED  BY <1>2, <1>3, <1>5, <1>7, <2>1, <2>2 DEF Sound, Counted
<1>10. Sound(q)
  BY <1>2, <1>6, <1>7, <1>8, <1>9, Zenon DEF Sound, Shaped
<1> QED  BY <1>10, Zenon DEF q

\* release frees what nobody holds and nobody can reuse.
LEMMA ReleaseSound ==
    ASSUME NEW p, Sound(p), NEW r \in Request, NEW S \in SUBSET Block,
           Owned(p, r, S)
    PROVE  Sound(Release(p, r, S))
<1> DEFINE m == Refer(p, r, S, -1)
           D == Dropped(m, S)
           w == Without(m, D)
           q == Release(p, r, S)
           n == Cardinality(D)
           k == Cardinality(S)
<1>1. p \in PoolType /\ Shaped(p) /\ S \subseteq p.held
  BY SMTT(60) DEF Sound, Shaped, Owned, State, Live
<1>2. /\ m \in PoolType
      /\ m.held = p.held /\ m.filled = p.filled
      /\ m.allocated = p.allocated /\ m.evicted = p.evicted
      /\ m.freed = p.freed
      /\ m.owners = [b \in Block |-> IF b \in S
            THEN [p.owners[b] EXCEPT ![r] = @ + (-1)] ELSE p.owners[b]]
  <2>1. \A b \in S : p.owners[b][r] + (-1) \in Nat
    BY <1>1 DEF Owned, PoolType
  <2> QED  BY <1>1, <2>1, ReferTypes
<1>3. D \in SUBSET Block /\ D \subseteq p.held
  BY <1>1, Zenon DEF Dropped
<1>4. ASSUME NEW b \in Block \ D
      PROVE  /\ b \in m.held <=> State(m, b) # "Free"
             /\ b \notin m.held => m.filled[b] = 0
  <2>1. CASE b \in S
    BY SMTT(60), <1>1, <1>2, <1>4, <2>1 DEF Dropped
  <2>2. CASE b \notin S
    <3>1. State(m, b) = State(p, b)
      BY SMTT(60), <1>2, <2>2 DEF State, Live, Content
    <3> QED  BY SMTT(60), <1>1, <1>2, <3>1 DEF Shaped
  <2> QED  BY <2>1, <2>2, Zenon
<1>5. /\ w \in PoolType /\ Shaped(w) /\ w.held = m.held \ D
      /\ w.allocated = m.allocated /\ w.evicted = m.evicted
      /\ w.freed = m.freed
  <2> HIDE DEF m, D
  <2>1. m \in PoolType
    BY <1>2, Zenon
  <2> QED  BY <1>3, <1>4, <2>1, WithoutSound, Zenon
<1>6. n \in Nat /\ k \in Nat
  BY <1>3, BlocksFinite, Zenon
<1>7. q = [w EXCEPT !.released = @ + k, !.freed = @ + n]
  BY Zenon DEF Release
<1>8. Cardinality(p.held) = Cardinality(p.held \ D) + n
  <2> HIDE DEF D
  <2>1. p.held \in SUBSET Block
    BY <1>1, Zenon DEF PoolType
  <2>2. p.held \cap D = D
    BY <1>3, Zenon
  <2>3. Cardinality(p.held) = Cardinality(p.held \ D) + Cardinality(p.held \cap D)
    BY <1>3, <2>1, BlocksSplit, ZenonT(60)
  <2> QED  BY <2>2, <2>3, ZenonT(60)
<1>9. Cardinality(p.held \ D) \in Nat
  BY <1>1, BlocksFinite, Zenon DEF PoolType
<1> HIDE DEF m, D, w, q, n, k
<1>10. q \in PoolType
  <2>1. w.freed + n \in Nat /\ w.released + k \in Nat
    BY <1>5, <1>6 DEF PoolType
  <2> QED  BY ZenonT(60), <1>5, <1>7, <2>1 DEF PoolType
<1>11. /\ q.held = w.held /\ q.filled = w.filled /\ q.owners = w.owners
       /\ q.allocated = w.allocated /\ q.evicted = w.evicted
       /\ q.freed = w.freed + n
  BY <1>5, <1>7, Zenon DEF PoolType
<1>12. \A b \in Block : State(q, b) = State(w, b)
  BY <1>11, Zenon DEF State, Live, Content
<1>13. Counted(q)
  <2>1. p.evicted \in Nat /\ p.freed \in Nat
    BY <1>1, Zenon DEF PoolType
  <2> QED  BY SMTT(60), <1>2, <1>5, <1>6, <1>8, <1>9, <1>11, <2>1 DEF Sound, Counted
<1>14. Sound(q)
  BY SMTT(60), <1>5, <1>10, <1>11, <1>12, <1>13 DEF Sound, Shaped
<1> QED  BY <1>14, Zenon DEF q

\* allocate takes blocks the pool does not hold.
LEMMA AllocateSound ==
    ASSUME NEW p, Sound(p), NEW r \in Request, NEW S \in SUBSET Block,
           CanAllocate(p, r, S)
    PROVE  Sound(Allocate(p, r, S))
<1> DEFINE q == Allocate(p, r, S)
           n == Cardinality(S)
           f == [b \in Block |-> IF b \in S THEN 0 ELSE p.filled[b]]
           o == [b \in Block |-> IF b \in S
                  THEN [NoOwners EXCEPT ![r] = 1] ELSE p.owners[b]]
           v == [p.reserved EXCEPT ![r] = IF @ > 0 THEN @ - n ELSE 0]
<1>1. p \in PoolType /\ Shaped(p) /\ S \cap p.held = {}
  BY Zenon DEF Sound, Shaped, CanAllocate, AllIn
<1>2. n \in Nat
  BY BlocksFinite, Zenon
<1>3. f \in [Block -> 0 .. BlockTokens]
  BY <1>1, PoolAssumption DEF PoolType
<1>4. o \in [Block -> [Request -> Nat]]
  BY <1>1, Zenon DEF PoolType, NoOwners
<1>5. v \in [Request -> Nat]
  BY <1>1, <1>2 DEF CanAllocate, PoolType
<1>6. q = [p EXCEPT !.held = @ \cup S, !.filled = f, !.owners = o,
                    !.reserved = v, !.allocated = @ + n]
  BY <1>1, Zenon DEF Allocate, PoolType
<1>7. Cardinality(p.held \cup S) = Cardinality(p.held) + n
  BY <1>1, BlocksUnion, Zenon DEF PoolType
<1>8. Cardinality(p.held) \in Nat
  BY <1>1, BlocksFinite, Zenon DEF PoolType
<1>9. \A b \in S : o[b][r] > 0
  <2>1. [NoOwners EXCEPT ![r] = 1][r] = 1
    BY Zenon DEF NoOwners
  <2> DEFINE one == [NoOwners EXCEPT ![r] = 1]
  <2> HIDE DEF one
  <2>2. o = [b \in Block |-> IF b \in S THEN one ELSE p.owners[b]]
    BY Zenon DEF one
  <2> HIDE DEF o
  <2>3. one[r] = 1
    BY <2>1, Zenon DEF one
  <2> QED  BY <2>2, <2>3
<1> HIDE DEF q, n, v
<1>10. q \in PoolType
  <2>1. p.held \cup S \in SUBSET Block /\ p.allocated + n \in Nat
    BY <1>1, <1>2 DEF PoolType
  <2> QED  BY ZenonT(60), <1>1, <1>3, <1>4, <1>5, <1>6, <2>1 DEF PoolType
<1>11. /\ q.held = p.held \cup S /\ q.filled = f /\ q.owners = o
       /\ q.allocated = p.allocated + n
       /\ q.evicted = p.evicted /\ q.freed = p.freed
  BY <1>1, <1>6, Zenon DEF PoolType
<1>12. ASSUME NEW b \in Block
       PROVE  IF b \in S THEN State(q, b) = "Live"
              ELSE State(q, b) = State(p, b)
  <2>1. CASE b \in S
    BY SMTT(60), <1>9, <1>11, <2>1 DEF State, Live
  <2>2. CASE b \notin S
    BY <1>11, <2>2, Zenon DEF State, Live, Content
  <2> QED  BY SMTT(60), <2>1, <2>2
<1>13. Shaped(q)
  BY SMTT(60), <1>1, <1>11, <1>12 DEF Shaped
<1>14. Counted(q)
  <2>1. p.evicted \in Nat /\ p.freed \in Nat
    BY <1>1, Zenon DEF PoolType
  <2> QED  BY <1>2, <1>7, <1>8, <1>11, <2>1 DEF Sound, Counted
<1>15. Sound(q)
  BY <1>10, <1>13, <1>14, Zenon DEF Sound
<1> QED  BY <1>15, Zenon DEF q

-----------------------------------------------------------------------------
(* The runtime. *)

\* Every pool the runtime has in hand is sound and within its capacity.
PoolsSound ==
    /\ Sound(ledger) /\ BlocksConserved(ledger)
    /\ Sound(draft) /\ BlocksConserved(draft)

\* A call past its identity check is new, and the authorities lag behind the
\* bookkeeper by the running call at most, in the order of the commits.
Committing ==
    /\ at \in Stage /\ current \in Execution
    /\ at \notin {"idle", "replaying"} => current \notin executed
    /\ at \notin {"booked", "installed"} => booked = executed
    /\ at # "installed" => installed = executed
    /\ at \in {"booked", "installed"} => booked = executed \cup {current}
    /\ at = "installed" => installed = executed \cup {current}

IInv == PoolsSound /\ Committing

\* An accepted observation leaves a sound pool within its capacity.
LEMMA ObserveStep ==
    ASSUME IInv, NEW legal, NEW pool, Observe(legal, pool),
           legal => Sound(pool)
    PROVE  IInv'
<1>1. Sound(pool) /\ Conserved(pool)
  BY Zenon DEF Observe
<1>2. BlocksConserved(pool)
  BY <1>1, ConservedBounds, Zenon
<1>3. draft' = pool /\ UNCHANGED <<ledger, at, current, executed, installed, booked>>
  BY Zenon DEF Observe, authorities
<1>4. PoolsSound'
  BY <1>1, <1>2, <1>3, Zenon DEF IInv, PoolsSound
<1>5. Committing'
  BY <1>3, Zenon DEF IInv, Committing
<1> QED  BY <1>4, <1>5, Zenon DEF IInv

\* The pool of a new ledger.
LEMMA EmptySound == Sound(EmptyPool) /\ BlocksConserved(EmptyPool)
<1>1. EmptyPool \in PoolType
  BY PoolAssumption DEF EmptyPool, PoolType, NoOwners
<1>2. \A b \in Block : State(EmptyPool, b) = "Free"
  BY PoolAssumption DEF State, Live, Content, EmptyPool, NoOwners
<1>3. EmptyPool.held = {} /\ \A b \in Block : EmptyPool.filled[b] = 0
  BY Zenon DEF EmptyPool
<1>4. Shaped(EmptyPool)
  BY SMTT(60), <1>2, <1>3 DEF Shaped
<1>5. Counted(EmptyPool)
  BY FS_EmptySet DEF Counted, EmptyPool
<1>6. Cardinality(EmptyPool.held) =< Capacity
  BY <1>3, FS_EmptySet, PoolAssumption
<1> QED  BY <1>1, <1>4, <1>5, <1>6, Zenon
            DEF Sound, BlocksConserved, Shaped, Counted

\* The invariant holds at the start ...
LEMMA InitInv == Init => IInv
BY SMTT(60), EmptySound DEF Init, IInv, PoolsSound, Committing, Stage

\* ... is kept by every step of execute ...
LEMMA NextInv == IInv /\ [Next]_vars => IInv'
<1> SUFFICES ASSUME IInv, [Next]_vars PROVE IInv'
  OBVIOUS
<1> USE DEF IInv
<1>s. Sound(draft)
  BY Zenon DEF PoolsSound
<1>n. Named \subseteq SUBSET Block
  BY Zenon DEF Named
<1>1. ASSUME NEW x \in Execution, Execute(x) PROVE IInv'
  BY <1>1, Zenon DEF Execute, PoolsSound, Committing, Stage, authorities
<1>2. CASE ObserveReserve
  <2> PICK r \in Request, tokens \in 1 .. 2 * BlockTokens :
        Observe(CanReserve(draft, tokens), Reserve(draft, r, tokens))
    BY <1>2, Zenon DEF ObserveReserve
  <2>1. Sound(Reserve(draft, r, tokens))
    BY <1>s, ReserveSound, PoolAssumption
  <2> QED  BY <2>1, ObserveStep, Zenon
<1>3. CASE ObserveAllocate
  <2> PICK r \in Request, S \in Named :
        Observe(CanAllocate(draft, r, S), Allocate(draft, r, S))
    BY <1>3, Zenon DEF ObserveAllocate
  <2>1. CanAllocate(draft, r, S) => Sound(Allocate(draft, r, S))
    BY <1>s, <1>n, AllocateSound, Zenon
  <2> QED  BY <2>1, ObserveStep, Zenon
<1>4. CASE ObserveTouch
  <2> PICK r \in Request, S \in Named :
        Observe(CanTouch(draft, S), Touch(draft, r, S))
    BY <1>4, Zenon DEF ObserveTouch
  <2>1. CanTouch(draft, S) => Sound(Touch(draft, r, S))
    BY SMTT(60), <1>s, <1>n, TouchSound
  <2> QED  BY <2>1, ObserveStep, Zenon
<1>5. CASE ObserveRetain
  <2> PICK r \in Request, S \in Named :
        Observe(CanRetain(draft, S), Retain(draft, r, S))
    BY <1>5, Zenon DEF ObserveRetain
  <2>1. CanRetain(draft, S) => Sound(Retain(draft, r, S))
    BY SMTT(60), <1>s, <1>n, RetainSound
  <2> QED  BY <2>1, ObserveStep, Zenon
<1>6. CASE ObserveWrite
  <2> PICK r \in Request, s \in Orders, fill \in [Block -> 0 .. BlockTokens] :
        Observe(Owned(draft, r, {s[i] : i \in DOMAIN s})
                  /\ Fills(draft, s, fill), Write(draft, fill))
    BY ZenonT(60), <1>6 DEF ObserveWrite
  <2>1. Owned(draft, r, {s[i] : i \in DOMAIN s}) /\ Fills(draft, s, fill)
           => Sound(Write(draft, fill))
    BY <1>s, WriteSound, Zenon
  <2> QED  BY ZenonT(60), <2>1, ObserveStep
<1>7. CASE ObserveRelease
  <2> PICK r \in Request, S \in Named :
        Observe(Owned(draft, r, S), Release(draft, r, S))
    BY <1>7, Zenon DEF ObserveRelease
  <2>1. Owned(draft, r, S) => Sound(Release(draft, r, S))
    BY <1>s, <1>n, ReleaseSound, Zenon
  <2> QED  BY <2>1, ObserveStep, Zenon
<1>8. CASE ObserveEvict
  <2> PICK S \in Named : Observe(CanEvict(draft, S), Evict(draft, S))
    BY <1>8, Zenon DEF ObserveEvict
  <2>1. CanEvict(draft, S) => Sound(Evict(draft, S))
    BY SMTT(60), <1>s, <1>n, EvictSound
  <2> QED  BY <2>1, ObserveStep, Zenon
<1>9. CASE ObserveFree
  <2> PICK S \in Named : Observe(CanFree(draft, S), Free(draft, S))
    BY <1>9, Zenon DEF ObserveFree
  <2>1. CanFree(draft, S) => Sound(Free(draft, S))
    BY SMTT(60), <1>s, <1>n, FreeSound
  <2> QED  BY <2>1, ObserveStep, Zenon
<1>10. CASE ObserveRest
  BY <1>10, Zenon DEF ObserveRest, Observe, PoolsSound, Committing, authorities
<1>11. CASE Replayed
  BY <1>11, Zenon DEF Replayed, Refused, PoolsSound, Committing, Stage, authorities
<1>12. CASE Refuse
  BY <1>12, Zenon DEF Refuse, Refused, PoolsSound, Committing, Stage, authorities
<1>13. CASE Prepare
  BY <1>13, Zenon DEF Prepare, PoolsSound, Committing, Stage, authorities
<1>14. CASE AppendBookkeeping
  BY <1>14, Zenon DEF AppendBookkeeping, PoolsSound, Committing, Stage
<1>15. CASE CommitNative
  BY <1>15, Zenon DEF CommitNative, PoolsSound, Committing, Stage
<1>16. CASE Adopt
  BY <1>16, Zenon DEF Adopt, PoolsSound, Committing, Stage
<1>17. CASE UNCHANGED vars
  BY <1>17, Zenon DEF vars, PoolsSound, Committing
<1> QED  BY SMTT(60), <1>1, <1>2, <1>3, <1>4, <1>5, <1>6, <1>7, <1>8, <1>9, <1>10,
            <1>11, <1>12, <1>13, <1>14, <1>15, <1>16, <1>17 DEF Next

\* ... and so holds always.
LEMMA AlwaysInv == Spec => []IInv
BY InitInv, NextInv, PTL DEF Spec

\* For any pool and any graphs, accepted or refused: the pool holds exactly
\* its live and reusable blocks, within its capacity, and every block ever
\* allocated is held, evicted or freed.
THEOREM PoolIsConserved == Spec => []PoolsConserved
<1>1. IInv => PoolsConserved
  BY Zenon DEF IInv, PoolsSound, PoolsConserved
<1> QED  BY <1>1, AlwaysInv, PTL

\* The bookkeeper, the native session and the runtime agree between calls,
\* and differ by the running execution at most.
THEOREM AuthoritiesStayTogether == Spec => []AuthoritiesAgree
<1>1. IInv => AuthoritiesAgree
  BY Zenon DEF IInv, Committing, AuthoritiesAgree, Stage
<1> QED  BY <1>1, AlwaysInv, PTL

\* The pool changes only with an execution that was not executed before.
THEOREM PoolAdoptedOnce == Spec => AdoptedOnce
<1>1. ASSUME IInv, [Next]_vars
      PROVE  [ledger' # ledger => \E x \in Execution \ executed :
                executed' = executed \cup {x}]_vars
  <2>1. CASE Adopt
    BY <1>1, <2>1, Zenon DEF IInv, Committing, Adopt
  <2>2. CASE ~Adopt
    <3>1. CASE \E x \in Execution : Execute(x)
      BY <3>1, Zenon DEF Execute, authorities
    <3>2. CASE ObserveReserve \/ ObserveAllocate \/ ObserveTouch
      BY <3>2, ZenonT(60)
         DEF ObserveReserve, ObserveAllocate, ObserveTouch, Observe, authorities
    <3>3. CASE ObserveRetain \/ ObserveWrite \/ ObserveRelease
      BY <3>3, ZenonT(60)
         DEF ObserveRetain, ObserveWrite, ObserveRelease, Observe, authorities
    <3>4. CASE ObserveEvict \/ ObserveFree \/ ObserveRest
      BY <3>4, ZenonT(60)
         DEF ObserveEvict, ObserveFree, ObserveRest, Observe, authorities
    <3>5. CASE Replayed \/ Refuse \/ Prepare
      BY <3>5, Zenon DEF Replayed, Refuse, Prepare, authorities
    <3>6. CASE AppendBookkeeping \/ CommitNative \/ UNCHANGED vars
      BY <3>6, Zenon DEF AppendBookkeeping, CommitNative, vars
    <3> QED  BY <1>1, <2>2, <3>1, <3>2, <3>3, <3>4, <3>5, <3>6, ZenonT(60) DEF Next
  <2> QED  BY <2>1, <2>2, Zenon
<1> QED  BY <1>1, AlwaysInv, PTL DEF Spec, AdoptedOnce

-----------------------------------------------------------------------------
(* The references requests hold. *)

\* The references of a pool with these owners.
RefsOf(o) ==
    {t \in Block \X Request \X (Nat \ {0}) : t[3] =< o[t[1]][t[2]]}

\* What an operation adds to, or takes from, the references.
Refs(S, r, f) == {<<b, r, f[b]>> : b \in S}

\* What is held is finite, and is what was taken and not released.
Kept(p) == IsFiniteSet(References(p)) /\ ReferencesConserved(p)

\* The references are those its owners hold.
LEMMA ReferencesAre ==
    ASSUME NEW p \in PoolType
    PROVE  References(p) = RefsOf(p.owners)
<1> DEFINE At(b, r) == {<<b, r, n>> : n \in 1 .. p.owners[b][r]}
           U == {At(b, r) : b \in Block, r \in Request}
<1>0. References(p) = UNION U
  BY DEF References
<1>1. p.owners \in [Block -> [Request -> Nat]]
  BY Zenon DEF PoolType
<1>2. ASSUME NEW t \in References(p) PROVE t \in RefsOf(p.owners)
  <2>0. PICK X \in U : t \in X
    <3> HIDE DEF U
    <3> QED BY <1>0, Zenon
  <2>1. PICK b \in Block, r \in Request : t \in At(b, r)
    BY <2>0
  <2>2. PICK n \in 1 .. p.owners[b][r] : t = <<b, r, n>>
    BY <2>1
  <2> QED BY <1>1, <2>2 DEF RefsOf
<1>3. ASSUME NEW t \in RefsOf(p.owners) PROVE t \in References(p)
  <2>1. PICK b \in Block, r \in Request, n \in Nat \ {0} : t = <<b, r, n>>
    BY DEF RefsOf
  <2>2. p.owners[b][r] \in Nat /\ n =< p.owners[b][r]
    BY <1>1, <2>1, Zenon DEF RefsOf
  <2>3. t \in At(b, r)
    BY <2>1, <2>2
  <2>4. At(b, r) \in U
    OBVIOUS
  <2> HIDE DEF U
  <2> QED BY <1>0, <2>3, <2>4, Zenon
<1> QED BY <1>2, <1>3, Zenon

\* One reference per block: as many as there are blocks.
LEMMA RefsCount ==
    ASSUME NEW S \in SUBSET Block, NEW r, NEW f
    PROVE  IsFiniteSet(Refs(S, r, f)) /\ Cardinality(Refs(S, r, f)) = Cardinality(S)
<1> DEFINE g == [b \in S |-> <<b, r, f[b]>>]
           T == Refs(S, r, f)
<1>1. g \in [S -> T]
  BY Zenon DEF Refs
<1>2. \A a, b \in S : g[a] = g[b] => a = b
  OBVIOUS
<1>3. \A t \in T : \E b \in S : g[b] = t
  BY Zenon DEF Refs
<1> HIDE DEF g
<1>4. g \in Bijection(S, T)
  BY <1>1, <1>2, <1>3, Zenon
     DEF Bijection, Injection, Surjection, IsInjective
<1>5. ExistsBijection(S, T)
  BY <1>4, Zenon DEF ExistsBijection
<1> QED BY <1>5, BlocksFinite, FS_Bijection, Zenon

\* Owners alike, references alike.
LEMMA SameOwners ==
    ASSUME NEW p \in PoolType, NEW q \in PoolType, Kept(p), q.owners = p.owners,
           q.allocated + q.touched + q.retained - q.released
             = p.allocated + p.touched + p.retained - p.released
    PROVE  Kept(q)
<1>1. References(q) = References(p)
  BY ReferencesAre, Zenon
<1>2. /\ p.allocated \in Nat /\ p.touched \in Nat /\ p.retained \in Nat
      /\ q.allocated \in Nat /\ q.touched \in Nat /\ q.retained \in Nat
      /\ p.released \in Nat /\ q.released \in Nat
  BY Zenon DEF PoolType
<1>3. Cardinality(References(p)) \in Nat
  BY FS_CardinalityType, Zenon DEF Kept
<1> QED BY <1>1, <1>2, <1>3 DEF Kept, ReferencesConserved

\* A reference taken to each block of S.
LEMMA RefsTaken ==
    ASSUME NEW p \in PoolType, NEW q \in PoolType, Kept(p),
           NEW r \in Request, NEW S \in SUBSET Block,
           \A b \in Block, s \in Request : q.owners[b][s] =
              IF b \in S /\ s = r THEN p.owners[b][s] + 1 ELSE p.owners[b][s],
           q.allocated + q.touched + q.retained
             = p.allocated + p.touched + p.retained + Cardinality(S),
           q.released = p.released
    PROVE  Kept(q)
<1> DEFINE f == [b \in S |-> p.owners[b][r] + 1]
           T == Refs(S, r, f)
<1>1. p.owners \in [Block -> [Request -> Nat]] /\ q.owners \in [Block -> [Request -> Nat]]
  BY Zenon DEF PoolType
<1>2. \A b \in S : f[b] = p.owners[b][r] + 1
  OBVIOUS
<1>3. IsFiniteSet(T) /\ Cardinality(T) = Cardinality(S)
  BY RefsCount, Zenon
<1> HIDE DEF f
<1>4. ASSUME NEW t PROVE t \in RefsOf(q.owners) <=> t \in RefsOf(p.owners) \/ t \in T
  <2>1. CASE t \in Block \X Request \X (Nat \ {0})
    <3>1. PICK b \in Block, s \in Request, n \in Nat \ {0} : t = <<b, s, n>>
      BY <2>1
    <3>2. p.owners[b][s] \in Nat
      BY <1>1
    <3>3. t \in T <=> b \in S /\ s = r /\ n = p.owners[b][s] + 1
      BY <1>2, <3>1 DEF Refs
    <3>4. t \in RefsOf(p.owners) <=> n =< p.owners[b][s]
      BY <3>1, Zenon DEF RefsOf
    <3>5. t \in RefsOf(q.owners) <=> n =< q.owners[b][s]
      BY <3>1, Zenon DEF RefsOf
    <3> QED BY <3>2, <3>3, <3>4, <3>5
  <2>2. CASE t \notin Block \X Request \X (Nat \ {0})
    <3>1. t \notin T
      <4> SUFFICES ASSUME t \in T PROVE FALSE
        OBVIOUS
      <4>1. PICK b \in S : t = <<b, r, f[b]>>
        BY Zenon DEF Refs
      <4>2. f[b] \in Nat \ {0}
        BY <1>1, <1>2
      <4> QED BY <2>2, <4>1, <4>2, Zenon
    <3> QED BY <2>2, <3>1, Zenon DEF RefsOf
  <2> QED BY <2>1, <2>2, Zenon
<1>5. References(q) = References(p) \cup T
  BY <1>4, ReferencesAre, Zenon
<1>6. References(p) \cap T = {}
  <2> SUFFICES ASSUME NEW t \in T, t \in RefsOf(p.owners) PROVE FALSE
    BY ReferencesAre, Zenon
  <2>1. PICK b \in S : t = <<b, r, f[b]>>
    BY Zenon DEF Refs
  <2>2. f[b] =< p.owners[b][r] /\ p.owners[b][r] \in Nat
    BY <1>1, <2>1 DEF RefsOf
  <2> QED BY <1>2, <2>2
<1> HIDE DEF T
<1>7. /\ IsFiniteSet(References(q))
      /\ Cardinality(References(q)) = Cardinality(References(p)) + Cardinality(S)
  <2>1. /\ IsFiniteSet(References(p) \cup T)
        /\ Cardinality(References(p) \cup T)
             = Cardinality(References(p)) + Cardinality(T)
                 - Cardinality(References(p) \cap T)
    BY <1>3, FS_Union, Zenon DEF Kept
  <2>2. Cardinality(References(p)) \in Nat /\ Cardinality(T) \in Nat
    BY <1>3, FS_CardinalityType, Zenon DEF Kept
  <2>3. Cardinality(References(p) \cap T) = 0
    BY <1>6, FS_EmptySet, Zenon
  <2>4. Cardinality(References(p) \cup T)
          = Cardinality(References(p)) + Cardinality(S)
    BY <1>3, <2>1, <2>2, <2>3
  <2> QED BY <1>5, <2>1, <2>4, Zenon
<1>8. Cardinality(References(p)) \in Nat /\ Cardinality(S) \in Nat /\ p.released \in Nat
  BY FS_CardinalityType, BlocksFinite, Zenon DEF Kept, PoolType
<1> QED BY <1>7, <1>8 DEF Kept, ReferencesConserved

\* A reference given up to each block of S.
LEMMA RefsGivenUp ==
    ASSUME NEW p \in PoolType, NEW q \in PoolType, Kept(p),
           NEW r \in Request, NEW S \in SUBSET Block,
           \A b \in S : p.owners[b][r] > 0,
           \A b \in Block, s \in Request : q.owners[b][s] =
              IF b \in S /\ s = r THEN p.owners[b][s] - 1 ELSE p.owners[b][s],
           q.allocated + q.touched + q.retained
             = p.allocated + p.touched + p.retained,
           q.released = p.released + Cardinality(S)
    PROVE  Kept(q)
<1> DEFINE f == [b \in S |-> p.owners[b][r]]
           T == Refs(S, r, f)
<1>1. p.owners \in [Block -> [Request -> Nat]] /\ q.owners \in [Block -> [Request -> Nat]]
  BY Zenon DEF PoolType
<1>2. \A b \in S : f[b] = p.owners[b][r]
  OBVIOUS
<1>3. IsFiniteSet(T) /\ Cardinality(T) = Cardinality(S)
  BY RefsCount, Zenon
<1> HIDE DEF f
<1>4. ASSUME NEW t PROVE t \in RefsOf(q.owners) <=> t \in RefsOf(p.owners) /\ t \notin T
  <2>1. CASE t \in Block \X Request \X (Nat \ {0})
    <3>1. PICK b \in Block, s \in Request, n \in Nat \ {0} : t = <<b, s, n>>
      BY <2>1
    <3>2. p.owners[b][s] \in Nat
      BY <1>1
    <3>3. t \in T <=> b \in S /\ s = r /\ n = p.owners[b][s]
      BY <1>2, <3>1 DEF Refs
    <3>4. t \in RefsOf(p.owners) <=> n =< p.owners[b][s]
      BY <3>1, Zenon DEF RefsOf
    <3>5. t \in RefsOf(q.owners) <=> n =< q.owners[b][s]
      BY <3>1, Zenon DEF RefsOf
    <3> QED BY <3>2, <3>3, <3>4, <3>5
  <2>2. CASE t \notin Block \X Request \X (Nat \ {0})
    BY <2>2, Zenon DEF RefsOf
  <2> QED BY <2>1, <2>2, Zenon
<1>5. References(q) = References(p) \ T
  BY <1>4, ReferencesAre, Zenon
<1>6. References(p) \cap T = T
  <2> SUFFICES ASSUME NEW t \in T PROVE t \in RefsOf(p.owners)
    BY ReferencesAre, Zenon
  <2>1. PICK b \in S : t = <<b, r, f[b]>>
    BY Zenon DEF Refs
  <2>2. f[b] = p.owners[b][r] /\ p.owners[b][r] \in Nat \ {0}
    BY <1>1, <1>2
  <2> QED BY <2>1, <2>2 DEF RefsOf
<1> HIDE DEF T
<1>7. /\ IsFiniteSet(References(q))
      /\ Cardinality(References(q)) = Cardinality(References(p)) - Cardinality(S)
  <2>1. /\ IsFiniteSet(References(p) \ T)
        /\ Cardinality(References(p) \ T)
             = Cardinality(References(p)) - Cardinality(References(p) \cap T)
    BY FS_Difference, Zenon DEF Kept
  <2> QED BY <1>3, <1>5, <1>6, <2>1, Zenon
<1>8. Cardinality(References(p)) \in Nat /\ Cardinality(S) \in Nat /\ p.released \in Nat
  BY FS_CardinalityType, BlocksFinite, Zenon DEF Kept, PoolType
<1> QED BY <1>7, <1>8 DEF Kept, ReferencesConserved

\* Dropping blocks nobody holds gives up no reference.
LEMMA WithoutOwners ==
    ASSUME NEW p \in PoolType, NEW S \in SUBSET Block, \A b \in S : ~Live(p, b)
    PROVE  /\ Without(p, S).owners = p.owners
           /\ Without(p, S).allocated = p.allocated
           /\ Without(p, S).touched = p.touched
           /\ Without(p, S).retained = p.retained
           /\ Without(p, S).released = p.released
<1> DEFINE o == [b \in Block |-> IF b \in S THEN NoOwners ELSE p.owners[b]]
           h == p.held \ S
           f == [b \in Block |-> IF b \in S THEN 0 ELSE p.filled[b]]
           q == Without(p, S)
<1>1. p.owners \in [Block -> [Request -> Nat]]
  BY Zenon DEF PoolType
<1>2. o = p.owners
  <2>1. ASSUME NEW b \in S PROVE p.owners[b] = NoOwners
    <3>1. p.owners[b] \in [Request -> Nat]
      BY <1>1, Zenon
    <3>2. \A r \in Request : p.owners[b][r] = 0
      BY <3>1 DEF Live
    <3> QED BY <3>1, <3>2, Zenon DEF NoOwners
  <2>2. \A b \in Block : o[b] = p.owners[b]
    BY <2>1, Zenon
  <2> QED BY <1>1, <2>2, Zenon
<1>3. q = [p EXCEPT !.held = h, !.filled = f, !.owners = o]
  BY Zenon DEF Without
<1> HIDE DEF o, h, f, q
<1>4. /\ q.owners = o /\ q.allocated = p.allocated /\ q.touched = p.touched
      /\ q.retained = p.retained /\ q.released = p.released
  BY <1>3, ZenonT(60) DEF PoolType
<1> QED BY <1>2, <1>4, Zenon DEF q

\* What Refer does to the owners and the counters.
LEMMA ReferOwners ==
    ASSUME NEW p \in PoolType, NEW r \in Request, NEW S \in SUBSET Block,
           NEW by \in Int
    PROVE  LET q == Refer(p, r, S, by)
           IN  /\ \A b \in Block, s \in Request : q.owners[b][s] =
                     IF b \in S /\ s = r THEN p.owners[b][s] + by
                                         ELSE p.owners[b][s]
               /\ q.allocated = p.allocated /\ q.touched = p.touched
               /\ q.retained = p.retained /\ q.released = p.released
<1> DEFINE o == [b \in Block |-> IF b \in S
                   THEN [p.owners[b] EXCEPT ![r] = @ + by] ELSE p.owners[b]]
           q == Refer(p, r, S, by)
<1>1. q = [p EXCEPT !.owners = o]
  BY Zenon DEF Refer
<1>2. ASSUME NEW b \in Block, NEW s \in Request
      PROVE  o[b][s] = IF b \in S /\ s = r THEN p.owners[b][s] + by
                                           ELSE p.owners[b][s]
  <2>1. p.owners[b] \in [Request -> Nat]
    BY Zenon DEF PoolType
  <2> QED BY <2>1, Zenon
<1> HIDE DEF o, q
<1>3. /\ q.owners = o /\ q.allocated = p.allocated /\ q.touched = p.touched
      /\ q.retained = p.retained /\ q.released = p.released
  BY <1>1, ZenonT(60) DEF PoolType
<1>4. \A b \in Block, s \in Request : q.owners[b][s] =
         IF b \in S /\ s = r THEN p.owners[b][s] + by ELSE p.owners[b][s]
  BY <1>2, <1>3, Zenon
<1> QED BY <1>3, <1>4, Zenon DEF q

\* reserve and write take and release nothing.
LEMMA ReserveKept ==
    ASSUME NEW p, Sound(p), Kept(p), NEW r \in Request, NEW tokens \in Nat
    PROVE  Kept(Reserve(p, r, tokens))
<1>1. p \in PoolType /\ Reserve(p, r, tokens) \in PoolType
  BY ReserveSound, Zenon DEF Sound
<1>2. LET q == Reserve(p, r, tokens)
      IN  /\ q.owners = p.owners /\ q.allocated = p.allocated
          /\ q.touched = p.touched /\ q.retained = p.retained
          /\ q.released = p.released
  BY <1>1, Zenon DEF Reserve, PoolType
<1> QED BY <1>1, <1>2, SameOwners, Zenon

\* The same for write.
LEMMA WriteKept ==
    ASSUME NEW p, Sound(p), Kept(p), NEW r \in Request, NEW s \in Orders,
           NEW fill \in [Block -> 0 .. BlockTokens],
           Owned(p, r, {s[i] : i \in DOMAIN s}), Fills(p, s, fill)
    PROVE  Kept(Write(p, fill))
<1>1. p \in PoolType /\ Write(p, fill) \in PoolType
  BY WriteSound, Zenon DEF Sound
<1>2. LET q == Write(p, fill)
      IN  /\ q.owners = p.owners /\ q.allocated = p.allocated
          /\ q.touched = p.touched /\ q.retained = p.retained
          /\ q.released = p.released
  BY <1>1, Zenon DEF Write, PoolType
<1> QED BY <1>1, <1>2, SameOwners, Zenon

\* touch counts the references it takes.
LEMMA TouchKept ==
    ASSUME NEW p, Sound(p), Kept(p), NEW r \in Request, NEW S \in SUBSET Block,
           CanTouch(p, S)
    PROVE  Kept(Touch(p, r, S))
<1> DEFINE m == Refer(p, r, S, 1)
           q == Touch(p, r, S)
           n == Cardinality(S)
<1>1. p \in PoolType /\ q \in PoolType /\ n \in Nat
  BY TouchSound, BlocksFinite, Zenon DEF Sound
<1>2. m \in PoolType
  <2>1. S \in SUBSET p.held
    BY Zenon DEF CanTouch, AllIn, Sound, Shaped
  <2> QED BY <2>1, ReferSound, Zenon DEF Sound
<1>3. /\ \A b \in Block, s \in Request : m.owners[b][s] =
            IF b \in S /\ s = r THEN p.owners[b][s] + 1 ELSE p.owners[b][s]
      /\ m.allocated = p.allocated /\ m.touched = p.touched
      /\ m.retained = p.retained /\ m.released = p.released
  BY <1>1, ReferOwners
<1>4. q = [m EXCEPT !.touched = @ + n]
  BY Zenon DEF Touch
<1> HIDE DEF m, q, n
<1>5. /\ q.owners = m.owners /\ q.allocated = m.allocated
      /\ q.touched = m.touched + n /\ q.retained = m.retained
      /\ q.released = m.released
  BY <1>2, <1>4, Zenon DEF PoolType
<1>6. q.allocated + q.touched + q.retained
        = p.allocated + p.touched + p.retained + n
  BY <1>1, <1>3, <1>5 DEF PoolType
<1>7. Kept(q)
  BY <1>1, <1>3, <1>5, <1>6, RefsTaken DEF n
<1> QED BY <1>7, Zenon DEF q

\* retain counts the references it takes.
LEMMA RetainKept ==
    ASSUME NEW p, Sound(p), Kept(p), NEW r \in Request, NEW S \in SUBSET Block,
           CanRetain(p, S)
    PROVE  Kept(Retain(p, r, S))
<1> DEFINE m == Refer(p, r, S, 1)
           q == Retain(p, r, S)
           n == Cardinality(S)
<1>1. p \in PoolType /\ q \in PoolType /\ n \in Nat
  BY RetainSound, BlocksFinite, Zenon DEF Sound
<1>2. m \in PoolType
  <2>1. S \in SUBSET p.held
    BY Zenon DEF CanRetain, AllIn, Sound, Shaped
  <2> QED BY <2>1, ReferSound, Zenon DEF Sound
<1>3. /\ \A b \in Block, s \in Request : m.owners[b][s] =
            IF b \in S /\ s = r THEN p.owners[b][s] + 1 ELSE p.owners[b][s]
      /\ m.allocated = p.allocated /\ m.touched = p.touched
      /\ m.retained = p.retained /\ m.released = p.released
  BY <1>1, ReferOwners
<1>4. q = [m EXCEPT !.retained = @ + n]
  BY Zenon DEF Retain
<1> HIDE DEF m, q, n
<1>5. /\ q.owners = m.owners /\ q.allocated = m.allocated
      /\ q.touched = m.touched /\ q.retained = m.retained + n
      /\ q.released = m.released
  BY <1>2, <1>4, Zenon DEF PoolType
<1>6. q.allocated + q.touched + q.retained
        = p.allocated + p.touched + p.retained + n
  BY <1>1, <1>3, <1>5 DEF PoolType
<1>7. Kept(q)
  BY <1>1, <1>3, <1>5, <1>6, RefsTaken DEF n
<1> QED BY <1>7, Zenon DEF q

\* evict and free drop blocks nobody holds.
LEMMA EvictKept ==
    ASSUME NEW p, Sound(p), Kept(p), NEW S \in SUBSET Block, CanEvict(p, S)
    PROVE  Kept(Evict(p, S))
<1> DEFINE w == Without(p, S)
           q == Evict(p, S)
<1>1. p \in PoolType /\ q \in PoolType
  BY EvictSound, Zenon DEF Sound
<1>2. \A b \in S : ~Live(p, b)
  BY Zenon DEF CanEvict, AllIn, State
<1>3. /\ w.owners = p.owners /\ w.allocated = p.allocated
      /\ w.touched = p.touched /\ w.retained = p.retained
      /\ w.released = p.released
  BY <1>1, <1>2, WithoutOwners, Zenon
<1>4. w \in PoolType
  BY <1>1, WithoutSound, Zenon DEF Sound, Shaped
<1>5. q = [w EXCEPT !.evicted = @ + Cardinality(S)]
  BY Zenon DEF Evict
<1> HIDE DEF w, q
<1>6. /\ q.owners = w.owners /\ q.allocated = w.allocated
      /\ q.touched = w.touched /\ q.retained = w.retained
      /\ q.released = w.released
  BY <1>4, <1>5, Zenon DEF PoolType
<1>7. Kept(q)
  BY <1>1, <1>3, <1>6, SameOwners, Zenon
<1> QED BY <1>7, Zenon DEF q

\* The same for free.
LEMMA FreeKept ==
    ASSUME NEW p, Sound(p), Kept(p), NEW S \in SUBSET Block, CanFree(p, S)
    PROVE  Kept(Free(p, S))
<1> DEFINE w == Without(p, S)
           q == Free(p, S)
<1>1. p \in PoolType /\ q \in PoolType
  BY FreeSound, Zenon DEF Sound
<1>2. \A b \in S : ~Live(p, b)
  BY Zenon DEF CanFree
<1>3. /\ w.owners = p.owners /\ w.allocated = p.allocated
      /\ w.touched = p.touched /\ w.retained = p.retained
      /\ w.released = p.released
  BY <1>1, <1>2, WithoutOwners, Zenon
<1>4. w \in PoolType
  BY <1>1, WithoutSound, Zenon DEF Sound, Shaped
<1>5. q = [w EXCEPT !.freed = @ + Cardinality(S \cap p.held)]
  BY Zenon DEF Free
<1> HIDE DEF w, q
<1>6. /\ q.owners = w.owners /\ q.allocated = w.allocated
      /\ q.touched = w.touched /\ q.retained = w.retained
      /\ q.released = w.released
  BY <1>4, <1>5, Zenon DEF PoolType
<1>7. Kept(q)
  BY <1>1, <1>3, <1>6, SameOwners, Zenon
<1> QED BY <1>7, Zenon DEF q

\* release counts the references it gives up; what it drops has none.
LEMMA ReleaseKept ==
    ASSUME NEW p, Sound(p), Kept(p), NEW r \in Request, NEW S \in SUBSET Block,
           Owned(p, r, S)
    PROVE  Kept(Release(p, r, S))
<1> DEFINE m == Refer(p, r, S, -1)
           D == Dropped(m, S)
           w == Without(m, D)
           q == Release(p, r, S)
           n == Cardinality(D)
           k == Cardinality(S)
<1>1. p \in PoolType /\ q \in PoolType /\ k \in Nat
  BY ReleaseSound, BlocksFinite, Zenon DEF Sound
<1>2. m \in PoolType
  <2>1. \A b \in S : p.owners[b][r] + (-1) \in Nat
    BY <1>1 DEF Owned, PoolType
  <2>2. -1 \in Int
    OBVIOUS
  <2> QED BY <1>1, <2>1, <2>2, ReferTypes, Zenon
<1>3. /\ \A b \in Block, s \in Request : m.owners[b][s] =
            IF b \in S /\ s = r THEN p.owners[b][s] + (-1) ELSE p.owners[b][s]
      /\ m.allocated = p.allocated /\ m.touched = p.touched
      /\ m.retained = p.retained /\ m.released = p.released
  BY <1>1, ReferOwners
<1>4. D \in SUBSET Block /\ \A b \in D : ~Live(m, b)
  BY Zenon DEF Dropped, State
<1>5. q = [w EXCEPT !.released = @ + k, !.freed = @ + n]
  BY Zenon DEF Release
<1> HIDE DEF m, D, n, k, q
<1>6. /\ w.owners = m.owners /\ w.allocated = m.allocated
      /\ w.touched = m.touched /\ w.retained = m.retained
      /\ w.released = m.released
  BY <1>2, <1>4, WithoutOwners, Zenon
<1>7. w \in [held : SUBSET Block, filled : [Block -> 0 .. BlockTokens],
             owners : [Block -> [Request -> Nat]], reserved : [Request -> Nat],
             allocated : Nat, touched : Nat, retained : Nat, released : Nat,
             evicted : Nat, freed : Nat]
  <2>1. m.held \ D \in SUBSET Block
    BY <1>2, Zenon DEF PoolType
  <2>2. [b \in Block |-> IF b \in D THEN 0 ELSE m.filled[b]]
           \in [Block -> 0 .. BlockTokens]
    BY <1>2, PoolAssumption DEF PoolType
  <2>3. [b \in Block |-> IF b \in D THEN NoOwners ELSE m.owners[b]]
           \in [Block -> [Request -> Nat]]
    BY <1>2, Zenon DEF PoolType, NoOwners
  <2> QED BY ZenonT(60), <1>2, <2>1, <2>2, <2>3 DEF Without, PoolType
<1> HIDE DEF w
<1>8. /\ q.owners = w.owners /\ q.allocated = w.allocated
      /\ q.touched = w.touched /\ q.retained = w.retained
      /\ q.released = w.released + k
  BY <1>5, <1>7, Zenon
<1>9. \A b \in Block, s \in Request : q.owners[b][s] =
         IF b \in S /\ s = r THEN p.owners[b][s] - 1 ELSE p.owners[b][s]
  <2>1. \A b \in Block, s \in Request : p.owners[b][s] \in Nat
    BY <1>1, Zenon DEF PoolType
  <2>2. q.owners = m.owners
    BY <1>6, <1>8, Zenon
  <2> QED BY <1>3, <2>1, <2>2
<1>10. \A b \in S : p.owners[b][r] > 0
  BY Zenon DEF Owned
<1>11. /\ q.allocated + q.touched + q.retained
            = p.allocated + p.touched + p.retained
       /\ q.released = p.released + k
  BY <1>3, <1>6, <1>8, Zenon
<1>12. Kept(q)
  BY <1>1, <1>9, <1>10, <1>11, RefsGivenUp DEF k
<1> QED BY <1>12, Zenon DEF q

\* allocate gives the request one reference to each block it takes.
LEMMA AllocateKept ==
    ASSUME NEW p, Sound(p), Kept(p), NEW r \in Request, NEW S \in SUBSET Block,
           CanAllocate(p, r, S)
    PROVE  Kept(Allocate(p, r, S))
<1> DEFINE q == Allocate(p, r, S)
           n == Cardinality(S)
           one == [NoOwners EXCEPT ![r] = 1]
           f == [b \in Block |-> IF b \in S THEN 0 ELSE p.filled[b]]
           o == [b \in Block |-> IF b \in S THEN one ELSE p.owners[b]]
           v == [p.reserved EXCEPT ![r] = IF @ > 0 THEN @ - n ELSE 0]
<1>1. p \in PoolType /\ q \in PoolType /\ n \in Nat
  BY AllocateSound, BlocksFinite, Zenon DEF Sound
<1>2. ASSUME NEW b \in S, NEW s \in Request
      PROVE  p.owners[b][s] = 0
  <2>1. ~Live(p, b) /\ p.owners[b][s] \in Nat
    BY <1>1 DEF CanAllocate, AllIn, State, PoolType
  <2> QED BY <2>1 DEF Live
<1>3. \A s \in Request : one[s] = IF s = r THEN 1 ELSE 0
  BY Zenon DEF NoOwners
<1>4. q = [p EXCEPT !.held = @ \cup S, !.filled = f, !.owners = o,
                    !.reserved = v, !.allocated = @ + n]
  BY <1>1, Zenon DEF Allocate, PoolType
<1> HIDE DEF q, n, v, f, one
<1>5. ASSUME NEW b \in Block, NEW s \in Request
      PROVE  o[b][s] = IF b \in S /\ s = r THEN p.owners[b][s] + 1
                                           ELSE p.owners[b][s]
  <2>1. CASE b \in S
    <3>1. o[b][s] = (IF s = r THEN 1 ELSE 0) /\ p.owners[b][s] = 0
      BY <1>2, <1>3, <2>1, Zenon
    <3> QED BY <2>1, <3>1
  <2>2. CASE b \notin S
    BY <2>2, Zenon
  <2> QED BY <2>1, <2>2, Zenon
<1> HIDE DEF o
<1>6. /\ q.owners = o /\ q.allocated = p.allocated + n
      /\ q.touched = p.touched /\ q.retained = p.retained
      /\ q.released = p.released
  BY <1>1, <1>4, Zenon DEF PoolType
<1>7. q.allocated + q.touched + q.retained
        = p.allocated + p.touched + p.retained + n
  BY <1>1, <1>6 DEF PoolType
<1>8. \A b \in Block, s \in Request : q.owners[b][s] =
         IF b \in S /\ s = r THEN p.owners[b][s] + 1 ELSE p.owners[b][s]
  BY <1>5, <1>6, Zenon
<1>9. Kept(q)
  BY <1>1, <1>6, <1>7, <1>8, RefsTaken, Zenon DEF n
<1> QED BY <1>9, Zenon DEF q

\* Both ledgers.
PoolsKept == Kept(ledger) /\ Kept(draft)

\* An accepted observation of a handler that keeps count keeps both.
LEMMA ObserveKept ==
    ASSUME PoolsKept, NEW legal, NEW pool, Observe(legal, pool),
           legal => Kept(pool)
    PROVE  PoolsKept'
BY Zenon DEF Observe, PoolsKept, authorities

\* Every step keeps the count of references.
LEMMA KeptSteps ==
    ASSUME IInv, PoolsKept, [Next]_vars
    PROVE  PoolsKept'
<1>s. Sound(draft) /\ Kept(draft)
  BY Zenon DEF IInv, PoolsSound, PoolsKept
<1>n. Named \subseteq SUBSET Block
  BY Zenon DEF Named
<1>1. CASE ObserveReserve
  <2> PICK r \in Request, tokens \in 1 .. 2 * BlockTokens :
        Observe(CanReserve(draft, tokens), Reserve(draft, r, tokens))
    BY <1>1, Zenon DEF ObserveReserve
  <2>1. Kept(Reserve(draft, r, tokens))
    BY <1>s, ReserveKept, PoolAssumption
  <2> QED BY <2>1, ObserveKept, Zenon
<1>2. CASE ObserveAllocate
  <2> PICK r \in Request, S \in Named :
        Observe(CanAllocate(draft, r, S), Allocate(draft, r, S))
    BY <1>2, Zenon DEF ObserveAllocate
  <2>1. CanAllocate(draft, r, S) => Kept(Allocate(draft, r, S))
    BY <1>s, <1>n, AllocateKept, Zenon
  <2> QED BY <2>1, ObserveKept, Zenon
<1>3. CASE ObserveTouch
  <2> PICK r \in Request, S \in Named :
        Observe(CanTouch(draft, S), Touch(draft, r, S))
    BY <1>3, Zenon DEF ObserveTouch
  <2>1. CanTouch(draft, S) => Kept(Touch(draft, r, S))
    BY <1>s, <1>n, TouchKept, Zenon
  <2> QED BY <2>1, ObserveKept, Zenon
<1>4. CASE ObserveRetain
  <2> PICK r \in Request, S \in Named :
        Observe(CanRetain(draft, S), Retain(draft, r, S))
    BY <1>4, Zenon DEF ObserveRetain
  <2>1. CanRetain(draft, S) => Kept(Retain(draft, r, S))
    BY <1>s, <1>n, RetainKept, Zenon
  <2> QED BY <2>1, ObserveKept, Zenon
<1>5. CASE ObserveWrite
  <2> PICK r \in Request, s \in Orders, fill \in [Block -> 0 .. BlockTokens] :
        Observe(Owned(draft, r, {s[i] : i \in DOMAIN s})
                  /\ Fills(draft, s, fill), Write(draft, fill))
    BY ZenonT(60), <1>5 DEF ObserveWrite
  <2>1. Owned(draft, r, {s[i] : i \in DOMAIN s}) /\ Fills(draft, s, fill)
           => Kept(Write(draft, fill))
    BY <1>s, WriteKept, Zenon
  <2> QED BY ZenonT(60), <2>1, ObserveKept
<1>6. CASE ObserveRelease
  <2> PICK r \in Request, S \in Named :
        Observe(Owned(draft, r, S), Release(draft, r, S))
    BY <1>6, Zenon DEF ObserveRelease
  <2>1. Owned(draft, r, S) => Kept(Release(draft, r, S))
    BY <1>s, <1>n, ReleaseKept, Zenon
  <2> QED BY <2>1, ObserveKept, Zenon
<1>7. CASE ObserveEvict
  <2> PICK S \in Named : Observe(CanEvict(draft, S), Evict(draft, S))
    BY <1>7, Zenon DEF ObserveEvict
  <2>1. CanEvict(draft, S) => Kept(Evict(draft, S))
    BY <1>s, <1>n, EvictKept, Zenon
  <2> QED BY <2>1, ObserveKept, Zenon
<1>8. CASE ObserveFree
  <2> PICK S \in Named : Observe(CanFree(draft, S), Free(draft, S))
    BY <1>8, Zenon DEF ObserveFree
  <2>1. CanFree(draft, S) => Kept(Free(draft, S))
    BY <1>s, <1>n, FreeKept, Zenon
  <2> QED BY <2>1, ObserveKept, Zenon
<1>9. CASE ObserveRest
  BY <1>9, Zenon DEF ObserveRest, Observe, PoolsKept, authorities
<1>10. CASE \/ \E x \in Execution : Execute(x)
            \/ Replayed \/ Refuse \/ Prepare
  BY <1>10, Zenon
     DEF Execute, Replayed, Refuse, Refused, Prepare, PoolsKept, authorities
<1>11. CASE AppendBookkeeping \/ CommitNative \/ Adopt \/ UNCHANGED vars
  BY <1>11, Zenon DEF AppendBookkeeping, CommitNative, Adopt, vars, PoolsKept
<1> QED BY <1>1, <1>2, <1>3, <1>4, <1>5, <1>6, <1>7, <1>8, <1>9, <1>10, <1>11,
           Zenon DEF Next

\* In both ledgers the references requests hold are those ever taken (allocate,
\* touch, retain) less those released, for any blocks, requests and graphs.
THEOREM ReferencesBalance == Spec => []ReferencesKept
<1>1. Init => PoolsKept
  <2>1. EmptyPool \in PoolType
    BY EmptySound, Zenon DEF Sound
  <2>2. \A b \in Block, r \in Request : EmptyPool.owners[b][r] = 0
    BY Zenon DEF EmptyPool, NoOwners
  <2>3. RefsOf(EmptyPool.owners) = {}
    BY <2>2 DEF RefsOf
  <2>4. References(EmptyPool) = {}
    BY <2>1, <2>3, ReferencesAre, Zenon
  <2>5. /\ EmptyPool.allocated = 0 /\ EmptyPool.touched = 0
        /\ EmptyPool.retained = 0 /\ EmptyPool.released = 0
    BY Zenon DEF EmptyPool
  <2>6. Kept(EmptyPool)
    BY <2>4, <2>5, FS_EmptySet DEF Kept, ReferencesConserved
  <2> QED BY <2>6, Zenon DEF Init, PoolsKept
<1>2. IInv /\ PoolsKept /\ [Next]_vars => PoolsKept'
  BY KeptSteps, Zenon
<1>3. PoolsKept => ReferencesKept
  BY Zenon DEF PoolsKept, Kept, ReferencesKept
<1> QED BY <1>1, <1>2, <1>3, AlwaysInv, PTL DEF Spec

=============================================================================
