--------------------------- MODULE WorkQueueProofs ---------------------------
(***************************************************************************)
(* The work queue, for every depth and every bound: completion entries are *)
(* written, lost and polled in send-queue order, a completion ring at      *)
(* least as deep as the send queue never overruns and gives no slot to two *)
(* entries, the checks of reclaimThrough never fire, a lost completion     *)
(* keeps its send-queue entry, what scheduleNextIfNeeded announces is the  *)
(* earliest action there is, each request is in the container its state    *)
(* names and in no other, a queue with nothing to do has finished every    *)
(* request, and the queue implements OrderedCompletion.                    *)
(***************************************************************************)
EXTENDS WorkQueue, TLAPS

-----------------------------------------------------------------------------
(* Operators of the model. *)

\* The later of two instants.
LEMMA MaxOfTwo ==
    ASSUME NEW a \in Nat, NEW b \in Nat
    PROVE  Max({a, b}) \in Nat /\ Max({a, b}) >= a /\ Max({a, b}) >= b
BY DEF Max

-----------------------------------------------------------------------------
(* Type correctness. *)

CqeRecord == [seq : Nat, wqe : Wqe, visible_at : Nat, slot : Nat]
PendingRecord == [seq : Nat, wqe : Wqe, visible_at : Nat]

\* The types of what the calls work on, without the packet attempts.
Shape ==
    /\ posted \in 0 .. MaxWqes
    /\ state \in [Wqe -> WqeState \cup {"none"}]
    /\ wqes \in [Wqe -> WqeRecord]
    /\ unpublished \in Seq(Wqe) /\ ready \in Seq(Wqe)
    /\ inflight \subseteq Wqe
    /\ outcomes \in [Wqe -> Status \cup {"none"}]
    /\ pending \subseteq PendingRecord
    /\ cq \in Seq(CqeRecord)
    /\ next \in [retire : Nat \ {0}, cqe : Nat]
    /\ occupied \in Int /\ reclaimed \in Nat /\ visible \in Nat
    /\ cursors \in [scheduler : Nat, retirement : Nat, cqe : Nat]
    /\ lost \in {0} \cup Wqe
    /\ now \in Nat

\* The records a handler changes keep their type.
LEMMA RecordTypes ==
    ASSUME NEW r \in WqeRecord, NEW n \in Nat, NEW b \in BOOLEAN,
           NEW st \in Status \cup {"none"}
    PROVE  /\ [r EXCEPT !.signaled = b] \in WqeRecord
           /\ [r EXCEPT !.admitted = n] \in WqeRecord
           /\ [r EXCEPT !.status = st] \in WqeRecord
           /\ [r EXCEPT !.outcome = n] \in WqeRecord
           /\ [r EXCEPT !.ecn_marked = TRUE] \in WqeRecord
BY Zenon DEF WqeRecord

\* An empty queue has its shape.
LEMMA InitShape == Init => Shape
<1> SUFFICES ASSUME Init PROVE Shape
  OBVIOUS
<1>1. NoWqe \in WqeRecord
  BY Zenon DEF NoWqe, WqeRecord
<1> QED BY <1>1, QueueAssumption DEF Init, Shape

\* A posted request is recorded.
LEMMA PostShape ==
    ASSUME Shape, NEW t \in Time, NEW s \in BOOLEAN, PostSend(s, t)
    PROVE  Shape' /\ posted + 1 \in Wqe
<1>1. posted \in Nat /\ posted < MaxWqes /\ MaxWqes \in Nat
  BY QueueAssumption DEF PostSend, Shape
<1>2. posted + 1 \in Wqe /\ posted' \in 0 .. MaxWqes
  BY <1>1 DEF PostSend, Wqe
<1>3. wqes' \in [Wqe -> WqeRecord]
  <2>1. [wqes[posted + 1] EXCEPT !.signaled = s] \in WqeRecord
    BY <1>2, RecordTypes, Zenon DEF Shape
  <2> QED BY <1>2, <2>1, Zenon DEF PostSend, Shape
<1>4. unpublished' \in Seq(Wqe)
  BY <1>2 DEF PostSend, Shape
<1>5. state' \in [Wqe -> WqeState \cup {"none"}]
  BY <1>2, Zenon DEF PostSend, Shape, WqeState
<1>6. now' \in Nat /\ occupied' \in Int
  BY DEF PostSend, Called, Shape, Time
<1> QED BY <1>2, <1>3, <1>4, <1>5, <1>6, Zenon DEF PostSend, Shape

\* A request is retired.
LEMMA RetireShape ==
    ASSUME Shape, NEW d \in CqeDelays, RetireOne(d)
    PROVE  /\ Shape'
           /\ next.retire \in Wqe /\ next.retire =< posted
           /\ cursors'.cqe >= cursors.cqe
           /\ \A c \in pending' : \/ c \in pending
                                 \/ /\ c.seq = next.cqe
                                    /\ c.wqe = next.retire
                                    /\ c.visible_at = cursors'.cqe
                                    /\ next'.cqe = next.cqe + 1
           /\ next'.retire = next.retire + 1
           /\ \/ next'.cqe = next.cqe /\ pending' = pending
              \/ /\ next'.cqe = next.cqe + 1
                 /\ \E c : c.seq = next.cqe /\ pending' = pending \cup {c}
<1> DEFINE w == next.retire
           retiredAt == Max({wqes[w].outcome, cursors.retirement})
           needs == NeedsCqe(wqes[w].signaled, outcomes[w])
           visibleAt == CqeVisibleAt(retiredAt, d)
           entry == [seq |-> next.cqe, wqe |-> w, visible_at |-> visibleAt]
<1>0. /\ Retirable
      /\ state' = [state EXCEPT ![w] =
              IF needs THEN "CompletionPending" ELSE "RetiredUnsignaled"]
      /\ wqes' = [wqes EXCEPT ![w].status = outcomes[w]]
      /\ outcomes' = [outcomes EXCEPT ![w] = "none"]
      /\ pending' = IF needs THEN pending \cup {entry} ELSE pending
      /\ next' = [retire |-> w + 1,
                   cqe |-> IF needs THEN next.cqe + 1 ELSE next.cqe]
      /\ cursors' = [cursors EXCEPT !.retirement = retiredAt,
                                    !.cqe = IF needs THEN visibleAt ELSE @]
      /\ UNCHANGED <<now, posted, unpublished, ready, inflight, cq, occupied,
                     reclaimed, visible, lost>>
  BY Zenon DEF RetireOne
<1>1. w \in Nat /\ next.cqe \in Nat /\ posted \in 0 .. MaxWqes
      /\ cursors.cqe \in Nat /\ cursors.retirement \in Nat /\ d \in Nat
  BY QueueAssumption, Zenon DEF Shape
<1>2. w \in Wqe /\ w =< posted
  <2>1. w =< posted /\ w # 0
    BY <1>0, Zenon DEF Retirable, Shape
  <2> QED BY <1>1, <2>1, QueueAssumption DEF Wqe
<1>3. wqes[w] \in WqeRecord /\ outcomes[w] \in Status \cup {"none"}
  BY <1>2, Zenon DEF Shape
<1>4. retiredAt \in Nat
  <2>1. wqes[w].outcome \in Nat
    BY <1>3, Zenon DEF WqeRecord
  <2> QED BY <1>1, <2>1, MaxOfTwo, Zenon
<1>5. visibleAt \in Nat /\ visibleAt >= cursors.cqe
  <2> HIDE DEF retiredAt
  <2>1. Max({retiredAt, cursors.cqe}) \in Nat
        /\ Max({retiredAt, cursors.cqe}) >= cursors.cqe
    BY <1>1, <1>4, MaxOfTwo, Zenon
  <2> QED BY <1>1, <2>1 DEF CqeVisibleAt
<1>6. wqes' \in [Wqe -> WqeRecord]
  <2>1. [wqes[w] EXCEPT !.status = outcomes[w]] \in WqeRecord
    BY <1>3, RecordTypes, Zenon
  <2> QED BY <1>0, <1>2, <2>1, Zenon DEF Shape
<1> HIDE DEF retiredAt, visibleAt, needs
<1>7. entry \in PendingRecord
  BY <1>1, <1>2, <1>5, Zenon DEF PendingRecord
<1>8. pending' \subseteq PendingRecord
  <2> HIDE DEF entry
  <2> QED BY <1>0, <1>7, Zenon DEF Shape
<1>9. next' \in [retire : Nat \ {0}, cqe : Nat]
      /\ next'.retire = w + 1
      /\ next'.cqe = IF needs THEN next.cqe + 1 ELSE next.cqe
  BY <1>0, <1>1
<1>10. /\ cursors' \in [scheduler : Nat, retirement : Nat, cqe : Nat]
       /\ cursors'.cqe = IF needs THEN visibleAt ELSE cursors.cqe
  BY <1>0, <1>4, <1>5, Zenon DEF Shape
<1>11. state' \in [Wqe -> WqeState \cup {"none"}]
  BY <1>0, <1>2, Zenon DEF Shape, WqeState
<1>12. outcomes' \in [Wqe -> Status \cup {"none"}]
  BY <1>0, <1>2, Zenon DEF Shape
<1>13. Shape'
  BY <1>0, <1>6, <1>8, <1>9, <1>10, <1>11, <1>12, Zenon DEF Shape
<1>14. cursors'.cqe >= cursors.cqe
  BY <1>1, <1>5, <1>10
<1>15. \A c \in pending' : \/ c \in pending
                          \/ /\ c.seq = next.cqe
                             /\ c.wqe = next.retire
                             /\ c.visible_at = cursors'.cqe
                             /\ next'.cqe = next.cqe + 1
  <2> SUFFICES ASSUME NEW c \in pending', c \notin pending
               PROVE  /\ c.seq = next.cqe /\ c.wqe = next.retire
                      /\ c.visible_at = cursors'.cqe
                      /\ next'.cqe = next.cqe + 1
    OBVIOUS
  <2>1. needs /\ c = entry
    <3> HIDE DEF entry
    <3> QED BY <1>0, Zenon
  <2> QED BY <2>1, <1>9, <1>10, Zenon
<1>16. \/ next'.cqe = next.cqe /\ pending' = pending
       \/ /\ next'.cqe = next.cqe + 1
          /\ \E c : c.seq = next.cqe /\ pending' = pending \cup {c}
  <2>1. entry.seq = next.cqe
    OBVIOUS
  <2> HIDE DEF entry
  <2> QED BY <1>0, <1>9, <2>1, Zenon
<1> QED BY <1>2, <1>9, <1>13, <1>14, <1>15, <1>16, Zenon

-----------------------------------------------------------------------------
(* The inductive invariant. *)

\* An entry of the send queue is occupied from its post to its reclaim.
Counted ==
    /\ reclaimed < next.retire /\ next.retire =< posted + 1
    /\ occupied = posted - reclaimed /\ occupied =< SqDepth

\* Completion entries are written in the order of retirement.
PendingOrder ==
    /\ \A c \in pending :
          /\ c.seq < next.cqe /\ c.visible_at =< cursors.cqe
          /\ reclaimed < c.wqe /\ c.wqe < next.retire
    /\ \A c, d \in pending :
          /\ c.seq < d.seq => c.wqe < d.wqe /\ c.visible_at =< d.visible_at
          /\ c.seq = d.seq => c = d

\* Their numbers follow each other, so there is a first one.
PendingRun ==
    \E lo \in Nat : /\ lo =< next.cqe
                   /\ {c.seq : c \in pending} = lo .. next.cqe - 1

\* The completion ring is in that order too, before what is still pending;
\* n entries of it stand for at least n different requests.
CqOrder ==
    /\ \A i \in 1 .. Len(cq) :
          /\ reclaimed < cq[i].wqe /\ cq[i].wqe < next.retire
          /\ \A c \in pending : cq[i].wqe < c.wqe
    /\ \A i, j \in 1 .. Len(cq) : i =< j => cq[i].wqe + (j - i) =< cq[j].wqe

\* A lost entry is after the ring and before what is still pending.
LostOrder ==
    fatal => /\ reclaimed < lost /\ lost < next.retire
             /\ \A i \in 1 .. Len(cq) : cq[i].wqe < lost
             /\ \A c \in pending : lost < c.wqe
             /\ CqDepth < SqDepth

\* A fatal queue publishes and submits nothing.
LoopOK == at \in {"publish", "submit", "flush", "poll"} => ~fatal

Order == Counted /\ PendingOrder /\ PendingRun /\ CqOrder /\ LostOrder

orderVars == <<posted, pending, cq, next, occupied, reclaimed, lost>>

\* What the ordering arguments count with.
LEMMA Numbers ==
    ASSUME Shape
    PROVE  /\ next.retire \in Nat /\ next.cqe \in Nat /\ posted \in Nat
           /\ reclaimed \in Nat /\ cursors.cqe \in Nat /\ lost \in Nat
           /\ \A c \in pending : /\ c.seq \in Nat /\ c.wqe \in Nat
                                 /\ c.visible_at \in Nat
           /\ \A i \in 1 .. Len(cq) : cq[i] \in CqeRecord /\ cq[i].wqe \in Nat
           /\ Len(cq) \in Nat
<1>1. \A w \in Wqe : w \in Nat
  BY DEF Wqe
<1>2. \A c \in pending : /\ c.seq \in Nat /\ c.wqe \in Nat
                         /\ c.visible_at \in Nat
  BY <1>1, Zenon DEF Shape, PendingRecord
<1>3. \A i \in 1 .. Len(cq) : cq[i] \in CqeRecord
  <2>1. cq \in Seq(CqeRecord)
    BY Zenon DEF Shape
  <2> HIDE DEF CqeRecord
  <2> QED BY <2>1
<1>4. \A i \in 1 .. Len(cq) : cq[i].wqe \in Nat
  BY <1>1, <1>3, Zenon DEF CqeRecord
<1>5. Len(cq) \in Nat
  BY DEF Shape
<1> QED BY <1>1, <1>2, <1>3, <1>4, <1>5 DEF Shape

\* The first entry of pending_cqes_ is the one of the oldest request.
LEMMA FirstCqeProperty ==
    ASSUME Shape, PendingOrder, PendingRun, pending # {}
    PROVE  /\ FirstCqe \in pending
           /\ \A d \in pending : d # FirstCqe => FirstCqe.wqe < d.wqe
<1>3. PICK c \in pending : \A d \in pending : c.seq =< d.seq
  <2> DEFINE T == {c.seq : c \in pending}
  <2>1. PICK lo \in Nat : T = lo .. next.cqe - 1
    BY Zenon DEF PendingRun
  <2>2. PICK d \in pending : TRUE
    OBVIOUS
  <2>3. next.cqe \in Nat /\ d.seq \in lo .. next.cqe - 1
    BY <2>1, Numbers, Zenon
  <2>4. lo \in lo .. next.cqe - 1
    BY <2>3
  <2>5. PICK c \in pending : c.seq = lo
    BY <2>1, <2>4, Zenon
  <2>6. \A e \in pending : e.seq \in lo .. next.cqe - 1
    BY <2>1, Zenon
  <2> HIDE DEF T
  <2> QED BY <2>3, <2>5, <2>6
<1>4. \A d \in pending : \/ c.visible_at < d.visible_at
                         \/ c.visible_at = d.visible_at /\ c.seq =< d.seq
  <2> SUFFICES ASSUME NEW d \in pending
               PROVE  \/ c.visible_at < d.visible_at
                      \/ c.visible_at = d.visible_at /\ c.seq =< d.seq
    OBVIOUS
  <2>1. /\ c.visible_at \in Nat /\ d.visible_at \in Nat
        /\ c.seq \in Nat /\ d.seq \in Nat
    BY Numbers, Zenon
  <2>2. c.seq < d.seq => c.visible_at =< d.visible_at
    BY Zenon DEF PendingOrder
  <2>3. c.seq = d.seq => c = d
    BY Zenon DEF PendingOrder
  <2> QED BY <1>3, <2>1, <2>2, <2>3
<1>5. /\ FirstCqe \in pending
      /\ \A d \in pending :
            \/ FirstCqe.visible_at < d.visible_at
            \/ FirstCqe.visible_at = d.visible_at /\ FirstCqe.seq =< d.seq
  BY <1>4, Zenon DEF FirstCqe
<1>6. FirstCqe = c
  <2>1. \/ FirstCqe.visible_at < c.visible_at
        \/ FirstCqe.visible_at = c.visible_at /\ FirstCqe.seq =< c.seq
    BY <1>5, Zenon
  <2>2. \/ c.visible_at < FirstCqe.visible_at
        \/ c.visible_at = FirstCqe.visible_at /\ c.seq =< FirstCqe.seq
    BY <1>4, <1>5, Zenon
  <2>3. /\ c.visible_at \in Nat /\ FirstCqe.visible_at \in Nat
        /\ c.seq \in Nat /\ FirstCqe.seq \in Nat
    BY <1>5, Numbers, Zenon
  <2>4. c.seq = FirstCqe.seq
    BY <2>1, <2>2, <2>3
  <2> QED BY <1>5, <2>4, Zenon DEF PendingOrder
<1>7. ASSUME NEW d \in pending, d # c PROVE c.wqe < d.wqe
  <2>1. c.seq \in Nat /\ d.seq \in Nat
    BY Numbers, Zenon
  <2>2. c.seq # d.seq
    BY <1>7, Zenon DEF PendingOrder
  <2>3. c.seq < d.seq
    BY <1>3, <2>1, <2>2
  <2> QED BY <2>3, Zenon DEF PendingOrder
<1> QED BY <1>6, <1>7, Zenon

\* What PublishOne and Overrun both do with the first entry.
LEMMA TakeFirst ==
    ASSUME Shape, Order, HasDue, pending' = pending \ {FirstCqe},
           UNCHANGED <<posted, next, occupied, reclaimed, cursors>>
    PROVE  /\ FirstCqe \in PendingRecord
           /\ FirstCqe \in pending
           /\ Counted' /\ PendingOrder' /\ PendingRun'
           /\ reclaimed < FirstCqe.wqe /\ FirstCqe.wqe < next.retire
           /\ \A c \in pending' : c \in pending /\ FirstCqe.wqe < c.wqe
           /\ \A i \in 1 .. Len(cq) : cq[i].wqe < FirstCqe.wqe
<1>1. /\ FirstCqe \in pending
      /\ \A e \in pending : e # FirstCqe => FirstCqe.wqe < e.wqe
  BY FirstCqeProperty, Zenon DEF HasDue, Order
<1>2. Counted' /\ PendingOrder'
  BY Zenon DEF Order, Counted, PendingOrder
<1>3. /\ reclaimed < FirstCqe.wqe /\ FirstCqe.wqe < next.retire
      /\ \A i \in 1 .. Len(cq) : cq[i].wqe < FirstCqe.wqe
  BY <1>1, Zenon DEF Order, PendingOrder, CqOrder
<1>4. PendingRun'
  <2> DEFINE f == FirstCqe
  <2>1. PICK lo \in Nat : /\ lo =< next.cqe
                         /\ {c.seq : c \in pending} = lo .. next.cqe - 1
    BY Zenon DEF Order, PendingRun
  <2>2. /\ next.cqe \in Nat /\ f.seq \in Nat
        /\ \A e \in pending : e.seq \in Nat /\ e.wqe \in Nat
    BY <1>1, Numbers, Zenon
  <2>3. \A e \in pending : e # f => f.seq < e.seq
    <3> HIDE DEF f
    <3>1. \A e \in pending : e # f => f.wqe < e.wqe
      BY <1>1, Zenon DEF f
    <3>2. f \in pending
      BY <1>1, Zenon DEF f
    <3> QED BY <2>2, <3>1, <3>2 DEF Order, PendingOrder
  <2> HIDE DEF f
  <2>4. f \in pending /\ pending' = pending \ {f} /\ next'.cqe = next.cqe
    BY <1>1, Zenon DEF f
  <2>5. f.seq = lo /\ lo < next.cqe
    BY <2>1, <2>2, <2>3, <2>4
  <2>6. {c.seq : c \in pending'} = lo + 1 .. next.cqe - 1
    BY <2>1, <2>2, <2>3, <2>4, <2>5
  <2>7. lo + 1 \in Nat /\ lo + 1 =< next'.cqe
    BY <2>1, <2>2, <2>4, <2>5
  <2> QED BY <2>4, <2>6, <2>7, Zenon DEF PendingRun
<1> HIDE DEF Order
<1> QED BY <1>1, <1>2, <1>3, <1>4, Zenon DEF Shape

\* A poll takes the front of the ring and frees the requests up to it.
LEMMA ConsumeOrder ==
    ASSUME Shape, Order, ConsumeOne
    PROVE  Order' /\ Shape' /\ Head(cq).wqe = cq[1].wqe
           /\ Len(cq) >= 1
<1> DEFINE w == Head(cq).wqe
<1>1. /\ cq # <<>> /\ cq' = Tail(cq) /\ reclaimed' = w
      /\ occupied' = occupied - (w - reclaimed)
      /\ UNCHANGED <<now, posted, wqes, unpublished, ready, inflight, outcomes,
                     pending, next, visible, cursors, lost>>
  BY Zenon DEF ConsumeOne
<1>2. /\ Head(cq) = cq[1] /\ Len(cq) >= 1 /\ cq' \in Seq(CqeRecord)
      /\ Len(cq') = Len(cq) - 1
      /\ \A i \in 1 .. Len(cq') : cq'[i] = cq[i + 1]
  <2>1. cq \in Seq(CqeRecord)
    BY Zenon DEF Shape
  <2> HIDE DEF CqeRecord
  <2> QED BY <1>1, <2>1
<1>3. /\ w \in Nat /\ reclaimed < w /\ w < next.retire
      /\ \A c \in pending : w < c.wqe
      /\ 1 \in 1 .. Len(cq)
  <2>1. 1 \in 1 .. Len(cq)
    BY <1>2, Numbers
  <2> QED BY <1>2, <2>1, Numbers, Zenon DEF Order, CqOrder
<1>4. w \in Wqe
  <2>1. cq[1] \in CqeRecord
    BY <1>3, Numbers, Zenon
  <2> QED BY <1>2, <2>1, Zenon DEF CqeRecord
<1>6. state' \in [Wqe -> WqeState \cup {"none"}]
  <2>1. state' = [v \in Wqe |->
              IF v = w THEN "Completed"
              ELSE IF v \in Freed(w) /\ state[v] # "Completed"
              THEN "Reclaimed" ELSE state[v]]
    BY Zenon DEF ConsumeOne
  <2> HIDE DEF w
  <2> QED BY <2>1, Zenon DEF Shape, WqeState
<1> HIDE DEF w
<1>7. Counted'
  <2>1. occupied' = occupied - (w - reclaimed)
    BY <1>1, Zenon
  <2>2. /\ occupied = posted - reclaimed /\ occupied =< SqDepth
        /\ next.retire =< posted + 1
    BY Zenon DEF Order, Counted
  <2>3. posted \in Nat /\ reclaimed \in Nat /\ SqDepth \in Nat
    BY Numbers, QueueAssumption, Zenon
  <2>4. occupied' = posted - w /\ occupied' =< SqDepth
    BY <2>1, <2>2, <2>3, <1>3
  <2> QED BY <1>1, <1>3, <2>2, <2>4, Zenon DEF Counted
<1>8. PendingOrder' /\ PendingRun'
  BY <1>1, <1>3, Zenon DEF Order, PendingOrder, PendingRun
<1>9. CqOrder'
  <2>1. ASSUME NEW i \in 1 .. Len(cq')
        PROVE  /\ i + 1 \in 1 .. Len(cq) /\ cq'[i] = cq[i + 1]
               /\ w < cq[i + 1].wqe
    <3>1. i + 1 \in 1 .. Len(cq) /\ i \in Nat /\ i >= 1
      BY <1>2, Numbers
    <3>2. cq[1].wqe + (i + 1 - 1) =< cq[i + 1].wqe
      BY <3>1, <1>3 DEF Order, CqOrder
    <3>3. cq[1].wqe \in Nat /\ cq[i + 1].wqe \in Nat
      BY <3>1, <1>3, Numbers, Zenon
    <3> QED BY <3>1, <3>2, <3>3, <1>2 DEF w
  <2>2. ASSUME NEW i \in 1 .. Len(cq'), NEW j \in 1 .. Len(cq'), i =< j
        PROVE  cq'[i].wqe + (j - i) =< cq'[j].wqe
    <3>1. i \in Int /\ j \in Int /\ (j + 1) - (i + 1) = j - i
          /\ i + 1 =< j + 1
      BY <1>2, <2>2, Numbers
    <3>2. cq[i + 1].wqe + ((j + 1) - (i + 1)) =< cq[j + 1].wqe
      BY <2>1, <3>1, Zenon DEF Order, CqOrder
    <3> QED BY <2>1, <3>1, <3>2, Zenon
  <2> QED BY <2>1, <2>2, <1>1, Zenon DEF Order, CqOrder
<1>10. LostOrder'
  <2> SUFFICES ASSUME fatal' PROVE LostOrder'
    BY Zenon DEF LostOrder
  <2>1. /\ fatal /\ lost < next.retire /\ CqDepth < SqDepth
        /\ \A i \in 1 .. Len(cq) : cq[i].wqe < lost
        /\ \A c \in pending : lost < c.wqe
    BY <1>1, Zenon DEF Order, LostOrder, fatal
  <2>2. w < lost
    BY <2>1, <1>2, <1>3, Zenon DEF w
  <2>3. \A i \in 1 .. Len(cq') : cq'[i].wqe < lost
    <3>1. \A i \in 1 .. Len(cq') : i + 1 \in 1 .. Len(cq)
      BY <1>2, Numbers
    <3> QED BY <3>1, <2>1, <1>2, Zenon
  <2> QED BY <2>1, <2>2, <2>3, <1>1, Zenon DEF LostOrder
<1>11. Shape'
  <2>1. occupied' \in Int
    BY <1>1, <1>3, Numbers DEF Shape
  <2> QED BY <1>1, <1>2, <1>3, <1>6, <2>1, Zenon DEF Shape
<1> QED BY <1>2, <1>7, <1>8, <1>9, <1>10, <1>11, Zenon DEF Order
-----------------------------------------------------------------------------
(* The theorem. *)

QueueInv == Shape /\ Order /\ LoopOK

\* The completion side is written by five actions only.
LEMMA QueueInvSteps == QueueInv /\ [Next]_vars => QueueInv'
\* A batch is rung.
<1>DoorbellShape.
    ASSUME Shape, NEW t \in Time, NEW d \in [Wqe -> AdmitDelays],
           RingDoorbell(d, t)
    PROVE  Shape'
  <2> USE <1>DoorbellShape
  <2> DEFINE base == Max({t, cursors.scheduler})
             batch == {unpublished[i] : i \in 1 .. Len(unpublished)}
  <2>1. base \in Nat
    <3>1. t \in Nat /\ cursors.scheduler \in Nat
      BY DEF Shape, Time
    <3> QED BY <3>1, MaxOfTwo, Zenon
  <2>2. \A w \in Wqe : base + d[w] \in Nat
    <3>1. \A w \in Wqe : d[w] \in Nat
      BY QueueAssumption, Zenon
    <3> HIDE DEF base
    <3> QED BY <2>1, <3>1
  <2>3. /\ wqes' = [w \in Wqe |-> IF w \in batch
              THEN [wqes[w] EXCEPT !.admitted = base + d[w]] ELSE wqes[w]]
        /\ cursors' = [cursors EXCEPT !.scheduler =
              base + d[unpublished[Len(unpublished)]]]
        /\ state' = [w \in Wqe |->
              IF w \in batch THEN "Doorbelled" ELSE state[w]]
        /\ unpublished # <<>>
    BY Zenon DEF RingDoorbell
  <2>4. wqes' \in [Wqe -> WqeRecord]
    <3> HIDE DEF base, batch
    <3>1. \A w \in Wqe : [wqes[w] EXCEPT !.admitted = base + d[w]] \in WqeRecord
      BY <2>2, RecordTypes, Zenon DEF Shape
    <3> QED BY <2>3, <3>1, Zenon DEF Shape
  <2>5. cursors' \in [scheduler : Nat, retirement : Nat, cqe : Nat]
    <3>1. unpublished[Len(unpublished)] \in Wqe
      BY <2>3 DEF Shape
    <3>2. base + d[unpublished[Len(unpublished)]] \in Nat
      BY <2>2, <3>1, Zenon
    <3> HIDE DEF base
    <3> QED BY <2>3, <3>2, Zenon DEF Shape
  <2>6. state' \in [Wqe -> WqeState \cup {"none"}]
    <3> HIDE DEF batch
    <3> QED BY <2>3, Zenon DEF Shape, WqeState
  <2>7. now' \in Nat /\ ready' \in Seq(Wqe) /\ unpublished' \in Seq(Wqe)
    BY DEF RingDoorbell, Called, Shape, Time
  <2> QED BY <2>4, <2>5, <2>6, <2>7, Zenon DEF RingDoorbell, Shape
\* The outcome of a request is recorded.
<1>DecideShape.
    ASSUME Shape, NEW w \in Wqe, NEW st \in Status, NEW t \in Nat,
           Decide(w, st, t)
    PROVE  /\ outcomes' \in [Wqe -> Status \cup {"none"}]
           /\ state' \in [Wqe -> WqeState \cup {"none"}]
           /\ wqes' \in [Wqe -> WqeRecord]
  <2> USE <1>DecideShape
  <2>1. [wqes[w] EXCEPT !.outcome = t] \in WqeRecord
    BY RecordTypes, Zenon DEF Shape
  <2>2. wqes' \in [Wqe -> WqeRecord]
    BY <2>1, Zenon DEF Decide, Shape
  <2> QED BY <2>2, Zenon DEF Decide, Shape, WqeState
\* The terminal of an extent is one way to decide a request.
<1>ExtentShape.
    ASSUME Shape, NEW t \in Time, NEW w \in Wqe, NEW st \in Status,
           OnFlowExtentEvent(w, st, t)
    PROVE  Shape'
  <2> USE <1>ExtentShape
  <2>1. t \in Nat /\ Decide(w, st, t)
    BY DEF Time, OnFlowExtentEvent
  <2>2. /\ outcomes' \in [Wqe -> Status \cup {"none"}]
        /\ state' \in [Wqe -> WqeState \cup {"none"}]
        /\ wqes' \in [Wqe -> WqeRecord]
    BY <2>1, <1>DecideShape, Zenon
  <2>3. now' \in Nat
    BY <2>1, Zenon DEF OnFlowExtentEvent, Called
  <2> QED BY <2>2, <2>3, Zenon DEF OnFlowExtentEvent, Shape
\* A packet report leaves every record alone.
<1>AttemptShape.
    ASSUME Shape, NEW t \in Time, NEW a \in Attempt, NEW st,
           OnPacketAttemptEvent(a, st, t)
    PROVE  Shape'
  <2> USE <1>AttemptShape
  <2>1. now' \in Nat
    BY DEF OnPacketAttemptEvent, Called, Time
  <2> QED BY <2>1, Zenon DEF OnPacketAttemptEvent, Shape
\* An ECN mark changes one flag.
<1>EcnShape.
    ASSUME Shape, NEW t \in Time, NEW a \in Attempt, OnEcnMarked(a, t)
    PROVE  Shape'
  <2> USE <1>EcnShape
  <2>1. now' \in Nat /\ a[1] \in Wqe
    BY SMTT(20) DEF OnEcnMarked, Called, Time, Shape
  <2>2. [wqes[a[1]] EXCEPT !.ecn_marked = TRUE] \in WqeRecord
    BY <2>1, RecordTypes, Zenon DEF Shape
  <2>3. wqes' \in [Wqe -> WqeRecord]
    BY <2>1, <2>2, Zenon DEF OnEcnMarked, Shape
  <2> QED BY <2>1, <2>3, Zenon DEF OnEcnMarked, Shape
\* A call that leaves the completion side alone.
<1>OrderUnchanged.
    ASSUME Order, UNCHANGED orderVars, cursors'.cqe = cursors.cqe
    PROVE  Order'
  BY <1>OrderUnchanged, Zenon
     DEF Order, Counted, PendingOrder, PendingRun, CqOrder, LostOrder, fatal,
         orderVars
\* A post takes one send-queue entry and touches no completion.
<1>PostOrder.
    ASSUME Shape, Order, NEW t \in Time, NEW s \in BOOLEAN, PostSend(s, t)
    PROVE  Order'
  <2> USE <1>PostOrder
  <2>1. /\ posted' = posted + 1 /\ occupied' = occupied + 1
        /\ occupied # SqDepth
        /\ UNCHANGED <<pending, cq, next, reclaimed, cursors, lost>>
    BY Zenon DEF PostSend, SqFull
  <2>2. posted \in Nat /\ occupied \in Int /\ reclaimed \in Nat
        /\ next.retire \in Nat /\ SqDepth \in Nat
    BY QueueAssumption DEF Shape
  <2>3. Counted'
    BY <2>1, <2>2 DEF Order, Counted
  <2> QED BY <2>1, <2>3, Zenon
          DEF Order, PendingOrder, PendingRun, CqOrder, LostOrder, fatal
\* The request retired next is numbered and written behind all others.
<1>RetireOrder.
    ASSUME Shape, Order, NEW d \in CqeDelays, RetireOne(d)
    PROVE  Order'
  <2> USE <1>RetireOrder
  <2>1. /\ next.retire \in Wqe /\ next.retire =< posted
        /\ cursors'.cqe >= cursors.cqe
        /\ \A c \in pending' : \/ c \in pending
                              \/ /\ c.seq = next.cqe
                                 /\ c.wqe = next.retire
                                 /\ c.visible_at = cursors'.cqe
                                 /\ next'.cqe = next.cqe + 1
        /\ next'.retire = next.retire + 1
        /\ \/ next'.cqe = next.cqe /\ pending' = pending
           \/ /\ next'.cqe = next.cqe + 1
              /\ \E c : c.seq = next.cqe /\ pending' = pending \cup {c}
        /\ Shape'
    BY RetireShape, Zenon
  <2>2. UNCHANGED <<posted, cq, occupied, reclaimed, lost>>
    BY Zenon DEF RetireOne
  <2>3. /\ next.retire \in Nat /\ next.cqe \in Nat /\ posted \in Nat
        /\ reclaimed \in Nat /\ cursors.cqe \in Nat /\ cursors'.cqe \in Nat
        /\ \A c \in pending : c.seq \in Nat /\ c.wqe \in Nat
                               /\ c.visible_at \in Nat
        /\ \A i \in 1 .. Len(cq) : cq[i].wqe \in Nat
        /\ lost \in Nat
    <3>1. cursors'.cqe \in Nat
      BY <2>1, Zenon DEF Shape
    <3> QED BY <3>1, Numbers, Zenon
  <2>4. Counted'
    BY <2>1, <2>2, <2>3 DEF Order, Counted
  <2>5. PendingOrder'
    <3>1. \A c \in pending :
            /\ c.seq < next.cqe /\ c.visible_at =< cursors.cqe
            /\ reclaimed < c.wqe /\ c.wqe < next.retire
      BY Zenon DEF Order, PendingOrder
    <3>2. ASSUME NEW c \in pending'
          PROVE  /\ c.seq < next'.cqe /\ c.visible_at =< cursors'.cqe
                 /\ reclaimed < c.wqe /\ c.wqe < next'.retire
      <4>1. CASE c \in pending
        BY <4>1, <3>1, <2>1, <2>3, SMTT(60)
      <4>2. CASE c \notin pending
        BY <4>2, <2>1, <2>3, SMTT(60) DEF Order, Counted
      <4> QED BY <4>1, <4>2, Zenon
    <3>3. ASSUME NEW c \in pending', NEW e \in pending'
          PROVE  /\ c.seq < e.seq =>
                       c.wqe < e.wqe /\ c.visible_at =< e.visible_at
                 /\ c.seq = e.seq => c = e
      <4>1. CASE c \in pending /\ e \in pending
        BY <4>1, Zenon DEF Order, PendingOrder
      <4>2. CASE c \in pending /\ e \notin pending
        BY <4>2, <3>1, <2>1, <2>3
      <4>3. CASE c \notin pending /\ e \in pending
        BY <4>3, <3>1, <2>1, <2>3
      <4>4. CASE c \notin pending /\ e \notin pending
        <5>1. c \in PendingRecord /\ e \in PendingRecord
          BY <2>1, Zenon DEF Shape
        <5>2. c.seq = e.seq /\ c.wqe = e.wqe /\ c.visible_at = e.visible_at
          BY <4>4, <2>1, Zenon
        <5>3. c = e
          BY <5>1, <5>2 DEF PendingRecord
        <5> QED BY <4>4, <2>1, <2>3, <5>3
      <4> QED BY <4>1, <4>2, <4>3, <4>4, Zenon
    <3> QED BY <3>2, <3>3, <2>2, Zenon DEF PendingOrder
  <2>6. CqOrder'
    <3>1. ASSUME NEW i \in 1 .. Len(cq)
          PROVE  /\ reclaimed < cq[i].wqe /\ cq[i].wqe < next'.retire
                 /\ \A c \in pending' : cq[i].wqe < c.wqe
      <4>1. /\ reclaimed < cq[i].wqe /\ cq[i].wqe < next.retire
            /\ \A c \in pending : cq[i].wqe < c.wqe
        BY Zenon DEF Order, CqOrder
      <4> QED BY <4>1, <2>1, <2>3
    <3> QED BY <3>1, <2>2, Zenon DEF Order, CqOrder
  <2>7. LostOrder'
    BY <2>1, <2>2, <2>3 DEF Order, LostOrder, fatal
  <2>8. PendingRun'
    <3>1. PICK lo \in Nat : /\ lo =< next.cqe
                           /\ {c.seq : c \in pending} = lo .. next.cqe - 1
      BY Zenon DEF Order, PendingRun
    <3>2. CASE next'.cqe = next.cqe /\ pending' = pending
      BY <3>1, <3>2, Zenon DEF PendingRun
    <3>3. CASE next'.cqe = next.cqe + 1 /\ pending' # pending
      <4>1. PICK c : c.seq = next.cqe /\ pending' = pending \cup {c}
        BY <2>1, <3>3, Zenon
      <4>2. {e.seq : e \in pending'} = {e.seq : e \in pending} \cup {next.cqe}
        BY <4>1, Zenon
      <4>3. lo =< next'.cqe
            /\ (lo .. next.cqe - 1) \cup {next.cqe} = lo .. next'.cqe - 1
        BY <2>3, <3>1, <3>3
      <4> QED BY <3>1, <4>2, <4>3, Zenon DEF PendingRun
    <3>4. CASE next'.cqe = next.cqe + 1 /\ pending' = pending
      <4>1. PICK c : c.seq = next.cqe /\ c \in pending
        BY <2>1, <2>3, <3>4
      <4> QED BY <2>3, <4>1 DEF Order, PendingOrder
    <3> QED BY <2>1, <3>2, <3>3, <3>4, Zenon
  <2> QED BY <2>4, <2>5, <2>6, <2>7, <2>8, Zenon DEF Order
\* The entry published moves from the front of what is pending to the back
\* of the ring.
<1>PublishOrder.
    ASSUME Shape, Order, PublishOne, ~fatal
    PROVE  Order' /\ Shape'
  <2> USE <1>PublishOrder
  <2> DEFINE c == FirstCqe
             entry == [seq |-> c.seq, wqe |-> c.wqe,
                       visible_at |-> c.visible_at, slot |-> CqIndex % CqDepth]
  <2>1. /\ HasDue /\ pending' = pending \ {c} /\ cq' = Append(cq, entry)
        /\ state' = [state EXCEPT ![c.wqe] = "CqeVisible"]
        /\ visible' = visible + 1
        /\ UNCHANGED <<now, posted, wqes, unpublished, ready, inflight, outcomes,
                       next, occupied, reclaimed, cursors, lost>>
    BY Zenon DEF PublishOne
  <2>2. /\ c \in PendingRecord /\ c \in pending
        /\ Counted' /\ PendingOrder' /\ PendingRun'
        /\ reclaimed < c.wqe /\ c.wqe < next.retire
        /\ \A e \in pending' : e \in pending /\ c.wqe < e.wqe
        /\ \A i \in 1 .. Len(cq) : cq[i].wqe < c.wqe
    BY <2>1, TakeFirst, Zenon
  <2>3. entry \in CqeRecord /\ entry.wqe = c.wqe /\ c.wqe \in Nat
        /\ c.wqe \in Wqe
    <3>1. CqIndex % CqDepth \in Nat
      BY QueueAssumption DEF CqIndex, Shape
    <3> QED BY <2>2, <3>1 DEF CqeRecord, PendingRecord, Wqe
  <2> HIDE DEF c, entry
  <2>4. /\ cq' \in Seq(CqeRecord) /\ Len(cq') = Len(cq) + 1
        /\ \A i \in 1 .. Len(cq) : cq'[i] = cq[i]
        /\ cq'[Len(cq) + 1] = entry
    <3>1. cq \in Seq(CqeRecord)
      BY Zenon DEF Shape
    <3> HIDE DEF CqeRecord
    <3> QED BY <2>1, <2>3, <3>1
  <2>5. CqOrder'
    <3>1. ASSUME NEW i \in 1 .. Len(cq')
          PROVE  /\ reclaimed < cq'[i].wqe /\ cq'[i].wqe < next.retire
                 /\ \A e \in pending' : cq'[i].wqe < e.wqe
      <4>1. CASE i = Len(cq) + 1
        BY <4>1, <2>2, <2>3, <2>4, Zenon
      <4>2. CASE i # Len(cq) + 1
        <5>1. i \in 1 .. Len(cq) /\ cq'[i] = cq[i]
          BY <4>2, <2>4, Numbers
        <5> QED BY <5>1, <2>2, Zenon DEF Order, CqOrder
      <4> QED BY <4>1, <4>2, Zenon
    <3>2. ASSUME NEW i \in 1 .. Len(cq'), NEW j \in 1 .. Len(cq'), i =< j
          PROVE  cq'[i].wqe + (j - i) =< cq'[j].wqe
      <4>1. CASE j # Len(cq) + 1
        <5>1. i \in 1 .. Len(cq) /\ j \in 1 .. Len(cq)
          BY <3>2, <4>1, <2>4, Numbers
        <5> QED BY <5>1, <2>4, <3>2, Zenon DEF Order, CqOrder
      <4>2. CASE i = Len(cq) + 1
        BY SMTT(60), <4>2, <3>2, <2>3, <2>4, Numbers
      <4>3. CASE i # Len(cq) + 1 /\ j = Len(cq) + 1
        <5>1. i \in 1 .. Len(cq) /\ Len(cq) \in 1 .. Len(cq) /\ i =< Len(cq)
          BY <3>2, <4>3, <2>4, Numbers
        <5>2. cq[i].wqe + (Len(cq) - i) =< cq[Len(cq)].wqe
          BY <5>1, Zenon DEF Order, CqOrder
        <5>3. cq[Len(cq)].wqe < c.wqe
          BY <5>1, <2>2, Zenon
        <5>4. cq[i].wqe \in Nat /\ cq[Len(cq)].wqe \in Nat
          BY <5>1, Numbers, Zenon
        <5>5. cq'[i] = cq[i] /\ cq'[j].wqe = c.wqe
          BY <4>3, <5>1, <2>3, <2>4, Zenon
        <5>6. cq[i].wqe + (j - i) =< c.wqe
          <6> DEFINE a == cq[i].wqe
                     b == cq[Len(cq)].wqe
                     d == c.wqe
                     n == Len(cq)
          <6>1. a \in Nat /\ b \in Nat /\ d \in Nat /\ n \in Nat /\ i \in Nat
            BY <5>1, <5>4, <2>3, Numbers
          <6>2. a + (n - i) =< b /\ b < d /\ j = n + 1
            BY <4>3, <5>2, <5>3, Zenon
          <6> HIDE DEF a, b, d, n
          <6>3. a + (j - i) =< d
            BY <6>1, <6>2
          <6> QED BY <6>3, Zenon DEF a, d
        <5> QED BY <5>5, <5>6, Zenon
      <4> QED BY <4>1, <4>2, <4>3, Zenon
    <3> QED BY <3>1, <3>2, <2>1, Zenon DEF CqOrder
  <2>6. LostOrder'
    BY <2>1, Zenon DEF LostOrder, fatal
  <2>7. state' \in [Wqe -> WqeState \cup {"none"}]
    BY <2>1, <2>3, Zenon DEF Shape, WqeState
  <2>8. pending' \subseteq PendingRecord
    BY <2>1, Zenon DEF Shape
  <2>9. Shape'
    BY <2>1, <2>4, <2>7, <2>8 DEF Shape
  <2> QED BY <2>2, <2>5, <2>6, <2>9, Zenon DEF Order
\* The entry an overrun loses lies between the ring and what is pending; a
\* full ring at that moment is shallower than the send queue.
<1>OverrunOrder.
    ASSUME Shape, Order, Overrun
    PROVE  Order' /\ Shape'
  <2> USE <1>OverrunOrder
  <2> DEFINE c == FirstCqe
  <2>1. /\ HasDue /\ pending' = pending \ {c} /\ lost' = c.wqe
        /\ Len(cq) = CqDepth
        /\ state' = [state EXCEPT ![c.wqe] = "Error"]
        /\ UNCHANGED <<now, posted, wqes, unpublished, ready, inflight, outcomes,
                       cq, next, occupied, reclaimed, visible, cursors>>
    BY Zenon DEF Overrun
  <2>2. /\ c \in PendingRecord /\ c \in pending
        /\ Counted' /\ PendingOrder' /\ PendingRun'
        /\ reclaimed < c.wqe /\ c.wqe < next.retire
        /\ \A e \in pending' : e \in pending /\ c.wqe < e.wqe
        /\ \A i \in 1 .. Len(cq) : cq[i].wqe < c.wqe
    BY <2>1, TakeFirst, Zenon
  <2>3. c.wqe \in Wqe /\ c.wqe \in Nat
    BY <2>2 DEF PendingRecord, Wqe
  <2> HIDE DEF c
  \* Each of the CqDepth entries, and the lost one, occupies a send-queue entry.
  <2>4. CqDepth < SqDepth
    <3> DEFINE n == Len(cq)
    <3>1. n \in 1 .. n /\ 1 \in 1 .. n /\ n = CqDepth
      BY <2>1, QueueAssumption
    <3>2. cq[1].wqe + (n - 1) =< cq[n].wqe /\ reclaimed < cq[1].wqe
      BY <3>1 DEF Order, CqOrder
    <3>3. cq[n].wqe < c.wqe
      BY <3>1, <2>2, Zenon
    <3>4. cq[1].wqe \in Nat /\ cq[n].wqe \in Nat /\ n \in Nat
          /\ reclaimed \in Nat /\ posted \in Nat /\ next.retire \in Nat
      BY <3>1, Numbers, Zenon
    <3>5. /\ next.retire =< posted + 1
          /\ posted - reclaimed =< SqDepth
      BY Zenon DEF Order, Counted
    <3> HIDE DEF n
    <3>6. reclaimed + n < c.wqe
      BY <3>2, <3>3, <3>4, <2>3
    <3> QED BY <3>1, <3>4, <3>5, <3>6, <2>2, <2>3, QueueAssumption
  <2>5. CqOrder'
    BY <2>1, <2>2, Zenon DEF Order, CqOrder
  <2>6. LostOrder'
    BY <2>1, <2>2, <2>4, Zenon DEF LostOrder
  <2>7. state' \in [Wqe -> WqeState \cup {"none"}]
    BY <2>1, <2>3, Zenon DEF Shape, WqeState
  <2>8. Shape'
    BY <2>1, <2>3, <2>7, Zenon DEF Shape
  <2> QED BY <2>2, <2>5, <2>6, <2>8, Zenon DEF Order
<1> SUFFICES ASSUME QueueInv, [Next]_vars PROVE QueueInv'
  OBVIOUS
<1> USE DEF QueueInv
<1>1. CASE Post
  <2>1. PICK t \in Time, s \in BOOLEAN : PostSend(s, t)
    BY <1>1, Zenon DEF Post
  <2>2. LoopOK'
    BY <2>1, Zenon DEF PostSend, LoopOK, fatal
  <2> QED BY <2>1, <2>2, PostShape, <1>PostOrder, Zenon
<1>2. CASE Ignored
  <2>1. PICK t \in Time : UNCHANGED <<at, queueVars>> /\ now' = t
    BY <1>2, Zenon DEF Ignored, PostRefused, RingNothing, OnControlEvent, Called
  <2>2. Shape'
    BY <2>1 DEF Shape, queueVars, Time
  <2>3. Order'
    BY <2>1, <1>OrderUnchanged, Zenon DEF queueVars, orderVars
  <2> QED BY <2>1, <2>2, <2>3, Zenon DEF LoopOK, fatal, queueVars
<1>3. CASE Doorbell
  <2>1. PICK t \in Time, d \in [Wqe -> AdmitDelays] : RingDoorbell(d, t)
    BY <1>3, Zenon DEF Doorbell
  <2>2. cursors'.cqe = cursors.cqe
    BY <2>1, Zenon DEF RingDoorbell, Shape
  <2>3. Order'
    BY <2>1, <2>2, <1>OrderUnchanged, Zenon DEF RingDoorbell, orderVars
  <2>4. LoopOK'
    BY <2>1, Zenon DEF RingDoorbell, LoopOK, fatal
  <2> QED BY <2>1, <2>3, <2>4, <1>DoorbellShape, Zenon
<1>4. CASE Retire
  <2>1. PICK d \in CqeDelays : RetireOne(d)
    BY <1>4, Zenon DEF Retire
  <2>2. LoopOK'
    BY <2>1, Zenon DEF RetireOne, LoopOK, fatal
  <2> QED BY <2>1, <2>2, RetireShape, <1>RetireOrder, Zenon
<1>5. CASE ExtentEvent
  <2>1. PICK t \in Time, w \in Wqe, s \in Status : OnFlowExtentEvent(w, s, t)
    BY <1>5, Zenon DEF ExtentEvent
  <2>2. Order' /\ LoopOK'
    BY <2>1, <1>OrderUnchanged, Zenon
       DEF OnFlowExtentEvent, orderVars, LoopOK, fatal
  <2> QED BY <2>1, <2>2, <1>ExtentShape, Zenon
<1>6. CASE AttemptEvent
  <2>1. PICK t \in Time, a \in Attempt, s \in LiveStage \cup {"completed"} :
          OnPacketAttemptEvent(a, s, t)
    BY <1>6, Zenon DEF AttemptEvent
  <2>2. Order' /\ LoopOK'
    BY <2>1, <1>OrderUnchanged, Zenon
       DEF OnPacketAttemptEvent, orderVars, LoopOK, fatal
  <2> QED BY <2>1, <2>2, <1>AttemptShape, Zenon
<1>7. CASE EcnEvent
  <2>1. PICK t \in Time, a \in Attempt : OnEcnMarked(a, t)
    BY <1>7, Zenon DEF EcnEvent
  <2>2. Order' /\ LoopOK'
    BY <2>1, <1>OrderUnchanged, Zenon DEF OnEcnMarked, orderVars, LoopOK, fatal
  <2> QED BY <2>1, <2>2, <1>EcnShape, Zenon
<1>8. CASE Progress \/ Poll
  <2>1. /\ UNCHANGED queueVars /\ now' \in Time
        /\ fatal => at' \in {"idle", "consume"}
    BY <1>8, Zenon DEF Progress, ProgressBegin, Poll, PollBegin, Called
  <2>2. Shape'
    BY <2>1 DEF Shape, queueVars, Time
  <2>3. Order'
    BY <2>1, <1>OrderUnchanged, Zenon DEF queueVars, orderVars
  <2> QED BY <2>1, <2>2, <2>3, Zenon DEF LoopOK, fatal, queueVars
<1>9. CASE PublishOne
  <2>1. ~fatal /\ lost' = lost
    BY <1>9, Zenon DEF PublishOne, Publishing, LoopOK
  <2> QED BY <1>9, <2>1, <1>PublishOrder, Zenon DEF LoopOK, fatal
<1>10. CASE Overrun
  <2>1. at' \in {"idle", "consume"}
    BY <1>10, Zenon DEF Overrun
  <2> QED BY <1>10, <2>1, <1>OverrunOrder, Zenon DEF LoopOK
<1>11. CASE PublishDone \/ Busy \/ SubmitDone \/ ConsumeDone
  <2>1. UNCHANGED queueVars /\ now' = now
    BY <1>11, Zenon DEF PublishDone, Busy, SubmitBusy, SubmitDone, ConsumeDone
  <2>2. at' = "idle" \/ at' = "consume" \/ ~fatal
    BY <1>11, Zenon DEF PublishDone, Publishing, Busy, SubmitBusy, Submitting,
                 SubmitDone, ConsumeDone, LoopOK
  <2>3. Shape'
    BY <2>1, Zenon DEF Shape, queueVars
  <2>4. Order'
    BY <2>1, <1>OrderUnchanged, Zenon DEF queueVars, orderVars
  <2> QED BY <2>1, <2>2, <2>3, <2>4, Zenon DEF LoopOK, fatal, queueVars
<1>12. CASE SubmitAccepted \/ SubmitRejected
  <2>1. /\ Submitting /\ ready' = Tail(ready) /\ at' = at
        /\ UNCHANGED <<now, visible, orderVars, cursors, unpublished>>
    BY <1>12, Zenon DEF SubmitAccepted, SubmitRejected, orderVars
  <2>2. ready \in Seq(Wqe) /\ ready # <<>>
    BY <2>1, Zenon DEF Submitting, HeadDue, Shape
  <2>3. Head(ready) \in Wqe /\ Tail(ready) \in Seq(Wqe)
    BY <2>2
  <2>4. Order' /\ LoopOK'
    BY <2>1, <1>OrderUnchanged, Zenon DEF orderVars, LoopOK, fatal
  <2>5. CASE SubmitAccepted
    <3>1. state' \in [Wqe -> WqeState \cup {"none"}]
      BY <2>5, <2>3, Zenon DEF SubmitAccepted, Shape, WqeState
    <3>2. inflight' \subseteq Wqe /\ wqes' = wqes /\ outcomes' = outcomes
      BY <2>5, <2>3, Zenon DEF SubmitAccepted, Shape
    <3>3. Shape'
      BY <2>1, <2>3, <3>1, <3>2, Zenon DEF Shape, orderVars
    <3> QED BY <2>4, <3>3, Zenon
  <2>6. CASE SubmitRejected
    <3>1. Decide(Head(ready), "NetworkRejected", now) /\ inflight' = inflight
      BY <2>6, Zenon DEF SubmitRejected
    <3>2. "NetworkRejected" \in Status /\ now \in Nat
      BY Zenon DEF Status, Shape
    <3>3. /\ outcomes' \in [Wqe -> Status \cup {"none"}]
          /\ state' \in [Wqe -> WqeState \cup {"none"}]
          /\ wqes' \in [Wqe -> WqeRecord]
      BY <2>3, <3>1, <3>2, <1>DecideShape, Zenon
    <3>4. Shape'
      BY SMTT(60), <2>1, <2>3, <3>1, <3>3 DEF Shape, orderVars
    <3> QED BY <2>4, <3>4, Zenon
  <2> QED BY <1>12, <2>5, <2>6, Zenon
<1>13. CASE ConsumeOne
  <2>1. at' = "consume"
    BY <1>13, Zenon DEF ConsumeOne
  <2> QED BY <1>13, <2>1, ConsumeOrder, Zenon DEF LoopOK
<1>14. CASE UNCHANGED vars
  BY <1>14, <1>OrderUnchanged, Zenon
     DEF vars, queueVars, orderVars, Shape, LoopOK, fatal
<1> QED BY <1>1, <1>2, <1>3, <1>4, <1>5, <1>6, <1>7, <1>8, <1>9, <1>10,
           <1>11, <1>12, <1>13, <1>14, Zenon DEF Next

\* An empty queue is in order.
LEMMA InitQueueInv == Init => QueueInv
<1> SUFFICES ASSUME Init PROVE QueueInv
  OBVIOUS
<1>1. Order
  BY QueueAssumption
     DEF Init, Order, Counted, PendingOrder, PendingRun, CqOrder, LostOrder,
         fatal
<1>2. LoopOK
  BY Zenon DEF Init, LoopOK
<1> QED BY <1>1, <1>2, InitShape, Zenon DEF QueueInv

\* The completion side stays in send-queue order.
THEOREM CompletionSideOrdered == Spec => []QueueInv
<1>1. Init => QueueInv
  BY InitQueueInv, Zenon
<1>2. QueueInv /\ [Next]_vars => QueueInv'
  BY QueueInvSteps, Zenon
<1> QED BY <1>1, <1>2, PTL DEF Spec

\* publishCqes: a completion ring at least as deep as the send queue is never
\* full when an entry becomes visible, so the queue never turns fatal: the
\* unpolled entries and the new one each occupy a send-queue entry.
THEOREM DeepRingNeverOverruns == Spec => []NoOverrun
<1>1. QueueInv => NoOverrun
  BY QueueAssumption DEF QueueInv, Order, LostOrder, NoOverrun
<1> QED BY <1>1, CompletionSideOrdered, PTL

-----------------------------------------------------------------------------
(* The states of the requests. *)

\* Requests are retired in send-queue order.
RetiredPrefix == \A w \in Wqe : w < next.retire => Retired(w)

\* The containers that feed the states hold requests in the right state.
Owned ==
    /\ \A i \in 1 .. Len(unpublished) : state[unpublished[i]] = "Posted"
    /\ \A i, j \in 1 .. Len(unpublished) :
          unpublished[i] = unpublished[j] => i = j
    /\ \A i \in 1 .. Len(ready) : state[ready[i]] = "Doorbelled"
    /\ \A i, j \in 1 .. Len(ready) : ready[i] = ready[j] => i = j
    /\ \A w \in inflight : state[w] = "InFlight"
    /\ \A w \in Wqe :
          outcomes[w] # "none" => state[w] = "AwaitingOrderedRetirement"
    /\ \A w \in Wqe : w > posted => state[w] = "none"

\* An unpublished completion has its entry, and only the lost one is an error.
Completing ==
    /\ \A w \in Wqe :
          state[w] = "CompletionPending" => \E c \in pending : c.wqe = w
    /\ fatal => state[lost] = "Error"

States == RetiredPrefix /\ Owned /\ Completing

\* The head of ready_ is taken off.
LEMMA TakeHead ==
    ASSUME QueueInv, States, ready # <<>>, ready' = Tail(ready)
    PROVE  /\ Head(ready) \in Wqe /\ state[Head(ready)] = "Doorbelled"
           /\ ready' \in Seq(Wqe)
           /\ \A i \in 1 .. Len(ready') :
                 state[ready'[i]] = "Doorbelled" /\ ready'[i] # Head(ready)
           /\ \A i, j \in 1 .. Len(ready') : ready'[i] = ready'[j] => i = j
<1>1. ready \in Seq(Wqe)
  BY Zenon DEF QueueInv, Shape
<1>2. /\ Len(ready) \in Nat /\ Len(ready) >= 1 /\ Head(ready) = ready[1]
      /\ Len(ready') = Len(ready) - 1 /\ ready' \in Seq(Wqe)
      /\ \A i \in 1 .. Len(ready') : ready'[i] = ready[i + 1]
  BY <1>1
<1>3. \A i \in 1 .. Len(ready') : i + 1 \in 1 .. Len(ready) /\ i + 1 # 1
  BY <1>2
<1>4. 1 \in 1 .. Len(ready) /\ Head(ready) \in Wqe
  BY <1>1, <1>2
<1>5. \A i \in 1 .. Len(ready') :
          state[ready'[i]] = "Doorbelled" /\ ready'[i] # Head(ready)
  BY <1>2, <1>3, <1>4 DEF States, Owned
<1>6. \A i, j \in 1 .. Len(ready') : ready'[i] = ready'[j] => i = j
  <2> SUFFICES ASSUME NEW i \in 1 .. Len(ready'), NEW j \in 1 .. Len(ready'),
                      ready'[i] = ready'[j]
               PROVE  i = j
    OBVIOUS
  <2>1. i + 1 = j + 1
    BY <1>2, <1>3 DEF States, Owned
  <2> QED BY <2>1, <1>2
<1> QED BY <1>2, <1>4, <1>5, <1>6 DEF States, Owned

-----------------------------------------------------------------------------
(* The theorems. *)

StatesInv == QueueInv /\ States

\* Each action keeps requests, containers and completion entries together.
LEMMA StatesSteps == StatesInv /\ [Next]_vars => StatesInv'
\* A step that touches no request and no container.
<1>StatesUnchanged.
    ASSUME States,
           UNCHANGED <<state, unpublished, ready, inflight, outcomes, posted,
                       next, pending, lost>>
    PROVE  States'
  BY <1>StatesUnchanged DEF States, RetiredPrefix, Owned, Completing, Retired, fatal
\* A post adds one request to the unpublished ones.
<1>PostStates.
    ASSUME QueueInv, States, NEW t \in Time, NEW s \in BOOLEAN, PostSend(s, t)
    PROVE  States'
  <2> USE <1>PostStates
  <2> DEFINE n == posted + 1
  <2>1. /\ posted' = n /\ state' = [state EXCEPT ![n] = "Posted"]
        /\ unpublished' = Append(unpublished, n) /\ ~fatal
        /\ UNCHANGED <<ready, inflight, outcomes, next, pending, lost>>
    BY Zenon DEF PostSend
  <2>2. n \in Wqe /\ posted \in Nat /\ n > posted
    BY PostShape, Numbers DEF QueueInv
  <2>3. /\ state \in [Wqe -> WqeState \cup {"none"}]
        /\ unpublished \in Seq(Wqe) /\ ready \in Seq(Wqe)
        /\ inflight \subseteq Wqe
    BY Zenon DEF QueueInv, Shape
  <2>4. state[n] = "none"
    BY <2>2, Zenon DEF States, Owned
  <2>5. /\ state'[n] = "Posted"
        /\ \A w \in Wqe : w # n => state'[w] = state[w]
    BY <2>1, <2>2, <2>3, Zenon
  <2>6. RetiredPrefix'
    <3>1. next.retire \in Nat /\ next.retire =< n
      BY Numbers, Zenon DEF QueueInv, Order, Counted
    <3>2. \A w \in Wqe : w < next.retire => w # n
      BY <3>1, <2>2
    <3> HIDE DEF n
    <3> QED BY <2>1, <2>5, <3>2, Zenon DEF States, RetiredPrefix, Retired
  <2>7. Completing'
    <3> HIDE DEF n
    <3> QED BY <2>1, <2>5, Zenon DEF States, Completing, fatal
  <2>8. Owned'
    <3> HIDE DEF n
    <3>1. \A i \in 1 .. Len(unpublished) : unpublished[i] \in Wqe
                                            /\ unpublished[i] # n
      BY <2>3, <2>4 DEF States, Owned
    <3>2. \A i \in 1 .. Len(ready) : ready[i] \in Wqe /\ ready[i] # n
      BY <2>3, <2>4 DEF States, Owned
    <3>3. /\ Len(unpublished') = Len(unpublished) + 1
          /\ \A i \in 1 .. Len(unpublished) : unpublished'[i] = unpublished[i]
          /\ unpublished'[Len(unpublished) + 1] = n
          /\ Len(unpublished) \in Nat
      BY <2>1, <2>2, <2>3
    <3>4. \A i \in 1 .. Len(unpublished') :
            i \in 1 .. Len(unpublished) \/ i = Len(unpublished) + 1
      BY <3>3
    <3>5. \A i \in 1 .. Len(unpublished') : state'[unpublished'[i]] = "Posted"
      BY <3>1, <3>3, <3>4, <2>5 DEF States, Owned
    <3>6. \A i, j \in 1 .. Len(unpublished') :
            unpublished'[i] = unpublished'[j] => i = j
      BY <3>1, <3>3, <3>4 DEF States, Owned
    <3>7. \A w \in inflight : state'[w] = "InFlight"
      BY <2>3, <2>4, <2>5, Zenon DEF States, Owned
    <3>8. \A i \in 1 .. Len(ready) : state'[ready[i]] = "Doorbelled"
      BY <3>2, <2>5, Zenon DEF States, Owned
    <3>9. \A w \in Wqe :
            outcomes[w] # "none" => state'[w] = "AwaitingOrderedRetirement"
      BY <2>4, <2>5, Zenon DEF States, Owned
    <3>10. \A w \in Wqe : w > posted' => state'[w] = "none"
      <4>1. \A w \in Wqe : w > posted' => w # n /\ w > posted
        BY <2>1, <2>2 DEF Wqe, n
      <4> QED BY <4>1, <2>5, Zenon DEF States, Owned
    <3> QED BY <2>1, <3>5, <3>6, <3>7, <3>8, <3>9, <3>10 DEF States, Owned
  <2> QED BY <2>6, <2>7, <2>8, Zenon DEF States
\* A doorbell moves the batch to the ready ones.
<1>DoorbellStates.
    ASSUME QueueInv, States, NEW t \in Time, NEW d \in [Wqe -> AdmitDelays],
           RingDoorbell(d, t)
    PROVE  States'
  <2> USE <1>DoorbellStates
  <2> DEFINE batch == {unpublished[i] : i \in 1 .. Len(unpublished)}
  <2>1. /\ state' = [w \in Wqe |->
                IF w \in batch THEN "Doorbelled" ELSE state[w]]
        /\ ready' = ready \o unpublished /\ unpublished' = <<>>
        /\ UNCHANGED <<inflight, outcomes, posted, next, pending, lost>>
    BY Zenon DEF RingDoorbell
  <2>2. /\ state \in [Wqe -> WqeState \cup {"none"}]
        /\ unpublished \in Seq(Wqe) /\ ready \in Seq(Wqe)
        /\ inflight \subseteq Wqe /\ lost \in {0} \cup Wqe
    BY Zenon DEF QueueInv, Shape
  <2>3. \A w \in batch : w \in Wqe /\ state[w] = "Posted"
    BY <2>2 DEF States, Owned
  <2>4. /\ \A w \in batch : state'[w] = "Doorbelled"
        /\ \A w \in Wqe : state[w] # "Posted" => state'[w] = state[w]
        /\ \A w \in Wqe : state'[w] # "Doorbelled" => state'[w] = state[w]
    <3> HIDE DEF batch
    <3> QED BY <2>1, <2>3, Zenon
  <2>5. RetiredPrefix'
    <3>1. next' = next
      BY <2>1, Zenon
    <3> QED BY <2>4, <3>1, Zenon DEF States, RetiredPrefix, Retired
  <2>6. Completing'
    BY <2>1, <2>2, <2>4, Zenon DEF States, Completing, fatal
  <2>7. Owned'
    <3>1. /\ Len(ready') = Len(ready) + Len(unpublished)
          /\ \A i \in 1 .. Len(ready) : ready'[i] = ready[i]
          /\ Len(ready) \in Nat /\ Len(unpublished) \in Nat
      BY <2>1, <2>2
    <3>2. \A i \in 1 .. Len(ready') : i \notin 1 .. Len(ready) =>
              /\ i - Len(ready) \in 1 .. Len(unpublished)
              /\ ready'[i] = unpublished[i - Len(ready)]
      BY <2>1, <2>2, <3>1
    <3>3. \A i \in 1 .. Len(ready) : ready[i] \in Wqe
      BY <2>2
    <3>4. \A i \in 1 .. Len(ready') : state'[ready'[i]] = "Doorbelled"
      <4> SUFFICES ASSUME NEW i \in 1 .. Len(ready')
                   PROVE  state'[ready'[i]] = "Doorbelled"
        OBVIOUS
      <4>1. CASE i \in 1 .. Len(ready)
        BY <4>1, <3>1, <3>3, <2>4 DEF States, Owned
      <4>2. CASE i \notin 1 .. Len(ready)
        <5>1. ready'[i] \in batch
          BY <4>2, <3>2, Zenon
        <5> QED BY <5>1, <2>4, Zenon
      <4> QED BY <4>1, <4>2, Zenon
    <3>5. \A i, j \in 1 .. Len(ready') : ready'[i] = ready'[j] => i = j
      <4> SUFFICES ASSUME NEW i \in 1 .. Len(ready'), NEW j \in 1 .. Len(ready'),
                          ready'[i] = ready'[j]
                   PROVE  i = j
        OBVIOUS
      <4>1. i \in Int /\ j \in Int
        BY <3>1
      <4>2. CASE i \in 1 .. Len(ready) /\ j \in 1 .. Len(ready)
        BY <4>2, <3>1 DEF States, Owned
      <4>3. CASE i \notin 1 .. Len(ready) /\ j \notin 1 .. Len(ready)
        <5>1. \A x, y \in 1 .. Len(unpublished) :
                  unpublished[x] = unpublished[y] => x = y
          BY Zenon DEF States, Owned
        <5>2. i - Len(ready) = j - Len(ready)
          BY <4>3, <3>2, <5>1, Zenon
        <5> QED BY <5>2, <4>1, <3>1
      <4>4. CASE i \in 1 .. Len(ready) /\ j \notin 1 .. Len(ready)
        <5>1. ready'[j] \in batch /\ ready'[i] = ready[i]
          BY <4>4, <3>1, <3>2, Zenon
        <5>2. state[ready[i]] = "Doorbelled" /\ ready[i] \notin batch
          BY <4>4, <2>3, Zenon DEF States, Owned
        <5> QED BY <5>1, <5>2, Zenon
      <4>5. CASE i \notin 1 .. Len(ready) /\ j \in 1 .. Len(ready)
        <5>1. ready'[i] \in batch /\ ready'[j] = ready[j]
          BY <4>5, <3>1, <3>2, Zenon
        <5>2. state[ready[j]] = "Doorbelled" /\ ready[j] \notin batch
          BY <4>5, <2>3, Zenon DEF States, Owned
        <5> QED BY <5>1, <5>2, Zenon
      <4> QED BY <4>2, <4>3, <4>4, <4>5, Zenon
    <3>6. /\ \A w \in inflight : state'[w] = "InFlight"
          /\ \A w \in Wqe : outcomes[w] # "none" =>
                state'[w] = "AwaitingOrderedRetirement"
          /\ \A w \in Wqe : w > posted => state'[w] = "none"
      BY <2>2, <2>4, Zenon DEF States, Owned
    <3>7. \A i \in 1 .. Len(unpublished') : FALSE
      BY <2>1
    <3> QED BY <2>1, <3>4, <3>5, <3>6, <3>7, Zenon DEF Owned
  <2> QED BY <2>5, <2>6, <2>7, Zenon DEF States
\* Writing the state of w leaves every other request alone.
<1>OneState.
    ASSUME Shape, NEW w \in Wqe, NEW x, state' = [state EXCEPT ![w] = x]
    PROVE  state'[w] = x /\ \A v \in Wqe : v # w => state'[v] = state[v]
  BY <1>OneState, Zenon DEF Shape
\* A retirement extends the retired prefix by the request next in order.
<1>RetireStates.
    ASSUME QueueInv, States, NEW d \in CqeDelays, RetireOne(d)
    PROVE  States'
  <2> USE <1>RetireStates
  <2>0. PICK w : w = next.retire
    OBVIOUS
  <2> DEFINE needs == NeedsCqe(wqes[w].signaled, outcomes[w])
             x == IF needs THEN "CompletionPending" ELSE "RetiredUnsignaled"
  <2>1. /\ w \in Wqe /\ w =< posted /\ next'.retire = w + 1
        /\ w \in Nat
    BY <2>0, RetireShape, Numbers, Zenon DEF QueueInv
  <2>2. /\ outcomes[w] # "none"
        /\ state' = [state EXCEPT ![w] = x]
        /\ outcomes' = [outcomes EXCEPT ![w] = "none"]
        /\ \A c \in pending : c \in pending'
        /\ needs => \E c \in pending' : c.wqe = w
        /\ UNCHANGED <<unpublished, ready, inflight, posted, lost>>
    <3> DEFINE at0 == CqeVisibleAt(Max({wqes[w].outcome, cursors.retirement}), d)
               entry == [seq |-> next.cqe, wqe |-> w, visible_at |-> at0]
    <3>1. pending' = IF needs THEN pending \cup {entry} ELSE pending
      BY <2>0, Zenon DEF RetireOne
    <3>2. entry.wqe = w
      OBVIOUS
    <3>3. (\A c \in pending : c \in pending')
          /\ (needs => \E c \in pending' : c.wqe = w)
      <4> HIDE DEF entry, needs
      <4> QED BY <3>1, <3>2, Zenon
    <3>4. /\ outcomes[w] # "none"
          /\ state' = [state EXCEPT ![w] = x]
          /\ outcomes' = [outcomes EXCEPT ![w] = "none"]
          /\ UNCHANGED <<unpublished, ready, inflight, posted, lost>>
      BY <2>0, Zenon DEF RetireOne, Retirable
    <3> QED BY <3>3, <3>4, Zenon
  <2>3. /\ state'[w] = x
        /\ \A v \in Wqe : v # w => state'[v] = state[v]
    <3> HIDE DEF x
    <3> QED BY <2>1, <2>2, <1>OneState, Zenon DEF QueueInv
  <2> HIDE DEF needs
  <2>4. state[w] = "AwaitingOrderedRetirement"
    BY <2>1, <2>2, Zenon DEF States, Owned
  <2>5. /\ unpublished \in Seq(Wqe) /\ ready \in Seq(Wqe)
        /\ inflight \subseteq Wqe /\ outcomes \in [Wqe -> Status \cup {"none"}]
        /\ lost \in {0} \cup Wqe
    BY Zenon DEF QueueInv, Shape
  <2>6. RetiredPrefix'
    <3>1. \A v \in Wqe : v < next'.retire => v = w \/ v < w
      BY <2>1 DEF Wqe
    <3>2. Retired(w)'
      BY <2>3, Zenon DEF Retired
    <3>3. \A v \in Wqe : v # w /\ v < w => Retired(v)'
      BY <2>0, <2>3, Zenon DEF States, RetiredPrefix, Retired
    <3> QED BY <3>1, <3>2, <3>3, Zenon DEF RetiredPrefix
  <2>7. Completing'
    <3>1. \A v \in Wqe : state'[v] = "CompletionPending" =>
            \E c \in pending' : c.wqe = v
      <4> SUFFICES ASSUME NEW v \in Wqe, state'[v] = "CompletionPending"
                   PROVE  \E c \in pending' : c.wqe = v
        OBVIOUS
      <4>1. CASE v = w
        BY <4>1, <2>2, <2>3
      <4>2. CASE v # w
        <5>1. PICK c \in pending : c.wqe = v
          BY <4>2, <2>3, Zenon DEF States, Completing
        <5> QED BY <5>1, <2>2, Zenon
      <4> QED BY <4>1, <4>2, Zenon
    <3>2. fatal' => state'[lost'] = "Error"
      BY <2>2, <2>3, <2>4, <2>5, Zenon DEF States, Completing, fatal
    <3> QED BY <3>1, <3>2, Zenon DEF Completing
  <2>8. Owned'
    <3>1. /\ \A i \in 1 .. Len(unpublished) : state'[unpublished[i]] = "Posted"
          /\ \A i \in 1 .. Len(ready) : state'[ready[i]] = "Doorbelled"
          /\ \A v \in inflight : state'[v] = "InFlight"
      BY <2>3, <2>4, <2>5 DEF States, Owned
    <3>2. \A v \in Wqe : outcomes'[v] # "none" =>
            state'[v] = "AwaitingOrderedRetirement"
      BY <2>1, <2>2, <2>3, <2>5 DEF States, Owned
    <3>3. \A v \in Wqe : v > posted => state'[v] = "none"
      <4>1. \A v \in Wqe : v > posted => v # w
        BY <2>1, <2>4, Zenon DEF States, Owned
      <4> QED BY <4>1, <2>3, Zenon DEF States, Owned
    <3> QED BY <2>2, <3>1, <3>2, <3>3 DEF States, Owned
  <2> QED BY <2>6, <2>7, <2>8, Zenon DEF States
\* A request whose outcome arrives was doorbelled or in flight, so it is not
\* retired and in no other container.
<1>DecideStates.
    ASSUME QueueInv, States, NEW w \in Wqe, NEW st \in Status, NEW t,
           Decide(w, st, t), state[w] \in {"Doorbelled", "InFlight"},
           ready' \in Seq(Wqe),
           inflight' \subseteq inflight, w \notin inflight',
           \A i \in 1 .. Len(ready') :
               state[ready'[i]] = "Doorbelled" /\ ready'[i] # w,
           \A i, j \in 1 .. Len(ready') : ready'[i] = ready'[j] => i = j,
           UNCHANGED <<unpublished, posted, next, pending, lost>>
    PROVE  States'
  <2> USE <1>DecideStates
  <2>1. /\ outcomes' = [outcomes EXCEPT ![w] = st]
        /\ state' = [state EXCEPT ![w] = "AwaitingOrderedRetirement"]
    BY Zenon DEF Decide
  <2>2. /\ state'[w] = "AwaitingOrderedRetirement"
        /\ \A v \in Wqe : v # w => state'[v] = state[v]
    BY <2>1, <1>OneState, Zenon DEF QueueInv
  <2>3. /\ unpublished \in Seq(Wqe) /\ inflight \subseteq Wqe
        /\ outcomes \in [Wqe -> Status \cup {"none"}] /\ lost \in {0} \cup Wqe
    BY Zenon DEF QueueInv, Shape
  <2>4. ~Retired(w)
    BY Zenon DEF Retired
  <2>5. RetiredPrefix'
    BY <2>2, <2>4, Zenon DEF States, RetiredPrefix, Retired
  <2>6. Completing'
    BY <2>2, <2>3 DEF States, Completing, fatal
  <2>7. Owned'
    <3>1. \A i \in 1 .. Len(unpublished) : state'[unpublished[i]] = "Posted"
      BY <2>2, <2>3 DEF States, Owned
    <3>2. \A i \in 1 .. Len(ready') : state'[ready'[i]] = "Doorbelled"
      BY <2>2
    <3>3. \A v \in inflight' : state'[v] = "InFlight"
      BY <2>2, <2>3 DEF States, Owned
    <3>4. \A v \in Wqe : outcomes'[v] # "none" =>
            state'[v] = "AwaitingOrderedRetirement"
      BY <2>1, <2>2, <2>3 DEF States, Owned
    <3>5. \A v \in Wqe : v > posted => state'[v] = "none"
      BY <2>2 DEF States, Owned
    <3> QED BY <3>1, <3>2, <3>3, <3>4, <3>5 DEF States, Owned
  <2> QED BY <2>5, <2>6, <2>7, Zenon DEF States
\* An accepted request moves from the ready ones to those in flight.
<1>AcceptStates.
    ASSUME QueueInv, States, SubmitAccepted
    PROVE  States'
  <2> USE <1>AcceptStates
  <2> DEFINE w == Head(ready)
  <2>1. /\ ready # <<>> /\ ready' = Tail(ready)
        /\ state' = [state EXCEPT ![w] = "InFlight"]
        /\ inflight' = inflight \cup {w}
        /\ UNCHANGED <<unpublished, outcomes, posted, next, pending, lost>>
    BY Zenon DEF SubmitAccepted, Submitting, HeadDue
  <2>2. /\ w \in Wqe /\ state[w] = "Doorbelled" /\ ready' \in Seq(Wqe)
        /\ \A i \in 1 .. Len(ready') :
              state[ready'[i]] = "Doorbelled" /\ ready'[i] # w
        /\ \A i, j \in 1 .. Len(ready') : ready'[i] = ready'[j] => i = j
    BY <2>1, TakeHead, Zenon
  <2> HIDE DEF w
  <2>3. /\ state'[w] = "InFlight"
        /\ \A v \in Wqe : v # w => state'[v] = state[v]
    BY <2>1, <2>2, <1>OneState, Zenon DEF QueueInv
  <2>4. /\ unpublished \in Seq(Wqe) /\ inflight \subseteq Wqe
        /\ lost \in {0} \cup Wqe
    BY Zenon DEF QueueInv, Shape
  <2>5. RetiredPrefix'
    BY <2>1, <2>2, <2>3, Zenon DEF States, RetiredPrefix, Retired
  <2>6. Completing'
    BY <2>1, <2>2, <2>3, <2>4 DEF States, Completing, fatal
  <2>7. Owned'
    <3>1. \A i \in 1 .. Len(unpublished) : state'[unpublished[i]] = "Posted"
      BY <2>2, <2>3, <2>4 DEF States, Owned
    <3>2. \A i \in 1 .. Len(ready') : state'[ready'[i]] = "Doorbelled"
      BY <2>2, <2>3
    <3>3. \A v \in inflight' : state'[v] = "InFlight"
      BY <2>1, <2>3, <2>4, Zenon DEF States, Owned
    <3>4. \A v \in Wqe : outcomes[v] # "none" =>
            state'[v] = "AwaitingOrderedRetirement"
      BY <2>2, <2>3, Zenon DEF States, Owned
    <3>5. \A v \in Wqe : v > posted => state'[v] = "none"
      BY <2>2, <2>3 DEF States, Owned
    <3> QED BY <2>1, <2>2, <3>1, <3>2, <3>3, <3>4, <3>5 DEF States, Owned
  <2> QED BY <2>5, <2>6, <2>7, Zenon DEF States
\* The state of a retired request is changed to that of a retired one.
<1>RetiredStates.
    ASSUME QueueInv, States,
           \A v \in Wqe : state'[v] = state[v] \/ (Retired(v) /\ Retired(v)'),
           UNCHANGED <<unpublished, ready, inflight, outcomes, posted, next>>
    PROVE  RetiredPrefix' /\ Owned'
  <2> USE <1>RetiredStates
  <2>1. /\ unpublished \in Seq(Wqe) /\ ready \in Seq(Wqe)
        /\ inflight \subseteq Wqe
    BY Zenon DEF QueueInv, Shape
  <2>2. \A v \in Wqe : ~Retired(v) => state'[v] = state[v]
    OBVIOUS
  <2>3. \A v \in Wqe : state[v] \in {"Posted", "Doorbelled", "InFlight",
                           "AwaitingOrderedRetirement", "none"} => ~Retired(v)
    BY Zenon DEF Retired
  <2>4. \A v \in Wqe : Retired(v) => Retired(v)'
    BY Zenon DEF Retired
  <2>5. RetiredPrefix'
    BY <2>4, Zenon DEF States, RetiredPrefix
  <2>6. /\ \A i \in 1 .. Len(unpublished) : unpublished[i] \in Wqe
        /\ \A i \in 1 .. Len(ready) : ready[i] \in Wqe
    BY <2>1
  <2>7. Owned'
    BY <2>1, <2>2, <2>3, <2>6 DEF States, Owned
  <2> QED BY <2>5, <2>7, Zenon
\* A published entry takes its request out of what is pending.
<1>PublishStates.
    ASSUME QueueInv, States, PublishOne \/ Overrun, ~fatal
    PROVE  States'
  <2> USE <1>PublishStates
  <2>0. PICK c : c = FirstCqe
    OBVIOUS
  <2>1. /\ HasDue /\ pending' = pending \ {c}
        /\ UNCHANGED <<unpublished, ready, inflight, outcomes, posted, next,
                       occupied, reclaimed, cursors>>
        /\ \/ state' = [state EXCEPT ![c.wqe] = "CqeVisible"] /\ lost' = lost
           \/ state' = [state EXCEPT ![c.wqe] = "Error"] /\ lost' = c.wqe
    BY <2>0, Zenon DEF PublishOne, Overrun
  <2>2. c \in PendingRecord /\ c \in pending /\ c.wqe < next.retire
    BY <2>0, <2>1, TakeFirst, Zenon DEF QueueInv
  <2>3. c.wqe \in Wqe /\ Retired(c.wqe)
    BY <2>2, Zenon DEF PendingRecord, States, RetiredPrefix
  <2>4. /\ state'[c.wqe] \in {"CqeVisible", "Error"}
        /\ lost' # lost => state'[c.wqe] = "Error" /\ lost' = c.wqe
        /\ \A v \in Wqe : v # c.wqe => state'[v] = state[v]
    BY <2>1, <2>3, <1>OneState, Zenon DEF QueueInv
  <2>5. RetiredPrefix' /\ Owned'
    <3>1. \A v \in Wqe : state'[v] = state[v] \/ (Retired(v) /\ Retired(v)')
      BY <2>3, <2>4, Zenon DEF Retired
    <3> QED BY <2>1, <3>1, <1>RetiredStates, Zenon
  <2>6. Completing'
    <3>1. ASSUME NEW v \in Wqe, state'[v] = "CompletionPending"
          PROVE  \E e \in pending' : e.wqe = v
      <4>1. v # c.wqe /\ state[v] = "CompletionPending"
        BY <3>1, <2>4, Zenon
      <4>2. PICK e \in pending : e.wqe = v
        BY <4>1, Zenon DEF States, Completing
      <4> QED BY <4>1, <4>2, <2>1, Zenon
    <3>2. fatal' => state'[lost'] = "Error"
      BY <2>4, Zenon DEF fatal
    <3> QED BY <3>1, <3>2, Zenon DEF Completing
  <2> QED BY <2>5, <2>6, Zenon DEF States
\* A poll completes a request and reclaims those before it, all retired.
<1>ConsumeStates.
    ASSUME QueueInv, States, ConsumeOne
    PROVE  States'
  <2> USE <1>ConsumeStates
  <2>0. PICK w : w = Head(cq).wqe
    OBVIOUS
  <2>1. /\ state' = [v \in Wqe |->
                IF v = w THEN "Completed"
                ELSE IF v \in Freed(w) /\ state[v] # "Completed"
                THEN "Reclaimed" ELSE state[v]]
        /\ MayReclaim(w)
        /\ UNCHANGED <<unpublished, ready, inflight, outcomes, posted, next,
                       pending, lost>>
    BY <2>0, Zenon DEF ConsumeOne
  <2>2. /\ w = cq[1].wqe /\ Len(cq) >= 1 /\ 1 \in 1 .. Len(cq)
    <3>1. w = cq[1].wqe /\ Len(cq) >= 1
      BY <2>0, ConsumeOrder, Zenon DEF QueueInv
    <3> QED BY <3>1, Numbers DEF QueueInv
  <2>3. w \in Wqe /\ w \in Nat /\ w < next.retire /\ reclaimed < w
    <3>1. cq[1] \in CqeRecord /\ cq[1].wqe \in Nat
      BY <2>2, Numbers, Zenon DEF QueueInv
    <3>2. cq[1].wqe < next.retire /\ reclaimed < cq[1].wqe
      BY <2>2, Zenon DEF QueueInv, Order, CqOrder
    <3> QED BY <2>2, <3>1, <3>2, Zenon DEF CqeRecord
  <2>4. Retired(w) /\ \A v \in Freed(w) : Retired(v)
    BY <2>1, <2>3, Zenon DEF MayReclaim, Freed, States, RetiredPrefix
  <2>5. \A v \in Wqe : \/ state'[v] = state[v] /\ v # w
                       \/ /\ state'[v] \in {"Completed", "Reclaimed"}
                          /\ v = w \/ v \in Freed(w)
    BY <2>1, Zenon
  <2>6. RetiredPrefix' /\ Owned'
    <3>1. \A v \in Wqe : state'[v] = state[v] \/ (Retired(v) /\ Retired(v)')
      BY <2>4, <2>5, Zenon DEF Retired
    <3> QED BY <2>1, <3>1, <1>RetiredStates, Zenon
  <2>7. Completing'
    <3>1. \A v \in Wqe : state'[v] = "CompletionPending" =>
            \E c \in pending : c.wqe = v
      BY <2>5, Zenon DEF States, Completing
    <3>2. fatal' => state'[lost'] = "Error"
      <4> SUFFICES ASSUME fatal' PROVE state'[lost'] = "Error"
        OBVIOUS
      <4>1. fatal /\ w < lost /\ lost \in Wqe /\ lost \in Nat
        BY <2>1, Numbers, Zenon DEF fatal, MayReclaim, QueueInv, Shape
      <4>2. lost # w /\ lost \notin Freed(w)
        BY <4>1, <2>3, Numbers DEF Freed, QueueInv
      <4> QED BY <4>1, <4>2, <2>1, <2>5, Zenon DEF States, Completing
    <3> QED BY <2>1, <3>1, <3>2, Zenon DEF Completing
  <2> QED BY <2>6, <2>7, Zenon DEF States
<1> SUFFICES ASSUME StatesInv, [Next]_vars PROVE StatesInv'
  OBVIOUS
<1> USE DEF StatesInv
<1>0. QueueInv'
  BY QueueInvSteps, Zenon
<1>1. CASE Post
  BY <1>0, <1>1, <1>PostStates, Zenon DEF Post
<1>2. CASE Doorbell
  BY <1>0, <1>2, <1>DoorbellStates, Zenon DEF Doorbell
<1>3. CASE Retire
  BY <1>0, <1>3, <1>RetireStates, Zenon DEF Retire
<1>4. CASE ExtentEvent
  <2>1. PICK t \in Time, w \in Wqe, s \in Status : OnFlowExtentEvent(w, s, t)
    BY <1>4, Zenon DEF ExtentEvent
  <2>2. /\ w \in inflight /\ inflight' = inflight \ {w} /\ Decide(w, s, t)
        /\ UNCHANGED <<ready, unpublished, posted, next, pending, lost>>
    BY <2>1, Zenon DEF OnFlowExtentEvent
  <2>3. state[w] = "InFlight" /\ ready \in Seq(Wqe)
    BY <2>2, Zenon DEF States, Owned, QueueInv, Shape
  <2>4. /\ \A i \in 1 .. Len(ready) :
              state[ready[i]] = "Doorbelled" /\ ready[i] # w
        /\ \A i, j \in 1 .. Len(ready) : ready[i] = ready[j] => i = j
    BY <2>3, Zenon DEF States, Owned
  <2> QED BY <1>0, <2>2, <2>3, <2>4, <1>DecideStates
<1>5. CASE SubmitRejected
  <2>1. /\ ready # <<>> /\ ready' = Tail(ready)
        /\ Decide(Head(ready), "NetworkRejected", now)
        /\ UNCHANGED <<inflight, unpublished, posted, next, pending, lost>>
    BY <1>5, Zenon DEF SubmitRejected, Submitting, HeadDue
  <2>2. /\ Head(ready) \in Wqe /\ state[Head(ready)] = "Doorbelled"
        /\ ready' \in Seq(Wqe)
        /\ \A i \in 1 .. Len(ready') :
              state[ready'[i]] = "Doorbelled" /\ ready'[i] # Head(ready)
        /\ \A i, j \in 1 .. Len(ready') : ready'[i] = ready'[j] => i = j
    BY <2>1, TakeHead, Zenon
  <2>3. Head(ready) \notin inflight' /\ "NetworkRejected" \in Status
    BY <2>1, <2>2, Zenon DEF States, Owned, Status
  <2> QED BY <1>0, <2>1, <2>2, <2>3, <1>DecideStates, ZenonT(60)
<1>6. CASE SubmitAccepted
  BY <1>0, <1>6, <1>AcceptStates, Zenon
<1>7. CASE PublishOne \/ Overrun
  <2>1. ~fatal
    BY <1>7, Zenon DEF PublishOne, Overrun, Publishing, QueueInv, LoopOK
  <2> QED BY <1>0, <1>7, <2>1, <1>PublishStates, Zenon
<1>8. CASE ConsumeOne
  BY <1>0, <1>8, <1>ConsumeStates, Zenon
<1>9. CASE \/ Ignored \/ AttemptEvent \/ EcnEvent \/ Progress \/ PublishDone
           \/ Busy \/ SubmitDone \/ Poll \/ ConsumeDone \/ UNCHANGED vars
  <2>1. UNCHANGED <<state, unpublished, ready, inflight, outcomes, posted,
                    next, pending, lost>>
    <3>1. CASE Ignored
      BY <3>1, Zenon
         DEF Ignored, PostRefused, RingNothing, OnControlEvent, queueVars
    <3>2. CASE AttemptEvent \/ EcnEvent
      BY <3>2, Zenon
         DEF AttemptEvent, OnPacketAttemptEvent, EcnEvent, OnEcnMarked
    <3>3. CASE Progress \/ PublishDone \/ Busy
      BY <3>3, Zenon DEF Progress, ProgressBegin, PublishDone, Busy, SubmitBusy,
                  queueVars
    <3>4. CASE SubmitDone \/ Poll \/ ConsumeDone \/ UNCHANGED vars
      BY <3>4, Zenon DEF SubmitDone, Poll, PollBegin, ConsumeDone, vars, queueVars
    <3> QED BY <1>9, <3>1, <3>2, <3>3, <3>4, Zenon
  <2> QED BY <1>0, <2>1, <1>StatesUnchanged, Zenon
<1> QED BY <1>1, <1>2, <1>3, <1>4, <1>5, <1>6, <1>7, <1>8, <1>9, Zenon DEF Next

\* An empty queue satisfies the invariant.
LEMMA InitStates == Init => StatesInv
<1> SUFFICES ASSUME Init PROVE StatesInv
  OBVIOUS
<1>1. RetiredPrefix
  BY DEF Init, RetiredPrefix, Wqe
<1>2. Owned
  BY DEF Init, Owned
<1>3. Completing
  BY Zenon DEF Init, Completing, fatal
<1> QED BY <1>1, <1>2, <1>3, InitQueueInv, Zenon DEF StatesInv, States

\* The inductive invariant of the work queue.
THEOREM RequestsStayOwned == Spec => []StatesInv
<1>1. Init => StatesInv
  BY InitStates, Zenon
<1>2. StatesInv /\ [Next]_vars => StatesInv'
  BY StatesSteps, Zenon
<1> QED BY <1>1, <1>2, PTL DEF Spec

\* reclaimThrough: whatever the order of the outcomes, every check it makes on
\* an entry the host can poll succeeds.
THEOREM PollNeverThrows == Spec => []CqReclaimable
<1>1. StatesInv => CqReclaimable
  <2> SUFFICES ASSUME StatesInv, NEW i \in 1 .. Len(cq)
               PROVE  /\ cq[i].wqe > reclaimed
                      /\ fatal => cq[i].wqe < lost
                      /\ \A v \in 1 .. cq[i].wqe : Retired(v)
    BY Zenon DEF CqReclaimable
  <2>1. Shape
    BY Zenon DEF StatesInv, QueueInv
  <2>2. /\ reclaimed < cq[i].wqe /\ cq[i].wqe < next.retire
        /\ fatal => cq[i].wqe < lost
    BY Zenon DEF StatesInv, QueueInv, Order, CqOrder, LostOrder
  <2>3. cq[i].wqe \in Wqe /\ cq[i].wqe \in Nat /\ reclaimed \in Nat
        /\ next.retire \in Nat
    BY <2>1, Numbers, Zenon DEF CqeRecord
  <2>4. \A v \in 1 .. cq[i].wqe : v \in Wqe /\ v < next.retire
    BY <2>2, <2>3, QueueAssumption DEF Wqe
  <2> QED BY <2>2, <2>3, <2>4, Zenon DEF StatesInv, States, RetiredPrefix
<1> QED BY <1>1, RequestsStayOwned, PTL

\* publishCqes, reclaimThrough: the completion an overrun loses is the oldest
\* the host was not given, and its entry is never reclaimed.
THEOREM LostIsNeverReclaimed == Spec => []LostKeepsItsEntry
<1>1. StatesInv => LostKeepsItsEntry
  <2> SUFFICES ASSUME StatesInv, fatal
               PROVE  /\ reclaimed < lost /\ state[lost] = "Error"
                      /\ \A w \in 1 .. lost - 1 :
                            state[w] # "CompletionPending"
    BY Zenon DEF LostKeepsItsEntry
  <2>1. Shape
    BY Zenon DEF StatesInv, QueueInv
  <2>2. /\ reclaimed < lost /\ state[lost] = "Error"
        /\ \A c \in pending : lost < c.wqe
    BY Zenon DEF StatesInv, QueueInv, Order, LostOrder, States, Completing
  <2>3. lost \in Wqe /\ lost \in Nat
    BY <2>1, Numbers, Zenon DEF Shape, fatal
  <2>4. ASSUME NEW w \in 1 .. lost - 1, state[w] = "CompletionPending"
        PROVE  FALSE
    <3>1. w \in Wqe /\ w < lost /\ w \in Nat
      BY <2>3, QueueAssumption DEF Wqe
    <3>2. PICK c \in pending : c.wqe = w
      BY <2>4, <3>1, Zenon DEF StatesInv, States, Completing
    <3> QED BY <2>2, <2>3, <3>1, <3>2
  <2> QED BY <2>2, <2>4, Zenon
<1> QED BY <1>1, RequestsStayOwned, PTL

-----------------------------------------------------------------------------
(* Every request is where its state says, and nowhere else. *)

PendingWqes == {c.wqe : c \in pending}
RingWqes == {cq[i].wqe : i \in 1 .. Len(cq)}

\* Where request w is, by its state.
HousedAt(w) ==
    /\ state[w] = "none" => w > posted
    /\ state[w] = "Posted" => w \in Items(unpublished)
    /\ state[w] = "Doorbelled" => w \in Items(ready)
    /\ state[w] = "InFlight" => w \in inflight
    /\ state[w] = "AwaitingOrderedRetirement" => outcomes[w] # "none"
    /\ state[w] = "CompletionPending" <=> w \in PendingWqes
    /\ state[w] = "CqeVisible" <=> w \in RingWqes
    /\ state[w] \in {"Reclaimed", "Completed"} <=> w =< reclaimed
    /\ state[w] = "Error" => w = lost

\* What request w is owed: a status once retired, an entry if it asked for
\* one or failed.
OwingAt(w) ==
    /\ wqes[w].status # "none" <=> w < next.retire
    /\ state[w] \in {"RetiredUnsignaled", "Reclaimed"} =>
          ~NeedsCqe(wqes[w].signaled, wqes[w].status)
    /\ state[w] \in {"CompletionPending", "CqeVisible", "Completed"} =>
          NeedsCqe(wqes[w].signaled, wqes[w].status)

Housed == \A w \in Wqe : HousedAt(w)
Owing == \A w \in Wqe : OwingAt(w)

\* The queues of requests are in send-queue order.
Lined ==
    /\ Increasing(unpublished) /\ Increasing(ready)
    /\ \A i \in 1 .. Len(ready), j \in 1 .. Len(unpublished) :
          ready[i] < unpublished[j]

\* The packets reported belong to requests in flight.
Reporting ==
    /\ attempts \in [Attempt -> LiveStage
                                  \cup {"unseen", "completed", "forgotten"}]
    /\ \A a \in Attempt : attempts[a] \in LiveStage \cup {"completed"} =>
          a[1] \in inflight

\* Completion entries are numbered one by one, and shown in that order.
Numbered ==
    /\ Len(cq) =< CqDepth /\ visible < next.cqe
    /\ \A i \in 1 .. Len(cq) : /\ cq[i].seq = visible - Len(cq) + i
                               /\ cq[i].seq >= 1
                               /\ cq[i].slot = (cq[i].seq - 1) % CqDepth
    /\ \A c \in pending : c.seq > visible
    /\ ~fatal => \A n \in visible + 1 .. next.cqe - 1 :
                    \E c \in pending : c.seq = n

\* A pass that submitted all it could has announced the rest.
Announced ==
    /\ retry \in Nat
    /\ at = "flush" => ~HeadDue \/ Blocked

-----------------------------------------------------------------------------
(* The slots of the completion ring. *)

numberVars == <<cq, visible, pending, next, lost>>

\* Numbers less than N apart have different remainders.
LEMMA RemaindersDiffer ==
    ASSUME NEW N \in Nat \ {0}, NEW a \in Nat, NEW b \in Nat,
           a < b, b < a + N
    PROVE  a % N # b % N
<1>1. /\ a = N * (a \div N) + (a % N) /\ b = N * (b \div N) + (b % N)
      /\ a \div N \in Int /\ b \div N \in Int
      /\ a % N \in Int /\ b % N \in Int
  OBVIOUS
<1> SUFFICES ASSUME a % N = b % N PROVE FALSE
  OBVIOUS
<1>2. PICK d \in Int : d = (b \div N) - (a \div N)
  <2>1. (b \div N) - (a \div N) \in Int
    BY <1>1
  <2> QED BY <2>1, Zenon
<1>3. b - a = N * d
  BY <1>1, <1>2
<1>4. CASE d =< 0
  <2>1. N * d =< 0
    BY <1>4
  <2> QED BY <1>3, <2>1
<1>5. CASE d >= 1
  <2>1. N * d >= N
    BY <1>5
  <2> QED BY <1>3, <2>1
<1> QED BY <1>2, <1>4, <1>5

\* Every other step leaves the numbers alone.
LEMMA NumberedSteps == QueueInv /\ Numbered /\ [Next]_vars => Numbered'
\* The entry published next carries the next number.
<1>FirstIsNext.
    ASSUME QueueInv, Numbered, ~fatal, pending # {}
    PROVE  /\ FirstCqe \in pending /\ FirstCqe.seq = visible + 1
           /\ \A c \in pending : c # FirstCqe => c.seq > visible + 1
  <2> USE <1>FirstIsNext
  <2>1. /\ FirstCqe \in pending
        /\ \A d \in pending : d # FirstCqe => FirstCqe.wqe < d.wqe
    BY FirstCqeProperty, Zenon DEF QueueInv, Order
  <2>2. PICK c : c = FirstCqe
    OBVIOUS
  <2>3. c \in pending /\ c.seq \in Nat /\ c.wqe \in Nat /\ next.cqe \in Nat
        /\ visible \in Nat
    BY <2>1, <2>2, Numbers, Zenon DEF QueueInv, Shape
  <2>4. c.seq > visible /\ c.seq < next.cqe
    BY <2>3, Zenon DEF Numbered, QueueInv, Order, PendingOrder
  <2>5. \A d \in pending : d # c => c.seq < d.seq
    <3> SUFFICES ASSUME NEW d \in pending, d # c PROVE c.seq < d.seq
      OBVIOUS
    <3>1. d.seq \in Nat /\ d.wqe \in Nat
      BY Numbers, Zenon DEF QueueInv
    <3>2. c.wqe < d.wqe
      BY <2>1, <2>2, Zenon
    <3>3. /\ d.seq < c.seq => d.wqe < c.wqe
          /\ d.seq = c.seq => d = c
      BY <2>3, Zenon DEF QueueInv, Order, PendingOrder
    <3> QED BY <2>3, <3>1, <3>2, <3>3
  <2>6. PICK d \in pending : d.seq = visible + 1
    <3>1. visible + 1 \in visible + 1 .. next.cqe - 1
      BY <2>3, <2>4
    <3> QED BY <3>1, Zenon DEF Numbered
  <2>7. c.seq = visible + 1
    BY <2>3, <2>4, <2>5, <2>6
  <2> QED BY <2>2, <2>3, <2>5, <2>7, Zenon
\* A retirement takes the next number, if the request is owed an entry.
<1>RetireNumbers.
    ASSUME QueueInv, Numbered, NEW d \in CqeDelays, RetireOne(d)
    PROVE  Numbered'
  <2> USE <1>RetireNumbers
  <2>1. /\ \A c \in pending' :
              c \in pending \/ (c.seq = next.cqe /\ next'.cqe = next.cqe + 1)
        /\ next'.cqe \in {next.cqe, next.cqe + 1}
    BY RetireShape, Zenon DEF QueueInv
  <2>2. UNCHANGED <<cq, visible, lost>>
    BY Zenon DEF RetireOne
  <2>3. /\ \A c \in pending : c \in pending'
        /\ next'.cqe # next.cqe => \E c \in pending' : c.seq = next.cqe
    <3>1. PICK needs, entry :
            /\ pending' = IF needs THEN pending \cup {entry} ELSE pending
            /\ entry.seq = next.cqe
            /\ next'.cqe = IF needs THEN next.cqe + 1 ELSE next.cqe
      <4> DEFINE w == next.retire
                 needs == NeedsCqe(wqes[w].signaled, outcomes[w])
                 entry == [seq |-> next.cqe, wqe |-> w, visible_at |->
                     CqeVisibleAt(Max({wqes[w].outcome, cursors.retirement}), d)]
      <4>1. /\ pending' = IF needs THEN pending \cup {entry} ELSE pending
            /\ next' = [retire |-> w + 1,
                        cqe |-> IF needs THEN next.cqe + 1 ELSE next.cqe]
        BY Zenon DEF RetireOne
      <4>2. entry.seq = next.cqe
        OBVIOUS
      <4>3. next'.cqe = IF needs THEN next.cqe + 1 ELSE next.cqe
        BY <4>1, Zenon
      <4> HIDE DEF needs, entry
      <4> QED BY <4>1, <4>2, <4>3, Zenon
    <3> QED BY <3>1, Zenon
  <2>4. next.cqe \in Nat /\ visible \in Nat
    BY Numbers, Zenon DEF QueueInv, Shape
  <2>5. visible' < next'.cqe
    BY <2>1, <2>2, <2>4 DEF Numbered
  <2>6. \A c \in pending' : c.seq > visible'
    BY <2>1, <2>2, <2>4, Zenon DEF Numbered
  <2>7. ~fatal' => \A n \in visible' + 1 .. next'.cqe - 1 :
                      \E c \in pending' : c.seq = n
    <3> SUFFICES ASSUME ~fatal, NEW n \in visible + 1 .. next'.cqe - 1
                 PROVE  \E c \in pending' : c.seq = n
      BY <2>2, Zenon DEF fatal
    <3>1. CASE n \in visible + 1 .. next.cqe - 1
      BY <3>1, <2>3, Zenon DEF Numbered
    <3>2. CASE n \notin visible + 1 .. next.cqe - 1
      <4>1. next'.cqe # next.cqe /\ n = next.cqe
        BY <3>2, <2>1, <2>4
      <4> QED BY <4>1, <2>3, Zenon
    <3> QED BY <3>1, <3>2, Zenon
  <2> QED BY <2>2, <2>5, <2>6, <2>7, Zenon DEF Numbered
\* The entry published next goes to the slot of its number.
<1>PublishNumbers.
    ASSUME QueueInv, Numbered, PublishOne, ~fatal
    PROVE  Numbered'
  <2> USE <1>PublishNumbers
  <2>0. PICK c : c = FirstCqe
    OBVIOUS
  <2>1. PICK entry :
          /\ entry = [seq |-> c.seq, wqe |-> c.wqe,
                      visible_at |-> c.visible_at, slot |-> visible % CqDepth]
          /\ pending # {} /\ pending' = pending \ {c}
          /\ Len(cq) # CqDepth /\ cq' = Append(cq, entry)
          /\ visible' = visible + 1 /\ UNCHANGED <<next, lost>>
    BY <2>0, Zenon DEF PublishOne, HasDue, CqIndex
  <2>2. /\ c \in pending /\ c.seq = visible + 1
        /\ \A d \in pending : d # c => d.seq > visible + 1
    BY <2>0, <2>1, <1>FirstIsNext, Zenon
  <2>3. entry.seq = visible + 1 /\ entry.slot = visible % CqDepth
    BY <2>1, <2>2, Zenon
  <2>4. visible \in Nat /\ next.cqe \in Nat /\ CqDepth \in Nat
        /\ Len(cq) \in Nat /\ cq \in Seq(CqeRecord)
    BY Numbers, QueueAssumption, Zenon DEF QueueInv, Shape
  <2>5. /\ Len(cq') = Len(cq) + 1 /\ cq'[Len(cq) + 1] = entry
        /\ \A i \in 1 .. Len(cq) : cq'[i] = cq[i]
    <3> HIDE DEF CqeRecord
    <3> QED BY <2>1, <2>4
  <2>6. Len(cq') =< CqDepth /\ visible' < next'.cqe
    <3>1. c.seq < next.cqe
      BY <2>2, Zenon DEF QueueInv, Order, PendingOrder
    <3> QED BY <2>1, <2>2, <2>4, <2>5, <3>1 DEF Numbered
  <2>7. \A i \in 1 .. Len(cq') : /\ cq'[i].seq = visible' - Len(cq') + i
                                 /\ cq'[i].seq >= 1
                                 /\ cq'[i].slot = (cq'[i].seq - 1) % CqDepth
    <3> SUFFICES ASSUME NEW i \in 1 .. Len(cq')
                 PROVE  /\ cq'[i].seq = visible' - Len(cq') + i
                        /\ cq'[i].seq >= 1
                        /\ cq'[i].slot = (cq'[i].seq - 1) % CqDepth
      OBVIOUS
    <3>1. CASE i = Len(cq) + 1
      <4>1. cq'[i] = entry
        BY <3>1, <2>5, Zenon
      <4>2. cq'[i].seq = visible + 1
        BY <4>1, <2>3, Zenon
      <4>3. cq'[i].slot = visible % CqDepth
        BY <4>1, <2>3, Zenon
      <4>4. cq'[i].seq >= 1 /\ cq'[i].seq - 1 = visible
        BY <4>2, <2>4
      <4>5. visible' - Len(cq') + i = visible + 1
        BY <2>1, <2>4, <2>5, <3>1
      <4>6. cq'[i].slot = (cq'[i].seq - 1) % CqDepth
        BY <4>3, <4>4, Zenon
      <4> QED BY <4>2, <4>4, <4>5, <4>6, Zenon
    <3>2. CASE i # Len(cq) + 1
      <4>1. i \in 1 .. Len(cq) /\ cq'[i] = cq[i] /\ i \in Int
        BY <3>2, <2>4, <2>5
      <4>2. /\ cq[i].seq = visible - Len(cq) + i /\ cq[i].seq >= 1
            /\ cq[i].slot = (cq[i].seq - 1) % CqDepth
        BY <4>1, Zenon DEF Numbered
      <4>3. visible' - Len(cq') + i = visible - Len(cq) + i
        BY <2>1, <2>4, <2>5, <4>1
      <4> QED BY <4>1, <4>2, <4>3, Zenon
    <3> QED BY <3>1, <3>2, Zenon
  <2>8. \A d \in pending' : d.seq > visible'
    BY <2>1, <2>2, Zenon
  <2>9. \A n \in visible' + 1 .. next'.cqe - 1 : \E d \in pending' : d.seq = n
    <3> SUFFICES ASSUME NEW n \in visible + 2 .. next.cqe - 1
                 PROVE  \E d \in pending' : d.seq = n
      BY <2>1, <2>4
    <3>1. PICK d \in pending : d.seq = n
      <4>1. n \in visible + 1 .. next.cqe - 1
        BY <2>4
      <4> QED BY <4>1, Zenon DEF Numbered
    <3>2. d # c
      BY <3>1, <2>2, <2>4
    <3> QED BY <3>1, <3>2, <2>1, Zenon
  <2> QED BY <2>6, <2>7, <2>8, <2>9, Zenon DEF Numbered
\* An overrun loses the entry it would have published.
<1>OverrunNumbers.
    ASSUME QueueInv, Numbered, Overrun
    PROVE  Numbered'
  <2> USE <1>OverrunNumbers
  <2>1. /\ pending # {} /\ pending' = pending \ {FirstCqe}
        /\ lost' = FirstCqe.wqe /\ UNCHANGED <<cq, visible, next>>
    BY Zenon DEF Overrun, HasDue
  <2>2. FirstCqe \in pending
    BY <2>1, FirstCqeProperty, Zenon DEF QueueInv, Order
  <2>3. fatal'
    BY SMTT(20), <2>1, <2>2 DEF fatal, QueueInv, Shape, PendingRecord, Wqe
  <2> QED BY <2>1, <2>3, Zenon DEF Numbered
\* A poll takes the oldest entry.
<1>ConsumeNumbers.
    ASSUME QueueInv, Numbered, ConsumeOne
    PROVE  Numbered'
  <2> USE <1>ConsumeNumbers
  <2>1. cq # <<>> /\ cq' = Tail(cq) /\ UNCHANGED <<visible, pending, next, lost>>
    BY Zenon DEF ConsumeOne
  <2>2. cq \in Seq(CqeRecord) /\ Len(cq) \in Nat /\ visible \in Nat
        /\ CqDepth \in Nat
    BY QueueAssumption, Numbers, Zenon DEF QueueInv, Shape
  <2>3. /\ Len(cq') = Len(cq) - 1
        /\ \A i \in 1 .. Len(cq') : cq'[i] = cq[i + 1] /\ i + 1 \in 1 .. Len(cq)
    <3> HIDE DEF CqeRecord
    <3> QED BY <2>1, <2>2
  <2>4. Len(cq') =< CqDepth
    BY <2>2, <2>3 DEF Numbered
  <2>5. ASSUME NEW i \in 1 .. Len(cq')
        PROVE  /\ cq'[i].seq = visible - Len(cq') + i /\ cq'[i].seq >= 1
               /\ cq'[i].slot = (cq'[i].seq - 1) % CqDepth
    <3>1. cq'[i] = cq[i + 1] /\ i + 1 \in 1 .. Len(cq)
      BY <2>3, Zenon
    <3>2. /\ cq[i + 1].seq = visible - Len(cq) + (i + 1) /\ cq[i + 1].seq >= 1
          /\ cq[i + 1].slot = (cq[i + 1].seq - 1) % CqDepth
      BY <3>1, Zenon DEF Numbered
    <3>3. visible - Len(cq) + (i + 1) = visible - Len(cq') + i
      BY <2>2, <2>3
    <3> QED BY <3>1, <3>2, <3>3, Zenon
  <2> QED BY <2>1, <2>4, <2>5, Zenon DEF Numbered, fatal
<1> SUFFICES ASSUME QueueInv, Numbered, [Next]_vars PROVE Numbered'
  OBVIOUS
<1>1. CASE Retire
  BY <1>1, <1>RetireNumbers, Zenon DEF Retire
<1>2. CASE PublishOne
  <2>1. ~fatal
    BY <1>2, Zenon DEF PublishOne, Publishing, QueueInv, LoopOK
  <2> QED BY <1>2, <2>1, <1>PublishNumbers, Zenon
<1>3. CASE Overrun
  BY <1>3, <1>OverrunNumbers, Zenon
<1>4. CASE ConsumeOne
  BY <1>4, <1>ConsumeNumbers, Zenon
<1>5. CASE UNCHANGED numberVars
  BY <1>5, Zenon DEF numberVars, Numbered, fatal
<1>6. CASE Post \/ Ignored \/ Doorbell
  <2>1. UNCHANGED numberVars
    BY <1>6, Zenon DEF Post, PostSend, Ignored, PostRefused, RingNothing,
                OnControlEvent, Doorbell, RingDoorbell, queueVars, numberVars
  <2> QED BY <1>5, <2>1, Zenon
<1>7. CASE ExtentEvent \/ AttemptEvent \/ EcnEvent
  <2>1. UNCHANGED numberVars
    BY <1>7, Zenon DEF ExtentEvent, OnFlowExtentEvent, AttemptEvent,
                OnPacketAttemptEvent, EcnEvent, OnEcnMarked, numberVars
  <2> QED BY <1>5, <2>1, Zenon
<1>8. CASE Progress \/ Poll \/ PublishDone \/ Busy \/ SubmitDone \/ ConsumeDone
           \/ UNCHANGED vars
  <2>1. UNCHANGED numberVars
    BY <1>8, Zenon DEF Progress, ProgressBegin, Poll, PollBegin, PublishDone, Busy,
                SubmitBusy, SubmitDone, ConsumeDone, vars, queueVars,
                numberVars
  <2> QED BY <1>5, <2>1, Zenon
<1>9. CASE SubmitAccepted \/ SubmitRejected
  <2>1. UNCHANGED numberVars
    BY <1>9, Zenon DEF SubmitAccepted, SubmitRejected, numberVars
  <2> QED BY <1>5, <2>1, Zenon
<1> QED BY <1>1, <1>2, <1>3, <1>4, <1>6, <1>7, <1>8, <1>9, Zenon DEF Next

\* makeCqe, publishCqes: the slot announced for a completion entry is the one
\* it was written to, and no two unpolled entries share one, however many
\* entries the ring has wrapped over.
THEOREM SlotsNeverShared == Spec => []RingSlots
<1>1. Init => Numbered
  BY QueueAssumption DEF Init, Numbered
<1>2. QueueInv /\ Numbered /\ [Next]_vars => Numbered'
  BY NumberedSteps, Zenon
<1>3. QueueInv /\ Numbered => RingSlots
  <2> SUFFICES ASSUME QueueInv, Numbered, NEW i \in 1 .. Len(cq),
                      NEW j \in 1 .. i - 1
               PROVE  cq[i].slot # cq[j].slot
    BY Zenon DEF RingSlots, Numbered
  <2>1. Len(cq) \in Nat /\ visible \in Nat /\ CqDepth \in Nat \ {0}
        /\ Len(cq) =< CqDepth
    BY QueueAssumption, Numbers, Zenon DEF QueueInv, Shape, Numbered
  <2>2. j \in 1 .. Len(cq) /\ i \in Nat /\ j \in Nat
    BY <2>1
  <2>3. /\ cq[i].seq = visible - Len(cq) + i /\ cq[i].seq >= 1
        /\ cq[i].slot = (cq[i].seq - 1) % CqDepth
        /\ cq[j].seq = visible - Len(cq) + j /\ cq[j].seq >= 1
        /\ cq[j].slot = (cq[j].seq - 1) % CqDepth
    BY <2>2, Zenon DEF Numbered
  <2> DEFINE a == cq[j].seq - 1
             b == cq[i].seq - 1
             base == visible - Len(cq) - 1
  <2>4. a \in Nat /\ b \in Nat
    <3>1. cq[i].seq \in Nat /\ cq[j].seq \in Nat
      BY <2>2, Numbers, Zenon DEF QueueInv, CqeRecord
    <3> QED BY <2>3, <3>1
  <2>5. a < b /\ b < a + CqDepth
    <3>1. a = base + j /\ b = base + i /\ base \in Int
      BY <2>1, <2>2, <2>3
    <3>2. j < i /\ i < j + CqDepth
      BY <2>1, <2>2
    <3> HIDE DEF a, b, base
    <3> QED BY <2>1, <2>2, <3>1, <3>2
  <2> HIDE DEF a, b
  <2>6. a % CqDepth # b % CqDepth
    BY <2>1, <2>4, <2>5, RemaindersDiffer, Zenon
  <2> QED BY <2>3, <2>6, Zenon DEF a, b
<1> QED BY <1>1, <1>2, <1>3, CompletionSideOrdered, PTL DEF Spec

-----------------------------------------------------------------------------
(* The announced times. *)

\* There is something to publish or to submit at t.
WorkAt(t) ==
    \/ pending # {} /\ FirstCqe.visible_at =< t
    \/ /\ ready # <<>> /\ wqes[Head(ready)].admitted =< t
       /\ ~(retry > t)

\* What AnnouncedExactly says of one step.
AnnouncedStep ==
    /\ at = "idle" /\ at' = "publish" =>
          ((HasDue' \/ (HeadDue' /\ ~Blocked'))
             <=> \E e \in NextEvents : e =< now')
    /\ at \in {"publish", "submit", "flush"} /\ at' = "idle" =>
          \A e \in NextEvents' : e > now'

\* nextEventTime: a driver that steps from one announced time to the next
\* finds work at each, and misses none.
THEOREM AnnouncesExactly == Spec => AnnouncedExactly
\* A bound on the latest of some instants bounds each.
<1>LatestOfTwo.
    ASSUME NEW a \in Nat, NEW b \in Nat, NEW t \in Nat
    PROVE  /\ Max({a, b}) \in Nat
           /\ Max({a, b}) =< t <=> a =< t /\ b =< t
  BY <1>LatestOfTwo DEF Max
\* and the latest of three.
<1>LatestOfThree.
    ASSUME NEW a \in Nat, NEW b \in Nat, NEW c \in Nat, NEW t \in Nat
    PROVE  /\ Max({a, b, c}) \in Nat
           /\ Max({a, b, c}) =< t <=> a =< t /\ b =< t /\ c =< t
  <2> USE <1>LatestOfThree
  <2>1. \E x \in {a, b, c} : \A y \in {a, b, c} : x >= y
    OBVIOUS
  <2>2. /\ Max({a, b, c}) \in {a, b, c}
        /\ \A y \in {a, b, c} : Max({a, b, c}) >= y
    BY <2>1, Zenon DEF Max
  <2>3. PICK m : m = Max({a, b, c})
    OBVIOUS
  <2>4. m \in {a, b, c} /\ m >= a /\ m >= b /\ m >= c
    BY <2>2, <2>3, Zenon
  <2> QED BY <2>3, <2>4
\* The first entry in the map is the first to be visible.
<1>FirstIsEarliest.
    ASSUME QueueInv, pending # {}
    PROVE  /\ FirstCqe \in pending
           /\ \A c \in pending : FirstCqe.visible_at =< c.visible_at
  <2> USE <1>FirstIsEarliest
  <2>1. PICK f : f = FirstCqe
    OBVIOUS
  <2>2. f \in pending /\ \A c \in pending : c # f => f.wqe < c.wqe
    BY <2>1, FirstCqeProperty, Zenon DEF QueueInv, Order
  <2>3. ASSUME NEW c \in pending PROVE f.visible_at =< c.visible_at
    <3>1. /\ c.seq \in Nat /\ f.seq \in Nat /\ c.wqe \in Nat /\ f.wqe \in Nat
          /\ c.visible_at \in Nat /\ f.visible_at \in Nat
      BY <2>2, Numbers, Zenon DEF QueueInv
    <3>2. CASE c = f
      BY <3>1, <3>2
    <3>3. CASE c # f
      <4>1. /\ f.wqe < c.wqe
            /\ c.seq < f.seq => c.wqe < f.wqe
            /\ c.seq = f.seq => c = f
            /\ f.seq < c.seq => f.visible_at =< c.visible_at
        BY <2>2, <3>3, Zenon DEF QueueInv, Order, PendingOrder
      <4> QED BY <3>1, <3>3, <4>1
    <3> QED BY <3>2, <3>3, Zenon
  <2> QED BY <2>1, <2>2, <2>3, Zenon
\* It is announced no later than it is due, and not before.
<1>WorkIsAnnounced.
    ASSUME QueueInv, retry \in Nat, ~fatal, NEW t \in Nat, now =< t
    PROVE  /\ NextEvents \subseteq Nat
           /\ WorkAt(t) <=> \E e \in NextEvents : e =< t
  <2> USE <1>WorkIsAnnounced
  <2>1. now \in Nat /\ wqes \in [Wqe -> WqeRecord] /\ ready \in Seq(Wqe)
    BY Zenon DEF QueueInv, Shape
  <2> DEFINE E == {Max({c.visible_at, now}) : c \in pending}
             h == wqes[Head(ready)].admitted
             R == IF ready = <<>> THEN {} ELSE {Max({h, now, retry})}
  <2>2. NextEvents = E \cup R
    BY Zenon DEF NextEvents
  <2>3. \A c \in pending :
           /\ Max({c.visible_at, now}) \in Nat
           /\ Max({c.visible_at, now}) =< t <=> c.visible_at =< t
    <3> SUFFICES ASSUME NEW c \in pending
                 PROVE  /\ Max({c.visible_at, now}) \in Nat
                        /\ Max({c.visible_at, now}) =< t <=> c.visible_at =< t
      OBVIOUS
    <3>1. c.visible_at \in Nat
      BY Numbers, Zenon DEF QueueInv
    <3> QED BY <2>1, <3>1, <1>LatestOfTwo, Zenon
  <2>4. E \subseteq Nat /\ ((\E e \in E : e =< t) <=>
                              (pending # {} /\ FirstCqe.visible_at =< t))
    <3>1. E \subseteq Nat
      BY <2>3, Zenon
    <3>2. (\E e \in E : e =< t) <=> \E c \in pending : c.visible_at =< t
      BY <2>3, Zenon
    <3>3. (\E c \in pending : c.visible_at =< t) <=>
            (pending # {} /\ FirstCqe.visible_at =< t)
      <4>1. ASSUME NEW c \in pending, c.visible_at =< t
            PROVE  pending # {} /\ FirstCqe.visible_at =< t
        <5>1. FirstCqe \in pending /\ FirstCqe.visible_at =< c.visible_at
          BY <1>FirstIsEarliest, Zenon
        <5>2. FirstCqe.visible_at \in Nat /\ c.visible_at \in Nat
          BY <5>1, Numbers, Zenon DEF QueueInv
        <5> QED BY <4>1, <5>1, <5>2
      <4>2. ASSUME pending # {}, FirstCqe.visible_at =< t
            PROVE  \E c \in pending : c.visible_at =< t
        BY <4>2, <1>FirstIsEarliest, Zenon
      <4> QED BY <4>1, <4>2, Zenon
    <3> QED BY <3>1, <3>2, <3>3, Zenon
  <2>5. R \subseteq Nat /\ ((\E e \in R : e =< t) <=>
                              (ready # <<>> /\ h =< t /\ ~(retry > t)))
    <3>1. CASE ready = <<>>
      BY <3>1, Zenon
    <3>2. CASE ready # <<>>
      <4>1. Head(ready) \in Wqe
        BY <2>1, <3>2
      <4>2. h \in Nat
        BY <2>1, <4>1, Zenon DEF WqeRecord
      <4> HIDE DEF h
      <4>3. /\ Max({h, now, retry}) \in Nat
            /\ Max({h, now, retry}) =< t <=> h =< t /\ now =< t /\ retry =< t
        BY <2>1, <4>2, <1>LatestOfThree, Zenon
      <4>4. R = {Max({h, now, retry})}
        BY <3>2, Zenon
      <4> HIDE DEF R
      <4>5. R \subseteq Nat
        BY <4>3, <4>4, Zenon
      <4>6. (\E e \in R : e =< t) <=> Max({h, now, retry}) =< t
        BY <4>4, Zenon
      <4>7. ~(retry > t) <=> retry =< t
        OBVIOUS
      <4> QED BY <3>2, <4>3, <4>5, <4>6, <4>7, Zenon
    <3> QED BY <3>1, <3>2, Zenon
  <2> HIDE DEF E, R
  <2>6. NextEvents \subseteq Nat
    BY <2>2, <2>4, <2>5, Zenon
  <2>7. (\E e \in NextEvents : e =< t) <=>
          (\E e \in E : e =< t) \/ (\E e \in R : e =< t)
    BY <2>2, Zenon
  <2> QED BY <2>4, <2>5, <2>6, <2>7, Zenon DEF WorkAt
\* A pass of progress() that comes to its last publication has submitted what
\* it could.
<1>AnnouncedSteps.
    ASSUME QueueInv, Announced, [Next]_vars
    PROVE  Announced'
  <2> USE <1>AnnouncedSteps
  <2>0. /\ now \in Nat /\ retry \in Nat /\ wqes \in [Wqe -> WqeRecord]
        /\ ready \in Seq(Wqe) /\ (at = "flush" => ~HeadDue \/ Blocked)
    BY Zenon DEF QueueInv, Shape, Announced
  <2>1. CASE Post \/ Ignored \/ Doorbell
    <3>1. at = "idle" /\ at' = at /\ retry' = retry
      BY <2>1, Zenon DEF Post, PostSend, Ignored, PostRefused, RingNothing,
                  OnControlEvent, Doorbell, RingDoorbell, Called
    <3> QED BY <2>0, <3>1, Zenon DEF Announced
  <2>2. CASE ExtentEvent \/ AttemptEvent \/ EcnEvent
    <3>1. at = "idle" /\ at' = at /\ retry' = retry
      BY <2>2, Zenon DEF ExtentEvent, OnFlowExtentEvent, AttemptEvent,
                         OnPacketAttemptEvent, EcnEvent, OnEcnMarked, Called
    <3> QED BY <2>0, <3>1, Zenon DEF Announced
  <2>3. CASE Progress \/ Poll
    <3>1. at' # "flush" /\ retry' = retry
      BY <2>3, Zenon DEF Progress, ProgressBegin, Poll, PollBegin
    <3> QED BY <2>0, <3>1, Zenon DEF Announced
  <2>4. CASE ConsumeOne \/ ConsumeDone \/ Overrun
    <3>1. at' # "flush" /\ retry' = retry
      BY <2>4, Zenon DEF ConsumeOne, ConsumeDone, Overrun
    <3> QED BY <2>0, <3>1, Zenon DEF Announced
  <2>5. CASE PublishDone
    <3>1. at' # "flush" /\ retry' \in {0, retry}
      BY <2>5, Zenon DEF PublishDone, Publishing
    <3> QED BY <2>0, <3>1 DEF Announced
  <2>6. CASE SubmitAccepted \/ SubmitRejected
    <3>1. at = "submit" /\ at' = at /\ retry' = retry
      BY <2>6, Zenon DEF SubmitAccepted, SubmitRejected, Submitting
    <3> QED BY <2>0, <3>1, Zenon DEF Announced
  <2>7. CASE Busy
    <3>1. PICK t \in Time : SubmitBusy(t)
      BY <2>7, Zenon DEF Busy
    <3>2. retry' \in Nat /\ retry' > now'
      BY <3>1 DEF SubmitBusy, Time
    <3> QED BY <3>2, Zenon DEF Announced, Blocked
  <2>8. CASE SubmitDone
    <3>1. ~HeadDue /\ UNCHANGED <<ready, wqes, now, retry>>
      BY <2>8, Zenon DEF SubmitDone, queueVars
    <3> QED BY <2>0, <3>1, Zenon DEF Announced, HeadDue
  <2>9. CASE Retire
    <3>1. PICK d \in CqeDelays : RetireOne(d)
      BY <2>9, Zenon DEF Retire
    <3>2. /\ UNCHANGED <<at, ready, now, retry>>
          /\ wqes' = [wqes EXCEPT ![next.retire].status = outcomes[next.retire]]
      BY <3>1, Zenon DEF RetireOne
    <3>3. ready # <<>> => wqes'[Head(ready)].admitted = wqes[Head(ready)].admitted
      <4> SUFFICES ASSUME ready # <<>>
                   PROVE wqes'[Head(ready)].admitted = wqes[Head(ready)].admitted
        OBVIOUS
      <4>1. Head(ready) \in Wqe
        BY <2>0
      <4>2. next.retire \in Wqe
        BY <3>1, RetireShape, Zenon DEF QueueInv
      <4>3. \/ wqes'[Head(ready)] = wqes[Head(ready)]
            \/ wqes'[Head(ready)] =
                  [wqes[Head(ready)] EXCEPT !.status = outcomes[next.retire]]
        BY <2>0, <3>2, <4>1, <4>2, Zenon
      <4>4. wqes[Head(ready)] \in WqeRecord
        BY <2>0, <4>1, Zenon
      <4> QED BY <4>3, <4>4, Zenon DEF WqeRecord
    <3>4. HeadDue' => HeadDue
      BY <3>2, <3>3, Zenon DEF HeadDue
    <3> QED BY <2>0, <3>2, <3>4, Zenon DEF Announced, Blocked
  <2>10. CASE PublishOne \/ UNCHANGED vars
    <3>1. UNCHANGED <<at, ready, wqes, now, retry>>
      BY <2>10, Zenon DEF PublishOne, vars, queueVars
    <3> QED BY <2>0, <3>1, Zenon DEF Announced, Blocked, HeadDue
  <2> QED BY <2>1, <2>2, <2>3, <2>4, <2>5, <2>6, <2>7, <2>8, <2>9, <2>10, Zenon
             DEF Next
\* A pass begins with work exactly if some was announced for that time.
<1>PassBegins.
    ASSUME QueueInv, Announced, NEW t \in Time, ProgressBegin(t)
    PROVE  AnnouncedStep
  <2> USE <1>PassBegins
  <2>1. /\ at = "idle" /\ now' = t /\ t >= now /\ UNCHANGED <<retry, queueVars>>
        /\ at' = "publish" => ~fatal
    BY Zenon DEF ProgressBegin, Called
  <2>2. t \in Nat /\ now \in Nat
    BY DEF Time, QueueInv, Shape
  <2> SUFFICES ASSUME at' = "publish"
               PROVE  (HasDue' \/ (HeadDue' /\ ~Blocked'))
                        <=> \E e \in NextEvents : e =< now'
    BY <2>1, Zenon DEF AnnouncedStep
  <2>3. WorkAt(t) <=> \E e \in NextEvents : e =< t
    <3>1. now =< t /\ ~fatal /\ retry \in Nat
      BY <2>1, <2>2, Zenon DEF Announced
    <3> QED BY <2>2, <3>1, <1>WorkIsAnnounced, Zenon
  <2>4. UNCHANGED <<pending, ready, wqes, retry>>
    BY <2>1, Zenon DEF queueVars
  <2>5. HasDue' <=> pending # {} /\ FirstCqe.visible_at =< t
    <3>1. FirstCqe' = FirstCqe
      BY <2>4, Zenon DEF FirstCqe
    <3> QED BY <2>1, <2>4, <3>1, Zenon DEF HasDue, Due
  <2>6. HeadDue' <=> ready # <<>> /\ wqes[Head(ready)].admitted =< t
    BY <2>1, <2>4, Zenon DEF HeadDue
  <2>7. Blocked' <=> retry > t
    BY <2>1, <2>4, Zenon DEF Blocked
  <2> QED BY <2>1, <2>3, <2>5, <2>6, <2>7, Zenon DEF WorkAt
\* A pass ends with nothing left for its own time.
<1>PassEnds.
    ASSUME QueueInv, Announced, PublishDone
    PROVE  AnnouncedStep
  <2> USE <1>PassEnds
  <2>1. /\ at \in {"publish", "flush", "poll"} /\ ~HasDue /\ now' = now
        /\ UNCHANGED queueVars
        /\ at' = "idle" => at = "flush" \/ (at = "publish" /\ Blocked)
        /\ at' = "idle" => retry' = retry
    BY Zenon DEF PublishDone, Publishing
  <2> SUFFICES ASSUME at \in {"publish", "flush"}, at' = "idle"
               PROVE  \A e \in NextEvents' : e > now'
    BY <2>1, Zenon DEF AnnouncedStep
  <2>2. ~fatal /\ now \in Nat /\ retry \in Nat
    BY <2>1, Zenon DEF QueueInv, LoopOK, Shape, Announced
  <2>3. ~HeadDue \/ Blocked
    BY <2>1, Zenon DEF Announced
  <2>4. ~WorkAt(now)
    <3>1. ~(pending # {} /\ FirstCqe.visible_at =< now)
      BY <2>1, Zenon DEF HasDue, Due
    <3> QED BY <2>3, <3>1, Zenon DEF WorkAt, HeadDue, Blocked
  <2>5. NextEvents \subseteq Nat /\ ~(\E e \in NextEvents : e =< now)
    BY <2>2, <2>4, <1>WorkIsAnnounced
  <2>6. NextEvents' = NextEvents
    BY <2>1, Zenon DEF NextEvents, fatal, queueVars
  <2> QED BY <2>1, <2>2, <2>5, <2>6
<1>1. Init => Announced
  BY DEF Init, Announced
<1>2. QueueInv /\ Announced /\ [Next]_vars => Announced'
  BY <1>AnnouncedSteps, Zenon
<1>3. QueueInv /\ Announced /\ [Next]_vars => [AnnouncedStep]_vars
  <2> SUFFICES ASSUME QueueInv, Announced, Next PROVE AnnouncedStep
    OBVIOUS
  <2>1. CASE Progress
    BY <2>1, <1>PassBegins, Zenon DEF Progress
  <2>2. CASE PublishDone
    BY <2>2, <1>PassEnds, Zenon
  <2>3. CASE Overrun
    <3>1. /\ pending # {} /\ lost' = FirstCqe.wqe /\ at' # "publish"
      BY <2>3, Zenon DEF Overrun, HasDue
    <3>2. FirstCqe \in pending
      BY <3>1, <1>FirstIsEarliest, Zenon
    <3>3. fatal'
      BY <3>1, <3>2 DEF fatal, QueueInv, Shape, PendingRecord, Wqe
    <3>4. NextEvents' = {}
      BY <3>3, Zenon DEF NextEvents
    <3> QED BY <3>1, <3>4, Zenon DEF AnnouncedStep
  <2>4. CASE Post \/ Ignored \/ Doorbell
    <3>1. at = "idle" /\ at' = at
      BY <2>4, Zenon DEF Post, PostSend, Ignored, PostRefused, RingNothing,
                  OnControlEvent, Doorbell, RingDoorbell, Called
    <3> QED BY <3>1, Zenon DEF AnnouncedStep
  <2>5. CASE ExtentEvent \/ AttemptEvent \/ EcnEvent
    <3>1. at = "idle" /\ at' = at
      BY <2>5, Zenon DEF ExtentEvent, OnFlowExtentEvent, AttemptEvent,
                         OnPacketAttemptEvent, EcnEvent, OnEcnMarked, Called
    <3> QED BY <3>1, Zenon DEF AnnouncedStep
  <2>6. CASE Retire \/ PublishOne \/ SubmitAccepted \/ SubmitRejected
    <3>1. at' = at
      BY <2>6, Zenon
         DEF Retire, RetireOne, PublishOne, SubmitAccepted, SubmitRejected
    <3> QED BY <3>1, Zenon DEF AnnouncedStep
  <2>7. CASE Busy \/ SubmitDone
    <3>1. at' = "flush"
      BY <2>7, Zenon DEF Busy, SubmitBusy, SubmitDone
    <3> QED BY <3>1, Zenon DEF AnnouncedStep
  <2>8. CASE Poll
    <3>1. at = "idle" /\ at' \in {"consume", "poll"}
      BY <2>8, Zenon DEF Poll, PollBegin, Called
    <3> QED BY <3>1, Zenon DEF AnnouncedStep
  <2>9. CASE ConsumeOne \/ ConsumeDone
    <3>1. at = "consume"
      BY <2>9, Zenon DEF ConsumeOne, ConsumeDone
    <3> QED BY <3>1, Zenon DEF AnnouncedStep
  <2> QED BY <2>1, <2>2, <2>3, <2>4, <2>5, <2>6, <2>7, <2>8, <2>9, Zenon DEF Next
<1> QED BY <1>1, <1>2, <1>3, CompletionSideOrdered, PTL
       DEF Spec, AnnouncedExactly, AnnouncedStep

-----------------------------------------------------------------------------
(* Requests and their containers, step by step. *)

\* What a step leaves of the containers request v may be in.
SameHome(v) ==
    /\ state'[v] = state[v]
    /\ v \in Items(unpublished) => v \in Items(unpublished)'
    /\ v \in Items(ready) => v \in Items(ready)'
    /\ v \in inflight => v \in inflight'
    /\ outcomes[v] # "none" => outcomes'[v] # "none"
    /\ v \in PendingWqes <=> v \in PendingWqes'
    /\ v \in RingWqes <=> v \in RingWqes'
    /\ v =< reclaimed <=> v =< reclaimed'
    /\ v > posted => v > posted' \/ state[v] # "none"
    /\ state[v] = "Error" => (v = lost => v = lost')

\* The same for what it is owed.
SameOwed(v) ==
    /\ state'[v] = state[v]
    /\ wqes'[v].status = wqes[v].status
    /\ wqes'[v].signaled = wqes[v].signaled
    /\ v < next.retire <=> v < next'.retire

\* The items of a queue without its head.
LEMMA ItemsTail ==
    ASSUME NEW S, NEW s \in Seq(S), s # <<>>
    PROVE  Items(s) = {Head(s)} \cup Items(Tail(s))
<1>1. /\ Len(Tail(s)) = Len(s) - 1 /\ Len(s) \in Nat /\ Len(s) >= 1
      /\ \A i \in 1 .. Len(Tail(s)) : Tail(s)[i] = s[i + 1]
      /\ Head(s) = s[1]
  OBVIOUS
<1>2. \A i \in 1 .. Len(s) : i = 1 \/ i - 1 \in 1 .. Len(Tail(s))
  BY <1>1
<1>3. \A i \in 1 .. Len(Tail(s)) : i + 1 \in 1 .. Len(s)
  BY <1>1
<1>4. 1 \in 1 .. Len(s)
  BY <1>1
<1>5. ASSUME NEW i \in 1 .. Len(s)
      PROVE  s[i] = Head(s) \/ s[i] \in Items(Tail(s))
  <2>1. CASE i = 1
    BY <2>1, <1>1, Zenon
  <2>2. CASE i # 1
    <3>1. i - 1 \in 1 .. Len(Tail(s)) /\ (i - 1) + 1 = i
      BY <2>2, <1>1, <1>2
    <3>2. Tail(s)[i - 1] = s[i]
      BY <3>1, <1>1, Zenon
    <3> QED BY <3>1, <3>2, Zenon DEF Items
  <2> QED BY <2>1, <2>2, Zenon
<1>6. ASSUME NEW i \in 1 .. Len(Tail(s)) PROVE Tail(s)[i] \in Items(s)
  BY <1>1, <1>3, Zenon DEF Items
<1>7. Items(s) \subseteq {Head(s)} \cup Items(Tail(s))
  BY <1>5, Zenon DEF Items
<1>8. Items(Tail(s)) \subseteq Items(s)
  BY <1>6, Zenon DEF Items
<1>9. Head(s) \in Items(s)
  BY <1>1, <1>4, Zenon DEF Items
<1> QED BY <1>7, <1>8, <1>9, Zenon

HouseInv == StatesInv /\ Housed /\ Owing

\* What a poll finds: the oldest entry of the ring, before all others, and
\* before it only requests that are reclaimed or owed nothing.
LEMMA HeadOfRing ==
    ASSUME HouseInv, ConsumeOne, NEW w, w = Head(cq).wqe
    PROVE  /\ w \in Wqe /\ w \in Nat /\ reclaimed < w /\ reclaimed \in Nat
           /\ w < next.retire /\ next.retire \in Nat
           /\ RingWqes' = RingWqes \ {w} /\ w \in RingWqes
           /\ \A v \in RingWqes : v \in Nat /\ w =< v
           /\ \A v \in PendingWqes : v \in Nat /\ w < v
           /\ lost # 0 => lost \in Nat /\ w < lost
           /\ \A v \in Wqe : reclaimed < v /\ v < w =>
                 state[v] = "RetiredUnsignaled"
<1>1. cq # <<>> /\ cq' = Tail(cq) /\ MayReclaim(w)
  BY Zenon DEF ConsumeOne
<1>2. cq \in Seq(CqeRecord) /\ Len(cq) \in Nat
  BY Numbers, Zenon DEF HouseInv, StatesInv, QueueInv, Shape
<1>3. /\ Len(cq') = Len(cq) - 1 /\ w = cq[1].wqe /\ 1 \in 1 .. Len(cq)
      /\ \A i \in 1 .. Len(cq') : cq'[i] = cq[i + 1] /\ i + 1 \in 1 .. Len(cq)
  <2> HIDE DEF CqeRecord
  <2> QED BY <1>1, <1>2
<1>4. \A i \in 1 .. Len(cq) : i # 1 =>
          i - 1 \in 1 .. Len(cq') /\ cq'[i - 1] = cq[i]
  BY <1>2, <1>3
<1>5. \A i \in 1 .. Len(cq) : cq[i].wqe \in Nat /\ cq[i] \in CqeRecord
  BY Numbers, Zenon DEF HouseInv, StatesInv, QueueInv
<1>6. ASSUME NEW i \in 1 .. Len(cq), i # 1 PROVE w < cq[i].wqe
  <2>1. i \in Nat /\ 1 =< i /\ 1 < i
    BY <1>2, <1>6
  <2>2. cq[1].wqe + (i - 1) =< cq[i].wqe
    BY <1>3, <2>1, Zenon DEF HouseInv, StatesInv, QueueInv, Order, CqOrder
  <2>3. cq[1].wqe \in Nat /\ cq[i].wqe \in Nat
    BY <1>3, <1>5, Zenon
  <2> QED BY <1>3, <2>1, <2>2, <2>3
<1>7. /\ reclaimed < w /\ w < next.retire /\ \A c \in pending : w < c.wqe
  BY <1>3, Zenon DEF HouseInv, StatesInv, QueueInv, Order, CqOrder
<1>8. w \in Wqe /\ w \in Nat /\ reclaimed \in Nat /\ next.retire \in Nat
  BY <1>3, <1>5, Numbers, Zenon DEF CqeRecord, HouseInv, StatesInv, QueueInv
<1>9. RingWqes' = RingWqes \ {w} /\ w \in RingWqes
  <2>1. w \in RingWqes
    BY <1>3, Zenon DEF RingWqes
  <2>2. \A v \in RingWqes' : v \in RingWqes /\ v # w
    <3> SUFFICES ASSUME NEW i \in 1 .. Len(cq')
                 PROVE  cq'[i].wqe \in RingWqes /\ cq'[i].wqe # w
      BY Zenon DEF RingWqes
    <3>1. cq'[i] = cq[i + 1] /\ i + 1 \in 1 .. Len(cq) /\ i + 1 # 1
      BY <1>2, <1>3
    <3>2. w < cq[i + 1].wqe /\ cq[i + 1].wqe \in Nat
      BY <1>5, <1>6, <3>1, Zenon
    <3> QED BY <1>8, <3>1, <3>2 DEF RingWqes
  <2>3. \A v \in RingWqes : v # w => v \in RingWqes'
    <3> SUFFICES ASSUME NEW i \in 1 .. Len(cq), cq[i].wqe # w
                 PROVE  cq[i].wqe \in RingWqes'
      BY Zenon DEF RingWqes
    <3>1. i # 1
      BY <1>3, Zenon
    <3>2. i - 1 \in 1 .. Len(cq') /\ cq'[i - 1] = cq[i]
      BY <1>4, <3>1, Zenon
    <3> QED BY <3>2, Zenon DEF RingWqes
  <2> QED BY <2>1, <2>2, <2>3, Zenon
<1>10. \A v \in RingWqes : v \in Nat /\ w =< v
  <2> SUFFICES ASSUME NEW i \in 1 .. Len(cq)
               PROVE  cq[i].wqe \in Nat /\ w =< cq[i].wqe
    BY Zenon DEF RingWqes
  <2> QED BY <1>3, <1>5, <1>6, <1>8
<1>11. \A v \in PendingWqes : v \in Nat /\ w < v
  BY <1>7, Numbers, Zenon DEF PendingWqes, HouseInv, StatesInv, QueueInv
<1>12. lost # 0 => lost \in Nat /\ w < lost
  BY <1>1, Numbers, Zenon DEF MayReclaim, fatal, HouseInv, StatesInv, QueueInv
<1>13. ASSUME NEW v \in Wqe, reclaimed < v, v < w
       PROVE  state[v] = "RetiredUnsignaled"
  <2>1. v \in Nat /\ v < next.retire
    BY <1>7, <1>8, <1>13 DEF Wqe
  <2>2. Retired(v) /\ HousedAt(v)
    BY <2>1, Zenon DEF HouseInv, StatesInv, States, RetiredPrefix, Housed
  <2>3. v \notin RingWqes /\ v \notin PendingWqes /\ ~(v =< reclaimed)
        /\ v # lost
    BY <1>8, <1>10, <1>11, <1>12, <1>13, <2>1 DEF Wqe
  <2> QED BY <2>2, <2>3, Zenon DEF HousedAt, Retired
<1> QED BY <1>7, <1>8, <1>9, <1>10, <1>11, <1>12, <1>13, Zenon

\* Each action keeps every request in the container of its state.
LEMMA HouseSteps == HouseInv /\ [Next]_vars => HouseInv'
\* A request whose state and containers a step leaves alone stays housed.
<1>StaysHoused.
    ASSUME NEW v, HousedAt(v), SameHome(v)
    PROVE  HousedAt(v)'
  BY <1>StaysHoused, Zenon DEF HousedAt, SameHome
\* What keeps a request owed what it was.
<1>StaysOwed.
    ASSUME NEW v, OwingAt(v), SameOwed(v)
    PROVE  OwingAt(v)'
  BY <1>StaysOwed, Zenon DEF OwingAt, SameOwed, NeedsCqe
\* Appending and taking the head, as sets of items.
<1>ItemsAppend.
    ASSUME NEW S, NEW s \in Seq(S), NEW x \in S
    PROVE  Items(Append(s, x)) = Items(s) \cup {x}
  <2> USE <1>ItemsAppend
  <2>1. /\ Len(Append(s, x)) = Len(s) + 1 /\ Len(s) \in Nat
        /\ \A i \in 1 .. Len(s) : Append(s, x)[i] = s[i]
        /\ Append(s, x)[Len(s) + 1] = x
    OBVIOUS
  <2>2. \A i \in 1 .. Len(s) + 1 : i \in 1 .. Len(s) \/ i = Len(s) + 1
    BY <2>1
  <2>3. /\ Len(s) + 1 \in 1 .. Len(s) + 1
        /\ \A i \in 1 .. Len(s) : i \in 1 .. Len(s) + 1
    BY <2>1
  <2> QED BY <2>1, <2>2, <2>3, Zenon DEF Items
\* The items of two queues joined.
<1>ItemsConcat.
    ASSUME NEW S, NEW s \in Seq(S), NEW r \in Seq(S)
    PROVE  Items(s \o r) = Items(s) \cup Items(r)
  <2> USE <1>ItemsConcat
  <2>1. /\ Len(s \o r) = Len(s) + Len(r) /\ Len(s) \in Nat /\ Len(r) \in Nat
        /\ \A i \in 1 .. Len(s) : (s \o r)[i] = s[i]
    OBVIOUS
  <2>2. \A i \in 1 .. Len(r) : (s \o r)[Len(s) + i] = r[i]
    BY <2>1
  <2>3. /\ \A i \in 1 .. Len(s) : i \in 1 .. Len(s \o r)
        /\ \A i \in 1 .. Len(r) : Len(s) + i \in 1 .. Len(s \o r)
    BY <2>1
  <2>4. ASSUME NEW i \in 1 .. Len(s \o r)
        PROVE  (s \o r)[i] \in Items(s) \cup Items(r)
    <3>1. CASE i \in 1 .. Len(s)
      BY <3>1, <2>1, Zenon DEF Items
    <3>2. CASE i \notin 1 .. Len(s)
      <4>1. i - Len(s) \in 1 .. Len(r) /\ Len(s) + (i - Len(s)) = i
        BY <3>2, <2>1
      <4>2. (s \o r)[i] = r[i - Len(s)]
        BY <4>1, <2>2, Zenon
      <4> QED BY <4>1, <4>2, Zenon DEF Items
    <3> QED BY <3>1, <3>2, Zenon
  <2>5. Items(s \o r) \subseteq Items(s) \cup Items(r)
    <3> DEFINE q == s \o r
    <3> HIDE DEF q
    <3>1. \A i \in 1 .. Len(q) : q[i] \in Items(s) \cup Items(r)
      BY <2>4, Zenon DEF q
    <3>2. Items(q) \subseteq Items(s) \cup Items(r)
      BY <3>1, Zenon DEF Items
    <3> QED BY <3>2, Zenon DEF q
  <2>6. Items(s) \subseteq Items(s \o r)
    BY <2>1, <2>3, Zenon DEF Items
  <2>7. Items(r) \subseteq Items(s \o r)
    BY <2>2, <2>3, Zenon DEF Items
  <2> QED BY <2>5, <2>6, <2>7, Zenon
\* A posted request waits for the doorbell.
<1>PostHoused.
    ASSUME HouseInv, NEW t \in Time, NEW s \in BOOLEAN, PostSend(s, t)
    PROVE  Housed' /\ Owing'
  <2> USE <1>PostHoused
  <2>0. PICK n : n = posted + 1
    OBVIOUS
  <2>1. /\ posted' = n /\ state' = [state EXCEPT ![n] = "Posted"]
        /\ wqes' = [wqes EXCEPT ![n].signaled = s]
        /\ unpublished' = Append(unpublished, n)
        /\ UNCHANGED <<ready, inflight, outcomes, pending, cq, next, reclaimed,
                       lost>>
    BY <2>0, Zenon DEF PostSend
  <2>2. n \in Wqe /\ posted \in Nat /\ n > posted
    BY <2>0, PostShape, Numbers DEF HouseInv, StatesInv, QueueInv
  <2>3. /\ state \in [Wqe -> WqeState \cup {"none"}]
        /\ wqes \in [Wqe -> WqeRecord] /\ unpublished \in Seq(Wqe)
    BY Zenon DEF HouseInv, StatesInv, QueueInv, Shape
  <2>4. state[n] = "none" /\ HousedAt(n) /\ OwingAt(n)
    BY <2>2, Zenon DEF HouseInv, StatesInv, States, Owned, Housed, Owing
  <2>5. state'[n] = "Posted" /\ \A v \in Wqe : v # n => state'[v] = state[v]
    BY <2>1, <2>2, <2>3, Zenon
  <2>6. \A v \in Wqe : /\ wqes'[v].status = wqes[v].status
                       /\ v # n => wqes'[v].signaled = wqes[v].signaled
    <3>1. \A v \in Wqe : v # n => wqes'[v] = wqes[v]
      BY <2>1, <2>2, <2>3, Zenon
    <3>2. wqes'[n] = [wqes[n] EXCEPT !.signaled = s]
      BY <2>1, <2>2, <2>3, Zenon
    <3>3. wqes'[n].status = wqes[n].status
      BY <2>2, <2>3, <3>2 DEF WqeRecord
    <3> QED BY <3>1, <3>3, Zenon
  <2>7. Items(unpublished') = Items(unpublished) \cup {n}
    BY <2>1, <2>2, <2>3, <1>ItemsAppend
  <2>8. PendingWqes' = PendingWqes /\ RingWqes' = RingWqes
    BY <2>1, Zenon DEF PendingWqes, RingWqes
  <2>9. ASSUME NEW v \in Wqe PROVE HousedAt(v)'
    <3>1. CASE v = n
      BY <3>1, <2>1, <2>4, <2>5, <2>7, <2>8, Zenon DEF HousedAt
    <3>2. CASE v # n
      <4>1. v > posted => v > n
        BY <3>2, <2>0, <2>2 DEF Wqe
      <4>2. SameHome(v)
        BY <3>2, <4>1, <2>1, <2>5, <2>7, <2>8, Zenon DEF SameHome
      <4>3. HousedAt(v)
        BY Zenon DEF HouseInv, Housed
      <4> QED BY <4>2, <4>3, <1>StaysHoused, Zenon
    <3> QED BY <3>1, <3>2, Zenon
  <2>10. ASSUME NEW v \in Wqe PROVE OwingAt(v)'
    <3>1. CASE v = n
      BY <3>1, <2>1, <2>4, <2>5, <2>6, Zenon DEF OwingAt
    <3>2. CASE v # n
      <4>1. SameOwed(v) /\ OwingAt(v)
        BY <3>2, <2>1, <2>5, <2>6, Zenon DEF SameOwed, HouseInv, Owing
      <4> QED BY <4>1, <1>StaysOwed, Zenon
    <3> QED BY <3>1, <3>2, Zenon
  <2> QED BY <2>9, <2>10, Zenon DEF Housed, Owing
\* A rung batch is ready.
<1>DoorbellHoused.
    ASSUME HouseInv, NEW t \in Time, NEW d \in [Wqe -> AdmitDelays],
           RingDoorbell(d, t)
    PROVE  Housed' /\ Owing'
  <2> USE <1>DoorbellHoused
  <2> DEFINE admitted(w) == Max({t, cursors.scheduler}) + d[w]
  <2>1. /\ state' = [w \in Wqe |->
                IF w \in Items(unpublished) THEN "Doorbelled" ELSE state[w]]
        /\ wqes' = [w \in Wqe |-> IF w \in Items(unpublished)
                THEN [wqes[w] EXCEPT !.admitted = admitted(w)] ELSE wqes[w]]
        /\ ready' = ready \o unpublished /\ unpublished' = <<>>
        /\ UNCHANGED <<posted, inflight, outcomes, pending, cq, next, reclaimed,
                       lost>>
    BY Zenon DEF RingDoorbell, Items
  <2> HIDE DEF admitted
  <2>2. /\ unpublished \in Seq(Wqe) /\ ready \in Seq(Wqe)
        /\ wqes \in [Wqe -> WqeRecord]
    BY Zenon DEF HouseInv, StatesInv, QueueInv, Shape
  <2>3. \A w \in Items(unpublished) : state[w] = "Posted"
    BY DEF HouseInv, StatesInv, States, Owned, Items
  <2>4. Items(ready') = Items(ready) \cup Items(unpublished)
    BY <2>1, <2>2, <1>ItemsConcat
  <2>5. PendingWqes' = PendingWqes /\ RingWqes' = RingWqes
    BY <2>1, Zenon DEF PendingWqes, RingWqes
  <2>6. \A v \in Wqe : /\ wqes'[v].status = wqes[v].status
                       /\ wqes'[v].signaled = wqes[v].signaled
    <3> SUFFICES ASSUME NEW v \in Wqe
                 PROVE  /\ wqes'[v].status = wqes[v].status
                        /\ wqes'[v].signaled = wqes[v].signaled
      OBVIOUS
    <3>1. wqes'[v] = wqes[v] \/ wqes'[v] = [wqes[v] EXCEPT !.admitted = admitted(v)]
      BY <2>1, Zenon
    <3> QED BY <2>2, <3>1, Zenon DEF WqeRecord
  <2>7. ASSUME NEW v \in Wqe PROVE HousedAt(v)' /\ OwingAt(v)'
    <3>0. HousedAt(v) /\ OwingAt(v)
      BY Zenon DEF HouseInv, Housed, Owing
    <3>1. CASE v \in Items(unpublished)
      <4>1. state[v] = "Posted" /\ state'[v] = "Doorbelled" /\ v \in Items(ready')
        BY <3>1, <2>1, <2>3, <2>4, Zenon
      <4>2. HousedAt(v)'
        BY <3>0, <4>1, <2>1, <2>5, Zenon DEF HousedAt
      <4>3. OwingAt(v)'
        BY <3>0, <4>1, <2>1, <2>6, Zenon DEF OwingAt
      <4> QED BY <4>2, <4>3, Zenon
    <3>2. CASE v \notin Items(unpublished)
      <4>1. state'[v] = state[v]
        BY <3>2, <2>1, Zenon
      <4>2. SameHome(v)
        BY <3>2, <4>1, <2>1, <2>4, <2>5, Zenon DEF SameHome
      <4>3. SameOwed(v)
        BY <4>1, <2>1, <2>6, Zenon DEF SameOwed
      <4> QED BY <3>0, <4>2, <4>3, <1>StaysHoused, <1>StaysOwed, Zenon
    <3> QED BY <3>1, <3>2, Zenon
  <2> QED BY <2>7, Zenon DEF Housed, Owing
\* A retired request is owed an entry, or nothing.
<1>RetireHoused.
    ASSUME HouseInv, NEW d \in CqeDelays, RetireOne(d)
    PROVE  Housed' /\ Owing'
  <2> USE <1>RetireHoused
  <2>0. PICK w : w = next.retire
    OBVIOUS
  <2> DEFINE needs == NeedsCqe(wqes[w].signaled, outcomes[w])
             x == IF needs THEN "CompletionPending" ELSE "RetiredUnsignaled"
             entry == [seq |-> next.cqe, wqe |-> w, visible_at |->
                    CqeVisibleAt(Max({wqes[w].outcome, cursors.retirement}), d)]
  <2>1. /\ outcomes[w] # "none"
        /\ state' = [state EXCEPT ![w] = x]
        /\ wqes' = [wqes EXCEPT ![w].status = outcomes[w]]
        /\ outcomes' = [outcomes EXCEPT ![w] = "none"]
        /\ pending' = IF needs THEN pending \cup {entry} ELSE pending
        /\ UNCHANGED <<unpublished, ready, inflight, posted, cq, reclaimed, lost>>
    BY <2>0, Zenon DEF RetireOne, Retirable
  <2>2. w \in Wqe /\ w \in Nat /\ next'.retire = w + 1 /\ entry.wqe = w
    BY <2>0, RetireShape, Numbers, Zenon DEF HouseInv, StatesInv, QueueInv
  <2>3. /\ state \in [Wqe -> WqeState \cup {"none"}]
        /\ wqes \in [Wqe -> WqeRecord]
        /\ outcomes \in [Wqe -> Status \cup {"none"}]
    BY Zenon DEF HouseInv, StatesInv, QueueInv, Shape
  <2>4. /\ state[w] = "AwaitingOrderedRetirement" /\ HousedAt(w)
    BY <2>1, <2>2, Zenon DEF HouseInv, StatesInv, States, Owned, Housed
  <2>5. PendingWqes' = IF needs THEN PendingWqes \cup {w} ELSE PendingWqes
    <3> HIDE DEF needs, entry
    <3> QED BY <2>1, <2>2, Zenon DEF PendingWqes
  <2>6. RingWqes' = RingWqes
    BY <2>1, Zenon DEF RingWqes
  <2>7. /\ wqes'[w].status = outcomes[w]
        /\ wqes'[w].signaled = wqes[w].signaled
        /\ \A v \in Wqe : v # w => wqes'[v] = wqes[v]
    <3>1. wqes'[w] = [wqes[w] EXCEPT !.status = outcomes[w]]
      BY <2>1, <2>2, <2>3, Zenon
    <3>2. wqes[w] \in WqeRecord
      BY <2>2, <2>3, Zenon
    <3>3. wqes'[w].status = outcomes[w] /\ wqes'[w].signaled = wqes[w].signaled
      BY <3>1, <3>2, Zenon DEF WqeRecord
    <3> QED BY <2>1, <2>2, <2>3, <3>3, Zenon
  <2>8. /\ state'[w] = x /\ \A v \in Wqe : v # w => state'[v] = state[v]
        /\ \A v \in Wqe : v # w => outcomes'[v] = outcomes[v]
    <3> HIDE DEF x
    <3> QED BY <2>1, <2>2, <2>3, ZenonT(30)
  <2>9. \A v \in Wqe : v # w => (v < next.retire <=> v < next'.retire)
    BY <2>0, <2>2 DEF Wqe
  <2>10. needs <=> NeedsCqe(wqes'[w].signaled, wqes'[w].status)
    BY <2>7, Zenon
  <2> HIDE DEF needs, entry
  <2>11. ASSUME NEW v \in Wqe PROVE HousedAt(v)' /\ OwingAt(v)'
    <3>0. HousedAt(v) /\ OwingAt(v)
      BY Zenon DEF HouseInv, Housed, Owing
    <3>1. CASE v = w
      <4>1. HousedAt(w)'
        <5>1. CASE needs
          BY <5>1, <2>1, <2>4, <2>5, <2>6, <2>8 DEF HousedAt
        <5>2. CASE ~needs
          BY <5>2, <2>1, <2>4, <2>5, <2>6, <2>8 DEF HousedAt
        <5> QED BY <5>1, <5>2, Zenon
      <4>2. w < next'.retire /\ wqes'[w].status # "none"
        BY <2>1, <2>2, <2>7
      <4>3. OwingAt(w)'
        <5>1. CASE needs
          BY <5>1, <4>2, <2>8, <2>10, Zenon DEF OwingAt
        <5>2. CASE ~needs
          BY <5>2, <4>2, <2>8, <2>10, Zenon DEF OwingAt
        <5> QED BY <5>1, <5>2, Zenon
      <4> QED BY <3>1, <4>1, <4>3, Zenon
    <3>2. CASE v # w
      <4>1. v \in PendingWqes <=> v \in PendingWqes'
        BY <3>2, <2>5, Zenon
      <4>2. SameHome(v)
        BY <3>2, <4>1, <2>1, <2>6, <2>8, Zenon DEF SameHome
      <4>3. SameOwed(v)
        BY <3>2, <2>7, <2>8, <2>9, Zenon DEF SameOwed
      <4> QED BY <3>0, <4>2, <4>3, <1>StaysHoused, <1>StaysOwed, Zenon
    <3> QED BY <3>1, <3>2, Zenon
  <2> QED BY <2>11, Zenon DEF Housed, Owing
\* A request whose outcome arrives waits for its turn.
<1>DecideHoused.
    ASSUME HouseInv, NEW w \in Wqe, NEW st \in Status, NEW t,
           Decide(w, st, t), state[w] \in {"Doorbelled", "InFlight"},
           \A v \in Wqe : v # w /\ v \in Items(ready) => v \in Items(ready'),
           \A v \in Wqe : v # w /\ v \in inflight => v \in inflight',
           UNCHANGED <<unpublished, posted, next, pending, cq, reclaimed, lost>>
    PROVE  Housed' /\ Owing'
  <2> USE <1>DecideHoused
  <2>1. /\ outcomes' = [outcomes EXCEPT ![w] = st]
        /\ state' = [state EXCEPT ![w] = "AwaitingOrderedRetirement"]
        /\ wqes' = [wqes EXCEPT ![w].outcome = t]
    BY Zenon DEF Decide
  <2>2. /\ state \in [Wqe -> WqeState \cup {"none"}]
        /\ wqes \in [Wqe -> WqeRecord]
        /\ outcomes \in [Wqe -> Status \cup {"none"}]
    BY Zenon DEF HouseInv, StatesInv, QueueInv, Shape
  <2>3. /\ state'[w] = "AwaitingOrderedRetirement" /\ outcomes'[w] # "none"
        /\ \A v \in Wqe : v # w => state'[v] = state[v]
        /\ \A v \in Wqe : v # w => outcomes'[v] = outcomes[v]
    BY <2>1, <2>2, Zenon DEF Status
  <2>4. \A v \in Wqe : /\ wqes'[v].status = wqes[v].status
                       /\ wqes'[v].signaled = wqes[v].signaled
    <3>1. \A v \in Wqe : v # w => wqes'[v] = wqes[v]
      BY <2>1, <2>2, Zenon
    <3>2. wqes'[w] = [wqes[w] EXCEPT !.outcome = t] /\ wqes[w] \in WqeRecord
      BY <2>1, <2>2, Zenon
    <3>3. /\ wqes'[w].status = wqes[w].status
          /\ wqes'[w].signaled = wqes[w].signaled
      BY <3>2, Zenon DEF WqeRecord
    <3> QED BY <3>1, <3>3, Zenon
  <2>5. PendingWqes' = PendingWqes /\ RingWqes' = RingWqes
    BY Zenon DEF PendingWqes, RingWqes
  <2>6. ASSUME NEW v \in Wqe PROVE HousedAt(v)' /\ OwingAt(v)'
    <3>0. HousedAt(v) /\ OwingAt(v)
      BY Zenon DEF HouseInv, Housed, Owing
    <3>1. CASE v = w
      <4>1. HousedAt(w)'
        BY <3>0, <3>1, <2>3, <2>5, Zenon DEF HousedAt
      <4>2. OwingAt(w)'
        BY <3>0, <3>1, <2>3, <2>4, Zenon DEF OwingAt
      <4> QED BY <3>1, <4>1, <4>2, Zenon
    <3>2. CASE v # w
      <4>1. SameHome(v)
        BY <3>2, <2>3, <2>5, Zenon DEF SameHome
      <4>2. SameOwed(v)
        BY <3>2, <2>3, <2>4, Zenon DEF SameOwed
      <4> QED BY <3>0, <4>1, <4>2, <1>StaysHoused, <1>StaysOwed, Zenon
    <3> QED BY <3>1, <3>2, Zenon
  <2> QED BY <2>6, Zenon DEF Housed, Owing
\* An accepted request is in flight.
<1>AcceptHoused.
    ASSUME HouseInv, SubmitAccepted
    PROVE  Housed' /\ Owing'
  <2> USE <1>AcceptHoused
  <2>0. PICK w : w = Head(ready)
    OBVIOUS
  <2>1. /\ ready # <<>> /\ ready' = Tail(ready)
        /\ state' = [state EXCEPT ![w] = "InFlight"]
        /\ inflight' = inflight \cup {w}
        /\ UNCHANGED <<wqes, unpublished, outcomes, posted, next, pending, cq,
                       reclaimed, lost>>
    BY <2>0, Zenon DEF SubmitAccepted, Submitting, HeadDue
  <2>2. w \in Wqe /\ state[w] = "Doorbelled"
    BY <2>0, <2>1, TakeHead, Zenon DEF HouseInv, StatesInv
  <2>3. /\ state \in [Wqe -> WqeState \cup {"none"}] /\ ready \in Seq(Wqe)
    BY Zenon DEF HouseInv, StatesInv, QueueInv, Shape
  <2>4. Items(ready) = {w} \cup Items(ready')
    BY <2>0, <2>1, <2>3, ItemsTail, Zenon
  <2>5. state'[w] = "InFlight" /\ \A v \in Wqe : v # w => state'[v] = state[v]
    BY <2>1, <2>2, <2>3, Zenon
  <2>6. PendingWqes' = PendingWqes /\ RingWqes' = RingWqes
    BY <2>1, Zenon DEF PendingWqes, RingWqes
  <2>7. ASSUME NEW v \in Wqe PROVE HousedAt(v)' /\ OwingAt(v)'
    <3>0. HousedAt(v) /\ OwingAt(v)
      BY Zenon DEF HouseInv, Housed, Owing
    <3>1. CASE v = w
      <4>1. HousedAt(w)'
        BY <3>0, <3>1, <2>1, <2>2, <2>5, <2>6, Zenon DEF HousedAt
      <4>2. OwingAt(w)'
        BY <3>0, <3>1, <2>1, <2>5, Zenon DEF OwingAt
      <4> QED BY <3>1, <4>1, <4>2, Zenon
    <3>2. CASE v # w
      <4>1. SameHome(v)
        BY <3>2, <2>1, <2>4, <2>5, <2>6, Zenon DEF SameHome
      <4>2. SameOwed(v)
        BY <3>2, <2>1, <2>5, Zenon DEF SameOwed
      <4> QED BY <3>0, <4>1, <4>2, <1>StaysHoused, <1>StaysOwed, Zenon
    <3> QED BY <3>1, <3>2, Zenon
  <2> QED BY <2>7, Zenon DEF Housed, Owing
\* A published entry is in the ring; a lost one is the error.
<1>PublishHoused.
    ASSUME HouseInv, PublishOne \/ Overrun, ~fatal
    PROVE  Housed' /\ Owing'
  <2> USE <1>PublishHoused
  <2>0. PICK c : c = FirstCqe
    OBVIOUS
  <2>1. /\ HasDue /\ pending' = pending \ {c}
        /\ UNCHANGED <<wqes, unpublished, ready, inflight, outcomes, posted,
                       next, occupied, reclaimed, cursors>>
    BY <2>0, Zenon DEF PublishOne, Overrun
  <2>2. PICK w : w = c.wqe
    OBVIOUS
  <2>3. /\ c \in pending /\ w \in Wqe /\ w \in Nat
        /\ \A e \in pending' : e \in pending /\ w < e.wqe
        /\ \A e \in pending : e.wqe \in Nat
    <3>1. /\ c \in PendingRecord /\ c \in pending
          /\ \A e \in pending' : e \in pending /\ c.wqe < e.wqe
      BY <2>0, <2>1, TakeFirst, Zenon DEF HouseInv, StatesInv, QueueInv
    <3> QED BY <2>2, <3>1, Numbers, Zenon
        DEF PendingRecord, Wqe, HouseInv, StatesInv, QueueInv
  <2>4. PendingWqes' = PendingWqes \ {w}
    <3>1. \A e \in pending' : e.wqe # w /\ e \in pending
      BY <2>3
    <3>2. \A e \in pending : e.wqe # w => e \in pending'
      BY <2>1, <2>2, Zenon
    <3> QED BY <3>1, <3>2, Zenon DEF PendingWqes
  <2>5. /\ w \in PendingWqes /\ state[w] = "CompletionPending" /\ HousedAt(w)
        /\ OwingAt(w)
    <3>1. w \in PendingWqes
      BY <2>2, <2>3, Zenon DEF PendingWqes
    <3> QED BY <2>3, <3>1, Zenon DEF HouseInv, Housed, HousedAt, Owing
  <2>6. /\ lost = 0 /\ state \in [Wqe -> WqeState \cup {"none"}]
        /\ cq \in Seq(CqeRecord)
    BY Zenon DEF fatal, HouseInv, StatesInv, QueueInv, Shape
  <2>7. \/ /\ state'[w] = "CqeVisible" /\ RingWqes' = RingWqes \cup {w}
           /\ lost' = lost
        \/ state'[w] = "Error" /\ RingWqes' = RingWqes /\ lost' = w
    <3>1. CASE PublishOne
      <4>1. PICK entry : /\ entry = [seq |-> c.seq, wqe |-> c.wqe, visible_at |->
                               c.visible_at, slot |-> CqIndex % CqDepth]
                         /\ cq' = Append(cq, entry) /\ lost' = lost
                         /\ state' = [state EXCEPT ![w] = "CqeVisible"]
        BY <2>0, <2>2, <3>1, Zenon DEF PublishOne
      <4>2. entry.wqe = w
        BY <2>2, <4>1, ZenonT(30)
      <4>3. /\ Len(cq') = Len(cq) + 1 /\ cq'[Len(cq) + 1] = entry
            /\ \A i \in 1 .. Len(cq) : cq'[i] = cq[i]
            /\ Len(cq) \in Nat
        <5> HIDE DEF CqeRecord
        <5> QED BY <2>6, <4>1
      <4>4. \A i \in 1 .. Len(cq') : i \in 1 .. Len(cq) \/ i = Len(cq) + 1
        BY <4>3
      <4>5. /\ Len(cq) + 1 \in 1 .. Len(cq')
            /\ \A i \in 1 .. Len(cq) : i \in 1 .. Len(cq')
        BY <4>3
      <4>6. RingWqes' = RingWqes \cup {w}
        BY <4>2, <4>3, <4>4, <4>5, Zenon DEF RingWqes
      <4> QED BY <2>3, <2>6, <4>1, <4>6, Zenon
    <3>2. CASE Overrun
      BY <2>0, <2>2, <2>3, <2>6, <3>2, Zenon DEF Overrun, RingWqes
    <3> QED BY <3>1, <3>2, Zenon
  <2>8. \A v \in Wqe : v # w => state'[v] = state[v]
    <3>1. \/ state' = [state EXCEPT ![w] = "CqeVisible"]
          \/ state' = [state EXCEPT ![w] = "Error"]
      BY <2>0, <2>2, Zenon DEF PublishOne, Overrun
    <3> QED BY <2>3, <2>6, <3>1, Zenon
  <2>9. ASSUME NEW v \in Wqe PROVE HousedAt(v)' /\ OwingAt(v)'
    <3>0. HousedAt(v) /\ OwingAt(v) /\ v # 0
      BY DEF HouseInv, Housed, Owing, Wqe
    <3>1. CASE v = w
      <4>1. HousedAt(w)'
        <5>1. w \notin RingWqes /\ w \notin PendingWqes' /\ ~(w =< reclaimed)
          BY <2>4, <2>5, Zenon DEF HousedAt
        <5>2. CASE state'[w] = "CqeVisible" /\ RingWqes' = RingWqes \cup {w}
          BY <5>1, <5>2, <2>1, Zenon DEF HousedAt
        <5>3. CASE state'[w] = "Error" /\ RingWqes' = RingWqes /\ lost' = w
          BY <5>1, <5>3, <2>1, Zenon DEF HousedAt
        <5> QED BY <2>7, <5>2, <5>3, Zenon
      <4>2. OwingAt(w)'
        BY <2>1, <2>5, <2>7, Zenon DEF OwingAt
      <4> QED BY <3>1, <4>1, <4>2, Zenon
    <3>2. CASE v # w
      <4>1. (v \in PendingWqes <=> v \in PendingWqes')
            /\ (v \in RingWqes <=> v \in RingWqes') /\ v # lost
        BY <3>0, <3>2, <2>4, <2>6, <2>7, Zenon
      <4>2. SameHome(v)
        BY <3>2, <4>1, <2>1, <2>8, Zenon DEF SameHome
      <4>3. SameOwed(v)
        BY <3>2, <2>1, <2>8, Zenon DEF SameOwed
      <4> QED BY <3>0, <4>2, <4>3, <1>StaysHoused, <1>StaysOwed, Zenon
    <3> QED BY <3>1, <3>2, Zenon
  <2> QED BY <2>9, Zenon DEF Housed, Owing
\* A polled request is completed, those before it reclaimed.
<1>ConsumeHoused.
    ASSUME HouseInv, ConsumeOne
    PROVE  Housed' /\ Owing'
  <2> USE <1>ConsumeHoused
  <2>0. PICK w : w = Head(cq).wqe
    OBVIOUS
  <2>1. /\ state' = [v \in Wqe |->
                IF v = w THEN "Completed"
                ELSE IF v \in Freed(w) /\ state[v] # "Completed"
                THEN "Reclaimed" ELSE state[v]]
        /\ reclaimed' = w
        /\ UNCHANGED <<wqes, unpublished, ready, inflight, outcomes, posted,
                       next, pending, lost>>
    BY <2>0, Zenon DEF ConsumeOne
  <2>2. /\ w \in Wqe /\ w \in Nat /\ reclaimed < w /\ reclaimed \in Nat
        /\ RingWqes' = RingWqes \ {w} /\ w \in RingWqes
        /\ \A v \in RingWqes : v \in Nat /\ w =< v
        /\ \A v \in PendingWqes : v \in Nat /\ w < v
        /\ \A v \in Wqe : reclaimed < v /\ v < w => state[v] = "RetiredUnsignaled"
    BY <2>0, HeadOfRing, Zenon
  <2>3. PendingWqes' = PendingWqes
    BY <2>1, Zenon DEF PendingWqes
  <2>4. ASSUME NEW v \in Wqe PROVE HousedAt(v)' /\ OwingAt(v)'
    <3>0. HousedAt(v) /\ OwingAt(v) /\ v \in Nat
      BY DEF HouseInv, Housed, Owing, Wqe
    <3>1. CASE v = w
      <4>1. /\ state'[v] = "Completed" /\ state[v] = "CqeVisible"
            /\ v \notin RingWqes' /\ v \notin PendingWqes' /\ v =< reclaimed'
        BY <3>0, <3>1, <2>1, <2>2, <2>3, Zenon DEF HousedAt
      <4>2. HousedAt(v)'
        BY <4>1, Zenon DEF HousedAt
      <4>3. OwingAt(v)'
        BY <3>0, <4>1, <2>1, Zenon DEF OwingAt
      <4> QED BY <4>2, <4>3, Zenon
    <3>2. CASE reclaimed < v /\ v < w
      <4>1. /\ state[v] = "RetiredUnsignaled" /\ v \in Freed(w)
            /\ v \notin RingWqes /\ v \notin PendingWqes
        BY <3>0, <3>2, <2>2 DEF Freed
      <4>2. state'[v] = "Reclaimed" /\ v =< reclaimed' /\ v \notin RingWqes'
        BY <3>0, <3>2, <4>1, <2>1, <2>2
      <4>3. HousedAt(v)'
        BY <4>1, <4>2, <2>3, Zenon DEF HousedAt
      <4>4. OwingAt(v)'
        BY <3>0, <4>1, <4>2, <2>1, Zenon DEF OwingAt
      <4> QED BY <4>3, <4>4, Zenon
    <3>3. CASE v =< reclaimed \/ w < v
      <4>1. state'[v] = state[v] /\ (v =< reclaimed <=> v =< reclaimed') /\ v # w
        BY <3>0, <3>3, <2>1, <2>2 DEF Freed
      <4>2. SameHome(v)
        BY <4>1, <2>1, <2>2, <2>3, Zenon DEF SameHome
      <4>3. SameOwed(v)
        BY <4>1, <2>1, Zenon DEF SameOwed
      <4> QED BY <3>0, <4>2, <4>3, <1>StaysHoused, <1>StaysOwed, Zenon
    <3> QED BY <3>0, <3>1, <3>2, <3>3, <2>2
  <2> QED BY <2>4, Zenon DEF Housed, Owing
\* A step that touches no request and no container.
<1>HousedUnchanged.
    ASSUME HouseInv,
           UNCHANGED <<state, unpublished, ready, inflight, outcomes, posted,
                       next, pending, cq, reclaimed, lost>>,
           \A v \in Wqe : /\ wqes'[v].status = wqes[v].status
                          /\ wqes'[v].signaled = wqes[v].signaled
    PROVE  Housed' /\ Owing'
  <2> USE <1>HousedUnchanged
  <2>1. PendingWqes' = PendingWqes /\ RingWqes' = RingWqes
    BY Zenon DEF PendingWqes, RingWqes
  <2>2. ASSUME NEW v \in Wqe PROVE HousedAt(v)' /\ OwingAt(v)'
    <3>0. HousedAt(v) /\ OwingAt(v)
      BY Zenon DEF HouseInv, Housed, Owing
    <3>1. SameHome(v)
      BY <2>1, Zenon DEF SameHome
    <3>2. SameOwed(v)
      BY Zenon DEF SameOwed
    <3> QED BY <3>0, <3>1, <3>2, <1>StaysHoused, <1>StaysOwed, Zenon
  <2> QED BY <2>2, Zenon DEF Housed, Owing
<1> SUFFICES ASSUME HouseInv, [Next]_vars PROVE HouseInv'
  OBVIOUS
<1>0. StatesInv'
  BY StatesSteps, Zenon DEF HouseInv
<1>00. SUFFICES Housed' /\ Owing'
  BY <1>0, Zenon DEF HouseInv
<1>1. CASE Post
  BY <1>1, <1>PostHoused, Zenon DEF Post
<1>2. CASE Doorbell
  BY <1>2, <1>DoorbellHoused, Zenon DEF Doorbell
<1>3. CASE Retire
  BY <1>3, <1>RetireHoused, Zenon DEF Retire
<1>4. CASE ExtentEvent
  <2>1. PICK t \in Time, w \in Wqe, s \in Status : OnFlowExtentEvent(w, s, t)
    BY <1>4, Zenon DEF ExtentEvent
  <2>2. /\ w \in inflight /\ inflight' = inflight \ {w} /\ Decide(w, s, t)
        /\ UNCHANGED <<ready, unpublished, posted, next, pending, cq,
                       reclaimed, lost>>
    BY <2>1, Zenon DEF OnFlowExtentEvent
  <2>3. state[w] = "InFlight"
    BY <2>2, Zenon DEF HouseInv, StatesInv, States, Owned
  <2>4. /\ \A v \in Wqe : v # w /\ v \in Items(ready) => v \in Items(ready')
        /\ \A v \in Wqe : v # w /\ v \in inflight => v \in inflight'
    BY <2>2, Zenon
  <2> QED BY <2>2, <2>3, <2>4, <1>DecideHoused, Zenon
<1>5. CASE SubmitRejected
  <2>1. /\ ready # <<>> /\ ready' = Tail(ready)
        /\ Decide(Head(ready), "NetworkRejected", now)
        /\ UNCHANGED <<inflight, unpublished, posted, next, pending, cq,
                       reclaimed, lost>>
    BY <1>5, Zenon DEF SubmitRejected, Submitting, HeadDue
  <2>2. PICK w : w = Head(ready)
    OBVIOUS
  <2>3. w \in Wqe /\ state[w] = "Doorbelled" /\ "NetworkRejected" \in Status
    BY <2>1, <2>2, TakeHead, Zenon DEF HouseInv, StatesInv, Status
  <2>4. Items(ready) = {w} \cup Items(ready')
    <3>1. ready \in Seq(Wqe)
      BY Zenon DEF HouseInv, StatesInv, QueueInv, Shape
    <3> QED BY <2>1, <2>2, <3>1, ItemsTail, Zenon
  <2>5. /\ \A v \in Wqe : v # w /\ v \in Items(ready) => v \in Items(ready')
        /\ \A v \in Wqe : v # w /\ v \in inflight => v \in inflight'
    BY <2>1, <2>4, Zenon
  <2>6. Decide(w, "NetworkRejected", now)
    BY <2>1, <2>2, Zenon
  <2> QED BY <2>1, <2>3, <2>5, <2>6, <1>DecideHoused, Zenon
<1>6. CASE SubmitAccepted
  BY <1>6, <1>AcceptHoused, Zenon
<1>7. CASE PublishOne \/ Overrun
  <2>1. ~fatal
    BY <1>7, Zenon DEF PublishOne, Overrun, Publishing, HouseInv, StatesInv,
                QueueInv, LoopOK
  <2> QED BY <1>7, <2>1, <1>PublishHoused, Zenon
<1>8. CASE ConsumeOne
  BY <1>8, <1>ConsumeHoused, Zenon
<1>9. CASE EcnEvent
  <2>1. PICK t \in Time, a \in Attempt : OnEcnMarked(a, t)
    BY <1>9, Zenon DEF EcnEvent
  <2>2. PICK w : w = a[1] /\ w \in Wqe
    BY <2>1, Zenon DEF Attempt
  <2>3. /\ wqes' = [wqes EXCEPT ![w].ecn_marked = TRUE]
        /\ UNCHANGED <<state, unpublished, ready, inflight, outcomes, posted,
                       next, pending, cq, reclaimed, lost>>
    BY <2>1, <2>2, Zenon DEF OnEcnMarked
  <2>4. wqes \in [Wqe -> WqeRecord]
    BY Zenon DEF HouseInv, StatesInv, QueueInv, Shape
  <2>5. wqes'[w] = [wqes[w] EXCEPT !.ecn_marked = TRUE] /\ wqes[w] \in WqeRecord
        /\ \A v \in Wqe : v # w => wqes'[v] = wqes[v]
    BY <2>2, <2>3, <2>4, Zenon
  <2>6. /\ wqes'[w].status = wqes[w].status
        /\ wqes'[w].signaled = wqes[w].signaled
    BY <2>5, Zenon DEF WqeRecord
  <2> QED BY <2>3, <2>5, <2>6, <1>HousedUnchanged, Zenon
<1>10. CASE \/ Ignored \/ AttemptEvent \/ Progress \/ PublishDone
            \/ Busy \/ SubmitDone \/ Poll \/ ConsumeDone \/ UNCHANGED vars
  <2>1. UNCHANGED <<wqes, state, unpublished, ready, inflight, outcomes,
                    posted, next, pending, cq, reclaimed, lost>>
    <3>1. CASE Ignored
      BY <3>1, Zenon
         DEF Ignored, PostRefused, RingNothing, OnControlEvent, queueVars
    <3>2. CASE AttemptEvent
      BY <3>2, Zenon DEF AttemptEvent, OnPacketAttemptEvent
    <3>3. CASE Progress \/ PublishDone \/ Busy
      BY <3>3, Zenon DEF Progress, ProgressBegin, PublishDone, Busy, SubmitBusy,
                  queueVars
    <3>4. CASE SubmitDone \/ Poll \/ ConsumeDone \/ UNCHANGED vars
      BY <3>4, Zenon DEF SubmitDone, Poll, PollBegin, ConsumeDone, vars, queueVars
    <3> QED BY <1>10, <3>1, <3>2, <3>3, <3>4, Zenon
  <2> QED BY <2>1, <1>HousedUnchanged, Zenon
<1> QED BY <1>1, <1>2, <1>3, <1>4, <1>5, <1>6, <1>7, <1>8, <1>9, <1>10, Zenon
           DEF Next

OwnerInv == HouseInv /\ Lined /\ Reporting

\* Every step keeps every request in its container.
LEMMA OwnerSteps == OwnerInv /\ [Next]_vars => OwnerInv'
\* The queues stay in send-queue order: a post is the newest request, a
\* doorbell puts all unpublished ones behind the ready ones.
<1>PostLined.
    ASSUME HouseInv, Lined, NEW t \in Time, NEW s \in BOOLEAN, PostSend(s, t)
    PROVE  Lined'
  <2> USE <1>PostLined
  <2>0. PICK n : n = posted + 1
    OBVIOUS
  <2>1. unpublished' = Append(unpublished, n) /\ ready' = ready
    BY <2>0, Zenon DEF PostSend
  <2>2. n \in Wqe /\ posted \in Nat
    BY <2>0, PostShape, Numbers, Zenon DEF HouseInv, StatesInv, QueueInv
  <2>3. unpublished \in Seq(Wqe) /\ ready \in Seq(Wqe)
    BY Zenon DEF HouseInv, StatesInv, QueueInv, Shape
  <2>4. \A w \in Wqe : state[w] # "none" => w < n
    BY <2>0, <2>2 DEF HouseInv, StatesInv, States, Owned, Wqe
  <2>5. /\ \A i \in 1 .. Len(unpublished) : unpublished[i] < n
        /\ \A i \in 1 .. Len(ready) : ready[i] < n
    <3>1. /\ \A i \in 1 .. Len(unpublished) : unpublished[i] \in Wqe
          /\ \A i \in 1 .. Len(ready) : ready[i] \in Wqe
      BY <2>3
    <3>2. /\ \A i \in 1 .. Len(unpublished) : state[unpublished[i]] = "Posted"
          /\ \A i \in 1 .. Len(ready) : state[ready[i]] = "Doorbelled"
      BY Zenon DEF HouseInv, StatesInv, States, Owned
    <3> QED BY <2>4, <3>1, <3>2, Zenon
  <2>6. /\ Len(unpublished') = Len(unpublished) + 1 /\ Len(unpublished) \in Nat
        /\ \A i \in 1 .. Len(unpublished) : unpublished'[i] = unpublished[i]
        /\ unpublished'[Len(unpublished) + 1] = n
    BY <2>1, <2>2, <2>3
  <2>7. \A i \in 1 .. Len(unpublished') :
            i \in 1 .. Len(unpublished) \/ i = Len(unpublished) + 1
    BY <2>6
  <2>8. Increasing(unpublished')
    <3> SUFFICES ASSUME NEW i \in 1 .. Len(unpublished'),
                        NEW j \in 1 .. Len(unpublished'), i < j
                 PROVE  unpublished'[i] < unpublished'[j]
      BY Zenon DEF Increasing
    <3>1. i \in 1 .. Len(unpublished)
      BY <2>6
    <3>2. CASE j \in 1 .. Len(unpublished)
      BY <3>1, <3>2, <2>6, Zenon DEF Lined, Increasing
    <3>3. CASE j = Len(unpublished) + 1
      BY <3>1, <3>3, <2>5, <2>6, Zenon
    <3> QED BY <2>7, <3>2, <3>3, Zenon
  <2>9. \A i \in 1 .. Len(ready), j \in 1 .. Len(unpublished') :
            ready[i] < unpublished'[j]
    <3> SUFFICES ASSUME NEW i \in 1 .. Len(ready),
                        NEW j \in 1 .. Len(unpublished')
                 PROVE  ready[i] < unpublished'[j]
      OBVIOUS
    <3>1. CASE j \in 1 .. Len(unpublished)
      BY <3>1, <2>6, Zenon DEF Lined
    <3>2. CASE j = Len(unpublished) + 1
      BY <3>2, <2>5, <2>6, Zenon
    <3> QED BY <2>7, <3>1, <3>2, Zenon
  <2> QED BY <2>1, <2>8, <2>9, Zenon DEF Lined
\* A doorbell puts the unpublished requests behind the ready ones,
<1>DoorbellLined.
    ASSUME HouseInv, Lined, NEW t \in Time, NEW d \in [Wqe -> AdmitDelays],
           RingDoorbell(d, t)
    PROVE  Lined'
  <2> USE <1>DoorbellLined
  <2>1. ready' = ready \o unpublished /\ unpublished' = <<>>
    BY Zenon DEF RingDoorbell
  <2>2. unpublished \in Seq(Wqe) /\ ready \in Seq(Wqe)
    BY Zenon DEF HouseInv, StatesInv, QueueInv, Shape
  <2>3. /\ Len(ready') = Len(ready) + Len(unpublished)
        /\ Len(ready) \in Nat /\ Len(unpublished) \in Nat
        /\ \A i \in 1 .. Len(ready) : ready'[i] = ready[i]
    BY <2>1, <2>2
  <2>4. \A i \in 1 .. Len(ready') : i \notin 1 .. Len(ready) =>
            /\ i - Len(ready) \in 1 .. Len(unpublished)
            /\ ready'[i] = unpublished[i - Len(ready)]
    BY <2>1, <2>2, <2>3
  <2>5. Increasing(ready')
    <3> SUFFICES ASSUME NEW i \in 1 .. Len(ready'), NEW j \in 1 .. Len(ready'),
                        i < j
                 PROVE  ready'[i] < ready'[j]
      BY Zenon DEF Increasing
    <3>1. CASE j \in 1 .. Len(ready)
      <4>1. i \in 1 .. Len(ready)
        BY <3>1, <2>3
      <4> QED BY <3>1, <4>1, <2>3, Zenon DEF Lined, Increasing
    <3>2. CASE i \in 1 .. Len(ready) /\ j \notin 1 .. Len(ready)
      BY <3>2, <2>3, <2>4, Zenon DEF Lined
    <3>3. CASE i \notin 1 .. Len(ready) /\ j \notin 1 .. Len(ready)
      <4>1. i - Len(ready) < j - Len(ready)
        BY <2>3
      <4> QED BY <3>3, <4>1, <2>4, Zenon DEF Lined, Increasing
    <3> QED BY <3>1, <3>2, <3>3, Zenon
  <2>6. \A j \in 1 .. Len(unpublished') : FALSE
    BY <2>1
  <2> QED BY <2>5, <2>6, Zenon DEF Lined, Increasing
\* and a submission takes the first ready one.
<1>SubmitLined.
    ASSUME HouseInv, Lined, ready # <<>>, ready' = Tail(ready),
           unpublished' = unpublished
    PROVE  Lined'
  <2> USE <1>SubmitLined
  <2>1. ready \in Seq(Wqe)
    BY Zenon DEF HouseInv, StatesInv, QueueInv, Shape
  <2>2. /\ Len(ready') = Len(ready) - 1 /\ Len(ready) \in Nat
        /\ \A i \in 1 .. Len(ready') : ready'[i] = ready[i + 1]
    BY <2>1
  <2>3. \A i \in 1 .. Len(ready') : i \in Int /\ i + 1 \in 1 .. Len(ready)
    BY <2>2
  <2>4. Increasing(ready')
    <3> SUFFICES ASSUME NEW i \in 1 .. Len(ready'), NEW j \in 1 .. Len(ready'),
                        i < j
                 PROVE  ready'[i] < ready'[j]
      BY Zenon DEF Increasing
    <3>1. i + 1 < j + 1
      BY <2>3
    <3> QED BY <3>1, <2>2, <2>3, Zenon DEF Lined, Increasing
  <2>5. \A i \in 1 .. Len(ready'), j \in 1 .. Len(unpublished) :
            ready'[i] < unpublished[j]
    BY <2>2, <2>3, Zenon DEF Lined
  <2> QED BY <2>4, <2>5, Zenon DEF Lined
\* A request leaves the port with none of its packets reported.
<1>ExtentReporting.
    ASSUME Reporting, NEW t \in Time, NEW w \in Wqe, NEW st \in Status,
           OnFlowExtentEvent(w, st, t)
    PROVE  Reporting'
  <2> USE <1>ExtentReporting
  <2>1. /\ inflight' = inflight \ {w}
        /\ \A a \in Attempt : a[1] = w => attempts[a] \notin LiveStage
        /\ attempts' = [a \in Attempt |-> IF a[1] = w /\ attempts[a] = "completed"
                                          THEN "forgotten" ELSE attempts[a]]
    BY Zenon DEF OnFlowExtentEvent
  <2>2. attempts' \in [Attempt -> LiveStage
                            \cup {"unseen", "completed", "forgotten"}]
    BY <2>1, Zenon DEF Reporting
  <2>3. ASSUME NEW a \in Attempt, attempts'[a] \in LiveStage \cup {"completed"}
        PROVE  a[1] \in inflight'
    <3>1. attempts'[a] = IF a[1] = w /\ attempts[a] = "completed"
                         THEN "forgotten" ELSE attempts[a]
      BY <2>1, Zenon
    <3>2. attempts'[a] = attempts[a] /\ a[1] # w
      BY <2>1, <2>3, <3>1, Zenon DEF LiveStage
    <3> QED BY <2>1, <2>3, <3>2, Zenon DEF Reporting
  <2> QED BY <2>2, <2>3, Zenon DEF Reporting
\* A packet is reported of a request in flight.
<1>AttemptReporting.
    ASSUME Reporting, NEW t \in Time, NEW a \in Attempt,
           NEW st \in LiveStage \cup {"completed"}, OnPacketAttemptEvent(a, st, t)
    PROVE  Reporting'
  <2> USE <1>AttemptReporting
  <2>1. /\ a[1] \in inflight /\ inflight' = inflight
        /\ attempts' = [attempts EXCEPT ![a] = st]
    BY Zenon DEF OnPacketAttemptEvent
  <2>2. attempts' \in [Attempt -> LiveStage
                            \cup {"unseen", "completed", "forgotten"}]
    BY <2>1, Zenon DEF Reporting
  <2>3. ASSUME NEW b \in Attempt, attempts'[b] \in LiveStage \cup {"completed"}
        PROVE  b[1] \in inflight'
    <3>1. CASE b = a
      BY <2>1, <3>1, Zenon
    <3>2. CASE b # a
      <4>1. attempts'[b] = attempts[b]
        BY <2>1, <3>2, Zenon DEF Reporting
      <4> QED BY <2>1, <2>3, <4>1, Zenon DEF Reporting
    <3> QED BY <3>1, <3>2, Zenon
  <2> QED BY <2>2, <2>3, Zenon DEF Reporting
<1> SUFFICES ASSUME OwnerInv, [Next]_vars PROVE OwnerInv'
  OBVIOUS
<1>0. HouseInv' /\ HouseInv /\ Lined /\ Reporting
  BY HouseSteps, Zenon DEF OwnerInv
<1>1. CASE Post
  <2>1. PICK t \in Time, s \in BOOLEAN : PostSend(s, t)
    BY <1>1, Zenon DEF Post
  <2>2. UNCHANGED <<attempts, inflight>>
    BY <2>1, Zenon DEF PostSend
  <2> QED BY <1>0, <2>1, <2>2, <1>PostLined, Zenon DEF OwnerInv, Reporting
<1>2. CASE Doorbell
  <2>1. PICK t \in Time, d \in [Wqe -> AdmitDelays] : RingDoorbell(d, t)
    BY <1>2, Zenon DEF Doorbell
  <2>2. UNCHANGED <<attempts, inflight>>
    BY <2>1, Zenon DEF RingDoorbell
  <2> QED BY <1>0, <2>1, <2>2, <1>DoorbellLined, Zenon DEF OwnerInv, Reporting
<1>3. CASE ExtentEvent
  <2>1. PICK t \in Time, w \in Wqe, s \in Status : OnFlowExtentEvent(w, s, t)
    BY <1>3, Zenon DEF ExtentEvent
  <2>2. UNCHANGED <<ready, unpublished>>
    BY <2>1, Zenon DEF OnFlowExtentEvent
  <2> QED BY <1>0, <2>1, <2>2, <1>ExtentReporting, Zenon
             DEF OwnerInv, Lined, Increasing
<1>4. CASE AttemptEvent
  <2>1. PICK t \in Time, a \in Attempt, s \in LiveStage \cup {"completed"} :
          OnPacketAttemptEvent(a, s, t)
    BY <1>4, Zenon DEF AttemptEvent
  <2>2. UNCHANGED <<ready, unpublished>>
    BY <2>1, Zenon DEF OnPacketAttemptEvent
  <2> QED BY <1>0, <2>1, <2>2, <1>AttemptReporting, Zenon
             DEF OwnerInv, Lined, Increasing
<1>5. CASE SubmitAccepted \/ SubmitRejected
  <2>1. /\ ready # <<>> /\ ready' = Tail(ready) /\ unpublished' = unpublished
        /\ attempts' = attempts /\ inflight \subseteq inflight'
    BY <1>5, Zenon DEF SubmitAccepted, SubmitRejected, Submitting, HeadDue
  <2> QED BY <1>0, <2>1, <1>SubmitLined, Zenon DEF OwnerInv, Reporting
<1>6. CASE UNCHANGED <<unpublished, ready, attempts, inflight>>
  BY <1>0, <1>6, Zenon DEF OwnerInv, Lined, Increasing, Reporting
<1>7. CASE \/ Retire \/ EcnEvent \/ PublishOne \/ Overrun \/ ConsumeOne
  <2>1. UNCHANGED <<unpublished, ready, attempts, inflight>>
    BY <1>7, Zenon
       DEF Retire, RetireOne, EcnEvent, OnEcnMarked, PublishOne, Overrun,
                ConsumeOne
  <2> QED BY <1>6, <2>1, Zenon
<1>8. CASE \/ Ignored \/ Progress \/ PublishDone \/ Busy \/ SubmitDone \/ Poll
           \/ ConsumeDone \/ UNCHANGED vars
  <2>1. UNCHANGED <<unpublished, ready, attempts, inflight>>
    BY <1>8, Zenon DEF Ignored, PostRefused, RingNothing, OnControlEvent, Progress,
                ProgressBegin, PublishDone, Busy, SubmitBusy, SubmitDone,
                Poll, PollBegin, ConsumeDone, vars, queueVars
  <2> QED BY <1>6, <2>1, Zenon
<1> QED BY <1>1, <1>2, <1>3, <1>4, <1>5, <1>7, <1>8, Zenon DEF Next

\* The containers are empty at first.
LEMMA InitOwner == Init => OwnerInv
<1> SUFFICES ASSUME Init PROVE OwnerInv
  OBVIOUS
<1>1. PendingWqes = {} /\ RingWqes = {}
  BY DEF Init, PendingWqes, RingWqes
<1>2. Housed
  BY <1>1 DEF Init, Housed, HousedAt, Wqe
<1>3. Owing
  BY DEF Init, Owing, OwingAt, NoWqe, Wqe
<1>4. Lined /\ Reporting
  BY DEF Init, Lined, Increasing, Reporting, LiveStage
<1> QED BY <1>2, <1>3, <1>4, InitStates, Zenon DEF OwnerInv, HouseInv

\* Every request is always in its container.
LEMMA OwnerAlways == Spec => []OwnerInv
<1>1. Init => OwnerInv
  BY InitOwner, Zenon
<1>2. OwnerInv /\ [Next]_vars => OwnerInv'
  BY OwnerSteps, Zenon
<1> QED BY <1>1, <1>2, PTL DEF Spec

\* validateInvariants: at every moment each request is in the one container
\* its state names, the queues are in send-queue order, packet attempts
\* belong to requests in flight, and the occupied entries are those posted
\* and not reclaimed.
THEOREM ContainersConserve == Spec => []OwnerConservation
<1>1. OwnerInv => OwnerConservation
  <2> SUFFICES ASSUME OwnerInv PROVE OwnerConservation
    OBVIOUS
  <2>0. /\ Housed /\ Owned /\ Lined /\ Reporting /\ Shape /\ Order
    BY Zenon DEF OwnerInv, HouseInv, StatesInv, States, QueueInv
  <2>1. InState("Posted") = Items(unpublished)
    <3>1. \A w \in Items(unpublished) : w \in Wqe /\ state[w] = "Posted"
      BY <2>0 DEF Items, Owned, Shape
    <3>2. \A w \in Wqe : state[w] = "Posted" => w \in Items(unpublished)
      BY <2>0, Zenon DEF Housed, HousedAt
    <3> QED BY <3>1, <3>2, Zenon DEF InState
  <2>2. InState("Doorbelled") = Items(ready)
    <3>1. \A w \in Items(ready) : w \in Wqe /\ state[w] = "Doorbelled"
      BY <2>0 DEF Items, Owned, Shape
    <3>2. \A w \in Wqe : state[w] = "Doorbelled" => w \in Items(ready)
      BY <2>0, Zenon DEF Housed, HousedAt
    <3> QED BY <3>1, <3>2, Zenon DEF InState
  <2>3. InState("InFlight") = inflight
    <3>1. inflight \subseteq Wqe /\ \A w \in inflight : state[w] = "InFlight"
      BY <2>0, Zenon DEF Owned, Shape
    <3>2. \A w \in Wqe : state[w] = "InFlight" => w \in inflight
      BY <2>0, Zenon DEF Housed, HousedAt
    <3> QED BY <3>1, <3>2, Zenon DEF InState
  <2>4. InState("AwaitingOrderedRetirement") =
          {w \in Wqe : outcomes[w] # "none"}
    BY <2>0, Zenon DEF InState, Owned, Housed, HousedAt
  <2>5. InState("CompletionPending") = {c.wqe : c \in pending}
    <3>1. PendingWqes \subseteq Wqe
      BY <2>0 DEF PendingWqes, Shape, PendingRecord
    <3>2. \A w \in Wqe : state[w] = "CompletionPending" <=> w \in PendingWqes
      BY <2>0, Zenon DEF Housed, HousedAt
    <3>3. InState("CompletionPending") = PendingWqes
      BY <3>1, <3>2, Zenon DEF InState
    <3> QED BY <3>3, Zenon DEF PendingWqes
  <2>6. \A c, d \in pending : c.wqe = d.wqe => c = d
    <3> SUFFICES ASSUME NEW c \in pending, NEW d \in pending, c.wqe = d.wqe
                 PROVE  c = d
      OBVIOUS
    <3>1. /\ c.seq \in Nat /\ d.seq \in Nat /\ c.wqe \in Nat
      BY <2>0, Numbers, Zenon
    <3>2. /\ c.seq < d.seq => c.wqe < d.wqe
          /\ d.seq < c.seq => d.wqe < c.wqe
          /\ c.seq = d.seq => c = d
      BY <2>0, Zenon DEF Order, PendingOrder
    <3> QED BY <3>1, <3>2
  <2>7. /\ Len(cq) \in Nat /\ Len(CqWqes) = Len(cq)
        /\ \A i \in 1 .. Len(cq) : CqWqes[i] = cq[i].wqe
    <3>1. Len(cq) \in Nat
      BY <2>0, Numbers, Zenon
    <3> QED BY <3>1 DEF CqWqes
  <2>8. InState("CqeVisible") = Items(CqWqes)
    <3>1. Items(CqWqes) = RingWqes
      BY <2>7, Zenon DEF Items, RingWqes
    <3>2. RingWqes \subseteq Wqe
      BY <2>0, Numbers, Zenon DEF RingWqes, CqeRecord
    <3>3. \A w \in Wqe : state[w] = "CqeVisible" <=> w \in RingWqes
      BY <2>0, Zenon DEF Housed, HousedAt
    <3> QED BY <3>1, <3>2, <3>3, Zenon DEF InState
  <2>9. Increasing(CqWqes)
    <3> SUFFICES ASSUME NEW i \in 1 .. Len(cq), NEW j \in 1 .. Len(cq), i < j
                 PROVE  cq[i].wqe < cq[j].wqe
      BY <2>7, Zenon DEF Increasing
    <3>1. cq[i].wqe \in Nat /\ cq[j].wqe \in Nat /\ i \in Nat /\ j \in Nat
      BY <2>0, Numbers
    <3>2. cq[i].wqe + (j - i) =< cq[j].wqe
      BY <2>0, <3>1 DEF Order, CqOrder
    <3> QED BY <3>1, <3>2
  <2>10. InState("Reclaimed") \cup InState("Completed") = 1 .. reclaimed
    <3>1. \A w \in Wqe :
             state[w] \in {"Reclaimed", "Completed"} <=> w =< reclaimed
      BY <2>0, Zenon DEF Housed, HousedAt
    <3>2. reclaimed \in Nat /\ reclaimed =< MaxWqes /\ MaxWqes \in Nat
      <4>1. /\ reclaimed \in Nat /\ next.retire \in Nat /\ posted \in Nat
            /\ posted =< MaxWqes /\ MaxWqes \in Nat
        BY <2>0, Numbers, QueueAssumption DEF Shape
      <4>2. reclaimed < next.retire /\ next.retire =< posted + 1
        BY <2>0, Zenon DEF Order, Counted
      <4> QED BY <4>1, <4>2
    <3>3. \A w : w \in 1 .. reclaimed <=> w \in Wqe /\ w =< reclaimed
      BY <3>2 DEF Wqe
    <3> QED BY <3>1, <3>3, Zenon DEF InState
  <2>11. occupied = posted - reclaimed /\ occupied =< SqDepth
    BY <2>0, Zenon DEF Order, Counted
  <2>12. /\ Increasing(unpublished) /\ Increasing(ready)
         /\ \A a \in Attempt : attempts[a] \in LiveStage \cup {"completed"} =>
               a[1] \in inflight
    BY <2>0, Zenon DEF Lined, Reporting
  <2> QED BY <2>1, <2>2, <2>3, <2>4, <2>5, <2>6, <2>8, <2>9, <2>10, <2>11,
             <2>12, Zenon DEF OwnerConservation
<1> QED BY <1>1, OwnerAlways, PTL

\* hasPendingPhysicalWork: when it says that nothing is left, no request is
\* forgotten on the way: each was reclaimed or was owed nothing.
THEOREM QuietIsFinished == Spec => []QuietMeansFinished
<1>1. OwnerInv => QuietMeansFinished
  <2> SUFFICES ASSUME OwnerInv, ~HasPendingPhysicalWork, NEW w \in 1 .. posted,
                      ~(w =< reclaimed)
               PROVE  ~wqes[w].signaled /\ state[w] = "RetiredUnsignaled"
                        /\ wqes[w].status = "Success"
    BY Zenon DEF QuietMeansFinished
  <2>0. Housed /\ Owing /\ Shape
    BY Zenon DEF OwnerInv, HouseInv, StatesInv, QueueInv
  <2>1. w \in Wqe /\ ~(w > posted)
    BY <2>0, QueueAssumption DEF Shape, Wqe
  <2>2. /\ ~fatal /\ Items(unpublished) = {} /\ Items(ready) = {}
        /\ inflight = {} /\ outcomes[w] = "none" /\ PendingWqes = {}
        /\ RingWqes = {}
    BY <2>1 DEF HasPendingPhysicalWork, Items, PendingWqes, RingWqes
  <2>3. HousedAt(w) /\ OwingAt(w) /\ state[w] \in WqeState \cup {"none"}
    BY <2>0, <2>1, Zenon DEF Housed, Owing, Shape
  <2>4. w # 0 /\ lost = 0
    BY <2>2 DEF fatal
  <2>5. state[w] = "RetiredUnsignaled"
    BY <2>1, <2>2, <2>3, <2>4, Zenon DEF HousedAt, WqeState
  <2>6. ~NeedsCqe(wqes[w].signaled, wqes[w].status)
    BY <2>3, <2>5, Zenon DEF OwingAt
  <2> QED BY <2>5, <2>6, Zenon DEF NeedsCqe
<1> QED BY <1>1, OwnerAlways, PTL

-----------------------------------------------------------------------------
(* The work queue implements OrderedCompletion. *)

Asked == {w \in 1 .. posted : wqes[w].signaled}
OutcomeOf(w) == IF outcomes[w] # "none" THEN outcomes[w] ELSE wqes[w].status
Outcomes == [w \in Wqe |-> OutcomeOf(w)]
Told == InState("Completed")

\* Every step is one the host may see, or none it sees.
LEMMA StepsSeen == OwnerInv /\ [Next]_vars => [Completion!OcNext]_Completion!ocVars
\* A step the host sees nothing of.
<1>Unseen.
    ASSUME posted' = posted, reclaimed' = reclaimed,
           \A w \in Wqe : wqes'[w].signaled = wqes[w].signaled,
           \A w \in Wqe : OutcomeOf(w)' = OutcomeOf(w),
           \A w \in Wqe : state'[w] = "Completed" <=> state[w] = "Completed",
           posted \in 0 .. MaxWqes
    PROVE  UNCHANGED Completion!ocVars
  <2> USE <1>Unseen
  <2>1. 1 .. posted \subseteq Wqe
    BY QueueAssumption DEF Wqe
  <2>2. Asked' = Asked
    BY <2>1, Zenon DEF Asked
  <2>3. Outcomes' = Outcomes
    BY Zenon DEF Outcomes
  <2>4. Told' = Told
    BY Zenon DEF Told, InState
  <2> QED BY <2>2, <2>3, <2>4, ZenonT(30)
         DEF Completion!ocVars, Asked, Outcomes, OutcomeOf, Told
\* A post.
<1>PostSeen.
    ASSUME OwnerInv, NEW t \in Time, NEW s \in BOOLEAN, PostSend(s, t)
    PROVE  Completion!OcPost
  <2> USE <1>PostSeen
  <2>0. PICK n : n = posted + 1
    OBVIOUS
  <2>1. /\ posted < MaxWqes /\ posted' = n
        /\ state' = [state EXCEPT ![n] = "Posted"]
        /\ wqes' = [wqes EXCEPT ![n].signaled = s]
        /\ UNCHANGED <<outcomes, reclaimed>>
    BY <2>0, Zenon DEF PostSend
  <2>2. n \in Wqe /\ posted \in Nat
    BY <2>0, PostShape, Numbers, Zenon DEF OwnerInv, HouseInv, StatesInv, QueueInv
  <2>3. /\ state \in [Wqe -> WqeState \cup {"none"}]
        /\ wqes \in [Wqe -> WqeRecord] /\ posted \in 0 .. MaxWqes
    BY Zenon DEF OwnerInv, HouseInv, StatesInv, QueueInv, Shape
  <2>4. state[n] = "none"
    BY <2>0, <2>2 DEF OwnerInv, HouseInv, StatesInv, States, Owned
  <2>5. /\ wqes'[n].signaled = s /\ wqes'[n].status = wqes[n].status
        /\ \A w \in Wqe : w # n => wqes'[w] = wqes[w]
    <3>1. wqes'[n] = [wqes[n] EXCEPT !.signaled = s] /\ wqes[n] \in WqeRecord
          /\ \A w \in Wqe : w # n => wqes'[w] = wqes[w]
      BY <2>1, <2>2, <2>3, Zenon
    <3> QED BY <3>1, Zenon DEF WqeRecord
  <2>6. /\ \A w \in 1 .. posted : w \in Wqe /\ w # n
        /\ \A w \in 1 .. n : w = n \/ w \in 1 .. posted
        /\ n \in 1 .. n /\ \A w \in 1 .. posted : w \in 1 .. n
    BY <2>0, <2>2, <2>3, QueueAssumption DEF Wqe
  <2>7. Asked' \in {Asked, Asked \cup {n}}
    <3>1. CASE s
      <4>1. Asked' = Asked \cup {n}
        BY <3>1, <2>1, <2>5, <2>6, Zenon DEF Asked
      <4> QED BY <4>1, Zenon
    <3>2. CASE ~s
      <4>1. Asked' = Asked
        BY <3>2, <2>1, <2>5, <2>6, Zenon DEF Asked
      <4> QED BY <4>1, Zenon
    <3> QED BY <3>1, <3>2, Zenon
  <2>8. Outcomes' = Outcomes
    <3>1. \A w \in Wqe : OutcomeOf(w)' = OutcomeOf(w)
      BY <2>1, <2>5 DEF OutcomeOf
    <3> QED BY <3>1, Zenon DEF Outcomes
  <2>9. Told' = Told
    BY <2>1, <2>2, <2>3, <2>4, Zenon DEF Told, InState
  <2> QED BY <2>0, <2>1, <2>7, <2>8, <2>9, Zenon
         DEF Completion!OcPost, Asked, Outcomes, OutcomeOf, Told
\* An outcome.
<1>DecideSeen.
    ASSUME OwnerInv, NEW w \in Wqe, NEW st \in Status, NEW t,
           Decide(w, st, t), state[w] \in {"Doorbelled", "InFlight"},
           UNCHANGED <<posted, reclaimed>>
    PROVE  Completion!Finish(w)
  <2> USE <1>DecideSeen
  <2>1. /\ outcomes' = [outcomes EXCEPT ![w] = st]
        /\ state' = [state EXCEPT ![w] = "AwaitingOrderedRetirement"]
        /\ wqes' = [wqes EXCEPT ![w].outcome = t]
    BY Zenon DEF Decide
  <2>2. /\ state \in [Wqe -> WqeState \cup {"none"}]
        /\ wqes \in [Wqe -> WqeRecord] /\ posted \in 0 .. MaxWqes
        /\ outcomes \in [Wqe -> Status \cup {"none"}]
    BY Zenon DEF OwnerInv, HouseInv, StatesInv, QueueInv, Shape
  <2>3. outcomes[w] = "none" /\ w \in 1 .. posted
    <3>1. outcomes[w] = "none" /\ ~(w > posted)
      BY Zenon DEF OwnerInv, HouseInv, StatesInv, States, Owned
    <3> QED BY <2>2, <3>1 DEF Wqe
  <2>4. wqes[w].status = "none"
    <3>1. ~Retired(w)
      BY Zenon DEF Retired
    <3>2. ~(w < next.retire)
      BY <3>1, Zenon DEF OwnerInv, HouseInv, StatesInv, States, RetiredPrefix
    <3> QED BY <3>2, Zenon DEF OwnerInv, HouseInv, Owing, OwingAt
  <2>5. /\ \A v \in Wqe : wqes'[v].status = wqes[v].status
                           /\ wqes'[v].signaled = wqes[v].signaled
    <3>1. wqes'[w] = [wqes[w] EXCEPT !.outcome = t] /\ wqes[w] \in WqeRecord
          /\ \A v \in Wqe : v # w => wqes'[v] = wqes[v]
      BY <2>1, <2>2, Zenon
    <3>2. wqes'[w].status = wqes[w].status
          /\ wqes'[w].signaled = wqes[w].signaled
      BY <3>1, Zenon DEF WqeRecord
    <3> QED BY <3>1, <3>2, Zenon
  <2>6. Asked' = Asked
    <3>1. 1 .. posted \subseteq Wqe
      BY <2>2, QueueAssumption DEF Wqe
    <3> QED BY <2>5, <3>1, Zenon DEF Asked
  <2>7. Told' = Told
    BY <2>1, <2>2, Zenon DEF Told, InState
  <2>8. Outcomes[w] = "none" /\ Outcomes' = [Outcomes EXCEPT ![w] = st]
    <3>1. OutcomeOf(w) = "none" /\ OutcomeOf(w)' = st
      BY <2>1, <2>2, <2>3, <2>4, Zenon DEF OutcomeOf, Status
    <3>2. \A v \in Wqe : v # w => OutcomeOf(v)' = OutcomeOf(v)
      BY <2>1, <2>2, <2>5, Zenon DEF OutcomeOf
    <3> QED BY <3>1, <3>2, Zenon DEF Outcomes
  <2>9. st \in Completion!Failures \cup {"Success"}
    BY Zenon DEF Completion!Failures, Status
  <2> QED BY <2>3, <2>6, <2>7, <2>8, <2>9, Zenon
         DEF Completion!Finish, Asked, Outcomes, OutcomeOf, Told
\* A poll tells the host of the oldest request it is owed an entry for.
<1>ConsumeSeen.
    ASSUME OwnerInv, ConsumeOne, NEW w, w = Head(cq).wqe
    PROVE  w \in Wqe /\ Completion!Tell(w)
  <2> USE <1>ConsumeSeen
  <2>1. /\ state' = [v \in Wqe |->
                IF v = w THEN "Completed"
                ELSE IF v \in Freed(w) /\ state[v] # "Completed"
                THEN "Reclaimed" ELSE state[v]]
        /\ reclaimed' = w /\ UNCHANGED <<wqes, outcomes, posted>>
    BY Zenon DEF ConsumeOne
  <2>2. /\ w \in Wqe /\ w \in Nat /\ reclaimed < w /\ reclaimed \in Nat
        /\ w < next.retire /\ next.retire \in Nat
        /\ w \in RingWqes /\ \A v \in Wqe : reclaimed < v /\ v < w =>
                                 state[v] = "RetiredUnsignaled"
    BY HeadOfRing, Zenon DEF OwnerInv
  <2>3. /\ posted \in Nat /\ next.retire =< posted + 1 /\ posted =< MaxWqes
        /\ MaxWqes \in Nat
    BY Numbers, QueueAssumption
       DEF OwnerInv, HouseInv, StatesInv, QueueInv, Shape, Order, Counted
  <2>4. w \in 1 .. posted /\ \A q \in 1 .. w : q \in Wqe /\ q < next.retire
    BY <2>2, <2>3 DEF Wqe
  <2>5. state[w] = "CqeVisible" /\ w \notin Told
    <3>1. state[w] = "CqeVisible"
      BY <2>2, Zenon DEF OwnerInv, HouseInv, Housed, HousedAt
    <3> QED BY <3>1, Zenon DEF Told, InState
  <2>6. \A q \in 1 .. w : /\ wqes[q].status # "none" /\ outcomes[q] = "none"
                          /\ Outcomes[q] = wqes[q].status
                          /\ wqes[q].status \in Status
    <3> SUFFICES ASSUME NEW q \in 1 .. w
                 PROVE  /\ wqes[q].status # "none" /\ outcomes[q] = "none"
                        /\ Outcomes[q] = wqes[q].status
                        /\ wqes[q].status \in Status
      OBVIOUS
    <3>1. q \in Wqe /\ q < next.retire
      BY <2>4, Zenon
    <3>2. Retired(q) /\ OwingAt(q)
      BY <3>1, Zenon DEF OwnerInv, HouseInv, StatesInv, States, RetiredPrefix, Owing
    <3>3. outcomes[q] = "none"
      BY <3>1, <3>2, Zenon DEF Retired, OwnerInv, HouseInv, StatesInv, States, Owned
    <3>4. wqes[q].status # "none"
      BY <3>1, <3>2, Zenon DEF OwingAt
    <3>5. wqes[q].status \in Status \cup {"none"}
      BY <3>1, Zenon DEF OwnerInv, HouseInv, StatesInv, QueueInv, Shape, WqeRecord
    <3> QED BY <3>1, <3>3, <3>4, <3>5, Zenon DEF Outcomes, OutcomeOf
  <2>7. \A q \in 1 .. w : NeedsCqe(wqes[q].signaled, wqes[q].status) <=>
            q \in Asked \/ Outcomes[q] \in Completion!Failures
    <3>1. \A q \in 1 .. w : q \in 1 .. posted
      BY <2>2, <2>3, <2>4
    <3> QED BY <3>1, <2>6, Zenon DEF NeedsCqe, Asked, Completion!Failures, Status
  <2>8. w \in 1 .. w
    BY <2>2, <2>4
  <2>9. NeedsCqe(wqes[w].signaled, wqes[w].status)
    BY <2>2, <2>5, Zenon DEF OwnerInv, HouseInv, Owing, OwingAt
  <2>10. ASSUME NEW q \in 1 .. w - 1,
                NeedsCqe(wqes[q].signaled, wqes[q].status)
         PROVE  q \in Told
    <3>1. q \in Wqe /\ q < w /\ q \in Nat /\ HousedAt(q) /\ OwingAt(q)
      BY <2>2, <2>4 DEF OwnerInv, HouseInv, Housed, Owing
    <3>2. state[q] \notin {"RetiredUnsignaled", "Reclaimed"}
      BY <2>10, <3>1, Zenon DEF OwingAt
    <3>3. q =< reclaimed
      BY <2>2, <3>1, <3>2
    <3>4. state[q] = "Completed"
      BY <3>1, <3>2, <3>3, Zenon DEF HousedAt
    <3> QED BY <3>1, <3>4, Zenon DEF Told, InState
  <2>11. Told' = Told \cup {w}
    BY <2>1, <2>2, Zenon DEF Told, InState
  <2>12. Asked' = Asked /\ Outcomes' = Outcomes
    <3>1. Asked' = Asked
      BY <2>1, Zenon DEF Asked
    <3>2. Outcomes' = Outcomes
      BY <2>1, Zenon DEF Outcomes, OutcomeOf
    <3> QED BY <3>1, <3>2, Zenon
  <2>13. \A q \in 1 .. w - 1 : q \in 1 .. w
    BY <2>2
  <2>14. /\ w \in Asked \/ Outcomes[w] \in Completion!Failures
         /\ \A q \in 1 .. w : Outcomes[q] # "none"
         /\ \A q \in 1 .. w - 1 :
               (q \in Asked \/ Outcomes[q] \in Completion!Failures) => q \in Told
    BY <2>6, <2>7, <2>8, <2>9, <2>10, <2>13, Zenon
  <2> QED BY <2>1, <2>2, <2>4, <2>5, <2>11, <2>12, <2>14, Zenon
         DEF Completion!Tell, Completion!Owed, Asked, Outcomes, OutcomeOf, Told
<1> SUFFICES ASSUME OwnerInv, [Next]_vars PROVE [Completion!OcNext]_Completion!ocVars
  OBVIOUS
<1>0. /\ state \in [Wqe -> WqeState \cup {"none"}]
      /\ wqes \in [Wqe -> WqeRecord] /\ posted \in 0 .. MaxWqes
      /\ outcomes \in [Wqe -> Status \cup {"none"}]
      /\ unpublished \in Seq(Wqe) /\ ready \in Seq(Wqe)
  BY Zenon DEF OwnerInv, HouseInv, StatesInv, QueueInv, Shape
<1>1. CASE Post
  BY <1>1, <1>PostSeen, Zenon DEF Post, Completion!OcNext
<1>2. CASE ExtentEvent
  <2>1. PICK t \in Time, w \in Wqe, s \in Status : OnFlowExtentEvent(w, s, t)
    BY <1>2, Zenon DEF ExtentEvent
  <2>2. w \in inflight /\ Decide(w, s, t) /\ UNCHANGED <<posted, reclaimed>>
    BY <2>1, Zenon DEF OnFlowExtentEvent
  <2>3. state[w] = "InFlight"
    BY <2>2, Zenon DEF OwnerInv, HouseInv, StatesInv, States, Owned
  <2>4. Completion!Finish(w)
    BY <2>2, <2>3, <1>DecideSeen, Zenon
  <2> QED BY <2>4, Zenon DEF Completion!OcNext, Completion!Request, Wqe
<1>3. CASE SubmitRejected
  <2>1. /\ ready # <<>> /\ ready' = Tail(ready) /\ UNCHANGED <<posted, reclaimed>>
        /\ Decide(Head(ready), "NetworkRejected", now)
    BY <1>3, Zenon DEF SubmitRejected, Submitting, HeadDue
  <2>2. PICK w : w = Head(ready)
    OBVIOUS
  <2>3. w \in Wqe /\ state[w] = "Doorbelled" /\ "NetworkRejected" \in Status
    BY <2>1, <2>2, TakeHead, Zenon DEF OwnerInv, HouseInv, StatesInv, Status
  <2>4. Decide(w, "NetworkRejected", now)
    BY <2>1, <2>2, Zenon
  <2>5. Completion!Finish(w)
    BY <2>1, <2>3, <2>4, <1>DecideSeen, Zenon
  <2> QED BY <2>3, <2>5, Zenon DEF Completion!OcNext, Completion!Request, Wqe
<1>4. CASE ConsumeOne
  <2>1. PICK w : w = Head(cq).wqe
    OBVIOUS
  <2>2. w \in Wqe /\ Completion!Tell(w)
    BY <1>4, <2>1, <1>ConsumeSeen, Zenon
  <2> QED BY <2>2, Zenon DEF Completion!OcNext, Completion!Request, Wqe
<1>5. ASSUME posted' = posted, reclaimed' = reclaimed,
             \A w \in Wqe : wqes'[w].signaled = wqes[w].signaled,
             \A w \in Wqe : OutcomeOf(w)' = OutcomeOf(w),
             \A w \in Wqe : state'[w] = "Completed" <=> state[w] = "Completed"
      PROVE  UNCHANGED Completion!ocVars
  BY <1>0, <1>5, <1>Unseen, Zenon
<1>6. CASE Doorbell
  <2>1. PICK t \in Time, d \in [Wqe -> AdmitDelays] : RingDoorbell(d, t)
    BY <1>6, Zenon DEF Doorbell
  <2>2. /\ UNCHANGED <<posted, reclaimed, outcomes>>
        /\ state' = [w \in Wqe |->
              IF w \in Items(unpublished) THEN "Doorbelled" ELSE state[w]]
    BY <2>1, Zenon DEF RingDoorbell, Items
  <2>3. \A w \in Wqe : /\ wqes'[w].signaled = wqes[w].signaled
                       /\ wqes'[w].status = wqes[w].status
    <3> SUFFICES ASSUME NEW w \in Wqe
                 PROVE  /\ wqes'[w].signaled = wqes[w].signaled
                        /\ wqes'[w].status = wqes[w].status
      OBVIOUS
    <3>1. PICK x : wqes'[w] = wqes[w] \/ wqes'[w] = [wqes[w] EXCEPT !.admitted = x]
      BY <2>1, Zenon DEF RingDoorbell
    <3> QED BY <1>0, <3>1, Zenon DEF WqeRecord
  <2>4. \A w \in Items(unpublished) : state[w] = "Posted"
    <3>1. \A i \in 1 .. Len(unpublished) : state[unpublished[i]] = "Posted"
      BY Zenon DEF OwnerInv, HouseInv, StatesInv, States, Owned
    <3> QED BY <3>1, Zenon DEF Items
  <2>5. \A w \in Wqe : state'[w] = "Completed" <=> state[w] = "Completed"
    BY <2>2, <2>4, Zenon
  <2>6. \A w \in Wqe : OutcomeOf(w)' = OutcomeOf(w)
    BY <2>2, <2>3, Zenon DEF OutcomeOf
  <2> QED BY <1>5, <2>2, <2>3, <2>5, <2>6, Zenon
<1>7. CASE Retire
  <2>1. PICK d \in CqeDelays : RetireOne(d)
    BY <1>7, Zenon DEF Retire
  <2>2. PICK w, x :
          /\ w = next.retire /\ x # "Completed" /\ outcomes[w] # "none"
          /\ state' = [state EXCEPT ![w] = x]
          /\ wqes' = [wqes EXCEPT ![w].status = outcomes[w]]
          /\ outcomes' = [outcomes EXCEPT ![w] = "none"]
          /\ UNCHANGED <<posted, reclaimed>>
    <3> DEFINE n == next.retire
               y == IF NeedsCqe(wqes[n].signaled, outcomes[n])
                    THEN "CompletionPending" ELSE "RetiredUnsignaled"
    <3>1. /\ outcomes[n] # "none" /\ state' = [state EXCEPT ![n] = y]
          /\ wqes' = [wqes EXCEPT ![n].status = outcomes[n]]
          /\ outcomes' = [outcomes EXCEPT ![n] = "none"]
          /\ UNCHANGED <<posted, reclaimed>>
      BY <2>1, Zenon DEF RetireOne, Retirable
    <3>2. y # "Completed"
      OBVIOUS
    <3> HIDE DEF y
    <3> QED BY <3>1, <3>2, Zenon
  <2>3. w \in Wqe
    BY <2>1, <2>2, RetireShape, Zenon DEF OwnerInv, HouseInv, StatesInv, QueueInv
  <2>4. state[w] = "AwaitingOrderedRetirement"
    BY <2>2, <2>3, Zenon DEF OwnerInv, HouseInv, StatesInv, States, Owned
  <2>5. /\ wqes'[w] = [wqes[w] EXCEPT !.status = outcomes[w]]
        /\ wqes[w] \in WqeRecord
        /\ \A v \in Wqe : v # w => wqes'[v] = wqes[v]
    BY <1>0, <2>2, <2>3, Zenon
  <2>6. wqes'[w].signaled = wqes[w].signaled /\ wqes'[w].status = outcomes[w]
    BY <2>5, Zenon DEF WqeRecord
  <2>7. \A v \in Wqe : OutcomeOf(v)' = OutcomeOf(v)
    BY <1>0, <2>2, <2>3, <2>5, <2>6, Zenon DEF OutcomeOf
  <2>8. \A v \in Wqe : state'[v] = "Completed" <=> state[v] = "Completed"
    BY <1>0, <2>2, <2>3, <2>4, Zenon
  <2> QED BY <1>5, <2>2, <2>5, <2>6, <2>7, <2>8, Zenon
<1>8. CASE SubmitAccepted
  <2>1. PICK w : w = Head(ready) /\ ready # <<>> /\ ready' = Tail(ready)
                 /\ state' = [state EXCEPT ![w] = "InFlight"]
                 /\ UNCHANGED <<posted, reclaimed, wqes, outcomes>>
    BY <1>8, Zenon DEF SubmitAccepted, Submitting, HeadDue
  <2>2. w \in Wqe /\ state[w] = "Doorbelled"
    BY <2>1, TakeHead, Zenon DEF OwnerInv, HouseInv, StatesInv
  <2>3. \A v \in Wqe : state'[v] = "Completed" <=> state[v] = "Completed"
    BY <1>0, <2>1, <2>2, Zenon
  <2> QED BY <1>5, <2>1, <2>3, Zenon DEF OutcomeOf
<1>9. CASE PublishOne \/ Overrun
  <2>1. PICK c, x : /\ c = FirstCqe /\ pending # {} /\ x # "Completed"
                    /\ state' = [state EXCEPT ![c.wqe] = x]
                    /\ UNCHANGED <<posted, reclaimed, wqes, outcomes>>
    BY <1>9, Zenon DEF PublishOne, Overrun, HasDue
  <2>2. c \in pending
    BY <2>1, FirstCqeProperty, Zenon
       DEF OwnerInv, HouseInv, StatesInv, QueueInv, Order
  <2>3. c.wqe \in PendingWqes /\ c.wqe \in Wqe
    BY <2>2, Zenon DEF PendingWqes, OwnerInv, HouseInv, StatesInv, QueueInv, Shape,
                PendingRecord
  <2>4. state[c.wqe] = "CompletionPending"
    BY <2>3, Zenon DEF OwnerInv, HouseInv, Housed, HousedAt
  <2>5. \A v \in Wqe : state'[v] = "Completed" <=> state[v] = "Completed"
    BY <1>0, <2>1, <2>3, <2>4, Zenon
  <2> QED BY <1>5, <2>1, <2>5, Zenon DEF OutcomeOf
<1>10. CASE EcnEvent
  <2>1. PICK t \in Time, a \in Attempt : OnEcnMarked(a, t)
    BY <1>10, Zenon DEF EcnEvent
  <2>2. PICK w \in Wqe :
          /\ wqes' = [wqes EXCEPT ![w].ecn_marked = TRUE]
          /\ UNCHANGED <<posted, reclaimed, state, outcomes>>
    BY <2>1, Zenon DEF OnEcnMarked, Attempt
  <2>3. /\ wqes'[w] = [wqes[w] EXCEPT !.ecn_marked = TRUE]
        /\ wqes[w] \in WqeRecord
        /\ \A v \in Wqe : v # w => wqes'[v] = wqes[v]
    BY <1>0, <2>2, Zenon
  <2>4. /\ wqes'[w].signaled = wqes[w].signaled
        /\ wqes'[w].status = wqes[w].status
    BY <2>3, Zenon DEF WqeRecord
  <2>5. \A v \in Wqe : OutcomeOf(v)' = OutcomeOf(v)
    BY <2>2, <2>3, <2>4 DEF OutcomeOf
  <2> QED BY <1>5, <2>2, <2>3, <2>4, <2>5, Zenon
<1>11. CASE \/ Ignored \/ AttemptEvent \/ Progress \/ PublishDone
            \/ Busy \/ SubmitDone \/ Poll \/ ConsumeDone \/ UNCHANGED vars
  <2>1. UNCHANGED <<wqes, state, outcomes, posted, reclaimed>>
    <3>1. CASE Ignored
      BY <3>1, Zenon
         DEF Ignored, PostRefused, RingNothing, OnControlEvent, queueVars
    <3>2. CASE AttemptEvent
      BY <3>2, Zenon DEF AttemptEvent, OnPacketAttemptEvent
    <3>3. CASE Progress \/ PublishDone \/ Busy
      BY <3>3, Zenon DEF Progress, ProgressBegin, PublishDone, Busy, SubmitBusy,
                  queueVars
    <3>4. CASE SubmitDone \/ Poll \/ ConsumeDone \/ UNCHANGED vars
      BY <3>4, Zenon DEF SubmitDone, Poll, PollBegin, ConsumeDone, vars, queueVars
    <3> QED BY <1>11, <3>1, <3>2, <3>3, <3>4, Zenon
  <2> QED BY <1>5, <2>1, Zenon DEF OutcomeOf
<1> QED BY <1>1, <1>2, <1>3, <1>4, <1>6, <1>7, <1>8, <1>9, <1>10, <1>11, Zenon
           DEF Next

\* The host is told of the requests that asked for it or failed, once each
\* and in the order they were posted, however the port orders the outcomes
\* and whenever entries become visible or are lost.
THEOREM CompletesInOrder == Spec => ImplementsCompletion
<1>1. Init => Completion!OcInit
  <2> SUFFICES ASSUME Init PROVE Completion!OcInit
    OBVIOUS
  <2>1. Asked = {} /\ Told = {}
    BY DEF Init, Asked, Told, InState
  <2>2. Outcomes = [w \in Completion!Request |-> "none"]
    BY Zenon DEF Init, Outcomes, OutcomeOf, NoWqe, Completion!Request, Wqe
  <2> QED BY <2>1, <2>2, Zenon
         DEF Init, Completion!OcInit, Asked, Outcomes, OutcomeOf, Told
<1>2. OwnerInv /\ [Next]_vars => [Completion!OcNext]_Completion!ocVars
  BY StepsSeen, Zenon
<1> QED BY <1>1, <1>2, OwnerAlways, PTL
       DEF Spec, ImplementsCompletion, Completion!OcSpec
=============================================================================
