----------------------------- MODULE WorkQueue -----------------------------
(***************************************************************************)
(* The send queue and completion queue of the RNIC model                   *)
(* (simllm/backends/rnic/src/work_queue.cpp).                              *)
(*                                                                         *)
(* The host posts work requests and rings a doorbell; progress() hands the *)
(* admitted ones to a network port in order; their outcomes come back in   *)
(* any order and are retired in send-queue order; a retired request that   *)
(* is signaled, or failed, gets a completion entry (CQE), written some     *)
(* time later and polled by the host, which frees the send-queue entries   *)
(* up to it.                                                               *)
(*                                                                         *)
(* A request is named by its sq_sequence, which is also its wqe_id and     *)
(* stands for the token the port gave it.  A loop of the code is one step  *)
(* per iteration: `at` says which loop of progress() or                    *)
(* pollCompletionQueue() is running, and no other call starts before it    *)
(* returns.  PCIe and host-memory timing only decide when a request is     *)
(* admitted and when a CQE is visible: in order, some time later.          *)
(***************************************************************************)
EXTENDS Naturals, Sequences, FiniteSets, FiniteSetsExt

CONSTANTS
    SqDepth,       \* config.sq_depth
    CqDepth,       \* config.cq_depth
    MaxWqes,       \* bound: requests posted
    MaxAttempts,   \* bound: packet attempts reported for one request
    Reported,      \* bound: requests whose packets are reported
    MaxTime,       \* bound: last instant of a call
    AdmitDelays,   \* what a batch waits before it is admitted
    CqeDelays      \* how long the write of one CQE takes

ASSUME QueueAssumption ==
    /\ SqDepth \in Nat \ {0} /\ CqDepth \in Nat \ {0}
    /\ MaxWqes \in Nat /\ MaxAttempts \in Nat /\ MaxTime \in Nat
    /\ AdmitDelays \subseteq Nat /\ CqeDelays \subseteq Nat

Wqe == 1 .. MaxWqes
Attempt == (Wqe \cap Reported) \X (1 .. MaxAttempts)
Time == 0 .. MaxTime

VARIABLES
    now,          \* last_observed_time_ps_
    at,           \* the loop that is running, or "idle"
    take,         \* entries the running poll may still return
    posted,       \* records_.size(), next_wqe_id_ - 1
    state,        \* WqeRecord::state of records_
    wqes,         \* the other fields of records_
    unpublished,  \* unpublished_
    ready,        \* ready_
    inflight,     \* inflight_
    attempts,     \* packet_attempts_ and completed_packet_attempts_
    outcomes,     \* pending_outcomes_: request -> status, "none" when absent
    pending,      \* pending_cqes_
    cq,           \* cq_
    next,         \* next_retire_sequence_ and next_cqe_sequence_
    occupied,     \* occupied_sq_entries_
    reclaimed,    \* sq_reclaimed_through_
    visible,      \* counters_.cqes_visible
    cursors,      \* scheduler, retirement and cqe_write cursors
    retry,        \* network_retry_at_ps_, 0 when not network_blocked_
    lost          \* fatal_lost_sq_sequence_, 0 when not fatal_

queueVars == <<posted, state, wqes, unpublished, ready, inflight, attempts,
               outcomes, pending, cq, next, occupied, reclaimed, visible,
               cursors, lost>>
vars == <<now, at, take, retry, queueVars>>

WqeState == {"Posted", "Doorbelled", "InFlight", "AwaitingOrderedRetirement",
             "RetiredUnsignaled", "CompletionPending", "CqeVisible",
             "Reclaimed", "Completed", "Error"}
Status == {"Success", "TransportError", "NetworkRejected"}
Loop == {"idle", "publish", "submit", "flush", "poll", "consume"}

NoWqe == [signaled |-> FALSE, admitted |-> 0, outcome |-> 0,
          status |-> "none", ecn_marked |-> FALSE]

Init ==
    /\ now = 0 /\ at = "idle" /\ take = 0 /\ posted = 0
    /\ state = [w \in Wqe |-> "none"]
    /\ wqes = [w \in Wqe |-> NoWqe]
    /\ unpublished = <<>> /\ ready = <<>> /\ inflight = {}
    /\ attempts = [a \in Attempt |-> "unseen"]
    /\ outcomes = [w \in Wqe |-> "none"]
    /\ pending = {} /\ cq = <<>>
    /\ next = [retire |-> 1, cqe |-> 1]
    /\ occupied = 0 /\ reclaimed = 0 /\ visible = 0
    /\ cursors = [scheduler |-> 0, retirement |-> 0, cqe |-> 0]
    /\ retry = 0 /\ lost = 0

fatal == lost # 0

\* planRetirements goes on while the next request in order has its outcome.
Retirable == next.retire =< posted /\ outcomes[next.retire] # "none"

\* A call may start: the last one has returned, retirements included.
Called(t) == at = "idle" /\ ~Retirable /\ t >= now /\ now' = t

-----------------------------------------------------------------------------
(* The host side: postSend, ringDoorbell. *)

SqFull == occupied = SqDepth

PostSend(signaled, t) ==
    /\ Called(t)
    /\ ~fatal /\ ~SqFull
    /\ posted < MaxWqes
    /\ posted' = posted + 1
    /\ state' = [state EXCEPT ![posted + 1] = "Posted"]
    /\ wqes' = [wqes EXCEPT ![posted + 1].signaled = signaled]
    /\ unpublished' = Append(unpublished, posted + 1)
    /\ occupied' = occupied + 1
    /\ UNCHANGED <<at, take, ready, inflight, attempts, outcomes, pending, cq,
                   next, reclaimed, visible, cursors, retry, lost>>

\* PostStatus::Fatal or SqFull: only the time is observed.
PostRefused(t) ==
    /\ Called(t)
    /\ fatal \/ SqFull
    /\ UNCHANGED <<at, take, retry, queueVars>>

\* Every request goes through one scheduler: delays[w], what w waits there,
\* does not decrease along the batch.
RingDoorbell(delays, t) ==
    LET admitted(w) == Max({t, cursors.scheduler}) + delays[w]
        batch == {unpublished[i] : i \in 1 .. Len(unpublished)}
    IN  /\ Called(t)
        /\ ~fatal
        /\ unpublished # <<>>
        /\ \A v, w \in batch : v =< w => delays[v] =< delays[w]
        /\ state' = [w \in Wqe |->
              IF w \in batch THEN "Doorbelled" ELSE state[w]]
        /\ wqes' = [w \in Wqe |-> IF w \in batch
              THEN [wqes[w] EXCEPT !.admitted = admitted(w)] ELSE wqes[w]]
        /\ ready' = ready \o unpublished
        /\ unpublished' = <<>>
        /\ cursors' = [cursors EXCEPT !.scheduler =
              admitted(unpublished[Len(unpublished)])]
        /\ UNCHANGED <<at, take, posted, inflight, attempts, outcomes, pending,
                       cq, next, occupied, reclaimed, visible, retry, lost>>

\* A doorbell with nothing unpublished.
RingNothing(t) ==
    /\ Called(t)
    /\ unpublished = <<>>
    /\ UNCHANGED <<at, take, retry, queueVars>>

-----------------------------------------------------------------------------
(* Retirement, the tail of every outcome. *)

\* Mutant: only signaled requests get an entry, failed or not.
NeedsCqe_SignaledOnly(signaled, status) == signaled

NeedsCqe(signaled, status) == signaled \/ status # "Success"

\* makeCqe: one write at a time into the completion ring.
CqeVisibleAt(retiredAt, delay) == Max({retiredAt, cursors.cqe}) + delay

\* One iteration of planRetirements and commitRetirements.
RetireOne(delay) ==
    LET w == next.retire
        retiredAt == Max({wqes[w].outcome, cursors.retirement})
        needs == NeedsCqe(wqes[w].signaled, outcomes[w])
        visibleAt == CqeVisibleAt(retiredAt, delay)
    IN  /\ Retirable
        /\ state' = [state EXCEPT ![w] =
              IF needs THEN "CompletionPending" ELSE "RetiredUnsignaled"]
        /\ wqes' = [wqes EXCEPT ![w].status = outcomes[w]]
        /\ outcomes' = [outcomes EXCEPT ![w] = "none"]
        /\ pending' = IF needs THEN pending \cup
                {[seq |-> next.cqe, wqe |-> w, visible_at |-> visibleAt]}
              ELSE pending
        /\ next' = [retire |-> w + 1,
                    cqe |-> IF needs THEN next.cqe + 1 ELSE next.cqe]
        /\ cursors' = [cursors EXCEPT !.retirement = retiredAt,
                                      !.cqe = IF needs THEN visibleAt ELSE @]
        /\ UNCHANGED <<now, at, take, posted, unpublished, ready, inflight,
                       attempts, cq, occupied, reclaimed, visible, retry,
                       lost>>

\* The outcome of w is recorded; RetireOne then retires what it can.
Decide(w, status, t) ==
    /\ outcomes' = [outcomes EXCEPT ![w] = status]
    /\ state' = [state EXCEPT ![w] = "AwaitingOrderedRetirement"]
    /\ wqes' = [wqes EXCEPT ![w].outcome = t]

-----------------------------------------------------------------------------
(* onNetworkEvent. *)

LiveStage == {"started", "finished", "arrived"}

\* Mutant: the terminal does not wait for the packets of its extent.
OnFlowExtentEvent_Early(w, status, t) ==
    /\ Called(t)
    /\ w \in inflight
    /\ status \in {"Success", "TransportError"}
    /\ inflight' = inflight \ {w}
    /\ attempts' = [a \in Attempt |-> IF a[1] = w /\ attempts[a] = "completed"
                                      THEN "forgotten" ELSE attempts[a]]
    /\ Decide(w, status, t)
    /\ UNCHANGED <<at, take, posted, unpublished, ready, pending, cq, next,
                   occupied, reclaimed, visible, cursors, retry, lost>>

\* The terminal of an extent; its packet tombstones are forgotten.
OnFlowExtentEvent(w, status, t) ==
    /\ Called(t)
    /\ w \in inflight
    /\ \A a \in Attempt : a[1] = w => attempts[a] \notin LiveStage
    /\ status \in {"Success", "TransportError"}
    /\ inflight' = inflight \ {w}
    /\ attempts' = [a \in Attempt |-> IF a[1] = w /\ attempts[a] = "completed"
                                      THEN "forgotten" ELSE attempts[a]]
    /\ Decide(w, status, t)
    /\ UNCHANGED <<at, take, posted, unpublished, ready, pending, cq, next,
                   occupied, reclaimed, visible, cursors, retry, lost>>

\* PacketTxStarted, PacketTxFinished, PacketRxArrived, Delivered, Dropped.
AttemptStep(from, to) ==
    \/ from = "unseen" /\ to = "started"
    \/ from = "started" /\ to = "finished"
    \/ from = "finished" /\ to = "arrived"
    \/ from = "arrived" /\ to = "completed"
    \/ from \in LiveStage /\ to = "completed"

OnPacketAttemptEvent(a, stage, t) ==
    /\ Called(t)
    /\ a[1] \in inflight
    /\ AttemptStep(attempts[a], stage)
    /\ attempts' = [attempts EXCEPT ![a] = stage]
    /\ UNCHANGED <<at, take, posted, state, wqes, unpublished, ready, inflight,
                   outcomes, pending, cq, next, occupied, reclaimed, visible,
                   cursors, retry, lost>>

\* EcnMarked, correlated with an attempt or with its tombstone.
OnEcnMarked(a, t) ==
    /\ Called(t)
    /\ a[1] \in inflight
    /\ attempts[a] \in LiveStage \cup {"completed"}
    /\ wqes' = [wqes EXCEPT ![a[1]].ecn_marked = TRUE]
    /\ UNCHANGED <<at, take, posted, state, unpublished, ready, inflight,
                   attempts, outcomes, pending, cq, next, occupied, reclaimed,
                   visible, cursors, retry, lost>>

\* Policy, PFC and link events are checked and otherwise left to the port.
OnControlEvent(t) ==
    /\ Called(t)
    /\ UNCHANGED <<at, take, retry, queueVars>>

-----------------------------------------------------------------------------
(* publishCqes, the loop shared by progress and pollCompletionQueue. *)

\* Mutant: the newest entry is taken.
FirstCqe_Newest == CHOOSE c \in pending : \A d \in pending : d.seq =< c.seq

\* begin() of a map keyed by visible_at_ps and cqe_sequence.
FirstCqe == CHOOSE c \in pending : \A d \in pending :
    \/ c.visible_at < d.visible_at
    \/ c.visible_at = d.visible_at /\ c.seq =< d.seq

\* A poll publishes only what is strictly older than its own instant.
Due(c) == IF at = "poll" THEN c.visible_at < now ELSE c.visible_at =< now

Publishing == at \in {"publish", "flush", "poll"} /\ ~Retirable
HasDue == pending # {} /\ Due(FirstCqe)

\* Mutant: the slot follows the reclaimed requests.
CqIndex_FromReclaimed == reclaimed

CqIndex == visible

PublishOne ==
    LET c == FirstCqe
    IN  /\ Publishing /\ HasDue
        /\ Len(cq) # CqDepth
        /\ pending' = pending \ {c}
        /\ cq' = Append(cq, [seq |-> c.seq, wqe |-> c.wqe,
              visible_at |-> c.visible_at, slot |-> CqIndex % CqDepth])
        /\ visible' = visible + 1
        /\ state' = [state EXCEPT ![c.wqe] = "CqeVisible"]
        /\ UNCHANGED <<now, at, take, posted, wqes, unpublished, ready,
                       inflight, attempts, outcomes, next, occupied, reclaimed,
                       cursors, retry, lost>>

\* Mutant: the queue is dead, but its request is still completion pending.
Overrun_NoError ==
    LET c == FirstCqe
    IN  /\ Publishing /\ HasDue
        /\ Len(cq) = CqDepth
        /\ pending' = pending \ {c}
        /\ lost' = c.wqe
        /\ at' = IF at = "poll" THEN "consume" ELSE "idle"
        /\ UNCHANGED <<now, take, posted, state, wqes, unpublished, ready,
                       inflight, attempts, outcomes, cq, next, occupied,
                       reclaimed, visible, cursors, retry>>

\* The completion ring is full: the entry is lost and the queue is dead.
Overrun ==
    LET c == FirstCqe
    IN  /\ Publishing /\ HasDue
        /\ Len(cq) = CqDepth
        /\ pending' = pending \ {c}
        /\ lost' = c.wqe
        /\ state' = [state EXCEPT ![c.wqe] = "Error"]
        /\ at' = IF at = "poll" THEN "consume" ELSE "idle"
        /\ UNCHANGED <<now, take, posted, wqes, unpublished, ready, inflight,
                       attempts, outcomes, cq, next, occupied, reclaimed,
                       visible, cursors, retry>>

-----------------------------------------------------------------------------
(* progress: publish, unless blocked submit, publish again. *)

ProgressBegin(t) ==
    /\ Called(t)
    /\ at' = IF fatal THEN "idle" ELSE "publish"
    /\ UNCHANGED <<take, retry, queueVars>>

Blocked == retry > now

PublishDone ==
    /\ Publishing /\ ~HasDue
    /\ at' = CASE at = "flush" -> "idle"
               [] at = "poll" -> "consume"
               [] at = "publish" -> IF Blocked THEN "idle" ELSE "submit"
    /\ retry' = IF at = "publish" /\ ~Blocked THEN 0 ELSE retry
    /\ UNCHANGED <<now, take, queueVars>>

HeadDue == ready # <<>> /\ wqes[Head(ready)].admitted =< now

Submitting == at = "submit" /\ ~Retirable /\ HeadDue

SubmitAccepted ==
    /\ Submitting
    /\ ready' = Tail(ready)
    /\ state' = [state EXCEPT ![Head(ready)] = "InFlight"]
    /\ inflight' = inflight \cup {Head(ready)}
    /\ UNCHANGED <<now, at, take, posted, wqes, unpublished, attempts,
                   outcomes, pending, cq, next, occupied, reclaimed, visible,
                   cursors, retry, lost>>

SubmitRejected ==
    /\ Submitting
    /\ ready' = Tail(ready)
    /\ Decide(Head(ready), "NetworkRejected", now)
    /\ UNCHANGED <<now, at, take, posted, unpublished, inflight, attempts,
                   pending, cq, next, occupied, reclaimed, visible, cursors,
                   retry, lost>>

\* Busy keeps the head and ends the pass.
SubmitBusy(until) ==
    /\ Submitting
    /\ until > now
    /\ retry' = until
    /\ at' = "flush"
    /\ UNCHANGED <<now, take, queueVars>>

\* Mutant: progress returns without the second publication.
SubmitDone_NoFlush ==
    /\ at = "submit" /\ ~Retirable /\ ~HeadDue
    /\ at' = "idle"
    /\ UNCHANGED <<now, take, retry, queueVars>>

SubmitDone ==
    /\ at = "submit" /\ ~Retirable /\ ~HeadDue
    /\ at' = "flush"
    /\ UNCHANGED <<now, take, retry, queueVars>>

-----------------------------------------------------------------------------
(* pollCompletionQueue: publish, then hand entries over and reclaim. *)

PollBegin(entries, t) ==
    /\ Called(t)
    /\ take' = entries
    /\ at' = IF fatal THEN "consume" ELSE "poll"
    /\ UNCHANGED <<retry, queueVars>>

Retired(w) == state[w] \in {"RetiredUnsignaled", "CompletionPending",
                                 "CqeVisible", "Reclaimed", "Completed",
                                 "Error"}

\* The guards of reclaimThrough, each of which throws.
MayReclaim(w) ==
    /\ w >= reclaimed
    /\ fatal => w < lost
    /\ \A v \in reclaimed + 1 .. w : Retired(v)

Freed(w) == reclaimed + 1 .. w

ConsumeOne ==
    LET w == Head(cq).wqe
    IN  /\ at = "consume"
        /\ take > 0 /\ cq # <<>>
        /\ MayReclaim(w)
        /\ cq' = Tail(cq)
        /\ take' = take - 1
        /\ state' = [v \in Wqe |->
              IF v = w THEN "Completed"
              ELSE IF v \in Freed(w) /\ state[v] # "Completed"
              THEN "Reclaimed" ELSE state[v]]
        /\ occupied' = occupied - (w - reclaimed)
        /\ reclaimed' = w
        /\ UNCHANGED <<now, at, posted, wqes, unpublished, ready, inflight,
                       attempts, outcomes, pending, next, visible, cursors,
                       retry, lost>>

ConsumeDone ==
    /\ at = "consume"
    /\ take = 0 \/ cq = <<>>
    /\ at' = "idle" /\ take' = 0
    /\ UNCHANGED <<now, retry, queueVars>>

-----------------------------------------------------------------------------
(* The announced time. *)

\* Mutant: the back-off of a busy port is forgotten.
NextEvents_NoBackoff ==
    IF fatal THEN {}
    ELSE {Max({c.visible_at, now}) : c \in pending}
           \cup (IF ready = <<>> THEN {}
                 ELSE {Max({wqes[Head(ready)].admitted, now})})

\* The times nextEventTime takes the least of.
NextEvents ==
    IF fatal THEN {}
    ELSE {Max({c.visible_at, now}) : c \in pending}
           \cup (IF ready = <<>> THEN {}
                 ELSE {Max({wqes[Head(ready)].admitted, now, retry})})

HasPendingPhysicalWork ==
    \/ fatal
    \/ unpublished # <<>> \/ ready # <<>> \/ inflight # {}
    \/ \E a \in Attempt : attempts[a] \in LiveStage
    \/ \E w \in Wqe : outcomes[w] # "none"
    \/ pending # {} \/ cq # <<>>

-----------------------------------------------------------------------------
Post == \E t \in Time, s \in BOOLEAN : PostSend(s, t)
Ignored == \E t \in Time :
    PostRefused(t) \/ RingNothing(t) \/ OnControlEvent(t)
Doorbell == \E t \in Time, d \in [Wqe -> AdmitDelays] : RingDoorbell(d, t)
Retire == \E d \in CqeDelays : RetireOne(d)
ExtentEvent == \E t \in Time, w \in Wqe, s \in Status :
    OnFlowExtentEvent(w, s, t)
AttemptEvent == \E t \in Time, a \in Attempt,
                   s \in LiveStage \cup {"completed"} :
    OnPacketAttemptEvent(a, s, t)
EcnEvent == \E t \in Time, a \in Attempt : OnEcnMarked(a, t)
Progress == \E t \in Time : ProgressBegin(t)
Busy == \E t \in Time : SubmitBusy(t)
Poll == \E t \in Time, n \in 1 .. CqDepth : PollBegin(n, t)

Next == \/ Post \/ Ignored \/ Doorbell \/ Retire \/ ExtentEvent
        \/ AttemptEvent \/ EcnEvent \/ Progress \/ PublishOne \/ Overrun
        \/ PublishDone \/ SubmitAccepted \/ SubmitRejected \/ Busy
        \/ SubmitDone \/ Poll \/ ConsumeOne \/ ConsumeDone

Spec == Init /\ [][Next]_vars

-----------------------------------------------------------------------------
(* Properties. *)

InState(s) == {w \in Wqe : state[w] = s}
Items(seq) == {seq[i] : i \in 1 .. Len(seq)}
Increasing(seq) == \A i, j \in 1 .. Len(seq) : i < j => seq[i] < seq[j]
CqWqes == [i \in 1 .. Len(cq) |-> cq[i].wqe]

WqeRecord == [signaled : BOOLEAN, admitted : Nat, outcome : Nat,
              status : Status \cup {"none"}, ecn_marked : BOOLEAN]

\* The state has its declared shape.
TypeOK ==
    /\ now \in Time /\ at \in Loop /\ take \in 0 .. CqDepth
    /\ posted \in 0 .. MaxWqes
    /\ state \in [Wqe -> WqeState \cup {"none"}]
    /\ wqes \in [Wqe -> WqeRecord]
    /\ unpublished \in Seq(Wqe) /\ ready \in Seq(Wqe)
    /\ inflight \subseteq Wqe
    /\ attempts \in [Attempt -> LiveStage
                                  \cup {"unseen", "completed", "forgotten"}]
    /\ outcomes \in [Wqe -> Status \cup {"none"}]
    /\ pending \subseteq [seq : Nat, wqe : Wqe, visible_at : Nat]
    /\ cq \in Seq([seq : Nat, wqe : Wqe, visible_at : Nat, slot : Nat])
    /\ next \in [retire : Nat, cqe : Nat]
    /\ occupied \in Nat /\ reclaimed \in Nat /\ visible \in Nat
    /\ cursors \in [scheduler : Nat, retirement : Nat, cqe : Nat]
    /\ retry \in Nat /\ lost \in {0} \cup Wqe

\* Every request is in exactly the container its state names, once, and the
\* containers that are queues hold theirs in send-queue order
\* (validateInvariants: "RNIC WQE owner-container conservation failed");
\* packet attempts belong to requests in flight; and the requests the host
\* got its entries back for are the prefix that occupied_sq_entries_ leaves
\* out, so the count that admits new requests stays within the depth.
OwnerConservation ==
    /\ InState("Posted") = Items(unpublished) /\ Increasing(unpublished)
    /\ InState("Doorbelled") = Items(ready) /\ Increasing(ready)
    /\ InState("InFlight") = inflight
    /\ InState("AwaitingOrderedRetirement") =
          {w \in Wqe : outcomes[w] # "none"}
    /\ InState("CompletionPending") = {c.wqe : c \in pending}
    /\ \A c, d \in pending : c.wqe = d.wqe => c = d
    /\ InState("CqeVisible") = Items(CqWqes) /\ Increasing(CqWqes)
    /\ \A a \in Attempt : attempts[a] \in LiveStage \cup {"completed"} =>
          a[1] \in inflight
    /\ InState("Reclaimed") \cup InState("Completed") = 1 .. reclaimed
    /\ occupied = posted - reclaimed /\ occupied =< SqDepth

\* None of the checks of reclaimThrough can fire: whatever the order of the
\* outcomes, an entry the host can poll is above the reclaimed prefix, below
\* a lost one, and everything up to it is retired.
CqReclaimable ==
    \A i \in 1 .. Len(cq) :
        /\ cq[i].wqe > reclaimed
        /\ fatal => cq[i].wqe < lost
        /\ \A v \in 1 .. cq[i].wqe : Retired(v)

\* The slot an entry is announced in, counted when it becomes visible, is the
\* one makeCqe wrote it to, counted when it was retired (ringAllocationOffset
\* of its cqe_sequence), and no slot holds two unpolled entries.
RingSlots ==
    \A i \in 1 .. Len(cq) :
        /\ cq[i].slot = (cq[i].seq - 1) % CqDepth
        /\ \A j \in 1 .. i - 1 : cq[i].slot # cq[j].slot

\* A completion ring at least as deep as the send queue never overruns: every
\* unpolled entry still holds its send-queue entry.
NoOverrun == CqDepth >= SqDepth => ~fatal

\* An overrun loses the oldest completion the host has not been given, and
\* that request and all those after it keep their send-queue entries for
\* ever, whatever the host still polls (validateInvariants: "RNIC reclaimed
\* its first lost CQE").
LostKeepsItsEntry ==
    fatal => /\ reclaimed < lost /\ state[lost] = "Error"
             /\ \A w \in 1 .. lost - 1 :
                  state[w] # "CompletionPending"

\* nextEventTime announces exactly: progress(t) finds something to publish or
\* to submit if and only if a time at or before t was announced, and when it
\* returns the announced times are later than t, so that a caller who steps
\* to them always moves on and misses nothing.
AnnouncedExactly ==
    [][/\ at = "idle" /\ at' = "publish" =>
             ((HasDue' \/ (HeadDue' /\ ~Blocked'))
                <=> \E e \in NextEvents : e =< now')
       /\ at \in {"publish", "submit", "flush"} /\ at' = "idle" =>
             \A e \in NextEvents' : e > now']_vars

\* Nothing pending and not fatal means that every request was reclaimed, or
\* retired with no completion owed: the queue can be torn down.
QuietMeansFinished ==
    at = "idle" /\ ~HasPendingPhysicalWork =>
        \A w \in 1 .. posted : w =< reclaimed \/
            (~wqes[w].signaled /\ state[w] = "RetiredUnsignaled"
               /\ wqes[w].status = "Success")

\* The work queue keeps the promise of OrderedCompletion.
Completion == INSTANCE OrderedCompletion WITH
    Requests <- MaxWqes,
    posted <- posted,
    asked <- {w \in 1 .. posted : wqes[w].signaled},
    outcome <- [w \in Wqe |-> IF outcomes[w] # "none" THEN outcomes[w]
                              ELSE wqes[w].status],
    told <- InState("Completed"),
    freed <- reclaimed
ImplementsCompletion == Completion!OcSpec

\* The driver steps to the announced times and keeps polling, and the port
\* reports every extent it accepted.
FairSpec ==
    /\ Spec
    /\ WF_vars(Retire \/ PublishOne \/ Overrun \/ PublishDone
                 \/ SubmitDone \/ ConsumeOne \/ ConsumeDone)
    /\ WF_vars(SubmitAccepted \/ SubmitRejected \/ Busy)
    /\ SF_vars(\E t \in NextEvents : ProgressBegin(t))
    /\ SF_vars(ExtentEvent)
    /\ SF_vars(AttemptEvent /\ attempts' # attempts)
    /\ SF_vars(Poll)

\* A request that was rung and asked for a completion is eventually freed,
\* with everything before it, unless the completion ring overran.
RungIsFreed ==
    \A w \in Wqe : state[w] = "Doorbelled" /\ wqes[w].signaled
                      ~> reclaimed >= w \/ fatal
=============================================================================
