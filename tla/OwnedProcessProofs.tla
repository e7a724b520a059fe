------------------------- MODULE OwnedProcessProofs -------------------------
(***************************************************************************)
(* Proofs about OwnedProcess, for any set of client threads: an exchange   *)
(* is exclusive, and a call that failed leaves no child behind.            *)
(***************************************************************************)
EXTENDS OwnedProcess, FiniteSetTheorems, TLAPS

Busy == {c \in Caller : pc[c] \in InCall}

\* The worker has, or will get, a task of this caller.
Outstanding(c) ==
    serving = c \/ \E i \in DOMAIN tasks : tasks[i].by = c

\* The calls under way are counted, and stay out of another thread's exchange.
Exchanges ==
    /\ active = Cardinality(Busy)
    /\ \A c \in Caller : pc[c] \in {"exiting", "clearing"} => owner = c
    /\ owner # None => Busy \subseteq {owner}

\* Only a task makes the worker busy, and only a thread that waits has an answer.
Serving ==
    /\ serving = None <=> worker \in {"idle", "done"}
    /\ \A c \in Caller : answer[c] # None => pc[c] = "waiting"

\* As long as nobody aborts, a caller has at most one task with the worker, and
\* none once it is answered: a thread that gives up waiting aborts.
OpenTasks ==
    ~closed =>
        /\ \A i \in DOMAIN tasks : tasks[i] # Stop
        /\ \A i, j \in DOMAIN tasks : tasks[i].by = tasks[j].by => i = j
        /\ \A i \in DOMAIN tasks : tasks[i].by # serving
        /\ \A c \in Caller : Outstanding(c) =>
               pc[c] = "failing" \/ (pc[c] = "waiting" /\ answer[c] = None)

\* The abort is over.
Settled == closed /\ lock = "free"

\* A thread in the middle of an abort has closed the object, and a thread that
\* is through with its own, or with another's, finds the abort over.
Aborted ==
    /\ lock # "free" => closed /\ pc[lock] \in Aborting
    /\ Settled /\ faults = 0 => child = "reaped" /\ ~registered
    /\ \A c \in Caller :
         /\ op[c] = "finish" /\ pc[c] \in {"idle", "exiting", "clearing"} => Settled
         /\ outcome[c] = "error" /\ pc[c] \notin {"entered", "checked", "waiting", "failing"}
              => Settled

IInv == TypeOK /\ Exchanges /\ Serving /\ OpenTasks /\ Aborted

----------------------------------------------------------------------------

\* The clients are threads, and not the object's own.
LEMMA ThreadNames ==
    /\ Caller \subseteq Thread /\ "timer" \in Thread /\ "stderr" \in Thread
    /\ \A c \in Caller : c \notin {"timer", "stderr", "free", None}
  BY OwnedAssumption, Zenon DEF Thread, None

\* The calls under way are a finite set; one more, or one less, is one more, or
\* one less, to count.
LEMMA BusyGrows ==
    ASSUME TypeOK, NEW c \in Caller, NEW p, p \in InCall, pc[c] \notin InCall, Go(c, p)
    PROVE  Busy' = Busy \cup {c} /\ Cardinality(Busy') = Cardinality(Busy) + 1
  <1>1. Busy' = Busy \cup {c} /\ c \notin Busy
    BY ThreadNames DEF TypeOK, Busy, Go
  <1>2. IsFiniteSet(Busy)
    BY OwnedAssumption, FS_Subset, Zenon DEF Busy
  <1> QED  BY <1>1, <1>2, FS_AddElement, Zenon

\* A client that leaves a call is one less in a call.
LEMMA BusyShrinks ==
    ASSUME TypeOK, NEW c \in Caller, NEW p, p \notin InCall, pc[c] \in InCall, Go(c, p)
    PROVE  /\ Busy' = Busy \ {c}
           /\ Cardinality(Busy') = Cardinality(Busy) - 1
           /\ Cardinality(Busy) \in Nat \ {0}
  <1>1. Busy' = Busy \ {c} /\ c \in Busy
    BY ThreadNames, Zenon DEF TypeOK, Busy, Go
  <1>2. IsFiniteSet(Busy)
    BY OwnedAssumption, FS_Subset, Zenon DEF Busy
  <1>3. Cardinality(Busy) \in Nat /\ Cardinality(Busy) # 0
    BY <1>1, <1>2, FS_CardinalityType, FS_EmptySet, Zenon
  <1> QED  BY <1>1, <1>2, <1>3, FS_RemoveElement, Zenon

\* _call's last block counts the caller out.
LEMMA LeaveCounts ==
    ASSUME TypeOK, Exchanges, NEW c \in Caller, Leave(c)
    PROVE  /\ Busy' = Busy \ {c}
           /\ active' = Cardinality(Busy')
           /\ active' \in Nat
  <1> DEFINE p == IF op[c] = "finish" THEN "closing" ELSE "idle"
  <1>1. p \notin InCall /\ pc[c] \in InCall /\ Go(c, p)
    BY Zenon DEF Leave, InCall
  <1> HIDE DEF p
  <1>2. active' = active - 1
    BY Zenon DEF Leave
  <1> QED  BY <1>1, <1>2, BusyShrinks DEF Exchanges

PcTypes ==
    /\ pc \in [Thread -> InCall \cup {"idle", "closing", "exiting", "clearing",
                                      "armed", "reading", "aborting", "done"}]
    /\ pc["timer"] \in {"armed", "aborting", "done"}
    /\ pc["stderr"] \in {"reading", "aborting", "done"}
    /\ \A c \in Caller : pc[c] \in InCall \cup {"idle", "closing", "exiting", "clearing"}

\* Where a thread goes after its abort is a place it may be at.
LEMMA AbortGoes ==
    ASSUME TypeOK, NEW t \in Thread, pc[t] \in Aborting, Go(t, After(pc[t])), Ends(t)
    PROVE  PcTypes' /\ outcome' \in [Caller -> {None, "ok", "error"}]
  <1> DEFINE p == After(pc[t])
  <1>1. /\ p \in {"returning", "idle", "clearing", "done"}
        /\ t \in Caller => p # "done"
        /\ t \in {"timer", "stderr"} => p = "done"
    BY Zenon DEF TypeOK, Aborting, After, Thread, InCall
  <1>2. pc' = [pc EXCEPT ![t] = p]
    BY Zenon DEF Go
  <1> HIDE DEF p
  <1>3. PcTypes'
    BY <1>1, <1>2, ThreadNames DEF TypeOK, PcTypes, InCall, Thread
  <1>4. outcome' \in [Caller -> {None, "ok", "error"}]
    BY Zenon DEF TypeOK, Ends
  <1> QED  BY <1>3, <1>4, Zenon

\* Every state reached has its declared shape.
LEMMA TypeStep ==
    ASSUME IInv, [Next]_vars
    PROVE  TypeOK'
  <1> TypeOK  BY Zenon DEF IInv
  <1> USE ThreadNames
      DEF Go, Task, Stop, None, InCall, flags, process, work, exchange, clock, call
  <1>1. CASE \E c \in Caller, o \in {"io", "finish"} : Enter(c, o)
    BY <1>1 DEF TypeOK, Enter
  <1>2. CASE \E c \in Caller : Check(c)
    BY <1>2 DEF TypeOK, Check
  <1>3. CASE \E c \in Caller : Put(c)
    BY <1>3 DEF TypeOK, Put
  <1>4. CASE \E c \in Caller : Receive(c)
    BY <1>4 DEF TypeOK, Receive
  <1>5. CASE \E c \in Caller : TimeOut(c)
    BY <1>5 DEF TypeOK, TimeOut
  <1>6. CASE \E c \in Caller : Leave(c)
    <2>1. PICK c \in Caller : Leave(c)
      BY <1>6, Zenon
    <2>2. active' \in Nat
      BY <2>1, LeaveCounts, Zenon DEF IInv
    <2> QED
      BY <2>1, <2>2 DEF TypeOK, Leave
  <1>7. CASE \E c \in Caller : ClearExchange(c)
    <2>1. PICK c \in Caller : ClearExchange(c)
      BY <1>7, Zenon
    <2>2. pc' \in [Thread -> InCall \cup {"idle", "closing", "exiting", "clearing",
                                      "armed", "reading", "aborting", "done"}]
      BY <2>1, Zenon DEF TypeOK, ClearExchange, Go, InCall
    <2> QED
      BY <2>1, <2>2, ZenonT(30) DEF TypeOK, ClearExchange
  <1>8. CASE \E c \in Caller : CallAbort(c)
    BY <1>8 DEF TypeOK, CallAbort
  <1>9. CASE \E c \in Caller : OpenExchange(c)
    BY <1>9 DEF TypeOK, OpenExchange
  <1>10. CASE \E c \in Caller : CloseExchange(c)
    BY <1>10 DEF TypeOK, CloseExchange
  <1>11. CASE \E t \in Thread : AbortAgain(t)
    BY <1>11 DEF TypeOK, AbortAgain, Ends, After, Aborting
  <1>12. CASE \E t \in Thread : Abort(t)
    BY <1>12 DEF TypeOK, Abort, Aborting
  <1>13. CASE \E t \in Thread : Kill(t)
    <2>1. PICK t \in Thread : Kill(t)
      BY <1>13, Zenon
    <2>2. pc[t] \in Aborting
      BY <2>1, Zenon DEF Kill, IInv, Aborted, Thread
    <2>3. PcTypes' /\ outcome' \in [Caller -> {None, "ok", "error"}]
      BY <2>1, <2>2, AbortGoes, Zenon DEF Kill
    <2>4. /\ tasks' = Append(tasks, Stop)
          /\ lock' = "free" /\ child' = "reaped" /\ registered' \in BOOLEAN
          /\ UNCHANGED <<closed, failure, worker, serving, answer, exchange, clock,
                         op, bounded, calls, faults>>
      BY <2>1, Zenon DEF Kill
    <2> QED
      BY <2>3, <2>4 DEF TypeOK, PcTypes, Stop, exchange, clock
  <1>14. CASE \E t \in Thread : KillFails(t)
    <2>1. PICK t \in Thread : KillFails(t)
      BY <1>14, Zenon
    <2>2. pc[t] \in Aborting
      BY <2>1, Zenon DEF KillFails, IInv, Aborted, Thread
    <2>3. PcTypes' /\ outcome' \in [Caller -> {None, "ok", "error"}]
      BY <2>1, <2>2, AbortGoes, Zenon DEF KillFails
    <2>4. /\ faults' = faults + 1
          /\ lock' = "free" /\ registered' \in BOOLEAN
          /\ UNCHANGED <<closed, failure, child, work, exchange, clock, op, bounded, calls>>
      BY <2>1, Zenon DEF KillFails
    <2> QED
      BY <2>3, <2>4 DEF TypeOK, PcTypes, work, exchange, clock
  <1>15. CASE Take
    BY <1>15 DEF TypeOK, Take
  <1>16. CASE IoSucceeds
    <2>1. serving \in Caller
      BY <1>16, Zenon DEF IoSucceeds, IInv, Serving, TypeOK
    <2>2. answer' \in [Caller -> {None, "ok", "error"}]
      BY <1>16, <2>1, Zenon DEF IoSucceeds, Answer, TypeOK, None
    <2> QED
      BY <1>16, <2>2 DEF TypeOK, IoSucceeds, Answer
  <1>17. CASE IoFails
    <2>1. serving \in Caller
      BY <1>17, Zenon DEF IoFails, IInv, Serving, TypeOK
    <2>2. answer' \in [Caller -> {None, "ok", "error"}]
      BY <1>17, <2>1, Zenon DEF IoFails, Answer, TypeOK, None
    <2> QED
      BY <1>17, <2>2 DEF TypeOK, IoFails, Answer
  <1>18. CASE FinishReaps
    BY <1>18 DEF TypeOK, FinishReaps
  <1>19. CASE FinishJoins
    BY <1>19 DEF TypeOK, FinishJoins, Answer
  <1>20. CASE LifetimePasses
    BY <1>20 DEF TypeOK, LifetimePasses
  <1>21. CASE ExchangePasses
    BY <1>21 DEF TypeOK, ExchangePasses
  <1>22. CASE Expire
    BY <1>22 DEF TypeOK, Expire
  <1>23. CASE StderrOverflows
    BY <1>23 DEF TypeOK, StderrOverflows
  <1>24. CASE StderrEnds
    BY <1>24 DEF TypeOK, StderrEnds
  <1>25. CASE ChildExits
    BY <1>25 DEF TypeOK, ChildExits
  <1>26. CASE CleanupAll
    <2>1. child' \in {"running", "exited", "reaped"} /\ registered' \in BOOLEAN
      BY <1>26, Zenon DEF CleanupAll
    <2>2. UNCHANGED <<pc, flags, work, exchange, clock, call, faults>>
      BY <1>26, Zenon DEF CleanupAll
    <2> QED
      BY <2>1, <2>2 DEF TypeOK, flags, work, exchange, clock, call
  <1>27. CASE UNCHANGED vars
    BY <1>27 DEF TypeOK, vars, flags, process, work, exchange, clock, call
  <1> QED
    BY <1>1, <1>2, <1>3, <1>4, <1>5, <1>6, <1>7, <1>8, <1>9, <1>10, <1>11, <1>12,
       <1>13, <1>14,
       <1>15, <1>16, <1>17, <1>18, <1>19, <1>20, <1>21, <1>22, <1>23, <1>24, <1>25, <1>26, <1>27
    DEF Next, CallerStep, AbortStep, WorkerStep

\* A step that lets no caller into a call or out of one, and leaves the exchange
\* to its owner.
LEMMA SameBusy ==
    ASSUME TypeOK, Exchanges, UNCHANGED exchange,
           \A c \in Caller : /\ pc'[c] \in InCall <=> pc[c] \in InCall
                             /\ pc'[c] \in {"exiting", "clearing"} => owner = c
    PROVE  Exchanges'
  <1>1. Busy' = Busy
    BY Zenon DEF Busy
  <1> QED  BY <1>1, Zenon DEF Exchanges, exchange

\* Every step keeps the count of calls, and other threads out of an exchange.
LEMMA ExchangesStep ==
    ASSUME IInv, [Next]_vars
    PROVE  Exchanges'
  <1> TypeOK /\ Exchanges  BY Zenon DEF IInv
  <1> USE ThreadNames
  <1>1. CASE \E c \in Caller, o \in {"io", "finish"} : Enter(c, o)
    <2>1. PICK c \in Caller : \E o \in {"io", "finish"} : Enter(c, o)
      BY <1>1, Zenon
    <2>2. /\ Go(c, "entered") /\ pc[c] = "idle"
          /\ owner \in {None, c} /\ owner' = owner /\ active' = active + 1
      BY <2>1, Zenon DEF Enter
    <2>3. Busy' = Busy \cup {c} /\ Cardinality(Busy') = Cardinality(Busy) + 1
      BY <2>2, BusyGrows, Zenon DEF InCall
    <2>4. \A d \in Caller : pc'[d] \in {"exiting", "clearing"} => owner' = d
      BY <2>2, Zenon DEF Exchanges, Go, TypeOK
    <2> QED  BY <2>2, <2>3, <2>4, Zenon DEF Exchanges
  <1>2. CASE \E c \in Caller : Check(c) \/ Put(c) \/ Receive(c) \/ TimeOut(c)
    <2>1. PICK c \in Caller : Check(c) \/ Put(c) \/ Receive(c) \/ TimeOut(c)
      BY <1>2, Zenon
    <2>2. /\ pc[c] \in InCall /\ UNCHANGED exchange
          /\ \E p \in InCall : Go(c, p)
      BY <2>1, Zenon DEF Check, Put, Receive, TimeOut, InCall
    <2> QED  BY <2>2, SameBusy DEF Go, TypeOK, InCall, Exchanges
  <1>3. CASE \E c \in Caller : Leave(c)
    <2>1. PICK c \in Caller : Leave(c)
      BY <1>3, Zenon
    <2>2. owner' = owner /\ \E p \in {"closing", "idle"} : Go(c, p)
      BY <2>1, Zenon DEF Leave
    <2>3. \A d \in Caller : pc'[d] \in {"exiting", "clearing"} => owner' = d
      BY <2>2 DEF Exchanges, Go, TypeOK
    <2> QED  BY <2>1, <2>2, <2>3, LeaveCounts, Zenon DEF Exchanges
  <1>4. CASE \E c \in Caller : OpenExchange(c)
    <2>1. PICK c \in Caller : OpenExchange(c)
      BY <1>4, Zenon
    <2>2. /\ owner = None /\ active = 0 /\ owner' = c /\ active' = active
          /\ pc[c] = "idle" /\ \E p \in {"exiting", "idle"} : Go(c, p)
      BY <2>1, Zenon DEF OpenExchange
    <2>3. IsFiniteSet(Busy)
      BY OwnedAssumption, FS_Subset, Zenon DEF Busy
    <2>4. Busy = {}
      BY <2>2, <2>3, FS_EmptySet, Zenon DEF Exchanges
    <2>5. Busy' = Busy
      BY <2>2 DEF Busy, InCall, Go, TypeOK
    <2>6. \A d \in Caller : pc'[d] \in {"exiting", "clearing"} => owner' = d
      BY <2>2 DEF Exchanges, Go, TypeOK
    <2> QED  BY <2>2, <2>4, <2>5, <2>6, Zenon DEF Exchanges
  <1>5. CASE \E c \in Caller : CallAbort(c) \/ CloseExchange(c)
    <2>1. PICK c \in Caller : CallAbort(c) \/ CloseExchange(c)
      BY <1>5, Zenon
    <2>2. /\ UNCHANGED exchange /\ pc[c] = "idle"
          /\ \/ Go(c, "closing")
             \/ owner = c /\ \E p \in {"exiting", "clearing"} : Go(c, p)
      BY <2>1, Zenon DEF CallAbort, CloseExchange
    <2> QED  BY <2>2, SameBusy DEF Go, TypeOK, InCall, Exchanges
  <1>6. CASE \E c \in Caller : ClearExchange(c)
    <2>1. PICK c \in Caller : ClearExchange(c)
      BY <1>6, Zenon
    <2>2. owner' = None /\ active' = active /\ pc[c] = "clearing" /\ Go(c, "idle")
      BY <2>1, Zenon DEF ClearExchange
    <2>3. Busy' = Busy
      BY <2>2, Zenon DEF Busy, InCall, Go, TypeOK
    <2>4. \A d \in Caller : pc'[d] \notin {"exiting", "clearing"}
      BY <2>2, Zenon DEF Exchanges, Go, TypeOK
    <2> QED  BY <2>2, <2>3, <2>4, Zenon DEF Exchanges
  <1>7. CASE \E t \in Thread : AbortAgain(t) \/ Kill(t) \/ KillFails(t)
    <2>1. PICK t \in Thread : AbortAgain(t) \/ Kill(t) \/ KillFails(t)
      BY <1>7, Zenon
    <2>2. UNCHANGED exchange /\ Go(t, After(pc[t]))
      BY <2>1, Zenon DEF AbortAgain, Kill, KillFails
    <2>3. pc[t] \in Aborting
      BY <2>1, Zenon DEF AbortAgain, Kill, KillFails, IInv, Aborted, Thread
    <2>4. /\ After(pc[t]) \in InCall <=> pc[t] \in InCall
          /\ After(pc[t]) \in {"exiting", "clearing"} => pc[t] = "exiting"
      BY <2>3, Zenon DEF Aborting, After, InCall
    <2>5. pc' = [pc EXCEPT ![t] = After(pc[t])]
      BY <2>2, Zenon DEF Go
    <2> QED  BY <2>2, <2>4, <2>5, SameBusy DEF TypeOK, Exchanges
  <1>8. CASE \E t \in Thread : Abort(t)
    BY <1>8, SameBusy DEF Abort, TypeOK, Exchanges
  <1>9. CASE Expire \/ StderrOverflows \/ StderrEnds
    BY <1>9, SameBusy DEF Expire, StderrOverflows, StderrEnds, Go, TypeOK, Exchanges
  <1>10. CASE UNCHANGED <<pc, exchange>>
    BY <1>10, SameBusy, Zenon DEF Exchanges
  <1>11. CASE WorkerStep \/ LifetimePasses \/ ExchangePasses \/ ChildExits \/ CleanupAll
    BY <1>10, <1>11, Zenon
       DEF WorkerStep, Take, IoSucceeds, IoFails, FinishReaps, FinishJoins,
       Answer, LifetimePasses, ExchangePasses, ChildExits, CleanupAll
  <1>12. CASE UNCHANGED vars
    BY <1>10, <1>12, Zenon DEF vars
  <1> QED
    BY <1>1, <1>2, <1>3, <1>4, <1>5, <1>6, <1>7, <1>8, <1>9, <1>11, <1>12, Zenon
    DEF Next, CallerStep, AbortStep

\* Every step keeps the worker busy with a task exactly while it has one.
LEMMA ServingStep ==
    ASSUME IInv, [Next]_vars
    PROVE  Serving'
  <1> TypeOK /\ Serving  BY Zenon DEF IInv
  <1> USE ThreadNames
  <1>1. CASE Take
    <2>1. Head(tasks) \in Task \cup {Stop}
      BY <1>1 DEF Take, TypeOK
    <2>2. serving' = None <=> worker' \in {"idle", "done"}
      BY <1>1, <2>1, Zenon DEF Take, Serving, Task, Stop, None
    <2> QED  BY <1>1, <2>2, Zenon DEF Take, Serving
  <1>2. CASE IoSucceeds \/ IoFails \/ FinishJoins
    BY <1>2 DEF IoSucceeds, IoFails, FinishJoins, Answer, Serving, TypeOK
  <1>3. CASE FinishReaps
    BY <1>3, Zenon DEF FinishReaps, Serving
  <1>4. CASE \E c \in Caller : Receive(c) \/ TimeOut(c)
    BY <1>4 DEF Receive, TimeOut, Go, Serving, TypeOK, work
  <1>5. CASE /\ UNCHANGED <<worker, serving, answer>>
             /\ \A c \in Caller : pc[c] = "waiting" => pc'[c] = "waiting"
    BY <1>5, Zenon DEF Serving
  <1>6. CASE \E c \in Caller : \/ \E o \in {"io", "finish"} : Enter(c, o)
                               \/ Check(c) \/ Put(c) \/ Leave(c) \/ ClearExchange(c)
    <2>1. UNCHANGED <<worker, serving, answer>>
      BY <1>6, Zenon DEF Enter, Check, Put, Leave, ClearExchange, work
    <2>2. \A c \in Caller : pc[c] = "waiting" => pc'[c] = "waiting"
      BY <1>6 DEF Enter, Check, Put, Leave, ClearExchange, Go, TypeOK
    <2> QED  BY <1>5, <2>1, <2>2, Zenon
  <1>7. CASE \E c \in Caller : CallAbort(c) \/ OpenExchange(c) \/ CloseExchange(c)
    <2>1. UNCHANGED <<worker, serving, answer>>
      BY <1>7, Zenon DEF CallAbort, OpenExchange, CloseExchange, work
    <2>2. \A c \in Caller : pc[c] = "waiting" => pc'[c] = "waiting"
      BY <1>7 DEF CallAbort, OpenExchange, CloseExchange, Go, TypeOK
    <2> QED  BY <1>5, <2>1, <2>2, Zenon
  <1>8. CASE \E t \in Thread : AbortStep(t)
    <2>1. PICK t \in Thread : AbortStep(t)
      BY <1>8, Zenon
    <2>2. UNCHANGED <<worker, serving, answer>>
      BY <2>1, Zenon DEF AbortStep, AbortAgain, Abort, Kill, KillFails, work
    <2>3. pc[t] \in Aborting
      BY <2>1, Zenon
         DEF AbortStep, AbortAgain, Abort, Kill, KillFails, IInv, Aborted, Thread
    <2>4. \A c \in Caller : pc[c] = "waiting" => pc'[c] = pc[c]
      BY <2>1, <2>3, Zenon
         DEF AbortStep, AbortAgain, Abort, Kill, KillFails, Go, Aborting, TypeOK
    <2> QED  BY <1>5, <2>2, <2>4, Zenon
  <1>9. CASE Expire \/ StderrOverflows \/ StderrEnds
    <2>1. UNCHANGED <<worker, serving, answer>>
      BY <1>9, Zenon DEF Expire, StderrOverflows, StderrEnds, work
    <2>2. \A c \in Caller : pc[c] = "waiting" => pc'[c] = "waiting"
      BY <1>9 DEF Expire, StderrOverflows, StderrEnds, Go, TypeOK
    <2> QED  BY <1>5, <2>1, <2>2, Zenon
  <1>10. CASE LifetimePasses \/ ExchangePasses \/ ChildExits \/ CleanupAll \/ UNCHANGED vars
    BY <1>5, <1>10, Zenon
       DEF LifetimePasses, ExchangePasses, ChildExits, CleanupAll, vars, work
  <1> QED
    BY <1>1, <1>2, <1>3, <1>4, <1>6, <1>7, <1>8, <1>9, <1>10, Zenon
    DEF Next, CallerStep, WorkerStep

\* Every step keeps an abort in the hands of the thread that holds the lock.
LEMMA AbortedStep ==
    ASSUME IInv, [Next]_vars
    PROVE  Aborted'
  <1> TypeOK /\ Aborted  BY Zenon DEF IInv
  <1> USE ThreadNames
  <1>1. CASE \E c \in Caller, o \in {"io", "finish"} : Enter(c, o)
    BY <1>1 DEF Enter, Go, Aborted, Settled, TypeOK, flags, process, None
  <1>2. CASE \E c \in Caller : Check(c)
    BY <1>2 DEF Check, Go, Aborted, Settled, TypeOK, flags, process, call, Aborting
  <1>3. CASE \E c \in Caller : Put(c)
    BY <1>3 DEF Put, Go, Aborted, Settled, TypeOK, flags, process, call, Aborting
  <1>4. CASE \E c \in Caller : Receive(c)
    BY <1>4 DEF Receive, Go, Aborted, Settled, TypeOK, flags, process, Aborting
  <1>5. CASE \E c \in Caller : TimeOut(c)
    BY <1>5
       DEF TimeOut, Go, Aborted, Settled, TypeOK, flags, process, call, Aborting
  <1>6. CASE \E c \in Caller : Leave(c)
    BY <1>6 DEF Leave, Go, Aborted, Settled, TypeOK, flags, process
  <1>7. CASE \E c \in Caller : ClearExchange(c)
    BY <1>7 DEF ClearExchange, Go, Aborted, Settled, TypeOK, flags, process, call
  <1>8. CASE \E c \in Caller : CallAbort(c)
    BY <1>8
       DEF CallAbort, Go, Aborted, Settled, TypeOK, flags, process, call, Aborting
  <1>9. CASE \E c \in Caller : OpenExchange(c)
    BY <1>9 DEF OpenExchange, Go, Aborted, Settled, TypeOK, flags, process, call
  <1>10. CASE \E c \in Caller : CloseExchange(c)
    BY <1>10
       DEF CloseExchange, Go, Aborted, Settled, TypeOK, flags, process, call, Aborting
  <1>11. CASE \E t \in Thread : AbortAgain(t)
    BY <1>11
       DEF AbortAgain, Go, After, Ends, Aborted, Settled, TypeOK, flags, process, Aborting
  <1>12. CASE \E t \in Thread : Abort(t)
    BY <1>12 DEF Abort, Aborted, Settled, TypeOK, process, call, Aborting, Thread
  <1>13. CASE \E t \in Thread : Kill(t)
    BY <1>13 DEF Kill, Go, After, Ends, Aborted, Settled, TypeOK, Aborting, Thread
  <1>14. CASE \E t \in Thread : KillFails(t)
    BY <1>14
       DEF KillFails, Go, After, Ends, Aborted, Settled, TypeOK, Aborting, Thread
  <1>15. CASE Expire \/ StderrOverflows \/ StderrEnds
    BY <1>15 DEF Expire, StderrOverflows, StderrEnds, Go, Aborted, Settled, TypeOK,
       flags, process, call, Aborting, Thread
  <1>16. CASE UNCHANGED <<pc, closed, lock, child, registered, op, outcome, faults>>
    BY <1>16, Zenon DEF Aborted, Settled
  <1>17. CASE Take \/ IoSucceeds \/ IoFails \/ LifetimePasses \/ ExchangePasses \/ UNCHANGED vars
    BY <1>16, <1>17, Zenon
       DEF Take, IoSucceeds, IoFails, Answer, LifetimePasses, ExchangePasses,
       vars, flags, process, call
  <1>18. CASE FinishJoins
    BY <1>16, <1>18, Zenon DEF FinishJoins, Answer, flags, process, call
  <1>19. CASE FinishReaps \/ ChildExits \/ CleanupAll
    BY <1>19 DEF FinishReaps, ChildExits, CleanupAll, Aborted, Settled, flags, call
  <1> QED
    BY <1>1, <1>2, <1>3, <1>4, <1>5, <1>6, <1>7, <1>8, <1>9, <1>10, <1>11, <1>12,
       <1>13, <1>14, <1>15, <1>17, <1>18, <1>19, Zenon
    DEF Next, CallerStep, AbortStep, WorkerStep

\* A thread that waits for nothing, or gives up, changes nothing for the tasks.
LEMMA SameTasks ==
    ASSUME OpenTasks, ~closed, UNCHANGED work,
           \A c \in Caller : Outstanding(c) => pc'[c] = pc[c] \/ pc'[c] = "failing"
    PROVE  OpenTasks'
  <1>1. \A c \in Caller : Outstanding(c)' <=> Outstanding(c)
    BY Zenon DEF Outstanding, work
  <1> QED  BY <1>1, Zenon DEF OpenTasks, work

\* Until an abort, no step leaves a caller with two tasks or an old one.
LEMMA OpenTasksStep ==
    ASSUME IInv, [Next]_vars
    PROVE  OpenTasks'
  <1> TypeOK /\ OpenTasks /\ Serving  BY Zenon DEF IInv
  <1> USE ThreadNames
  <1>1. SUFFICES ASSUME ~closed, ~closed' PROVE OpenTasks'
    <2>1. closed \in BOOLEAN /\ (closed => closed')
      BY Zenon
         DEF TypeOK, Next, vars, flags, CallerStep, Enter, Check, Put, Receive, TimeOut, Leave,
         ClearExchange, CallAbort, OpenExchange, CloseExchange, AbortStep, AbortAgain, Abort,
         Kill, KillFails, WorkerStep, Take, IoSucceeds, IoFails, FinishReaps, FinishJoins, Answer,
         LifetimePasses, ExchangePasses, Expire, StderrOverflows, StderrEnds, ChildExits, CleanupAll
    <2> QED  BY <2>1, ZenonT(30) DEF OpenTasks
  <1>2. CASE \E c \in Caller : Put(c)
    <2>1. PICK c \in Caller : Put(c)
      BY <1>2, Zenon
    <2> DEFINE t == [by |-> c, op |-> op[c]]
    <2>2. /\ pc[c] = "checked" /\ pc' = [pc EXCEPT ![c] = "waiting"]
          /\ tasks' = Append(tasks, t) /\ UNCHANGED <<serving, answer>>
      BY <2>1, Zenon DEF Put, Go
    <2>3. ~Outstanding(c) /\ answer[c] = None
      BY <1>1, <2>2, Zenon DEF OpenTasks, Serving
    <2>4. t.by = c /\ t # Stop
      BY Zenon DEF Stop
    <2> HIDE DEF t
    <2>5. /\ DOMAIN tasks' = DOMAIN tasks \cup {Len(tasks) + 1}
          /\ \A i \in DOMAIN tasks : tasks'[i] = tasks[i] /\ i # Len(tasks) + 1
          /\ tasks'[Len(tasks) + 1] = t
      BY <2>2 DEF TypeOK
    <2>6. \A i \in DOMAIN tasks : tasks[i].by # c
      BY <2>3, Zenon DEF Outstanding
    <2>7. \A i \in DOMAIN tasks' : tasks'[i] # Stop /\ tasks'[i].by # serving'
      BY <1>1, <2>2, <2>3, <2>4, <2>5 DEF OpenTasks, Outstanding
    <2>8. \A i, j \in DOMAIN tasks' : tasks'[i].by = tasks'[j].by => i = j
      BY <1>1, <2>4, <2>5, <2>6 DEF OpenTasks
    <2>9. \A d \in Caller : Outstanding(d)' => d = c \/ Outstanding(d)
      BY <2>2, <2>4, <2>5, Zenon DEF Outstanding
    <2> QED  BY <1>1, <2>2, <2>3, <2>7, <2>8, <2>9 DEF OpenTasks, TypeOK
  <1>3. CASE Take
    <2>1. /\ DOMAIN tasks' = 1 .. Len(tasks) - 1
          /\ \A i \in DOMAIN tasks' : tasks'[i] = tasks[i + 1] /\ i + 1 \in DOMAIN tasks
          /\ Head(tasks) = tasks[1] /\ 1 \in DOMAIN tasks /\ DOMAIN tasks = 1 .. Len(tasks)
          /\ Len(tasks) \in Nat
      BY <1>3 DEF Take, TypeOK
    <2>2. Head(tasks) # Stop
      BY <1>1, <2>1, Zenon DEF OpenTasks
    <2>3. serving' = tasks[1].by /\ serving = None /\ UNCHANGED <<pc, answer>>
      BY <1>3, <2>1, <2>2, Zenon DEF Take, Serving
    <2>4. \A i \in DOMAIN tasks' : tasks'[i] # Stop /\ tasks'[i].by # serving'
      BY <1>1, <2>1, <2>3 DEF OpenTasks
    <2>5. \A i, j \in DOMAIN tasks' : tasks'[i].by = tasks'[j].by => i = j
      <3> TAKE i, j \in DOMAIN tasks'
      <3>1. tasks[i + 1].by = tasks[j + 1].by => i + 1 = j + 1
        BY <1>1, <2>1, Zenon DEF OpenTasks
      <3> QED  BY <2>1, <3>1
    <2>6. \A c \in Caller : Outstanding(c)' => Outstanding(c)
      BY <2>1, <2>3, Zenon DEF Outstanding
    <2> QED  BY <1>1, <2>3, <2>4, <2>5, <2>6, Zenon DEF OpenTasks
  <1>4. CASE IoSucceeds \/ IoFails \/ FinishJoins
    <2>1. PICK a \in {"ok", "error"} : Answer(a)
      BY <1>4, Zenon DEF IoSucceeds, IoFails, FinishJoins
    <2>2. /\ serving' = None /\ UNCHANGED <<pc, tasks>>
          /\ \A c \in Caller : c # serving => answer'[c] = answer[c]
      BY <2>1, Zenon DEF Answer, TypeOK
    <2>3. \A i \in DOMAIN tasks : tasks[i].by # None
      BY <1>1 DEF OpenTasks, TypeOK, Task
    <2>4. \A c \in Caller : Outstanding(c)' => Outstanding(c) /\ c # serving
      BY <1>1, <2>2, Zenon DEF OpenTasks, Outstanding
    <2> QED  BY <1>1, <2>2, <2>3, <2>4, Zenon DEF OpenTasks
  <1>5. CASE FinishReaps
    BY <1>1, <1>5, Zenon DEF FinishReaps, OpenTasks, Outstanding
  <1>6. CASE \E c \in Caller : Receive(c)
    <2>1. PICK c \in Caller : Receive(c)
      BY <1>6, Zenon
    <2>2. /\ ~Outstanding(c) /\ UNCHANGED <<tasks, serving>>
          /\ \A d \in Caller \ {c} : pc'[d] = pc[d] /\ answer'[d] = answer[d]
      BY <1>1, <2>1 DEF Receive, OpenTasks, Go, TypeOK
    <2>3. \A d \in Caller : Outstanding(d)' => Outstanding(d) /\ d # c
      BY <2>2, Zenon DEF Outstanding
    <2> QED  BY <1>1, <2>2, <2>3, Zenon DEF OpenTasks
  <1>7. CASE \E c \in Caller : TimeOut(c) \/ Check(c)
    <2>1. PICK c \in Caller : TimeOut(c) \/ Check(c)
      BY <1>7, Zenon
    <2>2. /\ UNCHANGED work
          /\ \E p \in {"failing", "checked"} : Go(c, p) /\ (p = "checked" => pc[c] = "entered")
      BY <2>1, Zenon DEF TimeOut, Check
    <2>3. \A d \in Caller : Outstanding(d) => pc'[d] = pc[d] \/ pc'[d] = "failing"
      BY <1>1, <2>2 DEF OpenTasks, Go, TypeOK
    <2> QED  BY <1>1, <2>2, <2>3, SameTasks, Zenon
  <1>8. CASE \E c \in Caller : \/ \E o \in {"io", "finish"} : Enter(c, o)
                               \/ Leave(c) \/ ClearExchange(c)
                               \/ CallAbort(c) \/ OpenExchange(c) \/ CloseExchange(c)
    <2>1. PICK c \in Caller : \/ \E o \in {"io", "finish"} : Enter(c, o)
                              \/ Leave(c) \/ ClearExchange(c)
                              \/ CallAbort(c) \/ OpenExchange(c) \/ CloseExchange(c)
      BY <1>8, Zenon
    <2>2. UNCHANGED work /\ pc[c] \in {"idle", "returning", "clearing"} /\ \E p : Go(c, p)
      BY <2>1, Zenon
         DEF Enter, Leave, ClearExchange, CallAbort, OpenExchange, CloseExchange
    <2>3. \A d \in Caller : Outstanding(d) => pc'[d] = pc[d]
      BY <1>1, <2>2 DEF OpenTasks, Go, TypeOK
    <2> QED  BY <1>1, <2>2, <2>3, SameTasks, Zenon
  <1>9. CASE \E t \in Thread : AbortStep(t)
    <2>1. PICK t \in Thread : AbortAgain(t) \/ Abort(t) \/ Kill(t) \/ KillFails(t)
      BY <1>9, Zenon DEF AbortStep
    <2>2. ~AbortAgain(t) /\ ~Abort(t)
      BY <1>1, Zenon DEF AbortAgain, Abort
    <2>3. lock # "free"
      BY <2>1, <2>2, Zenon DEF Kill, KillFails, Thread
    <2> QED  BY <1>1, <2>3, Zenon DEF IInv, Aborted
  <1>10. CASE Expire \/ StderrOverflows \/ StderrEnds
    <2>1. UNCHANGED work
      BY <1>10, Zenon DEF Expire, StderrOverflows, StderrEnds
    <2>2. \A d \in Caller : pc'[d] = pc[d]
      BY <1>10, Zenon DEF Expire, StderrOverflows, StderrEnds, Go, TypeOK
    <2> QED  BY <1>1, <2>1, <2>2, SameTasks, Zenon
  <1>11. CASE LifetimePasses \/ ExchangePasses \/ ChildExits \/ CleanupAll \/ UNCHANGED vars
    BY <1>1, <1>11, SameTasks, Zenon
       DEF LifetimePasses, ExchangePasses, ChildExits, CleanupAll, vars
  <1> QED
    BY <1>2, <1>3, <1>4, <1>5, <1>6, <1>7, <1>8, <1>9, <1>10, <1>11, Zenon
    DEF Next, CallerStep, WorkerStep

----------------------------------------------------------------------------

\* Initially nothing is under way.
LEMMA InitInv == Init => IInv
  <1> SUFFICES ASSUME Init PROVE IInv
    OBVIOUS
  <1> USE ThreadNames
  <1>1. \A c \in Caller : pc[c] = "idle"
    BY Zenon DEF Init, Thread
  <1>2. TypeOK
    <2>1. PcTypes
      BY <1>1, Zenon DEF Init, PcTypes, Thread, InCall
    <2>2. /\ {closed, failure, registered, expired, overdue} \subseteq BOOLEAN
          /\ bounded \in [Caller -> BOOLEAN]
      BY Zenon DEF Init
    <2>3. tasks \in Seq(Task \cup {Stop})
      BY DEF Init
    <2> QED  BY <2>1, <2>2, <2>3, Zenon DEF Init, TypeOK, PcTypes
  <1>3. Busy = {}
    BY <1>1, Zenon DEF Busy, InCall
  <1>4. Exchanges
    BY <1>1, <1>3, FS_EmptySet, Zenon DEF Exchanges, Init
  <1>5. Serving /\ OpenTasks
    BY DEF Serving, OpenTasks, Outstanding, Init
  <1>6. Aborted
    BY Zenon DEF Aborted, Settled, Init, None
  <1> QED  BY <1>2, <1>4, <1>5, <1>6, Zenon DEF IInv

\* The invariant always holds.
LEMMA AlwaysInv == Spec => []IInv
  <1>1. IInv /\ [Next]_vars => IInv'
    BY TypeStep, ExchangesStep, ServingStep, OpenTasksStep, AbortedStep, Zenon
       DEF IInv
  <1> QED  BY InitInv, <1>1, PTL DEF Spec

\* io_deadline: whatever the other threads do, the process serves only the owner
\* of an exchange as long as it is open.
THEOREM ExchangesExclude == Spec => []ExchangeExclusive
  <1>1. IInv => ExchangeExclusive
    <2> SUFFICES ASSUME IInv, owner # None
                 PROVE  /\ \A c \in Caller \ {owner} : pc[c] \notin InCall
                        /\ ~closed =>
                             /\ \A i \in DOMAIN tasks : tasks[i].by = owner
                             /\ worker \in {"io", "finish", "joining"} => serving = owner
      BY Zenon DEF ExchangeExclusive
    <2>1. \A c \in Caller \ {owner} : pc[c] \notin InCall
      BY Zenon DEF IInv, Exchanges, Busy
    <2>2. ASSUME ~closed, NEW c \in Caller, Outstanding(c)
          PROVE  c = owner
      BY <2>1, <2>2, Zenon DEF IInv, OpenTasks, InCall
    <2>3. ASSUME ~closed, NEW i \in DOMAIN tasks
          PROVE  tasks[i].by = owner
      BY <2>2, <2>3 DEF IInv, OpenTasks, TypeOK, Task, Outstanding
    <2>4. ASSUME ~closed, worker \in {"io", "finish", "joining"}
          PROVE  serving = owner
      BY <2>2, <2>4, Zenon DEF IInv, Serving, TypeOK, Outstanding
    <2> QED  BY <2>1, <2>3, <2>4, Zenon
  <1> QED  BY AlwaysInv, <1>1, PTL

\* abort: a failed call, and a finish, return only after the child is reaped and
\* its record given up, for any number of threads that abort at once.
THEOREM FailureReaps == Spec => []ReturnedMeansReaped
  <1>1. IInv => ReturnedMeansReaped
    BY Zenon DEF IInv, Aborted, Settled, ReturnedMeansReaped
  <1> QED  BY AlwaysInv, <1>1, PTL
=============================================================================
