---------------------------- MODULE OwnedProcess ----------------------------
(***************************************************************************)
(* A simulator child behind a binary pipe (OwnedBinaryProcess of           *)
(* backends/_child_process.py).  Client threads hand reads and writes to   *)
(* one worker thread through a queue and wait for the answer until their   *)
(* deadline; a timer thread ends the whole process at the end of its       *)
(* lifetime; a third thread drains stderr and may end it too.  Whoever     *)
(* fails first aborts: it closes the object, kills and reaps the child and *)
(* sends the worker home, racing with the others, who look at the flags    *)
(* without the lock.                                                       *)
(*                                                                         *)
(* Time is kept by what has passed: the lifetime deadline and the deadline *)
(* of the open exchange.  A waiting thread may time out any time after.    *)
(* Closing the pipes after an abort is left out: the worker's call on a    *)
(* reaped child fails either way.                                          *)
(***************************************************************************)
EXTENDS Integers, Sequences, FiniteSets

CONSTANTS
    Caller,      \* client threads
    MaxCalls,    \* bound on the calls of all client threads
    MaxFaults    \* bound on kills that fail: 0 or 1

\* There are finitely many client threads, told apart from the object's own.
ASSUME OwnedAssumption ==
    /\ {MaxCalls, MaxFaults} \subseteq Nat
    /\ IsFiniteSet(Caller)
    /\ Caller \cap {"timer", "stderr", "free", "none"} = {}

VARIABLES
    pc,          \* where each thread but the worker is
    closed,      \* _closed
    failure,     \* _failure is set
    lock,        \* the thread in the middle of an abort, or "free"
    child,       \* "running", "exited" or "reaped"
    registered,  \* is the child in _OwnedChildRegistry._children?
    tasks,       \* _tasks
    worker,      \* the task of the worker thread, "idle", "joining" or "done"
    serving,     \* the caller the worker works for
    answer,      \* the one-place result queue of a caller's call
    owner,       \* _io_owner
    active,      \* _active_io_calls
    expired,     \* the lifetime deadline has passed
    overdue,     \* the deadline of the open exchange has passed
    op,          \* the call a caller makes: "io" (read or write) or "finish"
    bounded,     \* did the call take the exchange's deadline?
    outcome,     \* how the caller's last call ended
    calls, faults

flags == <<closed, failure, lock>>
process == <<child, registered>>
work == <<tasks, worker, serving, answer>>
exchange == <<owner, active>>
clock == <<expired, overdue>>
call == <<op, bounded, outcome, calls>>
vars == <<pc, flags, process, work, exchange, clock, call, faults>>

Thread == Caller \cup {"timer", "stderr"}

None == "none"

Task == [by : Caller, op : {"io", "finish"}]

Stop == [by |-> None, op |-> "stop"]   \* the None that abort puts in the queue

InCall == {"entered", "checked", "waiting", "failing", "returning"}

\* The state has its declared shape.
TypeOK ==
    /\ pc \in [Thread -> InCall \cup {"idle", "closing", "exiting", "clearing",
                                      "armed", "reading", "aborting", "done"}]
    /\ pc["timer"] \in {"armed", "aborting", "done"}
    /\ pc["stderr"] \in {"reading", "aborting", "done"}
    /\ \A c \in Caller : pc[c] \in InCall \cup {"idle", "closing", "exiting", "clearing"}
    /\ closed \in BOOLEAN /\ failure \in BOOLEAN
    /\ lock \in Thread \cup {"free"}
    /\ child \in {"running", "exited", "reaped"} /\ registered \in BOOLEAN
    /\ tasks \in Seq(Task \cup {Stop})
    /\ worker \in {"idle", "io", "finish", "joining", "done"}
    /\ serving \in Caller \cup {None}
    /\ answer \in [Caller -> {None, "ok", "error"}]
    /\ owner \in Caller \cup {None} /\ active \in Nat
    /\ expired \in BOOLEAN /\ overdue \in BOOLEAN
    /\ op \in [Caller -> {"io", "finish"}]
    /\ bounded \in [Caller -> BOOLEAN]
    /\ outcome \in [Caller -> {None, "ok", "error"}]
    /\ calls \in Nat /\ faults \in Nat

\* The threads are started, the child registered; the first call is the handshake.
Init ==
    /\ pc = [t \in Thread |-> CASE t = "timer" -> "armed"
                                [] t = "stderr" -> "reading"
                                [] OTHER -> "idle"]
    /\ closed = FALSE /\ failure = FALSE /\ lock = "free"
    /\ child = "running" /\ registered = TRUE
    /\ tasks = <<>> /\ worker = "idle" /\ serving = None
    /\ answer = [c \in Caller |-> None]
    /\ owner = None /\ active = 0
    /\ expired = FALSE /\ overdue = FALSE
    /\ op = [c \in Caller |-> "io"]
    /\ bounded = [c \in Caller |-> FALSE]
    /\ outcome = [c \in Caller |-> None]
    /\ calls = 0
    /\ faults = 0

Go(t, p) == pc' = [pc EXCEPT ![t] = p]

----------------------------------------------------------------------------
(* _call *)

\* The ownership check and the captured deadline, under the lock.
Enter(c, o) ==
    /\ pc[c] = "idle" /\ lock = "free"
    /\ calls < MaxCalls
    /\ owner \in {None, c}
    /\ Go(c, "entered")
    /\ active' = active + 1
    /\ op' = [op EXCEPT ![c] = o]
    /\ bounded' = [bounded EXCEPT ![c] = owner = c]
    /\ outcome' = [outcome EXCEPT ![c] = None]
    /\ calls' = calls + 1
    /\ UNCHANGED <<flags, process, work, owner, clock, faults>>

Passed(c) == IF bounded[c] THEN overdue ELSE expired

\* The flags and the deadline are looked at without the lock.
Check(c) ==
    /\ pc[c] = "entered"
    /\ Go(c, IF failure \/ closed \/ Passed(c) THEN "failing" ELSE "checked")
    /\ UNCHANGED <<flags, process, work, exchange, clock, call, faults>>

\* Others may have aborted since the check: the task can land behind Stop.
Put(c) ==
    /\ pc[c] = "checked"
    /\ Go(c, "waiting")
    /\ tasks' = Append(tasks, [by |-> c, op |-> op[c]])
    /\ UNCHANGED <<flags, process, worker, serving, answer, exchange, clock, call, faults>>

\* The answer arrived; a failure recorded meanwhile overrules it.
Receive(c) ==
    /\ pc[c] = "waiting"
    /\ answer[c] # None
    /\ answer' = [answer EXCEPT ![c] = None]
    /\ IF failure \/ answer[c] = "error"
       THEN Go(c, "failing") /\ UNCHANGED outcome
       ELSE Go(c, "returning") /\ outcome' = [outcome EXCEPT ![c] = "ok"]
    /\ UNCHANGED <<flags, process, tasks, worker, serving, exchange, clock,
                   op, bounded, calls, faults>>

\* Mutant: a closed process is expected to have answered.
TimeOut_OnlyOpen(c) ==
    /\ pc[c] = "waiting"
    /\ answer[c] = None
    /\ Passed(c) /\ ~closed
    /\ Go(c, "failing")
    /\ UNCHANGED <<flags, process, work, exchange, clock, call, faults>>

\* result.get gives up at the deadline.
TimeOut(c) ==
    /\ pc[c] = "waiting"
    /\ answer[c] = None
    /\ Passed(c)
    /\ Go(c, "failing")
    /\ UNCHANGED <<flags, process, work, exchange, clock, call, faults>>

\* The finally branch; finish aborts once more, whether its call failed or not.
Leave(c) ==
    /\ pc[c] = "returning" /\ lock = "free"
    /\ Go(c, IF op[c] = "finish" THEN "closing" ELSE "idle")
    /\ active' = active - 1
    /\ bounded' = [bounded EXCEPT ![c] = FALSE]
    /\ UNCHANGED <<flags, process, work, owner, clock, op, outcome, calls, faults>>

----------------------------------------------------------------------------
(* abort *)

Aborting == {"failing", "closing", "exiting", "aborting"}

\* Where a thread goes on after its abort.
After(p) == CASE p = "failing" -> "returning"
              [] p = "closing" -> "idle"
              [] p = "exiting" -> "clearing"
              [] p = "aborting" -> "done"

\* The caller of _call or of io_deadline sees the first error of the two.
Ends(t) ==
    outcome' = IF t \in Caller /\ pc[t] = "failing"
               THEN [outcome EXCEPT ![t] = "error"] ELSE outcome

\* Mutant: the second abort returns without waiting for the first.
AbortAgain_Unlocked(t) ==
    /\ pc[t] \in Aborting /\ closed /\ lock # t
    /\ Go(t, After(pc[t]))
    /\ Ends(t)
    /\ UNCHANGED <<flags, process, work, exchange, clock, op, bounded, calls, faults>>

\* Another thread has aborted, and is done with it since it held the lock.
AbortAgain(t) ==
    /\ pc[t] \in Aborting /\ closed /\ lock = "free"
    /\ Go(t, After(pc[t]))
    /\ Ends(t)
    /\ UNCHANGED <<flags, process, work, exchange, clock, op, bounded, calls, faults>>

\* The first abort takes the lock, closes the object and cancels the timer.
Abort(t) ==
    /\ pc[t] \in Aborting /\ ~closed /\ lock = "free"
    /\ closed' = TRUE
    /\ lock' = t
    /\ pc' = [pc EXCEPT !["timer"] = IF pc["timer"] = "armed" THEN "done" ELSE pc["timer"]]
    /\ UNCHANGED <<failure, process, work, exchange, clock, call, faults>>

\* Mutant: the worker is not told.
Kill_NoStop(t) ==
    /\ lock = t
    /\ lock' = "free"
    /\ child' = "reaped" /\ registered' = FALSE
    /\ Go(t, After(pc[t]))
    /\ Ends(t)
    /\ UNCHANGED <<closed, failure, work, exchange, clock, op, bounded, calls, faults>>

\* It kills the group and reaps the child, gives the record up and sends the
\* worker home.
Kill(t) ==
    /\ lock = t
    /\ lock' = "free"
    /\ child' = "reaped" /\ registered' = FALSE
    /\ tasks' = Append(tasks, Stop)
    /\ Go(t, After(pc[t]))
    /\ Ends(t)
    /\ UNCHANGED <<closed, failure, worker, serving, answer, exchange, clock,
                   op, bounded, calls, faults>>

\* The killed child does not end within the grace period: the record is given
\* up all the same, and the worker is not told.
KillFails(t) ==
    /\ lock = t
    /\ faults < MaxFaults
    /\ child # "reaped"
    /\ faults' = faults + 1
    /\ lock' = "free"
    /\ registered' = FALSE
    /\ Go(t, After(pc[t]))
    /\ Ends(t)
    /\ UNCHANGED <<closed, failure, child, work, exchange, clock, op, bounded, calls>>

\* abort called by the client, or by leaving the process context.
CallAbort(c) ==
    /\ pc[c] = "idle"
    /\ Go(c, "closing")
    /\ UNCHANGED <<flags, process, work, exchange, clock, call, faults>>

----------------------------------------------------------------------------
(* io_deadline *)

\* Mutant: an exchange starts over somebody's call.
OpenExchange_OverCalls(c) ==
    /\ pc[c] = "idle" /\ lock = "free"
    /\ owner = None
    /\ ~failure /\ ~closed
    /\ owner' = c
    /\ overdue' = expired
    /\ Go(c, IF expired THEN "exiting" ELSE "idle")
    /\ UNCHANGED <<flags, process, work, active, expired, call, faults>>

\* An exchange starts only while nobody owns one and no call is under way.
OpenExchange(c) ==
    /\ pc[c] = "idle" /\ lock = "free"
    /\ owner = None /\ active = 0
    /\ ~failure /\ ~closed
    /\ owner' = c
    /\ overdue' = expired
    /\ Go(c, IF expired THEN "exiting" ELSE "idle")
    /\ UNCHANGED <<flags, process, work, active, expired, call, faults>>

\* The body ended, by itself or by the exception of a call in it.
CloseExchange(c) ==
    /\ pc[c] = "idle" /\ owner = c
    /\ Go(c, IF failure \/ overdue \/ outcome[c] = "error" THEN "exiting" ELSE "clearing")
    /\ UNCHANGED <<flags, process, work, exchange, clock, call, faults>>

ClearExchange(c) ==
    /\ pc[c] = "clearing" /\ lock = "free"
    /\ Go(c, "idle")
    /\ owner' = None
    /\ overdue' = FALSE
    /\ UNCHANGED <<flags, process, work, active, expired, call, faults>>

----------------------------------------------------------------------------
(* The clock, the timer, the stderr thread, the worker and the child *)

LifetimePasses ==
    /\ ~expired
    /\ expired' = TRUE
    /\ overdue' = (overdue \/ owner # None)
    /\ UNCHANGED <<pc, flags, process, work, exchange, call, faults>>

ExchangePasses ==
    /\ owner # None /\ ~overdue
    /\ overdue' = TRUE
    /\ UNCHANGED <<pc, flags, process, work, exchange, expired, call, faults>>

\* _expire records the failure before it aborts.
Expire ==
    /\ pc["timer"] = "armed" /\ expired
    /\ failure' = TRUE
    /\ Go("timer", "aborting")
    /\ UNCHANGED <<closed, lock, process, work, exchange, clock, call, faults>>

\* The child wrote more than a mebibyte to stderr; what it left in the pipe is
\* still read after its end.
StderrOverflows ==
    /\ pc["stderr"] = "reading" /\ lock = "free"
    /\ failure' = TRUE
    /\ Go("stderr", "aborting")
    /\ UNCHANGED <<closed, lock, process, work, exchange, clock, call, faults>>

StderrEnds ==
    /\ pc["stderr"] = "reading"
    /\ child # "running"
    /\ Go("stderr", "done")
    /\ UNCHANGED <<flags, process, work, exchange, clock, call, faults>>

Take ==
    /\ worker = "idle" /\ tasks # <<>>
    /\ tasks' = Tail(tasks)
    /\ IF Head(tasks) = Stop
       THEN worker' = "done" /\ UNCHANGED serving
       ELSE worker' = Head(tasks).op /\ serving' = Head(tasks).by
    /\ UNCHANGED <<pc, flags, process, answer, exchange, clock, call, faults>>

\* The answer to a call that has timed out goes to a queue nobody reads.
Answer(a) ==
    /\ worker' = "idle"
    /\ answer' = IF pc[serving] = "waiting" THEN [answer EXCEPT ![serving] = a] ELSE answer
    /\ serving' = None
    /\ UNCHANGED <<pc, flags, process, tasks, exchange, clock, call, faults>>

\* The child reads what is written, or has written what is read.
IoSucceeds == worker = "io" /\ Answer("ok")

\* Its pipe ended; for finish also trailing output, or a child reaped by others.
IoFails == worker \in {"io", "finish"} /\ Answer("error")

\* finish_io: output ended and the child exited; its group is killed, it is
\* reaped, and the stderr thread is waited for.
FinishReaps ==
    /\ worker = "finish" /\ child = "exited"
    /\ child' = "reaped"
    /\ worker' = "joining"
    /\ UNCHANGED <<pc, flags, registered, tasks, serving, answer, exchange, clock, call, faults>>

FinishJoins ==
    /\ worker = "joining"
    /\ \/ pc["stderr"] = "done" /\ Answer("ok")
       \/ pc["stderr"] # "done" /\ expired /\ Answer("error")

ChildExits ==
    /\ child = "running"
    /\ child' = "exited"
    /\ UNCHANGED <<pc, flags, registered, work, exchange, clock, call, faults>>

\* cleanup_all, by a signal or at exit: every registered child ends.
CleanupAll ==
    /\ registered
    /\ child' = "reaped" /\ registered' = FALSE
    /\ UNCHANGED <<pc, flags, work, exchange, clock, call, faults>>

----------------------------------------------------------------------------

\* What a thread does once it is in a call or an abort.
CallerStep(c) ==
    Check(c) \/ Put(c) \/ Receive(c) \/ TimeOut(c) \/ Leave(c) \/ ClearExchange(c)

AbortStep(t) == AbortAgain(t) \/ Abort(t) \/ Kill(t) \/ KillFails(t)

WorkerStep == Take \/ IoSucceeds \/ IoFails \/ FinishReaps \/ FinishJoins

Next ==
    \/ \E c \in Caller : \/ \E o \in {"io", "finish"} : Enter(c, o)
                        \/ CallerStep(c) \/ CallAbort(c)
                        \/ OpenExchange(c) \/ CloseExchange(c)
    \/ \E t \in Thread : AbortStep(t)
    \/ WorkerStep
    \/ LifetimePasses \/ ExchangePasses
    \/ Expire \/ StderrOverflows \/ StderrEnds
    \/ ChildExits \/ CleanupAll

Spec == Init /\ [][Next]_vars

\* The threads run and time passes.  The child owes nothing: it may never read,
\* write or exit, so the worker is sure to get on only once the child is reaped,
\* and the clients owe no call and no end of an exchange.
Fairness ==
    /\ \A c \in Caller : WF_vars(CallerStep(c))
    /\ \A t \in Thread : WF_vars(AbortStep(t))
    /\ WF_vars(LifetimePasses) /\ WF_vars(Expire)
    /\ WF_vars(child = "reaped" /\ (IoSucceeds \/ IoFails))
    /\ WF_vars(child = "reaped" /\ StderrEnds)
    /\ WF_vars(Take \/ FinishJoins)

FairSpec == Spec /\ Fairness

----------------------------------------------------------------------------
(* Properties *)

\* While a thread owns an exchange of an open process, every call under way and
\* every task that is queued or worked on is its own: nobody's bytes come
\* between a request and its response.
ExchangeExclusive ==
    owner # None =>
        /\ \A c \in Caller \ {owner} : pc[c] \notin InCall
        /\ ~closed =>
             /\ \A i \in DOMAIN tasks : tasks[i].by = owner
             /\ worker \in {"io", "finish", "joining"} => serving = owner

\* A call that began and raised, and a finish that returned at all, leaves no child
\* behind (one the ownership check turns away has not begun): it is reaped and its record given up, whichever thread got to abort first
\* (unless the kill itself failed).
ReturnedMeansReaped ==
    \A c \in Caller :
        /\ pc[c] = "idle"
        /\ outcome[c] = "error" \/ op[c] = "finish"
        /\ faults = 0
        => child = "reaped" /\ ~registered

\* Every call returns: whatever the child does, also when the task was queued
\* behind the worker's stop, and also when the kill fails.
EveryCallReturns ==
    \A c \in Caller : pc[c] # "idle" ~> pc[c] = "idle"

\* Once the process was aborted its threads come to an end, the worker also out
\* of a call it is blocked in (unless the kill failed).
ThreadsEnd ==
    (closed /\ lock = "free" /\ faults = 0) ~>
        (worker = "done" /\ pc["timer"] = "done" /\ pc["stderr"] = "done")
=============================================================================
