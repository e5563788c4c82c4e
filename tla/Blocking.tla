------------------------------ MODULE Blocking ------------------------------
(***************************************************************************)
(* How the calls of semaphores, events, mailboxes and message queues block *)
(* and wake: what threads and interrupt handlers do to the kernel record k *)
(* between the critical sections of an object.  A module of an object adds *)
(* its state, its calls, and the continuation of a call that has waited.   *)
(*                                                                         *)
(* The tick handler takes an expired timer off the list in one critical    *)
(* section and calls thread_timer_cb in another; more urgent handlers run  *)
(* in between.  Timers expire at any time.                                 *)
(***************************************************************************)
EXTENDS Kernel

\* The timeouts of waits: TRUE is Ticks(n), which expires at any time, FALSE is Forever.
CONSTANT Timed
ASSUME BlockingAssumption == Timed \subseteq BOOLEAN

VARIABLES
    k,       \* the kernel record
    pc,      \* where each thread is in a call
    popped   \* the thread whose timer the tick handler took off the list

kvars == <<k, pc, popped>>

\* "run": in no call; "owe": before the schedule() of a call; "block": before the
\* schedule() of blocked_wait; "wait": after it.
Phase == {"run", "owe", "block", "wait"}

Executing(c) == popped = None /\ Executes(k, c) /\ c # Idle
Calling(c) == Executing(c) /\ pc[c] = "run"
Resumed(c) == Executing(c) /\ pc[c] = "wait"
Goto(c, phase) == pc' = [pc EXCEPT ![c] = phase]
AfterCall(c, need) == Goto(c, IF need THEN "owe" ELSE "run")

\* wake_head(q), and whether the caller has to schedule.
Handover(q) == k.wq[q] # <<>>
Woken(q) == IF Handover(q) THEN WakeHead(k, q) ELSE k
Urgent(q) == Handover(q) /\ ReschedNeeded(k, Head(k.wq[q]))

-----------------------------------------------------------------------------
\* The schedule() that ends a call, or the first half of blocked_wait.
CallSchedule(c) ==
    /\ popped = None /\ Executes(k, c) /\ pc[c] \in {"owe", "block"}
    /\ k' \in Scheduled(k)
    /\ Goto(c, IF pc[c] = "owe" THEN "run" ELSE "wait")
    /\ UNCHANGED popped

\* Thread::suspend and Thread::resume, called by the thread c or, c = None, by a handler.
\* A handler's test against CURRENT (thread.rs:187) is one step with the critical section
\* after it: what comes of a switch between them is in Sched, IrqSuspendCheck.
SuspendThread(c, t) ==
    /\ c # None => Calling(c) /\ c # t
    /\ MaySuspend(k, t) /\ t # Idle
    /\ k' \in IF c = None THEN InHandler(Suspended(k, t), ReschedNeeded(k, t)) ELSE {Suspended(k, t)}
    /\ pc' = IF c # None /\ ReschedNeeded(k, t) THEN [pc EXCEPT ![c] = "owe"] ELSE pc
    /\ UNCHANGED popped

ResumeThread(c, t) ==
    /\ c # None => Calling(c) /\ c # t
    /\ MayResume(k, t)
    /\ k' \in IF c = None THEN InHandler(Wakeup(k, t), ReschedNeeded(k, t)) ELSE {Wakeup(k, t)}
    /\ pc' = IF c # None /\ ReschedNeeded(k, t) THEN [pc EXCEPT ![c] = "owe"] ELSE pc
    /\ UNCHANGED popped

\* timer::check in the tick handler: a timer expires ...
TimerPop(t) ==
    /\ popped = None /\ t \in k.armed
    /\ popped' = t
    /\ k' = [k EXCEPT !.armed = @ \ {t}]
    /\ UNCHANGED pc

\* ... and its callback looks at the thread's state.
TimerCallback ==
    /\ popped # None
    /\ popped' = None
    /\ IF k.st[popped] # "suspend" THEN k' = k
       ELSE k' \in InHandler(TimedOut(k, popped), ReschedNeeded(k, popped))
    /\ UNCHANGED pc

PendSV ==
    /\ popped = None /\ k.run # k.cur
    /\ k' = Dispatched(k)
    /\ UNCHANGED <<pc, popped>>

-----------------------------------------------------------------------------
BlockingInit ==
    /\ \E t \in FirstOf : k = KernelInit(t)
    /\ pc = [t \in Thread |-> "run"]
    /\ popped = None

Caller == Thread \cup {None}
Scheduling == \E c \in Thread : CallSchedule(c)
Timeouts   == TimerCallback \/ \E t \in Thread : TimerPop(t)
Resuming   == \E c \in Caller, t \in Thread : ResumeThread(c, t)
Suspending(callers) == \E c \in callers, t \in Thread : SuspendThread(c, t)

BlockingType ==
    /\ KernelType(k)
    /\ pc \in [Thread -> Phase]
    /\ popped \in Thread \cup {None}

\* A blocked thread that something other than a timeout took off its queue.
Served(t) == pc[t] \in {"block", "wait"} /\ ~Waits(k, t) /\ ~k.err[t]
=============================================================================
