------------------------------- MODULE Kernel -------------------------------
(***************************************************************************)
(* What the IPC objects see of the kernel: threads that are ready or wait, *)
(* CURRENT, the thread that executes, the wait queue of every object and   *)
(* the thread timers.  The state is one record k, and each operator is     *)
(* what a function of thread.rs, sched.rs or ipc.rs does to it inside one  *)
(* critical section; modules of the objects call several of them in one.   *)
(*                                                                         *)
(* Sched models the ready table, the switch request, nesting and start();  *)
(* here schedule() makes any of the most urgent ready threads CURRENT, and *)
(* PendSV makes CURRENT the executing thread, which is what Sched proves.  *)
(***************************************************************************)
EXTENDS Naturals, Sequences, SequencesExt, FiniteSets

CONSTANTS
    Thread,  \* the threads, all of them created
    Idle,    \* the idle thread: least urgent, makes no call
    Base,    \* init_priority of each thread
    Queue,   \* the wait queues of the objects
    None     \* the null pointer

ASSUME KernelAssumption ==
    /\ IsFiniteSet(Thread) /\ Idle \in Thread
    /\ Base \in [Thread -> Nat]
    /\ \A t \in Thread : Base[t] <= Base[Idle]
    /\ None \notin Thread \cup Queue

KernelInit(first) ==
    [st    |-> [t \in Thread |-> "ready"],  \* "ready", "suspend" or "close"
     prio  |-> Base,                        \* current_priority
     cur   |-> first,                       \* CURRENT
     run   |-> first,                       \* the executing thread
     err   |-> [t \in Thread |-> FALSE],    \* error: the wait timed out
     armed |-> {},                          \* thread_timer on the timer list
     sleep |-> {},                          \* SLEEP_LIST, whose order nobody looks at
     wq    |-> [q \in Queue |-> <<>>]]      \* suspend_list, sender_list

KernelType(k) ==
    /\ k.st \in [Thread -> {"ready", "suspend", "close"}]
    /\ k.prio \in [Thread -> Nat]
    /\ {k.cur, k.run} \subseteq Thread
    /\ k.err \in [Thread -> BOOLEAN]
    /\ k.armed \cup k.sleep \subseteq Thread
    /\ DOMAIN k.wq = Queue /\ \A q \in Queue : k.wq[q] \in Seq(Thread)

\* suspend_node is linked.
Waits(k, t) == t \in k.sleep \/ \E q \in Queue : t \in ToSet(k.wq[q])
FirstOf == {t \in Thread : \A u \in Thread : Base[t] <= Base[u]}

-----------------------------------------------------------------------------
(* Scheduling.                                                             *)

\* The threads schedule() may find at the head of the highest queue.
Highest(k) == {t \in Thread : /\ k.st[t] = "ready"
                              /\ \A u \in Thread : k.st[u] = "ready" => k.prio[t] <= k.prio[u]}

Scheduled(k) == {[k EXCEPT !.cur = t] : t \in Highest(k)}
ReschedNeeded(k, w) == k.prio[w] < k.prio[k.cur]

\* A handler calls schedule() at its end when it has to.
InHandler(k, need) == IF need THEN Scheduled(k) ELSE {k}

\* PendSV, pended while CURRENT is not the executing thread.
Dispatched(k) == [k EXCEPT !.run = k.cur]

\* Thread mode: c executes, and no switch is pending.
Executes(k, c) == k.run = c /\ k.cur = c

-----------------------------------------------------------------------------
(* Waiting and waking.                                                     *)

\* suspend_current: c joins the queue w of waiters at the tail.
SuspendWith(k, c, q, waiters, timed) ==
    [k EXCEPT !.err[c] = FALSE, !.wq[q] = waiters, !.st[c] = "suspend",
              !.armed = IF timed THEN @ \cup {c} ELSE @]
SuspendCurrent(k, c, q, timed) == SuspendWith(k, c, q, Append(k.wq[q], c), timed)

\* insert_prio_waiter: t goes before the first waiter that is less urgent.
InsertPrioWaiter(waiters, prio, t) ==
    LET i == SelectInSeq(waiters, LAMBDA w : prio[w] > prio[t])
    IN IF i = 0 THEN Append(waiters, t) ELSE InsertAt(waiters, i, t)

SuspendPrio(k, c, q, timed) ==
    SuspendWith(k, c, q, InsertPrioWaiter(k.wq[q], k.prio, c), timed)

\* suspend_node.remove()
Unqueue(k, t) ==
    [k EXCEPT !.wq = [q \in Queue |-> RemoveFirst(k.wq[q], t)], !.sleep = @ \ {t}]

\* wakeup_thread: stop the timer, make ready.
Wakeup(k, t) == [k EXCEPT !.armed = @ \ {t}, !.st[t] = "ready"]

\* wake_head, when somebody waits.
WakeHead(k, q) == Wakeup([k EXCEPT !.wq[q] = Tail(@)], Head(k.wq[q]))

\* thread_timer_cb, without the mutexes.
TimedOut(k, t) == Wakeup(Unqueue([k EXCEPT !.err[t] = TRUE], t), t)

\* delay_suspend: c sleeps until its timer wakes it.
Delayed(k, c) ==
    [k EXCEPT !.err[c] = FALSE, !.st[c] = "suspend", !.armed = @ \cup {c}, !.sleep = @ \cup {c}]

\* Thread::suspend and Thread::resume of a thread.
MaySuspend(k, t) == t # k.cur /\ k.st[t] = "ready"
Suspended(k, t) == [k EXCEPT !.st[t] = "suspend"]
\* Variant: resumes threads that wait for an object, too.
MayResumeWaiter(k, t) == k.st[t] = "suspend"

MayResume(k, t) == k.st[t] = "suspend" /\ ~Waits(k, t)

-----------------------------------------------------------------------------
\* Nobody who executes and owes no schedule() is outranked by a ready thread.
MostUrgent(k, owing) ==
    k.run = k.cur /\ k.run \notin owing =>
        /\ k.st[k.run] = "ready"
        /\ \A t \in Thread : k.st[t] = "ready" => k.prio[k.run] <= k.prio[t]

\* A thread waits in at most one list, once; whoever waits is suspended, and a running
\* timer belongs to a waiter.
WaitersSound(k) ==
    /\ \A q \in Queue : IsInjective(k.wq[q])
    /\ \A q \in Queue : ToSet(k.wq[q]) \cap k.sleep = {}
    /\ \A q, r \in Queue : q # r => ToSet(k.wq[q]) \cap ToSet(k.wq[r]) = {}
    /\ \A t \in Thread : Waits(k, t) => k.st[t] = "suspend"
    /\ \A t \in k.armed : Waits(k, t)
=============================================================================
