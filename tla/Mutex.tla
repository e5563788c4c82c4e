------------------------------- MODULE Mutex -------------------------------
(***************************************************************************)
(* Mutexes with priority inheritance (ipc.rs): Mutex::lock, the unlock of  *)
(* a dropped MutexGuard, timeouts of waiters (thread.rs, thread_timer_cb), *)
(* and deletion of holders and waiters (delete_bookkeeping).  The record k *)
(* of Kernel has three more fields here: owner and taken_list of the       *)
(* mutexes, and pending_mutex of the threads.                              *)
(***************************************************************************)
EXTENDS Kernel

CONSTANTS
    MaxHeld,     \* bound on the guards one thread holds
    Deletable,   \* the threads that may be deleted
    Pausable,    \* the threads that Thread::suspend is called for
    Sleeper      \* the threads that call thread_delay

ASSUME MutexAssumption ==
    /\ MaxHeld \in Nat
    /\ Deletable \cup Pausable \cup Sleeper \subseteq Thread \ {Idle}

\* A mutex and its wait queue have one name.
Mutexes == Queue

VARIABLES
    k,         \* the kernel record, with owner, taken and pending
    pc,        \* where each thread is in a call
    wants,     \* the mutex of a thread's blocked lock()
    guards,    \* the live MutexGuards of each thread
    popped     \* the thread whose timer the tick handler took off the list

vars == <<k, pc, wants, guards, popped>>

-----------------------------------------------------------------------------
(* The dependency graph: a thread waits for the owner of its pending mutex.*)

Successor(s, t) ==
    IF t = None \/ s.pending[t] = None \/ s.owner[s.pending[t]] = t
    THEN None ELSE s.owner[s.pending[t]]

\* x after n rounds of a loop's body.
Iterate(Body(_), x, n) ==
    LET after[i \in 0 .. n] == IF i = 0 THEN x ELSE LET y == after[i - 1] IN Body(y)
    IN after[n]

\* No loop below runs longer: a chain visits a thread once, a cycle is met within two turns.
Rounds == 2 * Cardinality(Thread) + 2

\* inheritance_cycle_entry: Floyd's two pointers meet in the cycle, then at its entry.
CycleEntry(s, start) ==
    LET next(t)   == Successor(s, t)
        stop(p)   == p.slow = None \/ p.fast = None \/ p.slow = p.fast
        chase(p)  == IF stop(p) THEN p
                     ELSE [slow |-> next(p.slow), fast |-> next(next(p.fast))]
        met       == Iterate(chase, [slow |-> next(start), fast |-> next(next(start))], Rounds)
        approach(p) == IF p.slow = p.fast THEN p
                       ELSE [slow |-> next(p.slow), fast |-> next(p.fast)]
    IN IF met.slow = None \/ met.fast = None THEN None
       ELSE Iterate(approach, [slow |-> start, fast |-> met.fast], Rounds).slow

\* sched::change_priority, and the place in the queue of the mutex the thread waits for.
Requeue(s, t) ==
    LET q == s.pending[t]
    IN [s EXCEPT !.wq[q] = InsertPrioWaiter(RemoveFirst(@, t), s.prio, t)]

\* Variant: the thread keeps its place in the queue.
ReprioritizedInPlace(s, t, p) == [s EXCEPT !.prio[t] = p]

Reprioritized(s, t, p) ==
    LET s1 == [s EXCEPT !.prio[t] = p]
    IN IF s.pending[t] = None THEN s1 ELSE Requeue(s1, t)

\* One round of the loops of priority_inherit and recompute_priority_chain: the thread
\* "at" gets priority "p", or has it already; "entered" says that the cycle was entered.
ChainStep(w, p, stop, entry) ==
    IF w.at = None THEN w
    ELSE IF stop THEN [w EXCEPT !.at = None]
    ELSE LET s == Reprioritized(w.s, w.at, p)
             o == IF w.s.pending[w.at] = None THEN None ELSE Successor(s, w.at)
         IN [s |-> s,
             at |-> IF o = entry /\ w.entered THEN None ELSE o,
             entered |-> w.entered \/ o = entry]

Walk(s, start, Body(_)) ==
    Iterate(Body, [s |-> s, at |-> start, entered |-> start = CycleEntry(s, start)], Rounds).s

PriorityInherit(s, chain, p) ==
    LET entry == CycleEntry(s, chain)
        body(w) == ChainStep(w, p, w.at # None /\ w.s.prio[w.at] <= p, entry)
    IN Walk(s, chain, body)

\* The most urgent of the thread's own priority and the first waiters of its mutexes.
EffectivePriority(s, t) ==
    LET heads == {s.prio[Head(s.wq[m])] : m \in {m \in ToSet(s.taken[t]) : s.wq[m] # <<>>}}
    IN Min({Base[t]} \cup heads)

RecomputeChain(s, t) ==
    LET entry == CycleEntry(s, t)
        body(w) == LET p == IF w.at = None THEN 0 ELSE EffectivePriority(w.s, w.at)
                   IN ChainStep(w, p, w.at # None /\ w.s.prio[w.at] = p, entry)
    IN Walk(s, t, body)

-----------------------------------------------------------------------------
(* Ownership.                                                              *)

Free(s, m) == [s EXCEPT !.taken[s.owner[m]] = RemoveFirst(@, m), !.owner[m] = None]
Own(s, m, t) == [s EXCEPT !.owner[m] = t, !.taken[t] = <<m>> \o @]

\* The most urgent waiter becomes the owner of a mutex that was freed.
PassOn(s, m) ==
    IF s.wq[m] = <<>> THEN s
    ELSE LET w == Head(s.wq[m]) IN Own([WakeHead(s, m) EXCEPT !.pending[w] = None], m, w)

\* unlock, by whoever is CURRENT; anybody but the owner is ignored.
Unlocked(s, m) ==
    IF s.owner[m] # s.cur THEN s ELSE PassOn(RecomputeChain(Free(s, m), s.cur), m)
\* Variant: compares with the priority the caller had inherited.
UnlockNeedsStale(s, m) ==
    s.owner[m] = s.cur /\ s.wq[m] # <<>> /\ ReschedNeeded(s, Head(s.wq[m]))

UnlockNeeds(s, m) ==
    LET r == Unlocked(s, m)
    IN s.owner[m] = s.cur /\ s.wq[m] # <<>> /\ ReschedNeeded(r, r.owner[m])

\* Variant: the owner keeps what it inherited.
WaiterRemovedBoosted(s, t) == [s EXCEPT !.pending[t] = None]

\* mutex_waiter_removed: t left the queue of the mutex it waited for.
WaiterRemoved(s, t) ==
    LET m  == s.pending[t]
        s1 == [s EXCEPT !.pending[t] = None]
    IN IF m = None \/ s.owner[m] \in {None, t} THEN s1 ELSE RecomputeChain(s1, s.owner[m])

WaitTimedOut(s, t) ==
    Wakeup(WaiterRemoved(Unqueue([s EXCEPT !.err[t] = TRUE], t), t), t)

\* mutex_release_all_held
ReleaseAllHeld(s, t) ==
    LET pass(r) == IF r.taken[t] = <<>> THEN r
                   ELSE PassOn(Free(r, Head(r.taken[t])), Head(r.taken[t]))
    IN Iterate(pass, s, Len(s.taken[t]))

\* delete_bookkeeping
Deleted(s, t) ==
    IF s.st[t] = "close" THEN s
    ELSE LET s1 == [ReleaseAllHeld(s, t) EXCEPT !.armed = @ \ {t}]
         IN [WaiterRemoved(Unqueue(s1, t), t) EXCEPT !.st[t] = "close"]

-----------------------------------------------------------------------------
(* Calls of threads.                                                       *)

Calls(c) == popped = None /\ Executes(k, c) /\ c # Idle /\ pc[c] = "run" /\ k.st[c] = "ready"
Goto(c, phase) == pc' = [pc EXCEPT ![c] = phase]
AfterCall(c, need) == Goto(c, IF need THEN "owe" ELSE "run")

\* lock(): a free mutex.  (An owner that locks again gets Invalid, and a failed try
\* TimedOut: neither changes anything.)
LockFree(c, m) ==
    /\ Calls(c) /\ k.owner[m] = None
    /\ Cardinality(guards[c]) < MaxHeld
    /\ k' = Own(k, m, c)
    /\ guards' = [guards EXCEPT ![c] = @ \cup {m}]
    /\ UNCHANGED <<pc, wants, popped>>

\* lock(): another thread owns it.  It inherits the caller's priority, and the caller
\* waits, with or without a timeout.
LockBlock(c, m, timed) ==
    /\ Calls(c) /\ k.owner[m] \notin {None, c}
    /\ Cardinality(guards[c]) < MaxHeld
    /\ LET o == k.owner[m]
           s == IF k.prio[o] > k.prio[c] THEN PriorityInherit(k, o, k.prio[c]) ELSE k
       IN k' = SuspendPrio([s EXCEPT !.pending[c] = m], c, m, timed)
    /\ wants' = [wants EXCEPT ![c] = m]
    /\ Goto(c, "block")
    /\ UNCHANGED <<guards, popped>>

\* The schedule() that ends a call, or the first half of blocked_wait ...
CallSchedule(c) ==
    /\ popped = None /\ Executes(k, c) /\ pc[c] \in {"owe", "block"}
    /\ k' \in Scheduled(k)
    /\ Goto(c, IF pc[c] = "owe" THEN "run" ELSE "wait")
    /\ UNCHANGED <<wants, guards, popped>>

\* Variant: a wait that timed out returns a guard.
LockReturnBlind(c) ==
    /\ popped = None /\ Executes(k, c) /\ pc[c] = "wait"
    /\ guards' = [guards EXCEPT ![c] = @ \cup {wants[c]}]
    /\ wants' = [wants EXCEPT ![c] = None]
    /\ Goto(c, "run")
    /\ UNCHANGED <<k, popped>>

\* ... and the second: without an error the caller has become the owner.
LockReturn(c) ==
    /\ popped = None /\ Executes(k, c) /\ pc[c] = "wait"
    /\ guards' = IF k.err[c] THEN guards ELSE [guards EXCEPT ![c] = @ \cup {wants[c]}]
    /\ wants' = [wants EXCEPT ![c] = None]
    /\ Goto(c, "run")
    /\ UNCHANGED <<k, popped>>

\* A guard is dropped.
DropGuard(c, m) ==
    /\ Calls(c) /\ m \in guards[c]
    /\ guards' = [guards EXCEPT ![c] = @ \ {m}]
    /\ k' = Unlocked(k, m)
    /\ AfterCall(c, UnlockNeeds(k, m))
    /\ UNCHANGED <<wants, popped>>

\* A deleted thread's stack is not unwound: its guards are never dropped.
Forget(t) ==
    /\ guards' = [guards EXCEPT ![t] = {}]
    /\ wants' = [wants EXCEPT ![t] = None]

\* thread_exit and force_delete
Delete(c, t) ==
    /\ Calls(c) /\ t \in Deletable
    /\ k' = Deleted(k, t)
    /\ Forget(t)
    /\ Goto(c, "owe")
    /\ UNCHANGED <<popped>>

\* thread_delay
Sleep(c) ==
    /\ Calls(c) /\ c \in Sleeper
    /\ k' = Delayed(k, c)
    /\ Goto(c, "owe")
    /\ UNCHANGED <<wants, guards, popped>>

Pause(c, t) ==
    /\ Calls(c) /\ t \in Pausable /\ MaySuspend(k, t)
    /\ k' = Suspended(k, t)
    /\ AfterCall(c, ReschedNeeded(k, t))
    /\ UNCHANGED <<wants, guards, popped>>

Resume(c, t) ==
    /\ Calls(c) /\ MayResume(k, t)
    /\ k' = Wakeup(k, t)
    /\ AfterCall(c, ReschedNeeded(k, t))
    /\ UNCHANGED <<wants, guards, popped>>

-----------------------------------------------------------------------------
(* Handlers.                                                               *)

\* timer::check in the tick handler: a wait times out ...
TimerPop(t) ==
    /\ popped = None /\ t \in k.armed
    /\ popped' = t
    /\ k' = [k EXCEPT !.armed = @ \ {t}]
    /\ UNCHANGED <<pc, wants, guards>>

\* ... and its callback looks at the thread's state.
TimerCallback ==
    /\ popped # None
    /\ popped' = None
    /\ IF k.st[popped] # "suspend" THEN k' = k
       ELSE LET s == WaitTimedOut(k, popped) IN k' \in InHandler(s, ReschedNeeded(s, popped))
    /\ UNCHANGED <<pc, wants, guards>>

DeleteInHandler(t) ==
    /\ t \in Deletable \ {k.cur}
    /\ k' \in InHandler(Deleted(k, t), TRUE)
    /\ Forget(t)
    /\ UNCHANGED <<pc, popped>>

ResumeInHandler(t) ==
    /\ MayResume(k, t)
    /\ k' \in InHandler(Wakeup(k, t), ReschedNeeded(k, t))
    /\ UNCHANGED <<pc, wants, guards, popped>>

PendSV ==
    /\ popped = None /\ k.run # k.cur
    /\ k' = Dispatched(k)
    /\ UNCHANGED <<pc, wants, guards, popped>>

-----------------------------------------------------------------------------
MutexInit(b) ==
    [st |-> b.st, prio |-> b.prio, cur |-> b.cur, run |-> b.run, err |-> b.err,
     armed |-> b.armed, sleep |-> b.sleep, wq |-> b.wq,
     owner   |-> [m \in Mutexes |-> None],
     taken   |-> [t \in Thread |-> <<>>],
     pending |-> [t \in Thread |-> None]]

Init ==
    /\ \E t \in FirstOf : k = MutexInit(KernelInit(t))
    /\ pc = [t \in Thread |-> "run"]
    /\ wants = [t \in Thread |-> None]
    /\ guards = [t \in Thread |-> {}]
    /\ popped = None

ThreadNext(c) ==
    \/ \E m \in Mutexes : LockFree(c, m) \/ DropGuard(c, m)
                          \/ \E timed \in BOOLEAN : LockBlock(c, m, timed)
    \/ CallSchedule(c) \/ LockReturn(c) \/ Sleep(c)
    \/ \E t \in Thread : Delete(c, t) \/ Pause(c, t) \/ Resume(c, t)

HandlerNext ==
    \/ TimerCallback
    \/ \E t \in Thread : TimerPop(t) \/ DeleteInHandler(t) \/ ResumeInHandler(t)

Next == (\E c \in Thread : ThreadNext(c)) \/ HandlerNext \/ PendSV

Spec == Init /\ [][Next]_vars

-----------------------------------------------------------------------------
\* The three lists agree: taken_list with owner, pending_mutex with the wait queue; a
\* mutex without owner has no waiters, and no dead thread owns or waits.
ListsAgree ==
    /\ \A m \in Mutexes, t \in Thread :
         /\ k.owner[m] = t <=> m \in ToSet(k.taken[t])
         /\ k.pending[t] = m <=> t \in ToSet(k.wq[m])
         /\ k.st[t] = "close" => k.owner[m] # t /\ k.pending[t] # m
    /\ \A t \in Thread : IsInjective(k.taken[t])
    /\ \A m \in Mutexes : k.owner[m] = None => k.wq[m] = <<>>
    /\ WaitersSound(k)

\* The release always happens: an owned mutex has a live guard, or its new owner is
\* about to return from lock() with one.  No timeout, death or hand-over leaves a mutex
\* owned for good.
Acquiring(t, m) == wants[t] = m /\ pc[t] \in {"block", "wait"} /\ ~Waits(k, t) /\ ~k.err[t]
OwnedHasGuard ==
    \A m \in Mutexes : k.owner[m] # None => m \in guards[k.owner[m]] \/ Acquiring(k.owner[m], m)

\* At most one guard of a mutex is alive, and its thread is the owner: timeouts, deaths
\* and hand-overs never leave two contexts with the protected data, nor a mutex that is
\* owned for good.
GuardExclusive ==
    /\ \A m \in Mutexes, t \in Thread : m \in guards[t] =>
         /\ k.owner[m] = t
         /\ \A u \in Thread \ {t} : m \notin guards[u]
    /\ OwnedHasGuard

\* Every living thread runs at its own priority or that of the most urgent thread that
\* waits for it, directly or along a chain: no boost is missing and none is left over
\* after unlock, timeout and death, also when threads deadlock in a cycle.
PriorityExact ==
    \A t \in Thread : k.st[t] # "close" => k.prio[t] = EffectivePriority(k, t)

\* The waiters of a mutex are in order of their current priorities, so that unlock
\* hands over to the most urgent one although priorities change while they wait; and the
\* queues, the owners and the lists of taken mutexes agree.
QueuesSorted ==
    /\ \A m \in Mutexes : \A i, j \in DOMAIN k.wq[m] :
         i < j => k.prio[k.wq[m][i]] <= k.prio[k.wq[m][j]]
    /\ ListsAgree

\* unlock, timeouts and deletion preempt whenever they have to, although they call
\* schedule() only when the woken thread is more urgent than CURRENT.
Preemptive == popped = None => MostUrgent(k, {t \in Thread : pc[t] \in {"owe", "block"}})
=============================================================================
