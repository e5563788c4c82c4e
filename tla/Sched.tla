------------------------------- MODULE Sched -------------------------------
(***************************************************************************)
(* The uniprocessor scheduler: sched.rs (ready table, schedule, tick),     *)
(* context.rs (switch request, PendSV), mod.rs (start, tick_increase),     *)
(* thread.rs (create, delay, suspend, resume, delete, timer callback) and  *)
(* idle.rs (reclaiming dead threads).                                      *)
(*                                                                         *)
(* A critical section (PRIMASK set) is one action.  Between two critical   *)
(* sections of a call an interrupt may run, interrupts nest, and PendSV    *)
(* runs when no other interrupt is active.  A call whose last step is      *)
(* schedule() leaves its context in "owed" (thread) or with owes = TRUE    *)
(* (interrupt) until that step is taken.                                   *)
(***************************************************************************)
EXTENDS Naturals, Sequences, SequencesExt

CONSTANTS
    Thread,    \* every thread the program ever creates
    Idle,      \* the idle thread
    Boot,      \* the threads main creates before start()
    Levels,    \* number of priorities, CFG_RTOS_PRIORITY_MAX
    Prio,      \* priority of each thread, 0 is the most urgent
    Slice,     \* time slice of each thread in ticks, 0 = never rotated
    Pausable,  \* the threads that handlers suspend; threads suspend any other
    MaxNest,   \* bound on nested interrupts
    NoThread,  \* the null thread pointer
    Main       \* the boot context that runs main()

Level == 0 .. Levels - 1

ASSUME SchedAssumption ==
    /\ Levels \in Nat \ {0}
    /\ MaxNest \in Nat
    /\ Boot \subseteq Thread
    /\ Idle \in Boot
    /\ Prio \in [Thread -> Level]
    /\ Slice \in [Thread -> Nat]
    /\ \A t \in Thread : Prio[t] <= Prio[Idle]
    /\ Pausable \subseteq Thread \ {Idle}
    /\ NoThread \notin Thread
    /\ Main \notin Thread \cup {NoThread}

VARIABLES
    st,          \* TCB state; "init" before creation, "freed" after reclaim
    slice,       \* remaining_tick
    ready,       \* READY_TABLE: one queue per priority
    group,       \* READY_GROUP: the set bits
    sleeping,    \* threads linked in SLEEP_LIST by thread_delay
    defunct,     \* DEFUNCT: dead threads awaiting reclaim
    reaping,     \* thread idle has popped and not yet freed
    current,     \* CURRENT
    switchFlag,  \* SWITCH_FLAG
    fromSp,      \* FROM_SP_ADDR: the thread whose sp field it names
    toSp,        \* TO_SP_ADDR
    pendsv,      \* ICSR.PENDSVSET
    saved,       \* the context stored at each thread's sp
    running,     \* the context the CPU executes in thread mode
    owed,        \* threads between a critical section and their schedule()
    isrs,        \* active interrupt handlers, innermost last
    boot         \* progress of start()

tcb    == <<st, slice>>
queues == <<ready, group>>
switch == <<current, switchFlag, fromSp, toSp, pendsv>>
cpu    == <<saved, running>>
graves == <<defunct, reaping>>
vars   == <<tcb, queues, sleeping, graves, switch, cpu, owed, isrs, boot>>

Context == Thread \cup {Main}
Frame == [kind : {"tick", "irq", "suspend"}, owes : BOOLEAN, arg : Thread \cup {NoThread}]

-----------------------------------------------------------------------------
(* The ready table.                                                        *)

LinkTail(q, t)  == [q EXCEPT ![Prio[t]] = Append(@, t)]
Unlink(q, t)   == [q EXCEPT ![Prio[t]] = RemoveFirst(@, t)]
Linked(t)      == \E i \in 1 .. Len(ready[Prio[t]]) : ready[Prio[t]][i] = t
TopLevel       == CHOOSE p \in group : \A r \in group : p <= r
HighestReady   == IF group = {} \/ ready[TopLevel] = <<>>
                  THEN NoThread ELSE Head(ready[TopLevel])

ReadyInsert(t) ==
    /\ ready' = LinkTail(ready, t)
    /\ group' = group \cup {Prio[t]}

\* Variant: clears the bit of the level although a peer may be left in its queue.
ReadyRemoveClears(t) ==
    /\ ready' = Unlink(ready, t)
    /\ group' = group \ {Prio[t]}

ReadyRemove(t) ==
    /\ ready' = Unlink(ready, t)
    /\ group' = IF Unlink(ready, t)[Prio[t]] = <<>>
                THEN group \ {Prio[t]} ELSE group

\* Variant: forgets to unlink first and leaves the order as it is.
RotateInPlace(t) ==
    /\ ready' = ready
    /\ group' = group \cup {Prio[t]}

\* ready_node.remove() followed by ready_insert(): move to the tail.
Rotate(t) ==
    /\ ready' = LinkTail(Unlink(ready, t), t)
    /\ group' = group \cup {Prio[t]}

\* Variant: compares the wrong way round.
ReschedNeededSwapped(w) == current # NoThread /\ Prio[w] > Prio[current]

ReschedNeeded(w) == current # NoThread /\ Prio[w] < Prio[current]

-----------------------------------------------------------------------------
(* schedule() and the switch request.                                      *)

\* Variant: a second request overwrites FROM with a thread that never ran.
RequestSwitchOverwrites(f, t) ==
    /\ fromSp' = f /\ toSp' = t
    /\ switchFlag' = TRUE /\ pendsv' = TRUE

RequestSwitch(f, t) ==
    /\ fromSp' = IF switchFlag THEN fromSp ELSE f
    /\ toSp' = t
    /\ switchFlag' = TRUE
    /\ pendsv' = TRUE

\* Variant: leaves a request that is pending alone.
ScheduleOnce ==
    IF current = NoThread \/ HighestReady \in {NoThread, current} \/ switchFlag
    THEN UNCHANGED switch
    ELSE /\ current' = HighestReady
         /\ RequestSwitch(current, HighestReady)

Schedule ==
    IF current = NoThread \/ HighestReady \in {NoThread, current}
    THEN UNCHANGED switch
    ELSE /\ current' = HighestReady
         /\ RequestSwitch(current, HighestReady)

\* PendSV: lowest priority, so it runs only when no other handler is active.
PendSV ==
    /\ pendsv
    /\ isrs = <<>>
    /\ pendsv' = FALSE
    /\ IF ~switchFlag
       THEN UNCHANGED <<switchFlag, cpu>>
       ELSE /\ switchFlag' = FALSE
            /\ saved' = IF fromSp = NoThread THEN saved
                        ELSE [saved EXCEPT ![fromSp] = running]
            /\ running' = saved'[toSp]
    /\ UNCHANGED <<tcb, queues, sleeping, graves, current, fromSp, toSp, owed, isrs, boot>>

-----------------------------------------------------------------------------
(* Thread-mode calls.  A thread makes a call only when it is executing and *)
(* not inside another one.  It may be suspended then: see IrqSuspend.      *)

ThreadMode == isrs = <<>> /\ ~pendsv
Calls(c) ==
    /\ ThreadMode /\ running = c /\ c \in Thread /\ c \notin owed
    /\ st[c] \in {"ready", "suspend"}

Owe(c, need) == owed' = IF need THEN owed \cup {c} ELSE owed

\* thread_create: by main before start(), later by any running thread.  The new
\* thread is made ready; schedule() is not called.
ThreadCreate(t) ==
    /\ \/ ThreadMode /\ running = Main /\ boot = "init" /\ t \in Boot
       \/ Calls(running) /\ t \notin Boot
    /\ st[t] = "init"
    /\ t = Idle \/ st[Idle] # "init"
    /\ st' = [st EXCEPT ![t] = "ready"]
    /\ ReadyInsert(t)
    /\ UNCHANGED <<slice, sleeping, graves, switch, cpu, owed, isrs, boot>>

\* thread_delay(n > 0): the caller goes to sleep, then calls schedule().
ThreadDelay(c) ==
    /\ Calls(c) /\ c # Idle
    /\ st' = [st EXCEPT ![c] = "suspend"]
    /\ sleeping' = sleeping \cup {c}
    /\ ReadyRemove(c)
    /\ Owe(c, TRUE)
    /\ UNCHANGED <<slice, graves, switch, cpu, isrs, boot>>

\* yield_thread
ThreadYield(c) ==
    /\ Calls(c) /\ Linked(c)
    /\ Rotate(c)
    /\ Owe(c, TRUE)
    /\ UNCHANGED <<tcb, sleeping, graves, switch, cpu, isrs, boot>>

\* Thread::suspend of another thread; IPC waits without a timeout look the same.  The
\* test against CURRENT is outside the critical section, but says t # c at any time.
ThreadSuspend(c, t) ==
    /\ Calls(c) /\ t \notin {c, Idle}
    /\ st[t] = "ready"
    /\ st' = [st EXCEPT ![t] = "suspend"]
    /\ ReadyRemove(t)
    /\ Owe(c, ReschedNeeded(t))
    /\ UNCHANGED <<slice, sleeping, graves, switch, cpu, isrs, boot>>

\* wakeup_thread on a thread that no sleep queue holds
Wakeup(t) ==
    /\ st[t] = "suspend" /\ t \notin sleeping
    /\ st' = [st EXCEPT ![t] = "ready"]
    /\ ReadyInsert(t)

\* Thread::resume from a thread
ThreadResume(c, t) ==
    /\ Calls(c)
    /\ Wakeup(t)
    /\ Owe(c, ReschedNeeded(t))
    /\ UNCHANGED <<slice, sleeping, graves, switch, cpu, isrs, boot>>

\* Variant: without the early return, a dead thread is queued again.
DeleteBookkeepingAgain(t) ==
    /\ IF Linked(t) THEN ReadyRemove(t) ELSE UNCHANGED queues
    /\ sleeping' = sleeping \ {t}
    /\ st' = [st EXCEPT ![t] = "close"]
    /\ defunct' = Append(defunct, t)

\* Variant: only a thread that was ready is queued for reclaim.
DeleteBookkeepingReady(t) ==
    IF st[t] \in {"close", "freed"}
    THEN UNCHANGED <<st, queues, sleeping, defunct>>
    ELSE /\ IF Linked(t) THEN ReadyRemove(t) ELSE UNCHANGED queues
         /\ sleeping' = sleeping \ {t}
         /\ st' = [st EXCEPT ![t] = "close"]
         /\ defunct' = IF Linked(t) THEN Append(defunct, t) ELSE defunct

\* delete_bookkeeping, without the mutexes
DeleteBookkeeping(t) ==
    IF st[t] \in {"close", "freed"}
    THEN UNCHANGED <<st, queues, sleeping, defunct>>
    ELSE /\ IF Linked(t) THEN ReadyRemove(t) ELSE UNCHANGED queues
         /\ sleeping' = sleeping \ {t}
         /\ st' = [st EXCEPT ![t] = "close"]
         /\ defunct' = Append(defunct, t)

\* thread_exit, or force_delete of oneself, when c = t; else force_delete(t)
ThreadDelete(c, t) ==
    /\ Calls(c) /\ t # Idle /\ st[t] # "init"
    /\ DeleteBookkeeping(t)
    /\ Owe(c, TRUE)
    /\ UNCHANGED <<slice, reaping, switch, cpu, isrs, boot>>

\* The schedule() that ends a call.
ThreadSchedule(c) ==
    /\ ThreadMode /\ running = c /\ c \in owed
    /\ owed' = owed \ {c}
    /\ Schedule
    /\ UNCHANGED <<tcb, queues, sleeping, graves, cpu, isrs, boot>>

\* The idle loop: pop a dead thread in a critical section ...
IdlePop ==
    /\ Calls(Idle) /\ reaping = NoThread /\ defunct # <<>>
    /\ reaping' = Head(defunct)
    /\ defunct' = Tail(defunct)
    /\ UNCHANGED <<tcb, queues, sleeping, switch, cpu, owed, isrs, boot>>

\* ... and free its stack outside of it; the queue empty, call schedule().
IdleFree ==
    /\ Calls(Idle) /\ reaping # NoThread
    /\ st' = [st EXCEPT ![reaping] = "freed"]
    /\ reaping' = NoThread
    /\ UNCHANGED <<slice, queues, sleeping, defunct, switch, cpu, owed, isrs, boot>>

IdleLoop ==
    /\ Calls(Idle) /\ reaping = NoThread /\ defunct = <<>>
    /\ Owe(Idle, TRUE)
    /\ UNCHANGED <<tcb, queues, sleeping, graves, switch, cpu, isrs, boot>>

-----------------------------------------------------------------------------
(* Interrupt handlers.                                                     *)

Top == isrs[Len(isrs)]
SetTop(owes, arg) ==
    isrs' = [isrs EXCEPT ![Len(isrs)] = [kind |-> Top.kind, owes |-> owes, arg |-> arg]]

\* Variant: the slice that ran out is not filled again.
TickEnterNoReset ==
    /\ isrs = <<>> /\ MaxNest > 0
    /\ LET c == current
           counts == c # NoThread /\ Slice[c] # 0
           expired == counts /\ slice[c] <= 1
       IN /\ slice' = IF counts THEN [slice EXCEPT ![c] = @ - 1] ELSE slice
          /\ IF expired /\ Linked(c) THEN Rotate(c) ELSE UNCHANGED queues
          /\ isrs' = <<[kind |-> "tick", owes |-> expired /\ Linked(c), arg |-> NoThread]>>
    /\ UNCHANGED <<st, sleeping, graves, switch, cpu, owed, boot>>

\* SysTick enters and runs sched::tick_increase.  Its priority is the lowest of
\* all handlers but PendSV, so it interrupts thread mode only.
TickEnter ==
    /\ isrs = <<>> /\ MaxNest > 0
    /\ LET c == current
           counts == c # NoThread /\ Slice[c] # 0
           expired == counts /\ slice[c] <= 1
       IN /\ slice' = IF counts
                      THEN [slice EXCEPT ![c] = IF expired THEN Slice[c] ELSE @ - 1]
                      ELSE slice
          /\ IF expired /\ Linked(c) THEN Rotate(c) ELSE UNCHANGED queues
          /\ isrs' = <<[kind |-> "tick", owes |-> expired /\ Linked(c), arg |-> NoThread]>>
    /\ UNCHANGED <<st, sleeping, graves, switch, cpu, owed, boot>>

\* timer::check takes an expired thread timer off the list ...
TimerPop(t) ==
    /\ isrs # <<>> /\ Top.kind = "tick" /\ ~Top.owes /\ Top.arg = NoThread
    /\ t \in sleeping
    /\ SetTop(FALSE, t)
    /\ UNCHANGED <<tcb, queues, sleeping, graves, switch, cpu, owed, boot>>

\* ... and calls thread_timer_cb, which looks at the state again.
TimerCallback ==
    /\ isrs # <<>> /\ Top.kind = "tick" /\ Top.arg # NoThread
    /\ LET t == Top.arg IN
       IF st[t] # "suspend"
       THEN /\ SetTop(FALSE, NoThread)
            /\ UNCHANGED <<st, queues, sleeping>>
       ELSE /\ st' = [st EXCEPT ![t] = "ready"]
            /\ sleeping' = sleeping \ {t}
            /\ ReadyInsert(t)
            /\ SetTop(ReschedNeeded(t), NoThread)
    /\ UNCHANGED <<slice, graves, switch, cpu, owed, boot>>

IrqEnter ==
    /\ Len(isrs) < MaxNest
    /\ isrs' = Append(isrs, [kind |-> "irq", owes |-> FALSE, arg |-> NoThread])
    /\ UNCHANGED <<tcb, queues, sleeping, graves, switch, cpu, owed, boot>>

IrqIdle == isrs # <<>> /\ Top.kind = "irq" /\ ~Top.owes /\ Top.arg = NoThread

\* A handler wakes a thread (release, send, resume).
IrqWake(t) ==
    /\ IrqIdle
    /\ Wakeup(t)
    /\ SetTop(ReschedNeeded(t), NoThread)
    /\ UNCHANGED <<slice, sleeping, graves, switch, cpu, owed, boot>>

\* force_delete in a handler: the test against CURRENT is outside the critical
\* section, so another handler may come between the two steps.
IrqDeleteCheck(t) ==
    /\ IrqIdle
    /\ current # NoThread /\ t \notin {current, Idle} /\ st[t] # "init"
    /\ SetTop(FALSE, t)
    /\ UNCHANGED <<tcb, queues, sleeping, graves, switch, cpu, owed, boot>>

IrqDelete ==
    /\ isrs # <<>> /\ Top.kind = "irq" /\ Top.arg # NoThread
    /\ DeleteBookkeeping(Top.arg)
    /\ SetTop(TRUE, NoThread)
    /\ UNCHANGED <<slice, reaping, switch, cpu, owed, boot>>

\* Thread::suspend in a handler: here, too, another handler may come between the test
\* against CURRENT and the critical section, and make t CURRENT.  Nobody calls
\* schedule() then, because CURRENT is not more urgent than itself.
IrqSuspendCheck(t) ==
    /\ IrqIdle
    /\ current # NoThread /\ t \in Pausable \ {current} /\ st[t] # "init"
    /\ isrs' = [isrs EXCEPT ![Len(isrs)] = [kind |-> "suspend", owes |-> FALSE, arg |-> t]]
    /\ UNCHANGED <<tcb, queues, sleeping, graves, switch, cpu, owed, boot>>

IrqSuspend ==
    /\ isrs # <<>> /\ Top.kind = "suspend"
    /\ LET t == Top.arg
           may == st[t] = "ready"
       IN /\ st' = IF may THEN [st EXCEPT ![t] = "suspend"] ELSE st
          /\ IF may THEN ReadyRemove(t) ELSE UNCHANGED queues
          /\ isrs' = [isrs EXCEPT ![Len(isrs)] =
                        [kind |-> "irq", owes |-> may /\ ReschedNeeded(t), arg |-> NoThread]]
    /\ UNCHANGED <<slice, sleeping, graves, switch, cpu, owed, boot>>

IsrSchedule ==
    /\ isrs # <<>> /\ Top.owes
    /\ SetTop(FALSE, NoThread)
    /\ Schedule
    /\ UNCHANGED <<tcb, queues, sleeping, graves, cpu, owed, boot>>

IsrReturn ==
    /\ isrs # <<>> /\ ~Top.owes /\ Top.arg = NoThread
    /\ isrs' = SubSeq(isrs, 1, Len(isrs) - 1)
    /\ UNCHANGED <<tcb, queues, sleeping, graves, switch, cpu, owed, boot>>

-----------------------------------------------------------------------------
(* start() and switch_to_first.  CURRENT is set in a critical section; the *)
(* four stores that follow are not protected.                              *)

MainStep(from, to) == ThreadMode /\ running = Main /\ boot = from /\ boot' = to
KeepKernel == UNCHANGED <<tcb, queues, sleeping, graves, cpu, owed, isrs>>

StartSetCurrent ==
    /\ MainStep("init", "to")
    /\ \A t \in Boot : st[t] # "init"
    /\ HighestReady # NoThread
    /\ current' = HighestReady
    /\ UNCHANGED <<switchFlag, fromSp, toSp, pendsv>> /\ KeepKernel

FirstStoreTo ==
    /\ MainStep("to", "from")
    /\ toSp' = current
    /\ UNCHANGED <<current, switchFlag, fromSp, pendsv>> /\ KeepKernel

FirstStoreFrom ==
    /\ MainStep("from", "flag")
    /\ fromSp' = NoThread
    /\ UNCHANGED <<current, switchFlag, toSp, pendsv>> /\ KeepKernel

FirstStoreFlag ==
    /\ MainStep("flag", "pend")
    /\ switchFlag' = TRUE
    /\ UNCHANGED <<current, fromSp, toSp, pendsv>> /\ KeepKernel

FirstPend ==
    /\ MainStep("pend", "done")
    /\ pendsv' = TRUE
    /\ UNCHANGED <<current, switchFlag, fromSp, toSp>> /\ KeepKernel

-----------------------------------------------------------------------------
Init ==
    /\ st = [t \in Thread |-> "init"]
    /\ slice = Slice
    /\ ready = [p \in Level |-> <<>>]
    /\ group = {}
    /\ sleeping = {}
    /\ defunct = <<>>
    /\ reaping = NoThread
    /\ current = NoThread
    /\ switchFlag = FALSE
    /\ fromSp = NoThread
    /\ toSp = NoThread
    /\ pendsv = FALSE
    /\ saved = [t \in Thread |-> t]
    /\ running = Main
    /\ owed = {}
    /\ isrs = <<>>
    /\ boot = "init"

BootNext == StartSetCurrent \/ FirstStoreTo \/ FirstStoreFrom \/ FirstStoreFlag \/ FirstPend

ThreadNext(c) ==
    \/ ThreadDelay(c) \/ ThreadYield(c) \/ ThreadSchedule(c)
    \/ \E t \in Thread : ThreadSuspend(c, t) \/ ThreadResume(c, t) \/ ThreadDelete(c, t)

IdleNext == IdlePop \/ IdleFree \/ IdleLoop

IsrNext ==
    \/ TickEnter \/ TimerCallback \/ IrqEnter \/ IrqDelete \/ IrqSuspend
    \/ IsrSchedule \/ IsrReturn
    \/ \E t \in Thread : \/ TimerPop(t) \/ IrqWake(t)
                          \/ IrqDeleteCheck(t) \/ IrqSuspendCheck(t)

Next ==
    \/ BootNext
    \/ \E t \in Thread : ThreadCreate(t)
    \/ \E c \in Thread : ThreadNext(c)
    \/ IdleNext
    \/ IsrNext
    \/ PendSV

Spec == Init /\ [][Next]_vars

-----------------------------------------------------------------------------
TypeOK ==
    /\ st \in [Thread -> {"init", "ready", "suspend", "close", "freed"}]
    /\ slice \in [Thread -> Nat]
    /\ ready \in [Level -> Seq(Thread)]
    /\ group \subseteq Level
    /\ sleeping \subseteq Thread
    /\ defunct \in Seq(Thread)
    /\ reaping \in Thread \cup {NoThread}
    /\ current \in Thread \cup {NoThread}
    /\ switchFlag \in BOOLEAN
    /\ fromSp \in Thread \cup {NoThread}
    /\ toSp \in Thread \cup {NoThread}
    /\ pendsv \in BOOLEAN
    /\ saved \in [Thread -> Context]
    /\ running \in Context
    /\ owed \subseteq Thread
    /\ isrs \in Seq(Frame)
    /\ boot \in {"init", "to", "from", "flag", "pend", "done"}

-----------------------------------------------------------------------------
(* Safety.                                                                 *)

\* The context stored at a thread's sp is that thread's own: no request, however
\* many were merged before PendSV ran, makes PendSV save a thread's registers
\* into another thread's TCB (request_switch keeps the first FROM).
ContextIntegrity == \A t \in Thread : t # running => saved[t] = t

\* READY_GROUP has a bit exactly for the non-empty queues, and each queue holds
\* exactly the ready threads of its priority, once (ready_insert, ready_remove,
\* and the rotation that unlinks without clearing the bit).
ReadyTableExact ==
    /\ group = {p \in Level : ready[p] # <<>>}
    /\ \A p \in Level :
         /\ IsInjective(ready[p])
         /\ ToSet(ready[p]) = {t \in Thread : Prio[t] = p /\ st[t] = "ready"}

\* The doc of request_switch: the FROM of a merged request is the context that is
\* really executing, so that PendSV saves it where it belongs.
FromIsRunning == switchFlag => fromSp = IF running = Main THEN NoThread ELSE running

\* What the code lets run: a ready thread, or one that a handler suspended when it had
\* become CURRENT since the handler's test.  Such a thread goes on running.
Runs(t) == st[t] = "ready" \/ (t \in Pausable /\ st[t] = "suspend" /\ t \notin sleeping)

\* Preemption.  When no switch is pending and the executing thread owes no
\* schedule(), it is CURRENT, it is ready (unless a handler suspended it as CURRENT:
\* only a thread that handlers suspend) and no ready thread is more urgent, also
\* when other threads were preempted inside a call that still owes one.  (Only for
\* Boot = Thread: thread_create does not call schedule().)
Settled == running \in Thread /\ ~switchFlag /\ isrs = <<>> /\ running \notin owed
HighestRuns ==
    Settled => /\ running = current
               /\ Runs(running)
               /\ \A t \in Thread : st[t] = "ready" => Prio[running] <= Prio[t]

\* A thread whose stack was given back is in no queue, is not executing, is named by
\* no pending switch and is not the argument of a timer callback in progress, and no
\* thread is queued for reclaim twice (idle.rs pops in a critical section and frees
\* outside of it; timer::check relies on its callback's thread not being freed).
NoUseAfterFree ==
    /\ \A t \in Thread : st[t] = "freed" =>
         /\ t \notin {running, current, reaping}
         /\ switchFlag => t \notin {fromSp, toSp}
         /\ ~Linked(t) /\ t \notin sleeping
         /\ \A i \in DOMAIN isrs : isrs[i].kind = "tick" => isrs[i].arg # t
    /\ IsInjective(Append(defunct, reaping))

\* PendSV dispatches only a ready thread, and one that no ready thread outranks:
\* a thread that slept or died after the request was made is never resumed by it, nor
\* one that was suspended by a thread.  (By a handler it may be, see Runs.)
DispatchHighest ==
    [][running' # running =>
         /\ running' \in Thread /\ Runs(running')
         /\ \A t \in Thread : st[t] = "ready" => Prio[running'] <= Prio[t]]_vars

-----------------------------------------------------------------------------
(* Liveness.  Handlers return, and interrupts do not take all of the CPU:  *)
(* PendSV, the executing thread and the idle loop are served although      *)
(* handlers keep coming.  A tick finds the work of the last one done: the  *)
(* tick period is far longer than SysTick and PendSV take together.        *)

ThreadProgress == BootNext \/ (\E t \in Boot : ThreadCreate(t)) \/ \E c \in Thread : ThreadSchedule(c)

Fairness ==
    /\ WF_vars(TimerCallback \/ IrqDelete \/ IrqSuspend \/ IsrSchedule)
    /\ SF_vars(IsrReturn)
    /\ SF_vars(PendSV)
    /\ SF_vars(TickEnter)
    /\ SF_vars(ThreadProgress)
    /\ SF_vars(IdlePop \/ IdleFree)

PacedNext == Next /\ (pendsv => ~TickEnter)

FairSpec == Init /\ [][PacedNext]_vars /\ Fairness

\* Time slices rotate: a thread that stays ready at the most urgent ready level,
\* where every thread has a time slice, runs again and again.
AtTop(t) ==
    /\ st[t] = "ready"
    /\ \A u \in Thread : st[u] = "ready" =>
         Prio[t] <= Prio[u] /\ (Prio[t] = Prio[u] => Slice[u] > 0)
RoundRobin == \A t \in Thread : <>[]AtTop(t) => []<>(running = t)

\* If the idle thread keeps being run, every dead thread is reclaimed.
DeadReclaimed ==
    []<>(Calls(Idle)) => \A t \in Thread : (st[t] = "close") ~> (st[t] = "freed")

=============================================================================
