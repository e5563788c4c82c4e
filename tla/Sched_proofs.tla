---------------------------- MODULE Sched_proofs ----------------------------
(***************************************************************************)
(* The scheduler keeps its types, and the ready table holds exactly the   *)
(* ready threads, for every set of threads, every priority and slice, and  *)
(* every interleaving of interrupts.  Then the context switches: PendSV    *)
(* saves every thread's registers into that thread's own TCB, whatever     *)
(* requests handlers merged before it ran; the executing thread is the     *)
(* most urgent one whenever nothing is pending, PendSV dispatches the most *)
(* urgent thread, and no thread is used after its memory was returned.     *)
(***************************************************************************)
EXTENDS Sched, QueueLemmas

USE DEF Level, Context

-----------------------------------------------------------------------------
(* Operators of the model.                                                 *)

\* The ready table keeps its type under insertion and removal.
LEMMA TableType ==
    ASSUME NEW q \in [Level -> Seq(Thread)], NEW t \in Thread
    PROVE  /\ LinkTail(q, t) \in [Level -> Seq(Thread)]
           /\ Unlink(q, t) \in [Level -> Seq(Thread)]
           /\ Prio[t] \in Level
<1>1. Prio[t] \in Level /\ q[Prio[t]] \in Seq(Thread)
  BY SchedAssumption
<1>2. Append(q[Prio[t]], t) \in Seq(Thread)
  BY <1>1
<1>3. RemoveFirst(q[Prio[t]], t) \in Seq(Thread)
  BY <1>1, RemoveQueue
<1> QED
  BY <1>1, <1>2, <1>3 DEF LinkTail, Unlink

\* What READY_GROUP and the queues yield is a thread, or none.
LEMMA HighestType ==
    ASSUME ready \in [Level -> Seq(Thread)], group \subseteq Level
    PROVE  HighestReady \in Thread \cup {NoThread}
<1>1. CASE group # {} /\ ready[TopLevel] # <<>>
  <2>1. group \in SUBSET Nat
    BY SchedAssumption
  <2>2. \E m \in group : \A n \in group : m <= n
    BY <1>1, <2>1, LeastElement
  <2>3. TopLevel \in group
    BY <2>2 DEF TopLevel
  <2>4. ready[TopLevel] \in Seq(Thread)
    BY <2>3
  <2>5. Head(ready[TopLevel]) \in Thread
    BY <1>1, <2>4
  <2> QED
    BY <1>1, <2>5 DEF HighestReady
<1> QED
  BY <1>1 DEF HighestReady

\* The stack of active handlers keeps its type.
LEMMA FrameStack ==
    ASSUME isrs \in Seq(Frame)
    PROVE  /\ \A f \in Frame : Append(isrs, f) \in Seq(Frame)
           /\ isrs # <<>> => /\ Top \in Frame
                             /\ SubSeq(isrs, 1, Len(isrs) - 1) \in Seq(Frame)
<1>1. \A f \in Frame : Append(isrs, f) \in Seq(Frame)
  OBVIOUS
<1>2. ASSUME isrs # <<>> PROVE Top \in Frame
  <2>1. Len(isrs) \in 1 .. Len(isrs)
    BY <1>2
  <2> QED
    BY <2>1 DEF Top
<1>3. ASSUME isrs # <<>> PROVE SubSeq(isrs, 1, Len(isrs) - 1) \in Seq(Frame)
  <2>1. \A i \in 1 .. Len(isrs) - 1 : isrs[i] \in Frame
    OBVIOUS
  <2> QED
    BY <2>1, SubSeqProperties
<1> QED
  BY <1>1, <1>2, <1>3

\* What a handler that has yet to suspend a thread holds.
Pauses(f) == f.kind = "suspend" => f.arg \in Pausable /\ ~f.owes
FramesOK == isrs \in Seq(Frame) /\ \A i \in DOMAIN isrs : Pauses(isrs[i])

\* A handler enters, returns, or changes its own frame.
LEMMA FramesKept ==
    ASSUME FramesOK
    PROVE  /\ \A f \in Frame : Pauses(f) /\ isrs' = Append(isrs, f) => FramesOK'
           /\ \A f \in Frame : Pauses(f) /\ isrs' = <<f>> => FramesOK'
           /\ isrs # <<>> =>
                /\ Pauses(Top) /\ Top \in Frame
                /\ isrs' = SubSeq(isrs, 1, Len(isrs) - 1) => FramesOK'
                /\ \A f \in Frame : Pauses(f) /\ isrs' = [isrs EXCEPT ![Len(isrs)] = f] => FramesOK'
<1>0. isrs \in Seq(Frame) /\ \A i \in 1 .. Len(isrs) : Pauses(isrs[i])
  BY DEF FramesOK
<1>1. ASSUME NEW f \in Frame, Pauses(f), isrs' = Append(isrs, f) PROVE FramesOK'
  <2>1. isrs' \in Seq(Frame)
    BY <1>0, <1>1
  <2>2. /\ DOMAIN isrs' = 1 .. Len(isrs) + 1
        /\ \A i \in 1 .. Len(isrs) : isrs'[i] = isrs[i]
        /\ isrs'[Len(isrs) + 1] = f
    BY <1>0, <1>1
  <2>3. \A i \in DOMAIN isrs' : Pauses(isrs'[i])
    BY <1>0, <1>1, <2>2
  <2> QED
    BY <2>1, <2>3 DEF FramesOK, Pauses
<1>2. ASSUME NEW f \in Frame, Pauses(f), isrs' = <<f>> PROVE FramesOK'
  BY <1>2 DEF FramesOK, Pauses
<1>3. ASSUME isrs # <<>>
      PROVE  /\ Pauses(Top) /\ Top \in Frame
             /\ isrs' = SubSeq(isrs, 1, Len(isrs) - 1) => FramesOK'
             /\ \A f \in Frame : Pauses(f) /\ isrs' = [isrs EXCEPT ![Len(isrs)] = f] => FramesOK'
  <2>1. Pauses(Top) /\ Top \in Frame
    BY <1>0, <1>3 DEF Top
  <2>2. ASSUME isrs' = SubSeq(isrs, 1, Len(isrs) - 1) PROVE FramesOK'
    <3>1. isrs' \in Seq(Frame)
      BY <1>0, <1>3, <2>2, FrameStack
    <3>2. \A i \in DOMAIN isrs' : i \in 1 .. Len(isrs) /\ isrs'[i] = isrs[i]
      BY <1>0, <2>2
    <3> QED
      BY <1>0, <3>1, <3>2 DEF FramesOK, Pauses
  <2>3. ASSUME NEW f \in Frame, Pauses(f), isrs' = [isrs EXCEPT ![Len(isrs)] = f] PROVE FramesOK'
    <3>1. isrs' \in Seq(Frame)
      BY <1>0, <1>3, <2>3, ExceptSeq
    <3>2. \A i \in DOMAIN isrs' : i \in 1 .. Len(isrs) /\ isrs'[i] \in {isrs[i], f}
      BY <1>0, <2>3
    <3> QED
      BY <1>0, <2>3, <3>1, <3>2 DEF FramesOK, Pauses
  <2> QED
    BY <2>1, <2>2, <2>3
<1> QED
  BY <1>1, <1>2, <1>3

LEMMA SetTopType ==
    ASSUME FramesOK, isrs # <<>>, Top.kind # "suspend",
           NEW o \in BOOLEAN, NEW x \in Thread \cup {NoThread}, SetTop(o, x)
    PROVE  FramesOK'
<1>1. Top \in Frame
  BY FramesKept
<1>2. [kind |-> Top.kind, owes |-> o, arg |-> x] \in Frame
  BY <1>1 DEF Frame
<1>3. Pauses([kind |-> Top.kind, owes |-> o, arg |-> x])
  BY DEF Pauses
<1> QED
  BY <1>2, <1>3, FramesKept DEF SetTop

LEMMA ReschedType == \A t : ReschedNeeded(t) \in BOOLEAN
BY DEF ReschedNeeded

-----------------------------------------------------------------------------
(* Type correctness.  PendSV reads the TCB that TO_SP_ADDR names, so the   *)
(* invariant says that a set SWITCH_FLAG comes with a TO, and that start() *)
(* has stored one before it sets the flag.                                 *)

TcbOK ==
    /\ st \in [Thread -> {"init", "ready", "suspend", "close", "freed"}]
    /\ slice \in [Thread -> Nat]
    /\ sleeping \subseteq Thread
    /\ owed \subseteq Thread

ReadyOK == ready \in [Level -> Seq(Thread)] /\ group \subseteq Level

GraveOK == defunct \in Seq(Thread) /\ reaping \in Thread \cup {NoThread}

CpuOK ==
    /\ switchFlag \in BOOLEAN /\ pendsv \in BOOLEAN
    /\ fromSp \in Thread \cup {NoThread}
    /\ saved \in [Thread -> Context]
    /\ running \in Context

TargetOK ==
    /\ current \in Thread \cup {NoThread}
    /\ toSp \in Thread \cup {NoThread}
    /\ boot \in {"init", "to", "from", "flag", "pend", "done"}
    /\ boot # "init" => current \in Thread
    /\ switchFlag \/ boot \in {"from", "flag", "pend"} => toSp \in Thread

TypeInv == TcbOK /\ ReadyOK /\ GraveOK /\ FramesOK /\ CpuOK /\ TargetOK

LEMMA TypeInvOK == TypeInv => TypeOK
<1> SUFFICES ASSUME TypeInv PROVE TypeOK
  OBVIOUS
<1>1. TcbOK /\ ReadyOK /\ GraveOK
  BY DEF TypeInv
<1>2. FramesOK /\ CpuOK /\ TargetOK
  BY DEF TypeInv
<1> QED
  BY <1>1, <1>2 DEF TypeOK, TcbOK, ReadyOK, GraveOK, FramesOK, CpuOK, TargetOK

LEMMA TypeInit == Init => TypeInv
<1> SUFFICES ASSUME Init PROVE TypeInv
  OBVIOUS
<1> USE SchedAssumption DEF Init
<1>1. TcbOK
  BY DEF TcbOK
<1>2. ReadyOK
  BY DEF ReadyOK
<1>3. GraveOK /\ FramesOK
  BY DEF GraveOK, FramesOK
<1>4. CpuOK
  BY DEF CpuOK
<1>5. TargetOK
  BY DEF TargetOK
<1> QED
  BY <1>1, <1>2, <1>3, <1>4, <1>5 DEF TypeInv

\* What schedule() does to the switch request.
LEMMA ScheduleType ==
    ASSUME TypeInv, Schedule
    PROVE  /\ UNCHANGED <<saved, running>> => CpuOK'
           /\ UNCHANGED boot => TargetOK'
<1>1. HighestReady \in Thread \cup {NoThread}
  BY HighestType DEF TypeInv, ReadyOK
<1>2. UNCHANGED <<saved, running>> => CpuOK'
  BY <1>1 DEF TypeInv, CpuOK, TargetOK, Schedule, RequestSwitch, switch
<1>3. UNCHANGED boot => TargetOK'
  BY <1>1 DEF TypeInv, TargetOK, Schedule, RequestSwitch, switch
<1> QED
  BY <1>2, <1>3

\* A thread enters or leaves the ready table.
LEMMA ReadyType ==
    ASSUME TypeInv, NEW t \in Thread, ReadyInsert(t) \/ ReadyRemove(t) \/ Rotate(t)
    PROVE  ReadyOK'
<1>1. ready \in [Level -> Seq(Thread)] /\ group \subseteq Level
  BY DEF TypeInv, ReadyOK
<1>2. Unlink(ready, t) \in [Level -> Seq(Thread)] /\ Prio[t] \in Level
  BY <1>1, TableType
<1>3. LinkTail(ready, t) \in [Level -> Seq(Thread)]
  BY <1>1, TableType
<1>4. LinkTail(Unlink(ready, t), t) \in [Level -> Seq(Thread)]
  BY <1>2, TableType
<1> QED
  BY <1>1, <1>2, <1>3, <1>4 DEF ReadyOK, ReadyInsert, ReadyRemove, Rotate

\* Deleting a thread.
LEMMA DeleteType ==
    ASSUME TypeInv, NEW t \in Thread, DeleteBookkeeping(t)
    PROVE  /\ ReadyOK'
           /\ UNCHANGED reaping => GraveOK'
           /\ UNCHANGED slice /\ owed' \subseteq Thread => TcbOK'
<1>1. ReadyOK'
  BY ReadyType DEF TypeInv, ReadyOK, DeleteBookkeeping, queues
<1>2. UNCHANGED reaping => GraveOK'
  BY DEF TypeInv, GraveOK, DeleteBookkeeping
<1>3. UNCHANGED slice /\ owed' \subseteq Thread => TcbOK'
  BY DEF TypeInv, TcbOK, DeleteBookkeeping
<1> QED
  BY <1>1, <1>2, <1>3

\* The variables of the parts that a step leaves alone.
LEMMA Frames ==
    ASSUME TypeInv
    PROVE  /\ UNCHANGED <<tcb, sleeping, owed>> => TcbOK'
           /\ UNCHANGED queues => ReadyOK'
           /\ UNCHANGED graves => GraveOK'
           /\ UNCHANGED isrs => FramesOK'
           /\ UNCHANGED <<switch, cpu>> => CpuOK'
           /\ UNCHANGED <<switch, boot>> => TargetOK'
<1>1. UNCHANGED <<tcb, sleeping, owed>> => TcbOK'
  BY DEF TypeInv, TcbOK, tcb
<1>2. UNCHANGED queues => ReadyOK'
  BY DEF TypeInv, ReadyOK, queues
<1>3. UNCHANGED graves => GraveOK'
  BY DEF TypeInv, GraveOK, graves
<1>4. UNCHANGED isrs => FramesOK'
  BY DEF TypeInv, FramesOK, Pauses
<1>5. UNCHANGED <<switch, cpu>> => CpuOK'
  BY DEF TypeInv, CpuOK, switch, cpu
<1>6. UNCHANGED <<switch, boot>> => TargetOK'
  BY DEF TypeInv, TargetOK, switch
<1> QED
  BY <1>1, <1>2, <1>3, <1>4, <1>5, <1>6

LEMMA TypeNext == TypeInv /\ [Next]_vars => TypeInv'
<1> SUFFICES ASSUME TypeInv, [Next]_vars PROVE TypeInv'
  OBVIOUS
<1> USE SchedAssumption
<1>1. CASE BootNext
  <2>1. HighestReady \in Thread \cup {NoThread}
    BY HighestType DEF TypeInv, ReadyOK
  <2>2. KeepKernel
    BY <1>1 DEF BootNext, StartSetCurrent, FirstStoreTo, FirstStoreFrom, FirstStoreFlag, FirstPend
  <2>3. TcbOK' /\ ReadyOK' /\ GraveOK' /\ FramesOK'
    BY <2>2, Frames DEF KeepKernel
  <2>4. CpuOK'
    BY <1>1, <2>2 DEF BootNext, StartSetCurrent, FirstStoreTo, FirstStoreFrom, FirstStoreFlag,
       FirstPend, TypeInv, CpuOK, KeepKernel, cpu
  <2>5. TargetOK'
    BY <1>1, <2>1 DEF BootNext, StartSetCurrent, FirstStoreTo, FirstStoreFrom, FirstStoreFlag,
       FirstPend, MainStep, TypeInv, TargetOK
  <2> QED
    BY <2>3, <2>4, <2>5 DEF TypeInv
<1>2. ASSUME NEW t \in Thread, ThreadCreate(t) PROVE TypeInv'
  <2>1. TcbOK'
    BY <1>2 DEF ThreadCreate, TypeInv, TcbOK
  <2> QED
    BY <1>2, <2>1, ReadyType, Frames DEF ThreadCreate, TypeInv
<1>3. ASSUME NEW c \in Thread, ThreadNext(c) PROVE TypeInv'
  <2>1. CASE ThreadDelay(c)
    <3>1. TcbOK'
      BY <2>1 DEF ThreadDelay, Owe, TypeInv, TcbOK
    <3> QED
      BY <2>1, <3>1, ReadyType, Frames DEF ThreadDelay, TypeInv
  <2>2. CASE ThreadYield(c)
    <3>1. TcbOK'
      BY <2>2 DEF ThreadYield, Owe, TypeInv, TcbOK, tcb
    <3> QED
      BY <2>2, <3>1, ReadyType, Frames DEF ThreadYield, TypeInv
  <2>3. CASE ThreadSchedule(c)
    <3>1. TcbOK'
      BY <2>3 DEF ThreadSchedule, TypeInv, TcbOK, tcb
    <3> QED
      BY <2>3, <3>1, ScheduleType, Frames DEF ThreadSchedule, TypeInv, cpu
  <2>4. ASSUME NEW t \in Thread, ThreadSuspend(c, t) PROVE TypeInv'
    <3>1. TcbOK'
      BY <2>4 DEF ThreadSuspend, Owe, TypeInv, TcbOK
    <3> QED
      BY <2>4, <3>1, ReadyType, Frames DEF ThreadSuspend, TypeInv
  <2>5. ASSUME NEW t \in Thread, ThreadResume(c, t) PROVE TypeInv'
    <3>1. TcbOK'
      BY <2>5 DEF ThreadResume, Wakeup, Owe, TypeInv, TcbOK
    <3> QED
      BY <2>5, <3>1, ReadyType, Frames DEF ThreadResume, Wakeup, TypeInv
  <2>6. ASSUME NEW t \in Thread, ThreadDelete(c, t) PROVE TypeInv'
    <3>1. owed' \subseteq Thread
      BY <2>6 DEF ThreadDelete, Owe, TypeInv, TcbOK
    <3> QED
      BY <2>6, <3>1, DeleteType, Frames DEF ThreadDelete, TypeInv
  <2> QED
    BY <1>3, <2>1, <2>2, <2>3, <2>4, <2>5, <2>6 DEF ThreadNext
<1>4. CASE IdleNext
  <2>1. TcbOK'
    BY <1>4 DEF IdleNext, IdlePop, IdleFree, IdleLoop, Owe, TypeInv, TcbOK, tcb
  <2>2. GraveOK'
    <3>1. defunct \in Seq(Thread) /\ reaping \in Thread \cup {NoThread}
      BY DEF TypeInv, GraveOK
    <3>2. CASE IdlePop
      <4>1. Head(defunct) \in Thread /\ Tail(defunct) \in Seq(Thread)
        BY <3>1, <3>2 DEF IdlePop
      <4> QED
        BY <3>2, <4>1 DEF IdlePop, GraveOK
    <3> QED
      BY <1>4, <3>1, <3>2 DEF IdleNext, IdleFree, IdleLoop, GraveOK, graves
  <2> QED
    BY <1>4, <2>1, <2>2, Frames DEF IdleNext, IdlePop, IdleFree, IdleLoop, TypeInv
<1>5. CASE IsrNext
  <2> USE ReschedType
  <2>0. FramesOK /\ (isrs # <<>> => Top \in Frame /\ Pauses(Top))
    BY FramesKept DEF TypeInv
  <2>1. CASE TickEnter
    <3>1. \A o \in BOOLEAN : /\ [kind |-> "tick", owes |-> o, arg |-> NoThread] \in Frame
                             /\ Pauses([kind |-> "tick", owes |-> o, arg |-> NoThread])
      BY DEF Frame, Pauses
    <3>2. PICK o \in BOOLEAN : isrs' = <<[kind |-> "tick", owes |-> o, arg |-> NoThread]>>
      BY <2>1 DEF TickEnter, Linked
    <3>3. FramesOK'
      BY <2>0, <3>1, <3>2, FramesKept
    <3>4. TcbOK'
      <4>1. ASSUME NEW c \in Thread, ~ (slice[c] <= 1) PROVE slice[c] - 1 \in Nat
        BY <4>1 DEF TypeInv, TcbOK
      <4>2. slice' \in [Thread -> Nat]
        BY <2>1, <4>1 DEF TickEnter, TypeInv, TcbOK, TargetOK
      <4> QED
        BY <2>1, <4>2 DEF TickEnter, TypeInv, TcbOK
    <3>5. ReadyOK'
      BY <2>1, ReadyType, Frames DEF TickEnter, TypeInv, TargetOK
    <3> QED
      BY <2>1, <3>4, <3>5, <3>3, Frames DEF TickEnter, TypeInv
  <2>2. CASE TimerCallback
    <3>1. Top.arg \in Thread
      BY <2>0, <2>2 DEF TimerCallback, Frame
    <3>4. \E o \in BOOLEAN : SetTop(o, NoThread)
      BY <2>2 DEF TimerCallback
    <3>5. FramesOK'
      BY <2>0, <2>2, <3>4, SetTopType DEF TimerCallback
    <3>2. TcbOK'
      BY <2>2, <3>1 DEF TimerCallback, TypeInv, TcbOK
    <3>3. ReadyOK'
      BY <2>2, <3>1, ReadyType, Frames DEF TimerCallback
    <3> QED
      BY <2>2, <3>2, <3>3, <3>5, Frames DEF TimerCallback, TypeInv
  <2>3. CASE IrqEnter
    <3>1. FramesOK'
      BY <2>0, <2>3, FramesKept DEF IrqEnter, Frame, Pauses
    <3> QED
      BY <2>3, <3>1, Frames DEF IrqEnter, TypeInv
  <2>4. CASE IrqDelete
    <3>1. FramesOK' /\ Top.arg \in Thread
      BY <2>0, <2>4, SetTopType DEF IrqDelete, Frame
    <3>2. owed' \subseteq Thread
      BY <2>4 DEF IrqDelete, TypeInv, TcbOK
    <3> QED
      BY <2>4, <3>1, <3>2, DeleteType, Frames DEF IrqDelete, TypeInv
  <2>5. CASE IsrSchedule
    <3>1. FramesOK'
      BY <2>0, <2>5, SetTopType DEF IsrSchedule, Pauses
    <3> QED
      BY <2>5, <3>1, ScheduleType, Frames DEF IsrSchedule, TypeInv, cpu
  <2>6. CASE IsrReturn
    <3>1. FramesOK'
      BY <2>0, <2>6, FramesKept DEF IsrReturn
    <3> QED
      BY <2>6, <3>1, Frames DEF IsrReturn, TypeInv
  <2>7. ASSUME NEW t \in Thread, TimerPop(t) PROVE TypeInv'
    <3>1. FramesOK'
      BY <2>0, <2>7, SetTopType DEF TimerPop
    <3> QED
      BY <2>7, <3>1, Frames DEF TimerPop, TypeInv
  <2>8. ASSUME NEW t \in Thread, IrqWake(t) PROVE TypeInv'
    <3>1. FramesOK'
      BY <2>0, <2>8, SetTopType DEF IrqWake, IrqIdle
    <3>2. TcbOK'
      BY <2>8 DEF IrqWake, Wakeup, TypeInv, TcbOK
    <3> QED
      BY <2>8, <3>1, <3>2, ReadyType, Frames DEF IrqWake, Wakeup, TypeInv
  <2>9. ASSUME NEW t \in Thread, IrqDeleteCheck(t) PROVE TypeInv'
    <3>1. FramesOK'
      BY <2>0, <2>9, SetTopType DEF IrqDeleteCheck, IrqIdle
    <3> QED
      BY <2>9, <3>1, Frames DEF IrqDeleteCheck, TypeInv
  <2>10. ASSUME NEW t \in Thread, IrqSuspendCheck(t) PROVE TypeInv'
    <3>1. FramesOK'
      BY <2>0, <2>10, FramesKept DEF IrqSuspendCheck, IrqIdle, Frame, Pauses
    <3> QED
      BY <2>10, <3>1, Frames DEF IrqSuspendCheck, TypeInv
  <2>11. CASE IrqSuspend
    <3>1. Top.arg \in Thread
      BY <2>0, <2>11 DEF IrqSuspend, Pauses
    <3>2. FramesOK'
      BY <2>0, <2>11, FramesKept DEF IrqSuspend, Frame, Pauses
    <3>3. TcbOK'
      BY <2>11, <3>1 DEF IrqSuspend, TypeInv, TcbOK
    <3>4. ReadyOK'
      BY <2>11, <3>1, ReadyType, Frames DEF IrqSuspend
    <3> QED
      BY <2>11, <3>2, <3>3, <3>4, Frames DEF IrqSuspend, TypeInv
  <2> QED
    BY <1>5, <2>1, <2>2, <2>3, <2>4, <2>5, <2>6, <2>7, <2>8, <2>9, <2>10, <2>11 DEF IsrNext
<1>6. CASE PendSV
  <2>1. CpuOK'
    BY <1>6 DEF PendSV, TypeInv, CpuOK, TargetOK, cpu
  <2>2. TargetOK'
    BY <1>6 DEF PendSV, TypeInv, TargetOK
  <2> QED
    BY <1>6, <2>1, <2>2, Frames DEF PendSV, TypeInv
<1>7. CASE UNCHANGED vars
  BY <1>7, Frames DEF vars, TypeInv
<1> QED
  BY <1>1, <1>2, <1>3, <1>4, <1>5, <1>6, <1>7 DEF Next

\* Every state of the scheduler is well typed; in particular CURRENT is a thread
\* once start() has set it, and a requested switch always has a target.
THEOREM TypeCorrect == Spec => []TypeOK
BY TypeInvOK, TypeInit, TypeNext, PTL DEF Spec

-----------------------------------------------------------------------------
HIDE DEF Level, Context

(* The reclaim queue.  Idle frees a thread after it popped it, so a thread *)
(* queued twice, or alive again, would leave the ready table by the back   *)
(* door: the invariant needs that dead threads are queued once.            *)

DeadInv ==
    /\ IsInjective(defunct)
    /\ reaping \notin ToSet(defunct)
    /\ \A t \in ToSet(defunct) : st[t] = "close"
    /\ reaping # NoThread => st[reaping] = "close"

TableInv == TypeInv /\ ReadyTableExact /\ DeadInv

\* What the exactness of the table says of one queue.
QueueExact(q, s, p) ==
    /\ IsInjective(q[p])
    /\ ToSet(q[p]) = {t \in Thread : Prio[t] = p /\ s[t] = "ready"}

LEMMA LinkedReady ==
    ASSUME TableInv, NEW t \in Thread
    PROVE  Linked(t) <=> st[t] = "ready"
<1>1. Prio[t] \in Level
  BY SchedAssumption
<1>2. ready[Prio[t]] \in Seq(Thread)
  BY <1>1 DEF TableInv, TypeInv, ReadyOK
<1>3. DOMAIN ready[Prio[t]] = 1 .. Len(ready[Prio[t]])
  BY <1>2
<1>4. Linked(t) <=> t \in ToSet(ready[Prio[t]])
  BY <1>3 DEF Linked, ToSet
<1> QED
  BY <1>1, <1>4 DEF TableInv, ReadyTableExact

\* A thread that becomes ready is inserted.
LEMMA InsertExact ==
    ASSUME TableInv, NEW t \in Thread, st[t] # "ready",
           st' = [st EXCEPT ![t] = "ready"], ReadyInsert(t)
    PROVE  ReadyTableExact'
<1>1. Prio[t] \in Level /\ ready \in [Level -> Seq(Thread)] /\ ready[Prio[t]] \in Seq(Thread)
  BY SchedAssumption DEF TableInv, TypeInv, ReadyOK
<1>2. st \in [Thread -> {"init", "ready", "suspend", "close", "freed"}]
  BY DEF TableInv, TypeInv, TcbOK
<1>3. \A p \in Level : QueueExact(ready, st, p)
  BY DEF TableInv, ReadyTableExact, QueueExact
<1>4. /\ ready'[Prio[t]] = Append(ready[Prio[t]], t)
      /\ \A p \in Level \ {Prio[t]} : ready'[p] = ready[p]
  BY <1>1 DEF ReadyInsert, LinkTail
<1>5. t \notin ToSet(ready[Prio[t]])
  BY <1>1, <1>3 DEF QueueExact
<1>6. /\ ready'[Prio[t]] # <<>>
      /\ ToSet(ready'[Prio[t]]) = ToSet(ready[Prio[t]]) \cup {t}
      /\ IsInjective(ready'[Prio[t]])
  BY <1>1, <1>3, <1>4, <1>5, AppendQueue DEF QueueExact
<1>7. \A p \in Level : QueueExact(ready', st', p)
  <2>1. QueueExact(ready', st', Prio[t])
    BY <1>1, <1>2, <1>3, <1>6 DEF QueueExact
  <2>2. ASSUME NEW p \in Level, p # Prio[t] PROVE QueueExact(ready', st', p)
    <3>1. ready'[p] = ready[p]
      BY <1>4, <2>2
    <3> QED
      BY <1>2, <1>3, <2>2, <3>1 DEF QueueExact
  <2> QED
    BY <2>1, <2>2
<1>8. group' = {p \in Level : ready'[p] # <<>>}
  BY <1>1, <1>4, <1>6 DEF TableInv, ReadyTableExact, ReadyInsert
<1> QED
  BY <1>7, <1>8 DEF ReadyTableExact, QueueExact

\* A thread that stops being ready is unlinked.
LEMMA RemoveExact ==
    ASSUME TableInv, NEW t \in Thread, st[t] = "ready",
           NEW s, s # "ready", st' = [st EXCEPT ![t] = s], ReadyRemove(t)
    PROVE  ReadyTableExact'
<1>1. Prio[t] \in Level /\ ready \in [Level -> Seq(Thread)] /\ ready[Prio[t]] \in Seq(Thread)
  BY SchedAssumption DEF TableInv, TypeInv, ReadyOK
<1>2. st \in [Thread -> {"init", "ready", "suspend", "close", "freed"}]
  BY DEF TableInv, TypeInv, TcbOK
<1>3. \A p \in Level : QueueExact(ready, st, p)
  BY DEF TableInv, ReadyTableExact, QueueExact
<1>4. /\ ready'[Prio[t]] = RemoveFirst(ready[Prio[t]], t)
      /\ \A p \in Level \ {Prio[t]} : ready'[p] = ready[p]
  BY <1>1 DEF ReadyRemove, Unlink
<1>5. /\ ToSet(ready'[Prio[t]]) = ToSet(ready[Prio[t]]) \ {t}
      /\ IsInjective(ready'[Prio[t]])
  BY <1>1, <1>3, <1>4, RemoveQueue DEF QueueExact
<1>6. \A p \in Level : QueueExact(ready', st', p)
  <2>1. QueueExact(ready', st', Prio[t])
    BY <1>1, <1>2, <1>3, <1>5 DEF QueueExact
  <2>2. ASSUME NEW p \in Level, p # Prio[t] PROVE QueueExact(ready', st', p)
    <3>1. ready'[p] = ready[p]
      BY <1>4, <2>2
    <3> QED
      BY <1>2, <1>3, <2>2, <3>1 DEF QueueExact
  <2> QED
    BY <2>1, <2>2
<1>7. group' = {p \in Level : ready'[p] # <<>>}
  <2>1. group' = IF ready'[Prio[t]] = <<>> THEN group \ {Prio[t]} ELSE group
    BY DEF ReadyRemove
  <2>2. t \in ToSet(ready[Prio[t]])
    BY <1>1, <1>3 DEF QueueExact
  <2>3. ready[Prio[t]] # <<>>
    BY <2>2 DEF ToSet
  <2> QED
    BY <1>1, <1>4, <2>1, <2>3 DEF TableInv, ReadyTableExact
<1> QED
  BY <1>6, <1>7 DEF ReadyTableExact, QueueExact

\* Rotation unlinks a ready thread and appends it: the members stay, and the bit
\* that ready_node.remove() did not clear is the right one.
LEMMA RotateExact ==
    ASSUME TableInv, NEW t \in Thread, st[t] = "ready", UNCHANGED st, Rotate(t)
    PROVE  ReadyTableExact'
<1>1. Prio[t] \in Level /\ ready \in [Level -> Seq(Thread)] /\ ready[Prio[t]] \in Seq(Thread)
  BY SchedAssumption DEF TableInv, TypeInv, ReadyOK
<1>3. \A p \in Level : QueueExact(ready, st, p)
  BY DEF TableInv, ReadyTableExact, QueueExact
<1> DEFINE r == RemoveFirst(ready[Prio[t]], t)
<1>4. /\ ready'[Prio[t]] = Append(r, t)
      /\ \A p \in Level \ {Prio[t]} : ready'[p] = ready[p]
  BY <1>1 DEF Rotate, Unlink, LinkTail
<1>5. r \in Seq(Thread) /\ ToSet(r) = ToSet(ready[Prio[t]]) \ {t} /\ IsInjective(r)
  BY <1>1, <1>3, RemoveQueue DEF QueueExact
<1> HIDE DEF r
<1>6. /\ ready'[Prio[t]] # <<>>
      /\ ToSet(ready'[Prio[t]]) = ToSet(r) \cup {t}
      /\ IsInjective(ready'[Prio[t]])
  BY <1>4, <1>5, AppendQueue
<1>7. \A p \in Level : QueueExact(ready', st', p)
  <2>1. QueueExact(ready', st', Prio[t])
    BY <1>1, <1>3, <1>5, <1>6 DEF QueueExact
  <2>2. ASSUME NEW p \in Level, p # Prio[t] PROVE QueueExact(ready', st', p)
    <3>1. ready'[p] = ready[p]
      BY <1>4, <2>2
    <3> QED
      BY <1>3, <2>2, <3>1 DEF QueueExact
  <2> QED
    BY <2>1, <2>2
<1>8. group' = {p \in Level : ready'[p] # <<>>}
  BY <1>1, <1>4, <1>6 DEF TableInv, ReadyTableExact, Rotate
<1> QED
  BY <1>7, <1>8 DEF ReadyTableExact, QueueExact

\* Nothing is unlinked when the thread is not in its queue.
LEMMA RemoveNone ==
    ASSUME TableInv, NEW t \in Thread, st[t] # "ready", ReadyRemove(t)
    PROVE  UNCHANGED queues
<1>1. /\ Prio[t] \in Level /\ ready \in [Level -> Seq(Thread)] /\ ready[Prio[t]] \in Seq(Thread)
      /\ group \subseteq Level
  BY SchedAssumption DEF TableInv, TypeInv, ReadyOK
<1>2. t \notin ToSet(ready[Prio[t]])
  BY <1>1 DEF TableInv, ReadyTableExact
<1>3. RemoveFirst(ready[Prio[t]], t) = ready[Prio[t]]
  <2>1. ~ \E i \in 1 .. Len(ready[Prio[t]]) : ready[Prio[t]][i] = t
    BY <1>1, <1>2 DEF ToSet
  <2> QED
    BY <2>1 DEF RemoveFirst
<1>4. Unlink(ready, t) = ready
  BY <1>1, <1>3 DEF Unlink
<1>5. ready[Prio[t]] = <<>> => group \ {Prio[t]} = group
  BY DEF TableInv, ReadyTableExact
<1> QED
  BY <1>4, <1>5 DEF ReadyRemove, queues

\* A step that leaves the queues alone and readies or unreadies no thread.
LEMMA SameExact ==
    ASSUME TableInv, UNCHANGED queues,
           \A t \in Thread : st'[t] = "ready" <=> st[t] = "ready"
    PROVE  ReadyTableExact'
<1>1. \A p \in Level : QueueExact(ready, st, p)
  BY DEF TableInv, ReadyTableExact, QueueExact
<1>2. \A p \in Level : QueueExact(ready', st', p)
  BY <1>1 DEF QueueExact, queues
<1> QED
  BY <1>2 DEF TableInv, ReadyTableExact, QueueExact, queues

\* The dead stay dead, and queued once, when no dead thread changes state.
LEMMA SameDead ==
    ASSUME TableInv, UNCHANGED graves,
           \A t \in Thread : st[t] = "close" => st'[t] = "close"
    PROVE  DeadInv'
<1>1. ToSet(defunct) \subseteq Thread
  BY DEF TableInv, TypeInv, GraveOK, ToSet
<1> QED
  BY <1>1 DEF TableInv, TypeInv, GraveOK, DeadInv, graves

LEMMA DeleteTable ==
    ASSUME TableInv, NEW t \in Thread, DeleteBookkeeping(t), UNCHANGED reaping
    PROVE  ReadyTableExact' /\ DeadInv'
<1>1. st \in [Thread -> {"init", "ready", "suspend", "close", "freed"}] /\ defunct \in Seq(Thread)
  BY DEF TableInv, TypeInv, TcbOK, GraveOK
<1>2. CASE st[t] \in {"close", "freed"}
  BY <1>2, SameExact, SameDead DEF DeleteBookkeeping, graves
<1>3. CASE st[t] \notin {"close", "freed"}
  <2>1. st' = [st EXCEPT ![t] = "close"] /\ defunct' = Append(defunct, t)
    BY <1>3 DEF DeleteBookkeeping
  <2>2. ReadyTableExact'
    <3>1. CASE st[t] = "ready"
      BY <1>3, <2>1, <3>1, LinkedReady, RemoveExact DEF DeleteBookkeeping
    <3>2. CASE st[t] # "ready"
      <4>1. UNCHANGED queues
        BY <1>3, <3>2, LinkedReady DEF DeleteBookkeeping
      <4>2. \A u \in Thread : st'[u] = "ready" <=> st[u] = "ready"
        BY <1>1, <2>1, <3>2
      <4> QED
        BY <4>1, <4>2, SameExact
    <3> QED
      BY <3>1, <3>2
  <2>3. t \notin ToSet(defunct) /\ t # reaping
    BY <1>3, SchedAssumption DEF TableInv, DeadInv
  <2>4. IsInjective(defunct') /\ ToSet(defunct') = ToSet(defunct) \cup {t}
    BY <1>1, <2>1, <2>3, AppendQueue DEF TableInv, DeadInv
  <2>5. ToSet(defunct) \subseteq Thread
    BY <1>1 DEF ToSet
  <2>6. DeadInv'
    BY <1>1, <2>1, <2>3, <2>4, <2>5 DEF TableInv, TypeInv, GraveOK, DeadInv
  <2> QED
    BY <2>2, <2>6
<1> QED
  BY <1>2, <1>3

-----------------------------------------------------------------------------
LEMMA TableInit == Init => ReadyTableExact /\ DeadInv
<1> SUFFICES ASSUME Init PROVE ReadyTableExact /\ DeadInv
  OBVIOUS
<1>1. \A p \in Level : ready[p] = <<>>
  BY DEF Init
<1>2. IsInjective(<<>>) /\ ToSet(<<>>) = {}
  BY DEF IsInjective, ToSet
<1>3. ReadyTableExact
  BY <1>1, <1>2 DEF Init, ReadyTableExact
<1> QED
  BY <1>2, <1>3, SchedAssumption DEF Init, DeadInv

LEMMA TableNext == TableInv /\ [Next]_vars => ReadyTableExact' /\ DeadInv'
<1> SUFFICES ASSUME TableInv, [Next]_vars PROVE ReadyTableExact' /\ DeadInv'
  OBVIOUS
<1> USE SchedAssumption
<1>0. /\ st \in [Thread -> {"init", "ready", "suspend", "close", "freed"}]
      /\ defunct \in Seq(Thread) /\ reaping \in Thread \cup {NoThread}
  BY DEF TableInv, TypeInv, TcbOK, GraveOK
<1>1. ASSUME UNCHANGED <<st, queues, graves>> PROVE ReadyTableExact' /\ DeadInv'
  BY <1>1, SameExact, SameDead
<1>2. ASSUME NEW t \in Thread, ThreadCreate(t) PROVE ReadyTableExact' /\ DeadInv'
  <2>1. st' = [st EXCEPT ![t] = "ready"] /\ st[t] = "init" /\ ReadyInsert(t) /\ UNCHANGED graves
    BY <1>2 DEF ThreadCreate
  <2> QED
    BY <1>0, <2>1, InsertExact, SameDead
<1>3. ASSUME NEW c \in Thread, ThreadNext(c) PROVE ReadyTableExact' /\ DeadInv'
  <2>1. CASE ThreadDelay(c)
    <3>1. /\ st' = [st EXCEPT ![c] = "suspend"] /\ st[c] \in {"ready", "suspend"}
          /\ ReadyRemove(c) /\ UNCHANGED graves
      BY <2>1 DEF ThreadDelay, Calls
    <3>2. DeadInv'
      BY <1>0, <3>1, SameDead
    <3>3. CASE st[c] = "ready"
      BY <1>0, <3>1, <3>2, <3>3, RemoveExact
    <3>4. CASE st[c] = "suspend"
      <4>1. UNCHANGED queues
        BY <3>1, <3>4, RemoveNone
      <4> QED
        BY <1>0, <3>1, <3>2, <3>4, <4>1, SameExact
    <3> QED
      BY <3>1, <3>3, <3>4
  <2>2. CASE ThreadYield(c)
    <3>1. UNCHANGED st /\ Linked(c) /\ Rotate(c) /\ UNCHANGED graves
      BY <2>2 DEF ThreadYield, tcb
    <3> QED
      BY <3>1, LinkedReady, RotateExact, SameDead
  <2>3. CASE ThreadSchedule(c)
    BY <1>1, <2>3 DEF ThreadSchedule, tcb
  <2>4. ASSUME NEW t \in Thread, ThreadSuspend(c, t) PROVE ReadyTableExact' /\ DeadInv'
    <3>1. st' = [st EXCEPT ![t] = "suspend"] /\ st[t] = "ready" /\ ReadyRemove(t) /\ UNCHANGED graves
      BY <2>4 DEF ThreadSuspend
    <3> QED
      BY <1>0, <3>1, RemoveExact, SameDead
  <2>5. ASSUME NEW t \in Thread, ThreadResume(c, t) PROVE ReadyTableExact' /\ DeadInv'
    <3>1. st' = [st EXCEPT ![t] = "ready"] /\ st[t] = "suspend" /\ ReadyInsert(t) /\ UNCHANGED graves
      BY <2>5 DEF ThreadResume, Wakeup
    <3> QED
      BY <1>0, <3>1, InsertExact, SameDead
  <2>6. ASSUME NEW t \in Thread, ThreadDelete(c, t) PROVE ReadyTableExact' /\ DeadInv'
    BY <2>6, DeleteTable DEF ThreadDelete
  <2> QED
    BY <1>3, <2>1, <2>2, <2>3, <2>4, <2>5, <2>6 DEF ThreadNext
<1>4. CASE IdlePop
  <2>1. ReadyTableExact'
    BY <1>4, SameExact DEF IdlePop, tcb
  <2>2. /\ defunct # <<>> /\ reaping' = Head(defunct) /\ defunct' = Tail(defunct)
        /\ UNCHANGED st
    BY <1>4 DEF IdlePop, tcb
  <2>3. /\ Len(defunct) \in Nat \ {0}
        /\ DOMAIN defunct = 1 .. Len(defunct)
        /\ DOMAIN defunct' = 1 .. Len(defunct) - 1
        /\ \A i \in DOMAIN defunct' : defunct'[i] = defunct[i + 1]
        /\ reaping' = defunct[1]
    BY <1>0, <2>2
  <2>4. IsInjective(defunct)
    BY DEF TableInv, DeadInv
  <2>5. IsInjective(defunct')
    BY <2>3, <2>4 DEF IsInjective
  <2>6. reaping' \notin ToSet(defunct')
    BY <2>3, <2>4 DEF IsInjective, ToSet
  <2>7. ToSet(defunct') \subseteq ToSet(defunct) /\ reaping' \in ToSet(defunct)
    BY <2>3 DEF ToSet
  <2> QED
    BY <2>1, <2>2, <2>5, <2>6, <2>7 DEF TableInv, DeadInv
<1>5. CASE IdleFree
  <2>1. /\ st' = [st EXCEPT ![reaping] = "freed"] /\ reaping # NoThread /\ reaping' = NoThread
        /\ UNCHANGED <<queues, defunct>>
    BY <1>5 DEF IdleFree
  <2>2. st[reaping] = "close" /\ reaping \notin ToSet(defunct)
    BY <2>1 DEF TableInv, DeadInv
  <2>3. \A t \in Thread : st'[t] = "ready" <=> st[t] = "ready"
    BY <1>0, <2>1, <2>2
  <2>4. ToSet(defunct) \subseteq Thread
    BY <1>0 DEF ToSet
  <2>5. DeadInv'
    BY <1>0, <2>1, <2>2, <2>4 DEF TableInv, DeadInv
  <2> QED
    BY <2>1, <2>3, <2>5, SameExact
<1>6. CASE IdleLoop
  BY <1>1, <1>6 DEF IdleLoop, tcb
<1>7. CASE TickEnter
  <2>1. UNCHANGED st /\ UNCHANGED graves
    BY <1>7 DEF TickEnter
  <2>2. CASE UNCHANGED queues
    BY <1>1, <2>1, <2>2
  <2>3. CASE ~ UNCHANGED queues
    <3>1. current \in Thread /\ Linked(current) /\ Rotate(current)
      BY <1>7, <2>3 DEF TickEnter, TableInv, TypeInv, TargetOK
    <3> QED
      BY <2>1, <3>1, LinkedReady, RotateExact, SameDead
  <2> QED
    BY <2>2, <2>3
<1>8. CASE TimerCallback
  <2>0. Top.arg \in Thread
    BY <1>8, FrameStack DEF TimerCallback, Frame, TableInv, TypeInv, FramesOK
  <2>1. CASE st[Top.arg] # "suspend"
    BY <1>1, <1>8, <2>1 DEF TimerCallback
  <2>2. CASE st[Top.arg] = "suspend"
    <3>1. st' = [st EXCEPT ![Top.arg] = "ready"] /\ ReadyInsert(Top.arg) /\ UNCHANGED graves
      BY <1>8, <2>2 DEF TimerCallback
    <3> QED
      BY <1>0, <2>0, <2>2, <3>1, InsertExact, SameDead
  <2> QED
    BY <2>1, <2>2
<1>9. CASE IrqDelete
  <2>1. Top.arg \in Thread
    BY <1>9, FrameStack DEF IrqDelete, Frame, TableInv, TypeInv, FramesOK
  <2> QED
    BY <1>9, <2>1, DeleteTable DEF IrqDelete
<1>10. ASSUME NEW t \in Thread, IrqWake(t) PROVE ReadyTableExact' /\ DeadInv'
  <2>1. st' = [st EXCEPT ![t] = "ready"] /\ st[t] = "suspend" /\ ReadyInsert(t) /\ UNCHANGED graves
    BY <1>10 DEF IrqWake, Wakeup
  <2> QED
    BY <1>0, <2>1, InsertExact, SameDead
<1>11. CASE IrqEnter \/ IsrSchedule \/ IsrReturn
            \/ \E t \in Thread : TimerPop(t) \/ IrqDeleteCheck(t) \/ IrqSuspendCheck(t)
  BY <1>1, <1>11 DEF IrqEnter, IsrSchedule, IsrReturn, TimerPop, IrqDeleteCheck,
     IrqSuspendCheck, tcb
<1>12. CASE BootNext
  BY <1>1, <1>12 DEF BootNext, StartSetCurrent, FirstStoreTo, FirstStoreFrom, FirstStoreFlag,
     FirstPend, KeepKernel, tcb
<1>13. CASE PendSV \/ UNCHANGED vars
  BY <1>1, <1>13 DEF PendSV, vars, tcb
<1>14. CASE IrqSuspend
  <2>1. Top.arg \in Thread /\ UNCHANGED graves
    BY <1>14, FramesKept DEF IrqSuspend, Pauses, TableInv, TypeInv
  <2>2. CASE st[Top.arg] = "ready"
    <3>1. st' = [st EXCEPT ![Top.arg] = "suspend"] /\ ReadyRemove(Top.arg)
      BY <1>14, <2>2 DEF IrqSuspend
    <3> QED
      BY <1>0, <2>1, <2>2, <3>1, RemoveExact, SameDead
  <2>3. CASE st[Top.arg] # "ready"
    BY <1>1, <1>14, <2>1, <2>3 DEF IrqSuspend
  <2> QED
    BY <2>2, <2>3
<1> QED
  BY <1>2, <1>3, <1>4, <1>5, <1>6, <1>7, <1>8, <1>9, <1>10, <1>11, <1>12, <1>13, <1>14
     DEF Next, IdleNext, IsrNext

LEMMA TableInvariant == Spec => []TableInv
<1>1. Init => TableInv
  BY TypeInit, TableInit DEF TableInv
<1>2. TableInv /\ [Next]_vars => TableInv'
  BY TypeNext, TableNext DEF TableInv
<1> QED
  BY <1>1, <1>2, PTL DEF Spec

\* READY_GROUP and the ready queues describe exactly the ready threads, each once and
\* at its priority, in every interleaving of calls, ticks and nested interrupts.
THEOREM ReadyTable == Spec => []ReadyTableExact
<1>1. TableInv => ReadyTableExact
  BY DEF TableInv
<1> QED
  BY <1>1, TableInvariant, PTL


-----------------------------------------------------------------------------
(* The inductive invariant behind the safety of context switches: what     *)
(* SWITCH_FLAG, FROM, TO, CURRENT and the executing context have to do     *)
(* with each other, while start() runs and afterwards.                     *)

\* One thread that main creates is more urgent than all others it creates.
UniqueFirst == \E t \in Boot : \A u \in Boot \ {t} : Prio[t] < Prio[u]
First == CHOOSE t \in Boot : \A u \in Boot \ {t} : Prio[t] < Prio[u]

Window == {"to", "from", "flag", "pend"}
Held == {First} \cup (Thread \ Boot)
NoFrame(S) == \A i \in DOMAIN isrs : isrs[i].arg \notin S

\* Until PendSV is first requested no thread has run, so none sleeps; and once CURRENT
\* is set no handler can take the first thread away (it may suspend or delete others),
\* so a schedule() in a handler finds CURRENT to be the highest ready thread and
\* requests nothing between the unprotected stores of switch_to_first.
StartInv ==
    /\ boot # "done" =>
         /\ running = Main /\ ~pendsv /\ fromSp = NoThread /\ sleeping = {}
         /\ switchFlag <=> boot = "pend"
         /\ \A t \in Thread \ Boot : st[t] = "init"
    /\ boot = "init" =>
         /\ current = NoThread /\ NoFrame(Thread)
         /\ \A t \in Thread : st[t] \in {"init", "ready"}
    /\ boot \in Window => current = First /\ st[First] = "ready" /\ NoFrame(Held)
    /\ boot \in {"from", "flag", "pend"} => toSp = First

\* From then on a pending request names the executing context as FROM and CURRENT
\* as TO, and when none is pending the executing thread is CURRENT.
RequestInv ==
    boot = "done" =>
      /\ switchFlag <=> pendsv
      /\ switchFlag => toSp = current /\ fromSp = IF running = Main THEN NoThread ELSE running
      /\ ~switchFlag => running = current

SwitchInv == StartInv /\ RequestInv /\ ContextIntegrity

\* CURRENT is ready, or was suspended by a handler that had found it not to be CURRENT,
\* and no ready thread outranks it, unless a context that will call schedule() still
\* has to: a handler, or the executing thread.  A thread made by thread_create is not
\* accounted for, until the next request.
Urgent == /\ current \in Thread /\ Runs(current)
          /\ \A t \in Thread : st[t] = "ready" => Prio[current] <= Prio[t]
HandlerOwes == \E i \in DOMAIN isrs : isrs[i].owes

PreemptInv ==
    /\ boot # "init" => st[Idle] = "ready"
    /\ NoFrame({Idle})
    /\ boot # "init" =>
         \/ Urgent
         \/ HandlerOwes
         \/ ~pendsv /\ (running \in owed \/ Boot # Thread)

\* A handler with a thread in hand has made nothing ready yet, and sleepers are
\* suspended.
HandsFree == \A i \in DOMAIN isrs : isrs[i].arg # NoThread => ~isrs[i].owes
Sleepers  == \A t \in sleeping : st[t] = "suspend"
HandInv   == HandsFree /\ Sleepers

\* Memory is returned while idle executes and is CURRENT and no handler is active: no
\* context in use, and no thread that a tick handler has in hand, was freed.
InUse(t) == t \in {running, current} \/ \E i \in DOMAIN isrs : isrs[i].kind = "tick" /\ isrs[i].arg = t
FreedInv == \A t \in Thread : st[t] = "freed" => ~InUse(t)

-----------------------------------------------------------------------------
LEMMA LevelNat == Level \subseteq Nat
BY SchedAssumption DEF Level

LEMMA PrioNat == \A t \in Thread : Prio[t] \in Nat
<1>1. Prio \in [Thread -> Level]
  BY SchedAssumption
<1> QED
  BY <1>1, LevelNat

\* The head of the queue of the lowest bit of READY_GROUP is a ready thread that no
\* ready thread outranks, and there is one whenever any thread is ready.
LEMMA HighestIsUrgent ==
    ASSUME TableInv
    PROVE  /\ HighestReady # NoThread =>
                /\ HighestReady \in Thread /\ st[HighestReady] = "ready"
                /\ \A t \in Thread : st[t] = "ready" => Prio[HighestReady] <= Prio[t]
           /\ HighestReady = NoThread => \A t \in Thread : st[t] # "ready"
<1>1. /\ ready \in [Level -> Seq(Thread)] /\ group \subseteq Level
      /\ group \in SUBSET Nat /\ Prio \in [Thread -> Level]
  <2>1. ready \in [Level -> Seq(Thread)] /\ group \subseteq Level
    BY DEF TableInv, TypeInv, ReadyOK
  <2>2. Prio \in [Thread -> Level]
    BY SchedAssumption
  <2> QED
    BY <2>1, <2>2, LevelNat
<1>2. group = {p \in Level : ready[p] # <<>>}
  BY DEF TableInv, ReadyTableExact
<1>3. \A p \in Level : ToSet(ready[p]) = {t \in Thread : Prio[t] = p /\ st[t] = "ready"}
  BY DEF TableInv, ReadyTableExact
<1>4. ASSUME NEW t \in Thread, st[t] = "ready" PROVE Prio[t] \in group
  <2>1. t \in ToSet(ready[Prio[t]])
    BY <1>1, <1>3, <1>4
  <2>2. ready[Prio[t]] # <<>>
    BY <2>1 DEF ToSet
  <2> QED
    BY <1>1, <1>2, <2>2
<1>5. CASE group = {}
  BY <1>4, <1>5 DEF HighestReady
<1>6. CASE group # {}
  <2>1. \E m \in group : \A n \in group : m <= n
    BY <1>1, <1>6, LeastElement
  <2>2. TopLevel \in group /\ \A n \in group : TopLevel <= n
    BY <2>1 DEF TopLevel
  <2>3. ready[TopLevel] # <<>> /\ ready[TopLevel] \in Seq(Thread)
    BY <1>1, <1>2, <2>2
  <2>4. HighestReady = Head(ready[TopLevel])
    BY <1>6, <2>3 DEF HighestReady
  <2>5. HighestReady \in ToSet(ready[TopLevel])
    BY <2>3, <2>4 DEF ToSet
  <2>6. HighestReady \in Thread /\ st[HighestReady] = "ready" /\ Prio[HighestReady] = TopLevel
    BY <1>1, <1>3, <2>2, <2>5
  <2>7. HighestReady # NoThread
    BY <2>6, SchedAssumption
  <2> QED
    BY <1>4, <2>2, <2>6, <2>7
<1> QED
  BY <1>5, <1>6

\* Before the first switch, schedule() finds that CURRENT is the highest thread.
LEMMA FirstIsHighest ==
    ASSUME TableInv, UniqueFirst, st[First] = "ready",
           \A t \in Thread \ Boot : st[t] = "init"
    PROVE  First \in Boot /\ HighestReady = First
<1>1. First \in Boot /\ \A u \in Boot \ {First} : Prio[First] < Prio[u]
  BY DEF UniqueFirst, First
<1>2. First \in Thread
  BY <1>1, SchedAssumption
<1>3. HighestReady \in Thread /\ st[HighestReady] = "ready" /\ Prio[HighestReady] <= Prio[First]
  BY <1>2, HighestIsUrgent
<1>4. HighestReady \in Boot
  BY <1>3
<1>5. Prio[HighestReady] \in Int /\ Prio[First] \in Int
  BY <1>2, <1>3, PrioNat
<1>6. ~ (Prio[First] < Prio[HighestReady])
  BY <1>3, <1>5
<1> QED
  BY <1>1, <1>4, <1>6

\* schedule() keeps the request consistent.
LEMMA ScheduleKeeps ==
    ASSUME TableInv, UniqueFirst, SwitchInv, Schedule,
           UNCHANGED <<tcb, sleeping, cpu, boot>>, boot \in Window => UNCHANGED switch
    PROVE  RequestInv' /\ ContextIntegrity'
<1>1. boot = "done" => current \in Thread
  BY DEF TableInv, TypeInv, TargetOK
<1>2. ContextIntegrity'
  BY DEF SwitchInv, ContextIntegrity, cpu
<1>3. CASE UNCHANGED switch
  BY <1>2, <1>3 DEF SwitchInv, RequestInv, switch, cpu
<1>4. CASE boot = "done" /\ ~ UNCHANGED switch
  <2>1. RequestSwitch(current, HighestReady) /\ current' = HighestReady
    BY <1>4 DEF Schedule
  <2>2. ~switchFlag => running = current /\ current # Main
    BY <1>1, <1>4, SchedAssumption DEF SwitchInv, RequestInv
  <2>3. RequestInv'
    BY <1>4, <2>1, <2>2 DEF SwitchInv, RequestInv, RequestSwitch, cpu
  <2> QED
    BY <1>2, <2>3
<1>5. CASE boot # "done" /\ boot \notin Window /\ ~ UNCHANGED switch
  <2>1. boot = "init"
    BY <1>5 DEF TableInv, TypeInv, TargetOK, Window
  <2>2. current = NoThread
    BY <2>1 DEF SwitchInv, StartInv
  <2> QED
    BY <1>5, <2>2 DEF Schedule
<1> QED
  BY <1>3, <1>4, <1>5

-----------------------------------------------------------------------------
SwitchAll == TableInv /\ SwitchInv

\* How the argument of a handler frame can change.
LEMMA TopArgs ==
    ASSUME isrs \in Seq(Frame), isrs # <<>>, NEW S, NEW f,
           isrs' = [isrs EXCEPT ![Len(isrs)] = f], NoFrame(S), f.arg \notin S
    PROVE  NoFrame(S)'
<1>1. DOMAIN isrs' = DOMAIN isrs
  OBVIOUS
<1>2. ASSUME NEW i \in DOMAIN isrs PROVE isrs'[i] = IF i = Len(isrs) THEN f ELSE isrs[i]
  OBVIOUS
<1> QED
  BY <1>1, <1>2 DEF NoFrame

LEMMA SetTopArgs ==
    ASSUME isrs \in Seq(Frame), isrs # <<>>, NEW S,
           NEW o \in BOOLEAN, NEW x \in Thread \cup {NoThread}, SetTop(o, x),
           NoFrame(S), x \notin S
    PROVE  NoFrame(S)'
<1>1. [kind |-> Top.kind, owes |-> o, arg |-> x].arg = x
  OBVIOUS
<1> QED
  BY <1>1, TopArgs DEF SetTop

LEMMA PushPopArgs ==
    ASSUME isrs \in Seq(Frame), NEW S, NoFrame(S), NoThread \notin S
    PROVE  /\ \A k : isrs' = Append(isrs, [kind |-> k, owes |-> FALSE, arg |-> NoThread])
                       => NoFrame(S)'
           /\ \A k, o : isrs' = <<[kind |-> k, owes |-> o, arg |-> NoThread]>> => NoFrame(S)'
           /\ isrs # <<>> /\ isrs' = SubSeq(isrs, 1, Len(isrs) - 1) => NoFrame(S)'
<1>1. ASSUME NEW k, isrs' = Append(isrs, [kind |-> k, owes |-> FALSE, arg |-> NoThread])
      PROVE  NoFrame(S)'
  <2> DEFINE f == [kind |-> k, owes |-> FALSE, arg |-> NoThread]
  <2>1. f.arg = NoThread /\ isrs' = Append(isrs, f)
    BY <1>1
  <2> HIDE DEF f
  <2>2. /\ DOMAIN isrs' = 1 .. Len(isrs) + 1
        /\ \A i \in 1 .. Len(isrs) : isrs'[i] = isrs[i]
        /\ isrs'[Len(isrs) + 1] = f
        /\ DOMAIN isrs = 1 .. Len(isrs) /\ Len(isrs) \in Nat
    BY <2>1
  <2> QED
    BY <2>1, <2>2 DEF NoFrame
<1>2. ASSUME NEW k, NEW o, isrs' = <<[kind |-> k, owes |-> o, arg |-> NoThread]>>
      PROVE  NoFrame(S)'
  BY <1>2 DEF NoFrame
<1>3. ASSUME isrs # <<>>, isrs' = SubSeq(isrs, 1, Len(isrs) - 1) PROVE NoFrame(S)'
  <2>1. \A i \in DOMAIN isrs' : i \in DOMAIN isrs /\ isrs'[i] = isrs[i]
    BY <1>3
  <2> QED
    BY <2>1 DEF NoFrame
<1> QED
  BY <1>1, <1>2, <1>3

LEMMA SwitchInit == Init => SwitchInv
<1> SUFFICES ASSUME Init PROVE SwitchInv
  OBVIOUS
<1>1. StartInv
  BY SchedAssumption DEF Init, StartInv, Window, NoFrame
<1>2. RequestInv /\ ContextIntegrity
  BY DEF Init, RequestInv, ContextIntegrity
<1> QED
  BY <1>1, <1>2 DEF SwitchInv

\* A step that neither ends the boot phase nor changes what a handler may do to it.
LEMMA StartKeeps ==
    ASSUME SwitchAll, UniqueFirst, UNCHANGED boot,
           boot # "done" =>
             /\ UNCHANGED switch /\ running' = running /\ sleeping' \subseteq sleeping
             /\ \A t \in Thread \ Boot : st'[t] = st[t],
           boot = "init" => NoFrame(Thread)' /\ \A t \in Thread : st'[t] \in {"init", "ready"},
           boot \in Window => st'[First] = st[First] /\ NoFrame(Held)'
    PROVE  StartInv'
<1>1. boot' = boot
  OBVIOUS
<1>2. CASE boot = "done"
  BY <1>1, <1>2 DEF StartInv, Window
<1>3. CASE boot = "init"
  BY <1>1, <1>3 DEF SwitchAll, SwitchInv, StartInv, switch, Window
<1>4. CASE boot \in Window
  <2>1. /\ running = Main /\ ~pendsv /\ fromSp = NoThread /\ sleeping = {}
        /\ switchFlag <=> boot = "pend"
        /\ \A t \in Thread \ Boot : st[t] = "init"
        /\ current = First /\ st[First] = "ready"
        /\ boot \in {"from", "flag", "pend"} => toSp = First
    BY <1>4 DEF SwitchAll, SwitchInv, StartInv, Window
  <2>2. UNCHANGED <<current, switchFlag, fromSp, toSp, pendsv>> /\ boot # "init" /\ boot # "done"
    BY <1>4 DEF switch, Window
  <2> QED
    BY <1>1, <1>4, <2>1, <2>2 DEF StartInv, Window
<1> QED
  BY <1>2, <1>3, <1>4 DEF SwitchAll, TableInv, TypeInv, TargetOK, Window

\* Deleting a thread changes the state of no other, and puts none to sleep.
LEMMA DeleteState ==
    ASSUME st \in [Thread -> {"init", "ready", "suspend", "close", "freed"}],
           NEW t \in Thread, DeleteBookkeeping(t)
    PROVE  /\ sleeping' \subseteq sleeping
           /\ \A u \in Thread \ {t} : st'[u] = st[u]
BY DEF DeleteBookkeeping

\* A step that leaves the switch and the CPU alone.
LEMMA RequestKeeps ==
    ASSUME SwitchAll, UNCHANGED <<switch, cpu, boot>>
    PROVE  RequestInv' /\ ContextIntegrity'
BY DEF SwitchAll, SwitchInv, RequestInv, ContextIntegrity, switch, cpu

-----------------------------------------------------------------------------
LEMMA StartNext ==
    ASSUME SwitchAll, UniqueFirst, [Next]_vars
    PROVE  StartInv'
<1> USE SchedAssumption
<1>0. /\ st \in [Thread -> {"init", "ready", "suspend", "close", "freed"}]
      /\ isrs \in Seq(Frame) /\ Main \notin Thread /\ First \in Thread
      /\ NoThread \notin Thread /\ First \in Held /\ Held \subseteq Thread
      /\ Thread \ Boot \subseteq Held
      /\ boot \in {"init", "done"} \cup Window
  <2>1. First \in Boot
    BY DEF UniqueFirst, First
  <2> QED
    BY <2>1 DEF SwitchAll, TableInv, TypeInv, TcbOK, FramesOK, TargetOK, Window, Held
<1>1. boot = "done" /\ UNCHANGED boot => StartInv'
  BY DEF StartInv, Window
<1>2. boot # "done" => running = Main /\ ~pendsv /\ sleeping = {}
  BY DEF SwitchAll, SwitchInv, StartInv
<1>3. boot # "done" => \A t \in Thread \ Boot : st[t] = "init"
  BY DEF SwitchAll, SwitchInv, StartInv
<1>4. boot = "init" => /\ NoFrame(Thread) /\ current = NoThread
                       /\ \A t \in Thread : st[t] \in {"init", "ready"}
  BY DEF SwitchAll, SwitchInv, StartInv
<1>5. boot \in Window => NoFrame(Held) /\ current = First /\ st[First] = "ready"
  BY DEF SwitchAll, SwitchInv, StartInv
<1>6. isrs # <<>> => Top \in Frame /\ Len(isrs) \in DOMAIN isrs /\ Pauses(Top)
  BY <1>0, FramesKept DEF SwitchAll, TableInv, TypeInv
<1>7. CASE BootNext
  <2>1. KeepKernel /\ isrs' = isrs /\ st' = st /\ sleeping' = sleeping /\ running' = running
    BY <1>7 DEF BootNext, StartSetCurrent, FirstStoreTo, FirstStoreFrom, FirstStoreFlag,
       FirstPend, KeepKernel, tcb, cpu
  <2>2. CASE StartSetCurrent
    <3>1. boot = "init" /\ boot' = "to" /\ current' = HighestReady
          /\ \A t \in Boot : st[t] # "init"
          /\ UNCHANGED <<switchFlag, fromSp, toSp, pendsv>>
      BY <2>2 DEF StartSetCurrent, MainStep
    <3>2. st[First] = "ready" /\ First \in Boot
      BY <1>4, <3>1 DEF UniqueFirst, First
    <3>3. HighestReady = First
      BY <1>3, <3>1, <3>2, FirstIsHighest DEF SwitchAll
    <3>4. NoFrame(Held)
      BY <1>0, <1>4, <3>1 DEF NoFrame
    <3> QED
      BY <2>1, <3>1, <3>2, <3>3, <3>4 DEF SwitchAll, SwitchInv, StartInv, Window, NoFrame
  <2>3. CASE FirstStoreTo
    BY <2>1, <2>3 DEF FirstStoreTo, MainStep, SwitchAll, SwitchInv, StartInv, Window, NoFrame
  <2>4. CASE FirstStoreFrom
    BY <2>1, <2>4 DEF FirstStoreFrom, MainStep, SwitchAll, SwitchInv, StartInv, Window, NoFrame
  <2>5. CASE FirstStoreFlag
    BY <2>1, <2>5 DEF FirstStoreFlag, MainStep, SwitchAll, SwitchInv, StartInv, Window, NoFrame
  <2>6. CASE FirstPend
    BY <2>6 DEF FirstPend, MainStep, StartInv, Window
  <2> QED
    BY <1>7, <2>2, <2>3, <2>4, <2>5, <2>6 DEF BootNext
<1>8. ASSUME NEW t \in Thread, ThreadCreate(t) PROVE StartInv'
  <2>1. CASE boot = "done"
    BY <1>1, <1>8, <2>1 DEF ThreadCreate
  <2>2. CASE boot # "done"
    <3>1. boot = "init" /\ t \in Boot /\ st' = [st EXCEPT ![t] = "ready"]
          /\ UNCHANGED <<sleeping, switch, cpu, isrs, boot>>
      BY <1>0, <1>2, <1>8, <2>2 DEF ThreadCreate, Calls
    <3>2. NoFrame(Thread)'
      BY <1>4, <3>1 DEF NoFrame
    <3> QED
      BY <1>0, <1>3, <1>4, <3>1, <3>2, StartKeeps DEF Window, cpu
  <2> QED
    BY <2>1, <2>2
<1>9. CASE IdleNext \/ \E c \in Thread : ThreadNext(c)
  <2>1. running \in Thread /\ UNCHANGED boot
    BY <1>9 DEF IdleNext, IdlePop, IdleFree, IdleLoop, ThreadNext, ThreadDelay, ThreadYield,
       ThreadSchedule, ThreadSuspend, ThreadResume, ThreadDelete, Calls
  <2> QED
    BY <1>0, <1>1, <1>2, <2>1
<1>10. CASE PendSV
  BY <1>1, <1>2, <1>10 DEF PendSV
<1>11. CASE UNCHANGED vars
  <2>1. UNCHANGED <<st, sleeping, switch, cpu, isrs, boot>>
    BY <1>11 DEF vars, tcb
  <2>2. \A S : NoFrame(S) => NoFrame(S)'
    BY <2>1 DEF NoFrame
  <2> QED
    BY <1>0, <1>3, <1>4, <1>5, <2>1, <2>2, StartKeeps DEF cpu
<1>12. CASE IsrNext
  <2>1. UNCHANGED <<cpu, boot>>
    BY <1>12 DEF IsrNext, TickEnter, TimerCallback, IrqEnter, IrqDelete, IrqSuspend, IsrSchedule,
       IsrReturn, TimerPop, IrqWake, IrqDeleteCheck, IrqSuspendCheck
  <2>2. CASE boot = "done"
    BY <1>1, <2>1, <2>2
  <2>3. CASE boot # "done"
    \* the frames: no handler takes hold of the first thread
    <3>1. \A S \in {Thread, Held} : NoThread \notin S
      BY <1>0
    <3>4. boot = "init" \/ boot \in Window
      BY <1>0, <2>3
    <3>5. ASSUME \A S \in {Thread, Held} : NoFrame(S) => NoFrame(S)'
          PROVE  /\ boot = "init" => NoFrame(Thread)'
                 /\ boot \in Window => NoFrame(Held)'
      BY <1>4, <1>5, <3>5
    <3>6. ASSUME UNCHANGED <<st, switch>>, sleeping' \subseteq sleeping,
                 \A S \in {Thread, Held} : NoFrame(S) => NoFrame(S)'
          PROVE  StartInv'
      BY <1>3, <1>4, <1>5, <2>1, <3>5, <3>6, StartKeeps DEF cpu
    <3>7. CASE TickEnter
      <4>1. \E o : isrs' = <<[kind |-> "tick", owes |-> o, arg |-> NoThread]>>
        BY <3>7 DEF TickEnter
      <4>2. \A S \in {Thread, Held} : NoFrame(S) => NoFrame(S)'
        BY <1>0, <3>1, <4>1, PushPopArgs
      <4> QED
        BY <3>6, <3>7, <4>2 DEF TickEnter
    <3>8. CASE TimerCallback
      <4>1. Top.arg \in Thread /\ isrs # <<>>
        BY <1>6, <3>8 DEF TimerCallback, Frame
      <4>2. boot \in Window /\ Top.arg \notin Held
        BY <1>4, <1>5, <1>6, <3>4, <4>1 DEF NoFrame, Top
      <4>3. /\ \E o \in BOOLEAN : SetTop(o, NoThread)
            /\ UNCHANGED switch /\ sleeping' \subseteq sleeping
            /\ \A t \in Thread \ {Top.arg} : st'[t] = st[t]
        BY <1>0, <3>8, <4>1, ReschedType DEF TimerCallback
      <4>4. NoFrame(Held)'
        BY <1>0, <1>5, <3>1, <4>1, <4>2, <4>3, SetTopArgs
      <4>5. st'[First] = st[First] /\ \A t \in Thread \ Boot : st'[t] = st[t]
        BY <1>0, <4>2, <4>3
      <4> QED
        BY <2>1, <4>2, <4>3, <4>4, <4>5, StartKeeps DEF cpu, Window
    <3>9. CASE IrqEnter
      <4>1. \A S \in {Thread, Held} : NoFrame(S) => NoFrame(S)'
        BY <1>0, <3>1, <3>9, PushPopArgs DEF IrqEnter
      <4> QED
        BY <3>6, <3>9, <4>1 DEF IrqEnter, tcb
    <3>10. CASE IsrReturn
      <4>1. \A S \in {Thread, Held} : NoFrame(S) => NoFrame(S)'
        BY <1>0, <3>1, <3>10, PushPopArgs DEF IsrReturn
      <4> QED
        BY <3>6, <3>10, <4>1 DEF IsrReturn, tcb
    <3>11. CASE IrqDelete
      <4>1. isrs # <<>> /\ Top.arg \in Thread /\ SetTop(TRUE, NoThread)
            /\ DeleteBookkeeping(Top.arg) /\ UNCHANGED switch
        BY <1>6, <3>11 DEF IrqDelete, Frame
      <4>2. \A S \in {Thread, Held} : NoFrame(S) => NoFrame(S)'
        BY <1>0, <3>1, <4>1, SetTopArgs
      <4>3. boot \in Window /\ Top.arg \notin Held
        BY <1>4, <1>5, <1>6, <3>4, <4>1 DEF NoFrame, Top
      <4>4. /\ sleeping' \subseteq sleeping
            /\ \A t \in Thread \ {Top.arg} : st'[t] = st[t]
        BY <1>0, <4>1, DeleteState
      <4>6. st'[First] = st[First] /\ \A t \in Thread \ Boot : st'[t] = st[t]
        BY <1>0, <4>3, <4>4
      <4>7. NoFrame(Held)'
        BY <1>5, <4>2, <4>3
      <4>8. boot # "init"
        BY <4>3 DEF Window
      <4> QED
        BY <2>1, <4>1, <4>4, <4>6, <4>7, <4>8, StartKeeps DEF cpu
    <3>12. CASE IsrSchedule
      <4>1. isrs # <<>> /\ SetTop(FALSE, NoThread) /\ Schedule /\ UNCHANGED <<st, sleeping>>
        BY <3>12 DEF IsrSchedule, tcb
      <4>2. \A S \in {Thread, Held} : NoFrame(S) => NoFrame(S)'
        BY <1>0, <3>1, <4>1, SetTopArgs
      <4>3. boot \in Window => HighestReady = current
        BY <1>3, <1>5, <2>3, FirstIsHighest DEF SwitchAll
      <4>4. UNCHANGED switch
        BY <1>4, <3>4, <4>1, <4>3 DEF Schedule
      <4> QED
        BY <3>6, <4>1, <4>2, <4>4
    <3>13. ASSUME NEW t \in Thread, TimerPop(t) PROVE StartInv'
      BY <1>2, <2>3, <3>13 DEF TimerPop
    <3>14. ASSUME NEW t \in Thread, IrqWake(t) PROVE StartInv'
      <4>1. /\ isrs # <<>> /\ SetTop(ReschedNeeded(t), NoThread) /\ st[t] = "suspend"
            /\ st' = [st EXCEPT ![t] = "ready"] /\ UNCHANGED <<sleeping, switch>>
        BY <3>14 DEF IrqWake, IrqIdle, Wakeup
      <4>2. boot \in Window /\ t \notin Held
        BY <1>3, <1>4, <1>5, <2>3, <3>4, <4>1 DEF Held
      <4>3. NoFrame(Held)'
        BY <1>0, <1>5, <3>1, <4>1, <4>2, SetTopArgs, ReschedType
      <4>4. st'[First] = st[First] /\ \A u \in Thread \ Boot : st'[u] = st[u]
        BY <1>0, <4>1, <4>2
      <4> QED
        BY <2>1, <4>1, <4>2, <4>3, <4>4, StartKeeps DEF cpu, Window
    <3>15. ASSUME NEW t \in Thread, IrqDeleteCheck(t) PROVE StartInv'
      <4>1. /\ isrs # <<>> /\ SetTop(FALSE, t) /\ t # current /\ current # NoThread
            /\ st[t] # "init" /\ UNCHANGED <<st, sleeping, switch, boot>>
        BY <3>15 DEF IrqDeleteCheck, IrqIdle, tcb
      <4>2. boot \in Window /\ boot # "init" /\ t \notin Held
        BY <1>3, <1>4, <1>5, <2>3, <3>4, <4>1 DEF Held, Window
      <4>3. NoFrame(Held)'
        BY <1>0, <1>5, <4>1, <4>2, SetTopArgs
      <4> QED
        BY <1>3, <2>1, <2>3, <4>1, <4>2, <4>3, StartKeeps DEF cpu
    <3>16. ASSUME NEW t \in Thread, IrqSuspendCheck(t) PROVE StartInv'
      <4>1. /\ isrs # <<>> /\ t # current /\ current # NoThread
            /\ isrs' = [isrs EXCEPT ![Len(isrs)] = [kind |-> "suspend", owes |-> FALSE, arg |-> t]]
            /\ st[t] # "init" /\ UNCHANGED <<st, sleeping, switch, boot>>
        BY <3>16 DEF IrqSuspendCheck, IrqIdle, tcb
      <4>2. boot \in Window /\ boot # "init" /\ t \notin Held
        BY <1>3, <1>4, <1>5, <2>3, <3>4, <4>1 DEF Held, Window
      <4>3. [kind |-> "suspend", owes |-> FALSE, arg |-> t].arg \notin Held
        BY <4>2
      <4>4. NoFrame(Held)'
        BY <1>0, <1>5, <4>1, <4>2, <4>3, TopArgs
      <4> QED
        BY <1>3, <2>1, <2>3, <4>1, <4>2, <4>4, StartKeeps DEF cpu
    <3>17. CASE IrqSuspend
      <4>1. isrs # <<>> /\ Top.arg \in Thread /\ UNCHANGED <<sleeping, switch>>
        BY <1>6, <3>17, SchedAssumption DEF IrqSuspend, Pauses
      <4>2. boot \in Window /\ Top.arg \notin Held
        BY <1>4, <1>5, <1>6, <3>4, <4>1 DEF NoFrame, Top
      <4>3. \A t \in Thread \ {Top.arg} : st'[t] = st[t]
        BY <1>0, <3>17, <4>1 DEF IrqSuspend
      <4>4. PICK o : isrs' = [isrs EXCEPT ![Len(isrs)] = [kind |-> "irq", owes |-> o, arg |-> NoThread]]
        BY <3>17 DEF IrqSuspend
      <4>5. [kind |-> "irq", owes |-> o, arg |-> NoThread].arg \notin Held
        BY <1>0
      <4>6. NoFrame(Held)'
        BY <1>0, <1>5, <4>1, <4>2, <4>4, <4>5, TopArgs
      <4>7. st'[First] = st[First] /\ \A t \in Thread \ Boot : st'[t] = st[t]
        BY <1>0, <4>2, <4>3
      <4> QED
        BY <2>1, <4>1, <4>2, <4>6, <4>7, StartKeeps DEF cpu, Window
    <3> QED
      BY <1>12, <3>7, <3>8, <3>9, <3>10, <3>11, <3>12, <3>13, <3>14, <3>15, <3>16, <3>17 DEF IsrNext
  <2> QED
    BY <2>2, <2>3
<1> QED
  BY <1>7, <1>8, <1>9, <1>10, <1>11, <1>12 DEF Next

-----------------------------------------------------------------------------
\* The four stores of switch_to_first, and PendSV.
LEMMA BootRequest ==
    ASSUME SwitchAll, BootNext
    PROVE  RequestInv' /\ ContextIntegrity'
<1>1. ContextIntegrity'
  BY DEF BootNext, StartSetCurrent, FirstStoreTo, FirstStoreFrom, FirstStoreFlag, FirstPend,
     KeepKernel, SwitchAll, SwitchInv, ContextIntegrity, cpu
<1>2. CASE FirstPend
  <2>1. boot = "pend" /\ running = Main /\ running' = running /\ pendsv'
        /\ UNCHANGED <<current, switchFlag, fromSp, toSp>>
    BY <1>2 DEF FirstPend, MainStep, KeepKernel, cpu
  <2>2. switchFlag /\ fromSp = NoThread /\ toSp = current /\ pendsv' = TRUE
    BY <1>2, <2>1 DEF FirstPend, SwitchAll, SwitchInv, StartInv, Window
  <2> QED
    BY <1>1, <2>1, <2>2 DEF RequestInv
<1>3. CASE ~ FirstPend
  <2>1. boot' # "done"
    BY <1>3 DEF BootNext, StartSetCurrent, FirstStoreTo, FirstStoreFrom, FirstStoreFlag, MainStep
  <2> QED
    BY <1>1, <2>1 DEF RequestInv
<1> QED
  BY <1>2, <1>3

LEMMA PendSVRequest ==
    ASSUME SwitchAll, PendSV
    PROVE  RequestInv' /\ ContextIntegrity' /\ running' = current
<1>1. saved \in [Thread -> Context] /\ current \in Thread /\ NoThread \notin Thread /\ Main \notin Thread
      /\ running \in Context /\ boot = "done"
  <2>1. boot = "done"
    BY DEF PendSV, SwitchAll, SwitchInv, StartInv
  <2> QED
    BY <2>1, SchedAssumption DEF SwitchAll, TableInv, TypeInv, CpuOK, TargetOK
<1>2. switchFlag /\ toSp = current /\ fromSp = IF running = Main THEN NoThread ELSE running
  BY <1>1 DEF PendSV, SwitchAll, SwitchInv, RequestInv
<1>3. /\ switchFlag' = FALSE /\ pendsv' = FALSE /\ boot' = boot /\ current' = current
      /\ saved' = IF fromSp = NoThread THEN saved ELSE [saved EXCEPT ![fromSp] = running]
      /\ running' = saved'[toSp]
  BY <1>2 DEF PendSV
<1>4. \A t \in Thread : t # running => saved[t] = t
  BY DEF SwitchAll, SwitchInv, ContextIntegrity
<1>5. \A t \in Thread : saved'[t] = t
  BY <1>1, <1>2, <1>3, <1>4
<1>6. running' = current
  BY <1>1, <1>2, <1>3, <1>5
<1> QED
  BY <1>1, <1>3, <1>5, <1>6 DEF RequestInv, ContextIntegrity

LEMMA RequestNext ==
    ASSUME SwitchAll, UniqueFirst, [Next]_vars
    PROVE  RequestInv' /\ ContextIntegrity'
<1>1. CASE UNCHANGED <<switch, cpu, boot>>
  BY <1>1, RequestKeeps
<1>2. CASE BootNext
  BY <1>2, BootRequest
<1>3. CASE PendSV
  BY <1>3, PendSVRequest
<1>4. ASSUME NEW c \in Thread, ThreadSchedule(c) PROVE RequestInv' /\ ContextIntegrity'
  <2>1. Schedule /\ UNCHANGED <<tcb, sleeping, cpu, boot>> /\ running \in Thread
    BY <1>4 DEF ThreadSchedule
  <2>2. boot \notin Window
    BY <2>1, SchedAssumption DEF SwitchAll, SwitchInv, StartInv, Window
  <2> QED
    BY <2>1, <2>2, ScheduleKeeps DEF SwitchAll
<1>5. CASE IsrSchedule
  <2>1. Schedule /\ UNCHANGED <<tcb, sleeping, cpu, boot>>
    BY <1>5 DEF IsrSchedule
  <2>2. ASSUME boot \in Window PROVE UNCHANGED switch
    <3>1. current = First /\ st[First] = "ready" /\ \A t \in Thread \ Boot : st[t] = "init"
      BY <2>2 DEF SwitchAll, SwitchInv, StartInv, Window
    <3>2. HighestReady = current
      BY <3>1, FirstIsHighest DEF SwitchAll
    <3> QED
      BY <2>1, <3>2 DEF Schedule
  <2> QED
    BY <2>1, <2>2, ScheduleKeeps DEF SwitchAll
<1>6. CASE IdleNext
  BY <1>1, <1>6 DEF IdleNext, IdlePop, IdleFree, IdleLoop
<1>7. ASSUME NEW t \in Thread, ThreadCreate(t) PROVE RequestInv' /\ ContextIntegrity'
  BY <1>1, <1>7 DEF ThreadCreate
<1>8. ASSUME NEW c \in Thread, ThreadNext(c) PROVE RequestInv' /\ ContextIntegrity'
  BY <1>1, <1>4, <1>8 DEF ThreadNext, ThreadDelay, ThreadYield, ThreadSuspend, ThreadResume,
     ThreadDelete
<1>9. CASE IsrNext
  BY <1>1, <1>5, <1>9 DEF IsrNext, TickEnter, TimerCallback, IrqEnter, IrqDelete, IrqSuspend,
     IsrReturn, TimerPop, IrqWake, IrqDeleteCheck, IrqSuspendCheck
<1>10. CASE UNCHANGED vars
  BY <1>1, <1>10 DEF vars
<1> QED
  BY <1>2, <1>3, <1>6, <1>7, <1>8, <1>9, <1>10 DEF Next

LEMMA SwitchInvariant == UniqueFirst => (Spec => [](TableInv /\ SwitchInv))
<1> SUFFICES ASSUME UniqueFirst PROVE Spec => [](TableInv /\ SwitchInv)
  OBVIOUS
<1>1. Init => TableInv /\ SwitchInv
  BY TypeInit, TableInit, SwitchInit DEF TableInv
<1>2. TableInv /\ SwitchInv /\ [Next]_vars => (TableInv /\ SwitchInv)'
  BY TypeNext, TableNext, StartNext, RequestNext DEF TableInv, SwitchInv, SwitchAll
<1> QED
  BY <1>1, <1>2, PTL DEF Spec

\* No interleaving of calls and nested handlers makes PendSV save a thread's registers
\* in another thread's TCB, or resume a thread with the context of another.
THEOREM SwitchSafe == UniqueFirst => (Spec => []ContextIntegrity)
<1>1. TableInv /\ SwitchInv => ContextIntegrity
  BY DEF SwitchInv
<1> QED
  BY <1>1, SwitchInvariant, PTL

\* What the doc of request_switch says of FROM does hold when one thread is more
\* urgent than all others that main creates.
THEOREM FromSafe == UniqueFirst => (Spec => []FromIsRunning)
<1>1. TableInv /\ SwitchInv => FromIsRunning
  <2> SUFFICES ASSUME TableInv, SwitchInv, switchFlag
               PROVE  fromSp = IF running = Main THEN NoThread ELSE running
    BY DEF FromIsRunning
  <2>1. CASE boot = "done"
    BY <2>1 DEF SwitchInv, RequestInv
  <2>2. CASE boot # "done"
    BY <2>2 DEF SwitchInv, StartInv
  <2> QED
    BY <2>1, <2>2
<1> QED
  BY <1>1, SwitchInvariant, PTL

-----------------------------------------------------------------------------
(* The stack of handlers.                                                  *)

\* A handler changes its own frame only: what other handlers owe is still owed.
LEMMA TopOwes ==
    ASSUME isrs \in Seq(Frame), isrs # <<>>, NEW f, isrs' = [isrs EXCEPT ![Len(isrs)] = f]
    PROVE  /\ f.owes => HandlerOwes'
           /\ HandlerOwes /\ ~Top.owes => HandlerOwes'
           /\ HandsFree /\ (f.arg # NoThread => ~f.owes) => HandsFree'
           /\ DOMAIN isrs' = DOMAIN isrs
           /\ \A i \in DOMAIN isrs : isrs'[i] = isrs[i] \/ (isrs[i] = Top /\ isrs'[i] = f)
<1>1. Len(isrs) \in DOMAIN isrs
  OBVIOUS
<1>2. DOMAIN isrs' = DOMAIN isrs
  OBVIOUS
<1>3. ASSUME NEW i \in DOMAIN isrs PROVE isrs'[i] = IF i = Len(isrs) THEN f ELSE isrs[i]
  OBVIOUS
<1>4. f.owes => HandlerOwes'
  BY <1>1, <1>2, <1>3 DEF HandlerOwes
<1>5. HandlerOwes /\ ~Top.owes => HandlerOwes'
  BY <1>2, <1>3 DEF HandlerOwes, Top
<1>6. HandsFree /\ (f.arg # NoThread => ~f.owes) => HandsFree'
  BY <1>2, <1>3 DEF HandsFree
<1>7. \A i \in DOMAIN isrs : isrs'[i] = isrs[i] \/ (isrs[i] = Top /\ isrs'[i] = f)
  BY <1>3 DEF Top
<1> QED
  BY <1>2, <1>4, <1>5, <1>6, <1>7

LEMMA SetTopOwes ==
    ASSUME isrs \in Seq(Frame), isrs # <<>>,
           NEW o \in BOOLEAN, NEW x \in Thread \cup {NoThread}, SetTop(o, x)
    PROVE  /\ o => HandlerOwes'
           /\ HandlerOwes /\ ~Top.owes => HandlerOwes'
           /\ HandsFree /\ (x # NoThread => ~o) => HandsFree'
           /\ DOMAIN isrs' = DOMAIN isrs /\ \A i \in DOMAIN isrs : isrs'[i].kind = isrs[i].kind
           /\ \A i \in DOMAIN isrs : isrs'[i].arg \in {isrs[i].arg, x}
           /\ \A i \in DOMAIN isrs : isrs'[i].arg # isrs[i].arg => isrs[i] = Top
<1> DEFINE f == [kind |-> Top.kind, owes |-> o, arg |-> x]
<1>1. f.kind = Top.kind /\ f.owes = o /\ f.arg = x
  OBVIOUS
<1>2. isrs' = [isrs EXCEPT ![Len(isrs)] = f]
  BY DEF SetTop
<1> HIDE DEF f
<1> QED
  BY <1>1, <1>2, TopOwes

\* A handler that enters owes nothing, and one that returns has owed nothing.
LEMMA PushPopOwes ==
    ASSUME isrs \in Seq(Frame)
    PROVE  /\ \A k : isrs' = Append(isrs, [kind |-> k, owes |-> FALSE, arg |-> NoThread])
                       => /\ HandlerOwes => HandlerOwes'
                          /\ HandsFree => HandsFree'
           /\ \A k, o : isrs' = <<[kind |-> k, owes |-> o, arg |-> NoThread]>> => HandsFree'
           /\ isrs # <<>> /\ isrs' = SubSeq(isrs, 1, Len(isrs) - 1)
                       => /\ HandlerOwes /\ ~Top.owes => HandlerOwes'
                          /\ HandsFree => HandsFree'
<1>1. ASSUME NEW k, isrs' = Append(isrs, [kind |-> k, owes |-> FALSE, arg |-> NoThread])
      PROVE  (HandlerOwes => HandlerOwes') /\ (HandsFree => HandsFree')
  <2> DEFINE f == [kind |-> k, owes |-> FALSE, arg |-> NoThread]
  <2>1. f.arg = NoThread /\ isrs' = Append(isrs, f)
    BY <1>1
  <2> HIDE DEF f
  <2>2. /\ DOMAIN isrs' = 1 .. Len(isrs) + 1
        /\ \A i \in 1 .. Len(isrs) : isrs'[i] = isrs[i]
        /\ isrs'[Len(isrs) + 1] = f
        /\ DOMAIN isrs = 1 .. Len(isrs) /\ Len(isrs) \in Nat
    BY <2>1
  <2>3. HandlerOwes => HandlerOwes'
    BY <2>2 DEF HandlerOwes
  <2>4. HandsFree => HandsFree'
    BY <2>1, <2>2 DEF HandsFree
  <2> QED
    BY <2>3, <2>4
<1>2. ASSUME NEW k, NEW o, isrs' = <<[kind |-> k, owes |-> o, arg |-> NoThread]>>
      PROVE  HandsFree'
  BY <1>2 DEF HandsFree
<1>3. ASSUME isrs # <<>>, isrs' = SubSeq(isrs, 1, Len(isrs) - 1)
      PROVE  (HandlerOwes /\ ~Top.owes => HandlerOwes') /\ (HandsFree => HandsFree')
  <2>1. /\ \A i \in DOMAIN isrs' : i \in DOMAIN isrs /\ isrs'[i] = isrs[i]
        /\ \A i \in DOMAIN isrs : i = Len(isrs) \/ i \in DOMAIN isrs'
    BY <1>3
  <2>2. HandlerOwes /\ ~Top.owes => HandlerOwes'
    BY <2>1 DEF HandlerOwes, Top
  <2>3. HandsFree => HandsFree'
    BY <2>1 DEF HandsFree
  <2> QED
    BY <2>2, <2>3
<1> QED
  BY <1>1, <1>2, <1>3

-----------------------------------------------------------------------------
DispatchAll == TableInv /\ SwitchInv /\ PreemptInv /\ HandInv /\ FreedInv

LEMMA DispatchTypes ==
    ASSUME TableInv
    PROVE  /\ st \in [Thread -> {"init", "ready", "suspend", "close", "freed"}]
           /\ sleeping \subseteq Thread /\ owed \subseteq Thread /\ isrs \in Seq(Frame)
           /\ reaping \in Thread \cup {NoThread}
           /\ current \in Thread \cup {NoThread} /\ (boot # "init" => current \in Thread)
           /\ Idle \in Thread /\ NoThread \notin Thread /\ Main \notin Thread
BY SchedAssumption DEF TableInv, TypeInv, TcbOK, GraveOK, FramesOK, CpuOK, TargetOK

\* A thread executes after start() only.
LEMMA ThreadAfterStart ==
    ASSUME TableInv, SwitchInv, running \in Thread
    PROVE  boot = "done" /\ (~pendsv => running = current /\ ~switchFlag)
<1>1. boot = "done"
  BY DispatchTypes DEF SwitchInv, StartInv
<1> QED
  BY <1>1 DEF SwitchInv, RequestInv

\* The frame of the innermost handler.
LEMMA TopFrame ==
    ASSUME TableInv, isrs # <<>>
    PROVE  /\ Top \in Frame /\ Len(isrs) \in DOMAIN isrs
           /\ Top.arg \in Thread \cup {NoThread} /\ Top.owes \in BOOLEAN
BY DispatchTypes, FrameStack DEF Frame

\* What a handler is about to suspend is a thread that handlers may suspend.
LEMMA TopPauses ==
    ASSUME TableInv, isrs # <<>>, Top.kind = "suspend"
    PROVE  Top.arg \in Thread /\ Top.arg \in Pausable /\ Top.arg # Idle /\ ~Top.owes
BY FramesKept, SchedAssumption DEF TableInv, TypeInv, Pauses

\* Sleepers stay suspended when a thread is deleted.
LEMMA DeleteSleepers ==
    ASSUME TableInv, Sleepers, NEW t \in Thread, DeleteBookkeeping(t)
    PROVE  Sleepers'
BY DispatchTypes DEF Sleepers, DeleteBookkeeping

LEMMA HandNext ==
    ASSUME DispatchAll, [Next]_vars
    PROVE  HandInv'
<1>0. TableInv /\ HandsFree /\ Sleepers
  BY DEF DispatchAll, HandInv
<1> USE DispatchTypes
<1>1. ASSUME UNCHANGED isrs, Sleepers' PROVE HandInv'
  BY <1>0, <1>1 DEF HandInv, HandsFree
<1>2. ASSUME UNCHANGED <<st, sleeping>>, HandsFree' PROVE HandInv'
  BY <1>0, <1>2 DEF HandInv, Sleepers
<1>3. ASSUME UNCHANGED <<st, sleeping, isrs>> PROVE HandInv'
  BY <1>0, <1>3 DEF HandInv, HandsFree, Sleepers
<1>4. ASSUME NEW t \in Thread, ThreadCreate(t) PROVE HandInv'
  BY <1>0, <1>1, <1>4 DEF ThreadCreate, Sleepers
<1>5. ASSUME NEW c \in Thread, ThreadNext(c) PROVE HandInv'
  <2>1. CASE ThreadDelay(c)
    BY <1>0, <1>1, <2>1 DEF ThreadDelay, Sleepers
  <2>2. CASE ThreadYield(c) \/ ThreadSchedule(c)
    BY <1>3, <2>2 DEF ThreadYield, ThreadSchedule, tcb
  <2>3. ASSUME NEW t \in Thread, ThreadSuspend(c, t) PROVE HandInv'
    BY <1>0, <1>1, <2>3 DEF ThreadSuspend, Sleepers
  <2>4. ASSUME NEW t \in Thread, ThreadResume(c, t) PROVE HandInv'
    BY <1>0, <1>1, <2>4 DEF ThreadResume, Wakeup, Sleepers
  <2>5. ASSUME NEW t \in Thread, ThreadDelete(c, t) PROVE HandInv'
    BY <1>0, <1>1, <2>5, DeleteSleepers DEF ThreadDelete
  <2> QED
    BY <1>5, <2>1, <2>2, <2>3, <2>4, <2>5 DEF ThreadNext
<1>6. CASE IdleNext
  <2>1. CASE IdlePop \/ IdleLoop
    BY <1>3, <2>1 DEF IdlePop, IdleLoop, tcb
  <2>2. CASE IdleFree
    <3>1. st' = [st EXCEPT ![reaping] = "freed"] /\ reaping # NoThread /\ UNCHANGED <<sleeping, isrs>>
      BY <2>2 DEF IdleFree
    <3>2. st[reaping] = "close"
      BY <1>0, <3>1 DEF TableInv, DeadInv
    <3> QED
      BY <1>0, <1>1, <3>1, <3>2 DEF Sleepers
  <2> QED
    BY <1>6, <2>1, <2>2 DEF IdleNext
<1>7. CASE BootNext \/ PendSV \/ UNCHANGED vars
  BY <1>3, <1>7 DEF BootNext, StartSetCurrent, FirstStoreTo, FirstStoreFrom, FirstStoreFlag,
     FirstPend, KeepKernel, PendSV, vars, tcb
<1>8. CASE IsrNext
  <2>1. CASE TickEnter
    <3>1. \E o : isrs' = <<[kind |-> "tick", owes |-> o, arg |-> NoThread]>>
      BY <2>1 DEF TickEnter
    <3>2. HandsFree'
      BY <1>0, <3>1, PushPopOwes
    <3> QED
      BY <1>2, <2>1, <3>2 DEF TickEnter
  <2>2. CASE IrqEnter \/ IsrReturn
    <3>1. HandsFree'
      BY <1>0, <2>2, PushPopOwes DEF IrqEnter, IsrReturn
    <3> QED
      BY <1>2, <2>2, <3>1 DEF IrqEnter, IsrReturn, tcb
  <2>3. CASE TimerCallback
    <3>1. isrs # <<>> /\ Top.arg \in Thread
      BY <1>0, <2>3, TopFrame DEF TimerCallback
    <3>2. PICK o \in BOOLEAN : SetTop(o, NoThread)
      BY <2>3, ReschedType DEF TimerCallback
    <3>3. HandsFree'
      BY <1>0, <3>1, <3>2, SetTopOwes
    <3>4. Sleepers'
      BY <1>0, <2>3, <3>1 DEF TimerCallback, Sleepers
    <3> QED
      BY <3>3, <3>4 DEF HandInv
  <2>4. CASE IrqDelete
    <3>1. isrs # <<>> /\ Top.arg \in Thread /\ SetTop(TRUE, NoThread) /\ DeleteBookkeeping(Top.arg)
      BY <1>0, <2>4, TopFrame DEF IrqDelete
    <3>2. HandsFree'
      BY <1>0, <3>1, SetTopOwes
    <3>3. Sleepers'
      BY <1>0, <3>1, DeleteSleepers
    <3> QED
      BY <3>2, <3>3 DEF HandInv
  <2>5. CASE IsrSchedule
    <3>1. isrs # <<>> /\ SetTop(FALSE, NoThread) /\ UNCHANGED <<st, sleeping>>
      BY <2>5 DEF IsrSchedule, tcb
    <3> QED
      BY <1>0, <1>2, <3>1, SetTopOwes
  <2>6. ASSUME NEW t \in Thread, TimerPop(t) \/ IrqDeleteCheck(t) PROVE HandInv'
    <3>1. isrs # <<>> /\ SetTop(FALSE, t) /\ UNCHANGED <<st, sleeping>>
      BY <2>6 DEF TimerPop, IrqDeleteCheck, IrqIdle, tcb
    <3>2. HandsFree'
      BY <1>0, <3>1, SetTopOwes
    <3> QED
      BY <1>2, <3>1, <3>2
  <2>7. ASSUME NEW t \in Thread, IrqWake(t) PROVE HandInv'
    <3>1. isrs # <<>> /\ SetTop(ReschedNeeded(t), NoThread) /\ UNCHANGED sleeping
          /\ t \notin sleeping /\ st' = [st EXCEPT ![t] = "ready"]
      BY <2>7 DEF IrqWake, IrqIdle, Wakeup
    <3>2. HandsFree'
      BY <1>0, <3>1, SetTopOwes, ReschedType
    <3>3. Sleepers'
      BY <1>0, <3>1 DEF Sleepers
    <3> QED
      BY <3>2, <3>3 DEF HandInv
  <2>8. ASSUME NEW t \in Thread, IrqSuspendCheck(t) PROVE HandInv'
    <3> DEFINE f == [kind |-> "suspend", owes |-> FALSE, arg |-> t]
    <3>1. isrs # <<>> /\ isrs' = [isrs EXCEPT ![Len(isrs)] = f] /\ UNCHANGED <<st, sleeping>>
      BY <2>8 DEF IrqSuspendCheck, IrqIdle, tcb
    <3>2. f.arg # NoThread => ~f.owes
      OBVIOUS
    <3> HIDE DEF f
    <3>3. HandsFree'
      BY <1>0, <3>1, <3>2, TopOwes
    <3> QED
      BY <1>2, <3>1, <3>3
  <2>9. CASE IrqSuspend
    <3>1. /\ isrs # <<>> /\ Top.arg \in Thread /\ UNCHANGED sleeping
          /\ \A t \in Thread : st[t] = "suspend" => st'[t] = "suspend"
      BY <1>0, <2>9, TopPauses DEF IrqSuspend
    <3>2. PICK o : isrs' = [isrs EXCEPT ![Len(isrs)] = [kind |-> "irq", owes |-> o, arg |-> NoThread]]
      BY <2>9 DEF IrqSuspend
    <3>3. [kind |-> "irq", owes |-> o, arg |-> NoThread].arg = NoThread
      OBVIOUS
    <3>4. HandsFree'
      BY <1>0, <3>1, <3>2, <3>3, TopOwes
    <3>5. Sleepers'
      BY <1>0, <3>1 DEF Sleepers
    <3> QED
      BY <3>4, <3>5 DEF HandInv
  <2> QED
    BY <1>8, <2>1, <2>2, <2>3, <2>4, <2>5, <2>6, <2>7, <2>8, <2>9 DEF IsrNext
<1> QED
  BY <1>4, <1>5, <1>6, <1>7, <1>8 DEF Next

-----------------------------------------------------------------------------
(* Preemption.                                                             *)

\* CURRENT stays the most urgent thread when nothing more urgent becomes ready.
LEMMA UrgentKeeps ==
    ASSUME Urgent, UNCHANGED current, Runs(current)',
           \A t \in Thread : st'[t] = "ready" => st[t] = "ready" \/ Prio[current] <= Prio[t]
    PROVE  Urgent'
BY DEF Urgent

\* A thread that became ready and needs no schedule() does not outrank CURRENT.
LEMMA WokenUrgent ==
    ASSUME TableInv, Urgent, UNCHANGED current, NEW w \in Thread, ~ReschedNeeded(w),
           st[w] # "ready", st' = [st EXCEPT ![w] = "ready"], sleeping' \subseteq sleeping
    PROVE  Urgent'
<1>1. current \in Thread /\ current # NoThread /\ Runs(current)'
  BY DispatchTypes DEF Urgent, Runs
<1>2. Prio[w] \in Int /\ Prio[current] \in Int /\ ~ (Prio[w] < Prio[current])
  BY <1>1, PrioNat DEF ReschedNeeded
<1>3. Prio[current] <= Prio[w]
  BY <1>2
<1> QED
  BY <1>1, <1>3, DispatchTypes, UrgentKeeps

\* After schedule() CURRENT is the most urgent ready thread.
LEMMA ScheduleUrgent ==
    ASSUME TableInv, Schedule, current \in Thread, st[Idle] = "ready", UNCHANGED st
    PROVE  Urgent'
<1>1. HighestReady \in Thread /\ st[HighestReady] = "ready"
      /\ \A t \in Thread : st[t] = "ready" => Prio[HighestReady] <= Prio[t]
  BY HighestIsUrgent, DispatchTypes
<1>2. current' = HighestReady
  BY <1>1, DispatchTypes DEF Schedule, switch
<1> QED
  BY <1>1, <1>2 DEF Urgent, Runs

\* Deleting makes nobody ready.
LEMMA DeleteReady ==
    ASSUME TableInv, NEW t \in Thread, DeleteBookkeeping(t)
    PROVE  /\ \A u \in Thread \ {t} : st'[u] = st[u]
           /\ \A u \in Thread : st'[u] = "ready" => st[u] = "ready"
BY DispatchTypes DEF DeleteBookkeeping

LEMMA PreemptNext ==
    ASSUME DispatchAll, UniqueFirst, [Next]_vars
    PROVE  PreemptInv'
<1> USE DispatchTypes
<1>0. TableInv /\ SwitchInv /\ PreemptInv /\ HandsFree /\ Sleepers
  BY DEF DispatchAll, HandInv
<1>1. boot # "init" => st[Idle] = "ready" /\ current \in Thread
  BY <1>0 DEF PreemptInv
<1>2. NoFrame({Idle}) /\ NoThread \notin {Idle}
  BY <1>0 DEF PreemptInv
<1>3. boot # "init" => \/ Urgent
                       \/ HandlerOwes
                       \/ ~pendsv /\ (running \in owed \/ Boot # Thread)
  BY <1>0 DEF PreemptInv
<1>4. ASSUME isrs = <<>> PROVE ~HandlerOwes
  BY <1>4 DEF HandlerOwes
<1>5. ASSUME UNCHANGED <<st, sleeping, current, pendsv, running, owed, isrs, boot>>
      PROVE  PreemptInv'
  <2>1. /\ Urgent' <=> Urgent
        /\ HandlerOwes' <=> HandlerOwes
        /\ NoFrame({Idle})' <=> NoFrame({Idle})
    BY <1>5 DEF Urgent, Runs, HandlerOwes, NoFrame
  <2> QED
    BY <1>0, <1>5, <2>1 DEF PreemptInv
\* calls of threads
<1>6. ASSUME NEW c \in Thread, Calls(c)
      PROVE  /\ boot = "done" /\ running = c /\ current = c /\ ~pendsv /\ isrs = <<>>
             /\ running \notin owed /\ st[c] \in {"ready", "suspend"} /\ (Boot = Thread => Urgent)
  <2>1. running = c /\ ~pendsv /\ isrs = <<>> /\ c \notin owed /\ st[c] \in {"ready", "suspend"}
    BY <1>6 DEF Calls, ThreadMode
  <2>2. boot = "done" /\ running = current
    BY <1>0, <2>1, ThreadAfterStart
  <2> QED
    BY <1>3, <1>4, <2>1, <2>2
<1>7. ASSUME NEW c \in Thread, Calls(c), UNCHANGED <<pendsv, running, isrs, boot>>,
             st'[Idle] = st[Idle], running \in owed' \/ Boot # Thread \/ Urgent'
      PROVE  PreemptInv'
  <2>1. NoFrame({Idle})'
    BY <1>2, <1>7 DEF NoFrame
  <2> QED
    BY <1>1, <1>6, <1>7, <2>1 DEF PreemptInv
<1>8. ASSUME NEW t \in Thread, ThreadCreate(t) PROVE PreemptInv'
  <2>1. CASE running = Main
    <3>1. boot = "init" /\ boot' = "init" /\ isrs' = isrs
      BY <1>0, <1>8, <2>1 DEF ThreadCreate, Calls
    <3> QED
      BY <1>2, <3>1 DEF PreemptInv, NoFrame
  <2>2. CASE running # Main
    <3>1. Calls(running) /\ running \in Thread /\ t \notin Boot /\ st[t] = "init"
          /\ st' = [st EXCEPT ![t] = "ready"] /\ UNCHANGED <<pendsv, running, isrs, boot>>
      BY <1>8, <2>2 DEF ThreadCreate, Calls, switch, cpu
    <3>2. st'[Idle] = st[Idle]
      BY <1>0, <3>1, SchedAssumption
    <3> QED
      BY <1>7, <3>1, <3>2
  <2> QED
    BY <2>1, <2>2
<1>9. ASSUME NEW c \in Thread, ThreadNext(c) PROVE PreemptInv'
  <2>1. CASE ThreadDelay(c)
    <3>1. Calls(c) /\ c # Idle /\ st' = [st EXCEPT ![c] = "suspend"] /\ owed' = owed \cup {c}
          /\ UNCHANGED <<pendsv, running, isrs, boot>>
      BY <2>1 DEF ThreadDelay, Owe, switch, cpu
    <3> QED
      BY <1>0, <1>6, <1>7, <3>1
  <2>2. CASE ThreadYield(c)
    <3>1. Calls(c) /\ owed' = owed \cup {c} /\ UNCHANGED <<st, pendsv, running, isrs, boot>>
      BY <2>2 DEF ThreadYield, Owe, switch, cpu, tcb
    <3> QED
      BY <1>6, <1>7, <3>1
  <2>3. CASE ThreadSchedule(c)
    <3>1. running = c /\ Schedule /\ UNCHANGED <<st, isrs, boot>>
      BY <2>3 DEF ThreadSchedule, tcb
    <3>2. boot = "done"
      BY <1>0, <3>1, ThreadAfterStart
    <3>3. Urgent'
      BY <1>0, <1>1, <3>1, <3>2, ScheduleUrgent
    <3> QED
      BY <1>1, <1>2, <3>1, <3>2, <3>3 DEF PreemptInv, NoFrame
  <2>4. ASSUME NEW t \in Thread, ThreadSuspend(c, t) PROVE PreemptInv'
    <3>1. Calls(c) /\ t # c /\ t # Idle /\ st' = [st EXCEPT ![t] = "suspend"]
          /\ UNCHANGED <<sleeping, current, pendsv, running, isrs, boot>>
      BY <2>4 DEF ThreadSuspend, switch, cpu
    <3>2. Runs(c) => Runs(c)'
      BY <1>0, <3>1 DEF Runs
    <3>3. Boot = Thread => Urgent'
      BY <1>0, <1>6, <3>1, <3>2, UrgentKeeps DEF Urgent
    <3> QED
      BY <1>0, <1>7, <3>1, <3>3
  <2>5. ASSUME NEW t \in Thread, ThreadResume(c, t) PROVE PreemptInv'
    <3>1. Calls(c) /\ st[t] = "suspend" /\ st' = [st EXCEPT ![t] = "ready"]
          /\ owed' = (IF ReschedNeeded(t) THEN owed \cup {c} ELSE owed)
          /\ UNCHANGED <<sleeping, current, pendsv, running, isrs, boot>>
      BY <2>5 DEF ThreadResume, Wakeup, Owe, switch, cpu
    <3>2. Boot = Thread /\ ~ReschedNeeded(t) => Urgent'
      BY <1>0, <1>6, <3>1, WokenUrgent
    <3>3. st'[Idle] = st[Idle]
      BY <1>0, <1>1, <1>6, <3>1
    <3> QED
      BY <1>6, <1>7, <3>1, <3>2, <3>3
  <2>6. ASSUME NEW t \in Thread, ThreadDelete(c, t) PROVE PreemptInv'
    <3>1. Calls(c) /\ t # Idle /\ DeleteBookkeeping(t) /\ owed' = owed \cup {c}
          /\ UNCHANGED <<pendsv, running, isrs, boot>>
      BY <2>6 DEF ThreadDelete, Owe, switch, cpu
    <3>2. st'[Idle] = st[Idle]
      BY <1>0, <3>1, DeleteReady
    <3> QED
      BY <1>6, <1>7, <3>1, <3>2
  <2> QED
    BY <1>9, <2>1, <2>2, <2>3, <2>4, <2>5, <2>6 DEF ThreadNext
<1>10. CASE IdleNext
  <2>1. Calls(Idle) /\ UNCHANGED <<sleeping, current, pendsv, running, isrs, boot>>
    BY <1>10 DEF IdleNext, IdlePop, IdleFree, IdleLoop, switch, cpu
  <2>2. CASE IdlePop
    BY <1>5, <2>2 DEF IdlePop, switch, cpu, tcb
  <2>3. CASE IdleLoop
    <3>1. owed' = owed \cup {Idle} /\ UNCHANGED st
      BY <2>3 DEF IdleLoop, Owe, tcb
    <3> QED
      BY <1>0, <1>6, <1>7, <2>1, <3>1
  <2>4. CASE IdleFree
    <3>1. st' = [st EXCEPT ![reaping] = "freed"] /\ reaping # NoThread
      BY <2>4 DEF IdleFree
    <3>2. st[reaping] = "close" /\ st[Idle] = "ready" /\ current = Idle
      BY <1>0, <1>1, <1>6, <2>1, <3>1 DEF TableInv, DeadInv
    <3>3. Runs(Idle)' /\ st'[Idle] = st[Idle] /\ \A t \in Thread : st'[t] = "ready" => st[t] = "ready"
      BY <1>0, <3>1, <3>2 DEF Runs
    <3>4. Boot = Thread => Urgent'
      BY <1>0, <1>6, <2>1, <3>2, <3>3, UrgentKeeps
    <3> QED
      BY <1>0, <1>7, <2>1, <3>3, <3>4
  <2> QED
    BY <1>10, <2>2, <2>3, <2>4 DEF IdleNext
\* start() and PendSV
<1>11. CASE BootNext
  <2>1. UNCHANGED <<st, running, isrs, owed>> /\ running = Main
    BY <1>11 DEF BootNext, StartSetCurrent, FirstStoreTo, FirstStoreFrom, FirstStoreFlag,
       FirstPend, KeepKernel, MainStep, tcb, cpu
  <2>2. NoFrame({Idle})'
    BY <1>2, <2>1 DEF NoFrame
  <2>3. CASE StartSetCurrent
    <3>1. boot = "init" /\ current' = HighestReady /\ HighestReady # NoThread
          /\ \A t \in Boot : st[t] # "init"
      BY <2>3 DEF StartSetCurrent, MainStep
    <3>2. st[Idle] = "ready"
      BY <1>0, <3>1, SchedAssumption DEF SwitchInv, StartInv
    <3>3. Urgent'
      BY <1>0, <2>1, <3>1, HighestIsUrgent DEF Urgent, Runs
    <3> QED
      BY <2>1, <2>2, <3>2, <3>3 DEF PreemptInv
  <2>4. CASE ~StartSetCurrent
    <3>1. boot \in Window /\ UNCHANGED current
      BY <1>11, <2>4 DEF BootNext, FirstStoreTo, FirstStoreFrom, FirstStoreFlag, FirstPend,
         MainStep, Window
    <3>2. current = First /\ st[First] = "ready" /\ \A t \in Thread \ Boot : st[t] = "init"
      BY <1>0, <3>1 DEF SwitchInv, StartInv, Window
    <3>3. HighestReady = current /\ HighestReady # NoThread
      BY <1>0, <1>1, <3>1, <3>2, FirstIsHighest DEF Window
    <3>4. Urgent'
      BY <1>0, <2>1, <3>1, <3>3, HighestIsUrgent DEF Urgent, Runs
    <3> QED
      BY <1>1, <2>1, <2>2, <3>1, <3>4 DEF PreemptInv, Window
  <2> QED
    BY <2>3, <2>4
<1>12. CASE PendSV
  <2>1. pendsv /\ isrs = <<>> /\ UNCHANGED <<st, sleeping, current, isrs, boot>>
    BY <1>12 DEF PendSV, tcb
  <2>2. boot = "done"
    BY <1>0, <2>1 DEF SwitchInv, StartInv
  <2>3. Urgent
    BY <1>3, <1>4, <2>1, <2>2
  <2>4. Urgent' /\ NoFrame({Idle})'
    BY <1>2, <2>1, <2>3 DEF Urgent, Runs, NoFrame
  <2> QED
    BY <1>1, <2>1, <2>2, <2>4 DEF PreemptInv
<1>13. CASE UNCHANGED vars
  BY <1>5, <1>13 DEF vars, tcb, switch, cpu
\* handlers
<1>14. CASE IsrNext
  <2>0. UNCHANGED <<running, owed, boot>>
    BY <1>14 DEF IsrNext, TickEnter, TimerCallback, IrqEnter, IrqDelete, IrqSuspend, IsrSchedule,
       IsrReturn, TimerPop, IrqWake, IrqDeleteCheck, IrqSuspendCheck, cpu
  <2>1. ASSUME st'[Idle] = st[Idle], NoFrame({Idle})',
               boot # "init" => \/ Urgent' \/ HandlerOwes'
                                \/ UNCHANGED pendsv /\ ~Urgent /\ ~HandlerOwes
        PROVE  PreemptInv'
    BY <1>1, <1>3, <2>0, <2>1 DEF PreemptInv
  <2>2. ASSUME UNCHANGED <<st, current, pendsv>>, sleeping' \subseteq sleeping,
               NoFrame({Idle})', HandlerOwes => HandlerOwes'
        PROVE  PreemptInv'
    <3>1. Urgent => Urgent'
      BY <2>2 DEF Urgent, Runs
    <3> QED
      BY <2>1, <2>2, <3>1
  <2>3. CASE TickEnter
    <3>1. isrs = <<>> /\ UNCHANGED <<st, sleeping, current, pendsv>>
          /\ \E o : isrs' = <<[kind |-> "tick", owes |-> o, arg |-> NoThread]>>
      BY <2>3 DEF TickEnter, switch
    <3>2. NoFrame({Idle})'
      BY <1>0, <1>2, <3>1, PushPopArgs
    <3> QED
      BY <1>4, <2>2, <3>1, <3>2
  <2>4. CASE IrqEnter
    <3>1. UNCHANGED <<st, sleeping, current, pendsv>>
          /\ isrs' = Append(isrs, [kind |-> "irq", owes |-> FALSE, arg |-> NoThread])
      BY <2>4 DEF IrqEnter, switch, tcb
    <3>2. NoFrame({Idle})' /\ (HandlerOwes => HandlerOwes')
      BY <1>0, <1>2, <3>1, PushPopArgs, PushPopOwes
    <3> QED
      BY <2>2, <3>1, <3>2
  <2>5. CASE IsrReturn
    <3>1. UNCHANGED <<st, sleeping, current, pendsv>> /\ isrs # <<>> /\ ~Top.owes
          /\ isrs' = SubSeq(isrs, 1, Len(isrs) - 1)
      BY <2>5 DEF IsrReturn, switch, tcb
    <3>2. NoFrame({Idle})' /\ (HandlerOwes => HandlerOwes')
      BY <1>0, <1>2, <3>1, PushPopArgs, PushPopOwes
    <3> QED
      BY <2>2, <3>1, <3>2
  <2>6. CASE IsrSchedule
    <3>1. isrs # <<>> /\ SetTop(FALSE, NoThread) /\ Schedule /\ UNCHANGED st
      BY <2>6 DEF IsrSchedule, tcb
    <3>2. NoFrame({Idle})'
      BY <1>0, <1>2, <3>1, SetTopArgs
    <3>3. boot # "init" => Urgent'
      BY <1>0, <1>1, <3>1, ScheduleUrgent
    <3> QED
      BY <2>1, <3>1, <3>2, <3>3
  <2>7. ASSUME NEW t \in Thread, TimerPop(t) \/ IrqDeleteCheck(t) PROVE PreemptInv'
    <3>1. isrs # <<>> /\ ~Top.owes /\ SetTop(FALSE, t) /\ UNCHANGED <<st, sleeping, current, pendsv>>
      BY <2>7 DEF TimerPop, IrqDeleteCheck, IrqIdle, switch, tcb
    <3>2. t # Idle
      <4>1. CASE TimerPop(t)
        <5>1. t \in sleeping /\ st[t] = "suspend"
          BY <1>0, <4>1 DEF TimerPop, Sleepers
        <5>2. boot # "init"
          BY <1>0, <5>1 DEF SwitchInv, StartInv
        <5> QED
          BY <1>1, <5>1, <5>2
      <4>2. CASE IrqDeleteCheck(t)
        BY <4>2 DEF IrqDeleteCheck
      <4> QED
        BY <2>7, <4>1, <4>2
    <3>3. NoFrame({Idle})'
      BY <1>0, <1>2, <3>1, <3>2, SetTopArgs
    <3>4. HandlerOwes => HandlerOwes'
      BY <1>0, <3>1, SetTopOwes
    <3> QED
      BY <2>2, <3>1, <3>3, <3>4
  <2>8. ASSUME NEW t \in Thread, isrs # <<>>, ~Top.owes, SetTop(ReschedNeeded(t), NoThread),
               st[t] = "suspend", st' = [st EXCEPT ![t] = "ready"], sleeping' \subseteq sleeping,
               UNCHANGED <<current, pendsv>>
        PROVE  PreemptInv'
    <3>1. NoFrame({Idle})'
      BY <1>0, <1>2, <2>8, ReschedType, SetTopArgs
    <3>2. /\ ReschedNeeded(t) => HandlerOwes'
          /\ HandlerOwes => HandlerOwes'
      BY <1>0, <2>8, ReschedType, SetTopOwes
    <3>3. Urgent /\ ~ReschedNeeded(t) => Urgent'
      BY <1>0, <2>8, WokenUrgent
    <3>4. boot # "init" => st'[Idle] = st[Idle]
      BY <1>0, <1>1, <2>8
    <3> QED
      BY <1>1, <1>3, <2>0, <2>8, <3>1, <3>2, <3>3, <3>4 DEF PreemptInv
  <2>9. CASE TimerCallback
    <3>1. isrs # <<>> /\ Top.arg \in Thread /\ ~Top.owes
      BY <1>0, <2>9, TopFrame DEF TimerCallback, HandsFree, Top
    <3>2. CASE st[Top.arg] # "suspend"
      <4>1. SetTop(FALSE, NoThread) /\ UNCHANGED <<st, sleeping, current, pendsv>>
        BY <2>9, <3>2 DEF TimerCallback, switch
      <4>2. NoFrame({Idle})' /\ (HandlerOwes => HandlerOwes')
        BY <1>0, <1>2, <3>1, <4>1, SetTopArgs, SetTopOwes
      <4> QED
        BY <2>2, <4>1, <4>2
    <3>3. CASE st[Top.arg] = "suspend"
      BY <2>8, <2>9, <3>1, <3>3 DEF TimerCallback, switch
    <3> QED
      BY <3>2, <3>3
  <2>10. ASSUME NEW t \in Thread, IrqWake(t) PROVE PreemptInv'
    BY <2>8, <2>10 DEF IrqWake, IrqIdle, Wakeup, switch
  <2>11. CASE IrqDelete
    <3>1. isrs # <<>> /\ Top.arg \in Thread /\ SetTop(TRUE, NoThread) /\ DeleteBookkeeping(Top.arg)
      BY <1>0, <2>11, TopFrame DEF IrqDelete
    <3>2. Top.arg # Idle
      BY <1>0, <1>2, <3>1, TopFrame DEF NoFrame, Top
    <3>3. st'[Idle] = st[Idle]
      BY <1>0, <3>1, <3>2, DeleteReady
    <3>4. NoFrame({Idle})' /\ HandlerOwes'
      BY <1>0, <1>2, <3>1, SetTopArgs, SetTopOwes
    <3> QED
      BY <2>1, <3>3, <3>4
  \* the suspended thread may be CURRENT, and handlers may suspend it
  <2>12. ASSUME NEW t \in Thread, IrqSuspendCheck(t) PROVE PreemptInv'
    <3> DEFINE f == [kind |-> "suspend", owes |-> FALSE, arg |-> t]
    <3>1. /\ isrs # <<>> /\ ~Top.owes /\ isrs' = [isrs EXCEPT ![Len(isrs)] = f]
          /\ UNCHANGED <<st, sleeping, current, pendsv>> /\ t # Idle
      BY <2>12, SchedAssumption DEF IrqSuspendCheck, IrqIdle, switch, tcb
    <3>2. f.arg \notin {Idle}
      BY <3>1
    <3> HIDE DEF f
    <3>3. NoFrame({Idle})' /\ (HandlerOwes => HandlerOwes')
      BY <1>0, <1>2, <3>1, <3>2, TopArgs, TopOwes
    <3> QED
      BY <2>2, <3>1, <3>3
  <2>13. CASE IrqSuspend
    <3>1. /\ isrs # <<>> /\ Top.arg \in Pausable /\ Top.arg # Idle /\ ~Top.owes
          /\ Top.arg \in Thread /\ UNCHANGED <<sleeping, current, pendsv>>
      BY <1>0, <2>13, TopPauses DEF IrqSuspend, switch
    <3>2. PICK o : isrs' = [isrs EXCEPT ![Len(isrs)] = [kind |-> "irq", owes |-> o, arg |-> NoThread]]
      BY <2>13 DEF IrqSuspend
    <3>3. [kind |-> "irq", owes |-> o, arg |-> NoThread].arg \notin {Idle}
      BY <1>2
    <3>4. NoFrame({Idle})' /\ (HandlerOwes => HandlerOwes')
      BY <1>0, <1>2, <3>1, <3>2, <3>3, TopArgs, TopOwes
    <3>5. st' = IF st[Top.arg] = "ready" THEN [st EXCEPT ![Top.arg] = "suspend"] ELSE st
      BY <2>13 DEF IrqSuspend
    <3>6. st[Top.arg] = "ready" => Top.arg \notin sleeping
      BY <1>0 DEF Sleepers
    <3>7. Runs(current) /\ current \in Thread => Runs(current)'
      BY <1>0, <3>1, <3>5, <3>6 DEF Runs
    <3>8. Urgent => Urgent'
      BY <1>0, <3>1, <3>5, <3>7, UrgentKeeps DEF Urgent
    <3>9. st'[Idle] = st[Idle]
      BY <1>0, <3>1, <3>5
    <3> QED
      BY <2>1, <3>1, <3>4, <3>8, <3>9
  <2> QED
    BY <1>14, <2>3, <2>4, <2>5, <2>6, <2>7, <2>9, <2>10, <2>11, <2>12, <2>13 DEF IsrNext
<1> QED
  BY <1>8, <1>9, <1>10, <1>11, <1>12, <1>13, <1>14 DEF Next

-----------------------------------------------------------------------------
(* Reclaiming.                                                             *)

\* Deleting frees no memory.
LEMMA DeleteFreesNone ==
    ASSUME TableInv, NEW t \in Thread, DeleteBookkeeping(t)
    PROVE  \A u \in Thread : st'[u] = "freed" => st[u] = "freed"
BY DispatchTypes DEF DeleteBookkeeping

\* The scheduler chooses ready threads only.
LEMMA ScheduleReady ==
    ASSUME TableInv, Schedule
    PROVE  current' = current \/ (current' \in Thread /\ st[current'] = "ready")
BY HighestIsUrgent DEF Schedule, switch

\* No tick handler has t in hand.
NoFrameOf(t) == \A i \in DOMAIN isrs : isrs[i].kind = "tick" => isrs[i].arg # t

LEMMA FreedNext ==
    ASSUME DispatchAll, UniqueFirst, [Next]_vars
    PROVE  FreedInv'
<1> USE DispatchTypes
<1>0. TableInv /\ SwitchInv /\ HandsFree /\ Sleepers /\ FreedInv
  BY DEF DispatchAll, HandInv
<1>1. isrs # <<>> => Top.arg \in Thread \cup {NoThread} /\ Len(isrs) \in DOMAIN isrs
  BY <1>0, TopFrame
\* nothing is freed, and what comes into use is not
<1>2. ASSUME \A t \in Thread : st'[t] = "freed" => st[t] = "freed" /\ (InUse(t)' => InUse(t))
      PROVE  FreedInv'
  BY <1>0, <1>2 DEF FreedInv
<1>3. ASSUME NEW t \in Thread, UNCHANGED <<running, current, isrs>> PROVE InUse(t)' <=> InUse(t)
  BY <1>3 DEF InUse
<1>4. CASE UNCHANGED <<running, current, isrs>> /\ \A t \in Thread : st'[t] = "freed" => st[t] = "freed"
  BY <1>2, <1>3, <1>4
<1>5. ASSUME NEW t \in Thread, ThreadCreate(t) PROVE FreedInv'
  BY <1>0, <1>4, <1>5 DEF ThreadCreate, switch, cpu
<1>6. ASSUME NEW c \in Thread, ThreadNext(c) PROVE FreedInv'
  <2>1. CASE ThreadDelay(c)
    BY <1>0, <1>4, <2>1 DEF ThreadDelay, switch, cpu
  <2>2. CASE ThreadYield(c)
    BY <1>4, <2>2 DEF ThreadYield, tcb, switch, cpu
  <2>3. CASE ThreadSchedule(c)
    <3>1. Schedule /\ UNCHANGED <<st, running, isrs>>
      BY <2>3 DEF ThreadSchedule, tcb, cpu
    <3>2. \A t \in Thread : st[t] = "freed" /\ InUse(t)' => InUse(t)
      BY <1>0, <3>1, ScheduleReady DEF InUse
    <3> QED
      BY <1>2, <3>1, <3>2
  <2>4. ASSUME NEW t \in Thread, ThreadSuspend(c, t) PROVE FreedInv'
    BY <1>0, <1>4, <2>4 DEF ThreadSuspend, switch, cpu
  <2>5. ASSUME NEW t \in Thread, ThreadResume(c, t) PROVE FreedInv'
    BY <1>0, <1>4, <2>5 DEF ThreadResume, Wakeup, switch, cpu
  <2>6. ASSUME NEW t \in Thread, ThreadDelete(c, t) PROVE FreedInv'
    BY <1>0, <1>4, <2>6, DeleteFreesNone DEF ThreadDelete, switch, cpu
  <2> QED
    BY <1>6, <2>1, <2>2, <2>3, <2>4, <2>5, <2>6 DEF ThreadNext
<1>7. CASE IdleNext
  <2>1. CASE IdlePop \/ IdleLoop
    BY <1>4, <2>1 DEF IdlePop, IdleLoop, tcb, switch, cpu
  <2>2. CASE IdleFree
    <3>1. /\ running = Idle /\ ~pendsv /\ isrs = <<>> /\ reaping # NoThread
          /\ st[Idle] \in {"ready", "suspend"}
          /\ st' = [st EXCEPT ![reaping] = "freed"] /\ UNCHANGED <<running, current, isrs>>
      BY <2>2 DEF IdleFree, Calls, ThreadMode, switch, cpu
    <3>2. running = current
      BY <1>0, <3>1, ThreadAfterStart
    <3>3. st[reaping] = "close" /\ reaping \in Thread
      BY <1>0, <3>1 DEF TableInv, DeadInv
    <3>4. ~InUse(reaping)
      BY <3>1, <3>2, <3>3 DEF InUse
    <3>5. \A t \in Thread : st'[t] = "freed" => st[t] = "freed" \/ t = reaping
      BY <1>0, <3>1
    <3>6. \A t \in Thread : st'[t] = "freed" => ~InUse(t)
      BY <1>0, <3>4, <3>5 DEF FreedInv
    <3> QED
      BY <1>3, <3>1, <3>6 DEF FreedInv
  <2> QED
    BY <1>7, <2>1, <2>2 DEF IdleNext
<1>8. CASE BootNext
  <2>1. CASE StartSetCurrent
    <3>1. current' = HighestReady /\ HighestReady # NoThread /\ UNCHANGED <<st, running, isrs>>
      BY <2>1 DEF StartSetCurrent, KeepKernel, tcb, cpu
    <3>2. st[current'] = "ready"
      BY <1>0, <3>1, HighestIsUrgent
    <3>3. \A t \in Thread : st[t] = "freed" /\ InUse(t)' => InUse(t)
      BY <3>1, <3>2 DEF InUse
    <3> QED
      BY <1>2, <3>1, <3>3
  <2>2. CASE ~StartSetCurrent
    BY <1>4, <1>8, <2>2 DEF BootNext, FirstStoreTo, FirstStoreFrom, FirstStoreFlag, FirstPend,
       KeepKernel, tcb, cpu
  <2> QED
    BY <2>1, <2>2
<1>9. CASE PendSV
  <2>1. running' = current /\ UNCHANGED <<st, current, isrs>>
    BY <1>0, <1>9, PendSVRequest DEF PendSV, SwitchAll, tcb
  <2>2. \A t \in Thread : InUse(t)' => InUse(t)
    BY <2>1 DEF InUse
  <2> QED
    BY <1>2, <2>1, <2>2
<1>10. CASE UNCHANGED vars
  BY <1>4, <1>10 DEF vars, tcb, switch, cpu
<1>11. CASE IsrNext
  <2>0. UNCHANGED running
    BY <1>11 DEF IsrNext, TickEnter, TimerCallback, IrqEnter, IrqDelete, IrqSuspend, IsrSchedule,
       IsrReturn, TimerPop, IrqWake, IrqDeleteCheck, IrqSuspendCheck, cpu
  \* the innermost handler takes x in hand, which is nobody, or for the tick not freed
  <2>1. ASSUME isrs # <<>>, NEW o \in BOOLEAN, NEW x \in Thread \cup {NoThread}, SetTop(o, x),
               x # NoThread /\ Top.kind = "tick" => st[x] # "freed",
               NEW t \in Thread, st[t] = "freed",
               current' = current \/ (current' \in Thread /\ st[current'] = "ready")
        PROVE  InUse(t)' => InUse(t)
    <3>1. /\ DOMAIN isrs' = DOMAIN isrs
          /\ \A i \in DOMAIN isrs : isrs'[i].kind = isrs[i].kind
          /\ \A i \in DOMAIN isrs : isrs'[i].arg \in {isrs[i].arg, x}
          /\ \A i \in DOMAIN isrs : isrs'[i].arg # isrs[i].arg => isrs[i] = Top
      BY <1>0, <2>1, SetTopOwes
    <3>2. ASSUME NEW i \in DOMAIN isrs', isrs'[i].kind = "tick", isrs'[i].arg = t
          PROVE  isrs[i].kind = "tick" /\ isrs[i].arg = t
      BY <1>0, <2>1, <3>1, <3>2
    <3> QED
      BY <2>0, <2>1, <3>1, <3>2 DEF InUse
  <2>2. CASE TickEnter \/ IrqEnter \/ IsrReturn
    <3>1. UNCHANGED <<st, current>>
      BY <2>2 DEF TickEnter, IrqEnter, IsrReturn, tcb, switch
    <3>2. ASSUME NEW t \in Thread, NoFrameOf(t) PROVE NoFrameOf(t)'
      <4>1. CASE TickEnter
        BY <1>0, <3>2, <4>1 DEF TickEnter, NoFrameOf
      <4>2. CASE IrqEnter
        <5> DEFINE f == [kind |-> "irq", owes |-> FALSE, arg |-> NoThread]
        <5>1. f.arg = NoThread /\ isrs' = Append(isrs, f)
          BY <4>2 DEF IrqEnter
        <5> HIDE DEF f
        <5>2. /\ DOMAIN isrs' = 1 .. Len(isrs) + 1
              /\ \A i \in 1 .. Len(isrs) : isrs'[i] = isrs[i]
              /\ isrs'[Len(isrs) + 1] = f
              /\ DOMAIN isrs = 1 .. Len(isrs) /\ Len(isrs) \in Nat
          BY <1>0, <5>1
        <5> QED
          BY <1>0, <3>2, <5>1, <5>2 DEF NoFrameOf
      <4>3. CASE IsrReturn
        <5>1. \A i \in DOMAIN isrs' : i \in DOMAIN isrs /\ isrs'[i] = isrs[i]
          BY <1>0, <4>3 DEF IsrReturn
        <5> QED
          BY <3>2, <5>1 DEF NoFrameOf
      <4> QED
        BY <2>2, <4>1, <4>2, <4>3
    <3>3. \A t \in Thread : InUse(t) <=> t \in {running, current} \/ ~NoFrameOf(t)
      BY DEF InUse, NoFrameOf
    <3>4. \A t \in Thread : InUse(t)' <=> t \in {running', current'} \/ ~NoFrameOf(t)'
      BY DEF InUse, NoFrameOf
    <3> QED
      BY <1>2, <2>0, <3>1, <3>2, <3>3, <3>4
  <2>3. CASE TimerCallback
    <3>1. isrs # <<>> /\ Top.arg \in Thread /\ UNCHANGED current
      BY <1>1, <2>3 DEF TimerCallback, switch
    <3>2. PICK o \in BOOLEAN : SetTop(o, NoThread)
      BY <2>3, ReschedType DEF TimerCallback
    <3>3. \A t \in Thread : st'[t] = "freed" => st[t] = "freed"
      BY <1>0, <2>3, <3>1 DEF TimerCallback
    <3> QED
      BY <1>2, <2>1, <3>1, <3>2, <3>3
  <2>4. CASE IrqDelete
    <3>1. isrs # <<>> /\ Top.arg \in Thread /\ SetTop(TRUE, NoThread)
          /\ DeleteBookkeeping(Top.arg) /\ UNCHANGED current
      BY <1>1, <2>4 DEF IrqDelete, switch
    <3>2. \A t \in Thread : st'[t] = "freed" => st[t] = "freed"
      BY <1>0, <3>1, DeleteFreesNone
    <3> QED
      BY <1>2, <2>1, <3>1, <3>2
  <2>5. CASE IsrSchedule
    <3>1. isrs # <<>> /\ SetTop(FALSE, NoThread) /\ Schedule /\ UNCHANGED st
      BY <2>5 DEF IsrSchedule, tcb
    <3>2. current' = current \/ (current' \in Thread /\ st[current'] = "ready")
      BY <1>0, <3>1, ScheduleReady
    <3> QED
      BY <1>2, <2>1, <3>1, <3>2
  <2>6. ASSUME NEW t \in Thread, TimerPop(t) \/ IrqDeleteCheck(t) PROVE FreedInv'
    <3>1. isrs # <<>> /\ SetTop(FALSE, t) /\ UNCHANGED <<st, current>>
      BY <2>6 DEF TimerPop, IrqDeleteCheck, IrqIdle, switch, tcb
    <3>2. Top.kind = "tick" => st[t] # "freed"
      BY <1>0, <2>6 DEF TimerPop, IrqDeleteCheck, IrqIdle, Sleepers
    <3> QED
      BY <1>2, <2>1, <3>1, <3>2
  <2>7. ASSUME NEW t \in Thread, IrqWake(t) PROVE FreedInv'
    <3>1. isrs # <<>> /\ SetTop(ReschedNeeded(t), NoThread) /\ UNCHANGED current
          /\ st' = [st EXCEPT ![t] = "ready"]
      BY <2>7 DEF IrqWake, IrqIdle, Wakeup, switch
    <3>2. \A u \in Thread : st'[u] = "freed" => st[u] = "freed"
      BY <1>0, <3>1
    <3> QED
      BY <1>2, <2>1, <3>1, <3>2, ReschedType
  <2>8. ASSUME isrs # <<>>, NEW f, f.kind # "tick", isrs' = [isrs EXCEPT ![Len(isrs)] = f],
               UNCHANGED current, \A t \in Thread : st'[t] = "freed" => st[t] = "freed"
        PROVE  FreedInv'
    <3>1. /\ DOMAIN isrs' = DOMAIN isrs
          /\ \A i \in DOMAIN isrs : isrs'[i] = isrs[i] \/ isrs'[i] = f
      BY <1>0, <2>8, TopOwes
    <3>2. \A t \in Thread : InUse(t)' => InUse(t)
      BY <2>0, <2>8, <3>1 DEF InUse
    <3> QED
      BY <1>2, <2>8, <3>2
  <2>9. CASE IrqSuspend \/ \E t \in Thread : IrqSuspendCheck(t)
    <3>1. isrs # <<>> /\ UNCHANGED current
      BY <2>9 DEF IrqSuspend, IrqSuspendCheck, IrqIdle, switch
    <3>2. PICK k \in {"irq", "suspend"}, o \in BOOLEAN, x \in Thread \cup {NoThread} :
            isrs' = [isrs EXCEPT ![Len(isrs)] = [kind |-> k, owes |-> o, arg |-> x]]
      BY <2>9 DEF IrqSuspend, IrqSuspendCheck
    <3>3. \A t \in Thread : st'[t] = "freed" => st[t] = "freed"
      BY <1>0, <2>9, TopPauses DEF IrqSuspend, IrqSuspendCheck, tcb
    <3>4. [kind |-> k, owes |-> o, arg |-> x].kind # "tick"
      OBVIOUS
    <3> QED
      BY <2>8, <3>1, <3>2, <3>3, <3>4
  <2> QED
    BY <1>11, <2>2, <2>3, <2>4, <2>5, <2>6, <2>7, <2>9 DEF IsrNext
<1> QED
  BY <1>5, <1>6, <1>7, <1>8, <1>9, <1>10, <1>11 DEF Next

-----------------------------------------------------------------------------
LEMMA DispatchInit == Init => DispatchAll
<1> SUFFICES ASSUME Init PROVE DispatchAll
  OBVIOUS
<1>1. TableInv /\ SwitchInv
  BY TypeInit, TableInit, SwitchInit DEF TableInv
<1>2. PreemptInv /\ HandInv
  BY DEF Init, PreemptInv, HandInv, HandsFree, Sleepers, NoFrame
<1>3. FreedInv
  BY DEF Init, FreedInv
<1> QED
  BY <1>1, <1>2, <1>3 DEF DispatchAll

LEMMA DispatchInvariant == UniqueFirst => (Spec => []DispatchAll)
<1> SUFFICES ASSUME UniqueFirst PROVE Spec => []DispatchAll
  OBVIOUS
<1>1. DispatchAll /\ [Next]_vars => DispatchAll'
  BY TypeNext, TableNext, StartNext, RequestNext, PreemptNext, HandNext, FreedNext
     DEF DispatchAll, TableInv, SwitchInv, SwitchAll
<1> QED
  BY <1>1, DispatchInit, PTL DEF Spec

\* Preemption: when all threads are made before start(), the executing thread is CURRENT
\* and outranked by no ready thread whenever no switch is pending and it owes no
\* schedule(), whatever threads were preempted in the middle of a call; and it is ready,
\* unless a handler suspended it, which can happen to a thread in Pausable only.
THEOREM Preemption == UniqueFirst /\ Boot = Thread => (Spec => []HighestRuns)
<1> SUFFICES ASSUME UniqueFirst, Boot = Thread PROVE Spec => []HighestRuns
  OBVIOUS
<1>1. DispatchAll => HighestRuns
  <2> SUFFICES ASSUME DispatchAll, Settled
               PROVE  /\ running = current /\ Runs(running)
                      /\ \A t \in Thread : st[t] = "ready" => Prio[running] <= Prio[t]
    BY DEF HighestRuns
  <2>1. running \in Thread /\ ~switchFlag /\ isrs = <<>> /\ running \notin owed
    BY DEF Settled
  <2>2. boot = "done" /\ ~pendsv
    BY <2>1, ThreadAfterStart DEF DispatchAll, SwitchInv, RequestInv
  <2>3. running = current
    BY <2>1, <2>2, ThreadAfterStart DEF DispatchAll
  <2>4. ~HandlerOwes
    BY <2>1 DEF HandlerOwes
  <2>5. Urgent
    BY <2>1, <2>2, <2>4 DEF DispatchAll, PreemptInv
  <2> QED
    BY <2>3, <2>5 DEF Urgent
<1> QED
  BY <1>1, DispatchInvariant, PTL

\* PendSV resumes a thread that no ready thread outranks, also when the thread that a
\* request named has slept or died before PendSV ran.  The thread is ready, unless a
\* handler suspended it when it was CURRENT already, and handlers may suspend it.
THEOREM DispatchSafe == UniqueFirst => (Spec => DispatchHighest)
<1> SUFFICES ASSUME UniqueFirst PROVE Spec => DispatchHighest
  OBVIOUS
<1>1. ASSUME DispatchAll, [Next]_vars, running' # running
      PROVE  /\ running' \in Thread /\ Runs(running')
             /\ \A t \in Thread : st[t] = "ready" => Prio[running'] <= Prio[t]
  <2>1. PendSV
    BY <1>1 DEF Next, BootNext, StartSetCurrent, FirstStoreTo, FirstStoreFrom, FirstStoreFlag,
       FirstPend, KeepKernel, ThreadCreate, ThreadNext, ThreadDelay, ThreadYield, ThreadSchedule,
       ThreadSuspend, ThreadResume, ThreadDelete, IdleNext, IdlePop, IdleFree, IdleLoop, IsrNext,
       TickEnter, TimerCallback, IrqEnter, IrqDelete, IrqSuspend, IsrSchedule, IsrReturn, TimerPop,
       IrqWake, IrqDeleteCheck, IrqSuspendCheck, vars, cpu
  <2>2. running' = current
    BY <1>1, <2>1, PendSVRequest DEF DispatchAll, SwitchAll
  <2>3. pendsv /\ isrs = <<>> /\ boot # "init"
    BY <1>1, <2>1 DEF PendSV, DispatchAll, SwitchInv, StartInv
  <2>4. Urgent
    BY <1>1, <2>3 DEF DispatchAll, PreemptInv, HandlerOwes
  <2> QED
    BY <2>2, <2>4 DEF Urgent
<1> QED
  BY <1>1, DispatchInvariant, PTL DEF Spec, DispatchHighest

\* No thread is used after idle returned its memory, and none is returned twice, whatever
\* handler deletes whom and whenever.
THEOREM ReclaimSafe == UniqueFirst => (Spec => []NoUseAfterFree)
<1> SUFFICES ASSUME UniqueFirst PROVE Spec => []NoUseAfterFree
  OBVIOUS
<1>1. DispatchAll => NoUseAfterFree
  <2> SUFFICES ASSUME DispatchAll PROVE NoUseAfterFree
    OBVIOUS
  <2>0. TableInv /\ SwitchInv /\ Sleepers /\ FreedInv
    BY DEF DispatchAll, HandInv
  <2>1. ASSUME NEW t \in Thread, st[t] = "freed"
        PROVE  /\ t \notin {running, current, reaping}
               /\ switchFlag => t \notin {fromSp, toSp}
               /\ ~Linked(t) /\ t \notin sleeping
               /\ \A i \in DOMAIN isrs : isrs[i].kind = "tick" => isrs[i].arg # t
    <3>1. t \notin {running, current}
          /\ \A i \in DOMAIN isrs : isrs[i].kind = "tick" => isrs[i].arg # t
      BY <2>0, <2>1 DEF FreedInv, InUse
    <3>2. t # reaping
      BY <2>0, <2>1, DispatchTypes DEF TableInv, DeadInv
    <3>3. ~Linked(t) /\ t \notin sleeping
      BY <2>0, <2>1, LinkedReady DEF Sleepers
    <3>4. ASSUME switchFlag PROVE t \notin {fromSp, toSp}
      <4>1. CASE boot = "done"
        BY <2>0, <2>1, <3>1, <3>4, <4>1, DispatchTypes DEF SwitchInv, RequestInv
      <4>2. CASE boot # "done"
        <5>1. fromSp = NoThread /\ boot = "pend" /\ toSp = current
          BY <2>0, <3>4, <4>2 DEF SwitchInv, StartInv, Window
        <5> QED
          BY <2>0, <2>1, <3>1, <5>1, DispatchTypes
      <4> QED
        BY <4>1, <4>2
    <3> QED
      BY <3>1, <3>2, <3>3, <3>4
  <2>2. IsInjective(Append(defunct, reaping))
    <3>1. /\ defunct \in Seq(Thread \cup {NoThread}) /\ reaping \in Thread \cup {NoThread}
          /\ reaping \notin ToSet(defunct) /\ IsInjective(defunct)
      BY <2>0 DEF TableInv, TypeInv, GraveOK, DeadInv
    <3> QED
      BY <3>1, AppendQueue
  <2> QED
    BY <2>1, <2>2 DEF NoUseAfterFree
<1> QED
  BY <1>1, DispatchInvariant, PTL

=============================================================================
