---------------------------- MODULE TimerPromise ----------------------------
(***************************************************************************)
(* What kernel timers promise: a timer that was started expires after      *)
(* exactly the ticks it was asked for, once or periodically, unless it is  *)
(* stopped or started anew before; timers that expire at the same tick do  *)
(* so in the order in which they were armed.                               *)
(***************************************************************************)
EXTENDS Naturals, Sequences, SequencesExt

CONSTANTS Timer, MaxTicks

VARIABLES
    left,    \* ticks until a running timer expires
    period,  \* the ticks between expirations, 0 of a timer that expires once
    queue    \* the running timers, in the order in which they were armed

Init ==
    /\ left = [t \in Timer |-> 0]
    /\ period = [t \in Timer |-> 0]
    /\ queue = <<>>

Running == ToSet(queue)
Arm(t, n) ==
    /\ queue' = Append(RemoveFirst(queue, t), t)
    /\ left' = [left EXCEPT ![t] = n]

Start(t) ==
    /\ \E p \in 0 .. MaxTicks : period' = [period EXCEPT ![t] = p]
    /\ \E d \in 1 .. MaxTicks : Arm(t, d)

Stop(t) ==
    /\ UNCHANGED period
    /\ queue' = RemoveFirst(queue, t)
    /\ left' = [left EXCEPT ![t] = 0]

Expire(t) ==
    /\ t \in Running /\ left[t] = 0
    /\ \A i, j \in DOMAIN queue : (queue[j] = t /\ i < j) => left[queue[i]] > 0
    /\ IF period[t] > 0 THEN Arm(t, period[t])
       ELSE left' = left /\ queue' = RemoveFirst(queue, t)
    /\ UNCHANGED period

\* Time goes on when nothing is due.
Tick ==
    /\ \A t \in Running : left[t] > 0
    /\ left' = [t \in Timer |-> IF t \in Running THEN left[t] - 1 ELSE 0]
    /\ UNCHANGED <<period, queue>>

Next == Tick \/ \E t \in Timer : Start(t) \/ Stop(t) \/ Expire(t)

Spec == Init /\ [][Next]_<<left, period, queue>>
=============================================================================
