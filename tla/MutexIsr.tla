------------------------------ MODULE MutexIsr ------------------------------
(***************************************************************************)
(* Mutexes when interrupt handlers try-lock them too, as the doc of ipc.rs *)
(* allows with Timeout::Ticks(0).  lock() and the guard's drop take the    *)
(* thread that is CURRENT for the owner, whoever calls.                    *)
(***************************************************************************)
EXTENDS Mutex

CONSTANT IsrLocks   \* the mutexes that handlers try-lock

\* The instance for TLC: two threads and one mutex.
CONSTANTS ta, tb, idle
BaseAB == ta :> 0 @@ tb :> 1 @@ idle :> 2

VARIABLE isrGuard   \* the MutexGuard of the active handler, or None

ivars == <<vars, isrGuard>>

\* lock(Ticks(0)) in a handler, between any two steps of the threads.
LockInHandler(m) ==
    /\ popped = None /\ isrGuard = None /\ k.owner[m] = None
    /\ k' = Own(k, m, k.cur)
    /\ isrGuard' = m
    /\ UNCHANGED <<pc, wants, guards, popped>>

DropInHandler ==
    /\ popped = None /\ isrGuard # None
    /\ isrGuard' = None
    /\ k' \in InHandler(Unlocked(k, isrGuard), UnlockNeeds(k, isrGuard))
    /\ UNCHANGED <<pc, wants, guards, popped>>

\* The tick and other handlers may preempt one that has a guard; threads and PendSV may not.
Others == (IF isrGuard = None THEN Next ELSE HandlerNext) /\ UNCHANGED isrGuard

IsrSpec ==
    /\ Init /\ isrGuard = None
    /\ [][Others \/ DropInHandler \/ \E m \in IsrLocks \cap Mutexes : LockInHandler(m)]_ivars

\* The doc of MutexGuard's Drop says that the release always happens; so an owned mutex
\* has a live guard, in a thread or in the handler, or is about to get one.
IsrOwnedHasGuard ==
    \A m \in Mutexes : k.owner[m] # None =>
        m \in guards[k.owner[m]] \/ isrGuard = m \/ Acquiring(k.owner[m], m)
=============================================================================
