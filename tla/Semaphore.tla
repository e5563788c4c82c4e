------------------------------ MODULE Semaphore ------------------------------
(***************************************************************************)
(* Counting semaphores: Semaphore::take and release (ipc.rs) with timeouts *)
(* and with suspend and resume of the threads that use them (thread.rs),   *)
(* from threads and from interrupt handlers.  A waiter that release()      *)
(* wakes owns the token: take() looks only at its error code when it runs  *)
(* again.                                                                  *)
(***************************************************************************)
EXTENDS Blocking

CONSTANTS
    Sem,        \* the semaphore, as a wait queue
    InitValue,  \* initial count
    MaxValue,   \* max_value
    MaxIssued,  \* bound on the tokens in existence
    MaxHeld     \* bound on the tokens one context holds

ASSUME SemaphoreAssumption ==
    /\ Sem \in Queue
    /\ MaxValue \in Nat /\ InitValue \in 0 .. MaxValue
    /\ MaxIssued \in Nat /\ InitValue <= MaxIssued /\ MaxHeld \in Nat

VARIABLES
    value,   \* the count
    held,    \* tokens that take() returned to each thread, and to handlers (None)
    issued   \* tokens in existence: counted, held or handed to a waiter

svars == <<value, held, issued>>

Holder == Thread \cup {None}

-----------------------------------------------------------------------------
\* take(): a token at once.  (A try that fails, with Ticks(0), changes nothing.)
TakeNow(h) ==
    /\ value > 0 /\ held[h] < MaxHeld
    /\ value' = value - 1
    /\ held' = [held EXCEPT ![h] = @ + 1]
    /\ UNCHANGED <<kvars, issued>>

\* take(): no token, the caller waits, with or without a timeout.
TakeBlock(c, timed) ==
    /\ value = 0 /\ held[c] < MaxHeld
    /\ k' = SuspendCurrent(k, c, Sem, timed)
    /\ Goto(c, "block")
    /\ UNCHANGED <<svars, popped>>

\* Variant: the error code is not looked at.
TakeReturnBlind(c) ==
    /\ Resumed(c)
    /\ Goto(c, "run")
    /\ held' = [held EXCEPT ![c] = @ + 1]
    /\ UNCHANGED <<k, popped, value, issued>>

\* The thread runs again and reads its error code.
TakeReturn(c) ==
    /\ Resumed(c)
    /\ Goto(c, "run")
    /\ held' = IF k.err[c] THEN held ELSE [held EXCEPT ![c] = @ + 1]
    /\ UNCHANGED <<k, popped, value, issued>>

\* release() gives the token to the first waiter, or counts it up to max_value.  The
\* token is one that h holds, or a new one.
ReleaseToken(h) ==
    LET own  == IF held[h] > 0 THEN 1 ELSE 0
        kept == IF Handover(Sem) \/ value < MaxValue THEN 1 ELSE 0
    IN /\ own = 1 \/ issued < MaxIssued
       /\ value' = IF Handover(Sem) \/ value = MaxValue THEN value ELSE value + 1
       /\ held' = [held EXCEPT ![h] = @ - own]
       /\ issued' = issued + kept - own

Release(c) ==
    /\ ReleaseToken(c)
    /\ k' = Woken(Sem)
    /\ AfterCall(c, Urgent(Sem))
    /\ UNCHANGED popped

ReleaseInHandler ==
    /\ ReleaseToken(None)
    /\ k' \in InHandler(Woken(Sem), Urgent(Sem))
    /\ UNCHANGED <<pc, popped>>

-----------------------------------------------------------------------------
SemaphoreInit ==
    /\ value = InitValue
    /\ held = [h \in Holder |-> 0]
    /\ issued = InitValue

SemaphoreCall(c) ==
    \/ Calling(c) /\ (TakeNow(c) \/ (\E timed \in Timed : TakeBlock(c, timed)) \/ Release(c))
    \/ TakeReturn(c)
SemaphoreNext(users) == TakeNow(None) \/ ReleaseInHandler \/ \E c \in users : SemaphoreCall(c)

-----------------------------------------------------------------------------
SemaphoreType ==
    /\ value \in 0 .. MaxValue
    /\ held \in [Holder -> 0 .. MaxHeld]
    /\ issued \in 0 .. MaxIssued

\* Where the tokens are: counted, held, or on their way to a thread that release() took
\* out of the queue.
HeldTokens   == {x \in Holder \X (1 .. MaxHeld) : x[2] <= held[x[1]]}
HandedTokens == {t \in Thread : Served(t)}
TokensAccounted ==
    /\ issued = value + Cardinality(HeldTokens) + Cardinality(HandedTokens)
    /\ value > 0 => k.wq[Sem] = <<>>
=============================================================================
