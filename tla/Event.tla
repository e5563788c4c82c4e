------------------------------- MODULE Event -------------------------------
(***************************************************************************)
(* Event flag groups: Event::send and recv (ipc.rs).  send() walks the     *)
(* waiters in order; a waiter whose condition holds is woken with the bits *)
(* that matched and may clear them for the waiters behind it.              *)
(***************************************************************************)
EXTENDS Blocking

CONSTANTS
    Flags,    \* the wait queue of the event
    Bit,      \* the bits in use
    Request   \* what recv() is called with: [wanted, all, clear]

ASSUME EventAssumption ==
    /\ Flags \in Queue
    /\ Request \subseteq [wanted : SUBSET Bit, all : BOOLEAN, clear : BOOLEAN]

VARIABLES
    set,    \* the bits that are set
    event,  \* event_wanted and event_opt of each thread
    recv    \* event_recv_bits of each thread

evars == <<set, event, recv>>

Unset == [wanted |-> {}, all |-> FALSE, clear |-> FALSE]

Matched(s, r) == IF r.all THEN r.wanted \subseteq s ELSE s \cap r.wanted # {}
Bits(s, r)    == IF r.all THEN r.wanted ELSE s \cap r.wanted
\* Variant: bits are never cleared.
LeftSet(s, r) == s

Left(s, r)    == IF r.clear THEN s \ Bits(s, r) ELSE s

-----------------------------------------------------------------------------
\* Variant: the walk of send() ends with the first waiter it wakes.
OfferFirst(acc, t) ==
    IF acc.k # k \/ ~Matched(acc.set, event[t]) THEN acc
    ELSE [k    |-> Wakeup(Unqueue(acc.k, t), t),
          set  |-> Left(acc.set, event[t]),
          recv |-> [acc.recv EXCEPT ![t] = Bits(acc.set, event[t])],
          need |-> acc.need \/ ReschedNeeded(k, t)]

\* The walk of send(): one waiter after the other.
Offer(acc, t) ==
    IF ~Matched(acc.set, event[t]) THEN acc
    ELSE [k    |-> Wakeup(Unqueue(acc.k, t), t),
          set  |-> Left(acc.set, event[t]),
          recv |-> [acc.recv EXCEPT ![t] = Bits(acc.set, event[t])],
          need |-> acc.need \/ ReschedNeeded(k, t)]
Walk(start, waiters) ==
    LET after[i \in 0 .. Len(waiters)] ==
          IF i = 0 THEN start ELSE LET acc == after[i - 1] IN Offer(acc, waiters[i])
    IN after
Sent(bits) ==
    Walk([k |-> k, set |-> set \cup bits, recv |-> recv, need |-> FALSE],
         k.wq[Flags])[Len(k.wq[Flags])]

Send(c, bits) ==
    LET s == Sent(bits)
    IN /\ Calling(c)
       /\ k' = s.k
       /\ set' = s.set /\ recv' = s.recv
       /\ AfterCall(c, s.need)
       /\ UNCHANGED <<event, popped>>

SendInHandler(bits) ==
    LET s == Sent(bits)
    IN /\ k' \in InHandler(s.k, s.need)
       /\ set' = s.set /\ recv' = s.recv
       /\ UNCHANGED <<event, pc, popped>>

\* recv() of bits that are there, also Ticks(0) in a handler; r is the request.
RecvNow(r) ==
    /\ Matched(set, r)
    /\ set' = Left(set, r)
    /\ UNCHANGED <<kvars, event, recv>>

RecvBlock(c, r, timed) ==
    /\ Calling(c) /\ ~Matched(set, r)
    /\ event' = [event EXCEPT ![c] = r]
    /\ k' = SuspendCurrent(k, c, Flags, timed)
    /\ Goto(c, "block")
    /\ UNCHANGED <<set, recv, popped>>

\* The thread runs again: it returns TimedOut or recv[c].  The code leaves the thread's
\* fields as they are and writes them again before it reads them; the model forgets them.
RecvReturn(c) ==
    /\ Resumed(c)
    /\ Goto(c, "run")
    /\ event' = [event EXCEPT ![c] = Unset]
    /\ recv' = [recv EXCEPT ![c] = {}]
    /\ UNCHANGED <<k, popped, set>>

-----------------------------------------------------------------------------
EventInit ==
    /\ set = {}
    /\ event = [t \in Thread |-> Unset]
    /\ recv = [t \in Thread |-> {}]

SendNext(users) == \E bits \in SUBSET Bit : SendInHandler(bits) \/ \E c \in users : Send(c, bits)
RecvNext(users) ==
    \/ \E r \in Request :
         \/ RecvNow(r)
         \/ \E c \in users, timed \in Timed : RecvBlock(c, r, timed)
    \/ \E c \in users : RecvReturn(c)
EventNext(users) == SendNext(users) \/ RecvNext(users)

-----------------------------------------------------------------------------
EventType ==
    /\ set \subseteq Bit
    /\ event \in [Thread -> [wanted : SUBSET Bit, all : BOOLEAN, clear : BOOLEAN]]
    /\ recv \in [Thread -> SUBSET Bit]

\* No missed event: a waiter's condition never holds of the bits that are set, however
\* many waiters a send() has passed, woken and cleared bits for; and a thread that
\* send() woke returns bits that satisfy what it asked for.
NoMissedEvent ==
    /\ \A t \in ToSet(k.wq[Flags]) : ~Matched(set, event[t])
    /\ \A t \in Thread : Served(t) /\ event[t] # Unset =>
         recv[t] \subseteq event[t].wanted /\ Matched(recv[t], event[t])

\* A bit is consumed once: clearing receivers that one send() wakes get disjoint bits,
\* and none of these bits stays set.
Consumed(t) ==
    IF Waits(k, t) /\ ~Waits(k', t) /\ ~k'.err[t] /\ event[t].clear THEN recv'[t] ELSE {}
ConsumedOnce ==
    [][\A t \in Thread :
         /\ Consumed(t) \cap set' = {}
         /\ \A u \in Thread \ {t} : Consumed(t) \cap Consumed(u) = {}]_<<k, set, recv>>
=============================================================================
