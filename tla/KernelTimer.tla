---------------------------- MODULE KernelTimer ----------------------------
(***************************************************************************)
(* Kernel timers (timer.rs): start and stop from threads, handlers and     *)
(* callbacks, and the scan of check() in the tick handler.  Deadlines are  *)
(* values of a tick counter that wraps, compared by signed difference, in  *)
(* a linked list that insert_sorted keeps in order.                        *)
(***************************************************************************)
EXTENDS Naturals, Sequences, SequencesExt, FiniteSets

CONSTANTS
    Timer,         \* the timers
    HalfRange,     \* half as many values as the tick counter has, 2^31 in the code
    Delay, Period  \* what start() is called with

\* What is no timer: the head of the list, no node, no timer.
TimerList == "TIMER_LIST"
Null      == "null"
Nobody    == "nobody"

TimerAssumption ==
    /\ IsFiniteSet(Timer) /\ Timer \cap {TimerList, Null, Nobody} = {}
    /\ HalfRange \in Nat \ {0, 1} /\ Delay \cup Period \subseteq Nat

VARIABLES
    tick,     \* TICK
    links,    \* the links of TIMER_LIST and of the timers' nodes
    deadline, \* timeout_tick
    period,   \* period_ticks
    started,
    scan,     \* whether the tick handler is in check()
    callback, \* the timer whose callback check() runs, or Nobody
    queue     \* history: the running timers, in the order in which they were armed

timerVars == <<tick, links, deadline, period, started, scan, callback, queue>>

Modulus == 2 * HalfRange
MaxTimerTicks == HalfRange - 1     \* i32::MAX

Plus(x, n) == (x + n) % Modulus
Minus(x, y) == (x + Modulus - y) % Modulus
Negative(x) == x > MaxTimerTicks   \* as i32 < 0

Lower(x, bound) == IF x < bound THEN x ELSE bound
Clamped(n) == IF n = 0 THEN 1 ELSE Lower(n, MaxTimerTicks)

-----------------------------------------------------------------------------
(* The intrusive doubly linked list of klist.rs, at the level of next, prev*)
(* and linked: l is the record of these fields, of heads and nodes.  Other *)
(* modules use sequences in place of such lists.                           *)

Unlinked(cells) ==
    [next |-> [x \in cells |-> Null], prev |-> [x \in cells |-> Null],
     linked |-> [x \in cells |-> FALSE]]

\* n between its new neighbours p and s, which are one cell in a list that was empty.
Between(l, p, n, s) ==
    [next   |-> [l.next EXCEPT ![p] = n, ![n] = s],
     prev   |-> [l.prev EXCEPT ![s] = n, ![n] = p],
     linked |-> [l.linked EXCEPT ![n] = TRUE]]

\* head.push_back(n) and, of a node m that is linked, m.insert_before(n)
PushBack(l, h, n)     == Between(l, IF l.prev[h] = Null THEN h ELSE l.prev[h], n, h)
InsertBefore(l, m, n) == Between(l, l.prev[m], n, m)

\* Variant: does not empty the head with the only node.
RemoveNodeOnly(l, n) ==
    IF ~l.linked[n] THEN l
    ELSE [next   |-> [l.next EXCEPT ![l.prev[n]] = l.next[n], ![n] = Null],
          prev   |-> [l.prev EXCEPT ![l.next[n]] = l.prev[n], ![n] = Null],
          linked |-> [l.linked EXCEPT ![n] = FALSE]]

\* n.remove(), which does nothing to a node that is on no list; the only node of a list
\* has the head on both sides and leaves it empty.
RemoveNode(l, n) ==
    LET p    == l.prev[n]
        s    == l.next[n]
        only == p = s
    IN IF ~l.linked[n] THEN l
       ELSE [next   |-> [l.next EXCEPT ![p] = IF only THEN Null ELSE s, ![n] = Null],
             prev   |-> [l.prev EXCEPT ![s] = IF only THEN Null ELSE p, ![n] = Null],
             linked |-> [l.linked EXCEPT ![n] = FALSE]]

\* The walk of a loop from the head: the cells it visits, until it is back or has no next.
NextNode(l, h, c) == IF l.next[c] = Null THEN h ELSE l.next[c]
Visited(l, h, n) ==
    LET w[i \in 0 .. n] ==
          IF i = 0 THEN NextNode(l, h, h)
          ELSE LET c == w[i - 1] IN IF c = h THEN h ELSE NextNode(l, h, c)
    IN w[n]
Cells(l, h) ==
    LET steps == Min({i \in 0 .. Cardinality(DOMAIN l.next) : Visited(l, h, i) = h})
    IN [i \in 1 .. steps |-> Visited(l, h, i - 1)]

\* The invariants of the list's doc: the links are those of the sequence s, closed over
\* the head, forward and backward; an empty head and a node on no list have none.
Represents(l, h, s) ==
    LET closed == <<h>> \o s \o <<h>>
        rest   == DOMAIN l.next \ ToSet(IF s = <<>> THEN s ELSE closed)
    IN /\ s # <<>> => \A i \in 1 .. Len(s) + 1 :
                        l.next[closed[i]] = closed[i + 1] /\ l.prev[closed[i + 1]] = closed[i]
       /\ \A x \in rest : l.next[x] = Null /\ l.prev[x] = Null
       /\ \A x \in DOMAIN l.next : l.linked[x] <=> x \in ToSet(s)

-----------------------------------------------------------------------------
List(l) == Cells(l, TimerList)

\* Variant: compares the deadlines and not their difference.
InsertSortedUnsigned(l, dl, t) ==
    LET i == SelectInSeq(List(l), LAMBDA e : dl[t] < dl[e])
    IN IF i = 0 THEN PushBack(l, TimerList, t) ELSE InsertBefore(l, List(l)[i], t)

\* insert_sorted: the walk stops before the first timer with a later deadline.
InsertSorted(l, dl, t) ==
    LET i == SelectInSeq(List(l), LAMBDA e : Negative(Minus(dl[t], dl[e])))
    IN IF i = 0 THEN PushBack(l, TimerList, t) ELSE InsertBefore(l, List(l)[i], t)

-----------------------------------------------------------------------------
\* start_internal, from whatever context; a running timer is restarted.
StartInternal(t, delay, per) ==
    /\ period' = [period EXCEPT ![t] = Lower(per, MaxTimerTicks)]
    /\ deadline' = [deadline EXCEPT ![t] = Plus(tick, Clamped(delay))]
    /\ links' = InsertSorted(RemoveNode(links, t), deadline', t)
    /\ started' = [started EXCEPT ![t] = TRUE]
    /\ queue' = Append(RemoveFirst(queue, t), t)
    /\ UNCHANGED <<tick, scan, callback>>

\* stop_internal; also the destructor.
StopInternal(t) ==
    /\ links' = RemoveNode(links, t)
    /\ started' = [started EXCEPT ![t] = FALSE]
    /\ queue' = RemoveFirst(queue, t)
    /\ UNCHANGED <<tick, deadline, period, scan, callback>>

\* SysTick: the counter is incremented, check() follows in the same handler.
TickIncrease ==
    /\ ~scan
    /\ tick' = Plus(tick, 1)
    /\ scan' = TRUE
    /\ UNCHANGED <<links, deadline, period, started, callback, queue>>

\* One critical section of check(): the first timer, if it is due, leaves the list and
\* is armed again when it is periodic; the callback runs afterwards ...
First == NextNode(links, TimerList, TimerList)
Due(t) == ~Negative(Minus(tick, deadline[t]))
CheckExpire ==
    /\ scan /\ callback = Nobody
    /\ First # TimerList /\ Due(First)
    /\ LET t     == First
           off   == RemoveNode(links, t)
           again == period[t] # 0 /\ started[t]
       IN /\ callback' = t
          /\ deadline' = IF again THEN [deadline EXCEPT ![t] = Plus(tick, period[t])] ELSE deadline
          /\ links' = IF again THEN InsertSorted(off, deadline', t) ELSE off
          /\ started' = [started EXCEPT ![t] = again]
          /\ queue' = IF again THEN Append(RemoveFirst(queue, t), t) ELSE RemoveFirst(queue, t)
    /\ UNCHANGED <<tick, period, scan>>

\* ... starts or stops timers, and returns to the loop.
CallbackReturn ==
    /\ callback # Nobody
    /\ callback' = Nobody
    /\ UNCHANGED <<tick, links, deadline, period, started, scan, queue>>

\* Nothing is due: check() ends.
CheckEnd ==
    /\ scan /\ callback = Nobody
    /\ First # TimerList => ~Due(First)
    /\ scan' = FALSE
    /\ UNCHANGED <<tick, links, deadline, period, started, callback, queue>>

-----------------------------------------------------------------------------
TimerInit ==
    /\ tick = 0
    /\ links = Unlinked(Timer \cup {TimerList})
    /\ deadline = [t \in Timer |-> 0]
    /\ period = [t \in Timer |-> 0]
    /\ started = [t \in Timer |-> FALSE]
    /\ scan = FALSE
    /\ callback = Nobody
    /\ queue = <<>>

StartNext == \E t \in Timer, d \in Delay, p \in Period : StartInternal(t, d, p)
StopNext  == \E t \in Timer : StopInternal(t)
Check     == CheckExpire \/ CallbackReturn \/ CheckEnd

TimerNext == StartNext \/ StopNext \/ TickIncrease \/ Check

TimerSpec == TimerInit /\ [][TimerNext]_timerVars

-----------------------------------------------------------------------------
\* A timer is on the list, once, exactly while it is started, so that is_active, stop
\* and the destructor see the truth.
StartedIsListed ==
    /\ IsInjective(List(links))
    /\ \A t \in Timer : started[t] <=> links.linked[t]

\* However timers are inserted and removed, from the middle or the ends, the links are
\* those of a list, forward and backward, and a timer off the list has none.
LinksSound == Represents(links, TimerList, List(links))

\* The list of timer.rs and klist.rs: who is on it, and how it is linked.
TimerSound == StartedIsListed /\ LinksSound

\* The promise, across wrap-around and for the longest delays: no timer expires early,
\* late or out of turn, and no tick passes while one is due.
Left == [t \in Timer |-> IF started[t] THEN Minus(deadline[t], tick) ELSE 0]
Expiry == INSTANCE TimerPromise WITH MaxTicks <- MaxTimerTicks, left <- Left
IsTimerPromise == Expiry!Spec
=============================================================================
