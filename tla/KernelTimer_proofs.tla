------------------------- MODULE KernelTimer_proofs -------------------------
(***************************************************************************)
(* Kernel timers (KernelTimer): the links stay those of a list on which    *)
(* the started timers are, and no timer expires early, late or out of      *)
(* turn, across wrap-around; for any timers, delays, periods and width of  *)
(* the counter.                                                            *)
(***************************************************************************)
EXTENDS KernelTimer, QueueLemmas, FiniteSetTheorems

Cell == Timer \cup {TimerList}
Links == [next : [Cell -> Cell \cup {Null}], prev : [Cell -> Cell \cup {Null}],
          linked : [Cell -> BOOLEAN]]
Queues == {s \in Seq(Timer) : IsInjective(s)}
Ticks == 0 .. Modulus - 1

\* The cells around s, closed over the head.
At(s, j) == IF j \in 1 .. Len(s) THEN s[j] ELSE TimerList

\* The links of l are those of s (Represents, position by position).
Ring(l, s) ==
    /\ s # <<>> => \A j \in 0 .. Len(s) : /\ l.next[At(s, j)] = At(s, j + 1)
                                          /\ l.prev[At(s, j + 1)] = At(s, j)
    /\ s = <<>> => l.next[TimerList] = Null /\ l.prev[TimerList] = Null
    /\ \A t \in Timer \ ToSet(s) : l.next[t] = Null /\ l.prev[t] = Null
    /\ \A x \in Cell : l.linked[x] <=> x \in ToSet(s)

\* a was armed before b.
Earlier(q, a, b) == \E m, n \in DOMAIN q : q[m] = a /\ q[n] = b /\ m < n

\* The list s has the timers of q in the order of their deadlines, those with the same
\* deadline in the order of q.
InTurn(s, q, dl, now) ==
    \A i, j \in 1 .. Len(s) :
        i < j => \/ Minus(dl[s[i]], now) < Minus(dl[s[j]], now)
                 \/ Minus(dl[s[i]], now) = Minus(dl[s[j]], now) /\ Earlier(q, s[i], s[j])

\* The links are those of s, which has the timers of q in turn; each has low ticks left at least,
\* and no more than the counter can tell.
Armed(l, s, q, dl, now, low) ==
    /\ l \in Links /\ s \in Queues /\ Ring(l, s)
    /\ q \in Queues /\ ToSet(q) = ToSet(s)
    /\ dl \in [Timer -> Ticks] /\ now \in Ticks
    /\ \A t \in ToSet(s) : Minus(dl[t], now) \in low .. MaxTimerTicks
    /\ InTurn(s, q, dl, now)

TimerInv ==
    /\ Armed(links, List(links), queue, deadline, tick, IF scan THEN 0 ELSE 1)
    /\ started \in [Timer -> BOOLEAN] /\ \A t \in Timer : started[t] <=> t \in ToSet(queue)
    /\ period \in [Timer -> 0 .. MaxTimerTicks]
    /\ scan \in BOOLEAN /\ callback \in Timer \cup {Nobody}

-----------------------------------------------------------------------------
(* The tick counter.                                                       *)

LEMMA Constants ==
    ASSUME TimerAssumption
    PROVE  /\ HalfRange \in Nat /\ HalfRange >= 2
           /\ Modulus \in Nat /\ Modulus = 2 * HalfRange /\ Modulus > 0
           /\ MaxTimerTicks \in Nat /\ MaxTimerTicks = HalfRange - 1 /\ MaxTimerTicks >= 1
           /\ IsFiniteSet(Timer) /\ TimerList \notin Timer /\ Null \notin Timer /\ Nobody \notin Timer
           /\ Null # TimerList
<1>1. HalfRange \in Nat /\ HalfRange >= 2
  BY DEF TimerAssumption
<1>2. Modulus = 2 * HalfRange /\ MaxTimerTicks = HalfRange - 1
  BY DEF Modulus, MaxTimerTicks
<1>3. Null # TimerList
  BY DEF Null, TimerList
<1> QED
  BY <1>1, <1>2, <1>3 DEF TimerAssumption

\* Sums and differences of ticks.
LEMMA TicksAre ==
    ASSUME TimerAssumption, NEW x \in Ticks
    PROVE  /\ x \in Nat /\ x < Modulus
           /\ \A y \in Ticks : /\ Minus(x, y) = IF x < y THEN x + Modulus - y ELSE x - y
                               /\ Minus(x, y) \in Ticks
           /\ \A n \in 0 .. MaxTimerTicks :
                /\ Plus(x, n) = IF x + n < Modulus THEN x + n ELSE x + n - Modulus
                /\ Plus(x, n) \in Ticks
                /\ Minus(Plus(x, n), x) = n
<1>1. /\ HalfRange \in Nat /\ HalfRange >= 2 /\ Modulus \in Nat /\ Modulus = 2 * HalfRange /\ Modulus > 0
      /\ MaxTimerTicks \in Nat /\ MaxTimerTicks = HalfRange - 1
  BY Constants
<1>2. \A z \in Ticks : z \in Nat /\ z < Modulus
  BY <1>1 DEF Ticks
<1>3. ASSUME NEW v \in Ticks, NEW y \in Ticks
      PROVE  /\ Minus(v, y) = IF v < y THEN v + Modulus - y ELSE v - y
             /\ Minus(v, y) \in Ticks
  <2>1. PICK z \in Nat : z = v + Modulus - y /\ z < 2 * Modulus
    BY <1>1, <1>2, <1>3
  <2>2. Minus(v, y) = IF z < Modulus THEN z ELSE z - Modulus
    <3>1. Minus(v, y) = z % Modulus
      BY <2>1 DEF Minus
    <3> QED
      BY <1>1, <2>1, <3>1, Remainder
  <2> QED
    BY <1>1, <1>2, <1>3, <2>1, <2>2 DEF Ticks
<1>4. ASSUME NEW n \in 0 .. MaxTimerTicks
      PROVE  /\ Plus(x, n) = IF x + n < Modulus THEN x + n ELSE x + n - Modulus
             /\ Plus(x, n) \in Ticks
             /\ Minus(Plus(x, n), x) = n
  <2>1. PICK z \in Nat : z = x + n /\ z < 2 * Modulus
    BY <1>1, <1>2, <1>4
  <2>2. Plus(x, n) = IF x + n < Modulus THEN x + n ELSE x + n - Modulus
    <3>1. Plus(x, n) = z % Modulus
      BY <2>1 DEF Plus
    <3>2. z % Modulus = IF z < Modulus THEN z ELSE z - Modulus
      BY <1>1, <2>1, Remainder
    <3> QED
      BY <1>1, <1>2, <1>4, <2>1, <3>1, <3>2
  <2>3. Plus(x, n) \in Ticks
    BY <1>1, <1>2, <1>4, <2>2 DEF Ticks
  <2> QED
    BY <1>1, <1>2, <1>3, <1>4, <2>2, <2>3
<1> QED
  BY <1>2, <1>3, <1>4

\* Deadlines that lie ahead, by no more than the longest delay, compare by the sign of their difference.
LEMMA SignTells ==
    ASSUME TimerAssumption, NEW now \in Ticks, NEW a \in Ticks, NEW b \in Ticks,
           Minus(a, now) \in 0 .. MaxTimerTicks, Minus(b, now) \in 0 .. MaxTimerTicks
    PROVE  Negative(Minus(a, b)) <=> Minus(a, now) < Minus(b, now)
<1>1. /\ HalfRange \in Nat /\ HalfRange >= 2 /\ Modulus = 2 * HalfRange /\ MaxTimerTicks = HalfRange - 1
  BY Constants
<1>2. /\ now \in Nat /\ now < Modulus /\ a \in Nat /\ a < Modulus /\ b \in Nat /\ b < Modulus
  BY TicksAre
<1>3. /\ Minus(a, now) = IF a < now THEN a + Modulus - now ELSE a - now
      /\ Minus(b, now) = IF b < now THEN b + Modulus - now ELSE b - now
      /\ Minus(a, b) = IF a < b THEN a + Modulus - b ELSE a - b
  BY TicksAre
<1> QED
  BY <1>1, <1>2, <1>3 DEF Negative

\* So does a deadline with the time itself; a tick brings it nearer by one.
LEMMA DueIs ==
    ASSUME TimerAssumption, NEW now \in Ticks, NEW a \in Ticks, Minus(a, now) \in 0 .. MaxTimerTicks
    PROVE  /\ Negative(Minus(now, a)) <=> Minus(a, now) > 0
           /\ Minus(a, now) > 0 => Minus(a, Plus(now, 1)) = Minus(a, now) - 1
<1>1. /\ HalfRange \in Nat /\ HalfRange >= 2 /\ Modulus = 2 * HalfRange /\ MaxTimerTicks = HalfRange - 1
  BY Constants
<1>2. now \in Nat /\ now < Modulus /\ a \in Nat /\ a < Modulus
  BY TicksAre
<1>3. /\ Minus(a, now) = IF a < now THEN a + Modulus - now ELSE a - now
      /\ Minus(now, a) = IF now < a THEN now + Modulus - a ELSE now - a
  BY TicksAre
<1>4. 1 \in 0 .. MaxTimerTicks
  BY <1>1
<1>5. /\ Plus(now, 1) = IF now + 1 < Modulus THEN now + 1 ELSE now + 1 - Modulus
      /\ Plus(now, 1) \in Ticks
  BY <1>4, TicksAre
<1>6. Minus(a, Plus(now, 1)) = IF a < Plus(now, 1) THEN a + Modulus - Plus(now, 1) ELSE a - Plus(now, 1)
  BY <1>5, TicksAre
<1>7. Negative(Minus(now, a)) <=> Minus(a, now) > 0
  BY <1>1, <1>2, <1>3 DEF Negative
<1> QED
  BY <1>1, <1>2, <1>3, <1>5, <1>6, <1>7

-----------------------------------------------------------------------------
(* The list and the sequence that it stands for.                           *)

LEMMA AtIs ==
    ASSUME TimerAssumption, NEW s \in Queues
    PROVE  /\ s \in Seq(Timer) /\ Len(s) \in Nat /\ DOMAIN s = 1 .. Len(s)
           /\ ToSet(s) \subseteq Timer
           /\ \A x : x \in ToSet(s) <=> \E j \in 1 .. Len(s) : s[j] = x
           /\ \A j \in 1 .. Len(s) : At(s, j) = s[j] /\ s[j] \in Timer /\ s[j] \in ToSet(s)
           /\ At(s, 0) = TimerList /\ At(s, Len(s) + 1) = TimerList
           /\ \A i, j \in 1 .. Len(s) : s[i] = s[j] => i = j
           /\ \A i, j \in 0 .. Len(s) : At(s, i) = At(s, j) => i = j
           /\ \A i, j \in 1 .. Len(s) + 1 : At(s, i) = At(s, j) => i = j
           /\ \A j \in 0 .. Len(s) + 1 : At(s, j) \in Cell
<1>1. /\ s \in Seq(Timer) /\ Len(s) \in Nat /\ DOMAIN s = 1 .. Len(s)
      /\ \A j \in 1 .. Len(s) : s[j] \in Timer
  BY DEF Queues
<1>2. \A i, j \in 1 .. Len(s) : s[i] = s[j] => i = j
  BY <1>1 DEF Queues, IsInjective
<1>3. \A x : x \in ToSet(s) <=> \E j \in 1 .. Len(s) : s[j] = x
  BY <1>1 DEF ToSet
<1>4. /\ \A j \in 1 .. Len(s) : At(s, j) = s[j]
      /\ \A j \in Int : j \notin 1 .. Len(s) => At(s, j) = TimerList
  BY DEF At
<1>5. At(s, 0) = TimerList /\ At(s, Len(s) + 1) = TimerList
  BY <1>1, <1>4
<1>6. TimerList \notin Timer
  BY Constants
<1>7. ASSUME NEW i \in 0 .. Len(s), NEW j \in 0 .. Len(s), At(s, i) = At(s, j) PROVE i = j
  <2>1. CASE i = 0 \/ j = 0
    BY <1>1, <1>4, <1>5, <1>6, <1>7, <2>1
  <2>2. CASE i # 0 /\ j # 0
    <3>1. i \in 1 .. Len(s) /\ j \in 1 .. Len(s)
      BY <1>1, <2>2
    <3> QED
      BY <1>2, <1>4, <1>7, <3>1
  <2> QED
    BY <2>1, <2>2
<1>8. ASSUME NEW i \in 1 .. Len(s) + 1, NEW j \in 1 .. Len(s) + 1, At(s, i) = At(s, j) PROVE i = j
  <2>1. CASE i = Len(s) + 1 \/ j = Len(s) + 1
    <3>1. i \in 1 .. Len(s) \/ i = Len(s) + 1
      BY <1>1
    <3>2. j \in 1 .. Len(s) \/ j = Len(s) + 1
      BY <1>1
    <3> QED
      BY <1>1, <1>4, <1>5, <1>6, <1>8, <2>1, <3>1, <3>2
  <2>2. CASE i # Len(s) + 1 /\ j # Len(s) + 1
    <3>1. i \in 1 .. Len(s) /\ j \in 1 .. Len(s)
      BY <1>1, <2>2
    <3> QED
      BY <1>2, <1>4, <1>8, <3>1
  <2> QED
    BY <2>1, <2>2
<1>9. \A j \in 0 .. Len(s) + 1 : At(s, j) \in Cell
  BY <1>1 DEF At, Cell
<1>10. ToSet(s) \subseteq Timer
  BY <1>1, <1>3
<1>11. \A j \in 1 .. Len(s) : s[j] \in ToSet(s)
  BY <1>3
<1> QED
  BY <1>1, <1>2, <1>3, <1>4, <1>5, <1>7, <1>8, <1>9, <1>10, <1>11

LEMMA ClosedIs ==
    ASSUME TimerAssumption, NEW s \in Queues
    PROVE  LET closed == <<TimerList>> \o s \o <<TimerList>>
           IN  /\ \A i \in 1 .. Len(s) + 2 : closed[i] = At(s, i - 1)
               /\ ToSet(closed) = ToSet(s) \cup {TimerList}
<1> DEFINE first == <<TimerList>> \o s
           closed == first \o <<TimerList>>
<1>1. /\ s \in Seq(Cell) /\ Len(s) \in Nat /\ \A j \in 1 .. Len(s) : At(s, j) = s[j]
      /\ At(s, 0) = TimerList /\ At(s, Len(s) + 1) = TimerList
      /\ \A x : x \in ToSet(s) <=> \E j \in 1 .. Len(s) : s[j] = x
  <2>1. s \in Seq(Cell)
    BY AtIs DEF Cell
  <2> QED
    BY <2>1, AtIs
<1>2. /\ first \in Seq(Cell) /\ Len(first) = Len(s) + 1
      /\ \A i \in 1 .. Len(s) + 1 : first[i] = IF i = 1 THEN TimerList ELSE s[i - 1]
  <2>1. TimerList \in Cell
    BY DEF Cell
  <2>2. <<TimerList>> \in Seq(Cell) /\ Len(<<TimerList>>) = 1 /\ <<TimerList>>[1] = TimerList
    BY <2>1
  <2> QED
    BY <1>1, <2>2
<1> HIDE DEF first
<1>3. /\ Len(closed) = Len(s) + 2 /\ closed \in Seq(Cell)
      /\ \A i \in 1 .. Len(s) + 2 : closed[i] = IF i <= Len(s) + 1 THEN first[i] ELSE TimerList
  <2>1. TimerList \in Cell
    BY DEF Cell
  <2>2. <<TimerList>> \in Seq(Cell) /\ Len(<<TimerList>>) = 1 /\ <<TimerList>>[1] = TimerList
    BY <2>1
  <2> QED
    BY <1>1, <1>2, <2>2
<1> HIDE DEF closed
<1>4. ASSUME NEW i \in 1 .. Len(s) + 2 PROVE closed[i] = At(s, i - 1)
  <2>1. CASE i = 1
    BY <1>1, <1>2, <1>3, <2>1
  <2>2. CASE i = Len(s) + 2
    <3>1. ~(i <= Len(s) + 1) /\ i - 1 = Len(s) + 1
      BY <1>1, <2>2
    <3> QED
      BY <1>1, <1>3, <3>1
  <2>3. CASE i # 1 /\ i # Len(s) + 2
    <3>1. i \in 1 .. Len(s) + 1 /\ i <= Len(s) + 1 /\ i - 1 \in 1 .. Len(s)
      BY <1>1, <2>3
    <3> QED
      BY <1>1, <1>2, <1>3, <2>3, <3>1
  <2> QED
    BY <2>1, <2>2, <2>3
<1>5. ToSet(closed) = ToSet(s) \cup {TimerList}
  <2>1. DOMAIN closed = 1 .. Len(s) + 2
    BY <1>3
  <2>2. \A x : x \in ToSet(closed) <=> \E i \in 1 .. Len(s) + 2 : At(s, i - 1) = x
    BY <1>4, <2>1 DEF ToSet
  <2>3. ASSUME NEW x \in ToSet(closed) PROVE x \in ToSet(s) \cup {TimerList}
    <3>1. PICK i \in 1 .. Len(s) + 2 : At(s, i - 1) = x
      BY <2>2, <2>3
    <3>2. i - 1 \in 1 .. Len(s) \/ i - 1 = 0 \/ i - 1 = Len(s) + 1
      BY <1>1
    <3> QED
      BY <1>1, <3>1, <3>2
  <2>4. TimerList \in ToSet(closed)
    <3>1. 1 \in 1 .. Len(s) + 2 /\ 1 - 1 = 0
      BY <1>1
    <3> QED
      BY <1>1, <2>2, <3>1
  <2>5. ASSUME NEW x \in ToSet(s) PROVE x \in ToSet(closed)
    <3>1. PICK j \in 1 .. Len(s) : s[j] = x
      BY <1>1
    <3>2. j + 1 \in 1 .. Len(s) + 2 /\ (j + 1) - 1 = j
      BY <1>1
    <3> QED
      BY <1>1, <2>2, <3>1, <3>2
  <2> QED
    BY <2>3, <2>4, <2>5
<1> QED
  BY <1>4, <1>5 DEF closed, first

LEMMA RepresentsIs ==
    ASSUME TimerAssumption, NEW l \in Links, NEW s \in Queues
    PROVE  Represents(l, TimerList, s) <=> Ring(l, s)
<1> DEFINE closed == <<TimerList>> \o s \o <<TimerList>>
           Linked == \A i \in 1 .. Len(s) + 1 :
                       l.next[closed[i]] = closed[i + 1] /\ l.prev[closed[i + 1]] = closed[i]
           Round == \A j \in 0 .. Len(s) : /\ l.next[At(s, j)] = At(s, j + 1)
                                            /\ l.prev[At(s, j + 1)] = At(s, j)
           rest == Cell \ ToSet(IF s = <<>> THEN s ELSE closed)
           Bare == \A x \in rest : l.next[x] = Null /\ l.prev[x] = Null
           Flags == \A x \in Cell : l.linked[x] <=> x \in ToSet(s)
<1>1. Len(s) \in Nat /\ ToSet(s) \subseteq Timer /\ (s = <<>> => ToSet(s) = {})
  <2>1. s = <<>> => ToSet(s) = {}
    BY DEF ToSet
  <2> QED
    BY <2>1, AtIs
<1>2. (\A i \in 1 .. Len(s) + 2 : closed[i] = At(s, i - 1)) /\ ToSet(closed) = ToSet(s) \cup {TimerList}
  BY ClosedIs
<1>3. DOMAIN l.next = Cell
  BY DEF Links
<1>4. Represents(l, TimerList, s) <=> ((s # <<>> => Linked) /\ Bare /\ Flags)
  BY <1>3 DEF Represents
<1> HIDE DEF closed
<1>5. Linked <=> Round
  <2>1. ASSUME Round PROVE Linked
    <3>1. ASSUME NEW i \in 1 .. Len(s) + 1
          PROVE  l.next[closed[i]] = closed[i + 1] /\ l.prev[closed[i + 1]] = closed[i]
      <4>1. /\ i \in 1 .. Len(s) + 2 /\ i + 1 \in 1 .. Len(s) + 2 /\ i - 1 \in 0 .. Len(s)
            /\ (i + 1) - 1 = i /\ (i - 1) + 1 = i
        BY <1>1
      <4>2. closed[i] = At(s, i - 1) /\ closed[i + 1] = At(s, i)
        BY <1>2, <4>1
      <4>3. l.next[At(s, i - 1)] = At(s, i) /\ l.prev[At(s, i)] = At(s, i - 1)
        BY <2>1, <4>1
      <4> QED
        BY <4>2, <4>3
    <3> QED
      BY <3>1
  <2>2. ASSUME Linked PROVE Round
    <3>1. ASSUME NEW j \in 0 .. Len(s)
          PROVE  l.next[At(s, j)] = At(s, j + 1) /\ l.prev[At(s, j + 1)] = At(s, j)
      <4>1. /\ j + 1 \in 1 .. Len(s) + 1 /\ j + 1 \in 1 .. Len(s) + 2 /\ (j + 1) + 1 \in 1 .. Len(s) + 2
            /\ (j + 1) - 1 = j /\ ((j + 1) + 1) - 1 = j + 1
        BY <1>1
      <4>2. closed[j + 1] = At(s, j) /\ closed[(j + 1) + 1] = At(s, j + 1)
        BY <1>2, <4>1
      <4>3. /\ l.next[closed[j + 1]] = closed[(j + 1) + 1]
            /\ l.prev[closed[(j + 1) + 1]] = closed[j + 1]
        BY <2>2, <4>1
      <4> QED
        BY <4>2, <4>3
    <3> QED
      BY <3>1
  <2> QED
    BY <2>1, <2>2
<1>6. Bare <=> /\ s = <<>> => l.next[TimerList] = Null /\ l.prev[TimerList] = Null
               /\ \A t \in Timer \ ToSet(s) : l.next[t] = Null /\ l.prev[t] = Null
  <2>1. CASE s = <<>>
    <3>1. rest = Timer \cup {TimerList} /\ Timer \ ToSet(s) = Timer
      BY <1>1, <2>1 DEF Cell
    <3> QED
      BY <2>1, <3>1
  <2>2. CASE s # <<>>
    <3>1. rest = Timer \ ToSet(s)
      BY <1>1, <1>2, <2>2, Constants DEF Cell
    <3> QED
      BY <2>2, <3>1
  <2> QED
    BY <2>1, <2>2
<1> HIDE DEF Linked, Round, Bare, Flags
<1>7. Ring(l, s) <=> /\ s # <<>> => Round
                     /\ s = <<>> => l.next[TimerList] = Null /\ l.prev[TimerList] = Null
                     /\ \A t \in Timer \ ToSet(s) : l.next[t] = Null /\ l.prev[t] = Null
                     /\ Flags
  BY DEF Ring, Round, Flags
<1> QED
  BY <1>4, <1>5, <1>6, <1>7

\* The walk from the head visits the sequence, and then the head.
LEMMA VisitedIs ==
    ASSUME TimerAssumption, NEW l \in Links, NEW s \in Queues, Ring(l, s), NEW n \in Nat
    PROVE  Visited(l, TimerList, n) = At(s, n + 1)
<1> DEFINE Step(c) == IF c = TimerList THEN TimerList ELSE NextNode(l, TimerList, c)
           first == NextNode(l, TimerList, TimerList)
           Is(f) == f = [j \in 0 .. n |-> IF j = 0 THEN first ELSE Step(f[j - 1])]
           P(j) == At(s, j + 1)
           g == [j \in 0 .. n |-> P(j)]
<1>1. /\ Len(s) \in Nat /\ Null # TimerList /\ Null \notin Timer /\ TimerList \notin Timer
      /\ At(s, 0) = TimerList /\ \A j \in 1 .. Len(s) : At(s, j) = s[j] /\ s[j] \in Timer
      /\ \A j \in Int : j \notin 1 .. Len(s) => At(s, j) = TimerList
  BY AtIs, Constants DEF At
<1>2. s # <<>> => \A j \in 0 .. Len(s) : l.next[At(s, j)] = At(s, j + 1)
  BY DEF Ring
<1>3. \A j \in 0 .. Len(s) : At(s, j + 1) # Null
  BY <1>1
<1>4. s = <<>> <=> Len(s) = 0
  BY <1>1, AtIs
<1>5. first = P(0)
  <2>1. CASE s = <<>>
    <3>1. l.next[TimerList] = Null
      BY <2>1 DEF Ring
    <3>2. At(s, 1) = TimerList
      BY <1>1, <1>4, <2>1
    <3> QED
      BY <3>1, <3>2 DEF NextNode
  <2>2. CASE s # <<>>
    <3>1. 0 \in 0 .. Len(s)
      BY <1>1
    <3>2. l.next[TimerList] = At(s, 1) /\ At(s, 1) # Null
      BY <1>1, <1>2, <1>3, <2>2, <3>1
    <3> QED
      BY <3>2 DEF NextNode
  <2> QED
    BY <2>1, <2>2
<1>6. ASSUME NEW j \in Nat, j > 0 PROVE P(j) = Step(P(j - 1))
  <2>1. CASE j <= Len(s)
    <3>1. j \in 0 .. Len(s) /\ j \in 1 .. Len(s) /\ (j - 1) + 1 = j
      BY <1>1, <1>6, <2>1
    <3>2. P(j - 1) = s[j] /\ s[j] # TimerList /\ s # <<>>
      BY <1>1, <1>4, <3>1, <2>1
    <3>3. l.next[s[j]] = At(s, j + 1) /\ At(s, j + 1) # Null
      BY <1>1, <1>2, <1>3, <3>1, <3>2
    <3> HIDE DEF P
    <3>4. P(j) = At(s, j + 1)
      BY DEF P
    <3> QED
      BY <3>2, <3>3, <3>4 DEF NextNode
  <2>2. CASE ~(j <= Len(s))
    <3>1. At(s, j + 1) = TimerList /\ At(s, (j - 1) + 1) = TimerList
      BY <1>1, <1>6, <2>2
    <3> QED
      BY <3>1
  <2> QED
    BY <2>1, <2>2
<1>7. Visited(l, TimerList, n)
      = LET w == CHOOSE f : f = [i \in 0 .. n |->
                   IF i = 0 THEN first
                   ELSE LET c == f[i - 1] IN IF c = TimerList THEN TimerList ELSE NextNode(l, TimerList, c)]
        IN w[n]
  BY DEF Visited
<1>8. Visited(l, TimerList, n) = (CHOOSE f : Is(f))[n]
  BY <1>7
<1> HIDE DEF P, Step, first
<1>9. Is(g)
  <2>1. ASSUME NEW j \in 0 .. n PROVE g[j] = IF j = 0 THEN first ELSE Step(g[j - 1])
    <3>1. CASE j = 0
      BY <1>5, <3>1
    <3>2. CASE j # 0
      <4>1. j \in Nat /\ j > 0 /\ j - 1 \in 0 .. n
        BY <3>2
      <4>2. g[j] = P(j) /\ g[j - 1] = P(j - 1)
        BY <4>1
      <4> QED
        BY <1>6, <3>2, <4>1, <4>2
    <3> QED
      BY <3>1, <3>2
  <2> HIDE DEF g
  <2>2. g = [j \in 0 .. n |-> g[j]]
    BY DEF g
  <2>3. [j \in 0 .. n |-> g[j]] = [j \in 0 .. n |-> IF j = 0 THEN first ELSE Step(g[j - 1])]
    BY <2>1
  <2> QED
    BY <2>2, <2>3
<1> HIDE DEF g
<1> DEFINE w == CHOOSE f : Is(f)
<1>10. Is(w)
  BY <1>9
<1>11. Visited(l, TimerList, n) = w[n]
  BY <1>8
<1> HIDE DEF w
<1> DEFINE Bad == {j \in 0 .. n : w[j] # P(j)}
<1>12. \A j \in 0 .. n : w[j] = IF j = 0 THEN first ELSE Step(w[j - 1])
  BY <1>10
<1> HIDE DEF Is
<1>13. Bad = {}
  <2>1. SUFFICES ASSUME Bad # {} PROVE FALSE
    OBVIOUS
  <2>2. PICK m \in Bad : \A j \in Bad : m <= j
    <3>1. Bad \in SUBSET Nat
      OBVIOUS
    <3> HIDE DEF Bad
    <3> QED
      BY <2>1, <3>1, LeastElement
  <2>3. m \in 0 .. n /\ w[m] # P(m)
    OBVIOUS
  <2>4. m # 0
    BY <1>5, <1>12, <2>3
  <2>5. m - 1 \in 0 .. n /\ m - 1 \notin Bad /\ m \in Nat /\ m > 0
    BY <2>2, <2>3, <2>4
  <2>6. w[m - 1] = P(m - 1)
    BY <2>5
  <2>7. w[m] = Step(w[m - 1])
    BY <1>12, <2>3, <2>4
  <2> QED
    BY <1>6, <2>3, <2>5, <2>6, <2>7
<1>14. w[n] = P(n)
  BY <1>13
<1> QED
  BY <1>11, <1>14 DEF P

\* So the walk of a loop finds the sequence.
LEMMA ListIs ==
    ASSUME TimerAssumption, NEW l \in Links, NEW s \in Queues, Ring(l, s)
    PROVE  List(l) = s
<1> DEFINE C == Cardinality(DOMAIN l.next)
           Ends == {i \in 0 .. C : Visited(l, TimerList, i) = TimerList}
           steps == Min(Ends)
<1>1. /\ s \in Seq(Timer) /\ Len(s) \in Nat /\ DOMAIN s = 1 .. Len(s) /\ TimerList \notin Timer
      /\ \A j \in 1 .. Len(s) : At(s, j) = s[j] /\ s[j] \in Timer
      /\ At(s, Len(s) + 1) = TimerList /\ \A i, j \in 1 .. Len(s) : s[i] = s[j] => i = j
  BY AtIs, Constants
<1>2. Len(s) <= C /\ C \in Nat
  <2>1. DOMAIN l.next = Cell
    BY DEF Links
  <2>2. IsFiniteSet(Cell)
    BY Constants, FS_AddElement DEF Cell
  <2>3. s \in Injection(1 .. Len(s), Cell)
    <3>1. s \in [1 .. Len(s) -> Cell]
      BY <1>1 DEF Cell
    <3> QED
      BY <1>1, <3>1 DEF Injection, IsInjective
  <2>4. Cardinality(1 .. Len(s)) <= Cardinality(Cell)
    BY <2>2, <2>3, FS_Injection
  <2>5. Cardinality(1 .. Len(s)) = Len(s)
    <3>1. Cardinality(1 .. Len(s)) = IF 1 > Len(s) THEN 0 ELSE Len(s) - 1 + 1
      BY <1>1, FS_Interval
    <3> QED
      BY <1>1, <3>1
  <2> QED
    BY <2>1, <2>2, <2>4, <2>5, FS_CardinalityType
<1>3. \A i \in Nat : Visited(l, TimerList, i) = At(s, i + 1)
  BY VisitedIs
<1>4. Len(s) \in Ends /\ \A i \in Ends : Len(s) <= i
  <2>1. Len(s) \in Ends
    BY <1>1, <1>2, <1>3
  <2>2. ASSUME NEW i \in Ends, i < Len(s) PROVE FALSE
    <3>1. i \in Nat /\ i + 1 \in 1 .. Len(s)
      BY <1>1, <1>2, <2>2
    <3> QED
      BY <1>1, <1>3, <2>2, <3>1
  <2> QED
    BY <1>1, <1>2, <2>1, <2>2
<1>5. steps = Len(s)
  <2>1. Ends \subseteq Nat
    BY <1>2
  <2> HIDE DEF Ends
  <2>2. \E x \in Ends : \A y \in Ends : x <= y
    BY <1>4
  <2>3. steps \in Ends /\ \A y \in Ends : steps <= y
    BY <2>2 DEF Min
  <2> HIDE DEF steps
  <2>4. steps \in Nat /\ steps <= Len(s) /\ Len(s) <= steps
    BY <1>4, <2>1, <2>3
  <2>5. Len(s) \in Nat
    BY <1>1
  <2> QED
    BY <2>4, <2>5
<1>6. List(l) = [i \in 1 .. steps |-> Visited(l, TimerList, i - 1)]
  BY DEF List, Cells
<1> HIDE DEF steps
<1>7. ASSUME NEW i \in 1 .. Len(s) PROVE Visited(l, TimerList, i - 1) = s[i]
  <2>1. i - 1 \in Nat /\ (i - 1) + 1 = i
    BY <1>1
  <2> QED
    BY <1>1, <1>3, <2>1
<1>8. List(l) = [i \in 1 .. Len(s) |-> s[i]]
  BY <1>5, <1>6, <1>7
<1>9. s = [i \in 1 .. Len(s) |-> s[i]]
  BY <1>1
<1> QED
  BY <1>8, <1>9

-----------------------------------------------------------------------------
(* Insertion and removal.                                                  *)

\* t is linked in between the neighbours of position i.
LEMMA BetweenRing ==
    ASSUME TimerAssumption, NEW l \in Links, NEW s \in Queues, Ring(l, s),
           NEW i \in 1 .. Len(s) + 1, NEW t \in Timer, t \notin ToSet(s),
           NEW r \in Queues, Len(r) = Len(s) + 1, ToSet(r) = ToSet(s) \cup {t},
           \A j \in 1 .. Len(s) + 1 : r[j] = IF j < i THEN s[j] ELSE IF j = i THEN t ELSE s[j - 1]
    PROVE  LET m == Between(l, At(s, i - 1), t, At(s, i)) IN m \in Links /\ Ring(m, r)
<1> DEFINE n == Len(s)
           a == At(s, i - 1)
           b == At(s, i)
           m == Between(l, a, t, b)
<1>1. /\ n \in Nat /\ TimerList \notin Timer /\ ToSet(s) \subseteq Timer
      /\ \A x : x \in ToSet(s) <=> \E j \in 1 .. n : s[j] = x
      /\ \A j \in 1 .. n : At(s, j) = s[j] /\ s[j] \in Timer /\ s[j] \in ToSet(s)
      /\ At(s, 0) = TimerList /\ At(s, n + 1) = TimerList
      /\ \A j \in 0 .. n + 1 : At(s, j) \in Cell
  BY AtIs, Constants
<1>2. /\ \A j, k \in 0 .. n : At(s, j) = At(s, k) => j = k
      /\ \A j, k \in 1 .. n + 1 : At(s, j) = At(s, k) => j = k
  BY AtIs
<1>3. /\ a \in Cell /\ b \in Cell /\ t \in Cell /\ i \in Nat /\ i >= 1 /\ i <= n + 1
      /\ i - 1 \in 0 .. n /\ i \in 1 .. n + 1
  BY <1>1 DEF Cell
<1>4. \A j \in 0 .. n + 1 : At(s, j) # t
  <2>1. ASSUME NEW j \in 0 .. n + 1 PROVE At(s, j) # t
    <3>1. j = 0 \/ j = n + 1 \/ j \in 1 .. n
      BY <1>1
    <3> QED
      BY <1>1, <3>1
  <2> QED
    BY <2>1
<1>5. \A j \in 0 .. n + 2 : At(r, j) = IF j < i THEN At(s, j) ELSE IF j = i THEN t ELSE At(s, j - 1)
  <2>1. ASSUME NEW j \in 0 .. n + 2
        PROVE  At(r, j) = IF j < i THEN At(s, j) ELSE IF j = i THEN t ELSE At(s, j - 1)
    <3>1. CASE j \in 1 .. n + 1
      <4>1. At(r, j) = r[j]
        BY <1>1, <3>1 DEF At
      <4>2. j < i => j \in 1 .. n
        BY <1>1, <1>3, <3>1
      <4>3. j > i => j - 1 \in 1 .. n
        BY <1>1, <1>3, <3>1
      <4> QED
        BY <1>1, <1>3, <3>1, <4>1, <4>2, <4>3
    <3>2. CASE j = 0
      <4>1. At(r, j) = TimerList /\ j < i
        BY <1>1, <1>3, <3>2 DEF At
      <4> QED
        BY <1>1, <3>2, <4>1
    <3>3. CASE j = n + 2
      <4>1. At(r, j) = TimerList /\ j > i /\ j - 1 = n + 1
        BY <1>1, <1>3, <3>3 DEF At
      <4> QED
        BY <1>1, <1>3, <3>3, <4>1
    <3> QED
      BY <1>1, <3>1, <3>2, <3>3
  <2> QED
    BY <2>1
<1>6. /\ l.next \in [Cell -> Cell \cup {Null}] /\ l.prev \in [Cell -> Cell \cup {Null}]
      /\ l.linked \in [Cell -> BOOLEAN]
  BY DEF Links
<1> HIDE DEF a, b
<1>7. /\ m.next = [[l.next EXCEPT ![a] = t] EXCEPT ![t] = b]
      /\ m.prev = [[l.prev EXCEPT ![b] = t] EXCEPT ![t] = a]
      /\ m.linked = [l.linked EXCEPT ![t] = TRUE]
  BY DEF Between
<1>8. m = [next |-> m.next, prev |-> m.prev, linked |-> m.linked]
  BY DEF Between
<1> HIDE DEF m
<1>9. a # t /\ b # t
  BY <1>3, <1>4 DEF a, b
<1>10. \A x \in Cell : /\ m.next[x] = IF x = t THEN b ELSE IF x = a THEN t ELSE l.next[x]
                       /\ m.prev[x] = IF x = t THEN a ELSE IF x = b THEN t ELSE l.prev[x]
                       /\ m.linked[x] = IF x = t THEN TRUE ELSE l.linked[x]
  BY <1>3, <1>6, <1>7, <1>9
<1>11. m \in Links
  <2>1. m.next \in [Cell -> Cell \cup {Null}] /\ m.prev \in [Cell -> Cell \cup {Null}]
    BY <1>3, <1>6, <1>7
  <2>2. m.linked \in [Cell -> BOOLEAN]
    BY <1>3, <1>6, <1>7
  <2> QED
    BY <1>8, <2>1, <2>2 DEF Links
<1>12. ASSUME NEW j \in 0 .. n + 1
       PROVE  m.next[At(r, j)] = At(r, j + 1) /\ m.prev[At(r, j + 1)] = At(r, j)
  <2>0. j \in 0 .. n + 2 /\ j + 1 \in 0 .. n + 2 /\ j \in Nat
    BY <1>1
  <2>1. ASSUME NEW k \in 0 .. n, k # i - 1
        PROVE  /\ l.next[At(s, k)] = At(s, k + 1) /\ l.prev[At(s, k + 1)] = At(s, k)
               /\ m.next[At(s, k)] = At(s, k + 1) /\ m.prev[At(s, k + 1)] = At(s, k)
    <3>1. k + 1 \in 1 .. n + 1 /\ k + 1 # i /\ k \in 0 .. n + 1 /\ k + 1 \in 0 .. n + 1
      BY <1>1, <1>3, <2>1
    <3>2. n # 0
      BY <1>1, <1>3, <2>1
    <3>3. l.next[At(s, k)] = At(s, k + 1) /\ l.prev[At(s, k + 1)] = At(s, k)
      <4>1. s # <<>>
        BY <3>2
      <4> QED
        BY <4>1 DEF Ring
    <3>4. At(s, k) # a /\ At(s, k + 1) # b
      BY <1>2, <1>3, <2>1, <3>1 DEF a, b
    <3>5. At(s, k) \in Cell /\ At(s, k + 1) \in Cell /\ At(s, k) # t /\ At(s, k + 1) # t
      BY <1>1, <1>4, <3>1
    <3> QED
      BY <1>10, <3>3, <3>4, <3>5
  <2>2. CASE j < i - 1
    <3>1. j \in 0 .. n /\ j # i - 1 /\ j < i /\ j + 1 < i
      BY <1>1, <1>3, <2>0, <2>2
    <3>2. At(r, j) = At(s, j) /\ At(r, j + 1) = At(s, j + 1)
      BY <1>5, <2>0, <3>1
    <3> QED
      BY <2>1, <3>1, <3>2
  <2>3. CASE j = i - 1
    <3>1. At(r, j) = a /\ At(r, j + 1) = t
      BY <1>3, <1>5, <2>0, <2>3 DEF a
    <3> QED
      BY <1>3, <1>9, <1>10, <3>1
  <2>4. CASE j = i
    <3>1. At(r, j) = t /\ At(r, j + 1) = b
      BY <1>3, <1>5, <2>0, <2>4 DEF b
    <3> QED
      BY <1>3, <1>9, <1>10, <3>1
  <2>5. CASE j > i
    <3>1. /\ j - 1 \in 0 .. n /\ j - 1 # i - 1 /\ ~(j < i) /\ j # i /\ ~(j + 1 < i) /\ j + 1 # i
          /\ (j + 1) - 1 = j /\ (j - 1) + 1 = j
      BY <1>1, <1>3, <2>0, <2>5
    <3>2. At(r, j) = At(s, j - 1) /\ At(r, j + 1) = At(s, j)
      BY <1>5, <2>0, <3>1
    <3>3. m.next[At(s, j - 1)] = At(s, j) /\ m.prev[At(s, j)] = At(s, j - 1)
      BY <2>1, <3>1
    <3> QED
      BY <3>2, <3>3
  <2> QED
    BY <1>3, <2>0, <2>2, <2>3, <2>4, <2>5
<1>13. ASSUME NEW x \in Timer \ ToSet(r) PROVE m.next[x] = Null /\ m.prev[x] = Null
  <2>1. x \in Cell /\ x # t /\ x \notin ToSet(s)
    BY <1>13 DEF Cell
  <2>2. l.next[x] = Null /\ l.prev[x] = Null
    BY <1>13, <2>1 DEF Ring
  <2>3. \A j \in 0 .. n + 1 : At(s, j) # x
    <3>1. ASSUME NEW j \in 0 .. n + 1 PROVE At(s, j) # x
      <4>1. j = 0 \/ j = n + 1 \/ j \in 1 .. n
        BY <1>1
      <4> QED
        BY <1>1, <1>13, <2>1, <4>1
    <3> QED
      BY <3>1
  <2>4. x # a /\ x # b
    BY <1>1, <1>3, <2>3 DEF a, b
  <2> QED
    BY <1>10, <2>1, <2>2, <2>4
<1>14. ASSUME NEW x \in Cell PROVE m.linked[x] <=> x \in ToSet(r)
  <2>1. l.linked[x] <=> x \in ToSet(s)
    BY DEF Ring
  <2>2. CASE x = t
    BY <1>10, <2>2
  <2>3. CASE x # t
    BY <1>10, <2>1, <2>3
  <2> QED
    BY <2>2, <2>3
<1>15. r # <<>>
  BY <1>1
<1>16. Ring(m, r)
  BY <1>12, <1>13, <1>14, <1>15 DEF Ring
<1> QED
  BY <1>11, <1>16 DEF m, a, b

\* t, at position k, is taken out.
LEMMA RemoveRing ==
    ASSUME TimerAssumption, NEW l \in Links, NEW s \in Queues, Ring(l, s),
           NEW k \in 1 .. Len(s), NEW t, t = s[k],
           NEW r \in Queues, Len(r) = Len(s) - 1, ToSet(r) = ToSet(s) \ {t},
           \A j \in 1 .. Len(s) - 1 : r[j] = IF j < k THEN s[j] ELSE s[j + 1]
    PROVE  RemoveNode(l, t) \in Links /\ Ring(RemoveNode(l, t), r)
<1> DEFINE n == Len(s)
           a == At(s, k - 1)
           b == At(s, k + 1)
           m == RemoveNode(l, t)
<1>1. /\ n \in Nat /\ TimerList \notin Timer /\ ToSet(s) \subseteq Timer
      /\ \A x : x \in ToSet(s) <=> \E j \in 1 .. n : s[j] = x
      /\ \A j \in 1 .. n : At(s, j) = s[j] /\ s[j] \in Timer /\ s[j] \in ToSet(s)
      /\ At(s, 0) = TimerList /\ At(s, n + 1) = TimerList
      /\ \A j \in 0 .. n + 1 : At(s, j) \in Cell
  BY AtIs, Constants
<1>2. /\ \A j, i \in 0 .. n : At(s, j) = At(s, i) => j = i
      /\ \A j, i \in 1 .. n + 1 : At(s, j) = At(s, i) => j = i
  BY AtIs
<1>3. /\ k \in Nat /\ k >= 1 /\ k <= n /\ k - 1 \in 0 .. n /\ k \in 0 .. n + 1 /\ k + 1 \in 1 .. n + 1
      /\ (k - 1) + 1 = k /\ k \in 0 .. n /\ k \in 1 .. n + 1 /\ k - 1 \in 0 .. n + 1 /\ k + 1 \in 0 .. n + 1
  BY <1>1
<1>4. At(s, k) = t /\ t \in Timer /\ t \in Cell /\ t \in ToSet(s) /\ a \in Cell /\ b \in Cell
  BY <1>1, <1>3 DEF Cell
<1>5. a # t /\ b # t
  <2>1. a # At(s, k)
    BY <1>2, <1>3
  <2>2. b # At(s, k)
    BY <1>2, <1>3
  <2> QED
    BY <1>4, <2>1, <2>2
<1>6. \A j \in 0 .. n : l.next[At(s, j)] = At(s, j + 1) /\ l.prev[At(s, j + 1)] = At(s, j)
  <2>1. s # <<>>
    BY <1>1, <1>3
  <2> QED
    BY <2>1 DEF Ring
<1>7. l.prev[t] = a /\ l.next[t] = b /\ l.linked[t]
  <2>1. l.next[At(s, k)] = At(s, k + 1) /\ l.prev[At(s, (k - 1) + 1)] = At(s, k - 1)
    BY <1>3, <1>6
  <2>2. l.linked[t]
    BY <1>4 DEF Ring
  <2> QED
    BY <1>3, <1>4, <2>1, <2>2
<1>8. a = b <=> n = 1
  <2>1. CASE n = 1
    <3>1. k - 1 = 0 /\ k + 1 = n + 1
      BY <1>3, <2>1
    <3> QED
      BY <1>1, <2>1, <3>1
  <2>2. CASE n # 1 /\ k + 1 = n + 1
    <3>1. k - 1 \in 1 .. n
      BY <1>1, <1>3, <2>2
    <3>2. a \in Timer /\ b = TimerList
      BY <1>1, <2>2, <3>1
    <3> QED
      BY <1>1, <2>2, <3>2
  <2>3. CASE n # 1 /\ k + 1 # n + 1
    <3>1. k + 1 \in 0 .. n /\ k + 1 # k - 1
      BY <1>1, <1>3, <2>3
    <3> QED
      BY <1>2, <1>3, <2>3, <3>1
  <2> QED
    BY <2>1, <2>2, <2>3
<1>9. \A j \in 0 .. n : At(r, j) = IF j < k THEN At(s, j) ELSE At(s, j + 1)
  <2>1. ASSUME NEW j \in 0 .. n PROVE At(r, j) = IF j < k THEN At(s, j) ELSE At(s, j + 1)
    <3>1. CASE j \in 1 .. n - 1
      <4>1. At(r, j) = r[j] /\ j \in 1 .. n /\ j + 1 \in 1 .. n
        BY <1>1, <3>1 DEF At
      <4> QED
        BY <1>1, <3>1, <4>1
    <3>2. CASE j = 0
      <4>1. At(r, j) = TimerList /\ j < k
        BY <1>1, <1>3, <3>2 DEF At
      <4> QED
        BY <1>1, <3>2, <4>1
    <3>3. CASE j = n
      <4>1. At(r, j) = TimerList /\ ~(j < k)
        BY <1>1, <1>3, <3>3 DEF At
      <4> QED
        BY <1>1, <3>3, <4>1
    <3> QED
      BY <1>1, <3>1, <3>2, <3>3
  <2> QED
    BY <2>1
<1>10. /\ l.next \in [Cell -> Cell \cup {Null}] /\ l.prev \in [Cell -> Cell \cup {Null}]
       /\ l.linked \in [Cell -> BOOLEAN]
  BY DEF Links
<1> HIDE DEF a, b
<1>11. m = [next   |-> [[l.next EXCEPT ![a] = IF a = b THEN Null ELSE b] EXCEPT ![t] = Null],
            prev   |-> [[l.prev EXCEPT ![b] = IF a = b THEN Null ELSE a] EXCEPT ![t] = Null],
            linked |-> [l.linked EXCEPT ![t] = FALSE]]
  BY <1>7 DEF RemoveNode
<1> HIDE DEF m
<1>12. \A x \in Cell :
         /\ m.next[x] = IF x = t THEN Null ELSE IF x = a THEN (IF a = b THEN Null ELSE b) ELSE l.next[x]
         /\ m.prev[x] = IF x = t THEN Null ELSE IF x = b THEN (IF a = b THEN Null ELSE a) ELSE l.prev[x]
         /\ m.linked[x] = IF x = t THEN FALSE ELSE l.linked[x]
  BY <1>4, <1>5, <1>10, <1>11
<1>13. m \in Links
  <2>1. /\ [[l.next EXCEPT ![a] = IF a = b THEN Null ELSE b] EXCEPT ![t] = Null] \in [Cell -> Cell \cup {Null}]
        /\ [[l.prev EXCEPT ![b] = IF a = b THEN Null ELSE a] EXCEPT ![t] = Null] \in [Cell -> Cell \cup {Null}]
    BY <1>4, <1>10
  <2>2. [l.linked EXCEPT ![t] = FALSE] \in [Cell -> BOOLEAN]
    BY <1>4, <1>10
  <2> QED
    BY <1>11, <2>1, <2>2 DEF Links
<1>14. ASSUME r # <<>>, NEW j \in 0 .. Len(r)
       PROVE  m.next[At(r, j)] = At(r, j + 1) /\ m.prev[At(r, j + 1)] = At(r, j)
  <2>0. n # 1 /\ a # b /\ Len(r) = n - 1 /\ j \in 0 .. n /\ j + 1 \in 0 .. n /\ j \in Nat
    <3>1. Len(r) \in Nat /\ Len(r) # 0
      BY <1>14 DEF Queues
    <3> QED
      BY <1>1, <1>8, <3>1
  <2>1. CASE j < k - 1
    <3>1. /\ j # k - 1 /\ j # k /\ j + 1 # k + 1 /\ j + 1 # k /\ j < k /\ j + 1 < k /\ j + 1 \in 1 .. n + 1
          /\ j + 1 \in 0 .. n + 1 /\ j \in 0 .. n + 1
      BY <1>1, <1>3, <2>0, <2>1
    <3>2. At(r, j) = At(s, j) /\ At(r, j + 1) = At(s, j + 1)
      BY <1>9, <2>0, <3>1
    <3>3. At(s, j) # a /\ At(s, j) # t /\ At(s, j + 1) # b /\ At(s, j + 1) # t
      BY <1>2, <1>3, <1>4, <2>0, <3>1 DEF a, b
    <3>4. At(s, j) \in Cell /\ At(s, j + 1) \in Cell
      BY <1>1, <3>1
    <3>5. l.next[At(s, j)] = At(s, j + 1) /\ l.prev[At(s, j + 1)] = At(s, j)
      BY <1>6, <2>0
    <3> QED
      BY <1>12, <3>2, <3>3, <3>4, <3>5
  <2>2. CASE j = k - 1
    <3>1. j < k /\ ~(j + 1 < k) /\ (j + 1) + 1 = k + 1
      BY <1>3, <2>2
    <3>2. At(r, j) = a /\ At(r, j + 1) = b
      BY <1>9, <2>0, <2>2, <3>1 DEF a, b
    <3> QED
      BY <1>4, <1>5, <1>12, <2>0, <3>2
  <2>3. CASE j > k - 1
    <3>1. /\ ~(j < k) /\ ~(j + 1 < k) /\ j + 1 # k - 1 /\ j + 1 # k /\ (j + 1) + 1 # k + 1 /\ (j + 1) + 1 # k
          /\ (j + 1) + 1 \in 1 .. n + 1 /\ (j + 1) + 1 \in 0 .. n + 1 /\ j + 1 \in 0 .. n + 1
      BY <1>1, <1>3, <2>0, <2>3
    <3>2. At(r, j) = At(s, j + 1) /\ At(r, j + 1) = At(s, (j + 1) + 1)
      BY <1>9, <2>0, <3>1
    <3>3. At(s, j + 1) # a /\ At(s, j + 1) # t /\ At(s, (j + 1) + 1) # b /\ At(s, (j + 1) + 1) # t
      BY <1>2, <1>3, <1>4, <2>0, <3>1 DEF a, b
    <3>4. At(s, j + 1) \in Cell /\ At(s, (j + 1) + 1) \in Cell
      BY <1>1, <3>1
    <3>5. /\ l.next[At(s, j + 1)] = At(s, (j + 1) + 1)
          /\ l.prev[At(s, (j + 1) + 1)] = At(s, j + 1)
      BY <1>6, <2>0
    <3> QED
      BY <1>12, <3>2, <3>3, <3>4, <3>5
  <2> QED
    BY <1>3, <2>0, <2>1, <2>2, <2>3
<1>15. ASSUME r = <<>> PROVE m.next[TimerList] = Null /\ m.prev[TimerList] = Null
  <2>1. n = 1
    <3>1. Len(r) = 0
      BY <1>15
    <3> QED
      BY <1>1, <3>1
  <2>2. a = TimerList /\ b = TimerList
    <3>1. k - 1 = 0 /\ k + 1 = n + 1
      BY <1>3, <2>1
    <3> QED
      BY <1>1, <3>1 DEF a, b
  <2>3. TimerList \in Cell /\ TimerList # t
    BY <1>1, <1>4 DEF Cell
  <2> QED
    BY <1>12, <2>2, <2>3
<1>16. ASSUME NEW x \in Timer \ ToSet(r) PROVE m.next[x] = Null /\ m.prev[x] = Null
  <2>1. x \in Cell
    BY DEF Cell
  <2>2. CASE x = t
    BY <1>12, <2>1, <2>2
  <2>3. CASE x # t
    <3>1. x \notin ToSet(s) /\ l.next[x] = Null /\ l.prev[x] = Null
      BY <1>16, <2>3 DEF Ring
    <3>2. ASSUME NEW j \in 0 .. n + 1 PROVE At(s, j) # x
      <4>0. n \in Nat
        BY <1>1
      <4>1. j = 0 \/ j = n + 1 \/ j \in 1 .. n
        BY <4>0
      <4> QED
        BY <1>1, <1>16, <3>1, <4>1
    <3>3. x # a /\ x # b
      BY <1>3, <3>2 DEF a, b
    <3> QED
      BY <1>12, <2>1, <2>3, <3>1, <3>3
  <2> QED
    BY <2>2, <2>3
<1>17. ASSUME NEW x \in Cell PROVE m.linked[x] <=> x \in ToSet(r)
  <2>1. l.linked[x] <=> x \in ToSet(s)
    BY DEF Ring
  <2>2. CASE x = t
    BY <1>12, <2>2
  <2>3. CASE x # t
    BY <1>12, <2>1, <2>3
  <2> QED
    BY <2>2, <2>3
<1>18. Ring(m, r)
  BY <1>14, <1>15, <1>16, <1>17 DEF Ring
<1> QED
  BY <1>13, <1>18 DEF m

-----------------------------------------------------------------------------
(* Timers leave the list and join it.                                      *)

LEMMA EarlierAppended ==
    ASSUME NEW q \in Seq(Timer), NEW x \in Timer
    PROVE  /\ \A a, b : Earlier(q, a, b) => Earlier(Append(q, x), a, b)
           /\ \A a \in ToSet(q) : Earlier(Append(q, x), a, x)
<1> DEFINE r == Append(q, x)
<1>1. /\ Len(q) \in Nat /\ DOMAIN q = 1 .. Len(q) /\ DOMAIN r = 1 .. Len(q) + 1
      /\ \A i \in 1 .. Len(q) : r[i] = q[i]
      /\ r[Len(q) + 1] = x
  OBVIOUS
<1> HIDE DEF r
<1>2. ASSUME NEW a, NEW b, Earlier(q, a, b) PROVE Earlier(r, a, b)
  <2>1. PICK m, n \in DOMAIN q : q[m] = a /\ q[n] = b /\ m < n
    BY <1>2 DEF Earlier
  <2>2. m \in DOMAIN r /\ n \in DOMAIN r /\ r[m] = a /\ r[n] = b
    BY <1>1, <2>1
  <2> QED
    BY <2>1, <2>2 DEF Earlier
<1>3. ASSUME NEW a \in ToSet(q) PROVE Earlier(r, a, x)
  <2>1. PICK m \in DOMAIN q : q[m] = a
    BY DEF ToSet
  <2>2. /\ m \in DOMAIN r /\ r[m] = a /\ Len(q) + 1 \in DOMAIN r /\ r[Len(q) + 1] = x
        /\ m < Len(q) + 1
    BY <1>1, <2>1
  <2> QED
    BY <2>2 DEF Earlier
<1> QED
  BY <1>2, <1>3 DEF r

LEMMA EarlierRemoved ==
    ASSUME NEW q \in Seq(Timer), NEW x, NEW a, NEW b, Earlier(q, a, b), a # x, b # x
    PROVE  Earlier(RemoveFirst(q, x), a, b)
<1>1. Len(q) \in Nat /\ DOMAIN q = 1 .. Len(q)
  OBVIOUS
<1>2. PICK m, n \in 1 .. Len(q) : q[m] = a /\ q[n] = b /\ m < n
  BY <1>1 DEF Earlier
<1>3. CASE x \notin ToSet(q)
  <2>1. RemoveFirst(q, x) = q
    BY <1>1, <1>3 DEF RemoveFirst, ToSet
  <2> QED
    BY <2>1
<1>4. CASE x \in ToSet(q)
  <2> DEFINE r == RemoveFirst(q, x)
  <2>1. PICK k \in 1 .. Len(q) :
          /\ q[k] = x
          /\ r \in Seq(Timer) /\ Len(r) = Len(q) - 1 /\ DOMAIN r = 1 .. Len(q) - 1
          /\ \A i \in 1 .. Len(q) - 1 : r[i] = IF i < k THEN q[i] ELSE q[i + 1]
    BY <1>4, RemoveShifts
  <2> HIDE DEF r
  <2>2. ASSUME NEW i \in 1 .. Len(q), q[i] # x
        PROVE  LET j == IF i < k THEN i ELSE i - 1 IN j \in DOMAIN r /\ r[j] = q[i]
    <3>1. i # k
      BY <2>1, <2>2
    <3>2. CASE i < k
      BY <1>1, <2>1, <3>2
    <3>3. CASE i > k
      <4>1. i - 1 \in 1 .. Len(q) - 1 /\ ~(i - 1 < k) /\ (i - 1) + 1 = i /\ ~(i < k)
        BY <1>1, <3>3
      <4> QED
        BY <2>1, <4>1
    <3> QED
      BY <1>1, <3>1, <3>2, <3>3
  <2> DEFINE mm == IF m < k THEN m ELSE m - 1
             nn == IF n < k THEN n ELSE n - 1
  <2>3. mm \in DOMAIN r /\ r[mm] = a /\ nn \in DOMAIN r /\ r[nn] = b
    BY <1>2, <2>2
  <2>4. mm < nn
    <3>1. m # k /\ n # k
      BY <1>2, <2>1
    <3> QED
      BY <1>1, <1>2, <3>1
  <2> QED
    BY <2>3, <2>4 DEF Earlier, r
<1> QED
  BY <1>3, <1>4

LEMMA OffList ==
    ASSUME TimerAssumption, NEW l, NEW s, NEW q, NEW dl, NEW now, NEW low,
           Armed(l, s, q, dl, now, low), NEW t \in Timer
    PROVE  \E r \in Queues : /\ Armed(RemoveNode(l, t), r, RemoveFirst(q, t), dl, now, low)
                             /\ ToSet(r) = ToSet(s) \ {t}
<1> DEFINE r == RemoveFirst(s, t)
           p == RemoveFirst(q, t)
           m == RemoveNode(l, t)
<1>1. /\ l \in Links /\ s \in Queues /\ Ring(l, s) /\ q \in Queues /\ ToSet(q) = ToSet(s)
      /\ dl \in [Timer -> Ticks] /\ now \in Ticks
      /\ \A u \in ToSet(s) : Minus(dl[u], now) \in low .. MaxTimerTicks
      /\ InTurn(s, q, dl, now)
  BY DEF Armed
<1>2. /\ s \in Seq(Timer) /\ IsInjective(s) /\ q \in Seq(Timer) /\ IsInjective(q)
      /\ Len(s) \in Nat /\ DOMAIN s = 1 .. Len(s)
  BY <1>1 DEF Queues
<1>3. /\ r \in Queues /\ ToSet(r) = ToSet(s) \ {t} /\ p \in Queues /\ ToSet(p) = ToSet(s) \ {t}
  BY <1>1, <1>2, RemoveQueue DEF Queues
<1>4. CASE t \notin ToSet(s)
  <2>1. r = s
    BY <1>2, <1>4 DEF RemoveFirst, ToSet
  <2>2. p = q
    <3>1. t \notin ToSet(q) /\ DOMAIN q = 1 .. Len(q)
      BY <1>1, <1>2, <1>4
    <3>2. ~ \E i \in 1 .. Len(q) : q[i] = t
      BY <3>1 DEF ToSet
    <3> QED
      BY <3>2 DEF RemoveFirst
  <2>3. m = l
    <3>1. ~ l.linked[t]
      BY <1>1, <1>4 DEF Ring, Cell
    <3> QED
      BY <3>1 DEF RemoveNode
  <2> QED
    BY <1>3, <2>1, <2>2, <2>3
<1>5. CASE t \in ToSet(s)
  <2>0. s \in Seq(Timer)
    BY <1>2
  <2>1. PICK k \in 1 .. Len(s) :
          /\ s[k] = t
          /\ r \in Seq(Timer) /\ Len(r) = Len(s) - 1 /\ DOMAIN r = 1 .. Len(s) - 1
          /\ \A i \in 1 .. Len(s) - 1 : r[i] = IF i < k THEN s[i] ELSE s[i + 1]
    BY <1>5, <2>0, RemoveShifts
  <2>2. m \in Links /\ Ring(m, r)
    BY <1>1, <1>3, <2>1, RemoveRing
  <2> HIDE DEF r, p, m
  <2>3. ASSUME NEW i \in 1 .. Len(r), NEW j \in 1 .. Len(r), i < j
        PROVE  \/ Minus(dl[r[i]], now) < Minus(dl[r[j]], now)
               \/ Minus(dl[r[i]], now) = Minus(dl[r[j]], now) /\ Earlier(p, r[i], r[j])
    <3>1. PICK v, w \in 1 .. Len(s) : v < w /\ r[i] = s[v] /\ r[j] = s[w]
      <4> DEFINE v == IF i < k THEN i ELSE i + 1
                 w == IF j < k THEN j ELSE j + 1
      <4>1. v \in 1 .. Len(s) /\ w \in 1 .. Len(s) /\ v < w
        BY <1>2, <2>1, <2>3
      <4>2. r[i] = s[v] /\ r[j] = s[w]
        BY <1>2, <2>1
      <4> QED
        BY <4>1, <4>2
    <3>2. \/ Minus(dl[r[i]], now) < Minus(dl[r[j]], now)
          \/ Minus(dl[r[i]], now) = Minus(dl[r[j]], now) /\ Earlier(q, r[i], r[j])
      BY <1>1, <3>1 DEF InTurn
    <3>3. r[i] # t /\ r[j] # t
      <4>1. r[i] \in ToSet(r) /\ r[j] \in ToSet(r)
        BY <2>1 DEF ToSet
      <4> QED
        BY <1>3, <4>1
    <3>4. Earlier(q, r[i], r[j]) => Earlier(p, r[i], r[j])
      BY <1>2, <3>3, EarlierRemoved DEF p
    <3> QED
      BY <3>2, <3>4
  <2>4. InTurn(r, p, dl, now)
    BY <2>3 DEF InTurn
  <2>5. \A u \in ToSet(r) : Minus(dl[u], now) \in low .. MaxTimerTicks
    BY <1>1, <1>3
  <2>6. Armed(m, r, p, dl, now, low)
    BY <1>1, <1>3, <2>2, <2>4, <2>5 DEF Armed
  <2> QED
    BY <1>3, <2>6 DEF m, p
<1> QED
  BY <1>4, <1>5

\* The deadline of a timer that is not on the list is nobody's concern.
LEMMA OffListAny ==
    ASSUME NEW l, NEW s, NEW q, NEW dl, NEW now, NEW low, Armed(l, s, q, dl, now, low),
           NEW t \in Timer, t \notin ToSet(s), NEW d \in Ticks
    PROVE  Armed(l, s, q, [dl EXCEPT ![t] = d], now, low)
<1> DEFINE e == [dl EXCEPT ![t] = d]
<1>1. dl \in [Timer -> Ticks] /\ s \in Seq(Timer)
  BY DEF Armed, Queues
<1>2. e \in [Timer -> Ticks] /\ \A u \in Timer : u # t => e[u] = dl[u]
  BY <1>1
<1> HIDE DEF e
<1>3. \A u \in ToSet(s) : u \in Timer /\ u # t
  BY <1>1 DEF ToSet
<1>4. \A i \in 1 .. Len(s) : s[i] \in ToSet(s)
  BY <1>1 DEF ToSet
<1>5. \A u \in ToSet(s) : Minus(e[u], now) \in low .. MaxTimerTicks
  BY <1>2, <1>3 DEF Armed
<1>6. \A i \in 1 .. Len(s) : e[s[i]] = dl[s[i]]
  BY <1>2, <1>3, <1>4
<1>7. InTurn(s, q, e, now)
  BY <1>6 DEF Armed, InTurn
<1> QED
  BY <1>2, <1>5, <1>7 DEF Armed, e

\* Where insert_sorted puts t: behind all that are due before it or with it.
LEMMA InsertSortedIs ==
    ASSUME TimerAssumption, NEW l \in Links, NEW s \in Queues, Ring(l, s), NEW dl, NEW t \in Timer,
           t \notin ToSet(s)
    PROVE  \E p \in 1 .. Len(s) + 1 :
             /\ \A j \in 1 .. Len(s) : j < p => ~ Negative(Minus(dl[t], dl[s[j]]))
             /\ p <= Len(s) => Negative(Minus(dl[t], dl[s[p]]))
             /\ InsertSorted(l, dl, t) = Between(l, At(s, p - 1), t, At(s, p))
<1>1. /\ s \in Seq(Timer) /\ Len(s) \in Nat /\ TimerList \notin Timer
      /\ Null \notin Timer /\ Null # TimerList
      /\ \A j \in 1 .. Len(s) : At(s, j) = s[j] /\ s[j] \in Timer
      /\ At(s, 0) = TimerList /\ At(s, Len(s) + 1) = TimerList
  BY AtIs, Constants
<1>2. List(l) = s
  BY ListIs
<1>3. \A j \in 0 .. Len(s) : s # <<>> => l.prev[At(s, j + 1)] = At(s, j)
  BY DEF Ring
<1> DEFINE I == {j \in 1 .. Len(s) : Negative(Minus(dl[t], dl[s[j]]))}
           i == IF I # {} THEN Min(I) ELSE 0
<1>4. InsertSorted(l, dl, t) = IF i = 0 THEN PushBack(l, TimerList, t) ELSE InsertBefore(l, s[i], t)
  BY <1>2 DEF InsertSorted, SelectInSeq
<1>5. CASE I = {}
  <2>1. InsertSorted(l, dl, t) = PushBack(l, TimerList, t)
    BY <1>4, <1>5
  <2>2. (IF l.prev[TimerList] = Null THEN TimerList ELSE l.prev[TimerList]) = At(s, Len(s))
    <3>1. CASE s = <<>>
      <4>1. Len(s) = 0 /\ l.prev[TimerList] = Null
        BY <3>1 DEF Ring
      <4> QED
        BY <1>1, <4>1
    <3>2. CASE s # <<>>
      <4>1. Len(s) \in 0 .. Len(s) /\ Len(s) \in 1 .. Len(s)
        BY <1>1, <3>2
      <4>2. l.prev[TimerList] = At(s, Len(s)) /\ At(s, Len(s)) # Null
        BY <1>1, <1>3, <3>2, <4>1
      <4> QED
        BY <4>2
    <3> QED
      BY <3>1, <3>2
  <2>3. PushBack(l, TimerList, t) = Between(l, At(s, Len(s)), t, TimerList)
    BY <2>2 DEF PushBack
  <2>4. /\ Len(s) + 1 \in 1 .. Len(s) + 1 /\ (Len(s) + 1) - 1 = Len(s) /\ ~(Len(s) + 1 <= Len(s))
        /\ InsertSorted(l, dl, t) = Between(l, At(s, (Len(s) + 1) - 1), t, At(s, Len(s) + 1))
    BY <1>1, <2>1, <2>3
  <2>5. \A j \in 1 .. Len(s) : ~ Negative(Minus(dl[t], dl[s[j]]))
    BY <1>5
  <2> QED
    BY <2>4, <2>5
<1>6. CASE I # {}
  <2>1. I \in SUBSET Nat
    OBVIOUS
  <2>2. /\ i \in I /\ \A n \in I : i <= n
    <3> HIDE DEF I
    <3>1. \E m \in I : \A n \in I : m <= n
      BY <1>6, <2>1, LeastElement
    <3> QED
      BY <1>6, <3>1 DEF Min
  <2>3. i \in 1 .. Len(s) /\ Negative(Minus(dl[t], dl[s[i]]))
    <3> HIDE DEF i
    <3> QED
      BY <2>2
  <2>4. ASSUME NEW j \in 1 .. Len(s), j < i PROVE ~ Negative(Minus(dl[t], dl[s[j]]))
    <3> HIDE DEF i
    <3>1. j \notin I
      BY <1>1, <2>2, <2>3, <2>4
    <3> QED
      BY <3>1
  <2> HIDE DEF I, i
  <2>5. i \in 1 .. Len(s) + 1 /\ i - 1 \in 0 .. Len(s) /\ (i - 1) + 1 = i /\ i # 0 /\ s # <<>>
    BY <1>1, <2>3
  <2>6. l.prev[s[i]] = At(s, i - 1) /\ At(s, i) = s[i]
    <3>1. l.prev[At(s, (i - 1) + 1)] = At(s, i - 1)
      BY <1>3, <2>5
    <3> QED
      BY <1>1, <2>3, <2>5, <3>1
  <2>7. InsertSorted(l, dl, t) = Between(l, At(s, i - 1), t, At(s, i))
    BY <1>4, <2>5, <2>6 DEF InsertBefore
  <2> QED
    BY <2>3, <2>4, <2>5, <2>7
<1> QED
  BY <1>5, <1>6

\* A sequence with t at position p.
LEMMA InsertedAt ==
    ASSUME NEW s \in Queues, NEW p \in 1 .. Len(s) + 1, NEW t \in Timer, t \notin ToSet(s)
    PROVE  \E r \in Queues :
             /\ Len(r) = Len(s) + 1 /\ ToSet(r) = ToSet(s) \cup {t}
             /\ \A j \in 1 .. Len(s) + 1 : r[j] = IF j < p THEN s[j] ELSE IF j = p THEN t ELSE s[j - 1]
<1>1. s \in Seq(Timer) /\ IsInjective(s) /\ Len(s) \in Nat
  BY DEF Queues
<1>2. CASE p = Len(s) + 1
  <2> DEFINE r == Append(s, t)
  <2>1. r \in Queues /\ ToSet(r) = ToSet(s) \cup {t}
    BY <1>1, AppendQueue DEF Queues
  <2>2. /\ Len(r) = Len(s) + 1 /\ r[Len(s) + 1] = t
        /\ \A j \in 1 .. Len(s) : r[j] = s[j]
    BY <1>1
  <2> HIDE DEF r
  <2>3. \A j \in 1 .. Len(s) + 1 : r[j] = IF j < p THEN s[j] ELSE IF j = p THEN t ELSE s[j - 1]
    BY <1>1, <1>2, <2>2
  <2> QED
    BY <2>1, <2>2, <2>3
<1>3. CASE p # Len(s) + 1
  <2>1. p \in 1 .. Len(s)
    BY <1>1, <1>3
  <2> DEFINE r == InsertAt(s, p, t)
  <2>2. r \in Queues /\ ToSet(r) = ToSet(s) \cup {t}
    BY <1>1, <2>1, InsertShifts, InsertQueue DEF Queues
  <2>3. /\ Len(r) = Len(s) + 1
        /\ \A j \in 1 .. Len(s) + 1 : r[j] = IF j < p THEN s[j] ELSE IF j = p THEN t ELSE s[j - 1]
    BY <1>1, <2>1, InsertShifts
  <2> HIDE DEF r
  <2> QED
    BY <2>2, <2>3
<1> QED
  BY <1>2, <1>3

LEMMA OnList ==
    ASSUME TimerAssumption, NEW l, NEW s, NEW q, NEW dl, NEW now, NEW low \in {0, 1},
           Armed(l, s, q, dl, now, low), NEW t \in Timer, t \notin ToSet(s),
           Minus(dl[t], now) \in low .. MaxTimerTicks
    PROVE  \E r \in Queues : /\ Armed(InsertSorted(l, dl, t), r, Append(q, t), dl, now, low)
                             /\ ToSet(r) = ToSet(s) \cup {t}
<1>1. /\ l \in Links /\ s \in Queues /\ Ring(l, s) /\ q \in Queues /\ ToSet(q) = ToSet(s)
      /\ dl \in [Timer -> Ticks] /\ now \in Ticks
      /\ \A u \in ToSet(s) : Minus(dl[u], now) \in low .. MaxTimerTicks
      /\ InTurn(s, q, dl, now)
  BY DEF Armed
<1>2. /\ s \in Seq(Timer) /\ Len(s) \in Nat /\ q \in Seq(Timer) /\ IsInjective(q)
      /\ \A j \in 1 .. Len(s) : s[j] \in ToSet(s) /\ s[j] \in Timer
      /\ MaxTimerTicks \in Nat
  <2>1. q \in Seq(Timer) /\ IsInjective(q)
    BY <1>1 DEF Queues
  <2> QED
    BY <1>1, <2>1, AtIs, Constants
<1>3. PICK p \in 1 .. Len(s) + 1 :
        /\ \A j \in 1 .. Len(s) : j < p => ~ Negative(Minus(dl[t], dl[s[j]]))
        /\ p <= Len(s) => Negative(Minus(dl[t], dl[s[p]]))
        /\ InsertSorted(l, dl, t) = Between(l, At(s, p - 1), t, At(s, p))
  BY <1>1, InsertSortedIs
<1>4. PICK r \in Queues :
        /\ Len(r) = Len(s) + 1 /\ ToSet(r) = ToSet(s) \cup {t}
        /\ \A j \in 1 .. Len(s) + 1 : r[j] = IF j < p THEN s[j] ELSE IF j = p THEN t ELSE s[j - 1]
  BY <1>1, InsertedAt
<1> DEFINE m == InsertSorted(l, dl, t)
           e == Append(q, t)
           Late(u) == Minus(dl[u], now)
<1>5. m \in Links /\ Ring(m, r)
  BY <1>1, <1>3, <1>4, BetweenRing
<1>6. e \in Queues /\ ToSet(e) = ToSet(r)
  BY <1>1, <1>2, <1>4, AppendQueue DEF Queues
<1>7. /\ \A u, v : Earlier(q, u, v) => Earlier(e, u, v)
      /\ \A u \in ToSet(s) : Earlier(e, u, t)
  BY <1>1, <1>2, EarlierAppended
<1>8. \A j \in 1 .. Len(s) : Negative(Minus(dl[t], dl[s[j]])) <=> Late(t) < Late(s[j])
  <2>1. ASSUME NEW j \in 1 .. Len(s) PROVE Negative(Minus(dl[t], dl[s[j]])) <=> Late(t) < Late(s[j])
    <3>1. dl[t] \in Ticks /\ dl[s[j]] \in Ticks
      BY <1>1, <1>2
    <3>2. Minus(dl[t], now) \in 0 .. MaxTimerTicks /\ Minus(dl[s[j]], now) \in 0 .. MaxTimerTicks
      BY <1>1, <1>2
    <3> QED
      BY <1>1, <3>1, <3>2, SignTells
  <2> QED
    BY <2>1
<1>9. /\ Late(t) \in low .. MaxTimerTicks /\ Late(t) \in Int
      /\ \A j \in 1 .. Len(s) : Late(s[j]) \in Int
  BY <1>1, <1>2
<1> HIDE DEF m, e, Late
<1>10. ASSUME NEW i \in 1 .. Len(r), NEW j \in 1 .. Len(r), i < j
       PROVE  Late(r[i]) < Late(r[j]) \/ (Late(r[i]) = Late(r[j]) /\ Earlier(e, r[i], r[j]))
  <2>9. /\ i \in 1 .. Len(s) + 1 /\ j \in 1 .. Len(s) + 1 /\ p \in 1 .. Len(s) + 1
        /\ Len(s) \in Nat /\ i < j
    BY <1>2, <1>4, <1>10
  <2>0. /\ r[i] = (IF i < p THEN s[i] ELSE IF i = p THEN t ELSE s[i - 1])
        /\ r[j] = (IF j < p THEN s[j] ELSE IF j = p THEN t ELSE s[j - 1])
    BY <1>4, <2>9
  <2>1. ASSUME NEW v \in 1 .. Len(s), NEW w \in 1 .. Len(s), v < w
        PROVE  Late(s[v]) < Late(s[w]) \/ (Late(s[v]) = Late(s[w]) /\ Earlier(e, s[v], s[w]))
    BY <1>1, <1>7, <2>1 DEF InTurn, Late
  <2>2. CASE i # p /\ j # p
    <3> DEFINE v == IF i < p THEN i ELSE i - 1
               w == IF j < p THEN j ELSE j - 1
    <3>1. v \in 1 .. Len(s) /\ w \in 1 .. Len(s) /\ v < w
      BY <2>9, <2>2
    <3>2. r[i] = s[v] /\ r[j] = s[w]
      BY <2>0, <2>2
    <3> QED
      BY <2>1, <3>1, <3>2
  <2>3. CASE j = p
    <3>0. i \in 1 .. Len(s) /\ i < p /\ ~(j < p)
      BY <2>9, <2>3
    <3>1. i \in 1 .. Len(s) /\ i < p /\ r[i] = s[i] /\ r[j] = t
      BY <2>0, <2>3, <3>0
    <3>2. ~ (Late(t) < Late(s[i]))
      BY <1>3, <1>8, <3>1
    <3>3. Earlier(e, s[i], t)
      BY <1>2, <1>7, <3>1
    <3> QED
      BY <1>9, <3>1, <3>2, <3>3
  <2>4. CASE i = p
    <3>0. j - 1 \in 1 .. Len(s) /\ p \in 1 .. Len(s) /\ p <= j - 1 /\ ~(j < p) /\ j # p /\ ~(i < p)
      BY <2>9, <2>4
    <3>1. j - 1 \in 1 .. Len(s) /\ p \in 1 .. Len(s) /\ p <= j - 1 /\ r[i] = t /\ r[j] = s[j - 1]
      BY <2>0, <2>4, <3>0
    <3>9. Late(t) \in Int /\ Late(s[p]) \in Int /\ Late(s[j - 1]) \in Int
      BY <1>9, <3>1
    <3>2. Late(t) < Late(s[p])
      BY <1>2, <1>3, <1>8, <3>1
    <3>3. Late(s[p]) <= Late(s[j - 1])
      <4>1. CASE p = j - 1
        BY <3>9, <4>1
      <4>2. CASE p # j - 1
        <5>1. p < j - 1
          BY <2>9, <3>1, <4>2
        <5>2. Late(s[p]) < Late(s[j - 1]) \/ Late(s[p]) = Late(s[j - 1])
          BY <2>1, <3>1, <5>1
        <5> QED
          BY <3>9, <5>2
      <4> QED
        BY <4>1, <4>2
    <3>4. Late(t) < Late(s[j - 1])
      BY <3>9, <3>2, <3>3
    <3> QED
      BY <3>1, <3>4
  <2> QED
    BY <2>2, <2>3, <2>4
<1>11. InTurn(r, e, dl, now)
  BY <1>10 DEF InTurn, Late
<1>12. \A u \in ToSet(r) : Minus(dl[u], now) \in low .. MaxTimerTicks
  BY <1>1, <1>4
<1>13. Armed(m, r, e, dl, now, low)
  BY <1>1, <1>5, <1>6, <1>11, <1>12 DEF Armed
<1> QED
  BY <1>4, <1>13 DEF m, e

LEMMA ArmedList ==
    ASSUME TimerAssumption, NEW l, NEW s, NEW q, NEW dl, NEW now, NEW low,
           Armed(l, s, q, dl, now, low)
    PROVE  List(l) = s /\ NextNode(l, TimerList, TimerList) = At(s, 1)
<1>1. l \in Links /\ s \in Queues /\ Ring(l, s)
  BY DEF Armed
<1>2. List(l) = s
  BY <1>1, ListIs
<1>3. CASE s = <<>>
  <2>1. l.next[TimerList] = Null /\ At(s, 1) = TimerList
    BY <1>1, <1>3 DEF Ring, At
  <2> QED
    BY <1>2, <2>1 DEF NextNode
<1>4. CASE s # <<>>
  <2>1. /\ Len(s) \in Nat /\ 1 \in 1 .. Len(s) /\ 0 \in 0 .. Len(s) /\ At(s, 1) \in Timer
        /\ At(s, 0) = TimerList /\ Null \notin Timer
    <3>1. s \in Seq(Timer)
      BY <1>1 DEF Queues
    <3>2. Len(s) \in Nat /\ 1 \in 1 .. Len(s) /\ 0 \in 0 .. Len(s)
      BY <1>4, <3>1
    <3> QED
      BY <1>1, <3>2, AtIs, Constants
  <2>2. l.next[At(s, 0)] = At(s, 0 + 1)
    BY <1>1, <1>4, <2>1 DEF Ring
  <2>3. l.next[TimerList] = At(s, 1) /\ At(s, 1) # Null
    BY <2>1, <2>2
  <2> QED
    BY <1>2, <2>3 DEF NextNode
<1> QED
  BY <1>3, <1>4

\* t is taken off the list, if it is on it.
LEMMA Disarm ==
    ASSUME TimerAssumption, NEW l, NEW s, NEW q, NEW dl, NEW now, NEW low,
           Armed(l, s, q, dl, now, low), NEW t \in Timer
    PROVE  /\ Armed(RemoveNode(l, t), List(RemoveNode(l, t)), RemoveFirst(q, t), dl, now, low)
           /\ ToSet(RemoveFirst(q, t)) = ToSet(q) \ {t}
<1>1. PICK r \in Queues : /\ Armed(RemoveNode(l, t), r, RemoveFirst(q, t), dl, now, low)
                          /\ ToSet(r) = ToSet(s) \ {t}
  BY OffList
<1>2. List(RemoveNode(l, t)) = r
  BY <1>1, ArmedList
<1>3. ToSet(q) = ToSet(s) /\ ToSet(RemoveFirst(q, t)) = ToSet(r)
  BY <1>1 DEF Armed
<1> QED
  BY <1>1, <1>2, <1>3

\* t is put on the list.
LEMMA JoinList ==
    ASSUME TimerAssumption, NEW l, NEW s, NEW q, NEW dl, NEW now, NEW low \in {0, 1},
           Armed(l, s, q, dl, now, low), NEW t \in Timer, t \notin ToSet(s),
           Minus(dl[t], now) \in low .. MaxTimerTicks
    PROVE  /\ Armed(InsertSorted(l, dl, t), List(InsertSorted(l, dl, t)), Append(q, t), dl, now, low)
           /\ ToSet(Append(q, t)) = ToSet(q) \cup {t}
<1>1. PICK r \in Queues : /\ Armed(InsertSorted(l, dl, t), r, Append(q, t), dl, now, low)
                          /\ ToSet(r) = ToSet(s) \cup {t}
  BY OnList
<1>2. List(InsertSorted(l, dl, t)) = r
  BY <1>1, ArmedList
<1>3. ToSet(q) = ToSet(s) /\ ToSet(Append(q, t)) = ToSet(r)
  BY <1>1 DEF Armed
<1> QED
  BY <1>1, <1>2, <1>3

\* Any timer, on the list or not, can be made to expire n ticks from now.
Armable(l, q, dl, now, low) ==
    \A t \in Timer, n \in 1 .. MaxTimerTicks :
      LET e == [dl EXCEPT ![t] = Plus(now, n)]
          m == InsertSorted(RemoveNode(l, t), e, t)
          p == Append(RemoveFirst(q, t), t)
      IN  /\ Armed(m, List(m), p, e, now, low)
          /\ ToSet(p) = ToSet(q) \cup {t}
          /\ Minus(e[t], now) = n

LEMMA Rearm ==
    ASSUME TimerAssumption, NEW l, NEW s, NEW q, NEW dl, NEW now, NEW low \in {0, 1},
           Armed(l, s, q, dl, now, low)
    PROVE  Armable(l, q, dl, now, low)
<1> SUFFICES ASSUME NEW t \in Timer, NEW n \in 1 .. MaxTimerTicks, NEW e,
                    e = [dl EXCEPT ![t] = Plus(now, n)]
             PROVE  LET m == InsertSorted(RemoveNode(l, t), e, t)
                        p == Append(RemoveFirst(q, t), t)
                    IN  /\ Armed(m, List(m), p, e, now, low)
                        /\ ToSet(p) = ToSet(q) \cup {t}
                        /\ Minus(e[t], now) = n
  BY Zenon DEF Armable
<1> DEFINE off == RemoveNode(l, t)
           p == RemoveFirst(q, t)
<1>1. PICK r \in Queues : Armed(off, r, p, dl, now, low) /\ ToSet(r) = ToSet(s) \ {t}
  BY OffList
<1>2. dl \in [Timer -> Ticks] /\ now \in Ticks /\ n \in 0 .. MaxTimerTicks /\ MaxTimerTicks \in Nat
  BY Constants DEF Armed
<1>3. Plus(now, n) \in Ticks /\ Minus(Plus(now, n), now) = n
  BY <1>2, TicksAre
<1>4. e[t] = Plus(now, n)
  BY <1>2
<1>5. Minus(e[t], now) \in low .. MaxTimerTicks
  BY <1>2, <1>3, <1>4
<1>6. Armed(off, r, p, e, now, low)
  BY <1>1, <1>3, OffListAny
<1>7. t \notin ToSet(r)
  BY <1>1
<1> HIDE DEF off, p
<1>8. /\ Armed(InsertSorted(off, e, t), List(InsertSorted(off, e, t)), Append(p, t), e, now, low)
      /\ ToSet(Append(p, t)) = ToSet(p) \cup {t}
  <2>1. PICK f : f = e
    OBVIOUS
  <2>2. Minus(f[t], now) \in low .. MaxTimerTicks /\ Armed(off, r, p, f, now, low)
    BY <1>5, <1>6, <2>1, Zenon
  <2>3. PICK o, v : o = off /\ v = p
    OBVIOUS
  <2>4. /\ Armed(InsertSorted(o, f, t), List(InsertSorted(o, f, t)), Append(v, t), f, now, low)
        /\ ToSet(Append(v, t)) = ToSet(v) \cup {t}
    <3>1. Armed(o, r, v, f, now, low)
      BY <2>2, <2>3, Zenon
    <3> QED
      BY <1>7, <2>2, <3>1, JoinList
  <2> QED
    BY <2>1, <2>3, <2>4, Zenon
<1>9. ToSet(Append(p, t)) = ToSet(q) \cup {t}
  <2>1. ToSet(p) = ToSet(r) /\ ToSet(q) = ToSet(s)
    BY <1>1 DEF Armed
  <2> QED
    BY <1>1, <1>8, <2>1
<1> QED
  BY <1>3, <1>4, <1>8, <1>9 DEF off, p

-----------------------------------------------------------------------------
(* Every step keeps the invariant.                                         *)

LEMMA TimerInvInit ==
    ASSUME TimerAssumption, TimerInit
    PROVE  TimerInv
<1>1. /\ links.next \in [Cell -> Cell \cup {Null}] /\ links.prev \in [Cell -> Cell \cup {Null}]
      /\ links.linked \in [Cell -> BOOLEAN] /\ links \in Links
      /\ \A x \in Cell : links.next[x] = Null /\ links.prev[x] = Null /\ ~ links.linked[x]
  <2>1. links = [next |-> [x \in Cell |-> Null], prev |-> [x \in Cell |-> Null],
                 linked |-> [x \in Cell |-> FALSE]]
    BY DEF TimerInit, Unlinked, Cell
  <2> QED
    BY <2>1 DEF Links
<1>2. <<>> \in Queues /\ ToSet(<<>>) = {}
  BY DEF Queues, ToSet, IsInjective
<1>3. Ring(links, <<>>)
  <2>1. TimerList \in Cell /\ Timer \subseteq Cell
    BY DEF Cell
  <2> QED
    BY <1>1, <1>2, <2>1 DEF Ring
<1>4. 0 \in Ticks /\ MaxTimerTicks \in Nat /\ 0 \in 0 .. MaxTimerTicks
  BY Constants DEF Ticks
<1>5. InTurn(<<>>, <<>>, deadline, tick)
  BY DEF InTurn
<1>6. deadline \in [Timer -> Ticks] /\ tick \in Ticks /\ queue = <<>>
  BY <1>4 DEF TimerInit
<1>7. Armed(links, <<>>, queue, deadline, tick, IF scan THEN 0 ELSE 1)
  BY <1>1, <1>2, <1>3, <1>5, <1>6 DEF Armed
<1>8. List(links) = <<>>
  BY <1>7, ArmedList
<1> QED
  BY <1>2, <1>4, <1>6, <1>7, <1>8 DEF TimerInv, TimerInit

LEMMA Clamps ==
    ASSUME TimerAssumption, NEW n \in Nat
    PROVE  Clamped(n) \in 1 .. MaxTimerTicks /\ Lower(n, MaxTimerTicks) \in 0 .. MaxTimerTicks
BY Constants DEF Clamped, Lower

\* The first timer on the list; no timer is due before it.
LEMMA FirstIs ==
    ASSUME TimerAssumption, TimerInv
    PROVE  /\ First = TimerList => List(links) = <<>>
           /\ First # TimerList => /\ First \in Timer /\ First \in ToSet(queue)
                                   /\ First = List(links)[1] /\ List(links) # <<>>
           /\ First # TimerList /\ ~Due(First) =>
                \A t \in ToSet(queue) : Minus(deadline[t], tick) > 0
           /\ First # TimerList /\ Due(First) => Minus(deadline[First], tick) = 0
<1> DEFINE low == IF scan THEN 0 ELSE 1
           Late(t) == Minus(deadline[t], tick)
<1>1. PICK s \in Queues : s = List(links) /\ Armed(links, s, queue, deadline, tick, low)
  BY DEF TimerInv, Armed
<1>2. First = At(s, 1)
  BY <1>1, ArmedList DEF First
<1>3. /\ Len(s) \in Nat /\ s \in Seq(Timer) /\ TimerList \notin Timer
      /\ \A j \in 1 .. Len(s) : At(s, j) = s[j] /\ s[j] \in Timer /\ s[j] \in ToSet(s)
      /\ \A x : x \in ToSet(s) <=> \E j \in 1 .. Len(s) : s[j] = x
      /\ At(s, Len(s) + 1) = TimerList
  BY AtIs, Constants
<1>4. /\ deadline \in [Timer -> Ticks] /\ tick \in Ticks /\ ToSet(queue) = ToSet(s)
      /\ \A t \in ToSet(s) : Late(t) \in low .. MaxTimerTicks
      /\ InTurn(s, queue, deadline, tick) /\ low \in {0, 1} /\ MaxTimerTicks \in Nat
  BY <1>1, Constants DEF Armed
<1>5. CASE s = <<>>
  <2>1. First = TimerList
    BY <1>2, <1>3, <1>5
  <2> QED
    BY <1>1, <1>5, <2>1
<1>6. CASE s # <<>>
  <2>1. 1 \in 1 .. Len(s)
    BY <1>3, <1>6
  <2>2. First = s[1] /\ First \in Timer /\ First \in ToSet(s) /\ First # TimerList
    BY <1>2, <1>3, <2>1
  <2>3. \A t \in ToSet(s) : Late(t) \in Nat /\ Late(t) <= MaxTimerTicks
    BY <1>4
  <2>4. Due(First) <=> ~ (Late(First) > 0)
    <3>1. deadline[First] \in Ticks /\ Minus(deadline[First], tick) \in 0 .. MaxTimerTicks
      BY <1>4, <2>2
    <3> QED
      BY <1>4, <3>1, DueIs DEF Due
  <2> HIDE DEF Late
  <2>5. ASSUME NEW t \in ToSet(s) PROVE Late(First) <= Late(t)
    <3>1. PICK j \in 1 .. Len(s) : s[j] = t
      BY <1>3
    <3>2. CASE j = 1
      BY <2>2, <2>3, <3>1, <3>2
    <3>3. CASE j # 1
      <4>1. 1 < j
        BY <1>3, <3>3
      <4>2. Late(s[1]) < Late(s[j]) \/ Late(s[1]) = Late(s[j])
        BY <1>4, <2>1, <4>1 DEF InTurn, Late
      <4> QED
        BY <2>2, <2>3, <3>1, <4>2
    <3> QED
      BY <3>2, <3>3
  <2>6. ~Due(First) => \A t \in ToSet(queue) : Late(t) > 0
    BY <1>4, <2>2, <2>3, <2>4, <2>5
  <2>7. Due(First) => Late(First) = 0
    BY <2>2, <2>3, <2>4
  <2> USE DEF Late
  <2> QED
    BY <1>1, <1>4, <1>6, <2>2, <2>6, <2>7
<1> QED
  BY <1>5, <1>6
\* What the invariant says of the list, for the steps.
LEMMA Current ==
    ASSUME TimerAssumption, TimerInv
    PROVE  \E s \in Queues, low \in {0, 1} :
             /\ s = List(links) /\ low = (IF scan THEN 0 ELSE 1)
             /\ Armed(links, s, queue, deadline, tick, low)
             /\ deadline \in [Timer -> Ticks] /\ tick \in Ticks /\ ToSet(queue) = ToSet(s)
             /\ queue \in Queues
             /\ \A t \in ToSet(queue) : t \in Timer /\ Minus(deadline[t], tick) \in low .. MaxTimerTicks
<1>1. PICK s : s = List(links)
  OBVIOUS
<1>2. PICK low \in {0, 1} : low = (IF scan THEN 0 ELSE 1)
  BY DEF TimerInv
<1>3. Armed(links, s, queue, deadline, tick, low)
  BY <1>1, <1>2 DEF TimerInv
<1>4. /\ s \in Queues /\ deadline \in [Timer -> Ticks] /\ tick \in Ticks /\ ToSet(queue) = ToSet(s)
      /\ queue \in Queues /\ \A t \in ToSet(s) : Minus(deadline[t], tick) \in low .. MaxTimerTicks
  BY <1>3 DEF Armed
<1>5. ToSet(s) \subseteq Timer
  BY <1>4, AtIs
<1> QED
  BY <1>1, <1>2, <1>3, <1>4, <1>5

\* A timer that is armed, by start or for its next period, expires after n ticks.
LEMMA ArmStep ==
    ASSUME TimerAssumption, TimerInv, NEW t \in Timer, NEW n \in 1 .. MaxTimerTicks,
           deadline' = [deadline EXCEPT ![t] = Plus(tick, n)],
           links' = InsertSorted(RemoveNode(links, t), deadline', t),
           queue' = Append(RemoveFirst(queue, t), t),
           UNCHANGED <<tick, scan>>
    PROVE  /\ Armed(links', List(links'), queue', deadline', tick', IF scan' THEN 0 ELSE 1)
           /\ ToSet(queue') = ToSet(queue) \cup {t}
           /\ Minus(deadline'[t], tick) = n
<1>1. PICK s \in Queues, low \in {0, 1} : /\ Armed(links, s, queue, deadline, tick, low)
                                          /\ low = (IF scan THEN 0 ELSE 1)
  BY Current
<1>2. Armable(links, queue, deadline, tick, low)
  BY <1>1, Rearm
<1> QED
  BY <1>1, <1>2 DEF Armable

LEMMA StartKeeps ==
    ASSUME TimerAssumption, TimerInv, NEW t \in Timer, NEW d \in Delay, NEW p \in Period,
           StartInternal(t, d, p)
    PROVE  TimerInv'
<1>1. Clamped(d) \in 1 .. MaxTimerTicks /\ Lower(p, MaxTimerTicks) \in 0 .. MaxTimerTicks
  BY Clamps DEF TimerAssumption
<1>2. /\ Armed(links', List(links'), queue', deadline', tick', IF scan' THEN 0 ELSE 1)
      /\ ToSet(queue') = ToSet(queue) \cup {t}
  BY <1>1, ArmStep DEF StartInternal
<1>3. started' \in [Timer -> BOOLEAN] /\ \A u \in Timer : started'[u] <=> u \in ToSet(queue')
  BY <1>2 DEF StartInternal, TimerInv
<1>4. period' \in [Timer -> 0 .. MaxTimerTicks] /\ scan' \in BOOLEAN /\ callback' \in Timer \cup {Nobody}
  BY <1>1 DEF StartInternal, TimerInv
<1> QED
  BY <1>2, <1>3, <1>4 DEF TimerInv

\* A timer that is taken off, by stop or when it expires.
LEMMA DisarmStep ==
    ASSUME TimerAssumption, TimerInv, NEW t \in Timer,
           links' = RemoveNode(links, t), queue' = RemoveFirst(queue, t),
           UNCHANGED <<tick, scan, deadline>>
    PROVE  /\ Armed(links', List(links'), queue', deadline', tick', IF scan' THEN 0 ELSE 1)
           /\ ToSet(queue') = ToSet(queue) \ {t}
<1>1. PICK s \in Queues, low \in {0, 1} : /\ Armed(links, s, queue, deadline, tick, low)
                                          /\ low = (IF scan THEN 0 ELSE 1)
  BY Current
<1>2. /\ Armed(RemoveNode(links, t), List(RemoveNode(links, t)), RemoveFirst(queue, t), deadline, tick, low)
      /\ ToSet(RemoveFirst(queue, t)) = ToSet(queue) \ {t}
  BY <1>1, Disarm
<1> QED
  BY <1>1, <1>2

LEMMA StopKeeps ==
    ASSUME TimerAssumption, TimerInv, NEW t \in Timer, StopInternal(t)
    PROVE  TimerInv'
<1>1. /\ Armed(links', List(links'), queue', deadline', tick', IF scan' THEN 0 ELSE 1)
      /\ ToSet(queue') = ToSet(queue) \ {t}
  BY DisarmStep DEF StopInternal
<1>2. started' \in [Timer -> BOOLEAN] /\ \A u \in Timer : started'[u] <=> u \in ToSet(queue')
  BY <1>1 DEF StopInternal, TimerInv
<1>3. period' \in [Timer -> 0 .. MaxTimerTicks] /\ scan' \in BOOLEAN /\ callback' \in Timer \cup {Nobody}
  BY DEF StopInternal, TimerInv
<1> QED
  BY <1>1, <1>2, <1>3 DEF TimerInv

LEMMA ExpireKeeps ==
    ASSUME TimerAssumption, TimerInv, CheckExpire
    PROVE  TimerInv'
<1>1. PICK t \in Timer : t = First /\ t \in ToSet(queue)
  BY FirstIs DEF CheckExpire
<1>2. started[t] /\ period[t] \in 0 .. MaxTimerTicks /\ MaxTimerTicks \in Nat
  BY <1>1, Constants DEF TimerInv
<1>3. /\ callback' = t /\ UNCHANGED <<tick, period, scan>>
      /\ started' = [started EXCEPT ![t] = (period[t] # 0)]
      /\ period[t] # 0 => /\ deadline' = [deadline EXCEPT ![t] = Plus(tick, period[t])]
                          /\ links' = InsertSorted(RemoveNode(links, t), deadline', t)
                          /\ queue' = Append(RemoveFirst(queue, t), t)
      /\ period[t] = 0 => /\ deadline' = deadline
                          /\ links' = RemoveNode(links, t)
                          /\ queue' = RemoveFirst(queue, t)
  BY <1>1, <1>2 DEF CheckExpire
<1>4. /\ Armed(links', List(links'), queue', deadline', tick', IF scan' THEN 0 ELSE 1)
      /\ \A u \in Timer \ {t} : u \in ToSet(queue') <=> u \in ToSet(queue)
      /\ t \in ToSet(queue') <=> period[t] # 0
  <2>1. CASE period[t] # 0
    <3>1. period[t] \in 1 .. MaxTimerTicks
      BY <1>2, <2>1
    <3>2. /\ Armed(links', List(links'), queue', deadline', tick', IF scan' THEN 0 ELSE 1)
          /\ ToSet(queue') = ToSet(queue) \cup {t}
      BY <1>3, <2>1, <3>1, ArmStep
    <3> QED
      BY <2>1, <3>2
  <2>2. CASE period[t] = 0
    <3>1. /\ Armed(links', List(links'), queue', deadline', tick', IF scan' THEN 0 ELSE 1)
          /\ ToSet(queue') = ToSet(queue) \ {t}
      BY <1>3, <2>2, DisarmStep
    <3> QED
      BY <2>2, <3>1
  <2> QED
    BY <2>1, <2>2
<1>5. started' \in [Timer -> BOOLEAN] /\ \A u \in Timer : started'[u] <=> u \in ToSet(queue')
  <2>1. started' \in [Timer -> BOOLEAN]
    BY <1>3 DEF TimerInv
  <2>2. ASSUME NEW u \in Timer PROVE started'[u] <=> u \in ToSet(queue')
    <3>1. CASE u = t
      BY <1>3, <1>4, <3>1 DEF TimerInv
    <3>2. CASE u # t
      BY <1>3, <1>4, <3>2 DEF TimerInv
    <3> QED
      BY <3>1, <3>2
  <2> QED
    BY <2>1, <2>2
<1>6. period' \in [Timer -> 0 .. MaxTimerTicks] /\ scan' \in BOOLEAN /\ callback' \in Timer \cup {Nobody}
  BY <1>3 DEF TimerInv
<1> QED
  BY <1>4, <1>5, <1>6 DEF TimerInv

\* A tick brings every deadline nearer by one: the order stays.
LEMMA Nearer ==
    ASSUME TimerAssumption, NEW s, NEW q, NEW dl, NEW now, NEW l,
           Armed(l, s, q, dl, now, 1)
    PROVE  Armed(l, s, q, dl, Plus(now, 1), 0)
<1> DEFINE then == Plus(now, 1)
<1>1. /\ l \in Links /\ s \in Queues /\ Ring(l, s)
      /\ q \in Queues /\ ToSet(q) = ToSet(s)
      /\ dl \in [Timer -> Ticks] /\ now \in Ticks
      /\ \A t \in ToSet(s) : Minus(dl[t], now) \in 1 .. MaxTimerTicks
      /\ InTurn(s, q, dl, now)
  BY DEF Armed
<1>2. MaxTimerTicks \in Nat /\ 1 \in 0 .. MaxTimerTicks /\ ToSet(s) \subseteq Timer
  BY <1>1, Constants, AtIs
<1>3. then \in Ticks
  BY <1>1, <1>2, TicksAre
<1>4. ASSUME NEW t \in ToSet(s)
      PROVE  Minus(dl[t], then) = Minus(dl[t], now) - 1 /\ Minus(dl[t], then) \in 0 .. MaxTimerTicks
  <2>1. /\ dl[t] \in Ticks /\ Minus(dl[t], now) \in 0 .. MaxTimerTicks /\ Minus(dl[t], now) > 0
        /\ Minus(dl[t], now) \in 1 .. MaxTimerTicks
    BY <1>1, <1>2
  <2>2. Minus(dl[t], then) = Minus(dl[t], now) - 1
    BY <1>1, <2>1, DueIs
  <2> QED
    BY <1>2, <2>1, <2>2
<1> HIDE DEF then
<1>5. ASSUME NEW i \in 1 .. Len(s), NEW j \in 1 .. Len(s), i < j
      PROVE  \/ Minus(dl[s[i]], then) < Minus(dl[s[j]], then)
             \/ Minus(dl[s[i]], then) = Minus(dl[s[j]], then) /\ Earlier(q, s[i], s[j])
  <2>1. s[i] \in ToSet(s) /\ s[j] \in ToSet(s)
    BY <1>1, AtIs
  <2>2. PICK x \in Int, y \in Int : x = Minus(dl[s[i]], now) /\ y = Minus(dl[s[j]], now)
    BY <1>1, <2>1
  <2>3. Minus(dl[s[i]], then) = x - 1 /\ Minus(dl[s[j]], then) = y - 1
    BY <1>4, <2>1, <2>2
  <2>4. x < y \/ (x = y /\ Earlier(q, s[i], s[j]))
    BY <1>1, <1>5, <2>2 DEF InTurn
  <2> QED
    BY <2>3, <2>4
<1>6. InTurn(s, q, dl, then)
  BY <1>5 DEF InTurn
<1>7. Armed(l, s, q, dl, then, 0)
  BY <1>1, <1>3, <1>4, <1>6 DEF Armed
<1> QED
  BY <1>7 DEF then

LEMMA TickKeeps ==
    ASSUME TimerAssumption, TimerInv, TickIncrease
    PROVE  TimerInv'
<1>1. PICK s : s = List(links)
  OBVIOUS
<1>2. Armed(links, s, queue, deadline, tick, 1)
  BY <1>1 DEF TimerInv, TickIncrease
<1>3. Armed(links, s, queue, deadline, Plus(tick, 1), 0)
  BY <1>2, Nearer
<1>4. Armed(links', List(links'), queue', deadline', tick', IF scan' THEN 0 ELSE 1)
  BY <1>1, <1>3 DEF TickIncrease
<1> QED
  BY <1>4 DEF TimerInv, TickIncrease

\* When check() ends nothing is due: all lie ahead.
LEMMA CheckEndKeeps ==
    ASSUME TimerAssumption, TimerInv, CheckEnd
    PROVE  TimerInv'
<1>1. PICK s \in Queues, low \in {0, 1} :
        /\ s = List(links) /\ Armed(links, s, queue, deadline, tick, low)
        /\ ToSet(queue) = ToSet(s)
  BY Current
<1>2. \A t \in ToSet(s) : Minus(deadline[t], tick) > 0
  <2>1. CASE First = TimerList
    BY <1>1, <2>1, FirstIs DEF ToSet
  <2>2. CASE First # TimerList
    BY <1>1, <2>2, FirstIs DEF CheckEnd
  <2> QED
    BY <2>1, <2>2
<1>3. \A t \in ToSet(s) : Minus(deadline[t], tick) \in 1 .. MaxTimerTicks
  <2>1. MaxTimerTicks \in Nat /\ \A t \in ToSet(s) : Minus(deadline[t], tick) \in low .. MaxTimerTicks
    BY <1>1, Constants DEF Armed
  <2> QED
    BY <1>2, <2>1
<1>4. Armed(links, s, queue, deadline, tick, 1)
  BY <1>1, <1>3 DEF Armed
<1>5. Armed(links', List(links'), queue', deadline', tick', IF scan' THEN 0 ELSE 1)
  BY <1>1, <1>4 DEF CheckEnd
<1> QED
  BY <1>5 DEF TimerInv, CheckEnd

LEMMA TimerInvNext ==
    ASSUME TimerAssumption, TimerInv, [TimerNext]_timerVars
    PROVE  TimerInv'
<1>1. CASE StartNext
  BY <1>1, StartKeeps DEF StartNext
<1>2. CASE StopNext
  BY <1>2, StopKeeps DEF StopNext
<1>3. CASE TickIncrease
  BY <1>3, TickKeeps
<1>4. CASE CheckExpire
  BY <1>4, ExpireKeeps
<1>5. CASE CallbackReturn
  BY <1>5 DEF CallbackReturn, TimerInv
<1>6. CASE CheckEnd
  BY <1>6, CheckEndKeeps
<1>7. CASE UNCHANGED timerVars
  BY <1>7 DEF timerVars, TimerInv
<1> QED
  BY <1>1, <1>2, <1>3, <1>4, <1>5, <1>6, <1>7 DEF TimerNext, Check

\* Kernel timers of timer.rs: the started timers are on the list, once each, and the links are
\* those of a list, forward and backward, whatever is started, stopped and expires, and
\* although deadlines wrap around.
THEOREM TimerListSafe ==
    ASSUME TimerAssumption
    PROVE  TimerSpec => []TimerSound
<1>1. TimerInit => TimerInv
  BY TimerInvInit
<1>2. TimerInv /\ [TimerNext]_timerVars => TimerInv'
  BY TimerInvNext
<1>3. TimerInv => TimerSound
  <2>1. ASSUME TimerInv PROVE TimerSound
    <3>1. PICK s \in Queues, low \in {0, 1} :
            /\ s = List(links) /\ Armed(links, s, queue, deadline, tick, low)
            /\ ToSet(queue) = ToSet(s)
      BY <2>1, Current
    <3>2. links \in Links /\ Ring(links, s) /\ IsInjective(s)
      BY <3>1 DEF Armed, Queues
    <3>3. LinksSound
      BY <3>1, <3>2, RepresentsIs DEF LinksSound
    <3>4. \A t \in Timer : started[t] <=> links.linked[t]
      BY <2>1, <3>1, <3>2 DEF TimerInv, Ring, Cell
    <3> QED
      BY <3>1, <3>2, <3>3, <3>4 DEF TimerSound, StartedIsListed
  <2> QED
    BY <2>1
<1> QED
  BY <1>1, <1>2, <1>3, PTL DEF TimerSpec
-----------------------------------------------------------------------------
(* Every step is one of TimerPromise, or none.                             *)

\* The promise speaks of sequences with the same operators.
LEMMA SameOperators ==
    /\ \A q : Expiry!ToSet(q) = ToSet(q)
    /\ \A q, x : Expiry!RemoveFirst(q, x) = RemoveFirst(q, x)
<1>1. ASSUME NEW q PROVE Expiry!ToSet(q) = ToSet(q)
  BY DEF Expiry!ToSet, ToSet
<1>2. ASSUME NEW q, NEW x PROVE Expiry!RemoveFirst(q, x) = RemoveFirst(q, x)
  BY Zenon DEF Expiry!RemoveFirst, RemoveFirst, Expiry!RemoveAt, RemoveAt,
               Expiry!SelectInSeq, SelectInSeq, Expiry!Min, Min
<1> QED
  BY <1>1, <1>2

\* How long the running timers have left, and who runs.
LEMMA LeftIs ==
    ASSUME TimerAssumption, TimerInv
    PROVE  /\ MaxTimerTicks \in Nat
           /\ \A t \in Timer : /\ t \in ToSet(queue) <=> started[t]
                               /\ t \in ToSet(queue) => Left[t] = Minus(deadline[t], tick)
                               /\ t \notin ToSet(queue) => Left[t] = 0
                               /\ Left[t] \in 0 .. MaxTimerTicks
           /\ Left = [t \in Timer |-> Left[t]]
           /\ ToSet(queue) \subseteq Timer /\ queue \in Queues
<1>1. PICK low \in {0, 1} :
        /\ \A t \in ToSet(queue) : t \in Timer /\ Minus(deadline[t], tick) \in low .. MaxTimerTicks
        /\ queue \in Queues
  BY Current
<1>2. MaxTimerTicks \in Nat
  BY Constants
<1>3. \A t \in ToSet(queue) : Minus(deadline[t], tick) \in 0 .. MaxTimerTicks
  BY <1>1, <1>2
<1>4. \A t \in Timer : t \in ToSet(queue) <=> started[t]
  BY DEF TimerInv
<1>5. \A t \in Timer : Left[t] = IF started[t] THEN Minus(deadline[t], tick) ELSE 0
  BY DEF Left
<1>6. Left = [t \in Timer |-> Left[t]]
  BY DEF Left
<1> QED
  BY <1>1, <1>2, <1>3, <1>4, <1>5, <1>6

\* Arming a timer is what the promise says of it.
LEMMA ArmPromise ==
    ASSUME TimerAssumption, TimerInv, NEW t \in Timer, NEW n \in 1 .. MaxTimerTicks,
           deadline' = [deadline EXCEPT ![t] = Plus(tick, n)],
           started' = [started EXCEPT ![t] = TRUE],
           links' = InsertSorted(RemoveNode(links, t), deadline', t),
           queue' = Append(RemoveFirst(queue, t), t),
           UNCHANGED <<tick, scan>>
    PROVE  Expiry!Arm(t, n)
<1>1. Minus(deadline'[t], tick) = n
  BY ArmStep
<1>2. deadline \in [Timer -> Ticks] /\ started \in [Timer -> BOOLEAN]
  BY Current DEF TimerInv
<1>3. \A u \in Timer : Left[u] = IF started[u] THEN Minus(deadline[u], tick) ELSE 0
  BY DEF Left
<1>4. ASSUME NEW u \in Timer
      PROVE  (IF started'[u] THEN Minus(deadline'[u], tick') ELSE 0) = (IF u = t THEN n ELSE Left[u])
  <2>1. CASE u = t
    BY <1>1, <1>2, <2>1
  <2>2. CASE u # t
    <3>1. started'[u] = started[u] /\ deadline'[u] = deadline[u]
      BY <1>2, <2>2
    <3> QED
      BY <1>3, <2>2, <3>1
  <2> QED
    BY <2>1, <2>2
<1>5. Left' = [Left EXCEPT ![t] = n]
  <2>1. Left' = [u \in Timer |-> IF started'[u] THEN Minus(deadline'[u], tick') ELSE 0]
    BY DEF Left
  <2>2. [Left EXCEPT ![t] = n] = [u \in Timer |-> IF u = t THEN n ELSE Left[u]]
    BY DEF Left
  <2> QED
    BY <1>4, <2>1, <2>2, Zenon
<1> QED
  BY <1>5, SameOperators DEF Expiry!Arm

LEMMA StartPromise ==
    ASSUME TimerAssumption, TimerInv, NEW t \in Timer, NEW d \in Delay, NEW p \in Period,
           StartInternal(t, d, p)
    PROVE  Expiry!Start(t)
<1>1. Clamped(d) \in 1 .. MaxTimerTicks /\ Lower(p, MaxTimerTicks) \in 0 .. MaxTimerTicks
  BY Clamps DEF TimerAssumption
<1>2. Expiry!Arm(t, Clamped(d))
  BY <1>1, ArmPromise DEF StartInternal
<1>3. period' = [period EXCEPT ![t] = Lower(p, MaxTimerTicks)]
  BY DEF StartInternal
<1> QED
  BY <1>1, <1>2, <1>3 DEF Expiry!Start

LEMMA StopPromise ==
    ASSUME TimerAssumption, TimerInv, NEW t \in Timer, StopInternal(t)
    PROVE  Expiry!Stop(t)
<1>1. started \in [Timer -> BOOLEAN]
  BY DEF TimerInv
<1>2. /\ started' = [started EXCEPT ![t] = FALSE]
      /\ UNCHANGED <<tick, deadline, period>> /\ queue' = RemoveFirst(queue, t)
  BY DEF StopInternal
<1>3. \A u \in Timer : Left[u] = IF started[u] THEN Minus(deadline[u], tick) ELSE 0
  BY DEF Left
<1>4. ASSUME NEW u \in Timer
      PROVE  (IF started'[u] THEN Minus(deadline'[u], tick') ELSE 0) = (IF u = t THEN 0 ELSE Left[u])
  <2>1. CASE u = t
    BY <1>1, <1>2, <2>1
  <2>2. CASE u # t
    BY <1>1, <1>2, <1>3, <2>2
  <2> QED
    BY <2>1, <2>2
<1>5. Left' = [Left EXCEPT ![t] = 0]
  <2>1. Left' = [u \in Timer |-> IF started'[u] THEN Minus(deadline'[u], tick') ELSE 0]
    BY DEF Left
  <2>2. [Left EXCEPT ![t] = 0] = [u \in Timer |-> IF u = t THEN 0 ELSE Left[u]]
    BY DEF Left
  <2> QED
    BY <1>4, <2>1, <2>2, Zenon
<1> QED
  BY <1>2, <1>5, SameOperators DEF Expiry!Stop

LEMMA TickPromise ==
    ASSUME TimerAssumption, TimerInv, TickIncrease
    PROVE  Expiry!Tick
<1>1. /\ \A t \in ToSet(queue) : t \in Timer /\ Minus(deadline[t], tick) \in 1 .. MaxTimerTicks
      /\ deadline \in [Timer -> Ticks] /\ tick \in Ticks /\ MaxTimerTicks \in Nat
  BY Current, Constants DEF TickIncrease
<1>2. /\ tick' = Plus(tick, 1) /\ UNCHANGED <<deadline, period, started, queue>>
  BY DEF TickIncrease
<1>3. ASSUME NEW t \in ToSet(queue)
      PROVE  Left[t] > 0 /\ Minus(deadline[t], tick') = Left[t] - 1
  <2>1. /\ deadline[t] \in Ticks /\ Minus(deadline[t], tick) \in 0 .. MaxTimerTicks
        /\ Minus(deadline[t], tick) > 0
    BY <1>1
  <2>2. Minus(deadline[t], Plus(tick, 1)) = Minus(deadline[t], tick) - 1
    BY <1>1, <2>1, DueIs
  <2>3. Left[t] = Minus(deadline[t], tick)
    BY <1>1, LeftIs
  <2> QED
    BY <1>2, <2>1, <2>2, <2>3
<1>4. \A t \in Timer : started'[t] <=> t \in ToSet(queue)
  BY <1>2 DEF TimerInv
<1>5. ASSUME NEW t \in Timer
      PROVE  (IF started'[t] THEN Minus(deadline'[t], tick') ELSE 0)
               = (IF t \in ToSet(queue) THEN Left[t] - 1 ELSE 0)
  <2>1. CASE t \in ToSet(queue)
    BY <1>2, <1>3, <1>4, <2>1
  <2>2. CASE t \notin ToSet(queue)
    BY <1>4, <2>2
  <2> QED
    BY <2>1, <2>2
<1>6. Left' = [t \in Timer |-> IF t \in ToSet(queue) THEN Left[t] - 1 ELSE 0]
  <2>1. Left' = [t \in Timer |-> IF started'[t] THEN Minus(deadline'[t], tick') ELSE 0]
    BY DEF Left
  <2> QED
    BY <1>5, <2>1, Zenon
<1> QED
  BY <1>2, <1>3, <1>6, SameOperators DEF Expiry!Tick, Expiry!Running

\* The first on the list is the one that was armed first of those that are due.
LEMMA FirstArmed ==
    ASSUME TimerAssumption, TimerInv, First # TimerList, Due(First)
    PROVE  /\ First \in ToSet(queue) /\ Left[First] = 0
           /\ \A i, j \in DOMAIN queue : (queue[j] = First /\ i < j) => Left[queue[i]] > 0
<1>1. First \in Timer /\ First \in ToSet(queue) /\ Minus(deadline[First], tick) = 0
  BY FirstIs
<1>2. Left[First] = 0
  BY <1>1, LeftIs
<1>3. ASSUME NEW i \in DOMAIN queue, NEW j \in DOMAIN queue, queue[j] = First, i < j
      PROVE  Left[queue[i]] > 0
  <2>1. PICK s \in Queues, low \in {0, 1} :
          /\ s = List(links) /\ Armed(links, s, queue, deadline, tick, low)
          /\ ToSet(queue) = ToSet(s) /\ queue \in Queues
    BY Current
  <2>2. /\ DOMAIN queue = 1 .. Len(queue) /\ Len(queue) \in Nat
        /\ \A a, b \in 1 .. Len(queue) : queue[a] = queue[b] => a = b
        /\ \A a \in 1 .. Len(queue) : queue[a] \in ToSet(queue)
    BY <2>1, AtIs
  <2>3. First = s[1] /\ s # <<>>
    BY <2>1, FirstIs
  <2>4. PICK k \in 1 .. Len(s) : s[k] = queue[i]
    <3>1. queue[i] \in ToSet(s)
      BY <2>1, <2>2
    <3>2. \A x : x \in ToSet(s) <=> \E k \in 1 .. Len(s) : s[k] = x
      BY <2>1, AtIs
    <3> QED
      BY <3>1, <3>2
  <2>5. queue[i] # First
    BY <1>3, <2>2
  <2>6. 1 \in 1 .. Len(s) /\ 1 < k
    BY <2>3, <2>4, <2>5
  <2>7. ~ Earlier(queue, First, queue[i])
    <3>1. ASSUME Earlier(queue, First, queue[i]) PROVE FALSE
      <4>1. PICK m, n \in DOMAIN queue : queue[m] = First /\ queue[n] = queue[i] /\ m < n
        BY <3>1 DEF Earlier
      <4>2. m = j /\ n = i
        BY <1>3, <2>2, <4>1
      <4> QED
        BY <1>3, <2>2, <4>1, <4>2
    <3> QED
      BY <3>1
  <2>8. Minus(deadline[First], tick) < Minus(deadline[queue[i]], tick)
    <3>1. InTurn(s, queue, deadline, tick)
      BY <2>1 DEF Armed
    <3>2. \/ Minus(deadline[s[1]], tick) < Minus(deadline[s[k]], tick)
          \/ Earlier(queue, s[1], s[k])
      BY <2>6, <3>1 DEF InTurn
    <3> QED
      BY <2>3, <2>4, <2>7, <3>2
  <2>9. Left[queue[i]] = Minus(deadline[queue[i]], tick)
    BY <1>3, <2>2, LeftIs
  <2> QED
    BY <1>1, <2>8, <2>9
<1> QED
  BY <1>1, <1>2, <1>3

LEMMA ExpirePromise ==
    ASSUME TimerAssumption, TimerInv, CheckExpire
    PROVE  \E t \in Timer : Expiry!Expire(t)
<1>1. PICK t \in Timer : t = First /\ t \in ToSet(queue)
  BY FirstIs DEF CheckExpire
<1>2. started[t] /\ period[t] \in 0 .. MaxTimerTicks /\ MaxTimerTicks \in Nat
  BY <1>1, Constants DEF TimerInv
<1>3. started \in [Timer -> BOOLEAN]
  BY DEF TimerInv
<1>4. /\ UNCHANGED <<tick, period, scan>>
      /\ started' = [started EXCEPT ![t] = (period[t] # 0)]
      /\ period[t] # 0 => /\ deadline' = [deadline EXCEPT ![t] = Plus(tick, period[t])]
                          /\ links' = InsertSorted(RemoveNode(links, t), deadline', t)
                          /\ queue' = Append(RemoveFirst(queue, t), t)
      /\ period[t] = 0 => /\ deadline' = deadline
                          /\ queue' = RemoveFirst(queue, t)
  BY <1>1, <1>2 DEF CheckExpire
<1>5. /\ t \in ToSet(queue) /\ Left[t] = 0
      /\ \A i, j \in DOMAIN queue : (queue[j] = t /\ i < j) => Left[queue[i]] > 0
  BY <1>1, FirstArmed DEF CheckExpire
<1>6. CASE period[t] # 0
  <2>1. period[t] \in 1 .. MaxTimerTicks /\ period[t] > 0
    BY <1>2, <1>6
  <2>2. started' = [started EXCEPT ![t] = TRUE]
    BY <1>4, <1>6
  <2>3. Expiry!Arm(t, period[t])
    BY <1>4, <1>6, <2>1, <2>2, ArmPromise
  <2> QED
    BY <1>4, <1>5, <2>1, <2>3, SameOperators DEF Expiry!Expire, Expiry!Running
<1>7. CASE period[t] = 0
  <2>1. started' = [started EXCEPT ![t] = FALSE]
    BY <1>4, <1>7
  <2>2. \A u \in Timer : Left[u] = IF started[u] THEN Minus(deadline[u], tick) ELSE 0
    BY DEF Left
  <2>3. ASSUME NEW u \in Timer
        PROVE  (IF started'[u] THEN Minus(deadline'[u], tick') ELSE 0) = Left[u]
    <3>1. CASE u = t
      BY <1>3, <1>5, <2>1, <3>1
    <3>2. CASE u # t
      BY <1>3, <1>4, <1>7, <2>1, <2>2, <3>2
    <3> QED
      BY <3>1, <3>2
  <2>4. Left' = Left
    <3>1. Left' = [u \in Timer |-> IF started'[u] THEN Minus(deadline'[u], tick') ELSE 0]
      BY DEF Left
    <3>2. Left = [u \in Timer |-> Left[u]]
      BY LeftIs
    <3> QED
      BY <2>3, <3>1, <3>2, Zenon
  <2>5. ~ (period[t] > 0)
    BY <1>7
  <2> QED
    BY <1>4, <1>5, <1>7, <2>4, <2>5, SameOperators DEF Expiry!Expire, Expiry!Running
<1> QED
  BY <1>6, <1>7

\* check() does its work in steps of its own: the steps of the promise, in their order, and none else.
LEMMA PromiseStep ==
    ASSUME TimerAssumption, TimerInv, [TimerNext]_timerVars
    PROVE  [Expiry!Next]_<<Left, period, queue>>
<1>1. CASE StartNext
  <2>1. PICK t \in Timer : Expiry!Start(t)
    BY <1>1, StartPromise DEF StartNext
  <2> QED
    BY <2>1 DEF Expiry!Next
<1>2. CASE StopNext
  <2>1. PICK t \in Timer : Expiry!Stop(t)
    BY <1>2, StopPromise DEF StopNext
  <2> QED
    BY <2>1 DEF Expiry!Next
<1>3. CASE TickIncrease
  BY <1>3, TickPromise DEF Expiry!Next
<1>4. CASE CheckExpire
  <2>1. PICK t \in Timer : Expiry!Expire(t)
    BY <1>4, ExpirePromise
  <2> QED
    BY <2>1 DEF Expiry!Next
<1>5. CASE CallbackReturn
  BY <1>5 DEF CallbackReturn, Left
<1>6. CASE CheckEnd
  BY <1>6 DEF CheckEnd, Left
<1>7. CASE UNCHANGED timerVars
  BY <1>7 DEF timerVars, Left
<1> QED
  BY <1>1, <1>2, <1>3, <1>4, <1>5, <1>6, <1>7 DEF TimerNext, Check

\* Kernel timers of timer.rs keep the promise of TimerPromise: a timer expires after exactly the
\* ticks it was asked for, those of one tick in the order in which they were armed, and no tick
\* passes a timer that is due; across wrap-around, for delays up to half the counter's range.
THEOREM TimersKeepPromise ==
    ASSUME TimerAssumption
    PROVE  TimerSpec => IsTimerPromise
<1>1. TimerInit => TimerInv
  BY TimerInvInit
<1>2. TimerInv /\ [TimerNext]_timerVars => TimerInv'
  BY TimerInvNext
<1>3. TimerInit => Expiry!Init
  BY DEF TimerInit, Expiry!Init, Left
<1>4. TimerInv /\ [TimerNext]_timerVars => [Expiry!Next]_<<Left, period, queue>>
  BY PromiseStep
<1> QED
  BY <1>1, <1>2, <1>3, <1>4, PTL DEF TimerSpec, IsTimerPromise, Expiry!Spec


=============================================================================
