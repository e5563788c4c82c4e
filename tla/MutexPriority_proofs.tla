------------------------ MODULE MutexPriority_proofs ------------------------
(***************************************************************************)
(* Priority inheritance (ipc.rs): after every call, timeout and deletion   *)
(* each living thread has exactly the priority that its waiters demand,    *)
(* along chains and in cycles, and the most urgent ready thread runs;      *)
(* proved for every set of threads and mutexes and any priorities.         *)
(***************************************************************************)
EXTENDS Mutex_proofs

-----------------------------------------------------------------------------
(* The invariant.                                                          *)

\* Whom each thread waits for.
Target(s) == [u \in Thread |-> IF s.pending[u] = None THEN None ELSE s.owner[s.pending[u]]]

\* With the priorities p, and d[u] whom u waits for, t has to run at q.
Fits(p, d, t, q) ==
    /\ q <= Base[t] /\ \A u \in Thread : d[u] = t => q <= p[u]
    /\ q = Base[t] \/ \E u \in Thread : d[u] = t /\ q = p[u]

\* Everybody outside X has the priority that d demands.
Fitted(p, d, X) == \A t \in Thread \ X : Fits(p, d, t, p[t])

Exact(s, X) == Fitted(s.prio, Target(s), X)
Dead(s) == {t \in Thread : s.st[t] = "close"}

\* No ready thread is more urgent than CURRENT.
Urgent(s) ==
    s.st[s.cur] = "ready" /\ \A t \in Thread : s.st[t] = "ready" => s.prio[s.cur] <= s.prio[t]

\* CURRENT is the most urgent thread, also while a switch is pending, but for the thread that
\* executes and is about to call schedule().
PriorityInv ==
    /\ MutexInv
    /\ Exact(k, Dead(k))
    /\ Urgent(k) \/ (k.run = k.cur /\ pc[k.cur] \in {"owe", "block"})

-----------------------------------------------------------------------------
(* Priorities in the graph of who waits for whom.                          *)

Prios == [Thread -> Nat]
Graph == {d \in [Thread -> Thread \cup {None}] : \A u \in Thread : d[u] # u}

LEMMA FitsOne ==
    ASSUME NEW p \in Prios, NEW d, NEW t \in Thread, NEW q \in Nat, NEW r \in Nat,
           Fits(p, d, t, q), Fits(p, d, t, r)
    PROVE  q = r
<1>1. Base[t] \in Nat /\ \A u \in Thread : p[u] \in Nat
  BY KernelAssumption DEF Prios
<1>2. q <= r /\ r <= q
  BY <1>1 DEF Fits
<1> QED
  BY <1>2

\* A walk that lets priorities fall (their numbers rise) has come to the thread "at": all
\* others have what they need, and "at" has at least that.  Whatever fell was at P, the
\* priority that went away, and is below it now; nothing behind the walk ends a chain.
Falling(p, d, X, at, P, p0) ==
    /\ \A t \in Thread \ (X \cup {at}) : Fits(p, d, t, p[t])
    /\ at # None =>
         /\ p[at] <= Base[at] /\ \A u \in Thread : d[u] = at => p[at] <= p[u]
         /\ p[at] = P \/ Fits(p, d, at, p[at])
         /\ \A v \in Thread : p[v] # p0[v] => d[v] # None
    /\ \A v \in Thread : p[v] # p0[v] => p0[v] = P /\ P < p[v]
    /\ \A u, v \in Thread :
         p[u] # p0[u] /\ p[v] # p0[v] /\ d[u] = None /\ d[v] = None => u = v

LEMMA FallStops ==
    ASSUME NEW p, NEW d, NEW X, NEW at \in Thread, NEW P, NEW p0,
           Falling(p, d, X, at, P, p0), Fits(p, d, at, p[at])
    PROVE  Falling(p, d, X, None, P, p0)
<1>1. \A t \in Thread \ (X \cup {None}) : Fits(p, d, t, p[t])
  BY DEF Falling
<1> QED
  BY <1>1 DEF Falling

LEMMA FallStep ==
    ASSUME NEW p \in Prios, NEW p0 \in Prios, NEW d \in Graph, NEW X, NEW P \in Nat,
           NEW at \in Thread, Falling(p, d, X, at, P, p0), d[at] \notin X,
           NEW q \in Nat, Fits(p, d, at, q), q # p[at]
    PROVE  /\ Falling([p EXCEPT ![at] = q], d, X, d[at], P, p0)
           /\ p[at] = p0[at]
<1> DEFINE r == [p EXCEPT ![at] = q]
           o == d[at]
<1>1. /\ r \in Prios /\ r[at] = q /\ \A u \in Thread : u # at => r[u] = p[u]
      /\ o \in Thread \cup {None} /\ o # at
      /\ \A u \in Thread : p[u] \in Nat /\ p0[u] \in Nat /\ Base[u] \in Nat /\ d[u] # u
  BY KernelAssumption DEF Prios, Graph
<1>2. p[at] = P /\ P < q
  <2>1. ~ Fits(p, d, at, p[at])
    BY <1>1, FitsOne
  <2>2. p[at] = P
    BY <2>1, KernelAssumption DEF Falling
  <2>3. p[at] <= Base[at] /\ \A u \in Thread : d[u] = at => p[at] <= p[u]
    BY KernelAssumption DEF Falling
  <2>4. p[at] <= q
    BY <2>3 DEF Fits
  <2> QED
    BY <1>1, <2>2, <2>4
<1>3. p[at] = p0[at]
  BY <1>1, <1>2 DEF Falling
<1>4. \A u \in Thread : p[u] <= r[u]
  BY <1>1, <1>2
<1> HIDE DEF r, o
<1>5. ASSUME NEW t \in Thread \ (X \cup {o}) PROVE Fits(r, d, t, r[t])
  <2>1. CASE t = at
    <3>1. \A u \in Thread : d[u] = t => r[u] = p[u]
      BY <1>1, <2>1
    <3> QED
      BY <1>1, <2>1, <3>1 DEF Fits
  <2>2. CASE t # at
    <3>1. Fits(p, d, t, p[t]) /\ r[t] = p[t]
      BY <1>1, <2>2 DEF Falling
    <3>2. \A u \in Thread : d[u] = t => r[u] = p[u]
      BY <1>1, <1>5 DEF o
    <3> QED
      BY <3>1, <3>2 DEF Fits
  <2> QED
    BY <2>1, <2>2
<1>6. ASSUME o # None
      PROVE  /\ r[o] <= Base[o] /\ \A u \in Thread : d[u] = o => r[o] <= r[u]
             /\ r[o] = P \/ Fits(r, d, o, r[o])
             /\ \A v \in Thread : r[v] # p0[v] => d[v] # None
  <2>1. o \in Thread /\ o \notin X \cup {at} /\ r[o] = p[o]
    BY <1>1, <1>6 DEF o
  <2>2. Fits(p, d, o, p[o])
    BY <2>1 DEF Falling
  <2>3. r[o] <= Base[o]
    BY <2>1, <2>2 DEF Fits
  <2>4. ASSUME NEW u \in Thread, d[u] = o PROVE r[o] <= r[u]
    BY <1>1, <1>4, <2>1, <2>2, <2>4 DEF Fits
  <2>5. r[o] = P \/ Fits(r, d, o, r[o])
    <3>1. CASE p[o] = Base[o]
      BY <2>1, <2>3, <2>4, <3>1 DEF Fits
    <3>2. CASE p[o] # Base[o]
      <4>1. PICK u \in Thread : d[u] = o /\ p[o] = p[u]
        BY <2>2, <3>2 DEF Fits
      <4>2. CASE u = at
        BY <1>2, <2>1, <4>1, <4>2
      <4>3. CASE u # at
        <5>1. r[u] = r[o]
          BY <1>1, <2>1, <4>1, <4>3
        <5> QED
          BY <2>3, <2>4, <4>1, <5>1 DEF Fits
      <4> QED
        BY <4>2, <4>3
    <3> QED
      BY <3>1, <3>2
  <2>6. ASSUME NEW v \in Thread, r[v] # p0[v] PROVE d[v] # None
    <3>1. CASE v = at
      BY <1>6, <3>1 DEF o
    <3>2. CASE v # at
      BY <1>1, <2>6, <3>2, KernelAssumption DEF Falling
    <3> QED
      BY <3>1, <3>2
  <2> QED
    BY <2>3, <2>4, <2>5, <2>6
<1>7. ASSUME NEW v \in Thread, r[v] # p0[v] PROVE p0[v] = P /\ P < r[v]
  <2>1. CASE v = at
    BY <1>1, <1>2, <1>3, <2>1
  <2>2. CASE v # at
    BY <1>1, <1>7, <2>2 DEF Falling
  <2> QED
    BY <2>1, <2>2
<1>8. ASSUME NEW u \in Thread, NEW v \in Thread, r[u] # p0[u], r[v] # p0[v],
             d[u] = None, d[v] = None
      PROVE  u = v
  <2>1. \A w \in Thread : p[w] # p0[w] => d[w] # None
    BY KernelAssumption DEF Falling
  <2>2. u = at /\ v = at
    BY <1>1, <1>8, <2>1
  <2> QED
    BY <2>2
<1>9. Falling(r, d, X, o, P, p0)
  BY <1>5, <1>6, <1>7, <1>8 DEF Falling
<1> QED
  BY <1>3, <1>9 DEF r, o

\* A walk that raises priorities to P has come to the thread "at".
Rising(p, d, X, at, P) ==
    /\ \A t \in Thread \ (X \cup {at}) : Fits(p, d, t, p[t])
    /\ at # None => Fits(p, d, at, IF p[at] <= P THEN p[at] ELSE P)

LEMMA RiseStops ==
    ASSUME NEW p, NEW d, NEW X, NEW at \in Thread, NEW P, Rising(p, d, X, at, P), p[at] <= P
    PROVE  Rising(p, d, X, None, P)
<1>1. Fits(p, d, at, p[at])
  BY KernelAssumption DEF Rising
<1>2. \A t \in Thread \ (X \cup {None}) : Fits(p, d, t, p[t])
  BY <1>1 DEF Rising
<1> QED
  BY <1>2 DEF Rising

LEMMA RiseStep ==
    ASSUME NEW p \in Prios, NEW d \in Graph, NEW X, NEW P \in Nat,
           NEW at \in Thread, Rising(p, d, X, at, P), d[at] \notin X, ~ (p[at] <= P)
    PROVE  Rising([p EXCEPT ![at] = P], d, X, d[at], P)
<1> DEFINE r == [p EXCEPT ![at] = P]
           o == d[at]
<1>1. /\ r \in Prios /\ r[at] = P /\ \A u \in Thread : u # at => r[u] = p[u]
      /\ o \in Thread \cup {None} /\ o # at
      /\ \A u \in Thread : p[u] \in Nat /\ r[u] \in Nat /\ Base[u] \in Nat /\ d[u] # u
  BY KernelAssumption DEF Prios, Graph
<1> HIDE DEF r, o
<1>2. ASSUME NEW t \in Thread \ (X \cup {o}) PROVE Fits(r, d, t, r[t])
  <2>1. \A u \in Thread : d[u] = t => r[u] = p[u]
    BY <1>1, <1>2 DEF o
  <2>2. Fits(p, d, t, r[t])
    <3>1. CASE t = at
      BY <1>1, <3>1, KernelAssumption DEF Rising
    <3>2. CASE t # at
      BY <1>1, <3>2 DEF Rising
    <3> QED
      BY <3>1, <3>2
  <2> QED
    BY <2>1, <2>2 DEF Fits
<1>3. ASSUME o # None PROVE Fits(r, d, o, IF r[o] <= P THEN r[o] ELSE P)
  <2>1. o \in Thread /\ o \notin X \cup {at} /\ r[o] = p[o] /\ d[at] = o
    BY <1>1, <1>3 DEF o
  <2>2. Fits(p, d, o, p[o])
    BY <2>1 DEF Rising
  <2>3. CASE p[o] <= P
    <3>1. ASSUME NEW u \in Thread, d[u] = o PROVE p[o] <= r[u]
      BY <1>1, <2>2, <2>3, <3>1 DEF Fits
    <3>2. p[o] = Base[o] \/ \E u \in Thread : d[u] = o /\ p[o] = r[u]
      <4>1. SUFFICES ASSUME p[o] # Base[o] PROVE \E u \in Thread : d[u] = o /\ p[o] = r[u]
        OBVIOUS
      <4>2. PICK u \in Thread : d[u] = o /\ p[o] = p[u]
        BY <2>2, <4>1 DEF Fits
      <4>3. u # at
        BY <2>3, <4>2
      <4> QED
        BY <1>1, <4>2, <4>3
    <3>3. Fits(r, d, o, p[o])
      BY <2>2, <3>1, <3>2 DEF Fits
    <3> QED
      BY <2>1, <2>3, <3>3
  <2>4. CASE ~ (p[o] <= P)
    <3>1. P <= Base[o]
      BY <1>1, <2>1, <2>2, <2>4 DEF Fits
    <3>2. ASSUME NEW u \in Thread, d[u] = o PROVE P <= r[u]
      BY <1>1, <2>1, <2>2, <2>4, <3>2 DEF Fits
    <3>3. Fits(r, d, o, P)
      BY <1>1, <2>1, <3>1, <3>2 DEF Fits
    <3> QED
      BY <2>1, <2>4, <3>3
  <2> QED
    BY <2>3, <2>4
<1>4. Rising(r, d, X, o, P)
  BY <1>2, <1>3 DEF Rising
<1> QED
  BY <1>4 DEF r, o

-----------------------------------------------------------------------------
(* What the loops look at.                                                 *)

LEMMA TargetGraph ==
    ASSUME NEW s \in MutexRec, NEW F, Owners(s, F)
    PROVE  Target(s) \in Graph
<1>1. ASSUME NEW u \in Thread PROVE Target(s)[u] \in Thread \cup {None} /\ Target(s)[u] # u
  <2>1. CASE s.pending[u] = None
    BY <2>1, KernelAssumption DEF Target
  <2>2. CASE s.pending[u] # None
    <3>1. s.pending[u] \in Queue /\ s.owner[s.pending[u]] # u
      BY <2>2 DEF MutexRec, Owners
    <3>2. s.owner[s.pending[u]] \in Thread \cup {None}
      BY <3>1 DEF MutexRec
    <3> QED
      BY <2>2, <3>1, <3>2 DEF Target
  <2> QED
    BY <2>1, <2>2
<1> QED
  BY <1>1 DEF Graph, Target

LEMMA SuccessorIs ==
    ASSUME NEW s \in MutexRec, NEW F, Owners(s, F), NEW t \in Thread
    PROVE  (IF s.pending[t] = None THEN None ELSE Successor(s, t)) = Target(s)[t]
<1>1. s.pending[t] # None => s.owner[s.pending[t]] # t
  BY DEF Owners
<1> QED
  BY <1>1, KernelAssumption DEF Successor, Target

\* EffectivePriority looks at the first waiters only, which are the most urgent.
LEMMA EffectiveFits ==
    ASSUME NEW s \in MutexRec, NEW F, Lines(s), Owners(s, F), NEW t \in Thread
    PROVE  /\ EffectivePriority(s, t) \in Nat
           /\ Fits(s.prio, Target(s), t, EffectivePriority(s, t))
<1> DEFINE M == {m \in ToSet(s.taken[t]) : s.wq[m] # <<>>}
           heads == {s.prio[Head(s.wq[m])] : m \in M}
           I == {Base[t]} \cup heads
           q == EffectivePriority(s, t)
<1>1. /\ Base[t] \in Nat /\ s.prio \in [Thread -> Nat] /\ s.wq \in [Queue -> Seq(Thread)]
      /\ s.pending \in [Thread -> Queue \cup {None}] /\ s.taken[t] \in Seq(Queue)
  BY KernelAssumption DEF MutexRec
<1>2. \A m \in M : m \in Queue /\ s.owner[m] = t
  <2>1. ASSUME NEW m \in M PROVE m \in Queue /\ s.owner[m] = t
    <3>1. m \in ToSet(s.taken[t])
      OBVIOUS
    <3>2. m \in Queue
      BY <1>1, <3>1 DEF ToSet
    <3> QED
      BY <3>1, <3>2 DEF Owners
  <2> QED
    BY <2>1
<1>3. ASSUME NEW m \in Queue, s.wq[m] # <<>>
      PROVE  LET h == Head(s.wq[m])
             IN  /\ h \in Thread /\ s.pending[h] = m
                 /\ \A u \in Thread : s.pending[u] = m => s.prio[h] <= s.prio[u]
  <2>1. s.wq[m] \in Seq(Thread) /\ 1 \in DOMAIN s.wq[m] /\ Head(s.wq[m]) = s.wq[m][1]
    BY <1>1, <1>3
  <2>2. s.wq[m][1] \in Thread /\ s.wq[m][1] \in ToSet(s.wq[m])
    BY <2>1 DEF ToSet
  <2>3. s.pending[s.wq[m][1]] = m
    BY <2>2 DEF Lines
  <2>4. ASSUME NEW u \in Thread, s.pending[u] = m PROVE s.prio[s.wq[m][1]] <= s.prio[u]
    <3>1. u \in ToSet(s.wq[m])
      BY <2>4 DEF Lines
    <3>2. PICK i \in DOMAIN s.wq[m] : s.wq[m][i] = u
      BY <2>1, <3>1 DEF ToSet
    <3>3. i = 1 \/ 1 < i
      BY <2>1, <3>2
    <3>4. CASE i = 1
      BY <1>1, <2>2, <3>2, <3>4
    <3>5. CASE 1 < i
      BY <2>1, <3>2, <3>5 DEF Lines, Ordered
    <3> QED
      BY <3>3, <3>4, <3>5
  <2> QED
    BY <2>1, <2>2, <2>3, <2>4
<1>4. q = Min(I)
  BY DEF EffectivePriority
<1>5. I \in SUBSET Nat /\ I # {}
  <2>1. \A m \in M : s.prio[Head(s.wq[m])] \in Nat
    BY <1>1, <1>2, <1>3
  <2> QED
    BY <1>1, <2>1
<1>6. q \in I /\ \A y \in I : q <= y
  <2> HIDE DEF I, q
  <2> QED
    BY <1>4, <1>5, LeastElement DEF Min
<1>7. q <= Base[t]
  BY <1>6
<1>8. ASSUME NEW u \in Thread, Target(s)[u] = t PROVE q <= s.prio[u]
  <2> DEFINE m == s.pending[u]
  <2>1. m \in Queue /\ s.owner[m] = t
    BY <1>1, <1>8, KernelAssumption DEF Target
  <2>2. m \in ToSet(s.taken[t]) /\ u \in ToSet(s.wq[m])
    BY <2>1 DEF Owners, Lines
  <2>3. s.wq[m] # <<>>
    BY <2>2 DEF ToSet
  <2>4. s.prio[Head(s.wq[m])] \in I
    BY <2>2, <2>3
  <2>5. Head(s.wq[m]) \in Thread /\ s.prio[Head(s.wq[m])] <= s.prio[u]
    BY <1>3, <2>1, <2>3
  <2>6. q <= s.prio[Head(s.wq[m])]
    BY <1>6, <2>4
  <2>7. q \in Nat
    BY <1>5, <1>6
  <2> HIDE DEF q, m
  <2> QED
    BY <1>1, <2>5, <2>6, <2>7
<1>9. q = Base[t] \/ \E u \in Thread : Target(s)[u] = t /\ q = s.prio[u]
  <2>1. SUFFICES ASSUME q # Base[t] PROVE \E u \in Thread : Target(s)[u] = t /\ q = s.prio[u]
    OBVIOUS
  <2>2. PICK m \in M : q = s.prio[Head(s.wq[m])]
    BY <1>6, <2>1
  <2>3. m \in Queue /\ s.owner[m] = t /\ s.wq[m] # <<>>
    BY <1>2
  <2>4. Head(s.wq[m]) \in Thread /\ s.pending[Head(s.wq[m])] = m
    BY <1>3, <2>3
  <2>5. Target(s)[Head(s.wq[m])] = t
    BY <2>3, <2>4, KernelAssumption DEF Target
  <2> QED
    BY <2>2, <2>4, <2>5
<1>10. q \in Nat
  BY <1>5, <1>6
<1> QED
  BY <1>7, <1>8, <1>9, <1>10 DEF Fits

-----------------------------------------------------------------------------
(* The walks end.                                                          *)

\* A set that grows in each round while a loop is live cannot do so in more rounds than
\* it can have elements.
LEMMA GrowthEnds ==
    ASSUME NEW T, IsFiniteSet(T), NEW n \in Nat, Cardinality(T) < n,
           NEW f, NEW live, \A i \in 0 .. n : f[i] \subseteq T,
           \A i \in 1 .. n : live[i] =>
             live[i - 1] /\ f[i - 1] \subseteq f[i] /\ f[i - 1] # f[i]
    PROVE  ~ live[n]
<1> DEFINE Bad == {i \in 0 .. n : live[i] /\ ~ (i <= Cardinality(f[i]))}
<1>1. \A i \in 0 .. n : IsFiniteSet(f[i]) /\ Cardinality(f[i]) \in Nat /\ Cardinality(f[i]) <= Cardinality(T)
  BY FS_Subset, FS_CardinalityType
<1>2. Bad = {}
  <2>1. SUFFICES ASSUME Bad # {} PROVE FALSE
    OBVIOUS
  <2>2. Bad \in SUBSET Nat
    OBVIOUS
  <2>3. PICK i \in Bad : \A j \in Bad : i <= j
    <3> HIDE DEF Bad
    <3> QED
      BY <2>1, <2>2, LeastElement
  <2>4. i \in 0 .. n /\ live[i] /\ ~ (i <= Cardinality(f[i]))
    OBVIOUS
  <2>5. i # 0
    BY <1>1, <2>4
  <2>6. i \in 1 .. n /\ i - 1 \in 0 .. n /\ ~ (i <= i - 1)
    BY <2>4, <2>5
  <2>7. live[i - 1] /\ f[i - 1] \subseteq f[i] /\ f[i - 1] # f[i]
    BY <2>4, <2>6
  <2>8. i - 1 <= Cardinality(f[i - 1])
    <3>1. i - 1 \notin Bad
      <4> HIDE DEF Bad
      <4> QED
        BY <2>3, <2>6
    <3> QED
      BY <2>6, <2>7, <3>1
  <2>9. Cardinality(f[i - 1]) < Cardinality(f[i])
    <3>1. IsFiniteSet(f[i])
      BY <1>1, <2>4
    <3>2. Cardinality(f[i - 1]) <= Cardinality(f[i])
          /\ (Cardinality(f[i - 1]) = Cardinality(f[i]) => f[i - 1] = f[i])
      BY <2>7, <3>1, FS_Subset
    <3> QED
      BY <1>1, <2>4, <2>6, <2>7, <3>2
  <2> QED
    BY <1>1, <2>4, <2>6, <2>8, <2>9
<1>3. live[n] => n <= Cardinality(f[n])
  <2>1. n \in 0 .. n /\ n \notin Bad
    BY <1>2
  <2> HIDE DEF Bad
  <2> QED
    BY <2>1 DEF Bad
<1>4. Cardinality(T) \in Nat /\ n \in 0 .. n
  BY FS_CardinalityType
<1> QED
  BY <1>1, <1>3, <1>4

LEMMA ReprioritizedPrio ==
    ASSUME NEW s \in MutexRec, NEW t \in Thread, NEW q \in Nat
    PROVE  Reprioritized(s, t, q).prio = [s.prio EXCEPT ![t] = q]
<1> DEFINE s1 == [s EXCEPT !.prio[t] = q]
<1>1. s1 \in MutexRec /\ s1.prio = [s.prio EXCEPT ![t] = q]
  BY DEF MutexRec
<1> HIDE DEF s1
<1>2. Requeue(s1, t).prio = s1.prio
  BY <1>1 DEF Requeue, MutexRec
<1>3. Reprioritized(s, t, q) = IF s.pending[t] = None THEN s1 ELSE Requeue(s1, t)
  BY DEF Reprioritized, s1
<1> QED
  BY <1>1, <1>2, <1>3

\* What a round of a walk that began at x does.
LEMMA RoundIs ==
    ASSUME NEW x \in MutexRec, NEW F, Owners(x, F), NEW w \in WalkRec(x), w.at # None,
           NEW q \in Nat, NEW stop \in BOOLEAN, NEW entry
    PROVE  LET y == ChainStep(w, q, stop, entry)
               o == Target(x)[w.at]
           IN  /\ stop => y.at = None /\ y.s = w.s
               /\ ~stop => /\ y.s.prio = [w.s.prio EXCEPT ![w.at] = q]
                           /\ y.at = IF o = entry /\ w.entered THEN None ELSE o
                           /\ y.entered = (w.entered \/ o = entry)
<1>1. w \in [s : MutexRec, at : Thread \cup {None}, entered : BOOLEAN] /\ Shuffled(x, w.s)
      /\ w.at \in Thread
  BY DEF WalkRec
<1>2. CASE stop
  BY <1>1, <1>2 DEF ChainStep
<1>3. CASE ~stop
  <2> DEFINE s == Reprioritized(w.s, w.at, q)
             n == IF w.s.pending[w.at] = None THEN None ELSE Successor(s, w.at)
  <2>1. ChainStep(w, q, stop, entry) =
          [s |-> s, at |-> IF n = entry /\ w.entered THEN None ELSE n,
           entered |-> w.entered \/ n = entry]
    BY <1>3 DEF ChainStep
  <2>2. w.s \in MutexRec /\ Lines(w.s)
    BY <1>1 DEF Shuffled
  <2>3. Shuffled(x, s)
    BY <1>1, <2>2, ReprioritizedIs, ShuffledTrans
  <2>4. s.prio = [w.s.prio EXCEPT ![w.at] = q]
    BY <1>1, <2>2, ReprioritizedPrio
  <2> HIDE DEF s
  <2>5. s \in MutexRec /\ Owners(s, F) /\ s.pending = w.s.pending /\ Target(s) = Target(x)
    BY <1>1, <2>3 DEF Shuffled, Owners, Target
  <2>6. n = Target(x)[w.at]
    BY <1>1, <2>5, SuccessorIs
  <2> HIDE DEF n
  <2> QED
    BY <1>3, <2>1, <2>4, <2>6
<1> QED
  BY <1>2, <1>3

LEMMA WalkFacts ==
    ASSUME NEW x \in MutexRec, NEW F, Owners(x, F), NEW w \in WalkRec(x)
    PROVE  /\ w.s \in MutexRec /\ Lines(w.s) /\ Owners(w.s, F) /\ Target(w.s) = Target(x)
           /\ w.s.prio \in Prios /\ w.at \in Thread \cup {None} /\ w.entered \in BOOLEAN
<1>1. w \in [s : MutexRec, at : Thread \cup {None}, entered : BOOLEAN] /\ Shuffled(x, w.s)
  BY DEF WalkRec
<1>2. w.s \in MutexRec /\ Lines(w.s) /\ Owners(w.s, F) /\ Target(w.s) = Target(x)
  BY <1>1 DEF Shuffled, Owners, Target
<1> QED
  BY <1>1, <1>2 DEF Prios, MutexRec

Changed(x, w) == {v \in Thread : w.s.prio[v] # x.prio[v]}

\* A walk that has entered the cycle has been at its entry, or is there.
FallState(x, X, P, entry) ==
    {w \in WalkRec(x) :
       /\ Falling(w.s.prio, Target(x), X, w.at, P, x.prio) /\ w.at \notin X
       /\ w.entered /\ entry \in Thread => entry \in {w.at} \cup Changed(x, w)}

LEMMA FallRound ==
    ASSUME NEW x \in MutexRec, Lines(x), NEW F, Owners(x, F), NEW X \in SUBSET Thread, NEW P \in Nat,
           \A u \in Thread : Target(x)[u] \notin X,
           NEW entry, NEW w \in FallState(x, X, P, entry), w.at # None
    PROVE  LET y == RecomputeRound(w, entry)
           IN  /\ y \in FallState(x, X, P, entry) \/ y.at = None
               /\ y.at = None => Falling(y.s.prio, Target(x), X, None, P, x.prio)
               /\ y.at # None => Changed(x, w) \subseteq Changed(x, y) /\ Changed(x, w) # Changed(x, y)
<1> DEFINE q == EffectivePriority(w.s, w.at)
           d == Target(x)
           p == w.s.prio
           o == d[w.at]
           y == RecomputeRound(w, entry)
           stop == w.at # None /\ p[w.at] = q
<1>1. w \in WalkRec(x) /\ w.at \in Thread /\ w.at \notin X /\ Falling(p, d, X, w.at, P, x.prio)
  BY WalkFacts DEF FallState
<1>2. /\ w.s \in MutexRec /\ Lines(w.s) /\ Owners(w.s, F) /\ Target(w.s) = d
      /\ p \in Prios /\ x.prio \in Prios /\ d \in Graph
  BY <1>1, WalkFacts, TargetGraph DEF MutexRec, Prios
<1>3. q \in Nat /\ Fits(p, d, w.at, q)
  <2>1. q \in Nat /\ Fits(w.s.prio, Target(w.s), w.at, q)
    BY <1>1, <1>2, EffectiveFits
  <2> QED
    BY <1>2, <2>1
<1>4. y = ChainStep(w, q, stop, entry)
  BY DEF RecomputeRound
<1>5. y \in WalkRec(x)
  <2> HIDE DEF q, stop, y
  <2> QED
    BY <1>1, <1>3, <1>4, StepIn
<1>6. stop \in BOOLEAN
  OBVIOUS
<1> HIDE DEF q, d, y, stop
<1>7. /\ stop => y.at = None /\ y.s = w.s
      /\ ~stop => /\ y.s.prio = [p EXCEPT ![w.at] = q]
                  /\ y.at = IF o = entry /\ w.entered THEN None ELSE o
                  /\ y.entered = (w.entered \/ o = entry)
  <2>1. LET z == ChainStep(w, q, stop, entry)
            n == Target(x)[w.at]
        IN  /\ stop => z.at = None /\ z.s = w.s
            /\ ~stop => /\ z.s.prio = [w.s.prio EXCEPT ![w.at] = q]
                        /\ z.at = IF n = entry /\ w.entered THEN None ELSE n
                        /\ z.entered = (w.entered \/ n = entry)
    BY <1>1, <1>3, <1>6, RoundIs
  <2> QED
    BY <1>4, <2>1 DEF d
<1>8. CASE stop
  <2>1. Fits(p, d, w.at, p[w.at])
    BY <1>3, <1>8 DEF stop
  <2>2. Falling(p, d, X, None, P, x.prio)
    BY <1>1, <2>1, FallStops
  <2> QED
    BY <1>7, <1>8, <2>2 DEF y, d
<1>9. CASE ~stop
  <2> DEFINE r == [p EXCEPT ![w.at] = q]
  <2>1. q # p[w.at]
    BY <1>1, <1>9, KernelAssumption DEF stop
  <2>2. o \in Thread \cup {None} /\ o # w.at /\ o \notin X
    BY <1>1, <1>2 DEF Graph, d
  <2>3. Falling(r, d, X, o, P, x.prio) /\ p[w.at] = x.prio[w.at]
    BY SMTT(30), <1>1, <1>2, <1>3, <2>1, <2>2, FallStep
  <2>4. /\ r[w.at] # x.prio[w.at]
        /\ \A v \in Thread : v # w.at => r[v] = p[v]
    BY <1>1, <1>2, <2>1, <2>3 DEF Prios
  <2> HIDE DEF r
  <2>5. y.s.prio = r
    BY <1>7, <1>9 DEF r
  <2>6. /\ Changed(x, y) = Changed(x, w) \cup {w.at}
        /\ w.at \notin Changed(x, w)
    BY <1>1, <2>3, <2>4, <2>5 DEF Changed
  <2>7. CASE o = entry /\ w.entered /\ o # None
    <3>1. entry \in Changed(x, w)
      BY <2>2, <2>7 DEF FallState
    <3>2. r[o] # x.prio[o] /\ o \in Thread
      BY <2>2, <2>4, <2>7, <3>1 DEF Changed
    <3>3. Fits(r, d, o, r[o])
      <4>1. P < r[o] /\ (r[o] = P \/ Fits(r, d, o, r[o]))
        BY <2>3, <2>7, <3>2 DEF Falling
      <4> QED
        BY <4>1
    <3>4. Falling(r, d, X, None, P, x.prio)
      BY <2>3, <3>2, <3>3, FallStops
    <3> QED
      BY <1>7, <1>9, <2>5, <2>7, <3>4 DEF y, d
  <2>8. CASE ~ (o = entry /\ w.entered /\ o # None)
    <3>1. y.at = o /\ y.entered = (w.entered \/ o = entry)
      BY <1>7, <1>9, <2>8
    <3>2. Falling(y.s.prio, d, X, y.at, P, x.prio) /\ y.at \notin X
      BY <2>2, <2>3, <2>5, <3>1
    <3>3. y.entered /\ entry \in Thread => entry \in {y.at} \cup Changed(x, y)
      BY <2>6, <3>1 DEF FallState
    <3>4. y \in FallState(x, X, P, entry)
      BY <1>5, <3>2, <3>3 DEF FallState, d
    <3> QED
      BY <2>6, <3>2, <3>4 DEF y, d
  <2> QED
    BY <2>7, <2>8
<1> QED
  BY <1>8, <1>9

\* recompute_priority_chain, with P the priority of what does not wait for t any more.
LEMMA RecomputeFalls ==
    ASSUME NEW x \in MutexRec, Lines(x), NEW F, Owners(x, F), NEW X \in SUBSET Thread, NEW P \in Nat,
           \A u \in Thread : Target(x)[u] \notin X,
           NEW t \in Thread \ X, Falling(x.prio, Target(x), X, t, P, x.prio)
    PROVE  Falling(RecomputeChain(x, t).prio, Target(x), X, None, P, x.prio)
<1> DEFINE entry == CycleEntry(x, t)
           d == Target(x)
           Ended == {w \in WalkRec(x) : w.at = None /\ Falling(w.s.prio, d, X, None, P, x.prio)}
           S == FallState(x, X, P, entry) \cup Ended
<1>1. PICK h \in [0 .. Rounds -> WalkRec(x)] :
        /\ h[0] = WalkStart(x, t)
        /\ \A i \in 1 .. Rounds : h[i] = RecomputeRound(h[i - 1], entry)
        /\ RecomputeChain(x, t) = h[Rounds].s
  BY RecomputeRounds
<1>2. h[0] \in S
  <2>1. WalkStart(x, t) \in WalkRec(x)
    BY StartIn DEF WalkStart
  <2>2. /\ h[0] = WalkStart(x, t) /\ h[0].s = x /\ h[0].at = t
        /\ h[0].entered = (t = entry)
    BY <1>1 DEF WalkStart
  <2> HIDE DEF entry
  <2>3. h[0] \in FallState(x, X, P, entry)
    BY <2>1, <2>2 DEF FallState
  <2> QED
    BY <2>2, <2>3
<1> HIDE DEF entry
<1>3. ASSUME NEW i \in 1 .. Rounds, h[i - 1] \in S
      PROVE  /\ h[i] \in S
             /\ h[i].at # None =>
                  /\ h[i - 1].at # None /\ Changed(x, h[i - 1]) \subseteq Changed(x, h[i])
                  /\ Changed(x, h[i - 1]) # Changed(x, h[i])
  <2> DEFINE w == h[i - 1]
  <2>1. h[i] = RecomputeRound(w, entry) /\ h[i] \in WalkRec(x)
    BY <1>1, RoundsNat
  <2>2. CASE w.at = None
    <3>1. h[i] = w
      BY <2>1, <2>2 DEF RecomputeRound, ChainStep
    <3> QED
      BY <1>3, <2>2, <3>1
  <2>3. CASE w.at # None
    <3>1. w \in FallState(x, X, P, entry)
      BY <1>3, <2>3
    <3> HIDE DEF w
    <3>2. LET y == RecomputeRound(w, entry)
          IN  /\ y \in FallState(x, X, P, entry) \/ y.at = None
              /\ y.at = None => Falling(y.s.prio, Target(x), X, None, P, x.prio)
              /\ y.at # None => Changed(x, w) \subseteq Changed(x, y) /\ Changed(x, w) # Changed(x, y)
      BY <2>3, <3>1, FallRound
    <3> QED
      BY <2>1, <2>3, <3>2 DEF w
  <2> QED
    BY <2>2, <2>3
<1>4. \A i \in 0 .. Rounds : h[i] \in S
  <2> HIDE DEF S
  <2> QED
    BY <1>2, <1>3, RoundsNat, StaysIn
<1>5. h[Rounds].at = None
  <2> DEFINE f == [i \in 0 .. Rounds |-> Changed(x, h[i])]
             live == [i \in 0 .. Rounds |-> h[i].at # None]
  <2>1. Cardinality(Thread) < Rounds
    BY KernelAssumption, FS_CardinalityType DEF Rounds
  <2>2. \A i \in 0 .. Rounds : f[i] \subseteq Thread
    BY DEF Changed
  <2>3. ASSUME NEW i \in 1 .. Rounds, live[i]
        PROVE  live[i - 1] /\ f[i - 1] \subseteq f[i] /\ f[i - 1] # f[i]
    <3>1. i \in 0 .. Rounds /\ i - 1 \in 0 .. Rounds
      BY RoundsNat
    <3> QED
      BY <1>3, <1>4, <2>3, <3>1
  <2>4. Rounds \in 0 .. Rounds
    BY RoundsNat
  <2>5. live[Rounds] = (h[Rounds].at # None)
    BY <2>4
  <2> HIDE DEF f, live
  <2>6. ~ live[Rounds]
    BY <2>1, <2>2, <2>3, RoundsNat, KernelAssumption, GrowthEnds
  <2> QED
    BY <2>5, <2>6
<1>6. h[Rounds] \in S
  BY <1>4, RoundsNat
<1> QED
  BY <1>1, <1>5, <1>6 DEF FallState

\* priority_inherit.  A walk that has entered the cycle has raised its entry, or is there.
RiseState(x, d, X, P, entry) ==
    {w \in WalkRec(x) :
       /\ Rising(w.s.prio, d, X, w.at, P) /\ w.at \notin X
       /\ w.entered /\ entry \in Thread => entry = w.at \/ w.s.prio[entry] <= P}

\* The threads that have been raised at least to P.
Raised(w, P) == {v \in Thread : w.s.prio[v] <= P}

\* In x, c is about to wait, and d says for whom already; nobody waits for a thread in X.
Leads(x, F, X, c, d) ==
    /\ x \in MutexRec /\ Lines(x) /\ Owners(x, F) /\ c \in Thread
    /\ d \in Graph /\ \A u \in Thread : d[u] \notin X /\ (u # c => d[u] = Target(x)[u])

LEMMA RiseRound ==
    ASSUME NEW x, NEW F, NEW X, NEW P \in Nat, NEW c, NEW d, Leads(x, F, X, c, d),
           NEW entry, NEW w \in RiseState(x, d, X, P, entry), w.at # None, w.s.prio[c] = P
    PROVE  LET y == InheritRound(w, P, entry)
           IN  /\ y \in RiseState(x, d, X, P, entry) \/ y.at = None
               /\ y.at = None => Rising(y.s.prio, d, X, None, P)
               /\ y.at # None => Raised(w, P) \subseteq Raised(y, P) /\ Raised(w, P) # Raised(y, P)
               /\ y.s.prio[c] = P
<1> DEFINE p == w.s.prio
           o == d[w.at]
           y == InheritRound(w, P, entry)
           stop == w.at # None /\ p[w.at] <= P
<1>0. x \in MutexRec /\ Lines(x) /\ Owners(x, F) /\ c \in Thread /\ d \in Graph
  BY DEF Leads
<1>1. w \in WalkRec(x) /\ w.at \in Thread /\ w.at \notin X /\ Rising(p, d, X, w.at, P)
  BY <1>0, WalkFacts DEF RiseState
<1>2. w.s \in MutexRec /\ p \in Prios /\ \A v \in Thread : p[v] \in Nat
  BY <1>0, <1>1, WalkFacts DEF Prios
<1>4. y = ChainStep(w, P, stop, entry)
  BY DEF InheritRound
<1>5. y \in WalkRec(x)
  <2> HIDE DEF stop, y
  <2> QED
    BY <1>0, <1>1, <1>4, StepIn
<1>6. stop \in BOOLEAN
  OBVIOUS
<1> HIDE DEF y, stop
<1>7. /\ stop => y.at = None /\ y.s = w.s
      /\ ~stop => /\ y.s.prio = [p EXCEPT ![w.at] = P]
                  /\ w.at # c
                  /\ y.at = IF o = entry /\ w.entered THEN None ELSE o
                  /\ y.entered = (w.entered \/ o = entry)
  <2>1. LET z == ChainStep(w, P, stop, entry)
            n == Target(x)[w.at]
        IN  /\ stop => z.at = None /\ z.s = w.s
            /\ ~stop => /\ z.s.prio = [w.s.prio EXCEPT ![w.at] = P]
                        /\ z.at = IF n = entry /\ w.entered THEN None ELSE n
                        /\ z.entered = (w.entered \/ n = entry)
    BY <1>0, <1>1, <1>6, RoundIs
  <2>2. ~stop => w.at # c
    BY <1>1, KernelAssumption DEF stop
  <2>3. ~stop => o = Target(x)[w.at]
    BY <1>1, <2>2 DEF Leads
  <2> QED
    BY <1>4, <2>1, <2>2, <2>3
<1>8. CASE stop
  <2>1. Rising(p, d, X, None, P)
    <3>1. p[w.at] <= P
      BY <1>8 DEF stop
    <3> QED
      BY <1>1, <3>1, RiseStops
  <2> QED
    BY <1>7, <1>8, <2>1 DEF y
<1>9. CASE ~stop
  <2> DEFINE r == [p EXCEPT ![w.at] = P]
  <2>1. ~ (p[w.at] <= P)
    BY <1>1, <1>9, KernelAssumption DEF stop
  <2>2. o \in Thread \cup {None} /\ o # w.at /\ o \notin X
    BY <1>1 DEF Graph, Leads
  <2>3. Rising(r, d, X, o, P)
    BY <1>0, <1>1, <1>2, <2>1, <2>2, RiseStep
  <2>4. /\ r[w.at] = P
        /\ \A v \in Thread : v # w.at => r[v] = p[v]
    BY <1>1, <1>2 DEF Prios
  <2> HIDE DEF r, o
  <2>5. y.s.prio = r
    BY <1>7, <1>9 DEF r
  <2>6. /\ Raised(y, P) = Raised(w, P) \cup {w.at}
        /\ w.at \notin Raised(w, P)
    BY <1>1, <2>1, <2>4, <2>5 DEF Raised
  <2>7. y.s.prio[c] = P
    BY <1>0, <1>1, <1>2, <1>7, <1>9, <2>1, <2>4, <2>5
  <2>8. CASE o = entry /\ w.entered /\ o # None
    <3>1. o \in Thread /\ r[o] <= P
      BY <2>2, <2>4, <2>8 DEF RiseState
    <3>2. Rising(r, d, X, None, P)
      BY <2>3, <3>1, RiseStops
    <3> QED
      BY <1>7, <1>9, <2>5, <2>7, <2>8, <3>2 DEF y
  <2>9. CASE ~ (o = entry /\ w.entered /\ o # None)
    <3>1. y.at = o /\ y.entered = (w.entered \/ o = entry)
      BY <1>7, <1>9, <2>9
    <3>2. Rising(y.s.prio, d, X, y.at, P) /\ y.at \notin X
      BY <2>2, <2>3, <2>5, <3>1
    <3>3. y.entered /\ entry \in Thread => entry = y.at \/ y.s.prio[entry] <= P
      <4>1. SUFFICES ASSUME y.entered, entry \in Thread, entry # y.at PROVE y.s.prio[entry] <= P
        OBVIOUS
      <4>2. w.entered
        BY <3>1, <4>1
      <4>3. CASE entry = w.at
        BY <2>4, <2>5, <4>3
      <4>4. CASE entry # w.at
        BY <2>4, <2>5, <4>1, <4>2, <4>4 DEF RiseState
      <4> QED
        BY <4>3, <4>4
    <3>4. y \in RiseState(x, d, X, P, entry)
      BY <1>5, <3>2, <3>3 DEF RiseState
    <3> QED
      BY <2>6, <2>7, <3>2, <3>4 DEF y
  <2> QED
    BY <2>8, <2>9
<1> QED
  BY <1>8, <1>9

LEMMA InheritRises ==
    ASSUME NEW x, NEW F, NEW X, NEW P \in Nat, NEW c, NEW d, Leads(x, F, X, c, d),
           x.prio[c] = P, NEW t \in Thread \ X, Rising(x.prio, d, X, t, P)
    PROVE  /\ Rising(PriorityInherit(x, t, P).prio, d, X, None, P)
           /\ PriorityInherit(x, t, P).prio[c] = P
<1> DEFINE entry == CycleEntry(x, t)
           Ended == {w \in WalkRec(x) : w.at = None /\ Rising(w.s.prio, d, X, None, P)}
           S == {w \in RiseState(x, d, X, P, entry) \cup Ended : w.s.prio[c] = P}
<1>0. x \in MutexRec /\ Lines(x)
  BY DEF Leads
<1>1. PICK h \in [0 .. Rounds -> WalkRec(x)] :
        /\ h[0] = WalkStart(x, t)
        /\ \A i \in 1 .. Rounds : h[i] = InheritRound(h[i - 1], P, entry)
        /\ PriorityInherit(x, t, P) = h[Rounds].s
  BY <1>0, PriorityInheritRounds
<1>2. h[0] \in S
  <2>1. WalkStart(x, t) \in WalkRec(x)
    BY <1>0, StartIn DEF WalkStart
  <2>2. /\ h[0] = WalkStart(x, t) /\ h[0].s = x /\ h[0].at = t
        /\ h[0].entered = (t = entry)
    BY <1>1 DEF WalkStart
  <2> HIDE DEF entry
  <2>3. h[0] \in RiseState(x, d, X, P, entry)
    BY <2>1, <2>2 DEF RiseState
  <2> QED
    BY <2>2, <2>3
<1> HIDE DEF entry
<1>3. ASSUME NEW i \in 1 .. Rounds, h[i - 1] \in S
      PROVE  /\ h[i] \in S
             /\ h[i].at # None =>
                  /\ h[i - 1].at # None /\ Raised(h[i - 1], P) \subseteq Raised(h[i], P)
                  /\ Raised(h[i - 1], P) # Raised(h[i], P)
  <2> DEFINE w == h[i - 1]
  <2>1. h[i] = InheritRound(w, P, entry) /\ h[i] \in WalkRec(x)
    BY <1>1, RoundsNat
  <2>2. CASE w.at = None
    <3>1. h[i] = w
      BY <2>1, <2>2 DEF InheritRound, ChainStep
    <3> QED
      BY <1>3, <2>2, <3>1
  <2>3. CASE w.at # None
    <3>1. w \in RiseState(x, d, X, P, entry) /\ w.s.prio[c] = P
      BY <1>3, <2>3
    <3> HIDE DEF w
    <3>2. LET y == InheritRound(w, P, entry)
          IN  /\ y \in RiseState(x, d, X, P, entry) \/ y.at = None
              /\ y.at = None => Rising(y.s.prio, d, X, None, P)
              /\ y.at # None => Raised(w, P) \subseteq Raised(y, P) /\ Raised(w, P) # Raised(y, P)
              /\ y.s.prio[c] = P
      BY SMTT(30), <2>3, <3>1, RiseRound
    <3> QED
      BY <2>1, <2>3, <3>2 DEF w
  <2> QED
    BY <2>2, <2>3
<1>4. \A i \in 0 .. Rounds : h[i] \in S
  <2> HIDE DEF S
  <2> QED
    BY <1>2, <1>3, RoundsNat, StaysIn
<1>5. h[Rounds].at = None
  <2> DEFINE f == [i \in 0 .. Rounds |-> Raised(h[i], P)]
             live == [i \in 0 .. Rounds |-> h[i].at # None]
  <2>1. Cardinality(Thread) < Rounds
    BY KernelAssumption, FS_CardinalityType DEF Rounds
  <2>2. \A i \in 0 .. Rounds : f[i] \subseteq Thread
    BY DEF Raised
  <2>3. ASSUME NEW i \in 1 .. Rounds, live[i]
        PROVE  live[i - 1] /\ f[i - 1] \subseteq f[i] /\ f[i - 1] # f[i]
    <3>1. i \in 0 .. Rounds /\ i - 1 \in 0 .. Rounds
      BY RoundsNat
    <3> QED
      BY <1>3, <1>4, <2>3, <3>1
  <2>4. Rounds \in 0 .. Rounds
    BY RoundsNat
  <2>5. live[Rounds] = (h[Rounds].at # None)
    BY <2>4
  <2> HIDE DEF f, live
  <2>6. ~ live[Rounds]
    BY <2>1, <2>2, <2>3, RoundsNat, KernelAssumption, GrowthEnds
  <2> QED
    BY <2>5, <2>6
<1>6. h[Rounds] \in S
  BY <1>4, RoundsNat
<1> QED
  BY <1>1, <1>5, <1>6 DEF RiseState
-----------------------------------------------------------------------------
(* Edges that come and go.                                                 *)

\* A mutex is freed: t may have lost what it inherited.
LEMMA EdgesFreed ==
    ASSUME NEW p, NEW d, NEW e, NEW X, Fitted(p, d, X), NEW t \in Thread,
           \A u \in Thread : e[u] = d[u] \/ (d[u] = t /\ e[u] = None)
    PROVE  Fitted(p, e, X \cup {t})
<1>1. ASSUME NEW v \in Thread \ (X \cup {t}) PROVE Fits(p, e, v, p[v])
  <2>1. \A u \in Thread : e[u] = v <=> d[u] = v
    BY KernelAssumption
  <2>2. Fits(p, d, v, p[v])
    BY DEF Fitted
  <2> QED
    BY <2>1, <2>2 DEF Fits
<1> QED
  BY <1>1 DEF Fitted

\* A mutex that nobody owns is passed on to w, its most urgent waiter.
LEMMA EdgesPassed ==
    ASSUME NEW p \in Prios, NEW d, NEW e, NEW X, Fitted(p, d, X), NEW w \in Thread,
           \A u \in Thread : e[u] = d[u] \/ (d[u] = None /\ e[u] = w /\ p[w] <= p[u])
    PROVE  Fitted(p, e, X)
<1>1. ASSUME NEW t \in Thread \ X PROVE Fits(p, e, t, p[t])
  <2>1. Fits(p, d, t, p[t])
    BY DEF Fitted
  <2>2. CASE t # w
    <3>1. \A u \in Thread : e[u] = t <=> d[u] = t
      BY <2>2, KernelAssumption
    <3> QED
      BY <2>1, <3>1 DEF Fits
  <2>3. CASE t = w
    <3>1. \A u \in Thread : d[u] = t => e[u] = t
      BY KernelAssumption
    <3>2. \A u \in Thread : e[u] = t => p[t] <= p[u]
      BY <2>1, <2>3 DEF Fits
    <3> QED
      BY <2>1, <3>1, <3>2 DEF Fits
  <2> QED
    BY <2>2, <2>3
<1> QED
  BY <1>1 DEF Fitted

\* t gives up waiting for o, which may have inherited from t.
LEMMA EdgeLeft ==
    ASSUME NEW p \in Prios, NEW d \in Graph, NEW X, Fitted(p, d, X), NEW t \in Thread,
           d[t] \in Thread \ X, NEW e, e = [d EXCEPT ![t] = None]
    PROVE  Falling(p, e, X, d[t], p[t], p)
<1> DEFINE o == d[t]
<1>1. /\ o \in Thread \ X
      /\ \A u \in Thread : e[u] = IF u = t THEN None ELSE d[u]
  BY DEF Graph
<1> HIDE DEF o
<1>2. ASSUME NEW v \in Thread \ (X \cup {o}) PROVE Fits(p, e, v, p[v])
  <2>1. \A u \in Thread : e[u] = v <=> d[u] = v
    BY <1>1, <1>2, KernelAssumption DEF o
  <2>2. Fits(p, d, v, p[v])
    BY DEF Fitted
  <2> QED
    BY <2>1, <2>2 DEF Fits
<1>3. Fits(p, d, o, p[o])
  BY <1>1 DEF Fitted
<1>4. p[o] <= Base[o] /\ \A u \in Thread : e[u] = o => p[o] <= p[u]
  BY <1>1, <1>3, KernelAssumption DEF Fits
<1>5. p[o] = p[t] \/ Fits(p, e, o, p[o])
  <2>1. CASE p[o] = Base[o]
    BY <1>4, <2>1 DEF Fits
  <2>2. CASE p[o] # Base[o]
    <3>1. PICK u \in Thread : d[u] = o /\ p[o] = p[u]
      BY <1>3, <2>2 DEF Fits
    <3>2. CASE u = t
      BY <3>1, <3>2
    <3>3. CASE u # t
      <4>1. e[u] = o
        BY <1>1, <3>1, <3>3
      <4> QED
        BY <1>4, <3>1, <4>1 DEF Fits
    <3> QED
      BY <3>2, <3>3
  <2> QED
    BY <2>1, <2>2
<1>6. Falling(p, e, X, o, p[t], p)
  BY <1>2, <1>4, <1>5 DEF Falling
<1> QED
  BY <1>6 DEF o

\* c, for whom nobody else decides, begins to wait for o, which inherits from c.
LEMMA EdgeAdded ==
    ASSUME NEW p \in Prios, NEW d \in Graph, NEW X, Fitted(p, d, X), NEW c \in Thread,
           d[c] = None, NEW o \in Thread \ X, o # c, NEW e, e = [d EXCEPT ![c] = o]
    PROVE  e \in Graph /\ Rising(p, e, X, o, p[c])
<1>1. \A u \in Thread : /\ e[u] = IF u = c THEN o ELSE d[u]
                        /\ p[u] \in Nat /\ Base[u] \in Nat
  BY KernelAssumption DEF Graph, Prios
<1>2. e \in Graph
  BY <1>1 DEF Graph
<1>3. ASSUME NEW v \in Thread \ (X \cup {o}) PROVE Fits(p, e, v, p[v])
  <2>1. \A u \in Thread : e[u] = v <=> d[u] = v
    BY <1>1, <1>3, KernelAssumption
  <2>2. Fits(p, d, v, p[v])
    BY DEF Fitted
  <2> QED
    BY <2>1, <2>2 DEF Fits
<1>4. Fits(p, d, o, p[o])
  BY DEF Fitted
<1>5. Fits(p, e, o, IF p[o] <= p[c] THEN p[o] ELSE p[c])
  <2>1. CASE p[o] <= p[c]
    <3>1. \A u \in Thread : d[u] = o => e[u] = o
      BY <1>1, KernelAssumption
    <3>2. \A u \in Thread : e[u] = o => p[o] <= p[u]
      BY <1>1, <1>4, <2>1 DEF Fits
    <3>3. Fits(p, e, o, p[o])
      BY <1>4, <3>1, <3>2 DEF Fits
    <3> QED
      BY <2>1, <3>3
  <2>2. CASE ~ (p[o] <= p[c])
    <3>1. p[c] <= Base[o]
      BY <1>1, <1>4, <2>2 DEF Fits
    <3>2. ASSUME NEW u \in Thread, e[u] = o PROVE p[c] <= p[u]
      BY <1>1, <1>4, <2>2, <3>2 DEF Fits
    <3>3. Fits(p, e, o, p[c])
      BY <1>1, <3>1, <3>2 DEF Fits
    <3> QED
      BY <2>2, <3>3
  <2> QED
    BY <2>1, <2>2
<1> QED
  BY <1>2, <1>3, <1>5 DEF Rising

-----------------------------------------------------------------------------
(* What the operations do to the priorities.                               *)

LEMMA FallNothing ==
    ASSUME NEW p, NEW d, NEW X \in SUBSET Thread, Fitted(p, d, X), NEW P
    PROVE  Falling(p, d, X, None, P, p)
  BY DEF Falling, Fitted

LEMMA FallenFitted ==
    ASSUME NEW p, NEW d, NEW X \in SUBSET Thread, NEW P, NEW p0, Falling(p, d, X, None, P, p0)
    PROVE  Fitted(p, d, X)
  BY KernelAssumption DEF Falling, Fitted

\* Nobody waits for a thread in X.
Unheld(s, X) == \A u \in Thread : Target(s)[u] \notin X

\* A waiter leaves: the priorities along its chain fall where they had come from it.
LEMMA LeftFalls ==
    ASSUME NEW x, Lists(x, {}), NEW X \in SUBSET Thread, Exact(x, X), Unheld(x, X),
           NEW t \in Thread
    PROVE  LET y == WaiterRemoved(Unqueue(x, t), t)
           IN  /\ Falling(y.prio, Target(y), X, None, x.prio[t], x.prio)
               /\ Target(y)[t] = None
<1> DEFINE m == x.pending[t]
           o == Target(x)[t]
           e == [Target(x) EXCEPT ![t] = None]
           y == WaiterRemoved(Unqueue(x, t), t)
<1>1. /\ x \in MutexRec /\ Lines(x) /\ Owners(x, {}) /\ x.prio \in Prios
      /\ x.pending \in [Thread -> Queue \cup {None}]
  BY DEF Lists, MutexRec, Prios
<1>2. Target(x) \in Graph
  BY <1>1, TargetGraph
<1>3. PICK z : /\ Left(x, z, t) /\ z.prio = x.prio
               /\ y = IF m = None \/ x.owner[m] \in {None, t} THEN z
                      ELSE RecomputeChain(z, x.owner[m])
  BY <1>1, LeftBy
<1> HIDE DEF y
<1>4. z \in MutexRec /\ Lines(z) /\ z.pending = [x.pending EXCEPT ![t] = None] /\ z.owner = x.owner
  BY <1>3 DEF Left
<1>5. Target(z) = e
  BY <1>1, <1>4, KernelAssumption DEF Target
<1>6. Owners(z, {})
  <2>1. \A u \in Thread : z.pending[u] # None => u # t /\ z.pending[u] = x.pending[u]
    BY <1>1, <1>4
  <2> QED
    BY <1>1, <1>3, <2>1 DEF Owners, Left
<1>7. \A u \in Thread : e[u] = IF u = t THEN None ELSE Target(x)[u]
  BY <1>2 DEF Graph
<1>8. m # None => x.owner[m] \notin {None, t}
  BY <1>1 DEF Owners
<1>9. CASE m = None
  <2>1. y = z /\ o = None
    BY <1>3, <1>9 DEF Target
  <2>2. e = Target(x)
    BY <1>2, <2>1 DEF Graph
  <2>3. Falling(x.prio, Target(x), X, None, x.prio[t], x.prio)
    BY FallNothing DEF Exact
  <2> QED
    BY <1>3, <1>5, <1>7, <2>1, <2>2, <2>3 DEF y
<1>10. CASE m # None
  <2>1. o = x.owner[m] /\ o # None /\ o \in Thread \ X
    BY <1>2, <1>8, <1>10 DEF Target, Unheld, Graph
  <2>2. y = RecomputeChain(z, o)
    BY <1>3, <1>8, <1>10, <2>1
  <2> DEFINE P == x.prio[t]
  <2>3. P \in Nat
    BY <1>1 DEF Prios
  <2>4. Falling(z.prio, Target(z), X, o, P, z.prio)
    <3>1. Falling(x.prio, e, X, o, P, x.prio)
      BY <1>1, <1>2, <2>1, EdgeLeft DEF Exact
    <3> QED
      BY <1>3, <1>5, <3>1
  <2>5. \A u \in Thread : Target(z)[u] \notin X
    BY <1>5, <1>7, KernelAssumption DEF Unheld
  <2> HIDE DEF P, o
  <2>6. Falling(y.prio, Target(z), X, None, P, z.prio)
    BY <1>4, <1>6, <2>1, <2>2, <2>3, <2>4, <2>5, RecomputeFalls
  <2>7. Target(y) = Target(z)
    <3>1. Shuffled(z, y)
      BY <1>4, <2>1, <2>2, RecomputeIs
    <3> QED
      BY <3>1 DEF Shuffled, Target
  <2>8. Falling(y.prio, Target(y), X, None, P, x.prio)
    BY <1>3, <2>6, <2>7
  <2> QED
    BY <1>5, <1>7, <2>7, <2>8 DEF y, P
<1> QED
  BY <1>9, <1>10

\* The walk from a thread that waits for nobody is one step.
LEMMA RecomputeEnd ==
    ASSUME NEW x \in MutexRec, Lines(x), NEW F, Owners(x, F), NEW t \in Thread, x.pending[t] = None
    PROVE  RecomputeChain(x, t).prio = [x.prio EXCEPT ![t] = EffectivePriority(x, t)]
<1> DEFINE entry == CycleEntry(x, t)
           q == EffectivePriority(x, t)
           p == [x.prio EXCEPT ![t] = q]
           start == WalkStart(x, t)
           S == {w \in WalkRec(x) : w = start \/ (w.at = None /\ w.s.prio = p)}
<1>1. PICK h \in [0 .. Rounds -> WalkRec(x)] :
        /\ h[0] = start
        /\ \A i \in 1 .. Rounds : h[i] = RecomputeRound(h[i - 1], entry)
        /\ RecomputeChain(x, t) = h[Rounds].s
  BY RecomputeRounds
<1>2. start.s = x /\ start.at = t
  BY DEF WalkStart
<1>3. q \in Nat /\ x.prio \in Prios /\ Target(x)[t] = None /\ t # None
  BY EffectiveNat, KernelAssumption DEF MutexRec, Prios, Target
<1> HIDE DEF entry, start, q
<1>4. RecomputeRound(start, entry).at = None /\ RecomputeRound(start, entry).s.prio = p
  <2> DEFINE stop == x.prio[t] = q
  <2>1. RecomputeRound(start, entry) = ChainStep(start, q, stop, entry)
    BY <1>2, <1>3 DEF RecomputeRound, q
  <2>2. start \in WalkRec(x) /\ stop \in BOOLEAN
    BY StartIn DEF start, WalkStart
  <2>3. stop => p = x.prio
    BY <1>3 DEF Prios
  <2> HIDE DEF stop, p
  <2>4. LET y == ChainStep(start, q, stop, entry)
            o == Target(x)[start.at]
        IN  /\ stop => y.at = None /\ y.s = start.s
            /\ ~stop => /\ y.s.prio = [start.s.prio EXCEPT ![start.at] = q]
                        /\ y.at = IF o = entry /\ start.entered THEN None ELSE o
                        /\ y.entered = (start.entered \/ o = entry)
    BY SMTT(30), <1>2, <1>3, <2>2, RoundIs
  <2> QED
    BY <1>2, <1>3, <2>1, <2>2, <2>3, <2>4 DEF p
<1> HIDE DEF p
<1>5. ASSUME NEW w \in S PROVE RecomputeRound(w, entry).at = None /\ RecomputeRound(w, entry).s.prio = p
  <2>1. CASE w = start
    BY <1>4, <2>1
  <2>2. CASE w.at = None /\ w.s.prio = p
    <3>1. RecomputeRound(w, entry) = w
      BY <2>2 DEF RecomputeRound, ChainStep
    <3> QED
      BY <2>2, <3>1
  <2> QED
    BY <2>1, <2>2
<1>6. h[0] \in S
  BY <1>1, RoundsNat
<1>7. ASSUME NEW i \in 1 .. Rounds, h[i - 1] \in S PROVE h[i] \in S
  <2>1. h[i] = RecomputeRound(h[i - 1], entry) /\ h[i] \in WalkRec(x)
    BY <1>1, RoundsNat
  <2> QED
    BY <1>5, <1>7, <2>1
<1>8. \A i \in 0 .. Rounds : h[i] \in S
  <2> HIDE DEF S
  <2> QED
    BY <1>6, <1>7, RoundsNat, StaysIn
<1>9. Rounds \in 1 .. Rounds /\ Rounds - 1 \in 0 .. Rounds
  BY KernelAssumption, FS_CardinalityType DEF Rounds
<1>10. h[Rounds].s.prio = p
  <2>1. h[Rounds - 1] \in S /\ h[Rounds] = RecomputeRound(h[Rounds - 1], entry)
    BY <1>1, <1>8, <1>9
  <2> HIDE DEF S
  <2> QED
    BY <1>5, <2>1
<1> QED
  BY <1>1, <1>10 DEF p, q

LEMMA FreeFits ==
    ASSUME NEW x, Lists(x, {}), NEW t \in Thread, NEW m \in Queue, x.owner[m] = t,
           NEW X, Exact(x, X)
    PROVE  LET y == Free(x, m)
           IN  /\ y.prio = x.prio /\ Exact(y, X \cup {t})
               /\ \A u \in Thread : Target(y)[u] = IF x.pending[u] = m THEN None ELSE Target(x)[u]
<1> DEFINE y == Free(x, m)
<1>1. /\ x \in MutexRec /\ x.owner \in [Queue -> Thread \cup {None}]
      /\ x.pending \in [Thread -> Queue \cup {None}]
  BY DEF Lists, MutexRec
<1>2. y.prio = x.prio
  BY <1>1 DEF Free, MutexRec
<1>3. y.pending = x.pending /\ y.owner = [x.owner EXCEPT ![m] = None]
  BY ZenonT(40), FreeIs
<1> HIDE DEF y
<1>4. \A u \in Thread : Target(y)[u] = IF x.pending[u] = m THEN None ELSE Target(x)[u]
  BY <1>1, <1>3, KernelAssumption DEF Target
<1>5. \A u \in Thread : x.pending[u] = m => Target(x)[u] = t
  BY KernelAssumption DEF Target
<1>6. Exact(y, X \cup {t})
  <2> DEFINE d == Target(x)
             e == Target(y)
  <2>1. \A u \in Thread : e[u] = d[u] \/ (d[u] = t /\ e[u] = None)
    BY <1>4, <1>5
  <2>2. Fitted(x.prio, d, X)
    BY DEF Exact
  <2> HIDE DEF d, e
  <2>3. Fitted(x.prio, e, X \cup {t})
    BY <2>1, <2>2, EdgesFreed
  <2> QED
    BY <1>2, <2>3 DEF Exact, e
<1> QED
  BY <1>2, <1>4, <1>6 DEF y

LEMMA PassOnFits ==
    ASSUME NEW m \in Queue, NEW x, Lists(x, {m}), x.owner[m] = None, NEW X, Exact(x, X)
    PROVE  LET y == PassOn(x, m)
           IN  /\ y.prio = x.prio /\ Exact(y, X) /\ Dead(y) = Dead(x)
               /\ IF x.wq[m] = <<>> THEN y = x
                  ELSE LET w == Head(x.wq[m])
                       IN  /\ w \in Thread /\ x.pending[w] = m /\ y.owner[m] = w
                           /\ \A u \in Thread : x.pending[u] = m => x.prio[w] <= x.prio[u]
                           /\ y.st = [x.st EXCEPT ![w] = "ready"]
<1> DEFINE y == PassOn(x, m)
<1>1. /\ x \in MutexRec /\ Lines(x) /\ Owners(x, {m}) /\ Waiting(x)
      /\ x.wq \in [Queue -> Seq(Thread)] /\ x.owner \in [Queue -> Thread \cup {None}]
      /\ x.pending \in [Thread -> Queue \cup {None}] /\ x.prio \in Prios
      /\ x.st \in [Thread -> {"ready", "suspend", "close"}]
  BY DEF Lists, MutexRec, Prios
<1>2. CASE x.wq[m] = <<>>
  <2>1. y = x
    BY <1>2 DEF PassOn
  <2> QED
    BY <1>2, <2>1
<1>3. CASE x.wq[m] # <<>>
  <2> DEFINE w == Head(x.wq[m])
  <2>1. /\ y.prio = x.prio /\ y.st = [x.st EXCEPT ![w] = "ready"]
        /\ y.owner = [x.owner EXCEPT ![m] = w] /\ y.pending = [x.pending EXCEPT ![w] = None]
    BY <1>1, <1>3 DEF PassOn, Own, WakeHead, Wakeup, MutexRec
  <2>2. /\ x.wq[m] \in Seq(Thread) /\ 1 \in DOMAIN x.wq[m] /\ w = x.wq[m][1]
    BY <1>1, <1>3
  <2>3. w \in Thread /\ w \in ToSet(x.wq[m])
    BY <2>2 DEF ToSet
  <2>4. x.pending[w] = m /\ x.st[w] = "suspend"
    BY <1>1, <2>3, KernelAssumption DEF Lines, Waiting, Awaits
  <2>5. ASSUME NEW u \in Thread, x.pending[u] = m PROVE x.prio[w] <= x.prio[u]
    <3>1. u \in ToSet(x.wq[m])
      BY <1>1, <2>5 DEF Lines
    <3>2. PICK i \in DOMAIN x.wq[m] : x.wq[m][i] = u
      BY <2>2, <3>1 DEF ToSet
    <3>3. i = 1 \/ 1 < i
      BY <2>2, <3>2
    <3>4. CASE i = 1
      BY <1>1, <2>2, <2>3, <3>2, <3>4 DEF Prios
    <3>5. CASE 1 < i
      BY <1>1, <2>2, <3>2, <3>5 DEF Lines, Ordered
    <3> QED
      BY <3>3, <3>4, <3>5
  <2> HIDE DEF w, y
  <2>6. Dead(y) = Dead(x)
    BY <1>1, <2>1, <2>3, <2>4 DEF Dead
  <2>7. Exact(y, X)
    <3> DEFINE d == Target(x)
               e == Target(y)
    <3>1. \A u \in Thread : /\ y.pending[u] = IF u = w THEN None ELSE x.pending[u]
                            /\ x.pending[u] \in Queue \cup {None}
      BY <1>1, <2>1
    <3>1a. \A n \in Queue : y.owner[n] = IF n = m THEN w ELSE x.owner[n]
      BY <1>1, <2>1
    <3>2. ASSUME NEW u \in Thread
          PROVE  e[u] = d[u] \/ (d[u] = None /\ e[u] = w /\ x.prio[w] <= x.prio[u])
      <4>1. CASE x.pending[u] = m /\ u # w
        BY <2>5, <3>1, <3>1a, <4>1, KernelAssumption DEF Target
      <4>2. CASE u = w
        BY <2>4, <3>1, <4>2, KernelAssumption DEF Target
      <4>3. CASE x.pending[u] # m /\ u # w
        BY <3>1, <3>1a, <4>3, KernelAssumption DEF Target
      <4> QED
        BY <4>1, <4>2, <4>3
    <3>3. Fitted(x.prio, d, X)
      BY DEF Exact
    <3> HIDE DEF d, e
    <3>4. Fitted(x.prio, e, X)
      BY <1>1, <2>3, <3>2, <3>3, EdgesPassed
    <3> QED
      BY <2>1, <3>4 DEF Exact, e
  <2>8. y.owner[m] = w
    BY <1>1, <2>1
  <2> QED
    BY <1>3, <2>1, <2>3, <2>4, <2>5, <2>6, <2>7, <2>8 DEF w, y
<1> QED
  BY <1>2, <1>3

\* One round of mutex_release_all_held.
PassFirst(r, t) ==
    IF r.taken[t] = <<>> THEN r ELSE PassOn(Free(r, Head(r.taken[t])), Head(r.taken[t]))

LEMMA ReleaseAllStays ==
    ASSUME NEW S, NEW x \in S, NEW t, Len(x.taken[t]) \in Nat, \A r \in S : PassFirst(r, t) \in S
    PROVE  ReleaseAllHeld(x, t) \in S
<1> DEFINE n == Len(x.taken[t])
           Is(h) == h = [i \in 0 .. n |-> IF i = 0 THEN x ELSE PassFirst(h[i - 1], t)]
           after == CHOOSE h : Is(h)
<1>1. ReleaseAllHeld(x, t) = after[n]
  BY DEF ReleaseAllHeld, Iterate, PassFirst
<1> HIDE DEF n
<1>2. n \in Nat
  BY DEF n
<1>3. \E h : Is(h)
  <2> DEFINE step == [r \in S |-> PassFirst(r, t)]
  <2>1. step \in [S -> S]
    OBVIOUS
  <2>2. PICK h \in [0 .. n -> S] : Unrolls(h, x, step, n)
    <3> HIDE DEF step
    <3> QED
      BY <1>2, <2>1, RecursionIs
  <2>3. \A r \in S : step[r] = PassFirst(r, t)
    OBVIOUS
  <2>4. \A i \in 1 .. n : h[i - 1] \in S
    BY <1>2, <2>2
  <2> HIDE DEF step
  <2>5. \A i \in 0 .. n : h[i] = IF i = 0 THEN x ELSE PassFirst(h[i - 1], t)
    BY <1>2, <2>2, <2>3, <2>4 DEF Unrolls
  <2>6. Is(h)
    BY <2>2, <2>5
  <2> QED
    BY <2>6
<1>4. Is(after)
  BY <1>3
<1> HIDE DEF after
<1>5. after[0] = x /\ \A i \in 1 .. n : after[i] = PassFirst(after[i - 1], t)
  BY <1>2, <1>4
<1>6. \A i \in 1 .. n : after[i - 1] \in S => after[i] \in S
  BY <1>5
<1>7. \A i \in 0 .. n : after[i] \in S
  BY <1>2, <1>5, <1>6, StaysIn
<1> QED
  BY <1>1, <1>2, <1>7

LEMMA ReleaseAllFits ==
    ASSUME NEW x, Lists(x, {}), NEW t \in Thread, NEW X, t \in X, Exact(x, X)
    PROVE  LET y == ReleaseAllHeld(x, t)
           IN  y.prio = x.prio /\ Exact(y, X) /\ Dead(y) = Dead(x)
<1> DEFINE S == {r \in MutexRec : /\ Lists(r, {}) /\ r.prio = x.prio
                                  /\ Exact(r, X) /\ Dead(r) = Dead(x)}
<1>1. x \in S /\ Len(x.taken[t]) \in Nat
  BY DEF Lists, MutexRec
<1>2. ASSUME NEW r \in S PROVE PassFirst(r, t) \in S
  <2>1. CASE r.taken[t] = <<>>
    BY <2>1 DEF PassFirst
  <2>2. CASE r.taken[t] # <<>>
    <3> DEFINE m == Head(r.taken[t])
               f == Free(r, m)
               y == PassOn(f, m)
    <3>0. Lists(r, {}) /\ Exact(r, X) /\ r.prio = x.prio /\ Dead(r) = Dead(x)
      OBVIOUS
    <3>1. r.taken[t] \in Seq(Queue) /\ r.owner \in [Queue -> Thread \cup {None}]
      BY DEF MutexRec
    <3>2. m \in Queue /\ m \in ToSet(r.taken[t])
      BY <2>2, <3>1, PopQueue
    <3>3. r.owner[m] = t
      BY <3>0, <3>2 DEF Lists, Owners
    <3>4. PassFirst(r, t) = y
      BY <2>2 DEF PassFirst
    <3> HIDE DEF m
    <3>5. Lists(f, {m}) /\ f.owner = [r.owner EXCEPT ![m] = None] /\ f.st = r.st
      <4>1. Lists(f, {m})
        BY ONLY <3>0, <3>2, <3>3, t \in Thread, FreeIs
      <4>2. f.st = r.st
        BY DEF Free, MutexRec
      <4>3. f.owner = [r.owner EXCEPT ![m] = None]
        BY ONLY <3>0, <3>2, <3>3, t \in Thread, FreeIs
      <4> QED
        BY <4>1, <4>2, <4>3
    <3>6. f.prio = r.prio /\ Exact(f, X \cup {t})
      BY <3>0, <3>2, <3>3, FreeFits
    <3>7. X \cup {t} = X
      OBVIOUS
    <3>8. f.owner[m] = None /\ Exact(f, X)
      BY <3>1, <3>2, <3>5, <3>6, <3>7
    <3> HIDE DEF f
    <3>9. y.prio = f.prio /\ Exact(y, X) /\ Dead(y) = Dead(f)
      BY <3>2, <3>5, <3>8, PassOnFits
    <3>10. Lists(y, {})
      BY <3>2, <3>5, <3>8, PassOnIs
    <3>11. Dead(f) = Dead(r)
      BY <3>5 DEF Dead
    <3> HIDE DEF y
    <3>12. y \in MutexRec /\ y.prio = x.prio /\ Dead(y) = Dead(x)
      BY <3>0, <3>6, <3>9, <3>10, <3>11 DEF Lists
    <3> QED
      BY <3>4, <3>9, <3>10, <3>12
  <2> QED
    BY <2>1, <2>2
<1> HIDE DEF S
<1>3. ReleaseAllHeld(x, t) \in S
  BY <1>1, <1>2, ReleaseAllStays
<1> QED
  BY <1>3 DEF S

\* The dead own nothing and wait for nothing.
DeadFree(x) == \A u \in Dead(x) : x.pending[u] = None /\ \A m \in Queue : x.owner[m] # u

LEMMA UnheldDead ==
    ASSUME NEW x \in MutexRec, NEW X \in SUBSET Thread, \A u \in X, m \in Queue : x.owner[m] # u
    PROVE  Unheld(x, X)
<1>1. ASSUME NEW u \in Thread PROVE Target(x)[u] \notin X
  <2>1. CASE x.pending[u] = None
    BY <2>1, KernelAssumption DEF Target
  <2>2. CASE x.pending[u] # None
    <3>1. x.pending[u] \in Queue /\ Target(x)[u] = x.owner[x.pending[u]]
      BY <2>2 DEF MutexRec, Target
    <3> QED
      BY <3>1
  <2> QED
    BY <2>1, <2>2
<1> QED
  BY <1>1 DEF Unheld

LEMMA DeletedFits ==
    ASSUME NEW x, Lists(x, {}), Exact(x, Dead(x)), DeadFree(x), NEW t \in Thread
    PROVE  LET y == Deleted(x, t)
           IN  Exact(y, Dead(y))
<1>1. CASE x.st[t] = "close"
  BY <1>1 DEF Deleted
<1>2. CASE x.st[t] # "close"
  <2> DEFINE r == ReleaseAllHeld(x, t)
             r1 == [r EXCEPT !.armed = @ \ {t}]
             z == WaiterRemoved(Unqueue(r1, t), t)
             y == [z EXCEPT !.st[t] = "close"]
             X == Dead(x) \cup {t}
  <2>1. Deleted(x, t) = y
    BY <1>2 DEF Deleted
  <2>2. Released(x, r, t) /\ \A m \in Queue : r.owner[m] # t
    BY ReleaseAllIs
  <2>3. X \in SUBSET Thread /\ t \in X /\ Exact(x, X)
    BY DEF Dead, Exact, Fitted
  <2>4. r.prio = x.prio /\ Exact(r, X) /\ Dead(r) = Dead(x)
    <3> HIDE DEF X
    <3> QED
      BY <2>3, ReleaseAllFits
  <2>5. \A u \in X, m \in Queue : r.owner[m] # u
    <3>1. ASSUME NEW u \in Dead(x), u # t, NEW m \in Queue PROVE r.owner[m] # u
      <4>1. Kept(x, r, u) /\ x.pending[u] = None /\ x.owner[m] # u
        BY <2>2, <3>1 DEF Released, Dead, DeadFree
      <4> QED
        BY <4>1, KernelAssumption DEF Kept
    <3> QED
      BY <2>2, <3>1
  <2> HIDE DEF r
  <2>6. r \in MutexRec /\ Lines(r) /\ Owners(r, {}) /\ Waiting(r)
    BY <2>2 DEF Released, Lists
  <2>7. /\ r1 \in MutexRec /\ r1.armed = r.armed \ {t}
        /\ r1.st = r.st /\ r1.cur = r.cur /\ r1.run = r.run /\ r1.err = r.err
        /\ r1.sleep = r.sleep /\ r1.wq = r.wq /\ r1.prio = r.prio
        /\ r1.owner = r.owner /\ r1.taken = r.taken /\ r1.pending = r.pending
    BY <2>6 DEF MutexRec
  <2> HIDE DEF r1, X
  <2>8. Lists(r1, {}) /\ Exact(r1, X) /\ Unheld(r1, X)
    <3>1. Lists(r1, {})
      BY <2>6, <2>7 DEF Lists, Lines, Owners, Waiting, Awaits
    <3>2. Exact(r1, X)
      BY <2>4, <2>7 DEF Exact, Target
    <3>3. Unheld(r1, X)
      BY <2>3, <2>5, <2>7, UnheldDead
    <3> QED
      BY <3>1, <3>2, <3>3
  <2>9. Falling(z.prio, Target(z), X, None, r1.prio[t], r1.prio) /\ Left(r1, z, t)
    BY <2>3, <2>7, <2>8, LeftFalls, LeftIs DEF Lists
  <2> HIDE DEF z
  <2>10. Fitted(z.prio, Target(z), X)
    BY <2>3, <2>9, FallenFitted
  <2>11. z \in MutexRec /\ z.st = r.st
    BY <2>7, <2>9 DEF Left
  <2>12. /\ y.prio = z.prio /\ y.pending = z.pending /\ y.owner = z.owner
         /\ y.st = [r.st EXCEPT ![t] = "close"]
    BY <2>11 DEF MutexRec
  <2>13. Target(y) = Target(z)
    BY <2>12 DEF Target
  <2>14. Dead(y) = X
    <3>1. r.st \in [Thread -> {"ready", "suspend", "close"}]
      BY <2>6 DEF MutexRec
    <3>2. Dead(y) = Dead(r) \cup {t}
      BY <2>12, <3>1 DEF Dead
    <3> QED
      BY <2>4, <3>2 DEF X
  <2> HIDE DEF y
  <2> QED
    BY <2>1, <2>10, <2>12, <2>13, <2>14 DEF Exact
<1> QED
  BY <1>1, <1>2

LEMMA TimedOutFits ==
    ASSUME NEW x, Lists(x, {}), Exact(x, Dead(x)), DeadFree(x),
           NEW t \in Thread, x.st[t] = "suspend"
    PROVE  LET y == WaitTimedOut(x, t)
           IN  /\ Dead(y) = Dead(x) /\ y.run = x.run /\ y.cur = x.cur
               /\ y.st = [x.st EXCEPT ![t] = "ready"]
               /\ Falling(y.prio, Target(y), Dead(x), None, x.prio[t], x.prio)
               /\ \A u \in Thread : u = t \/ x.pending[u] = None => Target(y)[u] = None
<1> DEFINE x1 == [x EXCEPT !.err[t] = TRUE]
           z == WaiterRemoved(Unqueue(x1, t), t)
           y == Wakeup(z, t)
           X == Dead(x)
<1>1. WaitTimedOut(x, t) = y
  BY DEF WaitTimedOut
<1>2. x \in MutexRec /\ Lines(x) /\ Owners(x, {}) /\ Waiting(x)
  BY DEF Lists
<1>3. /\ x1 \in MutexRec
      /\ x1.st = x.st /\ x1.cur = x.cur /\ x1.run = x.run /\ x1.armed = x.armed
      /\ x1.sleep = x.sleep /\ x1.wq = x.wq /\ x1.prio = x.prio
      /\ x1.owner = x.owner /\ x1.taken = x.taken /\ x1.pending = x.pending
  BY <1>2 DEF MutexRec
<1> HIDE DEF x1
<1>4. Lists(x1, {}) /\ Exact(x1, X) /\ Unheld(x1, X) /\ X \in SUBSET Thread
  <2>1. Lists(x1, {})
    BY <1>2, <1>3 DEF Lists, Lines, Owners, Waiting, Awaits
  <2>2. Exact(x1, X)
    BY <1>3 DEF Exact, Target
  <2>3. Unheld(x, X)
    BY <1>2, UnheldDead DEF Dead, DeadFree
  <2> QED
    BY <1>3, <2>1, <2>2, <2>3 DEF Unheld, Target, Dead
<1>5. /\ Left(x1, z, t) /\ Target(z)[t] = None
      /\ Falling(z.prio, Target(z), X, None, x1.prio[t], x1.prio)
  <2> HIDE DEF X
  <2> QED
    BY <1>4, LeftIs, LeftFalls DEF Lists
<1> HIDE DEF z
<1>6. z \in MutexRec /\ z.st = x.st /\ z.cur = x.cur /\ z.run = x.run
      /\ z.pending = [x.pending EXCEPT ![t] = None]
  BY <1>3, <1>5 DEF Left
<1>7. /\ y.prio = z.prio /\ y.owner = z.owner /\ y.pending = z.pending
      /\ y.cur = x.cur /\ y.run = x.run /\ y.st = [x.st EXCEPT ![t] = "ready"]
  BY <1>6 DEF Wakeup, MutexRec
<1> HIDE DEF y
<1>8. Target(y) = Target(z)
  BY <1>7 DEF Target
<1>9. Dead(y) = Dead(x)
  <2>1. x.st \in [Thread -> {"ready", "suspend", "close"}]
    BY <1>2 DEF MutexRec
  <2> QED
    BY <1>7, <2>1 DEF Dead
<1>10. ASSUME NEW u \in Thread, u = t \/ x.pending[u] = None PROVE Target(y)[u] = None
  BY SMTT(30), <1>2, <1>5, <1>6, <1>8, <1>10 DEF Target, MutexRec
<1> QED
  BY <1>1, <1>3, <1>5, <1>7, <1>8, <1>9, <1>10 DEF X

-----------------------------------------------------------------------------
(* The steps.                                                              *)

LEMMA PriorityFacts ==
    ASSUME PriorityInv
    PROVE  /\ MutexInv /\ Lists(k, {}) /\ k \in MutexRec /\ Owners(k, {}) /\ MutexTypes
           /\ Exact(k, Dead(k)) /\ DeadFree(k) /\ k.prio \in Prios /\ Target(k) \in Graph
           /\ Unheld(k, Dead(k)) /\ Dead(k) \in SUBSET Thread
<1>1. MutexInv /\ Lists(k, {}) /\ k \in MutexRec /\ Owners(k, {}) /\ Exact(k, Dead(k)) /\ MutexTypes
  BY InvFacts DEF PriorityInv
<1>2. DeadFree(k) /\ Dead(k) \in SUBSET Thread
  BY <1>1, ClosedOwnsNothing DEF DeadFree, Dead
<1>3. Unheld(k, Dead(k))
  BY <1>1, <1>2, UnheldDead DEF DeadFree
<1> QED
  BY <1>1, <1>2, <1>3, TargetGraph DEF MutexRec, Prios

\* Nothing changed that priorities depend on.
LEMMA SameExact ==
    ASSUME NEW x, Exact(x, Dead(x)), NEW y, y.prio = x.prio, Target(y) = Target(x), Dead(y) = Dead(x)
    PROVE  Exact(y, Dead(y))
  BY DEF Exact

LEMMA SwitchedExact ==
    ASSUME NEW x, Exact(x, Dead(x)), NEW y, Switched(x, y)
    PROVE  Exact(y, Dead(y))
  BY SameExact DEF Switched, Target, Dead

LEMMA ScheduledUrgent ==
    ASSUME NEW x \in MutexRec, NEW y \in Scheduled(x)
    PROVE  Switched(x, y) /\ Urgent(y)
<1>1. PICK t \in Highest(x) : y = [x EXCEPT !.cur = t]
  BY DEF Scheduled
<1>2. /\ t \in Thread /\ x.st[t] = "ready"
      /\ \A u \in Thread : x.st[u] = "ready" => x.prio[t] <= x.prio[u]
  BY DEF Highest
<1>3. y.cur = t
  BY <1>1 DEF MutexRec
<1>4. Switched(x, y)
  BY ScheduledIs
<1> QED
  BY <1>2, <1>3, <1>4 DEF Urgent, Switched

\* CURRENT is the most urgent, or executes and owes the call that makes it so.
Owed(s, p) == Urgent(s) \/ (s.run = s.cur /\ p[s.cur] \in {"owe", "block"})

LEMMA HandlerOwed ==
    ASSUME NEW x \in MutexRec, NEW need, NEW y \in InHandler(x, need), NEW p, ~need => Owed(x, p)
    PROVE  Switched(x, y) /\ Owed(y, p)
<1>1. CASE need
  BY <1>1, ScheduledUrgent DEF InHandler, Owed
<1>2. CASE ~need
  BY <1>2 DEF InHandler, Switched
<1> QED
  BY <1>1, <1>2

LEMMA CallerUrgent ==
    ASSUME PriorityInv, NEW c \in Thread, Calls(c)
    PROVE  /\ k.run = c /\ k.cur = c /\ popped = None /\ k.st[c] = "ready" /\ k.pending[c] = None
           /\ \A t \in Thread : k.st[t] = "ready" => k.prio[c] <= k.prio[t]
<1>1. /\ k.run = c /\ k.cur = c /\ popped = None /\ pc[c] = "run"
      /\ k.st[c] = "ready" /\ k.pending[c] = None
  BY CallerIs DEF PriorityInv
<1> QED
  BY <1>1 DEF PriorityInv, Urgent

LEMMA PriorityInit == Init => PriorityInv
<1> SUFFICES ASSUME Init PROVE PriorityInv
  OBVIOUS
<1>1. PICK first \in FirstOf : k = MutexInit(KernelInit(first))
  BY DEF Init
<1>2. first \in Thread /\ \A u \in Thread : Base[first] <= Base[u]
  BY DEF FirstOf
<1>3. /\ k.st = [t \in Thread |-> "ready"] /\ k.prio = Base /\ k.cur = first
      /\ k.pending = [t \in Thread |-> None]
  BY <1>1 DEF MutexInit, KernelInit
<1>4. Urgent(k)
  BY <1>2, <1>3 DEF Urgent
<1>5. Exact(k, Dead(k))
  BY <1>3, KernelAssumption DEF Exact, Fitted, Fits, Target
<1> QED
  BY <1>4, <1>5, InitKeeps DEF PriorityInv

LEMMA LockFreePriority ==
    ASSUME PriorityInv, NEW c \in Thread, NEW m \in Queue, LockFree(c, m)
    PROVE  PriorityInv'
<1>1. Calls(c) /\ k.owner[m] = None /\ k' = Own(k, m, c)
  BY DEF LockFree
<1>2. /\ k'.prio = k.prio /\ k'.st = k.st /\ k'.cur = k.cur /\ k'.pending = k.pending
      /\ k'.owner = [k.owner EXCEPT ![m] = c]
  BY <1>1, PriorityFacts DEF Own, MutexRec
<1>3. \A u \in Thread : k.pending[u] \in Queue \cup {None} /\ k.pending[u] # m
  BY <1>1, PriorityFacts, KernelAssumption DEF Owners, MutexRec
<1>4. Target(k') = Target(k)
  <2>1. \A n \in Queue : n # m => k'.owner[n] = k.owner[n]
    BY <1>2, PriorityFacts DEF MutexRec
  <2> QED
    BY <1>2, <1>3, <2>1 DEF Target
<1>5. Exact(k', Dead(k'))
  BY <1>2, <1>4, PriorityFacts, SameExact DEF Dead
<1>6. Urgent(k')
  BY <1>1, <1>2, CallerUrgent DEF Urgent
<1> QED
  BY <1>5, <1>6, LockFreeKeeps DEF PriorityInv

LEMMA LockBlockPriority ==
    ASSUME PriorityInv, NEW c \in Thread, NEW m \in Queue, NEW timed \in BOOLEAN,
           LockBlock(c, m, timed)
    PROVE  PriorityInv'
<1> DEFINE o == k.owner[m]
           P == k.prio[c]
           s == IF k.prio[o] > k.prio[c] THEN PriorityInherit(k, o, k.prio[c]) ELSE k
           X == Dead(k)
           e == [Target(k) EXCEPT ![c] = o]
           s1 == [s EXCEPT !.pending[c] = m]
<1>1. /\ Calls(c) /\ o \notin {None, c} /\ k' = SuspendPrio(s1, c, m, timed)
      /\ pc' = [pc EXCEPT ![c] = "block"]
  BY DEF LockBlock, Goto
<1>2. /\ Lists(k, {}) /\ k \in MutexRec /\ Lines(k) /\ Owners(k, {}) /\ k.prio \in Prios
      /\ Target(k) \in Graph /\ Fitted(k.prio, Target(k), X) /\ MutexTypes
      /\ \A u \in Thread : Target(k)[u] \notin X
  BY PriorityFacts DEF Lists, Exact, Unheld
<1>3. o \in Thread \ X /\ P \in Nat /\ k.prio[o] \in Nat /\ k.pending[c] = None
      /\ k.run = c /\ k.cur = c /\ k.st[c] = "ready"
  <2>1. o \in Thread
    BY <1>1, <1>2 DEF MutexRec
  <2>2. o \notin X
    BY PriorityFacts DEF DeadFree
  <2> QED
    BY <1>1, <1>2, <2>1, <2>2, CallerUrgent DEF Prios
<1>4. Target(k)[c] = None
  BY <1>3 DEF Target
<1> HIDE DEF o, P
<1>5. e \in Graph /\ Rising(k.prio, e, X, o, P)
  BY <1>1, <1>2, <1>3, <1>4, EdgeAdded DEF P
<1>6. \A u \in Thread : e[u] = IF u = c THEN o ELSE Target(k)[u]
  BY <1>2 DEF Graph
<1> HIDE DEF e
<1>7. Shuffled(k, s) /\ Rising(s.prio, e, X, None, P)
  <2>1. CASE k.prio[o] > P
    <3>1. s = PriorityInherit(k, o, P)
      BY <2>1 DEF P
    <3>2. Leads(k, {}, X, c, e)
      BY <1>2, <1>3, <1>5, <1>6 DEF Leads
    <3> HIDE DEF X
    <3>3. Rising(PriorityInherit(k, o, P).prio, e, X, None, P)
      BY <1>3, <1>5, <3>2, InheritRises DEF P
    <3> QED
      BY <1>2, <1>3, <3>1, <3>3, PriorityInheritIs
  <2>2. CASE ~ (k.prio[o] > P)
    <3>1. s = k
      BY <2>2 DEF P
    <3>2. k.prio[o] <= P
      BY <1>3, <2>2
    <3>3. Rising(k.prio, e, X, None, P)
      BY <1>3, <1>5, <3>2, RiseStops
    <3>4. Shuffled(k, k)
      BY <1>2 DEF Shuffled
    <3> QED
      BY <3>1, <3>3, <3>4
  <2> QED
    BY <2>1, <2>2
<1> HIDE DEF s
<1>8. /\ s \in MutexRec /\ s.st = k.st /\ s.cur = k.cur /\ s.run = k.run
      /\ s.owner = k.owner /\ s.pending = k.pending
  BY <1>7 DEF Shuffled
<1>9. /\ s1 \in MutexRec /\ s1.st = k.st /\ s1.cur = k.cur /\ s1.run = k.run /\ s1.prio = s.prio
      /\ s1.owner = k.owner /\ s1.pending = [k.pending EXCEPT ![c] = m]
  BY <1>8 DEF MutexRec
<1> HIDE DEF s1
<1>10. /\ k'.prio = s.prio /\ k'.owner = k.owner /\ k'.pending = [k.pending EXCEPT ![c] = m]
       /\ k'.st = [k.st EXCEPT ![c] = "suspend"] /\ k'.cur = c /\ k'.run = c
  BY <1>1, <1>3, <1>9 DEF SuspendPrio, SuspendWith, MutexRec
<1>11. Target(k') = e
  <2>1. ASSUME NEW u \in Thread PROVE Target(k')[u] = e[u]
    <3>1. k'.pending[u] = IF u = c THEN m ELSE k.pending[u]
      BY <1>2, <1>10 DEF MutexRec
    <3> QED
      BY <1>6, <1>10, <3>1, KernelAssumption DEF Target, o
  <2> QED
    BY <1>5, <2>1 DEF Target, Graph
<1>12. Dead(k') = X
  BY <1>2, <1>3, <1>10 DEF Dead, MutexRec
<1>13. Exact(k', Dead(k'))
  <2>1. Fitted(s.prio, e, X)
    BY <1>7, KernelAssumption DEF Rising, Fitted, Dead
  <2> QED
    BY <1>10, <1>11, <1>12, <2>1 DEF Exact
<1>14. pc'[k'.cur] = "block"
  BY <1>1, <1>2, <1>10 DEF MutexTypes
<1> QED
  BY <1>10, <1>13, <1>14, LockBlockKeeps DEF PriorityInv

LEMMA CallSchedulePriority ==
    ASSUME PriorityInv, NEW c \in Thread, CallSchedule(c)
    PROVE  PriorityInv'
<1>1. k' \in Scheduled(k)
  BY DEF CallSchedule
<1>2. Switched(k, k') /\ Urgent(k')
  BY <1>1, PriorityFacts, ScheduledUrgent
<1>3. Exact(k', Dead(k'))
  BY <1>2, PriorityFacts, SwitchedExact
<1> QED
  BY <1>2, <1>3, CallScheduleKeeps DEF PriorityInv

LEMMA LockReturnPriority ==
    ASSUME PriorityInv, NEW c \in Thread, LockReturn(c)
    PROVE  PriorityInv'
<1>1. k.cur = c /\ pc[c] = "wait" /\ k' = k
  BY DEF LockReturn, Executes
<1>2. Urgent(k)
  BY <1>1 DEF PriorityInv
<1> QED
  BY <1>1, <1>2, LockReturnKeeps DEF PriorityInv

\* unlock.  The caller loses what it had inherited from the waiters, and its priority is then
\* compared with that of the first of them.
LEMMA DropGuardPriority ==
    ASSUME PriorityInv, NEW c \in Thread, NEW m \in Queue, DropGuard(c, m)
    PROVE  PriorityInv'
<1> DEFINE f == Free(k, m)
           r == RecomputeChain(f, c)
           y == PassOn(r, m)
           q == EffectivePriority(f, c)
           X == Dead(k)
<1>1. /\ Calls(c) /\ m \in guards[c] /\ k' = Unlocked(k, m)
      /\ pc' = [pc EXCEPT ![c] = IF UnlockNeeds(k, m) THEN "owe" ELSE "run"]
  BY DEF DropGuard, AfterCall, Goto
<1>2. /\ Lists(k, {}) /\ k \in MutexRec /\ k.prio \in Prios /\ Exact(k, X) /\ MutexTypes
      /\ X \in SUBSET Thread /\ k.st \in [Thread -> {"ready", "suspend", "close"}]
      /\ k.wq \in [Queue -> Seq(Thread)]
  BY PriorityFacts DEF MutexRec
<1>3. /\ k.cur = c /\ k.run = c /\ k.owner[m] = c /\ k.pending[c] = None /\ k.st[c] = "ready"
      /\ \A t \in Thread : k.st[t] = "ready" => k.prio[c] <= k.prio[t]
  BY <1>1, CallerUrgent, CallerIs DEF PriorityInv
<1>4. k' = y
  BY <1>1, <1>3 DEF Unlocked
<1>5. Lists(f, {m}) /\ f.st = k.st /\ f.cur = k.cur /\ f.run = k.run /\ f.pending = k.pending
      /\ f.owner = [k.owner EXCEPT ![m] = None]
  <2>1. Lists(f, {m})
    BY ONLY <1>2, <1>3, c \in Thread, m \in Queue, FreeIs
  <2>2. f.st = k.st /\ f.cur = k.cur /\ f.run = k.run /\ f.pending = k.pending
    BY <1>2 DEF Free, MutexRec
  <2>3. f.owner = [k.owner EXCEPT ![m] = None]
    BY <1>2 DEF Free, MutexRec
  <2> QED
    BY <2>1, <2>2, <2>3
<1>6. /\ f.prio = k.prio /\ Exact(f, X \cup {c})
      /\ \A u \in Thread : Target(f)[u] = IF k.pending[u] = m THEN None ELSE Target(k)[u]
  <2> HIDE DEF X
  <2> QED
    BY ONLY ZenonT(40), <1>2, <1>3, c \in Thread, m \in Queue, FreeFits
<1>7. f.wq = k.wq
  BY <1>2 DEF Free, MutexRec
<1> HIDE DEF f
<1>8. f \in MutexRec /\ Lines(f) /\ Owners(f, {m})
  BY <1>5 DEF Lists
<1>9. q \in Nat /\ Fits(k.prio, Target(f), c, q)
  BY <1>6, <1>8, EffectiveFits
<1> HIDE DEF q
<1>10. Shuffled(f, r) /\ r.prio = [k.prio EXCEPT ![c] = q]
  BY <1>3, <1>5, <1>6, <1>8, RecomputeIs, RecomputeEnd DEF q
<1> HIDE DEF r
<1>11. /\ Lists(r, {m}) /\ r.st = k.st /\ r.cur = c /\ r.run = c /\ r.pending = k.pending
       /\ r.owner[m] = None /\ Target(r) = Target(f)
       /\ \A n \in Queue : ToSet(r.wq[n]) = ToSet(k.wq[n])
  <2>1. Lists(r, {m})
    BY <1>5, <1>10, ShuffledLists
  <2> QED
    BY <1>2, <1>3, <1>5, <1>7, <1>10, <2>1 DEF Shuffled, Target, MutexRec
<1>12. /\ r.prio[c] = q /\ \A u \in Thread : u # c => r.prio[u] = k.prio[u]
  BY <1>2, <1>10 DEF Prios
<1>13. Exact(r, X)
  <2>1. Target(r)[c] = None
    BY <1>3, <1>11 DEF Target
  <2>2. ASSUME NEW t \in Thread \ X PROVE Fits(r.prio, Target(r), t, r.prio[t])
    <3>1. \A u \in Thread : Target(r)[u] = t => r.prio[u] = k.prio[u]
      BY <1>12, <2>1, KernelAssumption
    <3>2. Fits(k.prio, Target(r), t, r.prio[t])
      BY <1>6, <1>9, <1>11, <1>12 DEF Exact, Fitted
    <3> QED
      BY <3>1, <3>2 DEF Fits
  <2> QED
    BY <2>2 DEF Exact, Fitted
<1>14. /\ y.prio = r.prio /\ Exact(y, X) /\ Dead(y) = Dead(r)
       /\ IF r.wq[m] = <<>> THEN y = r
          ELSE LET w == Head(r.wq[m])
               IN  /\ w \in Thread /\ r.pending[w] = m /\ y.owner[m] = w
                   /\ \A u \in Thread : r.pending[u] = m => r.prio[w] <= r.prio[u]
                   /\ y.st = [r.st EXCEPT ![w] = "ready"]
  BY ONLY <1>11, <1>13, m \in Queue, PassOnFits
<1>15. /\ y.cur = c /\ y.run = c
  BY <1>11, PassOnIs
<1> HIDE DEF y
<1>16. Exact(k', Dead(k'))
  BY <1>4, <1>11, <1>14 DEF Dead
<1>17. Fits(k.prio, Target(k), c, k.prio[c])
  BY <1>2, <1>3 DEF Exact, Fitted, Dead
<1>18. Owed(k', pc')
  <2>1. CASE r.wq[m] = <<>>
    <3>1. \A u \in Thread : k.pending[u] # m
      <4>1. ToSet(r.wq[m]) = {}
        BY <2>1 DEF ToSet
      <4> QED
        BY <1>2, <1>11, <4>1 DEF Lists, Lines
    <3>2. Target(f) = Target(k)
      BY <1>6, <3>1 DEF Target
    <3>3. q = k.prio[c]
      <4>1. k.prio[c] \in Nat
        BY <1>2 DEF Prios
      <4> QED
        BY <1>2, <1>9, <1>17, <3>2, <4>1, FitsOne
    <3>4. y = r /\ \A u \in Thread : r.prio[u] = k.prio[u]
      BY <1>12, <1>14, <2>1, <3>3
    <3>5. Urgent(r)
      BY <1>3, <1>11, <3>4 DEF Urgent
    <3> QED
      BY <1>4, <3>4, <3>5 DEF Owed
  <2>2. CASE r.wq[m] # <<>>
    <3> DEFINE w == Head(r.wq[m])
    <3>1. /\ w \in Thread /\ k.pending[w] = m /\ y.owner[m] = w
          /\ \A u \in Thread : k.pending[u] = m => r.prio[w] <= r.prio[u]
          /\ y.st = [k.st EXCEPT ![w] = "ready"]
      BY <1>11, <1>14, <2>2
    <3> HIDE DEF w
    <3>2. w # c
      BY <1>3, <3>1, KernelAssumption
    <3>3. k.wq[m] # <<>>
      <4>1. w \in ToSet(k.wq[m])
        BY <1>2, <3>1 DEF Lists, Lines
      <4> QED
        BY <4>1 DEF ToSet
    <3>4. UnlockNeeds(k, m) <=> k.prio[w] < q
      <4>1. Unlocked(k, m) = y
        BY <1>1, <1>4
      <4>2. ReschedNeeded(y, w) <=> k.prio[w] < q
        BY <1>12, <1>14, <1>15, <3>1, <3>2 DEF ReschedNeeded
      <4> QED
        BY <1>3, <3>1, <3>3, <4>1, <4>2 DEF UnlockNeeds
    <3>5. CASE k.prio[w] < q
      <4>1. pc'[c] = "owe"
        BY <1>1, <1>2, <3>4, <3>5 DEF MutexTypes
      <4> QED
        BY <1>4, <1>15, <4>1 DEF Owed
    <3>6. CASE ~ (k.prio[w] < q)
      <4>0. k.prio[w] \in Nat /\ k.prio[c] \in Nat /\ \A u \in Thread : k.prio[u] \in Nat
        BY <1>2, <3>1 DEF Prios
      <4>1. q = k.prio[c]
        <5>1. k.prio[c] <= q
          BY <1>6, <1>9, <1>17, KernelAssumption DEF Fits
        <5>2. CASE k.prio[c] = Base[c]
          BY <1>9, <4>0, <5>1, <5>2 DEF Fits
        <5>3. CASE k.prio[c] # Base[c]
          <6>1. PICK v \in Thread : Target(k)[v] = c /\ k.prio[c] = k.prio[v]
            BY <1>17, <5>3 DEF Fits
          <6>2. CASE k.pending[v] = m
            <7>1. v # c
              BY <1>3, <6>2, KernelAssumption
            <7>2. k.prio[w] <= k.prio[v]
              BY <1>12, <3>1, <3>2, <6>2, <7>1
            <7> QED
              BY <1>9, <3>6, <4>0, <5>1, <6>1, <7>2
          <6>3. CASE k.pending[v] # m
            <7>1. q <= k.prio[v]
              BY <1>6, <1>9, <6>1, <6>3 DEF Fits
            <7> QED
              BY <1>9, <4>0, <5>1, <6>1, <7>1
          <6> QED
            BY <6>2, <6>3
        <5> QED
          BY <5>2, <5>3
      <4>2. \A u \in Thread : y.prio[u] = k.prio[u]
        BY <1>12, <1>14, <4>1
      <4>3. \A u \in Thread : y.st[u] = IF u = w THEN "ready" ELSE k.st[u]
        BY <1>2, <3>1
      <4>4. Urgent(y)
        BY <1>3, <1>15, <3>1, <3>6, <4>0, <4>1, <4>2, <4>3 DEF Urgent
      <4> QED
        BY <1>4, <4>4 DEF Owed
    <3> QED
      BY <3>5, <3>6
  <2> QED
    BY <2>1, <2>2
<1> QED
  BY <1>16, <1>18, DropGuardKeeps DEF PriorityInv, Owed

LEMMA DeletePriority ==
    ASSUME PriorityInv, NEW c \in Thread, NEW t \in Thread, Delete(c, t)
    PROVE  PriorityInv'
<1>1. Calls(c) /\ k' = Deleted(k, t) /\ pc' = [pc EXCEPT ![c] = "owe"]
  BY DEF Delete, Goto
<1>2. Exact(k', Dead(k'))
  BY <1>1, PriorityFacts, DeletedFits
<1>3. k'.cur = c /\ k'.run = c
  <2>1. Settled(k, k', t)
    BY <1>1, PriorityFacts, ClosedOwnsNothing, DeletedIs
  <2> QED
    BY <1>1, <2>1, CallerUrgent DEF Settled
<1>4. pc'[c] = "owe"
  BY <1>1, PriorityFacts DEF MutexTypes
<1> QED
  BY <1>2, <1>3, <1>4, DeleteKeeps DEF PriorityInv

LEMMA SleepPriority ==
    ASSUME PriorityInv, NEW c \in Thread, Sleep(c)
    PROVE  PriorityInv'
<1>1. Calls(c) /\ k' = Delayed(k, c) /\ pc' = [pc EXCEPT ![c] = "owe"]
  BY DEF Sleep, Goto
<1>2. /\ k'.prio = k.prio /\ k'.owner = k.owner /\ k'.pending = k.pending /\ k'.cur = k.cur
      /\ k'.run = k.run /\ k'.st = [k.st EXCEPT ![c] = "suspend"]
  BY <1>1, PriorityFacts DEF Delayed, MutexRec
<1>3. Dead(k') = Dead(k)
  BY <1>1, <1>2, PriorityFacts, CallerUrgent DEF Dead, MutexRec
<1>4. Exact(k', Dead(k'))
  BY <1>2, <1>3, PriorityFacts, SameExact DEF Target
<1>5. k'.run = c /\ k'.cur = c /\ pc'[c] = "owe"
  BY <1>1, <1>2, PriorityFacts, CallerUrgent DEF MutexTypes
<1> QED
  BY <1>4, <1>5, SleepKeeps DEF PriorityInv

LEMMA PausePriority ==
    ASSUME PriorityInv, NEW c \in Thread, NEW t \in Thread, Pause(c, t)
    PROVE  PriorityInv'
<1>1. Calls(c) /\ t # k.cur /\ k.st[t] = "ready" /\ k' = [k EXCEPT !.st[t] = "suspend"]
  BY DEF Pause, MaySuspend, Suspended
<1>2. /\ k'.prio = k.prio /\ k'.owner = k.owner /\ k'.pending = k.pending /\ k'.cur = k.cur
      /\ k'.st = [k.st EXCEPT ![t] = "suspend"]
  BY <1>1, PriorityFacts DEF MutexRec
<1>3. \A u \in Thread : k'.st[u] = IF u = t THEN "suspend" ELSE k.st[u]
  BY <1>2, PriorityFacts DEF MutexRec
<1>4. Dead(k') = Dead(k)
  BY <1>1, <1>3 DEF Dead
<1>5. Exact(k', Dead(k'))
  BY <1>2, <1>4, PriorityFacts, SameExact DEF Target
<1>6. Urgent(k')
  BY <1>1, <1>2, <1>3, CallerUrgent DEF Urgent
<1> QED
  BY <1>5, <1>6, PauseKeeps DEF PriorityInv

LEMMA WokenFits ==
    ASSUME PriorityInv, NEW t \in Thread, MayResume(k, t), NEW y, y = Wakeup(k, t)
    PROVE  /\ Exact(y, Dead(y)) /\ y \in MutexRec /\ y.run = k.run
           /\ \A p : Owed(k, p) /\ ~ReschedNeeded(k, t) => Owed(y, p)
<1>1. /\ y.prio = k.prio /\ y.owner = k.owner /\ y.pending = k.pending /\ y.cur = k.cur
      /\ y.run = k.run /\ y.st = [k.st EXCEPT ![t] = "ready"]
  BY PriorityFacts DEF MutexRec, Wakeup
<1>2. y \in MutexRec
  BY PriorityFacts, WokenIs DEF Lists
<1>3. \A u \in Thread : y.st[u] = IF u = t THEN "ready" ELSE k.st[u]
  BY <1>1, PriorityFacts DEF MutexRec
<1>4. Dead(y) = Dead(k)
  BY <1>3 DEF Dead, MayResume
<1>5. Exact(y, Dead(y))
  BY <1>1, <1>4, PriorityFacts, SameExact DEF Target
<1>6. ASSUME Urgent(k), ~ReschedNeeded(k, t) PROVE Urgent(y)
  <2>1. k.cur \in Thread /\ k.prio[k.cur] \in Nat /\ k.prio[t] \in Nat
    BY PriorityFacts DEF MutexRec
  <2>2. k.prio[k.cur] <= k.prio[t]
    BY <1>6, <2>1 DEF ReschedNeeded
  <2> QED
    BY <1>1, <1>3, <1>6, <2>1, <2>2 DEF Urgent
<1> QED
  BY <1>1, <1>2, <1>5, <1>6 DEF Owed

LEMMA ResumePriority ==
    ASSUME PriorityInv, NEW c \in Thread, NEW t \in Thread, Resume(c, t)
    PROVE  PriorityInv'
<1>1. /\ Calls(c) /\ MayResume(k, t) /\ k' = Wakeup(k, t)
      /\ pc' = [pc EXCEPT ![c] = IF ReschedNeeded(k, t) THEN "owe" ELSE "run"]
  BY DEF Resume, AfterCall, Goto
<1>2. /\ Exact(k', Dead(k')) /\ k'.run = k.run
      /\ Owed(k, pc') /\ ~ReschedNeeded(k, t) => Owed(k', pc')
  BY <1>1, WokenFits
<1>3. k'.cur = k.cur
  BY <1>1, WokenIs, PriorityFacts
<1>4. Owed(k', pc')
  <2>1. k.run = c /\ k.cur = c /\ Urgent(k)
    BY <1>1, CallerUrgent DEF Urgent
  <2>2. CASE ReschedNeeded(k, t)
    BY <1>1, <1>2, <1>3, <2>1, <2>2, PriorityFacts DEF MutexTypes, Owed
  <2>3. CASE ~ReschedNeeded(k, t)
    BY <1>2, <2>1, <2>3 DEF Owed
  <2> QED
    BY <2>2, <2>3
<1> QED
  BY <1>2, <1>4, ResumeKeeps DEF PriorityInv, Owed

LEMMA ResumeInHandlerPriority ==
    ASSUME PriorityInv, NEW t \in Thread, ResumeInHandler(t)
    PROVE  PriorityInv'
<1> DEFINE y == Wakeup(k, t)
<1>1. MayResume(k, t) /\ k' \in InHandler(y, ReschedNeeded(k, t)) /\ pc' = pc
  BY DEF ResumeInHandler
<1>2. /\ Exact(y, Dead(y)) /\ y \in MutexRec
      /\ ~ReschedNeeded(k, t) => Owed(y, pc)
  BY <1>1, WokenFits DEF PriorityInv, Owed
<1> HIDE DEF y
<1>3. Switched(y, k') /\ Owed(k', pc)
  BY <1>1, <1>2, HandlerOwed
<1>4. Exact(k', Dead(k'))
  BY <1>2, <1>3, SwitchedExact
<1> QED
  BY <1>1, <1>3, <1>4, ResumeInHandlerKeeps DEF PriorityInv, Owed

LEMMA DeleteInHandlerPriority ==
    ASSUME PriorityInv, NEW t \in Thread, DeleteInHandler(t)
    PROVE  PriorityInv'
<1> DEFINE y == Deleted(k, t)
<1>1. k' \in InHandler(y, TRUE)
  BY DEF DeleteInHandler
<1>2. Exact(y, Dead(y)) /\ y \in MutexRec
  <2>1. Settled(k, y, t)
    BY PriorityFacts, ClosedOwnsNothing, DeletedIs
  <2> QED
    BY <2>1, PriorityFacts, DeletedFits DEF Settled, Lists
<1> HIDE DEF y
<1>3. Switched(y, k') /\ Urgent(k')
  BY <1>1, <1>2, ScheduledUrgent DEF InHandler
<1>4. Exact(k', Dead(k'))
  BY <1>2, <1>3, SwitchedExact
<1> QED
  BY <1>3, <1>4, DeleteInHandlerKeeps DEF PriorityInv

LEMMA TimerPopPriority ==
    ASSUME PriorityInv, NEW t \in Thread, TimerPop(t)
    PROVE  PriorityInv'
<1>1. k' = [k EXCEPT !.armed = @ \ {t}] /\ pc' = pc
  BY DEF TimerPop
<1>2. /\ k'.prio = k.prio /\ k'.owner = k.owner /\ k'.pending = k.pending /\ k'.cur = k.cur
      /\ k'.run = k.run /\ k'.st = k.st
  BY <1>1, PriorityFacts DEF MutexRec
<1>3. Exact(k', Dead(k'))
  BY <1>2, PriorityFacts, SameExact DEF Target, Dead
<1> QED
  BY <1>1, <1>2, <1>3, TimerPopKeeps DEF PriorityInv, Urgent

\* When the waiter that timed out does not preempt, CURRENT did not sink: had its own priority
\* come from the waiter, the waiter would be more urgent now.
LEMMA TimerCallbackPriority ==
    ASSUME PriorityInv, TimerCallback
    PROVE  PriorityInv'
<1> DEFINE t == popped
           y == WaitTimedOut(k, t)
<1>1. t \in Thread /\ pc' = pc
  BY PriorityFacts DEF TimerCallback, MutexTypes
<1>2. CASE k.st[t] # "suspend"
  <2>1. k' = k
    BY <1>2 DEF TimerCallback
  <2> QED
    BY <1>1, <2>1, TimerCallbackKeeps DEF PriorityInv
<1>3. CASE k.st[t] = "suspend"
  <2>1. k' \in InHandler(y, ReschedNeeded(y, t))
    BY <1>3 DEF TimerCallback
  <2>2. /\ Dead(y) = Dead(k) /\ y.run = k.run /\ y.cur = k.cur
        /\ y.st = [k.st EXCEPT ![t] = "ready"]
        /\ Falling(y.prio, Target(y), Dead(k), None, k.prio[t], k.prio)
        /\ \A u \in Thread : u = t \/ k.pending[u] = None => Target(y)[u] = None
    BY <1>1, <1>3, PriorityFacts, TimedOutFits
  <2>3. y \in MutexRec
    BY <1>1, PriorityFacts, TimedOutIs DEF Lists
  <2> HIDE DEF y, t
  <2>4. Exact(y, Dead(y))
    BY <2>2, PriorityFacts, FallenFitted DEF Exact
  <2>5. ASSUME ~ReschedNeeded(y, t) PROVE Owed(y, pc)
    <3>1. CASE Urgent(k)
      <4> DEFINE c == k.cur
      <4>1. c \in Thread /\ k.st[c] = "ready" /\ c # t
        BY <1>3, <3>1, PriorityFacts DEF Urgent, MutexRec
      <4>2. k.pending[c] = None
        BY <4>1, PriorityFacts DEF Lists, Waiting, Awaits
      <4>3. \A u \in Thread : y.prio[u] \in Nat /\ k.prio[u] \in Nat
        BY <2>3, PriorityFacts DEF MutexRec
      <4>4. y.prio[c] <= y.prio[t]
        BY <1>1, <2>2, <2>5, <4>1, <4>3 DEF ReschedNeeded
      <4>5. \A u \in Thread : k.prio[u] <= y.prio[u]
        BY <2>2, <4>3 DEF Falling
      <4>6. y.prio[c] = k.prio[c]
        <5>1. SUFFICES ASSUME y.prio[c] # k.prio[c] PROVE FALSE
          OBVIOUS
        <5>2. k.prio[t] < y.prio[c]
          BY <2>2, <4>1, <5>1 DEF Falling
        <5>3. Target(y)[c] = None /\ Target(y)[t] = None
          BY <1>1, <2>2, <4>1, <4>2
        <5>4. y.prio[t] = k.prio[t]
          BY <1>1, <2>2, <4>1, <5>1, <5>3 DEF Falling
        <5> QED
          BY <1>1, <4>1, <4>3, <4>4, <5>2, <5>4
      <4>7. \A u \in Thread : y.st[u] = IF u = t THEN "ready" ELSE k.st[u]
        BY <2>2, PriorityFacts DEF MutexRec
      <4>8. ASSUME NEW u \in Thread, y.st[u] = "ready" PROVE y.prio[c] <= y.prio[u]
        <5>1. CASE u = t
          BY <4>4, <5>1
        <5>2. CASE u # t
          <6>1. k.prio[c] <= k.prio[u]
            BY <3>1, <4>7, <4>8, <5>2 DEF Urgent
          <6> QED
            BY <4>1, <4>3, <4>5, <4>6, <6>1
        <5> QED
          BY <5>1, <5>2
      <4>9. Urgent(y)
        BY <2>2, <4>1, <4>7, <4>8 DEF Urgent
      <4> QED
        BY <4>9 DEF Owed
    <3>2. CASE ~Urgent(k)
      BY <2>2, <3>2 DEF PriorityInv, Owed
    <3> QED
      BY <3>1, <3>2
  <2>6. Switched(y, k') /\ Owed(k', pc)
    BY <2>1, <2>3, <2>5, HandlerOwed
  <2>7. Exact(k', Dead(k'))
    BY <2>4, <2>6, SwitchedExact
  <2> QED
    BY <1>1, <2>6, <2>7, TimerCallbackKeeps DEF PriorityInv, Owed
<1> QED
  BY <1>2, <1>3

LEMMA PendSVPriority ==
    ASSUME PriorityInv, PendSV
    PROVE  PriorityInv'
<1>1. k.run # k.cur /\ k' = [k EXCEPT !.run = k.cur]
  BY DEF PendSV, Dispatched
<1>2. /\ k'.prio = k.prio /\ k'.owner = k.owner /\ k'.pending = k.pending /\ k'.cur = k.cur
      /\ k'.st = k.st
  BY <1>1, PriorityFacts DEF MutexRec
<1>3. Exact(k', Dead(k'))
  BY <1>2, PriorityFacts, SameExact DEF Target, Dead
<1>4. Urgent(k')
  BY <1>1, <1>2 DEF PriorityInv, Urgent
<1> QED
  BY <1>3, <1>4, PendSVKeeps DEF PriorityInv

LEMMA PriorityNext == PriorityInv /\ [Next]_vars => PriorityInv'
<1> SUFFICES ASSUME PriorityInv, [Next]_vars PROVE PriorityInv'
  OBVIOUS
<1>1. ASSUME NEW c \in Thread, ThreadNext(c) PROVE PriorityInv'
  <2>1. ASSUME NEW m \in Mutexes,
               LockFree(c, m) \/ DropGuard(c, m) \/ \E timed \in BOOLEAN : LockBlock(c, m, timed)
        PROVE  PriorityInv'
    BY <2>1, LockFreePriority, DropGuardPriority, LockBlockPriority DEF Mutexes
  <2>2. ASSUME NEW t \in Thread, Delete(c, t) \/ Pause(c, t) \/ Resume(c, t)
        PROVE  PriorityInv'
    BY <2>2, DeletePriority, PausePriority, ResumePriority
  <2> QED
    BY <1>1, <2>1, <2>2, CallSchedulePriority, LockReturnPriority, SleepPriority DEF ThreadNext
<1>2. CASE HandlerNext
  BY <1>2, TimerCallbackPriority, TimerPopPriority, DeleteInHandlerPriority,
     ResumeInHandlerPriority DEF HandlerNext
<1>3. CASE UNCHANGED vars
  BY <1>3 DEF vars, PriorityInv, MutexInv, MutexTypes
<1> QED
  BY <1>1, <1>2, <1>3, PendSVPriority DEF Next

LEMMA PriorityHolds == Spec => []PriorityInv
  BY PriorityInit, PriorityNext, PTL DEF Spec

-----------------------------------------------------------------------------
(* The theorems.                                                           *)

\* Every living thread runs at the priority of the most urgent of itself and those that wait
\* for it, directly or along a chain, as mutex_recompute_priority would compute it: no boost is
\* missing and none is left over, after locks, drops, timeouts and deletions in any order, and
\* when threads wait for each other in a cycle.
THEOREM InheritanceExact == Spec => []PriorityExact
<1>1. PriorityInv => PriorityExact
  <2> SUFFICES ASSUME PriorityInv, NEW t \in Thread, k.st[t] # "close"
               PROVE  k.prio[t] = EffectivePriority(k, t)
    BY DEF PriorityExact
  <2>1. /\ k \in MutexRec /\ Lines(k) /\ Owners(k, {}) /\ k.prio \in Prios
        /\ Fits(k.prio, Target(k), t, k.prio[t])
    BY PriorityFacts DEF Lists, Exact, Fitted, Dead
  <2>2. /\ EffectivePriority(k, t) \in Nat
        /\ Fits(k.prio, Target(k), t, EffectivePriority(k, t))
    BY <2>1, EffectiveFits
  <2>3. k.prio[t] \in Nat
    BY <2>1 DEF Prios
  <2> QED
    BY <2>1, <2>2, <2>3, FitsOne
<1> QED
  BY <1>1, PriorityHolds, PTL

\* Outside a call that is about to schedule(), the thread that executes is the most urgent
\* ready one: unlock, timeouts, deletion and resume skip schedule() only when the woken thread
\* is not more urgent, with the priorities of all as they are after the handover.
THEOREM PreemptionExact == Spec => []Preemptive
<1>1. PriorityInv => Preemptive
  <2> SUFFICES ASSUME PriorityInv, k.run = k.cur,
                      k.run \notin {t \in Thread : pc[t] \in {"owe", "block"}}
               PROVE  /\ k.st[k.run] = "ready"
                      /\ \A t \in Thread : k.st[t] = "ready" => k.prio[k.run] <= k.prio[t]
    BY DEF Preemptive, MostUrgent
  <2>1. k.cur \in Thread
    BY PriorityFacts DEF MutexRec
  <2>2. Urgent(k)
    BY <2>1 DEF PriorityInv
  <2> QED
    BY <2>2 DEF Urgent
<1> QED
  BY <1>1, PriorityHolds, PTL

=============================================================================
