---------------------------- MODULE Mutex_proofs ----------------------------
(***************************************************************************)
(* Mutexes with priority inheritance (ipc.rs): nobody but the owner has a  *)
(* guard, every owned mutex has one, and the lists of waiters and owners   *)
(* agree and are in order; proved for every set of threads and mutexes, any*)
(* priorities, and every interleaving of threads, handlers, timeouts and   *)
(* deletions.                                                              *)
(***************************************************************************)
EXTENDS Mutex, QueueLemmas, FiniteSetTheorems

-----------------------------------------------------------------------------
(* The invariant.                                                          *)

MutexRec ==
    [st : [Thread -> {"ready", "suspend", "close"}], prio : [Thread -> Nat],
     cur : Thread, run : Thread, err : [Thread -> BOOLEAN],
     armed : SUBSET Thread, sleep : SUBSET Thread, wq : [Queue -> Seq(Thread)],
     owner : [Queue -> Thread \cup {None}], taken : [Thread -> Seq(Queue)],
     pending : [Thread -> Queue \cup {None}]]

\* The sequence w is in the order of the priorities p.
Ordered(p, w) == \A i, j \in DOMAIN w : i < j => p[w[i]] <= p[w[j]]

\* The queues of waiters and what they wait for agree, and the queues are in order.
Lines(s) ==
    \A m \in Queue :
        /\ \A t \in Thread : s.pending[t] = m <=> t \in ToSet(s.wq[m])
        /\ IsInjective(s.wq[m]) /\ Ordered(s.prio, s.wq[m])

\* The owners and the lists of taken mutexes agree; nobody waits for itself; and only a
\* mutex in F is waited for without an owner.
Owners(s, F) ==
    /\ \A t \in Thread : IsInjective(s.taken[t])
    /\ \A m \in Queue : \A t \in Thread : s.owner[m] = t <=> m \in ToSet(s.taken[t])
    /\ \A t \in Thread : s.pending[t] # None =>
         /\ s.owner[s.pending[t]] # t
         /\ s.owner[s.pending[t]] = None => s.pending[t] \in F

\* Whoever waits is suspended, for one reason, and only a waiter has a timer.
Awaits(s, t) == t \in s.sleep \/ s.pending[t] # None
Waiting(s) ==
    \A t \in Thread : /\ t \in s.sleep => s.pending[t] = None
                      /\ Awaits(s, t) => s.st[t] = "suspend"
                      /\ t \in s.armed => Awaits(s, t)

Lists(s, F) == s \in MutexRec /\ Lines(s) /\ Owners(s, F) /\ Waiting(s)

\* What t believes, with p, w and g its pc, wants and guards, is so: t waits for what it
\* wants or owns it, unless the wait ended with an error, and owns what it has guards of.
Believes(s, t, p, w, g) ==
    /\ p \in {"run", "owe"} => w = None
    /\ s.pending[t] # None => w = s.pending[t] /\ ~s.err[t]
    /\ \A m \in Queue : s.owner[m] = t =>
         m \in g \/ (w = m /\ s.pending[t] = None /\ ~s.err[t])
    /\ \A m \in g \cap Queue : s.owner[m] = t
    /\ w # None /\ s.pending[t] = None /\ ~s.err[t] => s.owner[w] = t
    /\ w # None => t \notin s.sleep
    /\ s.st[t] = "close" => w = None /\ g = {}

MutexTypes ==
    /\ pc \in [Thread -> {"run", "owe", "block", "wait"}]
    /\ wants \in [Thread -> Queue \cup {None}]
    /\ guards \in [Thread -> SUBSET (Queue \cup {None})]
    /\ popped \in Thread \cup {None}

\* A thread that is suspended is not so by Thread::suspend.
Unparked(s, t) == s.st[t] = "suspend" => Awaits(s, t)

\* CURRENT is past its wait only when it was made ready; and a thread whose timer was
\* popped still waits unless something woke it.
MutexInv ==
    /\ Lists(k, {}) /\ MutexTypes
    /\ \A t \in Thread : Believes(k, t, pc[t], wants[t], guards[t])
    /\ pc[k.cur] = "wait" => k.st[k.cur] = "ready"
    /\ popped # None => Unparked(k, popped)

-----------------------------------------------------------------------------
(* Queues in order.                                                        *)

LEMMA RemoveOrdered ==
    ASSUME NEW p \in [Thread -> Nat], NEW w \in Seq(Thread), Ordered(p, w), NEW x
    PROVE  Ordered(p, RemoveFirst(w, x))
<1>1. DOMAIN w = 1 .. Len(w) /\ Len(w) \in Nat
  OBVIOUS
<1>2. CASE x \notin ToSet(w)
  <2>1. ~ \E i \in 1 .. Len(w) : w[i] = x
    BY <1>1, <1>2 DEF ToSet
  <2> QED
    BY <2>1 DEF RemoveFirst
<1>3. CASE x \in ToSet(w)
  <2> DEFINE r == RemoveFirst(w, x)
  <2>1. PICK n \in 1 .. Len(w) :
          /\ DOMAIN r = 1 .. Len(w) - 1
          /\ \A i \in 1 .. Len(w) - 1 : r[i] = IF i < n THEN w[i] ELSE w[i + 1]
    BY <1>3, RemoveShifts
  <2> HIDE DEF r
  <2>2. ASSUME NEW i \in DOMAIN r, NEW j \in DOMAIN r, i < j PROVE p[r[i]] <= p[r[j]]
    <3> DEFINE ii == IF i < n THEN i ELSE i + 1
               jj == IF j < n THEN j ELSE j + 1
    <3>1. i \in 1 .. Len(w) - 1 /\ j \in 1 .. Len(w) - 1
      BY <2>1, <2>2
    <3>2. ii \in 1 .. Len(w) /\ jj \in 1 .. Len(w) /\ ii < jj
      <4>1. i \in Nat /\ j \in Nat /\ n \in Nat /\ Len(w) \in Nat /\ i < j
        BY <1>1, <2>1, <2>2, <3>1
      <4>2. ii \in 1 .. Len(w) /\ jj \in 1 .. Len(w)
        BY <3>1, <4>1
      <4>3. ii < jj
        BY ONLY <4>1
      <4> QED
        BY <4>2, <4>3
    <3>3. r[i] = w[ii] /\ r[j] = w[jj]
      BY <2>1, <3>1
    <3> HIDE DEF ii, jj
    <3> QED
      BY <1>1, <3>2, <3>3 DEF Ordered
  <2> QED
    BY <2>2 DEF Ordered, r
<1> QED
  BY <1>2, <1>3

LEMMA TailOrdered ==
    ASSUME NEW p, NEW w \in Seq(Thread), w # <<>>, Ordered(p, w)
    PROVE  Ordered(p, Tail(w))
<1>1. /\ Len(w) \in Nat \ {0} /\ DOMAIN w = 1 .. Len(w) /\ DOMAIN Tail(w) = 1 .. Len(w) - 1
      /\ \A i \in 1 .. Len(w) - 1 : Tail(w)[i] = w[i + 1]
  OBVIOUS
<1>2. ASSUME NEW i \in DOMAIN Tail(w), NEW j \in DOMAIN Tail(w), i < j
      PROVE  p[Tail(w)[i]] <= p[Tail(w)[j]]
  <2>1. i + 1 \in DOMAIN w /\ j + 1 \in DOMAIN w /\ i + 1 < j + 1
    BY <1>1, <1>2
  <2> QED
    BY <1>1, <1>2, <2>1 DEF Ordered
<1> QED
  BY <1>2 DEF Ordered

\* insert_prio_waiter keeps the order.
LEMMA InsertedIs ==
    ASSUME NEW p \in [Thread -> Nat], NEW w \in Seq(Thread), NEW t \in Thread,
           Ordered(p, w), IsInjective(w), t \notin ToSet(w)
    PROVE  LET r == InsertPrioWaiter(w, p, t)
           IN  /\ r \in Seq(Thread) /\ ToSet(r) = ToSet(w) \cup {t}
               /\ IsInjective(r) /\ Ordered(p, r)
<1> DEFINE I == {i \in 1 .. Len(w) : p[w[i]] > p[t]}
           n == SelectInSeq(w, LAMBDA x : p[x] > p[t])
           r == InsertPrioWaiter(w, p, t)
<1>1. DOMAIN w = 1 .. Len(w) /\ Len(w) \in Nat /\ \A i \in 1 .. Len(w) : w[i] \in Thread
  OBVIOUS
<1>2. r = IF n = 0 THEN Append(w, t) ELSE InsertAt(w, n, t)
  BY DEF InsertPrioWaiter
<1>3. IF I = {} THEN n = 0 ELSE n \in I /\ \A i \in I : n <= i
  <2>1. n = IF I # {} THEN Min(I) ELSE 0
    BY DEF SelectInSeq
  <2>2. I \in SUBSET Nat
    OBVIOUS
  <2> HIDE DEF I, n
  <2> QED
    BY <2>1, <2>2, LeastElement DEF Min
<1> HIDE DEF n, r
<1>4. CASE I = {}
  <2>1. r = Append(w, t)
    BY <1>2, <1>3, <1>4
  <2>2. \A i \in 1 .. Len(w) : p[w[i]] <= p[t]
    <3>1. ASSUME NEW i \in 1 .. Len(w) PROVE p[w[i]] <= p[t]
      <4>1. p[w[i]] \in Nat /\ p[t] \in Nat /\ ~ (p[w[i]] > p[t])
        BY <1>1, <1>4
      <4> QED
        BY <4>1
    <3> QED
      BY <3>1
  <2>3. /\ DOMAIN r = 1 .. Len(w) + 1 /\ r[Len(w) + 1] = t
        /\ \A i \in 1 .. Len(w) : r[i] = w[i]
    BY <2>1
  <2>4. ASSUME NEW i \in DOMAIN r, NEW j \in DOMAIN r, i < j PROVE p[r[i]] <= p[r[j]]
    <3>1. i \in 1 .. Len(w) /\ (j \in 1 .. Len(w) \/ j = Len(w) + 1)
      BY <1>1, <2>3, <2>4
    <3> QED
      BY <1>1, <2>2, <2>3, <2>4, <3>1 DEF Ordered
  <2> QED
    BY <2>1, <2>4, AppendQueue DEF Ordered, r
<1>5. CASE I # {}
  <2>1. n \in 1 .. Len(w) /\ p[w[n]] > p[t] /\ r = InsertAt(w, n, t)
    BY <1>2, <1>3, <1>5
  <2>2. \A i \in 1 .. Len(w) : i < n => p[w[i]] <= p[t]
    <3>1. ASSUME NEW i \in 1 .. Len(w), i < n PROVE p[w[i]] <= p[t]
      <4>1. i \notin I
        BY <1>3, <1>5, <2>1, <3>1
      <4>2. p[w[i]] \in Nat /\ p[t] \in Nat /\ ~ (p[w[i]] > p[t])
        BY <1>1, <4>1
      <4> QED
        BY <4>2
    <3> QED
      BY <3>1
  <2>3. \A i \in 1 .. Len(w) : i >= n => p[t] <= p[w[i]]
    <3>1. ASSUME NEW i \in 1 .. Len(w), i >= n PROVE p[t] <= p[w[i]]
      <4>1. p[w[n]] <= p[w[i]]
        <5>1. CASE i = n
          BY <1>1, <5>1
        <5>2. CASE i # n
          <6>1. n < i
            BY <2>1, <3>1, <5>2
          <6> QED
            BY <1>1, <2>1, <6>1 DEF Ordered
        <5> QED
          BY <5>1, <5>2
      <4>2. p[w[n]] \in Nat /\ p[w[i]] \in Nat /\ p[t] \in Nat
        BY <1>1, <2>1
      <4> QED
        BY <2>1, <4>1, <4>2
    <3> QED
      BY <3>1
  <2>4. /\ r \in Seq(Thread) /\ DOMAIN r = 1 .. Len(w) + 1
        /\ \A j \in 1 .. Len(w) + 1 : r[j] = IF j < n THEN w[j] ELSE IF j = n THEN t ELSE w[j - 1]
    <3> DEFINE v == InsertAt(w, n, t)
    <3>1. n \in 1 .. Len(w)
      BY <2>1
    <3>2. /\ v \in Seq(Thread) /\ DOMAIN v = 1 .. Len(w) + 1
          /\ \A j \in 1 .. Len(w) + 1 : v[j] = IF j < n THEN w[j] ELSE IF j = n THEN t ELSE w[j - 1]
      BY ONLY <3>1, w \in Seq(Thread), t \in Thread, InsertShifts
    <3> HIDE DEF v
    <3>3. r = v
      BY <2>1 DEF v
    <3> QED
      BY <3>2, <3>3
  <2>5. ASSUME NEW i \in DOMAIN r, NEW j \in DOMAIN r, i < j PROVE p[r[i]] <= p[r[j]]
    <3> DEFINE ii == IF i < n THEN i ELSE i - 1
               jj == IF j < n THEN j ELSE j - 1
    <3>0. i \in 1 .. Len(w) + 1 /\ j \in 1 .. Len(w) + 1
      BY <2>4, <2>5
    <3>1. /\ i # n => ii \in 1 .. Len(w) /\ r[i] = w[ii]
          /\ j # n => jj \in 1 .. Len(w) /\ r[j] = w[jj]
      <4>1. (i # n => ii \in 1 .. Len(w)) /\ (j # n => jj \in 1 .. Len(w))
        BY <1>1, <2>1, <3>0
      <4>2. (i # n => r[i] = w[ii]) /\ (j # n => r[j] = w[jj])
        BY <2>4, <3>0
      <4> QED
        BY <4>1, <4>2
    <3>2. r[n] = t
      BY <1>1, <2>1, <2>4
    <3>3. CASE i = n
      <4>1. jj >= n /\ j # n
        BY <1>1, <2>1, <2>4, <2>5, <3>3
      <4> QED
        BY <2>3, <3>1, <3>2, <3>3, <4>1
    <3>4. CASE j = n
      <4>1. ii < n /\ i # n
        BY <1>1, <2>1, <2>4, <2>5, <3>4
      <4> QED
        BY <2>2, <3>1, <3>2, <3>4, <4>1
    <3>5. CASE i # n /\ j # n
      <4>1. ii < jj
        <5>1. /\ i \in Nat /\ j \in Nat /\ n \in Nat
              /\ i < j /\ i # n /\ j # n
          BY <1>1, <2>1, <2>4, <2>5, <3>5
        <5> QED
          BY ONLY <5>1
      <4> QED
        BY <1>1, <3>1, <3>5, <4>1 DEF Ordered
    <3> QED
      BY <3>3, <3>4, <3>5
  <2>6. ToSet(r) = ToSet(w) \cup {t} /\ IsInjective(r)
    BY <2>1, InsertQueue
  <2> QED
    BY <2>4, <2>5, <2>6 DEF Ordered, r
<1> QED
  BY <1>4, <1>5

-----------------------------------------------------------------------------
(* Chains of priorities.  Only priorities change, and the order in queues. *)

Shuffled(x, y) ==
    /\ y \in MutexRec /\ Lines(y)
    /\ y.st = x.st /\ y.cur = x.cur /\ y.run = x.run /\ y.err = x.err
    /\ y.armed = x.armed /\ y.sleep = x.sleep
    /\ y.owner = x.owner /\ y.taken = x.taken /\ y.pending = x.pending
    /\ \A m \in Queue : ToSet(y.wq[m]) = ToSet(x.wq[m])

LEMMA ShuffledTrans ==
    ASSUME NEW x, NEW y, NEW z, Shuffled(x, y), Shuffled(y, z)
    PROVE  Shuffled(x, z)
  BY DEF Shuffled

LEMMA OrderedSame ==
    ASSUME NEW p, NEW p2, NEW w, Ordered(p, w), \A x \in ToSet(w) : p2[x] = p[x]
    PROVE  Ordered(p2, w)
  BY DEF Ordered, ToSet

LEMMA NotPending ==
    ASSUME NEW x \in MutexRec, Lines(x), NEW t \in Thread, x.pending[t] = None
    PROVE  \A m \in Queue : t \notin ToSet(x.wq[m])
  BY KernelAssumption DEF Lines

LEMMA ReprioritizedIs ==
    ASSUME NEW x \in MutexRec, Lines(x), NEW t \in Thread, NEW p \in Nat
    PROVE  Shuffled(x, Reprioritized(x, t, p))
<1> DEFINE prio == [x.prio EXCEPT ![t] = p]
           s == [x EXCEPT !.prio[t] = p]
           q == x.pending[t]
           y == Reprioritized(x, t, p)
<1>1. /\ s \in MutexRec /\ s.prio = prio /\ prio \in [Thread -> Nat] /\ s.wq = x.wq
      /\ s.st = x.st /\ s.cur = x.cur /\ s.run = x.run /\ s.err = x.err
      /\ s.armed = x.armed /\ s.sleep = x.sleep
      /\ s.owner = x.owner /\ s.taken = x.taken /\ s.pending = x.pending
      /\ \A u \in Thread : u # t => prio[u] = x.prio[u]
  BY DEF MutexRec
<1>2. /\ x.wq \in [Queue -> Seq(Thread)] /\ q \in Queue \cup {None}
      /\ \A m \in Queue : ToSet(x.wq[m]) \subseteq Thread
  <2>1. x.wq \in [Queue -> Seq(Thread)] /\ q \in Queue \cup {None}
    BY DEF MutexRec
  <2>2. ASSUME NEW m \in Queue PROVE ToSet(x.wq[m]) \subseteq Thread
    <3>1. x.wq[m] \in Seq(Thread)
      BY <2>1
    <3> QED
      BY <3>1 DEF ToSet
  <2> QED
    BY <2>1, <2>2
<1>3. \A m \in Queue : t \notin ToSet(x.wq[m]) => Ordered(prio, x.wq[m])
  <2>1. ASSUME NEW m \in Queue, t \notin ToSet(x.wq[m]) PROVE Ordered(prio, x.wq[m])
    <3>1. \A u \in ToSet(x.wq[m]) : prio[u] = x.prio[u]
      BY <1>1, <1>2, <2>1
    <3>2. Ordered(x.prio, x.wq[m])
      BY DEF Lines
    <3> HIDE DEF prio
    <3> QED
      BY <3>1, <3>2, OrderedSame
  <2> QED
    BY <2>1
<1>4. y = IF q = None THEN s ELSE [s EXCEPT !.wq[q] = InsertPrioWaiter(RemoveFirst(@, t), s.prio, t)]
  BY <1>1 DEF Reprioritized, Requeue
<1> HIDE DEF s, prio, y, q
<1>5. CASE q = None
  <2>1. \A m \in Queue : Ordered(s.prio, s.wq[m])
    BY <1>1, <1>3, <1>5, NotPending DEF q
  <2>2. Lines(s)
    BY <1>1, <2>1 DEF Lines
  <2> QED
    BY <1>1, <1>4, <1>5, <2>2 DEF Shuffled, y
<1>6. CASE q \in Queue
  <2> DEFINE w == RemoveFirst(x.wq[q], t)
             v == InsertPrioWaiter(w, prio, t)
  <2>1. t \in ToSet(x.wq[q]) /\ IsInjective(x.wq[q]) /\ Ordered(x.prio, x.wq[q])
    BY <1>6 DEF Lines, q
  <2>2. /\ w \in Seq(Thread) /\ IsInjective(w) /\ ToSet(w) = ToSet(x.wq[q]) \ {t}
    BY <1>2, <1>6, <2>1, RemoveQueue
  <2>3. Ordered(x.prio, w)
    <3>1. x.prio \in [Thread -> Nat] /\ x.wq[q] \in Seq(Thread)
      BY <1>2, <1>6 DEF MutexRec
    <3> QED
      BY <2>1, <3>1, RemoveOrdered
  <2> HIDE DEF w
  <2>4. Ordered(prio, w)
    <3>1. \A u \in ToSet(w) : prio[u] = x.prio[u]
      BY <1>1, <1>2, <1>6, <2>2
    <3> QED
      BY <2>3, <3>1, OrderedSame
  <2>5. v \in Seq(Thread) /\ ToSet(v) = ToSet(w) \cup {t} /\ IsInjective(v) /\ Ordered(prio, v)
    BY <1>1, <2>2, <2>4, InsertedIs
  <2>6. y = [s EXCEPT !.wq[q] = v]
    BY <1>1, <1>4, <1>6, KernelAssumption DEF w
  <2> HIDE DEF v
  <2>7. /\ y \in MutexRec /\ y.prio = prio /\ y.wq = [x.wq EXCEPT ![q] = v]
        /\ y.st = x.st /\ y.cur = x.cur /\ y.run = x.run /\ y.err = x.err
        /\ y.armed = x.armed /\ y.sleep = x.sleep
        /\ y.owner = x.owner /\ y.taken = x.taken /\ y.pending = x.pending
    BY <1>1, <1>6, <2>5, <2>6 DEF MutexRec
  <2>8. y.wq[q] = v /\ \A m \in Queue : m # q => y.wq[m] = x.wq[m] /\ t \notin ToSet(x.wq[m])
    <3>1. \A m \in Queue : m # q => t \notin ToSet(x.wq[m])
      BY DEF Lines, q
    <3> QED
      BY <1>2, <1>6, <2>7, <3>1
  <2>9. \A m \in Queue : /\ ToSet(y.wq[m]) = ToSet(x.wq[m])
                         /\ IsInjective(y.wq[m]) /\ Ordered(y.prio, y.wq[m])
    <3>1. ASSUME NEW m \in Queue
          PROVE  /\ ToSet(y.wq[m]) = ToSet(x.wq[m])
                 /\ IsInjective(y.wq[m]) /\ Ordered(y.prio, y.wq[m])
      <4>1. CASE m = q
        BY <2>1, <2>2, <2>5, <2>7, <2>8, <4>1
      <4>2. CASE m # q
        BY <1>3, <2>7, <2>8, <4>2 DEF Lines
      <4> QED
        BY <4>1, <4>2
    <3> QED
      BY <3>1
  <2>10. Lines(y)
    BY <2>7, <2>9 DEF Lines
  <2> QED
    BY <2>7, <2>9, <2>10 DEF Shuffled, y
<1> QED
  BY <1>2, <1>5, <1>6

LEMMA EffectiveNat ==
    ASSUME NEW x \in MutexRec, NEW t \in Thread
    PROVE  EffectivePriority(x, t) \in Nat
<1> DEFINE M == {m \in ToSet(x.taken[t]) : x.wq[m] # <<>>}
           heads == {x.prio[Head(x.wq[m])] : m \in M}
           I == {Base[t]} \cup heads
<1>1. \A m \in M : x.prio[Head(x.wq[m])] \in Nat
  <2>1. ASSUME NEW m \in M PROVE x.prio[Head(x.wq[m])] \in Nat
    <3>1. x.taken[t] \in Seq(Queue) /\ m \in ToSet(x.taken[t])
      BY DEF MutexRec
    <3>2. m \in Queue
      BY <3>1 DEF ToSet
    <3>3. x.wq[m] \in Seq(Thread) /\ x.wq[m] # <<>>
      BY <3>2 DEF MutexRec
    <3>4. Head(x.wq[m]) \in Thread
      BY <3>3
    <3> QED
      BY <3>4 DEF MutexRec
  <2> QED
    BY <2>1
<1>2. Base[t] \in Nat
  BY KernelAssumption
<1>3. I \in SUBSET Nat /\ I # {}
  BY <1>1, <1>2
<1>4. EffectivePriority(x, t) = Min(I)
  BY DEF EffectivePriority
<1> HIDE DEF I
<1>5. Min(I) \in I
  BY <1>3, LeastElement DEF Min
<1> QED
  BY <1>3, <1>4, <1>5

\* What is true at first, and stays true in each of n rounds, is true after them.
LEMMA StaysIn ==
    ASSUME NEW S, NEW n \in Nat, NEW h, h[0] \in S,
           \A i \in 1 .. n : h[i - 1] \in S => h[i] \in S
    PROVE  \A i \in 0 .. n : h[i] \in S
<1> DEFINE Bad == {i \in 0 .. n : h[i] \notin S}
<1>0. Bad \in SUBSET Nat
  OBVIOUS
<1>1. Bad = {}
  <2>1. SUFFICES ASSUME Bad # {} PROVE FALSE
    OBVIOUS
  <2>2. PICK i \in Bad : \A j \in Bad : i <= j
    <3> HIDE DEF Bad
    <3> QED
      BY <1>0, <2>1, LeastElement
  <2>3. i # 0 /\ i \in 0 .. n /\ h[i] \notin S
    OBVIOUS
  <2>4. i - 1 \in 0 .. n /\ i \in 1 .. n /\ ~ (i <= i - 1)
    BY <2>3
  <2>5. h[i - 1] \in S
    BY <2>2, <2>4
  <2> QED
    BY <2>3, <2>4, <2>5
<1> QED
  BY <1>1

\* h[i] is what x becomes in i rounds of a loop.
Unrolls(h, x, step, n) == h[0] = x /\ \A i \in 1 .. n : h[i] = step[h[i - 1]]

\* The recursion of a loop whose body is a function on S is well founded.
LEMMA RecursionIs ==
    ASSUME NEW S, NEW step \in [S -> S], NEW x \in S, NEW n \in Nat
    PROVE  \E h \in [0 .. n -> S] : Unrolls(h, x, step, n)
<1> DEFINE Is(h, m) == h = [i \in 0 .. m |-> IF i = 0 THEN x ELSE step[h[i - 1]]]
           Bad == {m \in Nat : ~ \E h : Is(h, m)}
<1>1. Bad = {}
  <2>1. SUFFICES ASSUME Bad # {} PROVE FALSE
    OBVIOUS
  <2>2. PICK m \in Bad : \A j \in Bad : m <= j
    BY <2>1, LeastElement
  <2>3. m \in Nat /\ ~ \E h : Is(h, m)
    OBVIOUS
  <2>4. CASE m = 0
    <3> DEFINE h == [i \in 0 .. 0 |-> x]
    <3>1. \A i \in 0 .. 0 : (IF i = 0 THEN x ELSE step[h[i - 1]]) = x
      OBVIOUS
    <3>2. Is(h, 0)
      BY <3>1
    <3> QED
      BY <2>3, <2>4, <3>2
  <2>5. CASE m # 0
    <3>0. m - 1 \in Nat /\ ~ (m <= m - 1)
      BY <2>3, <2>5
    <3>1. m - 1 \in Nat /\ m - 1 \notin Bad
      <4> HIDE DEF Bad
      <4> QED
        BY <2>2, <3>0
    <3>2. PICK g : Is(g, m - 1)
      BY <3>1
    <3> DEFINE h == [i \in 0 .. m |-> IF i = m THEN step[g[m - 1]] ELSE g[i]]
    <3>3. \A i \in 0 .. m - 1 : h[i] = g[i]
      BY <2>3
    <3>4. ASSUME NEW i \in 0 .. m
          PROVE  h[i] = IF i = 0 THEN x ELSE step[h[i - 1]]
      <4>1. CASE i = m
        <5>1. h[m - 1] = g[m - 1]
          BY <2>3, <2>5, <3>3
        <5> QED
          BY <2>5, <4>1, <5>1
      <4>2. CASE i # m
        <5>1. i \in 0 .. m - 1 /\ h[i] = g[i]
          BY <2>3, <4>2
        <5>2. g[i] = IF i = 0 THEN x ELSE step[g[i - 1]]
          BY <3>2, <5>1
        <5>3. i # 0 => h[i - 1] = g[i - 1]
          BY <2>3, <3>3, <5>1
        <5> QED
          BY <5>1, <5>2, <5>3
      <4> QED
        BY <4>1, <4>2
    <3>5. Is(h, m)
      BY <3>4
    <3> QED
      BY <2>3, <3>5
  <2> QED
    BY <2>4, <2>5
<1>2. PICK h : Is(h, n)
  BY <1>1
<1>3. h[0] = x /\ \A i \in 1 .. n : h[i] = step[h[i - 1]]
  BY <1>2
<1>4. \A i \in 1 .. n : h[i - 1] \in S => h[i] \in S
  BY <1>3
<1>5. \A i \in 0 .. n : h[i] \in S
  BY <1>3, <1>4, StaysIn
<1>6. h \in [0 .. n -> S]
  BY <1>2, <1>5
<1> QED
  BY <1>3, <1>6 DEF Unrolls

\* The states of a walk along a chain that began at x.
WalkRec(x) == {w \in [s : MutexRec, at : Thread \cup {None}, entered : BOOLEAN] : Shuffled(x, w.s)}

LEMMA StepIn ==
    ASSUME NEW x \in MutexRec, NEW w \in WalkRec(x), NEW stop, NEW entry, NEW p,
           w.at # None => p \in Nat
    PROVE  ChainStep(w, p, stop, entry) \in WalkRec(x)
<1>1. w \in [s : MutexRec, at : Thread \cup {None}, entered : BOOLEAN] /\ Shuffled(x, w.s)
  BY DEF WalkRec
<1>2. CASE w.at = None
  BY <1>2 DEF ChainStep
<1>3. CASE w.at # None /\ stop
  <2>1. ChainStep(w, p, stop, entry) = [w EXCEPT !.at = None]
    BY <1>3 DEF ChainStep
  <2>2. [w EXCEPT !.at = None] \in [s : MutexRec, at : Thread \cup {None}, entered : BOOLEAN]
        /\ [w EXCEPT !.at = None].s = w.s
    BY <1>1
  <2> QED
    BY <1>1, <2>1, <2>2 DEF WalkRec
<1>4. CASE w.at # None /\ ~stop
  <2> DEFINE s == Reprioritized(w.s, w.at, p)
             o == IF w.s.pending[w.at] = None THEN None ELSE Successor(s, w.at)
             r == [s |-> s, at |-> IF o = entry /\ w.entered THEN None ELSE o,
                   entered |-> w.entered \/ o = entry]
  <2>1. w.s \in MutexRec /\ Lines(w.s) /\ w.at \in Thread /\ p \in Nat
    BY <1>1, <1>4 DEF Shuffled
  <2>2. Shuffled(w.s, s)
    BY <2>1, ReprioritizedIs
  <2>3. ChainStep(w, p, stop, entry) = r
    BY <1>4 DEF ChainStep
  <2> HIDE DEF s
  <2>4. s \in MutexRec
    BY <2>2 DEF Shuffled
  <2>5. s.pending = w.s.pending
    BY <2>2 DEF Shuffled
  <2>6. o \in Thread \cup {None}
    <3>1. s.pending[w.at] # None => s.owner[s.pending[w.at]] \in Thread \cup {None}
      BY <2>1, <2>4 DEF MutexRec
    <3> QED
      BY <2>5, <3>1 DEF Successor
  <2> HIDE DEF o
  <2>7. r \in [s : MutexRec, at : Thread \cup {None}, entered : BOOLEAN] /\ r.s = s
    BY <1>1, <2>4, <2>6
  <2>8. Shuffled(x, s)
    BY <1>1, <2>2, ShuffledTrans
  <2> HIDE DEF r
  <2> QED
    BY <2>3, <2>7, <2>8 DEF WalkRec
<1> QED
  BY <1>2, <1>3, <1>4

LEMMA RoundsNat == Rounds \in Nat
<1>1. Cardinality(Thread) \in Nat
  BY KernelAssumption, FS_CardinalityType
<1> QED
  BY <1>1 DEF Rounds

LEMMA StartIn ==
    ASSUME NEW x \in MutexRec, Lines(x), NEW t \in Thread, NEW e \in BOOLEAN
    PROVE  [s |-> x, at |-> t, entered |-> e] \in WalkRec(x)
  BY DEF WalkRec, Shuffled

\* Where a walk begins, and one round of each of the two loops.
WalkStart(x, t) == [s |-> x, at |-> t, entered |-> t = CycleEntry(x, t)]
InheritRound(w, p, entry) == ChainStep(w, p, w.at # None /\ w.s.prio[w.at] <= p, entry)
RecomputeRound(w, entry) ==
    LET p == IF w.at = None THEN 0 ELSE EffectivePriority(w.s, w.at)
    IN ChainStep(w, p, w.at # None /\ w.s.prio[w.at] = p, entry)

LEMMA PriorityInheritRounds ==
    ASSUME NEW x \in MutexRec, Lines(x), NEW t \in Thread, NEW p \in Nat
    PROVE  \E h \in [0 .. Rounds -> WalkRec(x)] :
             /\ h[0] = WalkStart(x, t)
             /\ \A i \in 1 .. Rounds : h[i] = InheritRound(h[i - 1], p, CycleEntry(x, t))
             /\ PriorityInherit(x, t, p) = h[Rounds].s
<1> DEFINE entry == CycleEntry(x, t)
           Body(w) == InheritRound(w, p, entry)
           start == WalkStart(x, t)
           Is(h) == h = [i \in 0 .. Rounds |-> IF i = 0 THEN start ELSE Body(h[i - 1])]
           after == CHOOSE h : Is(h)
<1>1. PriorityInherit(x, t, p) = after[Rounds].s
  BY DEF PriorityInherit, Walk, Iterate, WalkStart, InheritRound
<1>2. start \in WalkRec(x)
  BY StartIn DEF WalkStart
<1>3. \A w \in WalkRec(x) : Body(w) \in WalkRec(x)
  BY StepIn DEF InheritRound
<1> HIDE DEF Body, start, entry
<1>4. \E h : Is(h)
  <2> DEFINE step == [w \in WalkRec(x) |-> Body(w)]
  <2>1. step \in [WalkRec(x) -> WalkRec(x)]
    BY <1>3
  <2>2. PICK h \in [0 .. Rounds -> WalkRec(x)] : Unrolls(h, start, step, Rounds)
    <3> HIDE DEF step
    <3> QED
      BY <1>2, <2>1, RoundsNat, RecursionIs
  <2>3. \A w \in WalkRec(x) : step[w] = Body(w)
    OBVIOUS
  <2>4. \A i \in 1 .. Rounds : h[i - 1] \in WalkRec(x)
    BY <2>2, RoundsNat
  <2> HIDE DEF step
  <2>5. \A i \in 0 .. Rounds : h[i] = IF i = 0 THEN start ELSE Body(h[i - 1])
    BY <2>2, <2>3, <2>4, RoundsNat DEF Unrolls
  <2>6. Is(h)
    BY <2>2, <2>5
  <2> QED
    BY <2>6
<1>5. Is(after)
  BY <1>4
<1> HIDE DEF after
<1>6. after[0] = start /\ \A i \in 1 .. Rounds : after[i] = Body(after[i - 1])
  BY <1>5, RoundsNat
<1>7. \A i \in 0 .. Rounds : after[i] \in WalkRec(x)
  <2>1. \A i \in 1 .. Rounds : after[i - 1] \in WalkRec(x) => after[i] \in WalkRec(x)
    BY <1>3, <1>6
  <2> QED
    BY <1>2, <1>6, <2>1, StaysIn, RoundsNat
<1>8. after \in [0 .. Rounds -> WalkRec(x)]
  BY <1>5, <1>7
<1> QED
  BY <1>1, <1>6, <1>8 DEF start, Body, entry

LEMMA PriorityInheritIs ==
    ASSUME NEW x \in MutexRec, Lines(x), NEW t \in Thread, NEW p \in Nat
    PROVE  Shuffled(x, PriorityInherit(x, t, p))
<1>1. PICK h \in [0 .. Rounds -> WalkRec(x)] : PriorityInherit(x, t, p) = h[Rounds].s
  BY PriorityInheritRounds
<1>2. h[Rounds] \in WalkRec(x)
  BY RoundsNat
<1> QED
  BY <1>1, <1>2 DEF WalkRec

LEMMA RecomputeRounds ==
    ASSUME NEW x \in MutexRec, Lines(x), NEW t \in Thread
    PROVE  \E h \in [0 .. Rounds -> WalkRec(x)] :
             /\ h[0] = WalkStart(x, t)
             /\ \A i \in 1 .. Rounds : h[i] = RecomputeRound(h[i - 1], CycleEntry(x, t))
             /\ RecomputeChain(x, t) = h[Rounds].s
<1> DEFINE entry == CycleEntry(x, t)
           Body(w) == RecomputeRound(w, entry)
           start == WalkStart(x, t)
           Is(h) == h = [i \in 0 .. Rounds |-> IF i = 0 THEN start ELSE Body(h[i - 1])]
           after == CHOOSE h : Is(h)
<1>1. RecomputeChain(x, t) = after[Rounds].s
  BY DEF RecomputeChain, Walk, Iterate, WalkStart, RecomputeRound
<1>2. start \in WalkRec(x)
  BY StartIn DEF WalkStart
<1>3. \A w \in WalkRec(x) : Body(w) \in WalkRec(x)
  <2>1. ASSUME NEW w \in WalkRec(x) PROVE Body(w) \in WalkRec(x)
    <3> DEFINE p == IF w.at = None THEN 0 ELSE EffectivePriority(w.s, w.at)
    <3>1. w.at # None => p \in Nat
      BY EffectiveNat DEF WalkRec
    <3>2. Body(w) = ChainStep(w, p, w.at # None /\ w.s.prio[w.at] = p, entry)
      BY DEF RecomputeRound
    <3> HIDE DEF p, entry, Body
    <3> QED
      BY <3>1, <3>2, StepIn
  <2> QED
    BY <2>1
<1> HIDE DEF Body, start, entry
<1>4. \E h : Is(h)
  <2> DEFINE step == [w \in WalkRec(x) |-> Body(w)]
  <2>1. step \in [WalkRec(x) -> WalkRec(x)]
    BY <1>3
  <2>2. PICK h \in [0 .. Rounds -> WalkRec(x)] : Unrolls(h, start, step, Rounds)
    <3> HIDE DEF step
    <3> QED
      BY <1>2, <2>1, RoundsNat, RecursionIs
  <2>3. \A w \in WalkRec(x) : step[w] = Body(w)
    OBVIOUS
  <2>4. \A i \in 1 .. Rounds : h[i - 1] \in WalkRec(x)
    BY <2>2, RoundsNat
  <2> HIDE DEF step
  <2>5. \A i \in 0 .. Rounds : h[i] = IF i = 0 THEN start ELSE Body(h[i - 1])
    BY <2>2, <2>3, <2>4, RoundsNat DEF Unrolls
  <2>6. Is(h)
    BY <2>2, <2>5
  <2> QED
    BY <2>6
<1>5. Is(after)
  BY <1>4
<1> HIDE DEF after
<1>6. after[0] = start /\ \A i \in 1 .. Rounds : after[i] = Body(after[i - 1])
  BY <1>5, RoundsNat
<1>7. \A i \in 0 .. Rounds : after[i] \in WalkRec(x)
  <2>1. \A i \in 1 .. Rounds : after[i - 1] \in WalkRec(x) => after[i] \in WalkRec(x)
    BY <1>3, <1>6
  <2> QED
    BY <1>2, <1>6, <2>1, StaysIn, RoundsNat
<1>8. after \in [0 .. Rounds -> WalkRec(x)]
  BY <1>5, <1>7
<1> QED
  BY <1>1, <1>6, <1>8 DEF start, Body, entry

LEMMA RecomputeIs ==
    ASSUME NEW x \in MutexRec, Lines(x), NEW t \in Thread
    PROVE  Shuffled(x, RecomputeChain(x, t))
<1>1. PICK h \in [0 .. Rounds -> WalkRec(x)] : RecomputeChain(x, t) = h[Rounds].s
  BY RecomputeRounds
<1>2. h[Rounds] \in WalkRec(x)
  BY RoundsNat
<1> QED
  BY <1>1, <1>2 DEF WalkRec

-----------------------------------------------------------------------------
(* What becomes of the lists in each step of a release.                    *)

LEMMA WaitsIs ==
    ASSUME NEW x \in MutexRec, Lines(x), NEW t \in Thread
    PROVE  Waits(x, t) <=> Awaits(x, t)
<1>1. x.pending[t] \in Queue \cup {None}
  BY DEF MutexRec
<1> QED
  BY <1>1, KernelAssumption DEF Waits, Awaits, Lines

LEMMA ShuffledLists ==
    ASSUME NEW x, NEW y, NEW F, Lists(x, F), Shuffled(x, y)
    PROVE  Lists(y, F)
  BY DEF Shuffled, Lists, Owners, Waiting, Awaits

\* Whatever u believes of x is so in y: it was not disturbed, or it got the mutex it
\* waits for.
Kept(x, y, u) ==
    /\ y.err[u] = x.err[u]
    /\ u \in y.sleep => u \in x.sleep
    /\ y.st[u] = "close" => x.st[u] = "close"
    /\ y.pending[u] \in {x.pending[u], None}
    /\ \A m \in Queue :
         y.owner[m] = u <=> x.owner[m] = u \/ (m = x.pending[u] /\ y.pending[u] = None)

LEMMA KeptBelieves ==
    ASSUME NEW x \in MutexRec, NEW y, NEW u \in Thread, NEW p,
           NEW w \in Queue \cup {None}, NEW g, Believes(x, u, p, w, g), Kept(x, y, u)
    PROVE  Believes(y, u, p, w, g)
<1>1. x.pending[u] \in Queue \cup {None}
  BY DEF MutexRec
<1>2. /\ p \in {"run", "owe"} => w = None
      /\ y.pending[u] # None => w = y.pending[u] /\ ~y.err[u]
      /\ \A m \in g \cap Queue : y.owner[m] = u
      /\ w # None => u \notin y.sleep
      /\ y.st[u] = "close" => w = None /\ g = {}
  BY KernelAssumption DEF Believes, Kept
<1>3. ASSUME NEW m \in Queue, y.owner[m] = u
      PROVE  m \in g \/ (w = m /\ y.pending[u] = None /\ ~y.err[u])
  <2>1. CASE x.owner[m] = u
    BY <1>1, <2>1, KernelAssumption DEF Believes, Kept
  <2>2. CASE m = x.pending[u] /\ y.pending[u] = None
    BY <1>1, <2>2, KernelAssumption DEF Believes, Kept
  <2> QED
    BY <1>3, <2>1, <2>2 DEF Kept
<1>4. ASSUME w # None, y.pending[u] = None, ~y.err[u] PROVE y.owner[w] = u
  <2>1. w \in Queue
    BY <1>4
  <2>2. CASE x.pending[u] = None
    BY <1>4, <2>1, <2>2 DEF Believes, Kept
  <2>3. CASE x.pending[u] # None
    BY <1>4, <2>1, <2>3 DEF Believes, Kept
  <2> QED
    BY <2>2, <2>3
<1> QED
  BY <1>2, <1>3, <1>4 DEF Believes

LEMMA KeptTrans ==
    ASSUME NEW x, NEW y, NEW z, NEW u, Kept(x, y, u), Kept(y, z, u)
    PROVE  Kept(x, z, u)
<1>1. CASE y.pending[u] = x.pending[u]
  BY <1>1, KernelAssumption DEF Kept
<1>2. CASE y.pending[u] = None
  BY <1>2, KernelAssumption DEF Kept
<1> QED
  BY <1>1, <1>2 DEF Kept

LEMMA FreeIs ==
    ASSUME NEW x, Lists(x, {}), NEW t \in Thread, NEW m \in Queue, x.owner[m] = t
    PROVE  LET y == Free(x, m)
           IN  /\ Lists(y, {m})
               /\ y.st = x.st /\ y.cur = x.cur /\ y.run = x.run /\ y.err = x.err
               /\ y.sleep = x.sleep /\ y.pending = x.pending
               /\ y.owner = [x.owner EXCEPT ![m] = None]
               /\ y.taken = [x.taken EXCEPT ![t] = RemoveFirst(@, m)]
<1> DEFINE y == Free(x, m)
           q == RemoveFirst(x.taken[t], m)
<1>1. x \in MutexRec /\ x.taken[t] \in Seq(Queue) /\ IsInjective(x.taken[t])
  BY DEF Lists, Owners, MutexRec
<1>2. q \in Seq(Queue) /\ IsInjective(q) /\ ToSet(q) = ToSet(x.taken[t]) \ {m}
  BY <1>1, RemoveQueue
<1> DEFINE x1 == [x EXCEPT !.taken[t] = q]
<1>3. y = [x1 EXCEPT !.owner[m] = None]
  BY <1>1 DEF Free, MutexRec
<1> HIDE DEF q
<1>3a. /\ x1 \in MutexRec
       /\ x1.owner = x.owner /\ x1.taken = [x.taken EXCEPT ![t] = q]
       /\ x1.st = x.st /\ x1.cur = x.cur /\ x1.run = x.run /\ x1.err = x.err
       /\ x1.armed = x.armed /\ x1.sleep = x.sleep /\ x1.wq = x.wq /\ x1.prio = x.prio
       /\ x1.pending = x.pending
  BY <1>1, <1>2 DEF MutexRec
<1> HIDE DEF x1, y
<1>4. /\ y \in MutexRec
      /\ y.owner = [x.owner EXCEPT ![m] = None] /\ y.taken = [x.taken EXCEPT ![t] = q]
      /\ y.st = x.st /\ y.cur = x.cur /\ y.run = x.run /\ y.err = x.err
      /\ y.armed = x.armed /\ y.sleep = x.sleep /\ y.wq = x.wq /\ y.prio = x.prio
      /\ y.pending = x.pending
  BY <1>3, <1>3a DEF MutexRec
<1>5. /\ x.owner \in [Queue -> Thread \cup {None}] /\ x.taken \in [Thread -> Seq(Queue)]
      /\ x.pending \in [Thread -> Queue \cup {None}]
  BY <1>1 DEF MutexRec
<1>6. Lines(y) /\ Waiting(y)
  BY <1>4 DEF Lists, Lines, Waiting, Awaits
<1>7. Owners(y, {m})
  <2>1. \A u \in Thread : IsInjective(y.taken[u])
    BY <1>2, <1>4, <1>5 DEF Lists, Owners
  <2>2. ASSUME NEW n \in Queue, NEW u \in Thread
        PROVE  y.owner[n] = u <=> n \in ToSet(y.taken[u])
    <3>1. x.owner[n] = u <=> n \in ToSet(x.taken[u])
      BY DEF Lists, Owners
    <3>2. /\ y.owner[n] = IF n = m THEN None ELSE x.owner[n]
          /\ y.taken[u] = IF u = t THEN q ELSE x.taken[u]
      BY <1>4, <1>5
    <3> QED
      BY <1>2, <3>1, <3>2, KernelAssumption
  <2>3. ASSUME NEW u \in Thread, y.pending[u] # None
        PROVE  /\ y.owner[y.pending[u]] # u
               /\ y.owner[y.pending[u]] = None => y.pending[u] \in {m}
    <3>1. x.pending[u] \in Queue /\ x.owner[x.pending[u]] \notin {u, None}
      BY <1>4, <1>5, <2>3 DEF Lists, Owners
    <3> QED
      BY <1>4, <1>5, <3>1, KernelAssumption
  <2> QED
    BY <2>1, <2>2, <2>3 DEF Owners
<1> QED
  BY <1>4, <1>6, <1>7 DEF Lists, y, q

\* The mutex m is freed of waiters or has an owner: its most urgent waiter.
LEMMA PassOnIs ==
    ASSUME NEW m \in Queue, NEW x, Lists(x, {m}), x.owner[m] = None
    PROVE  LET y == PassOn(x, m)
           IN  /\ Lists(y, {})
               /\ y.cur = x.cur /\ y.run = x.run /\ y.err = x.err /\ y.sleep = x.sleep
               /\ \A n \in Queue : n # m => y.owner[n] = x.owner[n]
               /\ \A u \in Thread : /\ Kept(x, y, u) /\ (Unparked(x, u) => Unparked(y, u))
                                    /\ x.st[u] = "ready" => y.st[u] = "ready"
               /\ \A u \in Thread : x.pending[u] # m =>
                    /\ y.st[u] = x.st[u] /\ y.pending[u] = x.pending[u]
                    /\ y.taken[u] = x.taken[u] /\ y.owner[m] # u
<1> DEFINE y == PassOn(x, m)
<1>1. /\ x \in MutexRec /\ Lines(x) /\ Owners(x, {m}) /\ Waiting(x)
      /\ x.wq \in [Queue -> Seq(Thread)] /\ x.owner \in [Queue -> Thread \cup {None}]
      /\ x.taken \in [Thread -> Seq(Queue)] /\ x.pending \in [Thread -> Queue \cup {None}]
      /\ x.st \in [Thread -> {"ready", "suspend", "close"}]
  BY DEF Lists, MutexRec
<1>2. CASE x.wq[m] = <<>>
  <2>1. y = x
    BY <1>2 DEF PassOn
  <2>2. ToSet(x.wq[m]) = {}
    BY <1>2 DEF ToSet
  <2>3. \A t \in Thread : x.pending[t] # m
    BY <1>1, <2>2 DEF Lines
  <2>4. Lists(x, {})
    BY <1>1, <2>3 DEF Lists, Owners
  <2>5. \A u \in Thread : Kept(x, x, u)
    BY <2>3, <1>1, KernelAssumption DEF Kept
  <2> HIDE DEF y
  <2> QED
    BY <1>1, <2>1, <2>3, <2>4, <2>5, KernelAssumption DEF y
<1>3. CASE x.wq[m] # <<>>
  <2> DEFINE w == Head(x.wq[m])
             q == Tail(x.wq[m])
             l == <<m>> \o x.taken[w]
             x1 == [x EXCEPT !.wq[m] = q]
             x2 == [x1 EXCEPT !.armed = @ \ {w}]
             x3 == [x2 EXCEPT !.st[w] = "ready"]
             x4 == [x3 EXCEPT !.pending[w] = None]
             x5 == [x4 EXCEPT !.owner[m] = w]
  <2>1. /\ w \in Thread /\ w \in ToSet(x.wq[m]) /\ q \in Seq(Thread)
        /\ IsInjective(q) /\ ToSet(q) = ToSet(x.wq[m]) \ {w}
    BY <1>1, <1>3, PopQueue DEF Lines
  <2>2. Ordered(x.prio, q)
    BY <1>1, <1>3, TailOrdered DEF Lines
  <2>3. x.pending[w] = m
    BY <1>1, <2>1 DEF Lines
  <2>4. m \notin ToSet(x.taken[w]) /\ IsInjective(x.taken[w])
    BY <1>1, <2>1, KernelAssumption DEF Owners
  <2>5. l \in Seq(Queue) /\ ToSet(l) = ToSet(x.taken[w]) \cup {m} /\ IsInjective(l)
    <3>1. x.taken[w] \in Seq(Queue)
      BY <1>1, <2>1
    <3> QED
      BY <2>4, <3>1, ConsQueue
  <2>6. y = [x5 EXCEPT !.taken[w] = l]
    BY <1>1, <1>3, <2>1 DEF PassOn, Own, WakeHead, Wakeup, MutexRec
  <2> HIDE DEF y, w, q, l
  <2>7. /\ x1 \in MutexRec /\ x1.wq = [x.wq EXCEPT ![m] = q]
        /\ x1.st = x.st /\ x1.cur = x.cur /\ x1.run = x.run /\ x1.err = x.err
        /\ x1.armed = x.armed /\ x1.sleep = x.sleep /\ x1.prio = x.prio
        /\ x1.owner = x.owner /\ x1.taken = x.taken /\ x1.pending = x.pending
    BY <1>1, <2>1 DEF MutexRec
  <2> HIDE DEF x1
  <2>8. /\ x2 \in MutexRec /\ x2.wq = x1.wq
        /\ x2.st = x.st /\ x2.cur = x.cur /\ x2.run = x.run /\ x2.err = x.err
        /\ x2.armed = x.armed \ {w} /\ x2.sleep = x.sleep /\ x2.prio = x.prio
        /\ x2.owner = x.owner /\ x2.taken = x.taken /\ x2.pending = x.pending
    BY <2>7 DEF MutexRec
  <2> HIDE DEF x2
  <2>9. /\ x3 \in MutexRec /\ x3.wq = x1.wq
        /\ x3.st = [x.st EXCEPT ![w] = "ready"]
        /\ x3.cur = x.cur /\ x3.run = x.run /\ x3.err = x.err
        /\ x3.armed = x.armed \ {w} /\ x3.sleep = x.sleep /\ x3.prio = x.prio
        /\ x3.owner = x.owner /\ x3.taken = x.taken /\ x3.pending = x.pending
    BY <2>8 DEF MutexRec
  <2> HIDE DEF x3
  <2>10. /\ x4 \in MutexRec /\ x4.wq = x1.wq /\ x4.st = x3.st
         /\ x4.cur = x.cur /\ x4.run = x.run /\ x4.err = x.err
         /\ x4.armed = x.armed \ {w} /\ x4.sleep = x.sleep /\ x4.prio = x.prio
         /\ x4.owner = x.owner /\ x4.taken = x.taken
         /\ x4.pending = [x.pending EXCEPT ![w] = None]
    BY <2>9 DEF MutexRec
  <2> HIDE DEF x4
  <2>11. /\ x5 \in MutexRec /\ x5.wq = x1.wq /\ x5.st = x3.st
         /\ x5.cur = x.cur /\ x5.run = x.run /\ x5.err = x.err
         /\ x5.armed = x.armed \ {w} /\ x5.sleep = x.sleep /\ x5.prio = x.prio
         /\ x5.owner = [x.owner EXCEPT ![m] = w] /\ x5.taken = x.taken
         /\ x5.pending = x4.pending
    BY <2>1, <2>10 DEF MutexRec
  <2> HIDE DEF x5
  <2>12. /\ y \in MutexRec /\ y.wq = [x.wq EXCEPT ![m] = q]
         /\ y.st = [x.st EXCEPT ![w] = "ready"]
         /\ y.cur = x.cur /\ y.run = x.run /\ y.err = x.err
         /\ y.armed = x.armed \ {w} /\ y.sleep = x.sleep /\ y.prio = x.prio
         /\ y.owner = [x.owner EXCEPT ![m] = w] /\ y.taken = [x.taken EXCEPT ![w] = l]
         /\ y.pending = [x.pending EXCEPT ![w] = None]
    <3>1. /\ y \in MutexRec /\ y.wq = x5.wq /\ y.st = x5.st
          /\ y.cur = x5.cur /\ y.run = x5.run /\ y.err = x5.err
          /\ y.armed = x5.armed /\ y.sleep = x5.sleep /\ y.prio = x5.prio
          /\ y.owner = x5.owner /\ y.taken = [x5.taken EXCEPT ![w] = l]
          /\ y.pending = x5.pending
      BY <2>5, <2>6, <2>11 DEF MutexRec
    <3> QED
      BY <2>7, <2>9, <2>10, <2>11, <3>1
  <2>13. /\ \A n \in Queue : /\ y.wq[n] = IF n = m THEN q ELSE x.wq[n]
                             /\ y.owner[n] = IF n = m THEN w ELSE x.owner[n]
         /\ \A u \in Thread : /\ y.taken[u] = IF u = w THEN l ELSE x.taken[u]
                              /\ y.pending[u] = IF u = w THEN None ELSE x.pending[u]
                              /\ y.st[u] = IF u = w THEN "ready" ELSE x.st[u]
    BY <1>1, <2>12
  <2>14. Lines(y)
    <3>1. ASSUME NEW n \in Queue, NEW u \in Thread
          PROVE  y.pending[u] = n <=> u \in ToSet(y.wq[n])
      <4>1. x.pending[u] = n <=> u \in ToSet(x.wq[n])
        BY <1>1 DEF Lines
      <4>2. /\ y.pending[u] = IF u = w THEN None ELSE x.pending[u]
            /\ y.wq[n] = IF n = m THEN q ELSE x.wq[n]
        BY <2>13
      <4> QED
        BY <2>1, <2>3, <4>1, <4>2, KernelAssumption
    <3>2. ASSUME NEW n \in Queue PROVE IsInjective(y.wq[n]) /\ Ordered(y.prio, y.wq[n])
      BY <1>1, <2>1, <2>2, <2>12, <2>13 DEF Lines
    <3> QED
      BY <3>1, <3>2 DEF Lines
  <2>15. Owners(y, {})
    <3>1. \A u \in Thread : IsInjective(y.taken[u])
      BY <1>1, <2>5, <2>13 DEF Owners
    <3>2. ASSUME NEW n \in Queue, NEW u \in Thread
          PROVE  y.owner[n] = u <=> n \in ToSet(y.taken[u])
      <4>1. x.owner[n] = u <=> n \in ToSet(x.taken[u])
        BY <1>1 DEF Owners
      <4> QED
        BY <2>5, <2>13, <4>1, KernelAssumption
    <3>3. ASSUME NEW u \in Thread, y.pending[u] # None
          PROVE  y.owner[y.pending[u]] \notin {u, None}
      <4>1. u # w /\ y.pending[u] = x.pending[u] /\ x.pending[u] \in Queue
        BY <1>1, <2>13, <3>3
      <4>2. x.owner[x.pending[u]] # u /\ (x.owner[x.pending[u]] = None => x.pending[u] = m)
        BY <1>1, <3>3, <4>1 DEF Owners
      <4> QED
        BY <2>1, <2>13, <4>1, <4>2, KernelAssumption
    <3> QED
      BY <3>1, <3>2, <3>3 DEF Owners
  <2>16. Waiting(y)
    BY <1>1, <2>3, <2>12, <2>13, KernelAssumption DEF Waiting, Awaits
  <2>17. ASSUME NEW u \in Thread
         PROVE  /\ Kept(x, y, u) /\ (Unparked(x, u) => Unparked(y, u))
                /\ x.st[u] = "ready" => y.st[u] = "ready"
    <3>1. CASE u = w
      <4>1. \A n \in Queue : y.owner[n] = w <=> x.owner[n] = w \/ n = m
        BY <2>13
      <4> QED
        BY <2>3, <2>12, <2>13, <3>1, <4>1 DEF Kept, Unparked
    <3>2. CASE u # w
      <4>1. \A n \in Queue : y.owner[n] = u <=> x.owner[n] = u
        BY <2>13, <3>2, KernelAssumption
      <4>2. y.pending[u] = x.pending[u] /\ y.st[u] = x.st[u]
        BY <2>13, <3>2
      <4> QED
        BY <2>12, <4>1, <4>2, KernelAssumption DEF Kept, Unparked, Awaits
    <3> QED
      BY <3>1, <3>2
  <2>18. ASSUME NEW u \in Thread, x.pending[u] # m
         PROVE  /\ y.st[u] = x.st[u] /\ y.pending[u] = x.pending[u]
                /\ y.taken[u] = x.taken[u] /\ y.owner[m] # u
    BY <2>3, <2>13, <2>18
  <2> QED
    BY <2>12, <2>13, <2>14, <2>15, <2>16, <2>17, <2>18 DEF Lists, y
<1> QED
  BY <1>2, <1>3

\* t left the queue in which it waited, and the priorities of a chain may have changed.
Left(x, y, t) ==
    /\ y \in MutexRec /\ Lines(y)
    /\ y.st = x.st /\ y.cur = x.cur /\ y.run = x.run /\ y.err = x.err /\ y.armed = x.armed
    /\ y.owner = x.owner /\ y.taken = x.taken
    /\ y.sleep = x.sleep \ {t} /\ y.pending = [x.pending EXCEPT ![t] = None]

LEMMA LeftBy ==
    ASSUME NEW x \in MutexRec, Lines(x), NEW t \in Thread
    PROVE  LET m == x.pending[t]
               y == WaiterRemoved(Unqueue(x, t), t)
           IN  \E z : /\ Left(x, z, t) /\ z.prio = x.prio
                      /\ y = IF m = None \/ x.owner[m] \in {None, t} THEN z
                            ELSE RecomputeChain(z, x.owner[m])
<1> DEFINE w == [q \in Queue |-> RemoveFirst(x.wq[q], t)]
           x1 == [x EXCEPT !.wq = w]
           s == Unqueue(x, t)
           m == s.pending[t]
           s1 == [s EXCEPT !.pending[t] = None]
           y == WaiterRemoved(s, t)
<1>1. /\ x.wq \in [Queue -> Seq(Thread)] /\ x.prio \in [Thread -> Nat]
      /\ x.pending \in [Thread -> Queue \cup {None}]
  BY DEF MutexRec
<1>2. ASSUME NEW q \in Queue
      PROVE  /\ w[q] \in Seq(Thread) /\ IsInjective(w[q]) /\ Ordered(x.prio, w[q])
             /\ ToSet(w[q]) = ToSet(x.wq[q]) \ {t}
  <2>1. x.wq[q] \in Seq(Thread) /\ IsInjective(x.wq[q]) /\ Ordered(x.prio, x.wq[q])
    BY <1>1 DEF Lines
  <2> QED
    BY <1>1, <2>1, RemoveQueue, RemoveOrdered
<1>3. w \in [Queue -> Seq(Thread)]
  BY <1>2
<1>4. s = [x1 EXCEPT !.sleep = @ \ {t}]
  BY DEF Unqueue, MutexRec
<1>5. y = IF m = None \/ s.owner[m] \in {None, t} THEN s1 ELSE RecomputeChain(s1, s.owner[m])
  BY DEF WaiterRemoved
<1> HIDE DEF w, y, s
<1>6. /\ x1 \in MutexRec /\ x1.wq = w /\ x1.prio = x.prio
      /\ x1.st = x.st /\ x1.cur = x.cur /\ x1.run = x.run /\ x1.err = x.err
      /\ x1.armed = x.armed /\ x1.sleep = x.sleep
      /\ x1.owner = x.owner /\ x1.taken = x.taken /\ x1.pending = x.pending
  BY <1>3 DEF MutexRec
<1> HIDE DEF x1
<1>7. /\ s \in MutexRec /\ s.wq = w /\ s.prio = x.prio
      /\ s.st = x.st /\ s.cur = x.cur /\ s.run = x.run /\ s.err = x.err
      /\ s.armed = x.armed /\ s.sleep = x.sleep \ {t}
      /\ s.owner = x.owner /\ s.taken = x.taken /\ s.pending = x.pending
  BY <1>4, <1>6 DEF MutexRec
<1>8. /\ s1 \in MutexRec /\ s1.wq = w /\ s1.prio = x.prio
      /\ s1.st = x.st /\ s1.cur = x.cur /\ s1.run = x.run /\ s1.err = x.err
      /\ s1.armed = x.armed /\ s1.sleep = x.sleep \ {t}
      /\ s1.owner = x.owner /\ s1.taken = x.taken
      /\ s1.pending = [x.pending EXCEPT ![t] = None]
  BY <1>7 DEF MutexRec
<1> HIDE DEF s1
<1>9. Lines(s1)
  <2>1. ASSUME NEW q \in Queue, NEW u \in Thread
        PROVE  s1.pending[u] = q <=> u \in ToSet(s1.wq[q])
    <3>1. x.pending[u] = q <=> u \in ToSet(x.wq[q])
      BY DEF Lines
    <3>2. s1.pending[u] = IF u = t THEN None ELSE x.pending[u]
      BY <1>1, <1>8
    <3>3. ToSet(s1.wq[q]) = ToSet(x.wq[q]) \ {t}
      BY <1>2, <1>8
    <3> QED
      BY <3>1, <3>2, <3>3, KernelAssumption
  <2> QED
    BY <1>2, <1>8, <2>1 DEF Lines
<1>10. Left(x, s1, t)
  BY <1>8, <1>9 DEF Left
<1>11. s.pending = x.pending /\ s.owner = x.owner
  BY <1>7
<1> QED
  BY <1>5, <1>8, <1>10, <1>11 DEF y, s

LEMMA LeftIs ==
    ASSUME NEW x \in MutexRec, Lines(x), NEW t \in Thread
    PROVE  Left(x, WaiterRemoved(Unqueue(x, t), t), t)
<1> DEFINE m == x.pending[t]
           y == WaiterRemoved(Unqueue(x, t), t)
<1>1. PICK z : /\ Left(x, z, t)
               /\ y = IF m = None \/ x.owner[m] \in {None, t} THEN z
                     ELSE RecomputeChain(z, x.owner[m])
  BY LeftBy
<1> HIDE DEF y
<1>2. CASE m = None \/ x.owner[m] \in {None, t}
  BY <1>1, <1>2 DEF y
<1>3. CASE ~ (m = None \/ x.owner[m] \in {None, t})
  <2>1. m \in Queue /\ x.owner[m] \in Thread
    BY <1>3 DEF MutexRec
  <2>2. y = RecomputeChain(z, x.owner[m])
    BY <1>1, <1>3
  <2>3. z \in MutexRec /\ Lines(z)
    BY <1>1 DEF Left
  <2> HIDE DEF m
  <2>4. Shuffled(z, y)
    BY <2>1, <2>2, <2>3, RecomputeIs
  <2>5. Left(x, y, t)
    BY <1>1, <2>4 DEF Left, Shuffled
  <2> QED
    BY <2>5 DEF y
<1> QED
  BY <1>2, <1>3

\* t gave up a mutex, and its waiter has it.
Released(x, y, t) ==
    /\ Lists(y, {})
    /\ y.cur = x.cur /\ y.run = x.run /\ y.err = x.err /\ y.sleep = x.sleep
    /\ y.st[t] = x.st[t] /\ y.pending[t] = x.pending[t]
    /\ \A m \in Queue : y.owner[m] = t => x.owner[m] = t
    /\ \A u \in Thread : /\ u # t => Kept(x, y, u)
                         /\ Unparked(x, u) => Unparked(y, u)
                         /\ x.st[u] = "ready" => y.st[u] = "ready"

LEMMA ReleasedTrans ==
    ASSUME NEW x, NEW y, NEW z, NEW t \in Thread, Released(x, y, t), Released(y, z, t)
    PROVE  Released(x, z, t)
<1>1. \A u \in Thread : u # t => Kept(x, z, u)
  BY KeptTrans DEF Released
<1> QED
  BY <1>1 DEF Released

\* Free, then the chain of priorities, then the next owner.
LEMMA ReleaseIs ==
    ASSUME NEW t \in Thread, NEW m \in Queue, NEW x, Lists(x, {}), x.owner[m] = t,
           NEW y, Shuffled(Free(x, m), y)
    PROVE  LET z == PassOn(y, m)
           IN  /\ Released(x, z, t)
               /\ z.owner[m] # t /\ z.taken[t] = RemoveFirst(x.taken[t], m)
               /\ \A n \in Queue : n # m => z.owner[n] = x.owner[n]
<1> DEFINE f == Free(x, m)
           z == PassOn(y, m)
<1>1. /\ x.owner \in [Queue -> Thread \cup {None}] /\ x.taken \in [Thread -> Seq(Queue)]
      /\ x.pending \in [Thread -> Queue \cup {None}]
  BY DEF Lists, MutexRec
<1>2. /\ Lists(f, {m})
      /\ f.st = x.st /\ f.cur = x.cur /\ f.run = x.run /\ f.err = x.err
      /\ f.sleep = x.sleep /\ f.pending = x.pending
      /\ f.owner = [x.owner EXCEPT ![m] = None]
      /\ f.taken = [x.taken EXCEPT ![t] = RemoveFirst(@, m)]
  BY FreeIs
<1> HIDE DEF f
<1>3. /\ Lists(y, {m})
      /\ y.st = x.st /\ y.cur = x.cur /\ y.run = x.run /\ y.err = x.err
      /\ y.sleep = x.sleep /\ y.pending = x.pending
      /\ y.owner = [x.owner EXCEPT ![m] = None]
      /\ y.taken[t] = RemoveFirst(x.taken[t], m)
  <2>1. Shuffled(f, y)
    BY DEF f
  <2>2. Lists(y, {m})
    BY <1>2, <2>1, ShuffledLists
  <2> QED
    BY <1>1, <1>2, <2>1, <2>2 DEF Shuffled
<1>4. y.owner[m] = None /\ \A n \in Queue : n # m => y.owner[n] = x.owner[n]
  BY <1>1, <1>3
<1>5. y.pending[t] # m
  BY <1>3, KernelAssumption DEF Lists, Owners
<1>6. /\ Lists(z, {})
      /\ z.cur = y.cur /\ z.run = y.run /\ z.err = y.err /\ z.sleep = y.sleep
      /\ \A n \in Queue : n # m => z.owner[n] = y.owner[n]
      /\ \A u \in Thread : /\ Kept(y, z, u) /\ (Unparked(y, u) => Unparked(z, u))
                           /\ y.st[u] = "ready" => z.st[u] = "ready"
      /\ z.st[t] = y.st[t] /\ z.pending[t] = y.pending[t]
      /\ z.taken[t] = y.taken[t] /\ z.owner[m] # t
  <2>1. Lists(y, {m}) /\ y.owner[m] = None
    BY <1>3, <1>4
  <2>2. /\ Lists(z, {})
        /\ z.cur = y.cur /\ z.run = y.run /\ z.err = y.err /\ z.sleep = y.sleep
        /\ \A n \in Queue : n # m => z.owner[n] = y.owner[n]
        /\ \A u \in Thread : /\ Kept(y, z, u) /\ (Unparked(y, u) => Unparked(z, u))
                             /\ y.st[u] = "ready" => z.st[u] = "ready"
        /\ \A u \in Thread : y.pending[u] # m =>
             /\ z.st[u] = y.st[u] /\ z.pending[u] = y.pending[u]
             /\ z.taken[u] = y.taken[u] /\ z.owner[m] # u
    BY ONLY <2>1, m \in Queue, PassOnIs
  <2> HIDE DEF z
  <2> QED
    BY <1>5, <2>2
<1> HIDE DEF z
<1>7. ASSUME NEW u \in Thread, u # t PROVE Kept(x, z, u)
  <2>1. Kept(x, y, u)
    <3>1. \A n \in Queue : y.owner[n] = u <=> x.owner[n] = u
      BY <1>4, <1>7, KernelAssumption
    <3>2. \A n \in Queue : ~ (n = x.pending[u] /\ y.pending[u] = None)
      BY <1>3, KernelAssumption
    <3> QED
      BY <1>3, <3>1, <3>2 DEF Kept
  <2> QED
    BY <1>6, <2>1, KeptTrans
<1>8. ASSUME NEW u \in Thread
      PROVE  /\ Unparked(x, u) => Unparked(z, u)
             /\ x.st[u] = "ready" => z.st[u] = "ready"
  BY <1>3, <1>6 DEF Unparked, Awaits
<1>9. \A n \in Queue : n # m => z.owner[n] = x.owner[n]
  BY <1>4, <1>6
<1>10. Released(x, z, t)
  BY <1>3, <1>6, <1>7, <1>8, <1>9 DEF Released
<1> QED
  BY <1>3, <1>6, <1>9, <1>10 DEF z

LEMMA ReleasedSame ==
    ASSUME NEW x, Lists(x, {}), NEW t \in Thread
    PROVE  Released(x, x, t)
<1>1. \A u \in Thread : \A m \in Queue : ~ (m = x.pending[u] /\ x.pending[u] = None)
  BY KernelAssumption
<1>2. \A u \in Thread : Kept(x, x, u)
  BY <1>1 DEF Kept
<1> QED
  BY <1>2 DEF Released

\* One round of mutex_release_all_held.
LEMMA PassIs ==
    ASSUME NEW t \in Thread, NEW x, Lists(x, {}), x.taken[t] # <<>>
    PROVE  LET y == PassOn(Free(x, Head(x.taken[t])), Head(x.taken[t]))
           IN  Released(x, y, t) /\ Len(y.taken[t]) = Len(x.taken[t]) - 1
<1> DEFINE m == Head(x.taken[t])
           f == Free(x, m)
           y == PassOn(f, m)
<1>1. x.taken[t] \in Seq(Queue)
  BY DEF Lists, MutexRec
<1>2. m \in Queue /\ m \in ToSet(x.taken[t])
  BY <1>1, PopQueue
<1>3. x.owner[m] = t
  BY <1>2 DEF Lists, Owners
<1> HIDE DEF m
<1>4. Lists(f, {m})
  BY ONLY <1>2, <1>3, t \in Thread, Lists(x, {}), FreeIs
<1>5. Shuffled(f, f)
  BY <1>4 DEF Lists, Shuffled
<1>6. Released(x, y, t) /\ y.taken[t] = RemoveFirst(x.taken[t], m)
  BY ONLY <1>2, <1>3, <1>5, t \in Thread, Lists(x, {}), ReleaseIs
<1>7. Len(RemoveFirst(x.taken[t], m)) = Len(x.taken[t]) - 1
  BY <1>1, <1>2, RemoveShifts
<1> QED
  BY <1>6, <1>7 DEF m

\* mutex_release_all_held leaves the thread without a mutex.
LEMMA ReleaseAllIs ==
    ASSUME NEW x, Lists(x, {}), NEW t \in Thread
    PROVE  /\ Released(x, ReleaseAllHeld(x, t), t)
           /\ \A m \in Queue : ReleaseAllHeld(x, t).owner[m] # t
<1> DEFINE n == Len(x.taken[t])
           S == {r \in MutexRec : Released(x, r, t)}
           Pass(r) == IF r.taken[t] = <<>> THEN r
                      ELSE PassOn(Free(r, Head(r.taken[t])), Head(r.taken[t]))
           Is(h) == h = [i \in 0 .. n |-> IF i = 0 THEN x ELSE Pass(h[i - 1])]
           after == CHOOSE h : Is(h)
           y == ReleaseAllHeld(x, t)
<1>0. n \in Nat
  BY DEF Lists, MutexRec
<1>1. y = after[n]
  BY DEF ReleaseAllHeld, Iterate
<1>2. x \in S
  BY ReleasedSame DEF Lists
<1>3. ASSUME NEW r \in S
      PROVE  /\ Pass(r) \in S
             /\ r.taken[t] # <<>> => Len(Pass(r).taken[t]) = Len(r.taken[t]) - 1
  <2>1. CASE r.taken[t] = <<>>
    BY <2>1
  <2>2. CASE r.taken[t] # <<>>
    <3>1. Lists(r, {}) /\ Released(x, r, t)
      BY DEF Released
    <3>2. Pass(r) = PassOn(Free(r, Head(r.taken[t])), Head(r.taken[t]))
      BY <2>2
    <3> HIDE DEF Pass
    <3>3. Released(r, Pass(r), t) /\ Len(Pass(r).taken[t]) = Len(r.taken[t]) - 1
      BY ONLY <2>2, <3>1, <3>2, t \in Thread, PassIs
    <3>4. Released(x, Pass(r), t)
      BY <3>1, <3>3, ReleasedTrans
    <3>5. Pass(r) \in MutexRec
      BY <3>4 DEF Released, Lists
    <3> QED
      BY <3>3, <3>4, <3>5
  <2> QED
    BY <2>1, <2>2
<1> HIDE DEF Pass, S, n, y
<1>4. \E h : Is(h)
  <2> DEFINE step == [r \in S |-> Pass(r)]
  <2>1. step \in [S -> S]
    BY <1>3
  <2>2. PICK h \in [0 .. n -> S] : Unrolls(h, x, step, n)
    <3> HIDE DEF step
    <3> QED
      BY <1>0, <1>2, <2>1, RecursionIs
  <2>3. \A r \in S : step[r] = Pass(r)
    OBVIOUS
  <2>4. \A i \in 1 .. n : h[i - 1] \in S
    BY <1>0, <2>2
  <2> HIDE DEF step
  <2>5. \A i \in 0 .. n : h[i] = IF i = 0 THEN x ELSE Pass(h[i - 1])
    BY <1>0, <2>2, <2>3, <2>4 DEF Unrolls
  <2>6. Is(h)
    BY <2>2, <2>5
  <2> QED
    BY <2>6
<1>5. Is(after)
  BY <1>4
<1> HIDE DEF after
<1>6. after[0] = x /\ \A i \in 1 .. n : after[i] = Pass(after[i - 1])
  BY <1>0, <1>5
<1>7. \A i \in 0 .. n : after[i] \in S /\ Len(after[i].taken[t]) = n - i
  <2> DEFINE C == {v \in S \X (0 .. n) : Len(v[1].taken[t]) = n - v[2]}
             h == [i \in 0 .. n |-> <<after[i], i>>]
  <2>1. h[0] \in C
    BY <1>0, <1>2, <1>6 DEF n
  <2>2. ASSUME NEW i \in 1 .. n, h[i - 1] \in C PROVE h[i] \in C
    <3>1. h[i - 1] = <<after[i - 1], i - 1>> /\ h[i] = <<after[i], i>>
      BY <1>0
    <3>2. after[i - 1] \in S /\ Len(after[i - 1].taken[t]) = n - (i - 1)
      BY <2>2, <3>1
    <3>3. after[i - 1].taken[t] # <<>>
      BY <1>0, <3>2
    <3>4. after[i] \in S /\ Len(after[i].taken[t]) = Len(after[i - 1].taken[t]) - 1
      BY <1>3, <1>6, <3>2, <3>3
    <3>5. Len(after[i].taken[t]) = n - i /\ i \in 0 .. n
      BY <1>0, <3>2, <3>4
    <3> QED
      BY <3>1, <3>4, <3>5
  <2>3. \A i \in 0 .. n : h[i] \in C
    <3> HIDE DEF h, C
    <3> QED
      BY <1>0, <2>1, <2>2, StaysIn
  <2>4. ASSUME NEW i \in 0 .. n PROVE after[i] \in S /\ Len(after[i].taken[t]) = n - i
    <3>1. <<after[i], i>> \in C
      BY <2>3
    <3> QED
      BY <3>1
  <2> QED
    BY <2>4
<1>8. y \in S /\ Len(y.taken[t]) = 0
  BY <1>0, <1>1, <1>7
<1>9. Released(x, y, t)
  BY <1>8 DEF S
<1>10. y.taken[t] = <<>>
  <2>1. y.taken[t] \in Seq(Queue)
    BY <1>9 DEF Released, Lists, MutexRec
  <2> QED
    BY <1>8, <2>1
<1>11. ToSet(y.taken[t]) = {}
  BY <1>10 DEF ToSet
<1>12. \A m \in Queue : y.owner[m] # t
  BY <1>9, <1>11 DEF Released, Lists, Owners
<1> QED
  BY <1>9, <1>12 DEF y

LEMMA UnlockedIs ==
    ASSUME NEW x, Lists(x, {}), NEW m \in Queue, x.owner[m] = x.cur
    PROVE  LET y == Unlocked(x, m)
           IN  /\ Released(x, y, x.cur) /\ y.owner[m] # x.cur
               /\ \A n \in Queue : n # m => y.owner[n] = x.owner[n]
<1> DEFINE t == x.cur
           f == Free(x, m)
           c == RecomputeChain(f, t)
           y == PassOn(c, m)
<1>1. t \in Thread /\ x.owner[m] = t
  BY DEF Lists, MutexRec
<1>2. Unlocked(x, m) = y
  BY <1>1 DEF Unlocked
<1> HIDE DEF t
<1>3. Lists(f, {m})
  BY ONLY <1>1, m \in Queue, Lists(x, {}), FreeIs
<1>4. Shuffled(f, c)
  <2> HIDE DEF f
  <2> QED
    BY <1>1, <1>3, RecomputeIs DEF Lists
<1>5. /\ Released(x, y, t) /\ y.owner[m] # t
      /\ \A n \in Queue : n # m => y.owner[n] = x.owner[n]
  <2> HIDE DEF c
  <2> QED
    BY ONLY <1>1, <1>4, m \in Queue, Lists(x, {}), ReleaseIs
<1> QED
  BY <1>2, <1>5 DEF t

\* t left its queue for good or was woken.
Settled(x, y, t) ==
    /\ Lists(y, {})
    /\ y.cur = x.cur /\ y.run = x.run /\ y.pending[t] = None /\ t \notin y.sleep
    /\ \A m \in Queue : y.owner[m] = t => x.owner[m] = t
    /\ \A u \in Thread : /\ u # t => Kept(x, y, u)
                         /\ Unparked(x, u) => Unparked(y, u)
                         /\ u # t /\ x.st[u] = "ready" => y.st[u] = "ready"

LEMMA SettledIs ==
    ASSUME NEW x, Lists(x, {}), NEW t \in Thread, NEW z, Left(x, z, t),
           NEW v \in {"ready", "close"},
           NEW y \in MutexRec, y.st = [x.st EXCEPT ![t] = v], y.armed = x.armed \ {t},
           y.cur = z.cur, y.run = z.run, y.err = z.err, y.sleep = z.sleep,
           y.wq = z.wq, y.prio = z.prio, y.owner = z.owner, y.taken = z.taken,
           y.pending = z.pending
    PROVE  Settled(x, y, t)
<1>1. /\ x.pending \in [Thread -> Queue \cup {None}]
      /\ x.st \in [Thread -> {"ready", "suspend", "close"}]
  BY DEF Lists, MutexRec
<1>2. /\ y.cur = x.cur /\ y.run = x.run /\ y.err = x.err /\ y.sleep = x.sleep \ {t}
      /\ y.owner = x.owner /\ y.taken = x.taken
      /\ y.pending = [x.pending EXCEPT ![t] = None]
  BY DEF Left
<1>3. \A u \in Thread : /\ y.pending[u] = IF u = t THEN None ELSE x.pending[u]
                        /\ y.st[u] = IF u = t THEN v ELSE x.st[u]
  BY <1>1, <1>2
<1>4. Lines(y)
  BY DEF Left, Lines
<1>5. Owners(y, {})
  BY <1>2, <1>3 DEF Lists, Owners
<1>6. Waiting(y)
  BY <1>2, <1>3 DEF Lists, Waiting, Awaits
<1>7. ASSUME NEW u \in Thread
      PROVE  /\ u # t => Kept(x, y, u)
             /\ Unparked(x, u) => Unparked(y, u)
             /\ u # t /\ x.st[u] = "ready" => y.st[u] = "ready"
  <2>1. CASE u = t
    BY <1>3, <2>1 DEF Unparked
  <2>2. CASE u # t
    <3>1. y.pending[u] = x.pending[u] /\ y.st[u] = x.st[u]
      BY <1>3, <2>2
    <3>2. \A m \in Queue : ~ (m = x.pending[u] /\ y.pending[u] = None)
      BY <3>1, KernelAssumption
    <3> QED
      BY <1>2, <2>2, <3>1, <3>2 DEF Kept, Unparked, Awaits
  <2> QED
    BY <2>1, <2>2
<1> QED
  BY <1>2, <1>3, <1>4, <1>5, <1>6, <1>7 DEF Settled, Lists

\* thread_timer_cb on a thread that waits.
LEMMA TimedOutIs ==
    ASSUME NEW x, Lists(x, {}), NEW t \in Thread
    PROVE  LET y == WaitTimedOut(x, t)
           IN  /\ Lists(y, {}) /\ y.cur = x.cur
               /\ y.pending[t] = None /\ t \notin y.sleep /\ y.err[t] /\ y.st[t] = "ready"
               /\ y.owner = x.owner
               /\ \A u \in Thread : /\ u # t => Kept(x, y, u)
                                    /\ u # t /\ x.st[u] = "ready" => y.st[u] = "ready"
<1> DEFINE x1 == [x EXCEPT !.err[t] = TRUE]
           z == WaiterRemoved(Unqueue(x1, t), t)
           z1 == [z EXCEPT !.armed = @ \ {t}]
           y == [z1 EXCEPT !.st[t] = "ready"]
<1>1. WaitTimedOut(x, t) = y
  BY DEF WaitTimedOut, Wakeup
<1>2. x \in MutexRec /\ Lines(x) /\ Owners(x, {}) /\ Waiting(x)
  BY DEF Lists
<1>3. /\ x1 \in MutexRec /\ x1.err = [x.err EXCEPT ![t] = TRUE]
      /\ x1.st = x.st /\ x1.cur = x.cur /\ x1.run = x.run /\ x1.armed = x.armed
      /\ x1.sleep = x.sleep /\ x1.wq = x.wq /\ x1.prio = x.prio
      /\ x1.owner = x.owner /\ x1.taken = x.taken /\ x1.pending = x.pending
  BY <1>2 DEF MutexRec
<1> HIDE DEF x1
<1>4. Lists(x1, {})
  BY <1>2, <1>3 DEF Lists, Lines, Owners, Waiting, Awaits
<1>5. Left(x1, z, t)
  BY <1>4, LeftIs DEF Lists
<1> HIDE DEF z
<1>6. /\ z \in MutexRec /\ z.st = x1.st /\ z.armed = x1.armed /\ z.err = x1.err
  BY <1>5 DEF Left
<1>7. /\ z1 \in MutexRec /\ z1.armed = x1.armed \ {t} /\ z1.st = x1.st
      /\ z1.cur = z.cur /\ z1.run = z.run /\ z1.err = z.err /\ z1.sleep = z.sleep
      /\ z1.wq = z.wq /\ z1.prio = z.prio /\ z1.owner = z.owner /\ z1.taken = z.taken
      /\ z1.pending = z.pending
  BY <1>6 DEF MutexRec
<1> HIDE DEF z1
<1>8. /\ y \in MutexRec /\ y.armed = x1.armed \ {t} /\ y.st = [x1.st EXCEPT ![t] = "ready"]
      /\ y.cur = z.cur /\ y.run = z.run /\ y.err = z.err /\ y.sleep = z.sleep
      /\ y.wq = z.wq /\ y.prio = z.prio /\ y.owner = z.owner /\ y.taken = z.taken
      /\ y.pending = z.pending
  BY <1>7 DEF MutexRec
<1> HIDE DEF y
<1>9. Settled(x1, y, t)
  BY <1>4, <1>5, <1>8, SettledIs
<1>10. y.err[t] /\ y.st[t] = "ready"
  BY <1>2, <1>3, <1>6, <1>8 DEF MutexRec
<1>11. \A u \in Thread : u # t => Kept(x, y, u)
  <2>1. ASSUME NEW u \in Thread, u # t PROVE Kept(x, y, u)
    <3>1. Kept(x1, y, u)
      BY <1>9, <2>1 DEF Settled
    <3>2. x1.err[u] = x.err[u]
      BY <1>2, <1>3, <2>1 DEF MutexRec
    <3> QED
      BY <1>3, <3>1, <3>2 DEF Kept
  <2> QED
    BY <2>1
<1> QED
  BY <1>1, <1>3, <1>5, <1>8, <1>9, <1>10, <1>11 DEF Settled, Left

\* delete_bookkeeping.
LEMMA DeletedIs ==
    ASSUME NEW x, Lists(x, {}), NEW t \in Thread,
           x.st[t] = "close" => x.pending[t] = None /\ \A m \in Queue : x.owner[m] # t
    PROVE  LET y == Deleted(x, t)
           IN  Settled(x, y, t) /\ \A m \in Queue : y.owner[m] # t
<1>1. x \in MutexRec /\ Lines(x) /\ Owners(x, {}) /\ Waiting(x)
  BY DEF Lists
<1>2. CASE x.st[t] = "close"
  <2>1. Deleted(x, t) = x
    BY <1>2 DEF Deleted
  <2>2. Released(x, x, t)
    BY ReleasedSame
  <2>3. x.pending[t] = None /\ t \notin x.sleep
    BY <1>1, <1>2 DEF Waiting, Awaits
  <2> QED
    BY <1>2, <2>1, <2>2, <2>3 DEF Settled, Released
<1>3. CASE x.st[t] # "close"
  <2> DEFINE r == ReleaseAllHeld(x, t)
             r1 == [r EXCEPT !.armed = @ \ {t}]
             z == WaiterRemoved(Unqueue(r1, t), t)
             y == [z EXCEPT !.st[t] = "close"]
  <2>1. Deleted(x, t) = y
    BY <1>3 DEF Deleted
  <2>2. Released(x, r, t) /\ \A m \in Queue : r.owner[m] # t
    BY ReleaseAllIs
  <2> HIDE DEF r
  <2>3. r \in MutexRec /\ Lines(r) /\ Owners(r, {}) /\ Waiting(r)
    BY <2>2 DEF Released, Lists
  <2>4. /\ r1 \in MutexRec /\ r1.armed = r.armed \ {t}
        /\ r1.st = r.st /\ r1.cur = r.cur /\ r1.run = r.run /\ r1.err = r.err
        /\ r1.sleep = r.sleep /\ r1.wq = r.wq /\ r1.prio = r.prio
        /\ r1.owner = r.owner /\ r1.taken = r.taken /\ r1.pending = r.pending
    BY <2>3 DEF MutexRec
  <2> HIDE DEF r1
  <2>5. Lists(r1, {})
    BY <2>3, <2>4 DEF Lists, Lines, Owners, Waiting, Awaits
  <2>6. Left(r1, z, t)
    BY <2>5, LeftIs DEF Lists
  <2> HIDE DEF z
  <2>7. z \in MutexRec /\ z.st = r1.st /\ z.armed = r1.armed
    BY <2>6 DEF Left
  <2>8. /\ y \in MutexRec /\ y.armed = r1.armed \ {t} /\ y.st = [r1.st EXCEPT ![t] = "close"]
        /\ y.cur = z.cur /\ y.run = z.run /\ y.err = z.err /\ y.sleep = z.sleep
        /\ y.wq = z.wq /\ y.prio = z.prio /\ y.owner = z.owner /\ y.taken = z.taken
        /\ y.pending = z.pending
    <3>1. y.armed = z.armed
      BY <2>7 DEF MutexRec
    <3>2. z.armed = r1.armed \ {t}
      BY <2>4, <2>7
    <3> QED
      BY <2>7, <3>1, <3>2 DEF MutexRec
  <2> HIDE DEF y
  <2>9. Settled(r1, y, t)
    BY <2>5, <2>6, <2>8, SettledIs
  <2>10. ASSUME NEW u \in Thread
         PROVE  /\ u # t => Kept(x, y, u)
                /\ Unparked(x, u) => Unparked(y, u)
                /\ u # t /\ x.st[u] = "ready" => y.st[u] = "ready"
    <3>1. u # t => Kept(r, y, u)
      BY <2>4, <2>9 DEF Settled, Kept
    <3>2. Unparked(r, u) => Unparked(y, u)
      BY <2>4, <2>9 DEF Settled, Unparked, Awaits
    <3>3. u # t => Kept(x, y, u)
      BY <2>2, <3>1, KeptTrans DEF Released
    <3> QED
      BY <2>2, <2>4, <2>9, <3>2, <3>3 DEF Released, Settled
  <2>11. \A m \in Queue : y.owner[m] # t
    BY <2>2, <2>4, <2>9 DEF Settled
  <2>12. Settled(x, y, t)
    BY <2>2, <2>4, <2>9, <2>10, <2>11 DEF Settled, Released
  <2> QED
    BY <2>1, <2>11, <2>12
<1> QED
  BY <1>2, <1>3

-----------------------------------------------------------------------------
(* The steps.                                                              *)

\* Only CURRENT and the executing thread changed.
Switched(x, y) ==
    /\ y \in MutexRec
    /\ y.st = x.st /\ y.prio = x.prio /\ y.err = x.err /\ y.armed = x.armed
    /\ y.sleep = x.sleep /\ y.wq = x.wq
    /\ y.owner = x.owner /\ y.taken = x.taken /\ y.pending = x.pending

LEMMA SwitchedLists ==
    ASSUME NEW x, Lists(x, {}), NEW y, Switched(x, y)
    PROVE  /\ Lists(y, {})
           /\ \A u \in Thread : Kept(x, y, u) /\ (Unparked(x, u) => Unparked(y, u))
<1>1. Lists(y, {})
  BY DEF Lists, Switched, Lines, Owners, Waiting, Awaits
<1>2. \A u \in Thread : \A m \in Queue : ~ (m = x.pending[u] /\ x.pending[u] = None)
  BY KernelAssumption
<1> QED
  BY <1>1, <1>2 DEF Switched, Kept, Unparked, Awaits

LEMMA ScheduledIs ==
    ASSUME NEW x \in MutexRec, NEW y \in Scheduled(x)
    PROVE  Switched(x, y) /\ y.run = x.run /\ x.st[y.cur] = "ready"
<1>1. PICK t \in Highest(x) : y = [x EXCEPT !.cur = t]
  BY DEF Scheduled
<1>2. t \in Thread /\ x.st[t] = "ready"
  BY DEF Highest
<1> QED
  BY <1>1, <1>2 DEF Switched, MutexRec

LEMMA InHandlerIs ==
    ASSUME NEW x \in MutexRec, NEW need, NEW y \in InHandler(x, need)
    PROVE  Switched(x, y) /\ (y.cur = x.cur \/ x.st[y.cur] = "ready")
<1>1. CASE y = x
  BY <1>1 DEF Switched
<1>2. CASE y \in Scheduled(x)
  BY <1>2, ScheduledIs
<1> QED
  BY <1>1, <1>2 DEF InHandler

LEMMA InvFacts ==
    ASSUME MutexInv
    PROVE  /\ Lists(k, {}) /\ k \in MutexRec /\ Lines(k) /\ Owners(k, {}) /\ Waiting(k)
           /\ k.st \in [Thread -> {"ready", "suspend", "close"}] /\ k.cur \in Thread
           /\ k.run \in Thread /\ k.pending \in [Thread -> Queue \cup {None}]
           /\ k.owner \in [Queue -> Thread \cup {None}]
           /\ MutexTypes
  BY DEF MutexInv, Lists, MutexRec

\* If c is right in what it believes, and the others' view was not disturbed, all are.
LEMMA AllBelieve ==
    ASSUME MutexInv, NEW c \in Thread,
           \A u \in Thread : u # c =>
             Kept(k, k', u) /\ pc'[u] = pc[u] /\ wants'[u] = wants[u] /\ guards'[u] = guards[u],
           Believes(k', c, pc'[c], wants'[c], guards'[c])
    PROVE  \A t \in Thread : Believes(k', t, pc'[t], wants'[t], guards'[t])
<1>1. ASSUME NEW t \in Thread, t # c PROVE Believes(k', t, pc'[t], wants'[t], guards'[t])
  <2>1. /\ k \in MutexRec /\ wants[t] \in Queue \cup {None}
        /\ Believes(k, t, pc[t], wants[t], guards[t])
    BY InvFacts DEF MutexInv, MutexTypes
  <2>2. Kept(k, k', t)
    BY <1>1
  <2>3. Believes(k', t, pc[t], wants[t], guards[t])
    BY <2>1, <2>2, KeptBelieves
  <2> QED
    BY <1>1, <2>3
<1> QED
  BY <1>1

\* A thread that may call waits for nothing and owns what it has guards of.
LEMMA CallerIs ==
    ASSUME MutexInv, NEW c \in Thread, Calls(c)
    PROVE  /\ k.run = c /\ k.cur = c /\ popped = None /\ pc[c] = "run" /\ k.st[c] = "ready"
           /\ wants[c] = None /\ k.pending[c] = None /\ c \notin k.sleep
           /\ \A m \in Queue : k.owner[m] = c <=> m \in guards[c]
<1>1. /\ k.run = c /\ k.cur = c /\ popped = None /\ pc[c] = "run" /\ k.st[c] = "ready"
  BY DEF Calls, Executes
<1>2. Believes(k, c, pc[c], wants[c], guards[c])
  BY DEF MutexInv
<1>3. k.pending[c] = None /\ c \notin k.sleep
  BY <1>1, InvFacts DEF Waiting, Awaits
<1> QED
  BY <1>1, <1>2, <1>3, KernelAssumption DEF Believes

\* A mutex that nobody owns, and nobody waits for, gets an owner.
LEMMA OwnIs ==
    ASSUME NEW x, Lists(x, {}), NEW m \in Queue, x.owner[m] = None, NEW t \in Thread
    PROVE  LET y == Own(x, m, t)
           IN  /\ Lists(y, {})
               /\ y.st = x.st /\ y.cur = x.cur /\ y.run = x.run /\ y.err = x.err
               /\ y.sleep = x.sleep /\ y.pending = x.pending
               /\ y.owner = [x.owner EXCEPT ![m] = t]
<1> DEFINE l == <<m>> \o x.taken[t]
           x1 == [x EXCEPT !.owner[m] = t]
           y == Own(x, m, t)
<1>1. /\ x \in MutexRec /\ Lines(x) /\ Owners(x, {}) /\ Waiting(x)
      /\ x.owner \in [Queue -> Thread \cup {None}] /\ x.taken \in [Thread -> Seq(Queue)]
      /\ x.pending \in [Thread -> Queue \cup {None}]
  BY DEF Lists, MutexRec
<1>2. m \notin ToSet(x.taken[t]) /\ IsInjective(x.taken[t]) /\ x.taken[t] \in Seq(Queue)
  BY <1>1, KernelAssumption DEF Owners
<1>3. l \in Seq(Queue) /\ ToSet(l) = ToSet(x.taken[t]) \cup {m} /\ IsInjective(l)
  BY <1>2, ConsQueue
<1>4. y = [x1 EXCEPT !.taken[t] = l]
  BY <1>1 DEF Own, MutexRec
<1> HIDE DEF l, y
<1>5. /\ x1 \in MutexRec /\ x1.owner = [x.owner EXCEPT ![m] = t]
      /\ x1.st = x.st /\ x1.cur = x.cur /\ x1.run = x.run /\ x1.err = x.err
      /\ x1.armed = x.armed /\ x1.sleep = x.sleep /\ x1.wq = x.wq /\ x1.prio = x.prio
      /\ x1.taken = x.taken /\ x1.pending = x.pending
  BY <1>1 DEF MutexRec
<1> HIDE DEF x1
<1>6. /\ y \in MutexRec
      /\ y.owner = [x.owner EXCEPT ![m] = t] /\ y.taken = [x.taken EXCEPT ![t] = l]
      /\ y.st = x.st /\ y.cur = x.cur /\ y.run = x.run /\ y.err = x.err
      /\ y.armed = x.armed /\ y.sleep = x.sleep /\ y.wq = x.wq /\ y.prio = x.prio
      /\ y.pending = x.pending
  BY <1>3, <1>4, <1>5 DEF MutexRec
<1>7. Lines(y) /\ Waiting(y)
  BY <1>1, <1>6 DEF Lines, Waiting, Awaits
<1>8. /\ \A n \in Queue : y.owner[n] = IF n = m THEN t ELSE x.owner[n]
      /\ \A u \in Thread : y.taken[u] = IF u = t THEN l ELSE x.taken[u]
  BY <1>1, <1>6
<1>9. Owners(y, {})
  <2>1. \A u \in Thread : IsInjective(y.taken[u])
    BY <1>1, <1>3, <1>8 DEF Owners
  <2>2. ASSUME NEW n \in Queue, NEW u \in Thread
        PROVE  y.owner[n] = u <=> n \in ToSet(y.taken[u])
    <3>1. x.owner[n] = u <=> n \in ToSet(x.taken[u])
      BY <1>1 DEF Owners
    <3> QED
      BY <1>3, <1>8, <3>1, KernelAssumption
  <2>3. ASSUME NEW u \in Thread, y.pending[u] # None
        PROVE  y.owner[y.pending[u]] \notin {u, None}
    <3>1. x.pending[u] \in Queue /\ x.owner[x.pending[u]] \notin {u, None}
      BY <1>1, <1>6, <2>3 DEF Owners
    <3>2. x.pending[u] # m
      BY <3>1
    <3> QED
      BY <1>6, <1>8, <3>1, <3>2
  <2> QED
    BY <2>1, <2>2, <2>3 DEF Owners
<1> QED
  BY <1>6, <1>7, <1>9 DEF Lists, y

\* A thread begins to wait for a mutex of another.
LEMMA BlockIs ==
    ASSUME NEW x, Lists(x, {}), NEW c \in Thread, x.st[c] = "ready", NEW m \in Queue,
           x.owner[m] \notin {None, c}, NEW timed \in BOOLEAN
    PROVE  LET y == SuspendPrio([x EXCEPT !.pending[c] = m], c, m, timed)
           IN  /\ Lists(y, {})
               /\ y.cur = x.cur /\ y.run = x.run /\ y.sleep = x.sleep /\ y.owner = x.owner
               /\ y.st = [x.st EXCEPT ![c] = "suspend"]
               /\ y.pending = [x.pending EXCEPT ![c] = m]
               /\ y.err = [x.err EXCEPT ![c] = FALSE]
<1> DEFINE w == InsertPrioWaiter(x.wq[m], x.prio, c)
           x1 == [x EXCEPT !.pending[c] = m]
           x2 == [x1 EXCEPT !.err[c] = FALSE]
           x3 == [x2 EXCEPT !.wq[m] = w]
           x4 == [x3 EXCEPT !.st[c] = "suspend"]
           a == IF timed THEN x.armed \cup {c} ELSE x.armed
           y == SuspendPrio(x1, c, m, timed)
<1>1. /\ x \in MutexRec /\ Lines(x) /\ Owners(x, {}) /\ Waiting(x)
      /\ x.wq \in [Queue -> Seq(Thread)] /\ x.prio \in [Thread -> Nat]
      /\ x.owner \in [Queue -> Thread \cup {None}] /\ x.err \in [Thread -> BOOLEAN]
      /\ x.pending \in [Thread -> Queue \cup {None}]
      /\ x.st \in [Thread -> {"ready", "suspend", "close"}]
      /\ x.armed \in SUBSET Thread
  BY DEF Lists, MutexRec
<1>2. x.pending[c] = None /\ c \notin x.sleep
  BY <1>1 DEF Waiting, Awaits
<1>3. /\ x.wq[m] \in Seq(Thread) /\ IsInjective(x.wq[m]) /\ Ordered(x.prio, x.wq[m])
      /\ c \notin ToSet(x.wq[m])
  BY <1>1, <1>2, NotPending DEF Lines
<1>4. /\ w \in Seq(Thread) /\ ToSet(w) = ToSet(x.wq[m]) \cup {c}
      /\ IsInjective(w) /\ Ordered(x.prio, w)
  BY <1>1, <1>3, InsertedIs
<1>5. x1.wq = x.wq /\ x1.prio = x.prio
  BY <1>1 DEF MutexRec
<1>6. y = SuspendWith(x1, c, m, w, timed)
  BY <1>5 DEF SuspendPrio
<1>7. y = [x4 EXCEPT !.armed = a]
  BY <1>1, <1>6 DEF SuspendWith, MutexRec
<1> HIDE DEF w, y
<1>8. /\ x1 \in MutexRec /\ x1.pending = [x.pending EXCEPT ![c] = m]
      /\ x1.st = x.st /\ x1.cur = x.cur /\ x1.run = x.run /\ x1.err = x.err
      /\ x1.armed = x.armed /\ x1.sleep = x.sleep /\ x1.wq = x.wq /\ x1.prio = x.prio
      /\ x1.owner = x.owner /\ x1.taken = x.taken
  BY <1>1 DEF MutexRec
<1> HIDE DEF x1
<1>9. /\ x2 \in MutexRec /\ x2.err = [x.err EXCEPT ![c] = FALSE]
      /\ x2.st = x.st /\ x2.cur = x.cur /\ x2.run = x.run /\ x2.pending = x1.pending
      /\ x2.armed = x.armed /\ x2.sleep = x.sleep /\ x2.wq = x.wq /\ x2.prio = x.prio
      /\ x2.owner = x.owner /\ x2.taken = x.taken
  BY <1>8 DEF MutexRec
<1> HIDE DEF x2
<1>10. /\ x3 \in MutexRec /\ x3.wq = [x.wq EXCEPT ![m] = w]
       /\ x3.st = x.st /\ x3.cur = x.cur /\ x3.run = x.run /\ x3.pending = x1.pending
       /\ x3.armed = x.armed /\ x3.sleep = x.sleep /\ x3.err = x2.err
       /\ x3.prio = x.prio /\ x3.owner = x.owner /\ x3.taken = x.taken
  BY <1>4, <1>9 DEF MutexRec
<1> HIDE DEF x3
<1>11. /\ x4 \in MutexRec /\ x4.st = [x.st EXCEPT ![c] = "suspend"]
       /\ x4.wq = x3.wq /\ x4.cur = x.cur /\ x4.run = x.run /\ x4.pending = x1.pending
       /\ x4.armed = x.armed /\ x4.sleep = x.sleep /\ x4.err = x2.err
       /\ x4.prio = x.prio /\ x4.owner = x.owner /\ x4.taken = x.taken
  BY <1>10 DEF MutexRec
<1> HIDE DEF x4
<1>12. a \in SUBSET Thread /\ x.armed \subseteq a /\ a \subseteq x.armed \cup {c}
  BY <1>1
<1> HIDE DEF a
<1>13. /\ y \in MutexRec /\ y.armed = a
       /\ y.st = x4.st /\ y.wq = x4.wq /\ y.cur = x4.cur /\ y.run = x4.run
       /\ y.pending = x4.pending /\ y.sleep = x4.sleep /\ y.err = x4.err
       /\ y.prio = x4.prio /\ y.owner = x4.owner /\ y.taken = x4.taken
  BY <1>7, <1>11, <1>12 DEF MutexRec
<1>14. /\ y.cur = x.cur /\ y.run = x.run /\ y.sleep = x.sleep /\ y.owner = x.owner
       /\ y.prio = x.prio /\ y.taken = x.taken
       /\ y.st = [x.st EXCEPT ![c] = "suspend"] /\ y.err = [x.err EXCEPT ![c] = FALSE]
       /\ y.pending = [x.pending EXCEPT ![c] = m] /\ y.wq = [x.wq EXCEPT ![m] = w]
  BY <1>8, <1>9, <1>10, <1>11, <1>13
<1>15. /\ \A u \in Thread : /\ y.pending[u] = IF u = c THEN m ELSE x.pending[u]
                            /\ y.st[u] = IF u = c THEN "suspend" ELSE x.st[u]
       /\ \A n \in Queue : y.wq[n] = IF n = m THEN w ELSE x.wq[n]
  BY <1>1, <1>14
<1>16. Lines(y)
  <2>1. ASSUME NEW n \in Queue, NEW u \in Thread
        PROVE  y.pending[u] = n <=> u \in ToSet(y.wq[n])
    <3>1. x.pending[u] = n <=> u \in ToSet(x.wq[n])
      BY <1>1 DEF Lines
    <3> QED
      BY <1>2, <1>4, <1>15, <3>1, KernelAssumption
  <2>2. ASSUME NEW n \in Queue PROVE IsInjective(y.wq[n]) /\ Ordered(y.prio, y.wq[n])
    BY <1>1, <1>4, <1>14, <1>15 DEF Lines
  <2> QED
    BY <2>1, <2>2 DEF Lines
<1>17. Owners(y, {})
  <2>1. ASSUME NEW u \in Thread, y.pending[u] # None
        PROVE  y.owner[y.pending[u]] \notin {u, None}
    BY <1>1, <1>14, <1>15, <2>1 DEF Owners
  <2> QED
    BY <1>1, <1>14, <2>1 DEF Owners
<1>18. Waiting(y)
  BY <1>1, <1>2, <1>12, <1>13, <1>14, <1>15, KernelAssumption DEF Waiting, Awaits
<1> QED
  BY <1>13, <1>14, <1>16, <1>17, <1>18 DEF Lists, x1, y

\* thread_delay.
LEMMA DelayedIs ==
    ASSUME NEW x, Lists(x, {}), NEW c \in Thread, x.st[c] = "ready"
    PROVE  LET y == Delayed(x, c)
           IN  /\ Lists(y, {})
               /\ y.cur = x.cur /\ y.run = x.run /\ y.owner = x.owner
               /\ y.pending = x.pending /\ y.sleep = x.sleep \cup {c}
               /\ y.st = [x.st EXCEPT ![c] = "suspend"]
               /\ y.err = [x.err EXCEPT ![c] = FALSE]
<1> DEFINE x1 == [x EXCEPT !.err[c] = FALSE]
           x2 == [x1 EXCEPT !.st[c] = "suspend"]
           x3 == [x2 EXCEPT !.armed = @ \cup {c}]
           y == Delayed(x, c)
<1>1. /\ x \in MutexRec /\ Lines(x) /\ Owners(x, {}) /\ Waiting(x)
      /\ x.st \in [Thread -> {"ready", "suspend", "close"}]
  BY DEF Lists, MutexRec
<1>2. x.pending[c] = None /\ c \notin x.sleep
  BY <1>1 DEF Waiting, Awaits
<1>3. y = [x3 EXCEPT !.sleep = @ \cup {c}]
  BY <1>1 DEF Delayed, MutexRec
<1> HIDE DEF y
<1>4. /\ x1 \in MutexRec /\ x1.err = [x.err EXCEPT ![c] = FALSE]
      /\ x1.st = x.st /\ x1.cur = x.cur /\ x1.run = x.run /\ x1.armed = x.armed
      /\ x1.sleep = x.sleep /\ x1.wq = x.wq /\ x1.prio = x.prio
      /\ x1.owner = x.owner /\ x1.taken = x.taken /\ x1.pending = x.pending
  BY <1>1 DEF MutexRec
<1> HIDE DEF x1
<1>5. /\ x2 \in MutexRec /\ x2.st = [x.st EXCEPT ![c] = "suspend"]
      /\ x2.err = x1.err /\ x2.cur = x.cur /\ x2.run = x.run /\ x2.armed = x.armed
      /\ x2.sleep = x.sleep /\ x2.wq = x.wq /\ x2.prio = x.prio
      /\ x2.owner = x.owner /\ x2.taken = x.taken /\ x2.pending = x.pending
  BY <1>4 DEF MutexRec
<1> HIDE DEF x2
<1>6. /\ x3 \in MutexRec /\ x3.armed = x.armed \cup {c}
      /\ x3.st = x2.st /\ x3.err = x1.err /\ x3.cur = x.cur /\ x3.run = x.run
      /\ x3.sleep = x.sleep /\ x3.wq = x.wq /\ x3.prio = x.prio
      /\ x3.owner = x.owner /\ x3.taken = x.taken /\ x3.pending = x.pending
  BY <1>5 DEF MutexRec
<1> HIDE DEF x3
<1>7. /\ y \in MutexRec /\ y.armed = x.armed \cup {c} /\ y.sleep = x.sleep \cup {c}
      /\ y.st = x2.st /\ y.err = x1.err /\ y.cur = x.cur /\ y.run = x.run
      /\ y.wq = x.wq /\ y.prio = x.prio
      /\ y.owner = x.owner /\ y.taken = x.taken /\ y.pending = x.pending
  BY <1>3, <1>6 DEF MutexRec
<1>8. \A u \in Thread : y.st[u] = IF u = c THEN "suspend" ELSE x.st[u]
  BY <1>1, <1>5, <1>7
<1>9. Lines(y) /\ Owners(y, {})
  BY <1>1, <1>7 DEF Lines, Owners
<1>10. Waiting(y)
  BY <1>1, <1>2, <1>7, <1>8 DEF Waiting, Awaits
<1> QED
  BY <1>4, <1>5, <1>7, <1>9, <1>10 DEF Lists, y

LEMMA InitKeeps == Init => MutexInv
<1> SUFFICES ASSUME Init PROVE MutexInv
  OBVIOUS
<1>1. PICK first \in FirstOf : k = MutexInit(KernelInit(first))
  BY DEF Init
<1>2. first \in Thread
  BY DEF FirstOf
<1> DEFINE b == KernelInit(first)
<1>3. /\ b.st = [t \in Thread |-> "ready"] /\ b.prio = Base /\ b.cur = first /\ b.run = first
      /\ b.err = [t \in Thread |-> FALSE] /\ b.armed = {} /\ b.sleep = {}
      /\ b.wq = [q \in Queue |-> <<>>]
  BY DEF KernelInit
<1> HIDE DEF b
<1>4. k = MutexInit(b)
  BY <1>1 DEF b
<1>5. /\ k.st = [t \in Thread |-> "ready"] /\ k.prio = Base /\ k.cur = first /\ k.run = first
      /\ k.err = [t \in Thread |-> FALSE] /\ k.armed = {} /\ k.sleep = {}
      /\ k.wq = [q \in Queue |-> <<>>]
      /\ k.owner = [m \in Queue |-> None] /\ k.taken = [t \in Thread |-> <<>>]
      /\ k.pending = [t \in Thread |-> None]
  BY <1>3, <1>4 DEF MutexInit, Mutexes
<1>6. k \in MutexRec
  <2>1. /\ [t \in Thread |-> "ready"] \in [Thread -> {"ready", "suspend", "close"}]
        /\ Base \in [Thread -> Nat] /\ [t \in Thread |-> FALSE] \in [Thread -> BOOLEAN]
        /\ [q \in Queue |-> <<>>] \in [Queue -> Seq(Thread)]
        /\ [m \in Queue |-> None] \in [Queue -> Thread \cup {None}]
        /\ [t \in Thread |-> <<>>] \in [Thread -> Seq(Queue)]
        /\ [t \in Thread |-> None] \in [Thread -> Queue \cup {None}]
    BY KernelAssumption
  <2>2. MutexInit(b) \in MutexRec
    BY <1>2, <1>3, <2>1 DEF MutexInit, MutexRec, Mutexes
  <2> QED
    BY <1>4, <2>2
<1>7. ToSet(<<>>) = {} /\ IsInjective(<<>>) /\ \A p : Ordered(p, <<>>)
  BY DEF ToSet, IsInjective, Ordered
<1>8. Lists(k, {})
  <2>1. Lines(k)
    BY <1>5, <1>7, KernelAssumption DEF Lines
  <2>2. Owners(k, {})
    BY <1>5, <1>7, KernelAssumption DEF Owners
  <2>3. Waiting(k)
    BY <1>5 DEF Waiting, Awaits
  <2> QED
    BY <1>6, <2>1, <2>2, <2>3 DEF Lists
<1>9. MutexTypes
  BY DEF Init, MutexTypes
<1>10. \A t \in Thread : Believes(k, t, pc[t], wants[t], guards[t])
  BY <1>5, KernelAssumption DEF Init, Believes
<1> QED
  BY <1>2, <1>5, <1>8, <1>9, <1>10 DEF Init, MutexInv

LEMMA LockFreeKeeps ==
    ASSUME MutexInv, NEW c \in Thread, NEW m \in Queue, LockFree(c, m)
    PROVE  MutexInv'
<1>1. /\ Calls(c) /\ k.owner[m] = None /\ k' = Own(k, m, c)
      /\ guards' = [guards EXCEPT ![c] = @ \cup {m}]
      /\ pc' = pc /\ wants' = wants /\ popped' = popped
  BY DEF LockFree
<1>2. Lists(k, {}) /\ MutexTypes /\ k.owner \in [Queue -> Thread \cup {None}]
  BY InvFacts
<1>3. /\ Lists(k', {})
      /\ k'.st = k.st /\ k'.cur = k.cur /\ k'.run = k.run /\ k'.err = k.err
      /\ k'.sleep = k.sleep /\ k'.pending = k.pending
      /\ k'.owner = [k.owner EXCEPT ![m] = c]
  BY <1>1, <1>2, OwnIs
<1>4. MutexTypes'
  BY <1>1, <1>2 DEF MutexTypes
<1>5. \A n \in Queue : k'.owner[n] = IF n = m THEN c ELSE k.owner[n]
  BY <1>2, <1>3
<1>6. guards'[c] = guards[c] \cup {m} /\ \A u \in Thread : u # c => guards'[u] = guards[u]
  BY <1>1, <1>2 DEF MutexTypes
<1>7. Believes(k', c, pc'[c], wants'[c], guards'[c])
  BY <1>1, <1>3, <1>5, <1>6, CallerIs, KernelAssumption DEF Believes
<1>8. ASSUME NEW u \in Thread, u # c PROVE Kept(k, k', u)
  BY <1>1, <1>3, <1>5, <1>8, KernelAssumption DEF Kept
<1>9. \A t \in Thread : Believes(k', t, pc'[t], wants'[t], guards'[t])
  BY <1>1, <1>6, <1>7, <1>8, AllBelieve
<1>10. popped' = None /\ pc'[k'.cur] # "wait"
  BY <1>1, <1>3, CallerIs
<1> QED
  BY <1>3, <1>4, <1>9, <1>10 DEF MutexInv

LEMMA LockBlockKeeps ==
    ASSUME MutexInv, NEW c \in Thread, NEW m \in Queue, NEW timed \in BOOLEAN,
           LockBlock(c, m, timed)
    PROVE  MutexInv'
<1> DEFINE o == k.owner[m]
           s == IF k.prio[o] > k.prio[c] THEN PriorityInherit(k, o, k.prio[c]) ELSE k
<1>1. /\ Calls(c) /\ o \notin {None, c}
      /\ k' = SuspendPrio([s EXCEPT !.pending[c] = m], c, m, timed)
      /\ wants' = [wants EXCEPT ![c] = m] /\ pc' = [pc EXCEPT ![c] = "block"]
      /\ guards' = guards /\ popped' = popped
  BY DEF LockBlock, Goto
<1>2. /\ Lists(k, {}) /\ k \in MutexRec /\ Lines(k) /\ MutexTypes
      /\ k.owner \in [Queue -> Thread \cup {None}]
      /\ k.pending \in [Thread -> Queue \cup {None}]
      /\ k.st \in [Thread -> {"ready", "suspend", "close"}]
  BY InvFacts
<1>3. o \in Thread /\ k.prio[c] \in Nat
  BY <1>1, <1>2 DEF MutexRec
<1>4. Shuffled(k, s)
  <2>1. Shuffled(k, PriorityInherit(k, o, k.prio[c]))
    <3> HIDE DEF o
    <3> QED
      BY <1>2, <1>3, PriorityInheritIs
  <2>2. Shuffled(k, k)
    BY <1>2 DEF Shuffled
  <2> QED
    BY <2>1, <2>2
<1> HIDE DEF s
<1>5. /\ Lists(s, {}) /\ s.st = k.st /\ s.cur = k.cur /\ s.run = k.run /\ s.err = k.err
      /\ s.sleep = k.sleep /\ s.owner = k.owner /\ s.pending = k.pending
  BY <1>2, <1>4, ShuffledLists DEF Shuffled
<1>6. s.st[c] = "ready" /\ s.owner[m] \notin {None, c}
  BY <1>1, <1>5, CallerIs
<1>7. /\ Lists(k', {})
      /\ k'.cur = s.cur /\ k'.run = s.run /\ k'.sleep = s.sleep /\ k'.owner = s.owner
      /\ k'.st = [s.st EXCEPT ![c] = "suspend"]
      /\ k'.pending = [s.pending EXCEPT ![c] = m]
      /\ k'.err = [s.err EXCEPT ![c] = FALSE]
  BY ONLY <1>1, <1>5, <1>6, c \in Thread, m \in Queue, timed \in BOOLEAN, BlockIs, SMTT(30)
<1>8. MutexTypes'
  BY <1>1, <1>2 DEF MutexTypes
<1>9. k.err \in [Thread -> BOOLEAN]
  BY <1>2 DEF MutexRec
<1>10. \A u \in Thread : /\ k'.pending[u] = IF u = c THEN m ELSE k.pending[u]
                         /\ k'.st[u] = IF u = c THEN "suspend" ELSE k.st[u]
                         /\ k'.err[u] = IF u = c THEN FALSE ELSE k.err[u]
  <2>1. \A u \in Thread : k'.pending[u] = IF u = c THEN m ELSE k.pending[u]
    BY <1>2, <1>5, <1>7
  <2>2. \A u \in Thread : k'.st[u] = IF u = c THEN "suspend" ELSE k.st[u]
    BY <1>2, <1>5, <1>7
  <2>3. \A u \in Thread : k'.err[u] = IF u = c THEN FALSE ELSE k.err[u]
    BY <1>5, <1>7, <1>9
  <2> QED
    BY <2>1, <2>2, <2>3
<1>11. /\ pc'[c] = "block" /\ wants'[c] = m /\ guards'[c] = guards[c]
       /\ \A u \in Thread : u # c =>
            pc'[u] = pc[u] /\ wants'[u] = wants[u] /\ guards'[u] = guards[u]
  BY <1>1, <1>2 DEF MutexTypes
<1>12. Believes(k', c, pc'[c], wants'[c], guards'[c])
  <2>1. c \notin k'.sleep /\ k'.st[c] = "suspend" /\ k'.pending[c] = m /\ ~k'.err[c]
    BY <1>1, <1>5, <1>7, <1>10, CallerIs
  <2>2. \A n \in Queue : k'.owner[n] = c <=> n \in guards[c]
    BY <1>1, <1>5, <1>7, CallerIs
  <2> QED
    BY <1>11, <2>1, <2>2, KernelAssumption DEF Believes
<1>13. ASSUME NEW u \in Thread, u # c PROVE Kept(k, k', u)
  BY <1>5, <1>7, <1>10, <1>13, KernelAssumption DEF Kept
<1>14. \A t \in Thread : Believes(k', t, pc'[t], wants'[t], guards'[t])
  BY <1>11, <1>12, <1>13, AllBelieve
<1>15. popped' = None /\ pc'[k'.cur] # "wait"
  BY <1>1, <1>5, <1>7, <1>11, CallerIs
<1> QED
  BY <1>7, <1>8, <1>14, <1>15 DEF MutexInv

LEMMA CallScheduleKeeps ==
    ASSUME MutexInv, NEW c \in Thread, CallSchedule(c)
    PROVE  MutexInv'
<1>1. /\ popped = None /\ k.cur = c /\ pc[c] \in {"owe", "block"}
      /\ k' \in Scheduled(k)
      /\ pc' = [pc EXCEPT ![c] = IF pc[c] = "owe" THEN "run" ELSE "wait"]
      /\ wants' = wants /\ guards' = guards /\ popped' = popped
  BY DEF CallSchedule, Goto, Executes
<1>2. Lists(k, {}) /\ k \in MutexRec /\ MutexTypes
  BY InvFacts
<1>3. Switched(k, k') /\ k.st[k'.cur] = "ready"
  BY <1>1, <1>2, ScheduledIs
<1>4. Lists(k', {}) /\ \A u \in Thread : Kept(k, k', u)
  BY <1>2, <1>3, SwitchedLists
<1>5. MutexTypes'
  BY <1>1, <1>2 DEF MutexTypes
<1>6. Believes(k', c, pc'[c], wants'[c], guards'[c])
  <2>1. k \in MutexRec /\ wants[c] \in Queue \cup {None} /\ Believes(k, c, pc[c], wants[c], guards[c])
    BY <1>2 DEF MutexInv, MutexTypes
  <2>2. Believes(k', c, pc[c], wants[c], guards[c])
    BY <1>4, <2>1, KeptBelieves
  <2>3. pc[c] = "owe" \/ pc'[c] = "wait"
    BY <1>1, <1>2 DEF MutexTypes
  <2> QED
    BY <1>1, <2>2, <2>3 DEF Believes
<1>7. \A u \in Thread : u # c => pc'[u] = pc[u]
  BY <1>1, <1>2 DEF MutexTypes
<1>8. \A t \in Thread : Believes(k', t, pc'[t], wants'[t], guards'[t])
  BY <1>1, <1>4, <1>6, <1>7, AllBelieve
<1>9. popped' = None /\ k'.st[k'.cur] = "ready"
  BY <1>1, <1>3 DEF Switched
<1> QED
  BY <1>4, <1>5, <1>8, <1>9 DEF MutexInv

LEMMA LockReturnKeeps ==
    ASSUME MutexInv, NEW c \in Thread, LockReturn(c)
    PROVE  MutexInv'
<1>1. /\ popped = None /\ k.cur = c /\ pc[c] = "wait"
      /\ guards' = IF k.err[c] THEN guards ELSE [guards EXCEPT ![c] = @ \cup {wants[c]}]
      /\ wants' = [wants EXCEPT ![c] = None] /\ pc' = [pc EXCEPT ![c] = "run"]
      /\ k' = k /\ popped' = popped
  BY DEF LockReturn, Goto, Executes
<1>2. Lists(k, {}) /\ k \in MutexRec /\ MutexTypes /\ Waiting(k)
  BY InvFacts
<1>3. k.st[c] = "ready"
  BY <1>1 DEF MutexInv
<1>4. k.pending[c] = None /\ c \notin k.sleep
  BY <1>2, <1>3 DEF Waiting, Awaits
<1>5. MutexTypes'
  BY <1>1, <1>2 DEF MutexTypes
<1>6. /\ pc'[c] = "run" /\ wants'[c] = None
      /\ guards'[c] = IF k.err[c] THEN guards[c] ELSE guards[c] \cup {wants[c]}
      /\ \A u \in Thread : u # c =>
           pc'[u] = pc[u] /\ wants'[u] = wants[u] /\ guards'[u] = guards[u]
  BY <1>1, <1>2 DEF MutexTypes
<1>7. Believes(k', c, pc'[c], wants'[c], guards'[c])
  <2>1. Believes(k, c, pc[c], wants[c], guards[c]) /\ k.err[c] \in BOOLEAN
    BY <1>2 DEF MutexInv, MutexRec
  <2>2. CASE k.err[c]
    BY <1>1, <1>3, <1>4, <1>6, <2>1, <2>2, KernelAssumption DEF Believes
  <2>3. CASE ~k.err[c]
    BY <1>1, <1>3, <1>4, <1>6, <2>1, <2>3, KernelAssumption DEF Believes
  <2> QED
    BY <2>2, <2>3
<1>8. \A u \in Thread : Kept(k, k', u)
  BY <1>1, KernelAssumption DEF Kept
<1>9. \A t \in Thread : Believes(k', t, pc'[t], wants'[t], guards'[t])
  BY <1>6, <1>7, <1>8, AllBelieve
<1>10. popped' = None /\ k'.st[k'.cur] = "ready"
  BY <1>1, <1>3
<1> QED
  BY <1>1, <1>2, <1>5, <1>9, <1>10 DEF MutexInv

LEMMA DropGuardKeeps ==
    ASSUME MutexInv, NEW c \in Thread, NEW m \in Queue, DropGuard(c, m)
    PROVE  MutexInv'
<1>1. /\ Calls(c) /\ m \in guards[c] /\ guards' = [guards EXCEPT ![c] = @ \ {m}]
      /\ k' = Unlocked(k, m) /\ pc' = [pc EXCEPT ![c] = IF UnlockNeeds(k, m) THEN "owe" ELSE "run"]
      /\ wants' = wants /\ popped' = popped
  BY DEF DropGuard, AfterCall, Goto
<1>2. Lists(k, {}) /\ MutexTypes
  BY InvFacts
<1>3. k.cur = c /\ k.owner[m] = k.cur
  BY <1>1, CallerIs
<1>4. /\ Released(k, k', c) /\ k'.owner[m] # c
      /\ \A n \in Queue : n # m => k'.owner[n] = k.owner[n]
  BY <1>1, <1>2, <1>3, UnlockedIs
<1>5. MutexTypes'
  BY <1>1, <1>2 DEF MutexTypes
<1>6. /\ pc'[c] \in {"owe", "run"} /\ guards'[c] = guards[c] \ {m}
      /\ \A u \in Thread : u # c => pc'[u] = pc[u] /\ guards'[u] = guards[u]
  BY <1>1, <1>2 DEF MutexTypes
<1>7. Believes(k', c, pc'[c], wants'[c], guards'[c])
  <2>1. /\ wants'[c] = None /\ k'.pending[c] = None /\ c \notin k'.sleep /\ k'.st[c] # "close"
        /\ \A n \in Queue : k.owner[n] = c <=> n \in guards[c]
    BY <1>1, <1>4, CallerIs DEF Released
  <2>2. \A n \in Queue : k'.owner[n] = c <=> n \in guards'[c]
    BY <1>4, <1>6, <2>1
  <2> QED
    BY <2>1, <2>2 DEF Believes
<1>8. \A t \in Thread : Believes(k', t, pc'[t], wants'[t], guards'[t])
  BY <1>1, <1>4, <1>6, <1>7, AllBelieve DEF Released
<1>9. popped' = None /\ pc'[k'.cur] # "wait"
  BY <1>1, <1>3, <1>4, <1>6, CallerIs DEF Released
<1> QED
  BY <1>4, <1>5, <1>8, <1>9 DEF MutexInv, Released

LEMMA ClosedOwnsNothing ==
    ASSUME MutexInv, NEW t \in Thread, k.st[t] = "close"
    PROVE  k.pending[t] = None /\ \A m \in Queue : k.owner[m] # t
<1>1. Believes(k, t, pc[t], wants[t], guards[t])
  BY DEF MutexInv
<1> QED
  BY <1>1, KernelAssumption DEF Believes

\* What a deleted thread believes: nothing.
LEMMA GoneBelieves ==
    ASSUME NEW x, NEW t, x.pending[t] = None, \A m \in Queue : x.owner[m] # t, NEW p
    PROVE  Believes(x, t, p, None, {})
  BY DEF Believes

LEMMA DeleteKeeps ==
    ASSUME MutexInv, NEW c \in Thread, NEW t \in Thread, Delete(c, t)
    PROVE  MutexInv'
<1>1. /\ Calls(c) /\ k' = Deleted(k, t) /\ pc' = [pc EXCEPT ![c] = "owe"]
      /\ guards' = [guards EXCEPT ![t] = {}] /\ wants' = [wants EXCEPT ![t] = None]
      /\ popped' = popped
  BY DEF Delete, Forget, Goto
<1>2. Lists(k, {}) /\ MutexTypes /\ k \in MutexRec
  BY InvFacts
<1>3. Settled(k, k', t) /\ \A m \in Queue : k'.owner[m] # t
  BY <1>1, <1>2, ClosedOwnsNothing, DeletedIs
<1>4. MutexTypes'
  BY <1>1, <1>2 DEF MutexTypes
<1>5. /\ guards'[t] = {} /\ wants'[t] = None /\ pc'[c] = "owe"
      /\ \A u \in Thread : u # t => guards'[u] = guards[u] /\ wants'[u] = wants[u]
      /\ \A u \in Thread : u # c => pc'[u] = pc[u]
  BY <1>1, <1>2 DEF MutexTypes
<1>6. ASSUME NEW u \in Thread PROVE Believes(k', u, pc'[u], wants'[u], guards'[u])
  <2>1. CASE u = t
    BY <1>3, <1>5, <2>1, GoneBelieves DEF Settled
  <2>2. CASE u # t
    <3>1. /\ Kept(k, k', u) /\ wants[u] \in Queue \cup {None}
          /\ Believes(k, u, pc[u], wants[u], guards[u])
      BY <1>2, <1>3, <2>2 DEF MutexInv, MutexTypes, Settled
    <3>2. Believes(k', u, pc[u], wants[u], guards[u])
      BY <1>2, <3>1, KeptBelieves
    <3>3. u = c => wants[u] = None
      BY <1>1, CallerIs
    <3>4. wants'[u] = wants[u] /\ guards'[u] = guards[u]
      BY <1>5, <2>2
    <3>5. CASE u = c
      BY <3>2, <3>3, <3>4, <3>5 DEF Believes
    <3>6. CASE u # c
      BY <1>5, <3>2, <3>4, <3>6
    <3> QED
      BY <3>5, <3>6
  <2> QED
    BY <2>1, <2>2
<1>7. popped' = None /\ pc'[k'.cur] # "wait"
  BY <1>1, <1>3, <1>5, CallerIs DEF Settled
<1> QED
  BY <1>3, <1>4, <1>6, <1>7 DEF MutexInv, Settled

LEMMA SleepKeeps ==
    ASSUME MutexInv, NEW c \in Thread, Sleep(c)
    PROVE  MutexInv'
<1>1. /\ Calls(c) /\ k' = Delayed(k, c) /\ pc' = [pc EXCEPT ![c] = "owe"]
      /\ wants' = wants /\ guards' = guards /\ popped' = popped
  BY DEF Sleep, Goto
<1>2. /\ Lists(k, {}) /\ MutexTypes /\ k \in MutexRec /\ k.err \in [Thread -> BOOLEAN]
      /\ k.st \in [Thread -> {"ready", "suspend", "close"}]
  BY InvFacts DEF MutexRec
<1>3. k.st[c] = "ready"
  BY <1>1, CallerIs
<1>4. /\ Lists(k', {})
      /\ k'.cur = k.cur /\ k'.run = k.run /\ k'.owner = k.owner
      /\ k'.pending = k.pending /\ k'.sleep = k.sleep \cup {c}
      /\ k'.st = [k.st EXCEPT ![c] = "suspend"]
      /\ k'.err = [k.err EXCEPT ![c] = FALSE]
  BY <1>1, <1>2, <1>3, DelayedIs
<1>5. MutexTypes'
  BY <1>1, <1>2 DEF MutexTypes
<1>6. \A u \in Thread : /\ k'.st[u] = IF u = c THEN "suspend" ELSE k.st[u]
                        /\ k'.err[u] = IF u = c THEN FALSE ELSE k.err[u]
                        /\ pc'[u] = IF u = c THEN "owe" ELSE pc[u]
  BY <1>1, <1>2, <1>4 DEF MutexTypes
<1>7. Believes(k', c, pc'[c], wants'[c], guards'[c])
  <2>1. wants'[c] = None /\ k'.pending[c] = None /\ k'.st[c] = "suspend"
    BY <1>1, <1>4, <1>6, CallerIs
  <2>2. \A n \in Queue : k'.owner[n] = c <=> n \in guards'[c]
    BY <1>1, <1>4, CallerIs
  <2> QED
    BY <2>1, <2>2 DEF Believes
<1>8. ASSUME NEW u \in Thread, u # c PROVE Kept(k, k', u)
  BY <1>4, <1>6, <1>8, KernelAssumption DEF Kept
<1>9. \A t \in Thread : Believes(k', t, pc'[t], wants'[t], guards'[t])
  BY <1>1, <1>6, <1>7, <1>8, AllBelieve
<1>10. popped' = None /\ pc'[k'.cur] # "wait"
  BY <1>1, <1>4, <1>6, CallerIs
<1> QED
  BY <1>4, <1>5, <1>9, <1>10 DEF MutexInv

WithState(x, t, v, a) == [[x EXCEPT !.armed = a] EXCEPT !.st[t] = v]

\* Only the state of t changed, which waits for nothing.
StateSet(x, y, t, v) ==
    /\ Lists(y, {}) /\ y.cur = x.cur /\ y.st = [x.st EXCEPT ![t] = v]
    /\ \A u \in Thread : Kept(x, y, u)

\* Thread::suspend of a ready thread, and a wakeup of one that waits for nothing.
LEMMA SetStateIs ==
    ASSUME NEW x, Lists(x, {}), NEW t \in Thread, ~Awaits(x, t), x.st[t] # "close",
           NEW v \in {"ready", "suspend"}, NEW a \in SUBSET x.armed
    PROVE  StateSet(x, WithState(x, t, v, a), t, v)
<1> DEFINE y == WithState(x, t, v, a)
           x1 == [x EXCEPT !.armed = a]
<1>1. /\ x \in MutexRec /\ Lines(x) /\ Owners(x, {}) /\ Waiting(x)
      /\ x.st \in [Thread -> {"ready", "suspend", "close"}] /\ x.armed \in SUBSET Thread
  BY DEF Lists, MutexRec
<1>2. a \in SUBSET Thread /\ a \subseteq x.armed
  BY <1>1
<1>3. /\ x1 \in MutexRec /\ x1.armed = a
      /\ x1.st = x.st /\ x1.cur = x.cur /\ x1.run = x.run /\ x1.err = x.err
      /\ x1.sleep = x.sleep /\ x1.wq = x.wq /\ x1.prio = x.prio
      /\ x1.owner = x.owner /\ x1.taken = x.taken /\ x1.pending = x.pending
  BY <1>1, <1>2 DEF MutexRec
<1> DEFINE st == [x.st EXCEPT ![t] = v]
<1>4. y = [x1 EXCEPT !.st = st] /\ st \in [Thread -> {"ready", "suspend", "close"}]
  BY <1>1, <1>3 DEF WithState
<1> HIDE DEF x1, st, y
<1>5. /\ y \in MutexRec /\ y.armed = a /\ y.st = st
      /\ y.cur = x.cur /\ y.run = x.run /\ y.err = x.err
      /\ y.sleep = x.sleep /\ y.wq = x.wq /\ y.prio = x.prio
      /\ y.owner = x.owner /\ y.taken = x.taken /\ y.pending = x.pending
  BY <1>3, <1>4 DEF MutexRec
<1>6. \A u \in Thread : y.st[u] = IF u = t THEN v ELSE x.st[u]
  BY <1>1, <1>5 DEF st
<1>7. Lines(y) /\ Owners(y, {})
  BY <1>1, <1>5 DEF Lines, Owners
<1>8. Waiting(y)
  BY <1>1, <1>2, <1>5, <1>6 DEF Waiting, Awaits
<1>9. \A u \in Thread : Kept(x, y, u)
  BY <1>5, <1>6, KernelAssumption DEF Kept
<1> QED
  BY <1>5, <1>7, <1>8, <1>9 DEF StateSet, Lists, st, y

LEMMA PauseKeeps ==
    ASSUME MutexInv, NEW c \in Thread, NEW t \in Thread, Pause(c, t)
    PROVE  MutexInv'
<1>1. /\ Calls(c) /\ t # k.cur /\ k.st[t] = "ready" /\ k' = [k EXCEPT !.st[t] = "suspend"]
      /\ pc' = [pc EXCEPT ![c] = IF ReschedNeeded(k, t) THEN "owe" ELSE "run"]
      /\ wants' = wants /\ guards' = guards /\ popped' = popped
  BY DEF Pause, MaySuspend, Suspended, AfterCall, Goto
<1>2. Lists(k, {}) /\ MutexTypes /\ k \in MutexRec /\ Waiting(k)
  BY InvFacts
<1>3. ~Awaits(k, t)
  BY <1>1, <1>2 DEF Waiting
<1>4. k' = WithState(k, t, "suspend", k.armed)
  BY <1>1, <1>2 DEF MutexRec, WithState
<1>5. Lists(k', {}) /\ k'.cur = k.cur /\ \A u \in Thread : Kept(k, k', u)
  <2> DEFINE v == "suspend"
             a == k.armed
  <2>1. k.st[t] # "close" /\ v \in {"ready", "suspend"} /\ a \in SUBSET k.armed
    BY <1>1
  <2>2. k' = WithState(k, t, v, a)
    BY <1>4
  <2>3. StateSet(k, k', t, v)
    <3> HIDE DEF v, a
    <3> QED
      BY ONLY <1>2, <1>3, <2>1, <2>2, t \in Thread, SetStateIs
  <2> QED
    BY <2>3 DEF StateSet
<1>6. MutexTypes'
  BY <1>1, <1>2 DEF MutexTypes
<1>7. pc'[c] \in {"owe", "run"} /\ \A u \in Thread : u # c => pc'[u] = pc[u]
  BY <1>1, <1>2 DEF MutexTypes
<1>8. Believes(k', c, pc'[c], wants'[c], guards'[c])
  <2>1. wants[c] = None /\ wants[c] \in Queue \cup {None}
    BY <1>1, CallerIs
  <2>2. Believes(k, c, pc[c], wants[c], guards[c])
    BY DEF MutexInv
  <2>3. Believes(k', c, pc[c], wants[c], guards[c])
    BY <1>2, <1>5, <2>1, <2>2, KeptBelieves
  <2> QED
    BY <1>1, <2>1, <2>3 DEF Believes
<1>9. \A u \in Thread : Believes(k', u, pc'[u], wants'[u], guards'[u])
  BY <1>1, <1>5, <1>7, <1>8, AllBelieve
<1>10. popped' = None /\ pc'[k'.cur] # "wait"
  BY <1>1, <1>5, <1>7, CallerIs
<1> QED
  BY <1>5, <1>6, <1>9, <1>10 DEF MutexInv

\* Thread::resume of a thread that waits for nothing.
LEMMA WokenIs ==
    ASSUME MutexInv, NEW t \in Thread, MayResume(k, t), NEW y, y = Wakeup(k, t)
    PROVE  /\ Lists(y, {}) /\ y.cur = k.cur
           /\ \A u \in Thread : /\ Kept(k, y, u) /\ (Unparked(k, u) => Unparked(y, u))
                                /\ k.st[u] = "ready" => y.st[u] = "ready"
<1>1. Lists(k, {}) /\ k \in MutexRec /\ Lines(k) /\ k.st \in [Thread -> {"ready", "suspend", "close"}]
  BY InvFacts
<1>2. k.st[t] = "suspend" /\ ~Awaits(k, t)
  BY <1>1, WaitsIs DEF MayResume
<1>3. y = WithState(k, t, "ready", k.armed \ {t})
  BY <1>1 DEF Wakeup, MutexRec, WithState
<1>4. /\ Lists(y, {}) /\ y.cur = k.cur /\ y.st = [k.st EXCEPT ![t] = "ready"]
      /\ \A u \in Thread : Kept(k, y, u)
  <2> DEFINE v == "ready"
             a == k.armed \ {t}
  <2>1. k.st[t] # "close" /\ v \in {"ready", "suspend"} /\ a \in SUBSET k.armed
    BY <1>2
  <2>2. y = WithState(k, t, v, a)
    BY <1>3
  <2>3. StateSet(k, y, t, v)
    <3> HIDE DEF v, a
    <3> QED
      BY ONLY <1>1, <1>2, <2>1, <2>2, t \in Thread, SetStateIs
  <2> QED
    BY <2>3 DEF StateSet
<1>5. \A u \in Thread : y.st[u] = IF u = t THEN "ready" ELSE k.st[u]
  BY <1>1, <1>4
<1>6. ASSUME NEW u \in Thread, Unparked(k, u) PROVE Unparked(y, u)
  <2>1. CASE u = t
    BY <1>5, <2>1 DEF Unparked
  <2>2. CASE u # t
    BY <1>2, <1>3, <1>5, <1>6, <2>2 DEF Unparked, Awaits, WithState
  <2> QED
    BY <2>1, <2>2
<1> QED
  BY <1>4, <1>5, <1>6

LEMMA ResumeKeeps ==
    ASSUME MutexInv, NEW c \in Thread, NEW t \in Thread, Resume(c, t)
    PROVE  MutexInv'
<1>1. /\ Calls(c) /\ MayResume(k, t) /\ k' = Wakeup(k, t)
      /\ pc' = [pc EXCEPT ![c] = IF ReschedNeeded(k, t) THEN "owe" ELSE "run"]
      /\ wants' = wants /\ guards' = guards /\ popped' = popped
  BY DEF Resume, AfterCall, Goto
<1>2. MutexTypes /\ k \in MutexRec
  BY InvFacts
<1>3. Lists(k', {}) /\ k'.cur = k.cur /\ \A u \in Thread : Kept(k, k', u)
  BY <1>1, WokenIs
<1>4. MutexTypes'
  BY <1>1, <1>2 DEF MutexTypes
<1>5. pc'[c] \in {"owe", "run"} /\ \A u \in Thread : u # c => pc'[u] = pc[u]
  BY <1>1, <1>2 DEF MutexTypes
<1>6. Believes(k', c, pc'[c], wants'[c], guards'[c])
  <2>1. wants[c] = None /\ wants[c] \in Queue \cup {None}
    BY <1>1, CallerIs
  <2>2. Believes(k, c, pc[c], wants[c], guards[c])
    BY DEF MutexInv
  <2>3. Believes(k', c, pc[c], wants[c], guards[c])
    BY <1>2, <1>3, <2>1, <2>2, KeptBelieves
  <2> QED
    BY <1>1, <2>1, <2>3 DEF Believes
<1>7. \A u \in Thread : Believes(k', u, pc'[u], wants'[u], guards'[u])
  BY <1>1, <1>3, <1>5, <1>6, AllBelieve
<1>8. popped' = None /\ pc'[k'.cur] # "wait"
  BY <1>1, <1>3, <1>5, CallerIs
<1> QED
  BY <1>3, <1>4, <1>7, <1>8 DEF MutexInv

LEMMA ResumeInHandlerKeeps ==
    ASSUME MutexInv, NEW t \in Thread, ResumeInHandler(t)
    PROVE  MutexInv'
<1> DEFINE y == Wakeup(k, t)
<1>1. /\ MayResume(k, t) /\ k' \in InHandler(y, ReschedNeeded(k, t))
      /\ pc' = pc /\ wants' = wants /\ guards' = guards /\ popped' = popped
  BY DEF ResumeInHandler
<1>2. MutexTypes /\ k \in MutexRec
  BY InvFacts
<1>3. /\ Lists(y, {}) /\ y.cur = k.cur
      /\ \A u \in Thread : /\ Kept(k, y, u) /\ (Unparked(k, u) => Unparked(y, u))
                           /\ k.st[u] = "ready" => y.st[u] = "ready"
  BY <1>1, WokenIs
<1> HIDE DEF y
<1>4. Switched(y, k') /\ (k'.cur = y.cur \/ y.st[k'.cur] = "ready")
  BY <1>1, <1>3, InHandlerIs DEF Lists
<1>5. /\ Lists(k', {})
      /\ \A u \in Thread : Kept(y, k', u) /\ (Unparked(y, u) => Unparked(k', u))
  BY <1>3, <1>4, SwitchedLists
<1>6. ASSUME NEW u \in Thread PROVE Believes(k', u, pc'[u], wants'[u], guards'[u])
  <2>1. Kept(k, k', u)
    BY <1>3, <1>5, KeptTrans
  <2>2. wants[u] \in Queue \cup {None} /\ Believes(k, u, pc[u], wants[u], guards[u])
    BY <1>2 DEF MutexInv, MutexTypes
  <2>3. Believes(k', u, pc[u], wants[u], guards[u])
    BY <1>2, <2>1, <2>2, KeptBelieves
  <2> QED
    BY <1>1, <2>3
<1>7. pc'[k'.cur] = "wait" => k'.st[k'.cur] = "ready"
  <2>1. k.cur \in Thread /\ k'.st = y.st
    BY <1>2, <1>4 DEF MutexRec, Switched
  <2>2. CASE k'.cur = y.cur
    BY <1>1, <1>3, <2>1, <2>2 DEF MutexInv
  <2>3. CASE y.st[k'.cur] = "ready"
    BY <2>1, <2>3
  <2> QED
    BY <1>4, <2>2, <2>3
<1>8. popped' # None => Unparked(k', popped')
  BY <1>1, <1>2, <1>3, <1>5 DEF MutexInv, MutexTypes
<1>9. MutexTypes'
  BY <1>1, <1>2 DEF MutexTypes
<1> QED
  BY <1>5, <1>6, <1>7, <1>8, <1>9 DEF MutexInv

LEMMA DeleteInHandlerKeeps ==
    ASSUME MutexInv, NEW t \in Thread, DeleteInHandler(t)
    PROVE  MutexInv'
<1> DEFINE y == Deleted(k, t)
<1>1. /\ t # k.cur /\ k' \in InHandler(y, TRUE)
      /\ guards' = [guards EXCEPT ![t] = {}] /\ wants' = [wants EXCEPT ![t] = None]
      /\ pc' = pc /\ popped' = popped
  BY DEF DeleteInHandler, Forget
<1>2. MutexTypes /\ k \in MutexRec /\ Lists(k, {})
  BY InvFacts
<1>3. Settled(k, y, t) /\ \A m \in Queue : y.owner[m] # t
  BY <1>2, ClosedOwnsNothing, DeletedIs
<1> HIDE DEF y
<1>4. Switched(y, k') /\ (k'.cur = y.cur \/ y.st[k'.cur] = "ready")
  BY <1>1, <1>3, InHandlerIs DEF Lists, Settled
<1>5. /\ Lists(k', {})
      /\ \A u \in Thread : Kept(y, k', u) /\ (Unparked(y, u) => Unparked(k', u))
  BY <1>3, <1>4, SwitchedLists DEF Settled
<1>6. /\ guards'[t] = {} /\ wants'[t] = None
      /\ \A u \in Thread : u # t => guards'[u] = guards[u] /\ wants'[u] = wants[u]
  BY <1>1, <1>2 DEF MutexTypes
<1>7. ASSUME NEW u \in Thread PROVE Believes(k', u, pc'[u], wants'[u], guards'[u])
  <2>1. CASE u = t
    <3>1. k'.pending[t] = None /\ \A m \in Queue : k'.owner[m] # t
      BY <1>3, <1>4 DEF Settled, Switched
    <3> QED
      BY <1>6, <2>1, <3>1, GoneBelieves
  <2>2. CASE u # t
    <3>1. Kept(k, k', u)
      BY <1>3, <1>5, <2>2, KeptTrans DEF Settled
    <3>2. wants[u] \in Queue \cup {None} /\ Believes(k, u, pc[u], wants[u], guards[u])
      BY <1>2 DEF MutexInv, MutexTypes
    <3>3. Believes(k', u, pc[u], wants[u], guards[u])
      BY <1>2, <3>1, <3>2, KeptBelieves
    <3> QED
      BY <1>1, <1>6, <2>2, <3>3
  <2> QED
    BY <2>1, <2>2
<1>8. pc'[k'.cur] = "wait" => k'.st[k'.cur] = "ready"
  <2>1. k.cur \in Thread /\ k'.st = y.st
    BY <1>2, <1>4 DEF MutexRec, Switched
  <2>2. CASE k'.cur = y.cur
    BY <1>1, <1>3, <2>1, <2>2 DEF MutexInv, Settled
  <2>3. CASE y.st[k'.cur] = "ready"
    BY <2>1, <2>3
  <2> QED
    BY <1>4, <2>2, <2>3
<1>9. popped' # None => Unparked(k', popped')
  BY <1>1, <1>2, <1>3, <1>5 DEF MutexInv, MutexTypes, Settled
<1>10. MutexTypes'
  BY <1>1, <1>2 DEF MutexTypes
<1> QED
  BY <1>5, <1>7, <1>8, <1>9, <1>10 DEF MutexInv

LEMMA TimerPopKeeps ==
    ASSUME MutexInv, NEW t \in Thread, TimerPop(t)
    PROVE  MutexInv'
<1>1. /\ popped = None /\ t \in k.armed /\ popped' = t /\ k' = [k EXCEPT !.armed = @ \ {t}]
      /\ pc' = pc /\ wants' = wants /\ guards' = guards
  BY DEF TimerPop
<1>2. /\ Lists(k, {}) /\ k \in MutexRec /\ Lines(k) /\ Owners(k, {}) /\ Waiting(k)
      /\ MutexTypes
  BY InvFacts
<1>3. /\ k' \in MutexRec /\ k'.armed = k.armed \ {t}
      /\ k'.st = k.st /\ k'.cur = k.cur /\ k'.run = k.run /\ k'.err = k.err
      /\ k'.sleep = k.sleep /\ k'.wq = k.wq /\ k'.prio = k.prio
      /\ k'.owner = k.owner /\ k'.taken = k.taken /\ k'.pending = k.pending
  BY <1>1, <1>2 DEF MutexRec
<1>4. Lists(k', {})
  BY <1>2, <1>3 DEF Lists, Lines, Owners, Waiting, Awaits
<1>5. \A u \in Thread : Kept(k, k', u)
  BY <1>3, KernelAssumption DEF Kept
<1>6. ASSUME NEW u \in Thread PROVE Believes(k', u, pc'[u], wants'[u], guards'[u])
  <2>1. wants[u] \in Queue \cup {None} /\ Believes(k, u, pc[u], wants[u], guards[u])
    BY <1>2 DEF MutexInv, MutexTypes
  <2>2. Believes(k', u, pc[u], wants[u], guards[u])
    BY <1>2, <1>5, <2>1, KeptBelieves
  <2> QED
    BY <1>1, <2>2
<1>7. Unparked(k', popped')
  BY <1>1, <1>2, <1>3 DEF Waiting, Unparked, Awaits
<1>8. MutexTypes'
  BY <1>1, <1>2 DEF MutexTypes
<1>9. pc'[k'.cur] = "wait" => k'.st[k'.cur] = "ready"
  BY <1>1, <1>3 DEF MutexInv
<1> QED
  BY <1>4, <1>6, <1>7, <1>8, <1>9 DEF MutexInv

LEMMA TimerCallbackKeeps ==
    ASSUME MutexInv, TimerCallback
    PROVE  MutexInv'
<1> DEFINE t == popped
           y == WaitTimedOut(k, t)
<1>1. /\ t # None /\ popped' = None /\ pc' = pc /\ wants' = wants /\ guards' = guards
  BY DEF TimerCallback
<1>2. /\ MutexTypes /\ k \in MutexRec /\ Lists(k, {}) /\ t \in Thread
  BY <1>1, InvFacts DEF MutexTypes
<1>3. MutexTypes'
  BY <1>1, <1>2, KernelAssumption DEF MutexTypes
<1>4. CASE k.st[t] # "suspend"
  <2>1. k' = k
    BY <1>4 DEF TimerCallback
  <2> QED
    BY <1>1, <1>3, <2>1 DEF MutexInv
<1>5. CASE k.st[t] = "suspend"
  <2>1. k' \in InHandler(y, ReschedNeeded(y, t))
    BY <1>5 DEF TimerCallback
  <2>2. /\ Lists(y, {}) /\ y.cur = k.cur
        /\ y.pending[t] = None /\ t \notin y.sleep /\ y.err[t] /\ y.st[t] = "ready"
        /\ y.owner = k.owner
        /\ \A u \in Thread : /\ u # t => Kept(k, y, u)
                             /\ u # t /\ k.st[u] = "ready" => y.st[u] = "ready"
    BY <1>2, TimedOutIs
  <2> HIDE DEF y
  <2>3. Switched(y, k') /\ (k'.cur = y.cur \/ y.st[k'.cur] = "ready")
    BY <2>1, <2>2, InHandlerIs DEF Lists
  <2>4. Lists(k', {}) /\ \A u \in Thread : Kept(y, k', u)
    BY <2>2, <2>3, SwitchedLists
  <2>5. ASSUME NEW u \in Thread PROVE Believes(k', u, pc'[u], wants'[u], guards'[u])
    <3>1. wants[u] \in Queue \cup {None} /\ Believes(k, u, pc[u], wants[u], guards[u])
      BY <1>2 DEF MutexInv, MutexTypes
    <3>2. CASE u = t
      <4>1. /\ k'.pending[t] = None /\ t \notin k'.sleep /\ k'.err[t] /\ k'.st[t] = "ready"
            /\ \A m \in Queue : k'.owner[m] = t => k.owner[m] = t
        BY <2>2, <2>3 DEF Switched
      <4>2. Awaits(k, t)
        BY <1>1, <1>5 DEF MutexInv, Unparked
      <4>3. \A m \in Queue : k.owner[m] = t => m \in guards[t]
        BY <3>1, <3>2, <4>2, KernelAssumption DEF Believes, Awaits
      <4>4. \A m \in guards[t] \cap Queue : k'.owner[m] = t
        <5>1. \A m \in guards[t] \cap Queue : k.owner[m] = t
          BY <3>1, <3>2 DEF Believes
        <5> QED
          BY <2>2, <2>3, <5>1 DEF Switched
      <4> QED
        BY <1>1, <3>1, <3>2, <4>1, <4>3, <4>4 DEF Believes
    <3>3. CASE u # t
      <4>1. Kept(k, k', u)
        BY <2>2, <2>4, <3>3, KeptTrans
      <4>2. Believes(k', u, pc[u], wants[u], guards[u])
        BY <1>2, <3>1, <4>1, KeptBelieves
      <4> QED
        BY <1>1, <4>2
    <3> QED
      BY <3>2, <3>3
  <2>6. pc'[k'.cur] = "wait" => k'.st[k'.cur] = "ready"
    <3>1. k.cur \in Thread /\ k'.st = y.st
      BY <1>2, <2>3 DEF MutexRec, Switched
    <3>2. CASE k'.cur = y.cur
      BY <1>1, <2>2, <3>1, <3>2 DEF MutexInv
    <3>3. CASE y.st[k'.cur] = "ready"
      BY <3>1, <3>3
    <3> QED
      BY <2>3, <3>2, <3>3
  <2> QED
    BY <1>1, <1>3, <2>4, <2>5, <2>6 DEF MutexInv
<1> QED
  BY <1>4, <1>5

LEMMA PendSVKeeps ==
    ASSUME MutexInv, PendSV
    PROVE  MutexInv'
<1>1. /\ k' = [k EXCEPT !.run = k.cur]
      /\ pc' = pc /\ wants' = wants /\ guards' = guards /\ popped' = popped
  BY DEF PendSV, Dispatched
<1>2. MutexTypes /\ k \in MutexRec /\ Lists(k, {})
  BY InvFacts
<1>3. Switched(k, k') /\ k'.cur = k.cur
  BY <1>1, <1>2 DEF MutexRec, Switched
<1>4. /\ Lists(k', {})
      /\ \A u \in Thread : Kept(k, k', u) /\ (Unparked(k, u) => Unparked(k', u))
  BY <1>2, <1>3, SwitchedLists
<1>5. ASSUME NEW u \in Thread PROVE Believes(k', u, pc'[u], wants'[u], guards'[u])
  <2>1. wants[u] \in Queue \cup {None} /\ Believes(k, u, pc[u], wants[u], guards[u])
    BY <1>2 DEF MutexInv, MutexTypes
  <2>2. Believes(k', u, pc[u], wants[u], guards[u])
    BY <1>2, <1>4, <2>1, KeptBelieves
  <2> QED
    BY <1>1, <2>2
<1>6. popped' # None => Unparked(k', popped')
  BY <1>1, <1>2, <1>4 DEF MutexInv, MutexTypes
<1>7. pc'[k'.cur] = "wait" => k'.st[k'.cur] = "ready"
  BY <1>1, <1>3 DEF MutexInv, Switched
<1>8. MutexTypes'
  BY <1>1, <1>2 DEF MutexTypes
<1> QED
  BY <1>4, <1>5, <1>6, <1>7, <1>8 DEF MutexInv

LEMMA NextKeeps == MutexInv /\ [Next]_vars => MutexInv'
<1> SUFFICES ASSUME MutexInv, [Next]_vars PROVE MutexInv'
  OBVIOUS
<1>1. ASSUME NEW c \in Thread, ThreadNext(c) PROVE MutexInv'
  <2>1. ASSUME NEW m \in Mutexes,
               LockFree(c, m) \/ DropGuard(c, m) \/ \E timed \in BOOLEAN : LockBlock(c, m, timed)
        PROVE  MutexInv'
    BY <2>1, LockFreeKeeps, DropGuardKeeps, LockBlockKeeps DEF Mutexes
  <2>2. ASSUME NEW t \in Thread, Delete(c, t) \/ Pause(c, t) \/ Resume(c, t)
        PROVE  MutexInv'
    BY <2>2, DeleteKeeps, PauseKeeps, ResumeKeeps
  <2> QED
    BY <1>1, <2>1, <2>2, CallScheduleKeeps, LockReturnKeeps, SleepKeeps DEF ThreadNext
<1>2. CASE HandlerNext
  BY <1>2, TimerCallbackKeeps, TimerPopKeeps, DeleteInHandlerKeeps, ResumeInHandlerKeeps
     DEF HandlerNext
<1>3. CASE UNCHANGED vars
  BY <1>3 DEF vars, MutexInv, MutexTypes
<1> QED
  BY <1>1, <1>2, <1>3, PendSVKeeps DEF Next

LEMMA InvHolds == Spec => []MutexInv
  BY InitKeeps, NextKeeps, PTL DEF Spec

-----------------------------------------------------------------------------
(* The theorems.                                                           *)

\* A mutex has a guard at most once, and only its owner has it; and a mutex that is owned
\* has a guard, or its owner is about to return from lock() with one: whatever the order
\* of locks, drops, timeouts, deletions and hand-overs.
THEOREM GuardSafe == Spec => []GuardExclusive
<1>1. MutexInv => GuardExclusive
  <2> SUFFICES ASSUME MutexInv PROVE GuardExclusive
    OBVIOUS
  <2>1. \A t \in Thread : Believes(k, t, pc[t], wants[t], guards[t])
    BY DEF MutexInv
  <2>2. /\ MutexTypes /\ k \in MutexRec /\ Lines(k)
        /\ k.owner \in [Queue -> Thread \cup {None}]
    BY InvFacts
  <2>3. \A m \in Queue, t \in Thread : m \in guards[t] => k.owner[m] = t
    BY <2>1 DEF Believes
  <2>4. ASSUME NEW m \in Queue, k.owner[m] # None
        PROVE  m \in guards[k.owner[m]] \/ Acquiring(k.owner[m], m)
    <3> DEFINE t == k.owner[m]
    <3>1. t \in Thread
      BY <2>2, <2>4
    <3> HIDE DEF t
    <3>2. Believes(k, t, pc[t], wants[t], guards[t])
      BY <2>1, <3>1
    <3>3. SUFFICES ASSUME m \notin guards[t] PROVE Acquiring(t, m)
      BY DEF t
    <3>4. wants[t] = m /\ k.pending[t] = None /\ ~k.err[t]
      BY <3>2, <3>3 DEF Believes, t
    <3>5. t \notin k.sleep /\ pc[t] \notin {"run", "owe"}
      BY <3>2, <3>4, KernelAssumption DEF Believes
    <3>6. pc[t] \in {"block", "wait"}
      BY <2>2, <3>1, <3>5 DEF MutexTypes
    <3>7. ~Waits(k, t)
      BY <2>2, <3>1, <3>4, <3>5, WaitsIs DEF Awaits
    <3> QED
      BY <3>4, <3>6, <3>7 DEF Acquiring
  <2> QED
    BY <2>3, <2>4 DEF GuardExclusive, OwnedHasGuard, Mutexes
<1> QED
  BY <1>1, InvHolds, PTL

\* Every wait queue is in the order of the priorities its threads have now; and the
\* queues, pending_mutex, the owners and the lists of taken mutexes agree, so that no
\* waiter is lost, no mutex is left behind by a dead thread, and none that is free has
\* waiters.
THEOREM QueuesSafe == Spec => []QueuesSorted
<1>1. MutexInv => QueuesSorted
  <2> SUFFICES ASSUME MutexInv PROVE QueuesSorted
    OBVIOUS
  <2>1. /\ k \in MutexRec /\ Lines(k) /\ Owners(k, {}) /\ Waiting(k)
        /\ k.wq \in [Queue -> Seq(Thread)]
    BY InvFacts DEF MutexRec
  <2>2. \A m \in Queue : \A i, j \in DOMAIN k.wq[m] :
          i < j => k.prio[k.wq[m][i]] <= k.prio[k.wq[m][j]]
    BY <2>1 DEF Lines, Ordered
  <2>3. \A m \in Queue, t \in Thread :
          /\ k.owner[m] = t <=> m \in ToSet(k.taken[t])
          /\ k.pending[t] = m <=> t \in ToSet(k.wq[m])
          /\ k.st[t] = "close" => k.owner[m] # t /\ k.pending[t] # m
    BY <2>1, ClosedOwnsNothing, KernelAssumption DEF Owners, Lines
  <2>4. \A t \in Thread : IsInjective(k.taken[t])
    BY <2>1 DEF Owners
  <2>5. ASSUME NEW m \in Queue, k.owner[m] = None PROVE k.wq[m] = <<>>
    <3>1. SUFFICES ASSUME k.wq[m] # <<>> PROVE FALSE
      OBVIOUS
    <3>2. Head(k.wq[m]) \in Thread /\ Head(k.wq[m]) \in ToSet(k.wq[m])
      BY <2>1, <3>1, PopQueue
    <3>3. k.pending[Head(k.wq[m])] = m
      BY <2>3, <3>2
    <3> QED
      BY <2>1, <2>5, <3>2, <3>3, KernelAssumption DEF Owners
  <2>6. WaitersSound(k)
    <3>1. \A m \in Queue : \A t \in ToSet(k.wq[m]) : t \in Thread /\ k.pending[t] = m
      <4>1. ASSUME NEW m \in Queue, NEW t \in ToSet(k.wq[m])
            PROVE  t \in Thread /\ k.pending[t] = m
        <5>1. k.wq[m] \in Seq(Thread)
          BY <2>1
        <5>2. t \in Thread
          BY <5>1 DEF ToSet
        <5> QED
          BY <2>3, <5>2
      <4> QED
        BY <4>1
    <3>2. \A t \in Thread : Waits(k, t) <=> Awaits(k, t)
      BY <2>1, WaitsIs
    <3>3. \A m \in Queue : IsInjective(k.wq[m])
      BY <2>1 DEF Lines
    <3>4. \A m \in Queue : ToSet(k.wq[m]) \cap k.sleep = {}
      <4>1. ASSUME NEW m \in Queue, NEW t \in ToSet(k.wq[m]) PROVE t \notin k.sleep
        <5>1. t \in Thread /\ k.pending[t] # None
          BY <3>1, KernelAssumption
        <5> QED
          BY <2>1, <5>1 DEF Waiting
      <4> QED
        BY <4>1
    <3>5. \A m, n \in Queue : m # n => ToSet(k.wq[m]) \cap ToSet(k.wq[n]) = {}
      BY <3>1
    <3>6. /\ \A t \in Thread : Waits(k, t) => k.st[t] = "suspend"
          /\ \A t \in k.armed : Waits(k, t)
      BY <2>1, <3>2 DEF Waiting, MutexRec
    <3> QED
      BY <3>3, <3>4, <3>5, <3>6 DEF WaitersSound
  <2> QED
    BY <2>2, <2>3, <2>4, <2>5, <2>6 DEF QueuesSorted, ListsAgree, Mutexes
<1> QED
  BY <1>1, InvHolds, PTL

=============================================================================
