---------------------------- MODULE QueueLemmas ----------------------------
(* Facts about the intrusive FIFO queues of the kernel, modelled as        *)
(* sequences without duplicates: appending, unlinking and popping; and     *)
(* about indices that wrap around.                                         *)
EXTENDS Integers, Sequences, SequencesExt, SequenceTheorems,
        WellFoundedInduction, TLAPS

\* Every non-empty set of naturals has a least element (the CHOOSE of the highest
\* ready priority, and of the position of a node, is well defined).
LEMMA LeastElement ==
    ASSUME NEW I \in SUBSET Nat, I # {}
    PROVE  \E m \in I : \A n \in I : m <= n
<1> DEFINE R == {ss \in Nat \X Nat : ss[1] < ss[2]}
<1>1. IsWellFoundedOn(R, Nat)
  BY Zenon, NatLessThanWellFounded DEF OpToRel
<1>2. \E m \in I : \A n \in I : <<n, m>> \notin R
  BY <1>1, WFMin
<1>3. PICK m \in I : \A n \in I : <<n, m>> \notin R
  BY <1>2
<1>4. ASSUME NEW n \in I PROVE m <= n
  <2>1. n \in Nat /\ m \in Nat /\ ~ (n < m)
    BY <1>3
  <2> QED
    BY <2>1
<1> QED
  BY <1>4

\* A remainder, of what is at most once around on either side.
LEMMA Remainder ==
    ASSUME NEW m \in Nat, m > 0, NEW a \in Int, 0 - m <= a, a < 2 * m
    PROVE  a % m = IF a < 0 THEN a + m ELSE IF a < m THEN a ELSE a - m
<1>1. PICK q \in Int : q = a \div m
  OBVIOUS
<1>2. PICK r \in Nat : r = a % m /\ r < m
  OBVIOUS
<1>3. a = q * m + r
  BY <1>1, <1>2, SMTT(30)
<1>4. q >= -1 /\ q < 2
  <2>1. \A z \in Int : z <= -2 => z * m <= 0 - m - m
    OBVIOUS
  <2>2. \A z \in Int : z >= 2 => z * m >= 2 * m
    OBVIOUS
  <2> QED
    BY <1>2, <1>3, <2>1, <2>2
<1>5. q = -1 \/ q = 0 \/ q = 1
  BY <1>4
<1>6. CASE q = -1
  BY <1>2, <1>3, <1>6
<1>7. CASE q = 0
  BY <1>2, <1>3, <1>7
<1>8. CASE q = 1
  BY <1>2, <1>3, <1>8
<1> QED
  BY <1>5, <1>6, <1>7, <1>8

\* The code adds a node that is linked nowhere at the tail (push_back): the queue
\* gains exactly that member and stays free of duplicates.
LEMMA AppendQueue ==
    ASSUME NEW S, NEW q \in Seq(S), NEW x \in S
    PROVE  /\ Append(q, x) \in Seq(S)
           /\ Append(q, x) # <<>>
           /\ ToSet(Append(q, x)) = ToSet(q) \cup {x}
           /\ x \notin ToSet(q) /\ IsInjective(q) => IsInjective(Append(q, x))
<1> DEFINE r == Append(q, x)
<1>1. /\ r \in Seq(S)
      /\ Len(r) = Len(q) + 1
      /\ DOMAIN r = 1 .. Len(q) + 1
      /\ DOMAIN q = 1 .. Len(q)
      /\ Len(q) \in Nat
      /\ \A i \in 1 .. Len(q) : r[i] = q[i]
      /\ r[Len(q) + 1] = x
  OBVIOUS
<1>2. r # <<>>
  BY <1>1
<1>3. ToSet(r) = ToSet(q) \cup {x}
  <2>1. ASSUME NEW e \in ToSet(r) PROVE e \in ToSet(q) \cup {x}
    BY <1>1, <2>1 DEF ToSet
  <2>2. ASSUME NEW e \in ToSet(q) \cup {x} PROVE e \in ToSet(r)
    <3>1. CASE e = x
      <4>1. Len(q) + 1 \in DOMAIN r
        BY <1>1
      <4> QED
        BY <1>1, <3>1, <4>1 DEF ToSet
    <3>2. CASE e \in ToSet(q)
      <4>1. PICK i \in DOMAIN q : q[i] = e
        BY <3>2 DEF ToSet
      <4>2. i \in DOMAIN r /\ r[i] = e
        BY <1>1, <4>1
      <4> QED
        BY <4>2 DEF ToSet
    <3> QED
      BY <2>2, <3>1, <3>2
  <2> QED
    BY <2>1, <2>2
<1>4. ASSUME x \notin ToSet(q), IsInjective(q) PROVE IsInjective(r)
  <2>1. \A i \in 1 .. Len(q) : q[i] # x
    BY <1>1, <1>4 DEF ToSet
  <2>2. ASSUME NEW i \in DOMAIN r, NEW j \in DOMAIN r, r[i] = r[j] PROVE i = j
    <3>1. CASE i \in 1 .. Len(q) /\ j \in 1 .. Len(q)
      BY <1>1, <1>4, <2>2, <3>1 DEF IsInjective
    <3>2. CASE i = Len(q) + 1 \/ j = Len(q) + 1
      BY <1>1, <2>1, <2>2, <3>2
    <3> QED
      BY <1>1, <3>1, <3>2
  <2> QED
    BY <2>2 DEF IsInjective
<1> QED
  BY <1>1, <1>2, <1>3, <1>4

\* Removing a node moves those behind it up by one.
LEMMA RemoveShifts ==
    ASSUME NEW S, NEW q \in Seq(S), NEW x, x \in ToSet(q)
    PROVE  \E k \in 1 .. Len(q) :
             LET r == RemoveFirst(q, x)
             IN  /\ q[k] = x
                 /\ r \in Seq(S) /\ Len(r) = Len(q) - 1 /\ DOMAIN r = 1 .. Len(q) - 1
                 /\ \A i \in 1 .. Len(q) - 1 : r[i] = IF i < k THEN q[i] ELSE q[i + 1]
<1>1. DOMAIN q = 1 .. Len(q) /\ Len(q) \in Nat
  OBVIOUS
<1>2. \E i \in 1 .. Len(q) : q[i] = x
  BY <1>1 DEF ToSet
<1> DEFINE k == SelectInSeq(q, LAMBDA v : v = x)
           r == RemoveAt(q, k)
<1>3. k \in 1 .. Len(q) /\ q[k] = x
  <2> DEFINE I == {i \in 1 .. Len(q) : q[i] = x}
  <2>1. I \in SUBSET Nat /\ I # {}
    BY <1>2
  <2>2. k = Min(I)
    BY <2>1 DEF SelectInSeq
  <2>3. k \in I
    BY <2>1, <2>2, LeastElement DEF Min
  <2> QED
    BY <2>3
<1>4. RemoveFirst(q, x) = r
  BY <1>2 DEF RemoveFirst
<1> HIDE DEF k
<1>5. /\ r \in Seq(S)
      /\ Len(r) = Len(q) - 1
      /\ DOMAIN r = 1 .. Len(q) - 1
      /\ \A i \in 1 .. Len(q) - 1 : r[i] = IF i < k THEN q[i] ELSE q[i + 1]
  <2> DEFINE s == SubSeq(q, 1, k - 1)
             t == SubSeq(q, k + 1, Len(q))
  <2>1. s \in Seq(S) /\ Len(s) = k - 1 /\ \A i \in 1 .. k - 1 : s[i] = q[i]
    BY <1>3
  <2>2. /\ t \in Seq(S)
        /\ Len(t) = Len(q) - k
        /\ \A i \in 1 .. Len(q) - k : t[i] = q[k + i]
    <3>1. k + 1 \in 1 .. Len(q) + 1 /\ Len(q) - (k + 1) + 1 = Len(q) - k
      BY <1>1, <1>3
    <3>2. /\ t \in Seq(S)
          /\ Len(t) = IF k + 1 <= Len(q) THEN Len(q) - (k + 1) + 1 ELSE 0
          /\ \A i \in 1 .. Len(q) - (k + 1) + 1 : t[i] = q[k + 1 + i - 1]
      BY <1>1, <1>3, <3>1, SubSeqProperties
    <3>3. \A i \in 1 .. Len(q) - k : k + 1 + i - 1 = k + i
      BY <1>1, <1>3
    <3> HIDE DEF t
    <3>4. Len(t) = Len(q) - k
      <4>1. CASE k + 1 <= Len(q)
        BY <3>1, <3>2, <4>1
      <4>2. CASE ~ (k + 1 <= Len(q))
        <5>1. Len(t) = 0
          BY <3>2, <4>2
        <5>2. \A n, m \in Int : m <= n /\ ~ (m + 1 <= n) => n - m = 0
          OBVIOUS
        <5>3. k \in Int /\ Len(q) \in Int /\ k <= Len(q)
          BY <1>1, <1>3
        <5>4. Len(q) - k = 0
          BY <4>2, <5>2, <5>3
        <5> QED
          BY <5>1, <5>4
      <4> QED
        BY <4>1, <4>2
    <3>5. \A i \in 1 .. Len(q) - k : t[i] = q[k + i]
      BY <1>1, <1>3, <3>1, <3>2, <3>3
    <3> QED
      BY <3>2, <3>4, <3>5
  <2> HIDE DEF s, t
  <2>3. r = s \o t
    BY DEF RemoveAt, s, t
  <2> HIDE DEF r
  <2>4. r \in Seq(S) /\ Len(r) = Len(q) - 1 /\ DOMAIN r = 1 .. Len(q) - 1
    <3>1. r \in Seq(S) /\ Len(r) = Len(s) + Len(t)
      BY <2>1, <2>2, <2>3, ConcatProperties
    <3>2. Len(r) = Len(q) - 1
      BY <1>1, <1>3, <2>1, <2>2, <3>1
    <3>3. DOMAIN r = 1 .. Len(r)
      BY <3>1, LenProperties
    <3> QED
      BY <3>1, <3>2, <3>3
  <2>5. \A i \in 1 .. Len(q) - 1 : r[i] = IF i <= Len(s) THEN s[i] ELSE t[i - Len(s)]
    BY <1>1, <1>3, <2>1, <2>2, <2>3, ConcatProperties
  <2>6. ASSUME NEW i \in 1 .. Len(q) - 1
        PROVE  r[i] = IF i < k THEN q[i] ELSE q[i + 1]
    <3>1. CASE i < k
      BY <1>1, <1>3, <2>1, <2>5, <3>1
    <3>2. CASE ~ (i < k)
      <4>1. i - Len(s) \in 1 .. Len(q) - k /\ ~ (i <= Len(s)) /\ k + (i - Len(s)) = i + 1
        BY <1>1, <1>3, <2>1, <3>2
      <4>2. r[i] = t[i - Len(s)]
        BY <2>5, <4>1
      <4> QED
        BY <2>2, <3>2, <4>1, <4>2
    <3> QED
      BY <3>1, <3>2
  <2> QED
    BY <2>4, <2>6
<1> HIDE DEF r
<1> QED
  BY <1>3, <1>4, <1>5

\* Removing a node (remove) takes out that node and keeps the others, in order.
LEMMA RemoveQueue ==
    ASSUME NEW S, NEW q \in Seq(S), NEW x
    PROVE  /\ RemoveFirst(q, x) \in Seq(S)
           /\ IsInjective(q) => /\ IsInjective(RemoveFirst(q, x))
                                /\ ToSet(RemoveFirst(q, x)) = ToSet(q) \ {x}
<1>0. DOMAIN q = 1 .. Len(q) /\ Len(q) \in Nat
  OBVIOUS
<1>1. CASE ~ \E i \in 1 .. Len(q) : q[i] = x
  <2>1. RemoveFirst(q, x) = q
    BY <1>1 DEF RemoveFirst
  <2>2. x \notin ToSet(q)
    BY <1>0, <1>1 DEF ToSet
  <2> QED
    BY <2>1, <2>2
<1>2. CASE \E i \in 1 .. Len(q) : q[i] = x
  <2> DEFINE r == RemoveFirst(q, x)
  <2>1. x \in ToSet(q)
    BY <1>0, <1>2 DEF ToSet
  <2>2. PICK k \in 1 .. Len(q) :
          /\ q[k] = x
          /\ r \in Seq(S) /\ Len(r) = Len(q) - 1 /\ DOMAIN r = 1 .. Len(q) - 1
          /\ \A i \in 1 .. Len(q) - 1 : r[i] = IF i < k THEN q[i] ELSE q[i + 1]
    BY <2>1, RemoveShifts
  <2>3. r \in Seq(S)
    BY <2>2
  <2> HIDE DEF r
  <2>4. ASSUME IsInjective(q) PROVE IsInjective(r)
    <3>1. ASSUME NEW i \in DOMAIN r, NEW j \in DOMAIN r, r[i] = r[j] PROVE i = j
      <4> DEFINE ii == IF i < k THEN i ELSE i + 1
                 jj == IF j < k THEN j ELSE j + 1
      <4>1. ii \in 1 .. Len(q) /\ jj \in 1 .. Len(q) /\ r[i] = q[ii] /\ r[j] = q[jj]
        BY <1>0, <2>2
      <4>2. ii = jj
        BY <1>0, <2>4, <3>1, <4>1 DEF IsInjective
      <4> QED
        BY <1>0, <2>2, <4>2
    <3> QED
      BY <3>1 DEF IsInjective
  <2>5. ASSUME IsInjective(q) PROVE ToSet(r) = ToSet(q) \ {x}
    <3>1. ASSUME NEW e \in ToSet(r) PROVE e \in ToSet(q) \ {x}
      <4>1. PICK i \in 1 .. Len(q) - 1 : e = r[i]
        BY <2>2, <3>1 DEF ToSet
      <4> DEFINE ii == IF i < k THEN i ELSE i + 1
      <4>2. ii \in 1 .. Len(q) /\ ii # k /\ e = q[ii]
        BY <1>0, <2>2, <4>1
      <4>3. q[ii] # q[k]
        BY <1>0, <2>2, <2>5, <4>2 DEF IsInjective
      <4> QED
        BY <1>0, <2>2, <4>2, <4>3 DEF ToSet
    <3>2. ASSUME NEW e \in ToSet(q) \ {x} PROVE e \in ToSet(r)
      <4>1. PICK i \in 1 .. Len(q) : e = q[i]
        BY <1>0, <3>2 DEF ToSet
      <4>2. i # k
        BY <2>2, <3>2, <4>1
      <4> DEFINE ii == IF i < k THEN i ELSE i - 1
      <4>3. ii \in DOMAIN r /\ r[ii] = e
        BY <1>0, <2>2, <4>1, <4>2
      <4> QED
        BY <4>3 DEF ToSet
    <3> QED
      BY <3>1, <3>2
  <2> QED
    BY <2>3, <2>4, <2>5 DEF r
<1> QED
  BY <1>1, <1>2

\* Putting a member in front.
LEMMA ConsQueue ==
    ASSUME NEW S, NEW q \in Seq(S), NEW x \in S
    PROVE  LET r == <<x>> \o q
           IN  /\ r \in Seq(S) /\ Len(r) = Len(q) + 1
               /\ \A i \in 1 .. Len(q) + 1 : r[i] = IF i = 1 THEN x ELSE q[i - 1]
               /\ ToSet(r) = ToSet(q) \cup {x}
               /\ IsInjective(q) /\ x \notin ToSet(q) => IsInjective(r)
<1> DEFINE r == <<x>> \o q
<1>1. Len(q) \in Nat /\ DOMAIN q = 1 .. Len(q) /\ \A i \in DOMAIN q : q[i] \in ToSet(q)
  BY DEF ToSet
<1>2. /\ r \in Seq(S) /\ Len(r) = Len(q) + 1 /\ DOMAIN r = 1 .. Len(q) + 1
      /\ \A i \in 1 .. Len(q) + 1 : r[i] = IF i = 1 THEN x ELSE q[i - 1]
  <2>1. <<x>> \in Seq(S) /\ Len(<<x>>) = 1 /\ <<x>>[1] = x
    OBVIOUS
  <2>2. /\ r \in Seq(S) /\ Len(r) = 1 + Len(q)
        /\ \A i \in 1 .. 1 + Len(q) : r[i] = IF i <= 1 THEN <<x>>[i] ELSE q[i - 1]
    BY <2>1, ConcatProperties
  <2> HIDE DEF r
  <2>3. Len(r) = Len(q) + 1 /\ DOMAIN r = 1 .. Len(r)
    BY <1>1, <2>2
  <2> QED
    BY <1>1, <2>1, <2>2, <2>3
<1> HIDE DEF r
<1>3. ToSet(r) = ToSet(q) \cup {x}
  <2>1. ASSUME NEW y \in ToSet(r) PROVE y \in ToSet(q) \cup {x}
    <3>1. PICK i \in 1 .. Len(q) + 1 : r[i] = y
      BY <1>2, <2>1 DEF ToSet
    <3>2. i = 1 \/ i - 1 \in DOMAIN q
      BY <1>1
    <3> QED
      BY <1>1, <1>2, <3>1, <3>2
  <2>2. x \in ToSet(r)
    <3>1. 1 \in DOMAIN r /\ r[1] = x
      BY <1>1, <1>2
    <3> QED
      BY <3>1 DEF ToSet
  <2>3. ASSUME NEW y \in ToSet(q) PROVE y \in ToSet(r)
    <3>1. PICK i \in DOMAIN q : q[i] = y
      BY <2>3 DEF ToSet
    <3>2. i + 1 \in DOMAIN r /\ i + 1 # 1 /\ (i + 1) - 1 = i
      BY <1>1, <1>2
    <3>3. r[i + 1] = y
      BY <1>2, <3>1, <3>2
    <3> QED
      BY <3>2, <3>3 DEF ToSet
  <2> QED
    BY <2>1, <2>2, <2>3
<1>4. ASSUME IsInjective(q), x \notin ToSet(q) PROVE IsInjective(r)
  <2>1. ASSUME NEW i \in DOMAIN r, NEW j \in DOMAIN r, r[i] = r[j] PROVE i = j
    <3>1. /\ i \in 1 .. Len(q) + 1 /\ j \in 1 .. Len(q) + 1
          /\ i # 1 => i - 1 \in DOMAIN q /\ r[i] = q[i - 1]
          /\ j # 1 => j - 1 \in DOMAIN q /\ r[j] = q[j - 1]
          /\ i = 1 => r[i] = x
          /\ j = 1 => r[j] = x
      BY <1>1, <1>2
    <3>2. CASE i = 1 \/ j = 1
      BY <1>1, <1>4, <2>1, <3>1, <3>2
    <3>3. CASE i # 1 /\ j # 1
      <4>1. i - 1 = j - 1
        BY <1>4, <2>1, <3>1, <3>3 DEF IsInjective
      <4> QED
        BY <3>1, <4>1
    <3> QED
      BY <3>2, <3>3
  <2> QED
    BY <2>1 DEF IsInjective
<1> QED
  BY <1>2, <1>3, <1>4 DEF r

\* Popping takes out the head and nobody else.
LEMMA PopQueue ==
    ASSUME NEW S, NEW q \in Seq(S), q # <<>>
    PROVE  /\ Head(q) \in S /\ Head(q) \in ToSet(q)
           /\ Tail(q) \in Seq(S)
           /\ IsInjective(q) => IsInjective(Tail(q)) /\ ToSet(Tail(q)) = ToSet(q) \ {Head(q)}
<1>1. /\ Len(q) \in Nat \ {0} /\ DOMAIN q = 1 .. Len(q)
      /\ Head(q) = q[1] /\ Tail(q) \in Seq(S)
      /\ DOMAIN Tail(q) = 1 .. Len(q) - 1
      /\ \A i \in 1 .. Len(q) - 1 : Tail(q)[i] = q[i + 1]
  OBVIOUS
<1>2. 1 \in DOMAIN q /\ q[1] \in S
  BY <1>1
<1>3. ASSUME IsInjective(q) PROVE IsInjective(Tail(q))
  <2>1. ASSUME NEW i \in DOMAIN Tail(q), NEW j \in DOMAIN Tail(q), Tail(q)[i] = Tail(q)[j]
        PROVE  i = j
    <3>1. i + 1 \in DOMAIN q /\ j + 1 \in DOMAIN q /\ q[i + 1] = q[j + 1]
      BY <1>1, <2>1
    <3>2. i + 1 = j + 1
      BY <1>3, <3>1 DEF IsInjective
    <3> QED
      BY <1>1, <3>2
  <2> QED
    BY <2>1 DEF IsInjective
<1>4. ASSUME IsInjective(q) PROVE ToSet(Tail(q)) = ToSet(q) \ {q[1]}
  <2>1. ASSUME NEW e \in ToSet(Tail(q)) PROVE e \in ToSet(q) \ {q[1]}
    <3>1. PICK i \in 1 .. Len(q) - 1 : e = q[i + 1]
      BY <1>1, <2>1 DEF ToSet
    <3>2. i + 1 \in DOMAIN q /\ i + 1 # 1
      BY <1>1
    <3>3. q[i + 1] # q[1]
      BY <1>2, <1>4, <3>2 DEF IsInjective
    <3> QED
      BY <3>1, <3>2, <3>3 DEF ToSet
  <2>2. ASSUME NEW e \in ToSet(q) \ {q[1]} PROVE e \in ToSet(Tail(q))
    <3>1. PICK i \in 1 .. Len(q) : e = q[i]
      BY <1>1, <2>2 DEF ToSet
    <3>2. i - 1 \in DOMAIN Tail(q) /\ Tail(q)[i - 1] = e
      BY <1>1, <2>2, <3>1
    <3> QED
      BY <3>2 DEF ToSet
  <2> QED
    BY <2>1, <2>2
<1> QED
  BY <1>1, <1>2, <1>3, <1>4 DEF ToSet
\* Inserting in front of position i moves what is there, and behind, down by one.
LEMMA InsertShifts ==
    ASSUME NEW S, NEW q \in Seq(S), NEW i \in 1 .. Len(q), NEW x \in S
    PROVE  LET r == InsertAt(q, i, x)
           IN  /\ r \in Seq(S) /\ Len(r) = Len(q) + 1 /\ DOMAIN r = 1 .. Len(q) + 1
               /\ \A j \in 1 .. Len(q) + 1 :
                    r[j] = IF j < i THEN q[j] ELSE IF j = i THEN x ELSE q[j - 1]
<1> DEFINE n == Len(q)
           s == SubSeq(q, 1, i - 1)
           t == SubSeq(q, i, n)
           v == s \o <<x>>
           r == InsertAt(q, i, x)
<1>1. n \in Nat /\ i \in Nat /\ 1 <= i /\ i <= n /\ <<x>> \in Seq(S) /\ Len(<<x>>) = 1
  OBVIOUS
<1>2. s \in Seq(S) /\ Len(s) = i - 1 /\ \A j \in 1 .. i - 1 : s[j] = q[j]
  OBVIOUS
<1>3. t \in Seq(S) /\ Len(t) = n - i + 1 /\ \A j \in 1 .. n - i + 1 : t[j] = q[i + j - 1]
  <2>1. i \in 1 .. n + 1 /\ n \in i - 1 .. n
    BY <1>1
  <2> QED
    BY <1>1, <2>1, SubSeqProperties
<1>4. r = v \o t
  BY DEF InsertAt
<1> HIDE DEF s, t, r, n
<1>5. v \in Seq(S) /\ Len(v) = i /\ \A j \in 1 .. i : v[j] = IF j < i THEN q[j] ELSE x
  <2>1. /\ v \in Seq(S) /\ Len(v) = (i - 1) + 1
        /\ \A j \in 1 .. (i - 1) + 1 : v[j] = IF j <= i - 1 THEN s[j] ELSE <<x>>[j - (i - 1)]
    BY <1>1, <1>2, ConcatProperties
  <2>2. (i - 1) + 1 = i /\ \A j \in 1 .. i : ~ (j <= i - 1) => j - (i - 1) = 1 /\ ~ (j < i)
    BY <1>1
  <2>3. <<x>>[1] = x
    OBVIOUS
  <2> HIDE DEF v
  <2>4. ASSUME NEW j \in 1 .. i PROVE v[j] = IF j < i THEN q[j] ELSE x
    <3>1. CASE j <= i - 1
      <4>1. j < i /\ j \in 1 .. i - 1
        BY <1>1, <3>1
      <4> QED
        BY <1>2, <2>1, <2>2, <3>1, <4>1
    <3>2. CASE ~ (j <= i - 1)
      BY <2>1, <2>2, <2>3, <3>2
    <3> QED
      BY <3>1, <3>2
  <2> QED
    BY <2>1, <2>2, <2>4
<1> HIDE DEF v
<1>6. /\ r \in Seq(S) /\ Len(r) = i + (n - i + 1)
      /\ \A j \in 1 .. i + (n - i + 1) : r[j] = IF j <= i THEN v[j] ELSE t[j - i]
  <2>1. /\ v \o t \in Seq(S) /\ Len(v \o t) = Len(v) + Len(t)
        /\ \A j \in 1 .. Len(v) + Len(t) : (v \o t)[j] = IF j <= Len(v) THEN v[j] ELSE t[j - Len(v)]
    BY <1>3, <1>5, ConcatProperties
  <2> QED
    BY <1>3, <1>4, <1>5, <2>1
<1>7. i + (n - i + 1) = n + 1
  BY <1>1
<1>8. ASSUME NEW j \in 1 .. n + 1
      PROVE  r[j] = IF j < i THEN q[j] ELSE IF j = i THEN x ELSE q[j - 1]
  <2>1. CASE j <= i
    BY <1>1, <1>5, <1>6, <1>7, <2>1
  <2>2. CASE ~ (j <= i)
    <3>1. j - i \in 1 .. n - i + 1 /\ i + (j - i) - 1 = j - 1 /\ ~ (j < i) /\ j # i
      BY <1>1, <2>2
    <3>2. r[j] = t[j - i]
      BY <1>6, <1>7, <2>2
    <3> QED
      BY <1>3, <3>1, <3>2
  <2> QED
    BY <2>1, <2>2
<1>9. DOMAIN r = 1 .. Len(r)
  BY <1>6
<1> QED
  BY <1>6, <1>7, <1>8, <1>9 DEF r, n

\* The members after an insertion.
LEMMA InsertQueue ==
    ASSUME NEW S, NEW q \in Seq(S), NEW i \in 1 .. Len(q), NEW x \in S
    PROVE  LET r == InsertAt(q, i, x)
           IN  /\ ToSet(r) = ToSet(q) \cup {x}
               /\ x \notin ToSet(q) /\ IsInjective(q) => IsInjective(r)
<1> DEFINE n == Len(q)
           r == InsertAt(q, i, x)
<1>1. n \in Nat /\ i \in 1 .. n /\ DOMAIN q = 1 .. n
  OBVIOUS
<1>2. /\ DOMAIN r = 1 .. n + 1
      /\ \A j \in 1 .. n + 1 : r[j] = IF j < i THEN q[j] ELSE IF j = i THEN x ELSE q[j - 1]
  BY InsertShifts
<1> HIDE DEF r, n
<1>3. ASSUME NEW e \in ToSet(r) PROVE e \in ToSet(q) \cup {x}
  <2>1. PICK j \in 1 .. n + 1 : e = r[j]
    BY <1>2, <1>3 DEF ToSet
  <2>2. CASE j < i
    BY <1>1, <1>2, <2>1, <2>2 DEF ToSet
  <2>3. CASE j > i
    <3>1. j - 1 \in DOMAIN q /\ e = q[j - 1]
      BY <1>1, <1>2, <2>1, <2>3
    <3> QED
      BY <3>1 DEF ToSet
  <2> QED
    BY <1>1, <1>2, <2>1, <2>2, <2>3
<1>4. ASSUME NEW e \in ToSet(q) \cup {x} PROVE e \in ToSet(r)
  <2>1. CASE e = x
    <3>1. i \in DOMAIN r /\ r[i] = e
      BY <1>1, <1>2, <2>1
    <3> QED
      BY <3>1 DEF ToSet
  <2>2. CASE e \in ToSet(q)
    <3>1. PICK j \in 1 .. n : e = q[j]
      BY <1>1, <2>2 DEF ToSet
    <3> DEFINE jj == IF j < i THEN j ELSE j + 1
    <3>2. jj \in DOMAIN r /\ r[jj] = e
      BY <1>1, <1>2, <3>1
    <3> QED
      BY <3>2 DEF ToSet
  <2> QED
    BY <1>4, <2>1, <2>2
<1>5. ASSUME x \notin ToSet(q), IsInjective(q) PROVE IsInjective(r)
  <2>1. \A j \in 1 .. n : q[j] # x
    BY <1>1, <1>5 DEF ToSet
  <2>2. \A j, m \in 1 .. n : q[j] = q[m] => j = m
    BY <1>1, <1>5 DEF IsInjective
  <2>3. ASSUME NEW j \in 1 .. n + 1, NEW m \in 1 .. n + 1, r[j] = r[m] PROVE j = m
    <3> DEFINE jj == IF j < i THEN j ELSE j - 1
               mm == IF m < i THEN m ELSE m - 1
    <3>1. (j # i => jj \in 1 .. n /\ r[j] = q[jj]) /\ (m # i => mm \in 1 .. n /\ r[m] = q[mm])
      BY <1>1, <1>2
    <3>2. r[i] = x
      BY <1>1, <1>2
    <3>3. j = i <=> m = i
      BY <2>1, <2>3, <3>1, <3>2
    <3>4. j # i => jj = mm
      BY <2>2, <2>3, <3>1, <3>3
    <3> QED
      BY <1>1, <3>3, <3>4
  <2> QED
    BY <1>2, <2>3 DEF IsInjective
<1> QED
  BY <1>3, <1>4, <1>5 DEF r


=============================================================================
