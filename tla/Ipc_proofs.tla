----------------------------- MODULE Ipc_proofs -----------------------------
(***************************************************************************)
(* Semaphores, event groups, mailboxes and message queues (ipc.rs): proved *)
(* for every set of threads, every priority, capacity and number of tokens,*)
(* and every interleaving of threads, handlers and timeouts.  Before them, *)
(* the ring of a Mailbox and the linked blocks of a MessageQueue are, for  *)
(* every capacity and every set of messages, what a channel asks of its    *)
(* buffer, and hold the same messages.                                     *)
(***************************************************************************)
EXTENDS Ipc, Buffers, QueueLemmas, FiniteSetTheorems

-----------------------------------------------------------------------------
(* The ring.                                                               *)

\* The slot n places after a.
At(a, n) == IF a + n < Size THEN a + n ELSE a + n - Size

LEMMA ModIs ==
    ASSUME NEW a \in Slot, NEW n \in 0 .. Size
    PROVE  /\ (a + n) % Size = At(a, n) /\ At(a, n) \in Slot
           /\ n < Size /\ n > 0 => At(a, n) # a
<1>1. Size \in Nat /\ Size > 0
  BY BuffersAssumption
<1>2. CASE a + n < Size
  BY <1>1, <1>2 DEF At, Slot
<1>3. CASE ~(a + n < Size)
  <2>1. a + n - Size \in 0 .. Size - 1 \/ (a + n - Size = Size /\ FALSE)
    BY <1>1, <1>3 DEF Slot
  <2>2. (a + n) % Size = a + n - Size
    BY <1>1, <1>3, <2>1 DEF Slot
  <2> QED
    BY <1>1, <1>3, <2>1, <2>2 DEF At, Slot
<1> QED
  BY <1>2, <1>3

LEMMA AtAdd ==
    ASSUME NEW a \in Slot, NEW n \in Nat, NEW m \in Nat, n + m <= Size
    PROVE  At(At(a, n), m) = At(a, n + m)
<1>1. Size \in Nat /\ Size > 0 /\ a \in Nat /\ a < Size
  BY BuffersAssumption DEF Slot
<1>2. CASE a + n < Size
  <2>1. At(a, n) = a + n
    BY <1>2 DEF At
  <2> QED
    BY <1>1, <2>1 DEF At
<1>3. CASE ~(a + n < Size)
  <2>1. At(a, n) = a + n - Size
    BY <1>3 DEF At
  <2>2. At(a, n + m) = a + n + m - Size
    BY <1>1, <1>3 DEF At
  <2>3. a + n - Size + m < Size
    BY <1>1
  <2>4. At(a + n - Size, m) = a + n - Size + m
    BY <2>3 DEF At
  <2> QED
    BY <1>1, <2>1, <2>2, <2>4
<1> QED
  BY <1>2, <1>3

\* The ring's messages lie in the count slots from out on, and in is the next one.
Rings(M) ==
    {b \in [pool : [Slot -> M \cup {Nothing}], in : Slot, out : Slot, count : 0 .. Size] :
       /\ b.in = At(b.out, b.count)
       /\ \A i \in 1 .. b.count : b.pool[At(b.out, i - 1)] \in M}

LEMMA RingContentsIs ==
    ASSUME NEW M, NEW b \in Rings(M)
    PROVE  /\ RingContents(b) = [i \in 1 .. b.count |-> b.pool[At(b.out, i - 1)]]
           /\ RingContents(b) \in Seq(M) /\ Len(RingContents(b)) = b.count
           /\ b.count \in Nat /\ b.count <= Size /\ b.out \in Slot /\ b.in \in Slot
<1>1. b.count \in Nat /\ b.count <= Size /\ b.out \in Slot /\ b.in \in Slot /\ Size \in Nat
  BY BuffersAssumption DEF Rings
<1>2. ASSUME NEW i \in 1 .. b.count
      PROVE  (b.out + i - 1) % Size = At(b.out, i - 1)
  <2>1. b.out + i - 1 = b.out + (i - 1) /\ i - 1 \in 0 .. Size
    BY <1>1 DEF Slot
  <2> QED
    BY <1>1, <2>1, ModIs
<1>3. RingContents(b) = [i \in 1 .. b.count |-> b.pool[At(b.out, i - 1)]]
  BY <1>2 DEF RingContents
<1>4. \A i \in 1 .. b.count : b.pool[At(b.out, i - 1)] \in M
  BY DEF Rings
<1> QED
  BY <1>1, <1>3, <1>4

\* Two sequences given by their elements.
LEMMA SameSeq ==
    ASSUME NEW S, NEW s \in Seq(S), NEW T, NEW t \in Seq(T), Len(s) = Len(t),
           \A i \in 1 .. Len(s) : s[i] = t[i]
    PROVE  s = t
<1>1. DOMAIN s = 1 .. Len(s) /\ DOMAIN t = 1 .. Len(t)
  OBVIOUS
<1> QED
  BY <1>1, SeqEqual

LEMMA RingSendIs ==
    ASSUME NEW M, NEW b \in Rings(M), NEW m \in M, b.count < Size
    PROVE  /\ RingSend(b, m) \in Rings(M)
           /\ RingContents(RingSend(b, m)) = Append(RingContents(b), m)
<1> DEFINE c == RingSend(b, m)
           n == b.count
<1>1. /\ n \in Nat /\ n < Size /\ Size \in Nat /\ b.out \in Slot /\ b.in \in Slot
      /\ b.pool \in [Slot -> M \cup {Nothing}] /\ b.in = At(b.out, n)
      /\ \A i \in 1 .. n : b.pool[At(b.out, i - 1)] \in M
  BY BuffersAssumption, RingContentsIs DEF Rings
<1>2. /\ c.pool = [b.pool EXCEPT ![b.in] = m] /\ c.in = (b.in + 1) % Size /\ c.out = b.out
      /\ c.count = n + 1
      /\ c = [pool |-> c.pool, in |-> c.in, out |-> c.out, count |-> c.count]
  <2>1. b \in [pool : [Slot -> M \cup {Nothing}], in : Slot, out : Slot, count : 0 .. Size]
    BY DEF Rings
  <2> DEFINE next == (b.in + 1) % Size
  <2>2. c = [b EXCEPT !.pool[b.in] = m, !.in = next, !.count = @ + 1]
    BY DEF RingSend
  <2> HIDE DEF c, next
  <2>3. /\ c.pool = [b.pool EXCEPT ![b.in] = m] /\ c.in = next /\ c.out = b.out /\ c.count = n + 1
        /\ c = [pool |-> c.pool, in |-> c.in, out |-> c.out, count |-> c.count]
    BY <2>1, <2>2
  <2> QED
    BY <2>3 DEF next
<1> HIDE DEF c
<1>3. c.in = At(b.in, 1) /\ c.in \in Slot
  <2>1. 1 \in 0 .. Size
    BY <1>1
  <2> QED
    BY <1>1, <1>2, <2>1, ModIs
<1>4. c.in = At(c.out, c.count)
  <2>1. n + 1 <= Size
    BY <1>1
  <2> HIDE DEF n
  <2>2. At(At(b.out, n), 1) = At(b.out, n + 1)
    BY <1>1, <2>1, AtAdd
  <2> QED
    BY <1>1, <1>2, <1>3, <2>2
<1>5. \A i \in 1 .. n : At(b.out, i - 1) \in Slot /\ At(b.out, i - 1) # b.in
  <2>1. ASSUME NEW i \in 1 .. n PROVE At(b.out, i - 1) \in Slot /\ At(b.out, i - 1) # b.in
    <3> DEFINE a == At(b.out, i - 1)
               d == n - (i - 1)
    <3>1. i - 1 \in 0 .. Size /\ i - 1 \in Nat /\ d \in Nat /\ d > 0 /\ d < Size
          /\ d \in 0 .. Size /\ (i - 1) + d = n /\ n <= Size
      BY <1>1
    <3>2. a \in Slot
      BY <1>1, <3>1, ModIs
    <3> HIDE DEF d
    <3>3. At(a, d) = b.in
      BY <1>1, <3>1, AtAdd
    <3> HIDE DEF a
    <3>4. At(a, d) # a
      BY <3>1, <3>2, ModIs
    <3> QED
      BY <3>2, <3>3, <3>4 DEF a
  <2> QED
    BY <2>1
<1>6. /\ \A i \in 1 .. n : c.pool[At(c.out, i - 1)] = b.pool[At(b.out, i - 1)]
      /\ c.pool[At(c.out, n)] = m
  BY <1>1, <1>2, <1>5
<1>7. \A i \in 1 .. n + 1 : c.pool[At(c.out, i - 1)] = IF i = n + 1 THEN m ELSE b.pool[At(b.out, i - 1)]
  BY <1>1, <1>6
<1>8. c.pool \in [Slot -> M \cup {Nothing}] /\ c.count \in 0 .. Size
  BY <1>1, <1>2
<1>9. c \in [pool : [Slot -> M \cup {Nothing}], in : Slot, out : Slot, count : 0 .. Size]
  BY <1>1, <1>2, <1>3, <1>8
<1>10. c \in Rings(M)
  <2>1. \A i \in 1 .. c.count : c.pool[At(c.out, i - 1)] \in M
    BY <1>1, <1>2, <1>7
  <2> QED
    BY <1>4, <1>9, <2>1 DEF Rings
<1>11. /\ RingContents(c) \in Seq(M) /\ Len(RingContents(c)) = n + 1
       /\ \A i \in 1 .. n + 1 : RingContents(c)[i] = c.pool[At(c.out, i - 1)]
  <2>1. /\ RingContents(c) = [i \in 1 .. c.count |-> c.pool[At(c.out, i - 1)]]
        /\ RingContents(c) \in Seq(M) /\ Len(RingContents(c)) = c.count
    BY <1>10, RingContentsIs
  <2> HIDE DEF n
  <2> QED
    BY <1>2, <2>1
<1>12. /\ RingContents(b) \in Seq(M) /\ Len(RingContents(b)) = n
       /\ \A i \in 1 .. n : RingContents(b)[i] = b.pool[At(b.out, i - 1)]
  BY RingContentsIs
<1> HIDE DEF n
<1>13. /\ Append(RingContents(b), m) \in Seq(M) /\ Len(Append(RingContents(b), m)) = n + 1
       /\ \A i \in 1 .. n + 1 : Append(RingContents(b), m)[i] = IF i = n + 1 THEN m ELSE RingContents(b)[i]
  BY <1>12
<1>14. RingContents(c) = Append(RingContents(b), m)
  <2>1. \A i \in 1 .. n + 1 : i # n + 1 => i \in 1 .. n
    BY <1>1
  <2>2. \A i \in 1 .. n + 1 : RingContents(c)[i] = Append(RingContents(b), m)[i]
    BY <1>7, <1>11, <1>12, <1>13, <2>1
  <2> QED
    BY <1>11, <1>13, <2>2, SameSeq
<1> QED
  BY <1>10, <1>14 DEF c

LEMMA RingUrgentIs ==
    ASSUME NEW M, NEW b \in Rings(M), NEW m \in M, b.count < Size
    PROVE  /\ RingUrgent(b, m) \in Rings(M)
           /\ RingContents(RingUrgent(b, m)) = <<m>> \o RingContents(b)
<1> DEFINE c == RingUrgent(b, m)
           n == b.count
           o == IF b.out = 0 THEN Size - 1 ELSE b.out - 1
<1>1. /\ n \in Nat /\ n < Size /\ Size \in Nat /\ b.out \in Slot /\ b.in \in Slot
      /\ b.pool \in [Slot -> M \cup {Nothing}] /\ b.in = At(b.out, n)
      /\ \A i \in 1 .. n : b.pool[At(b.out, i - 1)] \in M
  BY BuffersAssumption, RingContentsIs DEF Rings
<1>2. /\ c.pool = [b.pool EXCEPT ![o] = m] /\ c.in = b.in /\ c.out = o /\ c.count = n + 1
      /\ c = [pool |-> c.pool, in |-> c.in, out |-> c.out, count |-> c.count]
  <2>1. b \in [pool : [Slot -> M \cup {Nothing}], in : Slot, out : Slot, count : 0 .. Size]
    BY DEF Rings
  <2>2. c = [b EXCEPT !.out = o, !.pool[o] = m, !.count = @ + 1]
    BY DEF RingUrgent
  <2> HIDE DEF c, o
  <2> QED
    BY <2>1, <2>2
<1>3. o \in Slot /\ At(o, 1) = b.out /\ At(o, 0) = o
  BY <1>1 DEF At, Slot
<1> HIDE DEF c, o
<1>4. \A i \in 0 .. n : At(o, i + 1) = At(b.out, i)
  <2>1. ASSUME NEW i \in 0 .. n PROVE At(o, i + 1) = At(b.out, i)
    <3>1. i \in Nat /\ 1 + i <= Size /\ i + 1 = 1 + i
      BY <1>1
    <3>2. At(At(o, 1), i) = At(o, 1 + i)
      BY <1>3, <3>1, AtAdd
    <3> QED
      BY <1>3, <3>1, <3>2
  <2> QED
    BY <2>1
<1>5. \A i \in 1 .. n : At(o, i) \in Slot /\ At(o, i) # o
  <2>1. ASSUME NEW i \in 1 .. n PROVE At(o, i) \in Slot /\ At(o, i) # o
    <3>1. i \in 0 .. Size /\ i < Size /\ i > 0
      BY <1>1
    <3> QED
      BY <1>3, <3>1, ModIs
  <2> QED
    BY <2>1
<1>6. c.pool[At(c.out, 0)] = m /\ \A i \in 1 .. n : c.pool[At(c.out, i)] = b.pool[At(b.out, i - 1)]
  <2>1. \A i \in 1 .. n : i - 1 \in 0 .. n /\ (i - 1) + 1 = i
    BY <1>1
  <2>2. \A i \in 1 .. n : At(o, i) = At(b.out, i - 1)
    BY <1>4, <2>1
  <2> QED
    BY <1>1, <1>2, <1>3, <1>5, <2>2
<1>7. \A i \in 1 .. n + 1 : c.pool[At(c.out, i - 1)] = IF i = 1 THEN m ELSE b.pool[At(b.out, i - 2)]
  <2>1. ASSUME NEW i \in 1 .. n + 1
        PROVE  c.pool[At(c.out, i - 1)] = IF i = 1 THEN m ELSE b.pool[At(b.out, i - 2)]
    <3>1. CASE i = 1
      BY <1>6, <3>1
    <3>2. CASE i # 1
      <4>1. i - 1 \in 1 .. n /\ (i - 1) - 1 = i - 2
        BY <1>1, <3>2
      <4> QED
        BY <1>6, <3>2, <4>1
    <3> QED
      BY <3>1, <3>2
  <2> QED
    BY <2>1
<1>8. \A i \in 1 .. n + 1 : i = 1 \/ b.pool[At(b.out, i - 2)] \in M
  <2>1. \A i \in 1 .. n + 1 : i = 1 \/ (i - 1 \in 1 .. n /\ (i - 1) - 1 = i - 2)
    BY <1>1
  <2> QED
    BY <1>1, <2>1
<1>9. c \in Rings(M)
  <2>1. c.pool \in [Slot -> M \cup {Nothing}] /\ c.count \in 0 .. Size
    BY <1>1, <1>2, <1>3
  <2>2. c \in [pool : [Slot -> M \cup {Nothing}], in : Slot, out : Slot, count : 0 .. Size]
    BY <1>1, <1>2, <1>3, <2>1
  <2>3. c.in = At(c.out, c.count)
    <3>1. n \in 0 .. n
      BY <1>1
    <3> QED
      BY <1>1, <1>2, <1>4, <3>1
  <2>4. \A i \in 1 .. c.count : c.pool[At(c.out, i - 1)] \in M
    <3> HIDE DEF n
    <3> QED
      BY <1>2, <1>7, <1>8
  <2> QED
    BY <2>2, <2>3, <2>4 DEF Rings
<1>10. /\ RingContents(c) \in Seq(M) /\ Len(RingContents(c)) = n + 1
       /\ \A i \in 1 .. n + 1 : RingContents(c)[i] = c.pool[At(c.out, i - 1)]
  <2>1. /\ RingContents(c) = [i \in 1 .. c.count |-> c.pool[At(c.out, i - 1)]]
        /\ RingContents(c) \in Seq(M) /\ Len(RingContents(c)) = c.count
    BY <1>9, RingContentsIs
  <2> HIDE DEF n
  <2> QED
    BY <1>2, <2>1
<1>11. /\ RingContents(b) \in Seq(M) /\ Len(RingContents(b)) = n
       /\ \A i \in 1 .. n : RingContents(b)[i] = b.pool[At(b.out, i - 1)]
  BY RingContentsIs
<1> HIDE DEF n
<1> DEFINE t == <<m>> \o RingContents(b)
<1>12. /\ t \in Seq(M) /\ Len(t) = n + 1
       /\ \A i \in 1 .. n + 1 : t[i] = IF i = 1 THEN m ELSE RingContents(b)[i - 1]
  <2>1. <<m>> \in Seq(M) /\ Len(<<m>>) = 1 /\ <<m>>[1] = m
    OBVIOUS
  <2>2. /\ t \in Seq(M) /\ Len(t) = 1 + n
        /\ \A i \in 1 .. 1 + n : t[i] = IF i <= 1 THEN <<m>>[i] ELSE RingContents(b)[i - 1]
    BY <1>11, <2>1, ConcatProperties
  <2> HIDE DEF t
  <2> QED
    BY <1>1, <2>1, <2>2
<1> HIDE DEF t
<1>13. \A i \in 1 .. n + 1 : RingContents(c)[i] = t[i]
  <2>1. ASSUME NEW i \in 1 .. n + 1 PROVE RingContents(c)[i] = t[i]
    <3>1. CASE i = 1
      BY <1>7, <1>10, <1>12, <3>1
    <3>2. CASE i # 1
      <4>1. i - 1 \in 1 .. n /\ (i - 1) - 1 = i - 2
        BY <1>1, <3>2
      <4> QED
        BY <1>7, <1>10, <1>11, <1>12, <3>2, <4>1
    <3> QED
      BY <3>1, <3>2
  <2> QED
    BY <2>1
<1>14. RingContents(c) = t
  BY <1>1, <1>10, <1>12, <1>13, SameSeq
<1> QED
  BY <1>9, <1>14 DEF c, t

LEMMA RingRecvIs ==
    ASSUME NEW M, NEW b \in Rings(M), RingContents(b) # <<>>
    PROVE  /\ RingRecv(b) \in Rings(M)
           /\ RingContents(RingRecv(b)) = Tail(RingContents(b))
           /\ RingFirst(b) = Head(RingContents(b))
<1> DEFINE c == RingRecv(b)
           n == b.count
<1>1. /\ n \in Nat /\ n <= Size /\ Size \in Nat /\ b.out \in Slot /\ b.in \in Slot
      /\ b.pool \in [Slot -> M \cup {Nothing}] /\ b.in = At(b.out, n)
      /\ \A i \in 1 .. n : b.pool[At(b.out, i - 1)] \in M
  BY BuffersAssumption, RingContentsIs DEF Rings
<1>2. /\ RingContents(b) \in Seq(M) /\ Len(RingContents(b)) = n
      /\ \A i \in 1 .. n : RingContents(b)[i] = b.pool[At(b.out, i - 1)]
  BY RingContentsIs
<1>3. n > 0
  <2> HIDE DEF n
  <2> QED
    BY <1>1, <1>2
<1>4. /\ c.pool = b.pool /\ c.in = b.in /\ c.out = (b.out + 1) % Size /\ c.count = n - 1
      /\ c = [pool |-> c.pool, in |-> c.in, out |-> c.out, count |-> c.count]
  <2> DEFINE next == (b.out + 1) % Size
  <2>1. b \in [pool : [Slot -> M \cup {Nothing}], in : Slot, out : Slot, count : 0 .. Size]
    BY DEF Rings
  <2>2. c = [b EXCEPT !.out = next, !.count = @ - 1]
    BY DEF RingRecv
  <2> HIDE DEF c, next
  <2>3. /\ c.pool = b.pool /\ c.in = b.in /\ c.out = next /\ c.count = n - 1
        /\ c = [pool |-> c.pool, in |-> c.in, out |-> c.out, count |-> c.count]
    BY <2>1, <2>2
  <2> QED
    BY <2>3 DEF next
<1> HIDE DEF c
<1>5. c.out = At(b.out, 1) /\ c.out \in Slot
  <2>1. 1 \in 0 .. Size
    BY <1>1, <1>3
  <2> QED
    BY <1>1, <1>4, <2>1, ModIs
<1>6. \A i \in 0 .. n - 1 : At(c.out, i) = At(b.out, i + 1)
  <2>1. ASSUME NEW i \in 0 .. n - 1 PROVE At(c.out, i) = At(b.out, i + 1)
    <3>1. i \in Nat /\ 1 + i <= Size /\ i + 1 = 1 + i
      BY <1>1, <1>3
    <3>2. At(At(b.out, 1), i) = At(b.out, 1 + i)
      BY <1>1, <3>1, AtAdd
    <3> QED
      BY <1>5, <3>1, <3>2
  <2> QED
    BY <2>1
<1>7. \A i \in 1 .. n - 1 : c.pool[At(c.out, i - 1)] = b.pool[At(b.out, i)] /\ b.pool[At(b.out, i)] \in M
  <2>1. ASSUME NEW i \in 1 .. n - 1
        PROVE  c.pool[At(c.out, i - 1)] = b.pool[At(b.out, i)] /\ b.pool[At(b.out, i)] \in M
    <3>1. i - 1 \in 0 .. n - 1 /\ (i - 1) + 1 = i /\ i + 1 \in 1 .. n /\ (i + 1) - 1 = i
      BY <1>1, <1>3
    <3>2. At(c.out, i - 1) = At(b.out, i)
      BY <1>6, <3>1
    <3>3. b.pool[At(b.out, (i + 1) - 1)] \in M
      BY <1>1, <3>1
    <3> QED
      BY <1>4, <3>1, <3>2, <3>3
  <2> QED
    BY <2>1
<1>8. c \in Rings(M)
  <2>1. c.count \in 0 .. Size
    BY <1>1, <1>3, <1>4
  <2>2. c \in [pool : [Slot -> M \cup {Nothing}], in : Slot, out : Slot, count : 0 .. Size]
    BY <1>1, <1>4, <1>5, <2>1
  <2>3. c.in = At(c.out, c.count)
    <3>1. n - 1 \in 0 .. n - 1 /\ (n - 1) + 1 = n
      BY <1>1, <1>3
    <3> QED
      BY <1>1, <1>4, <1>6, <3>1
  <2>4. \A i \in 1 .. c.count : c.pool[At(c.out, i - 1)] \in M
    <3> HIDE DEF n
    <3> QED
      BY <1>4, <1>7
  <2> QED
    BY <2>2, <2>3, <2>4 DEF Rings
<1>9. /\ RingContents(c) \in Seq(M) /\ Len(RingContents(c)) = n - 1
      /\ \A i \in 1 .. n - 1 : RingContents(c)[i] = c.pool[At(c.out, i - 1)]
  <2>1. /\ RingContents(c) = [i \in 1 .. c.count |-> c.pool[At(c.out, i - 1)]]
        /\ RingContents(c) \in Seq(M) /\ Len(RingContents(c)) = c.count
    BY <1>8, RingContentsIs
  <2> HIDE DEF n
  <2> QED
    BY <1>4, <2>1
<1> HIDE DEF n
<1> DEFINE s == RingContents(b)
           t == Tail(s)
<1>10. /\ t \in Seq(M) /\ Len(t) = n - 1 /\ \A i \in 1 .. n - 1 : t[i] = s[i + 1]
       /\ Head(s) = s[1]
  <2> HIDE DEF s
  <2>1. s \in Seq(M) /\ Len(s) = n /\ s # <<>>
    BY <1>2 DEF s
  <2> QED
    BY <1>1, <1>3, <2>1
<1> HIDE DEF t
<1>11. \A i \in 1 .. n - 1 : RingContents(c)[i] = t[i]
  <2>1. ASSUME NEW i \in 1 .. n - 1 PROVE RingContents(c)[i] = t[i]
    <3>1. i + 1 \in 1 .. n /\ (i + 1) - 1 = i
      BY <1>1, <1>3
    <3>2. s[i + 1] = b.pool[At(b.out, i)]
      BY <1>2, <3>1
    <3> QED
      BY <1>7, <1>9, <1>10, <3>2
  <2> QED
    BY <2>1
<1>12. RingContents(c) = t
  BY <1>9, <1>10, <1>11, SameSeq
<1>13. RingFirst(b) = Head(s)
  <2>1. 1 \in 1 .. n /\ At(b.out, 1 - 1) = b.out
    BY <1>1, <1>3 DEF At, Slot
  <2>2. s[1] = b.pool[b.out]
    BY <1>2, <2>1
  <2> QED
    BY <1>10, <2>2 DEF RingFirst
<1> QED
  BY <1>8, <1>12, <1>13 DEF c, t

\* A ring has nothing else to keep intact.
AnyRing(b) == TRUE

LEMMA RingIs ==
    ASSUME NEW M
    PROVE  IsBuffer(Rings(M), M, Size, RingInit, RingHasRoom, RingSend, RingUrgent,
                    RingFirst, RingRecv, RingContents, AnyRing)
<1>1. RingInit \in Rings(M)
  <2>1. Size \in Nat /\ Size > 0 /\ 0 \in Slot /\ 0 \in 0 .. Size /\ At(0, 0) = 0
    BY BuffersAssumption DEF Slot, At
  <2>2. RingInit \in [pool : [Slot -> M \cup {Nothing}], in : Slot, out : Slot, count : 0 .. Size]
    BY <2>1 DEF RingInit
  <2>3. RingInit.in = 0 /\ RingInit.out = 0 /\ RingInit.count = 0
    BY DEF RingInit
  <2> QED
    BY <2>1, <2>2, <2>3 DEF Rings
<1>2. RingContents(RingInit) = <<>>
  <2>1. RingInit.count = 0
    BY DEF RingInit
  <2>2. RingContents(RingInit) \in Seq(M) /\ Len(RingContents(RingInit)) = 0
    BY <1>1, <2>1, RingContentsIs
  <2> QED
    BY <2>2
<1>3. \A b \in Rings(M) : /\ RingContents(b) \in Seq(M) /\ Len(RingContents(b)) <= Size
                          /\ RingHasRoom(b) <=> Len(RingContents(b)) < Size
  BY RingContentsIs DEF RingHasRoom
<1>4. ASSUME NEW b \in Rings(M), NEW m \in M, RingHasRoom(b)
      PROVE  /\ RingSend(b, m) \in Rings(M)
             /\ RingContents(RingSend(b, m)) = Append(RingContents(b), m)
             /\ RingUrgent(b, m) \in Rings(M)
             /\ RingContents(RingUrgent(b, m)) = <<m>> \o RingContents(b)
  BY <1>4, RingSendIs, RingUrgentIs DEF RingHasRoom
<1> QED
  BY <1>1, <1>2, <1>3, <1>4, RingRecvIs DEF IsBuffer, AnyRing

-----------------------------------------------------------------------------
(* The blocks.                                                             *)

\* The blocks of s are linked one after the other, from i on.
Chain(q, i, s) ==
    \A j \in 0 .. Len(s) :
      (IF j = 0 THEN i ELSE q.next[s[j]]) = (IF j = Len(s) THEN BlockEnd ELSE s[j + 1])

\* The blocks in use are those of u, the others those of f.
Linked(q, u, f) ==
    /\ u \in Seq(Slot) /\ IsInjective(u) /\ Len(u) = q.count
    /\ f \in Seq(Slot) /\ IsInjective(f) /\ Len(f) = Size - q.count
    /\ ToSet(u) \cap ToSet(f) = {} /\ ToSet(u) \cup ToSet(f) = Slot
    /\ Chain(q, q.head, u) /\ Chain(q, q.free, f)
    /\ q.count > 0 => q.tail = u[q.count]

BlockRec(M) ==
    [data : [Slot -> M \cup {Nothing}], next : [Slot -> 0 .. Size], head : 0 .. Size,
     tail : 0 .. Size, free : 0 .. Size, count : 0 .. Size]

Queues(M) ==
    {q \in BlockRec(M) :
       \E u, f \in Seq(Slot) : Linked(q, u, f) /\ \A i \in 1 .. q.count : q.data[u[i]] \in M}

LEMMA EndIsNoSlot == BlockEnd \notin Slot /\ Size \in Nat /\ Size > 0 /\ BlockEnd = Size
  BY BuffersAssumption DEF BlockEnd, Slot

\* The code that follows the links finds the blocks of the chain, and then its end.
LEMMA FollowIs ==
    ASSUME NEW q, NEW i, NEW s \in Seq(Slot), Chain(q, i, s), NEW n \in Nat
    PROVE  Follow(q, i, n) = IF n < Len(s) THEN s[n + 1] ELSE BlockEnd
<1> DEFINE Step(v) == IF v = BlockEnd THEN BlockEnd ELSE q.next[v]
           Is(f) == f = [j \in 0 .. n |-> IF j = 0 THEN i ELSE Step(f[j - 1])]
           P(j) == IF j < Len(s) THEN s[j + 1] ELSE BlockEnd
           g == [j \in 0 .. n |-> P(j)]
<1>1. Len(s) \in Nat /\ \A j \in 1 .. Len(s) : s[j] \in Slot /\ s[j] # BlockEnd
  BY EndIsNoSlot
<1>2. i = P(0)
  <2>1. 0 \in 0 .. Len(s)
    BY <1>1
  <2> QED
    BY <1>1, <2>1 DEF Chain
<1>3. ASSUME NEW j \in Nat, j > 0 PROVE P(j) = Step(P(j - 1))
  <2>1. CASE j <= Len(s)
    <3>1. j \in 0 .. Len(s) /\ j \in 1 .. Len(s) /\ j - 1 < Len(s) /\ (j - 1) + 1 = j
      BY <1>1, <1>3, <2>1
    <3>2. P(j - 1) = s[j]
      BY <3>1
    <3>3. q.next[s[j]] = IF j = Len(s) THEN BlockEnd ELSE s[j + 1]
      BY <1>3, <3>1 DEF Chain
    <3>4. (IF j = Len(s) THEN BlockEnd ELSE s[j + 1]) = P(j)
      BY <1>1, <2>1
    <3> HIDE DEF P
    <3> QED
      BY <1>1, <3>1, <3>2, <3>3, <3>4
  <2>2. CASE ~(j <= Len(s))
    <3>1. ~(j < Len(s)) /\ ~(j - 1 < Len(s))
      BY <1>1, <1>3, <2>2
    <3> QED
      BY <3>1
  <2> QED
    BY <2>1, <2>2
<1> HIDE DEF P, Step
<1>4. Is(g)
  <2>1. ASSUME NEW j \in 0 .. n PROVE g[j] = IF j = 0 THEN i ELSE Step(g[j - 1])
    <3>1. CASE j = 0
      BY <1>2, <3>1
    <3>2. CASE j # 0
      <4>1. j \in Nat /\ j > 0 /\ j - 1 \in 0 .. n
        BY <3>2
      <4>2. g[j] = P(j) /\ g[j - 1] = P(j - 1)
        BY <4>1
      <4> QED
        BY <1>3, <3>2, <4>1, <4>2
    <3> QED
      BY <3>1, <3>2
  <2> HIDE DEF g
  <2>2. g = [j \in 0 .. n |-> g[j]]
    BY DEF g
  <2>3. [j \in 0 .. n |-> g[j]] = [j \in 0 .. n |-> IF j = 0 THEN i ELSE Step(g[j - 1])]
    BY <2>1
  <2> QED
    BY <2>2, <2>3
<1> HIDE DEF g
<1> DEFINE at == CHOOSE f : Is(f)
<1>5. Is(at)
  BY <1>4
<1>6. Follow(q, i, n) = at[n]
  BY DEF Follow, Step
<1> HIDE DEF at
<1> DEFINE Bad == {j \in 0 .. n : at[j] # P(j)}
<1>7. \A j \in 0 .. n : at[j] = IF j = 0 THEN i ELSE Step(at[j - 1])
  BY <1>5
<1> HIDE DEF Is
<1>8. Bad = {}
  <2>1. SUFFICES ASSUME Bad # {} PROVE FALSE
    OBVIOUS
  <2>2. PICK m \in Bad : \A j \in Bad : m <= j
    <3>1. Bad \in SUBSET Nat
      OBVIOUS
    <3> HIDE DEF Bad
    <3> QED
      BY <2>1, <3>1, LeastElement
  <2>3. m \in 0 .. n /\ at[m] # P(m)
    OBVIOUS
  <2>4. m # 0
    BY <1>2, <1>7, <2>3
  <2>5. m - 1 \in 0 .. n /\ m - 1 \notin Bad /\ m \in Nat /\ m > 0
    BY <2>2, <2>3, <2>4
  <2>6. at[m - 1] = P(m - 1)
    BY <2>5
  <2>7. at[m] = Step(at[m - 1])
    BY <1>7, <2>3, <2>4
  <2> QED
    BY <1>3, <2>3, <2>5, <2>6, <2>7
<1>9. at[n] = P(n)
  BY <1>8
<1> QED
  BY <1>6, <1>9 DEF P

\* What a message queue's state stands for.
LEMMA QueueContentsIs ==
    ASSUME NEW M, NEW q \in Queues(M), NEW u, NEW f, Linked(q, u, f)
    PROVE  /\ BlocksContents(q) = [i \in 1 .. q.count |-> q.data[u[i]]]
           /\ q.count \in Nat /\ q.count <= Size
           /\ BlocksContents(q) \in Seq(M) /\ Len(BlocksContents(q)) = q.count
           /\ \A i \in 1 .. q.count : q.data[u[i]] \in M
           /\ BlocksHasRoom(q) <=> q.count < Size
           /\ BlocksHasRoom(q) => f # <<>> /\ q.free = f[1]
           /\ q.count > 0 => q.head = u[1]
<1>1. /\ q.count \in Nat /\ q.count <= Size /\ Size \in Nat
      /\ u \in Seq(Slot) /\ Len(u) = q.count /\ f \in Seq(Slot) /\ Len(f) = Size - q.count
      /\ Chain(q, q.head, u) /\ Chain(q, q.free, f)
  BY EndIsNoSlot DEF Queues, BlockRec, Linked
<1>2. ASSUME NEW v \in Seq(Slot), Len(v) = q.count, Chain(q, q.head, v), NEW i \in 1 .. q.count
      PROVE  Follow(q, q.head, i - 1) = v[i]
  <2>1. i - 1 \in Nat /\ i - 1 < Len(v) /\ (i - 1) + 1 = i
    BY <1>1, <1>2
  <2> QED
    BY <1>2, <2>1, FollowIs
<1>3. BlocksContents(q) = [i \in 1 .. q.count |-> q.data[u[i]]]
  BY <1>1, <1>2 DEF BlocksContents
<1>4. \A i \in 1 .. q.count : q.data[u[i]] \in M
  <2>1. PICK v, e \in Seq(Slot) : Linked(q, v, e) /\ \A i \in 1 .. q.count : q.data[v[i]] \in M
    BY DEF Queues
  <2>2. v \in Seq(Slot) /\ Len(v) = q.count /\ Chain(q, q.head, v)
    BY <2>1 DEF Linked
  <2>3. \A i \in 1 .. q.count : v[i] = u[i]
    BY <1>1, <1>2, <2>2
  <2> QED
    BY <2>1, <2>3
<1>5. BlocksContents(q) \in Seq(M) /\ Len(BlocksContents(q)) = q.count
  <2>1. [i \in 1 .. q.count |-> q.data[u[i]]] \in Seq(M)
    BY <1>1, <1>4, SMTT(20)
  <2> DEFINE s == [i \in 1 .. q.count |-> q.data[u[i]]]
  <2>2. DOMAIN s = 1 .. q.count
    OBVIOUS
  <2>3. Len(s) \in Nat /\ DOMAIN s = 1 .. Len(s)
    <3> HIDE DEF s
    <3> QED
      BY <2>1
  <2>4. Len(s) = q.count
    <3> HIDE DEF s
    <3> QED
      BY <1>1, <2>2, <2>3
  <2> QED
    BY <1>3, <2>1, <2>4
<1>6. q.free = IF Len(f) = 0 THEN BlockEnd ELSE f[1]
  <2>1. 0 \in 0 .. Len(f)
    BY <1>1
  <2> QED
    BY <1>1, <2>1 DEF Chain
<1>7. q.head = IF Len(u) = 0 THEN BlockEnd ELSE u[1]
  <2>1. 0 \in 0 .. Len(u)
    BY <1>1
  <2> QED
    BY <1>1, <2>1 DEF Chain
<1>8. Len(f) # 0 => f[1] \in Slot /\ f # <<>>
  BY <1>1
<1>9. BlocksHasRoom(q) <=> Len(f) # 0
  BY <1>6, <1>8, EndIsNoSlot DEF BlocksHasRoom
<1>10. Len(f) # 0 <=> q.count < Size
  BY <1>1
<1> QED
  BY <1>1, <1>3, <1>4, <1>5, <1>6, <1>7, <1>8, <1>9, <1>10

\* BlocksWhole says of a state what Linked says, without u and f.
LEMMA LinkedWhole ==
    ASSUME NEW M, NEW q \in Queues(M)
    PROVE  BlocksWhole(q)
<1>1. PICK u, f \in Seq(Slot) : Linked(q, u, f)
  BY DEF Queues
<1>2. /\ q.count \in Nat /\ q.count <= Size /\ Size \in Nat
      /\ Len(u) = q.count /\ Len(f) = Size - q.count
      /\ Chain(q, q.head, u) /\ Chain(q, q.free, f)
      /\ q.count > 0 => q.tail = u[q.count]
      /\ ToSet(u) \cap ToSet(f) = {} /\ ToSet(u) \cup ToSet(f) = Slot
  <2>1. q.count \in 0 .. Size
    BY DEF Queues, BlockRec
  <2> QED
    BY <1>1, <2>1, EndIsNoSlot DEF Linked
<1>3. ASSUME NEW s \in Seq(Slot), NEW i, Chain(q, i, s), Len(s) <= Size
      PROVE  {Follow(q, i, j) : j \in 0 .. Size - 1} \ {BlockEnd} = ToSet(s)
  <2>1. \A j \in 0 .. Size - 1 : Follow(q, i, j) = IF j < Len(s) THEN s[j + 1] ELSE BlockEnd
    BY <1>2, <1>3, FollowIs
  <2>2. Len(s) \in Nat /\ DOMAIN s = 1 .. Len(s) /\ \A j \in 1 .. Len(s) : s[j] \in Slot
    OBVIOUS
  <2>3. ASSUME NEW x \in {Follow(q, i, j) : j \in 0 .. Size - 1} \ {BlockEnd} PROVE x \in ToSet(s)
    <3>1. PICK j \in 0 .. Size - 1 : x = Follow(q, i, j)
      OBVIOUS
    <3>2. j < Len(s) /\ x = s[j + 1] /\ j + 1 \in 1 .. Len(s)
      BY <1>2, <2>1, <2>2, <2>3, <3>1
    <3> QED
      BY <2>2, <3>2 DEF ToSet
  <2>4. ASSUME NEW x \in ToSet(s) PROVE x \in {Follow(q, i, j) : j \in 0 .. Size - 1} \ {BlockEnd}
    <3>1. PICK j \in 1 .. Len(s) : x = s[j]
      BY <2>2, <2>4 DEF ToSet
    <3>2. j - 1 \in 0 .. Size - 1 /\ j - 1 < Len(s) /\ (j - 1) + 1 = j
      BY <1>2, <1>3, <2>2
    <3>3. Follow(q, i, j - 1) = x
      BY <2>1, <3>1, <3>2
    <3>4. x \in Slot
      BY <2>2, <3>1
    <3> QED
      BY <3>2, <3>3, <3>4, EndIsNoSlot
  <2> QED
    BY <2>3, <2>4
<1>4. Len(u) <= Size /\ Len(f) <= Size /\ q.count \in Nat /\ Size - q.count \in Nat
  BY <1>2
<1>5. Follow(q, q.head, q.count) = BlockEnd /\ Follow(q, q.free, Size - q.count) = BlockEnd
  <2>1. ~(q.count < Len(u)) /\ ~(Size - q.count < Len(f))
    BY <1>2
  <2> QED
    BY <1>2, <1>4, <2>1, FollowIs
<1>6. q.count > 0 => Follow(q, q.head, q.count - 1) = q.tail
  <2>1. q.count > 0 => q.count - 1 \in Nat /\ q.count - 1 < Len(u) /\ (q.count - 1) + 1 = q.count
    BY <1>2
  <2> QED
    BY <1>2, <2>1, FollowIs
<1> QED
  BY <1>2, <1>3, <1>4, <1>5, <1>6 DEF BlocksWhole

\* The facts about the two chains that the operations need.
LEMMA LinkedFacts ==
    ASSUME NEW M, NEW q \in Queues(M), NEW u, NEW f, Linked(q, u, f)
    PROVE  /\ q \in BlockRec(M) /\ q.count \in Nat /\ q.count <= Size /\ Size \in Nat
           /\ u \in Seq(Slot) /\ Len(u) = q.count /\ f \in Seq(Slot) /\ Len(f) = Size - q.count
           /\ \A i \in 1 .. q.count : u[i] \in Slot /\ u[i] \in ToSet(u) /\ u[i] \notin ToSet(f)
           /\ \A i \in 1 .. Size - q.count : f[i] \in Slot /\ f[i] \in ToSet(f) /\ f[i] \notin ToSet(u)
           /\ \A i, j \in 1 .. q.count : i # j => u[i] # u[j]
           /\ \A i, j \in 1 .. Size - q.count : i # j => f[i] # f[j]
           /\ \A j \in 1 .. q.count : q.next[u[j]] = IF j = q.count THEN BlockEnd ELSE u[j + 1]
           /\ \A j \in 1 .. Size - q.count :
                q.next[f[j]] = IF j = Size - q.count THEN BlockEnd ELSE f[j + 1]
           /\ q.head = IF q.count = 0 THEN BlockEnd ELSE u[1]
           /\ q.free = IF q.count = Size THEN BlockEnd ELSE f[1]
           /\ BlockEnd \in 0 .. Size /\ \A s \in Slot : s \in 0 .. Size
<1>1. q \in BlockRec(M) /\ q.count \in 0 .. Size
  BY DEF Queues, BlockRec
<1>2. q.count \in Nat /\ q.count <= Size /\ Size \in Nat
  BY <1>1, EndIsNoSlot
<1>3. /\ u \in Seq(Slot) /\ Len(u) = q.count /\ f \in Seq(Slot) /\ Len(f) = Size - q.count
      /\ IsInjective(u) /\ IsInjective(f) /\ ToSet(u) \cap ToSet(f) = {}
      /\ Chain(q, q.head, u) /\ Chain(q, q.free, f)
  BY DEF Linked
<1>4. DOMAIN u = 1 .. q.count /\ DOMAIN f = 1 .. Size - q.count
  BY <1>2, <1>3
<1>5. \A i \in 1 .. q.count : u[i] \in Slot /\ u[i] \in ToSet(u) /\ u[i] \notin ToSet(f)
  <2>1. \A i \in 1 .. q.count : u[i] \in ToSet(u)
    BY <1>4 DEF ToSet
  <2>2. \A i \in 1 .. q.count : u[i] \in Slot
    BY <1>3, <1>4
  <2> QED
    BY <1>3, <2>1, <2>2
<1>6. \A i \in 1 .. Size - q.count : f[i] \in Slot /\ f[i] \in ToSet(f) /\ f[i] \notin ToSet(u)
  <2>1. \A i \in 1 .. Size - q.count : f[i] \in ToSet(f)
    BY <1>4 DEF ToSet
  <2>2. \A i \in 1 .. Size - q.count : f[i] \in Slot
    BY <1>3, <1>4
  <2> QED
    BY <1>3, <2>1, <2>2
<1>7. \A i, j \in 1 .. q.count : i # j => u[i] # u[j]
  BY <1>3, <1>4 DEF IsInjective
<1>8. \A i, j \in 1 .. Size - q.count : i # j => f[i] # f[j]
  BY <1>3, <1>4 DEF IsInjective
<1>9. \A j \in 1 .. q.count : q.next[u[j]] = IF j = q.count THEN BlockEnd ELSE u[j + 1]
  <2>1. \A j \in 1 .. q.count : j \in 0 .. Len(u) /\ j # 0
    BY <1>2, <1>3
  <2> QED
    BY <1>3, <2>1 DEF Chain
<1>10. \A j \in 1 .. Size - q.count : q.next[f[j]] = IF j = Size - q.count THEN BlockEnd ELSE f[j + 1]
  <2>1. \A j \in 1 .. Size - q.count : j \in 0 .. Len(f) /\ j # 0
    BY <1>2, <1>3
  <2> QED
    BY <1>3, <2>1 DEF Chain
<1>11. q.head = IF q.count = 0 THEN BlockEnd ELSE u[1]
  <2>1. 0 \in 0 .. Len(u)
    BY <1>2, <1>3
  <2> QED
    BY <1>2, <1>3, <2>1 DEF Chain
<1>12. q.free = IF q.count = Size THEN BlockEnd ELSE f[1]
  <2>1. 0 \in 0 .. Len(f) /\ (0 = Len(f) <=> q.count = Size)
    BY <1>2, <1>3
  <2> QED
    BY <1>3, <2>1 DEF Chain
<1>13. BlockEnd \in 0 .. Size /\ \A s \in Slot : s \in 0 .. Size
  BY <1>2 DEF BlockEnd, Slot
<1> QED
  BY <1>1, <1>2, <1>3, <1>5, <1>6, <1>7, <1>8, <1>9, <1>10, <1>11, <1>12, <1>13

\* A state is a queue of messages when it is linked and holds messages.
LEMMA LinkedIs ==
    ASSUME NEW M, NEW c \in BlockRec(M), NEW u \in Seq(Slot), NEW f \in Seq(Slot), NEW t \in Seq(M),
           Linked(c, u, f), Len(t) = c.count, \A i \in 1 .. c.count : c.data[u[i]] = t[i]
    PROVE  c \in Queues(M) /\ BlocksContents(c) = t
<1>1. c.count \in Nat
  BY EndIsNoSlot DEF BlockRec
<1>2. \A i \in 1 .. c.count : t[i] \in M
  BY <1>1
<1>3. c \in Queues(M)
  BY <1>2 DEF Queues
<1>4. /\ BlocksContents(c) = [i \in 1 .. c.count |-> c.data[u[i]]]
      /\ BlocksContents(c) \in Seq(M) /\ Len(BlocksContents(c)) = c.count
  BY <1>3, QueueContentsIs
<1>5. \A i \in 1 .. Len(BlocksContents(c)) : BlocksContents(c)[i] = t[i]
  BY <1>4
<1> QED
  BY <1>3, <1>4, <1>5, SameSeq

\* What send() writes, field by field.
LEMMA SendWrites ==
    ASSUME NEW D, NEW N, NEW h, NEW e, NEW x, NEW z, NEW m
    PROVE  BlocksSend([data |-> D, next |-> N, head |-> h, tail |-> e, free |-> x, count |-> z], m)
           = IF z = 0
             THEN [data |-> [D EXCEPT ![x] = m], next |-> [N EXCEPT ![x] = BlockEnd],
                   head |-> x, tail |-> x, free |-> N[x], count |-> z + 1]
             ELSE [data |-> [D EXCEPT ![x] = m],
                   next |-> [[N EXCEPT ![e] = x] EXCEPT ![x] = BlockEnd],
                   head |-> h, tail |-> x, free |-> N[x], count |-> z + 1]
<1> DEFINE q == [data |-> D, next |-> N, head |-> h, tail |-> e, free |-> x, count |-> z]
           d == [D EXCEPT ![x] = m]
           only == [N EXCEPT ![x] = BlockEnd]
           last == [[N EXCEPT ![e] = x] EXCEPT ![x] = BlockEnd]
           r == [data |-> d, next |-> N, head |-> h, tail |-> x, free |-> N[x], count |-> z + 1]
<1>1. BlocksSend(q, m) =
        LET w == [q EXCEPT !.free = N[x], !.data = d, !.tail = x, !.count = z + 1]
        IN IF z = 0 THEN [w EXCEPT !.head = x, !.next = [w.next EXCEPT ![x] = BlockEnd]]
           ELSE [w EXCEPT !.next = [[w.next EXCEPT ![e] = x] EXCEPT ![x] = BlockEnd]]
  BY DEF BlocksSend
<1> HIDE DEF d
<1>2. [q EXCEPT !.free = N[x], !.data = d, !.tail = x, !.count = z + 1] = r
  <2> DEFINE q1 == [data |-> D, next |-> N, head |-> h, tail |-> e, free |-> N[x], count |-> z]
             q2 == [data |-> d, next |-> N, head |-> h, tail |-> e, free |-> N[x], count |-> z]
             q3 == [data |-> d, next |-> N, head |-> h, tail |-> x, free |-> N[x], count |-> z]
  <2>1. [q EXCEPT !.free = N[x]] = q1
    OBVIOUS
  <2>2. [q1 EXCEPT !.data = d] = q2
    OBVIOUS
  <2>3. [q2 EXCEPT !.tail = x] = q3
    OBVIOUS
  <2>4. [q3 EXCEPT !.count = z + 1] = r
    OBVIOUS
  <2> HIDE DEF q, q1, q2, q3, r
  <2> QED
    BY <2>1, <2>2, <2>3, <2>4
<1>3. r.next = N
  OBVIOUS
<1>4. BlocksSend(q, m) = IF z = 0 THEN [r EXCEPT !.head = x, !.next = only]
                         ELSE [r EXCEPT !.next = last]
  BY <1>1, <1>2, <1>3
<1> HIDE DEF only, last
<1>5. [r EXCEPT !.head = x, !.next = only] =
        [data |-> d, next |-> only, head |-> x, tail |-> x, free |-> N[x], count |-> z + 1]
  <2> DEFINE r1 == [data |-> d, next |-> N, head |-> x, tail |-> x, free |-> N[x], count |-> z + 1]
             r2 == [data |-> d, next |-> only, head |-> x, tail |-> x, free |-> N[x], count |-> z + 1]
  <2>1. [r EXCEPT !.head = x] = r1
    OBVIOUS
  <2>2. [r1 EXCEPT !.next = only] = r2
    OBVIOUS
  <2> HIDE DEF r, r1
  <2> QED
    BY <2>1, <2>2
<1>6. [r EXCEPT !.next = last] =
        [data |-> d, next |-> last, head |-> h, tail |-> x, free |-> N[x], count |-> z + 1]
  OBVIOUS
<1> HIDE DEF r
<1> QED
  BY <1>4, <1>5, <1>6 DEF d, only, last

\* What urgent() writes.
LEMMA UrgentWrites ==
    ASSUME NEW D, NEW N, NEW h, NEW e, NEW x, NEW z, NEW m
    PROVE  BlocksUrgent([data |-> D, next |-> N, head |-> h, tail |-> e, free |-> x, count |-> z], m)
           = [data |-> [D EXCEPT ![x] = m], next |-> [N EXCEPT ![x] = h], head |-> x,
              tail |-> IF z = 0 THEN x ELSE e, free |-> N[x], count |-> z + 1]
<1> DEFINE q == [data |-> D, next |-> N, head |-> h, tail |-> e, free |-> x, count |-> z]
<1>1. BlocksUrgent(q, m) =
        [q EXCEPT !.free = N[x], !.data = [D EXCEPT ![x] = m], !.next = [N EXCEPT ![x] = h],
                  !.head = x, !.tail = IF z = 0 THEN x ELSE e, !.count = z + 1]
  BY DEF BlocksUrgent
<1> QED
  BY <1>1

\* What recv() writes.
LEMMA RecvWrites ==
    ASSUME NEW D, NEW N, NEW h, NEW e, NEW x, NEW z
    PROVE  BlocksRecv([data |-> D, next |-> N, head |-> h, tail |-> e, free |-> x, count |-> z])
           = [data |-> D, next |-> [N EXCEPT ![h] = x], head |-> N[h], tail |-> e, free |-> h,
              count |-> z - 1]
<1> DEFINE q == [data |-> D, next |-> N, head |-> h, tail |-> e, free |-> x, count |-> z]
<1>1. BlocksRecv(q) =
        [q EXCEPT !.head = N[h], !.count = z - 1, !.next = [N EXCEPT ![h] = x], !.free = h]
  BY DEF BlocksRecv
<1> QED
  BY <1>1

\* A block linked in front of a chain.
LEMMA ConsChain ==
    ASSUME NEW q, NEW c, NEW i, NEW s \in Seq(Slot), NEW x \in Slot, Chain(q, i, s),
           c.next[x] = i, \A y \in ToSet(s) : c.next[y] = q.next[y]
    PROVE  Chain(c, x, <<x>> \o s)
<1> DEFINE r == <<x>> \o s
           n == Len(s)
<1>1. /\ n \in Nat /\ Len(r) = n + 1
      /\ \A j \in 1 .. n + 1 : r[j] = IF j = 1 THEN x ELSE s[j - 1]
  BY ConsQueue
<1>2. \A j \in 1 .. n : c.next[s[j]] = q.next[s[j]]
  BY DEF ToSet
<1>3. \A j \in 0 .. n : (IF j = 0 THEN i ELSE q.next[s[j]]) = (IF j = n THEN BlockEnd ELSE s[j + 1])
  BY DEF Chain
<1> HIDE DEF r, n
<1>4. ASSUME NEW j \in 0 .. n + 1
      PROVE  (IF j = 0 THEN x ELSE c.next[r[j]]) = (IF j = n + 1 THEN BlockEnd ELSE r[j + 1])
  <2>1. CASE j = 0
    <3>1. 1 \in 1 .. n + 1 /\ j # n + 1 /\ j + 1 = 1
      BY <1>1, <2>1
    <3> QED
      BY <1>1, <2>1, <3>1
  <2>2. CASE j # 0
    <3>1. j \in 1 .. n + 1 /\ j - 1 \in 0 .. n /\ (j - 1 = n <=> j = n + 1) /\ (j - 1) + 1 = j
      BY <1>1, <2>2
    <3>2. c.next[r[j]] = IF j - 1 = 0 THEN i ELSE q.next[s[j - 1]]
      <4>1. CASE j = 1
        BY <1>1, <3>1, <4>1
      <4>2. CASE j # 1
        <5>1. j - 1 \in 1 .. n /\ j - 1 # 0
          BY <1>1, <3>1, <4>2
        <5> QED
          BY <1>1, <1>2, <3>1, <4>2, <5>1
      <4> QED
        BY <4>1, <4>2
    <3>3. c.next[r[j]] = IF j = n + 1 THEN BlockEnd ELSE s[j]
      BY <1>3, <3>1, <3>2
    <3>4. j # n + 1 => r[j + 1] = s[j]
      <4>1. j # n + 1 => j + 1 \in 1 .. n + 1 /\ j + 1 # 1 /\ (j + 1) - 1 = j
        BY <1>1, <2>2
      <4> QED
        BY <1>1, <4>1
    <3> QED
      BY <2>2, <3>3, <3>4
  <2> QED
    BY <2>1, <2>2
<1> QED
  BY <1>1, <1>4 DEF Chain, r

LEMMA HeadChain ==
    ASSUME NEW q, NEW i, NEW s \in Seq(Slot), s # <<>>, Chain(q, i, s)
    PROVE  Head(s) = i
<1> DEFINE n == Len(s)
<1>1. n \in Nat /\ n # 0 /\ Head(s) = s[1]
  OBVIOUS
<1>2. \A j \in 0 .. n : (IF j = 0 THEN i ELSE q.next[s[j]]) = (IF j = n THEN BlockEnd ELSE s[j + 1])
  BY DEF Chain
<1> HIDE DEF n
<1>3. 0 \in 0 .. n
  BY <1>1
<1> QED
  BY <1>1, <1>2, <1>3

\* The rest of a chain starts where its first block links to.
LEMMA TailChain ==
    ASSUME NEW q, NEW c, NEW i, NEW s \in Seq(Slot), s # <<>>, Chain(q, i, s),
           \A y \in ToSet(Tail(s)) : c.next[y] = q.next[y]
    PROVE  Chain(c, q.next[Head(s)], Tail(s))
<1> DEFINE r == Tail(s)
           n == Len(r)
<1>1. /\ n \in Nat /\ Len(s) = n + 1 /\ Head(s) = s[1] /\ \A j \in 1 .. n : r[j] = s[j + 1]
  OBVIOUS
<1>2. \A j \in 1 .. n : c.next[r[j]] = q.next[r[j]]
  <2>1. r \in Seq(Slot)
    BY PopQueue
  <2>2. \A y \in ToSet(r) : c.next[y] = q.next[y]
    OBVIOUS
  <2> HIDE DEF r
  <2> QED
    BY <2>1, <2>2 DEF ToSet
<1>3. \A j \in 0 .. n + 1 :
        (IF j = 0 THEN i ELSE q.next[s[j]]) = (IF j = n + 1 THEN BlockEnd ELSE s[j + 1])
  BY <1>1 DEF Chain
<1> HIDE DEF r, n
<1>4. ASSUME NEW j \in 0 .. n
      PROVE  (IF j = 0 THEN q.next[Head(s)] ELSE c.next[r[j]]) = (IF j = n THEN BlockEnd ELSE r[j + 1])
  <2>1. j + 1 \in 0 .. n + 1 /\ j + 1 # 0 /\ (j + 1 = n + 1 <=> j = n)
    BY <1>1
  <2>2. q.next[s[j + 1]] = IF j = n THEN BlockEnd ELSE s[(j + 1) + 1]
    BY <1>3, <2>1
  <2>3. j # n => r[j + 1] = s[(j + 1) + 1]
    <3>1. j # n => j + 1 \in 1 .. n
      BY <1>1
    <3> QED
      BY <1>1, <3>1
  <2>4. CASE j = 0
    BY <1>1, <2>2, <2>3, <2>4
  <2>5. CASE j # 0
    <3>1. j \in 1 .. n
      BY <1>1, <2>5
    <3> QED
      BY <1>1, <1>2, <2>2, <2>3, <2>5, <3>1
  <2> QED
    BY <2>4, <2>5
<1> QED
  BY <1>4 DEF Chain, n, r

LEMMA BlocksSendIs ==
    ASSUME NEW M, NEW q \in Queues(M), NEW m \in M, q.count < Size
    PROVE  /\ BlocksSend(q, m) \in Queues(M)
           /\ BlocksContents(BlocksSend(q, m)) = Append(BlocksContents(q), m)
<1>1. PICK u, f \in Seq(Slot) : Linked(q, u, f)
  BY DEF Queues
<1> DEFINE n == q.count
           b == f[1]
           c == BlocksSend(q, m)
           v == Append(u, b)
           e == Tail(f)
           links == IF n = 0 THEN [q.next EXCEPT ![b] = BlockEnd]
                    ELSE [[q.next EXCEPT ![q.tail] = b] EXCEPT ![b] = BlockEnd]
<1>2. /\ q \in BlockRec(M) /\ n \in Nat /\ n < Size /\ n <= Size /\ Size \in Nat
      /\ Len(u) = n /\ Len(f) = Size - n
      /\ \A i \in 1 .. n : u[i] \in Slot /\ u[i] \in ToSet(u) /\ u[i] \notin ToSet(f)
      /\ \A i \in 1 .. Size - n : f[i] \in Slot /\ f[i] \in ToSet(f) /\ f[i] \notin ToSet(u)
      /\ \A i, j \in 1 .. n : i # j => u[i] # u[j]
      /\ \A i, j \in 1 .. Size - n : i # j => f[i] # f[j]
      /\ \A j \in 1 .. n : q.next[u[j]] = IF j = n THEN BlockEnd ELSE u[j + 1]
      /\ \A j \in 1 .. Size - n : q.next[f[j]] = IF j = Size - n THEN BlockEnd ELSE f[j + 1]
      /\ q.head = IF n = 0 THEN BlockEnd ELSE u[1]
      /\ q.free = IF n = Size THEN BlockEnd ELSE f[1]
      /\ BlockEnd \in 0 .. Size /\ \A s \in Slot : s \in 0 .. Size
  <2>1. q.count < Size
    OBVIOUS
  <2> QED
    BY <1>1, <2>1, LinkedFacts
<1>3. /\ b \in Slot /\ b \in ToSet(f) /\ b \notin ToSet(u) /\ q.free = b
      /\ n > 0 => q.tail = u[n] /\ q.tail \in Slot /\ q.tail # b
  <2>1. 1 \in 1 .. Size - n /\ (n > 0 => n \in 1 .. n)
    BY <1>2
  <2>2. n > 0 => q.tail = u[n]
    BY <1>1 DEF Linked
  <2> QED
    BY <1>2, <2>1, <2>2
<1>4. /\ q.data \in [Slot -> M \cup {Nothing}] /\ q.next \in [Slot -> 0 .. Size]
      /\ q = [data |-> q.data, next |-> q.next, head |-> q.head, tail |-> q.tail,
              free |-> q.free, count |-> n]
  BY <1>2 DEF BlockRec
<1>5. /\ c.data = [q.data EXCEPT ![b] = m] /\ c.next = links
      /\ c.head = (IF n = 0 THEN b ELSE q.head) /\ c.tail = b /\ c.free = q.next[b] /\ c.count = n + 1
      /\ c = [data |-> c.data, next |-> c.next, head |-> c.head, tail |-> c.tail,
              free |-> c.free, count |-> c.count]
  <2> HIDE DEF n
  <2>1. c = IF n = 0
            THEN [data |-> [q.data EXCEPT ![b] = m], next |-> [q.next EXCEPT ![b] = BlockEnd],
                  head |-> b, tail |-> b, free |-> q.next[b], count |-> n + 1]
            ELSE [data |-> [q.data EXCEPT ![b] = m],
                  next |-> [[q.next EXCEPT ![q.tail] = b] EXCEPT ![b] = BlockEnd],
                  head |-> q.head, tail |-> b, free |-> q.next[b], count |-> n + 1]
    <3> HIDE DEF b
    <3>1. BlocksSend([data |-> q.data, next |-> q.next, head |-> q.head, tail |-> q.tail,
                      free |-> b, count |-> n], m)
          = IF n = 0
            THEN [data |-> [q.data EXCEPT ![b] = m], next |-> [q.next EXCEPT ![b] = BlockEnd],
                  head |-> b, tail |-> b, free |-> q.next[b], count |-> n + 1]
            ELSE [data |-> [q.data EXCEPT ![b] = m],
                  next |-> [[q.next EXCEPT ![q.tail] = b] EXCEPT ![b] = BlockEnd],
                  head |-> q.head, tail |-> b, free |-> q.next[b], count |-> n + 1]
      BY SendWrites, SMTT(30)
    <3> QED
      BY <1>3, <1>4, <3>1
  <2> HIDE DEF c, b
  <2>3. CASE n = 0
    BY <2>1, <2>3
  <2>4. CASE n # 0
    BY <2>1, <2>4
  <2> QED
    BY <2>3, <2>4
<1> HIDE DEF c
<1>6. /\ links \in [Slot -> 0 .. Size] /\ links[b] = BlockEnd
      /\ n > 0 => links[q.tail] = b
      /\ \A s \in Slot : s # b /\ (n > 0 => s # q.tail) => links[s] = q.next[s]
  <2>1. b \in 0 .. Size
    BY <1>2, <1>3
  <2> HIDE DEF b, n
  <2>2. CASE n = 0
    BY <1>2, <1>3, <1>4, <2>1, <2>2
  <2>3. CASE n # 0
    <3>1. n > 0
      BY <1>2, <2>3
    <3> QED
      BY <1>2, <1>3, <1>4, <2>1, <2>3, <3>1
  <2> QED
    BY <2>2, <2>3
<1> HIDE DEF links
<1>7. /\ v \in Seq(Slot) /\ Len(v) = n + 1 /\ v[n + 1] = b /\ \A i \in 1 .. n : v[i] = u[i]
      /\ ToSet(v) = ToSet(u) \cup {b} /\ IsInjective(v)
  <2>1. IsInjective(u)
    BY <1>1 DEF Linked
  <2>2. v \in Seq(Slot) /\ ToSet(v) = ToSet(u) \cup {b} /\ IsInjective(v)
    BY <1>3, <2>1, AppendQueue
  <2>3. Len(v) = n + 1 /\ v[n + 1] = b /\ \A i \in 1 .. n : v[i] = u[i]
    <3> HIDE DEF b, n
    <3> QED
      BY <1>2, <1>3
  <2> QED
    BY <2>2, <2>3
<1>8. /\ e \in Seq(Slot) /\ Len(e) = Size - (n + 1) /\ \A i \in 1 .. Size - (n + 1) : e[i] = f[i + 1]
      /\ ToSet(e) = ToSet(f) \ {b} /\ IsInjective(e)
  <2>1. f # <<>> /\ IsInjective(f) /\ Head(f) = b
    BY <1>1, <1>2 DEF Linked
  <2>2. e \in Seq(Slot) /\ ToSet(e) = ToSet(f) \ {b} /\ IsInjective(e)
    BY <2>1, PopQueue
  <2>3. Len(e) = Len(f) - 1 /\ \A i \in 1 .. Len(f) - 1 : e[i] = f[i + 1]
    BY <2>1
  <2>4. Len(f) - 1 = Size - (n + 1)
    BY <1>2
  <2> QED
    BY <2>2, <2>3, <2>4
<1> HIDE DEF v, e, b, n
<1>9. c \in BlockRec(M)
  <2>1. c.data \in [Slot -> M \cup {Nothing}]
    BY <1>3, <1>4, <1>5
  <2>2. c.head \in 0 .. Size /\ c.tail \in 0 .. Size /\ c.free \in 0 .. Size
    BY <1>2, <1>3, <1>4, <1>5 DEF BlockRec
  <2>3. c.count \in 0 .. Size
    BY <1>2, <1>5
  <2> QED
    BY <1>5, <1>6, <2>1, <2>2, <2>3 DEF BlockRec
<1>10. Chain(c, c.head, v)
  <2>1. ASSUME NEW j \in 0 .. n + 1
        PROVE  (IF j = 0 THEN c.head ELSE c.next[v[j]]) = (IF j = n + 1 THEN BlockEnd ELSE v[j + 1])
    <3>1. CASE j = 0
      <4>1. CASE n = 0
        <5>1. c.head = b /\ v[1] = b
          BY <1>5, <1>7, <4>1
        <5> QED
          BY <1>2, <3>1, <4>1, <5>1
      <4>2. CASE n # 0
        <5>1. 1 \in 1 .. n
          BY <1>2, <4>2
        <5>2. v[1] = u[1] /\ c.head = u[1]
          BY <1>2, <1>5, <1>7, <4>2, <5>1
        <5> QED
          BY <1>2, <3>1, <4>2, <5>2
      <4> QED
        BY <4>1, <4>2
    <3>2. CASE j = n + 1
      BY <1>2, <1>5, <1>6, <1>7, <3>2
    <3>3. CASE j = n /\ n # 0
      <4>1. n \in 1 .. n /\ n > 0 /\ v[n] = q.tail /\ n # n + 1
        BY <1>2, <1>3, <1>7, <3>3
      <4> QED
        BY <1>5, <1>6, <1>7, <3>3, <4>1
    <3>4. CASE j \in 1 .. n - 1
      <4>1. j \in 1 .. n /\ j + 1 \in 1 .. n /\ n \in 1 .. n /\ n > 0 /\ j # n /\ j # n + 1 /\ j # 0
        BY <1>2, <3>4
      <4>2. v[j] = u[j] /\ v[j + 1] = u[j + 1]
        BY <1>7, <4>1
      <4>4. u[j] # q.tail
        <5>1. u[j] # u[n]
          BY <1>2, <4>1
        <5> QED
          BY <1>3, <4>1, <5>1
      <4>5. u[j] # b /\ u[j] \in Slot
        BY <1>2, <1>3, <4>1
      <4>3. c.next[u[j]] = q.next[u[j]] /\ q.next[u[j]] = u[j + 1]
        BY <1>2, <1>5, <1>6, <4>1, <4>2, <4>4, <4>5
      <4> QED
        BY <4>1, <4>2, <4>3
    <3> QED
      BY <1>2, <2>1, <3>1, <3>2, <3>3, <3>4
  <2> QED
    BY <1>7, <2>1 DEF Chain
<1>11. Chain(c, c.free, e)
  <2>1. f # <<>> /\ Head(f) = b /\ Chain(q, q.free, f)
    BY <1>1, <1>2 DEF Linked, b
  <2>2. \A y \in ToSet(e) : y \in Slot /\ y # b /\ y \notin ToSet(u)
    BY <1>1, <1>8 DEF Linked
  <2>3. n > 0 => q.tail \in ToSet(u)
    <3>1. n > 0 => n \in 1 .. n
      BY <1>2
    <3> QED
      BY <1>2, <1>3, <3>1
  <2>4. \A y \in ToSet(e) : c.next[y] = q.next[y]
    BY <1>5, <1>6, <2>2, <2>3
  <2>5. Chain(c, q.next[b], Tail(f))
    <3>1. \A y \in ToSet(Tail(f)) : c.next[y] = q.next[y]
      BY <2>4 DEF e
    <3> QED
      BY <2>1, <3>1, TailChain
  <2> QED
    BY <1>5, <2>5 DEF e
<1>12. Linked(c, v, e)
  <2>1. ToSet(u) \cap ToSet(f) = {} /\ ToSet(u) \cup ToSet(f) = Slot
    BY <1>1 DEF Linked
  <2>2. ToSet(v) \cap ToSet(e) = {} /\ ToSet(v) \cup ToSet(e) = Slot
    BY <1>3, <1>7, <1>8, <2>1
  <2> QED
    BY <1>5, <1>7, <1>8, <1>10, <1>11, <2>2 DEF Linked
<1> DEFINE s == BlocksContents(q)
           t == Append(s, m)
<1>13. s \in Seq(M) /\ Len(s) = n /\ \A i \in 1 .. n : s[i] = q.data[u[i]]
  BY <1>1, QueueContentsIs DEF n
<1>14. t \in Seq(M) /\ Len(t) = n + 1 /\ t[n + 1] = m /\ \A i \in 1 .. n : t[i] = s[i]
  <2> HIDE DEF s, n
  <2> QED
    BY <1>13
<1>15. \A i \in 1 .. c.count : c.data[v[i]] = t[i]
  <2>1. ASSUME NEW i \in 1 .. n + 1 PROVE c.data[v[i]] = t[i]
    <3>1. CASE i = n + 1
      BY <1>3, <1>4, <1>5, <1>7, <1>14, <3>1
    <3>2. CASE i # n + 1
      <4>1. i \in 1 .. n
        BY <1>2, <3>2
      <4>2. u[i] # b /\ u[i] \in Slot
        BY <1>2, <1>3, <4>1
      <4> QED
        BY <1>4, <1>5, <1>7, <1>13, <1>14, <4>1, <4>2
    <3> QED
      BY <3>1, <3>2
  <2> QED
    BY <1>5, <2>1
<1> HIDE DEF t
<1>16. Len(t) = c.count
  BY <1>5, <1>14
<1>17. c \in Queues(M) /\ BlocksContents(c) = t
  <2>1. c \in BlockRec(M) /\ v \in Seq(Slot) /\ e \in Seq(Slot) /\ t \in Seq(M)
    BY <1>7, <1>8, <1>9, <1>14
  <2> QED
    BY <1>12, <1>15, <1>16, <2>1, LinkedIs
<1> QED
  BY <1>17 DEF c, t

LEMMA BlocksUrgentIs ==
    ASSUME NEW M, NEW q \in Queues(M), NEW m \in M, q.count < Size
    PROVE  /\ BlocksUrgent(q, m) \in Queues(M)
           /\ BlocksContents(BlocksUrgent(q, m)) = <<m>> \o BlocksContents(q)
<1>1. PICK u, f \in Seq(Slot) : Linked(q, u, f)
  BY DEF Queues
<1> DEFINE n == q.count
           b == q.free
           c == BlocksUrgent(q, m)
           v == <<b>> \o u
           e == Tail(f)
           s == BlocksContents(q)
           t == <<m>> \o s
<1>2. /\ n \in Nat /\ n < Size /\ Size \in Nat /\ Len(u) = n /\ Len(f) = Size - n
      /\ \A i \in 1 .. n : u[i] \in Slot /\ u[i] \in ToSet(u)
      /\ BlockEnd \in 0 .. Size /\ \A i \in Slot : i \in 0 .. Size
  BY <1>1, LinkedFacts
<1>3. /\ IsInjective(u) /\ IsInjective(f) /\ Chain(q, q.head, u) /\ Chain(q, b, f)
      /\ ToSet(u) \cap ToSet(f) = {} /\ ToSet(u) \cup ToSet(f) = Slot
      /\ n > 0 => q.tail = u[n]
  BY <1>1 DEF Linked
<1>4. /\ q.data \in [Slot -> M \cup {Nothing}] /\ q.next \in [Slot -> 0 .. Size]
      /\ q.head \in 0 .. Size /\ q.tail \in 0 .. Size
      /\ q = [data |-> q.data, next |-> q.next, head |-> q.head, tail |-> q.tail,
              free |-> b, count |-> n]
  BY DEF Queues, BlockRec
<1>5. /\ c.data = [q.data EXCEPT ![b] = m] /\ c.next = [q.next EXCEPT ![b] = q.head]
      /\ c.head = b /\ c.tail = (IF n = 0 THEN b ELSE q.tail) /\ c.free = q.next[b] /\ c.count = n + 1
      /\ c = [data |-> c.data, next |-> c.next, head |-> c.head, tail |-> c.tail,
              free |-> c.free, count |-> c.count]
  <2> HIDE DEF b, n
  <2>1. c = [data |-> [q.data EXCEPT ![b] = m], next |-> [q.next EXCEPT ![b] = q.head], head |-> b,
             tail |-> IF n = 0 THEN b ELSE q.tail, free |-> q.next[b], count |-> n + 1]
    <3>1. BlocksUrgent([data |-> q.data, next |-> q.next, head |-> q.head, tail |-> q.tail,
                        free |-> b, count |-> n], m)
          = [data |-> [q.data EXCEPT ![b] = m], next |-> [q.next EXCEPT ![b] = q.head], head |-> b,
             tail |-> IF n = 0 THEN b ELSE q.tail, free |-> q.next[b], count |-> n + 1]
      BY UrgentWrites
    <3> QED
      BY <1>4, <3>1
  <2> HIDE DEF c
  <2> QED
    BY <2>1
<1>6. /\ f # <<>> /\ Head(f) = b /\ b \in Slot /\ b \in ToSet(f) /\ b \notin ToSet(u)
      /\ e \in Seq(Slot) /\ IsInjective(e) /\ ToSet(e) = ToSet(f) \ {b}
  <2>1. f # <<>>
    BY <1>2
  <2>2. Head(f) = b
    BY <1>3, <2>1, HeadChain
  <2> QED
    BY <1>3, <2>1, <2>2, PopQueue
<1>7. Len(e) = Size - (n + 1)
  BY <1>2, <1>6
<1>8. /\ v \in Seq(Slot) /\ Len(v) = n + 1 /\ IsInjective(v) /\ ToSet(v) = ToSet(u) \cup {b}
      /\ \A i \in 1 .. n + 1 : v[i] = IF i = 1 THEN b ELSE u[i - 1]
  <2>1. /\ v \in Seq(Slot) /\ Len(v) = Len(u) + 1 /\ ToSet(v) = ToSet(u) \cup {b}
        /\ \A i \in 1 .. Len(u) + 1 : v[i] = IF i = 1 THEN b ELSE u[i - 1]
        /\ IsInjective(u) /\ b \notin ToSet(u) => IsInjective(v)
    <3> HIDE DEF b
    <3> QED
      BY <1>3, <1>6, ConsQueue
  <2> HIDE DEF v, b, n
  <2> QED
    BY <1>2, <1>3, <1>6, <2>1
<1> HIDE DEF c, v, e, n, b
<1>9. \A i \in Slot : i # b => c.next[i] = q.next[i] /\ c.data[i] = q.data[i]
  BY <1>4, <1>5
<1>10. Chain(c, c.head, v)
  <2>1. c.next[b] = q.head
    BY <1>4, <1>5, <1>6
  <2>2. \A y \in ToSet(u) : c.next[y] = q.next[y]
    BY <1>3, <1>6, <1>9
  <2> QED
    <3>1. Chain(c, b, <<b>> \o u)
      BY <1>3, <1>6, <2>1, <2>2, ConsChain
    <3> QED
      BY <1>5, <3>1 DEF v
<1>11. Chain(c, c.free, e)
  <2>1. \A y \in ToSet(e) : c.next[y] = q.next[y]
    BY <1>3, <1>6, <1>9
  <2> QED
    BY <1>3, <1>5, <1>6, <2>1, TailChain DEF e
<1>12. c.count > 0 => c.tail = v[c.count]
  <2>1. CASE n = 0
    BY <1>5, <1>8, <2>1
  <2>2. CASE n # 0
    <3>1. n > 0 /\ n + 1 \in 1 .. n + 1 /\ n + 1 # 1 /\ (n + 1) - 1 = n
      BY <1>2, <2>2
    <3> QED
      BY <1>3, <1>5, <1>8, <2>2, <3>1
  <2> QED
    BY <2>1, <2>2
<1>13. Linked(c, v, e)
  <2>1. ToSet(v) \cap ToSet(e) = {} /\ ToSet(v) \cup ToSet(e) = Slot
    BY <1>3, <1>6, <1>8
  <2> QED
    BY <1>5, <1>6, <1>7, <1>8, <1>10, <1>11, <1>12, <2>1 DEF Linked
<1>14. c \in BlockRec(M)
  <2>1. c.data \in [Slot -> M \cup {Nothing}] /\ c.next \in [Slot -> 0 .. Size]
    BY <1>4, <1>5, <1>6
  <2>2. c.head \in 0 .. Size /\ c.tail \in 0 .. Size /\ c.free \in 0 .. Size
    BY <1>2, <1>4, <1>5, <1>6
  <2>3. c.count \in 0 .. Size
    BY <1>2, <1>5
  <2> QED
    BY <1>5, <2>1, <2>2, <2>3 DEF BlockRec
<1>15. s \in Seq(M) /\ Len(s) = n /\ \A i \in 1 .. n : s[i] = q.data[u[i]]
  BY <1>1, QueueContentsIs DEF n
<1>16. t \in Seq(M) /\ Len(t) = n + 1 /\ \A i \in 1 .. n + 1 : t[i] = IF i = 1 THEN m ELSE s[i - 1]
  <2> HIDE DEF s
  <2> QED
    BY <1>15, ConsQueue
<1> HIDE DEF t, s
<1>17. \A i \in 1 .. c.count : c.data[v[i]] = t[i]
  <2>1. ASSUME NEW i \in 1 .. n + 1 PROVE c.data[v[i]] = t[i]
    <3>1. CASE i = 1
      <4>1. v[i] = b /\ t[i] = m
        BY <1>8, <1>16, <3>1
      <4>2. c.data[b] = m
        BY <1>4, <1>5, <1>6
      <4> QED
        BY <4>1, <4>2
    <3>2. CASE i # 1
      <4>1. i - 1 \in 1 .. n
        BY <1>2, <3>2
      <4>2. u[i - 1] # b /\ u[i - 1] \in Slot
        BY <1>2, <1>6, <4>1
      <4>3. v[i] = u[i - 1] /\ t[i] = s[i - 1]
        BY <1>8, <1>16, <3>2
      <4>4. c.data[u[i - 1]] = q.data[u[i - 1]] /\ s[i - 1] = q.data[u[i - 1]]
        BY <1>9, <1>15, <4>1, <4>2
      <4> QED
        BY <4>3, <4>4
    <3> QED
      BY <3>1, <3>2
  <2> QED
    BY <1>5, <2>1
<1>18. c \in Queues(M) /\ BlocksContents(c) = t
  <2>1. Len(t) = c.count
    BY <1>5, <1>16
  <2> QED
    <3>1. c \in BlockRec(M) /\ v \in Seq(Slot) /\ e \in Seq(Slot) /\ t \in Seq(M)
      BY <1>6, <1>8, <1>14, <1>16
    <3> QED
      BY <1>13, <1>17, <2>1, <3>1, LinkedIs
<1> QED
  BY <1>18 DEF c, t, s

LEMMA BlocksRecvIs ==
    ASSUME NEW M, NEW q \in Queues(M), BlocksContents(q) # <<>>
    PROVE  /\ BlocksFirst(q) = Head(BlocksContents(q))
           /\ BlocksRecv(q) \in Queues(M)
           /\ BlocksContents(BlocksRecv(q)) = Tail(BlocksContents(q))
<1>1. PICK u, f \in Seq(Slot) : Linked(q, u, f)
  BY DEF Queues
<1> DEFINE n == q.count
           b == q.head
           c == BlocksRecv(q)
           v == Tail(u)
           e == <<b>> \o f
           s == BlocksContents(q)
           t == Tail(s)
<1>2. /\ n \in Nat /\ n <= Size /\ Size \in Nat /\ Len(u) = n /\ Len(f) = Size - n
      /\ \A i \in 1 .. n : u[i] \in Slot /\ u[i] \in ToSet(u)
      /\ \A i, j \in 1 .. n : i # j => u[i] # u[j]
      /\ BlockEnd \in 0 .. Size /\ \A i \in Slot : i \in 0 .. Size
  BY <1>1, LinkedFacts
<1>3. /\ IsInjective(u) /\ IsInjective(f) /\ Chain(q, b, u) /\ Chain(q, q.free, f)
      /\ ToSet(u) \cap ToSet(f) = {} /\ ToSet(u) \cup ToSet(f) = Slot
      /\ n > 0 => q.tail = u[n]
  BY <1>1 DEF Linked
<1>4. /\ q.data \in [Slot -> M \cup {Nothing}] /\ q.next \in [Slot -> 0 .. Size]
      /\ q.free \in 0 .. Size /\ q.tail \in 0 .. Size
      /\ q = [data |-> q.data, next |-> q.next, head |-> b, tail |-> q.tail,
              free |-> q.free, count |-> n]
  BY DEF Queues, BlockRec
<1>5. /\ c.data = q.data /\ c.next = [q.next EXCEPT ![b] = q.free]
      /\ c.head = q.next[b] /\ c.tail = q.tail /\ c.free = b /\ c.count = n - 1
      /\ c = [data |-> c.data, next |-> c.next, head |-> c.head, tail |-> c.tail,
              free |-> c.free, count |-> c.count]
  <2> HIDE DEF b, n
  <2>1. c = [data |-> q.data, next |-> [q.next EXCEPT ![b] = q.free], head |-> q.next[b],
             tail |-> q.tail, free |-> b, count |-> n - 1]
    <3>1. BlocksRecv([data |-> q.data, next |-> q.next, head |-> b, tail |-> q.tail,
                      free |-> q.free, count |-> n])
          = [data |-> q.data, next |-> [q.next EXCEPT ![b] = q.free], head |-> q.next[b],
             tail |-> q.tail, free |-> b, count |-> n - 1]
      BY RecvWrites
    <3> QED
      BY <1>4, <3>1
  <2> HIDE DEF c
  <2> QED
    BY <2>1
<1>6. s \in Seq(M) /\ Len(s) = n /\ \A i \in 1 .. n : s[i] = q.data[u[i]]
  BY <1>1, QueueContentsIs
<1>7. n > 0
  <2> HIDE DEF n
  <2>1. Len(s) # 0
    BY <1>6
  <2> QED
    BY <1>2, <1>6, <2>1
<1>8. /\ u # <<>> /\ Head(u) = b /\ b \in Slot /\ b \in ToSet(u) /\ b \notin ToSet(f)
      /\ v \in Seq(Slot) /\ IsInjective(v) /\ ToSet(v) = ToSet(u) \ {b}
  <2>1. u # <<>>
    BY <1>2, <1>7
  <2>2. Head(u) = b
    BY <1>3, <2>1, HeadChain
  <2> QED
    BY <1>3, <2>1, <2>2, PopQueue
<1>9. Len(v) = n - 1 /\ \A i \in 1 .. n - 1 : v[i] = u[i + 1]
  BY <1>2, <1>8
<1>10. /\ e \in Seq(Slot) /\ Len(e) = Size - (n - 1) /\ IsInjective(e) /\ ToSet(e) = ToSet(f) \cup {b}
  <2>1. Len(e) = Len(f) + 1 /\ e \in Seq(Slot) /\ IsInjective(e) /\ ToSet(e) = ToSet(f) \cup {b}
    BY <1>3, <1>8, ConsQueue
  <2> HIDE DEF e, n
  <2> QED
    BY <1>2, <2>1
<1>11. BlocksFirst(q) = Head(s)
  <2>1. Head(u) = u[1] /\ Head(s) = s[1] /\ 1 \in 1 .. n
    BY <1>2, <1>6, <1>7, <1>8
  <2> QED
    BY <1>6, <1>8, <2>1 DEF BlocksFirst
<1> HIDE DEF c, v, e, n, b
<1>12. \A i \in Slot : i # b => c.next[i] = q.next[i]
  BY <1>4, <1>5
<1>13. Chain(c, c.head, v)
  <2>1. \A y \in ToSet(v) : c.next[y] = q.next[y]
    BY <1>3, <1>8, <1>12
  <2> QED
    BY <1>3, <1>5, <1>8, <2>1, TailChain DEF v
<1>14. Chain(c, c.free, e)
  <2>1. c.next[b] = q.free
    BY <1>4, <1>5, <1>8
  <2>2. \A y \in ToSet(f) : c.next[y] = q.next[y]
    BY <1>3, <1>8, <1>12
  <2> QED
    <3>1. Chain(c, b, <<b>> \o f)
      BY <1>3, <1>8, <2>1, <2>2, ConsChain
    <3> QED
      BY <1>5, <3>1 DEF e
<1>15. c.count > 0 => c.tail = v[c.count]
  <2>1. n - 1 > 0 => n - 1 \in 1 .. n - 1 /\ (n - 1) + 1 = n
    BY <1>2
  <2> QED
    BY <1>3, <1>5, <1>7, <1>9, <2>1
<1>16. Linked(c, v, e)
  <2>1. ToSet(v) \cap ToSet(e) = {} /\ ToSet(v) \cup ToSet(e) = Slot
    BY <1>3, <1>8, <1>10
  <2> QED
    BY <1>5, <1>8, <1>9, <1>10, <1>13, <1>14, <1>15, <2>1 DEF Linked
<1>17. c \in BlockRec(M)
  <2>1. c.data \in [Slot -> M \cup {Nothing}] /\ c.next \in [Slot -> 0 .. Size]
    BY <1>4, <1>5, <1>8
  <2>2. c.head \in 0 .. Size /\ c.tail \in 0 .. Size /\ c.free \in 0 .. Size
    BY <1>2, <1>4, <1>5, <1>8
  <2>3. c.count \in 0 .. Size
    BY <1>2, <1>5, <1>7
  <2> QED
    BY <1>5, <2>1, <2>2, <2>3 DEF BlockRec
<1>18. t \in Seq(M) /\ Len(t) = n - 1 /\ \A i \in 1 .. n - 1 : t[i] = s[i + 1]
  <2> HIDE DEF s
  <2>1. s # <<>>
    BY DEF s
  <2> QED
    BY <1>6, <2>1
<1> HIDE DEF t, s
<1>19. \A i \in 1 .. c.count : c.data[v[i]] = t[i]
  <2>1. ASSUME NEW i \in 1 .. n - 1 PROVE c.data[v[i]] = t[i]
    <3>1. i + 1 \in 1 .. n
      BY <1>2
    <3> QED
      BY <1>5, <1>6, <1>9, <1>18, <3>1
  <2> QED
    BY <1>5, <2>1
<1>20. c \in Queues(M) /\ BlocksContents(c) = t
  <2>1. Len(t) = c.count
    BY <1>5, <1>18
  <2> QED
    BY <1>8, <1>10, <1>16, <1>17, <1>18, <1>19, <2>1, LinkedIs
<1> QED
  BY <1>11, <1>20 DEF c, t, s

\* At first every block is free, each linked to the next.
LEMMA BlocksInitIs ==
    ASSUME NEW M
    PROVE  BlocksInit \in Queues(M) /\ BlocksContents(BlocksInit) = <<>>
<1> DEFINE q == BlocksInit
           u == <<>>
           f == [i \in 1 .. Size |-> i - 1]
<1>1. Size \in Nat /\ Size > 0 /\ BlockEnd = Size
  BY EndIsNoSlot
<1>2. /\ q.data = [i \in Slot |-> Nothing] /\ q.next = [i \in Slot |-> i + 1] /\ q.head = Size
      /\ q.tail = Size /\ q.free = 0 /\ q.count = 0
      /\ q = [data |-> q.data, next |-> q.next, head |-> q.head, tail |-> q.tail,
              free |-> q.free, count |-> q.count]
  BY <1>1 DEF BlocksInit
<1> HIDE DEF q
<1>3. q \in BlockRec(M)
  <2>1. q.next \in [Slot -> 0 .. Size]
    BY <1>1, <1>2 DEF Slot
  <2>2. q.data \in [Slot -> M \cup {Nothing}]
    BY <1>2
  <2>3. q.head \in 0 .. Size /\ q.tail \in 0 .. Size /\ q.free \in 0 .. Size /\ q.count \in 0 .. Size
    BY <1>1, <1>2
  <2> QED
    BY <1>2, <2>1, <2>2, <2>3 DEF BlockRec
<1>4. /\ f \in Seq(Slot) /\ Len(f) = Size /\ DOMAIN f = 1 .. Size
      /\ \A i \in 1 .. Size : f[i] = i - 1
  <2>1. \A i \in 1 .. Size : i - 1 \in Slot
    BY <1>1 DEF Slot
  <2>2. f \in Seq(Slot)
    BY <1>1, <2>1
  <2> QED
    BY <1>1, <2>2
<1> HIDE DEF f
<1>5. IsInjective(f)
  BY <1>4 DEF IsInjective
<1>6. ToSet(f) = Slot
  <2>1. ASSUME NEW i \in Slot PROVE i \in ToSet(f)
    <3>1. i + 1 \in 1 .. Size /\ (i + 1) - 1 = i
      BY <1>1 DEF Slot
    <3> QED
      BY <1>4, <3>1 DEF ToSet
  <2>2. ASSUME NEW i \in ToSet(f) PROVE i \in Slot
    BY <1>4 DEF ToSet
  <2> QED
    BY <2>1, <2>2
<1>7. /\ u \in Seq(Slot) /\ Len(u) = 0 /\ DOMAIN u = {} /\ IsInjective(u) /\ ToSet(u) = {}
  BY DEF IsInjective, ToSet
<1>8. Chain(q, q.head, u)
  <2>1. \A j \in 0 .. 0 : j = 0
    OBVIOUS
  <2> QED
    BY <1>1, <1>2, <1>7, <2>1 DEF Chain
<1> HIDE DEF u
<1>9. Chain(q, q.free, f)
  <2>1. ASSUME NEW j \in 0 .. Size
        PROVE  (IF j = 0 THEN q.free ELSE q.next[f[j]]) = (IF j = Size THEN BlockEnd ELSE f[j + 1])
    <3>1. j # Size => j + 1 \in 1 .. Size /\ (j + 1) - 1 = j
      BY <1>1
    <3>2. j # Size => f[j + 1] = j
      BY <1>4, <3>1
    <3>3. CASE j = 0
      BY <1>1, <1>2, <3>2, <3>3
    <3>4. CASE j # 0
      <4>1. j \in 1 .. Size /\ j - 1 \in Slot /\ (j - 1) + 1 = j
        BY <1>1, <3>4 DEF Slot
      <4>2. q.next[f[j]] = j
        BY <1>2, <1>4, <4>1
      <4> QED
        BY <1>1, <3>2, <3>4, <4>2
    <3> QED
      BY <3>3, <3>4
  <2> QED
    BY <1>4, <2>1 DEF Chain
<1>10. Linked(q, u, f)
  <2>1. Size - 0 = Size
    BY <1>1
  <2> QED
    BY <1>2, <1>4, <1>5, <1>6, <1>7, <1>8, <1>9, <2>1 DEF Linked
<1>11. q \in Queues(M) /\ BlocksContents(q) = <<>>
  <2>1. <<>> \in Seq(M) /\ Len(<<>>) = q.count /\ \A i \in 1 .. q.count : q.data[u[i]] = <<>>[i]
    BY <1>2
  <2> QED
    BY <1>3, <1>4, <1>7, <1>10, <2>1, LinkedIs
<1> QED
  BY <1>11 DEF q

\* The linked blocks of a MessageQueue are a buffer.
LEMMA BlocksIs ==
    ASSUME NEW M
    PROVE  IsBuffer(Queues(M), M, Size, BlocksInit, BlocksHasRoom, BlocksSend, BlocksUrgent,
                    BlocksFirst, BlocksRecv, BlocksContents, BlocksWhole)
<1>1. ASSUME NEW q \in Queues(M)
      PROVE  /\ BlocksWhole(q) /\ BlocksContents(q) \in Seq(M) /\ Len(BlocksContents(q)) = q.count
             /\ q.count <= Size
             /\ BlocksHasRoom(q) <=> q.count < Size
  <2>1. PICK u, f \in Seq(Slot) : Linked(q, u, f)
    BY DEF Queues
  <2>2. BlocksWhole(q)
    BY <2>1, LinkedWhole
  <2>3. BlocksContents(q) \in Seq(M) /\ Len(BlocksContents(q)) = q.count
    BY <2>1, QueueContentsIs
  <2>4. /\ q.count \in Nat /\ Size \in Nat /\ q.count <= Size
        /\ \A i \in 1 .. Size - q.count : f[i] \in Slot
        /\ q.free = IF q.count = Size THEN BlockEnd ELSE f[1]
    BY <2>1, LinkedFacts
  <2>5. q.count # Size => 1 \in 1 .. Size - q.count /\ q.count < Size
    BY <2>4
  <2> QED
    BY <2>2, <2>3, <2>4, <2>5, EndIsNoSlot DEF BlocksHasRoom
<1>2. ASSUME NEW q \in Queues(M), NEW m \in M, BlocksHasRoom(q)
      PROVE  /\ BlocksSend(q, m) \in Queues(M)
             /\ BlocksContents(BlocksSend(q, m)) = Append(BlocksContents(q), m)
             /\ BlocksUrgent(q, m) \in Queues(M)
             /\ BlocksContents(BlocksUrgent(q, m)) = <<m>> \o BlocksContents(q)
  BY <1>1, <1>2, BlocksSendIs, BlocksUrgentIs
<1>3. \A q \in Queues(M) : /\ BlocksWhole(q) /\ BlocksContents(q) \in Seq(M)
                           /\ Len(BlocksContents(q)) <= Size
                           /\ BlocksHasRoom(q) <=> Len(BlocksContents(q)) < Size
  BY <1>1
<1> QED
  BY <1>2, <1>3, BlocksInitIs, BlocksRecvIs DEF IsBuffer

\* The pairs of a ring and blocks that hold the same messages.
Boths(M) ==
    {b \in [ring : Rings(M), blocks : Queues(M)] :
       BlocksContents(b.blocks) = RingContents(b.ring)}

\* The two objects, driven by the same calls, hold the same messages and have room in the
\* same states, whatever their size: as one buffer they are what a channel asks for.
THEOREM BothIs ==
    ASSUME NEW M
    PROVE  IsBuffer(Boths(M), M, Size, BothInit, BothHaveRoom, BothSend, BothUrgent, BothFirst,
                    BothRecv, BothContents, BothAgree)
<1>1. IsBuffer(Rings(M), M, Size, RingInit, RingHasRoom, RingSend, RingUrgent, RingFirst,
               RingRecv, RingContents, AnyRing)
  BY RingIs
<1>2. IsBuffer(Queues(M), M, Size, BlocksInit, BlocksHasRoom, BlocksSend, BlocksUrgent,
               BlocksFirst, BlocksRecv, BlocksContents, BlocksWhole)
  BY BlocksIs
<1>3. BothInit \in Boths(M) /\ BothContents(BothInit) = <<>>
  BY <1>1, <1>2 DEF IsBuffer, Boths, BothInit, BothContents
<1>4. ASSUME NEW b \in Boths(M)
      PROVE  /\ b.ring \in Rings(M) /\ b.blocks \in Queues(M)
             /\ BlocksContents(b.blocks) = RingContents(b.ring)
  BY DEF Boths
<1>5. ASSUME NEW b \in Boths(M)
      PROVE  /\ BothAgree(b) /\ BothContents(b) \in Seq(M) /\ Len(BothContents(b)) <= Size
             /\ BothHaveRoom(b) <=> Len(BothContents(b)) < Size
             /\ BlocksHasRoom(b.blocks) <=> RingHasRoom(b.ring)
  <2>1. /\ RingContents(b.ring) \in Seq(M) /\ Len(RingContents(b.ring)) <= Size
        /\ RingHasRoom(b.ring) <=> Len(RingContents(b.ring)) < Size
    BY <1>1, <1>4 DEF IsBuffer
  <2>2. /\ BlocksWhole(b.blocks)
        /\ BlocksHasRoom(b.blocks) <=> Len(BlocksContents(b.blocks)) < Size
    BY <1>2, <1>4 DEF IsBuffer
  <2>3. BlocksHasRoom(b.blocks) = RingHasRoom(b.ring)
    BY <1>4, <2>1, <2>2 DEF BlocksHasRoom, RingHasRoom
  <2> QED
    BY <1>4, <2>1, <2>2, <2>3 DEF BothAgree, BothContents, BothHaveRoom
<1>6. ASSUME NEW b \in Boths(M), NEW m \in M, BothHaveRoom(b)
      PROVE  /\ BothSend(b, m) \in Boths(M)
             /\ BothContents(BothSend(b, m)) = Append(BothContents(b), m)
             /\ BothUrgent(b, m) \in Boths(M)
             /\ BothContents(BothUrgent(b, m)) = <<m>> \o BothContents(b)
  <2>1. RingHasRoom(b.ring) /\ BlocksHasRoom(b.blocks)
    BY <1>5, <1>6 DEF BothHaveRoom
  <2>2. /\ RingSend(b.ring, m) \in Rings(M) /\ RingUrgent(b.ring, m) \in Rings(M)
        /\ RingContents(RingSend(b.ring, m)) = Append(RingContents(b.ring), m)
        /\ RingContents(RingUrgent(b.ring, m)) = <<m>> \o RingContents(b.ring)
    BY <1>1, <1>4, <2>1 DEF IsBuffer
  <2>3. /\ BlocksSend(b.blocks, m) \in Queues(M) /\ BlocksUrgent(b.blocks, m) \in Queues(M)
        /\ BlocksContents(BlocksSend(b.blocks, m)) = Append(BlocksContents(b.blocks), m)
        /\ BlocksContents(BlocksUrgent(b.blocks, m)) = <<m>> \o BlocksContents(b.blocks)
    BY <1>2, <1>4, <2>1 DEF IsBuffer
  <2> QED
    BY <1>4, <2>2, <2>3 DEF Boths, BothSend, BothUrgent, BothContents
<1>7. ASSUME NEW b \in Boths(M), BothContents(b) # <<>>
      PROVE  /\ BothFirst(b) = Head(BothContents(b))
             /\ BothRecv(b) \in Boths(M) /\ BothContents(BothRecv(b)) = Tail(BothContents(b))
  <2>1. RingContents(b.ring) # <<>> /\ BlocksContents(b.blocks) # <<>>
    BY <1>4, <1>7 DEF BothContents
  <2>2. /\ RingFirst(b.ring) = Head(RingContents(b.ring)) /\ RingRecv(b.ring) \in Rings(M)
        /\ RingContents(RingRecv(b.ring)) = Tail(RingContents(b.ring))
    BY <1>1, <1>4, <2>1 DEF IsBuffer
  <2>3. /\ BlocksRecv(b.blocks) \in Queues(M)
        /\ BlocksContents(BlocksRecv(b.blocks)) = Tail(BlocksContents(b.blocks))
    BY <1>2, <1>4, <2>1 DEF IsBuffer
  <2> QED
    BY <1>4, <2>2, <2>3 DEF Boths, BothFirst, BothRecv, BothContents
<1> QED
  BY <1>3, <1>5, <1>6, <1>7 DEF IsBuffer


-----------------------------------------------------------------------------
(* The kernel record.                                                      *)

KernelRec ==
    [st : [Thread -> {"ready", "suspend", "close"}], prio : [Thread -> Nat],
     cur : Thread, run : Thread, err : [Thread -> BOOLEAN],
     armed : SUBSET Thread, sleep : SUBSET Thread, wq : [Queue -> Seq(Thread)]]

\* y is x without the waiter t, which was made ready.
Lost(x, y, t) ==
    /\ \A q \in Queue : IsInjective(y.wq[q]) /\ ToSet(y.wq[q]) = ToSet(x.wq[q]) \ {t}
    /\ y.sleep = x.sleep \ {t} /\ y.armed = x.armed \ {t}
    /\ y.st = [x.st EXCEPT ![t] = "ready"]

\* y is x with the new waiter t in the queue q.
Gained(x, y, t, q) ==
    /\ y.wq = [x.wq EXCEPT ![q] = Append(@, t)]
    /\ y.sleep = x.sleep /\ y.armed \subseteq x.armed \cup {t}
    /\ y.st = [x.st EXCEPT ![t] = "suspend"]
    /\ y.err = [x.err EXCEPT ![t] = FALSE]

LEMMA LostSound ==
    ASSUME NEW x \in KernelRec, NEW y \in KernelRec, NEW t \in Thread,
           WaitersSound(x), Lost(x, y, t)
    PROVE  /\ WaitersSound(y)
           /\ \A u \in Thread : Waits(y, u) <=> Waits(x, u) /\ u # t
<1>1. \A u \in Thread : Waits(y, u) <=> Waits(x, u) /\ u # t
  BY DEF Waits, Lost
<1>2. \A u \in y.armed : u \in Thread /\ u \in x.armed /\ u # t
  BY DEF KernelRec, Lost
<1>3. \A u \in y.armed : Waits(y, u)
  BY <1>1, <1>2 DEF WaitersSound
<1>4. \A u \in Thread : Waits(y, u) => y.st[u] = "suspend"
  BY <1>1 DEF WaitersSound, Lost, KernelRec
<1>5. \A q \in Queue : ToSet(y.wq[q]) \cap y.sleep = {}
  BY DEF WaitersSound, Lost
<1>6. \A q, r \in Queue : q # r => ToSet(y.wq[q]) \cap ToSet(y.wq[r]) = {}
  BY DEF WaitersSound, Lost
<1> QED
  BY <1>1, <1>3, <1>4, <1>5, <1>6 DEF WaitersSound, Lost

LEMMA GainedSound ==
    ASSUME NEW x \in KernelRec, NEW y \in KernelRec, NEW t \in Thread, NEW q \in Queue,
           WaitersSound(x), ~Waits(x, t), Gained(x, y, t, q)
    PROVE  /\ WaitersSound(y)
           /\ \A u \in Thread : Waits(y, u) <=> Waits(x, u) \/ u = t
           /\ ToSet(y.wq[q]) = ToSet(x.wq[q]) \cup {t}
<1>1. x.wq[q] \in Seq(Thread) /\ t \notin ToSet(x.wq[q])
  BY DEF KernelRec, Waits
<1>2. /\ ToSet(y.wq[q]) = ToSet(x.wq[q]) \cup {t} /\ IsInjective(y.wq[q])
      /\ \A r \in Queue \ {q} : y.wq[r] = x.wq[r]
  <2>1. y.wq[q] = Append(x.wq[q], t) /\ \A r \in Queue \ {q} : y.wq[r] = x.wq[r]
    BY DEF Gained, KernelRec
  <2> QED
    BY <1>1, <2>1, AppendQueue DEF WaitersSound
<1>3. y.sleep = x.sleep
  BY DEF Gained
<1>4. \A u \in Thread : Waits(y, u) <=> Waits(x, u) \/ u = t
  BY <1>2, <1>3 DEF Waits
<1>5. \A u \in Thread : Waits(y, u) => y.st[u] = "suspend"
  BY <1>4 DEF Gained, WaitersSound, KernelRec
<1>6. \A u \in y.armed : Waits(y, u)
  BY <1>4 DEF Gained, WaitersSound, KernelRec
<1>7. \A r \in Queue : ToSet(y.wq[r]) \cap y.sleep = {}
  BY <1>2, <1>3 DEF WaitersSound, Waits
<1>8. \A r, s \in Queue : r # s => ToSet(y.wq[r]) \cap ToSet(y.wq[s]) = {}
  BY <1>2 DEF WaitersSound, Waits
<1>9. \A r \in Queue : IsInjective(y.wq[r])
  BY <1>2 DEF WaitersSound
<1> QED
  BY <1>2, <1>4, <1>5, <1>6, <1>7, <1>8, <1>9 DEF WaitersSound

\* Nothing that WaitersSound looks at changes.
LEMMA SameSound ==
    ASSUME NEW x, NEW y, WaitersSound(x), y.wq = x.wq, y.sleep = x.sleep, y.armed \subseteq x.armed,
           \A t \in Thread : Waits(x, t) => y.st[t] = "suspend"
    PROVE  /\ WaitersSound(y)
           /\ \A t : Waits(y, t) <=> Waits(x, t)
  BY DEF WaitersSound, Waits

\* wake_head takes the first waiter.
LEMMA WakeHeadLost ==
    ASSUME NEW x \in KernelRec, WaitersSound(x), NEW q \in Queue, x.wq[q] # <<>>
    PROVE  LET y == WakeHead(x, q)
               t == Head(x.wq[q])
           IN  /\ y \in KernelRec /\ t \in Thread /\ Waits(x, t) /\ t \in ToSet(x.wq[q])
               /\ Lost(x, y, t)
               /\ y.wq = [x.wq EXCEPT ![q] = Tail(@)]
               /\ y.err = x.err /\ y.cur = x.cur /\ y.run = x.run /\ y.prio = x.prio
<1> DEFINE y == WakeHead(x, q)
           t == Head(x.wq[q])
<1>1. x.wq \in [Queue -> Seq(Thread)] /\ x.wq[q] \in Seq(Thread) /\ IsInjective(x.wq[q])
  BY DEF KernelRec, WaitersSound
<1>2. /\ t \in Thread /\ t \in ToSet(x.wq[q]) /\ Tail(x.wq[q]) \in Seq(Thread)
      /\ IsInjective(Tail(x.wq[q])) /\ ToSet(Tail(x.wq[q])) = ToSet(x.wq[q]) \ {t}
  BY <1>1, PopQueue
<1>3. /\ y.wq = [x.wq EXCEPT ![q] = Tail(@)]
      /\ y.err = x.err /\ y.cur = x.cur /\ y.run = x.run /\ y.prio = x.prio
      /\ y.sleep = x.sleep /\ y.armed = x.armed \ {t} /\ y.st = [x.st EXCEPT ![t] = "ready"]
      /\ y \in KernelRec
  BY <1>1, <1>2 DEF WakeHead, Wakeup, KernelRec
<1>4. /\ y.wq[q] = Tail(x.wq[q]) /\ \A r \in Queue \ {q} : y.wq[r] = x.wq[r]
  BY <1>1, <1>3
<1>5. t \notin x.sleep /\ \A r \in Queue \ {q} : t \notin ToSet(x.wq[r])
  BY <1>2 DEF WaitersSound
<1>6. \A r \in Queue : IsInjective(y.wq[r]) /\ ToSet(y.wq[r]) = ToSet(x.wq[r]) \ {t}
  BY <1>2, <1>4, <1>5 DEF WaitersSound
<1> HIDE DEF y, t
<1>7. Lost(x, y, t) /\ Waits(x, t)
  BY <1>2, <1>3, <1>5, <1>6 DEF Lost, Waits
<1> QED
  BY <1>2, <1>3, <1>7 DEF y, t

\* A timeout, and the walk of Event::send, take any thread from where it waits.
LEMMA UnqueueLost ==
    ASSUME NEW x \in KernelRec, WaitersSound(x), NEW t \in Thread
    PROVE  LET y == Wakeup(Unqueue(x, t), t)
           IN  /\ y \in KernelRec /\ Lost(x, y, t)
               /\ \A q \in Queue : t \notin ToSet(x.wq[q]) => y.wq[q] = x.wq[q]
               /\ y.err = x.err /\ y.cur = x.cur /\ y.run = x.run /\ y.prio = x.prio
<1> DEFINE y == Wakeup(Unqueue(x, t), t)
<1>1. x.wq \in [Queue -> Seq(Thread)] /\ \A q \in Queue : IsInjective(x.wq[q])
  BY DEF KernelRec, WaitersSound
<1>2. \A q \in Queue : RemoveFirst(x.wq[q], t) \in Seq(Thread)
                       /\ IsInjective(RemoveFirst(x.wq[q], t))
                       /\ ToSet(RemoveFirst(x.wq[q], t)) = ToSet(x.wq[q]) \ {t}
  BY <1>1, RemoveQueue
<1>3. /\ y.wq = [q \in Queue |-> RemoveFirst(x.wq[q], t)]
      /\ y.err = x.err /\ y.cur = x.cur /\ y.run = x.run /\ y.prio = x.prio
      /\ y.sleep = x.sleep \ {t} /\ y.armed = x.armed \ {t}
      /\ y.st = [x.st EXCEPT ![t] = "ready"]
      /\ y \in KernelRec
  BY <1>1, <1>2 DEF Unqueue, Wakeup, KernelRec
<1>4. \A q \in Queue : t \notin ToSet(x.wq[q]) => RemoveFirst(x.wq[q], t) = x.wq[q]
  <2>1. ASSUME NEW q \in Queue, t \notin ToSet(x.wq[q]) PROVE RemoveFirst(x.wq[q], t) = x.wq[q]
    <3>1. DOMAIN x.wq[q] = 1 .. Len(x.wq[q])
      BY <1>1
    <3>2. ~ \E i \in 1 .. Len(x.wq[q]) : x.wq[q][i] = t
      BY <2>1, <3>1 DEF ToSet
    <3> QED
      BY <3>2 DEF RemoveFirst
  <2> QED
    BY <2>1
<1> HIDE DEF y
<1> QED
  BY <1>2, <1>3, <1>4 DEF Lost, y

\* suspend_current puts the caller at the end.
LEMMA SuspendGained ==
    ASSUME NEW x \in KernelRec, NEW t \in Thread, NEW q \in Queue, NEW timed
    PROVE  LET y == SuspendCurrent(x, t, q, timed)
           IN  /\ y \in KernelRec /\ Gained(x, y, t, q)
               /\ y.cur = x.cur /\ y.run = x.run /\ y.prio = x.prio
<1>1. Append(x.wq[q], t) \in Seq(Thread)
  BY DEF KernelRec
<1> QED
  BY <1>1 DEF SuspendCurrent, SuspendWith, KernelRec, Gained

-----------------------------------------------------------------------------
(* The invariant of the kernel under the calls that block.                 *)

InWait == {"block", "wait"}

\* Who waits is in the middle of a blocked call and has no error yet; and CURRENT waits
\* only until the schedule() of the call that blocked it.
KernelInv ==
    /\ k \in KernelRec /\ pc \in [Thread -> Phase] /\ popped \in Thread \cup {None}
    /\ WaitersSound(k)
    /\ \A t \in Thread : Waits(k, t) => pc[t] \in InWait /\ ~k.err[t]
    /\ Waits(k, k.cur) => pc[k.cur] = "block"

\* The thread whose timer was popped still waits, or was served, and then no handler
\* suspended it meanwhile.
PoppedInv == popped # None => Waits(k, popped) \/ k.st[popped] = "ready"

SameButCur(x, y) ==
    /\ y.st = x.st /\ y.prio = x.prio /\ y.run = x.run /\ y.err = x.err
    /\ y.armed = x.armed /\ y.sleep = x.sleep /\ y.wq = x.wq

LEMMA SameWaits ==
    ASSUME NEW x, NEW y, SameButCur(x, y)
    PROVE  /\ \A t : Waits(y, t) <=> Waits(x, t)
           /\ WaitersSound(x) => WaitersSound(y)
  BY DEF SameButCur, Waits, WaitersSound

\* schedule() changes CURRENT, and makes a ready thread CURRENT.
LEMMA ScheduledIs ==
    ASSUME NEW x \in KernelRec, NEW y \in Scheduled(x)
    PROVE  y \in KernelRec /\ SameButCur(x, y) /\ y.st[y.cur] = "ready"
<1>1. PICK t \in Highest(x) : y = [x EXCEPT !.cur = t]
  BY DEF Scheduled
<1>2. t \in Thread /\ x.st[t] = "ready"
  BY <1>1 DEF Highest
<1> QED
  BY <1>1, <1>2 DEF KernelRec, SameButCur

LEMMA InHandlerIs ==
    ASSUME NEW x \in KernelRec, NEW need, NEW y \in InHandler(x, need)
    PROVE  y \in KernelRec /\ SameButCur(x, y) /\ (y.cur = x.cur \/ y.st[y.cur] = "ready")
<1>1. CASE need
  BY <1>1, ScheduledIs DEF InHandler
<1>2. CASE ~need
  BY <1>2 DEF InHandler, SameButCur
<1> QED
  BY <1>1, <1>2

LEMMA NoneNoThread == None \notin Thread /\ None \notin Queue
  BY KernelAssumption

\* A thread that makes a call, or runs again after its wait, does not wait.
LEMMA CallerRuns ==
    ASSUME KernelInv, NEW c \in Thread, Calling(c) \/ Resumed(c)
    PROVE  ~Waits(k, c) /\ k.cur = c /\ popped = None
  BY DEF KernelInv, Calling, Resumed, Executing, Executes, InWait

\* wake_head in a call of c, or of a handler (c = None), which may call schedule().
LEMMA WokenStep ==
    ASSUME KernelInv, NEW q \in Queue, NEW c \in Thread \cup {None},
           k' \in KernelRec, SameButCur(Woken(q), k'),
           k'.cur = k.cur \/ k'.st[k'.cur] = "ready",
           popped' = popped, pc' \in [Thread -> Phase],
           \A u \in Thread \ {c} : pc'[u] = pc[u],
           c \in Thread => ~Waits(k, c) /\ pc'[c] \notin InWait
    PROVE  /\ KernelInv' /\ (PoppedInv => PoppedInv')
           /\ k'.wq = IF Handover(q) THEN [k.wq EXCEPT ![q] = Tail(@)] ELSE k.wq
           /\ Handover(q) => /\ Head(k.wq[q]) \in ToSet(k.wq[q])
                             /\ Head(k.wq[q]) \in Thread \ {c}
                             /\ ~Served(Head(k.wq[q]))
           /\ \A u \in Thread : Served(u)' <=>
                /\ u # c
                /\ Served(u) \/ (Handover(q) /\ u = Head(k.wq[q]))
<1> DEFINE h == Head(k.wq[q])
<1>0. k \in KernelRec /\ WaitersSound(k) /\ popped \in Thread \cup {None}
  BY DEF KernelInv
<1>1. CASE Handover(q)
  <2> DEFINE y == WakeHead(k, q)
  <2>1. /\ y \in KernelRec /\ h \in Thread /\ Waits(k, h) /\ h \in ToSet(k.wq[q])
        /\ Lost(k, y, h) /\ y.wq = [k.wq EXCEPT ![q] = Tail(@)]
        /\ y.err = k.err /\ y.cur = k.cur
    BY <1>0, <1>1, WakeHeadLost DEF Handover
  <2>2. SameButCur(y, k')
    BY <1>1 DEF Woken
  <2> HIDE DEF y, h
  <2>3. WaitersSound(y) /\ \A u \in Thread : Waits(y, u) <=> Waits(k, u) /\ u # h
    BY <1>0, <2>1, LostSound
  <2>4. WaitersSound(k') /\ \A u \in Thread : Waits(k', u) <=> Waits(k, u) /\ u # h
    BY <2>2, <2>3, SameWaits
  <2>5. k'.err = k.err /\ k'.wq = [k.wq EXCEPT ![q] = Tail(@)] /\ k'.st = [k.st EXCEPT ![h] = "ready"]
    BY <2>1, <2>2 DEF SameButCur, Lost
  <2>6. h # c
    BY <2>1
  <2>7. \A u \in Thread : Waits(k', u) => pc'[u] \in InWait /\ ~k'.err[u]
    BY <2>4, <2>5 DEF KernelInv
  <2>8. Waits(k', k'.cur) => pc'[k'.cur] = "block"
    <3>1. SUFFICES ASSUME Waits(k', k'.cur) PROVE pc'[k'.cur] = "block"
      OBVIOUS
    <3>2. k'.cur \in Thread /\ k'.st[k'.cur] # "ready"
      BY <2>4, <3>1 DEF WaitersSound, KernelRec
    <3>3. k'.cur = k.cur /\ Waits(k, k.cur) /\ k.cur # c
      BY <2>4, <3>1, <3>2
    <3> QED
      BY <3>2, <3>3 DEF KernelInv
  <2>9. KernelInv'
    BY <1>0, <2>4, <2>7, <2>8 DEF KernelInv
  <2>10. PoppedInv => PoppedInv'
    <3>1. SUFFICES ASSUME PoppedInv, popped # None PROVE Waits(k', popped) \/ k'.st[popped] = "ready"
      BY DEF PoppedInv
    <3>2. k.st \in [Thread -> {"ready", "suspend", "close"}] /\ popped \in Thread
      BY <1>0, <3>1 DEF KernelRec
    <3> QED
      BY <2>4, <2>5, <3>1, <3>2 DEF PoppedInv
  <2>11. ~k.err[h] /\ pc[h] \in InWait
    BY <2>1 DEF KernelInv
  <2>12. \A u \in Thread : Served(u)' <=> pc'[u] \in InWait /\ ~Waits(k', u) /\ ~k'.err[u]
    BY DEF Served, InWait
  <2>13. \A u \in Thread : Served(u) <=> pc[u] \in InWait /\ ~Waits(k, u) /\ ~k.err[u]
    BY DEF Served, InWait
  <2>14. ~Served(h)
    BY <2>1 DEF Served
  <2>15. \A u \in Thread : Served(u)' <=> u # c /\ (Served(u) \/ u = h)
    BY <2>4, <2>5, <2>6, <2>11, <2>12, <2>13
  <2> QED
    BY <1>1, <2>1, <2>5, <2>6, <2>9, <2>10, <2>14, <2>15 DEF h
<1>2. CASE ~Handover(q)
  <2>1. SameButCur(k, k')
    BY <1>2 DEF Woken
  <2>2. WaitersSound(k') /\ \A u : Waits(k', u) <=> Waits(k, u)
    BY <1>0, <2>1, SameWaits
  <2>3. k'.err = k.err /\ k'.wq = k.wq /\ k'.st = k.st
    BY <2>1 DEF SameButCur
  <2>4. \A u \in Thread : Waits(k', u) => pc'[u] \in InWait /\ ~k'.err[u]
    BY <2>2, <2>3 DEF KernelInv
  <2>5. Waits(k', k'.cur) => pc'[k'.cur] = "block"
    <3>1. SUFFICES ASSUME Waits(k', k'.cur) PROVE pc'[k'.cur] = "block"
      OBVIOUS
    <3>2. k'.cur \in Thread /\ k'.st[k'.cur] # "ready"
      BY <2>2, <3>1 DEF WaitersSound, KernelRec
    <3>3. k'.cur = k.cur /\ Waits(k, k.cur) /\ k.cur # c
      BY <2>2, <3>1, <3>2
    <3> QED
      BY <3>2, <3>3 DEF KernelInv
  <2>6. KernelInv'
    BY <1>0, <2>2, <2>4, <2>5 DEF KernelInv
  <2>7. PoppedInv => PoppedInv'
    BY <2>2, <2>3 DEF PoppedInv
  <2>8. \A u \in Thread : Served(u)' <=> u # c /\ Served(u)
    BY <2>2, <2>3 DEF Served, InWait
  <2> QED
    BY <1>2, <2>3, <2>6, <2>7, <2>8
<1> QED
  BY <1>1, <1>2

\* c blocks on q.
LEMMA BlockStep ==
    ASSUME KernelInv, NEW q \in Queue, NEW c \in Thread, NEW timed,
           ~Waits(k, c), k.cur = c, popped = None,
           k' = SuspendCurrent(k, c, q, timed), Goto(c, "block"), popped' = popped
    PROVE  /\ KernelInv' /\ PoppedInv'
           /\ k'.wq = [k.wq EXCEPT ![q] = Append(@, c)] /\ k.wq \in [Queue -> Seq(Thread)]
           /\ ToSet(k'.wq[q]) = ToSet(k.wq[q]) \cup {c}
           /\ \A u \in Thread : Served(u)' <=> u # c /\ Served(u)
           /\ pc' = [pc EXCEPT ![c] = "block"]
<1>0. k \in KernelRec /\ WaitersSound(k) /\ pc \in [Thread -> Phase]
  BY DEF KernelInv
<1>1. k' \in KernelRec /\ Gained(k, k', c, q) /\ k'.cur = c
  BY <1>0, SuspendGained
<1>2. /\ WaitersSound(k') /\ \A u \in Thread : Waits(k', u) <=> Waits(k, u) \/ u = c
      /\ ToSet(k'.wq[q]) = ToSet(k.wq[q]) \cup {c}
  BY <1>0, <1>1, GainedSound
<1>3. pc' = [pc EXCEPT ![c] = "block"] /\ pc' \in [Thread -> Phase]
  BY <1>0 DEF Goto, Phase
<1>4. k'.err = [k.err EXCEPT ![c] = FALSE] /\ k.err \in [Thread -> BOOLEAN]
      /\ k'.wq = [k.wq EXCEPT ![q] = Append(@, c)] /\ k.wq \in [Queue -> Seq(Thread)]
  BY <1>0, <1>1 DEF Gained, KernelRec
<1>5. \A u \in Thread : Waits(k', u) => pc'[u] \in InWait /\ ~k'.err[u]
  BY <1>0, <1>2, <1>3, <1>4 DEF KernelInv, InWait
<1>6. KernelInv'
  BY <1>0, <1>1, <1>2, <1>3, <1>5 DEF KernelInv
<1>7. \A u \in Thread : Served(u)' <=> u # c /\ Served(u)
  BY <1>0, <1>2, <1>3, <1>4 DEF Served
<1> QED
  BY <1>2, <1>3, <1>4, <1>6, <1>7 DEF PoppedInv

\* c returns from a call that had waited.
LEMMA ReturnStep ==
    ASSUME KernelInv, NEW c \in Thread, ~Waits(k, c), k' = k, Goto(c, "run"), popped' = popped
    PROVE  /\ KernelInv' /\ (PoppedInv => PoppedInv')
           /\ \A u \in Thread : Served(u)' <=> u # c /\ Served(u)
           /\ pc' = [pc EXCEPT ![c] = "run"]
<1>1. pc' = [pc EXCEPT ![c] = "run"] /\ pc \in [Thread -> Phase] /\ pc' \in [Thread -> Phase]
  BY DEF Goto, KernelInv, Phase
<1>2. \A u \in Thread : pc'[u] = IF u = c THEN "run" ELSE pc[u]
  BY <1>1
<1>3. k.cur \in Thread
  BY DEF KernelInv, KernelRec
<1>4. KernelInv'
  BY <1>1, <1>2, <1>3 DEF KernelInv
<1> QED
  BY <1>1, <1>2, <1>4 DEF PoppedInv, Served

\* A step that changes no wait: schedule(), PendSV, suspend and resume.
LEMMA SameStep ==
    ASSUME KernelInv, k' \in KernelRec, k'.wq = k.wq, k'.sleep = k.sleep, k'.err = k.err,
           k'.armed \subseteq k.armed, popped' \in Thread \cup {None},
           \A t \in Thread : Waits(k, t) => k'.st[t] = "suspend",
           pc' \in [Thread -> Phase], \A t \in Thread : pc'[t] \in InWait <=> pc[t] \in InWait,
           Waits(k, k'.cur) => pc'[k'.cur] = "block"
    PROVE  /\ KernelInv' /\ \A t \in Thread : Served(t)' <=> Served(t)
           /\ \A t : Waits(k', t) <=> Waits(k, t)
<1>1. WaitersSound(k') /\ \A t : Waits(k', t) <=> Waits(k, t)
  <2>1. k'.armed \subseteq Thread /\ \A t \in k'.armed : Waits(k, t)
    BY DEF KernelInv, WaitersSound, KernelRec
  <2>2. \A t : Waits(k', t) <=> Waits(k, t)
    BY DEF Waits
  <2>3. \A t \in Thread : Waits(k', t) => k'.st[t] = "suspend"
    BY <2>2
  <2> QED
    BY <2>1, <2>2, <2>3 DEF WaitersSound, KernelInv
<1>2. \A t \in Thread : Waits(k', t) => pc'[t] \in InWait /\ ~k'.err[t]
  BY <1>1 DEF KernelInv
<1>3. KernelInv'
  BY <1>1, <1>2 DEF KernelInv
<1>4. \A t \in Thread : Served(t)' <=> pc'[t] \in InWait /\ ~Waits(k', t) /\ ~k'.err[t]
  BY DEF Served, InWait
<1>5. \A t \in Thread : Served(t) <=> pc[t] \in InWait /\ ~Waits(k, t) /\ ~k.err[t]
  BY DEF Served, InWait
<1> QED
  BY <1>1, <1>3, <1>4, <1>5

\* The timeout of a wait.
LEMMA TimeoutStep ==
    ASSUME KernelInv, TimerCallback
    PROVE  /\ KernelInv' /\ PoppedInv'
           /\ \A t \in Thread : Served(t)' => Served(t)
           /\ PoppedInv => \A t \in Thread : Served(t)' <=> Served(t)
           /\ \A q \in Queue : ToSet(k'.wq[q]) \subseteq ToSet(k.wq[q])
           /\ pc' = pc
<1>0. /\ k \in KernelRec /\ WaitersSound(k) /\ popped \in Thread /\ popped' = None /\ pc' = pc
      /\ pc \in [Thread -> Phase]
  BY NoneNoThread DEF KernelInv, TimerCallback
<1>1. CASE k.st[popped] # "suspend"
  <2>1. k' = k
    BY <1>1 DEF TimerCallback
  <2> QED
    BY <1>0, <2>1 DEF KernelInv, PoppedInv, Served
<1>2. CASE k.st[popped] = "suspend"
  <2> DEFINE x == [k EXCEPT !.err[popped] = TRUE]
             y == Wakeup(Unqueue(x, popped), popped)
  <2>1. k' \in InHandler(y, ReschedNeeded(k, popped))
    BY <1>2 DEF TimerCallback, TimedOut
  <2>2. x \in KernelRec /\ x.wq = k.wq /\ x.sleep = k.sleep /\ x.armed = k.armed /\ x.st = k.st
        /\ x.err = [k.err EXCEPT ![popped] = TRUE] /\ x.cur = k.cur
    BY <1>0 DEF KernelRec
  <2> HIDE DEF x
  <2>3. WaitersSound(x) /\ \A t : Waits(x, t) <=> Waits(k, t)
    BY <1>0, <2>2 DEF WaitersSound, Waits
  <2>4. y \in KernelRec /\ Lost(x, y, popped) /\ y.err = x.err /\ y.cur = x.cur
    BY <1>0, <2>2, <2>3, UnqueueLost
  <2> HIDE DEF y
  <2>5. WaitersSound(y) /\ \A t \in Thread : Waits(y, t) <=> Waits(k, t) /\ t # popped
    BY <1>0, <2>2, <2>3, <2>4, LostSound
  <2>6. k' \in KernelRec /\ SameButCur(y, k') /\ (k'.cur = y.cur \/ k'.st[k'.cur] = "ready")
    BY <2>1, <2>4, InHandlerIs
  <2>7. WaitersSound(k') /\ \A t \in Thread : Waits(k', t) <=> Waits(k, t) /\ t # popped
    BY <2>5, <2>6, SameWaits
  <2>8. k'.err = [k.err EXCEPT ![popped] = TRUE] /\ k.err \in [Thread -> BOOLEAN]
    BY <1>0, <2>2, <2>4, <2>6 DEF SameButCur, KernelRec
  <2>9. \A t \in Thread : Waits(k', t) => pc'[t] \in InWait /\ ~k'.err[t]
    BY <1>0, <2>7, <2>8 DEF KernelInv
  <2>10. Waits(k', k'.cur) => pc'[k'.cur] = "block"
    <3>1. SUFFICES ASSUME Waits(k', k'.cur) PROVE pc'[k'.cur] = "block"
      OBVIOUS
    <3>2. k'.cur \in Thread /\ k'.st[k'.cur] # "ready"
      BY <2>6, <2>7, <3>1 DEF WaitersSound, KernelRec
    <3>3. k'.cur = k.cur /\ Waits(k, k.cur)
      BY <2>2, <2>4, <2>6, <2>7, <3>1, <3>2
    <3> QED
      BY <1>0, <3>3 DEF KernelInv
  <2>11. KernelInv' /\ PoppedInv'
    BY <1>0, <2>6, <2>7, <2>9, <2>10 DEF KernelInv, PoppedInv
  <2>12. \A t \in Thread : Served(t)' <=> pc[t] \in InWait /\ ~Waits(k', t) /\ ~k'.err[t]
    BY <1>0 DEF Served, InWait
  <2>13. \A t \in Thread : Served(t) <=> pc[t] \in InWait /\ ~Waits(k, t) /\ ~k.err[t]
    BY DEF Served, InWait
  <2>14. \A t \in Thread : Served(t)' => Served(t)
    BY <2>7, <2>8, <2>12, <2>13
  <2>15. PoppedInv => \A t \in Thread : Served(t)' <=> Served(t)
    <3>1. PoppedInv => Waits(k, popped)
      BY <1>0, <1>2, NoneNoThread DEF PoppedInv
    <3> QED
      BY <2>7, <2>8, <2>12, <2>13, <3>1
  <2>16. \A q \in Queue : ToSet(k'.wq[q]) \subseteq ToSet(k.wq[q])
    BY <2>2, <2>4, <2>6 DEF Lost, SameButCur
  <2> QED
    BY <1>0, <2>11, <2>14, <2>15, <2>16
<1> QED
  BY <1>1, <1>2

\* What the kernel does between the calls: waits end by timeouts only, and only the
\* threads that wait are affected.
LEMMA KernelStep ==
    ASSUME KernelInv, Scheduling \/ Timeouts \/ PendSV \/ Resuming \/ Suspending(Pausers)
    PROVE  /\ KernelInv'
           /\ PoppedInv /\ None \notin Pausers => PoppedInv'
           /\ \A t \in Thread : Served(t)' => Served(t)
           /\ PoppedInv => \A t \in Thread : Served(t)' <=> Served(t)
           /\ \A q \in Queue : ToSet(k'.wq[q]) \subseteq ToSet(k.wq[q])
           /\ \A t \in Thread : pc'[t] \in InWait <=> pc[t] \in InWait
<1>0. /\ k \in KernelRec /\ WaitersSound(k) /\ popped \in Thread \cup {None}
      /\ pc \in [Thread -> Phase] /\ k.cur \in Thread
      /\ k.st \in [Thread -> {"ready", "suspend", "close"}]
      /\ \A t \in Thread : Waits(k, t) => k.st[t] = "suspend"
  BY DEF KernelInv, KernelRec, WaitersSound
<1>1. ASSUME NEW c \in Thread, CallSchedule(c)
      PROVE  /\ KernelInv' /\ PoppedInv' /\ k'.wq = k.wq
             /\ \A t \in Thread : Served(t)' <=> Served(t)
             /\ \A t \in Thread : pc'[t] \in InWait <=> pc[t] \in InWait
  <2>1. k' \in KernelRec /\ SameButCur(k, k') /\ k'.st[k'.cur] = "ready"
    BY <1>0, <1>1, ScheduledIs DEF CallSchedule
  <2>2. /\ pc[c] \in {"owe", "block"} /\ popped' = None /\ popped = None
        /\ pc' = [pc EXCEPT ![c] = IF pc[c] = "owe" THEN "run" ELSE "wait"]
    BY <1>1 DEF CallSchedule, Goto
  <2>3. pc' \in [Thread -> Phase] /\ \A t \in Thread : pc'[t] \in InWait <=> pc[t] \in InWait
    BY <1>0, <2>2 DEF Phase, InWait
  <2>4. k'.cur \in Thread /\ ~Waits(k, k'.cur)
    BY <1>0, <2>1 DEF KernelRec, SameButCur
  <2> QED
    BY <1>0, <2>1, <2>2, <2>3, <2>4, SameStep DEF SameButCur, PoppedInv
<1>2. ASSUME NEW t \in Thread, TimerPop(t)
      PROVE  /\ KernelInv' /\ PoppedInv' /\ k'.wq = k.wq
             /\ \A u \in Thread : Served(u)' <=> Served(u)
             /\ pc' = pc
  <2>1. k' = [k EXCEPT !.armed = @ \ {t}] /\ t \in k.armed /\ popped' = t /\ pc' = pc
    BY <1>2 DEF TimerPop
  <2>2. /\ k' \in KernelRec /\ k'.wq = k.wq /\ k'.sleep = k.sleep /\ k'.err = k.err
        /\ k'.st = k.st /\ k'.cur = k.cur /\ k'.armed \subseteq k.armed
    BY <1>0, <2>1 DEF KernelRec
  <2>3. Waits(k, t)
    BY <1>0, <2>1 DEF WaitersSound
  <2>4. Waits(k, k.cur) => pc[k.cur] = "block"
    BY DEF KernelInv
  <2>5. /\ KernelInv' /\ \A u \in Thread : Served(u)' <=> Served(u)
        /\ \A u : Waits(k', u) <=> Waits(k, u)
    BY <1>0, <2>1, <2>2, <2>4, SameStep
  <2> QED
    BY <2>1, <2>2, <2>3, <2>5 DEF PoppedInv
<1>3. CASE PendSV
  <2>1. k' = [k EXCEPT !.run = k.cur] /\ UNCHANGED <<pc, popped>> /\ popped = None
    BY <1>3 DEF PendSV, Dispatched
  <2>2. /\ k' \in KernelRec /\ k'.wq = k.wq /\ k'.sleep = k.sleep /\ k'.err = k.err
        /\ k'.st = k.st /\ k'.cur = k.cur /\ k'.armed = k.armed
    BY <1>0, <2>1 DEF KernelRec
  <2>3. Waits(k, k.cur) => pc[k.cur] = "block"
    BY DEF KernelInv
  <2>4. KernelInv' /\ \A u \in Thread : Served(u)' <=> Served(u)
    BY <1>0, <2>1, <2>2, <2>3, SameStep
  <2> QED
    BY <2>1, <2>2, <2>4 DEF PoppedInv
<1>4. ASSUME NEW c \in Caller, NEW t \in Thread,
             NEW x \in {Suspended(k, t), Wakeup(k, t)}, NEW need,
             k' \in (IF c = None THEN InHandler(x, need) ELSE {x}), popped' = popped,
             pc' = (IF c # None /\ need THEN [pc EXCEPT ![c] = "owe"] ELSE pc),
             c # None => pc[c] = "run", ~Waits(k, t)
      PROVE  /\ KernelInv' /\ k'.wq = k.wq
             /\ \A u \in Thread : Served(u)' <=> Served(u)
             /\ \A u : Waits(k', u) <=> Waits(k, u)
             /\ \A u \in Thread : pc'[u] \in InWait <=> pc[u] \in InWait
             /\ k'.st = x.st
  <2>1. /\ x \in KernelRec /\ x.wq = k.wq /\ x.sleep = k.sleep /\ x.err = k.err
        /\ x.armed \subseteq k.armed /\ x.cur = k.cur
        /\ \A u \in Thread \ {t} : x.st[u] = k.st[u]
    <3>1. CASE x = [k EXCEPT !.st[t] = "suspend"]
      BY <1>0, <3>1 DEF KernelRec
    <3>2. CASE x = [k EXCEPT !.armed = @ \ {t}, !.st[t] = "ready"]
      BY <1>0, <3>2 DEF KernelRec
    <3> QED
      BY <3>1, <3>2 DEF Suspended, Wakeup
  <2>2. /\ k' \in KernelRec /\ SameButCur(x, k') /\ (k'.cur = x.cur \/ k'.st[k'.cur] = "ready")
    <3>1. CASE c = None
      BY <1>4, <2>1, <3>1, InHandlerIs
    <3>2. CASE c # None
      BY <1>4, <2>1, <3>2 DEF SameButCur
    <3> QED
      BY <3>1, <3>2
  <2>3. pc' \in [Thread -> Phase] /\ \A u \in Thread : pc'[u] \in InWait <=> pc[u] \in InWait
    <3>1. CASE c # None /\ need
      BY <1>0, <1>4, <3>1 DEF Phase, InWait, Caller
    <3>2. CASE ~(c # None /\ need)
      BY <1>0, <1>4, <3>2
    <3> QED
      BY <3>1, <3>2
  <2>4. k'.st = x.st /\ \A u \in Thread : Waits(k, u) => k'.st[u] = "suspend"
    BY <1>0, <1>4, <2>1, <2>2 DEF SameButCur
  <2>5. Waits(k, k'.cur) => pc'[k'.cur] = "block"
    <3>1. SUFFICES ASSUME Waits(k, k'.cur) PROVE pc'[k'.cur] = "block"
      OBVIOUS
    <3>2. k'.cur \in Thread
      BY <2>2 DEF KernelRec
    <3>3. k'.cur = k.cur
      BY <2>1, <2>2, <2>4, <3>1, <3>2
    <3>4. pc[k.cur] = "block"
      BY <3>1, <3>3 DEF KernelInv
    <3>5. pc'[k.cur] = pc[k.cur]
      BY <1>0, <1>4, <3>4
    <3> QED
      BY <3>3, <3>4, <3>5
  <2>6. popped' \in Thread \cup {None}
    BY <1>0, <1>4
  <2>7. /\ k'.wq = k.wq /\ k'.sleep = k.sleep /\ k'.err = k.err /\ k'.armed \subseteq k.armed
    BY <2>1, <2>2 DEF SameButCur
  <2> QED
    BY <2>2, <2>3, <2>4, <2>5, <2>6, <2>7, SameStep
<1>5. ASSUME NEW c \in Caller, NEW t \in Thread, ResumeThread(c, t)
      PROVE  /\ KernelInv' /\ (PoppedInv => PoppedInv') /\ k'.wq = k.wq
             /\ \A u \in Thread : Served(u)' <=> Served(u)
             /\ \A u \in Thread : pc'[u] \in InWait <=> pc[u] \in InWait
  <2>1. ~Waits(k, t) /\ popped' = popped /\ (c # None => pc[c] = "run")
    BY <1>5 DEF ResumeThread, MayResume, Calling
  <2>2. /\ k' \in IF c = None THEN InHandler(Wakeup(k, t), ReschedNeeded(k, t)) ELSE {Wakeup(k, t)}
        /\ pc' = IF c # None /\ ReschedNeeded(k, t) THEN [pc EXCEPT ![c] = "owe"] ELSE pc
    BY <1>5 DEF ResumeThread
  <2>3. /\ KernelInv' /\ k'.wq = k.wq
        /\ \A u \in Thread : Served(u)' <=> Served(u)
        /\ \A u : Waits(k', u) <=> Waits(k, u)
        /\ \A u \in Thread : pc'[u] \in InWait <=> pc[u] \in InWait
        /\ k'.st = Wakeup(k, t).st
    BY <1>4, <2>1, <2>2
  <2>4. k'.st = [k.st EXCEPT ![t] = "ready"]
    BY <1>0, <2>3 DEF Wakeup, KernelRec
  <2>5. PoppedInv => PoppedInv'
    BY <1>0, <2>1, <2>3, <2>4 DEF PoppedInv
  <2> QED
    BY <2>3, <2>5
<1>6. ASSUME NEW c \in Pausers, NEW t \in Thread, SuspendThread(c, t)
      PROVE  /\ KernelInv' /\ (PoppedInv /\ c # None => PoppedInv') /\ k'.wq = k.wq
             /\ \A u \in Thread : Served(u)' <=> Served(u)
             /\ \A u \in Thread : pc'[u] \in InWait <=> pc[u] \in InWait
  <2>1. /\ ~Waits(k, t) /\ popped' = popped /\ (c # None => pc[c] = "run" /\ popped = None)
        /\ c \in Caller
    BY <1>0, <1>6, IpcAssumption DEF SuspendThread, MaySuspend, Calling, Executing
  <2>2. /\ k' \in IF c = None THEN InHandler(Suspended(k, t), ReschedNeeded(k, t)) ELSE {Suspended(k, t)}
        /\ pc' = IF c # None /\ ReschedNeeded(k, t) THEN [pc EXCEPT ![c] = "owe"] ELSE pc
    BY <1>6 DEF SuspendThread
  <2>3. /\ KernelInv' /\ k'.wq = k.wq
        /\ \A u \in Thread : Served(u)' <=> Served(u)
        /\ \A u \in Thread : pc'[u] \in InWait <=> pc[u] \in InWait
    BY <1>4, <2>1, <2>2
  <2> QED
    BY <2>1, <2>3 DEF PoppedInv
<1>7. CASE TimerCallback
  BY <1>7, TimeoutStep
<1> QED
  BY <1>1, <1>2, <1>3, <1>5, <1>6, <1>7 DEF Scheduling, Timeouts, Resuming, Suspending

-----------------------------------------------------------------------------
(* Semaphores.                                                             *)

\* The threads wait for the object of the behaviour only.
UsedQueues ==
    IF object = "semaphore" THEN {Sem} ELSE IF object = "event" THEN {Flags} ELSE {Senders, Receivers}
QueueInv ==
    /\ object \in DOMAIN User /\ UsedQueues \subseteq Queue
    /\ \A q \in Queue \ UsedQueues : k.wq[q] = <<>>

\* A thread that waits for a token has room for it.
SemInv ==
    /\ SemaphoreType
    /\ object = "semaphore" =>
         TokensAccounted /\ \A t \in Thread : pc[t] \in InWait => held[t] < MaxHeld

LEMMA HeldFinite ==
    ASSUME held \in [Holder -> 0 .. MaxHeld]
    PROVE  IsFiniteSet(HeldTokens) /\ Cardinality(HeldTokens) \in Nat
<1>1. IsFiniteSet(Holder)
  BY KernelAssumption, FS_AddElement DEF Holder
<1>2. IsFiniteSet(1 .. MaxHeld)
  BY SemaphoreAssumption, FS_Interval
<1>3. IsFiniteSet(Holder \X (1 .. MaxHeld))
  BY <1>1, <1>2, FS_Product
<1>4. HeldTokens \in SUBSET (Holder \X (1 .. MaxHeld))
  BY DEF HeldTokens
<1> QED
  BY <1>3, <1>4, FS_Subset, FS_CardinalityType

LEMMA HandedFinite == IsFiniteSet(HandedTokens) /\ Cardinality(HandedTokens) \in Nat
<1>1. HandedTokens \in SUBSET Thread
  BY DEF HandedTokens
<1> QED
  BY <1>1, KernelAssumption, FS_Subset, FS_CardinalityType

\* One more token that h holds is one more token that is held.
LEMMA HeldMore ==
    ASSUME held \in [Holder -> 0 .. MaxHeld], NEW h \in Holder, held[h] < MaxHeld,
           held' = [held EXCEPT ![h] = @ + 1]
    PROVE  /\ held' \in [Holder -> 0 .. MaxHeld]
           /\ Cardinality(HeldTokens') = Cardinality(HeldTokens) + 1
<1> DEFINE n == held[h] + 1
<1>0. MaxHeld \in Nat /\ held[h] \in 0 .. MaxHeld
  BY SemaphoreAssumption
<1>1. n \in 1 .. MaxHeld /\ held'[h] = n /\ \A g \in Holder \ {h} : held'[g] = held[g]
  BY <1>0
<1>2. held' \in [Holder -> 0 .. MaxHeld]
  BY <1>0, <1>1
<1>3. <<h, n>> \notin HeldTokens
  BY <1>0 DEF HeldTokens
<1>4. \A m \in 1 .. MaxHeld : m <= held'[h] <=> m <= held[h] \/ m = n
  BY <1>0, <1>1
<1>5. HeldTokens' = HeldTokens \cup {<<h, n>>}
  <2>1. HeldTokens' = {x \in Holder \X (1 .. MaxHeld) : x[2] <= held'[x[1]]}
    BY DEF HeldTokens
  <2>2. ASSUME NEW g \in Holder, NEW m \in 1 .. MaxHeld
        PROVE  m <= held'[g] <=> m <= held[g] \/ (g = h /\ m = n)
    BY <1>1, <1>4
  <2>3. ASSUME NEW x \in Holder \X (1 .. MaxHeld)
        PROVE  x[2] <= held'[x[1]] <=> x[2] <= held[x[1]] \/ x = <<h, n>>
    <3>1. PICK g \in Holder, m \in 1 .. MaxHeld : x = <<g, m>>
      BY <2>3
    <3>2. x[1] = g /\ x[2] = m /\ (x = <<h, n>> <=> g = h /\ m = n)
      BY <3>1
    <3> QED
      BY <2>2, <3>2
  <2>4. <<h, n>> \in Holder \X (1 .. MaxHeld)
    BY <1>1
  <2> HIDE DEF n
  <2> QED
    BY <2>1, <2>3, <2>4 DEF HeldTokens
<1> HIDE DEF n
<1> QED
  BY <1>2, <1>3, <1>5, HeldFinite, FS_AddElement

\* And one less is one less.
LEMMA HeldLess ==
    ASSUME held \in [Holder -> 0 .. MaxHeld], NEW h \in Holder, held[h] > 0,
           held' = [held EXCEPT ![h] = @ - 1]
    PROVE  /\ held' \in [Holder -> 0 .. MaxHeld]
           /\ Cardinality(HeldTokens') = Cardinality(HeldTokens) - 1 /\ Cardinality(HeldTokens') \in Nat
<1> DEFINE n == held[h]
<1>0. MaxHeld \in Nat /\ held[h] \in 0 .. MaxHeld
  BY SemaphoreAssumption
<1>1. n \in 1 .. MaxHeld /\ held'[h] = n - 1 /\ \A g \in Holder \ {h} : held'[g] = held[g]
  BY <1>0
<1>2. held' \in [Holder -> 0 .. MaxHeld]
  BY <1>0, <1>1
<1>3. <<h, n>> \in HeldTokens
  <2>1. <<h, n>> \in Holder \X (1 .. MaxHeld) /\ n <= held[h]
    BY <1>0, <1>1
  <2> QED
    BY <2>1 DEF HeldTokens
<1>4. \A m \in 1 .. MaxHeld : m <= held'[h] <=> m <= held[h] /\ m # n
  BY <1>0, <1>1
<1>5. HeldTokens' = HeldTokens \ {<<h, n>>}
  <2>1. HeldTokens' = {x \in Holder \X (1 .. MaxHeld) : x[2] <= held'[x[1]]}
    BY DEF HeldTokens
  <2>2. ASSUME NEW g \in Holder, NEW m \in 1 .. MaxHeld
        PROVE  m <= held'[g] <=> m <= held[g] /\ ~(g = h /\ m = n)
    BY <1>1, <1>4
  <2>3. ASSUME NEW x \in Holder \X (1 .. MaxHeld)
        PROVE  x[2] <= held'[x[1]] <=> x[2] <= held[x[1]] /\ x # <<h, n>>
    <3>1. PICK g \in Holder, m \in 1 .. MaxHeld : x = <<g, m>>
      BY <2>3
    <3>2. x[1] = g /\ x[2] = m /\ (x = <<h, n>> <=> g = h /\ m = n)
      BY <3>1
    <3> QED
      BY <2>2, <3>2
  <2> HIDE DEF n
  <2> QED
    BY <2>1, <2>3 DEF HeldTokens
<1> HIDE DEF n
<1>6. IsFiniteSet(HeldTokens')
  BY <1>5, HeldFinite, FS_RemoveElement
<1> QED
  BY <1>2, <1>3, <1>5, <1>6, HeldFinite, FS_RemoveElement, FS_CardinalityType

\* The thread c stops being one that was served, or becomes one.
LEMMA HandedLess ==
    ASSUME NEW c \in Thread, \A u \in Thread : Served(u)' <=> u # c /\ Served(u)
    PROVE  Cardinality(HandedTokens') = Cardinality(HandedTokens) - (IF Served(c) THEN 1 ELSE 0)
<1>1. HandedTokens' = HandedTokens \ {c} /\ (c \in HandedTokens <=> Served(c))
  BY DEF HandedTokens
<1>2. Cardinality(HandedTokens \ {c}) =
        IF c \in HandedTokens THEN Cardinality(HandedTokens) - 1 ELSE Cardinality(HandedTokens)
  BY HandedFinite, FS_RemoveElement
<1> QED
  BY <1>1, <1>2, HandedFinite

LEMMA HandedMore ==
    ASSUME NEW c \in Thread, ~Served(c), \A u \in Thread : Served(u)' <=> Served(u) \/ u = c
    PROVE  Cardinality(HandedTokens') = Cardinality(HandedTokens) + 1
<1>1. HandedTokens' = HandedTokens \cup {c} /\ c \notin HandedTokens
  BY DEF HandedTokens
<1> QED
  BY <1>1, HandedFinite, FS_AddElement

LEMMA HandedSame ==
    ASSUME \A u \in Thread : Served(u)' <=> Served(u)
    PROVE  HandedTokens' = HandedTokens
  BY DEF HandedTokens

LEMMA SemTypes ==
    ASSUME SemInv
    PROVE  /\ value \in 0 .. MaxValue /\ held \in [Holder -> 0 .. MaxHeld] /\ issued \in 0 .. MaxIssued
           /\ MaxValue \in Nat /\ MaxHeld \in Nat /\ MaxIssued \in Nat
           /\ Sem \in Queue /\ Thread \subseteq Holder /\ None \in Holder
  BY SemaphoreAssumption DEF SemInv, SemaphoreType, Holder

\* take() of a token that is there.
LEMMA TakeNowStep ==
    ASSUME SemInv, object = "semaphore", object' = object, NEW h \in Holder, TakeNow(h),
           h \in Thread => pc[h] \notin InWait
    PROVE  SemInv'
<1>1. /\ value' = value - 1 /\ value > 0 /\ held[h] < MaxHeld /\ held' = [held EXCEPT ![h] = @ + 1]
      /\ UNCHANGED <<k, pc, popped, issued>>
  BY DEF TakeNow, kvars
<1>2. held' \in [Holder -> 0 .. MaxHeld] /\ Cardinality(HeldTokens') = Cardinality(HeldTokens) + 1
  BY <1>1, SemTypes, HeldMore
<1>3. HandedTokens' = HandedTokens
  BY <1>1, HandedSame DEF Served
<1>4. TokensAccounted
  BY DEF SemInv
<1>5. value \in Nat /\ issued \in Nat /\ Cardinality(HeldTokens) \in Nat /\ Cardinality(HandedTokens) \in Nat
  BY SemTypes, HeldFinite, HandedFinite
<1>6. TokensAccounted'
  BY <1>1, <1>2, <1>3, <1>4, <1>5 DEF TokensAccounted
<1>7. \A t \in Thread : pc'[t] \in InWait => held'[t] < MaxHeld
  <2>1. ASSUME NEW t \in Thread, pc[t] \in InWait PROVE held'[t] < MaxHeld
    <3>1. t # h /\ held[t] < MaxHeld
      BY <2>1 DEF SemInv
    <3> QED
      BY <1>1, <3>1, SemTypes
  <2> QED
    BY <1>1, <2>1
<1>8. SemaphoreType'
  BY <1>1, <1>2, SemTypes DEF SemaphoreType
<1> QED
  BY <1>6, <1>7, <1>8 DEF SemInv

\* take() blocks.
LEMMA TakeBlockStep ==
    ASSUME KernelInv, SemInv, object = "semaphore", object' = object,
           NEW c \in Thread, NEW timed, Calling(c), TakeBlock(c, timed)
    PROVE  KernelInv' /\ PoppedInv' /\ SemInv' /\ \A q \in Queue \ {Sem} : k'.wq[q] = k.wq[q]
<1>1. /\ value = 0 /\ held[c] < MaxHeld /\ k' = SuspendCurrent(k, c, Sem, timed)
      /\ Goto(c, "block") /\ UNCHANGED <<value, held, issued, popped>>
  BY DEF TakeBlock, svars
<1>2. ~Waits(k, c) /\ k.cur = c /\ popped = None /\ ~Served(c)
  BY CallerRuns DEF Served, Calling
<1>3. /\ KernelInv' /\ PoppedInv' /\ k'.wq = [k.wq EXCEPT ![Sem] = Append(@, c)]
      /\ k.wq \in [Queue -> Seq(Thread)]
      /\ \A u \in Thread : Served(u)' <=> u # c /\ Served(u)
      /\ pc' = [pc EXCEPT ![c] = "block"]
  BY <1>1, <1>2, BlockStep, SemTypes
<1>4. HandedTokens' = HandedTokens /\ HeldTokens' = HeldTokens
  BY <1>1, <1>2, <1>3 DEF HandedTokens, HeldTokens
<1>5. TokensAccounted'
  BY <1>1, <1>4 DEF SemInv, TokensAccounted
<1>6. \A t \in Thread : pc'[t] \in InWait => held'[t] < MaxHeld
  BY <1>1, <1>3 DEF SemInv, KernelInv
<1> QED
  BY <1>1, <1>3, <1>5, <1>6 DEF SemInv, SemaphoreType

\* take() returns after a wait.
LEMMA TakeReturnStep ==
    ASSUME KernelInv, PoppedInv, SemInv, object = "semaphore", object' = object,
           NEW c \in Thread, TakeReturn(c)
    PROVE  KernelInv' /\ PoppedInv' /\ SemInv' /\ k' = k
<1>1. /\ Resumed(c) /\ Goto(c, "run") /\ UNCHANGED <<k, popped, value, issued>>
      /\ held' = IF k.err[c] THEN held ELSE [held EXCEPT ![c] = @ + 1]
  BY DEF TakeReturn
<1>2. ~Waits(k, c) /\ pc[c] = "wait"
  BY <1>1, CallerRuns DEF Resumed
<1>3. /\ KernelInv' /\ PoppedInv'
      /\ \A u \in Thread : Served(u)' <=> u # c /\ Served(u)
      /\ pc' = [pc EXCEPT ![c] = "run"]
  BY <1>1, <1>2, ReturnStep
<1>4. Served(c) <=> ~k.err[c]
  BY <1>2 DEF Served
<1>5. Cardinality(HandedTokens') = Cardinality(HandedTokens) - (IF Served(c) THEN 1 ELSE 0)
  BY <1>3, HandedLess
<1>6. held[c] < MaxHeld
  BY <1>2 DEF SemInv, InWait
<1>7. /\ held' \in [Holder -> 0 .. MaxHeld]
      /\ Cardinality(HeldTokens') = Cardinality(HeldTokens) + (IF Served(c) THEN 1 ELSE 0)
  <2>1. CASE k.err[c]
    <3>1. held' = held /\ HeldTokens' = HeldTokens
      BY <1>1, <2>1 DEF HeldTokens
    <3> QED
      BY <1>4, <2>1, <3>1, SemTypes, HeldFinite
  <2>2. CASE ~k.err[c]
    BY <1>1, <1>4, <1>6, <2>2, SemTypes, HeldMore
  <2> QED
    BY <2>1, <2>2
<1>8. issued = value + Cardinality(HeldTokens) + Cardinality(HandedTokens)
      /\ (value > 0 => k.wq[Sem] = <<>>)
  BY DEF SemInv, TokensAccounted
<1>9. value \in Nat /\ Cardinality(HeldTokens) \in Nat /\ Cardinality(HandedTokens) \in Nat
  BY SemTypes, HeldFinite, HandedFinite
<1>10. issued' = value' + Cardinality(HeldTokens') + Cardinality(HandedTokens')
  <2>1. CASE Served(c)
    BY <1>1, <1>5, <1>7, <1>8, <1>9, <2>1
  <2>2. CASE ~Served(c)
    BY <1>1, <1>5, <1>7, <1>8, <1>9, <2>2
  <2> QED
    BY <2>1, <2>2
<1>11. TokensAccounted'
  BY <1>1, <1>8, <1>10 DEF TokensAccounted
<1>12. \A t \in Thread : pc'[t] \in InWait => held'[t] < MaxHeld
  <2>1. ASSUME NEW t \in Thread, pc'[t] \in InWait PROVE held'[t] < MaxHeld
    <3>1. t # c /\ pc[t] \in InWait
      BY <1>3, <2>1 DEF KernelInv, InWait
    <3>2. held[t] < MaxHeld /\ held'[t] = held[t]
      BY <1>1, <3>1, SemTypes DEF SemInv
    <3> QED
      BY <3>2
  <2> QED
    BY <2>1
<1>13. SemaphoreType'
  BY <1>1, <1>7, SemTypes DEF SemaphoreType
<1> QED
  BY <1>1, <1>3, <1>11, <1>12, <1>13 DEF SemInv

\* release(), by c or by a handler (c = None).
LEMMA ReleaseStep ==
    ASSUME KernelInv, PoppedInv, SemInv, object = "semaphore", object' = object,
           NEW c \in Holder, ReleaseToken(c),
           c \in Thread => Calling(c),
           k' \in KernelRec, SameButCur(Woken(Sem), k'),
           k'.cur = k.cur \/ k'.st[k'.cur] = "ready",
           popped' = popped, pc' \in [Thread -> Phase],
           \A u \in Thread \ {c} : pc'[u] = pc[u], c \in Thread => pc'[c] \notin InWait
    PROVE  KernelInv' /\ PoppedInv' /\ SemInv' /\ \A q \in Queue \ {Sem} : k'.wq[q] = k.wq[q]
<1> DEFINE own  == IF held[c] > 0 THEN 1 ELSE 0
           kept == IF Handover(Sem) \/ value < MaxValue THEN 1 ELSE 0
<1>1. /\ own = 1 \/ issued < MaxIssued
      /\ value' = IF Handover(Sem) \/ value = MaxValue THEN value ELSE value + 1
      /\ held' = [held EXCEPT ![c] = @ - own]
      /\ issued' = issued + kept - own
  BY DEF ReleaseToken
<1>2. c \in Thread => ~Waits(k, c) /\ ~Served(c)
  BY CallerRuns DEF Served, Calling
<1>3. /\ KernelInv' /\ PoppedInv'
      /\ k'.wq = IF Handover(Sem) THEN [k.wq EXCEPT ![Sem] = Tail(@)] ELSE k.wq
      /\ Handover(Sem) => /\ Head(k.wq[Sem]) \in ToSet(k.wq[Sem])
                          /\ Head(k.wq[Sem]) \in Thread \ {c}
                          /\ ~Served(Head(k.wq[Sem]))
      /\ \A u \in Thread : Served(u)' <=>
           /\ u # c
           /\ Served(u) \/ (Handover(Sem) /\ u = Head(k.wq[Sem]))
  <2>1. c \in Thread \cup {None}
    BY DEF Holder
  <2> QED
    BY <1>2, <2>1, SemTypes, WokenStep
<1>4. Cardinality(HandedTokens') = Cardinality(HandedTokens) + (IF Handover(Sem) THEN 1 ELSE 0)
  <2>1. CASE Handover(Sem)
    <3> DEFINE h == Head(k.wq[Sem])
    <3>1. h \in Thread /\ ~Served(h) /\ \A u \in Thread : Served(u)' <=> Served(u) \/ u = h
      BY <1>2, <1>3, <2>1
    <3> HIDE DEF h
    <3> QED
      BY <2>1, <3>1, HandedMore
  <2>2. CASE ~Handover(Sem)
    <3>1. \A u \in Thread : Served(u)' <=> Served(u)
      BY <1>2, <1>3, <2>2
    <3> QED
      BY <2>2, <3>1, HandedSame, HandedFinite
  <2> QED
    BY <2>1, <2>2
<1>5. /\ held' \in [Holder -> 0 .. MaxHeld]
      /\ Cardinality(HeldTokens') = Cardinality(HeldTokens) - own
      /\ Cardinality(HeldTokens') \in Nat
  <2>1. CASE held[c] > 0
    BY <1>1, <2>1, SemTypes, HeldLess
  <2>2. CASE ~(held[c] > 0)
    <3>1. held' = held
      BY <1>1, <2>2, SemTypes
    <3> QED
      BY <2>2, <3>1, SemTypes, HeldFinite DEF HeldTokens
  <2> QED
    BY <2>1, <2>2
<1>6. issued = value + Cardinality(HeldTokens) + Cardinality(HandedTokens)
      /\ (value > 0 => k.wq[Sem] = <<>>)
  BY DEF SemInv, TokensAccounted
<1>7. /\ value \in 0 .. MaxValue /\ issued \in 0 .. MaxIssued /\ MaxValue \in Nat /\ MaxIssued \in Nat
      /\ Cardinality(HeldTokens) \in Nat /\ Cardinality(HandedTokens) \in Nat
      /\ Cardinality(HeldTokens') \in Nat
  BY <1>5, SemTypes, HeldFinite, HandedFinite
<1>8. own \in {0, 1} /\ kept \in {0, 1}
  OBVIOUS
<1>9. value' \in 0 .. MaxValue /\ value' = value + kept - (IF Handover(Sem) THEN 1 ELSE 0)
  BY <1>1, <1>7
<1> HIDE DEF own, kept
<1>10. /\ issued' = value' + Cardinality(HeldTokens') + Cardinality(HandedTokens')
       /\ Cardinality(HandedTokens') \in Nat
  <2> DEFINE handed == IF Handover(Sem) THEN 1 ELSE 0
  <2>1. handed \in {0, 1}
    OBVIOUS
  <2>2. /\ Cardinality(HandedTokens') = Cardinality(HandedTokens) + handed
        /\ value' = value + kept - handed
    BY <1>4, <1>9
  <2> HIDE DEF handed
  <2>3. issued' = issued + kept - own
    BY <1>1
  <2>4. Cardinality(HeldTokens') = Cardinality(HeldTokens) - own
    BY <1>5
  <2>5. issued = value + Cardinality(HeldTokens) + Cardinality(HandedTokens)
    BY <1>6
  <2>6. value \in Nat /\ Cardinality(HeldTokens) \in Nat /\ Cardinality(HandedTokens) \in Nat
    BY <1>7
  <2> QED
    BY <1>8, <2>1, <2>2, <2>3, <2>4, <2>5, <2>6
<1>12. issued' \in 0 .. MaxIssued
  BY <1>1, <1>7, <1>8, <1>9, <1>10
<1>13. value' > 0 => k'.wq[Sem] = <<>>
  BY <1>1, <1>3, <1>6, <1>7 DEF Handover
<1>14. TokensAccounted'
  BY <1>10, <1>13 DEF TokensAccounted
<1>15. \A t \in Thread : pc'[t] \in InWait => held'[t] < MaxHeld
  <2>1. ASSUME NEW t \in Thread, pc'[t] \in InWait PROVE held'[t] < MaxHeld
    <3>1. t # c /\ pc[t] \in InWait
      BY <2>1
    <3>2. held[t] < MaxHeld /\ held'[t] = held[t]
      BY <1>1, <3>1, SemTypes DEF SemInv
    <3> QED
      BY <3>2
  <2> QED
    BY <2>1
<1>16. \A q \in Queue \ {Sem} : k'.wq[q] = k.wq[q]
  BY <1>3 DEF KernelInv, KernelRec
<1> QED
  BY <1>3, <1>5, <1>9, <1>12, <1>14, <1>15, <1>16 DEF SemInv, SemaphoreType

\* Every step of a semaphore's users.
LEMMA SemaphoreStep ==
    ASSUME KernelInv, PoppedInv, QueueInv, SemInv, object = "semaphore", object' = object,
           SemaphoreNext(User[object])
    PROVE  KernelInv' /\ PoppedInv' /\ QueueInv' /\ SemInv'
<1>0. User[object] \subseteq Thread /\ UsedQueues' = UsedQueues /\ UsedQueues = {Sem}
  BY IpcAssumption DEF QueueInv, UsedQueues
<1>1. CASE TakeNow(None)
  <2>1. SemInv'
    BY <1>1, TakeNowStep, NoneNoThread, SemTypes
  <2>2. UNCHANGED kvars
    BY <1>1 DEF TakeNow
  <2> QED
    BY <1>0, <2>1, <2>2 DEF KernelInv, PoppedInv, QueueInv, kvars
<1>2. CASE ReleaseInHandler
  <2>1. ReleaseToken(None) /\ k' \in InHandler(Woken(Sem), Urgent(Sem)) /\ UNCHANGED <<pc, popped>>
    BY <1>2 DEF ReleaseInHandler
  <2>2. Woken(Sem) \in KernelRec /\ Woken(Sem).cur = k.cur
    BY SemTypes, WakeHeadLost DEF Woken, Handover, KernelInv
  <2>3. k' \in KernelRec /\ SameButCur(Woken(Sem), k') /\ (k'.cur = k.cur \/ k'.st[k'.cur] = "ready")
    BY <2>1, <2>2, InHandlerIs
  <2>4. pc' \in [Thread -> Phase] /\ None \notin Thread
    BY <2>1, NoneNoThread DEF KernelInv
  <2>5. KernelInv' /\ PoppedInv' /\ SemInv' /\ \A q \in Queue \ {Sem} : k'.wq[q] = k.wq[q]
    BY <2>1, <2>3, <2>4, ReleaseStep, SemTypes
  <2> QED
    BY <1>0, <2>5 DEF QueueInv
<1>3. ASSUME NEW c \in User[object], Calling(c), TakeNow(c)
      PROVE  KernelInv' /\ PoppedInv' /\ QueueInv' /\ SemInv'
  <2>1. c \in Holder /\ pc[c] \notin InWait
    BY <1>0, <1>3 DEF Calling, InWait, Holder
  <2>2. SemInv'
    BY <1>3, <2>1, TakeNowStep
  <2>3. UNCHANGED kvars
    BY <1>3 DEF TakeNow
  <2> QED
    BY <1>0, <2>2, <2>3 DEF KernelInv, PoppedInv, QueueInv, kvars
<1>4. ASSUME NEW c \in User[object], NEW timed \in Timed, Calling(c), TakeBlock(c, timed)
      PROVE  KernelInv' /\ PoppedInv' /\ QueueInv' /\ SemInv'
  <2>1. KernelInv' /\ PoppedInv' /\ SemInv' /\ \A q \in Queue \ {Sem} : k'.wq[q] = k.wq[q]
    BY <1>0, <1>4, TakeBlockStep
  <2> QED
    BY <1>0, <2>1 DEF QueueInv
<1>5. ASSUME NEW c \in User[object], Calling(c), Release(c)
      PROVE  KernelInv' /\ PoppedInv' /\ QueueInv' /\ SemInv'
  <2>1. /\ ReleaseToken(c) /\ k' = Woken(Sem) /\ popped' = popped
        /\ pc' = [pc EXCEPT ![c] = IF Urgent(Sem) THEN "owe" ELSE "run"]
    BY <1>5 DEF Release, AfterCall, Goto
  <2>2. k' \in KernelRec /\ SameButCur(Woken(Sem), k') /\ k'.cur = k.cur
    BY <2>1, SemTypes, WakeHeadLost DEF Woken, Handover, KernelInv, SameButCur
  <2>3. /\ pc' \in [Thread -> Phase] /\ \A u \in Thread \ {c} : pc'[u] = pc[u]
        /\ pc'[c] \notin InWait
    BY <1>0, <2>1 DEF KernelInv, Phase, InWait
  <2>4. c \in Holder
    BY <1>0 DEF Holder
  <2>5. KernelInv' /\ PoppedInv' /\ SemInv' /\ \A q \in Queue \ {Sem} : k'.wq[q] = k.wq[q]
    BY <1>5, <2>1, <2>2, <2>3, <2>4, ReleaseStep
  <2> QED
    BY <1>0, <2>5 DEF QueueInv
<1>6. ASSUME NEW c \in User[object], TakeReturn(c)
      PROVE  KernelInv' /\ PoppedInv' /\ QueueInv' /\ SemInv'
  BY <1>0, <1>6, TakeReturnStep DEF QueueInv
<1> QED
  BY <1>1, <1>2, <1>3, <1>4, <1>5, <1>6 DEF SemaphoreNext, SemaphoreCall

-----------------------------------------------------------------------------
(* Event groups.                                                           *)

Asked == [wanted : SUBSET Bit, all : BOOLEAN, clear : BOOLEAN]

EventInv ==
    /\ EventType
    /\ object # "event" => set = {} /\ event = [t \in Thread |-> Unset]
    /\ NoMissedEvent

LEMMA BitsFit ==
    ASSUME NEW s \in SUBSET Bit, NEW r \in Asked, Matched(s, r)
    PROVE  /\ Bits(s, r) \subseteq s \cap r.wanted /\ Matched(Bits(s, r), r)
           /\ Left(s, r) \subseteq s
           /\ r.clear => Bits(s, r) \cap Left(s, r) = {}
  BY DEF Matched, Bits, Left, Asked

LEMMA FewerMatch ==
    ASSUME NEW s \in SUBSET Bit, NEW s2 \in SUBSET s, NEW r \in Asked, ~Matched(s, r)
    PROVE  ~Matched(s2, r)
  BY DEF Matched, Asked

\* The recursion of the walk is well founded.
LEMMA WalkIs ==
    ASSUME NEW start, NEW w \in Seq(Thread)
    PROVE  /\ Walk(start, w)[0] = start
           /\ \A i \in 1 .. Len(w) : Walk(start, w)[i] = Offer(Walk(start, w)[i - 1], w[i])
<1> DEFINE Is(f, n) == f = [i \in 0 .. n |-> IF i = 0 THEN start ELSE Offer(f[i - 1], w[i])]
           Bad == {n \in Nat : ~ \E f : Is(f, n)}
<1>1. Len(w) \in Nat
  OBVIOUS
<1>2. Bad = {}
  <2>1. SUFFICES ASSUME Bad # {} PROVE FALSE
    OBVIOUS
  <2>2. PICK n \in Bad : \A m \in Bad : n <= m
    BY <2>1, LeastElement
  <2>3. n \in Nat /\ ~ \E f : Is(f, n)
    OBVIOUS
  <2>4. CASE n = 0
    <3> DEFINE f == [i \in 0 .. 0 |-> start]
    <3>1. \A i \in 0 .. 0 : (IF i = 0 THEN start ELSE Offer(f[i - 1], w[i])) = start
      OBVIOUS
    <3>2. Is(f, 0)
      BY <3>1
    <3> QED
      BY <2>3, <2>4, <3>2
  <2>5. CASE n # 0
    <3>1. n - 1 \in Nat /\ n - 1 \notin Bad
      BY <2>2, <2>3, <2>5
    <3>2. PICK g : Is(g, n - 1)
      BY <3>1
    <3> DEFINE f == [i \in 0 .. n |-> IF i = n THEN Offer(g[n - 1], w[n]) ELSE g[i]]
    <3>3. \A i \in 0 .. n - 1 : f[i] = g[i]
      BY <2>3
    <3>4. ASSUME NEW i \in 0 .. n
          PROVE  f[i] = IF i = 0 THEN start ELSE Offer(f[i - 1], w[i])
      <4>1. CASE i = n
        <5>1. f[n - 1] = g[n - 1]
          BY <2>3, <2>5, <3>3
        <5> QED
          BY <2>5, <4>1, <5>1
      <4>2. CASE i # n
        <5>1. i \in 0 .. n - 1 /\ f[i] = g[i]
          BY <2>3, <4>2
        <5>2. g[i] = IF i = 0 THEN start ELSE Offer(g[i - 1], w[i])
          BY <3>2, <5>1
        <5>3. i # 0 => f[i - 1] = g[i - 1]
          BY <2>3, <3>3, <5>1
        <5> QED
          BY <5>1, <5>2, <5>3
      <4> QED
        BY <4>1, <4>2
    <3>5. Is(f, n)
      BY <3>4
    <3> QED
      BY <2>3, <3>5
  <2> QED
    BY <2>4, <2>5
<1>3. \E f : Is(f, Len(w))
  BY <1>1, <1>2
<1>4. Walk(start, w) = CHOOSE f : Is(f, Len(w))
  BY DEF Walk
<1>5. Is(Walk(start, w), Len(w))
  BY <1>3, <1>4
<1> HIDE DEF Bad
<1>6. \A i \in 0 .. Len(w) : Walk(start, w)[i] = IF i = 0 THEN start ELSE Offer(Walk(start, w)[i - 1], w[i])
  BY <1>5
<1> QED
  BY <1>1, <1>6

\* After i waiters, send() has woken those in D: they left the queue with bits that fit,
\* each cleared bit went to one of them, and none of those passed over could be served.
WalkInv(a, bits, i, D) ==
    /\ a.k \in KernelRec /\ WaitersSound(a.k)
    /\ D \subseteq {k.wq[Flags][j] : j \in 1 .. i}
    /\ \A u \in Thread : Waits(a.k, u) <=> Waits(k, u) /\ u \notin D
    /\ \A q \in Queue \ {Flags} : a.k.wq[q] = k.wq[q]
    /\ ToSet(a.k.wq[Flags]) = ToSet(k.wq[Flags]) \ D
    /\ a.k.err = k.err /\ a.k.cur = k.cur
    /\ \A u \in Thread : a.k.st[u] = IF u \in D THEN "ready" ELSE k.st[u]
    /\ a.set \subseteq set \cup bits
    /\ \A j \in 1 .. i : k.wq[Flags][j] \notin D => ~Matched(a.set, event[k.wq[Flags][j]])
    /\ a.recv \in [Thread -> SUBSET Bit] /\ \A u \in Thread \ D : a.recv[u] = recv[u]
    /\ \A u \in D : a.recv[u] \subseteq event[u].wanted /\ Matched(a.recv[u], event[u])
    /\ \A u \in D : event[u].clear =>
         /\ a.recv[u] \cap a.set = {}
         /\ \A v \in D \ {u} : event[v].clear => a.recv[u] \cap a.recv[v] = {}

LEMMA WalkStep ==
    ASSUME KernelInv, EventType, NEW bits \in SUBSET Bit, NEW a, NEW D,
           NEW i \in 1 .. Len(k.wq[Flags]), WalkInv(a, bits, i - 1, D)
    PROVE  \E E : WalkInv(Offer(a, k.wq[Flags][i]), bits, i, E)
<1> DEFINE w == k.wq[Flags]
           t == w[i]
           r == event[t]
<1>0. /\ k \in KernelRec /\ WaitersSound(k) /\ Flags \in Queue /\ w \in Seq(Thread)
      /\ DOMAIN w = 1 .. Len(w) /\ Len(w) \in Nat /\ IsInjective(w)
      /\ set \subseteq Bit /\ event \in [Thread -> Asked]
  <2>1. k \in KernelRec /\ WaitersSound(k) /\ Flags \in Queue
    BY EventAssumption DEF KernelInv
  <2>2. w \in Seq(Thread) /\ IsInjective(w)
    BY <2>1 DEF KernelRec, WaitersSound
  <2>3. DOMAIN w = 1 .. Len(w) /\ Len(w) \in Nat
    BY <2>2
  <2>4. set \subseteq Bit /\ event \in [Thread -> Asked]
    BY DEF EventType, Asked
  <2> QED
    BY <2>1, <2>2, <2>3, <2>4
<1>1. t \in Thread /\ t \in ToSet(w) /\ r \in Asked
  BY <1>0 DEF ToSet
<1>2. a.set \in SUBSET Bit /\ a.set \subseteq set \cup bits
  BY <1>0 DEF WalkInv
<1>3. 1 .. i = (1 .. i - 1) \cup {i} /\ {w[j] : j \in 1 .. i} = {w[j] : j \in 1 .. i - 1} \cup {t}
  BY <1>0
<1>4. t \notin D
  <2>1. SUFFICES ASSUME t \in D PROVE FALSE
    OBVIOUS
  <2>2. PICK j \in 1 .. i - 1 : w[j] = t
    BY <2>1 DEF WalkInv
  <2>3. j \in DOMAIN w /\ i \in DOMAIN w /\ j # i
    BY <1>0, <2>2
  <2> QED
    BY <1>0, <2>2, <2>3 DEF IsInjective
<1>5. CASE ~Matched(a.set, r)
  <2>1. Offer(a, t) = a
    BY <1>5 DEF Offer
  <2>2. WalkInv(a, bits, i, D)
    <3>1. D \subseteq {w[j] : j \in 1 .. i}
      BY <1>3 DEF WalkInv
    <3>2. \A j \in 1 .. i : w[j] \notin D => ~Matched(a.set, event[w[j]])
      BY <1>3, <1>5 DEF WalkInv
    <3> QED
      BY <3>1, <3>2 DEF WalkInv
  <2> QED
    BY <2>1, <2>2
<1>6. CASE Matched(a.set, r)
  <2> DEFINE b == Bits(a.set, r)
             y == Wakeup(Unqueue(a.k, t), t)
             x == Offer(a, t)
             E == D \cup {t}
  <2>1. /\ x.k = y /\ x.set = Left(a.set, r) /\ x.recv = [a.recv EXCEPT ![t] = b]
    BY <1>6 DEF Offer
  <2>2. /\ b \subseteq a.set \cap r.wanted /\ Matched(b, r) /\ x.set \subseteq a.set
        /\ r.clear => b \cap x.set = {}
    <3>1. /\ b \subseteq a.set \cap r.wanted /\ Matched(b, r) /\ Left(a.set, r) \subseteq a.set
          /\ r.clear => b \cap Left(a.set, r) = {}
      <4> HIDE DEF r
      <4> QED
        BY <1>1, <1>2, <1>6, BitsFit
    <3> QED
      BY <2>1, <3>1
  <2>3. a.k \in KernelRec /\ WaitersSound(a.k)
    BY DEF WalkInv
  <2>4. /\ y \in KernelRec /\ Lost(a.k, y, t)
        /\ \A q \in Queue : t \notin ToSet(a.k.wq[q]) => y.wq[q] = a.k.wq[q]
        /\ y.err = a.k.err /\ y.cur = a.k.cur
    BY <1>1, <2>3, UnqueueLost
  <2> HIDE DEF y, b, x
  <2>5. WaitersSound(y) /\ \A u \in Thread : Waits(y, u) <=> Waits(a.k, u) /\ u # t
    BY <1>1, <2>3, <2>4, LostSound
  <2>6. \A q \in Queue \ {Flags} : t \notin ToSet(k.wq[q])
    BY <1>0, <1>1 DEF WaitersSound
  <2>7. \A q \in Queue \ {Flags} : y.wq[q] = k.wq[q]
    BY <2>4, <2>6 DEF WalkInv
  <2>8. ToSet(y.wq[Flags]) = ToSet(w) \ E
    <3>1. ToSet(y.wq[Flags]) = ToSet(a.k.wq[Flags]) \ {t}
      BY <1>0, <2>4 DEF Lost
    <3>2. ToSet(a.k.wq[Flags]) = ToSet(w) \ D
      BY DEF WalkInv
    <3> QED
      BY <3>1, <3>2
  <2>9. E \subseteq {w[j] : j \in 1 .. i}
    BY <1>3 DEF WalkInv
  <2>10. \A u \in Thread : Waits(y, u) <=> Waits(k, u) /\ u \notin E
    BY <2>5 DEF WalkInv
  <2>11. \A u \in Thread : y.st[u] = IF u \in E THEN "ready" ELSE k.st[u]
    <3>1. y.st = [a.k.st EXCEPT ![t] = "ready"] /\ a.k.st \in [Thread -> {"ready", "suspend", "close"}]
      BY <2>3, <2>4 DEF Lost, KernelRec
    <3>2. \A u \in Thread : a.k.st[u] = IF u \in D THEN "ready" ELSE k.st[u]
      BY DEF WalkInv
    <3> QED
      BY <1>1, <3>1, <3>2
  <2>12. \A j \in 1 .. i : w[j] \notin E => ~Matched(x.set, event[w[j]])
    <3>1. SUFFICES ASSUME NEW j \in 1 .. i, w[j] \notin E PROVE ~Matched(x.set, event[w[j]])
      OBVIOUS
    <3>2. j \in 1 .. i - 1 /\ w[j] \notin D
      BY <1>3, <3>1
    <3>3. ~Matched(a.set, event[w[j]])
      BY <3>2 DEF WalkInv
    <3>4. event[w[j]] \in Asked
      BY <1>0, <3>2
    <3> QED
      BY <1>2, <2>2, <3>3, <3>4, FewerMatch
  <2>13. /\ x.recv \in [Thread -> SUBSET Bit] /\ x.recv[t] = b
         /\ \A u \in Thread \ {t} : x.recv[u] = a.recv[u]
    <3>1. a.recv \in [Thread -> SUBSET Bit] /\ b \in SUBSET Bit
      BY <1>2, <2>2 DEF WalkInv
    <3> QED
      BY <1>1, <2>1, <3>1
  <2>14. \A u \in Thread \ E : x.recv[u] = recv[u]
    BY <2>13 DEF WalkInv
  <2>15. D \subseteq Thread
    BY <1>0 DEF WalkInv
  <2>16. \A u \in E : x.recv[u] \subseteq event[u].wanted /\ Matched(x.recv[u], event[u])
    BY <1>4, <2>2, <2>13, <2>15 DEF WalkInv
  <2>17. \A u \in E : event[u].clear => x.recv[u] \cap x.set = {}
    BY <1>4, <2>2, <2>13, <2>15 DEF WalkInv
  <2>18. \A u \in D : event[u].clear => x.recv[u] \cap b = {}
    BY <1>4, <2>2, <2>13, <2>15 DEF WalkInv
  <2>19. \A u, v \in E : u # v /\ event[u].clear /\ event[v].clear => x.recv[u] \cap x.recv[v] = {}
    <3>1. SUFFICES ASSUME NEW u \in E, NEW v \in E, u # v, event[u].clear, event[v].clear
                   PROVE  x.recv[u] \cap x.recv[v] = {}
      OBVIOUS
    <3>2. CASE u = t
      BY <2>13, <2>18, <3>1, <3>2
    <3>3. CASE v = t
      BY <2>13, <2>18, <3>1, <3>3
    <3>4. CASE u # t /\ v # t
      <4>1. u \in D /\ v \in D /\ x.recv[u] = a.recv[u] /\ x.recv[v] = a.recv[v]
        BY <2>13, <2>15, <3>1, <3>4
      <4> QED
        BY <3>1, <4>1 DEF WalkInv
    <3> QED
      BY <3>2, <3>3, <3>4
  <2>20. x.set \subseteq set \cup bits /\ y.err = k.err /\ y.cur = k.cur
    BY <1>2, <2>2, <2>4 DEF WalkInv
  <2> HIDE DEF E, w, t
  <2>21. WalkInv(x, bits, i, E)
    BY <2>1, <2>4, <2>5, <2>7, <2>8, <2>9, <2>10, <2>11, <2>12, <2>13, <2>14, <2>16, <2>17, <2>19, <2>20
       DEF WalkInv, w
  <2> QED
    BY <2>21 DEF x, t, w
<1> QED
  BY <1>5, <1>6

\* The whole walk.
LEMMA SentIs ==
    ASSUME KernelInv, EventType, NEW bits \in SUBSET Bit
    PROVE  \E D : WalkInv(Sent(bits), bits, Len(k.wq[Flags]), D)
<1> DEFINE w == k.wq[Flags]
           start == [k |-> k, set |-> set \cup bits, recv |-> recv, need |-> FALSE]
           f == Walk(start, w)
           Bad == {i \in Nat : i <= Len(w) /\ ~ \E D : WalkInv(f[i], bits, i, D)}
<1>0. /\ k \in KernelRec /\ WaitersSound(k) /\ Flags \in Queue /\ w \in Seq(Thread) /\ Len(w) \in Nat
      /\ recv \in [Thread -> SUBSET Bit]
  BY EventAssumption DEF KernelInv, KernelRec, EventType
<1>1. f[0] = start /\ \A i \in 1 .. Len(w) : f[i] = Offer(f[i - 1], w[i])
  <2> HIDE DEF start, w
  <2> QED
    BY <1>0, WalkIs
<1>2. WalkInv(start, bits, 0, {})
  BY <1>0 DEF WalkInv
<1>3. Sent(bits) = f[Len(w)]
  BY DEF Sent
<1> HIDE DEF f, start
<1>4. Bad = {}
  <2>1. SUFFICES ASSUME Bad # {} PROVE FALSE
    OBVIOUS
  <2>2. PICK n \in Bad : \A m \in Bad : n <= m
    BY <2>1, LeastElement
  <2>3. n \in Nat /\ n <= Len(w) /\ ~ \E D : WalkInv(f[n], bits, n, D)
    OBVIOUS
  <2>4. n # 0
    BY <1>1, <1>2, <2>3
  <2>5. n - 1 \in Nat /\ n - 1 <= Len(w) /\ n - 1 \notin Bad /\ n \in 1 .. Len(w)
    BY <1>0, <2>2, <2>3, <2>4
  <2>6. PICK D : WalkInv(f[n - 1], bits, n - 1, D)
    BY <2>5
  <2>7. \E E : WalkInv(Offer(f[n - 1], w[n]), bits, n, E)
    BY <2>5, <2>6, WalkStep
  <2> QED
    BY <1>1, <2>3, <2>5, <2>7
<1>5. \E D : WalkInv(f[Len(w)], bits, Len(w), D)
  BY <1>0, <1>4
<1> QED
  BY <1>3, <1>5

-----------------------------------------------------------------------------
\* What a step consumes is consumed once.
ConsumedStep ==
    \A t \in Thread :
      /\ Consumed(t) \cap set' = {}
      /\ \A u \in Thread \ {t} : Consumed(t) \cap Consumed(u) = {}

LEMMA NothingConsumed ==
    ASSUME \A t \in Thread : Waits(k, t) /\ ~Waits(k', t) /\ ~k'.err[t] => ~event[t].clear
    PROVE  ConsumedStep
  BY DEF ConsumedStep, Consumed

\* send(), by c or by a handler (c = None).
LEMMA SentStep ==
    ASSUME KernelInv, EventType, NoMissedEvent, NEW bits \in SUBSET Bit, NEW c,
           Sent(bits).k \in KernelRec =>
             /\ k' \in KernelRec /\ SameButCur(Sent(bits).k, k')
             /\ k'.cur = Sent(bits).k.cur \/ k'.st[k'.cur] = "ready",
           set' = Sent(bits).set, recv' = Sent(bits).recv, event' = event,
           popped' = popped, pc' \in [Thread -> Phase],
           \A u \in Thread \ {c} : pc'[u] = pc[u],
           c \in Thread => ~Waits(k, c) /\ pc[c] \notin InWait /\ pc'[c] \notin InWait
    PROVE  /\ KernelInv' /\ (PoppedInv => PoppedInv') /\ EventType' /\ NoMissedEvent'
           /\ \A q \in Queue \ {Flags} : k'.wq[q] = k.wq[q]
           /\ ConsumedStep
<1> DEFINE a == Sent(bits)
           w == k.wq[Flags]
<1>1. PICK D : WalkInv(a, bits, Len(w), D)
  BY SentIs
<1>2. /\ a.k \in KernelRec /\ WaitersSound(a.k)
      /\ D \subseteq {w[j] : j \in 1 .. Len(w)}
      /\ \A u \in Thread : Waits(a.k, u) <=> Waits(k, u) /\ u \notin D
      /\ \A q \in Queue \ {Flags} : a.k.wq[q] = k.wq[q]
      /\ ToSet(a.k.wq[Flags]) = ToSet(w) \ D
      /\ a.k.err = k.err /\ a.k.cur = k.cur
      /\ \A u \in Thread : a.k.st[u] = IF u \in D THEN "ready" ELSE k.st[u]
  BY <1>1 DEF WalkInv
<1>3. /\ a.set \subseteq set \cup bits
      /\ \A j \in 1 .. Len(w) : w[j] \notin D => ~Matched(a.set, event[w[j]])
      /\ a.recv \in [Thread -> SUBSET Bit] /\ \A u \in Thread \ D : a.recv[u] = recv[u]
      /\ \A u \in D : a.recv[u] \subseteq event[u].wanted /\ Matched(a.recv[u], event[u])
      /\ \A u \in D : event[u].clear =>
           /\ a.recv[u] \cap a.set = {}
           /\ \A v \in D \ {u} : event[v].clear => a.recv[u] \cap a.recv[v] = {}
  BY <1>1 DEF WalkInv
<1>4. /\ k \in KernelRec /\ WaitersSound(k) /\ Flags \in Queue /\ w \in Seq(Thread)
      /\ DOMAIN w = 1 .. Len(w) /\ popped \in Thread \cup {None}
  <2>1. k \in KernelRec /\ WaitersSound(k) /\ Flags \in Queue /\ popped \in Thread \cup {None}
    BY EventAssumption DEF KernelInv
  <2>2. w \in Seq(Thread)
    BY <2>1 DEF KernelRec
  <2> QED
    BY <2>1, <2>2
<1> HIDE DEF a
<1>5. /\ k' \in KernelRec /\ SameButCur(a.k, k')
      /\ k'.cur = k.cur \/ k'.st[k'.cur] = "ready"
  BY <1>2 DEF a
<1>6. WaitersSound(k') /\ \A u \in Thread : Waits(k', u) <=> Waits(k, u) /\ u \notin D
  BY <1>2, <1>5, SameWaits
<1>7. k'.err = k.err /\ k'.wq = a.k.wq /\ k'.st = a.k.st
  BY <1>2, <1>5 DEF SameButCur
<1>8. D \subseteq ToSet(w) /\ D \subseteq Thread
  BY <1>2, <1>4 DEF ToSet
<1>9. \A u \in D : Waits(k, u) /\ pc[u] \in InWait /\ u # c
  <2>1. \A u \in D : Waits(k, u)
    BY <1>4, <1>8 DEF Waits
  <2> QED
    BY <1>8, <2>1 DEF KernelInv
<1>10. \A u \in Thread : Waits(k', u) => pc'[u] \in InWait /\ ~k'.err[u]
  <2>1. \A u \in Thread : Waits(k', u) => u # c /\ pc[u] \in InWait /\ ~k.err[u]
    BY <1>6 DEF KernelInv
  <2> QED
    BY <1>7, <2>1
<1>11. Waits(k', k'.cur) => pc'[k'.cur] = "block"
  <2>1. SUFFICES ASSUME Waits(k', k'.cur) PROVE pc'[k'.cur] = "block"
    OBVIOUS
  <2>2. k'.cur \in Thread /\ k'.st[k'.cur] # "ready"
    BY <1>5, <1>6, <2>1 DEF WaitersSound, KernelRec
  <2>3. k'.cur = k.cur /\ Waits(k, k.cur) /\ k.cur # c
    BY <1>5, <1>6, <2>1, <2>2
  <2> QED
    BY <2>2, <2>3 DEF KernelInv
<1>12. KernelInv'
  BY <1>4, <1>5, <1>6, <1>10, <1>11 DEF KernelInv
<1>13. PoppedInv => PoppedInv'
  <2>1. SUFFICES ASSUME PoppedInv, popped # None PROVE Waits(k', popped) \/ k'.st[popped] = "ready"
    BY DEF PoppedInv
  <2>2. popped \in Thread /\ (Waits(k, popped) \/ k.st[popped] = "ready")
    BY <1>4, <2>1 DEF PoppedInv
  <2> QED
    BY <1>2, <1>6, <1>7, <2>2
<1>14. EventType'
  BY <1>3 DEF EventType, a
<1>15. \A t \in ToSet(k'.wq[Flags]) : ~Matched(set', event[t])
  <2>1. SUFFICES ASSUME NEW t \in ToSet(k'.wq[Flags]) PROVE ~Matched(a.set, event[t])
    BY DEF a
  <2>2. t \in ToSet(w) /\ t \notin D
    BY <1>2, <1>7, <2>1
  <2>3. PICK j \in 1 .. Len(w) : w[j] = t
    BY <1>4, <2>2 DEF ToSet
  <2> QED
    BY <1>3, <2>2, <2>3
<1>16. \A t \in Thread : Served(t)' /\ event[t] # Unset =>
         recv'[t] \subseteq event[t].wanted /\ Matched(recv'[t], event[t])
  <2>1. SUFFICES ASSUME NEW t \in Thread, Served(t)', event[t] # Unset
                 PROVE  a.recv[t] \subseteq event[t].wanted /\ Matched(a.recv[t], event[t])
    BY DEF a
  <2>2. CASE t \in D
    BY <1>3, <2>2
  <2>3. CASE t \notin D
    <3>1. pc'[t] \in InWait /\ ~Waits(k', t) /\ ~k'.err[t]
      BY <2>1 DEF Served, InWait
    <3>2. t # c /\ pc[t] \in InWait /\ ~Waits(k, t) /\ ~k.err[t]
      BY <1>6, <1>7, <2>3, <3>1
    <3>3. Served(t)
      BY <3>2 DEF Served, InWait
    <3>4. recv[t] \subseteq event[t].wanted /\ Matched(recv[t], event[t])
      BY <2>1, <3>3 DEF NoMissedEvent
    <3> QED
      BY <1>3, <2>3, <3>4
  <2> QED
    BY <2>2, <2>3
<1>17. NoMissedEvent'
  BY <1>15, <1>16 DEF NoMissedEvent, Unset
<1>18. ConsumedStep
  <2>1. set' = a.set /\ recv' = a.recv
    BY DEF a
  <2>2. \A t \in Thread : Waits(k, t) /\ ~Waits(k', t) => t \in D
    BY <1>6
  <2>3. \A t \in Thread : Consumed(t) = {} \/ (t \in D /\ event[t].clear /\ Consumed(t) = a.recv[t])
    BY <2>1, <2>2 DEF Consumed
  <2> QED
    BY <1>3, <2>1, <2>3 DEF ConsumedStep
<1> QED
  BY <1>2, <1>7, <1>12, <1>13, <1>14, <1>17, <1>18

\* Every step of an event's users.
LEMMA EventStep ==
    ASSUME KernelInv, QueueInv, EventType, NoMissedEvent, object = "event", object' = object,
           EventNext(User[object])
    PROVE  /\ KernelInv' /\ QueueInv' /\ (PoppedInv => PoppedInv')
           /\ EventType' /\ NoMissedEvent' /\ ConsumedStep
<1>0. /\ User[object] \subseteq Thread /\ UsedQueues' = UsedQueues /\ UsedQueues = {Flags}
      /\ Flags \in Queue /\ set \subseteq Bit /\ event \in [Thread -> Asked]
      /\ recv \in [Thread -> SUBSET Bit] /\ Request \subseteq Asked
      /\ k \in KernelRec /\ pc \in [Thread -> Phase]
  BY IpcAssumption, EventAssumption DEF QueueInv, UsedQueues, EventType, Asked, KernelInv
<1>1. ASSUME NEW bits \in SUBSET Bit, SendInHandler(bits)
      PROVE  /\ KernelInv' /\ (PoppedInv => PoppedInv') /\ EventType' /\ NoMissedEvent'
             /\ \A q \in Queue \ {Flags} : k'.wq[q] = k.wq[q]
             /\ ConsumedStep
  <2>1. /\ k' \in InHandler(Sent(bits).k, Sent(bits).need)
        /\ set' = Sent(bits).set /\ recv' = Sent(bits).recv /\ UNCHANGED <<event, pc, popped>>
    BY <1>1 DEF SendInHandler
  <2>2. Sent(bits).k \in KernelRec =>
          /\ k' \in KernelRec /\ SameButCur(Sent(bits).k, k')
          /\ k'.cur = Sent(bits).k.cur \/ k'.st[k'.cur] = "ready"
    BY <2>1, InHandlerIs
  <2> QED
    BY <1>0, <2>1, <2>2, NoneNoThread, SentStep
<1>2. ASSUME NEW bits \in SUBSET Bit, NEW c \in User[object], Send(c, bits)
      PROVE  /\ KernelInv' /\ (PoppedInv => PoppedInv') /\ EventType' /\ NoMissedEvent'
             /\ \A q \in Queue \ {Flags} : k'.wq[q] = k.wq[q]
             /\ ConsumedStep
  <2>1. /\ Calling(c) /\ k' = Sent(bits).k
        /\ set' = Sent(bits).set /\ recv' = Sent(bits).recv /\ UNCHANGED <<event, popped>>
        /\ pc' = [pc EXCEPT ![c] = IF Sent(bits).need THEN "owe" ELSE "run"]
    BY <1>2 DEF Send, AfterCall, Goto
  <2>2. Sent(bits).k \in KernelRec =>
          /\ k' \in KernelRec /\ SameButCur(Sent(bits).k, k')
          /\ k'.cur = Sent(bits).k.cur \/ k'.st[k'.cur] = "ready"
    BY <2>1 DEF SameButCur
  <2>3. /\ c \in Thread /\ ~Waits(k, c) /\ pc[c] = "run"
    BY <1>0, <2>1, CallerRuns DEF Calling
  <2>4. /\ pc' \in [Thread -> Phase] /\ pc'[c] \notin InWait
        /\ \A u \in Thread \ {c} : pc'[u] = pc[u]
    BY <1>0, <2>1, <2>3 DEF Phase, InWait
  <2>5. pc[c] \notin InWait
    BY <2>3 DEF InWait
  <2> QED
    BY <2>1, <2>2, <2>3, <2>4, <2>5, SentStep
<1>3. ASSUME NEW r \in Request, RecvNow(r)
      PROVE  /\ KernelInv' /\ (PoppedInv => PoppedInv') /\ EventType' /\ NoMissedEvent'
             /\ k'.wq = k.wq
             /\ ConsumedStep
  <2>1. set' = Left(set, r) /\ UNCHANGED <<k, pc, popped, event, recv>> /\ Matched(set, r)
    BY <1>3 DEF RecvNow, kvars
  <2>2. set' \in SUBSET set
    BY <1>0, <2>1, BitsFit
  <2>3. KernelInv' /\ (PoppedInv => PoppedInv')
    BY <2>1 DEF KernelInv, PoppedInv
  <2>4. EventType'
    BY <2>1, <2>2 DEF EventType
  <2>5. \A t \in ToSet(k.wq[Flags]) : t \in Thread /\ ~Matched(set', event[t])
    <3>1. k.wq[Flags] \in Seq(Thread)
      BY <1>0 DEF KernelRec
    <3>2. ASSUME NEW t \in ToSet(k.wq[Flags]) PROVE t \in Thread /\ ~Matched(set', event[t])
      <4>1. t \in Thread
        BY <3>1, <3>2 DEF ToSet
      <4>2. ~Matched(set, event[t]) /\ event[t] \in Asked
        BY <1>0, <3>2, <4>1 DEF NoMissedEvent
      <4> QED
        BY <1>0, <2>2, <4>1, <4>2, FewerMatch
    <3> QED
      BY <3>2
  <2>6. NoMissedEvent'
    BY <2>1, <2>5 DEF NoMissedEvent, Served
  <2>7. ConsumedStep
    BY <2>1, NothingConsumed
  <2> QED
    BY <2>1, <2>3, <2>4, <2>6, <2>7
<1>4. ASSUME NEW r \in Request, NEW c \in User[object], NEW timed \in Timed, RecvBlock(c, r, timed)
      PROVE  /\ KernelInv' /\ PoppedInv' /\ EventType' /\ NoMissedEvent'
             /\ \A q \in Queue \ {Flags} : k'.wq[q] = k.wq[q]
             /\ ConsumedStep
  <2>1. /\ Calling(c) /\ ~Matched(set, r) /\ event' = [event EXCEPT ![c] = r]
        /\ k' = SuspendCurrent(k, c, Flags, timed) /\ Goto(c, "block")
        /\ UNCHANGED <<set, recv, popped>>
    BY <1>4 DEF RecvBlock
  <2>2. c \in Thread /\ ~Waits(k, c) /\ k.cur = c /\ popped = None
    BY <1>0, <2>1, CallerRuns
  <2>3. /\ KernelInv' /\ PoppedInv' /\ k'.wq = [k.wq EXCEPT ![Flags] = Append(@, c)]
        /\ k.wq \in [Queue -> Seq(Thread)]
        /\ ToSet(k'.wq[Flags]) = ToSet(k.wq[Flags]) \cup {c}
        /\ \A u \in Thread : Served(u)' <=> u # c /\ Served(u)
    BY <1>0, <2>1, <2>2, BlockStep
  <2>4. event' \in [Thread -> Asked] /\ event'[c] = r /\ \A u \in Thread \ {c} : event'[u] = event[u]
    BY <1>0, <2>1, <2>2
  <2>5. EventType'
    BY <1>0, <2>1, <2>4 DEF EventType, Asked
  <2>6. \A t \in ToSet(k'.wq[Flags]) : ~Matched(set, event'[t])
    <3>1. ASSUME NEW t \in ToSet(k'.wq[Flags]) PROVE ~Matched(set, event'[t])
      <4>1. CASE t = c
        BY <2>1, <2>4, <4>1
      <4>2. CASE t # c
        <5>1. t \in ToSet(k.wq[Flags]) /\ k.wq[Flags] \in Seq(Thread)
          BY <1>0, <2>3, <3>1, <4>2
        <5>2. t \in Thread
          BY <5>1 DEF ToSet
        <5> QED
          BY <2>4, <4>2, <5>1, <5>2 DEF NoMissedEvent
      <4> QED
        BY <4>1, <4>2
    <3> QED
      BY <3>1
  <2>7. NoMissedEvent'
    <3>1. \A t \in Thread : Served(t)' /\ event'[t] # Unset =>
            recv[t] \subseteq event'[t].wanted /\ Matched(recv[t], event'[t])
      BY <2>3, <2>4 DEF NoMissedEvent
    <3> QED
      BY <2>1, <2>6, <3>1 DEF NoMissedEvent, Unset
  <2>8. ConsumedStep
    <3>1. k'.sleep = k.sleep /\ \A q \in Queue : ToSet(k.wq[q]) \subseteq ToSet(k'.wq[q])
      <4>1. k'.sleep = k.sleep
        BY <2>1 DEF SuspendCurrent, SuspendWith
      <4> QED
        BY <1>0, <2>3, <4>1
    <3>2. \A t \in Thread : Waits(k, t) => Waits(k', t)
      BY <3>1 DEF Waits
    <3> QED
      BY <3>2, NothingConsumed
  <2>9. \A q \in Queue \ {Flags} : k'.wq[q] = k.wq[q]
    BY <2>3
  <2> QED
    BY <2>3, <2>5, <2>7, <2>8, <2>9
<1>5. ASSUME NEW c \in User[object], RecvReturn(c)
      PROVE  /\ KernelInv' /\ (PoppedInv => PoppedInv') /\ EventType' /\ NoMissedEvent'
             /\ k'.wq = k.wq
             /\ ConsumedStep
  <2>1. /\ Resumed(c) /\ Goto(c, "run") /\ event' = [event EXCEPT ![c] = Unset]
        /\ recv' = [recv EXCEPT ![c] = {}] /\ UNCHANGED <<k, popped, set>>
    BY <1>5 DEF RecvReturn
  <2>2. c \in Thread /\ ~Waits(k, c)
    BY <1>0, <2>1, CallerRuns
  <2>3. /\ KernelInv' /\ (PoppedInv => PoppedInv')
        /\ \A u \in Thread : Served(u)' <=> u # c /\ Served(u)
    BY <2>1, <2>2, ReturnStep
  <2>4. /\ event' \in [Thread -> Asked] /\ \A u \in Thread \ {c} : event'[u] = event[u]
        /\ recv' \in [Thread -> SUBSET Bit] /\ \A u \in Thread \ {c} : recv'[u] = recv[u]
    <3>1. Unset \in Asked
      BY DEF Unset, Asked
    <3> QED
      BY <1>0, <2>1, <2>2, <3>1
  <2>5. EventType'
    BY <1>0, <2>1, <2>4 DEF EventType, Asked
  <2>6. \A t \in ToSet(k.wq[Flags]) : ~Matched(set, event'[t])
    <3>1. k.wq[Flags] \in Seq(Thread)
      BY <1>0 DEF KernelRec
    <3>2. ASSUME NEW t \in ToSet(k.wq[Flags]) PROVE ~Matched(set, event'[t])
      <4>1. t \in Thread /\ t # c
        BY <1>0, <2>2, <3>1, <3>2 DEF ToSet, Waits
      <4> QED
        BY <2>4, <3>2, <4>1 DEF NoMissedEvent
    <3> QED
      BY <3>2
  <2>7. NoMissedEvent'
    <3>1. \A t \in Thread : Served(t)' /\ event'[t] # Unset =>
            recv'[t] \subseteq event'[t].wanted /\ Matched(recv'[t], event'[t])
      BY <2>3, <2>4 DEF NoMissedEvent
    <3> QED
      BY <2>1, <2>6, <3>1 DEF NoMissedEvent, Unset
  <2>8. ConsumedStep
    BY <2>1, NothingConsumed
  <2> QED
    BY <2>1, <2>3, <2>5, <2>7, <2>8
<1>6. /\ KernelInv' /\ (PoppedInv => PoppedInv') /\ EventType' /\ NoMissedEvent' /\ ConsumedStep
      /\ \A q \in Queue \ {Flags} : k'.wq[q] = k.wq[q]
  BY <1>1, <1>2, <1>3, <1>4, <1>5 DEF EventNext, SendNext, RecvNext
<1> QED
  BY <1>0, <1>6 DEF QueueInv

-----------------------------------------------------------------------------
(* Mailboxes and message queues.                                           *)

\* The buffer holds a sequence of messages, and does what the channel asks of it.
BufferOf(B) ==
    IsBuffer(B, Msg, Capacity, EmptyBuffer, HasRoom, Put, PutFirst, First, Rest, Contents, Sound)

\* A thread in a blocked call waits, if it does, in the queue of its call.
CallInv(B) ==
    /\ buf \in B /\ received \in Msg \cup {None}
    /\ call \in [Thread -> Calls \cup {None}]
    /\ object # "channel" => call = [t \in Thread |-> None]
    /\ object = "channel" =>
         /\ \A t \in Thread : pc[t] \in InWait => call[t] \in Calls
         /\ \A q \in {Senders, Receivers} : \A t \in ToSet(k.wq[q]) : Own(call[t]) = q

LEMMA BufferFacts ==
    ASSUME NEW B, BufferOf(B), NEW b \in B
    PROVE  /\ Sound(b) /\ Contents(b) \in Seq(Msg) /\ Count(b) \in 0 .. Capacity
           /\ HasRoom(b) <=> Count(b) < Capacity
           /\ HasRoom(b) => \A m \in Msg :
                /\ Put(b, m) \in B /\ Contents(Put(b, m)) = Append(Contents(b), m)
                /\ PutFirst(b, m) \in B /\ Contents(PutFirst(b, m)) = <<m>> \o Contents(b)
           /\ Contents(b) # <<>> =>
                /\ First(b) = Head(Contents(b))
                /\ Rest(b) \in B /\ Contents(Rest(b)) = Tail(Contents(b))
<1>1. Contents(b) \in Seq(Msg) /\ Len(Contents(b)) <= Capacity /\ Capacity \in Nat
  BY ChannelAssumption DEF BufferOf, IsBuffer
<1>2. Count(b) \in 0 .. Capacity
  BY <1>1 DEF Count
<1> QED
  BY <1>1, <1>2 DEF BufferOf, IsBuffer, Count

\* The buffer's part of a call that succeeds is a step of the deque.
LEMMA TransferStep ==
    ASSUME NEW B, BufferOf(B), buf \in B, received \in Msg \cup {None}, NEW r \in Calls, Transfer(r)
    PROVE  /\ buf' \in B /\ received' \in Msg \cup {None}
           /\ Abstract!Next
           /\ Count(buf') = IF IsRecv(r) THEN Count(buf) - 1 ELSE Count(buf) + 1
           /\ IF IsRecv(r) THEN Count(buf) > 0 ELSE Count(buf) < Capacity
<1>0. /\ Contents(buf) \in Seq(Msg) /\ Count(buf) \in 0 .. Capacity
      /\ HasRoom(buf) <=> Count(buf) < Capacity
  BY BufferFacts
<1>1. CASE IsRecv(r)
  <2>1. Count(buf) > 0 /\ received' = First(buf) /\ buf' = Rest(buf)
    BY <1>1 DEF Transfer, Possible, IsRecv
  <2>2. Contents(buf) # <<>>
    BY <2>1 DEF Count
  <2>3. /\ First(buf) = Head(Contents(buf)) /\ Rest(buf) \in B
        /\ Contents(Rest(buf)) = Tail(Contents(buf))
    BY <2>2, BufferFacts
  <2>4. Head(Contents(buf)) \in Msg /\ Len(Tail(Contents(buf))) = Len(Contents(buf)) - 1
    BY <1>0, <2>2
  <2>5. Abstract!Recv
    BY <2>1, <2>2, <2>3 DEF Abstract!Recv
  <2> QED
    BY <1>1, <2>1, <2>3, <2>4, <2>5 DEF Abstract!Next, Count
<1>2. CASE ~IsRecv(r)
  <2>1. r \in [op : {"send", "urgent"}, msg : Msg, timed : Timed]
    BY <1>2 DEF Calls, IsRecv
  <2>2. r.msg \in Msg /\ r.op \in {"send", "urgent"}
    BY <2>1
  <2>3. HasRoom(buf) /\ received' = received
    BY <1>2 DEF Transfer, Possible
  <2>4. buf' \in {Put(buf, r.msg), PutFirst(buf, r.msg)}
    BY <2>2 DEF Transfer
  <2>5. /\ Put(buf, r.msg) \in B /\ Contents(Put(buf, r.msg)) = Append(Contents(buf), r.msg)
        /\ PutFirst(buf, r.msg) \in B /\ Contents(PutFirst(buf, r.msg)) = <<r.msg>> \o Contents(buf)
    BY <2>2, <2>3, BufferFacts
  <2>6. /\ Len(Append(Contents(buf), r.msg)) = Len(Contents(buf)) + 1
        /\ Len(<<r.msg>> \o Contents(buf)) = Len(Contents(buf)) + 1
    BY <1>0, <2>2
  <2>7. buf' \in B /\ Contents(buf') \in {Append(Contents(buf), r.msg), <<r.msg>> \o Contents(buf)}
    BY <2>4, <2>5
  <2>8. Abstract!Send(r.msg)
    BY <1>0, <2>3, <2>7 DEF Abstract!Send, Count
  <2>9. Count(buf') = Count(buf) + 1
    BY <2>6, <2>7 DEF Count
  <2> QED
    BY <1>0, <1>2, <2>2, <2>3, <2>7, <2>8, <2>9 DEF Abstract!Next
<1> QED
  BY <1>1, <1>2

LEMMA OnTheWayFinite ==
    ASSUME NEW q
    PROVE  IsFiniteSet(OnTheWay(q)) /\ Cardinality(OnTheWay(q)) \in Nat
<1>1. OnTheWay(q) \in SUBSET Thread
  BY DEF OnTheWay
<1> QED
  BY <1>1, KernelAssumption, FS_Subset, FS_CardinalityType

\* Nobody or one thread less is on its way; nobody less; one more.
LEMMA FewerOnTheWay ==
    ASSUME NEW q, NEW c, OnTheWay(q)' = OnTheWay(q) \ {c}
    PROVE  Cardinality(OnTheWay(q)') >= Cardinality(OnTheWay(q)) - 1
           /\ Cardinality(OnTheWay(q)') \in Nat
<1>1. /\ IsFiniteSet(OnTheWay(q) \ {c})
      /\ Cardinality(OnTheWay(q) \ {c}) =
           IF c \in OnTheWay(q) THEN Cardinality(OnTheWay(q)) - 1 ELSE Cardinality(OnTheWay(q))
  BY OnTheWayFinite, FS_RemoveElement
<1>2. Cardinality(OnTheWay(q) \ {c}) \in Nat
  BY <1>1, FS_CardinalityType
<1> QED
  BY <1>1, <1>2, OnTheWayFinite

LEMMA MoreOnTheWay ==
    ASSUME NEW q, NEW h, h \notin OnTheWay(q), OnTheWay(q)' = OnTheWay(q) \cup {h}
    PROVE  Cardinality(OnTheWay(q)') = Cardinality(OnTheWay(q)) + 1
  BY OnTheWayFinite, FS_AddElement

-----------------------------------------------------------------------------
\* A call that succeeds, of c or of a handler (c = None).
LEMMA SucceedStep ==
    ASSUME NEW B, BufferOf(B), KernelInv, QueueInv, CallInv(B),
           object = "channel", object' = object,
           NEW r \in Calls, NEW c \in Thread \cup {None}, Transfer(r),
           k' \in KernelRec, SameButCur(Woken(Others(r)), k'),
           k'.cur = k.cur \/ k'.st[k'.cur] = "ready",
           popped' = popped, pc' \in [Thread -> Phase],
           \A u \in Thread \ {c} : pc'[u] = pc[u] /\ call'[u] = call[u],
           call' \in [Thread -> Calls \cup {None}],
           c \in Thread => /\ ~Waits(k, c) /\ pc'[c] \notin InWait
                           /\ Served(c) => call[c] = r
    PROVE  /\ KernelInv' /\ QueueInv' /\ (PoppedInv => PoppedInv') /\ CallInv(B)'
           /\ Abstract!Next
           /\ NoneStranded => NoneStranded'
<1> DEFINE q == Others(r)
           own == Own(r)
           h == Head(k.wq[q])
           n == Count(buf)
<1>1. /\ buf' \in B /\ received' \in Msg \cup {None} /\ Abstract!Next
      /\ Count(buf') = IF IsRecv(r) THEN n - 1 ELSE n + 1
      /\ IF IsRecv(r) THEN n > 0 ELSE n < Capacity
  BY TransferStep DEF CallInv
<1>2. /\ Senders \in Queue /\ Receivers \in Queue /\ Senders # Receivers
      /\ {q, own} = {Senders, Receivers} /\ q # own
  BY ChannelAssumption DEF Others, Own
<1>3. n \in 0 .. Capacity /\ Capacity \in Nat /\ n \in Nat
  <2>1. n \in 0 .. Capacity
    BY BufferFacts DEF CallInv
  <2> QED
    BY <2>1, ChannelAssumption
<1>4. k \in KernelRec /\ k.wq \in [Queue -> Seq(Thread)]
  BY DEF KernelInv, KernelRec
<1>5. /\ KernelInv' /\ (PoppedInv => PoppedInv')
      /\ k'.wq = IF Handover(q) THEN [k.wq EXCEPT ![q] = Tail(@)] ELSE k.wq
      /\ Handover(q) => /\ h \in ToSet(k.wq[q])
                        /\ h \in Thread \ {c}
                        /\ ~Served(h)
      /\ \A u \in Thread : Served(u)' <=>
           /\ u # c
           /\ Served(u) \/ (Handover(q) /\ u = h)
  <2>1. q \in Queue
    BY <1>2
  <2> QED
    BY <2>1, WokenStep
<1>6. /\ k'.wq[q] = IF Handover(q) THEN Tail(k.wq[q]) ELSE k.wq[q]
      /\ \A p \in Queue \ {q} : k'.wq[p] = k.wq[p]
  <2>1. q \in Queue
    BY <1>2
  <2> QED
    BY <1>4, <1>5, <2>1
<1> HIDE DEF q, own, h, n
<1>7. QueueInv'
  <2>1. UsedQueues' = UsedQueues /\ UsedQueues = {q, own}
    BY <1>2 DEF UsedQueues
  <2> QED
    BY <1>6, <2>1 DEF QueueInv
<1>8. ToSet(k'.wq[q]) \subseteq ToSet(k.wq[q]) /\ k'.wq[own] = k.wq[own]
  <2>1. k.wq[q] \in Seq(Thread) /\ q \in Queue /\ own \in Queue
    BY <1>2, <1>4
  <2>2. CASE Handover(q)
    <3>1. k.wq[q] # <<>> /\ IsInjective(k.wq[q])
      BY <2>1, <2>2 DEF Handover, KernelInv, WaitersSound
    <3>2. ToSet(Tail(k.wq[q])) = ToSet(k.wq[q]) \ {Head(k.wq[q])}
      BY <2>1, <3>1, PopQueue
    <3> QED
      BY <1>2, <1>6, <2>1, <2>2, <3>2
  <2>3. CASE ~Handover(q)
    BY <1>2, <1>6, <2>1, <2>3
  <2> QED
    BY <2>2, <2>3
<1>9. \A p \in {q, own} : \A t \in ToSet(k.wq[p]) : t \in Thread /\ Own(call[t]) = p /\ t # c
  <2>1. ASSUME NEW p \in {q, own}, NEW t \in ToSet(k.wq[p])
        PROVE  t \in Thread /\ Own(call[t]) = p /\ t # c
    <3>1. p \in Queue /\ k.wq[p] \in Seq(Thread)
      BY <1>2, <1>4
    <3>2. t \in Thread /\ Waits(k, t)
      BY <2>1, <3>1 DEF ToSet, Waits
    <3>3. Own(call[t]) = p
      BY <1>2, <2>1 DEF CallInv
    <3> QED
      BY <3>2, <3>3
  <2> QED
    BY <2>1
<1>10. \A p \in {q, own} : \A t \in ToSet(k'.wq[p]) : Own(call'[t]) = p
  <2>1. \A p \in {q, own} : ToSet(k'.wq[p]) \subseteq ToSet(k.wq[p])
    BY <1>8
  <2> QED
    BY <1>9, <2>1
<1>11. \A t \in Thread : pc'[t] \in InWait => call'[t] \in Calls
  <2>1. \A t \in Thread : pc'[t] \in InWait => t # c /\ pc[t] \in InWait
    BY NoneNoThread
  <2> QED
    BY <2>1 DEF CallInv
<1>12. CallInv(B)'
  BY <1>1, <1>2, <1>10, <1>11 DEF CallInv, Own
<1>13. OnTheWay(own)' = OnTheWay(own) \ {c}
  <2>1. ASSUME NEW t \in Thread
        PROVE  t \in OnTheWay(own)' <=> t \in OnTheWay(own) /\ t # c
    <3>1. CASE t = c
      BY <1>5, <3>1 DEF OnTheWay
    <3>2. CASE t # c
      <4>1. call'[t] = call[t] /\ (Served(t)' <=> Served(t) \/ (Handover(q) /\ t = h))
        BY <1>5, <3>2
      <4>2. Handover(q) /\ t = h => Own(call[t]) # own /\ ~Served(t)
        BY <1>2, <1>5, <1>9
      <4> QED
        BY <3>2, <4>1, <4>2 DEF OnTheWay, Own
    <3> QED
      BY <3>1, <3>2
  <2> QED
    BY <2>1 DEF OnTheWay
<1>14. CASE Handover(q)
  <2>1. h \in Thread /\ h # c /\ Own(call[h]) = q /\ ~Served(h)
    BY <1>5, <1>9, <1>14
  <2>2. call[h] \in Calls /\ call[h] # None
    <3>1. Waits(k, h)
      BY <1>2, <1>5, <1>14 DEF Waits
    <3> QED
      BY <2>1, <3>1, ChannelAssumption DEF KernelInv, CallInv
  <2>3. c \in Thread => c \notin OnTheWay(q)
    BY <1>2 DEF OnTheWay, own
  <2>4. OnTheWay(q)' = OnTheWay(q) \cup {h} /\ h \notin OnTheWay(q)
    <3>1. ASSUME NEW t \in Thread
          PROVE  t \in OnTheWay(q)' <=> t \in OnTheWay(q) \/ t = h
      <4>1. CASE t = c
        BY <1>5, <2>1, <2>3, <4>1 DEF OnTheWay
      <4>2. CASE t # c
        <5>1. call'[t] = call[t] /\ (Served(t)' <=> Served(t) \/ t = h)
          BY <1>5, <1>14, <4>2
        <5> QED
          BY <2>1, <2>2, <5>1 DEF OnTheWay, Own
      <4> QED
        BY <4>1, <4>2
    <3> QED
      BY <2>1, <3>1 DEF OnTheWay
  <2>5. /\ Cardinality(OnTheWay(q)') = Cardinality(OnTheWay(q)) + 1
        /\ Cardinality(OnTheWay(own)') >= Cardinality(OnTheWay(own)) - 1
        /\ Cardinality(OnTheWay(q)) \in Nat /\ Cardinality(OnTheWay(own)) \in Nat
        /\ Cardinality(OnTheWay(own)') \in Nat
    BY <1>13, <2>4, MoreOnTheWay, FewerOnTheWay, OnTheWayFinite
  <2>6. k.wq[q] # <<>> /\ k'.wq[own] = k.wq[own]
    BY <1>8, <1>14 DEF Handover
  <2>7. NoneStranded => NoneStranded'
    <3>1. CASE IsRecv(r)
      <4>1. q = Senders /\ own = Receivers
        BY <3>1 DEF q, own, Others, Own
      <4>2. Count(buf') = n - 1 /\ n > 0
        BY <1>1, <3>1
      <4> QED
        BY <1>3, <2>5, <2>6, <4>1, <4>2 DEF NoneStranded, n
    <3>2. CASE ~IsRecv(r)
      <4>1. q = Receivers /\ own = Senders
        BY <3>2 DEF q, own, Others, Own
      <4>2. Count(buf') = n + 1 /\ n < Capacity
        BY <1>1, <3>2
      <4> QED
        BY <1>3, <2>5, <2>6, <4>1, <4>2 DEF NoneStranded, n
    <3> QED
      BY <3>1, <3>2
  <2> QED
    BY <1>1, <1>5, <1>7, <1>12, <2>7
<1>15. CASE ~Handover(q)
  <2>1. k'.wq[q] = <<>> /\ k'.wq[own] = k.wq[own]
    BY <1>6, <1>8, <1>15 DEF Handover
  <2>2. /\ Cardinality(OnTheWay(own)') >= Cardinality(OnTheWay(own)) - 1
        /\ Cardinality(OnTheWay(own)) \in Nat /\ Cardinality(OnTheWay(own)') \in Nat
    BY <1>13, FewerOnTheWay, OnTheWayFinite
  <2>3. NoneStranded => NoneStranded'
    <3>1. CASE IsRecv(r)
      <4>1. q = Senders /\ own = Receivers
        BY <3>1 DEF q, own, Others, Own
      <4>2. Count(buf') = n - 1 /\ n > 0
        BY <1>1, <3>1
      <4> QED
        BY <1>3, <2>1, <2>2, <4>1, <4>2 DEF NoneStranded, n
    <3>2. CASE ~IsRecv(r)
      <4>1. q = Receivers /\ own = Senders
        BY <3>2 DEF q, own, Others, Own
      <4>2. Count(buf') = n + 1 /\ n < Capacity
        BY <1>1, <3>2
      <4> QED
        BY <1>3, <2>1, <2>2, <4>1, <4>2 DEF NoneStranded, n
    <3> QED
      BY <3>1, <3>2
  <2> QED
    BY <1>1, <1>5, <1>7, <1>12, <2>3
<1> QED
  BY <1>14, <1>15

\* A call that has to wait, for the first time or again.
LEMMA BlockCallStep ==
    ASSUME NEW B, BufferOf(B), KernelInv, QueueInv, CallInv(B),
           object = "channel", object' = object,
           NEW c \in Thread, NEW r \in Calls, Block(c, r),
           Calling(c) \/ (Resumed(c) /\ call[c] = r)
    PROVE  /\ KernelInv' /\ QueueInv' /\ PoppedInv' /\ CallInv(B)'
           /\ UNCHANGED <<Contents(buf), received>>
           /\ NoneStranded => NoneStranded'
<1> DEFINE own == Own(r)
           q == Others(r)
           n == Count(buf)
<1>1. /\ ~Possible(r) /\ k' = SuspendCurrent(k, c, own, r.timed) /\ Goto(c, "block")
      /\ call' = [call EXCEPT ![c] = r] /\ UNCHANGED <<popped, buf, received>>
  BY DEF Block
<1>2. /\ Senders \in Queue /\ Receivers \in Queue /\ Senders # Receivers
      /\ {q, own} = {Senders, Receivers} /\ q # own
  BY ChannelAssumption DEF Others, Own
<1>3. n \in Nat /\ n <= Capacity /\ Capacity \in Nat /\ (HasRoom(buf) <=> n < Capacity)
  <2>1. n \in 0 .. Capacity /\ (HasRoom(buf) <=> n < Capacity)
    BY BufferFacts DEF CallInv
  <2> QED
    BY <2>1, ChannelAssumption
<1>4. ~Waits(k, c) /\ k.cur = c /\ popped = None
  BY CallerRuns
<1>5. /\ KernelInv' /\ PoppedInv' /\ k'.wq = [k.wq EXCEPT ![own] = Append(@, c)]
      /\ k.wq \in [Queue -> Seq(Thread)]
      /\ ToSet(k'.wq[own]) = ToSet(k.wq[own]) \cup {c}
      /\ \A u \in Thread : Served(u)' <=> u # c /\ Served(u)
      /\ pc' = [pc EXCEPT ![c] = "block"]
  <2>1. own \in Queue
    BY <1>2
  <2> HIDE DEF own
  <2> QED
    BY <1>1, <1>4, <2>1, BlockStep
<1> HIDE DEF q, own, n
<1>6. \A p \in Queue \ {own} : k'.wq[p] = k.wq[p]
  BY <1>5
<1>7. QueueInv'
  <2>1. UsedQueues' = UsedQueues /\ UsedQueues = {q, own}
    BY <1>2 DEF UsedQueues
  <2> QED
    BY <1>6, <2>1 DEF QueueInv
<1>8. /\ call \in [Thread -> Calls \cup {None}] /\ call' \in [Thread -> Calls \cup {None}]
      /\ call'[c] = r /\ \A t \in Thread \ {c} : call'[t] = call[t]
  BY <1>1 DEF CallInv
<1>9. \A p \in {q, own} : \A t \in ToSet(k.wq[p]) : t \in Thread /\ Own(call[t]) = p /\ t # c
  <2>1. ASSUME NEW p \in {q, own}, NEW t \in ToSet(k.wq[p])
        PROVE  t \in Thread /\ Own(call[t]) = p /\ t # c
    <3>1. p \in Queue /\ k.wq[p] \in Seq(Thread)
      BY <1>2, <1>5
    <3>2. t \in Thread /\ Waits(k, t)
      BY <2>1, <3>1 DEF ToSet, Waits
    <3>3. Own(call[t]) = p
      BY <1>2, <2>1 DEF CallInv
    <3> QED
      BY <1>4, <3>2, <3>3
  <2> QED
    BY <2>1
<1>10. \A p \in {q, own} : \A t \in ToSet(k'.wq[p]) : Own(call'[t]) = p
  <2>1. \A t \in ToSet(k'.wq[own]) : Own(call'[t]) = own
    <3>1. ASSUME NEW t \in ToSet(k'.wq[own]) PROVE Own(call'[t]) = own
      <4>1. CASE t = c
        BY <1>8, <4>1 DEF own
      <4>2. CASE t # c
        <5>1. t \in ToSet(k.wq[own])
          BY <1>5, <3>1, <4>2
        <5> QED
          BY <1>8, <1>9, <4>2, <5>1
      <4> QED
        BY <4>1, <4>2
    <3> QED
      BY <3>1
  <2>2. k'.wq[q] = k.wq[q]
    BY <1>2, <1>6
  <2>3. \A t \in ToSet(k'.wq[q]) : Own(call'[t]) = q
    BY <1>8, <1>9, <2>2
  <2> QED
    BY <2>1, <2>3
<1>11. \A t \in Thread : pc'[t] \in InWait => call'[t] \in Calls
  <2>1. \A t \in Thread \ {c} : pc'[t] = pc[t]
    BY <1>5
  <2> QED
    BY <1>8, <2>1 DEF CallInv
<1>12. CallInv(B)'
  BY <1>1, <1>2, <1>8, <1>10, <1>11 DEF CallInv, Own
<1>13. OnTheWay(q)' = OnTheWay(q)
  <2>1. ~Served(c)' /\ (Served(c) => Own(call[c]) # q)
    <3>1. Served(c) => call[c] = r
      BY DEF Served, Calling
    <3> QED
      BY <1>2, <1>5, <3>1 DEF own
  <2>2. \A t \in Thread \ {c} : (Served(t)' <=> Served(t)) /\ call'[t] = call[t]
    BY <1>5, <1>8
  <2>3. ASSUME NEW t \in Thread PROVE t \in OnTheWay(q)' <=> t \in OnTheWay(q)
    BY <2>1, <2>2, <2>3 DEF OnTheWay, Own
  <2> QED
    BY <2>3 DEF OnTheWay
<1>14. NoneStranded => NoneStranded'
  <2>1. /\ Cardinality(OnTheWay(q)') = Cardinality(OnTheWay(q))
        /\ Cardinality(OnTheWay(q)) \in Nat
    BY <1>13, OnTheWayFinite
  <2>2. Cardinality(OnTheWay(own)') \in Nat
    <3>1. OnTheWay(own)' \in SUBSET Thread
      BY DEF OnTheWay
    <3> QED
      BY <3>1, KernelAssumption, FS_Subset, FS_CardinalityType
  <2>3. k'.wq[q] = k.wq[q] /\ Count(buf)' = n
    BY <1>1, <1>2, <1>6 DEF n, Count
  <2>4. CASE IsRecv(r)
    <3>1. q = Senders /\ own = Receivers
      BY <2>4 DEF q, own, Others, Own
    <3>2. n = 0
      BY <1>1, <1>3, <2>4 DEF Possible, n
    <3> QED
      BY <1>3, <2>1, <2>2, <2>3, <3>1, <3>2 DEF NoneStranded, n
  <2>5. CASE ~IsRecv(r)
    <3>1. q = Receivers /\ own = Senders
      BY <2>5 DEF q, own, Others, Own
    <3>2. n = Capacity
      BY <1>1, <1>3, <2>5 DEF Possible
    <3> QED
      BY <1>3, <2>1, <2>2, <2>3, <3>1, <3>2 DEF NoneStranded, n
  <2> QED
    BY <2>4, <2>5
<1> QED
  BY <1>1, <1>5, <1>7, <1>12, <1>14

\* A call that timed out.
LEMMA GiveUpStep ==
    ASSUME NEW B, KernelInv, QueueInv, CallInv(B), object = "channel", object' = object,
           NEW c \in Thread, GiveUp(c)
    PROVE  /\ KernelInv' /\ QueueInv' /\ (PoppedInv => PoppedInv') /\ CallInv(B)'
           /\ UNCHANGED <<Contents(buf), received>>
           /\ NoneStranded => NoneStranded'
<1>1. /\ Resumed(c) /\ k.err[c] /\ Goto(c, "run") /\ call' = [call EXCEPT ![c] = None]
      /\ UNCHANGED <<k, popped, buf, received>>
  BY DEF GiveUp
<1>2. ~Waits(k, c) /\ ~Served(c)
  BY <1>1, CallerRuns DEF Served
<1>3. /\ KernelInv' /\ (PoppedInv => PoppedInv')
      /\ \A u \in Thread : Served(u)' <=> u # c /\ Served(u)
      /\ pc' = [pc EXCEPT ![c] = "run"]
  BY <1>1, <1>2, ReturnStep
<1>4. /\ call \in [Thread -> Calls \cup {None}] /\ call' \in [Thread -> Calls \cup {None}]
      /\ \A t \in Thread \ {c} : call'[t] = call[t]
      /\ pc \in [Thread -> Phase]
  BY <1>1 DEF CallInv, KernelInv
<1>5. \A t \in Thread : pc'[t] \in InWait => call'[t] \in Calls
  <2>1. \A t \in Thread : pc'[t] \in InWait => t # c /\ pc[t] \in InWait
    BY <1>3, <1>4 DEF InWait
  <2> QED
    BY <1>4, <2>1 DEF CallInv
<1>6. \A q \in {Senders, Receivers} : \A t \in ToSet(k.wq[q]) : Own(call'[t]) = q
  <2>1. ASSUME NEW q \in {Senders, Receivers}, NEW t \in ToSet(k.wq[q]) PROVE Own(call'[t]) = q
    <3>1. q \in Queue /\ k.wq[q] \in Seq(Thread)
      BY ChannelAssumption DEF KernelInv, KernelRec
    <3>2. t \in Thread /\ t # c
      BY <1>2, <2>1, <3>1 DEF ToSet, Waits
    <3> QED
      BY <1>4, <2>1, <3>2 DEF CallInv
  <2> QED
    BY <2>1
<1>7. CallInv(B)'
  BY <1>1, <1>4, <1>5, <1>6 DEF CallInv, Own
<1>8. \A q : OnTheWay(q)' = OnTheWay(q)
  <2>1. ASSUME NEW q, NEW t \in Thread PROVE t \in OnTheWay(q)' <=> t \in OnTheWay(q)
    BY <1>2, <1>3, <1>4 DEF OnTheWay, Own
  <2> QED
    BY <2>1 DEF OnTheWay
<1>9. NoneStranded => NoneStranded'
  BY <1>1, <1>8 DEF NoneStranded, Count
<1>10. QueueInv'
  BY <1>1 DEF QueueInv, UsedQueues
<1> QED
  BY <1>1, <1>3, <1>7, <1>9, <1>10

\* Every step of a channel's users.
LEMMA ChannelStep ==
    ASSUME NEW B, BufferOf(B), KernelInv, QueueInv, CallInv(B),
           object = "channel", object' = object, ChannelNext(User[object])
    PROVE  /\ KernelInv' /\ QueueInv' /\ (PoppedInv => PoppedInv') /\ CallInv(B)'
           /\ Abstract!Next \/ UNCHANGED <<Contents(buf), received>>
           /\ NoneStranded => NoneStranded'
<1>0. /\ User[object] \subseteq Thread /\ k \in KernelRec /\ WaitersSound(k)
      /\ pc \in [Thread -> Phase] /\ call \in [Thread -> Calls \cup {None}]
      /\ Senders \in Queue /\ Receivers \in Queue
  BY IpcAssumption, ChannelAssumption DEF QueueInv, KernelInv, CallInv
<1>1. ASSUME NEW c \in Thread, NEW r \in Calls, Succeed(c, r),
             Calling(c) \/ (Resumed(c) /\ call[c] = r)
      PROVE  /\ KernelInv' /\ QueueInv' /\ (PoppedInv => PoppedInv') /\ CallInv(B)'
             /\ Abstract!Next
             /\ NoneStranded => NoneStranded'
  <2>1. /\ Transfer(r) /\ k' = Woken(Others(r)) /\ popped' = popped
        /\ pc' = [pc EXCEPT ![c] = IF Urgent(Others(r)) THEN "owe" ELSE "run"]
        /\ call' = [call EXCEPT ![c] = None]
    BY <1>1 DEF Succeed, AfterCall, Goto
  <2>2. Woken(Others(r)) \in KernelRec /\ Woken(Others(r)).cur = k.cur
    <3>1. Others(r) \in Queue
      BY <1>0 DEF Others
    <3> QED
      BY <1>0, <3>1, WakeHeadLost DEF Woken, Handover
  <2>3. k' \in KernelRec /\ SameButCur(Woken(Others(r)), k') /\ k'.cur = k.cur
    BY <2>1, <2>2 DEF SameButCur
  <2>4. /\ pc' \in [Thread -> Phase] /\ pc'[c] \notin InWait
        /\ call' \in [Thread -> Calls \cup {None}]
        /\ \A u \in Thread \ {c} : pc'[u] = pc[u] /\ call'[u] = call[u]
    <3>1. pc' \in [Thread -> Phase] /\ pc'[c] \notin InWait /\ \A u \in Thread \ {c} : pc'[u] = pc[u]
      BY <1>0, <2>1 DEF Phase, InWait
    <3>2. call' \in [Thread -> Calls \cup {None}] /\ \A u \in Thread \ {c} : call'[u] = call[u]
      BY <1>0, <2>1
    <3> QED
      BY <3>1, <3>2
  <2>5. ~Waits(k, c) /\ (Served(c) => call[c] = r)
    BY <1>1, CallerRuns DEF Served, Calling
  <2> QED
    BY <2>1, <2>3, <2>4, <2>5, SucceedStep
<1>2. ASSUME NEW c \in Thread, NEW r \in Calls, Start(c, r)
      PROVE  /\ KernelInv' /\ QueueInv' /\ (PoppedInv => PoppedInv') /\ CallInv(B)'
             /\ Abstract!Next \/ UNCHANGED <<Contents(buf), received>>
             /\ NoneStranded => NoneStranded'
  <2>1. Calling(c) /\ (Succeed(c, r) \/ Block(c, r))
    BY <1>2 DEF Start
  <2> QED
    BY <1>1, <2>1, BlockCallStep
<1>3. ASSUME NEW c \in Thread, Retry(c)
      PROVE  /\ KernelInv' /\ QueueInv' /\ (PoppedInv => PoppedInv') /\ CallInv(B)'
             /\ Abstract!Next \/ UNCHANGED <<Contents(buf), received>>
             /\ NoneStranded => NoneStranded'
  <2>1. Resumed(c) /\ (Succeed(c, call[c]) \/ Block(c, call[c]))
    BY <1>3 DEF Retry
  <2>2. call[c] \in Calls
    BY <2>1 DEF Resumed, CallInv, InWait
  <2> QED
    BY <1>1, <2>1, <2>2, BlockCallStep
<1>4. ASSUME NEW r \in Calls, InHandlerCall(r)
      PROVE  /\ KernelInv' /\ QueueInv' /\ (PoppedInv => PoppedInv') /\ CallInv(B)'
             /\ Abstract!Next
             /\ NoneStranded => NoneStranded'
  <2>1. /\ Transfer(r) /\ k' \in InHandler(Woken(Others(r)), Urgent(Others(r)))
        /\ UNCHANGED <<pc, popped, call>>
    BY <1>4 DEF InHandlerCall
  <2>2. Woken(Others(r)) \in KernelRec /\ Woken(Others(r)).cur = k.cur
    <3>1. Others(r) \in Queue
      BY <1>0 DEF Others
    <3> QED
      BY <1>0, <3>1, WakeHeadLost DEF Woken, Handover
  <2>3. /\ k' \in KernelRec /\ SameButCur(Woken(Others(r)), k')
        /\ k'.cur = k.cur \/ k'.st[k'.cur] = "ready"
    BY <2>1, <2>2, InHandlerIs
  <2> QED
    BY <1>0, <2>1, <2>3, NoneNoThread, SucceedStep
<1> QED
  BY <1>0, <1>2, <1>3, <1>4, GiveUpStep DEF ChannelNext, ChannelCall

-----------------------------------------------------------------------------
(* The whole of Ipc.                                                       *)

\* The calls of a semaphore keep the kernel's invariant whatever became of the tokens.
LEMMA SemaphoreKernel ==
    ASSUME KernelInv, QueueInv, object = "semaphore", object' = object,
           SemaphoreNext(User[object])
    PROVE  KernelInv' /\ QueueInv'
<1>0. /\ User[object] \subseteq Thread /\ UsedQueues' = UsedQueues /\ UsedQueues = {Sem}
      /\ Sem \in Queue /\ k \in KernelRec /\ WaitersSound(k) /\ pc \in [Thread -> Phase]
  BY IpcAssumption, SemaphoreAssumption DEF QueueInv, UsedQueues, KernelInv
<1>1. Woken(Sem) \in KernelRec /\ Woken(Sem).cur = k.cur
  BY <1>0, WakeHeadLost DEF Woken, Handover
<1>2. ASSUME NEW h \in Holder, TakeNow(h) PROVE KernelInv' /\ \A q \in Queue \ {Sem} : k'.wq[q] = k.wq[q]
  BY <1>2 DEF TakeNow, kvars, KernelInv
<1>3. CASE ReleaseInHandler
  <2>1. k' \in InHandler(Woken(Sem), Urgent(Sem)) /\ UNCHANGED <<pc, popped>>
    BY <1>3 DEF ReleaseInHandler
  <2>2. /\ k' \in KernelRec /\ SameButCur(Woken(Sem), k')
        /\ k'.cur = k.cur \/ k'.st[k'.cur] = "ready"
    BY <1>1, <2>1, InHandlerIs
  <2>3. KernelInv' /\ k'.wq = IF Handover(Sem) THEN [k.wq EXCEPT ![Sem] = Tail(@)] ELSE k.wq
    BY <1>0, <2>1, <2>2, NoneNoThread, WokenStep
  <2>4. \A q \in Queue \ {Sem} : k'.wq[q] = k.wq[q]
    BY <1>0, <2>3 DEF KernelRec
  <2> QED
    BY <1>0, <2>3, <2>4 DEF QueueInv
<1>4. ASSUME NEW c \in User[object], NEW timed \in Timed, Calling(c), TakeBlock(c, timed)
      PROVE  KernelInv' /\ \A q \in Queue \ {Sem} : k'.wq[q] = k.wq[q]
  <2>1. /\ k' = SuspendCurrent(k, c, Sem, timed) /\ Goto(c, "block") /\ popped' = popped
        /\ c \in Thread /\ ~Waits(k, c) /\ k.cur = c /\ popped = None
    BY <1>0, <1>4, CallerRuns DEF TakeBlock
  <2>2. KernelInv' /\ k'.wq = [k.wq EXCEPT ![Sem] = Append(@, c)]
    BY <1>0, <2>1, BlockStep
  <2> QED
    BY <1>0, <2>2 DEF KernelRec
<1>5. ASSUME NEW c \in User[object], Calling(c), Release(c)
      PROVE  KernelInv' /\ \A q \in Queue \ {Sem} : k'.wq[q] = k.wq[q]
  <2>1. /\ k' = Woken(Sem) /\ popped' = popped
        /\ pc' = [pc EXCEPT ![c] = IF Urgent(Sem) THEN "owe" ELSE "run"]
    BY <1>5 DEF Release, AfterCall, Goto
  <2>2. k' \in KernelRec /\ SameButCur(Woken(Sem), k') /\ k'.cur = k.cur
    BY <1>1, <2>1 DEF SameButCur
  <2>3. /\ pc' \in [Thread -> Phase] /\ \A u \in Thread \ {c} : pc'[u] = pc[u]
        /\ pc'[c] \notin InWait
    BY <1>0, <2>1 DEF Phase, InWait
  <2>4. c \in Thread /\ ~Waits(k, c)
    BY <1>0, <1>5, CallerRuns
  <2>5. KernelInv' /\ k'.wq = IF Handover(Sem) THEN [k.wq EXCEPT ![Sem] = Tail(@)] ELSE k.wq
    BY <1>0, <2>1, <2>2, <2>3, <2>4, WokenStep
  <2> QED
    BY <1>0, <2>5 DEF KernelRec
<1>6. ASSUME NEW c \in User[object], TakeReturn(c)
      PROVE  KernelInv' /\ k' = k
  <2>1. Resumed(c) /\ Goto(c, "run") /\ UNCHANGED <<k, popped>> /\ c \in Thread
    BY <1>0, <1>6 DEF TakeReturn
  <2> QED
    BY <2>1, CallerRuns, ReturnStep
<1>7. KernelInv' /\ \A q \in Queue \ {Sem} : k'.wq[q] = k.wq[q]
  <2>1. None \in Holder /\ \A c \in User[object] : c \in Holder
    BY <1>0 DEF Holder
  <2>2. CASE ReleaseInHandler
    BY <1>0, <1>3, <2>2 DEF QueueInv
  <2> QED
    BY <1>2, <1>4, <1>5, <1>6, <2>1, <2>2 DEF SemaphoreNext, SemaphoreCall
<1> QED
  BY <1>0, <1>7 DEF QueueInv

\* What holds whoever suspends threads.
Sound0 == KernelInv /\ QueueInv /\ EventInv

LEMMA EmptyQueue ==
    ASSUME KernelInv, KernelInv', NEW q \in Queue,
           ToSet(k'.wq[q]) \subseteq ToSet(k.wq[q]), k.wq[q] = <<>>
    PROVE  k'.wq[q] = <<>>
<1>1. k'.wq[q] \in Seq(Thread)
  BY DEF KernelInv, KernelRec
<1>2. ToSet(k.wq[q]) = {}
  BY DEF ToSet
<1>3. Len(k'.wq[q]) \in Nat /\ DOMAIN k'.wq[q] = 1 .. Len(k'.wq[q])
  BY <1>1
<1>4. \A i \in DOMAIN k'.wq[q] : k'.wq[q][i] \in ToSet(k'.wq[q])
  BY DEF ToSet
<1>5. DOMAIN k'.wq[q] = {}
  BY <1>2, <1>4
<1>6. 1 \notin DOMAIN k'.wq[q]
  BY <1>5
<1>7. Len(k'.wq[q]) = 0
  BY <1>3, <1>6
<1> QED
  BY <1>1, <1>7

LEMMA Sound0Init == Init => Sound0
<1> SUFFICES ASSUME Init PROVE Sound0
  OBVIOUS
<1>1. PICK t \in FirstOf : k = KernelInit(t)
  BY DEF Init, BlockingInit
<1>2. /\ object \in DOMAIN User /\ pc = [u \in Thread |-> "run"] /\ popped = None
      /\ set = {} /\ event = [u \in Thread |-> Unset] /\ recv = [u \in Thread |-> {}]
  BY DEF Init, BlockingInit, EventInit
<1>3. k \in KernelRec
  BY <1>1, KernelAssumption DEF KernelInit, KernelRec, FirstOf
<1>4. k.sleep = {} /\ k.armed = {} /\ \A q \in Queue : k.wq[q] = <<>>
  BY <1>1 DEF KernelInit
<1>5. \A q \in Queue : ToSet(k.wq[q]) = {} /\ IsInjective(k.wq[q])
  BY <1>4 DEF ToSet, IsInjective
<1>6. \A u : ~Waits(k, u)
  BY <1>4, <1>5 DEF Waits
<1>7. KernelInv
  BY <1>2, <1>3, <1>4, <1>5, <1>6 DEF KernelInv, WaitersSound, Phase
<1>8. QueueInv
  <2>1. UsedQueues \subseteq Queue
    BY SemaphoreAssumption, EventAssumption, ChannelAssumption DEF UsedQueues
  <2> QED
    BY <1>2, <1>4, <2>1 DEF QueueInv
<1>9. EventType
  BY <1>2 DEF EventType, Unset
<1>10. NoMissedEvent
  <2>1. \A u \in ToSet(k.wq[Flags]) : FALSE
    BY <1>5, EventAssumption
  <2> QED
    BY <1>2, <2>1 DEF NoMissedEvent
<1> QED
  BY <1>2, <1>7, <1>8, <1>9, <1>10 DEF Sound0, EventInv

\* Under the other objects the event stays as it was made.
LEMMA EventIdle ==
    ASSUME EventInv, object # "event", object' = object, UNCHANGED evars, KernelInv'
    PROVE  EventInv' /\ ConsumedStep
<1>1. /\ set = {} /\ event = [t \in Thread |-> Unset] /\ set' = set /\ event' = event /\ recv' = recv
  BY DEF EventInv, evars
<1>2. EventType'
  BY <1>1 DEF EventInv, EventType
<1>3. \A t \in Thread : ~Matched(set, event[t]) /\ ~event[t].clear
  BY <1>1 DEF Matched, Unset
<1>4. ToSet(k'.wq[Flags]) \subseteq Thread
  <2>1. k'.wq[Flags] \in Seq(Thread)
    BY EventAssumption DEF KernelInv, KernelRec
  <2> QED
    BY <2>1 DEF ToSet
<1>5. NoMissedEvent'
  BY <1>1, <1>3, <1>4 DEF NoMissedEvent
<1> QED
  BY <1>1, <1>2, <1>3, <1>5, NothingConsumed DEF EventInv

\* Between the calls nobody gets bits, and waits end by timeouts only.
LEMMA Sound0Kernel ==
    ASSUME Sound0, KernelNext
    PROVE  Sound0' /\ ConsumedStep
<1>1. /\ KernelInv' /\ \A t \in Thread : Served(t)' => Served(t)
      /\ \A q \in Queue : ToSet(k'.wq[q]) \subseteq ToSet(k.wq[q])
      /\ \A t \in Thread : pc'[t] \in InWait <=> pc[t] \in InWait
      /\ UNCHANGED <<set, event, recv, object>>
  BY KernelStep DEF Sound0, KernelNext, evars
<1>2. QueueInv'
  BY <1>1, EmptyQueue DEF QueueInv, UsedQueues, Sound0
<1>3. EventInv'
  <2>1. NoMissedEvent'
    BY <1>1, EventAssumption DEF NoMissedEvent, Sound0, EventInv
  <2> QED
    BY <1>1, <2>1 DEF Sound0, EventInv, EventType
<1>4. ConsumedStep
  <2>1. ASSUME NEW t \in Thread, Waits(k, t), ~Waits(k', t), ~k'.err[t] PROVE FALSE
    <3>1. pc'[t] \in InWait
      BY <1>1, <2>1 DEF Sound0, KernelInv
    <3>2. Served(t)'
      BY <2>1, <3>1 DEF Served, InWait
    <3> QED
      BY <1>1, <2>1, <3>2 DEF Served
  <2> QED
    BY <2>1, NothingConsumed
<1> QED
  BY <1>1, <1>2, <1>3, <1>4 DEF Sound0

LEMMA Sound0Same ==
    ASSUME Sound0, UNCHANGED vars
    PROVE  Sound0' /\ ConsumedStep
<1>1. UNCHANGED <<k, pc, popped, set, event, recv, object>>
  BY DEF vars, kvars, evars
<1>2. ConsumedStep
  BY <1>1, NothingConsumed
<1> QED
  BY <1>1, <1>2 DEF Sound0, KernelInv, QueueInv, UsedQueues, EventInv, EventType, NoMissedEvent, Served

\* The calls of a channel keep the kernel's invariant, whatever its buffer holds.
LEMMA ChannelKernel ==
    ASSUME KernelInv, QueueInv, object = "channel", object' = object, ChannelNext(User[object])
    PROVE  KernelInv' /\ QueueInv' /\ (PoppedInv => PoppedInv')
<1>0. /\ User[object] \subseteq Thread /\ k \in KernelRec /\ WaitersSound(k)
      /\ UsedQueues' = UsedQueues /\ UsedQueues = {Senders, Receivers}
      /\ pc \in [Thread -> Phase] /\ Senders \in Queue /\ Receivers \in Queue
      /\ k.wq \in [Queue -> Seq(Thread)]
  BY IpcAssumption, ChannelAssumption DEF QueueInv, KernelInv, UsedQueues, KernelRec
<1>1. \A r : Others(r) \in {Senders, Receivers} /\ Own(r) \in {Senders, Receivers}
  BY DEF Others, Own
<1>2. ASSUME NEW q \in {Senders, Receivers}
      PROVE  q \in Queue /\ Woken(q) \in KernelRec /\ Woken(q).cur = k.cur
  <2>1. q \in Queue
    BY <1>0
  <2>2. CASE k.wq[q] = <<>>
    BY <1>0, <2>1, <2>2 DEF Woken, Handover
  <2>3. CASE k.wq[q] # <<>>
    <3>1. WakeHead(k, q) \in KernelRec /\ WakeHead(k, q).cur = k.cur
      BY <1>0, <2>1, <2>3, WakeHeadLost
    <3> QED
      BY <2>1, <2>3, <3>1 DEF Woken, Handover
  <2> QED
    BY <2>2, <2>3
<1>3. ASSUME NEW c \in Thread, Calling(c) \/ Resumed(c), NEW q \in {Senders, Receivers},
             k' = Woken(q), AfterCall(c, Urgent(q)), popped' = popped
      PROVE  /\ KernelInv' /\ (PoppedInv => PoppedInv')
             /\ \A p \in Queue \ {Senders, Receivers} : k'.wq[p] = k.wq[p]
  <2>1. k' \in KernelRec /\ SameButCur(Woken(q), k') /\ k'.cur = k.cur
    BY <1>2, <1>3 DEF SameButCur
  <2>2. /\ pc' \in [Thread -> Phase] /\ \A u \in Thread \ {c} : pc'[u] = pc[u]
        /\ pc'[c] \notin InWait
    <3>1. pc' = [pc EXCEPT ![c] = IF Urgent(q) THEN "owe" ELSE "run"]
      BY <1>3 DEF AfterCall, Goto
    <3> QED
      BY <1>0, <3>1 DEF Phase, InWait
  <2>3. ~Waits(k, c)
    BY <1>3, CallerRuns
  <2>4. KernelInv' /\ (PoppedInv => PoppedInv') /\ k'.wq = IF Handover(q) THEN [k.wq EXCEPT ![q] = Tail(@)] ELSE k.wq
    BY <1>2, <1>3, <2>1, <2>2, <2>3, WokenStep
  <2> QED
    BY <1>0, <2>4
<1>4. ASSUME NEW c \in Thread, Calling(c) \/ Resumed(c), NEW q \in {Senders, Receivers}, NEW timed,
             k' = SuspendCurrent(k, c, q, timed), Goto(c, "block"), popped' = popped
      PROVE  /\ KernelInv' /\ (PoppedInv => PoppedInv')
             /\ \A p \in Queue \ {Senders, Receivers} : k'.wq[p] = k.wq[p]
  <2>1. ~Waits(k, c) /\ k.cur = c /\ popped = None
    BY <1>4, CallerRuns
  <2>2. KernelInv' /\ PoppedInv' /\ k'.wq = [k.wq EXCEPT ![q] = Append(@, c)]
    BY <1>2, <1>4, <2>1, BlockStep
  <2> QED
    BY <1>0, <2>2
<1>5. ASSUME NEW c \in Thread, NEW r, Calling(c) \/ Resumed(c), Succeed(c, r) \/ Block(c, r)
      PROVE  /\ KernelInv' /\ (PoppedInv => PoppedInv')
             /\ \A p \in Queue \ {Senders, Receivers} : k'.wq[p] = k.wq[p]
  <2>1. CASE Succeed(c, r)
    <3>1. k' = Woken(Others(r)) /\ AfterCall(c, Urgent(Others(r))) /\ popped' = popped
      BY <2>1 DEF Succeed
    <3> QED
      BY <1>1, <1>3, <1>5, <3>1
  <2>2. CASE Block(c, r)
    <3>1. k' = SuspendCurrent(k, c, Own(r), r.timed) /\ Goto(c, "block") /\ popped' = popped
      BY <2>2 DEF Block
    <3> QED
      BY <1>1, <1>4, <1>5, <3>1
  <2> QED
    BY <1>5, <2>1, <2>2
<1>6. ASSUME NEW c \in Thread, GiveUp(c)
      PROVE  KernelInv' /\ (PoppedInv => PoppedInv') /\ k' = k
  <2>1. Resumed(c) /\ Goto(c, "run") /\ UNCHANGED <<k, popped>>
    BY <1>6 DEF GiveUp
  <2> QED
    BY <2>1, CallerRuns, ReturnStep
<1>7. ASSUME NEW r, InHandlerCall(r)
      PROVE  /\ KernelInv' /\ (PoppedInv => PoppedInv')
             /\ \A p \in Queue \ {Senders, Receivers} : k'.wq[p] = k.wq[p]
  <2> DEFINE q == Others(r)
  <2>1. k' \in InHandler(Woken(q), Urgent(q)) /\ UNCHANGED <<pc, popped>>
    BY <1>7 DEF InHandlerCall
  <2>2. q \in {Senders, Receivers}
    BY <1>1
  <2> HIDE DEF q
  <2>3. /\ k' \in KernelRec /\ SameButCur(Woken(q), k')
        /\ k'.cur = k.cur \/ k'.st[k'.cur] = "ready"
    BY <1>2, <2>1, <2>2, InHandlerIs
  <2>4. KernelInv' /\ (PoppedInv => PoppedInv') /\ k'.wq = IF Handover(q) THEN [k.wq EXCEPT ![q] = Tail(@)] ELSE k.wq
    BY <1>0, <1>2, <2>1, <2>2, <2>3, NoneNoThread, WokenStep
  <2> QED
    BY <1>0, <2>2, <2>4
<1>8. KernelInv' /\ (PoppedInv => PoppedInv') /\ \A p \in Queue \ {Senders, Receivers} : k'.wq[p] = k.wq[p]
  <2>1. ASSUME NEW c \in User[object], ChannelCall(c)
        PROVE  /\ KernelInv' /\ (PoppedInv => PoppedInv')
             /\ \A p \in Queue \ {Senders, Receivers} : k'.wq[p] = k.wq[p]
    BY <1>0, <1>5, <1>6, <2>1 DEF ChannelCall, Start, Retry
  <2> QED
    BY <1>7, <2>1 DEF ChannelNext
<1> QED
  BY <1>0, <1>8 DEF QueueInv

LEMMA Sound0Next ==
    ASSUME Sound0, [Next]_vars
    PROVE  Sound0' /\ ConsumedStep
<1>1. CASE object = "semaphore" /\ SemaphoreNext(User[object]) /\ UNCHANGED <<evars, cvars>>
           /\ UNCHANGED object
  <2>1. KernelInv' /\ QueueInv'
    BY <1>1, SemaphoreKernel DEF Sound0
  <2> QED
    BY <1>1, <2>1, EventIdle DEF Sound0
<1>2. CASE object = "event" /\ EventNext(User[object]) /\ UNCHANGED <<svars, cvars>>
           /\ UNCHANGED object
  <2>1. KernelInv' /\ QueueInv' /\ EventType' /\ NoMissedEvent' /\ ConsumedStep
    BY <1>2, EventStep DEF Sound0, EventInv
  <2> QED
    BY <1>2, <2>1 DEF Sound0, EventInv
<1>3. CASE object = "channel" /\ ChannelNext(User[object]) /\ UNCHANGED <<svars, evars>>
           /\ UNCHANGED object
  <2>1. KernelInv' /\ QueueInv'
    BY <1>3, ChannelKernel DEF Sound0
  <2> QED
    BY <1>3, <2>1, EventIdle DEF Sound0
<1> QED
  BY <1>1, <1>2, <1>3, Sound0Kernel, Sound0Same DEF Next, ObjectNext

\* The waiters are in one queue each, once, suspended, and only they have timers: with
\* any calls of suspend and resume by threads and handlers.
THEOREM WaitersSafe == Spec => []WaitersSound(k)
<1>1. Sound0 /\ [Next]_vars => Sound0'
  BY Sound0Next
<1>2. Sound0 => WaitersSound(k)
  BY DEF Sound0, KernelInv
<1> QED
  BY <1>1, <1>2, Sound0Init, PTL DEF Spec

\* No waiter is passed over whose condition holds, and who is woken gets bits that
\* satisfy it (Event::send, recv).
THEOREM EventSafe == Spec => []NoMissedEvent
<1>1. Sound0 /\ [Next]_vars => Sound0'
  BY Sound0Next
<1>2. Sound0 => NoMissedEvent
  BY DEF Sound0, EventInv
<1> QED
  BY <1>1, <1>2, Sound0Init, PTL DEF Spec

\* A bit that send() hands to a receiver that clears it goes to nobody else.
THEOREM EventConsumedOnce == Spec => ConsumedOnce
<1>1. Sound0 /\ [Next]_vars => Sound0' /\ [ConsumedStep]_<<k, set, recv>>
  BY Sound0Next
<1>2. ConsumedOnce <=> [][ConsumedStep]_<<k, set, recv>>
  BY PTL DEF ConsumedOnce, ConsumedStep
<1> QED
  BY <1>1, <1>2, Sound0Init, PTL DEF Spec

-----------------------------------------------------------------------------
(* The channel, and what needs that no handler suspends a thread whose     *)
(* timer has expired.                                                      *)

\* Mailbox::recv and send: the step of the buffer is one of the deque, or none.
LEMMA CallNext ==
    ASSUME NEW B, BufferOf(B), Sound0, CallInv(B), [Next]_vars
    PROVE  /\ CallInv(B)'
           /\ Abstract!Next \/ UNCHANGED <<Contents(buf), received>>
<1>1. CASE object = "channel" /\ ChannelNext(User[object]) /\ UNCHANGED object
  BY <1>1, ChannelStep DEF Sound0
<1>2. CASE KernelNext
  <2>1. /\ \A q \in Queue : ToSet(k'.wq[q]) \subseteq ToSet(k.wq[q])
        /\ \A t \in Thread : pc'[t] \in InWait <=> pc[t] \in InWait
        /\ UNCHANGED <<buf, call, received, object>>
    BY <1>2, KernelStep DEF Sound0, KernelNext, cvars
  <2>2. {Senders, Receivers} \subseteq Queue
    BY ChannelAssumption
  <2> QED
    BY <2>1, <2>2 DEF CallInv, Own
<1>3. CASE object # "channel" /\ UNCHANGED <<buf, call, received, object>>
  BY <1>3 DEF CallInv
<1>4. CASE UNCHANGED vars
  BY <1>4 DEF vars, kvars, cvars, CallInv, Own
<1> QED
  BY <1>1, <1>2, <1>3, <1>4 DEF Next, ObjectNext, cvars

LEMMA CallInit ==
    ASSUME NEW B, BufferOf(B), Init
    PROVE  CallInv(B) /\ Abstract!Init
<1>1. /\ buf = EmptyBuffer /\ call = [t \in Thread |-> None] /\ received = None
      /\ pc = [t \in Thread |-> "run"]
  BY DEF Init, ChannelInit, BlockingInit
<1>2. EmptyBuffer \in B /\ Contents(EmptyBuffer) = <<>>
  BY DEF BufferOf, IsBuffer
<1>3. \A q \in {Senders, Receivers} : ToSet(k.wq[q]) = {}
  <2>1. \A q \in Queue : k.wq[q] = <<>>
    BY DEF Init, BlockingInit, KernelInit
  <2> QED
    BY <2>1, ChannelAssumption DEF ToSet
<1> QED
  BY <1>1, <1>2, <1>3 DEF CallInv, Abstract!Init, InWait

\* Every message is received once, in the order of the deque, whoever blocks, retries,
\* times out or is suspended meanwhile: a mailbox and a message queue implement Deque.
THEOREM DequeSafe ==
    ASSUME NEW B, BufferOf(B)
    PROVE  Spec => IsDeque
<1>1. Init => Sound0 /\ CallInv(B) /\ Abstract!Init
  BY Sound0Init, CallInit
<1>2. Sound0 /\ CallInv(B) /\ [Next]_vars =>
        Sound0' /\ CallInv(B)' /\ [Abstract!Next]_<<Contents(buf), received>>
  BY Sound0Next, CallNext
<1> QED
  BY <1>1, <1>2, PTL DEF Spec, IsDeque, Abstract!Spec

\* The release to a thread and its timeout are told apart by the state of the thread: a
\* handler that suspends it between the two would make the one look like the other.
TokenInv == PoppedInv /\ SemInv

LEMMA TokenInit ==
    ASSUME Init
    PROVE  TokenInv
<1>1. PoppedInv
  BY DEF Init, BlockingInit, PoppedInv
<1>2. /\ value = InitValue /\ held = [h \in Holder |-> 0] /\ issued = InitValue
      /\ pc = [t \in Thread |-> "run"] /\ \A q \in Queue : k.wq[q] = <<>>
  BY DEF Init, BlockingInit, SemaphoreInit, KernelInit
<1>3. SemaphoreType
  BY <1>2, SemaphoreAssumption DEF SemaphoreType
<1>4. HandedTokens = {} /\ HeldTokens = {}
  <2>1. HandedTokens = {}
    BY <1>2 DEF HandedTokens, Served
  <2>2. \A x \in Holder \X (1 .. MaxHeld) : ~(x[2] <= held[x[1]])
    BY <1>2, SemaphoreAssumption
  <2> QED
    BY <2>1, <2>2 DEF HeldTokens
<1>5. TokensAccounted
  <2>1. Sem \in Queue /\ InitValue \in Nat
    BY SemaphoreAssumption
  <2> QED
    BY <1>2, <1>4, <2>1, FS_EmptySet DEF TokensAccounted
<1> QED
  BY <1>1, <1>2, <1>3, <1>5 DEF TokenInv, SemInv, InWait

LEMMA TokenNext ==
    ASSUME None \notin Pausers, Sound0, TokenInv, [Next]_vars
    PROVE  TokenInv'
<1>1. CASE object = "semaphore" /\ SemaphoreNext(User[object]) /\ UNCHANGED object
  BY <1>1, SemaphoreStep DEF Sound0, TokenInv
<1>2. CASE object # "semaphore" /\ UNCHANGED <<svars, object>> /\ PoppedInv'
  BY <1>2 DEF TokenInv, SemInv, SemaphoreType, svars
<1>3. CASE object = "event" /\ EventNext(User[object]) /\ UNCHANGED <<svars, cvars>> /\ UNCHANGED object
  BY <1>2, <1>3, EventStep DEF Sound0, EventInv, TokenInv
<1>4. CASE object = "channel" /\ ChannelNext(User[object]) /\ UNCHANGED <<svars, evars>> /\ UNCHANGED object
  BY <1>2, <1>4, ChannelKernel DEF Sound0, TokenInv
<1>5. CASE KernelNext
  <2>1. /\ KernelInv' /\ PoppedInv' /\ \A t \in Thread : Served(t)' <=> Served(t)
        /\ \A q \in Queue : ToSet(k'.wq[q]) \subseteq ToSet(k.wq[q])
        /\ \A t \in Thread : pc'[t] \in InWait <=> pc[t] \in InWait
        /\ UNCHANGED <<value, held, issued, object>>
    BY <1>5, KernelStep DEF Sound0, TokenInv, KernelNext, svars
  <2>2. \A q \in Queue : k.wq[q] = <<>> => k'.wq[q] = <<>>
    BY <2>1, EmptyQueue DEF Sound0
  <2>3. HandedTokens' = HandedTokens /\ HeldTokens' = HeldTokens
    BY <2>1 DEF HandedTokens, HeldTokens
  <2>4. SemaphoreType'
    BY <2>1 DEF TokenInv, SemInv, SemaphoreType
  <2>5. object = "semaphore" => TokensAccounted'
    BY <2>1, <2>2, <2>3, SemaphoreAssumption DEF TokenInv, SemInv, TokensAccounted
  <2> QED
    BY <2>1, <2>4, <2>5 DEF TokenInv, SemInv
<1>6. CASE UNCHANGED vars
  <2>1. UNCHANGED <<k, pc, popped, value, held, issued, object>>
    BY <1>6 DEF vars, kvars, svars
  <2>2. HandedTokens' = HandedTokens /\ HeldTokens' = HeldTokens
    BY <2>1 DEF HandedTokens, HeldTokens, Served
  <2> QED
    BY <2>1, <2>2 DEF TokenInv, PoppedInv, SemInv, SemaphoreType, TokensAccounted
<1> QED
  BY <1>1, <1>3, <1>4, <1>5, <1>6 DEF Next, ObjectNext

\* No race of release, timeout and suspend loses a token or makes one more of it, and
\* nobody waits while one is there (Semaphore::release, take, thread_timer_cb).
THEOREM TokensSafe ==
    ASSUME None \notin Pausers
    PROVE  Spec => []TokensConserved
<1>1. Init => Sound0 /\ TokenInv
  BY Sound0Init, TokenInit
<1>2. Sound0 /\ TokenInv /\ [Next]_vars => Sound0' /\ TokenInv'
  BY Sound0Next, TokenNext
<1>3. TokenInv => TokensConserved
  BY DEF TokenInv, SemInv, TokensConserved
<1> QED
  BY <1>1, <1>2, <1>3, PTL DEF Spec

-----------------------------------------------------------------------------
\* Under the other objects nobody waits for a message.
LEMMA StrandedNext ==
    ASSUME None \notin Pausers, NEW B, BufferOf(B), Sound0, CallInv(B), TokenInv, NoneStranded,
           [Next]_vars
    PROVE  NoneStranded'
<1>0. KernelInv' /\ QueueInv'
  BY Sound0Next DEF Sound0
<1>1. CASE object = "channel" /\ ChannelNext(User[object]) /\ UNCHANGED object
  BY <1>1, ChannelStep DEF Sound0
<1>2. CASE object # "channel" /\ UNCHANGED object
  <2>1. k'.wq[Senders] = <<>> /\ k'.wq[Receivers] = <<>>
    <3>1. {Senders, Receivers} \subseteq Queue /\ {Sem, Flags} \cap {Senders, Receivers} = {}
      BY ChannelAssumption, IpcAssumption
    <3>2. \A q \in {Senders, Receivers} : q \in Queue \ UsedQueues'
      BY <1>2, <3>1, IpcAssumption DEF QueueInv, UsedQueues, Sound0
    <3> QED
      BY <1>0, <3>2 DEF QueueInv
  <2> QED
    BY <2>1 DEF NoneStranded
<1>3. CASE KernelNext
  <2>1. /\ \A t \in Thread : Served(t)' <=> Served(t)
        /\ \A q \in Queue : ToSet(k'.wq[q]) \subseteq ToSet(k.wq[q])
        /\ UNCHANGED <<buf, call>>
    BY <1>3, KernelStep DEF Sound0, TokenInv, KernelNext, cvars
  <2>2. \A q \in Queue : k.wq[q] = <<>> => k'.wq[q] = <<>>
    BY <1>0, <2>1, EmptyQueue DEF Sound0
  <2>3. \A q : OnTheWay(q)' = OnTheWay(q)
    BY <2>1 DEF OnTheWay, Own
  <2> QED
    BY <2>1, <2>2, <2>3, ChannelAssumption DEF NoneStranded, Count
<1>4. CASE UNCHANGED vars
  <2>1. UNCHANGED <<k, pc, buf, call>>
    BY <1>4 DEF vars, kvars, cvars
  <2>2. \A q : OnTheWay(q)' = OnTheWay(q)
    BY <2>1 DEF OnTheWay, Own, Served
  <2> QED
    BY <2>1, <2>2 DEF NoneStranded, Count
<1> QED
  BY <1>1, <1>2, <1>3, <1>4 DEF Next, ObjectNext

\* No message is left behind while a receiver sleeps, and no free place while a sender
\* does: whoever was woken for it is on its way (send_impl, recv).
THEOREM ChannelSafe ==
    ASSUME None \notin Pausers, NEW B, BufferOf(B)
    PROVE  Spec => []NoneStranded
<1>1. Init => Sound0 /\ CallInv(B) /\ TokenInv /\ NoneStranded
  <2>1. Init => NoneStranded
    BY ChannelAssumption DEF Init, BlockingInit, KernelInit, NoneStranded
  <2> QED
    BY <2>1, Sound0Init, CallInit, TokenInit
<1>2. Sound0 /\ CallInv(B) /\ TokenInv /\ NoneStranded /\ [Next]_vars =>
        Sound0' /\ CallInv(B)' /\ TokenInv' /\ NoneStranded'
  BY Sound0Next, CallNext, TokenNext, StrandedNext
<1> QED
  BY <1>1, <1>2, PTL DEF Spec

\* The queues hold suspended threads once each, counters, flags and messages stay within
\* their bounds, and the buffer is intact.
THEOREM QueueSafe ==
    ASSUME None \notin Pausers, NEW B, BufferOf(B)
    PROVE  Spec => []QueueSound
<1>1. Init => Sound0 /\ CallInv(B) /\ TokenInv
  BY Sound0Init, CallInit, TokenInit
<1>2. Sound0 /\ CallInv(B) /\ TokenInv /\ [Next]_vars => Sound0' /\ CallInv(B)' /\ TokenInv'
  BY Sound0Next, CallNext, TokenNext
<1>3. Sound0 /\ CallInv(B) /\ TokenInv => QueueSound
  <2> SUFFICES ASSUME Sound0, CallInv(B), TokenInv PROVE QueueSound
    OBVIOUS
  <2>1. WaitersSound(k) /\ EventType /\ SemaphoreType
    BY DEF Sound0, KernelInv, EventInv, TokenInv, SemInv
  <2>2. ChannelType
    BY BufferFacts DEF CallInv, ChannelType
  <2>3. KernelType(k)
    <3>1. k \in KernelRec
      BY DEF Sound0, KernelInv
    <3> QED
      BY <3>1 DEF KernelRec, KernelType
  <2>4. BlockingType
    BY <2>3 DEF BlockingType, Sound0, KernelInv
  <2> QED
    BY <2>1, <2>2, <2>4 DEF QueueSound, TypeOK
<1> QED
  BY <1>1, <1>2, <1>3, PTL DEF Spec

\* The channel is the one of the model-checked instance: a mailbox and a message queue of
\* Size messages, driven by the same calls.
OnBuffers ==
    /\ Capacity = Size /\ EmptyBuffer = BothInit
    /\ \A b : /\ HasRoom(b) = BothHaveRoom(b) /\ First(b) = BothFirst(b) /\ Rest(b) = BothRecv(b)
              /\ Contents(b) = BothContents(b) /\ Sound(b) = BothAgree(b)
    /\ \A b, m : Put(b, m) = BothSend(b, m) /\ PutFirst(b, m) = BothUrgent(b, m)

\* What the theorems ask of the buffer is what the ring and the linked blocks of ipc.rs do,
\* whatever the messages and the capacity.
THEOREM BuffersServe ==
    ASSUME OnBuffers
    PROVE  BufferOf(Boths(Msg))
<1>1. IsBuffer(Boths(Msg), Msg, Size, BothInit, BothHaveRoom, BothSend, BothUrgent, BothFirst,
               BothRecv, BothContents, BothAgree)
  BY BothIs
<1> QED
  BY <1>1 DEF OnBuffers, BufferOf, IsBuffer

=============================================================================
