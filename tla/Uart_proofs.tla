---------------------------- MODULE Uart_proofs ----------------------------
(***************************************************************************)
(* The console's UART.  Receiving (UartRx): what the reader takes from the *)
(* ring is what the interrupt handler put there, once and in order, for    *)
(* every size of the ring and any number of bytes, errors and reads.       *)
(* Sending (ConsoleTx): every byte leaves once and in order, no            *)
(* transmission cuts off the one before it, and the DMA reads a piece only *)
(* while it is lent, for any writers, any pieces, any number of time-outs. *)
(***************************************************************************)
EXTENDS UartRx, ConsoleTx, QueueLemmas, SequenceTheorems, TLAPS

-----------------------------------------------------------------------------
(* Receiving.                                                              *)

Place == 0 .. RxBufSize - 1
RxBytes == Nat \ {NoByte}

\* What Kept and the register rest on: the variables' types.
RxTypes ==
  /\ sr \subseteq {"RXNE", "ERR", "ORE"} /\ next \in RxBytes /\ rdr \in Nat
  /\ buf \in [Place -> Nat] /\ head \in Place /\ tail \in Place
  /\ accepted \in Seq(Nat) /\ out \in Seq(Nat)
  /\ pc \in {"idle", "head", "byte", "tail", "take", "asleep"}
  /\ byte \in Nat /\ pending \in Nat

\* A read that has seen a byte still finds one: only the reader moves the tail.  A byte
\* is kept aside only between reads, and no byte is the number that says "none".
ReaderInv ==
  /\ pc \in {"byte", "tail"} => head # tail
  /\ pc = "tail" => byte = buf[tail]
  /\ pending # NoByte => pc = "idle"
  /\ pc # "idle" => op \in {"blocking", "timed", "final", "abort", "drain"}
  /\ "RXNE" \in sr => rdr # NoByte
  /\ \A i \in 1 .. Count : Contents[i] # NoByte

RxInv == RxTypes /\ ReaderInv /\ out \o Kept \o Contents = accepted

-----------------------------------------------------------------------------
\* A byte at the end of the ring is a byte at the end of all that was received.
LEMMA AppendToConcat ==
  ASSUME NEW S, NEW p \in Seq(S), NEW c \in Seq(S), NEW b \in S
  PROVE  p \o Append(c, b) = Append(p \o c, b)
<1>1. <<b>> \in Seq(S)
  OBVIOUS
<1>2. p \o c \in Seq(S)
  BY ConcatProperties
<1>3. Append(c, b) = c \o <<b>> /\ Append(p \o c, b) = (p \o c) \o <<b>>
  BY <1>2, AppendIsConcat
<1>4. (p \o c) \o <<b>> = p \o (c \o <<b>>)
  BY <1>1, ConcatAssociative
<1> QED  BY <1>3, <1>4

\* Stepping an index once around the ring (RxRing::push, pop: & (RX_BUF_SIZE - 1)).
LEMMA WrapIs ==
  ASSUME RxAssumption, NEW i \in 0 .. 2 * RxBufSize - 1
  PROVE  Wrap(i) = IF i < RxBufSize THEN i ELSE i - RxBufSize
<1>1. RxBufSize \in Nat /\ RxBufSize > 0
  BY DEF RxAssumption
<1>2. i \in Nat /\ i < 2 * RxBufSize /\ 0 - RxBufSize <= i
  BY <1>1
<1>3. i % RxBufSize = IF i < 0 THEN i + RxBufSize ELSE IF i < RxBufSize THEN i ELSE i - RxBufSize
  BY <1>1, <1>2, Remainder
<1> QED  BY <1>2, <1>3 DEF Wrap

\* The number of bytes in the ring, from its two indices.
LEMMA CountIs ==
  ASSUME RxAssumption, NEW h \in Place, NEW t \in Place
  PROVE  (h - t) % RxBufSize = IF t <= h THEN h - t ELSE h - t + RxBufSize
<1>1. RxBufSize \in Nat /\ RxBufSize > 0
  BY DEF RxAssumption
<1>2. PICK d \in Int : d = h - t
  BY <1>1 DEF Place
<1>3. 0 - RxBufSize <= d /\ d < RxBufSize /\ d < 2 * RxBufSize
  BY <1>1, <1>2 DEF Place
<1>4. d % RxBufSize = IF d < 0 THEN d + RxBufSize ELSE IF d < RxBufSize THEN d ELSE d - RxBufSize
  BY <1>1, <1>3, Remainder
<1>5. d % RxBufSize = IF t <= h THEN d ELSE d + RxBufSize
  BY <1>1, <1>2, <1>3, <1>4 DEF Place
<1> QED  BY <1>2, <1>5

\* The bytes in the ring are a sequence, and shorter than the ring.
LEMMA ContentsType ==
  ASSUME RxAssumption, RxTypes
  PROVE  /\ Count \in Nat /\ Count \in 0 .. RxBufSize - 1
         /\ Count = 0 <=> head = tail
         /\ Contents \in Seq(Nat) /\ Len(Contents) = Count
         /\ \A i \in 1 .. Count : Contents[i] = buf[Wrap(tail + i - 1)]
<1>1. Count = IF tail <= head THEN head - tail ELSE head - tail + RxBufSize
  BY CountIs DEF Count, RxTypes
<1>2. RxBufSize \in Nat /\ head \in Int /\ tail \in Int
  BY DEF RxAssumption, RxTypes, Place
<1>3. Count \in Nat /\ Count \in 0 .. RxBufSize - 1 /\ (Count = 0 <=> head = tail)
  BY <1>1, <1>2 DEF RxTypes, Place
<1>4. ASSUME NEW i \in 1 .. Count
      PROVE  buf[Wrap(tail + i - 1)] \in Nat
  <2>1. tail + i - 1 \in 0 .. 2 * RxBufSize - 1
    BY <1>2, <1>3 DEF RxTypes, Place
  <2>2. Wrap(tail + i - 1) \in Place
    BY <2>1, <1>2, WrapIs DEF Place
  <2> QED  BY <2>2 DEF RxTypes
<1>5. Contents \in [1 .. Count -> Nat]
  BY <1>4 DEF Contents
<1>6. Contents \in Seq(Nat) /\ Len(Contents) = Count
  BY <1>3, <1>5
<1> QED  BY <1>3, <1>6 DEF Contents

\* push: the new byte is the last one in the ring.
LEMMA PushContents ==
  ASSUME RxAssumption, RxTypes, ~Full, NEW b \in Nat,
         buf' = [buf EXCEPT ![head] = b], head' = Wrap(head + 1), tail' = tail
  PROVE  /\ head' \in Place /\ buf' \in [Place -> Nat]
         /\ Contents' = Append(Contents, b) /\ Count' = Count + 1
         /\ buf'[tail] = IF Count = 0 THEN b ELSE buf[tail]
         /\ head' # tail
<1>1. RxBufSize \in Nat /\ RxBufSize > 0 /\ head \in Int /\ tail \in Int
  BY DEF RxAssumption, RxTypes, Place
<1>2. head' = IF head + 1 < RxBufSize THEN head + 1 ELSE head + 1 - RxBufSize
  BY <1>1, WrapIs DEF RxTypes, Place
<1>3. head' \in Place /\ head' # tail
  BY <1>1, <1>2 DEF RxTypes, Place, Full
<1>4. buf' \in [Place -> Nat]
  BY DEF RxTypes
<1>5. Count = IF tail <= head THEN head - tail ELSE head - tail + RxBufSize
  BY CountIs DEF Count, RxTypes
<1>6. Count' = IF tail <= head' THEN head' - tail ELSE head' - tail + RxBufSize
  <2>1. Count' = (head' - tail) % RxBufSize
    BY DEF Count
  <2>2. PICK h \in Place : h = head'
    BY <1>3
  <2>3. tail \in Place
    BY DEF RxTypes
  <2>4. PICK u \in Place : u = tail
    BY <2>3
  <2>5. (h - u) % RxBufSize = IF u <= h THEN h - u ELSE h - u + RxBufSize
    BY CountIs
  <2>6. Count' = (h - u) % RxBufSize
    BY <2>1, <2>2, <2>4, Zenon
  <2> QED
    BY <2>2, <2>4, <2>5, <2>6
<1>7. Count' = Count + 1 /\ Count \in Nat
  <2>1. PICK h \in 0 .. RxBufSize - 1, g \in 0 .. RxBufSize - 1, u \in 0 .. RxBufSize - 1 :
          h = head /\ g = head' /\ u = tail
    BY <1>3 DEF RxTypes, Place
  <2>2. /\ g = (IF h + 1 < RxBufSize THEN h + 1 ELSE h + 1 - RxBufSize) /\ g # u
        /\ Count = (IF u <= h THEN h - u ELSE h - u + RxBufSize)
        /\ Count' = (IF u <= g THEN g - u ELSE g - u + RxBufSize)
    BY <1>2, <1>3, <1>5, <1>6, <2>1
  <2> HIDE DEF Count
  <2> QED
    BY <1>1, <2>1, <2>2
<1>8. ASSUME NEW i \in 1 .. Count'
      PROVE  buf'[Wrap(tail + i - 1)] = IF i <= Count THEN Contents[i] ELSE b
  <2>1. tail + i - 1 \in 0 .. 2 * RxBufSize - 1
    BY <1>1, <1>5, <1>7 DEF RxTypes, Place
  <2>2. Wrap(tail + i - 1) = IF tail + i - 1 < RxBufSize THEN tail + i - 1
                             ELSE tail + i - 1 - RxBufSize
    BY <2>1, <1>1, WrapIs
  <2>3. Wrap(tail + i - 1) = head <=> i = Count + 1
    <3>1. i \in Int /\ 1 <= i /\ i <= Count + 1 /\ head < RxBufSize /\ tail < RxBufSize
          /\ 0 <= head /\ 0 <= tail
      BY <1>1, <1>7 DEF RxTypes, Place
    <3>2. CASE tail <= head  BY <2>2, <1>1, <1>5, <3>1, <3>2
    <3>3. CASE ~(tail <= head)  BY <2>2, <1>1, <1>5, <3>1, <3>3
    <3> QED  BY <3>2, <3>3
  <2>4. Wrap(tail + i - 1) \in Place
    BY <2>1, <2>2, <1>1 DEF Place
  <2>5. i <= Count => Contents[i] = buf[Wrap(tail + i - 1)]
    BY ContentsType, <1>7
  <2> QED  BY <2>3, <2>4, <2>5, <1>7 DEF RxTypes
<1>9. Contents' = Append(Contents, b)
  <2>1. Contents' = [i \in 1 .. Count' |-> buf'[Wrap(tail + i - 1)]]
    BY DEF Contents, Wrap
  <2>2. Contents \in Seq(Nat) /\ Len(Contents) = Count
    BY ContentsType
  <2>3. Contents' \in Seq(Nat) /\ Len(Contents') = Count + 1
        /\ \A i \in 1 .. Count + 1 : Contents'[i] = IF i <= Count THEN Contents[i] ELSE b
    <3>1. \A i \in 1 .. Count : Contents[i] \in Nat
      BY <2>2
    <3> HIDE DEF Contents
    <3>2. \A i \in 1 .. Count' : Contents'[i] = IF i <= Count THEN Contents[i] ELSE b
      BY <2>1, <1>8
    <3>3. \A i \in 1 .. Count' : Contents'[i] \in Nat
      BY <1>7, <3>1, <3>2
    <3>4. Contents' \in [1 .. Count' -> Nat]
      BY <2>1, <3>3
    <3>5. Contents' \in Seq(Nat) /\ Len(Contents') = Count'
      BY <1>7, <3>4
    <3> QED  BY <1>7, <3>2, <3>5
  <2>4. Append(Contents, b) \in Seq(Nat) /\ Len(Append(Contents, b)) = Count + 1
        /\ \A i \in 1 .. Count + 1 :
             Append(Contents, b)[i] = IF i <= Count THEN Contents[i] ELSE b
    BY <2>2, <1>7, AppendProperties
  <2> HIDE DEF Contents
  <2> QED  BY <2>3, <2>4, SeqEqual
<1>10. buf'[tail] = IF Count = 0 THEN b ELSE buf[tail]
  BY <1>1, <1>5 DEF RxTypes, Place
<1> QED  BY <1>3, <1>4, <1>7, <1>9, <1>10

\* pop: the byte at the tail is the first one in the ring, and leaves it.
LEMMA PopContents ==
  ASSUME RxAssumption, RxTypes, head # tail,
         buf' = buf, head' = head, tail' = Wrap(tail + 1)
  PROVE  /\ tail' \in Place
         /\ Count' = Count - 1
         /\ \A i \in 1 .. Count' : Contents'[i] = Contents[i + 1]
         /\ buf[tail] = Contents[1] /\ Contents # <<>>
         /\ Contents' \in Seq(Nat) /\ Contents = <<buf[tail]>> \o Contents'
<1>1. RxBufSize \in Nat /\ RxBufSize > 0 /\ head \in Int /\ tail \in Int
  BY DEF RxAssumption, RxTypes, Place
<1>2. tail' = IF tail + 1 < RxBufSize THEN tail + 1 ELSE tail + 1 - RxBufSize
  BY <1>1, WrapIs DEF RxTypes, Place
<1>3. tail' \in Place
  BY <1>1, <1>2 DEF RxTypes, Place
<1>4. Count = IF tail <= head THEN head - tail ELSE head - tail + RxBufSize
  BY CountIs DEF Count, RxTypes
<1>5. Count' = IF tail' <= head THEN head - tail' ELSE head - tail' + RxBufSize
  BY CountIs, <1>3 DEF Count, RxTypes
<1>6. Count' = Count - 1 /\ Count' \in Nat /\ Count < RxBufSize /\ Count \in Nat
  BY <1>1, <1>2, <1>3, <1>4, <1>5 DEF RxTypes, Place
<1>7. Contents \in Seq(Nat) /\ Len(Contents) = Count
      /\ \A i \in 1 .. Count : Contents[i] = buf[Wrap(tail + i - 1)]
  BY ContentsType
<1>8. Contents' = [i \in 1 .. Count' |-> buf[Wrap(tail' + i - 1)]]
  BY DEF Contents, Wrap
<1>9. ASSUME NEW i \in 1 .. Count'
      PROVE  Contents'[i] = Contents[i + 1]
  <2>1. tail + i \in 0 .. 2 * RxBufSize - 1 /\ tail' + i - 1 \in 0 .. 2 * RxBufSize - 1
    BY <1>1, <1>3, <1>6 DEF RxTypes, Place
  <2>2. Wrap(tail + i) = IF tail + i < RxBufSize THEN tail + i ELSE tail + i - RxBufSize
    BY <2>1, <1>1, WrapIs
  <2>3. Wrap(tail' + i - 1) = IF tail' + i - 1 < RxBufSize THEN tail' + i - 1
                              ELSE tail' + i - 1 - RxBufSize
    BY <2>1, <1>1, <1>3, WrapIs DEF Place
  <2>4. Wrap(tail' + i - 1) = Wrap(tail + i)
    <3>1. i \in Nat /\ i < Count /\ tail < RxBufSize /\ 0 <= tail
      BY <1>6, <1>1 DEF RxTypes, Place
    <3>2. CASE tail + 1 < RxBufSize
      BY <2>2, <2>3, <1>1, <1>2, <3>1, <3>2
    <3>3. CASE ~(tail + 1 < RxBufSize)
      <4>1. tail' = 0 /\ tail + 1 = RxBufSize
        BY <1>1, <1>2, <3>1, <3>3
      <4>2. tail' + i - 1 = i - 1 /\ tail + i = RxBufSize + i - 1 /\ i >= 1 /\ i < RxBufSize
        BY <1>1, <1>6, <3>1, <4>1
      <4>3. Wrap(tail' + i - 1) = i - 1 /\ Wrap(tail + i) = i - 1
        BY <2>2, <2>3, <1>1, <3>1, <4>2
      <4> QED  BY <4>3
    <3> QED  BY <3>2, <3>3
  <2>5. Contents[i + 1] = buf[Wrap(tail + (i + 1) - 1)]
    BY <1>6, <1>7
  <2>6. tail + (i + 1) - 1 = tail + i
    BY <1>1
  <2> QED  BY <1>8, <2>4, <2>5, <2>6
<1>10. buf[tail] = Contents[1] /\ Contents # <<>>
  <2>1. Count >= 1 /\ Wrap(tail + 1 - 1) = tail
    <3>1. tail + 1 - 1 = tail /\ tail \in 0 .. 2 * RxBufSize - 1 /\ tail < RxBufSize
      BY <1>1 DEF RxTypes, Place
    <3> QED  BY <3>1, <1>6, WrapIs
  <2> QED  BY <2>1, <1>6, <1>7
<1>11. Contents' \in Seq(Nat) /\ Contents = <<buf[tail]>> \o Contents'
  <2>1. buf[tail] \in Nat
    BY DEF RxTypes
  <2>2. Contents' \in Seq(Nat) /\ Len(Contents') = Count'
    <3>1. \A i \in 1 .. Count' : Contents'[i] \in Nat
      BY <1>6, <1>7, <1>9
    <3>2. Contents' \in [1 .. Count' -> Nat]
      BY <1>8, <3>1
    <3> QED  BY <1>6, <3>2
  <2> DEFINE r == <<buf[tail]>> \o Contents'
  <2>3. r \in Seq(Nat) /\ Len(r) = 1 + Count'
        /\ \A i \in 1 .. 1 + Count' : r[i] = IF i <= 1 THEN buf[tail] ELSE Contents'[i - 1]
    <3>1. <<buf[tail]>> \in Seq(Nat) /\ Len(<<buf[tail]>>) = 1 /\ <<buf[tail]>>[1] = buf[tail]
      BY <2>1
    <3> HIDE DEF Contents
    <3> QED  BY <3>1, <2>2, <1>6, ConcatProperties
  <2>4. ASSUME NEW i \in 1 .. Count
        PROVE  Contents[i] = r[i]
    <3>1. i \in Nat /\ i \in 1 .. 1 + Count' /\ (~(i <= 1) => i - 1 \in 1 .. Count' /\ i - 1 + 1 = i)
      BY <1>6
    <3> HIDE DEF Contents, r
    <3>2. r[i] = IF i <= 1 THEN buf[tail] ELSE Contents'[i - 1]
      BY <3>1, <2>3
    <3>3. CASE i <= 1
      <4>1. i = 1
        BY <1>6, <3>3
      <4> QED  BY <1>10, <3>2, <3>3, <4>1
    <3>4. CASE ~(i <= 1)
      <4>1. Contents'[i - 1] = Contents[i - 1 + 1]
        BY <1>9, <3>1, <3>4
      <4> QED  BY <3>1, <3>2, <3>4, <4>1
    <3> QED  BY <3>3, <3>4
  <2> HIDE DEF Contents, r
  <2>5. Contents = r
    BY <2>3, <2>4, <1>6, <1>7, SeqEqual
  <2> QED  BY <2>2, <2>5 DEF r
<1> QED  BY <1>3, <1>6, <1>9, <1>10, <1>11

-----------------------------------------------------------------------------
\* A new console has received nothing.
LEMMA RxInvInit ==
  ASSUME RxAssumption
  PROVE  RxInit => RxInv
<1> SUFFICES ASSUME RxInit PROVE RxInv
  OBVIOUS
<1>1. RxTypes
  BY DEF RxInit, RxTypes, Place, RxBytes, NoByte, RxAssumption
<1>2. Count = 0 /\ Contents = <<>>
  <2>1. Count = 0
    BY <1>1, ContentsType DEF RxInit
  <2>2. Contents \in Seq(Nat) /\ Len(Contents) = 0
    BY <1>1, <2>1, ContentsType
  <2> QED  BY <2>1, <2>2
<1>3. ReaderInv
  BY <1>2 DEF RxInit, ReaderInv, NoByte
<1>4. out \o Kept \o Contents = accepted
  BY <1>2 DEF RxInit, Kept, NoByte
<1> QED  BY <1>1, <1>3, <1>4 DEF RxInv

\* No step of the line, the handler or the reader breaks the order: one step per action.
LEMMA RxInvNext ==
  ASSUME RxAssumption, RxInv, [RxNext]_rxVars
  PROVE  RxInv'
<1> USE DEF RxInv
<1>0. /\ Count \in Nat /\ (Count = 0 <=> head = tail)
      /\ Contents \in Seq(Nat) /\ Len(Contents) = Count
  BY ContentsType
<1>1. ASSUME UNCHANGED ringVars
      PROVE  Count' = Count /\ Contents' = Contents
  BY <1>1 DEF ringVars, Count, Contents
<1>2. ASSUME UNCHANGED <<pending>>
      PROVE  Kept' = Kept
  BY <1>2 DEF Kept
<1>3. CASE Arrive
  <2>1. UNCHANGED <<ringVars, pc, op, byte, pending, out, accepted>>
    BY <1>3 DEF Arrive, ringVars
  <2>2. sr' \subseteq {"RXNE", "ERR", "ORE"} /\ rdr' \in Nat /\ next' \in RxBytes
    <3>1. next \in Nat /\ next # 0 /\ next' = next + 1 /\ rdr' \in {rdr, next}
      BY <1>3 DEF Arrive, RxTypes, RxBytes, NoByte
    <3>2. sr' \subseteq {"RXNE", "ERR", "ORE"}
      BY <1>3 DEF Arrive, RxTypes
    <3> QED  BY <3>1, <3>2 DEF RxTypes, RxBytes, NoByte
  <2>4. RxTypes'
    BY <2>1, <2>2 DEF RxTypes, ringVars
  <2>3. ReaderInv'
    BY <1>3, <2>1, <1>1 DEF Arrive, RxTypes, ReaderInv, ringVars, RxBytes, NoByte
  <2> QED  BY <2>1, <2>3, <2>4, <1>1, <1>2 DEF ringVars
<1>4. CASE RxIrq
  <2>1. UNCHANGED <<next, byte, pending, out, op>> /\ sr' = {} /\ rdr' = NoByte
    BY <1>4 DEF RxIrq
  <2>2. CASE sr = {"RXNE"} /\ ~Full
    <3>1. /\ buf' = [buf EXCEPT ![head] = rdr] /\ head' = Wrap(head + 1)
          /\ accepted' = Append(accepted, rdr) /\ tail' = tail
      BY <1>4, <2>2 DEF RxIrq, Push
    <3>2. pc' = pc \/ (pc = "asleep" /\ pc' = "head")
      <4>1. Notified(~Full)
        BY <1>4, <2>2 DEF RxIrq
      <4> QED  BY <4>1 DEF Notified
    <3>3. rdr \in Nat /\ rdr # NoByte
      BY <2>2 DEF RxTypes, ReaderInv
    <3>4. /\ head' \in Place /\ buf' \in [Place -> Nat]
          /\ Contents' = Append(Contents, rdr) /\ Count' = Count + 1
          /\ buf'[tail] = IF Count = 0 THEN rdr ELSE buf[tail]
          /\ head' # tail
      BY <2>2, <3>1, <3>3, PushContents
    <3>5. RxTypes'
      BY <2>1, <3>1, <3>2, <3>3, <3>4, AppendProperties DEF RxTypes, NoByte
    <3>6. \A i \in 1 .. Count' : Contents'[i] # NoByte
      <4>1. \A i \in 1 .. Count : Contents[i] # NoByte
        BY DEF ReaderInv
      <4> HIDE DEF Contents
      <4> QED  BY <1>0, <3>3, <3>4, <4>1, AppendProperties
    <3>7. ReaderInv'
      BY <1>0, <2>1, <3>1, <3>2, <3>4, <3>6 DEF ReaderInv
    <3>8. out' \o Kept' \o Contents' = accepted'
      <4>1. Kept \in Seq(Nat)
        BY DEF Kept, RxTypes
      <4>2. (out \o Kept) \o Append(Contents, rdr) = Append((out \o Kept) \o Contents, rdr)
        <5>1. out \o Kept \in Seq(Nat)
          BY <4>1, ConcatProperties DEF RxTypes
        <5>2. \A p, c \in Seq(Nat) : p \o Append(c, rdr) = Append(p \o c, rdr)
          BY <3>3, AppendToConcat
        <5> QED  BY <5>1, <5>2, <1>0
      <4> QED  BY <2>1, <3>1, <3>4, <4>2, <1>2
    <3> QED  BY <3>5, <3>7, <3>8
  <2>3. CASE ~(sr = {"RXNE"} /\ ~Full)
    <3>1. UNCHANGED <<buf, head, tail, accepted>> /\ pc' = pc
      BY <1>4, <2>3 DEF RxIrq, ringVars, Push, Notified
    <3>2. Count' = Count /\ Contents' = Contents
      BY <3>1 DEF Count, Contents
    <3>3. RxTypes' /\ ReaderInv'
      BY <2>1, <3>1, <3>2 DEF RxTypes, ReaderInv, NoByte
    <3> QED  BY <2>1, <3>1, <3>2, <3>3, <1>2
  <2> QED  BY <2>2, <2>3
<1>5. CASE ReadBlocking \/ PopHead \/ Take \/ Tick
  <2>1. UNCHANGED <<sr, rdr, next, buf, head, tail, accepted, byte, pending, out>>
    BY <1>5 DEF ReadBlocking, PopHead, Take, Tick, lineVars, ringVars
  <2>2. Count' = Count /\ Contents' = Contents /\ Kept' = Kept
    BY <2>1 DEF Count, Contents, Kept
  <2>3. /\ pc' \in {"idle", "head", "byte", "tail", "take", "asleep"}
        /\ pc' = "tail" => pc = "tail"
        /\ pc' = "byte" => head # tail
        /\ pending # NoByte => pc' = "idle"
        /\ pc' # "idle" => op' \in {"blocking", "timed", "final", "abort", "drain"}
    <3>1. CASE ReadBlocking  BY <3>1 DEF ReadBlocking, Goto, RxTypes, ReaderInv
    <3>2. CASE PopHead
      <4>1. pc = "head" /\ pending = NoByte
            /\ op \in {"blocking", "timed", "final", "abort", "drain"}
        BY <3>2 DEF PopHead, ReaderInv
      <4>2. (pc' = "byte" /\ head # tail) \/ pc' \in {"take", "idle"} \/ pc' = pc
        BY <3>2, <4>1 DEF PopHead, Goto
      <4>3. op' = op
        BY <3>2 DEF PopHead
      <4> QED  BY <4>1, <4>2, <4>3
    <3>3. CASE Take  BY <3>3 DEF Take, Goto, RxTypes, ReaderInv
    <3>4. CASE Tick  BY <3>4 DEF Tick, Goto, RxTypes, ReaderInv
    <3> QED  BY <1>5, <3>1, <3>2, <3>3, <3>4
  <2>4. RxTypes' /\ ReaderInv'
    BY <2>1, <2>2, <2>3 DEF RxTypes, ReaderInv
  <2> QED  BY <2>1, <2>2, <2>4
<1>6. CASE ReadTimeout \/ AbortRequested \/ DrainInput
  <2>1. UNCHANGED <<sr, rdr, next, buf, head, tail, accepted, byte>> /\ pc = "idle"
    BY <1>6 DEF ReadTimeout, AbortRequested, DrainInput, lineVars, ringVars
  <2>2. Count' = Count /\ Contents' = Contents
    BY <2>1 DEF Count, Contents
  <2>3. \/ UNCHANGED <<pending, out>> /\ (pc' = "idle" \/ (pc' = "head" /\ pending = NoByte))
        \/ pending # NoByte /\ pending' = NoByte /\ out' = out \o <<pending>> /\ pc' = "idle"
    <3>1. CASE ReadTimeout  BY <3>1, <2>1 DEF ReadTimeout, Goto, Consume
    <3>2. CASE AbortRequested  BY <3>2, <2>1 DEF AbortRequested, Goto, Consume
    <3>3. CASE DrainInput  BY <3>3, <2>1 DEF DrainInput, Goto
    <3> QED  BY <1>6, <3>1, <3>2, <3>3
  <2>4. out' \in Seq(Nat)
    <3>1. <<pending>> \in Seq(Nat) /\ out \in Seq(Nat)
      BY DEF RxTypes
    <3> QED  BY <2>3, <3>1, ConcatProperties
  <2>5. RxTypes' /\ ReaderInv'
    <3>1. pc' # "idle" => op' \in {"timed", "abort", "drain"}
      BY <1>6, <2>1 DEF ReadTimeout, AbortRequested, DrainInput, Goto
    <3> QED  BY <2>1, <2>2, <2>3, <2>4, <3>1 DEF RxTypes, ReaderInv, NoByte
  <2>6. out' \o Kept' = out \o Kept
    BY <2>3, <2>4, ConcatEmptySeq DEF Kept
  <2> QED  BY <2>1, <2>2, <2>5, <2>6
<1>7. CASE PopByte
  <2>1. UNCHANGED <<sr, rdr, next, buf, head, tail, accepted, op, pending, out>>
        /\ pc = "byte" /\ pc' = "tail" /\ byte' = buf[tail]
    BY <1>7 DEF PopByte, Goto, lineVars, ringVars
  <2>2. Count' = Count /\ Contents' = Contents /\ Kept' = Kept
    BY <2>1 DEF Count, Contents, Kept
  <2>3. RxTypes' /\ ReaderInv'
    BY <2>1, <2>2 DEF RxTypes, ReaderInv
  <2> QED  BY <2>1, <2>2, <2>3
<1>8. CASE PopTail
  <2>1. UNCHANGED <<sr, rdr, next, buf, head, accepted, op, byte>>
        /\ pc = "tail" /\ pc' \in {"head", "idle"} /\ tail' = Wrap(tail + 1)
    BY <1>8 DEF PopTail, Goto, lineVars
  <2>2. head # tail /\ byte = buf[tail] /\ pending = NoByte /\ byte \in Nat
    BY <2>1 DEF RxTypes, ReaderInv
  <2>3. /\ tail' \in Place /\ Count' = Count - 1
        /\ \A i \in 1 .. Count' : Contents'[i] = Contents[i + 1]
        /\ buf[tail] = Contents[1]
        /\ Contents' \in Seq(Nat) /\ Contents = <<byte>> \o Contents'
    BY <2>1, <2>2, PopContents
  <2>4. \/ pending' = byte /\ out' = out /\ pc' = "idle"
        \/ pending' = NoByte /\ out' = out \o <<byte>>
    BY <1>8, <2>2 DEF PopTail, Consume, Goto
  <2>5. RxTypes'
    <3>1. <<byte>> \in Seq(Nat) /\ out \in Seq(Nat)
      BY <2>2 DEF RxTypes
    <3>2. out \o <<byte>> \in Seq(Nat)
      BY <3>1, ConcatProperties
    <3>3. out' \in Seq(Nat) /\ pending' \in Nat
      <4>1. NoByte \in Nat
        BY DEF NoByte
      <4> QED  BY <2>2, <2>4, <3>1, <3>2, <4>1
    <3> QED  BY <2>1, <2>3, <3>3 DEF RxTypes
  <2>6. byte # NoByte
    BY <1>0, <2>2, <2>3 DEF ReaderInv
  <2>7. ReaderInv'
    <3>1. ASSUME NEW i \in 1 .. Count'
          PROVE  Contents'[i] # NoByte
      <4>1. i + 1 \in 1 .. Count
        BY <1>0, <2>3
      <4>2. Contents[i + 1] # NoByte
        BY <4>1 DEF ReaderInv
      <4> QED  BY <2>3, <4>2
    <3> QED  BY <2>1, <2>4, <3>1 DEF ReaderInv
  <2>8. out' \o Kept' \o Contents' = accepted'
    <3>1. Kept = <<>> /\ out \o <<>> = out
      BY <2>2, ConcatEmptySeq DEF Kept, RxTypes
    <3>2. out' \o Kept' = out \o <<byte>>
      BY <2>4, <2>5, <2>6, ConcatEmptySeq DEF Kept, RxTypes
    <3>3. (out \o <<byte>>) \o Contents' = out \o (<<byte>> \o Contents')
      <4>1. <<byte>> \in Seq(Nat) /\ out \in Seq(Nat)
        BY <2>2 DEF RxTypes
      <4>2. Contents' \in Seq(Nat)
        BY <2>3
      <4> QED  BY <4>1, <4>2, ConcatAssociative
    <3> QED  BY <2>1, <2>3, <3>1, <3>2, <3>3
  <2> QED  BY <2>5, <2>7, <2>8
<1>9. CASE UNCHANGED rxVars
  <2>1. UNCHANGED <<sr, rdr, next, buf, head, tail, accepted, pc, op, byte, pending, out>>
    BY <1>9 DEF rxVars, lineVars, ringVars
  <2>2. Count' = Count /\ Contents' = Contents /\ Kept' = Kept
    BY <2>1 DEF Count, Contents, Kept
  <2> QED  BY <2>1, <2>2 DEF RxTypes, ReaderInv
<1> QED
  BY <1>3, <1>4, <1>5, <1>6, <1>7, <1>8, <1>9 DEF RxNext, Reader

\* Every byte that entered the ring is consumed once and in order, and the byte a read
\* holds is the one it will consume: no lock is needed between the interrupt handler
\* that pushes and the one thread that pops (uart.rs, RxRing::push and pop).
THEOREM RxSafe ==
  ASSUME RxAssumption
  PROVE  RxSpec => []RxInOrder
<1>1. RxInit => RxInv
  BY RxInvInit
<1>2. RxInv /\ [RxNext]_rxVars => RxInv'
  BY RxInvNext
<1>3. RxInv => RxInOrder
  <2> SUFFICES ASSUME RxInv PROVE RxInOrder
    OBVIOUS
  <2>1. pc = "tail" => byte = Head(Contents)
    <3> SUFFICES ASSUME pc = "tail" PROVE byte = Head(Contents)
      OBVIOUS
    <3>1. head # tail /\ byte = buf[tail] /\ tail \in Place
      BY DEF RxInv, ReaderInv, RxTypes
    <3>2. Count >= 1 /\ Contents[1] = buf[Wrap(tail + 1 - 1)]
          /\ Contents \in Seq(Nat) /\ Len(Contents) = Count
      BY <3>1, ContentsType DEF RxInv
    <3>3. Wrap(tail + 1 - 1) = tail
      <4>1. tail + 1 - 1 = tail /\ tail \in 0 .. 2 * RxBufSize - 1 /\ tail < RxBufSize
        BY <3>1 DEF Place, RxAssumption
      <4> QED  BY <4>1, WrapIs
    <3> HIDE DEF Contents
    <3> QED  BY <3>1, <3>2, <3>3
  <2> QED  BY <2>1 DEF RxInv, RxInOrder
<1> QED
  BY <1>1, <1>2, <1>3, PTL DEF RxSpec

-----------------------------------------------------------------------------
(* Sending.                                                                *)

Bytes == Writer \X Nat \X Nat
Places == {"idle", "over", "lock", "enter", "piece", "try", "config", "arm", "te",
           "enable", "fire", "wait", "stop", "poll"}

\* Who holds UART_TX_BUSY, and of these, whose piece the channel has.
Setting == {"config", "arm", "te", "enable"}
Lent == {"fire", "wait", "stop"}
Holding == Setting \cup Lent

TxTypes ==
  /\ te \in BOOLEAN /\ tc \in BOOLEAN /\ txBusy \in BOOLEAN /\ mixed \in BOOLEAN
  /\ tdr \in Bytes \cup {Nothing} /\ shift \in Bytes \cup {Nothing} /\ wire \in Seq(Bytes)
  /\ chen \in Nat /\ src \in Bytes \cup {Nothing}
  /\ at \in [Writer -> Places]
  /\ piece \in [Writer -> Nat \ {0}] /\ done \in [Writer -> Nat]

\* UART_TX_BUSY has one holder; what the channel has left is the end of its piece.
ChannelInv ==
  /\ \A w \in Writer : at[w] \in Holding => txBusy
  /\ \A v, w \in Writer : at[v] \in Holding /\ at[w] \in Holding => v = w
  /\ \A w \in Writer : Writing(w) => piece[w] \in DOMAIN Piece[w]
  /\ \A w \in Writer : at[w] = "poll" => done[w] < Length(w)
  /\ \A w \in Writer : at[w] \in Setting => done[w] = 0
  /\ chen > 0 => \E w \in Writer : /\ at[w] \in Lent /\ chen <= Length(w)
                                   /\ src = Byte(w, Length(w) - chen + 1)

\* The byte that w sends next; it has sent none that comes later.
NextByte(w) ==
  IF at[w] = "poll" THEN Byte(w, done[w] + 1)
  ELSE IF at[w] \in Lent
       THEN IF chen > 0 THEN Byte(w, Length(w) - chen + 1) ELSE <<w, piece[w] + 1, 1>>
       ELSE Byte(w, 1)
OrderedUpto(s, F) ==
  /\ \A i, j \in DOMAIN s : i < j /\ s[i][1] = s[j][1] => Before(s[i], s[j])
  /\ \A w \in Writer : \A i \in DOMAIN s : s[i][1] = w => Before(s[i], F[w])
OrderInv == OrderedUpto(OnWay, [w \in Writer |-> NextByte(w)])

\* Where nobody writes into another's piece, what a writer has gone past is on its way.
Sent(s, b) == \E j \in DOMAIN s : s[j] = b
Whole(w, p) == <<w, p>> \in given \/ \A i \in 1 .. Piece[w][p] : Sent(OnWay, <<w, p, i>>)
Begun(w, n) == \A i \in 1 .. n : Sent(OnWay, Byte(w, i))
Progress(w) ==
  /\ \A p \in 1 .. piece[w] - 1 : Whole(w, p)
  /\ at[w] = "poll" => Begun(w, done[w])
  /\ at[w] \in Lent => Begun(w, Length(w) - chen)
WholeInv ==
  ~mixed =>
    /\ \A v, w \in Writer : Writing(v) /\ Writing(w) => v = w
    /\ \A w \in Writer : at[w] = "te" => TC
    /\ \A w \in Writer : Progress(w)
FlagInv ==
  \A w \in Writer : /\ at[w] \in Setting \ {"config"} => ~tc
                    /\ at[w] \in {"fire", "wait"} /\ tc => chen = 0
                    /\ at[w] = "stop" => chen = 0 \/ <<w, piece[w]>> \in given

\* The bytes of printers in s, and where the printers are: no byte of one who has not
\* begun, and only who is over has bytes before another's.
Unbroken(s) ==
  \A i, j, k \in DOMAIN s :
    i < j /\ j < k /\ s[i][1] = s[k][1] /\ s[i][1] \in Printer /\ s[j][1] \in Printer
    => s[j][1] = s[i][1]
Lines(s, where) ==
  /\ \A i \in DOMAIN s : s[i][1] \in Printer => where[s[i][1]] \notin {"idle", "lock"}
  /\ \A i, j \in DOMAIN s :
       i < j /\ s[i][1] \in Printer /\ s[j][1] \in Printer /\ s[i][1] # s[j][1]
       => where[s[i][1]] = "over"
  /\ Unbroken(s)

\* Who has taken the print lock holds it until the line is over.
LockInv == \A w \in Printer : at[w] \notin {"idle", "lock", "over"} => lock = w
LineInv == LockInv /\ Lines(OnWay, at)

TxInv == TxTypes /\ ChannelInv /\ OrderInv /\ LineInv /\ WholeInv /\ FlagInv

-----------------------------------------------------------------------------
(* What is on its way, as the hardware and the writers change it.          *)

LEMMA EmptyCell == ASSUME NEW b \in Bytes PROVE b # Nothing
  BY DEF Bytes, Nothing

\* The wire, then the shifter, then TDR.
LEMMA WayIs ==
  ASSUME NEW w \in Seq(Bytes), NEW sh \in Bytes \cup {Nothing}, NEW td \in Bytes \cup {Nothing}
  PROVE  LET s == IF sh = Nothing THEN w ELSE Append(w, sh)
             r == IF td = Nothing THEN s ELSE Append(s, td)
         IN  /\ w \o (IF sh = Nothing THEN <<>> ELSE <<sh>>) \o (IF td = Nothing THEN <<>> ELSE <<td>>) = r
             /\ s \in Seq(Bytes) /\ r \in Seq(Bytes)
<1> DEFINE s == IF sh = Nothing THEN w ELSE Append(w, sh)
<1>1. w \o (IF sh = Nothing THEN <<>> ELSE <<sh>>) = s /\ s \in Seq(Bytes)
  OBVIOUS
<1> HIDE DEF s
<1>2. s \o (IF td = Nothing THEN <<>> ELSE <<td>>) = IF td = Nothing THEN s ELSE Append(s, td)
  BY <1>1
<1>3. (IF td = Nothing THEN s ELSE Append(s, td)) \in Seq(Bytes)
  BY <1>1
<1> QED
  BY <1>1, <1>2, <1>3 DEF s

LEMMA WayType == ASSUME TxTypes PROVE OnWay \in Seq(Bytes) /\ DOMAIN OnWay = 1 .. Len(OnWay)
<1>1. OnWay \in Seq(Bytes)
  BY WayIs DEF TxTypes, OnWay
<1> QED
  BY <1>1

LEMMA WayTypeNext == ASSUME TxTypes' PROVE OnWay' \in Seq(Bytes)
  BY WayIs DEF TxTypes, OnWay

\* A byte that is put into an empty TDR comes last.
LEMMA WayPut ==
  ASSUME TxTypes, TxTypes', tdr = Nothing, tdr' # Nothing, UNCHANGED <<shift, wire>>
  PROVE  OnWay' = Append(OnWay, tdr') /\ tdr' \in Bytes
<1>1. tdr' \in Bytes
  BY DEF TxTypes
<1>2. OnWay = IF shift = Nothing THEN wire ELSE Append(wire, shift)
  BY WayIs DEF TxTypes, OnWay
<1>3. OnWay' = Append(IF shift = Nothing THEN wire ELSE Append(wire, shift), tdr')
  BY WayIs DEF TxTypes, OnWay
<1> QED
  BY <1>1, <1>2, <1>3

\* TDR goes to the shifter, and the channel may put its next byte behind it.
LEMMA WayShift ==
  ASSUME TxTypes, TxTypes', tdr # Nothing, shift = Nothing, shift' = tdr, UNCHANGED wire
  PROVE  OnWay' = IF tdr' = Nothing THEN OnWay ELSE Append(OnWay, tdr')
<1>1. OnWay = Append(wire, tdr)
  BY WayIs DEF TxTypes, OnWay
<1>2. OnWay' = IF tdr' = Nothing THEN Append(wire, tdr) ELSE Append(Append(wire, tdr), tdr')
  BY WayIs DEF TxTypes, OnWay
<1> QED
  BY <1>1, <1>2

\* What leaves was on its way.
LEMMA WayLeave ==
  ASSUME TxTypes, TxTypes', shift # Nothing, shift' = Nothing, wire' = Append(wire, shift),
         UNCHANGED tdr
  PROVE  OnWay' = OnWay
<1>1. OnWay = IF tdr = Nothing THEN Append(wire, shift) ELSE Append(Append(wire, shift), tdr)
  BY WayIs DEF TxTypes, OnWay
<1>2. OnWay' = IF tdr = Nothing THEN Append(wire, shift) ELSE Append(Append(wire, shift), tdr)
  BY WayIs DEF TxTypes, OnWay
<1> QED
  BY <1>1, <1>2

\* A sender that is switched off keeps what has left.
LEMMA WayOff ==
  ASSUME TxTypes, TxTypes', tdr' = Nothing, shift' = Nothing, UNCHANGED wire
  PROVE  /\ OnWay' = wire /\ Len(wire) <= Len(OnWay)
         /\ \A i \in DOMAIN wire : OnWay[i] = wire[i]
         /\ TC => OnWay' = OnWay
<1>1. OnWay' = wire /\ (TC => OnWay = wire)
  BY WayIs DEF TC, TxTypes, OnWay
<1>2. wire \in Seq(Bytes) /\ (shift # Nothing => shift \in Bytes) /\ (tdr # Nothing => tdr \in Bytes)
  BY DEF TxTypes
<1> DEFINE s == IF shift = Nothing THEN wire ELSE Append(wire, shift)
<1>3. s \in Seq(Bytes) /\ Len(wire) <= Len(s) /\ \A i \in DOMAIN wire : s[i] = wire[i]
  BY <1>2
<1>4. OnWay = IF tdr = Nothing THEN s ELSE Append(s, tdr)
  BY WayIs DEF TxTypes, OnWay
<1> HIDE DEF s
<1>5. Len(s) <= Len(OnWay) /\ \A i \in DOMAIN s : OnWay[i] = s[i]
  BY <1>2, <1>3, <1>4
<1>6. DOMAIN wire \subseteq DOMAIN s
  BY <1>2, <1>3
<1> QED
  BY <1>1, <1>2, <1>3, <1>5, <1>6

-----------------------------------------------------------------------------
(* The order of a writer's bytes.                                          *)

Upto(a, b) == a = b \/ Before(a, b)

LEMMA BeforeUpto ==
  ASSUME NEW a \in Bytes, NEW b \in Bytes, NEW c \in Bytes, Before(a, b), Upto(b, c)
  PROVE  Before(a, c)
  BY DEF Before, Upto, Bytes

\* Nothing is lost by looking less far, or at what comes first.
LEMMA OrderedFurther ==
  ASSUME NEW s \in Seq(Bytes), NEW F \in [Writer -> Bytes], NEW G \in [Writer -> Bytes],
         OrderedUpto(s, F), \A w \in Writer : Upto(F[w], G[w])
  PROVE  OrderedUpto(s, G)
<1> SUFFICES ASSUME NEW w \in Writer, NEW i \in DOMAIN s, s[i][1] = w PROVE Before(s[i], G[w])
  BY DEF OrderedUpto
<1>1. s[i] \in Bytes /\ Before(s[i], F[w])
  BY DEF OrderedUpto
<1> QED
  BY <1>1, BeforeUpto

LEMMA OrderedFirst ==
  ASSUME NEW s \in Seq(Bytes), NEW r \in Seq(Bytes), NEW F, OrderedUpto(s, F),
         Len(r) <= Len(s), \A i \in DOMAIN r : s[i] = r[i]
  PROVE  OrderedUpto(r, F)
<1>1. DOMAIN r \subseteq DOMAIN s
  OBVIOUS
<1> QED
  BY <1>1 DEF OrderedUpto

\* The next byte of a writer, and no other, may come last.
LEMMA OrderedAppend ==
  ASSUME NEW s \in Seq(Bytes), NEW F \in [Writer -> Bytes], NEW G \in [Writer -> Bytes],
         OrderedUpto(s, F), \A w \in Writer : Upto(F[w], G[w]),
         NEW w \in Writer, F[w][1] = w, Before(F[w], G[w])
  PROVE  OrderedUpto(Append(s, F[w]), G)
<1> DEFINE r == Append(s, F[w])
<1>1. /\ Len(s) \in Nat /\ DOMAIN s = 1 .. Len(s) /\ DOMAIN r = 1 .. Len(s) + 1
      /\ \A i \in DOMAIN s : r[i] = s[i]
      /\ r[Len(s) + 1] = F[w]
  OBVIOUS
<1>2. OrderedUpto(s, G)
  BY OrderedFurther
<1> HIDE DEF r
<1>3. ASSUME NEW i \in DOMAIN r, NEW j \in DOMAIN r, i < j, r[i][1] = r[j][1]
      PROVE  Before(r[i], r[j])
  <2>1. i \in DOMAIN s /\ r[i] = s[i]
    BY <1>1, <1>3
  <2>2. CASE j = Len(s) + 1
    BY <1>1, <1>3, <2>1, <2>2 DEF OrderedUpto
  <2>3. CASE j # Len(s) + 1
    BY <1>1, <1>3, <2>1, <2>3 DEF OrderedUpto
  <2> QED
    BY <2>2, <2>3
<1>4. ASSUME NEW v \in Writer, NEW i \in DOMAIN r, r[i][1] = v PROVE Before(r[i], G[v])
  <2>1. CASE i = Len(s) + 1
    BY <1>1, <1>4, <2>1
  <2>2. CASE i # Len(s) + 1
    BY <1>1, <1>2, <1>4, <2>2 DEF OrderedUpto
  <2> QED
    BY <2>1, <2>2
<1> QED
  BY <1>3, <1>4 DEF OrderedUpto, r

\* What is sent stays so, and what comes last is sent.
LEMMA SentAppend ==
  ASSUME NEW s \in Seq(Bytes), NEW b \in Bytes
  PROVE  Sent(Append(s, b), b) /\ \A c : Sent(s, c) => Sent(Append(s, b), c)
<1>1. /\ Len(s) \in Nat /\ DOMAIN s = 1 .. Len(s) /\ DOMAIN Append(s, b) = 1 .. Len(s) + 1
      /\ \A i \in DOMAIN s : Append(s, b)[i] = s[i]
      /\ Append(s, b)[Len(s) + 1] = b
  OBVIOUS
<1> QED
  BY <1>1 DEF Sent

-----------------------------------------------------------------------------
(* One step for the types, the channel and its flag.                       *)

LEMMA PieceType ==
  ASSUME TxAssumption, TxTypes, NEW w \in Writer
  PROVE  /\ Piece[w] \in Seq(Nat \ {0}) /\ DOMAIN Piece[w] = 1 .. Len(Piece[w]) /\ Len(Piece[w]) \in Nat
         /\ \A p \in DOMAIN Piece[w] : Piece[w][p] \in Nat \ {0}
         /\ piece[w] \in Nat \ {0}
<1>1. Piece[w] \in Seq(Nat \ {0}) /\ piece[w] \in Nat \ {0}
  BY DEF TxAssumption, TxTypes
<1> QED
  BY <1>1

LEMMA SourceNext ==
  ASSUME NEW w, NEW p, NEW i \in Nat
  PROVE  [<<w, p, i>> EXCEPT ![3] = @ + 1] = <<w, p, i + 1>>
  OBVIOUS

\* What the channel does when it is asked for a byte.
LEMMA RequestIs ==
  ASSUME TxAssumption, TxTypes, ChannelInv, Request
  PROVE  \/ chen = 0 /\ tdr' = Nothing /\ UNCHANGED <<chen, src, tc>>
         \/ \E w \in Writer :
              /\ at[w] \in Lent /\ piece[w] \in DOMAIN Piece[w]
              /\ Length(w) \in Nat /\ chen \in 1 .. Length(w)
              /\ tdr' = Byte(w, Length(w) - chen + 1) /\ tdr' \in Bytes
              /\ src' = Byte(w, Length(w) - chen' + 1) /\ src' \in Bytes
              /\ chen' = chen - 1 /\ tc' = (tc \/ chen = 1)
<1>1. CASE chen = 0
  BY <1>1 DEF Request
<1>2. CASE chen > 0
  <2>1. PICK w \in Writer : /\ at[w] \in Lent /\ chen <= Length(w)
                            /\ src = Byte(w, Length(w) - chen + 1)
    BY <1>2 DEF ChannelInv
  <2>2. Writing(w)
    BY <2>1 DEF Writing, Lent
  <2>3. piece[w] \in DOMAIN Piece[w] /\ Length(w) \in Nat \ {0} /\ chen \in Nat /\ piece[w] \in Nat
    BY <2>2, PieceType DEF ChannelInv, Length, TxTypes
  <2>4. Length(w) - chen + 1 \in Nat /\ chen \in 1 .. Length(w)
    BY <1>2, <2>1, <2>3
  <2>5. [src EXCEPT ![3] = @ + 1] = <<w, piece[w], Length(w) - chen + 1 + 1>>
    BY <2>1, <2>4, SourceNext DEF Byte
  <2>6. tdr' = src /\ src' = [src EXCEPT ![3] = @ + 1] /\ chen' = chen - 1 /\ tc' = (tc \/ chen = 1)
    BY <1>2 DEF Request
  <2>7. Length(w) - chen + 1 + 1 = Length(w) - chen' + 1 /\ Length(w) - chen' + 1 \in Nat
    BY <2>3, <2>4, <2>6
  <2>8. src' = Byte(w, Length(w) - chen' + 1)
    BY <2>5, <2>6, <2>7 DEF Byte
  <2>9. tdr' \in Bytes /\ src' \in Bytes
    BY <2>1, <2>3, <2>4, <2>6, <2>7, <2>8 DEF Bytes, Byte
  <2> QED
    BY <2>1, <2>3, <2>4, <2>6, <2>8, <2>9
<1> QED
  BY <1>1, <1>2 DEF TxTypes

LEMMA RequestTypes ==
  ASSUME TxAssumption, TxTypes, ChannelInv, Request
  PROVE  tdr' \in Bytes \cup {Nothing} /\ src' \in Bytes \cup {Nothing} /\ chen' \in Nat /\ tc' \in BOOLEAN
<1>1. /\ src \in Bytes \cup {Nothing} /\ chen \in Nat
  BY DEF TxTypes
<1>2. tc' \in BOOLEAN
  BY DEF Request, TxTypes
<1>3. tdr' \in Bytes \cup {Nothing} /\ src' \in Bytes \cup {Nothing} /\ chen' \in Nat
  BY <1>1, RequestIs
<1> QED
  BY <1>2, <1>3

LEMMA TypesNext ==
  ASSUME TxAssumption, TxTypes, ChannelInv, [TxNext]_txVars
  PROVE  TxTypes'
<1> USE DEF hwVars
<1>1. CASE UNCHANGED txVars
  BY <1>1 DEF txVars, TxTypes
<1>2. CASE Shift
  <2>1. /\ tdr' \in Bytes \cup {Nothing} /\ src' \in Bytes \cup {Nothing} /\ chen' \in Nat
        /\ tc' \in BOOLEAN
    BY <1>2, RequestTypes DEF Shift
  <2> QED
    BY <1>2, <2>1 DEF Shift, TxTypes
<1>3. CASE Leave
  BY <1>3 DEF Leave, TxTypes
<1>4. ASSUME NEW w \in Writer, Start(w) PROVE TxTypes'
  BY <1>4 DEF Start, TxTypes, Moves, Places
<1>5. ASSUME NEW w \in Writer, Step(w) PROVE TxTypes'
  <2> USE DEF Moves, Places
  <2>1. CASE Lock(w)
    BY <2>1 DEF Lock, TxTypes
  <2>2. CASE w = Shell /\ SessionEnter
    BY <2>2 DEF SessionEnter, TxTypes
  <2>3. CASE WriteBytesRaw(w)
    <3>1. at' \in [Writer -> Places]
      BY <2>3 DEF WriteBytesRaw, TxTypes
    <3>2. piece' \in [Writer -> Nat \ {0}]
      <4>1. piece' = piece \/ piece' = [piece EXCEPT ![w] = @ + 1]
        BY <2>3 DEF WriteBytesRaw
      <4> QED
        BY <4>1 DEF TxTypes
    <3>3. mixed' \in BOOLEAN
      <4>1. mixed' = mixed \/ mixed' = (mixed \/ Meets(w))
        BY <2>3 DEF WriteBytesRaw
      <4> QED
        BY <4>1 DEF TxTypes
    <3> QED
      BY <2>3, <3>1, <3>2, <3>3 DEF WriteBytesRaw, TxTypes
  <2>4. CASE UartTxTry(w)
    BY <2>4 DEF UartTxTry, TxTypes
  <2>5. CASE Config(w)
    BY <2>5 DEF Config, Release, TxTypes
  <2>6. CASE DmaTxArm(w)
    BY <2>6 DEF DmaTxArm, Release, TxTypes
  <2>7. CASE DmaTxOff(w)
    BY <2>7 DEF DmaTxOff, TxTypes
  <2>8. CASE Enable(w)
    <3>1. at[w] = "enable" /\ Writing(w)
      BY <2>8 DEF Enable, Writing
    <3>2. Length(w) \in Nat /\ piece[w] \in Nat
      BY <3>1, PieceType DEF ChannelInv, Length
    <3>3. Byte(w, 1) \in Bytes
      BY <3>2 DEF Byte, Bytes
    <3> QED
      BY <2>8, <3>2, <3>3 DEF Enable, Release, TxTypes
  <2>9. CASE Fire(w)
    <3>1. /\ tdr' \in Bytes \cup {Nothing} /\ src' \in Bytes \cup {Nothing} /\ chen' \in Nat
          /\ tc' \in BOOLEAN
      BY <2>9, RequestTypes DEF Fire, TxTypes
    <3> QED
      BY <2>9, <3>1 DEF Fire, TxTypes
  <2>10. CASE WaitDone(w)
    <3>1. at' \in [Writer -> Places] /\ UNCHANGED <<hwVars, txBusy, piece, done, mixed>>
      BY <2>10 DEF WaitDone, TxTypes
    <3> QED
      BY <3>1 DEF TxTypes
  <2>11. CASE StopBlocking(w)
    <3>1. piece[w] \in Nat /\ piece' = [piece EXCEPT ![w] = @ + 1]
      BY <2>11 DEF StopBlocking, TxTypes
    <3>2. piece' \in [Writer -> Nat \ {0}]
      BY <3>1 DEF TxTypes
    <3> QED
      BY <2>11, <3>2 DEF StopBlocking, Release, TxTypes
  <2>12. CASE WriteWord(w)
    <3>1. piece[w] \in Nat /\ done[w] \in Nat
      BY DEF TxTypes
    <3>2. Byte(w, done[w] + 1) \in Bytes
      BY <3>1 DEF Byte, Bytes
    <3>3. /\ at' = at \/ at' = [at EXCEPT ![w] = "piece"]
          /\ piece' = piece \/ piece' = [piece EXCEPT ![w] = @ + 1]
          /\ done' = [done EXCEPT ![w] = 0] \/ done' = [done EXCEPT ![w] = @ + 1]
      BY <2>12 DEF WriteWord
    <3>4. /\ at' \in [Writer -> Places] /\ piece' \in [Writer -> Nat \ {0}] /\ done' \in [Writer -> Nat]
      <4>1. at' \in [Writer -> Places]
        BY <3>3 DEF TxTypes
      <4>2. piece' \in [Writer -> Nat \ {0}]
        BY <3>3 DEF TxTypes
      <4>3. done' \in [Writer -> Nat]
        <5>1. CASE done' = [done EXCEPT ![w] = 0]
          BY <5>1 DEF TxTypes
        <5>2. CASE done' = [done EXCEPT ![w] = @ + 1]
          BY <3>1, <5>2 DEF TxTypes
        <5> QED
          BY <3>3, <5>1, <5>2
      <4> QED
        BY <4>1, <4>2, <4>3
    <3> QED
      BY <2>12, <3>2, <3>4 DEF WriteWord, TxTypes
  <2> QED
    BY <1>5, <2>1, <2>2, <2>3, <2>4, <2>5, <2>6, <2>7, <2>8, <2>9, <2>10, <2>11, <2>12 DEF Step
<1> QED
  BY <1>1, <1>2, <1>3, <1>4, <1>5 DEF TxNext, Hardware

\* A writer's step is its own: the others stay where they are.
LEMMA OthersStay ==
  ASSUME TxTypes, NEW w \in Writer, Step(w) \/ Start(w), NEW v \in Writer, v # w
  PROVE  /\ at'[v] = at[v] /\ piece'[v] = piece[v] /\ done'[v] = done[v]
         /\ Writing(v)' = Writing(v) /\ Length(v)' = Length(v)
         /\ \A i : Byte(v, i)' = Byte(v, i)
<1>1. at \in [Writer -> Places] /\ piece \in [Writer -> Nat \ {0}] /\ done \in [Writer -> Nat]
  BY DEF TxTypes
<1>2. at'[v] = at[v]
  BY <1>1 DEF Step, Start, Lock, SessionEnter, WriteBytesRaw, UartTxTry, Config, DmaTxArm, DmaTxOff,
             Enable, Fire, WaitDone, StopBlocking, WriteWord, Moves, Release
<1>3. piece'[v] = piece[v]
  BY <1>1 DEF Step, Start, Lock, SessionEnter, WriteBytesRaw, UartTxTry, Config, DmaTxArm, DmaTxOff,
             Enable, Fire, WaitDone, StopBlocking, WriteWord, Moves, Release
<1>4. done'[v] = done[v]
  BY <1>1 DEF Step, Start, Lock, SessionEnter, WriteBytesRaw, UartTxTry, Config, DmaTxArm, DmaTxOff,
             Enable, Fire, WaitDone, StopBlocking, WriteWord, Moves, Release
<1> QED
  BY <1>2, <1>3, <1>4 DEF Writing, Length, Byte

LEMMA ChannelNext ==
  ASSUME TxAssumption, TxTypes, TxTypes', ChannelInv, [TxNext]_txVars
  PROVE  ChannelInv'
<1> USE DEF hwVars
<1>1. CASE UNCHANGED txVars
  BY <1>1 DEF txVars, ChannelInv, Writing, Length, Byte
<1>2. CASE Shift
  <2>1. UNCHANGED <<txBusy, at, piece, done>> /\ Request
    BY <1>2 DEF Shift
  <2>2. chen' > 0 => \E w \in Writer : /\ at[w] \in Lent /\ chen' <= Length(w)
                                       /\ src' = Byte(w, Length(w) - chen' + 1)
    <3> SUFFICES ASSUME chen' > 0 PROVE \E w \in Writer : /\ at[w] \in Lent /\ chen' <= Length(w)
                                                          /\ src' = Byte(w, Length(w) - chen' + 1)
      OBVIOUS
    <3>1. PICK w \in Writer : /\ at[w] \in Lent /\ chen \in 1 .. Length(w) /\ Length(w) \in Nat
                              /\ src' = Byte(w, Length(w) - chen' + 1) /\ chen' = chen - 1
      BY <2>1, RequestIs
    <3>2. chen' <= Length(w)
      BY <3>1
    <3> QED
      BY <3>1, <3>2
  <2> QED
    BY <2>1, <2>2 DEF ChannelInv, Writing, Length, Byte
<1>3. CASE Leave
  BY <1>3 DEF Leave, ChannelInv, Writing, Length, Byte
<1>4. ASSUME NEW w \in Writer, Start(w) PROVE ChannelInv'
  <2>1. at'[w] \notin Holding /\ ~Writing(w)' /\ at[w] \notin Holding
    BY <1>4 DEF Start, Moves, Writing, Holding, Setting, Lent, TxTypes
  <2>2. UNCHANGED <<chen, src, txBusy, piece, done>>
    BY <1>4 DEF Start
  <2> QED
    BY <1>4, <2>1, <2>2, OthersStay DEF ChannelInv, Holding, Writing, Setting
<1>5. ASSUME NEW w \in Writer, Step(w) PROVE ChannelInv'
  <2> USE DEF Moves
  <2>0. \A v \in Writer \ {w} :
           /\ at'[v] = at[v] /\ piece'[v] = piece[v] /\ done'[v] = done[v]
           /\ Writing(v)' = Writing(v) /\ Length(v)' = Length(v)
           /\ \A i : Byte(v, i)' = Byte(v, i)
    BY <1>5, OthersStay
  \* A writer that neither holds UART_TX_BUSY nor takes it.
  <2>1. ASSUME at[w] \notin Holding, at'[w] \notin Holding, UNCHANGED <<chen, src, txBusy>>,
               Writing(w)' => piece'[w] \in DOMAIN Piece[w],
               at'[w] = "poll" => done'[w] < Length(w)'
        PROVE  ChannelInv'
    BY <2>0, <2>1 DEF ChannelInv, Holding
  <2>2. CASE Lock(w)
    <3>1. at'[w] = "piece" /\ at[w] = "lock" /\ UNCHANGED <<chen, src, txBusy>>
      BY <2>2 DEF Lock, TxTypes
    <3> QED
      BY <2>1, <3>1 DEF Writing, Holding, Setting, Lent
  <2>3. CASE w = Shell /\ SessionEnter
    <3>1. at'[w] = "piece" /\ at[w] = "enter" /\ UNCHANGED <<chen, src, txBusy>>
      BY <2>3 DEF SessionEnter, TxTypes
    <3> QED
      BY <2>1, <3>1 DEF Writing, Holding, Setting, Lent
  <2>4. CASE WriteBytesRaw(w)
    <3>1. at'[w] \in {"piece", "over", "try"} /\ at[w] = "piece" /\ UNCHANGED <<chen, src, txBusy>>
      BY <2>4 DEF WriteBytesRaw, TxTypes
    <3>2. at'[w] = "try" => piece'[w] = piece[w] /\ piece[w] \in DOMAIN Piece[w]
      <4>1. at'[w] = "try" => piece'[w] = piece[w] /\ ~(piece[w] > Len(Piece[w]))
        BY <2>4 DEF WriteBytesRaw, TxTypes
      <4> QED
        BY <4>1, PieceType
    <3> QED
      BY <2>1, <3>1, <3>2 DEF Writing, Holding, Setting, Lent
  <2>5. CASE UartTxTry(w)
    <3>1. /\ at[w] = "try" /\ done'[w] = 0 /\ UNCHANGED <<chen, src, piece>>
          /\ piece[w] \in DOMAIN Piece[w] /\ Length(w)' = Length(w) /\ Length(w) \in Nat \ {0}
      BY <2>5, PieceType DEF UartTxTry, TxTypes, ChannelInv, Writing, Length
    <3>2. CASE at'[w] = "poll" /\ UNCHANGED txBusy
      BY <2>1, <3>1, <3>2 DEF Holding, Setting, Lent
    <3>3. CASE at'[w] = "config" /\ ~txBusy /\ txBusy'
      <4>1. \A v \in Writer \ {w} : at'[v] \notin Holding
        BY <2>0, <3>3 DEF ChannelInv
      <4>2. \A v \in Writer : at'[v] \in Lent => v # w /\ at[v] \in Lent
        BY <2>0, <3>3 DEF Lent
      <4>3. chen = 0
        BY <3>3 DEF ChannelInv, Holding, TxTypes
      <4> QED
        BY <2>0, <3>1, <3>3, <4>1, <4>3 DEF ChannelInv, Holding, Setting, Lent
    <3> QED
      BY <2>5, <3>2, <3>3 DEF UartTxTry, TxTypes
  \* The holder of UART_TX_BUSY: no other writer holds it.
  <2>6. ASSUME at[w] \in Holding PROVE \A v \in Writer \ {w} : at'[v] \notin Holding
    BY <2>0, <2>6 DEF ChannelInv
  <2>7. ASSUME at[w] \in Setting PROVE chen = 0 /\ done[w] = 0
    <3>1. \A v \in Writer : at[v] \notin Lent
      BY <2>7 DEF ChannelInv, Holding, Setting, Lent
    <3> QED
      BY <2>7, <3>1 DEF ChannelInv, TxTypes
  <2>8. ASSUME Writing(w) PROVE piece[w] \in DOMAIN Piece[w] /\ Length(w) \in Nat \ {0}
    BY <2>8, PieceType DEF ChannelInv, Length
  <2>9. ASSUME at[w] \in Setting, at'[w] \in Setting \/ (at'[w] = "poll"),
               UNCHANGED <<chen, src, piece, done>>, at'[w] \in Setting => UNCHANGED txBusy
        PROVE  ChannelInv'
    <3>1. chen' = 0 /\ done'[w] = 0 /\ Writing(w) /\ Length(w)' = Length(w) /\ piece'[w] = piece[w]
      BY <2>7, <2>9 DEF Setting, Writing, Length
    <3>2. at[w] \in Holding /\ \A v \in Writer \ {w} : at'[v] \notin Holding
      BY <2>6, <2>9 DEF Holding
    <3>3. Length(w) \in Nat \ {0} /\ piece[w] \in DOMAIN Piece[w]
      BY <2>8, <3>1
    <3>4. at'[w] \in Holding => txBusy'
      BY <2>9, <3>2 DEF ChannelInv, Holding, Setting, Lent
    <3> QED
      BY <2>0, <2>9, <3>1, <3>2, <3>3, <3>4 DEF ChannelInv, Holding, Setting, Lent
  <2>10. CASE Config(w)
    BY <2>9, <2>10 DEF Config, Release, Setting, TxTypes
  <2>11. CASE DmaTxArm(w)
    BY <2>9, <2>11 DEF DmaTxArm, Release, Setting, TxTypes
  <2>12. CASE DmaTxOff(w)
    BY <2>9, <2>12 DEF DmaTxOff, Setting, TxTypes
  <2>13. CASE Enable(w)
    <3>1. CASE chen' = Length(w) /\ src' = Byte(w, 1) /\ Moves(w, "fire") /\ UNCHANGED <<te, tc, txBusy, slips>>
      <4>1. /\ at[w] = "enable" /\ at'[w] = "fire" /\ UNCHANGED <<piece, done>>
        BY <2>13, <3>1 DEF Enable, TxTypes
      <4>2. piece[w] \in DOMAIN Piece[w] /\ Length(w) \in Nat \ {0} /\ Length(w)' = Length(w)
        BY <2>8, <4>1 DEF Writing, Length
      <4>3. \A v \in Writer \ {w} : at'[v] \notin Holding
        BY <2>6, <4>1 DEF Holding, Setting
      <4>4. chen' <= Length(w)' /\ src' = Byte(w, Length(w) - chen + 1)'
        <5>1. Length(w)' - chen' + 1 = 1
          BY <3>1, <4>2
        <5> QED
          BY <3>1, <4>1, <4>2, <5>1 DEF Byte
      <4>5. txBusy'
        BY <3>1, <4>1 DEF ChannelInv, Holding, Setting
      <4> QED
        BY <2>0, <4>1, <4>2, <4>3, <4>4, <4>5 DEF ChannelInv, Lent, Setting, Holding, Byte
    <3> QED
      BY <2>9, <2>13, <3>1 DEF Enable, Release, Setting, TxTypes
  <2>14. CASE Fire(w)
    <3>1. at[w] = "fire" /\ at'[w] = "wait" /\ UNCHANGED <<piece, done, txBusy>>
      BY <2>14 DEF Fire, TxTypes
    <3>2. \A v \in Writer \ {w} : at'[v] \notin Holding
      BY <2>6, <3>1 DEF Holding, Lent
    <3>3. Length(w)' = Length(w) /\ (\A i : Byte(w, i)' = Byte(w, i)) /\ piece[w] \in DOMAIN Piece[w]
      BY <2>8, <3>1 DEF Length, Byte, Writing
    <3>4. chen' > 0 => chen' <= Length(w) /\ src' = Byte(w, Length(w) - chen' + 1)
      <4>1. \A v \in Writer : at[v] \in Lent => v = w
        BY <3>1 DEF ChannelInv, Holding, Lent
      <4>2. CASE Request
        <5> SUFFICES ASSUME chen' > 0 PROVE chen' <= Length(w) /\ src' = Byte(w, Length(w) - chen' + 1)
          OBVIOUS
        <5>1. PICK v \in Writer : /\ at[v] \in Lent /\ chen \in 1 .. Length(v) /\ Length(v) \in Nat
                                  /\ src' = Byte(v, Length(v) - chen' + 1) /\ chen' = chen - 1
          BY <4>2, RequestIs
        <5>2. v = w
          BY <4>1, <5>1
        <5>3. chen' <= Length(w)
          BY <5>1, <5>2
        <5> QED
          BY <5>1, <5>2, <5>3
      <4>3. CASE UNCHANGED <<chen, src>>
        BY <4>1, <4>3 DEF ChannelInv
      <4> QED
        BY <2>14, <4>2, <4>3 DEF Fire
    <3>5. txBusy
      BY <3>1 DEF ChannelInv, Holding, Lent
    <3> QED
      BY <2>0, <3>1, <3>2, <3>3, <3>4, <3>5 DEF ChannelInv, Lent, Setting, Holding
  <2>15. CASE WaitDone(w)
    <3>1. at[w] = "wait" /\ at'[w] = "stop" /\ UNCHANGED <<piece, done, txBusy, chen, src>>
      BY <2>15 DEF WaitDone, TxTypes
    <3>2. \A v \in Writer \ {w} : at'[v] \notin Holding
      BY <2>6, <3>1 DEF Holding, Lent
    <3>3. Length(w)' = Length(w) /\ (\A i : Byte(w, i)' = Byte(w, i)) /\ piece[w] \in DOMAIN Piece[w]
      BY <2>8, <3>1 DEF Length, Byte, Writing
    <3>4. chen' > 0 => chen' <= Length(w) /\ src' = Byte(w, Length(w) - chen' + 1)
      <4>1. \A v \in Writer : at[v] \in Lent => v = w
        BY <3>1 DEF ChannelInv, Holding, Lent
      <4> QED
        BY <3>1, <4>1 DEF ChannelInv
    <3>5. txBusy
      BY <3>1 DEF ChannelInv, Holding, Lent
    <3> QED
      BY <2>0, <3>1, <3>2, <3>3, <3>4, <3>5 DEF ChannelInv, Lent, Setting, Holding
  <2>16. CASE StopBlocking(w)
    <3>1. at[w] = "stop" /\ at'[w] = "piece" /\ chen' = 0
      BY <2>16 DEF StopBlocking, Release, TxTypes
    <3>2. \A v \in Writer \ {w} : at'[v] \notin Holding
      BY <2>6, <3>1 DEF Holding, Lent
    <3>3. at'[w] \notin Holding /\ ~Writing(w)'
      BY <3>1 DEF Holding, Lent, Setting, Writing
    <3> QED
      BY <2>0, <3>1, <3>2, <3>3 DEF ChannelInv, Lent, Setting, Holding
  <2>17. CASE WriteWord(w)
    <3>1. at[w] = "poll" /\ UNCHANGED <<chen, src, txBusy>> /\ at'[w] \in {"poll", "piece"}
      BY <2>17 DEF WriteWord, TxTypes
    <3>2. at'[w] = "poll" => piece'[w] = piece[w] /\ done'[w] = done[w] + 1 /\ done[w] + 1 # Length(w)
      BY <2>17 DEF WriteWord, TxTypes
    <3>3. /\ piece[w] \in DOMAIN Piece[w] /\ Length(w) \in Nat \ {0} /\ done[w] \in Nat
          /\ done[w] < Length(w)
      BY <2>8, <3>1 DEF Writing, ChannelInv, TxTypes
    <3>4. at'[w] = "poll" => done'[w] < Length(w)' /\ piece'[w] \in DOMAIN Piece[w]
      BY <3>2, <3>3 DEF Length
    <3> QED
      BY <2>1, <3>1, <3>4 DEF Writing, Holding, Setting, Lent
  <2> QED
    BY <1>5, <2>2, <2>3, <2>4, <2>5, <2>10, <2>11, <2>12, <2>13, <2>14, <2>15, <2>16, <2>17 DEF Step
<1> QED
  BY <1>1, <1>2, <1>3, <1>4, <1>5 DEF TxNext, Hardware

\* The channel raises its flag with the last byte.
LEMMA RequestFlag ==
  ASSUME TxTypes, Request
  PROVE  /\ tc' => chen' = 0 \/ tc
         /\ chen = 0 => chen' = 0
<1>0. chen \in Nat
  BY DEF TxTypes
<1>1. CASE ~(chen > 0)
  <2>1. tc' = tc /\ chen' = chen
    BY Zenon, <1>1 DEF Request
  <2> QED
    BY Zenon, <2>1
<1>2. CASE chen > 0 /\ chen = 1
  <2>1. chen' = 0
    BY <1>2 DEF Request
  <2> QED
    BY <2>1
<1>3. CASE chen > 0 /\ chen # 1
  <2>1. tc' = (tc \/ chen = 1)
    BY Zenon, <1>3 DEF Request
  <2>2. tc' => tc
    BY Zenon, <1>3, <2>1
  <2>3. chen # 0
    BY <1>3
  <2> QED
    BY Zenon, <2>2, <2>3
<1> QED
  BY <1>1, <1>2, <1>3

\* The flag of the channel is raised only when nothing is left to move.
LEMMA FlagNext ==
  ASSUME TxAssumption, TxTypes, TxTypes', ChannelInv, FlagInv, [TxNext]_txVars
  PROVE  FlagInv'
<1> USE DEF hwVars
<1>1. CASE UNCHANGED txVars
  BY <1>1 DEF txVars, FlagInv
\* No channel moves anything for a writer that is setting it up.
<1>0. ASSUME NEW w \in Writer, at[w] \in Setting PROVE chen = 0
  BY <1>0 DEF ChannelInv, Holding, Setting, Lent, TxTypes
<1>6. ASSUME Request, UNCHANGED <<at, piece, given>> PROVE FlagInv'
  <2>1. CASE chen = 0
    BY <1>6, <2>1 DEF FlagInv, Request
  <2>2. CASE chen # 0
    <3>1. chen' = chen - 1 /\ chen \in Nat /\ chen > 0
      BY <1>6, <2>2 DEF Request, TxTypes
    <3>2. chen' = 0 \/ (tc' => tc)
      BY <1>6, <2>2, <3>1, RequestFlag
    <3>3. \A w \in Writer : at[w] \notin Setting
      BY <1>0, <2>2
    <3>4. ASSUME NEW w \in Writer, at[w] \in {"fire", "wait"}, tc' PROVE chen' = 0
      <4>1. ~tc
        BY Zenon, <2>2, <3>4 DEF FlagInv
      <4> QED
        BY Zenon, <3>2, <3>4, <4>1
    <3>5. ASSUME NEW w \in Writer, at[w] = "stop" PROVE <<w, piece[w]>> \in given
      BY <2>2, <3>5 DEF FlagInv
    <3> QED
      BY <1>6, <3>3, <3>4, <3>5 DEF FlagInv
  <2> QED
    BY <2>1, <2>2
<1>2. CASE Shift
  BY <1>2, <1>6 DEF Shift
<1>3. CASE Leave
  BY <1>3 DEF Leave, FlagInv
<1>4. ASSUME NEW w \in Writer, Start(w) PROVE FlagInv'
  <2>1. at'[w] \in {"enter", "lock"} /\ UNCHANGED <<chen, tc, piece, given>>
    BY <1>4 DEF Start, Moves, TxTypes
  <2> QED
    BY <1>4, <2>1, OthersStay DEF FlagInv, Setting
<1>5. ASSUME NEW w \in Writer, Step(w) PROVE FlagInv'
  <2> USE DEF Moves
  <2>0. \A v \in Writer \ {w} : at'[v] = at[v] /\ piece'[v] = piece[v]
    BY <1>5, OthersStay
  <2>1. ASSUME at[w] \notin Holding, UNCHANGED <<tc, chen>>, given \subseteq given',
               at'[w] \notin Holding \/ at'[w] = "config"
        PROVE  FlagInv'
    BY <2>0, <2>1 DEF FlagInv, Holding, Setting, Lent
  <2>2. CASE Lock(w)
    BY <2>1, <2>2 DEF Lock, TxTypes, Holding, Setting, Lent
  <2>3. CASE w = Shell /\ SessionEnter
    BY <2>1, <2>3 DEF SessionEnter, TxTypes, Holding, Setting, Lent
  <2>4. CASE WriteBytesRaw(w)
    BY <2>1, <2>4 DEF WriteBytesRaw, TxTypes, Holding, Setting, Lent
  <2>5. CASE UartTxTry(w)
    BY <2>1, <2>5 DEF UartTxTry, TxTypes, Holding, Setting, Lent
  <2>6. CASE WriteWord(w)
    BY <2>1, <2>6 DEF WriteWord, TxTypes, Holding, Setting, Lent
  <2>7. ASSUME at[w] \in Holding PROVE \A v \in Writer \ {w} : at'[v] \notin Holding
    BY <2>0, <2>7 DEF ChannelInv
  <2>8. ASSUME at[w] \in Holding, at'[w] \in {"poll", "piece"} PROVE FlagInv'
    BY <2>7, <2>8 DEF FlagInv, Holding, Setting, Lent
  <2>9. ASSUME at[w] \in Setting, at'[w] \in Setting, ~tc' PROVE FlagInv'
    <3>1. \A v \in Writer \ {w} : at'[v] \notin Holding
      BY <2>7, <2>9 DEF Holding
    <3> QED
      BY <2>9, <3>1 DEF FlagInv, Holding, Setting, Lent
  <2>10. CASE Config(w)
    <3>1. at[w] = "config" /\ (at'[w] = "poll" \/ (at'[w] = "arm" /\ ~tc'))
      BY <2>10 DEF Config, Release, TxTypes
    <3> QED
      BY <2>8, <2>9, <3>1 DEF Holding, Setting
  <2>11. CASE DmaTxArm(w)
    <3>1. at[w] = "arm" /\ (at'[w] = "poll" \/ (at'[w] = "te" /\ UNCHANGED tc))
      BY <2>11 DEF DmaTxArm, Release, TxTypes
    <3> QED
      BY <2>8, <2>9, <3>1 DEF Holding, Setting, FlagInv
  <2>12. CASE DmaTxOff(w)
    <3>1. at[w] = "te" /\ at'[w] = "enable" /\ UNCHANGED tc
      BY <2>12 DEF DmaTxOff, TxTypes
    <3> QED
      BY <2>8, <2>9, <3>1 DEF Holding, Setting, FlagInv
  <2>13. CASE Enable(w)
    <3>1. at[w] = "enable" /\ (at'[w] = "poll" \/ (at'[w] = "fire" /\ UNCHANGED tc)) /\ ~tc
      BY <2>13 DEF Enable, Release, TxTypes, FlagInv, Setting
    <3>2. \A v \in Writer \ {w} : at'[v] \notin Holding
      BY <2>7, <3>1 DEF Holding, Setting
    <3>3. CASE at'[w] = "fire"
      BY <3>1, <3>2, <3>3 DEF FlagInv, Holding, Setting, Lent
    <3> QED
      BY <2>8, <3>1, <3>3 DEF Holding, Setting
  <2>14. CASE Fire(w)
    <3>1. at[w] = "fire" /\ at'[w] = "wait" /\ (Request \/ UNCHANGED <<chen, tc>>)
      BY <2>14 DEF Fire, TxTypes
    <3>2. \A v \in Writer \ {w} : at'[v] \notin Holding
      BY <2>7, <3>1 DEF Holding, Lent
    <3>3. tc => chen = 0
      BY <3>1 DEF FlagInv
    <3>4. tc' => chen' = 0
      <4>1. CASE UNCHANGED <<chen, tc>>
        BY Zenon, <3>3, <4>1
      <4>2. CASE Request
        BY <3>3, <4>2, RequestFlag
      <4> QED
        BY Zenon, <3>1, <4>1, <4>2
    <3> QED
      BY <3>1, <3>2, <3>4 DEF FlagInv, Holding, Setting, Lent
  <2>15. CASE WaitDone(w)
    <3>1. at[w] = "wait" /\ at'[w] = "stop" /\ UNCHANGED <<chen, tc, piece>>
      BY <2>15 DEF WaitDone, TxTypes
    <3>2. tc \/ <<w, piece[w]>> \in given'
      BY <2>15 DEF WaitDone
    <3>3. \A v \in Writer \ {w} : at'[v] \notin Holding
      BY <2>7, <3>1 DEF Holding, Lent
    <3>4. chen' = 0 \/ <<w, piece'[w]>> \in given'
      BY <3>1, <3>2 DEF FlagInv
    <3> QED
      BY <3>1, <3>3, <3>4 DEF FlagInv, Holding, Setting, Lent
  <2>16. CASE StopBlocking(w)
    BY <2>8, <2>16 DEF StopBlocking, Release, TxTypes, Holding, Lent
  <2> QED
    BY <1>5, <2>2, <2>3, <2>4, <2>5, <2>6, <2>10, <2>11, <2>12, <2>13, <2>14, <2>15, <2>16 DEF Step
<1> QED
  BY <1>1, <1>2, <1>3, <1>4, <1>5 DEF TxNext, Hardware

-----------------------------------------------------------------------------
(* One step for the order.                                                 *)

\* The channel moves the piece of the one who waits for it.
LEMMA LentIs ==
  ASSUME TxAssumption, TxTypes, ChannelInv, NEW w \in Writer, at[w] \in Lent
  PROVE  /\ Length(w) \in Nat \ {0} /\ piece[w] \in DOMAIN Piece[w]
         /\ chen > 0 => chen \in 1 .. Length(w) /\ src = Byte(w, Length(w) - chen + 1)
<1>1. Length(w) \in Nat \ {0} /\ piece[w] \in DOMAIN Piece[w]
  BY PieceType DEF ChannelInv, Writing, Lent, Length
<1>2. \A v \in Writer : at[v] \in Lent => v = w
  BY DEF ChannelInv, Holding
<1>3. ASSUME chen > 0 PROVE chen \in 1 .. Length(w) /\ src = Byte(w, Length(w) - chen + 1)
  BY <1>1, <1>2, <1>3 DEF ChannelInv, TxTypes
<1> QED
  BY <1>1, <1>3

LEMMA NextByteType ==
  ASSUME TxAssumption, TxTypes, ChannelInv, NEW w \in Writer
  PROVE  NextByte(w) \in Bytes /\ NextByte(w)[1] = w
<1>1. piece[w] \in Nat /\ done[w] \in Nat
  BY DEF TxTypes
<1>2. at[w] \in Lent /\ chen > 0 => Length(w) - chen + 1 \in Nat
  BY LentIs
<1> QED
  BY <1>1, <1>2 DEF NextByte, Byte, Bytes

LEMMA NextByteTypeNext ==
  ASSUME TxAssumption
  PROVE  TxTypes' /\ ChannelInv' => \A w \in Writer : NextByte(w)' \in Bytes
<1>1. TxTypes /\ ChannelInv => \A w \in Writer : NextByte(w) \in Bytes
  BY NextByteType
<1>2. TxTypes' /\ ChannelInv' => (\A w \in Writer : NextByte(w) \in Bytes)'
  BY <1>1, PTL
<1> QED
  BY <1>2

\* Either nothing is put on the way, or the next byte of one writer, who goes on.
LEMMA OrderKept ==
  ASSUME TxAssumption, TxTypes, TxTypes', ChannelInv, ChannelInv', OrderInv,
         \/ OnWay' = OnWay
         \/ Len(OnWay') <= Len(OnWay) /\ \A i \in DOMAIN OnWay' : OnWay[i] = OnWay'[i],
         \A w \in Writer : Upto(NextByte(w), NextByte(w)')
  PROVE  OrderInv'
<1> DEFINE F == [w \in Writer |-> NextByte(w)]
           G == [w \in Writer |-> NextByte(w)']
<1>1. F \in [Writer -> Bytes] /\ G \in [Writer -> Bytes]
  BY NextByteType, NextByteTypeNext
<1>2. OrderedUpto(OnWay, F) /\ \A w \in Writer : Upto(F[w], G[w])
  BY DEF OrderInv
<1>3. OnWay \in Seq(Bytes) /\ OnWay' \in Seq(Bytes)
  BY WayType, WayTypeNext
<1> HIDE DEF F
<1>4. OrderedUpto(OnWay, G)
  BY <1>1, <1>2, <1>3, OrderedFurther
<1>5. OrderedUpto(OnWay', G)
  BY <1>3, <1>4, OrderedFirst
<1> QED
  BY <1>5 DEF OrderInv, OrderedUpto

LEMMA OrderPut ==
  ASSUME TxAssumption, TxTypes, TxTypes', ChannelInv, ChannelInv', OrderInv,
         NEW w \in Writer, OnWay' = Append(OnWay, NextByte(w)), Before(NextByte(w), NextByte(w)'),
         \A v \in Writer \ {w} : Upto(NextByte(v), NextByte(v)')
  PROVE  OrderInv'
<1> DEFINE F == [v \in Writer |-> NextByte(v)]
           G == [v \in Writer |-> NextByte(v)']
<1>1. F \in [Writer -> Bytes] /\ G \in [Writer -> Bytes]
  BY NextByteType, NextByteTypeNext
<1>2. OrderedUpto(OnWay, F) /\ \A v \in Writer : Upto(F[v], G[v])
  BY DEF OrderInv, Upto
<1>3. OnWay \in Seq(Bytes) /\ OnWay' = Append(OnWay, F[w])
  BY WayType
<1>4. F[w][1] = w /\ Before(F[w], G[w])
  BY NextByteType
<1> HIDE DEF F
<1>5. OrderedUpto(Append(OnWay, F[w]), G)
  BY <1>1, <1>2, <1>3, <1>4, OrderedAppend
<1> QED
  BY <1>3, <1>5 DEF OrderInv, OrderedUpto

LEMMA OthersNext ==
  ASSUME TxTypes, ChannelInv, NEW w \in Writer, Step(w) \/ Start(w),
         UNCHANGED chen \/ at[w] \in Holding, NEW v \in Writer, v # w
  PROVE  NextByte(v)' = NextByte(v)
<1>1. /\ at'[v] = at[v] /\ piece'[v] = piece[v] /\ done'[v] = done[v] /\ Length(v)' = Length(v)
  BY OthersStay
<1>2. at[v] \in Lent => UNCHANGED chen
  BY DEF ChannelInv, Holding
<1> QED
  BY <1>1, <1>2 DEF NextByte, Byte

LEMMA OrderNext ==
  ASSUME TxAssumption, TxTypes, TxTypes', ChannelInv, ChannelInv', OrderInv, [TxNext]_txVars
  PROVE  OrderInv'
<1> USE DEF hwVars
<1>1. CASE UNCHANGED txVars
  <2>1. \A w \in Writer : NextByte(w)' = NextByte(w)
    BY <1>1 DEF txVars, NextByte, Byte, Length
  <2>2. OnWay' = OnWay
    BY <1>1 DEF txVars, OnWay
  <2> QED
    BY <2>1, <2>2, OrderKept DEF Upto
\* The channel puts its next byte on the way.
<1>2. ASSUME Request, UNCHANGED <<piece, done>>, NEW u \in Writer, at[u] \in Lent, chen > 0,
             \A v \in Writer : at'[v] = at[v] \/ (v = u /\ at'[v] \in Lent)
      PROVE  /\ tdr' = NextByte(u) /\ tdr' # Nothing /\ Before(NextByte(u), NextByte(u)')
             /\ \A v \in Writer \ {u} : NextByte(v)' = NextByte(v)
  <2>1. PICK w \in Writer :
            /\ at[w] \in Lent /\ piece[w] \in DOMAIN Piece[w]
            /\ Length(w) \in Nat /\ chen \in 1 .. Length(w)
            /\ tdr' = Byte(w, Length(w) - chen + 1) /\ tdr' \in Bytes
            /\ chen' = chen - 1
    BY <1>2, RequestIs
  <2>2. w = u
    BY <1>2, <2>1 DEF ChannelInv, Holding
  <2>3. tdr' = NextByte(u) /\ tdr' # Nothing
    BY <1>2, <2>1, <2>2, EmptyCell DEF NextByte, Lent
  <2>4. Before(NextByte(u), NextByte(u)')
    <3>1. NextByte(u) = <<u, piece[u], Length(u) - chen + 1>>
      BY <1>2, <2>1, <2>2 DEF NextByte, Lent, Byte
    <3>2. Length(u)' = Length(u) /\ piece'[u] = piece[u] /\ at'[u] \in Lent /\ piece[u] \in Nat
      BY <1>2 DEF Length, TxTypes
    <3>3. NextByte(u)' = IF chen' > 0 THEN <<u, piece[u], Length(u) - chen' + 1>>
                         ELSE <<u, piece[u] + 1, 1>>
      BY <3>2 DEF NextByte, Lent, Byte
    <3>4. Length(u) - chen + 1 < Length(u) - chen' + 1
      BY <2>1, <2>2
    <3> QED
      BY <3>1, <3>2, <3>3, <3>4 DEF Before
  <2>5. ASSUME NEW v \in Writer, v # u PROVE NextByte(v)' = NextByte(v)
    <3>1. at[v] \notin Lent /\ at'[v] = at[v]
      BY <1>2, <2>5 DEF ChannelInv, Holding
    <3> QED
      BY <1>2, <3>1 DEF NextByte, Byte
  <2> QED
    BY <2>3, <2>4, <2>5
<1>3. CASE Shift
  <2>1. /\ Request /\ UNCHANGED <<piece, done, at>>
        /\ OnWay' = IF tdr' = Nothing THEN OnWay ELSE Append(OnWay, tdr')
    BY <1>3, WayShift DEF Shift
  <2>2. CASE chen > 0
    <3>1. PICK u \in Writer : at[u] \in Lent
      BY <2>2 DEF ChannelInv
    <3>2. /\ tdr' = NextByte(u) /\ tdr' # Nothing /\ Before(NextByte(u), NextByte(u)')
          /\ \A v \in Writer \ {u} : NextByte(v)' = NextByte(v)
      BY <1>2, <2>1, <2>2, <3>1
    <3> QED
      BY <2>1, <3>2, OrderPut DEF Upto
  <2>3. CASE ~(chen > 0)
    <3>1. tdr' = Nothing /\ UNCHANGED chen
      BY <2>1, <2>3 DEF Request
    <3>2. \A w \in Writer : NextByte(w)' = NextByte(w)
      BY <2>1, <3>1 DEF NextByte, Byte, Length
    <3> QED
      BY <2>1, <3>1, <3>2, OrderKept DEF Upto
  <2> QED
    BY <2>2, <2>3
<1>4. CASE Leave
  <2>1. OnWay' = OnWay
    BY <1>4, WayLeave DEF Leave
  <2>2. \A w \in Writer : NextByte(w)' = NextByte(w)
    BY <1>4 DEF Leave, NextByte, Byte, Length
  <2> QED
    BY <2>1, <2>2, OrderKept DEF Upto
\* A writer goes on to its next byte, and puts nothing on the way.
<1>5. ASSUME NEW w \in Writer, Step(w) \/ Start(w), UNCHANGED <<tdr, shift, wire>>,
             UNCHANGED chen \/ at[w] \in Holding, Upto(NextByte(w), NextByte(w)')
      PROVE  OrderInv'
  <2>1. OnWay' = OnWay
    BY <1>5 DEF OnWay
  <2>2. \A v \in Writer : Upto(NextByte(v), NextByte(v)')
    BY <1>5, OthersNext DEF Upto
  <2> QED
    BY <2>1, <2>2, OrderKept
<1>6. ASSUME NEW w \in Writer, Start(w) PROVE OrderInv'
  <2>1. NextByte(w)' = NextByte(w)
    BY <1>6 DEF Start, NextByte, Byte, Lent, Moves, TxTypes
  <2> QED
    BY <1>5, <1>6, <2>1 DEF Start, Upto
<1>7. ASSUME NEW w \in Writer, Step(w) PROVE OrderInv'
  <2> USE DEF Moves
  <2>0. /\ at \in [Writer -> Places] /\ piece \in [Writer -> Nat \ {0}] /\ done \in [Writer -> Nat]
        /\ piece[w] \in Nat /\ done[w] \in Nat /\ chen \in Nat
    BY DEF TxTypes
  <2>1. CASE Lock(w)
    <3>1. NextByte(w)' = NextByte(w)
      BY <2>0, <2>1 DEF Lock, NextByte, Byte, Lent
    <3> QED
      BY <1>5, <1>7, <2>1, <3>1 DEF Lock, Upto
  <2>2. CASE w = Shell /\ SessionEnter
    <3>1. NextByte(w)' = NextByte(w)
      BY <2>0, <2>2 DEF SessionEnter, NextByte, Byte, Lent
    <3> QED
      BY <1>5, <1>7, <2>2, <3>1 DEF SessionEnter, Upto
  <2>3. CASE WriteBytesRaw(w)
    <3>1. at[w] = "piece" /\ at'[w] \in {"piece", "over", "try"} /\ UNCHANGED <<tdr, shift, wire, chen>>
      BY <2>0, <2>3 DEF WriteBytesRaw
    <3>2. piece'[w] = piece[w] \/ piece'[w] = piece[w] + 1
      BY <2>0, <2>3 DEF WriteBytesRaw
    <3>3. Upto(NextByte(w), NextByte(w)')
      BY <2>0, <3>1, <3>2 DEF NextByte, Byte, Lent, Upto, Before
    <3> QED
      BY <1>5, <1>7, <3>1, <3>3
  <2>4. CASE UartTxTry(w)
    <3>1. NextByte(w)' = NextByte(w)
      BY <2>0, <2>4 DEF UartTxTry, NextByte, Byte, Lent
    <3> QED
      BY <1>5, <1>7, <2>4, <3>1 DEF UartTxTry, Upto
  \* While a transmission is set up its first byte is the next one.
  <2>5. ASSUME at[w] \in Setting, at'[w] \in Setting \cup {"poll"}, UNCHANGED <<piece, done, chen>>
        PROVE  NextByte(w)' = NextByte(w)
    <3>1. done[w] = 0 /\ at[w] \notin Lent /\ at[w] # "poll" /\ at'[w] \notin Lent
      BY <2>5 DEF ChannelInv, Setting, Lent
    <3> QED
      BY <2>5, <3>1 DEF NextByte, Byte
  <2>6. CASE Config(w)
    <3>1. at[w] \in Setting /\ at'[w] \in Setting \cup {"poll"} /\ UNCHANGED <<piece, done, chen>>
      BY <2>0, <2>6 DEF Config, Release, Setting
    <3> QED
      BY <1>5, <1>7, <2>5, <2>6, <3>1 DEF Config, Upto
  <2>7. CASE DmaTxArm(w)
    <3>1. at[w] \in Setting /\ at'[w] \in Setting \cup {"poll"} /\ UNCHANGED <<piece, done, chen>>
      BY <2>0, <2>7 DEF DmaTxArm, Release, Setting
    <3> QED
      BY <1>5, <1>7, <2>5, <2>7, <3>1 DEF DmaTxArm, Upto
  <2>8. CASE DmaTxOff(w)
    <3>1. at[w] \in Setting /\ at'[w] \in Setting \cup {"poll"} /\ UNCHANGED <<piece, done, chen>>
      BY <2>0, <2>8 DEF DmaTxOff, Setting
    <3>2. \A v \in Writer : NextByte(v)' = NextByte(v)
      BY <1>7, <2>5, <3>1, OthersNext
    <3>3. /\ OnWay' = wire /\ Len(wire) <= Len(OnWay)
          /\ \A i \in DOMAIN wire : OnWay[i] = wire[i]
      BY <2>8, WayOff DEF DmaTxOff
    <3> QED
      BY <3>2, <3>3, OrderKept DEF Upto
  <2>9. CASE Enable(w)
    <3>1. CASE chen' = Length(w) /\ Moves(w, "fire")
      <4>1. at[w] = "enable" /\ at'[w] = "fire" /\ UNCHANGED piece
        BY <2>0, <2>9, <3>1 DEF Enable
      <4>2. Length(w) \in Nat \ {0} /\ Length(w)' = Length(w)
        BY <4>1, PieceType DEF ChannelInv, Writing, Length
      <4>3. NextByte(w)' = NextByte(w)
        BY <3>1, <4>1, <4>2 DEF NextByte, Byte, Lent
      <4> QED
        BY <1>5, <1>7, <2>9, <4>1, <4>3 DEF Enable, Upto, Holding, Setting
    <3>2. CASE Release(w, "poll") /\ UNCHANGED <<chen, src>>
      <4>1. at[w] \in Setting /\ at'[w] \in Setting \cup {"poll"} /\ UNCHANGED <<piece, done, chen>>
        BY <2>0, <2>9, <3>2 DEF Enable, Release, Setting
      <4> QED
        BY <1>5, <1>7, <2>5, <2>9, <4>1 DEF Enable, Upto
    <3> QED
      BY <2>9, <3>1, <3>2 DEF Enable
  <2>10. CASE Fire(w)
    <3>1. at[w] = "fire" /\ at'[w] = "wait" /\ UNCHANGED <<piece, done, shift, wire>>
          /\ \A v \in Writer : at'[v] = at[v] \/ (v = w /\ at'[v] \in Lent)
      BY <2>0, <2>10 DEF Fire, Lent
    <3>2. CASE UNCHANGED <<tdr, chen>>
      <4>1. NextByte(w)' = NextByte(w)
        BY <3>1, <3>2 DEF NextByte, Byte, Length, Lent
      <4> QED
        BY <1>5, <1>7, <3>1, <3>2, <4>1 DEF Upto
    <3>3. CASE tdr = Nothing /\ Request /\ ~(chen > 0)
      BY <3>2, <3>3 DEF Request
    <3>4. CASE tdr = Nothing /\ Request /\ chen > 0
      <4>1. /\ tdr' = NextByte(w) /\ tdr' # Nothing /\ Before(NextByte(w), NextByte(w)')
            /\ \A v \in Writer \ {w} : NextByte(v)' = NextByte(v)
        BY <1>2, <3>1, <3>4 DEF Lent
      <4>2. OnWay' = Append(OnWay, NextByte(w))
        BY <3>1, <3>4, <4>1, WayPut
      <4> QED
        BY <4>1, <4>2, OrderPut DEF Upto
    <3> QED
      BY <2>10, <3>2, <3>3, <3>4 DEF Fire
  <2>11. CASE WaitDone(w)
    <3>1. NextByte(w)' = NextByte(w)
      BY <2>0, <2>11 DEF WaitDone, NextByte, Byte, Lent, Length
    <3> QED
      BY <1>5, <1>7, <2>11, <3>1 DEF WaitDone, Upto
  <2>12. CASE StopBlocking(w)
    <3>1. at[w] = "stop" /\ at'[w] = "piece" /\ piece'[w] = piece[w] + 1 /\ UNCHANGED <<tdr, shift, wire>>
      BY <2>0, <2>12 DEF StopBlocking, Release
    <3>2. Upto(NextByte(w), NextByte(w)')
      BY <2>0, <3>1 DEF NextByte, Byte, Lent, Upto, Before
    <3> QED
      BY <1>5, <1>7, <3>1, <3>2 DEF Holding, Lent
  <2>13. CASE WriteWord(w)
    <3>1. at[w] = "poll" /\ tdr = Nothing /\ tdr' = Byte(w, done[w] + 1) /\ UNCHANGED <<shift, wire, chen>>
      BY <2>13 DEF WriteWord, TXE
    <3>2. tdr' = NextByte(w) /\ tdr' \in Bytes
      BY <3>1, NextByteType DEF NextByte
    <3>3. OnWay' = Append(OnWay, NextByte(w))
      BY <3>1, <3>2, WayPut, EmptyCell
    <3>4. \/ at'[w] = "piece" /\ piece'[w] = piece[w] + 1
          \/ at'[w] = "poll" /\ piece'[w] = piece[w] /\ done'[w] = done[w] + 1
      BY <2>0, <2>13, <3>1 DEF WriteWord
    <3>5. Before(NextByte(w), NextByte(w)')
      BY <2>0, <3>1, <3>4 DEF NextByte, Byte, Lent, Before
    <3> QED
      BY <1>7, <3>1, <3>3, <3>5, OthersNext, OrderPut DEF Upto
  <2> QED
    BY <1>7, <2>1, <2>2, <2>3, <2>4, <2>6, <2>7, <2>8, <2>9, <2>10, <2>11, <2>12, <2>13 DEF Step
<1> QED
  BY <1>1, <1>3, <1>4, <1>6, <1>7 DEF TxNext, Hardware

-----------------------------------------------------------------------------
(* One step for the lines.                                                 *)

LEMMA LinesGoOn ==
  ASSUME NEW s, NEW a, NEW b, Lines(s, a),
         \A w \in Printer : /\ b[w] \in {"idle", "lock"} => a[w] \in {"idle", "lock"}
                            /\ a[w] = "over" => b[w] = "over"
  PROVE  Lines(s, b)
  BY DEF Lines

LEMMA LinesFirst ==
  ASSUME NEW s \in Seq(Bytes), NEW r \in Seq(Bytes), NEW a, Lines(s, a),
         Len(r) <= Len(s), \A i \in DOMAIN r : s[i] = r[i]
  PROVE  Lines(r, a)
<1>1. \A i \in DOMAIN r : i \in DOMAIN s /\ r[i] = s[i]
  OBVIOUS
<1> QED
  BY <1>1 DEF Lines, Unbroken

\* A byte of the one who prints comes behind those of the printers that are over.
LEMMA LinesAppend ==
  ASSUME NEW s \in Seq(Bytes), NEW a, Lines(s, a), NEW c \in Bytes,
         c[1] \in Printer =>
           /\ a[c[1]] \notin {"idle", "lock", "over"}
           /\ \A v \in Printer \ {c[1]} : a[v] \in {"idle", "lock", "over"}
  PROVE  Lines(Append(s, c), a)
<1> DEFINE r == Append(s, c)
           n == Len(s) + 1
<1>1. DOMAIN r = DOMAIN s \cup {n} /\ r[n] = c /\ \A i \in DOMAIN s : i < n /\ i \in Nat /\ r[i] = s[i]
  OBVIOUS
<1>2. n \in Nat /\ \A i \in DOMAIN r : i <= n
  BY <1>1
<1> HIDE DEF r, n
<1>3. \A i \in DOMAIN r : r[i][1] \in Printer => a[r[i][1]] \notin {"idle", "lock"}
  BY <1>1 DEF Lines
<1>4. ASSUME NEW i \in DOMAIN r, NEW j \in DOMAIN r, i < j,
             r[i][1] \in Printer, r[j][1] \in Printer, r[i][1] # r[j][1]
      PROVE  a[r[i][1]] = "over"
  <2>1. i \in DOMAIN s /\ r[i] = s[i]
    BY <1>1, <1>2, <1>4
  <2>2. CASE j \in DOMAIN s
    BY <1>1, <1>4, <2>1, <2>2 DEF Lines
  <2>3. CASE j = n
    <3>1. a[r[i][1]] \in {"idle", "lock", "over"}
      BY <1>1, <1>4, <2>3
    <3> QED
      BY <1>3, <1>4, <3>1
  <2> QED
    BY <1>1, <2>2, <2>3
<1>5. ASSUME NEW i \in DOMAIN r, NEW j \in DOMAIN r, NEW k \in DOMAIN r, i < j, j < k,
             r[i][1] = r[k][1], r[i][1] \in Printer, r[j][1] \in Printer
      PROVE  r[j][1] = r[i][1]
  <2>1. i \in DOMAIN s /\ j \in DOMAIN s /\ r[i] = s[i] /\ r[j] = s[j]
    BY <1>1, <1>2, <1>5
  <2>2. CASE k \in DOMAIN s
    BY <1>1, <1>5, <2>1, <2>2 DEF Lines, Unbroken
  <2>3. CASE k = n
    <3>1. a[r[i][1]] # "over"
      BY <1>1, <1>5, <2>3
    <3> QED
      BY <1>4, <1>5, <3>1
  <2> QED
    BY <1>1, <2>2, <2>3
<1> QED
  BY <1>3, <1>4, <1>5 DEF Lines, Unbroken, r

\* The lock changes hands where a line begins and where it is over.
LEMMA LockNext ==
  ASSUME TxAssumption, TxTypes, LockInv, [TxNext]_txVars
  PROVE  /\ LockInv'
         /\ \A w \in Printer : /\ at'[w] \in {"idle", "lock"} => at[w] \in {"idle", "lock"}
                               /\ at[w] = "over" => at'[w] = "over"
<1> USE DEF hwVars, Moves
<1>0. at \in [Writer -> Places] /\ Printer \subseteq Writer /\ Shell \notin Printer /\ Nothing \notin Printer
  BY DEF TxTypes, TxAssumption, Writer, Nothing
<1>1. CASE UNCHANGED <<at, lock>>
  BY <1>1 DEF LockInv
<1>2. ASSUME NEW w \in Writer, UNCHANGED lock, \A v \in Writer \ {w} : at'[v] = at[v],
             w \in Printer => \/ at[w] = "idle" /\ at'[w] = "lock"
                              \/ /\ at[w] \notin {"idle", "lock", "over"}
                                 /\ at'[w] \notin {"idle", "lock"}
      PROVE  /\ LockInv'
             /\ \A v \in Printer : /\ at'[v] \in {"idle", "lock"} => at[v] \in {"idle", "lock"}
                                   /\ at[v] = "over" => at'[v] = "over"
  BY <1>0, <1>2 DEF LockInv
<1>3. ASSUME NEW w \in Writer, Start(w)
      PROVE  /\ LockInv'
             /\ \A v \in Printer : /\ at'[v] \in {"idle", "lock"} => at[v] \in {"idle", "lock"}
                                   /\ at[v] = "over" => at'[v] = "over"
  <2>1. at[w] = "idle" /\ UNCHANGED lock /\ (w # Shell => at'[w] = "lock")
    BY <1>0, <1>3 DEF Start
  <2>2. \A v \in Writer \ {w} : at'[v] = at[v]
    BY <1>0, <1>3 DEF Start
  <2> QED
    BY <1>0, <1>2, <2>1, <2>2
<1>4. ASSUME NEW w \in Writer, Step(w)
      PROVE  /\ LockInv'
             /\ \A v \in Printer : /\ at'[v] \in {"idle", "lock"} => at[v] \in {"idle", "lock"}
                                   /\ at[v] = "over" => at'[v] = "over"
  <2>0. \A v \in Writer \ {w} : at'[v] = at[v]
    BY <1>4, OthersStay
  <2>1. CASE Lock(w)
    <3>1. w \in Printer /\ lock = Nothing /\ lock' = w /\ at[w] = "lock" /\ at'[w] = "piece"
      BY <1>0, <2>1 DEF Lock
    <3> QED
      BY <1>0, <2>0, <3>1 DEF LockInv
  <2>2. CASE w = Shell /\ SessionEnter
    <3>1. UNCHANGED lock
      BY <2>2 DEF SessionEnter
    <3> QED
      BY <1>0, <1>2, <2>0, <2>2, <3>1
  <2>3. CASE WriteBytesRaw(w)
    <3>1. at[w] = "piece" /\ at'[w] \in {"over", "piece", "try"}
      BY <1>0, <2>3 DEF WriteBytesRaw
    <3>2. CASE UNCHANGED lock
      BY <1>2, <2>0, <3>1, <3>2
    <3>3. CASE w \in Printer /\ at'[w] = "over" /\ lock' = Nothing
      <4>1. \A v \in Printer \ {w} : at[v] \in {"idle", "lock", "over"}
        BY <1>0, <3>1, <3>3 DEF LockInv
      <4> QED
        BY <1>0, <2>0, <3>1, <3>3, <4>1 DEF LockInv
    <3> QED
      BY <1>0, <2>3, <3>2, <3>3 DEF WriteBytesRaw, Writer
  <2>4. CASE UartTxTry(w) \/ Config(w) \/ DmaTxArm(w) \/ DmaTxOff(w) \/ Enable(w) \/ Fire(w)
             \/ WaitDone(w) \/ StopBlocking(w) \/ WriteWord(w)
    <3>1. at[w] \notin {"idle", "lock", "over"} /\ UNCHANGED lock
      BY <2>4 DEF UartTxTry, Config, DmaTxArm, DmaTxOff, Enable, Fire, WaitDone, StopBlocking, WriteWord
    <3>2. at'[w] \notin {"idle", "lock"}
      BY <1>0, <2>4 DEF UartTxTry, Config, DmaTxArm, DmaTxOff, Enable, Fire, WaitDone, StopBlocking,
                        WriteWord, Release
    <3> QED
      BY <1>2, <2>0, <3>1, <3>2
  <2> QED
    BY <1>4, <2>1, <2>2, <2>3, <2>4 DEF Step
<1>5. ASSUME Hardware PROVE UNCHANGED <<at, lock>>
  BY <1>5 DEF Hardware, Shift, Leave
<1>6. ASSUME UNCHANGED txVars PROVE UNCHANGED <<at, lock>>
  BY <1>6 DEF txVars
<1> QED
  BY <1>1, <1>3, <1>4, <1>5, <1>6 DEF TxNext

\* Nothing is put on the way but a byte of one who is writing.
LEMMA WayNext ==
  ASSUME TxAssumption, TxTypes, TxTypes', ChannelInv, [TxNext]_txVars
  PROVE  \/ OnWay' = OnWay
         \/ Len(OnWay') <= Len(OnWay) /\ \A i \in DOMAIN OnWay' : OnWay[i] = OnWay'[i]
         \/ \E w \in Writer, b \in Bytes : Writing(w) /\ b[1] = w /\ OnWay' = Append(OnWay, b)
<1> USE DEF hwVars
<1>1. ASSUME Request, tdr' # Nothing
      PROVE  tdr' \in Bytes /\ \E w \in Writer : Writing(w) /\ tdr'[1] = w
  <2>1. PICK w \in Writer : at[w] \in Lent /\ tdr' = Byte(w, Length(w) - chen + 1) /\ tdr' \in Bytes
    BY <1>1, RequestIs
  <2> QED
    BY <2>1 DEF Byte, Writing, Lent
<1>2. CASE Shift
  <2>1. Request /\ OnWay' = IF tdr' = Nothing THEN OnWay ELSE Append(OnWay, tdr')
    BY <1>2, WayShift DEF Shift
  <2> QED
    BY <1>1, <2>1
<1>3. CASE Leave
  BY <1>3, WayLeave DEF Leave
<1>4. ASSUME UNCHANGED <<tdr, shift, wire>> PROVE OnWay' = OnWay
  BY <1>4 DEF OnWay
<1>5. ASSUME NEW w \in Writer, DmaTxOff(w)
      PROVE  Len(OnWay') <= Len(OnWay) /\ \A i \in DOMAIN OnWay' : OnWay[i] = OnWay'[i]
  <2>1. OnWay' = wire /\ Len(wire) <= Len(OnWay) /\ \A i \in DOMAIN wire : OnWay[i] = wire[i]
    BY <1>5, WayOff DEF DmaTxOff
  <2> QED
    BY <2>1
<1>6. ASSUME NEW w \in Writer, Fire(w)
      PROVE  \/ OnWay' = OnWay
             \/ \E u \in Writer, b \in Bytes : Writing(u) /\ b[1] = u /\ OnWay' = Append(OnWay, b)
  <2>1. UNCHANGED <<shift, wire>> /\ (UNCHANGED tdr \/ (tdr = Nothing /\ Request))
    BY <1>6 DEF Fire
  <2>2. CASE UNCHANGED tdr
    BY <1>4, <2>1, <2>2
  <2>3. CASE tdr = Nothing /\ Request /\ tdr' # Nothing
    BY <1>1, <2>1, <2>3, WayPut
  <2> QED
    BY <2>1, <2>2, <2>3
<1>7. ASSUME NEW w \in Writer, WriteWord(w)
      PROVE  \E u \in Writer, b \in Bytes : Writing(u) /\ b[1] = u /\ OnWay' = Append(OnWay, b)
  <2>1. Writing(w) /\ tdr = Nothing /\ tdr' = Byte(w, done[w] + 1) /\ UNCHANGED <<shift, wire>>
    BY <1>7 DEF WriteWord, TXE, Writing
  <2>2. tdr' # Nothing
    BY <2>1 DEF Byte, Nothing
  <2>3. OnWay' = Append(OnWay, tdr') /\ tdr' \in Bytes
    BY <2>1, <2>2, WayPut
  <2> QED
    BY <2>1, <2>3 DEF Byte
<1>8. ASSUME NEW w \in Writer, Step(w) \/ Start(w), ~DmaTxOff(w), ~Fire(w), ~WriteWord(w)
      PROVE  UNCHANGED <<tdr, shift, wire>>
  BY <1>8 DEF Step, Start, Lock, SessionEnter, WriteBytesRaw, UartTxTry, Config, DmaTxArm,
              Enable, WaitDone, StopBlocking
<1>9. ASSUME UNCHANGED txVars PROVE UNCHANGED <<tdr, shift, wire>>
  BY <1>9 DEF txVars
<1> QED
  BY <1>2, <1>3, <1>4, <1>5, <1>6, <1>7, <1>8, <1>9 DEF TxNext, Hardware

LEMMA LineNext ==
  ASSUME TxAssumption, TxTypes, TxTypes', ChannelInv, LineInv, [TxNext]_txVars
  PROVE  LineInv'
<1>1. LockInv' /\ \A w \in Printer : /\ at'[w] \in {"idle", "lock"} => at[w] \in {"idle", "lock"}
                                     /\ at[w] = "over" => at'[w] = "over"
  BY LockNext DEF LineInv
<1>2. OnWay \in Seq(Bytes) /\ OnWay' \in Seq(Bytes) /\ Lines(OnWay, at)
  BY WayType, WayTypeNext DEF LineInv
<1>3. ASSUME NEW w \in Writer, NEW b \in Bytes, Writing(w), b[1] = w
      PROVE  Lines(Append(OnWay, b), at)
  <2>1. at[w] \notin {"idle", "lock", "over"}
    BY <1>3 DEF Writing
  <2>2. w \in Printer => \A v \in Printer \ {w} : at[v] \in {"idle", "lock", "over"}
    BY <2>1 DEF LineInv, LockInv
  <2> QED
    BY <1>2, <1>3, <2>1, <2>2, LinesAppend
<1>4. Lines(OnWay', at)
  BY <1>2, <1>3, WayNext, LinesFirst
<1>5. Lines(OnWay', at')
  BY <1>1, <1>4, LinesGoOn
<1> QED
  BY <1>1, <1>5 DEF LineInv, Lines, Unbroken

-----------------------------------------------------------------------------
(* One step for what was gone past.                                        *)

\* What is on its way stays there, but for a sender that is switched off.
LEMMA SentKept ==
  ASSUME TxTypes, TxTypes',
         OnWay' = OnWay \/ \E b \in Bytes : OnWay' = Append(OnWay, b)
  PROVE  \A c : Sent(OnWay, c) => Sent(OnWay', c)
  BY WayType, SentAppend

\* What another writer does keeps one's progress.
LEMMA ProgressKept ==
  ASSUME TxTypes, NEW v \in Writer, Progress(v), given \subseteq given',
         \A c : Sent(OnWay, c) => Sent(OnWay', c),
         at'[v] = at[v], piece'[v] = piece[v], done'[v] = done[v],
         at[v] \in Lent => UNCHANGED chen
  PROVE  Progress(v)'
<1>1. \A p \in 1 .. piece'[v] - 1 : Whole(v, p)'
  <2> SUFFICES ASSUME NEW p \in 1 .. piece'[v] - 1 PROVE Whole(v, p)'
    OBVIOUS
  <2>1. Whole(v, p)
    BY DEF Progress
  <2> QED
    BY <2>1 DEF Whole
<1>2. at'[v] = "poll" => Begun(v, done[v])'
  BY DEF Progress, Begun, Byte
<1>3. at'[v] \in Lent => Begun(v, Length(v) - chen)'
  BY DEF Progress, Begun, Byte, Length
<1> QED
  BY <1>1, <1>2, <1>3 DEF Progress, Begun, Byte

\* A step of one writer: what is left to show is its own progress.
LEMMA WholeStep ==
  ASSUME TxTypes, ChannelInv, WholeInv, ~mixed, NEW w \in Writer, Step(w) \/ Start(w),
         given \subseteq given', \A c : Sent(OnWay, c) => Sent(OnWay', c),
         UNCHANGED chen \/ at[w] \in Holding, UNCHANGED <<tdr, shift>> \/ Writing(w),
         Writing(w)' => Writing(w) \/ Alone(w), at'[w] = "te" => TC', Progress(w)'
  PROVE  WholeInv'
<1>1. \A v \in Writer \ {w} : at'[v] = at[v] /\ piece'[v] = piece[v] /\ done'[v] = done[v]
                              /\ Writing(v)' = Writing(v)
  BY OthersStay
<1>2. ASSUME Writing(w)' PROVE \A v \in Writer \ {w} : ~Writing(v)'
  BY <1>1, <1>2 DEF WholeInv, Alone
<1>3. \A u, v \in Writer : Writing(u)' /\ Writing(v)' => u = v
  BY <1>1, <1>2 DEF WholeInv
<1>4. ASSUME NEW v \in Writer, at'[v] = "te" PROVE TC'
  <2>1. CASE v = w
    BY <1>4, <2>1
  <2>2. CASE v # w
    <3>1. at[v] = "te" /\ Writing(v)
      BY <1>1, <1>4, <2>2 DEF Writing
    <3>2. TC /\ UNCHANGED <<tdr, shift>>
      BY <2>2, <3>1 DEF WholeInv
    <3> QED
      BY <3>2 DEF TC
  <2> QED
    BY <2>1, <2>2
<1>5. ASSUME NEW v \in Writer PROVE Progress(v)'
  <2>1. CASE v # w
    <3>1. at[v] \in Lent => UNCHANGED chen
      BY <2>1 DEF ChannelInv, Holding
    <3> QED
      BY <1>1, <2>1, <3>1, ProgressKept DEF WholeInv
  <2> QED
    BY <2>1
<1> QED
  BY <1>3, <1>4, <1>5 DEF WholeInv

\* Once two have written at once, that stays so.
LEMMA MixedStays ==
  ASSUME TxNext, mixed
  PROVE  mixed'
<1>1. ASSUME NEW w \in Writer, WriteBytesRaw(w) PROVE mixed'
  <2>1. CASE UNCHANGED mixed
    BY Zenon, <2>1
  <2>2. CASE mixed' = (mixed \/ Meets(w))
    BY Zenon, <2>2
  <2> QED
    BY Zenon, <1>1, <2>1, <2>2 DEF WriteBytesRaw
<1>2. ASSUME NEW w \in Writer, Step(w) \/ Start(w), ~WriteBytesRaw(w) PROVE UNCHANGED mixed
  BY <1>2 DEF Step, Start, Lock, SessionEnter, UartTxTry, Config, DmaTxArm, DmaTxOff,
              Enable, Fire, WaitDone, StopBlocking, WriteWord
<1>3. ASSUME Hardware PROVE UNCHANGED mixed
  BY <1>3 DEF Hardware, Shift, Leave
<1>4. ASSUME UNCHANGED mixed PROVE mixed'
  BY Zenon, <1>4
<1> QED
  BY Zenon, <1>1, <1>2, <1>3, <1>4 DEF TxNext

\* The channel's byte is one more of the piece that it was lent.
LEMMA RequestWhole ==
  ASSUME TxAssumption, TxTypes, TxTypes', ChannelInv, Request, OnWay' = Append(OnWay, tdr'),
         UNCHANGED <<piece, done, given>>, NEW u \in Writer, at[u] \in Lent, chen > 0,
         \A v \in Writer : at'[v] = at[v] \/ (v = u /\ at'[v] \in Lent),
         NEW v \in Writer, Progress(v)
  PROVE  Progress(v)'
<1>1. PICK w \in Writer :
          /\ at[w] \in Lent /\ piece[w] \in DOMAIN Piece[w]
          /\ Length(w) \in Nat /\ chen \in 1 .. Length(w)
          /\ tdr' = Byte(w, Length(w) - chen + 1) /\ tdr' \in Bytes
          /\ chen' = chen - 1
  BY RequestIs
<1>2. w = u
  BY <1>1 DEF ChannelInv, Holding
<1>3. Sent(OnWay', tdr') /\ \A c : Sent(OnWay, c) => Sent(OnWay', c)
  BY <1>1, WayType, SentAppend
<1>4. CASE v # u
  <2>1. at[v] \notin Lent /\ at'[v] = at[v]
    BY <1>4 DEF ChannelInv, Holding
  <2> QED
    BY <1>3, <2>1, ProgressKept
<1>5. CASE v = u
  <2>1. \A p \in 1 .. piece'[u] - 1 : Whole(u, p)'
    BY <1>3, <1>5 DEF Progress, Whole
  <2>2. at'[u] \in Lent /\ at'[u] # "poll"
    BY DEF Lent
  <2>3. Length(u)' = Length(u) /\ \A i : Byte(u, i)' = Byte(u, i)
    BY DEF Length, Byte
  <2>4. ASSUME NEW i \in 1 .. Length(u) - chen' PROVE Sent(OnWay', Byte(u, i))
    <3>1. CASE i = Length(u) - chen + 1
      BY <1>1, <1>2, <1>3, <3>1
    <3>2. CASE i # Length(u) - chen + 1
      <4>1. i \in 1 .. Length(u) - chen
        BY <1>1, <1>2, <2>4, <3>2
      <4> QED
        BY <1>3, <1>5, <4>1 DEF Progress, Begun
    <3> QED
      BY <3>1, <3>2
  <2>5. Begun(u, Length(u) - chen)'
    BY <2>3, <2>4 DEF Begun
  <2> QED
    BY <1>5, <2>1, <2>2, <2>5 DEF Progress
<1> QED
  BY <1>4, <1>5

LEMMA WholeNext ==
  ASSUME TxAssumption, TxTypes, TxTypes', ChannelInv, LineInv, FlagInv, WholeInv, [TxNext]_txVars
  PROVE  WholeInv'
<1> USE DEF hwVars
<1> SUFFICES ASSUME ~mixed' PROVE WholeInv'
  BY DEF WholeInv
<1>1. CASE UNCHANGED txVars
  <2>1. OnWay' = OnWay /\ TC' = TC
    BY <1>1 DEF txVars, OnWay, TC
  <2> QED
    BY <1>1, <2>1 DEF txVars, WholeInv, Writing, Progress, Whole, Begun, Byte, Length
<1>2. ASSUME TxNext
      PROVE  /\ ~mixed /\ \A w \in Writer : Progress(w)
             /\ \A v, w \in Writer : Writing(v) /\ Writing(w) => v = w
             /\ \A w \in Writer : at[w] = "te" => TC
  <2>1. ~mixed
    BY Zenon, <1>2, MixedStays
  <2> QED
    BY <2>1 DEF WholeInv
<1>3. CASE Shift
  <2>1. /\ Request /\ UNCHANGED <<piece, done, at, given>> /\ tdr # Nothing
        /\ OnWay' = IF tdr' = Nothing THEN OnWay ELSE Append(OnWay, tdr')
    BY <1>3, WayShift DEF Shift
  <2>2. TxNext
    BY <1>3 DEF TxNext, Hardware
  <2>3. ASSUME NEW v \in Writer PROVE Progress(v)'
    <3>1. Progress(v)
      BY <1>2, <2>2
    <3>2. CASE chen > 0
      <4>1. PICK u \in Writer : at[u] \in Lent
        BY <3>2 DEF ChannelInv
      <4>2. tdr' # Nothing
        BY <2>1, <3>2, RequestIs, EmptyCell
      <4> QED
        BY <2>1, <3>1, <3>2, <4>1, <4>2, RequestWhole
    <3>3. CASE ~(chen > 0)
      <4>1. UNCHANGED chen /\ tdr' = Nothing
        BY <2>1, <3>3 DEF Request
      <4> QED
        BY <2>1, <3>1, <4>1, ProgressKept
    <3> QED
      BY <3>2, <3>3
  <2>4. \A w \in Writer : at'[w] # "te" /\ Writing(w)' = Writing(w)
    BY <1>2, <2>1, <2>2 DEF TC, Writing
  <2> QED
    BY <1>2, <2>2, <2>3, <2>4 DEF WholeInv
<1>4. CASE Leave
  <2>1. OnWay' = OnWay /\ UNCHANGED <<piece, done, at, given, chen, tdr>> /\ shift' = Nothing
    BY <1>4, WayLeave DEF Leave
  <2>2. TxNext
    BY <1>4 DEF TxNext, Hardware
  <2>3. \A v \in Writer : Progress(v)'
    BY <1>2, <2>1, <2>2, ProgressKept
  <2>4. (TC => TC') /\ \A w \in Writer : Writing(w)' = Writing(w)
    BY <2>1 DEF TC, Writing
  <2> QED
    BY <1>2, <2>1, <2>2, <2>3, <2>4 DEF WholeInv
\* Nothing is put on the way or taken off it.
<1>5. ASSUME NEW w \in Writer, Step(w) \/ Start(w), UNCHANGED <<tdr, shift, wire>>,
             given \subseteq given', UNCHANGED chen \/ at[w] \in Holding,
             Writing(w)' => Writing(w) \/ Alone(w), at'[w] = "te" => TC, Progress(w)'
      PROVE  WholeInv'
  <2>1. OnWay' = OnWay /\ TC' = TC
    BY <1>5 DEF OnWay, TC
  <2> QED
    BY <1>2, <1>5, <2>1, WholeStep DEF TxNext
\* A writer that stays in its piece and has sent nothing of it.
<1>6. ASSUME NEW w \in Writer, Step(w) \/ Start(w), UNCHANGED <<tdr, shift, wire>>,
             given \subseteq given', piece'[w] = piece[w], at'[w] \notin Lent,
             at'[w] = "poll" => done'[w] = 0
      PROVE  Progress(w)'
  <2>1. \A p : Whole(w, p) => Whole(w, p)'
    BY <1>6 DEF Whole, OnWay
  <2>2. \A p \in 1 .. piece'[w] - 1 : Whole(w, p)'
    BY <1>2, <1>6, <2>1 DEF Progress, TxNext
  <2>3. at'[w] = "poll" => Begun(w, done[w])'
    BY <1>6 DEF Begun
  <2> QED
    BY <1>6, <2>2, <2>3 DEF Progress
<1>7. ASSUME NEW w \in Writer, Start(w) PROVE WholeInv'
  <2>1. /\ UNCHANGED <<tdr, shift, wire, given, chen, piece>>
        /\ at'[w] \in {"enter", "lock"}
    BY <1>7 DEF Start, Moves, TxTypes
  <2>2. Progress(w)'
    BY <1>6, <1>7, <2>1 DEF Lent
  <2> QED
    BY <1>5, <1>7, <2>1, <2>2 DEF Writing
<1>8. ASSUME NEW w \in Writer, Step(w) PROVE WholeInv'
  <2> USE DEF Moves
  <2>0. /\ at \in [Writer -> Places] /\ piece \in [Writer -> Nat \ {0}] /\ done \in [Writer -> Nat]
        /\ piece[w] \in Nat /\ done[w] \in Nat /\ chen \in Nat
        /\ Progress(w)
    BY <1>2, <1>8 DEF TxTypes, TxNext
  <2>1. CASE Lock(w)
    <3>1. /\ UNCHANGED <<tdr, shift, wire, given, chen, piece>> /\ at'[w] = "piece"
      BY <2>0, <2>1 DEF Lock
    <3> QED
      BY <1>5, <1>6, <1>8, <3>1 DEF Writing, Lent
  <2>2. CASE w = Shell /\ SessionEnter
    <3>1. /\ UNCHANGED <<tdr, shift, wire, given, chen, piece>> /\ at'[w] = "piece"
      BY <2>0, <2>2 DEF SessionEnter
    <3> QED
      BY <1>5, <1>6, <1>8, <3>1 DEF Writing, Lent
  <2>3. CASE WriteBytesRaw(w)
    <3>1. UNCHANGED <<tdr, shift, wire, chen>> /\ given \subseteq given'
      BY <2>3 DEF WriteBytesRaw
    <3>2. CASE piece'[w] = piece[w] /\ at'[w] \in {"over", "try"}
      <4>1. at'[w] = "try" => mixed' = (mixed \/ Meets(w))
        BY <2>0, <2>3 DEF WriteBytesRaw
      <4>2. at'[w] = "try" => Alone(w)
        <5>1. at'[w] = "try" => ~Meets(w)
          BY Zenon, <4>1
        <5>2. at[w] = "piece" /\ \A v \in Writer \ {w, Shell} : ~Writing(v) \/ w = Shell
          <6>1. at[w] = "piece"
            BY <2>3 DEF WriteBytesRaw
          <6>2. \A v \in Writer \ {w, Shell} : w # Shell => at[v] \in {"idle", "lock", "over"}
            BY <6>1 DEF LineInv, LockInv, Writer
          <6> QED
            BY <6>1, <6>2 DEF Writing
        <5> QED
          BY <5>1, <5>2 DEF Meets, Alone
      <4>3. Progress(w)'
        BY <1>6, <1>8, <3>1, <3>2 DEF Lent
      <4> QED
        BY <1>5, <1>8, <3>1, <3>2, <4>2, <4>3 DEF Writing
    <3>3. CASE piece'[w] = piece[w] + 1 /\ at'[w] = "piece" /\ <<w, piece[w]>> \in given'
      <4>1. \A p : Whole(w, p) => Whole(w, p)'
        BY <3>1 DEF Whole, OnWay
      <4>0. PICK q \in Nat : q = piece[w]
        BY <2>0
      <4>2. Whole(w, q)'
        BY <3>3, <4>0 DEF Whole
      <4>3. Progress(w)'
        BY <2>0, <3>3, <4>0, <4>1, <4>2 DEF Progress, Lent
      <4> QED
        BY <1>5, <1>8, <3>1, <3>3, <4>3 DEF Writing
    <3> QED
      BY <2>0, <2>3, <3>2, <3>3 DEF WriteBytesRaw
  <2>4. CASE UartTxTry(w)
    <3>1. /\ UNCHANGED <<tdr, shift, wire, given, chen, piece>>
          /\ at[w] = "try" /\ at'[w] \in {"poll", "config"} /\ done'[w] = 0
      BY <2>0, <2>4 DEF UartTxTry
    <3>2. Progress(w)'
      BY <1>6, <1>8, <3>1 DEF Lent
    <3> QED
      BY <1>5, <1>8, <3>1, <3>2 DEF Writing
  \* While a transmission is set up nothing of the piece is sent.
  <2>5. ASSUME at[w] \in Setting, at'[w] \in (Setting \ {"te"}) \cup {"poll"},
               UNCHANGED <<piece, done, chen, given, tdr, shift, wire>>
        PROVE  WholeInv'
    <3>1. done[w] = 0 /\ Writing(w) /\ at'[w] \notin Lent
      BY <2>5 DEF ChannelInv, Setting, Lent, Writing
    <3>2. Progress(w)'
      BY <1>6, <1>8, <2>5, <3>1
    <3> QED
      BY <1>5, <1>8, <2>5, <3>1, <3>2
  <2>6. CASE Config(w)
    <3>1. at[w] = "config" /\ at'[w] \in {"arm", "poll"}
      BY <2>0, <2>6 DEF Config, Release
    <3> QED
      BY <2>5, <2>6, <3>1 DEF Config, Setting
  <2>7. CASE DmaTxArm(w)
    <3>1. /\ at[w] = "arm" /\ UNCHANGED <<piece, done, chen, given, tdr, shift, wire>>
          /\ (at'[w] = "poll" \/ (at'[w] = "te" /\ TC))
      BY <2>0, <2>7 DEF DmaTxArm, Release
    <3>2. CASE at'[w] = "te" /\ TC
      <4>1. Progress(w)'
        BY <1>6, <1>8, <3>1, <3>2 DEF Lent
      <4> QED
        BY <1>5, <1>8, <3>1, <3>2, <4>1 DEF Writing
    <3> QED
      BY <2>5, <3>1, <3>2 DEF Setting
  <2>8. CASE DmaTxOff(w)
    <3>1. /\ at[w] = "te" /\ at'[w] = "enable" /\ tdr' = Nothing /\ shift' = Nothing
          /\ UNCHANGED <<piece, done, chen, given, wire>>
      BY <2>0, <2>8 DEF DmaTxOff
    <3>2. TC
      BY <1>2, <1>8, <3>1 DEF TxNext
    <3>3. UNCHANGED <<tdr, shift>>
      BY <3>1, <3>2 DEF TC
    <3> QED
      BY <2>5, <3>1, <3>3 DEF Setting
  <2>9. CASE Enable(w)
    <3>0. at[w] = "enable" /\ UNCHANGED <<piece, done, given, tdr, shift, wire>>
      BY <2>9 DEF Enable
    <3>1. CASE chen' = Length(w) /\ Moves(w, "fire")
      <4>1. at'[w] = "fire"
        BY <2>0, <3>1
      <4>2. Length(w) \in Nat \ {0} /\ Length(w)' = Length(w)
        BY <3>0, PieceType DEF ChannelInv, Writing, Length
      <4>3. \A p \in 1 .. piece'[w] - 1 : Whole(w, p)'
        BY <2>0, <3>0 DEF Progress, Whole, OnWay
      <4>4. Begun(w, Length(w) - chen)'
        BY <3>1, <4>2 DEF Begun
      <4>5. Progress(w)'
        BY <4>1, <4>3, <4>4 DEF Progress
      <4> QED
        BY <1>5, <1>8, <3>0, <4>1, <4>5 DEF Writing, Holding, Setting
    <3>2. CASE Release(w, "poll") /\ UNCHANGED <<chen, src>>
      BY <2>0, <2>5, <3>0, <3>2 DEF Release, Setting
    <3> QED
      BY <2>9, <3>1, <3>2 DEF Enable
  <2>10. CASE Fire(w)
    <3>1. at[w] = "fire" /\ at'[w] = "wait" /\ UNCHANGED <<piece, done, given, shift, wire>>
          /\ \A v \in Writer : at'[v] = at[v] \/ (v = w /\ at'[v] \in Lent)
      BY <2>0, <2>10 DEF Fire, Lent
    <3>2. CASE UNCHANGED <<tdr, chen>>
      <4>1. Progress(w)'
        BY <2>0, <3>1, <3>2 DEF Progress, Whole, Begun, Byte, Length, OnWay, Lent
      <4> QED
        BY <1>5, <1>8, <3>1, <3>2, <4>1 DEF Writing
    <3>3. CASE tdr = Nothing /\ Request /\ ~(chen > 0)
      BY <3>2, <3>3 DEF Request
    <3>4. CASE tdr = Nothing /\ Request /\ chen > 0
      <4>1. tdr' \in Bytes /\ tdr' # Nothing
        BY <3>4, RequestIs, EmptyCell
      <4>2. OnWay' = Append(OnWay, tdr')
        BY <3>1, <3>4, <4>1, WayPut
      <4>3. Progress(w)'
        BY <2>0, <3>1, <3>4, <4>2, RequestWhole DEF Lent
      <4>4. \A c : Sent(OnWay, c) => Sent(OnWay', c)
        BY <4>1, <4>2, SentKept
      <4> QED
        BY <1>2, <1>8, <3>1, <4>3, <4>4, WholeStep DEF TxNext, Writing, Holding, Lent
    <3> QED
      BY <2>10, <3>2, <3>3, <3>4 DEF Fire
  <2>11. CASE WaitDone(w)
    <3>1. /\ at[w] = "wait" /\ at'[w] = "stop" /\ given \subseteq given'
          /\ UNCHANGED <<tdr, shift, wire, chen, piece, done>>
      BY <2>0, <2>11 DEF WaitDone
    <3>2. Progress(w)'
      BY <2>0, <3>1 DEF Progress, Whole, Begun, Byte, Length, OnWay, Lent
    <3> QED
      BY <1>5, <1>8, <3>1, <3>2 DEF Writing
  <2>12. CASE StopBlocking(w)
    <3>1. /\ at[w] = "stop" /\ at'[w] = "piece" /\ piece'[w] = piece[w] + 1
          /\ UNCHANGED <<tdr, shift, wire, given>>
      BY <2>0, <2>12 DEF StopBlocking, Release
    <3>2. Whole(w, piece[w])
      <4>1. CASE chen = 0
        <5>1. Length(w) - chen = Piece[w][piece[w]]
          BY <3>1, <4>1, LentIs DEF Lent, Length
        <5> QED
          BY <2>0, <3>1, <5>1 DEF Progress, Begun, Whole, Byte, Lent
      <4>2. CASE <<w, piece[w]>> \in given
        BY <4>2 DEF Whole
      <4> QED
        BY <3>1, <4>1, <4>2 DEF FlagInv
    <3>3. \A p : Whole(w, p) => Whole(w, p)'
      BY <3>1 DEF Whole, OnWay
    <3>4. Progress(w)'
      BY <2>0, <3>1, <3>2, <3>3 DEF Progress, Lent
    <3> QED
      BY <1>5, <1>8, <3>1, <3>4 DEF Writing, Holding, Lent
  <2>13. CASE WriteWord(w)
    <3>1. /\ at[w] = "poll" /\ tdr = Nothing /\ tdr' = Byte(w, done[w] + 1)
          /\ UNCHANGED <<shift, wire, chen, given>>
      BY <2>13 DEF WriteWord, TXE
    <3>2. tdr' \in Bytes
      BY <2>0, <3>1 DEF Byte, Bytes
    <3>3. OnWay' = Append(OnWay, tdr')
      BY <3>1, <3>2, WayPut, EmptyCell
    <3>4. Sent(OnWay', tdr') /\ \A c : Sent(OnWay, c) => Sent(OnWay', c)
      BY <3>2, <3>3, WayType, SentAppend
    <3>5. \A i \in 1 .. done[w] + 1 : Sent(OnWay', Byte(w, i))
      <4> SUFFICES ASSUME NEW i \in 1 .. done[w] + 1 PROVE Sent(OnWay', Byte(w, i))
        OBVIOUS
      <4>1. CASE i = done[w] + 1
        BY <3>1, <3>4, <4>1
      <4>2. CASE i # done[w] + 1
        <5>1. i \in 1 .. done[w]
          BY <2>0, <4>2
        <5> QED
          BY <2>0, <3>1, <3>4, <5>1 DEF Progress, Begun
      <4> QED
        BY <4>1, <4>2
    <3>6. \A p \in 1 .. piece[w] - 1 : Whole(w, p)'
      BY <2>0, <3>1, <3>4 DEF Progress, Whole
    <3>7. CASE at'[w] = "piece" /\ piece'[w] = piece[w] + 1 /\ done[w] + 1 = Length(w)
      <4>0. PICK q \in Nat : q = piece[w]
        BY <2>0
      <4>1. Whole(w, q)'
        BY <3>5, <3>7, <4>0 DEF Whole, Length, Byte
      <4>2. \A p \in 1 .. piece'[w] - 1 : Whole(w, p)'
        BY <2>0, <3>6, <3>7, <4>0, <4>1
      <4> QED
        BY <1>2, <1>8, <3>1, <3>4, <3>7, <4>2, WholeStep DEF TxNext, Writing, Progress, Lent
    <3>8. CASE at'[w] = "poll" /\ piece'[w] = piece[w] /\ done'[w] = done[w] + 1
      <4>1. Begun(w, done[w])'
        BY <3>5, <3>8 DEF Begun, Byte
      <4>2. Progress(w)'
        BY <3>6, <3>8, <4>1 DEF Progress, Lent
      <4> QED
        BY <1>2, <1>8, <3>1, <3>4, <3>8, <4>2, WholeStep DEF TxNext, Writing
    <3> QED
      BY <2>0, <2>13, <3>1, <3>7, <3>8 DEF WriteWord
  <2> QED
    BY <1>8, <2>1, <2>2, <2>3, <2>4, <2>6, <2>7, <2>8, <2>9, <2>10, <2>11, <2>12, <2>13 DEF Step
<1> QED
  BY <1>1, <1>3, <1>4, <1>7, <1>8 DEF TxNext, Hardware

-----------------------------------------------------------------------------
LEMMA TxInvInit ==
  ASSUME TxAssumption
  PROVE  TxInit => TxInv
<1> SUFFICES ASSUME TxInit PROVE TxInv
  OBVIOUS
<1>1. TxTypes
  <2>1. /\ at \in [Writer -> Places] /\ piece \in [Writer -> Nat \ {0}] /\ done \in [Writer -> Nat]
    BY DEF TxInit, Places
  <2>2. wire \in Seq(Bytes)
    BY DEF TxInit
  <2> QED
    BY <2>1, <2>2 DEF TxInit, TxTypes
<1>2. ChannelInv /\ FlagInv
  BY DEF TxInit, ChannelInv, FlagInv, Holding, Setting, Lent, Writing
<1>3. OnWay = <<>>
  BY DEF TxInit, OnWay
<1>4. OrderInv
  BY <1>3 DEF OrderInv, OrderedUpto
<1>5. WholeInv
  BY DEF TxInit, WholeInv, Writing, Progress, Lent
<1>6. LineInv
  <2>1. Lines(OnWay, at)
    BY <1>3 DEF Lines, Unbroken
  <2> QED
    BY <2>1 DEF TxInit, LineInv, LockInv, Writer
<1> QED
  BY <1>1, <1>2, <1>4, <1>5, <1>6 DEF TxInv

LEMMA TxInvNext ==
  ASSUME TxAssumption, TxInv, [TxNext]_txVars
  PROVE  TxInv'
<1>1. TxTypes'
  BY TypesNext DEF TxInv
<1>2. ChannelInv'
  BY <1>1, ChannelNext DEF TxInv
<1> QED
  BY <1>1, <1>2, FlagNext, OrderNext, LineNext, WholeNext DEF TxInv

\* Whatever time-outs there are and whoever writes at the same time: a writer's bytes
\* leave in order and none of them twice (a transmission that is given up is not sent
\* again byte by byte); no byte of another's line is between two of a line, for the print
\* lock is held from its first piece to its last (console.rs); every byte of a piece that
\* was not given up is on its way when the writer goes on, unless bytes of a session met
\* those of a line; and the channel reads from a piece only while the call that lent it
\* has not returned (dma.rs).
THEOREM TxSafe ==
  ASSUME TxAssumption
  PROVE  TxSpec => []TxExact
<1>1. TxInit => TxInv
  BY TxInvInit
<1>2. TxInv /\ [TxNext]_txVars => TxInv'
  BY TxInvNext
<1>3. TxInv => TxExact
  <2> SUFFICES ASSUME TxInv PROVE TxExact
    OBVIOUS
  <2>1. SentOnce
    BY DEF TxInv, OrderInv, OrderedUpto, SentOnce
  <2>2. NothingCutOff
    BY DEF TxInv, WholeInv, Progress, Whole, Sent, NothingCutOff
  <2>3. BorrowKept
    BY DEF TxInv, ChannelInv, BorrowKept, Byte, Lent
  <2>4. LinesWhole
    BY DEF TxInv, LineInv, Lines, Unbroken, LinesWhole
  <2> QED
    BY <2>1, <2>2, <2>3, <2>4 DEF TxExact
<1> QED
  BY <1>1, <1>2, <1>3, PTL DEF TxSpec

=============================================================================
