------------------------------ MODULE Buffers ------------------------------
(***************************************************************************)
(* The two message buffers of ipc.rs: the ring of a Mailbox and the linked *)
(* blocks of a MessageQueue, with what one critical section of send, urgent*)
(* and recv does to them.  Contents(b) is the sequence a buffer stands for.*)
(***************************************************************************)
EXTENDS Naturals, Sequences

CONSTANTS
    Size,    \* capacity, max_msgs
    Nothing  \* what a slot holds before its first message

ASSUME BuffersAssumption == Size \in Nat \ {0}

Slot == 0 .. Size - 1

-----------------------------------------------------------------------------
(* The ring of a Mailbox.                                                  *)

RingInit == [pool |-> [i \in Slot |-> Nothing], in |-> 0, out |-> 0, count |-> 0]

RingHasRoom(b) == b.count < Size

RingSend(b, m) ==
    [b EXCEPT !.pool[b.in] = m, !.in = (b.in + 1) % Size, !.count = @ + 1]

\* Variant: stores the message before it moves the reading end.
RingUrgentLate(b, m) ==
    LET i == IF b.out = 0 THEN Size - 1 ELSE b.out - 1
    IN [b EXCEPT !.out = i, !.pool[b.out] = m, !.count = @ + 1]

RingUrgent(b, m) ==
    LET i == IF b.out = 0 THEN Size - 1 ELSE b.out - 1
    IN [b EXCEPT !.out = i, !.pool[i] = m, !.count = @ + 1]

RingFirst(b) == b.pool[b.out]
RingRecv(b) == [b EXCEPT !.out = (b.out + 1) % Size, !.count = @ - 1]

RingContents(b) == [i \in 1 .. b.count |-> b.pool[(b.out + i - 1) % Size]]

-----------------------------------------------------------------------------
(* The blocks of a MessageQueue.                                           *)

BlockEnd == Size

BlocksInit ==
    [data |-> [i \in Slot |-> Nothing], next |-> [i \in Slot |-> i + 1],
     head |-> BlockEnd, tail |-> BlockEnd, free |-> 0, count |-> 0]

BlocksHasRoom(q) == q.free # BlockEnd

BlocksSend(q, m) ==
    LET b == q.free
        r == [q EXCEPT !.free = q.next[b], !.data[b] = m, !.tail = b, !.count = @ + 1]
    IN IF q.count = 0 THEN [r EXCEPT !.head = b, !.next[b] = BlockEnd]
       ELSE [r EXCEPT !.next = [@ EXCEPT ![q.tail] = b, ![b] = BlockEnd]]

BlocksUrgent(q, m) ==
    LET b == q.free
    IN [q EXCEPT !.free = q.next[b], !.data[b] = m, !.next[b] = q.head, !.head = b,
                 !.tail = IF q.count = 0 THEN b ELSE @, !.count = @ + 1]

BlocksFirst(q) == q.data[q.head]
BlocksRecv(q) ==
    LET b == q.head
    IN [q EXCEPT !.head = q.next[b], !.count = @ - 1, !.next[b] = q.free, !.free = b]

\* The block after n links of the chain that starts at i.
Follow(q, i, n) ==
    LET at[j \in 0 .. n] == IF j = 0 THEN i
                            ELSE IF at[j - 1] = BlockEnd THEN BlockEnd ELSE q.next[at[j - 1]]
    IN at[n]
BlocksContents(q) == [i \in 1 .. q.count |-> q.data[Follow(q, q.head, i - 1)]]

\* Every block is in one of the two chains, and each chain ends where it should.
BlocksWhole(q) ==
    LET used == {Follow(q, q.head, i) : i \in 0 .. Size - 1} \ {BlockEnd}
        left == {Follow(q, q.free, i) : i \in 0 .. Size - 1} \ {BlockEnd}
    IN /\ used \cap left = {} /\ used \cup left = Slot
       /\ Follow(q, q.head, q.count) = BlockEnd
       /\ Follow(q, q.free, Size - q.count) = BlockEnd
       /\ q.count > 0 => Follow(q, q.head, q.count - 1) = q.tail

-----------------------------------------------------------------------------
(* Both at once, through the same operations: the contents are the ring's. *)

BothInit           == [ring |-> RingInit, blocks |-> BlocksInit]
BothHaveRoom(b)    == RingHasRoom(b.ring)
BothSend(b, m)     == [ring |-> RingSend(b.ring, m), blocks |-> BlocksSend(b.blocks, m)]
BothUrgent(b, m)   == [ring |-> RingUrgent(b.ring, m), blocks |-> BlocksUrgent(b.blocks, m)]
BothFirst(b)       == RingFirst(b.ring)
BothRecv(b)        == [ring |-> RingRecv(b.ring), blocks |-> BlocksRecv(b.blocks)]
BothContents(b)    == RingContents(b.ring)

\* The two objects do the same: they hold the same messages, and send() and recv() of
\* either block in the same states.
BothAgree(b) ==
    /\ BlocksContents(b.blocks) = RingContents(b.ring)
    /\ BlocksHasRoom(b.blocks) = RingHasRoom(b.ring)
    /\ BlocksWhole(b.blocks)

\* What a channel asks of its buffer, one of B: it holds a sequence of at most cap of the
\* messages, and the operations add and take them at its ends.
IsBuffer(B, messages, cap, empty, room(_), put(_, _), putFirst(_, _), first(_), rest(_),
         contents(_), sound(_)) ==
    /\ empty \in B /\ contents(empty) = <<>>
    /\ \A b \in B : /\ sound(b) /\ contents(b) \in Seq(messages)
                    /\ Len(contents(b)) <= cap
                    /\ room(b) <=> Len(contents(b)) < cap
    /\ \A b \in B, m \in messages : room(b) =>
         /\ put(b, m) \in B /\ contents(put(b, m)) = Append(contents(b), m)
         /\ putFirst(b, m) \in B /\ contents(putFirst(b, m)) = <<m>> \o contents(b)
    /\ \A b \in B : contents(b) # <<>> =>
         /\ first(b) = Head(contents(b))
         /\ rest(b) \in B /\ contents(rest(b)) = Tail(contents(b))
=============================================================================
