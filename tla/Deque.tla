------------------------------- MODULE Deque -------------------------------
(***************************************************************************)
(* What a mailbox and a message queue promise: messages are received once  *)
(* each, in the order they were sent, urgent ones first; no more than the  *)
(* capacity are held at a time.                                            *)
(***************************************************************************)
EXTENDS Naturals, Sequences

CONSTANTS Msg, Capacity, None

VARIABLES
    contents,  \* the messages held, the next one to be received first
    received   \* the message that was received last, or None

Init == contents = <<>> /\ received = None

Send(m) ==
    /\ Len(contents) < Capacity
    /\ contents' \in {Append(contents, m), <<m>> \o contents}
    /\ UNCHANGED received

Recv ==
    /\ contents # <<>>
    /\ received' = Head(contents)
    /\ contents' = Tail(contents)

Next == Recv \/ \E m \in Msg : Send(m)

Spec == Init /\ [][Next]_<<contents, received>>
=============================================================================
