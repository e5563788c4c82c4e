------------------------------ MODULE Channel ------------------------------
(***************************************************************************)
(* Mailbox and MessageQueue (ipc.rs): send, urgent and recv with timeouts, *)
(* from threads and handlers.  The two objects differ in their buffer      *)
(* only, a parameter.                                                      *)
(*                                                                         *)
(* A wake-up hands nothing over.  send() puts the message into the buffer  *)
(* and wakes the first receiver, which looks again when it runs; another   *)
(* may have been faster, and then it waits anew at the end of the list.    *)
(***************************************************************************)
EXTENDS Blocking

CONSTANTS
    Senders, Receivers,            \* sender_list and base.suspend_list
    Msg,                           \* the messages
    Capacity,                      \* size, max_msgs
    EmptyBuffer,                   \* the buffer and its operations, from Buffers
    HasRoom(_), Put(_, _), PutFirst(_, _), First(_), Rest(_), Contents(_),
    Sound(_)                       \* what holds of a buffer that is intact

Calls == [op : {"send", "urgent"}, msg : Msg, timed : Timed]
           \cup [op : {"recv"}, timed : Timed]

ASSUME ChannelAssumption ==
    /\ {Senders, Receivers} \subseteq Queue /\ Senders # Receivers
    /\ Capacity \in Nat \ {0}
    /\ None \notin Calls

VARIABLES
    buf,       \* the buffer
    call,      \* the call a thread is blocked in, or None
    received   \* the message that was received last, or None

cvars == <<buf, call, received>>

IsRecv(r) == r.op = "recv"
Count(b)  == Len(Contents(b))
Possible(r) == IF IsRecv(r) THEN Count(buf) > 0 ELSE HasRoom(buf)

-----------------------------------------------------------------------------
\* One critical section of send_impl and recv: the buffer, and who is woken.
Transfer(r) ==
    /\ Possible(r)
    /\ received' = IF IsRecv(r) THEN First(buf) ELSE received
    /\ buf' = CASE r.op = "send"   -> Put(buf, r.msg)
                [] r.op = "urgent" -> PutFirst(buf, r.msg)
                [] r.op = "recv"   -> Rest(buf)
Others(r) == IF IsRecv(r) THEN Senders ELSE Receivers
Own(r)    == IF IsRecv(r) THEN Receivers ELSE Senders

Succeed(c, r) ==
    /\ Transfer(r)
    /\ k' = Woken(Others(r))
    /\ AfterCall(c, Urgent(Others(r)))
    /\ call' = [call EXCEPT ![c] = None]
    /\ UNCHANGED popped

Block(c, r) ==
    /\ ~Possible(r)
    /\ k' = SuspendCurrent(k, c, Own(r), r.timed)
    /\ Goto(c, "block")
    /\ call' = [call EXCEPT ![c] = r]
    /\ UNCHANGED <<popped, buf, received>>

\* A call, which fails without effect when it may not wait and would have to.
Start(c, r) == Calling(c) /\ (Succeed(c, r) \/ Block(c, r))

\* The loop after blocked_wait: the call is tried again, with its whole timeout ...
Retry(c) == Resumed(c) /\ ~k.err[c] /\ (Succeed(c, call[c]) \/ Block(c, call[c]))

\* ... or gives up after a timeout.
GiveUp(c) ==
    /\ Resumed(c) /\ k.err[c]
    /\ Goto(c, "run")
    /\ call' = [call EXCEPT ![c] = None]
    /\ UNCHANGED <<k, popped, buf, received>>

\* Variant: wakes a receiver only for the first message of an empty buffer.
InHandlerCallEdge(r) ==
    LET wakes == Count(buf) = 0
    IN /\ Transfer(r)
       /\ k' \in IF wakes THEN InHandler(Woken(Others(r)), Urgent(Others(r))) ELSE {k}
       /\ UNCHANGED <<pc, popped, call>>

\* The calls of handlers, with Ticks(0).
InHandlerCall(r) ==
    /\ Transfer(r)
    /\ k' \in InHandler(Woken(Others(r)), Urgent(Others(r)))
    /\ UNCHANGED <<pc, popped, call>>

-----------------------------------------------------------------------------
ChannelInit ==
    /\ buf = EmptyBuffer
    /\ call = [t \in Thread |-> None]
    /\ received = None

ChannelCall(c) == (\E r \in Calls : Start(c, r)) \/ Retry(c) \/ GiveUp(c)
ChannelNext(users) ==
    \/ \E c \in users : ChannelCall(c)
    \/ \E r \in Calls : InHandlerCall(r)

-----------------------------------------------------------------------------
ChannelType ==
    /\ call \in [Thread -> Calls \cup {None}]
    /\ Sound(buf) /\ Contents(buf) \in Seq(Msg)
    /\ received \in Msg \cup {None}

\* Each message is received once, in order, whoever blocks, retries, times out or is
\* suspended meanwhile.
Abstract == INSTANCE Deque WITH contents <- Contents(buf)
IsDeque == Abstract!Spec

\* The doc of recv: a woken receiver looks again, so that no message is left behind.
\* While a receiver waits there are no more messages than woken receivers on their way,
\* and while a sender waits no more free places than woken senders.
OnTheWay(q) == {t \in Thread : call[t] # None /\ Own(call[t]) = q /\ Served(t)}
NoneStranded ==
    /\ k.wq[Receivers] # <<>> => Count(buf) <= Cardinality(OnTheWay(Receivers))
    /\ k.wq[Senders] # <<>> => Capacity - Count(buf) <= Cardinality(OnTheWay(Senders))
=============================================================================
