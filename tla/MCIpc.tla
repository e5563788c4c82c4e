------------------------------- MODULE MCIpc -------------------------------
(* Instances of Ipc for TLC: the channel is a mailbox and a message queue at once. *)
EXTENDS Ipc, Buffers

CONSTANTS ta, tb, idle, x, y

\* One thread that is more urgent than the other.
BaseAB == ta :> 0 @@ tb :> 1 @@ idle :> 2

\* Two threads, and handlers, contend for each object.
UserAll == [o \in {"semaphore", "event", "channel"} |-> {ta, tb}]
UserSem == [semaphore |-> {ta, tb}]

\* AND and OR, with and without clearing, of one bit and of two.
Ask(w, all, clear) == [wanted |-> w, all |-> all, clear |-> clear]
Requests == {Ask({x, y}, TRUE, TRUE), Ask({x, y}, FALSE, TRUE), Ask({x}, TRUE, FALSE)}
=============================================================================
