------------------------------- MODULE UartRx -------------------------------
(***************************************************************************)
(* Receiving on the console's UART: the interrupt handler that fills the   *)
(* ring (src/uart.rs), the notification it calls (src/notify.rs), the      *)
(* blocking reads (src/uart_rtos.rs) and what a ZMODEM session and its end *)
(* read (src/shell/zmodem.rs).  One core: the handler is one step for the  *)
(* thread that reads, and comes between any two of the thread's accesses.  *)
(* The semaphore is taken for what Semaphore promises.                     *)
(***************************************************************************)
EXTENDS Integers, Sequences

CONSTANTS RxBufSize,  \* RX_BUF_SIZE, a power of two
          EscBytes,   \* the numbers of the bytes that are ESC
          Timeout,    \* of a timed read, in ticks
          MaxBytes,   \* bound: bytes that arrive, numbered from 1
          MaxErrors   \* bound: bytes that arrive with a parity or framing error

RxAssumption == RxBufSize \in Nat \ {0, 1} /\ Timeout \in Nat

VARIABLES sr, rdr,              \* status and data register: a subset of {"RXNE", "ERR", "ORE"}
          buf, head, tail,      \* RxRing
          dropped, errors,      \* counters
          notify, ready,        \* a callback is installed; tokens of RX_READY
          pc, op, byte, left,   \* the reader: where, in which call, with which byte, ticks left
          pending, out,         \* UartPort.pending; the bytes that were consumed
          accepted, next        \* the bytes that entered the ring; the next byte to arrive
ringVars == <<buf, head, tail, dropped, accepted>>
lineVars == <<sr, rdr, errors, next>>
rxVars == <<lineVars, ringVars, notify, ready, pc, op, byte, left, pending, out>>

NoByte == 0
Wrap(i) == i % RxBufSize
-----------------------------------------------------------------------------
(* The line and the handler. *)

\* A byte that arrives while the last one is still in RDR is lost (overrun).
Arrive ==
  /\ next <= MaxBytes
  /\ next' = next + 1
  /\ IF "RXNE" \in sr
     THEN sr' = sr \cup {"ORE"} /\ UNCHANGED rdr
     ELSE /\ rdr' = next
          /\ \/ sr' = sr \cup {"RXNE"}
             \/ next <= MaxErrors /\ sr' = sr \cup {"RXNE", "ERR"}
  /\ UNCHANGED <<errors, ringVars, notify, ready, pc, op, byte, left, pending, out>>

\* push: the newest byte is dropped when the ring is full.
Full == Wrap(head + 1) = tail
\* A full ring is written all the same.
PushAlways(b) ==
  /\ buf' = [buf EXCEPT ![head] = b]
  /\ head' = Wrap(head + 1)
  /\ accepted' = Append(accepted, b)
  /\ UNCHANGED <<tail, dropped>>
Push(b) ==
  IF Full
  THEN dropped' = dropped + 1 /\ UNCHANGED <<buf, head, tail, accepted>>
  ELSE /\ buf' = [buf EXCEPT ![head] = b]
       /\ head' = Wrap(head + 1)
       /\ accepted' = Append(accepted, b)
       /\ UNCHANGED <<tail, dropped>>

\* Nobody sleeps: the notification is dropped.
NotifiedAsleep(pushed) ==
  IF ~(pushed /\ notify /\ pc = "asleep") THEN UNCHANGED <<ready, pc>>
  ELSE pc' = "head" /\ UNCHANGED ready
\* rx_notify: a reader that sleeps is woken, else the token waits.
Notified(pushed) ==
  IF ~(pushed /\ notify) THEN UNCHANGED <<ready, pc>>
  ELSE IF pc = "asleep" THEN pc' = "head" /\ UNCHANGED ready
  ELSE ready' = 1 /\ UNCHANGED pc

\* rx_irq_handler: a byte with an error is discarded, and so is the good byte
\* in RDR when the one after it was lost.
RxIrq ==
  /\ sr # {}
  /\ sr' = {} /\ rdr' = NoByte
  /\ errors' = errors + (IF "ERR" \in sr THEN 1 ELSE 0) + (IF "ORE" \in sr THEN 1 ELSE 0)
  /\ IF sr = {"RXNE"}
     THEN Push(rdr) /\ Notified(~Full)
     ELSE UNCHANGED <<ringVars, ready, pc>>
  /\ UNCHANGED <<next, notify, op, byte, left, pending, out>>
-----------------------------------------------------------------------------
(* The reader. *)
Goto(where) == pc' = where
Consume(bytes) == out' = out \o bytes

\* read_rx_blocking: the notification is installed before the ring is looked at.
ReadBlocking ==
  /\ pc = "idle" /\ pending = NoByte
  /\ op' = "blocking" /\ notify' = TRUE /\ Goto("head")
  /\ UNCHANGED <<lineVars, ringVars, ready, byte, left, pending, out>>

\* UartPort::read_timeout and read_rx_timeout_ms.
ReadTimeout ==
  /\ pc = "idle"
  /\ IF pending # NoByte
     THEN /\ Consume(<<pending>>) /\ pending' = NoByte
          /\ op' = "none" /\ UNCHANGED <<pc, notify, left>>
     ELSE /\ op' = "timed" /\ notify' = TRUE /\ left' = Timeout /\ Goto("head")
          /\ UNCHANGED <<pending, out>>
  /\ UNCHANGED <<lineVars, ringVars, ready, byte>>

\* abort_requested looks at one byte and keeps it when it is not ESC.  Between
\* two of these calls a session reads.
AbortRequested ==
  /\ pc = "idle" /\ op # "abort"
  /\ op' = "abort"
  /\ IF pending = NoByte THEN Goto("head") /\ UNCHANGED <<pending, out>>
     ELSE /\ UNCHANGED pc
          /\ IF pending \in EscBytes THEN Consume(<<pending>>) /\ pending' = NoByte
             ELSE UNCHANGED <<pending, out>>
  /\ UNCHANGED <<lineVars, ringVars, notify, ready, byte, left>>

\* drain_input: everything that is in the ring goes, and the counters.
DrainInput ==
  /\ pc = "idle" /\ op # "drain" /\ pending = NoByte
  /\ op' = "drain" /\ Goto("head")
  /\ UNCHANGED <<lineVars, ringVars, notify, ready, byte, left, pending, out>>

\* pop: head is read, then the byte, then the place is given back.
PopHead ==
  /\ pc = "head"
  /\ IF tail # head THEN Goto("byte") /\ UNCHANGED <<dropped, errors>>
     ELSE CASE op = "blocking" -> Goto("take") /\ UNCHANGED <<dropped, errors>>
            [] op = "timed" -> Goto(IF left = 0 THEN "idle" ELSE "take") /\ UNCHANGED <<dropped, errors>>
            [] op \in {"final", "abort"} -> Goto("idle") /\ UNCHANGED <<dropped, errors>>
            [] op = "drain" -> Goto("idle") /\ dropped' = 0 /\ errors' = 0
  /\ UNCHANGED <<sr, rdr, next, buf, head, tail, accepted, notify, ready, op, byte, left, pending, out>>

PopByte ==
  /\ pc = "byte"
  /\ byte' = buf[tail]
  /\ Goto("tail")
  /\ UNCHANGED <<lineVars, ringVars, notify, ready, op, left, pending, out>>

PopTail ==
  /\ pc = "tail"
  /\ tail' = Wrap(tail + 1)
  /\ IF op = "abort" /\ byte \notin EscBytes
     THEN pending' = byte /\ UNCHANGED out
     ELSE Consume(<<byte>>) /\ UNCHANGED pending
  /\ Goto(IF op = "drain" THEN "head" ELSE "idle")
  /\ UNCHANGED <<lineVars, buf, head, dropped, accepted, notify, ready, op, byte, left>>

\* take(): the token, or sleep.
Take ==
  /\ pc = "take"
  /\ IF ready = 1 THEN ready' = 0 /\ Goto("head") ELSE Goto("asleep") /\ UNCHANGED ready
  /\ UNCHANGED <<lineVars, ringVars, notify, op, byte, left, pending, out>>

\* A tick; with the last one a sleeping timed read wakes and looks once more.
Tick ==
  /\ op = "timed" /\ pc # "idle" /\ left > 0
  /\ left' = left - 1
  /\ IF pc = "asleep" /\ left = 1
     THEN op' = "final" /\ Goto("head")
     ELSE UNCHANGED <<op, pc>>
  /\ UNCHANGED <<lineVars, ringVars, notify, ready, byte, pending, out>>

Reader == \/ ReadBlocking \/ ReadTimeout \/ AbortRequested \/ DrainInput
          \/ PopHead \/ PopByte \/ PopTail \/ Take
-----------------------------------------------------------------------------
RxInit ==
  /\ sr = {} /\ rdr = NoByte
  /\ buf = [i \in 0..(RxBufSize - 1) |-> NoByte] /\ head = 0 /\ tail = 0
  /\ dropped = 0 /\ errors = 0
  /\ notify = FALSE /\ ready = 0
  /\ pc = "idle" /\ op = "none" /\ byte = NoByte /\ left = 0
  /\ pending = NoByte /\ out = <<>>
  /\ accepted = <<>> /\ next = 1

RxNext == Arrive \/ RxIrq \/ Reader \/ Tick
RxSpec == RxInit /\ [][RxNext]_rxVars
RxFair == WF_rxVars(RxIrq) /\ WF_rxVars(Reader) /\ WF_rxVars(Tick)
-----------------------------------------------------------------------------
Count == (head - tail) % RxBufSize
Contents == [i \in 1..Count |-> buf[Wrap(tail + i - 1)]]
Kept == IF pending = NoByte THEN <<>> ELSE <<pending>>

(* Every byte that entered the ring is consumed once and in order, however    *)
(* the handler comes between the steps of a read, and the byte a read holds   *)
(* before it gives its place back is the one it will consume (uart.rs: the    *)
(* single producer and the single consumer need no lock).                     *)
RxInOrder ==
  /\ out \o Kept \o Contents = accepted
  /\ pc = "tail" => byte = Head(Contents)

(* The bytes in the ring are all read in the end: no read sleeps although a byte came *)
(* before it slept, and no token is lost (uart_rtos.rs: the notification is   *)
(* installed before the ring is looked at).                                   *)
AllTaken == Len(out) + Len(Kept) = Len(accepted)
=============================================================================
