------------------------------- MODULE Zmodem -------------------------------
(***************************************************************************)
(* A ZMODEM session between send_session and receive_session (src/zmodem.rs) *)
(* as cmd_sz and cmd_rz run them (src/shell/zmodem.rs): the two ends and the *)
(* bytes on their way, a sequence of headers and blocks for each direction.  *)
(* The line keeps the order; it may lose or damage a header or a block.  An   *)
(* end acts when something arrives or when it has waited in vain.             *)
(*                                                                           *)
(* A file is a number of subpackets.  Bytes and checksums are left out: a     *)
(* block is what was sent, or it is damaged, which its checksum shows.        *)
(***************************************************************************)
EXTENDS Integers, Sequences, FiniteSets

CONSTANTS Batches,        \* sequences of the sizes of files to send
          Room,           \* subpackets that the receiver's buffer holds
          MaxErrors,      \* MAX_ERRORS
          InitAttempts,   \* INIT_ATTEMPTS
          MaxResends,     \* how often ZRQINIT is sent again
          MaxFaults       \* bound: losses, damages, early timeouts

VARIABLES toR, toS,       \* what is on its way to the receiver and to the sender
          batch, s, r,    \* the files; the two ends (`asked`: the last header was
                          \* answered by the position that is wanted; `deaf`: the
                          \* sender's cancel was lost)
          stored,         \* what the receiver's file system got
          faults
vars == <<toR, toS, batch, s, r, stored, faults>>

ZmodemAssumption == MaxErrors \in Nat /\ InitAttempts \in Nat \ {0} /\ Room \in Nat

-----------------------------------------------------------------------------
(* The line. *)
Hdr(t, pos) == <<[t |-> t, pos |-> pos, file |-> 0, end |-> "none"]>>
Block(t, f, pos, end) == <<[t |-> t, pos |-> pos, file |-> f, end |-> end]>>
Blocks == {"data", "info", "rest", "badblock"}
Cancel == Hdr("CAN", 0)

Over(end) == end.pc \in {"ok", "failed"}
Size(f) == batch[f]

Fault == faults < MaxFaults /\ faults' = faults + 1

\* The sender goes on as `end` and sends `items`; the receiver likewise.  An
\* end that is over does not read, and what was on its way to it is lost.
Sender(end, items) == s' = end /\ toR' = IF Over(r) THEN <<>> ELSE toR \o items
Receiver(end, items) == r' = end /\ toS' = IF Over(s) THEN <<>> ELSE toS \o items

\* finish(): an end that fails tells the other one.
SenderFails(why) == Sender([s EXCEPT !.pc = "failed", !.why = why], Cancel)
ReceiverFails(why) == Receiver([r EXCEPT !.pc = "failed", !.why = why], Cancel)
-----------------------------------------------------------------------------
(* The sender.  Each operator is what it does next, up to where it waits.  *)

\* Positions at which the user's ESC is looked for.
SenderAt(end, items) ==
  Sender(end, items) \/ SenderFails("abort")

SayBye == Sender([s EXCEPT !.pc = "bye", !.attempt = 1], Hdr("ZFIN", 0))

\* send_one: ZFILE with its block, sent once.
SendOne(f) ==
  IF f > Len(batch) THEN SayBye
  ELSE SenderAt([s EXCEPT !.pc = "one", !.file = f, !.errors = 0],
                Hdr("ZFILE", 0) \o Block("info", f, Size(f), "W"))

\* One subpacket; the last one is empty and is followed by ZEOF.  Reading the
\* file may fail.
SendData(pos) ==
  LET more == pos < Size(s.file)
  IN \/ SenderAt([s EXCEPT !.pc = IF more THEN "ack" ELSE "eof", !.errors = 0,
                           !.sent = IF more THEN pos + 1 ELSE pos],
                 Hdr("ZDATA", pos)
                 \o Block("data", s.file, pos, IF more THEN "W" ELSE "E")
                 \o (IF more THEN <<>> ELSE Hdr("ZEOF", pos)))
     \/ more /\ SenderFails("file")

InitAgain(reply) ==
  IF s.attempt = InitAttempts THEN SenderFails("timeout")
  ELSE LET again == s.resends < MaxResends
       IN SenderAt([s EXCEPT !.attempt = @ + 1, !.resends = IF again THEN @ + 1 ELSE @],
                   reply \o (IF again THEN Hdr("ZRQINIT", 0) ELSE <<>>))

\* A step that counts against MAX_ERRORS and goes on waiting.
SenderErrs(reply) ==
  IF s.errors >= MaxErrors THEN SenderFails("errors")
  ELSE SenderAt([s EXCEPT !.errors = @ + 1], reply)
SenderWaits == SenderAt(s, <<>>)
Refused == SenderFails("cancelled")
Protocol == SenderFails("protocol")

SInit(h) ==
  CASE h.t = "ZRINIT" -> SendOne(1)
    [] h.t = "CAN" -> Refused
    [] OTHER -> InitAgain(Hdr("ZNAK", 0))

SOne(h) ==
  CASE h.t = "ZRPOS" -> SendData(h.pos)
    [] h.t = "ZSKIP" -> SendOne(s.file + 1)
    [] h.t = "ZRINIT" -> SenderWaits
    [] h.t \in {"CAN", "ZFIN"} -> Refused
    [] OTHER -> SenderErrs(<<>>)

WaitAck(h) ==
  CASE h.t = "ZACK" /\ h.pos = s.sent -> SendData(s.sent)
    [] h.t = "ZACK" /\ h.pos # s.sent -> SenderErrs(<<>>)
    [] h.t = "ZRPOS" -> SendData(h.pos)
    [] h.t \in {"ZRINIT", "ZSKIP"} -> Protocol
    [] h.t \in {"CAN", "ZFIN"} -> Refused
    [] OTHER -> SenderErrs(Hdr("ZNAK", 0))

WaitEof(h) ==
  CASE h.t = "ZACK" -> SenderAt(s, Hdr("ZEOF", s.sent))
    [] h.t = "ZRPOS" -> SendData(h.pos)
    [] h.t \in {"ZRINIT", "ZSKIP"} -> SendOne(s.file + 1)
    [] h.t \in {"CAN", "ZFIN"} -> Refused
    [] OTHER -> SenderErrs(Hdr("ZEOF", s.sent))

SayByeAgain(h) ==
  CASE h.t = "ZFIN" -> Sender([s EXCEPT !.pc = "ok"], Hdr("OO", 0))
    [] h.t = "CAN" \/ s.attempt = 3 -> Sender([s EXCEPT !.pc = "ok"], <<>>)
    [] OTHER -> Sender([s EXCEPT !.attempt = @ + 1], Hdr("ZFIN", 0))

SRead ==
  /\ ~Over(s) /\ toS # <<>>
  /\ LET h == Head(toS)
     IN IF h.t = "bad" THEN SenderFails("crc")
        ELSE \/ s.pc = "init" /\ SInit(h)
             \/ s.pc = "one" /\ SOne(h)
             \/ s.pc = "ack" /\ WaitAck(h)
             \/ s.pc = "eof" /\ WaitEof(h)
             \/ s.pc = "bye" /\ SayByeAgain(h)
  /\ toS' = IF Over(s') THEN <<>> ELSE Tail(toS)
  /\ UNCHANGED <<r, batch, stored, faults>>

\* Nothing came for the whole timeout: nothing is on its way, or it is late.
Silence == IF toR = <<>> /\ toS = <<>> THEN UNCHANGED faults ELSE Fault

STimeout ==
  /\ ~Over(s) /\ toS = <<>> /\ Silence
  /\ CASE s.pc = "init" -> InitAgain(<<>>)
       [] s.pc \in {"one", "ack"} -> SenderErrs(<<>>)
       [] s.pc = "eof" -> SenderErrs(Hdr("ZEOF", s.sent))
       [] s.pc = "bye" -> Sender([s EXCEPT !.pc = "ok"], <<>>)
  /\ UNCHANGED <<toS, r, batch, stored>>
-----------------------------------------------------------------------------
(* The receiver. *)
ReceiverAt(end, items) == Receiver(end, items) \/ ReceiverFails("abort")

\* try_init: one attempt more, and ZRINIT again.
TryInit(end, reply) ==
  IF end.attempt = InitAttempts THEN ReceiverFails("timeout")
  ELSE ReceiverAt([end EXCEPT !.pc = "init", !.attempt = @ + 1], reply \o Hdr("ZRINIT", 0))

\* receive_file, 'top: the errors are counted from zero again.
Top(end) == ReceiverAt([end EXCEPT !.pc = "head", !.errors = 0, !.asked = FALSE], Hdr("ZRPOS", Len(end.got)))
ReceiverErrs(why, Go(_)) ==
  IF r.errors >= MaxErrors THEN ReceiverFails(why) ELSE Go([r EXCEPT !.errors = @ + 1])
AskAgain(end) == Receiver([end EXCEPT !.asked = TRUE], Hdr("ZRPOS", Len(end.got)))
ReadOn(end) == Receiver(end, <<>>)

\* A header while waiting for a file.
RInit(h) ==
  CASE h.t = "ZFILE" -> Receiver([r EXCEPT !.pc = "info"], <<>>)
    [] h.t = "ZFIN" -> Receiver([r EXCEPT !.pc = "bye"], Hdr("ZFIN", 0))
    [] h.t = "CAN" -> ReceiverFails("cancelled")
    [] OTHER -> TryInit(r, <<>>)

\* The block of a ZFILE: the file is taken or skipped.
ReadInfo(b) ==
  IF b.t # "info" THEN ReceiverFails(IF b.t = "CAN" THEN "cancelled" ELSE "crc")
  ELSE IF b.pos <= Room
       THEN Top([r EXCEPT !.file = b.file, !.got = <<>>])
       ELSE TryInit(r, Hdr("ZSKIP", 0))

\* Data are taken wherever they start.
RHeadAnywhere(h) ==
  CASE h.t = "ZDATA" -> Receiver([r EXCEPT !.pc = "data", !.asked = FALSE], <<>>)
    [] h.t = "ZEOF" /\ h.pos = Len(r.got) ->
         TryInit([r EXCEPT !.attempt = 0], <<>>) \/ ReceiverFails("file")
    [] h.t = "ZEOF" /\ h.pos # Len(r.got) -> ReceiverErrs("errors", AskAgain)
    [] h.t = "ZFILE" -> Receiver([r EXCEPT !.pc = "again"], <<>>)
    [] h.t = "CAN" -> ReceiverFails("cancelled")
    [] OTHER -> ReceiverErrs("errors", ReadOn)

\* A header of a file: data, its end, or something that restarts it.
RHead(h) ==
  CASE h.t = "ZDATA" /\ h.pos = Len(r.got) -> Receiver([r EXCEPT !.pc = "data", !.asked = FALSE], <<>>)
    [] h.t = "ZDATA" /\ h.pos # Len(r.got) -> ReceiverErrs("errors", AskAgain)
    [] h.t = "ZEOF" /\ h.pos = Len(r.got) ->
         \/ TryInit([r EXCEPT !.attempt = 0], <<>>)
         \/ ReceiverFails("file")
    [] h.t = "ZEOF" /\ h.pos # Len(r.got) -> ReceiverErrs("errors", AskAgain)
    [] h.t = "ZFILE" -> Receiver([r EXCEPT !.pc = "again"], <<>>)
    [] h.t = "ZNAK" -> ReceiverErrs("errors", Top)
    [] h.t = "CAN" -> ReceiverFails("cancelled")
    [] h.t = "ZFIN" -> ReceiverFails("protocol")
    [] OTHER -> ReceiverErrs("errors", ReadOn)

\* A block of data.
RData(b) ==
  CASE b.t = "data" /\ (b.end = "W" => Len(r.got) < Room) ->
         LET end == [r EXCEPT !.got = IF b.end = "E" THEN @ ELSE Append(@, <<b.file, b.pos>>),
                              !.pc = "head"]
         IN Receiver(end, IF b.end = "W" THEN Hdr("ZACK", Len(end.got)) ELSE <<>>)
    [] b.t = "CAN" -> ReceiverFails("cancelled")
    [] OTHER -> ReceiverErrs("errors", Top)

\* Where a header is expected, blocks are skipped as garbage, but for the
\* sequence that ends a block with ZCRCW: its CAN makes it an error.
RHeader ==
  LET h == Head(toR)
  IN CASE h.t \in Blocks /\ h.end = "W" -> ReceiverFails("canzcrcw")
       [] h.t \in Blocks /\ h.end # "W" -> Receiver(r, <<>>)
       [] h.t = "bad" -> ReceiverFails("crc")
       [] OTHER -> \/ r.pc = "init" /\ RInit(h)
                   \/ r.pc = "head" /\ RHead(h)

RRead ==
  /\ ~Over(r) /\ toR # <<>>
  /\ \/ r.pc \in {"init", "head"} /\ RHeader
     \/ r.pc = "info" /\ ReadInfo(Head(toR))
     \/ r.pc = "again" /\ Top(r)
     \/ r.pc = "data" /\ RData(Head(toR))
     \/ r.pc = "bye" /\ Receiver([r EXCEPT !.pc = "ok"],
                                  IF Head(toR).t = "OO" THEN <<>> ELSE Hdr("ZFIN", 0) \o Hdr("ZFIN", 0))
  /\ stored' = IF r.pc = "head" /\ Head(toR).t = "ZEOF" /\ Head(toR).pos = Len(r.got)
                  /\ r'.why # "file"
               THEN Append(stored, [file |-> r.file, data |-> r.got]) ELSE stored
  /\ toR' = IF Over(r') THEN <<>> ELSE Tail(toR)
  /\ UNCHANGED <<s, batch, faults>>

RTimeout ==
  /\ ~Over(r) /\ toR = <<>> /\ Silence
  /\ CASE r.pc \in {"init", "info"} -> ReceiverFails("timeout")
       [] r.pc \in {"head", "data"} -> ReceiverErrs("timeout", Top)
       [] r.pc = "again" -> Top(r)
       [] r.pc = "bye" -> Receiver([r EXCEPT !.pc = "ok"], <<>>)
  /\ UNCHANGED <<toR, s, batch, stored>>
-----------------------------------------------------------------------------
(* The line loses or damages what arrives next, the CAN x 5 of an end that    *)
(* gives up as well.  A block that is damaged so that reading stops before    *)
(* its end leaves a rest; fewer CANs are garbage to who waits for a header,   *)
(* and an error to who reads a block.                                         *)
Damaged(h) ==
  IF h.t \in {"data", "info"}
  THEN {Block("badblock", 0, 0, h.end), Block("badblock", 0, 0, "E") \o Block("rest", 0, 0, h.end)}
  ELSE IF h.t = "CAN" THEN {Block("rest", 0, 0, "E")} ELSE {Hdr("bad", 0)}
Line(c) ==
  /\ c # <<>> /\ Head(c).t \notin {"bad", "badblock", "rest"}
  /\ Fault
LineToR ==
  /\ Line(toR)
  /\ \E h \in {<<>>} \cup Damaged(Head(toR)) : toR' = h \o Tail(toR)
  /\ r' = [r EXCEPT !.deaf = Head(toR).t = "CAN"]
  /\ UNCHANGED <<toS, batch, s, stored>>
LineToS ==
  /\ Line(toS)
  /\ \E h \in {<<>>} \cup (IF Head(toS).t = "CAN" THEN {} ELSE {Hdr("bad", 0)}) :
       toS' = h \o Tail(toS)
  /\ UNCHANGED <<toR, batch, s, r, stored>>
-----------------------------------------------------------------------------
Init ==
  /\ batch \in Batches
  /\ toR \in {<<>>, Hdr("ZRQINIT", 0)} /\ toS = Hdr("ZRINIT", 0)
  /\ s = [pc |-> "init", file |-> 0, sent |-> 0, errors |-> 0, attempt |-> 1, resends |-> 0,
          why |-> "none"]
  /\ r = [pc |-> "init", file |-> 0, got |-> <<>>, errors |-> 0, attempt |-> 1, why |-> "none",
          asked |-> FALSE, deaf |-> FALSE]
  /\ stored = <<>> /\ faults = 0

Next == SRead \/ STimeout \/ RRead \/ RTimeout \/ LineToR \/ LineToS
Spec == Init /\ [][Next]_vars

\* Both ends go on, but nobody has to press ESC.
NoEsc == /\ s'.why = "abort" => s.why = "abort"
         /\ r'.why = "abort" => r.why = "abort"
FairSpec == /\ Spec
            /\ WF_vars(SRead /\ NoEsc) /\ WF_vars(STimeout /\ NoEsc)
            /\ WF_vars(RRead /\ NoEsc) /\ WF_vars(RTimeout /\ NoEsc)
-----------------------------------------------------------------------------
Content(f) == [i \in 1..Size(f) |-> <<f, i - 1>>]
Skipped(f) == Size(f) > Room

(* What the receiver stores is what the sender read, whatever was lost or     *)
(* damaged on the line: whole files, in order, each one once.                 *)
CommittedExact ==
  /\ \A i \in DOMAIN stored : stored[i].data = Content(stored[i].file)
  /\ \A i, j \in DOMAIN stored : i < j => stored[i].file < stored[j].file

(* The sender goes on to the next file, and reports success, only when the    *)
(* file it leaves was stored or refused: no reply to an earlier header is     *)
(* taken for the end of this file (send_one, ZEOF).                           *)
SuccessMeansStored ==
  \A f \in DOMAIN batch :
    f < s.file \/ s.pc \in {"bye", "ok"} => Skipped(f) \/ \E i \in DOMAIN stored : stored[i].file = f

(* Whatever the line did, the sender comes to an end, for it waits in vain    *)
(* only so often; and so does the receiver, unless it is in the middle of a   *)
(* file and the sender's cancel was lost.  Then it asks again for ever, since *)
(* its errors are counted anew each time (zmodem.rs:1147).                    *)
Ended == Over(s) /\ (Over(r) \/ (r.deaf /\ r.pc \in {"head", "data"}))

(* zmodem.rs:1198: a position that does not match is answered by asking for   *)
(* the right one, and the transfer goes on.  Not so when the block that is    *)
(* skipped then ends with ZCRCW, which is taken for an error (README).        *)
MismatchResumes == ~(r.asked /\ r.why = "canzcrcw")
=============================================================================
