------------------------------ MODULE KeyInput ------------------------------
(***************************************************************************)
(* What the editor reads (src/shell/editor.rs): the bytes that the shell   *)
(* left, the question to the terminal for its size and the search for the  *)
(* answer among what is typed, and the decoding of keys.  A byte is        *)
(* [ch |-> what it is, unit |-> the key it belongs to]; the code looks at  *)
(* `ch` alone.  Unit 0 is the terminal's answer.  The bytes of a unit      *)
(* come without a pause, except where the answer was cut by the deadline.  *)
(***************************************************************************)
EXTENDS Integers, Sequences, SequencesExt

CONSTANTS Typed,       \* what users type: sequences of keys, each a sequence of `ch`
          Answers,     \* what the terminal may answer
          Capacity,    \* PENDING_RX_CAPACITY
          ReportCap,   \* CURSOR_REPORT_CAPACITY
          ProbeMax,    \* TERMINAL_PROBE_MAX_BYTES
          CsiMax,      \* parameters of a sequence that are read, and that are skipped after them
          TailMax

VARIABLES want,          \* the bytes that the user types
          rx,            \* sent, not yet read from the UART
          pending,       \* PendingRx
          candidate,     \* what may be the beginning of the answer
          phase, count,  \* of the session; turns of the probe's loop
          lost,          \* input_lost
          partial, keys, \* the key that is being read; the keys that were
          gap            \* how many bytes were still to come at the deadline
inputVars == <<want, rx, pending, candidate, phase, count, lost, partial, keys, gap>>

Units(u) == FlattenSeq([i \in DOMAIN u |-> [j \in DOMAIN u[i] |-> [ch |-> u[i][j], unit |-> i]]])
Answer(a) == [j \in DOMAIN a |-> [ch |-> a[j], unit |-> 0]]
Chars(bytes) == [i \in DOMAIN bytes |-> bytes[i].ch]

\* Between two bytes of one unit no time passes.
Pause(before, after) ==
  (before # <<>> /\ after # <<>> /\ Len(after) # gap) => Last(before).unit # Head(after).unit

\* PendingRx
Remaining(q) == Capacity - Len(q)
PopFront(q) == Tail(q)
PushFront(q, b) == IF Remaining(q) = 0 THEN q ELSE <<b>> \o q
PushBack(q, b) == IF Remaining(q) = 0 THEN q ELSE Append(q, b)
ReplayBytes(q, bytes) == SubSeq(q \o bytes, 1, IF Len(q \o bytes) > Capacity THEN Capacity ELSE Len(q \o bytes))

Start == {"esc", "csi"}
Digit == {"d"}
Final == {"[", "O", "A", "R", "a"}   \* bytes from 0x40 to 0x7e
-----------------------------------------------------------------------------
(* detect_screen_size *)

\* parse_cursor_report: rows and columns between the introducer and R.
Parsed(c) ==
  LET intro == IF c[1] = "csi" THEN 1 ELSE 2
      from == {i \in intro + 1 .. Len(c) : c[i] \in Final}
      rows == {i \in intro + 1 .. Len(c) : c[i] = ";"}
      Digits(a, b) == a <= b /\ \A i \in a .. b : c[i] \in Digit
  IN IF c[1] = "esc" /\ Len(c) > 1 /\ c[2] # "[" THEN "not"
     ELSE IF from = {} THEN "incomplete"
     ELSE IF from # {Len(c)} \/ Last(c) # "R" THEN "not"
     ELSE IF \E i \in rows : Digits(intro + 1, i - 1) /\ Digits(i + 1, Len(c) - 1) THEN "complete"
     ELSE "invalid"

\* What arrived so far is taken first; then the terminal is asked.
DrainRx ==
  /\ phase = "drain" /\ rx # <<>> /\ Remaining(pending) # 0
  /\ pending' = PushBack(pending, Head(rx)) /\ rx' = Tail(rx)
  /\ UNCHANGED <<want, candidate, phase, count, lost, partial, keys, gap>>
AskTerminal ==
  /\ phase = "drain"
  /\ IF Remaining(pending) < ReportCap THEN phase' = "edit" /\ UNCHANGED rx
     ELSE /\ phase' = "probe"
          /\ \/ UNCHANGED rx
             \/ \E a \in Answers, i \in 0 .. Len(rx) :
                  /\ Pause(pending \o SubSeq(rx, 1, i), SubSeq(rx, i + 1, Len(rx)))
                  /\ rx' = SubSeq(rx, 1, i) \o Answer(a) \o SubSeq(rx, i + 1, Len(rx))
  /\ UNCHANGED <<want, pending, candidate, count, lost, partial, keys, gap>>

Found(c, b, next) ==
  LET all == Append(c, b)
      restart == b.ch \in Start
      replayed == ReplayBytes(pending, IF restart THEN c ELSE all)
      parsed == Parsed(Chars(all))
  IN \/ /\ parsed = "incomplete"
        /\ candidate' = all /\ UNCHANGED <<pending, phase>>
     \/ /\ parsed = "complete"  \* the size may be out of range
        /\ candidate' = <<>> /\ phase' \in {next, "left"} /\ UNCHANGED pending
     \/ /\ parsed = "invalid"
        /\ candidate' = <<>> /\ phase' = next /\ UNCHANGED pending
     \/ /\ parsed = "not" /\ UNCHANGED phase
        /\ IF restart /\ Remaining(replayed) >= ReportCap
           THEN candidate' = <<b>> /\ pending' = replayed
           ELSE /\ candidate' = <<>>
                /\ pending' = IF restart THEN PushBack(replayed, b) ELSE replayed

ProbeDone ==
  \/ count = ProbeMax
  \/ Len(candidate) = ReportCap
  \/ candidate = <<>> /\ Remaining(pending) < ReportCap
ProbeByte ==
  /\ phase = "probe" /\ ~ProbeDone /\ rx # <<>>
  /\ rx' = Tail(rx) /\ count' = count + 1
  /\ LET b == Head(rx)
     IN IF candidate # <<>> THEN Found(candidate, b, "edit")
        ELSE /\ IF b.ch \in Start THEN candidate' = <<b>> /\ UNCHANGED pending
                                  ELSE pending' = PushBack(pending, b) /\ UNCHANGED candidate
             /\ UNCHANGED phase
  /\ UNCHANGED <<want, lost, partial, keys, gap>>

\* Enough bytes, no room, or 200 ms are over: at any byte.
ProbeEnd ==
  /\ phase = "probe" /\ phase' = "edit"
  /\ lost' = (lost \/ candidate # <<>>)
  /\ pending' = ReplayBytes(pending, candidate) /\ candidate' = <<>>
  /\ gap' = IF candidate # <<>> THEN Len(rx) ELSE -1
  /\ UNCHANGED <<want, rx, count, partial, keys>>
-----------------------------------------------------------------------------
(* KeyReader: the bytes kept first, then those of the UART. *)
Intro == IF partial[1].ch = "csi" THEN 1 ELSE 2
Done(bytes) == keys' = Append(keys, bytes) /\ partial' = <<>>
More(bytes) == partial' = bytes /\ UNCHANGED keys

Decode(b, kept) ==
  /\ pending' = kept
  /\ IF b.ch \in Start \cup {"cr"} THEN More(<<b>>) ELSE Done(<<b>>)
ReadCrLf(b, kept) ==
  /\ Done(IF b.ch = "lf" THEN Append(partial, b) ELSE partial)
  /\ pending' = IF b.ch = "lf" THEN kept ELSE PushFront(kept, b)
ReadEscape(b, kept) ==
  IF Len(partial) = 2 THEN Done(Append(partial, b)) /\ pending' = kept
  ELSE IF b.ch \in {"[", "O"} THEN More(Append(partial, b)) /\ pending' = kept
  ELSE Done(partial) /\ pending' = PushFront(kept, b)
\* After CsiMax bytes without an end, the rest is skipped: the whole is one unknown key.
DiscardCsiTail(b) ==
  IF b.ch \in Final \/ Len(partial) + 1 = Intro + CsiMax + TailMax
  THEN Done(Append(partial, b)) ELSE More(Append(partial, b))
ReadCsi(b, kept) ==
  /\ pending' = kept
  /\ IF Len(partial) - Intro < CsiMax /\ b.ch \in Final THEN Done(Append(partial, b))
     ELSE DiscardCsiTail(b)

ReadByte ==
  /\ phase = "edit" /\ pending \o rx # <<>>
  /\ LET b == Head(pending \o rx)
         kept == IF pending = <<>> THEN pending ELSE PopFront(pending)
     IN IF partial = <<>> THEN Decode(b, kept)
        ELSE IF partial[1].ch = "cr" THEN ReadCrLf(b, kept)
        ELSE IF partial[1].ch = "csi" \/ (Len(partial) > 1 /\ partial[2].ch = "[") THEN ReadCsi(b, kept)
        ELSE ReadEscape(b, kept)
  /\ rx' = IF pending = <<>> THEN Tail(rx) ELSE rx
  /\ UNCHANGED <<want, candidate, phase, count, lost, gap>>
ReadByteTimeout ==
  /\ phase = "edit" /\ partial # <<>> /\ pending = <<>> /\ Pause(partial, rx)
  /\ Done(partial)
  /\ UNCHANGED <<want, rx, pending, candidate, phase, count, lost, gap>>

\* run: at the end, or for a size out of range, the shell gets back what is left.
IntoPending ==
  /\ phase = "edit" /\ partial = <<>> /\ phase' = "left"
  /\ UNCHANGED <<want, rx, pending, candidate, count, lost, partial, keys, gap>>
-----------------------------------------------------------------------------
InputInit ==
  /\ \E u \in Typed, n \in {0, 1} :
       /\ want = Units(u) /\ n <= Len(want)
       /\ pending = SubSeq(want, 1, n) /\ rx = SubSeq(want, n + 1, Len(want))
  /\ candidate = <<>> /\ phase = "drain" /\ count = 0 /\ lost = FALSE
  /\ partial = <<>> /\ keys = <<>> /\ gap = -1
InputNext ==
  \/ DrainRx \/ AskTerminal \/ ProbeByte \/ ProbeEnd \/ ReadByte \/ ReadByteTimeout \/ IntoPending
-----------------------------------------------------------------------------
(* No byte that was typed is lost, doubled or reordered on its way through    *)
(* the probe, the bytes kept and the decoder, and back to the shell.          *)
BytesKept ==
  SelectSeq(FlattenSeq(keys) \o partial \o pending \o candidate \o rx, LAMBDA b : b.unit # 0) = want

(* Unless saving is prohibited, every key is one that was typed as a whole,   *)
(* and nothing of the terminal's answer, however late, is taken for text.     *)
KeysWhole ==
  lost \/ \A i \in DOMAIN keys :
            LET u == keys[i][1].unit
            IN IF u = 0 THEN Chars(keys[i]) \in Answers
               ELSE keys[i] = SelectSeq(want, LAMBDA b : b.unit = u)
=============================================================================
