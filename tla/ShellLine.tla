----------------------------- MODULE ShellLine -----------------------------
(***************************************************************************)
(* How the shell reads a line (src/shell.rs): bytes and their pauses, the  *)
(* escape sequences, editing within a buffer that may overflow, browsing   *)
(* the history, and what of it is executed and remembered; and the login   *)
(* before.  Beside the code's state stand what a line without a limit      *)
(* would hold, what the terminal shows, and all that was remembered.       *)
(***************************************************************************)
EXTENDS Integers, Sequences, SequencesExt

CONSTANTS Chars,       \* characters that are typed, " " among them
          LineBuf,     \* LINE_BUF
          Capacity,    \* HISTORY_CAPACITY
          LoginTries,  \* SHELL_LOGIN_TRIES
          MaxOver,     \* bound: characters beyond the buffer
          MaxNumber    \* bound: commands that are remembered

VARIABLES asks,                          \* for what a line is read: user, password or command
          tries,
          partial, pending,              \* a sequence that is not complete; PendingRx
          line, overflow, nonAscii,      \* read_line
          offset, draft,                 \* -1 for no offset
          corrupt,                       \* the UART's counters are not 0
          entries, start, len, number,   \* CommandHistory
          full, shown, past              \* beside the code
editVars == <<line, overflow, nonAscii, offset, draft, full, shown>>
historyVars == <<entries, start, len, number, past>>
lineVars == <<asks, tries, partial, pending, editVars, corrupt, historyVars>>

Masked == asks = "password"
NoLine == <<>>
Trim(text) ==
  LET solid == {i \in DOMAIN text : text[i] # " "}
  IN IF solid = {} THEN <<>>
     ELSE SubSeq(text, CHOOSE i \in solid : \A j \in solid : i <= j,
                       CHOOSE i \in solid : \A j \in solid : i >= j)
-----------------------------------------------------------------------------
(* CommandHistory *)
Index(i) == i % Capacity
Newest(k) == IF k >= len THEN NoLine ELSE entries[Index(start + len - 1 - k)].text
Remembered(command) ==
  IF command = <<>> \/ Newest(0) = command THEN UNCHANGED historyVars
  ELSE /\ entries' = [entries EXCEPT ![Index(start + len)] = [text |-> command, number |-> number]]
       /\ IF len = Capacity THEN start' = Index(start + 1) /\ UNCHANGED len
                            ELSE len' = len + 1 /\ UNCHANGED start
       /\ number' = number + 1
       /\ past' = Append(past, command)
Clear ==
  /\ start' = 0 /\ len' = 0 /\ number' = 1 /\ past' = <<>>
  /\ UNCHANGED entries
-----------------------------------------------------------------------------
(* Editing. *)
Typed(ch) ==
  /\ IF Len(line) < LineBuf /\ overflow = 0
     THEN line' = Append(line, ch) /\ shown' = Append(shown, ch) /\ UNCHANGED overflow
     ELSE overflow < MaxOver /\ overflow' = overflow + 1 /\ UNCHANGED <<line, shown>>
  /\ full' = Append(full, ch)
  /\ UNCHANGED <<nonAscii, offset, draft>>
\* Backspace takes a character of the line although others overflowed.
ErasedShort ==
  /\ IF line # <<>> THEN line' = Front(line) /\ shown' = Front(shown) ELSE UNCHANGED <<line, shown>>
  /\ full' = IF full = <<>> THEN full ELSE Front(full)
  /\ UNCHANGED <<overflow, nonAscii, offset, draft>>
\* What overflowed was not shown: its backspaces come first.
Erased ==
  /\ IF overflow > 0 THEN overflow' = overflow - 1 /\ UNCHANGED <<line, shown>>
     ELSE IF line # <<>> THEN line' = Front(line) /\ shown' = Front(shown) /\ UNCHANGED overflow
     ELSE UNCHANGED <<line, shown, overflow>>
  /\ full' = IF full = <<>> THEN full ELSE Front(full)
  /\ UNCHANGED <<nonAscii, offset, draft>>
Blank ==
  /\ line' = <<>> /\ shown' = <<>> /\ full' = <<>>
  /\ overflow' = 0 /\ nonAscii' = FALSE /\ offset' = -1 /\ draft' = <<>>
ReplaceInputLine(text) ==
  /\ line' = text /\ full' = text
  /\ shown' = SubSeq(shown, 1, Len(shown) - Len(line)) \o text

BrowseHistory(move) ==
  /\ \/ /\ move = "older" /\ Newest(offset + 1) # NoLine
        /\ draft' = IF offset = -1 THEN line ELSE draft
        /\ ReplaceInputLine(Newest(offset + 1)) /\ offset' = offset + 1
     \/ /\ move = "newer" /\ offset = 0
        /\ ReplaceInputLine(draft) /\ offset' = -1 /\ UNCHANGED draft
     \/ /\ move = "newer" /\ offset > 0
        /\ ReplaceInputLine(Newest(offset - 1)) /\ offset' = offset - 1 /\ UNCHANGED draft
     \/ /\ (move = "older" /\ Newest(offset + 1) = NoLine) \/ (move = "newer" /\ offset = -1)
        /\ UNCHANGED <<line, full, shown, draft, offset>>
  /\ UNCHANGED <<overflow, nonAscii>>
Browse(move) ==
  IF asks # "command" \/ overflow # 0 \/ move = "none" THEN UNCHANGED editVars
  ELSE BrowseHistory(move)
-----------------------------------------------------------------------------
(* The end of a line: rejected as a whole, or executed. *)
Rejected == overflow # 0 \/ nonAscii \/ corrupt

Dispatch ==
  /\ asks = "command"
  /\ IF Rejected \/ Trim(line) = <<>> THEN UNCHANGED <<asks, historyVars>>
     ELSE \/ number <= MaxNumber /\ Remembered(Trim(line)) /\ asks' \in {"command", "user"}
          \/ Clear /\ UNCHANGED asks   \* history -c
  /\ UNCHANGED tries
LoginUser ==
  /\ asks = "user"
  /\ \/ ~Rejected /\ asks' = "password" /\ UNCHANGED tries
     \/ asks' = "user" /\ tries' = (tries + 1) % LoginTries
  /\ UNCHANGED historyVars
LoginPassword ==
  /\ asks = "password"
  /\ \/ ~Rejected /\ asks' = "command" /\ tries' = 0
     \/ asks' = "user" /\ tries' = (tries + 1) % LoginTries
  /\ UNCHANGED historyVars
LineRead ==
  /\ Dispatch \/ LoginUser \/ LoginPassword
  /\ Blank /\ corrupt' = FALSE
-----------------------------------------------------------------------------
(* read_line: a byte that was put back comes first. *)
Rest == <<asks, tries, corrupt, historyVars>>
Next(b) == IF pending # <<>> THEN b = Head(pending) /\ pending' = <<>> ELSE UNCHANGED pending
Bytes == Chars \cup {"esc", "[", "up", "down", "cr", "lf", "bs", "^C", "high", "csi"}

ReadByte ==
  /\ partial = "none"
  /\ \E b \in Bytes \ {"[", "up", "down"} :
       /\ Next(b)
       /\ \/ b \in Chars /\ Typed(b) /\ UNCHANGED <<partial, Rest>>
          \/ b = "bs" /\ Erased /\ UNCHANGED <<partial, Rest>>
          \/ b = "^C" /\ Blank /\ UNCHANGED <<partial, Rest>>
          \/ /\ b = "high" \/ (b = "csi" /\ nonAscii)  \* perhaps a part of UTF-8
             /\ nonAscii' = TRUE
             /\ UNCHANGED <<line, overflow, offset, draft, full, shown, partial, Rest>>
          \/ b = "esc" /\ partial' = "esc" /\ UNCHANGED <<editVars, Rest>>
          \/ b = "csi" /\ ~nonAscii /\ partial' = "csi" /\ UNCHANGED <<editVars, Rest>>
          \/ b = "cr" /\ partial' = "cr" /\ UNCHANGED <<editVars, Rest>>
          \/ b = "lf" /\ LineRead /\ UNCHANGED partial
ConsumeShellEscape ==
  /\ partial = "esc"
  /\ \/ partial' = "csi" /\ Next("[")
     \/ \E b \in Bytes \ {"[", "up", "down"} : partial' = "none" /\ pending' = <<b>>
     \/ partial' = "none" /\ UNCHANGED pending
  /\ UNCHANGED <<editVars, Rest>>
ReadShellCsi ==
  /\ partial = "csi" /\ partial' = "none"
  /\ \/ Next("up") /\ Browse("older")
     \/ Next("down") /\ Browse("newer")
     \/ UNCHANGED pending /\ Browse("none")  \* another sequence, a pause, or too long
  /\ UNCHANGED Rest
ReadCrLf ==
  /\ partial = "cr" /\ partial' = "none"
  /\ \/ UNCHANGED pending  \* LF, or a pause
     \/ \E b \in Bytes \ {"[", "up", "down", "lf"} : pending' = <<b>>
  /\ LineRead
LoseByte ==
  /\ ~corrupt /\ corrupt' = TRUE
  /\ UNCHANGED <<asks, tries, partial, pending, editVars, historyVars>>
-----------------------------------------------------------------------------
LineInit ==
  /\ asks = "user" /\ tries = 0 /\ partial = "none" /\ pending = <<>>
  /\ line = <<>> /\ overflow = 0 /\ nonAscii = FALSE /\ offset = -1 /\ draft = <<>>
  /\ corrupt = FALSE
  /\ entries = [i \in 0 .. Capacity - 1 |-> [text |-> <<>>, number |-> 0]]
  /\ start = 0 /\ len = 0 /\ number = 1
  /\ full = <<>> /\ shown = <<>> /\ past = <<>>
LineNext == ReadByte \/ ConsumeShellEscape \/ ReadShellCsi \/ ReadCrLf \/ LoseByte
-----------------------------------------------------------------------------
(* The line is what the terminal shows and what a buffer without a limit       *)
(* would hold, less the characters that overflowed: a command that is          *)
(* executed is the one that was typed, through browsing and erasing.           *)
LineExact ==
  /\ shown = line
  /\ IsPrefix(line, full) /\ Len(full) = Len(line) + overflow
  /\ overflow > 0 => Len(line) = LineBuf

(* The history's ring holds the newest commands in order, with their numbers,  *)
(* and the place in it that is browsed exists.                                 *)
HistoryExact ==
  /\ len = IF Len(past) < Capacity THEN Len(past) ELSE Capacity
  /\ \A k \in 0 .. len - 1 :
       LET entry == entries[Index(start + len - 1 - k)]
       IN entry.text = past[Len(past) - k] /\ entry.number = Len(past) - k
  /\ offset < len
=============================================================================
