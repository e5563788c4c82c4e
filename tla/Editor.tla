------------------------------- MODULE Editor -------------------------------
(***************************************************************************)
(* The screen editor of the shell (src/shell/editor.rs): a file is loaded, *)
(* edited in memory key by key, drawn, and saved while other threads use   *)
(* the volume, which may fail in the middle of a save.  Offsets count from *)
(* 0; a byte is its kind: a character, a tab or the end of a line.         *)
(***************************************************************************)
EXTENDS Integers, Sequences, SequencesExt, FiniteSetsExt

CONSTANTS Files,     \* what the file may hold at the start
          Absent,    \* or that there is none
          Chars,     \* characters that are typed
          Moves,     \* keys that move the cursor
          MaxBytes,  \* NANO_MAX_BYTES, or what the volume has room for
          TabWidth,
          TextRows, Columns,
          MaxKeys,   \* bound: keys of a session
          MaxFaults  \* bound: writes of others that fail

VARIABLES disk, vol,                \* the file on the flash; the volume: mounted, unsure or gone
          buffer, cursor, goal,     \* Editor; -1 for no goal
          topLine, leftColumn, drawn,
          modified, exists, mode, outcome,
          inputLost, uartLost,      \* saving is disabled; the UART's counters are not 0
          logs, logsWere,           \* logging is enabled; TerminalGuard
          pressed, slips
textVars == <<buffer, cursor, goal>>
viewVars == <<topLine, leftColumn>>
editorVars == <<disk, vol, textVars, viewVars, drawn, modified, exists, mode, outcome,
                inputLost, uartLost, logs, logsWere, pressed, slips>>

IsEditable(byte) == byte # "bad"
-----------------------------------------------------------------------------
(* Lines and columns. *)
LineStart(c) == Max({0} \cup {i \in 1 .. c : buffer[i] = "nl"})
LineEnd(c) == Min({Len(buffer)} \cup {i \in c .. Len(buffer) - 1 : buffer[i + 1] = "nl"})
NextTab(column) == (column \div TabWidth + 1) * TabWidth
Widened(column, byte) == IF byte = "tab" THEN NextTab(column) ELSE column + 1
VisualWidth(bytes) == FoldLeft(Widened, 0, bytes)
CursorColumn(c) == VisualWidth(SubSeq(buffer, LineStart(c) + 1, c))
CursorLine(c) == Cardinality({i \in 1 .. c : buffer[i] = "nl"})
OffsetForColumn(start, end, target) ==
  Max({o \in start .. end : VisualWidth(SubSeq(buffer, start + 1, o)) <= target})
LineOffset(line) ==
  IF line = 0 THEN 0
  ELSE LET starts == {o \in 1 .. Len(buffer) : buffer[o] = "nl" /\ CursorLine(o) = line}
       IN IF starts = {} THEN -1 ELSE Min(starts)
-----------------------------------------------------------------------------
(* Editing. *)
Changed == modified' = TRUE /\ goal' = -1

Insert(byte) ==
  IF Len(buffer) >= MaxBytes THEN UNCHANGED <<textVars, modified>>
  ELSE /\ buffer' = SubSeq(buffer, 1, cursor) \o <<byte>> \o SubSeq(buffer, cursor + 1, Len(buffer))
       /\ cursor' = cursor + 1
       /\ Changed
Backspace ==
  IF cursor = 0 THEN UNCHANGED <<textVars, modified>>
  ELSE buffer' = RemoveAt(buffer, cursor) /\ cursor' = cursor - 1 /\ Changed
Delete ==
  IF cursor >= Len(buffer) THEN UNCHANGED <<textVars, modified>>
  ELSE buffer' = RemoveAt(buffer, cursor + 1) /\ Changed /\ UNCHANGED cursor

\* A position is <<offset, goal column>>.
MoveLeft(p) == <<IF p[1] = 0 THEN 0 ELSE p[1] - 1, -1>>
MoveRight(p) == <<IF p[1] < Len(buffer) THEN p[1] + 1 ELSE p[1], -1>>
MoveHome(p) == <<LineStart(p[1]), -1>>
MoveEnd(p) == <<LineEnd(p[1]), -1>>
Goal(p) == IF p[2] = -1 THEN CursorColumn(p[1]) ELSE p[2]
MoveUp(p) ==
  LET start == LineStart(p[1])
  IN IF start = 0 THEN p
     ELSE <<OffsetForColumn(LineStart(start - 1), start - 1, Goal(p)), Goal(p)>>
MoveDown(p) ==
  LET end == LineEnd(p[1])
  IN IF end = Len(buffer) THEN p
     ELSE <<OffsetForColumn(end + 1, LineEnd(end + 1), Goal(p)), Goal(p)>>
PageUp(p) == FoldLeft(LAMBDA q, i : MoveUp(q), p, [i \in 1 .. TextRows |-> i])
PageDown(p) == FoldLeft(LAMBDA q, i : MoveDown(q), p, [i \in 1 .. TextRows |-> i])
Moved(key, p) ==
  CASE key = "left" -> MoveLeft(p) [] key = "right" -> MoveRight(p)
    [] key = "home" -> MoveHome(p) [] key = "end" -> MoveEnd(p)
    [] key = "up" -> MoveUp(p) [] key = "down" -> MoveDown(p)
    [] key = "pageup" -> PageUp(p) [] OTHER -> PageDown(p)
-----------------------------------------------------------------------------
(* Files. *)

\* load_document: a file that is too long, or no text, is not edited.
LoadDocument ==
  /\ mode = "load"
  /\ IF vol = "gone" THEN mode' = "done" /\ UNCHANGED <<buffer, exists, logs, logsWere>>
     ELSE IF disk = Absent
     THEN mode' = "edit" /\ buffer' = <<>> /\ exists' = FALSE /\ logsWere' = logs /\ logs' = FALSE
     ELSE IF Len(disk) > MaxBytes \/ \E i \in DOMAIN disk : ~IsEditable(disk[i])
     THEN mode' = "done" /\ UNCHANGED <<buffer, exists, logs, logsWere>>
     ELSE mode' = "edit" /\ buffer' = disk /\ exists' = TRUE /\ logsWere' = logs /\ logs' = FALSE
  /\ inputLost' = uartLost
  /\ UNCHANGED <<disk, vol, cursor, goal, viewVars, drawn, modified, outcome, uartLost, pressed, slips>>

MarkSaved == modified' = FALSE /\ exists' = TRUE
Kept == UNCHANGED <<modified, exists>>

\* The file is compared with the buffer; the comparison may fail.
DurableFileMatches(file) == file = buffer
Recover(file, saved) ==
  \/ vol' = "gone" /\ saved = FALSE /\ Kept
  \/ vol' = "mounted" /\ DurableFileMatches(file) /\ saved = TRUE /\ MarkSaved
  \/ vol' = "mounted" /\ ~DurableFileMatches(file) /\ saved = FALSE /\ Kept
  \/ vol' = "mounted" /\ saved = FALSE /\ Kept

\* What a write of the file system may come to; another thread may make the volume
\* unsure before it is asked whether a new mount is needed.
Written(v, saved) ==
  \/ v = "mounted" /\ disk' = buffer /\ vol' = v /\ saved = TRUE /\ MarkSaved
  \/ v = "mounted" /\ UNCHANGED disk /\ vol' = v /\ saved = FALSE /\ Kept
  \/ v = "mounted" /\ disk' \in {disk, buffer} /\ Recover(disk', saved)
  \/ v = "unsure" /\ UNCHANGED disk /\ Recover(disk, saved)
SaveDocument(saved) ==
  IF ~modified /\ exists THEN saved = TRUE /\ UNCHANGED <<disk, vol>> /\ Kept
  ELSE \E v \in (IF vol = "gone" THEN {"gone", "mounted"} ELSE {vol}) :
         IF v = "gone" THEN saved = FALSE /\ UNCHANGED <<disk, vol>> /\ Kept
                       ELSE Written(v, saved)

\* TerminalGuard
Leave(how) == mode' = "done" /\ outcome' = how /\ logs' = logsWere
Stay == mode' = "edit" /\ UNCHANGED <<outcome, logs>>
Save(exitAfter) ==
  /\ inputLost' = (inputLost \/ uartLost)
  /\ IF inputLost \/ uartLost THEN Stay /\ UNCHANGED <<disk, vol>> /\ Kept
     ELSE \E saved \in BOOLEAN :
            SaveDocument(saved) /\ IF saved /\ exitAfter THEN Leave("clean") ELSE Stay
  /\ UNCHANGED textVars
-----------------------------------------------------------------------------
(* The session. *)
KeyRead == inputLost' = (inputLost \/ uartLost)
StoreVars == <<disk, vol, exists>>
HandleText ==
  /\ mode = "edit"
  /\ \/ \E byte \in Chars \cup {"tab", "nl"} : Insert(byte)
     \/ Backspace
     \/ Delete
  /\ KeyRead /\ UNCHANGED <<StoreVars, mode, outcome, logs>>
HandleMove ==
  /\ mode = "edit"
  /\ \E key \in Moves : LET p == Moved(key, <<cursor, goal>>)
                        IN cursor' = p[1] /\ goal' = p[2]
  /\ KeyRead /\ UNCHANGED <<StoreVars, buffer, modified, mode, outcome, logs>>
HandleSave == mode = "edit" /\ Save(FALSE)
HandleExit ==
  /\ mode = "edit"
  /\ IF modified THEN mode' = "confirm" /\ UNCHANGED <<outcome, logs>> ELSE Leave("clean")
  /\ KeyRead /\ UNCHANGED <<StoreVars, textVars, modified>>
ConfirmYes == mode = "confirm" /\ Save(TRUE)
ConfirmNo ==
  /\ mode = "confirm" /\ Leave("discarded")
  /\ KeyRead /\ UNCHANGED <<StoreVars, textVars, modified>>
ConfirmCancel ==
  /\ mode = "confirm" /\ Stay
  /\ KeyRead /\ UNCHANGED <<StoreVars, textVars, modified>>
HandleKey ==
  /\ pressed < MaxKeys /\ pressed' = pressed + 1
  /\ HandleText \/ HandleMove \/ HandleSave \/ HandleExit
                \/ ConfirmYes \/ ConfirmNo \/ ConfirmCancel
  /\ drawn' = FALSE
  /\ UNCHANGED <<viewVars, uartLost, logsWere, slips>>

\* The window moves one column late.
ClampedLate(first, at, size) ==
  IF at < first THEN at ELSE IF at > first + size THEN at - size + 1 ELSE first
\* Keys that come at once are drawn together.
Clamped(first, at, size) ==
  IF at < first THEN at ELSE IF at >= first + size THEN at - size + 1 ELSE first
EnsureVisible ==
  /\ mode \in {"edit", "confirm"} /\ ~drawn
  /\ topLine' = Clamped(topLine, CursorLine(cursor), TextRows)
  /\ leftColumn' = Clamped(leftColumn, CursorColumn(cursor), Columns)
  /\ drawn' = TRUE
  /\ UNCHANGED <<StoreVars, textVars, modified, mode, outcome, inputLost, uartLost, logs, logsWere, pressed, slips>>

\* Others: a byte is lost at the UART, a write of the log leaves the volume unsure.
LoseInput ==
  /\ ~uartLost /\ uartLost' = TRUE
  /\ UNCHANGED <<disk, vol, textVars, viewVars, drawn, modified, exists, mode, outcome, inputLost, logs, logsWere, pressed, slips>>
OtherFails ==
  /\ slips < MaxFaults /\ slips' = slips + 1
  /\ vol = "mounted" /\ vol' = "unsure"
  /\ UNCHANGED <<disk, textVars, viewVars, drawn, modified, exists, mode, outcome, inputLost, uartLost, logs, logsWere, pressed>>
-----------------------------------------------------------------------------
EditorInit ==
  /\ disk \in Files \cup {Absent} /\ vol \in {"mounted", "gone"}
  /\ buffer = <<>> /\ cursor = 0 /\ goal = -1 /\ topLine = 0 /\ leftColumn = 0 /\ drawn = FALSE
  /\ modified = FALSE /\ exists = FALSE /\ mode = "load" /\ outcome = "none"
  /\ inputLost = FALSE /\ uartLost = FALSE /\ logs \in BOOLEAN /\ logsWere = FALSE
  /\ pressed = 0 /\ slips = 0
EditorNext == LoadDocument \/ HandleKey \/ EnsureVisible \/ LoseInput \/ OtherFails
-----------------------------------------------------------------------------
(* Frame: the rows from the top line on, and each row's cells.                *)
Cells(line) ==
  FoldLeft(LAMBDA cells, byte :
             IF byte = "tab" THEN cells \o [i \in 1 .. NextTab(Len(cells)) - Len(cells) |-> " "]
                             ELSE Append(cells, byte), <<>>, line)
RenderLine(line) ==
  LET cells == Cells(line)
  IN SubSeq(cells, leftColumn + 1, Min({Len(cells), leftColumn + Columns}))
RowStart[row \in 0 .. TextRows - 1] ==
  IF row = 0 THEN LineOffset(topLine)
  ELSE IF RowStart[row - 1] = -1 \/ LineEnd(RowStart[row - 1]) = Len(buffer) THEN -1
  ELSE LineEnd(RowStart[row - 1]) + 1
Frame(row) == RenderLine(SubSeq(buffer, RowStart[row] + 1, LineEnd(RowStart[row])))

(* What an editor shows as saved, or leaves as saved, is what the flash holds: *)
(* through failed and uncertain saves, new mounts and failures of others; and  *)
(* logging is afterwards as it was before.                                     *)
CleanMeansStored ==
  /\ ~modified /\ exists => disk = buffer
  /\ outcome = "clean" => ~modified
  /\ mode = "done" /\ outcome # "none" => logs = logsWere

(* The cursor stands on the cell that shows the byte it is at, whatever was    *)
(* typed and scrolled since the last frame; and while the cursor goes up and   *)
(* down it is at the column where it started, or as near as the line allows.   *)
CursorShown ==
  /\ drawn /\ mode = "edit" =>
       LET row == CursorLine(cursor) - topLine
           column == CursorColumn(cursor) - leftColumn
       IN /\ row \in 0 .. TextRows - 1 /\ column \in 0 .. Columns - 1
          /\ cursor < LineEnd(cursor) =>
               Frame(row)[column + 1] = IF buffer[cursor + 1] = "tab" THEN " " ELSE buffer[cursor + 1]
  /\ goal # -1 => /\ CursorColumn(cursor) <= goal
                  /\ cursor < LineEnd(cursor) => CursorColumn(cursor + 1) > goal
=============================================================================
