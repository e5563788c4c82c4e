----------------------------- MODULE MCStorage -----------------------------
(***************************************************************************)
(* Instances, for TLC, of the components that keep data: snapshots, the    *)
(* names in them, the log, the volume on the flash, the heap, and the      *)
(* editor with the file it edits.  They share no state, so one run looks   *)
(* at each of them in turn: `part` says which one a behaviour is about,    *)
(* and the others stand still.  The constants of Snapshot get their values *)
(* in the configuration.                                                   *)
(***************************************************************************)
EXTENDS Snapshot, Sequences, SequencesExt, TLC

CONSTANTS Part,  \* the components that a run looks at
          small, large, huge, Slash, chA, chB, Absent

VARIABLES part,
          records, request, answer, tree,                             \* Records
          ring, lock, todo, next, pc, boot, seg, image, scanned, files, boots, faults,
          slot, fsLock, tokens, block, formatted, broken, retired, reg, saved, guard,
          at, work, res, calls, slips,                                \* Volume
          mem, lists, free, live,                                     \* Heap
          disk, vol, buffer, cursor, goal, topLine, leftColumn, drawn, modified, exists, mode,
          outcome, inputLost, uartLost, logs, logsWere, pressed, fails  \* Editor

-----------------------------------------------------------------------------
\* Trees of one block, of half the partition and of more than that.
Spans == small :> 1 @@ large :> 2 @@ huge :> 3

\* Tables that uses of a medium lead to: without a bad block the counters lie
\* one apart, with one they may lie as far apart as the blocks' lives allow.
Table(counts, bad) == [b \in 0 .. 3 |-> [count |-> counts[b + 1], bad |-> b \in bad]]
Tables == {Table(<<2, 1, 1, 1>>, {}), Table(<<2, 2, 0, 0>>, {3})}

\* While another part is looked at, nothing happens on a blank medium.
SnapshotOff ==
    dev = [b \in Block |-> Erased] /\ dead = {} /\ fs = None /\ op = None /\ reply = "none"

-----------------------------------------------------------------------------
\* Names of which one is a prefix of another, files that may stand in another's
\* way, a path that ends in the separator, and one that is too long where the
\* first name of another path becomes longer.
Paths ==
    {<<chA>>, <<chB>>, <<chA, chB>>,
     <<chA, Slash, chA>>, <<chA, Slash, chB>>, <<chA, Slash>>}

R == INSTANCE Records WITH
    Inputs <- Paths, Size <- {0, 7}, MaxNameLen <- 3, MaxFiles <- 4, HeaderLen <- 20,
    Capacity <- 100, reply <- answer

\* The paths of the tree: sequences of names, which the separator divides.  A path
\* of three characters has one separator at most.
Word(length) == [1 .. length -> {chA, chB}]
TreePaths == {<<n>> : n \in Word(1) \cup Word(2) \cup Word(3)} \cup (Word(1) \X Word(1))
Split(n) ==
    LET i == SelectInSeq(n, LAMBDA c : c = Slash)
    IN IF i = 0 THEN <<n>> ELSE <<SubSeq(n, 1, i - 1), SubSeq(n, i + 1, Len(n))>>

\* The room that a tree takes: its entries with their paths, in units of four bytes.
RoomOf(t, p) ==
    LET length == IF Len(p) = 1 THEN Len(p[1]) ELSE Len(p[1]) + 1 + Len(p[2])
    IN ((20 + length + t[p].size + 3) \div 4) * 4
Holds(t) ==
    /\ Cardinality(DOMAIN t) <= 4
    /\ MapThenSumSet(LAMBDA p : RoomOf(t, p), DOMAIN t) <= 100

\* The tree that the records stand for, kept beside them.
TreeOf(rs) ==
    [p \in {Split(rs[i].name) : i \in DOMAIN rs} |->
        LET i == CHOOSE i \in DOMAIN rs : Split(rs[i].name) = p
        IN [directory |-> rs[i].directory, size |-> rs[i].size]]
Tree == INSTANCE FileTree WITH
    Path <- TreePaths,
    call <- IF request = None THEN None
            ELSE [op |-> request.op, path |-> Split(request.name), to |-> Split(request.to),
                  size |-> request.size],
    reply <- CASE answer \in {"ok", "none"} -> answer
               [] answer = "NoSpace" -> "nospace"
               [] answer = "InvalidName" -> "invalid"
               [] OTHER -> "refused"
recordVars == <<records, request, answer, tree>>
RecordsOff == records = None /\ request = None /\ answer = None /\ tree = None

-----------------------------------------------------------------------------
\* Lines of one and of two pieces, one of which does not fit the buffer.
L == INSTANCE LogFile WITH
    Pieces <- {<<2>>, <<2, 6>>}, Legacy <- {{}, {1}}, Cap <- 8, Header <- 2, LostLen <- 3,
    CutLen <- 1, FileMax <- 11, BootLen <- 3, Slots <- 2, BootMod <- 16, MaxLines <- 3,
    MaxBoots <- 2, MaxFaults <- 1
logVars == <<ring, lock, todo, next, pc, boot, seg, image, scanned, files, boots, faults>>
LogOff == /\ ring = None /\ lock = None /\ todo = None /\ next = None /\ pc = None /\ boot = None
          /\ seg = None /\ image = None /\ scanned = None /\ files = None /\ boots = None
          /\ faults = None

V == INSTANCE Volume WITH
    Shell <- "shell", Log <- "log", Other <- "other", MaxFaults <- 1, MaxCalls <- 2,
    todo <- work, faults <- slips
volumeVars == <<slot, fsLock, tokens, block, formatted, broken, retired, reg, saved, guard,
                at, work, res, calls, slips>>
VolumeOff == /\ slot = None /\ fsLock = None /\ tokens = None /\ block = None
             /\ formatted = None /\ broken = None /\ retired = None /\ reg = None
             /\ saved = None /\ guard = None /\ at = None /\ work = None /\ res = None
             /\ calls = None /\ slips = None

\* A heap of 128 bytes that starts off an aligned address.
H == INSTANCE Heap WITH
    Start <- 1044, End <- 1172, Layouts <- {<<1, 8>>, <<20, 4>>, <<24, 32>>}, Header <- 8,
    Prefix <- 4, FlMinLog2 <- 4, FlCount <- 6, SizeMax <- 172
heapVars == <<mem, lists, free, live>>
HeapOff == mem = None /\ lists = None /\ free = None /\ live = None

\* A text with a tab, one that is not editable and one that is too long; one row of
\* two columns.
E == INSTANCE Editor WITH
    Files <- {<<"y", "nl", "tab", "y">>, <<"bad">>, <<"y", "y", "y", "y", "y", "y">>},
    Chars <- {"y"}, Moves <- {"left", "right", "home", "end", "up", "down", "pageup", "pagedown"},
    MaxBytes <- 5, TabWidth <- 2, TextRows <- 1, Columns <- 2, MaxKeys <- 4, MaxFaults <- 1,
    slips <- fails
editorVars == <<disk, vol, buffer, cursor, goal, topLine, leftColumn, drawn, modified, exists,
                mode, outcome, inputLost, uartLost, logs, logsWere, pressed, fails>>
EditorOff == /\ disk = None /\ vol = None /\ buffer = None /\ cursor = None /\ goal = None
             /\ topLine = None /\ leftColumn = None /\ drawn = None /\ modified = None
             /\ exists = None /\ mode = None /\ outcome = None /\ inputLost = None
             /\ uartLost = None /\ logs = None /\ logsWere = None /\ pressed = None
             /\ fails = None

ASSUME /\ PlacementAssumption /\ SnapshotAssumption /\ EvenAssumption /\ R!RecordsAssumption
       /\ L!RingAssumption /\ H!HeapAssumption

-----------------------------------------------------------------------------
storageVars == <<part, vars, recordVars, logVars, volumeVars, heapVars, editorVars>>

StorageInit ==
    /\ part \in Part
    /\ IF part = "snapshot" THEN Init ELSE SnapshotOff
    /\ IF part = "namespace" THEN R!Init /\ tree = TreeOf(records) ELSE RecordsOff
    /\ IF part = "log" THEN L!Init ELSE LogOff
    /\ IF part = "volume" THEN V!VolumeInit ELSE VolumeOff
    /\ IF part = "heap" THEN H!HeapInit ELSE HeapOff
    /\ IF part = "editor" THEN E!EditorInit ELSE EditorOff

\* The other parts stand still.
Still(p) ==
    /\ part = p /\ part' = part
    /\ IF p = "snapshot" THEN TRUE ELSE UNCHANGED vars
    /\ IF p = "namespace" THEN TRUE ELSE UNCHANGED recordVars
    /\ IF p = "log" THEN TRUE ELSE UNCHANGED logVars
    /\ IF p = "volume" THEN TRUE ELSE UNCHANGED volumeVars
    /\ IF p = "heap" THEN TRUE ELSE UNCHANGED heapVars
    /\ IF p = "editor" THEN TRUE ELSE UNCHANGED editorVars

StorageNext ==
    \/ Still("snapshot") /\ Next
    \/ Still("namespace") /\ R!Next /\ tree' = TreeOf(records')
    \/ Still("log") /\ L!Next
    \/ Still("volume") /\ V!VolumeNext
    \/ Still("heap") /\ H!HeapNext
    \/ Still("editor") /\ E!EditorNext
StorageSpec == StorageInit /\ [][StorageNext]_storageVars

-----------------------------------------------------------------------------
\* A commit that failed leaves its marks of bad blocks (violated: they are forgotten).
FailedCommitKeepsMark == [][Remembered]_vars

\* The records implement a tree: a change of the records, found by comparing
\* characters, is the change of the tree that the call's names say, and every call gets
\* the one answer that the tree demands, with the effect that goes with it.
IsFileTree ==
    (part = "namespace" => Tree!Init) /\ [][part = "namespace" => Tree!Next]_storageVars

\* max_write says exactly how many bytes a file may have to be written, and no call
\* leaves records that decoding refuses.
MaxWriteExact == part = "namespace" => R!MaxWriteExact /\ R!NeverCorrupt

\* Every line that was logged is in the ring, in the image, or counted as lost.
LossAccounted == part = "log" => L!LossAccounted

\* The log's files stay within their number, and the newest are the ones that are kept.
BudgetKept == part = "log" => L!BudgetKept

\* Log files are numbered upwards over restarts, and a start formats a volume only
\* where none can be mounted.
StoredKept == [][(part = "log" => L!Ordered) /\ (part = "volume" => V!Spared)]_storageVars

\* Whoever fails in the middle, the volume's token comes back, one thread at a time is
\* at the flash controller, and a block is given up only when it is broken.
VolumeSound == part = "volume" => V!TokenReturned /\ V!ControllerOwned /\ V!RetiredIsBroken

\* The heap's blocks tile its memory, free blocks are merged and found where they are
\* looked for, and the bytes that programs were given do not overlap.
HeapSound == part = "heap" => H!HeapSound /\ H!FindsFit /\ H!PayloadsApart

\* used() is what was given out with its headers (violated: merging counts twice).
UsedExact == part = "heap" => H!UsedExact

\* What the editor shows as saved is what the flash holds, through failed saves and new
\* mounts, and the cursor is shown at the byte where it stands.
EditorSound == part = "editor" => E!CleanMeansStored /\ E!CursorShown
=============================================================================
