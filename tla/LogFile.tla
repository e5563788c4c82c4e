------------------------------ MODULE LogFile ------------------------------
(***************************************************************************)
(* From a log line to a log file: the threads that log (src/log.rs), the    *)
(* ring they share, and the threads that save it (src/logfile.rs,           *)
(* src/logfile_core.rs): the log thread and the shell's reboot command.     *)
(*                                                                          *)
(* A line is written into the ring in several critical sections under the   *)
(* print lock.  A flush holds the file system's mutex from end to end (the   *)
(* mutex of its own state is always taken inside it), but it reads the ring *)
(* in a critical section at a time, so that lines come in between.  A file  *)
(* operation is one step: it is done or it fails, as the file system        *)
(* promises.  The system may lose power between any two steps.              *)
(***************************************************************************)
EXTENDS LogRing, FiniteSets

CONSTANTS Pieces,        \* the lines a thread may log, each the lengths of its pieces
          Legacy,        \* sets of old names that may be there at the start
          FileMax,       \* CFG_LOG_FILE_MAX
          BootLen,       \* bytes of the boot marker
          Slots,         \* CFG_LOG_FILE_SLOTS
          BootMod,       \* boot numbers wrap here (2^64)
          MaxLines, MaxBoots, MaxFaults

VARIABLES ring, lock, todo, next,              \* logging: the print lock is taken
          pc, boot, seg, image,            \* saving
          scanned,                         \* no, yes, or blind: names were missed
          files,                               \* what the medium keeps
          boots, faults                        \* bounds
logVars == <<ring, lock, todo, next>>
flushVars == <<pc, boot, seg, image, scanned>>
vars == <<logVars, flushVars, files, boots, faults>>

-----------------------------------------------------------------------------
(* Names and their order (logfile_core.rs). *)
Name(b, s) == <<"boot", b, s>>
OldName(n) == <<"log", 0, n>>
Parsed(name) == <<name[2], name[3]>>

BootNewer(a, b) == a # b /\ (a - b) % BootMod < BootMod \div 2
SegmentNewer(a, b) == IF a[1] # b[1] THEN BootNewer(a[1], b[1]) ELSE a[2] > b[2]
Parts == {Parsed(n) : n \in DOMAIN files}
NextBoot(parts) ==
  IF parts = {} THEN 1
  ELSE LET newest == CHOOSE b \in {p[1] : p \in parts} :
                       \A p \in parts : ~BootNewer(p[1], b)
           n == (newest + 1) % BootMod
       IN IF n = 0 THEN 1 ELSE n
\* The newest instead of the oldest.
NewestOf(parts) == CHOOSE p \in parts : \A q \in parts : ~SegmentNewer(q, p)
OldestOf(parts) == CHOOSE p \in parts : \A q \in parts : ~SegmentNewer(p, q)

Without(name) == [n \in DOMAIN files \ {name} |-> files[n]]

\* The oldest file is removed under the name its parsed number renders to.
OldestName(f) == LET p == OldestOf({Parsed(n) : n \in DOMAIN f}) IN Name(p[1], p[2])

\* What the budget leaves: oldest files go until there is a slot for a new one,
\* the name does not exist, or a removal fails.
\* One file too many is left.
TrimmedLate(f) ==
  IF Cardinality(DOMAIN f) <= Slots \/ OldestName(f) \notin DOMAIN f THEN f
  ELSE [n \in DOMAIN f \ {OldestName(f)} |-> f[n]]
RECURSIVE Trimmed(_)
Trimmed(f) ==
  IF Cardinality(DOMAIN f) < Slots \/ OldestName(f) \notin DOMAIN f THEN f
  ELSE Trimmed([n \in DOMAIN f \ {OldestName(f)} |-> f[n]])
-----------------------------------------------------------------------------
(* Logging (log.rs): begin, one append per piece, commit, under the lock. *)
LogBegin ==
  /\ ~lock
  /\ next <= MaxLines
  /\ lock' = TRUE
  /\ ring' = BeginEntry(ring, next)
  /\ next' = next + 1
  /\ \E p \in Pieces : todo' = p
  /\ UNCHANGED <<flushVars, files, boots, faults>>

LogAppend ==
  /\ lock
  /\ todo # <<>>
  /\ ring' = AppendToEntry(ring, Head(todo))
  /\ todo' = Tail(todo)
  /\ UNCHANGED <<lock, next, flushVars, files, boots, faults>>

LogCommit ==
  /\ lock
  /\ todo = <<>>
  /\ ring' = CommitEntry(ring)
  /\ lock' = FALSE
  /\ UNCHANGED <<todo, next, flushVars, files, boots, faults>>
-----------------------------------------------------------------------------
(* Saving (logfile.rs). *)
Goto(where) == pc' = where
Done == Goto("idle")
Pending == ring.q # <<>>

\* mounted(): the mutex of the file system, and with it the flush state.
FlushEnter ==
  /\ pc = "idle"
  /\ Goto("check")
  /\ UNCHANGED <<boot, seg, image, scanned, logVars, files, boots, faults>>

\* The first flush after a start looks through the directory for the boot's number;
\* when that breaks off, the names it has seen count (collect_log_files).
Scan ==
  \/ boot' = NextBoot(Parts) /\ scanned' = "yes" /\ UNCHANGED faults
  \/ /\ faults < MaxFaults /\ faults' = faults + 1
     /\ \E seen \in SUBSET Parts : boot' = NextBoot(seen)
     /\ scanned' = IF boot' = NextBoot(Parts) THEN "yes" ELSE "blind"

\* Nothing pending: return.  The reservation of the image may fail, and then the scan is
\* done again next time.
FlushCheck ==
  /\ pc = "check"
  /\ \/ ~Pending /\ Done /\ UNCHANGED <<boot, seg, scanned, faults>>
     \/ /\ Pending /\ scanned # "no"
        /\ Goto("segment") /\ UNCHANGED <<boot, seg, scanned, faults>>
     \/ /\ Pending /\ scanned = "no"
        /\ seg' = 0
        /\ \/ Scan /\ Goto("segment")
           \/ /\ faults < MaxFaults /\ faults' = faults + 1
              /\ boot' = NextBoot(Parts) /\ Done /\ UNCHANGED scanned
  /\ UNCHANGED <<image, logVars, files, boots>>

\* A new segment starts with the boot marker, and its file needs a slot.
FlushSegment ==
  /\ pc = "segment"
  /\ Goto("pending")
  /\ IF image # <<>> THEN UNCHANGED <<image, files, faults>>
     ELSE /\ image' = <<[kind |-> "boot", n |-> BootLen]>>
          /\ \/ /\ files' = IF Name(boot, seg) \in DOMAIN files THEN files ELSE Trimmed(files)
                /\ UNCHANGED faults
             \/ /\ faults < MaxFaults
                /\ faults' = faults + 1 /\ UNCHANGED files
  /\ UNCHANGED <<boot, seg, scanned, logVars, boots>>

FlushPending ==
  /\ pc = "pending"
  /\ Goto(IF Pending THEN "wait" ELSE "last")
  /\ UNCHANGED <<boot, seg, image, scanned, logVars, files, boots, faults>>

\* wait_writer_idle polls outside the critical section and gives up in the end.
FlushWait ==
  /\ pc \in {"wait", "waitOldest"}
  /\ IF pc = "wait"
     THEN Goto(IF ring.writing THEN "waitOldest" ELSE "drain")
     ELSE IF ring.writing THEN Done ELSE Goto("drainOldest")
  /\ UNCHANGED <<boot, seg, image, scanned, logVars, files, boots, faults>>

\* A drain that relies on the wait before it.
DrainedUnchecked(d) == d
\* A drain looks at `writing` again inside its critical section.
Drained(d) == IF ring.writing THEN [out |-> <<>>, ring |-> ring] ELSE d

Free == IF FileMax > Length(image) THEN FileMax - Length(image) ELSE 0

FlushDrain ==
  LET d == Drained(DrainLimited(ring, Free))
  IN /\ pc = "drain"
     /\ ring' = d.ring /\ image' = image \o d.out
     /\ Goto(IF d.out = <<>> THEN "waitOldest" ELSE "more")
     /\ UNCHANGED <<lock, todo, next, boot, seg, scanned, files, boots, faults>>

FlushDrainOldest ==
  LET d == Drained(DrainOldest(ring))
  IN /\ pc = "drainOldest"
     /\ ring' = d.ring /\ image' = image \o d.out
     /\ IF d.out = <<>> THEN Done ELSE Goto("rotate")
     /\ UNCHANGED <<lock, todo, next, boot, seg, scanned, files, boots, faults>>

FlushMore ==
  /\ pc = "more"
  /\ Goto(IF Pending THEN "rotate" ELSE "segment")
  /\ UNCHANGED <<boot, seg, image, scanned, logVars, files, boots, faults>>

\* write_segment_retry: the whole file or nothing; after a failure the oldest
\* file goes and the write is tried once more.
Written(f) == [n \in DOMAIN f \cup {Name(boot, seg)} |-> IF n = Name(boot, seg) THEN image ELSE f[n]]
Saved == files' = Written(files) /\ UNCHANGED faults
SavedSecond ==
  /\ faults < MaxFaults /\ faults' = faults + 1
  /\ files # <<>> /\ OldestName(files) \in DOMAIN files
  /\ files' = Written(Without(OldestName(files)))
NotSaved ==
  /\ faults < MaxFaults /\ faults' = faults + 1
  /\ \/ UNCHANGED files
     \/ /\ files # <<>> /\ OldestName(files) \in DOMAIN files
        /\ files' = Without(OldestName(files))

FlushRotate ==
  /\ pc = "rotate"
  /\ \/ /\ Saved \/ SavedSecond
        /\ seg' = seg + 1 /\ image' = <<>>
        /\ Goto("segment")
     \/ NotSaved /\ Done /\ UNCHANGED <<seg, image>>
  /\ UNCHANGED <<boot, scanned, logVars, boots>>

FlushLast ==
  /\ pc = "last"
  /\ Done
  /\ IF image = <<>> THEN UNCHANGED <<files, faults>> ELSE Saved \/ SavedSecond \/ NotSaved
  /\ UNCHANGED <<boot, seg, image, scanned, logVars, boots>>

FlushStep == \/ FlushCheck \/ FlushSegment \/ FlushPending \/ FlushWait
                \/ FlushDrain \/ FlushDrainOldest \/ FlushMore
                \/ FlushRotate \/ FlushLast
-----------------------------------------------------------------------------
\* Power is lost or the board is reset: only the files stay.
Restart ==
  /\ boots < MaxBoots /\ boots' = boots + 1
  /\ ring' = EmptyRing /\ lock' = FALSE /\ todo' = <<>> /\ next' = 1
  /\ pc' = "idle"
  /\ boot' = 1 /\ seg' = 0 /\ image' = <<>> /\ scanned' = "no"
  /\ UNCHANGED <<files, faults>>

Init ==
  /\ ring = EmptyRing /\ lock = FALSE /\ todo = <<>> /\ next = 1
  /\ pc = "idle"
  /\ boot = 1 /\ seg = 0 /\ image = <<>> /\ scanned = "no"
  /\ \E old \in Legacy : files = [n \in {OldName(k) : k \in old} |-> <<>>]
  /\ boots = 1 /\ faults = 0

Next == \/ LogBegin \/ LogAppend \/ LogCommit
        \/ FlushEnter \/ FlushStep
        \/ Restart
Spec == Init /\ [][Next]_vars
-----------------------------------------------------------------------------
\* The lines of this boot, in the order they were logged: the segments saved
\* before this one, the image, the ring.
Earlier == FlattenSeq([s \in 1..seg |->
             IF Name(boot, s - 1) \in DOMAIN files THEN files[Name(boot, s - 1)] ELSE <<>>])
InRing == Lost(ring) \o [i \in DOMAIN ring.q |-> Line(ring.q[i])]
Stream == IF scanned # "no" THEN Earlier \o image \o InRing ELSE InRing
Kept == scanned = "no" \/ \A s \in 0..(seg - 1) : Name(boot, s) \in DOMAIN files

\* The number of the line that must come next after the items so far; 0 once
\* a line is missing that no marker counts.
After(first, items) ==
  FoldLeft(LAMBDA e, i : CASE e = 0 -> 0
                           [] i.kind = "lost" -> e + i.n
                           [] i.kind = "line" -> IF i.line = e THEN e + 1 ELSE 0
                           [] OTHER -> e, first, items)

(* No line disappears silently: going through what was saved, what waits in  *)
(* the image and what is in the ring, every gap between two lines is counted  *)
(* by the overflow marker that stands in the gap, the last line is the last   *)
(* one logged, and no line was taken out before it was committed.             *)
LossAccounted ==
  /\ Kept => After(1, Stream) = next
  /\ ~Kept => \E k \in 1..next : After(k, Stream) = next
  /\ \A n \in DOMAIN files : \A i \in DOMAIN files[n] :
       files[n][i].kind = "line" => ~files[n][i].open
  /\ \A i \in DOMAIN image : image[i].kind = "line" => ~image[i].open

(* Files come and go in order (logfile_core.rs: later files are strictly      *)
(* newer): a file that is created is newer than every file there is, unless   *)
(* the scan missed names, whose numbers are then given again; and a file that *)
(* is removed is older than every file that stays.                            *)
Ordered ==
  /\ scanned # "blind" => \A n \in DOMAIN files' \ DOMAIN files : \A m \in DOMAIN files :
       SegmentNewer(Parsed(n), Parsed(m))
  /\ \A n \in DOMAIN files \ DOMAIN files' : \A m \in DOMAIN files' :
       SegmentNewer(Parsed(m), Parsed(n))

(* The budget of files (CFG_LOG_FILE_SLOTS) is kept, but for one file more    *)
(* for each operation of the file system that failed, unless a name of the    *)
(* old firmware is there: such a file is never removed, because it is removed *)
(* under another name.                                                        *)
BudgetKept ==
  (\A n \in DOMAIN files : n[1] = "boot") => Cardinality(DOMAIN files) <= Slots + faults

(* logfile.rs:14: a log file never exceeds CFG_LOG_FILE_MAX, except when one   *)
(* line alone with the marker does.  Not so: a line is also forced into a file *)
(* that holds others (README).                                                 *)
SegmentWithinMax ==
  \A n \in DOMAIN files : Len(files[n]) > 2 => Length(files[n]) <= FileMax
=============================================================================
