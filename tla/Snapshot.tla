------------------------------ MODULE Snapshot ------------------------------
(***************************************************************************)
(* The snapshot file system (crates/littlefs/src/fs.rs, format.rs): every  *)
(* change writes the whole tree, and the table of erase counters, to a run *)
(* of blocks apart from the current snapshot, reads it back and makes it   *)
(* visible by programming one word, the commit word, last.  Mounting scans *)
(* every block for the newest snapshot that is complete.                   *)
(*                                                                         *)
(* A block is what decoding finds in it: a header (the 60 bytes before the *)
(* commit word), the commit word, and the block's part of a payload.  An   *)
(* image, the tree with the counters stored before it, stands for payload  *)
(* and checksum at once: checksums tell all payloads apart, and whatever   *)
(* was torn from whatever was programmed.                                  *)
(***************************************************************************)
EXTENDS Integers, FiniteSets, FiniteSetsExt, Functions

-----------------------------------------------------------------------------
(* Where the next snapshot goes: the run of consecutive blocks, cyclic,    *)
(* that is apart from the current snapshot, holds no bad block and has     *)
(* been erased the least; and how the table of erase counters that         *)
(* travels with every snapshot is updated.                                 *)

CONSTANTS
    BlockCount,  \* blocks of the partition
    CountMask,   \* largest erase counter, 2^15 - 1 on the device
    RescaleAt    \* the counter at which all of them are halved

PlacementAssumption ==
    /\ BlockCount \in Nat /\ BlockCount >= 2
    /\ CountMask \in Nat
    /\ RescaleAt \in 1 .. CountMask

Block == 0 .. BlockCount - 1

WearTable == [Block -> [count : 0 .. CountMask, bad : BOOLEAN]]
Unworn == [b \in Block |-> [count |-> 0, bad |-> FALSE]]

\* The span blocks from start on.
Run(start, span) == {(start + i) % BlockCount : i \in 0 .. span - 1}

\* Whether two runs share a block.
OverlapUnwrapped(start, span, other, otherSpan) ==
    (start .. start + span - 1) \cap (other .. other + otherSpan - 1) # {}
Overlap(start, span, other, otherSpan) ==
    Run(start, span) \cap Run(other, otherSpan) # {}

Bad(wear) == {b \in Block : wear[b].bad}

Usable(span, wear) == {s \in Block : Run(s, span) \cap Bad(wear) = {}}

Apart(active, span, wear) ==
    {s \in Usable(span, wear) : ~Overlap(s, span, active.start, active.span)}

\* The costs compared when a run is chosen, in their order of precedence: the
\* most worn block, the wear of all blocks, the way from the current snapshot.
Cost(active, span, wear, s) ==
    LET counts == [b \in Run(s, span) |-> wear[b].count]
        successor == (active.start + active.span) % BlockCount
    IN <<Max(Range(counts)), SumFunction(counts),
         (s + (BlockCount - successor)) % BlockCount>>

Cheaper(c, d) ==
    \E i \in 1 .. 3 : c[i] < d[i] /\ \A j \in 1 .. i - 1 : c[j] = d[j]

ChooseFirst(active, span, wear) ==
    {s \in Apart(active, span, wear) : \A t \in Apart(active, span, wear) : s <= t}
\* The chosen start, as a set of one element, or of none if no run is viable.
ChooseStart(active, span, wear) ==
    LET starts == Apart(active, span, wear)
        cost == [s \in starts |-> Cost(active, span, wear, s)]
    IN {s \in starts : \A t \in starts \ {s} : Cheaper(cost[s], cost[t])}

\* The same on a medium that holds no snapshot yet.
ChooseVirginStart(span, wear) ==
    {s \in Usable(span, wear) : \A t \in Usable(span, wear) : s <= t}

Incremented(wear, start, span) ==
    [b \in Block |->
        IF b \in Run(start, span)
        THEN [wear[b] EXCEPT !.count = Min({@ + 1, CountMask})]
        ELSE wear[b]]

Rescaled(wear) ==
    IF \E b \in Block : wear[b].count >= RescaleAt
    THEN [b \in Block |-> [wear[b] EXCEPT !.count = @ \div 2]]
    ELSE wear

MarkBad(wear, b) == [wear EXCEPT ![b].bad = TRUE]

\* How far the counters of the blocks in use lie apart (wear_bounds).
Spread(wear) ==
    LET counts == {wear[b].count : b \in Block \ Bad(wear)}
    IN IF counts = {} THEN 0 ELSE Max(counts) - Min(counts)

-----------------------------------------------------------------------------
(* The medium, and the calls.                                              *)

CONSTANTS
    Content,      \* the trees to be stored
    Empty,        \* the tree without entries
    SpanOf,       \* the blocks that the snapshot of a tree takes
    GenMod,       \* generations are counted modulo this, 2^32 on the device
    MaxAttempts,  \* MAX_COMMIT_ATTEMPTS
    Blank, Torn,  \* an erased field, and one whose writing was cut short
    None,
    FirstGen,     \* the generation on a medium that has been used before,
    FirstTables,  \* and the tables of counters on it
    LastGen,      \* bound: no change is made to a snapshot of this generation
    MaxDead       \* bound: blocks that wear out

SnapshotAssumption ==
    /\ Empty \in Content
    /\ SpanOf \in [Content -> Nat \ {0}] /\ SpanOf[Empty] = 1
    /\ GenMod \in Nat \ {0} /\ FirstGen \in 0 .. GenMod - 1
    /\ FirstTables \subseteq WearTable
    /\ MaxAttempts \in Nat

\* The counters are level but for one step: from block q on, z blocks have the count m,
\* those behind them, up to q again, one more.  None is bad.
EvenFrom(wear, q, m, z) ==
    \A i \in Block : wear[(q + i) % BlockCount] =
        [count |-> IF i < z THEN m ELSE m + 1, bad |-> FALSE]
Even(wear, q) == \E m \in 0 .. CountMask, z \in 1 .. BlockCount : EvenFrom(wear, q, m, z)

\* Without a bad block, the table on a used medium is of this form (behind a snapshot
\* of one block at block 0): other uses of the medium, by this code, leave no other.
EvenAssumption == \A wear \in FirstTables : Bad(wear) = {} => Even(wear, 1)

VARIABLES
    dev,    \* the medium
    dead,   \* the blocks that can no longer be erased or programmed
    fs,     \* the mounted FileSystem, or None
    op,     \* the format or mutate call under way, or None
    reply   \* what the last call returned, none while one is under way

vars == <<dev, dead, fs, op, reply>>


-----------------------------------------------------------------------------
\* The medium as mount reads it.

Erased == [head |-> Blank, commit |-> Blank, body |-> Blank]

At(h, i) == (h.start + i) % BlockCount

HasHeader(d, b) ==
    d[b].head \notin {Blank, Torn} /\ d[b].commit = "set" /\ d[b].head.start = b

Valid(d, h) ==
    \A i \in 0 .. h.span - 1 : d[At(h, i)].body = [image |-> h.image, part |-> i]

Readable(d, h) == d[h.start].head = h /\ HasHeader(d, h.start) /\ Valid(d, h)

Newer(g, h) == (g - h) % GenMod \in 1 .. (GenMod \div 2) - 1

\* scan_active: the snapshot to mount, after the blocks below n were scanned.
Scan(d) ==
    LET newest[n \in 0 .. BlockCount] ==
            IF n = 0 THEN None
            ELSE LET found == newest[n - 1]
                     b == n - 1
                 IN IF /\ HasHeader(d, b)
                       /\ Valid(d, d[b].head)
                       /\ found # None => Newer(d[b].head.generation, found.generation)
                    THEN d[b].head
                    ELSE found
    IN newest[BlockCount]

HeaderFor(generation, start, content, wear) ==
    [generation |-> generation, start |-> start, span |-> SpanOf[content],
     image |-> [content |-> content, wear |-> wear]]

\* A medium that holds one complete snapshot.
Holding(h) ==
    [b \in Block |->
        IF b = h.start THEN [head |-> h, commit |-> "set",
                             body |-> [image |-> h.image, part |-> 0]]
        ELSE Erased]

Init ==
    /\ \/ dev = [b \in Block |-> Erased] /\ dead = {}
       \/ \E wear \in FirstTables :
            /\ dev = Holding(HeaderFor(FirstGen, 0, Empty, wear))
            /\ dead = Bad(wear)
    /\ fs = None /\ op = None /\ reply = "none"

-----------------------------------------------------------------------------
\* Calls: mount, into_device, format, mutate.

Mount ==
    /\ fs = None /\ op = None /\ Scan(dev) # None
    /\ fs' = [active |-> Scan(dev), wear |-> Scan(dev).image.wear, recovery |-> FALSE]
    /\ reply' = "none"
    /\ UNCHANGED <<dev, dead, op>>

IntoDevice ==
    /\ fs # None /\ op = None
    /\ fs' = None /\ reply' = "none"
    /\ UNCHANGED <<dev, dead, op>>

NextGen(prev) == IF prev = None THEN 0 ELSE (prev.generation + 1) % GenMod

\* One turn of the commit loop: o is the call, with the counters it has now.
Attempt(o) ==
    LET span == SpanOf[o.content]
        wear == IF o.name = "mutate" THEN Rescaled(o.wear) ELSE o.wear
        starts == IF o.prev = None THEN ChooseVirginStart(span, wear)
                  ELSE ChooseStart(o.prev, span, wear)
    IN IF o.attempt = MaxAttempts \/ starts = {}
       THEN op' = None /\ reply' = "nospace"
       ELSE /\ \E s \in starts :
                op' = [o EXCEPT !.wear = wear, !.attempt = @ + 1,
                                !.step = "erase", !.at = 0,
                                !.cand = HeaderFor(NextGen(o.prev), s, o.content,
                                                   Incremented(wear, s, span))]
            /\ reply' = "none"

Call(name, content, prev, wear) ==
    [name |-> name, content |-> content, prev |-> prev, wear |-> wear,
     attempt |-> 0, step |-> "erase", at |-> 0, cand |-> None]

BelowBound(h) == h # None => h.generation # LastGen

Format ==
    /\ fs = None /\ op = None
    /\ LET prev == Scan(dev)
           wear == IF prev = None THEN Unworn ELSE prev.image.wear
       IN BelowBound(prev) /\ Attempt(Call("format", Empty, prev, Rescaled(wear)))
    /\ UNCHANGED <<dev, dead, fs>>

Mutate(content) ==
    /\ fs # None /\ op = None /\ ~fs.recovery /\ BelowBound(fs.active)
    /\ IF SpanOf[content] <= BlockCount \div 2
       THEN Attempt(Call("mutate", content, fs.active, fs.wear))
       ELSE op' = op /\ reply' = "nospace"
    /\ UNCHANGED <<dev, dead, fs>>

Level == fs # None /\ Spread(fs.wear) > 1 /\ Mutate(fs.active.image.content)

-----------------------------------------------------------------------------
\* write_candidate, one step per erase and per program call.

Target == At(op.cand, IF op.step \in {"erase", "body"} THEN op.at ELSE 0)

\* A word that is not erased cannot take another value.
Programmed(old, new) == IF old = Blank THEN new ELSE Torn

\* The target block after the step is complete.
Written ==
    LET block == dev[Target]
    IN CASE op.step = "erase" -> Erased
         [] op.step = "prefix" -> [block EXCEPT !.head = Programmed(@, op.cand)]
         [] op.step = "body" ->
                [block EXCEPT !.body =
                    Programmed(@, [image |-> op.cand.image, part |-> op.at])]
         [] op.step = "commit" -> [block EXCEPT !.commit = Programmed(@, "set")]
         [] OTHER -> block

\* The target block when the step was cut short.
CutShort ==
    LET block == dev[Target]
    IN CASE op.step = "erase" ->
                {[head |-> Torn, commit |-> Torn, body |-> Torn],
                 [block EXCEPT !.body = Torn]}
         [] op.step = "prefix" -> {[block EXCEPT !.head = Torn]}
         [] op.step = "body" -> {[block EXCEPT !.body = Torn]}
         [] op.step = "commit" -> {[block EXCEPT !.commit = Torn]}
         [] OTHER -> {}

Write(step) ==
    /\ op # None /\ op.step = step /\ Target \notin dead
    /\ dev' = [dev EXCEPT ![Target] = Written]
    /\ UNCHANGED <<dead, fs, reply>>

\* The step that follows, at the next block of the run or at its first one.
GoOn(next) ==
    op' = IF op.at + 1 < op.cand.span THEN [op EXCEPT !.at = @ + 1]
          ELSE [op EXCEPT !.step = next, !.at = 0]

EraseBlock ==
    /\ Write("erase")
    /\ op.prev # None => ~Overlap(op.prev.start, op.prev.span,
                                  op.cand.start, op.cand.span)
    /\ GoOn("prefix")

ProgramPrefix == Write("prefix") /\ op' = [op EXCEPT !.step = "body"]

ProgramPayload == Write("body") /\ GoOn("verify")

\* sync, and the complete candidate read back before it is published.
Verify ==
    /\ op # None /\ op.step = "verify"
    /\ dev[op.cand.start].head = op.cand /\ dev[op.cand.start].commit = Blank
    /\ Valid(dev, op.cand)
    /\ op' = [op EXCEPT !.step = "commit"]
    /\ UNCHANGED <<dev, dead, fs, reply>>

ProgramCommit == Write("commit") /\ op' = [op EXCEPT !.step = "confirm"]

Confirm ==
    /\ op # None /\ op.step = "confirm" /\ Readable(dev, op.cand)
    /\ fs' = [active |-> op.cand, wear |-> op.cand.image.wear, recovery |-> FALSE]
    /\ op' = None /\ reply' = "ok"
    /\ UNCHANGED <<dev, dead>>

-----------------------------------------------------------------------------
\* What can go wrong.

\* The step had no effect, was cut short, or was completed.
Outcomes == {dev} \cup {[dev EXCEPT ![Target] = b] : b \in CutShort \cup {Written}}

\* The steps after which the commit may be tried elsewhere; the commit word is
\* not one of them, for it may have been programmed all the same.
RetriedWithCommit == {"erase", "prefix", "body", "commit"}
Retried == {"erase", "prefix", "body"}

\* The device reports that the block is worn out: it is marked, in the call's
\* own counters, and the commit is tried elsewhere.
BlockFails ==
    /\ op # None /\ op.step \in Retried
    /\ dead' = dead \cup {Target} /\ Cardinality(dead') <= MaxDead
    /\ dev' \in Outcomes
    /\ Attempt([op EXCEPT !.wear = MarkBad(op.cand.image.wear, Target)])
    /\ UNCHANGED fs

\* Any other error, in a step or in reading back: nobody knows what was done.
DeviceError ==
    /\ op # None
    /\ dev' \in Outcomes
    /\ fs' = IF op.name = "mutate" THEN [fs EXCEPT !.recovery = TRUE] ELSE fs
    /\ op' = None /\ reply' = "error"
    /\ UNCHANGED dead

\* An error while the current snapshot is read for an attempt's checksum.
PlanError ==
    /\ op # None /\ op.name = "mutate" /\ op.step = "erase" /\ op.at = 0
    /\ op' = None /\ reply' = "error"
    /\ UNCHANGED <<dev, dead, fs>>

PowerLoss ==
    /\ fs # None \/ op # None
    /\ dev' \in IF op = None THEN {dev} ELSE Outcomes
    /\ fs' = None /\ op' = None /\ reply' = "lost"
    /\ UNCHANGED dead

-----------------------------------------------------------------------------
Next ==
    \/ Mount \/ IntoDevice \/ Format \/ Level
    \/ \E content \in Content : Mutate(content)
    \/ EraseBlock \/ ProgramPrefix \/ ProgramPayload
    \/ Verify \/ ProgramCommit \/ Confirm
    \/ BlockFails \/ DeviceError \/ PlanError \/ PowerLoss

Spec == Init /\ [][Next]_vars

-----------------------------------------------------------------------------
\* The snapshot to mount is newer than every other complete one that lingers on
\* the medium: the scan's answer depends on no order, across the wrap-around of
\* the generations and with blocks that can no longer be erased.
NewestIsClear ==
    LET found == Scan(dev) IN
        found # None =>
            \A b \in Block :
                HasHeader(dev, b) /\ Valid(dev, dev[b].head) /\ dev[b].head # found
                    => Newer(found.generation, dev[b].head.generation)

\* The tree in a snapshot, and what SnapshotPromise sees of a state.
ContentOf(h) == IF h = None THEN None ELSE h.image.content

Promise == INSTANCE SnapshotPromise WITH
    tree <- ContentOf(Scan(dev)),
    view <- IF fs = None THEN None ELSE ContentOf(fs.active),
    locked <- fs # None /\ fs.recovery,
    call <- IF op = None THEN None ELSE [old |-> ContentOf(op.prev), new |-> op.content]

\* The medium implements the promise: what a mount would show changes in one
\* step from the tree before a call to the tree after it, at the commit word;
\* success is reported after that step only, NoSpace never after it, and when
\* the outcome is unknown the file system refuses changes until it is mounted
\* again (fs.rs:1-20, mutate, write_candidate).
\* A step that changes nothing is not looked at twice: that spares TLC its scans.
Promised == UNCHANGED vars \/ [Promise!Next]_Promise!vars
IsSnapshotPromise == []NewestIsClear /\ Promise!Init /\ [][Promised]_vars

\* The snapshot a mounted file system reads from, and the one a call started
\* from, stay complete on the medium whatever is being written beside them.
ActiveIntact ==
    /\ fs # None => Readable(dev, fs.active)
    /\ op # None /\ op.prev # None => Readable(dev, op.prev)

\* The counters on the medium never lie further apart than one, for any mixture
\* of snapshot sizes, crashes, errors and formats, as long as no block has worn
\* out (tests/wear.rs:17-50 allow two for one such mixture).
WearEven ==
    dead = {} => LET found == Scan(dev) IN found # None => Spread(found.image.wear) <= 1

\* format.rs:62-64 promises more: "a failed commit still records the flag in RAM
\* and persists it with the next successful commit".  The mark made by a call
\* that returns NoSpace would still be there when the call has returned.
Remembered ==
    \A b \in Block :
        /\ op # None /\ b \in Bad(op.wear) \cup (dead' \ dead)
        /\ op' = None /\ reply' = "nospace" /\ fs' # None
        => b \in Bad(fs'.wear)
=============================================================================
