-------------------------- MODULE Snapshot_proofs --------------------------
(***************************************************************************)
(* The snapshot a mounted file system reads from stays complete on the     *)
(* medium whatever is written, torn or lost beside it, what a mount finds  *)
(* is what calls have promised, and blocks wear evenly: proved for every   *)
(* number of blocks, every set of trees and every number of dead blocks    *)
(* (crates/littlefs/src/fs.rs).                                            *)
(***************************************************************************)
EXTENDS Snapshot, QueueLemmas, FiniteSetTheorems

Image  == [content : Content, wear : WearTable]
Header == [generation : 0 .. GenMod - 1, start : Block, span : Nat \ {0}, image : Image]
Body   == [image : Image, part : Nat]
BlockType == [head : Header \cup {Blank, Torn}, commit : {Blank, Torn, "set"},
              body : Body \cup {Blank, Torn}]
FsType == [active : Header, wear : WearTable, recovery : BOOLEAN]
Steps  == {"erase", "prefix", "body", "verify", "commit", "confirm"}
OpType == [name : {"format", "mutate"}, content : Content, prev : Header \cup {None},
           wear : WearTable, attempt : Nat, step : Steps, at : Nat,
           cand : Header \cup {None}]

\* What stands for "nothing", for an erased field and for a torn one is none of the
\* values that can stand in their place.
SnapAssumption ==
    /\ PlacementAssumption /\ SnapshotAssumption
    /\ None \notin Header \cup FsType \cup OpType
                   \cup Content \cup [old : Content \cup {None}, new : Content]
    /\ {Blank, Torn} \cap (Header \cup Body \cup {"set"}) = {} /\ Blank # Torn

SnapTypes ==
    /\ dev \in [Block -> BlockType]
    /\ dead \subseteq Block
    /\ fs \in FsType \cup {None}
    /\ op \in OpType \cup {None}

\* A candidate lies apart from the snapshot the call started from, and that is the
\* snapshot the program reads from: mutate works on a mounted file system only, format
\* on one that is not mounted.
CallInv ==
    op # None =>
        /\ op.cand \in Header /\ op.at < op.cand.span
        /\ op.prev # None => Run(op.cand.start, op.cand.span)
                             \cap Run(op.prev.start, op.prev.span) = {}
        /\ op.name = "mutate" => fs # None /\ op.prev = fs.active
        /\ op.name = "format" => fs = None

SnapInv == SnapTypes /\ CallInv /\ ActiveIntact

-----------------------------------------------------------------------------
\* The blocks of a snapshot are blocks of the medium; the first is where it starts.
LEMMA RunBlocks ==
    ASSUME SnapAssumption, NEW h \in Header
    PROVE  /\ h.start \in Block /\ h.span \in Nat \ {0}
           /\ h.start \in Run(h.start, h.span)
           /\ Run(h.start, h.span) \subseteq Block
           /\ \A i \in 0 .. h.span - 1 : At(h, i) \in Run(h.start, h.span)
           /\ At(h, 0) = h.start
<1>1. h.start \in Block /\ h.span \in Nat \ {0}
  BY DEF Header
<1>2. BlockCount \in Nat /\ BlockCount > 0 /\ h.start \in Nat /\ h.start < BlockCount
  BY <1>1 DEF SnapAssumption, PlacementAssumption, Block
<1>3. At(h, 0) = h.start
  BY <1>2 DEF At
<1>4. \A i \in 0 .. h.span - 1 : At(h, i) \in Run(h.start, h.span)
  BY DEF At, Run
<1>5. h.start \in Run(h.start, h.span)
  BY <1>1, <1>3, <1>4
<1>6. Run(h.start, h.span) \subseteq Block
  BY <1>1, <1>2 DEF Run, Block
<1> QED  BY <1>1, <1>3, <1>4, <1>5, <1>6

\* Whether a snapshot is complete depends on its own blocks only (read_header,
\* validate_stored).
LEMMA ReadableLocal ==
    ASSUME SnapAssumption, NEW h \in Header, NEW d, NEW e, Readable(d, h),
           \A b \in Run(h.start, h.span) : e[b] = d[b]
    PROVE  Readable(e, h)
<1>1. e[h.start] = d[h.start] /\ \A i \in 0 .. h.span - 1 : e[At(h, i)] = d[At(h, i)]
  BY RunBlocks
<1> QED  BY <1>1 DEF Readable, HasHeader, Valid

-----------------------------------------------------------------------------
\* What scan_active has found after the blocks below n, and one turn of its loop.
Turn(d, b, found) ==
    IF /\ HasHeader(d, b)
       /\ Valid(d, d[b].head)
       /\ found # None => Newer(d[b].head.generation, found.generation)
    THEN d[b].head
    ELSE found

ScanUpTo(d, n, f) ==
    /\ f \in [0 .. n -> Header \cup {None}]
    /\ \A m \in 0 .. n : f[m] = IF m = 0 THEN None ELSE Turn(d, m - 1, f[m - 1])

\* One turn yields the header it has found, or what was found before.
LEMMA TurnType ==
    ASSUME NEW d \in [Block -> BlockType], NEW b \in Block,
           NEW found \in Header \cup {None}
    PROVE  /\ Turn(d, b, found) \in Header \cup {None}
           /\ Turn(d, b, found) # found => Readable(d, Turn(d, b, found))
<1>1. CASE Turn(d, b, found) = found
  BY <1>1
<1>2. CASE Turn(d, b, found) # found
  <2>1. /\ HasHeader(d, b) /\ Valid(d, d[b].head) /\ Turn(d, b, found) = d[b].head
    BY <1>2 DEF Turn
  <2>2. d[b].head \in Header /\ d[b].head.start = b
    BY <2>1 DEF HasHeader, BlockType
  <2> QED  BY <2>1, <2>2 DEF Readable
<1> QED  BY <1>1, <1>2

\* The loop of scan_active has a result after every number of blocks.
LEMMA ScanExists ==
    ASSUME SnapAssumption, NEW d \in [Block -> BlockType], NEW n \in 0 .. BlockCount
    PROVE  \E f : ScanUpTo(d, n, f)
<1> DEFINE I == {k \in Nat : k <= BlockCount /\ ~ \E f : ScanUpTo(d, k, f)}
<1>0. BlockCount \in Nat
  BY DEF SnapAssumption, PlacementAssumption
<1>1. SUFFICES I = {}
  BY <1>0
<1>2. SUFFICES ASSUME I # {} PROVE FALSE
  OBVIOUS
<1>3. PICK m \in I : \A k \in I : m <= k
  BY <1>2, LeastElement
<1>4. m \in Nat /\ m <= BlockCount /\ ~ \E f : ScanUpTo(d, m, f)
  BY <1>3
<1>5. m # 0
  <2>1. ScanUpTo(d, 0, [k \in 0 .. 0 |-> None])
    BY DEF ScanUpTo
  <2> QED  BY <2>1, <1>4
<1>6. m - 1 \in Nat /\ m - 1 <= BlockCount /\ m - 1 \in Block /\ m - 1 \notin I
  BY <1>0, <1>3, <1>4, <1>5 DEF Block
<1>7. PICK f : ScanUpTo(d, m - 1, f)
  BY <1>6
<1> DEFINE g == [k \in 0 .. m |-> IF k = m THEN Turn(d, m - 1, f[m - 1]) ELSE f[k]]
<1>8. f[m - 1] \in Header \cup {None}
  BY <1>6, <1>7 DEF ScanUpTo
<1>9. Turn(d, m - 1, f[m - 1]) \in Header \cup {None}
  BY <1>6, <1>8, TurnType
<1>10. g \in [0 .. m -> Header \cup {None}]
  BY <1>4, <1>7, <1>9 DEF ScanUpTo
<1>11. ASSUME NEW k \in 0 .. m
       PROVE  g[k] = IF k = 0 THEN None ELSE Turn(d, k - 1, g[k - 1])
  <2>1. CASE k = m
    <3>1. g[k] = Turn(d, m - 1, f[m - 1]) /\ g[m - 1] = f[m - 1]
      BY <1>4, <1>5, <2>1
    <3> QED  BY <1>5, <2>1, <3>1
  <2>2. CASE k # m
    <3>1. k \in 0 .. m - 1 /\ (k # 0 => k - 1 \in 0 .. m /\ k - 1 # m)
      BY <1>4, <2>2
    <3>2. g[k] = f[k] /\ (k # 0 => g[k - 1] = f[k - 1])
      BY <2>2, <3>1
    <3> QED  BY <1>7, <3>1, <3>2 DEF ScanUpTo
  <2> QED  BY <2>1, <2>2
<1> HIDE DEF g
<1>12. ScanUpTo(d, m, g)
  BY <1>10, <1>11 DEF ScanUpTo
<1> QED  BY <1>4, <1>12

\* The result of scan_active is what its last turn leaves.
LEMMA ScanIs ==
    ASSUME SnapAssumption, NEW d \in [Block -> BlockType]
    PROVE  \E f : ScanUpTo(d, BlockCount, f) /\ Scan(d) = f[BlockCount]
<1>0. BlockCount \in Nat
  BY DEF SnapAssumption, PlacementAssumption
<1> DEFINE Def(f) == f = [n \in 0 .. BlockCount |->
             IF n = 0 THEN None
             ELSE LET found == f[n - 1]
                      b == n - 1
                  IN IF /\ HasHeader(d, b)
                        /\ Valid(d, d[b].head)
                        /\ found # None => Newer(d[b].head.generation, found.generation)
                     THEN d[b].head
                     ELSE found]
<1> DEFINE newest == CHOOSE f : Def(f)
<1>1. PICK g : ScanUpTo(d, BlockCount, g)
  BY <1>0, ScanExists
<1>2. Def(g)
  <2>1. g = [n \in 0 .. BlockCount |-> IF n = 0 THEN None ELSE Turn(d, n - 1, g[n - 1])]
    BY <1>1 DEF ScanUpTo
  <2> QED  BY <2>1 DEF Turn
<1>3. Def(newest)
  BY <1>2
<1>4. Scan(d) = newest[BlockCount]
  BY DEF Scan
<1> HIDE DEF newest
<1>5. newest = [n \in 0 .. BlockCount |->
                  IF n = 0 THEN None ELSE Turn(d, n - 1, newest[n - 1])]
  BY <1>3 DEF Turn
<1> HIDE DEF Def
<1> DEFINE I == {k \in Nat : k <= BlockCount /\ newest[k] \notin Header \cup {None}}
<1>6. ASSUME I # {} PROVE FALSE
  <2>1. PICK m \in I : \A k \in I : m <= k
    BY <1>6, LeastElement
  <2>2. m \in Nat /\ m <= BlockCount /\ newest[m] \notin Header \cup {None}
    BY <2>1
  <2>3. m # 0
    BY <1>0, <1>5, <2>2
  <2>4. m - 1 \in Block /\ m - 1 \in Nat /\ m - 1 <= BlockCount /\ m - 1 \notin I
    BY <1>0, <2>1, <2>2, <2>3 DEF Block
  <2>5. newest[m - 1] \in Header \cup {None}
    BY <2>4
  <2>6. newest[m] = Turn(d, m - 1, newest[m - 1])
    BY <1>0, <1>5, <2>2, <2>3
  <2> QED  BY <2>2, <2>4, <2>5, <2>6, TurnType
<1>7. ScanUpTo(d, BlockCount, newest)
  <2>1. \A n \in 0 .. BlockCount : newest[n] \in Header \cup {None}
    BY <1>0, <1>6
  <2>2. newest \in [0 .. BlockCount -> Header \cup {None}]
    BY <1>5, <2>1
  <2>3. \A m \in 0 .. BlockCount :
           newest[m] = IF m = 0 THEN None ELSE Turn(d, m - 1, newest[m - 1])
    BY <1>5
  <2> QED  BY <2>2, <2>3 DEF ScanUpTo
<1> QED  BY <1>4, <1>7

\* Whatever was found so far is a complete snapshot (scan_active).
LEMMA ScanSteps ==
    ASSUME SnapAssumption, NEW d \in [Block -> BlockType], NEW f, ScanUpTo(d, BlockCount, f)
    PROVE  \A n \in 0 .. BlockCount : f[n] # None => Readable(d, f[n])
<1>0. BlockCount \in Nat
  BY DEF SnapAssumption, PlacementAssumption
<1> DEFINE I == {k \in Nat : k <= BlockCount /\ f[k] # None /\ ~Readable(d, f[k])}
<1>2. ASSUME I # {} PROVE FALSE
  <2>1. PICK m \in I : \A k \in I : m <= k
    BY <1>2, LeastElement
  <2>2. m \in Nat /\ m <= BlockCount /\ f[m] # None /\ ~Readable(d, f[m])
    BY <2>1
  <2>3. m # 0
    BY <1>0, <2>2 DEF ScanUpTo
  <2>4. m - 1 \in Block /\ m - 1 \in 0 .. BlockCount /\ m - 1 \notin I
    BY <1>0, <2>1, <2>2, <2>3 DEF Block
  <2>5. f[m - 1] \in Header \cup {None} /\ (f[m - 1] # None => Readable(d, f[m - 1]))
    BY <1>0, <2>4 DEF ScanUpTo
  <2>6. f[m] = Turn(d, m - 1, f[m - 1])
    BY <1>0, <2>2, <2>3 DEF ScanUpTo
  <2>7. f[m] # f[m - 1] => Readable(d, f[m])
    BY <2>4, <2>5, <2>6, TurnType
  <2> QED  BY <2>2, <2>5, <2>7
<1> QED  BY <1>0, <1>2

\* What mount finds is a complete snapshot.
LEMMA ScanReadable ==
    ASSUME SnapAssumption, NEW d \in [Block -> BlockType]
    PROVE  /\ Scan(d) \in Header \cup {None}
           /\ Scan(d) # None => Readable(d, Scan(d))
<1>0. BlockCount \in 0 .. BlockCount
  BY DEF SnapAssumption, PlacementAssumption
<1>1. PICK f : ScanUpTo(d, BlockCount, f) /\ Scan(d) = f[BlockCount]
  BY ScanIs
<1> QED  BY <1>0, <1>1, ScanSteps DEF ScanUpTo

-----------------------------------------------------------------------------
\* Tables of counters stay within their range (WearTable::increment, rescale, mark_bad).
LEMMA WearTables ==
    ASSUME SnapAssumption, NEW w \in WearTable
    PROVE  /\ Rescaled(w) \in WearTable
           /\ \A s, span : Incremented(w, s, span) \in WearTable
           /\ \A b \in Block : MarkBad(w, b) \in WearTable
           /\ Bad(w) \subseteq Block
<1>0. CountMask \in Nat
  BY DEF SnapAssumption, PlacementAssumption
<1>1. \A c \in 0 .. CountMask : c \div 2 \in 0 .. CountMask
  BY <1>0
<1>2. ASSUME NEW c \in 0 .. CountMask
      PROVE  Min({c + 1, CountMask}) \in 0 .. CountMask
  <2>1. \E x \in {c + 1, CountMask} : \A y \in {c + 1, CountMask} : x <= y
    BY <1>0
  <2>2. Min({c + 1, CountMask}) \in {c + 1, CountMask}
        /\ Min({c + 1, CountMask}) <= CountMask
    BY <2>1 DEF Min
  <2> QED  BY <1>0, <2>2
<1>3. \A b \in Block : w[b] \in [count : 0 .. CountMask, bad : BOOLEAN]
  BY DEF WearTable
<1>4. Rescaled(w) \in WearTable
  BY <1>1, <1>3 DEF Rescaled, WearTable
<1>5. ASSUME NEW s, NEW span PROVE Incremented(w, s, span) \in WearTable
  <2>1. \A b \in Block : [w[b] EXCEPT !.count = Min({@ + 1, CountMask})]
                           \in [count : 0 .. CountMask, bad : BOOLEAN]
    BY <1>2, <1>3
  <2> QED  BY <1>3, <2>1 DEF Incremented, WearTable
<1>6. \A b \in Block : MarkBad(w, b) \in WearTable
  BY <1>3 DEF MarkBad, WearTable
<1>7. Bad(w) \subseteq Block
  BY DEF Bad
<1> QED  BY <1>4, <1>5, <1>6, <1>7

\* A turn of the commit loop ends the call, or starts to write a candidate apart from
\* the snapshot that the call started from (plan_next_compatible, choose_start).
LEMMA AttemptCandidate ==
    ASSUME SnapAssumption, NEW o \in OpType, Attempt(o)
    PROVE  \/ op' = None /\ reply' = "nospace"
           \/ /\ op' # None /\ reply' = "none"
              /\ op' \in OpType /\ op'.name = o.name /\ op'.prev = o.prev
              /\ op'.content = o.content
              /\ op'.cand \in Header /\ op'.at = 0 /\ op'.at < op'.cand.span
              /\ op'.step = "erase"
              /\ op'.cand = HeaderFor(NextGen(o.prev), op'.cand.start, o.content,
                                      op'.cand.image.wear)
              /\ o.prev # None => Run(op'.cand.start, op'.cand.span)
                                    \cap Run(o.prev.start, o.prev.span) = {}
<1> DEFINE span == SpanOf[o.content]
           wear == IF o.name = "mutate" THEN Rescaled(o.wear) ELSE o.wear
           starts == IF o.prev = None THEN ChooseVirginStart(span, wear)
                     ELSE ChooseStart(o.prev, span, wear)
<1> SUFFICES ASSUME ~(op' = None /\ reply' = "nospace")
             PROVE  /\ op' # None /\ reply' = "none"
                    /\ op' \in OpType /\ op'.name = o.name /\ op'.prev = o.prev
                    /\ op'.content = o.content
                    /\ op'.cand \in Header /\ op'.at = 0 /\ op'.at < op'.cand.span
                    /\ op'.step = "erase"
                    /\ op'.cand = HeaderFor(NextGen(o.prev), op'.cand.start, o.content,
                                            op'.cand.image.wear)
                    /\ o.prev # None => Run(op'.cand.start, op'.cand.span)
                                          \cap Run(o.prev.start, o.prev.span) = {}
  OBVIOUS
<1>1. PICK s \in starts :
         op' = [o EXCEPT !.wear = wear, !.attempt = @ + 1, !.step = "erase", !.at = 0,
                         !.cand = HeaderFor(NextGen(o.prev), s, o.content,
                                            Incremented(wear, s, span))]
  BY DEF Attempt
<1>10. reply' = "none"
  BY DEF Attempt
<1>2. o.content \in Content /\ span \in Nat \ {0} /\ wear \in WearTable
  BY WearTables DEF OpType, SnapAssumption, SnapshotAssumption
<1>3. s \in Block /\ (o.prev # None => Run(s, span) \cap Run(o.prev.start, o.prev.span) = {})
  BY <1>1 DEF ChooseVirginStart, ChooseStart, Apart, Usable, Overlap
<1>4. NextGen(o.prev) \in 0 .. GenMod - 1
  BY DEF NextGen, OpType, Header, SnapAssumption, SnapshotAssumption
<1> DEFINE cand == HeaderFor(NextGen(o.prev), s, o.content, Incremented(wear, s, span))
<1>5. Incremented(wear, s, span) \in WearTable
  BY <1>2, WearTables
<1>6. cand \in Header /\ cand.start = s /\ cand.span = span
      /\ cand.image.wear = Incremented(wear, s, span)
  BY <1>2, <1>3, <1>4, <1>5 DEF HeaderFor, Header, Image
<1> HIDE DEF cand, wear, span, starts
<1>7. /\ op'.name = o.name /\ op'.prev = o.prev /\ op'.cand = cand /\ op'.at = 0
      /\ op'.content = o.content /\ op'.step = "erase"
  BY <1>1 DEF OpType, cand
<1>8. op' \in OpType
  <2>1. op' = [o EXCEPT !.wear = wear, !.attempt = @ + 1, !.step = "erase", !.at = 0,
                        !.cand = cand]
    BY <1>1 DEF cand
  <2>2. op' = [name |-> o.name, content |-> o.content, prev |-> o.prev, wear |-> wear,
               attempt |-> o.attempt + 1, step |-> "erase", at |-> 0, cand |-> cand]
    BY <2>1 DEF OpType
  <2>3. o.attempt + 1 \in Nat /\ o.name \in {"format", "mutate"} /\ o.prev \in Header \cup {None}
    BY DEF OpType
  <2> QED  BY <2>2, <2>3, <1>2, <1>6 DEF OpType, Steps
<1>9. cand = HeaderFor(NextGen(o.prev), cand.start, o.content, cand.image.wear)
  BY <1>6 DEF cand
<1>11. op' # None
  BY <1>8 DEF SnapAssumption
<1> QED  BY <1>2, <1>3, <1>6, <1>7, <1>8, <1>9, <1>10, <1>11

-----------------------------------------------------------------------------
\* A step of write_candidate changes the candidate's blocks only, whether it is
\* completed, cut short or without effect (erase_block, program_block).
LEMMA WritesApart ==
    ASSUME SnapAssumption, SnapTypes, CallInv, op # None,
           NEW d \in Outcomes
    PROVE  /\ d \in [Block -> BlockType] /\ Target \in Block
           /\ \A b \in Block \ Run(op.cand.start, op.cand.span) : d[b] = dev[b]
<1>1. op \in OpType /\ op.cand \in Header /\ op.at \in Nat /\ op.at < op.cand.span
      /\ dev \in [Block -> BlockType]
  BY DEF SnapTypes, CallInv, OpType
<1>2. Target \in Run(op.cand.start, op.cand.span) /\ Target \in Block
  <2>1. op.at \in 0 .. op.cand.span - 1 /\ 0 \in 0 .. op.cand.span - 1
    BY <1>1 DEF Header
  <2> QED  BY <1>1, <2>1, RunBlocks DEF Target
<1>3. Written \in BlockType
  <2>1. dev[Target] \in BlockType /\ op.cand.image \in Image
    BY <1>1, <1>2 DEF Header
  <2>2. [image |-> op.cand.image, part |-> op.at] \in Body
    BY <1>1, <2>1 DEF Body
  <2>3. Erased \in BlockType
    BY DEF Erased, BlockType
  <2>4. /\ Programmed(dev[Target].head, op.cand) \in Header \cup {Blank, Torn}
        /\ Programmed(dev[Target].commit, "set") \in {Blank, Torn, "set"}
        /\ Programmed(dev[Target].body, [image |-> op.cand.image, part |-> op.at])
              \in Body \cup {Blank, Torn}
    BY <1>1, <2>2 DEF Programmed
  <2> QED  BY <2>1, <2>3, <2>4 DEF Written, BlockType
<1>4. CutShort \subseteq BlockType
  <2>1. dev[Target] \in BlockType
    BY <1>1, <1>2
  <2>2. [head |-> Torn, commit |-> Torn, body |-> Torn] \in BlockType
    BY DEF BlockType
  <2>3. /\ [dev[Target] EXCEPT !.body = Torn] \in BlockType
        /\ [dev[Target] EXCEPT !.head = Torn] \in BlockType
        /\ [dev[Target] EXCEPT !.commit = Torn] \in BlockType
    BY <2>1 DEF BlockType
  <2> QED  BY <2>2, <2>3 DEF CutShort
<1>5. CASE d = dev
  BY <1>1, <1>2, <1>5
<1>6. ASSUME NEW b \in CutShort \cup {Written}, d = [dev EXCEPT ![Target] = b]
      PROVE  /\ d \in [Block -> BlockType]
             /\ \A c \in Block \ Run(op.cand.start, op.cand.span) : d[c] = dev[c]
  <2>1. b \in BlockType
    BY <1>3, <1>4
  <2> QED  BY <1>1, <1>2, <1>6, <2>1
<1> QED  BY <1>2, <1>5, <1>6 DEF Outcomes

\* So the snapshot that is read, and the one the call started from, stay complete.
LEMMA WritesKeep ==
    ASSUME SnapAssumption, SnapInv, op # None, NEW d \in Outcomes
    PROVE  /\ fs # None => Readable(d, fs.active)
           /\ op.prev # None => Readable(d, op.prev)
<1>1. SnapTypes /\ CallInv /\ ActiveIntact
  BY DEF SnapInv
<1>2. op \in OpType /\ op.prev \in Header \cup {None} /\ op.name \in {"format", "mutate"}
  BY <1>1 DEF SnapTypes, OpType
<1>3. op.prev # None => Readable(d, op.prev)
  <2> SUFFICES ASSUME op.prev # None PROVE Readable(d, op.prev)
    OBVIOUS
  <2>1. op.prev \in Header /\ Readable(dev, op.prev)
        /\ Run(op.cand.start, op.cand.span) \cap Run(op.prev.start, op.prev.span) = {}
    BY <1>1, <1>2 DEF ActiveIntact, CallInv
  <2>2. \A b \in Run(op.prev.start, op.prev.span) : d[b] = dev[b]
    BY <1>1, <2>1, WritesApart, RunBlocks
  <2> QED  BY <2>1, <2>2, ReadableLocal
<1>4. fs # None => Readable(d, fs.active)
  <2> SUFFICES ASSUME fs # None PROVE Readable(d, fs.active)
    OBVIOUS
  <2>1. op.prev = fs.active /\ fs.active \in Header
    BY <1>1, <1>2 DEF CallInv, SnapTypes, FsType
  <2> QED  BY <1>3, <2>1 DEF SnapAssumption
<1> QED  BY <1>3, <1>4

-----------------------------------------------------------------------------
\* A blank medium, or one with a snapshot of the empty tree, that nobody has mounted.
LEMMA SnapInvInit ==
    ASSUME SnapAssumption, Init
    PROVE  SnapInv
<1>1. [b \in Block |-> Erased] \in [Block -> BlockType]
  BY DEF Erased, BlockType
<1>2. ASSUME NEW wear \in FirstTables
      PROVE  Holding(HeaderFor(FirstGen, 0, Empty, wear)) \in [Block -> BlockType]
             /\ Bad(wear) \subseteq Block
  <2> DEFINE h == HeaderFor(FirstGen, 0, Empty, wear)
  <2>1. wear \in WearTable /\ FirstGen \in 0 .. GenMod - 1 /\ 0 \in Block
        /\ SpanOf[Empty] \in Nat \ {0} /\ Empty \in Content
    BY DEF SnapAssumption, SnapshotAssumption, PlacementAssumption, Block
  <2>2. h \in Header
    BY <2>1 DEF HeaderFor, Header, Image
  <2>3. [image |-> h.image, part |-> 0] \in Body
    BY <2>2 DEF Body, Header
  <2> HIDE DEF h
  <2>4. [head |-> h, commit |-> "set", body |-> [image |-> h.image, part |-> 0]]
          \in BlockType /\ Erased \in BlockType
    BY <2>2, <2>3 DEF BlockType, Erased
  <2>5. Holding(h) \in [Block -> BlockType]
    BY <2>4 DEF Holding
  <2> QED  BY <2>5 DEF h, Bad
<1> QED  BY <1>1, <1>2 DEF Init, SnapInv, SnapTypes, CallInv, ActiveIntact

\* The call that format and mutate start from.
LEMMA CallType ==
    ASSUME NEW name \in {"format", "mutate"}, NEW content \in Content,
           NEW prev \in Header \cup {None}, NEW wear \in WearTable
    PROVE  /\ Call(name, content, prev, wear) \in OpType
           /\ Call(name, content, prev, wear).name = name
           /\ Call(name, content, prev, wear).prev = prev
           /\ Call(name, content, prev, wear).content = content
BY DEF Call, OpType, Steps

\* A step that goes on within a call, from the step's own writing.
LEMMA StepKeeps ==
    ASSUME SnapAssumption, SnapInv, op # None, dev' \in Outcomes, fs' = fs, dead' = dead,
           NEW a \in Nat, a < op.cand.span, NEW step \in Steps,
           op' = [op EXCEPT !.at = a, !.step = step]
    PROVE  SnapInv'
<1>1. SnapTypes /\ CallInv /\ op \in OpType
  BY DEF SnapInv, SnapTypes
<1>2. /\ op'.cand = op.cand /\ op'.prev = op.prev /\ op'.name = op.name /\ op'.at = a
      /\ op' \in OpType
  BY <1>1 DEF OpType
<1>3. SnapTypes'
  BY <1>1, <1>2, WritesApart DEF SnapTypes
<1>4. CallInv'
  BY <1>1, <1>2 DEF CallInv
<1>5. ActiveIntact'
  <2>1. (fs # None => Readable(dev', fs.active)) /\ (op.prev # None => Readable(dev', op.prev))
    BY WritesKeep
  <2> QED  BY <1>2, <2>1 DEF ActiveIntact
<1> QED  BY <1>3, <1>4, <1>5 DEF SnapInv

\* A turn of the commit loop, from a call on the snapshot that is mounted or found.
LEMMA AttemptKeeps ==
    ASSUME SnapAssumption, SnapTypes, NEW o \in OpType, Attempt(o),
           dev' \in [Block -> BlockType], dead' \subseteq Block, fs' = fs,
           fs # None => Readable(dev', fs.active),
           o.prev # None => Readable(dev', o.prev),
           o.name = "mutate" => fs # None /\ o.prev = fs.active,
           o.name = "format" => fs = None
    PROVE  SnapInv'
<1>1. CASE op' = None
  BY <1>1 DEF SnapInv, SnapTypes, CallInv, ActiveIntact
<1>2. CASE op' # None
  <2>1. /\ op' \in OpType /\ op'.name = o.name /\ op'.prev = o.prev
        /\ op'.cand \in Header /\ op'.at < op'.cand.span
        /\ o.prev # None => Run(op'.cand.start, op'.cand.span)
                              \cap Run(o.prev.start, o.prev.span) = {}
    BY <1>2, AttemptCandidate
  <2> QED  BY <2>1 DEF SnapInv, SnapTypes, CallInv, ActiveIntact
<1> QED  BY <1>1, <1>2

\* Each step keeps the invariant: the calls, the steps of writing, and what can go wrong.
LEMMA SnapInvNext ==
    ASSUME SnapAssumption, SnapInv, [Next]_vars
    PROVE  SnapInv'
<1>0. /\ SnapTypes /\ CallInv /\ ActiveIntact
      /\ dev \in [Block -> BlockType] /\ dead \subseteq Block
      /\ fs \in FsType \cup {None} /\ op \in OpType \cup {None}
  BY DEF SnapInv, SnapTypes
<1>1. CASE Mount
  <2>1. fs' = [active |-> Scan(dev), wear |-> Scan(dev).image.wear, recovery |-> FALSE]
        /\ Scan(dev) # None /\ UNCHANGED <<dev, dead, op>> /\ op = None
    BY <1>1 DEF Mount
  <2>2. Scan(dev) \in Header /\ Readable(dev, Scan(dev))
    BY <1>0, <2>1, ScanReadable
  <2>3. fs' \in FsType /\ fs'.active = Scan(dev)
    BY <2>1, <2>2 DEF FsType, Header, Image
  <2> QED  BY <1>0, <2>1, <2>2, <2>3 DEF SnapInv, SnapTypes, CallInv, ActiveIntact
<1>2. CASE IntoDevice
  BY <1>0, <1>2 DEF IntoDevice, SnapInv, SnapTypes, CallInv, ActiveIntact
<1>3. CASE Format
  <2> DEFINE prev == Scan(dev)
             wear == IF prev = None THEN Unworn ELSE prev.image.wear
             o == Call("format", Empty, prev, Rescaled(wear))
  <2>1. fs = None /\ Attempt(o) /\ UNCHANGED <<dev, dead, fs>>
    BY <1>3 DEF Format
  <2>2. prev \in Header \cup {None} /\ (prev # None => Readable(dev, prev))
    BY <1>0, ScanReadable
  <2>3. Unworn \in WearTable
    BY DEF Unworn, WearTable, SnapAssumption, PlacementAssumption
  <2>4. wear \in WearTable
    BY <2>2, <2>3 DEF Header, Image
  <2>5. Empty \in Content
    BY DEF SnapAssumption, SnapshotAssumption
  <2> HIDE DEF prev, wear
  <2>6. o \in OpType /\ o.name = "format" /\ o.prev = prev
    BY <2>2, <2>4, <2>5, WearTables, CallType
  <2> HIDE DEF o
  <2> QED  BY <1>0, <2>1, <2>2, <2>6, AttemptKeeps
<1>4. ASSUME NEW content \in Content, Mutate(content)
      PROVE  SnapInv'
  <2> DEFINE o == Call("mutate", content, fs.active, fs.wear)
  <2>1. fs # None /\ UNCHANGED <<dev, dead, fs>> /\ (Attempt(o) \/ op' = op) /\ op = None
    BY <1>4 DEF Mutate
  <2>2. fs.active \in Header /\ fs.wear \in WearTable
    BY <1>0, <2>1 DEF FsType
  <2>3. o \in OpType /\ o.name = "mutate" /\ o.prev = fs.active
    BY <2>2, CallType
  <2>4. Readable(dev, fs.active)
    BY <1>0, <2>1 DEF ActiveIntact
  <2> HIDE DEF o
  <2>5. CASE Attempt(o)
    BY <1>0, <2>1, <2>3, <2>4, <2>5, AttemptKeeps
  <2>6. CASE op' = op
    BY <1>0, <2>1, <2>4, <2>6 DEF SnapInv, SnapTypes, CallInv, ActiveIntact
  <2> QED  BY <2>1, <2>5, <2>6
<1>5. CASE Level
  <2>1. fs.active.image.content \in Content
    BY <1>0, <1>5 DEF Level, FsType, Header, Image
  <2> QED  BY <1>4, <1>5, <2>1 DEF Level
<1>6. ASSUME op # None, NEW step \in Steps, Write(step)
      PROVE  dev' \in Outcomes /\ UNCHANGED <<dead, fs>>
  BY <1>6 DEF Write, Outcomes
<1>7. ASSUME op # None
      PROVE  /\ op \in OpType /\ op.cand \in Header /\ op.at \in Nat /\ op.at < op.cand.span
             /\ op.cand.span \in Nat \ {0} /\ dev \in Outcomes
             /\ op = [op EXCEPT !.at = op.at, !.step = op.step]
  BY <1>0, <1>7 DEF CallInv, OpType, Header, Outcomes
<1>8. ASSUME op # None, NEW next \in Steps, GoOn(next), dev' \in Outcomes, UNCHANGED <<dead, fs>>
      PROVE  SnapInv'
  <2>1. CASE op.at + 1 < op.cand.span
    <3>1. op' = [op EXCEPT !.at = op.at + 1, !.step = op.step]
      BY <1>7, <1>8, <2>1 DEF GoOn, OpType
    <3>2. op.at + 1 \in Nat /\ op.step \in Steps
      BY <1>7, <1>8 DEF OpType
    <3> QED  BY <1>8, <2>1, <3>1, <3>2, StepKeeps
  <2>2. CASE ~(op.at + 1 < op.cand.span)
    <3>1. op' = [op EXCEPT !.at = 0, !.step = next]
      BY <1>7, <1>8, <2>2 DEF GoOn, OpType
    <3>2. 0 < op.cand.span
      BY <1>7, <1>8
    <3> QED  BY <1>8, <3>1, <3>2, StepKeeps
  <2> QED  BY <2>1, <2>2
<1>9. ASSUME op # None, NEW next \in Steps, op' = [op EXCEPT !.step = next],
             dev' \in Outcomes, UNCHANGED <<dead, fs>>
      PROVE  SnapInv'
  <2>1. op' = [op EXCEPT !.at = op.at, !.step = next]
    BY <1>7, <1>9 DEF OpType
  <2> QED  BY <1>7, <1>9, <2>1, StepKeeps
<1>10. CASE EraseBlock
  <2>1. op # None /\ Write("erase") /\ GoOn("prefix")
    BY <1>10 DEF EraseBlock, Write
  <2> QED  BY <2>1, <1>6, <1>8 DEF Steps
<1>11. CASE ProgramPrefix
  <2>1. op # None /\ Write("prefix") /\ op' = [op EXCEPT !.step = "body"]
    BY <1>11 DEF ProgramPrefix, Write
  <2> QED  BY <2>1, <1>6, <1>9 DEF Steps
<1>12. CASE ProgramPayload
  <2>1. op # None /\ Write("body") /\ GoOn("verify")
    BY <1>12 DEF ProgramPayload, Write
  <2> QED  BY <2>1, <1>6, <1>8 DEF Steps
<1>13. CASE Verify
  BY <1>13, <1>7, <1>9 DEF Verify, Steps
<1>14. CASE ProgramCommit
  <2>1. op # None /\ Write("commit") /\ op' = [op EXCEPT !.step = "confirm"]
    BY <1>14 DEF ProgramCommit, Write
  <2> QED  BY <2>1, <1>6, <1>9 DEF Steps
<1>15. CASE Confirm
  <2>1. /\ op # None /\ Readable(dev, op.cand) /\ op' = None /\ UNCHANGED <<dev, dead>>
        /\ fs' = [active |-> op.cand, wear |-> op.cand.image.wear, recovery |-> FALSE]
    BY <1>15 DEF Confirm
  <2>2. fs' \in FsType /\ fs'.active = op.cand
    BY <1>7, <2>1 DEF FsType, Header, Image
  <2> QED  BY <1>0, <2>1, <2>2 DEF SnapInv, SnapTypes, CallInv, ActiveIntact
<1>16. CASE BlockFails
  <2> DEFINE o == [op EXCEPT !.wear = MarkBad(op.cand.image.wear, Target)]
  <2>1. op # None /\ dead' = dead \cup {Target} /\ dev' \in Outcomes /\ fs' = fs /\ Attempt(o)
    BY <1>16 DEF BlockFails
  <2>2. dev' \in [Block -> BlockType] /\ Target \in Block
    BY <1>0, <2>1, WritesApart
  <2>3. op.cand.image.wear \in WearTable
    BY <1>7, <2>1 DEF Header, Image
  <2>4. MarkBad(op.cand.image.wear, Target) \in WearTable
    BY <2>2, <2>3, WearTables
  <2>5. o \in OpType /\ o.name = op.name /\ o.prev = op.prev
    BY <1>7, <2>1, <2>4 DEF OpType
  <2>6. (fs # None => Readable(dev', fs.active)) /\ (op.prev # None => Readable(dev', op.prev))
    BY <2>1, WritesKeep
  <2> HIDE DEF o
  <2> QED  BY <1>0, <2>1, <2>2, <2>5, <2>6, AttemptKeeps DEF CallInv
<1>17. CASE DeviceError
  <2>1. /\ op # None /\ dev' \in Outcomes /\ dead' = dead /\ op' = None
        /\ fs' = IF op.name = "mutate" THEN [fs EXCEPT !.recovery = TRUE] ELSE fs
    BY <1>17 DEF DeviceError
  <2>2. dev' \in [Block -> BlockType] /\ (fs # None => Readable(dev', fs.active))
    BY <1>0, <2>1, WritesApart, WritesKeep
  <2>3. CASE op.name = "mutate"
    <3>1. fs \in FsType
      BY <1>0, <2>1, <2>3 DEF CallInv
    <3>2. fs' \in FsType /\ fs'.active = fs.active /\ fs # None
      BY <1>0, <2>1, <2>3, <3>1 DEF FsType, CallInv
    <3> QED  BY <1>0, <2>1, <2>2, <3>2 DEF SnapInv, SnapTypes, CallInv, ActiveIntact
  <2>4. CASE op.name # "mutate"
    BY <1>0, <2>1, <2>2, <2>4 DEF SnapInv, SnapTypes, CallInv, ActiveIntact
  <2> QED  BY <2>3, <2>4
<1>18. CASE PlanError
  BY <1>0, <1>18 DEF PlanError, SnapInv, SnapTypes, CallInv, ActiveIntact
<1>19. CASE PowerLoss
  <2>1. dev' \in [Block -> BlockType] /\ dead' = dead /\ fs' = None /\ op' = None
    BY <1>0, <1>19, WritesApart DEF PowerLoss
  <2> QED  BY <1>0, <2>1 DEF SnapInv, SnapTypes, CallInv, ActiveIntact
<1>20. CASE UNCHANGED vars
  BY <1>0, <1>20 DEF vars, SnapInv, SnapTypes, CallInv, ActiveIntact
<1> QED
  BY <1>1, <1>2, <1>3, <1>4, <1>5, <1>10, <1>11, <1>12, <1>13, <1>14, <1>15, <1>16,
     <1>17, <1>18, <1>19, <1>20 DEF Next

\* The snapshot a mounted file system reads from, and the one a call started from, stay
\* complete on the medium, through every crash, torn write, worn-out block and retry.
THEOREM SnapshotSafe ==
    ASSUME SnapAssumption
    PROVE  Spec => []ActiveIntact
<1>1. Init => SnapInv
  BY SnapInvInit
<1>2. SnapInv /\ [Next]_vars => SnapInv'
  BY SnapInvNext
<1>3. SnapInv => ActiveIntact
  BY DEF SnapInv
<1> QED
  BY <1>1, <1>2, <1>3, PTL DEF Spec

-----------------------------------------------------------------------------
(***************************************************************************)
(* Which snapshot is mounted.  Generations are compared modulo GenMod; the *)
(* comparison orders them as long as all that are on the medium lie within *)
(* half of the circle: there, the one with fewer changes left until the    *)
(* last is the newer one.                                                  *)
(***************************************************************************)
Left(g) == (LastGen - g) % GenMod
Recent(g) == Left(g) < GenMod \div 2

\* The run ends 2^31 - 1 changes after the generation the medium started with, whether
\* it was used before or is blank.
WindowAssumption == LastGen \in 0 .. GenMod - 1 /\ Recent(FirstGen) /\ Recent(0)

\* Every complete snapshot on the medium lies in that window, and h, if there is any, is
\* newer than all others.
InWindow(d) == \A g \in Header : Readable(d, g) => Recent(g.generation)
Top(d, h) ==
    /\ h \in Header \cup {None} /\ (h # None => Readable(d, h))
    /\ \A g \in Header : Readable(d, g) /\ g # h =>
          h # None /\ Left(h.generation) < Left(g.generation)

\* How far the erasing and writing of the candidate got: no block of it holds a commit
\* word before the last step, and the last step finds the rest complete.
WriteInv ==
    /\ \A i \in 0 .. op.cand.span - 1 :
          (op.step = "erase" => i < op.at) /\ op.step # "confirm"
              => dev[At(op.cand, i)].commit = Blank
    /\ op.step = "commit" => dev[op.cand.start].head = op.cand /\ Valid(dev, op.cand)

\* A call starts from the newest snapshot, and its candidate is newer by one; until the
\* commit word is there the newest is still the old one.  When the outcome of a call is
\* unknown the mounted file system refuses changes.
GenInv ==
    /\ InWindow(dev) /\ Top(dev, Scan(dev))
    /\ op # None =>
          /\ reply = "none" /\ (fs # None => ~fs.recovery)
          /\ op.prev # None => op.prev.generation # LastGen
          /\ op.cand.generation = NextGen(op.prev)
          /\ op.cand.image.content = op.content
          /\ Scan(dev) = IF op.step = "confirm" THEN op.cand ELSE op.prev
          /\ WriteInv
    /\ op = None /\ fs # None /\ ~fs.recovery => Scan(dev) = fs.active

\* Generations count up within the window, and the comparison tells which came first
\* (compare_generation, next_generation).
LEMMA Generations ==
    ASSUME SnapAssumption, WindowAssumption
    PROVE  /\ \A g \in 0 .. GenMod - 1 : Left(g) \in 0 .. GenMod - 1
           /\ \A g, h \in 0 .. GenMod - 1 :
                Left(g) < Left(h) /\ Recent(h) => Newer(g, h)
           /\ \A g, h \in 0 .. GenMod - 1 :
                Left(h) <= Left(g) /\ Recent(g) => ~Newer(g, h)
           /\ \A h \in Header : h.generation # LastGen /\ Recent(h.generation)
                => /\ Left(NextGen(h)) = Left(h.generation) - 1
                   /\ Recent(NextGen(h))
<1>0. GenMod \in Nat \ {0} /\ LastGen \in 0 .. GenMod - 1
  BY DEF SnapAssumption, SnapshotAssumption, WindowAssumption
<1>1. \A g \in 0 .. GenMod - 1 : Left(g) = IF g <= LastGen THEN LastGen - g
                                            ELSE LastGen - g + GenMod
  BY <1>0 DEF Left
<1>2. \A g \in 0 .. GenMod - 1 : Left(g) \in 0 .. GenMod - 1
  BY <1>0, <1>1
<1>3. ASSUME NEW g \in 0 .. GenMod - 1, NEW h \in 0 .. GenMod - 1
      PROVE  (g - h) % GenMod = IF h <= g THEN g - h ELSE g - h + GenMod
  BY <1>0
<1>4. GenMod \div 2 \in Nat /\ 2 * (GenMod \div 2) <= GenMod
  BY <1>0
<1>5. ASSUME NEW g \in 0 .. GenMod - 1, NEW h \in 0 .. GenMod - 1,
             Left(g) < Left(h), Recent(h)
      PROVE  Newer(g, h)
  <2>1. (g - h) % GenMod = Left(h) - Left(g)
    BY <1>0, <1>1, <1>3, <1>5
  <2>2. Left(h) - Left(g) \in 1 .. (GenMod \div 2) - 1
    BY <1>2, <1>4, <1>5 DEF Recent
  <2> QED  BY <2>1, <2>2 DEF Newer
<1>6. ASSUME NEW g \in 0 .. GenMod - 1, NEW h \in 0 .. GenMod - 1,
             Left(h) <= Left(g), Recent(g)
      PROVE  ~Newer(g, h)
  <2>1. (g - h) % GenMod = 0 \/ (g - h) % GenMod = GenMod - (Left(g) - Left(h))
    <3>1. CASE h <= g
      BY <1>0, <1>1, <1>3, <1>6, <3>1
    <3>2. CASE g < h
      BY <1>0, <1>1, <1>3, <1>6, <3>2
    <3> QED  BY <1>0, <3>1, <3>2
  <2>2. Left(g) - Left(h) \in 0 .. (GenMod \div 2) - 1
    BY <1>2, <1>4, <1>6 DEF Recent
  <2>3. ~((g - h) % GenMod \in 1 .. (GenMod \div 2) - 1)
    BY <1>0, <1>4, <2>1, <2>2
  <2> QED  BY <2>3 DEF Newer
<1>7. ASSUME NEW h \in Header, h.generation # LastGen, Recent(h.generation)
      PROVE  /\ Left(NextGen(h)) = Left(h.generation) - 1
             /\ Recent(NextGen(h))
  <2>1. h.generation \in 0 .. GenMod - 1 /\ h # None
    BY DEF Header, SnapAssumption
  <2>2. NextGen(h) = IF h.generation + 1 = GenMod THEN 0 ELSE h.generation + 1
    BY <1>0, <2>1 DEF NextGen
  <2>3. NextGen(h) \in 0 .. GenMod - 1
    BY <1>0, <2>1, <2>2
  <2>4. Left(NextGen(h)) = Left(h.generation) - 1
    BY <1>0, <1>1, <1>7, <2>1, <2>2, <2>3
  <2> QED  BY <1>2, <1>4, <1>7, <2>1, <2>3, <2>4 DEF Recent
<1> QED  BY <1>2, <1>5, <1>6, <1>7

\* The scan finds the newest snapshot, in whatever order they lie on the medium: once it
\* has passed that one, no other displaces it.
LEMMA ScanTop ==
    ASSUME SnapAssumption, WindowAssumption, NEW d \in [Block -> BlockType],
           NEW h, InWindow(d), Top(d, h)
    PROVE  Scan(d) = h
<1>0. BlockCount \in Nat /\ h \in Header \cup {None}
  BY DEF SnapAssumption, PlacementAssumption, Top
<1>1. CASE h = None
  <2>1. Scan(d) \in Header => Readable(d, Scan(d)) /\ Scan(d) # None
    BY ScanReadable DEF SnapAssumption
  <2>2. Scan(d) \notin Header
    BY <1>1, <2>1 DEF Top
  <2> QED  BY <1>1, <2>2, ScanReadable
<1>2. CASE h # None
  <2>1. /\ h \in Header /\ Readable(d, h) /\ h.start \in Block
        /\ h.start \in Nat /\ h.start < BlockCount
        /\ h.generation \in 0 .. GenMod - 1
    BY <1>0, <1>2 DEF Top, Header, Block
  <2>2. ASSUME NEW g \in Header, Readable(d, g), g # h
        PROVE  Newer(h.generation, g.generation) /\ ~Newer(g.generation, h.generation)
    <3>1. /\ g.generation \in 0 .. GenMod - 1
          /\ Left(h.generation) < Left(g.generation)
          /\ Recent(g.generation)
      BY <1>2, <2>1, <2>2 DEF Top, InWindow, Header
    <3>2. Left(g.generation) \in Int /\ Left(h.generation) \in Int
      BY <2>1, <3>1, Generations
    <3>3. Left(h.generation) <= Left(g.generation)
      BY <3>1, <3>2
    <3> QED  BY <2>1, <3>1, <3>3, Generations
  <2>3. PICK f : ScanUpTo(d, BlockCount, f) /\ Scan(d) = f[BlockCount]
    BY ScanIs
  <2>4. \A n \in 0 .. BlockCount :
           f[n] \in Header \cup {None} /\ (f[n] # None => Readable(d, f[n]))
    BY <2>3, ScanSteps DEF ScanUpTo
  <2> DEFINE I == {k \in Nat : h.start < k /\ k <= BlockCount /\ f[k] # h}
  <2>5. ASSUME I # {} PROVE FALSE
    <3>1. PICK m \in I : \A k \in I : m <= k
      BY <2>5, LeastElement
    <3>2. m \in Nat /\ h.start < m /\ m <= BlockCount /\ f[m] # h
      BY <3>1
    <3>3. m - 1 \in Block /\ m - 1 \in 0 .. BlockCount /\ m - 1 \in Nat /\ m \in 0 .. BlockCount
      BY <1>0, <2>1, <3>2 DEF Block
    <3>4. f[m] = Turn(d, m - 1, f[m - 1])
      BY <2>1, <2>3, <3>2, <3>3 DEF ScanUpTo
    <3>5. CASE m - 1 = h.start
      <4>1. HasHeader(d, m - 1) /\ Valid(d, d[m - 1].head) /\ d[m - 1].head = h
        BY <2>1, <3>5 DEF Readable
      <4>2. f[m - 1] # None /\ f[m - 1] # h => Newer(h.generation, f[m - 1].generation)
        BY <2>2, <2>4, <3>3
      <4> QED  BY <3>2, <3>4, <4>1, <4>2 DEF Turn
    <3>6. CASE m - 1 # h.start
      <4>1. f[m - 1] = h
        BY <2>1, <3>1, <3>2, <3>3, <3>6
      <4>2. f[m] = d[m - 1].head /\ HasHeader(d, m - 1) /\ Valid(d, d[m - 1].head)
            /\ Newer(d[m - 1].head.generation, h.generation)
        BY <1>2, <3>2, <3>4, <4>1 DEF Turn
      <4>3. f[m] \in Header /\ Readable(d, f[m])
        BY <3>3, <4>2 DEF HasHeader, BlockType, Readable
      <4> QED  BY <2>2, <3>2, <4>2, <4>3
    <3> QED  BY <3>5, <3>6
  <2>6. BlockCount \notin I
    BY <2>5
  <2> QED  BY <1>0, <2>1, <2>3, <2>6
<1> QED  BY <1>1, <1>2

\* So the scan's answer depends on no order (scan_active).
LEMMA TopIsClear ==
    ASSUME SnapAssumption, WindowAssumption, dev \in [Block -> BlockType],
           InWindow(dev), Top(dev, Scan(dev))
    PROVE  NewestIsClear
<1> DEFINE found == Scan(dev)
<1> SUFFICES ASSUME found # None, NEW b \in Block, HasHeader(dev, b),
                    Valid(dev, dev[b].head), dev[b].head # found
             PROVE  Newer(found.generation, dev[b].head.generation)
  BY DEF NewestIsClear
<1> DEFINE g == dev[b].head
<1>1. g \in Header /\ Readable(dev, g)
  BY DEF HasHeader, BlockType, Readable
<1>2. found \in Header /\ Readable(dev, found)
  BY ScanReadable
<1>3. Left(found.generation) < Left(g.generation) /\ Recent(g.generation)
  BY <1>1, <1>2 DEF Top, InWindow
<1>4. g.generation \in 0 .. GenMod - 1 /\ found.generation \in 0 .. GenMod - 1
  BY <1>1, <1>2 DEF Header
<1> QED  BY <1>3, <1>4, Generations

-----------------------------------------------------------------------------
\* Numbers with the same remainder that lie less than the divisor apart are the same.
LEMMA Division ==
    ASSUME NEW N \in Nat, N > 0, NEW x \in Nat,
           NEW q \in Int, q = x \div N, NEW r \in Nat, r = x % N
    PROVE  x = q * N + r
BY SMTT(30)

LEMMA SameRemainder ==
    ASSUME NEW N \in Nat, N > 0, NEW x \in Nat, NEW y \in Nat, x - y < N, y - x < N,
           x % N = y % N
    PROVE  x = y
<1>1. PICK p \in Int : p = x \div N
  OBVIOUS
<1>2. PICK q \in Int : q = y \div N
  OBVIOUS
<1>3. PICK r \in Nat : r = x % N
  OBVIOUS
<1>4. x = p * N + r /\ y = q * N + r
  BY <1>1, <1>2, <1>3, Division
<1>5. p * N - q * N < N /\ q * N - p * N < N
  BY <1>4
<1>6. ~(p > q) /\ ~(q > p)
  <2>1. \A k, l \in Int : k > l => k * N - l * N >= N
    OBVIOUS
  <2> QED  BY <1>5, <2>1
<1>7. p = q
  BY <1>6
<1> QED  BY <1>4, <1>7

\* Blocks that lie equally far from two starts are the same for one start only.
LEMMA SameStart ==
    ASSUME SnapAssumption, NEW g \in Header, NEW h \in Header, NEW i \in Nat,
           At(g, i) = At(h, i)
    PROVE  g.start = h.start
<1>1. /\ BlockCount \in Nat /\ BlockCount > 0
      /\ g.start \in Nat /\ g.start < BlockCount /\ h.start \in Nat /\ h.start < BlockCount
  BY DEF SnapAssumption, PlacementAssumption, Header, Block
<1>2. (g.start + i) % BlockCount = (h.start + i) % BlockCount
  BY DEF At
<1>3. /\ g.start + i \in Nat /\ h.start + i \in Nat
      /\ (g.start + i) - (h.start + i) < BlockCount
      /\ (h.start + i) - (g.start + i) < BlockCount
  BY <1>1
<1>4. g.start + i = h.start + i
  BY <1>1, <1>2, <1>3, SameRemainder
<1> QED  BY <1>1, <1>4

\* No step of writing completes a snapshot, but the commit word of the candidate: the
\* blocks of the candidate hold no commit word before, and a part of its payload fits no
\* snapshot that starts elsewhere (write_candidate).
LEMMA WritesComplete ==
    ASSUME SnapAssumption, SnapTypes, CallInv, WriteInv, op # None,
           NEW d \in Outcomes, NEW h \in Header, Readable(d, h)
    PROVE  Readable(dev, h) \/ (op.step = "commit" /\ h = op.cand)
<1>0. /\ op.cand \in Header /\ op.at \in Nat /\ op.at < op.cand.span /\ op.step \in Steps
      /\ dev \in [Block -> BlockType]
  BY DEF SnapTypes, CallInv, OpType
<1>1. /\ Target \in Block /\ At(op.cand, 0) = op.cand.start
      /\ 0 \in 0 .. op.cand.span - 1 /\ op.at \in 0 .. op.cand.span - 1
      /\ 0 \in 0 .. h.span - 1 /\ At(h, 0) = h.start /\ h.start \in Block
      /\ \A i \in 0 .. h.span - 1 : At(h, i) \in Block
  BY <1>0, WritesApart, RunBlocks DEF Header
<1>2. \A i \in 0 .. h.span - 1 : [image |-> h.image, part |-> i] \in Body \ {Blank, Torn}
  BY DEF Body, Header, SnapAssumption
<1>3. /\ d[h.start].head = h /\ d[h.start].commit = "set" /\ h \notin {Blank, Torn}
      /\ \A i \in 0 .. h.span - 1 : d[At(h, i)].body = [image |-> h.image, part |-> i]
  BY DEF Readable, HasHeader, Valid
<1>4. ASSUME /\ dev[h.start].head = h /\ dev[h.start].commit = "set"
             /\ \A i \in 0 .. h.span - 1 : dev[At(h, i)].body = d[At(h, i)].body
      PROVE  Readable(dev, h)
  BY <1>3, <1>4 DEF Readable, HasHeader, Valid
<1>5. CASE d = dev
  BY <1>5
<1>6. ASSUME NEW b \in CutShort \cup {Written}, d = [dev EXCEPT ![Target] = b]
      PROVE  Readable(dev, h) \/ (op.step = "commit" /\ h = op.cand)
  <2>1. d[Target] = b /\ \A c \in Block \ {Target} : d[c] = dev[c]
    BY <1>0, <1>1, <1>6
  <2>2. dev[Target] \in BlockType
    BY <1>0, <1>1
  <2>3. CASE op.step = "erase"
    <3>1. b.body \in {Blank, Torn}
      BY <1>6, <2>2, <2>3 DEF Written, CutShort, Erased, BlockType
    <3>2. ASSUME NEW i \in 0 .. h.span - 1, At(h, i) = Target
          PROVE  FALSE
      BY <1>2, <1>3, <2>1, <3>1, <3>2
    <3> QED  BY <1>1, <1>3, <1>4, <2>1, <3>2
  <2>4. CASE op.step = "prefix"
    <3>1. Target = op.cand.start /\ dev[Target].commit = Blank
      BY <1>1, <2>4 DEF Target, WriteInv
    <3>2. b.commit = Blank /\ b.body = dev[Target].body
      BY <1>6, <2>2, <2>4, <3>1 DEF Written, CutShort, BlockType
    <3>3. h.start # Target
      BY <1>3, <2>1, <3>2 DEF SnapAssumption
    <3> QED  BY <1>1, <1>3, <1>4, <2>1, <3>2, <3>3
  <2>5. CASE op.step = "body"
    <3>1. Target = At(op.cand, op.at)
      BY <2>5 DEF Target
    <3>2. /\ b.head = dev[Target].head /\ b.commit = dev[Target].commit
          /\ b.body = Torn \/ b.body = [image |-> op.cand.image, part |-> op.at]
      BY <1>6, <2>2, <2>5 DEF Written, CutShort, BlockType, Programmed
    <3>3. dev[op.cand.start].commit = Blank /\ d[op.cand.start].commit = Blank
      BY <1>0, <1>1, <2>1, <2>5, <3>2, RunBlocks DEF WriteInv
    <3>4. ASSUME NEW i \in 0 .. h.span - 1, At(h, i) = Target
          PROVE  FALSE
      <4>1. [image |-> h.image, part |-> i] = [image |-> op.cand.image, part |-> op.at]
        BY <1>2, <1>3, <2>1, <3>2, <3>4
      <4>2. i = op.at /\ i \in Nat
        BY <4>1, <1>0
      <4>3. h.start = op.cand.start
        BY <1>0, <3>1, <3>4, <4>2, SameStart
      <4> QED  BY <1>3, <3>3, <4>3 DEF SnapAssumption
    <3> QED  BY <1>1, <1>3, <1>4, <2>1, <3>4
  <2>6. CASE op.step = "commit"
    <3>1. Target = op.cand.start /\ dev[Target].head = op.cand
      BY <1>1, <2>6 DEF Target, WriteInv
    <3>2. b.head = dev[Target].head /\ b.body = dev[Target].body
      BY <1>6, <2>2, <2>6 DEF Written, CutShort, BlockType
    <3>3. CASE h.start = Target
      BY <1>3, <2>1, <2>6, <3>1, <3>2, <3>3
    <3>4. CASE h.start # Target
      BY <1>1, <1>3, <1>4, <2>1, <3>2, <3>4
    <3> QED  BY <3>3, <3>4
  <2>7. CASE op.step \in {"verify", "confirm"}
    <3>1. b = dev[Target]
      BY <1>6, <2>7 DEF Written, CutShort
    <3>2. d = dev
      BY <1>0, <1>1, <1>6, <3>1
    <3> QED  BY <3>2
  <2> QED  BY <1>0, <2>3, <2>4, <2>5, <2>6, <2>7 DEF Steps
<1> QED  BY <1>5, <1>6 DEF Outcomes

\* The commit word completes the candidate.
LEMMA CommitCompletes ==
    ASSUME SnapAssumption, SnapTypes, CallInv, WriteInv, op # None, op.step = "commit",
           NEW d, d = [dev EXCEPT ![Target] = Written]
    PROVE  Readable(d, op.cand) /\ d \in Outcomes
<1>0. /\ op.cand \in Header /\ op.at \in Nat /\ op.at < op.cand.span
      /\ dev \in [Block -> BlockType]
  BY DEF SnapTypes, CallInv, OpType
<1>1. d \in Outcomes
  BY DEF Outcomes
<1>2. /\ Target \in Block /\ Target = op.cand.start /\ At(op.cand, 0) = op.cand.start
      /\ 0 \in 0 .. op.cand.span - 1
      /\ \A i \in 0 .. op.cand.span - 1 : At(op.cand, i) \in Block
  BY <1>0, <1>1, WritesApart, RunBlocks DEF Target, Header
<1>3. dev[Target].head = op.cand /\ dev[Target].commit = Blank /\ Valid(dev, op.cand)
  BY <1>2 DEF WriteInv
<1>4. dev[Target] \in BlockType
  BY <1>0, <1>2
<1>5. Written.head = op.cand /\ Written.commit = "set" /\ Written.body = dev[Target].body
  BY <1>3, <1>4 DEF Written, Programmed, BlockType
<1>6. d[Target] = Written /\ \A c \in Block \ {Target} : d[c] = dev[c]
  BY <1>0, <1>2
<1>7. \A i \in 0 .. op.cand.span - 1 : d[At(op.cand, i)].body = dev[At(op.cand, i)].body
  BY <1>2, <1>5, <1>6
<1>8. op.cand \notin {Blank, Torn}
  BY <1>0 DEF SnapAssumption
<1>9. Valid(d, op.cand)
  BY <1>3, <1>7 DEF Valid
<1> QED  BY <1>1, <1>2, <1>5, <1>6, <1>8, <1>9 DEF Readable, HasHeader

\* So the newest snapshot stays the one the call started from until the commit word is
\* written, and is the candidate from then on.
LEMMA NewestAfter ==
    ASSUME SnapAssumption, WindowAssumption, SnapInv, GenInv, op # None, NEW d \in Outcomes
    PROVE  /\ d \in [Block -> BlockType] /\ InWindow(d) /\ Top(d, Scan(d))
           /\ op.step # "commit" => Scan(d) = Scan(dev)
           /\ op.step = "commit" => Scan(d) \in {op.prev, op.cand}
           /\ op.step = "commit" /\ d = [dev EXCEPT ![Target] = Written] => Scan(d) = op.cand
<1>0. /\ SnapTypes /\ CallInv /\ ActiveIntact /\ WriteInv
      /\ op.cand \in Header /\ op.prev \in Header \cup {None} /\ op.step \in Steps
      /\ dev \in [Block -> BlockType] /\ d \in [Block -> BlockType]
  BY WritesApart DEF SnapInv, SnapTypes, CallInv, OpType, GenInv
<1>1. CASE op.step = "confirm"
  <2>1. d = dev
    <3>1. CutShort = {} /\ Written = dev[Target]
      BY <1>1 DEF CutShort, Written
    <3> QED  BY <1>0, <3>1, WritesApart DEF Outcomes
  <2> QED  BY <1>0, <1>1, <2>1 DEF GenInv
<1>2. CASE op.step # "confirm"
  <2>1. Scan(dev) = op.prev /\ InWindow(dev) /\ Top(dev, op.prev)
    BY <1>2 DEF GenInv
  <2>2. op.prev # None => Readable(d, op.prev)
    BY WritesKeep
  <2>3. CASE op.step = "commit" /\ Readable(d, op.cand)
    <3>1. /\ Recent(op.cand.generation)
          /\ op.prev # None => Left(op.cand.generation) = Left(op.prev.generation) - 1
                               /\ Left(op.prev.generation) \in Nat
      <4>1. op.cand.generation = NextGen(op.prev)
            /\ (op.prev # None => op.prev.generation # LastGen)
        BY DEF GenInv
      <4>2. CASE op.prev = None
        BY <4>1, <4>2 DEF NextGen, WindowAssumption
      <4>3. CASE op.prev # None
        <5>1. op.prev \in Header /\ Recent(op.prev.generation)
          BY <1>0, <2>1, <4>3 DEF Top, InWindow
        <5>2. op.prev.generation \in 0 .. GenMod - 1
          BY <5>1 DEF Header
        <5>3. Left(op.prev.generation) \in 0 .. GenMod - 1
          BY <5>2, Generations
        <5> QED  BY <4>1, <4>3, <5>1, <5>3, Generations
      <4> QED  BY <4>2, <4>3
    <3>2. ASSUME NEW g \in Header, Readable(d, g), g # op.cand
          PROVE  Recent(g.generation) /\ Left(op.cand.generation) < Left(g.generation)
      <4>1. Readable(dev, g)
        BY <1>0, <3>2, WritesComplete
      <4>2. op.prev # None /\ (g = op.prev \/ Left(op.prev.generation) < Left(g.generation))
        BY <2>1, <4>1 DEF Top, SnapAssumption
      <4>3. Left(g.generation) \in Int
        BY Generations DEF Header
      <4> QED  BY <2>1, <3>1, <4>1, <4>2, <4>3 DEF InWindow
    <3>3. op.cand # None
      BY <1>0 DEF SnapAssumption
    <3>4. InWindow(d) /\ Top(d, op.cand)
      BY <1>0, <2>3, <3>1, <3>2, <3>3 DEF InWindow, Top
    <3>5. Scan(d) = op.cand
      BY <1>0, <3>4, ScanTop
    <3> QED  BY <1>0, <2>3, <3>4, <3>5
  <2>4. CASE ~(op.step = "commit" /\ Readable(d, op.cand))
    <3>1. \A g \in Header : Readable(d, g) => Readable(dev, g)
      BY <1>0, <2>4, WritesComplete
    <3>2. InWindow(d) /\ Top(d, op.prev)
      BY <1>0, <2>1, <2>2, <3>1 DEF InWindow, Top
    <3>3. Scan(d) = op.prev
      BY <1>0, <3>2, ScanTop
    <3>4. ~(op.step = "commit" /\ d = [dev EXCEPT ![Target] = Written])
      BY <1>0, <2>4, CommitCompletes
    <3> QED  BY <1>0, <2>1, <3>2, <3>3, <3>4
  <2> QED  BY <2>3, <2>4
<1> QED  BY <1>1, <1>2

\* The medium at the start: blank, or with one snapshot.
LEMMA GenInvInit ==
    ASSUME SnapAssumption, WindowAssumption, Init
    PROVE  GenInv
<1>0. dev \in [Block -> BlockType] /\ fs = None /\ op = None
  BY SnapInvInit DEF SnapInv, SnapTypes, Init
<1>1. \E h \in Header \cup {None} : InWindow(dev) /\ Top(dev, h)
  <2>1. CASE dev = [b \in Block |-> Erased]
    <3>1. \A g \in Header : ~Readable(dev, g)
      BY <2>1 DEF Readable, HasHeader, Header, Erased
    <3> QED  BY <3>1 DEF InWindow, Top
  <2>2. ASSUME NEW wear \in FirstTables,
               dev = Holding(HeaderFor(FirstGen, 0, Empty, wear))
        PROVE  \E h \in Header : InWindow(dev) /\ Top(dev, h)
    <3> DEFINE h == HeaderFor(FirstGen, 0, Empty, wear)
    <3>1. /\ wear \in WearTable /\ FirstGen \in 0 .. GenMod - 1 /\ 0 \in Block
          /\ SpanOf[Empty] = 1 /\ Empty \in Content /\ GenMod \in Nat
      BY DEF SnapAssumption, SnapshotAssumption, PlacementAssumption, Block
    <3>2. h \in Header /\ h.start = 0 /\ h.span = 1 /\ h.generation = FirstGen
      BY <3>1 DEF HeaderFor, Header, Image
    <3> HIDE DEF h
    <3>3. h # None /\ h \notin {Blank, Torn} /\ At(h, 0) = h.start
      BY <3>2, RunBlocks DEF SnapAssumption
    <3>4. /\ dev[0] = [head |-> h, commit |-> "set",
                       body |-> [image |-> h.image, part |-> 0]]
          /\ \A b \in Block \ {0} : dev[b] = Erased
      BY <2>2, <3>1, <3>2 DEF Holding, h
    <3>5. Valid(dev, h)
      <4>1. \A i \in 0 .. h.span - 1 : i = 0
        BY <3>2
      <4> QED  BY <3>2, <3>3, <3>4, <4>1 DEF Valid
    <3>6. Readable(dev, h)
      BY <3>2, <3>3, <3>4, <3>5 DEF Readable, HasHeader
    <3>7. \A g \in Header : Readable(dev, g) => g = h
      BY <3>4 DEF Readable, HasHeader, Header, Erased
    <3>8. Recent(h.generation)
      BY <3>2 DEF WindowAssumption
    <3> QED  BY <3>2, <3>3, <3>6, <3>7, <3>8 DEF InWindow, Top
  <2> QED  BY <2>1, <2>2 DEF Init
<1>2. PICK h : InWindow(dev) /\ Top(dev, h)
  BY <1>1
<1>3. Scan(dev) = h
  BY <1>0, <1>2, ScanTop
<1> QED  BY <1>0, <1>2, <1>3 DEF GenInv

\* A turn of the commit loop, from the newest snapshot.
LEMMA AttemptGen ==
    ASSUME SnapAssumption, NEW o \in OpType, Attempt(o),
           InWindow(dev'), Top(dev', Scan(dev')), Scan(dev') = o.prev,
           fs' = fs, fs # None => ~fs.recovery,
           o.prev # None => o.prev.generation # LastGen,
           o.name = "mutate" => o.prev = fs.active,
           o.name = "format" => fs = None
    PROVE  GenInv'
<1>1. CASE op' = None
  <2>1. fs # None => Scan(dev') = fs.active
    BY DEF OpType
  <2> QED  BY <1>1, <2>1 DEF GenInv
<1>2. CASE op' # None
  <2>1. /\ op'.prev = o.prev /\ op'.content = o.content /\ op'.cand \in Header
        /\ op'.at = 0 /\ op'.step = "erase"
        /\ op'.cand = HeaderFor(NextGen(o.prev), op'.cand.start, o.content,
                                op'.cand.image.wear)
    BY <1>2, AttemptCandidate
  <2>2. reply' = "none"
    BY <1>2 DEF Attempt
  <2>3. op'.cand.generation = NextGen(o.prev) /\ op'.cand.image.content = o.content
    BY <2>1 DEF HeaderFor
  <2>4. WriteInv'
    <3>1. \A i \in 0 .. op'.cand.span - 1 : ~(i < op'.at)
      BY <2>1 DEF Header
    <3> QED  BY <2>1, <3>1 DEF WriteInv
  <2> QED  BY <1>2, <2>1, <2>2, <2>3, <2>4 DEF GenInv
<1> QED  BY <1>1, <1>2

\* A step of writing that goes on: the newest stays, or is the candidate once its commit
\* word is there.
LEMMA StepGen ==
    ASSUME SnapAssumption, WindowAssumption, SnapInv, GenInv, op # None, dev' \in Outcomes,
           fs' = fs, reply' = reply, NEW a \in Nat, NEW step \in Steps,
           op' = [op EXCEPT !.at = a, !.step = step], WriteInv',
           op.step = "commit" => dev' = [dev EXCEPT ![Target] = Written],
           op.step \in {"commit", "confirm"} <=> step = "confirm"
    PROVE  GenInv'
<1>1. op \in OpType
  BY DEF SnapInv, SnapTypes
<1>2. /\ op'.prev = op.prev /\ op'.cand = op.cand /\ op'.content = op.content
      /\ op'.step = step /\ op' # None
  <2>1. op' \in OpType
    BY <1>1 DEF OpType
  <2> QED  BY <1>1, <2>1 DEF OpType, SnapAssumption
<1>3. InWindow(dev') /\ Top(dev', Scan(dev'))
  BY NewestAfter
<1>4. Scan(dev') = IF step = "confirm" THEN op.cand ELSE op.prev
  BY NewestAfter DEF GenInv
<1> QED  BY <1>2, <1>3, <1>4 DEF GenInv

\* Each step keeps the newest snapshot known.
LEMMA GenInvNext ==
    ASSUME SnapAssumption, WindowAssumption, SnapInv, GenInv, [Next]_vars
    PROVE  GenInv'
<1>0. /\ SnapTypes /\ CallInv /\ ActiveIntact /\ dev \in [Block -> BlockType]
      /\ fs \in FsType \cup {None} /\ op \in OpType \cup {None}
      /\ InWindow(dev) /\ Top(dev, Scan(dev))
  BY DEF SnapInv, SnapTypes, GenInv
<1>1. ASSUME op # None
      PROVE  /\ op \in OpType /\ op.cand \in Header /\ op.at \in Nat /\ op.at < op.cand.span
             /\ op.cand.span \in Nat \ {0} /\ WriteInv
             /\ \A i \in 0 .. op.cand.span - 1 : At(op.cand, i) \in Block
             /\ At(op.cand, 0) = op.cand.start
             /\ dev \in Outcomes /\ Target \in Block
  BY <1>0, <1>1, RunBlocks, WritesApart DEF CallInv, OpType, Header, Outcomes, GenInv
<1>2. CASE Mount
  BY <1>0, <1>2 DEF Mount, GenInv
<1>3. CASE IntoDevice
  BY <1>0, <1>3 DEF IntoDevice, GenInv
<1>4. CASE Format
  <2> DEFINE prev == Scan(dev)
             wear == IF prev = None THEN Unworn ELSE prev.image.wear
             o == Call("format", Empty, prev, Rescaled(wear))
  <2>1. fs = None /\ Attempt(o) /\ UNCHANGED <<dev, dead, fs>> /\ BelowBound(prev)
    BY <1>4 DEF Format
  <2>2. prev \in Header \cup {None}
    BY <1>0, ScanReadable
  <2>3. Unworn \in WearTable
    BY DEF Unworn, WearTable, SnapAssumption, PlacementAssumption
  <2>4. wear \in WearTable
    BY <2>2, <2>3 DEF Header, Image
  <2>5. Empty \in Content
    BY DEF SnapAssumption, SnapshotAssumption
  <2> HIDE DEF wear
  <2>6. o \in OpType /\ o.name = "format" /\ o.prev = prev
    BY <2>2, <2>4, <2>5, WearTables, CallType
  <2> HIDE DEF o
  <2>7. Scan(dev') = o.prev /\ InWindow(dev') /\ Top(dev', Scan(dev')) /\ fs' = fs
    BY <1>0, <2>1, <2>6
  <2>8. o.prev # None => o.prev.generation # LastGen
    BY <2>1, <2>6 DEF BelowBound
  <2> QED  BY <2>1, <2>6, <2>7, <2>8, AttemptGen
<1>5. ASSUME NEW content \in Content, Mutate(content)
      PROVE  GenInv'
  <2> DEFINE o == Call("mutate", content, fs.active, fs.wear)
  <2>1. /\ fs # None /\ op = None /\ ~fs.recovery /\ UNCHANGED <<dev, dead, fs>>
        /\ Attempt(o) \/ (op' = op /\ BelowBound(fs.active))
    BY <1>5 DEF Mutate
  <2>2. BelowBound(fs.active)
    BY <1>5 DEF Mutate
  <2>3. fs.active \in Header /\ fs.wear \in WearTable
    BY <1>0, <2>1 DEF FsType
  <2>4. o \in OpType /\ o.name = "mutate" /\ o.prev = fs.active
    BY <2>3, CallType
  <2>5. Scan(dev) = fs.active
    BY <2>1 DEF GenInv
  <2> HIDE DEF o
  <2>6. CASE Attempt(o)
    <3>1. Scan(dev') = o.prev /\ InWindow(dev') /\ Top(dev', Scan(dev')) /\ fs' = fs
      BY <1>0, <2>1, <2>4, <2>5
    <3>2. o.prev # None => o.prev.generation # LastGen
      BY <2>2, <2>4 DEF BelowBound
    <3> QED  BY <2>1, <2>4, <2>6, <3>1, <3>2, AttemptGen
  <2>7. CASE op' = op
    BY <1>0, <2>1, <2>5, <2>7 DEF GenInv
  <2> QED  BY <2>1, <2>6, <2>7
<1>6. CASE Level
  <2>1. fs.active.image.content \in Content
    BY <1>0, <1>6 DEF Level, FsType, Header, Image
  <2> QED  BY <1>5, <1>6, <2>1 DEF Level
<1>7. ASSUME op # None, NEW step \in Steps, Write(step)
      PROVE  /\ dev' = [dev EXCEPT ![Target] = Written] /\ dev' \in Outcomes
             /\ op.step = step /\ fs' = fs /\ reply' = reply
             /\ dev'[Target] = Written /\ \A b \in Block \ {Target} : dev'[b] = dev[b]
             /\ dev[Target] \in BlockType
  BY <1>0, <1>1, <1>7 DEF Write, Outcomes
\* The step that follows, as an update of the call.
<1>8. ASSUME op # None, NEW next \in Steps, GoOn(next)
      PROVE  \E a \in Nat, step \in {op.step, next} :
                /\ op' = [op EXCEPT !.at = a, !.step = step]
                /\ op'.at = a /\ op'.step = step /\ op'.cand = op.cand
                /\ \/ step = op.step /\ a = op.at + 1
                   \/ step = next /\ ~(op.at + 1 < op.cand.span)
  <2>1. CASE op.at + 1 < op.cand.span
    <3>0. op.at + 1 \in Nat /\ op' = [op EXCEPT !.at = op.at + 1]
      BY <1>1, <1>8, <2>1 DEF GoOn
    <3>1. op.at + 1 \in Nat /\ op' = [op EXCEPT !.at = op.at + 1, !.step = op.step]
      BY <1>1, <1>8, <3>0 DEF OpType
    <3>2. op'.at = op.at + 1 /\ op'.step = op.step /\ op'.cand = op.cand
      BY <1>1, <1>8, <3>1 DEF OpType
    <3> QED  BY <3>1, <3>2
  <2>2. CASE ~(op.at + 1 < op.cand.span)
    <3>1. op' = [op EXCEPT !.at = 0, !.step = next]
      BY <1>1, <1>8, <2>2 DEF GoOn, OpType
    <3>2. op'.at = 0 /\ op'.step = next /\ op'.cand = op.cand
      BY <1>1, <1>8, <3>1 DEF OpType
    <3> QED  BY <2>2, <3>1, <3>2
  <2> QED  BY <2>1, <2>2
<1>9. ASSUME op # None, NEW next \in Steps, op' = [op EXCEPT !.step = next]
      PROVE  /\ op' = [op EXCEPT !.at = op.at, !.step = next]
             /\ op'.step = next /\ op'.cand = op.cand
  BY <1>1, <1>9 DEF OpType
<1>10. CASE EraseBlock
  <2>1. op # None /\ Write("erase") /\ GoOn("prefix")
    BY <1>10 DEF EraseBlock, Write
  <2>2. /\ dev' \in Outcomes /\ fs' = fs /\ reply' = reply /\ op.step = "erase"
        /\ dev'[Target] = Written /\ \A b \in Block \ {Target} : dev'[b] = dev[b]
    BY <2>1, <1>7 DEF Steps
  <2>3. Written.commit = Blank /\ Target = At(op.cand, op.at)
    BY <2>2 DEF Written, Erased, Target
  <2>4. \A i \in 0 .. op.cand.span - 1 : i <= op.at => dev'[At(op.cand, i)].commit = Blank
    <3> SUFFICES ASSUME NEW i \in 0 .. op.cand.span - 1, i <= op.at
                 PROVE  dev'[At(op.cand, i)].commit = Blank
      OBVIOUS
    <3>1. CASE At(op.cand, i) = Target
      BY <2>2, <2>3, <3>1
    <3>2. CASE At(op.cand, i) # Target
      <4>1. i # op.at
        BY <2>3, <3>2
      <4>2. i < op.at
        BY <1>1, <2>1, <4>1
      <4>3. dev[At(op.cand, i)].commit = Blank
        BY <1>1, <2>1, <2>2, <4>2 DEF WriteInv
      <4> QED  BY <1>1, <2>1, <2>2, <3>2, <4>3
    <3> QED  BY <3>1, <3>2
  <2>6. PICK a \in Nat, step \in {op.step, "prefix"} :
           /\ op' = [op EXCEPT !.at = a, !.step = step]
           /\ op'.at = a /\ op'.step = step /\ op'.cand = op.cand
           /\ \/ step = op.step /\ a = op.at + 1
              \/ step = "prefix" /\ ~(op.at + 1 < op.cand.span)
    BY <1>8, <2>1 DEF Steps
  <2>7. ASSUME NEW i \in 0 .. op.cand.span - 1, step = "erase" => i < a
        PROVE  i <= op.at
    BY <1>1, <2>1, <2>2, <2>6, <2>7
  <2>8. WriteInv'
    BY <2>2, <2>4, <2>6, <2>7 DEF WriteInv
  <2> QED  BY <2>1, <2>2, <2>6, <2>8, StepGen DEF Steps
<1>11. CASE ProgramPrefix
  <2>1. op # None /\ Write("prefix") /\ op' = [op EXCEPT !.step = "body"]
    BY <1>11 DEF ProgramPrefix, Write
  <2>2. /\ dev' \in Outcomes /\ fs' = fs /\ reply' = reply /\ op.step = "prefix"
        /\ dev'[Target] = Written /\ \A b \in Block \ {Target} : dev'[b] = dev[b]
        /\ dev[Target] \in BlockType
    BY <2>1, <1>7 DEF Steps
  <2>3. Written.commit = dev[Target].commit
    BY <2>2 DEF Written, BlockType
  <2>4. /\ op' = [op EXCEPT !.at = op.at, !.step = "body"]
        /\ op'.step = "body" /\ op'.cand = op.cand
    BY <1>9, <2>1 DEF Steps
  <2>5. WriteInv'
    BY <1>1, <2>1, <2>2, <2>3, <2>4 DEF WriteInv
  <2> QED  BY <1>1, <2>1, <2>2, <2>4, <2>5, StepGen DEF Steps
<1>12. CASE ProgramPayload
  <2>1. op # None /\ Write("body") /\ GoOn("verify")
    BY <1>12 DEF ProgramPayload, Write
  <2>2. /\ dev' \in Outcomes /\ fs' = fs /\ reply' = reply /\ op.step = "body"
        /\ dev'[Target] = Written /\ \A b \in Block \ {Target} : dev'[b] = dev[b]
        /\ dev[Target] \in BlockType
    BY <2>1, <1>7 DEF Steps
  <2>3. Written.commit = dev[Target].commit
    BY <2>2 DEF Written, BlockType
  <2>4. PICK a \in Nat, step \in {op.step, "verify"} :
           /\ op' = [op EXCEPT !.at = a, !.step = step]
           /\ op'.step = step /\ op'.cand = op.cand
    BY <1>8, <2>1 DEF Steps
  <2>5. WriteInv'
    BY <1>1, <2>1, <2>2, <2>3, <2>4 DEF WriteInv
  <2> QED  BY <2>1, <2>2, <2>4, <2>5, StepGen DEF Steps
<1>13. CASE Verify
  <2>1. /\ op # None /\ op.step = "verify" /\ op' = [op EXCEPT !.step = "commit"]
        /\ dev[op.cand.start].head = op.cand /\ Valid(dev, op.cand)
        /\ dev' = dev /\ fs' = fs /\ reply' = reply
    BY <1>13 DEF Verify
  <2>2. /\ op' = [op EXCEPT !.at = op.at, !.step = "commit"]
        /\ op'.step = "commit" /\ op'.cand = op.cand
    BY <1>9, <2>1 DEF Steps
  <2>3. WriteInv'
    BY <1>1, <2>1, <2>2 DEF WriteInv
  <2> QED  BY <1>1, <2>1, <2>2, <2>3, StepGen DEF Steps
<1>14. CASE ProgramCommit
  <2>1. op # None /\ Write("commit") /\ op' = [op EXCEPT !.step = "confirm"]
    BY <1>14 DEF ProgramCommit, Write
  <2>2. /\ dev' = [dev EXCEPT ![Target] = Written] /\ dev' \in Outcomes
        /\ fs' = fs /\ reply' = reply /\ op.step = "commit"
    BY <2>1, <1>7 DEF Steps
  <2>3. /\ op' = [op EXCEPT !.at = op.at, !.step = "confirm"]
        /\ op'.step = "confirm" /\ op'.cand = op.cand
    BY <1>9, <2>1 DEF Steps
  <2>4. WriteInv'
    BY <2>3 DEF WriteInv
  <2> QED  BY <1>1, <2>1, <2>2, <2>3, <2>4, StepGen DEF Steps
<1>15. CASE Confirm
  <2>1. /\ op # None /\ op.step = "confirm" /\ op' = None /\ dev' = dev
        /\ fs' = [active |-> op.cand, wear |-> op.cand.image.wear, recovery |-> FALSE]
    BY <1>15 DEF Confirm
  <2>2. Scan(dev) = op.cand
    BY <2>1 DEF GenInv
  <2> QED  BY <1>0, <2>1, <2>2 DEF GenInv
<1>16. CASE BlockFails
  <2> DEFINE o == [op EXCEPT !.wear = MarkBad(op.cand.image.wear, Target)]
  <2>1. op # None /\ op.step \in Retried /\ dev' \in Outcomes /\ fs' = fs /\ Attempt(o)
    BY <1>16 DEF BlockFails
  <2>2. op.cand.image.wear \in WearTable /\ Target \in Block
    BY <1>1, <2>1 DEF Header, Image
  <2>3. MarkBad(op.cand.image.wear, Target) \in WearTable
    BY <2>2, WearTables
  <2>4. o \in OpType /\ o.name = op.name /\ o.prev = op.prev
    BY <1>1, <2>1, <2>3 DEF OpType
  <2> HIDE DEF o
  <2>5. InWindow(dev') /\ Top(dev', Scan(dev')) /\ Scan(dev') = o.prev
    BY <2>1, <2>4, NewestAfter DEF Retried, GenInv
  <2>6. /\ fs # None => ~fs.recovery
        /\ op.prev # None => op.prev.generation # LastGen
    BY <2>1 DEF GenInv
  <2> QED  BY <1>0, <2>1, <2>4, <2>5, <2>6, AttemptGen DEF CallInv
<1>17. CASE DeviceError
  <2>1. /\ op # None /\ dev' \in Outcomes /\ op' = None
        /\ fs' = IF op.name = "mutate" THEN [fs EXCEPT !.recovery = TRUE] ELSE fs
    BY <1>17 DEF DeviceError
  <2>2. InWindow(dev') /\ Top(dev', Scan(dev'))
    BY <2>1, NewestAfter
  <2>3. fs' # None => fs'.recovery
    <3>1. CASE op.name = "mutate"
      <4>1. fs \in FsType
        BY <1>0, <2>1, <3>1 DEF CallInv
      <4> QED  BY <2>1, <3>1, <4>1 DEF FsType
    <3>2. CASE op.name = "format"
      BY <1>0, <2>1, <3>2 DEF CallInv
    <3> QED  BY <1>1, <2>1, <3>1, <3>2 DEF OpType
  <2> QED  BY <2>1, <2>2, <2>3 DEF GenInv
<1>18. CASE PlanError
  <2>1. /\ op # None /\ op.name = "mutate" /\ op.step = "erase" /\ op' = None
        /\ dev' = dev /\ fs' = fs
    BY <1>18 DEF PlanError
  <2>2. Scan(dev) = fs.active
    BY <1>0, <2>1 DEF GenInv, CallInv
  <2> QED  BY <1>0, <2>1, <2>2 DEF GenInv
<1>19. CASE PowerLoss
  <2>1. InWindow(dev') /\ Top(dev', Scan(dev')) /\ fs' = None /\ op' = None
    BY <1>0, <1>19, NewestAfter DEF PowerLoss
  <2> QED  BY <2>1 DEF GenInv
<1>20. CASE UNCHANGED vars
  BY <1>0, <1>20 DEF vars, GenInv, WriteInv
<1> QED
  BY <1>2, <1>3, <1>4, <1>5, <1>6, <1>10, <1>11, <1>12, <1>13, <1>14, <1>15, <1>16,
     <1>17, <1>18, <1>19, <1>20 DEF Next

-----------------------------------------------------------------------------
(***************************************************************************)
(* The medium implements SnapshotPromise: calls start and end as it allows *)
(* and the tree that a mount would find changes at the commit word only.   *)
(***************************************************************************)

\* What the promise sees of a state: nothing is mounted, or under way, exactly if nothing
\* is, and the tree of a snapshot is one of the trees.
LEMMA PromiseView ==
    ASSUME SnapAssumption, SnapInv
    PROVE  /\ ContentOf(Scan(dev)) = None <=> Scan(dev) = None
           /\ ContentOf(Scan(dev)) \in Content \cup {None}
           /\ fs # None => ContentOf(fs.active) # None
           /\ op # None => [old |-> ContentOf(op.prev), new |-> op.content] # None
<1>0. /\ dev \in [Block -> BlockType] /\ fs \in FsType \cup {None} /\ op \in OpType \cup {None}
  BY DEF SnapInv, SnapTypes
<1>1. ASSUME NEW h \in Header PROVE ContentOf(h) \in Content /\ ContentOf(h) # None
  BY DEF Header, Image, ContentOf, SnapAssumption
<1>2. ContentOf(None) = None
  BY DEF ContentOf
<1>3. Scan(dev) \in Header \cup {None}
  BY <1>0, ScanReadable
<1>4. fs # None => fs.active \in Header
  BY <1>0 DEF FsType
<1>5. ASSUME op # None
      PROVE  [old |-> ContentOf(op.prev), new |-> op.content] # None
  <2>1. op.prev \in Header \cup {None} /\ op.content \in Content
    BY <1>0, <1>5 DEF OpType
  <2>2. ContentOf(op.prev) \in Content \cup {None}
    BY <1>1, <1>2, <2>1
  <2>3. [old |-> ContentOf(op.prev), new |-> op.content]
           \in [old : Content \cup {None}, new : Content]
    BY <2>1, <2>2
  <2> QED  BY <2>3 DEF SnapAssumption
<1> QED  BY <1>1, <1>2, <1>3, <1>4, <1>5

\* A turn that starts a call, and one that goes on with it.
LEMMA AttemptPromise ==
    ASSUME SnapAssumption, SnapInv, GenInv, NEW o \in OpType, Attempt(o),
           Scan(dev') = o.prev, Scan(dev) = o.prev, fs' = fs,
           fs # None => ~fs.recovery,
           op # None => o.prev = op.prev /\ o.content = op.content
    PROVE  [Promise!Next]_Promise!vars
<1>0. \/ op' = None /\ reply' = "nospace"
      \/ op' # None /\ reply' = "none" /\ op'.prev = o.prev /\ op'.content = o.content
  BY AttemptCandidate
<1>1. CASE op = None /\ op' = None /\ reply' = "nospace"
  <2>1. Promise!Refuse
    BY <1>1 DEF Promise!Refuse
  <2> QED  BY <2>1 DEF Promise!Next
<1>2. CASE op = None /\ op' # None /\ reply' = "none"
  <2>1. o.content \in Content
    BY DEF OpType
  <2>2. Promise!Start(o.content)
    BY <1>0, <1>2 DEF Promise!Start
  <2> QED  BY <2>1, <2>2 DEF Promise!Next
<1>3. CASE op # None /\ op' = None /\ reply' = "nospace"
  <2>1. Promise!GiveUp
    BY <1>3, PromiseView DEF Promise!GiveUp
  <2> QED  BY <2>1 DEF Promise!Next
<1>4. CASE op # None /\ op' # None /\ reply' = "none"
  BY <1>0, <1>4 DEF Promise!vars, GenInv
<1> QED  BY <1>0, <1>1, <1>2, <1>3, <1>4

LEMMA PromiseStep ==
    ASSUME SnapAssumption, WindowAssumption, SnapInv, GenInv, [Next]_vars
    PROVE  [Promise!Next]_Promise!vars
<1>0. /\ SnapTypes /\ CallInv /\ ActiveIntact /\ dev \in [Block -> BlockType]
      /\ fs \in FsType \cup {None} /\ op \in OpType \cup {None}
  BY DEF SnapInv, SnapTypes
<1>1. /\ ContentOf(Scan(dev)) = None <=> Scan(dev) = None
      /\ fs # None => ContentOf(fs.active) # None
      /\ op # None => [old |-> ContentOf(op.prev), new |-> op.content] # None
  BY PromiseView
<1>2. ASSUME op # None
      PROVE  /\ op \in OpType /\ op.cand \in Header /\ ContentOf(op.cand) = op.content
             /\ op.name \in {"format", "mutate"} /\ reply = "none"
             /\ (fs # None => ~fs.recovery)
             /\ Scan(dev) = IF op.step = "confirm" THEN op.cand ELSE op.prev
             /\ \A d \in Outcomes : ContentOf(Scan(d)) \in {ContentOf(Scan(dev)), op.content}
             /\ \A d \in Outcomes : op.step # "commit" => Scan(d) = Scan(dev)
  <2>1. op \in OpType /\ op.cand \in Header /\ op.name \in {"format", "mutate"}
    BY <1>0, <1>2 DEF CallInv, OpType
  <2>2. ContentOf(op.cand) = op.content
    BY <1>2, <2>1 DEF GenInv, ContentOf, SnapAssumption
  <2>3. /\ Scan(dev) = IF op.step = "confirm" THEN op.cand ELSE op.prev
        /\ reply = "none" /\ (fs # None => ~fs.recovery)
    BY <1>2 DEF GenInv
  <2>4. \A d \in Outcomes : /\ ContentOf(Scan(d)) \in {ContentOf(Scan(dev)), op.content}
                            /\ op.step # "commit" => Scan(d) = Scan(dev)
    BY <1>2, <2>2, <2>3, NewestAfter
  <2> QED  BY <2>1, <2>2, <2>3, <2>4
<1>3. CASE Mount
  <2>1. /\ fs = None /\ op = None /\ Scan(dev) # None /\ reply' = "none"
        /\ fs' = [active |-> Scan(dev), wear |-> Scan(dev).image.wear, recovery |-> FALSE]
        /\ UNCHANGED <<dev, dead, op>>
    BY <1>3 DEF Mount
  <2>2. Scan(dev) \in Header
    BY <1>0, <2>1, ScanReadable
  <2>3. fs' \in FsType /\ fs'.active = Scan(dev) /\ ~fs'.recovery
    BY <2>1, <2>2 DEF FsType, Header, Image
  <2>4. Promise!Mount
    BY <1>1, <2>1, <2>3 DEF Promise!Mount, SnapAssumption
  <2> QED  BY <2>4 DEF Promise!Next
<1>4. CASE IntoDevice
  <2>1. Promise!Unmount
    BY <1>1, <1>4 DEF IntoDevice, Promise!Unmount
  <2> QED  BY <2>1 DEF Promise!Next
<1>5. CASE Format
  <2> DEFINE prev == Scan(dev)
             wear == IF prev = None THEN Unworn ELSE prev.image.wear
             o == Call("format", Empty, prev, Rescaled(wear))
  <2>1. fs = None /\ op = None /\ Attempt(o) /\ UNCHANGED <<dev, dead, fs>>
    BY <1>5 DEF Format
  <2>2. prev \in Header \cup {None}
    BY <1>0, ScanReadable
  <2>3. Unworn \in WearTable
    BY DEF Unworn, WearTable, SnapAssumption, PlacementAssumption
  <2>4. wear \in WearTable
    BY <2>2, <2>3 DEF Header, Image
  <2>5. Empty \in Content
    BY DEF SnapAssumption, SnapshotAssumption
  <2> HIDE DEF wear
  <2>6. o \in OpType /\ o.prev = prev
    BY <2>2, <2>4, <2>5, WearTables, CallType
  <2> HIDE DEF o
  <2> QED  BY <2>1, <2>6, AttemptPromise
<1>6. ASSUME NEW content \in Content, Mutate(content)
      PROVE  [Promise!Next]_Promise!vars
  <2> DEFINE o == Call("mutate", content, fs.active, fs.wear)
  <2>1. /\ fs # None /\ op = None /\ ~fs.recovery /\ UNCHANGED <<dev, dead, fs>>
        /\ Attempt(o) \/ (op' = op /\ reply' = "nospace")
    BY <1>6 DEF Mutate
  <2>2. fs.active \in Header /\ fs.wear \in WearTable
    BY <1>0, <2>1 DEF FsType
  <2>3. o \in OpType /\ o.prev = fs.active
    BY <2>2, CallType
  <2>4. Scan(dev) = fs.active
    BY <2>1 DEF GenInv
  <2> HIDE DEF o
  <2>5. CASE Attempt(o)
    BY <2>1, <2>3, <2>4, <2>5, AttemptPromise
  <2>6. CASE op' = op /\ reply' = "nospace"
    <3>1. Promise!Refuse
      BY <2>1, <2>6 DEF Promise!Refuse
    <3> QED  BY <3>1 DEF Promise!Next
  <2> QED  BY <2>1, <2>5, <2>6
<1>7. CASE Level
  <2>1. fs.active.image.content \in Content
    BY <1>0, <1>7 DEF Level, FsType, Header, Image
  <2> QED  BY <1>6, <1>7, <2>1 DEF Level
\* The steps before the commit word are not seen.
<1>8. ASSUME op # None, dev' \in Outcomes, op.step # "commit", fs' = fs, reply' = reply,
             op' \in OpType, op'.prev = op.prev, op'.content = op.content
      PROVE  UNCHANGED Promise!vars
  <2>1. op' # None
    BY <1>8 DEF SnapAssumption
  <2>2. ContentOf(Scan(dev')) = ContentOf(Scan(dev))
    BY <1>2, <1>8
  <2> QED  BY <1>8, <2>1, <2>2 DEF Promise!vars
<1>9. ASSUME op # None, NEW step \in Steps, Write(step)
      PROVE  dev' \in Outcomes /\ op.step = step /\ fs' = fs /\ reply' = reply
  BY <1>9 DEF Write, Outcomes
<1>10. ASSUME op # None, NEW next \in Steps, GoOn(next) \/ op' = [op EXCEPT !.step = next]
       PROVE  op' \in OpType /\ op'.prev = op.prev /\ op'.content = op.content
  <2>1. op \in OpType /\ op.at + 1 \in Nat
    BY <1>2, <1>10 DEF OpType
  <2>2. \/ op' = [op EXCEPT !.at = op.at + 1]
        \/ op' = [op EXCEPT !.step = next, !.at = 0]
        \/ op' = [op EXCEPT !.step = next]
    BY <1>10 DEF GoOn
  <2>3. CASE op' = [op EXCEPT !.at = op.at + 1]
    BY <2>1, <2>3 DEF OpType
  <2>4. CASE op' = [op EXCEPT !.step = next, !.at = 0]
    <3>1. next \in Steps
      BY <1>10
    <3> QED  BY <2>1, <2>4, <3>1 DEF OpType
  <2>5. CASE op' = [op EXCEPT !.step = next]
    <3>1. next \in Steps
      BY <1>10
    <3> QED  BY <2>1, <2>5, <3>1 DEF OpType
  <2> QED  BY <2>2, <2>3, <2>4, <2>5
<1>11. CASE EraseBlock
  <2>1. op # None /\ Write("erase") /\ GoOn("prefix")
    BY <1>11 DEF EraseBlock, Write
  <2> QED  BY <2>1, <1>8, <1>9, <1>10 DEF Steps
<1>12. CASE ProgramPrefix
  <2>1. op # None /\ Write("prefix") /\ op' = [op EXCEPT !.step = "body"]
    BY <1>12 DEF ProgramPrefix, Write
  <2> QED  BY <2>1, <1>8, <1>9, <1>10 DEF Steps
<1>13. CASE ProgramPayload
  <2>1. op # None /\ Write("body") /\ GoOn("verify")
    BY <1>13 DEF ProgramPayload, Write
  <2> QED  BY <2>1, <1>8, <1>9, <1>10 DEF Steps
<1>14. CASE Verify
  <2>1. /\ op # None /\ op.step = "verify" /\ op' = [op EXCEPT !.step = "commit"]
        /\ dev' \in Outcomes /\ fs' = fs /\ reply' = reply
    BY <1>14 DEF Verify, Outcomes
  <2> QED  BY <2>1, <1>8, <1>10 DEF Steps
\* The commit word.
<1>15. CASE ProgramCommit
  <2>1. op # None /\ Write("commit") /\ op' = [op EXCEPT !.step = "confirm"]
    BY <1>15 DEF ProgramCommit, Write
  <2>2. dev' = [dev EXCEPT ![Target] = Written]
    BY <2>1 DEF Write
  <2>3. /\ dev' \in Outcomes /\ op.step = "commit" /\ fs' = fs /\ reply' = reply
        /\ op' \in OpType /\ op'.prev = op.prev /\ op'.content = op.content
    BY <2>1, <1>9, <1>10 DEF Steps
  <2>4. op' # None
    BY <2>3 DEF SnapAssumption
  <2>5. ContentOf(Scan(dev')) = op.content
    BY <1>2, <2>1, <2>2, <2>3, NewestAfter
  <2>6. Promise!Publish
    BY <1>1, <2>1, <2>3, <2>4, <2>5 DEF Promise!Publish
  <2> QED  BY <2>6 DEF Promise!Next
<1>16. CASE Confirm
  <2>1. /\ op # None /\ op.step = "confirm" /\ op' = None /\ dev' = dev /\ reply' = "ok"
        /\ fs' = [active |-> op.cand, wear |-> op.cand.image.wear, recovery |-> FALSE]
    BY <1>16 DEF Confirm
  <2>2. fs' \in FsType /\ fs'.active = op.cand /\ ~fs'.recovery
    BY <1>2, <2>1 DEF FsType, Header, Image
  <2>3. fs' # None
    BY <2>2 DEF SnapAssumption
  <2>4. ContentOf(Scan(dev)) = op.content
    BY <1>2, <2>1
  <2>5. Promise!Succeed
    BY <1>1, <1>2, <2>1, <2>2, <2>3, <2>4 DEF Promise!Succeed
  <2> QED  BY <2>5 DEF Promise!Next
\* What can go wrong.
<1>17. CASE BlockFails
  <2> DEFINE o == [op EXCEPT !.wear = MarkBad(op.cand.image.wear, Target)]
  <2>1. op # None /\ op.step \in Retried /\ dev' \in Outcomes /\ fs' = fs /\ Attempt(o)
    BY <1>17 DEF BlockFails
  <2>2. op.cand.image.wear \in WearTable /\ Target \in Block
    BY <1>0, <1>2, <2>1, WritesApart DEF Header, Image
  <2>3. MarkBad(op.cand.image.wear, Target) \in WearTable
    BY <2>2, WearTables
  <2>4. o \in OpType /\ o.prev = op.prev /\ o.content = op.content
    BY <1>2, <2>1, <2>3 DEF OpType
  <2> HIDE DEF o
  <2>5. Scan(dev') = o.prev /\ Scan(dev) = o.prev
    BY <1>2, <2>1, <2>4 DEF Retried
  <2> QED  BY <1>2, <2>1, <2>4, <2>5, AttemptPromise
<1>18. CASE DeviceError
  <2>1. /\ op # None /\ dev' \in Outcomes /\ op' = None /\ reply' = "error"
        /\ fs' = IF op.name = "mutate" THEN [fs EXCEPT !.recovery = TRUE] ELSE fs
    BY <1>18 DEF DeviceError
  <2>2. ContentOf(Scan(dev')) \in {ContentOf(Scan(dev)), op.content}
    BY <1>2, <2>1
  <2>3. CASE op.name = "mutate"
    <3>1. fs # None /\ fs \in FsType
      BY <1>0, <2>1, <2>3 DEF CallInv
    <3>2. fs' \in FsType /\ fs'.active = fs.active /\ fs'.recovery
      BY <2>1, <2>3, <3>1 DEF FsType
    <3>3. fs' # None
      BY <3>2 DEF SnapAssumption
    <3>4. Promise!Fail
      BY <1>1, <2>1, <2>2, <3>1, <3>2, <3>3 DEF Promise!Fail
    <3> QED  BY <3>4 DEF Promise!Next
  <2>4. CASE op.name = "format"
    <3>1. fs = None /\ fs' = None
      BY <1>0, <2>1, <2>4 DEF CallInv
    <3>2. Promise!Fail
      BY <1>1, <2>1, <2>2, <3>1 DEF Promise!Fail
    <3> QED  BY <3>2 DEF Promise!Next
  <2> QED  BY <1>2, <2>1, <2>3, <2>4
<1>19. CASE PlanError
  <2>1. /\ op # None /\ op.step = "erase" /\ op' = None /\ reply' = "error"
        /\ dev' = dev /\ fs' = fs
    BY <1>19 DEF PlanError
  <2>2. Promise!GiveUp
    BY <1>1, <1>2, <2>1 DEF Promise!GiveUp
  <2> QED  BY <2>2 DEF Promise!Next
<1>20. CASE PowerLoss
  <2>1. /\ fs' = None /\ op' = None /\ reply' = "lost"
        /\ op = None => dev' = dev
        /\ op # None => dev' \in Outcomes
    BY <1>20 DEF PowerLoss
  <2>2. Promise!PowerLoss
    BY <1>1, <1>2, <2>1 DEF Promise!PowerLoss
  <2> QED  BY <2>2 DEF Promise!Next
<1>21. CASE UNCHANGED vars
  BY <1>21 DEF vars, Promise!vars
<1> QED
  BY <1>3, <1>4, <1>5, <1>6, <1>7, <1>11, <1>12, <1>13, <1>14, <1>15, <1>16, <1>17,
     <1>18, <1>19, <1>20, <1>21 DEF Next

LEMMA PromiseInit ==
    ASSUME SnapAssumption, WindowAssumption, Init
    PROVE  Promise!Init
<1>1. ContentOf(Scan(dev)) \in Content \cup {None}
  BY SnapInvInit, PromiseView
<1> QED  BY <1>1 DEF Init, Promise!Init

\* What a mount would find changes in one step from the tree before a call to the tree
\* after it, success is reported after that step only, and when the outcome is unknown
\* changes are refused until the next mount; and the snapshot found is newer than every
\* other complete one: through crashes, torn writes, worn-out blocks, retries and the
\* wrap-around of the generations, for any medium.
THEOREM SnapshotKeepsPromise ==
    ASSUME SnapAssumption, WindowAssumption
    PROVE  Spec => IsSnapshotPromise
<1>1. Init => SnapInv /\ GenInv /\ Promise!Init
  BY SnapInvInit, GenInvInit, PromiseInit
<1>2. SnapInv /\ GenInv /\ [Next]_vars => SnapInv' /\ GenInv'
  BY SnapInvNext, GenInvNext
<1>3. SnapInv /\ GenInv /\ [Next]_vars => Promised
  BY PromiseStep DEF Promised
<1>4. SnapInv /\ GenInv => NewestIsClear
  BY TopIsClear DEF SnapInv, SnapTypes, GenInv
<1> QED
  BY <1>1, <1>2, <1>3, <1>4, PTL DEF Spec, IsSnapshotPromise

-----------------------------------------------------------------------------
(***************************************************************************)
(* Wear.  While no block has worn out, the counters of a table are level   *)
(* but for one step, and the lower ones begin right behind the snapshot    *)
(* that holds the table.  The cheapest run is then the one that begins     *)
(* there: no other holds fewer of the higher counters, nor is nearer.      *)
(* Counting it up moves the step on, and halving keeps it or levels all.   *)
(***************************************************************************)
\* The sum of counters that are m or m + 1.
SumEquation(T, f, S) ==
    T = [s \in SUBSET S |->
            IF s = {} THEN 0 ELSE LET x == CHOOSE x \in s : TRUE IN f[x] + T[s \ {x}]]

LEMMA SumOfTwo ==
    ASSUME NEW S, IsFiniteSet(S), NEW m \in Nat, NEW f, \A x \in S : f[x] \in {m, m + 1}
    PROVE  SumFunctionOnSet(f, S) = m * Cardinality(S) + Cardinality({x \in S : f[x] = m + 1})
<1> DEFINE H(s) == {x \in s : f[x] = m + 1}
           V(s) == m * Cardinality(s) + Cardinality(H(s))
           c(s) == CHOOSE x \in s : TRUE
<1>1. \A s \in SUBSET S : /\ IsFiniteSet(s) /\ Cardinality(s) \in Nat
                          /\ Cardinality(H(s)) \in Nat /\ V(s) \in Nat
  <2>1. ASSUME NEW s \in SUBSET S
        PROVE  /\ IsFiniteSet(s) /\ Cardinality(s) \in Nat
               /\ Cardinality(H(s)) \in Nat
    <3>1. IsFiniteSet(s)
      BY FS_Subset
    <3>2. IsFiniteSet(H(s))
      BY <3>1, FS_Subset
    <3> QED  BY <3>1, <3>2, FS_CardinalityType
  <2> QED  BY <2>1
<1>2. ASSUME NEW s \in SUBSET S, s # {}
      PROVE  /\ c(s) \in s /\ s \ {c(s)} \in SUBSET S
             /\ Cardinality(s \ {c(s)}) = Cardinality(s) - 1
             /\ V(s) = f[c(s)] + V(s \ {c(s)})
  <2>1. c(s) \in s /\ s \ {c(s)} \in SUBSET S
    BY <1>2
  <2>2. Cardinality(s \ {c(s)}) = Cardinality(s) - 1
    BY <1>1, <2>1, FS_RemoveElement
  <2>3. CASE f[c(s)] = m + 1
    <3>1. H(s \ {c(s)}) = H(s) \ {c(s)} /\ c(s) \in H(s)
      BY <2>1, <2>3
    <3>2. IsFiniteSet(H(s))
      BY <1>1, FS_Subset
    <3>3. ASSUME NEW A, NEW x \in A, IsFiniteSet(A)
          PROVE  Cardinality(A \ {x}) = Cardinality(A) - 1
      BY <3>3, FS_RemoveElement
    <3> HIDE DEF H, c
    <3>5. Cardinality(H(s \ {c(s)})) = Cardinality(H(s)) - 1
      BY <3>1, <3>2, <3>3
    <3> DEFINE C == Cardinality(s)
               B == Cardinality(H(s))
    <3>4. C \in Nat /\ B \in Nat /\ m * C + B = (m + 1) + (m * (C - 1) + (B - 1))
      BY <1>1
    <3> QED  BY <2>1, <2>2, <2>3, <3>4, <3>5
  <2>4. CASE f[c(s)] = m
    <3>0. m # m + 1
      OBVIOUS
    <3> HIDE DEF c
    <3>1. H(s \ {c(s)}) = H(s)
      BY <3>0, <2>4, Zenon
    <3> HIDE DEF H
    <3> DEFINE C == Cardinality(s)
               B == Cardinality(H(s))
    <3>4. C \in Nat /\ B \in Nat /\ m * C + B = m + (m * (C - 1) + B)
      BY <1>1
    <3> QED  BY <2>1, <2>2, <2>4, <3>1, <3>4
  <2> QED  BY <2>1, <2>2, <2>3, <2>4
<1>3. V({}) = 0
  <2>1. H({}) = {}
    OBVIOUS
  <2> QED  BY <2>1, FS_EmptySet
<1> DEFINE T0 == [s \in SUBSET S |-> V(s)]
<1>4. SumEquation(T0, f, S)
  <2> HIDE DEF V, c
  <2>1. ASSUME NEW s \in SUBSET S
        PROVE  T0[s] = IF s = {} THEN 0 ELSE f[c(s)] + T0[s \ {c(s)}]
    BY <1>2, <1>3
  <2> HIDE DEF T0
  <2>2. T0 = [s \in SUBSET S |-> T0[s]]
    BY DEF T0
  <2>3. T0 = [s \in SUBSET S |-> IF s = {} THEN 0 ELSE f[c(s)] + T0[s \ {c(s)}]]
    BY <2>1, <2>2
  <2> QED  BY <2>3 DEF SumEquation, c
<1> DEFINE T == CHOOSE T : SumEquation(T, f, S)
<1>5. SumEquation(T, f, S)
  BY <1>4
<1>6. SumFunctionOnSet(f, S) = T[S]
  BY DEF SumFunctionOnSet, FoldFunctionOnSet, MapThenFoldSet, SumEquation
<1> HIDE DEF T, T0
<1>7. \A s \in SUBSET S : T[s] = IF s = {} THEN 0 ELSE f[c(s)] + T[s \ {c(s)}]
  BY <1>5 DEF SumEquation
<1> DEFINE I == {n \in Nat : \E s \in SUBSET S : Cardinality(s) = n /\ T[s] # V(s)}
<1>8. ASSUME I # {} PROVE FALSE
  <2>1. PICK n \in I : \A k \in I : n <= k
    <3>1. I \in SUBSET Nat
      OBVIOUS
    <3> HIDE DEF I
    <3> QED  BY <1>8, <3>1, LeastElement
  <2>2. PICK s \in SUBSET S : Cardinality(s) = n /\ T[s] # V(s)
    BY <2>1
  <2>3. s # {}
    BY <2>2, <1>7, <1>3
  <2> DEFINE r == s \ {c(s)}
  <2>4. r \in SUBSET S /\ Cardinality(r) = n - 1 /\ V(s) = f[c(s)] + V(r)
    BY <2>2, <2>3, <1>2
  <2> HIDE DEF V, c, r, I
  <2>5. T[r] # V(r)
    BY <2>2, <2>3, <2>4, <1>7 DEF r
  <2>6. n - 1 \in I
    BY <2>4, <2>5, <1>1 DEF I
  <2>7. n \in Nat
    BY <2>1 DEF I
  <2> QED  BY <2>1, <2>6, <2>7
<1>9. T[S] = V(S)
  BY <1>8, <1>1
<1> QED  BY <1>6, <1>9

-----------------------------------------------------------------------------
\* On the ring of blocks: the way from one block to another.
LEMMA RingWay ==
    ASSUME PlacementAssumption
    PROVE  /\ \A a, i \in Block : (a + i) % BlockCount \in Block
           /\ \A a, b \in Block : \E i \in Block : b = (a + i) % BlockCount
           /\ \A a, i, j \in Block : (a + i) % BlockCount = (a + j) % BlockCount => i = j
           /\ \A a \in Block : \A i, j \in Nat : i + j < BlockCount
                => (((a + i) % BlockCount) + j) % BlockCount = (a + (i + j)) % BlockCount
           /\ \A a \in Block : \A i, j \in 0 .. BlockCount : i + j >= BlockCount /\ j < BlockCount
                => (((a + i) % BlockCount) + j) % BlockCount
                     = (a + (i + j - BlockCount)) % BlockCount
<1>0. BlockCount \in Nat /\ BlockCount > 0 /\ Block = 0 .. BlockCount - 1
  BY DEF PlacementAssumption, Block
<1>1. \A x \in Nat : x < 2 * BlockCount =>
        x % BlockCount = IF x < BlockCount THEN x ELSE x - BlockCount
  <2>1. SUFFICES ASSUME NEW x \in Nat, x < 2 * BlockCount
                 PROVE  x % BlockCount = IF x < BlockCount THEN x ELSE x - BlockCount
    OBVIOUS
  <2>2. 0 - BlockCount <= x
    BY <1>0
  <2> QED  BY <1>0, <2>1, <2>2, Remainder
<1>2. \A a, i \in Block : a + i \in Nat /\ a + i < 2 * BlockCount
  BY <1>0
<1>3. \A a, i \in Block : (a + i) % BlockCount \in Block
  BY <1>0, <1>1, <1>2
<1>4. ASSUME NEW a \in Block, NEW b \in Block
      PROVE  \E i \in Block : b = (a + i) % BlockCount
  <2> DEFINE i == IF a <= b THEN b - a ELSE b + BlockCount - a
  <2>1. i \in Block
    BY <1>0
  <2>2. b = (a + i) % BlockCount
    BY <1>0, <1>1, <1>2
  <2> QED  BY <2>1, <2>2
<1>5. \A a, i, j \in Block : (a + i) % BlockCount = (a + j) % BlockCount => i = j
  BY <1>0, <1>1, <1>2
<1>6. ASSUME NEW a \in Block, NEW i \in Nat, NEW j \in Nat, i + j < BlockCount
      PROVE  (((a + i) % BlockCount) + j) % BlockCount = (a + (i + j)) % BlockCount
  <2>1. i \in Block /\ i + j \in Block /\ a \in Nat
    BY <1>0, <1>6
  <2>0. /\ a + i \in Nat /\ a + i < 2 * BlockCount
        /\ a + (i + j) \in Nat /\ a + (i + j) < 2 * BlockCount
    BY <1>0, <2>1
  <2>2. (a + i) % BlockCount = IF a + i < BlockCount THEN a + i ELSE a + i - BlockCount
    BY <1>0, <1>1, <2>0
  <2>3. (a + (i + j)) % BlockCount
          = IF a + (i + j) < BlockCount THEN a + (i + j) ELSE a + (i + j) - BlockCount
    BY <1>0, <1>1, <2>0
  <2>4. CASE a + i < BlockCount
    BY <1>0, <2>1, <2>2, <2>4
  <2>5. CASE ~(a + i < BlockCount)
    <3>1. /\ a + i - BlockCount + j \in Nat /\ a + i - BlockCount + j < BlockCount
          /\ a + i - BlockCount + j < 2 * BlockCount
      BY <1>0, <1>6, <2>1, <2>5
    <3>2. (a + i - BlockCount + j) % BlockCount = a + i - BlockCount + j
      BY <1>1, <3>1
    <3> QED  BY <1>0, <2>1, <2>2, <2>3, <2>5, <3>2
  <2> QED  BY <2>4, <2>5
<1>7. ASSUME NEW a \in Block, NEW i \in 0 .. BlockCount, NEW j \in 0 .. BlockCount,
             i + j >= BlockCount, j < BlockCount
      PROVE  (((a + i) % BlockCount) + j) % BlockCount = (a + (i + j - BlockCount)) % BlockCount
  <2>1. i \in Nat /\ j \in Nat /\ a \in Nat /\ a < BlockCount /\ i <= BlockCount
    BY <1>0, <1>7
  <2>2. /\ a + i \in Nat /\ a + i < 2 * BlockCount
        /\ a + (i + j - BlockCount) \in Nat /\ a + (i + j - BlockCount) < 2 * BlockCount
    BY <1>0, <1>7, <2>1
  <2>3. (a + i) % BlockCount = IF a + i < BlockCount THEN a + i ELSE a + i - BlockCount
    BY <1>0, <1>1, <2>2
  <2>4. (a + (i + j - BlockCount)) % BlockCount
          = IF a + (i + j - BlockCount) < BlockCount THEN a + (i + j - BlockCount)
            ELSE a + (i + j - BlockCount) - BlockCount
    BY <1>0, <1>1, <2>2
  <2>5. CASE a + i < BlockCount
    <3>1. /\ a + i + j \in Nat /\ a + i + j < 2 * BlockCount
          /\ ~(a + i + j < BlockCount)
      BY <1>0, <1>7, <2>1, <2>5
    <3>2. (a + i + j) % BlockCount = a + i + j - BlockCount
      BY <1>0, <1>1, <3>1
    <3> QED  BY <1>0, <1>7, <2>1, <2>3, <2>4, <2>5, <3>2
  <2>6. CASE ~(a + i < BlockCount)
    <3>1. a + i - BlockCount + j \in Nat /\ a + i - BlockCount + j < 2 * BlockCount
      BY <1>0, <1>7, <2>1, <2>6
    <3>2. (a + i - BlockCount + j) % BlockCount
            = IF a + i - BlockCount + j < BlockCount THEN a + i - BlockCount + j
              ELSE a + i - BlockCount + j - BlockCount
      BY <1>0, <1>1, <3>1
    <3> QED  BY <1>0, <2>1, <2>3, <2>4, <2>6, <3>2
  <2> QED  BY <2>5, <2>6
<1> QED  BY <1>3, <1>4, <1>5, <1>6, <1>7

\* A run has as many blocks as its span says.
LEMMA RunSize ==
    ASSUME PlacementAssumption, NEW s \in Block, NEW span \in 0 .. BlockCount
    PROVE  /\ Run(s, span) \subseteq Block
           /\ IsFiniteSet(Run(s, span)) /\ Cardinality(Run(s, span)) = span
<1>0. BlockCount \in Nat /\ 0 .. span - 1 \subseteq Block
  BY DEF PlacementAssumption, Block
<1> DEFINE f == [i \in 0 .. span - 1 |-> (s + i) % BlockCount]
<1>1. f \in [0 .. span - 1 -> Run(s, span)]
  BY DEF Run
<1>2. \A b \in Run(s, span) : \E i \in 0 .. span - 1 : f[i] = b
  BY DEF Run
<1>3. \A i, j \in 0 .. span - 1 : f[i] = f[j] => i = j
  BY <1>0, RingWay
<1> HIDE DEF f
<1>4. f \in Bijection(0 .. span - 1, Run(s, span))
  BY <1>1, <1>2, <1>3 DEF Bijection, Injection, Surjection, IsInjective
<1>5. IsFiniteSet(0 .. span - 1) /\ Cardinality(0 .. span - 1) = span
  BY <1>0, FS_Interval
<1>6. ExistsBijection(0 .. span - 1, Run(s, span))
  BY <1>4 DEF ExistsBijection
<1>7. Run(s, span) \subseteq Block
  BY <1>0, RingWay DEF Run
<1> QED  BY <1>5, <1>6, <1>7, FS_Bijection

\* How much of a run is above the lower count.
Above(wear, m, s, span) == {b \in Run(s, span) : wear[b].count = m + 1}

LEMMA EvenTable ==
    ASSUME PlacementAssumption, NEW wear, NEW q \in Block, NEW m \in Nat,
           NEW z \in 1 .. BlockCount, EvenFrom(wear, q, m, z)
    PROVE  /\ \A b \in Block : /\ wear[b].count \in {m, m + 1} /\ ~wear[b].bad
                               /\ wear[b].count = m + 1 => b \notin Run(q, z)
                               /\ wear[b].count = m => b \in Run(q, z)
           /\ Bad(wear) = {}
<1>0. BlockCount \in Nat /\ Block = 0 .. BlockCount - 1 /\ 0 .. z - 1 \subseteq Block
  BY DEF PlacementAssumption, Block
<1>1. ASSUME NEW b \in Block
      PROVE  /\ wear[b].count \in {m, m + 1} /\ wear[b].bad = FALSE
             /\ wear[b].count = m + 1 => b \notin Run(q, z)
             /\ wear[b].count = m => b \in Run(q, z)
  <2>1. PICK i \in Block : b = (q + i) % BlockCount
    BY RingWay
  <2>2. wear[b] = [count |-> IF i < z THEN m ELSE m + 1, bad |-> FALSE]
    BY <2>1 DEF EvenFrom
  <2>3. wear[b].count = m + 1 => ~(i < z)
    BY <2>2
  <2>4. wear[b].count = m => i < z
    BY <2>2
  <2>5. b \in Run(q, z) => i < z
    <3>1. SUFFICES ASSUME b \in Run(q, z) PROVE i < z
      OBVIOUS
    <3>2. PICK j \in 0 .. z - 1 : b = (q + j) % BlockCount
      BY <3>1 DEF Run
    <3>3. j \in Block /\ (q + i) % BlockCount = (q + j) % BlockCount
      BY <1>0, <2>1, <3>2
    <3>4. i = j
      BY <2>1, <3>3, RingWay
    <3> QED  BY <3>2, <3>4
  <2>6. i < z => b \in Run(q, z)
    BY <1>0, <2>1 DEF Run
  <2> QED  BY <2>2, <2>3, <2>4, <2>5, <2>6
<1> QED  BY <1>1 DEF Bad

\* What a run costs: the worst counter, and the sum of all.
Costs(active, span, wear, m, s) ==
    LET high == Above(wear, m, s, span)
        cost == Cost(active, span, wear, s)
    IN  /\ IsFiniteSet(high) /\ Cardinality(high) \in Nat
        /\ high = {} <=> Cardinality(high) = 0
        /\ cost[1] = IF high = {} THEN m ELSE m + 1
        /\ cost[2] = m * span + Cardinality(high)
        /\ cost[3] = (s + (BlockCount - ((active.start + active.span) % BlockCount))) % BlockCount

LEMMA CostIs ==
    ASSUME PlacementAssumption, NEW wear, NEW q \in Block, NEW m \in Nat,
           NEW z \in 1 .. BlockCount, EvenFrom(wear, q, m, z),
           NEW s \in Block, NEW span \in 1 .. BlockCount, NEW active
    PROVE  Costs(active, span, wear, m, s)
<1>0. BlockCount \in Nat /\ span \in 0 .. BlockCount
  BY DEF PlacementAssumption
<1> DEFINE R == Run(s, span)
           high == Above(wear, m, s, span)
           counts == [b \in R |-> wear[b].count]
<1>1. R \subseteq Block /\ IsFiniteSet(R) /\ Cardinality(R) = span /\ R # {}
  <2>1. R \subseteq Block /\ IsFiniteSet(R) /\ Cardinality(R) = span
    BY <1>0, RunSize
  <2> QED  BY <2>1, FS_EmptySet
<1>2. \A b \in R : counts[b] \in {m, m + 1}
  BY <1>1, EvenTable
<1>3. high = {b \in R : counts[b] = m + 1}
  BY DEF Above
<1>4. IsFiniteSet(high) /\ Cardinality(high) \in Nat
  <2>1. high \in SUBSET R
    BY <1>3
  <2> QED  BY <1>1, <2>1, FS_Subset, FS_CardinalityType
<1>5. high = {} <=> Cardinality(high) = 0
  BY <1>4, FS_EmptySet
<1>6. SumFunctionOnSet(counts, R) = m * span + Cardinality(high)
  <2> HIDE DEF counts, R, high
  <2>1. SumFunctionOnSet(counts, R)
          = m * Cardinality(R) + Cardinality({b \in R : counts[b] = m + 1})
    BY <1>1, <1>2, SumOfTwo
  <2> QED  BY <1>1, <1>3, <2>1
<1>7. Max(Range(counts)) = IF high = {} THEN m ELSE m + 1
  <2> HIDE DEF R
  <2>1. Range(counts) = {counts[b] : b \in R}
    BY DEF Range
  <2> HIDE DEF counts, high
  <2>2. CASE high = {}
    <3>1. Range(counts) = {m}
      BY <1>1, <1>2, <1>3, <2>1, <2>2
    <3> QED  BY <2>2, <3>1 DEF Max
  <2>3. CASE high # {}
    <3>1. m + 1 \in Range(counts) /\ Range(counts) \subseteq {m, m + 1}
      BY <1>2, <1>3, <2>1, <2>3
    <3>2. \E x \in Range(counts) : \A y \in Range(counts) : x >= y
      BY <3>1
    <3>3. /\ Max(Range(counts)) \in Range(counts)
          /\ \A y \in Range(counts) : Max(Range(counts)) >= y
      BY <3>2 DEF Max
    <3> QED  BY <2>3, <3>1, <3>3
  <2> QED  BY <2>2, <2>3
<1>8. Cost(active, span, wear, s) =
        <<Max(Range(counts)), SumFunctionOnSet(counts, R),
          (s + (BlockCount - ((active.start + active.span) % BlockCount))) % BlockCount>>
  <2>1. Cost(active, span, wear, s) =
          <<Max(Range(counts)), SumFunction(counts),
            (s + (BlockCount - ((active.start + active.span) % BlockCount))) % BlockCount>>
    BY DEF Cost
  <2>2. DOMAIN counts = R
    OBVIOUS
  <2> HIDE DEF counts, R
  <2> QED  BY <2>1, <2>2 DEF SumFunction
<1> HIDE DEF counts, R, high
<1> QED  BY <1>4, <1>5, <1>6, <1>7, <1>8 DEF Costs, high

\* Which of two runs is above the lower count with more blocks.
LEMMA AboveLeast ==
    ASSUME PlacementAssumption, NEW wear, NEW q \in Block, NEW m \in Nat,
           NEW z \in 1 .. BlockCount, EvenFrom(wear, q, m, z),
           NEW s \in Block, NEW span \in 1 .. BlockCount
    PROVE  Cardinality(Above(wear, m, q, span)) <= Cardinality(Above(wear, m, s, span))
<1>0. BlockCount \in Nat /\ span \in 0 .. BlockCount /\ z \in 0 .. BlockCount
      /\ 0 .. span - 1 \subseteq Block /\ 0 .. z - 1 \subseteq Block
  BY DEF PlacementAssumption, Block
<1>1. \A t \in Block :
        /\ IsFiniteSet(Run(t, span)) /\ Cardinality(Run(t, span)) = span
        /\ Run(t, span) \subseteq Block
  BY <1>0, RunSize
<1>2. IsFiniteSet(Run(q, z)) /\ Cardinality(Run(q, z)) = z
  BY <1>0, RunSize
<1>3. \A t \in Block : Above(wear, m, t, span) = Run(t, span) \ Run(q, z)
  <2>0. m # m + 1
    OBVIOUS
  <2>1. \A b \in Block : wear[b].count = m + 1 <=> b \notin Run(q, z)
    BY <2>0, EvenTable
  <2> QED  BY <1>1, <2>1 DEF Above
<1>4. \A t \in Block : Cardinality(Above(wear, m, t, span))
                         = span - Cardinality(Run(t, span) \cap Run(q, z))
  BY <1>1, <1>3, FS_Difference
<1>5. ASSUME NEW t \in Block
      PROVE  /\ Cardinality(Run(t, span) \cap Run(q, z)) \in Nat
             /\ Cardinality(Run(t, span) \cap Run(q, z)) <= z
             /\ Cardinality(Run(t, span) \cap Run(q, z)) <= span
  <2>1. IsFiniteSet(Run(t, span) \cap Run(q, z))
    BY <1>1, FS_Intersection
  <2>2. Cardinality(Run(t, span) \cap Run(q, z)) <= Cardinality(Run(t, span))
    BY <1>1, FS_Intersection
  <2>3. Cardinality(Run(t, span) \cap Run(q, z)) <= Cardinality(Run(q, z))
    BY <1>2, FS_Intersection
  <2> QED  BY <1>1, <1>2, <2>1, <2>2, <2>3, FS_CardinalityType
<1>6. Cardinality(Run(q, span) \cap Run(q, z)) = IF span <= z THEN span ELSE z
  <2>1. CASE span <= z
    <3>1. Run(q, span) \cap Run(q, z) = Run(q, span)
      BY <1>0, <2>1 DEF Run
    <3> QED  BY <1>1, <2>1, <3>1
  <2>2. CASE ~(span <= z)
    <3>1. Run(q, span) \cap Run(q, z) = Run(q, z)
      BY <1>0, <2>2 DEF Run
    <3> QED  BY <1>2, <2>2, <3>1
  <2> QED  BY <2>1, <2>2
<1>7. span - (IF span <= z THEN span ELSE z)
        <= span - Cardinality(Run(s, span) \cap Run(q, z))
  BY <1>0, <1>5
<1> QED  BY <1>4, <1>6, <1>7

\* While the counters are level but for the step, the next snapshot is put right behind
\* the current one (plan_next_compatible, choose_start).
LEMMA ChosenNext ==
    ASSUME PlacementAssumption, NEW active, active.start \in Block,
           active.span \in Nat \ {0}, NEW span \in Nat \ {0},
           active.span + span <= BlockCount,
           NEW wear, NEW m \in Nat, NEW z \in 1 .. BlockCount,
           EvenFrom(wear, (active.start + active.span) % BlockCount, m, z),
           NEW s \in ChooseStart(active, span, wear)
    PROVE  s = (active.start + active.span) % BlockCount
<1> DEFINE q == (active.start + active.span) % BlockCount
           starts == Apart(active, span, wear)
           cost == [t \in starts |-> Cost(active, span, wear, t)]
<1>0. /\ BlockCount \in Nat /\ Block = 0 .. BlockCount - 1
      /\ active.span \in Block /\ span \in 1 .. BlockCount /\ q \in Block
  <2>1. /\ BlockCount \in Nat /\ Block = 0 .. BlockCount - 1
        /\ active.span \in Block /\ span \in 1 .. BlockCount
    BY DEF PlacementAssumption, Block
  <2> QED  BY <2>1, RingWay
<1>1. starts \subseteq Block
  BY DEF Apart, Usable
<1>2. q \in starts
  <2>1. Run(q, span) \cap Bad(wear) = {}
    BY <1>0, EvenTable
  <2>2. ASSUME NEW b \in Run(q, span), b \in Run(active.start, active.span) PROVE FALSE
    <3>1. PICK i \in 0 .. span - 1 : b = (q + i) % BlockCount
      BY DEF Run
    <3>2. PICK j \in 0 .. active.span - 1 : b = (active.start + j) % BlockCount
      BY <2>2 DEF Run
    <3> DEFINE a == active.start
               k == active.span
    <3>3. /\ a \in Block /\ k \in Nat \ {0} /\ k + span <= BlockCount
          /\ q = (a + k) % BlockCount
      OBVIOUS
    <3> HIDE DEF a, k, q
    <3>4. i \in Nat /\ k + i < BlockCount /\ k + i \in Block /\ a \in Nat
      BY <1>0, <3>1, <3>3
    <3>8. j \in 0 .. k - 1 /\ b = (a + j) % BlockCount
      BY <3>2 DEF a, k
    <3>5. j \in Block /\ j < k
      BY <1>0, <3>3, <3>8
    <3>9. b = (((a + k) % BlockCount) + i) % BlockCount
      BY <3>1, <3>3
    <3>6. b = (a + (k + i)) % BlockCount
      BY <3>3, <3>4, <3>9, RingWay, ZenonT(30)
    <3>7. k + i = j
      BY <3>3, <3>4, <3>5, <3>6, <3>8, RingWay
    <3> QED  BY <3>3, <3>4, <3>5, <3>7
  <2>3. ~Overlap(q, span, active.start, active.span)
    BY <2>2 DEF Overlap
  <2> QED  BY <1>0, <2>1, <2>3 DEF Apart, Usable
<1>3. s \in starts /\ (s # q => Cheaper(cost[s], cost[q]))
  BY <1>2 DEF ChooseStart
<1>4. s \in Block /\ cost[s] = Cost(active, span, wear, s)
      /\ cost[q] = Cost(active, span, wear, q)
  BY <1>1, <1>2, <1>3
<1> HIDE DEF cost, starts
<1> DEFINE highS == Cardinality(Above(wear, m, s, span))
           highQ == Cardinality(Above(wear, m, q, span))
<1>5. /\ highS \in Nat /\ highQ \in Nat /\ highQ <= highS
      /\ cost[s][1] = IF highS = 0 THEN m ELSE m + 1
      /\ cost[q][1] = IF highQ = 0 THEN m ELSE m + 1
      /\ cost[s][2] = m * span + highS
      /\ cost[q][2] = m * span + highQ
      /\ cost[s][3] = (s + (BlockCount - q)) % BlockCount
      /\ cost[q][3] = (q + (BlockCount - q)) % BlockCount
  <2>3. EvenFrom(wear, q, m, z) /\ q = (active.start + active.span) % BlockCount
    OBVIOUS
  <2> HIDE DEF q
  <2>5. ASSUME NEW t \in Block
        PROVE  LET high == Above(wear, m, t, span)
               IN  /\ Cardinality(high) \in Nat
                   /\ Cost(active, span, wear, t)[1] = IF Cardinality(high) = 0 THEN m ELSE m + 1
                   /\ Cost(active, span, wear, t)[2] = m * span + Cardinality(high)
                   /\ Cost(active, span, wear, t)[3] = (t + (BlockCount - q)) % BlockCount
    <3> DEFINE high == Above(wear, m, t, span)
    <3>1. Costs(active, span, wear, m, t)
      BY <1>0, <2>3, CostIs
    <3> HIDE DEF high
    <3> QED  BY <2>3, <3>1 DEF high, Costs
  <2>1. /\ highS \in Nat
        /\ cost[s][1] = IF highS = 0 THEN m ELSE m + 1
        /\ cost[s][2] = m * span + highS
        /\ cost[s][3] = (s + (BlockCount - q)) % BlockCount
    BY <1>0, <1>4, <2>5
  <2>2. /\ highQ \in Nat
        /\ cost[q][1] = IF highQ = 0 THEN m ELSE m + 1
        /\ cost[q][2] = m * span + highQ
        /\ cost[q][3] = (q + (BlockCount - q)) % BlockCount
    BY <1>0, <1>4, <2>5
  <2>4. highQ <= highS
    BY <1>0, <1>4, <2>3, AboveLeast
  <2> QED  BY <2>1, <2>2, <2>4
<1>6. cost[q][3] = 0 /\ cost[s][3] \in Nat
  <2>1. q + (BlockCount - q) = BlockCount /\ BlockCount % BlockCount = 0
    BY <1>0
  <2>2. (s + (BlockCount - q)) % BlockCount \in Nat
    <3> HIDE DEF q
    <3>1. s + (BlockCount - q) \in Nat /\ BlockCount \in Nat \ {0}
      BY <1>0, <1>4
    <3> QED  BY <3>1
  <2> QED  BY <1>5, <2>1, <2>2
<1>7. m * span \in Nat
  BY <1>0
<1> HIDE DEF q, highS, highQ
<1>8. ~(cost[s][1] < cost[q][1])
  BY <1>5
<1>9. ~(cost[s][2] < cost[q][2])
  BY <1>5, <1>7
<1>10. ~(cost[s][3] < cost[q][3])
  BY <1>6
<1>11. ~Cheaper(cost[s], cost[q])
  BY <1>8, <1>9, <1>10 DEF Cheaper
<1> QED  BY <1>3, <1>11 DEF q

-----------------------------------------------------------------------------
LEMMA CountSet ==
    ASSUME NEW x \in [count : Nat, bad : BOOLEAN], NEW d \in Nat
    PROVE  [x EXCEPT !.count = d] = [count |-> d, bad |-> x.bad]
OBVIOUS

\* Halving all counters keeps them level, and away from the largest counter.
LEMMA EvenRescaled ==
    ASSUME PlacementAssumption, NEW wear \in WearTable, NEW q \in Block, Even(wear, q)
    PROVE  /\ Even(Rescaled(wear), q)
           /\ \A b \in Block : Rescaled(wear)[b].count < CountMask
<1>0. /\ BlockCount \in Nat \ {0} /\ CountMask \in Nat /\ RescaleAt \in 1 .. CountMask
      /\ \A i \in Block : (q + i) % BlockCount \in Block
  <2>1. BlockCount \in Nat \ {0} /\ CountMask \in Nat /\ RescaleAt \in 1 .. CountMask
    BY DEF PlacementAssumption
  <2> QED  BY <2>1, RingWay
<1>1. PICK m \in 0 .. CountMask, z \in 1 .. BlockCount : EvenFrom(wear, q, m, z)
  BY DEF Even
<1>2. \A b \in Block : wear[b].count \in 0 .. CountMask
  BY DEF WearTable
<1>3. CASE ~ \E b \in Block : wear[b].count >= RescaleAt
  <2>1. Rescaled(wear) = wear
    BY <1>3 DEF Rescaled
  <2>2. \A b \in Block : wear[b].count < CountMask
    BY <1>0, <1>2, <1>3
  <2> QED  BY <2>1, <2>2
<1>4. CASE \E b \in Block : wear[b].count >= RescaleAt
  <2> DEFINE w == Rescaled(wear)
  <2>1. w = [b \in Block |-> [wear[b] EXCEPT !.count = @ \div 2]]
    BY <1>4 DEF Rescaled
  <2>2. \A c \in 0 .. CountMask : c \div 2 \in 0 .. CountMask /\ c \div 2 < CountMask
    BY <1>0
  <2>3. \A b \in Block : w[b].count = wear[b].count \div 2 /\ w[b].bad = wear[b].bad
    BY <2>1 DEF WearTable
  <2>4. \A b \in Block : w[b].count < CountMask
    BY <1>2, <2>2, <2>3
  <2>5. m \div 2 \in 0 .. CountMask
    BY <2>2
  <2>6. \A i \in Block : w[(q + i) % BlockCount] =
          [count |-> (IF i < z THEN m ELSE m + 1) \div 2, bad |-> FALSE]
    <3>1. ASSUME NEW i \in Block
          PROVE  w[(q + i) % BlockCount] =
                   [count |-> (IF i < z THEN m ELSE m + 1) \div 2, bad |-> FALSE]
      <4> DEFINE b == (q + i) % BlockCount
                 c == IF i < z THEN m ELSE m + 1
      <4>1. b \in Block /\ wear[b] = [count |-> c, bad |-> FALSE]
        BY <1>0, <1>1 DEF EvenFrom
      <4>2. w[b] = [wear[b] EXCEPT !.count = @ \div 2]
        BY <2>1, <4>1
      <4>3. c \in Nat /\ c \div 2 \in Nat
        BY <1>0
      <4> HIDE DEF b, c, w
      <4>4. w[b] = [wear[b] EXCEPT !.count = c \div 2]
        BY <4>1, <4>2
      <4>5. wear[b] \in [count : Nat, bad : BOOLEAN] /\ wear[b].bad = FALSE
        BY <4>1, <4>3
      <4>6. w[b] = [count |-> c \div 2, bad |-> FALSE]
        BY <4>3, <4>4, <4>5, CountSet
      <4> QED  BY <4>6 DEF b, c
    <3> QED  BY <3>1
  <2>7. CASE (m + 1) \div 2 = m \div 2
    <3>1. \A i \in Block : i < BlockCount
      BY <1>0 DEF Block
    <3>2. EvenFrom(w, q, m \div 2, BlockCount)
      BY <2>6, <2>7, <3>1 DEF EvenFrom
    <3>3. BlockCount \in 1 .. BlockCount
      BY <1>0
    <3> QED  BY <2>4, <2>5, <3>2, <3>3 DEF Even
  <2>8. CASE (m + 1) \div 2 # m \div 2
    <3>1. (m + 1) \div 2 = m \div 2 + 1
      BY <2>8
    <3>2. EvenFrom(w, q, m \div 2, z)
      BY <2>6, <3>1 DEF EvenFrom
    <3> QED  BY <2>4, <2>5, <3>2 DEF Even
  <2> QED  BY <2>7, <2>8
<1> QED  BY <1>3, <1>4

\* Writing the run that begins where the lower counters do keeps the counters level, and
\* they then begin behind it.
LEMMA EvenIncremented ==
    ASSUME PlacementAssumption, NEW wear \in WearTable, NEW q \in Block, Even(wear, q),
           \A b \in Block : wear[b].count < CountMask, NEW span \in 1 .. BlockCount
    PROVE  Even(Incremented(wear, q, span), (q + span) % BlockCount)
<1>0. BlockCount \in Nat \ {0} /\ CountMask \in Nat /\ Block = 0 .. BlockCount - 1
      /\ 0 .. span - 1 \subseteq Block
  BY DEF PlacementAssumption, Block
<1>1. PICK m \in 0 .. CountMask, z \in 1 .. BlockCount : EvenFrom(wear, q, m, z)
  BY DEF Even
<1> DEFINE w == Incremented(wear, q, span)
           r == (q + span) % BlockCount
\* What becomes of the j-th block of the table, counted from q.
<1>2. ASSUME NEW j \in Block
      PROVE  w[(q + j) % BlockCount] =
               [count |-> (IF j < z THEN m ELSE m + 1) + (IF j < span THEN 1 ELSE 0),
                bad |-> FALSE]
  <2> DEFINE b == (q + j) % BlockCount
  <2>1. b \in Block /\ wear[b] = [count |-> IF j < z THEN m ELSE m + 1, bad |-> FALSE]
    BY <1>1, RingWay DEF EvenFrom
  <2>2. b \in Run(q, span) <=> j < span
    <3>1. ASSUME NEW i \in 0 .. span - 1, b = (q + i) % BlockCount PROVE j < span
      <4>1. i \in Block /\ i = j
        BY <1>0, <3>1, RingWay
      <4> QED  BY <4>1
    <3>2. j < span => j \in 0 .. span - 1
      BY <1>0
    <3> QED  BY <3>1, <3>2 DEF Run
  <2> DEFINE c == IF j < z THEN m ELSE m + 1
  <2>7. wear[b] = [count |-> c, bad |-> FALSE] /\ c \in Nat
    BY <1>0, <2>1
  <2> HIDE DEF b, c
  <2>3. wear[b].count \in Nat /\ wear[b].count + 1 <= CountMask
    BY <1>0, <2>1 DEF WearTable
  <2>4. Min({wear[b].count + 1, CountMask}) = wear[b].count + 1
    <3> DEFINE e == wear[b].count + 1
    <3>1. e \in Int /\ e <= CountMask
      BY <2>3
    <3> HIDE DEF e
    <3>2. \E x \in {e, CountMask} : \A y \in {e, CountMask} : x <= y
      BY <1>0, <3>1
    <3>3. /\ Min({e, CountMask}) \in {e, CountMask}
          /\ \A y \in {e, CountMask} : Min({e, CountMask}) <= y
      BY <3>2 DEF Min
    <3>4. Min({e, CountMask}) = e
      BY <1>0, <3>1, <3>3
    <3> QED  BY <3>4 DEF e
  <2>5. w[b] = IF j < span THEN [wear[b] EXCEPT !.count = wear[b].count + 1] ELSE wear[b]
    BY <2>1, <2>2, <2>4 DEF Incremented
  <2> HIDE DEF w
  <2>6. w[b] = [count |-> c + (IF j < span THEN 1 ELSE 0), bad |-> FALSE]
    <3>1. wear[b] \in [count : Nat, bad : BOOLEAN] /\ c + 1 \in Nat
      BY <2>7
    <3>2. wear[b].count = c /\ wear[b].bad = FALSE
      BY <2>7
    <3>3. j < span => w[b] = [count |-> c + 1, bad |-> FALSE]
      BY <2>5, <3>1, <3>2, CountSet
    <3>4. c + 0 = c
      BY <2>7
    <3> QED  BY <2>5, <2>7, <3>3, <3>4
  <2> QED  BY <2>6 DEF b, c
\* Where the i-th block from the new place is, counted from q.
<1> DEFINE place(i) == IF i + span < BlockCount THEN i + span ELSE i + span - BlockCount
<1>3. ASSUME NEW i \in Block
      PROVE  place(i) \in Block /\ (r + i) % BlockCount = (q + place(i)) % BlockCount
  <2>1. CASE i + span < BlockCount
    <3>0. span \in Nat /\ i \in Nat /\ span + i < BlockCount
      BY <1>0, <2>1
    <3>1. (r + i) % BlockCount = (q + (span + i)) % BlockCount
      BY <3>0, RingWay, ZenonT(30)
    <3>2. span + i = place(i) /\ place(i) \in Block
      BY <1>0, <2>1
    <3> QED  BY <3>1, <3>2
  <2>2. CASE ~(i + span < BlockCount)
    <3>0. /\ span \in 0 .. BlockCount /\ i \in 0 .. BlockCount
          /\ span + i >= BlockCount /\ i < BlockCount
      BY <1>0, <2>2
    <3>1. (r + i) % BlockCount = (q + (span + i - BlockCount)) % BlockCount
      BY <3>0, RingWay, ZenonT(30)
    <3>2. span + i - BlockCount = place(i) /\ place(i) \in Block
      BY <1>0, <2>2
    <3> QED  BY <3>1, <3>2
  <2> QED  BY <2>1, <2>2
<1> HIDE DEF w, r
<1>4. ASSUME NEW i \in Block
      PROVE  w[(r + i) % BlockCount] =
               [count |-> (IF place(i) < z THEN m ELSE m + 1)
                            + (IF place(i) < span THEN 1 ELSE 0), bad |-> FALSE]
  BY <1>2, <1>3
<1>5. m + 1 \in 0 .. CountMask
  <2>1. q \in Block /\ 0 \in Block /\ (q + 0) % BlockCount = q /\ 0 < z
    BY <1>0
  <2>3. wear[(q + 0) % BlockCount] = [count |-> IF 0 < z THEN m ELSE m + 1, bad |-> FALSE]
    BY <1>1, <2>1 DEF EvenFrom
  <2>2. wear[q].count = m
    BY <2>1, <2>3
  <2> QED  BY <1>0, <2>1, <2>2
<1>6. CASE span < z
  <2>1. \A i \in Block :
          (IF place(i) < z THEN m ELSE m + 1) + (IF place(i) < span THEN 1 ELSE 0)
            = IF i < z - span THEN m ELSE m + 1
    <3>1. ASSUME NEW i \in Block
          PROVE  (IF place(i) < z THEN m ELSE m + 1) + (IF place(i) < span THEN 1 ELSE 0)
                   = IF i < z - span THEN m ELSE m + 1
      <4> DEFINE p == place(i)
      <4>1. /\ i \in Int /\ m \in Int /\ z \in Int /\ span \in Int
            /\ z <= BlockCount /\ 0 <= i /\ i < BlockCount
        BY <1>0
      <4>2. CASE i + span < BlockCount
        <5>1. p = i + span
          BY <4>2
        <5> HIDE DEF p
        <5>2. (IF p < z THEN m ELSE m + 1) + (IF p < span THEN 1 ELSE 0)
                = IF i < z - span THEN m ELSE m + 1
          BY <4>1, <5>1
        <5> QED  BY <5>2 DEF p
      <4>3. CASE ~(i + span < BlockCount)
        <5>1. p = i + span - BlockCount
          BY <4>3
        <5> HIDE DEF p
        <5>2. p < z /\ p < span /\ ~(i < z - span)
          BY <1>0, <1>6, <4>1, <4>3, <5>1
        <5>3. (IF p < z THEN m ELSE m + 1) + (IF p < span THEN 1 ELSE 0)
                = IF i < z - span THEN m ELSE m + 1
          BY <4>1, <5>2
        <5> QED  BY <5>3 DEF p
      <4> QED  BY <4>2, <4>3
    <3> QED  BY <3>1
  <2>2. EvenFrom(w, r, m, z - span)
    BY <1>4, <2>1 DEF EvenFrom
  <2>3. z - span \in 1 .. BlockCount
    BY <1>0, <1>6
  <2> QED  BY <2>2, <2>3 DEF Even, r, w
<1>7. CASE ~(span < z)
  <2> DEFINE y == BlockCount - span + z
  <2>1. \A i \in Block :
          (IF place(i) < z THEN m ELSE m + 1) + (IF place(i) < span THEN 1 ELSE 0)
            = IF i < y THEN m + 1 ELSE m + 1 + 1
    <3>1. ASSUME NEW i \in Block
          PROVE  (IF place(i) < z THEN m ELSE m + 1) + (IF place(i) < span THEN 1 ELSE 0)
                   = IF i < y THEN m + 1 ELSE m + 1 + 1
      <4> DEFINE p == place(i)
      <4>1. /\ i \in Int /\ m \in Int /\ z \in Int /\ span \in Int
            /\ z <= BlockCount /\ 0 <= i /\ i < BlockCount /\ BlockCount \in Int
            /\ 0 < z /\ z <= span /\ span <= BlockCount
        BY <1>0, <1>7
      <4>2. CASE i + span < BlockCount
        <5>1. p = i + span
          BY <4>2
        <5> HIDE DEF p
        <5>2. ~(p < z) /\ ~(p < span) /\ i < y
          BY <4>1, <4>2, <5>1
        <5>3. (IF p < z THEN m ELSE m + 1) + (IF p < span THEN 1 ELSE 0)
                = IF i < y THEN m + 1 ELSE m + 1 + 1
          BY <4>1, <5>2
        <5> QED  BY <5>3 DEF p
      <4>3. CASE ~(i + span < BlockCount)
        <5>1. p = i + span - BlockCount
          BY <4>3
        <5> HIDE DEF p
        <5>2. p < span /\ (p < z <=> i < y)
          BY <4>1, <4>3, <5>1
        <5>3. (IF p < z THEN m ELSE m + 1) + (IF p < span THEN 1 ELSE 0)
                = IF i < y THEN m + 1 ELSE m + 1 + 1
          BY <4>1, <5>2
        <5> QED  BY <5>3 DEF p
      <4> QED  BY <4>2, <4>3
    <3> QED  BY <3>1
  <2>2. y \in 1 .. BlockCount
    BY <1>0, <1>7
  <2> HIDE DEF y
  <2>3. EvenFrom(w, r, m + 1, y)
    BY <1>4, <2>1 DEF EvenFrom
  <2> QED  BY <1>5, <2>2, <2>3 DEF Even, r, w
<1> QED  BY <1>6, <1>7

-----------------------------------------------------------------------------
\* The counters stored with a snapshot are level, and the lower ones begin behind it;
\* behind it there is room for another.
HeaderEven(h) ==
    /\ h.span + h.span <= BlockCount
    /\ Even(h.image.wear, (h.start + h.span) % BlockCount)

\* While no block has worn out, that holds for every header on the medium, for the
\* snapshot that is read and for the one that is being written.
WearInv ==
    dead = {} =>
        /\ \A b \in Block : dev[b].head \in Header => HeaderEven(dev[b].head)
        /\ fs # None => HeaderEven(fs.active) /\ fs.wear = fs.active.image.wear
        /\ op # None => HeaderEven(op.cand)

\* The table that a turn of the commit loop starts from, and the block behind the
\* current snapshot.
TurnTable(o) == IF o.name = "mutate" THEN Rescaled(o.wear) ELSE o.wear
Behind(o)    == IF o.prev = None THEN 0 ELSE (o.prev.start + o.prev.span) % BlockCount

\* A turn that does not end the call.
LEMMA TurnIs ==
    ASSUME NEW o, Attempt(o), ~(op' = None /\ reply' = "nospace")
    PROVE  \E s \in IF o.prev = None THEN ChooseVirginStart(SpanOf[o.content], TurnTable(o))
                    ELSE ChooseStart(o.prev, SpanOf[o.content], TurnTable(o)) :
             op' = [o EXCEPT !.wear = TurnTable(o), !.attempt = @ + 1, !.step = "erase", !.at = 0,
                             !.cand = HeaderFor(NextGen(o.prev), s, o.content,
                                         Incremented(TurnTable(o), s, SpanOf[o.content]))]
BY Zenon DEF Attempt, TurnTable

\* The first turn of the commit loop puts the candidate where the lower counters begin.
LEMMA AttemptEven ==
    ASSUME SnapAssumption, NEW o \in OpType, Attempt(o), op' # None,
           SpanOf[o.content] + SpanOf[o.content] <= BlockCount,
           o.prev # None => o.prev.span + o.prev.span <= BlockCount,
           Even(TurnTable(o), Behind(o)), \A b \in Block : TurnTable(o)[b].count < CountMask
    PROVE  HeaderEven(op'.cand)
<1> DEFINE span == SpanOf[o.content]
           wear == TurnTable(o)
           starts == IF o.prev = None THEN ChooseVirginStart(span, wear)
                     ELSE ChooseStart(o.prev, span, wear)
           q == Behind(o)
<1>0. PlacementAssumption /\ BlockCount \in Nat \ {0} /\ Block = 0 .. BlockCount - 1
  BY DEF SnapAssumption, PlacementAssumption, Block
<1>1. PICK s \in starts :
         op' = [o EXCEPT !.wear = wear, !.attempt = @ + 1, !.step = "erase", !.at = 0,
                         !.cand = HeaderFor(NextGen(o.prev), s, o.content,
                                            Incremented(wear, s, span))]
  <2>1. ~(op' = None /\ reply' = "nospace")
    OBVIOUS
  <2> QED  BY <2>1, TurnIs, Zenon
<1>2. span \in Nat \ {0} /\ span \in 1 .. BlockCount /\ wear \in WearTable
  <2>1. o.content \in Content /\ span \in Nat \ {0} /\ wear \in WearTable
    BY WearTables DEF OpType, SnapAssumption, SnapshotAssumption, TurnTable
  <2> QED  BY <1>0, <2>1
<1>3. Even(wear, q) /\ \A b \in Block : wear[b].count < CountMask
  OBVIOUS
<1>4. o.prev \in Header \cup {None}
  BY DEF OpType
<1>5. q \in Block /\ s = q
  <2>1. CASE o.prev = None
    <3>1. q = 0 /\ q \in Block /\ s \in ChooseVirginStart(span, wear)
      BY <1>0, <1>1, <2>1 DEF Behind
    <3>2. PICK m \in 0 .. CountMask, z \in 1 .. BlockCount : EvenFrom(wear, q, m, z)
      BY <1>3 DEF Even
    <3>3. m \in Nat
      BY <1>0 DEF PlacementAssumption
    <3>4. Bad(wear) = {}
      BY <1>0, <3>1, <3>2, <3>3, EvenTable
    <3>5. 0 \in Usable(span, wear)
      BY <1>0, <3>4 DEF Usable
    <3>6. s \in Block /\ s <= 0
      BY <3>1, <3>5 DEF ChooseVirginStart, Usable
    <3> QED  BY <1>0, <3>1, <3>6
  <2>2. CASE o.prev # None
    <3> DEFINE a == o.prev
    <3>1. /\ a \in Header /\ q = (a.start + a.span) % BlockCount /\ a.start \in Block
          /\ a.span \in Nat \ {0} /\ a.span + a.span <= BlockCount
          /\ s \in ChooseStart(a, span, wear)
      BY <1>1, <1>4, <2>2 DEF Header, Behind
    <3>2. PICK m \in 0 .. CountMask, z \in 1 .. BlockCount : EvenFrom(wear, q, m, z)
      BY <1>3 DEF Even
    <3>3. m \in Nat
      BY <1>0 DEF PlacementAssumption
    <3> DEFINE k == a.span
    <3> HIDE DEF a, q, wear, span, starts
    <3>4. k + span <= BlockCount
      <4>1. k \in Nat /\ k + k <= BlockCount
        BY <3>1
      <4>2. span + span <= BlockCount
        BY DEF span
      <4> HIDE DEF k
      <4> QED  BY <1>0, <1>2, <4>1, <4>2
    <3>5. s = q
      BY <1>0, <1>2, <3>1, <3>2, <3>3, <3>4, ChosenNext
    <3>6. q \in Block
      <4>1. k \in Block
        BY <1>0, <1>2, <3>1, <3>4
      <4> QED  BY <1>0, <3>1, <4>1, RingWay
    <3> QED  BY <3>5, <3>6
  <2> QED  BY <2>1, <2>2
<1> DEFINE cand == HeaderFor(NextGen(o.prev), s, o.content, Incremented(wear, s, span))
<1>6. cand.start = q /\ cand.span = span /\ cand.image.wear = Incremented(wear, q, span)
  BY <1>5 DEF HeaderFor
<1> HIDE DEF cand, wear, span, starts, q
<1>7. op'.cand = cand
  BY <1>1 DEF OpType, cand
<1>8. Even(Incremented(wear, q, span), (q + span) % BlockCount)
  BY <1>0, <1>2, <1>3, <1>5, EvenIncremented
<1>9. span + span <= BlockCount
  BY DEF span
<1> QED  BY <1>6, <1>7, <1>8, <1>9 DEF HeaderEven

\* A step of writing leaves headers that were there, or the candidate's.
LEMMA HeadsWritten ==
    ASSUME SnapAssumption, SnapTypes, CallInv, op # None, NEW d \in Outcomes, NEW b \in Block
    PROVE  d[b].head \in {dev[b].head, op.cand, Blank, Torn}
<1>1. dev \in [Block -> BlockType] /\ Target \in Block
  BY WritesApart DEF SnapTypes
<1>2. dev[Target] = [head |-> dev[Target].head, commit |-> dev[Target].commit,
                     body |-> dev[Target].body]
  BY <1>1 DEF BlockType
<1> DEFINE Kept(x) == x.head \in {dev[Target].head, op.cand, Blank, Torn}
<1>3. Kept(Written)
  BY <1>2 DEF Written, Erased, Programmed
<1>4. \A x \in CutShort : Kept(x)
  BY <1>2 DEF CutShort
<1>5. CASE d = dev
  BY <1>5
<1>6. ASSUME NEW x \in CutShort \cup {Written}, d = [dev EXCEPT ![Target] = x]
      PROVE  d[b].head \in {dev[b].head, op.cand, Blank, Torn}
  <2>1. Kept(x)
    BY <1>3, <1>4
  <2> QED  BY <1>1, <1>6, <2>1
<1> QED  BY <1>5, <1>6 DEF Outcomes

\* Every step keeps the counters level: a call counts up the run behind the current
\* snapshot, and what it leaves behind when it fails changes nothing.
LEMMA WearInvNext ==
    ASSUME SnapAssumption, SnapInv, WearInv, [Next]_vars
    PROVE  WearInv'
<1>0. /\ SnapTypes /\ CallInv
      /\ dev \in [Block -> BlockType] /\ dead \subseteq Block
      /\ fs \in FsType \cup {None} /\ op \in OpType \cup {None}
      /\ {Blank, Torn} \cap Header = {}
  BY DEF SnapInv, SnapTypes, SnapAssumption
<1>1. SUFFICES ASSUME dead = {}, dead' = {}
               PROVE  WearInv'
  <2>1. dead \subseteq dead'
    BY DEF Next, vars, Mount, IntoDevice, Format, Level, Mutate, EraseBlock, ProgramPrefix,
           ProgramPayload, Verify, ProgramCommit, Confirm, Write, BlockFails, DeviceError,
           PlanError, PowerLoss
  <2> QED  BY <2>1 DEF WearInv
<1>2. /\ \A b \in Block : dev[b].head \in Header => HeaderEven(dev[b].head)
      /\ fs # None => HeaderEven(fs.active) /\ fs.wear = fs.active.image.wear
      /\ op # None => HeaderEven(op.cand)
  BY <1>1 DEF WearInv
<1> DEFINE DevEven == \A b \in Block : dev'[b].head \in Header => HeaderEven(dev'[b].head)
           FsEven  == fs' # None => HeaderEven(fs'.active) /\ fs'.wear = fs'.active.image.wear
           OpEven  == op' # None => HeaderEven(op'.cand)
<1>3. SUFFICES DevEven /\ FsEven /\ OpEven
  BY DEF WearInv, HeaderEven, Even, EvenFrom
<1>4. dev' = dev => DevEven
  BY <1>2
<1>5. fs' = fs => FsEven
  BY <1>2
<1>6. op # None /\ dev' \in Outcomes => DevEven
  <2> SUFFICES ASSUME op # None, dev' \in Outcomes PROVE DevEven
    OBVIOUS
  <2>1. ASSUME NEW b \in Block, dev'[b].head \in Header PROVE HeaderEven(dev'[b].head)
    <3>1. dev'[b].head \in {dev[b].head, op.cand, Blank, Torn}
      BY <1>0, HeadsWritten
    <3> QED  BY <1>0, <1>2, <2>1, <3>1
  <2> QED  BY <2>1
<1>7. ASSUME NEW h \in Header, Readable(dev, h)
      PROVE  HeaderEven(h)
  <2>1. h.start \in Block /\ dev[h.start].head = h
    BY <1>7 DEF Readable, Header
  <2> QED  BY <1>2, <1>7, <2>1
<1> HIDE DEF DevEven, FsEven, OpEven
<1>8. CASE Mount
  <2>1. /\ fs' = [active |-> Scan(dev), wear |-> Scan(dev).image.wear, recovery |-> FALSE]
        /\ Scan(dev) # None /\ UNCHANGED <<dev, op>> /\ op = None
    BY <1>8 DEF Mount
  <2>2. HeaderEven(Scan(dev))
    BY <1>0, <1>7, <2>1, ScanReadable
  <2> QED  BY <1>4, <2>1, <2>2 DEF FsEven, OpEven
<1>9. CASE IntoDevice
  BY <1>4, <1>9 DEF IntoDevice, FsEven, OpEven
\* The table that a call starts from.
<1>10. ASSUME NEW o \in OpType, Attempt(o), dev' = dev, fs' = fs,
              SpanOf[o.content] + SpanOf[o.content] <= BlockCount,
              NEW w \in WearTable,
              TurnTable(o) = Rescaled(w),
              o.prev # None => HeaderEven(o.prev) /\ w = o.prev.image.wear,
              o.prev = None => w = Unworn
       PROVE  DevEven /\ FsEven /\ OpEven
  <2> DEFINE q == Behind(o)
  <2>1. PlacementAssumption /\ BlockCount \in Nat \ {0} /\ Block = 0 .. BlockCount - 1
        /\ CountMask \in Nat
    BY DEF SnapAssumption, PlacementAssumption, Block
  <2>2. Even(w, q) /\ q \in Block
    <3>1. CASE o.prev = None
      <4>1. \A i \in Block : (0 + i) % BlockCount \in Block /\ i < BlockCount
        BY <2>1
      <4>2. EvenFrom(Unworn, 0, 0, BlockCount)
        BY <4>1 DEF EvenFrom, Unworn
      <4>3. 0 \in 0 .. CountMask /\ BlockCount \in 1 .. BlockCount /\ 0 \in Block
        BY <2>1
      <4> QED  BY <1>10, <3>1, <4>2, <4>3 DEF Even, Behind
    <3>2. CASE o.prev # None
      <4>1. o.prev \in Header
        BY <3>2 DEF OpType
      <4>2. o.prev.start + o.prev.span \in Nat
        BY <2>1, <4>1 DEF Header
      <4>3. (o.prev.start + o.prev.span) % BlockCount \in Block
        BY <2>1, <4>2
      <4> QED  BY <1>10, <3>2, <4>3 DEF HeaderEven, Behind
    <3> QED  BY <3>1, <3>2
  <2> HIDE DEF q
  <2>3. Even(Rescaled(w), q) /\ \A b \in Block : Rescaled(w)[b].count < CountMask
    BY <2>1, <2>2, EvenRescaled
  <2>4. op' # None => HeaderEven(op'.cand)
    BY <1>10, <2>3, AttemptEven DEF q, HeaderEven
  <2> QED  BY <1>4, <1>5, <1>10, <2>4 DEF OpEven
<1>11. CASE Format
  <2> DEFINE prev == Scan(dev)
             wear == IF prev = None THEN Unworn ELSE prev.image.wear
             o == Call("format", Empty, prev, Rescaled(wear))
  <2>1. fs = None /\ Attempt(o) /\ UNCHANGED <<dev, fs>>
    BY <1>11 DEF Format
  <2>2. prev \in Header \cup {None} /\ (prev # None => HeaderEven(prev))
    BY <1>0, <1>7, ScanReadable
  <2>3. Unworn \in WearTable
    BY DEF Unworn, WearTable, SnapAssumption, PlacementAssumption
  <2>4. wear \in WearTable
    BY <2>2, <2>3 DEF Header, Image
  <2>5. Empty \in Content /\ SpanOf[Empty] = 1 /\ 1 + 1 <= BlockCount
    BY DEF SnapAssumption, SnapshotAssumption, PlacementAssumption
  <2>6. (prev # None => wear = prev.image.wear) /\ (prev = None => wear = Unworn)
    OBVIOUS
  <2> HIDE DEF prev, wear
  <2>7. /\ o \in OpType /\ o.name = "format" /\ o.prev = prev /\ o.content = Empty
        /\ o.wear = Rescaled(wear)
    BY <2>2, <2>4, <2>5, WearTables, CallType DEF Call
  <2> HIDE DEF o
  <2>8. SpanOf[o.content] + SpanOf[o.content] <= BlockCount
    BY <2>5, <2>7
  <2>9. TurnTable(o) = Rescaled(wear)
    BY <2>7 DEF TurnTable
  <2> QED  BY <1>10, <2>1, <2>2, <2>4, <2>6, <2>7, <2>8, <2>9
<1>12. ASSUME NEW content \in Content, Mutate(content)
       PROVE  DevEven /\ FsEven /\ OpEven
  <2> DEFINE o == Call("mutate", content, fs.active, fs.wear)
  <2>1. /\ fs # None /\ UNCHANGED <<dev, fs>> /\ op = None
        /\ \/ Attempt(o) /\ SpanOf[content] <= BlockCount \div 2
           \/ op' = op
    BY <1>12 DEF Mutate
  <2>2. fs.active \in Header /\ fs.wear \in WearTable /\ fs.active # None
    BY <1>0, <2>1 DEF FsType, SnapAssumption
  <2>3. /\ o \in OpType /\ o.name = "mutate" /\ o.prev = fs.active /\ o.content = content
        /\ o.wear = fs.wear
    BY <2>2, CallType DEF Call
  <2>4. HeaderEven(fs.active) /\ fs.wear = fs.active.image.wear
    BY <1>2, <2>1
  <2> HIDE DEF o
  <2>5. CASE Attempt(o) /\ SpanOf[content] <= BlockCount \div 2
    <3>1. SpanOf[content] \in Nat /\ BlockCount \in Nat
      BY DEF SnapAssumption, SnapshotAssumption, PlacementAssumption
    <3>2. SpanOf[o.content] + SpanOf[o.content] <= BlockCount
      BY <2>3, <2>5, <3>1
    <3>3. TurnTable(o) = Rescaled(fs.wear)
      BY <2>3 DEF TurnTable
    <3> QED  BY <1>10, <2>1, <2>2, <2>3, <2>4, <2>5, <3>2, <3>3
  <2>6. CASE op' = op
    BY <1>4, <1>5, <2>1, <2>6 DEF OpEven
  <2> QED  BY <2>1, <2>5, <2>6
<1>13. CASE Level
  <2>1. fs.active.image.content \in Content
    BY <1>0, <1>13 DEF Level, FsType, Header, Image
  <2> QED  BY <1>12, <1>13, <2>1 DEF Level
\* A step of writing, which keeps the candidate.
<1>14. ASSUME op # None, dev' = dev \/ dev' \in Outcomes, fs' = fs,
              op' = None \/ op'.cand = op.cand
       PROVE  DevEven /\ FsEven /\ OpEven
  BY <1>2, <1>4, <1>5, <1>6, <1>14 DEF OpEven
<1>15. ASSUME op # None, NEW step, Write(step)
       PROVE  dev' \in Outcomes /\ fs' = fs
  BY <1>15 DEF Write, Outcomes
<1>16. ASSUME op # None
       PROVE  /\ \A next : GoOn(next) => op'.cand = op.cand
              /\ \A next : op' = [op EXCEPT !.step = next] => op'.cand = op.cand
  <2>1. op \in OpType
    BY <1>0, <1>16
  <2>2. ASSUME NEW next PROVE [op EXCEPT !.step = next].cand = op.cand
    BY <2>1 DEF OpType
  <2>3. ASSUME NEW next PROVE [op EXCEPT !.step = next, !.at = 0].cand = op.cand
    BY <2>1 DEF OpType
  <2>4. [op EXCEPT !.at = @ + 1].cand = op.cand
    BY <2>1 DEF OpType
  <2>5. ASSUME NEW next, GoOn(next) PROVE op'.cand = op.cand
    BY <2>3, <2>4, <2>5 DEF GoOn
  <2> QED  BY <2>2, <2>5
<1>17. CASE EraseBlock
  BY <1>14, <1>15, <1>16, <1>17 DEF EraseBlock, Write
<1>18. CASE ProgramPrefix
  BY <1>14, <1>15, <1>16, <1>18 DEF ProgramPrefix, Write
<1>19. CASE ProgramPayload
  BY <1>14, <1>15, <1>16, <1>19 DEF ProgramPayload, Write
<1>20. CASE Verify
  BY <1>14, <1>16, <1>20 DEF Verify
<1>21. CASE ProgramCommit
  BY <1>14, <1>15, <1>16, <1>21 DEF ProgramCommit, Write
<1>22. CASE Confirm
  <2>1. /\ op # None /\ op' = None /\ dev' = dev
        /\ fs' = [active |-> op.cand, wear |-> op.cand.image.wear, recovery |-> FALSE]
    BY <1>22 DEF Confirm
  <2> QED  BY <1>2, <1>4, <2>1 DEF FsEven, OpEven
<1>23. CASE BlockFails
  <2>1. dead' = dead \cup {Target}
    BY <1>23 DEF BlockFails
  <2> QED  BY <1>1, <2>1
<1>24. CASE DeviceError
  <2>1. /\ op # None /\ dev' \in Outcomes /\ op' = None
        /\ fs' = IF op.name = "mutate" THEN [fs EXCEPT !.recovery = TRUE] ELSE fs
    BY <1>24 DEF DeviceError
  <2>2. CASE op.name = "mutate"
    <3>1. fs \in FsType /\ fs # None
      BY <1>0, <2>1, <2>2 DEF CallInv
    <3>2. fs'.active = fs.active /\ fs'.wear = fs.wear
      BY <2>1, <2>2, <3>1 DEF FsType
    <3> QED  BY <1>2, <1>6, <2>1, <3>1, <3>2 DEF FsEven, OpEven
  <2>3. CASE op.name # "mutate"
    BY <1>5, <1>6, <2>1, <2>3 DEF OpEven
  <2> QED  BY <2>2, <2>3
<1>25. CASE PlanError
  BY <1>4, <1>5, <1>25 DEF PlanError, OpEven
<1>26. CASE PowerLoss
  BY <1>4, <1>6, <1>26 DEF PowerLoss, FsEven, OpEven
<1>27. CASE UNCHANGED vars
  BY <1>2, <1>4, <1>5, <1>27 DEF vars, OpEven
<1> QED
  BY <1>8, <1>9, <1>11, <1>12, <1>13, <1>17, <1>18, <1>19, <1>20, <1>21, <1>22, <1>23,
     <1>24, <1>25, <1>26, <1>27 DEF Next

LEMMA WearInvInit ==
    ASSUME SnapAssumption, EvenAssumption, Init
    PROVE  WearInv
<1>0. BlockCount \in Nat /\ BlockCount >= 2 /\ Blank \notin Header
  BY DEF SnapAssumption, PlacementAssumption
<1>1. fs = None /\ op = None
  BY DEF Init
<1>2. CASE dev = [b \in Block |-> Erased]
  BY <1>0, <1>1, <1>2 DEF WearInv, Erased
<1>3. ASSUME NEW wear \in FirstTables, dead = Bad(wear), dead = {},
             dev = Holding(HeaderFor(FirstGen, 0, Empty, wear))
      PROVE  WearInv
  <2> DEFINE h == HeaderFor(FirstGen, 0, Empty, wear)
  <2>1. h.start = 0 /\ h.span = 1 /\ h.image.wear = wear
    BY DEF HeaderFor, SnapAssumption, SnapshotAssumption
  <2>5. Even(wear, 1)
    BY <1>3 DEF EvenAssumption
  <2>2. Even(wear, 1) /\ (0 + 1) % BlockCount = 1
    BY <1>0, <2>5
  <2>3. HeaderEven(h)
    BY <1>0, <2>1, <2>2 DEF HeaderEven
  <2>4. \A b \in Block : dev[b].head \in {h, Blank}
    BY <1>3 DEF Holding, Erased
  <2> HIDE DEF h
  <2> QED  BY <1>0, <1>1, <2>3, <2>4 DEF WearInv
<1> QED  BY <1>2, <1>3 DEF Init, WearInv

\* Level counters lie one apart at most.
LEMMA EvenSpread ==
    ASSUME PlacementAssumption, NEW wear, NEW q \in Block, Even(wear, q)
    PROVE  Spread(wear) <= 1
<1>0. BlockCount \in Nat /\ CountMask \in Nat /\ q \in Block
  BY DEF PlacementAssumption
<1>1. PICK m \in 0 .. CountMask, z \in 1 .. BlockCount : EvenFrom(wear, q, m, z)
  BY DEF Even
<1>2. m \in Nat
  BY <1>0
<1> DEFINE counts == {wear[b].count : b \in Block \ Bad(wear)}
<1>3. Bad(wear) = {} /\ \A b \in Block : wear[b].count \in {m, m + 1}
  BY <1>0, <1>1, <1>2, EvenTable
<1>4. counts # {} /\ counts \subseteq {m, m + 1}
  BY <1>0, <1>3
<1> HIDE DEF counts
<1>5. /\ \E x \in counts : \A y \in counts : x >= y
      /\ \E x \in counts : \A y \in counts : x <= y
  <2>1. counts = {m} \/ counts = {m + 1} \/ counts = {m, m + 1}
    BY <1>4
  <2>2. CASE counts = {m} \/ counts = {m + 1}
    BY <1>2, <2>2
  <2>3. CASE counts = {m, m + 1}
    BY <1>2, <2>3
  <2> QED  BY <2>1, <2>2, <2>3
<1>6. Max(counts) \in counts /\ Min(counts) \in counts
  BY <1>5 DEF Max, Min
<1>7. Max(counts) - Min(counts) <= 1
  <2>1. Max(counts) \in {m, m + 1} /\ Min(counts) \in {m, m + 1}
    BY <1>4, <1>6
  <2> QED  BY <1>2, <2>1
<1>8. Spread(wear) = IF counts = {} THEN 0 ELSE Max(counts) - Min(counts)
  BY DEF Spread, counts
<1> QED  BY <1>4, <1>7, <1>8

\* As long as no block has worn out, the counters stored with the snapshot that a mount
\* would find lie one apart at most: for any number of blocks, any mixture of snapshot
\* sizes, crashes, errors and formats, through every halving of the counters.
THEOREM WearStaysEven ==
    ASSUME SnapAssumption, EvenAssumption
    PROVE  Spec => []WearEven
<1>1. Init => SnapInv /\ WearInv
  BY SnapInvInit, WearInvInit
<1>2. SnapInv /\ WearInv /\ [Next]_vars => SnapInv' /\ WearInv'
  BY SnapInvNext, WearInvNext
<1>3. SnapInv /\ WearInv => WearEven
  <2> SUFFICES ASSUME SnapInv, WearInv, dead = {}, Scan(dev) # None
               PROVE  Spread(Scan(dev).image.wear) <= 1
    BY DEF WearEven
  <2> DEFINE h == Scan(dev)
  <2>1. dev \in [Block -> BlockType]
    BY DEF SnapInv, SnapTypes
  <2>2. h \in Header /\ Readable(dev, h)
    BY <2>1, ScanReadable
  <2> HIDE DEF h
  <2>3. h.start \in Block /\ h.span \in Nat \ {0} /\ dev[h.start].head = h
    BY <2>2 DEF Readable, Header
  <2>4. HeaderEven(h)
    BY <2>2, <2>3 DEF WearInv
  <2>5. BlockCount \in Nat \ {0} /\ Block = 0 .. BlockCount - 1 /\ PlacementAssumption
    BY DEF SnapAssumption, PlacementAssumption, Block
  <2>6. h.start + h.span \in Nat
    BY <2>3, <2>5
  <2>7. (h.start + h.span) % BlockCount \in Block
    BY <2>5, <2>6
  <2> QED  BY <2>4, <2>5, <2>7, EvenSpread DEF HeaderEven, h
<1> QED
  BY <1>1, <1>2, <1>3, PTL DEF Spec
=============================================================================
