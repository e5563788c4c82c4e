------------------------------ MODULE LogRing ------------------------------
(***************************************************************************)
(* The buffer of log entries in RAM (src/logring.rs).  The code packs the   *)
(* entries end to end in one array and moves them to its front before it    *)
(* looks for room, so that only their order and their lengths count here:   *)
(* a ring is the sequence q of its entries, the number of entries dropped   *)
(* since the last drain, and the flag `writing`.  While `writing` is set    *)
(* the last entry is open: its header is not written yet.                   *)
(***************************************************************************)
EXTENDS Integers, Sequences, SequencesExt

CONSTANTS Cap,       \* bytes of the buffer (CFG_LOG_RING)
          Header,    \* bytes of an entry's header
          LostLen,   \* bytes of "[log buffer overflow, N dropped]"
          CutLen     \* bytes of "[truncated]"

RingAssumption == Cap > Header /\ {Header, LostLen, CutLen} \subseteq Nat

EmptyRing == [q |-> <<>>, dropped |-> 0, writing |-> FALSE]
Used(q) == FoldLeft(LAMBDA sum, e : sum + Header + e.len, 0, q)
From(q, k) == SubSeq(q, k + 1, Len(q))

\* Entries go from the old end, one at a time, until `need` bytes are free or
\* only the newest `keep` entries are left: the number of those that go.
Drops(q, keep, need) ==
  LET Fits(k) == Used(From(q, k)) + need <= Cap
      most == Len(q) - keep
  IN IF \E k \in 0..most : Fits(k)
     THEN CHOOSE k \in 0..most : Fits(k) /\ \A j \in 0..(k - 1) : ~Fits(j)
     ELSE most

DropOldest(r, k) == [r EXCEPT !.q = From(@, k), !.dropped = @ + k]

BeginEntry(r, line) ==
  LET s == DropOldest(r, Drops(r.q, 0, Header))
  IN [s EXCEPT !.q = Append(@, [line |-> line, len |-> 0, cut |-> FALSE, open |-> TRUE]),
               !.writing = TRUE]

\* A piece that does not fit even when it is alone with its own entry is left
\* out, and the entries before it are gone all the same.
AppendToEntry(r, n) ==
  LET s == DropOldest(r, Drops(r.q, 1, n))
      room == Used(s.q) + n <= Cap
  IN [s EXCEPT !.q[Len(s.q)].len = IF room THEN @ + n ELSE @,
               !.q[Len(s.q)].cut = @ \/ ~room]

CommitEntry(r) == [r EXCEPT !.q[Len(r.q)].open = FALSE, !.writing = FALSE]

\* What a drain writes: a marker for the dropped entries, then the lines.
Lost(r) == IF r.dropped = 0 THEN <<>> ELSE <<[kind |-> "lost", n |-> r.dropped]>>
Line(e) == [kind |-> "line", line |-> e.line, len |-> e.len, cut |-> e.cut, open |-> e.open]
Lines(q) == [i \in DOMAIN SelectSeq(q, LAMBDA e : e.len > 0) |->
               Line(SelectSeq(q, LAMBDA e : e.len > 0)[i])]
Bytes(item) == CASE item.kind = "lost" -> LostLen
                 [] item.kind = "boot" -> item.n
                 [] OTHER -> item.len + 1 + (IF item.cut THEN CutLen ELSE 0)
Length(items) == FoldLeft(LAMBDA sum, i : sum + Bytes(i), 0, items)

\* The entries of the longest prefix that passes the limit; the code counts
\* an entry's header against the limit although it does not write it.
Whole(r, limit) ==
  LET Passes(i) == LET before == Length(Lost(r) \o Lines(SubSeq(r.q, 1, i - 1)))
                   IN r.q[i].len > 0 => before + Bytes(Line(r.q[i])) + Header <= limit
  IN CHOOSE n \in 0..Len(r.q) :
       (\A i \in 1..n : Passes(i)) /\ (n < Len(r.q) => ~Passes(n + 1))

Taken(r, n) == [out  |-> Lost(r) \o Lines(SubSeq(r.q, 1, n)),
                ring |-> [r EXCEPT !.q = From(@, n), !.dropped = 0]]
DrainLimited(r, limit) ==
  IF Length(Lost(r)) > limit THEN [out |-> <<>>, ring |-> r] ELSE Taken(r, Whole(r, limit))
DrainOldest(r) == Taken(r, IF r.q = <<>> THEN 0 ELSE 1)
=============================================================================
