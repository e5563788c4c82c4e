----------------------------- MODULE SoakReport -----------------------------
(***************************************************************************)
(* The reports of the soak test (src/soak_report.rs) and their names       *)
(* (src/soak_report_core.rs): by the clock when it is set, otherwise by a  *)
(* number one above those found and by the time since the start.  A report *)
(* is written after the oldest ones have been removed.                     *)
(***************************************************************************)
EXTENDS Integers, Sequences, FiniteSets, FiniteSetsExt

CONSTANTS Slots,        \* TEST_REPORT_SLOTS
          MaxReports,   \* bound: reports
          MaxStarts,    \* bound: starts
          MaxFaults     \* bound: writes that fail

VARIABLES reports,   \* names in /test
          made,      \* names of the reports written, in order
          rtc,       \* the clock, or 0 when it is not set
          day,       \* the true time
          uptime, starts, slips
reportVars == <<reports, made, rtc, day, uptime, starts, slips>>

ReportAssumption == Slots >= 1 /\ MaxReports >= 0 /\ MaxStarts >= 0 /\ MaxFaults >= 0
-----------------------------------------------------------------------------
\* A name: of the clock, or of the number and the uptime; older firmware wrote the
\* uptime alone, which reads as number 0.
Stamped(t) == [kind |-> "rtc", seq |-> t, up |-> 0]
Numbered(n, up) == [kind |-> "seq", seq |-> n, up |-> up]
FileName(seq) == IF rtc # 0 THEN Stamped(rtc) ELSE Numbered(seq, uptime)
IsNumbered(a) == a.kind = "seq"

OlderThan(a, b) ==
    IF a.kind = b.kind THEN a.seq < b.seq \/ (a.seq = b.seq /\ a.up < b.up)
    ELSE ~IsNumbered(a)

NextBootSeq == Max({0} \cup {r.seq : r \in {q \in reports : IsNumbered(q)}}) + 1
Oldest(names) == CHOOSE a \in names : \A b \in names \ {a} : OlderThan(a, b)
Kept[names \in SUBSET reports] ==
    IF Cardinality(names) <= Slots THEN names ELSE Kept[names \ {Oldest(names)}]

\* save: the budget first, then the report, which may not fit.
Save ==
    /\ Len(made) < MaxReports
    /\ LET name == FileName(NextBootSeq) IN
       \/ /\ reports' = Kept[reports] \cup {name} /\ made' = Append(made, name)
          /\ UNCHANGED slips
       \/ /\ slips < MaxFaults /\ slips' = slips + 1
          /\ reports' = Kept[reports] /\ UNCHANGED made
    /\ uptime' = uptime + 1 /\ day' = day + 1
    /\ rtc' = IF rtc = 0 THEN 0 ELSE day + 1
    /\ UNCHANGED starts

\* The device starts again, with its clock or without.
Restart ==
    /\ starts < MaxStarts /\ starts' = starts + 1
    /\ uptime' = 1 /\ rtc' \in {0, rtc}
    /\ UNCHANGED <<reports, made, day, slips>>
SetClock ==
    /\ rtc = 0 /\ rtc' = day
    /\ UNCHANGED <<reports, made, day, uptime, starts, slips>>
-----------------------------------------------------------------------------
ReportInit ==
    /\ reports \in {{}, {Numbered(0, 9)}} /\ made = <<>>
    /\ rtc = 0 /\ day = 1 /\ uptime = 1 /\ starts = 1 /\ slips = 0
ReportNext == Save \/ Restart \/ SetClock

MadeNames == {made[i] : i \in 1..Len(made)}
\* Over any number of starts, with the clock set or not: no report takes the name of
\* another, none outlives a newer one of its kind, and none is removed while there is
\* room.  The newest ones are there if their names are of one kind; between the kinds it
\* is the names that decide, and not the time (soak_report_core.rs:701).  The report that
\* is being saved comes on top of the budget.
NewestKept ==
    /\ Cardinality(reports) <= Slots + 1
    /\ Cardinality(MadeNames) = Len(made)
    /\ \A i, j \in 1..Len(made) :
           i < j /\ made[i].kind = made[j].kind /\ made[i] \in reports => made[j] \in reports
    /\ ~(MadeNames \subseteq reports) => Cardinality(reports) >= Slots
    /\ (\A a, b \in reports \cup MadeNames : a.kind = b.kind) =>
           \A i \in 1..Len(made) : i > Len(made) - Slots => made[i] \in reports
=============================================================================
