------------------------------ MODULE Records ------------------------------
(***************************************************************************)
(* The namespace of the snapshot file system (crates/littlefs/src/fs.rs):  *)
(* a snapshot's records, one per file and directory, each with its full    *)
(* path.  A path is a sequence of characters, for descendants are found by *)
(* comparing prefixes of paths.  A call checks the tree, and the room that *)
(* its result takes, before the new records are written; Snapshot says how *)
(* that is done in one step.                                               *)
(***************************************************************************)
EXTENDS Integers, Sequences, SequencesExt

CONSTANTS
    Slash,       \* the separator
    Inputs,      \* the paths given by callers, invalid ones among them
    Size,        \* sizes of the data that files are written with
    MaxNameLen,  \* MAX_NAME_LEN
    MaxFiles,    \* MAX_FILES
    HeaderLen,   \* RECORD_HEADER_SIZE
    Capacity,    \* bytes for the records of a snapshot, a multiple of 4
    None         \* no call

RecordsAssumption ==
    /\ Size \subseteq Nat
    /\ {MaxNameLen, MaxFiles, HeaderLen, Capacity} \subseteq Nat
    /\ Capacity % 4 = 0

VARIABLES
    records,  \* the records of the current snapshot
    request,  \* the call under way with its arguments
    reply     \* what the last call returned, none while one is under way

vars == <<records, request, reply>>

-----------------------------------------------------------------------------
\* Paths.

ValidName(n) ==
    /\ n # <<>> /\ Len(n) <= MaxNameLen
    /\ n[1] # Slash /\ Last(n) # Slash
    /\ \A i \in 2 .. Len(n) : n[i] = Slash => n[i - 1] # Slash

IsDescendantByPrefix(path, directory) ==
    Len(path) > Len(directory) /\ IsPrefix(directory, path)
IsDescendant(path, directory) ==
    /\ Len(path) > Len(directory)
    /\ path[Len(directory) + 1] = Slash
    /\ IsPrefix(directory, path)

Slashes(n) == {i \in DOMAIN n : n[i] = Slash}
HasParent(n) == Slashes(n) # {}
Parent(n) ==
    LET last == CHOOSE i \in Slashes(n) : \A j \in Slashes(n) : j <= i
    IN SubSeq(n, 1, last - 1)

-----------------------------------------------------------------------------
\* Records.

Record(n, isDirectory, size) == [name |-> n, directory |-> isDirectory, size |-> size]

RecordLen(r) == ((HeaderLen + Len(r.name) + r.size + 3) \div 4) * 4
PayloadLen(rs) ==
    FoldLeft(LAMBDA sum, r : sum + RecordLen(r), 0, rs)

Found(rs, n) == {i \in DOMAIN rs : rs[i].name = n}
Exists(n) == Found(records, n) # {}
DirectoryExists(n) == \E i \in Found(records, n) : records[i].directory
FileExists(n) == \E i \in Found(records, n) : ~records[i].directory
HasDescendant(n) == \E i \in DOMAIN records : IsDescendant(records[i].name, n)

ParentMissing(n) == HasParent(n) /\ ~Exists(Parent(n))
ParentIsFile(n) == HasParent(n) /\ FileExists(Parent(n))

\* The structure that a snapshot is checked for when it is read back.
Accepted(rs) ==
    /\ Len(rs) <= MaxFiles /\ PayloadLen(rs) <= Capacity
    /\ \A i \in DOMAIN rs :
        /\ ValidName(rs[i].name)
        /\ rs[i].directory => rs[i].size = 0
        /\ Found(rs, rs[i].name) = {i}
        /\ HasParent(rs[i].name) =>
            \E j \in Found(rs, Parent(rs[i].name)) : rs[j].directory

-----------------------------------------------------------------------------
\* Changes, and the records they lead to.

Change(kind, n, to, new) == [kind |-> kind, name |-> n, to |-> to, new |-> new]

Skipped(c, n) ==
    c.kind = "clear" \/ (c.kind \in {"write", "remove"} /\ n = c.name)

Renamed(c, n) ==
    /\ c.kind = "rename"
    /\ n = c.name \/ (DirectoryExists(c.name) /\ IsDescendant(n, c.name))

NewName(c, n) ==
    IF Renamed(c, n) THEN c.to \o SubSeq(n, Len(c.name) + 1, Len(n)) ELSE n

Planned(c) ==
    LET kept == SelectSeq(records, LAMBDA r : ~Skipped(c, r.name))
    IN [i \in DOMAIN kept |-> [kept[i] EXCEPT !.name = NewName(c, @)]] \o c.new

Fits(rs) == Len(rs) <= MaxFiles /\ PayloadLen(rs) <= Capacity

Mutate(c) ==
    IF Fits(Planned(c))
    THEN records' = Planned(c) /\ reply' = "ok"
    ELSE reply' = "NoSpace" /\ UNCHANGED records

Return(result) == reply' = result /\ UNCHANGED records

-----------------------------------------------------------------------------
\* Calls.

Write(n, size) ==
    IF ~ValidName(n) THEN Return("InvalidName")
    ELSE IF ParentMissing(n) THEN Return("NotFound")
    ELSE IF ParentIsFile(n) THEN Return("NotDirectory")
    ELSE IF DirectoryExists(n) THEN Return("IsDirectory")
    ELSE Mutate(Change("write", n, n, <<Record(n, FALSE, size)>>))

RemoveFile(n) ==
    IF ~ValidName(n) THEN Return("InvalidName")
    ELSE IF ~Exists(n) THEN Return("NotFound")
    ELSE IF DirectoryExists(n) THEN Return("IsDirectory")
    ELSE Mutate(Change("remove", n, n, <<>>))

Mkdir(n) ==
    IF ~ValidName(n) THEN Return("InvalidName")
    ELSE IF ParentMissing(n) THEN Return("NotFound")
    ELSE IF ParentIsFile(n) THEN Return("NotDirectory")
    ELSE IF Exists(n) THEN Return("AlreadyExists")
    ELSE Mutate(Change("mkdir", n, n, <<Record(n, TRUE, 0)>>))

Rmdir(n) ==
    IF ~ValidName(n) THEN Return("InvalidName")
    ELSE IF ~Exists(n) THEN Return("NotFound")
    ELSE IF FileExists(n) THEN Return("NotDirectory")
    ELSE IF HasDescendant(n) THEN Return("DirectoryNotEmpty")
    ELSE Mutate(Change("remove", n, n, <<>>))

\* preflight_rename: the longest of the new names.
NamesFit(c) ==
    \A i \in DOMAIN records : Len(NewName(c, records[i].name)) <= MaxNameLen

Rename(n, to) ==
    LET c == Change("rename", n, to, <<>>)
    IN IF ~ValidName(n) \/ ~ValidName(to) THEN Return("InvalidName")
       ELSE IF ~Exists(n) THEN Return("NotFound")
       ELSE IF n = to THEN Return("ok")
       ELSE IF Exists(to) THEN Return("AlreadyExists")
       ELSE IF DirectoryExists(n) /\ IsDescendant(to, n) THEN Return("InvalidMove")
       ELSE IF ParentMissing(to) THEN Return("NotFound")
       ELSE IF ParentIsFile(to) THEN Return("NotDirectory")
       ELSE IF ~NamesFit(c) THEN Return("InvalidName")
       ELSE Mutate(c)

Clear == Mutate(Change("clear", <<>>, <<>>, <<>>))
Level == Mutate(Change("level", <<>>, <<>>, <<>>))

MaxWriteSizeBeside(n) ==
    LET size == Capacity - PayloadLen(records) - HeaderLen - Len(n)
    IN IF \/ ~ValidName(n) \/ ParentMissing(n) \/ ParentIsFile(n)
          \/ DirectoryExists(n) \/ (~Exists(n) /\ Len(records) >= MaxFiles)
          \/ size < 0
       THEN {} ELSE {size}
\* The size that max_write_size answers for n, as a set of none or one number.
MaxWriteSize(n) ==
    LET replaced == {RecordLen(records[i]) : i \in Found(records, n)}
        retained == PayloadLen(records) - (IF replaced = {} THEN 0
                                           ELSE CHOOSE len \in replaced : TRUE)
        fixed == HeaderLen + Len(n)
    IN IF \/ ~ValidName(n) \/ ParentMissing(n) \/ ParentIsFile(n)
          \/ DirectoryExists(n) \/ (~Exists(n) /\ Len(records) >= MaxFiles)
       THEN {}
       ELSE {size \in {Capacity - retained - fixed} : size >= 0}

Request(op, n, to, size) == [op |-> op, name |-> n, to |-> to, size |-> size]
Requests ==
    {Request(op, <<>>, <<>>, 0) : op \in {"clear", "level"}}
      \cup {Request(op, n, n, 0) : op \in {"remove", "mkdir", "rmdir"}, n \in Inputs}
      \cup {Request("write", n, n, size) : n \in Inputs, size \in Size}
      \cup {Request("rename", n, to, 0) : n, to \in Inputs}

Init == records = <<>> /\ request = None /\ reply = "ok"

Ask == request = None /\ request' \in Requests /\ reply' = "none" /\ UNCHANGED records

Serve ==
    /\ request # None /\ request' = None
    /\ LET n == request.name IN
       \/ request.op = "clear" /\ Clear
       \/ request.op = "level" /\ Level
       \/ request.op = "remove" /\ RemoveFile(n)
       \/ request.op = "mkdir" /\ Mkdir(n)
       \/ request.op = "rmdir" /\ Rmdir(n)
       \/ request.op = "write" /\ Write(n, request.size)
       \/ request.op = "rename" /\ Rename(n, request.to)

Next == Ask \/ Serve

Spec == Init /\ [][Next]_vars

-----------------------------------------------------------------------------
\* What the checks before a change let through is what reading back accepts: no
\* sequence of calls leads to a snapshot that a mount would take for corrupt
\* (the calls' checks and calculate_change against validate_snapshot).
NeverCorrupt == Accepted(records)

\* max_write_size, computed apart from the checks of write, answers exactly the
\* largest size that write accepts, and an error when it accepts none
\* (fs.rs:316-341).
Accepts(n, size) ==
    /\ ValidName(n) /\ ~ParentMissing(n) /\ ~ParentIsFile(n) /\ ~DirectoryExists(n)
    /\ Fits(Planned(Change("write", n, n, <<Record(n, FALSE, size)>>)))
MaxWriteExact ==
    \A n \in Inputs :
        /\ MaxWriteSize(n) = {} => ~Accepts(n, 0)
        /\ \A most \in MaxWriteSize(n) : Accepts(n, most) /\ ~Accepts(n, most + 1)
=============================================================================
