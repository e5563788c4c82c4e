------------------------------ MODULE FileTree ------------------------------
(***************************************************************************)
(* What the namespace promises: a tree of directories and files, where a   *)
(* path is the sequence of the names that lead to an entry.  The answer to *)
(* a call is determined by the tree: a change that the tree allows is made *)
(* as a whole, unless it lacks the room, and any other is refused.         *)
(***************************************************************************)
EXTENDS Naturals, Sequences, SequencesExt

CONSTANTS
    Path,      \* the paths there can be, sequences of names
    Holds(_),  \* whether the medium has room for a tree
    None       \* no call

VARIABLES
    tree,   \* a function from the paths that exist to their entries
    call,   \* the call under way: what is done, to which path, with what
    reply   \* what the last call returned: ok, refused, invalid or nospace; none during one

Directory == [directory |-> TRUE, size |-> 0]
File(size) == [directory |-> FALSE, size |-> size]

Has(p) == p \in DOMAIN tree
IsDirectory(p) == Has(p) /\ tree[p].directory
IsFile(p) == Has(p) /\ ~tree[p].directory
InDirectory(p) == Len(p) = 1 \/ IsDirectory(Front(p))
Under(p) == {q \in DOMAIN tree : IsStrictPrefix(p, q)}
Put(p, entry) == [q \in DOMAIN tree \cup {p} |-> IF q = p THEN entry ELSE tree[q]]
Without(paths) == [q \in DOMAIN tree \ paths |-> tree[q]]

\* The subtree at p, in the place of to.
Moved(p, to) ==
    LET moved == {p} \cup Under(p)
        place == [q \in moved |-> to \o SubSeq(q, Len(p) + 1, Len(q))]
    IN [q \in (DOMAIN tree \ moved) \cup {place[r] : r \in moved} |->
            IF \E r \in moved : place[r] = q
            THEN tree[CHOOSE r \in moved : place[r] = q]
            ELSE tree[q]]

Init == tree = <<>> /\ call = None /\ reply = "ok"

Ask == call = None /\ call' # None /\ tree' = tree /\ reply' = "none"

\* A call that the tree allows succeeds exactly if there is room for what it leads to.
Does(allowed, result) ==
    /\ reply' = IF ~allowed THEN "refused" ELSE IF ~Holds(result) THEN "nospace" ELSE "ok"
    /\ tree' = IF allowed /\ Holds(result) THEN result ELSE tree

Invalid == reply' = "invalid" /\ tree' = tree

Write(p, size) == Does(InDirectory(p) /\ ~IsDirectory(p), Put(p, File(size)))
Mkdir(p) == Does(InDirectory(p) /\ ~Has(p), Put(p, Directory))
RemoveFile(p) == Does(IsFile(p), Without({p}))
Rmdir(p) == Does(IsDirectory(p) /\ Under(p) = {}, Without({p}))

\* Names grow when a tree is moved, and must not become too long.
Rename(p, to) ==
    LET allowed == Has(p) /\ ~Has(to) /\ InDirectory(to) /\ ~IsStrictPrefix(p, to)
    IN IF p = to THEN Does(Has(p), tree)
       ELSE IF allowed /\ ~(DOMAIN Moved(p, to) \subseteq Path) THEN Invalid
       ELSE Does(allowed, Moved(p, to))

Answer ==
    /\ call # None /\ call' = None
    /\ \/ call.op = "clear" /\ Does(TRUE, <<>>)
       \/ call.op = "level" /\ Does(TRUE, tree)
       \/ call.op \notin {"clear", "level"} /\ ~({call.path, call.to} \subseteq Path) /\ Invalid
       \/ /\ {call.path, call.to} \subseteq Path
          /\ \/ call.op = "write" /\ Write(call.path, call.size)
             \/ call.op = "mkdir" /\ Mkdir(call.path)
             \/ call.op = "remove" /\ RemoveFile(call.path)
             \/ call.op = "rmdir" /\ Rmdir(call.path)
             \/ call.op = "rename" /\ Rename(call.path, call.to)

Next == Ask \/ Answer

Spec == Init /\ [][Next]_<<tree, call, reply>>
=============================================================================
