-------------------------- MODULE SnapshotPromise --------------------------
(***************************************************************************)
(* What the snapshot file system promises: the medium holds one tree, and  *)
(* a call replaces it by another in a single step or not at all, whatever  *)
(* the power and the device do.  A call that returned success has done so, *)
(* one that returned NoSpace has not, and after any other error the caller *)
(* must mount again, which shows the tree the medium holds.                *)
(***************************************************************************)
CONSTANTS Content, None

VARIABLES
    tree,    \* the tree that a mount would find now, or None
    view,    \* the tree a mounted file system shows, or None
    locked,  \* the file system refuses every change until it is mounted again
    call,    \* the change under way: the trees before and after it, or None
    reply    \* what the last call returned

vars == <<tree, view, locked, call, reply>>

Init ==
    /\ tree \in Content \cup {None} /\ view = None /\ locked = FALSE
    /\ call = None /\ reply = "none"

Mount ==
    /\ view = None /\ call = None /\ tree # None
    /\ reply' = "none" /\ UNCHANGED <<locked, call, tree>>
    /\ view' = tree

Unmount ==
    /\ view # None /\ call = None
    /\ view' = None /\ locked' = FALSE /\ reply' = "none"
    /\ UNCHANGED <<call, tree>>

Refuse ==
    /\ call = None
    /\ reply' = "nospace"
    /\ UNCHANGED <<view, locked, call, tree>>

Start(new) ==
    /\ call = None /\ ~locked
    /\ reply' = "none" /\ UNCHANGED <<view, locked, tree>>
    /\ call' = [old |-> tree, new |-> new]

Publish ==
    /\ call # None
    /\ UNCHANGED <<view, locked, call, reply>>
    /\ tree' = call.new

Succeed ==
    /\ call # None /\ reply' = "ok" /\ call' = None
    /\ tree = call.new /\ view' = tree
    /\ UNCHANGED <<locked, tree>>

GiveUp ==
    /\ call # None
    /\ reply' \in {"nospace", "error"} /\ call' = None
    /\ UNCHANGED <<view, locked, tree>>
    /\ tree = call.old

Fail ==
    /\ call # None
    /\ reply' = "error" /\ call' = None
    /\ IF view = None THEN UNCHANGED locked ELSE locked' = TRUE
    /\ UNCHANGED view
    /\ tree' \in {tree, call.new}

PowerLoss ==
    /\ view' = None /\ locked' = FALSE /\ call' = None /\ reply' = "lost"
    /\ tree' \in {tree} \cup (IF call = None THEN {} ELSE {call.new})

Next ==
    \/ Mount \/ Unmount \/ Refuse \/ \E new \in Content : Start(new)
    \/ Publish \/ Succeed \/ GiveUp \/ Fail \/ PowerLoss

Spec == Init /\ [][Next]_vars
=============================================================================
