------------------------------ MODULE MCSched ------------------------------
(* Instances of Sched for TLC. *)
EXTENDS Sched, TLC

CONSTANTS ta, tb, tc, idle

\* One thread alone at the top, two that share the next level, idle below.
Prio3 == ta :> 0 @@ tb :> 1 @@ tc :> 1 @@ idle :> 2
Slice3 == ta :> 1 @@ tb :> 2 @@ tc :> 1 @@ idle :> 1

\* Two equal threads and idle.
Prio2 == ta :> 0 @@ tb :> 0 @@ idle :> 1
Slice2 == ta :> 2 @@ tb :> 1 @@ idle :> 1
=============================================================================
