------------------------------ MODULE MCKernel ------------------------------
(***************************************************************************)
(* Instances, for TLC, of the two parts of the kernel that keep threads or *)
(* timers in order: mutexes with priority inheritance, and kernel timers.  *)
(* They share no state, so the run looks at each of them in turn: `part`   *)
(* says which one a behaviour is about, and the other stands still.        *)
(***************************************************************************)
EXTENDS Mutex, KernelTimer

CONSTANTS ta, tb, tc, idle, t1, t2, t3

VARIABLE part

-----------------------------------------------------------------------------
Base3 == ta :> 0 @@ tb :> 1 @@ tc :> 2 @@ idle :> 3

\* With three bits of time, delays below and beyond what start() clamps them to.
Timers  == Permutations(Timer)
Delays  == {0, 4}
Periods == {0, 2}

ASSUME TimerAssumption

-----------------------------------------------------------------------------
partVars == <<part, vars, timerVars>>

PartInit == part \in {"mutex", "timer"} /\ Init /\ TimerInit

PartNext ==
    \/ part = "mutex" /\ Next /\ UNCHANGED <<part, timerVars>>
    \/ part = "timer" /\ TimerNext /\ UNCHANGED <<part, vars>>

PartSpec == PartInit /\ [][PartNext]_partVars
=============================================================================
