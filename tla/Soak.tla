-------------------------------- MODULE Soak --------------------------------
(***************************************************************************)
(* The soak test (src/soak.rs): the shell starts the workers, looks every  *)
(* second whether each still beats, asks them to stop, waits until they    *)
(* are gone and reclaimed, and gives its verdict.  The shell is the thread *)
(* of the highest priority, so that workers run only while it sleeps; the  *)
(* ones in `Above`, if any, run at every moment.  Time is in units of the  *)
(* monitor's second and wraps.  A worker's own work is one step, in which  *)
(* it beats; it may find an error or hang.                                 *)
(***************************************************************************)
EXTENDS Integers, FiniteSets

CONSTANTS Workers,
          Partner,   \* the worker whose messages a worker waits for, or itself
          Parents,   \* the workers that create threads
          Above,     \* the workers above the shell's priority
          Grace, Duration, ExitWait, WrapAt,
          First,     \* uptime at the start
          MaxFaults  \* bound: errors and hangs

VARIABLES now,                       \* time; uptime_ms is what is left of it
          stop,                      \* STOP
          state, beat, active, errors, child,   \* of each worker
          mon,                       \* the monitor: where it is, and what it knows
          verdict,
          broken,                    \* when each worker found an error, or hung, unless after the stop
          slips
soakVars == <<now, stop, state, beat, active, errors, child, mon, verdict, broken, slips>>

SoakAssumption ==
    /\ Partner \in [Workers -> Workers] /\ Parents \subseteq Workers /\ Above \subseteq Workers
    /\ Grace > 1 /\ ExitWait > 0 /\ WrapAt > 2 * (Grace + 1)
-----------------------------------------------------------------------------
Uptime == now % WrapAt
Since(t) == (Uptime - t + WrapAt) % WrapAt
Running(x) == state[x] \in {"run", "found", "failing"}
Listed == {x \in Workers : Running(x) \/ state[x] = "hung"}
Defunct == {x \in Workers : state[x] = "dead"} \cup {x \in Parents : child[x] = "dead"}
Asleep == mon.at \in {"sleep", "leaving", "recycle"}
Runs(x) == Asleep \/ x \in Above
monVars == <<now, stop, mon, verdict>>
Never == -1
Broken(x) == broken' = [broken EXCEPT ![x] = IF @ = Never THEN now ELSE @]
-----------------------------------------------------------------------------
(* The workers. *)
Beat(x) ==
    /\ Runs(x) /\ state[x] = "run" /\ ~stop /\ beat[x] # Uptime
    /\ Running(Partner[x])
    /\ beat' = [beat EXCEPT ![x] = Uptime]
    /\ UNCHANGED <<monVars, state, active, errors, child, broken, slips>>

\* A worker that finds an error, or waits in vain for a partner that has left or hangs.
FindError(x) ==
    /\ Runs(x) /\ state[x] = "run"
    /\ IF state[Partner[x]] \in {"hung", "dead", "gone"} THEN UNCHANGED slips
       ELSE slips < MaxFaults /\ slips' = slips + 1
    /\ state' = [state EXCEPT ![x] = "found"]
    /\ IF stop THEN UNCHANGED broken ELSE Broken(x)
    /\ UNCHANGED <<monVars, beat, active, errors, child>>
\* fail: an error counts unless the test was stopped meanwhile.  The CAN worker gives the
\* controller back before it comes here.
CountsError(x) ==
    /\ Runs(x) /\ state[x] = "found"
    /\ state' = [state EXCEPT ![x] = IF stop THEN "dead" ELSE "failing"]
    /\ active' = [active EXCEPT ![x] = IF stop THEN FALSE ELSE @]
    /\ UNCHANGED <<monVars, beat, errors, child, broken, slips>>
Fail(x) ==
    /\ Runs(x) /\ state[x] = "failing"
    /\ errors' = [errors EXCEPT ![x] = @ + 1]
    /\ state' = [state EXCEPT ![x] = "dead"] /\ active' = [active EXCEPT ![x] = FALSE]
    /\ UNCHANGED <<monVars, beat, child, broken, slips>>
Hang(x) ==
    /\ Runs(x) /\ state[x] = "run" /\ slips < MaxFaults
    /\ slips' = slips + 1 /\ state' = [state EXCEPT ![x] = "hung"] /\ Broken(x)
    /\ UNCHANGED <<monVars, beat, active, errors, child>>
Leave(x) ==
    /\ Runs(x) /\ state[x] = "run" /\ stop
    /\ state' = [state EXCEPT ![x] = "dead"] /\ active' = [active EXCEPT ![x] = FALSE]
    /\ UNCHANGED <<monVars, beat, errors, child, broken, slips>>

\* thread_worker's threads, which may outlive it; the idle thread reclaims.
CreateChild(x) ==
    /\ Runs(x) /\ x \in Parents /\ state[x] = "run" /\ child[x] = "none"
    /\ child' = [child EXCEPT ![x] = "run"]
    /\ UNCHANGED <<monVars, state, beat, active, errors, broken, slips>>
ChildExits(x) ==
    /\ Asleep /\ child[x] = "run" /\ child' = [child EXCEPT ![x] = "dead"]
    /\ UNCHANGED <<monVars, state, beat, active, errors, broken, slips>>
Reclaim(x) ==
    /\ Asleep
    /\ \/ child[x] = "dead" /\ child' = [child EXCEPT ![x] = "none"] /\ UNCHANGED state
       \/ state[x] = "dead" /\ state' = [state EXCEPT ![x] = "gone"] /\ UNCHANGED child
    /\ UNCHANGED <<monVars, beat, active, errors, broken, slips>>

\* Time passes while the shell sleeps, no further than to its next look, and while it
\* looks.  A worker that is well beats in every unit, and reports in the unit what it
\* found; whoever is asked to leave, or waits for a partner that is gone, does so in time.
Tick ==
    /\ (Asleep /\ now < mon.wake) \/ (mon.at = "scan" /\ now = mon.wake)
    /\ \A x \in Workers :
          /\ state[x] \notin {"found", "failing"}
          /\ state[x] = "run" =>
                /\ ~stop /\ beat[x] = Uptime
                /\ Running(Partner[x])
          /\ stop => child[x] = "none" /\ state[x] # "dead"
    /\ now' = now + 1
    /\ UNCHANGED <<stop, state, beat, active, errors, child, mon, verdict, broken, slips>>
-----------------------------------------------------------------------------
(* The monitor. *)
workerVars == <<state, beat, active, errors, child, broken, slips>>

\* reset: the beat of a thread that has not run yet is the start's.
Reset ==
    /\ mon.at = "start"
    /\ stop' = FALSE /\ beat' = [x \in Workers |-> Uptime]
    /\ active' = [x \in Workers |-> FALSE] /\ errors' = [x \in Workers |-> 0]
    /\ mon' = [mon EXCEPT !.at = "spawn", !.left = Workers]
    /\ UNCHANGED <<now, state, child, verdict, broken, slips>>
Spawn(x) ==
    /\ mon.at = "spawn" /\ x \in mon.left
    /\ state' = [state EXCEPT ![x] = "run"] /\ active' = [active EXCEPT ![x] = TRUE]
    /\ mon' = [mon EXCEPT !.left = @ \ {x}]
    /\ UNCHANGED <<now, stop, beat, errors, child, verdict, broken, slips>>
Delay ==
    /\ mon.at \in {"spawn", "scan"} /\ mon.left = {}
    /\ mon.at = "scan" => \A x \in Workers : errors[x] = 0
    /\ mon' = [mon EXCEPT !.at = "sleep", !.wake = now + 1]
    /\ UNCHANGED <<now, stop, verdict, workerVars>>

\* A look: the time is read once; ESC and the end of the time come first.
Look ==
    /\ mon.at = "sleep" /\ now = mon.wake
    /\ mon' = [mon EXCEPT !.at = "scan", !.left = Workers, !.seen = Uptime]
    /\ now < First + Duration
    /\ UNCHANGED <<now, stop, verdict, workerVars>>
Stalled(x) == active[x] /\ (mon.seen - beat[x] + WrapAt) % WrapAt > Grace
Judge(x) ==
    /\ mon.at = "scan" /\ x \in mon.left
    /\ errors' = IF Stalled(x) THEN [errors EXCEPT ![x] = @ + 1] ELSE errors
    /\ mon' = [mon EXCEPT !.left = @ \ {x}]
    /\ UNCHANGED <<now, stop, state, beat, active, child, verdict, broken, slips>>

\* Stopped by ESC, at the end of the time, or because of an error.
Stop ==
    /\ \/ mon.at = "sleep" /\ now = mon.wake
       \/ mon.at = "scan" /\ mon.left = {} /\ \E x \in Workers : errors[x] > 0
    /\ stop' = TRUE
    /\ mon' = [mon EXCEPT !.at = "leaving", !.seen = now, !.wake = now + ExitWait + 1, !.stop = now]
    /\ UNCHANGED <<now, verdict, workerVars>>
\* The threads of a worker are forgotten.
AllGoneButChildren == Listed = {}
AllGone == Listed = {} /\ \A x \in Parents : child[x] # "run"
WaitGone ==
    /\ mon.at = "leaving"
    /\ AllGone \/ now - mon.seen > ExitWait
    /\ mon' = [mon EXCEPT !.at = "recycle", !.seen = now, !.wake = now + Grace]
    /\ UNCHANGED <<now, stop, verdict, workerVars>>
Recycled ==
    /\ mon.at = "recycle" /\ (Defunct = {} \/ now - mon.seen >= Grace)
    /\ mon' = [mon EXCEPT !.at = "check"]
    /\ UNCHANGED <<now, stop, verdict, workerVars>>

\* No errors, as many threads as before, and no memory lost.
Clean == /\ \A x \in Workers : errors[x] = 0
         /\ Listed = {} /\ Defunct = {} /\ \A x \in Parents : child[x] # "run"
Verdict ==
    /\ mon.at = "check" /\ verdict = "none"
    /\ verdict' = IF Clean THEN "pass" ELSE "fail"
    /\ mon' = [mon EXCEPT !.at = "done"]
    /\ UNCHANGED <<now, stop, workerVars>>
-----------------------------------------------------------------------------
SoakInit ==
    /\ now = First /\ stop = FALSE
    /\ state = [x \in Workers |-> "none"] /\ beat = [x \in Workers |-> 0]
    /\ active = [x \in Workers |-> FALSE] /\ errors = [x \in Workers |-> 0]
    /\ child = [x \in Workers |-> "none"]
    /\ mon = [at |-> "start", left |-> {}, seen |-> 0, wake |-> 0, stop |-> 0]
    /\ verdict = "none" /\ broken = [x \in Workers |-> Never] /\ slips = 0
SoakNext ==
    \/ \E x \in Workers :
          \/ Beat(x) \/ FindError(x) \/ CountsError(x) \/ Fail(x) \/ Hang(x) \/ Leave(x)
          \/ CreateChild(x) \/ ChildExits(x) \/ Reclaim(x)
          \/ Spawn(x) \/ Judge(x)
    \/ Tick \/ Reset \/ Delay \/ Look \/ Stop \/ WaitGone \/ Recycled \/ Verdict

\* Who is said to have failed found an error before the stop, or hung: neither the end of
\* a partner, nor a thread that is reclaimed late, nor a clock that wraps is taken for a
\* fault.  And a test that passes missed none: a hang just before the stop is not
\* overlooked, nor an error, but for one of the second of the stop that fail looks at
\* after the stop (soak.rs:263, 1208).
VerdictExact ==
    /\ verdict = "fail" => \E x \in Workers : broken[x] # Never
    /\ verdict = "pass" =>
          \A x \in Workers : broken[x] # Never => state[x] # "hung" /\ broken[x] = mon.stop
\* Only a worker that failed, or that hangs, is said to have.
NoFalseHang ==
    \A x \in Workers : errors[x] > 0 => state[x] \in {"hung", "dead", "gone"} /\ broken[x] # Never
=============================================================================
