------------------------------- MODULE Volume -------------------------------
(***************************************************************************)
(* The file system on the internal flash (src/filesystem.rs) and the flash  *)
(* controller under it (src/efm.rs).  The shell mounts, formats and         *)
(* remounts (src/shell.rs); it and the log thread write through the mounted *)
(* instance; a third thread uses the controller directly, for other sectors *)
(* or to set it up when the clock changes.  A thread owns the flash through *)
(* the token that the instance holds, and the controller through its flag.  *)
(* What the file system does is one block here: erase it, program it.       *)
(***************************************************************************)
EXTENDS Integers, Sequences, FiniteSets

CONSTANTS Shell, Log, Other,  \* the threads
          MaxFaults,          \* bound: operations that take too long, disturbed reads
                              \* and reads that collide with an operation
          MaxCalls            \* bound: calls of each thread

VARIABLES slot, fsLock,       \* FILESYSTEM: it holds an instance; the thread that locked it
          tokens,             \* who holds an InternalFlash: the slot, or a thread meanwhile
          block, formatted,   \* the block: blank, half, data; a snapshot can be mounted
          broken, retired,    \* the block does not keep data; it was declared bad
          reg, saved,         \* the controller; the cache bits an operation saved
          guard,              \* OPERATION_IN_PROGRESS: the thread, or NoOne
          at, todo, res,      \* per thread: where, operations to do, the last result
          calls, faults
volumeVars == <<slot, fsLock, tokens, block, formatted, broken, retired, reg, saved, guard,
                at, todo, res, calls, faults>>
mountVars == <<slot, fsLock, tokens>>
mediumVars == <<block, formatted, broken, retired>>
NoOne == "none"
Thread == {Shell, Log, Other}
FsThread == {Shell, Log}
Quiet == [unlocked |-> FALSE, pemode |-> FALSE, mode |-> "read", cache |-> TRUE,
          run |-> "no", optend |-> FALSE, error |-> "ok"]

Taken == tokens # {}
Goto(t, where) == at' = [at EXCEPT ![t] = where]
Fault == faults < MaxFaults /\ faults' = faults + 1
-----------------------------------------------------------------------------
(* The controller (efm.rs).  An operation of thread t is at "acquire" first   *)
(* and leaves its result in res[t].                                           *)
Kind(t) == Head(todo[t])
Fails(t, why, where) == res' = [res EXCEPT ![t] = why] /\ Goto(t, where)
efmRest == <<mountVars, todo, calls>>

\* Where an operation begins.  The file system programs what reads as erased only.
Enter(op) == IF op = "program" THEN "erased" ELSE "acquire"
CheckErased(t) ==
  /\ at[t] = "erased"
  /\ \/ block = "blank" /\ Goto(t, "acquire") /\ UNCHANGED <<res, faults>>
     \/ block # "blank" /\ Fails(t, "NotErased", "result") /\ UNCHANGED faults
     \/ Fault /\ Fails(t, "NotErased", "result")
  /\ UNCHANGED <<efmRest, mediumVars, reg, saved, guard>>

\* OperationGuard::acquire, for an operation or for a change of the set-up.
Acquire(t) ==
  /\ at[t] = "acquire"
  /\ IF guard = NoOne THEN guard' = t /\ Goto(t, "ready") /\ UNCHANGED res
     ELSE Fails(t, "Busy", "result") /\ UNCHANGED guard
  /\ UNCHANGED <<efmRest, mediumVars, reg, saved, faults>>

\* wait_ready: an operation that was given up may still run.
WaitReady(t) ==
  /\ at[t] = "ready" /\ Kind(t) # "configure"
  /\ \/ reg.run = "no" /\ Goto(t, "prepare") /\ UNCHANGED <<res, faults>>
     \/ reg.run # "no" /\ Fault /\ Fails(t, "Timeout", "release")
  /\ UNCHANGED <<efmRest, mediumVars, reg, saved, guard>>

Prepare(t) ==
  /\ at[t] = "prepare"
  /\ saved' = reg.cache
  /\ reg' = [reg EXCEPT !.unlocked = TRUE, !.pemode = TRUE, !.mode = Kind(t), !.cache = FALSE,
                        !.optend = FALSE, !.error = "ok"]
  /\ Goto(t, "write")
  /\ UNCHANGED <<efmRest, mediumVars, guard, res, faults>>

\* The write that starts it; the hardware ends it some time.
Trigger(t) ==
  /\ at[t] = "write"
  /\ reg' = [reg EXCEPT !.run = Kind(t)]
  /\ Goto(t, "end")
  /\ UNCHANGED <<efmRest, mediumVars, saved, guard, res, faults>>
\* How it ends: in a broken block it may raise an error flag, or give no end flag (no
\* one looks at the error flags then).
End(optend, error) == [optend |-> optend, error |-> error]
Ends == {End(TRUE, "ok")}
        \cup (IF broken /\ reg.run # "outside"
                THEN {End(FALSE, "ok"), End(TRUE, "ProgramEraseError"), End(TRUE, "Mismatch")}
                ELSE {})
        \cup (IF faults < MaxFaults THEN {End(TRUE, "ReadCollision")} ELSE {})
HardwareEnds ==
  /\ reg.run # "no"
  /\ \E end \in Ends :
       /\ reg' = [reg EXCEPT !.run = "no", !.optend = end.optend, !.error = end.error]
       /\ faults' = IF end.error = "ReadCollision" THEN faults + 1 ELSE faults
  /\ block' = CASE reg.run = "erase" -> IF broken THEN "half" ELSE "blank"
                [] reg.run = "program" -> IF broken \/ block # "blank" THEN "half" ELSE "data"
                [] reg.run = "outside" -> block
  /\ formatted' = (formatted /\ reg.run = "outside")
  /\ UNCHANGED <<efmRest, broken, retired, saved, guard, at, res>>

\* wait_end: the end flag must be there, and is cleared.
WaitEnd(t) ==
  /\ at[t] = "end"
  /\ \/ /\ reg.run = "no"
        /\ res' = [res EXCEPT ![t] = IF reg.optend THEN "ok" ELSE "Timeout"]
        /\ reg' = [reg EXCEPT !.optend = FALSE]
        /\ UNCHANGED faults
     \/ reg.run # "no" /\ Fault /\ res' = [res EXCEPT ![t] = "Timeout"] /\ UNCHANGED reg
  /\ Goto(t, "restore")
  /\ UNCHANGED <<efmRest, mediumVars, saved, guard>>

\* The controller as it was; then map_error(status()), unless wait_end failed.
Restore(t) ==
  /\ at[t] = "restore"
  /\ reg' = [reg EXCEPT !.mode = "read", !.cache = saved, !.pemode = FALSE, !.unlocked = FALSE]
  /\ IF res[t] = "ok" THEN Fails(t, reg.error, "release") ELSE Goto(t, "release") /\ UNCHANGED res
  /\ UNCHANGED <<efmRest, mediumVars, saved, guard, faults>>

\* set_wait_cycle, enable_cache: unlock, write, lock.
Configure(t) ==
  /\ at[t] = "ready" /\ Kind(t) = "configure"
  /\ reg' = [reg EXCEPT !.cache = TRUE, !.unlocked = FALSE]
  /\ res' = [res EXCEPT ![t] = "ok"]
  /\ Goto(t, "release")
  /\ UNCHANGED <<efmRest, mediumVars, saved, guard, faults>>

Release(t) ==
  /\ at[t] = "release"
  /\ guard' = NoOne
  /\ Goto(t, IF res[t] = "ok" /\ t \in FsThread THEN "verify" ELSE "result")
  /\ UNCHANGED <<efmRest, mediumVars, reg, saved, res, faults>>

\* chunk_verify: what was written is read back, and again when it differs; a
\* read may be disturbed.
Wanted(t) == IF Kind(t) = "erase" THEN "blank" ELSE "data"
Verify(t) ==
  /\ at[t] = "verify"
  /\ LET good == block = Wanted(t)
     IN \E bad \in 0..2 :
          /\ IF good THEN faults + bad <= MaxFaults /\ faults' = faults + bad ELSE bad = 2 /\ UNCHANGED faults
          /\ res' = [res EXCEPT ![t] = IF bad < 2 THEN "ok" ELSE "VerifyFailed"]
  /\ Goto(t, "result")
  /\ UNCHANGED <<efmRest, mediumVars, reg, saved, guard>>

Efm(t) == \/ CheckErased(t) \/ Acquire(t) \/ WaitReady(t) \/ Prepare(t) \/ Trigger(t) \/ WaitEnd(t)
          \/ Restore(t) \/ Configure(t) \/ Release(t) \/ Verify(t)

\* The caller looks at the result: the next operation, or the end of the call.
\* Some errors mean that the block is bad (permanent_block_failure).
\* Any failure retires the block.
PermanentAny(why) == why # "ok"
Permanent(why) == why \in {"VerifyFailed", "ProgramEraseError", "Mismatch"}
Result(t, where) ==
  /\ at[t] = "result"
  /\ retired' = (retired \/ (t \in FsThread /\ Permanent(res[t])))
  /\ IF res[t] = "ok" /\ Len(todo[t]) > 1
     THEN todo' = [todo EXCEPT ![t] = Tail(@)] /\ Goto(t, Enter(todo[t][2])) /\ UNCHANGED formatted
     ELSE /\ todo' = [todo EXCEPT ![t] = <<>>] /\ Goto(t, where)
          /\ formatted' = (formatted \/ (t \in FsThread /\ res[t] = "ok" /\ Kind(t) = "program"))
  /\ UNCHANGED <<mountVars, block, broken, reg, saved, guard, res, calls, faults>>
-----------------------------------------------------------------------------
(* The file system (filesystem.rs). *)
volumeRest == <<mediumVars, reg, saved, guard, faults>>
Call(t) == calls[t] < MaxCalls /\ calls' = [calls EXCEPT ![t] = @ + 1]
Do(t, ops) == todo' = [todo EXCEPT ![t] = ops]
Rewrite == <<"erase", "program">>

\* mounted(), then a change through the guard; clear() of mkfs is one of them.
Mutate(t) ==
  /\ t \in FsThread /\ at[t] = "idle" /\ fsLock = NoOne /\ Call(t)
  /\ IF slot /\ ~retired
     THEN fsLock' = t /\ Do(t, Rewrite) /\ Goto(t, "acquire")
     ELSE UNCHANGED <<fsLock, todo, at>>
  /\ UNCHANGED <<volumeRest, slot, tokens, res>>
MutateEnds(t) ==
  /\ t \in FsThread /\ at[t] = "mutated"
  /\ fsLock' = NoOne /\ Goto(t, "idle")
  /\ UNCHANGED <<volumeRest, slot, tokens, todo, res, calls>>

\* InternalFlash::take; the instance is made or the token goes back.
Take(who, why) ==
  IF Taken THEN UNCHANGED tokens /\ res' = [res EXCEPT ![Shell] = "DeviceBusy"] /\ Goto(Shell, why.busy)
  ELSE tokens' = tokens \cup {who} /\ UNCHANGED res /\ Goto(Shell, why.go)
Mountable == formatted /\ (block = "data" \/ retired)

\* start(): at the start of the shell.  What cannot be mounted gives its token back;
\* a partition that is erased is formatted, and what was formatted is published.
Start ==
  /\ at[Shell] = "start"
  /\ Take(Shell, [busy |-> "idle", go |-> "started"])
  /\ UNCHANGED <<volumeRest, slot, fsLock, todo, calls>>
Started ==
  /\ at[Shell] = "started"
  /\ IF Mountable THEN Goto(Shell, "publish") /\ UNCHANGED tokens
     ELSE Goto(Shell, "again") /\ tokens' = tokens \ {Shell}
  /\ UNCHANGED <<volumeRest, slot, fsLock, todo, res, calls>>
StartAgain ==
  /\ at[Shell] = "again"
  /\ Take(Shell, [busy |-> "idle", go |-> "inspect"])
  /\ UNCHANGED <<volumeRest, slot, fsLock, todo, calls>>
Inspect ==
  /\ at[Shell] = "inspect"
  /\ IF block = "blank" THEN Do(Shell, Rewrite) /\ Goto(Shell, "acquire") /\ UNCHANGED <<tokens, res>>
     ELSE /\ tokens' = tokens \ {Shell} /\ Goto(Shell, "idle")
          /\ res' = [res EXCEPT ![Shell] = "NotFormatted"] /\ UNCHANGED todo
  /\ UNCHANGED <<volumeRest, slot, fsLock, calls>>
Created ==
  /\ at[Shell] = "created"
  /\ IF res[Shell] = "ok" THEN Goto(Shell, "publish") /\ UNCHANGED tokens
     ELSE Goto(Shell, "idle") /\ tokens' = tokens \ {Shell}
  /\ UNCHANGED <<volumeRest, slot, fsLock, todo, res, calls>>
\* publish(): what the slot held goes.
Publish ==
  /\ at[Shell] = "publish" /\ fsLock = NoOne
  /\ slot' = TRUE /\ tokens' = (tokens \ {Shell, "slot"}) \cup {"slot"}
  /\ Goto(Shell, "idle")
  /\ UNCHANGED <<volumeRest, fsLock, todo, res, calls>>

\* remount(): the old instance goes first, with its token.
Remount ==
  /\ at[Shell] \in {"idle", "remount"} /\ fsLock = NoOne
  /\ IF at[Shell] = "idle" THEN Call(Shell) ELSE UNCHANGED calls
  /\ fsLock' = Shell /\ slot' = FALSE /\ tokens' = tokens \ {"slot"}
  /\ Goto(Shell, "take")
  /\ UNCHANGED <<volumeRest, todo, res>>
RemountTake ==
  /\ at[Shell] = "take"
  /\ Take(Shell, [busy |-> "mutated", go |-> "mount"])
  /\ UNCHANGED <<volumeRest, slot, fsLock, todo, calls>>
RemountMount ==
  /\ at[Shell] = "mount"
  /\ tokens' = IF Mountable THEN (tokens \ {Shell}) \cup {"slot"} ELSE tokens \ {Shell}
  /\ slot' = Mountable
  /\ res' = [res EXCEPT ![Shell] = IF Mountable THEN "ok" ELSE "NotFormatted"]
  /\ Goto(Shell, "mutated")
  /\ UNCHANGED <<volumeRest, fsLock, todo, calls>>

\* mkfs without a mounted instance: format(), drop it, remount().
FormatUnmounted ==
  /\ at[Shell] = "idle" /\ fsLock = NoOne /\ ~slot /\ Call(Shell)
  /\ IF Taken THEN res' = [res EXCEPT ![Shell] = "DeviceBusy"] /\ UNCHANGED <<tokens, todo, at>>
     ELSE tokens' = tokens \cup {Shell} /\ Do(Shell, Rewrite) /\ Goto(Shell, "acquire") /\ UNCHANGED res
  /\ UNCHANGED <<volumeRest, slot, fsLock>>
Formatted ==
  /\ at[Shell] = "formatted"
  /\ tokens' = tokens \ {Shell}
  /\ Goto(Shell, IF res[Shell] = "ok" THEN "remount" ELSE "idle")
  /\ UNCHANGED <<volumeRest, slot, fsLock, todo, res, calls>>

\* Sectors outside the partition, and the set-up.
Direct ==
  /\ at[Other] = "idle" /\ Call(Other)
  /\ \E op \in {"outside", "configure"} : Do(Other, <<op>>)
  /\ Goto(Other, "acquire")
  /\ UNCHANGED <<volumeRest, mountVars, res>>

\* What follows the operations of a call: the shell holds a token of its own when it
\* formats, in start() before any other call, or for mkfs.
After(t) == IF t = Other THEN "idle" ELSE IF t \notin tokens THEN "mutated"
            ELSE IF calls[t] = 0 THEN "created" ELSE "formatted"
ShellStep == \/ Start \/ Started \/ StartAgain \/ Inspect \/ Created \/ Publish \/ Remount \/ RemountTake \/ RemountMount
             \/ FormatUnmounted \/ Formatted
ThreadStep(t) == Efm(t) \/ Result(t, After(t)) \/ Mutate(t) \/ MutateEnds(t)
-----------------------------------------------------------------------------
VolumeInit ==
  /\ slot = FALSE /\ fsLock = NoOne /\ tokens = {}
  /\ block \in {"blank", "half", "data"} /\ formatted = (block = "data")
  /\ broken \in BOOLEAN /\ retired = FALSE
  /\ reg = Quiet /\ saved = TRUE /\ guard = NoOne
  /\ at = [t \in Thread |-> IF t = Shell THEN "start" ELSE "idle"]
  /\ todo = [t \in Thread |-> <<>>] /\ res = [t \in Thread |-> "ok"]
  /\ calls = [t \in Thread |-> 0] /\ faults = 0
VolumeNext == HardwareEnds \/ Direct \/ ShellStep \/ \E t \in Thread : ThreadStep(t)
VolumeSpec == VolumeInit /\ [][VolumeNext]_volumeVars
-----------------------------------------------------------------------------
(* The flash belongs to one instance at a time, a call of the shell gives     *)
(* back the token it took however it ends, and so no call of its own finds     *)
(* the device busy (filesystem.rs: the old instance goes before the new one).  *)
TokenReturned ==
  /\ Cardinality(tokens) <= 1 /\ (slot <=> "slot" \in tokens)
  /\ at[Shell] = "idle" => Shell \notin tokens
  /\ res[Shell] # "DeviceBusy"

(* Whoever writes to the flash finds the controller as this operation needs   *)
(* it, with nothing else under way, and the controller is left as it was       *)
(* found, with the cache on, when nobody is at it.                             *)
ControllerOwned ==
  /\ \A t \in Thread : at[t] = "write" =>
       reg = [Quiet EXCEPT !.unlocked = TRUE, !.pemode = TRUE, !.mode = Kind(t), !.cache = FALSE]
  /\ guard = NoOne => [reg EXCEPT !.run = "no", !.optend = FALSE, !.error = "ok"] = Quiet

(* A block is declared bad only because it does not keep what is written:     *)
(* not because another thread was at the controller, nor because it took too   *)
(* long, nor because of one disturbed read (filesystem.rs:148).                *)
RetiredIsBroken == retired => broken \/ faults > 1

(* A file system that is there is never lost by a start or a mount: only a    *)
(* change that the file system makes, or mkfs, writes to the block.  start()    *)
(* gives its token back between the failed mount and the look at the flash.     *)
Spared == at[Shell] = "inspect" /\ todo'[Shell] # <<>> => block = "blank" /\ ~formatted
=============================================================================
