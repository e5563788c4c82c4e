# Verification of the hc32f460jeua-evb firmware

TLA+ models of the firmware in this repository: the kernel (`src/src/rtos/`), the
snapshot file system (`src/crates/littlefs/`) and what is built on them, from the
flash controller and the log to the console, ZMODEM, the heap, the shell with its
editor, CAN, the clocks and the soak test. They are model-checked with TLC, and
theorems about the scheduler, the IPC objects with their buffers, the mutexes, the
snapshot file system and the UART's receive ring are proved with TLAPS.

Contents: [the system](#the-system), [modules](#modules),
[abstractions](#abstractions), [runs](#runs), [findings](#findings),
[fairness](#fairness), [proofs](#proofs), [not modelled](#not-modelled),
[plan](#plan), [how to run](#how-to-run).

## The system

A Rust firmware for one Cortex-M4 core: a preemptive kernel with 32 priorities,
interrupt handlers that may call it, a copy-on-write file system on the internal
flash, drivers, a shell, and tests that run on the device. Everything shared is
protected by *critical sections* (PRIMASK set, all handlers masked), by *atomics*,
by the kernel's mutexes, or by being used by one context only.

| Component | State | Operations | Hard behaviour | Correct when |
|---|---|---|---|---|
| Scheduler (`sched.rs`, `context.rs`, `mod.rs`) | ready table (one list per priority and a bit each), CURRENT, SWITCH_FLAG, FROM, TO, PENDSVSET, the stack pointer in each TCB | `schedule`, `yield_thread`, `tick_increase`, `request_switch`, PendSV, `start` | `schedule()` runs in threads and in nested handlers, several requests are merged before PendSV; `start` stores four words unprotected | no context is saved in the wrong TCB; the most urgent ready thread runs; equals share the CPU |
| Threads (`thread.rs`, `idle.rs`) | TCB state, remaining slice, thread timer, DEFUNCT, SLEEP_LIST | create, exit, force_delete, delay, suspend, resume, timer callback, reclaim | a call changes states in one critical section and schedules in another; idle frees memory outside | no freed TCB is used; every dead thread is freed |
| Blocking (`ipc.rs`, `thread.rs`) | wait queues, `error` of the TCB | `suspend_current`, `suspend_prio`, `wake_head`, `blocked_wait` | wake-up against timeout against suspend | a thread waits in one place; each wake-up is used once |
| Semaphore | value, waiters | `take`, `release` | the token goes to a waiter that is timing out | tokens are conserved |
| Event | bits, waiters | `send`, `recv` with AND/OR/CLEAR | one `send` satisfies several waiters, one of which clears | nobody waits for what is there; a bit that is cleared is consumed once |
| Mailbox, message queue | ring, or two chains of blocks; receivers, senders | `send`, `urgent`, `recv` | a woken thread must look again | each message is received once, in order; no message and receiver are left together |
| Mutex | owner, waiters by priority, `taken_list`, `pending_mutex`, current priorities | `lock`, guard's `Drop`, timeouts, deletion of holders | inheritance along chains and cycles | exclusive; released; priorities exactly as high as the waiters demand |
| Kernel timers (`timer.rs`) | sorted list of wrapping deadlines | start, stop, `check` | callbacks change the list between two steps of the scan; wrap-around | expire after exactly the ticks asked for, in order |
| Intrusive list (`klist.rs`) | `next`/`prev` pointers | insert, remove | removing from the middle, the ends, or no list | stays a list, both ways |
| Critical sections (`critical_section.rs`, `arch/`) | PRIMASK | enter, exit | nesting; priorities of handlers | what is inside is one step |
| Snapshot file system (`crates/littlefs`) | blocks with header, payload and commit word; generation; wear table; in RAM the active header and its table | mount, format, mutate, level | power loss and errors in any erase or program call, bad blocks, generations that wrap | mount finds the last committed tree or the one before, never a mixture; no reply misreports which; blocks wear evenly |
| Its namespace (`fs.rs`) | records with full paths | write, remove, mkdir, rmdir, rename, clear, max_write_size | descendants found by prefixes; room computed in two places | the records are a tree, and one that mount accepts |
| File system on flash (`filesystem.rs`, `efm.rs`) | the mounted instance behind its mutex, the partition's token, the controller's flag and cache bits | mount, write, remount, mkfs; erase and program | two threads at the controller; an error while the instance is taken out; an outcome that is unknown | the token comes back; nothing is written after an unknown outcome; only broken blocks are given up |
| Logs (`log.rs`, `logring.rs`, `logfile*.rs`) | ring of entries, RAM image, segment, file names | begin, append, commit, drain, flush, rotate | a writer is preempted in its entry while another thread drains; a write fails after the ring was emptied | every line is stored or counted as lost; files stay in their budget, in order over restarts |
| UART receive path (`uart.rs`, `notify.rs`, `uart_rtos.rs`) | lock-free ring, notification, a byte that was put back | handler pushes, thread pops and blocks, timed reads | the handler comes between any two accesses of the reader; a notification merges with an earlier one | bytes come out in order; one is missing only where the counter says so; nobody sleeps on a full ring |
| DMA and console (`dma.rs`, `console.rs`, `uart.rs`) | print lock, session flag, TX busy flag, channel, TE | write by DMA or by the processor, refuse, give up | a transmission times out while the hardware still has bytes | each byte leaves once; no lines are mixed; no buffer is freed under the DMA |
| ZMODEM (`zmodem.rs`, `shell/zmodem.rs`) | position, frame, retries of each end | send and receive batches | lost and damaged frames and cancels, on both directions | only complete files are stored, and success means stored; the sender ends, and the receiver unless it never hears of it |
| Heap (`heap*.rs`) | free lists, headers in memory | init, alloc, dealloc | splitting, merging, alignment inside a block | blocks tile the heap, and payloads do not overlap |
| Shell (`shell.rs`, `shell/path.rs`) | line, history, login, current directory | read a line, browse, execute | escape sequences with pauses; a directory that is renamed under the shell | the line is what was typed; the current directory exists |
| Editor (`shell/editor.rs`) | text, cursor, view, modified, recovery | load, keys, draw, save, the size of the terminal | typed bytes between those of the terminal's answer; a save that fails half-way | a clean text is what the flash holds; no key is lost or torn |
| CAN (`can.rs`, `can_timing.rs`, `shell/can.rs`, `board.rs`) | mode, transmit buffers, FIFO, filters | init, send, receive, tests that borrow it | a test on a controller that is in use | a test fails exactly if the controller does in what the test compares, and the mode it found is back |
| Clocks (`clk.rs`, `sram.rs`, `config.rs`) | source, oscillators, wait states, gates, drive | init, fallbacks, freeze, the crystal for CAN | an oscillator that does not start, half-way through a switch | wait states cover the clock at every moment |
| Soak test (`soak.rs`, `soak_report*.rs`) | workers' beats, stop flag, verdict, reports | start, monitor, stop, report, budget | a worker that hangs against one that is only late; uptime that wraps | the verdict is what happened; the newest reports are kept |
| Hooks, pins, peripherals, start-up, faults, self-tests | local | — | — | see [not modelled](#not-modelled) |

How they interact. Threads call `sched`, `thread`, `ipc` and `timer`; handlers
call the non-blocking half of the same interfaces. The SysTick handler runs
`sched::tick_increase` and then `timer::check`, which calls
`thread_timer_cb`, which touches the mutexes' priorities, the wait queues and
the ready table. All of them end in `schedule()`, which leaves a request to
PendSV. The UART's handler wakes a reader through a semaphore. Lines that are
printed go through the print lock to the console and into the log ring, from which
the log thread, or the shell before a reboot, moves them into files. The log thread,
the shell's commands, the editor, ZMODEM and the soak test's reports use the file
system through one mounted instance and its mutex; changes of the clock and tools
use the flash controller directly. The self-test and the soak test borrow CAN and
the crystal from whoever has them.

## Modules

| Module | Models | Extends |
|---|---|---|
| `Sched` | the scheduler, threads and idle, with nested handlers and the start of the system | — |
| `QueueLemmas` | facts about `Append`, `RemoveFirst`, `Head` of sequences, and about remainders, proved | — |
| `Sched_proofs` | types, the ready table, the switch, preemption and reclaiming, proved; the assumption `UniqueFirst` | `Sched`, `QueueLemmas` |
| `Kernel` | what an object sees of the kernel: a record `k`, and what each kernel function does to it in one critical section | — |
| `Blocking` | the actions around an object: suspend, resume, tick handler, PendSV, the second half of a blocked call | `Kernel` |
| `Semaphore`, `Event`, `Channel` | the objects | `Blocking` |
| `Buffers` | the buffers of the mailbox (ring) and of the message queue (chains), operated in lock-step | — |
| `Deque` | the abstract queue that `Channel` implements | — |
| `Ipc` | composes the three objects | the objects |
| `Ipc_proofs` | the two buffers and the three objects, proved | `Ipc`, `Buffers`, `QueueLemmas` |
| `Mutex` | the mutex | `Kernel` |
| `Mutex_proofs` | guards, owners and queues, proved | `Mutex`, `QueueLemmas` |
| `MutexPriority_proofs` | priority inheritance and preemption, proved | `Mutex_proofs` |
| `MutexIsr` | composes `Mutex` with handlers that try-lock | `Mutex` |
| `KernelTimer` | the links of an intrusive list, and the timers on it | — |
| `TimerPromise` | the abstract specification that `KernelTimer` implements | — |
| `KernelTimer_proofs` | the list and its links, and the refinement, proved | `KernelTimer`, `QueueLemmas` |
| `Snapshot` | the snapshot file system: where the next snapshot goes, the table of erase counters, the medium, mount, format and mutate, step by step | — |
| `SnapshotPromise` | the abstract specification that `Snapshot` implements: a tree that changes in one step | — |
| `Snapshot_proofs` | the medium stays intact, wears evenly, and the refinement, proved | `Snapshot` |
| `Records` | the namespace on the records of a snapshot | — |
| `FileTree` | the abstract specification that `Records` implements | — |
| `Volume` | the mounted file system, its token, and the flash controller between three threads | — |
| `LogRing` | the operations of the log's ring | — |
| `LogFile` | writers of lines, flushes, segments, files and restarts | `LogRing` |
| `UartRx` | handler, ring, notification and reader of the console's UART | — |
| `ConsoleTx` | writers, the print lock, the transmitter and its DMA channel | — |
| `Uart_proofs` | order and integrity of the ring, the bytes on the wire and the lent buffers, proved | `UartRx`, `ConsoleTx`, `QueueLemmas` |
| `Zmodem` | sender, receiver and the line between them | — |
| `Heap` | the allocator, on headers in memory | — |
| `ShellDir` | the shell's current directory, on a file system that may fail; instantiates `FileTree` | — |
| `ShellLine` | login, the line editor and the history | — |
| `KeyInput` | the search for the terminal's size among what is typed, and the decoding of keys | — |
| `Editor` | the screen editor, its file, and the volume that fails | — |
| `Clock` | the clock tree and the users of the crystal | — |
| `Can` | the driver, the commands and the tests on one controller | — |
| `CanTiming` | the search of the bit timing | — |
| `Soak` | the soak test's workers and their monitor | — |
| `SoakReport` | names and budget of its reports | — |
| `MCSched`, `MCIpc`, `MCKernel`, `MCStorage`, `MCDevices` | instances for TLC; `MutexIsr` has a configuration of its own | the above |

### Sched

Each variable is one variable of the code: `st` and `slice` are the TCB fields
`state` and `remaining_tick`; `ready` and `group` are READY_TABLE and
READY_GROUP; `sleeping` is SLEEP_LIST; `defunct` is DEFUNCT and `reaping` the
local variable of the idle loop; `current`, `switchFlag`, `fromSp`, `toSp` and
`pendsv` are CURRENT, SWITCH_FLAG, FROM_SP_ADDR, TO_SP_ADDR and PENDSVSET.
`running` is the context whose registers are in the CPU in thread mode and
`saved[t]` the context whose registers are where the TCB of `t` points to: a
switch that saves in the wrong place shows as `saved[t] # t`. `owed` and the
field `owes` of a handler's frame are the program counters "in a call, after
its critical section and before its `schedule()`"; `isrs` is the stack of active
handlers; `boot` is the position in `start()`.

One action is one critical section, or one unprotected step that others can see:
the four stores of `switch_to_first`, the idle loop's free, the test against
CURRENT in `force_delete` and in `suspend` when a handler calls them, the two halves of
`timer::check`. Handlers suspend the threads in `Pausable`, and any thread but idle may be in it; between
`IrqSuspendCheck` and `IrqSuspend` another handler may make the thread CURRENT. Handlers suspend
and delete threads from the moment on at which `start()` has set CURRENT. Handlers nest (`IrqEnter`) at any point between two actions, up
to `MaxNest`. SysTick has the lowest priority but PendSV's, so it interrupts
thread mode only. PendSV runs when no handler is active and one is pended.

### Kernel, Blocking and the objects

`Kernel` states, for each function of `thread.rs`, `sched.rs` and `ipc.rs` that
an object calls, what it does to the record `k`. It replaces the ready table by
what `Sched` establishes about it: `schedule()` makes one of the most urgent
ready threads CURRENT, PendSV makes CURRENT the executing thread. `Blocking`
adds the program counter `pc` of a call that blocks: critical section (`block`),
`schedule()`, and what follows when the thread runs again (`wait`). In the tick
handler, taking a timer off the list (`TimerPop`) and its callback
(`TimerCallback`) are two steps with handlers in between.

`Semaphore`, `Event` and `Channel` translate the objects' critical sections.
`Event!send` walks its waiters one after the other as the code does, a recursive
function of the number of waiters passed. `Channel`
has its buffer as a parameter, because `Mailbox` and `MessageQueue` run the same
protocol; `Buffers` gives it a pair of a ring with two indices and a count, and a
message queue with its free chain and its used chain, so that one run checks
both and that they agree. `IsBuffer` of `Buffers` states what the protocol needs of a buffer.

`Mutex` adds `owner`, `taken` and `pending` to the record, and `guards`, the
live `MutexGuard`s of each thread, which the code does not store: they say who
*believes* to hold the mutex. The loops that walk the dependency graph
(`inheritance_cycle_entry`, `priority_inherit`, `recompute_priority_chain`) are
folds over a bounded number of rounds with the loops' own exits. `MutexIsr` adds
a guard in a handler.

### KernelTimer

The list has the pointers `next`, `prev` and `linked`; the insertions and the
removal change them one by one, and walks follow `next`. Deadlines are computed
modulo `2 * HalfRange` and compared by the sign of the difference, as the code does
with `u32` and `i32`. `queue` is a history variable, the order of arming, that
the refinement to `TimerPromise` needs for ties.

### Snapshot

`dev` is the medium, one record per block: what decoding finds at its start
(`head`, the 60 bytes before the commit word), the commit word, and the block's
part of a payload (`body`). Each of the three is blank, torn, or what was
programmed. `fs` is the `FileSystem` in RAM (`active`, `wear`,
`recovery_required`), or None; `op` is the position in `format` or `mutate` and
`write_candidate`: the attempt, the candidate header, the step and the block. It
also holds the call's local `wear`, which is not that of `fs`. `dead` are
the blocks whose erase and program calls fail.

One action is one call of the device (`EraseBlock`, `ProgramPrefix`,
`ProgramPayload`, `ProgramCommit`), reading back (`Verify`, `Confirm`), or what
may happen in the place of one: the power is lost, the device reports a dead
block, or it reports something else. For each of these the call had no effect,
was cut short, or was completed (`Outcomes`), as the contract of `BlockDevice`
allows; a torn commit word never reads as the commit word unless it is complete.
An error while data are copied from the old snapshot is a `DeviceError`, one
while its checksum is computed a `PlanError`, which leaves the mount usable.

The functions of the wear table come first. A run is the *set* of its
blocks, the three criteria of `choose_start_block` are a lexicographic order.

`SnapshotPromise` has the tree that a mount would find, the tree that is shown,
whether the file system is locked, and the call under way. `Publish` is the only
step that changes the tree; success is reported after it, `NoSpace` never. The
mapping takes `tree` from `Scan(dev)`, which is the code's scan of the medium.

### Records and FileTree

A path is a sequence of characters, since `is_descendant` and `parent_name` look
at characters; a change is what `calculate_change` plans and `emit_change`
writes, one after the other, from the same `action_for`. The derived variable
`tree` of `MCStorage` is the function from sequences of *names* that the records
stand for, which `FileTree` changes without looking at characters. A call is two steps in both:
`Ask` fixes what is asked for (`request`, `call`), and the answer must be the one that the tree and the room
(`Holds`) determine for that call, with the change that belongs to it and no other; so a wrong refusal, an
answer without its change, or the effect of another call is a violation. That the
change happens in one step is what `Snapshot` shows.

### Volume

`slot` is FILESYSTEM and `tokens` says who holds an `InternalFlash`: the instance in
the slot, or a thread that took it out to remount or format. `at` and `todo` are
the position of each thread in a call and the operations it still has to do on the
controller. `reg` are the controller's mode, cache, end and error bits and `saved` what an
operation will restore; `guard` is OPERATION_IN_PROGRESS. An operation ends with or without
its end flag and with one error flag or none (`Ends`): a program or erase error and a
mismatch in a broken block only, a read collision in any. `wait_end` looks at the end flag, and once the
controller is restored the error flag becomes the result. A protection violation or a wrong size, which the
addresses of the partition rule out, are not there. A disturbed read, a read collision, an
operation that takes too long and a block that does not keep its data are the
faults; the classification of a failure decides between retiring a block, locking
the volume and a plain error. `start()` mounts; or takes the token again,
inspects the partition, and formats and publishes an erased one. What a snapshot does on the flash is `Snapshot`; here it is
"erase, then see that it is erased, then program" of one block, so that what matters is who does it, when, and with
which registers.

### LogRing and LogFile

The code packs entries end to end and moves them to the front of its array, so that
the ring is the sequence of its entries; `writing` marks the last one as open. A line
is begun, appended to piece by piece and committed under the print lock; a flush
drains in critical sections of its own, so that lines come in between, and decides
after each whether the image is full. `image`, `seg` and `boot` are the fields of the
log file's state, `files` the names and contents on the medium. A crash forgets all
but `files`, and the first flush after the next start scans the names. The scan may break off, since
`collect_log_files` ignores the error of `read_dir` (`Scan`): it counts what it saw, and `scanned` notes
when that missed the newest number.

### UartRx and ConsoleTx

In `UartRx` the handler is one step and the reader one step per access to the ring
(test for empty, read, store the tail, block, take the token). `sr` and `rdr` are the
registers with their overrun. The timed read counts its own ticks, and the
session's end drains and puts back.

In `ConsoleTx` a writer walks through its pieces: take the lock, claim the busy flag,
arm the channel or refuse, wait for TC, or give up and switch the channel off;
the processor's path waits for TXE. The hardware moves a byte from memory to `tdr`,
to `shift`, and to `wire`, a step each; switching the transmitter off loses what
is in it. A slip is time that runs out early, or a register that does not read back. `LinesWhole` says
what the print lock is for: no byte of a printer's line is on the way among those of another's. `mixed` is
set when a session, which does not take the lock, and a line write at once; only `NothingCutOff` excepts that.

### Zmodem

`s` and `r` are the two ends with the position they are at and what they count;
`toR` and `toS` the headers and blocks on their way. An end reads, or times out where
it may: when nothing is on its way, or, as a fault, although something is. The line
loses and damages headers, blocks and cancels, and keeps the order. `r.deaf` notes that the sender's cancel was lost. The file's commit and
its refusal when it does not fit are the receiver's. Coding, escaping and checksums
are one step: an item is whole or it is damaged.

### Heap

Memory is a function from the places where a block may start to the header that
stands there, so that a wrong address finds Junk instead of a header. Size classes,
the choice of a list, splitting, alignment with the owner's prefix, and merging
with both neighbours are computed as the code does.

### ShellDir, ShellLine, KeyInput, Editor

`ShellDir` has the tree of `FileTree` and the shell's `cwd`; each command that changes
either is an action, as are a write that fails with an unknown outcome and the new
mount after it. `ShellLine` reads bytes, with the pause that ends an escape
sequence, into a buffer that may overflow; beside the code's state stand the line
without a limit, what the terminal shows, and all lines ever remembered.
`KeyInput` marks each byte with the key it belongs to, which the code cannot see, so
that a torn key is visible. `Editor` keeps text, cursor, view and the three
outcomes of a save.

### Clock, Can, CanTiming

`Clock` runs a start one write at a time: `todo` is the list of writes that are left
and `rescue` what follows a failure; `reg` has the source, the oscillators, flash,
SRAM and pin wait states, gates, drive and the write protection of FPRC. The users
of the crystal are calls of one step. `Can` has the controller (FIFO, transmit buffers,
filters, modes) as the code relies on it, and the caller's position in a
command or a test. A frame has the part that both tests compare (`body`) and the part that only the
self-test compares (`rest`): length, RTR, and `data[4]`, `[6]`, `[7]`. `wrong` is the set of what the controller did
wrong during a test. `CanTiming` is the search, one prescaler a step, with the arithmetic
of the code in its fixed width.

### Soak and SoakReport

`Soak` has workers that beat and stop, one that waits for another's messages, one that
creates threads; the monitor reads uptime and beats each second and decides who
hangs. A worker that finds an error (`FindError`) comes to `fail` later and counts it there unless the test was
stopped meanwhile (`CountsError`); `broken` notes when it was found. `SoakReport` has names by the clock or by numbers, the budget that runs before
a write, and restarts at which the clock may be unset.

## Abstractions

- Registers, stack frames, FPU state and the MPU guard are one token per
  context. Wrong code in the assembly of PendSV is out of sight.
- Allocation of a thread's stack succeeds; a TCB is never reused: a new thread
  is a new member of `Thread`. Use after free shows as use of a freed member.
- In `Kernel` waits have no clock: a timed wait may time out at any time after
  it began, an untimed one never. Behaviours with real tick counts are some of
  these. That a call may last longer than its timeout is not visible.
- In `Ipc` no thread is deleted; `Mutex` deletes. Objects are not dropped. The
  pool of a message queue is there from the start.
- A behaviour of `Ipc` uses one of its objects: they share nothing but the
  kernel, and a thread blocks in one call at a time.
- Calls that fail at once and change nothing (a try that finds nothing, an owner
  that locks again, an invalid argument) are not actions.
- Bounds of the models that the code does not have: `MaxNest` nested handlers,
  `MaxHeld` tokens or guards per holder, `MaxIssued` tokens altogether.
  `HalfRange` is 2^31 in the code, `Levels` 32, and both are parameters.
- Messages, bits and mutexes are model values.
- Checksums tell all payloads and headers apart, and torn ones from complete
  ones; data that a user stores never decodes as a header of its own block. Reading
  a block whole is one step.
- The generations of `Snapshot` are counted modulo `GenMod`, 2^32 in the code. Remains of
  an old snapshot that is half that many generations old are out of its bounds, and out of the
  flash's life.
- A dead block may be readable. In `Snapshot` an error of the device never marks a block
  that is alive; that the controller's driver keeps to this is `RetiredIsBroken` of `Volume`.
- The components in `MCKernel`, `MCStorage` and `MCDevices` are taken one at a time, with the
  others standing still: each is checked against what the ones below promise
  (a mutex excludes, a file operation is done or not done, a semaphore keeps its
  tokens), and they share no other state.
- `MaxFaults`, `MaxCalls`, `MaxLines`, `MaxBoots`, `MaxBytes`, `MaxErrors` (of `UartRx`),
  `MaxResends`, `MaxKeys`, `MaxOver`, `MaxNumber`, `MaxBus`, `MaxTests`, `Rounds`, `MaxReports` and
  `MaxStarts` bound how much happens in a behaviour; they stand in guards only.

## Runs

Two threads are what a race needs; a third makes a peer, a chain, or somebody
who is overtaken. Idle is always there.

| Run | Instance | What it asks |
|---|---|---|
| `sched_boot` | threads ta above tb and tc, which are equal; slices 1, 2, 1; two nested handlers, which also suspend ta and tb; all threads made by `main` | all calls of the scheduler in all orders, from `main` on: `TypeOK`, `ContextIntegrity`, `ReadyTableExact`, `HighestRuns`, `NoUseAfterFree`, `DispatchHighest` |
| `sched_live` | two equal threads, one made by `main`, one by a running thread; one handler | under fairness: `RoundRobin`, `DeadReclaimed` |
| `sched_tie` | two equal threads made by `main` | *violated*: `FromIsRunning` |
| `ipc_objects` | ta above tb, handlers, and a semaphore (1 of 2 tokens, 3 issued), an event of two bits with AND, OR and CLEAR, a channel of two places and two messages; all waits timed; suspend from threads | `TokensConserved`, `NoMissedEvent`, `NoneStranded`, `QueueSound`, `ConsumedOnce`, `IsDeque` (refinement) |
| `ipc_suspend` | the semaphore, suspend from handlers too | *violated*: `SuspendSticks` |
| `mutex_timer` | ta above tb above tc, two mutexes, two guards each; tc is deleted and suspended, ta and tb sleep; or three kernel timers | `GuardExclusive`, `PriorityExact`, `QueuesSorted`, `Preemptive`; `TimerSound`, `IsTimerPromise` (refinement) |
| `mutex_isr` | ta above tb, one mutex that handlers try-lock | *violated*: `IsrOwnedHasGuard` |
| `storage` | one of six components, see below | `ActiveIntact`, `WearEven`, `IsSnapshotPromise`; `MaxWriteExact`, `IsFileTree`; `LossAccounted`, `BudgetKept`, `StoredKept`; `VolumeSound`; `HeapSound`; `EditorSound` |
| `snapshot_marks` | the snapshot of `storage` | *violated*: `FailedCommitKeepsMark` |
| `heap_used` | the heap of `storage` | *violated*: `UsedExact` |
| `devices` | one of eleven components, see below | `RxInOrder`, `TxExact`, `CommittedExact`, `TypedExact`, `CwdIsDirectory`, `ClockSound`, `CanTruth`, `SoakTruth`; under fairness `Progress` |
| `console_spin` | the transmitter of `devices`, shell above LED above log thread (`Ranked`) | *violated*, under fairness: `WritesEnd` |

In `mutex_timer`, `storage` and `devices` the variable `part` selects one component for a whole
behaviour (`Part` says which ones may be), and the variables of the others keep a
value of no meaning. TLC so checks each component by itself, as it would in runs of their own.
`mutex_timer` has about 0.4 million distinct states, `storage` 2.9 million, `devices` 0.65
million. The three timers are alike, so `mutex_timer` takes states that differ only by a
permutation of them for one.

Some properties of these runs are conjunctions of what the modules name: `QueueSound` has
the types and bounds of the three objects and `Sound(buf)`, which is given as `BothAgree`, that
the two buffers agree and no block is lost; `GuardExclusive` includes that who owns a
mutex has its guard; `QueuesSorted` that lists and owners agree; `ActiveIntact` that the
newest snapshot is clear (`NewestIsClear`); `MaxWriteExact` that no call leaves records
which decoding refuses (`NeverCorrupt`); `StoredKept` is `Ordered` of the log and `Spared` of the
volume; the others are listed beside their definition in `MCStorage` and `MCDevices`.

Why the bounds are enough to be interesting:

- `sched_boot`: two levels of nesting are needed for a `schedule()` to interrupt
  a handler that owes one, and a rotation needs two threads of one level; a
  third level above lets requests change their target twice before PendSV runs.
- `sched_live` creates its second thread while the first one runs, so that the
  slices of the two are not in step.
- `ipc_objects`: capacity 2 makes full, empty and in between differ, and lets
  both indices wrap; three tokens with a maximum of two make `release` meet its
  limit. Every wait is timed, because a wait without timeout does a subset of
  what a timed one does. `CHECK_DEADLOCK FALSE`: when all tokens are issued and
  held, or both threads are suspended, the model's users may have nothing to do.
- `mutex_timer`: two mutexes and three threads give chains of length two, a
  cycle of two threads and one more that leads into it.
- the timers: 3 bits make the longest delay 3 and let the counter wrap after 8
  ticks; a delay of 4 is beyond the window and is clamped, 0 is made 1.
- the snapshots: the first generation on a used medium is 15 of 16 and changes go on to
  generation 1, so that the comparison crosses the wrap. Four blocks are the
  least where a tree of two leaves a choice of one run and one of one block a choice
  of three; a tree of three must be refused. The counters are halved at 2 with a
  mask of 3, so that halving, with and without a bad mark, is always near. Two
  attempts and two dead blocks reach "retried elsewhere" and "used up". The two
  tables on used media are ones that longer histories lead to.
- the namespace: six paths of up to three characters, data of 0 and 7 bytes, four entries. `a`, `ab` and `a/b` make one path a prefix of another without
  being its directory; `a/` is invalid; renaming `a` to `ab` makes `a/b` too long. 100
  bytes hold four empty entries and fewer with data, so that both limits bite.
- the log: a ring of 8 bytes and lines of 2 and of 2 + 6 bytes, so that a line fits, evicts
  others, or must be cut; files of 11 bytes with a marker of 3; two files; three lines, two
  restarts and a fault, with and without a file of an older firmware.
- the volume: the shell, the log thread and a third, two calls each, and a fault; the block
  broken or not, blank, half written or formatted.
- the heap: 128 bytes that begin off an aligned address; three requests, one with an
  alignment above that of blocks. It holds few blocks, but splitting off, at the
  front and at the back, and merging to each side and to both happen.
- the editor: a text with a tab, a file that is not text and one that is too long;
  a screen of one row and two columns, so that both scroll; four keys.
- the receiver: a ring of three usable places and five bytes, so that it overflows and
  its indices wrap; a byte with an error; a timed read of two ticks.
- the transmitter: two printers and a session; pieces at, above and below the size from which DMA is
  used; one slip.
- ZMODEM: batches with an empty file and one that is too long for the receiver; two errors in
  a row are allowed; three faults, so that the limit is met, and the cancel after it is lost, too.
- the search for the terminal's size: up to two keys of seven, and three answers, with the
  deadline at every byte.
- the line: two characters in a buffer of two; a history of two lines and three commands.
- the directory: paths of five bytes at most, two failed writes or mounts.
- the clocks: each source, PLL from both inputs, one ratio with a remainder; any set of oscillators
  that do not start, and a wait state that is not taken over.
- CAN: a FIFO of three, two frames from the bus, a test of two rounds, one fault.
- the bit timing: rates that are met exactly, nearly, and not at all.
- the soak test: three workers, a duration of four seconds, a wrap of the clock after eight, one
  error or hang; the reports: a budget of two, five reports, three starts, one fault.

`WearEven` is about blocks none of which has worn out: any mixture of sizes,
crashes and formats then keeps the counters within one. Two things follow. The
test of `level()` for a distance above one never succeeds before a block died; and
once one has, the runs it splits off may fall behind without bound, because a
tree that does not fit between two bad blocks cannot be put there, levelled or not.

Properties that differ from what the name may suggest: `HighestRuns` is about
*settled* states, in which no handler is active, no switch is pending and the
executing thread is not before a `schedule()`; like `DispatchHighest` it lets a thread go on that a handler
suspended as CURRENT (`Runs`); it is checked with all threads
made before `start()`, since `thread_create` of a more urgent thread does not
call `schedule()`. `SuspendSticks` is about threads that are suspended and wait
for nothing. `SoakTruth` is about a shell that no worker outranks (`Above` of `Soak` is empty),
as the default configuration has it. The transmitter in `devices` has writers of equal
priority, whose steps interleave in every way: what is safe there is safe under any
priorities. That writes end depends on them, see `console_spin`.

## Findings

1. `sched_tie` — `start()` sets CURRENT in a critical section, and then stores
   TO, FROM, SWITCH_FLAG and PENDSVSET outside of it. With two boot threads of
   the most urgent priority, a tick (or a handler) in between may rotate the
   list; `schedule()` then calls `request_switch` with a FROM that never ran, and
   PendSV saves the context of `main` in its TCB. `context.rs:130` says that FROM
   is the thread that really runs. It needs a slice that runs out, or a delete,
   within these stores. The proofs show that nothing of the kind can happen when
   the most urgent boot thread is unique.
2. `ipc_suspend` — `timer::check` takes an expired timer off the list in one
   critical section, and the callback runs in the next. A more urgent handler in
   between that ends the wait and then suspends the thread is undone: the
   callback finds `TS_SUSPEND` and takes it for the wait that timed out.
   `thread.rs:184` says that only `resume` makes a suspended thread ready. From
   threads this cannot happen, because no thread runs within the tick handler.
3. `mutex_isr` — a handler may try-lock (`ipc.rs:15`), and then CURRENT becomes
   the owner. If CURRENT changes before the guard is dropped, `unlock` ignores
   the drop and the mutex is owned for ever. `ipc.rs:355` says that the release
   always happens.
4. `snapshot_marks` — `mutate` keeps the bad marks it makes in a local copy of
   the table, which it stores on success only. `format.rs:62` says that a failed
   commit still records the flag in RAM. The old snapshot is safe, but when
   placement prefers four dead blocks (`MAX_COMMIT_ATTEMPTS`), each call tries
   the same four again and returns `NoSpace`, although `DESIGN.md:176` promises
   this only "when no placement run remains".
5. `heap_used` — `dealloc` adds the size of the *merged* block to the free bytes
   (`heap_tlsf.rs:299`), although the neighbours were counted when they were freed. From
   the first merge on `used()` is too small. Its doc, three lines below, says that it is the number of
   occupied bytes; the unit tests look at it only when everything is free, and a saturating
   subtraction makes it 0 then.
6. `console_spin` — to start its DMA a writer switches the transmitter off and on again
   (`dma.rs:992`, `:994`). A ZMODEM session writes outside the print lock; if it preempts the writer in between, it finds
   the channel taken (`dma.rs:981`) and polls TXE without a limit (`uart.rs:430`), which stays 0 while the
   transmitter is off, and the writer does not run again. The shell sleeps after each line it prints
   (`console.rs:195`), so that another thread may be there when `sz` or `rz` begins its session. With the
   default priorities (shell 1, LED 2, log 3) it needs a line of the LED's thread or of the log
   thread in these milliseconds. The doc says that failing paths restore TE before
   they fall back (`dma.rs:958`), and that no thread waits without bound for one of lower priority
   (`console.rs:26`).

### Other divergences

Met while modelling, each at the end of the module that shows it or in a comment there; none has a
run of its own, because what the doc says of it is less definite than in the six above.

- `Zmodem!MismatchResumes`: a receiver that refuses the position of a ZDATA skips the data; when they end with
  ZCRCW, the CAN character before it is taken for the beginning of an abort
  (`zmodem.rs:616`), and the session ends instead of going on. Also in `zmodem.rs`: `try_init` returns at the first
  timeout, although ZRINIT should be repeated; ZFILE is not sent again; a
  damaged header ends the session; `INIT_ATTEMPTS` counts what is skipped.
- `LogFile!SegmentWithinMax`: an entry that is too long for the rest of a segment is forced into the
  same image (`logfile.rs:210`), so that a segment may exceed `CFG_LOG_FILE_MAX`. While writes fail the
  image grows; when the last write fails and the ring is empty, `flush_once`
  returns early. Old `logN.log` files are not removed.
- `ConsoleTx!SessionQuiet`: a line that began before a ZMODEM session goes on within it
  (`console.rs:66`). `monotonic_ms` wraps at 2^32 cycles, so that `dma_tx_arm` may give
  up at once; a handler that prints between the two writes of TE would wait for ever.
- `Clock!DriveCoversClock`: the regulator's drive for 200 MHz is set while FPRC is locked
  (`clk.rs:672`), so that the write has no effect.
- `efm.rs`: an error flag without OPTEND becomes a timeout, and the block is not given up.
- `Thread::suspend` tests against CURRENT outside its critical section (`thread.rs:187`). A handler that is
  interrupted behind the test by one that makes the thread CURRENT suspends CURRENT, which calls no `schedule()`:
  the thread goes on executing while it is in no list, against `thread.rs:182` (CURRENT cannot be suspended) and `:184`, until
  the next `schedule()` takes the CPU away. `Runs` in `Sched` is the exception that `HighestRuns` and `DispatchHighest`
  make for it; without it TLC finds both violated. It needs a handler that suspends and one
  above it that resumes the same thread.
- The scan of the log's directory ignores errors (`logfile.rs:77`). When it misses the newest start, that number
  is given again and the files of that start are overwritten one by one; `Ordered` excepts it (`scanned = "blind"`).
- The soak test's CAN worker does not compare a frame's length, RTR, `data[4]`, `[6]` and `[7]`, though it sends constants there and its
  doc says that each frame is checked (`soak.rs:1089`): `SeenWrong` in `Can` says what a verdict can know.
- An error that a soak worker found before the stop but brings to `fail` after it is not counted (`soak.rs:263`, `:1208`),
  and the test passes; the doc excuses only timeouts that the stop itself causes (`soak.rs:261`). `VerdictExact`
  shows that this is confined to the second of the stop.
- A ZMODEM receiver that is within a file when the sender gives up, and whose sender's cancel is lost, asks for
  ever: `errors` begins anew at the top of the loop (`zmodem.rs:1147`), so that `MAX_ERRORS` (`:1154`) never ends it. The
  user's ESC does. `Ended` of `Zmodem` excepts exactly this case.
- `can send` prints that the peer has acknowledged although the frame may still be pending.
- The editor: `ESC [` typed just before the terminal's answer, or a key whose code looks like an answer, is
  taken for part of it; an answer that comes after the deadline with a pause in it becomes text.
- `level` answers a volume that must be recovered with an error and does not mount it anew, as
  the other commands do.
- With a worker above the shell (`CFG_APP_SHELL_PRIORITY` of 3 or more) the soak test may report a
  hang that is none, because `now` is read before the beat.
- `older_than` of the soak reports holds for a stamped name and a numbered one
  (`soak_report_core.rs:703`), so that the budget deletes stamped reports before all numbered ones; the
  doc (`:696`) says that they are kept. The directory holds one report more than its budget.

## Fairness

Safety runs assume none. `sched_live` uses `FairSpec`:

- weak fairness of the steps of a handler that has work to do, and strong
  fairness of its return: handlers are finite, and a nested one returns before
  the outer one goes on;
- strong fairness of `PendSV`, of the executing thread's `schedule()` and of the
  idle loop's reclaiming, and of the tick: handlers keep coming, and each
  disables these for a while, but they do not take all the CPU. The code gives
  no more than priorities of handlers here; it is the assumption of every
  program with interrupts that their load is below one;
- `PacedNext`: a tick does not arrive while a switch is pended. The tick period
  (1 ms) is far longer than SysTick and PendSV take together; without it a tick
  could rotate the list again and again before anybody runs.

Threads are *not* assumed to make calls: `RoundRobin` holds although a thread
may compute for ever without calling the kernel.

`devices` uses weak fairness of single processes, no more than the code gives:

- receiving: of the handler (an interrupt that is pending and not masked is taken), of
  the reader (nothing above it spins), and of the tick. Bytes need not arrive.
- sending: of the hardware, which moves on by itself, and of each writer's steps: writers of
  one priority get their slices (`RoundRobin`). In `console_spin` a writer's step is enabled only while
  no writer above it can run, so that the same condition promises it no more than the priorities do.
- ZMODEM: of reading and of timing out at each end. Nothing is assumed of the line but
  that its faults end, and nobody has to press ESC (`NoEsc`): the retries are bounded, and the bound is what makes
  both ends end, except a receiver that never hears of the sender's cancel.

A behaviour is about one component, so one condition may name an action of several.

## Proofs

Every theorem is for all values of the constants that satisfy the assumptions its
modules name: any set of threads, any priorities, slices, nesting, tokens, requests,
messages and capacities, any number of blocks, any timers and width of the tick counter. `UniqueFirst`, `None \notin Pausers`,
`WindowAssumption` and `EvenAssumption` are the four hypotheses beyond types; each is discussed below.

| Theorem | Says |
|---|---|
| `Sched_proofs!TypeCorrect` | `Spec => []TypeOK` |
| `Sched_proofs!ReadyTable` | `Spec => []ReadyTableExact` |
| `Sched_proofs!SwitchSafe` | `UniqueFirst => (Spec => []ContextIntegrity)` |
| `Sched_proofs!FromSafe` | `UniqueFirst => (Spec => []FromIsRunning)` |
| `Sched_proofs!Preemption` | `UniqueFirst /\ Boot = Thread => (Spec => []HighestRuns)` |
| `Sched_proofs!DispatchSafe` | `UniqueFirst => (Spec => DispatchHighest)`, an action property |
| `Sched_proofs!ReclaimSafe` | `UniqueFirst => (Spec => []NoUseAfterFree)` |
| `Ipc_proofs!WaitersSafe` | `Spec => []WaitersSound(k)` |
| `Ipc_proofs!EventSafe` | `Spec => []NoMissedEvent` |
| `Ipc_proofs!EventConsumedOnce` | `Spec => ConsumedOnce`, an action property |
| `Ipc_proofs!TokensSafe` | `Spec => []TokensConserved`, if `None \notin Pausers` |
| `Ipc_proofs!DequeSafe` | `Spec => IsDeque`, a refinement, on any buffer (`BufferOf(B)`) |
| `Ipc_proofs!ChannelSafe`, `QueueSafe` | `Spec => []NoneStranded`, `Spec => []QueueSound`, on any buffer, if `None \notin Pausers` |
| `Ipc_proofs!BuffersServe` | the pair of ring and linked blocks is such a buffer |
| `Mutex_proofs!GuardSafe` | `Spec => []GuardExclusive` |
| `Mutex_proofs!QueuesSafe` | `Spec => []QueuesSorted` |
| `MutexPriority_proofs!InheritanceExact` | `Spec => []PriorityExact` |
| `MutexPriority_proofs!PreemptionExact` | `Spec => []Preemptive` |
| `Ipc_proofs!BothIs` | for any capacity, ring and linked blocks hold the same messages and have room in the same states |
| `Snapshot_proofs!SnapshotSafe` | `Spec => []ActiveIntact` |
| `Snapshot_proofs!SnapshotKeepsPromise` | `Spec => IsSnapshotPromise`, a refinement, under `WindowAssumption` |
| `Snapshot_proofs!WearStaysEven` | `Spec => []WearEven`, under `EvenAssumption` |
| `KernelTimer_proofs!TimerListSafe` | `TimerSpec => []TimerSound` |
| `KernelTimer_proofs!TimersKeepPromise` | `TimerSpec => IsTimerPromise`, a refinement |
| `Uart_proofs!RxSafe` | `RxSpec => []RxInOrder` |
| `Uart_proofs!TxSafe` | `TxSpec => []TxExact` |

Each is proved along the same lines: an inductive invariant, one lemma that the
initial states satisfy it, and one that each step keeps it, with a step of the proof
per action.

### Scheduler

`TypeInv` is `TypeOK`, and that CURRENT is a thread once `start` has set it, and TO is
one whenever SWITCH_FLAG is set or about to be, so that PendSV loads a context.
`ReadyTableExact` needs `DeadInv`: DEFUNCT and the thread that idle holds are dead, not
freed, and each there once, so that no step of idle touches a linked thread.

`ContextIntegrity` is not inductive: PendSV saves `running` at FROM, so it needs
that FROM is `running` (`RequestInv`), for which a request that is merged must
leave FROM alone and one that is new must find `running = current`. That holds
from the first PendSV on. Before it, CURRENT is set and does not run; `StartInv`
says why no handler can make a request then: CURRENT is the unique most urgent
ready thread, no thread has run and so none can sleep or have been made
later, and a handler cannot delete or suspend CURRENT because of its test: CURRENT does not change
before the first PendSV, so that here the test holds until the critical section. Others it may suspend and resume. This is where
`UniqueFirst` is used, and `sched_tie` shows that it cannot be dropped. The
invariant uses `ReadyTableExact` to know that `HighestReady` is that thread.

`HighestRuns` speaks of settled states only. `PreemptInv` says what holds in
between (`Urgent`): CURRENT may run (`Runs`) and no ready thread outranks it, or a handler still owes a
`schedule()`, or no switch is pended and the executing thread owes one. A handler that suspends CURRENT behind its
test owes nothing (`resched_needed` compares CURRENT with itself), so that `Runs` cannot be just "ready". The last
case must say "no switch is pended", since PendSV would take the debt away from
the CPU; that a thread which is preempted with a debt is harmless is what makes
the invariant interesting. `HandInv` says that a handler which has a thread in
hand owes nothing yet, and that sleepers are suspended, so that idle is never
popped by a timer. `FreedInv` holds because idle frees only while it executes,
is CURRENT, and no handler is active.

`QueueLemmas` holds the facts about queues without repetition that the ready
table and the wait queues rest on.

### Objects

`KernelInv` has the types of the record `k`, `WaitersSound` (a thread is in one wait
queue, once, and suspended while it is there; only waiters and sleepers have timers),
that who waits is in a blocking call and has no error, and that CURRENT waits only before the
`schedule()` of its call. All steps of `Blocking` keep it, and those of
the objects, because a thread that blocks is executing and so in no queue. Then

- `SemInv` and `TokenInv`: what is counted, held and handed to waiters that have not
  run yet adds up to `issued` (`HeldTokens` and `HandedTokens` are finite sets whose sizes change by one),
  and the count is 0 while somebody waits. A token is handed to a thread whose `error` is clear, and
  the timeout's callback sets it only for a thread that still waits. `PoppedInv` says
  why: between the two halves of the tick handler the thread in hand waits, or is
  ready. This is what a handler that calls `Thread::suspend` breaks:
  `None \notin Pausers` excludes just that call, and `ipc_suspend` shows that it must.
- `EventInv`: `send` is a recursive function of the number of waiters it has passed.
  For each position, those before it are served or stay, each for the bits that were set when it
  was looked at, and the bits shrink only by what was taken. Nobody who
  is passed over is satisfied by fewer bits than the ones it did not suffice with.
- `CallInv(B)` and `QueueInv`: the buffer is a member of `B`, who is in a blocking call has it
  recorded, and each waits in the queue of its own call. `NoneStranded` counts the threads on
  their way against messages and places; it is inductive with these and `TokenInv`.

`BufferOf(B)` states what the theorems about channels need of a buffer: a set `B` with
the initial buffer, closed under the operations, in which `Contents` is the sequence
of messages that they append to, prepend to, and take from. `BuffersServe` discharges
it, with `BothIs`: the ring by modular arithmetic on `in` and `out`, and
the message queue by two sequences of blocks `u` and `f`, the used and the free ones,
that the chains follow (`Linked`), disjoint and together all blocks. Sending moves the head of
`f` to the end of `u`, or to its front if urgent, receiving moves the head of `u` to the front
of `f`. So no block is ever lost, and none is in both chains.

### Mutexes

`MutexInv` relates the kernel's record to what each thread believes. In the record
(`Lists`): `pending` and the queues of waiters agree (`Lines`), and each queue is in the order of the
current priorities; `owner` and the lists `taken` agree, and nobody waits for what it owns
(`Owners`); who waits is suspended, for one reason (`Waiting`). Of each thread (`Believes`): it owns
what it has guards of; and what it owns it has a guard of, unless it was handed the mutex
and has not run since. `GuardExclusive` follows, since owners are unique.

Three facts make it inductive:

- Between the removal of an owner and the choice of the next one, a mutex is waited for and free.
  `Owners(s, F)` allows that for the mutexes in `F`. It is `{}` between actions and grows inside one:
  `unlock` releases one mutex, and a deleted thread all that it holds, one after the other.
- The walks along chains (`priority_inherit`, `recompute_priority_chain`) change priorities and the order of
  queues, nothing else (`Shuffled`), and each round leaves the queues in order, since a waiter whose priority
  changes is taken out and inserted anew in the same round. So nothing is needed of how far a walk gets, and
  the proof holds whatever bounds the rounds.
- The timer's callback sets the error of a thread it finds suspended. That must be one which still
  waits, and not one that was handed the mutex and suspended since, which would own a mutex without a
  guard. Between the two halves of the tick handler the thread in hand waits, or is ready (`Unparked`), since
  only threads call `Thread::suspend` here and none executes in between.

`PriorityInv` adds that every living thread has exactly the priority its waiters demand (`Exact`), and that CURRENT
is the most urgent thread unless the executing thread is about to call `schedule()`. `Exact` is broken in the
middle of a call at one thread only, and a walk moves that place along a chain:

- When a priority falls (`Falling`), everybody but the thread `at` which the walk has come to is right, and
  `at` has no less than it needs. Whatever fell on the way was at one priority `P`, the one that went away, and is
  below it now. So a thread that the walk meets twice is right already: the second time nothing of
  `P` is left behind it.
- When a priority rises (`Rising`), `at` may have less than it needs, because of one waiter. The walk ends
  where the next thread is urgent enough.
- Either way each round that goes on changes a thread that no earlier round changed, and this set grows. There are no more
  rounds than threads, which is what `Rounds` allows, so the bound never cuts a walk short. The test for
  a cycle that the code makes on the way (Floyd's) stops a walk only at a thread that is right already.

`Preemptive` follows: each call that can make a ready thread more urgent than CURRENT, or CURRENT less urgent,
ends in `schedule()`, and with exact priorities that is all there is to look at.

### Snapshots

`SnapInv` is `ActiveIntact` with what keeps it: the candidate of a call lies apart from the
snapshot the call started from, and that is the one the program reads from, since `mutate` works on a
mounted file system and `format` on one that is not mounted. No outcome of a failed write
(`Outcomes`) touches a block but the one that is written. `GenInv` adds that
all readable snapshots have generations in the window that `WindowAssumption` names,
at most half of `GenMod` changes since the oldest: then the comparison modulo `GenMod` is
an order, and the new header is above all others. On the device the window is 2^31 changes, and
the flash wears out long before.
Publication is the step that completes the commit word: after it `Scan` finds the candidate,
before it the old header.

`WearEven` alone is not inductive: counters one apart can lie on the ring in a pattern that makes the
cheapest run overlap a higher one. `WearInv` says where they lie. As long as no block has worn out, the counters
of each header on the medium (also of those that were never committed) are level but for one step, and the lower
ones begin right behind the snapshot that holds them (`EvenFrom`). Then

- no run costs less than the one that begins there, since none holds fewer of the higher counters, and among
  equals the nearest is taken: `ChosenNext`. The sums in a cost are folds over a set; `SumOfTwo` says what such a
  fold is when there are two values only.
- counting up that run moves the step on by its length, around the ring and up to the next level
  (`EvenIncremented`). Halving all counters, once one of them is near the limit, keeps
  the step or makes all equal (`EvenRescaled`).
- no other run is tried: that happens only after a block could not be written, and then one has worn out.
  A call that fails leaves headers on the medium which are its candidate's, or were there before.

`EvenAssumption` asks that a medium that was used before has a table of this form, which is
what the theorem says of everything this code leaves behind. TLC evaluates it on the tables of `storage`.

### Timers

`TimerInv` says that the links are those of a sequence of timers without repetition, closed over
the head (`Ring`), that these are the started ones, and that they stand in the order of the ticks they
have left, those with the same number in the order in which they were armed (`InTurn`). What is left is between 0 and
`MaxTimerTicks`, and at least 1 outside `check()`. That is what makes the comparisons right: the
difference of two deadlines within half the range has the sign of the difference of what is left
(`SignTells`), although either deadline may have wrapped, and so has the difference to the time itself (`DueIs`). A tick
brings all of them nearer by one and keeps the order (`Nearer`); it comes only after `check()` has ended,
when nothing was due, so that nobody's deadline is passed. The first timer that is due is the one that
was armed first of those that are (`FirstArmed`), which is what `TimerPromise` asks of an expiration.

That the pointers are right is proved apart from that: `BetweenRing` and `RemoveRing` say what an insertion and a removal
do to a ring, at the ends and for the only node too; `ListIs` that the walk along `next` finds the sequence. The
walk visits each cell once before it is back, which `Visited` counts.

### Receive ring

`RxInv` says that `accepted` is `out`, then the byte that was put back, if any, then what is
in the ring from `tail` to `head`; and of the reader that a ring it found filled still is, and that the byte it
holds is still the one at `tail`. It is the handler's push between any two accesses of the reader
that has to keep it: the slot that is written is free, because one place stays empty.

### Transmitter

`TxInv` names for each writer the byte it sends next (`NextByte`): by the processor the one after those it has written,
by DMA the one the channel reads next, which is the end of its piece (`ChannelInv`), else the first of the
piece. All that is on its way and comes from this writer is before that byte (`OrderInv`), and sending it keeps that so. While the
channel is enabled its piece is the one of a writer that still waits, or stops it: this is `BorrowKept`. For
`NothingCutOff`, `WholeInv` says that one writer writes at a time, that TC is set whenever a writer is about to
clear TE, and that what each writer has gone past has been sent or was given up. `FlagInv` has what makes waiting for TC enough: the
flag is clear when the channel starts, so that it can be set only by the end of the transmission. All this
holds until a session and a line write at once (`mixed`), which `NothingCutOff` excepts; `SentOnce`, `LinesWhole` and `BorrowKept` hold
then, too. For `LinesWhole`, `LockInv` says that whoever is within a line has the print lock, and `LineInv` that no line on its way is
among the bytes of another (`Unbroken`), and that only who is over has bytes before another's, so that the next
byte of the lock's holder goes on with its own line or begins it behind all others (`LinesAppend`). A session's bytes may stand in between. An empty piece, which the code does not
send, is what `TxAssumption` excludes (and a printer that is the value for nobody).

### Recursion

What a recursive function computes is proved by the least index at which it would
fail (`LeastElement` of `QueueLemmas`), since the rule of induction takes an operator
that the provers cannot instantiate. So `Walk` of `Event`, the walk along the chains of blocks and
that of the timers' list (`Visited`) are within reach. A loop of `Mutex` is `Iterate`, a fold; its
recursive function is unrolled into a finite sequence of states (`RecursionIs`), along which what each round
keeps is kept (`StaysIn`).

### Only model-checked

- Of `storage`: `MaxWriteExact`, `LossAccounted`, `BudgetKept`, `VolumeSound`,
  `HeapSound`, `EditorSound`, `StoredKept`, and the refinement `IsFileTree`.
- Of `devices`: `CommittedExact`, `TypedExact`, `CwdIsDirectory`, `ClockSound`,
  `CanTruth`, `SoakTruth`.
- Out of the prover's reach: liveness under fairness (`RoundRobin`, `DeadReclaimed`,
  `Progress`) and `ENABLED`.

## Not modelled

- Of the snapshot file system: `read`, `stat`, `list`, `read_dir`, `verify` and `info`,
  which change nothing; the codecs of headers and records; names `.` and `..` and the
  zero byte, which only `validate_name` looks at.
- Kernel hooks: callbacks without effect on the kernel's state.
- Critical sections: that PRIMASK is saved and restored; a section is one step.
- The list's `insert_after` and `pop_first` as pointers: the timers do not use them.
- DMA channels other than the console's, and copies in memory by DMA.
- Commands that only print.
- Of the tests: what each worker computes besides beating and CAN; the self-tests of RTC, CRC
  and MPU; the text of the pages.
- Pins, interrupt controller, RTC, CRC, MPU, watchdog: register
  sequences without state of their own, whose correctness is in the data sheet.
- Start-up, board, configuration, beyond the assertions about clocks and the order of
  `main`: straight-line code that runs once.
- Faults and latency measurement: run after the end, or only count.
- A receiver that is woken for a message and deleted before it takes it
  (`thread.rs:399`): threads are deleted in `Mutex` and `Sched` only. And that a call which retries
  waits again with its whole timeout (`ipc.rs:943`): waits have no clock.

`PROJECT.json` lists the hazards of the code, each with the properties that are about it.

## Plan

Every component with state of its own is modelled. What is left to prove, in this order:

1. `CommittedExact` of ZMODEM: what is stored is what was given.
2. `LossAccounted` of the log.

## How to run

    tlc -config MCSched_boot.cfg MCSched
    tlc -config MCDevices.cfg MCDevices
    tlapm Sched_proofs.tla
    tlapm Ipc_proofs.tla

The runs, their configurations and their properties are listed in
`PROJECT.json`; each property has a mutant there, a variant of a definition
(it stands before the definition it varies) that a plausible bug would make and that violates
the property.
