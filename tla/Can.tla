-------------------------------- MODULE Can --------------------------------
(***************************************************************************)
(* The CAN controller (src/can.rs), the commands of the shell that use it  *)
(* (src/shell/can.rs), and the two tests that borrow it for frames looped  *)
(* back inside: the self-test (src/selftest.rs) and the worker of the soak *)
(* test (src/soak.rs), with the hand-over in src/board.rs.  One thread     *)
(* calls; the controller and the bus move between two of its calls.        *)
(* A frame is its identifier, its format, a number for the bytes that both *)
(* tests compare, and whether the others are as they were sent.            *)
(***************************************************************************)
EXTENDS Integers, Sequences, SequencesExt, FiniteSetsExt

CONSTANTS RxSlots,    \* frames that the receive FIFO holds
          MaxBus,     \* bound: frames from the bus
          MaxTests,   \* bound: tests
          Rounds,     \* bound: frames of one soak test
          MaxFaults   \* bound: faults of the controller, or of the crystal

VARIABLES ctl,     \* the controller's registers, buffers and filters
          can,     \* the driver: initialized, mode
          job,     \* what the caller is doing, and what it knows
          bus,     \* number of frames that the bus has sent
          got,     \* contents of the bus's frames that commands have taken, in order
          wrong,   \* what the controller did that it must not, since a test began
          tests, slips
canVars == <<ctl, can, job, bus, got, wrong, tests, slips>>

CanAssumption == RxSlots >= 3 /\ MaxBus >= 0 /\ MaxTests >= 0 /\ Rounds >= 1 /\ MaxFaults >= 0
-----------------------------------------------------------------------------
(* Frames and filters.  The masks in use are runs of low bits. *)
Frame(id, ext, body) == [id |-> id, ext |-> ext, body |-> body, rest |-> "sent"]
MaskAll == 536870911
SelftestFrames == <<Frame(161, FALSE, 1), Frame(28036591, TRUE, 2), Frame(801, FALSE, 3)>>
Rejected == <<Frame(1962, FALSE, 4), Frame(161, TRUE, 5), Frame(1450, FALSE, 6)>>
SelftestFilters ==
    {[id |-> 160, mask |-> 1, ext |-> {FALSE}], [id |-> 28036591, mask |-> 0, ext |-> {TRUE}],
     [id |-> 801, mask |-> 0, ext |-> {FALSE}], [id |-> 1450, mask |-> 0, ext |-> {TRUE}]}
SoakFilters == {[id |-> 0, mask |-> MaskAll, ext |-> BOOLEAN]}
Passes(filters, f) ==
    \E x \in filters : f.ext \in x.ext /\ f.id \div (x.mask + 1) = x.id \div (x.mask + 1)

(* The modes of work, as the bits that init leaves for each. *)
Modes == {"normal", "silent", "int", "ext", "extsilent"}
Loop(mode) == CASE mode = "int" -> "inside" [] mode \in {"ext", "extsilent"} -> "outside"
                [] OTHER -> "none"
ListenOnly(mode) == mode \in {"silent", "extsilent"}
-----------------------------------------------------------------------------
(* The driver. *)
Idle == [clock |-> FALSE, reset |-> TRUE, loop |-> "none", lom |-> FALSE, tpe |-> FALSE,
         ptb |-> <<>>, stb |-> <<>>, tsall |-> FALSE, rx |-> <<>>, flags |-> {},
         filters |-> {}, tec |-> 0]

\* The frames that were received stay.
LocalResetUnread(c) == [c EXCEPT !.reset = TRUE, !.tpe = FALSE, !.tsall = FALSE,
                                 !.ptb = <<>>, !.stb = <<>>]
\* The local reset clears the buffers and what was requested of them.
LocalReset(c) == [c EXCEPT !.reset = TRUE, !.tpe = FALSE, !.tsall = FALSE,
                           !.ptb = <<>>, !.stb = <<>>, !.rx = <<>>]

\* init, once the crystal runs; the flags of before are cleared last.
Initialized(c, mode, filters) ==
    [LocalReset(c) EXCEPT !.clock = TRUE, !.reset = FALSE, !.loop = Loop(mode),
                          !.lom = ListenOnly(mode), !.filters = filters, !.flags = {}]
Deinitialized(c) == [LocalReset(c) EXCEPT !.clock = FALSE, !.flags = {}, !.filters = {}]

Runs(c, mode) == ctl' = c /\ can' = [on |-> TRUE, mode |-> mode]
CanInit(c, mode, filters) == Runs(Initialized(c, mode, filters), mode)

CanTransmit(c) == ~c.reset /\ (c.lom => c.loop = "outside")

TransmitPtb(c, f) == [c EXCEPT !.flags = @ \ {"ptb"}, !.ptb = <<f>>, !.tpe = TRUE]
PtbFree(c) == CanTransmit(c) /\ ~c.tpe
EnqueueStb(c, f) == [c EXCEPT !.stb = Append(@, f)]
StbFree(c) == CanTransmit(c) /\ ~c.tsall /\ Len(c.stb) < 4
StartStb(c) == [c EXCEPT !.flags = @ \ {"stb"}, !.tsall = TRUE]

Abort(c, buffer) == IF buffer = "ptb" THEN [c EXCEPT !.tpe = FALSE]
                    ELSE [c EXCEPT !.tsall = FALSE, !.stb = <<>>]
Receive(c) == [c EXCEPT !.rx = Tail(@)]
ClearStatus(c, flags) == [c EXCEPT !.flags = @ \ flags]
Drained(c) == [ClearStatus(c, c.flags) EXCEPT !.rx = <<>>]

\* The hand-over to a test, and back.
TakenOver(c) == IF can.on THEN Deinitialized(c) ELSE c
WorkMode == IF can.on THEN can.mode ELSE "off"
-----------------------------------------------------------------------------
(* The controller and the bus. *)
Store(c, f, own) ==
    IF ~Passes(c.filters, f) THEN c
    ELSE IF Len(c.rx) < RxSlots THEN [c EXCEPT !.rx = Append(@, [frame |-> f, own |-> own])]
         ELSE [c EXCEPT !.flags = @ \cup {"overflow"}]
Live == ctl.clock /\ ~ctl.reset
Buffer == IF ctl.tpe THEN "ptb" ELSE "stb"
Sending == IF ctl.tpe THEN ctl.ptb ELSE IF ctl.tsall THEN ctl.stb ELSE <<>>

\* The frame in `buffer` has gone.
Sent(c, buffer) ==
    IF buffer = "ptb" THEN [c EXCEPT !.tpe = FALSE, !.flags = @ \cup {"ptb"}]
    ELSE [c EXCEPT !.stb = Tail(@), !.tsall = Len(c.stb) > 1,
                   !.flags = IF Len(c.stb) > 1 THEN @ ELSE @ \cup {"stb"}]

\* A frame is sent: inside, to itself; otherwise with the answer of another node.
HwSend ==
    /\ Live /\ Sending # <<>>
    /\ LET c == Sent(ctl, Buffer) IN
       ctl' = IF ctl.loop = "none" THEN [c EXCEPT !.tec = 0]
              ELSE Store([c EXCEPT !.tec = 0], Head(Sending), TRUE)
    /\ UNCHANGED <<can, job, bus, got, wrong, tests, slips>>

\* Nobody answers: an error is noted, and the controller tries again.
HwNoAnswer ==
    /\ Live /\ Sending # <<>> /\ ctl.loop # "inside" /\ ctl.tec = 0
    /\ ctl' = [ctl EXCEPT !.tec = 1, !.flags = @ \cup {"error"}]
    /\ UNCHANGED <<can, job, bus, got, wrong, tests, slips>>

\* A frame of another node; looped back inside, the controller is not on the bus.
HwReceive ==
    /\ Live /\ ctl.loop # "inside" /\ bus < MaxBus
    /\ bus' = bus + 1
    /\ ctl' = Store(ctl, Frame(161, FALSE, 10 + bus), FALSE)
    /\ UNCHANGED <<can, job, got, wrong, tests, slips>>

\* The controller fails while a test uses it: a frame is lost on its way, or altered in
\* one part or the other, or let through, or an error is noted, or the frame stays
\* where it is.
HwFault ==
    /\ Live /\ ctl.loop = "inside" /\ job.at \in {"waittx"} /\ Sending # <<>>
    /\ slips < MaxFaults /\ slips' = slips + 1
    /\ \/ /\ ctl' = Sent(ctl, Buffer)
          /\ wrong' = wrong \cup (IF Passes(ctl.filters, Head(Sending)) THEN {"lost"} ELSE {})
       \/ /\ Passes(ctl.filters, Head(Sending))
          /\ \/ /\ ctl' = Store(Sent(ctl, Buffer), [Head(Sending) EXCEPT !.body = 0], TRUE)
                /\ wrong' = wrong \cup {"body"}
             \/ /\ ctl' = Store(Sent(ctl, Buffer), [Head(Sending) EXCEPT !.rest = "altered"], TRUE)
                /\ wrong' = wrong \cup {"rest"}
       \/ /\ ~Passes(ctl.filters, Head(Sending))
          /\ ctl' = [Sent(ctl, Buffer) EXCEPT !.rx = Append(@, [frame |-> Head(Sending), own |-> TRUE])]
          /\ wrong' = wrong \cup {"through"}
       \/ /\ ctl' = [ctl EXCEPT !.flags = @ \cup {"error"}, !.tec = 1]
          /\ wrong' = wrong \cup {"error"}
       \/ /\ ctl' = [ctl EXCEPT !.clock = FALSE]
          /\ wrong' = wrong \cup {"still"}
    /\ UNCHANGED <<can, job, bus, got, tests>>
-----------------------------------------------------------------------------
(* The commands of the shell. *)
Rest == [at |-> "idle", prev |-> "off", n |-> 0, tx |-> <<>>, told |-> "none"]
Ready == job.at = "idle"
XtalFails == slips < MaxFaults /\ slips' = slips + 1

CmdInit(mode) ==
    /\ Ready
    /\ LET c == TakenOver(ctl) IN
       \/ CanInit(c, mode, SoakFilters) /\ UNCHANGED slips
       \/ XtalFails /\ ctl' = c /\ can' = [can EXCEPT !.on = FALSE]
    /\ job' = Rest /\ UNCHANGED <<bus, got, wrong, tests>>

CmdDeinit ==
    /\ Ready /\ can.on
    /\ ctl' = Deinitialized(ctl) /\ can' = [can EXCEPT !.on = FALSE]
    /\ job' = Rest /\ UNCHANGED <<bus, got, wrong, tests, slips>>

\* `can send`: refused off the bus and while a frame waits, then polled for a while.
CmdSend ==
    /\ Ready /\ can.on /\ ~ListenOnly(can.mode) /\ PtbFree(ctl)
    /\ ctl' = TransmitPtb(ctl, Frame(291, FALSE, 7))
    /\ job' = [Rest EXCEPT !.at = "sendwait"]
    /\ UNCHANGED <<can, bus, got, wrong, tests, slips>>
SendReport ==
    /\ job.at = "sendwait"
    /\ job' = [Rest EXCEPT !.told = IF ctl.tec = 0 THEN "sent" ELSE "error"]
    /\ UNCHANGED <<ctl, can, bus, got, wrong, tests, slips>>

\* `can recv` and `can listen`: a frame at a time.
CmdRecv ==
    /\ Ready /\ can.on /\ ctl.rx # <<>>
    /\ got' = IF Head(ctl.rx).own THEN got ELSE Append(got, Head(ctl.rx).frame.body)
    /\ ctl' = Receive(ctl)
    /\ job' = Rest /\ UNCHANGED <<can, bus, wrong, tests, slips>>

\* `can listen` in another mode begins anew.
CmdListen(mode) ==
    /\ WorkMode # mode /\ mode \in {"silent", "normal"}
    /\ CmdInit(mode)
-----------------------------------------------------------------------------
(* The tests. *)
Begin(kind) ==
    /\ Ready /\ tests < MaxTests /\ tests' = tests + 1
    /\ can' = [can EXCEPT !.on = FALSE] /\ ctl' = TakenOver(ctl)
    /\ job' = [Rest EXCEPT !.at = "init", !.prev = WorkMode, !.told = kind]
    /\ wrong' = {} /\ UNCHANGED <<bus, got, slips>>
CanLoopbackTest == Begin("selftest")
CanWorker == Begin("soak")

Kind == job.told
TestInit ==
    /\ job.at = "init"
    /\ \/ /\ LET filters == IF Kind = "selftest" THEN SelftestFilters ELSE SoakFilters
             IN Runs(Drained(Initialized(ctl, "int", filters)), "int")
          /\ job' = [job EXCEPT !.at = "next"] /\ UNCHANGED <<wrong, slips>>
       \/ /\ XtalFails /\ wrong' = {"xtal"}
          /\ job' = [job EXCEPT !.at = "fail"] /\ UNCHANGED <<ctl, can>>
    /\ UNCHANGED <<bus, got, tests>>

\* The self-test sends three frames that no filter lets through and one that passes
\* from the primary buffer, then two from the other; the soak test takes turns.
Step == IF Kind = "selftest"
        THEN (<<<<Rejected[1]>>, <<Rejected[2]>>, <<Rejected[3]>>, <<SelftestFrames[1]>>,
                <<SelftestFrames[2], SelftestFrames[3]>>>>)[job.n + 1]
        ELSE <<Frame(256, FALSE, job.n + 1)>>
TestBuffer == IF Kind = "selftest" THEN (IF job.n = 4 THEN "stb" ELSE "ptb")
              ELSE IF job.n % 2 = 0 THEN "ptb" ELSE "stb"
Ended == job.n = (IF Kind = "selftest" THEN 5 ELSE Rounds)
TestSend ==
    /\ job.at = "next" /\ ~Ended
    /\ IF TestBuffer = "ptb"
       THEN /\ job' = [job EXCEPT !.at = IF PtbFree(ctl) THEN "waittx" ELSE "fail", !.tx = Step]
            /\ ctl' = IF PtbFree(ctl) THEN TransmitPtb(ctl, Step[1]) ELSE ctl
       ELSE /\ job' = [job EXCEPT !.at = IF StbFree(ctl) THEN "waittx" ELSE "fail", !.tx = Step]
            /\ ctl' = IF StbFree(ctl) THEN StartStb(FoldLeft(EnqueueStb, ctl, Step)) ELSE ctl
    /\ UNCHANGED <<can, bus, got, wrong, tests, slips>>

\* wait_can_tx: errors, then the flag, then the time; the controller answers well
\* within the time unless it stands still.
WaitCanTx ==
    /\ job.at = "waittx"
    /\ \/ /\ "error" \in ctl.flags
          /\ ctl' = Abort(ctl, TestBuffer) /\ job' = [job EXCEPT !.at = "fail"]
       \/ /\ "error" \notin ctl.flags /\ TestBuffer \in ctl.flags
          /\ ctl' = ClearStatus(ctl, {TestBuffer}) /\ job' = [job EXCEPT !.at = "look"]
       \/ /\ ctl.flags \cap {"error", TestBuffer} = {} /\ ~ctl.clock
          /\ ctl' = Abort(ctl, TestBuffer) /\ job' = [job EXCEPT !.at = "fail"]
    /\ UNCHANGED <<can, bus, got, wrong, tests, slips>>

FrameMatches(r, f) == r.frame = f /\ r.own
\* The soak test compares the identifier, data[0..4] and data[5].
SoakMatches(r, f) ==
    r.frame.id = f.id /\ r.frame.ext = f.ext /\ r.frame.body = f.body /\ r.own
Matches(r, f) == IF Kind = "soak" THEN SoakMatches(r, f) ELSE FrameMatches(r, f)

\* What must not have come, and what must have.
ExpectRejection ==
    /\ job.at = "look" /\ Kind = "selftest" /\ job.n < 3
    /\ job' = IF ctl.rx # <<>> THEN [job EXCEPT !.at = "fail"]
              ELSE [job EXCEPT !.at = "next", !.n = @ + 1]
    /\ ctl' = IF ctl.rx # <<>> THEN Receive(ctl) ELSE ctl
    /\ UNCHANGED <<can, bus, got, wrong, tests, slips>>
ExpectFrames ==
    /\ job.at = "look" /\ (Kind = "soak" \/ job.n = 4)
    /\ LET want == IF Kind = "soak" THEN job.tx ELSE SelftestFrames
           k == IF Len(ctl.rx) < Len(want) THEN Len(ctl.rx) ELSE Len(want)
           good == /\ k = Len(want) /\ \A i \in 1..k : Matches(ctl.rx[i], want[i])
                   /\ Kind = "selftest" => Len(ctl.rx) = k /\ "error" \notin ctl.flags
       IN /\ ctl' = [ctl EXCEPT !.rx = SubSeq(@, k + 1, Len(@))]
          /\ job' = IF good THEN [job EXCEPT !.at = "next", !.n = @ + 1]
                    ELSE [job EXCEPT !.at = "fail"]
    /\ UNCHANGED <<can, bus, got, wrong, tests, slips>>
KeepFrame ==
    /\ job.at = "look" /\ Kind = "selftest" /\ job.n = 3
    /\ job' = [job EXCEPT !.at = "next", !.n = @ + 1]
    /\ UNCHANGED <<ctl, can, bus, got, wrong, tests, slips>>

\* ESC, or the end of the soak test.
TestStop ==
    /\ \/ Kind = "soak" /\ job.at = "next"
       \/ Kind = "selftest" /\ job.at = "waittx"
    /\ ctl' = IF Kind = "soak" THEN ctl ELSE Abort(ctl, TestBuffer)
    /\ job' = [job EXCEPT !.at = IF Kind = "soak" THEN "pass" ELSE "aborted"]
    /\ UNCHANGED <<can, bus, got, wrong, tests, slips>>
TestPass ==
    /\ job.at = "next" /\ Ended /\ job' = [job EXCEPT !.at = "pass"]
    /\ UNCHANGED <<ctl, can, bus, got, wrong, tests, slips>>

\* can_release: back to the mode that was found, which may fail as any init may.
CanRelease ==
    /\ job.at \in {"pass", "fail", "aborted"}
    /\ LET c == Deinitialized(ctl) IN
       IF job.prev = "off"
       THEN ctl' = c /\ can' = [can EXCEPT !.on = FALSE] /\ UNCHANGED slips
            /\ job' = [job EXCEPT !.told = job.at, !.at = "idle"]
       ELSE \/ /\ CanInit(c, job.prev, SoakFilters) /\ UNCHANGED slips
               /\ job' = [job EXCEPT !.told = job.at, !.at = "idle"]
            \/ /\ XtalFails /\ ctl' = c /\ can' = [can EXCEPT !.on = FALSE]
               /\ job' = [job EXCEPT !.told = "fail", !.at = "idle", !.prev = "off"]
    /\ UNCHANGED <<bus, got, wrong, tests>>
-----------------------------------------------------------------------------
CanStart ==
    /\ ctl = Idle /\ can = [on |-> FALSE, mode |-> "normal"] /\ job = Rest
    /\ bus = 0 /\ got = <<>> /\ wrong = {} /\ tests = 0 /\ slips = 0
CanNext ==
    \/ HwSend \/ HwNoAnswer \/ HwReceive \/ HwFault
    \/ \E mode \in Modes : CmdInit(mode) \/ CmdListen(mode)
    \/ CmdDeinit \/ CmdSend \/ SendReport \/ CmdRecv
    \/ CanLoopbackTest \/ CanWorker \/ TestInit \/ TestSend \/ WaitCanTx
    \/ ExpectRejection \/ ExpectFrames \/ KeepFrame \/ TestStop \/ TestPass \/ CanRelease

\* A test says what the controller did, whatever it was doing when the test came: it
\* fails if a frame was lost, altered or let through, and only then.  The soak test takes
\* a frame for good whose length, RTR or data[4], [6] or [7] were altered (soak.rs:1162).
SeenWrong == IF Kind = "soak" THEN wrong \ {"rest"} ELSE wrong
TestTellsTruth ==
    /\ job.at = "pass" => SeenWrong = {}
    /\ job.at = "fail" => SeenWrong # {}
\* What a command sees is set up for its mode, after any command or test: a test leaves
\* no loop, no filter and no frame of its own behind.
ModeRestored ==
    job.at = "idle" /\ can.on =>
        /\ Live /\ ctl.loop = Loop(can.mode) /\ ctl.lom = ListenOnly(can.mode)
        /\ ctl.filters = SoakFilters
        /\ \A i \in 1..Len(ctl.rx) : ctl.rx[i].frame.body \notin 1..6
\* Frames of the bus reach the commands in order, and none twice.
BusInOrder == \A i \in 1..(Len(got) - 1) : got[i] < got[i + 1]
=============================================================================
