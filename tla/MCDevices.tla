----------------------------- MODULE MCDevices -----------------------------
(***************************************************************************)
(* Instances, for TLC, of the components at the devices and of the ones    *)
(* that drive them: the receiver and the transmitter of the console's UART *)
(* and the file transfer over it, what the shell and its editor make of    *)
(* the keys, the shell's directory, the clocks, CAN with its bit timing,   *)
(* and the soak test with its reports.                                     *)
(* They share no state here, so one run looks at each of them in turn:     *)
(* `part` says which one a behaviour is about, and the others stand still. *)
(***************************************************************************)
EXTENDS UartRx, ConsoleTx, TLC

CONSTANTS Part,  \* the components that a run looks at
          Ranked,  \* the shell runs before the LED's thread, and that before the log's
          None, led, log, shell, NoTiming

VARIABLES part,
          toR, toS, batch, s, r, stored, faults,                          \* Zmodem
          want, rx, unread, candidate, phase, count, lost, sofar, keys, gap,  \* KeyInput
          asks, tries, partial, pushed, line, overflow, nonAscii, offset, draft, corrupt,
          entries, start, len, number, full, shown, past,                 \* ShellLine
          tree, answer, cwd, volume, mountError, fails,                   \* ShellDir
          config, dead, todo, rescue, reg, status, error, frozen, mode, prev, was, misses,  \* Clock
          ctl, can, job, bus, got, wrong, tests, flaws,                   \* Can
          request, prescaler, best,                                       \* CanTiming
          now, stop, state, beat, active, found, child, mon, verdict, broken, bugs,  \* Soak
          reports, made, rtc, day, uptime, starts, losses                 \* SoakReport

-----------------------------------------------------------------------------
\* Pieces below and at the size from which the DMA takes them.
Pieces == [w \in {led, log, shell} |->
             IF w = shell THEN <<2, 1>> ELSE IF w = led THEN <<1, 2>> ELSE <<1>>]
Ranks == IF Ranked THEN {<<shell, led>>, <<shell, log>>, <<led, log>>} ELSE {}

\* Files that fit, one that does not, and an empty one in the middle.
Z == INSTANCE Zmodem WITH
    Batches <- {<<1, 2>>, <<3, 0>>, <<2, 1, 0>>}, Room <- 2, MaxErrors <- 2,
    InitAttempts <- 3, MaxResends <- 1, MaxFaults <- 3
zmodemVars == <<toR, toS, batch, s, r, stored, faults>>
ZmodemOff == /\ toR = None /\ toS = None /\ batch = None /\ s = None /\ r = None /\
                stored = None /\ faults = None

\* Characters, keys of one and of several bytes, one that is too long, and answers of
\* the terminal: in two forms, and one that is none.
Keys == {<<"a">>, <<"esc">>, <<"esc", "[", "A">>, <<"esc", "O", "A">>, <<"cr">>, <<"cr", "lf">>,
         <<"esc", "[", "d", "d", "d", "d", "A">>}
I == INSTANCE KeyInput WITH
    Typed <- {<<>>} \cup {<<k>> : k \in Keys} \cup (Keys \X Keys),
    Answers <- {<<"esc", "[", "d", ";", "d", "R">>, <<"csi", "d", ";", "d", "R">>,
                <<"esc", "[", "R">>},
    Capacity <- 9, ReportCap <- 6, ProbeMax <- 8, CsiMax <- 3, TailMax <- 4,
    pending <- unread, partial <- sofar
inputVars == <<want, rx, unread, candidate, phase, count, lost, sofar, keys, gap>>
InputOff == /\ want = None /\ rx = None /\ unread = None /\ candidate = None /\
               phase = None /\ count = None /\ lost = None /\ sofar = None /\
               keys = None /\ gap = None

\* A line of two characters, and a history of two lines.
E == INSTANCE ShellLine WITH
    Chars <- {"a", " "}, LineBuf <- 2, Capacity <- 2, LoginTries <- 2, MaxOver <- 1, MaxNumber <- 3,
    pending <- pushed
shellLineVars == <<asks, tries, partial, pushed, line, overflow, nonAscii, offset, draft,
              corrupt, entries, start, len, number, full, shown, past>>
LineOff == /\ asks = None /\ tries = None /\ partial = None /\ pushed = None /\
              line = None /\ overflow = None /\ nonAscii = None /\ offset = None /\
              draft = None /\ corrupt = None /\ entries = None /\ start = None /\
              len = None /\ number = None /\ full = None /\ shown = None /\ past = None

\* A name that is one byte long, one of two, and paths of five bytes at most.
In(a, words) == [absolute |-> a, words |-> words]
D == INSTANCE ShellDir WITH
    Width <- "a" :> 1 @@ "bb" :> 2, MaxNameLen <- 5, MaxFaults <- 2,
    Paths <- {<<"a">>, <<"bb">>, <<"a", "a">>, <<"a", "bb">>, <<"bb", "a">>, <<"bb", "bb">>,
              <<"a", "a", "a">>},
    Inputs <- {In(TRUE, <<"a">>), In(TRUE, <<"a", "bb">>),
               In(FALSE, <<"..">>), In(FALSE, <<"a">>), In(FALSE, <<"..", "bb">>)},
    slips <- fails
shellVars == <<tree, answer, cwd, volume, mountError, fails>>
ShellOff == /\ tree = None /\ answer = None /\ cwd = None /\ volume = None /\
               mountError = None /\ fails = None

\* Every source, and PLLs of either input, one of which divides with a remainder.
Cfg(source, from, m, n) ==
    [source |-> source, src |-> from, m |-> m, n |-> n, p |-> 1, div |-> 2, xtal |-> 8, hrc |-> 16]
K == INSTANCE Clock WITH
    Configs <- {Cfg("mrc", 0, 0, 49), Cfg("hrc", 0, 0, 49), Cfg("xtal", 0, 0, 49),
                Cfg("pll", 0, 0, 49), Cfg("pll", 1, 1, 49), Cfg("pll", 1, 2, 49)},
    MrcMhz <- 8, BusMax <- 100, MaxFaults <- 1, can <- mode, slips <- misses
clockVars == <<config, dead, todo, rescue, reg, status, error, frozen, mode, prev, was,
               misses>>
ClockOff == /\ config = None /\ dead = None /\ todo = None /\ rescue = None /\
               reg = None /\ status = None /\ error = None /\ frozen = None /\
               mode = None /\ prev = None /\ was = None /\ misses = None

\* A receive FIFO that the self-test fills.
N == INSTANCE Can WITH
    RxSlots <- 3, MaxBus <- 2, MaxTests <- 1, Rounds <- 2, MaxFaults <- 1, slips <- flaws
canVars == <<ctl, can, job, bus, got, wrong, tests, flaws>>
CanOff == /\ ctl = None /\ can = None /\ job = None /\ bus = None /\ got = None /\
             wrong = None /\ tests = None /\ flaws = None

\* Rates that are met exactly, nearly and not at all.
T == INSTANCE CanTiming WITH
    Requests <- [clock : {8000, 8500}, rate : {1000, 500, 333, 250}, sample : {667, 750, 1000},
                 sjw : {1, 2, 4}, ppm : {0, 2000, 50000}],
    MaxPrescaler <- 4, MaxSeg1 <- 14, MaxSeg2 <- 3, MaxRate <- 1000
timingVars == <<request, prescaler, best>>
TimingOff == /\ request = None /\ prescaler = None /\ best = None

\* A pair that exchanges messages, a worker that creates threads, and a clock that wraps.
W == INSTANCE Soak WITH
    Workers <- {1, 2, 3}, Partner <- <<1, 1, 3>>, Parents <- {3}, Above <- {}, Grace <- 2,
    Duration <- 4, ExitWait <- 2, WrapAt <- 8, First <- 5, MaxFaults <- 1,
    errors <- found, slips <- bugs
soakVars == <<now, stop, state, beat, active, found, child, mon, verdict, broken, bugs>>
SoakOff == /\ now = None /\ stop = None /\ state = None /\ beat = None /\
              active = None /\ found = None /\ child = None /\ mon = None /\
              verdict = None /\ broken = None /\ bugs = None

P == INSTANCE SoakReport WITH
    Slots <- 2, MaxReports <- 5, MaxStarts <- 3, MaxFaults <- 1, slips <- losses
reportVars == <<reports, made, rtc, day, uptime, starts, losses>>
ReportOff == /\ reports = None /\ made = None /\ rtc = None /\ day = None /\
                uptime = None /\ starts = None /\ losses = None

ASSUME RxAssumption /\ TxAssumption /\ Z!ZmodemAssumption /\ K!ClockAssumption /\
       N!CanAssumption /\ T!TimingAssumption /\ W!SoakAssumption /\
       P!ReportAssumption

-----------------------------------------------------------------------------
vars == <<part, rxVars, txVars, zmodemVars, inputVars, shellLineVars, shellVars, clockVars,
          canVars, timingVars, soakVars, reportVars>>

Init ==
    /\ part \in Part
    /\ RxInit /\ TxInit
    /\ IF part = "zmodem" THEN Z!Init ELSE ZmodemOff
    /\ IF part = "input" THEN I!InputInit ELSE InputOff
    /\ IF part = "line" THEN E!LineInit ELSE LineOff
    /\ IF part = "dir" THEN D!ShellInit ELSE ShellOff
    /\ IF part = "clock" THEN K!ClockStart ELSE ClockOff
    /\ IF part = "can" THEN N!CanStart ELSE CanOff
    /\ IF part = "timing" THEN T!TimingInit ELSE TimingOff
    /\ IF part = "soak" THEN W!SoakInit ELSE SoakOff
    /\ IF part = "report" THEN P!ReportInit ELSE ReportOff

\* The other parts stand still.
Still(p) ==
    /\ part = p /\ part' = part
    /\ IF p = "rx" THEN TRUE ELSE UNCHANGED rxVars
    /\ IF p = "tx" THEN TRUE ELSE UNCHANGED txVars
    /\ IF p = "zmodem" THEN TRUE ELSE UNCHANGED zmodemVars
    /\ IF p = "input" THEN TRUE ELSE UNCHANGED inputVars
    /\ IF p = "line" THEN TRUE ELSE UNCHANGED shellLineVars
    /\ IF p = "dir" THEN TRUE ELSE UNCHANGED shellVars
    /\ IF p = "clock" THEN TRUE ELSE UNCHANGED clockVars
    /\ IF p = "can" THEN TRUE ELSE UNCHANGED canVars
    /\ IF p = "timing" THEN TRUE ELSE UNCHANGED timingVars
    /\ IF p = "soak" THEN TRUE ELSE UNCHANGED soakVars
    /\ IF p = "report" THEN TRUE ELSE UNCHANGED reportVars

Next ==
    \/ Still("rx") /\ RxNext
    \/ Still("tx") /\ TxNext
    \/ Still("zmodem") /\ Z!Next
    \/ Still("input") /\ I!InputNext
    \/ Still("line") /\ E!LineNext
    \/ Still("dir") /\ D!ShellNext
    \/ Still("clock") /\ K!ClockStep
    \/ Still("can") /\ N!CanNext
    \/ Still("timing") /\ T!TimingNext
    \/ Still("soak") /\ W!SoakNext
    \/ Still("report") /\ P!ReportNext
Spec == Init /\ [][Next]_vars

\* What each part's own specification assumes to happen in the end; the parts take
\* no steps together, so that one condition can name an action of each.
Rx(A) == Still("rx") /\ A
Tx(A) == Still("tx") /\ A
Zm(A) == Still("zmodem") /\ A /\ Z!NoEsc
Fairness ==
    /\ WF_vars(Rx(RxIrq) \/ Tx(Hardware) \/ Zm(Z!SRead))
    /\ WF_vars(Rx(Reader) \/ Tx(Step(led)) \/ Zm(Z!STimeout))
    /\ WF_vars(Rx(Tick) \/ Tx(Step(log)) \/ Zm(Z!RRead))
    /\ WF_vars(Tx(Step(shell)) \/ Zm(Z!RTimeout))
FairSpec == Spec /\ Fairness

-----------------------------------------------------------------------------
\* A received file is stored only when it is complete and right, and a sender that
\* reports success has its files stored at the other end, whatever the line loses.
CommittedExact == part = "zmodem" => Z!CommittedExact /\ Z!SuccessMeansStored

\* A reader that waits for a byte gets all that arrive, every print ends where
\* writers share the CPU, and a file transfer ends, for the sender however much is
\* lost, and for the receiver unless the sender's cancel is.
Progress ==
    /\ <>[](part # "rx" \/ AllTaken)
    /\ <>[](part # "tx" \/ AllWritten)
    /\ <>(part # "zmodem" \/ Z!Ended)

\* No thread waits without end for one of lower priority: every print and every session
\* ends (console.rs:26; violated: a session polls a transmitter that is off, and so keeps
\* the thread that would switch it on from running).
WritesEnd == <>[](part = "tx" => AllWritten)

\* What is typed arrives.  The editor's search for the terminal's answer gives every
\* other byte back in order and tears no key apart; the shell's line is what was typed
\* and not erased, refused as a whole when it was too long, and the history returns the
\* newest lines in order.
TypedExact ==
    /\ part = "input" => I!BytesKept /\ I!KeysWhole
    /\ part = "line" => E!LineExact /\ E!HistoryExact

\* The shell's directory exists, whichever directory was renamed or removed, and after
\* every new mount.
CwdIsDirectory == part = "dir" => D!CwdIsDirectory

\* At every clock that may be selected, flash, SRAM and pins wait long enough, also
\* when an oscillator fails half-way; and the gates and the crystal are given back as
\* they were found.
ClockSound == part = "clock" => K!ClockCovered /\ K!ClockRestored /\ K!PllExact

\* A CAN test fails exactly when the controller was at fault, whatever the controller
\* was doing before, and leaves the mode it found; and the bit timing is the best that
\* the registers allow.
CanTruth ==
    /\ part = "can" => N!TestTellsTruth /\ N!ModeRestored /\ N!BusInOrder
    /\ part = "timing" => T!TimingBest

\* The soak test fails only if a worker failed before the stop or hung, and passes over
\* none but an error of the last second that is reported after the stop; a worker that is
\* well is not said to hang.  A report takes no other's name, and the budget removes the
\* oldest of those whose names are of one kind.
SoakTruth ==
    /\ part = "soak" => W!VerdictExact /\ W!NoFalseHang
    /\ part = "report" => P!NewestKept
=============================================================================
