------------------------------- MODULE Clock -------------------------------
(***************************************************************************)
(* The clock tree (src/clk.rs): how a start brings up the configured       *)
(* source, with the wait states of flash (src/efm.rs), SRAM (src/sram.rs)  *)
(* and pins and the gates of the peripherals around the switch, and what   *)
(* is left when an oscillator does not start; then the users of the        *)
(* crystal: CAN, and the tests that borrow it (src/can.rs, src/board.rs,   *)
(* src/soak.rs, src/selftest.rs).  A start runs alone, one write at a time *)
(* (`todo`); a call that fails goes on with `rescue`.  Frequencies are in  *)
(* MHz.  A write to a protected register is lost while FPRC is locked.     *)
(***************************************************************************)
EXTENDS Integers, Sequences

CONSTANTS Configs,   \* what can be configured (src/config.rs)
          MrcMhz,    \* the clock after a reset
          BusMax,    \* the fastest clock of the peripherals' bus
          MaxFaults  \* bound: wait states that are not taken over

VARIABLES config, dead,           \* the configuration; the oscillators that do not start
          todo, rescue,           \* writes to do; what follows a failure
          reg,                    \* the registers
          status, error, frozen,  \* XTAL_STATUS; the error kept, and the clock as read at the start
          can, prev, was,         \* CAN's mode; what a test found: the mode, and the crystal's state
          slips
clockVars == <<config, dead, todo, rescue, reg, status, error, frozen, can, prev, was, slips>>
-----------------------------------------------------------------------------
(* Frequencies. *)

\* config.rs: what is refused when the firmware is built.
WidthsFit(c) == c.m \in 0..31 /\ c.n \in 19..479 /\ c.p \in 1..15
RangeFits(c, source) ==
  /\ source >= c.m + 1 /\ source <= 25 * (c.m + 1)
  /\ source * (c.n + 1) >= 240 * (c.m + 1) /\ source * (c.n + 1) <= 480 * (c.m + 1)
IsDivider(d) == d \in {1, 2, 4, 8, 16}

Source(c) == IF c.src = 0 THEN "xtal" ELSE "hrc"
OscMhz(osc) == CASE osc = "mrc" -> MrcMhz [] osc = "hrc" -> config.hrc [] OTHER -> config.xtal

\* The product is split so that nothing overflows.
PllMhz(source, c) ==
  LET den == (c.m + 1) * (c.p + 1)
  IN (source \div den) * (c.n + 1) + ((source % den) * (c.n + 1)) \div den
SystemMhz(osc) == IF osc = "pll" THEN PllMhz(OscMhz(Source(reg.pllcfg)), reg.pllcfg) ELSE OscMhz(osc)
BusMhz == SystemMhz(reg.sel) \div reg.div

ClockAssumption ==
  \A c \in Configs : /\ IsDivider(c.div)
                     /\ c.source = "pll" => WidthsFit(c) /\ RangeFits(c, IF c.src = 0 THEN c.xtal ELSE c.hrc)

FlashWaits(mhz) ==
  CASE mhz <= 33 -> 0 [] mhz <= 66 -> 1 [] mhz <= 99 -> 2
    [] mhz <= 132 -> 3 [] mhz <= 168 -> 4 [] OTHER -> 5
SramWaits(mhz) == IF mhz > 100 THEN 1 ELSE 0
-----------------------------------------------------------------------------
(* Writes. *)
Now(step) == todo # <<>> /\ Head(todo)[1] = step
Arg == Head(todo)[2]
Then(steps) == todo' = steps \o Tail(todo)
Unlocked(r) == [r EXCEPT !.fprc = TRUE]
Locked(r) == [r EXCEPT !.fprc = FALSE]
Written(r, field, v) == IF r.fprc THEN [r EXCEPT ![field] = v] ELSE r
Failed(err) == /\ todo' = rescue /\ rescue' = <<>>
               /\ error' = IF frozen = 0 THEN err ELSE error
Stable(osc) == osc \in reg.on \ dead

restVars == <<config, dead, frozen, can, prev, was>>

\* xtal_init, hrc_cmd(true): on, and locked again whether it gets stable or not.
OscOn(osc) == <<<<"start", osc>>, <<"stable", osc>>>>
OscStart ==
  /\ Now("start")
  /\ reg' = Written(Unlocked(reg), "on", reg.on \cup {Arg})
  /\ Then(<<>>) /\ UNCHANGED <<rescue, status, error, slips, restVars>>
OscStable ==
  /\ Now("stable")
  /\ reg' = Locked(reg)
  /\ IF Stable(Arg) THEN Then(<<>>) /\ UNCHANGED <<rescue, error, status>>
     ELSE /\ Failed(Arg)
          /\ status' = IF Arg = "xtal" THEN "failed" ELSE status
  /\ UNCHANGED <<slips, restVars>>
XtalOff ==
  /\ Now("off")
  /\ reg' = Locked(Written(Unlocked(reg), "on", reg.on \ {"xtal"}))
  /\ Then(<<>>) /\ UNCHANGED <<rescue, status, error, slips, restVars>>

\* set_bus_clock_div: the gates stay open unless the PLL is in use already.
BusDiv ==
  /\ Now("div") /\ reg.sel # "pll"
  /\ reg' = Locked(Written(Unlocked(reg), "div", config.div))
  /\ Then(<<>>) /\ UNCHANGED <<rescue, status, error, slips, restVars>>

\* pll_init: the PLL's source must be stable; a PLL that does not lock is left on.
PllConfig ==
  /\ Now("pllconfig")
  /\ reg' = Written(Unlocked(reg), "pllcfg", [src |-> config.src, m |-> config.m, n |-> config.n, p |-> config.p])
  /\ Then(<<>>) /\ UNCHANGED <<rescue, status, error, slips, restVars>>
PllStart ==
  /\ Now("pllstart")
  /\ IF Stable(Source(config))
     THEN reg' = Written(reg, "on", reg.on \cup {"pll"}) /\ Then(<<>>) /\ UNCHANGED <<rescue, error>>
     ELSE reg' = Locked(reg) /\ Failed(Source(config))
  /\ UNCHANGED <<status, slips, restVars>>

\* The wait states for the clock to come, read back.
SetFlash ==
  /\ Now("flash")
  /\ \/ reg' = [reg EXCEPT !.flash = FlashWaits(SystemMhz(Arg))] /\ Then(<<>>)
        /\ UNCHANGED <<rescue, error, slips>>
     \/ /\ slips < MaxFaults /\ slips' = slips + 1
        /\ Failed("efm") /\ UNCHANGED reg
  /\ UNCHANGED <<status, restVars>>
SetSram ==
  /\ Now("sram")
  /\ \/ reg' = [reg EXCEPT !.sram = SramWaits(SystemMhz(Arg))] /\ Then(<<>>)
        /\ UNCHANGED <<rescue, error, slips>>
     \/ /\ slips < MaxFaults /\ slips' = slips + 1
        /\ Failed("sram") /\ UNCHANGED reg
  /\ UNCHANGED <<status, restVars>>
SetPinWait ==
  /\ Now("pins")
  /\ reg' = [reg EXCEPT !.pins = 3]
  /\ Then(<<>>) /\ UNCHANGED <<rescue, status, error, slips, restVars>>

\* pwc_high_performance writes PWRC2, which FPRC protects too.
HighPerformance ==
  /\ Now("drive")
  /\ reg' = Written(reg, "drive", "full")
  /\ Then(<<>>) /\ UNCHANGED <<rescue, status, error, slips, restVars>>

\* FCG0 alone has a protection of its own, PRT0.
FcgClose ==
  /\ Now("close")
  /\ reg' = [reg EXCEPT !.prt0 = TRUE, !.saved = reg.gates, !.gates = "reset"]
  /\ Then(<<>>) /\ UNCHANGED <<rescue, status, error, slips, restVars>>
FcgRestore ==
  /\ Now("restore")
  /\ reg' = [reg EXCEPT !.gates = reg.saved, !.prt0 = FALSE]
  /\ Then(<<>>) /\ UNCHANGED <<rescue, status, error, slips, restVars>>

Select ==
  /\ Now("select")
  /\ reg' = Locked(Written(Unlocked(reg), "sel", Arg))
  /\ Then(<<>>) /\ UNCHANGED <<rescue, status, error, slips, restVars>>

Waits(osc) == <<<<"flash", osc>>, <<"sram", osc>>>>
SwitchToHrc == Waits("hrc") \o <<<<"select", "hrc">>>>
SwitchToXtal == Waits("xtal") \o <<<<"select", "xtal">>, <<"active", "">>>>
SwitchTo(osc) == IF osc = "xtal" THEN SwitchToXtal ELSE SwitchToHrc
\* The wait states come after the switch.
SwitchToPllLate ==
  <<<<"pins", "">>, <<"drive", "">>, <<"close", "">>, <<"select", "pll">>>> \o Waits("pll")
  \o <<<<"restore", "">>, <<"active", "pll">>>>
SwitchToPll ==
  Waits("pll") \o <<<<"pins", "">>, <<"drive", "">>, <<"close", "">>, <<"select", "pll">>,
                    <<"restore", "">>, <<"active", "pll">>>>

\* The crystal is reported as active if it feeds the clock.
Active ==
  /\ Now("active")
  /\ status' = IF Arg = "pll" /\ config.src # 0 THEN status ELSE "active"
  /\ Then(<<>>) /\ UNCHANGED <<rescue, reg, error, slips, restVars>>

\* A PLL that does not come up is replaced by its source; the error is then not kept.
PllInit == <<<<"pllconfig", "">>, <<"pllstart", "">>, <<"stable", "pll">>>>
ClockInit(c) ==
  CASE c.source = "mrc" -> <<>>
    [] c.source = "hrc" -> OscOn("hrc") \o SwitchToHrc
    [] c.source = "xtal" -> OscOn("xtal") \o SwitchToXtal
    [] OTHER -> OscOn(Source(c)) \o <<<<"div", "">>, <<"try", "">>>>
TryPll ==
  /\ Now("try")
  /\ Then(PllInit \o <<<<"locked", "">>>>)
  /\ rescue' = <<<<"fallback", "">>>>
  /\ UNCHANGED <<reg, status, error, slips, restVars>>
PllLocked ==
  /\ Now("locked")
  /\ Then(SwitchToPll) /\ rescue' = <<>>
  /\ UNCHANGED <<reg, status, error, slips, restVars>>
FallBack ==
  /\ Now("fallback")
  /\ Then(SwitchTo(Source(config))) /\ error' = "none"
  /\ UNCHANGED <<rescue, reg, status, slips, restVars>>

\* freeze: what the drivers are told from now on.
Freeze ==
  /\ todo = <<>> /\ frozen = 0
  /\ frozen' = SystemMhz(reg.sel)
  /\ UNCHANGED <<config, dead, todo, rescue, reg, status, error, can, prev, was, slips>>
-----------------------------------------------------------------------------
(* Users of the crystal, one at a time: shell, self-test and soak test.      *)
Idle == todo = <<>> /\ frozen # 0
CallInit ==
  /\ Idle
  /\ todo' = <<<<"caninit", "normal">>>> /\ prev' = "none"
  /\ UNCHANGED <<config, dead, rescue, reg, status, error, frozen, can, was, slips>>
CallDeinit ==
  /\ Idle /\ can # "off"
  /\ can' = "off" /\ prev' = "none"
  /\ UNCHANGED <<config, dead, todo, rescue, reg, status, error, frozen, was, slips>>

\* A test finds out whether the crystal is on, then takes over.
TakeOver ==
  /\ Idle
  /\ was' = ("xtal" \in reg.on) /\ prev' = can
  /\ can' = "off"
  /\ todo' = <<<<"caninit", "loopback">>, <<"release", "">>, <<"leave", "">>>>
  /\ UNCHANGED <<config, dead, rescue, reg, status, error, frozen, slips>>

\* Can::init starts the crystal if need be, and stops it if that fails.
CanInit ==
  /\ Now("caninit")
  /\ IF Stable("xtal") THEN Then(<<<<"canmode", Arg>>>>) /\ UNCHANGED rescue
     ELSE /\ Then(OscOn("xtal") \o <<<<"canmode", Arg>>>>)
          /\ rescue' = (IF "xtal" \in reg.on THEN <<>> ELSE <<<<"off", "">>>>) \o Tail(todo)
  /\ UNCHANGED <<reg, status, error, slips, restVars>>
CanMode ==
  /\ Now("canmode")
  /\ can' = Arg
  /\ Then(<<>>) /\ rescue' = <<>>
  /\ UNCHANGED <<config, dead, reg, status, error, frozen, prev, was, slips>>
Release ==
  /\ Now("release")
  /\ can' = "off"
  /\ Then(IF prev = "off" THEN <<>> ELSE <<<<"caninit", prev>>>>)
  /\ UNCHANGED <<config, dead, rescue, reg, status, error, frozen, prev, was, slips>>
Leave ==
  /\ Now("leave")
  /\ Then(IF prev = "off" /\ ~was THEN <<<<"off", "">>>> ELSE <<>>)
  /\ UNCHANGED <<rescue, reg, status, error, slips, restVars>>
-----------------------------------------------------------------------------
ClockStart ==
  /\ config \in Configs /\ dead \in SUBSET {"xtal", "hrc", "pll"}
  /\ todo = ClockInit(config) /\ rescue = <<>>
  /\ reg = [fprc |-> FALSE, on |-> {"mrc"}, sel |-> "mrc", div |-> 1,
            pllcfg |-> [src |-> 0, m |-> 0, n |-> 19, p |-> 1],
            flash |-> FlashWaits(MrcMhz), sram |-> 0, pins |-> 0, drive |-> "low",
            prt0 |-> FALSE, gates |-> "set", saved |-> "reset"]
  /\ status = "not attempted" /\ error = "none" /\ frozen = 0
  /\ can = "off" /\ prev = "none" /\ was = FALSE /\ slips = 0
ClockStep ==
  \/ OscStart \/ OscStable \/ XtalOff \/ BusDiv \/ PllConfig \/ PllStart
  \/ SetFlash \/ SetSram \/ SetPinWait \/ HighPerformance \/ FcgClose \/ FcgRestore
  \/ Select \/ Active \/ TryPll \/ PllLocked \/ FallBack \/ Freeze
  \/ CallInit \/ CallDeinit \/ TakeOver \/ CanInit \/ CanMode \/ Release \/ Leave
-----------------------------------------------------------------------------
(* At every step the wait states of flash, SRAM and pins and the divider of   *)
(* the bus are enough for the clock in use, its oscillators run, and the gates *)
(* of the peripherals are closed when the PLL is about to be selected.         *)
ClockCovered ==
  LET mhz == SystemMhz(reg.sel)
  IN /\ reg.flash >= FlashWaits(mhz) /\ reg.sram >= SramWaits(mhz)
     /\ mhz > 126 => reg.pins = 3
     /\ BusMhz <= BusMax
     /\ Stable(reg.sel) /\ (reg.sel = "pll" => Stable(Source(reg.pllcfg)))
     /\ todo # <<>> /\ Head(todo) = <<"select", "pll">> => reg.gates = "reset" /\ reg.prt0

(* Between two calls everything is as it was found: the registers protected,   *)
(* the gates open, the clock that the drivers were told the one in use, and     *)
(* after a test CAN's mode and the crystal, if the crystal works.               *)
ClockRestored ==
  todo = <<>> =>
    /\ ~reg.fprc /\ ~reg.prt0 /\ reg.gates = "set"
    /\ frozen # 0 => frozen = SystemMhz(reg.sel)
    /\ can # "off" => Stable("xtal")
    /\ prev = "off" => can = "off" /\ ("xtal" \in reg.on <=> was)
    /\ prev # "none" /\ "xtal" \notin dead => can = prev

(* The PLL's product is exact: no rounding is lost where it is split.          *)
PllExact ==
  \A c \in Configs : \A source \in {c.xtal, c.hrc} :
    PllMhz(source, c) = (source * (c.n + 1)) \div ((c.m + 1) * (c.p + 1))

(* clk.rs:672: the voltage for 200 MHz is set before the PLL is selected.  Not *)
(* so: its registers are locked again by then (README).                        *)
DriveCoversClock == reg.sel = "pll" => reg.drive = "full"
=============================================================================
