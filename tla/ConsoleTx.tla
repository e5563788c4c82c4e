------------------------------ MODULE ConsoleTx ------------------------------
(***************************************************************************)
(* Sending on the console's UART (src/uart.rs, src/dma.rs, src/console.rs): *)
(* threads that print lines under the print lock, and the shell, which      *)
(* sends a ZMODEM session's bytes outside it.  A piece that is long enough  *)
(* is handed to a DMA channel, the rest is written byte by byte.            *)
(*                                                                         *)
(* The hardware, as the code relies on it: TXE is set while the sender is   *)
(* on and TDR is empty, and its rising edge asks an enabled channel for a   *)
(* byte; a sender that is switched off loses what it has.                   *)
(***************************************************************************)
EXTENDS Integers, Sequences

CONSTANTS Printer,    \* threads that print a line under the lock
          Shell,      \* the thread that runs a session
          Piece,      \* Piece[w]: the lengths of the pieces that w writes
          DmaTxMin,   \* CFG_DMA_TX_MIN
          Above,      \* pairs <<v, w>>: v runs before w does
          MaxFaults   \* bound: time that passes too early, a readback that fails
Writer == Printer \cup {Shell}

\* An empty piece writes nothing, and is none here.
TxAssumption ==
  /\ Shell \notin Printer /\ <<>> \notin Printer /\ DmaTxMin \in Nat
  /\ Piece \in [Writer -> Seq(Nat \ {0})]

VARIABLES te, tdr, shift, wire,  \* CR1.TE, the registers, and what has left
          chen, src, tc,         \* the channel: bytes left to move, the next one, its TC flag
          txBusy,                \* UART_TX_BUSY
          lock, session,         \* PRINT_MUTEX's owner; ZMODEM_SESSION
          at, piece, done,       \* where each writer is, in which piece, bytes of it handled
          given, mixed, slips    \* pieces given up; whether a line and a session met; bound
hwVars == <<te, tdr, shift, wire, chen, src, tc>>
txVars == <<hwVars, txBusy, lock, session, at, piece, done, given, mixed, slips>>

Nothing == <<>>
TXE == te /\ tdr = Nothing
TC == tdr = Nothing /\ shift = Nothing
Byte(w, i) == <<w, piece[w], i>>
Length(w) == Piece[w][piece[w]]
Slip == slips < MaxFaults /\ slips' = slips + 1

-----------------------------------------------------------------------------
(* The hardware. *)

\* TDR goes to the shifter; the edge of TXE has the channel write the next byte.
Request == IF chen > 0
           THEN /\ tdr' = src /\ src' = [src EXCEPT ![3] = @ + 1]
                /\ chen' = chen - 1 /\ tc' = (tc \/ chen = 1)
           ELSE tdr' = Nothing /\ UNCHANGED <<chen, src, tc>>
Shift ==
  /\ te /\ tdr # Nothing /\ shift = Nothing
  /\ shift' = tdr
  /\ Request
  /\ UNCHANGED <<te, wire, txBusy, lock, session, at, piece, done, given, mixed, slips>>
Leave ==
  /\ te /\ shift # Nothing
  /\ wire' = Append(wire, shift) /\ shift' = Nothing
  /\ UNCHANGED <<te, tdr, chen, src, tc, txBusy, lock, session, at, piece, done, given, mixed, slips>>
Hardware == Shift \/ Leave
-----------------------------------------------------------------------------
(* The writers. *)
Moves(w, where) == at' = [at EXCEPT ![w] = where]
Waits(w) == at[w] \in {"idle", "over"} \/ (at[w] = "lock" /\ lock # Nothing)
Runs(w) == \A v \in Writer : <<v, w>> \in Above => Waits(v)
Writing(w) == at[w] \in {"try", "config", "arm", "te", "enable", "fire", "wait", "stop", "poll"}
Alone(w) == \A v \in Writer \ {w} : ~Writing(v)
\* A session's bytes do not wait for the lock.
Meets(w) == ~Alone(w) /\ (w = Shell \/ Writing(Shell))

\* Variant: without the print lock.
LockFree(w) ==
  /\ Runs(w) /\ w \in Printer /\ at[w] = "lock"
  /\ Moves(w, "piece")
  /\ UNCHANGED <<hwVars, txBusy, lock, session, piece, done, given, mixed, slips>>
\* with_print_lock: one line at a time; pieces are dropped in a session.
Lock(w) ==
  /\ Runs(w) /\ w \in Printer /\ at[w] = "lock" /\ lock = Nothing
  /\ lock' = w /\ Moves(w, "piece")
  /\ UNCHANGED <<hwVars, txBusy, session, piece, done, given, mixed, slips>>
SessionEnter ==
  /\ Runs(Shell) /\ at[Shell] = "enter"
  /\ session' = TRUE /\ Moves(Shell, "piece")
  /\ UNCHANGED <<hwVars, txBusy, lock, piece, done, given, mixed, slips>>
WriteBytesRaw(w) ==
  /\ Runs(w) /\ at[w] = "piece"
  /\ IF piece[w] > Len(Piece[w])
     THEN /\ Moves(w, "over")
          /\ IF w = Shell THEN session' = FALSE /\ UNCHANGED lock
             ELSE lock' = Nothing /\ UNCHANGED session
          /\ UNCHANGED <<piece, given, mixed>>
     ELSE /\ IF w # Shell /\ session
             THEN /\ piece' = [piece EXCEPT ![w] = @ + 1]
                  /\ given' = given \cup {<<w, piece[w]>>} /\ UNCHANGED <<at, mixed>>
             ELSE /\ Moves(w, "try")
                  /\ mixed' = (mixed \/ Meets(w)) /\ UNCHANGED <<piece, given>>
          /\ UNCHANGED <<lock, session>>
  /\ UNCHANGED <<hwVars, txBusy, done, slips>>

\* uart_tx_try: one transmission at a time, else byte by byte.
UartTxTry(w) ==
  /\ Runs(w) /\ at[w] = "try"
  /\ done' = [done EXCEPT ![w] = 0]
  /\ IF Length(w) < DmaTxMin \/ txBusy
     THEN Moves(w, "poll") /\ UNCHANGED txBusy
     ELSE Moves(w, "config") /\ txBusy' = TRUE
  /\ UNCHANGED <<hwVars, lock, session, piece, given, mixed, slips>>

\* The end of uart_tx_try; where the piece was not taken over it is polled.
Release(w, where) == tc' = FALSE /\ txBusy' = FALSE /\ Moves(w, where)

Config(w) ==
  /\ Runs(w) /\ at[w] = "config"
  /\ \/ Moves(w, "arm") /\ tc' = FALSE /\ UNCHANGED <<txBusy, slips>>
     \/ Slip /\ Release(w, "poll")
  /\ UNCHANGED <<te, tdr, shift, wire, chen, src, lock, session, piece, done, given, mixed>>

\* dma_tx_arm: everything before has left, or the time is over.
DmaTxArm(w) ==
  /\ Runs(w) /\ at[w] = "arm"
  /\ \/ TC /\ Moves(w, "te") /\ UNCHANGED <<tc, txBusy, slips>>
     \/ ~TC /\ Slip /\ Release(w, "poll")
  /\ UNCHANGED <<te, tdr, shift, wire, chen, src, lock, session, piece, done, given, mixed>>
DmaTxOff(w) ==
  /\ Runs(w) /\ at[w] = "te"
  /\ te' = FALSE /\ tdr' = Nothing /\ shift' = Nothing
  /\ Moves(w, "enable")
  /\ UNCHANGED <<wire, chen, src, tc, txBusy, lock, session, piece, done, given, mixed, slips>>

\* enable: other channels of the unit may be in the way; the sender comes back
\* on in any case.
Enable(w) ==
  /\ Runs(w) /\ at[w] = "enable"
  /\ \/ chen' = Length(w) /\ src' = Byte(w, 1) /\ Moves(w, "fire") /\ UNCHANGED <<te, tc, txBusy, slips>>
     \/ Slip /\ te' = TRUE /\ Release(w, "poll") /\ UNCHANGED <<chen, src>>
  /\ UNCHANGED <<tdr, shift, wire, lock, session, piece, done, given, mixed>>

\* dma_tx_fire: the edge that starts it.
Fire(w) ==
  /\ Runs(w) /\ at[w] = "fire"
  /\ te' = TRUE
  /\ IF tdr = Nothing THEN Request ELSE UNCHANGED <<tdr, chen, src, tc>>
  /\ Moves(w, "wait")
  /\ UNCHANGED <<shift, wire, txBusy, lock, session, piece, done, given, mixed, slips>>

\* wait_done: the transmission is over, or its time is.
WaitDone(w) ==
  /\ Runs(w) /\ at[w] = "wait"
  /\ \/ tc /\ UNCHANGED <<given, slips>>
     \/ ~tc /\ Slip /\ given' = given \cup {<<w, piece[w]>>}
  /\ Moves(w, "stop")
  /\ UNCHANGED <<hwVars, txBusy, lock, session, piece, done, mixed>>

\* stop_blocking, and the piece counts as sent either way.
StopBlocking(w) ==
  /\ Runs(w) /\ at[w] = "stop"
  /\ chen' = 0
  /\ Release(w, "piece")
  /\ piece' = [piece EXCEPT ![w] = @ + 1]
  /\ UNCHANGED <<te, tdr, shift, wire, src, lock, session, done, given, mixed, slips>>

\* write_word: TXE is looked at again where TDR is written.
WriteWord(w) ==
  /\ Runs(w) /\ at[w] = "poll" /\ TXE
  /\ tdr' = Byte(w, done[w] + 1)
  /\ IF done[w] + 1 = Length(w)
     THEN Moves(w, "piece") /\ piece' = [piece EXCEPT ![w] = @ + 1] /\ done' = [done EXCEPT ![w] = 0]
     ELSE done' = [done EXCEPT ![w] = @ + 1] /\ UNCHANGED <<at, piece>>
  /\ UNCHANGED <<te, shift, wire, chen, src, tc, txBusy, lock, session, given, mixed, slips>>

Step(w) == \/ Lock(w) \/ WriteBytesRaw(w) \/ UartTxTry(w) \/ Config(w)
           \/ DmaTxArm(w) \/ DmaTxOff(w) \/ Enable(w) \/ Fire(w)
           \/ WaitDone(w) \/ StopBlocking(w) \/ WriteWord(w)
           \/ w = Shell /\ SessionEnter
\* A thread comes to print; the shell to start a session.  Its last line is out by
\* then, but it has slept since (write_fmt_line_fanout), so that others may be printing.
Start(w) ==
  /\ at[w] = "idle" /\ Moves(w, IF w = Shell THEN "enter" ELSE "lock")
  /\ UNCHANGED <<hwVars, txBusy, lock, session, piece, done, given, mixed, slips>>
-----------------------------------------------------------------------------
TxInit ==
  /\ te = TRUE /\ tdr = Nothing /\ shift = Nothing /\ wire = <<>>
  /\ chen = 0 /\ src = Nothing /\ tc = FALSE
  /\ txBusy = FALSE /\ lock = Nothing /\ session = FALSE
  /\ at = [w \in Writer |-> "idle"]
  /\ piece = [w \in Writer |-> 1] /\ done = [w \in Writer |-> 0]
  /\ given = {} /\ mixed = FALSE /\ slips = 0
TxNext == Hardware \/ \E w \in Writer : Step(w) \/ Start(w)
TxSpec == TxInit /\ [][TxNext]_txVars
TxFair == WF_txVars(Hardware) /\ \A w \in Writer : WF_txVars(Step(w))
-----------------------------------------------------------------------------
OnWay == wire \o (IF shift = Nothing THEN <<>> ELSE <<shift>>) \o (IF tdr = Nothing THEN <<>> ELSE <<tdr>>)
Before(a, b) == a[2] < b[2] \/ (a[2] = b[2] /\ a[3] < b[3])

(* A writer's bytes leave in order and none of them twice, whatever time-outs  *)
(* there are and whoever writes at the same time (dma.rs:939: a transmission   *)
(* that is given up is not sent again byte by byte).                           *)
SentOnce ==
  \A i, j \in DOMAIN OnWay :
    i < j /\ OnWay[i][1] = OnWay[j][1] => Before(OnWay[i], OnWay[j])

(* As long as no session's bytes meet a line's, every byte of a piece is on    *)
(* its way when the writer goes on, unless the piece was given up: a           *)
(* transmission that starts does not cut off the one before it.                *)
NothingCutOff ==
  ~mixed => \A w \in Writer : \A p \in 1..(piece[w] - 1) :
    \/ <<w, p>> \in given
    \/ \A i \in 1..Piece[w][p] : \E j \in DOMAIN OnWay : OnWay[j] = <<w, p, i>>

(* console.rs:19-21, 201-202: at most one thread prints at a time, so that no  *)
(* byte of another's line is between two bytes of a line.                      *)
LinesWhole ==
  \A i, j, k \in DOMAIN OnWay :
    /\ i < j /\ j < k /\ OnWay[i][1] = OnWay[k][1]
    /\ OnWay[i][1] \in Printer /\ OnWay[j][1] \in Printer
    => OnWay[j][1] = OnWay[i][1]

(* The channel reads from a piece only while the call that lent it has not     *)
(* returned (dma.rs:1008: the DMA is stopped before the borrow ends).          *)
BorrowKept ==
  chen > 0 => \E w \in Writer : at[w] \in {"fire", "wait", "stop"} /\ src[1] = w /\ src[2] = piece[w]

(* Every piece of output is on the wire once and uncut, and no line among the  *)
(* bytes of another, whether the DMA or the processor sends it, also after a   *)
(* transfer that timed out; and no buffer is released while the DMA may still  *)
(* read it.                                                                    *)
TxExact == SentOnce /\ NothingCutOff /\ LinesWhole /\ BorrowKept

(* Every line that is begun is finished and every session ends.                *)
AllWritten == \A w \in Writer : at[w] \in {"idle", "over"}

(* console.rs:66: no bytes of a line among the bytes of a session.  Not so for *)
(* a line that was begun before the session (README).                          *)
SessionQuiet ==
  \A i, j, k \in DOMAIN wire :
    i < j /\ j < k /\ wire[i][1] = Shell /\ wire[k][1] = Shell => wire[j][1] = Shell
=============================================================================
