SPECIFICATION FairSpec
CONSTANTS
  Part = {"rx", "tx", "zmodem", "input", "line", "dir", "clock", "can", "timing", "soak", "report"}
  Ranked = FALSE
  None = None
  RxBufSize = 4
  EscBytes = {2}
  Timeout = 2
  MaxBytes = 5
  MaxErrors = 1
  Printer = {led, log}
  Shell = shell
  Piece <- Pieces
  DmaTxMin = 2
  Above <- Ranks
  MaxFaults = 1
  led = led
  log = log
  shell = shell
  NoTiming = NoTiming
INVARIANTS RxInOrder TxExact CommittedExact TypedExact CwdIsDirectory ClockSound CanTruth SoakTruth
PROPERTIES Progress
CHECK_DEADLOCK FALSE
