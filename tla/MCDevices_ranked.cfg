SPECIFICATION FairSpec
CONSTANTS
  Part = {"tx"}
  Ranked = TRUE
  None = None
  RxBufSize = 4
  EscBytes = {2}
  Timeout = 2
  MaxBytes = 5
  MaxErrors = 1
  Printer = {led, log}
  Shell = shell
  Piece <- Pieces
  DmaTxMin = 2
  Above <- Ranks
  MaxFaults = 1
  led = led
  log = log
  shell = shell
  NoTiming = NoTiming
PROPERTY WritesEnd
CHECK_DEADLOCK FALSE
