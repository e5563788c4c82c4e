SPECIFICATION Spec
CONSTANTS
  ta = ta
  tb = tb
  idle = idle
  x = x
  y = y
  Thread = {ta, tb, idle}
  Idle = idle
  Base <- BaseAB
  Queue = {sem, flags, snd, rcv}
  None = None
  Timed = {TRUE}
  Sem = sem
  InitValue = 1
  MaxValue = 2
  MaxIssued = 3
  MaxHeld = 2
  Flags = flags
  Bit = {x, y}
  Request <- Requests
  Senders = snd
  Receivers = rcv
  Msg = {x, y}
  Capacity = 2
  Size = 2
  Nothing = None
  EmptyBuffer <- BothInit
  HasRoom <- BothHaveRoom
  Put <- BothSend
  PutFirst <- BothUrgent
  First <- BothFirst
  Rest <- BothRecv
  Contents <- BothContents
  Sound <- BothAgree
  User <- UserAll
  Pausers = {ta, tb}
INVARIANTS TokensConserved NoMissedEvent NoneStranded QueueSound
PROPERTIES ConsumedOnce IsDeque
CHECK_DEADLOCK FALSE
