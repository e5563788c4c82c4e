SPECIFICATION Spec
CONSTANTS
  ta = ta
  tb = tb
  idle = idle
  x = x
  y = y
  Thread = {ta, tb, idle}
  Idle = idle
  Base <- BaseAB
  Queue = {sem, flags, snd, rcv}
  None = None
  Timed = {TRUE}
  Sem = sem
  InitValue = 0
  MaxValue = 1
  MaxIssued = 2
  MaxHeld = 1
  Flags = flags
  Bit = {x, y}
  Request <- Requests
  Senders = snd
  Receivers = rcv
  Msg = {x, y}
  Capacity = 2
  Size = 2
  Nothing = None
  EmptyBuffer <- BothInit
  HasRoom <- BothHaveRoom
  Put <- BothSend
  PutFirst <- BothUrgent
  First <- BothFirst
  Rest <- BothRecv
  Contents <- BothContents
  Sound <- BothAgree
  User <- UserSem
  Pausers = {ta, tb, None}
PROPERTY SuspendSticks
