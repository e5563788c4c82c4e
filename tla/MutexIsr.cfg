SPECIFICATION IsrSpec
CONSTANTS
  ta = ta
  tb = tb
  idle = idle
  Thread = {ta, tb, idle}
  Idle = idle
  Base <- BaseAB
  Queue = {m}
  None = None
  MaxHeld = 1
  IsrLocks = {m}
  Deletable = {}
  Sleeper = {ta}
  Pausable = {}
INVARIANT IsrOwnedHasGuard
