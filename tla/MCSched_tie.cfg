SPECIFICATION Spec
CONSTANTS
  ta = ta
  tb = tb
  tc = tc
  idle = idle
  Thread = {ta, tb, idle}
  Idle = idle
  Boot = {ta, tb, idle}
  Levels = 2
  Prio <- Prio2
  Slice <- Slice2
  Pausable = {}
  MaxNest = 1
  NoThread = NoThread
  Main = Main
INVARIANT FromIsRunning
