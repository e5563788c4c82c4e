SPECIFICATION Spec
CONSTANTS
  ta = ta
  tb = tb
  tc = tc
  idle = idle
  Thread = {ta, tb, tc, idle}
  Idle = idle
  Boot = {ta, tb, tc, idle}
  Levels = 3
  Prio <- Prio3
  Slice <- Slice3
  Pausable = {ta, tb}
  MaxNest = 2
  NoThread = NoThread
  Main = Main
INVARIANTS TypeOK ContextIntegrity ReadyTableExact HighestRuns NoUseAfterFree
PROPERTY DispatchHighest
