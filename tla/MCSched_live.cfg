SPECIFICATION FairSpec
CONSTANTS
  ta = ta
  tb = tb
  tc = tc
  idle = idle
  Thread = {ta, tb, idle}
  Idle = idle
  Boot = {ta, idle}
  Levels = 2
  Prio <- Prio2
  Slice <- Slice2
  Pausable = {ta, tb}
  MaxNest = 1
  NoThread = NoThread
  Main = Main
PROPERTIES RoundRobin DeadReclaimed
