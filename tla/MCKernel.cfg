SPECIFICATION PartSpec
CONSTANTS
  ta = ta
  tb = tb
  tc = tc
  idle = idle
  Thread = {ta, tb, tc, idle}
  Idle = idle
  Base <- Base3
  Queue = {m, n}
  None = None
  MaxHeld = 2
  Deletable = {tc}
  Sleeper = {ta, tb}
  Pausable = {tc}
  t1 = t1
  t2 = t2
  t3 = t3
  Timer = {t1, t2, t3}
  HalfRange = 4
  Delay <- Delays
  Period <- Periods
INVARIANTS GuardExclusive PriorityExact QueuesSorted Preemptive TimerSound
PROPERTY IsTimerPromise
SYMMETRY Timers
