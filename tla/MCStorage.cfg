SPECIFICATION StorageSpec
CONSTANTS
  Part = {"snapshot", "namespace", "log", "volume", "heap", "editor"}
  BlockCount = 4
  CountMask = 3
  RescaleAt = 2
  GenMod = 16
  FirstGen = 15
  LastGen = 1
  MaxAttempts = 2
  MaxDead = 2
  Content = {small, large, huge}
  Empty = small
  SpanOf <- Spans
  FirstTables <- Tables
  None = None
  Blank = Blank
  Torn = Torn
  small = small
  large = large
  huge = huge
  Slash = Slash
  chA = chA
  chB = chB
  Absent = Absent
INVARIANTS ActiveIntact WearEven MaxWriteExact LossAccounted BudgetKept VolumeSound HeapSound EditorSound
PROPERTIES IsSnapshotPromise IsFileTree StoredKept
CHECK_DEADLOCK FALSE
