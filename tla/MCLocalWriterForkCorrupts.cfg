CONSTANTS
  Thread = {t1, t2}
  Function = {f}
  Calls = 2
  ChunkSize = 3
  MaxSignals = 0
  MayFork = TRUE
  EarlyExit = FALSE
SPECIFICATION Spec
INVARIANT OnlyOpenerWrites
