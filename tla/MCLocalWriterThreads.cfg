CONSTANTS
  Thread = {t1, t2}
  Function = {f}
  Calls = 2
  ChunkSize = 3
  MaxSignals = 3
  MayFork = FALSE
  EarlyExit = FALSE
SPECIFICATION Spec
INVARIANTS WriterInv OneWriter TraceWellFormed CrashFlushed
PROPERTIES FlushesWholeEvents ParentEnds
\* A thread that blocks for good stops the program: ParentEnds excludes it.
CHECK_DEADLOCK FALSE
