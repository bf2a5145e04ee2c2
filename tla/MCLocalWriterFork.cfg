CONSTANTS
  Thread = {t1, t2}
  Function = {f}
  Calls = 2
  ChunkSize = 3
  MaxSignals = 1
  MayFork = TRUE
  EarlyExit = FALSE
SYMMETRY MCSymmetry
SPECIFICATION Spec
INVARIANT TraceWellFormed
PROPERTY FlushesWholeEvents
\* A child forked while another thread held the mutex waits for it forever.
CHECK_DEADLOCK FALSE
