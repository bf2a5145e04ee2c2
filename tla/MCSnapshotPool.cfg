CONSTANTS
  Worker = {w1, w2, w3}
  Snapshots = 4
  Win32 = FALSE
SPECIFICATION Spec
INVARIANTS PoolInv NoIdleWorker WrittenAtEnd
PROPERTIES ImplementsFiles PoolEnds
