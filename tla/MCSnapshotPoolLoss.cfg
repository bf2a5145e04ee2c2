CONSTANTS
  Worker = {w1, w2}
  Snapshots = 3
  Win32 = FALSE
SPECIFICATION Spec
INVARIANT SnapshotsKept
