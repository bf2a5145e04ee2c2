CONSTANTS
  Worker = {w1, w2}
  Snapshots = 3
  Win32 = TRUE
SPECIFICATION Spec
INVARIANT NeverPopsEmpty
