CONSTANTS
  t1 = t1
  t2 = t2
  f = f
  g = g
  a = a
  e = e
  None = None
  NoTrace = NoTrace
  MaxEvents = 2
  MaxLater = 2
  AfterFrames = TRUE
  Thread <- MCThread
  Function <- MCFunction
  Frame <- MCFrame
  Type <- MCType
  Traces <- MCTraces
  Later <- MCLater
  EndFrame <- MCEndFrame
  LoopCounts <- MCNoLoops
SPECIFICATION LoopSpec
INVARIANT NeverMisparses
