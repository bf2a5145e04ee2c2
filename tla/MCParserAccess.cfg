CONSTANTS
  t1 = t1
  t2 = t2
  f = f
  g = g
  a = a
  e = e
  None = None
  NoTrace = NoTrace
  MaxEvents = 5
  MaxLater = 2
  AfterFrames = FALSE
  Thread <- MCThread
  Function <- MCFunction
  Frame <- MCFrame
  Type <- MCType
  Traces <- MCTraces
  Later <- MCLater
  EndFrame <- MCEndFrame
  LoopCounts <- MCLoopCounts
SPECIFICATION LoopSpec
SYMMETRY MCSymmetry
INVARIANTS ReaderInv ReadsTheTrace RepeatsTheLastFrame
CHECK_DEADLOCK FALSE
