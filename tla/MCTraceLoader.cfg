CONSTANTS
  t1 = t1
  t2 = t2
  draw = draw
  swap = swap
  clear = clear
  None = None
  NoTrace = NoTrace
  Thread <- MCThread
  Function <- MCFunction
  Frame = {}
  Type = {}
  EndFrame <- MCEndFrame
  Files <- MCFiles
  Numbers <- MCNumbers
  Texts <- MCTexts
  MaxRequests = 3
SPECIFICATION Spec
INVARIANTS ShowsTheTrace SearchFinds
PROPERTY EverythingAnswered
CHECK_DEADLOCK FALSE
