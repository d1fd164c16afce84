SPECIFICATION Spec
CONSTANTS
  w = w
  t1 = t1
  t2 = t2
  h1 = h1
  h2 = h2
  NullHandle = NullHandle
  NoHandle = NoHandle
  NoTracer = NoTracer
  Words = {w}
  Blank = Blank
  None = None
  Foreign = Foreign
  NoCount = NoCount
  Limit = 2
  Tracers <- MCTracers
  Handles <- MCHandles
  Arguments <- MCArguments
  Singles <- MCSingles
  Texts <- MCTexts
  Numbers <- MCNumbers
  TagSizes = {1, 2}
  MaxTold = 2
PROPERTY CountIsUsed
CHECK_DEADLOCK FALSE
