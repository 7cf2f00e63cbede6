SPECIFICATION Spec
CONSTANTS
  Radix = 256
  GlyphCalls <- AllCalls
  EdgeBytes = {0, 1, 127, 128, 255}
INVARIANT TypeOK
INVARIANT LoadsBack
INVARIANT LeavesNext
INVARIANT PanicsPastLimits
CHECK_DEADLOCK FALSE
