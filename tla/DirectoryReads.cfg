SPECIFICATION Spec
CONSTANTS
  Radix = 128
  FourCC <- MCFourCC
  Directories <- AllDirectories
  MaxTables = 2
INVARIANT ReadsEncodings
INVARIANT RefusesNoEntry
CHECK_DEADLOCK FALSE
