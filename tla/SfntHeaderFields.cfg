SPECIFICATION Spec
CONSTANTS
  Radix = 256
  WordBits = 16
INVARIANT ExactUpToLargest
INVARIANT CheckedMeansExact
CHECK_DEADLOCK FALSE
