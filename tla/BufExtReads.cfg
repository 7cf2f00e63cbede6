SPECIFICATION FairSpec
CONSTANTS
  Radix = 128
  Calls <- AllCalls
  MaxGroups = 5
  MaxCopy = 5
  Groups = {0, 1, 15, 16, 63}
INVARIANT Base128IsCanonical
INVARIANT Base128RefusesNoEncoding
INVARIANT Reads255
INVARIANT CopiesExactly
PROPERTY Returns
CHECK_DEADLOCK FALSE
