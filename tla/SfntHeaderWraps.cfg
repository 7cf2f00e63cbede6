SPECIFICATION Spec
CONSTANTS
  Radix = 256
  WordBits = 16
INVARIANT FieldsAsDocumented
CHECK_DEADLOCK FALSE
