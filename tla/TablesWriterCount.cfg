SPECIFICATION Spec
CONSTANTS
  Radix = 16
  GLYF_TAG = 2
  LOCA_TAG = 5
  HEAD_TAG = 3
  HMTX_TAG = 4
  Tags <- MCTags
  GlyfOutcomes <- MCGlyfOutcomes
  Inputs <- CallInputs
  MaxTables = 3
  CoreKinds = {"cmap", "glyf", "loca"}
  Kinds = {"cmap", "glyf", "loca"}
INVARIANT RecordCountAsserted
CHECK_DEADLOCK FALSE
