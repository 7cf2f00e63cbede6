SPECIFICATION FairSpec
CONSTANTS
  Radix = 16
  GLYF_TAG = 2
  LOCA_TAG = 5
  HEAD_TAG = 3
  HMTX_TAG = 4
  Tags <- MCTags
  GlyfOutcomes <- MCGlyfOutcomes
  Inputs <- CallInputs
  MaxTables = 4
  CoreKinds = {"glyf", "tglyf", "head", "loca", "tloca"}
  Kinds = {"cmap", "glyf", "tglyf", "head", "head11", "thmtx", "loca", "tloca"}
INVARIANT TypeOK
INVARIANT Layout
INVARIANT ChecksumsMatch
INVARIANT RecordsFollowDirectory
INVARIANT NothingLost
INVARIANT CountDecidedByPairs
INVARIANT NoPanicOnSoundInput
PROPERTY Returns
PROPERTY ImplementsAssembly
CHECK_DEADLOCK FALSE
