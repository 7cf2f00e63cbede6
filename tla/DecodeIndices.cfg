SPECIFICATION Spec
CONSTANTS
  Radix = 16
  WordBits = 8
  GLYF_TAG = 2
  LOCA_TAG = 5
  HEAD_TAG = 3
  HMTX_TAG = 4
  Tags <- MCTags
  GlyfOutcomes <- MCGlyfOutcomes
  WOFF2_SIGNATURE = 30540
  TTF_COLLECTION_FLAVOR = 29811
  TTF_TRUE_TYPE_FLAVOR = 256
  TTF_CFF_FLAVOR = 20308
  CHECKSUM_MINUEND = 45498
  Files <- SmallFiles
  MaxTables = 1
  MaxFonts = 1
  MaxIndices = 2
  Profiles = {FALSE}
INVARIANT IndicesNameDirectoryEntries
CHECK_DEADLOCK FALSE
