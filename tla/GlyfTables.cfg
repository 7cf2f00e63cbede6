SPECIFICATION FairSpec
CONSTANTS
  Radix = 256
  Inputs <- AllTables
  MaxGlyphs = 3
  OffsetValues = 128
INVARIANT TypeOK
INVARIANT LocaTilesGlyf
INVARIANT GlyphsLoad
INVARIANT StreamsPartitioned
INVARIANT PanicsPastLimits
PROPERTY Returns
PROPERTY ImplementsAssembly
CHECK_DEADLOCK FALSE
