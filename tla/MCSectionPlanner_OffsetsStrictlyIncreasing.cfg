\* lanzaboote_image over every stub table, file size and build profile of
\* MCSectionPlanner, with every temporary write, parse, metadata read and
\* objcopy run succeeding or failing.
CONSTANTS
    NotUnderEsp = NotUnderEsp
    NoHeader = NoHeader
    NoValue = NoValue
    Width <- MCWidth
    ImageBases <- MCImageBases
    SectionTables <- MCSectionTables
    OsReleaseSizes <- MCOsReleaseSizes
    TokenLens <- MCTokenLens
    MaxTokens <- MCMaxTokens
    RelPathLens <- MCRelPathLens
    InitrdSizes <- MCInitrdSizes
SPECIFICATION Spec
INVARIANT OffsetsStrictlyIncreasing
CHECK_DEADLOCK FALSE
