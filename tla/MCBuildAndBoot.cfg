\* A stub built by lanzaboote_image, then booted.
CONSTANTS
    pk = pk
    pi = pi
    b1 = b1
    b2 = b2
    c1 = c1
    cHuge = cHuge
    NotUnderEsp = NotUnderEsp
    NoHeader = NoHeader
    Absent = Absent
    NoFile = NoFile
    NoValue = NoValue
    Width <- MCWidth
    ImageBases <- MCImageBases
    SectionTables <- MCSectionTables
    OsReleaseSizes <- MCOsReleaseSizes
    TokenLens <- MCTokenLens
    MaxTokens <- MCMaxTokens
    RelPathLens <- MCRelPathLens
    InitrdSizes <- MCInitrdSizes
    Paths <- MCPaths
    Blobs <- MCBlobs
    Cmdlines <- MCCmdlines
    HugeCmdlines <- MCHugeCmdlines
    Digest <- MCDigest
SPECIFICATION Spec
INVARIANT BuiltImageExtracts
CHECK_DEADLOCK FALSE
