\* Checks CompanionsDelivered alone; TLC is expected to report it violated.
CONSTANTS
    pk = pk
    pi = pi
    b1 = b1
    b2 = b2
    c1 = c1
    cHuge = cHuge
    Absent = Absent
    NoFile = NoFile
    NoValue = NoValue
    Paths <- MCPaths
    Blobs <- MCBlobs
    Cmdlines <- MCCmdlines
    HugeCmdlines <- MCHugeCmdlines
    Digest <- MCDigest
SPECIFICATION Spec
INVARIANT CompanionsDelivered
CHECK_DEADLOCK FALSE
