\* The stub's boot pipeline: safety of the boot decision, measurement,
\* scoping of the initrd device, and termination.
CONSTANTS
    pk = pk
    pi = pi
    b1 = b1
    b2 = b2
    c1 = c1
    cHuge = cHuge
    Absent = Absent
    NoFile = NoFile
    NoValue = NoValue
    Paths <- MCPaths
    Blobs <- MCBlobs
    Cmdlines <- MCCmdlines
    HugeCmdlines <- MCHugeCmdlines
    Digest <- MCDigest
SPECIFICATION Spec
INVARIANTS
    TypeOK
    SecureBootIntegrity
    MeasuredBeforeControl
    InitrdDeviceScoped
PROPERTIES
    ImplementsBootDecision
CHECK_DEADLOCK FALSE
