\* trusted_stub_parameters on every request over two store paths, two
\* command-line items and command lines of length 0..3, every allow-list.
CONSTANTS
    p1 = p1
    p2 = p2
    t1 = t1
    t2 = t2
    NoList = NoList
    NoValue = NoValue
    StorePaths <- MCStorePaths
    Tokens <- MCTokens
    MaxCmdline <- MCMaxCmdline
SPECIFICATION Spec
INVARIANTS DecisionCorrect
CHECK_DEADLOCK FALSE
