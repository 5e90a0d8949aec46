CONSTANTS
    W <- MCW
    HostLens <- MCHostLens
    DefaultHostLen <- MCDefaultHostLen
    MaxEntries = 2
SPECIFICATION Spec
INVARIANT ParserMatchesReference
PROPERTY StartupRefinement
CHECK_DEADLOCK FALSE
