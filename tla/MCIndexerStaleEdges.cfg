SPECIFICATION Spec
CONSTANTS
    a = a
    b = b
    d = d
    t = t
    Files <- MCFiles
    Rank <- MCRank
    Config <- MCConfig
    Versions <- MCVersions
    Start <- MCStart
    Requested <- MCRequested
    MaxEdits = 2
    MaxCalls = 2
    MaxBreaks = 1
INVARIANT
    RefreshedEdgesAreCurrent
CHECK_DEADLOCK FALSE
