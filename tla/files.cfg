SPECIFICATION Spec
CONSTANTS
    Threads = {t1, t2}
    Files <- MCFiles
    Type <- MCType
    Known = "im7"
    Value <- MCValue
    Experiment = "7"
    Server = "test1"
    ServerId = "test2"
    Dirs <- MCDirs
    Ids <- MCIds
    MaxOps = 4
    MaxOverlaps = 1
    Tokens <- MCTokens
    Empty = ""
    Null = "null"
    Glued = "vtags"
    Cut <- MCCut
INVARIANTS TypeOK OneEntityPerName   SelectorsLead 
CHECK_DEADLOCK FALSE
SYMMETRY Swaps
