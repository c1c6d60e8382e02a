SPECIFICATION Spec
CONSTANTS
    s1 = s1
    s2 = s2
    Senders = {s1, s2}
    Serves <- MCServes
    Files <- MCFiles
    Depth <- MCDepth
    Dir <- MCDir
    Above <- MCAbove
    DirLen <- MCDirLen
    NameLen <- MCNameLen
    Full <- MCFull
    Shared <- MCShared
    Patterns = 3
INVARIANTS TypeOK ExperimentIds CopySeen NoCopyLeft
PROPERTIES AllRecorded
CHECK_DEADLOCK FALSE
