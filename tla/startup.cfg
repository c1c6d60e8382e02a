SPECIFICATION FairSpec
CONSTANTS
    Servers = 2
    Lines = 3
    FileInRoot = TRUE
    MaxLaunches = 3
INVARIANTS LoadedOnce SetupMeansLoaded ConnectionOutlivesLoad
PROPERTIES LoadCompletes FaultsInterruptNothing
CHECK_DEADLOCK FALSE
