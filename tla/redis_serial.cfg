SPECIFICATION FairSpec
CONSTANTS
    Threads = {comm}
    Entities <- MCEntities
    Attrs <- MCAttrs
    Vals <- MCVals
    Tokens <- MCTokens
    Empty = ""
    Null = "null"
    Cut <- MCCut
    MaxCalls = 4
    MaxCrashes = 1
INVARIANT Mirror
PROPERTIES OnlyRemoveForgets ViewsCatchUp ImplementsIndex
CHECK_DEADLOCK FALSE
