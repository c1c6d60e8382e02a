SPECIFICATION Spec
CONSTANTS
    Threads = {comm, fuse}
    Entities <- MCEntities
    Attrs <- MCAttrs
    Vals <- MCVals
    Tokens <- MCTokens
    Empty = ""
    Null = "null"
    Cut <- MCCut
    MaxCalls = 2
    MaxCrashes = 0
INVARIANT Mirror
CHECK_DEADLOCK FALSE
