SPECIFICATION IdFairSpec
CONSTANTS
    Threads = {comm}
    LastId = LastId
    ValCol = ValCol
    NameCol = NameCol
    Files = {a, b}
    MaxIds = 3
    Entities <- MCEntities
    Attrs <- MCAttrs
    Vals <- MCVals
    Tokens <- MCTokens
    Empty = Empty
    Null = Null
    Cut <- MCCut
    MaxCalls = 20
    MaxCrashes = 2
INVARIANTS SharedOnlyAfterReset CounterCovers
PROPERTIES NamesRecorded
CHECK_DEADLOCK FALSE
