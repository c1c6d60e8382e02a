SPECIFICATION Spec
CONSTANTS
    Servers <- MCServers
    ServerIds <- MCServerIds
    Winter = "winter.mp3"
    Files <- MCFiles
    Histories <- MCHistories
    Under <- MCUnder
    Num <- MCNum
    Ids <- MCIds
    Dirs <- MCDirs
    MaxOps = 4
    Tokens <- MCTokens
    Empty = ""
    Null = "null"
    Glued = "v"
    Cut <- MCCut
INVARIANTS DataFollowsServer 
PROPERTIES GoesWhereUsed EntitiesMade
CHECK_DEADLOCK FALSE
