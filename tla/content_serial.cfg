SPECIFICATION CacheSpec
CONSTANTS
    Threads = {fuse}
    Tokens = {x, y, Empty, Null}
    Empty = Empty
    Null = Null
    Cut <- MCCut
    Texts <- MCTexts
INVARIANT SearchesOwnText
