SPECIFICATION ListingsSpec
CONSTANTS
    Tokens = {x, y, Empty, Null}
    Empty = Empty
    Null = Null
    Cut <- MCCut
    Listable = {x, y}
    MaxTokens = 4
INVARIANTS SubtractRight IntersectionsAgree 
SYMMETRY Swaps
