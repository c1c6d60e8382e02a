SPECIFICATION Spec
CONSTANTS
    c1 = c1
    c2 = c2
    v1 = v1
    v2 = v2
    Cols = {c1, c2}
    Vals = {v1, v2}
    Ids <- MCIds
    LastId = LastId
    Val = Val
    MaxOps = 5
INVARIANTS TypeOK   
CHECK_DEADLOCK FALSE
SYMMETRY Swaps
