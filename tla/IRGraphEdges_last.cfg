\* Only edges stored last are removed: the promised graph is kept.
SPECIFICATION Spec
CONSTANTS
    BasicBlocks = {bb1, bb2, bb3}
    Null = null
    FreshBegin = TRUE
    LastOnly = TRUE
    MaxSucc = 3
    MaxPredec = 3
SYMMETRY BlockSymmetry
INVARIANT Mirrored
PROPERTY ImplementsEdgeSet
