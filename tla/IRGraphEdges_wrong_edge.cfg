\* RemoveEdge of an edge that is not stored last.
SPECIFICATION Spec
CONSTANTS
    BasicBlocks = {bb1, bb2, bb3}
    Null = null
    FreshBegin = TRUE
    LastOnly = FALSE
    MaxSucc = 3
    MaxPredec = 3
SYMMETRY BlockSymmetry
INVARIANT RemovesTheRequestedEdge
