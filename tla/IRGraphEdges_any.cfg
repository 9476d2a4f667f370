\* Any sequence of calls on two blocks, any block prepended.
SPECIFICATION Spec
CONSTANTS
    BasicBlocks = {bb1, bb2}
    Null = null
    FreshBegin = FALSE
    LastOnly = FALSE
    MaxSucc = 3
    MaxPredec = 4
SYMMETRY BlockSymmetry
INVARIANT TypeOK
PROPERTIES OnlyPrependCrowds RemoveEdgeIntactIffLast ThrowChangesNothingWhenMirrored
