\* Callers and callees of a few instructions each.
SPECIFICATION FairSpec
CONSTANTS
    Programs <- SmallPrograms
    MaxInsts = 20
    MaxBBs = 24
    MaxGraphs = 6
    MaxInstInBB = 10
    Wild = wild
INVARIANTS TypeOK MeaningKept OutcomeExact ListSplicedIff EdgesInStep DestructionSafeIff
PROPERTY Terminates
