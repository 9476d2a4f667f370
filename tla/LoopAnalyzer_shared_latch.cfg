\* A block with back edges to an inner and an outer header.
SPECIFICATION FairSpec
CONSTANTS
    Blocks <- Blocks5
    Root <- Entry
    Null = null
    Cfgs <- Prefixed5
INVARIANT TreeHoldsEveryLoop
