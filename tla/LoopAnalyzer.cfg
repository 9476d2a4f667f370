\* Two calls of Run on every small graph.
SPECIFICATION FairSpec
CONSTANTS
    Blocks <- Blocks5
    Root <- Entry
    Null = null
    Cfgs <- UpToFive
INVARIANTS TypeOK LoopsAreNatural TreeIsNesting OwnLoopContainsBlock
PROPERTY Terminates
