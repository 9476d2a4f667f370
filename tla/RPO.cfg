\* Unreachable blocks, cycles, double edges, and all shapes of four blocks.
SPECIFICATION FairSpec
CONSTANTS
    Blocks <- Blocks4
    Root <- Entry
    Cfgs <- UpToFour
INVARIANTS IInv EdgesGoForward DominatorsComeFirst
PROPERTY Terminates
