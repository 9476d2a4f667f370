\* A root with two successors, one leading to the other.
SPECIFICATION FairSpec
CONSTANTS
    Blocks <- Blocks4
    Root <- Entry
    Null = null
    Cfgs <- Reachable4
INVARIANT BuildsDominatorTree
