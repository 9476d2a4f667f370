\* Every sequence of three calls on small graphs.
SPECIFICATION Spec
CONSTANTS
    Layouts <- SmallLayouts
    MaxInsts = 5
    MaxBBs = 4
    MaxGraphs = 1
    MaxCalls = 3
    Wild = wild
INVARIANT TypeOK
PROPERTIES ListIntactIff UndefinedIff SafeEditsDoWhatTheySay SplitMovesEdgesIff OnlySplitLeavesGraph
