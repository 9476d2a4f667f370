\* Every list of at most four instructions with its targets flagged, or (of four:
\* without ja) with any flags, and straight code of five, copied up to twice when
\* it has no jump.
SPECIFICATION Spec
CONSTANTS
    Programs <- UpToFive
    MaxInstInBB = 2
    MaxCopies = 2
INVARIANTS TypeOK EdgesAreControlFlow BlocksTileTheList EdgesExactIffTargetsBegin
