\* A copied graph next to its original.
SPECIFICATION Spec
CONSTANTS
    Programs <- StraightUpToFive
    MaxInstInBB = 2
    MaxCopies = 1
INVARIANT CopiesShareNothing
