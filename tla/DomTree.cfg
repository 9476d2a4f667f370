\* One run on every family of small graphs, and two on sparse ones with an edge
\* added or removed in between.
SPECIFICATION FairSpec
CONSTANTS
    Blocks <- Blocks6
    Root <- Entry
    Null = null
    Cfgs <- OnceAndTwice
INVARIANTS TypeOK ThrowsExactlyOn SemidominatorsCorrect IdomsDominate TreeAnswersDominance ListsNeverMissDominance IsDominatedEnds
PROPERTY Terminates
