--------------------------- MODULE MCIRGraphEdges ---------------------------
(* Small instances of IRGraphEdges: the blocks are interchangeable.        *)
EXTENDS IRGraphEdges

BlockSymmetry == Permutations(BasicBlocks)
=============================================================================
