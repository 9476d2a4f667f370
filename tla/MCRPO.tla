------------------------------- MODULE MCRPO -------------------------------
(* Small graphs for RPO: every graph of three blocks, next to one that no  *)
(* edge touches, and every graph of four reachable blocks.                 *)
EXTENDS RPO, SmallGraphs

Blocks4 == 1..4
Entry == 1

UpToFour == AllPadded(AllGraphs(3), 4) \cup ReachableGraphs(4)
=============================================================================
