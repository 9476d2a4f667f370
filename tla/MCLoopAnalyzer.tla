--------------------------- MODULE MCLoopAnalyzer ---------------------------
(* Small graphs for LoopAnalyzer.                                          *)
EXTENDS LoopAnalyzer, SmallGraphs

Blocks5 == 1..5
Entry == 1

\* The graphs with n runs on each.
Planned(graphs, n) ==
    {[succ |-> g.succ, predec |-> g.predec, runs |-> n, edits |-> 0, among |-> {}] : g \in graphs}

Prefixed5 == Planned(OneOrder(PrefixedGraphs(5), 5), 1)

\* Every graph of three blocks, and an entry block in front of every graph of
\* four reachable blocks.
UpToFive == Planned(OneOrder(AllPadded(AllGraphs(3), 5) \cup PrefixedGraphs(5), 5), 2)
=============================================================================
