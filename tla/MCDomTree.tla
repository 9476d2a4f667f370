----------------------------- MODULE MCDomTree -----------------------------
(* Small graphs for DomTree.                                               *)
EXTENDS DomTree, SmallGraphs

Blocks4 == 1..4
Blocks6 == 1..6
Entry == 1

\* The graphs with n runs on each and up to m edits among 1..b in between.
Planned(graphs, n, m, b) ==
    {[succ |-> g.succ, predec |-> g.predec, runs |-> n, edits |-> m, among |-> 1..b] : g \in graphs}

Reachable4 == Planned(BothOrders(ReachableGraphs(4), 4), 1, 0, 0)

\* Every graph of three blocks, with the predecessors in two orders; every
\* graph of four reachable blocks, alone and with an entry block in front; and
\* chains of six blocks with two more edges, where paths are long enough to be
\* compressed.
UpToSix ==
    BothOrders(AllPadded(AllGraphs(3), 6), 6)
        \cup OneOrder(AllPadded(ReachableGraphs(4) \cup PrefixedGraphs(5), 6), 6)
        \cup OneOrder(ChainGraphs(6), 6)

\* Graphs of four blocks with few edges, which an added one turns into
\* anything, and graphs of three with a block for the added edge to reach.
EdgeCount(g) == FoldFunction(LAMBDA s, n : Len(s) + n, 0, g)
Sparse == {g \in ReachableGraphs(4) : EdgeCount(g) \in {3, 4}} \cup ReachableGraphs(3)

\* One run on each of the former, and two on each of the latter with an edit
\* before the second; on three blocks with up to two edits.
OnceAndTwice ==
    Planned(UpToSix, 1, 0, 0)
        \cup Planned(OneOrder(AllPadded(Sparse, 6), 6), 2, 1, 4)
        \cup Planned(BothOrders(AllPadded(ReachableGraphs(3), 6), 6), 2, 2, 3)
=============================================================================
