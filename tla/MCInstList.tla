----------------------------- MODULE MCInstList -----------------------------
(* Graphs of at most three instructions for InstList.                      *)
EXTENDS InstList, SmallGraphs

\* The instructions of one graph in their blocks, linked in some order, with no
\* edges to spare blocks.
LaidOut(owner, graphs) ==
    {[owner |-> owner, graph |-> [bb \in ToSet(owner) |-> 1], succ |-> g.succ, predec |-> g.predec] :
        g \in BothOrders(AllPadded(graphs, MaxBBs), MaxBBs)}

\* Up to two blocks with every choice of edges, and a block in the middle.
SmallLayouts ==
    UNION {LaidOut(owner, ReachableGraphs(Last(owner))) :
              owner \in {<<1>>, <<1, 1>>, <<1, 2, 2>>, <<1, 1, 2>>}}
    \cup LaidOut(<<>>, {<<>>})
    \cup LaidOut(<<1, 2, 3>>, {<<<<2>>, <<3>>, <<>>>>})
=============================================================================
