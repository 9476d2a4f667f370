---------------------------- MODULE SmallGraphs ----------------------------
(***************************************************************************)
(* Families of small control-flow graphs for TLC, on the blocks 1..n with  *)
(* entry block 1.  A block has at most two successors, as AddEdge allows;  *)
(* a conditional jump to the next instruction makes them the same block.   *)
(***************************************************************************)
EXTENDS Naturals, Sequences, FiniteSets, SequencesExt

SuccVectors(n) == {<<>>} \cup {<<v>> : v \in 1..n} \cup ((1..n) \X (1..n))
PlainVectors(n) == {s \in SuccVectors(n) : Len(s) = 2 => s[1] # s[2]}

AllGraphs(n) == [1..n -> SuccVectors(n)]
PlainGraphs(n) == [1..n -> PlainVectors(n)]

\* The places where v is named as a successor by a lower-numbered block.
Discoveries(g, v) ==
    {2 * e[1] + e[2] : e \in {d \in (1 .. v - 1) \X {1, 2} :
                                d[2] <= Len(g[d[1]]) /\ g[d[1]][d[2]] = v}}

\* The blocks are numbered in the order a breadth-first search meets them:
\* one graph for each way of naming the blocks, and none with an unreachable
\* block.
BreadthFirst(g) ==
    /\ \A v \in DOMAIN g \ {1} : Discoveries(g, v) # {}
    /\ \A v \in DOMAIN g \ {1, 2} : Min(Discoveries(g, v - 1)) < Min(Discoveries(g, v))

ReachableGraphs(n) == {g \in PlainGraphs(n) : BreadthFirst(g)}

\* An entry block of its own in front of g, with one edge to g's entry.
Prefixed(g) ==
    [v \in 1 .. Len(g) + 1 |->
        IF v = 1 THEN <<2>> ELSE [i \in DOMAIN g[v - 1] |-> g[v - 1][i] + 1]]

PrefixedGraphs(n) == {Prefixed(g) : g \in ReachableGraphs(n - 1)}

\* g among n blocks: no edge touches the ones g does not have.
Padded(g, n) == [v \in 1..n |-> IF v \in DOMAIN g THEN g[v] ELSE <<>>]
AllPadded(graphs, n) == {Padded(g, n) : g \in graphs}

\* The chain 1 -> 2 -> ... -> n with at most two more edges, from different
\* blocks, each before or after the chain's own edge, the entry left alone.
Link(n, u) == IF u = n THEN <<>> ELSE <<u + 1>>
Widened(n, u) ==
    {Link(n, u)} \cup UNION {{<<v>> \o Link(n, u), Link(n, u) \o <<v>>} : v \in 2..n \ ToSet(Link(n, u))}

ChainGraphs(n) ==
    UNION {{[x \in 1..n |-> IF x = a THEN s ELSE IF x = b THEN t ELSE Link(n, x)] :
                s \in Widened(n, a), t \in Widened(n, b)} :
            a, b \in 2..n}

\* Predecessor vectors as they come out when the blocks are linked to their
\* successors in the given order.
PredecVectors(g, order) ==
    [v \in DOMAIN g |->
        FoldLeft(LAMBDA acc, u :
                    acc \o [i \in 1 .. Cardinality({j \in DOMAIN g[u] : g[u][j] = v}) |-> u],
                 <<>>, order)]

Ascending(n) == [i \in 1..n |-> i]

WithPredecs(g, order) == [succ |-> g, predec |-> PredecVectors(g, order)]

\* Each graph with its blocks linked first to last, and last to first.
BothOrders(graphs, n) ==
    {WithPredecs(g, order) : g \in graphs, order \in {Ascending(n), Reverse(Ascending(n))}}
OneOrder(graphs, n) == {WithPredecs(g, Ascending(n)) : g \in graphs}
=============================================================================
