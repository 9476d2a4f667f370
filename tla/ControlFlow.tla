---------------------------- MODULE ControlFlow ----------------------------
(***************************************************************************)
(* Reference definitions on a control-flow graph given by the successor    *)
(* vectors of its blocks.  Reachability is defined by closed sets rather   *)
(* than by recursion, so that it can be reasoned about without induction.  *)
(***************************************************************************)
EXTENDS GraphNode

\* No edge leaves S, except from the blocks in Cut.
ClosedExcept(succ, S, Cut) ==
    \A u \in S \ Cut : ToSet(succ[u]) \subseteq S

Closed(succ, S) == \A u \in S : ToSet(succ[u]) \subseteq S

\* The blocks reachable from u, u included.
ReachFrom(succ, u) ==
    {v \in DOMAIN succ :
        \A S \in SUBSET DOMAIN succ : u \in S /\ Closed(succ, S) => v \in S}

\* The blocks reachable from u along paths whose blocks before the last are
\* not in Cut (nothing is left through a block of Cut).
ReachAvoiding(succ, u, Cut) ==
    {v \in DOMAIN succ :
        \A S \in SUBSET DOMAIN succ :
            u \in S /\ ClosedExcept(succ, S, Cut) => v \in S}

\* d is on every path from root to v (v reachable from root).
Dominates(succ, root, d, v) ==
    d = v \/ v \notin ReachAvoiding(succ, root, {d})

StrictlyDominates(succ, root, d, v) == d # v /\ Dominates(succ, root, d, v)

\* The strict dominator of v that all other strict dominators dominate.
IsImmediateDominator(succ, root, d, v) ==
    /\ StrictlyDominates(succ, root, d, v)
    /\ \A c \in ReachFrom(succ, root) :
          StrictlyDominates(succ, root, c, v) => Dominates(succ, root, c, d)

\* v and the blocks on the way from v to the root of its tree, where each block
\* but the root has a parent in the domain of the function parent.
UpClosed(parent, S) == \A u \in S : parent[u] \in DOMAIN parent => parent[u] \in S

UpFrom(parent, v) ==
    {u \in DOMAIN parent :
        \A S \in SUBSET DOMAIN parent : v \in S /\ UpClosed(parent, S) => u \in S}

\* A block that can reach itself again lies on a cycle; an edge u -> v on no
\* cycle is one whose target cannot reach its source.
OnCycle(succ, u, v) == u \in ReachFrom(succ, v)
=============================================================================
