----------------------- MODULE LoopAnalyzerInvariant -----------------------
(***************************************************************************)
(* Why the loops of LoopAnalyzer are the natural loops: what holds in each *)
(* phase on a reducible graph whose back edges start in the loop they      *)
(* close.                                                                  *)
(***************************************************************************)
EXTENDS LoopAnalyzer

\* The graphs the two properties are about.
Orderly == WellTreed /\ Reducible /\ SourcesInnermost

\* A block that points to a loop points to the innermost one around it.
Located ==
    \A b \in Blocks : loop[b] # Null => b \in Reachable /\ HeaderOf(b) = Innermost(b, Headers)

\* Each loop but the root loops is the only one with its header, and knows
\* back edges only.
OnePerHeader ==
    \A i \in Loops : loops[i].header # Null =>
        /\ loops[i].header \in Headers
        /\ loop[loops[i].header] = i
        /\ loops[i].reducible
        /\ loops[i].back \subseteq Sources(loops[i].header)

Recorded(u, h) == loop[h] # Null /\ u \in loops[loop[h]].back
AllRecorded == \A h \in Headers : \A u \in Sources(h) : Recorded(u, h)

\* The DFS: the blocks on the stack are a path of forward edges from the root,
\* with every dominator of its end on it, and every back edge the walk has
\* passed is recorded.
ForwardClosed(S) == \A u \in S : \A v \in ToSet(succ[u]) : IsBackEdge(u, v) \/ v \in S
Handled(u, v) == v \in marked /\ (IsBackEdge(u, v) => Recorded(u, v))
OnStack(b) == \E j \in DOMAIN stack : stack[j].node = b

GrayPath ==
    /\ \A b \in Blocks : b \in grays <=> OnStack(b)
    /\ \A i, j \in DOMAIN stack : stack[i].node = stack[j].node => i = j
    /\ \A i, j \in DOMAIN stack : \A S \in SUBSET Blocks :
          i <= j /\ ForwardClosed(S) /\ stack[i].node \in S => stack[j].node \in S
    /\ \A i \in DOMAIN stack : \A d \in Blocks :
          (\A j \in 1 .. i - 1 : stack[j].node # d) =>
              stack[i].node \in ReachAvoiding(succ, Root, {d})

Searched ==
    /\ Root \in marked /\ grays \subseteq marked /\ marked \subseteq Reachable
    /\ \A j \in DOMAIN stack : \A m \in DOMAIN succ[stack[j].node] :
          m < stack[j].it => Handled(stack[j].node, succ[stack[j].node][m])
    /\ \A b \in marked \ grays : \A v \in ToSet(succ[b]) : Handled(b, v)

\* CollectLoops: a loop further back in the order is complete.
InLoop(h, b) == loop[b] # Null /\ (b \in Headers \ {h} => loops[loop[b]].predec # <<>>)
Complete(h) == \A b \in NaturalLoop(h) : InLoop(h, b)
Collected == \A j \in at + 1 .. Len(rpo) : rpo[j] \in Headers => Complete(rpo[j])

Ordered ==
    /\ ToSet(rpo) = Reachable /\ NoDuplicates(rpo)
    /\ \A d, v \in Reachable : StrictlyDominates(succ, Root, d, v) => Order!Before(rpo, d, v)

\* The walk that fills the loop of h.
Filling(h) ==
    /\ h \in Headers /\ h \in marked /\ marked \subseteq NaturalLoop(h)
    /\ todo \subseteq Sources(h) /\ Sources(h) \subseteq marked \cup todo
    /\ \A b \in marked : InLoop(h, b)
    /\ \A j \in DOMAIN stack :
          /\ stack[j].node \in marked \ {h}
          /\ \A m \in DOMAIN predec[stack[j].node] :
                m < stack[j].it => predec[stack[j].node][m] \in marked
    /\ \A b \in marked \ {h} : ToSet(predec[b]) \subseteq marked \/ OnStack(b)

\* The edges between the loops, in the first run.
ParentLoop(h) == IF ParentOf(h) = Null THEN tree_root ELSE loop[ParentOf(h)]
Unnested == \A i \in Loops : loops[i].succ = <<>> /\ loops[i].predec = <<>>
Hanging ==
    /\ MirroredEdges([i \in Loops |-> loops[i].succ], [i \in Loops |-> loops[i].predec])
    /\ \A h \in Headers : loops[loop[h]].predec \in {<<>>, <<ParentLoop(h)>>}
HungInRoot(h) == loops[loop[h]].predec # <<>>

NestingInv ==
    /\ pc \in {"start", "domtree", "dfs", "rpo"} => Unnested
    /\ pc \in {"collect", "fill", "root", "assign", "done"} => Hanging
    /\ pc \in {"collect", "fill", "root"} =>
          \A h \in Headers : ParentOf(h) = Null => loops[loop[h]].predec = <<>>
    /\ pc = "assign" => \A j \in 1 .. Len(rpo) : j < at /\ rpo[j] \in Headers => HungInRoot(rpo[j])
    /\ pc = "done" => \A h \in Headers : HungInRoot(h)

\* What the dominator tree is for: Run has not thrown, and the lists in the
\* blocks know every dominance.
TreeAnswers == tree_pc = "done" => ~Tree!HasUnreachablePredec /\ Tree!ListsNeverMissDominance

\* The graph is the one Run was given.
GraphGiven == \E g \in Cfgs : succ = g.succ /\ predec = g.predec

\* The conjuncts for all phases first, then what each phase adds; how the loops
\* hang is said of the first run.
NaturalInv ==
    /\ GraphGiven
    /\ Located /\ OnePerHeader
    /\ pc \notin {"start", "domtree", "threw"} => tree_pc = "done"
    /\ pc # "start" => runs > 0
    /\ pc \in {"rpo", "collect"} => stack = <<>>
    /\ pc = "dfs" => GrayPath /\ Searched
    /\ pc \in {"rpo", "collect", "fill", "root", "assign", "done"} => AllRecorded
    /\ pc \in {"collect", "fill", "root", "assign"} => Ordered
    /\ pc \in {"collect", "fill"} => Collected
    /\ pc = "fill" => Filling(rpo[at])
    /\ pc \in {"root", "assign", "done"} => \A h \in Headers : Complete(h)
    /\ pc \in {"root", "assign"} => tree_root # Null /\ loops[tree_root].header = Null
    /\ runs <= 1 => NestingInv

\* The inductive invariant of the two properties.
Natural == Orderly => NaturalInv
=============================================================================
