-------------------------------- MODULE RPO --------------------------------
(***************************************************************************)
(* RPO::Run: a depth-first walk from the root that appends each block to   *)
(* rpo_ when its recursive call returns, followed by a reversal of the     *)
(* whole vector.  The call stack of RPO::DFS is the variable stack; a      *)
(* frame holds the block and the position of its successor iterator.       *)
(***************************************************************************)
EXTENDS ControlFlow

CONSTANTS Blocks, Root,
          Cfgs       \* the graphs walked: functions to successor vectors

ASSUME CfgAssumption ==
    /\ Root \in Blocks
    /\ Cfgs \subseteq [Blocks -> Seq(Blocks)]

VARIABLES succ,      \* the graph, constant during a run
          visited,   \* the local set of Run
          stack,     \* activations of DFS, innermost last
          rpo,       \* rpo_
          pc         \* "start", "dfs", "reverse" or "done"

vars == <<succ, visited, stack, rpo, pc>>

Frames == [node : Blocks, it : Nat \ {0}]

TypeOK ==
    /\ succ \in Cfgs
    /\ visited \subseteq Blocks
    /\ stack \in Seq(Frames)
    /\ rpo \in Seq(Blocks)
    /\ pc \in {"start", "dfs", "reverse", "done"}

Init ==
    /\ succ \in Cfgs
    /\ visited = {}
    /\ stack = <<>>
    /\ rpo = <<>>
    /\ pc = "start"

Depth == Len(stack)
Top == stack[Depth]

Enter(node) == [node |-> node, it |-> 1]
Advanced == [stack EXCEPT ![Depth].it = @ + 1]

\* Run calls DFS on the root with an empty visited set.
Run ==
    /\ pc = "start"
    /\ visited' = {Root}
    /\ stack' = <<Enter(Root)>>
    /\ pc' = "dfs"
    /\ UNCHANGED <<succ, rpo>>

\* The iterator of the innermost activation is not at the end.
AtSuccessor == pc = "dfs" /\ Top.it <= Len(succ[Top.node])
Successor == succ[Top.node][Top.it]

\* DFS calls itself on a successor not visited yet.
Descend ==
    /\ AtSuccessor
    /\ Successor \notin visited
    /\ visited' = visited \cup {Successor}
    /\ stack' = Append(Advanced, Enter(Successor))
    /\ UNCHANGED <<succ, rpo, pc>>

\* Mutants: a visited successor restarts the loop over the successors, or
\* ends it.
PassOverRestarts ==
    /\ AtSuccessor
    /\ Successor \in visited
    /\ stack' = [stack EXCEPT ![Depth].it = 1]
    /\ UNCHANGED <<succ, visited, rpo, pc>>

PassOverBreaks ==
    /\ AtSuccessor
    /\ Successor \in visited
    /\ stack' = [stack EXCEPT ![Depth].it = Len(succ[Top.node]) + 1]
    /\ UNCHANGED <<succ, visited, rpo, pc>>

\* A successor already visited is passed over.
PassOver ==
    /\ AtSuccessor
    /\ Successor \in visited
    /\ stack' = Advanced
    /\ UNCHANGED <<succ, visited, rpo, pc>>

\* The end of DFS: the block is appended and the caller goes on.
Return ==
    /\ pc = "dfs"
    /\ Top.it > Len(succ[Top.node])
    /\ rpo' = Append(rpo, Top.node)
    /\ stack' = Front(stack)
    /\ pc' = IF Depth = 1 THEN "reverse" ELSE "dfs"
    /\ UNCHANGED <<succ, visited>>

\* Mutants: nothing is reversed, or all but the first block is.
ReverseNothing ==
    /\ pc = "reverse"
    /\ pc' = "done"
    /\ UNCHANGED <<succ, visited, stack, rpo>>

ReverseFromSecond ==
    /\ pc = "reverse"
    /\ rpo' = <<Head(rpo)>> \o Reverse(Tail(rpo))
    /\ pc' = "done"
    /\ UNCHANGED <<succ, visited, stack>>

\* std::reverse over the whole vector.
ReverseAll ==
    /\ pc = "reverse"
    /\ rpo' = Reverse(rpo)
    /\ pc' = "done"
    /\ UNCHANGED <<succ, visited, stack>>

\* The run has returned.
Returned == pc = "done" /\ UNCHANGED vars

Next == Run \/ Descend \/ PassOver \/ Return \/ ReverseAll \/ Returned

Spec == Init /\ [][Next]_vars
FairSpec == Spec /\ WF_vars(Next)

-----------------------------------------------------------------------------
Reachable == ReachFrom(succ, Root)

\* u is at an earlier position than v.
Before(s, u, v) == \E i, j \in DOMAIN s : i < j /\ s[i] = u /\ s[j] = v

\* The result lists every block reachable from the root once and no other:
\* blocks that only sit in bb_set_ are left out.
ListsReachableOnce ==
    pc = "done" => ToSet(rpo) = Reachable /\ NoDuplicates(rpo)

\* The order analyses rely on: the source of an edge comes before its target
\* unless the edge closes a cycle.
EdgesGoForward ==
    pc = "done" =>
        \A u \in Reachable : \A v \in ToSet(succ[u]) :
            Before(rpo, u, v) \/ OnCycle(succ, u, v)

\* Every block comes after all its strict dominators, cycles or not, so a
\* forward pass meets the dominator first.
DominatorsComeFirst ==
    pc = "done" =>
        \A d, v \in Reachable :
            StrictlyDominates(succ, Root, d, v) => Before(rpo, d, v)

\* The walk ends, on cyclic graphs too.
Terminates == <>(pc = "done")

-----------------------------------------------------------------------------
(* The inductive invariant.                                                *)

Active == {stack[i].node : i \in DOMAIN stack}
Finished == ToSet(rpo)

\* Each visited block is active or finished, never both, never twice.
VisitedSplit ==
    /\ visited = Active \cup Finished
    /\ Active \cap Finished = {}
    /\ NoDuplicates(rpo)
    /\ \A i, j \in DOMAIN stack : stack[i].node = stack[j].node => i = j

\* An activation's block is reachable from the block of every outer one.
ActiveChain ==
    \A i, j \in DOMAIN stack :
        i <= j => stack[j].node \in ReachFrom(succ, stack[i].node)

VisitedReachable == visited \subseteq Reachable

\* Successors already passed by an iterator have been visited.
PassedVisited ==
    \A i \in DOMAIN stack : \A k \in DOMAIN succ[stack[i].node] :
        k < stack[i].it => succ[stack[i].node][k] \in visited

\* Successors of a finished block have been visited; one finished later
\* leads back to it.
FinishedOrder ==
    \A u \in Finished : \A v \in ToSet(succ[u]) :
        v \in visited /\ (Before(rpo, v, u) \/ OnCycle(succ, u, v))

\* The active blocks are a path from the root: one that d is not on shows that
\* d does not dominate where it ends.
ActivePathAvoids ==
    \A i \in DOMAIN stack : \A d \in Blocks :
        (\A j \in 1 .. i - 1 : stack[j].node # d) =>
            stack[i].node \in ReachAvoiding(succ, Root, {d})

\* A strict dominator of a finished block is active or finished later.
DominatorsOpen ==
    \A v \in Finished : \A d \in Blocks :
        StrictlyDominates(succ, Root, d, v) => d \in Active \/ Before(rpo, v, d)

Walking ==
    /\ VisitedSplit
    /\ ActiveChain
    /\ VisitedReachable
    /\ PassedVisited
    /\ FinishedOrder
    /\ ActivePathAvoids
    /\ DominatorsOpen

IInv ==
    /\ TypeOK
    /\ pc = "start" => visited = {} /\ stack = <<>> /\ rpo = <<>>
    /\ pc = "dfs" => Walking /\ stack # <<>> /\ Root \in visited
    /\ pc = "reverse" => Walking /\ stack = <<>> /\ Root \in visited
    /\ pc = "done" => ListsReachableOnce /\ EdgesGoForward /\ DominatorsComeFirst
=============================================================================
