---------------------------- MODULE IRGraphEdges ----------------------------
(***************************************************************************)
(* The control-flow edges of an IRGraph and the calls that change them.    *)
(* The graph keeps the set of its blocks and the entry block; the edges    *)
(* themselves live in the blocks, as a vector of successors and a vector   *)
(* of predecessors (GraphNode).  The instruction list the blocks cut into  *)
(* pieces is no concern of these calls, except for the splice done by      *)
(* AddBBToBegin, which touches no edge.                                    *)
(***************************************************************************)
EXTENDS GraphNode

CONSTANTS BasicBlocks,   \* every BasicBlock object the client may own
          Null,          \* nullptr
          FreshBegin,    \* the client gives AddBBToBegin only unlinked blocks
          LastOnly,      \* the client removes only edges stored last
          MaxSucc,       \* bound on the length of a successor vector
          MaxPredec      \* bound on the length of a predecessor vector

ASSUME ContractAssumption ==
    /\ Null \notin BasicBlocks
    /\ FreshBegin \in BOOLEAN
    /\ LastOnly \in BOOLEAN
    /\ MaxSucc \in Nat
    /\ MaxPredec \in Nat

VARIABLES bb_set,   \* IRGraph::bb_set_
          root,     \* IRGraph::root_
          succ,     \* succ_ of every block
          predec,   \* predec_ of every block
          call      \* the last call made and whether it threw

edgeVars == <<succ, predec>>
vars == <<bb_set, root, succ, predec, call>>

MaybeBlock == BasicBlocks \cup {Null}

Calls == [op : {"IRGraph", "AddBBInGraph", "AddBBToBegin", "AddEdge", "RemoveEdge"},
          from : MaybeBlock, to : MaybeBlock, threw : BOOLEAN]

Returns(op, from, to) == call' = [op |-> op, from |-> from, to |-> to, threw |-> FALSE]
Throws(op, from, to) == call' = [op |-> op, from |-> from, to |-> to, threw |-> TRUE]

TypeOK ==
    /\ bb_set \subseteq BasicBlocks
    /\ root \in bb_set \cup {Null}
    /\ succ \in [BasicBlocks -> Seq(BasicBlocks)]
    /\ predec \in [BasicBlocks -> Seq(BasicBlocks)]
    /\ call \in Calls

\* A graph constructed from an empty instruction list.
Init ==
    /\ bb_set = {}
    /\ root = Null
    /\ succ = [bb \in BasicBlocks |-> <<>>]
    /\ predec = [bb \in BasicBlocks |-> <<>>]
    /\ call = [op |-> "IRGraph", from |-> Null, to |-> Null, threw |-> FALSE]

-----------------------------------------------------------------------------
\* Room for one more entry at each end, under the bounds.
Room(from, to) == Len(succ[from]) < MaxSucc /\ Len(predec[to]) < MaxPredec

\* Mutant: the target is not told of its new predecessor.
AddSuccOnly(from, to) ==
    /\ Room(from, to)
    /\ succ' = PushBack(succ, from, to)
    /\ UNCHANGED predec

AddSuccWithPredec(from, to) ==
    /\ Room(from, to)
    /\ succ' = PushBack(succ, from, to)
    /\ predec' = PushBack(predec, to, from)

AddBBInGraph(bb) ==
    /\ bb_set' = bb_set \cup {bb}
    /\ Returns("AddBBInGraph", bb, Null)
    /\ UNCHANGED <<root, succ, predec>>

\* A block no edge touches, outside the graph.
Fresh(bb) ==
    /\ bb \notin bb_set
    /\ \A u \in BasicBlocks : ~Occurs(succ, u, bb) /\ ~Occurs(predec, u, bb)
    /\ succ[bb] = <<>>
    /\ predec[bb] = <<>>

\* Mutant: the new entry block is not registered in bb_set_.
AddBBToBeginUnregistered(bb) ==
    /\ FreshBegin => Fresh(bb)
    /\ IF root # Null THEN AddSuccWithPredec(bb, root) ELSE UNCHANGED edgeVars
    /\ root' = bb
    /\ Returns("AddBBToBegin", bb, Null)
    /\ UNCHANGED bb_set

\* The new block is linked to the old root without the tests of AddEdge.
AddBBToBegin(bb) ==
    /\ FreshBegin => Fresh(bb)
    /\ IF root # Null THEN AddSuccWithPredec(bb, root) ELSE UNCHANGED edgeVars
    /\ root' = bb
    /\ bb_set' = bb_set \cup {bb}
    /\ Returns("AddBBToBegin", bb, Null)

\* The null test at the top of AddBBToBegin.
AddNullToBegin ==
    /\ Returns("AddBBToBegin", Null, Null)
    /\ UNCHANGED <<bb_set, root, succ, predec>>

\* Mutants: the successors are not counted; a third one is accepted.
UncountedNotRefused(from, to) ==
    \/ ~({from, to} \subseteq bb_set)
    \/ succ[from] # <<>> /\ succ[from][1] = to

ThirdNotRefused(from, to) == ~({from, to} \subseteq bb_set) \/ Occurs(succ, from, to)

\* The three tests of AddEdge, each of which throws.
AddEdgeRefused(from, to) ==
    \/ ~({from, to} \subseteq bb_set)
    \/ Len(succ[from]) = 2
    \/ Len(succ[from]) = 1 /\ succ[from][1] = to

AddEdge(from, to) ==
    /\ UNCHANGED <<bb_set, root>>
    /\ \/ /\ AddEdgeRefused(from, to)
          /\ Throws("AddEdge", from, to)
          /\ UNCHANGED edgeVars
       \/ /\ ~AddEdgeRefused(from, to)
          /\ AddSuccWithPredec(from, to)
          /\ Returns("AddEdge", from, to)

\* The edge is the last entry of both vectors it is stored in.
StoredLast(from, to) ==
    /\ Occurs(succ, from, to)
    /\ Last(succ[from]) = to
    /\ Occurs(predec, to, from)
    /\ Last(predec[to]) = from

\* Mutant: the target keeps its predecessor.
RemoveSuccOnly(from, to) ==
    /\ succ' = PopBack(succ, from)
    /\ UNCHANGED predec
    /\ Returns("RemoveEdge", from, to)

\* RemoveSucc has already popped an entry when RemovePredec throws.
RemoveSuccWithPredec(from, to) ==
    /\ succ' = PopBack(succ, from)
    /\ IF Occurs(predec, to, from)
       THEN predec' = PopBack(predec, to) /\ Returns("RemoveEdge", from, to)
       ELSE UNCHANGED predec /\ Throws("RemoveEdge", from, to)

\* Mutant: nobody asks whether the edge exists.
MissingEdgeNotRefused(from, to) == ~({from, to} \subseteq bb_set)

RemoveEdgeRefused(from, to) ==
    \/ ~({from, to} \subseteq bb_set)
    \/ ~Occurs(succ, from, to)

RemoveEdge(from, to) ==
    /\ UNCHANGED <<bb_set, root>>
    /\ \/ /\ RemoveEdgeRefused(from, to)
          /\ Throws("RemoveEdge", from, to)
          /\ UNCHANGED edgeVars
       \/ /\ ~RemoveEdgeRefused(from, to)
          /\ LastOnly => StoredLast(from, to)
          /\ RemoveSuccWithPredec(from, to)

Next ==
    \/ AddNullToBegin
    \/ \E bb \in BasicBlocks : AddBBInGraph(bb) \/ AddBBToBegin(bb)
    \/ \E from, to \in BasicBlocks : AddEdge(from, to) \/ RemoveEdge(from, to)

Spec == Init /\ [][Next]_vars

-----------------------------------------------------------------------------
\* A conditional branch has two targets: no block ever has a third successor
\* or the same successor twice, through any sequence of additions and (wrong
\* or half-done) removals, as long as AddBBToBegin is given unlinked blocks.
TwoDistinctSuccs ==
    \A bb \in BasicBlocks : Len(succ[bb]) <= 2 /\ NoDuplicates(succ[bb])

\* A link from bb to the root that AddEdge would refuse.
Crowds(bb) == root # Null /\ (Len(succ[bb]) = 2 \/ Occurs(succ, bb, root))

\* Whatever the client prepends, a third or a repeated successor comes from
\* AddBBToBegin only, and exactly from a block that is full, or linked to the
\* root already (the root of a graph that branches to itself, or the same block
\* a second time): AddEdge and the removals, wrong or half-done, make none.
OnlyPrependCrowds ==
    [][ TwoDistinctSuccs
        => (TwoDistinctSuccs' <=>
              ~(call'.op = "AddBBToBegin" /\ call'.from # Null /\ Crowds(call'.from))) ]_vars

\* Everything an edge mentions, at either end, is a block of the graph: the
\* destructor, which deletes bb_set_ only, leaves no edge to a live block.
EdgesStayInGraph ==
    \A u \in BasicBlocks :
        succ[u] # <<>> \/ predec[u] # <<>> =>
            u \in bb_set /\ ToSet(succ[u]) \cup ToSet(predec[u]) \subseteq bb_set

\* The successor and the predecessor vectors describe the same edges.
Mirrored == MirroredEdges(succ, predec)

\* RemoveEdge keeps the two vectors in step exactly when the edge it removes
\* is stored last at both ends; any other removal tears another edge apart.
RemoveEdgeIntactIffLast ==
    [][ /\ call'.op = "RemoveEdge"
        /\ Mirrored
        /\ succ' # succ
        => (Mirrored' <=> StoredLast(call'.from, call'.to)) ]_vars

\* A call that throws leaves the edges as they were, unless an earlier
\* removal has already put the two vectors out of step.
ThrowChangesNothingWhenMirrored ==
    [][call'.threw /\ Mirrored => UNCHANGED edgeVars]_vars

\* What the error messages of RemoveEdge promise: a call for an edge that
\* exists removes that edge, so it is gone when the call has returned.
RemovesTheRequestedEdge ==
    call.op = "RemoveEdge" /\ ~call.threw => ~Occurs(succ, call.from, call.to)

-----------------------------------------------------------------------------
Edges == {e \in BasicBlocks \X BasicBlocks : Occurs(succ, e[1], e[2])}

\* Clients that keep both contracts see the plain graph of EdgeSet.
EdgeGraph == INSTANCE EdgeSet WITH blocks <- bb_set, entry <- root, edges <- Edges

ImplementsEdgeSet == EdgeGraph!Spec
=============================================================================
