---------------------------- MODULE LoopAnalyzer ----------------------------
(***************************************************************************)
(* LoopAnalyzer::Run: the dominator tree (DomTree), a search for back      *)
(* edges, the reverse post-order (RPO), and then three passes that fill    *)
(* the loops with blocks and hang them into a tree.  The two analyses run  *)
(* as their own modules on the blocks this one goes on to work with.       *)
(* A Loop object is a position in loops; a Loop pointer is such a position *)
(* or Null.                                                                *)
(***************************************************************************)
EXTENDS ControlFlow

CONSTANTS Blocks, Root, Null,
          Cfgs        \* the graphs, as in DomTree, without edits

\* nullptr is neither a block nor a loop.
ASSUME CfgAssumption ==
    /\ Root \in Blocks
    /\ Null \notin Blocks \cup Nat
    /\ Cfgs \subseteq [succ : [Blocks -> Seq(Blocks)], predec : [Blocks -> Seq(Blocks)],
                      runs : Nat, edits : {0}, among : SUBSET Blocks]

\* Every edge is stored at both of its ends.
ASSUME EdgesAssumption ==
    \A g \in Cfgs : \A u, v \in Blocks : Occurs(g.succ, u, v) <=> Occurs(g.predec, v, u)

VARIABLES
    succ, predec, idom, dominated, vertexes, info, tree_stack, k, p, bucket,
    tree_pc, runs, edits, plan,           \* the blocks, and DomTree{}
    visited, rpo_stack, rpo, rpo_pc,      \* the local object rpo
    loop,      \* loop_ of the blocks
    loops,     \* every Loop ever allocated, in the order of allocation
    marked,    \* blacks, or greens: the blocks the running walk has met
    grays,     \* the blocks on the stack of the running DFS
    stack,     \* activations of the running recursion
    at,        \* position of the running loop over rpo
    todo,      \* back edges the loop of CollectLoops has not come to
    tree_root, \* loop_tree_root_
    pc         \* the phase of Run

SuccessorMaps == {g.succ : g \in Cfgs}

Tree == INSTANCE DomTree WITH stack <- tree_stack, pc <- tree_pc
Order == INSTANCE RPO WITH stack <- rpo_stack, pc <- rpo_pc, Cfgs <- SuccessorMaps

treeVars == <<succ, predec, idom, dominated, vertexes, info, tree_stack, k, p,
              bucket, tree_pc, runs, edits, plan>>
rpoVars == <<visited, rpo_stack, rpo, rpo_pc>>
loopVars == <<loop, loops>>
walkVars == <<marked, grays, stack, at, todo>>
vars == <<treeVars, rpoVars, loopVars, walkVars, tree_root, pc>>

MaybeBlock == Blocks \cup {Null}
Loops == DOMAIN loops
MaybeLoop == Loops \cup {Null}

LoopObjects == [header : MaybeBlock, reducible : BOOLEAN,
                bbs : SUBSET Blocks, back : SUBSET Blocks,
                succ : Seq(Loops), predec : Seq(Loops)]

TypeOK ==
    /\ Tree!TypeOK
    /\ visited \subseteq Blocks /\ rpo \in Seq(Blocks)
    /\ loops \in Seq(LoopObjects)
    /\ loop \in [Blocks -> MaybeLoop]
    /\ marked \subseteq Blocks /\ grays \subseteq Blocks /\ todo \subseteq Blocks
    /\ stack \in Seq([node : Blocks, it : Nat])
    /\ at \in Nat /\ tree_root \in MaybeLoop
    /\ pc \in {"start", "domtree", "dfs", "rpo", "collect", "fill", "root", "assign", "done", "threw"}

Init ==
    /\ Tree!Init
    /\ visited = {} /\ rpo_stack = <<>> /\ rpo = <<>> /\ rpo_pc = "start"
    /\ loop = [b \in Blocks |-> Null] /\ loops = <<>>
    /\ marked = {} /\ grays = {} /\ stack = <<>> /\ at = 0 /\ todo = {}
    /\ tree_root = Null /\ pc = "start"

-----------------------------------------------------------------------------
(* DomTree{}.Run(root).                                                    *)

Run ==
    /\ pc \in {"start", "done"}
    /\ Tree!Run
    /\ pc' = "domtree"
    /\ UNCHANGED <<rpoVars, loopVars, walkVars, tree_root>>

\* An exception leaves LoopAnalyzer::Run too.
BuildDomTree ==
    /\ pc = "domtree"
    /\ tree_pc # "done"
    /\ Tree!Steps
    /\ pc' = IF tree_pc' = "threw" THEN "threw" ELSE "domtree"
    /\ UNCHANGED <<rpoVars, loopVars, walkVars, tree_root>>

-----------------------------------------------------------------------------
(* DFS: every edge to a block still on the stack is a back edge.           *)

Top == stack[Len(stack)]
Enter(node) == [node |-> node, it |-> 1]
Advanced == [stack EXCEPT ![Len(stack)].it = @ + 1]
AtSuccessor == stack # <<>> /\ Top.it <= Len(succ[Top.node])
Successor == succ[Top.node][Top.it]

BeginDFS ==
    /\ pc = "domtree"
    /\ tree_pc = "done"
    /\ grays' = {Root} /\ marked' = {Root} /\ stack' = <<Enter(Root)>>
    /\ pc' = "dfs"
    /\ UNCHANGED <<treeVars, rpoVars, loopVars, at, todo, tree_root>>

\* insertLoopBB
InsertedLoopBB(ls, id, bb) == [ls EXCEPT ![id].bbs = @ \cup {bb}]

\* Mutant: the source of a back edge does not become a block of the loop.
InsertedBackEdgeOnly(ls, id, bb) == [ls EXCEPT ![id].back = @ \cup {bb}]

\* insertBackEdge
InsertedBackEdge(ls, id, bb) ==
    InsertedLoopBB([ls EXCEPT ![id].back = @ \cup {bb}], id, bb)

NewLoop(header, reducible) ==
    [header |-> header, reducible |-> reducible, bbs |-> {}, back |-> {},
     succ |-> <<>>, predec |-> <<>>]

\* Mutant: the loop is addressed by the number idx_gen had before it grew.
ProcessBackEdgeFromZero(header, source) ==
    IF loop[header] = Null
    THEN LET new == NewLoop(header, Tree!IsDominated(header, source))
             id == Len(loops)
         IN /\ loops' = InsertedBackEdge(Append(loops, new), id, source)
            /\ loop' = [loop EXCEPT ![header] = id, ![source] = id]
    ELSE /\ loops' = InsertedBackEdge(loops, loop[header], source)
         /\ loop' = [loop EXCEPT ![source] = loop[header]]

\* The loop is the header's loop_, whatever loop that is by now; the source
\* of the edge forgets the loop it was in.
ProcessBackEdge(header, source) ==
    IF loop[header] = Null
    THEN LET new == NewLoop(header, Tree!IsDominated(header, source))
             id == Len(loops) + 1
         IN /\ loops' = InsertedBackEdge(Append(loops, new), id, source)
            /\ loop' = [loop EXCEPT ![header] = id, ![source] = id]
    ELSE /\ loops' = InsertedBackEdge(loops, loop[header], source)
         /\ loop' = [loop EXCEPT ![source] = loop[header]]

MeetGray ==
    /\ pc = "dfs" /\ AtSuccessor
    /\ Successor \in grays
    /\ ProcessBackEdge(Successor, Top.node)
    /\ stack' = Advanced
    /\ UNCHANGED <<treeVars, rpoVars, marked, grays, at, todo, tree_root, pc>>

\* Mutant: a block left already restarts the loop over the successors.
MeetBlackRestarts ==
    /\ pc = "dfs" /\ AtSuccessor
    /\ Successor \in marked \ grays
    /\ stack' = [stack EXCEPT ![Len(stack)].it = 1]
    /\ UNCHANGED <<treeVars, rpoVars, loopVars, marked, grays, at, todo, tree_root, pc>>

MeetBlack ==
    /\ pc = "dfs" /\ AtSuccessor
    /\ Successor \in marked \ grays
    /\ stack' = Advanced
    /\ UNCHANGED <<treeVars, rpoVars, loopVars, marked, grays, at, todo, tree_root, pc>>

MeetNew ==
    /\ pc = "dfs" /\ AtSuccessor
    /\ Successor \notin marked
    /\ grays' = grays \cup {Successor}
    /\ marked' = marked \cup {Successor}
    /\ stack' = Append(Advanced, Enter(Successor))
    /\ UNCHANGED <<treeVars, rpoVars, loopVars, at, todo, tree_root, pc>>

Return ==
    /\ pc = "dfs" /\ stack # <<>> /\ ~AtSuccessor
    /\ grays' = grays \ {Top.node}
    /\ stack' = Front(stack)
    /\ UNCHANGED <<treeVars, rpoVars, loopVars, marked, at, todo, tree_root, pc>>

-----------------------------------------------------------------------------
(* RPO rpo; rpo.Run(root).                                                 *)

BeginRPO ==
    /\ pc = "dfs" /\ stack = <<>>
    /\ grays' = {} /\ marked' = {}
    /\ visited' = {} /\ rpo_stack' = <<>> /\ rpo' = <<>> /\ rpo_pc' = "start"
    /\ pc' = "rpo"
    /\ UNCHANGED <<treeVars, loopVars, stack, at, todo, tree_root>>

BuildRPO ==
    /\ pc = "rpo"
    /\ rpo_pc # "done"
    /\ Order!Next
    /\ UNCHANGED <<predec, idom, dominated, vertexes, info, tree_stack, k, p, bucket,
                   tree_pc, runs, edits, plan, loopVars, walkVars, tree_root, pc>>

-----------------------------------------------------------------------------
(* CollectLoops, from the last block of the order to the first.            *)

BeginCollect ==
    /\ pc = "rpo" /\ rpo_pc = "done"
    /\ at' = Len(rpo)
    /\ pc' = "collect"
    /\ UNCHANGED <<treeVars, rpoVars, loopVars, marked, grays, stack, todo, tree_root>>

IsHeader(bb) == loop[bb] # Null /\ loops[loop[bb]].header = bb

SkipBlock ==
    /\ pc = "collect" /\ at > 0
    /\ ~(IsHeader(rpo[at]) /\ loops[loop[rpo[at]]].reducible)
    /\ at' = at - 1
    /\ UNCHANGED <<treeVars, rpoVars, loopVars, marked, grays, stack, todo, tree_root, pc>>

\* Mutant: the header is not marked, so the walk goes on behind it.
OpenLoopUnmarked ==
    /\ pc = "collect" /\ at > 0
    /\ IsHeader(rpo[at]) /\ loops[loop[rpo[at]]].reducible
    /\ marked' = {}
    /\ todo' = loops[loop[rpo[at]]].back
    /\ pc' = "fill"
    /\ UNCHANGED <<treeVars, rpoVars, loopVars, grays, stack, at, tree_root>>

OpenLoop ==
    /\ pc = "collect" /\ at > 0
    /\ IsHeader(rpo[at]) /\ loops[loop[rpo[at]]].reducible
    /\ marked' = {rpo[at]}
    /\ todo' = loops[loop[rpo[at]]].back
    /\ pc' = "fill"
    /\ UNCHANGED <<treeVars, rpoVars, loopVars, grays, stack, at, tree_root>>

CurLoop == loop[rpo[at]]

\* AddSuccWithPredec: the loop child becomes a successor of the loop parent.
Nested(ls, parent, child) ==
    [ls EXCEPT ![parent].succ = Append(@, child), ![child].predec = Append(@, parent)]

\* Mutant: nobody asks whether the block's loop is nested already.
ProcessLoopBBsNestingAgain(bb) ==
    /\ marked' = marked \cup {bb}
    /\ IF loop[bb] = Null
       THEN /\ loops' = InsertedLoopBB(loops, CurLoop, bb)
            /\ loop' = [loop EXCEPT ![bb] = CurLoop]
       ELSE /\ loops' = IF loop[bb] # CurLoop THEN Nested(loops, CurLoop, loop[bb]) ELSE loops
            /\ UNCHANGED loop

\* ProcessLoopBBs on a block not met yet: a block without a loop joins the
\* current one, the block's own loop is nested in the current one unless it
\* already is nested somewhere.
ProcessLoopBBs(bb) ==
    /\ marked' = marked \cup {bb}
    /\ IF loop[bb] = Null
       THEN /\ loops' = InsertedLoopBB(loops, CurLoop, bb)
            /\ loop' = [loop EXCEPT ![bb] = CurLoop]
       ELSE /\ loops' = IF loops[loop[bb]].predec = <<>> /\ loop[bb] # CurLoop
                        THEN Nested(loops, CurLoop, loop[bb]) ELSE loops
            /\ UNCHANGED loop

\* The back edges are the members of an unordered set.
TakeBackEdge(source) ==
    /\ pc = "fill" /\ stack = <<>>
    /\ source \in todo
    /\ todo' = todo \ {source}
    /\ IF source \in marked
       THEN UNCHANGED <<loopVars, marked, stack>>
       ELSE ProcessLoopBBs(source) /\ stack' = <<Enter(source)>>
    /\ UNCHANGED <<treeVars, rpoVars, grays, at, tree_root, pc>>

WalkPredec ==
    /\ pc = "fill" /\ stack # <<>> /\ Top.it <= Len(predec[Top.node])
    /\ LET bb == predec[Top.node][Top.it]
       IN IF bb \in marked
          THEN stack' = Advanced /\ UNCHANGED <<loopVars, marked>>
          ELSE stack' = Append(Advanced, Enter(bb)) /\ ProcessLoopBBs(bb)
    /\ UNCHANGED <<treeVars, rpoVars, grays, at, todo, tree_root, pc>>

LeaveBB ==
    /\ pc = "fill" /\ stack # <<>> /\ Top.it > Len(predec[Top.node])
    /\ stack' = Front(stack)
    /\ UNCHANGED <<treeVars, rpoVars, loopVars, marked, grays, at, todo, tree_root, pc>>

CloseLoop ==
    /\ pc = "fill" /\ stack = <<>> /\ todo = {}
    /\ marked' = {}
    /\ at' = at - 1
    /\ pc' = "collect"
    /\ UNCHANGED <<treeVars, rpoVars, loopVars, grays, stack, todo, tree_root>>

-----------------------------------------------------------------------------
(* The root loop takes the blocks no loop has taken (CollectRootLoop) and  *)
(* the loops no loop contains (AssignRootLoop).                            *)

\* CollectRootLoop on a block not met yet.
ProcessRootBB(ls, root_loop, bb) ==
    IF loop[bb] = Null
    THEN loops' = InsertedLoopBB(ls, root_loop, bb) /\ loop' = [loop EXCEPT ![bb] = root_loop]
    ELSE loops' = ls /\ UNCHANGED loop

NewRootLoop ==
    /\ pc = "collect" /\ at = 0
    /\ tree_root' = Len(loops) + 1
    /\ ProcessRootBB(Append(loops, NewLoop(Null, FALSE)), Len(loops) + 1, Root)
    /\ marked' = {Root} /\ stack' = <<Enter(Root)>>
    /\ pc' = "root"
    /\ UNCHANGED <<treeVars, rpoVars, grays, at, todo>>

WalkSucc ==
    /\ pc = "root" /\ AtSuccessor
    /\ IF Successor \in marked
       THEN stack' = Advanced /\ UNCHANGED <<loopVars, marked>>
       ELSE /\ stack' = Append(Advanced, Enter(Successor))
            /\ marked' = marked \cup {Successor}
            /\ ProcessRootBB(loops, tree_root, Successor)
    /\ UNCHANGED <<treeVars, rpoVars, grays, at, todo, tree_root, pc>>

LeaveRootBB ==
    /\ pc = "root" /\ stack # <<>> /\ ~AtSuccessor
    /\ stack' = Front(stack)
    /\ UNCHANGED <<treeVars, rpoVars, loopVars, marked, grays, at, todo, tree_root, pc>>

BeginAssign ==
    /\ pc = "root" /\ stack = <<>>
    /\ marked' = {} /\ at' = 1
    /\ pc' = "assign"
    /\ UNCHANGED <<treeVars, rpoVars, loopVars, grays, stack, todo, tree_root>>

AssignRootLoop ==
    /\ pc = "assign" /\ at <= Len(rpo)
    /\ loops' = IF IsHeader(rpo[at]) /\ loops[loop[rpo[at]]].predec = <<>>
                THEN Nested(loops, tree_root, loop[rpo[at]]) ELSE loops
    /\ at' = at + 1
    /\ UNCHANGED <<treeVars, rpoVars, loop, marked, grays, stack, todo, tree_root, pc>>

Finish ==
    /\ pc = "assign" /\ at > Len(rpo)
    /\ pc' = "done"
    /\ UNCHANGED <<treeVars, rpoVars, loopVars, walkVars, tree_root>>

Ended == (pc = "threw" \/ (pc = "done" /\ runs = plan.runs)) /\ UNCHANGED vars

Steps ==
    \/ Run \/ BuildDomTree
    \/ BeginDFS \/ MeetGray \/ MeetBlack \/ MeetNew \/ Return
    \/ BeginRPO \/ BuildRPO
    \/ BeginCollect \/ SkipBlock \/ OpenLoop \/ WalkPredec \/ LeaveBB \/ CloseLoop
    \/ \E source \in Blocks : TakeBackEdge(source)
    \/ NewRootLoop \/ WalkSucc \/ LeaveRootBB
    \/ BeginAssign \/ AssignRootLoop \/ Finish

Next == Steps \/ Ended

Spec == Init /\ [][Next]_vars
FairSpec == Spec /\ WF_vars(Steps)

-----------------------------------------------------------------------------
(* Reference: natural loops.                                               *)

Reachable == ReachFrom(succ, Root)

IsBackEdge(u, h) == Occurs(succ, u, h) /\ Dominates(succ, Root, h, u)
Sources(h) == {u \in Reachable : IsBackEdge(u, h)}
Headers == {h \in Reachable : Sources(h) # {}}

\* The header and every block that reaches a source of a back edge to it
\* without going through it.
NaturalLoop(h) ==
    {h} \cup {b \in Reachable \ {h} : ReachAvoiding(succ, b, {h}) \cap Sources(h) # {}}

\* The header of the smallest natural loop around b among the given headers,
\* Null if there is none.
Innermost(b, headers) ==
    LET around == {h \in headers : b \in NaturalLoop(h)}
    IN IF around = {} THEN Null
       ELSE CHOOSE h \in around : \A g \in around : NaturalLoop(h) \subseteq NaturalLoop(g)

\* Without its back edges the graph has no cycle: from the target of every
\* other edge the others lead into a set that does not hold its source.
Reducible ==
    LET forward == [u \in Blocks |-> {v \in ToSet(succ[u]) : ~IsBackEdge(u, v)}]
    IN \A u \in Reachable : \A v \in forward[u] :
          \E S \in SUBSET Blocks : v \in S /\ u \notin S /\ \A x \in S : forward[x] \subseteq S

\* The graphs DomTree gets right, without a loop of a single block.
WellTreed == ~Tree!NumbersTwice /\ \A b \in Reachable : ~Occurs(succ, b, b)

\* No source of a back edge lies in a loop further inside.
SourcesInnermost == \A h \in Headers : \A u \in Sources(h) : Innermost(u, Headers) = h

-----------------------------------------------------------------------------
(* Properties.                                                             *)

HeaderOf(b) == loops[loop[b]].header
ParentOf(h) == Innermost(h, Headers \ {h})

\* Every block ends up in the innermost natural loop around it.
BlocksInInnermostLoop ==
    \A b \in Reachable : loop[b] # Null /\ HeaderOf(b) = Innermost(b, Headers)

\* On a reducible graph whose back edges start in the loop they close, every
\* block gets the innermost loop around it.
LoopsAreNatural ==
    pc = "done" /\ WellTreed /\ Reducible /\ SourcesInnermost => BlocksInInnermostLoop

\* On such a graph the loops hang in each other as the natural loops contain
\* each other, each loop below exactly one other and listed there once.  This
\* is said of a first run: a second one makes a new root loop and leaves the
\* outermost loops below the old one.
TreeIsNesting ==
    pc = "done" /\ runs = 1 /\ WellTreed /\ Reducible /\ SourcesInnermost =>
        /\ MirroredEdges([i \in Loops |-> loops[i].succ], [i \in Loops |-> loops[i].predec])
        /\ \A h \in Headers :
              loops[loop[h]].predec =
                  <<IF ParentOf(h) = Null THEN tree_root ELSE loop[ParentOf(h)]>>

\* On every graph at all, each block is a member of the loop it points to.
OwnLoopContainsBlock ==
    pc = "done" =>
        \A b \in Reachable :
            loop[b] # Null /\ (b \in loops[loop[b]].bbs \/ loops[loop[b]].header = b)

LoopTree == [i \in Loops |-> loops[i].succ]

\* Every loop a block points to can be found from the root of the loop tree.
TreeHoldsEveryLoop ==
    pc = "done" /\ WellTreed /\ Reducible =>
        \A b \in Reachable : loop[b] \in ReachFrom(LoopTree, tree_root)

\* Run returns or throws, on every graph.
Terminates == <>[](pc \in {"done", "threw"})

-----------------------------------------------------------------------------
(* The inductive invariant.                                                *)

\* A block that points to a loop is a member of it or its header.
InOwnLoop(b) == b \in loops[loop[b]].bbs \/ loops[loop[b]].header = b
PointersRight == \A b \in Blocks : loop[b] # Null => InOwnLoop(b)

\* Every iterator of the running walk stands at a successor or at the end.
IteratorsValid == \A j \in DOMAIN stack : stack[j].it > 0

\* CollectLoops stands in the order, and fills the loop of a block that has one.
LoopInHand ==
    /\ pc = "collect" => at \in 0 .. Len(rpo)
    /\ pc = "fill" => at \in 1 .. Len(rpo) /\ loop[rpo[at]] # Null
    /\ pc = "assign" => at > 0

\* CollectRootLoop: the blocks met have a loop, and so have all they lead to
\* once the stack is empty.
RootWalk ==
    /\ Root \in marked
    /\ \A b \in marked : loop[b] # Null
    /\ \A j \in DOMAIN stack :
          /\ stack[j].node \in marked
          /\ \A m \in DOMAIN succ[stack[j].node] :
                m < stack[j].it => succ[stack[j].node][m] \in marked
    /\ \A b \in marked : ToSet(succ[b]) \subseteq marked \/ \E j \in DOMAIN stack : stack[j].node = b

IInv ==
    /\ TypeOK
    /\ succ \in SuccessorMaps
    /\ PointersRight /\ IteratorsValid /\ LoopInHand
    /\ pc \in {"root", "assign"} => tree_root # Null
    /\ pc = "root" => RootWalk
    /\ pc \in {"assign", "done"} => \A b \in Reachable : loop[b] # Null
    /\ pc = "rpo" => Order!IInv
    /\ pc = "threw" => tree_pc = "threw"
=============================================================================
