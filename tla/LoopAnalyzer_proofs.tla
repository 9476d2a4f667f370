------------------------ MODULE LoopAnalyzer_proofs ------------------------
(***************************************************************************)
(* LoopAnalyzer::Run on any graph, any number of times: its first part is  *)
(* a run of DomTree, its second a run of RPO, so that what is proved of    *)
(* them holds inside it, and after each run every reachable block has a    *)
(* loop that it belongs to.                                                *)
(***************************************************************************)
EXTENDS LoopAnalyzer, ControlFlow_proofs

TreeProofs == INSTANCE DomTree_proofs WITH stack <- tree_stack, pc <- tree_pc
OrderProofs == INSTANCE RPO_proofs WITH stack <- rpo_stack, pc <- rpo_pc, Cfgs <- SuccessorMaps

-----------------------------------------------------------------------------
(* The dominator tree.                                                     *)

\* The assumptions of DomTree follow from those made here.
LEMMA TreeAssumption ==
    /\ Root \in Blocks
    /\ Null \notin Blocks
    /\ Cfgs \subseteq [succ : [Blocks -> Seq(Blocks)], predec : [Blocks -> Seq(Blocks)],
                      runs : Nat, edits : Nat, among : SUBSET Blocks]
  BY CfgAssumption

\* And what it assumes of their edges, which are never edited here.
LEMMA TreeEdgesAssumption ==
    \A g \in Cfgs :
        /\ \A u, v \in Blocks :
              TreeProofs!Occurs(g.succ, u, v) <=> TreeProofs!Occurs(g.predec, v, u)
        /\ g.edits > 0 => TreeProofs!MirroredEdges(g.succ, g.predec)
  <1>1. \A g \in Cfgs : ~(g.edits > 0)
    BY CfgAssumption
  <1> QED BY <1>1, EdgesAssumption DEF TreeProofs!Occurs, TreeProofs!ToSet, Occurs, ToSet

\* The two names of an action of DomTree name one action.
LEMMA TreeSteps == Tree!Steps => TreeProofs!Steps
  <1> USE DEF Tree!graphVars, TreeProofs!graphVars, Tree!resultVars,
              TreeProofs!resultVars, Tree!countVars, TreeProofs!countVars, Tree!Vertex,
              TreeProofs!Vertex, Tree!Numbered, TreeProofs!Numbered, Tree!Top,
              TreeProofs!Top, Tree!Depth, TreeProofs!Depth, Tree!Front,
              TreeProofs!Front, Tree!Last, TreeProofs!Last
  <1>1. Tree!Run => TreeProofs!Run
    BY Zenon DEF Tree!Run, TreeProofs!Run, Tree!NewInfo, TreeProofs!NewInfo, Tree!Enter,
                 TreeProofs!Enter
  <1>2. Tree!CallDFS => TreeProofs!CallDFS
    BY Zenon DEF Tree!CallDFS, TreeProofs!CallDFS, Tree!AtSuccessor,
                 TreeProofs!AtSuccessor, Tree!Successor, TreeProofs!Successor,
                 Tree!Calls, TreeProofs!Calls, Tree!Inserted, TreeProofs!Inserted,
                 Tree!NewInfo, TreeProofs!NewInfo, Tree!Advanced, TreeProofs!Advanced,
                 Tree!Enter, TreeProofs!Enter
  <1>3. Tree!PassOver => TreeProofs!PassOver
    BY Zenon DEF Tree!PassOver, TreeProofs!PassOver, Tree!AtSuccessor,
                 TreeProofs!AtSuccessor, Tree!Successor, TreeProofs!Successor,
                 Tree!Calls, TreeProofs!Calls, Tree!Advanced, TreeProofs!Advanced
  <1>4. Tree!Return => TreeProofs!Return
    BY Zenon DEF Tree!Return, TreeProofs!Return
  <1>5. Tree!MakeForest => TreeProofs!MakeForest
    BY Zenon DEF Tree!MakeForest, TreeProofs!MakeForest
  <1>6. Tree!EvalPredec => TreeProofs!EvalPredec
    BY Zenon DEF Tree!EvalPredec, TreeProofs!EvalPredec, Tree!EvalInfo,
                 TreeProofs!EvalInfo, Tree!Eval, TreeProofs!Eval, Tree!Compressed,
                 TreeProofs!Compressed, Tree!Stays, TreeProofs!Stays, Tree!Hung,
                 TreeProofs!Hung, Tree!WayUp, TreeProofs!WayUp
  <1>7. Tree!LinkVertex => TreeProofs!LinkVertex
    BY Zenon DEF Tree!LinkVertex, TreeProofs!LinkVertex
  <1>8. Tree!EmptyBucket => TreeProofs!EmptyBucket
    BY Zenon DEF Tree!EmptyBucket, TreeProofs!EmptyBucket, Tree!EvalInfo,
                 TreeProofs!EvalInfo, Tree!Eval, TreeProofs!Eval, Tree!Compressed,
                 TreeProofs!Compressed, Tree!Stays, TreeProofs!Stays, Tree!Hung,
                 TreeProofs!Hung, Tree!WayUp, TreeProofs!WayUp
  <1>9. Tree!NextVertex => TreeProofs!NextVertex
    BY Zenon DEF Tree!NextVertex, TreeProofs!NextVertex
  <1>10. Tree!FixDom => TreeProofs!FixDom
    BY Zenon DEF Tree!FixDom, TreeProofs!FixDom
  <1>11. Tree!ClearRootDom => TreeProofs!ClearRootDom
    BY Zenon DEF Tree!ClearRootDom, TreeProofs!ClearRootDom
  <1>12. Tree!BuildVertex => TreeProofs!BuildVertex
    BY Zenon DEF Tree!BuildVertex, TreeProofs!BuildVertex, Tree!PushBack,
                 TreeProofs!PushBack
  <1>13. Tree!Finish => TreeProofs!Finish
    BY Zenon DEF Tree!Finish, TreeProofs!Finish
  <1> QED BY <1>1, <1>2, <1>3, <1>4, <1>5, <1>6, <1>7, <1>8, <1>9, <1>10, <1>11, <1>12,
             <1>13
          DEF Tree!Steps, TreeProofs!Steps

\* A step of this module is one of DomTree or changes nothing DomTree sees.
LEMMA TreeRuns == [Next]_vars => Tree!Run \/ Tree!Steps \/ UNCHANGED treeVars
  <1>1. Order!Next => succ' = succ
    BY DEF Order!Next, Order!Run, Order!Descend, Order!PassOver, Order!Return, Order!ReverseAll,
           Order!Returned, Order!vars
  <1>2. BuildRPO => UNCHANGED treeVars
    BY <1>1 DEF BuildRPO, treeVars
  <1>3. Run \/ BuildDomTree => Tree!Run \/ Tree!Steps
    BY DEF Run, BuildDomTree
  <1>4. BeginDFS \/ MeetGray \/ MeetBlack \/ MeetNew \/ Return \/ BeginRPO => UNCHANGED treeVars
    BY DEF BeginDFS, MeetGray, MeetBlack, MeetNew, Return, BeginRPO
  <1>5. BeginCollect \/ SkipBlock \/ OpenLoop \/ WalkPredec \/ LeaveBB \/ CloseLoop => UNCHANGED treeVars
    BY DEF BeginCollect, SkipBlock, OpenLoop, WalkPredec, LeaveBB, CloseLoop
  <1>6. (\E source \in Blocks : TakeBackEdge(source)) => UNCHANGED treeVars
    BY DEF TakeBackEdge
  <1>7. NewRootLoop \/ WalkSucc \/ LeaveRootBB \/ BeginAssign \/ AssignRootLoop \/ Finish
        => UNCHANGED treeVars
    BY DEF NewRootLoop, WalkSucc, LeaveRootBB, BeginAssign, AssignRootLoop, Finish
  <1>8. Ended \/ UNCHANGED vars => UNCHANGED treeVars
    BY DEF Ended, vars
  <1> QED BY <1>2, <1>3, <1>4, <1>5, <1>6, <1>7, <1>8 DEF Next, Steps

\* Up to the end of its first part LoopAnalyzer::Run is DomTree::Run, and it
\* leaves alone afterwards what DomTree::Run has written.
THEOREM RunsDomTree == Spec => Tree!Spec
  <1>1. Init => Tree!Init
    BY DEF Init
  <1>2. [Next]_vars => [Tree!Next]_(Tree!vars)
    <2>1. Tree!Run => Tree!Steps
      BY DEF Tree!Steps
    <2>2. UNCHANGED treeVars => UNCHANGED Tree!vars
      BY DEF treeVars, Tree!vars, Tree!graphVars, Tree!resultVars, Tree!countVars
    <2> QED BY <2>1, <2>2, TreeRuns DEF Tree!Next
  <1> QED BY <1>1, <1>2, PTL DEF Spec, Tree!Spec

\* The same, of the module with the proofs.
LEMMA RunsTreeProofs == Spec => TreeProofs!Spec
  <1>1. Init => TreeProofs!Init
    BY DEF Init, Tree!Init, TreeProofs!Init
  <1>2. [Next]_vars => [TreeProofs!Next]_(TreeProofs!vars)
    <2>1. Tree!Run => Tree!Steps
      BY DEF Tree!Steps
    <2>2. UNCHANGED treeVars => UNCHANGED TreeProofs!vars
      BY DEF treeVars, TreeProofs!vars, TreeProofs!graphVars, TreeProofs!resultVars,
             TreeProofs!countVars
    <2> QED BY <2>1, <2>2, TreeRuns, TreeSteps DEF TreeProofs!Next
  <1> QED BY <1>1, <1>2, PTL DEF Spec, TreeProofs!Spec

\* The invariant of DomTree holds inside LoopAnalyzer.
LEMMA TreeInvariance == Spec => []TreeProofs!IInv
  <1>1. TreeProofs!Spec => []TreeProofs!IInv
    BY TreeAssumption, TreeEdgesAssumption, TreeProofs!Invariance
  <1> QED BY <1>1, RunsTreeProofs, PTL

\* What holds of its variables, in the words of this module.
LEMMA TreeTypes ==
    /\ TreeProofs!IInv => Tree!TypeOK
    /\ TreeProofs!IInv' => Tree!TypeOK'
  <1>1. (TreeProofs!TypeOK => Tree!TypeOK) /\ (TreeProofs!TypeOK' => Tree!TypeOK')
    BY Zenon DEF Tree!TypeOK, TreeProofs!TypeOK, Tree!MaybeBlock, TreeProofs!MaybeBlock,
                 Tree!Infos, TreeProofs!Infos, Tree!Phases, TreeProofs!Phases
  <1> QED BY <1>1 DEF TreeProofs!IInv

-----------------------------------------------------------------------------
(* The reverse post-order.                                                 *)

\* The assumption of RPO follows from those made here.
LEMMA OrderAssumption == Root \in Blocks /\ SuccessorMaps \subseteq [Blocks -> Seq(Blocks)]
  BY CfgAssumption DEF SuccessorMaps

\* The two names of the invariant of RPO name one invariant.
LEMMA OrderInvariants ==
    /\ Order!IInv <=> OrderProofs!IInv
    /\ Order!IInv' <=> OrderProofs!IInv'
  BY Zenon DEF Order!IInv, OrderProofs!IInv, Order!TypeOK, OrderProofs!TypeOK,
              Order!Frames, OrderProofs!Frames, Order!Walking, OrderProofs!Walking,
              Order!VisitedSplit, OrderProofs!VisitedSplit, Order!Active,
              OrderProofs!Active, Order!Finished, OrderProofs!Finished,
              Order!ActiveChain, OrderProofs!ActiveChain, Order!VisitedReachable,
              OrderProofs!VisitedReachable, Order!Reachable, OrderProofs!Reachable,
              Order!PassedVisited, OrderProofs!PassedVisited, Order!FinishedOrder,
              OrderProofs!FinishedOrder, Order!ActivePathAvoids,
              OrderProofs!ActivePathAvoids, Order!DominatorsOpen,
              OrderProofs!DominatorsOpen, Order!ListsReachableOnce,
              OrderProofs!ListsReachableOnce, Order!EdgesGoForward,
              OrderProofs!EdgesGoForward, Order!DominatorsComeFirst,
              OrderProofs!DominatorsComeFirst, Order!Before, OrderProofs!Before,
              Order!NoDuplicates, OrderProofs!NoDuplicates, Order!ToSet,
              OrderProofs!ToSet, Order!OnCycle, OrderProofs!OnCycle, Order!ReachFrom,
              OrderProofs!ReachFrom, Order!ReachAvoiding, OrderProofs!ReachAvoiding,
              Order!Closed, OrderProofs!Closed, Order!ClosedExcept,
              OrderProofs!ClosedExcept, Order!Dominates, OrderProofs!Dominates,
              Order!StrictlyDominates, OrderProofs!StrictlyDominates

\* A step of RPO keeps it, and RPO begins with it.
LEMMA OrderStep == Order!IInv /\ Order!Next => Order!IInv'
  <1>1. Order!Next => OrderProofs!Next
    BY Zenon DEF Order!Next, OrderProofs!Next, Order!Run, OrderProofs!Run,
                 Order!Descend, OrderProofs!Descend, Order!PassOver,
                 OrderProofs!PassOver, Order!Return, OrderProofs!Return,
                 Order!ReverseAll, OrderProofs!ReverseAll, Order!Returned,
                 OrderProofs!Returned, Order!vars, OrderProofs!vars, Order!AtSuccessor,
                 OrderProofs!AtSuccessor, Order!Successor, OrderProofs!Successor,
                 Order!Advanced, OrderProofs!Advanced, Order!Enter, OrderProofs!Enter,
                 Order!Top, OrderProofs!Top, Order!Depth, OrderProofs!Depth,
                 Order!Front, OrderProofs!Front, Order!Reverse, OrderProofs!Reverse
  <1>2. OrderProofs!IInv /\ OrderProofs!Next => OrderProofs!IInv'
    BY OrderAssumption, OrderProofs!IInvStep
  <1> QED BY <1>1, <1>2, OrderInvariants

\* A new RPO object satisfies the invariant of the walk before Run.
LEMMA OrderBegins ==
    ASSUME succ' \in SuccessorMaps, visited' = {}, rpo_stack' = <<>>, rpo' = <<>>, rpo_pc' = "start"
    PROVE  Order!IInv'
  BY DEF Order!IInv, Order!TypeOK

\* What it says of the result while the walk runs and when it is done.
LEMMA OrderTypes ==
    /\ Order!IInv => visited \subseteq Blocks /\ rpo \in Seq(Blocks)
    /\ Order!IInv' => visited' \subseteq Blocks /\ rpo' \in Seq(Blocks)
  BY DEF Order!IInv, Order!TypeOK

-----------------------------------------------------------------------------
(* Loops and pointers to them.                                             *)

\* Loop objects whose edges lead to the first n loops.
Objects(n) == [header : MaybeBlock, reducible : BOOLEAN,
               bbs : SUBSET Blocks, back : SUBSET Blocks,
               succ : Seq(1 .. n), predec : Seq(1 .. n)]

\* Objects and pointers to them fit together, and each block that points to a
\* loop belongs to it.
Fit(ls, lp) ==
    /\ ls \in Seq(Objects(Len(ls)))
    /\ lp \in [Blocks -> 1 .. Len(ls) \cup {Null}]
    /\ \A b \in Blocks : lp[b] # Null => b \in ls[lp[b]].bbs \/ ls[lp[b]].header = b

\* Every loop is kept with its header and its blocks, and every block that has a
\* loop keeps one.
Kept(ls, ls2) ==
    /\ Len(ls) <= Len(ls2)
    /\ \A i \in 1 .. Len(ls) : ls[i].header = ls2[i].header /\ ls[i].bbs \subseteq ls2[i].bbs

\* The loops of a state with correct types.
LEMMA LoopsShape ==
    ASSUME TypeOK, PointersRight
    PROVE  /\ Fit(loops, loop)
           /\ Len(loops) \in Nat /\ Loops = 1 .. Len(loops)
           /\ \A b \in Blocks : loop[b] # Null => loop[b] \in 1 .. Len(loops)
  <1>1. loops \in Seq(LoopObjects) /\ loop \in [Blocks -> MaybeLoop]
    BY DEF TypeOK
  <1>2. Len(loops) \in Nat /\ Loops = 1 .. Len(loops)
    BY <1>1 DEF Loops
  <1>3. LoopObjects = Objects(Len(loops)) /\ MaybeLoop = 1 .. Len(loops) \cup {Null}
    BY <1>2 DEF LoopObjects, Objects, MaybeLoop
  <1>4. \A b \in Blocks : loop[b] # Null => loop[b] \in 1 .. Len(loops)
    BY <1>1, <1>3
  <1> QED BY <1>1, <1>2, <1>3, <1>4 DEF Fit, PointersRight, InOwnLoop

\* And back.
LEMMA FitTyped ==
    ASSUME Fit(loops, loop)'
    PROVE  /\ loops' \in Seq(LoopObjects') /\ loop' \in [Blocks -> MaybeLoop']
           /\ PointersRight'
  <1>1. Len(loops') \in Nat /\ Loops' = 1 .. Len(loops')
    BY DEF Loops, Fit
  <1>2. LoopObjects' = Objects(Len(loops')) /\ MaybeLoop' = 1 .. Len(loops') \cup {Null}
    BY <1>1 DEF LoopObjects, Objects, MaybeLoop
  <1> QED BY <1>2 DEF Fit, PointersRight, InOwnLoop

\* Changing one loop.
LEMMA ChangeLoop ==
    ASSUME NEW n, NEW ls \in Seq(Objects(n)), NEW id \in 1 .. Len(ls), NEW obj \in Objects(n),
           obj.header = ls[id].header, ls[id].bbs \subseteq obj.bbs
    PROVE  /\ [ls EXCEPT ![id] = obj] \in Seq(Objects(n))
           /\ Len([ls EXCEPT ![id] = obj]) = Len(ls)
           /\ [ls EXCEPT ![id] = obj][id] = obj
           /\ Kept(ls, [ls EXCEPT ![id] = obj])
  <1> DEFINE S == Objects(n)
             ls2 == [ls EXCEPT ![id] = obj]
  <1>1. ls \in Seq(S) /\ obj \in S
    OBVIOUS
  <1> HIDE DEF S
  <1>2. /\ ls2 \in Seq(S) /\ Len(ls2) = Len(ls)
        /\ \A j \in 1 .. Len(ls) : ls2[j] = IF j = id THEN obj ELSE ls[j]
    BY <1>1, ExceptSeq
  <1>3. Len(ls) \in Nat
    BY <1>1
  <1> QED BY <1>2, <1>3 DEF Kept, S, ls2

\* insertLoopBB adds a block to a loop.
LEMMA InsertedFacts ==
    ASSUME NEW n \in Nat, NEW ls \in Seq(Objects(n)), NEW id \in 1 .. Len(ls), NEW bb \in Blocks
    PROVE  LET ls2 == InsertedLoopBB(ls, id, bb)
           IN /\ ls2 \in Seq(Objects(n)) /\ Len(ls2) = Len(ls)
              /\ bb \in ls2[id].bbs
              /\ Kept(ls, ls2)
  <1> DEFINE obj == [ls[id] EXCEPT !.bbs = @ \cup {bb}]
  <1>1. ls[id] \in Objects(n)
    BY ElementOfSeq
  <1>2. /\ obj \in Objects(n) /\ obj.header = ls[id].header
        /\ ls[id].bbs \subseteq obj.bbs /\ bb \in obj.bbs
    BY <1>1 DEF Objects
  <1>3. InsertedLoopBB(ls, id, bb) = [ls EXCEPT ![id] = obj]
    BY DEF InsertedLoopBB
  <1> HIDE DEF obj
  <1>4. /\ [ls EXCEPT ![id] = obj] \in Seq(Objects(n))
        /\ Len([ls EXCEPT ![id] = obj]) = Len(ls)
        /\ [ls EXCEPT ![id] = obj][id] = obj
        /\ Kept(ls, [ls EXCEPT ![id] = obj])
    BY <1>2, ChangeLoop, Zenon
  <1> QED BY <1>2, <1>3, <1>4

\* insertBackEdge adds a block and a back edge.
LEMMA InsertedBackFacts ==
    ASSUME NEW n \in Nat, NEW ls \in Seq(Objects(n)), NEW id \in 1 .. Len(ls), NEW bb \in Blocks
    PROVE  LET ls2 == InsertedBackEdge(ls, id, bb)
           IN /\ ls2 \in Seq(Objects(n)) /\ Len(ls2) = Len(ls)
              /\ bb \in ls2[id].bbs
              /\ Kept(ls, ls2)
  <1> DEFINE obj == [ls[id] EXCEPT !.back = @ \cup {bb}]
             ls1 == [ls EXCEPT ![id].back = @ \cup {bb}]
  <1>1. ls[id] \in Objects(n)
    BY ElementOfSeq
  <1>2. obj \in Objects(n) /\ obj.header = ls[id].header /\ ls[id].bbs \subseteq obj.bbs
    BY <1>1 DEF Objects
  <1>3. ls1 = [ls EXCEPT ![id] = obj]
    OBVIOUS
  <1>4. InsertedBackEdge(ls, id, bb) = InsertedLoopBB(ls1, id, bb)
    BY DEF InsertedBackEdge
  <1> HIDE DEF obj, ls1
  <1>5. ls1 \in Seq(Objects(n)) /\ Len(ls1) = Len(ls) /\ Kept(ls, ls1)
    <2>1. /\ [ls EXCEPT ![id] = obj] \in Seq(Objects(n))
          /\ Len([ls EXCEPT ![id] = obj]) = Len(ls)
          /\ [ls EXCEPT ![id] = obj][id] = obj
          /\ Kept(ls, [ls EXCEPT ![id] = obj])
      BY <1>2, ChangeLoop, Zenon
    <2> QED BY <1>3, <2>1
  <1>6. LET ls2 == InsertedLoopBB(ls1, id, bb)
        IN ls2 \in Seq(Objects(n)) /\ Len(ls2) = Len(ls1) /\ bb \in ls2[id].bbs /\ Kept(ls1, ls2)
    BY <1>5, InsertedFacts
  <1> QED BY <1>4, <1>5, <1>6 DEF Kept

\* AddSuccWithPredec between loops moves no block.
LEMMA NestedFacts ==
    ASSUME NEW n \in Nat, NEW ls \in Seq(Objects(n)), n <= Len(ls),
           NEW parent \in 1 .. n, NEW child \in 1 .. n
    PROVE  LET ls2 == Nested(ls, parent, child)
           IN /\ ls2 \in Seq(Objects(n)) /\ Len(ls2) = Len(ls)
              /\ Kept(ls, ls2)
  <1> DEFINE obj == [ls[parent] EXCEPT !.succ = Append(@, child)]
             ls1 == [ls EXCEPT ![parent] = obj]
             obj2 == [ls1[child] EXCEPT !.predec = Append(@, parent)]
  <1>1. ls[parent] \in Objects(n)
    BY ElementOfSeq
  <1>2. /\ obj \in Objects(n) /\ obj.header = ls[parent].header
        /\ ls[parent].bbs \subseteq obj.bbs
    <2>1. Append(ls[parent].succ, child) \in Seq(1 .. n)
      BY <1>1, AppendProperties DEF Objects
    <2> QED BY <1>1, <2>1 DEF Objects
  <1> HIDE DEF obj
  <1>3. ls1 \in Seq(Objects(n)) /\ Len(ls1) = Len(ls) /\ Kept(ls, ls1)
    <2>1. parent \in 1 .. Len(ls)
      OBVIOUS
    <2>2. /\ [ls EXCEPT ![parent] = obj] \in Seq(Objects(n))
          /\ Len([ls EXCEPT ![parent] = obj]) = Len(ls)
          /\ [ls EXCEPT ![parent] = obj][parent] = obj
          /\ Kept(ls, [ls EXCEPT ![parent] = obj])
      BY <1>2, <2>1, ChangeLoop, Zenon
    <2> QED BY <2>2
  <1>4. Nested(ls, parent, child) = [ls1 EXCEPT ![child] = obj2]
    BY DEF Nested, obj
  <1> HIDE DEF ls1
  <1>5. ls1[child] \in Objects(n)
    BY <1>3, ElementOfSeq
  <1>6. /\ obj2 \in Objects(n) /\ obj2.header = ls1[child].header
        /\ ls1[child].bbs \subseteq obj2.bbs
    <2>1. Append(ls1[child].predec, parent) \in Seq(1 .. n)
      BY <1>5, AppendProperties DEF Objects
    <2> QED BY <1>5, <2>1 DEF Objects
  <1> HIDE DEF obj2
  <1> DEFINE ls2 == [ls1 EXCEPT ![child] = obj2]
  <1>7. ls2 \in Seq(Objects(n)) /\ Len(ls2) = Len(ls1) /\ Kept(ls1, ls2)
    BY <1>3, <1>6, ChangeLoop
  <1> HIDE DEF ls2
  <1> QED BY <1>3, <1>4, <1>7 DEF Kept, ls2

\* A new loop takes the next number.
LEMMA NewLoopFacts ==
    ASSUME NEW n \in Nat, NEW ls \in Seq(Objects(n)), n = Len(ls),
           NEW header \in MaybeBlock, NEW reducible \in BOOLEAN
    PROVE  LET ls2 == Append(ls, NewLoop(header, reducible))
           IN /\ ls2 \in Seq(Objects(n + 1)) /\ Len(ls2) = n + 1
              /\ ls2[n + 1].header = header
              /\ Kept(ls, ls2)
  <1> DEFINE obj == NewLoop(header, reducible)
  <1>1. obj \in Objects(n + 1) /\ obj.header = header
    BY DEF NewLoop, Objects
  <1>2. Objects(n) \subseteq Objects(n + 1)
    <2>1. 1 .. n \subseteq 1 .. n + 1
      OBVIOUS
    <2>2. Seq(1 .. n) \subseteq Seq(1 .. n + 1)
      BY <2>1, SeqGrows
    <2> QED BY <2>2 DEF Objects
  <1>3. ls \in Seq(Objects(n + 1))
    BY <1>2, SeqGrows
  <1> HIDE DEF obj
  <1>4. /\ Append(ls, obj) \in Seq(Objects(n + 1)) /\ Len(Append(ls, obj)) = n + 1
        /\ \A i \in 1 .. n : Append(ls, obj)[i] = ls[i]
        /\ Append(ls, obj)[n + 1] = obj
    BY <1>1, <1>3, AppendEntries
  <1> QED BY <1>1, <1>4 DEF Kept, obj

\* Loops and pointers still fit when loops are kept and a block that gets another
\* loop belongs to that.
LEMMA FitStays ==
    ASSUME NEW ls, NEW lp, Fit(ls, lp), NEW ls2, ls2 \in Seq(Objects(Len(ls2))), Kept(ls, ls2),
           NEW lp2 \in [Blocks -> 1 .. Len(ls2) \cup {Null}],
           \A b \in Blocks : \/ lp2[b] = lp[b]
                             \/ b \in ls2[lp2[b]].bbs
                             \/ ls2[lp2[b]].header = b
    PROVE  Fit(ls2, lp2)
  <1> SUFFICES ASSUME NEW b \in Blocks, lp2[b] # Null, lp2[b] = lp[b]
               PROVE  b \in ls2[lp2[b]].bbs \/ ls2[lp2[b]].header = b
    BY DEF Fit
  <1>1. lp[b] \in 1 .. Len(ls) /\ (b \in ls[lp[b]].bbs \/ ls[lp[b]].header = b)
    BY DEF Fit
  <1>2. ls[lp[b]].header = ls2[lp[b]].header /\ ls[lp[b]].bbs \subseteq ls2[lp[b]].bbs
    BY <1>1 DEF Kept
  <1> QED BY <1>1, <1>2

\* What no step of the passes does to loops and pointers.
LoopsKept ==
    /\ Fit(loops, loop)' /\ Kept(loops, loops')
    /\ \A b \in Blocks : loop[b] # Null => loop'[b] # Null

\* Steps that write neither loops nor pointers keep all of it.
LEMMA UntouchedKept ==
    ASSUME TypeOK, PointersRight, UNCHANGED loopVars PROVE LoopsKept
  BY LoopsShape DEF LoopsKept, loopVars, Fit, Kept

\* A back edge is stored in the loop of its header, and its source moves there.
LEMMA BackEdgeKept ==
    ASSUME TypeOK, PointersRight, NEW header \in Blocks, NEW source \in Blocks,
           ProcessBackEdge(header, source)
    PROVE  LoopsKept
  <1> DEFINE n == Len(loops)
  <1>1. /\ Fit(loops, loop) /\ n \in Nat /\ loops \in Seq(Objects(n))
        /\ loop \in [Blocks -> 1 .. n \cup {Null}]
        /\ \A b \in Blocks : loop[b] # Null => loop[b] \in 1 .. n
    BY LoopsShape DEF Fit
  <1>2. \A i \in Nat : i # Null
    BY CfgAssumption
  <1>3. CASE loop[header] = Null
    <2> DEFINE ls == Append(loops, NewLoop(header, Tree!IsDominated(header, source)))
    <2>1. Tree!IsDominated(header, source) \in BOOLEAN
      BY DEF Tree!IsDominated
    <2>2. /\ ls \in Seq(Objects(n + 1)) /\ Len(ls) = n + 1
          /\ ls[n + 1].header = header /\ Kept(loops, ls)
      BY <1>1, <2>1, NewLoopFacts DEF MaybeBlock
    <2>3. /\ loops' = InsertedBackEdge(ls, n + 1, source)
          /\ loop' = [loop EXCEPT ![header] = n + 1, ![source] = n + 1]
      BY <1>3 DEF ProcessBackEdge
    <2> HIDE DEF ls
    <2>4. n + 1 \in Nat /\ n + 1 \in 1 .. Len(ls)
      BY <1>1, <2>2
    <2>5. /\ loops' \in Seq(Objects(n + 1)) /\ Len(loops') = n + 1
          /\ source \in loops'[n + 1].bbs /\ Kept(ls, loops')
      BY <2>2, <2>3, <2>4, InsertedBackFacts
    <2>6. Kept(loops, loops') /\ loops'[n + 1].header = header
      BY <1>1, <2>2, <2>4, <2>5 DEF Kept
    <2>7. loop' \in [Blocks -> 1 .. n + 1 \cup {Null}]
      BY <1>1, <2>3
    <2>8. \A b \in Blocks : \/ loop'[b] = loop[b]
                            \/ loop'[b] = n + 1 /\ (b = source \/ b = header)
      BY <1>1, <2>3
    <2>9. Fit(loops, loop)'
      BY <1>1, <2>5, <2>6, <2>7, <2>8, FitStays
    <2>10. n + 1 # Null
      BY <1>1, <1>2
    <2> QED BY <2>6, <2>8, <2>9, <2>10 DEF LoopsKept
  <1>4. CASE loop[header] # Null
    <2> DEFINE id == loop[header]
    <2>1. id \in 1 .. n
      BY <1>1, <1>4
    <2>2. /\ loops' = InsertedBackEdge(loops, id, source)
          /\ loop' = [loop EXCEPT ![source] = id]
      BY <1>4 DEF ProcessBackEdge
    <2> HIDE DEF id
    <2>3. /\ loops' \in Seq(Objects(n)) /\ Len(loops') = n
          /\ source \in loops'[id].bbs /\ Kept(loops, loops')
      BY <1>1, <2>1, <2>2, InsertedBackFacts
    <2>4. loop' \in [Blocks -> 1 .. n \cup {Null}]
      BY <1>1, <2>1, <2>2
    <2>5. \A b \in Blocks : loop'[b] = loop[b] \/ (loop'[b] = id /\ b = source)
      BY <1>1, <2>2
    <2>6. Fit(loops, loop)'
      BY <1>1, <2>3, <2>4, <2>5, FitStays
    <2>7. id # Null
      BY <1>2, <2>1
    <2> QED BY <2>3, <2>5, <2>6, <2>7 DEF LoopsKept
  <1> QED BY <1>3, <1>4

\* A block joins a loop if it has none.
LEMMA JoinKept ==
    ASSUME TypeOK, PointersRight, NEW bb \in Blocks,
           NEW ls, ls \in Seq(Objects(Len(ls))), Kept(loops, ls), NEW id \in 1 .. Len(ls),
           loop[bb] = Null, loops' = InsertedLoopBB(ls, id, bb), loop' = [loop EXCEPT ![bb] = id]
    PROVE  LoopsKept /\ loop'[bb] # Null
  <1> DEFINE n == Len(ls)
  <1>1. /\ Fit(loops, loop) /\ n \in Nat /\ Len(loops) \in Nat
        /\ loop \in [Blocks -> 1 .. Len(loops) \cup {Null}]
    BY LoopsShape DEF Fit
  <1>2. /\ loops' \in Seq(Objects(n)) /\ Len(loops') = n
        /\ bb \in loops'[id].bbs /\ Kept(ls, loops')
    BY <1>1, InsertedFacts
  <1>3. Kept(loops, loops') /\ loops' \in Seq(Objects(Len(loops')))
    BY <1>1, <1>2 DEF Kept
  <1>4. loop' \in [Blocks -> 1 .. Len(loops') \cup {Null}]
    BY <1>1, <1>2 DEF Kept
  <1>5. \A b \in Blocks : loop'[b] = loop[b] \/ (loop'[b] = id /\ b = bb)
    BY <1>1
  <1>6. Fit(loops, loop)'
    <2>1. \A b \in Blocks : loop'[b] = loop[b] \/ b \in loops'[loop'[b]].bbs
      BY <1>2, <1>5
    <2> HIDE DEF n
    <2> QED BY <1>1, <1>3, <1>4, <2>1, FitStays
  <1>7. id # Null
    BY <1>1, CfgAssumption
  <1> QED BY <1>1, <1>3, <1>5, <1>6, <1>7 DEF LoopsKept

\* Nothing but the edges between loops changes when a loop is hung into another.
LEMMA NestedKept ==
    ASSUME TypeOK, PointersRight, NEW parent \in Loops, NEW child \in Loops,
           loops' = Nested(loops, parent, child), loop' = loop
    PROVE  LoopsKept
  <1> DEFINE n == Len(loops)
  <1>1. /\ Fit(loops, loop) /\ n \in Nat /\ loops \in Seq(Objects(n)) /\ Loops = 1 .. n
        /\ loop \in [Blocks -> 1 .. n \cup {Null}]
    BY LoopsShape DEF Fit
  <1>2. loops' \in Seq(Objects(n)) /\ Len(loops') = n /\ Kept(loops, loops')
    BY <1>1, NestedFacts
  <1>3. Fit(loops, loop)'
    BY <1>1, <1>2, FitStays
  <1> QED BY <1>2, <1>3 DEF LoopsKept

\* ProcessLoopBBs gives a block the current loop or hangs the block's loop into it.
LEMMA LoopBBKept ==
    ASSUME TypeOK, PointersRight, NEW bb \in Blocks, CurLoop \in Loops, ProcessLoopBBs(bb)
    PROVE  LoopsKept
  <1>1. /\ Fit(loops, loop) /\ Len(loops) \in Nat /\ Loops = 1 .. Len(loops)
        /\ \A b \in Blocks : loop[b] # Null => loop[b] \in Loops
    BY LoopsShape
  <1>2. CASE loop[bb] = Null
    <2>1. loops \in Seq(Objects(Len(loops))) /\ Kept(loops, loops)
      BY <1>1 DEF Fit, Kept
    <2> QED BY <1>1, <1>2, <2>1, JoinKept DEF ProcessLoopBBs
  <1>3. CASE loop[bb] # Null
    <2>1. CASE loops[loop[bb]].predec = <<>> /\ loop[bb] # CurLoop
      <3>1. loops' = Nested(loops, CurLoop, loop[bb]) /\ loop' = loop
        BY <1>3, <2>1 DEF ProcessLoopBBs
      <3> QED BY <1>1, <1>3, <3>1, NestedKept
    <2>2. CASE ~(loops[loop[bb]].predec = <<>> /\ loop[bb] # CurLoop)
      <3>1. UNCHANGED loopVars
        BY <1>3, <2>2 DEF ProcessLoopBBs, loopVars
      <3> QED BY <3>1, UntouchedKept
    <2> QED BY <2>1, <2>2
  <1> QED BY <1>2, <1>3

\* CollectRootLoop gives a block the root loop if it has none.
LEMMA RootBBKept ==
    ASSUME TypeOK, PointersRight, NEW bb \in Blocks,
           NEW ls, ls \in Seq(Objects(Len(ls))), Kept(loops, ls), NEW id \in 1 .. Len(ls),
           ProcessRootBB(ls, id, bb)
    PROVE  LoopsKept /\ loop'[bb] # Null /\ Len(loops') = Len(ls)
  <1>1. CASE loop[bb] = Null
    <2>1. loops' = InsertedLoopBB(ls, id, bb) /\ loop' = [loop EXCEPT ![bb] = id]
      BY <1>1 DEF ProcessRootBB
    <2>2. Len(loops') = Len(ls)
      BY <2>1, InsertedFacts
    <2> QED BY <1>1, <2>1, <2>2, JoinKept
  <1>2. CASE loop[bb] # Null
    <2>1. loops' = ls /\ loop' = loop
      BY <1>2 DEF ProcessRootBB
    <2>2. /\ Fit(loops, loop) /\ Len(loops) \in Nat /\ Len(ls) \in Nat
          /\ loop \in [Blocks -> 1 .. Len(loops) \cup {Null}]
      BY LoopsShape DEF Fit
    <2>3. loop' \in [Blocks -> 1 .. Len(ls) \cup {Null}]
      BY <2>1, <2>2 DEF Kept
    <2>4. Fit(loops, loop)'
      BY <2>1, <2>2, <2>3, FitStays
    <2> QED BY <1>2, <2>1, <2>4 DEF LoopsKept
  <1> QED BY <1>1, <1>2

-----------------------------------------------------------------------------
(* The stack of a walk.                                                    *)

StackOK(s) == s \in Seq([node : Blocks, it : Nat]) /\ \A j \in DOMAIN s : s[j].it > 0

\* The innermost activation, and the stack when its iterator is advanced.
LEMMA AdvancedShape ==
    ASSUME TypeOK, IteratorsValid, stack # <<>>
    PROVE  /\ Len(stack) \in Nat \ {0} /\ DOMAIN stack = 1 .. Len(stack)
           /\ Top.node \in Blocks /\ Top.it \in Nat \ {0}
           /\ StackOK(Advanced) /\ DOMAIN Advanced = 1 .. Len(stack)
           /\ \A j \in 1 .. Len(stack) :
                /\ stack[j].node \in Blocks
                /\ Advanced[j].node = stack[j].node
                /\ j # Len(stack) => Advanced[j].it = stack[j].it
                /\ j = Len(stack) => Advanced[j].it = stack[j].it + 1
  <1> DEFINE F == [node : Blocks, it : Nat]
             n == Len(stack)
             f == [stack[n] EXCEPT !.it = @ + 1]
  <1>1. stack \in Seq(F) /\ n \in Nat \ {0} /\ DOMAIN stack = 1 .. n
    BY EmptySeq, LenProperties DEF TypeOK
  <1>2. \A j \in 1 .. n : stack[j] \in F /\ stack[j].it > 0
    BY <1>1, ElementOfSeq DEF IteratorsValid
  <1>3. n \in 1 .. n
    BY <1>1
  <1>4. f \in F /\ f.node = stack[n].node /\ f.it = stack[n].it + 1 /\ f.it > 0
    BY <1>2, <1>3
  <1>5. Advanced = [stack EXCEPT ![n] = f]
    BY <1>1, <1>3 DEF Advanced
  <1>6. \A j \in 1 .. n : stack[j].node \in Blocks /\ stack[j].it \in Nat
    BY <1>2
  <1> HIDE DEF F, f
  <1>7. /\ Advanced \in Seq(F) /\ Len(Advanced) = n
        /\ \A j \in 1 .. n : Advanced[j] = IF j = n THEN f ELSE stack[j]
    BY <1>1, <1>3, <1>4, <1>5, ExceptSeq
  <1>8. DOMAIN Advanced = 1 .. n
    BY <1>7
  <1>9. \A j \in 1 .. n : Advanced[j].it > 0
    BY <1>2, <1>4, <1>7
  <1>10. StackOK(Advanced)
    BY <1>7, <1>8, <1>9 DEF StackOK, F
  <1>11. Top.node \in Blocks /\ Top.it \in Nat \ {0}
    BY <1>2, <1>3, <1>6 DEF Top
  <1> QED BY <1>1, <1>4, <1>6, <1>7, <1>8, <1>10, <1>11

\* The stack after a recursive call on v.
LEMMA CallShape ==
    ASSUME TypeOK, IteratorsValid, stack # <<>>, NEW v \in Blocks
    PROVE  LET s == Append(Advanced, Enter(v))
           IN /\ StackOK(s) /\ DOMAIN s = 1 .. Len(stack) + 1
              /\ \A j \in 1 .. Len(stack) : s[j] = Advanced[j]
              /\ s[Len(stack) + 1].node = v /\ s[Len(stack) + 1].it = 1
  <1> DEFINE F == [node : Blocks, it : Nat]
  <1>1. Enter(v) \in F /\ Enter(v).node = v /\ Enter(v).it = 1
    BY DEF Enter
  <1>2. /\ Advanced \in Seq(F) /\ Len(Advanced) = Len(stack) /\ Len(stack) \in Nat
        /\ \A j \in 1 .. Len(stack) : Advanced[j].it > 0
    <2>1. StackOK(Advanced) /\ DOMAIN Advanced = 1 .. Len(stack) /\ Len(stack) \in Nat
      BY AdvancedShape
    <2>2. Advanced \in Seq(F) /\ \A j \in 1 .. Len(stack) : Advanced[j].it > 0
      BY <2>1 DEF StackOK
    <2>3. DOMAIN Advanced = 1 .. Len(Advanced) /\ Len(Advanced) \in Nat
      BY <2>2
    <2> QED BY <2>1, <2>2, <2>3
  <1> HIDE DEF F
  <1>3. LET s == Append(Advanced, Enter(v))
        IN /\ s \in Seq(F) /\ DOMAIN s = 1 .. Len(stack) + 1
           /\ \A j \in 1 .. Len(stack) : s[j] = Advanced[j]
           /\ s[Len(stack) + 1] = Enter(v)
    BY <1>1, <1>2, AppendEntries
  <1>4. \A j \in 1 .. Len(stack) + 1 : j \in 1 .. Len(stack) \/ j = Len(stack) + 1
    BY <1>2
  <1> QED BY <1>1, <1>2, <1>3, <1>4 DEF StackOK, F

\* The stack after a return.
LEMMA FrontShape ==
    ASSUME TypeOK, IteratorsValid, stack # <<>>
    PROVE  /\ StackOK(Front(stack)) /\ DOMAIN Front(stack) = 1 .. Len(stack) - 1
           /\ \A j \in 1 .. Len(stack) - 1 : Front(stack)[j] = stack[j]
  <1>1. /\ Front(stack) \in Seq([node : Blocks, it : Nat])
        /\ DOMAIN Front(stack) = 1 .. Len(stack) - 1
        /\ \A j \in 1 .. Len(stack) - 1 : Front(stack)[j] = stack[j]
    BY FrontEntries DEF TypeOK
  <1>2. Len(stack) \in Nat /\ \A j \in 1 .. Len(stack) : stack[j].it > 0
    BY AdvancedShape DEF IteratorsValid
  <1> QED BY <1>1, <1>2 DEF StackOK

\* The stack when a walk begins.
LEMMA StartShape ==
    ASSUME NEW v \in Blocks
    PROVE  LET s == <<Enter(v)>>
           IN StackOK(s) /\ DOMAIN s = {1} /\ s[1].node = v /\ s[1].it = 1
  BY DEF StackOK, Enter

\* The block under the innermost iterator.
LEMMA SuccessorFacts ==
    ASSUME TypeOK, IteratorsValid, AtSuccessor
    PROVE  /\ stack # <<>> /\ Top.node \in Blocks
           /\ Top.it \in DOMAIN succ[Top.node] /\ Successor \in Blocks
  <1>1. stack # <<>> /\ Top.node \in Blocks /\ Top.it \in Nat \ {0}
    BY AdvancedShape DEF AtSuccessor
  <1>2. succ[Top.node] \in Seq(Blocks)
    BY <1>1 DEF TypeOK, Tree!TypeOK
  <1>3. Top.it \in 1 .. Len(succ[Top.node])
    BY <1>1, <1>2 DEF AtSuccessor
  <1> QED BY <1>1, <1>2, <1>3, ElementOfSeq DEF Successor

-----------------------------------------------------------------------------
(* Every step keeps the invariant.                                         *)

\* No step changes the graph.
LEMMA GraphStays == [Next]_vars => succ' = succ
  <1>1. Tree!Run => succ' = succ
    BY DEF Tree!Run, Tree!graphVars
  <1>2. Tree!Steps => succ' = succ
    BY <1>1 DEF Tree!Steps, Tree!CallDFS, Tree!PassOver, Tree!Return, Tree!MakeForest,
                Tree!EvalPredec, Tree!LinkVertex, Tree!EmptyBucket, Tree!NextVertex, Tree!FixDom,
                Tree!ClearRootDom, Tree!BuildVertex, Tree!Finish, Tree!graphVars
  <1>3. UNCHANGED treeVars => succ' = succ
    BY DEF treeVars
  <1> QED BY <1>1, <1>2, <1>3, TreeRuns

Phases == {"start", "domtree", "dfs", "rpo", "collect", "fill", "root", "assign", "done", "threw"}

\* The types after a step, from the types of what it changes.
LEMMA StepTyped ==
    ASSUME IInv, Tree!TypeOK', LoopsKept, succ' = succ, StackOK(stack'),
           visited' \subseteq Blocks, rpo' \in Seq(Blocks),
           marked' \subseteq Blocks, grays' \subseteq Blocks, todo' \subseteq Blocks,
           at' \in Nat, pc' \in Phases, tree_root' = tree_root \/ tree_root' \in Loops'
    PROVE  /\ TypeOK' /\ succ' \in SuccessorMaps
           /\ PointersRight' /\ IteratorsValid'
           /\ Reachable' = Reachable
           /\ tree_root # Null /\ tree_root' = tree_root => tree_root' # Null
           /\ \A b \in Blocks : loop[b] # Null => loop'[b] # Null
  <1>1. /\ loops' \in Seq(LoopObjects') /\ loop' \in [Blocks -> MaybeLoop']
        /\ PointersRight'
    BY FitTyped DEF LoopsKept
  <1>2. tree_root' \in MaybeLoop'
    <2>1. Loops = 1 .. Len(loops) /\ Len(loops) \in Nat
      BY LoopsShape DEF IInv
    <2>2. Loops' = 1 .. Len(loops') /\ Len(loops') \in Nat /\ Len(loops) <= Len(loops')
      BY <1>1 DEF Loops, LoopsKept, Kept
    <2>3. Loops \subseteq Loops'
      BY <2>1, <2>2
    <2> QED BY <2>3 DEF IInv, TypeOK, MaybeLoop
  <1>3. TypeOK'
    BY <1>1, <1>2 DEF TypeOK, StackOK, Phases
  <1>4. IteratorsValid'
    BY DEF IteratorsValid, StackOK
  <1>5. Reachable' = Reachable
    BY DEF Reachable
  <1> QED BY <1>1, <1>3, <1>4, <1>5 DEF IInv, LoopsKept

\* The types before it.
LEMMA IInvTypes ==
    ASSUME IInv
    PROVE  /\ TypeOK /\ PointersRight /\ IteratorsValid /\ LoopInHand
           /\ StackOK(stack) /\ visited \subseteq Blocks /\ rpo \in Seq(Blocks) /\ Len(rpo) \in Nat
           /\ marked \subseteq Blocks /\ grays \subseteq Blocks /\ todo \subseteq Blocks
           /\ at \in Nat /\ pc \in Phases
           /\ Root \in Blocks /\ StackOK(<<>>)
           /\ \A j \in 1 .. Len(rpo) : rpo[j] \in Blocks
  BY CfgAssumption DEF IInv, TypeOK, IteratorsValid, StackOK, Phases

\* The call of DomTree::Run and its steps.
LEMMA TreeStepKeeps ==
    ASSUME IInv, TreeProofs!IInv', Run \/ BuildDomTree PROVE IInv'
  <1>1. /\ UNCHANGED <<rpoVars, loopVars, walkVars, tree_root>>
        /\ pc' \in {"domtree", "threw"} /\ (pc' = "threw" => tree_pc' = "threw")
    BY DEF Run, BuildDomTree
  <1>2. succ' = succ
    BY GraphStays DEF Next, Steps
  <1>3. LoopsKept
    BY <1>1, UntouchedKept DEF IInv
  <1>4. Tree!TypeOK'
    BY TreeTypes
  <1>5. TypeOK' /\ succ' \in SuccessorMaps /\ PointersRight' /\ IteratorsValid'
    BY <1>1, <1>2, <1>3, <1>4, IInvTypes, StepTyped DEF rpoVars, walkVars, Phases
  <1> QED BY <1>1, <1>5 DEF IInv, LoopInHand

\* The search for back edges.
LEMMA SearchStepKeeps ==
    ASSUME IInv, Tree!TypeOK', succ' = succ, BeginDFS \/ MeetGray \/ MeetBlack \/ MeetNew \/ Return
    PROVE  IInv'
  <1>1. /\ UNCHANGED <<rpoVars, at, todo, tree_root>> /\ pc' = "dfs"
    BY DEF BeginDFS, MeetGray, MeetBlack, MeetNew, Return
  <1>2. LoopsKept
    <2>1. CASE MeetGray
      <3>1. Successor \in Blocks /\ Top.node \in Blocks
        BY <2>1, IInvTypes, SuccessorFacts DEF MeetGray
      <3> QED BY <2>1, <3>1, IInvTypes, BackEdgeKept DEF MeetGray
    <2>2. CASE ~MeetGray
      <3>1. UNCHANGED loopVars
        BY <2>2 DEF BeginDFS, MeetBlack, MeetNew, Return
      <3> QED BY <3>1, IInvTypes, UntouchedKept
    <2> QED BY <2>1, <2>2
  <1>3. StackOK(stack') /\ marked' \subseteq Blocks /\ grays' \subseteq Blocks
    <2>1. CASE BeginDFS
      BY <2>1, IInvTypes, StartShape DEF BeginDFS
    <2>2. CASE MeetGray \/ MeetBlack
      <3>1. stack # <<>> /\ stack' = Advanced /\ UNCHANGED <<marked, grays>>
        BY <2>2 DEF MeetGray, MeetBlack, AtSuccessor
      <3> QED BY <3>1, IInvTypes, AdvancedShape
    <2>3. CASE MeetNew
      <3>1. stack # <<>> /\ Successor \in Blocks
        BY <2>3, IInvTypes, SuccessorFacts DEF MeetNew
      <3>2. StackOK(Append(Advanced, Enter(Successor)))
        BY <3>1, IInvTypes, CallShape
      <3> QED BY <2>3, <3>1, <3>2, IInvTypes DEF MeetNew
    <2>4. CASE Return
      <3>1. StackOK(Front(stack))
        BY <2>4, IInvTypes, FrontShape DEF Return
      <3> QED BY <2>4, <3>1, IInvTypes DEF Return
    <2> QED BY <2>1, <2>2, <2>3, <2>4
  <1>4. TypeOK' /\ succ' \in SuccessorMaps /\ PointersRight' /\ IteratorsValid'
    BY <1>1, <1>2, <1>3, IInvTypes, StepTyped DEF rpoVars, Phases
  <1> QED BY <1>1, <1>4 DEF IInv, LoopInHand

\* The call of RPO::Run, its steps, and what follows.
LEMMA OrderStepKeeps ==
    ASSUME IInv, Tree!TypeOK', succ' = succ, BeginRPO \/ BuildRPO \/ BeginCollect
    PROVE  IInv'
  <1>1. LoopsKept
    <2>1. UNCHANGED loopVars
      BY DEF BeginRPO, BuildRPO, BeginCollect
    <2> QED BY <2>1, IInvTypes, UntouchedKept
  <1>2. pc' = "rpo" => Order!IInv'
    <2>1. CASE BeginRPO
      BY <2>1, OrderBegins DEF BeginRPO, IInv
    <2>2. CASE BuildRPO
      BY <2>2, OrderStep DEF BuildRPO, IInv
    <2>3. CASE BeginCollect
      BY <2>3 DEF BeginCollect
    <2> QED BY <2>1, <2>2, <2>3
  <1>3. visited' \subseteq Blocks /\ rpo' \in Seq(Blocks) /\ Len(rpo') \in Nat
    <2>1. CASE pc' = "rpo"
      BY <1>2, <2>1, OrderTypes
    <2>2. CASE BeginCollect
      BY <2>2, IInvTypes DEF BeginCollect, rpoVars
    <2>3. BeginRPO \/ BuildRPO => pc' = "rpo"
      BY DEF BeginRPO, BuildRPO
    <2> QED BY <2>1, <2>2, <2>3
  <1>4. /\ StackOK(stack') /\ marked' \subseteq Blocks /\ grays' \subseteq Blocks
        /\ todo' \subseteq Blocks /\ tree_root' = tree_root
    BY IInvTypes DEF BeginRPO, BuildRPO, BeginCollect, walkVars
  <1>5. pc' = "rpo" \/ (pc' = "collect" /\ at' = Len(rpo'))
    BY DEF BeginRPO, BuildRPO, BeginCollect, rpoVars
  <1>6. at' \in Nat
    BY <1>3, IInvTypes DEF BeginRPO, BuildRPO, BeginCollect, walkVars, rpoVars
  <1>7. TypeOK' /\ succ' \in SuccessorMaps /\ PointersRight' /\ IteratorsValid'
    BY <1>1, <1>3, <1>4, <1>5, <1>6, IInvTypes, StepTyped DEF Phases
  <1>8. LoopInHand'
    BY <1>3, <1>5 DEF LoopInHand
  <1> QED BY <1>2, <1>5, <1>7, <1>8 DEF IInv

\* CollectLoops, between the loops.
LEMMA CollectStepKeeps ==
    ASSUME IInv, Tree!TypeOK', succ' = succ, SkipBlock \/ OpenLoop \/ CloseLoop
    PROVE  IInv'
  <1>1. LoopsKept
    <2>1. UNCHANGED loopVars
      BY DEF SkipBlock, OpenLoop, CloseLoop
    <2> QED BY <2>1, IInvTypes, UntouchedKept
  <1>2. UNCHANGED <<rpoVars, loopVars, grays, tree_root>>
    BY DEF SkipBlock, OpenLoop, CloseLoop
  <1>3. StackOK(stack')
    BY IInvTypes DEF SkipBlock, OpenLoop, CloseLoop
  <1>4. /\ pc' \in {"collect", "fill"}
        /\ pc' = "collect" => at' \in 0 .. Len(rpo)
        /\ pc' = "fill" => at' \in 1 .. Len(rpo) /\ loop[rpo[at']] # Null
    <2>1. CASE SkipBlock
      <3>1. pc = "collect" /\ at > 0 /\ at' = at - 1 /\ pc' = "collect"
        BY <2>1 DEF SkipBlock
      <3> QED BY <3>1, IInvTypes DEF LoopInHand
    <2>2. CASE OpenLoop
      <3>1. pc = "collect" /\ at > 0 /\ at' = at /\ pc' = "fill" /\ loop[rpo[at]] # Null
        BY <2>2 DEF OpenLoop, IsHeader
      <3> QED BY <3>1, IInvTypes DEF LoopInHand
    <2>3. CASE CloseLoop
      <3>1. pc = "fill" /\ at' = at - 1 /\ pc' = "collect"
        BY <2>3 DEF CloseLoop
      <3> QED BY <3>1, IInvTypes DEF LoopInHand
    <2> QED BY <2>1, <2>2, <2>3
  <1>5. at' \in Nat
    BY <1>4, IInvTypes
  <1>6. marked' \subseteq Blocks /\ todo' \subseteq Blocks
    <2>1. CASE OpenLoop
      <3>1. at \in 1 .. Len(rpo) /\ loop[rpo[at]] # Null
        BY <2>1, <1>4 DEF OpenLoop
      <3>2. rpo[at] \in Blocks
        BY <3>1, IInvTypes
      <3>3. loop[rpo[at]] \in 1 .. Len(loops) /\ loops \in Seq(Objects(Len(loops)))
        BY <3>1, <3>2, IInvTypes, LoopsShape DEF Fit
      <3>4. loops[loop[rpo[at]]] \in Objects(Len(loops))
        BY <3>3, ElementOfSeq
      <3>5. loops[loop[rpo[at]]].back \subseteq Blocks
        BY <3>4 DEF Objects
      <3> QED BY <2>1, <3>2, <3>5 DEF OpenLoop
    <2>2. CASE ~OpenLoop
      BY <2>2, IInvTypes DEF SkipBlock, CloseLoop
    <2> QED BY <2>1, <2>2
  <1>7. TypeOK' /\ succ' \in SuccessorMaps /\ PointersRight' /\ IteratorsValid'
    BY <1>1, <1>2, <1>3, <1>4, <1>5, <1>6, IInvTypes, StepTyped DEF rpoVars, Phases
  <1>8. LoopInHand'
    BY <1>2, <1>4 DEF LoopInHand, rpoVars, loopVars
  <1> QED BY <1>4, <1>7, <1>8 DEF IInv

\* The walk that fills a loop.
LEMMA FillStepKeeps ==
    ASSUME IInv, Tree!TypeOK', succ' = succ,
           WalkPredec \/ LeaveBB \/ \E source \in Blocks : TakeBackEdge(source)
    PROVE  IInv'
  <1>1. /\ UNCHANGED <<rpoVars, grays, at, tree_root>> /\ pc = "fill" /\ pc' = "fill"
        /\ todo' \subseteq todo
    BY DEF WalkPredec, LeaveBB, TakeBackEdge
  <1>2. at \in 1 .. Len(rpo) /\ loop[rpo[at]] # Null /\ rpo[at] \in Blocks
    BY <1>1, IInvTypes DEF LoopInHand
  <1>3. CurLoop \in Loops
    BY <1>2, IInvTypes, LoopsShape DEF CurLoop
  <1>4. LoopsKept /\ StackOK(stack') /\ marked' \subseteq Blocks
    <2>1. CASE WalkPredec
      <3> DEFINE bb == predec[Top.node][Top.it]
      <3>1. stack # <<>> /\ Top.node \in Blocks /\ Top.it \in Nat \ {0}
        BY <2>1, IInvTypes, AdvancedShape DEF WalkPredec
      <3>2. predec[Top.node] \in Seq(Blocks)
        BY <3>1, IInvTypes DEF TypeOK, Tree!TypeOK
      <3>3. Top.it \in 1 .. Len(predec[Top.node])
        BY <2>1, <3>1, <3>2 DEF WalkPredec
      <3>4. bb \in Blocks
        BY <3>2, <3>3, ElementOfSeq
      <3>5. CASE bb \in marked
        <4>1. stack' = Advanced /\ UNCHANGED <<loopVars, marked>>
          BY <2>1, <3>5 DEF WalkPredec
        <4> QED BY <3>1, <4>1, IInvTypes, UntouchedKept, AdvancedShape
      <3>6. CASE bb \notin marked
        <4>1. stack' = Append(Advanced, Enter(bb)) /\ ProcessLoopBBs(bb)
          BY <2>1, <3>6 DEF WalkPredec
        <4> HIDE DEF bb
        <4>2. LoopsKept
          BY <1>3, <3>4, <4>1, IInvTypes, LoopBBKept
        <4>3. StackOK(stack')
          BY <3>1, <3>4, <4>1, IInvTypes, CallShape
        <4>4. marked' \subseteq Blocks
          BY <3>4, <4>1, IInvTypes DEF ProcessLoopBBs
        <4> QED BY <4>2, <4>3, <4>4
      <3> QED BY <3>5, <3>6
    <2>2. CASE LeaveBB
      <3>1. stack # <<>> /\ stack' = Front(stack) /\ UNCHANGED <<loopVars, marked>>
        BY <2>2 DEF LeaveBB
      <3> QED BY <3>1, IInvTypes, UntouchedKept, FrontShape
    <2>3. ASSUME NEW source \in Blocks, TakeBackEdge(source)
          PROVE  LoopsKept /\ StackOK(stack') /\ marked' \subseteq Blocks
      <3>1. CASE source \in marked
        <4>1. UNCHANGED <<loopVars, marked, stack>>
          BY <2>3, <3>1 DEF TakeBackEdge
        <4> QED BY <4>1, IInvTypes, UntouchedKept
      <3>2. CASE source \notin marked
        <4>1. stack' = <<Enter(source)>> /\ ProcessLoopBBs(source)
          BY <2>3, <3>2 DEF TakeBackEdge
        <4>2. LoopsKept
          BY <1>3, <4>1, IInvTypes, LoopBBKept
        <4>3. StackOK(stack')
          BY <4>1, StartShape
        <4>4. marked' \subseteq Blocks
          BY <4>1, IInvTypes DEF ProcessLoopBBs
        <4> QED BY <4>2, <4>3, <4>4
      <3> QED BY <3>1, <3>2
    <2> QED BY <2>1, <2>2, <2>3
  <1>5. /\ TypeOK' /\ succ' \in SuccessorMaps /\ PointersRight' /\ IteratorsValid'
        /\ \A b \in Blocks : loop[b] # Null => loop'[b] # Null
    BY <1>1, <1>4, IInvTypes, StepTyped DEF rpoVars, Phases
  <1>6. LoopInHand'
    BY <1>1, <1>2, <1>5 DEF LoopInHand, rpoVars
  <1> QED BY <1>1, <1>5, <1>6 DEF IInv

\* The new root loop and its first block.
LEMMA NewRootKeeps ==
    ASSUME IInv, Tree!TypeOK', succ' = succ, NewRootLoop PROVE IInv'
  <1> DEFINE n == Len(loops)
             ls == Append(loops, NewLoop(Null, FALSE))
  <1>1. n \in Nat /\ loops \in Seq(Objects(n))
    BY IInvTypes, LoopsShape DEF Fit
  <1>2. ls \in Seq(Objects(n + 1)) /\ Len(ls) = n + 1 /\ Kept(loops, ls)
    BY <1>1, NewLoopFacts DEF MaybeBlock
  <1>3. /\ tree_root' = n + 1 /\ ProcessRootBB(ls, n + 1, Root) /\ pc' = "root"
        /\ marked' = {Root} /\ stack' = <<Enter(Root)>>
        /\ UNCHANGED <<rpoVars, grays, at, todo>>
    BY DEF NewRootLoop
  <1> HIDE DEF ls
  <1>4. ls \in Seq(Objects(Len(ls))) /\ n + 1 \in 1 .. Len(ls)
    BY <1>1, <1>2
  <1>5. LoopsKept /\ loop'[Root] # Null /\ Len(loops') = n + 1
    BY <1>2, <1>3, <1>4, IInvTypes, RootBBKept
  <1>6. tree_root' \in Loops' /\ tree_root' # Null
    <2>1. Loops' = 1 .. Len(loops')
      BY <1>5 DEF Loops, LoopsKept, Fit
    <2> QED BY <1>1, <1>3, <1>5, <2>1, CfgAssumption
  <1>7. StackOK(stack') /\ DOMAIN stack' = {1} /\ stack'[1].node = Root /\ stack'[1].it = 1
    BY <1>3, IInvTypes, StartShape
  <1>8. TypeOK' /\ succ' \in SuccessorMaps /\ PointersRight' /\ IteratorsValid'
    BY <1>3, <1>5, <1>6, <1>7, IInvTypes, StepTyped DEF rpoVars, Phases
  <1>9. RootWalk'
    <2>1. \A m \in DOMAIN succ'[Root] : ~(m < 1)
      <3>1. succ'[Root] \in Seq(Blocks)
        BY IInvTypes DEF Tree!TypeOK
      <3> QED BY <3>1
    <2> QED BY <1>3, <1>5, <1>7, <2>1 DEF RootWalk
  <1> QED BY <1>3, <1>6, <1>8, <1>9 DEF IInv, LoopInHand

\* CollectRootLoop goes on to a successor.
LEMMA WalkSuccKeeps ==
    ASSUME IInv, Tree!TypeOK', succ' = succ, WalkSucc PROVE IInv'
  <1> DEFINE n == Len(stack)
  <1>1. /\ pc = "root" /\ pc' = "root" /\ AtSuccessor
        /\ UNCHANGED <<rpoVars, grays, at, todo, tree_root>>
    BY DEF WalkSucc
  <1>2. /\ RootWalk /\ tree_root # Null
    BY <1>1 DEF IInv
  <1>3. /\ stack # <<>> /\ Top.node \in Blocks /\ Successor \in Blocks
        /\ Top.it \in DOMAIN succ[Top.node]
    BY <1>1, IInvTypes, SuccessorFacts
  <1>4. /\ n \in Nat \ {0} /\ DOMAIN stack = 1 .. n
        /\ StackOK(Advanced) /\ DOMAIN Advanced = 1 .. n
        /\ \A j \in 1 .. n :
             /\ stack[j].node \in Blocks
             /\ Advanced[j].node = stack[j].node
             /\ j # n => Advanced[j].it = stack[j].it
             /\ j = n => Advanced[j].it = stack[j].it + 1
    BY <1>3, IInvTypes, AdvancedShape
  <1>5. /\ LoopsKept /\ StackOK(stack')
        /\ marked' = marked \cup {Successor} /\ loop'[Successor] # Null
        /\ DOMAIN stack' = 1 .. n \/ DOMAIN stack' = 1 .. n + 1
        /\ \A j \in 1 .. n : stack'[j] = Advanced[j]
        /\ \A j \in DOMAIN stack' \ 1 .. n : stack'[j].node = Successor /\ stack'[j].it = 1
        /\ Successor \notin marked => \E j \in DOMAIN stack' : stack'[j].node = Successor
    <2>1. CASE Successor \in marked
      <3>1. stack' = Advanced /\ UNCHANGED <<loopVars, marked>>
        BY <2>1 DEF WalkSucc
      <3>2. LoopsKept /\ loop'[Successor] # Null
        BY <1>2, <2>1, <3>1, IInvTypes, UntouchedKept DEF RootWalk, loopVars
      <3> QED BY <1>4, <2>1, <3>1, <3>2
    <2>2. CASE Successor \notin marked
      <3>1. /\ stack' = Append(Advanced, Enter(Successor)) /\ marked' = marked \cup {Successor}
            /\ ProcessRootBB(loops, tree_root, Successor)
        BY <2>2 DEF WalkSucc
      <3>2. tree_root \in 1 .. Len(loops) /\ loops \in Seq(Objects(Len(loops))) /\ Kept(loops, loops)
        BY <1>2, IInvTypes, LoopsShape DEF TypeOK, MaybeLoop, Fit, Kept
      <3>3. LoopsKept /\ loop'[Successor] # Null
        BY <1>3, <3>1, <3>2, IInvTypes, RootBBKept
      <3>4. /\ StackOK(stack') /\ DOMAIN stack' = 1 .. n + 1
            /\ \A j \in 1 .. n : stack'[j] = Advanced[j]
            /\ stack'[n + 1].node = Successor /\ stack'[n + 1].it = 1
        BY <1>3, <3>1, IInvTypes, CallShape
      <3>5. n + 1 \in 1 .. n + 1 /\ \A j \in 1 .. n + 1 : j \in 1 .. n \/ j = n + 1
        <4>1. n \in Nat
          BY <1>4
        <4> HIDE DEF n
        <4> QED BY <4>1
      <3> QED BY <3>1, <3>3, <3>4, <3>5
    <2> QED BY <2>1, <2>2
  <1>6. /\ TypeOK' /\ succ' \in SuccessorMaps /\ PointersRight' /\ IteratorsValid'
        /\ tree_root' # Null
        /\ \A b \in Blocks : loop[b] # Null => loop'[b] # Null
    <2>1. marked' \subseteq Blocks
      BY <1>3, <1>5, IInvTypes
    <2> QED BY <1>1, <1>2, <1>5, <2>1, IInvTypes, StepTyped DEF rpoVars, Phases
  <1>7. RootWalk'
    <2>1. Root \in marked' /\ \A b \in marked' : loop'[b] # Null
      BY <1>2, <1>5, <1>6, IInvTypes DEF RootWalk
    <2>2. ASSUME NEW j \in DOMAIN stack'
          PROVE  /\ stack'[j].node \in marked'
                 /\ \A m \in DOMAIN succ[stack'[j].node] :
                       m < stack'[j].it => succ[stack'[j].node][m] \in marked'
      <3>1. CASE j \in 1 .. n
        <4>1. j \in DOMAIN stack /\ stack'[j].node = stack[j].node /\ stack'[j].it = Advanced[j].it
          BY <1>4, <1>5, <3>1
        <4>2. stack[j].node \in marked
          BY <1>2, <4>1 DEF RootWalk
        <4>3. ASSUME NEW m \in DOMAIN succ[stack[j].node], m < stack'[j].it
              PROVE  succ[stack[j].node][m] \in marked'
          <5>1. CASE m < stack[j].it
            BY <1>2, <1>5, <4>1, <5>1 DEF RootWalk
          <5>2. CASE ~(m < stack[j].it)
            <6>1. stack[j].it \in Nat /\ m \in Nat
              <7>1. stack[j] \in [node : Blocks, it : Nat]
                BY <1>4, <3>1, ElementOfSeq, IInvTypes DEF TypeOK
              <7>2. succ[stack[j].node] \in Seq(Blocks)
                BY <1>4, <3>1, IInvTypes DEF TypeOK, Tree!TypeOK
              <7> QED BY <7>1, <7>2
            <6>2. j = n /\ m = stack[j].it
              BY <1>4, <3>1, <4>1, <4>3, <5>2, <6>1
            <6>3. succ[stack[j].node][m] = Successor
              BY <6>2 DEF Successor, Top
            <6> QED BY <1>5, <6>3
          <5> QED BY <5>1, <5>2
        <4> QED BY <1>5, <4>1, <4>2, <4>3
      <3>2. CASE j \notin 1 .. n
        <4>1. stack'[j].node = Successor /\ stack'[j].it = 1
          BY <1>5, <3>2
        <4>2. \A m \in DOMAIN succ[Successor] : ~(m < 1)
          <5>1. succ[Successor] \in Seq(Blocks)
            BY <1>3, IInvTypes DEF TypeOK, Tree!TypeOK
          <5> QED BY <5>1
        <4> QED BY <1>5, <4>1, <4>2
      <3> QED BY <3>1, <3>2
    <2>3. ASSUME NEW b \in marked'
          PROVE  ToSet(succ[b]) \subseteq marked' \/ \E j \in DOMAIN stack' : stack'[j].node = b
      <3>1. CASE b \in marked
        <4>1. \A j \in DOMAIN stack : j \in DOMAIN stack' /\ stack'[j].node = stack[j].node
          BY <1>4, <1>5
        <4> QED BY <1>2, <1>5, <3>1, <4>1 DEF RootWalk
      <3>2. CASE b \notin marked
        BY <1>5, <3>2
      <3> QED BY <3>1, <3>2
    <2> QED BY <2>1, <2>2, <2>3 DEF RootWalk
  <1> QED BY <1>1, <1>6, <1>7 DEF IInv, LoopInHand

\* CollectRootLoop returns from a block, or altogether.
LEMMA RootReturnKeeps ==
    ASSUME IInv, Tree!TypeOK', succ' = succ, LeaveRootBB \/ BeginAssign PROVE IInv'
  <1>1. /\ pc = "root" /\ UNCHANGED <<rpoVars, loopVars, grays, todo, tree_root>>
        /\ RootWalk /\ tree_root # Null
    BY DEF LeaveRootBB, BeginAssign, IInv
  <1>2. LoopsKept /\ loop' = loop
    BY <1>1, IInvTypes, UntouchedKept DEF loopVars
  <1>3. CASE LeaveRootBB
    <2>1. /\ stack # <<>> /\ ~AtSuccessor /\ stack' = Front(stack)
          /\ UNCHANGED <<marked, at>> /\ pc' = "root"
      BY <1>3 DEF LeaveRootBB
    <2>2. /\ StackOK(stack') /\ DOMAIN stack' = 1 .. Len(stack) - 1
          /\ \A j \in 1 .. Len(stack) - 1 : stack'[j] = stack[j]
      BY <2>1, IInvTypes, FrontShape
    <2>3. /\ Len(stack) \in Nat \ {0} /\ DOMAIN stack = 1 .. Len(stack)
          /\ Top.node \in Blocks /\ Top.it \in Nat \ {0}
      BY <2>1, IInvTypes, AdvancedShape
    <2>4. /\ TypeOK' /\ succ' \in SuccessorMaps /\ PointersRight' /\ IteratorsValid'
          /\ tree_root' # Null
      BY <1>1, <1>2, <2>1, <2>2, IInvTypes, StepTyped DEF rpoVars, Phases
    <2>5. \A j \in DOMAIN stack' : j \in DOMAIN stack /\ stack'[j] = stack[j]
      BY <2>2, <2>3
    <2>6. ToSet(succ[Top.node]) \subseteq marked
      <3>1. succ[Top.node] \in Seq(Blocks)
        BY <2>3, IInvTypes DEF TypeOK, Tree!TypeOK
      <3>2. \A m \in DOMAIN succ[Top.node] : m < Top.it
        BY <2>1, <2>3, <3>1 DEF AtSuccessor
      <3>3. \A m \in DOMAIN succ[Top.node] : succ[Top.node][m] \in marked
        BY <1>1, <2>3, <3>2 DEF RootWalk, Top
      <3> QED BY <3>3 DEF ToSet
    <2>7. ASSUME NEW b \in marked
          PROVE  ToSet(succ[b]) \subseteq marked \/ \E j \in DOMAIN stack' : stack'[j].node = b
      <3>1. CASE b = Top.node
        BY <2>6, <3>1
      <3>2. CASE b # Top.node /\ ~(ToSet(succ[b]) \subseteq marked)
        <4>1. PICK j \in DOMAIN stack : stack[j].node = b
          BY <1>1, <3>2 DEF RootWalk
        <4>2. j \in DOMAIN stack' /\ stack'[j] = stack[j]
          BY <2>2, <2>3, <3>2, <4>1 DEF Top
        <4> QED BY <4>1, <4>2
      <3> QED BY <3>1, <3>2
    <2>8. RootWalk'
      BY <1>1, <1>2, <2>1, <2>5, <2>7 DEF RootWalk
    <2> QED BY <2>1, <2>4, <2>8 DEF IInv, LoopInHand
  <1>4. CASE BeginAssign
    <2>1. stack = <<>> /\ marked' = {} /\ at' = 1 /\ pc' = "assign" /\ stack' = stack
      BY <1>4 DEF BeginAssign
    <2>2. /\ TypeOK' /\ succ' \in SuccessorMaps /\ PointersRight' /\ IteratorsValid'
          /\ tree_root' # Null /\ Reachable' = Reachable
      BY <1>1, <1>2, <2>1, IInvTypes, StepTyped DEF rpoVars, Phases
    <2>3. Closed(succ, marked)
      BY <1>1, <2>1 DEF RootWalk, Closed
    <2>4. Reachable \subseteq marked
      BY <1>1, <2>3, IInvTypes, ReachWithinClosed DEF RootWalk, Reachable, TypeOK, Tree!TypeOK
    <2>5. \A b \in Reachable' : loop'[b] # Null
      BY <1>1, <1>2, <2>2, <2>4 DEF RootWalk
    <2> QED BY <2>1, <2>2, <2>5 DEF IInv, LoopInHand
  <1> QED BY <1>3, <1>4

\* AssignRootLoop, and the end of Run.
LEMMA AssignStepKeeps ==
    ASSUME IInv, Tree!TypeOK', succ' = succ, AssignRootLoop \/ Finish PROVE IInv'
  <1>1. /\ UNCHANGED <<rpoVars, marked, grays, stack, todo, tree_root>>
        /\ pc = "assign" /\ pc' \in {"assign", "done"}
        /\ at' = at \/ at' = at + 1
    BY DEF AssignRootLoop, Finish, walkVars
  <1>2. tree_root # Null /\ (\A b \in Reachable : loop[b] # Null) /\ at > 0
    BY <1>1 DEF IInv, LoopInHand
  <1>3. LoopsKept
    <2>1. CASE /\ AssignRootLoop
               /\ IsHeader(rpo[at]) /\ loops[loop[rpo[at]]].predec = <<>>
      <3>1. at \in 1 .. Len(rpo) /\ loop' = loop
            /\ loops' = Nested(loops, tree_root, loop[rpo[at]])
        BY <1>2, <2>1, IInvTypes DEF AssignRootLoop
      <3>2. loop[rpo[at]] \in Loops
        BY <2>1, <3>1, IInvTypes, LoopsShape DEF IsHeader
      <3>3. tree_root \in Loops
        BY <1>2, IInvTypes DEF TypeOK, MaybeLoop
      <3> QED BY <3>1, <3>2, <3>3, IInvTypes, NestedKept
    <2>2. CASE ~(/\ AssignRootLoop
                 /\ IsHeader(rpo[at]) /\ loops[loop[rpo[at]]].predec = <<>>)
      <3>1. UNCHANGED loopVars
        BY <2>2 DEF AssignRootLoop, Finish, loopVars
      <3> QED BY <3>1, IInvTypes, UntouchedKept
    <2> QED BY <2>1, <2>2
  <1>4. /\ TypeOK' /\ succ' \in SuccessorMaps /\ PointersRight' /\ IteratorsValid'
        /\ tree_root' # Null /\ Reachable' = Reachable
        /\ \A b \in Blocks : loop[b] # Null => loop'[b] # Null
    <2>1. at' \in Nat
      BY <1>1, IInvTypes
    <2> QED BY <1>1, <1>2, <1>3, <2>1, IInvTypes, StepTyped DEF rpoVars, Phases
  <1>5. Reachable \subseteq Blocks
    BY IInvTypes, ReachTyped DEF Reachable, TypeOK, Tree!TypeOK
  <1>6. \A b \in Reachable' : loop'[b] # Null
    BY <1>2, <1>4, <1>5
  <1>7. LoopInHand'
    BY <1>1, <1>2, IInvTypes DEF LoopInHand
  <1> QED BY <1>1, <1>4, <1>6, <1>7 DEF IInv

-----------------------------------------------------------------------------
(* The theorems.                                                           *)

\* LoopAnalyzer::Run keeps the invariant.
THEOREM Invariance == Spec => []IInv
  <1>1. Init /\ TreeProofs!IInv => IInv
    <2> SUFFICES ASSUME Init, TreeProofs!IInv PROVE IInv
      OBVIOUS
    <2>1. Tree!TypeOK
      BY TreeTypes
    <2>2. loops = <<>> /\ DOMAIN loops = {} /\ loops \in Seq(LoopObjects)
      BY DEF Init
    <2>3. TypeOK
      BY <2>1, <2>2 DEF Init, TypeOK, MaybeLoop
    <2>4. PointersRight /\ IteratorsValid
      BY DEF Init, PointersRight, IteratorsValid
    <2>5. succ \in SuccessorMaps
      BY DEF Init, Tree!Init, SuccessorMaps
    <2> QED BY <2>3, <2>4, <2>5 DEF Init, IInv, LoopInHand
  <1>2. IInv /\ TreeProofs!IInv' /\ [Next]_vars => IInv'
    <2> SUFFICES ASSUME IInv, TreeProofs!IInv', [Next]_vars PROVE IInv'
      OBVIOUS
    <2>1. Tree!TypeOK' /\ succ' = succ
      BY TreeTypes, GraphStays
    <2>2. CASE Run \/ BuildDomTree
      BY <2>2, TreeStepKeeps
    <2>3. CASE BeginDFS \/ MeetGray \/ MeetBlack \/ MeetNew \/ Return
      BY <2>1, <2>3, SearchStepKeeps
    <2>4. CASE BeginRPO \/ BuildRPO \/ BeginCollect
      BY <2>1, <2>4, OrderStepKeeps
    <2>5. CASE SkipBlock \/ OpenLoop \/ CloseLoop
      BY <2>1, <2>5, CollectStepKeeps
    <2>6. CASE WalkPredec \/ LeaveBB \/ \E source \in Blocks : TakeBackEdge(source)
      BY <2>1, <2>6, FillStepKeeps
    <2>7. CASE NewRootLoop
      BY <2>1, <2>7, NewRootKeeps
    <2>8. CASE WalkSucc
      BY <2>1, <2>8, WalkSuccKeeps
    <2>9. CASE LeaveRootBB \/ BeginAssign
      BY <2>1, <2>9, RootReturnKeeps
    <2>10. CASE AssignRootLoop \/ Finish
      BY <2>1, <2>10, AssignStepKeeps
    <2>11. CASE Ended \/ UNCHANGED vars
      <3>1. UNCHANGED <<treeVars, rpoVars, loopVars, walkVars, tree_root, pc>>
        BY <2>11 DEF Ended, vars
      <3>2. UNCHANGED <<visited, rpo_stack, rpo, rpo_pc, loop, loops, marked, grays, stack, at, todo,
                        tree_root, pc, succ, tree_pc>>
        BY <3>1 DEF treeVars, rpoVars, loopVars, walkVars
      <3>3. LoopsKept
        BY <3>1, IInvTypes, UntouchedKept
      <3>4. TypeOK' /\ succ' \in SuccessorMaps /\ PointersRight' /\ IteratorsValid'
        BY <2>1, <3>2, <3>3, IInvTypes, StepTyped
      <3>5. Order!IInv' <=> Order!IInv
        BY <3>2 DEF Order!IInv, Order!TypeOK, Order!Walking, Order!VisitedSplit, Order!Active,
                    Order!Finished, Order!ActiveChain, Order!VisitedReachable, Order!Reachable,
                    Order!PassedVisited, Order!FinishedOrder, Order!ActivePathAvoids,
                    Order!DominatorsOpen, Order!ListsReachableOnce, Order!EdgesGoForward,
                    Order!DominatorsComeFirst
      <3>6. LoopInHand' /\ (pc = "root" => RootWalk')
        BY <3>2 DEF IInv, LoopInHand, RootWalk
      <3>7. Reachable' = Reachable
        BY <3>2 DEF Reachable
      <3> QED BY <3>2, <3>4, <3>5, <3>6, <3>7 DEF IInv
    <2> QED BY <2>2, <2>3, <2>4, <2>5, <2>6, <2>7, <2>8, <2>9, <2>10, <2>11 DEF Next, Steps
  <1> QED BY <1>1, <1>2, TreeInvariance, PTL DEF Spec

\* Every component of the state has its type: no pass reads a loop that does not
\* exist or a position outside a vector.
THEOREM Typed == Spec => []TypeOK
  <1>1. IInv => TypeOK
    BY DEF IInv
  <1> QED BY <1>1, Invariance, PTL

\* After any number of runs on any graph every reachable block points to a loop
\* that it belongs to.
THEOREM EveryBlockInItsLoop == Spec => []OwnLoopContainsBlock
  <1>1. IInv => OwnLoopContainsBlock
    <2> SUFFICES ASSUME IInv, pc = "done", NEW b \in Reachable
                 PROVE  loop[b] # Null /\ InOwnLoop(b)
      BY DEF OwnLoopContainsBlock, InOwnLoop
    <2>1. b \in Blocks
      BY IInvTypes, ReachTyped DEF Reachable, TypeOK, Tree!TypeOK
    <2>2. loop[b] # Null
      BY DEF IInv
    <2> QED BY <2>1, <2>2 DEF IInv, PointersRight
  <1> QED BY <1>1, Invariance, PTL

\* LoopAnalyzer::Run throws only for the graphs DomTree::Run throws for.
THEOREM ThrowsAsDomTree ==
    Spec => [](pc = "threw" => Occurs(succ, Root, Root) \/ Tree!HasUnreachablePredec)
  <1>1. IInv /\ TreeProofs!IInv /\ pc = "threw"
        => Occurs(succ, Root, Root) \/ Tree!HasUnreachablePredec
    <2>1. IInv /\ pc = "threw" => tree_pc = "threw"
      BY DEF IInv
    <2>2. TreeProofs!IInv /\ tree_pc = "threw"
          => TreeProofs!Occurs(succ, Root, Root) \/ TreeProofs!HasUnreachablePredec
      BY DEF TreeProofs!IInv, TreeProofs!ThrowsExactlyOn
    <2>3. TreeProofs!Occurs(succ, Root, Root) => Occurs(succ, Root, Root)
      BY DEF TreeProofs!Occurs, TreeProofs!ToSet, Occurs, ToSet
    <2>4. TreeProofs!HasUnreachablePredec => Tree!HasUnreachablePredec
      BY Zenon DEF Tree!HasUnreachablePredec, TreeProofs!HasUnreachablePredec, Tree!Reachable,
                   TreeProofs!Reachable, Tree!ReachFrom, TreeProofs!ReachFrom, Tree!Closed,
                   TreeProofs!Closed, Tree!ToSet, TreeProofs!ToSet
    <2> QED BY <2>1, <2>2, <2>3, <2>4
  <1> QED BY <1>1, Invariance, TreeInvariance, PTL
=============================================================================
