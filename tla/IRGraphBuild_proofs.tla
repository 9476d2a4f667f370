------------------------- MODULE IRGraphBuild_proofs -------------------------
(***************************************************************************)
(* For every instruction list, every limit on the length of a block and    *)
(* any number of copies: the constructor's blocks tile the list, own its   *)
(* instructions and are linked as control flows between them.              *)
(***************************************************************************)
EXTENDS IRGraphBuild, ControlFlow_proofs

BBObjects == [first : Insts, last : Insts, graph : 1 .. MaxCopies + 1]

\* The list and the blocks of a state with correct types.
LEMMA ListShape ==
    ASSUME insts \in Programs
    PROVE  /\ insts \in Seq([type : InstTypes, target : Nat, dest : BOOLEAN])
           /\ Len(insts) \in Nat /\ Insts = 1..Len(insts)
           /\ \A n \in Insts : /\ insts[n].type \in InstTypes
                               /\ IsJumpInst(n) => insts[n].target \in Insts
  <1>1. insts \in Seq([type : InstTypes, target : Nat, dest : BOOLEAN])
    BY ProgramAssumption
  <1>2. Len(insts) \in Nat /\ Insts = 1..Len(insts)
    BY <1>1, LenProperties DEF Insts
  <1>3. \A n \in Insts : insts[n].type \in InstTypes
    <2>1. \A n \in Insts : insts[n] \in [type : InstTypes, target : Nat, dest : BOOLEAN]
      BY <1>1, <1>2, ElementOfSeq
    <2> QED BY <2>1
  <1>4. \A n \in Insts : IsJumpInst(n) => insts[n].target \in Insts
    BY ProgramAssumption DEF IsJumpInst, Insts
  <1> QED BY <1>1, <1>2, <1>3, <1>4

\* The blocks are numbered from 1.
LEMMA BBShape ==
    ASSUME TypeOK
    PROVE  /\ bbs \in Seq(BBObjects)
           /\ Len(bbs) \in Nat /\ BBs = 1..Len(bbs)
           /\ \A bb \in BBs : bbs[bb].first \in Insts /\ bbs[bb].last \in Insts
           /\ Len(bbs_in_order) \in Nat /\ DOMAIN bbs_in_order = 1..Len(bbs_in_order)
           /\ \A j \in 1..Len(bbs_in_order) : bbs_in_order[j] \in BBs
           /\ NewestBBs \subseteq BBs
           /\ \A bb : bb \in NewestBBs <=> \E j \in 1..Len(bbs_in_order) : bbs_in_order[j] = bb
  <1>1. bbs \in Seq(BBObjects) /\ bbs_in_order \in Seq(BBs)
    BY DEF TypeOK, BBObjects
  <1>2. Len(bbs) \in Nat /\ BBs = 1..Len(bbs)
    BY <1>1, LenProperties DEF BBs
  <1>3. \A bb \in BBs : bbs[bb] \in BBObjects
    BY <1>1, <1>2, ElementOfSeq
  <1>4. \A bb \in BBs : bbs[bb].first \in Insts /\ bbs[bb].last \in Insts
    BY <1>3 DEF BBObjects
  <1>5. Len(bbs_in_order) \in Nat /\ DOMAIN bbs_in_order = 1..Len(bbs_in_order)
    BY <1>1, LenProperties
  <1>6. \A j \in 1..Len(bbs_in_order) : bbs_in_order[j] \in BBs
    BY <1>1, <1>5, ElementOfSeq
  <1>7. \A bb : bb \in NewestBBs <=> \E j \in 1..Len(bbs_in_order) : bbs_in_order[j] = bb
    BY <1>5 DEF NewestBBs, ToSet
  <1> QED BY <1>1, <1>2, <1>4, <1>5, <1>6, <1>7

\* The last cut lies behind the newest block, and it is one before the block
\* the walker is in.
LEMMA CutEndShape ==
    ASSUME IInv
    PROVE  /\ CutEnd \in 0..Len(insts)
           /\ bbs_in_order = <<>> <=> Len(bbs_in_order) = 0
           /\ Len(bbs_in_order) > 0 =>
                CutEnd = bbs[bbs_in_order[Len(bbs_in_order)]].last
           /\ Len(bbs_in_order) = 0 => CutEnd = 0
           /\ inst_cnt \in Nat /\ walker \in Nat \ {0}
           /\ walker = FirstInBB + inst_cnt
           /\ FirstInBB = CutEnd + 1 /\ FirstInBB <= walker
  <1>1. /\ Len(bbs_in_order) \in Nat
        /\ \A j \in 1..Len(bbs_in_order) : bbs_in_order[j] \in BBs
        /\ \A bb \in BBs : bbs[bb].last \in Insts
    BY BBShape DEF IInv
  <1>2. Insts = 1..Len(insts) /\ Len(insts) \in Nat
    BY ListShape DEF IInv
  <1>3. bbs_in_order = <<>> <=> Len(bbs_in_order) = 0
    BY EmptySeq DEF IInv, TypeOK
  <1>4. CutEnd = IF Len(bbs_in_order) = 0 THEN 0 ELSE bbs[bbs_in_order[Len(bbs_in_order)]].last
    BY <1>3 DEF CutEnd, Last
  <1>5. CutEnd \in 0..Len(insts)
    BY <1>1, <1>2, <1>4
  <1>6. inst_cnt \in Nat
    BY ProgramAssumption DEF IInv, TypeOK
  <1>7. walker = CutEnd + inst_cnt + 1 /\ (inst_cnt > 0 => first_in_bb = CutEnd + 1)
    BY DEF IInv, WalkerInStep
  <1>8. FirstInBB = CutEnd + 1
    <2>1. CASE inst_cnt = 0
      BY <1>2, <1>5, <1>7, <2>1 DEF FirstInBB
    <2>2. CASE inst_cnt > 0
      BY <1>6, <1>7, <2>2 DEF FirstInBB
    <2> QED BY <1>6, <2>1, <2>2
  <1>9. walker \in Nat \ {0} /\ walker = FirstInBB + inst_cnt /\ FirstInBB <= walker
    BY <1>2, <1>5, <1>6, <1>7, <1>8
  <1> QED BY <1>3, <1>4, <1>5, <1>6, <1>8, <1>9

-----------------------------------------------------------------------------
\* What the constructor of a block does to the blocks and the order.
LEMMA CutShape ==
    ASSUME IInv, CutHere
    PROVE  LET new == Len(bbs) + 1
               m == Len(bbs_in_order)
           IN /\ FirstInBB \in Insts /\ walker \in Insts
              /\ BBs' = BBs \cup {new} /\ new \notin BBs /\ Len(bbs') = new
              /\ \A bb \in BBs : bbs'[bb] = bbs[bb]
              /\ bbs'[new].first = FirstInBB /\ bbs'[new].last = walker
              /\ bbs' \in Seq(BBObjects)
              /\ Len(bbs_in_order') = m + 1 /\ DOMAIN bbs_in_order' = 1 .. m + 1
              /\ \A j \in 1..m : bbs_in_order'[j] = bbs_in_order[j]
              /\ bbs_in_order'[m + 1] = new
              /\ bbs_in_order' \in Seq(BBs')
              /\ NewestBBs' = NewestBBs \cup {new}
              /\ CutEnd' = walker
  <1> DEFINE new == Len(bbs) + 1
             m == Len(bbs_in_order)
             object == [first |-> FirstInBB, last |-> walker, graph |-> CurGraph]
  <1>1. /\ pc = "cut" /\ walker <= Len(insts)
        /\ bbs' = Append(bbs, object) /\ bbs_in_order' = Append(bbs_in_order, new)
    BY DEF CutHere, NewBB
  <1>2. /\ bbs \in Seq(BBObjects) /\ Len(bbs) \in Nat /\ BBs = 1..Len(bbs)
        /\ m \in Nat /\ bbs_in_order \in Seq(BBs)
    BY BBShape DEF IInv, TypeOK
  <1>3. FirstInBB \in Insts /\ walker \in Insts
    BY <1>1, CutEndShape, ListShape DEF IInv
  <1>4. CurGraph \in 1 .. MaxCopies + 1
    <2>1. Len(graphs) \in Nat
      BY LenProperties DEF IInv, TypeOK
    <2>2. Len(graphs) <= MaxCopies
      BY <1>1 DEF IInv, CountersInStep
    <2> QED BY <2>1, <2>2, ProgramAssumption DEF CurGraph
  <1>5. object \in BBObjects
    BY <1>3, <1>4 DEF BBObjects
  <1>6. object.first = FirstInBB /\ object.last = walker
    OBVIOUS
  <1> HIDE DEF object
  <1>7. /\ bbs' \in Seq(BBObjects) /\ Len(bbs') = new /\ DOMAIN bbs' = 1..new
        /\ \A bb \in BBs : bbs'[bb] = bbs[bb]
        /\ bbs'[new] = object
    BY <1>1, <1>2, <1>5, AppendEntries
  <1>8. BBs' = BBs \cup {new} /\ new \notin BBs
    BY <1>2, <1>7 DEF BBs
  <1>9. bbs_in_order \in Seq(BBs') /\ new \in BBs'
    BY <1>2, <1>8
  <1>10. /\ bbs_in_order' \in Seq(BBs') /\ Len(bbs_in_order') = m + 1
         /\ DOMAIN bbs_in_order' = 1 .. m + 1
         /\ \A j \in 1..m : bbs_in_order'[j] = bbs_in_order[j]
         /\ bbs_in_order'[m + 1] = new
         /\ ToSet(bbs_in_order') = ToSet(bbs_in_order) \cup {new}
    BY <1>1, <1>9, AppendEntries
  <1>11. CutEnd' = walker
    <2>1. bbs_in_order' # <<>>
      BY <1>2, <1>10, EmptySeq
    <2> QED BY <1>6, <1>7, <1>10, <2>1 DEF CutEnd, Last
  <1> QED BY <1>3, <1>6, <1>7, <1>8, <1>10, <1>11 DEF NewestBBs

\* The graphs that are finished stay what they are when blocks are added.
GraphObjects(b) == [bb_set : SUBSET b, root : b \cup {0},
                    first : Insts \cup {0}, last : Insts \cup {0}]

\* Cutting a block off keeps the types.
LEMMA CutTypes == ASSUME IInv, CutHere PROVE TypeOK'
  <1> DEFINE new == Len(bbs) + 1
  <1>1. /\ insts' = insts /\ graphs' = graphs /\ pc' = pc /\ inst_cnt' = 0
        /\ parent' = [n \in Insts |-> IF n >= FirstInBB THEN new ELSE parent[n]]
        /\ succ' = Append(succ, <<>>) /\ predec' = Append(predec, <<>>)
    BY DEF CutHere, NewBB
  <1>2. Insts' = Insts /\ parent \in [Insts -> BBs \cup {0}]
    BY <1>1 DEF Insts, IInv, TypeOK
  <1>3. /\ BBs' = BBs \cup {new} /\ bbs' \in Seq(BBObjects) /\ bbs_in_order' \in Seq(BBs')
        /\ new \notin BBs
    BY CutShape
  <1>4. parent' \in [Insts -> BBs' \cup {0}]
    BY <1>1, <1>2, <1>3
  <1>5. Len(bbs) \in Nat /\ BBs = 1..Len(bbs)
    BY BBShape DEF IInv
  <1>6. ASSUME NEW vec \in [BBs -> Seq(BBs)] PROVE Append(vec, <<>>) \in [BBs' -> Seq(BBs')]
    <2>1. vec \in Seq(Seq(BBs')) /\ Len(vec) = Len(bbs)
      <3>1. vec \in [1..Len(bbs) -> Seq(BBs')]
        BY <1>3, <1>5, SeqGrows
      <3> QED BY <1>5, <3>1
    <2>2. /\ Append(vec, <<>>) \in Seq(Seq(BBs')) /\ Len(Append(vec, <<>>)) = new
      <3>1. <<>> \in Seq(BBs')
        OBVIOUS
      <3> QED BY <2>1, <3>1, AppendEntries
    <2>3. BBs' = 1..new
      BY <1>3, <1>5
    <2> QED BY <2>2, <2>3, LenProperties
  <1>7. graphs' \in Seq(GraphObjects(BBs'))
    <2>1. graphs \in Seq(GraphObjects(BBs))
      BY DEF IInv, TypeOK, GraphObjects
    <2>2. GraphObjects(BBs) \subseteq GraphObjects(BBs')
      BY <1>3 DEF GraphObjects
    <2> QED BY <1>1, <2>1, <2>2, SeqGrows
  <1>8. succ' \in [BBs' -> Seq(BBs')] /\ predec' \in [BBs' -> Seq(BBs')]
    BY <1>1, <1>6 DEF IInv, TypeOK
  <1>9. bbs' \in Seq([first : Insts', last : Insts', graph : 1 .. MaxCopies + 1])
    BY <1>2, <1>3 DEF BBObjects
  <1>10. inst_cnt' \in 0..MaxInstInBB /\ pc' \in {"cut", "link", "done", "threw"}
    BY <1>1, ProgramAssumption DEF IInv, TypeOK
  <1> QED BY <1>2, <1>3, <1>4, <1>7, <1>8, <1>9, <1>10 DEF TypeOK, GraphObjects

-----------------------------------------------------------------------------
\* A block ends: it takes the instructions behind the last cut, and the
\* blocks before keep theirs.
LEMMA CutStep == ASSUME IInv, CutHere PROVE IInv'
  <1> DEFINE new == Len(bbs) + 1
             m == Len(bbs_in_order)
  <1>1. /\ insts' = insts /\ graphs' = graphs /\ pc' = pc /\ pc = "cut" /\ inst_cnt' = 0 /\ i' = i
        /\ walker' = walker + 1
        /\ parent' = [n \in Insts |-> IF n >= FirstInBB THEN new ELSE parent[n]]
        /\ succ' = Append(succ, <<>>) /\ predec' = Append(predec, <<>>)
    BY DEF CutHere, NewBB
  <1>2. /\ FirstInBB \in Insts /\ walker \in Insts
        /\ BBs' = BBs \cup {new} /\ new \notin BBs /\ Len(bbs') = new
        /\ \A bb \in BBs : bbs'[bb] = bbs[bb]
        /\ bbs'[new].first = FirstInBB /\ bbs'[new].last = walker
        /\ Len(bbs_in_order') = m + 1 /\ DOMAIN bbs_in_order' = 1 .. m + 1
        /\ \A j \in 1..m : bbs_in_order'[j] = bbs_in_order[j]
        /\ bbs_in_order'[m + 1] = new
        /\ NewestBBs' = NewestBBs \cup {new}
        /\ CutEnd' = walker
    BY CutShape
  <1>3. /\ Len(bbs) \in Nat /\ BBs = 1..Len(bbs) /\ m \in Nat /\ NewestBBs \subseteq BBs
        /\ DOMAIN bbs_in_order = 1..m
        /\ \A bb \in BBs : bbs[bb].first \in Insts /\ bbs[bb].last \in Insts
        /\ \A j \in 1..m : bbs_in_order[j] \in BBs /\ bbs_in_order[j] \in NewestBBs
        /\ \A bb \in NewestBBs : \E j \in 1..m : bbs_in_order[j] = bb
    BY BBShape DEF IInv
  <1>4. Insts' = Insts /\ Insts = 1..Len(insts) /\ Len(insts) \in Nat
    BY <1>1, ListShape DEF IInv, Insts
  <1>5. /\ CutEnd \in 0..Len(insts)
        /\ m > 0 => CutEnd = bbs[bbs_in_order[m]].last
        /\ m = 0 => CutEnd = 0
        /\ walker = FirstInBB + inst_cnt /\ FirstInBB = CutEnd + 1 /\ inst_cnt \in Nat
    BY CutEndShape
  <1>6. \A bb \in NewestBBs : bbs[bb].last <= CutEnd
    BY <1>3 DEF IInv, BlocksTile
  <1>7. TypeOK'
    BY CutTypes
  <1>8. WalkerInStep'
    BY <1>1, <1>2, <1>4 DEF WalkerInStep
  <1>9. CountersInStep'
    BY <1>1, <1>2, <1>3 DEF IInv, CountersInStep
  <1>10. NewestAreLast'
    BY <1>2, <1>3 DEF IInv, NewestAreLast
  <1>11. BlocksTile'
    <2> SUFFICES ASSUME NEW j \in 1 .. m + 1
                 PROVE  LET bb == bbs'[bbs_in_order'[j]]
                        IN /\ bb.first = IF j = 1 THEN 1 ELSE bbs'[bbs_in_order'[j - 1]].last + 1
                           /\ bb.first <= bb.last /\ bb.last <= walker
      BY <1>2 DEF BlocksTile
    <2>1. CASE j \in 1..m
      <3>1. j # 1 => j - 1 \in 1..m
        BY <1>3, <2>1
      <3>2. bbs'[bbs_in_order'[j]] = bbs[bbs_in_order[j]]
        BY <1>2, <1>3, <2>1
      <3>3. j # 1 => bbs'[bbs_in_order'[j - 1]] = bbs[bbs_in_order[j - 1]]
        BY <1>2, <1>3, <3>1
      <3>4. /\ bbs[bbs_in_order[j]].last <= CutEnd
            /\ bbs[bbs_in_order[j]].first <= bbs[bbs_in_order[j]].last
            /\ bbs[bbs_in_order[j]].first = IF j = 1 THEN 1 ELSE bbs[bbs_in_order[j - 1]].last + 1
        BY <1>3, <2>1 DEF IInv, BlocksTile
      <3>5. bbs[bbs_in_order[j]].last \in Nat
        BY <1>3, <1>4, <2>1
      <3> QED BY <1>4, <1>5, <3>2, <3>3, <3>4, <3>5
    <2>2. CASE j = m + 1
      <3>1. j # 1 => j - 1 = m /\ m > 0 /\ m \in 1..m
        BY <1>3, <2>2
      <3>2. j # 1 => bbs'[bbs_in_order'[j - 1]].last = CutEnd
        BY <1>2, <1>3, <1>5, <3>1
      <3> QED BY <1>2, <1>4, <1>5, <2>2, <3>2
    <2> QED BY <1>3, <2>1, <2>2
  <1>12. BlocksCover'
    <2> SUFFICES ASSUME NEW n \in 1..walker
                 PROVE  \E bb \in NewestBBs' : n \in bbs'[bb].first .. bbs'[bb].last
      BY <1>2 DEF BlocksCover, InstsOf
    <2>1. CASE n <= CutEnd
      <3>1. n \in 1..CutEnd
        BY <1>5, <2>1
      <3>2. PICK bb \in NewestBBs : n \in bbs[bb].first .. bbs[bb].last
        BY <3>1 DEF IInv, BlocksCover, InstsOf
      <3> QED BY <1>2, <1>3, <3>2
    <2>2. CASE n > CutEnd
      BY <1>2, <1>4, <1>5, <2>2
    <2> QED BY <1>5, <2>1, <2>2
  <1>13. BlocksOwn'
    <2> SUFFICES ASSUME NEW bb \in NewestBBs', NEW n \in bbs'[bb].first .. bbs'[bb].last
                 PROVE  parent'[n] = bb
      BY DEF BlocksOwn, InstsOf
    <2>1. CASE bb = new
      BY <1>1, <1>2, <1>4, <2>1
    <2>2. CASE bb \in NewestBBs
      <3>1. n \in bbs[bb].first .. bbs[bb].last /\ bb \in BBs
        BY <1>2, <1>3, <2>2
      <3>2. n \in Insts /\ n <= CutEnd
        BY <1>3, <1>4, <1>5, <1>6, <2>2, <3>1
      <3>3. parent[n] = bb
        BY <2>2, <3>1 DEF IInv, BlocksOwn, InstsOf
      <3> QED BY <1>1, <1>4, <1>5, <3>2, <3>3
    <2> QED BY <1>2, <2>1, <2>2
  <1>14. BlocksBounded'
    <2>1. inst_cnt <= MaxInstInBB
      BY ProgramAssumption DEF IInv, TypeOK
    <2>2. walker - FirstInBB <= MaxInstInBB
      BY <1>4, <1>5, <2>1, ProgramAssumption
    <2> QED BY <1>2, <2>2 DEF IInv, BlocksBounded
  <1>15. InsideStraight'
    <2> SUFFICES ASSUME NEW n \in 1..walker
                 PROVE  \/ \E bb \in NewestBBs' : bbs'[bb].last = n
                        \/ insts[n].type = "plain" /\ n < Len(insts) /\ ~insts[n + 1].dest
      <3>1. walker' - 1 = walker
        BY <1>1, <1>2, <1>4
      <3> QED BY <1>1, <3>1 DEF InsideStraight
    <2>1. CASE n = walker
      BY <1>2, <2>1
    <2>2. CASE n \in 1 .. walker - 1
      <3>1. ASSUME NEW bb \in NewestBBs, bbs[bb].last = n PROVE bbs'[bb].last = n
        BY <1>2, <1>3, <3>1
      <3> QED BY <1>2, <2>2, <3>1 DEF IInv, InsideStraight
    <2> QED BY <1>2, <1>4, <2>1, <2>2
  <1>16. EdgesSoFar'
    <2>1. i = 1 /\ i' = 1
      BY <1>1 DEF IInv, CountersInStep
    <2>2. /\ \A bb \in BBs : succ'[bb] = succ[bb] /\ predec'[bb] = predec[bb]
          /\ succ'[new] = <<>> /\ predec'[new] = <<>>
      <3>1. ASSUME NEW vec \in [BBs -> Seq(BBs)]
            PROVE  /\ \A bb \in BBs : Append(vec, <<>>)[bb] = vec[bb]
                   /\ Append(vec, <<>>)[new] = <<>>
        <4>1. vec \in Seq(Seq(BBs)) /\ Len(vec) = Len(bbs)
          BY <1>3
        <4>2. <<>> \in Seq(BBs)
          OBVIOUS
        <4> QED BY <1>3, <4>1, <4>2, AppendEntries
      <3> QED BY <1>1, <3>1 DEF IInv, TypeOK
    <2>3. ToSet(succ'[new]) = {} /\ ToSet(predec'[new]) = {}
      BY <2>2 DEF ToSet
    <2>4. \A bb \in BBs : ToSet(succ[bb]) \subseteq BBs /\ ToSet(predec[bb]) \subseteq BBs
      BY Entries DEF IInv, TypeOK
    <2>5. \A bb \in NewestBBs : ToSet(succ[bb]) = {} /\ \A v \in NewestBBs : bb \notin ToSet(predec[v])
      BY <1>3, <2>1 DEF IInv, EdgesSoFar, Occurs
    <2>6. ASSUME NEW bb \in NewestBBs' PROVE ToSet(succ'[bb]) = {}
      BY <1>2, <1>3, <2>2, <2>3, <2>5
    <2>7. ASSUME NEW bb \in NewestBBs', NEW v \in NewestBBs' PROVE bb \notin ToSet(predec'[v])
      <3>1. CASE v = new
        BY <2>3, <3>1
      <3>2. CASE v \in NewestBBs
        <4>1. v \in BBs /\ predec'[v] = predec[v] /\ ToSet(predec[v]) \subseteq BBs
          BY <1>3, <2>2, <2>4, <3>2
        <4>2. bb = new \/ bb \in NewestBBs
          BY <1>2
        <4> QED BY <1>2, <2>5, <3>2, <4>1, <4>2
      <3> QED BY <1>2, <3>1, <3>2
    <2>8. \A j \in 1 .. m + 1 : bbs_in_order'[j] \in NewestBBs' /\ ~(j < 1)
      BY <1>2, <1>3
    <2> QED BY <1>2, <2>1, <2>6, <2>7, <2>8 DEF EdgesSoFar, Occurs
  <1>17. TrailingJaThrows'
    BY <1>1 DEF TrailingJaThrows
  <1> QED BY <1>1, <1>7, <1>8, <1>9, <1>10, <1>11, <1>12, <1>13, <1>14, <1>15, <1>16, <1>17 DEF IInv

\* What depends on the blocks, their edges and the parents only.
LEMMA OthersFollow ==
    ASSUME IInv, UNCHANGED <<insts, parent, bbs, succ, predec, graphs, bbs_in_order, i, pc>>
    PROVE  /\ insts' \in Programs /\ CountersInStep' /\ NewestAreLast' /\ BlocksTile' /\ BlocksCover'
           /\ BlocksOwn' /\ BlocksBounded' /\ EdgesSoFar' /\ TrailingJaThrows'
  <1>1. /\ NewestBBs' = NewestBBs /\ CutEnd' = CutEnd /\ BBs' = BBs /\ Insts' = Insts
        /\ \A bb : InstsOf(bb)' = InstsOf(bb)
    BY DEF NewestBBs, CutEnd, BBs, Insts, InstsOf
  <1>2. CountersInStep' /\ NewestAreLast' /\ TrailingJaThrows'
    BY DEF IInv, CountersInStep, NewestAreLast, TrailingJaThrows
  <1>3. BlocksTile' /\ BlocksCover' /\ BlocksOwn' /\ BlocksBounded'
    BY <1>1 DEF IInv, BlocksTile, BlocksCover, BlocksOwn, BlocksBounded
  <1>4. EdgesSoFar'
    BY <1>1 DEF IInv, EdgesSoFar, SuccsByFlow, FlowsTo
  <1> QED BY <1>2, <1>3, <1>4 DEF IInv

\* A block goes on: the instruction passed is neither a jump nor an exit and
\* the one behind it is no jump target.
LEMMA WalkStep == ASSUME IInv, WalkOn PROVE IInv'
  <1>1. /\ pc = "cut" /\ walker <= Len(insts) /\ ~EndsBB(walker)
        /\ first_in_bb' = FirstInBB /\ inst_cnt' = inst_cnt + 1 /\ walker' = walker + 1
        /\ UNCHANGED <<insts, parent, bbs, succ, predec, graphs, bbs_in_order, i, pc>>
    BY DEF WalkOn, edgeVars
  <1>2. /\ CutEnd \in 0..Len(insts) /\ inst_cnt \in Nat /\ walker \in Nat \ {0}
        /\ FirstInBB = CutEnd + 1 /\ walker = FirstInBB + inst_cnt
    BY CutEndShape
  <1>3. /\ Insts = 1..Len(insts) /\ Len(insts) \in Nat
        /\ \A n \in Insts : insts[n].type \in InstTypes
    BY ListShape DEF IInv
  <1>4. walker \in Insts
    BY <1>1, <1>2, <1>3
  <1>5. insts[walker].type = "plain" /\ walker < Len(insts) /\ ~insts[walker + 1].dest
    <2>1. walker # Len(insts) /\ insts[walker].type \notin {"jmp", "ja", "ret"}
      BY <1>1 DEF EndsBB, IsJumpInst, IsExitInst
    <2>2. walker < Len(insts)
      BY <1>1, <1>2, <1>3, <2>1
    <2> QED BY <1>1, <1>3, <1>4, <2>1, <2>2 DEF EndsBB, InstTypes
  <1>6. TypeOK'
    <2>1. inst_cnt' \in 0..MaxInstInBB
      BY <1>1, <1>2, ProgramAssumption DEF EndsBB, IInv, TypeOK
    <2> QED BY <1>1, <2>1 DEF IInv, TypeOK, Insts, BBs
  <1>7. WalkerInStep'
    <2>1. CutEnd' = CutEnd
      BY <1>1 DEF CutEnd
    <2> QED BY <1>1, <1>2, <1>3, <1>5, <2>1 DEF WalkerInStep
  <1>8. InsideStraight'
    <2> SUFFICES ASSUME NEW n \in 1..walker
                 PROVE  \/ \E bb \in NewestBBs : bbs[bb].last = n
                        \/ insts[n].type = "plain" /\ n < Len(insts) /\ ~insts[n + 1].dest
      <3>1. walker' - 1 = walker
        BY <1>1, <1>2
      <3> QED BY <1>1, <3>1 DEF InsideStraight, NewestBBs
    <2>1. n = walker \/ n \in 1 .. walker - 1
      BY <1>2
    <2> QED BY <1>5, <2>1 DEF IInv, InsideStraight
  <1>9. /\ insts' \in Programs /\ CountersInStep' /\ NewestAreLast' /\ BlocksTile' /\ BlocksCover'
        /\ BlocksOwn' /\ BlocksBounded' /\ EdgesSoFar' /\ TrailingJaThrows'
    BY <1>1, OthersFollow DEF IInv
  <1> QED BY <1>6, <1>7, <1>8, <1>9 DEF IInv

-----------------------------------------------------------------------------
\* Behind the first loop the blocks hold every instruction.
LEMMA Covered ==
    ASSUME IInv, pc # "cut"
    PROVE  /\ CutEnd = Len(insts)
           /\ \A n \in Insts : /\ parent[n] \in NewestBBs /\ parent[n] \in BBs
                               /\ n \in InstsOf(parent[n])
  <1>1. Insts = 1..Len(insts) /\ Len(insts) \in Nat
    BY ListShape DEF IInv
  <1>2. CutEnd \in 0..Len(insts) /\ inst_cnt \in Nat
    BY CutEndShape
  <1>3. CutEnd = Len(insts)
    BY <1>1, <1>2 DEF IInv, WalkerInStep
  <1>4. ASSUME NEW n \in Insts
        PROVE  parent[n] \in NewestBBs /\ parent[n] \in BBs /\ n \in InstsOf(parent[n])
    <2>1. PICK bb \in NewestBBs : n \in InstsOf(bb)
      BY <1>1, <1>3 DEF IInv, BlocksCover
    <2>2. parent[n] = bb
      BY <2>1 DEF IInv, BlocksOwn
    <2> QED BY <2>1, <2>2, BBShape DEF IInv
  <1> QED BY <1>3, <1>4

\* All blocks are cut: the loop over them starts.
LEMMA AllCutStep == ASSUME IInv, AllCut PROVE IInv'
  <1>1. /\ pc = "cut" /\ walker > Len(insts) /\ pc' = "link"
        /\ UNCHANGED <<insts, parent, bbs, succ, predec, graphs, walker, first_in_bb, inst_cnt,
                       bbs_in_order, i>>
    BY DEF AllCut, edgeVars, localVars
  <1>2. Len(insts) \in Nat /\ Len(bbs_in_order) \in Nat /\ NewestBBs' = NewestBBs
    BY <1>1, ListShape, BBShape DEF IInv, NewestBBs
  <1>3. /\ CutEnd \in 0..Len(insts) /\ walker \in Nat /\ Len(insts) \in Nat
        /\ bbs_in_order = <<>> <=> Len(bbs_in_order) = 0
        /\ Len(bbs_in_order) = 0 => CutEnd = 0
    BY <1>2, CutEndShape
  <1>4. TypeOK'
    BY <1>1 DEF IInv, TypeOK, Insts, BBs
  <1>5. CutEnd' = CutEnd /\ \A bb : InstsOf(bb)' = InstsOf(bb)
    BY <1>1 DEF CutEnd, InstsOf
  <1>6. WalkerInStep'
    BY <1>1, <1>3, <1>5 DEF IInv, WalkerInStep
  <1>7. CountersInStep' /\ NewestAreLast' /\ BlocksTile' /\ BlocksCover' /\ BlocksOwn'
        /\ BlocksBounded' /\ InsideStraight'
    <2>1. CountersInStep' /\ NewestAreLast'
      BY <1>1, <1>2 DEF IInv, CountersInStep, NewestAreLast, BBs
    <2>2. BlocksTile' /\ BlocksCover' /\ BlocksOwn'
      BY <1>1, <1>2, <1>5 DEF IInv, BlocksTile, BlocksCover, BlocksOwn, BBs
    <2>3. BlocksBounded' /\ InsideStraight'
      BY <1>1, <1>2, <1>5 DEF IInv, BlocksBounded, InsideStraight, BBs
    <2> QED BY <2>1, <2>2, <2>3
  <1>8. EdgesSoFar'
    <2>1. \A bb : SuccsByFlow(bb)' = SuccsByFlow(bb)
      BY <1>1 DEF SuccsByFlow, FlowsTo, Insts
    <2> QED BY <1>1, <1>2, <2>1 DEF IInv, EdgesSoFar
  <1>9. TrailingJaThrows'
    <2>1. i = 1
      BY <1>1 DEF IInv, CountersInStep
    <2>2. CutEnd = Len(insts)
      BY <1>1, <1>3, CutEndShape DEF IInv, WalkerInStep
    <2>3. Len(insts) = 0 => insts = <<>>
      BY ListShape, EmptySeq DEF IInv
    <2> QED BY <1>1, <1>2, <1>3, <2>1, <2>2, <2>3 DEF TrailingJaThrows
  <1> QED BY <1>1, <1>4, <1>6, <1>7, <1>8, <1>9 DEF IInv

-----------------------------------------------------------------------------
\* The vectors of f are those of e with edges from CurBB to the blocks in T.
EdgesTyped(e) == e.succ \in [BBs -> Seq(BBs)] /\ e.predec \in [BBs -> Seq(BBs)]

LinksTo(e, f, T) ==
    /\ EdgesTyped(f)
    /\ \A u \in BBs :
          /\ ToSet(f.succ[u]) = ToSet(e.succ[u]) \cup IF u = CurBB THEN T ELSE {}
          /\ ToSet(f.predec[u]) = ToSet(e.predec[u]) \cup IF u \in T THEN {CurBB} ELSE {}

\* push_back on the vector of one node leaves the other vectors alone.
Pushed(B, vec, u, x) ==
    /\ PushBack(vec, u, x) \in [B -> Seq(B)]
    /\ \A w \in B : ToSet(PushBack(vec, u, x)[w]) =
                      ToSet(vec[w]) \cup IF w = u THEN {x} ELSE {}

\* What push_back adds to the entries of one vector.
LEMMA PushEntries ==
    ASSUME NEW B, NEW vec, vec \in [B -> Seq(B)], NEW u \in B, NEW x \in B
    PROVE  Pushed(B, vec, u, x)
  <1>1. Append(vec[u], x) \in Seq(B) /\ ToSet(Append(vec[u], x)) = ToSet(vec[u]) \cup {x}
    BY AppendEntries
  <1>2. PushBack(vec, u, x) = [w \in B |-> IF w = u THEN Append(vec[w], x) ELSE vec[w]]
    BY DEF PushBack
  <1> QED BY <1>1, <1>2 DEF Pushed

\* AddSuccWithPredec adds one edge, at both of its ends.
LEMMA LinkAdds ==
    ASSUME NEW e, NEW f, NEW T, LinksTo(e, f, T), CurBB \in BBs, NEW to \in BBs
    PROVE  LinksTo(e, Link(f, to), T \cup {to})
  <1>1. /\ Link(f, to).succ = PushBack(f.succ, CurBB, to)
        /\ Link(f, to).predec = PushBack(f.predec, to, CurBB)
    BY DEF Link
  <1> HIDE DEF Link, PushBack
  <1>2. f.succ \in [BBs -> Seq(BBs)] /\ f.predec \in [BBs -> Seq(BBs)]
    BY DEF LinksTo, EdgesTyped
  <1>3. Pushed(BBs, f.succ, CurBB, to) /\ Pushed(BBs, f.predec, to, CurBB)
    BY <1>2, PushEntries, Zenon
  <1>4. EdgesTyped(Link(f, to))
    BY <1>1, <1>3 DEF Pushed, EdgesTyped
  <1>5. ASSUME NEW u \in BBs
        PROVE  /\ ToSet(Link(f, to).succ[u]) = ToSet(f.succ[u]) \cup IF u = CurBB THEN {to} ELSE {}
               /\ ToSet(Link(f, to).predec[u]) = ToSet(f.predec[u]) \cup IF u = to THEN {CurBB} ELSE {}
    BY <1>1, <1>3 DEF Pushed
  <1>6. ASSUME NEW u \in BBs
        PROVE  /\ ToSet(Link(f, to).succ[u]) =
                    ToSet(e.succ[u]) \cup IF u = CurBB THEN T \cup {to} ELSE {}
               /\ ToSet(Link(f, to).predec[u]) =
                    ToSet(e.predec[u]) \cup IF u \in T \cup {to} THEN {CurBB} ELSE {}
    <2>1. /\ ToSet(f.succ[u]) = ToSet(e.succ[u]) \cup IF u = CurBB THEN T ELSE {}
          /\ ToSet(f.predec[u]) = ToSet(e.predec[u]) \cup IF u \in T THEN {CurBB} ELSE {}
      BY DEF LinksTo
    <2> HIDE DEF ToSet, Link
    <2>2. ToSet(Link(f, to).succ[u]) = ToSet(e.succ[u]) \cup IF u = CurBB THEN T \cup {to} ELSE {}
      BY <1>5, <2>1
    <2>3. ToSet(Link(f, to).predec[u]) =
            ToSet(e.predec[u]) \cup IF u \in T \cup {to} THEN {CurBB} ELSE {}
      BY <1>5, <2>1
    <2> QED BY <2>2, <2>3
  <1> QED BY <1>4, <1>6 DEF LinksTo

\* The block being linked, and where control goes from its end.
LEMMA CurBBShape ==
    ASSUME IInv, pc = "link", i <= Len(bbs_in_order)
    PROVE  LET m == Len(bbs_in_order)
           IN /\ i \in 1..m /\ m \in Nat /\ CurBB \in NewestBBs /\ CurBB \in BBs
              /\ LastInst \in Insts /\ LastInst \in Nat
              /\ ~IsLastBB => /\ Following \in BBs /\ LastInst + 1 \in Insts
                              /\ parent[LastInst + 1] = Following
              /\ IsLastBB => LastInst = Len(insts)
              /\ IsJumpInst(LastInst) => insts[LastInst].target \in Insts /\ Target \in BBs
  <1> DEFINE m == Len(bbs_in_order)
  <1>1. /\ m \in Nat /\ \A j \in 1..m : bbs_in_order[j] \in BBs /\ bbs_in_order[j] \in NewestBBs
        /\ \A bb \in BBs : bbs[bb].first \in Insts /\ bbs[bb].last \in Insts
        /\ DOMAIN bbs_in_order = 1..m
    BY BBShape DEF IInv
  <1>2. i \in 1..m
    BY <1>1 DEF IInv, CountersInStep
  <1>3. CurBB \in NewestBBs /\ CurBB \in BBs /\ LastInst \in Insts
    BY <1>1, <1>2 DEF CurBB, LastInst
  <1>4. Insts = 1..Len(insts) /\ Len(insts) \in Nat
        /\ \A n \in Insts : IsJumpInst(n) => insts[n].target \in Insts
    BY ListShape DEF IInv
  <1>5. /\ CutEnd = Len(insts)
        /\ \A n \in Insts : parent[n] \in BBs
    BY Covered
  <1>6. ASSUME ~IsLastBB
        PROVE  Following \in BBs /\ LastInst + 1 \in Insts /\ parent[LastInst + 1] = Following
    <2>4. m \in Nat /\ i # m
      BY <1>1, <1>6 DEF IsLastBB
    <2>1. i + 1 \in 1..m /\ i + 1 # 1 /\ (i + 1) - 1 = i
      BY <1>2, <2>4
    <2>2. Following \in BBs /\ Following \in NewestBBs
      BY <1>1, <2>1 DEF Following
    <2>3. bbs[Following].first = LastInst + 1 /\ bbs[Following].first <= bbs[Following].last
      <3>1. LET bb == bbs[bbs_in_order[i + 1]]
            IN bb.first = bbs[bbs_in_order[(i + 1) - 1]].last + 1 /\ bb.first <= bb.last
        BY <1>1, <2>1 DEF IInv, BlocksTile
      <3> QED BY <2>1, <3>1 DEF Following, LastInst, CurBB
    <2>5. bbs[Following].first \in InstsOf(Following) /\ bbs[Following].first \in Insts
      BY <1>1, <1>4, <2>2, <2>3 DEF InstsOf
    <2> QED BY <2>2, <2>3, <2>5 DEF IInv, BlocksOwn
  <1>7. IsLastBB => LastInst = Len(insts)
    <2>1. m > 0
      BY <1>1, <1>2
    <2> QED BY <1>5, <2>1, CutEndShape DEF IsLastBB, LastInst, CurBB
  <1>8. IsJumpInst(LastInst) => insts[LastInst].target \in Insts /\ Target \in BBs
    BY <1>3, <1>4, <1>5 DEF Target
  <1> QED BY <1>1, <1>2, <1>3, <1>4, <1>6, <1>7, <1>8

\* The block is linked as control flows from its end.
LEMMA LinkedByFlow ==
    ASSUME IInv, LinkBB
    PROVE  LinksTo(Unlinked, [succ |-> succ', predec |-> predec'], SuccsByFlow(CurBB))
  <1> DEFINE n == LastInst
             after == [succ |-> succ', predec |-> predec']
  <1>1. /\ pc = "link" /\ i <= Len(bbs_in_order)
        /\ ~(insts[n].type = "ja" /\ IsLastBB)
        /\ succ' = Linked.succ /\ predec' = Linked.predec
    BY DEF LinkBB
  <1>2. /\ CurBB \in BBs /\ n \in Insts /\ n \in Nat
        /\ ~IsLastBB => /\ Following \in BBs /\ n + 1 \in Insts /\ parent[n + 1] = Following
        /\ IsLastBB => n = Len(insts)
        /\ IsJumpInst(n) => insts[n].target \in Insts /\ Target \in BBs
    BY <1>1, CurBBShape
  <1>3. /\ Insts = 1..Len(insts) /\ Len(insts) \in Nat
        /\ insts[n].type \in {"plain", "jmp", "ja", "ret"}
    BY <1>2, ListShape DEF IInv, InstTypes
  <1>4. SuccsByFlow(CurBB) = {parent[x] : x \in FlowsTo(n) \cap Insts}
    BY DEF SuccsByFlow, LastInst
  <1>5. LinksTo(Unlinked, Unlinked, {})
    <2>1. Unlinked.succ = succ /\ Unlinked.predec = predec
      BY DEF Unlinked
    <2> QED BY <2>1 DEF LinksTo, EdgesTyped, IInv, TypeOK
  <1> HIDE DEF n
  <1>6. SUFFICES LinksTo(Unlinked, Linked, SuccsByFlow(CurBB))
    <2>1. after.succ = Linked.succ /\ after.predec = Linked.predec
      BY <1>1
    <2> HIDE DEF after
    <2>2. ASSUME LinksTo(Unlinked, Linked, SuccsByFlow(CurBB))
          PROVE  LinksTo(Unlinked, after, SuccsByFlow(CurBB))
      BY <2>1, <2>2 DEF LinksTo, EdgesTyped
    <2> QED BY <2>2 DEF after
  <1>7. CASE insts[n].type = "jmp"
    <2>1. Linked = Link(Unlinked, Target)
      BY <1>7 DEF Linked, n
    <2>2. Target \in BBs /\ insts[n].target \in Insts
      BY <1>2, <1>7 DEF IsJumpInst
    <2>3. LinksTo(Unlinked, Link(Unlinked, Target), {} \cup {Target})
      BY <1>2, <1>5, <2>2, LinkAdds
    <2>4. SuccsByFlow(CurBB) = {} \cup {Target}
      <3>1. FlowsTo(n) = {insts[n].target}
        BY <1>7 DEF FlowsTo
      <3> QED BY <1>4, <2>2, <3>1 DEF Target, n
    <2> QED BY <2>1, <2>3, <2>4
  <1>8. CASE insts[n].type = "ja"
    <2>1. Linked = Link(Link(Unlinked, Following), Target)
      BY <1>8 DEF Linked, n
    <2>2. /\ Target \in BBs /\ insts[n].target \in Insts
          /\ Following \in BBs /\ n + 1 \in Insts /\ parent[n + 1] = Following
      BY <1>1, <1>2, <1>8 DEF IsJumpInst
    <2>3. LinksTo(Unlinked, Link(Unlinked, Following), {} \cup {Following})
      BY <1>2, <1>5, <2>2, LinkAdds
    <2>4. LinksTo(Unlinked, Link(Link(Unlinked, Following), Target),
                  ({} \cup {Following}) \cup {Target})
      BY <1>2, <2>2, <2>3, LinkAdds
    <2>5. SuccsByFlow(CurBB) = ({} \cup {Following}) \cup {Target}
      <3>1. FlowsTo(n) = {n + 1, insts[n].target}
        BY <1>8 DEF FlowsTo
      <3> QED BY <1>4, <2>2, <3>1 DEF Target, n
    <2> QED BY <2>1, <2>4, <2>5
  <1>9. CASE insts[n].type = "ret"
    <2>1. Linked = Unlinked
      BY <1>9 DEF Linked, n
    <2>2. SuccsByFlow(CurBB) = {}
      BY <1>4, <1>9 DEF FlowsTo
    <2> QED BY <1>5, <2>1, <2>2
  <1>10. CASE insts[n].type = "plain" /\ IsLastBB
    <2>1. Linked = Unlinked
      BY <1>10 DEF Linked, n
    <2>2. SuccsByFlow(CurBB) = {}
      <3>1. FlowsTo(n) = {n + 1}
        BY <1>10 DEF FlowsTo
      <3>2. n + 1 \notin Insts
        BY <1>2, <1>3, <1>10
      <3> QED BY <1>4, <3>1, <3>2
    <2> QED BY <1>5, <2>1, <2>2
  <1>11. CASE insts[n].type = "plain" /\ ~IsLastBB
    <2>1. Linked = Link(Unlinked, Following)
      BY <1>11 DEF Linked, n
    <2>2. LinksTo(Unlinked, Link(Unlinked, Following), {} \cup {Following})
      BY <1>2, <1>5, <1>11, LinkAdds
    <2>3. SuccsByFlow(CurBB) = {} \cup {Following}
      <3>1. FlowsTo(n) = {n + 1}
        BY <1>11 DEF FlowsTo
      <3> QED BY <1>2, <1>4, <1>11, <3>1
    <2> QED BY <2>1, <2>2, <2>3
  <1> QED BY <1>3, <1>7, <1>8, <1>9, <1>10, <1>11

\* One block gets its edges.
LEMMA LinkStep == ASSUME IInv, LinkBB PROVE IInv'
  <1> DEFINE m == Len(bbs_in_order)
             T == SuccsByFlow(CurBB)
  <1>1. /\ pc = "link" /\ i <= m /\ ~(insts[LastInst].type = "ja" /\ IsLastBB) /\ i' = i + 1
        /\ UNCHANGED <<insts, parent, bbs, graphs, walker, first_in_bb, inst_cnt, bbs_in_order, pc>>
    BY DEF LinkBB
  <1>2. /\ i \in 1..m /\ m \in Nat /\ CurBB \in NewestBBs /\ CurBB \in BBs
        /\ LastInst \in Insts
        /\ IsLastBB => LastInst = Len(insts)
    BY <1>1, CurBBShape
  <1>3. /\ DOMAIN bbs_in_order = 1..m /\ NewestBBs \subseteq BBs
        /\ \A j \in 1..m : bbs_in_order[j] \in BBs /\ bbs_in_order[j] \in NewestBBs
    BY BBShape DEF IInv
  <1>4. /\ NewestBBs' = NewestBBs /\ CutEnd' = CutEnd /\ BBs' = BBs /\ Insts' = Insts
        /\ \A bb : InstsOf(bb)' = InstsOf(bb)
        /\ \A bb : SuccsByFlow(bb)' = SuccsByFlow(bb)
    BY <1>1 DEF NewestBBs, CutEnd, BBs, Insts, InstsOf, SuccsByFlow, FlowsTo
  <1>5. /\ succ' \in [BBs -> Seq(BBs)] /\ predec' \in [BBs -> Seq(BBs)]
        /\ \A u \in BBs :
              /\ ToSet(succ'[u]) = ToSet(succ[u]) \cup IF u = CurBB THEN T ELSE {}
              /\ ToSet(predec'[u]) = ToSet(predec[u]) \cup IF u \in T THEN {CurBB} ELSE {}
    <2>1. /\ [succ |-> succ', predec |-> predec'].succ = succ'
          /\ [succ |-> succ', predec |-> predec'].predec = predec'
          /\ Unlinked.succ = succ /\ Unlinked.predec = predec
      BY DEF Unlinked
    <2> HIDE DEF T
    <2> QED BY <2>1, LinkedByFlow DEF T, LinksTo, EdgesTyped
  <1>6. TypeOK'
    BY <1>1, <1>4, <1>5 DEF IInv, TypeOK
  <1>7. WalkerInStep' /\ NewestAreLast' /\ BlocksTile' /\ BlocksCover' /\ BlocksOwn'
        /\ BlocksBounded' /\ InsideStraight'
    BY <1>1, <1>4 DEF IInv, WalkerInStep, NewestAreLast, BlocksTile, BlocksCover, BlocksOwn,
       BlocksBounded, InsideStraight
  <1>8. CountersInStep'
    BY <1>1, <1>2 DEF IInv, CountersInStep
  <1>9. EdgesSoFar'
    <2> SUFFICES ASSUME NEW j \in 1..m
                 PROVE  LET bb == bbs_in_order[j]
                        IN /\ ToSet(succ'[bb]) = IF j < i + 1 THEN SuccsByFlow(bb) ELSE {}
                           /\ \A v \in NewestBBs : bb \in ToSet(predec'[v]) <=> v \in ToSet(succ'[bb])
      BY <1>1, <1>3, <1>4 DEF EdgesSoFar, Occurs
    <2> DEFINE bb == bbs_in_order[j]
    <2>1. bb \in BBs /\ bb \in NewestBBs
      BY <1>3
    <2>2. /\ ToSet(succ[bb]) = IF j < i THEN SuccsByFlow(bb) ELSE {}
          /\ \A v \in NewestBBs : bb \in ToSet(predec[v]) <=> v \in ToSet(succ[bb])
      BY <1>3 DEF IInv, EdgesSoFar, Occurs
    <2>3. bb = CurBB <=> j = i
      <3>1. Len(bbs) \in Nat
        BY BBShape DEF IInv
      <3>2. bb = Len(bbs) - m + j /\ CurBB = Len(bbs) - m + i
        BY <1>2, <1>3 DEF IInv, NewestAreLast, CurBB
      <3> QED BY <1>2, <3>1, <3>2
    <2> HIDE DEF T, bb
    <2>4. CASE j = i
      <3>1. ToSet(succ[bb]) = {} /\ bb = CurBB
        BY <1>2, <2>2, <2>3, <2>4
      <3>2. ToSet(succ'[bb]) = T
        BY <1>5, <2>1, <3>1
      <3>3. ASSUME NEW v \in NewestBBs PROVE bb \in ToSet(predec'[v]) <=> v \in T
        BY <1>3, <1>5, <2>2, <3>1
      <3> QED BY <1>2, <2>4, <3>1, <3>2, <3>3 DEF T, bb
    <2>5. CASE j # i
      <3>1. ToSet(succ'[bb]) = ToSet(succ[bb]) /\ bb # CurBB
        BY <1>5, <2>1, <2>3, <2>5
      <3>2. ASSUME NEW v \in NewestBBs PROVE bb \in ToSet(predec'[v]) <=> v \in ToSet(succ[bb])
        BY <1>3, <1>5, <2>2, <3>1
      <3>3. j < i <=> j < i + 1
        BY <1>2, <2>5
      <3> QED BY <2>2, <3>1, <3>2, <3>3 DEF bb
    <2> QED BY <2>4, <2>5
  <1>10. TrailingJaThrows'
    <2>1. ASSUME i + 1 > m PROVE insts = <<>> \/ Last(insts).type # "ja"
      <3>1. IsLastBB
        BY <1>2, <2>1 DEF IsLastBB
      <3> QED BY <1>1, <1>2, <3>1 DEF Last
    <2> QED BY <1>1, <2>1 DEF TrailingJaThrows
  <1> QED BY <1>1, <1>6, <1>7, <1>8, <1>9, <1>10 DEF IInv

\* A conditional jump at the end of the list throws.
LEMMA ThrowStep == ASSUME IInv, LinkThrows PROVE IInv'
  <1>1. /\ pc = "link" /\ i <= Len(bbs_in_order) /\ pc' = "threw"
        /\ insts[LastInst].type = "ja" /\ IsLastBB
        /\ UNCHANGED <<insts, parent, bbs, succ, predec, graphs, walker, first_in_bb, inst_cnt,
                       bbs_in_order, i>>
    BY DEF LinkThrows, edgeVars, localVars
  <1>2. LastInst \in Insts /\ LastInst = Len(insts)
    BY <1>1, CurBBShape
  <1>3. insts # <<>> /\ Last(insts).type = "ja"
    <2>1. Insts = 1..Len(insts) /\ Len(insts) \in Nat /\ (insts = <<>> => Len(insts) = 0)
      BY ListShape DEF IInv
    <2> QED BY <1>1, <1>2, <2>1 DEF Last
  <1>4. /\ NewestBBs' = NewestBBs /\ CutEnd' = CutEnd /\ BBs' = BBs /\ Insts' = Insts
        /\ \A bb : InstsOf(bb)' = InstsOf(bb)
        /\ \A bb : SuccsByFlow(bb)' = SuccsByFlow(bb)
    BY <1>1 DEF NewestBBs, CutEnd, BBs, Insts, InstsOf, SuccsByFlow, FlowsTo
  <1>5. TypeOK'
    BY <1>1, <1>4 DEF IInv, TypeOK
  <1>6. WalkerInStep' /\ NewestAreLast' /\ BlocksTile' /\ BlocksCover' /\ BlocksOwn'
        /\ BlocksBounded' /\ InsideStraight' /\ CountersInStep'
    BY <1>1, <1>4 DEF IInv, WalkerInStep, NewestAreLast, BlocksTile, BlocksCover, BlocksOwn,
       BlocksBounded, InsideStraight, CountersInStep
  <1>7. EdgesSoFar'
    BY <1>1, <1>4 DEF IInv, EdgesSoFar, Occurs
  <1>8. TrailingJaThrows'
    BY <1>1, <1>3 DEF TrailingJaThrows
  <1> QED BY <1>1, <1>5, <1>6, <1>7, <1>8 DEF IInv

\* The finished graph is made of blocks and of instructions of the list.
LEMMA ConstructedStep == ASSUME IInv, Constructed PROVE IInv'
  <1> DEFINE object ==
          IF bbs_in_order = <<>>
          THEN [bb_set |-> {}, root |-> 0, first |-> 0, last |-> 0]
          ELSE [bb_set |-> ToSet(bbs_in_order), root |-> Head(bbs_in_order),
                first |-> bbs[Head(bbs_in_order)].first, last |-> bbs[Last(bbs_in_order)].last]
  <1>1. /\ pc = "link" /\ i > Len(bbs_in_order) /\ pc' = "done"
        /\ graphs' = Append(graphs, object)
        /\ UNCHANGED <<insts, parent, bbs, succ, predec, walker, first_in_bb, inst_cnt,
                       bbs_in_order, i>>
    BY DEF Constructed, edgeVars, localVars
  <1>2. object \in GraphObjects(BBs)
    <2>1. CASE bbs_in_order = <<>>
      BY <2>1 DEF GraphObjects
    <2>2. CASE bbs_in_order # <<>>
      <3>1. /\ \A bb \in BBs : bbs[bb].first \in Insts /\ bbs[bb].last \in Insts
            /\ NewestBBs \subseteq BBs
            /\ Len(bbs_in_order) \in Nat
            /\ \A j \in 1..Len(bbs_in_order) : bbs_in_order[j] \in BBs
        BY BBShape DEF IInv
      <3>2. Len(bbs_in_order) # 0
        BY <2>2, CutEndShape
      <3>3. Head(bbs_in_order) = bbs_in_order[1] /\ Last(bbs_in_order) = bbs_in_order[Len(bbs_in_order)]
        BY <2>2 DEF Last, IInv, TypeOK
      <3>4. Head(bbs_in_order) \in BBs /\ Last(bbs_in_order) \in BBs
        BY <3>1, <3>2, <3>3
      <3> QED BY <2>2, <3>1, <3>4 DEF GraphObjects, NewestBBs
    <2> QED BY <2>1, <2>2
  <1> HIDE DEF object
  <1>3. /\ graphs' \in Seq(GraphObjects(BBs)) /\ Len(graphs') = Len(graphs) + 1
        /\ Len(graphs) \in Nat
    <2>1. graphs \in Seq(GraphObjects(BBs))
      BY DEF IInv, TypeOK, GraphObjects
    <2> QED BY <1>1, <1>2, <2>1, AppendEntries, LenProperties
  <1>4. /\ NewestBBs' = NewestBBs /\ CutEnd' = CutEnd /\ BBs' = BBs /\ Insts' = Insts
        /\ \A bb : InstsOf(bb)' = InstsOf(bb)
        /\ \A bb : SuccsByFlow(bb)' = SuccsByFlow(bb)
    BY <1>1 DEF NewestBBs, CutEnd, BBs, Insts, InstsOf, SuccsByFlow, FlowsTo
  <1>5. TypeOK'
    BY <1>1, <1>3, <1>4 DEF IInv, TypeOK, GraphObjects
  <1>6. WalkerInStep' /\ NewestAreLast' /\ BlocksTile' /\ BlocksCover' /\ BlocksOwn'
        /\ BlocksBounded' /\ InsideStraight'
    BY <1>1, <1>4 DEF IInv, WalkerInStep, NewestAreLast, BlocksTile, BlocksCover, BlocksOwn,
       BlocksBounded, InsideStraight
  <1>7. CountersInStep'
    BY <1>1, <1>3, ProgramAssumption DEF IInv, CountersInStep
  <1>8. EdgesSoFar'
    BY <1>1, <1>4 DEF IInv, EdgesSoFar, Occurs
  <1>9. TrailingJaThrows'
    BY <1>1 DEF IInv, TrailingJaThrows
  <1> QED BY <1>1, <1>5, <1>6, <1>7, <1>8, <1>9 DEF IInv

\* The constructor of a copy starts over on the same list, and the blocks of
\* the graphs before it are none of its own.
LEMMA CopyStep == ASSUME IInv, CopyGraph PROVE IInv'
  <1>1. /\ pc = "done" /\ Len(graphs) <= MaxCopies /\ pc' = "cut"
        /\ walker' = 1 /\ first_in_bb' = 1 /\ inst_cnt' = 0 /\ bbs_in_order' = <<>> /\ i' = 1
        /\ UNCHANGED <<insts, parent, bbs, succ, predec, graphs>>
    BY DEF CopyGraph, edgeVars
  <1>2. /\ NewestBBs' = {} /\ CutEnd' = 0 /\ BBs' = BBs /\ Insts' = Insts
        /\ DOMAIN bbs_in_order' = {} /\ Len(bbs_in_order') = 0
    BY <1>1 DEF NewestBBs, ToSet, CutEnd, BBs, Insts
  <1>3. Len(insts) \in Nat /\ Len(bbs) \in Nat
    BY ListShape, BBShape DEF IInv
  <1>4. TypeOK'
    <2>1. bbs_in_order' \in Seq(BBs)
      BY <1>1
    <2>2. inst_cnt' \in 0..MaxInstInBB
      BY <1>1, ProgramAssumption
    <2> QED BY <1>1, <1>2, <2>1, <2>2 DEF IInv, TypeOK
  <1>5. WalkerInStep' /\ CountersInStep'
    BY <1>1, <1>2, <1>3 DEF WalkerInStep, CountersInStep
  <1>6. NewestAreLast' /\ BlocksTile' /\ BlocksCover' /\ BlocksOwn' /\ EdgesSoFar' /\ TrailingJaThrows'
    BY <1>1, <1>2, <1>3 DEF NewestAreLast, BlocksTile, BlocksCover, BlocksOwn, EdgesSoFar,
       TrailingJaThrows
  <1>7. BlocksBounded'
    BY <1>1 DEF IInv, BlocksBounded, BBs
  <1>8. InsideStraight'
    BY <1>1 DEF InsideStraight
  <1> QED BY <1>1, <1>4, <1>5, <1>6, <1>7, <1>8 DEF IInv

\* Nothing changes between two steps.
LEMMA StutterStep == ASSUME IInv, UNCHANGED vars PROVE IInv'
  <1>1. UNCHANGED <<insts, parent, bbs, succ, predec, graphs, walker, first_in_bb, inst_cnt,
                    bbs_in_order, i, pc>>
    BY DEF vars, edgeVars, localVars
  <1>2. /\ insts' \in Programs /\ CountersInStep' /\ NewestAreLast' /\ BlocksTile' /\ BlocksCover'
        /\ BlocksOwn' /\ BlocksBounded' /\ EdgesSoFar' /\ TrailingJaThrows'
    BY <1>1, OthersFollow
  <1>3. TypeOK'
    BY <1>1 DEF IInv, TypeOK, Insts, BBs
  <1>4. WalkerInStep' /\ InsideStraight'
    BY <1>1 DEF IInv, WalkerInStep, InsideStraight, CutEnd, NewestBBs
  <1> QED BY <1>2, <1>3, <1>4 DEF IInv

\* Every list and every empty graph satisfy the invariant.
LEMMA InitIInv == Init => IInv
  <1> SUFFICES ASSUME Init PROVE IInv
    OBVIOUS
  <1>1. /\ insts \in Programs /\ parent = [n \in Insts |-> 0]
        /\ bbs = <<>> /\ succ = <<>> /\ predec = <<>> /\ graphs = <<>>
        /\ walker = 1 /\ first_in_bb = 1 /\ inst_cnt = 0 /\ bbs_in_order = <<>> /\ i = 1
        /\ pc = "cut"
    BY DEF Init, Insts
  <1>2. /\ NewestBBs = {} /\ CutEnd = 0 /\ BBs = {}
        /\ DOMAIN bbs_in_order = {} /\ Len(bbs_in_order) = 0 /\ Len(bbs) = 0 /\ Len(graphs) = 0
    BY <1>1 DEF NewestBBs, ToSet, CutEnd, BBs
  <1>3. Len(insts) \in Nat
    BY <1>1, ListShape
  <1>4. TypeOK
    <2>1. inst_cnt \in 0..MaxInstInBB
      BY <1>1, ProgramAssumption
    <2>2. succ \in [BBs -> Seq(BBs)] /\ predec \in [BBs -> Seq(BBs)]
      BY <1>1, <1>2
    <2> QED BY <1>1, <1>2, <2>1, <2>2 DEF TypeOK
  <1>5. WalkerInStep /\ CountersInStep
    BY <1>1, <1>2, <1>3, ProgramAssumption DEF WalkerInStep, CountersInStep
  <1>6. NewestAreLast /\ BlocksTile /\ BlocksCover /\ BlocksOwn /\ EdgesSoFar /\ TrailingJaThrows
        /\ BlocksBounded
    BY <1>1, <1>2, <1>3 DEF NewestAreLast, BlocksTile, BlocksCover, BlocksOwn, EdgesSoFar,
       TrailingJaThrows, BlocksBounded
  <1>7. InsideStraight
    BY <1>1 DEF InsideStraight
  <1> QED BY <1>1, <1>4, <1>5, <1>6, <1>7 DEF IInv

\* The inductive invariant of the construction: the blocks cut so far tile what
\* the first loop has passed, the blocks linked so far are linked as control flows.
THEOREM Invariance == Spec => []IInv
  <1>1. ASSUME IInv, [Next]_vars PROVE IInv'
    BY <1>1, CutStep, WalkStep, AllCutStep, LinkStep, ThrowStep, ConstructedStep, CopyStep,
       StutterStep DEF Next, Ended
  <1> QED BY InitIInv, <1>1, PTL DEF Spec

-----------------------------------------------------------------------------
\* Every block, edge and counter of the construction has its type.
THEOREM Typed == Spec => []TypeOK
  <1>1. IInv => TypeOK
    BY DEF IInv
  <1> QED BY Invariance, <1>1, PTL

\* The blocks of a finished graph tile the list, have at most MAX_INST_IN_BB + 1
\* instructions, and own theirs.
THEOREM BlocksAreATiling == Spec => []BlocksTileTheList
  <1>1. ASSUME IInv PROVE BlocksTileTheList
    <2> SUFFICES ASSUME pc = "done" PROVE BlocksTileTheList
      BY DEF BlocksTileTheList
    <2>1. insts # <<>> => bbs[Last(bbs_in_order)].last = Len(insts)
      <3> SUFFICES ASSUME insts # <<>> PROVE CutEnd = bbs[Last(bbs_in_order)].last
        BY <1>1, Covered
      <3>1. Len(insts) # 0
        BY <1>1, ListShape, EmptySeq DEF IInv
      <3> QED BY <1>1, <3>1, Covered, CutEndShape DEF CutEnd
    <2>2. \A j \in DOMAIN bbs_in_order :
              bbs[bbs_in_order[j]].first =
                  IF j = 1 THEN 1 ELSE bbs[bbs_in_order[j - 1]].last + 1
      BY <1>1 DEF IInv, BlocksTile
    <2>3. /\ \A bb \in BBs : bbs[bb].last - bbs[bb].first <= MaxInstInBB
          /\ \A bb \in ToSet(bbs_in_order) : \A n \in InstsOf(bb) : parent[n] = bb
      BY <1>1 DEF IInv, BlocksBounded, BlocksOwn, NewestBBs
    <2> QED BY <2>1, <2>2, <2>3 DEF BlocksTileTheList
  <1> QED BY Invariance, <1>1, PTL

\* Only the last instruction of a block is followed by one of another block.
LEMMA InsideABlock ==
    ASSUME IInv, pc = "done", NEW bb \in NewestBBs, NEW n \in InstsOf(bb), n # bbs[bb].last
    PROVE  /\ n \in Insts /\ n + 1 \in InstsOf(bb) /\ parent[n] = bb /\ parent[n + 1] = bb
           /\ insts[n].type = "plain" /\ ~insts[n + 1].dest
  <1>1. /\ bb \in BBs /\ bbs[bb].first \in Insts /\ bbs[bb].last \in Insts
        /\ Insts = 1..Len(insts) /\ Len(insts) \in Nat
    BY ListShape, BBShape DEF IInv
  <1>2. n \in Insts /\ n + 1 \in InstsOf(bb) /\ n \in 1..Len(insts) /\ n \in Int
    BY <1>1 DEF InstsOf
  <1>3. parent[n] = bb /\ parent[n + 1] = bb
    BY <1>2 DEF IInv, BlocksOwn
  <1>4. ASSUME NEW b \in NewestBBs, bbs[b].last = n PROVE FALSE
    <2>1. n \in InstsOf(b)
      <3>1. \E j \in 1..Len(bbs_in_order) : bbs_in_order[j] = b
        BY BBShape DEF IInv
      <3>2. bbs[b].first <= bbs[b].last /\ bbs[b].first \in Insts
        BY <3>1, BBShape DEF IInv, BlocksTile
      <3> QED BY <1>1, <1>2, <1>4, <3>2 DEF InstsOf
    <2>2. parent[n] = b
      BY <2>1 DEF IInv, BlocksOwn
    <2> QED BY <1>3, <1>4, <2>2
  <1>5. n \in 1 .. walker - 1
    <2>1. walker = Len(insts) + 1
      BY DEF IInv, WalkerInStep
    <2> QED BY <1>1, <1>2, <2>1
  <1>6. insts[n].type = "plain" /\ ~insts[n + 1].dest
    BY <1>4, <1>5 DEF IInv, InsideStraight
  <1> QED BY <1>2, <1>3, <1>6

\* Control enters no block but at its first instruction.
LEMMA EntersAtFirst ==
    ASSUME IInv, pc = "done", TargetsFlagged, NEW u \in NewestBBs,
           NEW n \in FlowsTo(bbs[u].last) \cap Insts
    PROVE  bbs[parent[n]].first = n
  <1> DEFINE x == bbs[u].last
             v == parent[n]
  <1>1. /\ Insts = 1..Len(insts) /\ Len(insts) \in Nat
        /\ u \in BBs /\ x \in Insts
    BY ListShape, BBShape DEF IInv
  <1>2. v \in NewestBBs /\ v \in BBs /\ n \in InstsOf(v) /\ bbs[v].first \in Insts
        /\ bbs[v].last \in Insts
    BY Covered, BBShape DEF IInv
  <1>3. x \in InstsOf(u) /\ parent[x] = u
    <2>1. \E j \in 1..Len(bbs_in_order) : bbs_in_order[j] = u
      BY BBShape DEF IInv
    <2>2. bbs[u].first <= x /\ bbs[u].first \in Insts
      BY <2>1, BBShape DEF IInv, BlocksTile
    <2>3. x \in InstsOf(u)
      BY <1>1, <2>2 DEF InstsOf
    <2> QED BY <2>3 DEF IInv, BlocksOwn
  <1> HIDE DEF v, x
  <1> SUFFICES ASSUME n # bbs[v].first PROVE FALSE
    BY DEF v
  <1>4. n - 1 \in InstsOf(v) /\ n - 1 # bbs[v].last /\ (n - 1) + 1 = n
    BY <1>1, <1>2 DEF InstsOf
  <1>5. ~insts[n].dest /\ parent[n - 1] = v
    BY <1>2, <1>4, InsideABlock
  <1>6. n = x + 1 \/ (IsJumpInst(x) /\ n = insts[x].target)
    BY DEF FlowsTo, x, IsJumpInst
  <1>7. CASE n = x + 1
    <2>1. n - 1 = x
      BY <1>1, <1>7
    <2> QED BY <1>3, <1>4, <1>5, <2>1 DEF x
  <1>8. CASE IsJumpInst(x) /\ n = insts[x].target
    BY <1>1, <1>5, <1>8 DEF TargetsFlagged
  <1> QED BY <1>6, <1>7, <1>8

\* Edges are the steps that control takes from block to block, no step leads
\* from or to the inside of a block, and a trailing conditional jump throws.
THEOREM EdgesFollowControl == Spec => []EdgesAreControlFlow
  <1>1. ASSUME IInv PROVE EdgesAreControlFlow
    <2>1. /\ pc = "threw" => insts # <<>> /\ Last(insts).type = "ja"
          /\ pc = "done" => insts = <<>> \/ Last(insts).type # "ja"
      BY <1>1 DEF IInv, TrailingJaThrows
    <2>2. ASSUME pc = "done", TargetsFlagged,
                 NEW u \in ToSet(bbs_in_order), NEW v \in ToSet(bbs_in_order)
          PROVE  /\ Occurs(succ, u, v) <=> bbs[v].first \in FlowsTo(bbs[u].last)
                 /\ Occurs(predec, v, u) <=> Occurs(succ, u, v)
      <3>1. /\ u \in NewestBBs /\ v \in NewestBBs /\ v \in BBs /\ bbs[v].first \in Insts
            /\ bbs[v].last \in Insts
            /\ Insts = 1..Len(insts) /\ Len(insts) \in Nat
        BY <1>1, BBShape, ListShape DEF IInv, NewestBBs
      <3>2. PICK j \in 1..Len(bbs_in_order) : bbs_in_order[j] = u
        BY <1>1, <3>1, BBShape DEF IInv
      <3>3. PICK k \in 1..Len(bbs_in_order) : bbs_in_order[k] = v
        BY <1>1, <3>1, BBShape DEF IInv
      <3>4. ToSet(succ[u]) = SuccsByFlow(u) /\ (Occurs(predec, v, u) <=> Occurs(succ, u, v))
        <4>1. DOMAIN bbs_in_order = 1..Len(bbs_in_order) /\ Len(bbs_in_order) \in Nat
          BY <1>1, BBShape DEF IInv
        <4>2. i \in Nat /\ i > Len(bbs_in_order)
          BY <1>1, <2>2, <4>1 DEF IInv, CountersInStep, TrailingJaThrows
        <4>3. j < i
          BY <4>1, <4>2
        <4> QED BY <1>1, <3>1, <3>2, <4>1, <4>3 DEF IInv, EdgesSoFar
      <3>5. parent[bbs[v].first] = v
        <4>1. bbs[v].first <= bbs[v].last
          BY <1>1, <3>3, BBShape DEF IInv, BlocksTile
        <4>2. bbs[v].first \in InstsOf(v)
          BY <3>1, <4>1 DEF InstsOf
        <4> QED BY <1>1, <3>1, <4>2 DEF IInv, BlocksOwn
      <3>6. ASSUME Occurs(succ, u, v) PROVE bbs[v].first \in FlowsTo(bbs[u].last)
        <4>1. PICK n \in FlowsTo(bbs[u].last) \cap Insts : v = parent[n]
          BY <3>4, <3>6 DEF Occurs, SuccsByFlow
        <4> QED BY <1>1, <2>2, <3>1, <4>1, EntersAtFirst
      <3>7. ASSUME bbs[v].first \in FlowsTo(bbs[u].last) PROVE Occurs(succ, u, v)
        BY <3>1, <3>4, <3>5, <3>7 DEF Occurs, SuccsByFlow
      <3> QED BY <3>4, <3>6, <3>7
    <2>3. ASSUME pc = "done", TargetsFlagged, NEW n \in Insts, NEW m \in FlowsTo(n) \cap Insts
          PROVE  \/ m = n + 1 /\ parent[m] = parent[n]
                 \/ bbs[parent[n]].last = n /\ bbs[parent[m]].first = m
      <3>1. parent[n] \in NewestBBs /\ n \in InstsOf(parent[n])
        BY <1>1, <2>3, Covered
      <3>2. CASE bbs[parent[n]].last = n
        BY <1>1, <2>3, <3>1, <3>2, EntersAtFirst
      <3>3. CASE bbs[parent[n]].last # n
        <4>1. insts[n].type = "plain" /\ parent[n + 1] = parent[n]
          BY <1>1, <2>3, <3>1, <3>3, InsideABlock
        <4> QED BY <4>1 DEF FlowsTo
      <3> QED BY <3>2, <3>3
    <2> QED BY <2>1, <2>2, <2>3 DEF EdgesAreControlFlow, FlowsBetweenBlocks
  <1> QED BY Invariance, <1>1, PTL
=============================================================================
