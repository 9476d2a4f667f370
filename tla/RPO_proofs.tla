----------------------------- MODULE RPO_proofs -----------------------------
(***************************************************************************)
(* For any set of blocks, finite or not, and any successor vectors over it:*)
(* when RPO::Run returns, rpo_ holds the reachable blocks once each, only  *)
(* an edge that closes a cycle points backwards in it, and every block     *)
(* comes after the blocks that dominate it.                                *)
(***************************************************************************)
EXTENDS RPO, ControlFlow_proofs

\* Successor vectors hold blocks.
LEMMA SuccTyped == TypeOK => succ \in [Blocks -> Seq(Blocks)]
  BY CfgAssumption DEF TypeOK

-----------------------------------------------------------------------------
\* The innermost activation after its iterator has been advanced.
LEMMA AdvancedShape ==
    ASSUME TypeOK, stack # <<>>
    PROVE  /\ Depth \in Nat \ {0}
           /\ Top \in Frames
           /\ Advanced \in Seq(Frames)
           /\ Len(Advanced) = Depth
           /\ \A i \in 1..Depth :
                /\ stack[i] \in Frames
                /\ Advanced[i].node = stack[i].node
                /\ i # Depth => Advanced[i].it = stack[i].it
                /\ i = Depth => Advanced[i].it = stack[i].it + 1
  <1>1. stack \in Seq(Frames) /\ Depth \in Nat \ {0} /\ DOMAIN stack = 1..Depth
    BY EmptySeq, LenProperties DEF TypeOK, Depth
  <1>2. \A i \in 1..Depth : stack[i] \in Frames
    BY <1>1, ElementOfSeq DEF Depth
  <1>3. Top \in Frames
    BY <1>1, <1>2 DEF Top
  <1> DEFINE f == [stack[Depth] EXCEPT !.it = @ + 1]
  <1>4. f \in Frames /\ f.node = stack[Depth].node /\ f.it = stack[Depth].it + 1
    BY <1>1, <1>2 DEF Frames
  <1>5. Advanced = [stack EXCEPT ![Depth] = f]
    BY <1>1 DEF Advanced
  <1> HIDE DEF f
  <1>6. /\ Advanced \in Seq(Frames)
        /\ Len(Advanced) = Depth
        /\ \A i \in 1..Depth : Advanced[i] = IF i = Depth THEN f ELSE stack[i]
    BY <1>1, <1>4, <1>5, ExceptSeq DEF Depth
  <1> QED BY <1>1, <1>2, <1>3, <1>4, <1>6

\* The stack after a recursive call on v.
LEMMA CallShape ==
    ASSUME TypeOK, stack # <<>>, NEW v \in Blocks,
           stack' = Append(Advanced, Enter(v))
    PROVE  /\ stack' \in Seq(Frames)
           /\ DOMAIN stack' = 1 .. Depth + 1
           /\ \A i \in 1..Depth :
                /\ stack'[i].node = stack[i].node
                /\ i # Depth => stack'[i].it = stack[i].it
                /\ i = Depth => stack'[i].it = stack[i].it + 1
           /\ stack'[Depth + 1].node = v
           /\ stack'[Depth + 1].it = 1
  <1>1. Enter(v) \in Frames /\ Enter(v).node = v /\ Enter(v).it = 1
    BY DEF Enter, Frames
  <1>2. Advanced \in Seq(Frames) /\ Len(Advanced) = Depth
    BY AdvancedShape
  <1>3. /\ stack' \in Seq(Frames)
        /\ DOMAIN stack' = 1 .. Depth + 1
        /\ \A i \in 1..Depth : stack'[i] = Advanced[i]
        /\ stack'[Depth + 1] = Enter(v)
    BY <1>1, <1>2, AppendEntries
  <1> QED BY <1>1, <1>3, AdvancedShape

\* The block of an active frame is an active block, and back.
LEMMA ActiveFrames ==
    ASSUME TypeOK
    PROVE  /\ DOMAIN stack = 1..Depth
           /\ Depth \in Nat
           /\ \A i \in 1..Depth : stack[i].node \in Blocks /\ stack[i].it \in Nat \ {0}
           /\ \A u : u \in Active <=> \E i \in 1..Depth : stack[i].node = u
           /\ Active \subseteq Blocks
  <1>1. stack \in Seq(Frames) /\ Depth \in Nat /\ DOMAIN stack = 1..Depth
    BY LenProperties DEF TypeOK, Depth
  <1>2. \A i \in 1..Depth : stack[i] \in Frames
    BY <1>1, ElementOfSeq DEF Depth
  <1> QED BY <1>1, <1>2 DEF Active, Frames

-----------------------------------------------------------------------------
\* Every step keeps the types.
LEMMA TypeStep == TypeOK /\ (pc = "dfs" => stack # <<>>) /\ [Next]_vars => TypeOK'
  <1> SUFFICES ASSUME TypeOK, pc = "dfs" => stack # <<>>, [Next]_vars PROVE TypeOK'
    OBVIOUS
  <1>0. succ \in [Blocks -> Seq(Blocks)]
    BY SuccTyped
  <1>1. CASE Run
    <2>1. <<Enter(Root)>> \in Seq(Frames)
      BY CfgAssumption DEF Enter, Frames
    <2> QED BY <1>1, <2>1, CfgAssumption DEF Run, TypeOK
  <1>2. ASSUME AtSuccessor
        PROVE  Top \in Frames /\ Successor \in Blocks /\ stack # <<>>
    <2>1. Top \in Frames /\ stack # <<>>
      BY <1>2, AdvancedShape DEF AtSuccessor
    <2>2. /\ succ[Top.node] \in Seq(Blocks)
          /\ Top.it \in 1..Len(succ[Top.node])
      BY <1>0, <1>2, <2>1, LenProperties DEF AtSuccessor, Frames
    <2> QED BY <2>1, <2>2, ElementOfSeq DEF Successor
  <1>3. CASE Descend
    <2>1. stack' \in Seq(Frames)
      BY <1>2, <1>3, CallShape DEF Descend
    <2> QED BY <1>2, <1>3, <2>1 DEF Descend, TypeOK
  <1>4. CASE PassOver
    BY <1>2, <1>4, AdvancedShape DEF PassOver, TypeOK
  <1>5. CASE Return
    <2>1. stack # <<>> /\ Top.node \in Blocks
      BY <1>5, AdvancedShape DEF Return, Frames
    <2>2. stack' \in Seq(Frames)
      BY <1>5, <2>1, FrontEntries DEF Return, TypeOK
    <2>3. rpo' \in Seq(Blocks)
      BY <1>5, <2>1, AppendEntries DEF Return, TypeOK
    <2> QED BY <1>5, <2>2, <2>3 DEF Return, TypeOK
  <1>6. CASE ReverseAll
    <2>1. \A i \in 1..Len(rpo) : rpo[(Len(rpo) - i) + 1] \in Blocks
      <3>1. rpo \in Seq(Blocks) /\ Len(rpo) \in Nat
        BY LenProperties DEF TypeOK
      <3>2. ASSUME NEW i \in 1..Len(rpo) PROVE (Len(rpo) - i) + 1 \in 1..Len(rpo)
        BY <3>1
      <3> QED BY <3>1, <3>2, ElementOfSeq
    <2>2. Reverse(rpo) \in Seq(Blocks)
      <3>1. Len(rpo) \in Nat
        BY LenProperties DEF TypeOK
      <3> QED BY <2>1, <3>1 DEF Reverse
    <2> QED BY <1>6, <2>2 DEF ReverseAll, TypeOK
  <1>7. CASE Returned \/ UNCHANGED vars
    BY <1>7 DEF Returned, vars, TypeOK
  <1> QED BY <1>1, <1>3, <1>4, <1>5, <1>6, <1>7 DEF Next

-----------------------------------------------------------------------------
\* The successor the innermost activation looks at.
LEMMA SuccessorFacts ==
    ASSUME TypeOK, Walking, stack # <<>>, AtSuccessor
    PROVE  /\ Depth \in Nat \ {0}
           /\ Top = stack[Depth]
           /\ Top.node \in Blocks
           /\ Top.node \in Active
           /\ Successor \in Blocks
           /\ Successor \in ToSet(succ[Top.node])
           /\ Successor \in ReachFrom(succ, Top.node)
           /\ Successor \in Reachable
  <1>1. succ \in [Blocks -> Seq(Blocks)]
    BY SuccTyped
  <1>2. Depth \in Nat \ {0} /\ Top = stack[Depth] /\ Top.node \in Blocks
        /\ Top.it \in Nat \ {0}
    BY AdvancedShape DEF Top, Frames
  <1>3. succ[Top.node] \in Seq(Blocks) /\ Top.it \in 1..Len(succ[Top.node])
    BY <1>1, <1>2, LenProperties DEF AtSuccessor
  <1>4. Successor \in ToSet(succ[Top.node]) /\ Successor \in Blocks
    BY <1>3, Entries DEF Successor
  <1>5. Successor \in ReachFrom(succ, Top.node)
    BY <1>1, <1>2, <1>4, ReachEdge
  <1>6. Top.node \in Active
    BY <1>2, ActiveFrames
  <1>7. Top.node \in Reachable
    BY <1>6 DEF Walking, VisitedSplit, VisitedReachable
  <1>8. Successor \in Reachable
    BY <1>1, <1>5, <1>7, CfgAssumption, ReachTransitive DEF Reachable
  <1> QED BY <1>2, <1>4, <1>5, <1>6, <1>8

\* DFS is called on a successor it has not visited.
LEMMA DescendStep ==
    ASSUME TypeOK, Walking, stack # <<>>, Descend
    PROVE  Walking' /\ stack' # <<>>
  <1> DEFINE v == Successor
  <1>1. /\ AtSuccessor /\ v \notin visited /\ visited' = visited \cup {v}
        /\ stack' = Append(Advanced, Enter(v)) /\ succ' = succ /\ rpo' = rpo
    BY DEF Descend
  <1>2. /\ Depth \in Nat \ {0} /\ Top = stack[Depth] /\ v \in Blocks
        /\ Top.node \in Blocks
        /\ v \in ReachFrom(succ, Top.node) /\ v \in Reachable
    BY <1>1, SuccessorFacts
  <1>3. /\ DOMAIN stack' = 1 .. Depth + 1
        /\ \A i \in 1..Depth :
             /\ stack'[i].node = stack[i].node
             /\ i # Depth => stack'[i].it = stack[i].it
             /\ i = Depth => stack'[i].it = stack[i].it + 1
        /\ stack'[Depth + 1].node = v
        /\ stack'[Depth + 1].it = 1
    BY <1>1, <1>2, CallShape
  <1>4. /\ DOMAIN stack = 1..Depth
        /\ \A i \in 1..Depth : stack[i].node \in Blocks /\ stack[i].it \in Nat \ {0}
        /\ \A u : u \in Active <=> \E i \in 1..Depth : stack[i].node = u
    BY ActiveFrames
  <1>5. succ \in [Blocks -> Seq(Blocks)]
    BY SuccTyped
  <1>6. v = succ[Top.node][Top.it]
    BY DEF Successor
  <1> HIDE DEF v
  <1>7. Active' = Active \cup {v}
    <2>1. \A u : u \in Active' <=> \E i \in 1 .. Depth + 1 : stack'[i].node = u
      BY <1>3 DEF Active
    <2> QED BY <1>2, <1>3, <1>4, <2>1
  <1>8. VisitedSplit'
    <2>1. \A i \in 1..Depth : stack[i].node # v
      BY <1>1, <1>4 DEF Walking, VisitedSplit
    <2>2. \A i, j \in DOMAIN stack' : stack'[i].node = stack'[j].node => i = j
      BY <1>2, <1>3, <1>4, <2>1 DEF Walking, VisitedSplit
    <2>3. Finished' = Finished
      BY <1>1 DEF Finished
    <2>4. NoDuplicates(rpo)'
      BY <1>1 DEF Walking, VisitedSplit
    <2>5. visited' = Active' \cup Finished' /\ Active' \cap Finished' = {}
      BY <1>1, <1>7, <2>3 DEF Walking, VisitedSplit
    <2> QED BY <2>2, <2>4, <2>5 DEF VisitedSplit
  <1>9. ActiveChain'
    <2> SUFFICES ASSUME NEW i \in 1 .. Depth + 1, NEW j \in 1 .. Depth + 1, i <= j
                 PROVE  stack'[j].node \in ReachFrom(succ, stack'[i].node)
      BY <1>1, <1>3 DEF ActiveChain
    <2>1. CASE j <= Depth
      <3>1. i \in 1..Depth /\ j \in 1..Depth
        BY <1>2, <2>1
      <3> QED BY <1>3, <1>4, <3>1 DEF Walking, ActiveChain
    <2>2. CASE j = Depth + 1 /\ i = Depth + 1
      BY <1>2, <1>3, <1>5, <2>2, ReachReflexive
    <2>3. CASE j = Depth + 1 /\ i <= Depth
      <3>1. i \in 1..Depth /\ Depth \in 1..Depth
        BY <1>2, <2>3
      <3>2. Top.node \in ReachFrom(succ, stack[i].node)
        BY <1>2, <1>4, <3>1 DEF Walking, ActiveChain
      <3>3. v \in ReachFrom(succ, stack[i].node)
        BY <1>2, <1>4, <1>5, <3>1, <3>2, ReachTransitive
      <3> QED BY <1>3, <2>3, <3>1, <3>3
    <2> QED BY <1>2, <2>1, <2>2, <2>3
  <1>10. VisitedReachable'
    BY <1>1, <1>2 DEF Walking, VisitedReachable, Reachable
  <1>11. PassedVisited'
    <2> SUFFICES ASSUME NEW i \in 1 .. Depth + 1,
                        NEW k \in DOMAIN succ[stack'[i].node], k < stack'[i].it
                 PROVE  succ[stack'[i].node][k] \in visited \cup {v}
      BY <1>1, <1>3 DEF PassedVisited
    <2>0. k \in Nat \ {0}
      <3>1. stack'[i].node \in Blocks
        BY <1>2, <1>3, <1>4
      <3> QED BY <1>5, <3>1, LenProperties
    <2>1. CASE i = Depth + 1
      BY <1>3, <2>0, <2>1
    <2>2. CASE i \in 1..Depth /\ k < stack[i].it
      BY <1>3, <1>4, <2>2 DEF Walking, PassedVisited
    <2>3. CASE i = Depth /\ k = stack[Depth].it
      <3>1. stack'[Depth].node = stack[Depth].node
        BY <1>2, <1>3
      <3> QED BY <1>2, <1>6, <2>3, <3>1
    <2>4. i = Depth + 1 \/ i \in 1..Depth
      BY <1>2
    <2>5. ASSUME i \in 1..Depth, ~(k < stack[i].it) PROVE i = Depth /\ k = stack[Depth].it
      <3>1. stack[i].it \in Nat
        BY <1>4, <2>5
      <3>2. stack'[i].it = stack[i].it \/ (i = Depth /\ stack'[i].it = stack[i].it + 1)
        BY <1>3, <2>5
      <3>3. i = Depth /\ k < stack[i].it + 1
        BY <2>5, <3>2
      <3> QED BY <2>0, <2>5, <3>1, <3>3
    <2> QED BY <2>1, <2>2, <2>3, <2>4, <2>5
  <1>12. FinishedOrder'
    BY <1>1 DEF Walking, FinishedOrder, Finished
  <1>13. stack' # <<>>
    <2>1. 1 \in DOMAIN stack'
      BY <1>2, <1>3
    <2> QED BY <2>1
  <1>14. ActivePathAvoids'
    <2> SUFFICES ASSUME NEW i \in 1 .. Depth + 1, NEW d \in Blocks,
                        \A j \in 1 .. i - 1 : stack'[j].node # d
                 PROVE  stack'[i].node \in ReachAvoiding(succ, Root, {d})
      BY <1>1, <1>3 DEF ActivePathAvoids
    <2>1. CASE i \in 1..Depth
      <3>1. \A j \in 1 .. i - 1 : j \in 1..Depth
        BY <1>2, <2>1
      <3> QED BY <1>3, <1>4, <2>1, <3>1 DEF Walking, ActivePathAvoids
    <2>2. CASE i = Depth + 1
      <3>1. Depth \in 1..Depth /\ \A j \in 1..Depth : stack[j].node # d
        BY <1>2, <1>3, <2>2
      <3>2. stack[Depth].node \in ReachAvoiding(succ, Root, {d})
        BY <1>2, <1>4, <3>1 DEF Walking, ActivePathAvoids
      <3>3. v \in ToSet(succ[Top.node])
        BY <1>1, SuccessorFacts DEF v
      <3> QED BY <1>2, <1>3, <1>5, <2>2, <3>1, <3>2, <3>3, CfgAssumption, AvoidEdge
    <2> QED BY <1>2, <2>1, <2>2
  <1>15. DominatorsOpen'
    BY <1>1, <1>7 DEF Walking, DominatorsOpen, Finished
  <1> QED BY <1>8, <1>9, <1>10, <1>11, <1>12, <1>13, <1>14, <1>15 DEF Walking

\* A visited successor is passed over.
LEMMA PassOverStep ==
    ASSUME TypeOK, Walking, stack # <<>>, PassOver
    PROVE  Walking' /\ stack' # <<>>
  <1>1. /\ AtSuccessor /\ Successor \in visited /\ visited' = visited
        /\ stack' = Advanced /\ succ' = succ /\ rpo' = rpo
    BY DEF PassOver
  <1>2. Depth \in Nat \ {0} /\ Top = stack[Depth]
    BY <1>1, SuccessorFacts
  <1>3. /\ stack' \in Seq(Frames)
        /\ DOMAIN stack' = 1..Depth
        /\ \A i \in 1..Depth :
             /\ stack'[i].node = stack[i].node
             /\ i # Depth => stack'[i].it = stack[i].it
             /\ i = Depth => stack'[i].it = stack[i].it + 1
    BY <1>1, AdvancedShape, LenProperties
  <1>4. /\ DOMAIN stack = 1..Depth
        /\ \A i \in 1..Depth : stack[i].node \in Blocks /\ stack[i].it \in Nat \ {0}
    BY ActiveFrames
  <1>5. succ \in [Blocks -> Seq(Blocks)]
    BY SuccTyped
  <1>6. Active' = Active
    BY <1>3, <1>4 DEF Active
  <1>7. VisitedSplit'
    <2>1. \A i, j \in DOMAIN stack' : stack'[i].node = stack'[j].node => i = j
      BY <1>3, <1>4 DEF Walking, VisitedSplit
    <2>2. Finished' = Finished
      BY <1>1 DEF Finished
    <2>3. NoDuplicates(rpo)'
      BY <1>1 DEF Walking, VisitedSplit
    <2>4. visited' = Active' \cup Finished' /\ Active' \cap Finished' = {}
      BY <1>1, <1>6, <2>2 DEF Walking, VisitedSplit
    <2> QED BY <2>1, <2>3, <2>4 DEF VisitedSplit
  <1>8. ActiveChain'
    BY <1>1, <1>3, <1>4 DEF Walking, ActiveChain
  <1>9. VisitedReachable' /\ FinishedOrder'
    BY <1>1 DEF Walking, VisitedReachable, Reachable, FinishedOrder, Finished
  <1>10. PassedVisited'
    <2> SUFFICES ASSUME NEW i \in 1..Depth,
                        NEW k \in DOMAIN succ[stack[i].node], k < stack'[i].it
                 PROVE  succ[stack[i].node][k] \in visited
      BY <1>1, <1>3 DEF PassedVisited
    <2>1. k \in Nat
      <3>1. stack[i].node \in Blocks
        BY <1>4
      <3> QED BY <1>5, <3>1, LenProperties
    <2>2. CASE k < stack[i].it
      BY <1>4, <2>2 DEF Walking, PassedVisited
    <2>3. CASE ~(k < stack[i].it)
      <3>1. stack[i].it \in Nat
        BY <1>4
      <3>2. stack'[i].it = stack[i].it \/ (i = Depth /\ stack'[i].it = stack[i].it + 1)
        BY <1>3
      <3>3. i = Depth /\ k < stack[i].it + 1
        BY <2>3, <3>2
      <3>4. k = stack[i].it
        BY <2>1, <2>3, <3>1, <3>3
      <3> QED BY <1>1, <1>2, <3>3, <3>4 DEF Successor
    <2> QED BY <2>2, <2>3
  <1>11. stack' # <<>>
    <2>1. 1 \in DOMAIN stack'
      BY <1>2, <1>3
    <2> QED BY <2>1
  <1>12. ActivePathAvoids'
    <2>1. \A i \in 1..Depth : \A j \in 1 .. i - 1 : j \in 1..Depth
      BY <1>2
    <2> QED BY <1>1, <1>3, <1>4, <2>1 DEF Walking, ActivePathAvoids
  <1>13. DominatorsOpen'
    BY <1>1, <1>6 DEF Walking, DominatorsOpen, Finished
  <1> QED BY <1>7, <1>8, <1>9, <1>10, <1>11, <1>12, <1>13 DEF Walking

\* Appending to a vector keeps the order of what is there and puts the new
\* entry behind all of it.
LEMMA BeforeAppend ==
    ASSUME NEW s \in Seq(Blocks), NEW x \in Blocks
    PROVE  /\ \A u, v : Before(s, u, v) => Before(Append(s, x), u, v)
           /\ \A u \in ToSet(s) : Before(Append(s, x), u, x)
  <1>1. /\ Len(s) \in Nat /\ DOMAIN s = 1..Len(s)
        /\ DOMAIN Append(s, x) = 1 .. Len(s) + 1
        /\ \A i \in 1..Len(s) : Append(s, x)[i] = s[i]
        /\ Append(s, x)[Len(s) + 1] = x
    BY AppendEntries, LenProperties
  <1>2. ASSUME NEW u, NEW v, Before(s, u, v) PROVE Before(Append(s, x), u, v)
    <2>1. PICK i \in 1..Len(s), j \in 1..Len(s) : i < j /\ s[i] = u /\ s[j] = v
      BY <1>1, <1>2 DEF Before
    <2>2. i \in 1 .. Len(s) + 1 /\ j \in 1 .. Len(s) + 1
      BY <1>1
    <2> QED BY <1>1, <2>1, <2>2 DEF Before
  <1>3. ASSUME NEW u \in ToSet(s) PROVE Before(Append(s, x), u, x)
    <2>1. PICK i \in 1..Len(s) : s[i] = u
      BY <1>1 DEF ToSet
    <2>2. /\ i \in 1 .. Len(s) + 1 /\ Len(s) + 1 \in 1 .. Len(s) + 1
          /\ i < Len(s) + 1
      BY <1>1
    <2> QED BY <1>1, <2>1, <2>2 DEF Before
  <1> QED BY <1>2, <1>3

\* DFS ends and appends its block.
LEMMA ReturnStep ==
    ASSUME TypeOK, Walking, stack # <<>>, Return
    PROVE  Walking' /\ (pc' = "dfs" => stack' # <<>>) /\ (pc' = "reverse" => stack' = <<>>)
  <1> DEFINE t == Top.node
  <1>1. /\ Top.it > Len(succ[t]) /\ rpo' = Append(rpo, t) /\ stack' = Front(stack)
        /\ pc' = (IF Depth = 1 THEN "reverse" ELSE "dfs")
        /\ visited' = visited /\ succ' = succ
    BY DEF Return
  <1>2. Depth \in Nat \ {0} /\ Top = stack[Depth] /\ t \in Blocks /\ Top.it \in Nat
    BY AdvancedShape DEF Top, Frames
  <1>3. /\ DOMAIN stack = 1..Depth
        /\ \A i \in 1..Depth : stack[i].node \in Blocks /\ stack[i].it \in Nat \ {0}
        /\ \A u : u \in Active <=> \E i \in 1..Depth : stack[i].node = u
    BY ActiveFrames
  <1>4. /\ stack' \in Seq(Frames) /\ Len(stack') = Depth - 1
        /\ DOMAIN stack' = 1 .. Depth - 1
        /\ \A i \in 1 .. Depth - 1 : stack'[i] = stack[i]
    BY <1>1, FrontEntries DEF Depth, TypeOK
  <1>5. succ \in [Blocks -> Seq(Blocks)] /\ rpo \in Seq(Blocks)
    BY SuccTyped DEF TypeOK
  <1>6. t = stack[Depth].node
    BY <1>2
  <1> HIDE DEF t
  <1>7. Active' = Active \ {t} /\ t \in Active
    <2>1. \A u : u \in Active' <=> \E i \in 1 .. Depth - 1 : stack[i].node = u
      BY <1>4 DEF Active
    <2>2. \A i \in 1 .. Depth - 1 : stack[i].node # t
      BY <1>2, <1>3, <1>6 DEF Walking, VisitedSplit
    <2>3. \A i \in 1..Depth : i \in 1 .. Depth - 1 \/ i = Depth
      BY <1>2
    <2>4. \A i \in 1 .. Depth - 1 : i \in 1..Depth
      BY <1>2
    <2>5. Depth \in 1..Depth
      BY <1>2
    <2> QED BY <1>3, <1>6, <2>1, <2>2, <2>3, <2>4, <2>5
  <1>8. Finished' = Finished \cup {t} /\ t \notin Finished
    BY <1>1, <1>2, <1>5, <1>7, AppendEntries DEF Finished, Walking, VisitedSplit
  <1>9. VisitedSplit'
    <2>1. NoDuplicates(rpo)'
      BY <1>1, <1>2, <1>5, <1>8, PushKeepsDistinct DEF Walking, VisitedSplit, Finished
    <2>2. \A i, j \in DOMAIN stack' : stack'[i].node = stack'[j].node => i = j
      <3>1. \A i \in 1 .. Depth - 1 : i \in 1..Depth
        BY <1>2
      <3> QED BY <1>3, <1>4, <3>1 DEF Walking, VisitedSplit
    <2>3. visited' = Active' \cup Finished' /\ Active' \cap Finished' = {}
      BY <1>1, <1>7, <1>8 DEF Walking, VisitedSplit
    <2> QED BY <2>1, <2>2, <2>3 DEF VisitedSplit
  <1>10. ActiveChain' /\ PassedVisited'
    <2>1. \A i \in 1 .. Depth - 1 : i \in 1..Depth
      BY <1>2
    <2>2. ActiveChain'
      BY <1>1, <1>3, <1>4, <2>1 DEF Walking, ActiveChain
    <2>3. PassedVisited'
      BY <1>1, <1>3, <1>4, <2>1 DEF Walking, PassedVisited
    <2> QED BY <2>2, <2>3
  <1>11. VisitedReachable'
    BY <1>1 DEF Walking, VisitedReachable, Reachable
  <1>12. FinishedOrder'
    <2>0. /\ \A u, v : Before(rpo, u, v) => Before(rpo', u, v)
          /\ \A u \in Finished : Before(rpo', u, t)
      BY <1>1, <1>2, <1>5, BeforeAppend DEF Finished
    <2>1. ASSUME NEW u \in Finished, NEW v \in ToSet(succ[u])
          PROVE  v \in visited /\ (Before(rpo', v, u) \/ OnCycle(succ, u, v))
      BY <2>0 DEF Walking, FinishedOrder
    <2>2. ASSUME NEW v \in ToSet(succ[t])
          PROVE  v \in visited /\ (Before(rpo', v, t) \/ OnCycle(succ, t, v))
      <3>1. v \in visited
        <4>1. succ[t] \in Seq(Blocks)
          BY <1>2, <1>5
        <4>2. PICK k \in 1..Len(succ[t]) : succ[t][k] = v
          BY <4>1, Entries
        <4>3. Len(succ[t]) \in Nat /\ DOMAIN succ[t] = 1..Len(succ[t])
          BY <4>1, LenProperties
        <4>4. k < Top.it /\ k \in DOMAIN succ[t]
          BY <1>1, <1>2, <4>2, <4>3
        <4> QED BY <1>2, <1>3, <1>6, <4>2, <4>4 DEF Walking, PassedVisited
      <3>2. CASE v \in Finished
        BY <2>0, <3>1, <3>2
      <3>3. CASE v \in Active
        <4>1. PICK i \in 1..Depth : stack[i].node = v
          BY <1>3, <3>3
        <4>2. Depth \in 1..Depth /\ i <= Depth
          BY <1>2
        <4>3. t \in ReachFrom(succ, v)
          BY <1>3, <1>6, <4>1, <4>2 DEF Walking, ActiveChain
        <4> QED BY <3>1, <4>3 DEF OnCycle
      <3> QED BY <3>1, <3>2, <3>3 DEF Walking, VisitedSplit
    <2> QED BY <1>1, <1>8, <2>1, <2>2 DEF FinishedOrder
  <1>13. pc' = "dfs" => stack' # <<>>
    BY <1>1, <1>2, <1>4
  <1>14. pc' = "reverse" => stack' = <<>>
    <2>1. ASSUME pc' = "reverse" PROVE Len(stack') = 0
      BY <1>1, <1>2, <1>4, <2>1
    <2> QED BY <1>4, <2>1, EmptySeq
  <1>15. ActivePathAvoids'
    <2>1. \A i \in 1 .. Depth - 1 : i \in 1..Depth /\ \A j \in 1 .. i - 1 : j \in 1 .. Depth - 1
      BY <1>2
    <2> QED BY <1>1, <1>3, <1>4, <2>1 DEF Walking, ActivePathAvoids
  <1>16. DominatorsOpen'
    <2>0. /\ \A u, v : Before(rpo, u, v) => Before(rpo', u, v)
          /\ \A u \in Finished : Before(rpo', u, t)
      BY <1>1, <1>2, <1>5, BeforeAppend DEF Finished
    <2>1. ASSUME NEW v \in Finished, NEW d \in Blocks, StrictlyDominates(succ, Root, d, v)
          PROVE  d \in Active' \/ Before(rpo', v, d)
      <3>1. d \in Active \/ Before(rpo, v, d)
        BY <2>1 DEF Walking, DominatorsOpen
      <3> QED BY <1>7, <2>0, <3>1
    <2>2. ASSUME NEW d \in Blocks, StrictlyDominates(succ, Root, d, t)
          PROVE  d \in Active'
      <3>1. d # t /\ t \notin ReachAvoiding(succ, Root, {d})
        BY <2>2 DEF StrictlyDominates, Dominates
      <3>2. PICK j \in 1 .. Depth - 1 : stack[j].node = d
        BY <1>2, <1>3, <1>6, <3>1 DEF Walking, ActivePathAvoids
      <3>3. j \in 1..Depth
        BY <1>2
      <3> QED BY <1>3, <1>7, <3>1, <3>2, <3>3
    <2> QED BY <1>1, <1>8, <2>1, <2>2 DEF DominatorsOpen
  <1> QED BY <1>9, <1>10, <1>11, <1>12, <1>13, <1>14, <1>15, <1>16 DEF Walking

\* Reversal keeps the entries and turns their order round.
LEMMA ReverseEntries ==
    ASSUME NEW s \in Seq(Blocks)
    PROVE  /\ ToSet(Reverse(s)) = ToSet(s)
           /\ NoDuplicates(s) => NoDuplicates(Reverse(s))
           /\ \A u, v : Before(s, v, u) => Before(Reverse(s), u, v)
  <1> DEFINE n == Len(s)
             r == Reverse(s)
  <1>1. n \in Nat /\ DOMAIN s = 1..n
    BY LenProperties
  <1>2. DOMAIN r = 1..n /\ \A i \in 1..n : r[i] = s[(n - i) + 1]
    BY DEF Reverse
  <1> HIDE DEF n, r
  <1>3. \A i \in 1..n : (n - i) + 1 \in 1..n /\ (n - ((n - i) + 1)) + 1 = i
    BY <1>1
  <1>4. \A i \in 1..n : r[(n - i) + 1] = s[i]
    BY <1>2, <1>3
  <1>5. ToSet(r) = ToSet(s)
    BY <1>1, <1>2, <1>3, <1>4 DEF ToSet
  <1>6. ASSUME NoDuplicates(s) PROVE NoDuplicates(r)
    <2> SUFFICES ASSUME NEW i \in 1..n, NEW j \in 1..n, r[i] = r[j] PROVE i = j
      BY <1>2 DEF NoDuplicates
    <2>1. (n - i) + 1 = (n - j) + 1
      BY <1>1, <1>2, <1>3, <1>6 DEF NoDuplicates
    <2> QED BY <1>1, <2>1
  <1>7. ASSUME NEW u, NEW v, Before(s, v, u) PROVE Before(r, u, v)
    <2>1. PICK i \in 1..n, j \in 1..n : i < j /\ s[i] = v /\ s[j] = u
      BY <1>1, <1>7 DEF Before
    <2>2. (n - j) + 1 < (n - i) + 1
      BY <1>1, <2>1
    <2> QED BY <1>2, <1>3, <1>4, <2>1, <2>2 DEF Before
  <1> QED BY <1>5, <1>6, <1>7 DEF r

\* The reversed post-order has the three properties of the result.
LEMMA ReverseStep ==
    ASSUME TypeOK, Walking, stack = <<>>, Root \in visited, ReverseAll
    PROVE  ListsReachableOnce' /\ EdgesGoForward' /\ DominatorsComeFirst'
  <1>1. rpo' = Reverse(rpo) /\ succ' = succ /\ rpo \in Seq(Blocks) /\ succ \in [Blocks -> Seq(Blocks)]
    BY SuccTyped DEF ReverseAll, TypeOK
  <1>2. Active = {}
    BY DEF Active
  <1>3. visited = Finished
    BY <1>2 DEF Walking, VisitedSplit
  <1>4. Closed(succ, Finished)
    BY <1>3 DEF Walking, FinishedOrder, Closed
  <1>5. Finished = Reachable
    <2>1. Finished \subseteq Blocks
      BY <1>3 DEF TypeOK
    <2>2. Reachable \subseteq Finished
      BY <1>1, <1>3, <1>4, <2>1, CfgAssumption, ReachWithinClosed DEF Reachable
    <2>3. Finished \subseteq Reachable
      BY <1>3 DEF Walking, VisitedReachable
    <2> QED BY <2>2, <2>3
  <1>6. /\ ToSet(rpo') = ToSet(rpo)
        /\ NoDuplicates(rpo')
        /\ \A u, v : Before(rpo, v, u) => Before(rpo', u, v)
    BY <1>1, ReverseEntries DEF Walking, VisitedSplit
  <1>7. Reachable' = Reachable
    BY <1>1 DEF Reachable
  <1>8. ListsReachableOnce'
    BY <1>5, <1>6, <1>7 DEF ListsReachableOnce, Finished
  <1>9. EdgesGoForward'
    <2> SUFFICES ASSUME NEW u \in Reachable, NEW v \in ToSet(succ[u])
                 PROVE  Before(rpo', u, v) \/ OnCycle(succ, u, v)
      BY <1>1, <1>7 DEF EdgesGoForward
    <2> QED BY <1>5, <1>6 DEF Walking, FinishedOrder
  <1>10. DominatorsComeFirst'
    <2> SUFFICES ASSUME NEW d \in Reachable, NEW v \in Reachable,
                        StrictlyDominates(succ, Root, d, v)
                 PROVE  Before(rpo', d, v)
      BY <1>1, <1>7 DEF DominatorsComeFirst
    <2>1. d \in Blocks
      BY <1>1, ReachTyped DEF Reachable
    <2> QED BY <1>2, <1>5, <1>6, <2>1 DEF Walking, DominatorsOpen
  <1> QED BY <1>8, <1>9, <1>10

\* Run: the root alone is active.
LEMMA RunStep ==
    ASSUME TypeOK, Run, rpo = <<>>
    PROVE  Walking' /\ stack' # <<>> /\ Root \in visited'
  <1>1. /\ visited' = {Root} /\ stack' = <<Enter(Root)>> /\ succ' = succ /\ rpo' = <<>>
    BY DEF Run
  <1>2. succ \in [Blocks -> Seq(Blocks)]
    BY SuccTyped
  <1>3. Root \in ReachFrom(succ, Root)
    BY <1>2, CfgAssumption, ReachReflexive
  <1>4. DOMAIN stack' = {1} /\ stack'[1].node = Root /\ stack'[1].it = 1
    BY <1>1 DEF Enter
  <1>5. Active' = {Root}
    BY <1>4 DEF Active
  <1>6. Finished' = {} /\ NoDuplicates(rpo)'
    BY <1>1 DEF Finished, ToSet, NoDuplicates
  <1>7. VisitedSplit'
    BY <1>1, <1>4, <1>5, <1>6 DEF VisitedSplit
  <1>8. ActiveChain' /\ VisitedReachable'
    BY <1>1, <1>3, <1>4 DEF ActiveChain, VisitedReachable, Reachable
  <1>9. PassedVisited'
    <2>1. \A k \in DOMAIN succ[Root] : ~(k < 1)
      BY <1>2, CfgAssumption, LenProperties
    <2> QED BY <1>1, <1>4, <2>1 DEF PassedVisited
  <1>10. FinishedOrder'
    BY <1>6 DEF FinishedOrder
  <1>11. stack' # <<>>
    BY <1>1
  <1>12. ActivePathAvoids'
    <2>1. \A d \in Blocks : Root \in ReachAvoiding(succ, Root, {d})
      BY <1>2, CfgAssumption, AvoidReflexive
    <2> QED BY <1>1, <1>4, <2>1 DEF ActivePathAvoids
  <1>13. DominatorsOpen'
    BY <1>6 DEF DominatorsOpen
  <1> QED BY <1>1, <1>7, <1>8, <1>9, <1>10, <1>11, <1>12, <1>13 DEF Walking

\* The invariant is inductive.
LEMMA IInvStep == IInv /\ [Next]_vars => IInv'
  <1> SUFFICES ASSUME IInv, [Next]_vars PROVE IInv'
    OBVIOUS
  <1>0. TypeOK /\ TypeOK'
    BY TypeStep DEF IInv
  <1>1. CASE Run
    BY <1>0, <1>1, RunStep DEF Run, IInv
  <1>2. CASE Descend
    <2>1. pc = "dfs" /\ pc' = "dfs" /\ Walking /\ stack # <<>> /\ Root \in visited'
      BY <1>2 DEF Descend, AtSuccessor, IInv
    <2> QED BY <1>0, <1>2, <2>1, DescendStep DEF IInv
  <1>3. CASE PassOver
    <2>1. pc = "dfs" /\ pc' = "dfs" /\ Walking /\ stack # <<>> /\ Root \in visited'
      BY <1>3 DEF PassOver, AtSuccessor, IInv
    <2> QED BY <1>0, <1>3, <2>1, PassOverStep DEF IInv
  <1>4. CASE Return
    <2>1. Walking /\ stack # <<>> /\ Root \in visited' /\ pc' \in {"dfs", "reverse"}
      BY <1>4 DEF Return, IInv
    <2> QED BY <1>0, <1>4, <2>1, ReturnStep DEF IInv
  <1>5. CASE ReverseAll
    <2>1. Walking /\ stack = <<>> /\ Root \in visited /\ pc' = "done"
      BY <1>5 DEF ReverseAll, IInv
    <2> QED BY <1>0, <1>5, <2>1, ReverseStep DEF IInv
  <1>6. CASE Returned \/ UNCHANGED vars
    <2>1. UNCHANGED vars
      BY <1>6 DEF Returned
    <2> QED BY <2>1 DEF vars, IInv, TypeOK, Walking, VisitedSplit, Active, Finished, ActiveChain,
                        VisitedReachable, Reachable, PassedVisited, FinishedOrder,
                        ActivePathAvoids, DominatorsOpen,
                        ListsReachableOnce, EdgesGoForward, DominatorsComeFirst
  <1> QED BY <1>1, <1>2, <1>3, <1>4, <1>5, <1>6 DEF Next

\* The invariant holds before Run.
LEMMA InitIInv == Init => IInv
  BY DEF Init, IInv, TypeOK

\* The inductive invariant of RPO::Run holds throughout.
THEOREM Invariance == Spec => []IInv
  BY InitIInv, IInvStep, PTL DEF Spec

\* The result lists every block reachable from the root once and no other.
THEOREM ListsReachable == Spec => []ListsReachableOnce
  <1>1. IInv => ListsReachableOnce
    BY DEF IInv, ListsReachableOnce
  <1> QED BY <1>1, Invariance, PTL

\* In the result the source of an edge comes before its target unless the
\* edge closes a cycle: on an acyclic graph it is a topological order.
THEOREM ForwardEdges == Spec => []EdgesGoForward
  <1>1. IInv => EdgesGoForward
    BY DEF IInv, EdgesGoForward
  <1> QED BY <1>1, Invariance, PTL

\* In the result every block comes after all its strict dominators, on any
\* graph: a pass over rpo_ has met the dominators of a block before the block.
THEOREM DominatorsFirst == Spec => []DominatorsComeFirst
  <1>1. IInv => DominatorsComeFirst
    BY DEF IInv, DominatorsComeFirst
  <1> QED BY <1>1, Invariance, PTL
=============================================================================
