------------------------ MODULE IRGraphEdges_proofs ------------------------
(***************************************************************************)
(* Proofs about the edges of an IRGraph, for any number of blocks and any  *)
(* bounds.  Every theorem rests on the type invariant; what is assumed of  *)
(* the client (FreshBegin, LastOnly) is an assumption of the theorem.      *)
(***************************************************************************)
EXTENDS IRGraphEdges, ControlFlow_proofs, FiniteSetTheorems

\* One edge pushed at both ends keeps the vectors well typed.
LEMMA AddTyped ==
    ASSUME TypeOK, NEW from \in BasicBlocks, NEW to \in BasicBlocks,
           AddSuccWithPredec(from, to)
    PROVE  /\ succ' \in [BasicBlocks -> Seq(BasicBlocks)]
           /\ predec' \in [BasicBlocks -> Seq(BasicBlocks)]
  <1>1. /\ Append(succ[from], to) \in Seq(BasicBlocks)
        /\ Append(predec[to], from) \in Seq(BasicBlocks)
    BY AppendEntries DEF TypeOK
  <1> QED BY <1>1 DEF TypeOK, AddSuccWithPredec, PushBack

\* An edge popped at both ends keeps the vectors well typed.
LEMMA RemoveTyped ==
    ASSUME TypeOK, NEW from \in BasicBlocks, NEW to \in BasicBlocks,
           Occurs(succ, from, to), RemoveSuccWithPredec(from, to)
    PROVE  /\ succ' \in [BasicBlocks -> Seq(BasicBlocks)]
           /\ predec' \in [BasicBlocks -> Seq(BasicBlocks)]
  <1>1. /\ succ \in [BasicBlocks -> Seq(BasicBlocks)]
        /\ predec \in [BasicBlocks -> Seq(BasicBlocks)]
    BY DEF TypeOK
  <1>2. succ[from] \in Seq(BasicBlocks) /\ succ[from] # <<>>
    BY <1>1, Entries DEF Occurs, ToSet
  <1>3. Front(succ[from]) \in Seq(BasicBlocks)
    BY <1>2, FrontEntries
  <1>4. succ' \in [BasicBlocks -> Seq(BasicBlocks)]
    BY <1>1, <1>3 DEF RemoveSuccWithPredec, PopBack
  <1>5. CASE Occurs(predec, to, from)
    <2>1. predec[to] \in Seq(BasicBlocks) /\ predec[to] # <<>>
      BY <1>1, <1>5, Entries DEF Occurs, ToSet
    <2>2. Front(predec[to]) \in Seq(BasicBlocks)
      BY <2>1, FrontEntries
    <2> QED BY <1>1, <1>4, <1>5, <2>2 DEF RemoveSuccWithPredec, PopBack
  <1>6. CASE ~Occurs(predec, to, from)
    BY <1>1, <1>4, <1>6 DEF RemoveSuccWithPredec
  <1> QED BY <1>5, <1>6

\* Every call keeps the types.
LEMMA TypeStep == TypeOK /\ [Next]_vars => TypeOK'
  <1> SUFFICES ASSUME TypeOK, [Next]_vars PROVE TypeOK'
    OBVIOUS
  <1> USE DEF TypeOK, Calls, MaybeBlock
  <1>1. CASE AddNullToBegin
    BY <1>1 DEF AddNullToBegin, Returns
  <1>2. ASSUME NEW bb \in BasicBlocks, AddBBInGraph(bb) PROVE TypeOK'
    BY <1>2 DEF AddBBInGraph, Returns
  <1>3. ASSUME NEW bb \in BasicBlocks, AddBBToBegin(bb) PROVE TypeOK'
    <2>1. /\ succ' \in [BasicBlocks -> Seq(BasicBlocks)]
          /\ predec' \in [BasicBlocks -> Seq(BasicBlocks)]
      BY <1>3, AddTyped DEF AddBBToBegin, edgeVars
    <2> QED BY <1>3, <2>1 DEF AddBBToBegin, Returns
  <1>4. ASSUME NEW from \in BasicBlocks, NEW to \in BasicBlocks, AddEdge(from, to)
        PROVE  TypeOK'
    <2>1. /\ succ' \in [BasicBlocks -> Seq(BasicBlocks)]
          /\ predec' \in [BasicBlocks -> Seq(BasicBlocks)]
      BY <1>4, AddTyped DEF AddEdge, edgeVars
    <2>2. call' \in Calls
      <3>1. Throws("AddEdge", from, to) \/ Returns("AddEdge", from, to)
        BY <1>4, Zenon DEF AddEdge
      <3>2. CASE Throws("AddEdge", from, to)
        BY <3>2 DEF Throws
      <3>3. CASE Returns("AddEdge", from, to)
        BY <3>3 DEF Returns
      <3> QED BY <3>1, <3>2, <3>3
    <2> QED BY <1>4, <2>1, <2>2 DEF AddEdge
  <1>5. ASSUME NEW from \in BasicBlocks, NEW to \in BasicBlocks, RemoveEdge(from, to)
        PROVE  TypeOK'
    <2>1. /\ succ' \in [BasicBlocks -> Seq(BasicBlocks)]
          /\ predec' \in [BasicBlocks -> Seq(BasicBlocks)]
      BY <1>5, RemoveTyped DEF RemoveEdge, RemoveEdgeRefused, edgeVars
    <2>2. call' \in Calls
      <3>1. Throws("RemoveEdge", from, to) \/ Returns("RemoveEdge", from, to)
        BY <1>5, Zenon DEF RemoveEdge, RemoveSuccWithPredec
      <3>2. CASE Throws("RemoveEdge", from, to)
        BY <3>2 DEF Throws
      <3>3. CASE Returns("RemoveEdge", from, to)
        BY <3>3 DEF Returns
      <3> QED BY <3>1, <3>2, <3>3
    <2> QED BY <1>5, <2>1, <2>2 DEF RemoveEdge
  <1>6. CASE UNCHANGED vars
    BY <1>6 DEF vars
  <1> QED BY <1>1, <1>2, <1>3, <1>4, <1>5, <1>6 DEF Next

\* Every state reached by any sequence of calls is well typed; in particular
\* the root is a block of the graph or null.
THEOREM TypeCorrect == Spec => []TypeOK
  <1>1. Init => TypeOK
    BY DEF Init, TypeOK, Calls, MaybeBlock
  <1> QED BY <1>1, TypeStep, PTL DEF Spec

-----------------------------------------------------------------------------
\* AddEdge lets an edge through only if the block does not have it already.
LEMMA AcceptedEdgeIsNew ==
    ASSUME TypeOK, TwoDistinctSuccs, NEW from \in BasicBlocks, NEW to \in BasicBlocks,
           ~AddEdgeRefused(from, to)
    PROVE  /\ {from, to} \subseteq bb_set
           /\ ~Occurs(succ, from, to)
           /\ Len(succ[from]) \in Nat
           /\ Len(succ[from]) < 2
  <1>1. /\ succ[from] \in Seq(BasicBlocks)
        /\ Len(succ[from]) \in Nat
        /\ Len(succ[from]) <= 2
    BY DEF TypeOK, TwoDistinctSuccs
  <1>2. /\ {from, to} \subseteq bb_set
        /\ Len(succ[from]) # 2
        /\ Len(succ[from]) = 1 => succ[from][1] # to
    BY Zenon DEF AddEdgeRefused
  <1>3. Len(succ[from]) < 2
    <2>1. \A n \in Nat : n <= 2 /\ n # 2 => n < 2
      OBVIOUS
    <2> QED BY <1>1, <1>2, <2>1, Zenon
  <1>4. ~Occurs(succ, from, to)
    <2>1. \A n \in Nat : n < 2 => \A i \in 1..n : n = 1 /\ i = 1
      OBVIOUS
    <2>2. \A i \in 1..Len(succ[from]) : Len(succ[from]) = 1 /\ i = 1
      BY <1>1, <1>3, <2>1, Zenon
    <2>3. \A i \in 1..Len(succ[from]) : succ[from][i] # to
      BY <1>2, <2>2
    <2> QED BY <1>1, <2>3, Entries DEF Occurs
  <1> QED BY <1>1, <1>2, <1>3, <1>4, Zenon

\* An AddEdge that is not refused pushes the edge, any other changes no vector.
LEMMA AddEdgeDoes ==
    ASSUME NEW from, NEW to, AddEdge(from, to)
    PROVE  /\ AddEdgeRefused(from, to) => UNCHANGED edgeVars
           /\ ~AddEdgeRefused(from, to) => AddSuccWithPredec(from, to)
  BY Zenon DEF AddEdge

\* A push makes a third or a repeated successor exactly from a block that is full
\* or has the target already.
LEMMA PushDistinctIff ==
    ASSUME TypeOK, TwoDistinctSuccs, NEW from \in BasicBlocks, NEW to \in BasicBlocks,
           AddSuccWithPredec(from, to)
    PROVE  TwoDistinctSuccs' <=> Len(succ[from]) # 2 /\ ~Occurs(succ, from, to)
  <1>1. /\ succ \in [BasicBlocks -> Seq(BasicBlocks)] /\ succ[from] \in Seq(BasicBlocks)
        /\ Len(succ[from]) \in Nat /\ Len(succ[from]) <= 2 /\ NoDuplicates(succ[from])
    BY DEF TypeOK, TwoDistinctSuccs
  <1>2. succ' = [succ EXCEPT ![from] = Append(succ[from], to)]
    BY <1>1 DEF AddSuccWithPredec, PushBack
  <1>3. Len(Append(succ[from], to)) = Len(succ[from]) + 1
    BY <1>1, AppendEntries
  <1>4. NoDuplicates(Append(succ[from], to)) <=> ~Occurs(succ, from, to)
    <2>1. CASE ~Occurs(succ, from, to)
      BY <1>1, <2>1, PushKeepsDistinct DEF Occurs
    <2>2. CASE Occurs(succ, from, to)
      <3>1. PICK k \in 1..Len(succ[from]) : succ[from][k] = to
        BY <1>1, <2>2, Entries DEF Occurs
      <3> DEFINE s == Append(succ[from], to)
                 n == Len(succ[from]) + 1
      <3>2. k \in 1..n /\ n \in 1..n /\ k # n
        BY <1>1
      <3>3. DOMAIN s = 1..n /\ s[k] = to /\ s[n] = to
        BY <1>1, <3>1, AppendEntries
      <3> QED BY <2>2, <3>2, <3>3, Zenon DEF NoDuplicates
    <2> QED BY <2>1, <2>2
  <1>5. Len(Append(succ[from], to)) <= 2 <=> Len(succ[from]) # 2
    <2>1. \A n \in Nat : n <= 2 => (n + 1 <= 2 <=> n # 2)
      OBVIOUS
    <2> QED BY <1>1, <1>3, <2>1, Zenon
  <1>6. succ'[from] = Append(succ[from], to) /\ \A bb \in BasicBlocks \ {from} : succ'[bb] = succ[bb]
    BY <1>1, <1>2
  <1>7. TwoDistinctSuccs' <=> Len(succ'[from]) <= 2 /\ NoDuplicates(succ'[from])
    BY <1>6, Zenon DEF TwoDistinctSuccs
  <1> QED BY <1>4, <1>5, <1>6, <1>7

\* Which calls give a block a third or a repeated successor.
LEMMA DistinctStep ==
    ASSUME TypeOK, TwoDistinctSuccs, Next
    PROVE  TwoDistinctSuccs' <=>
              ~(call'.op = "AddBBToBegin" /\ call'.from # Null /\ Crowds(call'.from))
  <1>0. succ \in [BasicBlocks -> Seq(BasicBlocks)]
    BY DEF TypeOK
  <1>1. ASSUME succ' = succ PROVE TwoDistinctSuccs'
    BY <1>1 DEF TwoDistinctSuccs
  <1>2. CASE AddNullToBegin
    BY <1>1, <1>2 DEF AddNullToBegin, Returns
  <1>3. ASSUME NEW bb \in BasicBlocks, AddBBInGraph(bb)
        PROVE  TwoDistinctSuccs' /\ call'.op # "AddBBToBegin"
    BY <1>1, <1>3 DEF AddBBInGraph, Returns
  <1>4. ASSUME NEW bb \in BasicBlocks, AddBBToBegin(bb)
        PROVE  /\ call'.op = "AddBBToBegin" /\ call'.from = bb /\ bb # Null
               /\ TwoDistinctSuccs' <=> ~Crowds(bb)
    <2>1. call'.op = "AddBBToBegin" /\ call'.from = bb /\ bb # Null
      BY <1>4, ContractAssumption DEF AddBBToBegin, Returns
    <2>2. CASE root = Null
      BY <1>1, <1>4, <2>1, <2>2 DEF AddBBToBegin, edgeVars, Crowds
    <2>3. CASE root # Null
      <3>1. AddSuccWithPredec(bb, root) /\ root \in BasicBlocks
        BY <1>4, <2>3 DEF AddBBToBegin, TypeOK
      <3>2. TwoDistinctSuccs' <=> Len(succ[bb]) # 2 /\ ~Occurs(succ, bb, root)
        BY <3>1, PushDistinctIff
      <3> QED BY <2>1, <2>3, <3>2, Zenon DEF Crowds
    <2> QED BY <2>2, <2>3
  <1>5. ASSUME NEW from \in BasicBlocks, NEW to \in BasicBlocks, AddEdge(from, to)
        PROVE  TwoDistinctSuccs' /\ call'.op # "AddBBToBegin"
    <2>1. Throws("AddEdge", from, to) \/ Returns("AddEdge", from, to)
      BY <1>5, Zenon DEF AddEdge
    <2>2. call'.op # "AddBBToBegin"
      BY <2>1 DEF Throws, Returns
    <2>3. CASE AddEdgeRefused(from, to)
      <3>1. UNCHANGED edgeVars
        BY <1>5, <2>3, AddEdgeDoes
      <3> QED BY <1>1, <2>2, <3>1 DEF edgeVars
    <2>4. CASE ~AddEdgeRefused(from, to)
      <3>1. AddSuccWithPredec(from, to)
        BY <1>5, <2>4, AddEdgeDoes
      <3>2. Len(succ[from]) # 2
        BY <2>4, Zenon DEF AddEdgeRefused
      <3>3. ~Occurs(succ, from, to)
        BY <2>4, AcceptedEdgeIsNew, Zenon
      <3>4. TwoDistinctSuccs'
        BY <3>1, <3>2, <3>3, PushDistinctIff
      <3> QED BY <2>2, <3>4
    <2> QED BY <2>3, <2>4
  <1>6. ASSUME NEW from \in BasicBlocks, NEW to \in BasicBlocks, RemoveEdge(from, to)
        PROVE  TwoDistinctSuccs' /\ call'.op # "AddBBToBegin"
    <2>1. Throws("RemoveEdge", from, to) \/ Returns("RemoveEdge", from, to)
      BY <1>6, Zenon DEF RemoveEdge, RemoveSuccWithPredec
    <2>2. call'.op # "AddBBToBegin"
      BY <2>1 DEF Throws, Returns
    <2>3. CASE RemoveEdgeRefused(from, to)
      <3>1. UNCHANGED edgeVars
        BY <1>6, <2>3, Zenon DEF RemoveEdge
      <3> QED BY <1>1, <2>2, <3>1 DEF edgeVars
    <2>4. CASE ~RemoveEdgeRefused(from, to)
      <3>1. succ' = [succ EXCEPT ![from] = Front(succ[from])]
        BY <1>0, <1>6, <2>4 DEF RemoveEdge, RemoveSuccWithPredec, PopBack
      <3>2. succ[from] \in Seq(BasicBlocks) /\ succ[from] # <<>>
        BY <1>0, <2>4 DEF RemoveEdgeRefused, Occurs, ToSet
      <3>3. NoDuplicates(Front(succ[from]))
        BY <3>2, PopKeepsDistinct DEF TwoDistinctSuccs
      <3>4. Len(Front(succ[from])) <= 2
        BY <3>2, FrontEntries DEF TwoDistinctSuccs
      <3>5. TwoDistinctSuccs'
        BY <1>0, <3>1, <3>3, <3>4 DEF TwoDistinctSuccs
      <3> QED BY <2>2, <3>5
    <2> QED BY <2>3, <2>4
  <1>7. CASE \E bb \in BasicBlocks : AddBBToBegin(bb)
    <2>1. PICK bb \in BasicBlocks : AddBBToBegin(bb)
      BY <1>7
    <2> QED BY <1>4, <2>1
  <1>8. CASE call'.op # "AddBBToBegin" /\ TwoDistinctSuccs'
    BY <1>8
  <1> QED BY <1>2, <1>3, <1>5, <1>6, <1>7, <1>8 DEF Next

\* Whatever the client prepends, only AddBBToBegin gives a block a third or a
\* repeated successor, and exactly where AddEdge would have refused the link.
THEOREM OnlyPrependingCrowds == Spec => OnlyPrependCrowds
  <1>1. TypeOK /\ [Next]_vars
         => [ TwoDistinctSuccs
              => (TwoDistinctSuccs' <=>
                    ~(call'.op = "AddBBToBegin" /\ call'.from # Null /\ Crowds(call'.from))) ]_vars
    BY DistinctStep
  <1> QED BY <1>1, TypeCorrect, PTL DEF Spec, OnlyPrependCrowds

\* No call gives a block a third or a repeated successor when only unlinked
\* blocks are prepended.
LEMMA TwoDistinctStep ==
    ASSUME FreshBegin, TypeOK, TwoDistinctSuccs, [Next]_vars
    PROVE  TwoDistinctSuccs'
  <1>1. CASE UNCHANGED vars
    BY <1>1 DEF vars, TwoDistinctSuccs
  <1>2. CASE Next
    <2>1. ASSUME call'.op = "AddBBToBegin", call'.from # Null PROVE ~Crowds(call'.from)
      <3>1. PICK bb \in BasicBlocks : AddBBToBegin(bb)
        <4>1. ASSUME NEW from \in BasicBlocks, NEW to \in BasicBlocks, AddEdge(from, to) PROVE FALSE
          <5>1. Throws("AddEdge", from, to) \/ Returns("AddEdge", from, to)
            BY <4>1, Zenon DEF AddEdge
          <5> QED BY <2>1, <5>1 DEF Throws, Returns
        <4>2. ASSUME NEW from \in BasicBlocks, NEW to \in BasicBlocks, RemoveEdge(from, to) PROVE FALSE
          <5>1. Throws("RemoveEdge", from, to) \/ Returns("RemoveEdge", from, to)
            BY <4>2, Zenon DEF RemoveEdge, RemoveSuccWithPredec
          <5> QED BY <2>1, <5>1 DEF Throws, Returns
        <4>3. ASSUME NEW bb \in BasicBlocks, AddBBInGraph(bb) PROVE FALSE
          BY <2>1, <4>3 DEF AddBBInGraph, Returns
        <4>4. ASSUME AddNullToBegin PROVE FALSE
          BY <2>1, <4>4 DEF AddNullToBegin, Returns
        <4> QED BY <1>2, <4>1, <4>2, <4>3, <4>4 DEF Next
      <3>2. call'.from = bb /\ succ[bb] = <<>>
        BY <3>1 DEF AddBBToBegin, Returns, Fresh
      <3> QED BY <3>2 DEF Crowds, Occurs, ToSet
    <2> QED BY <1>2, <2>1, DistinctStep
  <1> QED BY <1>1, <1>2

\* Given unlinked blocks at AddBBToBegin, no sequence of calls, wrong and
\* half-done removals included, gives a block a third or a repeated successor.
THEOREM SuccessorsStayDistinct ==
    ASSUME FreshBegin PROVE Spec => []TwoDistinctSuccs
  <1>1. Init => TwoDistinctSuccs
    BY DEF Init, TwoDistinctSuccs, NoDuplicates
  <1>2. TypeOK /\ TwoDistinctSuccs /\ [Next]_vars => TwoDistinctSuccs'
    BY TwoDistinctStep
  <1> QED BY <1>1, <1>2, TypeCorrect, PTL DEF Spec

-----------------------------------------------------------------------------
\* What pushing an edge does to the entries of all vectors.
LEMMA AddEffect ==
    ASSUME TypeOK, NEW from \in BasicBlocks, NEW to \in BasicBlocks,
           AddSuccWithPredec(from, to)
    PROVE  \A u, v \in BasicBlocks :
             /\ Occurs(succ, u, v)' <=> Occurs(succ, u, v) \/ (u = from /\ v = to)
             /\ Occurs(predec, u, v)' <=> Occurs(predec, u, v) \/ (u = to /\ v = from)
  <1>1. /\ succ \in [BasicBlocks -> Seq(BasicBlocks)]
        /\ predec \in [BasicBlocks -> Seq(BasicBlocks)]
        /\ succ' = [succ EXCEPT ![from] = Append(succ[from], to)]
        /\ predec' = [predec EXCEPT ![to] = Append(predec[to], from)]
    BY DEF TypeOK, AddSuccWithPredec, PushBack
  <1>2. /\ ToSet(Append(succ[from], to)) = ToSet(succ[from]) \cup {to}
        /\ ToSet(Append(predec[to], from)) = ToSet(predec[to]) \cup {from}
    BY <1>1, AppendEntries
  <1> QED BY <1>1, <1>2 DEF Occurs

\* Popping an entry of a vector free of duplicates removes that entry only.
LEMMA RemoveEffect ==
    ASSUME TypeOK, Mirrored, NEW from \in BasicBlocks, NEW to \in BasicBlocks,
           Occurs(succ, from, to), RemoveSuccWithPredec(from, to)
    PROVE  /\ Occurs(predec, to, from)
           /\ Last(succ[from]) \in BasicBlocks
           /\ Last(predec[to]) \in BasicBlocks
           /\ Occurs(succ, from, Last(succ[from]))
           /\ Occurs(predec, to, Last(predec[to]))
           /\ \A u \in BasicBlocks : NoDuplicates(succ[u])' /\ NoDuplicates(predec[u])'
           /\ \A u, v \in BasicBlocks :
                /\ Occurs(succ, u, v)'
                     <=> Occurs(succ, u, v) /\ ~(u = from /\ v = Last(succ[from]))
                /\ Occurs(predec, u, v)'
                     <=> Occurs(predec, u, v) /\ ~(u = to /\ v = Last(predec[to]))
  <1>1. /\ succ \in [BasicBlocks -> Seq(BasicBlocks)]
        /\ predec \in [BasicBlocks -> Seq(BasicBlocks)]
    BY DEF TypeOK
  <1>2. \A u \in BasicBlocks : NoDuplicates(succ[u]) /\ NoDuplicates(predec[u])
    BY <1>1 DEF Mirrored, MirroredEdges
  <1>3. Occurs(predec, to, from)
    BY <1>1 DEF Mirrored, MirroredEdges
  <1>4. /\ succ' = [succ EXCEPT ![from] = Front(succ[from])]
        /\ predec' = [predec EXCEPT ![to] = Front(predec[to])]
    BY <1>1, <1>3 DEF RemoveSuccWithPredec, PopBack
  <1>5. /\ succ[from] \in Seq(BasicBlocks) /\ succ[from] # <<>>
        /\ predec[to] \in Seq(BasicBlocks) /\ predec[to] # <<>>
    BY <1>1, <1>3 DEF Occurs, ToSet
  <1>6. /\ NoDuplicates(Front(succ[from]))
        /\ ToSet(Front(succ[from])) = ToSet(succ[from]) \ {Last(succ[from])}
        /\ NoDuplicates(Front(predec[to]))
        /\ ToSet(Front(predec[to])) = ToSet(predec[to]) \ {Last(predec[to])}
    BY <1>2, <1>5, PopKeepsDistinct
  <1>7. /\ Last(succ[from]) \in ToSet(succ[from])
        /\ Last(predec[to]) \in ToSet(predec[to])
    BY <1>5, FrontEntries
  <1>8. Last(succ[from]) \in BasicBlocks /\ Last(predec[to]) \in BasicBlocks
    BY <1>5, <1>7, Entries
  <1>9. \A u \in BasicBlocks : NoDuplicates(succ[u])' /\ NoDuplicates(predec[u])'
    BY <1>1, <1>2, <1>4, <1>6
  <1>10. \A u, v \in BasicBlocks :
          /\ Occurs(succ, u, v)'
               <=> Occurs(succ, u, v) /\ ~(u = from /\ v = Last(succ[from]))
          /\ Occurs(predec, u, v)'
               <=> Occurs(predec, u, v) /\ ~(u = to /\ v = Last(predec[to]))
    BY <1>1, <1>4, <1>6 DEF Occurs
  <1> QED BY <1>3, <1>7, <1>8, <1>9, <1>10 DEF Occurs

\* The heart of the matter: a removal that pops leaves the two families of
\* vectors in step if and only if it removes an edge stored last at both ends.
LEMMA RemoveMirrored ==
    ASSUME TypeOK, Mirrored, NEW from \in BasicBlocks, NEW to \in BasicBlocks,
           Occurs(succ, from, to), RemoveSuccWithPredec(from, to)
    PROVE  Mirrored' <=> StoredLast(from, to)
  <1> DEFINE x == Last(succ[from])
             y == Last(predec[to])
  <1>1. DOMAIN succ = BasicBlocks /\ DOMAIN succ' = BasicBlocks
    BY RemoveTyped DEF TypeOK
  <1>2. \A u, v \in BasicBlocks : Occurs(succ, u, v) <=> Occurs(predec, v, u)
    BY <1>1 DEF Mirrored, MirroredEdges
  <1>3. /\ Occurs(predec, to, from)
        /\ x \in BasicBlocks /\ y \in BasicBlocks
        /\ Occurs(succ, from, x) /\ Occurs(predec, to, y)
        /\ \A u \in BasicBlocks : NoDuplicates(succ[u])' /\ NoDuplicates(predec[u])'
        /\ \A u, v \in BasicBlocks :
              /\ Occurs(succ, u, v)' <=> Occurs(succ, u, v) /\ ~(u = from /\ v = x)
              /\ Occurs(predec, u, v)' <=> Occurs(predec, u, v) /\ ~(u = to /\ v = y)
    BY RemoveEffect
  <1>4. Mirrored' <=> \A u, v \in BasicBlocks : Occurs(succ, u, v)' <=> Occurs(predec, v, u)'
    BY <1>1, <1>3, Zenon DEF Mirrored, MirroredEdges
  <1>5. StoredLast(from, to) <=> x = to /\ y = from
    BY <1>3 DEF StoredLast
  <1> HIDE DEF x, y
  <1>6. ASSUME Mirrored' PROVE x = to
    BY <1>2, <1>3, <1>4, <1>6, Zenon
  <1>7. ASSUME Mirrored' PROVE y = from
    BY <1>2, <1>3, <1>4, <1>7, Zenon
  <1>8. ASSUME x = to, y = from PROVE Mirrored'
    BY <1>2, <1>3, <1>4, <1>8
  <1> QED BY <1>5, <1>6, <1>7, <1>8

\* A step that reports RemoveEdge is a RemoveEdge call for the reported edge.
LEMMA ReportedRemoval ==
    ASSUME TypeOK, Next, call'.op = "RemoveEdge"
    PROVE  /\ call'.from \in BasicBlocks
           /\ call'.to \in BasicBlocks
           /\ RemoveEdge(call'.from, call'.to)
  <1>1. ASSUME AddNullToBegin PROVE FALSE
    BY <1>1 DEF AddNullToBegin, Returns
  <1>2. ASSUME NEW bb \in BasicBlocks, AddBBInGraph(bb) PROVE FALSE
    BY <1>2 DEF AddBBInGraph, Returns
  <1>3. ASSUME NEW bb \in BasicBlocks, AddBBToBegin(bb) PROVE FALSE
    BY <1>3 DEF AddBBToBegin, Returns
  <1>4. ASSUME NEW from \in BasicBlocks, NEW to \in BasicBlocks, AddEdge(from, to)
        PROVE  FALSE
    <2>1. Throws("AddEdge", from, to) \/ Returns("AddEdge", from, to)
      BY <1>4, Zenon DEF AddEdge
    <2>2. call'.op = "AddEdge"
      BY <2>1 DEF Throws, Returns
    <2> QED BY <2>2
  <1>5. ASSUME NEW from \in BasicBlocks, NEW to \in BasicBlocks, RemoveEdge(from, to)
        PROVE  call'.from = from /\ call'.to = to
    <2>1. Throws("RemoveEdge", from, to) \/ Returns("RemoveEdge", from, to)
      BY <1>5, Zenon DEF RemoveEdge, RemoveSuccWithPredec
    <2> QED BY <2>1 DEF Throws, Returns
  <1>6. PICK from \in BasicBlocks, to \in BasicBlocks : RemoveEdge(from, to)
    BY <1>1, <1>2, <1>3, <1>4 DEF Next
  <1> QED BY <1>5, <1>6

\* RemoveEdge keeps successor and predecessor vectors in step exactly when the
\* edge it removes is stored last at both ends, whatever happened before.
THEOREM RemovalIntactIffLast == Spec => RemoveEdgeIntactIffLast
  <1>1. ASSUME TypeOK, Next, call'.op = "RemoveEdge", Mirrored, succ' # succ
        PROVE  Mirrored' <=> StoredLast(call'.from, call'.to)
    <2>1. /\ call'.from \in BasicBlocks /\ call'.to \in BasicBlocks
          /\ RemoveEdge(call'.from, call'.to)
      BY <1>1, ReportedRemoval
    <2>2. /\ ~RemoveEdgeRefused(call'.from, call'.to)
          /\ RemoveSuccWithPredec(call'.from, call'.to)
      BY <1>1, <2>1 DEF RemoveEdge, edgeVars
    <2>3. Occurs(succ, call'.from, call'.to)
      BY <2>2 DEF RemoveEdgeRefused
    <2> HIDE DEF StoredLast, Mirrored, RemoveSuccWithPredec, Occurs
    <2>4. ASSUME NEW from \in BasicBlocks, NEW to \in BasicBlocks,
                 Occurs(succ, from, to), RemoveSuccWithPredec(from, to)
          PROVE  Mirrored' <=> StoredLast(from, to)
      BY <1>1, <2>4, RemoveMirrored
    <2> QED BY <2>1, <2>2, <2>3, <2>4
  <1>2. TypeOK /\ [Next]_vars
         => [/\ call'.op = "RemoveEdge"
             /\ Mirrored
             /\ succ' # succ
             => (Mirrored' <=> StoredLast(call'.from, call'.to))]_vars
    BY <1>1
  <1> QED BY <1>2, TypeCorrect, PTL DEF Spec, RemoveEdgeIntactIffLast

\* A call that throws changes no edge while the vectors are in step: the
\* half-done removal needs an earlier removal of an edge not stored last.
THEOREM ThrowIsHarmlessWhenMirrored == Spec => ThrowChangesNothingWhenMirrored
  <1>1. ASSUME TypeOK, Next, call'.threw, Mirrored
        PROVE  UNCHANGED edgeVars
    <2>1. ASSUME AddNullToBegin PROVE FALSE
      BY <1>1, <2>1 DEF AddNullToBegin, Returns
    <2>2. ASSUME NEW bb \in BasicBlocks, AddBBInGraph(bb) PROVE FALSE
      BY <1>1, <2>2 DEF AddBBInGraph, Returns
    <2>3. ASSUME NEW bb \in BasicBlocks, AddBBToBegin(bb) PROVE FALSE
      BY <1>1, <2>3 DEF AddBBToBegin, Returns
    <2>4. ASSUME NEW from \in BasicBlocks, NEW to \in BasicBlocks, AddEdge(from, to)
          PROVE  UNCHANGED edgeVars
      <3>1. ~Returns("AddEdge", from, to)
        BY <1>1 DEF Returns
      <3> QED BY <2>4, <3>1, Zenon DEF AddEdge
    <2>5. ASSUME NEW from \in BasicBlocks, NEW to \in BasicBlocks, RemoveEdge(from, to)
          PROVE  UNCHANGED edgeVars
      <3>1. CASE RemoveEdgeRefused(from, to)
        BY <2>5, <3>1, Zenon DEF RemoveEdge
      <3>2. CASE ~RemoveEdgeRefused(from, to)
        <4>1. Occurs(succ, from, to) /\ RemoveSuccWithPredec(from, to)
          BY <2>5, <3>2, Zenon DEF RemoveEdge, RemoveEdgeRefused
        <4>2. Occurs(predec, to, from)
          BY <1>1, <4>1, RemoveEffect
        <4>3. Returns("RemoveEdge", from, to)
          BY <4>1, <4>2, Zenon DEF RemoveSuccWithPredec
        <4> QED BY <1>1, <4>3 DEF Returns
      <3> QED BY <3>1, <3>2
    <2> QED BY <1>1, <2>1, <2>2, <2>3, <2>4, <2>5 DEF Next
  <1>2. TypeOK /\ [Next]_vars => [call'.threw /\ Mirrored => UNCHANGED edgeVars]_vars
    BY <1>1
  <1> QED BY <1>2, TypeCorrect, PTL DEF Spec, ThrowChangesNothingWhenMirrored

-----------------------------------------------------------------------------
\* A new edge that is at neither end yet keeps the vectors in step.
LEMMA AddMirrored ==
    ASSUME TypeOK, Mirrored, NEW from \in BasicBlocks, NEW to \in BasicBlocks,
           ~Occurs(succ, from, to), AddSuccWithPredec(from, to)
    PROVE  Mirrored'
  <1>1. /\ succ \in [BasicBlocks -> Seq(BasicBlocks)]
        /\ predec \in [BasicBlocks -> Seq(BasicBlocks)]
        /\ succ' = [succ EXCEPT ![from] = Append(succ[from], to)]
        /\ predec' = [predec EXCEPT ![to] = Append(predec[to], from)]
    BY DEF TypeOK, AddSuccWithPredec, PushBack
  <1>2. /\ \A u \in BasicBlocks : NoDuplicates(succ[u]) /\ NoDuplicates(predec[u])
        /\ \A u, v \in BasicBlocks : Occurs(succ, u, v) <=> Occurs(predec, v, u)
    BY <1>1 DEF Mirrored, MirroredEdges
  <1>3. /\ NoDuplicates(Append(succ[from], to))
        /\ NoDuplicates(Append(predec[to], from))
    <2>1. ~Occurs(predec, to, from)
      BY <1>2
    <2> QED BY <1>1, <1>2, <2>1, PushKeepsDistinct DEF Occurs
  <1>4. \A u \in BasicBlocks : NoDuplicates(succ'[u]) /\ NoDuplicates(predec'[u])
    BY <1>1, <1>2, <1>3
  <1>5. \A u, v \in BasicBlocks : Occurs(succ, u, v)' <=> Occurs(predec, v, u)'
    BY <1>2, AddEffect
  <1>6. DOMAIN succ' = BasicBlocks
    BY <1>1
  <1> QED BY <1>4, <1>5, <1>6, Zenon DEF Mirrored, MirroredEdges

\* A block no edge touches is not a successor of itself or of any other block.
LEMMA FreshIsUnlinked ==
    ASSUME TypeOK, NEW bb \in BasicBlocks, Fresh(bb), NEW u
    PROVE  ~Occurs(succ, bb, u)
  BY DEF Fresh, Occurs, ToSet

\* Every call keeps the vectors in step, under both contracts.
LEMMA MirroredStep ==
    ASSUME FreshBegin, LastOnly, TypeOK, TwoDistinctSuccs, Mirrored, [Next]_vars
    PROVE  Mirrored'
  <1>1. ASSUME UNCHANGED edgeVars PROVE Mirrored'
    BY <1>1 DEF edgeVars, Mirrored
  <1>2. CASE AddNullToBegin
    BY <1>1, <1>2 DEF AddNullToBegin, edgeVars
  <1>3. ASSUME NEW bb \in BasicBlocks, AddBBInGraph(bb) PROVE Mirrored'
    BY <1>1, <1>3 DEF AddBBInGraph, edgeVars
  <1>4. ASSUME NEW bb \in BasicBlocks, AddBBToBegin(bb) PROVE Mirrored'
    <2>1. CASE root = Null
      BY <1>1, <1>4, <2>1 DEF AddBBToBegin
    <2>2. CASE root # Null
      <3>1. AddSuccWithPredec(bb, root) /\ Fresh(bb) /\ root \in BasicBlocks
        BY <1>4, <2>2 DEF AddBBToBegin, TypeOK
      <3>2. ~Occurs(succ, bb, root)
        BY <3>1, FreshIsUnlinked
      <3> QED BY <3>1, <3>2, AddMirrored
    <2> QED BY <2>1, <2>2
  <1>5. ASSUME NEW from \in BasicBlocks, NEW to \in BasicBlocks, AddEdge(from, to)
        PROVE  Mirrored'
    <2>1. CASE AddEdgeRefused(from, to)
      BY <1>1, <1>5, <2>1 DEF AddEdge
    <2>2. CASE ~AddEdgeRefused(from, to)
      <3>1. AddSuccWithPredec(from, to)
        BY <1>5, <2>2, Zenon DEF AddEdge
      <3> QED BY <2>2, <3>1, AcceptedEdgeIsNew, AddMirrored
    <2> QED BY <2>1, <2>2
  <1>6. ASSUME NEW from \in BasicBlocks, NEW to \in BasicBlocks, RemoveEdge(from, to)
        PROVE  Mirrored'
    <2>1. CASE RemoveEdgeRefused(from, to)
      BY <1>1, <1>6, <2>1 DEF RemoveEdge
    <2>2. CASE ~RemoveEdgeRefused(from, to)
      <3>1. /\ StoredLast(from, to)
            /\ RemoveSuccWithPredec(from, to)
            /\ Occurs(succ, from, to)
        BY <1>6, <2>2, Zenon DEF RemoveEdge, RemoveEdgeRefused
      <3> QED BY <3>1, RemoveMirrored
    <2> QED BY <2>1, <2>2
  <1>7. CASE UNCHANGED vars
    BY <1>1, <1>7 DEF vars, edgeVars
  <1> QED BY <1>2, <1>3, <1>4, <1>5, <1>6, <1>7 DEF Next

\* A client that keeps both contracts always sees two vectors in step.
THEOREM VectorsStayMirrored ==
    ASSUME FreshBegin, LastOnly PROVE Spec => []Mirrored
  <1>1. Init => Mirrored
    BY DEF Init, Mirrored, MirroredEdges, NoDuplicates, Occurs, ToSet
  <1>2. TypeOK /\ TwoDistinctSuccs /\ Mirrored /\ [Next]_vars => Mirrored'
    BY MirroredStep
  <1> QED BY <1>1, <1>2, TypeCorrect, SuccessorsStayDistinct, PTL DEF Spec

-----------------------------------------------------------------------------
\* Every edge, at either end, joins two blocks of the graph.
EdgeEndsInGraph ==
    \A u, v \in BasicBlocks :
        Occurs(succ, u, v) \/ Occurs(predec, u, v) => u \in bb_set /\ v \in bb_set

\* An edge end is an entry of a vector.
LEMMA EndsAreEntries == TypeOK => (EdgesStayInGraph <=> EdgeEndsInGraph)
  <1> SUFFICES ASSUME TypeOK PROVE EdgesStayInGraph <=> EdgeEndsInGraph
    OBVIOUS
  <1>1. \A u \in BasicBlocks : succ[u] \in Seq(BasicBlocks) /\ predec[u] \in Seq(BasicBlocks)
    BY DEF TypeOK
  <1>2. ASSUME NEW s \in Seq(BasicBlocks)
        PROVE  /\ ToSet(s) \subseteq BasicBlocks
               /\ s # <<>> <=> \E v \in BasicBlocks : v \in ToSet(s)
    <2>1. ToSet(s) \subseteq BasicBlocks
      BY Entries
    <2>2. ASSUME s # <<>> PROVE Last(s) \in ToSet(s)
      BY <2>2, FrontEntries
    <2>3. s = <<>> => ToSet(s) = {}
      BY DEF ToSet
    <2> QED BY <2>1, <2>2, <2>3
  <1>3. \A u \in BasicBlocks :
          /\ ToSet(succ[u]) \subseteq BasicBlocks
          /\ ToSet(predec[u]) \subseteq BasicBlocks
          /\ succ[u] # <<>> <=> \E v \in BasicBlocks : v \in ToSet(succ[u])
          /\ predec[u] # <<>> <=> \E v \in BasicBlocks : v \in ToSet(predec[u])
    BY <1>1, <1>2
  <1> QED BY <1>3, Zenon DEF EdgesStayInGraph, EdgeEndsInGraph, Occurs

\* A removal, whole or half-done, adds no entry.
LEMMA RemoveAddsNothing ==
    ASSUME TypeOK, NEW from \in BasicBlocks, NEW to \in BasicBlocks,
           Occurs(succ, from, to), RemoveSuccWithPredec(from, to)
    PROVE  \A u, v \in BasicBlocks :
             /\ Occurs(succ, u, v)' => Occurs(succ, u, v)
             /\ Occurs(predec, u, v)' => Occurs(predec, u, v)
  <1>1. /\ succ \in [BasicBlocks -> Seq(BasicBlocks)]
        /\ predec \in [BasicBlocks -> Seq(BasicBlocks)]
        /\ succ' = [succ EXCEPT ![from] = Front(succ[from])]
    BY DEF TypeOK, RemoveSuccWithPredec, PopBack
  <1>2. ASSUME NEW s \in Seq(BasicBlocks), s # <<>> PROVE ToSet(Front(s)) \subseteq ToSet(s)
    BY <1>2, FrontEntries
  <1>3. ToSet(Front(succ[from])) \subseteq ToSet(succ[from])
    <2>1. succ[from] \in Seq(BasicBlocks) /\ succ[from] # <<>>
      BY <1>1 DEF Occurs, ToSet
    <2> QED BY <1>2, <2>1
  <1>4. CASE Occurs(predec, to, from)
    <2>1. predec' = [predec EXCEPT ![to] = Front(predec[to])]
      BY <1>1, <1>4 DEF RemoveSuccWithPredec, PopBack
    <2>2. ToSet(Front(predec[to])) \subseteq ToSet(predec[to])
      <3>1. predec[to] \in Seq(BasicBlocks) /\ predec[to] # <<>>
        BY <1>1, <1>4 DEF Occurs, ToSet
      <3> QED BY <1>2, <3>1
    <2> QED BY <1>1, <1>3, <2>1, <2>2 DEF Occurs
  <1>5. CASE ~Occurs(predec, to, from)
    <2>1. predec' = predec
      BY <1>5 DEF RemoveSuccWithPredec
    <2> QED BY <1>1, <1>3, <2>1 DEF Occurs
  <1> QED BY <1>4, <1>5

\* No call creates an edge that leaves the graph.
LEMMA EndsStep ==
    ASSUME TypeOK, EdgeEndsInGraph, [Next]_vars
    PROVE  EdgeEndsInGraph'
  <1>1. ASSUME UNCHANGED edgeVars, bb_set \subseteq bb_set' PROVE EdgeEndsInGraph'
    BY <1>1 DEF edgeVars, EdgeEndsInGraph, Occurs
  <1>2. ASSUME NEW from \in BasicBlocks, NEW to \in BasicBlocks,
               AddSuccWithPredec(from, to),
               {from, to} \subseteq bb_set', bb_set \subseteq bb_set'
        PROVE  EdgeEndsInGraph'
    BY <1>2, AddEffect DEF EdgeEndsInGraph
  <1>3. CASE AddNullToBegin
    BY <1>1, <1>3 DEF AddNullToBegin, edgeVars
  <1>4. ASSUME NEW bb \in BasicBlocks, AddBBInGraph(bb) PROVE EdgeEndsInGraph'
    BY <1>1, <1>4 DEF AddBBInGraph, edgeVars
  <1>5. ASSUME NEW bb \in BasicBlocks, AddBBToBegin(bb) PROVE EdgeEndsInGraph'
    <2>1. bb_set \subseteq bb_set' /\ bb \in bb_set'
      BY <1>5 DEF AddBBToBegin
    <2>2. CASE root = Null
      BY <1>1, <1>5, <2>1, <2>2 DEF AddBBToBegin
    <2>3. CASE root # Null
      BY <1>2, <1>5, <2>1, <2>3 DEF AddBBToBegin, TypeOK
    <2> QED BY <2>2, <2>3
  <1>6. ASSUME NEW from \in BasicBlocks, NEW to \in BasicBlocks, AddEdge(from, to)
        PROVE  EdgeEndsInGraph'
    <2>1. bb_set' = bb_set
      BY <1>6 DEF AddEdge
    <2>2. CASE AddEdgeRefused(from, to)
      BY <1>1, <1>6, <2>1, <2>2 DEF AddEdge
    <2>3. CASE ~AddEdgeRefused(from, to)
      <3>1. AddSuccWithPredec(from, to) /\ {from, to} \subseteq bb_set
        BY <1>6, <2>3, Zenon DEF AddEdge, AddEdgeRefused
      <3> QED BY <1>2, <2>1, <3>1
    <2> QED BY <2>2, <2>3
  <1>7. ASSUME NEW from \in BasicBlocks, NEW to \in BasicBlocks, RemoveEdge(from, to)
        PROVE  EdgeEndsInGraph'
    <2>1. bb_set' = bb_set
      BY <1>7 DEF RemoveEdge
    <2>2. CASE RemoveEdgeRefused(from, to)
      BY <1>1, <1>7, <2>1, <2>2 DEF RemoveEdge
    <2>3. CASE ~RemoveEdgeRefused(from, to)
      <3>1. RemoveSuccWithPredec(from, to) /\ Occurs(succ, from, to)
        BY <1>7, <2>3, Zenon DEF RemoveEdge, RemoveEdgeRefused
      <3> QED BY <2>1, <3>1, RemoveAddsNothing DEF EdgeEndsInGraph
    <2> QED BY <2>2, <2>3
  <1>8. CASE UNCHANGED vars
    BY <1>1, <1>8 DEF vars, edgeVars
  <1> QED BY <1>3, <1>4, <1>5, <1>6, <1>7, <1>8 DEF Next

\* Both ends of every edge are always blocks of the graph, for any client.
THEOREM EdgesNeverLeaveGraph == Spec => []EdgesStayInGraph
  <1>1. Init => EdgeEndsInGraph
    BY DEF Init, EdgeEndsInGraph, Occurs, ToSet
  <1>2. TypeOK /\ EdgeEndsInGraph /\ [Next]_vars => EdgeEndsInGraph'
    BY EndsStep
  <1> QED BY <1>1, <1>2, TypeCorrect, EndsAreEntries, PTL DEF Spec

-----------------------------------------------------------------------------
\* Every step of a client that keeps both contracts is a step of EdgeSet, or
\* changes nothing EdgeSet sees.
LEMMA RefinementStep ==
    ASSUME FreshBegin, LastOnly, TypeOK, TwoDistinctSuccs, Mirrored, [Next]_vars
    PROVE  [EdgeGraph!Next]_(EdgeGraph!vars)
  <1> USE DEF EdgeGraph!vars
  <1>1. ASSUME UNCHANGED <<bb_set, root, succ>> PROVE UNCHANGED EdgeGraph!vars
    BY <1>1 DEF Edges, Occurs
  <1>2. ASSUME NEW from \in BasicBlocks, NEW to \in BasicBlocks, AddSuccWithPredec(from, to)
        PROVE  Edges' = Edges \cup {<<from, to>>}
    <2>1. \A u, v \in BasicBlocks :
            Occurs(succ, u, v)' <=> Occurs(succ, u, v) \/ (u = from /\ v = to)
      BY <1>2, AddEffect
    <2> QED BY <2>1 DEF Edges
  <1>3. CASE AddNullToBegin
    BY <1>1, <1>3 DEF AddNullToBegin
  <1>4. ASSUME NEW bb \in BasicBlocks, AddBBInGraph(bb)
        PROVE  EdgeGraph!AddBBInGraph(bb)
    <2>1. Edges' = Edges
      BY <1>4 DEF AddBBInGraph, Edges, Occurs
    <2> QED BY <1>4, <2>1 DEF AddBBInGraph, EdgeGraph!AddBBInGraph
  <1>5. ASSUME NEW bb \in BasicBlocks, AddBBToBegin(bb)
        PROVE  EdgeGraph!AddBBToBegin(bb)
    <2>1. Edges' = IF root = Null THEN Edges ELSE Edges \cup {<<bb, root>>}
      <3>1. CASE root = Null
        BY <1>5, <3>1 DEF AddBBToBegin, edgeVars, Edges, Occurs
      <3>2. CASE root # Null
        BY <1>2, <1>5, <3>2 DEF AddBBToBegin, TypeOK
      <3> QED BY <3>1, <3>2
    <2>2. /\ bb \notin bb_set
          /\ bb_set' = bb_set \cup {bb}
          /\ root' = bb
      BY <1>5, Zenon DEF AddBBToBegin, Fresh
    <2> QED BY <2>1, <2>2 DEF EdgeGraph!AddBBToBegin
  <1>6. ASSUME NEW from \in BasicBlocks, NEW to \in BasicBlocks, AddEdge(from, to)
        PROVE  EdgeGraph!AddEdge(from, to) \/ UNCHANGED EdgeGraph!vars
    <2>1. bb_set' = bb_set /\ root' = root
      BY <1>6 DEF AddEdge
    <2>2. CASE AddEdgeRefused(from, to)
      BY <1>1, <1>6, <2>1, <2>2 DEF AddEdge, edgeVars
    <2>3. CASE ~AddEdgeRefused(from, to)
      <3>1. AddSuccWithPredec(from, to)
        BY <1>6, <2>3, Zenon DEF AddEdge
      <3>2. /\ {from, to} \subseteq bb_set
            /\ ~Occurs(succ, from, to)
            /\ Len(succ[from]) \in Nat
            /\ Len(succ[from]) < 2
        BY <2>3, AcceptedEdgeIsNew
      <3>3. \A v, w \in EdgeGraph!Targets(from) : v = w
        <4>1. \A n \in Nat : n < 2 => \A i, j \in 1..n : i = j
          OBVIOUS
        <4>2. \A i, j \in 1..Len(succ[from]) : i = j
          BY <3>2, <4>1, Zenon
        <4>3. succ[from] \in Seq(BasicBlocks)
          BY DEF TypeOK
        <4>4. \A v, w \in ToSet(succ[from]) : v = w
          BY <4>2, <4>3, Entries
        <4> QED BY <4>4 DEF EdgeGraph!Targets, Edges, Occurs
      <3>4. <<from, to>> \notin Edges
        BY <3>2 DEF Edges
      <3>5. Edges' = Edges \cup {<<from, to>>}
        BY <1>2, <3>1
      <3> QED BY <2>1, <3>2, <3>3, <3>4, <3>5, Zenon DEF EdgeGraph!AddEdge
    <2> QED BY <2>2, <2>3
  <1>7. ASSUME NEW from \in BasicBlocks, NEW to \in BasicBlocks, RemoveEdge(from, to)
        PROVE  EdgeGraph!RemoveEdge(from, to) \/ UNCHANGED EdgeGraph!vars
    <2>1. bb_set' = bb_set /\ root' = root
      BY <1>7 DEF RemoveEdge
    <2>2. CASE RemoveEdgeRefused(from, to)
      BY <1>1, <1>7, <2>1, <2>2 DEF RemoveEdge, edgeVars
    <2>3. CASE ~RemoveEdgeRefused(from, to)
      <3>1. /\ Occurs(succ, from, to)
            /\ StoredLast(from, to)
            /\ RemoveSuccWithPredec(from, to)
        BY <1>7, <2>3, Zenon DEF RemoveEdge, RemoveEdgeRefused
      <3>2. Last(succ[from]) = to
        BY <3>1 DEF StoredLast
      <3>3. \A u, v \in BasicBlocks :
              Occurs(succ, u, v)' <=> Occurs(succ, u, v) /\ ~(u = from /\ v = to)
        BY <3>1, <3>2, RemoveEffect
      <3>4. <<from, to>> \in Edges /\ Edges' = Edges \ {<<from, to>>}
        BY <3>1, <3>3 DEF Edges
      <3> QED BY <2>1, <3>4 DEF EdgeGraph!RemoveEdge
    <2> QED BY <2>2, <2>3
  <1>8. CASE UNCHANGED vars
    BY <1>1, <1>8 DEF vars
  <1> QED BY <1>3, <1>4, <1>5, <1>6, <1>7, <1>8 DEF Next, EdgeGraph!Next

\* A client that keeps both contracts cannot tell an IRGraph from the plain
\* set of blocks and edges of EdgeSet.
THEOREM Refinement ==
    ASSUME FreshBegin, LastOnly PROVE Spec => ImplementsEdgeSet
  <1>1. Init => EdgeGraph!Init
    BY DEF Init, EdgeGraph!Init, Edges, Occurs, ToSet
  <1>2. TypeOK /\ TwoDistinctSuccs /\ Mirrored /\ [Next]_vars
         => [EdgeGraph!Next]_(EdgeGraph!vars)
    BY RefinementStep
  <1> QED BY <1>1, <1>2, TypeCorrect, SuccessorsStayDistinct, VectorsStayMirrored, PTL
          DEF Spec, ImplementsEdgeSet, EdgeGraph!Spec
=============================================================================
