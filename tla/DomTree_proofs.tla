--------------------------- MODULE DomTree_proofs ---------------------------
(***************************************************************************)
(* Lengauer and Tarjan's algorithm as DomTree has it, on a graph of any    *)
(* size: the depth-first walk with the tree of the parents, its numbers    *)
(* and what edges can join; the forest of Link and Compress, the           *)
(* semidominators' bounds, and that no block is given a dominator that     *)
(* does not dominate it.  Then, where no block is numbered twice: the      *)
(* semidominators are exact, the dominators immediate, and the lists in    *)
(* the blocks answer the question of dominance.                            *)
(***************************************************************************)
EXTENDS DomTreeInvariant, ControlFlow_proofs

-----------------------------------------------------------------------------
(* Numbers.                                                                *)

\* The number of a block is the place where it stands first.
LEMMA NumberShape ==
    ASSUME NEW B, NEW order \in Seq(B), NEW v \in ToSet(order)
    PROVE  /\ NumberIn(order, v) \in Nat /\ NumberIn(order, v) < Len(order)
           /\ order[NumberIn(order, v) + 1] = v
           /\ \A j \in 1..Len(order) : order[j] = v => NumberIn(order, v) <= j - 1
  <1> DEFINE First(n) == order[n + 1] = v /\ \A m \in 0 .. n - 1 : order[m + 1] # v
             T == {n \in 0 .. Len(order) - 1 : order[n + 1] = v}
  <1>1. Len(order) \in Nat /\ \E j \in 1..Len(order) : order[j] = v
    BY Entries
  <1>2. T \in SUBSET Nat /\ T # {}
    <2>1. PICK j \in 1..Len(order) : order[j] = v
      BY <1>1
    <2>2. j - 1 \in 0 .. Len(order) - 1 /\ (j - 1) + 1 = j
      BY <1>1
    <2>3. j - 1 \in T
      BY <2>1, <2>2
    <2>4. \A n \in T : n \in Nat
      BY <1>1
    <2> HIDE DEF T
    <2> QED BY <2>3, <2>4
  <1>3. PICK n \in T : \A m \in T : n <= m
    <2> HIDE DEF T
    <2> QED BY <1>2, LeastNat
  <1>4. First(n) /\ n \in 0 .. Len(order) - 1
    BY <1>1, <1>3
  <1>5. NumberIn(order, v) \in 0 .. Len(order) - 1 /\ First(NumberIn(order, v))
    BY <1>4 DEF NumberIn
  <1>6. ASSUME NEW j \in 1..Len(order), order[j] = v PROVE NumberIn(order, v) <= j - 1
    <2>1. j - 1 \in Nat /\ (j - 1) + 1 = j
      OBVIOUS
    <2> SUFFICES ASSUME j - 1 < NumberIn(order, v) PROVE FALSE
      BY <1>1, <1>5, <2>1
    <2>2. j - 1 \in 0 .. NumberIn(order, v) - 1
      BY <1>1, <1>5, <2>1
    <2> QED BY <1>5, <1>6, <2>1, <2>2
  <1> QED BY <1>1, <1>5, <1>6

\* A number belongs to one block.
LEMMA NumberInjective ==
    ASSUME NEW B, NEW order \in Seq(B), NEW u \in ToSet(order), NEW v \in ToSet(order),
           NumberIn(order, u) = NumberIn(order, v)
    PROVE  u = v
  BY NumberShape

\* A number once given stays, a new block gets the next one.
LEMMA NumberAppend ==
    ASSUME NEW B, NEW order \in Seq(B), NEW x \in B
    PROVE  /\ \A v \in ToSet(order) : NumberIn(Append(order, x), v) = NumberIn(order, v)
           /\ x \notin ToSet(order) => NumberIn(Append(order, x), x) = Len(order)
  <1> DEFINE longer == Append(order, x)
  <1>1. /\ longer \in Seq(B) /\ Len(longer) = Len(order) + 1 /\ Len(order) \in Nat
        /\ \A j \in 1..Len(order) : longer[j] = order[j]
        /\ longer[Len(order) + 1] = x
        /\ ToSet(longer) = ToSet(order) \cup {x}
    BY AppendEntries, LenProperties
  <1> HIDE DEF longer
  <1>2. ASSUME NEW v \in ToSet(order) PROVE NumberIn(longer, v) = NumberIn(order, v)
    <2> DEFINE n == NumberIn(order, v)
               m == NumberIn(longer, v)
    <2>1. /\ n \in Nat /\ n < Len(order) /\ order[n + 1] = v
          /\ \A j \in 1..Len(order) : order[j] = v => n <= j - 1
      BY NumberShape
    <2>2. /\ m \in Nat /\ m < Len(longer) /\ longer[m + 1] = v
          /\ \A j \in 1..Len(longer) : longer[j] = v => m <= j - 1
      BY <1>1, NumberShape
    <2> HIDE DEF n, m
    <2>3. m <= n
      <3>1. n + 1 \in 1..Len(longer) /\ longer[n + 1] = v /\ (n + 1) - 1 = n
        BY <1>1, <2>1
      <3> QED BY <2>2, <3>1
    <2>4. n <= m
      <3>1. m + 1 \in 1..Len(order) /\ order[m + 1] = v /\ (m + 1) - 1 = m
        BY <1>1, <2>1, <2>2, <2>3
      <3> QED BY <2>1, <3>1
    <2> QED BY <2>1, <2>2, <2>3, <2>4 DEF n, m
  <1>3. ASSUME x \notin ToSet(order) PROVE NumberIn(longer, x) = Len(order)
    <2> DEFINE m == NumberIn(longer, x)
    <2>1. m \in Nat /\ m < Len(longer) /\ longer[m + 1] = x
      BY <1>1, NumberShape
    <2> HIDE DEF m
    <2>2. ASSUME m < Len(order) PROVE FALSE
      <3>1. m + 1 \in 1..Len(order) /\ order[m + 1] = x
        BY <1>1, <2>1, <2>2
      <3> QED BY <1>3, <3>1, Entries
    <2> QED BY <1>1, <2>1, <2>2 DEF m
  <1> QED BY <1>2, <1>3 DEF longer

-----------------------------------------------------------------------------
(* The tree of the walk.                                                   *)

\* The positions of the successors of the root are numbers.
LEMMA RootPositions ==
    ASSUME TypeOK
    PROVE  Root \in Blocks /\ Null \notin Blocks /\ DOMAIN succ[Root] \subseteq Nat
  <1>1. Root \in Blocks /\ Null \notin Blocks
    BY CfgAssumption
  <1>2. succ[Root] \in Seq(Blocks)
    BY <1>1 DEF TypeOK
  <1>3. DOMAIN succ[Root] \subseteq Nat
    BY <1>2
  <1> QED BY <1>1, <1>3

\* A number is the first position of its block, and the root has number 0.
LEMMA NumberFacts ==
    ASSUME TypeOK, NumbersShape
    PROVE  /\ Len(vertexes) \in Nat \ {0} /\ Walked \subseteq Blocks /\ Root \in Walked
           /\ Number(Root) = 0
           /\ \A v \in Walked : /\ Number(v) \in Nat /\ Number(v) < Len(vertexes)
                                /\ vertexes[Number(v) + 1] = v
           /\ \A u, v \in Walked : Number(u) = Number(v) => u = v
           /\ \A j \in 1 .. Len(vertexes) :
                 vertexes[j] \in Walked /\ Number(vertexes[j]) <= j - 1
  <1>1. vertexes \in Seq(Blocks) /\ Walked \subseteq Blocks /\ ToSet(vertexes) = Walked
    BY DEF TypeOK, NumbersShape, Walked
  <1>2. Len(vertexes) \in Nat \ {0} /\ vertexes[1] = Root
    BY <1>1 DEF NumbersShape
  <1>3. \A j \in 1 .. Len(vertexes) : vertexes[j] \in Walked
    BY <1>1, Entries
  <1>4. ASSUME NEW v \in Walked
        PROVE  /\ Number(v) \in Nat /\ Number(v) < Len(vertexes)
               /\ vertexes[Number(v) + 1] = v
               /\ \A j \in 1..Len(vertexes) : vertexes[j] = v => Number(v) <= j - 1
    BY <1>1, NumberShape DEF Number
  <1>5. Root \in Walked
    BY <1>2, <1>3
  <1>6. Number(Root) = 0
    <2>1. 1 \in 1..Len(vertexes)
      BY <1>2
    <2>2. Number(Root) <= 1 - 1 /\ Number(Root) \in Nat
      BY <1>2, <1>4, <1>5, <2>1
    <2> QED BY <2>2
  <1>7. \A u, v \in Walked : Number(u) = Number(v) => u = v
    BY <1>1, NumberInjective DEF Number
  <1> QED BY <1>1, <1>2, <1>3, <1>4, <1>5, <1>6, <1>7

\* A block comes after the blocks above it, of which the root is the first and
\* any two are one above the other.
LEMMA TreeFacts ==
    ASSUME TypeOK, NumbersShape, TreeShape
    PROVE  /\ Above(Root) = {Root}
           /\ \A v \in Walked : v \in Above(v) /\ Above(v) \subseteq Walked /\ Root \in Above(v)
           /\ \A v \in Walked : \A u \in Above(v) :
                 /\ Above(u) \subseteq Above(v)
                 /\ Number(u) <= Number(v)
                 /\ u # v => Number(u) < Number(v)
           /\ \A v \in Walked \ {Root} :
                 Parent[v] \in Walked /\ Above(v) = {v} \cup Above(Parent[v])
           /\ \A v \in Walked : \A x, y \in Above(v) :
                 Number(x) <= Number(y) => x \in Above(y)
           /\ \A v \in Walked : \A s \in Above(v) \ {v} :
                 \E c \in Above(v) \ {Root} : Parent[c] = s
  <1> DEFINE Num == [v \in Walked |-> Number(v)]
  <1>1. /\ DOMAIN Parent = Walked /\ Parent[Root] = Null /\ Null \notin Walked /\ Root \in Walked
        /\ \A v \in Walked \ {Root} : Parent[v] \in Walked /\ Number(Parent[v]) < Number(v)
    BY CfgAssumption, NumberFacts DEF TreeShape, Parent
  <1>2. \A v \in Walked : Number(v) \in Nat
    BY NumberFacts
  <1>3. Descending(Parent, Num) /\ \A v \in Walked : Num[v] = Number(v)
    BY <1>1, <1>2 DEF Descending
  <1> HIDE DEF Num
  <1>4. Above(Root) = {Root}
    BY <1>1, UpRoot DEF Above
  <1>5. ASSUME NEW v \in Walked PROVE v \in Above(v) /\ Above(v) \subseteq Walked
    BY <1>1, UpReflexive, UpTyped DEF Above
  <1>6. ASSUME NEW v \in Walked, NEW u \in Above(v)
        PROVE  /\ Above(u) \subseteq Above(v)
               /\ Number(u) <= Number(v)
               /\ u # v => Number(u) < Number(v)
    <2>1. Above(u) \subseteq Above(v)
      BY UpTransitive DEF Above
    <2>2. u \in Walked
      BY <1>5
    <2>3. u # v => Num[u] < Num[v]
      BY <1>1, <1>3, UpNumbers DEF Above
    <2> QED BY <1>2, <1>3, <2>1, <2>2, <2>3
  <1>7. ASSUME NEW v \in Walked \ {Root}
        PROVE  Parent[v] \in Walked /\ Above(v) = {v} \cup Above(Parent[v])
    BY <1>1, UpUnfold DEF Above
  <1>8. ASSUME NEW v \in Walked, NEW x \in Above(v), NEW y \in Above(v), Number(x) <= Number(y)
        PROVE  x \in Above(y)
    <2>1. x \in Above(y) \/ y \in Above(x)
      BY <1>1, UpComparable DEF Above
    <2>2. x \in Walked /\ y \in Walked
      BY <1>5
    <2>3. CASE y \in Above(x)
      <3>1. ~(Number(y) < Number(x))
        BY <1>2, <1>8, <2>2
      <3>2. y = x
        BY <1>6, <2>2, <2>3, <3>1
      <3> QED BY <2>3, <3>2
    <2> QED BY <2>1, <2>3
  <1>9. ASSUME NEW v \in Walked, NEW s \in Above(v) \ {v}
        PROVE  \E c \in Above(v) \ {Root} : Parent[c] = s
    <2>1. PICK c \in Above(v) : Parent[c] = s
      BY <1>1, UpChild DEF Above
    <2>2. s \in Walked
      BY <1>5
    <2> QED BY <1>1, <2>1, <2>2
  <1>10. ASSUME NEW v \in Walked PROVE Root \in Above(v)
    <2> DEFINE T == {Num[x] : x \in Above(v)}
    <2>1. T \in SUBSET Nat /\ T # {}
      <3>1. \A x \in Above(v) : Num[x] \in Nat
        BY <1>2, <1>3, <1>5
      <3> QED BY <1>5, <3>1
    <2>2. PICK n \in T : \A m \in T : n <= m
      <3> HIDE DEF T
      <3> QED BY <2>1, LeastNat
    <2>3. PICK x \in Above(v) : Num[x] = n
      BY <2>2
    <2>4. x \in Walked
      BY <1>5
    <2>5. ASSUME x # Root PROVE FALSE
      <3>1. Parent[x] \in Walked /\ Num[Parent[x]] < Num[x]
        BY <1>1, <1>3, <2>4, <2>5
      <3>2. Parent[x] \in Above(v)
        BY <1>1, <3>1, UpIsClosed DEF Above, UpClosed
      <3>3. Num[x] <= Num[Parent[x]]
        BY <2>2, <2>3, <3>2
      <3> QED BY <1>2, <1>3, <2>4, <3>1, <3>3
    <2> QED BY <2>5
  <1> QED BY <1>4, <1>5, <1>6, <1>7, <1>8, <1>9, <1>10

-----------------------------------------------------------------------------
(* The steps of the walk.                                                  *)

LEMMA InitWalk == Init => TypeOK /\ WalkInv
  <1> SUFFICES ASSUME Init PROVE TypeOK /\ WalkInv
    OBVIOUS
  <1>1. PICK g \in Cfgs :
          /\ succ = g.succ /\ predec = g.predec
          /\ plan = [runs |-> g.runs, edits |-> g.edits, among |-> g.among, kinds |-> {}]
    BY DEF Init
  <1>2. g \in [succ : [Blocks -> Seq(Blocks)], predec : [Blocks -> Seq(Blocks)],
               runs : Nat, edits : Nat, among : SUBSET Blocks]
    BY CfgAssumption
  <1>3. InStep
    BY <1>1, <1>2, EdgesAssumption DEF InStep
  <1>4. WalkInv
    BY <1>3 DEF WalkInv, Init
  <1>5. TypeOK
    <2>1. info = <<>> /\ DOMAIN info = {}
      BY DEF Init
    <2> QED BY <1>1, <1>2, <2>1 DEF TypeOK, Init, MaybeBlock, Phases
  <1> QED BY <1>4, <1>5

\* Phases in which the tree of the walk is complete; the graph, the numbers
\* and the parents are what they were at its end.
Kept == UNCHANGED <<succ, predec, vertexes, plan>> /\ DOMAIN info' = DOMAIN info
        /\ \A v \in DOMAIN info : info'[v].parent = info[v].parent

\* The tree reads only the parents of the entries of bbs_info_.
LEMMA KeptTree ==
    ASSUME Kept
    PROVE  /\ Walked' = Walked /\ Parent' = Parent
           /\ \A v : Above(v)' = Above(v) /\ Number(v)' = Number(v)
           /\ Reachable' = Reachable /\ RootTwice' = RootTwice
           /\ Tree' = Tree /\ AllWalked' = AllWalked /\ InStep' = InStep
  <1>1. Walked' = Walked /\ Parent' = Parent
    BY DEF Kept, Walked, Parent
  <1>2. \A v : Above(v)' = Above(v) /\ Number(v)' = Number(v)
    BY <1>1 DEF Kept, Above, Number
  <1>3. Reachable' = Reachable /\ RootTwice' = RootTwice /\ InStep' = InStep
    BY DEF Kept, Reachable, RootTwice, InStep
  <1>4. Tree' = Tree
    <2>1. NumbersShape' = NumbersShape
      BY <1>1 DEF Kept, NumbersShape
    <2>2. TreeShape' = TreeShape
      BY <1>1, <1>2 DEF Kept, TreeShape
    <2>3. EdgesDown' = EdgesDown
      BY <1>1, <1>2 DEF Kept, EdgesDown
    <2>4. Intervals' = Intervals
      BY <1>1, <1>2 DEF Kept, Intervals
    <2>5. SecondNumbers' = SecondNumbers
      BY <1>1, <1>2 DEF Kept, SecondNumbers, Second, Split
    <2>6. WalkedReachable' = WalkedReachable
      BY <1>1, <1>3 DEF Kept, WalkedReachable
    <2> QED BY <2>1, <2>2, <2>3, <2>4, <2>5, <2>6 DEF Tree
  <1>5. AllWalked' = AllWalked
    BY <1>1, <1>3 DEF Kept, AllWalked, Finished
  <1> QED BY <1>1, <1>2, <1>3, <1>4, <1>5

\* A step of the later phases, which keeps graph, order and parents, keeps
\* all that is known of the walk.
LEMMA KeptWalk ==
    ASSUME WalkInv, Kept, pc \notin {"start", "dfs", "done"},
           pc' \notin {"start", "dfs", "forest", "done"}
    PROVE  WalkInv'
  BY KeptTree DEF WalkInv

\* The walk starts with a tree of the root alone.
LEMMA RunWalk ==
    ASSUME TypeOK, WalkInv, Run
    PROVE  TypeOK' /\ WalkInv'
  <1> USE DEF Run
  <1>1. /\ vertexes' = <<Root>> /\ vertexes' \in Seq(Blocks) /\ Len(vertexes') = 1
        /\ vertexes'[1] = Root /\ ToSet(vertexes') = {Root} /\ DOMAIN vertexes' = {1}
    BY CfgAssumption DEF ToSet
  <1>2. /\ stack' = <<Enter(Root)>> /\ DOMAIN stack' = {1} /\ stack'[1] = Enter(Root)
        /\ Len(stack') = 1 /\ stack' \in Seq([node : Blocks, it : Nat])
    BY CfgAssumption DEF Enter
  <1>3. NewInfo(0, Null) \in Infos
    BY DEF NewInfo, Infos, MaybeBlock
  <1>4. /\ DOMAIN info' = {Root} /\ info'[Root] = NewInfo(0, Null)
        /\ \A v \in DOMAIN info' : info'[v] \in Infos
    BY <1>3
  <1>5. TypeOK'
    <2>1. UNCHANGED <<graphVars, resultVars, k, p, bucket, edits, plan>>
      OBVIOUS
    <2>2. runs' \in 0 .. plan'.runs
      BY DEF TypeOK
    <2>3. pc' \in Phases
      BY DEF Phases
    <2>4. DOMAIN info' \subseteq Blocks
      BY <1>4, CfgAssumption
    <2> QED BY <1>1, <1>2, <1>4, <2>1, <2>2, <2>3, <2>4 DEF TypeOK, graphVars, resultVars
  <1>6. Walked' = {Root} /\ Parent' = [v \in {Root} |-> Null]
    BY <1>4 DEF Walked, Parent, NewInfo
  <1>7. Above(Root)' = {Root}
    <2>1. DOMAIN Parent' = {Root} /\ Parent'[Root] = Null /\ Null \notin DOMAIN Parent'
      BY <1>6, CfgAssumption
    <2> QED BY <2>1, UpRoot DEF Above
  <1>8. NumbersShape'
    BY <1>1, <1>6 DEF NumbersShape
  <1>9. Number(Root)' = 0
    <2>1. NumberIn(vertexes', Root) \in Nat /\ NumberIn(vertexes', Root) < 1
      BY <1>1, NumberShape
    <2> QED BY <2>1 DEF Number
  <1>10. Tree'
    <2>1. TreeShape' /\ EdgesDown' /\ Intervals'
      BY <1>6, <1>7 DEF TreeShape, EdgesDown, Intervals
    <2>2. SecondNumbers'
      BY <1>1, <1>9 DEF SecondNumbers, Second
    <2>3. WalkedReachable'
      <3>1. Root \in Reachable'
        BY <1>5, CfgAssumption, ReachReflexive DEF TypeOK, Reachable
      <3> QED BY <1>6, <3>1 DEF WalkedReachable
    <2> QED BY <1>8, <2>1, <2>2, <2>3 DEF Tree
  <1>11. Fresh'
    BY <1>4, <1>6, <1>9 DEF Fresh
  <1>12. Walking'
    <2>1. FramesShape' /\ OpenOrFinished' /\ ActiveChain'
      BY <1>2, <1>6, <1>7 DEF FramesShape, OpenOrFinished, ActiveChain, Enter
    <2>2. Passed'
      <3>1. stack'[1].it = 1 /\ \A j \in DOMAIN stack' : stack'[j].node = Root /\ stack'[j].it = 1
        BY <1>2 DEF Enter
      <3>2. DOMAIN succ'[Root] = 1 .. Len(succ'[Root]) /\ Len(succ'[Root]) \in Nat
        BY <1>5, CfgAssumption DEF TypeOK
      <3>3. \A m \in DOMAIN succ'[Root] : ~(m < 1)
        BY <3>2
      <3> QED BY <3>1, <3>3 DEF Passed
    <2>3. ActiveSpan'
      <3>1. Open(Root)'
        BY <1>6, <1>7 DEF Spans, Open
      <3>2. \A j \in DOMAIN stack' : stack'[j].node = Root
        BY <1>2 DEF Enter
      <3>3. (\A a \in Above(Root) : Open(a))'
        BY <1>7, <3>1
      <3>4. \A j \in DOMAIN stack' : (\A a \in Above(stack[j].node) : Open(a))'
        BY <3>2, <3>3
      <3> QED BY <3>4 DEF ActiveSpan
    <2> QED BY <2>1, <2>2, <2>3 DEF Walking
  <1>13. InStep'
    BY DEF WalkInv, InStep, graphVars
  <1> QED BY <1>5, <1>10, <1>11, <1>12, <1>13 DEF WalkInv

\* Facts about the stack of an activation with a successor to come.
LEMMA StackFacts ==
    ASSUME TypeOK, FramesShape
    PROVE  /\ Depth \in Nat \ {0} /\ DOMAIN stack = 1 .. Depth /\ 1 \in 1 .. Depth
           /\ Depth \in 1 .. Depth
           /\ \A j \in 1 .. Depth : /\ stack[j] \in [node : Blocks, it : Nat]
                                    /\ stack[j].node \in Walked /\ stack[j].it \in Nat \ {0}
           /\ Top.node \in Walked /\ Top.node \in Blocks /\ Top.it \in Nat \ {0}
           /\ Advanced \in Seq([node : Blocks, it : Nat])
           /\ Len(Advanced) = Depth /\ DOMAIN Advanced = 1 .. Depth
           /\ \A j \in 1 .. Depth : /\ Advanced[j].node = stack[j].node
                                    /\ j # Depth => Advanced[j].it = stack[j].it
           /\ Advanced[Depth].it = Top.it + 1
  <1>1. stack \in Seq([node : Blocks, it : Nat]) /\ stack # <<>>
    BY DEF TypeOK, FramesShape
  <1>2. Depth \in Nat \ {0} /\ DOMAIN stack = 1 .. Depth
    BY <1>1 DEF Depth
  <1>3. 1 \in 1 .. Depth /\ Depth \in 1 .. Depth
    BY <1>2
  <1>4. \A j \in 1 .. Depth : stack[j] \in [node : Blocks, it : Nat]
    BY <1>1, ElementOfSeq DEF Depth
  <1>5. \A j \in 1 .. Depth : stack[j].node \in Walked /\ stack[j].it \in Nat \ {0}
    BY <1>2, <1>4 DEF FramesShape
  <1>6. Advanced = [stack EXCEPT ![Depth] = [stack[Depth] EXCEPT !.it = @ + 1]]
    BY DEF Advanced
  <1>7. [stack[Depth] EXCEPT !.it = @ + 1] \in [node : Blocks, it : Nat]
    BY <1>3, <1>4
  <1>8. Advanced \in Seq([node : Blocks, it : Nat]) /\ Len(Advanced) = Depth
    BY <1>1, <1>2, <1>3, <1>6, <1>7, ExceptSeq DEF Depth
  <1>9. DOMAIN Advanced = 1 .. Depth
    BY <1>2, <1>6
  <1>10. ASSUME NEW j \in 1 .. Depth
         PROVE  Advanced[j].node = stack[j].node /\ (j # Depth => Advanced[j].it = stack[j].it)
    BY <1>2, <1>4, <1>6
  <1>11. Advanced[Depth].it = Top.it + 1
    BY <1>2, <1>3, <1>4, <1>6 DEF Top
  <1>12. Top.node \in Walked /\ Top.node \in Blocks /\ Top.it \in Nat \ {0}
    BY <1>3, <1>4, <1>5 DEF Top
  <1> QED BY <1>2, <1>3, <1>4, <1>5, <1>8, <1>9, <1>10, <1>11, <1>12

\* The iterator of the innermost activation points to a successor.
LEMMA SuccessorFacts ==
    ASSUME TypeOK, FramesShape, AtSuccessor
    PROVE  /\ Top.it \in DOMAIN succ[Top.node]
           /\ Successor \in Blocks /\ Occurs(succ, Top.node, Successor)
  <1>1. succ[Top.node] \in Seq(Blocks) /\ Top.it \in Nat \ {0} /\ Top.it <= Len(succ[Top.node])
    BY StackFacts DEF TypeOK, AtSuccessor
  <1>2. DOMAIN succ[Top.node] = 1 .. Len(succ[Top.node]) /\ Len(succ[Top.node]) \in Nat
    BY <1>1
  <1>3. Top.it \in 1 .. Len(succ[Top.node])
    BY <1>1, <1>2
  <1> QED BY <1>1, <1>2, <1>3, Entries DEF Successor, Occurs

\* The stack after a call of DFS, entry by entry.
LEMMA CallFacts ==
    ASSUME TypeOK, FramesShape, CallDFS
    PROVE  /\ stack' \in Seq([node : Blocks, it : Nat])
           /\ Len(stack') = Depth + 1 /\ DOMAIN stack' = 1 .. Depth + 1
           /\ \A j \in 1 .. Depth : /\ stack'[j].node = stack[j].node
                                    /\ j # Depth => stack'[j].it = stack[j].it
           /\ stack'[Depth].it = Top.it + 1
           /\ stack'[Depth + 1].node = Successor /\ stack'[Depth + 1].it = 1
           /\ vertexes' \in Seq(Blocks) /\ Len(vertexes') = Len(vertexes) + 1
           /\ DOMAIN vertexes' = 1 .. Len(vertexes) + 1
           /\ \A j \in 1 .. Len(vertexes) : vertexes'[j] = vertexes[j]
           /\ vertexes'[Len(vertexes) + 1] = Successor
           /\ ToSet(vertexes') = ToSet(vertexes) \cup {Successor}
  <1>1. Successor \in Blocks
    BY SuccessorFacts DEF CallDFS
  <1>2. Enter(Successor) \in [node : Blocks, it : Nat]
    BY <1>1 DEF Enter
  <1>3. /\ stack' \in Seq([node : Blocks, it : Nat])
        /\ Len(stack') = Depth + 1 /\ DOMAIN stack' = 1 .. Depth + 1
        /\ \A j \in 1 .. Depth : stack'[j] = Advanced[j]
        /\ stack'[Depth + 1] = Enter(Successor)
    BY <1>2, StackFacts, AppendEntries DEF CallDFS
  <1>4. Depth \in 1 .. Depth
    BY StackFacts
  <1>5. /\ vertexes' \in Seq(Blocks) /\ Len(vertexes') = Len(vertexes) + 1
        /\ DOMAIN vertexes' = 1 .. Len(vertexes) + 1
        /\ \A j \in 1 .. Len(vertexes) : vertexes'[j] = vertexes[j]
        /\ vertexes'[Len(vertexes) + 1] = Successor
        /\ ToSet(vertexes') = ToSet(vertexes) \cup {Successor}
    BY <1>1, AppendEntries DEF CallDFS, TypeOK
  <1> QED BY <1>3, <1>4, <1>5, StackFacts DEF Enter

\* A call of DFS keeps the types.
LEMMA CallTyped ==
    ASSUME TypeOK, FramesShape, CallDFS
    PROVE  TypeOK'
  <1>1. Successor \in Blocks /\ Top.node \in Blocks
    BY SuccessorFacts, StackFacts DEF CallDFS
  <1>2. NewInfo(Len(vertexes), Top.node) \in Infos
    <2>1. Len(vertexes) \in Nat
      BY DEF TypeOK
    <2> QED BY <1>1, <2>1 DEF NewInfo, Infos, MaybeBlock
  <1>3. DOMAIN info' \subseteq Blocks /\ \A v \in DOMAIN info' : info'[v] \in Infos
    BY <1>1, <1>2 DEF CallDFS, Inserted, TypeOK
  <1>4. UNCHANGED <<succ, predec, idom, dominated, k, p, bucket, pc, runs, edits, plan>>
    BY DEF CallDFS, graphVars, resultVars, countVars
  <1> QED BY <1>3, <1>4, CallFacts DEF TypeOK

\* A block the walk has not seen gets the next number below the active block.
LEMMA NewBlock ==
    ASSUME TypeOK, Tree, FramesShape, CallDFS, NEW x, NEW t,
           x = Successor, t = Top.node, x \notin Walked
    PROVE  /\ Walked' = Walked \cup {x} /\ Parent'[x] = t
           /\ \A v \in Walked : Parent'[v] = Parent[v] /\ Number(v)' = Number(v)
           /\ Number(x)' = Len(vertexes)
           /\ \A v \in Walked : Above(v)' = Above(v)
           /\ Above(x)' = {x} \cup Above(t)
           /\ info'[x] = NewInfo(Len(vertexes), t)
           /\ \A v \in Walked : info'[v] = info[v]
  <1>1. t \in Walked
    BY StackFacts
  <1>2. /\ DOMAIN info' = Walked \cup {x}
        /\ info'[x] = NewInfo(Len(vertexes), t)
        /\ \A v \in Walked : info'[v] = info[v]
    BY DEF CallDFS, Inserted, Walked
  <1>3. /\ Walked' = Walked \cup {x} /\ Parent'[x] = t
        /\ DOMAIN Parent' = Walked \cup {x}
        /\ \A v \in Walked : Parent'[v] = Parent[v]
    BY <1>2 DEF Walked, Parent, NewInfo
  <1>4. \A v \in Walked : Parent[v] # x
    <2>1. Parent[Root] = Null /\ \A v \in Walked \ {Root} : Parent[v] \in Walked
      BY DEF Tree, TreeShape
    <2>2. Null # x
      BY CfgAssumption, SuccessorFacts DEF CallDFS
    <2> QED BY <2>1, <2>2
  <1>5. DOMAIN Parent = Walked
    BY DEF Parent
  <1>6. /\ \A v \in Walked : UpFrom(Parent', v) = UpFrom(Parent, v)
        /\ UpFrom(Parent', x) = {x} \cup UpFrom(Parent, t)
    <2> DEFINE grown == Parent'
    <2>1. /\ DOMAIN grown = DOMAIN Parent \cup {x}
          /\ \A y \in DOMAIN Parent : grown[y] = Parent[y]
          /\ grown[x] = t /\ t \in DOMAIN Parent
          /\ x \notin DOMAIN Parent
      BY <1>1, <1>3, <1>5
    <2> HIDE DEF grown
    <2>2. /\ \A v \in DOMAIN Parent : UpFrom(grown, v) = UpFrom(Parent, v)
          /\ UpFrom(grown, x) = {x} \cup UpFrom(Parent, grown[x])
      BY <1>4, <1>5, <2>1, UpLeaf
    <2> QED BY <1>5, <2>1, <2>2 DEF grown
  <1>7. vertexes \in Seq(Blocks) /\ ToSet(vertexes) = Walked /\ x \in Blocks
    BY SuccessorFacts DEF TypeOK, Tree, NumbersShape, CallDFS
  <1>8. /\ \A v \in Walked : NumberIn(vertexes', v) = NumberIn(vertexes, v)
        /\ NumberIn(vertexes', x) = Len(vertexes)
    <2>1. vertexes' = Append(vertexes, x)
      BY DEF CallDFS
    <2> QED BY <1>7, <2>1, NumberAppend
  <1> QED BY <1>2, <1>3, <1>6, <1>8 DEF Above, Number

\* Only an open block can have an edge to the new one, and all open blocks are
\* on the way from the active block up to the root.
LEMMA NewBlockTree ==
    ASSUME TypeOK, Tree, Walking, CallDFS, Successor \notin Walked,
           NEW x, NEW t, x = Successor, t = Top.node
    PROVE  Tree'
  <1>0. FramesShape /\ Passed /\ OpenOrFinished /\ ActiveChain /\ ActiveSpan
        /\ NumbersShape /\ TreeShape /\ EdgesDown /\ Intervals /\ SecondNumbers /\ WalkedReachable
    BY DEF Walking, Tree
  <1>1. /\ Walked' = Walked \cup {x} /\ Parent'[x] = t
        /\ \A v \in Walked : Parent'[v] = Parent[v] /\ Number(v)' = Number(v)
        /\ Number(x)' = Len(vertexes)
        /\ \A v \in Walked : Above(v)' = Above(v)
        /\ Above(x)' = {x} \cup Above(t)
    BY <1>0, NewBlock
  <1>2. /\ t \in Walked /\ x \in Blocks /\ x \notin Walked /\ Occurs(succ, t, x) /\ succ' = succ
    BY <1>0, StackFacts, SuccessorFacts DEF CallDFS, graphVars
  <1>3. /\ Len(vertexes) \in Nat \ {0} /\ Root \in Walked
        /\ \A v \in Walked : Number(v) \in Nat /\ Number(v) < Len(vertexes)
        /\ \A j \in 1 .. Len(vertexes) : vertexes[j] \in Walked
    BY <1>0, NumberFacts
  <1>4. /\ Len(vertexes') = Len(vertexes) + 1
        /\ DOMAIN vertexes' = 1 .. Len(vertexes) + 1
        /\ \A j \in 1 .. Len(vertexes) : vertexes'[j] = vertexes[j]
        /\ vertexes'[Len(vertexes) + 1] = x
        /\ ToSet(vertexes') = ToSet(vertexes) \cup {x}
    BY <1>0, CallFacts
  <1>5. t = stack[Depth].node /\ Depth \in DOMAIN stack /\ DOMAIN stack = 1 .. Depth
    BY <1>0, StackFacts DEF Top
  <1>6. \A v \in Walked : v \in Above(v) /\ Above(v) \subseteq Walked
    BY <1>0, TreeFacts
  <1>7. NumbersShape'
    <2>1. 1 \in 1 .. Len(vertexes)
      BY <1>3
    <2>2. vertexes' # <<>>
      BY <1>3, <1>4
    <2> QED BY <1>0, <1>1, <1>4, <2>1, <2>2 DEF NumbersShape
  <1>8. TreeShape'
    <2>1. x # Root
      BY <1>2, <1>3
    <2>2. ASSUME NEW v \in Walked' \ {Root}
          PROVE  /\ Parent'[v] \in Walked' /\ Number(Parent[v])' < Number(v)'
                 /\ Occurs(succ', Parent'[v], v)
      <3>1. CASE v = x
        BY <1>1, <1>2, <1>3, <3>1
      <3>2. CASE v \in Walked
        <4>1. Parent[v] \in Walked /\ Number(Parent[v]) < Number(v) /\ Occurs(succ, Parent[v], v)
          BY <1>0, <2>2, <3>2 DEF TreeShape
        <4>2. Parent'[v] = Parent[v]
          BY <1>1, <3>2
        <4>3. Number(Parent[v])' = Number(Parent[v])
          BY <1>1, <4>1, <4>2
        <4> QED BY <1>1, <1>2, <3>2, <4>1, <4>2, <4>3
      <3> QED BY <1>1, <2>2, <3>1, <3>2
    <2>3. Parent'[Root] = Null
      BY <1>0, <1>1, <1>3 DEF TreeShape
    <2> QED BY <2>2, <2>3 DEF TreeShape
  <1>9. EdgesDown'
    <2> SUFFICES ASSUME NEW u \in Walked', NEW v \in ToSet(succ[u]) \cap Walked',
                        Number(u)' < Number(v)'
                 PROVE  u \in Above(v)'
      BY <1>2 DEF EdgesDown
    <2>1. CASE v \in Walked
      <3>1. u # x
        BY <1>1, <1>3, <2>1
      <3> QED BY <1>0, <1>1, <2>1, <3>1 DEF EdgesDown
    <2>2. CASE v = x /\ u \in Walked
      <3>1. ~Finished(u)
        BY <1>2, <2>2 DEF Finished
      <3>2. PICK j \in DOMAIN stack : stack[j].node = u
        BY <1>0, <2>2, <3>1 DEF OpenOrFinished
      <3>3. u \in Above(t)
        BY <1>0, <1>5, <3>2 DEF ActiveChain
      <3> QED BY <1>1, <2>2, <3>3
    <2>3. CASE v = x /\ u = x
      BY <1>1, <2>3
    <2> QED BY <1>1, <2>1, <2>2, <2>3
  <1>10. \A a \in Above(t) : Open(a)
    <2>1. ~Finished(t)
      BY <1>2 DEF Finished, Occurs
    <2> QED BY <1>0, <1>5, <2>1 DEF ActiveSpan, Depth
  <1>11. Intervals'
    <2> SUFFICES ASSUME NEW a \in Walked', NEW b \in Walked', NEW c \in Walked',
                        a \in Above(c)', Number(a)' <= Number(b)', Number(b)' <= Number(c)'
                 PROVE  a \in Above(b)'
      BY DEF Intervals
    <2>1. CASE c \in Walked
      <3>1. a \in Walked /\ b \in Walked
        <4>1. a \in Above(c) /\ a \in Walked
          BY <1>1, <1>6, <2>1
        <4>2. b # x
          BY <1>1, <1>3, <2>1
        <4> QED BY <1>1, <4>1, <4>2
      <3> QED BY <1>0, <1>1, <2>1, <3>1 DEF Intervals
    <2>2. CASE c = x /\ a = x
      <3>1. b = x
        BY <1>1, <1>3, <2>2
      <3> QED BY <2>2, <3>1
    <2>3. CASE c = x /\ a \in Above(t)
      <3>1. CASE b = x
        BY <2>3, <3>1
      <3>2. CASE b \in Walked
        <4>1. Spans(a) /\ a \in Walked
          BY <1>2, <1>6, <1>10, <2>3 DEF Open
        <4> QED BY <1>1, <3>2, <4>1 DEF Spans
      <3> QED BY <1>1, <3>1, <3>2
    <2> QED BY <1>1, <2>1, <2>2, <2>3
  <1>12. SecondNumbers'
    <2> SUFFICES ASSUME NEW j \in 1 .. Len(vertexes) + 1, Number(vertexes[j])' # j - 1
                 PROVE  Occurs(succ, Root, vertexes[j])' /\ Split(j)'
      BY <1>4 DEF SecondNumbers, Second
    <2>1. CASE j = Len(vertexes) + 1
      <3>1. vertexes'[j] = x
        BY <1>4, <2>1
      <3>2. Number(vertexes[j])' = Len(vertexes)
        BY <1>1, <3>1
      <3> QED BY <1>3, <2>1, <3>2
    <2>2. CASE j \in 1 .. Len(vertexes)
      <3>1. vertexes'[j] = vertexes[j] /\ vertexes[j] \in Walked /\ j \in DOMAIN vertexes
        BY <1>3, <1>4, <2>2
      <3>2. Number(vertexes[j])' = Number(vertexes[j])
        BY <1>1, <3>1
      <3>3. Second(j)
        BY <3>2 DEF Second
      <3>4. Occurs(succ, Root, vertexes[j]) /\ Split(j)
        BY <1>0, <3>1, <3>3 DEF SecondNumbers
      <3>5. Split(j)'
        <4> SUFFICES ASSUME NEW v \in Walked', Number(v)' >= j, NEW a \in Above(v)', a # Root
                     PROVE  Number(a)' >= j
          BY DEF Split
        <4>1. CASE v \in Walked
          BY <1>1, <1>6, <3>4, <4>1 DEF Split
        <4>2. CASE v = x /\ a = x
          BY <1>1, <1>3, <2>2, <4>2
        <4>3. CASE v = x /\ a \in Above(t)
          <5>1. AfterSeconds(a) /\ a \in Walked
            BY <1>2, <1>6, <1>10, <4>3 DEF Open
          <5> QED BY <1>1, <3>1, <3>3, <5>1 DEF AfterSeconds
        <4> QED BY <1>1, <4>1, <4>2, <4>3
      <3> QED BY <1>2, <3>1, <3>4, <3>5
    <2> QED BY <1>3, <2>1, <2>2
  <1>13. WalkedReachable'
    <2>1. x \in Reachable
      <3>1. t \in Reachable /\ t \in Blocks /\ x \in ToSet(succ[t])
        BY <1>0, <1>2 DEF WalkedReachable, Reachable, ReachFrom, Occurs, TypeOK
      <3>2. succ \in [Blocks -> Seq(Blocks)]
        BY DEF TypeOK
      <3>3. x \in ReachFrom(succ, t)
        BY <3>1, <3>2, ReachEdge
      <3>4. Root \in Blocks
        BY RootPositions
      <3> QED BY <3>1, <3>2, <3>3, <3>4, ReachTransitive DEF Reachable
    <2>2. Reachable' = Reachable
      BY <1>2 DEF Reachable
    <2> QED BY <1>0, <1>1, <2>1, <2>2 DEF WalkedReachable
  <1> QED BY <1>7, <1>8, <1>9, <1>11, <1>12, <1>13 DEF Tree

\* A call of DFS on a block without a number: the activations stay a path
\* of the tree and every block is still finished or active.
LEMMA NewBlockWalking ==
    ASSUME TypeOK, Tree, Walking, Fresh, CallDFS, Successor \notin Walked,
           NEW x, NEW t, x = Successor, t = Top.node
    PROVE  Walking' /\ Fresh'
  <1>0. FramesShape /\ Passed /\ OpenOrFinished /\ ActiveChain /\ ActiveSpan
        /\ NumbersShape /\ TreeShape
    BY DEF Walking, Tree
  <1>1. /\ Walked' = Walked \cup {x} /\ Parent'[x] = t
        /\ \A v \in Walked : Parent'[v] = Parent[v] /\ Number(v)' = Number(v)
        /\ Number(x)' = Len(vertexes)
        /\ \A v \in Walked : Above(v)' = Above(v)
        /\ Above(x)' = {x} \cup Above(t)
        /\ info'[x] = NewInfo(Len(vertexes), t)
        /\ \A v \in Walked : info'[v] = info[v]
    BY <1>0, NewBlock
  <1>2. /\ t \in Walked /\ x \in Blocks /\ x \notin Walked /\ Occurs(succ, t, x) /\ succ' = succ
        /\ Top.it \in DOMAIN succ[t]
    BY <1>0, StackFacts, SuccessorFacts DEF CallDFS, graphVars
  <1>3. /\ Len(vertexes) \in Nat \ {0} /\ Root \in Walked
        /\ \A v \in Walked : Number(v) \in Nat /\ Number(v) < Len(vertexes)
    BY <1>0, NumberFacts
  <1>4. /\ Len(vertexes') = Len(vertexes) + 1
        /\ \A j \in 1 .. Len(vertexes) : vertexes'[j] = vertexes[j]
        /\ Len(stack') = Depth + 1 /\ DOMAIN stack' = 1 .. Depth + 1
        /\ \A j \in 1 .. Depth : /\ stack'[j].node = stack[j].node
                                 /\ j # Depth => stack'[j].it = stack[j].it
        /\ stack'[Depth].it = Top.it + 1
        /\ stack'[Depth + 1].node = x /\ stack'[Depth + 1].it = 1
    BY <1>0, CallFacts
  <1>5. /\ t = stack[Depth].node /\ Depth \in Nat \ {0} /\ DOMAIN stack = 1 .. Depth
        /\ Depth \in 1 .. Depth /\ 1 \in 1 .. Depth
        /\ \A j \in 1 .. Depth : stack[j].node \in Walked /\ stack[j].it \in Nat \ {0}
    BY <1>0, StackFacts DEF Top
  <1>6. \A v \in Walked : v \in Above(v) /\ Above(v) \subseteq Walked
    BY <1>0, TreeFacts
  <1>7. \A j \in DOMAIN stack' : j = Depth + 1 \/ j \in 1 .. Depth
    BY <1>4, <1>5
  <1>8. ~Finished(t)
    BY <1>2 DEF Finished, Occurs
  <1>9. FramesShape'
    <2>1. \A j \in DOMAIN stack' : stack'[j].it > 0 /\ stack'[j].node \in Walked'
      <3> SUFFICES ASSUME NEW j \in DOMAIN stack'
                   PROVE  stack'[j].it > 0 /\ stack'[j].node \in Walked'
        OBVIOUS
      <3>1. CASE j = Depth + 1
        BY <1>1, <1>4, <3>1
      <3>2. CASE j = Depth
        <4>1. Top.it \in Nat
          BY <1>0, StackFacts
        <4> QED BY <1>1, <1>4, <1>5, <3>2, <4>1
      <3>3. CASE j \in 1 .. Depth /\ j # Depth
        BY <1>1, <1>4, <1>5, <3>3
      <3> QED BY <1>7, <3>1, <3>2, <3>3
    <2>2. stack'[1].node = Root
      BY <1>0, <1>4, <1>5 DEF FramesShape
    <2>3. stack' # <<>>
      BY <1>4, <1>5
    <2> QED BY <2>1, <2>2, <2>3 DEF FramesShape
  <1>10. Passed'
    <2>1. ASSUME NEW j \in DOMAIN stack', NEW m \in DOMAIN succ[stack'[j].node],
                 m < stack'[j].it
          PROVE  succ[stack'[j].node][m] \in Walked'
      <3>1. stack'[j].node \in Blocks
        BY <1>1, <1>2, <1>4, <1>5, <1>7 DEF TypeOK, Walked
      <3>2. m \in Nat /\ m >= 1
        <4>1. succ[stack'[j].node] \in Seq(Blocks)
          BY <3>1 DEF TypeOK
        <4>2. m \in 1 .. Len(succ[stack'[j].node]) /\ Len(succ[stack'[j].node]) \in Nat
          BY <4>1
        <4> QED BY <4>2
      <3>3. CASE j = Depth + 1
        BY <1>4, <2>1, <3>2, <3>3
      <3>4. CASE j = Depth
        <4>1. m = Top.it \/ m < Top.it
          BY <1>0, <1>4, <2>1, <3>2, <3>4, StackFacts
        <4>2. stack'[j].node = t
          BY <1>4, <1>5, <3>4
        <4>3. CASE m = Top.it
          BY <1>1, <4>2, <4>3 DEF Successor
        <4>4. CASE m < Top.it
          BY <1>0, <1>1, <1>5, <4>2, <4>4 DEF Passed, Top
        <4> QED BY <4>1, <4>3, <4>4
      <3>5. CASE j \in 1 .. Depth /\ j # Depth
        BY <1>0, <1>1, <1>4, <1>5, <2>1, <3>5 DEF Passed
      <3> QED BY <1>7, <3>3, <3>4, <3>5
    <2>2. ASSUME NEW m \in DOMAIN succ[Root], m < stack'[1].it, succ[Root][m] = Root
          PROVE  RootTwice'
      <3>1. m < stack[1].it
        <4>1. CASE Depth = 1
          <5>1. stack'[1].it = Top.it + 1 /\ t = Root /\ Top.it = stack[1].it /\ Top.it \in Nat
            BY <1>0, <1>4, <1>5, <4>1, StackFacts DEF Top, FramesShape
          <5>2. m # Top.it
            BY <1>2, <1>3, <2>2, <5>1 DEF Successor
          <5>3. m \in Nat
            BY <1>0, RootPositions
          <5> QED BY <2>2, <5>1, <5>2, <5>3
        <4>2. CASE Depth # 1
          BY <1>4, <1>5, <2>2, <4>2
        <4> QED BY <4>1, <4>2
      <3>2. RootTwice
        BY <1>0, <2>2, <3>1 DEF Passed
      <3>3. PICK j \in 2 .. Len(vertexes) : vertexes[j] = Root
        BY <3>2 DEF RootTwice
      <3>4. j \in 2 .. Len(vertexes') /\ vertexes'[j] = Root
        BY <1>3, <1>4, <3>3
      <3> QED BY <3>4 DEF RootTwice
    <2> QED BY <1>2, <2>1, <2>2 DEF Passed
  <1>11. OpenOrFinished'
    <2> SUFFICES ASSUME NEW u \in Walked'
                 PROVE  Finished(u)' \/ \E j \in DOMAIN stack' : stack'[j].node = u
      BY DEF OpenOrFinished
    <2>1. CASE u = x
      BY <1>4, <1>5, <2>1
    <2>2. CASE u \in Walked
      <3>1. Finished(u) => Finished(u)'
        BY <1>1, <1>2 DEF Finished
      <3>2. ASSUME NEW j \in DOMAIN stack, stack[j].node = u
            PROVE  j \in DOMAIN stack' /\ stack'[j].node = u
        BY <1>4, <1>5, <3>2
      <3> QED BY <1>0, <2>2, <3>1, <3>2 DEF OpenOrFinished
    <2> QED BY <1>1, <2>1, <2>2
  <1>12. \A j \in 1 .. Depth : /\ Above(stack[j].node)' = Above(stack[j].node)
                               /\ stack[j].node \in Above(t)
    <2> SUFFICES ASSUME NEW j \in 1 .. Depth
                 PROVE  /\ Above(stack[j].node)' = Above(stack[j].node)
                        /\ stack[j].node \in Above(t)
      OBVIOUS
    <2>1. stack'[j].node = stack[j].node /\ stack[j].node \in Walked
      BY <1>4, <1>5
    <2>2. j <= Depth
      BY <1>5
    <2> QED BY <1>0, <1>1, <1>5, <2>1, <2>2 DEF ActiveChain
  <1>13. \A j : j = Depth + 1 => Above(stack[j].node)' = {x} \cup Above(t)
    BY <1>1, <1>4
  <1>14. ActiveChain'
    <2> SUFFICES ASSUME NEW j \in DOMAIN stack', NEW m \in DOMAIN stack', j <= m
                 PROVE  stack'[j].node \in Above(stack[m].node)'
      BY DEF ActiveChain
    <2>1. CASE m = Depth + 1
      BY <1>4, <1>7, <1>12, <1>13, <2>1
    <2>2. CASE m \in 1 .. Depth
      <3>1. j \in 1 .. Depth
        BY <1>4, <1>5, <2>2
      <3> QED BY <1>0, <1>4, <1>5, <1>12, <2>2, <3>1 DEF ActiveChain
    <2> QED BY <1>7, <2>1, <2>2
  <1>20. \A j \in DOMAIN vertexes' : Second(j)' => j \in DOMAIN vertexes /\ Second(j)
    <2> SUFFICES ASSUME NEW j \in DOMAIN vertexes', Number(vertexes[j])' # j - 1
                 PROVE  j \in DOMAIN vertexes /\ Second(j)
      BY DEF Second
    <2>1. DOMAIN vertexes' = 1 .. Len(vertexes) + 1 /\ DOMAIN vertexes = 1 .. Len(vertexes)
          /\ vertexes'[Len(vertexes) + 1] = x
          /\ \A i \in 1 .. Len(vertexes) : vertexes[i] \in Walked
      <3>1. vertexes \in Seq(Blocks)
        BY DEF TypeOK
      <3> QED BY <1>0, <3>1, CallFacts, NumberFacts
    <2>2. CASE j = Len(vertexes) + 1
      <3>1. Number(vertexes[j])' = Len(vertexes)
        BY <1>1, <2>1, <2>2
      <3> QED BY <1>3, <2>2, <3>1
    <2>3. CASE j \in 1 .. Len(vertexes)
      <3>1. Number(vertexes[j])' = Number(vertexes[j])
        BY <1>1, <1>4, <2>1, <2>3
      <3> QED BY <2>1, <2>3, <3>1 DEF Second
    <2> QED BY <1>3, <2>1, <2>2, <2>3
  <1>15. ASSUME NEW a \in Walked, Open(a), a \in Above(t) PROVE Open(a)'
    <2>3. a # Root => AfterSeconds(a)'
      BY <1>1, <1>15, <1>20 DEF AfterSeconds, Open
    <2>4. Open(a)' <=> Spans(a)' /\ (a # Root => AfterSeconds(a)')
      BY DEF Open
    <2> SUFFICES ASSUME NEW y \in Walked', Number(a)' <= Number(y)' PROVE a \in Above(y)'
      BY <2>3, <2>4 DEF Spans
    <2>1. CASE y = x
      BY <1>1, <1>15, <2>1
    <2>2. CASE y \in Walked
      BY <1>1, <1>15, <2>2 DEF Spans, Open
    <2> QED BY <1>1, <2>1, <2>2
  <1>16. Open(x)'
    <2>2. AfterSeconds(x)'
      BY <1>1, <1>3, <1>20 DEF AfterSeconds
    <2>3. Open(x)' <=> Spans(x)' /\ (x # Root => AfterSeconds(x)')
      BY DEF Open
    <2> SUFFICES ASSUME NEW y \in Walked', Number(x)' <= Number(y)' PROVE x \in Above(y)'
      BY <2>2, <2>3 DEF Spans
    <2>1. y = x
      BY <1>1, <1>3
    <2> QED BY <1>1, <2>1
  <1>17. \A a \in Above(t) : a \in Walked /\ Open(a)
    BY <1>0, <1>2, <1>5, <1>6, <1>8 DEF ActiveSpan, Depth
  <1>18. ActiveSpan'
    <2> SUFFICES ASSUME NEW j \in DOMAIN stack', NEW a \in Above(stack[j].node)'
                 PROVE  Open(a)'
      BY DEF ActiveSpan
    <2>1. CASE j = Depth + 1
      BY <1>13, <1>15, <1>16, <1>17, <2>1
    <2>2. CASE j \in 1 .. Depth
      <3>1. a \in Above(stack[j].node) /\ stack[j].node \in Above(t)
        BY <1>12, <2>2
      <3>2. a \in Above(t)
        BY <1>0, <1>2, <3>1, TreeFacts
      <3> QED BY <1>15, <1>17, <3>2
    <2> QED BY <1>7, <2>1, <2>2
  <1>19. Fresh'
    <2> SUFFICES ASSUME NEW v \in Walked' PROVE info'[v] = NewInfo(Number(v)', Parent'[v])
      BY DEF Fresh, NewInfo
    <2>1. CASE v = x
      BY <1>1, <2>1
    <2>2. CASE v \in Walked
      BY <1>1, <2>2 DEF Fresh
    <2> QED BY <1>1, <2>1, <2>2
  <1> QED BY <1>9, <1>10, <1>11, <1>14, <1>18, <1>19 DEF Walking

\* Only the root calls DFS for a numbered block: by then every other block is
\* closed.
LEMMA CallAgain ==
    ASSUME TypeOK, Tree, Walking, Fresh, CallDFS, NEW x, x = Successor, x \in Walked
    PROVE  Tree' /\ Walking' /\ Fresh'
  <1>0. FramesShape /\ Passed /\ OpenOrFinished /\ ActiveChain /\ ActiveSpan
        /\ NumbersShape /\ TreeShape /\ EdgesDown /\ Intervals /\ SecondNumbers /\ WalkedReachable
    BY DEF Walking, Tree
  <1>1. Depth = 1
    BY DEF CallDFS, Calls, Walked
  <1>2. Walked' = Walked /\ succ' = succ /\ \A v \in Walked : info'[v] = info[v]
    <2>1. x \in DOMAIN info
      BY DEF Walked
    <2> QED BY <2>1 DEF CallDFS, Inserted, Walked, graphVars
  <1>3. Parent' = Parent
    BY <1>2 DEF Parent, Walked
  <1>4. /\ stack[1].node = Root /\ Top = stack[1] /\ DOMAIN stack = {1}
        /\ Top.it \in Nat \ {0} /\ Root \in Walked
        /\ x \in Blocks /\ Occurs(succ, Root, x) /\ Top.it \in DOMAIN succ[Root]
    BY <1>0, <1>1, StackFacts, SuccessorFacts DEF CallDFS, FramesShape, Top
  <1>5. /\ DOMAIN stack' = {1, 2}
        /\ stack'[1].node = Root /\ stack'[1].it = Top.it + 1
        /\ stack'[2].node = x /\ stack'[2].it = 1 /\ Len(stack') = 2
        /\ Len(vertexes') = Len(vertexes) + 1
        /\ DOMAIN vertexes' = 1 .. Len(vertexes) + 1
        /\ \A j \in 1 .. Len(vertexes) : vertexes'[j] = vertexes[j]
        /\ vertexes'[Len(vertexes) + 1] = x
        /\ ToSet(vertexes') = ToSet(vertexes) \cup {x}
    BY <1>0, <1>1, <1>4, CallFacts
  <1>6. /\ Len(vertexes) \in Nat \ {0}
        /\ \A j \in 1 .. Len(vertexes) : vertexes[j] \in Walked
        /\ DOMAIN vertexes = 1 .. Len(vertexes)
    <2>1. vertexes \in Seq(Blocks)
      BY DEF TypeOK
    <2> QED BY <1>0, <2>1, NumberFacts
  <1>7. \A v \in Walked : Number(v)' = Number(v)
    <2>1. vertexes \in Seq(Blocks) /\ ToSet(vertexes) = Walked
          /\ vertexes' = Append(vertexes, x)
      BY <1>0 DEF TypeOK, NumbersShape, CallDFS
    <2> QED BY <1>4, <2>1, NumberAppend DEF Number
  <1>8. \A v : Above(v)' = Above(v)
    BY <1>3 DEF Above
  <1>9. /\ Above(Root) = {Root}
        /\ \A v \in Walked : v \in Above(v) /\ Above(v) \subseteq Walked /\ Root \in Above(v)
    BY <1>0, TreeFacts
  <1>10. x = Root \/ Finished(x)
    BY <1>0, <1>4 DEF OpenOrFinished
  <1>11. NumbersShape'
    <2>1. vertexes' # <<>> /\ 1 \in 1 .. Len(vertexes)
      BY <1>5, <1>6
    <2> QED BY <1>0, <1>2, <1>5, <2>1 DEF NumbersShape
  <1>12. TreeShape'
    BY <1>0, <1>2, <1>3, <1>7 DEF TreeShape
  <1>13. EdgesDown'
    BY <1>0, <1>2, <1>7, <1>8 DEF EdgesDown
  <1>14. Intervals'
    BY <1>0, <1>2, <1>7, <1>8 DEF Intervals
  <1>15. SecondNumbers'
    <2> SUFFICES ASSUME NEW j \in DOMAIN vertexes', Number(vertexes[j])' # j - 1
                 PROVE  Occurs(succ, Root, vertexes[j])' /\ Split(j)'
      BY DEF SecondNumbers, Second
    <2>1. CASE j = Len(vertexes) + 1
      <3>1. \A v \in Walked : Number(v) \in Nat /\ ~(Number(v) >= j)
        BY <1>0, <1>6, <2>1, NumberFacts
      <3>2. Split(j)'
        BY <1>2, <1>7, <3>1 DEF Split
      <3> QED BY <1>2, <1>4, <1>5, <2>1, <3>2
    <2>2. CASE j \in 1 .. Len(vertexes)
      <3>1. vertexes'[j] = vertexes[j] /\ vertexes[j] \in Walked
        BY <1>5, <1>6, <2>2
      <3>2. Second(j)
        BY <1>7, <3>1 DEF Second
      <3>3. Occurs(succ, Root, vertexes[j]) /\ Split(j)
        BY <1>0, <1>6, <2>2, <3>2 DEF SecondNumbers
      <3>4. Split(j)'
        BY <1>2, <1>7, <1>8, <1>9, <3>3 DEF Split
      <3> QED BY <1>2, <3>1, <3>3, <3>4
    <2> QED BY <1>5, <1>6, <2>1, <2>2
  <1>16. WalkedReachable'
    BY <1>0, <1>2 DEF WalkedReachable, Reachable
  <1>17. Fresh'
    BY <1>2, <1>3, <1>7 DEF Fresh
  <1>18. FramesShape'
    <2>1. stack' # <<>>
      <3>1. Len(stack') = 2 /\ Len(<<>>) = 0
        BY <1>5
      <3> QED BY <3>1
    <2>2. \A j \in DOMAIN stack' : stack'[j].it > 0 /\ stack'[j].node \in Walked'
      BY <1>2, <1>4, <1>5
    <2> QED BY <1>5, <2>1, <2>2 DEF FramesShape
  <1>19. Passed'
    <2>1. ASSUME NEW m \in DOMAIN succ[Root], m < Top.it + 1
          PROVE  succ[Root][m] \in Walked /\ (succ[Root][m] = Root => RootTwice')
      <3>1. m \in Nat
        BY <1>0, RootPositions
      <3>2. CASE m = Top.it
        <4>1. succ[Root][m] = x
          BY <1>4, <3>2 DEF Successor
        <4>2. x = Root => RootTwice'
          <5>1. Len(vertexes) + 1 \in 2 .. Len(vertexes')
            BY <1>5, <1>6
          <5> QED BY <1>5, <5>1 DEF RootTwice
        <4> QED BY <4>1, <4>2
      <3>3. CASE m < Top.it
        <4>1. succ[Root][m] \in Walked /\ (succ[Root][m] = Root => RootTwice)
          BY <1>0, <1>4, <3>3 DEF Passed
        <4>2. RootTwice => RootTwice'
          <5> SUFFICES ASSUME NEW j \in 2 .. Len(vertexes), vertexes[j] = Root PROVE RootTwice'
            BY DEF RootTwice
          <5>1. j \in 2 .. Len(vertexes') /\ vertexes'[j] = Root
            BY <1>5, <1>6
          <5> QED BY <5>1 DEF RootTwice
        <4> QED BY <4>1, <4>2
      <3> QED BY <1>4, <2>1, <3>1, <3>2, <3>3
    <2>2. \A m \in DOMAIN succ[x] : ~(m < 1)
      <3>1. succ[x] \in Seq(Blocks)
        BY <1>4 DEF TypeOK
      <3>2. DOMAIN succ[x] = 1 .. Len(succ[x]) /\ Len(succ[x]) \in Nat
        BY <3>1
      <3> QED BY <3>2
    <2> QED BY <1>2, <1>5, <2>1, <2>2 DEF Passed
  <1>20. OpenOrFinished'
    BY <1>0, <1>2, <1>4, <1>5 DEF OpenOrFinished, Finished
  <1>21. ActiveChain'
    <2> SUFFICES ASSUME NEW j \in {1, 2}, NEW m \in {1, 2}, j <= m
                 PROVE  stack'[j].node \in Above(stack'[m].node)
      BY <1>5, <1>8 DEF ActiveChain
    <2> QED BY <1>4, <1>5, <1>9
  <1>22. ActiveSpan'
    <2>1. Open(Root)'
      BY <1>2, <1>8, <1>9 DEF Spans, Open
    <2>2. ASSUME NEW j \in DOMAIN stack', stack'[j].node = Root
          PROVE  \A a \in Above(stack'[j].node) : Open(a)'
      BY <1>9, <2>1, <2>2
    <2>3. Finished(x) => Finished(stack[2].node)'
      BY <1>2, <1>5 DEF Finished
    <2>4. ASSUME NEW j \in DOMAIN stack'
          PROVE  \/ \A a \in Above(stack'[j].node) : Open(a)'
                 \/ j = 2 /\ Len(stack') = 2 /\ Finished(stack[2].node)'
      BY <1>5, <1>10, <2>2, <2>3
    <2>5. \A j \in DOMAIN stack' : Above(stack[j].node)' = Above(stack'[j].node)
      BY <1>8
    <2> QED BY <2>4, <2>5 DEF ActiveSpan
  <1> QED BY <1>11, <1>12, <1>13, <1>14, <1>15, <1>16, <1>17, <1>18, <1>19, <1>20, <1>21, <1>22
          DEF Tree, Walking

\* CallDFS, on a new block or on one numbered before.
LEMMA CallWalk ==
    ASSUME TypeOK, WalkInv, CallDFS
    PROVE  TypeOK' /\ WalkInv'
  <1>1. pc = "dfs" /\ pc' = "dfs" /\ UNCHANGED <<succ, predec, plan>>
    BY DEF CallDFS, AtSuccessor, graphVars, countVars
  <1>2. Tree /\ Walking /\ Fresh /\ InStep /\ FramesShape
    BY <1>1 DEF WalkInv, Walking
  <1>3. TypeOK'
    BY <1>2, CallTyped
  <1>4. Tree' /\ Walking' /\ Fresh'
    <2>1. PICK x, t : x = Successor /\ t = Top.node
      OBVIOUS
    <2>2. CASE x \in Walked
      BY <1>2, <2>1, <2>2, CallAgain
    <2>3. CASE x \notin Walked
      BY <1>2, <2>1, <2>3, NewBlockTree, NewBlockWalking
    <2> QED BY <2>2, <2>3
  <1>5. InStep'
    BY <1>1, <1>2 DEF InStep
  <1> QED BY <1>1, <1>3, <1>4, <1>5 DEF WalkInv

\* A numbered successor is passed over.
LEMMA PassOverWalk ==
    ASSUME TypeOK, WalkInv, PassOver
    PROVE  TypeOK' /\ WalkInv'
  <1>1. /\ pc = "dfs" /\ stack' = Advanced
        /\ UNCHANGED <<graphVars, resultVars, vertexes, info, k, p, bucket, pc, countVars>>
    BY DEF PassOver, AtSuccessor
  <1>2. Kept
    BY <1>1 DEF Kept, graphVars, countVars
  <1>3. Tree /\ Walking /\ Fresh /\ FramesShape /\ Passed /\ OpenOrFinished /\ ActiveChain /\ ActiveSpan
    BY <1>1 DEF WalkInv, Walking
  <1>4. /\ Depth \in Nat \ {0} /\ Depth # 1 /\ DOMAIN stack = 1 .. Depth /\ DOMAIN stack' = 1 .. Depth
        /\ Len(stack') = Depth /\ 1 \in 1 .. Depth /\ Depth \in 1 .. Depth
        /\ \A j \in 1 .. Depth : /\ stack'[j].node = stack[j].node
                                 /\ j # Depth => stack'[j].it = stack[j].it
                                 /\ stack[j].it \in Nat \ {0} /\ stack[j].node \in Walked
        /\ stack'[Depth].it = Top.it + 1 /\ Top.it \in Nat \ {0}
        /\ stack' \in Seq([node : Blocks, it : Nat])
    BY <1>1, <1>3, StackFacts DEF PassOver, Calls
  <1>5. succ[Top.node][Top.it] \in Walked
    BY DEF PassOver, Calls, Successor, Walked
  <1>6. Walked' = Walked /\ (\A v : Above(v)' = Above(v) /\ Number(v)' = Number(v))
        /\ RootTwice' = RootTwice /\ succ' = succ /\ Parent' = Parent
    BY <1>2, KeptTree DEF Kept
  <1>7. FramesShape'
    <2>1. stack' # <<>> /\ stack'[1].node = Root
      BY <1>3, <1>4 DEF FramesShape
    <2>2. ASSUME NEW j \in 1 .. Depth PROVE stack'[j].it > 0 /\ stack'[j].node \in Walked
      BY <1>4
    <2> QED BY <1>4, <1>6, <2>1, <2>2 DEF FramesShape
  <1>8. Passed'
    <2>1. ASSUME NEW j \in 1 .. Depth, NEW m \in DOMAIN succ[stack[j].node], m < stack'[j].it
          PROVE  succ[stack[j].node][m] \in Walked
      <3>1. m \in Nat
        <4>1. succ[stack[j].node] \in Seq(Blocks)
          BY <1>4 DEF TypeOK, Walked
        <4> QED BY <4>1
      <3>2. CASE j = Depth
        <4>1. m = Top.it \/ m < stack[j].it
          BY <1>4, <2>1, <3>1, <3>2 DEF Top
        <4> QED BY <1>3, <1>4, <1>5, <3>2, <4>1 DEF Passed, Top
      <3>3. CASE j # Depth
        BY <1>3, <1>4, <2>1, <3>3 DEF Passed
      <3> QED BY <3>2, <3>3
    <2>2. \A m \in DOMAIN succ[Root] : m < stack'[1].it /\ succ[Root][m] = Root => RootTwice
      BY <1>3, <1>4 DEF Passed
    <2> QED BY <1>4, <1>6, <2>1, <2>2 DEF Passed
  <1>9. OpenOrFinished'
    BY <1>3, <1>4, <1>6 DEF OpenOrFinished, Finished
  <1>10. \A j \in 1 .. Depth : Above(stack[j].node)' = Above(stack[j].node)
    BY <1>4, <1>6
  <1>11. ActiveChain'
    <2>1. ASSUME NEW j \in 1 .. Depth, NEW m \in 1 .. Depth, j <= m
          PROVE  stack'[j].node \in Above(stack[m].node)'
      <3>1. PICK a, b : a = stack[j].node /\ b = stack[m].node
        OBVIOUS
      <3>2. a \in Above(b)
        BY <1>3, <1>4, <2>1, <3>1 DEF ActiveChain
      <3>3. Above(b)' = Above(b) /\ stack'[j].node = a /\ stack'[m].node = b
        BY <1>4, <1>6, <3>1
      <3> QED BY <3>2, <3>3
    <2> QED BY <1>4, <2>1 DEF ActiveChain
  <1>12. ActiveSpan'
    <2>1. \A a : Open(a)' = Open(a)
      BY <1>1, <1>6 DEF Spans, Open, AfterSeconds, Second
    <2>2. Finished(stack[2].node) /\ Depth = 2 => Finished(stack[2].node)'
      BY <1>4, <1>6 DEF Finished
    <2>3. \A j \in 1 .. Depth : \/ \A a \in Above(stack[j].node) : Open(a)
                                \/ j = 2 /\ Depth = 2 /\ Finished(stack[2].node)
      BY <1>3, <1>4 DEF ActiveSpan, Depth
    <2>4. \A j \in 1 .. Depth : \/ (\A a \in Above(stack[j].node) : Open(a))'
                                \/ j = 2 /\ Len(stack') = 2 /\ Finished(stack[2].node)'
      BY <1>4, <1>10, <2>1, <2>2, <2>3
    <2> QED BY <1>4, <2>4 DEF ActiveSpan
  <1>13. Fresh'
    BY <1>1, <1>3, <1>6 DEF Fresh
  <1>14. WalkInv'
    <2>1. InStep' /\ Tree'
      BY <1>2, <1>3, KeptTree DEF WalkInv
    <2> QED BY <1>1, <1>7, <1>8, <1>9, <1>11, <1>12, <1>13, <2>1 DEF WalkInv, Walking
  <1>15. TypeOK'
    BY <1>1, <1>4 DEF TypeOK, graphVars, resultVars, countVars
  <1> QED BY <1>14, <1>15

\* An activation ends when all successors of its block are numbered.
LEMMA ReturnWalk ==
    ASSUME TypeOK, WalkInv, Return
    PROVE  TypeOK' /\ WalkInv'
  <1>1. /\ pc = "dfs" /\ stack' = Front(stack) /\ Top.it > Len(succ[Top.node])
        /\ UNCHANGED <<graphVars, resultVars, vertexes, info, k, p, bucket, countVars>>
        /\ pc' = IF Depth = 1 THEN "forest" ELSE "dfs"
    BY DEF Return
  <1>2. Kept
    BY <1>1 DEF Kept, graphVars, countVars
  <1>3. Tree /\ Walking /\ Fresh /\ FramesShape /\ Passed /\ OpenOrFinished /\ ActiveChain /\ ActiveSpan
    BY <1>1 DEF WalkInv, Walking
  <1>4. /\ Depth \in Nat \ {0} /\ DOMAIN stack = 1 .. Depth
        /\ 1 \in 1 .. Depth /\ Depth \in 1 .. Depth
        /\ \A j \in 1 .. Depth : stack[j].it \in Nat \ {0} /\ stack[j].node \in Walked
        /\ Top.it \in Nat \ {0}
    BY <1>3, StackFacts
  <1>5. /\ stack' \in Seq([node : Blocks, it : Nat])
        /\ Len(stack') = Depth - 1 /\ DOMAIN stack' = 1 .. Depth - 1
        /\ \A j \in 1 .. Depth - 1 : stack'[j] = stack[j]
    <2>1. stack \in Seq([node : Blocks, it : Nat]) /\ stack # <<>>
      BY <1>3 DEF TypeOK, FramesShape
    <2> QED BY <1>1, <2>1, FrontEntries DEF Depth
  <1>6. Walked' = Walked /\ (\A v : Above(v)' = Above(v) /\ Number(v)' = Number(v))
        /\ RootTwice' = RootTwice /\ succ' = succ /\ Parent' = Parent /\ Tree' /\ InStep'
    BY <1>2, <1>3, KeptTree DEF Kept, WalkInv
  <1>7. \A m \in DOMAIN succ[Top.node] : m < Top.it /\ succ[Top.node][m] \in Walked
    <2>1. succ[Top.node] \in Seq(Blocks)
      BY <1>4 DEF TypeOK, Walked, Top
    <2>2. Len(succ[Top.node]) \in Nat /\ DOMAIN succ[Top.node] = 1 .. Len(succ[Top.node])
      BY <2>1
    <2>3. ASSUME NEW m \in DOMAIN succ[Top.node] PROVE m < Top.it
      BY <1>1, <1>4, <2>2
    <2> QED BY <1>3, <1>4, <2>3 DEF Passed, Top
  <1>8. Finished(Top.node)
    BY <1>7 DEF Finished, ToSet
  <1>9. TypeOK'
    BY <1>1, <1>5 DEF TypeOK, graphVars, resultVars, countVars, Phases
  <1>10. CASE Depth = 1
    <2>1. Top.node = Root /\ Top = stack[1]
      BY <1>3, <1>10 DEF Top, FramesShape
    <2>2. \A u \in Walked : Finished(u)
      BY <1>3, <1>4, <1>8, <1>10, <2>1 DEF OpenOrFinished, Top
    <2>3. Occurs(succ, Root, Root) => RootTwice
      BY <1>3, <1>7, <2>1 DEF Passed, Occurs, ToSet
    <2>4. AllWalked'
      BY <1>6, <2>2, <2>3 DEF AllWalked, Finished
    <2>5. Fresh'
      BY <1>1, <1>3, <1>6 DEF Fresh
    <2> QED BY <1>1, <1>6, <1>9, <1>10, <2>4, <2>5 DEF WalkInv
  <1>11. CASE Depth # 1
    <2>0. /\ 1 \in 1 .. Depth - 1
          /\ \A j \in 1 .. Depth - 1 : j \in 1 .. Depth /\ j # Depth
          /\ \A j \in 1 .. Depth : j = Depth \/ j \in 1 .. Depth - 1
      BY <1>4, <1>11
    <2>1. FramesShape'
      <3>1. stack'[1].node = Root /\ stack' # <<>>
        BY <1>3, <1>5, <2>0 DEF FramesShape
      <3>2. \A j \in 1 .. Depth - 1 : stack'[j].it > 0 /\ stack'[j].node \in Walked
        BY <1>3, <1>4, <1>5, <2>0 DEF FramesShape
      <3> QED BY <1>5, <1>6, <3>1, <3>2 DEF FramesShape
    <2>2. Passed'
      <3>1. \A j \in 1 .. Depth - 1 : \A m \in DOMAIN succ[stack[j].node] :
               m < stack[j].it => succ[stack[j].node][m] \in Walked
        BY <1>3, <1>4, <2>0 DEF Passed
      <3>2. \A m \in DOMAIN succ[Root] : m < stack'[1].it /\ succ[Root][m] = Root => RootTwice
        BY <1>3, <1>5, <2>0 DEF Passed
      <3> QED BY <1>5, <1>6, <3>1, <3>2 DEF Passed
    <2>3. OpenOrFinished'
      <3> SUFFICES ASSUME NEW u \in Walked, ~Finished(u)
                   PROVE  \E j \in DOMAIN stack' : stack'[j].node = u
        BY <1>6 DEF OpenOrFinished, Finished
      <3>1. PICK j \in 1 .. Depth : stack[j].node = u
        BY <1>3, <1>4 DEF OpenOrFinished
      <3>2. j # Depth
        BY <1>8, <3>1 DEF Top
      <3> QED BY <1>5, <2>0, <3>1, <3>2
    <2>4. \A j \in 1 .. Depth - 1 : Above(stack[j].node)' = Above(stack[j].node)
      BY <1>5, <1>6
    <2>5. ActiveChain'
      <3>1. \A j, m \in 1 .. Depth - 1 : j <= m => stack[j].node \in Above(stack[m].node)
        BY <1>3, <1>4, <2>0 DEF ActiveChain
      <3> QED BY <1>5, <2>4, <3>1 DEF ActiveChain
    <2>6. ActiveSpan'
      <3>1. \A a : Open(a)' = Open(a)
        BY <1>1, <1>6 DEF Spans, Open, AfterSeconds, Second
      <3>2. ASSUME NEW j \in 1 .. Depth - 1
            PROVE  \A a \in Above(stack[j].node) : Open(a)
        <4>1. ~(j = 2 /\ Depth = 2)
          BY <1>4
        <4> QED BY <1>3, <1>4, <2>0, <4>1 DEF ActiveSpan, Depth
      <3>3. \A j \in 1 .. Depth - 1 : (\A a \in Above(stack[j].node) : Open(a))'
        BY <2>4, <3>1, <3>2
      <3> QED BY <1>5, <3>3 DEF ActiveSpan
    <2>7. Fresh'
      BY <1>1, <1>3, <1>6 DEF Fresh
    <2> QED BY <1>1, <1>6, <1>9, <1>11, <2>1, <2>2, <2>3, <2>5, <2>6, <2>7 DEF WalkInv, Walking
  <1> QED BY <1>10, <1>11

\* What AddSuccWithPredec and RemoveSuccWithPredec do to edges in step.
LEMMA EditTyped ==
    ASSUME TypeOK, NEW kind \in {"added", "removed"}, Edit(kind),
           succ' \in [Blocks -> Seq(Blocks)], predec' \in [Blocks -> Seq(Blocks)]
    PROVE  TypeOK'
  <1>1. /\ UNCHANGED <<resultVars, vertexes, info, stack, k, p, bucket, runs>>
        /\ edits' = edits + 1 /\ edits < plan.edits /\ pc' = "start"
        /\ plan' = [plan EXCEPT !.kinds = @ \cup {kind}]
    BY DEF Edit
  <1>2. plan \in [runs : Nat, edits : Nat, among : SUBSET Blocks, kinds : SUBSET {"added", "removed"}]
        /\ edits \in 0 .. plan.edits /\ runs \in 0 .. plan.runs
    BY DEF TypeOK
  <1>3. /\ plan' \in [runs : Nat, edits : Nat, among : SUBSET Blocks, kinds : SUBSET {"added", "removed"}]
        /\ plan'.edits = plan.edits /\ plan'.runs = plan.runs
    BY <1>1, <1>2
  <1>4. edits' \in 0 .. plan'.edits /\ runs' \in 0 .. plan'.runs
    BY <1>1, <1>2, <1>3
  <1> QED BY <1>1, <1>3, <1>4 DEF TypeOK, resultVars, Phases

\* AddEdge and RemoveEdge between two runs leave both vectors in step.
LEMMA EditWalk ==
    ASSUME TypeOK, WalkInv, Edits
    PROVE  TypeOK' /\ WalkInv'
  <1>0. PICK from, to \in plan.among : AddEdge(from, to) \/ RemoveEdge(from, to)
    BY DEF Edits
  <1>1. PICK kind \in {"added", "removed"} : Edit(kind)
    BY <1>0 DEF AddEdge, RemoveEdge
  <1>2. /\ from \in Blocks /\ to \in Blocks
        /\ plan.edits \in Nat /\ edits \in Nat /\ edits < plan.edits
        /\ plan' = [plan EXCEPT !.kinds = @ \cup {kind}] /\ pc' = "start"
        /\ succ \in [Blocks -> Seq(Blocks)] /\ predec \in [Blocks -> Seq(Blocks)]
    BY <1>1 DEF TypeOK, Edit
  <1>3. plan.edits > 0
    BY <1>2
  <1>4. /\ \A u \in Blocks : NoDuplicates(succ[u]) /\ NoDuplicates(predec[u])
        /\ \A u, v \in Blocks : v \in ToSet(succ[u]) <=> u \in ToSet(predec[v])
    BY <1>2, <1>3 DEF WalkInv, InStep, MirroredEdges, Occurs
  <1>5. CASE AddEdge(from, to)
    <2>1. /\ succ' = [succ EXCEPT ![from] = Append(succ[from], to)]
          /\ predec' = [predec EXCEPT ![to] = Append(predec[to], from)]
          /\ to \notin ToSet(succ[from])
      BY <1>2, <1>5 DEF AddEdge, PushBack, Occurs
    <2>2. from \notin ToSet(predec[to])
      BY <1>2, <1>4, <2>1
    <2>3. /\ Append(succ[from], to) \in Seq(Blocks) /\ Append(predec[to], from) \in Seq(Blocks)
          /\ ToSet(Append(succ[from], to)) = ToSet(succ[from]) \cup {to}
          /\ ToSet(Append(predec[to], from)) = ToSet(predec[to]) \cup {from}
      BY <1>2, AppendEntries
    <2>4. NoDuplicates(Append(succ[from], to)) /\ NoDuplicates(Append(predec[to], from))
      BY <1>2, <1>4, <2>1, <2>2, PushKeepsDistinct
    <2>5. /\ succ' \in [Blocks -> Seq(Blocks)] /\ predec' \in [Blocks -> Seq(Blocks)]
          /\ \A u \in Blocks : NoDuplicates(succ'[u]) /\ NoDuplicates(predec'[u])
      BY <1>2, <1>4, <2>1, <2>3, <2>4
    <2>6. \A u, v \in Blocks : v \in ToSet(succ'[u]) <=> u \in ToSet(predec'[v])
      BY <1>2, <1>4, <2>1, <2>3
    <2>7. InStep'
      BY <2>5, <2>6 DEF InStep, MirroredEdges, Occurs
    <2> QED BY <1>1, <1>2, <2>5, <2>7, EditTyped DEF WalkInv
  <1>6. CASE RemoveEdge(from, to)
    <2>1. /\ succ' = [succ EXCEPT ![from] = Front(succ[from])]
          /\ predec' = [predec EXCEPT ![to] = Front(predec[to])]
          /\ to \in ToSet(succ[from]) /\ Last(succ[from]) = to /\ Last(predec[to]) = from
      BY <1>2, <1>6 DEF RemoveEdge, PopBack, Occurs
    <2>2. from \in ToSet(predec[to])
      BY <1>2, <1>4, <2>1
    <2>3. succ[from] # <<>> /\ predec[to] # <<>>
      BY <2>1, <2>2 DEF ToSet
    <2>4. /\ Front(succ[from]) \in Seq(Blocks) /\ Front(predec[to]) \in Seq(Blocks)
      BY <1>2, <2>3, FrontEntries
    <2>5. /\ NoDuplicates(Front(succ[from])) /\ NoDuplicates(Front(predec[to]))
          /\ ToSet(Front(succ[from])) = ToSet(succ[from]) \ {to}
          /\ ToSet(Front(predec[to])) = ToSet(predec[to]) \ {from}
      BY <1>2, <1>4, <2>1, <2>3, PopKeepsDistinct
    <2>6. /\ succ' \in [Blocks -> Seq(Blocks)] /\ predec' \in [Blocks -> Seq(Blocks)]
          /\ \A u \in Blocks : NoDuplicates(succ'[u]) /\ NoDuplicates(predec'[u])
      BY <1>2, <1>4, <2>1, <2>4, <2>5
    <2>7. \A u, v \in Blocks : v \in ToSet(succ'[u]) <=> u \in ToSet(predec'[v])
      BY <1>2, <1>4, <2>1, <2>5
    <2>8. InStep'
      BY <2>6, <2>7 DEF InStep, MirroredEdges, Occurs
    <2> QED BY <1>1, <1>2, <2>6, <2>8, EditTyped DEF WalkInv
  <1> QED BY <1>0, <1>5, <1>6

-----------------------------------------------------------------------------
(* Compress.                                                               *)

\* The recursion of Compress has a solution when numbers grow away from the
\* ancestors: the least number up to which there is none would be a
\* contradiction.
LEMMA CompressUnfolds ==
    ASSUME NEW inf, NEW num, NEW bound \in Nat,
           \A v \in DOMAIN inf :
              /\ num[v] \in Nat /\ num[v] < bound
              /\ inf[v].ancestor # Null =>
                    inf[v].ancestor \in DOMAIN inf /\ num[inf[v].ancestor] < num[v]
    PROVE  \A v \in DOMAIN inf : Compressed(inf)[v] =
              IF Stays(inf, v) THEN inf[v] ELSE Hung(inf, v, Compressed(inf)[inf[v].ancestor])
  <1> DEFINE D == DOMAIN inf
             Turn(f, v) == IF Stays(inf, v) THEN inf[v] ELSE Hung(inf, v, f[inf[v].ancestor])
             UpTo(n) == \E f : \A v \in D : num[v] < n => f[v] = Turn(f, v)
             T == {n \in Nat : ~UpTo(n)}
  <1>1. ASSUME NEW f, NEW g, NEW v \in D, \A x \in D : num[x] < num[v] => f[x] = g[x]
        PROVE  Turn(f, v) = Turn(g, v)
    BY <1>1 DEF Stays
  <1>2. \A v \in D : num[v] \in Nat /\ num[v] < bound
    OBVIOUS
  <1> HIDE DEF D, Turn
  <1>3. UpTo(0)
    <2>1. \A v \in D : ~(num[v] < 0)
      BY <1>2
    <2> QED BY <2>1
  <1>4. ASSUME NEW n \in Nat, UpTo(n) PROVE UpTo(n + 1)
    <2>1. PICK f : \A v \in D : num[v] < n => f[v] = Turn(f, v)
      BY <1>4
    <2> DEFINE g == [v \in D |-> IF num[v] < n THEN f[v] ELSE Turn(f, v)]
    <2>2. \A v \in D : g[v] = IF num[v] < n THEN f[v] ELSE Turn(f, v)
      OBVIOUS
    <2> HIDE DEF g
    <2>3. ASSUME NEW v \in D, num[v] < n + 1 PROVE g[v] = Turn(g, v)
      <3>1. g[v] = Turn(f, v)
        BY <2>1, <2>2
      <3>2. \A x \in D : num[x] < num[v] => f[x] = g[x]
        BY <1>2, <2>2, <2>3
      <3>3. Turn(f, v) = Turn(g, v)
        BY <1>1, <3>2
      <3> QED BY <3>1, <3>3
    <2> QED BY <2>3
  <1>5. UpTo(bound)
    <2> HIDE DEF UpTo
    <2> SUFFICES ASSUME T # {} PROVE FALSE
      OBVIOUS
    <2>1. T \in SUBSET Nat
      OBVIOUS
    <2>2. PICK n \in T : \A m \in T : n <= m
      <3> HIDE DEF T
      <3> QED BY <2>1, LeastNat
    <2>3. n \in Nat /\ ~UpTo(n) /\ n # 0
      BY <1>3, <2>2
    <2>4. n - 1 \in Nat /\ (n - 1) + 1 = n /\ ~(n <= n - 1)
      BY <2>3
    <2>5. UpTo(n - 1)
      BY <2>2, <2>4
    <2> QED BY <1>4, <2>3, <2>4, <2>5
  <1>6. PICK f : \A v \in D : f[v] = Turn(f, v)
    BY <1>2, <1>5
  <1> DEFINE g == [v \in D |-> Turn(f, v)]
  <1>7. \A v \in D : g[v] = f[v]
    BY <1>6
  <1>8. \A v \in D : Turn(g, v) = Turn(f, v)
    <2> HIDE DEF g
    <2> QED BY <1>1, <1>7
  <1>9. g = [v \in D |-> Turn(g, v)]
    BY <1>8
  <1>10. Compressed(inf) = CHOOSE C : C = [v \in D |-> Turn(C, v)]
    BY DEF Compressed, D, Turn
  <1> HIDE DEF g
  <1>11. Compressed(inf) = [v \in D |-> Turn(Compressed(inf), v)]
    BY <1>9, <1>10
  <1>12. \A v \in D : Compressed(inf)[v] = Turn(Compressed(inf), v)
    BY <1>11
  <1> QED BY <1>12 DEF D, Turn

\* Two stretches of the way up, one hung on the other.
LEMMA HangsJoin ==
    ASSUME TypeOK, NumbersShape, TreeShape, NEW v \in Walked, NEW a, NEW lv, NEW r, NEW la,
           Hangs(v, a, lv), Hangs(a, r, la)
    PROVE  Hangs(v, r, IF Semi(la) < Semi(lv) THEN la ELSE lv)
  <1>1. /\ a \in Above(v) /\ a \in Walked /\ a # v /\ r \in Above(a) /\ r # a
        /\ lv \in Above(v) /\ lv \notin Above(a) /\ la \in Above(a) /\ la \notin Above(r)
    BY TreeFacts DEF Hangs, Between
  <1>2. /\ Above(a) \subseteq Above(v) /\ Above(r) \subseteq Above(a)
        /\ r \in Above(v) /\ r \in Walked /\ lv \in Walked /\ la \in Walked
    BY <1>1, TreeFacts
  <1>3. r # v
    <2>1. Number(r) < Number(a) /\ Number(a) < Number(v)
      BY <1>1, TreeFacts
    <2>2. Number(r) \in Nat /\ Number(a) \in Nat /\ Number(v) \in Nat
      BY <1>1, <1>2, NumberFacts
    <2> QED BY <2>1, <2>2
  <1>4. Between(v, r) = Between(v, a) \cup Between(a, r)
    BY <1>2 DEF Between
  <1>5. \A x \in Walked : Semi(x) \in Nat
    BY DEF TypeOK, Walked, Semi, Infos
  <1>6. a \in Above(lv)
    <2>1. Number(a) \in Nat /\ Number(lv) \in Nat
      BY <1>1, <1>2, NumberFacts
    <2>2. ~(Number(lv) <= Number(a))
      BY <1>1, TreeFacts
    <2>3. Number(a) <= Number(lv)
      BY <2>1, <2>2
    <2> QED BY <1>1, <2>3, TreeFacts
  <1>7. Above(a) \subseteq Above(lv)
    BY <1>2, <1>6, TreeFacts
  <1>8. /\ \A x \in Between(v, a) : /\ Linked(x) /\ Semi(lv) <= Semi(x)
                                    /\ x \notin Above(lv) => Semi(lv) < Semi(x)
        /\ \A x \in Between(a, r) : /\ Linked(x) /\ Semi(la) <= Semi(x)
                                    /\ x \notin Above(la) => Semi(la) < Semi(x)
        /\ lv \in Between(v, a) /\ la \in Between(a, r)
    BY DEF Hangs
  <1>9. \A x \in Between(v, r) : x \in Walked
    BY TreeFacts DEF Between
  <1>10. CASE Semi(la) < Semi(lv)
    <2> SUFFICES ASSUME NEW x \in Between(v, r)
                 PROVE  /\ Linked(x) /\ Semi(la) <= Semi(x)
                        /\ x \notin Above(la) => Semi(la) < Semi(x)
      BY <1>2, <1>3, <1>4, <1>8, <1>10 DEF Hangs
    <2>1. CASE x \in Between(a, r)
      BY <1>8, <2>1
    <2>2. CASE x \in Between(v, a)
      <3>1. Linked(x) /\ Semi(lv) <= Semi(x)
        BY <1>8, <2>2
      <3> QED BY <1>2, <1>5, <1>9, <1>10, <3>1
    <2> QED BY <1>4, <2>1, <2>2
  <1>11. CASE ~(Semi(la) < Semi(lv))
    <2> SUFFICES ASSUME NEW x \in Between(v, r)
                 PROVE  /\ Linked(x) /\ Semi(lv) <= Semi(x)
                        /\ x \notin Above(lv) => Semi(lv) < Semi(x)
      BY <1>2, <1>3, <1>4, <1>8, <1>11 DEF Hangs
    <2>1. CASE x \in Between(v, a)
      BY <1>8, <2>1
    <2>2. CASE x \in Between(a, r)
      <3>1. Linked(x) /\ Semi(la) <= Semi(x)
        BY <1>8, <2>2
      <3>2. x \in Above(lv)
        BY <1>7, <2>2 DEF Between
      <3> QED BY <1>2, <1>5, <1>9, <1>11, <3>1, <3>2
    <2> QED BY <1>4, <2>1, <2>2
  <1> QED BY <1>10, <1>11

\* Compress hangs a linked block below the root of its tree.
Shortened(v, c) ==
    \E r, l : /\ Hangs(v, r, l) /\ ~Linked(r)
              /\ c = [info[v] EXCEPT !.label = l, !.ancestor = r]

\* Compress hangs a linked block below the root of its tree in the forest,
\* with the lowest best label on the way, and changes no other block.
LEMMA CompressFacts ==
    ASSUME TypeOK, NumbersShape, TreeShape, ForestShape
    PROVE  \A v \in Walked :
              /\ ~Linked(v) => Compressed(info)[v] = info[v]
              /\ Linked(v) => Shortened(v, Compressed(info)[v])
  <1> DEFINE C == Compressed(info)
             num == [v \in Walked |-> Number(v)]
             Right(v) == (~Linked(v) => C[v] = info[v]) /\ (Linked(v) => Shortened(v, C[v]))
             T == {num[v] : v \in {x \in Walked : ~Right(x)}}
  <1>1. \A v \in Walked : Number(v) \in Nat /\ Number(v) < Len(vertexes) /\ num[v] = Number(v)
    BY NumberFacts
  <1>2. ASSUME NEW v \in Walked, Linked(v)
        PROVE  /\ Hangs(v, info[v].ancestor, info[v].label)
               /\ info[v].ancestor \in Walked /\ Number(info[v].ancestor) < Number(v)
    <2>1. Hangs(v, info[v].ancestor, info[v].label)
      BY <1>2 DEF ForestShape
    <2> QED BY <2>1, TreeFacts DEF Hangs
  <1>3. \A v \in Walked : C[v] = IF Stays(info, v) THEN info[v] ELSE Hung(info, v, C[info[v].ancestor])
    <2>1. Len(vertexes) \in Nat
      BY NumberFacts
    <2>2. \A v \in DOMAIN info :
              /\ num[v] \in Nat /\ num[v] < Len(vertexes)
              /\ info[v].ancestor # Null =>
                    info[v].ancestor \in DOMAIN info /\ num[info[v].ancestor] < num[v]
      BY <1>1, <1>2 DEF Walked, Linked
    <2> HIDE DEF num
    <2> QED BY <2>1, <2>2, CompressUnfolds DEF Walked
  <1> HIDE DEF C, num
  <1>4. ASSUME NEW v \in Walked, \A u \in Walked : num[u] < num[v] => Right(u)
        PROVE  Right(v)
    <2>1. CASE ~Linked(v)
      BY <1>3, <2>1 DEF Stays, Linked
    <2>2. CASE Linked(v)
      <3> DEFINE a == info[v].ancestor
                 lv == info[v].label
      <3>1. Hangs(v, a, lv) /\ a \in Walked /\ num[a] < num[v]
        BY <1>1, <1>2, <2>2
      <3>2. info[v] \in Infos
        BY DEF TypeOK, Walked
      <3>3. CASE ~Linked(a)
        <4>1. C[v] = info[v]
          BY <1>3, <3>3 DEF Stays, Linked
        <4>2. info[v] = [info[v] EXCEPT !.label = lv, !.ancestor = a]
          BY <3>2 DEF Infos
        <4> HIDE DEF a, lv
        <4> QED BY <2>2, <3>1, <3>3, <4>1, <4>2 DEF Shortened
      <3>4. CASE Linked(a)
        <4>1. PICK r, la : /\ Hangs(a, r, la) /\ ~Linked(r)
                           /\ C[a] = [info[a] EXCEPT !.label = la, !.ancestor = r]
          BY <1>4, <3>1, <3>4 DEF Shortened
        <4>2. C[a].label = la /\ C[a].ancestor = r
          <5>1. info[a] \in Infos
            BY <3>1 DEF TypeOK, Walked
          <5> QED BY <4>1, <5>1 DEF Infos
        <4>3. C[v] = Hung(info, v, C[a])
          BY <1>3, <2>2, <3>4 DEF Stays, Linked
        <4>4. C[v] = [info[v] EXCEPT !.label = IF Semi(la) < Semi(lv) THEN la ELSE lv, !.ancestor = r]
          BY <4>2, <4>3 DEF Hung, Semi
        <4>5. Hangs(v, r, IF Semi(la) < Semi(lv) THEN la ELSE lv)
          BY <3>1, <4>1, HangsJoin
        <4> QED BY <2>2, <4>1, <4>4, <4>5 DEF Shortened
      <3> QED BY <3>3, <3>4
    <2> QED BY <2>1, <2>2
  <1> HIDE DEF Right
  <1>5. T = {}
    <2> SUFFICES ASSUME T # {} PROVE FALSE
      OBVIOUS
    <2>1. T \in SUBSET Nat
      BY <1>1
    <2>2. PICK n \in T : \A m \in T : n <= m
      <3> HIDE DEF T
      <3> QED BY <2>1, LeastNat
    <2>3. PICK v \in Walked : ~Right(v) /\ num[v] = n
      BY <2>2
    <2>4. ASSUME NEW u \in Walked, num[u] < num[v] PROVE Right(u)
      <3>1. num[u] \in Nat /\ num[v] \in Nat /\ ~(num[v] <= num[u])
        BY <1>1, <2>4
      <3>2. ~Right(u) => num[u] \in T
        OBVIOUS
      <3> QED BY <2>2, <2>3, <3>1, <3>2
    <2> QED BY <1>4, <2>3, <2>4
  <1>6. \A v \in Walked : Right(v)
    BY <1>5
  <1> QED BY <1>6 DEF Right, C

\* Eval changes ancestors and labels only, and keeps the shape of the forest.
Reshaped(inf) ==
    /\ DOMAIN inf = Walked
    /\ \A x \in Walked :
          /\ inf[x] \in Infos
          /\ inf[x].semi = info[x].semi /\ inf[x].parent = info[x].parent
          /\ inf[x].dom = info[x].dom /\ inf[x].bucket = info[x].bucket
          /\ ~Linked(x) => inf[x].ancestor = Null /\ inf[x].label = info[x].label
          /\ Linked(x) => inf[x].ancestor # Null /\ Hangs(x, inf[x].ancestor, inf[x].label)

\* Eval finds the lowest block with the least semidominator below the root of
\* the tree, or the root itself.
Evaluated(u, l) ==
    \/ ~Linked(u) /\ l = u
    \/ Linked(u) /\ \E r : Hangs(u, r, l) /\ ~Linked(r)

\* Eval changes labels and ancestors only, and returns the block with the
\* least semidominator among the linked ones from u up to its root.
LEMMA EvalFacts ==
    ASSUME TypeOK, NumbersShape, TreeShape, ForestShape, NEW u \in Walked
    PROVE  Reshaped(EvalInfo(info, u)) /\ Evaluated(u, Eval(info, u))
  <1>1. \A v \in Walked :
           /\ ~Linked(v) => Compressed(info)[v] = info[v]
           /\ Linked(v) => Shortened(v, Compressed(info)[v])
    BY CompressFacts
  <1>2. \A v \in Walked : info[v] \in Infos
    BY DEF TypeOK, Walked
  <1>3. Walked \subseteq Blocks /\ Null \notin Walked
    BY CfgAssumption DEF TypeOK, Walked
  <1>4. ASSUME NEW x \in Walked, Linked(x), NEW c, Shortened(x, c)
        PROVE  /\ c \in Infos /\ c.semi = info[x].semi /\ c.parent = info[x].parent
               /\ c.dom = info[x].dom /\ c.bucket = info[x].bucket
               /\ c.ancestor # Null /\ ~Linked(c.ancestor) /\ Hangs(x, c.ancestor, c.label)
    <2>1. PICK r, l : /\ Hangs(x, r, l) /\ ~Linked(r)
                      /\ c = [info[x] EXCEPT !.label = l, !.ancestor = r]
      BY <1>4 DEF Shortened
    <2>2. r \in Walked /\ l \in Walked
      BY <2>1, TreeFacts DEF Hangs, Between
    <2>3. r \in MaybeBlock /\ l \in MaybeBlock /\ r # Null
      BY <1>3, <2>2 DEF MaybeBlock
    <2>4. info[x] \in Infos
      BY <1>2
    <2>5. /\ c \in Infos /\ c.semi = info[x].semi /\ c.parent = info[x].parent
          /\ c.dom = info[x].dom /\ c.bucket = info[x].bucket
          /\ c.ancestor = r /\ c.label = l
      BY <2>1, <2>3, <2>4 DEF Infos
    <2> QED BY <2>1, <2>3, <2>5
  <1>5. Reshaped(EvalInfo(info, u))
    <2> DEFINE inf == EvalInfo(info, u)
    <2>1. DOMAIN inf = Walked /\ \A x \in Walked : inf[x] = info[x] \/ inf[x] = Compressed(info)[x]
      BY DEF EvalInfo, Walked
    <2> HIDE DEF inf
    <2>2. ASSUME NEW x \in Walked
          PROVE  /\ inf[x] \in Infos
                 /\ inf[x].semi = info[x].semi /\ inf[x].parent = info[x].parent
                 /\ inf[x].dom = info[x].dom /\ inf[x].bucket = info[x].bucket
                 /\ ~Linked(x) => inf[x].ancestor = Null /\ inf[x].label = info[x].label
                 /\ Linked(x) => inf[x].ancestor # Null /\ Hangs(x, inf[x].ancestor, inf[x].label)
      <3>1. CASE inf[x] = info[x]
        BY <1>2, <3>1 DEF Linked, ForestShape
      <3>2. CASE inf[x] = Compressed(info)[x] /\ ~Linked(x)
        BY <1>1, <1>2, <3>2 DEF Linked
      <3>3. CASE inf[x] = Compressed(info)[x] /\ Linked(x)
        BY <1>1, <1>4, <3>3
      <3> QED BY <2>1, <3>1, <3>2, <3>3
    <2> QED BY <2>1, <2>2 DEF Reshaped, inf
  <1>6. Evaluated(u, Eval(info, u))
    <2>1. CASE ~Linked(u)
      BY <2>1 DEF Evaluated, Eval, Linked
    <2>2. CASE Linked(u)
      <3>1. Eval(info, u) = Compressed(info)[u].label
        BY <2>2 DEF Eval, Linked
      <3>2. Shortened(u, Compressed(info)[u])
        BY <1>1, <2>2
      <3> QED BY <1>4, <2>2, <3>1, <3>2 DEF Evaluated
    <2> QED BY <2>1, <2>2
  <1> QED BY <1>5, <1>6

-----------------------------------------------------------------------------
(* The tree and the semidominators.                                        *)

\* Blocks between w and s are below the child of s on the way.
LEMMA BetweenChild ==
    ASSUME TypeOK, NumbersShape, TreeShape, NEW w \in Walked, NEW c \in Above(w) \ {Root},
           NEW x \in Between(w, Parent[c])
    PROVE  c \in Above(x) /\ Number(c) <= Number(x) /\ x \in Walked
  <1>1. c \in Walked /\ x \in Walked /\ x \in Above(w) /\ x \notin Above(Parent[c])
    BY TreeFacts DEF Between
  <1>2. Number(c) \in Nat /\ Number(x) \in Nat
    BY <1>1, NumberFacts
  <1>3. Above(c) = {c} \cup Above(Parent[c])
    BY <1>1, TreeFacts
  <1>4. CASE Number(c) <= Number(x)
    BY <1>1, <1>4, TreeFacts
  <1>5. CASE Number(x) <= Number(c)
    <2>1. x \in Above(c)
      BY <1>1, <1>5, TreeFacts
    <2>2. x = c
      BY <1>1, <1>3, <2>1
    <2> QED BY <1>1, <1>2, <2>2, TreeFacts
  <1> QED BY <1>2, <1>4, <1>5

\* The semidominator of a block is the number of a block above it.
LEMMA SemiFacts ==
    ASSUME TypeOK, NumbersShape, TreeShape, SemiAbove, NEW v \in Walked
    PROVE  /\ Semi(v) \in Nat /\ Semi(v) <= Number(v)
           /\ SemiBlock(v) \in Above(v) /\ SemiBlock(v) \in Walked
           /\ Number(SemiBlock(v)) = Semi(v)
  <1>1. PICK y \in Above(v) : Semi(v) = Number(y)
    BY DEF SemiAbove
  <1>2. y \in Walked /\ Number(y) <= Number(v)
    BY TreeFacts
  <1>3. Number(y) \in Nat /\ vertexes[Number(y) + 1] = y
    BY <1>2, NumberFacts
  <1> QED BY <1>1, <1>2, <1>3 DEF SemiBlock, Numbered

\* The parent is a predecessor, so a semidominator is a proper ancestor.
LEMMA SemiBelow ==
    ASSUME TypeOK, InStep, NumbersShape, TreeShape, Semis, NEW w \in Walked \ {Root}, Linked(w)
    PROVE  /\ Semi(w) < Number(w) /\ SemiBlock(w) # w
           /\ \E c \in Above(w) \ {Root} : Parent[c] = SemiBlock(w)
  <1>1. Parent[w] \in Walked /\ Number(Parent[w]) < Number(w) /\ Occurs(succ, Parent[w], w)
    BY DEF TreeShape
  <1>2. Parent[w] \in ToSet(predec[w])
    BY <1>1 DEF InStep, Occurs, TypeOK, Walked
  <1>3. Semi(w) <= Number(Parent[w])
    BY <1>2 DEF Semis, PredecsBound
  <1>4. Semi(w) \in Nat /\ SemiBlock(w) \in Above(w) /\ Number(SemiBlock(w)) = Semi(w)
    BY SemiFacts DEF Semis
  <1>5. Number(w) \in Nat /\ Number(Parent[w]) \in Nat
    BY <1>1, NumberFacts
  <1>6. Semi(w) < Number(w)
    BY <1>1, <1>3, <1>4, <1>5
  <1>7. SemiBlock(w) # w
    BY <1>4, <1>5, <1>6
  <1> QED BY <1>4, <1>6, <1>7, TreeFacts

\* A block that is linked before its turn has the root as its semidominator.
LEMMA TurnFacts ==
    ASSUME TypeOK, WalkInv, ForestInv, pc \in {"preds", "bucket"}
    PROVE  /\ k \in Nat /\ k >= 2 /\ k \in DOMAIN vertexes
           /\ Vertex \in Walked /\ Number(Vertex) \in Nat /\ Number(Vertex) <= k - 1
           /\ Number(Vertex) # k - 1 => Split(k) /\ Root \in ToSet(predec[Vertex])
           /\ \A w \in Walked : Handled(Number(w) + 1) => Linked(w)
           /\ \A w \in Walked : Linked(w) /\ ~Handled(Number(w) + 1) => Semi(w) = 0
  <1>0. NumbersShape /\ TreeShape /\ SecondNumbers /\ InStep
        /\ LinkedWhenHandled /\ SemiAbove /\ PredecsBound
    BY DEF WalkInv, Tree, ForestInv, Semis
  <1>1. /\ k \in 2 .. Len(vertexes) /\ DOMAIN vertexes = 1 .. Len(vertexes)
        /\ Len(vertexes) \in Nat
    BY DEF ForestInv, TypeOK
  <1>2. k \in Nat /\ k >= 2 /\ k \in DOMAIN vertexes
    BY <1>1
  <1>3. /\ \A v \in Walked : /\ Number(v) \in Nat /\ Number(v) < Len(vertexes)
                             /\ vertexes[Number(v) + 1] = v
        /\ \A j \in DOMAIN vertexes : vertexes[j] \in Walked /\ Number(vertexes[j]) <= j - 1
        /\ Number(Root) = 0
    BY <1>0, <1>1, NumberFacts
  <1>4. Vertex \in Walked /\ Number(Vertex) \in Nat /\ Number(Vertex) <= k - 1
    BY <1>2, <1>3 DEF Vertex
  <1>5. ASSUME NEW j \in DOMAIN vertexes, Number(vertexes[j]) # j - 1
        PROVE  Split(j) /\ Root \in ToSet(predec[vertexes[j]])
    <2>1. Occurs(succ, Root, vertexes[j]) /\ Split(j)
      BY <1>0, <1>5 DEF SecondNumbers, Second
    <2>2. Root \in Blocks /\ vertexes[j] \in Blocks
      BY <1>3, CfgAssumption DEF TypeOK, Walked
    <2> QED BY <1>0, <2>1, <2>2 DEF InStep, Occurs
  <1>6. ASSUME NEW w \in Walked, Handled(Number(w) + 1) PROVE Linked(w)
    <2>1. Number(w) + 1 \in DOMAIN vertexes
      BY <1>1, <1>3
    <2> QED BY <1>0, <1>3, <1>6, <2>1 DEF LinkedWhenHandled
  <1>7. ASSUME NEW w \in Walked, Linked(w), ~Handled(Number(w) + 1) PROVE Semi(w) = 0
    <2>1. PICK j \in DOMAIN vertexes : Handled(j) /\ vertexes[j] = w
      BY <1>0, <1>7 DEF LinkedWhenHandled
    <2>2. Number(w) # j - 1
      <3>1. j \in Nat
        BY <1>1
      <3> QED BY <1>7, <2>1, <3>1
    <2>3. Root \in ToSet(predec[w])
      BY <1>5, <2>1, <2>2
    <2>4. Semi(w) <= Number(Root)
      BY <1>0, <1>7, <2>3 DEF PredecsBound
    <2>5. Semi(w) \in Nat
      BY <1>0, SemiFacts
    <2> QED BY <1>3, <2>4, <2>5
  <1> QED BY <1>2, <1>4, <1>5, <1>6, <1>7 DEF Vertex

-----------------------------------------------------------------------------
(* The steps of the loop over the vertexes.                                *)

\* Nothing is linked yet and every semidominator is the block's own number.
LEMMA MakeForestStep ==
    ASSUME IInv, MakeForest
    PROVE  IInv'
  <1>0. /\ TypeOK /\ WalkInv /\ pc = "forest" /\ Fresh /\ Tree /\ NumbersShape /\ TreeShape /\ InStep
    BY DEF IInv, MakeForest, WalkInv, Tree
  <1>1. /\ info' = [v \in DOMAIN info |-> [info[v] EXCEPT !.ancestor = Null, !.label = v]]
        /\ UNCHANGED <<graphVars, resultVars, vertexes, stack, bucket, countVars>>
        /\ p' = 1
        /\ IF Len(vertexes) = 1 THEN pc' = "step4" /\ k' = 2 ELSE pc' = "preds" /\ k' = Len(vertexes)
    BY DEF MakeForest
  <1>2. /\ Len(vertexes) \in Nat \ {0} /\ DOMAIN vertexes = 1 .. Len(vertexes)
        /\ \A v \in Walked : Number(v) \in Nat
        /\ \A j \in 1 .. Len(vertexes) : vertexes[j] \in Walked
        /\ vertexes \in Seq(Blocks) /\ Walked \subseteq Blocks
    <2>1. vertexes \in Seq(Blocks)
      BY <1>0 DEF TypeOK
    <2> QED BY <1>0, <2>1, NumberFacts
  <1>3. \A v \in Walked : info[v] = NewInfo(Number(v), Parent[v]) /\ info[v] \in Infos
    BY <1>0 DEF Fresh, TypeOK, Walked
  <1>4. /\ DOMAIN info' = Walked
        /\ \A v \in Walked :
              /\ info'[v].ancestor = Null /\ info'[v].label = v /\ info'[v].semi = Number(v)
              /\ info'[v].parent = info[v].parent /\ info'[v].bucket = <<>>
    <2>1. ASSUME NEW v \in Walked
          PROVE  /\ info'[v].ancestor = Null /\ info'[v].label = v /\ info'[v].semi = Number(v)
                 /\ info'[v].parent = info[v].parent /\ info'[v].bucket = <<>>
      <3>1. info'[v] = [info[v] EXCEPT !.ancestor = Null, !.label = v]
        BY <1>1 DEF Walked
      <3>2. info[v] \in Infos /\ info[v].semi = Number(v) /\ info[v].bucket = <<>>
        <4>1. /\ NewInfo(Number(v), Parent[v]).semi = Number(v)
              /\ NewInfo(Number(v), Parent[v]).bucket = <<>>
          BY DEF NewInfo
        <4> QED BY <1>3, <4>1
      <3> QED BY <3>1, <3>2 DEF Infos
    <2> QED BY <1>1, <2>1 DEF Walked
  <1>5. \A v \in Walked : info'[v] \in Infos
    <2> SUFFICES ASSUME NEW v \in Walked PROVE info'[v] \in Infos
      OBVIOUS
    <2>1. info'[v] = [info[v] EXCEPT !.ancestor = Null, !.label = v] /\ info[v] \in Infos
      BY <1>1, <1>3 DEF Walked
    <2>2. v \in MaybeBlock /\ Null \in MaybeBlock
      BY <1>2 DEF MaybeBlock
    <2> QED BY <2>1, <2>2 DEF Infos
  <1>6. Kept
    BY <1>1, <1>4 DEF Kept, graphVars, countVars, Walked
  <1>7. /\ Walked' = Walked /\ Parent' = Parent /\ RootTwice' = RootTwice
        /\ \A v : Above(v)' = Above(v) /\ Number(v)' = Number(v)
    BY <1>6, KeptTree
  <1>8. WalkInv'
    BY <1>0, <1>1, <1>6, KeptWalk
  <1>9. TypeOK'
    <2>1. DOMAIN info' \subseteq Blocks /\ \A v \in DOMAIN info' : info'[v] \in Infos
      BY <1>0, <1>4, <1>5 DEF TypeOK, Walked
    <2>2. k' \in Nat /\ p' \in Nat /\ pc' \in Phases
      <3>1. k' \in {2, Len(vertexes)} /\ pc' \in {"step4", "preds"} /\ p' = 1
        BY <1>1
      <3>2. k' \in Nat
        BY <1>2, <3>1
      <3>3. pc' \in Phases
        BY <3>1 DEF Phases
      <3> QED BY <3>1, <3>2, <3>3
    <2> QED BY <1>0, <1>1, <2>1, <2>2 DEF TypeOK, graphVars, resultVars, countVars
  <1>10. (\A v \in Walked : ~Linked(v) /\ Semi(v) = Number(v) /\ info[v].label = v)'
    BY <1>4, <1>7 DEF Linked, Semi
  <1>11. Semis'
    <2>1. \A v \in Walked : v \in Above(v)'
      BY <1>0, <1>7, TreeFacts
    <2> QED BY <1>7, <1>10, <2>1 DEF Semis, SemiAbove, PredecsBound
  <1>12. CASE Len(vertexes) = 1
    <2>1. Walked = {Root}
      <3>1. \A v \in Walked : \E j \in 1 .. Len(vertexes) : vertexes[j] = v
        BY <1>0, Entries DEF NumbersShape, TypeOK
      <3>2. \A j \in 1 .. Len(vertexes) : vertexes[j] = Root
        BY <1>0, <1>12 DEF NumbersShape
      <3> QED BY <1>2, <3>1, <3>2
    <2>2. ~RootTwice
      BY <1>12 DEF RootTwice
    <2>3. \A w \in Walked' \ {Root} : FALSE
      BY <1>7, <2>1
    <2>4. AllLinked'
      BY <1>7, <1>11, <2>2, <2>3 DEF AllLinked
    <2>5. pc' = "step4" /\ k' = 2
      BY <1>1, <1>12
    <2> QED BY <1>8, <1>9, <2>3, <2>4, <2>5 DEF IInv
  <1>13. CASE Len(vertexes) # 1
    <2>1. /\ k' \in 2 .. Len(vertexes') /\ p' > 0 /\ pc' = "preds" /\ k' = Len(vertexes)
          /\ vertexes' = vertexes /\ k' \in 1 .. Len(vertexes)
      <3>1. p' = 1 /\ pc' = "preds" /\ k' = Len(vertexes) /\ vertexes' = vertexes
        BY <1>1, <1>13
      <3> QED BY <1>2, <1>13, <3>1
    <2>2. \A j \in DOMAIN vertexes' : ~Handled(j)'
      <3> SUFFICES ASSUME NEW j \in 1 .. Len(vertexes) PROVE ~Handled(j)'
        BY <1>2, <2>1
      <3> QED BY <1>2, <2>1 DEF Handled
    <2>3. LinkedWhenHandled'
      BY <1>10, <2>2 DEF LinkedWhenHandled
    <2>4. ForestShape'
      BY <1>10 DEF ForestShape
    <2>5. PredecsSeen'
      <3>1. Vertex' \in Blocks /\ predec' \in [Blocks -> Seq(Blocks)]
        BY <1>2, <1>9, <2>1 DEF TypeOK, Vertex
      <3>2. \A q \in DOMAIN predec'[Vertex'] : ~(q < 1)
        <4>1. predec'[Vertex'] \in Seq(Blocks)
          BY <3>1
        <4>2. DOMAIN predec'[Vertex'] = 1 .. Len(predec'[Vertex']) /\ Len(predec'[Vertex']) \in Nat
          BY <4>1
        <4> QED BY <4>2
      <3> QED BY <1>1, <3>2 DEF PredecsSeen
    <2>6. SemisWait' /\ ~Linked(Root)'
      <3>1. (\A v \in Walked : SemiBlock(v) \in Walked)'
        <4> SUFFICES ASSUME NEW v \in Walked PROVE SemiBlock(v)' = v
          BY <1>7
        <4>1. Semi(v)' = Number(v) /\ vertexes[Number(v) + 1] = v
          BY <1>0, <1>7, <1>10, NumberFacts
        <4> QED BY <2>1, <4>1 DEF SemiBlock, Numbered
      <3>2. Root \in Walked'
        BY <1>0, <1>7, NumberFacts
      <3> QED BY <1>10, <3>1, <3>2 DEF SemisWait
    <2>7. Buckets'
      <3>1. \A y \in Walked' : ToSet(info'[y].bucket) = {}
        BY <1>4, <1>7 DEF ToSet
      <3> QED BY <1>10, <2>1, <3>1 DEF Buckets
    <2>8. BucketsEmptied'
      BY <1>10 DEF BucketsEmptied
    <2>9. ForestInv'
      BY <1>11, <2>1, <2>3, <2>4, <2>5, <2>6, <2>7, <2>8 DEF ForestInv
    <2> QED BY <1>8, <1>9, <2>1, <2>9 DEF IInv
  <1> QED BY <1>12, <1>13

\* Steps that change neither a semidominator nor what is linked.
Steady == Kept /\ DOMAIN vertexes' = DOMAIN vertexes
          /\ \A x \in Walked : info'[x].semi = info[x].semi
                               /\ (info'[x].ancestor # Null <=> info[x].ancestor # Null)

\* A step that keeps parents and semidominators keeps what is defined by them.
LEMMA SteadyFacts ==
    ASSUME Steady, TypeOK, NumbersShape, TreeShape, SemiAbove
    PROVE  /\ Walked' = Walked /\ Parent' = Parent /\ vertexes' = vertexes
           /\ \A v : Above(v)' = Above(v) /\ Number(v)' = Number(v)
           /\ \A v, a : Between(v, a)' = Between(v, a)
           /\ \A v \in Walked : /\ Semi(v)' = Semi(v) /\ (Linked(v)' <=> Linked(v))
                                /\ SemiBlock(v)' = SemiBlock(v)
           /\ SemiAbove' /\ (PredecsBound => PredecsBound')
           /\ \A v \in Walked : \A a, l : Hangs(v, a, l) => Hangs(v, a, l)'
  <1>1. Kept
    BY DEF Steady
  <1>2. /\ Walked' = Walked /\ Parent' = Parent
        /\ \A v : Above(v)' = Above(v) /\ Number(v)' = Number(v)
    BY <1>1, KeptTree
  <1>3. vertexes' = vertexes /\ predec' = predec
    BY <1>1 DEF Kept
  <1>4. \A v, a : Between(v, a)' = Between(v, a)
    BY <1>2 DEF Between
  <1>5. \A v \in Walked : Semi(v)' = Semi(v) /\ (Linked(v)' <=> Linked(v))
    BY DEF Steady, Semi, Linked
  <1>6. \A v \in Walked : SemiBlock(v)' = SemiBlock(v)
    BY <1>3, <1>5 DEF SemiBlock, Numbered
  <1>7. SemiAbove'
    <2> SUFFICES ASSUME NEW v \in Walked PROVE \E y \in Above(v) : Semi(v) = Number(y)
      BY <1>2, <1>5 DEF SemiAbove
    <2> QED BY DEF SemiAbove
  <1>8. ASSUME PredecsBound PROVE PredecsBound'
    <2> SUFFICES ASSUME NEW w \in Walked, Linked(w), NEW u \in ToSet(predec[w])
                 PROVE  /\ u \in Walked /\ Semi(w)' <= Number(u)
                        /\ \A x \in Above(u) : Number(x) > Number(w) => Semi(w)' <= Semi(x)'
      BY <1>2, <1>3, <1>5 DEF PredecsBound, Bounds
    <2>1. u \in Walked /\ Semi(w) <= Number(u) /\ Bounds(u, w)
      BY <1>8 DEF PredecsBound
    <2>2. Above(u) \subseteq Walked
      BY <2>1, TreeFacts
    <2> QED BY <1>5, <2>1, <2>2 DEF Bounds
  <1>9. ASSUME NEW v \in Walked, NEW a, NEW l, Hangs(v, a, l) PROVE Hangs(v, a, l)'
    <2>1. Between(v, a) \subseteq Walked
      BY TreeFacts DEF Between
    <2>2. l \in Between(v, a) /\ a \in Above(v) \ {v}
      BY <1>9 DEF Hangs
    <2>3. l \in Walked /\ Semi(l)' = Semi(l)
      BY <1>5, <2>1, <2>2
    <2>4. ASSUME NEW x \in Between(v, a)
          PROVE  /\ Linked(x)' /\ Semi(l)' <= Semi(x)'
                 /\ x \notin Above(l) => Semi(l)' < Semi(x)'
      <3>1. /\ Linked(x) /\ Semi(l) <= Semi(x)
            /\ x \notin Above(l) => Semi(l) < Semi(x)
        BY <1>9 DEF Hangs
      <3>2. Semi(x)' = Semi(x) /\ Linked(x)'
        BY <1>5, <2>1, <3>1
      <3> QED BY <2>3, <3>1, <3>2
    <2> QED BY <1>2, <1>4, <2>2, <2>4 DEF Hangs
  <1> QED BY <1>2, <1>3, <1>4, <1>5, <1>6, <1>7, <1>8, <1>9

\* The loop goes on to the vertex before.
LEMMA NextVertexStep ==
    ASSUME IInv, NextVertex
    PROVE  IInv'
  <1>0. /\ TypeOK /\ WalkInv /\ pc = "bucket" /\ bucket = <<>> /\ ForestInv
        /\ NumbersShape /\ TreeShape /\ InStep /\ SemiAbove /\ PredecsBound
        /\ LinkedWhenHandled /\ BucketsEmptied /\ ~Linked(Root)
    BY DEF IInv, NextVertex, WalkInv, Tree, ForestInv, Semis
  <1>1. /\ UNCHANGED <<graphVars, resultVars, vertexes, info, stack, bucket, countVars>>
        /\ p' = 1
        /\ IF k = 2 THEN pc' = "step4" /\ k' = 2 ELSE pc' = "preds" /\ k' = k - 1
    BY DEF NextVertex
  <1>2. Steady /\ Kept
    BY <1>1 DEF Steady, Kept, graphVars, countVars
  <1>3. WalkInv'
    BY <1>0, <1>1, <1>2, KeptWalk
  <1>4. k \in 2 .. Len(vertexes) /\ Len(vertexes) \in Nat /\ DOMAIN vertexes = 1 .. Len(vertexes)
    BY <1>0 DEF ForestInv, TypeOK
  <1>5. TypeOK'
    <2>1. k' \in {2, k - 1} /\ pc' \in {"step4", "preds"} /\ p' = 1
      BY <1>1
    <2>2. k' \in Nat
      BY <1>4, <2>1
    <2>3. pc' \in Phases
      BY <2>1 DEF Phases
    <2> QED BY <1>0, <1>1, <2>1, <2>2, <2>3 DEF TypeOK, graphVars, resultVars, countVars
  <1>6. /\ Walked' = Walked /\ Parent' = Parent /\ vertexes' = vertexes
        /\ \A v : Above(v)' = Above(v) /\ Number(v)' = Number(v)
        /\ \A v, a : Between(v, a)' = Between(v, a)
        /\ \A v \in Walked : /\ Semi(v)' = Semi(v) /\ (Linked(v)' <=> Linked(v))
                             /\ SemiBlock(v)' = SemiBlock(v)
        /\ SemiAbove' /\ PredecsBound'
        /\ \A v \in Walked : \A a, l : Hangs(v, a, l) => Hangs(v, a, l)'
    BY <1>0, <1>2, SteadyFacts
  <1>7. \A v \in Walked : /\ Number(v) \in Nat /\ Number(v) < Len(vertexes)
                          /\ Number(v) = 0 => v = Root
    BY <1>0, NumberFacts
  <1>8. \A w \in Walked : Deferred(w)' = Deferred(w)
    <2> SUFFICES ASSUME NEW w \in Walked PROVE Deferred(w)' = Deferred(w)
      OBVIOUS
    <2>1. info' = info
      BY <1>1
    <2>2. \A x : Semi(x)' = Semi(x)
      BY <2>1 DEF Semi
    <2> QED BY <1>6, <2>1, <2>2 DEF Deferred
  <1>9. CASE k = 2
    <2>1. pc' = "step4" /\ k' = 2
      BY <1>1, <1>9
    <2>2. \A j \in 2 .. Len(vertexes) : Handled(j) /\ j \in DOMAIN vertexes
      BY <1>0, <1>4, <1>9 DEF Handled
    <2>3. ~RootTwice
      BY <1>0, <2>2, NumberFacts DEF RootTwice, LinkedWhenHandled
    <2>4. ASSUME NEW w \in Walked \ {Root}
          PROVE  Linked(w) /\ Deferred(w) /\ ~(Number(w) + 1 < 2)
      <3>1. Number(w) \in Nat /\ Number(w) # 0 /\ Number(w) < Len(vertexes)
        BY <1>7
      <3>2. Number(w) + 1 \in 2 .. Len(vertexes)
        BY <1>4, <3>1
      <3>3. Linked(w)
        <4>1. Handled(Number(w) + 1)
          BY <2>2, <3>2
        <4> QED BY <1>0, <4>1, TurnFacts
      <3>4. PICK c \in Above(w) \ {Root} : Parent[c] = SemiBlock(w)
        BY <1>0, <3>3, SemiBelow DEF Semis
      <3>5. Number(c) \in Nat /\ Number(c) # 0
        BY <1>0, <1>7, TreeFacts
      <3>6. Number(c) + 1 > k \/ Number(c) + 1 = k
        BY <1>9, <3>5
      <3>7. w \notin ToSet(bucket)
        BY <1>0 DEF ToSet
      <3>8. Deferred(w)
        BY <1>0, <3>3, <3>4, <3>6, <3>7 DEF BucketsEmptied
      <3> QED BY <3>1, <3>3, <3>8
    <2>5. AllLinked'
      <3>1. RootTwice' = RootTwice
        BY <1>2, KeptTree
      <3> QED BY <1>6, <2>3, <2>4, <3>1 DEF AllLinked, Semis
    <2>6. \A w \in Walked' \ {Root} : ~(Number(w)' + 1 < k') /\ Deferred(w)'
      BY <1>6, <1>8, <2>1, <2>4
    <2> QED BY <1>3, <1>5, <2>1, <2>5, <2>6 DEF IInv
  <1>10. CASE k # 2
    <2>1. /\ pc' = "preds" /\ k' = k - 1 /\ k' \in 2 .. Len(vertexes') /\ p' > 0
          /\ k \in Nat /\ k' \in Nat /\ k' \in DOMAIN vertexes
      <3>1. pc' = "preds" /\ k' = k - 1 /\ p' = 1
        BY <1>1, <1>10
      <3> QED BY <1>4, <1>6, <1>10, <3>1
    <2>2. \A j \in DOMAIN vertexes : Handled(j)' <=> Handled(j)
      <3> SUFFICES ASSUME NEW j \in 1 .. Len(vertexes) PROVE Handled(j)' <=> Handled(j)
        BY <1>4
      <3> QED BY <1>0, <2>1 DEF Handled
    <2>3. LinkedWhenHandled'
      BY <1>0, <1>6, <2>2 DEF LinkedWhenHandled
    <2>4. ForestShape'
      <3>1. ASSUME NEW v \in Walked, Linked(v) PROVE Hangs(v, info[v].ancestor, info[v].label)'
        <4>1. Hangs(v, info[v].ancestor, info[v].label)
          BY <1>0, <3>1 DEF ForestInv, ForestShape
        <4>2. PICK a, l : a = info[v].ancestor /\ l = info[v].label
          OBVIOUS
        <4>3. Hangs(v, a, l)'
          BY <1>6, <4>1, <4>2
        <4>4. info'[v].ancestor = a /\ info'[v].label = l
          BY <1>1, <4>2
        <4> QED BY <4>3, <4>4
      <3>2. ASSUME NEW v \in Walked, ~Linked(v) PROVE info'[v].label = v /\ Semi(v)' = Number(v)
        BY <1>0, <1>1, <1>6, <3>2 DEF ForestInv, ForestShape
      <3> QED BY <1>6, <3>1, <3>2 DEF ForestShape
    <2>5. PredecsSeen'
      <3>1. Vertex' \in Blocks /\ predec' \in [Blocks -> Seq(Blocks)]
        <4>1. vertexes' \in Seq(Blocks) /\ predec' \in [Blocks -> Seq(Blocks)]
          BY <1>5 DEF TypeOK
        <4>2. k' \in DOMAIN vertexes'
          BY <1>6, <2>1
        <4> QED BY <4>1, <4>2 DEF Vertex
      <3>2. \A q \in DOMAIN predec'[Vertex'] : ~(q < 1)
        <4>1. predec'[Vertex'] \in Seq(Blocks)
          BY <3>1
        <4>2. DOMAIN predec'[Vertex'] = 1 .. Len(predec'[Vertex']) /\ Len(predec'[Vertex']) \in Nat
          BY <4>1
        <4> QED BY <4>2
      <3> QED BY <1>1, <3>2 DEF PredecsSeen
    <2>6. SemisWait' /\ ~Linked(Root)'
      <3>1. ASSUME NEW w \in Walked, Linked(SemiBlock(w))
            PROVE  SemiBlock(w) # Root /\ Number(SemiBlock(w)) + 1 >= k'
        <4>1. SemiBlock(w) # Root /\ Number(SemiBlock(w)) + 1 >= k
          BY <1>0, <3>1 DEF ForestInv, SemisWait
        <4>2. Number(SemiBlock(w)) \in Nat
          BY <1>0, <1>7, SemiFacts
        <4> QED BY <2>1, <4>1, <4>2
      <3>2. \A w \in Walked : SemiBlock(w) \in Walked
        BY <1>0, SemiFacts
      <3>3. \A w \in Walked : Linked(SemiBlock(w))' => Linked(SemiBlock(w))
        BY <1>6, <3>2
      <3>4. Root \in Walked
        BY <1>0, NumberFacts
      <3> QED BY <1>0, <1>6, <3>1, <3>3, <3>4 DEF SemisWait
    <2>7. Buckets'
      <3>1. info' = info /\ pc' # "bucket"
        BY <1>1, <2>1
      <3>2. \A y \in Walked : \A w \in ToSet(info[y].bucket) : w \in Walked /\ Linked(w) /\ SemiBlock(w) = y
        BY <1>0 DEF ForestInv, Buckets
      <3>3. \A w \in Walked : Linked(w) => w \in ToSet(info[SemiBlock(w)].bucket)
        BY <1>0 DEF ForestInv, Buckets
      <3> QED BY <1>6, <3>1, <3>2, <3>3 DEF Buckets
    <2>8. BucketsEmptied'
      <3> SUFFICES ASSUME NEW w \in Walked, Linked(w), NEW c \in Above(w) \ {Root},
                          Parent[c] = SemiBlock(w), Number(c) + 1 > k - 1
                   PROVE  Deferred(w)
        BY <1>6, <1>8, <2>1 DEF BucketsEmptied
      <3>1. Number(c) \in Nat
        BY <1>0, <1>7, TreeFacts
      <3>2. Number(c) + 1 > k \/ Number(c) + 1 = k
        BY <2>1, <3>1
      <3>3. w \notin ToSet(bucket)
        BY <1>0 DEF ToSet
      <3> QED BY <1>0, <3>2, <3>3 DEF BucketsEmptied
    <2>9. ForestInv'
      BY <1>6, <2>1, <2>3, <2>4, <2>5, <2>6, <2>7, <2>8 DEF ForestInv, Semis
    <2> QED BY <1>3, <1>5, <2>1, <2>9 DEF IInv
  <1> QED BY <1>9, <1>10

\* The block that Eval finds for a predecessor u of the vertex says all there
\* is to say about u.
LEMMA EvalBounds ==
    ASSUME TypeOK, WalkInv, ForestInv, pc = "preds", NEW V, V = Vertex,
           NEW u \in Walked, u \in ToSet(predec[V]), NEW l, Evaluated(u, l)
    PROVE  /\ l \in Above(u) /\ l \in Walked
           /\ u # V => Semi(l) <= Number(u)
           /\ k = Number(V) + 1 =>
                 \A x \in Above(u) : Number(x) > Number(V) => x # V /\ Semi(l) <= Semi(x)
           /\ Semi(l) < Semi(V) => SemiBlock(l) \in Above(V)
  <1>0. /\ NumbersShape /\ TreeShape /\ EdgesDown /\ Intervals /\ InStep /\ SemiAbove
        /\ ForestShape
    BY DEF WalkInv, Tree, ForestInv, Semis
  <1>1. /\ k \in Nat /\ V \in Walked /\ Number(V) \in Nat /\ Number(V) <= k - 1
        /\ \A w \in Walked : Handled(Number(w) + 1) => Linked(w)
    BY TurnFacts
  <1>2. \A x \in Walked : /\ Semi(x) \in Nat /\ Number(x) \in Nat /\ Semi(x) <= Number(x)
                          /\ SemiBlock(x) \in Above(x) /\ SemiBlock(x) \in Walked
                          /\ Number(SemiBlock(x)) = Semi(x)
                          /\ x \in Above(x) /\ Above(x) \subseteq Walked
    BY <1>0, NumberFacts, SemiFacts, TreeFacts
  <1>3. ASSUME NEW r, Hangs(u, r, l)
        PROVE  /\ l \in Between(u, r) /\ u \in Between(u, r) /\ r \in Above(u)
               /\ \A x \in Between(u, r) : Semi(l) <= Semi(x)
    <2>1. r \in Above(u) \ {u} /\ l \in Between(u, r) /\ \A x \in Between(u, r) : Semi(l) <= Semi(x)
      BY <1>3 DEF Hangs
    <2>2. u \notin Above(r)
      <3>1. r \in Walked /\ Number(r) < Number(u)
        BY <1>0, <2>1, TreeFacts
      <3>2. u \in Above(r) => Number(u) <= Number(r)
        BY <1>0, <3>1, TreeFacts
      <3> QED BY <1>2, <3>1, <3>2
    <2> QED BY <1>2, <2>1, <2>2 DEF Between
  <1>4. l \in Above(u) /\ l \in Walked
    BY <1>2, <1>3 DEF Evaluated, Between
  <1>5. ASSUME u # V PROVE Semi(l) <= Number(u)
    <2>1. CASE ~Linked(u) /\ l = u
      BY <1>2, <2>1
    <2>2. CASE \E r : Hangs(u, r, l)
      BY <1>2, <1>3, <1>4, <2>2
    <2> QED BY <2>1, <2>2 DEF Evaluated
  <1>6. ASSUME k = Number(V) + 1, NEW x \in Above(u), Number(x) > Number(V)
        PROVE  x # V /\ Semi(l) <= Semi(x)
    <2>1. x \in Walked /\ Number(x) + 1 > k /\ x # V
      BY <1>1, <1>2, <1>6
    <2>2. \A y \in Walked : Number(y) >= Number(x) => Linked(y)
      <3> SUFFICES ASSUME NEW y \in Walked, Number(y) >= Number(x) PROVE Linked(y)
        OBVIOUS
      <3>1. Number(y) + 1 > k
        BY <1>1, <1>2, <2>1
      <3> QED BY <1>1, <3>1 DEF Handled
    <2>3. Linked(u)
      <3>1. Number(x) <= Number(u)
        BY <1>0, TreeFacts
      <3> QED BY <1>2, <2>1, <2>2, <3>1
    <2>4. PICK r : Hangs(u, r, l) /\ ~Linked(r)
      BY <2>3 DEF Evaluated
    <2>5. r \in Walked /\ x \notin Above(r)
      <3>1. r \in Walked
        BY <1>2, <1>3, <2>4
      <3>2. x \in Above(r) => Number(x) <= Number(r)
        BY <1>0, <3>1, TreeFacts
      <3> QED BY <1>2, <2>1, <2>2, <2>4, <3>1, <3>2
    <2> QED BY <1>3, <2>1, <2>4, <2>5 DEF Between
  <1>7. ASSUME Semi(l) < Semi(V) PROVE SemiBlock(l) \in Above(V)
    <2> DEFINE y == SemiBlock(l)
    <2>1. y \in Walked /\ Number(y) = Semi(l) /\ y \in Above(l)
      BY <1>2, <1>4
    <2>2. y \in Above(u)
      BY <1>0, <1>4, <2>1, TreeFacts
    <2>3. Number(y) < Number(V)
      BY <1>1, <1>2, <1>4, <1>7, <2>1
    <2>4. V \in ToSet(succ[u])
      BY <1>0, <1>1 DEF InStep, Occurs, TypeOK, Walked
    <2> HIDE DEF y
    <2>5. CASE Number(u) < Number(V)
      <3>1. u \in Above(V)
        BY <1>0, <1>1, <2>4, <2>5 DEF EdgesDown
      <3> QED BY <1>0, <1>1, <2>2, <3>1, TreeFacts DEF y
    <2>6. CASE Number(V) <= Number(u)
      <3>1. Number(y) <= Number(V)
        BY <1>1, <1>2, <2>1, <2>3
      <3> QED BY <1>0, <1>1, <2>1, <2>2, <2>6, <3>1 DEF Intervals, y
    <2> QED BY <1>1, <1>2, <2>5, <2>6
  <1> QED BY <1>4, <1>5, <1>6, <1>7

\* The walk is through: it has reached what can be reached.
LEMMA WalkedIsReachable ==
    ASSUME TypeOK, NumbersShape, WalkedReachable, AllWalked
    PROVE  Walked = Reachable
  <1>1. Closed(succ, Walked)
    BY DEF AllWalked, Finished, Closed
  <1>2. Root \in Walked /\ Walked \in SUBSET Blocks /\ succ \in [Blocks -> Seq(Blocks)]
    BY NumberFacts DEF TypeOK
  <1>3. Reachable \subseteq Walked
    BY <1>1, <1>2, ReachWithinClosed DEF Reachable
  <1> QED BY <1>3 DEF WalkedReachable

\* Both places where at() throws are cases ThrowsExactlyOn names.
LEMMA UnreachedPredec ==
    ASSUME TypeOK, WalkInv, ForestInv, pc \in {"preds", "bucket"},
           Vertex = Root \/ \E u \in ToSet(predec[Vertex]) : u \notin Walked
    PROVE  Occurs(succ, Root, Root) \/ HasUnreachablePredec
  <1>0. NumbersShape /\ WalkedReachable /\ AllWalked /\ SecondNumbers
    BY DEF WalkInv, Tree
  <1>1. k \in Nat /\ k >= 2 /\ k \in DOMAIN vertexes /\ Vertex \in Walked
    BY TurnFacts
  <1>2. CASE Vertex = Root
    <2>1. Number(Vertex) = 0
      BY <1>0, <1>2, NumberFacts
    <2>2. Second(k)
      BY <1>1, <2>1 DEF Second, Vertex
    <2> QED BY <1>0, <1>1, <1>2, <2>2 DEF SecondNumbers, Vertex
  <1>3. CASE Vertex # Root
    <2>1. Walked = Reachable
      BY <1>0, WalkedIsReachable
    <2> QED BY <1>1, <1>3, <2>1 DEF HasUnreachablePredec
  <1> QED BY <1>2, <1>3

\* A block is still to be handled when it is not linked in its turn.
LEMMA LinkedEarly ==
    ASSUME TypeOK, WalkInv, ForestInv, pc = "preds"
    PROVE  Linked(Vertex) => Semi(Vertex) = 0
  <1>1. /\ k \in Nat /\ Vertex \in Walked /\ Number(Vertex) \in Nat /\ Number(Vertex) <= k - 1
        /\ \A w \in Walked : Linked(w) /\ ~Handled(Number(w) + 1) => Semi(w) = 0
    BY TurnFacts
  <1>2. ~Handled(Number(Vertex) + 1)
    BY <1>1 DEF Handled
  <1> QED BY <1>1, <1>2

\* One predecessor is evaluated and lowers the semidominator, or throws.
LEMMA EvalPredecStep ==
    ASSUME IInv, EvalPredec
    PROVE  IInv'
  <1>0. /\ TypeOK /\ WalkInv /\ pc = "preds" /\ ForestInv
        /\ NumbersShape /\ TreeShape /\ InStep /\ SemiAbove /\ PredecsBound
        /\ LinkedWhenHandled /\ ForestShape /\ PredecsSeen /\ SemisWait /\ Buckets /\ BucketsEmptied
        /\ ~Linked(Root) /\ k \in 2 .. Len(vertexes) /\ p > 0
    BY DEF IInv, EvalPredec, WalkInv, Tree, ForestInv, Semis
  <1>1. PICK V, u : V = Vertex /\ u = predec[V][p]
    OBVIOUS
  <1>2. /\ p <= Len(predec[V])
        /\ UNCHANGED <<graphVars, resultVars, vertexes, stack, k, bucket, countVars>>
        /\ u \notin Walked => pc' = "threw" /\ UNCHANGED <<info, p>>
        /\ u \in Walked =>
              /\ info' = [EvalInfo(info, u) EXCEPT ![V].semi =
                            IF EvalInfo(info, u)[Eval(info, u)].semi < @
                            THEN EvalInfo(info, u)[Eval(info, u)].semi ELSE @]
              /\ p' = p + 1 /\ pc' = pc
    BY <1>1 DEF EvalPredec, Walked
  <1>3. /\ k \in Nat /\ V \in Walked /\ Number(V) \in Nat /\ Number(V) <= k - 1
        /\ Number(V) # k - 1 => Split(k) /\ Root \in ToSet(predec[V])
        /\ \A w \in Walked : Linked(w) /\ ~Handled(Number(w) + 1) => Semi(w) = 0
        /\ k \in DOMAIN vertexes /\ (Linked(V) => Semi(V) = 0)
    BY <1>0, <1>1, TurnFacts, LinkedEarly
  <1>4. predec[V] \in Seq(Blocks) /\ p \in Nat
    BY <1>0, <1>3 DEF TypeOK, Walked
  <1>5. DOMAIN predec[V] = 1 .. Len(predec[V]) /\ Len(predec[V]) \in Nat /\ p \in DOMAIN predec[V]
        /\ u \in ToSet(predec[V])
    <2>1. DOMAIN predec[V] = 1 .. Len(predec[V]) /\ Len(predec[V]) \in Nat
      BY <1>4
    <2>2. p \in DOMAIN predec[V]
      BY <1>0, <1>2, <1>4, <2>1
    <2> QED BY <1>1, <2>1, <2>2 DEF ToSet
  <1>6. CASE u \notin Walked
    <2>1. pc' = "threw" /\ info' = info /\ p' = p
      BY <1>2, <1>6
    <2>2. Kept
      BY <1>2, <2>1 DEF Kept, graphVars, countVars
    <2>3. WalkInv'
      BY <1>0, <2>1, <2>2, KeptWalk
    <2>4. TypeOK'
      BY <1>0, <1>2, <2>1 DEF TypeOK, graphVars, resultVars, countVars, Phases
    <2>5. Occurs(succ, Root, Root) \/ HasUnreachablePredec
      BY <1>0, <1>1, <1>5, <1>6, UnreachedPredec
    <2>6. ThrowsExactlyOn'
      BY <1>2, <2>1, <2>5 DEF ThrowsExactlyOn, HasUnreachablePredec, Reachable, graphVars
    <2> QED BY <2>1, <2>3, <2>4, <2>6 DEF IInv
  <1>7. CASE u \in Walked
    <2> DEFINE inf == EvalInfo(info, u)
    <2>1. PICK l : l = Eval(info, u)
      OBVIOUS
    <2>2. Reshaped(inf) /\ Evaluated(u, l)
      BY <1>0, <1>7, <2>1, EvalFacts
    <2> HIDE DEF inf
    <2>3. /\ l \in Above(u) /\ l \in Walked
          /\ u # V => Semi(l) <= Number(u)
          /\ k = Number(V) + 1 =>
                \A x \in Above(u) : Number(x) > Number(V) => x # V /\ Semi(l) <= Semi(x)
          /\ Semi(l) < Semi(V) => SemiBlock(l) \in Above(V)
      BY <1>0, <1>1, <1>5, <1>7, <2>2, EvalBounds
    <2>4. inf[l].semi = Semi(l) /\ inf[V].semi = Semi(V)
      BY <1>3, <2>2, <2>3 DEF Reshaped, Semi
    <2>5. /\ info' = [inf EXCEPT ![V].semi = IF inf[l].semi < @ THEN inf[l].semi ELSE @]
          /\ p' = p + 1 /\ pc' = "preds"
      BY <1>0, <1>2, <1>7, <2>1 DEF inf
    <2>6. /\ DOMAIN info' = Walked
          /\ \A x \in Walked :
                /\ info'[x] \in Infos /\ info'[x].parent = info[x].parent
                /\ info'[x].dom = info[x].dom /\ info'[x].bucket = info[x].bucket
                /\ info'[x].ancestor = inf[x].ancestor /\ info'[x].label = inf[x].label
                /\ x # V => info'[x].semi = info[x].semi
          /\ info'[V].semi = IF Semi(l) < Semi(V) THEN Semi(l) ELSE Semi(V)
      <3>1. Semi(l) \in Nat /\ Semi(V) \in Nat
        BY <1>0, <1>3, <2>3, SemiFacts
      <3>2. DOMAIN inf = Walked /\ \A x \in Walked : inf[x] \in Infos
        BY <2>2 DEF Reshaped
      <3>3. info' = [inf EXCEPT ![V] = [inf[V] EXCEPT !.semi = IF Semi(l) < Semi(V) THEN Semi(l) ELSE Semi(V)]]
        BY <2>4, <2>5
      <3>4. ASSUME NEW x \in Walked, x # V PROVE info'[x] = inf[x]
        BY <3>2, <3>3, <3>4
      <3>5. info'[V] = [inf[V] EXCEPT !.semi = IF Semi(l) < Semi(V) THEN Semi(l) ELSE Semi(V)]
        BY <1>3, <3>2, <3>3
      <3>6. /\ info'[V] \in Infos /\ info'[V].parent = inf[V].parent
            /\ info'[V].dom = inf[V].dom /\ info'[V].bucket = inf[V].bucket
            /\ info'[V].ancestor = inf[V].ancestor /\ info'[V].label = inf[V].label
            /\ info'[V].semi = IF Semi(l) < Semi(V) THEN Semi(l) ELSE Semi(V)
        <4>1. inf[V] \in Infos
          BY <1>3, <3>2
        <4> QED BY <3>1, <3>5, <4>1 DEF Infos
      <3>7. DOMAIN info' = Walked
        BY <3>2, <3>3
      <3>8. \A x \in Walked :
                /\ inf[x].parent = info[x].parent /\ inf[x].semi = info[x].semi
                /\ inf[x].dom = info[x].dom /\ inf[x].bucket = info[x].bucket
        BY <2>2 DEF Reshaped
      <3> QED BY <3>2, <3>4, <3>6, <3>7, <3>8
    <2>7. Kept
      BY <1>2, <2>6 DEF Kept, graphVars, countVars, Walked
    <2>8. /\ Walked' = Walked /\ Parent' = Parent /\ vertexes' = vertexes /\ predec' = predec
          /\ \A v : Above(v)' = Above(v) /\ Number(v)' = Number(v)
          /\ \A v, a : Between(v, a)' = Between(v, a)
          /\ k' = k /\ Vertex' = V
      BY <1>1, <1>2, <2>7, KeptTree DEF Kept, Between, Vertex
    <2>9. \A x \in Walked : Linked(x)' <=> Linked(x)
      BY <2>2, <2>6 DEF Linked, Reshaped
    <2>10. /\ \A x \in Walked : x # V => Semi(x)' = Semi(x)
           /\ Semi(V)' = (IF Semi(l) < Semi(V) THEN Semi(l) ELSE Semi(V))
      BY <2>6 DEF Semi
    <2>11. \A x \in Walked : /\ Semi(x) \in Nat /\ Number(x) \in Nat /\ Semi(x) <= Number(x)
                             /\ SemiBlock(x) \in Above(x) /\ SemiBlock(x) \in Walked
                             /\ Number(SemiBlock(x)) = Semi(x)
                             /\ x \in Above(x) /\ Above(x) \subseteq Walked
      BY <1>0, NumberFacts, SemiFacts, TreeFacts
    <2>12. \A x \in Walked : Linked(x) => Semi(x)' = Semi(x)
      BY <1>3, <2>3, <2>10, <2>11
    <2>13. \A x \in Walked : Linked(x) => SemiBlock(x)' = SemiBlock(x)
      BY <2>8, <2>12 DEF SemiBlock, Numbered
    <2>14. Semi(V)' <= Semi(V) /\ Semi(V)' <= Semi(l)
      BY <1>3, <2>3, <2>10, <2>11
    <2>15. WalkInv'
      BY <1>0, <2>5, <2>7, KeptWalk
    <2>16. TypeOK'
      <3>1. p' \in Nat
        BY <1>4, <2>5
      <3>2. DOMAIN info' \subseteq Blocks
        BY <1>0, <2>6 DEF TypeOK, Walked
      <3>3. \A x \in DOMAIN info' : info'[x] \in Infos
        BY <2>6
      <3> QED BY <1>0, <1>2, <2>5, <3>1, <3>2, <3>3 DEF TypeOK, graphVars, resultVars, countVars
    <2>17. ASSUME NEW v \in Walked, NEW a, NEW m, Hangs(v, a, m)
           PROVE  Hangs(v, a, m)'
      <3>1. /\ a \in Above(v) \ {v} /\ m \in Between(v, a)
            /\ \A x \in Between(v, a) : /\ Linked(x) /\ Semi(m) <= Semi(x)
                                        /\ x \notin Above(m) => Semi(m) < Semi(x)
        BY <2>17 DEF Hangs
      <3>2. \A x \in Between(v, a) : x \in Walked /\ Linked(x)' /\ Semi(x)' = Semi(x)
        BY <2>9, <2>11, <2>12, <3>1 DEF Between
      <3>3. a \in Above(v)' \ {v} /\ m \in Between(v, a)'
        BY <2>8, <3>1
      <3>4. \A x \in Between(v, a)' : /\ Linked(x)' /\ Semi(m)' <= Semi(x)'
                                      /\ x \notin Above(m)' => Semi(m)' < Semi(x)'
        BY <2>8, <3>1, <3>2
      <3> QED BY <3>3, <3>4 DEF Hangs
    <2>18. ForestShape'
      <3>1. ASSUME NEW v \in Walked, Linked(v)
            PROVE  Hangs(v, info[v].ancestor, info[v].label)'
        <4>1. PICK a, m : a = inf[v].ancestor /\ m = inf[v].label
          OBVIOUS
        <4>2. Hangs(v, a, m)
          BY <2>2, <3>1, <4>1 DEF Reshaped
        <4>3. Hangs(v, a, m)'
          BY <2>17, <4>2
        <4>4. info'[v].ancestor = a /\ info'[v].label = m
          BY <2>6, <4>1
        <4> QED BY <4>3, <4>4
      <3>2. ASSUME NEW v \in Walked, ~Linked(v)
            PROVE  info'[v].label = v /\ (v # V => Semi(v)' = Number(v)')
        <4>1. info[v].label = v /\ (v # V => Semi(v) = Number(v))
          BY <1>0, <1>1, <3>2 DEF ForestShape
        <4>2. info'[v].label = info[v].label
          BY <2>2, <2>6, <3>2 DEF Reshaped
        <4> QED BY <2>8, <2>10, <4>1, <4>2
      <3> QED BY <2>5, <2>8, <2>9, <3>1, <3>2 DEF ForestShape
    <2>19. LinkedWhenHandled'
      <3>1. \A j \in DOMAIN vertexes : Handled(j)' <=> Handled(j)
        BY <1>0, <2>5, <2>8 DEF Handled
      <3> QED BY <1>0, <2>8, <2>9, <3>1 DEF LinkedWhenHandled
    <2>20. SemiAbove'
      <3> SUFFICES ASSUME NEW v \in Walked PROVE \E y \in Above(v) : Semi(v)' = Number(y)
        BY <2>8 DEF SemiAbove
      <3>1. CASE v # V
        BY <2>10, <2>11, <3>1
      <3>2. CASE v = V
        BY <2>3, <2>10, <2>11, <3>2
      <3> QED BY <3>1, <3>2
    <2>21. PredecsBound'
      <3> SUFFICES ASSUME NEW w \in Walked, Linked(w), NEW z \in ToSet(predec[w])
                   PROVE  /\ z \in Walked /\ Semi(w)' <= Number(z)
                          /\ \A x \in Above(z) : Number(x) > Number(w) => Semi(w)' <= Semi(x)'
        BY <2>8, <2>9 DEF PredecsBound, Bounds
      <3>1. z \in Walked /\ Semi(w) <= Number(z) /\ Bounds(z, w)
        BY <1>0 DEF PredecsBound
      <3>2. ASSUME NEW x \in Above(z), Number(x) > Number(w) PROVE Semi(w)' <= Semi(x)'
        <4>1. x \in Walked /\ Semi(w) <= Semi(x)
          BY <2>11, <3>1, <3>2 DEF Bounds
        <4>2. CASE x # V \/ Linked(V)
          BY <2>10, <2>12, <4>1, <4>2
        <4>3. CASE x = V /\ ~Linked(V)
          <5>1. ~Handled(Number(w) + 1)
            <6>1. Number(w) \in Nat /\ Number(w) + 1 < k
              BY <1>3, <2>11, <3>2, <4>3
            <6> QED BY <1>3, <6>1 DEF Handled
          <5>2. Semi(w) = 0
            BY <1>3, <5>1
          <5>3. Semi(V)' \in Nat
            BY <1>3, <2>3, <2>10, <2>11
          <5> QED BY <2>12, <4>3, <5>2, <5>3
        <4> QED BY <4>2, <4>3
      <3> QED BY <2>12, <3>1, <3>2
    <2>22. PredecsSeen'
      <3> SUFFICES ASSUME NEW q \in DOMAIN predec[V], q < p + 1, NEW z, z = predec[V][q]
                   PROVE  /\ z \in Walked /\ Semi(V)' <= Number(z)
                          /\ k = Number(V) + 1 =>
                               \A x \in Above(z) : Number(x) > Number(V) => Semi(V)' <= Semi(x)'
        BY <2>5, <2>8 DEF PredecsSeen, Bounds
      <3>1. Semi(V)' \in Nat /\ Semi(V)' <= Semi(V) /\ Semi(V)' <= Semi(l)
        BY <1>3, <2>3, <2>10, <2>11
      <3>2. q \in Nat
        BY <1>5
      <3>3. CASE q < p
        <4>1. /\ z \in Walked /\ Semi(V) <= Number(z)
              /\ k = Number(V) + 1 => Bounds(z, V)
          BY <1>0, <1>1, <3>3 DEF PredecsSeen
        <4>2. ASSUME k = Number(V) + 1, NEW x \in Above(z), Number(x) > Number(V)
              PROVE  Semi(V)' <= Semi(x)'
          <5>1. x \in Walked /\ Semi(V) <= Semi(x) /\ x # V
            BY <1>3, <2>11, <4>1, <4>2 DEF Bounds
          <5> QED BY <1>3, <2>10, <2>11, <3>1, <5>1
        <4> QED BY <1>3, <2>11, <3>1, <4>1, <4>2
      <3>4. CASE q = p
        <4>1. z = u
          BY <1>1, <3>4
        <4>2. Semi(V)' <= Number(u)
          BY <1>3, <1>7, <2>3, <2>11, <3>1
        <4>3. ASSUME k = Number(V) + 1, NEW x \in Above(u), Number(x) > Number(V)
              PROVE  Semi(V)' <= Semi(x)'
          <5>1. x \in Walked /\ Semi(l) <= Semi(x) /\ x # V
            BY <1>7, <2>3, <2>11, <4>3
          <5> QED BY <2>3, <2>10, <2>11, <3>1, <5>1
        <4> QED BY <1>7, <4>1, <4>2, <4>3
      <3> QED BY <1>4, <3>2, <3>3, <3>4
    <2>23. SemiBlock(V)' \in {SemiBlock(V), SemiBlock(l)}
      <3>1. SemiBlock(V)' = vertexes[Semi(V)' + 1]
        BY <2>8 DEF SemiBlock, Numbered
      <3> QED BY <2>10, <3>1 DEF SemiBlock, Numbered
    <2>24. SemisWait'
      <3> SUFFICES ASSUME NEW w \in Walked, NEW y, y = SemiBlock(w)', Linked(y)'
                   PROVE  y # Root /\ Number(y) + 1 >= k
        BY <2>8 DEF SemisWait
      <3>1. y \in {SemiBlock(w), SemiBlock(l)}
        <4>1. CASE w = V
          BY <2>23, <4>1
        <4>2. CASE w # V
          BY <2>8, <2>10, <4>2 DEF SemiBlock, Numbered
        <4> QED BY <4>1, <4>2
      <3>2. Linked(y)
        BY <2>3, <2>9, <2>11, <3>1
      <3> QED BY <1>0, <2>3, <3>1, <3>2 DEF SemisWait
    <2>25. Buckets'
      <3>1. \A y \in Walked : \A w \in ToSet(info[y].bucket) : w \in Walked /\ Linked(w) /\ SemiBlock(w) = y
        BY <1>0 DEF Buckets
      <3>2. \A w \in Walked : Linked(w) => w \in ToSet(info[SemiBlock(w)].bucket)
        BY <1>0 DEF Buckets
      <3>3. \A y \in Walked : ToSet(info'[y].bucket) = ToSet(info[y].bucket)
        BY <2>6
      <3>4. \A y \in Walked : \A w \in ToSet(info'[y].bucket) : w \in Walked /\ Linked(w)' /\ SemiBlock(w)' = y
        BY <2>9, <2>13, <3>1, <3>3
      <3>5. \A w \in Walked : Linked(w)' => w \in ToSet(info'[SemiBlock(w)'].bucket)
        BY <2>9, <2>11, <2>13, <3>2, <3>3
      <3> QED BY <2>5, <2>8, <3>4, <3>5 DEF Buckets
    <2>26. BucketsEmptied'
      <3> SUFFICES ASSUME NEW w \in Walked, Linked(w), NEW c \in Above(w) \ {Root},
                          Parent[c] = SemiBlock(w), Number(c) + 1 > k
                   PROVE  Deferred(w)'
        BY <2>5, <2>8, <2>9, <2>13 DEF BucketsEmptied
      <3>1. Deferred(w)
        BY <1>0 DEF BucketsEmptied
      <3>2. \A x \in Between(w, SemiBlock(w)) : Semi(x)' = Semi(x)
        <4> SUFFICES ASSUME NEW x \in Between(w, SemiBlock(w)) PROVE x \in Walked /\ x # V
          BY <2>10
        <4>1. Number(c) <= Number(x) /\ x \in Walked /\ c \in Walked
          BY <1>0, <2>11, BetweenChild
        <4> QED BY <1>3, <2>11, <4>1
      <3>3. Between(w, SemiBlock(w))' = Between(w, SemiBlock(w)) /\ SemiBlock(w)' = SemiBlock(w)
        BY <2>8, <2>13
      <3>4. info'[w].dom = info[w].dom /\ Semi(w)' = Semi(w)
        BY <2>6, <2>12
      <3>5. CASE info[w].dom = SemiBlock(w) /\ \A x \in Between(w, SemiBlock(w)) : Semi(w) <= Semi(x)
        BY <3>2, <3>3, <3>4, <3>5 DEF Deferred
      <3>6. CASE /\ info[w].dom \in Between(w, SemiBlock(w)) /\ Semi(info[w].dom) < Semi(w)
                 /\ \A x \in Between(w, SemiBlock(w)) : Semi(info[w].dom) <= Semi(x)
        <4>1. PICK d : d = info[w].dom
          OBVIOUS
        <4>2. info'[w].dom = d /\ Semi(d)' = Semi(d)
          BY <3>2, <3>4, <3>6, <4>1
        <4> QED BY <3>2, <3>3, <3>4, <3>6, <4>1, <4>2 DEF Deferred
      <3> QED BY <3>1, <3>5, <3>6 DEF Deferred
    <2>27. ForestInv'
      <3>1. k' \in 2 .. Len(vertexes') /\ p' > 0
        BY <1>0, <1>4, <2>5, <2>8
      <3>2. ~Linked(Root)'
        BY <1>0, <2>9, NumberFacts
      <3> QED BY <2>18, <2>19, <2>20, <2>21, <2>22, <2>24, <2>25, <2>26, <3>1, <3>2
           DEF ForestInv, Semis
    <2> QED BY <2>5, <2>15, <2>16, <2>27 DEF IInv
  <1> QED BY <1>6, <1>7


\* What is said about the predecessors of a vertex when all are seen.
LEMMA AllSeen ==
    ASSUME TypeOK, WalkInv, ForestInv, pc = "preds", NEW V, V = Vertex, p > Len(predec[V])
    PROVE  /\ \A u \in ToSet(predec[V]) : u \in Walked /\ Semi(V) <= Number(u) /\ Bounds(u, V)
           /\ Number(V) # k - 1 => Semi(V) = 0
  <1>0. NumbersShape /\ TreeShape /\ SemiAbove /\ PredecsSeen
    BY DEF WalkInv, Tree, ForestInv, Semis
  <1>1. /\ k \in Nat /\ V \in Walked /\ Number(V) \in Nat
        /\ Number(V) # k - 1 => Root \in ToSet(predec[V])
    BY TurnFacts
  <1>2. predec[V] \in Seq(Blocks) /\ p \in Nat
    BY <1>1 DEF TypeOK, Walked
  <1>3. ASSUME NEW u \in ToSet(predec[V])
        PROVE  u \in Walked /\ Semi(V) <= Number(u) /\ (k = Number(V) + 1 => Bounds(u, V))
    <2>1. PICK q \in 1 .. Len(predec[V]) : predec[V][q] = u
      BY <1>2, Entries
    <2>2. q \in DOMAIN predec[V] /\ q < p
      BY <1>2
    <2> QED BY <1>0, <2>1, <2>2 DEF PredecsSeen
  <1>4. ASSUME Number(V) # k - 1 PROVE Semi(V) = 0
    <2>1. Semi(V) <= Number(Root)
      BY <1>1, <1>3, <1>4
    <2> QED BY <1>0, <1>1, <2>1, SemiFacts, NumberFacts
  <1>5. ASSUME NEW u \in ToSet(predec[V]), Number(V) # k - 1 PROVE Bounds(u, V)
    <2>1. \A x \in Above(u) : x \in Walked
      BY <1>0, <1>3, TreeFacts
    <2>2. \A x \in Above(u) : Semi(x) \in Nat
      BY <1>0, <2>1, SemiFacts
    <2> QED BY <1>4, <1>5, <2>2 DEF Bounds
  <1>6. Number(V) = k - 1 => k = Number(V) + 1
    BY <1>1
  <1> QED BY <1>3, <1>4, <1>5, <1>6

\* The vertex enters a bucket and is linked to its parent, or throws.
LEMMA LinkVertexStep ==
    ASSUME IInv, LinkVertex
    PROVE  IInv'
  <1>0. /\ TypeOK /\ WalkInv /\ pc = "preds" /\ ForestInv
        /\ NumbersShape /\ TreeShape /\ InStep /\ SemiAbove /\ PredecsBound
        /\ LinkedWhenHandled /\ ForestShape /\ SemisWait /\ Buckets /\ BucketsEmptied
        /\ ~Linked(Root) /\ k \in 2 .. Len(vertexes) /\ p > 0
    BY DEF IInv, LinkVertex, WalkInv, Tree, ForestInv, Semis
  <1>1. PICK V, P, B : V = Vertex /\ P = info[V].parent /\ B = SemiBlock(V)
    OBVIOUS
  <1> DEFINE put == [info EXCEPT ![B].bucket = Append(@, V)]
  <1>2. /\ p > Len(predec[V])
        /\ info' = [put EXCEPT ![V].ancestor = P]
        /\ IF P = Null THEN pc' = "threw" /\ UNCHANGED bucket
                       ELSE pc' = "bucket" /\ bucket' = put[P].bucket
        /\ UNCHANGED <<graphVars, resultVars, vertexes, stack, k, p, countVars>>
    BY <1>1 DEF LinkVertex, SemiBlock, Semi
  <1>3. /\ k \in Nat /\ V \in Walked /\ Number(V) \in Nat /\ Number(V) <= k - 1
        /\ Number(V) # k - 1 => Split(k)
        /\ \A w \in Walked : Linked(w) /\ ~Handled(Number(w) + 1) => Semi(w) = 0
        /\ k \in DOMAIN vertexes /\ (Linked(V) => Semi(V) = 0)
    BY <1>0, <1>1, TurnFacts, LinkedEarly
  <1>4. /\ \A u \in ToSet(predec[V]) : u \in Walked /\ Semi(V) <= Number(u) /\ Bounds(u, V)
        /\ Number(V) # k - 1 => Semi(V) = 0
    BY <1>0, <1>1, <1>2, AllSeen
  <1>5. \A x \in Walked : /\ Semi(x) \in Nat /\ Number(x) \in Nat /\ Semi(x) <= Number(x)
                          /\ SemiBlock(x) \in Above(x) /\ SemiBlock(x) \in Walked
                          /\ Number(SemiBlock(x)) = Semi(x)
                          /\ x \in Above(x) /\ Above(x) \subseteq Walked
                          /\ info[x] \in Infos /\ info[x].bucket \in Seq(Blocks)
    BY <1>0, NumberFacts, SemiFacts, TreeFacts DEF TypeOK, Walked, Infos
  <1>6. /\ P \in MaybeBlock /\ P = Parent[V] /\ B \in Walked
        /\ P = Null <=> V = Root
        /\ V # Root => P \in Walked /\ Above(V) = {V} \cup Above(P) /\ Number(P) < Number(V)
    <2>1. P \in MaybeBlock /\ P = Parent[V] /\ B \in Walked
      BY <1>1, <1>3, <1>5 DEF Infos, Parent
    <2>2. Parent[Root] = Null
      BY <1>0 DEF TreeShape
    <2>3. V # Root => P \in Walked /\ Above(V) = {V} \cup Above(P) /\ Number(P) < Number(V)
      BY <1>0, <1>3, <2>1, TreeFacts DEF TreeShape
    <2>4. Null \notin Walked
      BY <1>0, CfgAssumption DEF TypeOK, Walked
    <2> QED BY <2>1, <2>2, <2>3, <2>4
  <1>7. /\ DOMAIN info' = Walked
        /\ \A x \in Walked :
              /\ info'[x] \in Infos /\ info'[x].parent = info[x].parent
              /\ info'[x].semi = info[x].semi
              /\ info'[x].dom = info[x].dom /\ info'[x].label = info[x].label
              /\ info'[x].ancestor = (IF x = V THEN P ELSE info[x].ancestor)
              /\ info'[x].bucket = (IF x = B THEN Append(info[B].bucket, V) ELSE info[x].bucket)
              /\ info'[x].bucket = put[x].bucket
    <2>1. DOMAIN put = Walked /\ DOMAIN info' = Walked
      BY <1>2 DEF Walked
    <2>2. V \in Blocks
      BY <1>0, <1>3 DEF TypeOK, Walked
    <2> SUFFICES ASSUME NEW x \in Walked
                 PROVE  /\ info'[x] \in Infos /\ info'[x].parent = info[x].parent
                        /\ info'[x].semi = info[x].semi
                        /\ info'[x].dom = info[x].dom /\ info'[x].label = info[x].label
                        /\ info'[x].ancestor = (IF x = V THEN P ELSE info[x].ancestor)
                        /\ info'[x].bucket = (IF x = B THEN Append(info[B].bucket, V) ELSE info[x].bucket)
                        /\ info'[x].bucket = put[x].bucket
      BY <2>1
    <2>3. put[x] = IF x = B THEN [info[x] EXCEPT !.bucket = Append(@, V)] ELSE info[x]
      BY DEF Walked
    <2>4. info[x] \in Infos /\ Append(info[x].bucket, V) \in Seq(Blocks)
      BY <1>5, <2>2
    <2>5. /\ put[x] \in Infos /\ put[x].parent = info[x].parent /\ put[x].semi = info[x].semi
          /\ put[x].dom = info[x].dom /\ put[x].label = info[x].label
          /\ put[x].ancestor = info[x].ancestor
          /\ put[x].bucket = (IF x = B THEN Append(info[B].bucket, V) ELSE info[x].bucket)
      <3>1. CASE x = B
        <4>1. put[x] = [info[x] EXCEPT !.bucket = Append(@, V)]
          BY <2>3, <3>1
        <4> HIDE DEF put
        <4> QED BY <2>4, <3>1, <4>1 DEF Infos
      <3>2. CASE x # B
        <4>1. put[x] = info[x]
          BY <2>3, <3>2
        <4> HIDE DEF put
        <4> QED BY <2>4, <3>2, <4>1
      <3> QED BY <3>1, <3>2
    <2> HIDE DEF put
    <2>6. info'[x] = IF x = V THEN [put[x] EXCEPT !.ancestor = P] ELSE put[x]
      BY <1>2, <2>1
    <2>7. CASE x = V
      <3>1. info'[x] = [put[x] EXCEPT !.ancestor = P]
        BY <2>6, <2>7
      <3>2. put[x] \in Infos /\ P \in MaybeBlock
        BY <1>6, <2>5
      <3>3. /\ info'[x] \in Infos /\ info'[x].parent = put[x].parent /\ info'[x].semi = put[x].semi
            /\ info'[x].dom = put[x].dom /\ info'[x].label = put[x].label
            /\ info'[x].ancestor = P /\ info'[x].bucket = put[x].bucket
        BY <3>1, <3>2 DEF Infos
      <3> QED BY <2>5, <2>7, <3>3
    <2>8. CASE x # V
      BY <2>5, <2>6, <2>8
    <2> QED BY <2>7, <2>8
  <1> HIDE DEF put
  <1>8. Kept
    BY <1>2, <1>7 DEF Kept, graphVars, countVars, Walked
  <1>9. /\ Walked' = Walked /\ Parent' = Parent /\ vertexes' = vertexes /\ predec' = predec
        /\ \A v : Above(v)' = Above(v) /\ Number(v)' = Number(v)
        /\ \A v, a : Between(v, a)' = Between(v, a)
        /\ k' = k /\ Vertex' = V
    BY <1>1, <1>2, <1>8, KeptTree DEF Kept, Between, Vertex
  <1>10. pc' \in {"threw", "bucket"} /\ WalkInv'
    <2>1. pc' \in {"threw", "bucket"}
      BY <1>2
    <2> QED BY <1>0, <1>8, <2>1, KeptWalk
  <1>11. TypeOK'
    <2>1. bucket' \in Seq(Blocks)
      <3>1. CASE P = Null
        BY <1>0, <1>2, <3>1 DEF TypeOK
      <3>2. CASE P # Null
        <4>1. bucket' = info'[P].bucket /\ info'[P] \in Infos
          BY <1>2, <1>6, <1>7, <3>2
        <4> QED BY <4>1 DEF Infos
      <3> QED BY <3>1, <3>2
    <2>2. pc' \in Phases
      BY <1>10 DEF Phases
    <2>3. DOMAIN info' \subseteq Blocks /\ \A v \in DOMAIN info' : info'[v] \in Infos
      BY <1>0, <1>7 DEF TypeOK, Walked
    <2> QED BY <1>0, <1>2, <2>1, <2>2, <2>3 DEF TypeOK, graphVars, resultVars, countVars
  <1>12. CASE P = Null
    <2>1. pc' = "threw"
      BY <1>2, <1>12
    <2>2. Occurs(succ, Root, Root) \/ HasUnreachablePredec
      BY <1>0, <1>1, <1>6, <1>12, UnreachedPredec
    <2>3. ThrowsExactlyOn'
      BY <1>2, <2>1, <2>2 DEF ThrowsExactlyOn, HasUnreachablePredec, Reachable, graphVars
    <2> QED BY <1>10, <1>11, <2>1, <2>3 DEF IInv
  <1>13. CASE P # Null
    <2>1. pc' = "bucket" /\ bucket' = info'[P].bucket /\ V # Root /\ P \in Walked
      BY <1>2, <1>6, <1>7, <1>13
    <2>2. \A x \in Walked : /\ Semi(x)' = Semi(x) /\ SemiBlock(x)' = SemiBlock(x)
                            /\ (Linked(x)' <=> (Linked(x) \/ x = V))
      BY <1>7, <1>9, <1>13 DEF Semi, SemiBlock, Numbered, Linked
    <2>3. ASSUME NEW v \in Walked, NEW a, NEW m, Hangs(v, a, m)
          PROVE  Hangs(v, a, m)'
      <3>1. /\ a \in Above(v) \ {v} /\ m \in Between(v, a)
            /\ \A x \in Between(v, a) : /\ Linked(x) /\ Semi(m) <= Semi(x)
                                        /\ x \notin Above(m) => Semi(m) < Semi(x)
        BY <2>3 DEF Hangs
      <3>2. \A x \in Between(v, a) : x \in Walked /\ Linked(x)' /\ Semi(x)' = Semi(x)
        BY <1>5, <2>2, <3>1 DEF Between
      <3>3. a \in Above(v)' \ {v} /\ m \in Between(v, a)'
        BY <1>9, <3>1
      <3>4. \A x \in Between(v, a)' : /\ Linked(x)' /\ Semi(m)' <= Semi(x)'
                                      /\ x \notin Above(m)' => Semi(m)' < Semi(x)'
        BY <1>9, <3>1, <3>2
      <3> QED BY <3>3, <3>4 DEF Hangs
    <2>4. info[V].label = V
      <3>1. CASE ~Linked(V)
        BY <1>0, <1>3, <3>1 DEF ForestShape
      <3>2. CASE Linked(V)
        <4>1. PICK a, m : a = info[V].ancestor /\ m = info[V].label
          OBVIOUS
        <4>2. Hangs(V, a, m)
          BY <1>0, <1>3, <3>2, <4>1 DEF ForestShape
        <4>3. a \in Above(V) \ {V} /\ m \in Above(V) /\ m \in Walked /\ V \in Between(V, a)
          <5>1. a \in Above(V) \ {V} /\ m \in Above(V)
            BY <4>2 DEF Hangs, Between
          <5>2. V \notin Above(a)
            <6>1. a \in Walked /\ Number(a) < Number(V)
              BY <1>0, <1>3, <1>5, <5>1, TreeFacts
            <6>2. V \in Above(a) => Number(V) <= Number(a)
              BY <1>0, <6>1, TreeFacts
            <6> QED BY <1>3, <1>5, <6>1, <6>2
          <5> QED BY <1>3, <1>5, <5>1, <5>2 DEF Between
        <4>4. V \in Above(m)
          <5>1. V \notin Above(m) => Semi(m) < Semi(V)
            BY <4>2, <4>3 DEF Hangs
          <5> QED BY <1>3, <1>5, <3>2, <4>3, <5>1
        <4>5. m # V => Number(m) < Number(V) /\ Number(V) < Number(m)
          BY <1>0, <1>3, <4>3, <4>4, TreeFacts
        <4> QED BY <1>3, <1>5, <4>1, <4>3, <4>5
      <3> QED BY <3>1, <3>2
    <2>5. Hangs(V, P, V)'
      <3>1. V \notin Above(P) /\ P \in Above(V) /\ P # V
        <4>1. V \in Above(P) => Number(V) <= Number(P)
          BY <1>0, <2>1, TreeFacts
        <4>2. P \in Above(V)
          BY <1>5, <1>6, <2>1
        <4> QED BY <1>3, <1>5, <1>6, <2>1, <4>1, <4>2
      <3>2. Between(V, P) = {V} /\ V \in Above(V)
        BY <1>3, <1>5, <1>6, <2>1, <3>1 DEF Between
      <3>3. /\ P \in Above(V)' \ {V} /\ V \in Between(V, P)' /\ Between(V, P)' = {V} /\ V \in Above(V)'
            /\ Linked(V)' /\ Semi(V)' = Semi(V) /\ Semi(V) \in Nat
        BY <1>3, <1>5, <1>9, <2>2, <3>1, <3>2
      <3> QED BY <3>3 DEF Hangs
    <2>6. ForestShape'
      <3>1. ASSUME NEW v \in Walked, Linked(v)'
            PROVE  Hangs(v, info[v].ancestor, info[v].label)'
        <4>1. CASE v = V
          <5>1. info'[v].ancestor = P /\ info'[v].label = V
            BY <1>3, <1>7, <2>4, <4>1
          <5> QED BY <2>5, <4>1, <5>1
        <4>2. CASE v # V
          <5>1. PICK a, m : a = info[v].ancestor /\ m = info[v].label
            OBVIOUS
          <5>2. Hangs(v, a, m)
            BY <1>0, <2>2, <3>1, <4>2, <5>1 DEF ForestShape
          <5>3. Hangs(v, a, m)'
            BY <2>3, <5>2
          <5>4. info'[v].ancestor = a /\ info'[v].label = m
            BY <1>7, <4>2, <5>1
          <5> QED BY <5>3, <5>4
        <4> QED BY <4>1, <4>2
      <3>2. ASSUME NEW v \in Walked, ~Linked(v)'
            PROVE  info'[v].label = v /\ Semi(v)' = Number(v)'
        <4>1. ~Linked(v) /\ v # V
          BY <2>2, <3>2
        <4>2. info[v].label = v /\ Semi(v) = Number(v)
          BY <1>0, <1>1, <4>1 DEF ForestShape
        <4> QED BY <1>7, <1>9, <2>2, <4>2
      <3> QED BY <1>9, <3>1, <3>2 DEF ForestShape
    <2>7. LinkedWhenHandled'
      <3> SUFFICES ASSUME NEW v \in Walked
                   PROVE  Linked(v)' <=> \E j \in DOMAIN vertexes : Handled(j)' /\ vertexes[j] = v
        BY <1>9 DEF LinkedWhenHandled
      <3>1. \A j \in DOMAIN vertexes : Handled(j)' <=> (Handled(j) \/ j = k)
        BY <1>0, <1>9, <2>1 DEF Handled
      <3>2. vertexes[k] = V
        BY <1>1 DEF Vertex
      <3>3. Linked(v) <=> \E j \in DOMAIN vertexes : Handled(j) /\ vertexes[j] = v
        BY <1>0 DEF LinkedWhenHandled
      <3> QED BY <1>3, <2>2, <3>1, <3>2, <3>3
    <2>8. SemiAbove'
      <3> SUFFICES ASSUME NEW v \in Walked PROVE \E y \in Above(v) : Semi(v)' = Number(y)
        BY <1>9 DEF SemiAbove
      <3> QED BY <1>5, <2>2
    <2>9. PredecsBound'
      <3> SUFFICES ASSUME NEW w \in Walked, Linked(w)', NEW z \in ToSet(predec[w])
                   PROVE  /\ z \in Walked /\ Semi(w)' <= Number(z)
                          /\ \A x \in Above(z) : Number(x) > Number(w) => Semi(w)' <= Semi(x)'
        BY <1>9 DEF PredecsBound, Bounds
      <3>1. z \in Walked /\ Semi(w) <= Number(z) /\ Bounds(z, w)
        BY <1>0, <1>4, <2>2 DEF PredecsBound
      <3> QED BY <1>5, <2>2, <3>1 DEF Bounds
    <2>10. SemisWait'
      <3> SUFFICES ASSUME NEW w \in Walked, NEW y, y = SemiBlock(w), Linked(y)'
                   PROVE  y # Root /\ Number(y) + 1 >= k
        BY <1>9, <2>2 DEF SemisWait
      <3>1. y \in Walked /\ y \in Above(w) /\ Number(y) = Semi(w)
        BY <1>5
      <3>2. CASE Linked(y)
        BY <1>0, <3>2 DEF SemisWait
      <3>3. CASE ~Linked(y) /\ Number(V) = k - 1
        BY <1>3, <2>1, <2>2, <3>1, <3>3
      <3>4. CASE ~Linked(y) /\ Number(V) # k - 1
        <4>1. y = V /\ Number(V) < k - 1 /\ Split(k) /\ Semi(V) = 0
          BY <1>3, <1>4, <2>2, <3>1, <3>4
        <4>2. Number(V) # 0
          BY <1>0, <1>3, <2>1, NumberFacts
        <4>3. Semi(w) # 0 /\ w # V
          BY <3>1, <4>1, <4>2
        <4>4. Linked(w)
          <5>1. ~Linked(w) => Semi(w) = Number(w)
            BY <1>0, <1>1, <4>3 DEF ForestShape
          <5>2. Number(w) = Number(V) => w = V
            BY <1>0, <1>3, NumberFacts
          <5> QED BY <3>1, <4>1, <4>3, <5>1, <5>2
        <4>5. Handled(Number(w) + 1)
          BY <1>3, <4>3, <4>4
        <4>6. Number(w) >= k
          BY <1>0, <1>3, <1>5, <4>5 DEF Handled
        <4>7. Number(V) >= k
          BY <2>1, <3>1, <4>1, <4>6 DEF Split
        <4> QED BY <1>3, <4>1, <4>7
      <3> QED BY <3>2, <3>3, <3>4
    <2>11. \A y \in Walked : ToSet(info'[y].bucket) =
              IF y = B THEN ToSet(info[y].bucket) \cup {V} ELSE ToSet(info[y].bucket)
      <3> SUFFICES ASSUME NEW y \in Walked
                   PROVE  ToSet(info'[y].bucket) =
                             IF y = B THEN ToSet(info[y].bucket) \cup {V} ELSE ToSet(info[y].bucket)
        OBVIOUS
      <3>1. V \in Blocks /\ info[y].bucket \in Seq(Blocks)
        BY <1>0, <1>3, <1>5 DEF TypeOK, Walked
      <3>2. ToSet(Append(info[y].bucket, V)) = ToSet(info[y].bucket) \cup {V}
        BY <3>1, AppendEntries
      <3> QED BY <1>7, <3>2
    <2>12. Buckets'
      <3>1. \A y \in Walked : \A w \in ToSet(info[y].bucket) : w \in Walked /\ Linked(w) /\ SemiBlock(w) = y
        BY <1>0 DEF Buckets
      <3>2. \A w \in Walked : Linked(w) => w \in ToSet(info[SemiBlock(w)].bucket)
        BY <1>0 DEF Buckets
      <3>3. \A y \in Walked : \A w \in ToSet(info'[y].bucket) :
               w \in Walked /\ Linked(w)' /\ SemiBlock(w)' = y
        <4> SUFFICES ASSUME NEW y \in Walked, NEW w \in ToSet(info'[y].bucket)
                     PROVE  w \in Walked /\ Linked(w)' /\ SemiBlock(w)' = y
          OBVIOUS
        <4>1. CASE w \in ToSet(info[y].bucket)
          BY <2>2, <3>1, <4>1
        <4>2. CASE w = V /\ y = B
          BY <1>1, <1>3, <2>2, <4>2
        <4> QED BY <2>11, <4>1, <4>2
      <3>4. \A w \in Walked : Linked(w)' => w \in ToSet(info'[SemiBlock(w)'].bucket)
        BY <1>1, <1>5, <2>2, <2>11, <3>2
      <3>5. ToSet(bucket') = ToSet(info'[P].bucket) /\ P = Parent'[V]
        BY <1>6, <1>9, <2>1
      <3>6. Vertex' # Root /\ ToSet(bucket') \subseteq ToSet(info'[Parent'[Vertex']].bucket)
        BY <1>9, <2>1, <3>5
      <3> QED BY <1>9, <3>3, <3>4, <3>6 DEF Buckets
    <2>13. ASSUME NEW w \in Walked, Deferred(w) PROVE Deferred(w)'
      <3>1. \A x \in Between(w, SemiBlock(w)) : Semi(x)' = Semi(x)
        BY <1>5, <2>2 DEF Between
      <3>2. /\ Between(w, SemiBlock(w))' = Between(w, SemiBlock(w)) /\ SemiBlock(w)' = SemiBlock(w)
            /\ info'[w].dom = info[w].dom /\ Semi(w)' = Semi(w)
        BY <1>7, <1>9, <2>2
      <3>3. CASE info[w].dom = SemiBlock(w) /\ \A x \in Between(w, SemiBlock(w)) : Semi(w) <= Semi(x)
        BY <3>1, <3>2, <3>3 DEF Deferred
      <3>4. CASE /\ info[w].dom \in Between(w, SemiBlock(w)) /\ Semi(info[w].dom) < Semi(w)
                 /\ \A x \in Between(w, SemiBlock(w)) : Semi(info[w].dom) <= Semi(x)
        <4>1. PICK d : d = info[w].dom
          OBVIOUS
        <4>2. info'[w].dom = d /\ Semi(d)' = Semi(d)
          BY <3>1, <3>2, <3>4, <4>1
        <4> QED BY <3>1, <3>2, <3>4, <4>1, <4>2 DEF Deferred
      <3> QED BY <2>13, <3>3, <3>4 DEF Deferred
    <2>14. BucketsEmptied'
      <3> SUFFICES ASSUME NEW w \in Walked, Linked(w)', NEW c \in Above(w) \ {Root},
                          Parent[c] = SemiBlock(w),
                          Number(c) + 1 > k \/ (Number(c) + 1 = k /\ w \notin ToSet(bucket'))
                   PROVE  Deferred(w)'
        BY <1>9, <2>2 DEF BucketsEmptied
      <3>1. c \in Walked /\ Number(c) \in Nat /\ Number(c) <= Number(w) /\ Number(w) \in Nat
        BY <1>0, <1>5, TreeFacts
      <3>2. CASE Number(c) + 1 > k
        <4>1. w # V
          BY <1>3, <3>1, <3>2
        <4>2. Deferred(w)
          BY <1>0, <2>2, <3>2, <4>1 DEF BucketsEmptied
        <4> QED BY <2>13, <4>2
      <3>3. CASE Number(c) + 1 = k /\ w \notin ToSet(bucket')
        <4>1. c = V
          <5>1. vertexes[Number(c) + 1] = c
            BY <1>0, <3>1, NumberFacts
          <5> QED BY <1>1, <3>3, <5>1 DEF Vertex
        <4>2. SemiBlock(w) = P
          BY <1>6, <4>1
        <4>3. w \in ToSet(info'[SemiBlock(w)'].bucket)
          BY <1>9, <2>12 DEF Buckets
        <4> QED BY <2>1, <2>2, <3>3, <4>2, <4>3
      <3> QED BY <3>2, <3>3
    <2>15. ForestInv'
      <3>1. k' \in 2 .. Len(vertexes') /\ p' > 0
        BY <1>0, <1>2, <1>9
      <3>2. ~Linked(Root)'
        BY <1>0, <2>1, <2>2, NumberFacts
      <3>3. PredecsSeen'
        BY <2>1 DEF PredecsSeen
      <3> QED BY <2>6, <2>7, <2>8, <2>9, <2>10, <2>12, <2>14, <3>1, <3>2, <3>3
           DEF ForestInv, Semis
    <2> QED BY <1>10, <1>11, <2>1, <2>15 DEF IInv
  <1> QED BY <1>12, <1>13


\* A block in the bucket of the parent hangs below the parent, unless its
\* semidominator is the root.
LEMMA BucketTree ==
    ASSUME TypeOK, WalkInv, ForestInv, pc = "bucket", NEW v \in ToSet(bucket), NEW r, NEW u,
           Hangs(v, r, u), ~Linked(r), Semi(v) # 0
    PROVE  r = SemiBlock(v)
  <1>0. /\ NumbersShape /\ TreeShape /\ InStep /\ Intervals /\ Semis /\ SemiAbove
        /\ SemisWait /\ Buckets
    BY DEF WalkInv, Tree, ForestInv, Semis
  <1>1. PICK V, P : V = Vertex /\ P = Parent[V]
    OBVIOUS
  <1>2. /\ k \in Nat /\ V \in Walked /\ Number(V) \in Nat /\ Number(V) <= k - 1
        /\ Number(V) # k - 1 => Split(k)
        /\ \A w \in Walked : Handled(Number(w) + 1) => Linked(w)
        /\ \A w \in Walked : Linked(w) /\ ~Handled(Number(w) + 1) => Semi(w) = 0
    BY <1>1, TurnFacts
  <1>3. V # Root /\ v \in ToSet(info[P].bucket)
    BY <1>0, <1>1 DEF Buckets
  <1>4. P \in Walked /\ Number(P) < Number(V) /\ Above(V) = {V} \cup Above(P)
    BY <1>0, <1>1, <1>2, <1>3, TreeFacts DEF TreeShape
  <1>5. v \in Walked /\ Linked(v) /\ SemiBlock(v) = P
    BY <1>0, <1>3, <1>4 DEF Buckets
  <1>6. \A x \in Walked : Number(x) \in Nat /\ Above(x) \subseteq Walked
    BY <1>0, NumberFacts, TreeFacts
  <1>7. P \in Above(v) /\ Number(P) = Semi(v) /\ P # Root /\ v # Root
    <2>1. P \in Above(v) /\ Number(P) = Semi(v)
      BY <1>0, <1>5, SemiFacts
    <2>2. Number(Root) = 0 /\ Above(Root) = {Root}
      BY <1>0, NumberFacts, TreeFacts
    <2> QED BY <2>1, <2>2
  <1>8. ~Linked(P)
    <2>1. Linked(P) => Number(P) + 1 >= k
      BY <1>0, <1>5 DEF SemisWait
    <2> QED BY <1>2, <1>4, <1>6, <2>1
  <1>9. r \in Above(v) /\ r \in Walked /\ P \in Above(r)
    <2>1. r \in Above(v) /\ \A x \in Between(v, r) : Linked(x)
      BY DEF Hangs
    <2> QED BY <1>5, <1>6, <1>7, <1>8, <2>1 DEF Between
  <1>10. SUFFICES ASSUME r # P PROVE FALSE
    BY <1>5
  <1>11. r \in Between(v, P)
    <2>1. r \notin Above(P)
      <3>1. Number(P) < Number(r)
        BY <1>0, <1>9, <1>10, TreeFacts
      <3>2. r \in Above(P) => Number(r) <= Number(P)
        BY <1>0, <1>4, TreeFacts
      <3> QED BY <1>4, <1>6, <1>9, <3>1, <3>2
    <2> QED BY <1>9, <2>1 DEF Between
  <1>12. PICK c \in Above(v) \ {Root} : Parent[c] = P
    BY <1>0, <1>5, <1>7, SemiBelow
  <1>13. c \in Walked /\ Number(c) <= Number(r) /\ Number(P) < Number(c)
    BY <1>0, <1>5, <1>6, <1>11, <1>12, BetweenChild DEF TreeShape
  <1>14. Number(c) < k - 1
    <2>1. ~Handled(Number(r) + 1)
      BY <1>2, <1>9, <1>10
    <2>2. ~(Number(r) + 1 > k \/ Number(r) + 1 = k)
      BY <2>1 DEF Handled
    <2> QED BY <1>2, <1>6, <1>9, <1>13, <2>2
  <1>15. k - 1 <= Number(v)
    <2>1. Handled(Number(v) + 1)
      BY <1>2, <1>5
    <2> QED BY <1>2, <1>5, <1>6, <2>1 DEF Handled
  <1>16. CASE Number(V) = k - 1
    <2>1. c \in Above(V)
      <3>1. Number(c) <= Number(V) /\ Number(V) <= Number(v)
        BY <1>2, <1>6, <1>13, <1>14, <1>15, <1>16
      <3> QED BY <1>0, <1>2, <1>5, <1>12, <1>13, <3>1 DEF Intervals
    <2>2. c # V
      BY <1>14, <1>16, <1>2
    <2>3. c \in Above(P)
      BY <1>4, <2>1, <2>2
    <2>4. Number(c) <= Number(P)
      BY <1>0, <1>4, <2>3, TreeFacts
    <2> QED BY <1>4, <1>6, <1>13, <2>4
  <1>17. CASE Number(V) # k - 1
    <2>1. Number(v) # k - 1
      <3>1. vertexes[Number(v) + 1] = v
        BY <1>0, <1>5, NumberFacts
      <3>2. Number(v) = k - 1 => v = V
        BY <1>1, <1>2, <3>1 DEF Vertex
      <3> QED BY <1>17, <3>2
    <2>2. Number(v) >= k
      BY <1>2, <1>5, <1>6, <1>15, <2>1
    <2>3. Number(P) >= k
      BY <1>2, <1>5, <1>7, <1>17, <2>2 DEF Split
    <2> QED BY <1>2, <1>4, <1>6, <2>3
  <1> QED BY <1>16, <1>17

\* One block of the bucket gets its semidominator or a block to defer to.
LEMMA EmptyBucketStep ==
    ASSUME IInv, EmptyBucket
    PROVE  IInv'
  <1>0. /\ TypeOK /\ WalkInv /\ pc = "bucket" /\ bucket # <<>> /\ ForestInv
        /\ NumbersShape /\ TreeShape /\ InStep /\ SemiAbove /\ PredecsBound
        /\ LinkedWhenHandled /\ ForestShape /\ SemisWait /\ Buckets /\ BucketsEmptied
        /\ ~Linked(Root) /\ k \in 2 .. Len(vertexes) /\ p > 0
    BY DEF IInv, EmptyBucket, WalkInv, Tree, ForestInv, Semis
  <1>1. PICK V, P, v, u : V = Vertex /\ P = Parent[V] /\ v = Last(bucket) /\ u = Eval(info, v)
    OBVIOUS
  <1>2. bucket \in Seq(Blocks)
    BY <1>0 DEF TypeOK
  <1>3. Front(bucket) \in Seq(Blocks) /\ ToSet(bucket) = ToSet(Front(bucket)) \cup {v}
    BY <1>0, <1>1, <1>2, FrontEntries
  <1>4. V \in Walked /\ V # Root /\ ToSet(bucket) \subseteq ToSet(info[P].bucket)
    BY <1>0, <1>1, TurnFacts DEF Buckets
  <1>5. P \in Walked /\ P = info[V].parent
    BY <1>0, <1>1, <1>4 DEF TreeShape, Parent
  <1>6. v \in Walked /\ Linked(v) /\ SemiBlock(v) = P
    BY <1>0, <1>3, <1>4, <1>5 DEF Buckets
  <1> DEFINE inf == EvalInfo(info, v)
  <1>7. Reshaped(inf) /\ Evaluated(v, u)
    BY <1>0, <1>1, <1>6, EvalFacts
  <1>8. PICK r : Hangs(v, r, u) /\ ~Linked(r)
    BY <1>6, <1>7 DEF Evaluated
  <1>9. \A x \in Walked : /\ Semi(x) \in Nat /\ Above(x) \subseteq Walked /\ x \in Above(x)
                          /\ SemiBlock(x) \in Walked /\ Number(SemiBlock(x)) = Semi(x)
    BY <1>0, SemiFacts, TreeFacts
  <1>10. u \in Walked /\ u \in Between(v, r) /\ \A x \in Between(v, r) : Semi(u) <= Semi(x)
    BY <1>6, <1>8, <1>9 DEF Hangs, Between
  <1>11. PICK dom : dom = IF Semi(u) < Semi(v) THEN u ELSE P
    OBVIOUS
  <1>12. /\ info' = [inf EXCEPT ![v].dom = dom] /\ bucket' = Front(bucket)
         /\ UNCHANGED <<graphVars, resultVars, vertexes, stack, k, p, pc, countVars>>
    <2>1. inf[u].semi = Semi(u) /\ inf[v].semi = Semi(v)
      BY <1>6, <1>7, <1>10 DEF Reshaped, Semi
    <2>2. dom = IF inf[u].semi < inf[v].semi THEN u ELSE info[V].parent
      BY <1>5, <1>11, <2>1
    <2> QED BY <1>1, <2>2 DEF EmptyBucket
  <1> HIDE DEF inf
  <1>13. dom \in Walked /\ dom \in MaybeBlock
    BY <1>0, <1>5, <1>10, <1>11 DEF TypeOK, Walked, MaybeBlock
  <1>14. /\ DOMAIN info' = Walked
         /\ \A x \in Walked :
               /\ info'[x] \in Infos /\ info'[x].parent = info[x].parent
               /\ info'[x].semi = info[x].semi /\ info'[x].bucket = info[x].bucket
               /\ info'[x].ancestor = inf[x].ancestor /\ info'[x].label = inf[x].label
               /\ info'[x].dom = (IF x = v THEN dom ELSE info[x].dom)
    <2>1. DOMAIN inf = Walked
      BY <1>7 DEF Reshaped
    <2> SUFFICES ASSUME NEW x \in Walked
                 PROVE  /\ info'[x] \in Infos /\ info'[x].parent = info[x].parent
                        /\ info'[x].semi = info[x].semi /\ info'[x].bucket = info[x].bucket
                        /\ info'[x].ancestor = inf[x].ancestor /\ info'[x].label = inf[x].label
                        /\ info'[x].dom = (IF x = v THEN dom ELSE info[x].dom)
      BY <1>12, <2>1
    <2>2. /\ inf[x] \in Infos /\ inf[x].parent = info[x].parent
          /\ inf[x].semi = info[x].semi /\ inf[x].bucket = info[x].bucket
          /\ inf[x].dom = info[x].dom
      BY <1>7 DEF Reshaped
    <2>3. CASE x = v
      <3>1. info'[x] = [inf[x] EXCEPT !.dom = dom]
        BY <1>12, <2>1, <2>3
      <3>2. /\ info'[x] \in Infos /\ info'[x].parent = inf[x].parent
            /\ info'[x].semi = inf[x].semi /\ info'[x].bucket = inf[x].bucket
            /\ info'[x].ancestor = inf[x].ancestor /\ info'[x].label = inf[x].label
            /\ info'[x].dom = dom
        BY <1>13, <2>2, <3>1 DEF Infos
      <3> QED BY <2>2, <2>3, <3>2
    <2>4. CASE x # v
      <3>1. info'[x] = inf[x]
        BY <1>12, <2>1, <2>4
      <3> QED BY <2>2, <2>4, <3>1
    <2> QED BY <2>3, <2>4
  <1>15. Steady /\ Kept
    <2>1. Kept
      BY <1>12, <1>14 DEF Kept, graphVars, countVars, Walked
    <2>2. \A x \in Walked : info'[x].ancestor # Null <=> info[x].ancestor # Null
      BY <1>7, <1>14 DEF Reshaped, Linked
    <2> QED BY <1>12, <1>14, <2>1, <2>2 DEF Steady
  <1>16. /\ Walked' = Walked /\ Parent' = Parent /\ vertexes' = vertexes
         /\ \A x : Above(x)' = Above(x) /\ Number(x)' = Number(x)
         /\ \A x, a : Between(x, a)' = Between(x, a)
         /\ \A x \in Walked : /\ Semi(x)' = Semi(x) /\ (Linked(x)' <=> Linked(x))
                              /\ SemiBlock(x)' = SemiBlock(x)
         /\ SemiAbove' /\ PredecsBound'
         /\ \A x \in Walked : \A a, l : Hangs(x, a, l) => Hangs(x, a, l)'
    BY <1>0, <1>15, SteadyFacts
  <1>17. k' = k /\ p' = p /\ pc' = "bucket" /\ Vertex' = V /\ predec' = predec
    BY <1>0, <1>1, <1>12 DEF Vertex, graphVars
  <1>18. WalkInv'
    BY <1>0, <1>15, <1>17, KeptWalk
  <1>19. TypeOK'
    <2>1. DOMAIN info' \subseteq Blocks /\ \A x \in DOMAIN info' : info'[x] \in Infos
      BY <1>0, <1>14 DEF TypeOK, Walked
    <2> QED BY <1>0, <1>3, <1>12, <2>1 DEF TypeOK, graphVars, resultVars, countVars
  <1>20. ForestShape'
    <2>1. ASSUME NEW x \in Walked, Linked(x)
          PROVE  Hangs(x, info[x].ancestor, info[x].label)'
      <3>1. PICK a, m : a = inf[x].ancestor /\ m = inf[x].label
        OBVIOUS
      <3>2. Hangs(x, a, m)
        BY <1>7, <2>1, <3>1 DEF Reshaped
      <3>3. Hangs(x, a, m)'
        BY <1>16, <3>2
      <3>4. info'[x].ancestor = a /\ info'[x].label = m
        BY <1>14, <3>1
      <3> QED BY <3>3, <3>4
    <2>2. ASSUME NEW x \in Walked, ~Linked(x)
          PROVE  info'[x].label = x /\ Semi(x)' = Number(x)'
      <3>1. info[x].label = x /\ Semi(x) = Number(x)
        BY <1>0, <2>2 DEF ForestShape
      <3>2. info'[x].label = info[x].label
        BY <1>7, <1>14, <2>2 DEF Reshaped
      <3> QED BY <1>16, <3>1, <3>2
    <2> QED BY <1>16, <2>1, <2>2 DEF ForestShape
  <1>21. LinkedWhenHandled'
    <2>1. \A j \in DOMAIN vertexes : Handled(j)' <=> Handled(j)
      BY <1>0, <1>17 DEF Handled
    <2> QED BY <1>0, <1>16, <2>1 DEF LinkedWhenHandled
  <1>22. SemisWait'
    <2> SUFFICES ASSUME NEW w \in Walked, NEW y, y = SemiBlock(w), Linked(y)'
                 PROVE  y # Root /\ Number(y) + 1 >= k
      BY <1>16, <1>17 DEF SemisWait
    <2>1. Linked(y)
      BY <1>9, <1>16
    <2> QED BY <1>0, <2>1 DEF SemisWait
  <1>23. Buckets'
    <2>1. \A y \in Walked : \A w \in ToSet(info[y].bucket) : w \in Walked /\ Linked(w) /\ SemiBlock(w) = y
      BY <1>0 DEF Buckets
    <2>2. \A w \in Walked : Linked(w) => w \in ToSet(info[SemiBlock(w)].bucket)
      BY <1>0 DEF Buckets
    <2>3. \A y \in Walked : ToSet(info'[y].bucket) = ToSet(info[y].bucket)
      BY <1>14
    <2>4. \A y \in Walked : \A w \in ToSet(info'[y].bucket) : w \in Walked /\ Linked(w)' /\ SemiBlock(w)' = y
      BY <1>16, <2>1, <2>3
    <2>5. \A w \in Walked : Linked(w)' => w \in ToSet(info'[SemiBlock(w)'].bucket)
      BY <1>9, <1>16, <2>2, <2>3
    <2>6. Vertex' # Root /\ ToSet(bucket') \subseteq ToSet(info'[Parent'[Vertex']].bucket)
      BY <1>1, <1>3, <1>4, <1>5, <1>12, <1>16, <1>17, <2>3
    <2> QED BY <1>16, <2>4, <2>5, <2>6 DEF Buckets
  <1>24. Deferred(v)'
    <2>1. CASE Semi(v) = 0
      <3>1. dom = SemiBlock(v)
        BY <1>6, <1>9, <1>10, <1>11, <2>1
      <3>2. \A x \in Between(v, SemiBlock(v)) : Semi(x)' = Semi(x) /\ Semi(v) <= Semi(x)
        BY <1>6, <1>9, <1>16, <2>1 DEF Between
      <3>3. /\ Between(v, SemiBlock(v))' = Between(v, SemiBlock(v)) /\ SemiBlock(v)' = SemiBlock(v)
            /\ info'[v].dom = dom /\ Semi(v)' = Semi(v)
        BY <1>6, <1>14, <1>16
      <3> QED BY <3>1, <3>2, <3>3 DEF Deferred
    <2>2. CASE Semi(v) # 0
      <3>1. r = SemiBlock(v)
        BY <1>0, <1>3, <1>8, <2>2, BucketTree
      <3>2. \A x \in Between(v, r) : x \in Walked /\ Semi(x)' = Semi(x) /\ Semi(u) <= Semi(x)
        BY <1>6, <1>9, <1>10, <1>16 DEF Between
      <3>3. /\ Between(v, SemiBlock(v))' = Between(v, r) /\ SemiBlock(v)' = r
            /\ info'[v].dom = dom /\ Semi(v)' = Semi(v) /\ Semi(u)' = Semi(u)
        BY <1>6, <1>10, <1>14, <1>16, <3>1
      <3>4. CASE Semi(u) < Semi(v)
        <4>1. info'[v].dom = u /\ Semi(u)' < Semi(v)' /\ u \in Between(v, SemiBlock(v))'
          BY <1>10, <1>11, <3>3, <3>4
        <4>2. \A x \in Between(v, SemiBlock(v))' : Semi(u)' <= Semi(x)'
          BY <3>2, <3>3
        <4> QED BY <4>1, <4>2 DEF Deferred
      <3>5. CASE ~(Semi(u) < Semi(v))
        <4>1. dom = SemiBlock(v)
          BY <1>6, <1>11, <3>5
        <4>2. \A x \in Between(v, SemiBlock(v))' : Semi(v)' <= Semi(x)'
          BY <1>6, <1>9, <1>10, <3>2, <3>3, <3>5
        <4> QED BY <3>1, <3>3, <4>1, <4>2 DEF Deferred
      <3> QED BY <3>4, <3>5
    <2> QED BY <2>1, <2>2
  <1>25. ASSUME NEW w \in Walked, w # v, Deferred(w) PROVE Deferred(w)'
    <2>1. \A x \in Between(w, SemiBlock(w)) : Semi(x)' = Semi(x)
      BY <1>9, <1>16 DEF Between
    <2>2. /\ Between(w, SemiBlock(w))' = Between(w, SemiBlock(w)) /\ SemiBlock(w)' = SemiBlock(w)
          /\ info'[w].dom = info[w].dom /\ Semi(w)' = Semi(w)
      BY <1>14, <1>16, <1>25
    <2>3. CASE info[w].dom = SemiBlock(w) /\ \A x \in Between(w, SemiBlock(w)) : Semi(w) <= Semi(x)
      BY <2>1, <2>2, <2>3 DEF Deferred
    <2>4. CASE /\ info[w].dom \in Between(w, SemiBlock(w)) /\ Semi(info[w].dom) < Semi(w)
               /\ \A x \in Between(w, SemiBlock(w)) : Semi(info[w].dom) <= Semi(x)
      <3>1. PICK d : d = info[w].dom
        OBVIOUS
      <3>2. info'[w].dom = d /\ Semi(d)' = Semi(d)
        BY <2>1, <2>2, <2>4, <3>1
      <3> QED BY <2>1, <2>2, <2>4, <3>1, <3>2 DEF Deferred
    <2> QED BY <1>25, <2>3, <2>4 DEF Deferred
  <1>26. BucketsEmptied'
    <2> SUFFICES ASSUME NEW w \in Walked, Linked(w), NEW c \in Above(w) \ {Root},
                        Parent[c] = SemiBlock(w),
                        Number(c) + 1 > k \/ (Number(c) + 1 = k /\ w \notin ToSet(bucket'))
                 PROVE  Deferred(w)'
      BY <1>16, <1>17 DEF BucketsEmptied
    <2>1. CASE w = v
      BY <1>24, <2>1
    <2>2. CASE w # v
      <3>1. w \notin ToSet(bucket') => w \notin ToSet(bucket)
        BY <1>3, <1>12, <2>2
      <3>2. Deferred(w)
        BY <1>0, <3>1 DEF BucketsEmptied
      <3> QED BY <1>25, <2>2, <3>2
    <2> QED BY <2>1, <2>2
  <1>27. ForestInv'
    <2>1. k' \in 2 .. Len(vertexes') /\ p' > 0
      BY <1>0, <1>16, <1>17
    <2>2. ~Linked(Root)'
      BY <1>0, <1>16, NumberFacts
    <2>3. PredecsSeen'
      BY <1>17 DEF PredecsSeen
    <2> QED BY <1>16, <1>20, <1>21, <1>22, <1>23, <1>26, <2>1, <2>2, <2>3 DEF ForestInv, Semis
  <1> QED BY <1>17, <1>18, <1>19, <1>27 DEF IInv


-----------------------------------------------------------------------------
(* The dominators.                                                         *)

\* What there is once every vertex is linked.
LinkedFacts ==
    /\ TypeOK /\ InStep /\ Tree /\ AllWalked /\ AllLinked

\* The tree and the bounds, as the lemmas below need them.
LEMMA LinkedTree ==
    ASSUME LinkedFacts
    PROVE  /\ NumbersShape /\ TreeShape /\ EdgesDown /\ Intervals /\ SecondNumbers /\ SemiAbove
           /\ Walked \in SUBSET Blocks /\ Root \in Walked /\ succ \in [Blocks -> Seq(Blocks)]
           /\ Number(Root) = 0 /\ Len(vertexes) \in Nat
           /\ \A u, v \in Walked : Number(u) = Number(v) => u = v
           /\ \A x \in Walked : /\ Semi(x) \in Nat /\ Number(x) \in Nat /\ Semi(x) <= Number(x)
                                /\ SemiBlock(x) \in Above(x) /\ SemiBlock(x) \in Walked
                                /\ Number(SemiBlock(x)) = Semi(x)
                                /\ x \in Above(x) /\ Above(x) \subseteq Walked
                                /\ Root \in Above(x) /\ ToSet(succ[x]) \subseteq Walked
           /\ \A w \in Walked \ {Root} : \A u \in Walked : Occurs(succ, u, w) =>
                 Semi(w) <= Number(u) /\ Bounds(u, w)
           /\ \A w \in Walked \ {Root} : SemiBlock(w) # w
  <1>1. /\ TypeOK /\ InStep /\ NumbersShape /\ TreeShape /\ EdgesDown /\ Intervals /\ SecondNumbers
        /\ SemiAbove /\ PredecsBound /\ Semis /\ AllWalked
        /\ \A w \in Walked \ {Root} : Linked(w)
    BY DEF LinkedFacts, Tree, AllLinked, Semis
  <1>2. /\ Walked \in SUBSET Blocks /\ Root \in Walked /\ Number(Root) = 0
        /\ succ \in [Blocks -> Seq(Blocks)] /\ Len(vertexes) \in Nat
        /\ \A u, v \in Walked : Number(u) = Number(v) => u = v
    BY <1>1, NumberFacts DEF TypeOK
  <1>3. \A x \in Walked : /\ Semi(x) \in Nat /\ Number(x) \in Nat /\ Semi(x) <= Number(x)
                          /\ SemiBlock(x) \in Above(x) /\ SemiBlock(x) \in Walked
                          /\ Number(SemiBlock(x)) = Semi(x)
                          /\ x \in Above(x) /\ Above(x) \subseteq Walked
                          /\ Root \in Above(x) /\ ToSet(succ[x]) \subseteq Walked
    BY <1>1, NumberFacts, SemiFacts, TreeFacts DEF AllWalked, Finished
  <1>4. ASSUME NEW w \in Walked \ {Root}, NEW u \in Walked, Occurs(succ, u, w)
        PROVE  Semi(w) <= Number(u) /\ Bounds(u, w)
    <2>1. u \in ToSet(predec[w])
      BY <1>1, <1>2, <1>4 DEF InStep, Occurs
    <2> QED BY <1>1, <2>1 DEF PredecsBound
  <1>5. \A w \in Walked \ {Root} : SemiBlock(w) # w
    BY <1>1, SemiBelow
  <1> QED BY <1>1, <1>2, <1>3, <1>4, <1>5

\* Blocks with no semidominator less than m on their own part of the way up.
\* An edge enters the region only from the common part, at a number not below m.
Region(s, m) == {y \in Walked : y \notin Above(s) /\ \A z \in Between(y, s) : Semi(z) >= m}

\* A path enters the region below s only from above s.
LEMMA EntersRegion ==
    ASSUME LinkedFacts, NEW s \in Walked, NEW m \in Nat, NEW y \in Region(s, m),
           NEW x \in Walked, Occurs(succ, x, y)
    PROVE  x \in Region(s, m) \/ (x \in Above(s) /\ Number(x) >= m)
  <1>0. TypeOK /\ NumbersShape /\ TreeShape
    BY LinkedTree DEF LinkedFacts
  <1>1. y \in Walked /\ y \notin Above(s) /\ \A z \in Between(y, s) : Semi(z) >= m
    BY DEF Region
  <1>2. y # Root /\ y \in Between(y, s)
    BY <1>1, LinkedTree DEF Between
  <1>3. Semi(y) >= m /\ Semi(y) <= Number(x) /\ Bounds(x, y) /\ Semi(y) \in Nat /\ Number(x) \in Nat
    BY <1>1, <1>2, LinkedTree
  <1>4. CASE x \in Above(s)
    BY <1>3, <1>4
  <1>5. CASE x \notin Above(s)
    <2> SUFFICES ASSUME NEW z \in Between(x, s) PROVE Semi(z) >= m
      BY <1>5 DEF Region
    <2>1. z \in Above(x) /\ z \notin Above(s) /\ z \in Walked
      BY LinkedTree DEF Between
    <2>2. /\ Number(x) \in Nat /\ Number(y) \in Nat /\ Number(z) \in Nat /\ Semi(z) \in Nat
          /\ Number(z) <= Number(x)
      BY <1>0, <1>1, <2>1, LinkedTree, TreeFacts
    <2>3. CASE Number(z) > Number(y)
      <3>1. Semi(y) <= Semi(z)
        BY <1>3, <2>1, <2>3 DEF Bounds
      <3> QED BY <1>3, <2>2, <3>1
    <2>4. CASE Number(z) <= Number(y)
      <3>1. z \in Above(y)
        <4>1. CASE Number(x) < Number(y)
          <5>1. y \in ToSet(succ[x]) \cap Walked
            BY <1>1 DEF Occurs
          <5>2. x \in Above(y)
            BY <4>1, <5>1, LinkedTree DEF EdgesDown
          <5> QED BY <1>0, <1>1, <2>1, <5>2, TreeFacts
        <4>2. CASE Number(y) <= Number(x)
          BY <1>1, <2>1, <2>4, <4>2, LinkedTree DEF Intervals
        <4> QED BY <2>2, <4>1, <4>2
      <3> QED BY <1>1, <2>1, <3>1 DEF Between
    <2> QED BY <2>2, <2>3, <2>4
  <1> QED BY <1>4, <1>5

\* A block between which and its semidominator no block has a lesser one is
\* dominated by its semidominator.
LEMMA SemiDominates ==
    ASSUME LinkedFacts, NEW w \in Walked \ {Root},
           \A x \in Between(w, SemiBlock(w)) : Semi(w) <= Semi(x)
    PROVE  StrictlyDominates(succ, Root, SemiBlock(w), w)
  <1> DEFINE s == SemiBlock(w)
             S == Walked \ Region(s, Semi(w))
  <1>0. TypeOK /\ NumbersShape /\ TreeShape
    BY LinkedTree DEF LinkedFacts
  <1>1. /\ s \in Walked /\ s \in Above(w) /\ Number(s) = Semi(w) /\ s # w /\ Semi(w) \in Nat
        /\ Number(w) \in Nat
    BY LinkedTree
  <1>2. w \in Region(s, Semi(w))
    <2>1. Number(s) < Number(w)
      BY <1>0, <1>1, TreeFacts
    <2>2. w \in Above(s) => Number(w) <= Number(s)
      BY <1>0, <1>1, TreeFacts
    <2>3. w \notin Above(s)
      BY <1>1, <2>1, <2>2
    <2>4. \A x \in Between(w, s) : Semi(x) >= Semi(w)
      BY <1>1, LinkedTree DEF Between
    <2> QED BY <2>3, <2>4 DEF Region
  <1>3. S \in SUBSET Blocks /\ Root \in S
    <2>1. Root \in Above(s)
      BY <1>1, LinkedTree
    <2> QED BY <2>1, LinkedTree DEF Region
  <1>4. ClosedExcept(succ, S, {s})
    <2> SUFFICES ASSUME NEW x \in S, x # s, NEW y \in ToSet(succ[x]) PROVE y \in S
      BY DEF ClosedExcept
    <2>1. y \in Walked /\ Occurs(succ, x, y)
      BY LinkedTree DEF Occurs
    <2> SUFFICES ASSUME y \in Region(s, Semi(w)) PROVE FALSE
      BY <2>1
    <2>2. x \in Above(s) /\ Number(x) >= Semi(w)
      BY <1>1, <2>1, EntersRegion
    <2>3. Number(x) < Number(s)
      BY <1>0, <1>1, <2>2, TreeFacts
    <2>4. Number(x) \in Nat
      BY LinkedTree
    <2> QED BY <1>1, <2>2, <2>3, <2>4
  <1>5. w \notin S
    BY <1>2
  <1> HIDE DEF S, s
  <1>6. w \notin ReachAvoiding(succ, Root, {s})
    <2>1. DOMAIN succ = Blocks
      BY LinkedTree
    <2> QED BY <1>3, <1>4, <1>5, <2>1 DEF ReachAvoiding
  <1> QED BY <1>1, <1>6 DEF StrictlyDominates, Dominates, s

\* From a block that is reached paths lead down the tree, as far as no block
\* of Cut is passed.
LEMMA PathDown ==
    ASSUME TypeOK, NumbersShape, TreeShape, NEW u \in Walked, NEW x \in Above(u),
           NEW o \in Blocks, NEW Cut, x \in ReachAvoiding(succ, o, Cut),
           \A z \in Above(u) : x \in Above(z) /\ z # u => z \notin Cut
    PROVE  u \in ReachAvoiding(succ, o, Cut)
  <1> DEFINE R == ReachAvoiding(succ, o, Cut)
             Z == {z \in Above(u) : x \in Above(z) /\ z \notin R}
             T == {Number(z) : z \in Z}
  <1>1. \A z \in Above(u) : z \in Walked /\ Number(z) \in Nat
    BY TreeFacts, NumberFacts
  <1> SUFFICES ASSUME u \notin R PROVE FALSE
    OBVIOUS
  <1>2. T \in SUBSET Nat /\ T # {}
    <2>1. u \in Z
      BY TreeFacts
    <2> QED BY <1>1, <2>1
  <1>3. PICK n \in T : \A m \in T : n <= m
    <2> HIDE DEF T
    <2> QED BY <1>2, LeastNat
  <1>4. PICK z \in Z : Number(z) = n
    BY <1>3
  <1>5. z \in Walked /\ z # x /\ z # Root
    <2>1. Above(Root) = {Root}
      BY TreeFacts
    <2> QED BY <1>1, <1>4, <2>1
  <1>6. PICK q : q = Parent[z]
    OBVIOUS
  <1>7. /\ q \in Walked /\ Number(q) < Number(z) /\ Occurs(succ, q, z)
        /\ Above(z) = {z} \cup Above(q)
    BY <1>5, <1>6, TreeFacts DEF TreeShape
  <1>8. x \in Above(q) /\ q \in Above(u)
    <2>1. q \in Above(z) /\ Above(z) \subseteq Above(u)
      BY <1>7, TreeFacts
    <2> QED BY <1>5, <1>7, <2>1
  <1>9. q \in R
    <2>1. q \notin R => Number(q) \in T
      BY <1>8
    <2> QED BY <1>1, <1>3, <1>4, <1>7, <1>8, <2>1
  <1>10. q \notin Cut
    <2>1. Number(z) <= Number(u) /\ Number(z) \in Nat /\ Number(u) \in Nat /\ Number(q) \in Nat
      BY <1>1, <1>5, <1>7, NumberFacts, TreeFacts
    <2>2. q # u
      BY <1>7, <2>1
    <2> QED BY <1>8, <2>2
  <1>11. z \in R
    <2>1. z \in ToSet(succ[q]) /\ succ \in [Blocks -> Seq(Blocks)]
      BY <1>7 DEF Occurs, TypeOK
    <2> QED BY <1>9, <1>10, <2>1, AvoidEdge
  <1> QED BY <1>4, <1>11

\* Below a block that is reached on a path around D lie, in the tree, blocks
\* that are reached around D as well.
LEMMA ReachDown ==
    ASSUME LinkedFacts, NEW u \in Walked, NEW x \in Above(u), NEW D \in Walked,
           Number(D) < Number(x), x \in ReachAvoiding(succ, Root, {D})
    PROVE  u \in ReachAvoiding(succ, Root, {D})
  <1>1. TypeOK /\ NumbersShape /\ TreeShape
    BY LinkedTree DEF LinkedFacts
  <1>2. ASSUME NEW z \in Above(u), x \in Above(z) PROVE z # D
    <2>1. z \in Walked /\ Number(x) <= Number(z) /\ x \in Walked
      BY <1>1, <1>2, LinkedTree, TreeFacts
    <2> QED BY <2>1, LinkedTree
  <1>3. Root \in Blocks
    BY LinkedTree
  <1> QED BY <1>1, <1>2, <1>3, PathDown

\* A block has the dominator of the block between it and its semidominator
\* whose semidominator is the least.
LEMMA DeferredDominates ==
    ASSUME LinkedFacts, NEW w \in Walked \ {Root}, NEW u \in Between(w, SemiBlock(w)),
           \A x \in Between(w, SemiBlock(w)) : Semi(u) <= Semi(x), Semi(u) < Semi(w),
           Resolved(u), NEW D, D = info[u].dom
    PROVE  D \in Above(w) /\ Number(D) <= Semi(w) /\ StrictlyDominates(succ, Root, D, w)
  <1> DEFINE R == ReachAvoiding(succ, Root, {D})
             S == R \ Region(SemiBlock(w), Semi(u))
  <1>0. TypeOK /\ NumbersShape /\ TreeShape
    BY LinkedTree DEF LinkedFacts
  <1>1. PICK s : s = SemiBlock(w)
    OBVIOUS
  <1>2. /\ s \in Walked /\ s \in Above(w) /\ s # w /\ Number(s) = Semi(w)
        /\ u \in Above(w) /\ u \notin Above(s) /\ u \in Walked
        /\ Semi(w) \in Nat /\ Semi(u) \in Nat /\ Semi(w) <= Number(w) /\ Number(w) \in Nat
    BY <1>1, LinkedTree DEF Between
  <1>3. D \in Above(u) /\ Number(D) <= Semi(u) /\ D # u /\ u \notin R
    BY DEF Resolved, StrictlyDominates, Dominates
  <1>4. D \in Walked /\ Number(D) \in Nat
    BY <1>2, <1>3, LinkedTree
  <1>5. D \in Above(w) /\ Number(D) <= Semi(w) /\ D # w
    <2>1. D \in Above(w)
      BY <1>0, <1>2, <1>3, TreeFacts
    <2> QED BY <1>2, <1>3, <1>4, <2>1
  <1>6. s \in Above(u)
    <2>1. Number(s) <= Number(u)
      <3>1. Number(u) <= Number(s) => u \in Above(s)
        BY <1>0, <1>2, TreeFacts
      <3>2. Number(s) \in Nat /\ Number(u) \in Nat
        BY <1>2, LinkedTree
      <3> QED BY <1>2, <3>1, <3>2
    <2> QED BY <1>0, <1>2, <2>1, TreeFacts
  <1>7. w \in Region(s, Semi(u))
    <2>1. Number(s) < Number(w)
      BY <1>0, <1>2, TreeFacts
    <2>2. w \in Above(s) => Number(w) <= Number(s)
      BY <1>0, <1>2, TreeFacts
    <2>3. w \notin Above(s)
      BY <1>2, <2>1, <2>2
    <2>4. \A x \in Between(w, s) : Semi(x) >= Semi(u)
      BY <1>1, <1>2, LinkedTree DEF Between
    <2> QED BY <2>3, <2>4 DEF Region
  <1>8. DOMAIN succ = Blocks /\ Root \in Blocks /\ Walked \in SUBSET Blocks
    BY LinkedTree
  <1>9. R \subseteq Walked
    <2>1. ClosedExcept(succ, Walked, {D}) /\ Root \in Walked
      BY LinkedTree DEF ClosedExcept
    <2> QED BY <1>8, <2>1 DEF ReachAvoiding
  <1>10. Root \in S
    <2>1. Root \in R
      BY <1>8, LinkedTree, AvoidReflexive
    <2>2. Root \in Above(s)
      BY <1>2, LinkedTree
    <2> QED BY <1>1, <2>1, <2>2 DEF Region
  <1>11. ClosedExcept(succ, S, {D})
    <2> SUFFICES ASSUME NEW x \in S, x # D, NEW y \in ToSet(succ[x]) PROVE y \in S
      BY DEF ClosedExcept
    <2>1. y \in R
      <3>1. x \notin {D} /\ succ \in [Blocks -> Seq(Blocks)] /\ Root \in Blocks
        BY <1>8, LinkedTree
      <3> QED BY <3>1, AvoidEdge
    <2> SUFFICES ASSUME y \in Region(s, Semi(u)) PROVE FALSE
      BY <1>1, <2>1
    <2>2. x \in Above(s) /\ Number(x) >= Semi(u)
      <3>1. x \in Walked /\ Occurs(succ, x, y) /\ x \notin Region(s, Semi(u))
        BY <1>1, <1>9 DEF Occurs
      <3> QED BY <1>2, <3>1, EntersRegion
    <2>3. x \in Above(u) /\ x \in Walked /\ Number(x) \in Nat
      BY <1>0, <1>2, <1>6, <1>9, <2>2, LinkedTree, TreeFacts
    <2>4. Number(D) < Number(x)
      <3>1. Number(D) # Number(x)
        BY <1>4, <2>3, LinkedTree
      <3> QED BY <1>2, <1>3, <1>4, <2>2, <2>3, <3>1
    <2> QED BY <1>2, <1>3, <1>4, <2>3, <2>4, ReachDown
  <1>12. w \notin S /\ S \in SUBSET Blocks
    BY <1>1, <1>7, <1>8, <1>9
  <1> HIDE DEF S
  <1>13. w \notin R
    BY <1>8, <1>10, <1>11, <1>12 DEF ReachAvoiding
  <1> QED BY <1>5, <1>13 DEF StrictlyDominates, Dominates


-----------------------------------------------------------------------------
(* RunStep4 and what follows.                                              *)

\* What d is when it is the dominator that w ends up with.
Resolves(d, w) == d \in Above(w) /\ Number(d) <= Semi(w) /\ StrictlyDominates(succ, Root, d, w)

\* A vertex that is deferred gets its dominator; one that comes a second time
\* is dominated by the root alone and keeps it.
LEMMA FixedDom ==
    ASSUME LinkedFacts, k > 1, k <= Len(vertexes), k \in Nat,
           \A w \in Walked \ {Root} : IF Number(w) + 1 < k THEN Resolved(w) ELSE Deferred(w),
           NEW V, V = Vertex, NEW dom, dom = info[V].dom
    PROVE  /\ V \in Walked \ {Root} /\ Number(V) <= k - 1
           /\ dom = SemiBlock(V) => Resolves(dom, V)
           /\ dom # SemiBlock(V) => dom \in Walked /\ Resolves(info[dom].dom, V)
  <1>1. /\ TypeOK /\ NumbersShape /\ TreeShape /\ SecondNumbers /\ ~RootTwice /\ Len(vertexes) \in Nat
    BY LinkedTree DEF LinkedFacts, AllLinked
  <1>2. DOMAIN vertexes = 1 .. Len(vertexes) /\ k \in 1 .. Len(vertexes) /\ k \in 2 .. Len(vertexes)
    BY <1>1 DEF TypeOK
  <1>3. V \in Walked /\ Number(V) \in Nat /\ Number(V) <= k - 1 /\ V # Root
    <2>1. V \in Walked /\ Number(V) <= k - 1
      BY <1>1, <1>2, NumberFacts DEF Vertex
    <2> QED BY <1>1, <1>2, <2>1, LinkedTree DEF RootTwice, Vertex
  <1>4. CASE Number(V) # k - 1
    <2>1. Occurs(succ, Root, V)
      <3>1. Second(k)
        BY <1>4 DEF Second, Vertex
      <3> QED BY <1>1, <1>2, <3>1 DEF SecondNumbers, Vertex
    <2>2. Semi(V) = 0
      BY <1>3, <2>1, LinkedTree
    <2>3. Resolved(V)
      <3>1. Number(V) + 1 < k
        BY <1>3, <1>4
      <3> QED BY <1>3, <3>1
    <2>4. Resolves(dom, V)
      BY <2>3 DEF Resolved, Resolves
    <2>5. dom = SemiBlock(V)
      <3>1. dom \in Walked /\ Number(dom) <= 0
        BY <1>3, <2>2, <2>4, LinkedTree DEF Resolves
      <3>2. SemiBlock(V) \in Walked /\ Number(SemiBlock(V)) = 0 /\ Number(dom) \in Nat
        BY <1>3, <2>2, <3>1, LinkedTree
      <3>3. Number(dom) = Number(SemiBlock(V))
        BY <3>1, <3>2
      <3> QED BY <3>1, <3>2, <3>3, LinkedTree
    <2> QED BY <1>3, <2>4, <2>5
  <1>5. CASE Number(V) = k - 1
    <2>1. Deferred(V)
      <3>1. ~(Number(V) + 1 < k)
        BY <1>3, <1>5
      <3> QED BY <1>3, <3>1
    <2>2. PICK s : s = SemiBlock(V)
      OBVIOUS
    <2>3. s \in Above(V) /\ Number(s) = Semi(V) /\ Semi(V) \in Nat /\ s \in Above(s)
      BY <1>3, <2>2, LinkedTree
    <2>4. CASE dom = s
      <3>1. s \notin Between(V, s)
        BY <2>3 DEF Between
      <3>2. \A x \in Between(V, s) : Semi(V) <= Semi(x)
        BY <2>1, <2>2, <2>4, <3>1 DEF Deferred
      <3>3. StrictlyDominates(succ, Root, s, V)
        BY <1>3, <2>2, <3>2, SemiDominates
      <3> QED BY <1>3, <2>2, <2>3, <2>4, <3>3 DEF Resolves
    <2>5. CASE dom # s
      <3>1. /\ dom \in Between(V, s) /\ Semi(dom) < Semi(V)
            /\ \A x \in Between(V, s) : Semi(dom) <= Semi(x)
        BY <2>1, <2>2, <2>5 DEF Deferred
      <3>2. dom \in Walked /\ dom # Root /\ dom \in Above(V) /\ dom # V
        <4>1. dom \in Above(V) /\ dom \notin Above(s)
          BY <3>1 DEF Between
        <4>2. Root \in Above(s) /\ dom \in Walked
          BY <1>3, <2>2, <4>1, LinkedTree
        <4> QED BY <2>3, <3>1, <4>1, <4>2
      <3>3. Resolved(dom)
        <4>1. Number(dom) < Number(V) /\ Number(dom) \in Nat
          BY <1>1, <1>3, <3>2, LinkedTree, TreeFacts
        <4>2. Number(dom) + 1 < k
          BY <1>3, <1>5, <4>1
        <4> QED BY <3>2, <4>2
      <3>4. PICK D : D = info[dom].dom
        OBVIOUS
      <3>5. D \in Above(V) /\ Number(D) <= Semi(V) /\ StrictlyDominates(succ, Root, D, V)
        BY <1>3, <2>2, <3>1, <3>2, <3>3, <3>4, DeferredDominates
      <3> QED BY <1>3, <2>2, <2>5, <3>2, <3>4, <3>5 DEF Resolves
    <2> QED BY <2>4, <2>5
  <1> QED BY <1>4, <1>5

\* Steps after which one block has another dominator and all else is as it was.
OnlyDom(V, D) ==
    /\ DOMAIN info' = Walked
    /\ \A x \in Walked : info'[x] = IF x = V THEN [info[x] EXCEPT !.dom = D] ELSE info[x]
    /\ UNCHANGED <<graphVars, vertexes, countVars>>

\* Writing one dominator disturbs nothing but what is said of dominators.
LEMMA OnlyDomFacts ==
    ASSUME LinkedFacts, WalkInv, NEW V \in Walked, NEW D \in MaybeBlock, OnlyDom(V, D),
           pc \notin {"start", "dfs", "done"}, pc' \notin {"start", "dfs", "forest", "done"}
    PROVE  /\ WalkInv' /\ AllLinked' /\ Walked' = Walked
           /\ \A v \in DOMAIN info' : v \in Blocks /\ info'[v] \in Infos
           /\ \A x : Above(x)' = Above(x) /\ Number(x)' = Number(x)
           /\ \A x \in Walked \ {V} : /\ info'[x].dom = info[x].dom
                                      /\ Resolved(x) => Resolved(x)'
                                      /\ Deferred(x) => Deferred(x)'
           /\ info'[V].dom = D /\ (Resolves(D, V) => Resolved(V)')
  <1>1. /\ TypeOK /\ NumbersShape /\ TreeShape /\ SemiAbove /\ PredecsBound /\ AllLinked
        /\ \A x \in Walked : info[x] \in Infos
        /\ Walked \subseteq Blocks
    BY LinkedTree DEF LinkedFacts, AllLinked, Semis, TypeOK, Walked
  <1>2. \A x \in Walked : /\ info'[x] \in Infos /\ info'[x].semi = info[x].semi
                          /\ info'[x].ancestor = info[x].ancestor /\ info'[x].parent = info[x].parent
                          /\ info'[x].dom = IF x = V THEN D ELSE info[x].dom
    <2> SUFFICES ASSUME NEW x \in Walked
                 PROVE  /\ info'[x] \in Infos /\ info'[x].semi = info[x].semi
                        /\ info'[x].ancestor = info[x].ancestor /\ info'[x].parent = info[x].parent
                        /\ info'[x].dom = IF x = V THEN D ELSE info[x].dom
      OBVIOUS
    <2>1. info[x] \in Infos
      BY <1>1
    <2>2. CASE x = V
      <3>1. info'[x] = [info[x] EXCEPT !.dom = D]
        BY <2>2 DEF OnlyDom
      <3> QED BY <2>1, <2>2, <3>1 DEF Infos
    <2>3. CASE x # V
      BY <2>1, <2>3 DEF OnlyDom
    <2> QED BY <2>2, <2>3
  <1>3. Steady /\ Kept /\ DOMAIN info' = Walked
    BY <1>2 DEF OnlyDom, Steady, Kept, graphVars, countVars, Walked
  <1>4. /\ Walked' = Walked /\ RootTwice' = RootTwice /\ SemiAbove' /\ PredecsBound'
        /\ \A x : Above(x)' = Above(x) /\ Number(x)' = Number(x)
        /\ \A x, a : Between(x, a)' = Between(x, a)
        /\ \A x \in Walked : Semi(x)' = Semi(x) /\ (Linked(x)' <=> Linked(x)) /\ SemiBlock(x)' = SemiBlock(x)
    BY <1>1, <1>3, SteadyFacts, KeptTree
  <1>5. AllLinked'
    BY <1>1, <1>4 DEF AllLinked, Semis
  <1>6. WalkInv'
    BY <1>3, KeptWalk
  <1>7. succ' = succ
    BY DEF OnlyDom, graphVars
  <1>8. ASSUME NEW x \in Walked \ {V}, Resolved(x) PROVE Resolved(x)'
    <2>1. info'[x].dom = info[x].dom
      BY <1>2
    <2> QED BY <1>4, <1>7, <1>8, <2>1 DEF Resolved
  <1>9. ASSUME NEW x \in Walked \ {V}, Deferred(x) PROVE Deferred(x)'
    <2>1. \A z \in Between(x, SemiBlock(x)) : Semi(z)' = Semi(z)
      BY <1>1, <1>4, TreeFacts DEF Between
    <2>2. /\ Between(x, SemiBlock(x))' = Between(x, SemiBlock(x)) /\ SemiBlock(x)' = SemiBlock(x)
          /\ info'[x].dom = info[x].dom /\ Semi(x)' = Semi(x)
      BY <1>2, <1>4
    <2>3. CASE info[x].dom = SemiBlock(x) /\ \A z \in Between(x, SemiBlock(x)) : Semi(x) <= Semi(z)
      BY <2>1, <2>2, <2>3 DEF Deferred
    <2>4. CASE /\ info[x].dom \in Between(x, SemiBlock(x)) /\ Semi(info[x].dom) < Semi(x)
               /\ \A z \in Between(x, SemiBlock(x)) : Semi(info[x].dom) <= Semi(z)
      <3>1. PICK d : d = info[x].dom
        OBVIOUS
      <3>2. info'[x].dom = d /\ Semi(d)' = Semi(d)
        BY <2>1, <2>2, <2>4, <3>1
      <3> QED BY <2>1, <2>2, <2>4, <3>1, <3>2 DEF Deferred
    <2> QED BY <1>9, <2>3, <2>4 DEF Deferred
  <1>10. ASSUME Resolves(D, V) PROVE Resolved(V)'
    <2>1. info'[V].dom = D
      BY <1>2
    <2>2. D \in Above(V)' /\ Number(D)' <= Semi(V)' /\ StrictlyDominates(succ', Root, D, V)
      BY <1>4, <1>7, <1>10 DEF Resolves
    <2> QED BY <2>1, <2>2 DEF Resolved
  <1> QED BY <1>1, <1>2, <1>3, <1>4, <1>5, <1>6, <1>8, <1>9, <1>10

\* A block that was deferred takes over the dominator of the other one; at()
\* does not throw here.
LEMMA FixDomEffect ==
    ASSUME IInv, FixDom, NEW V, V = Vertex, NEW dom, dom = info[V].dom,
           NEW D, D = IF dom = SemiBlock(V) THEN dom ELSE info[dom].dom
    PROVE  /\ V \in Walked \ {Root} /\ Number(V) <= k - 1
           /\ D \in MaybeBlock /\ Resolves(D, V)
           /\ DOMAIN info' = Walked /\ pc' = pc /\ k' = k + 1
           /\ \A x \in Walked : info'[x] = IF x = V THEN [info[x] EXCEPT !.dom = D] ELSE info[x]
           /\ UNCHANGED <<graphVars, resultVars, vertexes, stack, p, bucket, countVars>>
  <1>0. /\ TypeOK /\ WalkInv /\ pc = "step4" /\ AllLinked /\ k > 1 /\ k <= Len(vertexes)
        /\ \A w \in Walked \ {Root} : IF Number(w) + 1 < k THEN Resolved(w) ELSE Deferred(w)
    BY DEF IInv, FixDom
  <1>1. LinkedFacts /\ k \in Nat
    BY <1>0 DEF LinkedFacts, WalkInv, TypeOK
  <1>3. /\ V \in Walked \ {Root} /\ Number(V) <= k - 1
        /\ dom = SemiBlock(V) => Resolves(dom, V)
        /\ dom # SemiBlock(V) => dom \in Walked /\ Resolves(info[dom].dom, V)
    BY <1>0, <1>1, FixedDom
  <1>5. \A x \in Walked : info[x] \in Infos
    BY <1>0 DEF TypeOK, Walked
  <1>6. D \in MaybeBlock /\ Resolves(D, V)
    <2>1. D \in Walked
      BY <1>1, <1>3, LinkedTree DEF Resolves
    <2> QED BY <1>1, <1>3, <2>1, LinkedTree DEF MaybeBlock
  <1>7. /\ DOMAIN info' = Walked /\ pc' = pc /\ k' = k + 1
        /\ \A x \in Walked : info'[x] = IF x = V THEN [info[x] EXCEPT !.dom = D] ELSE info[x]
        /\ UNCHANGED <<graphVars, resultVars, vertexes, stack, p, bucket, countVars>>
    <2>1. /\ IF dom = SemiBlock(V)
             THEN UNCHANGED <<info, pc>>
             ELSE IF dom \in Walked
                  THEN info' = [info EXCEPT ![V].dom = info[dom].dom] /\ UNCHANGED pc
                  ELSE pc' = "threw" /\ UNCHANGED info
          /\ k' = k + 1
          /\ UNCHANGED <<graphVars, resultVars, vertexes, stack, p, bucket, countVars>>
      BY DEF FixDom, SemiBlock, Semi, Walked
    <2>2. CASE dom = SemiBlock(V)
      <3>1. [info[V] EXCEPT !.dom = D] = info[V]
        <4>1. info[V] \in Infos /\ info[V].dom = D
          BY <1>3, <1>5, <2>2
        <4> QED BY <4>1 DEF Infos
      <3> QED BY <2>1, <2>2, <3>1 DEF Walked
    <2>3. CASE dom # SemiBlock(V)
      <3>1. info' = [info EXCEPT ![V].dom = D] /\ pc' = pc
        BY <1>3, <2>1, <2>3
      <3> QED BY <2>1, <3>1 DEF Walked
    <2> QED BY <2>2, <2>3
  <1> QED BY <1>3, <1>6, <1>7

\* So all is as it was but for one dominator, which is resolved.
LEMMA FixDomStep ==
    ASSUME IInv, FixDom
    PROVE  IInv'
  <1>0. /\ TypeOK /\ WalkInv /\ pc = "step4" /\ AllLinked /\ k > 1 /\ k <= Len(vertexes)
        /\ \A w \in Walked \ {Root} : IF Number(w) + 1 < k THEN Resolved(w) ELSE Deferred(w)
    BY DEF IInv, FixDom
  <1>1. LinkedFacts /\ k \in Nat
    BY <1>0 DEF LinkedFacts, WalkInv, TypeOK
  <1>2. PICK V, dom, D : /\ V = Vertex /\ dom = info[V].dom
                         /\ D = IF dom = SemiBlock(V) THEN dom ELSE info[dom].dom
    OBVIOUS
  <1>3. V \in Walked \ {Root} /\ Number(V) <= k - 1
    BY <1>2, FixDomEffect
  <1>6. D \in MaybeBlock /\ Resolves(D, V)
    BY <1>2, FixDomEffect
  <1>7. /\ DOMAIN info' = Walked /\ pc' = pc /\ k' = k + 1
        /\ \A x \in Walked : info'[x] = IF x = V THEN [info[x] EXCEPT !.dom = D] ELSE info[x]
        /\ UNCHANGED <<graphVars, resultVars, vertexes, stack, p, bucket, countVars>>
    BY <1>2, FixDomEffect
  <1>8. OnlyDom(V, D)
    BY <1>7 DEF OnlyDom
  <1>9. /\ WalkInv' /\ AllLinked' /\ Walked' = Walked
        /\ \A v \in DOMAIN info' : v \in Blocks /\ info'[v] \in Infos
        /\ \A x : Above(x)' = Above(x) /\ Number(x)' = Number(x)
        /\ \A x \in Walked \ {V} : /\ Resolved(x) => Resolved(x)'
                                   /\ Deferred(x) => Deferred(x)'
        /\ Resolved(V)'
    <2>1. /\ V \in Walked /\ pc \notin {"start", "dfs", "done"}
          /\ pc' \notin {"start", "dfs", "forest", "done"}
      BY <1>0, <1>3, <1>7
    <2> HIDE DEF OnlyDom, Resolves
    <2> QED BY <1>0, <1>1, <1>6, <1>8, <2>1, OnlyDomFacts
  <1>10. TypeOK'
    <2>1. k' \in Nat
      BY <1>1, <1>7
    <2> QED BY <1>0, <1>7, <1>9, <2>1 DEF TypeOK, graphVars, resultVars, countVars
  <1>11. ASSUME NEW w \in Walked \ {Root}
         PROVE  IF Number(w) + 1 < k + 1 THEN Resolved(w)' ELSE Deferred(w)'
    <2>1. Number(w) \in Nat /\ Number(V) \in Nat
      BY <1>1, <1>3, LinkedTree
    <2>2. CASE w = V
      BY <1>1, <1>3, <1>9, <2>1, <2>2
    <2>3. CASE w # V /\ Number(w) + 1 < k
      BY <1>0, <1>1, <1>9, <2>1, <2>3
    <2>4. CASE w # V /\ ~(Number(w) + 1 < k)
      <3>1. Number(w) # k - 1
        <4>1. vertexes[Number(w) + 1] = w
          BY <1>0, <1>1, LinkedTree, NumberFacts
        <4>2. Number(w) = k - 1 => w = V
          BY <1>1, <1>2, <4>1 DEF Vertex
        <4> QED BY <2>4, <4>2
      <3>2. ~(Number(w) + 1 < k + 1)
        BY <1>1, <2>1, <2>4, <3>1
      <3> QED BY <1>0, <1>9, <2>4, <3>2
    <2> QED BY <2>2, <2>3, <2>4
  <1>12. k' > 1 /\ k' > 0 /\ pc' = "step4"
    BY <1>0, <1>1, <1>7
  <1>13. \A w \in Walked' \ {Root} : IF Number(w)' + 1 < k' THEN Resolved(w)' ELSE Deferred(w)'
    BY <1>7, <1>9, <1>11
  <1> QED BY <1>9, <1>10, <1>12, <1>13 DEF IInv

\* The root loses its dominator again.
LEMMA ClearRootDomStep ==
    ASSUME IInv, ClearRootDom
    PROVE  IInv'
  <1>0. /\ TypeOK /\ WalkInv /\ pc = "step4" /\ AllLinked /\ k > Len(vertexes)
        /\ \A w \in Walked \ {Root} : IF Number(w) + 1 < k THEN Resolved(w) ELSE Deferred(w)
        /\ info' = [info EXCEPT ![Root].dom = Null] /\ pc' = "build" /\ k' = 1
        /\ UNCHANGED <<graphVars, resultVars, vertexes, stack, p, bucket, countVars>>
    BY DEF IInv, ClearRootDom
  <1>1. LinkedFacts /\ k \in Nat
    BY <1>0 DEF LinkedFacts, WalkInv, TypeOK
  <1>2. ASSUME NEW w \in Walked \ {Root} PROVE Resolved(w)
    <2>1. Number(w) < Len(vertexes) /\ Number(w) \in Nat /\ Len(vertexes) \in Nat
      BY <1>0, <1>1, LinkedTree, NumberFacts
    <2>2. Number(w) + 1 < k
      BY <1>0, <1>1, <2>1
    <2> QED BY <1>0, <2>2
  <1>3. OnlyDom(Root, Null)
    BY <1>0 DEF OnlyDom, Walked
  <1>4. /\ WalkInv' /\ AllLinked' /\ Walked' = Walked
        /\ \A v \in DOMAIN info' : v \in Blocks /\ info'[v] \in Infos
        /\ \A x \in Walked \ {Root} : Resolved(x) => Resolved(x)'
        /\ info'[Root].dom = Null
    <2>1. Root \in Walked /\ Null \in MaybeBlock
      BY <1>1, LinkedTree DEF MaybeBlock
    <2>2. pc \notin {"start", "dfs", "done"} /\ pc' \notin {"start", "dfs", "forest", "done"}
      BY <1>0
    <2> QED BY <1>0, <1>1, <1>3, <2>1, <2>2, OnlyDomFacts
  <1>5. TypeOK'
    <2>1. k' \in Nat /\ pc' \in Phases
      BY <1>0 DEF Phases
    <2> QED BY <1>0, <1>4, <2>1 DEF TypeOK, graphVars, resultVars, countVars
  <1>6. k' > 0
    BY <1>0
  <1> QED BY <1>0, <1>2, <1>4, <1>5, <1>6 DEF IInv

\* One block gets its result.
LEMMA BuildVertexStep ==
    ASSUME IInv, BuildVertex
    PROVE  IInv'
  <1>0. /\ TypeOK /\ WalkInv /\ pc = "build" /\ AllLinked /\ k > 0 /\ k <= Len(vertexes)
        /\ info[Root].dom = Null /\ \A w \in Walked \ {Root} : Resolved(w)
    BY DEF IInv, BuildVertex
  <1>1. PICK V, dom : V = Vertex /\ dom = info[V].dom
    OBVIOUS
  <1>2. /\ idom' = [idom EXCEPT ![V] = dom]
        /\ dominated' = IF dom = Null THEN dominated ELSE PushBack(dominated, dom, V)
        /\ k' = k + 1
        /\ UNCHANGED <<graphVars, vertexes, info, stack, p, bucket, pc, countVars>>
    BY <1>1 DEF BuildVertex
  <1>3. LinkedFacts /\ k \in Nat /\ vertexes \in Seq(Blocks)
    BY <1>0 DEF LinkedFacts, WalkInv, TypeOK
  <1>4. V \in Walked /\ V \in Blocks /\ info[V] \in Infos
    <2>1. k \in 1 .. Len(vertexes)
      BY <1>0, <1>3
    <2>2. V \in Walked
      BY <1>1, <1>3, <2>1, LinkedTree, NumberFacts DEF Vertex, LinkedFacts
    <2> QED BY <1>0, <2>2 DEF TypeOK, Walked
  <1>5. dom \in MaybeBlock
    BY <1>1, <1>4 DEF Infos
  <1>6. idom' \in [Blocks -> MaybeBlock] /\ dominated' \in [Blocks -> Seq(Blocks)] /\ k' \in Nat /\ k' > 0
    <2>1. idom \in [Blocks -> MaybeBlock] /\ dominated \in [Blocks -> Seq(Blocks)]
      BY <1>0 DEF TypeOK
    <2>2. idom' \in [Blocks -> MaybeBlock] /\ k' \in Nat /\ k' > 0
      <3>1. idom' \in [Blocks -> MaybeBlock]
        BY <1>2, <1>5, <2>1
      <3>2. k' \in Nat /\ k' > 0
        BY <1>0, <1>2, <1>3
      <3> QED BY <3>1, <3>2
    <2>3. CASE dom = Null
      BY <1>2, <2>1, <2>2, <2>3
    <2>4. CASE dom # Null
      <3>1. dom \in Blocks
        BY <1>5, <2>4 DEF MaybeBlock
      <3>2. Append(dominated[dom], V) \in Seq(Blocks)
        BY <1>4, <2>1, <3>1, AppendEntries
      <3>3. dominated' = [dominated EXCEPT ![dom] = Append(dominated[dom], V)]
        BY <1>2, <2>4 DEF PushBack
      <3> QED BY <2>1, <2>2, <3>2, <3>3
    <2> QED BY <2>3, <2>4
  <1>7. TypeOK'
    BY <1>0, <1>2, <1>6 DEF TypeOK, graphVars, countVars
  <1>8. Kept
    BY <1>2 DEF Kept, graphVars, countVars
  <1>9. WalkInv'
    BY <1>0, <1>2, <1>8, KeptWalk
  <1>10. AllLinked' /\ info'[Root].dom = Null /\ (\A w \in Walked \ {Root} : Resolved(w))'
    <2>1. Walked' = Walked /\ \A x : Above(x)' = Above(x) /\ Number(x)' = Number(x)
      BY <1>8, KeptTree
    <2>2. \A x : Semi(x)' = Semi(x) /\ Linked(x)' = Linked(x)
      BY <1>2 DEF Semi, Linked
    <2>3. succ' = succ /\ predec' = predec /\ info' = info /\ RootTwice' = RootTwice
      BY <1>2, <1>8, KeptTree DEF graphVars
    <2>4. Semis' = Semis
      BY <2>1, <2>2, <2>3 DEF Semis, SemiAbove, PredecsBound, Bounds
    <2>5. AllLinked'
      BY <1>0, <2>1, <2>2, <2>3, <2>4 DEF AllLinked
    <2>6. \A w \in Walked \ {Root} : Resolved(w)'
      BY <1>0, <2>1, <2>2, <2>3 DEF Resolved
    <2> QED BY <1>0, <2>1, <2>3, <2>5, <2>6
  <1> QED BY <1>0, <1>2, <1>6, <1>7, <1>9, <1>10 DEF IInv

\* The tables are cleared.
LEMMA FinishStep ==
    ASSUME IInv, Finish
    PROVE  IInv'
  <1>0. /\ TypeOK /\ WalkInv /\ vertexes' = <<>> /\ info' = <<>> /\ pc' = "done"
        /\ UNCHANGED <<graphVars, resultVars, stack, k, p, bucket, countVars>>
    BY DEF IInv, Finish
  <1>1. TypeOK'
    <2>1. DOMAIN info' = {} /\ pc' \in Phases
      BY <1>0 DEF Phases
    <2> QED BY <1>0, <2>1 DEF TypeOK, graphVars, resultVars, countVars
  <1>2. WalkInv'
    BY <1>0 DEF WalkInv, InStep, graphVars, countVars
  <1> QED BY <1>0, <1>1, <1>2 DEF IInv

-----------------------------------------------------------------------------
(* The theorems.                                                           *)

\* The steps of the walk leave what is said of the later phases alone.
LEMMA WalkSteps ==
    ASSUME TypeOK', WalkInv', pc' \in {"start", "dfs", "forest"}
    PROVE  IInv'
  BY DEF IInv

\* DomTree::Run, with any graph and any edits in between, keeps the invariant.
THEOREM Invariance == Spec => []IInv
  <1>1. Init => IInv
    <2> SUFFICES ASSUME Init PROVE IInv
      OBVIOUS
    <2>1. TypeOK /\ WalkInv
      BY InitWalk
    <2> QED BY <2>1 DEF Init, IInv
  <1>2. IInv /\ [Next]_vars => IInv'
    <2> SUFFICES ASSUME IInv, [Next]_vars PROVE IInv'
      OBVIOUS
    <2>0. TypeOK /\ WalkInv
      BY DEF IInv
    <2>1. CASE Run
      <3>1. pc' = "dfs"
        BY <2>1 DEF Run
      <3> QED BY <2>0, <2>1, <3>1, RunWalk, WalkSteps
    <2>2. CASE CallDFS
      <3>1. pc' = "dfs"
        BY <2>2 DEF CallDFS, AtSuccessor
      <3> QED BY <2>0, <2>2, <3>1, CallWalk, WalkSteps
    <2>3. CASE PassOver
      <3>1. pc' = "dfs"
        BY <2>3 DEF PassOver, AtSuccessor
      <3> QED BY <2>0, <2>3, <3>1, PassOverWalk, WalkSteps
    <2>4. CASE Return
      <3>1. pc' \in {"dfs", "forest"}
        BY <2>4 DEF Return
      <3> QED BY <2>0, <2>4, <3>1, ReturnWalk, WalkSteps
    <2>5. CASE MakeForest
      BY <2>5, MakeForestStep
    <2>6. CASE EvalPredec
      BY <2>6, EvalPredecStep
    <2>7. CASE LinkVertex
      BY <2>7, LinkVertexStep
    <2>8. CASE EmptyBucket
      BY <2>8, EmptyBucketStep
    <2>9. CASE NextVertex
      BY <2>9, NextVertexStep
    <2>10. CASE FixDom
      BY <2>10, FixDomStep
    <2>11. CASE ClearRootDom
      BY <2>11, ClearRootDomStep
    <2>12. CASE BuildVertex
      BY <2>12, BuildVertexStep
    <2>13. CASE Finish
      BY <2>13, FinishStep
    <2>14. CASE Edits
      <3>1. pc' = "start"
        BY <2>14 DEF Edits, AddEdge, RemoveEdge, Edit
      <3> QED BY <2>0, <2>14, <3>1, EditWalk, WalkSteps
    <2>15. CASE UNCHANGED vars
      <3>1. /\ UNCHANGED <<succ, predec, idom, dominated, vertexes, info, stack, k, p, bucket, pc>>
            /\ UNCHANGED <<runs, edits, plan>>
        BY <2>15 DEF vars, graphVars, resultVars, countVars
      <3>2. TypeOK' = TypeOK
        BY <3>1 DEF TypeOK
      <3>3. UNCHANGED IInv
        BY <3>1 DEF IInv, TypeOK, WalkInv, InStep, Tree, NumbersShape, TreeShape, EdgesDown,
                    Intervals, SecondNumbers, Second, Split, WalkedReachable, Reachable, Walked,
                    Parent, Above, Number, Walking, FramesShape, Passed, RootTwice, OpenOrFinished,
                    Finished, ActiveChain, ActiveSpan, Open, Spans, AfterSeconds, Fresh, AllWalked,
                    ForestInv, Linked, LinkedWhenHandled, Handled, ForestShape, Hangs, Between, Semi,
                    Vertex, Semis, SemiAbove, PredecsBound, Bounds, PredecsSeen, SemisWait, SemiBlock,
                    Numbered, Buckets, BucketsEmptied, Deferred, AllLinked, Resolved,
                    ThrowsExactlyOn, HasUnreachablePredec
      <3> QED BY <3>3
    <2> QED BY <2>1, <2>2, <2>3, <2>4, <2>5, <2>6, <2>7, <2>8, <2>9, <2>10, <2>11, <2>12, <2>13,
               <2>14, <2>15 DEF Next, Steps, Ended
  <1> QED BY <1>1, <1>2, PTL DEF Spec

\* Every component of the state has its type.
THEOREM Typed == Spec => []TypeOK
  <1>1. IInv => TypeOK
    BY DEF IInv
  <1> QED BY <1>1, Invariance, PTL

\* Run throws when the root is its own successor or a reachable block has an
\* unreachable predecessor, and on no other graph.
THEOREM ThrowsRight == Spec => []ThrowsExactlyOn
  <1>1. IInv => ThrowsExactlyOn
    <2> SUFFICES ASSUME IInv PROVE ThrowsExactlyOn
      OBVIOUS
    <2>1. CASE pc = "threw"
      BY <2>1 DEF IInv
    <2>2. CASE pc = "build"
      <3>1. /\ TypeOK /\ Tree /\ AllWalked /\ AllLinked
        BY <2>2 DEF IInv, WalkInv
      <3>2. ~Occurs(succ, Root, Root)
        BY <3>1 DEF AllWalked, AllLinked
      <3>3. Walked = Reachable
        BY <3>1, WalkedIsReachable DEF Tree
      <3>4. \A v \in Walked \ {Root} : ToSet(predec[v]) \subseteq Walked
        BY <3>1 DEF AllLinked, Semis, PredecsBound
      <3>5. ~HasUnreachablePredec
        BY <3>3, <3>4 DEF HasUnreachablePredec
      <3> QED BY <2>2, <3>2, <3>5 DEF ThrowsExactlyOn
    <2>3. CASE pc \notin {"threw", "build"}
      BY <2>3 DEF ThrowsExactlyOn
    <2> QED BY <2>1, <2>2, <2>3
  <1> QED BY <1>1, Invariance, PTL

\* When the result is written into the blocks, every reached block but the root
\* has a dominator that strictly dominates it.
THEOREM IdomsAreDominators == Spec => []IdomsDominate
  <1>1. IInv => IdomsDominate
    <2> SUFFICES ASSUME IInv, pc = "build", NEW v \in ToSet(vertexes) \ {Root}
                 PROVE  StrictlyDominates(succ, Root, info[v].dom, v)
      BY DEF IdomsDominate
    <2>1. v \in Walked \ {Root} /\ Resolved(v)
      BY DEF IInv, WalkInv, Tree, NumbersShape
    <2> QED BY <2>1 DEF Resolved
  <1> QED BY <1>1, Invariance, PTL

-----------------------------------------------------------------------------
(* Dominators and the tree of the DFS.                                     *)

\* A strict dominator of a block is above it in the tree.
LEMMA DominatorAbove ==
    ASSUME TypeOK, NumbersShape, TreeShape, NEW w \in Walked, NEW c,
           StrictlyDominates(succ, Root, c, w)
    PROVE  c \in Above(w) /\ c # w /\ c \in Walked
  <1>1. c # w /\ w \notin ReachAvoiding(succ, Root, {c})
    BY DEF StrictlyDominates, Dominates
  <1>2. Root \in Blocks /\ succ \in [Blocks -> Seq(Blocks)] /\ Root \in Above(w)
        /\ Above(w) \subseteq Walked
    BY NumberFacts, TreeFacts DEF TypeOK
  <1>3. Root \in ReachAvoiding(succ, Root, {c})
    BY <1>2, AvoidReflexive
  <1>4. c \in Above(w)
    BY <1>1, <1>2, <1>3, PathDown
  <1> QED BY <1>1, <1>2, <1>4

\* A strict dominator of w further up than s, which is above w, dominates s.
LEMMA DominatorOfAbove ==
    ASSUME TypeOK, NumbersShape, TreeShape, NEW w \in Walked, NEW s \in Above(w),
           NEW c \in Above(s), c # s, StrictlyDominates(succ, Root, c, w)
    PROVE  StrictlyDominates(succ, Root, c, s)
  <1>1. w \notin ReachAvoiding(succ, Root, {c})
    BY DEF StrictlyDominates, Dominates
  <1>2. Root \in Blocks /\ s \in Walked /\ c \in Walked /\ Number(c) < Number(s)
        /\ Number(c) \in Nat /\ Number(s) \in Nat
    BY NumberFacts, TreeFacts DEF TypeOK
  <1>3. ASSUME NEW z \in Above(w), s \in Above(z) PROVE z # c
    BY <1>2, <1>3, TreeFacts
  <1>4. s \notin ReachAvoiding(succ, Root, {c})
    BY <1>1, <1>2, <1>3, PathDown
  <1> QED BY <1>4 DEF StrictlyDominates, Dominates

\* The path from the semidominator leads around all that is between, so a
\* strict dominator is the semidominator or further up.
LEMMA DominatorAboveSemi ==
    ASSUME LinkedFacts, SemisReached, NEW w \in Walked \ {Root}, NEW c,
           StrictlyDominates(succ, Root, c, w), NEW s, s = SemiBlock(w)
    PROVE  c \in Above(s) /\ s \in Above(w) /\ s \in Walked
  <1>0. TypeOK /\ NumbersShape /\ TreeShape
    BY LinkedTree DEF LinkedFacts
  <1>1. /\ s \in Walked /\ s \in Above(w) /\ Number(s) = Semi(w) /\ s # w
        /\ succ \in [Blocks -> Seq(Blocks)] /\ Root \in Blocks
        /\ ToSet(succ[s]) \subseteq Walked /\ Walked \subseteq Blocks
    BY LinkedTree
  <1>2. c \in Above(w) /\ c # w /\ c \in Walked /\ w \notin ReachAvoiding(succ, Root, {c})
    BY <1>0, DominatorAbove DEF StrictlyDominates, Dominates
  <1>3. /\ Number(c) \in Nat /\ Number(s) \in Nat /\ Number(w) \in Nat
        /\ Number(c) < Number(w) /\ Number(s) < Number(w)
    BY <1>0, <1>1, <1>2, LinkedTree, TreeFacts
  <1>4. CASE Number(c) <= Number(s)
    BY <1>0, <1>1, <1>2, <1>4, TreeFacts
  <1>5. CASE Number(s) < Number(c)
    <2>1. c # s /\ c \notin Above(s)
      BY <1>0, <1>1, <1>3, <1>5, TreeFacts
    <2>2. s \in ReachAvoiding(succ, Root, {c})
      <3>1. Root \in ReachAvoiding(succ, Root, {c}) /\ Root \in Above(s)
        BY <1>1, AvoidReflexive, LinkedTree
      <3> QED BY <1>0, <1>1, <2>1, <3>1, PathDown
    <2>3. s \in Starts(w)
      BY <1>1, <1>3 DEF SemisReached
    <2> DEFINE low == {u \in ToSet(vertexes) : Number(u) <= Number(w)}
    <2>4. PICK x \in ToSet(succ[s]) : x = w \/ (x \notin low /\ w \in ReachAvoiding(succ, x, low))
      BY <2>3 DEF Starts
    <2>5. x \in ReachAvoiding(succ, Root, {c})
      BY <1>1, <2>1, <2>2, AvoidEdge
    <2>6. w \in ReachAvoiding(succ, x, low) => w \in ReachAvoiding(succ, x, {c})
      <3>1. c \in low
        BY <1>0, <1>2, <1>3 DEF NumbersShape
      <3> HIDE DEF low
      <3> QED BY <3>1, AvoidFewer
    <2>7. w \in ReachAvoiding(succ, Root, {c})
      BY <1>1, <2>4, <2>5, <2>6, AvoidTransitive
    <2> QED BY <1>2, <2>7
  <1> QED BY <1>1, <1>3, <1>4, <1>5

\* The semidominator is dominated by the other strict dominators.
LEMMA SemiImmediate ==
    ASSUME LinkedFacts, SemisReached, NEW w \in Walked \ {Root}, NEW c,
           StrictlyDominates(succ, Root, c, w)
    PROVE  Dominates(succ, Root, c, SemiBlock(w))
  <1>0. TypeOK /\ NumbersShape /\ TreeShape
    BY LinkedTree DEF LinkedFacts
  <1>1. PICK s : s = SemiBlock(w)
    OBVIOUS
  <1>2. c \in Above(s) /\ s \in Above(w)
    BY <1>1, DominatorAboveSemi
  <1>3. c # s => StrictlyDominates(succ, Root, c, s)
    BY <1>0, <1>2, DominatorOfAbove
  <1> QED BY <1>1, <1>3 DEF StrictlyDominates, Dominates

\* And so is the dominator of a block that w is deferred to.
LEMMA DeferredImmediate ==
    ASSUME LinkedFacts, SemisReached, NEW w \in Walked \ {Root},
           NEW u \in Between(w, SemiBlock(w)), Immediate(u),
           NEW c, StrictlyDominates(succ, Root, c, w)
    PROVE  Dominates(succ, Root, c, info[u].dom)
  <1>0. TypeOK /\ NumbersShape /\ TreeShape
    BY LinkedTree DEF LinkedFacts
  <1>1. PICK s : s = SemiBlock(w)
    OBVIOUS
  <1>2. c \in Above(s) /\ s \in Above(w) /\ u \in Above(w) /\ u \notin Above(s) /\ s \in Walked
    BY <1>1, DominatorAboveSemi DEF Between
  <1>3. u \in Walked /\ Number(u) \in Nat /\ Number(s) \in Nat /\ c \in Walked
    BY <1>2, LinkedTree
  <1>4. s \in Above(u)
    BY <1>0, <1>2, <1>3, TreeFacts
  <1>5. c \in Above(u) /\ c # u
    BY <1>0, <1>2, <1>3, <1>4, TreeFacts
  <1>6. StrictlyDominates(succ, Root, c, u)
    BY <1>0, <1>2, <1>5, DominatorOfAbove
  <1> QED BY <1>3, <1>6 DEF Immediate

-----------------------------------------------------------------------------
(* The semidominators.                                                     *)

\* No start of a path through greater numbers has a number less than the
\* semidominator that was computed.
LEMMA SemiLeast ==
    ASSUME LinkedFacts, NEW w \in Walked \ {Root}, NEW u \in Starts(w)
    PROVE  Semi(w) <= Number(u) /\ u \in Walked
  <1> DEFINE low == {y \in ToSet(vertexes) : Number(y) <= Number(w)}
             Lower(y) == \E z \in Above(y) : Number(z) > Number(w) /\ Semi(z) < Semi(w)
             T == {y \in Walked : IF y \in low THEN y # w ELSE Lower(y)}
  <1>0. TypeOK /\ NumbersShape /\ TreeShape /\ ToSet(vertexes) = Walked
    BY LinkedTree DEF LinkedFacts, NumbersShape
  <1>1. \A y \in Walked : /\ Semi(y) \in Nat /\ Number(y) \in Nat /\ y \in Above(y)
                          /\ Above(y) \subseteq Walked /\ ToSet(succ[y]) \subseteq Walked
    BY LinkedTree
  <1>2. PICK x \in ToSet(succ[u]) : x = w \/ (x \notin low /\ w \in ReachAvoiding(succ, x, low))
    BY DEF Starts
  <1>3. u \in Walked /\ x \in Walked /\ Occurs(succ, u, x)
    <2>1. u \in Walked
      BY <1>0 DEF Starts
    <2> QED BY <1>1, <1>2, <2>1 DEF Occurs
  <1>4. CASE x = w
    BY <1>3, <1>4, LinkedTree
  <1>5. CASE x \notin low /\ w \in ReachAvoiding(succ, x, low)
    <2>1. Number(x) > Number(w) /\ x # Root
      <3>1. Number(x) > Number(w)
        BY <1>0, <1>1, <1>3, <1>5
      <3> QED BY <1>1, <1>3, <3>1, LinkedTree
    <2>2. Semi(x) <= Number(u)
      BY <1>3, <2>1, LinkedTree
    <2>3. ASSUME Lower(x) PROVE FALSE
      <3>1. T \in SUBSET Blocks /\ x \in T /\ DOMAIN succ = Blocks
        BY <1>3, <1>5, <2>3, LinkedTree
      <3>2. w \notin T
        BY <1>0, <1>1
      <3>3. ASSUME NEW a \in T, a \notin low, NEW b \in ToSet(succ[a]) PROVE b \in T
        <4>1. /\ a \in Walked /\ b \in Walked /\ Number(a) > Number(w) /\ Lower(a)
              /\ Occurs(succ, a, b)
          BY <1>0, <1>1, <3>3 DEF Occurs
        <4>2. PICK z \in Above(a) : Number(z) > Number(w) /\ Semi(z) < Semi(w)
          BY <4>1
        <4>3. z \in Walked /\ Number(z) <= Number(a)
          BY <1>0, <1>1, <4>1, <4>2, TreeFacts
        <4>4. b # w
          <5>1. b = w => Bounds(a, w)
            BY <4>1, LinkedTree
          <5> QED BY <1>1, <4>2, <4>3, <5>1 DEF Bounds
        <4>5. CASE b \in low
          BY <4>1, <4>4, <4>5
        <4>6. CASE b \notin low
          <5>1. Number(b) > Number(w) /\ b # Root
            <6>1. Number(b) > Number(w)
              BY <1>0, <1>1, <4>1, <4>6
            <6> QED BY <1>1, <4>1, <6>1, LinkedTree
          <5>2. CASE Number(z) > Number(b)
            <6>1. Semi(b) <= Semi(z)
              BY <4>1, <4>2, <5>1, <5>2, LinkedTree DEF Bounds
            <6>2. Semi(b) < Semi(w)
              BY <1>1, <4>1, <4>2, <4>3, <6>1
            <6> QED BY <1>1, <4>1, <4>6, <5>1, <6>2
          <5>3. CASE Number(z) <= Number(b)
            <6>1. z \in Above(b)
              <7>1. CASE Number(a) < Number(b)
                <8>1. a \in Above(b)
                  BY <3>3, <4>1, <7>1, LinkedTree DEF EdgesDown
                <8> QED BY <1>0, <4>1, <4>2, <8>1, TreeFacts
              <7>2. CASE Number(b) <= Number(a)
                BY <4>1, <4>2, <4>3, <5>3, <7>2, LinkedTree DEF Intervals
              <7> QED BY <1>1, <4>1, <7>1, <7>2
            <6> QED BY <4>1, <4>2, <4>6, <6>1
          <5> QED BY <1>1, <4>1, <4>3, <5>2, <5>3
        <4> QED BY <4>5, <4>6
      <3> HIDE DEF T, low
      <3>4. ClosedExcept(succ, T, low)
        BY <3>3 DEF ClosedExcept
      <3> QED BY <1>5, <3>1, <3>2, <3>4 DEF ReachAvoiding
    <2>4. ~(Semi(x) < Semi(w))
      BY <1>1, <1>3, <2>1, <2>3
    <2> QED BY <1>1, <1>3, <2>2, <2>4
  <1> QED BY <1>2, <1>4, <1>5

\* Numbers and edges decide where paths through greater numbers start.
LEMMA StartsStay ==
    ASSUME UNCHANGED <<succ, vertexes>> PROVE \A v : Starts(v)' = Starts(v)
  BY DEF Starts, Number

\* While no semidominator changes, each is still reached.
LEMMA ReachedStay ==
    ASSUME SemisReached, Kept, DOMAIN vertexes' = DOMAIN vertexes,
           \A x \in Walked : Semi(x)' = Semi(x)
    PROVE  SemisReached'
  <1>1. /\ Walked' = Walked /\ vertexes' = vertexes /\ \A v : Starts(v)' = Starts(v)
        /\ \A v : Number(v)' = Number(v)
    BY KeptTree, StartsStay DEF Kept
  <1>2. ASSUME NEW w \in Walked PROVE Semi(w)' = Number(w)' \/ SemiBlock(w)' \in Starts(w)'
    <2>1. SemiBlock(w)' = SemiBlock(w)
      BY <1>1 DEF SemiBlock, Numbered
    <2> QED BY <1>1, <2>1 DEF SemisReached
  <1> QED BY <1>1, <1>2 DEF SemisReached

\* The predecessor whose evaluation lowers the semidominator of the vertex is
\* reached from the block whose number it becomes.
LEMMA EvalReaches ==
    ASSUME TypeOK, WalkInv, ForestInv, pc = "preds", NumberedOnce, SemisReached,
           NEW V, V = Vertex, NEW u \in Walked, u \in ToSet(predec[V]), NEW l, Evaluated(u, l),
           Semi(l) < Semi(V)
    PROVE  SemiBlock(l) \in Starts(V)
  <1>0. /\ NumbersShape /\ TreeShape /\ InStep /\ SemiAbove /\ LinkedWhenHandled /\ ForestShape
        /\ Semis /\ ~Linked(Root) /\ k \in 2 .. Len(vertexes)
    BY DEF WalkInv, Tree, ForestInv, Semis
  <1>1. /\ V \in Walked /\ k \in Nat /\ k \in DOMAIN vertexes
        /\ succ \in [Blocks -> Seq(Blocks)] /\ Walked \subseteq Blocks
        /\ vertexes \in Seq(Blocks)
    <2>1. V \in Walked /\ k \in Nat /\ k \in DOMAIN vertexes
      BY TurnFacts
    <2> QED BY <1>0, <2>1, NumberFacts DEF TypeOK
  <1>2. V \in ToSet(succ[u])
    BY <1>0, <1>1 DEF InStep, Occurs
  <1>3. \A x \in Walked : /\ Semi(x) \in Nat /\ Number(x) \in Nat /\ x \in Above(x)
                          /\ Above(x) \subseteq Walked
                          /\ SemiBlock(x) \in Walked /\ Number(SemiBlock(x)) = Semi(x)
    BY <1>0, NumberFacts, SemiFacts, TreeFacts
  <1>4. Number(V) = k - 1 /\ \A j \in DOMAIN vertexes : Number(vertexes[j]) = j - 1
    BY <1>1 DEF Vertex, NumberedOnce, Second
  <1> DEFINE low == {y \in ToSet(vertexes) : Number(y) <= Number(V)}
  <1>5. ToSet(vertexes) = Walked
    BY <1>0 DEF NumbersShape
  <1>6. CASE ~Linked(u) /\ l = u
    <2>1. u # V
      BY <1>1, <1>3, <1>6
    <2>2. Semi(u) = Number(u)
      BY <1>0, <1>6, <2>1 DEF ForestShape
    <2>3. SemiBlock(u) = u
      BY <1>0, <1>3, <2>2, NumberFacts
    <2>4. u \in Starts(V)
      BY <1>2, <1>5 DEF Starts
    <2> QED BY <1>6, <2>3, <2>4
  <1>7. CASE Linked(u) /\ \E r : Hangs(u, r, l) /\ ~Linked(r)
    <2>1. PICK r : Hangs(u, r, l)
      BY <1>7
    <2>2. l \in Above(u) /\ l \in Walked /\ Linked(l) /\ l # Root
      BY <1>0, <1>3, <2>1 DEF Hangs, Between
    <2>3. Number(V) < Number(l)
      <3>1. PICK j \in DOMAIN vertexes : Handled(j) /\ vertexes[j] = l
        BY <1>0, <2>2 DEF LinkedWhenHandled
      <3>2. j > k /\ j \in Nat
        BY <1>1, <3>1 DEF Handled
      <3> QED BY <1>1, <1>4, <3>1, <3>2
    <2>4. PICK s : s = SemiBlock(l)
      OBVIOUS
    <2>5. s \in Starts(l) /\ s \in Walked
      <3>1. Semi(l) < Number(l)
        BY <1>0, <2>2, SemiBelow
      <3> QED BY <1>3, <2>2, <2>4, <3>1 DEF SemisReached
    <2> DEFINE lowl == {y \in ToSet(vertexes) : Number(y) <= Number(l)}
    <2>6. PICK x \in ToSet(succ[s]) : x = l \/ (x \notin lowl /\ l \in ReachAvoiding(succ, x, lowl))
      BY <2>5 DEF Starts
    <2>7. x \in Blocks
      BY <1>1, <2>5, <2>6, Entries
    <2>8. x \notin low /\ l \in ReachAvoiding(succ, x, low)
      <3>1. ASSUME NEW y \in low PROVE y \in lowl
        <4>1. y \in Walked /\ Number(y) <= Number(V)
          BY <1>5
        <4>2. Number(y) \in Nat /\ Number(V) \in Nat /\ Number(l) \in Nat
          BY <1>1, <1>3, <2>2, <4>1
        <4>3. Number(y) <= Number(l)
          BY <2>3, <4>1, <4>2
        <4> QED BY <1>5, <4>1, <4>3
      <3>2. l \notin low
        BY <1>1, <1>3, <2>2, <2>3
      <3>3. CASE x = l
        BY <1>1, <2>7, <3>2, <3>3, AvoidReflexive
      <3>4. CASE x \notin lowl /\ l \in ReachAvoiding(succ, x, lowl)
        <4> HIDE DEF low, lowl
        <4> QED BY <3>1, <3>4, AvoidFewer
      <3> QED BY <2>6, <3>3, <3>4
    <2>9. ASSUME NEW z \in Above(u), l \in Above(z) PROVE z \notin low
      <3>1. Number(l) <= Number(z) /\ z \in Walked
        BY <1>0, <1>3, <2>9, TreeFacts
      <3>2. ~(Number(z) <= Number(V))
        BY <1>1, <1>3, <2>2, <2>3, <3>1
      <3> QED BY <3>2
    <2>10. u \in ReachAvoiding(succ, x, low) /\ u \notin low
      <3> HIDE DEF low
      <3>1. u \in ReachAvoiding(succ, x, low)
        BY <1>0, <2>2, <2>7, <2>8, <2>9, PathDown
      <3> QED BY <1>3, <2>2, <2>9, <3>1
    <2>11. V \in ReachAvoiding(succ, x, low)
      <3> HIDE DEF low
      <3> QED BY <1>1, <1>2, <2>7, <2>10, AvoidEdge
    <2>12. s \in Starts(V)
      BY <1>5, <2>5, <2>6, <2>8, <2>11 DEF Starts
    <2> QED BY <2>4, <2>12
  <1> QED BY <1>6, <1>7 DEF Evaluated

\* What one turn of the loop over the predecessors does to semidominators.
LEMMA EvalPredecSemi ==
    ASSUME IInv, EvalPredec, pc' = "preds", NEW V, V = Vertex
    PROVE  /\ Kept /\ vertexes' = vertexes /\ V \in Walked
           /\ \A x \in Walked : x # V => Semi(x)' = Semi(x)
           /\ \/ Semi(V)' = Semi(V)
              \/ \E u \in Walked \cap ToSet(predec[V]) : \E l :
                    Evaluated(u, l) /\ Semi(l) < Semi(V) /\ Semi(V)' = Semi(l)
  <1>0. /\ TypeOK /\ WalkInv /\ pc = "preds" /\ ForestInv
        /\ NumbersShape /\ TreeShape /\ InStep /\ SemiAbove /\ ForestShape /\ p > 0
    BY DEF IInv, EvalPredec, WalkInv, Tree, ForestInv, Semis
  <1>1. PICK u, l : u = predec[V][p] /\ l = Eval(info, u)
    OBVIOUS
  <1>2. V \in Walked
    BY <1>0, TurnFacts
  <1>3. u \in ToSet(predec[V])
    <2>1. predec[V] \in Seq(Blocks) /\ p \in Nat /\ p <= Len(predec[V])
      BY <1>0, <1>2 DEF TypeOK, Walked, EvalPredec
    <2>2. p \in DOMAIN predec[V]
      BY <1>0, <2>1
    <2> QED BY <1>1, <2>2 DEF ToSet
  <1> DEFINE inf == EvalInfo(info, u)
  <1>4. /\ UNCHANGED <<graphVars, resultVars, vertexes, stack, k, bucket, countVars>>
        /\ u \in Walked
        /\ info' = [inf EXCEPT ![V].semi = IF inf[l].semi < @ THEN inf[l].semi ELSE @]
    BY <1>0, <1>1 DEF EvalPredec, Walked
  <1>5. Reshaped(inf) /\ Evaluated(u, l)
    BY <1>0, <1>1, <1>4, EvalFacts
  <1> HIDE DEF inf
  <1>6. l \in Walked /\ Semi(l) \in Nat /\ Semi(V) \in Nat
    BY <1>0, <1>1, <1>2, <1>3, <1>4, <1>5, EvalBounds, SemiFacts
  <1>7. /\ DOMAIN inf = Walked
        /\ \A x \in Walked : inf[x] \in Infos /\ inf[x].semi = Semi(x) /\ inf[x].parent = info[x].parent
    BY <1>5 DEF Reshaped, Semi
  <1>8. info' = [inf EXCEPT ![V] = [inf[V] EXCEPT !.semi = IF Semi(l) < Semi(V) THEN Semi(l) ELSE Semi(V)]]
    BY <1>2, <1>4, <1>6, <1>7
  <1>9. /\ DOMAIN info' = Walked
        /\ \A x \in Walked : x # V => info'[x] = inf[x]
        /\ info'[V] = [inf[V] EXCEPT !.semi = IF Semi(l) < Semi(V) THEN Semi(l) ELSE Semi(V)]
    BY <1>2, <1>7, <1>8
  <1>10. /\ info'[V].parent = inf[V].parent
         /\ info'[V].semi = IF Semi(l) < Semi(V) THEN Semi(l) ELSE Semi(V)
    <2>1. inf[V] \in Infos
      BY <1>2, <1>7
    <2> QED BY <1>6, <1>9, <2>1 DEF Infos
  <1>11. Kept
    BY <1>4, <1>7, <1>9, <1>10 DEF Kept, graphVars, countVars, Walked
  <1>12. /\ \A x \in Walked : x # V => Semi(x)' = Semi(x)
         /\ Semi(V)' = IF Semi(l) < Semi(V) THEN Semi(l) ELSE Semi(V)
    BY <1>7, <1>9, <1>10 DEF Semi
  <1> QED BY <1>2, <1>3, <1>4, <1>5, <1>11, <1>12

\* Semidominators are still reached after one predecessor more.
LEMMA EvalReached ==
    ASSUME IInv, EvalPredec, pc' = "preds", NumberedOnce, SemisReached
    PROVE  SemisReached'
  <1>1. PICK V : V = Vertex
    OBVIOUS
  <1>2. TypeOK /\ WalkInv /\ ForestInv /\ pc = "preds" /\ NumbersShape /\ TreeShape /\ SemiAbove
    BY DEF IInv, EvalPredec, WalkInv, Tree, ForestInv, Semis
  <1>3. /\ Kept /\ vertexes' = vertexes /\ V \in Walked
        /\ \A x \in Walked : x # V => Semi(x)' = Semi(x)
        /\ \/ Semi(V)' = Semi(V)
           \/ \E u \in Walked \cap ToSet(predec[V]) : \E l :
                 Evaluated(u, l) /\ Semi(l) < Semi(V) /\ Semi(V)' = Semi(l)
    BY <1>1, EvalPredecSemi
  <1>4. CASE Semi(V)' = Semi(V)
    BY <1>3, <1>4, ReachedStay
  <1>5. CASE \E u \in Walked \cap ToSet(predec[V]) : \E l :
                Evaluated(u, l) /\ Semi(l) < Semi(V) /\ Semi(V)' = Semi(l)
    <2>1. PICK u \in Walked \cap ToSet(predec[V]), l \in Walked :
             Evaluated(u, l) /\ Semi(l) < Semi(V) /\ Semi(V)' = Semi(l)
      <3>1. PICK u \in Walked \cap ToSet(predec[V]) : \E l :
                Evaluated(u, l) /\ Semi(l) < Semi(V) /\ Semi(V)' = Semi(l)
        BY <1>5
      <3>2. PICK l : Evaluated(u, l) /\ Semi(l) < Semi(V) /\ Semi(V)' = Semi(l)
        BY <3>1
      <3>3. l \in Walked
        BY <1>1, <1>2, <3>1, <3>2, EvalBounds
      <3> QED BY <3>1, <3>2, <3>3
    <2>2. PICK s : s = SemiBlock(l)
      OBVIOUS
    <2>3. s \in Starts(V)
      BY <1>1, <1>2, <2>1, <2>2, EvalReaches
    <2>4. /\ Walked' = Walked /\ \A v : Number(v)' = Number(v)
          /\ \A v : Starts(v)' = Starts(v)
      BY <1>3, KeptTree, StartsStay DEF Kept
    <2>5. SemiBlock(V)' = s
      BY <1>3, <2>1, <2>2 DEF SemiBlock, Numbered
    <2>6. ASSUME NEW w \in Walked, w # V PROVE Semi(w)' = Number(w)' \/ SemiBlock(w)' \in Starts(w)'
      <3>1. SemiBlock(w)' = SemiBlock(w)
        BY <1>3, <2>6 DEF SemiBlock, Numbered
      <3> QED BY <1>3, <2>4, <2>6, <3>1 DEF SemisReached
    <2> QED BY <2>3, <2>4, <2>5, <2>6 DEF SemisReached
  <1> QED BY <1>3, <1>4, <1>5

\* The other steps of the later phases change no semidominator.
LEMMA SemisStay ==
    ASSUME IInv, LinkVertex \/ EmptyBucket \/ NextVertex \/ FixDom \/ ClearRootDom
    PROVE  /\ Kept /\ vertexes' = vertexes /\ \A x \in Walked : Semi(x)' = Semi(x)
           /\ UNCHANGED <<graphVars, countVars>>
  <1>1. \A x \in Walked : info[x] \in Infos
    BY DEF IInv, TypeOK, Walked
  <1>2. CASE LinkVertex
    <2>1. PICK V, P, B : V = Vertex /\ P = info[V].parent /\ B = SemiBlock(V)
      OBVIOUS
    <2> DEFINE put == [info EXCEPT ![B].bucket = Append(@, V)]
    <2>2. /\ info' = [put EXCEPT ![V].ancestor = P]
          /\ UNCHANGED <<graphVars, vertexes, countVars>>
      BY <1>2, <2>1 DEF LinkVertex, SemiBlock, Semi
    <2>3. ASSUME NEW x \in Walked PROVE info'[x].semi = info[x].semi /\ info'[x].parent = info[x].parent
      <3>1. put[x] = IF x = B THEN [info[x] EXCEPT !.bucket = Append(@, V)] ELSE info[x]
        BY DEF Walked
      <3>2. info'[x] = IF x = V THEN [put[x] EXCEPT !.ancestor = P] ELSE put[x]
        BY <2>2 DEF Walked
      <3>3. /\ put[x].semi = info[x].semi /\ put[x].parent = info[x].parent
            /\ DOMAIN put[x] = DOMAIN info[x]
        <4> HIDE DEF put
        <4>1. info[x] \in Infos
          BY <1>1
        <4> QED BY <3>1, <4>1 DEF Infos
      <3> HIDE DEF put
      <3>4. CASE x = V
        <4>1. info'[x] = [put[x] EXCEPT !.ancestor = P]
          BY <3>2, <3>4
        <4> QED BY <3>3, <4>1
      <3>5. CASE x # V
        BY <3>2, <3>3, <3>5
      <3> QED BY <3>4, <3>5
    <2>4. DOMAIN info' = DOMAIN info
      BY <2>2
    <2> HIDE DEF put
    <2> QED BY <2>2, <2>3, <2>4 DEF Kept, graphVars, countVars, Walked, Semi
  <1>3. CASE EmptyBucket
    <2>0. /\ TypeOK /\ pc = "bucket" /\ bucket # <<>> /\ bucket \in Seq(Blocks)
          /\ NumbersShape /\ TreeShape /\ ForestShape /\ Buckets
      BY <1>3 DEF IInv, EmptyBucket, WalkInv, Tree, ForestInv, TypeOK
    <2>1. PICK v : v = Last(bucket)
      OBVIOUS
    <2>2. v \in Walked
      <3>1. v \in ToSet(bucket)
        BY <2>0, <2>1, FrontEntries
      <3>2. Vertex # Root /\ ToSet(bucket) \subseteq ToSet(info[Parent[Vertex]].bucket)
        BY <2>0 DEF Buckets
      <3>3. Vertex \in Walked
        BY <2>0, TurnFacts DEF IInv
      <3> QED BY <2>0, <3>1, <3>2, <3>3 DEF Buckets, TreeShape
    <2> DEFINE inf == EvalInfo(info, v)
    <2>3. \E dom : info' = [inf EXCEPT ![v].dom = dom]
      BY <1>3, <2>1 DEF EmptyBucket
    <2>4. Reshaped(inf)
      BY <2>0, <2>2, EvalFacts
    <2> HIDE DEF inf
    <2>5. PICK dom : info' = [inf EXCEPT ![v].dom = dom]
      BY <2>3
    <2>6. DOMAIN inf = Walked
      BY <2>4 DEF Reshaped
    <2>7. ASSUME NEW x \in Walked PROVE info'[x].semi = info[x].semi /\ info'[x].parent = info[x].parent
      <3>1. inf[x] \in Infos /\ inf[x].semi = info[x].semi /\ inf[x].parent = info[x].parent
        BY <2>4 DEF Reshaped
      <3>2. info'[x] = IF x = v THEN [inf[x] EXCEPT !.dom = dom] ELSE inf[x]
        BY <2>5, <2>6
      <3> QED BY <3>1, <3>2 DEF Infos
    <2>8. UNCHANGED <<graphVars, vertexes, countVars>>
      BY <1>3 DEF EmptyBucket
    <2> QED BY <2>5, <2>6, <2>7, <2>8 DEF Kept, graphVars, countVars, Walked, Semi
  <1>4. CASE NextVertex
    BY <1>4 DEF NextVertex, Kept, graphVars, countVars, Semi
  <1>5. CASE FixDom \/ ClearRootDom
    <2>1. /\ UNCHANGED <<graphVars, vertexes, countVars>>
          /\ info' = info \/ \E v, dom : info' = [info EXCEPT ![v].dom = dom]
      BY <1>5 DEF FixDom, ClearRootDom
    <2>2. CASE info' = info
      BY <2>1, <2>2 DEF Kept, graphVars, countVars, Semi
    <2>3. CASE \E v, dom : info' = [info EXCEPT ![v].dom = dom]
      <3>1. PICK v, dom : info' = [info EXCEPT ![v].dom = dom]
        BY <2>3
      <3>2. ASSUME NEW x \in Walked PROVE info'[x].semi = info[x].semi /\ info'[x].parent = info[x].parent
        <4>1. info'[x] = IF x = v THEN [info[x] EXCEPT !.dom = dom] ELSE info[x]
          BY <3>1 DEF Walked
        <4>2. info[x] \in Infos
          BY <1>1
        <4> QED BY <4>1, <4>2 DEF Infos
      <3>3. DOMAIN info' = DOMAIN info
        BY <3>1
      <3> QED BY <2>1, <3>2, <3>3 DEF Kept, graphVars, countVars, Walked, Semi
    <2> QED BY <2>1, <2>2, <2>3
  <1> QED BY <1>2, <1>3, <1>4, <1>5

-----------------------------------------------------------------------------
(* Each block is numbered once.                                            *)

\* When DFS is called on a numbered block, NumbersTwice says so.
LEMMA CallOnce ==
    ASSUME TypeOK, WalkInv, CallDFS, NumberedOnce, ~NumbersTwice
    PROVE  Successor \notin Walked
  <1>1. pc = "dfs" /\ FramesShape /\ AtSuccessor /\ Calls /\ Called
    BY DEF WalkInv, Walking, CallDFS, AtSuccessor, NumberedOnce
  <1>2. Top.it \in DOMAIN succ[Top.node] /\ Depth \in Nat \ {0}
    BY <1>1, SuccessorFacts, StackFacts
  <1> SUFFICES ASSUME Successor \in Walked PROVE FALSE
    OBVIOUS
  <1>3. Depth = 1 /\ Top = stack[1] /\ Top.node = Root
    BY <1>1 DEF Calls, Top, FramesShape, Walked
  <1>4. PICK j : j = Top.it
    OBVIOUS
  <1>5. j \in DOMAIN succ[Root] /\ succ[Root][j] = Successor
    BY <1>2, <1>3, <1>4 DEF Successor
  <1>6. CASE Successor = Root
    BY <1>5, <1>6 DEF NumbersTwice
  <1>7. CASE Successor # Root
    <2>1. PICK m \in DOMAIN succ[Root] :
             m < j /\ Successor \in ReachAvoiding(succ, succ[Root][m], {Root})
      BY <1>1, <1>3, <1>4, <1>7 DEF Called
    <2>2. m \in 1 .. j - 1
      <3>1. DOMAIN succ[Root] \subseteq Nat \ {0}
        <4>1. Root \in Blocks /\ succ[Root] \in Seq(Blocks)
          BY RootPositions DEF TypeOK
        <4> QED BY <4>1
      <3> QED BY <1>5, <2>1, <3>1
    <2> QED BY <1>5, <2>1, <2>2 DEF NumbersTwice
  <1> QED BY <1>6, <1>7

\* CallDFS on a block without a number.
LEMMA CallNumbersOnce ==
    ASSUME TypeOK, WalkInv, CallDFS, NumberedOnce, ~NumbersTwice
    PROVE  NumberedOnce'
  <1>0. /\ pc = "dfs" /\ pc' = "dfs" /\ FramesShape /\ AtSuccessor /\ Calls /\ Called /\ Tree
        /\ NumbersShape /\ \A j \in DOMAIN vertexes : ~Second(j)
        /\ \A j \in DOMAIN stack : j > 1 => stack[j].node # Root
        /\ succ' = succ /\ succ \in [Blocks -> Seq(Blocks)] /\ vertexes \in Seq(Blocks)
    BY DEF WalkInv, Walking, CallDFS, AtSuccessor, NumberedOnce, Tree, graphVars, TypeOK
  <1>1. PICK x, t : x = Successor /\ t = Top.node
    OBVIOUS
  <1>2. x \notin Walked
    BY <1>1, CallOnce
  <1>3. /\ Walked' = Walked \cup {x}
        /\ \A v \in Walked : Number(v)' = Number(v)
        /\ Number(x)' = Len(vertexes)
    BY <1>0, <1>1, <1>2, NewBlock
  <1>4. /\ Depth \in Nat \ {0} /\ DOMAIN stack = 1 .. Depth
        /\ Len(vertexes) \in Nat /\ Walked \subseteq Blocks /\ Root \in Walked
        /\ \A j \in 1 .. Len(vertexes) : vertexes[j] \in Walked
        /\ stack[1].node = Root /\ t \in Walked /\ stack[Depth] = Top /\ Top.it \in Nat
    BY <1>0, <1>1, StackFacts, NumberFacts DEF FramesShape, Top
  <1>5. /\ DOMAIN stack' = 1 .. Depth + 1
        /\ \A j \in 1 .. Depth : /\ stack'[j].node = stack[j].node
                                 /\ j # Depth => stack'[j].it = stack[j].it
        /\ stack'[Depth].it = Top.it + 1 /\ stack'[Depth + 1].node = x
        /\ DOMAIN vertexes' = 1 .. Len(vertexes) + 1
        /\ \A j \in 1 .. Len(vertexes) : vertexes'[j] = vertexes[j]
        /\ vertexes'[Len(vertexes) + 1] = x
    BY <1>0, <1>1, CallFacts
  <1>6. Top.it \in DOMAIN succ[t] /\ x \in Blocks /\ x \in ToSet(succ[t]) /\ succ[t][Top.it] = x
    BY <1>0, <1>1, SuccessorFacts DEF Occurs, Successor
  <1>7. ASSUME NEW j \in DOMAIN vertexes', NEW v, v = vertexes'[j] PROVE Number(v)' = j - 1
    <2>1. CASE j \in 1 .. Len(vertexes)
      <3>1. j \in DOMAIN vertexes /\ v = vertexes[j] /\ v \in Walked
        BY <1>0, <1>4, <1>5, <1>7, <2>1
      <3>2. Number(v) = j - 1
        BY <1>0, <3>1 DEF Second
      <3> QED BY <1>3, <3>1, <3>2
    <2>2. CASE j = Len(vertexes) + 1
      BY <1>3, <1>4, <1>5, <1>7, <2>2
    <2> QED BY <1>4, <1>5, <2>1, <2>2
  <1>8. ASSUME NEW j \in DOMAIN stack', j > 1 PROVE stack'[j].node # Root
    <2>1. CASE j \in 1 .. Depth
      BY <1>0, <1>4, <1>5, <1>8, <2>1
    <2>2. CASE j = Depth + 1
      BY <1>2, <1>4, <1>5, <2>2
    <2> QED BY <1>4, <1>5, <2>1, <2>2
  <1>9. stack[1].it \in Nat /\ stack'[1].it \in Nat /\ stack[1].it <= stack'[1].it
    <2>1. stack[1].it \in Nat
      BY <1>0, <1>4, StackFacts
    <2>2. CASE Depth = 1
      BY <1>4, <1>5, <2>1, <2>2
    <2>3. CASE Depth # 1
      BY <1>4, <1>5, <2>1, <2>3
    <2> QED BY <2>2, <2>3
  <1>10. ASSUME NEW v \in Walked \ {Root}
         PROVE  \E m \in DOMAIN succ[Root] :
                   m < stack'[1].it /\ v \in ReachAvoiding(succ, succ[Root][m], {Root})
    <2>1. PICK m \in DOMAIN succ[Root] :
             m < stack[1].it /\ v \in ReachAvoiding(succ, succ[Root][m], {Root})
      BY <1>0 DEF Called
    <2>2. m \in Nat
      BY <1>0, <1>4
    <2> QED BY <1>9, <2>1, <2>2
  <1>11. \E m \in DOMAIN succ[Root] :
            m < stack'[1].it /\ x \in ReachAvoiding(succ, succ[Root][m], {Root})
    <2>1. CASE Depth = 1
      <3>1. t = Root /\ stack'[1].it = Top.it + 1
        BY <1>1, <1>4, <1>5, <2>1
      <3>2. x \in ReachAvoiding(succ, x, {Root})
        BY <1>0, <1>6, AvoidReflexive
      <3> QED BY <1>4, <1>6, <3>1, <3>2
    <2>2. CASE Depth # 1
      <3>1. t # Root
        BY <1>0, <1>1, <1>4, <2>2
      <3>2. PICK m \in DOMAIN succ[Root] :
               m < stack'[1].it /\ t \in ReachAvoiding(succ, succ[Root][m], {Root})
        BY <1>4, <1>10, <3>1
      <3>3. succ[Root][m] \in Blocks
        BY <1>0, <1>4, <3>2
      <3>4. x \in ReachAvoiding(succ, succ[Root][m], {Root})
        <4>1. t \notin {Root}
          BY <3>1
        <4>2. PICK y : y = succ[Root][m]
          OBVIOUS
        <4>3. y \in Blocks /\ t \in ReachAvoiding(succ, y, {Root}) /\ x \in ToSet(succ[t])
          BY <1>6, <3>2, <3>3, <4>2
        <4>4. x \in ReachAvoiding(succ, y, {Root})
          BY <1>0, <4>1, <4>3, AvoidEdge
        <4> QED BY <4>2, <4>4
      <3> QED BY <3>2, <3>4
    <2> QED BY <2>1, <2>2
  <1>12. Called'
    BY <1>0, <1>3, <1>10, <1>11 DEF Called
  <1>13. (\A j \in DOMAIN vertexes : ~Second(j))'
    <2>1. ASSUME NEW j \in DOMAIN vertexes' PROVE ~Second(j)'
      <3>1. PICK v : v = vertexes'[j]
        OBVIOUS
      <3>2. Number(v)' = j - 1
        BY <2>1, <3>1, <1>7
      <3> QED BY <3>1, <3>2 DEF Second, Number
    <2> QED BY <2>1
  <1> QED BY <1>0, <1>8, <1>12, <1>13 DEF NumberedOnce

\* The other steps of the walk number no block.
LEMMA WalkNumbersOnce ==
    ASSUME TypeOK, WalkInv, PassOver \/ Return, NumberedOnce
    PROVE  NumberedOnce'
  <1>1. /\ pc = "dfs" /\ Walking /\ FramesShape /\ Called
        /\ \A j \in DOMAIN vertexes : ~Second(j)
        /\ \A j \in DOMAIN stack : j > 1 => stack[j].node # Root
        /\ UNCHANGED <<succ, predec, vertexes, info, plan>>
    BY DEF WalkInv, Walking, PassOver, Return, AtSuccessor, NumberedOnce, graphVars, countVars
  <1>2. Kept
    BY <1>1 DEF Kept
  <1>3. Walked' = Walked /\ \A v : Number(v)' = Number(v)
    BY <1>2, KeptTree
  <1>4. (\A j \in DOMAIN vertexes : ~Second(j))'
    BY <1>1 DEF Second, Number
  <1>5. /\ Depth \in Nat \ {0} /\ DOMAIN stack = 1 .. Depth /\ stack[1].it \in Nat
        /\ DOMAIN succ[Root] \subseteq Nat
    <2>1. DOMAIN succ[Root] \subseteq Nat
      BY RootPositions
    <2> QED BY <1>1, <2>1, StackFacts
  <1>6. CASE pc' # "dfs"
    BY <1>4, <1>6 DEF NumberedOnce
  <1>7. CASE pc' = "dfs"
    <2>1. /\ DOMAIN stack' \subseteq 1 .. Depth
          /\ \A j \in DOMAIN stack' : stack'[j].node = stack[j].node
          /\ stack'[1].it \in Nat /\ stack[1].it <= stack'[1].it
      <3>1. CASE PassOver
        <4>1. /\ DOMAIN stack' = 1 .. Depth /\ stack'[Depth].it = Top.it + 1 /\ Top.it \in Nat
              /\ \A j \in 1 .. Depth : /\ stack'[j].node = stack[j].node
                                       /\ j # Depth => stack'[j].it = stack[j].it
          BY <1>1, <3>1, StackFacts DEF PassOver
        <4>2. Depth = 1 => stack[1] = Top
          BY DEF Top
        <4> QED BY <1>5, <4>1, <4>2
      <3>2. CASE Return
        <4>1. stack' = Front(stack) /\ Depth # 1
          BY <1>7, <3>2 DEF Return
        <4>2. DOMAIN stack' = 1 .. Depth - 1 /\ \A j \in 1 .. Depth - 1 : stack'[j] = stack[j]
          BY <1>5, <4>1 DEF Front
        <4> QED BY <1>5, <4>1, <4>2
      <3> QED BY <3>1, <3>2
    <2>2. Called'
      <3> SUFFICES ASSUME NEW v \in Walked \ {Root}
                   PROVE  \E m \in DOMAIN succ[Root] :
                             m < stack'[1].it /\ v \in ReachAvoiding(succ, succ[Root][m], {Root})
        BY <1>1, <1>3 DEF Called
      <3>1. PICK m \in DOMAIN succ[Root] :
               m < stack[1].it /\ v \in ReachAvoiding(succ, succ[Root][m], {Root})
        BY <1>1 DEF Called
      <3>2. m < stack'[1].it
        BY <1>5, <2>1, <3>1
      <3> QED BY <3>1, <3>2
    <2>3. \A j \in DOMAIN stack' : j > 1 => stack'[j].node # Root
      BY <1>1, <1>5, <2>1
    <2> QED BY <1>4, <2>2, <2>3 DEF NumberedOnce
  <1> QED BY <1>6, <1>7

\* When RunStep1 starts there is the root and its number.
LEMMA RunNumbersOnce ==
    ASSUME TypeOK, WalkInv, Run
    PROVE  NumberedOnce'
  <1>1. /\ vertexes' = <<Root>> /\ stack' = <<Enter(Root)>> /\ DOMAIN info' = {Root}
    BY DEF Run
  <1>2. Number(Root)' = 0
    <2>1. Root \in {Root} /\ <<Root>> \in Seq({Root}) /\ Root \in ToSet(<<Root>>)
      BY DEF ToSet
    <2>2. /\ NumberIn(<<Root>>, Root) \in Nat /\ NumberIn(<<Root>>, Root) < Len(<<Root>>)
      BY <2>1, NumberShape
    <2> QED BY <1>1, <2>2 DEF Number
  <1>3. (\A j \in DOMAIN vertexes : ~Second(j))'
    <2>1. ASSUME NEW j \in DOMAIN vertexes' PROVE j = 1 /\ vertexes'[j] = Root
      BY <1>1, <2>1
    <2> QED BY <1>2, <2>1 DEF Second, Number
  <1>4. Called' /\ (\A j \in DOMAIN stack : j > 1 => stack[j].node # Root)'
    BY <1>1 DEF Called, Walked
  <1> QED BY <1>3, <1>4 DEF NumberedOnce

\* The later phases leave the numbers alone.
LEMMA NumberedOnceStays ==
    ASSUME NumberedOnce, vertexes' = vertexes, pc' # "dfs"
    PROVE  NumberedOnce'
  BY DEF NumberedOnce, Second, Number

-----------------------------------------------------------------------------
(* The dominators are immediate.                                           *)

\* Whether the dominator of a block is immediate depends on the graph, on what
\* was walked and on that dominator.
LEMMA ImmediateStays ==
    ASSUME succ' = succ, Walked' = Walked, NEW w, Immediate(w), info'[w].dom = info[w].dom
    PROVE  Immediate(w)'
  BY DEF Immediate

\* The dominator that step 4 gives a vertex is immediate: the semidominator, or
\* what a block with a smaller number was given before.
LEMMA FixDomImmediate ==
    ASSUME IInv, FixDom, NumberedOnce, SemisReached, NEW V, V = Vertex,
           \A w \in Walked \ {Root} : Number(w) + 1 < k => Immediate(w)
    PROVE  \A w \in Walked \ {Root} : (Number(w) + 1 < k + 1 => Immediate(w)')
  <1>0. /\ TypeOK /\ WalkInv /\ pc = "step4" /\ AllLinked /\ k > 1 /\ k <= Len(vertexes)
        /\ \A w \in Walked \ {Root} : IF Number(w) + 1 < k THEN Resolved(w) ELSE Deferred(w)
    BY DEF IInv, FixDom
  <1>1. LinkedFacts /\ k \in Nat /\ vertexes \in Seq(Blocks)
    BY <1>0 DEF LinkedFacts, WalkInv, TypeOK
  <1>2. PICK dom, D : dom = info[V].dom /\ D = IF dom = SemiBlock(V) THEN dom ELSE info[dom].dom
    OBVIOUS
  <1>3. /\ V \in Walked \ {Root} /\ DOMAIN info' = Walked
        /\ \A x \in Walked : info'[x] = IF x = V THEN [info[x] EXCEPT !.dom = D] ELSE info[x]
        /\ UNCHANGED <<graphVars, resultVars, vertexes, stack, p, bucket, countVars>>
    BY <1>2, FixDomEffect
  <1>4. succ' = succ /\ Walked' = Walked
    BY <1>3 DEF Walked, graphVars
  <1>5. Number(V) = k - 1
    <2>1. k \in DOMAIN vertexes
      BY <1>0, <1>1
    <2> QED BY <2>1 DEF NumberedOnce, Second, Vertex
  <1>6. ASSUME NEW c \in Walked, StrictlyDominates(succ, Root, c, V)
        PROVE  Dominates(succ, Root, c, D)
    <2>1. CASE dom = SemiBlock(V)
      BY <1>1, <1>2, <1>3, <1>6, <2>1, SemiImmediate
    <2>2. CASE dom # SemiBlock(V)
      <3>1. Number(V) \in Nat /\ ~(Number(V) + 1 < k)
        BY <1>0, <1>1, <1>5
      <3>2. /\ dom \in Between(V, SemiBlock(V)) /\ Semi(dom) < Semi(V)
        BY <1>0, <1>2, <1>3, <2>2, <3>1 DEF Deferred
      <3>3. dom \in Above(V) /\ dom \in Walked /\ dom # V /\ dom # Root
        <4>1. dom \in Above(V) /\ dom \in Walked /\ dom \notin Above(SemiBlock(V))
          BY <1>1, <1>3, <3>2, LinkedTree DEF Between
        <4>2. Semi(dom) \in Nat /\ Semi(V) \in Nat /\ Root \in Above(SemiBlock(V))
          BY <1>1, <1>3, <4>1, LinkedTree
        <4> QED BY <3>2, <4>1, <4>2
      <3>4. Number(dom) < Number(V) /\ Number(dom) \in Nat
        BY <1>1, <1>3, <3>3, LinkedTree, TreeFacts DEF LinkedFacts
      <3>5. Number(dom) + 1 < k
        BY <1>1, <1>5, <3>4
      <3>6. Immediate(dom)
        BY <3>3, <3>5
      <3>7. Dominates(succ, Root, c, info[dom].dom)
        BY <1>1, <1>3, <1>6, <3>2, <3>6, DeferredImmediate
      <3> QED BY <1>2, <2>2, <3>7
    <2> QED BY <2>1, <2>2
  <1>7. ASSUME NEW w \in Walked \ {Root}, Number(w) + 1 < k + 1 PROVE Immediate(w)'
    <2>1. CASE w = V
      <3>1. info'[V].dom = D
        <4>1. info[V] \in Infos
          BY <1>0, <1>3 DEF TypeOK, Walked
        <4> QED BY <1>3, <4>1 DEF Infos
      <3> QED BY <1>4, <1>6, <2>1, <3>1 DEF Immediate
    <2>2. CASE w # V
      <3>1. Number(w) \in Nat /\ Number(V) \in Nat /\ Number(w) # Number(V)
        BY <1>1, <1>3, <2>2, LinkedTree
      <3>2. Number(w) + 1 < k
        BY <1>1, <1>5, <1>7, <3>1
      <3>3. info'[w].dom = info[w].dom
        BY <1>3, <2>2
      <3> QED BY <1>4, <3>2, <3>3, ImmediateStays
    <2> QED BY <2>1, <2>2
  <1> QED BY <1>7

\* Step 4 begins with no block before its position but the root.
LEMMA NoneBeforeTwo ==
    ASSUME TypeOK, NumbersShape, NEW w \in Walked \ {Root}
    PROVE  ~(Number(w) + 1 < 2)
  <1>1. Number(w) \in Nat /\ Number(Root) = 0 /\ Root \in Walked
    BY NumberFacts
  <1>2. Number(w) # 0
    BY <1>1, NumberFacts
  <1> QED BY <1>1, <1>2

\* What holds where no block is numbered twice is kept by every step of Run.
LEMMA WhereOnceStep ==
    ASSUME IInv, IInv', Steps, ~NumbersTwice, WhereOnce
    PROVE  WhereOnce'
  <1>0. TypeOK /\ WalkInv
    BY DEF IInv
  <1>1. CASE Run \/ CallDFS \/ PassOver \/ Return
    <2>1. pc' \in {"dfs", "forest"}
      BY <1>1 DEF Run, CallDFS, PassOver, Return, AtSuccessor
    <2>2. NumberedOnce'
      <3>1. CASE Run
        BY <1>0, <3>1, RunNumbersOnce
      <3>2. CASE CallDFS
        <4>1. pc = "dfs"
          BY <3>2 DEF CallDFS, AtSuccessor
        <4> QED BY <1>0, <3>2, <4>1, CallNumbersOnce DEF WhereOnce
      <3>3. CASE PassOver \/ Return
        <4>1. pc = "dfs"
          BY <3>3 DEF PassOver, Return, AtSuccessor
        <4> QED BY <1>0, <3>3, <4>1, WalkNumbersOnce DEF WhereOnce
      <3> QED BY <1>1, <3>1, <3>2, <3>3
    <2> QED BY <2>1, <2>2 DEF WhereOnce
  <1>2. CASE MakeForest
    <2>1. /\ pc = "forest" /\ vertexes' = vertexes /\ succ' = succ
          /\ info' = [v \in DOMAIN info |-> [info[v] EXCEPT !.ancestor = Null, !.label = v]]
          /\ pc' = "preds" \/ (pc' = "step4" /\ k' = 2)
      BY <1>2 DEF MakeForest, graphVars
    <2>2. NumberedOnce'
      BY <2>1, NumberedOnceStays DEF WhereOnce
    <2>3. SemisReached'
      <3>1. Walked' = Walked /\ \A v : Number(v)' = Number(v)
        BY <2>1 DEF Walked, Number
      <3>2. ASSUME NEW w \in Walked PROVE Semi(w)' = Number(w)
        <4>1. info[w] = NewInfo(Number(w), Parent[w])
          BY <1>0, <2>1 DEF WalkInv, Fresh
        <4>2. info[w] \in Infos /\ info[w].semi = Number(w)
          BY <1>0, <4>1 DEF TypeOK, Walked, NewInfo
        <4>3. info'[w] = [info[w] EXCEPT !.ancestor = Null, !.label = w]
          BY <2>1 DEF Walked
        <4>4. info'[w].semi = info[w].semi
          BY <4>2, <4>3 DEF Infos
        <4> QED BY <4>2, <4>4 DEF Semi
      <3> QED BY <3>1, <3>2 DEF SemisReached
    <2>4. ASSUME pc' = "step4", NEW w \in Walked' \ {Root} PROVE ~(Number(w)' + 1 < k')
      <3>1. Walked' = Walked /\ Number(w)' = Number(w) /\ NumbersShape
        BY <1>0, <2>1 DEF Walked, Number, WalkInv, Tree
      <3> QED BY <1>0, <2>1, <2>4, <3>1, NoneBeforeTwo
    <2> QED BY <2>1, <2>2, <2>3, <2>4 DEF WhereOnce
  <1>3. CASE EvalPredec
    <2>1. pc = "preds" /\ pc' \in {"preds", "threw"} /\ vertexes' = vertexes
      BY <1>3 DEF EvalPredec
    <2>2. NumberedOnce'
      BY <2>1, NumberedOnceStays DEF WhereOnce
    <2>3. pc' = "preds" => SemisReached'
      BY <1>3, <2>1, EvalReached DEF WhereOnce
    <2> QED BY <2>1, <2>2, <2>3 DEF WhereOnce
  <1>4. CASE LinkVertex \/ EmptyBucket \/ NextVertex
    <2>1. /\ pc \in {"preds", "bucket"} /\ vertexes' = vertexes
          /\ pc' \in {"preds", "bucket", "threw"} \/ (pc' = "step4" /\ k' = 2)
      BY <1>4 DEF LinkVertex, EmptyBucket, NextVertex
    <2>2. NumberedOnce'
      BY <2>1, NumberedOnceStays DEF WhereOnce
    <2>3. Kept /\ \A x \in Walked : Semi(x)' = Semi(x)
      BY <1>4, SemisStay
    <2>4. SemisReached'
      BY <2>1, <2>3, ReachedStay DEF WhereOnce
    <2>5. ASSUME pc' = "step4", NEW w \in Walked' \ {Root} PROVE ~(Number(w)' + 1 < k')
      <3>1. Walked' = Walked /\ Number(w)' = Number(w) /\ NumbersShape
        BY <1>0, <2>1, <2>3, KeptTree DEF WalkInv, Tree
      <3> QED BY <1>0, <2>1, <2>5, <3>1, NoneBeforeTwo
    <2> QED BY <2>1, <2>2, <2>4, <2>5 DEF WhereOnce
  <1>5. CASE FixDom
    <2>1. /\ pc = "step4" /\ pc' \in {"step4", "threw"} /\ vertexes' = vertexes /\ k' = k + 1
      BY <1>5 DEF FixDom
    <2>2. NumberedOnce /\ NumberedOnce'
      BY <2>1, NumberedOnceStays DEF WhereOnce
    <2>3. Kept /\ \A x \in Walked : Semi(x)' = Semi(x)
      BY <1>5, SemisStay
    <2>4. SemisReached /\ SemisReached'
      BY <2>1, <2>3, ReachedStay DEF WhereOnce
    <2>5. \A w \in Walked \ {Root} : (Number(w) + 1 < k + 1 => Immediate(w)')
      BY <1>5, <2>1, <2>2, <2>4, FixDomImmediate DEF WhereOnce
    <2>6. Walked' = Walked /\ \A v : Number(v)' = Number(v)
      BY <2>3, KeptTree
    <2> QED BY <2>1, <2>2, <2>4, <2>5, <2>6 DEF WhereOnce
  <1>6. CASE ClearRootDom
    <2>1. /\ pc = "step4" /\ pc' = "build" /\ vertexes' = vertexes /\ succ' = succ
          /\ k > Len(vertexes) /\ info' = [info EXCEPT ![Root].dom = Null]
      BY <1>6 DEF ClearRootDom, graphVars
    <2>2. NumberedOnce'
      BY <2>1, NumberedOnceStays DEF WhereOnce
    <2>3. ASSUME NEW w \in Walked \ {Root} PROVE Immediate(w)'
      <3>1. Number(w) + 1 < k
        <4>1. Number(w) < Len(vertexes) /\ Number(w) \in Nat /\ Len(vertexes) \in Nat /\ k \in Nat
          BY <1>0, <2>1, NumberFacts DEF TypeOK, WalkInv, Tree
        <4> QED BY <2>1, <4>1
      <3>2. Immediate(w)
        BY <2>1, <3>1 DEF WhereOnce
      <3>3. Walked' = Walked /\ info'[w].dom = info[w].dom
        BY <2>1 DEF Walked
      <3> QED BY <2>1, <3>2, <3>3, ImmediateStays
    <2>4. Walked' = Walked
      BY <2>1 DEF Walked
    <2> QED BY <2>1, <2>2, <2>3, <2>4 DEF WhereOnce
  <1>7. CASE BuildVertex
    <2>1. pc = "build" /\ pc' = "build" /\ UNCHANGED <<vertexes, info, succ>>
      BY <1>7 DEF BuildVertex, graphVars
    <2>2. NumberedOnce'
      BY <2>1, NumberedOnceStays DEF WhereOnce
    <2>3. \A w \in Walked \ {Root} : Immediate(w)' /\ Walked' = Walked
      BY <2>1, ImmediateStays DEF WhereOnce, Walked
    <2>4. Walked' = Walked
      BY <2>1 DEF Walked
    <2> QED BY <2>1, <2>2, <2>3, <2>4 DEF WhereOnce
  <1>8. CASE Finish
    BY <1>8 DEF Finish, WhereOnce
  <1> QED BY <1>1, <1>2, <1>3, <1>4, <1>5, <1>6, <1>7, <1>8 DEF Steps

-----------------------------------------------------------------------------
(* The lists in the blocks.                                                *)

\* What BuildVertex does to idoms and lists.
LEMMA BuildFacts ==
    ASSUME IInv, BuildVertex, NEW V, V = Vertex, NEW dom, dom = info[V].dom
    PROVE  /\ V \in Walked /\ V \in Blocks /\ dom \in MaybeBlock
           /\ V # Root => dom \in Blocks
           /\ V = Root => dom = Null
           /\ \A b \in Blocks : idom'[b] = IF b = V THEN dom ELSE idom[b]
           /\ \A b \in Blocks : ToSet(dominated'[b]) =
                 IF b = dom THEN ToSet(dominated[b]) \cup {V} ELSE ToSet(dominated[b])
  <1>0. /\ TypeOK /\ WalkInv /\ AllLinked /\ k > 0 /\ k <= Len(vertexes)
        /\ info[Root].dom = Null /\ \A w \in Walked \ {Root} : Resolved(w)
    BY DEF IInv, BuildVertex
  <1>1. LinkedFacts /\ k \in Nat /\ pc = "build"
    BY <1>0 DEF LinkedFacts, WalkInv, TypeOK, BuildVertex
  <1>2. /\ idom' = [idom EXCEPT ![V] = dom]
        /\ dominated' = IF dom = Null THEN dominated ELSE PushBack(dominated, dom, V)
    BY DEF BuildVertex
  <1>3. V \in Walked /\ V \in Blocks /\ info[V] \in Infos
    <2>1. k \in 1 .. Len(vertexes)
      BY <1>0, <1>1, LinkedTree
    <2>2. V \in Walked
      BY <1>1, <2>1, LinkedTree, NumberFacts DEF Vertex, LinkedFacts
    <2> QED BY <1>0, <2>2 DEF TypeOK, Walked
  <1>4. dom \in MaybeBlock /\ (V = Root => dom = Null)
    BY <1>0, <1>3 DEF Infos
  <1>5. V # Root => dom \in Blocks
    <2>1. V # Root => dom \in Above(V)
      BY <1>0, <1>3 DEF Resolved
    <2> QED BY <1>1, <1>3, <2>1, LinkedTree
  <1>6. idom \in [Blocks -> MaybeBlock] /\ dominated \in [Blocks -> Seq(Blocks)] /\ Null \notin Blocks
    BY <1>0, CfgAssumption DEF TypeOK
  <1>7. ASSUME NEW b \in Blocks
        PROVE  ToSet(dominated'[b]) =
                  IF b = dom THEN ToSet(dominated[b]) \cup {V} ELSE ToSet(dominated[b])
    <2>1. CASE dom = Null
      BY <1>2, <1>6, <2>1
    <2>2. CASE dom # Null
      <3>1. dominated'[b] = IF b = dom THEN Append(dominated[b], V) ELSE dominated[b]
        BY <1>2, <1>6, <2>2 DEF PushBack
      <3>2. ToSet(Append(dominated[b], V)) = ToSet(dominated[b]) \cup {V}
        BY <1>3, <1>6, AppendEntries
      <3> QED BY <3>1, <3>2
    <2> QED BY <2>1, <2>2
  <1>8. \A b \in Blocks : idom'[b] = IF b = V THEN dom ELSE idom[b]
    BY <1>2, <1>6
  <1> QED BY <1>3, <1>4, <1>5, <1>7, <1>8

\* The blocks that BuildVertex has come to have their results.
LEMMA ListedStep ==
    ASSUME IInv, [Next]_vars, pc' = "build", pc = "build" => Listed
    PROVE  Listed'
  <1>0. TypeOK /\ WalkInv /\ (pc = "build" => k > 0) /\ k \in Nat
    BY DEF IInv, TypeOK
  <1>1. CASE ClearRootDom
    <2>1. k' = 1 /\ vertexes' = vertexes /\ vertexes \in Seq(Blocks)
      BY <1>0, <1>1 DEF ClearRootDom, TypeOK
    <2>2. \A j \in DOMAIN vertexes' : ~(j < k')
      BY <2>1
    <2> QED BY <2>2 DEF Listed
  <1>2. CASE BuildVertex
    <2>1. PICK V, dom : V = Vertex /\ dom = info[V].dom
      OBVIOUS
    <2>2. /\ pc = "build" /\ k' = k + 1 /\ UNCHANGED <<vertexes, info>>
          /\ vertexes \in Seq(Blocks)
      BY <1>0, <1>2 DEF BuildVertex, TypeOK
    <2>3. /\ V \in Walked /\ V \in Blocks /\ dom \in MaybeBlock
          /\ V # Root => dom \in Blocks
          /\ \A b \in Blocks : idom'[b] = IF b = V THEN dom ELSE idom[b]
          /\ \A b \in Blocks : ToSet(dominated'[b]) =
                IF b = dom THEN ToSet(dominated[b]) \cup {V} ELSE ToSet(dominated[b])
      BY <1>2, <2>1, BuildFacts
    <2>4. ASSUME NEW j \in DOMAIN vertexes, j < k + 1, NEW v, v = vertexes[j]
          PROVE  /\ idom'[v] = info[v].dom
                 /\ v # Root => v \in ToSet(dominated'[info[v].dom])
      <3>1. v \in Walked /\ v \in Blocks /\ j \in Nat
        <4>1. j \in 1 .. Len(vertexes)
          BY <2>2
        <4> QED BY <1>0, <2>2, <2>4, <4>1, NumberFacts DEF WalkInv, Tree
      <3>2. CASE v = V
        BY <2>1, <2>3, <3>2
      <3>3. CASE v # V
        <4>1. j < k
          BY <1>0, <2>1, <2>4, <3>1, <3>3 DEF Vertex
        <4>2. idom[v] = info[v].dom /\ (v # Root => v \in ToSet(dominated[info[v].dom]))
          BY <2>2, <2>4, <4>1 DEF Listed
        <4>3. v # Root => info[v].dom \in Blocks
          <5>1. LinkedFacts /\ \A w \in Walked \ {Root} : Resolved(w)
            BY <2>2 DEF IInv, LinkedFacts, WalkInv
          <5>2. v # Root => info[v].dom \in Above(v)
            BY <3>1, <5>1 DEF Resolved
          <5> QED BY <3>1, <5>1, <5>2, LinkedTree
        <4> QED BY <2>3, <3>1, <3>3, <4>2, <4>3
      <3> QED BY <3>2, <3>3
    <2> QED BY <2>2, <2>4 DEF Listed
  <1>3. CASE UNCHANGED vars
    BY <1>3 DEF vars, resultVars, Listed
  <1>4. ClearRootDom \/ BuildVertex \/ UNCHANGED vars
    BY DEF Next, Steps, Edits, Ended, Run, CallDFS, PassOver, Return, AtSuccessor, MakeForest,
           EvalPredec, LinkVertex, EmptyBucket, NextVertex, FixDom, Finish, AddEdge, RemoveEdge, Edit
  <1> QED BY <1>1, <1>2, <1>3, <1>4

\* In the first run the lists hold only what that run has put there.
LEMMA FirstListsStep ==
    ASSUME IInv, [Next]_vars, FirstLists
    PROVE  FirstLists'
  <1>0. /\ TypeOK /\ runs \in Nat
        /\ \A b \in Blocks : ToSet(dominated[b]) \subseteq Blocks
    <2>1. TypeOK
      BY DEF IInv
    <2>2. plan.runs \in Nat
      BY <2>1 DEF TypeOK
    <2>3. runs \in Nat
      BY <2>1, <2>2 DEF TypeOK
    <2>4. \A b \in Blocks : ToSet(dominated[b]) \subseteq Blocks
      BY <2>1, Entries DEF TypeOK
    <2> QED BY <2>1, <2>3, <2>4
  <1>1. CASE Run
    <2>1. runs' = runs + 1 /\ pc' = "dfs" /\ dominated' = dominated /\ pc # "build"
      BY <1>1 DEF Run, resultVars
    <2>2. CASE runs = 0
      BY <1>0, <2>1, <2>2 DEF FirstLists, OnlyListed
    <2>3. CASE runs # 0
      <3>1. runs' # 0 /\ runs' # 1
        BY <1>0, <2>1, <2>3
      <3> QED BY <3>1 DEF FirstLists
    <2> QED BY <2>2, <2>3
  <1>2. CASE \/ CallDFS \/ PassOver \/ Return \/ MakeForest \/ EvalPredec \/ LinkVertex \/ EmptyBucket
             \/ NextVertex \/ FixDom \/ ClearRootDom
    <2>1. pc \notin {"start", "done", "build"} /\ runs' = runs /\ dominated' = dominated
      BY <1>2 DEF CallDFS, PassOver, Return, AtSuccessor, MakeForest, EvalPredec, LinkVertex,
                  EmptyBucket, NextVertex, FixDom, ClearRootDom, countVars, resultVars
    <2> QED BY <2>1 DEF FirstLists, OnlyListed
  <1>3. CASE BuildVertex
    <2>1. PICK V, dom : V = Vertex /\ dom = info[V].dom
      OBVIOUS
    <2>2. /\ pc = "build" /\ pc' = "build" /\ runs' = runs /\ info' = info /\ Walked' = Walked
      BY <1>3 DEF BuildVertex, countVars, Walked
    <2>3. /\ V \in Walked /\ V \in Blocks /\ (V = Root => dom = Null) /\ Null \notin Blocks
          /\ \A b \in Blocks : ToSet(dominated'[b]) =
                IF b = dom THEN ToSet(dominated[b]) \cup {V} ELSE ToSet(dominated[b])
      <3>1. Null \notin Blocks
        BY CfgAssumption
      <3> QED BY <1>3, <2>1, <3>1, BuildFacts
    <2>4. CASE runs = 1
      <3>1. OnlyListed
        BY <2>2, <2>4 DEF FirstLists
      <3>2. ASSUME NEW u \in Blocks, NEW v \in ToSet(dominated'[u])
            PROVE  v \in Walked \ {Root} /\ info[v].dom = u
        <4>1. CASE v \in ToSet(dominated[u])
          BY <3>1, <4>1 DEF OnlyListed
        <4>2. CASE v = V /\ u = dom
          BY <2>1, <2>3, <4>2
        <4> QED BY <2>3, <3>2, <4>1, <4>2
      <3>3. OnlyListed'
        BY <2>2, <3>2 DEF OnlyListed
      <3> QED BY <2>2, <2>4, <3>3 DEF FirstLists
    <2>5. CASE runs # 1
      BY <2>2, <2>5 DEF FirstLists
    <2> QED BY <2>4, <2>5
  <1>4. CASE Finish
    BY <1>4 DEF Finish, FirstLists, countVars
  <1>5. CASE Edits
    <2>1. pc' = "start" /\ runs' = runs /\ runs \in 1 .. plan.runs - 1
      BY <1>5 DEF Edits, AddEdge, RemoveEdge, Edit
    <2>2. runs' # 0
      BY <1>0, <2>1
    <2> QED BY <2>1, <2>2 DEF FirstLists
  <1>6. CASE UNCHANGED vars
    <2>1. UNCHANGED <<runs, pc, dominated, info>>
      BY <1>6 DEF vars, resultVars, countVars
    <2> QED BY <2>1 DEF FirstLists, OnlyListed, Walked
  <1> QED BY <1>1, <1>2, <1>3, <1>4, <1>5, <1>6 DEF Next, Steps, Ended

-----------------------------------------------------------------------------
(* What the lists answer.                                                  *)

\* A dominator of a dominator dominates.
LEMMA DominatesTransitive ==
    ASSUME TypeOK, NumbersShape, TreeShape, NEW u, NEW y \in Walked, NEW z \in Walked,
           StrictlyDominates(succ, Root, u, y), StrictlyDominates(succ, Root, y, z)
    PROVE  StrictlyDominates(succ, Root, u, z)
  <1>1. u \in Walked /\ Number(u) < Number(y) /\ Number(y) < Number(z)
        /\ Number(u) \in Nat /\ Number(y) \in Nat /\ Number(z) \in Nat
    BY DominatorAbove, NumberFacts, TreeFacts
  <1>2. y \notin ReachAvoiding(succ, Root, {u}) /\ z \notin ReachAvoiding(succ, Root, {y})
    BY DEF StrictlyDominates, Dominates
  <1>3. succ \in [Blocks -> Seq(Blocks)] /\ Root \in Blocks
    BY NumberFacts DEF TypeOK
  <1>4. z \notin ReachAvoiding(succ, Root, {u})
    BY <1>2, <1>3, AroundDominator
  <1> QED BY <1>1, <1>4 DEF StrictlyDominates, Dominates

\* When all blocks have their result the lists say yes to every dominance.
LEMMA ListsComplete ==
    ASSUME IInv, pc = "build", k > Len(vertexes), WhereOnce, Listed,
           NEW u \in Walked, NEW v \in Walked, StrictlyDominates(succ, Root, u, v)
    PROVE  IsDominated(u, v)
  <1>0. /\ TypeOK /\ NumbersShape /\ TreeShape /\ k \in Nat /\ LinkedFacts
        /\ \A w \in Walked \ {Root} : Resolved(w) /\ Immediate(w)
    BY DEF IInv, TypeOK, WalkInv, Tree, LinkedFacts, WhereOnce
  <1>1. \A w \in Walked : Number(w) \in Nat
    BY <1>0, NumberFacts
  <1>2. dominated \in [Blocks -> Seq(Blocks)] /\ Walked \subseteq Blocks
    BY <1>0, NumberFacts DEF TypeOK
  <1> DEFINE Missed(w) == StrictlyDominates(succ, Root, u, w) /\ ~IsDominated(u, w)
             Numbers == {Number(w) : w \in {x \in Walked : Missed(x)}}
  <1> SUFFICES ASSUME Missed(v) PROVE FALSE
    OBVIOUS
  <1>3. PICK w \in Walked : Missed(w) /\ \A x \in Walked : Missed(x) => Number(w) <= Number(x)
    <2>1. Numbers \subseteq Nat /\ Number(v) \in Numbers
      BY <1>1
    <2>2. PICK n \in Numbers : \A m \in Numbers : n <= m
      <3> HIDE DEF Numbers
      <3> QED BY <2>1, LeastNat
    <2>3. PICK w \in Walked : Missed(w) /\ n = Number(w)
      BY <2>2
    <2> HIDE DEF Missed
    <2> QED BY <2>2, <2>3
  <1>4. w # Root
    BY <1>0, <1>3, DominatorAbove, TreeFacts
  <1>5. PICK d : d = info[w].dom
    OBVIOUS
  <1>6. /\ d \in Above(w) /\ d \in Walked /\ Number(d) < Number(w)
        /\ Dominates(succ, Root, u, d)
    <2>1. d \in Above(w) /\ StrictlyDominates(succ, Root, d, w)
      BY <1>0, <1>3, <1>4, <1>5 DEF Resolved
    <2>2. d # w /\ d \in Walked /\ Number(d) < Number(w)
      BY <1>0, <1>3, <2>1, TreeFacts DEF StrictlyDominates
    <2>3. Dominates(succ, Root, u, d)
      BY <1>0, <1>3, <1>4, <1>5 DEF Immediate
    <2> QED BY <2>1, <2>2, <2>3
  <1>7. w \in ToSet(dominated[d])
    <2>1. Number(w) + 1 \in DOMAIN vertexes /\ vertexes[Number(w) + 1] = w /\ Number(w) + 1 < k
      <3>1. Number(w) \in Nat /\ Number(w) < Len(vertexes) /\ Len(vertexes) \in Nat
            /\ vertexes[Number(w) + 1] = w /\ vertexes \in Seq(Blocks)
        BY <1>0, <1>3, NumberFacts DEF TypeOK
      <3> QED BY <1>0, <3>1
    <2> QED BY <1>4, <1>5, <2>1 DEF Listed
  <1>8. CASE u = d
    <2>1. w \in ReachFrom(dominated, w)
      BY <1>2, <1>3, ReachReflexive
    <2>2. IsDominated(u, w)
      BY <1>7, <1>8, <2>1 DEF IsDominated
    <2> QED BY <1>3, <2>2
  <1>9. CASE u # d
    <2>1. StrictlyDominates(succ, Root, u, d)
      BY <1>6, <1>9 DEF StrictlyDominates
    <2>2. IsDominated(u, d)
      <3>1. Number(d) \in Nat /\ Number(w) \in Nat /\ ~(Number(w) <= Number(d))
        BY <1>1, <1>3, <1>6
      <3> QED BY <1>3, <1>6, <2>1, <3>1
    <2>3. PICK x \in ToSet(dominated[u]) : d \in ReachFrom(dominated, x)
      BY <2>2 DEF IsDominated
    <2>4. x \in Blocks /\ d \in Blocks
      BY <1>2, <1>6, <2>3, Entries
    <2>5. w \in ReachFrom(dominated, d)
      BY <1>2, <1>7, <2>4, ReachEdge
    <2>6. w \in ReachFrom(dominated, x)
      BY <1>2, <2>3, <2>4, <2>5, ReachTransitive
    <2>7. IsDominated(u, w)
      BY <2>3, <2>6 DEF IsDominated
    <2> QED BY <1>3, <2>7
  <1> QED BY <1>8, <1>9

\* And after the first run they say yes to nothing else.
LEMMA ListsSound ==
    ASSUME IInv, pc = "build", OnlyListed,
           NEW u \in Walked, NEW v \in Walked, IsDominated(u, v)
    PROVE  StrictlyDominates(succ, Root, u, v)
  <1>0. /\ TypeOK /\ NumbersShape /\ TreeShape /\ Walked \subseteq Blocks
        /\ \A w \in Walked \ {Root} : Resolved(w)
    BY NumberFacts DEF IInv, TypeOK, WalkInv, Tree
  <1>1. dominated \in [Blocks -> Seq(Blocks)]
    BY <1>0 DEF TypeOK
  <1>2. PICK x \in ToSet(dominated[u]) : v \in ReachFrom(dominated, x)
    BY DEF IsDominated
  <1> DEFINE S == {y \in Walked : StrictlyDominates(succ, Root, u, y)}
  <1>3. \A y \in Walked : \A z \in ToSet(dominated[y]) :
           z \in Walked /\ StrictlyDominates(succ, Root, y, z)
    BY <1>0 DEF OnlyListed, Resolved
  <1>4. x \in S /\ x \in Blocks
    BY <1>0, <1>2, <1>3
  <1>5. ASSUME NEW y \in S, NEW z \in ToSet(dominated[y]) PROVE z \in S
    BY <1>0, <1>3, <1>5, DominatesTransitive
  <1>6. Closed(dominated, S) /\ S \in SUBSET Blocks
    BY <1>0, <1>5 DEF Closed
  <1>7. ReachFrom(dominated, x) \subseteq S
    <2> HIDE DEF S
    <2> QED BY <1>1, <1>4, <1>6, ReachWithinClosed
  <1> QED BY <1>2, <1>7

\* When a run ends without a block numbered twice, the blocks hold their
\* immediate dominators and the lists miss no dominance.
LEMMA FinishAnswers ==
    ASSUME IInv, Finish, ~NumbersTwice => WhereOnce, Listed, FirstLists
    PROVE  TreeAnswersDominance' /\ ListsNeverMissDominance'
  <1>0. /\ pc = "build" /\ k > Len(vertexes) /\ pc' = "done"
        /\ UNCHANGED <<succ, predec, idom, dominated, runs>>
    BY DEF Finish, graphVars, resultVars, countVars
  <1>1. /\ TypeOK /\ NumbersShape /\ TreeShape /\ LinkedFacts /\ k \in Nat
        /\ Walked = Reachable
        /\ info[Root].dom = Null /\ \A w \in Walked \ {Root} : Resolved(w)
    BY <1>0, WalkedIsReachable DEF IInv, TypeOK, WalkInv, Tree, LinkedFacts
  <1>2. Reachable' = Reachable
    BY <1>0 DEF Reachable
  <1>3. \A u, v : IsDominated(u, v)' <=> IsDominated(u, v)
    BY <1>0 DEF IsDominated
  <1>4. NumbersTwice' = NumbersTwice
    BY <1>0 DEF NumbersTwice
  <1> SUFFICES ASSUME ~NumbersTwice
               PROVE  TreeAnswersDominance' /\ ListsNeverMissDominance'
    BY <1>4 DEF TreeAnswersDominance, ListsNeverMissDominance
  <1>5. WhereOnce /\ \A w \in Walked \ {Root} : Immediate(w)
    BY <1>0 DEF WhereOnce
  <1>6. \A u, v \in Walked : StrictlyDominates(succ, Root, u, v) => IsDominated(u, v)
    BY <1>0, <1>5, ListsComplete
  <1>7. ListsNeverMissDominance'
    BY <1>0, <1>1, <1>2, <1>3, <1>6 DEF ListsNeverMissDominance
  <1>8. ASSUME NEW w \in Walked PROVE idom[w] = info[w].dom
    <2>1. Number(w) \in Nat /\ Number(w) < Len(vertexes) /\ Len(vertexes) \in Nat
          /\ vertexes[Number(w) + 1] = w /\ vertexes \in Seq(Blocks)
      BY <1>1, NumberFacts DEF TypeOK
    <2>2. Number(w) + 1 \in DOMAIN vertexes /\ Number(w) + 1 < k
      BY <1>0, <1>1, <2>1
    <2> QED BY <2>1, <2>2 DEF Listed
  <1>9. TreeAnswersDominance'
    <2> SUFFICES ASSUME runs = 1 PROVE TreeAnswersDominance'
      BY <1>0 DEF TreeAnswersDominance
    <2>1. OnlyListed
      BY <1>0 DEF FirstLists
    <2>2. idom[Root] = Null
      BY <1>1, <1>8, NumberFacts
    <2>3. ASSUME NEW v \in Walked \ {Root} PROVE IsImmediateDominator(succ, Root, idom[v], v)
      <3>1. StrictlyDominates(succ, Root, idom[v], v)
        BY <1>1, <1>8 DEF Resolved
      <3>2. \A c \in Walked : StrictlyDominates(succ, Root, c, v) => Dominates(succ, Root, c, idom[v])
        BY <1>5, <1>8 DEF Immediate
      <3> QED BY <1>1, <3>1, <3>2 DEF IsImmediateDominator, Reachable
    <2>4. \A u, v \in Walked : IsDominated(u, v) => StrictlyDominates(succ, Root, u, v)
      BY <1>0, <2>1, ListsSound
    <2> QED BY <1>0, <1>1, <1>2, <1>3, <1>6, <2>2, <2>3, <2>4 DEF TreeAnswersDominance
  <1> QED BY <1>7, <1>9

-----------------------------------------------------------------------------
(* The recursion through the lists comes to an end.                        *)

\* Successor vectors, and relations between blocks.
Vectors == [Blocks -> Seq(Blocks)]
Relations == SUBSET (Blocks \X Blocks)

\* No edge of g is missing in h.
Within(g, h) == \A u \in Blocks : ToSet(g[u]) \subseteq ToSet(h[u])

\* Dominance on one graph is a strict order.
LEMMA DominanceOrdered ==
    ASSUME NEW g \in Vectors
    PROVE  \E R \in Relations :
              StrictOrder(R) /\ HoldsDominance(g, R) /\ OnlyDominance(g, R) /\ OnlyReached(g, R)
  <1> USE DEF Vectors, Relations, Within
  <1>0. Root \in Blocks /\ ReachFrom(g, Root) \subseteq Blocks
    BY CfgAssumption, ReachTyped
  <1> DEFINE R == {e \in Blocks \X Blocks :
                      e[2] \in ReachFrom(g, Root) /\ StrictlyDominates(g, Root, e[1], e[2])}
  <1>1. \A u, v \in Blocks :
           <<u, v>> \in R <=> v \in ReachFrom(g, Root) /\ StrictlyDominates(g, Root, u, v)
    OBVIOUS
  <1>2. HoldsDominance(g, R) /\ OnlyDominance(g, R)
    BY <1>0, <1>1 DEF HoldsDominance, OnlyDominance
  <1>3. OnlyReached(g, R)
    <2> HIDE DEF R
    <2> QED BY <1>0, <1>1, DominatorReached DEF OnlyReached
  <1>4. StrictOrder(R)
    <2>1. \A u \in Blocks : <<u, u>> \notin R
      BY <1>1 DEF StrictlyDominates
    <2>2. ASSUME NEW u \in Blocks, NEW v \in Blocks, NEW w \in Blocks,
                 <<u, v>> \in R, <<v, w>> \in R
          PROVE  <<u, w>> \in R
      BY <1>0, <1>1, <2>2, StrictTransitive
    <2> HIDE DEF R
    <2> QED BY <2>1, <2>2 DEF StrictOrder
  <1>5. R \in SUBSET (Blocks \X Blocks)
    OBVIOUS
  <1> HIDE DEF R
  <1> QED BY <1>2, <1>3, <1>4, <1>5

\* With more edges: the blocks that are new come behind all others.
LEMMA OrderGrows ==
    ASSUME NEW g \in Vectors, NEW h \in Vectors, NEW R \in Relations, Within(g, h),
           StrictOrder(R), HoldsDominance(g, R), OnlyReached(g, R)
    PROVE  \E Q \in Relations :
              R \subseteq Q /\ StrictOrder(Q) /\ HoldsDominance(h, Q) /\ OnlyReached(h, Q)
  <1> USE DEF Vectors, Relations, Within
  <1> DEFINE Old == ReachFrom(g, Root)
             Now == ReachFrom(h, Root)
             Dom(u, v) == StrictlyDominates(h, Root, u, v)
             Behind(u, v) == /\ v \in Now \ Old
                             /\ \/ Dom(u, v)
                                \/ \E e \in Blocks : <<u, e>> \in R /\ Dom(e, v)
             Q == {e \in Blocks \X Blocks : e \in R \/ Behind(e[1], e[2])}
  <1>0. Root \in Blocks /\ Old \subseteq Now /\ Now \subseteq Blocks
    BY CfgAssumption, ReachTyped, MoreEdges
  <1>1. \A u, v \in Blocks : v \in Old /\ Dom(u, v) => <<u, v>> \in R
    BY <1>0, MoreEdges DEF HoldsDominance
  <1>2. \A u, v \in Blocks : v \in Now /\ Dom(u, v) => u # v /\ u \in Now
    BY <1>0, DominatorReached DEF StrictlyDominates
  <1>3. \A u, v, w \in Blocks : w \in Now /\ Dom(u, v) /\ Dom(v, w) => Dom(u, w)
    BY <1>0, StrictTransitive
  <1>4. \A u, v \in Blocks : <<u, v>> \in R => u \in Old /\ v \in Old /\ u # v
    BY DEF OnlyReached, StrictOrder
  <1>5. \A u, v, w \in Blocks : <<u, v>> \in R /\ <<v, w>> \in R => <<u, w>> \in R
    BY DEF StrictOrder
  <1>6. \A u, v \in Blocks : <<u, v>> \in Q <=> <<u, v>> \in R \/ Behind(u, v)
    OBVIOUS
  <1>7. Q \in SUBSET (Blocks \X Blocks) /\ R \subseteq Q
    OBVIOUS
  <1> HIDE DEF Old, Now, Dom, Q
  <1>8. StrictOrder(Q)
    <2>1. \A u \in Blocks : <<u, u>> \notin Q
      BY <1>2, <1>4, <1>6
    <2>2. ASSUME NEW u \in Blocks, NEW v \in Blocks, NEW w \in Blocks,
                 <<u, v>> \in Q, <<v, w>> \in Q
          PROVE  <<u, w>> \in Q
      <3>1. CASE <<v, w>> \in R
        <4>1. <<u, v>> \in R
          BY <1>4, <1>6, <2>2, <3>1
        <4> QED BY <1>5, <1>6, <3>1, <4>1
      <3>2. CASE w \in Now \ Old /\ Dom(v, w)
        <4>1. CASE <<u, v>> \in R
          BY <1>6, <3>2, <4>1
        <4>2. CASE Dom(u, v)
          BY <1>3, <1>6, <3>2, <4>2
        <4>3. CASE \E e \in Blocks : <<u, e>> \in R /\ Dom(e, v)
          BY <1>3, <1>6, <3>2, <4>3
        <4> QED BY <1>6, <2>2, <4>1, <4>2, <4>3
      <3>3. ASSUME w \in Now \ Old, NEW e \in Blocks, <<v, e>> \in R, Dom(e, w)
            PROVE  <<u, w>> \in Q
        <4>1. <<u, v>> \in R
          BY <1>4, <1>6, <2>2, <3>3
        <4> QED BY <1>5, <1>6, <3>3, <4>1
      <3> QED BY <1>6, <2>2, <3>1, <3>2, <3>3
    <2> QED BY <2>1, <2>2 DEF StrictOrder
  <1>9. HoldsDominance(h, Q)
    BY <1>0, <1>1, <1>6 DEF HoldsDominance, Dom, Now
  <1>10. OnlyReached(h, Q)
    <2>1. ASSUME NEW u \in Blocks, NEW v \in Blocks, <<u, v>> \in Q PROVE u \in Now /\ v \in Now
      BY <1>0, <1>2, <1>4, <1>6, <2>1
    <2> QED BY <2>1 DEF OnlyReached, Now
  <1> QED BY <1>7, <1>8, <1>9, <1>10

\* With fewer edges: the blocks that are lost come behind all others.
LEMMA OrderShrinks ==
    ASSUME NEW g \in Vectors, NEW h \in Vectors, NEW R \in Relations, Within(h, g),
           StrictOrder(R), OnlyDominance(g, R)
    PROVE  \E Q \in Relations :
              R \subseteq Q /\ StrictOrder(Q) /\ HoldsDominance(h, Q) /\ OnlyDominance(h, Q)
  <1> USE DEF Vectors, Relations, Within
  <1> DEFINE Now == ReachFrom(h, Root)
             Dom(u, v) == StrictlyDominates(h, Root, u, v)
             Still(u, v) == v \in Now /\ Dom(u, v)
             Behind(u, v) == /\ v \notin Now
                             /\ \/ <<u, v>> \in R
                                \/ \E e \in Blocks : e \in Now /\ Dom(u, e) /\ <<e, v>> \in R
             Q == {e \in Blocks \X Blocks : Still(e[1], e[2]) \/ Behind(e[1], e[2])}
  <1>0. Root \in Blocks /\ Now \subseteq ReachFrom(g, Root) /\ Now \subseteq Blocks
    BY CfgAssumption, ReachTyped, MoreEdges
  <1>1. \A u, v \in Blocks : v \in Now /\ <<u, v>> \in R => Dom(u, v)
    BY <1>0, MoreEdges DEF OnlyDominance
  <1>2. \A u, v \in Blocks : v \in Now /\ Dom(u, v) => u # v /\ u \in Now
    BY <1>0, DominatorReached DEF StrictlyDominates
  <1>3. \A u, v, w \in Blocks : w \in Now /\ Dom(u, v) /\ Dom(v, w) => Dom(u, w)
    BY <1>0, StrictTransitive
  <1>4. \A u \in Blocks : <<u, u>> \notin R
    BY DEF StrictOrder
  <1>5. \A u, v, w \in Blocks : <<u, v>> \in R /\ <<v, w>> \in R => <<u, w>> \in R
    BY DEF StrictOrder
  <1>6. \A u, v \in Blocks : <<u, v>> \in Q <=> Still(u, v) \/ Behind(u, v)
    OBVIOUS
  <1>7. Q \in SUBSET (Blocks \X Blocks)
    OBVIOUS
  <1> HIDE DEF Now, Dom, Q
  <1>8. R \subseteq Q
    <2>1. ASSUME NEW u \in Blocks, NEW v \in Blocks, <<u, v>> \in R PROVE <<u, v>> \in Q
      BY <1>1, <1>6, <2>1
    <2> QED BY <2>1
  <1>9. StrictOrder(Q)
    <2>1. \A u \in Blocks : <<u, u>> \notin Q
      <3>1. ASSUME NEW u \in Blocks, u \notin Now, NEW e \in Blocks, e \in Now, Dom(u, e)
            PROVE  FALSE
        BY <1>2, <3>1
      <3> QED BY <1>2, <1>4, <1>6, <3>1
    <2>2. ASSUME NEW u \in Blocks, NEW v \in Blocks, NEW w \in Blocks,
                 <<u, v>> \in Q, <<v, w>> \in Q
          PROVE  <<u, w>> \in Q
      <3>1. CASE w \in Now /\ Dom(v, w)
        <4>1. Dom(u, v)
          BY <1>2, <1>6, <2>2, <3>1
        <4> QED BY <1>3, <1>6, <3>1, <4>1
      <3>2. CASE w \notin Now /\ v \in Now
        <4>1. Dom(u, v)
          BY <1>6, <2>2, <3>2
        <4>2. CASE <<v, w>> \in R
          BY <1>6, <3>2, <4>1, <4>2
        <4>3. ASSUME NEW e \in Blocks, e \in Now, Dom(v, e), <<e, w>> \in R
              PROVE  <<u, w>> \in Q
          BY <1>3, <1>6, <3>2, <4>1, <4>3
        <4> QED BY <1>6, <2>2, <3>2, <4>2, <4>3
      <3>3. CASE w \notin Now /\ v \notin Now
        <4>1. <<v, w>> \in R
          BY <1>2, <1>6, <2>2, <3>3
        <4>2. CASE <<u, v>> \in R
          BY <1>5, <1>6, <3>3, <4>1, <4>2
        <4>3. ASSUME NEW e \in Blocks, e \in Now, Dom(u, e), <<e, v>> \in R
              PROVE  <<u, w>> \in Q
          BY <1>5, <1>6, <3>3, <4>1, <4>3
        <4> QED BY <1>6, <2>2, <3>3, <4>2, <4>3
      <3> QED BY <1>6, <2>2, <3>1, <3>2, <3>3
    <2> QED BY <2>1, <2>2 DEF StrictOrder
  <1>10. HoldsDominance(h, Q)
    BY <1>0, <1>6 DEF HoldsDominance, Dom, Now
  <1>11. OnlyDominance(h, Q)
    BY <1>0, <1>6 DEF OnlyDominance, Dom, Now
  <1> QED BY <1>7, <1>8, <1>9, <1>10, <1>11

\* Editing an edge adds entries to the successor vectors or takes some away.
LEMMA EditedEdges ==
    ASSUME TypeOK, TypeOK', Edits
    PROVE  /\ dominated' = dominated
           /\ \/ /\ plan'.kinds = plan.kinds \cup {"added"}
                 /\ \A u \in Blocks : ToSet(succ[u]) \subseteq ToSet(succ'[u])
              \/ /\ plan'.kinds = plan.kinds \cup {"removed"}
                 /\ \A u \in Blocks : ToSet(succ'[u]) \subseteq ToSet(succ[u])
  <1>1. PICK from \in plan.among, to \in plan.among : AddEdge(from, to) \/ RemoveEdge(from, to)
    BY DEF Edits
  <1>2. /\ from \in Blocks /\ to \in Blocks /\ succ \in [Blocks -> Seq(Blocks)]
        /\ plan \in [runs : Nat, edits : Nat, among : SUBSET Blocks,
                     kinds : SUBSET {"added", "removed"}]
    BY DEF TypeOK
  <1>3. CASE AddEdge(from, to)
    <2>1. dominated' = dominated /\ plan'.kinds = plan.kinds \cup {"added"}
      BY <1>2, <1>3 DEF AddEdge, Edit, resultVars
    <2>2. ASSUME NEW u \in Blocks PROVE ToSet(succ[u]) \subseteq ToSet(succ'[u])
      <3>1. succ'[u] = IF u = from THEN Append(succ[u], to) ELSE succ[u]
        BY <1>2, <1>3 DEF AddEdge, PushBack
      <3> QED BY <1>2, <3>1, AppendEntries
    <2> QED BY <2>1, <2>2
  <1>4. CASE RemoveEdge(from, to)
    <2>1. dominated' = dominated /\ plan'.kinds = plan.kinds \cup {"removed"}
      BY <1>2, <1>4 DEF RemoveEdge, Edit, resultVars
    <2>2. ASSUME NEW u \in Blocks PROVE ToSet(succ'[u]) \subseteq ToSet(succ[u])
      <3>1. succ'[u] = IF u = from THEN Front(succ[u]) ELSE succ[u]
        BY <1>2, <1>4 DEF RemoveEdge, PopBack
      <3>2. succ[from] # <<>>
        BY <1>4 DEF RemoveEdge, Occurs, ToSet
      <3>3. ToSet(Front(succ[from])) \subseteq ToSet(succ[from])
        <4>1. succ[from] \in Seq(Blocks)
          BY <1>2
        <4>2. Front(succ[from]) \in Seq(Blocks)
          BY <3>2, <4>1, FrontEntries
        <4> QED BY <3>2, <4>1, <4>2, Entries, FrontEntries
      <3> QED BY <3>1, <3>3
    <2> QED BY <2>1, <2>2
  <1> QED BY <1>1, <1>3, <1>4

\* So some order goes on to hold the lists.
LEMMA EditOrdered ==
    ASSUME IInv, IInv', ListsOrdered, Edits
    PROVE  ListsOrdered'
  <1> SUFFICES ASSUME plan'.kinds # {"added", "removed"}
               PROVE  (\E R \in Relations : Orders(R))'
    BY DEF ListsOrdered, Relations
  <1>0. /\ TypeOK /\ TypeOK' /\ succ \in [Blocks -> Seq(Blocks)] /\ succ' \in [Blocks -> Seq(Blocks)]
        /\ plan.kinds \in SUBSET {"added", "removed"} /\ dominated' = dominated
    BY EditedEdges DEF IInv, TypeOK
  <1>a. PICK g, h : g = succ /\ h = succ'
    OBVIOUS
  <1>1. PICK R \in Relations : Orders(R)
    <2>1. plan.kinds # {"added", "removed"}
      BY <1>0, EditedEdges
    <2> QED BY <2>1 DEF ListsOrdered, Relations
  <1>2. CASE /\ plan'.kinds = plan.kinds \cup {"added"}
             /\ \A u \in Blocks : ToSet(succ[u]) \subseteq ToSet(succ'[u])
    <2>1. "removed" \notin plan.kinds
      BY <1>0, <1>2
    <2>2. StrictOrder(R) /\ HoldsDominance(g, R) /\ OnlyReached(g, R)
      BY <1>1, <1>a, <2>1 DEF Orders
    <2>3. PICK Q \in Relations :
             R \subseteq Q /\ StrictOrder(Q) /\ HoldsDominance(h, Q) /\ OnlyReached(h, Q)
      <3>1. g \in Vectors /\ h \in Vectors /\ Within(g, h)
        BY <1>a, <1>0, <1>2 DEF Vectors, Within
      <3> QED BY <2>2, <3>1, OrderGrows
    <2>4. Orders(Q)'
      BY <1>a, <1>0, <1>1, <1>2, <2>3 DEF Orders, HoldsDominance, OnlyReached, OnlyDominance, StrictOrder
    <2> QED BY <2>4
  <1>3. CASE /\ plan'.kinds = plan.kinds \cup {"removed"}
             /\ \A u \in Blocks : ToSet(succ'[u]) \subseteq ToSet(succ[u])
    <2>1. "added" \notin plan.kinds
      BY <1>0, <1>3
    <2>2. StrictOrder(R) /\ OnlyDominance(g, R)
      BY <1>1, <1>a, <2>1 DEF Orders
    <2>3. PICK Q \in Relations :
             R \subseteq Q /\ StrictOrder(Q) /\ HoldsDominance(h, Q) /\ OnlyDominance(h, Q)
      <3>1. g \in Vectors /\ h \in Vectors /\ Within(h, g)
        BY <1>a, <1>0, <1>3 DEF Vectors, Within
      <3> QED BY <2>2, <3>1, OrderShrinks
    <2>4. Orders(Q)'
      BY <1>a, <1>0, <1>1, <1>3, <2>3 DEF Orders, HoldsDominance, OnlyReached, OnlyDominance, StrictOrder
    <2> QED BY <2>4
  <1> QED BY <1>0, <1>2, <1>3, EditedEdges

\* What BuildVertex lists is a dominance, so it is in the order.
LEMMA BuildOrdered ==
    ASSUME IInv, ListsOrdered, BuildVertex
    PROVE  ListsOrdered'
  <1> SUFFICES ASSUME plan'.kinds # {"added", "removed"}
               PROVE  (\E R \in Relations : Orders(R))'
    BY DEF ListsOrdered, Relations
  <1>1. PICK V, dom : V = Vertex /\ dom = info[V].dom
    OBVIOUS
  <1>2. UNCHANGED <<succ, plan>> /\ pc = "build"
    BY DEF BuildVertex, graphVars, countVars
  <1>3. PICK R \in Relations : Orders(R)
    BY <1>2 DEF ListsOrdered, Relations
  <1>4. /\ V \in Walked /\ V \in Blocks /\ (V = Root => dom = Null) /\ Null \notin Blocks
        /\ \A b \in Blocks : ToSet(dominated'[b]) =
              IF b = dom THEN ToSet(dominated[b]) \cup {V} ELSE ToSet(dominated[b])
    <2>1. Null \notin Blocks
      BY CfgAssumption
    <2> QED BY <1>1, <2>1, BuildFacts
  <1>5. dom \in Blocks => <<dom, V>> \in R
    <2>1. V \in ReachFrom(succ, Root)
      BY <1>2, <1>4 DEF IInv, WalkInv, Tree, WalkedReachable, Reachable
    <2>2. dom \in Blocks => StrictlyDominates(succ, Root, dom, V)
      BY <1>1, <1>2, <1>4 DEF IInv, Resolved
    <2> QED BY <1>3, <2>1, <2>2 DEF Orders, HoldsDominance
  <1>6. \A u, v \in Blocks : v \in ToSet(dominated'[u]) => <<u, v>> \in R
    BY <1>3, <1>4, <1>5 DEF Orders
  <1>7. Orders(R)'
    BY <1>2, <1>3, <1>6 DEF Orders, HoldsDominance, OnlyReached, OnlyDominance, StrictOrder
  <1> QED BY <1>7

\* A list that is part of a strict order leads to no block twice.
LEMMA OrderEnds ==
    ASSUME TypeOK, ListsOrdered
    PROVE  IsDominatedEnds
  <1> SUFFICES ASSUME plan.kinds # {"added", "removed"}, NEW u \in Blocks, IsDominated(u, u)
               PROVE  FALSE
    BY DEF IsDominatedEnds
  <1>1. PICK R \in Relations : Orders(R)
    BY DEF ListsOrdered, Relations
  <1>2. PICK x \in ToSet(dominated[u]) : u \in ReachFrom(dominated, x)
    BY DEF IsDominated
  <1>3. dominated \in [Blocks -> Seq(Blocks)] /\ x \in Blocks
    BY <1>2, Entries DEF TypeOK
  <1> DEFINE S == {y \in Blocks : <<u, y>> \in R}
  <1>4. x \in S /\ S \in SUBSET Blocks
    BY <1>1, <1>2, <1>3 DEF Orders
  <1>5. Closed(dominated, S)
    <2> SUFFICES ASSUME NEW y \in S, NEW z \in ToSet(dominated[y]) PROVE z \in S
      BY DEF Closed
    <2>1. z \in Blocks
      BY <1>3, Entries
    <2> QED BY <1>1, <2>1 DEF Orders, StrictOrder
  <1>6. u \in S
    <2> HIDE DEF S
    <2> QED BY <1>2, <1>3, <1>4, <1>5, ReachWithinClosed
  <1> QED BY <1>1, <1>6 DEF Orders, StrictOrder

-----------------------------------------------------------------------------
(* The theorems.                                                           *)

\* No step but the end of Run brings a result to be asked for.
LEMMA AnswersStep ==
    ASSUME IInv, [Next]_vars, Exact
    PROVE  TreeAnswersDominance' /\ ListsNeverMissDominance'
  <1>1. CASE Finish
    <2>1. pc = "build"
      BY <1>1 DEF Finish
    <2> QED BY <1>1, <2>1, FinishAnswers DEF Exact
  <1>2. CASE UNCHANGED vars
    <2>1. UNCHANGED <<succ, idom, dominated, pc, runs>>
      BY <1>2 DEF vars, graphVars, resultVars, countVars
    <2> QED BY <2>1 DEF Exact, TreeAnswersDominance, ListsNeverMissDominance, NumbersTwice,
                        Reachable, IsDominated
  <1>3. CASE pc' # "done"
    BY <1>3 DEF TreeAnswersDominance, ListsNeverMissDominance
  <1>4. Finish \/ UNCHANGED vars \/ pc' # "done"
    BY DEF Next, Steps, Edits, Ended, Run, CallDFS, PassOver, Return, AtSuccessor, MakeForest,
           EvalPredec, LinkVertex, EmptyBucket, NextVertex, FixDom, ClearRootDom, BuildVertex,
           AddEdge, RemoveEdge, Edit
  <1> QED BY <1>1, <1>2, <1>3, <1>4

\* DomTree::Run on a graph where no block is numbered twice finds exact
\* semidominators and immediate dominators, and the lists it leaves in the
\* blocks answer the question of dominance.
THEOREM Results == Spec => []Exact
  <1>1. Init => Exact
    <2> SUFFICES ASSUME Init PROVE Exact
      OBVIOUS
    <2>1. pc = "start" /\ runs = 0 /\ dominated = [b \in Blocks |-> <<>>]
      BY DEF Init
    <2>2. OnlyListed
      <3>1. ASSUME NEW u \in Blocks PROVE ToSet(dominated[u]) = {}
        BY <2>1 DEF ToSet
      <3> QED BY <3>1 DEF OnlyListed
    <2> QED BY <2>1, <2>2 DEF Exact, WhereOnce, FirstLists, TreeAnswersDominance,
                              ListsNeverMissDominance
  <1>2. IInv /\ IInv' /\ Exact /\ [Next]_vars => Exact'
    <2> SUFFICES ASSUME IInv, IInv', Exact, [Next]_vars PROVE Exact'
      OBVIOUS
    <2>1. ASSUME ~NumbersTwice' PROVE WhereOnce'
      <3>1. CASE Steps
        <4>1. succ' = succ
          BY <3>1 DEF Steps, Run, CallDFS, PassOver, Return, MakeForest, EvalPredec, LinkVertex,
                      EmptyBucket, NextVertex, FixDom, ClearRootDom, BuildVertex, Finish, graphVars
        <4>2. ~NumbersTwice
          BY <2>1, <4>1 DEF NumbersTwice
        <4> QED BY <3>1, <4>2, WhereOnceStep DEF Exact
      <3>2. CASE Edits
        <4>1. pc' = "start"
          BY <3>2 DEF Edits, AddEdge, RemoveEdge, Edit
        <4> QED BY <4>1 DEF WhereOnce
      <3>3. CASE UNCHANGED vars
        <4>1. UNCHANGED <<succ, vertexes, info, stack, k, pc>>
          BY <3>3 DEF vars, graphVars
        <4>2. ~NumbersTwice
          BY <2>1, <4>1 DEF NumbersTwice
        <4> QED BY <4>1, <4>2 DEF Exact, WhereOnce, NumberedOnce, Second, Number, Called, SemisReached,
                                  Semi, SemiBlock, Numbered, Starts, Immediate, Walked
      <3> QED BY <3>1, <3>2, <3>3 DEF Next, Ended
    <2>2. pc' = "build" => Listed'
      BY ListedStep DEF Exact
    <2>3. FirstLists'
      BY FirstListsStep DEF Exact
    <2>4. TreeAnswersDominance' /\ ListsNeverMissDominance'
      BY AnswersStep
    <2> QED BY <2>1, <2>2, <2>3, <2>4 DEF Exact
  <1> QED BY <1>1, <1>2, Invariance, PTL DEF Spec

\* When step 4 begins each semidominator is the least number from which a path
\* through greater numbers leads to the block.
THEOREM SemidominatorsExact == Spec => []SemidominatorsCorrect
  <1>1. IInv /\ Exact => SemidominatorsCorrect
    <2> SUFFICES ASSUME IInv, Exact, pc = "step4", ~NumbersTwice,
                        NEW v \in ToSet(vertexes) \ {Root}
                 PROVE  info[v].semi = Semidominator(v)
      BY DEF SemidominatorsCorrect
    <2>1. /\ TypeOK /\ InStep /\ NumbersShape /\ TreeShape /\ AllLinked /\ LinkedFacts /\ SemisReached
          /\ v \in Walked \ {Root}
      BY DEF IInv, WalkInv, Tree, NumbersShape, LinkedFacts, Exact, WhereOnce
    <2>2. Semi(v) < Number(v) /\ Semi(v) \in Nat /\ Number(v) \in Nat
      BY <2>1, SemiBelow, LinkedTree DEF AllLinked
    <2>3. SemiBlock(v) \in Starts(v) /\ Number(SemiBlock(v)) = Semi(v)
      BY <2>1, <2>2, LinkedTree DEF SemisReached
    <2>4. \A u \in Starts(v) : Semi(v) <= Number(u) /\ Number(u) \in Nat
      BY <2>1, SemiLeast, LinkedTree
    <2> DEFINE N == {Number(u) : u \in Starts(v)}
    <2>5. Semi(v) \in N /\ \A n \in N : Semi(v) <= n /\ n \in Nat
      BY <2>3, <2>4
    <2>6. Min(N) = Semi(v)
      <3> HIDE DEF N
      <3> QED BY <2>2, <2>5 DEF Min
    <2> QED BY <2>6 DEF Semidominator, Semi
  <1> QED BY <1>1, Invariance, Results, PTL

\* After a first run GetIdom gives the immediate dominator and IsDominated is
\* dominance.
THEOREM TreeRight == Spec => []TreeAnswersDominance
  <1>1. Exact => TreeAnswersDominance
    BY DEF Exact
  <1> QED BY <1>1, Results, PTL

\* After any run the lists say yes to every true dominance.
THEOREM ListsMissNothing == Spec => []ListsNeverMissDominance
  <1>1. Exact => ListsNeverMissDominance
    BY DEF Exact
  <1> QED BY <1>1, Results, PTL

\* Some strict order holds all that was ever listed, unless the client both
\* adds and removes edges.
THEOREM ListsStayOrdered == Spec => []ListsOrdered
  <1>1. Init /\ IInv => ListsOrdered
    <2> SUFFICES ASSUME Init, IInv PROVE ListsOrdered
      OBVIOUS
    <2>1. succ \in [Blocks -> Seq(Blocks)] /\ dominated = [b \in Blocks |-> <<>>]
      BY DEF Init, IInv, TypeOK
    <2>2. PICK R \in Relations :
             StrictOrder(R) /\ HoldsDominance(succ, R) /\ OnlyDominance(succ, R) /\ OnlyReached(succ, R)
      BY <2>1, DominanceOrdered DEF Vectors
    <2>3. \A u \in Blocks : ToSet(dominated[u]) = {}
      BY <2>1 DEF ToSet
    <2>4. Orders(R)
      BY <2>2, <2>3 DEF Orders
    <2> QED BY <2>4 DEF ListsOrdered, Relations
  <1>2. IInv /\ IInv' /\ ListsOrdered /\ [Next]_vars => ListsOrdered'
    <2> SUFFICES ASSUME IInv, IInv', ListsOrdered, [Next]_vars PROVE ListsOrdered'
      OBVIOUS
    <2>1. CASE UNCHANGED <<succ, dominated, plan>>
      BY <2>1 DEF ListsOrdered, Orders, HoldsDominance, OnlyReached, OnlyDominance, StrictOrder
    <2>2. Edits \/ BuildVertex \/ UNCHANGED <<succ, dominated, plan>>
      BY DEF Next, Steps, Ended, Run, CallDFS, PassOver, Return, MakeForest, EvalPredec, LinkVertex,
             EmptyBucket, NextVertex, FixDom, ClearRootDom, Finish, vars, graphVars, resultVars,
             countVars
    <2> QED BY <2>1, <2>2, EditOrdered, BuildOrdered
  <1> QED BY <1>1, <1>2, Invariance, PTL DEF Spec

\* IsDominated, which marks no block as visited, comes to an end after any
\* number of runs, unless the client both adds and removes edges in between.
THEOREM RecursionEnds == Spec => []IsDominatedEnds
  <1>1. IInv /\ ListsOrdered => IsDominatedEnds
    BY OrderEnds DEF IInv
  <1> QED BY <1>1, Invariance, ListsStayOrdered, PTL

=============================================================================
