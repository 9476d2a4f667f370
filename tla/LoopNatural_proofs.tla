------------------------- MODULE LoopNatural_proofs -------------------------
(***************************************************************************)
(* LoopAnalyzer finds the natural loops and nests them: on a reducible     *)
(* graph whose back edges start in the loop they close, every block ends   *)
(* up in the innermost natural loop around it, after any number of runs,   *)
(* and after the first the tree of loops is their nesting.                 *)
(***************************************************************************)
EXTENDS LoopAnalyzerInvariant, LoopAnalyzer_proofs

-----------------------------------------------------------------------------
(* Natural loops.                                                          *)

\* The graph of a state with correct types.
LEMMA GraphTyped ==
    ASSUME TypeOK
    PROVE  /\ succ \in [Blocks -> Seq(Blocks)] /\ predec \in [Blocks -> Seq(Blocks)]
           /\ Root \in Blocks /\ Null \notin Blocks /\ Reachable \subseteq Blocks
           /\ Root \in Reachable
  <1>1. succ \in [Blocks -> Seq(Blocks)] /\ predec \in [Blocks -> Seq(Blocks)]
    BY DEF TypeOK, Tree!TypeOK
  <1>2. Reachable \subseteq Blocks /\ Root \in Reachable
    BY <1>1, CfgAssumption, ReachTyped, ReachReflexive DEF Reachable
  <1> QED BY <1>1, <1>2, CfgAssumption

\* The reference definitions look at the graph only.
LEMMA ReferenceStays ==
    ASSUME succ' = succ
    PROVE  /\ Reachable' = Reachable /\ Headers' = Headers
           /\ \A h : Sources(h)' = Sources(h) /\ NaturalLoop(h)' = NaturalLoop(h)
           /\ \A u, v : IsBackEdge(u, v)' = IsBackEdge(u, v)
           /\ \A b : Innermost(b, Headers)' = Innermost(b, Headers) /\ ParentOf(b)' = ParentOf(b)
  <1>1. Reachable' = Reachable
    BY DEF Reachable
  <1>2. \A u, v : IsBackEdge(u, v)' = IsBackEdge(u, v)
    BY DEF IsBackEdge
  <1>3. \A h : Sources(h)' = Sources(h)
    BY <1>1, <1>2 DEF Sources
  <1>4. Headers' = Headers
    BY <1>1, <1>3 DEF Headers
  <1>5. \A h : NaturalLoop(h)' = NaturalLoop(h)
    BY <1>1, <1>3 DEF NaturalLoop
  <1>6. \A b, H : Innermost(b, H)' = Innermost(b, H)
    BY DEF Innermost, NaturalLoop, Reachable, Sources, IsBackEdge
  <1> QED BY <1>1, <1>2, <1>3, <1>4, <1>5, <1>6 DEF ParentOf

\* A source of a back edge is another block than its header, and dominated by it.
LEMMA SourceFacts ==
    ASSUME TypeOK, WellTreed, NEW h, NEW u \in Sources(h)
    PROVE  /\ u \in Reachable /\ h \in ToSet(succ[u]) /\ Dominates(succ, Root, h, u)
           /\ h \in Headers /\ h \in Reachable /\ u # h
           /\ u \in NaturalLoop(h)
  <1>1. u \in Reachable /\ h \in ToSet(succ[u]) /\ Dominates(succ, Root, h, u)
    BY DEF Sources, IsBackEdge, Occurs
  <1>2. h \in Reachable
    BY <1>1, GraphTyped, ReachEdge, ReachTransitive DEF Reachable
  <1>3. u # h
    BY <1>1 DEF WellTreed, Occurs
  <1>4. u \in ReachAvoiding(succ, u, {h})
    BY <1>1, GraphTyped, AvoidReflexive
  <1> QED BY <1>1, <1>2, <1>3, <1>4 DEF Headers, NaturalLoop

\* What leads to a source of a back edge without passing the header is dominated
\* by the header.
LEMMA LeadsDominated ==
    ASSUME TypeOK, WellTreed, NEW h, NEW u \in Sources(h), NEW x,
           u \in ReachAvoiding(succ, x, {h})
    PROVE  x \notin ReachAvoiding(succ, Root, {h})
  <1>1. u \notin ReachAvoiding(succ, Root, {h})
    BY SourceFacts DEF Dominates
  <1> QED BY <1>1, GraphTyped, AvoidTransitive

\* The header dominates its natural loop.
LEMMA LoopDominated ==
    ASSUME TypeOK, WellTreed, NEW h \in Headers, NEW b \in NaturalLoop(h)
    PROVE  /\ b \in Reachable /\ h \in Reachable /\ Dominates(succ, Root, h, b)
           /\ b # h => /\ b # Root
                       /\ \E u \in Sources(h) : u \in ReachAvoiding(succ, b, {h})
  <1>1. h \in Reachable /\ (b = h \/ b \in Reachable)
    BY DEF Headers, NaturalLoop
  <1>2. CASE b = h
    BY <1>1, <1>2 DEF Dominates
  <1>3. CASE b # h
    <2>1. PICK u \in Sources(h) : u \in ReachAvoiding(succ, b, {h})
      BY <1>3 DEF NaturalLoop
    <2>2. b \notin ReachAvoiding(succ, Root, {h})
      BY <2>1, LeadsDominated
    <2>3. b # Root
      BY <2>2, GraphTyped, AvoidReflexive
    <2> QED BY <1>1, <1>3, <2>1, <2>2, <2>3 DEF Dominates
  <1> QED BY <1>2, <1>3

\* A block that leads into a natural loop, but not to its header, is in it.
LEMMA LoopPredecessor ==
    ASSUME TypeOK, WellTreed, NEW h \in Headers, NEW v \in NaturalLoop(h), v # h,
           NEW b \in Reachable, v \in ToSet(succ[b])
    PROVE  b \in NaturalLoop(h)
  <1>1. CASE b = h
    BY <1>1 DEF NaturalLoop
  <1>2. CASE b # h
    <2>1. PICK u \in Sources(h) : u \in ReachAvoiding(succ, v, {h})
      BY LoopDominated
    <2>2. v \in ReachAvoiding(succ, b, {h})
      BY <1>2, GraphTyped, AvoidReflexive, AvoidEdge
    <2>3. u \in ReachAvoiding(succ, b, {h})
      BY <2>1, <2>2, GraphTyped, AvoidTransitive
    <2> QED BY <1>2, <2>1, <2>3 DEF NaturalLoop
  <1> QED BY <1>1, <1>2

\* A set with the header and the sources that holds all that leads to its blocks
\* but the header holds the natural loop.
LEMMA LoopWithin ==
    ASSUME TypeOK, WellTreed, NEW h \in Headers, NEW M \in SUBSET Blocks,
           h \in M, Sources(h) \subseteq M,
           \A v \in M \ {h} : \A b \in Blocks : v \in ToSet(succ[b]) => b \in M
    PROVE  NaturalLoop(h) \subseteq M
  <1> SUFFICES ASSUME NEW b \in NaturalLoop(h), b \notin M PROVE FALSE
    OBVIOUS
  <1> DEFINE S == (Blocks \ M) \cup {h}
  <1>1. PICK u \in Sources(h) : u \in ReachAvoiding(succ, b, {h})
    BY LoopDominated
  <1>2. b \in Blocks /\ S \in SUBSET DOMAIN succ /\ b \in S
    BY LoopDominated, GraphTyped
  <1>3. ClosedExcept(succ, S, {h})
    <2> SUFFICES ASSUME NEW x \in S, x # h, NEW w \in ToSet(succ[x]) PROVE w \in S
      BY DEF ClosedExcept
    <2>1. x \in Blocks \ M /\ w \in Blocks
      BY GraphTyped, ReachEdge
    <2> QED BY <2>1
  <1> HIDE DEF S
  <1>4. u \in S
    BY <1>1, <1>2, <1>3 DEF ReachAvoiding
  <1> QED BY <1>4, SourceFacts DEF S

\* Of two natural loops with a common block the one whose header is dominated by
\* the other's lies in the other one.
LEMMA LoopsNest ==
    ASSUME TypeOK, WellTreed, NEW g \in Headers, NEW h \in Headers,
           NEW b \in NaturalLoop(g), b \in NaturalLoop(h), Dominates(succ, Root, g, h)
    PROVE  NaturalLoop(h) \subseteq NaturalLoop(g)
  <1> SUFFICES ASSUME NEW c \in NaturalLoop(h), c # g, g # h PROVE c \in NaturalLoop(g)
    BY DEF NaturalLoop
  <1>1. /\ b \in Reachable /\ c \in Reachable /\ g \in Reachable /\ h \in Reachable
        /\ Dominates(succ, Root, h, b) /\ Dominates(succ, Root, h, c)
        /\ g \in Blocks /\ h \in Blocks /\ c \in Blocks
    BY LoopDominated, GraphTyped
  <1>2. StrictlyDominates(succ, Root, g, h)
    BY DEF StrictlyDominates
  <1>3. b # g
    <2> SUFFICES ASSUME b = g PROVE FALSE
      OBVIOUS
    <2>1. Dominates(succ, Root, h, g) /\ Dominates(succ, Root, g, h)
      BY <1>1
    <2>2. succ \in [Blocks -> Seq(Blocks)] /\ Root \in Blocks /\ g \in ReachFrom(succ, Root)
      BY <1>1, GraphTyped DEF Reachable
    <2> QED BY <1>1, <2>1, <2>2, DominanceOneWay
  <1>4. PICK t \in Sources(g) : t \in ReachAvoiding(succ, b, {g})
    BY <1>3, LoopDominated
  <1>5. h \in ReachAvoiding(succ, h, {g}) /\ b \in ReachAvoiding(succ, h, {g})
    BY <1>1, <1>2, GraphTyped, AvoidReflexive, AroundOuter DEF Reachable
  <1>6. t \in ReachAvoiding(succ, h, {g})
    BY <1>4, <1>5, GraphTyped, AvoidTransitive
  <1>7. h \in ReachAvoiding(succ, c, {g})
    <2>1. CASE c = h
      BY <1>5, <2>1
    <2>2. CASE c # h
      <3>1. PICK u \in Sources(h) : u \in ReachAvoiding(succ, c, {h})
        BY <2>2, LoopDominated
      <3>2. u \notin ReachAvoiding(succ, g, {h})
        <4> SUFFICES ASSUME u \in ReachAvoiding(succ, g, {h}) PROVE FALSE
          OBVIOUS
        <4>1. Dominates(succ, Root, h, g)
          BY <3>1, LeadsDominated DEF Dominates
        <4> QED BY <1>1, <4>1, GraphTyped, DominanceOneWay DEF Reachable
      <3>3. u \in ReachAvoiding(succ, c, {g})
        BY <1>1, <3>1, <3>2, GraphTyped, AroundBoth
      <3>4. u # g
        BY <1>1, <3>1, <3>2, GraphTyped, AvoidReflexive
      <3>5. h \in ToSet(succ[u])
        BY <3>1, SourceFacts
      <3> QED BY <1>1, <3>3, <3>4, <3>5, GraphTyped, AvoidEdge
    <2> QED BY <2>1, <2>2
  <1>8. t \in ReachAvoiding(succ, c, {g})
    BY <1>6, <1>7, GraphTyped, AvoidTransitive
  <1> QED BY <1>1, <1>4, <1>8 DEF NaturalLoop

\* Headers of two natural loops with a common block dominate one another.
LEMMA HeadersComparable ==
    ASSUME TypeOK, WellTreed, NEW g \in Headers, NEW h \in Headers,
           NEW b \in NaturalLoop(g), b \in NaturalLoop(h)
    PROVE  Dominates(succ, Root, g, h) \/ Dominates(succ, Root, h, g)
  BY LoopDominated, GraphTyped, DominatorsComparable DEF Reachable

\* Two headers have different natural loops.
LEMMA HeaderOnly ==
    ASSUME TypeOK, WellTreed, NEW g \in Headers, NEW h \in Headers,
           NaturalLoop(h) \subseteq NaturalLoop(g), NaturalLoop(g) \subseteq NaturalLoop(h)
    PROVE  g = h
  <1>1. g \in NaturalLoop(h) /\ h \in NaturalLoop(g)
    BY DEF NaturalLoop
  <1> QED BY <1>1, LoopDominated, GraphTyped, DominanceOneWay DEF Reachable

\* The innermost loop around b is the one whose header all others dominate.
LEMMA InnermostIs ==
    ASSUME TypeOK, WellTreed, NEW H \in SUBSET Headers, NEW h \in H, NEW b \in NaturalLoop(h),
           \A g \in H : b \in NaturalLoop(g) => Dominates(succ, Root, g, h)
    PROVE  Innermost(b, H) = h
  <1> DEFINE around == {g \in H : b \in NaturalLoop(g)}
             Inside(x) == \A g \in around : NaturalLoop(x) \subseteq NaturalLoop(g)
  <1>1. h \in around /\ Inside(h)
    BY LoopsNest
  <1>2. \A x \in around : Inside(x) => x = h
    BY <1>1, HeaderOnly
  <1>3. (CHOOSE x \in around : Inside(x)) = h
    BY <1>1, <1>2
  <1> QED BY <1>1, <1>3 DEF Innermost

\* A header is in no loop further inside than its own.
LEMMA HeaderInnermost ==
    ASSUME TypeOK, WellTreed, NEW h \in Headers
    PROVE  h \in NaturalLoop(h) /\ Innermost(h, Headers) = h
  <1>1. h \in NaturalLoop(h)
    BY DEF NaturalLoop
  <1>2. \A g \in Headers : h \in NaturalLoop(g) => Dominates(succ, Root, g, h)
    BY LoopDominated
  <1> QED BY <1>1, <1>2, InnermostIs

\* A block in none of the loops has no innermost one.
LEMMA InnermostNone ==
    ASSUME NEW b, NEW H, \A h \in H : b \notin NaturalLoop(h)
    PROVE  Innermost(b, H) = Null
  BY DEF Innermost

\* The source of a back edge is not itself a header, when it lies in no loop
\* further inside.
LEMMA SourceNoHeader ==
    ASSUME TypeOK, WellTreed, SourcesInnermost, NEW h, NEW u \in Sources(h)
    PROVE  u \notin Headers /\ Innermost(u, Headers) = h
  <1>1. h \in Headers /\ u # h
    BY SourceFacts
  <1>2. Innermost(u, Headers) = h
    BY <1>1 DEF SourcesInnermost
  <1> QED BY <1>1, <1>2, HeaderInnermost

\* CollectLoops comes to a header later than to those inside its loop: a header
\* with a common block dominates this one or is further back in the order.
LEMMA HeadersOrdered ==
    ASSUME TypeOK, WellTreed, Ordered, NEW i \in 1 .. Len(rpo), rpo[i] \in Headers,
           NEW g \in Headers, NEW b \in NaturalLoop(g), b \in NaturalLoop(rpo[i])
    PROVE  Dominates(succ, Root, g, rpo[i]) \/ \E j \in i + 1 .. Len(rpo) : rpo[j] = g
  <1> SUFFICES ASSUME ~Dominates(succ, Root, g, rpo[i])
               PROVE  \E j \in i + 1 .. Len(rpo) : rpo[j] = g
    OBVIOUS
  <1>1. StrictlyDominates(succ, Root, rpo[i], g)
    BY HeadersComparable DEF StrictlyDominates, Dominates
  <1>2. g \in Reachable /\ rpo[i] \in Reachable
    BY LoopDominated
  <1>3. Order!Before(rpo, rpo[i], g)
    BY <1>1, <1>2 DEF Ordered
  <1>4. rpo \in Seq(Blocks) /\ DOMAIN rpo = 1 .. Len(rpo) /\ Len(rpo) \in Nat
    BY DEF TypeOK
  <1>5. PICK m, j \in DOMAIN rpo : m < j /\ rpo[m] = rpo[i] /\ rpo[j] = g
    BY <1>3 DEF Order!Before
  <1>6. m = i
    BY <1>4, <1>5 DEF Ordered, NoDuplicates
  <1> QED BY <1>4, <1>5, <1>6

\* Around a block in a natural loop there is an innermost one.
LEMMA InnermostExists ==
    ASSUME TypeOK, WellTreed, Ordered, NEW H \in SUBSET Headers, NEW h \in H,
           NEW b \in NaturalLoop(h)
    PROVE  LET m == Innermost(b, H)
           IN /\ m \in H /\ b \in NaturalLoop(m)
              /\ \A g \in H : b \in NaturalLoop(g) => NaturalLoop(m) \subseteq NaturalLoop(g)
  <1> DEFINE T == {n \in Nat : \E j \in 1 .. Len(rpo) :
                       n = Len(rpo) - j /\ rpo[j] \in H /\ b \in NaturalLoop(rpo[j])}
  <1>1. rpo \in Seq(Blocks) /\ Len(rpo) \in Nat /\ Reachable = {rpo[j] : j \in 1 .. Len(rpo)}
    BY DEF TypeOK, Ordered, ToSet
  <1>2. h \in Reachable
    BY LoopDominated
  <1>3. PICK j \in 1 .. Len(rpo) : rpo[j] = h
    BY <1>1, <1>2
  <1>4. Len(rpo) - j \in T
    BY <1>1, <1>3
  <1>5. PICK n \in T : \A m \in T : n <= m
    <2>1. T \in SUBSET Nat /\ T # {}
      BY <1>4
    <2> HIDE DEF T
    <2> QED BY <2>1, LeastNat
  <1>6. PICK i \in 1 .. Len(rpo) : n = Len(rpo) - i /\ rpo[i] \in H /\ b \in NaturalLoop(rpo[i])
    BY <1>5
  <1>7. ASSUME NEW g \in H, b \in NaturalLoop(g)
        PROVE  Dominates(succ, Root, g, rpo[i])
    <2> SUFFICES ASSUME NEW e \in i + 1 .. Len(rpo), rpo[e] = g PROVE FALSE
      BY <1>6, <1>7, HeadersOrdered
    <2>1. Len(rpo) - e \in T
      BY <1>1, <1>7
    <2> HIDE DEF T
    <2>2. n <= Len(rpo) - e
      BY <1>5, <2>1
    <2> QED BY <1>1, <1>6, <2>2
  <1> HIDE DEF T
  <1>8. Innermost(b, H) = rpo[i]
    BY <1>6, <1>7, InnermostIs
  <1> QED BY <1>6, <1>7, <1>8, LoopsNest

-----------------------------------------------------------------------------
(* The search for back edges.                                              *)

\* An edge that is not a back edge is on no cycle of such edges.
LEMMA ForwardAway ==
    ASSUME TypeOK, Reducible, NEW u \in Reachable, NEW v \in ToSet(succ[u]), ~IsBackEdge(u, v)
    PROVE  \E S \in SUBSET Blocks : v \in S /\ u \notin S /\ ForwardClosed(S)
  <1> DEFINE forward == [x \in Blocks |-> {y \in ToSet(succ[x]) : ~IsBackEdge(x, y)}]
  <1>1. u \in Blocks /\ v \in forward[u]
    BY GraphTyped
  <1>2. PICK S \in SUBSET Blocks : v \in S /\ u \notin S /\ \A x \in S : forward[x] \subseteq S
    BY <1>1 DEF Reducible
  <1>3. ForwardClosed(S)
    BY <1>2 DEF ForwardClosed
  <1> QED BY <1>2, <1>3

\* The edges the DFS finds leading to a gray block are the back edges.
LEMMA GrayEdges ==
    ASSUME IInv, Orderly, NaturalInv, pc = "dfs", AtSuccessor
    PROVE  /\ Top.node \in Reachable /\ Top.node \in grays
           /\ Successor \in ToSet(succ[Top.node]) /\ Successor # Top.node
           /\ Successor \in grays <=> IsBackEdge(Top.node, Successor)
  <1> DEFINE n == Len(stack)
             u == Top.node
             v == Successor
  <1>1. /\ TypeOK /\ WellTreed /\ Reducible /\ GrayPath /\ Searched
        /\ n \in Nat \ {0} /\ DOMAIN stack = 1 .. n /\ stack[n].node = u
        /\ u \in Blocks /\ v \in Blocks /\ Top.it \in DOMAIN succ[u]
    <2>1. stack # <<>> /\ u \in Blocks /\ v \in Blocks /\ Top.it \in DOMAIN succ[u]
      BY IInvTypes, SuccessorFacts
    <2> QED BY <2>1, IInvTypes, AdvancedShape DEF NaturalInv, Orderly, Top
  <1>2. u \in grays /\ u \in Reachable
    BY <1>1 DEF GrayPath, OnStack, Searched
  <1>3. v \in ToSet(succ[u])
    BY <1>1 DEF ToSet, Successor
  <1>4. u # v
    BY <1>2, <1>3 DEF Orderly, WellTreed, Occurs
  <1> HIDE DEF u, v, n
  <1>5. ASSUME v \in grays, ~IsBackEdge(u, v) PROVE FALSE
    <2>1. PICK S \in SUBSET Blocks : v \in S /\ u \notin S /\ ForwardClosed(S)
      BY <1>1, <1>2, <1>3, <1>5, ForwardAway
    <2>2. PICK j \in DOMAIN stack : stack[j].node = v
      BY <1>1, <1>5 DEF GrayPath, OnStack
    <2>3. j <= n /\ n \in DOMAIN stack
      BY <1>1, <2>2
    <2> QED BY <1>1, <2>1, <2>2, <2>3 DEF GrayPath
  <1>6. ASSUME IsBackEdge(u, v), v \notin grays PROVE FALSE
    <2>1. u \notin ReachAvoiding(succ, Root, {v})
      BY <1>4, <1>6 DEF IsBackEdge, Dominates
    <2>2. \A j \in 1 .. n - 1 : stack[j].node # v
      BY <1>1, <1>6 DEF GrayPath, OnStack
    <2>3. n \in DOMAIN stack
      BY <1>1
    <2> QED BY <1>1, <2>1, <2>2, <2>3 DEF GrayPath
  <1> QED BY <1>2, <1>3, <1>4, <1>5, <1>6 DEF u, v

-----------------------------------------------------------------------------
(* What the edits of loops leave alone.                                    *)

\* Two loops with the same header and flag, and in the same place of the tree.
SameLoop(o, o2) ==
    /\ o2.header = o.header /\ o2.reducible = o.reducible
    /\ o2.succ = o.succ /\ o2.predec = o.predec

\* insertLoopBB changes bbs only.
LEMMA InsertedFields ==
    ASSUME NEW n, NEW ls \in Seq(Objects(n)), NEW id \in 1 .. Len(ls), NEW bb
    PROVE  LET ls2 == InsertedLoopBB(ls, id, bb)
           IN /\ DOMAIN ls2 = 1 .. Len(ls)
              /\ \A i \in 1 .. Len(ls) : SameLoop(ls[i], ls2[i]) /\ ls2[i].back = ls[i].back
  <1>1. \A i \in 1 .. Len(ls) : ls[i] \in Objects(n)
    BY ElementOfSeq
  <1>2. DOMAIN ls = 1 .. Len(ls)
    OBVIOUS
  <1> QED BY <1>1, <1>2 DEF InsertedLoopBB, SameLoop, Objects

\* insertBackEdge changes back and bbs.
LEMMA InsertedBackFields ==
    ASSUME NEW n, NEW ls \in Seq(Objects(n)), NEW id \in 1 .. Len(ls), NEW bb \in Blocks
    PROVE  LET ls2 == InsertedBackEdge(ls, id, bb)
           IN /\ DOMAIN ls2 = 1 .. Len(ls)
              /\ \A i \in 1 .. Len(ls) :
                    /\ SameLoop(ls[i], ls2[i])
                    /\ ls2[i].back = IF i = id THEN ls[i].back \cup {bb} ELSE ls[i].back
  <1> DEFINE obj == [ls[id] EXCEPT !.back = @ \cup {bb}]
             ls1 == [ls EXCEPT ![id] = obj]
  <1>1. \A i \in 1 .. Len(ls) : ls[i] \in Objects(n)
    BY ElementOfSeq
  <1>2. obj \in Objects(n) /\ SameLoop(ls[id], obj) /\ obj.back = ls[id].back \cup {bb}
    BY <1>1 DEF Objects, SameLoop
  <1> HIDE DEF obj
  <1>3. /\ ls1 \in Seq(Objects(n)) /\ Len(ls1) = Len(ls)
        /\ \A i \in 1 .. Len(ls) : ls1[i] = IF i = id THEN obj ELSE ls[i]
    BY <1>2, ExceptSeq
  <1>4. InsertedBackEdge(ls, id, bb) = InsertedLoopBB(ls1, id, bb)
    BY DEF InsertedBackEdge, obj
  <1> HIDE DEF ls1
  <1>5. LET ls2 == InsertedLoopBB(ls1, id, bb)
        IN /\ DOMAIN ls2 = 1 .. Len(ls1)
           /\ \A i \in 1 .. Len(ls1) : SameLoop(ls1[i], ls2[i]) /\ ls2[i].back = ls1[i].back
    BY <1>3, InsertedFields
  <1> QED BY <1>2, <1>3, <1>4, <1>5 DEF SameLoop

\* AddSuccWithPredec between two loops adds the edge at both ends.
LEMMA NestedFields ==
    ASSUME NEW n, NEW ls \in Seq(Objects(n)),
           NEW parent \in 1 .. Len(ls), NEW child \in 1 .. Len(ls), parent # child
    PROVE  LET ls2 == Nested(ls, parent, child)
           IN /\ DOMAIN ls2 = 1 .. Len(ls)
              /\ \A i \in 1 .. Len(ls) :
                    /\ ls2[i].header = ls[i].header /\ ls2[i].reducible = ls[i].reducible
                    /\ ls2[i].back = ls[i].back
                    /\ ls2[i].succ = IF i = parent THEN Append(ls[i].succ, child) ELSE ls[i].succ
                    /\ ls2[i].predec = IF i = child THEN Append(ls[i].predec, parent)
                                                    ELSE ls[i].predec
  <1>1. \A i \in 1 .. Len(ls) : ls[i] \in Objects(n)
    BY ElementOfSeq
  <1>2. DOMAIN ls = 1 .. Len(ls)
    OBVIOUS
  <1> DEFINE obj == [ls[parent] EXCEPT !.succ = Append(@, child)]
             obj2 == [ls[child] EXCEPT !.predec = Append(@, parent)]
  <1>3. /\ obj.header = ls[parent].header /\ obj.reducible = ls[parent].reducible
        /\ obj.back = ls[parent].back /\ obj.predec = ls[parent].predec
        /\ obj.succ = Append(ls[parent].succ, child)
    BY <1>1 DEF Objects
  <1>4. /\ obj2.header = ls[child].header /\ obj2.reducible = ls[child].reducible
        /\ obj2.back = ls[child].back /\ obj2.succ = ls[child].succ
        /\ obj2.predec = Append(ls[child].predec, parent)
    BY <1>1 DEF Objects
  <1>5. LET ls2 == Nested(ls, parent, child)
        IN /\ DOMAIN ls2 = 1 .. Len(ls)
           /\ \A i \in 1 .. Len(ls) :
                 ls2[i] = IF i = parent THEN obj ELSE IF i = child THEN obj2 ELSE ls[i]
    BY <1>2 DEF Nested
  <1> HIDE DEF obj, obj2
  <1> QED BY <1>3, <1>4, <1>5

\* Loops, pointers to them and what they hold.
LEMMA LoopTypes ==
    ASSUME TypeOK, PointersRight
    PROVE  /\ Len(loops) \in Nat /\ Loops = 1 .. Len(loops) /\ Null \notin Loops
           /\ DOMAIN loop = Blocks
           /\ loops \in Seq(Objects(Len(loops)))
           /\ \A b \in Blocks : loop[b] # Null => loop[b] \in Loops
           /\ \A i \in Loops : /\ loops[i].header \in MaybeBlock /\ loops[i].back \subseteq Blocks
                               /\ loops[i].succ \in Seq(Loops) /\ loops[i].predec \in Seq(Loops)
  <1>1. /\ Len(loops) \in Nat /\ Loops = 1 .. Len(loops) /\ loops \in Seq(Objects(Len(loops)))
        /\ \A b \in Blocks : loop[b] # Null => loop[b] \in 1 .. Len(loops)
    BY LoopsShape DEF Fit
  <1>2. \A i \in 1 .. Len(loops) : loops[i] \in Objects(Len(loops))
    BY <1>1, ElementOfSeq
  <1>3. Null \notin Loops
    BY <1>1, CfgAssumption
  <1> QED BY <1>1, <1>2, <1>3 DEF Objects, TypeOK

\* ProcessBackEdge: the loop of the header, which may be a new one, gets the
\* back edge, and its source a pointer to it.
LEMMA BackEdgeEffect ==
    ASSUME TypeOK, PointersRight, NEW h \in Blocks, NEW u \in Blocks, ProcessBackEdge(h, u)
    PROVE  LET id == IF loop[h] = Null THEN Len(loops) + 1 ELSE loop[h]
           IN /\ Loops' = Loops \cup {id} /\ id # Null /\ (id \in Loops <=> loop[h] # Null)
              /\ \A b \in Blocks : loop'[b] = IF b = h \/ b = u THEN id ELSE loop[b]
              /\ \A i \in Loops :
                    /\ SameLoop(loops[i], loops'[i])
                    /\ loops'[i].back = IF i = id THEN loops[i].back \cup {u} ELSE loops[i].back
              /\ loop[h] = Null => /\ SameLoop(NewLoop(h, Tree!IsDominated(h, u)), loops'[id])
                                   /\ loops'[id].back = {u}
  <1> DEFINE n == Len(loops)
  <1>1. /\ n \in Nat /\ Loops = 1 .. n /\ loops \in Seq(Objects(n)) /\ DOMAIN loop = Blocks
        /\ \A b \in Blocks : loop[b] # Null => loop[b] \in Loops
        /\ \A i \in Nat : i # Null
    BY LoopTypes, CfgAssumption
  <1>2. CASE loop[h] = Null
    <2> DEFINE new == NewLoop(h, Tree!IsDominated(h, u))
               ls == Append(loops, new)
    <2>1. Tree!IsDominated(h, u) \in BOOLEAN
      BY DEF Tree!IsDominated
    <2>2. ls \in Seq(Objects(n + 1)) /\ Len(ls) = n + 1
      BY <1>1, <2>1, NewLoopFacts DEF MaybeBlock
    <2>3. ls[n + 1] = new /\ \A i \in 1 .. n : ls[i] = loops[i]
      BY <1>1
    <2>4. new.back = {}
      BY DEF NewLoop
    <2>5. /\ loops' = InsertedBackEdge(ls, n + 1, u)
          /\ loop' = [loop EXCEPT ![h] = n + 1, ![u] = n + 1]
      BY <1>2 DEF ProcessBackEdge
    <2> HIDE DEF ls, new
    <2>6. n + 1 \in 1 .. Len(ls)
      BY <1>1, <2>2
    <2>7. /\ DOMAIN loops' = 1 .. n + 1
          /\ \A i \in 1 .. n + 1 :
                /\ SameLoop(ls[i], loops'[i])
                /\ loops'[i].back = IF i = n + 1 THEN ls[i].back \cup {u} ELSE ls[i].back
      <3>1. LET ls2 == InsertedBackEdge(ls, n + 1, u)
            IN /\ DOMAIN ls2 = 1 .. Len(ls)
               /\ \A i \in 1 .. Len(ls) :
                     /\ SameLoop(ls[i], ls2[i])
                     /\ ls2[i].back = IF i = n + 1 THEN ls[i].back \cup {u} ELSE ls[i].back
        BY <2>2, <2>6, InsertedBackFields
      <3> QED BY <2>2, <2>5, <3>1
    <2>8. 1 .. n + 1 = 1 .. n \cup {n + 1} /\ n + 1 \notin 1 .. n /\ n + 1 # Null
      BY <1>1
    <2>9. \A b \in Blocks : loop'[b] = IF b = h \/ b = u THEN n + 1 ELSE loop[b]
      BY <1>1, <2>5
    <2> HIDE DEF n
    <2>10. Loops' = Loops \cup {n + 1}
      BY <1>1, <2>7, <2>8 DEF Loops
    <2>11. loops'[n + 1].back = {u} /\ SameLoop(new, loops'[n + 1])
      BY <2>3, <2>4, <2>7, <2>8
    <2> QED BY <1>1, <1>2, <2>3, <2>7, <2>8, <2>9, <2>10, <2>11 DEF n, new
  <1>3. CASE loop[h] # Null
    <2> DEFINE id == loop[h]
    <2>1. id \in 1 .. n
      BY <1>1, <1>3
    <2>2. loops' = InsertedBackEdge(loops, id, u) /\ loop' = [loop EXCEPT ![u] = id]
      BY <1>3 DEF ProcessBackEdge
    <2>3. \A b \in Blocks : loop'[b] = IF b = h \/ b = u THEN id ELSE loop[b]
      BY <1>1, <2>2
    <2> HIDE DEF id
    <2>4. /\ DOMAIN loops' = 1 .. n
          /\ \A i \in 1 .. n :
                /\ SameLoop(loops[i], loops'[i])
                /\ loops'[i].back = IF i = id THEN loops[i].back \cup {u} ELSE loops[i].back
      <3>1. LET ls2 == InsertedBackEdge(loops, id, u)
            IN /\ DOMAIN ls2 = 1 .. Len(loops)
               /\ \A i \in 1 .. Len(loops) :
                     /\ SameLoop(loops[i], ls2[i])
                     /\ ls2[i].back = IF i = id THEN loops[i].back \cup {u} ELSE loops[i].back
        BY <1>1, <2>1, InsertedBackFields
      <3> QED BY <2>2, <3>1
    <2> HIDE DEF n
    <2> QED BY <1>1, <1>3, <2>1, <2>3, <2>4 DEF Loops, id
  <1> QED BY <1>2, <1>3

\* What a step of any pass does to the loops found so far.
Grown ==
    /\ \A i \in Loops :
          /\ i \in Loops'
          /\ loops'[i].header = loops[i].header /\ loops'[i].reducible = loops[i].reducible
          /\ loops[i].back \subseteq loops'[i].back
          /\ loops[i].predec # <<>> => loops'[i].predec # <<>>
    /\ \A b \in Blocks : loop[b] # Null => loop'[b] # Null
    /\ \A h \in Headers : loop[h] # Null => loop'[h] = loop[h]

\* A step that writes neither loops nor pointers.
LEMMA UntouchedGrown == ASSUME UNCHANGED loopVars PROVE Grown
  BY DEF Grown, loopVars, Loops

\* What is recorded stays recorded, and what is in its loop stays there.
LEMMA GrownKeeps ==
    ASSUME TypeOK, PointersRight, WellTreed, succ' = succ, Grown
    PROVE  /\ \A h \in Headers : \A u : Recorded(u, h) => Recorded(u, h)'
           /\ AllRecorded => AllRecorded'
           /\ \A b \in Blocks : \A h : InLoop(h, b) => InLoop(h, b)'
           /\ \A h \in Headers : Complete(h) => Complete(h)'
  <1>1. /\ Headers' = Headers /\ (\A h : Sources(h)' = Sources(h))
        /\ \A h : NaturalLoop(h)' = NaturalLoop(h)
    BY ReferenceStays
  <1>2. Headers \subseteq Blocks /\ \A h \in Headers : NaturalLoop(h) \subseteq Blocks
    BY GraphTyped, LoopDominated DEF Headers
  <1>3. \A b \in Blocks : loop[b] # Null => loop[b] \in Loops
    BY LoopTypes
  <1>4. ASSUME NEW h \in Headers, NEW u, Recorded(u, h) PROVE Recorded(u, h)'
    BY <1>2, <1>3, <1>4 DEF Grown, Recorded
  <1>5. AllRecorded => AllRecorded'
    BY <1>1, <1>4 DEF AllRecorded
  <1>6. ASSUME NEW b \in Blocks, NEW h, InLoop(h, b) PROVE InLoop(h, b)'
    BY <1>1, <1>3, <1>6 DEF Grown, InLoop
  <1>7. ASSUME NEW h \in Headers, Complete(h) PROVE Complete(h)'
    BY <1>1, <1>2, <1>6, <1>7 DEF Complete
  <1> QED BY <1>4, <1>5, <1>6, <1>7

\* Pointers still lead to the innermost loop, and loops are still one per header.
LEMMA StillNatural ==
    ASSUME TypeOK, PointersRight, succ' = succ, Grown, Located, OnePerHeader,
           \A i \in Loops' \ Loops : loops'[i].header # Null =>
               /\ loops'[i].header \in Headers /\ loop'[loops'[i].header] = i
               /\ loops'[i].reducible /\ loops'[i].back \subseteq Sources(loops'[i].header),
           \A i \in Loops : loops[i].header # Null =>
               loops'[i].back \subseteq Sources(loops[i].header),
           \A b \in Blocks : loop'[b] # Null =>
               \/ loop'[b] = loop[b]
               \/ b \in Reachable /\ loops'[loop'[b]].header = Innermost(b, Headers)
    PROVE  Located' /\ OnePerHeader'
  <1>1. /\ Headers' = Headers /\ (\A h : Sources(h)' = Sources(h)) /\ Reachable' = Reachable
        /\ \A b : Innermost(b, Headers)' = Innermost(b, Headers)
    BY ReferenceStays
  <1>2. \A b \in Blocks : loop[b] # Null => loop[b] \in Loops
    BY LoopTypes
  <1>3. Null \notin Loops
    BY LoopTypes
  <1>4. ASSUME NEW b \in Blocks, loop'[b] # Null
        PROVE  b \in Reachable /\ loops'[loop'[b]].header = Innermost(b, Headers)
    BY <1>2, <1>4 DEF Grown, Located, HeaderOf
  <1>5. ASSUME NEW i \in Loops', loops'[i].header # Null
        PROVE  /\ loops'[i].header \in Headers /\ loop'[loops'[i].header] = i
               /\ loops'[i].reducible /\ loops'[i].back \subseteq Sources(loops'[i].header)
    <2>1. CASE i \in Loops
      <3>1. /\ loops[i].header \in Headers /\ loop[loops[i].header] = i /\ loops[i].reducible
            /\ loops'[i].header = loops[i].header /\ loops'[i].reducible = loops[i].reducible
        BY <1>5, <2>1 DEF Grown, OnePerHeader
      <3>2. loop'[loops[i].header] = i
        BY <1>3, <2>1, <3>1 DEF Grown
      <3> QED BY <1>5, <2>1, <3>1, <3>2
    <2> QED BY <1>5, <2>1
  <1>6. Located'
    BY <1>1, <1>4 DEF Located, HeaderOf
  <1>7. OnePerHeader'
    BY <1>1, <1>5 DEF OnePerHeader
  <1> QED BY <1>6, <1>7

-----------------------------------------------------------------------------
(* The steps of the search.                                                *)

\* What the search adds to the invariant.
Search ==
    /\ Located /\ OnePerHeader /\ GrayPath /\ Searched /\ tree_pc = "done"
    /\ runs <= 1 => Unnested

\* It is all of the invariant in that phase.
LEMMA SearchInvariant ==
    /\ pc = "dfs" /\ NaturalInv => Search
    /\ (pc = "dfs" /\ Search /\ GraphGiven /\ runs > 0 => NaturalInv)'
  BY DEF Search, NaturalInv, NestingInv

\* The search begins at the root.
LEMMA BeginNatural ==
    ASSUME IInv, Orderly, NaturalInv, succ' = succ, BeginDFS PROVE Search'
  <1>1. /\ TypeOK /\ PointersRight /\ WellTreed /\ Root \in Blocks
        /\ succ \in [Blocks -> Seq(Blocks)] /\ Root \in Reachable
        /\ pc = "domtree" /\ tree_pc = "done" /\ Located /\ OnePerHeader /\ (runs <= 1 => Unnested)
    BY IInvTypes, GraphTyped DEF Orderly, BeginDFS, NaturalInv, NestingInv
  <1>2. /\ grays' = {Root} /\ marked' = {Root} /\ stack' = <<Enter(Root)>>
        /\ UNCHANGED <<treeVars, loopVars>>
    BY DEF BeginDFS
  <1>3. DOMAIN stack' = {1} /\ stack'[1].node = Root /\ stack'[1].it = 1
    BY <1>1, <1>2, StartShape
  <1>4. Located' /\ OnePerHeader' /\ (runs' <= 1 => Unnested') /\ tree_pc' = "done"
    <2>1. Located' /\ OnePerHeader'
      <3>1. Loops' = Loops /\ loops' = loops /\ loop' = loop
        BY <1>2 DEF loopVars, Loops
      <3> QED BY <1>1, <1>2, <3>1, UntouchedGrown, StillNatural DEF OnePerHeader
    <2> QED BY <1>1, <1>2, <2>1 DEF treeVars, loopVars, Unnested, Loops
  <1>5. GrayPath'
    <2>1. \A d : Root \in ReachAvoiding(succ, Root, {d})
      BY <1>1, AvoidReflexive
    <2> QED BY <1>2, <1>3, <2>1 DEF GrayPath, OnStack
  <1>6. Searched'
    <2>1. Reachable' = Reachable
      BY ReferenceStays
    <2>2. \A m \in DOMAIN succ[Root] : ~(m < 1)
      BY <1>1
    <2> QED BY <1>1, <1>2, <1>3, <2>1, <2>2 DEF Searched
  <1> QED BY <1>4, <1>5, <1>6 DEF Search

\* What is known during the search.
LEMMA SearchFacts ==
    ASSUME IInv, Orderly, NaturalInv, pc = "dfs"
    PROVE  /\ TypeOK /\ PointersRight /\ IteratorsValid
           /\ WellTreed /\ Reducible /\ SourcesInnermost /\ Search
           /\ \A b \in Blocks : succ[b] \in Seq(Blocks)
           /\ \A j \in DOMAIN stack :
                 /\ stack[j].node \in Blocks /\ stack[j].node \in grays
                 /\ stack[j].node \in Reachable /\ stack[j].it \in Nat
  <1>1. /\ TypeOK /\ PointersRight /\ IteratorsValid /\ WellTreed /\ Reducible /\ SourcesInnermost
        /\ Search /\ stack \in Seq([node : Blocks, it : Nat])
    BY IInvTypes, SearchInvariant DEF Orderly, TypeOK
  <1>2. \A b \in Blocks : succ[b] \in Seq(Blocks)
    BY <1>1, GraphTyped
  <1>3. \A j \in DOMAIN stack : stack[j] \in [node : Blocks, it : Nat]
    <2>1. DOMAIN stack = 1 .. Len(stack)
      BY <1>1
    <2> QED BY <1>1, <2>1, ElementOfSeq
  <1>4. \A j \in DOMAIN stack : stack[j].node \in grays
    BY <1>1, <1>3 DEF Search, GrayPath, OnStack
  <1>5. grays \subseteq Reachable
    BY <1>1 DEF Search, Searched
  <1> QED BY <1>1, <1>2, <1>3, <1>4, <1>5

\* A step that writes neither loops nor pointers nor the tree.
LEMMA UntouchedNatural ==
    ASSUME TypeOK, PointersRight, succ' = succ, UNCHANGED loopVars, Located, OnePerHeader
    PROVE  /\ Located' /\ OnePerHeader' /\ (Unnested => Unnested')
           /\ Hanging /\ tree_root' = tree_root => Hanging'
  <1>1. Loops' = Loops /\ loops' = loops /\ loop' = loop
    BY DEF loopVars, Loops
  <1>2. Located' /\ OnePerHeader'
    BY <1>1, UntouchedGrown, StillNatural DEF OnePerHeader
  <1>3. Unnested => Unnested'
    BY <1>1 DEF Unnested
  <1>4. Hanging /\ tree_root' = tree_root => Hanging'
    <2>1. Headers' = Headers /\ \A h : ParentOf(h)' = ParentOf(h)
      BY ReferenceStays
    <2> QED BY <1>1, <2>1 DEF Hanging, ParentLoop, MirroredEdges, Occurs, ToSet
  <1> QED BY <1>2, <1>3, <1>4

\* An edge that is dealt with stays so.
LEMMA HandledStays ==
    ASSUME TypeOK, PointersRight, WellTreed, succ' = succ, Grown, marked \subseteq marked',
           NEW u \in Reachable, NEW v, Handled(u, v)
    PROVE  Handled(u, v)'
  <1>1. IsBackEdge(u, v)' <=> IsBackEdge(u, v)
    BY ReferenceStays
  <1>2. ASSUME IsBackEdge(u, v) PROVE Recorded(u, v)'
    <2>1. v \in Headers
      BY <1>2, SourceFacts DEF Sources
    <2>2. Recorded(u, v)
      BY <1>2 DEF Handled
    <2> QED BY <2>1, <2>2, GrownKeeps
  <1> QED BY <1>1, <1>2 DEF Handled

\* The search goes on to the next successor of a block, having dealt with one.
LEMMA AdvanceSearched ==
    ASSUME IInv, Orderly, NaturalInv, pc = "dfs", succ' = succ, Grown, AtSuccessor,
           stack' = Advanced, UNCHANGED <<marked, grays>>,
           NEW u, NEW v, u = Top.node, v = Successor, Handled(u, v)'
    PROVE  GrayPath' /\ Searched'
  <1> DEFINE n == Len(stack)
  <1>1. /\ TypeOK /\ PointersRight /\ WellTreed /\ GrayPath /\ Searched /\ stack # <<>>
        /\ \A b \in Blocks : succ[b] \in Seq(Blocks)
        /\ \A j \in DOMAIN stack : /\ stack[j].node \in Blocks /\ stack[j].node \in Reachable
                                   /\ stack[j].it \in Nat
    BY SearchFacts DEF Search, AtSuccessor
  <1>2. /\ n \in Nat \ {0} /\ DOMAIN stack = 1 .. n /\ DOMAIN stack' = 1 .. n
        /\ \A j \in 1 .. n :
              /\ stack'[j].node = stack[j].node
              /\ j # n => stack'[j].it = stack[j].it
              /\ j = n => stack'[j].it = stack[j].it + 1
    BY <1>1, IInvTypes, AdvancedShape
  <1>3. Reachable' = Reachable /\ (\A S : ForwardClosed(S)' <=> ForwardClosed(S))
    BY ReferenceStays DEF ForwardClosed
  <1>4. GrayPath'
    <2>1. \A b : OnStack(b)' <=> OnStack(b)
      BY <1>2 DEF OnStack
    <2> HIDE DEF n
    <2>2. \A i \in 1 .. n : 1 .. i - 1 \subseteq 1 .. n
      BY <1>2
    <2> QED BY <1>1, <1>2, <1>3, <2>1, <2>2 DEF GrayPath
  <1>5. \A b \in Reachable : \A w : Handled(b, w) => Handled(b, w)'
    BY <1>1, HandledStays
  <1>6. ASSUME NEW j \in 1 .. n, NEW b, b = stack[j].node,
               NEW m \in DOMAIN succ[b], m < stack'[j].it, NEW w, w = succ[b][m]
        PROVE  Handled(b, w)'
    <2>1. b \in Blocks /\ b \in Reachable /\ m \in Nat /\ stack[j].it \in Nat
      <3>1. b \in Blocks /\ b \in Reachable /\ stack[j].it \in Nat
        BY <1>1, <1>2, <1>6
      <3>2. succ[b] \in Seq(Blocks)
        BY <1>1, <3>1
      <3> QED BY <3>1, <3>2
    <2>2. CASE m < stack[j].it
      BY <1>1, <1>2, <1>5, <1>6, <2>1, <2>2 DEF Searched
    <2>3. CASE ~(m < stack[j].it)
      <3>1. j = n /\ m = stack[j].it
        <4>1. n \in Nat
          BY <1>2
        <4> HIDE DEF n
        <4> QED BY <1>2, <1>6, <2>1, <2>3, <4>1
      <3>2. b = u /\ w = v
        BY <1>6, <3>1 DEF Successor, Top
      <3> QED BY <3>2
    <2> QED BY <2>2, <2>3
  <1>7. \A b \in marked \ grays : \A w \in ToSet(succ[b]) : Handled(b, w)'
    BY <1>1, <1>5 DEF Searched
  <1>8. Searched'
    BY <1>1, <1>2, <1>3, <1>6, <1>7 DEF Searched
  <1> QED BY <1>4, <1>8

\* A successor already left.
LEMMA BlackNatural ==
    ASSUME IInv, Orderly, NaturalInv, succ' = succ, MeetBlack PROVE Search'
  <1>1. /\ pc = "dfs" /\ AtSuccessor /\ Successor \in marked \ grays /\ stack' = Advanced
        /\ UNCHANGED <<treeVars, loopVars, marked, grays>>
    BY DEF MeetBlack
  <1>2. /\ Search /\ TypeOK /\ PointersRight /\ Grown
    BY <1>1, SearchFacts, UntouchedGrown
  <1>3. ~IsBackEdge(Top.node, Successor)
    BY <1>1, GrayEdges
  <1>4. PICK u, v : u = Top.node /\ v = Successor
    OBVIOUS
  <1>5. Handled(u, v)'
    <2>1. \A x, y : IsBackEdge(x, y)' <=> IsBackEdge(x, y)
      BY ReferenceStays
    <2> QED BY <1>1, <1>3, <1>4, <2>1 DEF Handled
  <1>6. GrayPath' /\ Searched'
    BY <1>1, <1>2, <1>4, <1>5, AdvanceSearched
  <1>7. Located' /\ OnePerHeader' /\ (runs' <= 1 => Unnested') /\ tree_pc' = "done"
    BY <1>1, <1>2, UntouchedNatural DEF Search, treeVars
  <1> QED BY <1>6, <1>7 DEF Search

\* A successor not met yet goes on the stack.
LEMMA NewNatural ==
    ASSUME IInv, Orderly, NaturalInv, succ' = succ, MeetNew PROVE Search'
  <1> DEFINE n == Len(stack)
  <1>1. PICK u, v : u = Top.node /\ v = Successor
    OBVIOUS
  <1>2. /\ pc = "dfs" /\ AtSuccessor /\ v \notin marked /\ stack' = Append(Advanced, Enter(v))
        /\ grays' = grays \cup {v} /\ marked' = marked \cup {v} /\ UNCHANGED <<treeVars, loopVars>>
    BY <1>1 DEF MeetNew
  <1>3. /\ TypeOK /\ PointersRight /\ IteratorsValid /\ WellTreed /\ Search
        /\ GrayPath /\ Searched /\ Grown
        /\ \A b \in Blocks : succ[b] \in Seq(Blocks)
        /\ \A j \in DOMAIN stack : /\ stack[j].node \in Blocks /\ stack[j].node \in grays
                                   /\ stack[j].node \in Reachable /\ stack[j].it \in Nat
    BY <1>2, SearchFacts, UntouchedGrown DEF Search
  <1>4. /\ stack # <<>> /\ v \in Blocks /\ u \in Reachable /\ u \in Blocks /\ v \in ToSet(succ[u])
        /\ ~IsBackEdge(u, v) /\ v \notin grays /\ u \in grays /\ u # v
    BY <1>1, <1>2, <1>3, GrayEdges, SuccessorFacts DEF Searched
  <1>5. /\ n \in Nat \ {0} /\ DOMAIN stack = 1 .. n /\ DOMAIN stack' = 1 .. n + 1
        /\ \A j \in 1 .. n :
              /\ stack'[j].node = stack[j].node
              /\ j # n => stack'[j].it = stack[j].it
              /\ j = n => stack'[j].it = stack[j].it + 1
        /\ stack'[n + 1].node = v /\ stack'[n + 1].it = 1
        /\ stack[n].node = u /\ succ[u][stack[n].it] = v
    <2>1. /\ n \in Nat \ {0} /\ DOMAIN stack = 1 .. n /\ \A j \in 1 .. n :
              /\ Advanced[j].node = stack[j].node
              /\ j # n => Advanced[j].it = stack[j].it
              /\ j = n => Advanced[j].it = stack[j].it + 1
      BY <1>3, <1>4, AdvancedShape
    <2>2. LET s == Append(Advanced, Enter(v))
          IN /\ DOMAIN s = 1 .. n + 1 /\ \A j \in 1 .. n : s[j] = Advanced[j]
             /\ s[n + 1].node = v /\ s[n + 1].it = 1
      BY <1>3, <1>4, CallShape
    <2> QED BY <1>1, <1>2, <2>1, <2>2 DEF Top, Successor
  <1> HIDE DEF n
  <1>6. /\ \A j \in 1 .. n + 1 : j \in 1 .. n \/ j = n + 1
        /\ 1 .. n \subseteq 1 .. n + 1 /\ n + 1 \in 1 .. n + 1 /\ n \in 1 .. n
        /\ n + 1 \notin 1 .. n /\ 1 .. (n + 1) - 1 = 1 .. n
        /\ \A i \in 1 .. n : ~(n + 1 <= i) /\ i <= n /\ 1 .. i - 1 \subseteq 1 .. n
        /\ \A i \in 1 .. n : i # n => i \in 1 .. n - 1
        /\ 1 .. n - 1 \subseteq 1 .. n
    BY <1>5
  <1>7. Reachable' = Reachable /\ (\A S : ForwardClosed(S)' <=> ForwardClosed(S))
        /\ \A x, y : IsBackEdge(x, y)' <=> IsBackEdge(x, y)
    BY ReferenceStays DEF ForwardClosed
  <1>8. v \in Reachable
    BY <1>4, GraphTyped, ReachEdge, ReachTransitive, <1>3 DEF Reachable
  <1>9. GrayPath'
    <2>1. \A j \in 1 .. n : stack[j].node # v
      BY <1>3, <1>4, <1>5
    <2>2. \A b : OnStack(b)' <=> OnStack(b) \/ b = v
      BY <1>5, <1>6 DEF OnStack
    <2>3. \A b \in Blocks : b \in grays' <=> OnStack(b)'
      BY <1>2, <1>3, <2>2 DEF GrayPath
    <2>4. \A i, j \in 1 .. n + 1 : stack'[i].node = stack'[j].node => i = j
      <3>1. \A i, j \in 1 .. n : stack[i].node = stack[j].node => i = j
        BY <1>3, <1>5 DEF GrayPath
      <3>2. \A i, j \in 1 .. n : stack'[i].node = stack'[j].node => i = j
        BY <1>5, <3>1
      <3>3. stack'[n + 1].node = v /\ \A j \in 1 .. n : stack'[j].node # v
        BY <1>5, <2>1
      <3> QED BY <1>6, <3>2, <3>3
    <2>5. ASSUME NEW i \in 1 .. n + 1, NEW j \in 1 .. n + 1, NEW S \in SUBSET Blocks,
                 i <= j, ForwardClosed(S), stack'[i].node \in S
          PROVE  stack'[j].node \in S
      <3>0. ASSUME NEW a \in 1 .. n, NEW b \in 1 .. n, a <= b, stack[a].node \in S
            PROVE  stack[b].node \in S
        BY <1>3, <1>5, <2>5, <3>0 DEF GrayPath
      <3>1. CASE j \in 1 .. n
        <4>1. i \in 1 .. n
          BY <1>6, <2>5, <3>1
        <4>2. stack'[i].node = stack[i].node /\ stack'[j].node = stack[j].node
          BY <1>5, <3>1, <4>1
        <4> QED BY <2>5, <3>0, <3>1, <4>1, <4>2
      <3>2. CASE j = n + 1 /\ i \in 1 .. n
        <4>1. u \in S
          <5>1. stack[i].node \in S /\ n \in 1 .. n /\ i <= n /\ stack[n].node = u
            BY <1>5, <1>6, <2>5, <3>2
          <5> QED BY <3>0, <3>2, <5>1
        <4>2. v \in S
          BY <1>4, <2>5, <4>1 DEF ForwardClosed
        <4> QED BY <1>5, <3>2, <4>2
      <3>3. CASE j = n + 1 /\ i = n + 1
        BY <2>5, <3>3
      <3> QED BY <1>6, <3>1, <3>2, <3>3
    <2>6. ASSUME NEW i \in 1 .. n + 1, NEW d \in Blocks,
                 \A j \in 1 .. i - 1 : stack'[j].node # d
          PROVE  stack'[i].node \in ReachAvoiding(succ, Root, {d})
      <3>1. CASE i \in 1 .. n
        <4>1. \A j \in 1 .. i - 1 : stack[j].node # d
          BY <1>5, <1>6, <2>6, <3>1
        <4>2. i \in DOMAIN stack /\ stack'[i].node = stack[i].node
          BY <1>5, <3>1
        <4> QED BY <1>3, <4>1, <4>2 DEF GrayPath
      <3>2. CASE i = n + 1
        <4>1. \A j \in 1 .. n : stack[j].node # d
          BY <1>5, <1>6, <2>6, <3>2
        <4>2. u \in ReachAvoiding(succ, Root, {d}) /\ u # d
          BY <1>3, <1>5, <1>6, <4>1 DEF GrayPath
        <4>3. v \in ReachAvoiding(succ, Root, {d})
          BY <1>3, <1>4, <4>2, GraphTyped, AvoidEdge
        <4> QED BY <1>5, <3>2, <4>3
      <3> QED BY <1>6, <3>1, <3>2
    <2> QED BY <1>5, <1>7, <2>3, <2>4, <2>5, <2>6 DEF GrayPath
  <1>10. \A b \in Reachable : \A w : Handled(b, w) => Handled(b, w)'
    BY <1>2, <1>3, HandledStays
  <1>11. Handled(u, v)'
    BY <1>2, <1>4, <1>7 DEF Handled
  <1>12. ASSUME NEW j \in 1 .. n + 1, NEW b, b = stack'[j].node,
                NEW m \in DOMAIN succ[b], m < stack'[j].it, NEW w, w = succ[b][m]
         PROVE  Handled(b, w)'
    <2>1. b \in Blocks /\ m \in Nat \ {0}
      <3>1. b \in Blocks
        BY <1>3, <1>4, <1>5, <1>6, <1>12
      <3>2. succ[b] \in Seq(Blocks)
        BY <1>3, <3>1
      <3> QED BY <3>1, <3>2
    <2>2. CASE j = n + 1
      BY <1>5, <1>12, <2>1, <2>2
    <2>3. CASE j \in 1 .. n /\ m < stack[j].it
      BY <1>3, <1>5, <1>10, <1>12, <2>1, <2>3 DEF Searched
    <2>4. CASE j \in 1 .. n /\ ~(m < stack[j].it)
      <3>1. stack[j].it \in Nat /\ m < stack'[j].it
        BY <1>3, <1>5, <1>12, <2>4
      <3>2. j = n /\ m = stack[j].it
        BY <1>5, <2>1, <2>4, <3>1
      <3>3. b = u /\ w = v
        BY <1>5, <1>6, <1>12, <3>2
      <3> QED BY <1>11, <3>3
    <2> QED BY <1>6, <2>2, <2>3, <2>4
  <1>13. ASSUME NEW b \in marked' \ grays', NEW w \in ToSet(succ[b]) PROVE Handled(b, w)'
    BY <1>2, <1>3, <1>10, <1>13 DEF Searched
  <1>14. Searched'
    <2>1. Root \in marked' /\ grays' \subseteq marked' /\ marked' \subseteq Reachable'
      BY <1>2, <1>3, <1>7, <1>8 DEF Searched
    <2> QED BY <1>5, <1>12, <1>13, <2>1 DEF Searched
  <1> QED BY <1>2, <1>3, <1>9, <1>14, UntouchedNatural DEF Search, treeVars

\* Back from a block, all of whose successors have been dealt with.
LEMMA ReturnNatural ==
    ASSUME IInv, Orderly, NaturalInv, succ' = succ, Return PROVE Search'
  <1> DEFINE n == Len(stack)
  <1>1. PICK u : u = Top.node
    OBVIOUS
  <1>2. /\ pc = "dfs" /\ stack # <<>> /\ ~AtSuccessor /\ stack' = Front(stack)
        /\ grays' = grays \ {u} /\ UNCHANGED <<marked, treeVars, loopVars>>
    BY <1>1 DEF Return
  <1>3. /\ TypeOK /\ PointersRight /\ IteratorsValid /\ WellTreed /\ Search
        /\ GrayPath /\ Searched /\ Grown
        /\ \A b \in Blocks : succ[b] \in Seq(Blocks)
        /\ \A j \in DOMAIN stack : /\ stack[j].node \in Blocks /\ stack[j].node \in grays
                                   /\ stack[j].node \in Reachable /\ stack[j].it \in Nat
    BY <1>2, SearchFacts, UntouchedGrown DEF Search
  <1>4. /\ n \in Nat \ {0} /\ DOMAIN stack = 1 .. n /\ DOMAIN stack' = 1 .. n - 1
        /\ \A j \in 1 .. n - 1 : stack'[j] = stack[j]
        /\ stack[n].node = u
    BY <1>1, <1>2, <1>3, AdvancedShape, FrontShape DEF Top
  <1>5. /\ \A m \in DOMAIN succ[u] : m < stack[n].it
        /\ u \in Blocks /\ u \in Reachable
    <2>1. u \in Blocks /\ u \in Reachable /\ stack[n].it \in Nat
      BY <1>3, <1>4
    <2>2. succ[u] \in Seq(Blocks)
      BY <1>3, <2>1
    <2>3. ~(stack[n].it <= Len(succ[u]))
      BY <1>1, <1>2 DEF AtSuccessor, Top
    <2> QED BY <2>1, <2>2, <2>3
  <1> HIDE DEF n
  <1>6. /\ 1 .. n - 1 \subseteq 1 .. n /\ n \in 1 .. n /\ n \notin 1 .. n - 1
        /\ \A j \in 1 .. n : j # n => j \in 1 .. n - 1
        /\ \A i \in 1 .. n - 1 : 1 .. i - 1 \subseteq 1 .. n - 1
    BY <1>4
  <1>7. Reachable' = Reachable /\ (\A S : ForwardClosed(S)' <=> ForwardClosed(S))
    BY ReferenceStays DEF ForwardClosed
  <1>8. GrayPath'
    <2>1. \A j \in 1 .. n - 1 : stack[j].node # u
      BY <1>3, <1>4, <1>6 DEF GrayPath
    <2>2. \A b : OnStack(b)' <=> OnStack(b) /\ b # u
      BY <1>4, <1>6, <2>1 DEF OnStack
    <2>3. \A b \in Blocks : b \in grays' <=> OnStack(b)'
      BY <1>2, <1>3, <2>2 DEF GrayPath
    <2> QED BY <1>3, <1>4, <1>6, <1>7, <2>3 DEF GrayPath
  <1>9. \A b \in Reachable : \A w : Handled(b, w) => Handled(b, w)'
    BY <1>2, <1>3, HandledStays
  <1>10. \A w \in ToSet(succ[u]) : Handled(u, w)
    BY <1>3, <1>4, <1>5, <1>6 DEF Searched, ToSet
  <1>11. \A b \in marked' \ grays' : \A w \in ToSet(succ[b]) : Handled(b, w)'
    BY <1>2, <1>3, <1>5, <1>9, <1>10 DEF Searched
  <1>12. ASSUME NEW j \in 1 .. n - 1, NEW b, b = stack'[j].node,
                NEW m \in DOMAIN succ[b], m < stack'[j].it, NEW w, w = succ[b][m]
         PROVE  Handled(b, w)'
    BY <1>3, <1>4, <1>6, <1>9, <1>12 DEF Searched
  <1>13. Searched'
    <2>1. Root \in marked' /\ grays' \subseteq marked' /\ marked' \subseteq Reachable'
      BY <1>2, <1>3, <1>7 DEF Searched
    <2> QED BY <1>4, <1>11, <1>12, <2>1 DEF Searched
  <1> QED BY <1>2, <1>3, <1>8, <1>13, UntouchedNatural DEF Search, treeVars

-----------------------------------------------------------------------------
(* The dominator tree answers.                                             *)

\* The graph as DomTree sees it.
LEMMA TreeGraph ==
    /\ Tree!Reachable = Reachable
    /\ \A d, v : Tree!StrictlyDominates(succ, Root, d, v) <=> StrictlyDominates(succ, Root, d, v)
    /\ \A g, u, v : Tree!Occurs(g, u, v) <=> Occurs(g, u, v)
  <1>1. Tree!Reachable = Reachable
    BY DEF Tree!Reachable, Reachable, Tree!ReachFrom, ReachFrom, Tree!Closed, Closed,
           Tree!ToSet, ToSet
  <1>2. \A d, v : Tree!StrictlyDominates(succ, Root, d, v) <=> StrictlyDominates(succ, Root, d, v)
    BY DEF Tree!StrictlyDominates, StrictlyDominates, Tree!Dominates, Dominates,
           Tree!ReachAvoiding, ReachAvoiding, Tree!ClosedExcept, ClosedExcept, Tree!ToSet, ToSet
  <1>3. \A g, u, v : Tree!Occurs(g, u, v) <=> Occurs(g, u, v)
    BY DEF Tree!Occurs, Occurs, Tree!ToSet, ToSet
  <1> QED BY <1>1, <1>2, <1>3

\* The header of a back edge is found to dominate its source.
LEMMA SourceDominated ==
    ASSUME TypeOK, WellTreed, TreeAnswers, tree_pc = "done", NEW h, NEW u \in Sources(h)
    PROVE  Tree!IsDominated(h, u) = TRUE
  <1>1. u \in Reachable /\ h \in Reachable /\ StrictlyDominates(succ, Root, h, u)
    BY SourceFacts DEF StrictlyDominates
  <1>2. h \in Tree!Reachable /\ u \in Tree!Reachable /\ Tree!StrictlyDominates(succ, Root, h, u)
    BY <1>1, TreeGraph
  <1>3. Tree!IsDominated(h, u)
    BY <1>2 DEF TreeAnswers, WellTreed, Tree!ListsNeverMissDominance
  <1> QED BY <1>3 DEF Tree!IsDominated

\* A successor on the stack: the edge is a back edge, and is recorded.
LEMMA GrayNatural ==
    ASSUME IInv, Orderly, NaturalInv, TreeAnswers, succ' = succ, MeetGray PROVE Search'
  <1>1. PICK u, v : u = Top.node /\ v = Successor
    OBVIOUS
  <1>2. /\ pc = "dfs" /\ AtSuccessor /\ v \in grays /\ stack' = Advanced /\ ProcessBackEdge(v, u)
        /\ UNCHANGED <<treeVars, marked, grays>>
    BY <1>1 DEF MeetGray
  <1>3. /\ TypeOK /\ PointersRight /\ WellTreed /\ SourcesInnermost /\ Search
        /\ Located /\ OnePerHeader /\ tree_pc = "done"
        /\ v \in Blocks /\ u \in Blocks
    <2>1. v \in Blocks /\ u \in Blocks
      BY <1>1, <1>2, IInvTypes, SuccessorFacts
    <2> QED BY <1>2, <2>1, SearchFacts DEF Search
  <1>4. IsBackEdge(u, v) /\ u \in Reachable
    BY <1>1, <1>2, GrayEdges
  <1>5. u \in Sources(v)
    BY <1>4 DEF Sources
  <1>6. /\ v \in Headers /\ v \in Reachable /\ u # v /\ u \notin Headers /\ v # Null
        /\ Innermost(u, Headers) = v /\ Innermost(v, Headers) = v
        /\ Tree!IsDominated(v, u) = TRUE
    <2>1. v \in Headers /\ v \in Reachable /\ u # v
      BY <1>3, <1>5, SourceFacts
    <2>2. u \notin Headers /\ Innermost(u, Headers) = v
      BY <1>3, <1>5, SourceNoHeader
    <2>3. Innermost(v, Headers) = v
      BY <1>3, <2>1, HeaderInnermost
    <2>4. Tree!IsDominated(v, u) = TRUE
      BY <1>3, <1>5, SourceDominated
    <2> QED BY <1>3, <2>1, <2>2, <2>3, <2>4, CfgAssumption
  <1>7. PICK id : id = IF loop[v] = Null THEN Len(loops) + 1 ELSE loop[v]
    OBVIOUS
  <1>8. /\ Loops' = Loops \cup {id} /\ id # Null /\ (id \in Loops <=> loop[v] # Null)
        /\ \A b \in Blocks : loop'[b] = IF b = v \/ b = u THEN id ELSE loop[b]
        /\ \A i \in Loops :
              /\ SameLoop(loops[i], loops'[i])
              /\ loops'[i].back = IF i = id THEN loops[i].back \cup {u} ELSE loops[i].back
        /\ loop[v] = Null => /\ SameLoop(NewLoop(v, TRUE), loops'[id])
                             /\ loops'[id].back = {u}
    <2>1. LET i == IF loop[v] = Null THEN Len(loops) + 1 ELSE loop[v]
          IN /\ Loops' = Loops \cup {i} /\ i # Null /\ (i \in Loops <=> loop[v] # Null)
             /\ \A b \in Blocks : loop'[b] = IF b = v \/ b = u THEN i ELSE loop[b]
             /\ \A j \in Loops :
                   /\ SameLoop(loops[j], loops'[j])
                   /\ loops'[j].back = IF j = i THEN loops[j].back \cup {u} ELSE loops[j].back
             /\ loop[v] = Null => /\ SameLoop(NewLoop(v, Tree!IsDominated(v, u)), loops'[i])
                                  /\ loops'[i].back = {u}
      BY <1>2, <1>3, BackEdgeEffect
    <2> QED BY <1>6, <1>7, <2>1
  <1>9. \A b \in Blocks : loop[b] # Null => loop[b] \in Loops
    BY <1>3, LoopTypes
  <1>10. loop[v] # Null => loop[v] = id /\ id \in Loops /\ loops[id].header = v
    BY <1>3, <1>6, <1>7, <1>8 DEF Located, HeaderOf
  <1>11. loop[v] = Null => /\ loops'[id].header = v /\ loops'[id].reducible = TRUE
                           /\ loops'[id].succ = <<>> /\ loops'[id].predec = <<>>
    BY <1>8 DEF SameLoop, NewLoop
  <1>12. Grown
    <2>1. \A h \in Headers : loop[h] # Null => loop'[h] = loop[h]
      <3>1. Headers \subseteq Blocks
        BY <1>3, GraphTyped DEF Headers
      <3> QED BY <1>6, <1>8, <1>10, <3>1
    <2> QED BY <1>8, <2>1 DEF Grown, SameLoop
  <1>13. Located' /\ OnePerHeader'
    <2>1. ASSUME NEW i \in Loops' \ Loops
          PROVE  /\ loops'[i].header \in Headers /\ loop'[loops'[i].header] = i
                 /\ loops'[i].reducible /\ loops'[i].back \subseteq Sources(loops'[i].header)
      <3>1. i = id /\ loop[v] = Null
        BY <1>8, <2>1
      <3> QED BY <1>3, <1>5, <1>6, <1>8, <1>11, <3>1
    <2>2. ASSUME NEW i \in Loops, loops[i].header # Null
          PROVE  loops'[i].back \subseteq Sources(loops[i].header)
      <3>1. loops[i].back \subseteq Sources(loops[i].header)
        BY <1>3, <2>2 DEF OnePerHeader
      <3>2. CASE i = id
        BY <1>5, <1>8, <1>10, <2>2, <3>1, <3>2
      <3>3. CASE i # id
        BY <1>8, <2>2, <3>1, <3>3
      <3> QED BY <3>2, <3>3
    <2>3. loops'[id].header = v
      BY <1>8, <1>10, <1>11 DEF SameLoop
    <2>4. ASSUME NEW b \in Blocks
          PROVE  \/ loop'[b] = loop[b]
                 \/ b \in Reachable /\ loops'[loop'[b]].header = Innermost(b, Headers)
      <3>1. CASE b = u \/ b = v
        BY <1>4, <1>6, <1>8, <2>3, <3>1
      <3>2. CASE ~(b = u \/ b = v)
        BY <1>8, <3>2
      <3> QED BY <3>1, <3>2
    <2> QED BY <1>3, <1>12, <2>1, <2>2, <2>4, StillNatural
  <1>14. Handled(u, v)'
    <2>1. loop'[v] = id /\ u \in loops'[id].back
      BY <1>3, <1>8, <1>10
    <2>2. v \in marked'
      BY <1>2, <1>3 DEF Search, Searched
    <2> QED BY <1>8, <2>1, <2>2 DEF Handled, Recorded
  <1>15. GrayPath' /\ Searched'
    BY <1>1, <1>2, <1>12, <1>14, AdvanceSearched
  <1>16. runs' <= 1 => Unnested'
    <2>1. Unnested => Unnested'
      BY <1>8, <1>11 DEF Unnested, SameLoop
    <2> QED BY <1>2, <1>3, <2>1 DEF Search, treeVars
  <1>17. tree_pc' = "done"
    BY <1>2, <1>3 DEF treeVars
  <1> QED BY <1>13, <1>15, <1>16, <1>17 DEF Search

\* The whole invariant is kept by the search.
LEMMA SearchNatural ==
    ASSUME IInv, Orderly, NaturalInv, TreeAnswers, succ' = succ, predec' = predec,
           BeginDFS \/ MeetGray \/ MeetBlack \/ MeetNew \/ Return
    PROVE  NaturalInv'
  <1>1. Search'
    BY BeginNatural, GrayNatural, BlackNatural, NewNatural, ReturnNatural
  <1>2. pc' = "dfs" /\ pc # "start" /\ runs' = runs
    BY DEF BeginDFS, MeetGray, MeetBlack, MeetNew, Return, treeVars
  <1>3. GraphGiven'
    BY DEF GraphGiven, NaturalInv
  <1>4. (runs > 0)'
    BY <1>2 DEF NaturalInv
  <1> QED BY <1>1, <1>2, <1>3, <1>4, SearchInvariant

-----------------------------------------------------------------------------
(* DomTree and RPO, called before and after the search.                    *)

\* runs counts.
LEMMA CountTyped == TypeOK => runs \in Nat
  BY DEF TypeOK, Tree!TypeOK

\* DomTree changes nothing the invariant speaks of but the number of runs.
LEMMA TreeNatural ==
    ASSUME IInv, Orderly, NaturalInv, succ' = succ, predec' = predec, Run \/ BuildDomTree
    PROVE  NaturalInv'
  <1>1. /\ TypeOK /\ PointersRight /\ Located /\ OnePerHeader /\ runs \in Nat
        /\ pc # "start" => runs > 0
    BY IInvTypes, CountTyped DEF NaturalInv
  <1>2. UNCHANGED loopVars /\ pc' \in {"domtree", "threw"}
    BY DEF Run, BuildDomTree
  <1>3. Located' /\ OnePerHeader' /\ (Unnested => Unnested')
    BY <1>1, <1>2, UntouchedNatural
  <1>4. Tree!Run => runs' = runs + 1
    BY DEF Tree!Run
  <1>5. /\ runs' \in Nat /\ runs' > 0
        /\ runs' <= 1 => runs <= 1 /\ pc \in {"start", "domtree"}
    <2>1. CASE Run
      BY <1>1, <1>4, <2>1 DEF Run
    <2>2. CASE BuildDomTree
      <3>1. Tree!Steps => runs' = runs \/ runs' = runs + 1
        BY <1>4 DEF Tree!Steps, Tree!CallDFS, Tree!PassOver, Tree!Return, Tree!MakeForest,
                    Tree!EvalPredec, Tree!LinkVertex, Tree!EmptyBucket, Tree!NextVertex,
                    Tree!FixDom, Tree!ClearRootDom, Tree!BuildVertex, Tree!Finish,
                    Tree!countVars
      <3> QED BY <1>1, <2>2, <3>1 DEF BuildDomTree
    <2> QED BY <2>1, <2>2
  <1>6. runs' <= 1 => Unnested'
    BY <1>3, <1>5 DEF NaturalInv, NestingInv
  <1>7. GraphGiven'
    BY DEF GraphGiven, NaturalInv
  <1> QED BY <1>2, <1>3, <1>5, <1>6, <1>7 DEF NaturalInv, NestingInv

\* The loop of a header, once the search is over.
LEMMA HeaderLoop ==
    ASSUME TypeOK, PointersRight, WellTreed, Located, OnePerHeader, AllRecorded,
           NEW h \in Headers
    PROVE  /\ h \in Blocks /\ h \in Reachable /\ h # Null
           /\ loop[h] \in Loops /\ loop[h] # Null /\ loops[loop[h]].header = h
           /\ loops[loop[h]].reducible /\ loops[loop[h]].back = Sources(h)
           /\ \A g \in Headers : loop[g] = loop[h] => g = h
  <1>1. \A g \in Headers : loop[g] \in Loops /\ loop[g] # Null /\ loops[loop[g]].header = g
                           /\ g \in Blocks /\ g \in Reachable
    <2> SUFFICES ASSUME NEW g \in Headers
                 PROVE  /\ loop[g] \in Loops /\ loop[g] # Null /\ loops[loop[g]].header = g
                        /\ g \in Blocks /\ g \in Reachable
      OBVIOUS
    <2>1. g \in Blocks /\ g \in Reachable
      BY GraphTyped DEF Headers
    <2>2. loop[g] # Null
      BY DEF Headers, AllRecorded, Recorded
    <2> QED BY <2>1, <2>2, LoopTypes, HeaderInnermost DEF Located, HeaderOf
  <1>2. h # Null
    BY <1>1, CfgAssumption
  <1>3. loops[loop[h]].reducible /\ loops[loop[h]].back \subseteq Sources(h)
    BY <1>1, <1>2 DEF OnePerHeader
  <1>4. Sources(h) \subseteq loops[loop[h]].back
    BY DEF AllRecorded, Recorded
  <1> QED BY <1>1, <1>2, <1>3, <1>4

\* Before the loops are nested they hang as they should.
LEMMA UnnestedHanging ==
    ASSUME TypeOK, PointersRight, WellTreed, Located, OnePerHeader, AllRecorded, Unnested
    PROVE  Hanging /\ \A h \in Headers : loops[loop[h]].predec = <<>>
  <1>1. \A h \in Headers : loops[loop[h]].predec = <<>>
    BY HeaderLoop DEF Unnested
  <1>2. MirroredEdges([i \in Loops |-> loops[i].succ], [i \in Loops |-> loops[i].predec])
    BY DEF Unnested, MirroredEdges, NoDuplicates, Occurs, ToSet
  <1> QED BY <1>1, <1>2 DEF Hanging

\* RPO lists the reachable blocks, each after all that dominate it.
LEMMA OrderDone ==
    ASSUME Order!IInv, rpo_pc = "done" PROVE Ordered
  <1>1. Order!ListsReachableOnce /\ Order!DominatorsComeFirst
    BY DEF Order!IInv
  <1>2. Order!Reachable = Reachable
    BY DEF Order!Reachable, Reachable, Order!ReachFrom, ReachFrom, Order!Closed, Closed,
           Order!ToSet, ToSet
  <1>3. \A d, v : Order!StrictlyDominates(succ, Root, d, v) <=> StrictlyDominates(succ, Root, d, v)
    BY DEF Order!StrictlyDominates, StrictlyDominates, Order!Dominates, Dominates,
           Order!ReachAvoiding, ReachAvoiding, Order!ClosedExcept, ClosedExcept, Order!ToSet, ToSet
  <1>4. ToSet(rpo) = Reachable /\ NoDuplicates(rpo)
    BY <1>1, <1>2 DEF Order!ListsReachableOnce, Order!ToSet, ToSet, Order!NoDuplicates, NoDuplicates
  <1>5. \A d, v \in Reachable : StrictlyDominates(succ, Root, d, v) => Order!Before(rpo, d, v)
    BY <1>1, <1>2, <1>3 DEF Order!DominatorsComeFirst
  <1> QED BY <1>4, <1>5 DEF Ordered

\* The search is over: it has been everywhere, and every back edge is recorded.
LEMMA SearchOver ==
    ASSUME IInv, Orderly, NaturalInv, pc = "dfs", stack = <<>> PROVE AllRecorded
  <1>1. TypeOK /\ GrayPath /\ Searched /\ WellTreed
    BY SearchFacts DEF Search
  <1>2. grays = {}
    BY <1>1, IInvTypes DEF GrayPath, OnStack
  <1>3. Closed(succ, marked)
    BY <1>1, <1>2 DEF Searched, Handled, Closed
  <1>4. Reachable \subseteq marked
    BY <1>1, <1>3, GraphTyped, IInvTypes, ReachWithinClosed DEF Searched, Reachable
  <1>5. ASSUME NEW h, NEW u \in Sources(h) PROVE Recorded(u, h)
    <2>1. u \in Reachable /\ h \in ToSet(succ[u]) /\ IsBackEdge(u, h)
      BY <1>1, SourceFacts DEF Sources
    <2> QED BY <1>1, <1>2, <1>4, <2>1 DEF Searched, Handled
  <1> QED BY <1>5 DEF AllRecorded

\* RPO runs, and CollectLoops begins behind the end of the order.
LEMMA OrderNatural ==
    ASSUME IInv, Orderly, NaturalInv, succ' = succ, predec' = predec,
           BeginRPO \/ BuildRPO \/ BeginCollect
    PROVE  NaturalInv'
  <1>1. /\ TypeOK /\ PointersRight /\ WellTreed /\ Located /\ OnePerHeader /\ runs \in Nat
        /\ pc # "start" => runs > 0
    BY IInvTypes, CountTyped DEF NaturalInv, Orderly
  <1>2. /\ UNCHANGED loopVars /\ UNCHANGED <<runs, tree_pc, tree_root>>
        /\ pc \in {"dfs", "rpo"} /\ pc' \in {"rpo", "collect"}
    BY DEF BeginRPO, BuildRPO, BeginCollect, treeVars
  <1>3. AllRecorded
    BY <1>2, SearchOver DEF NaturalInv, BeginRPO, BuildRPO, BeginCollect
  <1>4. tree_pc = "done" /\ (runs <= 1 => Unnested)
    BY <1>2 DEF NaturalInv, NestingInv
  <1>5. Located' /\ OnePerHeader' /\ AllRecorded' /\ (Unnested => Unnested') /\ (Hanging => Hanging')
    BY <1>1, <1>2, <1>3, UntouchedNatural, UntouchedGrown, GrownKeeps
  <1>6. GraphGiven' /\ stack' = <<>>
    <2>1. stack' = <<>>
      BY DEF NaturalInv, BeginRPO, BuildRPO, BeginCollect, walkVars
    <2> QED BY <2>1 DEF GraphGiven, NaturalInv
  <1>7. CASE pc' = "rpo"
    BY <1>1, <1>2, <1>4, <1>5, <1>6, <1>7 DEF NaturalInv, NestingInv
  <1>8. CASE pc' = "collect"
    <2>1. pc = "rpo" /\ rpo_pc = "done" /\ at' = Len(rpo) /\ rpo' = rpo /\ UNCHANGED loopVars
      BY <1>8 DEF BeginRPO, BuildRPO, BeginCollect, rpoVars
    <2>2. Ordered
      BY <2>1, OrderDone DEF IInv
    <2>3. Ordered'
      <3>1. Reachable' = Reachable
        BY ReferenceStays
      <3>2. \A d, v : Order!Before(rpo, d, v)' <=> Order!Before(rpo, d, v)
        BY <2>1 DEF Order!Before
      <3> QED BY <2>1, <2>2, <3>1, <3>2 DEF Ordered
    <2>4. Collected'
      BY <2>1, IInvTypes DEF Collected
    <2>5. runs <= 1 => Hanging /\ \A h \in Headers : loops[loop[h]].predec = <<>>
      BY <1>1, <1>3, <1>4, UnnestedHanging
    <2>6. Headers' = Headers /\ loop' = loop /\ loops' = loops
      BY <2>1, ReferenceStays DEF loopVars
    <2> QED BY <1>1, <1>2, <1>4, <1>5, <1>6, <1>8, <2>3, <2>4, <2>5, <2>6 DEF NaturalInv, NestingInv
  <1> QED BY <1>2, <1>7, <1>8

-----------------------------------------------------------------------------
(* The edges between the loops.                                            *)

\* The edge from a to c, added at both ends.
EdgeAdded(S, P, S2, P2, a, c) ==
    /\ DOMAIN S2 = DOMAIN S
    /\ \A i \in DOMAIN S : /\ S2[i] = IF i = a THEN Append(S[i], c) ELSE S[i]
                           /\ P2[i] = IF i = c THEN Append(P[i], a) ELSE P[i]

\* An edge to a loop that had none above it, added at both ends.
LEMMA MirrorAdded ==
    ASSUME NEW D, NEW S \in [D -> Seq(D)], NEW P \in [D -> Seq(D)], NEW S2, NEW P2,
           NEW a \in D, NEW c \in D, MirroredEdges(S, P), P[c] = <<>>,
           EdgeAdded(S, P, S2, P2, a, c)
    PROVE  MirroredEdges(S2, P2)
  <1> /\ DOMAIN S2 = D
      /\ \A i \in D : /\ S2[i] = IF i = a THEN Append(S[i], c) ELSE S[i]
                      /\ P2[i] = IF i = c THEN Append(P[i], a) ELSE P[i]
    BY DEF EdgeAdded
  <1>1. c \notin ToSet(S[a]) /\ a \notin ToSet(P[c])
    <2>1. ToSet(P[c]) = {}
      BY DEF ToSet
    <2>2. Occurs(S, a, c) <=> Occurs(P, c, a)
      BY DEF MirroredEdges
    <2> QED BY <2>1, <2>2 DEF Occurs
  <1>2. \A i \in D : NoDuplicates(S[i]) /\ NoDuplicates(P[i])
    BY DEF MirroredEdges
  <1>3. NoDuplicates(Append(S[a], c)) /\ NoDuplicates(Append(P[c], a))
    BY <1>1, <1>2, PushKeepsDistinct
  <1>4. /\ ToSet(Append(S[a], c)) = ToSet(S[a]) \cup {c}
        /\ ToSet(Append(P[c], a)) = ToSet(P[c]) \cup {a}
    <2>1. S[a] \in Seq(D) /\ P[c] \in Seq(D)
      OBVIOUS
    <2>2. \A s \in Seq(D) : \A x \in D : ToSet(Append(s, x)) = ToSet(s) \cup {x}
      BY AppendEntries
    <2> QED BY <2>1, <2>2
  <1>5. \A i \in D : NoDuplicates(S2[i]) /\ NoDuplicates(P2[i])
    BY <1>2, <1>3
  <1>6. ASSUME NEW i \in D, NEW j \in D PROVE Occurs(S2, i, j) <=> Occurs(P2, j, i)
    <2>1. Occurs(S2, i, j) <=> Occurs(S, i, j) \/ (i = a /\ j = c)
      BY <1>4 DEF Occurs
    <2>2. Occurs(P2, j, i) <=> Occurs(P, j, i) \/ (i = a /\ j = c)
      BY <1>4 DEF Occurs
    <2> QED BY <2>1, <2>2 DEF MirroredEdges
  <1> QED BY <1>5, <1>6 DEF MirroredEdges

\* The vectors of the loops are vectors of loops.
LEMMA LoopEdgesTyped ==
    ASSUME TypeOK, PointersRight
    PROVE  /\ [i \in Loops |-> loops[i].succ] \in [Loops -> Seq(Loops)]
           /\ [i \in Loops |-> loops[i].predec] \in [Loops -> Seq(Loops)]
  BY LoopTypes

\* The loop of a header is hung into another one.
LEMMA NestedNatural ==
    ASSUME TypeOK, PointersRight, WellTreed, Located, OnePerHeader, AllRecorded, succ' = succ,
           NEW c \in Headers, NEW parent \in Loops, parent # loop[c],
           loops[loop[c]].predec = <<>>,
           loops' = Nested(loops, parent, loop[c]), loop' = loop, tree_root' = tree_root
    PROVE  /\ Grown /\ Located' /\ OnePerHeader'
           /\ loops'[loop[c]].predec = <<parent>>
           /\ \A g \in Headers : g # c => loops'[loop[g]].predec = loops[loop[g]].predec
           /\ Hanging /\ ParentLoop(c) = parent => Hanging'
  <1> DEFINE child == loop[c]
  <1>1. /\ child \in Loops /\ loops[child].predec = <<>> /\ parent # child
        /\ \A g \in Headers : loop[g] \in Loops /\ (loop[g] = child => g = c)
        /\ loops' = Nested(loops, parent, child)
    BY HeaderLoop
  <1> HIDE DEF child
  <1>2. /\ Len(loops) \in Nat /\ Loops = 1 .. Len(loops) /\ loops \in Seq(Objects(Len(loops)))
        /\ \A i \in Loops : loops[i].predec \in Seq(Loops)
    BY LoopTypes
  <1>3. /\ Loops' = Loops
        /\ \A i \in Loops :
              /\ loops'[i].header = loops[i].header /\ loops'[i].reducible = loops[i].reducible
              /\ loops'[i].back = loops[i].back
              /\ loops'[i].succ = IF i = parent THEN Append(loops[i].succ, child) ELSE loops[i].succ
              /\ loops'[i].predec = IF i = child THEN Append(loops[i].predec, parent)
                                                 ELSE loops[i].predec
    <2>1. LET ls2 == Nested(loops, parent, child)
          IN /\ DOMAIN ls2 = 1 .. Len(loops)
             /\ \A i \in 1 .. Len(loops) :
                   /\ ls2[i].header = loops[i].header /\ ls2[i].reducible = loops[i].reducible
                   /\ ls2[i].back = loops[i].back
                   /\ ls2[i].succ = IF i = parent THEN Append(loops[i].succ, child)
                                                  ELSE loops[i].succ
                   /\ ls2[i].predec = IF i = child THEN Append(loops[i].predec, parent)
                                                   ELSE loops[i].predec
      <3>1. /\ parent \in 1 .. Len(loops) /\ child \in 1 .. Len(loops) /\ parent # child
            /\ loops \in Seq(Objects(Len(loops)))
        BY <1>1, <1>2
      <3> QED BY <3>1, NestedFields
    <2> QED BY <1>1, <1>2, <2>1 DEF Loops
  <1>4. loops'[child].predec = <<parent>>
    <2>1. Append(<<>>, parent) = <<parent>>
      OBVIOUS
    <2> QED BY <1>1, <1>3, <2>1
  <1>5. Grown
    BY <1>1, <1>3, <1>4 DEF Grown
  <1>6. Located' /\ OnePerHeader'
    BY <1>3, <1>5, StillNatural DEF OnePerHeader
  <1>7. \A g \in Headers : g # c => loops'[loop[g]].predec = loops[loop[g]].predec
    BY <1>1, <1>3 DEF child
  <1>8. ASSUME Hanging, ParentLoop(c) = parent PROVE Hanging'
    <2> DEFINE S == [i \in Loops |-> loops[i].succ]
               P == [i \in Loops |-> loops[i].predec]
               S2 == [i \in Loops |-> loops'[i].succ]
               P2 == [i \in Loops |-> loops'[i].predec]
    <2>1. S \in [Loops -> Seq(Loops)] /\ P \in [Loops -> Seq(Loops)]
      BY LoopEdgesTyped
    <2>2. MirroredEdges(S, P) /\ P[child] = <<>>
      BY <1>1, <1>8 DEF Hanging
    <2>3. EdgeAdded(S, P, S2, P2, parent, child)
      BY <1>3 DEF EdgeAdded
    <2> HIDE DEF S, P, S2, P2
    <2>4. MirroredEdges(S2, P2)
      <3>1. parent \in Loops /\ child \in Loops
        BY <1>1
      <3> HIDE DEF Loops
      <3> QED BY <2>1, <2>2, <2>3, <3>1, MirrorAdded
    <2>5. Headers' = Headers /\ \A h : ParentLoop(h)' = ParentLoop(h)
      BY ReferenceStays DEF ParentLoop
    <2>6. ASSUME NEW h \in Headers PROVE loops'[loop[h]].predec \in {<<>>, <<ParentLoop(h)>>}
      BY <1>4, <1>7, <1>8, <2>6 DEF Hanging, child
    <2> QED BY <1>3, <2>4, <2>5, <2>6 DEF Hanging, S2, P2
  <1> QED BY <1>4, <1>5, <1>6, <1>7, <1>8 DEF child

-----------------------------------------------------------------------------
(* CollectLoops.                                                           *)

\* What is known once the search is over.
LEMMA PassFacts ==
    ASSUME IInv, Orderly, NaturalInv, pc \in {"collect", "fill", "root", "assign", "done"}
    PROVE  /\ TypeOK /\ PointersRight /\ IteratorsValid /\ WellTreed /\ GraphGiven
           /\ Located /\ OnePerHeader /\ AllRecorded /\ tree_pc = "done"
           /\ runs \in Nat /\ runs > 0 /\ (runs <= 1 => NestingInv)
           /\ pc # "done" => Ordered
  BY IInvTypes, CountTyped DEF NaturalInv, Orderly

\* A step keeps the order it goes by.
LEMMA OrderedStays == ASSUME succ' = succ, rpo' = rpo, Ordered PROVE Ordered'
  <1>1. Reachable' = Reachable
    BY ReferenceStays
  <1>2. \A d, v : Order!Before(rpo, d, v)' <=> Order!Before(rpo, d, v)
    BY DEF Order!Before
  <1> QED BY <1>1, <1>2 DEF Ordered

\* The loops that are complete.
LEMMA CollectedStays ==
    ASSUME TypeOK, PointersRight, WellTreed, succ' = succ, Grown, rpo' = rpo, at' = at, Collected
    PROVE  Collected'
  <1>1. Headers' = Headers /\ \A h \in Headers : Complete(h) => Complete(h)'
    BY ReferenceStays, GrownKeeps
  <1>2. ASSUME NEW j \in at + 1 .. Len(rpo), rpo[j] \in Headers PROVE Complete(rpo[j])'
    <2>1. PICK h : h = rpo[j]
      OBVIOUS
    <2>2. Complete(h)'
      BY <1>1, <1>2, <2>1 DEF Collected
    <2> QED BY <2>1, <2>2
  <1> QED BY <1>1, <1>2 DEF Collected

\* A header around a block of the loop in hand either dominates that loop's
\* header or has a complete loop.
LEMMA OuterOrComplete ==
    ASSUME TypeOK, WellTreed, Ordered, Collected, at \in 1 .. Len(rpo), rpo[at] \in Headers,
           NEW g \in Headers, NEW b \in NaturalLoop(g), b \in NaturalLoop(rpo[at])
    PROVE  Dominates(succ, Root, g, rpo[at]) \/ Complete(g)
  <1>1. CASE \E j \in at + 1 .. Len(rpo) : rpo[j] = g
    BY <1>1 DEF Collected
  <1>2. CASE ~\E j \in at + 1 .. Len(rpo) : rpo[j] = g
    BY <1>2, HeadersOrdered
  <1> QED BY <1>1, <1>2

\* A block without a loop has the loop in hand for its innermost one.
LEMMA LooseInnermost ==
    ASSUME TypeOK, WellTreed, Ordered, Collected, at \in 1 .. Len(rpo), rpo[at] \in Headers,
           NEW b \in NaturalLoop(rpo[at]), loop[b] = Null
    PROVE  Innermost(b, Headers) = rpo[at]
  <1>1. ASSUME NEW g \in Headers, b \in NaturalLoop(g) PROVE Dominates(succ, Root, g, rpo[at])
    <2>1. ~Complete(g)
      BY <1>1 DEF Complete, InLoop
    <2> QED BY <1>1, <2>1, OuterOrComplete
  <1> QED BY <1>1, InnermostIs

\* The header of an inner loop that hangs nowhere has the loop in hand for its
\* parent.
LEMMA LooseParent ==
    ASSUME TypeOK, WellTreed, Ordered, Collected, at \in 1 .. Len(rpo), rpo[at] \in Headers,
           NEW c \in Headers, c \in NaturalLoop(rpo[at]), c # rpo[at],
           loops[loop[c]].predec = <<>>
    PROVE  ParentOf(c) = rpo[at]
  <1>1. ASSUME NEW g \in Headers \ {c}, c \in NaturalLoop(g)
        PROVE  Dominates(succ, Root, g, rpo[at])
    <2>1. ~Complete(g)
      BY <1>1 DEF Complete, InLoop
    <2> QED BY <1>1, <2>1, OuterOrComplete
  <1>2. Headers \ {c} \in SUBSET Headers /\ rpo[at] \in Headers \ {c}
    OBVIOUS
  <1>3. Innermost(c, Headers \ {c}) = rpo[at]
    BY <1>1, <1>2, InnermostIs
  <1> QED BY <1>3 DEF ParentOf

\* The nesting of the loops as far as it goes.
NestedSoFar ==
    Hanging /\ \A h \in Headers : ParentOf(h) = Null => loops[loop[h]].predec = <<>>

\* The parent of a natural loop, if it has one, is a header.
LEMMA ParentTyped ==
    ASSUME TypeOK, WellTreed, Ordered, NEW h \in Headers
    PROVE  \/ ParentOf(h) = Null
           \/ ParentOf(h) \in Headers \ {h} /\ h \in NaturalLoop(ParentOf(h))
  <1>1. CASE \A g \in Headers \ {h} : h \notin NaturalLoop(g)
    BY <1>1, InnermostNone DEF ParentOf
  <1>2. CASE \E g \in Headers \ {h} : h \in NaturalLoop(g)
    <2>1. PICK g \in Headers \ {h} : h \in NaturalLoop(g)
      BY <1>2
    <2>2. Headers \ {h} \in SUBSET Headers
      OBVIOUS
    <2> QED BY <2>1, <2>2, InnermostExists DEF ParentOf
  <1> QED BY <1>1, <1>2

\* A step that leaves loops and pointers alone, or only fills bbs.
LEMMA NestedSoFarStays ==
    ASSUME succ' = succ, tree_root' = tree_root, Loops' = Loops,
           \A i \in Loops : loops'[i].succ = loops[i].succ /\ loops'[i].predec = loops[i].predec,
           \A h \in Headers : /\ loop[h] \in Loops /\ loop'[h] = loop[h]
                              /\ ParentOf(h) = Null \/ ParentOf(h) \in Headers
    PROVE  /\ NestedSoFar => NestedSoFar'
           /\ Hanging => Hanging'
  <1>1. /\ Headers' = Headers
        /\ \A h : ParentOf(h)' = ParentOf(h)
    BY ReferenceStays
  <1>2. \A h \in Headers : ParentLoop(h)' = ParentLoop(h)
    <2> SUFFICES ASSUME NEW h \in Headers PROVE ParentLoop(h)' = ParentLoop(h)
      OBVIOUS
    <2>1. PICK q : q = ParentOf(h)
      OBVIOUS
    <2>2. ParentOf(h)' = q /\ (q = Null \/ loop'[q] = loop[q])
      BY <1>1, <2>1
    <2> QED BY <2>1, <2>2 DEF ParentLoop
  <1> QED BY <1>1, <1>2 DEF NestedSoFar, Hanging, MirroredEdges, Occurs, ToSet

\* ProcessLoopBBs on a block of the natural loop in hand.
LEMMA JoinNatural ==
    ASSUME IInv, Orderly, NaturalInv, pc = "fill", succ' = succ, tree_root' = tree_root,
           NEW h \in Headers, h = rpo[at], h \in marked,
           NEW bb \in NaturalLoop(h), bb \notin marked, ProcessLoopBBs(bb)
    PROVE  /\ Grown /\ Located' /\ OnePerHeader' /\ InLoop(h, bb)'
           /\ runs <= 1 => NestedSoFar'
  <1>1. /\ TypeOK /\ PointersRight /\ WellTreed /\ Located /\ OnePerHeader /\ AllRecorded
        /\ Ordered /\ Collected /\ (runs <= 1 => NestedSoFar)
        /\ at \in 1 .. Len(rpo) /\ CurLoop = loop[h]
    BY PassFacts, IInvTypes DEF NaturalInv, NestingInv, NestedSoFar, LoopInHand, CurLoop
  <1>2. /\ bb \in Reachable /\ bb \in Blocks /\ bb # h
        /\ loop[h] \in Loops /\ loop[h] # Null /\ loops[loop[h]].header = h
        /\ \A g \in Headers : /\ loop[g] \in Loops /\ loop[g] # Null /\ loops[loop[g]].header = g
                              /\ g \in Blocks /\ g # Null /\ (loop[g] = loop[h] => g = h)
                              /\ ParentOf(g) = Null \/ ParentOf(g) \in Headers
    <2>1. bb \in Reachable /\ bb \in Blocks
      BY <1>1, LoopDominated, GraphTyped
    <2>2. \A g \in Headers : ParentOf(g) = Null \/ ParentOf(g) \in Headers
      BY <1>1, ParentTyped
    <2> QED BY <1>1, <2>1, <2>2, HeaderLoop
  <1>3. /\ Len(loops) \in Nat /\ Loops = 1 .. Len(loops) /\ loops \in Seq(Objects(Len(loops)))
        /\ DOMAIN loop = Blocks /\ \A b \in Blocks : loop[b] # Null => loop[b] \in Loops
    BY <1>1, LoopTypes
  <1>4. Headers' = Headers
    BY ReferenceStays
  <1>5. CASE loop[bb] = Null
    <2>1. loops' = InsertedLoopBB(loops, loop[h], bb) /\ loop' = [loop EXCEPT ![bb] = loop[h]]
      BY <1>1, <1>5 DEF ProcessLoopBBs
    <2>2. /\ Loops' = Loops
          /\ \A i \in Loops : SameLoop(loops[i], loops'[i]) /\ loops'[i].back = loops[i].back
      <3>1. LET ls2 == InsertedLoopBB(loops, loop[h], bb)
            IN /\ DOMAIN ls2 = 1 .. Len(loops)
               /\ \A i \in 1 .. Len(loops) :
                     SameLoop(loops[i], ls2[i]) /\ ls2[i].back = loops[i].back
        BY <1>2, <1>3, InsertedFields
      <3> QED BY <1>3, <2>1, <3>1 DEF Loops
    <2>3. \A b \in Blocks : loop'[b] = IF b = bb THEN loop[h] ELSE loop[b]
      BY <1>3, <2>1
    <2>4. bb \notin Headers
      BY <1>2, <1>5
    <2>5. Grown
      BY <1>2, <1>5, <2>2, <2>3, <2>4 DEF Grown, SameLoop
    <2>6. Innermost(bb, Headers) = h
      BY <1>1, <1>5, LooseInnermost
    <2>7. loops'[loop'[bb]].header = h
      BY <1>2, <2>2, <2>3 DEF SameLoop
    <2>8. Located' /\ OnePerHeader'
      BY <1>1, <1>2, <2>2, <2>3, <2>5, <2>6, <2>7, StillNatural DEF OnePerHeader
    <2>9. InLoop(h, bb)'
      BY <1>2, <1>4, <2>3, <2>4 DEF InLoop
    <2>10. NestedSoFar => NestedSoFar'
      BY <1>2, <2>2, <2>3, <2>4, NestedSoFarStays DEF SameLoop
    <2> QED BY <1>1, <2>5, <2>8, <2>9, <2>10
  <1>6. CASE loop[bb] # Null
    <2>1. PICK c : c = Innermost(bb, Headers)
      OBVIOUS
    <2>2. c \in Headers /\ c \in NaturalLoop(h) /\ (bb \in Headers => c = bb)
      <3>1. c \in Headers /\ NaturalLoop(c) \subseteq NaturalLoop(h)
        BY <1>1, <2>1, InnermostExists
      <3> QED BY <1>1, <2>1, <3>1, HeaderInnermost
    <2>3. loop[bb] = loop[c]
      BY <1>1, <1>2, <1>3, <1>6, <2>1, <2>2 DEF Located, HeaderOf, OnePerHeader
    <2>4. CASE loops[loop[c]].predec = <<>> /\ loop[c] # loop[h]
      <3>1. c # h /\ loops' = Nested(loops, loop[h], loop[c]) /\ loop' = loop
        BY <1>1, <1>6, <2>3, <2>4 DEF ProcessLoopBBs
      <3>2. /\ Grown /\ Located' /\ OnePerHeader'
            /\ loops'[loop[c]].predec = <<loop[h]>>
            /\ \A g \in Headers : g # c => loops'[loop[g]].predec = loops[loop[g]].predec
            /\ Hanging /\ ParentLoop(c) = loop[h] => Hanging'
        BY <1>1, <1>2, <2>2, <2>4, <3>1, NestedNatural
      <3>3. ParentOf(c) = h
        BY <1>1, <2>2, <2>4, <3>1, LooseParent
      <3>4. ParentLoop(c) = loop[h]
        BY <1>2, <3>3 DEF ParentLoop
      <3>5. InLoop(h, bb)'
        <4>1. loop'[bb] # Null /\ loops'[loop'[bb]].predec # <<>>
          BY <1>6, <2>3, <3>1, <3>2
        <4> QED BY <4>1 DEF InLoop
      <3>6. NestedSoFar => NestedSoFar'
        <4>1. \A g \in Headers : ParentOf(g)' = ParentOf(g)
          BY ReferenceStays
        <4> QED BY <1>2, <1>4, <3>1, <3>2, <3>3, <3>4, <4>1 DEF NestedSoFar
      <3> QED BY <1>1, <3>2, <3>5, <3>6
    <2>5. CASE ~(loops[loop[c]].predec = <<>> /\ loop[c] # loop[h])
      <3>1. loops' = loops /\ loop' = loop
        BY <1>1, <1>6, <2>3, <2>5 DEF ProcessLoopBBs
      <3>2. UNCHANGED loopVars
        BY <3>1 DEF loopVars
      <3>3. Grown /\ Located' /\ OnePerHeader'
        BY <1>1, <3>2, UntouchedGrown, UntouchedNatural
      <3>4. InLoop(h, bb)'
        <4>1. bb \in Headers => c = bb /\ loops[loop[c]].predec # <<>>
          BY <1>2, <2>2, <2>5
        <4> QED BY <1>4, <1>6, <3>1, <4>1 DEF InLoop
      <3>5. NestedSoFar => NestedSoFar'
        BY <1>2, <3>1, NestedSoFarStays DEF Loops
      <3> QED BY <1>1, <3>3, <3>4, <3>5
    <2> QED BY <2>4, <2>5
  <1> QED BY <1>5, <1>6

\* Every edge is stored at both of its ends.
LEMMA EdgesMirrored ==
    ASSUME GraphGiven, NEW u \in Blocks, NEW v \in Blocks
    PROVE  v \in ToSet(succ[u]) <=> u \in ToSet(predec[v])
  <1>1. PICK g \in Cfgs : succ = g.succ /\ predec = g.predec
    BY DEF GraphGiven
  <1>2. Occurs(g.succ, u, v) <=> Occurs(g.predec, v, u)
    BY EdgesAssumption
  <1> QED BY <1>1, <1>2 DEF Occurs

\* What leads to a block of a natural loop other than its header is in the loop.
LEMMA PredecInLoop ==
    ASSUME TypeOK, WellTreed, GraphGiven, TreeAnswers, tree_pc = "done",
           NEW h \in Headers, NEW v \in NaturalLoop(h), v # h, NEW b \in ToSet(predec[v])
    PROVE  b \in NaturalLoop(h) /\ b \in Blocks
  <1>1. v \in Reachable /\ v \in Blocks /\ v # Root
    BY LoopDominated, GraphTyped
  <1>2. predec[v] \in Seq(Blocks)
    BY <1>1, GraphTyped
  <1>3. b \in Blocks
    BY <1>2, Entries
  <1>4. b \in Reachable
    <2>1. Tree!Reachable = Reachable
      BY TreeGraph
    <2>2. Tree!ToSet(predec[v]) = ToSet(predec[v])
      BY DEF Tree!ToSet, ToSet
    <2> QED BY <1>1, <2>1, <2>2 DEF TreeAnswers, Tree!HasUnreachablePredec
  <1>5. v \in ToSet(succ[b])
    BY <1>1, <1>3, EdgesMirrored
  <1> QED BY <1>3, <1>4, <1>5, LoopPredecessor

\* What is known while a loop is filled.
LEMMA FillFacts ==
    ASSUME IInv, Orderly, NaturalInv, pc = "fill", NEW h, h = rpo[at]
    PROVE  /\ TypeOK /\ PointersRight /\ IteratorsValid /\ WellTreed /\ GraphGiven
           /\ tree_pc = "done" /\ Filling(h)
           /\ h \in Headers /\ h \in marked /\ marked \subseteq NaturalLoop(h)
           /\ Located /\ OnePerHeader /\ (runs <= 1 => NestedSoFar)
           /\ marked \subseteq Blocks /\ stack \in Seq([node : Blocks, it : Nat])
           /\ \A b \in Blocks : predec[b] \in Seq(Blocks)
           /\ \A g \in Headers : /\ loop[g] \in Loops
                                 /\ ParentOf(g) = Null \/ ParentOf(g) \in Headers
  <1>1. /\ TypeOK /\ PointersRight /\ IteratorsValid /\ WellTreed /\ GraphGiven /\ Ordered
        /\ tree_pc = "done" /\ Located /\ OnePerHeader /\ AllRecorded
        /\ (runs <= 1 => NestedSoFar)
    BY PassFacts DEF NestingInv, NestedSoFar
  <1>2. Filling(h)
    BY DEF NaturalInv
  <1>3. h \in Headers /\ h \in marked /\ marked \subseteq NaturalLoop(h)
    BY <1>2 DEF Filling
  <1>4. \A b \in Blocks : predec[b] \in Seq(Blocks)
    BY <1>1, GraphTyped
  <1>5. marked \subseteq Blocks /\ stack \in Seq([node : Blocks, it : Nat])
    BY <1>1 DEF TypeOK
  <1> QED BY <1>1, <1>2, <1>3, <1>4, <1>5, HeaderLoop, ParentTyped

\* A step of the walk that fills a loop.
LEMMA FillKept ==
    ASSUME IInv, Orderly, NaturalInv, succ' = succ, predec' = predec, pc = "fill", pc' = "fill",
           UNCHANGED <<treeVars, rpoVars, at, tree_root>>,
           Grown, Located', OnePerHeader', runs <= 1 => NestedSoFar',
           NEW h, h = rpo[at], Filling(h)'
    PROVE  NaturalInv'
  <1>1. /\ TypeOK /\ PointersRight /\ WellTreed /\ Ordered /\ Collected /\ AllRecorded
        /\ tree_pc = "done" /\ runs > 0
    BY PassFacts DEF NaturalInv
  <1>2. /\ tree_pc' = "done" /\ runs' = runs /\ rpo' = rpo /\ at' = at
    BY <1>1 DEF treeVars, rpoVars
  <1>3. AllRecorded' /\ Ordered' /\ Collected'
    BY <1>1, <1>2, GrownKeeps, OrderedStays, CollectedStays
  <1>4. GraphGiven'
    BY DEF GraphGiven, NaturalInv
  <1>5. Filling(rpo[at])'
    <2>1. rpo'[at'] = h
      BY <1>2
    <2> QED BY <2>1
  <1>6. runs' <= 1 => NestingInv'
    BY <1>2 DEF NestingInv, NestedSoFar
  <1>7. (runs > 0)'
    BY <1>1, <1>2
  <1> QED BY <1>2, <1>3, <1>4, <1>5, <1>6, <1>7 DEF NaturalInv

\* A step of it that leaves the loops alone.
LEMMA FillIdle ==
    ASSUME IInv, Orderly, NaturalInv, succ' = succ, pc = "fill", UNCHANGED <<loopVars, tree_root>>,
           NEW h, h = rpo[at]
    PROVE  /\ Grown /\ Located' /\ OnePerHeader' /\ (runs <= 1 => NestedSoFar')
           /\ \A b \in Blocks : InLoop(h, b) => InLoop(h, b)'
  <1>1. /\ Grown /\ Located' /\ OnePerHeader'
    BY FillFacts, UntouchedGrown, UntouchedNatural
  <1>2. NestedSoFar => NestedSoFar'
    BY FillFacts, NestedSoFarStays DEF loopVars, Loops
  <1>3. \A b \in Blocks : InLoop(h, b) => InLoop(h, b)'
    BY <1>1, FillFacts, GrownKeeps
  <1> QED BY <1>1, <1>2, <1>3, FillFacts

\* A back edge is taken from the set.
LEMMA TakeNatural ==
    ASSUME IInv, Orderly, NaturalInv, TreeAnswers, succ' = succ, predec' = predec,
           NEW source \in Blocks, TakeBackEdge(source)
    PROVE  NaturalInv'
  <1>1. PICK h : h = rpo[at]
    OBVIOUS
  <1>2. /\ pc = "fill" /\ pc' = "fill" /\ stack = <<>> /\ source \in todo
        /\ todo' = todo \ {source} /\ UNCHANGED <<treeVars, rpoVars, at, tree_root>>
    BY DEF TakeBackEdge
  <1>3. /\ TypeOK /\ PointersRight /\ WellTreed /\ Filling(h) /\ h \in Headers /\ h \in marked
        /\ marked \subseteq NaturalLoop(h) /\ marked \subseteq Blocks
        /\ \A b \in Blocks : predec[b] \in Seq(Blocks)
    BY <1>1, <1>2, FillFacts
  <1>4. source \in Sources(h) /\ source \in NaturalLoop(h) /\ source # h
    <2>1. source \in Sources(h)
      BY <1>2, <1>3 DEF Filling
    <2> QED BY <1>3, <2>1, SourceFacts
  <1>5. Sources(h)' = Sources(h) /\ NaturalLoop(h)' = NaturalLoop(h) /\ Headers' = Headers
    BY ReferenceStays
  <1>6. \A b \in marked \ {h} : ToSet(predec[b]) \subseteq marked
    BY <1>2, <1>3 DEF Filling, OnStack
  <1>7. CASE source \in marked
    <2>1. UNCHANGED <<loopVars, marked, stack>>
      BY <1>7 DEF TakeBackEdge
    <2>2. /\ Grown /\ Located' /\ OnePerHeader' /\ (runs <= 1 => NestedSoFar')
          /\ \A b \in Blocks : InLoop(h, b) => InLoop(h, b)'
      BY <1>1, <1>2, <2>1, FillIdle
    <2>3. Filling(h)'
      BY <1>2, <1>3, <1>5, <1>6, <1>7, <2>1, <2>2 DEF Filling
    <2> QED BY <1>1, <1>2, <2>2, <2>3, FillKept
  <1>8. CASE source \notin marked
    <2>1. ProcessLoopBBs(source) /\ stack' = <<Enter(source)>>
      BY <1>8 DEF TakeBackEdge
    <2>2. /\ Grown /\ Located' /\ OnePerHeader' /\ (runs <= 1 => NestedSoFar')
          /\ InLoop(h, source)'
      BY <1>1, <1>2, <1>3, <1>4, <1>8, <2>1, JoinNatural
    <2>3. \A b \in Blocks : InLoop(h, b) => InLoop(h, b)'
      BY <1>3, <2>2, GrownKeeps
    <2>4. marked' = marked \cup {source}
      BY <2>1 DEF ProcessLoopBBs
    <2>5. DOMAIN stack' = {1} /\ stack'[1].node = source /\ stack'[1].it = 1
      BY <2>1, StartShape
    <2>6. \A m \in DOMAIN predec[source] : ~(m < 1)
      <3>1. predec[source] \in Seq(Blocks)
        BY <1>3
      <3> QED BY <3>1
    <2>7. Filling(h)'
      <3>1. \A b \in marked' : InLoop(h, b)'
        BY <1>3, <2>2, <2>3, <2>4 DEF Filling
      <3>2. \A b \in marked' \ {h} : ToSet(predec[b]) \subseteq marked' \/ OnStack(b)'
        BY <1>6, <2>4, <2>5 DEF OnStack
      <3> QED BY <1>2, <1>3, <1>4, <1>5, <2>4, <2>5, <2>6, <3>1, <3>2 DEF Filling
    <2> QED BY <1>1, <1>2, <2>2, <2>7, FillKept
  <1> QED BY <1>7, <1>8

\* The walk goes on to what leads to a block.
LEMMA PredecNatural ==
    ASSUME IInv, Orderly, NaturalInv, TreeAnswers, succ' = succ, predec' = predec, WalkPredec
    PROVE  NaturalInv'
  <1> DEFINE n == Len(stack)
  <1>1. PICK h, v, bb : h = rpo[at] /\ v = Top.node /\ bb = predec[v][Top.it]
    OBVIOUS
  <1>2. /\ pc = "fill" /\ pc' = "fill" /\ stack # <<>> /\ Top.it <= Len(predec[v])
        /\ todo' = todo /\ UNCHANGED <<treeVars, rpoVars, at, tree_root>>
    BY <1>1 DEF WalkPredec
  <1>3. /\ TypeOK /\ PointersRight /\ IteratorsValid /\ WellTreed /\ GraphGiven /\ tree_pc = "done"
        /\ Filling(h) /\ h \in Headers /\ h \in marked
        /\ marked \subseteq NaturalLoop(h) /\ marked \subseteq Blocks
        /\ \A b \in Blocks : predec[b] \in Seq(Blocks)
    BY <1>1, <1>2, FillFacts
  <1>4. /\ n \in Nat \ {0} /\ DOMAIN stack = 1 .. n /\ v = stack[n].node
        /\ v \in Blocks /\ Top.it \in Nat \ {0} /\ Top.it = stack[n].it
        /\ \A j \in 1 .. n :
              /\ stack[j].node \in Blocks
              /\ Advanced[j].node = stack[j].node
              /\ j # n => Advanced[j].it = stack[j].it
              /\ j = n => Advanced[j].it = stack[j].it + 1
        /\ DOMAIN Advanced = 1 .. n
    BY <1>1, <1>2, <1>3, AdvancedShape DEF Top
  <1>5. v \in marked \ {h} /\ v \in NaturalLoop(h) /\ v # h
    <2> HIDE DEF n
    <2>1. n \in DOMAIN stack
      BY <1>4
    <2>2. stack[n].node \in marked \ {h}
      BY <1>3, <2>1 DEF Filling
    <2> QED BY <1>3, <1>4, <2>2
  <1>6. Top.it \in DOMAIN predec[v] /\ bb \in ToSet(predec[v])
    <2>1. predec[v] \in Seq(Blocks)
      BY <1>3, <1>4
    <2>2. Top.it \in DOMAIN predec[v]
      BY <1>2, <1>4, <2>1
    <2> QED BY <1>1, <2>2 DEF ToSet
  <1>7. bb \in NaturalLoop(h) /\ bb \in Blocks
    BY <1>3, <1>5, <1>6, PredecInLoop
  <1>8. /\ Grown /\ Located' /\ OnePerHeader' /\ (runs <= 1 => NestedSoFar')
        /\ \A b \in marked' : InLoop(h, b)'
        /\ marked' = marked \cup {bb}
        /\ DOMAIN stack' = 1 .. n \/ DOMAIN stack' = 1 .. n + 1
        /\ \A j \in 1 .. n : stack'[j] = Advanced[j]
        /\ \A j \in DOMAIN stack' \ 1 .. n : stack'[j].node = bb /\ stack'[j].it = 1 /\ bb \notin marked
        /\ bb \notin marked => \E j \in DOMAIN stack' : stack'[j].node = bb
    <2>1. CASE bb \in marked
      <3>1. stack' = Advanced /\ UNCHANGED <<loopVars, marked>>
        BY <1>1, <2>1 DEF WalkPredec
      <3>2. /\ Grown /\ Located' /\ OnePerHeader' /\ (runs <= 1 => NestedSoFar')
            /\ \A b \in Blocks : InLoop(h, b) => InLoop(h, b)'
        BY <1>1, <1>2, <3>1, FillIdle
      <3>3. \A b \in marked' : InLoop(h, b)'
        BY <1>3, <3>1, <3>2 DEF Filling
      <3> QED BY <1>4, <2>1, <3>1, <3>2, <3>3
    <2>2. CASE bb \notin marked
      <3>1. stack' = Append(Advanced, Enter(bb)) /\ ProcessLoopBBs(bb)
        BY <1>1, <2>2 DEF WalkPredec
      <3>2. /\ Grown /\ Located' /\ OnePerHeader' /\ (runs <= 1 => NestedSoFar') /\ InLoop(h, bb)'
        BY <1>1, <1>2, <1>3, <1>7, <2>2, <3>1, JoinNatural
      <3>3. marked' = marked \cup {bb}
        BY <3>1 DEF ProcessLoopBBs
      <3>4. \A b \in Blocks : InLoop(h, b) => InLoop(h, b)'
        BY <1>3, <3>2, GrownKeeps
      <3>5. \A b \in marked' : InLoop(h, b)'
        BY <1>3, <3>2, <3>3, <3>4 DEF Filling
      <3>6. /\ DOMAIN stack' = 1 .. n + 1
            /\ \A j \in 1 .. n : stack'[j] = Advanced[j]
            /\ stack'[n + 1].node = bb /\ stack'[n + 1].it = 1
        BY <1>2, <1>3, <1>7, <3>1, CallShape
      <3>7. n + 1 \in 1 .. n + 1 /\ \A j \in 1 .. n + 1 : j \in 1 .. n \/ j = n + 1
        <4>1. n \in Nat
          BY <1>4
        <4> HIDE DEF n
        <4> QED BY <4>1
      <3> QED BY <2>2, <3>2, <3>3, <3>5, <3>6, <3>7
    <2> QED BY <2>1, <2>2
  <1> HIDE DEF n
  <1>9. /\ Sources(h)' = Sources(h) /\ NaturalLoop(h)' = NaturalLoop(h) /\ Headers' = Headers
        /\ bb \notin marked => bb # h
    BY <1>3, ReferenceStays
  <1>10. ASSUME NEW j \in DOMAIN stack'
         PROVE  /\ stack'[j].node \in marked' \ {h}
                /\ \A m \in DOMAIN predec[stack'[j].node] :
                      m < stack'[j].it => predec[stack'[j].node][m] \in marked'
    <2>1. CASE j \in 1 .. n
      <3>1. j \in DOMAIN stack /\ stack'[j].node = stack[j].node /\ stack'[j].it = Advanced[j].it
        BY <1>4, <1>8, <2>1
      <3>2. stack[j].node \in marked \ {h}
        BY <1>3, <3>1 DEF Filling
      <3>3. ASSUME NEW m \in DOMAIN predec[stack[j].node], m < stack'[j].it
            PROVE  predec[stack[j].node][m] \in marked'
        <4>1. CASE m < stack[j].it
          BY <1>3, <1>8, <3>1, <4>1 DEF Filling
        <4>2. CASE ~(m < stack[j].it)
          <5>1. stack[j].it \in Nat /\ m \in Nat
            <6>1. stack[j] \in [node : Blocks, it : Nat]
              <7>1. stack \in Seq([node : Blocks, it : Nat])
                BY <1>1, <1>2, FillFacts
              <7> QED BY <2>1, <7>1, ElementOfSeq DEF n
            <6>2. predec[stack[j].node] \in Seq(Blocks)
              BY <1>3, <1>4, <2>1
            <6> QED BY <6>1, <6>2
          <5>2. j = n /\ m = stack[j].it
            BY <1>4, <2>1, <3>1, <3>3, <4>2, <5>1
          <5>3. predec[stack[j].node][m] = bb
            BY <1>1, <1>4, <5>2
          <5> QED BY <1>8, <5>3
        <4> QED BY <4>1, <4>2
      <3> QED BY <1>8, <3>1, <3>2, <3>3
    <2>2. CASE j \notin 1 .. n
      <3>1. stack'[j].node = bb /\ stack'[j].it = 1 /\ bb \notin marked
        BY <1>8, <2>2
      <3>2. \A m \in DOMAIN predec[bb] : ~(m < 1)
        <4>1. predec[bb] \in Seq(Blocks)
          BY <1>3, <1>7
        <4> QED BY <4>1
      <3> QED BY <1>8, <1>9, <3>1, <3>2
    <2> QED BY <2>1, <2>2
  <1>11. ASSUME NEW b \in marked' \ {h}
         PROVE  ToSet(predec[b]) \subseteq marked' \/ OnStack(b)'
    <2>1. CASE b \in marked
      <3>1. \A j \in DOMAIN stack : j \in DOMAIN stack' /\ stack'[j].node = stack[j].node
        BY <1>4, <1>8
      <3> QED BY <1>3, <1>8, <1>11, <2>1, <3>1 DEF Filling, OnStack
    <2>2. CASE b \notin marked
      BY <1>8, <1>11, <2>2 DEF OnStack
    <2> QED BY <2>1, <2>2
  <1>12. Filling(h)'
    <2>1. marked' \subseteq NaturalLoop(h) /\ h \in marked'
      BY <1>3, <1>7, <1>8
    <2>2. todo' \subseteq Sources(h) /\ Sources(h) \subseteq marked' \cup todo'
      BY <1>2, <1>3, <1>8 DEF Filling
    <2> QED BY <1>3, <1>8, <1>9, <1>10, <1>11, <2>1, <2>2 DEF Filling
  <1> QED BY <1>1, <1>2, <1>8, <1>12, FillKept

\* Back from a block: all that leads to it has been met.
LEMMA LeaveNatural ==
    ASSUME IInv, Orderly, NaturalInv, succ' = succ, predec' = predec, LeaveBB PROVE NaturalInv'
  <1> DEFINE n == Len(stack)
  <1>1. PICK h, v : h = rpo[at] /\ v = Top.node
    OBVIOUS
  <1>2. /\ pc = "fill" /\ pc' = "fill" /\ stack # <<>> /\ Top.it > Len(predec[v])
        /\ stack' = Front(stack)
        /\ UNCHANGED <<marked, todo, loopVars, treeVars, rpoVars, at, tree_root>>
    BY <1>1 DEF LeaveBB
  <1>3. /\ TypeOK /\ PointersRight /\ IteratorsValid /\ WellTreed
        /\ Filling(h) /\ h \in Headers /\ marked \subseteq Blocks
        /\ \A b \in Blocks : predec[b] \in Seq(Blocks)
    BY <1>1, <1>2, FillFacts
  <1>4. /\ n \in Nat \ {0} /\ DOMAIN stack = 1 .. n /\ v = stack[n].node
        /\ v \in Blocks /\ Top.it \in Nat \ {0} /\ Top.it = stack[n].it
        /\ DOMAIN stack' = 1 .. n - 1 /\ \A j \in 1 .. n - 1 : stack'[j] = stack[j]
    BY <1>1, <1>2, <1>3, AdvancedShape, FrontShape DEF Top
  <1>5. /\ Grown /\ Located' /\ OnePerHeader' /\ (runs <= 1 => NestedSoFar')
        /\ \A b \in Blocks : InLoop(h, b) => InLoop(h, b)'
    BY <1>1, <1>2, FillIdle
  <1>6. ToSet(predec[v]) \subseteq marked
    <2>1. predec[v] \in Seq(Blocks)
      BY <1>3, <1>4
    <2>2. \A m \in DOMAIN predec[v] : m < stack[n].it
      BY <1>2, <1>4, <2>1
    <2> HIDE DEF n
    <2>3. n \in DOMAIN stack
      BY <1>4
    <2>4. \A m \in DOMAIN predec[v] : predec[v][m] \in marked
      BY <1>3, <1>4, <2>2, <2>3 DEF Filling
    <2> QED BY <2>4 DEF ToSet
  <1> HIDE DEF n
  <1>7. \A j \in 1 .. n - 1 : j \in 1 .. n
    BY <1>4
  <1>8. \A j \in 1 .. n : j \in 1 .. n - 1 \/ j = n
    BY <1>4
  <1>9. ASSUME NEW b \in marked \ {h}
        PROVE  ToSet(predec[b]) \subseteq marked \/ OnStack(b)'
    <2>1. CASE b = v
      BY <1>6, <2>1
    <2>2. CASE b # v
      BY <1>3, <1>4, <1>8, <1>9, <2>2 DEF Filling, OnStack
    <2> QED BY <2>1, <2>2
  <1>10. Filling(h)'
    <2>1. /\ Sources(h)' = Sources(h) /\ NaturalLoop(h)' = NaturalLoop(h) /\ Headers' = Headers
      BY ReferenceStays
    <2>2. \A b \in marked : InLoop(h, b)'
      BY <1>3, <1>5 DEF Filling
    <2>3. \A j \in DOMAIN stack' :
             /\ stack'[j].node \in marked \ {h}
             /\ \A m \in DOMAIN predec[stack'[j].node] :
                   m < stack'[j].it => predec[stack'[j].node][m] \in marked
      BY <1>3, <1>4, <1>7 DEF Filling
    <2> QED BY <1>2, <1>3, <1>9, <2>1, <2>2, <2>3 DEF Filling
  <1> QED BY <1>1, <1>2, <1>5, <1>10, FillKept

\* The blocks of the loop in hand have all been met.
LEMMA FillOver ==
    ASSUME IInv, Orderly, NaturalInv, pc = "fill", stack = <<>>, todo = {}, NEW h, h = rpo[at]
    PROVE  h \in Headers /\ Complete(h)
  <1>1. /\ TypeOK /\ WellTreed /\ GraphGiven /\ Filling(h) /\ h \in Headers /\ h \in marked
        /\ marked \subseteq Blocks
    BY FillFacts
  <1>2. ASSUME NEW v \in marked \ {h}, NEW b \in Blocks, v \in ToSet(succ[b]) PROVE b \in marked
    <2>1. b \in ToSet(predec[v])
      BY <1>1, <1>2, EdgesMirrored
    <2>2. ~OnStack(v)
      BY DEF OnStack
    <2> QED BY <1>1, <2>1, <2>2 DEF Filling
  <1>3. Sources(h) \subseteq marked
    BY <1>1 DEF Filling
  <1>4. NaturalLoop(h) \subseteq marked
    BY <1>1, <1>2, <1>3, LoopWithin
  <1> QED BY <1>1, <1>4 DEF Filling, Complete

\* CollectLoops passes over a block, begins with a loop or is done with one.
LEMMA CollectNatural ==
    ASSUME IInv, Orderly, NaturalInv, succ' = succ, predec' = predec,
           SkipBlock \/ OpenLoop \/ CloseLoop
    PROVE  NaturalInv'
  <1>1. /\ pc \in {"collect", "fill"} /\ pc' \in {"collect", "fill"} /\ stack' = stack
        /\ UNCHANGED <<treeVars, rpoVars, loopVars, tree_root>>
    BY DEF SkipBlock, OpenLoop, CloseLoop
  <1>2. /\ TypeOK /\ PointersRight /\ IteratorsValid /\ WellTreed /\ GraphGiven
        /\ Located /\ OnePerHeader /\ AllRecorded /\ tree_pc = "done"
        /\ runs > 0 /\ (runs <= 1 => NestedSoFar) /\ Ordered /\ Collected
    BY <1>1, PassFacts DEF NaturalInv, NestingInv, NestedSoFar
  <1>3. at \in Nat /\ at <= Len(rpo) /\ Len(rpo) \in Nat /\ (pc = "fill" => at > 0)
    BY <1>1, IInvTypes DEF LoopInHand
  <1>4. /\ Grown /\ Located' /\ OnePerHeader' /\ AllRecorded' /\ Ordered'
        /\ GraphGiven' /\ tree_pc' = "done" /\ (runs > 0)' /\ runs' = runs
        /\ rpo' = rpo /\ loops' = loops /\ loop' = loop /\ Loops' = Loops
    <2>1. /\ rpo' = rpo /\ loops' = loops /\ loop' = loop /\ runs' = runs /\ tree_pc' = tree_pc
      BY <1>1 DEF rpoVars, loopVars, treeVars
    <2>2. Grown /\ Located' /\ OnePerHeader'
      BY <1>1, <1>2, UntouchedGrown, UntouchedNatural
    <2> QED BY <1>2, <2>1, <2>2, GrownKeeps, OrderedStays DEF GraphGiven, Loops
  <1>5. runs' <= 1 => NestingInv'
    <2>1. \A h \in Headers : /\ loop[h] \in Loops
                             /\ ParentOf(h) = Null \/ ParentOf(h) \in Headers
      BY <1>2, HeaderLoop, ParentTyped
    <2>2. NestedSoFar => NestedSoFar'
      BY <1>1, <1>4, <2>1, NestedSoFarStays
    <2> QED BY <1>1, <1>2, <1>4, <2>2 DEF NestingInv, NestedSoFar
  <1>6. Headers' = Headers /\ (\A h : Sources(h)' = Sources(h) /\ NaturalLoop(h)' = NaturalLoop(h))
        /\ \A h \in Headers : Complete(h) => Complete(h)'
    BY <1>2, <1>4, ReferenceStays, GrownKeeps
  <1>7. CASE SkipBlock
    <2>1. pc' = "collect" /\ stack' = <<>> /\ at > 0 /\ at' = at - 1
          /\ ~(IsHeader(rpo[at]) /\ loops[loop[rpo[at]]].reducible)
      BY <1>1, <1>7 DEF SkipBlock, NaturalInv
    <2>2. rpo[at] \notin Headers
      BY <1>2, <2>1, HeaderLoop DEF IsHeader
    <2>3. \A j \in at' + 1 .. Len(rpo) : j = at \/ j \in at + 1 .. Len(rpo)
      BY <1>3, <2>1
    <2>4. Collected'
      BY <1>2, <1>4, <1>6, <2>2, <2>3 DEF Collected
    <2> QED BY <1>4, <1>5, <2>1, <2>4 DEF NaturalInv
  <1>8. CASE OpenLoop
    <2>1. PICK h : h = rpo[at]
      OBVIOUS
    <2>2. /\ pc' = "fill" /\ at > 0 /\ at' = at /\ marked' = {h} /\ todo' = loops[loop[h]].back
          /\ IsHeader(h) /\ stack = <<>> /\ stack' = <<>>
      BY <1>1, <1>8, <2>1 DEF OpenLoop, NaturalInv
    <2>3. h \in Headers
      <3>1. h \in Blocks /\ h # Null
        <4>1. h \in Blocks
          BY <1>3, <2>1, <2>2, IInvTypes
        <4> QED BY <4>1, CfgAssumption
      <3>2. loop[h] \in Loops /\ loops[loop[h]].header = h
        BY <1>2, <2>2, <3>1, LoopTypes DEF IsHeader
      <3> QED BY <1>2, <3>1, <3>2 DEF OnePerHeader
    <2>4. todo' = Sources(h) /\ loop[h] # Null /\ h \in NaturalLoop(h)
      BY <1>2, <2>2, <2>3, HeaderLoop, HeaderInnermost
    <2>5. InLoop(h, h)'
      BY <1>4, <2>4 DEF InLoop
    <2>6. Filling(h)'
      BY <1>6, <2>2, <2>3, <2>4, <2>5 DEF Filling
    <2>7. Filling(rpo[at])'
      <3>1. rpo'[at'] = h
        BY <1>4, <2>1, <2>2
      <3> QED BY <2>6, <3>1
    <2>8. Collected'
      BY <1>2, <1>4, <2>2, CollectedStays
    <2> QED BY <1>4, <1>5, <2>2, <2>7, <2>8 DEF NaturalInv
  <1>9. CASE CloseLoop
    <2>1. PICK h : h = rpo[at]
      OBVIOUS
    <2>2. pc = "fill" /\ pc' = "collect" /\ stack = <<>> /\ todo = {} /\ at' = at - 1
      BY <1>9 DEF CloseLoop
    <2>3. h \in Headers /\ Complete(h)
      BY <2>1, <2>2, FillOver
    <2>4. \A j \in at' + 1 .. Len(rpo) : j = at \/ j \in at + 1 .. Len(rpo)
      BY <1>3, <2>2
    <2>5. ASSUME NEW j \in at' + 1 .. Len(rpo), NEW g \in Headers, rpo[j] = g PROVE Complete(g)
      BY <1>2, <2>1, <2>3, <2>4, <2>5 DEF Collected
    <2>6. Collected'
      <3>1. ASSUME NEW j \in at' + 1 .. Len(rpo), NEW g, g = rpo[j], g \in Headers PROVE Complete(g)'
        BY <1>6, <2>5, <3>1
      <3> QED BY <1>4, <1>6, <3>1 DEF Collected
    <2> QED BY <1>1, <1>4, <1>5, <2>2, <2>6 DEF NaturalInv
  <1> QED BY <1>7, <1>8, <1>9

-----------------------------------------------------------------------------
(* The root loop.                                                          *)

\* New loops without edges, whatever the root of the tree is.
LEMMA RootNested ==
    ASSUME TypeOK, PointersRight, WellTreed, Ordered, succ' = succ, Loops \subseteq Loops',
           \A i \in Loops : loops'[i].succ = loops[i].succ /\ loops'[i].predec = loops[i].predec,
           \A i \in Loops' \ Loops : loops'[i].succ = <<>> /\ loops'[i].predec = <<>>,
           \A h \in Headers : loop[h] \in Loops /\ loop'[h] = loop[h]
    PROVE  NestedSoFar => NestedSoFar'
  <1> SUFFICES ASSUME NestedSoFar PROVE NestedSoFar'
    OBVIOUS
  <1>1. Headers' = Headers /\ \A h : ParentOf(h)' = ParentOf(h)
    BY ReferenceStays
  <1>2. ASSUME NEW h \in Headers
        PROVE  /\ loops'[loop'[h]].predec \in {<<>>, <<ParentLoop(h)'>>}
               /\ ParentOf(h) = Null => loops'[loop'[h]].predec = <<>>
    <2>1. loops'[loop'[h]].predec = loops[loop[h]].predec
      BY <1>2
    <2>2. CASE ParentOf(h) = Null
      BY <1>2, <2>1, <2>2 DEF NestedSoFar
    <2>3. CASE ParentOf(h) # Null
      <3>1. PICK q : q = ParentOf(h)
        OBVIOUS
      <3>2. q \in Headers /\ q # Null
        BY <1>2, <2>3, <3>1, ParentTyped
      <3>3. ParentLoop(h)' = loop'[q] /\ ParentLoop(h) = loop[q] /\ loop'[q] = loop[q]
        BY <1>1, <3>1, <3>2 DEF ParentLoop
      <3> QED BY <1>2, <2>1, <2>3, <3>3 DEF NestedSoFar, Hanging
    <2> QED BY <2>2, <2>3
  <1>3. \A i \in Loops : ToSet(loops[i].succ) \subseteq Loops /\ ToSet(loops[i].predec) \subseteq Loops
    BY LoopTypes, Entries
  <1>4. \A i \in Loops' : /\ loops'[i].succ = IF i \in Loops THEN loops[i].succ ELSE <<>>
                          /\ loops'[i].predec = IF i \in Loops THEN loops[i].predec ELSE <<>>
    OBVIOUS
  <1>5. NoDuplicates(<<>>) /\ ToSet(<<>>) = {}
    BY DEF NoDuplicates, ToSet
  <1>6. \A i \in Loops : /\ NoDuplicates(loops[i].succ) /\ NoDuplicates(loops[i].predec)
                         /\ \A j \in Loops : j \in ToSet(loops[i].succ) <=> i \in ToSet(loops[j].predec)
    BY DEF NestedSoFar, Hanging, MirroredEdges, Occurs
  <1>7. \A i \in Loops' : NoDuplicates(loops'[i].succ) /\ NoDuplicates(loops'[i].predec)
    BY <1>4, <1>5, <1>6
  <1>8. \A i, j \in Loops' : j \in ToSet(loops'[i].succ) <=> i \in ToSet(loops'[j].predec)
    BY <1>3, <1>4, <1>5, <1>6
  <1>9. MirroredEdges([i \in Loops |-> loops[i].succ], [i \in Loops |-> loops[i].predec])'
    BY <1>7, <1>8 DEF MirroredEdges, Occurs
  <1> QED BY <1>1, <1>2, <1>9 DEF NestedSoFar, Hanging

\* CollectRootLoop on a block: ls is loops, maybe with a new root loop, and id
\* that root loop.
LEMMA RootJoin ==
    ASSUME TypeOK, PointersRight, WellTreed, Located, OnePerHeader, AllRecorded, Ordered,
           succ' = succ, \A h \in Headers : Complete(h),
           NEW ls, ls \in Seq(Objects(Len(ls))), NEW id \in 1 .. Len(ls), Loops \subseteq 1 .. Len(ls),
           \A i \in Loops : ls[i] = loops[i],
           \A i \in 1 .. Len(ls) \ Loops : i = id /\ ls[i].succ = <<>> /\ ls[i].predec = <<>>,
           ls[id].header = Null,
           NEW bb \in Reachable, ProcessRootBB(ls, id, bb)
    PROVE  /\ Grown /\ Located' /\ OnePerHeader' /\ loops'[id].header = Null
           /\ NestedSoFar => NestedSoFar'
  <1>1. /\ DOMAIN loop = Blocks /\ bb \in Blocks /\ Len(ls) \in Nat /\ DOMAIN ls = 1 .. Len(ls)
        /\ \A b \in Blocks : loop[b] # Null => loop[b] \in Loops
        /\ \A h \in Headers : h \in Blocks /\ loop[h] \in Loops /\ loop[h] # Null
        /\ id # Null
    <2>1. Len(ls) \in Nat /\ DOMAIN ls = 1 .. Len(ls)
      OBVIOUS
    <2>2. id # Null
      BY <2>1, CfgAssumption
    <2> QED BY <2>1, <2>2, LoopTypes, GraphTyped, HeaderLoop
  <1>2. /\ Loops' = 1 .. Len(ls)
        /\ \A i \in 1 .. Len(ls) : SameLoop(ls[i], loops'[i]) /\ loops'[i].back = ls[i].back
        /\ \A b \in Blocks :
              loop'[b] = IF b = bb /\ loop[bb] = Null THEN id ELSE loop[b]
    <2>1. CASE loop[bb] = Null
      <3>1. loops' = InsertedLoopBB(ls, id, bb) /\ loop' = [loop EXCEPT ![bb] = id]
        BY <2>1 DEF ProcessRootBB
      <3>2. LET ls2 == InsertedLoopBB(ls, id, bb)
            IN /\ DOMAIN ls2 = 1 .. Len(ls)
               /\ \A i \in 1 .. Len(ls) : SameLoop(ls[i], ls2[i]) /\ ls2[i].back = ls[i].back
        BY InsertedFields
      <3> QED BY <1>1, <2>1, <3>1, <3>2 DEF Loops
    <2>2. CASE loop[bb] # Null
      <3>1. loops' = ls /\ loop' = loop
        BY <2>2 DEF ProcessRootBB
      <3> QED BY <1>1, <2>2, <3>1 DEF Loops, SameLoop
    <2> QED BY <2>1, <2>2
  <1>3. Grown
    BY <1>1, <1>2 DEF Grown, SameLoop
  <1>4. loops'[id].header = Null
    BY <1>2 DEF SameLoop
  <1>5. loop[bb] = Null => Innermost(bb, Headers) = Null
    BY InnermostNone DEF Complete, InLoop
  <1>6. Located' /\ OnePerHeader'
    <2>1. \A b \in Blocks :
             \/ loop'[b] = loop[b]
             \/ b \in Reachable /\ loops'[loop'[b]].header = Innermost(b, Headers)
      BY <1>2, <1>4, <1>5
    <2>2. \A i \in Loops' \ Loops : loops'[i].header = Null
      BY <1>2, <1>4
    <2>3. \A i \in Loops : loops[i].header # Null => loops'[i].back \subseteq Sources(loops[i].header)
      BY <1>2 DEF OnePerHeader
    <2> QED BY <1>3, <2>1, <2>2, <2>3, StillNatural
  <1>7. NestedSoFar => NestedSoFar'
    <2>1. Loops \subseteq Loops'
      BY <1>2
    <2>2. \A i \in Loops : loops'[i].succ = loops[i].succ /\ loops'[i].predec = loops[i].predec
      BY <1>2 DEF SameLoop
    <2>3. \A i \in Loops' \ Loops : loops'[i].succ = <<>> /\ loops'[i].predec = <<>>
      BY <1>2 DEF SameLoop
    <2>4. \A h \in Headers : loop[h] \in Loops /\ loop'[h] = loop[h]
      BY <1>1, <1>2
    <2> QED BY <2>1, <2>2, <2>3, <2>4, RootNested
  <1> QED BY <1>3, <1>4, <1>6, <1>7

\* What is known once every loop is complete.
LEMMA RootFacts ==
    ASSUME IInv, Orderly, NaturalInv, pc \in {"root", "assign"}
    PROVE  /\ TypeOK /\ PointersRight /\ IteratorsValid /\ WellTreed /\ GraphGiven
           /\ Located /\ OnePerHeader /\ AllRecorded /\ Ordered /\ tree_pc = "done"
           /\ runs \in Nat /\ runs > 0 /\ (runs <= 1 => NestingInv)
           /\ \A h \in Headers : Complete(h)
           /\ tree_root \in Loops /\ loops[tree_root].header = Null
  <1>1. tree_root # Null /\ loops[tree_root].header = Null /\ \A h \in Headers : Complete(h)
    BY DEF NaturalInv
  <1>2. tree_root \in Loops
    BY <1>1, IInvTypes DEF TypeOK, MaybeLoop
  <1> QED BY <1>1, <1>2, PassFacts

\* A step of CollectRootLoop that has joined a block to the root loop.
LEMMA RootKept ==
    ASSUME IInv, Orderly, NaturalInv, succ' = succ, predec' = predec, pc \in {"collect", "root"},
           pc' = "root", UNCHANGED <<treeVars, rpoVars>>, \A h \in Headers : Complete(h),
           Grown, Located', OnePerHeader', NestedSoFar => NestedSoFar',
           NEW id, tree_root' = id, id # Null, loops'[id].header = Null
    PROVE  NaturalInv'
  <1>1. /\ TypeOK /\ PointersRight /\ WellTreed /\ GraphGiven /\ AllRecorded /\ Ordered
        /\ tree_pc = "done" /\ runs > 0 /\ (runs <= 1 => NestedSoFar)
    BY PassFacts DEF NestingInv, NestedSoFar
  <1>2. /\ tree_pc' = "done" /\ runs' = runs /\ (runs > 0)' /\ rpo' = rpo /\ GraphGiven'
    BY <1>1 DEF treeVars, rpoVars, GraphGiven
  <1>3. AllRecorded' /\ Ordered' /\ Headers' = Headers /\ \A h \in Headers : Complete(h)'
    BY <1>1, <1>2, GrownKeeps, OrderedStays, ReferenceStays
  <1>4. runs' <= 1 => NestingInv'
    BY <1>1, <1>2 DEF NestingInv, NestedSoFar
  <1> QED BY <1>2, <1>3, <1>4 DEF NaturalInv

\* The root loop is made, and the first block joins it.
LEMMA NewRootNatural ==
    ASSUME IInv, Orderly, NaturalInv, succ' = succ, predec' = predec, NewRootLoop
    PROVE  NaturalInv'
  <1> DEFINE ls == Append(loops, NewLoop(Null, FALSE))
             n == Len(loops)
  <1>1. /\ pc = "collect" /\ at = 0 /\ pc' = "root" /\ tree_root' = n + 1
        /\ ProcessRootBB(ls, n + 1, Root) /\ UNCHANGED <<treeVars, rpoVars>>
    BY DEF NewRootLoop
  <1>2. /\ TypeOK /\ PointersRight /\ WellTreed /\ Located /\ OnePerHeader /\ AllRecorded
        /\ Ordered /\ Collected
    BY <1>1, PassFacts DEF NaturalInv
  <1>3. /\ n \in Nat /\ Loops = 1 .. n /\ loops \in Seq(Objects(n))
    BY <1>2, LoopTypes
  <1>4. ls \in Seq(Objects(n + 1)) /\ Len(ls) = n + 1 /\ ls[n + 1].header = Null
    <2>1. n \in Nat /\ loops \in Seq(Objects(n)) /\ Null \in MaybeBlock /\ FALSE \in BOOLEAN
      BY <1>3 DEF MaybeBlock
    <2> QED BY <2>1, NewLoopFacts
  <1>5. /\ \A i \in 1 .. n : ls[i] = loops[i]
        /\ ls[n + 1].succ = <<>> /\ ls[n + 1].predec = <<>>
    <2>1. PICK o : o = NewLoop(Null, FALSE)
      OBVIOUS
    <2>2. Append(loops, o)[n + 1] = o /\ \A i \in 1 .. n : Append(loops, o)[i] = loops[i]
      BY <1>3
    <2>3. o.succ = <<>> /\ o.predec = <<>>
      BY <2>1 DEF NewLoop
    <2> QED BY <2>1, <2>2, <2>3
  <1> HIDE DEF ls, n
  <1>6. /\ 1 .. n \subseteq 1 .. n + 1 /\ n + 1 \in 1 .. n + 1 /\ n + 1 # Null
        /\ \A i \in 1 .. n + 1 : i \notin 1 .. n => i = n + 1
    BY <1>3, CfgAssumption
  <1>7. ASSUME NEW h \in Headers PROVE Complete(h)
    <2>1. h \in Reachable
      BY DEF Headers
    <2>2. DOMAIN rpo = 1 .. Len(rpo)
      BY <1>2 DEF TypeOK
    <2>3. PICK j \in 1 .. Len(rpo) : rpo[j] = h
      BY <1>2, <2>1, <2>2 DEF Ordered, ToSet
    <2>4. j \in at + 1 .. Len(rpo)
      BY <1>1
    <2> QED BY <1>2, <2>3, <2>4 DEF Collected
  <1>8. /\ Grown /\ Located' /\ OnePerHeader' /\ loops'[n + 1].header = Null
        /\ NestedSoFar => NestedSoFar'
    <2>1. Root \in Reachable
      BY <1>2, GraphTyped
    <2> QED BY <1>1, <1>2, <1>3, <1>4, <1>5, <1>6, <1>7, <2>1, RootJoin
  <1> QED BY <1>1, <1>6, <1>7, <1>8, RootKept

\* CollectRootLoop goes on to a successor.
LEMMA RootSuccNatural ==
    ASSUME IInv, Orderly, NaturalInv, succ' = succ, predec' = predec, WalkSucc PROVE NaturalInv'
  <1>1. PICK u, v : u = Top.node /\ v = Successor
    OBVIOUS
  <1>2. /\ pc = "root" /\ pc' = "root" /\ AtSuccessor
        /\ UNCHANGED <<treeVars, rpoVars, tree_root>>
    BY DEF WalkSucc
  <1>3. /\ TypeOK /\ PointersRight /\ IteratorsValid /\ WellTreed /\ Located /\ OnePerHeader
        /\ AllRecorded /\ Ordered /\ (\A h \in Headers : Complete(h))
        /\ tree_root \in Loops /\ loops[tree_root].header = Null
        /\ Loops = 1 .. Len(loops) /\ loops \in Seq(Objects(Len(loops))) /\ tree_root # Null
    BY <1>2, RootFacts, LoopTypes DEF NaturalInv
  <1>4. v \in Reachable
    <2>1. stack # <<>> /\ u \in Blocks /\ Top.it \in DOMAIN succ[u] /\ v \in Blocks
      BY <1>1, <1>2, <1>3, SuccessorFacts
    <2>2. u \in marked /\ loop[u] # Null
      <3>1. PICK m : m = Len(stack)
        OBVIOUS
      <3>2. m \in Nat \ {0} /\ DOMAIN stack = 1 .. m
        BY <1>3, <2>1, <3>1, AdvancedShape
      <3>3. m \in DOMAIN stack /\ stack[m].node = u
        BY <1>1, <3>1, <3>2 DEF Top
      <3> QED BY <1>2, <3>3 DEF IInv, RootWalk
    <2>3. u \in Reachable
      BY <1>3, <2>1, <2>2 DEF Located
    <2>4. v \in ToSet(succ[u])
      BY <1>1, <2>1 DEF Successor, ToSet
    <2> QED BY <1>3, <2>1, <2>3, <2>4, GraphTyped, ReachEdge, ReachTransitive DEF Reachable
  <1>5. /\ Grown /\ Located' /\ OnePerHeader' /\ loops'[tree_root].header = Null
        /\ NestedSoFar => NestedSoFar'
    <2>1. CASE v \in marked
      <3>1. UNCHANGED loopVars
        BY <1>1, <2>1 DEF WalkSucc
      <3>2. \A h \in Headers : /\ loop[h] \in Loops
                               /\ ParentOf(h) = Null \/ ParentOf(h) \in Headers
        BY <1>3, HeaderLoop, ParentTyped
      <3>3. loops' = loops /\ loop' = loop /\ Loops' = Loops
        BY <3>1 DEF loopVars, Loops
      <3>4. NestedSoFar => NestedSoFar'
        BY <1>2, <3>2, <3>3, NestedSoFarStays
      <3> QED BY <1>3, <3>1, <3>3, <3>4, UntouchedGrown, UntouchedNatural
    <2>2. CASE v \notin marked
      <3>1. ProcessRootBB(loops, tree_root, v)
        BY <1>1, <2>2 DEF WalkSucc
      <3> QED BY <1>3, <1>4, <3>1, RootJoin
    <2> QED BY <2>1, <2>2
  <1>6. PICK id : id = tree_root
    OBVIOUS
  <1>7. tree_root' = id /\ id # Null /\ loops'[id].header = Null
    BY <1>2, <1>3, <1>5, <1>6
  <1> QED BY <1>2, <1>3, <1>5, <1>7, RootKept

\* CollectRootLoop returns from a block, or altogether.
LEMMA RootReturnNatural ==
    ASSUME IInv, Orderly, NaturalInv, succ' = succ, predec' = predec, LeaveRootBB \/ BeginAssign
    PROVE  NaturalInv'
  <1>1. /\ pc = "root" /\ UNCHANGED <<treeVars, rpoVars, loopVars, tree_root>>
        /\ pc' = "root" \/ (pc' = "assign" /\ at' = 1)
    BY DEF LeaveRootBB, BeginAssign
  <1>2. /\ TypeOK /\ PointersRight /\ WellTreed /\ GraphGiven /\ Located /\ OnePerHeader
        /\ AllRecorded /\ Ordered /\ tree_pc = "done" /\ runs > 0 /\ (runs <= 1 => NestedSoFar)
        /\ \A h \in Headers : Complete(h)
        /\ tree_root # Null /\ loops[tree_root].header = Null
    BY <1>1, RootFacts DEF NestingInv, NestedSoFar, NaturalInv
  <1>3. /\ loops' = loops /\ loop' = loop /\ Loops' = Loops /\ rpo' = rpo /\ tree_root' = tree_root
        /\ tree_pc' = "done" /\ runs' = runs /\ (runs > 0)' /\ GraphGiven'
    BY <1>1, <1>2 DEF loopVars, Loops, rpoVars, treeVars, GraphGiven
  <1>4. Grown /\ Located' /\ OnePerHeader'
    BY <1>1, <1>2, UntouchedGrown, UntouchedNatural
  <1>5. AllRecorded' /\ Ordered' /\ Headers' = Headers /\ \A h \in Headers : Complete(h)'
    BY <1>2, <1>3, <1>4, GrownKeeps, OrderedStays, ReferenceStays
  <1>6. NestedSoFar => NestedSoFar'
    <2>1. \A h \in Headers : /\ loop[h] \in Loops
                             /\ ParentOf(h) = Null \/ ParentOf(h) \in Headers
      BY <1>2, HeaderLoop, ParentTyped
    <2> QED BY <1>3, <2>1, NestedSoFarStays
  <1>7. runs' <= 1 => NestingInv'
    BY <1>1, <1>2, <1>3, <1>6 DEF NestingInv, NestedSoFar
  <1> QED BY <1>1, <1>2, <1>3, <1>4, <1>5, <1>7 DEF NaturalInv

\* AssignRootLoop comes to the next block.
LEMMA AssignNatural ==
    ASSUME IInv, Orderly, NaturalInv, succ' = succ, predec' = predec, AssignRootLoop
    PROVE  NaturalInv'
  <1>1. PICK h : h = rpo[at]
    OBVIOUS
  <1>2. /\ pc = "assign" /\ pc' = "assign" /\ at <= Len(rpo) /\ at' = at + 1 /\ loop' = loop
        /\ UNCHANGED <<treeVars, rpoVars, tree_root>>
    BY DEF AssignRootLoop
  <1>3. /\ TypeOK /\ PointersRight /\ WellTreed /\ GraphGiven /\ Located /\ OnePerHeader
        /\ AllRecorded /\ Ordered /\ tree_pc = "done" /\ runs > 0 /\ (runs <= 1 => NestingInv)
        /\ (\A g \in Headers : Complete(g))
        /\ tree_root \in Loops /\ loops[tree_root].header = Null /\ tree_root # Null
    BY <1>2, RootFacts, LoopTypes
  <1>4. at \in 1 .. Len(rpo) /\ at \in Nat /\ h \in Blocks /\ h # Null
    <2>1. at \in 1 .. Len(rpo) /\ at \in Nat
      BY <1>2, IInvTypes DEF LoopInHand
    <2> QED BY <1>1, <2>1, IInvTypes, CfgAssumption
  <1>5. /\ tree_pc' = "done" /\ runs' = runs /\ (runs > 0)' /\ GraphGiven'
        /\ rpo' = rpo /\ tree_root' = tree_root /\ Headers' = Headers
    BY <1>2, <1>3, ReferenceStays DEF treeVars, rpoVars, GraphGiven
  <1>6. \A g \in Headers : loop[g] \in Loops /\ loop[g] # Null /\ loops[loop[g]].header = g
                           /\ loops[loop[g]].reducible
    BY <1>3, HeaderLoop
  <1>7. /\ Grown /\ Located' /\ OnePerHeader' /\ loops'[tree_root].header = Null
        /\ runs <= 1 => Hanging'
        /\ h \in Headers => loops'[loop[h]].predec # <<>>
        /\ \A g \in Headers : loops[loop[g]].predec # <<>> => loops'[loop[g]].predec # <<>>
    <2>1. CASE IsHeader(h) /\ loops[loop[h]].predec = <<>>
      <3>1. loops' = Nested(loops, tree_root, loop[h])
        BY <1>1, <2>1 DEF AssignRootLoop
      <3>2. h \in Headers
        <4>1. loop[h] \in Loops /\ loops[loop[h]].header = h
          BY <1>3, <1>4, <2>1, LoopTypes DEF IsHeader
        <4> QED BY <1>3, <1>4, <4>1 DEF OnePerHeader
      <3>3. tree_root # loop[h]
        BY <1>3, <1>4, <1>6, <3>2
      <3>4. /\ Grown /\ Located' /\ OnePerHeader'
            /\ loops'[loop[h]].predec = <<tree_root>>
            /\ \A g \in Headers : g # h => loops'[loop[g]].predec = loops[loop[g]].predec
            /\ Hanging /\ ParentLoop(h) = tree_root => Hanging'
        BY <1>2, <1>3, <1>5, <2>1, <3>1, <3>2, <3>3, NestedNatural
      <3>5. ParentOf(h) = Null
        <4> SUFFICES ASSUME ParentOf(h) # Null PROVE FALSE
          OBVIOUS
        <4>1. PICK q : q = ParentOf(h)
          OBVIOUS
        <4>2. q \in Headers /\ h \in Headers \ {q} /\ h \in NaturalLoop(q)
          BY <1>3, <3>2, <4>1, ParentTyped
        <4>3. loops[loop[h]].predec # <<>>
          BY <1>3, <4>2 DEF Complete, InLoop
        <4> QED BY <2>1, <4>3
      <3>6. runs <= 1 => Hanging'
        BY <1>2, <1>3, <3>4, <3>5 DEF NestingInv, ParentLoop
      <3>7. loops'[tree_root].header = Null
        BY <1>3, <3>4 DEF Grown
      <3>8. loops'[loop[h]].predec # <<>>
        BY <3>4
      <3>9. \A g \in Headers : loops[loop[g]].predec # <<>> => loops'[loop[g]].predec # <<>>
        BY <3>4, <3>8
      <3> QED BY <3>4, <3>6, <3>7, <3>8, <3>9
    <2>2. CASE ~(IsHeader(h) /\ loops[loop[h]].predec = <<>>)
      <3>1. loops' = loops
        BY <1>1, <2>2 DEF AssignRootLoop
      <3>2. UNCHANGED loopVars
        BY <1>2, <3>1 DEF loopVars
      <3>3. Grown /\ Located' /\ OnePerHeader' /\ (Hanging => Hanging')
        BY <1>3, <1>5, <3>2, UntouchedGrown, UntouchedNatural
      <3>4. h \in Headers => loops[loop[h]].predec # <<>>
        BY <1>6, <2>2 DEF IsHeader
      <3> QED BY <1>2, <1>3, <3>1, <3>3, <3>4 DEF NestingInv
    <2> QED BY <2>1, <2>2
  <1>8. AllRecorded' /\ Ordered' /\ \A g \in Headers : Complete(g)'
    BY <1>3, <1>5, <1>7, GrownKeeps, OrderedStays
  <1>9. runs' <= 1 => NestingInv'
    <2> SUFFICES ASSUME runs <= 1 PROVE NestingInv'
      BY <1>5
    <2>1. ASSUME NEW j \in 1 .. Len(rpo), j < at + 1, NEW g, g = rpo[j], g \in Headers
          PROVE  loops'[loop[g]].predec # <<>>
      <3>1. CASE j = at
        BY <1>1, <1>7, <2>1, <3>1
      <3>2. CASE j # at
        <4>1. j < at
          BY <1>4, <2>1, <3>2
        <4> QED BY <1>2, <1>3, <1>7, <2>1, <4>1 DEF NestingInv, HungInRoot
      <3> QED BY <3>1, <3>2
    <2> QED BY <1>2, <1>5, <1>7, <2>1 DEF NestingInv, HungInRoot
  <1> QED BY <1>2, <1>3, <1>5, <1>7, <1>8, <1>9 DEF NaturalInv

\* Run returns.
LEMMA FinishNatural ==
    ASSUME IInv, Orderly, NaturalInv, succ' = succ, predec' = predec, Finish
    PROVE  NaturalInv'
  <1>1. /\ pc = "assign" /\ pc' = "done" /\ at > Len(rpo)
        /\ UNCHANGED <<treeVars, rpoVars, loopVars, tree_root>>
    BY DEF Finish
  <1>2. /\ TypeOK /\ PointersRight /\ WellTreed /\ GraphGiven /\ Located /\ OnePerHeader
        /\ AllRecorded /\ Ordered /\ tree_pc = "done" /\ runs > 0 /\ (runs <= 1 => NestingInv)
        /\ (\A g \in Headers : Complete(g)) /\ Len(rpo) \in Nat /\ at \in Nat
    BY <1>1, RootFacts, IInvTypes
  <1>3. /\ loops' = loops /\ loop' = loop /\ tree_root' = tree_root /\ Headers' = Headers
        /\ tree_pc' = "done" /\ runs' = runs /\ (runs > 0)' /\ GraphGiven'
    BY <1>1, <1>2, ReferenceStays DEF loopVars, treeVars, GraphGiven
  <1>4. Grown /\ Located' /\ OnePerHeader' /\ (Hanging => Hanging')
    BY <1>1, <1>2, UntouchedGrown, UntouchedNatural
  <1>5. AllRecorded' /\ \A g \in Headers : Complete(g)'
    BY <1>2, <1>4, GrownKeeps
  <1>6. runs <= 1 => \A g \in Headers : loops[loop[g]].predec # <<>>
    <2> SUFFICES ASSUME runs <= 1, NEW g \in Headers PROVE loops[loop[g]].predec # <<>>
      OBVIOUS
    <2>1. DOMAIN rpo = 1 .. Len(rpo)
      BY <1>2 DEF TypeOK
    <2>2. PICK j \in 1 .. Len(rpo) : rpo[j] = g
      BY <1>2, <2>1 DEF Ordered, ToSet, Headers
    <2>3. j < at
      BY <1>1, <1>2
    <2> QED BY <1>1, <1>2, <2>2, <2>3 DEF NestingInv, HungInRoot
  <1>7. runs' <= 1 => NestingInv'
    BY <1>1, <1>2, <1>3, <1>4, <1>6 DEF NestingInv, HungInRoot
  <1> QED BY <1>1, <1>3, <1>4, <1>5, <1>7 DEF NaturalInv

\* Nothing happens.
LEMMA StutterNatural ==
    ASSUME IInv, Orderly, NaturalInv, UNCHANGED vars PROVE NaturalInv'
  <1>1. /\ UNCHANGED <<succ, predec, tree_pc, runs, rpo, loop, loops, marked, grays, stack, at, todo,
                       tree_root, pc>>
        /\ UNCHANGED loopVars /\ Loops' = Loops
    BY DEF vars, treeVars, rpoVars, loopVars, walkVars, Loops
  <1>2. /\ TypeOK /\ PointersRight /\ WellTreed /\ Located /\ OnePerHeader
    BY IInvTypes DEF Orderly, NaturalInv
  <1>3. Grown /\ Located' /\ OnePerHeader' /\ (Unnested => Unnested') /\ (Hanging => Hanging')
    BY <1>1, <1>2, UntouchedGrown, UntouchedNatural
  <1>4. /\ AllRecorded => AllRecorded'
        /\ Ordered => Ordered'
        /\ Collected => Collected'
        /\ Headers' = Headers /\ \A h \in Headers : Complete(h) => Complete(h)'
        /\ \A b \in Blocks : \A h : InLoop(h, b) => InLoop(h, b)'
    BY <1>1, <1>2, <1>3, GrownKeeps, OrderedStays, CollectedStays, ReferenceStays
  <1>5. pc = "dfs" => (GrayPath /\ Searched)'
    <2>1. /\ Reachable' = Reachable /\ \A S : ForwardClosed(S)' <=> ForwardClosed(S)
          /\ \A u, v : IsBackEdge(u, v)' <=> IsBackEdge(u, v)
      BY <1>1, ReferenceStays DEF ForwardClosed
    <2>2. \A u, v : Handled(u, v)' <=> Handled(u, v)
      BY <1>1, <2>1 DEF Handled, Recorded
    <2>3. GrayPath => GrayPath'
      BY <1>1, <2>1 DEF GrayPath, OnStack
    <2>4. Searched => Searched'
      BY <1>1, <2>1, <2>2 DEF Searched
    <2> QED BY <2>3, <2>4 DEF NaturalInv
  <1>6. pc = "fill" => Filling(rpo[at])'
    <2> SUFFICES ASSUME pc = "fill" PROVE Filling(rpo[at])'
      OBVIOUS
    <2>1. PICK h : h = rpo[at]
      OBVIOUS
    <2>2. Filling(h) /\ marked \subseteq Blocks
      BY <2>1, IInvTypes DEF NaturalInv
    <2>3. Sources(h)' = Sources(h) /\ NaturalLoop(h)' = NaturalLoop(h)
      BY <1>1, ReferenceStays
    <2>4. \A b \in marked : InLoop(h, b)'
      BY <1>4, <2>2 DEF Filling
    <2>5. Filling(h)'
      BY <1>1, <1>4, <2>2, <2>3, <2>4 DEF Filling, OnStack
    <2>6. rpo'[at'] = h
      BY <1>1, <2>1
    <2> QED BY <2>5, <2>6
  <1>7. NestingInv => NestingInv'
    <2>1. \A h : ParentOf(h)' = ParentOf(h)
      BY <1>1, ReferenceStays
    <2> QED BY <1>1, <1>3, <1>4, <2>1 DEF NestingInv, HungInRoot
  <1>8. GraphGiven'
    BY <1>1 DEF GraphGiven, NaturalInv
  <1>9. \A h \in Headers : Complete(h) => Complete(h)'
    BY <1>4
  <1> QED BY <1>1, <1>3, <1>4, <1>5, <1>6, <1>7, <1>8 DEF NaturalInv
-----------------------------------------------------------------------------
(* The theorems.                                                           *)

\* The graph has the same predecessors from step to step.
LEMMA PredecStays == [Next]_vars => predec' = predec
  <1>1. Tree!Run => predec' = predec
    BY DEF Tree!Run, Tree!graphVars
  <1>2. Tree!Steps => predec' = predec
    BY <1>1 DEF Tree!Steps, Tree!CallDFS, Tree!PassOver, Tree!Return, Tree!MakeForest,
                Tree!EvalPredec, Tree!LinkVertex, Tree!EmptyBucket, Tree!NextVertex, Tree!FixDom,
                Tree!ClearRootDom, Tree!BuildVertex, Tree!Finish, Tree!graphVars
  <1>3. UNCHANGED treeVars => predec' = predec
    BY DEF treeVars
  <1> QED BY <1>1, <1>2, <1>3, TreeRuns

\* What DomTree says of its result, in the words of this module.
LEMMA TreeResult ==
    /\ TreeProofs!HasUnreachablePredec <=> Tree!HasUnreachablePredec
    /\ TreeProofs!ListsNeverMissDominance => Tree!ListsNeverMissDominance
  <1>1. TreeProofs!Reachable = Tree!Reachable
    BY Zenon DEF Tree!Reachable, TreeProofs!Reachable, Tree!ReachFrom, TreeProofs!ReachFrom,
                 Tree!Closed, TreeProofs!Closed, Tree!ToSet, TreeProofs!ToSet
  <1>2. TreeProofs!HasUnreachablePredec <=> Tree!HasUnreachablePredec
    BY <1>1, Zenon DEF Tree!HasUnreachablePredec, TreeProofs!HasUnreachablePredec, Tree!ToSet,
                       TreeProofs!ToSet
  <1>3. TreeProofs!NumbersTwice <=> Tree!NumbersTwice
    BY Zenon DEF Tree!NumbersTwice, TreeProofs!NumbersTwice, Tree!ReachAvoiding,
                 TreeProofs!ReachAvoiding, Tree!ClosedExcept, TreeProofs!ClosedExcept,
                 Tree!ToSet, TreeProofs!ToSet
  <1>4. TreeProofs!ListsNeverMissDominance => Tree!ListsNeverMissDominance
    BY <1>1, <1>3, Zenon
       DEF Tree!ListsNeverMissDominance, TreeProofs!ListsNeverMissDominance,
           Tree!IsDominated, TreeProofs!IsDominated, Tree!StrictlyDominates,
           TreeProofs!StrictlyDominates, Tree!Dominates, TreeProofs!Dominates,
           Tree!ReachAvoiding, TreeProofs!ReachAvoiding, Tree!ClosedExcept,
           TreeProofs!ClosedExcept, Tree!ReachFrom, TreeProofs!ReachFrom,
           Tree!Closed, TreeProofs!Closed, Tree!ToSet, TreeProofs!ToSet
  <1> QED BY <1>2, <1>4

\* DomTree::Run has not returned on a graph it throws for.
Returned == tree_pc = "done" => ~Tree!HasUnreachablePredec

\* Only the end of building the lists sets it done.
LEMMA ReturnedStep ==
    ASSUME Returned, TreeProofs!ThrowsExactlyOn, [Next]_vars PROVE Returned'
  <1> SUFFICES ASSUME tree_pc' = "done" PROVE ~Tree!HasUnreachablePredec'
    BY DEF Returned
  <1>1. succ' = succ /\ predec' = predec
    BY GraphStays, PredecStays
  <1>2. Tree!HasUnreachablePredec' <=> Tree!HasUnreachablePredec
    BY <1>1 DEF Tree!HasUnreachablePredec, Tree!Reachable
  <1>3. tree_pc \in {"build", "done"}
    <2>1. Tree!Run => tree_pc' # "done"
      BY DEF Tree!Run
    <2>2. Tree!Steps => tree_pc = "build"
      BY <2>1, SMTT(60)
         DEF Tree!Steps, Tree!CallDFS, Tree!AtSuccessor, Tree!PassOver, Tree!Return,
             Tree!MakeForest, Tree!EvalPredec, Tree!LinkVertex, Tree!EmptyBucket,
             Tree!NextVertex, Tree!FixDom, Tree!ClearRootDom, Tree!BuildVertex, Tree!Finish
    <2>3. UNCHANGED treeVars => tree_pc' = tree_pc
      BY DEF treeVars
    <2> QED BY <2>1, <2>2, <2>3, TreeRuns
  <1>4. CASE tree_pc = "build"
    <2>1. ~TreeProofs!HasUnreachablePredec
      BY <1>4 DEF TreeProofs!ThrowsExactlyOn
    <2> QED BY <1>2, <2>1, TreeResult
  <1>5. CASE tree_pc = "done"
    BY <1>2, <1>5 DEF Returned
  <1> QED BY <1>3, <1>4, <1>5

\* After DomTree::Run has returned, no reachable block has an unreachable
\* predecessor and the lists in the blocks know every dominance, so that
\* IsDominated recognises a header whatever Run of LoopAnalyzer has done since.
THEOREM TreeKnows == Spec => []TreeAnswers
  <1>1. Init => Returned
    BY DEF Init, Tree!Init, Returned
  <1>2. Returned /\ TreeProofs!ThrowsExactlyOn /\ [Next]_vars => Returned'
    BY ReturnedStep
  <1>3. TreeProofs!Spec => []TreeProofs!ThrowsExactlyOn
    BY TreeAssumption, TreeEdgesAssumption, TreeProofs!ThrowsRight
  <1>4. TreeProofs!Spec => []TreeProofs!ListsNeverMissDominance
    BY TreeAssumption, TreeEdgesAssumption, TreeProofs!ListsMissNothing
  <1>5. Spec => []Returned
    BY <1>1, <1>2, <1>3, RunsTreeProofs, PTL DEF Spec
  <1>6. Returned /\ TreeProofs!ListsNeverMissDominance => TreeAnswers
    BY TreeResult DEF Returned, TreeAnswers
  <1> QED BY <1>4, <1>5, <1>6, RunsTreeProofs, PTL

\* The invariant holds at the start, of the graph Run will be given.
LEMMA NaturalBegins == Init => NaturalInv
  <1> SUFFICES ASSUME Init PROVE NaturalInv
    OBVIOUS
  <1>1. /\ loop = [b \in Blocks |-> Null] /\ loops = <<>> /\ pc = "start" /\ tree_pc = "start"
        /\ runs = 0
    BY DEF Init, Tree!Init
  <1>2. GraphGiven
    BY DEF Init, Tree!Init, GraphGiven
  <1>3. Loops = {}
    BY <1>1 DEF Loops
  <1>4. Located /\ OnePerHeader /\ Unnested
    BY <1>1, <1>3 DEF Located, OnePerHeader, Unnested
  <1> QED BY <1>1, <1>2, <1>4 DEF NaturalInv, NestingInv

\* A graph is orderly or not from the first step to the last.
LEMMA OrderlyStays ==
    ASSUME succ' = succ PROVE Orderly' <=> Orderly
  <1>1. Tree!NumbersTwice' <=> Tree!NumbersTwice
    BY DEF Tree!NumbersTwice
  <1>2. WellTreed' <=> WellTreed
    BY <1>1, ReferenceStays DEF WellTreed
  <1>3. Reducible' <=> Reducible
    <2> DEFINE forward == [u \in Blocks |-> {v \in ToSet(succ[u]) : ~IsBackEdge(u, v)}]
    <2>1. forward' = forward
      BY ReferenceStays
    <2>2. /\ Reducible <=>
                \A u \in Reachable : \A v \in forward[u] :
                   \E S \in SUBSET Blocks :
                      v \in S /\ u \notin S /\ \A x \in S : forward[x] \subseteq S
          /\ Reducible' <=>
                \A u \in Reachable' : \A v \in forward'[u] :
                   \E S \in SUBSET Blocks :
                      v \in S /\ u \notin S /\ \A x \in S : forward'[x] \subseteq S
      BY Zenon DEF Reducible
    <2> HIDE DEF forward
    <2> QED BY <2>1, <2>2, ReferenceStays
  <1>4. SourcesInnermost' <=> SourcesInnermost
    BY ReferenceStays DEF SourcesInnermost
  <1> QED BY <1>2, <1>3, <1>4 DEF Orderly

\* Each step keeps the invariant.
LEMMA NaturalStep ==
    ASSUME IInv, Orderly, NaturalInv, TreeAnswers, [Next]_vars PROVE NaturalInv'
  <1>0. succ' = succ /\ predec' = predec
    BY GraphStays, PredecStays
  <1>1. CASE Run \/ BuildDomTree
    BY <1>0, <1>1, TreeNatural
  <1>2. CASE BeginDFS \/ MeetGray \/ MeetBlack \/ MeetNew \/ Return
    BY <1>0, <1>2, SearchNatural
  <1>3. CASE BeginRPO \/ BuildRPO \/ BeginCollect
    BY <1>0, <1>3, OrderNatural
  <1>4. CASE SkipBlock \/ OpenLoop \/ CloseLoop
    BY <1>0, <1>4, CollectNatural
  <1>5. CASE \E source \in Blocks : TakeBackEdge(source)
    BY <1>0, <1>5, TakeNatural
  <1>6. CASE WalkPredec
    BY <1>0, <1>6, PredecNatural
  <1>7. CASE LeaveBB
    BY <1>0, <1>7, LeaveNatural
  <1>8. CASE NewRootLoop
    BY <1>0, <1>8, NewRootNatural
  <1>9. CASE WalkSucc
    BY <1>0, <1>9, RootSuccNatural
  <1>10. CASE LeaveRootBB \/ BeginAssign
    BY <1>0, <1>10, RootReturnNatural
  <1>11. CASE AssignRootLoop
    BY <1>0, <1>11, AssignNatural
  <1>12. CASE Finish
    BY <1>0, <1>12, FinishNatural
  <1>13. CASE Ended \/ UNCHANGED vars
    BY <1>13, StutterNatural DEF Ended
  <1> QED BY <1>1, <1>2, <1>3, <1>4, <1>5, <1>6, <1>7, <1>8, <1>9, <1>10, <1>11, <1>12, <1>13
          DEF Next, Steps

\* On an orderly graph the invariant holds in every state of every run.
THEOREM NaturalInvariance == Spec => []Natural
  <1>1. Init => Natural
    BY NaturalBegins DEF Natural
  <1>2. Natural /\ IInv /\ TreeAnswers /\ [Next]_vars => Natural'
    <2> SUFFICES ASSUME Natural, IInv, TreeAnswers, [Next]_vars, Orderly' PROVE NaturalInv'
      BY DEF Natural
    <2>1. Orderly
      BY GraphStays, OrderlyStays
    <2> QED BY <2>1, NaturalStep DEF Natural
  <1> QED BY <1>1, <1>2, Invariance, TreeKnows, PTL DEF Spec

\* After any number of runs on a reducible graph whose back edges start in the
\* loop they close, every reachable block points to the innermost natural loop
\* around it, or to a root loop where there is none.
THEOREM LoopsRight == Spec => []LoopsAreNatural
  <1>1. Natural /\ IInv => LoopsAreNatural
    <2> SUFFICES ASSUME Natural, IInv, pc = "done", WellTreed, Reducible, SourcesInnermost,
                        NEW b \in Reachable
                 PROVE  loop[b] # Null /\ HeaderOf(b) = Innermost(b, Headers)
      BY DEF LoopsAreNatural, BlocksInInnermostLoop
    <2>1. Located
      BY DEF Natural, NaturalInv, Orderly
    <2>2. b \in Blocks
      BY GraphTyped DEF IInv
    <2>3. loop[b] # Null
      BY DEF IInv
    <2> QED BY <2>1, <2>2, <2>3 DEF Located
  <1> QED BY <1>1, NaturalInvariance, Invariance, PTL

\* After a first run on such a graph the loops hang in each other as the natural
\* loops contain each other, every edge of the tree stored at both ends.
THEOREM TreeNests == Spec => []TreeIsNesting
  <1>1. Natural => TreeIsNesting
    <2> SUFFICES ASSUME Natural, pc = "done", runs = 1, WellTreed, Reducible, SourcesInnermost
                 PROVE  /\ MirroredEdges([i \in Loops |-> loops[i].succ],
                                         [i \in Loops |-> loops[i].predec])
                        /\ \A h \in Headers : loops[loop[h]].predec = <<ParentLoop(h)>>
      BY DEF TreeIsNesting, ParentLoop
    <2>1. Hanging /\ \A h \in Headers : HungInRoot(h)
      BY DEF Natural, NaturalInv, NestingInv, Orderly
    <2> QED BY <2>1 DEF Hanging, HungInRoot
  <1> QED BY <1>1, NaturalInvariance, PTL
=============================================================================
