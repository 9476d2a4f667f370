------------------------- MODULE ControlFlow_proofs -------------------------
(***************************************************************************)
(* What the vector operations of ilist_graph_node do to the entries of a   *)
(* vector, facts about reachability and dominance in a graph of any size,  *)
(* finite or not, and the least element of a set of numbers, which stands  *)
(* in for induction.                                                       *)
(***************************************************************************)
EXTENDS ControlFlow, SequenceTheorems, WellFoundedInduction, TLAPS

-----------------------------------------------------------------------------
(* Vectors.                                                                *)

\* The entries of a vector, spelled out.
LEMMA Entries ==
    ASSUME NEW S, NEW s \in Seq(S)
    PROVE  /\ ToSet(s) \subseteq S
           /\ \A x : x \in ToSet(s) <=> \E i \in 1..Len(s) : s[i] = x
  BY DEF ToSet

\* Vectors over a set are vectors over any larger one.
LEMMA SeqGrows == ASSUME NEW S, NEW T, S \subseteq T PROVE Seq(S) \subseteq Seq(T)
  OBVIOUS

\* push_back adds its argument at the end and keeps every other entry.
LEMMA AppendEntries ==
    ASSUME NEW S, NEW s \in Seq(S), NEW x \in S
    PROVE  /\ Append(s, x) \in Seq(S)
           /\ Len(Append(s, x)) = Len(s) + 1
           /\ DOMAIN Append(s, x) = 1 .. Len(s) + 1
           /\ \A i \in 1..Len(s) : Append(s, x)[i] = s[i]
           /\ Append(s, x)[Len(s) + 1] = x
           /\ ToSet(Append(s, x)) = ToSet(s) \cup {x}
  <1>1. /\ Append(s, x) \in Seq(S)
        /\ Len(Append(s, x)) = Len(s) + 1
        /\ \A i \in 1..Len(s) : Append(s, x)[i] = s[i]
        /\ Append(s, x)[Len(s) + 1] = x
    BY AppendProperties
  <1>2. DOMAIN Append(s, x) = 1 .. Len(s) + 1
    BY <1>1
  <1>3. ToSet(Append(s, x)) = ToSet(s) \cup {x}
    <2>1. Len(s) \in Nat /\ DOMAIN s = 1..Len(s)
      OBVIOUS
    <2>2. ASSUME NEW y \in ToSet(Append(s, x)) PROVE y \in ToSet(s) \cup {x}
      BY <1>1, <1>2, <2>1 DEF ToSet
    <2>3. ASSUME NEW y \in ToSet(s) PROVE y \in ToSet(Append(s, x))
      <3>1. PICK i \in 1..Len(s) : s[i] = y
        BY <2>1 DEF ToSet
      <3>2. i \in DOMAIN Append(s, x) /\ Append(s, x)[i] = y
        BY <1>1, <1>2, <2>1, <3>1
      <3> QED BY <3>2 DEF ToSet
    <2>4. x \in ToSet(Append(s, x))
      BY <1>1, <1>2, <2>1 DEF ToSet
    <2> QED BY <2>2, <2>3, <2>4
  <1> QED BY <1>1, <1>2, <1>3

\* pop_back keeps every entry but the last.
LEMMA FrontEntries ==
    ASSUME NEW S, NEW s \in Seq(S), s # <<>>
    PROVE  /\ Front(s) \in Seq(S)
           /\ Len(s) \in Nat \ {0}
           /\ Len(Front(s)) = Len(s) - 1
           /\ DOMAIN Front(s) = 1 .. Len(s) - 1
           /\ \A i \in 1 .. Len(s) - 1 : Front(s)[i] = s[i]
           /\ Last(s) = s[Len(s)]
           /\ ToSet(s) = ToSet(Front(s)) \cup {Last(s)}
  <1>1. Len(s) \in Nat \ {0} /\ DOMAIN s = 1..Len(s)
    OBVIOUS
  <1>2. /\ Front(s) \in Seq(S)
        /\ Len(Front(s)) = Len(s) - 1
        /\ \A i \in 1 .. Len(s) - 1 : Front(s)[i] = s[i]
    <2>1. 1 \in 1 .. Len(s) + 1 /\ Len(s) - 1 \in 1-1 .. Len(s)
      BY <1>1
    <2> QED BY <1>1, <2>1, SubSeqProperties DEF Front
  <1>3. DOMAIN Front(s) = 1 .. Len(s) - 1
    BY <1>2
  <1>4. Last(s) = s[Len(s)]
    BY DEF Last
  <1>5. ToSet(s) = ToSet(Front(s)) \cup {Last(s)}
    BY <1>1, <1>2, <1>3, <1>4 DEF ToSet
  <1> QED BY <1>1, <1>2, <1>3, <1>4, <1>5

\* Pushing an absent entry and popping keep a vector free of duplicates.
LEMMA PushKeepsDistinct ==
    ASSUME NEW S, NEW s \in Seq(S), NEW x \in S, NoDuplicates(s), x \notin ToSet(s)
    PROVE  NoDuplicates(Append(s, x))
  <1>1. Len(s) \in Nat /\ DOMAIN s = 1..Len(s)
    OBVIOUS
  <1>2. \A i \in 1..Len(s) : s[i] # x
    BY Entries
  <1> QED BY <1>1, <1>2, AppendEntries DEF NoDuplicates

\* pop_back keeps entries distinct and removes the last one.
LEMMA PopKeepsDistinct ==
    ASSUME NEW S, NEW s \in Seq(S), s # <<>>, NoDuplicates(s)
    PROVE  /\ NoDuplicates(Front(s))
           /\ Last(s) \notin ToSet(Front(s))
           /\ ToSet(Front(s)) = ToSet(s) \ {Last(s)}
  <1>1. Len(s) \in Nat /\ DOMAIN s = 1..Len(s)
    OBVIOUS
  <1>2. NoDuplicates(Front(s))
    <2>1. /\ DOMAIN Front(s) = 1 .. Len(s) - 1
          /\ \A i \in 1 .. Len(s) - 1 : Front(s)[i] = s[i]
      BY FrontEntries
    <2> SUFFICES ASSUME NEW i \in 1 .. Len(s) - 1, NEW j \in 1 .. Len(s) - 1,
                        s[i] = s[j]
                 PROVE  i = j
      BY <2>1 DEF NoDuplicates
    <2> QED BY <1>1 DEF NoDuplicates
  <1>3. Last(s) \notin ToSet(Front(s))
    BY <1>1, FrontEntries DEF NoDuplicates, ToSet
  <1>4. ToSet(Front(s)) = ToSet(s) \ {Last(s)}
    BY <1>3, FrontEntries
  <1> QED BY <1>2, <1>3, <1>4

-----------------------------------------------------------------------------
(* Graphs.                                                                 *)

\* A set of numbers that is not empty has a least element.
LEMMA LeastNat ==
    ASSUME NEW T \in SUBSET Nat, T # {}
    PROVE  \E n \in T : \A m \in T : n <= m
  <1> DEFINE R == {ss \in Nat \X Nat : ss[1] < ss[2]}
  <1>1. IsWellFoundedOn(R, Nat)
    BY NatLessThanWellFounded, Zenon DEF OpToRel
  <1>2. PICK n \in T : \A m \in T : ~ (<<m, n>> \in R)
    <2> HIDE DEF R
    <2> QED BY <1>1, WFMin
  <1>3. \A m \in T : ~(m < n)
    BY <1>2
  <1> QED BY <1>3

-----------------------------------------------------------------------------
\* Reachability is reflexive, follows edges and is transitive, and no set
\* closed under the edges is left by it.
LEMMA ReachReflexive ==
    ASSUME NEW B, NEW g \in [B -> Seq(B)], NEW u \in B PROVE u \in ReachFrom(g, u)
  BY DEF ReachFrom

\* An edge reaches its target.
LEMMA ReachEdge ==
    ASSUME NEW B, NEW g \in [B -> Seq(B)], NEW u \in B, NEW v \in ToSet(g[u])
    PROVE  v \in B /\ v \in ReachFrom(g, u)
  <1>1. v \in B
    BY Entries
  <1> QED BY <1>1 DEF ReachFrom, Closed

\* Reaching is transitive.
LEMMA ReachTransitive ==
    ASSUME NEW B, NEW g \in [B -> Seq(B)], NEW u \in B,
           NEW v \in ReachFrom(g, u), NEW w \in ReachFrom(g, v)
    PROVE  w \in ReachFrom(g, u)
  BY DEF ReachFrom

\* What is reached from inside a closed set stays inside.
LEMMA ReachWithinClosed ==
    ASSUME NEW B, NEW g \in [B -> Seq(B)], NEW u \in B, NEW S \in SUBSET B,
           u \in S, Closed(g, S)
    PROVE  ReachFrom(g, u) \subseteq S
  BY DEF ReachFrom

\* Only blocks are reached.
LEMMA ReachTyped ==
    ASSUME NEW B, NEW g \in [B -> Seq(B)], NEW u PROVE ReachFrom(g, u) \subseteq B
  BY DEF ReachFrom

-----------------------------------------------------------------------------
\* The same for paths that leave no block of Cut.
LEMMA AvoidReflexive ==
    ASSUME NEW B, NEW g \in [B -> Seq(B)], NEW u \in B, NEW Cut
    PROVE  u \in ReachAvoiding(g, u, Cut)
  BY DEF ReachAvoiding

\* An edge out of a block that is reached and not cut reaches its target.
LEMMA AvoidEdge ==
    ASSUME NEW B, NEW g \in [B -> Seq(B)], NEW u \in B, NEW Cut,
           NEW v \in ReachAvoiding(g, u, Cut), v \notin Cut, NEW w \in ToSet(g[v])
    PROVE  w \in B /\ w \in ReachAvoiding(g, u, Cut)
  <1>1. v \in B
    BY DEF ReachAvoiding
  <1>2. w \in B
    BY <1>1, Entries
  <1> QED BY <1>1, <1>2 DEF ReachAvoiding, ClosedExcept

\* Paths can be joined.
LEMMA AvoidTransitive ==
    ASSUME NEW B, NEW g \in [B -> Seq(B)], NEW u, NEW Cut,
           NEW v \in ReachAvoiding(g, u, Cut), NEW w \in ReachAvoiding(g, v, Cut)
    PROVE  w \in ReachAvoiding(g, u, Cut)
  BY DEF ReachAvoiding

\* The less is cut, the more is reached.
LEMMA AvoidFewer ==
    ASSUME NEW g, NEW u, NEW Cut, NEW Fewer, \A x \in DOMAIN g : x \in Fewer => x \in Cut
    PROVE  ReachAvoiding(g, u, Cut) \subseteq ReachAvoiding(g, u, Fewer)
  <1> SUFFICES ASSUME NEW v \in ReachAvoiding(g, u, Cut), NEW S \in SUBSET DOMAIN g,
                      u \in S, ClosedExcept(g, S, Fewer)
               PROVE  v \in S
    BY DEF ReachAvoiding
  <1>1. ClosedExcept(g, S, Cut)
    BY DEF ClosedExcept
  <1> QED BY <1>1 DEF ReachAvoiding

\* Around a block that dominates y lead no paths through y.
LEMMA AroundDominator ==
    ASSUME NEW B, NEW g \in [B -> Seq(B)], NEW r \in B, NEW u, NEW y,
           y \notin ReachAvoiding(g, r, {u})
    PROVE  ReachAvoiding(g, r, {u}) \subseteq ReachAvoiding(g, r, {y})
  <1> DEFINE S == ReachAvoiding(g, r, {u}) \cap ReachAvoiding(g, r, {y})
  <1>1. S \in SUBSET B /\ r \in S
    BY AvoidReflexive DEF ReachAvoiding
  <1>2. ASSUME NEW x \in S, x # u, NEW z \in ToSet(g[x]) PROVE z \in S
    BY <1>2, AvoidEdge
  <1>3. ClosedExcept(g, S, {u}) /\ DOMAIN g = B
    BY <1>2 DEF ClosedExcept
  <1> HIDE DEF S
  <1>4. ReachAvoiding(g, r, {u}) \subseteq S
    BY <1>1, <1>3 DEF ReachAvoiding
  <1> QED BY <1>4 DEF S

-----------------------------------------------------------------------------
\* Ways up in a tree that is given by the parents.
LEMMA UpReflexive ==
    ASSUME NEW parent, NEW v \in DOMAIN parent PROVE v \in UpFrom(parent, v)
  BY DEF UpFrom

\* The way up passes entries of parent only.
LEMMA UpTyped ==
    ASSUME NEW parent, NEW v PROVE UpFrom(parent, v) \subseteq DOMAIN parent
  BY DEF UpFrom

\* The way up is closed under parent.
LEMMA UpIsClosed ==
    ASSUME NEW parent, NEW v PROVE UpClosed(parent, UpFrom(parent, v))
  BY DEF UpFrom, UpClosed

\* The way up stays in any closed set it starts in.
LEMMA UpWithin ==
    ASSUME NEW parent, NEW S \in SUBSET DOMAIN parent, NEW v \in S, UpClosed(parent, S)
    PROVE  UpFrom(parent, v) \subseteq S
  BY DEF UpFrom

\* The way up from a block on the way is part of it.
LEMMA UpTransitive ==
    ASSUME NEW parent, NEW v, NEW u \in UpFrom(parent, v)
    PROVE  UpFrom(parent, u) \subseteq UpFrom(parent, v)
  BY UpTyped, UpIsClosed, UpWithin

\* The way up is the block and the way up from its parent.
LEMMA UpUnfold ==
    ASSUME NEW parent, NEW v \in DOMAIN parent, parent[v] \in DOMAIN parent
    PROVE  UpFrom(parent, v) = {v} \cup UpFrom(parent, parent[v])
  <1> DEFINE S == {v} \cup UpFrom(parent, parent[v])
  <1>1. S \subseteq UpFrom(parent, v)
    <2>1. v \in UpFrom(parent, v)
      BY UpReflexive
    <2>2. parent[v] \in UpFrom(parent, v)
      BY <2>1, UpIsClosed DEF UpClosed
    <2> QED BY <2>1, <2>2, UpTransitive
  <1>2. UpClosed(parent, S)
    <2>1. parent[v] \in UpFrom(parent, parent[v])
      BY UpReflexive
    <2> QED BY <2>1, UpIsClosed DEF UpClosed
  <1>3. S \in SUBSET DOMAIN parent /\ v \in S
    BY UpTyped
  <1>4. UpFrom(parent, v) \subseteq S
    <2> HIDE DEF S
    <2> QED BY <1>2, <1>3, UpWithin
  <1> QED BY <1>1, <1>4

\* The root of a tree is alone on its way up.
LEMMA UpRoot ==
    ASSUME NEW parent, NEW r \in DOMAIN parent, parent[r] \notin DOMAIN parent
    PROVE  UpFrom(parent, r) = {r}
  <1>1. UpClosed(parent, {r})
    BY DEF UpClosed
  <1>2. UpFrom(parent, r) \subseteq {r}
    BY <1>1, UpWithin
  <1> QED BY <1>2, UpReflexive

\* Of two blocks above a third one is above the other.
LEMMA UpComparable ==
    ASSUME NEW parent, NEW v \in DOMAIN parent,
           NEW x \in UpFrom(parent, v), NEW y \in UpFrom(parent, v)
    PROVE  x \in UpFrom(parent, y) \/ y \in UpFrom(parent, x)
  <1> DEFINE S == {z \in UpFrom(parent, v) : x \in UpFrom(parent, z) \/ z \in UpFrom(parent, x)}
  <1>1. v \in S
    BY UpReflexive
  <1>2. UpClosed(parent, S)
    <2> SUFFICES ASSUME NEW z \in S, parent[z] \in DOMAIN parent PROVE parent[z] \in S
      BY DEF UpClosed
    <2>1. parent[z] \in UpFrom(parent, v) /\ z \in DOMAIN parent
      BY UpIsClosed, UpTyped DEF UpClosed
    <2>2. CASE x \in UpFrom(parent, z)
      <3>1. x = z \/ x \in UpFrom(parent, parent[z])
        BY <2>1, <2>2, UpUnfold
      <3>2. parent[z] \in UpFrom(parent, z)
        BY <2>1, UpReflexive, UpUnfold
      <3> QED BY <2>1, <3>1, <3>2
    <2>3. CASE z \in UpFrom(parent, x)
      BY <2>1, <2>3, UpIsClosed DEF UpClosed
    <2> QED BY <2>2, <2>3
  <1>3. S \in SUBSET DOMAIN parent
    BY UpTyped
  <1>4. UpFrom(parent, v) \subseteq S
    <2> HIDE DEF S
    <2> QED BY <1>1, <1>2, <1>3, UpWithin
  <1> QED BY <1>4

\* Above every block but s on the way up from v down to s there is a child of s.
LEMMA UpChild ==
    ASSUME NEW parent, NEW v \in DOMAIN parent, NEW s \in UpFrom(parent, v), s # v
    PROVE  \E c \in UpFrom(parent, v) : parent[c] = s
  <1> SUFFICES ASSUME \A c \in UpFrom(parent, v) : parent[c] # s PROVE FALSE
    OBVIOUS
  <1> DEFINE S == UpFrom(parent, v) \ {s}
  <1>1. UpClosed(parent, S)
    BY UpIsClosed DEF UpClosed
  <1>2. S \in SUBSET DOMAIN parent /\ v \in S
    BY UpTyped, UpReflexive
  <1>3. UpFrom(parent, v) \subseteq S
    <2> HIDE DEF S
    <2> QED BY <1>1, <1>2, UpWithin
  <1> QED BY <1>3

\* Numbers that grow from parent to child are smaller above.
Descending(parent, num) ==
    \A x \in DOMAIN parent :
        /\ num[x] \in Nat
        /\ parent[x] \in DOMAIN parent => num[parent[x]] < num[x]

\* Numbers fall strictly on the way up.
LEMMA UpNumbers ==
    ASSUME NEW parent, NEW num, Descending(parent, num), NEW v \in DOMAIN parent,
           NEW u \in UpFrom(parent, v), u # v
    PROVE  num[u] < num[v]
  <1> DEFINE S == {v} \cup {x \in DOMAIN parent : num[x] < num[v]}
  <1>1. UpClosed(parent, S)
    <2> SUFFICES ASSUME NEW x \in S, parent[x] \in DOMAIN parent PROVE num[parent[x]] < num[v]
      BY DEF UpClosed
    <2>1. x \in DOMAIN parent
      OBVIOUS
    <2>2. num[v] \in Nat /\ num[x] \in Nat /\ num[parent[x]] \in Nat /\ num[parent[x]] < num[x]
      BY <2>1 DEF Descending
    <2>3. x = v \/ num[x] < num[v]
      OBVIOUS
    <2> QED BY <2>2, <2>3
  <1>2. UpFrom(parent, v) \subseteq S
    <2>1. S \in SUBSET DOMAIN parent /\ v \in S
      OBVIOUS
    <2> HIDE DEF S
    <2> QED BY <1>1, <2>1, UpWithin
  <1> QED BY <1>2

\* A new leaf changes no way up but its own.
LEMMA UpLeaf ==
    ASSUME NEW parent, NEW leaf, leaf \notin DOMAIN parent,
           \A x \in DOMAIN parent : parent[x] # leaf,
           NEW grown, DOMAIN grown = DOMAIN parent \cup {leaf},
           \A x \in DOMAIN parent : grown[x] = parent[x],
           grown[leaf] \in DOMAIN parent
    PROVE  /\ \A v \in DOMAIN parent : UpFrom(grown, v) = UpFrom(parent, v)
           /\ UpFrom(grown, leaf) = {leaf} \cup UpFrom(parent, grown[leaf])
  <1>1. ASSUME NEW v \in DOMAIN parent PROVE UpFrom(grown, v) = UpFrom(parent, v)
    <2>1. UpFrom(grown, v) \subseteq UpFrom(parent, v)
      <3>1. UpClosed(grown, UpFrom(parent, v))
        BY UpIsClosed, UpTyped DEF UpClosed
      <3>2. UpFrom(parent, v) \in SUBSET DOMAIN grown /\ v \in UpFrom(parent, v)
        BY UpTyped, UpReflexive
      <3> QED BY <3>1, <3>2, UpWithin
    <2>2. UpFrom(parent, v) \subseteq UpFrom(grown, v)
      <3>1. UpFrom(grown, v) \subseteq DOMAIN parent
        BY <2>1, UpTyped
      <3>2. UpClosed(parent, UpFrom(grown, v))
        BY <3>1, UpIsClosed DEF UpClosed
      <3>3. v \in UpFrom(grown, v)
        BY UpReflexive
      <3> QED BY <3>1, <3>2, <3>3, UpWithin
    <2> QED BY <2>1, <2>2
  <1>2. UpFrom(grown, leaf) = {leaf} \cup UpFrom(grown, grown[leaf])
    BY UpUnfold
  <1> QED BY <1>1, <1>2

-----------------------------------------------------------------------------
(* Dominance, and graphs with more edges.                                  *)

\* A dominator of a block that is reached is reached, and comes before it.
LEMMA DominatorReached ==
    ASSUME NEW B, NEW g \in [B -> Seq(B)], NEW r \in B, NEW d \in B, NEW v \in ReachFrom(g, r),
           StrictlyDominates(g, r, d, v)
    PROVE  d \in ReachFrom(g, r)
  <1> SUFFICES ASSUME d \notin ReachFrom(g, r) PROVE FALSE
    OBVIOUS
  <1>1. v \in B /\ v \notin ReachAvoiding(g, r, {d})
    BY DEF ReachFrom, StrictlyDominates, Dominates
  <1>2. PICK S \in SUBSET B : r \in S /\ ClosedExcept(g, S, {d}) /\ v \notin S
    BY <1>1 DEF ReachAvoiding
  <1> DEFINE T == S \cap ReachFrom(g, r)
  <1>3. T \in SUBSET B /\ r \in T
    BY <1>2, ReachReflexive
  <1>4. Closed(g, T)
    <2> SUFFICES ASSUME NEW u \in T, NEW w \in ToSet(g[u]) PROVE w \in T
      BY DEF Closed
    <2>1. u \in B /\ u # d
      BY <1>3
    <2>2. w \in S
      BY <1>2, <2>1 DEF ClosedExcept
    <2>3. w \in ReachFrom(g, r)
      BY <2>1, ReachEdge, ReachTransitive
    <2> QED BY <2>2, <2>3
  <1>5. v \in T
    <2> HIDE DEF T
    <2> QED BY <1>3, <1>4, ReachWithinClosed
  <1> QED BY <1>2, <1>5

\* A strict dominator of a strict dominator of a block is one itself.
LEMMA StrictTransitive ==
    ASSUME NEW B, NEW g \in [B -> Seq(B)], NEW r \in B, NEW d, NEW e \in B,
           NEW v \in ReachFrom(g, r),
           StrictlyDominates(g, r, d, e), StrictlyDominates(g, r, e, v)
    PROVE  StrictlyDominates(g, r, d, v)
  <1>1. e \notin ReachAvoiding(g, r, {d}) /\ v \notin ReachAvoiding(g, r, {e}) /\ v \in B
    BY DEF StrictlyDominates, Dominates, ReachFrom
  <1>2. v \notin ReachAvoiding(g, r, {d})
    BY <1>1, AroundDominator
  <1>3. d # v
    <2> SUFFICES ASSUME d = v PROVE FALSE
      OBVIOUS
    <2>1. PICK S \in SUBSET B : r \in S /\ ClosedExcept(g, S, {v}) /\ v \notin S
      BY <1>1, <1>2 DEF ReachAvoiding
    <2>2. Closed(g, S)
      BY <2>1 DEF Closed, ClosedExcept
    <2> QED BY <2>1, <2>2, ReachWithinClosed
  <1> QED BY <1>2, <1>3 DEF StrictlyDominates, Dominates

\* With more edges more is reached, and less is dominated.
LEMMA MoreEdges ==
    ASSUME NEW B, NEW g \in [B -> Seq(B)], NEW h \in [B -> Seq(B)], NEW r \in B,
           \A u \in B : ToSet(g[u]) \subseteq ToSet(h[u])
    PROVE  /\ ReachFrom(g, r) \subseteq ReachFrom(h, r)
           /\ \A d, v : StrictlyDominates(h, r, d, v) => StrictlyDominates(g, r, d, v)
  <1>1. \A S \in SUBSET B : Closed(h, S) => Closed(g, S)
    BY DEF Closed
  <1>2. ReachFrom(g, r) \subseteq ReachFrom(h, r)
    BY <1>1 DEF ReachFrom
  <1>3. \A d : \A S \in SUBSET B : ClosedExcept(h, S, {d}) => ClosedExcept(g, S, {d})
    BY DEF ClosedExcept
  <1>4. \A d : ReachAvoiding(g, r, {d}) \subseteq ReachAvoiding(h, r, {d})
    BY <1>3 DEF ReachAvoiding
  <1> QED BY <1>2, <1>4 DEF StrictlyDominates, Dominates

-----------------------------------------------------------------------------
\* What a path that leaves no block of Cut reaches is reached.
LEMMA AvoidReaches ==
    ASSUME NEW B, NEW g \in [B -> Seq(B)], NEW u, NEW Cut
    PROVE  ReachAvoiding(g, u, Cut) \subseteq ReachFrom(g, u)
  BY DEF ReachAvoiding, ReachFrom, ClosedExcept, Closed

\* Two blocks do not dominate each other.
LEMMA DominanceOneWay ==
    ASSUME NEW B, NEW g \in [B -> Seq(B)], NEW r \in B, NEW d \in ReachFrom(g, r),
           NEW e \in B, Dominates(g, r, d, e), Dominates(g, r, e, d)
    PROVE  d = e
  <1> SUFFICES ASSUME d # e PROVE FALSE
    OBVIOUS
  <1>1. StrictlyDominates(g, r, d, e) /\ StrictlyDominates(g, r, e, d)
    BY DEF StrictlyDominates
  <1>2. StrictlyDominates(g, r, d, d)
    BY <1>1, StrictTransitive
  <1> QED BY <1>2 DEF StrictlyDominates

\* Of two dominators of a block one dominates the other: what is reached around
\* one of them or around the other would be all that is reached.
LEMMA DominatorsComparable ==
    ASSUME NEW B, NEW g \in [B -> Seq(B)], NEW r \in B, NEW v \in ReachFrom(g, r),
           NEW d, NEW e, Dominates(g, r, d, v), Dominates(g, r, e, v)
    PROVE  Dominates(g, r, d, e) \/ Dominates(g, r, e, d)
  <1> SUFFICES ASSUME ~Dominates(g, r, d, e), ~Dominates(g, r, e, d) PROVE FALSE
    OBVIOUS
  <1> DEFINE D == ReachAvoiding(g, r, {d})
             E == ReachAvoiding(g, r, {e})
  <1>1. d # e /\ d \in E /\ e \in D /\ v \notin D /\ v \notin E
    BY DEF Dominates
  <1>2. D \cup E \in SUBSET B /\ r \in D
    BY AvoidReflexive DEF ReachAvoiding
  <1>3. Closed(g, D \cup E)
    <2> SUFFICES ASSUME NEW x \in D \cup E, NEW w \in ToSet(g[x]) PROVE w \in D \cup E
      BY DEF Closed
    <2>1. (x \in D /\ x # d) \/ (x \in E /\ x # e)
      BY <1>1
    <2> QED BY <2>1, AvoidEdge
  <1> HIDE DEF D, E
  <1>4. ReachFrom(g, r) \subseteq D \cup E
    BY <1>2, <1>3, ReachWithinClosed
  <1> QED BY <1>1, <1>4

\* From a dominator a block is reached around the dominator's own dominators.
LEMMA AroundOuter ==
    ASSUME NEW B, NEW g \in [B -> Seq(B)], NEW r \in B, NEW v \in ReachFrom(g, r),
           NEW d \in ReachFrom(g, r), NEW c \in B, StrictlyDominates(g, r, c, d), Dominates(g, r, d, v)
    PROVE  v \in ReachAvoiding(g, d, {c})
  <1> DEFINE From == ReachAvoiding(g, d, {c})
             Else == ReachAvoiding(g, r, {d})
  <1>1. d \in B /\ c # d
    BY ReachTyped DEF StrictlyDominates
  <1>2. d \in From /\ r \in Else /\ From \cup Else \in SUBSET B
    BY <1>1, AvoidReflexive DEF ReachAvoiding
  <1>3. c \in Else
    BY <1>1, DominanceOneWay DEF StrictlyDominates, Dominates
  <1>4. Closed(g, From \cup Else)
    <2> SUFFICES ASSUME NEW x \in From \cup Else, NEW w \in ToSet(g[x])
                 PROVE  w \in From \cup Else
      BY DEF Closed
    <2>1. CASE x \in Else /\ x # d
      BY <2>1, AvoidEdge
    <2>2. CASE x \in From /\ x # c
      BY <1>1, <2>2, AvoidEdge
    <2> QED BY <1>1, <1>2, <1>3, <2>1, <2>2
  <1>5. v = d \/ v \notin Else
    BY DEF Dominates
  <1> HIDE DEF From, Else
  <1>6. v \in From \cup Else
    BY <1>2, <1>4, ReachWithinClosed
  <1> QED BY <1>2, <1>5, <1>6 DEF From

\* A path around h to a block that k only reaches through h passes k not at all.
LEMMA AroundBoth ==
    ASSUME NEW B, NEW g \in [B -> Seq(B)], NEW c \in B, NEW h, NEW k \in B, k # h,
           NEW u \in ReachAvoiding(g, c, {h}), u \notin ReachAvoiding(g, k, {h})
    PROVE  u \in ReachAvoiding(g, c, {k})
  <1> DEFINE S == ReachAvoiding(g, c, {k}) \cup ReachAvoiding(g, k, {h})
  <1>1. S \in SUBSET DOMAIN g /\ c \in S /\ k \in ReachAvoiding(g, k, {h})
    BY AvoidReflexive DEF ReachAvoiding
  <1>2. ClosedExcept(g, S, {h})
    <2> SUFFICES ASSUME NEW x \in S, x # h, NEW w \in ToSet(g[x]) PROVE w \in S
      BY DEF ClosedExcept
    <2>1. (x \in ReachAvoiding(g, c, {k}) /\ x # k) \/ x \in ReachAvoiding(g, k, {h})
      BY <1>1
    <2> QED BY <2>1, AvoidEdge
  <1> HIDE DEF S
  <1>3. u \in S
    BY <1>1, <1>2 DEF ReachAvoiding
  <1> QED BY <1>3 DEF S
=============================================================================
