-------------------------- MODULE InstList_proofs --------------------------
(***************************************************************************)
(* Proofs about the edits of instruction lists, for any graphs to start    *)
(* from, any bounds and any number of calls: the types, where pointers     *)
(* lead, what SplitBBInTwo does to the edges, and which calls have no      *)
(* defined meaning.                                                        *)
(***************************************************************************)
EXTENDS InstList, ControlFlow_proofs, FiniteSetTheorems

\* Instructions that a block holds, and what else a pointer may be.
HeldLinks == {x \in Insts : parent[x] \in blocks} \cup {Null, Wild}

\* Pointers lead to instructions that a block holds, and blocks are those made.
PointersHeld ==
    /\ next \in [Insts -> HeldLinks] /\ prev \in [Insts -> HeldLinks]
    /\ parent \in [Insts -> blocks \cup {Null}]
    /\ first_inst \in [BBs -> HeldLinks] /\ last_inst \in [BBs -> HeldLinks]
    /\ first \in [Graphs -> HeldLinks] /\ last \in [Graphs -> HeldLinks]
    /\ root \in [Graphs -> blocks \cup {Null}]

\* Edges lead from block to block, and no block has a third successor.
EdgesHeld ==
    \A bb \in BBs :
        /\ Len(succ[bb]) <= 2 /\ ToSet(succ[bb]) \subseteq blocks
        /\ bb \notin blocks => succ[bb] = <<>> /\ predec[bb] = <<>>

\* The inductive invariant; ~IRGraph, the last call, takes blocks away.
IInv == TypeOK /\ (call.op # "~IRGraph" => PointersHeld /\ EdgesHeld)

-----------------------------------------------------------------------------
\* The least and the greatest number of a set of them that is not empty.
LEMMA EndsOfSet ==
    ASSUME NEW n \in Nat, NEW S \in SUBSET (1..n), S # {}
    PROVE  Min(S) \in S /\ Max(S) \in S /\ Min(S) <= Max(S)
  <1>1. \E x \in S : \A y \in S : x <= y
    <2>1. S \in SUBSET Nat
      OBVIOUS
    <2> QED BY <2>1, LeastNat
  <1>2. \E x \in S : \A y \in S : x >= y
    <2> DEFINE T == {n - x : x \in S}
    <2>1. T \in SUBSET Nat /\ T # {}
      <3>1. \A x \in S : n - x \in Nat
        OBVIOUS
      <3> QED BY <3>1
    <2>2. PICK t \in T : \A u \in T : t <= u
      BY <2>1, LeastNat
    <2>3. PICK x \in S : t = n - x
      BY <2>2
    <2>4. \A y \in S : n - x <= n - y
      BY <2>2, <2>3
    <2>5. \A y \in S : x >= y
      BY <2>4
    <2> QED BY <2>5
  <1> QED BY <1>1, <1>2 DEF Min, Max

\* One step along next_, which stays where it is at a pointer to no instruction.
Further(y) == IF Valid(y) THEN next[y] ELSE y

\* Following next_ from x visits the places At, of which the first k are
\* instructions that exist.
GoesAlong(At, x, k) ==
    /\ \A n \in Insts : At[n] = IF n = 1 THEN x ELSE Further(At[n - 1])
    /\ \A n \in Insts : Valid(At[n]) <=> n \in 1..k
    /\ Follow(x) = [n \in 1..k |-> At[n]]

\* Follow visits such places, and stays in any set H that next_ does not leave: what
\* lets the proofs speak of where a walk leads without looking at its steps again.
LEMMA FollowWay ==
    ASSUME MaxInsts \in Nat, next \in [Insts -> Links], NEW H, H \subseteq Links, NEW x \in H,
           \A y \in H : Valid(y) => next[y] \in H
    PROVE  \E At \in [Insts -> H], k \in 0..MaxInsts : GoesAlong(At, x, k)
  <1> DEFINE further == [y \in Links |-> IF Valid(y) THEN next[y] ELSE y]
             Way(f, k) == \A n \in 1..k : f[n] = IF n = 1 THEN x ELSE further[f[n - 1]]
             T == {k \in 0..MaxInsts : ~ \E f \in [1..k -> H] : Way(f, k)}
             At == CHOOSE f : f = [n \in Insts |-> IF n = 1 THEN x ELSE further[f[n - 1]]]
             D == {m \in Insts : Valid(At[m])}
  <1>1. \A y \in H : further[y] \in H /\ (~Valid(y) => further[y] = y)
    OBVIOUS
  <1> HIDE DEF further
  <1>2. \E f \in [1..MaxInsts -> H] : Way(f, MaxInsts)
    <2> SUFFICES ASSUME T # {} PROVE FALSE
      OBVIOUS
    <2>1. T \in SUBSET Nat
      OBVIOUS
    <2>2. PICK k \in T : \A m \in T : k <= m
      BY <2>1, LeastNat
    <2>3. k # 0
      <3>1. [n \in 1..0 |-> x] \in [1..0 -> H] /\ Way([n \in 1..0 |-> x], 0)
        OBVIOUS
      <3> QED BY <3>1
    <2>4. k \in Nat /\ k - 1 \in 0..MaxInsts /\ k - 1 \notin T
      <3>1. k \in 0..MaxInsts
        BY <2>2
      <3>2. k - 1 \in 0..MaxInsts /\ ~(k <= k - 1)
        BY <2>3, <3>1
      <3> HIDE DEF T
      <3> QED BY <2>2, <3>1, <3>2
    <2>5. PICK f \in [1 .. k - 1 -> H] : Way(f, k - 1)
      BY <2>4
    <2> DEFINE g == [n \in 1..k |-> IF n < k THEN f[n] ELSE IF k = 1 THEN x ELSE further[f[k - 1]]]
    <2>6. g \in [1..k -> H]
      BY <1>1, <2>3, <2>4
    <2>7. Way(g, k)
      BY <2>3, <2>4, <2>5
    <2> QED BY <2>6, <2>7
  <1>3. /\ At = [n \in Insts |-> IF n = 1 THEN x ELSE further[At[n - 1]]]
        /\ At \in [Insts -> H]
    <2>1. PICK f \in [1..MaxInsts -> H] : Way(f, MaxInsts)
      BY <1>2
    <2>2. f = [n \in Insts |-> IF n = 1 THEN x ELSE further[f[n - 1]]]
      BY <2>1 DEF Insts
    <2>3. At = [n \in Insts |-> IF n = 1 THEN x ELSE further[At[n - 1]]]
      BY <2>2
    <2> HIDE DEF At
    <2>4. \A n \in Insts : At[n] = f[n]
      <3> DEFINE N == {n \in Insts : At[n] # f[n]}
      <3> SUFFICES ASSUME N # {} PROVE FALSE
        OBVIOUS
      <3>1. N \in SUBSET Nat
        BY DEF Insts
      <3>2. PICK n \in N : \A m \in N : n <= m
        BY <3>1, LeastNat
      <3>3. n # 1 => n - 1 \in Insts /\ n - 1 \notin N
        BY <3>1, <3>2 DEF Insts
      <3>4. At[n] = f[n]
        BY <2>1, <2>3, <3>3 DEF Insts
      <3> QED BY <3>2, <3>4
    <2> QED BY <2>1, <2>3, <2>4 DEF Insts
  <1>4. Follow(x) = [n \in D |-> At[n]]
    BY DEF Follow, further
  <1> HIDE DEF At
  <1>5. \A m \in D : m # 1 => m - 1 \in D
    <2> SUFFICES ASSUME NEW m \in D, m # 1 PROVE m - 1 \in D
      OBVIOUS
    <2>1. m \in Insts /\ m - 1 \in Insts
      BY DEF Insts
    <2>2. At[m] = further[At[m - 1]] /\ At[m - 1] \in H
      BY <1>3, <2>1, Zenon
    <2> QED BY <1>1, <2>1, <2>2
  <1>6. \E k \in 0..MaxInsts : D = 1..k
    <2> DEFINE U == {k \in 1 .. MaxInsts + 1 : k \notin D}
    <2>1. U \in SUBSET Nat /\ MaxInsts + 1 \in U
      BY DEF Insts
    <2>2. PICK k \in U : \A m \in U : k <= m
      BY <2>1, LeastNat
    <2>3. \A m \in 1 .. k - 1 : m \in D
      BY <2>1, <2>2
    <2>4. \A m \in D : m < k
      <3> SUFFICES ASSUME NEW m \in D, ~(m < k) PROVE FALSE
        OBVIOUS
      <3> DEFINE V == {i \in D : ~(i < k)}
      <3>1. V \in SUBSET Nat /\ V # {} /\ k \in Nat \ {0}
        BY <2>2 DEF Insts
      <3>2. PICK i \in V : \A j \in V : i <= j
        BY <3>1, LeastNat
      <3>3. i # k /\ i \in Nat /\ i # 1
        BY <2>2, <3>1, <3>2
      <3>4. i - 1 \in V
        BY <1>5, <3>1, <3>2, <3>3
      <3> QED BY <3>2, <3>3, <3>4
    <2>5. k \in 1 .. MaxInsts + 1 /\ D \subseteq Nat \ {0}
      BY <2>2 DEF Insts
    <2> HIDE DEF D
    <2>6. k - 1 \in 0..MaxInsts
      BY <2>5
    <2>7. D \subseteq 1 .. k - 1 /\ 1 .. k - 1 \subseteq D
      BY <2>3, <2>4, <2>5
    <2> QED BY <2>6, <2>7
  <1>7. \A n \in Insts : further[At[n]] = Further(At[n])
    BY <1>3 DEF further, Further
  <1>8. \A n \in Insts : At[n] = IF n = 1 THEN x ELSE Further(At[n - 1])
    <2> SUFFICES ASSUME NEW n \in Insts PROVE At[n] = IF n = 1 THEN x ELSE Further(At[n - 1])
      OBVIOUS
    <2>1. At[n] = IF n = 1 THEN x ELSE further[At[n - 1]]
      BY <1>3, Zenon
    <2>2. n # 1 => n - 1 \in Insts
      BY DEF Insts
    <2> QED BY <1>7, <2>1, <2>2
  <1>9. PICK k \in 0..MaxInsts : D = 1..k
    BY <1>6
  <1>10. \A n \in Insts : Valid(At[n]) <=> n \in 1..k
    BY <1>9
  <1>11. Follow(x) = [n \in 1..k |-> At[n]]
    <2> HIDE DEF D
    <2> QED BY <1>4, <1>9
  <1> HIDE DEF D
  <1>12. GoesAlong(At, x, k)
    BY <1>8, <1>10, <1>11 DEF GoesAlong
  <1> HIDE DEF At
  <1> QED BY <1>3, <1>12

\* What is met by following next_ is a sequence of instructions that exist, in
\* any set that next_ does not lead out of.
LEMMA FollowStays ==
    ASSUME MaxInsts \in Nat, next \in [Insts -> Links], NEW H, H \subseteq Links, NEW x \in H,
           \A y \in H : Valid(y) => next[y] \in H
    PROVE  Follow(x) \in Seq({y \in H : Valid(y)})
  <1>1. \E At \in [Insts -> H], k \in 0..MaxInsts : GoesAlong(At, x, k)
    BY FollowWay, Zenon
  <1>2. PICK At \in [Insts -> H], k \in 0..MaxInsts :
            /\ \A n \in Insts : Valid(At[n]) <=> n \in 1..k
            /\ Follow(x) = [n \in 1..k |-> At[n]]
    BY <1>1, Zenon DEF GoesAlong
  <1>3. 1..k \subseteq Insts /\ k \in Nat
    BY DEF Insts
  <1>4. [n \in 1..k |-> At[n]] \in [1..k -> {y \in H : Valid(y)}]
    BY <1>2, <1>3
  <1>5. \A S : [1..k -> S] \subseteq Seq(S)
    BY <1>3
  <1> QED BY <1>2, <1>4, <1>5

\* They are met one after the other, from x on.
MetFrom(x, f) ==
    /\ f \in Seq(Insts \ deleted) /\ Len(f) <= MaxInsts
    /\ f = <<>> <=> ~Valid(x)
    /\ f # <<>> => f[1] = x
    /\ \A i \in 1 .. Len(f) - 1 : f[i + 1] = next[f[i]]
    /\ Len(f) < MaxInsts /\ f # <<>> => ~Valid(next[f[Len(f)]])

\* What Follow gives is met along next_, up to the first pointer to no instruction.
LEMMA FollowSteps ==
    ASSUME MaxInsts \in Nat, next \in [Insts -> Links], NEW x \in Links, NEW f, f = Follow(x)
    PROVE  MetFrom(x, f)
  <1>1. \A y \in Links : Valid(y) => next[y] \in Links
    BY DEF Valid
  <1>2. \E At \in [Insts -> Links], k \in 0..MaxInsts : GoesAlong(At, x, k)
    <2>1. \A H : H \subseteq Links /\ x \in H /\ (\A y \in H : Valid(y) => next[y] \in H)
                 => \E At \in [Insts -> H], k \in 0..MaxInsts : GoesAlong(At, x, k)
      BY FollowWay, Zenon
    <2>2. Links \subseteq Links
      OBVIOUS
    <2> QED BY <1>1, <2>1, <2>2, Zenon
  <1>3. PICK At \in [Insts -> Links], k \in 0..MaxInsts :
            /\ \A n \in Insts : At[n] = IF n = 1 THEN x ELSE Further(At[n - 1])
            /\ \A n \in Insts : Valid(At[n]) <=> n \in 1..k
            /\ f = [n \in 1..k |-> At[n]]
    BY <1>2, Zenon DEF GoesAlong
  <1>4. /\ f \in Seq(Insts \ deleted) /\ Len(f) = k /\ k \in Nat
        /\ \A n \in 1..k : n \in Insts /\ f[n] = At[n] /\ Valid(At[n])
    <2>1. k \in Nat /\ \A n \in 1..k : n \in Insts
      BY DEF Insts
    <2>2. \A n \in 1..k : f[n] = At[n] /\ Valid(At[n])
      BY <1>3, <2>1
    <2>3. f \in [1..k -> Insts \ deleted]
      BY <1>3, <2>2 DEF Valid
    <2> QED BY <2>1, <2>2, <2>3
  <1>5. f = <<>> <=> ~Valid(x)
    <2>1. CASE k = 0
      <3>1. f = <<>>
        BY <1>4, <2>1
      <3>2. ASSUME Valid(x) PROVE FALSE
        <4>1. 1 \in Insts
          BY <3>2 DEF Valid, Insts
        <4>2. At[1] = x
          BY <1>3, <4>1
        <4>3. 1 \in 1..k
          BY <1>3, <3>2, <4>1, <4>2
        <4> QED BY <2>1, <4>3
      <3> QED BY <3>1, <3>2
    <2>2. CASE k # 0
      <3>1. 1 \in 1..k
        BY <1>4, <2>2
      <3>2. At[1] = x /\ Valid(x)
        BY <1>3, <1>4, <3>1
      <3>3. f # <<>>
        BY <1>4, <2>2
      <3> QED BY <3>2, <3>3
    <2> QED BY <2>1, <2>2
  <1>6. f # <<>> => f[1] = x
    <2> SUFFICES ASSUME f # <<>> PROVE f[1] = x
      OBVIOUS
    <2>1. 1 \in 1..k
      BY <1>4
    <2> QED BY <1>3, <1>4, <2>1
  <1>7. ASSUME NEW i \in 1 .. k - 1 PROVE f[i + 1] = next[f[i]]
    <2>1. i \in 1..k /\ i + 1 \in 1..k /\ i + 1 # 1 /\ (i + 1) - 1 = i
      BY <1>4
    <2> QED BY <1>3, <1>4, <2>1, SMTT(30) DEF Further
  <1>8. ASSUME k < MaxInsts, f # <<>> PROVE ~Valid(next[f[k]])
    <2>1. k \in 1..k /\ k + 1 \in Insts /\ k + 1 \notin 1..k /\ k + 1 # 1 /\ (k + 1) - 1 = k
      BY <1>4, <1>8 DEF Insts
    <2>2. At[k + 1] = next[f[k]]
      BY <1>3, <1>4, <2>1 DEF Further
    <2> QED BY <1>3, <2>1, <2>2
  <1> QED BY <1>4, <1>5, <1>6, <1>7, <1>8 DEF MetFrom

\* Instructions that exist and lead one to the other are those that are met
\* from the first of them on, and all that are met when the last leads nowhere.
LEMMA FollowChain ==
    ASSUME MaxInsts \in Nat, next \in [Insts -> Links], NEW c \in Seq(Insts \ deleted), c # <<>>,
           Len(c) <= MaxInsts, \A i \in 1 .. Len(c) - 1 : c[i + 1] = next[c[i]]
    PROVE  /\ Follow(c[1]) \in Seq(Insts \ deleted) /\ Len(c) <= Len(Follow(c[1]))
           /\ \A i \in 1..Len(c) : c[i] = Follow(c[1])[i]
           /\ ~Valid(next[c[Len(c)]]) => Follow(c[1]) = c
  <1> DEFINE L == Len(c)
             f == Follow(c[1])
  <1>1. L \in Nat \ {0} /\ \A i \in 1..L : c[i] \in Insts \ deleted
    OBVIOUS
  <1>2. c[1] \in Links /\ Valid(c[1])
    BY <1>1 DEF Links, MaybeInst, Valid
  <1>3. /\ f \in Seq(Insts \ deleted) /\ Len(f) <= MaxInsts /\ f # <<>> /\ f[1] = c[1]
        /\ \A i \in 1 .. Len(f) - 1 : f[i + 1] = next[f[i]]
        /\ Len(f) < MaxInsts => ~Valid(next[f[Len(f)]])
    <2>1. MetFrom(c[1], f)
      BY <1>2, FollowSteps, Zenon
    <2> HIDE DEF f
    <2> QED BY <1>2, <2>1 DEF MetFrom
  <1> HIDE DEF f, L
  <1>4. Len(f) \in Nat \ {0}
    BY <1>3
  <1> DEFINE N == {i \in 1..L : ~(i <= Len(f) /\ f[i] = c[i])}
  <1>5. N = {}
    <2> SUFFICES ASSUME N # {} PROVE FALSE
      OBVIOUS
    <2>1. N \in SUBSET Nat
      OBVIOUS
    <2>2. PICK n \in N : \A m \in N : n <= m
      BY <2>1, LeastNat
    <2>3. n \in 1..L /\ n # 1
      BY <1>3, <1>4, <2>2
    <2>4. n - 1 \in 1..L /\ n - 1 \notin N /\ (n - 1) + 1 = n
      BY <1>1, <2>2, <2>3
    <2>5. n - 1 <= Len(f) /\ f[n - 1] = c[n - 1]
      BY <2>4
    <2>6. c[n] = next[c[n - 1]]
      <3>1. n - 1 \in 1 .. L - 1
        BY <1>1, <2>3
      <3> QED BY <2>4, <3>1 DEF L
    <2>7. CASE n - 1 < Len(f)
      <3>1. n - 1 \in 1 .. Len(f) - 1
        BY <1>4, <2>3, <2>7
      <3> QED BY <1>3, <1>4, <2>2, <2>3, <2>4, <2>5, <2>6, <2>7, <3>1
    <2>8. CASE n - 1 = Len(f)
      <3>1. Len(f) < MaxInsts
        BY <1>1, <1>4, <2>3, <2>8 DEF L
      <3> QED BY <1>1, <1>3, <2>3, <2>5, <2>6, <2>8, <3>1 DEF Valid
    <2> QED BY <1>4, <2>3, <2>5, <2>7, <2>8
  <1>6. L <= Len(f) /\ \A i \in 1..L : c[i] = f[i]
    <2>1. L \in 1..L
      BY <1>1
    <2> QED BY <1>5, <2>1
  <1>7. ASSUME ~Valid(next[c[L]]) PROVE f = c
    <2>1. Len(f) = L
      <3> SUFFICES ASSUME Len(f) # L PROVE FALSE
        OBVIOUS
      <3>1. L \in 1 .. Len(f) - 1 /\ L + 1 \in 1..Len(f) /\ L \in 1..L
        BY <1>1, <1>4, <1>6
      <3>2. f[L + 1] = next[f[L]] /\ f[L] = c[L]
        BY <1>3, <1>6, <3>1
      <3>3. f[L + 1] \in Insts \ deleted
        BY <1>3, <3>1
      <3> QED BY <1>7, <3>2, <3>3 DEF Valid
    <2> QED BY <1>3, <1>6, <2>1 DEF L
  <1> QED BY <1>3, <1>6, <1>7 DEF f, L

-----------------------------------------------------------------------------
\* An entry appended occurs, with all that were there.
LEMMA AppendHas ==
    ASSUME NEW S, NEW s \in Seq(S), NEW x \in S
    PROVE  \A y : y \in ToSet(Append(s, x)) <=> y = x \/ y \in ToSet(s)
  <1> DEFINE t == Append(s, x)
  <1>1. /\ t \in Seq(S) /\ Len(s) \in Nat /\ Len(t) = Len(s) + 1
        /\ \A i \in 1..Len(s) : t[i] = s[i]
        /\ t[Len(s) + 1] = x
    BY AppendEntries
  <1> HIDE DEF t
  <1>2. /\ \A y : y \in ToSet(t) <=> \E i \in 1..Len(t) : t[i] = y
        /\ \A y : y \in ToSet(s) <=> \E i \in 1..Len(s) : s[i] = y
    BY <1>1, Entries
  <1>3. \A y : (\E i \in 1..Len(t) : t[i] = y) <=> y = x \/ \E i \in 1..Len(s) : s[i] = y
    BY <1>1
  <1> QED BY <1>2, <1>3 DEF t

\* The vectors before the split, and after an edge of bb to v has been moved.
Edges == [succ : [BBs -> Seq(BBs)], predec : [BBs -> Seq(BBs)], threw : BOOLEAN]
NowEdges == [succ |-> succ, predec |-> predec, threw |-> FALSE]
Move(e, bb, new_bb, v) == Added(Removed(e, bb, v), new_bb, v)

\* The edges of a block with at most two successors move one after the other.
LEMMA SplitInSteps ==
    ASSUME NEW bb \in BBs, NEW new_bb, succ \in [BBs -> Seq(BBs)], Len(succ[bb]) <= 2
    PROVE  /\ Len(succ[bb]) \in {0, 1, 2}
           /\ Len(succ[bb]) = 0 => SplitEdges(bb, new_bb) = Added(NowEdges, bb, new_bb)
           /\ Len(succ[bb]) = 1 =>
                 SplitEdges(bb, new_bb) = Added(Move(NowEdges, bb, new_bb, succ[bb][1]), bb, new_bb)
           /\ Len(succ[bb]) = 2 =>
                 SplitEdges(bb, new_bb) =
                     Added(Move(Move(NowEdges, bb, new_bb, succ[bb][1]), bb, new_bb, succ[bb][2]), bb, new_bb)
  <1> DEFINE L == Len(succ[bb])
             Step(e, k) == Move(e, bb, new_bb, succ[bb][k])
             Through == CHOOSE f : f = [k \in 0..L |-> IF k = 0 THEN NowEdges ELSE Step(f[k - 1], k)]
             one == Step(NowEdges, 1)
             g == [k \in 0..L |-> IF k = 0 THEN NowEdges ELSE IF k = 1 THEN one ELSE Step(one, 2)]
  <1>1. L \in {0, 1, 2}
    <2>1. succ[bb] \in Seq(BBs) /\ L <= 2
      OBVIOUS
    <2>2. L \in Nat
      BY <2>1
    <2> HIDE DEF L
    <2> QED BY <2>1, <2>2
  <1>2. SplitEdges(bb, new_bb) = Added(Through[L], bb, new_bb)
    BY DEF SplitEdges, NowEdges, Move
  <1> HIDE DEF Step, L
  <1>3. g = [k \in 0..L |-> IF k = 0 THEN NowEdges ELSE Step(g[k - 1], k)]
    <2> DEFINE h == [k \in 0..L |-> IF k = 0 THEN NowEdges ELSE Step(g[k - 1], k)]
    <2>1. ASSUME NEW k \in 0..L PROVE g[k] = h[k]
      <3>1. CASE k = 0
        BY <3>1
      <3>2. CASE k = 1
        <4>1. g[0] = NowEdges /\ g[1] = one /\ h[1] = Step(g[0], 1)
          BY <1>1, <3>2
        <4> QED BY <3>2, <4>1
      <3>3. CASE k = 2
        <4>1. g[1] = one /\ g[2] = Step(one, 2) /\ h[2] = Step(g[1], 2)
          BY <1>1, <3>3
        <4> QED BY <3>3, <4>1
      <3> QED BY <1>1, <3>1, <3>2, <3>3
    <2> QED BY <2>1
  <1> HIDE DEF g
  <1>4. Through = [k \in 0..L |-> IF k = 0 THEN NowEdges ELSE Step(Through[k - 1], k)]
    BY <1>3
  <1> HIDE DEF Through
  <1>5. /\ Through[0] = NowEdges
        /\ L >= 1 => Through[1] = Step(Through[0], 1)
        /\ L = 2 => Through[2] = Step(Through[1], 2)
    <2>1. \A k \in 0..L : Through[k] = IF k = 0 THEN NowEdges ELSE Step(Through[k - 1], k)
      BY <1>4
    <2>2. 0 \in 0..L /\ (L >= 1 => 1 \in 0..L /\ 1 - 1 = 0) /\ (L = 2 => 2 \in 0..L /\ 2 - 1 = 1)
      BY <1>1
    <2> QED BY <2>1, <2>2
  <1>6. /\ L = 0 => SplitEdges(bb, new_bb) = Added(NowEdges, bb, new_bb)
        /\ L = 1 => SplitEdges(bb, new_bb) = Added(Step(NowEdges, 1), bb, new_bb)
        /\ L = 2 => SplitEdges(bb, new_bb) = Added(Step(Step(NowEdges, 1), 2), bb, new_bb)
    <2>1. (L = 1 => L >= 1) /\ (L = 2 => L >= 1)
      OBVIOUS
    <2> QED BY <1>2, <1>5, <2>1, Zenon
  <1> QED BY <1>1, <1>6, Zenon DEF L, Step

\* After an exception nothing is added.
LEMMA AddedNothing ==
    ASSUME NEW e \in Edges, e.threw = TRUE, NEW u, NEW v PROVE Added(e, u, v) = e
  BY DEF Added

\* One edge more at both ends.
LEMMA AddedEdge ==
    ASSUME NEW e \in Edges, e.threw = FALSE, NEW u \in BBs, NEW v \in BBs
    PROVE  /\ Added(e, u, v) \in Edges
           /\ Added(e, u, v) = [succ |-> [e.succ EXCEPT ![u] = Append(e.succ[u], v)],
                                predec |-> [e.predec EXCEPT ![v] = Append(e.predec[v], u)],
                                threw |-> FALSE]
  <1>1. e.succ \in [BBs -> Seq(BBs)] /\ e.predec \in [BBs -> Seq(BBs)]
    BY DEF Edges
  <1>2. /\ Append(e.succ[u], v) \in Seq(BBs)
        /\ Append(e.predec[v], u) \in Seq(BBs)
    BY <1>1, AppendEntries
  <1>3. Added(e, u, v) = [succ |-> [e.succ EXCEPT ![u] = Append(e.succ[u], v)],
                          predec |-> [e.predec EXCEPT ![v] = Append(e.predec[v], u)],
                          threw |-> FALSE]
    BY DEF Added, PushBack, Edges
  <1> QED BY <1>1, <1>2, <1>3 DEF Edges

\* An edge moves when both ends know it, and then it is the last one of each
\* vector that goes; otherwise the call throws, and one entry may be gone.
HasMoved(e, bb, new_bb, v, m) ==
    /\ m \in Edges
    /\ e.threw = TRUE => m = e
    /\ e.threw = FALSE /\ ~Occurs(e.succ, bb, v) =>
          m.threw = TRUE /\ m.succ = e.succ /\ m.predec = e.predec
    /\ e.threw = FALSE /\ Occurs(e.succ, bb, v) => e.succ[bb] # <<>>
    /\ e.threw = FALSE /\ Occurs(e.succ, bb, v) /\ ~Occurs(e.predec, v, bb) =>
          m.threw = TRUE /\ m.succ = [e.succ EXCEPT ![bb] = Front(e.succ[bb])] /\ m.predec = e.predec
    /\ e.threw = FALSE /\ Occurs(e.succ, bb, v) /\ Occurs(e.predec, v, bb) =>
          /\ m.threw = FALSE
          /\ e.predec[v] # <<>>
          /\ m.succ = [e.succ EXCEPT ![bb] = Front(e.succ[bb]), ![new_bb] = Append(e.succ[new_bb], v)]
          /\ m.predec = [e.predec EXCEPT ![v] = Append(Front(e.predec[v]), new_bb)]

\* Moving one edge of SplitBBInTwo does what HasMoved says.
LEMMA MovedEdge ==
    \A e \in Edges, bb, new_bb, v \in BBs : bb # new_bb =>
        HasMoved(e, bb, new_bb, v, Move(e, bb, new_bb, v))
  <1> SUFFICES ASSUME NEW e \in Edges, NEW bb \in BBs, NEW new_bb \in BBs, NEW v \in BBs, bb # new_bb,
                      NEW m, m = Move(e, bb, new_bb, v)
               PROVE  HasMoved(e, bb, new_bb, v, m)
    OBVIOUS
  <1> USE DEF HasMoved
  <1> DEFINE r == Removed(e, bb, v)
  <1>1. e.succ \in [BBs -> Seq(BBs)] /\ e.predec \in [BBs -> Seq(BBs)] /\ e.threw \in BOOLEAN
    BY DEF Edges
  <1>2. e = [succ |-> e.succ, predec |-> e.predec, threw |-> e.threw]
    BY DEF Edges
  <1>3. m = Added(r, new_bb, v)
    BY DEF Move
  <1>4. ASSUME Occurs(e.succ, bb, v) PROVE e.succ[bb] # <<>> /\ Front(e.succ[bb]) \in Seq(BBs)
    <2>1. e.succ[bb] # <<>>
      BY <1>4 DEF Occurs, ToSet
    <2> QED BY <1>1, <2>1, FrontEntries
  <1>5. ASSUME Occurs(e.predec, v, bb) PROVE e.predec[v] # <<>> /\ Front(e.predec[v]) \in Seq(BBs)
    <2>1. e.predec[v] # <<>>
      BY <1>5 DEF Occurs, ToSet
    <2> QED BY <1>1, <2>1, FrontEntries
  <1>6. CASE e.threw = TRUE
    <2>1. r = e
      BY <1>6 DEF Removed
    <2>2. Added(e, new_bb, v) = e
      BY <1>6, AddedNothing
    <2> QED BY <1>3, <1>6, <2>1, <2>2
  <1>7. CASE e.threw = FALSE /\ ~Occurs(e.succ, bb, v)
    <2>1. r = [succ |-> e.succ, predec |-> e.predec, threw |-> TRUE]
      BY <1>2, <1>7 DEF Removed
    <2>2. r \in Edges /\ r.threw = TRUE /\ r.succ = e.succ /\ r.predec = e.predec
      BY <1>1, <2>1 DEF Edges
    <2> HIDE DEF r
    <2>3. Added(r, new_bb, v) = r
      BY <2>2, AddedNothing
    <2> QED BY <1>3, <1>7, <2>2, <2>3
  <1>8. CASE e.threw = FALSE /\ Occurs(e.succ, bb, v) /\ ~Occurs(e.predec, v, bb)
    <2>1. r = [succ |-> [e.succ EXCEPT ![bb] = Front(e.succ[bb])], predec |-> e.predec, threw |-> TRUE]
      BY <1>2, <1>8 DEF Removed, PopBack
    <2>2. /\ r \in Edges /\ r.threw = TRUE
          /\ r.succ = [e.succ EXCEPT ![bb] = Front(e.succ[bb])] /\ r.predec = e.predec
      BY <1>1, <1>4, <1>8, <2>1 DEF Edges
    <2> HIDE DEF r
    <2>3. Added(r, new_bb, v) = r
      BY <2>2, AddedNothing
    <2> QED BY <1>3, <1>4, <1>8, <2>2, <2>3
  <1>9. CASE e.threw = FALSE /\ Occurs(e.succ, bb, v) /\ Occurs(e.predec, v, bb)
    <2>1. r = [succ |-> [e.succ EXCEPT ![bb] = Front(e.succ[bb])],
               predec |-> [e.predec EXCEPT ![v] = Front(e.predec[v])], threw |-> e.threw]
      BY <1>2, <1>9 DEF Removed, PopBack
    <2>2. /\ r \in Edges /\ r.threw = FALSE
          /\ r.succ = [e.succ EXCEPT ![bb] = Front(e.succ[bb])]
          /\ r.predec = [e.predec EXCEPT ![v] = Front(e.predec[v])]
      BY <1>1, <1>4, <1>5, <1>9, <2>1 DEF Edges
    <2> HIDE DEF r
    <2> HIDE DEF r
    <2>7. r \in Edges /\ r.threw = FALSE
      BY <2>2
    <2> DEFINE a == [succ |-> [r.succ EXCEPT ![new_bb] = Append(r.succ[new_bb], v)],
                     predec |-> [r.predec EXCEPT ![v] = Append(r.predec[v], new_bb)],
                     threw |-> FALSE]
    <2>8. Added(r, new_bb, v) \in Edges /\ Added(r, new_bb, v) = a
      <3> HIDE DEF r
      <3> QED BY <2>7, AddedEdge
    <2>3. /\ m \in Edges /\ m.threw = FALSE
          /\ m.succ = [r.succ EXCEPT ![new_bb] = Append(r.succ[new_bb], v)]
          /\ m.predec = [r.predec EXCEPT ![v] = Append(r.predec[v], new_bb)]
      BY <1>3, <2>8
    <2>4. r.succ[new_bb] = e.succ[new_bb] /\ r.predec[v] = Front(e.predec[v])
      BY <1>1, <2>2
    <2>5. m.predec = [e.predec EXCEPT ![v] = Append(Front(e.predec[v]), new_bb)]
      BY <1>1, <2>2, <2>3, <2>4
    <2>6. m.succ = [e.succ EXCEPT ![bb] = Front(e.succ[bb]), ![new_bb] = Append(e.succ[new_bb], v)]
      BY <1>1, <2>2, <2>3, <2>4
    <2> QED BY <1>4, <1>5, <1>9, <2>3, <2>5, <2>6
  <1> QED BY <1>1, <1>6, <1>7, <1>8, <1>9, Zenon

\* What holds of the vectors once k edges of bb have been looked at.
SoFar(e, bb, new_bb, k) ==
    /\ e \in Edges
    /\ \A x \in BBs :
          /\ ToSet(e.succ[x]) \subseteq blocks
          /\ x # new_bb => Len(e.succ[x]) <= 2
          /\ x \notin blocks => e.predec[x] = <<>> /\ (x # new_bb => e.succ[x] = <<>>)
    /\ Len(e.succ[new_bb]) <= k
    /\ e.threw = FALSE => Len(e.succ[bb]) = Len(succ[bb]) - k

\* A block without successors is one without entries.
LEMMA NoEntries == ASSUME NEW S, NEW s \in Seq(S) PROVE Len(s) = 0 <=> s = <<>>
  OBVIOUS

\* It holds before the first edge is looked at.
LEMMA SoFarStart ==
    ASSUME succ \in [BBs -> Seq(BBs)], predec \in [BBs -> Seq(BBs)], EdgesHeld,
           NEW bb \in blocks, NEW new_bb \in BBs, new_bb \notin blocks
    PROVE  SoFar(NowEdges, bb, new_bb, 0)
  <1>1. /\ NowEdges \in Edges
        /\ NowEdges.succ = succ /\ NowEdges.predec = predec
    BY DEF NowEdges, Edges
  <1>2. Len(succ[new_bb]) = 0
    BY DEF EdgesHeld
  <1>3. \A n \in Nat : n - 0 = n
    OBVIOUS
  <1>4. Len(succ[bb]) \in Nat
    <2>1. CASE bb \in BBs
      <3>1. succ[bb] \in Seq(BBs)
        BY <2>1
      <3> QED BY <3>1
    <2>2. CASE bb \notin BBs
      BY <2>2
    <2> QED BY <2>1, <2>2
  <1> QED BY <1>1, <1>2, <1>3, <1>4 DEF SoFar, EdgesHeld

\* Moving one more edge.
LEMMA SoFarMove ==
    ASSUME succ \in [BBs -> Seq(BBs)], NEW bb \in BBs, NEW new_bb \in BBs, bb # new_bb, new_bb \notin blocks,
           bb \in blocks, NEW k \in {0, 1}, NEW e, SoFar(e, bb, new_bb, k), NEW v \in BBs, v \in blocks,
           NEW m, m = Move(e, bb, new_bb, v)
    PROVE  SoFar(m, bb, new_bb, k + 1)
  <1>0. e \in Edges /\ HasMoved(e, bb, new_bb, v, m)
    BY MovedEdge DEF SoFar
  <1>1. /\ e \in Edges /\ m \in Edges
        /\ e.succ \in [BBs -> Seq(BBs)] /\ e.predec \in [BBs -> Seq(BBs)] /\ e.threw \in BOOLEAN
        /\ m.succ \in [BBs -> Seq(BBs)]
    <2>1. e \in Edges
      BY DEF SoFar
    <2>2. m \in Edges
      BY <1>0 DEF HasMoved
    <2> QED BY <2>1, <2>2 DEF Edges
  <1>2. /\ Len(succ[bb]) \in Nat /\ Len(e.succ[bb]) \in Nat /\ Len(e.succ[new_bb]) \in Nat
    BY <1>1
  <1>3. Len(e.succ[new_bb]) <= k /\ k \in Nat
    BY DEF SoFar
  <1>4. ASSUME e.succ[bb] # <<>>
        PROVE  /\ Len(Front(e.succ[bb])) = Len(e.succ[bb]) - 1
               /\ ToSet(Front(e.succ[bb])) \subseteq blocks
               /\ Len(Front(e.succ[bb])) <= 2
    <2>1. e.succ[bb] \in Seq(BBs) /\ ToSet(e.succ[bb]) \subseteq blocks /\ Len(e.succ[bb]) <= 2
      BY <1>1 DEF SoFar
    <2> QED BY <1>4, <2>1, FrontEntries
  <1>5. /\ Len(Append(e.succ[new_bb], v)) = Len(e.succ[new_bb]) + 1
        /\ ToSet(Append(e.succ[new_bb], v)) \subseteq blocks
    <2>1. e.succ[new_bb] \in Seq(BBs) /\ ToSet(e.succ[new_bb]) \subseteq blocks
      BY <1>1 DEF SoFar
    <2> QED BY <2>1, AppendEntries
  <1>6. CASE e.threw = TRUE
    <2>1. m = e
      BY <1>1, <1>6, <1>0 DEF HasMoved
    <2> QED BY <1>1, <1>2, <1>3, <1>6, <2>1 DEF SoFar
  <1>7. CASE e.threw = FALSE /\ ~Occurs(e.succ, bb, v)
    <2>1. m.threw = TRUE /\ m.succ = e.succ /\ m.predec = e.predec
      BY <1>1, <1>7, <1>0 DEF HasMoved
    <2> QED BY <1>1, <1>2, <1>3, <1>7, <2>1 DEF SoFar
  <1>8. CASE e.threw = FALSE /\ Occurs(e.succ, bb, v) /\ ~Occurs(e.predec, v, bb)
    <2>1. m.threw = TRUE /\ m.succ = [e.succ EXCEPT ![bb] = Front(e.succ[bb])] /\ m.predec = e.predec
      BY <1>1, <1>8, <1>0 DEF HasMoved
    <2>2. e.succ[bb] # <<>>
      BY <1>1, <1>8, <1>0 DEF HasMoved
    <2>3. \A x \in BBs : m.succ[x] = IF x = bb THEN Front(e.succ[bb]) ELSE e.succ[x]
      BY <1>1, <2>1
    <2>4. \A x \in BBs : /\ ToSet(m.succ[x]) \subseteq blocks
                         /\ x # new_bb => Len(m.succ[x]) <= 2
                         /\ x \notin blocks /\ x # new_bb => m.succ[x] = <<>>
      BY <1>4, <2>2, <2>3 DEF SoFar
    <2>5. Len(m.succ[new_bb]) <= k + 1
      BY <1>2, <1>3, <2>3
    <2> QED BY <1>1, <2>1, <2>4, <2>5 DEF SoFar
  <1>9. CASE e.threw = FALSE /\ Occurs(e.succ, bb, v) /\ Occurs(e.predec, v, bb)
    <2>1. /\ e.succ[bb] # <<>>
          /\ m.threw = FALSE
          /\ m.succ = [e.succ EXCEPT ![bb] = Front(e.succ[bb]), ![new_bb] = Append(e.succ[new_bb], v)]
          /\ m.predec = [e.predec EXCEPT ![v] = Append(Front(e.predec[v]), new_bb)]
      BY <1>1, <1>9, <1>0 DEF HasMoved
    <2>2. /\ m.succ[bb] = Front(e.succ[bb]) /\ m.succ[new_bb] = Append(e.succ[new_bb], v)
          /\ \A x \in BBs \ {bb, new_bb} : m.succ[x] = e.succ[x]
      BY <1>1, <2>1
    <2>3. \A x \in BBs : x \notin blocks => m.predec[x] = <<>>
      BY <1>1, <2>1 DEF SoFar
    <2>4. \A x \in BBs : /\ ToSet(m.succ[x]) \subseteq blocks
                         /\ x # new_bb => Len(m.succ[x]) <= 2
                         /\ x \notin blocks /\ x # new_bb => m.succ[x] = <<>>
      BY <1>4, <1>5, <2>1, <2>2 DEF SoFar
    <2>5. Len(m.succ[new_bb]) <= k + 1
      BY <1>2, <1>3, <1>5, <2>2
    <2>6. Len(m.succ[bb]) = Len(succ[bb]) - (k + 1)
      <3>1. Len(e.succ[bb]) = Len(succ[bb]) - k
        BY <1>9 DEF SoFar
      <3> QED BY <1>2, <1>3, <1>4, <2>1, <2>2, <3>1, SMTT(30)
    <2> QED BY <1>1, <2>3, <2>4, <2>5, <2>6 DEF SoFar
  <1> QED BY <1>1, <1>6, <1>7, <1>8, <1>9

\* When bb has come to its end: the edge to the new block, unless one threw.
LEMMA SoFarEnd ==
    ASSUME succ \in [BBs -> Seq(BBs)], NEW bb \in BBs, NEW new_bb \in BBs, bb # new_bb, new_bb \notin blocks,
           bb \in blocks, Len(succ[bb]) <= 2, NEW e, SoFar(e, bb, new_bb, Len(succ[bb])),
           NEW a, a = Added(e, bb, new_bb)
    PROVE  /\ a \in Edges
           /\ \A x \in BBs :
                 /\ Len(a.succ[x]) <= 2 /\ ToSet(a.succ[x]) \subseteq blocks \cup {new_bb}
                 /\ x \notin blocks \cup {new_bb} => a.succ[x] = <<>> /\ a.predec[x] = <<>>
  <1>1. /\ e \in Edges
        /\ e.succ \in [BBs -> Seq(BBs)] /\ e.predec \in [BBs -> Seq(BBs)] /\ e.threw \in BOOLEAN
    BY DEF SoFar, Edges
  <1>2. \A x \in BBs : Len(e.succ[x]) \in Nat /\ Len(e.succ[x]) <= 2
    <2>1. Len(e.succ[new_bb]) <= Len(succ[bb]) /\ Len(succ[bb]) \in Nat /\ Len(e.succ[new_bb]) \in Nat
      BY <1>1 DEF SoFar
    <2>2. Len(e.succ[new_bb]) <= 2
      BY <2>1
    <2> QED BY <1>1, <2>2 DEF SoFar
  <1>3. CASE e.threw = TRUE
    <2>1. a = e
      BY <1>1, <1>3, AddedNothing
    <2> QED BY <1>1, <1>2, <2>1 DEF SoFar
  <1>4. CASE e.threw = FALSE
    <2> DEFINE b == [succ |-> [e.succ EXCEPT ![bb] = Append(e.succ[bb], new_bb)],
                     predec |-> [e.predec EXCEPT ![new_bb] = Append(e.predec[new_bb], bb)],
                     threw |-> FALSE]
    <2>1. a \in Edges /\ a = b
      BY <1>1, <1>4, AddedEdge
    <2>2. /\ a.succ = [e.succ EXCEPT ![bb] = Append(e.succ[bb], new_bb)]
          /\ a.predec = [e.predec EXCEPT ![new_bb] = Append(e.predec[new_bb], bb)]
      BY <2>1
    <2>3. e.succ[bb] = <<>>
      <3>1. Len(e.succ[bb]) = Len(succ[bb]) - Len(succ[bb]) /\ Len(succ[bb]) \in Nat
        BY <1>4 DEF SoFar
      <3> QED BY <1>1, <3>1, NoEntries
    <2>4. Len(Append(e.succ[bb], new_bb)) = 1 /\ ToSet(Append(e.succ[bb], new_bb)) = {new_bb}
      <3>1. /\ Len(Append(e.succ[bb], new_bb)) = Len(e.succ[bb]) + 1
            /\ ToSet(Append(e.succ[bb], new_bb)) = ToSet(e.succ[bb]) \cup {new_bb}
        BY <1>1, AppendEntries
      <3>2. Len(e.succ[bb]) = 0 /\ ToSet(e.succ[bb]) = {}
        BY <2>3 DEF ToSet
      <3> QED BY <3>1, <3>2
    <2>5. \A x \in BBs : a.succ[x] = IF x = bb THEN Append(e.succ[bb], new_bb) ELSE e.succ[x]
      BY <1>1, <2>2
    <2>6. \A x \in BBs \ {new_bb} : a.predec[x] = e.predec[x]
      BY <1>1, <2>2
    <2> QED BY <1>2, <2>1, <2>4, <2>5, <2>6 DEF SoFar
  <1> QED BY <1>1, <1>3, <1>4

\* Moving the edges of a block to a new one, and failing to, gives no block a
\* third successor and links nothing but the blocks there are.
LEMMA SplitEdgesHeld ==
    ASSUME succ \in [BBs -> Seq(BBs)], predec \in [BBs -> Seq(BBs)], EdgesHeld,
           NEW bb \in BBs, bb \in blocks, NEW new_bb \in BBs, new_bb \notin blocks,
           NEW a, a = SplitEdges(bb, new_bb)
    PROVE  /\ a \in Edges
           /\ \A x \in BBs :
                 /\ Len(a.succ[x]) <= 2 /\ ToSet(a.succ[x]) \subseteq blocks \cup {new_bb}
                 /\ x \notin blocks \cup {new_bb} => a.succ[x] = <<>> /\ a.predec[x] = <<>>
  <1> DEFINE one == Move(NowEdges, bb, new_bb, succ[bb][1])
             two == Move(one, bb, new_bb, succ[bb][2])
  <1>1. /\ succ[bb] \in Seq(BBs) /\ Len(succ[bb]) <= 2 /\ bb # new_bb
        /\ \A i \in 1..Len(succ[bb]) : succ[bb][i] \in BBs /\ succ[bb][i] \in blocks
    <2>1. succ[bb] \in Seq(BBs) /\ Len(succ[bb]) <= 2 /\ ToSet(succ[bb]) \subseteq blocks
      BY DEF EdgesHeld
    <2> QED BY <2>1, Entries
  <1>2. SoFar(NowEdges, bb, new_bb, 0)
    BY SoFarStart
  <1>3. Len(succ[bb]) # 0 => SoFar(one, bb, new_bb, 1)
    <2> SUFFICES ASSUME Len(succ[bb]) # 0 PROVE SoFar(one, bb, new_bb, 0 + 1)
      OBVIOUS
    <2>1. 1 \in 1..Len(succ[bb])
      BY <1>1
    <2>2. succ[bb][1] \in BBs /\ succ[bb][1] \in blocks
      BY <1>1, <2>1
    <2> QED BY <1>1, <1>2, <2>2, SoFarMove
  <1>4. Len(succ[bb]) = 2 => SoFar(two, bb, new_bb, 2)
    <2> SUFFICES ASSUME Len(succ[bb]) = 2 PROVE SoFar(two, bb, new_bb, 1 + 1)
      OBVIOUS
    <2>1. succ[bb][2] \in BBs /\ succ[bb][2] \in blocks
      BY <1>1
    <2> HIDE DEF one
    <2> QED BY <1>1, <1>3, <2>1, SoFarMove
  <1>5. /\ Len(succ[bb]) \in {0, 1, 2}
        /\ Len(succ[bb]) = 0 => a = Added(NowEdges, bb, new_bb)
        /\ Len(succ[bb]) = 1 => a = Added(one, bb, new_bb)
        /\ Len(succ[bb]) = 2 => a = Added(two, bb, new_bb)
    BY <1>1, SplitInSteps
  <1> HIDE DEF one, two
  <1>6. \E e : SoFar(e, bb, new_bb, Len(succ[bb])) /\ a = Added(e, bb, new_bb)
    BY <1>2, <1>3, <1>4, <1>5
  <1>7. PICK e : SoFar(e, bb, new_bb, Len(succ[bb])) /\ a = Added(e, bb, new_bb)
    BY <1>6
  <1> QED BY <1>1, <1>7, SoFarEnd

-----------------------------------------------------------------------------
\* A block without successors is simply linked to the new one.
LEMMA SplitNone ==
    ASSUME succ \in [BBs -> Seq(BBs)], predec \in [BBs -> Seq(BBs)], EdgesHeld, MirroredEdges(succ, predec),
           NEW bb \in BBs, bb \in blocks, NEW new_bb \in BBs, new_bb \notin blocks,
           Len(succ[bb]) = 0, NEW a, a = SplitEdges(bb, new_bb)
    PROVE  /\ a.threw = FALSE
           /\ a.succ = [succ EXCEPT ![bb] = <<new_bb>>, ![new_bb] = succ[bb]]
           /\ MirroredEdges(a.succ, a.predec)
  <1>1. succ[bb] = <<>> /\ succ[new_bb] = <<>> /\ predec[new_bb] = <<>> /\ bb # new_bb
    <2>1. succ[bb] \in Seq(BBs)
      OBVIOUS
    <2> QED BY <2>1, NoEntries DEF EdgesHeld
  <1>2. /\ NowEdges \in Edges /\ NowEdges.threw = FALSE
        /\ NowEdges.succ = succ /\ NowEdges.predec = predec
    BY DEF NowEdges, Edges
  <1>3. a = Added(NowEdges, bb, new_bb)
    BY SplitInSteps
  <1>4. Append(succ[bb], new_bb) = <<new_bb>> /\ Append(predec[new_bb], bb) = <<bb>>
    BY <1>1
  <1>5. /\ a.threw = FALSE
        /\ a.succ = [succ EXCEPT ![bb] = <<new_bb>>]
        /\ a.predec = [predec EXCEPT ![new_bb] = <<bb>>]
    <2>1. a = [succ |-> [succ EXCEPT ![bb] = <<new_bb>>], predec |-> [predec EXCEPT ![new_bb] = <<bb>>],
               threw |-> FALSE]
      BY <1>2, <1>3, <1>4, AddedEdge
    <2> QED BY <2>1
  <1>6. a.succ = [succ EXCEPT ![bb] = <<new_bb>>, ![new_bb] = succ[bb]]
    BY <1>1, <1>5
  <1>7. /\ DOMAIN a.succ = BBs
        /\ \A x \in BBs : a.succ[x] = IF x = bb THEN <<new_bb>> ELSE succ[x]
        /\ \A x \in BBs : a.predec[x] = IF x = new_bb THEN <<bb>> ELSE predec[x]
    BY <1>5
  <1>8. ToSet(<<new_bb>>) = {new_bb} /\ ToSet(<<bb>>) = {bb} /\ ToSet(<<>>) = {}
    BY DEF ToSet
  <1>9. NoDuplicates(<<new_bb>>) /\ NoDuplicates(<<bb>>)
    BY DEF NoDuplicates
  <1>10. \A x \in BBs : NoDuplicates(a.succ[x]) /\ NoDuplicates(a.predec[x])
    BY <1>7, <1>9 DEF MirroredEdges
  <1>11. ASSUME NEW u \in BBs, NEW w \in BBs
         PROVE  Occurs(a.succ, u, w) <=> Occurs(a.predec, w, u)
    <2>1. w \in ToSet(succ[u]) <=> u \in ToSet(predec[w])
      BY DEF MirroredEdges, Occurs
    <2>2. new_bb \notin ToSet(succ[u])
      BY DEF EdgesHeld
    <2> QED BY <1>1, <1>7, <1>8, <2>1, <2>2 DEF Occurs
  <1> QED BY <1>5, <1>6, <1>7, <1>10, <1>11 DEF MirroredEdges

\* The only successor goes to the new block, which knows bb.  The successor
\* forgets the last of its predecessors.
LEMMA SplitOne ==
    ASSUME succ \in [BBs -> Seq(BBs)], predec \in [BBs -> Seq(BBs)], EdgesHeld, MirroredEdges(succ, predec),
           NEW bb \in BBs, bb \in blocks, NEW new_bb \in BBs, new_bb \notin blocks,
           Len(succ[bb]) = 1, NEW v, v = succ[bb][1], NEW a, a = SplitEdges(bb, new_bb)
    PROVE  /\ ToSet(succ[bb]) = {v}
           /\ a.threw = FALSE
           /\ a.succ = [succ EXCEPT ![bb] = <<new_bb>>, ![new_bb] = succ[bb]]
           /\ MirroredEdges(a.succ, a.predec) <=> Last(predec[v]) = bb
  <1> DEFINE p == predec[v]
             q == Append(Front(p), new_bb)
             m == Move(NowEdges, bb, new_bb, v)
  <1>1. /\ succ[bb] \in Seq(BBs) /\ succ[bb] # <<>> /\ ToSet(succ[bb]) = {v} /\ v \in BBs /\ v \in blocks
        /\ succ[bb] = <<v>> /\ bb # new_bb /\ v # new_bb
    <2>0. succ[bb] \in Seq(BBs) /\ ToSet(succ[bb]) \subseteq blocks
      BY DEF EdgesHeld
    <2>1. succ[bb] \in Seq(BBs) /\ succ[bb] # <<>> /\ ToSet(succ[bb]) \subseteq blocks
      <3>1. Len(succ[bb]) # 0
        OBVIOUS
      <3> QED BY <2>0, <3>1, NoEntries, Zenon
    <2>2. \A x : x \in ToSet(succ[bb]) <=> \E i \in 1..1 : succ[bb][i] = x
      <3>1. \A x : x \in ToSet(succ[bb]) <=> \E i \in 1..Len(succ[bb]) : succ[bb][i] = x
        BY <2>1, Entries, Zenon
      <3> QED BY <3>1
    <2>3. ToSet(succ[bb]) = {v}
      BY <2>2
    <2>4. v \in BBs /\ succ[bb] = <<v>>
      BY <2>1
    <2> QED BY <2>1, <2>3, <2>4
  <1>2. succ[new_bb] = <<>> /\ predec[new_bb] = <<>>
    BY DEF EdgesHeld
  <1>3. \A u, w \in BBs : w \in ToSet(succ[u]) <=> u \in ToSet(predec[w])
    BY DEF MirroredEdges, Occurs
  <1>4. /\ p \in Seq(BBs) /\ bb \in ToSet(p) /\ p # <<>> /\ new_bb \notin ToSet(p) /\ NoDuplicates(p)
    <2>1. p \in Seq(BBs) /\ bb \in ToSet(p)
      BY <1>1, <1>3
    <2>2. ToSet(succ[new_bb]) = {} /\ ToSet(<<>>) = {}
      BY <1>2 DEF ToSet
    <2>3. new_bb \notin ToSet(p)
      BY <1>1, <1>3, <2>2
    <2>4. p # <<>>
      BY <2>1, <2>2
    <2>5. NoDuplicates(p)
      BY <1>1 DEF MirroredEdges
    <2> QED BY <2>1, <2>3, <2>4, <2>5
  <1>5. /\ NowEdges \in Edges /\ NowEdges.threw = FALSE
        /\ NowEdges.succ = succ /\ NowEdges.predec = predec
    BY DEF NowEdges, Edges
  <1>6. a = Added(m, bb, new_bb)
    <2>1. Len(succ[bb]) <= 2
      OBVIOUS
    <2> QED BY <2>1, SplitInSteps
  <1>7. Front(succ[bb]) = <<>> /\ Append(succ[new_bb], v) = <<v>>
    <2>1. Front(succ[bb]) \in Seq(BBs) /\ Len(Front(succ[bb])) = 1 - 1
      BY <1>1, FrontEntries, Zenon
    <2> QED BY <1>2, <2>1, NoEntries
  <1>8. HasMoved(NowEdges, bb, new_bb, v, m)
    BY <1>1, <1>5, MovedEdge
  <1> HIDE DEF m
  <1>9. /\ m \in Edges /\ m.threw = FALSE
        /\ m.succ = [succ EXCEPT ![bb] = <<>>, ![new_bb] = <<v>>]
        /\ m.predec = [predec EXCEPT ![v] = q]
    <2>1. Occurs(succ, bb, v) /\ Occurs(predec, v, bb)
      BY <1>1, <1>4 DEF Occurs
    <2> QED BY <1>5, <1>7, <1>8, <2>1 DEF HasMoved
  <1> HIDE DEF q
  <1>10. /\ m.succ[bb] = <<>> /\ m.predec[new_bb] = <<>>
         /\ Append(m.succ[bb], new_bb) = <<new_bb>> /\ Append(m.predec[new_bb], bb) = <<bb>>
    <2>1. m.succ[bb] = <<>>
      BY <1>1, <1>9
    <2>2. m.predec[new_bb] = <<>>
      BY <1>1, <1>2, <1>9
    <2> QED BY <2>1, <2>2
  <1>11. /\ a.threw = FALSE
         /\ a.succ = [m.succ EXCEPT ![bb] = <<new_bb>>]
         /\ a.predec = [m.predec EXCEPT ![new_bb] = <<bb>>]
    <2>1. a = [succ |-> [m.succ EXCEPT ![bb] = <<new_bb>>], predec |-> [m.predec EXCEPT ![new_bb] = <<bb>>],
               threw |-> FALSE]
      <3>1. Added(m, bb, new_bb) = [succ |-> [m.succ EXCEPT ![bb] = Append(m.succ[bb], new_bb)],
                                    predec |-> [m.predec EXCEPT ![new_bb] = Append(m.predec[new_bb], bb)],
                                    threw |-> FALSE]
        <4>1. m \in Edges /\ m.threw = FALSE
          BY <1>9
        <4> QED BY <4>1, AddedEdge
      <3> QED BY <1>6, <1>10, <3>1
    <2> QED BY <2>1
  <1>12. /\ DOMAIN a.succ = BBs
         /\ a.succ[bb] = <<new_bb>> /\ a.succ[new_bb] = <<v>>
         /\ \A x \in BBs \ {bb, new_bb} : a.succ[x] = succ[x]
         /\ a.predec[new_bb] = <<bb>> /\ a.predec[v] = q
         /\ \A x \in BBs \ {v, new_bb} : a.predec[x] = predec[x]
    BY <1>1, <1>9, <1>11
  <1>13. a.succ = [succ EXCEPT ![bb] = <<new_bb>>, ![new_bb] = succ[bb]]
    BY <1>1, <1>9, <1>11
  <1>14. /\ ToSet(<<new_bb>>) = {new_bb} /\ ToSet(<<bb>>) = {bb} /\ ToSet(<<v>>) = {v}
         /\ NoDuplicates(<<new_bb>>) /\ NoDuplicates(<<bb>>) /\ NoDuplicates(<<v>>)
    <2>1. \A x : ToSet(<<x>>) = {x}
      BY DEF ToSet
    <2>2. \A x : NoDuplicates(<<x>>)
      BY DEF NoDuplicates
    <2> QED BY <2>1, <2>2
  <1>15. /\ ToSet(q) = (ToSet(p) \ {Last(p)}) \cup {new_bb}
         /\ NoDuplicates(q)
    <2>1. /\ Front(p) \in Seq(BBs) /\ NoDuplicates(Front(p)) /\ ToSet(Front(p)) = ToSet(p) \ {Last(p)}
      BY <1>4, FrontEntries, PopKeepsDistinct
    <2>2. new_bb \notin ToSet(Front(p))
      BY <1>4, <2>1
    <2> DEFINE f == Front(p)
    <2> HIDE DEF f
    <2>3. f \in Seq(BBs) /\ NoDuplicates(f) /\ new_bb \notin ToSet(f)
      BY <2>1, <2>2 DEF f
    <2>4. ToSet(Append(f, new_bb)) = ToSet(f) \cup {new_bb}
      BY <2>3, AppendEntries
    <2>5. NoDuplicates(Append(f, new_bb))
      BY <2>3, PushKeepsDistinct
    <2> QED BY <2>1, <2>4, <2>5 DEF q, f
  <1>16. \A x \in BBs : NoDuplicates(a.succ[x]) /\ NoDuplicates(a.predec[x])
    BY <1>12, <1>14, <1>15 DEF MirroredEdges
  <1>17. /\ ToSet(a.succ[bb]) = {new_bb} /\ ToSet(a.succ[new_bb]) = {v}
         /\ \A x \in BBs \ {bb, new_bb} : ToSet(a.succ[x]) = ToSet(succ[x])
         /\ ToSet(a.predec[new_bb]) = {bb} /\ ToSet(a.predec[v]) = (ToSet(p) \ {Last(p)}) \cup {new_bb}
         /\ \A x \in BBs \ {v, new_bb} : ToSet(a.predec[x]) = ToSet(predec[x])
    BY <1>12, <1>14, <1>15
  <1>20. ASSUME Last(p) = bb, NEW u \in BBs, NEW w \in BBs
         PROVE  w \in ToSet(a.succ[u]) <=> u \in ToSet(a.predec[w])
    <2>1. new_bb \notin ToSet(succ[u]) /\ ToSet(succ[bb]) = {v} /\ v # new_bb /\ bb # new_bb /\ v \in BBs
      BY <1>1 DEF EdgesHeld
    <2>2. ToSet(succ[new_bb]) = {}
      BY <1>2 DEF ToSet
    <2>3. w \in ToSet(succ[u]) <=> u \in ToSet(predec[w])
      BY <1>3
    <2>4. CASE u = bb
      BY <1>17, <1>20, <2>1, <2>3, <2>4
    <2>5. CASE u = new_bb
      <3>1. new_bb \notin ToSet(predec[w]) /\ ToSet(a.succ[u]) = {v}
        BY <1>17, <2>2, <2>3, <2>5
      <3>2. CASE w = v
        BY <1>17, <2>5, <3>1, <3>2
      <3>3. CASE w = new_bb
        BY <1>17, <2>1, <2>5, <3>1, <3>3
      <3>4. CASE w # v /\ w # new_bb
        BY <1>17, <2>5, <3>1, <3>4
      <3> QED BY <3>2, <3>3, <3>4
    <2>6. CASE u # bb /\ u # new_bb
      BY <1>17, <1>20, <2>1, <2>3, <2>6
    <2> QED BY <2>4, <2>5, <2>6
  <1>18. ASSUME Last(p) # bb PROVE ~MirroredEdges(a.succ, a.predec)
    <2>1. bb \in ToSet(a.predec[v]) /\ v \notin ToSet(a.succ[bb])
      BY <1>1, <1>4, <1>17, <1>18
    <2> QED BY <1>1, <1>12, <2>1 DEF MirroredEdges, Occurs
  <1> HIDE DEF p
  <1>19. MirroredEdges(a.succ, a.predec) <=> Last(p) = bb
    BY <1>12, <1>16, <1>18, <1>20 DEF MirroredEdges, Occurs
  <1> QED BY <1>1, <1>11, <1>13, <1>19 DEF p

\* Of two successors the first is moved, with the entry of the second, which is
\* then looked for in vain.
LEMMA SplitTwo ==
    ASSUME succ \in [BBs -> Seq(BBs)], predec \in [BBs -> Seq(BBs)], EdgesHeld, MirroredEdges(succ, predec),
           NEW bb \in BBs, bb \in blocks, NEW new_bb \in BBs, new_bb \notin blocks,
           Len(succ[bb]) = 2, NEW a, a = SplitEdges(bb, new_bb)
    PROVE  /\ a.threw = TRUE /\ ~MirroredEdges(a.succ, a.predec)
           /\ \E x \in BBs : Occurs(a.succ, new_bb, x)
  <1> DEFINE v == succ[bb][1]
             w == succ[bb][2]
             m == Move(NowEdges, bb, new_bb, v)
             n == Move(m, bb, new_bb, w)
  <1>1. /\ succ[bb] \in Seq(BBs) /\ succ[bb] # <<>> /\ v \in BBs /\ w \in BBs /\ v # w
        /\ v \in ToSet(succ[bb]) /\ w \in ToSet(succ[bb]) /\ bb # new_bb /\ w \in blocks /\ v \in blocks
    <2>0. succ[bb] \in Seq(BBs) /\ ToSet(succ[bb]) \subseteq blocks
      BY DEF EdgesHeld
    <2>1. succ[bb] \in Seq(BBs) /\ succ[bb] # <<>> /\ ToSet(succ[bb]) \subseteq blocks
      <3>1. Len(succ[bb]) # 0
        OBVIOUS
      <3> QED BY <2>0, <3>1, NoEntries, Zenon
    <2>2. 1 \in DOMAIN succ[bb] /\ 2 \in DOMAIN succ[bb]
      BY <2>1
    <2>3. v # w
      <3>1. NoDuplicates(succ[bb])
        BY DEF MirroredEdges
      <3>2. 1 # 2
        OBVIOUS
      <3> QED BY <2>2, <3>1, <3>2 DEF NoDuplicates
    <2>4. v \in ToSet(succ[bb]) /\ w \in ToSet(succ[bb])
      BY <2>2 DEF ToSet
    <2> QED BY <2>1, <2>3, <2>4, Entries
  <1>2. v \in ToSet(succ[bb]) /\ bb \in ToSet(predec[v]) /\ bb \in ToSet(predec[w])
    BY <1>1 DEF MirroredEdges, Occurs
  <1>3. /\ NowEdges \in Edges /\ NowEdges.threw = FALSE
        /\ NowEdges.succ = succ /\ NowEdges.predec = predec
    BY DEF NowEdges, Edges
  <1>4. a = Added(n, bb, new_bb)
    <2>1. Len(succ[bb]) <= 2
      OBVIOUS
    <2> QED BY <2>1, SplitInSteps
  <1>5. HasMoved(NowEdges, bb, new_bb, v, m)
    BY <1>1, <1>3, MovedEdge
  <1>6. m \in Edges
    BY <1>5 DEF HasMoved
  <1>7. HasMoved(m, bb, new_bb, w, n)
    <2> HIDE DEF m, w
    <2> QED BY <1>1, <1>6, MovedEdge
  <1> HIDE DEF v, w, m, n
  <1>8. /\ m.threw = FALSE
        /\ m.succ = [succ EXCEPT ![bb] = Front(succ[bb]), ![new_bb] = Append(succ[new_bb], v)]
        /\ m.predec = [predec EXCEPT ![v] = Append(Front(predec[v]), new_bb)]
    <2>1. Occurs(succ, bb, v) /\ Occurs(predec, v, bb)
      BY <1>2 DEF Occurs
    <2> QED BY <1>3, <1>5, <2>1 DEF HasMoved
  <1>9. ToSet(m.succ[bb]) = {v}
    <2>1. m.succ[bb] = Front(succ[bb])
      BY <1>1, <1>8
    <2>2. /\ Front(succ[bb]) \in Seq(BBs) /\ Len(Front(succ[bb])) = 2 - 1
          /\ \A i \in 1 .. 2 - 1 : Front(succ[bb])[i] = succ[bb][i]
      BY <1>1, FrontEntries, Zenon
    <2>3. \A x : x \in ToSet(Front(succ[bb])) <=> \E i \in 1 .. 2 - 1 : Front(succ[bb])[i] = x
      <3> DEFINE f == Front(succ[bb])
      <3> HIDE DEF f
      <3>1. f \in Seq(BBs)
        BY <2>2 DEF f
      <3>2. \A x : x \in ToSet(f) <=> \E i \in 1..Len(f) : f[i] = x
        BY <3>1, Entries
      <3> QED BY <2>2, <3>2 DEF f
    <2> QED BY <2>1, <2>2, <2>3 DEF v
  <1>10. n.threw = TRUE /\ n.succ = m.succ /\ n.predec = m.predec
    <2>1. ~Occurs(m.succ, bb, w)
      BY <1>1, <1>9 DEF Occurs
    <2> QED BY <1>7, <1>8, <2>1 DEF HasMoved
  <1>11. a = n
    <2>1. n \in Edges
      BY <1>7 DEF HasMoved
    <2> QED BY <1>4, <1>10, <2>1, AddedNothing
  <1>12. m.predec[w] = predec[w]
    BY <1>1, <1>8
  <1>13. bb \in ToSet(a.predec[w]) /\ w \notin ToSet(a.succ[bb]) /\ DOMAIN a.succ = BBs
    BY <1>1, <1>2, <1>8, <1>9, <1>10, <1>11, <1>12
  <1>14. Occurs(a.succ, new_bb, v)
    <2>1. succ[new_bb] \in Seq(BBs)
      OBVIOUS
    <2>2. a.succ = [[succ EXCEPT ![bb] = Front(succ[bb])] EXCEPT ![new_bb] = Append(succ[new_bb], v)]
      BY <1>8, <1>10, <1>11, Zenon
    <2>3. a.succ[new_bb] = Append(succ[new_bb], v)
      BY <2>2
    <2> QED BY <1>1, <2>1, <2>3, AppendHas DEF Occurs
  <1> QED BY <1>1, <1>10, <1>11, <1>13, <1>14 DEF MirroredEdges, Occurs

-----------------------------------------------------------------------------
\* What a call is, and what it leaves behind: the types of everything but the
\* pointers, which PointersHeld says more of.
Calls == [op : Ops, bb : BBs \cup {Null}, inst : MaybeInst, outcome : {"returned", "threw", "undefined"}]

\* A call that keeps the invariant of pointers and edges keeps all of it.
LEMMA HeldSuffices ==
    ASSUME IInv, PointersHeld', EdgesHeld', blocks' \subseteq BBs, deleted' \subseteq Insts,
           graph_' \in [BBs -> Graphs \cup {Null, Wild}],
           succ' \in [BBs -> Seq(BBs)], predec' \in [BBs -> Seq(BBs)],
           bb_set' \in [Graphs -> SUBSET BBs], \A g \in Graphs : root'[g] \in bb_set'[g] \cup {Null},
           call' \in Calls
    PROVE  IInv'
  <1>1. /\ next' \in [Insts -> Links] /\ prev' \in [Insts -> Links] /\ parent' \in [Insts -> BBs \cup {Null}]
        /\ first_inst' \in [BBs -> Links] /\ last_inst' \in [BBs -> Links]
        /\ first' \in [Graphs -> Links] /\ last' \in [Graphs -> Links]
    <2> DEFINE H == HeldLinks'
    <2>1. H \subseteq Links
      BY DEF HeldLinks, Links, MaybeInst
    <2>2. /\ next' \in [Insts -> H] /\ prev' \in [Insts -> H] /\ parent' \in [Insts -> blocks' \cup {Null}]
          /\ first_inst' \in [BBs -> H] /\ last_inst' \in [BBs -> H]
          /\ first' \in [Graphs -> H] /\ last' \in [Graphs -> H]
      BY DEF PointersHeld
    <2> HIDE DEF H
    <2>3. \A A : [A -> H] \subseteq [A -> Links]
      BY <2>1
    <2> QED BY <2>2, <2>3
  <1> QED BY <1>1 DEF IInv, TypeOK, Calls

\* An instruction a block holds stays one when blocks are made and when it
\* comes to another block.
LEMMA HeldGrows ==
    ASSUME blocks \subseteq blocks', \A x \in Insts : parent[x] \in blocks => parent'[x] \in blocks'
    PROVE  HeldLinks \subseteq HeldLinks'
  BY DEF HeldLinks

\* first_ and last_ of a graph stay as they are or move to the instruction.
LEMMA MovedStays ==
    ASSUME NEW H, NEW pointers \in [Graphs -> H], NEW bb, NEW field, NEW inst \in H,
           NEW q \in Moved(pointers, bb, field, inst)
    PROVE  q \in [Graphs -> H]
  <1>1. q \in {pointers, [pointers EXCEPT ![graph_[bb]] = inst]}
    BY DEF Moved
  <1> QED BY <1>1

\* Where the instructions of a graph are met, and what is met after one of them.
LEMMA ListHeld ==
    ASSUME IInv, PointersHeld, NEW x \in HeldLinks
    PROVE  /\ Follow(x) \in Seq({y \in Insts \ deleted : parent[y] \in blocks})
           /\ ToSet(Follow(x)) \subseteq {y \in Insts \ deleted : parent[y] \in blocks}
  <1>1. MaxInsts \in Nat /\ next \in [Insts -> Links] /\ next \in [Insts -> HeldLinks] /\ HeldLinks \subseteq Links
    <2>1. HeldLinks \subseteq Links
      BY DEF HeldLinks, Links, MaybeInst
    <2> QED BY <2>1, LayoutAssumption DEF IInv, TypeOK, PointersHeld
  <1>2. \A y \in HeldLinks : Valid(y) => next[y] \in HeldLinks
    BY <1>1 DEF Valid
  <1>3. Follow(x) \in Seq({y \in HeldLinks : Valid(y)})
    BY <1>1, <1>2, FollowStays
  <1>4. {y \in HeldLinks : Valid(y)} \subseteq {y \in Insts \ deleted : parent[y] \in blocks}
    <2>1. Null \notin Insts /\ Wild \notin Insts
      BY LayoutAssumption DEF Insts, Null, MaybeInst
    <2> QED BY <2>1 DEF HeldLinks, Valid
  <1>5. Follow(x) \in Seq({y \in Insts \ deleted : parent[y] \in blocks})
    BY <1>3, <1>4, SeqGrows
  <1> QED BY <1>5, Entries

\* A call without a meaning changes nothing but the record of it.
LEMMA UndefinedKeeps ==
    ASSUME IInv, Ready, NEW op \in Ops, NEW bb \in BBs \cup {Null}, NEW inst \in MaybeInst,
           Undefined(op, bb, inst)
    PROVE  IInv'
  BY DEF IInv, Ready, Undefined, Ends, TypeOK, PointersHeld, EdgesHeld, HeldLinks,
         linkVars, blockVars, edgeVars, graphVars

\* The insertions and replacements in one block.
LEMMA EditKeeps ==
    ASSUME IInv, Ready, NEW bb \in blocks, NEW inst \in Insts, NEW op \in Ops,
           Ends(op, bb, inst, "returned"),
           parent' = [parent EXCEPT ![inst] = bb],
           next' \in [Insts -> HeldLinks \cup {inst}], prev' \in [Insts -> HeldLinks \cup {inst}],
           first_inst' \in [BBs -> HeldLinks \cup {inst}], last_inst' \in [BBs -> HeldLinks \cup {inst}],
           first' \in [Graphs -> HeldLinks \cup {inst}], last' \in [Graphs -> HeldLinks \cup {inst}],
           UNCHANGED <<deleted, blocks, graph_, edgeVars, root, bb_set>>
    PROVE  IInv'
  <1>1. PointersHeld /\ EdgesHeld /\ TypeOK
    BY DEF IInv, Ready
  <1>2. HeldLinks \cup {inst} \subseteq HeldLinks'
    <2>1. \A x \in Insts : parent[x] \in blocks => parent'[x] \in blocks'
      BY <1>1 DEF PointersHeld
    <2>2. HeldLinks \subseteq HeldLinks'
      BY <2>1, HeldGrows
    <2>3. parent'[inst] = bb
      BY <1>1 DEF PointersHeld
    <2>4. inst \in HeldLinks'
      BY <2>3 DEF HeldLinks
    <2> QED BY <2>2, <2>4
  <1>3. parent' \in [Insts -> blocks' \cup {Null}]
    BY <1>1 DEF PointersHeld
  <1>4. PointersHeld'
    <2>1. root' \in [Graphs -> blocks' \cup {Null}]
      BY <1>1 DEF PointersHeld
    <2> DEFINE H == HeldLinks
               J == HeldLinks'
    <2>2. H \cup {inst} \subseteq J
      BY <1>2
    <2> HIDE DEF H, J
    <2>3. /\ next' \in [Insts -> J] /\ prev' \in [Insts -> J]
          /\ first_inst' \in [BBs -> J] /\ last_inst' \in [BBs -> J]
          /\ first' \in [Graphs -> J] /\ last' \in [Graphs -> J]
      <3>1. \A A : [A -> H \cup {inst}] \subseteq [A -> J]
        BY <2>2
      <3> QED BY <3>1 DEF H
    <2> QED BY <1>3, <2>1, <2>3 DEF PointersHeld, J
  <1>5. EdgesHeld'
    BY <1>1 DEF EdgesHeld, edgeVars
  <1>6. call' \in Calls
    BY <1>1 DEF Ends, Calls, MaybeInst, TypeOK
  <1> QED BY <1>1, <1>4, <1>5, <1>6, HeldSuffices DEF TypeOK, edgeVars

\* Every pointer is one that the edit of a block with inst may leave.
LEMMA HeldWidens ==
    ASSUME PointersHeld, NEW inst
    PROVE  /\ next \in [Insts -> HeldLinks \cup {inst}] /\ prev \in [Insts -> HeldLinks \cup {inst}]
           /\ first_inst \in [BBs -> HeldLinks \cup {inst}] /\ last_inst \in [BBs -> HeldLinks \cup {inst}]
           /\ first \in [Graphs -> HeldLinks \cup {inst}] /\ last \in [Graphs -> HeldLinks \cup {inst}]
  <1> DEFINE H == HeldLinks \cup {inst}
  <1>1. HeldLinks \subseteq H
    OBVIOUS
  <1> HIDE DEF H
  <1>2. \A A : [A -> HeldLinks] \subseteq [A -> H]
    BY <1>1
  <1> QED BY <1>2 DEF PointersHeld, H

\* BasicBlock::InsertInstForward keeps the invariant, returned or undefined.
LEMMA InsertForwardKeeps ==
    ASSUME IInv, Ready, NEW bb \in blocks, NEW inst \in Insts, InsertInstForward(bb, inst)
    PROVE  IInv'
  <1>1. PointersHeld /\ bb \in BBs /\ bb \in BBs \cup {Null} /\ inst \in MaybeInst /\ "InsertInstForward" \in Ops
    BY DEF IInv, Ready, TypeOK, MaybeInst, Ops
  <1>2. CASE Undefined("InsertInstForward", bb, inst)
    BY <1>1, <1>2, UndefinedKeeps
  <1>3. CASE ~Undefined("InsertInstForward", bb, inst)
    <2> DEFINE H == HeldLinks \cup {inst}
    <2>1. /\ next \in [Insts -> H] /\ prev \in [Insts -> H] /\ first_inst \in [BBs -> H]
          /\ last_inst \in [BBs -> H] /\ first \in [Graphs -> H] /\ last \in [Graphs -> H] /\ inst \in H
      BY <1>1, HeldWidens
    <2> HIDE DEF H
    <2>2. /\ parent' = [parent EXCEPT ![inst] = bb]
          /\ first_inst' = [first_inst EXCEPT ![bb] = inst]
          /\ IF first_inst[bb] = Null
             THEN last_inst' = [last_inst EXCEPT ![bb] = inst] /\ UNCHANGED <<next, prev>>
             ELSE /\ prev' = [prev EXCEPT ![first_inst[bb]] = inst]
                  /\ next' = [next EXCEPT ![inst] = first_inst[bb]]
                  /\ UNCHANGED last_inst
          /\ first' \in Moved(first, bb, next'[inst], inst)
          /\ Ends("InsertInstForward", bb, inst, "returned")
          /\ UNCHANGED <<deleted, blocks, graph_, edgeVars, last, root, bb_set>>
      BY <1>3 DEF InsertInstForward
    <2>3. first' \in [Graphs -> H]
      BY <2>1, <2>2, MovedStays
    <2>4. /\ next' \in [Insts -> H] /\ prev' \in [Insts -> H]
          /\ first_inst' \in [BBs -> H] /\ last_inst' \in [BBs -> H] /\ last' \in [Graphs -> H]
      BY <1>1, <2>1, <2>2
    <2> QED BY <1>1, <2>2, <2>3, <2>4, EditKeeps DEF H
  <1> QED BY <1>2, <1>3

\* BasicBlock::InsertInstBack keeps the invariant.
LEMMA InsertBackKeeps ==
    ASSUME IInv, Ready, NEW bb \in blocks, NEW inst \in Insts, InsertInstBack(bb, inst)
    PROVE  IInv'
  <1>1. PointersHeld /\ bb \in BBs /\ bb \in BBs \cup {Null} /\ inst \in MaybeInst /\ "InsertInstBack" \in Ops
    BY DEF IInv, Ready, TypeOK, MaybeInst, Ops
  <1>2. CASE Undefined("InsertInstBack", bb, inst)
    BY <1>1, <1>2, UndefinedKeeps
  <1>3. CASE ~Undefined("InsertInstBack", bb, inst)
    <2> DEFINE H == HeldLinks \cup {inst}
    <2>1. /\ next \in [Insts -> H] /\ prev \in [Insts -> H] /\ first_inst \in [BBs -> H]
          /\ last_inst \in [BBs -> H] /\ first \in [Graphs -> H] /\ last \in [Graphs -> H] /\ inst \in H
      BY <1>1, HeldWidens
    <2> HIDE DEF H
    <2>2. /\ parent' = [parent EXCEPT ![inst] = bb]
          /\ last_inst' = [last_inst EXCEPT ![bb] = inst]
          /\ IF first_inst[bb] = Null
             THEN first_inst' = [first_inst EXCEPT ![bb] = inst] /\ UNCHANGED <<next, prev>>
             ELSE /\ next' = [next EXCEPT ![last_inst[bb]] = inst]
                  /\ prev' = [prev EXCEPT ![inst] = last_inst[bb]]
                  /\ UNCHANGED first_inst
          /\ last' \in Moved(last, bb, prev'[inst], inst)
          /\ Ends("InsertInstBack", bb, inst, "returned")
          /\ UNCHANGED <<deleted, blocks, graph_, edgeVars, first, root, bb_set>>
      BY <1>3 DEF InsertInstBack
    <2>3. last' \in [Graphs -> H]
      BY <2>1, <2>2, MovedStays
    <2>4. /\ next' \in [Insts -> H] /\ prev' \in [Insts -> H]
          /\ first_inst' \in [BBs -> H] /\ last_inst' \in [BBs -> H] /\ first' \in [Graphs -> H]
      BY <1>1, <2>1, <2>2
    <2> QED BY <1>1, <2>2, <2>3, <2>4, EditKeeps DEF H
  <1> QED BY <1>2, <1>3

\* BasicBlock::ReplaceFirstInst keeps the invariant.
LEMMA ReplaceFirstKeeps ==
    ASSUME IInv, Ready, NEW bb \in blocks, NEW inst \in Insts, ReplaceFirstInst(bb, inst)
    PROVE  IInv'
  <1>1. PointersHeld /\ bb \in BBs /\ bb \in BBs \cup {Null} /\ inst \in MaybeInst /\ "ReplaceFirstInst" \in Ops
    BY DEF IInv, Ready, TypeOK, MaybeInst, Ops
  <1>2. CASE Undefined("ReplaceFirstInst", bb, inst)
    BY <1>1, <1>2, UndefinedKeeps
  <1>3. CASE ~Undefined("ReplaceFirstInst", bb, inst)
    <2> DEFINE H == HeldLinks \cup {inst}
               old == first_inst[bb]
    <2>1. /\ next \in [Insts -> H] /\ prev \in [Insts -> H] /\ first_inst \in [BBs -> H]
          /\ last_inst \in [BBs -> H] /\ first \in [Graphs -> H] /\ last \in [Graphs -> H] /\ inst \in H
      BY <1>1, HeldWidens
    <2> HIDE DEF H
    <2>2. /\ Valid(old) /\ Valid(next[old])
          /\ parent' = [parent EXCEPT ![inst] = bb]
          /\ first_inst' = [first_inst EXCEPT ![bb] = inst]
          /\ next' = [next EXCEPT ![inst] = next[old]]
          /\ prev' = [prev EXCEPT ![next[old]] = inst]
          /\ first' \in Moved(first, bb, old, inst)
          /\ Ends("ReplaceFirstInst", bb, inst, "returned")
          /\ UNCHANGED <<deleted, blocks, last_inst, graph_, edgeVars, last, root, bb_set>>
      BY <1>3 DEF ReplaceFirstInst
    <2>3. first' \in [Graphs -> H]
      BY <2>1, <2>2, MovedStays
    <2>4. /\ next' \in [Insts -> H] /\ prev' \in [Insts -> H]
          /\ first_inst' \in [BBs -> H] /\ last_inst' \in [BBs -> H] /\ last' \in [Graphs -> H]
      BY <1>1, <2>1, <2>2 DEF Valid
    <2> QED BY <1>1, <2>2, <2>3, <2>4, EditKeeps DEF H
  <1> QED BY <1>2, <1>3

\* BasicBlock::ReplaceLastInst keeps the invariant.
LEMMA ReplaceLastKeeps ==
    ASSUME IInv, Ready, NEW bb \in blocks, NEW inst \in Insts, ReplaceLastInst(bb, inst)
    PROVE  IInv'
  <1>1. PointersHeld /\ bb \in BBs /\ bb \in BBs \cup {Null} /\ inst \in MaybeInst /\ "ReplaceLastInst" \in Ops
    BY DEF IInv, Ready, TypeOK, MaybeInst, Ops
  <1>2. CASE Undefined("ReplaceLastInst", bb, inst)
    BY <1>1, <1>2, UndefinedKeeps
  <1>3. CASE ~Undefined("ReplaceLastInst", bb, inst)
    <2> DEFINE H == HeldLinks \cup {inst}
               old == last_inst[bb]
    <2>1. /\ next \in [Insts -> H] /\ prev \in [Insts -> H] /\ first_inst \in [BBs -> H]
          /\ last_inst \in [BBs -> H] /\ first \in [Graphs -> H] /\ last \in [Graphs -> H] /\ inst \in H
      BY <1>1, HeldWidens
    <2> HIDE DEF H
    <2>2. /\ Valid(old) /\ Valid(prev[old])
          /\ parent' = [parent EXCEPT ![inst] = bb]
          /\ last_inst' = [last_inst EXCEPT ![bb] = inst]
          /\ prev' = [prev EXCEPT ![inst] = prev[old]]
          /\ next' = [next EXCEPT ![prev[old]] = inst]
          /\ last' \in Moved(last, bb, old, inst)
          /\ Ends("ReplaceLastInst", bb, inst, "returned")
          /\ UNCHANGED <<deleted, blocks, first_inst, graph_, edgeVars, first, root, bb_set>>
      BY <1>3 DEF ReplaceLastInst
    <2>3. last' \in [Graphs -> H]
      BY <2>1, <2>2, MovedStays
    <2>4. /\ next' \in [Insts -> H] /\ prev' \in [Insts -> H]
          /\ first_inst' \in [BBs -> H] /\ last_inst' \in [BBs -> H] /\ first' \in [Graphs -> H]
      BY <1>1, <2>1, <2>2 DEF Valid
    <2> QED BY <1>1, <2>2, <2>3, <2>4, EditKeeps DEF H
  <1> QED BY <1>2, <1>3

\* An instruction that the list of a graph leads to is in one of the blocks.
LEMMA MetIsHeld ==
    ASSUME IInv, Ready, NEW g \in Graphs, NEW inst \in ToSet(List(g))
    PROVE  inst \in Insts \ deleted /\ parent[inst] \in blocks /\ parent[inst] \in BBs
  <1>1. PointersHeld /\ first[g] \in HeldLinks /\ blocks \subseteq BBs
    BY DEF IInv, Ready, PointersHeld, TypeOK
  <1> QED BY <1>1, ListHeld DEF List

\* IRGraph::RemoveNonCFGOrSideInst keeps the invariant.
LEMMA RemoveKeeps ==
    ASSUME IInv, Ready, NEW g \in Graphs, NEW inst \in ToSet(List(g)), RemoveNonCFGOrSideInst(g, inst)
    PROVE  IInv'
  <1> DEFINE bb == parent[inst]
  <1>1. /\ PointersHeld /\ EdgesHeld /\ TypeOK /\ inst \in Insts /\ bb \in BBs /\ bb \in BBs \cup {Null}
        /\ inst \in MaybeInst /\ "RemoveNonCFGOrSideInst" \in Ops
    BY MetIsHeld DEF IInv, Ready, MaybeInst, Ops
  <1>2. CASE Undefined("RemoveNonCFGOrSideInst", bb, inst)
    BY <1>1, <1>2, UndefinedKeeps
  <1>3. CASE ~Undefined("RemoveNonCFGOrSideInst", bb, inst)
    <2> DEFINE H == HeldLinks
               alone == first_inst[bb] # Null /\ first_inst[bb] = last_inst[bb]
               at_end == inst \in {first[g], last[g]}
    <2>1. /\ ~at_end => Valid(prev[inst]) /\ Valid(next[inst])
          /\ first_inst' = IF alone THEN [first_inst EXCEPT ![bb] = Null]
                           ELSE IF first_inst[bb] = inst THEN [first_inst EXCEPT ![bb] = next[inst]]
                           ELSE first_inst
          /\ last_inst' = IF alone THEN [last_inst EXCEPT ![bb] = Null]
                          ELSE IF first_inst[bb] # inst /\ last_inst[bb] = inst
                          THEN [last_inst EXCEPT ![bb] = prev[inst]] ELSE last_inst
          /\ first' = IF inst = first[g] THEN [first EXCEPT ![g] = next[inst]] ELSE first
          /\ last' = IF inst # first[g] /\ inst = last[g]
                     THEN [last EXCEPT ![g] = prev[inst]] ELSE last
          /\ next' = IF at_end THEN next ELSE [next EXCEPT ![prev[inst]] = next[inst]]
          /\ prev' = IF at_end THEN prev ELSE [prev EXCEPT ![next[inst]] = prev[inst]]
          /\ deleted' = deleted \cup {inst}
          /\ Ends("RemoveNonCFGOrSideInst", bb, inst, "returned")
          /\ UNCHANGED <<parent, blocks, graph_, edgeVars, root, bb_set>>
      BY <1>3 DEF RemoveNonCFGOrSideInst
    <2>2. H' = H /\ Null \in H
      BY <2>1 DEF HeldLinks
    <2> HIDE DEF alone, at_end, H
    <2>3. /\ next \in [Insts -> H] /\ prev \in [Insts -> H] /\ first_inst \in [BBs -> H]
          /\ last_inst \in [BBs -> H] /\ first \in [Graphs -> H] /\ last \in [Graphs -> H]
      BY <1>1 DEF PointersHeld, H
    <2>4. next' \in [Insts -> H] /\ prev' \in [Insts -> H]
      BY <1>1, <2>1, <2>3 DEF Valid
    <2>5. first_inst' \in [BBs -> H] /\ last_inst' \in [BBs -> H]
      BY <1>1, <2>1, <2>2, <2>3
    <2>6. first' \in [Graphs -> H] /\ last' \in [Graphs -> H]
      BY <1>1, <2>1, <2>3
    <2>7. PointersHeld'
      BY <1>1, <2>1, <2>2, <2>4, <2>5, <2>6 DEF PointersHeld, H
    <2>8. EdgesHeld' /\ deleted' \subseteq Insts /\ call' \in Calls
      BY <1>1, <2>1 DEF EdgesHeld, edgeVars, Ends, Calls, TypeOK
    <2> QED BY <1>1, <2>1, <2>7, <2>8, HeldSuffices DEF TypeOK, edgeVars
  <1> QED BY <1>2, <1>3

\* IRGraph::SplitBBInTwo keeps the invariant, whether it throws half-way or not.
LEMMA SplitKeeps ==
    ASSUME IInv, Ready, NEW inst \in Insts, parent[inst] \in blocks, SplitBBInTwo(inst)
    PROVE  IInv'
  <1> DEFINE bb == parent[inst]
  <1>1. /\ PointersHeld /\ EdgesHeld /\ TypeOK /\ bb \in BBs /\ bb \in BBs \cup {Null} /\ bb \in blocks
        /\ inst \in MaybeInst /\ "SplitBBInTwo" \in Ops
    BY DEF IInv, Ready, TypeOK, MaybeInst, Ops
  <1>2. ASSUME last_inst[bb] = inst, Ends("SplitBBInTwo", bb, inst, "returned"),
               UNCHANGED <<linkVars, blockVars, edgeVars, graphVars>>
        PROVE  IInv'
    <2>1. call' \in Calls
      BY <1>1, <1>2 DEF Ends, Calls
    <2>2. PointersHeld' /\ EdgesHeld'
      BY <1>1, <1>2 DEF PointersHeld, EdgesHeld, HeldLinks, linkVars, blockVars, edgeVars, graphVars
    <2> QED BY <1>1, <1>2, <2>1, <2>2, HeldSuffices DEF TypeOK, linkVars, blockVars, edgeVars, graphVars
  <1>3. ASSUME last_inst[bb] # inst, NEW new_bb \in BBs, IsNewBB(new_bb), Split(bb, inst, new_bb)
        PROVE  IInv'
    <2>1. CASE Undefined("SplitBBInTwo", bb, inst)
      BY <1>1, <2>1, UndefinedKeeps
    <2>2. CASE ~Undefined("SplitBBInTwo", bb, inst)
      <3> DEFINE e == SplitEdges(bb, new_bb)
                 J == HeldLinks'
      <3>1. new_bb \notin blocks
        BY <1>3 DEF IsNewBB
      <3>2. /\ e \in Edges
            /\ \A x \in BBs :
                  /\ Len(e.succ[x]) <= 2 /\ ToSet(e.succ[x]) \subseteq blocks \cup {new_bb}
                  /\ x \notin blocks \cup {new_bb} => e.succ[x] = <<>> /\ e.predec[x] = <<>>
        BY <1>1, <3>1, SplitEdgesHeld DEF TypeOK
      <3> HIDE DEF e
      <3>3. /\ succ' = e.succ /\ predec' = e.predec
            /\ blocks' = blocks \cup {new_bb}
            /\ \/ UNCHANGED <<first_inst, last_inst, parent>>
               \/ /\ first_inst' = [first_inst EXCEPT ![new_bb] = next[inst]]
                  /\ last_inst' = [last_inst EXCEPT ![new_bb] = last_inst[bb], ![bb] = inst]
                  /\ parent' = [x \in Insts |->
                        IF x \in ToSet(Follow(next[inst])) THEN new_bb ELSE parent[x]]
            /\ \E outcome \in {"returned", "threw"} : Ends("SplitBBInTwo", bb, inst, outcome)
            /\ UNCHANGED <<next, prev, deleted, graph_, graphVars>>
        BY <1>3, <2>2 DEF Split, e
      <3>4. EdgesHeld' /\ succ' \in [BBs -> Seq(BBs)] /\ predec' \in [BBs -> Seq(BBs)]
        BY <3>2, <3>3 DEF EdgesHeld, Edges
      <3>5. HeldLinks \subseteq HeldLinks'
        <4>1. \A x \in Insts : parent[x] \in blocks => parent'[x] \in blocks'
          BY <3>3
        <4> QED BY <3>3, <4>1, HeldGrows
      <3>6. inst \in HeldLinks
        BY <1>1 DEF HeldLinks
      <3>7. /\ next \in [Insts -> J] /\ prev \in [Insts -> J] /\ first_inst \in [BBs -> J]
            /\ last_inst \in [BBs -> J] /\ first \in [Graphs -> J] /\ last \in [Graphs -> J] /\ inst \in J
        <4> DEFINE H == HeldLinks
        <4>1. H \subseteq J /\ inst \in H
          BY <3>5, <3>6
        <4> HIDE DEF H, J
        <4>2. \A A : [A -> H] \subseteq [A -> J]
          BY <4>1
        <4> QED BY <1>1, <4>1, <4>2 DEF PointersHeld, H
      <3> HIDE DEF J
      <3>8. next' \in [Insts -> J] /\ prev' \in [Insts -> J] /\ first' \in [Graphs -> J] /\ last' \in [Graphs -> J]
        BY <3>3, <3>7 DEF graphVars
      <3>9. first_inst' \in [BBs -> J] /\ last_inst' \in [BBs -> J]
        BY <1>1, <3>3, <3>7
      <3>10. parent' \in [Insts -> blocks' \cup {Null}] /\ root' \in [Graphs -> blocks' \cup {Null}]
        BY <1>1, <3>3 DEF PointersHeld, graphVars
      <3>11. PointersHeld'
        BY <3>8, <3>9, <3>10 DEF PointersHeld, J
      <3>12. call' \in Calls
        BY <1>1, <3>3 DEF Ends, Calls
      <3> QED BY <1>1, <3>3, <3>4, <3>11, <3>12, HeldSuffices DEF TypeOK, graphVars
    <2> QED BY <2>1, <2>2
  <1> QED BY <1>2, <1>3 DEF SplitBBInTwo

\* IRGraph::AddBBToBegin keeps the invariant, with a new instruction or none.
LEMMA AddToBeginKeeps ==
    ASSUME IInv, Ready, NEW g \in Graphs, NEW bb \in BBs, IsNewBB(bb),
           NEW inst \in {Null} \cup {x \in Insts : IsNew(x)}, AddBBToBegin(g, bb, inst)
    PROVE  IInv'
  <1>1. /\ PointersHeld /\ EdgesHeld /\ TypeOK /\ bb \notin blocks /\ inst \in MaybeInst
        /\ "AddBBToBegin" \in Ops /\ bb \in BBs \cup {Null}
    BY DEF IInv, Ready, TypeOK, MaybeInst, Ops, IsNewBB
  <1>2. CASE Undefined("AddBBToBegin", bb, inst)
    BY <1>1, <1>2, UndefinedKeeps
  <1>3. CASE ~Undefined("AddBBToBegin", bb, inst)
    <2> DEFINE old == first[g]
               J == HeldLinks'
    <2>1. /\ old # Null /\ inst # Null => Valid(old)
          /\ parent' = [x \in Insts |-> IF x = inst THEN bb ELSE parent[x]]
          /\ blocks' = blocks \cup {bb}
          /\ first_inst' = [first_inst EXCEPT ![bb] = inst]
          /\ last_inst' = [last_inst EXCEPT ![bb] = inst]
          /\ first' = IF old = Null \/ inst # Null THEN [first EXCEPT ![g] = inst] ELSE first
          /\ last' = IF old = Null THEN [last EXCEPT ![g] = inst] ELSE last
          /\ IF old # Null /\ inst # Null
             THEN prev' = [prev EXCEPT ![old] = inst] /\ next' = [next EXCEPT ![inst] = old]
             ELSE UNCHANGED <<next, prev>>
          /\ MakeRoot(g, bb)
          /\ Ends("AddBBToBegin", bb, inst, "returned")
          /\ UNCHANGED <<deleted, graph_>>
      BY <1>3 DEF AddBBToBegin
    <2>2. HeldLinks \subseteq HeldLinks'
      <3>1. \A x \in Insts : parent[x] \in blocks => parent'[x] \in blocks'
        BY <2>1
      <3> QED BY <2>1, <3>1, HeldGrows
    <2>3. inst \in HeldLinks'
      BY <1>1, <2>1 DEF HeldLinks, MaybeInst
    <2>4. /\ next \in [Insts -> J] /\ prev \in [Insts -> J] /\ first_inst \in [BBs -> J]
          /\ last_inst \in [BBs -> J] /\ first \in [Graphs -> J] /\ last \in [Graphs -> J] /\ inst \in J
      <3> DEFINE H == HeldLinks
      <3>1. H \subseteq J /\ inst \in J
        BY <2>2, <2>3
      <3> HIDE DEF H, J
      <3>2. \A A : [A -> H] \subseteq [A -> J]
        BY <3>1
      <3> QED BY <1>1, <3>1, <3>2 DEF PointersHeld, H
    <2> HIDE DEF J
    <2>5. next' \in [Insts -> J] /\ prev' \in [Insts -> J]
      BY <2>1, <2>4 DEF Valid
    <2>6. first_inst' \in [BBs -> J] /\ last_inst' \in [BBs -> J] /\ first' \in [Graphs -> J] /\ last' \in [Graphs -> J]
      BY <2>1, <2>4
    <2>7. /\ root' = [root EXCEPT ![g] = bb] /\ bb_set' = [bb_set EXCEPT ![g] = @ \cup {bb}]
          /\ root' \in [Graphs -> blocks' \cup {Null}]
          /\ parent' \in [Insts -> blocks' \cup {Null}]
      BY <1>1, <2>1 DEF MakeRoot, PointersHeld
    <2>8. PointersHeld'
      BY <2>5, <2>6, <2>7 DEF PointersHeld, J
    <2>9. EdgesHeld' /\ succ' \in [BBs -> Seq(BBs)] /\ predec' \in [BBs -> Seq(BBs)]
      <3>1. CASE root[g] = Null
        BY <1>1, <2>1, <3>1 DEF MakeRoot, EdgesHeld, TypeOK, edgeVars
      <3>2. CASE root[g] # Null
        <4> DEFINE r == root[g]
        <4>1. r \in blocks /\ r \in BBs /\ bb # r
          BY <1>1, <3>2 DEF PointersHeld, TypeOK
        <4>2. succ' = [succ EXCEPT ![bb] = Append(succ[bb], r)] /\ predec' = [predec EXCEPT ![r] = Append(predec[r], bb)]
          BY <2>1, <3>2 DEF MakeRoot, PushBack
        <4>3. succ[bb] = <<>> /\ predec[r] \in Seq(BBs) /\ Append(succ[bb], r) = <<r>>
          <5>1. succ[bb] = <<>>
            BY <1>1 DEF EdgesHeld
          <5>2. predec[r] \in Seq(BBs)
            BY <1>1, <4>1 DEF TypeOK
          <5>3. Append(<<>>, r) = <<r>>
            OBVIOUS
          <5> QED BY <5>1, <5>2, <5>3
        <4>4. <<r>> \in Seq(BBs) /\ Len(<<r>>) = 1 /\ ToSet(<<r>>) = {r}
          BY <4>1 DEF ToSet
        <4>5. Append(predec[r], bb) \in Seq(BBs)
          BY <4>3, AppendEntries
        <4> HIDE DEF r
        <4>6. succ' \in [BBs -> Seq(BBs)] /\ predec' \in [BBs -> Seq(BBs)]
          BY <1>1, <4>2, <4>3, <4>4, <4>5 DEF TypeOK
        <4>7. /\ \A x \in BBs : succ'[x] = IF x = bb THEN <<r>> ELSE succ[x]
              /\ \A x \in BBs \ {r} : predec'[x] = predec[x]
          BY <1>1, <4>2, <4>3 DEF TypeOK
        <4>8. ASSUME NEW x \in BBs
              PROVE  /\ Len(succ'[x]) <= 2 /\ ToSet(succ'[x]) \subseteq blocks'
                     /\ x \notin blocks' => succ'[x] = <<>> /\ predec'[x] = <<>>
          <5>1. CASE x = bb
            <6>1. succ'[x] = <<r>> /\ x \in blocks' /\ ToSet(<<r>>) \subseteq blocks'
              BY <2>1, <4>1, <4>4, <4>7, <5>1
            <6>2. Len(<<r>>) <= 2
              BY <4>4
            <6> QED BY <6>1, <6>2
          <5>2. CASE x # bb
            BY <1>1, <2>1, <4>1, <4>7, <5>2 DEF EdgesHeld
          <5> QED BY <5>1, <5>2
        <4> QED BY <4>6, <4>8 DEF EdgesHeld
      <3> QED BY <3>1, <3>2
    <2>10. call' \in Calls
      BY <1>1, <2>1 DEF Ends, Calls
    <2>11. bb_set' \in [Graphs -> SUBSET BBs] /\ \A h \in Graphs : root'[h] \in bb_set'[h] \cup {Null}
      <3>1. bb_set \in [Graphs -> SUBSET BBs] /\ root \in [Graphs -> blocks \cup {Null}]
        BY <1>1 DEF TypeOK, PointersHeld
      <3> QED BY <1>1, <2>7, <3>1 DEF TypeOK
    <2> QED BY <1>1, <2>1, <2>8, <2>9, <2>10, <2>11, HeldSuffices DEF TypeOK
  <1> QED BY <1>2, <1>3

\* The copy constructor of BasicBlock keeps the invariant.
LEMMA CopyKeeps ==
    ASSUME IInv, Ready, NEW bb \in blocks, NEW new_bb \in BBs, IsNewBB(new_bb), CopyBB(bb, new_bb)
    PROVE  IInv'
  <1> DEFINE old == Follow(first_inst[bb])
             made == Cardinality({x \in Insts : parent[x] # Null})
  <1>1. /\ PointersHeld /\ EdgesHeld /\ TypeOK /\ bb \in BBs /\ bb \in BBs \cup {Null} /\ new_bb \notin blocks
        /\ "BasicBlock" \in Ops /\ Null \in MaybeInst
    BY DEF IInv, Ready, TypeOK, MaybeInst, Ops, IsNewBB
  <1>2. CASE Undefined("BasicBlock", bb, Null)
    BY <1>1, <1>2, UndefinedKeeps
  <1>3. CASE ~Undefined("BasicBlock", bb, Null)
    <2>1. /\ made + Len(old) <= MaxInsts
          /\ next' = [x \in Insts |-> IF x \in made + 1 .. made + Len(old) - 1 THEN x + 1
                                     ELSE IF x = made + Len(old) /\ old # <<>> THEN Null ELSE next[x]]
          /\ prev' = [x \in Insts |-> IF x = made + 1 /\ old # <<>> THEN Null
                                     ELSE IF x \in made + 2 .. made + Len(old) THEN x - 1 ELSE prev[x]]
          /\ parent' = [x \in Insts |-> IF x \in made + 1 .. made + Len(old) THEN new_bb ELSE parent[x]]
          /\ blocks' = blocks \cup {new_bb}
          /\ first_inst' = [first_inst EXCEPT ![new_bb] = IF old = <<>> THEN Null ELSE made + 1]
          /\ last_inst' = [last_inst EXCEPT ![new_bb] = IF old = <<>> THEN Null ELSE made + Len(old)]
          /\ graph_' = [graph_ EXCEPT ![new_bb] = Wild]
          /\ Ends("BasicBlock", bb, Null, "returned")
          /\ UNCHANGED <<deleted, edgeVars, graphVars>>
      BY <1>3 DEF CopyBB
    <2>2. made \in Nat
      <3>1. MaxInsts \in Nat /\ IsFiniteSet(1..MaxInsts)
        BY LayoutAssumption, FS_Interval
      <3>2. IsFiniteSet({x \in Insts : parent[x] # Null})
        BY <3>1, FS_Subset DEF Insts
      <3> QED BY <3>2, FS_CardinalityType
    <2>3. Len(old) \in Nat /\ (old # <<>> => Len(old) > 0)
      <3>1. first_inst[bb] \in HeldLinks
        BY <1>1 DEF PointersHeld
      <3>2. old \in Seq({y \in Insts \ deleted : parent[y] \in blocks})
        BY <1>1, <3>1, ListHeld
      <3> HIDE DEF old
      <3> QED BY <3>2
    <2>4. MaxInsts \in Nat
      BY LayoutAssumption
    <2> HIDE DEF old, made
    <2> DEFINE J == HeldLinks'
    <2>5. HeldLinks \subseteq HeldLinks'
      <3>1. \A x \in Insts : parent[x] \in blocks => parent'[x] \in blocks'
        BY <2>1
      <3> QED BY <2>1, <3>1, HeldGrows
    <2>6. \A x \in made + 1 .. made + Len(old) : x \in J
      <3>1. \A x \in made + 1 .. made + Len(old) : x \in Insts
        BY <2>1, <2>2, <2>3, <2>4 DEF Insts
      <3>2. \A x \in made + 1 .. made + Len(old) : parent'[x] = new_bb
        BY <2>1, <3>1
      <3> QED BY <2>1, <3>1, <3>2 DEF HeldLinks
    <2>7. Null \in J
      BY DEF HeldLinks
    <2>8. /\ next \in [Insts -> J] /\ prev \in [Insts -> J] /\ first_inst \in [BBs -> J]
          /\ last_inst \in [BBs -> J] /\ first \in [Graphs -> J] /\ last \in [Graphs -> J]
      <3> DEFINE H == HeldLinks
      <3>1. H \subseteq J
        BY <2>5
      <3> HIDE DEF H, J
      <3>2. \A A : [A -> H] \subseteq [A -> J]
        BY <3>1
      <3> QED BY <1>1, <3>1, <3>2 DEF PointersHeld, H
    <2> HIDE DEF J
    <2>9. next' \in [Insts -> J]
      <3>1. \A x \in made + 1 .. made + Len(old) - 1 : x + 1 \in made + 1 .. made + Len(old)
        BY <2>2, <2>3
      <3> QED BY <2>1, <2>6, <2>7, <2>8, <3>1
    <2>10. prev' \in [Insts -> J]
      <3>1. \A x \in made + 2 .. made + Len(old) : x - 1 \in made + 1 .. made + Len(old)
        BY <2>2, <2>3
      <3> QED BY <2>1, <2>6, <2>7, <2>8, <3>1
    <2>11. first_inst' \in [BBs -> J] /\ last_inst' \in [BBs -> J]
      <3>1. old # <<>> => made + 1 \in J /\ made + Len(old) \in J
        BY <2>2, <2>3, <2>6
      <3> QED BY <2>1, <2>7, <2>8, <3>1
    <2>12. /\ first' \in [Graphs -> J] /\ last' \in [Graphs -> J]
           /\ root' \in [Graphs -> blocks' \cup {Null}] /\ parent' \in [Insts -> blocks' \cup {Null}]
      BY <1>1, <2>1, <2>8 DEF PointersHeld, graphVars
    <2>13. PointersHeld'
      BY <2>9, <2>10, <2>11, <2>12 DEF PointersHeld, J
    <2>14. EdgesHeld' /\ call' \in Calls /\ graph_' \in [BBs -> Graphs \cup {Null, Wild}]
      BY <1>1, <2>1 DEF EdgesHeld, edgeVars, Ends, Calls, TypeOK
    <2> QED BY <1>1, <2>1, <2>13, <2>14, HeldSuffices DEF TypeOK, edgeVars, graphVars
  <1> QED BY <1>2, <1>3

\* The destructor takes blocks away, and the pointers to them stay.
LEMMA DestroyKeeps ==
    ASSUME IInv, Ready, NEW g \in Graphs, DestroyGraph(g)
    PROVE  IInv'
  <1>1. TypeOK /\ "~IRGraph" \in Ops /\ Null \in MaybeInst
    BY DEF IInv, Ready, MaybeInst, Ops
  <1>2. CASE Undefined("~IRGraph", Null, Null)
    BY <1>1, <1>2, UndefinedKeeps
  <1>3. CASE ~Undefined("~IRGraph", Null, Null)
    <2>1. /\ deleted' = deleted \cup ToSet(List(g))
          /\ blocks' = blocks \ bb_set[g]
          /\ Ends("~IRGraph", Null, Null, "returned")
          /\ UNCHANGED <<next, prev, parent, first_inst, last_inst, graph_, edgeVars, graphVars>>
      BY <1>3 DEF DestroyGraph
    <2>2. ToSet(List(g)) \subseteq Insts
      BY MetIsHeld
    <2>3. call' \in Calls /\ call'.op = "~IRGraph"
      BY <1>1, <2>1 DEF Ends, Calls
    <2>4. TypeOK'
      BY <1>1, <2>1, <2>2, <2>3 DEF TypeOK, Calls, edgeVars, graphVars
    <2> QED BY <2>3, <2>4 DEF IInv
  <1> QED BY <1>2, <1>3

-----------------------------------------------------------------------------
\* Every layout is one that the constructors of graphs make.
LEMMA InitHolds == Init => IInv
  <1> SUFFICES ASSUME NEW layout \in Layouts, NEW zeroed \in SUBSET Insts, Laid(layout, zeroed)
               PROVE  IInv
    BY DEF Init
  <1> DEFINE owner == layout.owner
             graph == layout.graph
             insts == DOMAIN owner
             own(bb) == {x \in insts : owner[x] = bb}
             list(g) == {x \in insts : graph[owner[x]] = g}
             linked(x, y) == y \in insts /\ \E g \in Graphs : {x, y} \subseteq list(g)
             link(x, y) == IF x \in insts THEN IF linked(x, y) THEN y ELSE Null
                                          ELSE IF x \in zeroed THEN Null ELSE Wild
  <1>1. /\ owner \in Seq(BBs) /\ graph \in Seq(Graphs) /\ Len(owner) <= MaxInsts /\ Len(graph) <= MaxBBs
        /\ ToSet(owner) = DOMAIN graph /\ MaxInsts \in Nat /\ MaxBBs \in Nat /\ MaxGraphs \in Nat
        /\ layout.succ \in [BBs -> Seq(BBs)] /\ layout.predec \in [BBs -> Seq(BBs)]
        /\ \A bb \in BBs :
              /\ Len(layout.succ[bb]) <= 2 /\ ToSet(layout.succ[bb]) \subseteq DOMAIN graph
              /\ bb \notin DOMAIN graph => layout.succ[bb] = <<>> /\ layout.predec[bb] = <<>>
    BY LayoutAssumption DEF Layout, Fits
  <1>2. /\ next = [x \in Insts |-> link(x, x + 1)] /\ prev = [x \in Insts |-> link(x, x - 1)]
        /\ parent = [x \in Insts |-> IF x \in insts THEN owner[x] ELSE Null]
        /\ deleted = {}
        /\ blocks = DOMAIN graph
        /\ first_inst = [bb \in BBs |-> IF bb \in blocks THEN Min(own(bb)) ELSE Null]
        /\ last_inst = [bb \in BBs |-> IF bb \in blocks THEN Max(own(bb)) ELSE Null]
        /\ graph_ = [bb \in BBs |-> IF bb \in blocks THEN graph[bb] ELSE Null]
        /\ succ = layout.succ /\ predec = layout.predec
        /\ bb_set = [g \in Graphs |-> {bb \in blocks : graph[bb] = g}]
        /\ root = [g \in Graphs |-> IF bb_set[g] = {} THEN Null ELSE Min(bb_set[g])]
        /\ first = [g \in Graphs |-> IF bb_set[g] = {} THEN Null ELSE Min(list(g))]
        /\ last = [g \in Graphs |-> IF bb_set[g] = {} THEN Null ELSE Max(list(g))]
        /\ call = [op |-> "IRGraph", bb |-> Null, inst |-> Null, outcome |-> "returned"]
    BY Zenon DEF Laid
  <1> HIDE DEF owner, graph
  <1>3. /\ insts = 1..Len(owner) /\ Len(owner) \in Nat /\ insts \subseteq Insts
        /\ DOMAIN graph = 1..Len(graph) /\ Len(graph) \in Nat /\ DOMAIN graph \subseteq BBs
        /\ \A bb \in DOMAIN graph : graph[bb] \in Graphs
        /\ \A x \in insts : owner[x] \in DOMAIN graph
        /\ \A bb \in DOMAIN graph : \E x \in insts : owner[x] = bb
    <2>1. insts = 1..Len(owner) /\ Len(owner) \in Nat /\ DOMAIN graph = 1..Len(graph) /\ Len(graph) \in Nat
      BY <1>1
    <2>2. insts \subseteq Insts /\ DOMAIN graph \subseteq BBs
      BY <1>1, <2>1 DEF Insts, BBs
    <2>3. \A bb \in DOMAIN graph : graph[bb] \in Graphs
      BY <1>1
    <2>4. \A bb : bb \in ToSet(owner) <=> \E x \in insts : owner[x] = bb
      <3>1. owner \in Seq(BBs)
        BY <1>1
      <3>2. \A bb : bb \in ToSet(owner) <=> \E x \in 1..Len(owner) : owner[x] = bb
        BY <3>1, Entries
      <3> QED BY <2>1, <3>2
    <2> QED BY <1>1, <2>1, <2>2, <2>3, <2>4
  <1> HIDE DEF insts, link, own, list
  <1>4. insts \cup {Null, Wild} \subseteq HeldLinks
    BY <1>2, <1>3 DEF HeldLinks
  <1>5. next \in [Insts -> HeldLinks] /\ prev \in [Insts -> HeldLinks]
    <2>1. \A x, y : link(x, y) \in insts \cup {Null, Wild}
      BY DEF link
    <2> QED BY <1>2, <1>4, <2>1
  <1>6. \A bb \in blocks : Min(own(bb)) \in insts /\ Max(own(bb)) \in insts
    <2> TAKE bb \in blocks
    <2>1. own(bb) \in SUBSET (1..Len(owner)) /\ own(bb) # {} /\ own(bb) \subseteq insts
      BY <1>2, <1>3 DEF own
    <2> QED BY <1>3, <2>1, EndsOfSet
  <1>7. \A g \in Graphs : bb_set[g] # {} =>
            Min(bb_set[g]) \in bb_set[g] /\ Min(list(g)) \in insts /\ Max(list(g)) \in insts
    <2> SUFFICES ASSUME NEW g \in Graphs, bb_set[g] # {}
                 PROVE  Min(bb_set[g]) \in bb_set[g] /\ Min(list(g)) \in insts /\ Max(list(g)) \in insts
      OBVIOUS
    <2>1. bb_set[g] = {bb \in blocks : graph[bb] = g}
      BY <1>2
    <2>2. bb_set[g] \in SUBSET (1..Len(graph))
      BY <1>2, <1>3, <2>1
    <2>3. list(g) \in SUBSET (1..Len(owner)) /\ list(g) # {} /\ list(g) \subseteq insts
      <3>1. PICK bb \in DOMAIN graph : graph[bb] = g
        BY <1>2, <2>1
      <3>2. PICK x \in insts : owner[x] = bb
        BY <1>3, <3>1
      <3>3. x \in list(g)
        BY <3>1, <3>2 DEF list
      <3> QED BY <1>3, <3>3 DEF list
    <2>4. Min(bb_set[g]) \in bb_set[g]
      BY <1>3, <2>2, EndsOfSet
    <2>5. Min(list(g)) \in list(g) /\ Max(list(g)) \in list(g)
      BY <1>3, <2>3, EndsOfSet
    <2> QED BY <2>3, <2>4, <2>5
  <1>8. first_inst \in [BBs -> HeldLinks] /\ last_inst \in [BBs -> HeldLinks]
    BY <1>2, <1>4, <1>6
  <1>9. first \in [Graphs -> HeldLinks] /\ last \in [Graphs -> HeldLinks]
    BY <1>2, <1>4, <1>7
  <1>10. /\ parent \in [Insts -> blocks \cup {Null}]
         /\ root \in [Graphs -> blocks \cup {Null}]
         /\ \A g \in Graphs : root[g] \in bb_set[g] \cup {Null}
    <2>1. parent \in [Insts -> blocks \cup {Null}]
      BY <1>2, <1>3
    <2>2. \A g \in Graphs : root[g] \in bb_set[g] \cup {Null}
      BY <1>2, <1>7
    <2>3. \A g \in Graphs : bb_set[g] \subseteq blocks
      BY <1>2
    <2> QED BY <1>2, <2>1, <2>2, <2>3
  <1>11. PointersHeld
    BY <1>5, <1>8, <1>9, <1>10 DEF PointersHeld
  <1>12. EdgesHeld
    BY <1>1, <1>2 DEF EdgesHeld
  <1>13. HeldLinks \subseteq Links
    BY DEF HeldLinks, Links, MaybeInst
  <1>14. /\ next \in [Insts -> Links] /\ prev \in [Insts -> Links]
         /\ first_inst \in [BBs -> Links] /\ last_inst \in [BBs -> Links]
         /\ first \in [Graphs -> Links] /\ last \in [Graphs -> Links]
    <2> DEFINE H == HeldLinks
    <2>1. H \subseteq Links
      BY <1>13
    <2> HIDE DEF H
    <2>2. \A A : [A -> H] \subseteq [A -> Links]
      BY <2>1
    <2> QED BY <1>11, <2>2 DEF PointersHeld, H
  <1>15. blocks \subseteq BBs /\ parent \in [Insts -> BBs \cup {Null}]
    BY <1>2, <1>3, <1>10
  <1>16. graph_ \in [BBs -> Graphs \cup {Null, Wild}] /\ bb_set \in [Graphs -> SUBSET BBs]
    BY <1>2, <1>3
  <1>17. call \in [op : Ops, bb : BBs \cup {Null}, inst : MaybeInst, outcome : {"returned", "threw", "undefined"}]
    BY <1>2 DEF Ops, MaybeInst
  <1> QED BY <1>1, <1>2, <1>10, <1>11, <1>12, <1>14, <1>15, <1>16, <1>17 DEF IInv, TypeOK

\* Every call keeps the invariant.
LEMMA NextKeeps == IInv /\ [Next]_vars => IInv'
  <1> SUFFICES ASSUME IInv, [Next]_vars PROVE IInv'
    OBVIOUS
  <1>1. CASE UNCHANGED vars
    BY <1>1 DEF IInv, TypeOK, PointersHeld, EdgesHeld, HeldLinks, vars, linkVars, blockVars, edgeVars, graphVars
  <1>2. ASSUME Ready, NEW bb \in blocks, NEW inst \in Insts, EditBlock(bb, inst) PROVE IInv'
    BY <1>2, InsertForwardKeeps, InsertBackKeeps, ReplaceFirstKeeps, ReplaceLastKeeps DEF EditBlock
  <1>3. ASSUME Ready, NEW bb \in blocks, NEW new_bb \in BBs, IsNewBB(new_bb), CopyBB(bb, new_bb) PROVE IInv'
    BY <1>3, CopyKeeps
  <1>4. ASSUME Ready, NEW g \in Graphs, EditGraph(g) PROVE IInv'
    <2>1. ASSUME NEW inst \in ToSet(List(g)), RemoveNonCFGOrSideInst(g, inst) \/ SplitBBInTwo(inst) PROVE IInv'
      <3>1. inst \in Insts /\ parent[inst] \in blocks
        BY <1>4, MetIsHeld
      <3> QED BY <1>4, <2>1, <3>1, RemoveKeeps, SplitKeeps
    <2>2. ASSUME NEW bb \in BBs, IsNewBB(bb), NEW inst \in {Null} \cup {x \in Insts : IsNew(x)},
                 AddBBToBegin(g, bb, inst)
          PROVE  IInv'
      BY <1>4, <2>2, AddToBeginKeeps
    <2>3. CASE DestroyGraph(g)
      BY <1>4, <2>3, DestroyKeeps
    <2> QED BY <1>4, <2>1, <2>2, <2>3 DEF EditGraph
  <1> QED BY <1>1, <1>2, <1>3, <1>4 DEF Next

\* The inductive invariant of the edits.
LEMMA AlwaysIInv == Spec => []IInv
  BY InitHolds, NextKeeps, PTL DEF Spec

\* Whatever the calls and their order, the lists, blocks, edges and graphs keep
\* their types: a call that follows a pointer follows it to an instruction, to
\* nothing or to a wild one, and a root is one of the graph's own blocks.
THEOREM TypeCorrect == Spec => []TypeOK
  <1>1. IInv => TypeOK
    BY DEF IInv
  <1> QED BY <1>1, AlwaysIInv, PTL

-----------------------------------------------------------------------------
\* The steps that are a split which makes a block.
LEMMA OnlySplit ==
    ASSUME Next, call'.op = "SplitBBInTwo", blocks' # blocks
    PROVE  /\ Ready
           /\ \E g \in Graphs : \E inst \in ToSet(List(g)), new_bb \in BBs :
                 IsNewBB(new_bb) /\ Split(parent[inst], inst, new_bb)
  <1>1. Ready
    BY DEF Next, vars, blockVars
  <1>2. \A op, bb, inst, outcome : Ends(op, bb, inst, outcome) => op = "SplitBBInTwo"
    BY DEF Ends
  <1>3. ASSUME NEW bb, NEW inst PROVE ~EditBlock(bb, inst)
    BY <1>2 DEF EditBlock, InsertInstForward, InsertInstBack, ReplaceFirstInst, ReplaceLastInst, Undefined
  <1>4. ASSUME NEW bb, NEW new_bb PROVE ~CopyBB(bb, new_bb)
    BY <1>2 DEF CopyBB, Undefined
  <1>5. ASSUME NEW g, NEW bb, NEW inst PROVE ~AddBBToBegin(g, bb, inst)
    BY <1>2 DEF AddBBToBegin, Undefined
  <1>6. ASSUME NEW g, NEW inst PROVE ~RemoveNonCFGOrSideInst(g, inst)
    BY <1>2 DEF RemoveNonCFGOrSideInst, Undefined
  <1>7. ASSUME NEW g PROVE ~DestroyGraph(g)
    BY <1>2 DEF DestroyGraph, Undefined
  <1>8. PICK g \in Graphs : EditGraph(g)
    BY <1>1, <1>3, <1>4 DEF Next
  <1>9. PICK inst \in ToSet(List(g)) : SplitBBInTwo(inst)
    BY <1>5, <1>6, <1>7, <1>8 DEF EditGraph
  <1>10. \E new_bb \in BBs : IsNewBB(new_bb) /\ Split(parent[inst], inst, new_bb)
    BY <1>9 DEF SplitBBInTwo, blockVars
  <1> QED BY <1>1, <1>10

\* The client has one choice of a new block.
LEMMA NewBBUnique ==
    ASSUME NEW new_bb \in BBs, IsNewBB(new_bb) PROVE new_bb = CHOOSE bb \in BBs : IsNewBB(bb)
  <1>1. ASSUME NEW bb \in BBs, IsNewBB(bb) PROVE bb = new_bb
    <2>1. bb \in Nat \ {0} /\ new_bb \in Nat \ {0}
      BY LayoutAssumption DEF BBs
    <2>2. ~(bb < new_bb)
      <3>1. bb < new_bb => bb \in 1 .. new_bb - 1
        BY <2>1
      <3> QED BY <1>1, <3>1 DEF IsNewBB
    <2>3. ~(new_bb < bb)
      <3>1. new_bb < bb => new_bb \in 1 .. bb - 1
        BY <2>1
      <3> QED BY <1>1, <3>1 DEF IsNewBB
    <2> QED BY <2>1, <2>2, <2>3
  <1> QED BY <1>1

\* SplitBBInTwo, in any function and after any calls: the edge vectors, in step
\* before the split, are in step after it exactly when the block has at most one
\* successor and is stored last among the predecessors of that one, and then the
\* edges are those of a split block; with two successors it throws half-way.
THEOREM SplitRight == Spec => SplitMovesEdgesIff
  <1>1. IInv /\ [Next]_vars =>
         [ /\ call'.op = "SplitBBInTwo" /\ blocks' # blocks
           /\ MirroredEdges(succ, predec)
           => LET bb == call'.bb
              IN /\ call'.outcome = "threw" <=> Len(succ[bb]) = 2
                 /\ MirroredEdges(succ, predec)' <=>
                       Len(succ[bb]) < 2 /\ \A v \in ToSet(succ[bb]) : Last(predec[v]) = bb
                 /\ call'.outcome = "returned" =>
                       succ' = EdgesAfterSplit(bb, CHOOSE new \in BBs : IsNewBB(new))]_vars
    <2> SUFFICES ASSUME IInv, Next, call'.op = "SplitBBInTwo", blocks' # blocks, MirroredEdges(succ, predec)
                 PROVE  LET bb == call'.bb
                        IN /\ call'.outcome = "threw" <=> Len(succ[bb]) = 2
                           /\ MirroredEdges(succ, predec)' <=>
                                 Len(succ[bb]) < 2 /\ \A v \in ToSet(succ[bb]) : Last(predec[v]) = bb
                           /\ call'.outcome = "returned" =>
                                 succ' = EdgesAfterSplit(bb, CHOOSE new \in BBs : IsNewBB(new))
      OBVIOUS
    <2>1. Ready
      BY OnlySplit
    <2>13. PICK g \in Graphs : \E inst \in ToSet(List(g)), new_bb \in BBs :
                                 IsNewBB(new_bb) /\ Split(parent[inst], inst, new_bb)
      BY OnlySplit
    <2>2. PICK inst \in ToSet(List(g)), new_bb \in BBs : IsNewBB(new_bb) /\ Split(parent[inst], inst, new_bb)
      BY <2>13
    <2> DEFINE bb == parent[inst]
               e == SplitEdges(bb, new_bb)
    <2>3. bb \in blocks /\ bb \in BBs /\ new_bb \notin blocks
      BY <2>1, <2>2, MetIsHeld DEF IsNewBB
    <2>4. succ \in [BBs -> Seq(BBs)] /\ predec \in [BBs -> Seq(BBs)] /\ EdgesHeld
      BY <2>1 DEF IInv, Ready, TypeOK
    <2>5. /\ succ' = e.succ /\ predec' = e.predec
          /\ Ends("SplitBBInTwo", bb, inst, IF e.threw THEN "threw" ELSE "returned")
      BY <2>2 DEF Split, Undefined, blockVars
    <2>6. Len(succ[bb]) \in {0, 1, 2}
      BY <2>3, <2>4, SplitInSteps DEF EdgesHeld
    <2>7. EdgesAfterSplit(bb, CHOOSE new \in BBs : IsNewBB(new)) =
              [succ EXCEPT ![bb] = <<new_bb>>, ![new_bb] = succ[bb]]
      BY <2>2, NewBBUnique DEF EdgesAfterSplit
    <2>8. MirroredEdges(succ, predec)' <=> MirroredEdges(e.succ, e.predec)
      BY <2>5
    <2> HIDE DEF bb, e
    <2>9. call'.bb = bb /\ call'.outcome = IF e.threw THEN "threw" ELSE "returned"
      BY <2>5 DEF Ends
    <2>10. CASE Len(succ[bb]) = 0
      <3>1. /\ e.threw = FALSE
            /\ e.succ = [succ EXCEPT ![bb] = <<new_bb>>, ![new_bb] = succ[bb]]
            /\ MirroredEdges(e.succ, e.predec)
        BY <2>3, <2>4, <2>10, SplitNone DEF e
      <3>2. ToSet(succ[bb]) = {}
        <4>1. succ[bb] = <<>>
          BY <2>3, <2>4, <2>10, NoEntries
        <4> QED BY <4>1 DEF ToSet
      <3> QED BY <2>5, <2>7, <2>8, <2>9, <2>10, <3>1, <3>2
    <2>11. CASE Len(succ[bb]) = 1
      <3> DEFINE v == succ[bb][1]
      <3> HIDE DEF v
      <3>1. /\ ToSet(succ[bb]) = {v}
            /\ e.threw = FALSE
            /\ e.succ = [succ EXCEPT ![bb] = <<new_bb>>, ![new_bb] = succ[bb]]
            /\ MirroredEdges(e.succ, e.predec) <=> Last(predec[v]) = bb
        BY <2>3, <2>4, <2>11, SplitOne DEF e, v
      <3> QED BY <2>5, <2>7, <2>8, <2>9, <2>11, <3>1
    <2>12. CASE Len(succ[bb]) = 2
      <3>1. e.threw = TRUE /\ ~MirroredEdges(e.succ, e.predec)
        BY <2>3, <2>4, <2>12, SplitTwo DEF e
      <3> QED BY <2>8, <2>9, <2>12, <3>1
    <2> QED BY <2>6, <2>10, <2>11, <2>12
  <1> QED BY <1>1, AlwaysIInv, PTL DEF Spec, SplitMovesEdgesIff

-----------------------------------------------------------------------------
\* What a call does to edges and to the sets of blocks: only a split that makes
\* a block and AddBBToBegin touch them.
LEMMA CallTouches ==
    ASSUME Next, Ready
    PROVE  \/ /\ UNCHANGED <<succ, predec, bb_set>>
              /\ call'.op = "~IRGraph" \/ blocks \subseteq blocks'
              /\ ~(call'.op = "SplitBBInTwo" /\ blocks' # blocks)
           \/ /\ call'.op = "AddBBToBegin"
              /\ \E g \in Graphs, bb \in BBs : MakeRoot(g, bb) /\ blocks' = blocks \cup {bb}
           \/ /\ call'.op = "SplitBBInTwo" /\ blocks' # blocks /\ blocks \subseteq blocks'
              /\ UNCHANGED bb_set
  <1> DEFINE Still == /\ UNCHANGED <<succ, predec, bb_set>>
                      /\ call'.op = "~IRGraph" \/ blocks \subseteq blocks'
                      /\ ~(call'.op = "SplitBBInTwo" /\ blocks' # blocks)
  <1>0. ASSUME NEW op, NEW bb, NEW inst, Undefined(op, bb, inst) PROVE Still
    BY <1>0 DEF Undefined, blockVars, edgeVars, graphVars
  <1>1. ASSUME NEW bb, NEW inst, EditBlock(bb, inst) PROVE Still
    <2>1. CASE \E op : Undefined(op, bb, inst)
      BY <1>0, <2>1
    <2>2. CASE ~ \E op : Undefined(op, bb, inst)
      BY <1>1, <2>2 DEF EditBlock, InsertInstForward, InsertInstBack, ReplaceFirstInst, ReplaceLastInst,
                        Ends, edgeVars
    <2> QED BY <2>1, <2>2
  <1>2. ASSUME NEW bb, NEW new_bb, CopyBB(bb, new_bb) PROVE Still
    BY <1>0, <1>2 DEF CopyBB, Ends, edgeVars, graphVars
  <1>3. ASSUME NEW g \in Graphs, NEW bb \in BBs, NEW inst, AddBBToBegin(g, bb, inst)
        PROVE  Still \/ (call'.op = "AddBBToBegin" /\ MakeRoot(g, bb) /\ blocks' = blocks \cup {bb})
    BY <1>0, <1>3 DEF AddBBToBegin, Ends
  <1>4. ASSUME NEW g, NEW inst, RemoveNonCFGOrSideInst(g, inst) PROVE Still
    BY <1>0, <1>4 DEF RemoveNonCFGOrSideInst, Ends, blockVars, edgeVars
  <1>5. ASSUME NEW g, DestroyGraph(g) PROVE Still
    BY <1>0, <1>5 DEF DestroyGraph, Ends, edgeVars, graphVars
  <1>6. ASSUME NEW inst, SplitBBInTwo(inst)
        PROVE  Still \/ (call'.op = "SplitBBInTwo" /\ blocks' # blocks /\ blocks \subseteq blocks' /\ UNCHANGED bb_set)
    BY <1>0, <1>6 DEF SplitBBInTwo, Split, IsNewBB, Ends, blockVars, edgeVars, graphVars
  <1> HIDE DEF Still
  <1>7. ASSUME NEW g \in Graphs, EditGraph(g)
        PROVE  \/ Still
               \/ /\ call'.op = "AddBBToBegin"
                  /\ \E h \in Graphs, bb \in BBs : MakeRoot(h, bb) /\ blocks' = blocks \cup {bb}
               \/ call'.op = "SplitBBInTwo" /\ blocks' # blocks /\ blocks \subseteq blocks' /\ UNCHANGED bb_set
    BY <1>3, <1>4, <1>5, <1>6, <1>7 DEF EditGraph
  <1>8. \/ Still
        \/ /\ call'.op = "AddBBToBegin"
           /\ \E g \in Graphs, bb \in BBs : MakeRoot(g, bb) /\ blocks' = blocks \cup {bb}
        \/ call'.op = "SplitBBInTwo" /\ blocks' # blocks /\ blocks \subseteq blocks' /\ UNCHANGED bb_set
    BY <1>1, <1>2, <1>7 DEF Next
  <1> QED BY <1>8 DEF Still

\* A graph owns only blocks that exist, until it is destroyed.
SetsHeld == call.op # "~IRGraph" => \A g \in Graphs : bb_set[g] \subseteq blocks

\* No call registers a block that does not exist.
LEMMA AlwaysSetsHeld == Spec => []SetsHeld
  <1>1. Init => SetsHeld
    <2> SUFFICES ASSUME NEW layout \in Layouts, NEW zeroed \in SUBSET Insts, Laid(layout, zeroed)
                 PROVE  SetsHeld
      BY DEF Init
    <2>1. bb_set = [g \in Graphs |-> {bb \in blocks : layout.graph[bb] = g}]
      BY Zenon DEF Laid
    <2> QED BY <2>1 DEF SetsHeld
  <1>2. IInv /\ SetsHeld /\ [Next]_vars => SetsHeld'
    <2> SUFFICES ASSUME IInv, SetsHeld, [Next]_vars PROVE SetsHeld'
      OBVIOUS
    <2>1. CASE UNCHANGED vars
      BY <2>1 DEF SetsHeld, vars, blockVars, graphVars
    <2>2. CASE Next /\ Ready
      <3>1. \A g \in Graphs : bb_set[g] \subseteq blocks
        BY <2>2 DEF Ready, SetsHeld
      <3>2. ASSUME NEW g \in Graphs, NEW bb \in BBs, MakeRoot(g, bb), blocks' = blocks \cup {bb}
            PROVE  SetsHeld'
        BY <3>1, <3>2 DEF MakeRoot, SetsHeld, IInv, TypeOK
      <3> QED BY <2>2, <3>1, <3>2, CallTouches DEF SetsHeld
    <2> QED BY <2>1, <2>2 DEF Next
  <1> QED BY <1>1, <1>2, AlwaysIInv, PTL DEF Spec

\* The entry block's new predecessor joins the graph with its edge.
LEMMA RootIsRegistered ==
    ASSUME TypeOK, EdgesRegistered, NEW g \in Graphs, NEW bb \in BBs, MakeRoot(g, bb)
    PROVE  EdgesRegistered'
  <1>1. /\ succ \in [BBs -> Seq(BBs)] /\ predec \in [BBs -> Seq(BBs)] /\ bb_set \in [Graphs -> SUBSET BBs]
        /\ root[g] = Null \/ root[g] \in bb_set[g]
    BY DEF TypeOK
  <1>2. /\ bb \in bb_set'[g] /\ bb_set[g] \subseteq bb_set'[g]
        /\ \A h \in Graphs : bb_set[h] \subseteq bb_set'[h]
    BY <1>1 DEF MakeRoot
  <1>3. ASSUME NEW u \in BBs, NEW v \in BBs, Occurs(succ, u, v) \/ Occurs(predec, u, v)
        PROVE  \E h \in Graphs : {u, v} \subseteq bb_set'[h]
    BY <1>2, <1>3 DEF EdgesRegistered
  <1>4. CASE root[g] = Null
    <2>1. succ' = succ /\ predec' = predec
      BY <1>4 DEF MakeRoot, edgeVars
    <2> QED BY <1>3, <2>1 DEF EdgesRegistered, Occurs
  <1>5. CASE root[g] # Null
    <2> DEFINE r == root[g]
    <2>1. r \in BBs /\ r \in bb_set'[g]
      BY <1>1, <1>2, <1>5
    <2>2. /\ succ' = [succ EXCEPT ![bb] = Append(succ[bb], r)]
          /\ predec' = [predec EXCEPT ![r] = Append(predec[r], bb)]
      BY <1>5 DEF MakeRoot, PushBack
    <2> HIDE DEF r
    <2>3. ASSUME NEW u \in BBs, NEW v \in BBs
          PROVE  /\ v \in ToSet(succ'[u]) => v \in ToSet(succ[u]) \/ (u = bb /\ v = r)
                 /\ v \in ToSet(predec'[u]) => v \in ToSet(predec[u]) \/ (u = r /\ v = bb)
      <3>1. succ'[u] = IF u = bb THEN Append(succ[bb], r) ELSE succ[u]
        BY <1>1, <2>2
      <3>2. predec'[u] = IF u = r THEN Append(predec[r], bb) ELSE predec[u]
        BY <1>1, <2>2
      <3>3. \A y : y \in ToSet(Append(succ[bb], r)) <=> y = r \/ y \in ToSet(succ[bb])
        BY <1>1, <2>1, AppendHas
      <3>4. \A y : y \in ToSet(Append(predec[r], bb)) <=> y = bb \/ y \in ToSet(predec[r])
        BY <1>1, <2>1, AppendHas
      <3> QED BY <3>1, <3>2, <3>3, <3>4
    <2>4. {bb, r} \subseteq bb_set'[g]
      BY <1>2, <2>1
    <2> QED BY <1>3, <2>3, <2>4 DEF EdgesRegistered, Occurs
  <1> QED BY <1>4, <1>5

\* After a split, thrown or not, the new block is an end of an edge.
LEMMA SplitLinksNew ==
    ASSUME succ \in [BBs -> Seq(BBs)], predec \in [BBs -> Seq(BBs)], EdgesHeld, MirroredEdges(succ, predec),
           NEW bb \in BBs, bb \in blocks, NEW new_bb \in BBs, new_bb \notin blocks,
           NEW a, a = SplitEdges(bb, new_bb)
    PROVE  \E x \in BBs : Occurs(a.succ, bb, new_bb) \/ Occurs(a.succ, new_bb, x)
  <1>1. Len(succ[bb]) \in {0, 1, 2}
    BY SplitInSteps DEF EdgesHeld
  <1>2. ASSUME a.succ = [succ EXCEPT ![bb] = <<new_bb>>, ![new_bb] = succ[bb]] PROVE Occurs(a.succ, bb, new_bb)
    <2>1. a.succ[bb] = <<new_bb>>
      BY <1>2
    <2> QED BY <2>1 DEF Occurs, ToSet
  <1>3. CASE Len(succ[bb]) = 0
    BY <1>2, <1>3, SplitNone
  <1>4. CASE Len(succ[bb]) = 1
    BY <1>2, <1>4, SplitOne
  <1>5. CASE Len(succ[bb]) = 2
    BY <1>5, SplitTwo
  <1> QED BY <1>1, <1>3, <1>4, <1>5

\* In any function and after any calls: of the calls that edit graphs only a
\* split makes an edge to a block no graph owns, and every split that makes a
\* block makes one, even the split that throws half-way.
THEOREM OnlySplitsLeaveGraph == Spec => OnlySplitLeavesGraph
  <1>1. ASSUME IInv, SetsHeld, Next, vars' # vars, EdgesRegistered, MirroredEdges(succ, predec)
        PROVE  EdgesRegistered' <=> ~(call'.op = "SplitBBInTwo" /\ blocks' # blocks)
    <2>1. Ready /\ TypeOK
      BY <1>1 DEF Next, IInv
    <2>2. CASE UNCHANGED <<succ, predec, bb_set>> /\ ~(call'.op = "SplitBBInTwo" /\ blocks' # blocks)
      BY <1>1, <2>2 DEF EdgesRegistered, Occurs
    <2>3. ASSUME NEW g \in Graphs, NEW bb \in BBs, MakeRoot(g, bb) PROVE EdgesRegistered'
      BY <1>1, <2>1, <2>3, RootIsRegistered
    <2>4. CASE call'.op = "SplitBBInTwo" /\ blocks' # blocks /\ UNCHANGED bb_set
      <3>1. PICK g \in Graphs : \E inst \in ToSet(List(g)), new_bb \in BBs :
                                  IsNewBB(new_bb) /\ Split(parent[inst], inst, new_bb)
        BY <1>1, <2>4, OnlySplit
      <3>2. PICK inst \in ToSet(List(g)), new_bb \in BBs :
                     IsNewBB(new_bb) /\ Split(parent[inst], inst, new_bb)
        BY <3>1
      <3> DEFINE bb == parent[inst]
                 e == SplitEdges(bb, new_bb)
      <3>3. bb \in blocks /\ bb \in BBs /\ new_bb \notin blocks
        BY <1>1, <2>1, <3>2, MetIsHeld DEF IsNewBB
      <3>4. succ \in [BBs -> Seq(BBs)] /\ predec \in [BBs -> Seq(BBs)] /\ EdgesHeld
        BY <1>1, <2>1 DEF IInv, Ready, TypeOK
      <3>5. succ' = e.succ
        BY <2>4, <3>2 DEF Split, Undefined, blockVars
      <3>6. PICK x \in BBs : Occurs(succ', bb, new_bb) \/ Occurs(succ', new_bb, x)
        <4> HIDE DEF bb
        <4>1. \E x \in BBs : Occurs(e.succ, bb, new_bb) \/ Occurs(e.succ, new_bb, x)
          BY <1>1, <3>3, <3>4, SplitLinksNew
        <4> QED BY <3>5, <4>1
      <3>7. \A h \in Graphs : new_bb \notin bb_set'[h]
        BY <1>1, <2>1, <2>4, <3>3 DEF SetsHeld, Ready
      <3>8. ~EdgesRegistered'
        <4> HIDE DEF bb
        <4> QED BY <3>3, <3>6, <3>7 DEF EdgesRegistered, Occurs
      <3> QED BY <2>4, <3>8
    <2> QED BY <1>1, <2>1, <2>2, <2>3, <2>4, CallTouches
  <1>2. IInv /\ SetsHeld /\ [Next]_vars =>
         [EdgesRegistered /\ MirroredEdges(succ, predec) =>
            (EdgesRegistered' <=> ~(call'.op = "SplitBBInTwo" /\ blocks' # blocks))]_vars
    BY <1>1
  <1> QED BY <1>2, AlwaysIInv, AlwaysSetsHeld, PTL DEF Spec, OnlySplitLeavesGraph

-----------------------------------------------------------------------------
\* What an intact state says of a list in it.
Intact(f) ==
    /\ f \in Seq(Insts \ deleted) /\ Len(f) <= MaxInsts /\ NoDuplicates(f)
    /\ \A i \in 1 .. Len(f) - 1 : next[f[i]] = f[i + 1] /\ prev[f[i + 1]] = f[i]
    /\ f # <<>> => prev[f[1]] = Null /\ next[f[Len(f)]] = Null
    /\ \A bb \in blocks : IsPiece(f, bb)

\* The entries of all the lists, and what ListIntact says with them.
Everywhere == UNION {ToSet(list) : list \in Lists}

\* What ListIntact says of all lists, without the functions that hold them.
LEMMA IntactSays == ListIntact =>
    /\ \A g \in Graphs : KnowsEnds(List(g), first[g], last[g])
    /\ \A g \in Graphs : \A x \in ToSet(List(g)) : parent[x] \in blocks \ Copies
    /\ \A g, h \in Graphs : g # h => ToSet(List(g)) \cap ToSet(List(h)) = {}
    /\ \A bb \in Copies : \A x \in ToSet(Follow(first_inst[bb])) : parent[x] = bb
    /\ \A f \in Lists : Linked(f) /\ \A bb \in blocks : IsPiece(f, bb)
    /\ \A bb \in blocks : \/ first_inst[bb] \in Everywhere /\ parent[first_inst[bb]] = bb
                          \/ HoldsNone(Everywhere, bb)
  <1> DEFINE of == [g \in Graphs |-> List(g)]
             copy == [bb \in Copies |-> Follow(first_inst[bb])]
  <1>1. Range(of) \cup Range(copy) = Lists
    BY DEF Lists, Range
  <1>2. /\ \A g \in Graphs : of[g] = List(g)
        /\ \A bb \in Copies : copy[bb] = Follow(first_inst[bb])
    OBVIOUS
  <1> HIDE DEF of, copy
  <1>3. UNION {ToSet(list) : list \in Range(of) \cup Range(copy)} = Everywhere
    BY <1>1 DEF Everywhere
  <1>4. ListIntact =>
          /\ \A g \in Graphs :
                /\ KnowsEnds(of[g], first[g], last[g])
                /\ \A x \in ToSet(of[g]) : parent[x] \in blocks \ Copies
                /\ \A h \in Graphs \ {g} : ToSet(of[g]) \cap ToSet(of[h]) = {}
          /\ \A bb \in Copies : \A x \in ToSet(copy[bb]) : parent[x] = bb
          /\ \A f \in Lists : Linked(f) /\ \A bb \in blocks : IsPiece(f, bb)
          /\ \A bb \in blocks : \/ first_inst[bb] \in Everywhere /\ parent[first_inst[bb]] = bb
                                \/ HoldsNone(Everywhere, bb)
    BY <1>1, <1>3, Zenon DEF ListIntact, of, copy
  <1> QED BY <1>2, <1>4

\* Every list is what is met from some pointer on.
LEMMA ListsMet ==
    ASSUME IInv, PointersHeld, NEW f \in Lists PROVE \E x \in Links : f = Follow(x) /\ MetFrom(x, f)
  <1>1. HeldLinks \subseteq Links
    BY DEF HeldLinks, Links, MaybeInst
  <1>2. \E x \in HeldLinks : f = Follow(x)
    <2>1. CASE f \in {List(g) : g \in Graphs}
      BY <2>1 DEF List, PointersHeld
    <2>2. CASE f \in {Follow(first_inst[bb]) : bb \in Copies}
      <3>1. Copies \subseteq BBs
        BY DEF Copies, IInv, TypeOK
      <3> QED BY <2>2, <3>1 DEF PointersHeld
    <2> QED BY <2>1, <2>2 DEF Lists
  <1>3. PICK x \in Links : f = Follow(x)
    BY <1>1, <1>2
  <1>4. MaxInsts \in Nat /\ next \in [Insts -> Links]
    BY LayoutAssumption DEF IInv, TypeOK
  <1> QED BY <1>3, <1>4, FollowSteps

\* In an intact state every list is intact in the sense of Intact.
LEMMA IntactLists ==
    ASSUME IInv, PointersHeld, ListIntact, NEW f \in Lists PROVE Intact(f)
  <1>1. Linked(f) /\ \A bb \in blocks : IsPiece(f, bb)
    BY IntactSays
  <1>2. PICK x \in Links : MetFrom(x, f)
    BY ListsMet
  <1>3. f # <<>> => Last(f) = f[Len(f)]
    BY DEF Last
  <1> QED BY <1>1, <1>2, <1>3 DEF Intact, Linked, MetFrom

\* Nothing that is linked to in a list is gone.
LEMMA Neighbours ==
    ASSUME NEW f, Intact(f), NEW x \in ToSet(f)
    PROVE  /\ Valid(x)
           /\ next[x] = Null \/ Valid(next[x])
           /\ prev[x] = Null \/ Valid(prev[x])
           /\ x # f[1] => Valid(prev[x])
           /\ x # f[Len(f)] => Valid(next[x])
  <1>1. /\ f \in Seq(Insts \ deleted) /\ Len(f) \in Nat
        /\ \A i \in 1 .. Len(f) - 1 : next[f[i]] = f[i + 1] /\ prev[f[i + 1]] = f[i]
        /\ f # <<>> => prev[f[1]] = Null /\ next[f[Len(f)]] = Null
    BY DEF Intact
  <1>2. PICK i \in 1..Len(f) : f[i] = x
    BY <1>1, Entries
  <1>3. \A j \in 1..Len(f) : Valid(f[j])
    BY <1>1 DEF Valid
  <1>4. f # <<>>
    BY <1>1, <1>2
  <1>5. /\ next[x] = Null \/ Valid(next[x])
        /\ x # f[Len(f)] => Valid(next[x])
    <2>1. CASE i = Len(f)
      BY <1>1, <1>2, <1>4, <2>1
    <2>2. CASE i # Len(f)
      <3>1. i \in 1 .. Len(f) - 1 /\ i + 1 \in 1..Len(f)
        BY <1>1, <2>2
      <3>2. next[x] = f[i + 1]
        BY <1>1, <1>2, <3>1
      <3> QED BY <1>3, <3>1, <3>2
    <2> QED BY <2>1, <2>2
  <1>6. /\ prev[x] = Null \/ Valid(prev[x])
        /\ x # f[1] => Valid(prev[x])
    <2>1. CASE i = 1
      BY <1>1, <1>2, <1>4, <2>1
    <2>2. CASE i # 1
      <3>1. i - 1 \in 1 .. Len(f) - 1 /\ i - 1 \in 1..Len(f) /\ (i - 1) + 1 = i
        BY <1>1, <2>2
      <3>2. prev[x] = f[i - 1]
        BY <1>1, <1>2, <3>1
      <3> QED BY <1>3, <3>1, <3>2
    <2> QED BY <2>1, <2>2
  <1> QED BY <1>2, <1>3, <1>5, <1>6

\* From any place of a list on, its end is met, and everything up to it.
LEMMA RestIsMet ==
    ASSUME IInv, NEW f, Intact(f), NEW i \in 1..Len(f)
    PROVE  /\ EndsInNull(f[i])
           /\ \A j \in i..Len(f) : f[j] \in ToSet(Follow(f[i]))
  <1> DEFINE m == Len(f) - i + 1
             c == [n \in 1..m |-> f[n + i - 1]]
             r == Follow(f[i])
  <1>1. /\ f \in Seq(Insts \ deleted) /\ Len(f) \in Nat /\ Len(f) <= MaxInsts
        /\ \A k \in 1 .. Len(f) - 1 : next[f[k]] = f[k + 1]
        /\ next[f[Len(f)]] = Null
    BY DEF Intact
  <1>2. m \in Nat /\ 1 <= m /\ m <= Len(f)
    BY <1>1
  <1>3. MaxInsts \in Nat /\ next \in [Insts -> Links]
    BY LayoutAssumption DEF IInv, TypeOK
  <1>4. c \in Seq(Insts \ deleted) /\ Len(c) = m /\ c[1] = f[i] /\ c[m] = f[Len(f)]
    <2>1. \A n \in 1..m : n + i - 1 \in 1..Len(f)
      BY <1>1, <1>2
    <2>2. \A n \in 1..m : f[n + i - 1] \in Insts \ deleted
      BY <1>1, <2>1
    <2>3. c \in Seq(Insts \ deleted) /\ Len(c) = m
      <3> HIDE DEF m
      <3> QED BY <1>2, <2>2
    <2>4. 1 \in 1..m /\ 1 + i - 1 = i /\ m \in 1..m /\ m + i - 1 = Len(f)
      BY <1>1, <1>2
    <2> HIDE DEF m
    <2>5. c[1] = f[1 + i - 1] /\ c[m] = f[m + i - 1]
      BY <2>4
    <2> QED BY <2>3, <2>4, <2>5
  <1>5. \A k \in 1 .. Len(c) - 1 : c[k + 1] = next[c[k]]
    <2> SUFFICES ASSUME NEW k \in 1 .. m - 1 PROVE c[k + 1] = next[c[k]]
      BY <1>4
    <2>1. k \in 1..m /\ k + 1 \in 1..m /\ k + i - 1 \in 1 .. Len(f) - 1 /\ (k + i - 1) + 1 = k + 1 + i - 1
      BY <1>1, <1>2
    <2> HIDE DEF m
    <2> QED BY <1>1, <2>1
  <1> HIDE DEF c, m
  <1>6. ~Valid(next[c[Len(c)]]) /\ c # <<>> /\ Len(c) <= MaxInsts
    <2>1. ~Valid(Null)
      BY DEF Valid, Null, Insts
    <2> QED BY <1>1, <1>2, <1>3, <1>4, <2>1
  <1>7. r = c
    BY <1>3, <1>4, <1>5, <1>6, FollowChain
  <1>8. EndsInNull(f[i])
    <2>1. Last(r) = f[Len(f)] /\ r # <<>>
      BY <1>4, <1>6, <1>7 DEF Last
    <2> QED BY <1>1, <2>1 DEF EndsInNull
  <1>9. ASSUME NEW j \in i..Len(f) PROVE f[j] \in ToSet(r)
    <2>1. j - i + 1 \in 1..m /\ (j - i + 1) + i - 1 = j
      BY <1>1 DEF m
    <2>2. c[j - i + 1] = f[j]
      BY <2>1 DEF c
    <2> QED BY <1>4, <1>7, <2>1, <2>2, Entries
  <1> QED BY <1>8, <1>9

\* A block holds nothing or the piece of a list between its two ends.
LEMMA BlockIsPiece ==
    ASSUME IInv, PointersHeld, ListIntact, NEW bb \in blocks
    PROVE  \/ first_inst[bb] = Null /\ last_inst[bb] = Null
           \/ \E f \in Lists : \E i, j \in 1..Len(f) :
                 i <= j /\ first_inst[bb] = f[i] /\ last_inst[bb] = f[j]
  <1>1. CASE HoldsNone(Everywhere, bb)
    BY <1>1 DEF HoldsNone
  <1>2. CASE first_inst[bb] \in Everywhere /\ parent[first_inst[bb]] = bb
    <2>1. PICK f \in Lists : first_inst[bb] \in ToSet(f)
      BY <1>2 DEF Everywhere
    <2> DEFINE own == {i \in DOMAIN f : parent[f[i]] = bb}
    <2>2. f \in Seq(Insts \ deleted) /\ IsPiece(f, bb)
      BY <2>1, IntactLists DEF Intact
    <2>3. Len(f) \in Nat /\ DOMAIN f = 1..Len(f) /\ own \in SUBSET (1..Len(f))
      BY <2>2
    <2>4. own # {}
      BY <1>2, <2>1, <2>2, <2>3, Entries
    <2>5. Min(own) \in own /\ Max(own) \in own /\ Min(own) <= Max(own)
      BY <2>3, <2>4, EndsOfSet
    <2>6. first_inst[bb] = f[Min(own)] /\ last_inst[bb] = f[Max(own)]
      BY <2>2, <2>4 DEF IsPiece
    <2> QED BY <2>3, <2>5, <2>6
  <1> QED BY <1>1, <1>2, IntactSays

\* The end pointers of a block lead to instructions with sound neighbours.
LEMMA BlockEnds ==
    ASSUME IInv, PointersHeld, ListIntact, NEW bb \in blocks
    PROVE  /\ SizeDefined(bb) /\ EndsInNull(first_inst[bb])
           /\ first_inst[bb] = Null <=> last_inst[bb] = Null
           /\ first_inst[bb] # Null =>
                 /\ Valid(first_inst[bb]) /\ Valid(last_inst[bb])
                 /\ next[first_inst[bb]] = Null \/ Valid(next[first_inst[bb]])
                 /\ prev[last_inst[bb]] = Null \/ Valid(prev[last_inst[bb]])
  <1>0. ~Valid(Null)
    BY DEF Valid, Null, Insts
  <1>1. CASE first_inst[bb] = Null /\ last_inst[bb] = Null
    <2>1. Follow(Null) = <<>>
      <3>1. MaxInsts \in Nat /\ next \in [Insts -> Links] /\ Null \in Links
        BY LayoutAssumption DEF IInv, TypeOK, Links, MaybeInst
      <3> QED BY <1>0, <3>1, FollowSteps DEF MetFrom
    <2> QED BY <1>1, <2>1 DEF SizeDefined, EndsInNull
  <1>2. ASSUME NEW f \in Lists, NEW i \in 1..Len(f), NEW j \in 1..Len(f),
               i <= j, first_inst[bb] = f[i], last_inst[bb] = f[j]
        PROVE  /\ SizeDefined(bb) /\ EndsInNull(first_inst[bb])
               /\ first_inst[bb] = Null <=> last_inst[bb] = Null
               /\ first_inst[bb] # Null =>
                     /\ Valid(first_inst[bb]) /\ Valid(last_inst[bb])
                     /\ next[first_inst[bb]] = Null \/ Valid(next[first_inst[bb]])
                     /\ prev[last_inst[bb]] = Null \/ Valid(prev[last_inst[bb]])
    <2>1. Intact(f) /\ f \in Seq(Insts \ deleted)
      BY IntactLists DEF Intact
    <2>2. f[i] \in ToSet(f) /\ f[j] \in ToSet(f)
      BY <2>1, Entries
    <2>3. j \in i..Len(f)
      BY <1>2, <2>1
    <2>4. EndsInNull(f[i]) /\ f[j] \in ToSet(Follow(f[i]))
      BY <2>1, <2>3, RestIsMet
    <2>5. /\ Valid(f[i]) /\ Valid(f[j])
          /\ next[f[i]] = Null \/ Valid(next[f[i]])
          /\ prev[f[j]] = Null \/ Valid(prev[f[j]])
      BY <2>1, <2>2, Neighbours
    <2> QED BY <1>0, <1>2, <2>4, <2>5 DEF SizeDefined
  <1> QED BY <1>1, <1>2, BlockIsPiece

\* What UndefinedIff says of call c.
ReplacesAlone(c) ==
    \/ c.op = "ReplaceFirstInst" /\ (first_inst[c.bb] = Null \/ next[first_inst[c.bb]] = Null)
    \/ c.op = "ReplaceLastInst" /\ (last_inst[c.bb] = Null \/ prev[last_inst[c.bb]] = Null)

Foreseen(c) ==
    /\ ReplacesAlone(c) => c.outcome = "undefined"
    /\ c.outcome = "undefined" => ReplacesAlone(c) \/ (graph_[c.bb] = Wild /\ c.op # "BasicBlock")

\* A call that is not a replacement and has a meaning is no surprise.
LEMMA DefinedForeseen ==
    ASSUME NEW op, NEW bb, NEW inst, NEW outcome, Ends(op, bb, inst, outcome),
           op # "ReplaceFirstInst", op # "ReplaceLastInst",
           outcome # "undefined" \/ (graph_[bb] = Wild /\ op # "BasicBlock")
    PROVE  Foreseen(call')
  BY DEF Ends, Foreseen, ReplacesAlone

\* The calls on an instruction of a block are undefined where UndefinedIff says.
LEMMA EditForeseen ==
    ASSUME IInv, PointersHeld, ListIntact, NEW bb \in blocks, NEW inst, EditBlock(bb, inst)
    PROVE  Foreseen(call')
  <1>0. ~Valid(Null)
    BY DEF Valid, Null, Insts
  <1>1. /\ first_inst[bb] = Null <=> last_inst[bb] = Null
        /\ first_inst[bb] # Null =>
              /\ Valid(first_inst[bb]) /\ Valid(last_inst[bb])
              /\ next[first_inst[bb]] = Null \/ Valid(next[first_inst[bb]])
              /\ prev[last_inst[bb]] = Null \/ Valid(prev[last_inst[bb]])
    BY BlockEnds
  <1>2. CASE InsertInstForward(bb, inst)
    <2>1. \/ graph_[bb] = Wild /\ Ends("InsertInstForward", bb, inst, "undefined")
          \/ Ends("InsertInstForward", bb, inst, "returned")
      BY <1>1, <1>2 DEF InsertInstForward, Fails, Undefined
    <2> QED BY <2>1, DefinedForeseen
  <1>3. CASE InsertInstBack(bb, inst)
    <2>1. \/ graph_[bb] = Wild /\ Ends("InsertInstBack", bb, inst, "undefined")
          \/ Ends("InsertInstBack", bb, inst, "returned")
      BY <1>1, <1>3 DEF InsertInstBack, Fails, Undefined
    <2> QED BY <2>1, DefinedForeseen
  <1>4. CASE ReplaceFirstInst(bb, inst)
    <2> DEFINE lone == first_inst[bb] = Null \/ next[first_inst[bb]] = Null
    <2>1. \/ /\ lone \/ graph_[bb] = Wild
             /\ Ends("ReplaceFirstInst", bb, inst, "undefined")
          \/ ~lone /\ Ends("ReplaceFirstInst", bb, inst, "returned")
      BY <1>0, <1>1, <1>4 DEF ReplaceFirstInst, Fails, Undefined
    <2> QED BY <2>1 DEF Ends, Foreseen, ReplacesAlone
  <1>5. CASE ReplaceLastInst(bb, inst)
    <2> DEFINE lone == last_inst[bb] = Null \/ prev[last_inst[bb]] = Null
    <2>1. \/ /\ lone \/ graph_[bb] = Wild
             /\ Ends("ReplaceLastInst", bb, inst, "undefined")
          \/ ~lone /\ Ends("ReplaceLastInst", bb, inst, "returned")
      BY <1>0, <1>1, <1>5 DEF ReplaceLastInst, Fails, Undefined
    <2> QED BY <2>1 DEF Ends, Foreseen, ReplacesAlone
  <1> QED BY <1>2, <1>3, <1>4, <1>5 DEF EditBlock

\* The calls on a graph are undefined where UndefinedIff says.
LEMMA GraphForeseen ==
    ASSUME IInv, Ready, ListIntact, NEW g \in Graphs, EditGraph(g)
    PROVE  Foreseen(call')
  <1>0. ~Valid(Null) /\ PointersHeld
    BY DEF Valid, Null, Insts, IInv, Ready
  <1> DEFINE f == List(g)
  <1>1. f \in Lists
    BY DEF Lists
  <1>2. Intact(f) /\ f \in Seq(Insts \ deleted)
    BY <1>0, <1>1, IntactLists DEF Intact
  <1>3. KnowsEnds(f, first[g], last[g])
    BY IntactSays
  <1>4. f # <<>> => f[1] = first[g] /\ f[Len(f)] = last[g]
    <2>1. first[g] \in Links /\ MaxInsts \in Nat /\ next \in [Insts -> Links]
      BY LayoutAssumption DEF IInv, TypeOK
    <2>2. MetFrom(first[g], f)
      BY <2>1, FollowSteps DEF List
    <2>3. f # <<>> => Last(f) = f[Len(f)]
      BY DEF Last
    <2> QED BY <1>3, <2>2, <2>3 DEF KnowsEnds, MetFrom
  <1>5. ASSUME NEW inst \in ToSet(f), RemoveNonCFGOrSideInst(g, inst) PROVE Foreseen(call')
    <2> DEFINE bb == parent[inst]
    <2>1. f # <<>>
      BY <1>2, Entries
    <2>2. SizeDefined(bb)
      BY <1>0, BlockEnds, MetIsHeld
    <2>3. inst \notin {first[g], last[g]} => Valid(prev[inst]) /\ Valid(next[inst])
      BY <1>2, <1>4, <2>1, Neighbours
    <2>4. Ends("RemoveNonCFGOrSideInst", bb, inst, "returned")
      BY <1>5, <2>2, <2>3 DEF RemoveNonCFGOrSideInst
    <2> QED BY <2>4, DefinedForeseen
  <1>6. ASSUME NEW inst \in ToSet(f), SplitBBInTwo(inst) PROVE Foreseen(call')
    <2> DEFINE bb == parent[inst]
    <2>1. EndsInNull(next[inst])
      <3>1. PICK i \in 1..Len(f) : f[i] = inst
        BY <1>2, Entries
      <3>2. Len(f) \in Nat /\ f # <<>>
        BY <1>2, <3>1
      <3>3. CASE i = Len(f)
        <4>1. next[inst] = Null
          BY <1>2, <3>1, <3>2, <3>3 DEF Intact
        <4>2. Follow(Null) = <<>>
          <5>1. MaxInsts \in Nat /\ next \in [Insts -> Links] /\ Null \in Links
            BY LayoutAssumption DEF IInv, TypeOK, Links, MaybeInst
          <5> QED BY <1>0, <5>1, FollowSteps DEF MetFrom
        <4> QED BY <4>1, <4>2 DEF EndsInNull
      <3>4. CASE i # Len(f)
        <4>1. i \in 1 .. Len(f) - 1 /\ i + 1 \in 1..Len(f)
          BY <3>2, <3>4
        <4>2. next[inst] = f[i + 1]
          BY <1>2, <3>1, <4>1 DEF Intact
        <4> QED BY <1>2, <4>1, <4>2, RestIsMet
      <3> QED BY <3>3, <3>4
    <2>2. \E outcome \in {"returned", "threw"} : Ends("SplitBBInTwo", bb, inst, outcome)
      BY <1>6, <2>1 DEF SplitBBInTwo, Split
    <2> QED BY <2>2, DefinedForeseen
  <1>7. first[g] # Null => Valid(first[g])
    <2>1. f # <<>> => f[1] \in ToSet(f)
      BY <1>2, Entries
    <2> QED BY <1>2, <1>3, <1>4, <2>1, Neighbours DEF KnowsEnds
  <1>8. ASSUME NEW bb \in BBs, NEW inst, AddBBToBegin(g, bb, inst) PROVE Foreseen(call')
    <2>1. Ends("AddBBToBegin", bb, inst, "returned")
      BY <1>7, <1>8 DEF AddBBToBegin
    <2> QED BY <2>1, DefinedForeseen
  <1>9. ASSUME DestroyGraph(g) PROVE Foreseen(call')
    <2>1. EndsInNull(first[g])
      <3>1. CASE f = <<>>
        BY <1>3, <3>1 DEF KnowsEnds, EndsInNull, List
      <3>2. CASE f # <<>>
        <4>1. 1 \in 1..Len(f)
          BY <1>2, <3>2
        <4> QED BY <1>2, <1>4, <3>2, <4>1, RestIsMet
      <3> QED BY <3>1, <3>2
    <2>2. Ends("~IRGraph", Null, Null, "returned")
      BY <1>9, <2>1 DEF DestroyGraph
    <2> QED BY <2>2, DefinedForeseen
  <1> QED BY <1>5, <1>6, <1>8, <1>9 DEF EditGraph

\* The copy of a block is never undefined on intact lists.
LEMMA CopyForeseen ==
    ASSUME IInv, PointersHeld, ListIntact, NEW bb \in blocks, NEW new_bb, CopyBB(bb, new_bb)
    PROVE  Foreseen(call')
  <1>1. EndsInNull(first_inst[bb])
    BY BlockEnds
  <1>2. Ends("BasicBlock", bb, Null, "returned")
    BY <1>1 DEF CopyBB
  <1> QED BY <1>2, DefinedForeseen

\* In any function and after any calls: on intact lists the calls without a
\* meaning are replacements in an empty block or without a neighbour to tell,
\* each of which is one, and some of the edits of copied blocks.
THEOREM UndefinedForeseen == Spec => UndefinedIff
  <1>1. ASSUME IInv, Next, ListIntact, vars' # vars PROVE Foreseen(call')
    <2>1. Ready /\ PointersHeld
      BY <1>1 DEF Next, Ready, IInv
    <2> QED BY <1>1, <2>1, EditForeseen, CopyForeseen, GraphForeseen DEF Next
  <1>2. IInv /\ [Next]_vars =>
         [ListIntact =>
            LET c == call'
                alone == \/ c.op = "ReplaceFirstInst" /\ (first_inst[c.bb] = Null \/ next[first_inst[c.bb]] = Null)
                         \/ c.op = "ReplaceLastInst" /\ (last_inst[c.bb] = Null \/ prev[last_inst[c.bb]] = Null)
            IN /\ alone => c.outcome = "undefined"
               /\ c.outcome = "undefined" => alone \/ (graph_[c.bb] = Wild /\ c.op # "BasicBlock")]_vars
    BY <1>1 DEF Foreseen, ReplacesAlone
  <1> QED BY <1>2, AlwaysIInv, PTL DEF Spec, UndefinedIff

-----------------------------------------------------------------------------
(* Lists that are in order.                                                *)

\* Who holds a list, and both ends of it: a graph or a copied block.
Holders == [kind : {"graph"}, id : Graphs] \cup [kind : {"copy"}, id : Copies]
HeadOf(h) == IF h.kind = "graph" THEN first[h.id] ELSE first_inst[h.id]
TailOf(h) == IF h.kind = "graph" THEN last[h.id] ELSE last_inst[h.id]
MayHold(h, bb) == bb \in blocks /\ IF h.kind = "graph" THEN bb \notin Copies ELSE bb = h.id

\* f is linked both ways from end to end.
Chain(f) ==
    /\ f \in Seq(Insts \ deleted) /\ NoDuplicates(f)
    /\ \A i \in 1 .. Len(f) - 1 : next[f[i]] = f[i + 1] /\ prev[f[i + 1]] = f[i]
    /\ f # <<>> => prev[f[1]] = Null /\ next[f[Len(f)]] = Null

\* h knows both ends of f.
KnowsBoth(f, h) ==
    IF f = <<>> THEN HeadOf(h) = Null /\ TailOf(h) = Null
                ELSE HeadOf(h) = f[1] /\ TailOf(h) = f[Len(f)]

\* The instructions of bb are one piece of f, and bb knows both ends of it.
PieceIn(f, bb) ==
    \E a, b \in 1..Len(f) :
        /\ a <= b /\ first_inst[bb] = f[a] /\ last_inst[bb] = f[b]
        /\ \A i \in 1..Len(f) : parent[f[i]] = bb <=> a <= i /\ i <= b

\* bb is a block of nothing.
Empty(bb) == first_inst[bb] = Null /\ last_inst[bb] = Null

\* f holds nothing of bb.
Without(f, bb) == \A x \in ToSet(f) : parent[x] # bb

\* bb is empty or a piece of one of the lists L, and of no other.
Placed(L, bb) ==
    \/ Empty(bb) /\ \A h \in Holders : Without(L[h], bb)
    \/ \E h \in Holders : PieceIn(L[h], bb) /\ \A k \in Holders \ {h} : Without(L[k], bb)

Apart(f, c) == ToSet(f) \cap ToSet(c) = {}

\* The lists L are those of the holders, and all is in order.
LaidAs(L) ==
    /\ L \in [Holders -> Seq(Insts)]
    /\ \A h \in Holders : Chain(L[h]) /\ KnowsBoth(L[h], h)
    /\ \A h \in Holders : \A x \in ToSet(L[h]) : MayHold(h, parent[x])
    /\ \A h, k \in Holders : h # k => Apart(L[h], L[k])
    /\ \A bb \in blocks : Placed(L, bb)

\* The types that the lists rest on.
Typed ==
    /\ MaxInsts \in Nat
    /\ next \in [Insts -> Links] /\ prev \in [Insts -> Links]
    /\ parent \in [Insts -> BBs \cup {Null}] /\ blocks \subseteq BBs
    /\ first_inst \in [BBs -> Links] /\ last_inst \in [BBs -> Links]
    /\ first \in [Graphs -> Links] /\ last \in [Graphs -> Links]

\* nullptr is no instruction.
LEMMA NullIsNothing == ~Valid(Null) /\ Null \notin Insts /\ Null \notin BBs /\ Null \in Links
  BY DEF Valid, Null, Insts, BBs, Links, MaybeInst

\* There are n numbers from 1 to n.
LEMMA CountedTo == ASSUME NEW n \in Nat PROVE IsFiniteSet(1..n) /\ Cardinality(1..n) = n
  <1>1. 1 \in Int /\ n \in Int
    OBVIOUS
  <1>2. IsFiniteSet(1..n) /\ Cardinality(1..n) = IF 1 > n THEN 0 ELSE n - 1 + 1
    BY <1>1, FS_Interval
  <1> QED BY <1>2

\* Instructions without repetition are no more than there are.
LEMMA NotTooLong ==
    ASSUME MaxInsts \in Nat, NEW f \in Seq(Insts), NoDuplicates(f) PROVE Len(f) <= MaxInsts
  <1>1. Len(f) \in Nat /\ DOMAIN f = 1..Len(f) /\ Insts = 1..MaxInsts
    BY DEF Insts
  <1>2. f \in Injection(1..Len(f), 1..MaxInsts)
    BY <1>1, SMTT(30) DEF NoDuplicates, Injection, IsInjective
  <1>3. /\ IsFiniteSet(1..Len(f)) /\ Cardinality(1..Len(f)) = Len(f)
        /\ IsFiniteSet(1..MaxInsts) /\ Cardinality(1..MaxInsts) = MaxInsts
    BY <1>1, CountedTo
  <1> QED BY <1>2, <1>3, FS_Injection

\* Following next_ from the head of a chain gives the chain.
LEMMA ChainIsMet ==
    \A f, x : Typed /\ Chain(f) /\ x \in Links /\ (IF f = <<>> THEN x = Null ELSE x = f[1])
              => Follow(x) = f
  <1> SUFFICES ASSUME NEW f, NEW x, Typed, Chain(f), x \in Links,
                      IF f = <<>> THEN x = Null ELSE x = f[1]
               PROVE  Follow(x) = f
    OBVIOUS
  <1>1. MaxInsts \in Nat /\ next \in [Insts -> Links] /\ f \in Seq(Insts \ deleted)
    BY DEF Typed, Chain
  <1>2. CASE f = <<>>
    <2>1. ~Valid(x)
      BY <1>2, NullIsNothing
    <2> QED BY <1>1, <1>2, <2>1, FollowSteps DEF MetFrom
  <1>3. CASE f # <<>>
    <2>1. Len(f) <= MaxInsts
      <3>1. f \in Seq(Insts)
        BY <1>1
      <3> QED BY <1>1, <3>1, NotTooLong DEF Chain
    <2>2. \A i \in 1 .. Len(f) - 1 : f[i + 1] = next[f[i]]
      BY DEF Chain
    <2>3. ~Valid(next[f[Len(f)]])
      BY <1>3, NullIsNothing DEF Chain
    <2> QED BY <1>1, <1>3, <2>1, <2>2, <2>3, FollowChain
  <1> QED BY <1>2, <1>3

\* The two ways to say that a block is a piece of a list.
LEMMA PieceSays ==
    ASSUME NEW f \in Seq(Insts), NEW bb, IsPiece(f, bb), ~Without(f, bb) PROVE PieceIn(f, bb)
  <1> DEFINE own == {i \in DOMAIN f : parent[f[i]] = bb}
  <1>1. Len(f) \in Nat /\ DOMAIN f = 1..Len(f) /\ own \in SUBSET (1..Len(f))
    OBVIOUS
  <1>2. own # {}
    BY <1>1, Entries DEF Without
  <1>3. own = Min(own) .. Max(own) /\ first_inst[bb] = f[Min(own)] /\ last_inst[bb] = f[Max(own)]
    BY <1>2 DEF IsPiece
  <1>4. Min(own) \in own /\ Max(own) \in own /\ Min(own) <= Max(own)
    BY <1>1, <1>2, EndsOfSet
  <1>5. \A i \in 1..Len(f) : parent[f[i]] = bb <=> i \in own
    BY <1>1
  <1> HIDE DEF own
  <1>6. \A i \in 1..Len(f) : i \in own <=> Min(own) <= i /\ i <= Max(own)
    BY <1>1, <1>3, <1>4
  <1> QED BY <1>1, <1>3, <1>4, <1>5, <1>6 DEF PieceIn

\* A piece of a list in the one sense is one in the other.
LEMMA PieceGives ==
    ASSUME NEW f \in Seq(Insts), NEW bb, PieceIn(f, bb)
    PROVE  IsPiece(f, bb) /\ ~Without(f, bb) /\ first_inst[bb] \in ToSet(f) /\ parent[first_inst[bb]] = bb
  <1> DEFINE own == {i \in DOMAIN f : parent[f[i]] = bb}
  <1>1. Len(f) \in Nat /\ DOMAIN f = 1..Len(f)
    OBVIOUS
  <1>2. PICK a, b \in 1..Len(f) :
          /\ a <= b /\ first_inst[bb] = f[a] /\ last_inst[bb] = f[b]
          /\ \A i \in 1..Len(f) : parent[f[i]] = bb <=> a <= i /\ i <= b
    BY DEF PieceIn
  <1>3. own = a..b /\ own # {} /\ own \in SUBSET (1..Len(f))
    BY <1>1, <1>2
  <1> HIDE DEF own
  <1>4. /\ a \in own /\ \A y \in own : a <= y
        /\ b \in own /\ \A y \in own : b >= y
        /\ \A y \in own : y \in Nat
    BY <1>1, <1>2, <1>3
  <1>5. Min(own) = a /\ Max(own) = b
    <2>1. Min(own) \in own /\ \A y \in own : Min(own) <= y
      BY <1>4 DEF Min
    <2>2. Max(own) \in own /\ \A y \in own : Max(own) >= y
      BY <1>4 DEF Max
    <2>3. a <= Min(own) /\ Min(own) <= a /\ b >= Max(own) /\ Max(own) >= b
      BY <1>4, <2>1, <2>2
    <2>4. Min(own) \in Nat /\ Max(own) \in Nat /\ a \in Nat /\ b \in Nat
      BY <1>4, <2>1, <2>2
    <2> QED BY <2>3, <2>4
  <1>6. IsPiece(f, bb)
    BY <1>2, <1>3, <1>5 DEF IsPiece, own
  <1>7. parent[f[a]] = bb /\ f[a] \in ToSet(f)
    BY <1>1, <1>2, Entries
  <1> QED BY <1>2, <1>6, <1>7 DEF Without

\* A block with nothing in a list is no piece of it to break.
LEMMA PieceOfNone ==
    ASSUME NEW f \in Seq(Insts), NEW bb, Without(f, bb) PROVE IsPiece(f, bb)
  <1>1. \A i \in DOMAIN f : f[i] \in ToSet(f)
    BY Entries
  <1> QED BY <1>1 DEF IsPiece, Without

\* What each holder's pointer leads to.
TheLists == [h \in Holders |-> Follow(HeadOf(h))]

\* A holder is a graph or a copied block, and no two are the same.
LEMMA HolderOf ==
    ASSUME NEW h \in Holders
    PROVE  /\ h.kind = "graph" => h.id \in Graphs
           /\ h.kind # "graph" => h.kind = "copy" /\ h.id \in Copies
           /\ \A k \in Holders : k # h => k.kind # h.kind \/ k.id # h.id
  BY DEF Holders

\* The invariant gives the types that the lists rest on.
LEMMA TypesFit == IInv => Typed
  BY LayoutAssumption DEF Typed, IInv, TypeOK

\* On intact lists each holder has a chain and knows both of its ends.
LEMMA ListsAreChains ==
    ASSUME IInv, PointersHeld, ListIntact, NEW h \in Holders, NEW f, f = Follow(HeadOf(h))
    PROVE  /\ f \in Lists /\ f \in Seq(Insts) /\ Chain(f) /\ KnowsBoth(f, h)
           /\ \A x \in ToSet(f) : MayHold(h, parent[x])
  <1>1. h.kind = "graph" => h.id \in Graphs /\ HeadOf(h) = first[h.id] /\ f = List(h.id)
    BY HolderOf DEF HeadOf, List
  <1>2. h.kind # "graph" => h.kind = "copy" /\ h.id \in Copies /\ h.id \in blocks /\ HeadOf(h) = first_inst[h.id]
    BY HolderOf DEF HeadOf, Copies
  <1>3. f \in Lists
    BY <1>1, <1>2 DEF Lists
  <1>4. Intact(f)
    BY <1>3, IntactLists
  <1>5. f \in Seq(Insts) /\ Chain(f)
    BY <1>4 DEF Chain, Intact
  <1>6. HeadOf(h) \in Links /\ Typed
    <2>1. Typed
      BY TypesFit
    <2>2. Copies \subseteq BBs
      BY DEF Copies, IInv, TypeOK
    <2> QED BY <1>1, <1>2, <2>1, <2>2 DEF Typed, Copies
  <1>7. MetFrom(HeadOf(h), f)
    BY <1>6, FollowSteps DEF Typed
  <1>8. Len(f) \in Nat /\ (f # <<>> => Len(f) # 0 /\ Last(f) = f[Len(f)] /\ HeadOf(h) = f[1])
    BY <1>5, <1>7 DEF MetFrom, Last
  <1>9. \A x \in ToSet(f) : MayHold(h, parent[x])
    BY <1>1, <1>2, IntactSays DEF MayHold
  <1>10. KnowsBoth(f, h)
    <2>1. CASE h.kind = "graph"
      <3>1. KnowsEnds(f, first[h.id], last[h.id])
        BY <1>1, <2>1, IntactSays
      <3> QED BY <1>1, <1>8, <2>1, <3>1 DEF KnowsBoth, KnowsEnds, TailOf
    <2>2. CASE h.kind # "graph"
      <3>1. TailOf(h) = last_inst[h.id]
        BY <2>2 DEF TailOf
      <3>2. CASE HoldsNone(Everywhere, h.id)
        <4>1. HeadOf(h) = Null /\ TailOf(h) = Null
          BY <1>2, <2>2, <3>1, <3>2 DEF HoldsNone
        <4>2. f = <<>>
          BY <1>7, <4>1, NullIsNothing DEF MetFrom
        <4> QED BY <4>1, <4>2 DEF KnowsBoth
      <3>3. CASE first_inst[h.id] \in Everywhere /\ parent[first_inst[h.id]] = h.id
        <4>1. Valid(HeadOf(h))
          <5>1. PICK c \in Lists : HeadOf(h) \in ToSet(c)
            BY <1>2, <2>2, <3>3 DEF Everywhere
          <5> QED BY <5>1, IntactLists, Neighbours
        <4>2. f # <<>>
          BY <1>7, <4>1 DEF MetFrom
        <4>3. \A i \in 1..Len(f) : parent[f[i]] = h.id
          BY <1>2, <1>5, <1>9, <2>2, Entries DEF MayHold
        <4>4. ~Without(f, h.id)
          BY <1>5, <1>8, <4>2, <4>3, Entries DEF Without
        <4>5. PieceIn(f, h.id)
          BY <1>2, <1>4, <1>5, <2>2, <4>4, PieceSays DEF Intact
        <4>6. PICK a, b \in 1..Len(f) :
                /\ first_inst[h.id] = f[a] /\ last_inst[h.id] = f[b]
                /\ \A i \in 1..Len(f) : parent[f[i]] = h.id <=> a <= i /\ i <= b
          BY <4>5 DEF PieceIn
        <4>7. b = Len(f)
          BY <1>8, <4>2, <4>3, <4>6
        <4> QED BY <1>8, <3>1, <4>2, <4>6, <4>7 DEF KnowsBoth
      <3> QED BY <1>2, <2>2, <3>2, <3>3, IntactSays
    <2> QED BY <2>1, <2>2
  <1> QED BY <1>3, <1>5, <1>9, <1>10

\* On intact lists all is laid out: every block is a piece of one list at most.
LEMMA IntactIsLaid ==
    ASSUME IInv, PointersHeld, ListIntact PROVE LaidAs(TheLists)
  <1> DEFINE L == TheLists
  <1>1. \A h \in Holders :
          /\ L[h] = Follow(HeadOf(h)) /\ L[h] \in Lists /\ L[h] \in Seq(Insts) /\ Chain(L[h]) /\ KnowsBoth(L[h], h)
          /\ \A x \in ToSet(L[h]) : MayHold(h, parent[x])
    BY ListsAreChains DEF TheLists
  <1>2. L \in [Holders -> Seq(Insts)]
    BY <1>1 DEF TheLists
  <1>3. \A f \in Lists : \E h \in Holders : f = L[h]
    <2> SUFFICES ASSUME NEW f \in Lists PROVE \E h \in Holders : f = L[h]
      OBVIOUS
    <2>1. ASSUME NEW g \in Graphs, f = List(g) PROVE \E h \in Holders : f = L[h]
      <3> DEFINE h == [kind |-> "graph", id |-> g]
      <3>1. h \in Holders /\ HeadOf(h) = first[g]
        BY DEF Holders, HeadOf
      <3> QED BY <1>1, <2>1, <3>1 DEF List
    <2>2. ASSUME NEW bb \in Copies, f = Follow(first_inst[bb]) PROVE \E h \in Holders : f = L[h]
      <3> DEFINE h == [kind |-> "copy", id |-> bb]
      <3>1. h \in Holders /\ HeadOf(h) = first_inst[bb]
        BY DEF Holders, HeadOf
      <3> QED BY <1>1, <2>2, <3>1
    <2> QED BY <2>1, <2>2 DEF Lists
  <1> HIDE DEF L
  <1>4. \A h, k \in Holders : h # k => Apart(L[h], L[k])
    <2> SUFFICES ASSUME NEW h \in Holders, NEW k \in Holders, h # k, NEW x \in ToSet(L[h]), x \in ToSet(L[k])
                 PROVE  FALSE
      BY DEF Apart
    <2>1. MayHold(h, parent[x]) /\ MayHold(k, parent[x])
      BY <1>1
    <2>2. h.kind = "graph" /\ k.kind = "graph" /\ h.id # k.id
      BY <2>1, HolderOf DEF MayHold
    <2>3. /\ h.id \in Graphs /\ L[h] = List(h.id)
          /\ k.id \in Graphs /\ L[k] = List(k.id)
      BY <1>1, <2>2, HolderOf DEF HeadOf, List
    <2> QED BY <2>2, <2>3, IntactSays
  <1>5. ASSUME NEW bb \in blocks PROVE Placed(L, bb)
    <2>1. CASE HoldsNone(Everywhere, bb)
      <3>1. \A h \in Holders : Without(L[h], bb)
        BY <1>1, <2>1 DEF HoldsNone, Everywhere, Without
      <3> QED BY <2>1, <3>1 DEF Placed, HoldsNone, Empty
    <2>2. CASE first_inst[bb] \in Everywhere /\ parent[first_inst[bb]] = bb
      <3>1. PICK h \in Holders : first_inst[bb] \in ToSet(L[h])
        BY <1>3, <2>2 DEF Everywhere
      <3>2. \A k \in Holders : IsPiece(L[k], bb)
        BY <1>1, IntactSays
      <3>3. PieceIn(L[h], bb)
        BY <1>1, <2>2, <3>1, <3>2, PieceSays DEF Without
      <3>4. ASSUME NEW k \in Holders \ {h} PROVE Without(L[k], bb)
        <4>1. CASE ~Without(L[k], bb)
          <5>1. first_inst[bb] \in ToSet(L[k])
            BY <1>1, <3>2, <4>1, PieceSays, PieceGives
          <5> QED BY <1>4, <3>1, <5>1 DEF Apart
        <4> QED BY <4>1
      <3> QED BY <3>3, <3>4 DEF Placed
    <2> QED BY <2>1, <2>2, IntactSays
  <1>6. (\A h \in Holders : Chain(L[h]) /\ KnowsBoth(L[h], h))
        /\ \A h \in Holders : \A x \in ToSet(L[h]) : MayHold(h, parent[x])
    BY <1>1
  <1>7. LaidAs(L)
    BY <1>2, <1>4, <1>5, <1>6 DEF LaidAs
  <1> QED BY <1>7 DEF L

\* ListIntact without the functions that hold the lists, the other way round.
LEMMA IntactFrom ==
    /\ \A g \in Graphs : KnowsEnds(List(g), first[g], last[g])
    /\ \A g \in Graphs : \A x \in ToSet(List(g)) : parent[x] \in blocks \ Copies
    /\ \A g, h \in Graphs : g # h => ToSet(List(g)) \cap ToSet(List(h)) = {}
    /\ \A bb \in Copies : \A x \in ToSet(Follow(first_inst[bb])) : parent[x] = bb
    /\ \A f \in Lists : Linked(f) /\ \A bb \in blocks : IsPiece(f, bb)
    /\ \A bb \in blocks : \/ first_inst[bb] \in Everywhere /\ parent[first_inst[bb]] = bb
                          \/ HoldsNone(Everywhere, bb)
    => ListIntact
  <1> DEFINE of == [g \in Graphs |-> List(g)]
             copy == [bb \in Copies |-> Follow(first_inst[bb])]
  <1>1. Range(of) \cup Range(copy) = Lists
    BY DEF Lists, Range
  <1>2. /\ \A g \in Graphs : of[g] = List(g)
        /\ \A bb \in Copies : copy[bb] = Follow(first_inst[bb])
    OBVIOUS
  <1> HIDE DEF of, copy
  <1>3. UNION {ToSet(list) : list \in Range(of) \cup Range(copy)} = Everywhere
    BY <1>1 DEF Everywhere
  <1>4. (/\ \A g \in Graphs :
                /\ KnowsEnds(of[g], first[g], last[g])
                /\ \A x \in ToSet(of[g]) : parent[x] \in blocks \ Copies
                /\ \A h \in Graphs \ {g} : ToSet(of[g]) \cap ToSet(of[h]) = {}
         /\ \A bb \in Copies : \A x \in ToSet(copy[bb]) : parent[x] = bb
         /\ \A f \in Lists : Linked(f) /\ \A bb \in blocks : IsPiece(f, bb)
         /\ \A bb \in blocks : \/ first_inst[bb] \in Everywhere /\ parent[first_inst[bb]] = bb
                               \/ HoldsNone(Everywhere, bb)) => ListIntact
    BY <1>1, <1>3, Zenon DEF ListIntact, of, copy
  <1> QED BY <1>2, <1>4

\* And the other way: what is laid out is intact.
LEMMA LaidIsIntact == \A L : Typed /\ LaidAs(L) => ListIntact
  <1> SUFFICES ASSUME NEW L, Typed, LaidAs(L) PROVE ListIntact
    OBVIOUS
  <1>1. \A h \in Holders :
          /\ L[h] \in Seq(Insts) /\ Chain(L[h]) /\ KnowsBoth(L[h], h)
          /\ \A x \in ToSet(L[h]) : MayHold(h, parent[x])
    BY DEF LaidAs
  <1>2. \A h \in Holders : HeadOf(h) \in Links
    BY HolderOf DEF HeadOf, Typed, Copies
  <1>3. \A h \in Holders : L[h] = Follow(HeadOf(h))
    <2> SUFFICES ASSUME NEW h \in Holders PROVE L[h] = Follow(HeadOf(h))
      OBVIOUS
    <2>1. IF L[h] = <<>> THEN HeadOf(h) = Null ELSE HeadOf(h) = L[h][1]
      BY <1>1 DEF KnowsBoth
    <2> QED BY <1>1, <1>2, <2>1, ChainIsMet
  <1> DEFINE Graph(g) == [kind |-> "graph", id |-> g]
             Copy(bb) == [kind |-> "copy", id |-> bb]
  <1>4. \A g \in Graphs : Graph(g) \in Holders /\ HeadOf(Graph(g)) = first[g]
                          /\ TailOf(Graph(g)) = last[g] /\ L[Graph(g)] = List(g)
    BY <1>3 DEF Holders, HeadOf, TailOf, List
  <1>5. \A bb \in Copies : Copy(bb) \in Holders /\ HeadOf(Copy(bb)) = first_inst[bb]
                           /\ L[Copy(bb)] = Follow(first_inst[bb])
    BY <1>3 DEF Holders, HeadOf
  <1>6. \A f \in Lists : \E h \in Holders : f = L[h]
    <2> SUFFICES ASSUME NEW f \in Lists PROVE \E h \in Holders : f = L[h]
      OBVIOUS
    <2>1. CASE \E g \in Graphs : f = List(g)
      BY <1>4, <2>1
    <2>2. CASE \E bb \in Copies : f = Follow(first_inst[bb])
      BY <1>5, <2>2
    <2> QED BY <2>1, <2>2 DEF Lists
  <1>7. \A bb \in blocks : \A h \in Holders : IsPiece(L[h], bb)
    <2> SUFFICES ASSUME NEW bb \in blocks, NEW h \in Holders PROVE IsPiece(L[h], bb)
      OBVIOUS
    <2>1. Placed(L, bb)
      BY DEF LaidAs
    <2> QED BY <1>1, <2>1, PieceGives, PieceOfNone DEF Placed
  <1>8. \A f \in Lists : Linked(f) /\ \A bb \in blocks : IsPiece(f, bb)
    <2> SUFFICES ASSUME NEW f \in Lists PROVE Linked(f) /\ \A bb \in blocks : IsPiece(f, bb)
      OBVIOUS
    <2>1. PICK h \in Holders : f = L[h]
      BY <1>6
    <2>2. Last(f) = f[Len(f)]
      BY DEF Last
    <2>3. Chain(f)
      BY <1>1, <2>1
    <2>4. Linked(f)
      BY <2>2, <2>3, Zenon DEF Chain, Linked
    <2> QED BY <1>7, <2>1, <2>4
  <1>9. \A g \in Graphs : KnowsEnds(List(g), first[g], last[g])
    <2> SUFFICES ASSUME NEW g \in Graphs PROVE KnowsEnds(List(g), first[g], last[g])
      OBVIOUS
    <2>1. KnowsBoth(List(g), Graph(g)) /\ HeadOf(Graph(g)) = first[g] /\ TailOf(Graph(g)) = last[g]
      BY <1>1, <1>4
    <2> QED BY <2>1 DEF KnowsBoth, KnowsEnds, Last
  <1>10. \A g \in Graphs : \A x \in ToSet(List(g)) : parent[x] \in blocks \ Copies
    <2> SUFFICES ASSUME NEW g \in Graphs, NEW x \in ToSet(List(g)) PROVE parent[x] \in blocks \ Copies
      OBVIOUS
    <2>1. MayHold(Graph(g), parent[x])
      BY <1>1, <1>4
    <2> QED BY <2>1 DEF MayHold
  <1>11. \A bb \in Copies : \A x \in ToSet(Follow(first_inst[bb])) : parent[x] = bb
    <2> SUFFICES ASSUME NEW bb \in Copies, NEW x \in ToSet(Follow(first_inst[bb])) PROVE parent[x] = bb
      OBVIOUS
    <2>1. MayHold(Copy(bb), parent[x])
      BY <1>1, <1>5
    <2> QED BY <2>1 DEF MayHold
  <1>12. \A g, h \in Graphs : g # h => ToSet(List(g)) \cap ToSet(List(h)) = {}
    <2> SUFFICES ASSUME NEW g \in Graphs, NEW h \in Graphs, g # h PROVE Apart(List(g), List(h))
      BY DEF Apart
    <2>1. Graph(g) # Graph(h)
      OBVIOUS
    <2> QED BY <1>4, <2>1 DEF LaidAs
  <1>13. \A bb \in blocks : \/ first_inst[bb] \in Everywhere /\ parent[first_inst[bb]] = bb
                            \/ HoldsNone(Everywhere, bb)
    <2> SUFFICES ASSUME NEW bb \in blocks
                 PROVE  \/ first_inst[bb] \in Everywhere /\ parent[first_inst[bb]] = bb
                        \/ HoldsNone(Everywhere, bb)
      OBVIOUS
    <2>1. Placed(L, bb)
      BY DEF LaidAs
    <2>2. CASE Empty(bb) /\ \A h \in Holders : Without(L[h], bb)
      <3>1. \A x \in Everywhere : parent[x] # bb
        BY <1>6, <2>2 DEF Everywhere, Without
      <3> QED BY <2>2, <3>1 DEF HoldsNone, Empty
    <2>3. ASSUME NEW h \in Holders, PieceIn(L[h], bb)
          PROVE  first_inst[bb] \in Everywhere /\ parent[first_inst[bb]] = bb
      <3>1. first_inst[bb] \in ToSet(L[h]) /\ parent[first_inst[bb]] = bb
        BY <1>1, <2>3, PieceGives
      <3>2. L[h] \in Lists
        BY <1>3, HolderOf DEF Lists, List, HeadOf
      <3> QED BY <3>1, <3>2 DEF Everywhere
    <2> QED BY <2>1, <2>2, <2>3 DEF Placed
  <1> QED BY <1>8, <1>9, <1>10, <1>11, <1>12, <1>13, IntactFrom

-----------------------------------------------------------------------------
(* What has not been used yet.                                             *)

\* Instructions and blocks that the client has not made yet, and those that it
\* has made one after the other.
Fresh ==
    /\ \A x \in Insts : parent[x] = Null =>
          next[x] \in {Null, Wild} /\ prev[x] \in {Null, Wild} /\ x \notin deleted
    /\ \A x \in Insts : \A y \in 1..x : parent[x] # Null => parent[y] # Null
    /\ \A bb \in BBs \ blocks : Empty(bb) /\ graph_[bb] = Null

FreshInv == IInv /\ (call.op # "~IRGraph" => Fresh)

\* A pointer never leads to an instruction that no block has taken.
LEMMA HeldIsTaken ==
    ASSUME IInv, PointersHeld, NEW x \in HeldLinks, x \in Insts PROVE parent[x] \in blocks /\ parent[x] # Null
  <1>1. Wild \notin Insts /\ Null \notin Insts /\ blocks \subseteq BBs
    BY LayoutAssumption, NullIsNothing DEF MaybeInst, IInv, TypeOK
  <1> QED BY <1>1, NullIsNothing DEF HeldLinks

\* An edit of a block takes one new instruction and leaves the others alone.
LEMMA EditFresh ==
    ASSUME IInv, PointersHeld, Fresh, NEW bb \in blocks, NEW inst \in Insts, IsNew(inst),
           parent' = [parent EXCEPT ![inst] = bb],
           \A x \in Insts : parent[x] = Null /\ x # inst => next'[x] = next[x] /\ prev'[x] = prev[x],
           \A b \in BBs : b # bb => first_inst'[b] = first_inst[b] /\ last_inst'[b] = last_inst[b],
           UNCHANGED <<deleted, blocks, graph_>>
    PROVE  Fresh'
  <1>1. bb # Null /\ parent \in [Insts -> BBs \cup {Null}]
    BY NullIsNothing DEF IInv, TypeOK
  <1>2. \A x \in Insts : parent'[x] = IF x = inst THEN bb ELSE parent[x]
    BY <1>1
  <1>3. ASSUME NEW x \in Insts, NEW y \in 1..x, parent'[x] # Null PROVE parent'[y] # Null
    <2>1. y \in Insts
      BY LayoutAssumption DEF Insts
    <2>2. CASE y = inst
      BY <1>1, <1>2, <2>2
    <2>3. CASE y # inst /\ x # inst
      BY <1>2, <1>3, <2>1, <2>3 DEF Fresh
    <2>4. CASE y # inst /\ x = inst
      <3>1. y \in 1 .. inst - 1
        BY <2>4, LayoutAssumption DEF Insts
      <3> QED BY <1>2, <2>1, <2>4, <3>1 DEF IsNew
    <2> QED BY <2>2, <2>3, <2>4
  <1>4. \A b \in BBs \ blocks : b # bb
    OBVIOUS
  <1> QED BY <1>1, <1>2, <1>3, <1>4 DEF Fresh, Empty

\* The edits of blocks.
LEMMA BlockEditFresh ==
    ASSUME IInv, PointersHeld, Fresh, NEW bb \in blocks, NEW inst \in Insts, IsNew(inst), EditBlock(bb, inst)
    PROVE  Fresh'
  <1>1. bb \in BBs /\ Typed /\ blocks \subseteq BBs
    BY TypesFit DEF Typed
  <1>2. ASSUME UNCHANGED <<linkVars, blockVars, edgeVars, graphVars>> PROVE Fresh'
    BY <1>2 DEF Fresh, Empty, linkVars, blockVars
  <1>3. \A x \in Insts, p \in HeldLinks : parent[x] = Null => x # p
    BY HeldIsTaken
  <1>4. /\ first_inst[bb] \in HeldLinks /\ last_inst[bb] \in HeldLinks
        /\ \A x \in Insts : next[x] \in HeldLinks /\ prev[x] \in HeldLinks
    BY <1>1 DEF PointersHeld
  <1>5. /\ next \in [Insts -> Links] /\ prev \in [Insts -> Links]
        /\ first_inst \in [BBs -> Links] /\ last_inst \in [BBs -> Links]
    BY <1>1 DEF Typed
  <1>6. \A x : Valid(x) => x \in Insts
    BY DEF Valid
  <1>7. CASE InsertInstForward(bb, inst)
    <2>1. CASE Undefined("InsertInstForward", bb, inst)
      BY <1>2, <2>1 DEF Undefined
    <2>2. CASE ~Undefined("InsertInstForward", bb, inst)
      <3>1. /\ parent' = [parent EXCEPT ![inst] = bb] /\ first_inst' = [first_inst EXCEPT ![bb] = inst]
            /\ last_inst' = last_inst \/ last_inst' = [last_inst EXCEPT ![bb] = inst]
            /\ \/ next' = next /\ prev' = prev
               \/ prev' = [prev EXCEPT ![first_inst[bb]] = inst] /\ next' = [next EXCEPT ![inst] = first_inst[bb]]
            /\ UNCHANGED <<deleted, blocks, graph_>>
        BY <1>7, <2>2 DEF InsertInstForward
      <3>2. \A x \in Insts : parent[x] = Null /\ x # inst => next'[x] = next[x] /\ prev'[x] = prev[x]
        BY <1>3, <1>4, <1>5, <3>1
      <3>3. \A b \in BBs : b # bb => first_inst'[b] = first_inst[b] /\ last_inst'[b] = last_inst[b]
        BY <1>5, <3>1
      <3> QED BY <3>1, <3>2, <3>3, EditFresh
    <2> QED BY <2>1, <2>2
  <1>8. CASE InsertInstBack(bb, inst)
    <2>1. CASE Undefined("InsertInstBack", bb, inst)
      BY <1>2, <2>1 DEF Undefined
    <2>2. CASE ~Undefined("InsertInstBack", bb, inst)
      <3>1. /\ parent' = [parent EXCEPT ![inst] = bb] /\ last_inst' = [last_inst EXCEPT ![bb] = inst]
            /\ first_inst' = first_inst \/ first_inst' = [first_inst EXCEPT ![bb] = inst]
            /\ \/ next' = next /\ prev' = prev
               \/ next' = [next EXCEPT ![last_inst[bb]] = inst] /\ prev' = [prev EXCEPT ![inst] = last_inst[bb]]
            /\ UNCHANGED <<deleted, blocks, graph_>>
        BY <1>8, <2>2 DEF InsertInstBack
      <3>2. \A x \in Insts : parent[x] = Null /\ x # inst => next'[x] = next[x] /\ prev'[x] = prev[x]
        BY <1>3, <1>4, <1>5, <3>1
      <3>3. \A b \in BBs : b # bb => first_inst'[b] = first_inst[b] /\ last_inst'[b] = last_inst[b]
        BY <1>5, <3>1
      <3> QED BY <3>1, <3>2, <3>3, EditFresh
    <2> QED BY <2>1, <2>2
  <1>9. CASE ReplaceFirstInst(bb, inst)
    <2>1. CASE Undefined("ReplaceFirstInst", bb, inst)
      BY <1>2, <2>1 DEF Undefined
    <2>2. CASE ~Undefined("ReplaceFirstInst", bb, inst)
      <3> DEFINE old == first_inst[bb]
      <3>1. /\ Valid(old) /\ parent' = [parent EXCEPT ![inst] = bb] /\ first_inst' = [first_inst EXCEPT ![bb] = inst]
            /\ next' = [next EXCEPT ![inst] = next[old]] /\ prev' = [prev EXCEPT ![next[old]] = inst]
            /\ UNCHANGED <<deleted, blocks, last_inst, graph_>>
        BY <1>9, <2>2 DEF ReplaceFirstInst
      <3>2. \A x \in Insts : parent[x] = Null /\ x # inst => next'[x] = next[x] /\ prev'[x] = prev[x]
        BY <1>3, <1>4, <1>5, <1>6, <3>1
      <3>3. \A b \in BBs : b # bb => first_inst'[b] = first_inst[b] /\ last_inst'[b] = last_inst[b]
        BY <1>5, <3>1
      <3> QED BY <3>1, <3>2, <3>3, EditFresh
    <2> QED BY <2>1, <2>2
  <1>10. CASE ReplaceLastInst(bb, inst)
    <2>1. CASE Undefined("ReplaceLastInst", bb, inst)
      BY <1>2, <2>1 DEF Undefined
    <2>2. CASE ~Undefined("ReplaceLastInst", bb, inst)
      <3> DEFINE old == last_inst[bb]
      <3>1. /\ Valid(old) /\ parent' = [parent EXCEPT ![inst] = bb] /\ last_inst' = [last_inst EXCEPT ![bb] = inst]
            /\ prev' = [prev EXCEPT ![inst] = prev[old]] /\ next' = [next EXCEPT ![prev[old]] = inst]
            /\ UNCHANGED <<deleted, blocks, first_inst, graph_>>
        BY <1>10, <2>2 DEF ReplaceLastInst
      <3>2. \A x \in Insts : parent[x] = Null /\ x # inst => next'[x] = next[x] /\ prev'[x] = prev[x]
        BY <1>3, <1>4, <1>5, <1>6, <3>1
      <3>3. \A b \in BBs : b # bb => first_inst'[b] = first_inst[b] /\ last_inst'[b] = last_inst[b]
        BY <1>5, <3>1
      <3> QED BY <3>1, <3>2, <3>3, EditFresh
    <2> QED BY <2>1, <2>2
  <1> QED BY <1>7, <1>8, <1>9, <1>10 DEF EditBlock

\* The instructions taken so far are the first ones.
LEMMA MadeSoFar ==
    ASSUME MaxInsts \in Nat, \A x \in Insts : \A y \in 1..x : parent[x] # Null => parent[y] # Null,
           NEW made, made = Cardinality({x \in Insts : parent[x] # Null})
    PROVE  /\ made \in Nat /\ made <= MaxInsts
           /\ \A x \in Insts : parent[x] # Null <=> x <= made
  <1> DEFINE S == {x \in Insts : parent[x] # Null}
  <1>1. ASSUME NEW n \in Nat, n <= MaxInsts, S = 1..n
        PROVE  /\ made \in Nat /\ made <= MaxInsts
               /\ \A x \in Insts : parent[x] # Null <=> x <= made
    <2>1. made = n
      BY <1>1, CountedTo
    <2>2. \A x \in Insts : x \in S <=> x <= n
      BY <1>1 DEF Insts
    <2> QED BY <1>1, <2>1, <2>2
  <1>2. CASE S = {}
    <2>1. S = 1..0
      BY <1>2
    <2> QED BY <1>1, <2>1
  <1>3. CASE S # {}
    <2> DEFINE T == {MaxInsts - x : x \in S}
    <2>1. S \in SUBSET (1..MaxInsts) /\ \A x \in S : \A y \in 1..x : y \in S
      BY DEF Insts
    <2> HIDE DEF S
    <2>2. T \in SUBSET Nat /\ T # {}
      <3>1. \A x \in S : MaxInsts - x \in Nat
        BY <2>1
      <3> QED BY <1>3, <3>1
    <2>3. PICK t \in T : \A m \in T : t <= m
      BY <2>2, LeastNat
    <2>4. PICK n \in S : t = MaxInsts - n
      BY <2>3
    <2>5. \A x \in S : MaxInsts - n <= MaxInsts - x
      BY <2>3, <2>4
    <2>6. n \in Nat /\ n <= MaxInsts /\ \A x \in S : x <= n
      BY <2>1, <2>4, <2>5
    <2>7. S = 1..n
      <3>1. \A x \in S : x \in 1..n
        BY <2>1, <2>6
      <3>2. \A y \in 1..n : y \in S
        BY <2>1, <2>4
      <3> QED BY <3>1, <3>2
    <2> QED BY <1>1, <2>6, <2>7
  <1> QED BY <1>2, <1>3

\* RemoveNonCFGOrSideInst writes into neighbours only, which are taken.
LEMMA RemoveFresh ==
    ASSUME IInv, Ready, Fresh, NEW g \in Graphs, NEW inst \in ToSet(List(g)), RemoveNonCFGOrSideInst(g, inst)
    PROVE  Fresh'
  <1> DEFINE bb == parent[inst]
  <1>1. PointersHeld /\ Typed
    BY TypesFit DEF Ready, IInv
  <1>2. inst \in Insts /\ bb \in blocks /\ bb \in BBs /\ bb # Null
    BY MetIsHeld, NullIsNothing
  <1>3. CASE Undefined("RemoveNonCFGOrSideInst", bb, inst)
    BY <1>3 DEF Undefined, Fresh, Empty, linkVars, blockVars
  <1>4. CASE ~Undefined("RemoveNonCFGOrSideInst", bb, inst)
    <2>1. /\ \A b \in BBs : b # bb => first_inst'[b] = first_inst[b] /\ last_inst'[b] = last_inst[b]
          /\ next' = next \/ next' = [next EXCEPT ![prev[inst]] = next[inst]]
          /\ prev' = prev \/ prev' = [prev EXCEPT ![next[inst]] = prev[inst]]
          /\ deleted' = deleted \cup {inst} /\ UNCHANGED <<parent, blocks, graph_>>
      BY <1>1, <1>4 DEF RemoveNonCFGOrSideInst, Typed
    <2>2. \A x \in Insts, p \in HeldLinks : parent[x] = Null => x # p
      BY <1>1, HeldIsTaken
    <2>3. next[inst] \in HeldLinks /\ prev[inst] \in HeldLinks
      BY <1>1, <1>2 DEF PointersHeld
    <2>4. \A x \in Insts : parent[x] = Null => next'[x] = next[x] /\ prev'[x] = prev[x] /\ x # inst
      BY <1>1, <1>2, <2>1, <2>2, <2>3 DEF Typed
    <2>5. \A b \in BBs \ blocks : first_inst'[b] = first_inst[b] /\ last_inst'[b] = last_inst[b]
      BY <1>2, <2>1
    <2> QED BY <2>1, <2>4, <2>5 DEF Fresh, Empty
  <1> QED BY <1>3, <1>4

\* SplitBBInTwo takes a new block, but no instruction that was not taken before.
LEMMA SplitFresh ==
    ASSUME IInv, Ready, Fresh, NEW g \in Graphs, NEW inst \in ToSet(List(g)), SplitBBInTwo(inst)
    PROVE  Fresh'
  <1> DEFINE bb == parent[inst]
  <1>1. PointersHeld /\ Typed
    BY TypesFit DEF Ready, IInv
  <1>2. inst \in Insts /\ bb \in blocks /\ bb \in BBs
    BY MetIsHeld
  <1>3. ASSUME UNCHANGED <<linkVars, blockVars>> PROVE Fresh'
    BY <1>3 DEF Fresh, Empty, linkVars, blockVars
  <1>4. ASSUME NEW new_bb \in BBs, IsNewBB(new_bb), Split(bb, inst, new_bb) PROVE Fresh'
    <2>1. CASE Undefined("SplitBBInTwo", bb, inst)
      BY <1>3, <2>1 DEF Undefined
    <2>2. CASE ~Undefined("SplitBBInTwo", bb, inst)
      <3>1. /\ blocks' = blocks \cup {new_bb} /\ UNCHANGED <<next, prev, deleted, graph_>>
            /\ \/ UNCHANGED <<first_inst, last_inst, parent>>
               \/ /\ first_inst' = [first_inst EXCEPT ![new_bb] = next[inst]]
                  /\ last_inst' = [last_inst EXCEPT ![new_bb] = last_inst[bb], ![bb] = inst]
                  /\ parent' = [x \in Insts |-> IF x \in ToSet(Follow(next[inst])) THEN new_bb ELSE parent[x]]
        BY <1>4, <2>2 DEF Split
      <3>2. \A x \in ToSet(Follow(next[inst])) : parent[x] # Null
        <4>1. next[inst] \in HeldLinks
          BY <1>1, <1>2 DEF PointersHeld
        <4>2. ToSet(Follow(next[inst])) \subseteq {y \in Insts \ deleted : parent[y] \in blocks}
          BY <1>1, <4>1, ListHeld
        <4> QED BY <1>1, <4>2, NullIsNothing DEF Typed
      <3>3. \A x \in Insts : parent'[x] # Null <=> parent[x] # Null
        BY <3>1, <3>2, NullIsNothing
      <3>4. \A b \in BBs \ blocks' : b \in BBs \ blocks /\ first_inst'[b] = first_inst[b] /\ last_inst'[b] = last_inst[b]
        BY <1>1, <1>2, <3>1 DEF Typed
      <3>5. \A x \in Insts : \A y \in 1..x : y \in Insts
        BY LayoutAssumption DEF Insts
      <3> QED BY <3>1, <3>3, <3>4, <3>5 DEF Fresh, Empty
    <2> QED BY <2>1, <2>2
  <1> QED BY <1>3, <1>4 DEF SplitBBInTwo

\* AddBBToBegin takes one new block, and one new instruction or none.
LEMMA AddToBeginFresh ==
    ASSUME IInv, Ready, Fresh, NEW g \in Graphs, NEW bb \in BBs, IsNewBB(bb),
           NEW inst \in {Null} \cup {x \in Insts : IsNew(x)}, AddBBToBegin(g, bb, inst)
    PROVE  Fresh'
  <1>1. PointersHeld /\ Typed /\ bb # Null /\ Null \notin Insts
    BY TypesFit, NullIsNothing DEF Ready, IInv
  <1>2. CASE Undefined("AddBBToBegin", bb, inst)
    BY <1>2 DEF Undefined, Fresh, Empty, linkVars, blockVars
  <1>3. CASE ~Undefined("AddBBToBegin", bb, inst)
    <2>1. /\ parent' = [x \in Insts |-> IF x = inst THEN bb ELSE parent[x]]
          /\ blocks' = blocks \cup {bb}
          /\ first_inst' = [first_inst EXCEPT ![bb] = inst] /\ last_inst' = [last_inst EXCEPT ![bb] = inst]
          /\ \/ UNCHANGED <<next, prev>>
             \/ prev' = [prev EXCEPT ![first[g]] = inst] /\ next' = [next EXCEPT ![inst] = first[g]]
          /\ UNCHANGED <<deleted, graph_>>
      BY <1>3 DEF AddBBToBegin
    <2>2. \A x \in Insts, p \in HeldLinks : parent[x] = Null => x # p
      BY <1>1, HeldIsTaken
    <2>3. first[g] \in HeldLinks
      BY <1>1 DEF PointersHeld
    <2>4. \A x \in Insts : parent'[x] = Null => /\ parent[x] = Null /\ x # inst
                                               /\ next'[x] = next[x] /\ prev'[x] = prev[x]
      BY <1>1, <2>1, <2>2, <2>3 DEF Typed
    <2>5. ASSUME NEW x \in Insts, NEW y \in 1..x, parent'[x] # Null PROVE parent'[y] # Null
      <3>1. y \in Insts
        BY LayoutAssumption DEF Insts
      <3>2. CASE x = inst /\ y # inst
        <4>1. IsNew(inst) /\ y \in 1 .. inst - 1
          BY <1>1, <3>2, LayoutAssumption DEF Insts
        <4> QED BY <2>1, <3>1, <3>2, <4>1 DEF IsNew
      <3>3. CASE y = inst
        BY <1>1, <2>1, <3>1, <3>3
      <3>4. CASE x # inst /\ y # inst
        BY <2>1, <2>5, <3>1, <3>4 DEF Fresh
      <3> QED BY <3>2, <3>3, <3>4
    <2>6. \A b \in BBs \ blocks' : b \in BBs \ blocks /\ first_inst'[b] = first_inst[b] /\ last_inst'[b] = last_inst[b]
      BY <1>1, <2>1 DEF Typed
    <2> QED BY <2>1, <2>4, <2>5, <2>6 DEF Fresh, Empty
  <1> QED BY <1>2, <1>3

\* The copy constructor takes the new instructions in their order.
LEMMA CopyFresh ==
    ASSUME IInv, Ready, Fresh, NEW bb \in blocks, NEW new_bb \in BBs, IsNewBB(new_bb), CopyBB(bb, new_bb)
    PROVE  Fresh'
  <1> DEFINE n == Len(Follow(first_inst[bb]))
             made == Cardinality({x \in Insts : parent[x] # Null})
  <1>1. PointersHeld /\ Typed /\ new_bb # Null
    BY TypesFit, NullIsNothing DEF Ready, IInv
  <1>2. CASE Undefined("BasicBlock", bb, Null)
    BY <1>2 DEF Undefined, Fresh, Empty, linkVars, blockVars
  <1>3. CASE ~Undefined("BasicBlock", bb, Null)
    <2>1. made \in Nat /\ \A x \in Insts : parent[x] # Null <=> x <= made
      BY <1>1, MadeSoFar DEF Fresh, Typed
    <2>2. n \in Nat
      <3>1. first_inst[bb] \in HeldLinks
        BY <1>1 DEF PointersHeld, Typed
      <3> QED BY <1>1, <3>1, ListHeld
    <2>3. /\ \A x \in Insts : next'[x] = (IF x \in made + 1 .. made + n - 1 THEN x + 1
                    ELSE IF x = made + n /\ Follow(first_inst[bb]) # <<>> THEN Null ELSE next[x])
          /\ \A x \in Insts : prev'[x] = (IF x = made + 1 /\ Follow(first_inst[bb]) # <<>> THEN Null
                    ELSE IF x \in made + 2 .. made + n THEN x - 1 ELSE prev[x])
          /\ \A x \in Insts : parent'[x] = IF x \in made + 1 .. made + n THEN new_bb ELSE parent[x]
          /\ blocks' = blocks \cup {new_bb}
          /\ \A b \in BBs : b # new_bb => /\ first_inst'[b] = first_inst[b] /\ last_inst'[b] = last_inst[b]
                                          /\ graph_'[b] = graph_[b]
          /\ deleted' = deleted
      <3>1. /\ next' = [x \in Insts |-> IF x \in made + 1 .. made + n - 1 THEN x + 1
                    ELSE IF x = made + n /\ Follow(first_inst[bb]) # <<>> THEN Null ELSE next[x]]
            /\ prev' = [x \in Insts |-> IF x = made + 1 /\ Follow(first_inst[bb]) # <<>> THEN Null
                    ELSE IF x \in made + 2 .. made + n THEN x - 1 ELSE prev[x]]
            /\ parent' = [x \in Insts |-> IF x \in made + 1 .. made + n THEN new_bb ELSE parent[x]]
            /\ blocks' = blocks \cup {new_bb}
            /\ \E y : first_inst' = [first_inst EXCEPT ![new_bb] = y]
            /\ \E y : last_inst' = [last_inst EXCEPT ![new_bb] = y]
            /\ graph_' = [graph_ EXCEPT ![new_bb] = Wild]
            /\ deleted' = deleted
        BY <1>3, Zenon DEF CopyBB
      <3> HIDE DEF n, made
      <3>2. /\ first_inst \in [BBs -> Links] /\ last_inst \in [BBs -> Links]
            /\ graph_ \in [BBs -> Graphs \cup {Null, Wild}]
        BY <1>1 DEF Typed, IInv, TypeOK
      <3>3. /\ \A x \in Insts : next'[x] = (IF x \in made + 1 .. made + n - 1 THEN x + 1
                    ELSE IF x = made + n /\ Follow(first_inst[bb]) # <<>> THEN Null ELSE next[x])
            /\ \A x \in Insts : prev'[x] = (IF x = made + 1 /\ Follow(first_inst[bb]) # <<>> THEN Null
                    ELSE IF x \in made + 2 .. made + n THEN x - 1 ELSE prev[x])
        BY <3>1, Zenon
      <3>4. \A x \in Insts : parent'[x] = IF x \in made + 1 .. made + n THEN new_bb ELSE parent[x]
        BY <3>1, Zenon
      <3>5. \A b \in BBs : b # new_bb => /\ first_inst'[b] = first_inst[b] /\ last_inst'[b] = last_inst[b]
                                          /\ graph_'[b] = graph_[b]
        BY <3>1, <3>2
      <3> QED BY <3>1, <3>3, <3>4, <3>5
    <2>4. Follow(first_inst[bb]) # <<>> => n > 0
      <3>1. first_inst[bb] \in HeldLinks
        BY <1>1 DEF PointersHeld, Typed
      <3> QED BY <1>1, <3>1, ListHeld
    <2> HIDE DEF n, made
    <2>5. \A x \in Insts : x \in Nat
      BY DEF Insts
    <2>6. \A x \in Insts : parent'[x] # Null <=> x <= made + n
      BY <1>1, <2>1, <2>2, <2>3, <2>5
    <2>7. \A x \in Insts : parent'[x] = Null => parent[x] = Null /\ next'[x] = next[x] /\ prev'[x] = prev[x]
      <3> SUFFICES ASSUME NEW x \in Insts, parent'[x] = Null
                   PROVE  parent[x] = Null /\ next'[x] = next[x] /\ prev'[x] = prev[x]
        OBVIOUS
      <3>1. x > made + n
        BY <2>1, <2>2, <2>5, <2>6
      <3>2. x > made /\ x \notin made + 1 .. made + n - 1 /\ x \notin made + 2 .. made + n /\ x # made + n
        BY <2>1, <2>2, <2>5, <3>1
      <3>3. Follow(first_inst[bb]) # <<>> => x # made + 1
        BY <2>1, <2>2, <2>4, <2>5, <3>1
      <3> QED BY <2>1, <2>3, <2>5, <3>2, <3>3
    <2>8. \A x \in Insts : \A y \in 1..x : y \in Insts /\ y <= x
      BY LayoutAssumption DEF Insts
    <2>9. \A x \in Insts : \A y \in 1..x : parent'[x] # Null => parent'[y] # Null
      BY <2>1, <2>2, <2>5, <2>6, <2>8
    <2>10. \A b \in BBs \ blocks' : b \in BBs \ blocks /\ b # new_bb
      BY <2>3
    <2> QED BY <2>3, <2>7, <2>9, <2>10 DEF Fresh, Empty
  <1> QED BY <1>2, <1>3

\* The constructors of graphs take the first instructions and the first blocks.
LEMMA InitFresh == Init => Fresh
  <1> SUFFICES ASSUME NEW layout \in Layouts, NEW zeroed \in SUBSET Insts, Laid(layout, zeroed)
               PROVE  Fresh
    BY DEF Init
  <1>1. /\ layout.owner \in Seq(BBs) /\ layout.graph \in Seq(Graphs)
        /\ Len(layout.owner) <= MaxInsts /\ MaxInsts \in Nat
    BY LayoutAssumption DEF Layout, Fits
  <1>2. DOMAIN layout.owner = 1 .. Len(layout.owner) /\ Len(layout.owner) \in Nat
    BY <1>1
  <1>3. \A x \in Insts : parent[x] = IF x \in DOMAIN layout.owner THEN layout.owner[x] ELSE Null
    BY DEF Laid
  <1>4. \A x \in Insts : x \notin DOMAIN layout.owner => next[x] \in {Null, Wild} /\ prev[x] \in {Null, Wild}
    BY DEF Laid
  <1>5. \A x \in DOMAIN layout.owner : layout.owner[x] # Null
    BY <1>1, <1>2, NullIsNothing
  <1>6. \A x \in Insts : parent[x] # Null <=> x <= Len(layout.owner)
    BY <1>2, <1>3, <1>5 DEF Insts
  <1>7. \A x \in Insts : \A y \in 1..x : parent[x] # Null => parent[y] # Null
    <2>1. \A x \in Insts : x \in Nat /\ \A y \in 1..x : y \in Insts /\ y \in Nat /\ y <= x
      BY <1>1 DEF Insts
    <2> QED BY <1>2, <1>6, <2>1
  <1>8. deleted = {} /\ \A bb \in BBs \ blocks : Empty(bb) /\ graph_[bb] = Null
    BY DEF Laid, Empty
  <1>9. \A x \in Insts : parent[x] = Null => x \notin DOMAIN layout.owner
    BY <1>3, <1>5
  <1> QED BY <1>4, <1>7, <1>8, <1>9 DEF Fresh

\* Every call keeps it.
LEMMA NextFresh == FreshInv /\ [Next]_vars => FreshInv'
  <1> SUFFICES ASSUME FreshInv, [Next]_vars PROVE FreshInv'
    OBVIOUS
  <1>1. IInv'
    BY NextKeeps DEF FreshInv
  <1>2. CASE UNCHANGED vars
    <2>1. UNCHANGED <<next, prev, parent, deleted, blocks, first_inst, last_inst, graph_, call>>
      BY <1>2 DEF vars, linkVars, blockVars
    <2> QED BY <1>1, <2>1 DEF FreshInv, Fresh, Empty
  <1>3. ASSUME Ready, call'.op # "~IRGraph", Next PROVE Fresh'
    <2>1. IInv /\ PointersHeld /\ Fresh
      BY <1>3 DEF FreshInv, IInv, Ready
    <2>2. ASSUME NEW bb \in blocks, NEW inst \in Insts, IsNew(inst), EditBlock(bb, inst) PROVE Fresh'
      BY <2>1, <2>2, BlockEditFresh
    <2>3. ASSUME NEW bb \in blocks, NEW new_bb \in BBs, IsNewBB(new_bb), CopyBB(bb, new_bb) PROVE Fresh'
      BY <1>3, <2>1, <2>3, CopyFresh
    <2>4. ASSUME NEW g \in Graphs, EditGraph(g) PROVE Fresh'
      <3>1. ~DestroyGraph(g)
        BY <1>3 DEF DestroyGraph, Undefined, Ends
      <3> QED BY <1>3, <2>1, <2>4, <3>1, RemoveFresh, SplitFresh, AddToBeginFresh DEF EditGraph
    <2> QED BY <1>3, <2>2, <2>3, <2>4 DEF Next
  <1> QED BY <1>1, <1>2, <1>3 DEF FreshInv, Next

\* Whatever the calls, the instructions and blocks not made yet are untouched.
LEMMA AlwaysFresh == Spec => []FreshInv
  <1>1. Init => FreshInv
    BY InitHolds, InitFresh DEF FreshInv
  <1> QED BY <1>1, NextFresh, PTL DEF Spec

-----------------------------------------------------------------------------
(* A call that changes one list.                                           *)

\* Where block bb is, seen from holder h: nowhere, in the list of h, or in the
\* list of another one.
LEMMA WhereIs ==
    ASSUME NEW L, LaidAs(L), NEW h \in Holders, NEW bb \in blocks
    PROVE  \/ Empty(bb) /\ \A k \in Holders : Without(L[k], bb)
           \/ PieceIn(L[h], bb) /\ \A k \in Holders \ {h} : Without(L[k], bb)
           \/ (\E k \in Holders \ {h} : PieceIn(L[k], bb)) /\ Without(L[h], bb)
  BY DEF LaidAs, Placed

\* A block is a piece of one list only.
LEMMA OnePlace ==
    ASSUME NEW L, LaidAs(L), NEW h \in Holders, NEW bb \in blocks, PieceIn(L[h], bb)
    PROVE  \A k \in Holders \ {h} : Without(L[k], bb)
  <1>1. Placed(L, bb) /\ \A k \in Holders : L[k] \in Seq(Insts)
    BY DEF LaidAs
  <1>2. ~Without(L[h], bb)
    BY <1>1, PieceGives
  <1> QED BY <1>1, <1>2 DEF Placed

\* A holder's new list is f, the other lists stay, and so do the blocks in them.
LEMMA ListChanges ==
    ASSUME NEW L, LaidAs(L), NEW h \in Holders, NEW f \in Seq(Insts), Copies' = Copies,
           \A k \in Holders \ {h} :
              /\ HeadOf(k)' = HeadOf(k) /\ TailOf(k)' = TailOf(k) /\ Apart(f, L[k])
              /\ \A x \in ToSet(L[k]) : /\ next'[x] = next[x] /\ prev'[x] = prev[x]
                                        /\ parent'[x] = parent[x] /\ x \notin deleted',
           blocks \subseteq blocks',
           Chain(f)', KnowsBoth(f, h)', \A x \in ToSet(f) : MayHold(h, parent[x])',
           \A bb \in blocks' :
              \/ /\ bb \in blocks /\ \E k \in Holders \ {h} : PieceIn(L[k], bb)
                 /\ first_inst'[bb] = first_inst[bb] /\ last_inst'[bb] = last_inst[bb] /\ Without(f, bb)'
              \/ /\ \A k \in Holders \ {h} : Without(L[k], bb)
                 /\ PieceIn(f, bb)' \/ (Empty(bb)' /\ Without(f, bb)')
    PROVE  LaidAs([L EXCEPT ![h] = f])'
  <1> DEFINE L2 == [L EXCEPT ![h] = f]
  <1>1. L \in [Holders -> Seq(Insts)] /\ Holders' = Holders
    BY DEF LaidAs, Holders
  <1>2. L2 \in [Holders -> Seq(Insts)] /\ L2[h] = f /\ \A k \in Holders \ {h} : L2[k] = L[k]
    BY <1>1
  <1> HIDE DEF L2
  <1>3. \A k \in Holders \ {h} : \A i \in 1..Len(L[k]) : L[k][i] \in ToSet(L[k])
    BY <1>1, Entries
  <1>4. ASSUME NEW k \in Holders \ {h}
        PROVE  /\ Chain(L[k])' /\ KnowsBoth(L[k], k)'
               /\ \A x \in ToSet(L[k]) : MayHold(k, parent[x])'
    <2>1. Chain(L[k]) /\ KnowsBoth(L[k], k) /\ L[k] \in Seq(Insts \ deleted) /\ Len(L[k]) \in Nat
      BY <1>1 DEF LaidAs, Chain
    <2>2. \A i \in 1..Len(L[k]) : L[k][i] \in Insts \ deleted'
      BY <1>3, <2>1
    <2>3. L[k] \in Seq(Insts \ deleted')
      BY <2>1, <2>2
    <2>4. \A i \in 1 .. Len(L[k]) - 1 : i \in 1..Len(L[k]) /\ i + 1 \in 1..Len(L[k])
      BY <2>1
    <2>5. \A i \in 1..Len(L[k]) : next'[L[k][i]] = next[L[k][i]] /\ prev'[L[k][i]] = prev[L[k][i]]
      BY <1>3
    <2>6. L[k] # <<>> => 1 \in 1..Len(L[k]) /\ Len(L[k]) \in 1..Len(L[k])
      BY <2>1
    <2>7. Chain(L[k])'
      BY <2>1, <2>3, <2>4, <2>5, <2>6 DEF Chain
    <2>8. KnowsBoth(L[k], k)'
      BY <2>1 DEF KnowsBoth
    <2>9. \A x \in ToSet(L[k]) : MayHold(k, parent[x])'
      BY DEF LaidAs, MayHold
    <2> QED BY <2>7, <2>8, <2>9
  <1>5. \A k \in Holders : /\ Chain(L2[k])' /\ KnowsBoth(L2[k], k)'
                           /\ \A x \in ToSet(L2[k]) : MayHold(k, parent[x])'
    BY <1>2, <1>4
  <1>6. \A k, j \in Holders : k # j => Apart(L2[k], L2[j])
    BY <1>2 DEF LaidAs, Apart
  <1>7. ASSUME NEW bb, NEW k \in Holders \ {h} PROVE Without(L[k], bb) <=> Without(L[k], bb)'
    BY DEF Without
  <1>8. ASSUME NEW bb, NEW k \in Holders \ {h}, PieceIn(L[k], bb),
               first_inst'[bb] = first_inst[bb], last_inst'[bb] = last_inst[bb]
        PROVE  PieceIn(L[k], bb)'
    <2>1. \A i \in 1..Len(L[k]) : parent'[L[k][i]] = parent[L[k][i]]
      BY <1>3
    <2> QED BY <1>8, <2>1 DEF PieceIn
  <1>9. ASSUME NEW bb \in blocks' PROVE Placed(L2, bb)'
    <2>1. ASSUME bb \in blocks, NEW k \in Holders \ {h}, PieceIn(L[k], bb),
                 first_inst'[bb] = first_inst[bb], last_inst'[bb] = last_inst[bb], Without(f, bb)'
          PROVE  Placed(L2, bb)'
      <3>1. PieceIn(L2[k], bb)'
        BY <1>2, <1>8, <2>1
      <3>2. \A j \in Holders \ {k} : Without(L2[j], bb)'
        BY <1>2, <1>7, <2>1, OnePlace
      <3> QED BY <1>1, <3>1, <3>2 DEF Placed
    <2>2. ASSUME \A k \in Holders \ {h} : Without(L[k], bb),
                 PieceIn(f, bb)' \/ (Empty(bb)' /\ Without(f, bb)')
          PROVE  Placed(L2, bb)'
      <3>1. \A k \in Holders \ {h} : Without(L2[k], bb)'
        BY <1>2, <1>7, <2>2
      <3>2. CASE PieceIn(f, bb)'
        BY <1>1, <1>2, <3>1, <3>2 DEF Placed
      <3>3. CASE Empty(bb)' /\ Without(f, bb)'
        <4>1. \A k \in Holders : Without(L2[k], bb)'
          BY <1>2, <3>1, <3>3
        <4> QED BY <1>1, <3>3, <4>1 DEF Placed
      <3> QED BY <2>2, <3>2, <3>3
    <2> QED BY <2>1, <2>2
  <1>10. LaidAs(L2)'
    BY <1>1, <1>2, <1>5, <1>6, <1>9 DEF LaidAs, Apart
  <1> QED BY <1>10 DEF L2

\* Entries lo to hi of f are those of c, off places further, and all the others
\* are of block bb.
Shifted(f, c, bb, lo, hi, off) ==
    /\ f \in Seq(Insts) /\ c \in Seq(Insts) /\ lo \in Nat /\ hi \in Nat /\ off \in {0, 1}
    /\ 1 <= lo /\ hi <= Len(f) /\ hi + off <= Len(c)
    /\ \A i \in lo..hi : c[i + off] = f[i] /\ parent'[f[i]] = parent[f[i]]
    /\ \A i \in 1..Len(f) : i \in lo..hi \/ parent[f[i]] = bb
    /\ \A j \in 1..Len(c) : j \in lo + off .. hi + off \/ parent'[c[j]] = bb

\* Block b, wherever it is, stays there when list f becomes c.
Stays(f, c, b) ==
    /\ first_inst'[b] = first_inst[b] /\ last_inst'[b] = last_inst[b]
    /\ PieceIn(f, b) => PieceIn(c, b)'
    /\ Without(f, b) => Without(c, b)'

\* The other blocks stay.
LEMMA OthersStay ==
    ASSUME NEW f, NEW c, NEW bb, NEW lo, NEW hi, NEW off, Shifted(f, c, bb, lo, hi, off),
           NEW b, b # bb, first_inst'[b] = first_inst[b], last_inst'[b] = last_inst[b]
    PROVE  Stays(f, c, b)
  <1>0. /\ f \in Seq(Insts) /\ c \in Seq(Insts) /\ lo \in Nat /\ hi \in Nat /\ off \in {0, 1}
        /\ 1 <= lo /\ hi <= Len(f) /\ hi + off <= Len(c)
        /\ \A i \in lo..hi : c[i + off] = f[i] /\ parent'[f[i]] = parent[f[i]]
        /\ \A i \in 1..Len(f) : i \in lo..hi \/ parent[f[i]] = bb
        /\ \A j \in 1..Len(c) : j \in lo + off .. hi + off \/ parent'[c[j]] = bb
    BY DEF Shifted
  <1>1. Len(f) \in Nat /\ Len(c) \in Nat
    BY <1>0
  <1>2. ASSUME NEW j \in 1..Len(c), parent'[c[j]] = b
        PROVE  j - off \in lo..hi /\ c[j] = f[j - off] /\ parent[f[j - off]] = b
    <2>1. j \in lo + off .. hi + off
      BY <1>0, <1>2
    <2>2. j - off \in lo..hi /\ (j - off) + off = j
      BY <1>0, <1>1, <2>1
    <2> QED BY <1>0, <1>2, <2>2
  <1>3. ASSUME Without(f, b) PROVE Without(c, b)'
    <2> SUFFICES ASSUME NEW x \in ToSet(c), parent'[x] = b PROVE FALSE
      BY DEF Without
    <2>1. PICK j \in 1..Len(c) : c[j] = x
      BY <1>0, Entries
    <2>2. j - off \in lo..hi /\ parent[f[j - off]] = b
      BY <1>0, <1>2, <2>1
    <2>3. j - off \in 1..Len(f)
      BY <1>0, <1>1, <2>2
    <2>4. f[j - off] \in ToSet(f)
      BY <1>0, <2>3, Entries
    <2> QED BY <1>0, <1>3, <2>2, <2>4 DEF Without
  <1>4. ASSUME PieceIn(f, b) PROVE PieceIn(c, b)'
    <2>1. PICK a, d \in 1..Len(f) :
            /\ a <= d /\ first_inst[b] = f[a] /\ last_inst[b] = f[d]
            /\ \A i \in 1..Len(f) : parent[f[i]] = b <=> a <= i /\ i <= d
      BY <1>0, <1>4 DEF PieceIn
    <2>2. a \in lo..hi /\ d \in lo..hi
      BY <1>0, <1>1, <2>1
    <2>3. /\ a + off \in 1..Len(c) /\ d + off \in 1..Len(c) /\ a + off <= d + off
          /\ c[a + off] = f[a] /\ c[d + off] = f[d]
      BY <1>0, <1>1, <2>1, <2>2
    <2>4. ASSUME NEW j \in 1..Len(c) PROVE parent'[c[j]] = b <=> a + off <= j /\ j <= d + off
      <3>1. CASE parent'[c[j]] = b
        <4>1. j - off \in 1..Len(f) /\ parent[f[j - off]] = b
          BY <1>0, <1>1, <1>2, <3>1
        <4>2. a <= j - off /\ j - off <= d
          BY <1>0, <2>1, <4>1
        <4> QED BY <1>0, <1>1, <3>1, <4>2
      <3>2. CASE a + off <= j /\ j <= d + off
        <4>1. j - off \in lo..hi /\ j - off \in 1..Len(f) /\ (j - off) + off = j
          BY <1>0, <1>1, <2>2, <3>2
        <4>2. parent[f[j - off]] = b
          BY <1>0, <1>1, <2>1, <3>2, <4>1
        <4> QED BY <1>0, <3>2, <4>1, <4>2
      <3> QED BY <3>1, <3>2
    <2> QED BY <1>0, <1>4, <2>1, <2>3, <2>4 DEF PieceIn
  <1> QED BY <1>3, <1>4 DEF Stays

\* Lists laid out in order are intact, now and after a call.
LEMMA LaidTyped == \A L : IInv /\ LaidAs(L) => ListIntact
  BY TypesFit, LaidIsIntact

\* The same after a call.
LEMMA LaidNext == (\A L : IInv /\ LaidAs(L) => ListIntact)'
  BY LaidTyped, PTL

\* Nothing changes in the other lists when f becomes c.
OthersAlone(f, c) ==
    \A x \in Insts : x \notin ToSet(f) /\ parent[x] # Null =>
        /\ next'[x] = next[x] /\ prev'[x] = prev[x] /\ parent'[x] = parent[x]
        /\ x \in deleted' => x \in deleted
        /\ x \notin ToSet(c)

\* The instructions of c may be in the list of h, which is f so far.
Allowed(f, c, h) == \A x \in ToSet(c) : (x \in ToSet(f) /\ parent'[x] = parent[x]) \/ MayHold(h, parent[x])'

\* Of the lists L that of h becomes c, of its own instructions and new ones; the
\* blocks B are where they should be after it, and the others stay.
Becomes(L, h, c, B) ==
    /\ h \in Holders /\ c \in Seq(Insts)
    /\ Copies' = Copies /\ blocks \subseteq blocks'
    /\ \A k \in Holders \ {h} : HeadOf(k)' = HeadOf(k) /\ TailOf(k)' = TailOf(k)
    /\ OthersAlone(L[h], c)
    /\ Allowed(L[h], c, h)
    /\ Chain(c)'
    /\ KnowsBoth(c, h)'
    /\ \A b \in blocks' \ B : b \in blocks /\ Stays(L[h], c, b)
    /\ \A b \in B : /\ \A k \in Holders \ {h} : Without(L[k], b)
                    /\ PieceIn(c, b)' \/ (Empty(b)' /\ Without(c, b)')

\* Then all is in order afterwards.
LEMMA ListEdited ==
    ASSUME Typed, IInv', NEW L, LaidAs(L), NEW h, NEW f2, NEW B, Becomes(L, h, f2, B)
    PROVE  ListIntact'
  <1> USE DEF Becomes
  <1>1. \A k \in Holders \ {h} : \A x \in ToSet(L[k]) :
          x \in Insts \ deleted /\ parent[x] \in blocks /\ parent[x] # Null /\ x \notin ToSet(L[h])
    <2> SUFFICES ASSUME NEW k \in Holders \ {h}, NEW x \in ToSet(L[k])
                 PROVE  x \in Insts \ deleted /\ parent[x] \in blocks /\ parent[x] # Null /\ x \notin ToSet(L[h])
      OBVIOUS
    <2>1. L[k] \in Seq(Insts \ deleted)
      BY DEF LaidAs, Chain
    <2>2. x \in Insts \ deleted
      BY <2>1, Entries
    <2>3. parent[x] \in blocks
      BY DEF LaidAs, MayHold
    <2>4. x \notin ToSet(L[h])
      BY DEF LaidAs, Apart
    <2> QED BY <2>2, <2>3, <2>4, NullIsNothing DEF Typed
  <1>2. \A k \in Holders \ {h} : Apart(f2, L[k])
    BY <1>1 DEF Apart, OthersAlone
  <1>3. \A k \in Holders \ {h} : \A x \in ToSet(L[k]) :
          next'[x] = next[x] /\ prev'[x] = prev[x] /\ parent'[x] = parent[x] /\ x \notin deleted'
    BY <1>1 DEF OthersAlone
  <1>4. \A x \in ToSet(f2) : MayHold(h, parent[x])'
    BY DEF LaidAs, MayHold, Allowed
  <1>5. ASSUME NEW b \in blocks'
        PROVE  \/ /\ b \in blocks /\ \E k \in Holders \ {h} : PieceIn(L[k], b)
                  /\ first_inst'[b] = first_inst[b] /\ last_inst'[b] = last_inst[b] /\ Without(f2, b)'
               \/ /\ \A k \in Holders \ {h} : Without(L[k], b)
                  /\ PieceIn(f2, b)' \/ (Empty(b)' /\ Without(f2, b)')
    <2>1. CASE b \in B
      BY <2>1
    <2>2. CASE b \notin B
      <3>1. b \in blocks
        BY <2>2
      <3>2. Empty(b) => Empty(b)'
        BY <2>2 DEF Empty, Stays
      <3> QED BY <2>2, <3>1, <3>2, WhereIs DEF Stays
    <2> QED BY <2>1, <2>2
  <1>6. LaidAs([L EXCEPT ![h] = f2])'
    BY <1>2, <1>3, <1>4, <1>5, ListChanges
  <1> QED BY <1>6, LaidNext

\* Whose list a block stands in, as far as the block itself knows.
OwnerOf(bb) == IF graph_[bb] = Wild THEN [kind |-> "copy", id |-> bb] ELSE [kind |-> "graph", id |-> graph_[bb]]

\* The owner that a block knows is the holder of a list that may have the block.
LEMMA OwnerHolds ==
    ASSUME IInv, NEW bb \in blocks, graph_[bb] # Null, NEW h, h = OwnerOf(bb)
    PROVE  /\ h \in Holders /\ MayHold(h, bb)
           /\ graph_[bb] = Wild => bb \in Copies /\ h.kind = "copy" /\ h.id = bb
           /\ graph_[bb] # Wild => bb \notin Copies /\ h.kind = "graph" /\ h.id = graph_[bb] /\ h.id \in Graphs
           /\ HeadOf(h) = IF graph_[bb] = Wild THEN first_inst[bb] ELSE first[graph_[bb]]
           /\ TailOf(h) = IF graph_[bb] = Wild THEN last_inst[bb] ELSE last[graph_[bb]]
  <1>1. graph_[bb] \in Graphs \cup {Null, Wild}
    BY DEF IInv, TypeOK
  <1>2. CASE graph_[bb] = Wild
    <2>1. bb \in Copies
      BY <1>2 DEF Copies
    <2> QED BY <1>2, <2>1 DEF OwnerOf, Holders, MayHold, HeadOf, TailOf
  <1>3. CASE graph_[bb] # Wild
    <2>1. bb \notin Copies
      BY <1>3 DEF Copies
    <2> QED BY <1>1, <1>3, <2>1 DEF OwnerOf, Holders, MayHold, HeadOf, TailOf
  <1> QED BY <1>2, <1>3

\* A block with an instruction in the list of h is a piece of it, and of no other.
LEMMA PieceOfHolder ==
    ASSUME Typed, NEW L, LaidAs(L), NEW h \in Holders, NEW bb \in blocks,
           first_inst[bb] \in ToSet(L[h]) \/ last_inst[bb] \in ToSet(L[h])
    PROVE  PieceIn(L[h], bb) /\ \A k \in Holders \ {h} : Without(L[k], bb)
  <1>1. \A k \in Holders : L[k] \in Seq(Insts)
    BY DEF LaidAs
  <1>2. ~Empty(bb)
    <2>1. \A x \in ToSet(L[h]) : x # Null
      BY <1>1, Entries, NullIsNothing
    <2> QED BY <2>1 DEF Empty
  <1>3. PICK k \in Holders : PieceIn(L[k], bb) /\ \A j \in Holders \ {k} : Without(L[j], bb)
    BY <1>2 DEF LaidAs, Placed
  <1>4. first_inst[bb] \in ToSet(L[k]) /\ last_inst[bb] \in ToSet(L[k])
    BY <1>1, <1>3, Entries DEF PieceIn
  <1>5. k = h
    BY <1>4 DEF LaidAs, Apart
  <1> QED BY <1>3, <1>5

\* The block whose first instruction begins a list.
LEMMA BlockAtHead ==
    ASSUME IInv, NEW L, LaidAs(L), NEW bb \in blocks, NEW h, h = OwnerOf(bb), graph_[bb] # Null,
           NEW f, f = L[h], first_inst[bb] # Null, HeadOf(h) = first_inst[bb]
    PROVE  /\ h \in Holders /\ MayHold(h, bb)
           /\ f \in Seq(Insts) /\ f # <<>> /\ f[1] = first_inst[bb] /\ Chain(f) /\ KnowsBoth(f, h)
           /\ \E b \in 1..Len(f) : /\ last_inst[bb] = f[b]
                                   /\ \A i \in 1..Len(f) : parent[f[i]] = bb <=> i <= b
           /\ \A k \in Holders \ {h} : Without(L[k], bb)
  <1>1. h \in Holders /\ MayHold(h, bb) /\ Typed
    BY OwnerHolds, TypesFit
  <1>2. f \in Seq(Insts) /\ Chain(f) /\ KnowsBoth(f, h)
    BY <1>1 DEF LaidAs
  <1>3. f # <<>> /\ f[1] = first_inst[bb] /\ 1 \in 1..Len(f)
    BY <1>2 DEF KnowsBoth
  <1>4. first_inst[bb] \in ToSet(f)
    BY <1>2, <1>3, Entries
  <1>5. PieceIn(f, bb) /\ \A k \in Holders \ {h} : Without(L[k], bb)
    BY <1>1, <1>4, PieceOfHolder
  <1>6. PICK a, b \in 1..Len(f) :
          /\ a <= b /\ first_inst[bb] = f[a] /\ last_inst[bb] = f[b]
          /\ \A i \in 1..Len(f) : parent[f[i]] = bb <=> a <= i /\ i <= b
    BY <1>5 DEF PieceIn
  <1>7. a = 1
    BY <1>2, <1>3, <1>6 DEF Chain, NoDuplicates
  <1>8. \A i \in 1..Len(f) : parent[f[i]] = bb <=> i <= b
    BY <1>2, <1>6, <1>7
  <1> QED BY <1>1, <1>2, <1>3, <1>5, <1>6, <1>8

\* The block whose last instruction ends a list.
LEMMA BlockAtTail ==
    ASSUME IInv, NEW L, LaidAs(L), NEW bb \in blocks, NEW h, h = OwnerOf(bb), graph_[bb] # Null,
           NEW f, f = L[h], last_inst[bb] # Null, TailOf(h) = last_inst[bb]
    PROVE  /\ h \in Holders /\ MayHold(h, bb)
           /\ f \in Seq(Insts) /\ f # <<>> /\ f[Len(f)] = last_inst[bb] /\ Chain(f) /\ KnowsBoth(f, h)
           /\ \E a \in 1..Len(f) : /\ first_inst[bb] = f[a]
                                   /\ \A i \in 1..Len(f) : parent[f[i]] = bb <=> a <= i
           /\ \A k \in Holders \ {h} : Without(L[k], bb)
  <1>1. h \in Holders /\ MayHold(h, bb) /\ Typed
    BY OwnerHolds, TypesFit
  <1>2. f \in Seq(Insts) /\ Chain(f) /\ KnowsBoth(f, h) /\ Len(f) \in Nat
    BY <1>1 DEF LaidAs
  <1>3. f # <<>> /\ f[Len(f)] = last_inst[bb] /\ Len(f) \in 1..Len(f)
    BY <1>2 DEF KnowsBoth
  <1>4. last_inst[bb] \in ToSet(f)
    BY <1>2, <1>3, Entries
  <1>5. PieceIn(f, bb) /\ \A k \in Holders \ {h} : Without(L[k], bb)
    BY <1>1, <1>4, PieceOfHolder
  <1>6. PICK a, b \in 1..Len(f) :
          /\ a <= b /\ first_inst[bb] = f[a] /\ last_inst[bb] = f[b]
          /\ \A i \in 1..Len(f) : parent[f[i]] = bb <=> a <= i /\ i <= b
    BY <1>5 DEF PieceIn
  <1>7. b = Len(f)
    BY <1>2, <1>3, <1>6 DEF Chain, NoDuplicates
  <1>8. \A i \in 1..Len(f) : parent[f[i]] = bb <=> a <= i
    BY <1>2, <1>6, <1>7
  <1> QED BY <1>1, <1>2, <1>3, <1>5, <1>6, <1>8

\* An instruction in front of a list.
LEMMA PutInFront ==
    ASSUME NEW f \in Seq(Insts), NEW inst \in Insts
    PROVE  \E c \in Seq(Insts) : /\ Len(c) = Len(f) + 1 /\ c[1] = inst
                                 /\ \A i \in 1..Len(f) : c[i + 1] = f[i]
                                 /\ \A i \in 2..Len(c) : c[i] = f[i - 1]
                                 /\ ToSet(c) = ToSet(f) \cup {inst}
  <1> DEFINE c == [i \in 1 .. Len(f) + 1 |-> IF i = 1 THEN inst ELSE f[i - 1]]
  <1>1. Len(f) \in Nat /\ \A i \in 1 .. Len(f) + 1 : i # 1 => i - 1 \in 1..Len(f)
    OBVIOUS
  <1>2. c \in Seq(Insts) /\ Len(c) = Len(f) + 1
    BY <1>1
  <1>3. c[1] = inst /\ (\A i \in 1..Len(f) : c[i + 1] = f[i]) /\ \A i \in 2..Len(c) : c[i] = f[i - 1]
    BY <1>1, <1>2
  <1> HIDE DEF c
  <1>4. ToSet(c) = ToSet(f) \cup {inst}
    <2>1. \A x \in ToSet(c) : x \in ToSet(f) \cup {inst}
      <3> SUFFICES ASSUME NEW x \in ToSet(c), x # inst PROVE x \in ToSet(f)
        OBVIOUS
      <3>1. PICK i \in 1..Len(c) : c[i] = x
        BY <1>2, Entries
      <3>2. i \in 2..Len(c) /\ i - 1 \in 1..Len(f)
        BY <1>1, <1>2, <1>3, <3>1
      <3> QED BY <1>3, <3>1, <3>2, Entries
    <2>2. inst \in ToSet(c)
      <3>1. 1 \in 1..Len(c)
        BY <1>1, <1>2
      <3> QED BY <1>2, <1>3, <3>1, Entries
    <2>3. \A x \in ToSet(f) : x \in ToSet(c)
      <3> SUFFICES ASSUME NEW x \in ToSet(f) PROVE x \in ToSet(c)
        OBVIOUS
      <3>1. PICK i \in 1..Len(f) : f[i] = x
        BY Entries
      <3>2. i + 1 \in 1..Len(c)
        BY <1>1, <1>2
      <3> QED BY <1>2, <1>3, <3>1, <3>2, Entries
    <2> QED BY <2>1, <2>2, <2>3
  <1> QED BY <1>2, <1>3, <1>4

\* An instruction in front of a chain and linked to it makes a chain.
LEMMA FrontChain ==
    ASSUME Typed, NEW f, Chain(f), f # <<>>, NEW inst \in Insts \ deleted, inst \notin ToSet(f), deleted' = deleted,
           next' = [next EXCEPT ![inst] = f[1]], prev' = [prev EXCEPT ![f[1]] = inst], prev[inst] = Null,
           NEW c \in Seq(Insts), Len(c) = Len(f) + 1, c[1] = inst, \A i \in 2..Len(c) : c[i] = f[i - 1]
    PROVE  Chain(c)'
  <1>1. /\ f \in Seq(Insts \ deleted) /\ Len(f) \in Nat /\ Len(f) # 0
        /\ \A i \in 1..Len(f) : f[i] \in Insts \ deleted /\ f[i] # inst
        /\ \A i, j \in 1..Len(f) : i # j => f[i] # f[j]
        /\ \A i \in 1 .. Len(f) - 1 : next[f[i]] = f[i + 1] /\ prev[f[i + 1]] = f[i]
        /\ prev[f[1]] = Null /\ next[f[Len(f)]] = Null
    <2>1. f \in Seq(Insts \ deleted) /\ f \in Seq(Insts)
      BY DEF Chain
    <2>2. \A i \in 1..Len(f) : f[i] \in Insts \ deleted /\ f[i] # inst
      BY <2>1, Entries
    <2> QED BY <2>1, <2>2 DEF Chain, NoDuplicates
  <1>2. \A x \in Insts : /\ next'[x] = IF x = inst THEN f[1] ELSE next[x]
                         /\ prev'[x] = IF x = f[1] THEN inst ELSE prev[x]
    BY DEF Typed
  <1>3. \A i \in 2..Len(c) : i - 1 \in 1..Len(f) /\ c[i] = f[i - 1]
    BY <1>1
  <1>4. c \in Seq(Insts \ deleted')
    <2>1. \A i \in 1..Len(c) : c[i] \in Insts \ deleted'
      BY <1>1, <1>3, SMTT(30)
    <2> QED BY <2>1
  <1>5. \A i, j \in 1..Len(c) : i # j => c[i] # c[j]
    <2> SUFFICES ASSUME NEW i \in 1..Len(c), NEW j \in 1..Len(c), i # j, c[i] = c[j] PROVE FALSE
      OBVIOUS
    <2>1. CASE i = 1
      BY <1>1, <1>3, <2>1
    <2>2. CASE j = 1
      BY <1>1, <1>3, <2>2
    <2>3. CASE i # 1 /\ j # 1
      <3>1. i \in 2..Len(c) /\ j \in 2..Len(c) /\ i - 1 # j - 1
        BY <1>1, <2>3
      <3>2. /\ i - 1 \in 1..Len(f) /\ c[i] = f[i - 1]
            /\ j - 1 \in 1..Len(f) /\ c[j] = f[j - 1]
        BY <1>3, <3>1
      <3>3. \A k, l \in 1..Len(f) : k # l => f[k] # f[l]
        BY <1>1
      <3>4. f[i - 1] # f[j - 1]
        BY <3>1, <3>2, <3>3
      <3> QED BY <3>2, <3>4
    <2> QED BY <2>1, <2>2, <2>3
  <1>6. ASSUME NEW i \in 1 .. Len(c) - 1 PROVE next'[c[i]] = c[i + 1] /\ prev'[c[i + 1]] = c[i]
    <2>1. CASE i = 1
      <3>1. 2 \in 2..Len(c) /\ c[2] = f[1] /\ c[1] = inst /\ 1 \in 1..Len(f)
        BY <1>1, <1>3
      <3> QED BY <1>1, <1>2, <2>1, <3>1
    <2>2. CASE i # 1
      <3>1. i \in 2..Len(c) /\ i + 1 \in 2..Len(c) /\ i - 1 \in 1 .. Len(f) - 1 /\ (i - 1) + 1 = i /\ (i + 1) - 1 = i
            /\ i \in 1..Len(f) /\ i - 1 \in 1..Len(f) /\ 1 \in 1..Len(f)
        BY <1>1, <2>2
      <3>2. c[i] = f[i - 1] /\ c[i + 1] = f[i]
        BY <1>3, <3>1
      <3>3. next[f[i - 1]] = f[i] /\ prev[f[i]] = f[i - 1]
        BY <1>1, <3>1
      <3>4. f[i] # f[1] /\ f[i - 1] # inst
        BY <1>1, <2>2, <3>1
      <3> QED BY <1>1, <1>2, <3>1, <3>2, <3>3, <3>4
    <2> QED BY <2>1, <2>2
  <1>7. prev'[c[1]] = Null /\ next'[c[Len(c)]] = Null
    <2>1. Len(c) \in 2..Len(c) /\ Len(c) - 1 = Len(f) /\ 1 \in 1..Len(f) /\ Len(f) \in 1..Len(f)
      BY <1>1
    <2>2. c[Len(c)] = f[Len(f)]
      BY <2>1
    <2> QED BY <1>1, <1>2, <2>1, <2>2
  <1> QED BY <1>4, <1>5, <1>6, <1>7 DEF Chain, NoDuplicates

\* An instruction that no block has taken is in no list.
LEMMA NewInNone ==
    ASSUME Typed, NEW L, LaidAs(L), NEW inst, parent[inst] = Null, NEW h \in Holders PROVE inst \notin ToSet(L[h])
  <1>1. Null \notin blocks
    BY NullIsNothing DEF Typed
  <1> QED BY <1>1 DEF LaidAs, MayHold

\* The pointers of the graphs that a block does not know stay.
LEMMA MovedOne ==
    ASSUME NEW pointers, pointers \in [Graphs -> Links], NEW bb, NEW field, NEW inst,
           NEW q \in Moved(pointers, bb, field, inst)
    PROVE  /\ \A g \in Graphs : g # graph_[bb] => q[g] = pointers[g]
           /\ \A g \in Graphs : q[g] \in {pointers[g], inst}
           /\ graph_[bb] \in Graphs /\ field # Wild =>
                 q[graph_[bb]] = IF pointers[graph_[bb]] = field THEN inst ELSE pointers[graph_[bb]]
  BY DEF Moved

\* The first instruction of a copied block that was empty.
LEMMA AloneIntact ==
    ASSUME IInv, IInv', Fresh, NEW L, LaidAs(L), NEW bb \in blocks, NEW inst \in Insts, parent[inst] = Null,
           graph_[bb] = Wild, first_inst[bb] = Null, next[inst] = Null, prev[inst] = Null,
           parent' = [parent EXCEPT ![inst] = bb],
           first_inst' = [first_inst EXCEPT ![bb] = inst], last_inst' = [last_inst EXCEPT ![bb] = inst],
           UNCHANGED <<next, prev, deleted, blocks, graph_, first, last>>
    PROVE  ListIntact'
  <1> DEFINE f2 == <<inst>>
  <1>1. Typed /\ bb # Null /\ bb \in BBs /\ blocks \subseteq BBs
    BY TypesFit, NullIsNothing DEF Typed
  <1>2. graph_[bb] # Null
    <2>1. Wild # Null
      BY LayoutAssumption DEF MaybeInst, Null
    <2> QED BY <2>1
  <1>3. PICK h \in Holders :
           MayHold(h, bb) /\ bb \in Copies /\ h.kind = "copy" /\ h.id = bb /\ HeadOf(h) = first_inst[bb]
    BY <1>2, OwnerHolds
  <1>4. L[h] \in Seq(Insts) /\ KnowsBoth(L[h], h) /\ inst \notin ToSet(L[h]) /\ Copies' = Copies
    BY <1>1, <1>3, NewInNone DEF LaidAs, Copies
  <1>5. L[h] = <<>>
    <2>1. ASSUME L[h] # <<>> PROVE FALSE
      <3>1. L[h][1] \in Insts
        BY <1>4, <2>1
      <3> QED BY <1>3, <1>4, <2>1, <3>1, NullIsNothing DEF KnowsBoth
    <2> QED BY <2>1
  <1>6. \A x \in Insts : parent'[x] = IF x = inst THEN bb ELSE parent[x]
    BY <1>1 DEF Typed
  <1>7. /\ first_inst'[bb] = inst /\ last_inst'[bb] = inst
        /\ \A b \in BBs : b # bb => first_inst'[b] = first_inst[b] /\ last_inst'[b] = last_inst[b]
    BY <1>1 DEF Typed
  <1>8. f2 \in Seq(Insts) /\ Len(f2) = 1 /\ f2[1] = inst /\ inst \notin deleted /\ f2 # <<>>
        /\ \A x \in ToSet(f2) : x = inst
    <2>1. f2 \in Seq(Insts) /\ Len(f2) = 1 /\ f2[1] = inst /\ inst \notin deleted /\ f2 # <<>>
      BY DEF Fresh
    <2> HIDE DEF f2
    <2> QED BY <2>1, Entries
  <1>9. Chain(f2)'
    <2>1. f2 \in Seq(Insts \ deleted')
      BY <1>8
    <2>2. 1 .. Len(f2) - 1 = {} /\ \A i, j \in 1..Len(f2) : i = j
      BY <1>8
    <2> HIDE DEF f2
    <2> QED BY <1>8, <2>1, <2>2 DEF Chain, NoDuplicates
  <1>10. ToSet(L[h]) = {} /\ Len(L[h]) = 0
    <2>1. Len(L[h]) = 0
      BY <1>5
    <2>2. \A x : x \notin ToSet(L[h])
      <3> SUFFICES ASSUME NEW x \in ToSet(L[h]) PROVE FALSE
        OBVIOUS
      <3>1. PICK i \in 1..Len(L[h]) : L[h][i] = x
        BY <1>4, Entries
      <3> QED BY <2>1
    <2> QED BY <2>1, <2>2
  <1> HIDE DEF f2
  <1>11. HeadOf(h)' = inst /\ TailOf(h)' = inst
    BY <1>3, <1>7 DEF HeadOf, TailOf
  <1>12. KnowsBoth(f2, h)'
    BY <1>8, <1>11 DEF KnowsBoth
  <1>13. \A k \in Holders \ {h} : HeadOf(k)' = HeadOf(k) /\ TailOf(k)' = TailOf(k)
    <2> SUFFICES ASSUME NEW k \in Holders \ {h} PROVE HeadOf(k)' = HeadOf(k) /\ TailOf(k)' = TailOf(k)
      OBVIOUS
    <2>1. k.kind = "graph" \/ (k.kind = "copy" /\ k.id \in Copies /\ k.id # bb)
      BY <1>3, HolderOf
    <2>2. Copies \subseteq BBs
      BY <1>1 DEF Copies
    <2> QED BY <1>7, <2>1, <2>2 DEF HeadOf, TailOf
  <1>14. ASSUME NEW b \in blocks, b # bb
         PROVE  /\ first_inst'[b] = first_inst[b] /\ last_inst'[b] = last_inst[b]
                /\ PieceIn(L[h], b) => PieceIn(f2, b)'
                /\ Without(L[h], b) => Without(f2, b)'
    <2>1. Without(f2, b)'
      BY <1>6, <1>8, <1>14 DEF Without
    <2>2. ~PieceIn(L[h], b)
      BY <1>10 DEF PieceIn
    <2> QED BY <1>1, <1>7, <1>14, <2>1, <2>2
  <1>15. PieceIn(f2, bb)'
    <2>1. 1 \in 1..Len(f2) /\ (\A i \in 1..Len(f2) : i = 1) /\ parent'[f2[1]] = bb
      BY <1>6, <1>8
    <2> QED BY <1>7, <1>8, <2>1 DEF PieceIn
  <1>16. \A k \in Holders \ {h} : Without(L[k], bb)
    BY <1>3, HolderOf DEF LaidAs, MayHold, Without
  <1>17. Allowed(L[h], f2, h)
    <2>1. \A x \in ToSet(f2) : MayHold(h, parent[x])'
      BY <1>3, <1>4, <1>6, <1>8 DEF MayHold
    <2> QED BY <2>1 DEF Allowed
  <1>18. OthersAlone(L[h], f2)
    BY <1>6, <1>8 DEF OthersAlone
  <1> DEFINE B == {bb}
  <1>19. /\ \A b \in blocks' \ B : b \in blocks /\ Stays(L[h], f2, b)
         /\ \A b \in B : /\ \A k \in Holders \ {h} : Without(L[k], b)
                         /\ PieceIn(f2, b)' \/ (Empty(b)' /\ Without(f2, b)')
    BY <1>14, <1>15, <1>16 DEF Stays
  <1> HIDE DEF B
  <1>20. blocks \subseteq blocks'
    OBVIOUS
  <1>21. Becomes(L, h, f2, B)
    BY <1>3, <1>4, <1>8, <1>9, <1>12, <1>13, <1>17, <1>18, <1>19, <1>20, Zenon DEF Becomes
  <1> QED BY <1>1, <1>21, ListEdited

\* An edit of one block at an end of its list, from f to c: the entries lo to hi
\* of f, off places further, and around them instructions of the block.
LEMMA BlockEdited ==
    ASSUME IInv, IInv', Fresh, NEW L, LaidAs(L), NEW bb \in blocks, NEW inst \in Insts, parent[inst] = Null,
           graph_[bb] # Null, NEW h, h = OwnerOf(bb),
           \A k \in Holders \ {h} : Without(L[k], bb),
           parent' = [parent EXCEPT ![inst] = bb], UNCHANGED <<deleted, blocks, graph_>>,
           \A g \in Graphs : g # graph_[bb] => first'[g] = first[g] /\ last'[g] = last[g],
           \A d \in BBs : d # bb => first_inst'[d] = first_inst[d] /\ last_inst'[d] = last_inst[d],
           \A x \in Insts : x \notin ToSet(L[h]) /\ x # inst => next'[x] = next[x] /\ prev'[x] = prev[x],
           NEW c \in Seq(Insts), ToSet(c) \subseteq ToSet(L[h]) \cup {inst},
           NEW lo, NEW hi, NEW off, Shifted(L[h], c, bb, lo, hi, off),
           Chain(c)', KnowsBoth(c, h)', PieceIn(c, bb)'
    PROVE  ListIntact'
  <1>1. Typed /\ bb # Null /\ bb \in BBs /\ blocks \subseteq BBs /\ Copies' = Copies
    BY TypesFit, NullIsNothing DEF Typed, Copies
  <1>2. /\ h \in Holders /\ MayHold(h, bb)
        /\ graph_[bb] = Wild => bb \in Copies /\ h.kind = "copy" /\ h.id = bb
        /\ graph_[bb] # Wild => bb \notin Copies /\ h.kind = "graph" /\ h.id = graph_[bb] /\ h.id \in Graphs
    BY OwnerHolds
  <1>3. inst \notin ToSet(L[h]) /\ L[h] \in Seq(Insts)
    BY <1>1, <1>2, NewInNone DEF LaidAs
  <1>4. \A x \in Insts : parent'[x] = IF x = inst THEN bb ELSE parent[x]
    BY <1>1 DEF Typed
  <1>5. \A k \in Holders \ {h} : HeadOf(k)' = HeadOf(k) /\ TailOf(k)' = TailOf(k)
    <2> SUFFICES ASSUME NEW k \in Holders \ {h} PROVE HeadOf(k)' = HeadOf(k) /\ TailOf(k)' = TailOf(k)
      OBVIOUS
    <2>1. \/ k.kind = "graph" /\ k.id \in Graphs /\ k.id # graph_[bb]
          \/ k.kind = "graph" /\ k.id \in Graphs /\ graph_[bb] = Wild
          \/ k.kind = "copy" /\ k.id \in Copies /\ k.id # bb
      BY <1>2, HolderOf
    <2>2. Copies \subseteq BBs /\ (graph_[bb] = Wild => graph_[bb] \notin Graphs)
      BY <1>1, LayoutAssumption DEF Copies
    <2> QED BY <2>1, <2>2 DEF HeadOf, TailOf
  <1> DEFINE B == {bb}
  <1>6. \A d \in blocks' \ B : d \in blocks /\ Stays(L[h], c, d)
    BY <1>1, OthersStay
  <1>7. Allowed(L[h], c, h)
    <2>1. MayHold(h, bb)' /\ parent'[inst] = bb
      BY <1>1, <1>2, <1>4 DEF MayHold
    <2>2. MayHold(h, parent[inst])'
      BY <2>1
    <2>3. \A x \in ToSet(L[h]) : x \in Insts
      BY <1>3, Entries
    <2> QED BY <1>3, <1>4, <2>2, <2>3 DEF Allowed
  <1>8. OthersAlone(L[h], c)
    BY <1>4 DEF OthersAlone
  <1>9. \A d \in B : /\ \A k \in Holders \ {h} : Without(L[k], d)
                     /\ PieceIn(c, d)' \/ (Empty(d)' /\ Without(c, d)')
    OBVIOUS
  <1>10. blocks \subseteq blocks'
    OBVIOUS
  <1> HIDE DEF B
  <1>11. Becomes(L, h, c, B)
    <2>1. h \in Holders /\ c \in Seq(Insts) /\ Copies' = Copies /\ Chain(c)' /\ KnowsBoth(c, h)'
      BY <1>1, <1>2
    <2> QED BY <1>5, <1>6, <1>7, <1>8, <1>9, <1>10, <2>1, Zenon DEF Becomes
  <1> QED BY <1>1, <1>11, ListEdited

\* An instruction behind a chain and linked to it makes a chain.
LEMMA BackChain ==
    ASSUME Typed, NEW f, Chain(f), f # <<>>, NEW inst \in Insts \ deleted, inst \notin ToSet(f), deleted' = deleted,
           prev' = [prev EXCEPT ![inst] = f[Len(f)]], next' = [next EXCEPT ![f[Len(f)]] = inst], next[inst] = Null,
           NEW c, c = Append(f, inst)
    PROVE  Chain(c)'
  <1>1. /\ f \in Seq(Insts \ deleted) /\ Len(f) \in Nat /\ Len(f) # 0
        /\ \A i \in 1..Len(f) : f[i] \in Insts \ deleted /\ f[i] # inst
        /\ \A i, j \in 1..Len(f) : i # j => f[i] # f[j]
        /\ \A i \in 1 .. Len(f) - 1 : next[f[i]] = f[i + 1] /\ prev[f[i + 1]] = f[i]
        /\ prev[f[1]] = Null /\ next[f[Len(f)]] = Null
    <2>1. f \in Seq(Insts \ deleted) /\ f \in Seq(Insts)
      BY DEF Chain
    <2>2. \A i \in 1..Len(f) : f[i] \in Insts \ deleted /\ f[i] # inst
      BY <2>1, Entries
    <2> QED BY <2>1, <2>2 DEF Chain, NoDuplicates
  <1>2. \A x \in Insts : /\ prev'[x] = IF x = inst THEN f[Len(f)] ELSE prev[x]
                         /\ next'[x] = IF x = f[Len(f)] THEN inst ELSE next[x]
    BY DEF Typed
  <1>3. /\ c \in Seq(Insts \ deleted') /\ Len(c) = Len(f) + 1 /\ c[Len(f) + 1] = inst
        /\ \A i \in 1..Len(f) : c[i] = f[i]
    BY <1>1
  <1>4. \A i, j \in 1..Len(c) : i # j => c[i] # c[j]
    <2> SUFFICES ASSUME NEW i \in 1..Len(c), NEW j \in 1..Len(c), i # j, c[i] = c[j] PROVE FALSE
      OBVIOUS
    <2>1. CASE i = Len(f) + 1
      <3>1. j \in 1..Len(f)
        BY <1>1, <1>3, <2>1
      <3> QED BY <1>1, <1>3, <2>1, <3>1
    <2>2. CASE j = Len(f) + 1
      <3>1. i \in 1..Len(f)
        BY <1>1, <1>3, <2>2
      <3> QED BY <1>1, <1>3, <2>2, <3>1
    <2>3. CASE i # Len(f) + 1 /\ j # Len(f) + 1
      <3>1. i \in 1..Len(f) /\ j \in 1..Len(f)
        BY <1>1, <1>3, <2>3
      <3> QED BY <1>1, <1>3, <3>1
    <2> QED BY <2>1, <2>2, <2>3
  <1>5. ASSUME NEW i \in 1 .. Len(c) - 1 PROVE next'[c[i]] = c[i + 1] /\ prev'[c[i + 1]] = c[i]
    <2>1. i \in 1..Len(f) /\ c[i] = f[i] /\ Len(f) \in 1..Len(f)
      BY <1>1, <1>3
    <2>2. CASE i = Len(f)
      BY <1>1, <1>2, <1>3, <2>1, <2>2
    <2>3. CASE i # Len(f)
      <3>1. i \in 1 .. Len(f) - 1 /\ i + 1 \in 1..Len(f) /\ c[i + 1] = f[i + 1]
        BY <1>1, <1>3, <2>1, <2>3
      <3>2. next[f[i]] = f[i + 1] /\ prev[f[i + 1]] = f[i] /\ f[i] # f[Len(f)] /\ f[i + 1] # inst
        BY <1>1, <2>1, <2>3, <3>1
      <3> QED BY <1>1, <1>2, <2>1, <3>1, <3>2
    <2> QED BY <2>2, <2>3
  <1>6. prev'[c[1]] = Null /\ next'[c[Len(c)]] = Null
    <2>1. 1 \in 1..Len(f) /\ Len(f) \in 1..Len(f)
      BY <1>1
    <2> QED BY <1>1, <1>2, <1>3, <2>1
  <1>7. 1..Len(c) = DOMAIN c
    BY <1>3
  <1> QED BY <1>3, <1>4, <1>5, <1>6, <1>7 DEF Chain, NoDuplicates

\* What InsertInstForward does when the instruction becomes the first of a list.
LEMMA ForwardIntact ==
    ASSUME IInv, IInv', Fresh, NEW L, LaidAs(L), NEW bb \in blocks, NEW inst \in Insts, parent[inst] = Null,
           first_inst[bb] # Null, graph_[bb] # Null, HeadOf(OwnerOf(bb)) = first_inst[bb], prev[inst] = Null,
           parent' = [parent EXCEPT ![inst] = bb],
           first_inst' = [first_inst EXCEPT ![bb] = inst],
           prev' = [prev EXCEPT ![first_inst[bb]] = inst], next' = [next EXCEPT ![inst] = first_inst[bb]],
           first' \in Moved(first, bb, first_inst[bb], inst),
           UNCHANGED <<last_inst, deleted, blocks, graph_, last>>
    PROVE  ListIntact'
  <1>1. PICK h : h = OwnerOf(bb)
    OBVIOUS
  <1> DEFINE f == L[h]
  <1>2. /\ h \in Holders /\ f \in Seq(Insts) /\ f # <<>> /\ f[1] = first_inst[bb] /\ Chain(f) /\ KnowsBoth(f, h)
        /\ \E b \in 1..Len(f) : /\ last_inst[bb] = f[b]
                                /\ \A i \in 1..Len(f) : parent[f[i]] = bb <=> i <= b
        /\ \A k \in Holders \ {h} : Without(L[k], bb)
    BY <1>1, BlockAtHead
  <1>3. Typed /\ bb \in BBs /\ inst \notin ToSet(f) /\ inst \notin deleted
    BY <1>2, TypesFit, NewInNone DEF Fresh, Typed
  <1> HIDE DEF f
  <1>4. PICK c \in Seq(Insts) : /\ Len(c) = Len(f) + 1 /\ c[1] = inst
                                /\ \A i \in 1..Len(f) : c[i + 1] = f[i]
                                /\ \A i \in 2..Len(c) : c[i] = f[i - 1]
                                /\ ToSet(c) = ToSet(f) \cup {inst}
    BY <1>2, PutInFront
  <1>5. PICK b \in 1..Len(f) : /\ last_inst[bb] = f[b]
                               /\ \A i \in 1..Len(f) : parent[f[i]] = bb <=> i <= b
    BY <1>2
  <1>6. Chain(c)'
    BY <1>2, <1>3, <1>4, FrontChain
  <1>7. Len(f) \in Nat /\ Len(f) # 0 /\ c # <<>> /\ \A i \in 1..Len(f) : f[i] \in ToSet(f) /\ f[i] \in Insts
    BY <1>2, <1>4, Entries
  <1>8. /\ \A x \in Insts : parent'[x] = IF x = inst THEN bb ELSE parent[x]
        /\ \A x \in Insts : x \notin ToSet(f) /\ x # inst => next'[x] = next[x] /\ prev'[x] = prev[x]
        /\ first_inst'[bb] = inst
        /\ \A d \in BBs : d # bb => first_inst'[d] = first_inst[d] /\ last_inst'[d] = last_inst[d]
    <2>1. f[1] \in ToSet(f)
      BY <1>7
    <2> QED BY <1>2, <1>3, <2>1 DEF Typed
  <1>9. /\ \A g \in Graphs : g # graph_[bb] => first'[g] = first[g] /\ last'[g] = last[g]
        /\ HeadOf(h)' = inst /\ TailOf(h)' = TailOf(h)
    <2>1. first_inst[bb] # Wild
      BY <1>2, <1>7, LayoutAssumption DEF MaybeInst
    <2>2. /\ \A g \in Graphs : g # graph_[bb] => first'[g] = first[g]
          /\ graph_[bb] \in Graphs =>
                first'[graph_[bb]] = IF first[graph_[bb]] = first_inst[bb] THEN inst ELSE first[graph_[bb]]
      BY <1>3, <2>1, MovedOne DEF Typed
    <2>3. /\ graph_[bb] = Wild => h.kind = "copy" /\ h.id = bb
          /\ graph_[bb] # Wild => /\ h.kind = "graph" /\ h.id = graph_[bb] /\ h.id \in Graphs
                                  /\ first[graph_[bb]] = first_inst[bb]
      BY <1>1, OwnerHolds
    <2> QED BY <1>8, <2>2, <2>3 DEF HeadOf, TailOf
  <1>10. KnowsBoth(c, h)'
    <2>1. Len(c) \in 2..Len(c) /\ Len(c) - 1 = Len(f)
      BY <1>4, <1>7
    <2>2. c[Len(c)] = f[Len(f)]
      BY <1>4, <2>1
    <2> QED BY <1>2, <1>4, <1>7, <1>9, <2>2 DEF KnowsBoth
  <1>11. Shifted(f, c, bb, 1, Len(f), 1)
    <2>1. \A j \in 1..Len(c) : j \in 1 + 1 .. Len(f) + 1 \/ parent'[c[j]] = bb
      BY <1>4, <1>7, <1>8
    <2>2. \A i \in 1..Len(f) : c[i + 1] = f[i] /\ parent'[f[i]] = parent[f[i]]
      BY <1>3, <1>4, <1>7, <1>8
    <2> QED BY <1>2, <1>4, <1>7, <2>1, <2>2 DEF Shifted
  <1>12. PieceIn(c, bb)'
    <2>1. 1 \in 1..Len(c) /\ b + 1 \in 1..Len(c) /\ 1 <= b + 1 /\ c[b + 1] = last_inst'[bb] /\ c[1] = first_inst'[bb]
      BY <1>4, <1>5, <1>7, <1>8
    <2>2. ASSUME NEW i \in 1..Len(c) PROVE parent'[c[i]] = bb <=> 1 <= i /\ i <= b + 1
      <3>1. CASE i = 1
        BY <1>4, <1>5, <1>7, <1>8, <3>1
      <3>2. CASE i # 1
        <4>1. i - 1 \in 1..Len(f) /\ c[i] = f[i - 1] /\ parent'[c[i]] = parent[f[i - 1]]
          BY <1>3, <1>4, <1>7, <1>8, <3>2
        <4> QED BY <1>5, <1>7, <3>2, <4>1
      <3> QED BY <3>1, <3>2
    <2> QED BY <2>1, <2>2 DEF PieceIn
  <1> QED BY <1>1, <1>2, <1>4, <1>6, <1>8, <1>9, <1>10, <1>11, <1>12, BlockEdited DEF f

\* What InsertInstBack does when the instruction becomes the last of a list.
LEMMA BackIntact ==
    ASSUME IInv, IInv', Fresh, NEW L, LaidAs(L), NEW bb \in blocks, NEW inst \in Insts, parent[inst] = Null,
           last_inst[bb] # Null, graph_[bb] # Null, TailOf(OwnerOf(bb)) = last_inst[bb], next[inst] = Null,
           parent' = [parent EXCEPT ![inst] = bb],
           last_inst' = [last_inst EXCEPT ![bb] = inst],
           next' = [next EXCEPT ![last_inst[bb]] = inst], prev' = [prev EXCEPT ![inst] = last_inst[bb]],
           last' \in Moved(last, bb, last_inst[bb], inst),
           UNCHANGED <<first_inst, deleted, blocks, graph_, first>>
    PROVE  ListIntact'
  <1>1. PICK h : h = OwnerOf(bb)
    OBVIOUS
  <1> DEFINE f == L[h]
             c == Append(f, inst)
             n == Len(f)
  <1>2. /\ h \in Holders /\ f \in Seq(Insts) /\ f # <<>> /\ f[n] = last_inst[bb] /\ Chain(f) /\ KnowsBoth(f, h)
        /\ \E a \in 1..n : /\ first_inst[bb] = f[a]
                           /\ \A i \in 1..n : parent[f[i]] = bb <=> a <= i
        /\ \A k \in Holders \ {h} : Without(L[k], bb)
    BY <1>1, BlockAtTail
  <1>3. Typed /\ bb \in BBs /\ inst \notin ToSet(f) /\ inst \notin deleted
    BY <1>2, TypesFit, NewInNone DEF Fresh, Typed
  <1> HIDE DEF f
  <1>4. Chain(c)'
    BY <1>2, <1>3, BackChain
  <1>5. PICK a \in 1..n : /\ first_inst[bb] = f[a]
                          /\ \A i \in 1..n : parent[f[i]] = bb <=> a <= i
    BY <1>2
  <1>6. /\ c \in Seq(Insts) /\ Len(c) = n + 1 /\ c[n + 1] = inst /\ c # <<>>
        /\ \A i \in 1..n : c[i] = f[i]
    BY <1>2
  <1>7. n \in Nat /\ n # 0 /\ \A i \in 1..n : f[i] \in ToSet(f) /\ f[i] \in Insts
    BY <1>2, Entries
  <1> HIDE DEF c, n
  <1>8. ToSet(c) \subseteq ToSet(f) \cup {inst}
    <2> SUFFICES ASSUME NEW x \in ToSet(c), x # inst PROVE x \in ToSet(f)
      OBVIOUS
    <2>1. PICK i \in 1..Len(c) : c[i] = x
      BY <1>6, Entries
    <2> QED BY <1>6, <1>7, <2>1
  <1>9. /\ \A x \in Insts : parent'[x] = IF x = inst THEN bb ELSE parent[x]
        /\ \A x \in Insts : x \notin ToSet(f) /\ x # inst => next'[x] = next[x] /\ prev'[x] = prev[x]
        /\ last_inst'[bb] = inst
        /\ \A d \in BBs : d # bb => first_inst'[d] = first_inst[d] /\ last_inst'[d] = last_inst[d]
    <2>1. f[n] \in ToSet(f)
      BY <1>7
    <2> QED BY <1>2, <1>3, <2>1 DEF Typed
  <1>10. /\ \A g \in Graphs : g # graph_[bb] => first'[g] = first[g] /\ last'[g] = last[g]
         /\ TailOf(h)' = inst /\ HeadOf(h)' = HeadOf(h)
    <2>1. last_inst[bb] # Wild
      BY <1>2, <1>7, LayoutAssumption DEF MaybeInst
    <2>2. /\ \A g \in Graphs : g # graph_[bb] => last'[g] = last[g]
          /\ graph_[bb] \in Graphs =>
                last'[graph_[bb]] = IF last[graph_[bb]] = last_inst[bb] THEN inst ELSE last[graph_[bb]]
      BY <1>3, <2>1, MovedOne DEF Typed
    <2>3. /\ graph_[bb] = Wild => h.kind = "copy" /\ h.id = bb
          /\ graph_[bb] # Wild => /\ h.kind = "graph" /\ h.id = graph_[bb] /\ h.id \in Graphs
                                  /\ last[graph_[bb]] = last_inst[bb]
      BY <1>1, OwnerHolds
    <2> QED BY <1>9, <2>2, <2>3 DEF HeadOf, TailOf
  <1>11. KnowsBoth(c, h)'
    <2>1. c[1] = f[1] /\ c[Len(c)] = inst
      BY <1>6, <1>7
    <2> QED BY <1>2, <1>6, <1>10, <2>1 DEF KnowsBoth
  <1>12. Shifted(f, c, bb, 1, n, 0)
    <2>1. \A j \in 1..Len(c) : j \in 1 + 0 .. n + 0 \/ parent'[c[j]] = bb
      BY <1>3, <1>6, <1>7, <1>9
    <2>2. \A i \in 1..n : c[i + 0] = f[i] /\ parent'[f[i]] = parent[f[i]]
      BY <1>3, <1>6, <1>7, <1>9
    <2>3. n + 0 <= Len(c) /\ n <= Len(f)
      BY <1>6, <1>7 DEF n
    <2> QED BY <1>2, <1>6, <1>7, <2>1, <2>2, <2>3 DEF Shifted, n
  <1>13. PieceIn(c, bb)'
    <2>1. a \in 1..Len(c) /\ n + 1 \in 1..Len(c) /\ a <= n + 1 /\ c[a] = first_inst'[bb] /\ c[n + 1] = last_inst'[bb]
      BY <1>5, <1>6, <1>7, <1>9
    <2>2. ASSUME NEW i \in 1..Len(c) PROVE parent'[c[i]] = bb <=> a <= i /\ i <= n + 1
      <3>1. CASE i = n + 1
        BY <1>3, <1>5, <1>6, <1>7, <1>9, <3>1
      <3>2. CASE i # n + 1
        <4>1. i \in 1..n /\ c[i] = f[i] /\ parent'[c[i]] = parent[f[i]]
          BY <1>3, <1>6, <1>7, <1>9, <3>2
        <4> QED BY <1>5, <1>7, <4>1
      <3> QED BY <3>1, <3>2
    <2> QED BY <2>1, <2>2 DEF PieceIn
  <1> QED BY <1>1, <1>2, <1>4, <1>6, <1>8, <1>9, <1>10, <1>11, <1>12, <1>13, BlockEdited DEF f

\* What a replacement leaves of the chain f: inst at place e.
Replaced(f, e, inst) == [f EXCEPT ![e] = inst]

\* The rest of the chain is as it was.
LEMMA ReplacedSays ==
    ASSUME NEW f, Chain(f), NEW inst \in Insts, inst \notin ToSet(f), inst \notin deleted, NEW e \in 1..Len(f),
           NEW c, c = Replaced(f, e, inst)
    PROVE  /\ c \in Seq(Insts) /\ c \in Seq(Insts \ deleted) /\ Len(c) = Len(f) /\ c[e] = inst /\ c # <<>>
           /\ \A i \in 1..Len(f) : i # e => c[i] = f[i]
           /\ NoDuplicates(c) /\ ToSet(c) \subseteq ToSet(f) \cup {inst}
           /\ \A i \in 1..Len(f) : f[i] \in Insts /\ f[i] \in ToSet(f) /\ f[i] # inst
           /\ \A i, j \in 1..Len(f) : i # j => f[i] # f[j]
  <1>1. f \in Seq(Insts \ deleted) /\ f \in Seq(Insts) /\ Len(f) \in Nat
    BY DEF Chain
  <1>2. /\ \A i \in 1..Len(f) : f[i] \in Insts /\ f[i] \in ToSet(f) /\ f[i] # inst
        /\ \A i, j \in 1..Len(f) : i # j => f[i] # f[j]
    BY <1>1, Entries DEF Chain, NoDuplicates
  <1>3. /\ c \in Seq(Insts \ deleted) /\ c \in Seq(Insts) /\ Len(c) = Len(f) /\ c[e] = inst /\ c # <<>>
        /\ \A i \in 1..Len(f) : i # e => c[i] = f[i]
    BY <1>1 DEF Replaced
  <1>4. NoDuplicates(c)
    <2> SUFFICES ASSUME NEW i \in 1..Len(f), NEW j \in 1..Len(f), i # j, c[i] = c[j] PROVE FALSE
      BY <1>3 DEF NoDuplicates
    <2> QED BY <1>2, <1>3
  <1>5. ToSet(c) \subseteq ToSet(f) \cup {inst}
    <2> SUFFICES ASSUME NEW x \in ToSet(c), x # inst PROVE x \in ToSet(f)
      OBVIOUS
    <2>1. c \in Seq(Insts)
      BY <1>3
    <2>2. PICK i \in 1..Len(c) : c[i] = x
      <3>1. \A s \in Seq(Insts) : \A y \in ToSet(s) : \E i \in 1..Len(s) : s[i] = y
        BY Entries
      <3> QED BY <2>1, <3>1
    <2> QED BY <1>2, <1>3, <2>2
  <1> QED BY <1>2, <1>3, <1>4, <1>5

\* What ReplaceFirstInst does at the beginning of a list, in a block of several instructions.
LEMMA ReplaceFirstIntact ==
    ASSUME IInv, IInv', Fresh, NEW L, LaidAs(L), NEW bb \in blocks, NEW inst \in Insts, parent[inst] = Null,
           first_inst[bb] # Null, graph_[bb] # Null, HeadOf(OwnerOf(bb)) = first_inst[bb], prev[inst] = Null,
           first_inst[bb] # last_inst[bb],
           parent' = [parent EXCEPT ![inst] = bb],
           first_inst' = [first_inst EXCEPT ![bb] = inst],
           next' = [next EXCEPT ![inst] = next[first_inst[bb]]], prev' = [prev EXCEPT ![next[first_inst[bb]]] = inst],
           first' \in Moved(first, bb, first_inst[bb], inst),
           UNCHANGED <<last_inst, deleted, blocks, graph_, last>>
    PROVE  ListIntact'
  <1>1. PICK h : h = OwnerOf(bb)
    OBVIOUS
  <1> DEFINE f == L[h]
             c == Replaced(f, 1, inst)
             n == Len(f)
  <1>2. /\ h \in Holders /\ f \in Seq(Insts) /\ f # <<>> /\ f[1] = first_inst[bb] /\ Chain(f) /\ KnowsBoth(f, h)
        /\ \E b \in 1..n : /\ last_inst[bb] = f[b]
                           /\ \A i \in 1..n : parent[f[i]] = bb <=> i <= b
        /\ \A k \in Holders \ {h} : Without(L[k], bb)
    BY <1>1, BlockAtHead
  <1>3. Typed /\ bb \in BBs /\ inst \notin ToSet(f) /\ inst \notin deleted
    BY <1>2, TypesFit, NewInNone DEF Fresh, Typed
  <1> HIDE DEF f
  <1>4. PICK b \in 1..n : /\ last_inst[bb] = f[b]
                          /\ \A i \in 1..n : parent[f[i]] = bb <=> i <= b
    BY <1>2
  <1>5. n \in Nat /\ 1 \in 1..n
    BY <1>2
  <1>6. /\ c \in Seq(Insts) /\ c \in Seq(Insts \ deleted) /\ Len(c) = n /\ c[1] = inst /\ c # <<>>
        /\ \A i \in 1..n : i # 1 => c[i] = f[i]
        /\ NoDuplicates(c) /\ ToSet(c) \subseteq ToSet(f) \cup {inst}
        /\ \A i \in 1..n : f[i] \in Insts /\ f[i] \in ToSet(f) /\ f[i] # inst
        /\ \A i, j \in 1..n : i # j => f[i] # f[j]
    BY <1>2, <1>3, <1>5, ReplacedSays
  <1> HIDE DEF c
  <1>7. /\ \A i \in 1 .. n - 1 : next[f[i]] = f[i + 1] /\ prev[f[i + 1]] = f[i]
        /\ prev[f[1]] = Null /\ next[f[n]] = Null
    BY <1>2 DEF Chain
  <1> HIDE DEF n
  <1>8. b # 1 /\ b >= 2 /\ 2 \in 1..n /\ 1 \in 1 .. n - 1 /\ next[f[1]] = f[2]
    BY <1>2, <1>4, <1>5, <1>7
  <1>9. /\ \A x \in Insts : parent'[x] = IF x = inst THEN bb ELSE parent[x]
        /\ \A x \in Insts : next'[x] = IF x = inst THEN f[2] ELSE next[x]
        /\ \A x \in Insts : prev'[x] = IF x = f[2] THEN inst ELSE prev[x]
        /\ first_inst'[bb] = inst
        /\ \A d \in BBs : d # bb => first_inst'[d] = first_inst[d] /\ last_inst'[d] = last_inst[d]
    BY <1>2, <1>3, <1>6, <1>8 DEF Typed
  <1>10. /\ \A g \in Graphs : g # graph_[bb] => first'[g] = first[g] /\ last'[g] = last[g]
         /\ HeadOf(h)' = inst /\ TailOf(h)' = TailOf(h)
    <2>1. first_inst[bb] # Wild
      BY <1>2, <1>5, <1>6, LayoutAssumption DEF MaybeInst
    <2>2. /\ \A g \in Graphs : g # graph_[bb] => first'[g] = first[g]
          /\ graph_[bb] \in Graphs =>
                first'[graph_[bb]] = IF first[graph_[bb]] = first_inst[bb] THEN inst ELSE first[graph_[bb]]
      BY <1>3, <2>1, MovedOne DEF Typed
    <2>3. /\ graph_[bb] = Wild => h.kind = "copy" /\ h.id = bb
          /\ graph_[bb] # Wild => /\ h.kind = "graph" /\ h.id = graph_[bb] /\ h.id \in Graphs
                                  /\ first[graph_[bb]] = first_inst[bb]
      BY <1>1, OwnerHolds
    <2> QED BY <1>9, <2>2, <2>3 DEF HeadOf, TailOf
  <1>11. n \in 1..n /\ n # 1 /\ c[n] = f[n]
    BY <1>5, <1>6, <1>8
  <1>12. KnowsBoth(c, h)'
    BY <1>2, <1>6, <1>10, <1>11 DEF KnowsBoth, n
  <1>13. Chain(c)'
    <2>1. ASSUME NEW i \in 1 .. n - 1 PROVE next'[c[i]] = c[i + 1] /\ prev'[c[i + 1]] = c[i]
      <3>1. /\ i \in 1..n /\ i + 1 \in 1..n /\ i + 1 # 1
            /\ c[i + 1] = f[i + 1] /\ next[f[i]] = f[i + 1] /\ prev[f[i + 1]] = f[i]
        BY <1>5, <1>6, <1>7
      <3>2. CASE i = 1
        BY <1>6, <1>9, <3>1, <3>2
      <3>3. CASE i # 1
        <4>1. c[i] = f[i] /\ f[i + 1] # f[2] /\ f[i] # inst /\ f[i] \in Insts /\ f[i + 1] \in Insts
          BY <1>5, <1>6, <1>8, <3>1, <3>3
        <4> QED BY <1>9, <3>1, <4>1
      <3> QED BY <3>2, <3>3
    <2>2. prev'[c[1]] = Null /\ next'[c[n]] = Null
      BY <1>6, <1>7, <1>8, <1>9, <1>11
    <2> QED BY <1>6, <2>1, <2>2 DEF Chain
  <1>14. Shifted(f, c, bb, 2, n, 0)
    <2>1. \A j \in 1..n : j \in 2 + 0 .. n + 0 \/ parent'[c[j]] = bb
      BY <1>5, <1>6, <1>9
    <2>2. \A i \in 2..n : c[i + 0] = f[i] /\ parent'[f[i]] = parent[f[i]]
      BY <1>5, <1>6, <1>9
    <2>3. n + 0 <= Len(c) /\ n <= Len(f) /\ \A i \in 1..n : i \in 2..n \/ parent[f[i]] = bb
      BY <1>4, <1>5, <1>6, <1>8 DEF n
    <2> QED BY <1>2, <1>5, <1>6, <2>1, <2>2, <2>3 DEF Shifted, n
  <1>15. PieceIn(c, bb)'
    <2>1. /\ 1 \in 1..Len(c) /\ b \in 1..Len(c) /\ 1 <= b /\ c[b] = last_inst'[bb] /\ c[1] = first_inst'[bb]
          /\ \A i \in 1..Len(c) : parent'[c[i]] = bb <=> 1 <= i /\ i <= b
      BY <1>4, <1>5, <1>6, <1>8, <1>9
    <2> QED BY <2>1 DEF PieceIn
  <1>16. \A x \in Insts : x \notin ToSet(f) /\ x # inst => next'[x] = next[x] /\ prev'[x] = prev[x]
    BY <1>6, <1>8, <1>9
  <1>17. /\ c \in Seq(Insts) /\ ToSet(c) \subseteq ToSet(f) \cup {inst}
         /\ \A g \in Graphs : g # graph_[bb] => first'[g] = first[g] /\ last'[g] = last[g]
         /\ \A d \in BBs : d # bb => first_inst'[d] = first_inst[d] /\ last_inst'[d] = last_inst[d]
         /\ \A k \in Holders \ {h} : Without(L[k], bb)
    BY <1>2, <1>6, <1>9, <1>10
  <1> QED BY <1>1, <1>12, <1>13, <1>14, <1>15, <1>16, <1>17, BlockEdited DEF f

\* What ReplaceLastInst does at the end of a list, in a block of several instructions.
LEMMA ReplaceLastIntact ==
    ASSUME IInv, IInv', Fresh, NEW L, LaidAs(L), NEW bb \in blocks, NEW inst \in Insts, parent[inst] = Null,
           last_inst[bb] # Null, graph_[bb] # Null, TailOf(OwnerOf(bb)) = last_inst[bb], next[inst] = Null,
           first_inst[bb] # last_inst[bb],
           parent' = [parent EXCEPT ![inst] = bb],
           last_inst' = [last_inst EXCEPT ![bb] = inst],
           prev' = [prev EXCEPT ![inst] = prev[last_inst[bb]]], next' = [next EXCEPT ![prev[last_inst[bb]]] = inst],
           last' \in Moved(last, bb, last_inst[bb], inst),
           UNCHANGED <<first_inst, deleted, blocks, graph_, first>>
    PROVE  ListIntact'
  <1>1. PICK h : h = OwnerOf(bb)
    OBVIOUS
  <1> DEFINE f == L[h]
             n == Len(f)
             c == Replaced(f, n, inst)
  <1>2. /\ h \in Holders /\ f \in Seq(Insts) /\ f # <<>> /\ f[n] = last_inst[bb] /\ Chain(f) /\ KnowsBoth(f, h)
        /\ \E a \in 1..n : /\ first_inst[bb] = f[a]
                           /\ \A i \in 1..n : parent[f[i]] = bb <=> a <= i
        /\ \A k \in Holders \ {h} : Without(L[k], bb)
    BY <1>1, BlockAtTail
  <1>3. Typed /\ bb \in BBs /\ inst \notin ToSet(f) /\ inst \notin deleted
    BY <1>2, TypesFit, NewInNone DEF Fresh, Typed
  <1> HIDE DEF f
  <1>4. PICK a \in 1..n : /\ first_inst[bb] = f[a]
                          /\ \A i \in 1..n : parent[f[i]] = bb <=> a <= i
    BY <1>2
  <1>5. n \in Nat /\ n \in 1..n /\ 1 \in 1..n
    BY <1>2
  <1>6. /\ c \in Seq(Insts) /\ c \in Seq(Insts \ deleted) /\ Len(c) = n /\ c[n] = inst /\ c # <<>>
        /\ \A i \in 1..n : i # n => c[i] = f[i]
        /\ NoDuplicates(c) /\ ToSet(c) \subseteq ToSet(f) \cup {inst}
        /\ \A i \in 1..n : f[i] \in Insts /\ f[i] \in ToSet(f) /\ f[i] # inst
        /\ \A i, j \in 1..n : i # j => f[i] # f[j]
    BY <1>2, <1>3, <1>5, ReplacedSays
  <1> HIDE DEF c
  <1>7. /\ \A i \in 1 .. n - 1 : next[f[i]] = f[i + 1] /\ prev[f[i + 1]] = f[i]
        /\ prev[f[1]] = Null /\ next[f[n]] = Null
    BY <1>2 DEF Chain
  <1> HIDE DEF n
  <1>8. a # n /\ a <= n - 1 /\ n - 1 \in 1 .. n - 1 /\ n - 1 \in 1..n /\ prev[f[n]] = f[n - 1]
    <2>1. a # n /\ n - 1 \in 1 .. n - 1 /\ n - 1 \in 1..n /\ (n - 1) + 1 = n
      BY <1>2, <1>4, <1>5
    <2>2. prev[f[(n - 1) + 1]] = f[n - 1]
      BY <1>7, <2>1
    <2> QED BY <1>4, <1>5, <2>1, <2>2
  <1>9. /\ \A x \in Insts : parent'[x] = IF x = inst THEN bb ELSE parent[x]
        /\ \A x \in Insts : prev'[x] = IF x = inst THEN f[n - 1] ELSE prev[x]
        /\ \A x \in Insts : next'[x] = IF x = f[n - 1] THEN inst ELSE next[x]
        /\ last_inst'[bb] = inst
        /\ \A d \in BBs : d # bb => first_inst'[d] = first_inst[d] /\ last_inst'[d] = last_inst[d]
    BY <1>2, <1>3, <1>6, <1>8 DEF Typed
  <1>10. /\ \A g \in Graphs : g # graph_[bb] => first'[g] = first[g] /\ last'[g] = last[g]
         /\ TailOf(h)' = inst /\ HeadOf(h)' = HeadOf(h)
    <2>1. last_inst[bb] # Wild
      BY <1>2, <1>5, <1>6, LayoutAssumption DEF MaybeInst
    <2>2. /\ \A g \in Graphs : g # graph_[bb] => last'[g] = last[g]
          /\ graph_[bb] \in Graphs =>
                last'[graph_[bb]] = IF last[graph_[bb]] = last_inst[bb] THEN inst ELSE last[graph_[bb]]
      BY <1>3, <2>1, MovedOne DEF Typed
    <2>3. /\ graph_[bb] = Wild => h.kind = "copy" /\ h.id = bb
          /\ graph_[bb] # Wild => /\ h.kind = "graph" /\ h.id = graph_[bb] /\ h.id \in Graphs
                                  /\ last[graph_[bb]] = last_inst[bb]
      BY <1>1, OwnerHolds
    <2> QED BY <1>9, <2>2, <2>3 DEF HeadOf, TailOf
  <1>11. 1 # n /\ c[1] = f[1]
    BY <1>5, <1>6, <1>8
  <1>12. KnowsBoth(c, h)'
    BY <1>2, <1>6, <1>10, <1>11 DEF KnowsBoth, n
  <1>13. Chain(c)'
    <2>1. ASSUME NEW i \in 1 .. n - 1 PROVE next'[c[i]] = c[i + 1] /\ prev'[c[i + 1]] = c[i]
      <3>1. i \in 1..n /\ i + 1 \in 1..n /\ i # n /\ c[i] = f[i] /\ next[f[i]] = f[i + 1] /\ prev[f[i + 1]] = f[i]
        BY <1>5, <1>6, <1>7
      <3>2. CASE i = n - 1
        <4>1. c[i + 1] = inst /\ f[i] \in Insts
          BY <1>5, <1>6, <3>1, <3>2
        <4> QED BY <1>9, <3>1, <3>2, <4>1
      <3>3. CASE i # n - 1
        <4>1. c[i + 1] = f[i + 1] /\ f[i] # f[n - 1] /\ f[i + 1] # inst /\ f[i] \in Insts /\ f[i + 1] \in Insts
          BY <1>5, <1>6, <1>8, <3>1, <3>3
        <4> QED BY <1>9, <3>1, <4>1
      <3> QED BY <3>2, <3>3
    <2>2. next'[c[n]] = Null /\ prev'[c[1]] = Null
      BY <1>5, <1>6, <1>7, <1>8, <1>9, <1>11
    <2> QED BY <1>6, <2>1, <2>2 DEF Chain
  <1>14. Shifted(f, c, bb, 1, n - 1, 0)
    <2>1. \A j \in 1..n : j \in 1 + 0 .. (n - 1) + 0 \/ parent'[c[j]] = bb
      BY <1>5, <1>6, <1>9
    <2>2. \A i \in 1 .. n - 1 : c[i + 0] = f[i] /\ parent'[f[i]] = parent[f[i]]
      BY <1>5, <1>6, <1>9
    <2>3. (n - 1) + 0 <= Len(c) /\ n - 1 <= Len(f) /\ \A i \in 1..n : i \in 1 .. n - 1 \/ parent[f[i]] = bb
      BY <1>4, <1>5, <1>6, <1>8 DEF n
    <2>4. n - 1 \in Nat
      BY <1>5, <1>8
    <2> QED BY <1>2, <1>5, <1>6, <2>1, <2>2, <2>3, <2>4 DEF Shifted, n
  <1>15. PieceIn(c, bb)'
    <2>1. /\ a \in 1..Len(c) /\ n \in 1..Len(c) /\ a <= n /\ c[a] = first_inst'[bb] /\ c[n] = last_inst'[bb]
          /\ \A i \in 1..Len(c) : parent'[c[i]] = bb <=> a <= i /\ i <= n
      BY <1>4, <1>5, <1>6, <1>8, <1>9
    <2> QED BY <2>1 DEF PieceIn
  <1>16. \A x \in Insts : x \notin ToSet(f) /\ x # inst => next'[x] = next[x] /\ prev'[x] = prev[x]
    BY <1>6, <1>8, <1>9
  <1>17. /\ c \in Seq(Insts) /\ ToSet(c) \subseteq ToSet(f) \cup {inst}
         /\ \A g \in Graphs : g # graph_[bb] => first'[g] = first[g] /\ last'[g] = last[g]
         /\ \A d \in BBs : d # bb => first_inst'[d] = first_inst[d] /\ last_inst'[d] = last_inst[d]
         /\ \A k \in Holders \ {h} : Without(L[k], bb)
    BY <1>2, <1>6, <1>9, <1>10
  <1> QED BY <1>1, <1>12, <1>13, <1>14, <1>15, <1>16, <1>17, BlockEdited DEF f

\* List f without its instruction at place i, and where the entries were.
Was(i, j) == IF j < i THEN j ELSE j + 1
Gap(f, i) == [j \in 1 .. Len(f) - 1 |-> f[Was(i, j)]]

\* What is left of a chain is all of it but that instruction, in the same order.
LEMMA GapSays ==
    ASSUME NEW f, Chain(f), NEW i \in 1..Len(f)
    PROVE  /\ Gap(f, i) \in Seq(Insts) /\ Len(Gap(f, i)) = Len(f) - 1 /\ Len(f) \in Nat
           /\ \A j \in 1 .. Len(f) - 1 : Was(i, j) \in 1..Len(f) /\ Was(i, j) # i /\ Gap(f, i)[j] = f[Was(i, j)]
           /\ \A j \in 1..Len(f) : f[j] \in Insts \ deleted /\ f[j] \in ToSet(f)
           /\ \A j, k \in 1..Len(f) : j # k => f[j] # f[k]
           /\ \A x \in ToSet(Gap(f, i)) : x \in ToSet(f) /\ x # f[i]
  <1> DEFINE n == Len(f)
             c == Gap(f, i)
  <1>1. f \in Seq(Insts \ deleted) /\ f \in Seq(Insts) /\ n \in Nat /\ i \in 1..n
    BY DEF Chain
  <1>2. /\ \A j \in 1..n : f[j] \in Insts \ deleted /\ f[j] \in ToSet(f)
        /\ \A j, k \in 1..n : j # k => f[j] # f[k]
    BY <1>1, Entries DEF Chain, NoDuplicates
  <1>3. \A j \in 1 .. n - 1 : Was(i, j) \in 1..n /\ Was(i, j) # i
    BY <1>1 DEF Was
  <1>4. c = [j \in 1 .. n - 1 |-> f[Was(i, j)]]
    BY DEF Gap
  <1>5. \A j \in 1 .. n - 1 : c[j] = f[Was(i, j)] /\ c[j] \in Insts
    BY <1>2, <1>3, <1>4
  <1>6. c \in Seq(Insts) /\ Len(c) = n - 1
    <2>1. n - 1 \in Nat /\ DOMAIN c = 1 .. n - 1
      BY <1>1, <1>4
    <2> QED BY <1>4, <1>5, <2>1
  <1>7. ASSUME NEW x \in ToSet(c) PROVE x \in ToSet(f) /\ x # f[i]
    <2>1. \A s \in Seq(Insts) : \A y \in ToSet(s) : \E j \in 1..Len(s) : s[j] = y
      BY Entries
    <2>2. PICK j \in 1 .. n - 1 : c[j] = x
      BY <1>6, <2>1
    <2> QED BY <1>1, <1>2, <1>3, <1>5, <2>2
  <1> QED BY <1>1, <1>2, <1>3, <1>5, <1>6, <1>7

\* And a chain again, when its neighbours are told of each other.
LEMMA GapChain ==
    ASSUME Typed, NEW f, Chain(f), NEW i \in 2 .. Len(f) - 1,
           next' = [next EXCEPT ![f[i - 1]] = f[i + 1]], prev' = [prev EXCEPT ![f[i + 1]] = f[i - 1]],
           deleted' = deleted \cup {f[i]}
    PROVE  /\ Chain(Gap(f, i))' /\ Gap(f, i) # <<>>
           /\ Gap(f, i)[1] = f[1] /\ Gap(f, i)[Len(Gap(f, i))] = f[Len(f)]
  <1> DEFINE n == Len(f)
             c == Gap(f, i)
  <1>2. n \in Nat /\ i \in 1..n /\ i # 1 /\ i # n /\ i - 1 \in 1..n /\ i + 1 \in 1..n /\ i \in 2 .. n - 1
    BY DEF Chain
  <1>3. /\ c \in Seq(Insts) /\ Len(c) = n - 1
        /\ \A j \in 1 .. n - 1 : Was(i, j) \in 1..n /\ Was(i, j) # i /\ c[j] = f[Was(i, j)]
        /\ \A j \in 1..n : f[j] \in Insts \ deleted
        /\ \A j, k \in 1..n : j # k => f[j] # f[k]
    <2>1. i \in 1..Len(f)
      BY <1>2
    <2>2. /\ c \in Seq(Insts) /\ Len(c) = n - 1 /\ n \in Nat
          /\ \A j \in 1 .. n - 1 : Was(i, j) \in 1..n /\ Was(i, j) # i /\ c[j] = f[Was(i, j)]
          /\ \A j \in 1..n : f[j] \in Insts \ deleted /\ f[j] \in ToSet(f)
          /\ \A j, k \in 1..n : j # k => f[j] # f[k]
          /\ \A x \in ToSet(c) : x \in ToSet(f) /\ x # f[i]
      BY <2>1, GapSays, Zenon
    <2> QED BY <2>2
  <1>4. /\ \A j \in 1 .. n - 1 : next[f[j]] = f[j + 1] /\ prev[f[j + 1]] = f[j]
        /\ prev[f[1]] = Null /\ next[f[n]] = Null
    <2>1. f # <<>>
      BY <1>2
    <2> QED BY <2>1 DEF Chain
  <1> HIDE DEF n, c
  <1>5. /\ \A x \in Insts : next'[x] = IF x = f[i - 1] THEN f[i + 1] ELSE next[x]
        /\ \A x \in Insts : prev'[x] = IF x = f[i + 1] THEN f[i - 1] ELSE prev[x]
    BY DEF Typed
  <1>6. c \in Seq(Insts \ deleted')
    <2>1. \A j \in 1 .. n - 1 : c[j] \in Insts \ deleted'
      BY <1>2, <1>3
    <2> QED BY <1>3, <2>1
  <1>7. \A j, k \in 1 .. n - 1 : j # k => c[j] # c[k]
    <2>1. \A j, k \in 1 .. n - 1 : j # k => Was(i, j) # Was(i, k)
      BY <1>2 DEF Was
    <2> QED BY <1>3, <2>1
  <1>8. ASSUME NEW j \in 1 .. n - 2 PROVE next'[c[j]] = c[j + 1] /\ prev'[c[j + 1]] = c[j]
    <2>1. j \in 1 .. n - 1 /\ j + 1 \in 1 .. n - 1 /\ c[j] = f[Was(i, j)] /\ c[j + 1] = f[Was(i, j + 1)]
      <3>1. j \in 1 .. n - 1 /\ j + 1 \in 1 .. n - 1
        BY <1>2
      <3> QED BY <1>3, <3>1, Zenon
    <2>2. CASE j = i - 1
      <3>1. Was(i, j) = i - 1 /\ Was(i, j + 1) = i + 1
        BY <1>2, <2>2 DEF Was
      <3> QED BY <1>2, <1>3, <1>5, <2>1, <3>1
    <2>3. CASE j # i - 1
      <3>1. PICK w \in 1 .. n - 1 : w = Was(i, j) /\ w + 1 = Was(i, j + 1) /\ w # i - 1 /\ w # i
        BY <1>2, <2>3 DEF Was
      <3>2. w \in 1..n /\ w + 1 \in 1..n /\ w + 1 # i + 1
        BY <1>2, <3>1
      <3>3. f[w] # f[i - 1] /\ f[w + 1] # f[i + 1] /\ f[w] \in Insts /\ f[w + 1] \in Insts
        BY <1>2, <1>3, <3>1, <3>2
      <3>4. c[j] = f[w] /\ c[j + 1] = f[w + 1] /\ next[f[w]] = f[w + 1] /\ prev[f[w + 1]] = f[w]
        BY <1>4, <2>1, <3>1
      <3> QED BY <1>5, <3>3, <3>4
    <2> QED BY <2>2, <2>3
  <1>9. c[1] = f[1] /\ c[n - 1] = f[n] /\ 1 # i + 1 /\ n # i - 1 /\ 1 \in 1..n /\ n \in 1..n
    <2>1. Was(i, 1) = 1 /\ Was(i, n - 1) = n /\ 1 \in 1 .. n - 1 /\ n - 1 \in 1 .. n - 1
      BY <1>2 DEF Was
    <2> QED BY <1>2, <1>3, <2>1
  <1>10. prev'[c[1]] = Null /\ next'[c[n - 1]] = Null
    <2>1. f[1] # f[i + 1] /\ f[n] # f[i - 1] /\ f[1] \in Insts /\ f[n] \in Insts
      BY <1>2, <1>3, <1>9
    <2> QED BY <1>4, <1>5, <1>9, <2>1
  <1>11. c # <<>> /\ (n - 1) - 1 = n - 2
    BY <1>2, <1>3
  <1>12. Chain(c)'
    BY <1>3, <1>6, <1>7, <1>8, <1>10, <1>11 DEF Chain, NoDuplicates
  <1> QED BY <1>3, <1>9, <1>11, <1>12 DEF n, c

\* A block with an instruction that is in the list of h, and knows it, is a piece of it.
LEMMA PieceOfMember ==
    ASSUME NEW L, LaidAs(L), NEW h \in Holders, NEW x \in ToSet(L[h]), NEW bb, bb = parent[x]
    PROVE  bb \in blocks /\ MayHold(h, bb) /\ PieceIn(L[h], bb) /\ \A k \in Holders \ {h} : Without(L[k], bb)
  <1>1. MayHold(h, bb) /\ bb \in blocks
    BY DEF LaidAs, MayHold
  <1>2. ~Without(L[h], bb)
    BY DEF Without
  <1> QED BY <1>1, <1>2 DEF LaidAs, Placed

\* The other blocks stay when an instruction goes.
LEMMA GapStays ==
    ASSUME NEW f, Chain(f), NEW i \in 1..Len(f), UNCHANGED parent,
           NEW b, b # parent[f[i]], first_inst'[b] = first_inst[b], last_inst'[b] = last_inst[b]
    PROVE  Stays(f, Gap(f, i), b)
  <1> DEFINE n == Len(f)
             c == Gap(f, i)
  <1>1. /\ c \in Seq(Insts) /\ Len(c) = n - 1 /\ n \in Nat
        /\ \A j \in 1 .. n - 1 : Was(i, j) \in 1..n /\ Was(i, j) # i /\ c[j] = f[Was(i, j)]
        /\ \A j \in 1..n : f[j] \in Insts \ deleted /\ f[j] \in ToSet(f)
        /\ \A j, k \in 1..n : j # k => f[j] # f[k]
        /\ \A x \in ToSet(c) : x \in ToSet(f) /\ x # f[i]
    BY GapSays, Zenon
  <1> HIDE DEF c, n
  <1>2. i \in 1..n
    BY DEF n
  <1>3. Without(f, b) => Without(c, b)'
    BY <1>1 DEF Without
  <1>4. ASSUME PieceIn(f, b) PROVE PieceIn(c, b)'
    <2>1. PICK a, d \in 1..n :
            /\ a <= d /\ first_inst[b] = f[a] /\ last_inst[b] = f[d]
            /\ \A j \in 1..n : parent[f[j]] = b <=> a <= j /\ j <= d
      BY <1>4 DEF PieceIn, n
    <2>2. i < a \/ d < i
      BY <1>1, <1>2, <2>1
    <2>3. PICK p, q \in 1 .. n - 1 : Was(i, p) = a /\ Was(i, q) = d /\ p <= q
      <3>1. CASE i < a
        <4>1. a - 1 \in 1 .. n - 1 /\ d - 1 \in 1 .. n - 1 /\ Was(i, a - 1) = a /\ Was(i, d - 1) = d /\ a - 1 <= d - 1
          BY <1>1, <1>2, <2>1, <3>1 DEF Was
        <4> QED BY <4>1
      <3>2. CASE d < i
        <4>1. a \in 1 .. n - 1 /\ d \in 1 .. n - 1 /\ Was(i, a) = a /\ Was(i, d) = d
          BY <1>1, <1>2, <2>1, <3>2 DEF Was
        <4> QED BY <2>1, <4>1
      <3> QED BY <2>2, <3>1, <3>2
    <2>4. c[p] = first_inst'[b] /\ c[q] = last_inst'[b]
      BY <1>1, <2>1, <2>3
    <2>5. \A j \in 1 .. n - 1 : parent'[c[j]] = b <=> p <= j /\ j <= q
      <3> SUFFICES ASSUME NEW j \in 1 .. n - 1 PROVE parent'[c[j]] = b <=> p <= j /\ j <= q
        OBVIOUS
      <3>1. parent'[c[j]] = b <=> a <= Was(i, j) /\ Was(i, j) <= d
        BY <1>1, <2>1
      <3>2. a <= Was(i, j) <=> p <= j
        BY <1>1, <1>2, <2>3 DEF Was
      <3>3. Was(i, j) <= d <=> j <= q
        BY <1>1, <1>2, <2>3 DEF Was
      <3> QED BY <3>1, <3>2, <3>3
    <2> QED BY <1>1, <2>3, <2>4, <2>5 DEF PieceIn
  <1> QED BY <1>3, <1>4 DEF Stays, c

\* RemoveNonCFGOrSideInst of an instruction that is at neither end of its list.
LEMMA RemoveIntact ==
    ASSUME IInv, IInv', NEW L, LaidAs(L), NEW g \in Graphs, NEW h, h = [kind |-> "graph", id |-> g],
           NEW inst \in ToSet(L[h]), inst # first[g], inst # last[g], NEW bb, bb = parent[inst],
           NEW alone, alone = (first_inst[bb] # Null /\ first_inst[bb] = last_inst[bb]),
           first_inst' = IF alone THEN [first_inst EXCEPT ![bb] = Null]
                         ELSE IF first_inst[bb] = inst THEN [first_inst EXCEPT ![bb] = next[inst]]
                         ELSE first_inst,
           last_inst' = IF alone THEN [last_inst EXCEPT ![bb] = Null]
                        ELSE IF first_inst[bb] # inst /\ last_inst[bb] = inst
                        THEN [last_inst EXCEPT ![bb] = prev[inst]] ELSE last_inst,
           next' = [next EXCEPT ![prev[inst]] = next[inst]],
           prev' = [prev EXCEPT ![next[inst]] = prev[inst]],
           deleted' = deleted \cup {inst}, UNCHANGED <<parent, blocks, graph_, first, last>>
    PROVE  ListIntact'
  <1> DEFINE f == L[h]
             n == Len(f)
  <1>1. h \in Holders /\ HeadOf(h) = first[g] /\ TailOf(h) = last[g] /\ HeadOf(h)' = first[g] /\ TailOf(h)' = last[g]
        /\ h.kind = "graph"
    BY DEF Holders, HeadOf, TailOf
  <1>2. f \in Seq(Insts) /\ Chain(f) /\ KnowsBoth(f, h) /\ n \in Nat
    BY <1>1 DEF LaidAs
  <1>3. bb \in blocks /\ MayHold(h, bb) /\ PieceIn(f, bb) /\ \A k \in Holders \ {h} : Without(L[k], bb)
    BY <1>1, PieceOfMember
  <1> HIDE DEF f
  <1>4. PICK i \in 1..n : f[i] = inst
    BY <1>2, Entries DEF f
  <1> DEFINE c == Gap(f, i)
  <1>5. i # 1 /\ i # n /\ f # <<>> /\ i \in 2 .. n - 1
    <2>1. f # <<>>
      BY <1>2, <1>4
    <2>2. i # 1 /\ i # n
      BY <1>1, <1>2, <1>4, <2>1 DEF KnowsBoth
    <2> QED BY <1>2, <1>4, <2>1, <2>2
  <1>6. /\ c \in Seq(Insts) /\ Len(c) = n - 1 /\ n \in Nat
        /\ \A j \in 1 .. n - 1 : Was(i, j) \in 1..n /\ Was(i, j) # i /\ c[j] = f[Was(i, j)]
        /\ \A j \in 1..n : f[j] \in Insts \ deleted /\ f[j] \in ToSet(f)
        /\ \A j, k \in 1..n : j # k => f[j] # f[k]
        /\ \A x \in ToSet(c) : x \in ToSet(f) /\ x # f[i]
    BY <1>2, <1>4, GapSays, Zenon
  <1>7. Typed /\ bb \in BBs /\ bb \notin Copies /\ Copies' = Copies
    BY <1>1, <1>3, TypesFit DEF Typed, MayHold, Copies
  <1>8. /\ i - 1 \in 1..n /\ i + 1 \in 1..n
        /\ next[inst] = f[i + 1] /\ prev[inst] = f[i - 1]
    <2>1. i - 1 \in 1 .. n - 1 /\ i \in 1 .. n - 1 /\ (i - 1) + 1 = i /\ i - 1 \in 1..n /\ i + 1 \in 1..n
      BY <1>2, <1>5
    <2>2. \A j \in 1 .. n - 1 : next[f[j]] = f[j + 1] /\ prev[f[j + 1]] = f[j]
      BY <1>2 DEF Chain
    <2> QED BY <1>4, <2>1, <2>2
  <1>9. Chain(c)' /\ c # <<>> /\ c[1] = f[1] /\ c[Len(c)] = f[n]
    BY <1>2, <1>4, <1>5, <1>7, <1>8, GapChain
  <1> HIDE DEF c
  <1>10. KnowsBoth(c, h)'
    BY <1>1, <1>2, <1>5, <1>9 DEF KnowsBoth
  <1>11. \A d \in BBs : d # bb => first_inst'[d] = first_inst[d] /\ last_inst'[d] = last_inst[d]
    BY <1>7 DEF Typed
  <1>12. \A k \in Holders \ {h} : HeadOf(k)' = HeadOf(k) /\ TailOf(k)' = TailOf(k)
    <2> SUFFICES ASSUME NEW k \in Holders \ {h} PROVE HeadOf(k)' = HeadOf(k) /\ TailOf(k)' = TailOf(k)
      OBVIOUS
    <2>1. (k.kind = "graph" /\ k.id \in Graphs) \/ (k.kind = "copy" /\ k.id \in Copies)
      BY HolderOf
    <2>2. Copies \subseteq BBs
      BY <1>7 DEF Copies, Typed
    <2> QED BY <1>7, <1>11, <2>1, <2>2 DEF HeadOf, TailOf
  <1> DEFINE B == {bb}
  <1>13. \A d \in blocks' \ B : d \in blocks /\ Stays(f, c, d)
    <2>1. \A d \in blocks' \ B : d \in blocks /\ d \in BBs /\ d # bb
      BY <1>7 DEF Typed
    <2> QED BY <1>2, <1>4, <1>11, <2>1, GapStays DEF c
  <1>14. OthersAlone(f, c)
    <2>1. /\ \A x \in Insts : next'[x] = IF x = f[i - 1] THEN f[i + 1] ELSE next[x]
          /\ \A x \in Insts : prev'[x] = IF x = f[i + 1] THEN f[i - 1] ELSE prev[x]
      BY <1>7, <1>8 DEF Typed
    <2> QED BY <1>4, <1>6, <1>8, <2>1 DEF OthersAlone
  <1>15. Allowed(f, c, h)
    BY <1>6 DEF Allowed
  <1>16. PieceIn(c, bb)' \/ (Empty(bb)' /\ Without(c, bb)')
    <2>1. PICK a, d \in 1..n :
            /\ a <= d /\ first_inst[bb] = f[a] /\ last_inst[bb] = f[d]
            /\ \A j \in 1..n : parent[f[j]] = bb <=> a <= j /\ j <= d
      BY <1>3 DEF PieceIn
    <2>2. a <= i /\ i <= d
      BY <1>4, <2>1
    <2>3. f[a] # Null
      BY <1>6, <2>1, NullIsNothing
    <2>4. CASE a = d
      <3>0. first_inst[bb] # Null /\ first_inst[bb] = last_inst[bb] /\ i = a
        BY <1>2, <1>4, <2>1, <2>2, <2>3, <2>4
      <3>1. alone /\ i = a
        BY <3>0, Zenon
      <3>2. Empty(bb)'
        BY <1>7, <3>1 DEF Empty, Typed
      <3>3. ASSUME NEW x \in ToSet(c) PROVE parent'[x] # bb
        <4>1. PICK j \in 1..n : f[j] = x
          BY <1>2, <1>6, Entries
        <4>2. j # i
          BY <1>6, <4>1
        <4> QED BY <1>2, <2>1, <2>4, <3>1, <4>1, <4>2
      <3> QED BY <3>2, <3>3 DEF Without
    <2>5. CASE a # d
      <3>1. ~alone
        BY <1>6, <2>1, <2>5
      <3>2. /\ first_inst'[bb] = IF a = i THEN f[i + 1] ELSE f[a]
            /\ last_inst'[bb] = IF a # i /\ d = i THEN f[i - 1] ELSE f[d]
        <4>1. first_inst[bb] = inst <=> a = i
          BY <1>4, <1>6, <2>1
        <4>2. last_inst[bb] = inst <=> d = i
          BY <1>4, <1>6, <2>1
        <4> QED BY <1>7, <1>8, <2>1, <3>1, <4>1, <4>2 DEF Typed
      <3>3. a \in 1 .. n - 1 /\ d - 1 \in 1 .. n - 1 /\ a <= d - 1
        BY <1>2, <2>1, <2>5
      <3>4. c[a] = first_inst'[bb]
        <4>1. c[a] = f[Was(i, a)] /\ Was(i, a) = IF a = i THEN i + 1 ELSE a
          BY <1>2, <1>6, <2>2, <3>3 DEF Was
        <4> QED BY <3>2, <4>1
      <3>5. c[d - 1] = last_inst'[bb]
        <4>1. c[d - 1] = f[Was(i, d - 1)] /\ Was(i, d - 1) = (IF d = i THEN i - 1 ELSE d) /\ (d = i => a # i)
          BY <1>2, <1>6, <2>1, <2>2, <2>5, <3>3 DEF Was
        <4> QED BY <3>2, <4>1
      <3>6. \A j \in 1 .. n - 1 : parent'[c[j]] = bb <=> a <= j /\ j <= d - 1
        <4> SUFFICES ASSUME NEW j \in 1 .. n - 1 PROVE parent'[c[j]] = bb <=> a <= j /\ j <= d - 1
          OBVIOUS
        <4>1. parent'[c[j]] = bb <=> a <= Was(i, j) /\ Was(i, j) <= d
          BY <1>6, <2>1
        <4>2. (a <= Was(i, j) <=> a <= j) /\ (Was(i, j) <= d <=> j <= d - 1)
          BY <1>2, <2>1, <2>2 DEF Was
        <4> QED BY <4>1, <4>2
      <3>7. PieceIn(c, bb)'
        BY <1>6, <3>3, <3>4, <3>5, <3>6 DEF PieceIn
      <3> QED BY <3>7
    <2> QED BY <2>4, <2>5
  <1>17. \A d \in B : /\ \A k \in Holders \ {h} : Without(L[k], d)
                      /\ PieceIn(c, d)' \/ (Empty(d)' /\ Without(c, d)')
    BY <1>3, <1>16
  <1> HIDE DEF B
  <1>18. Becomes(L, h, c, B)
    <2>1. h \in Holders /\ c \in Seq(Insts) /\ Copies' = Copies /\ blocks \subseteq blocks' /\ Chain(c)'
      BY <1>1, <1>6, <1>7, <1>9
    <2> QED BY <1>10, <1>12, <1>13, <1>14, <1>15, <1>17, <2>1, Zenon DEF Becomes, f
  <1> QED BY <1>7, <1>18, ListEdited

\* A new block that holds nothing changes nothing.
LEMMA NewBlockIntact ==
    ASSUME IInv, IInv', Fresh, NEW L, LaidAs(L), NEW bb \in BBs, bb \notin blocks, blocks' = blocks \cup {bb},
           UNCHANGED <<deleted, graph_>>,
           \A x \in Insts : next'[x] = next[x] /\ prev'[x] = prev[x] /\ parent'[x] = parent[x],
           \A d \in BBs : first_inst'[d] = first_inst[d] /\ last_inst'[d] = last_inst[d],
           \A g \in Graphs : first'[g] = first[g] /\ last'[g] = last[g]
    PROVE  ListIntact'
  <1>1. PICK h \in Holders : h.kind = "graph"
    <2>1. 1 \in Graphs
      BY LayoutAssumption DEF Graphs
    <2> DEFINE h == [kind |-> "graph", id |-> 1]
    <2>2. h \in Holders /\ h.kind = "graph"
      BY <2>1 DEF Holders
    <2> QED BY <2>2
  <1>2. Typed /\ Copies' = Copies /\ Copies \subseteq BBs /\ blocks \subseteq BBs
    <2>1. graph_[bb] # Wild
      BY LayoutAssumption DEF Fresh, MaybeInst
    <2> QED BY <2>1, TypesFit DEF Copies, Typed
  <1> DEFINE f == L[h]
  <1>3. f \in Seq(Insts) /\ Chain(f) /\ KnowsBoth(f, h) /\ \A i \in 1..Len(f) : f[i] \in Insts /\ f[i] \in ToSet(f)
    <2>1. f \in Seq(Insts) /\ Chain(f) /\ KnowsBoth(f, h)
      BY DEF LaidAs
    <2> QED BY <2>1, Entries
  <1>4. \A k \in Holders : \A x \in ToSet(L[k]) : x \in Insts /\ parent[x] # bb /\ parent'[x] = parent[x]
    <2> SUFFICES ASSUME NEW k \in Holders, NEW x \in ToSet(L[k]) PROVE x \in Insts /\ parent[x] # bb
      OBVIOUS
    <2>1. L[k] \in Seq(Insts) /\ parent[x] \in blocks
      BY DEF LaidAs, MayHold
    <2> QED BY <2>1, Entries
  <1> HIDE DEF f
  <1>5. Chain(f)'
    <2>1. Len(f) \in Nat /\ (f # <<>> => 1 \in 1..Len(f) /\ Len(f) \in 1..Len(f))
      BY <1>3
    <2>2. \A i \in 1 .. Len(f) - 1 : i \in 1..Len(f) /\ i + 1 \in 1..Len(f)
      BY <2>1
    <2> QED BY <1>3, <2>1, <2>2 DEF Chain
  <1>6. \A k \in Holders : HeadOf(k)' = HeadOf(k) /\ TailOf(k)' = TailOf(k)
    <2> SUFFICES ASSUME NEW k \in Holders PROVE HeadOf(k)' = HeadOf(k) /\ TailOf(k)' = TailOf(k)
      OBVIOUS
    <2>1. (k.kind = "graph" /\ k.id \in Graphs) \/ (k.kind = "copy" /\ k.id \in Copies)
      BY HolderOf
    <2> QED BY <1>2, <2>1 DEF HeadOf, TailOf
  <1>7. KnowsBoth(f, h)'
    BY <1>3, <1>6 DEF KnowsBoth
  <1>8. OthersAlone(f, f) /\ Allowed(f, f, h)
    BY <1>4 DEF OthersAlone, Allowed, f
  <1> DEFINE B == {bb}
  <1>9. \A d \in blocks' \ B : d \in blocks /\ Stays(f, f, d)
    <2> SUFFICES ASSUME NEW d \in blocks' \ B PROVE d \in blocks /\ Stays(f, f, d)
      OBVIOUS
    <2>1. d \in blocks /\ d \in BBs
      BY <1>2
    <2>2. \A i \in 1..Len(f) : parent'[f[i]] = parent[f[i]]
      BY <1>3
    <2>3. first_inst'[d] = first_inst[d] /\ last_inst'[d] = last_inst[d]
      BY <2>1
    <2>4. Without(f, d) => Without(f, d)'
      BY <1>4 DEF Without, f
    <2>5. PieceIn(f, d) => PieceIn(f, d)'
      BY <2>2, <2>3 DEF PieceIn
    <2> QED BY <2>1, <2>3, <2>4, <2>5 DEF Stays
  <1>10. \A d \in B : /\ \A k \in Holders \ {h} : Without(L[k], d)
                      /\ PieceIn(f, d)' \/ (Empty(d)' /\ Without(f, d)')
    <2>1. Empty(bb)'
      BY DEF Empty, Fresh
    <2>2. \A k \in Holders : Without(L[k], bb)
      BY <1>4 DEF Without
    <2>3. Without(f, bb)'
      BY <1>4 DEF Without, f
    <2> QED BY <2>1, <2>2, <2>3
  <1> HIDE DEF B
  <1>11. Becomes(L, h, f, B)
    <2>1. blocks \subseteq blocks'
      OBVIOUS
    <2> QED BY <1>2, <1>3, <1>5, <1>6, <1>7, <1>8, <1>9, <1>10, <2>1, Zenon DEF Becomes, f
  <1> QED BY <1>2, <1>11, ListEdited

\* The rest of a chain, from one of its instructions on, is what is met from there.
LEMMA RestOfChain ==
    ASSUME Typed, NEW f, Chain(f), NEW i \in 1..Len(f)
    PROVE  \A x \in Insts : x \in ToSet(Follow(f[i])) <=> \E j \in i..Len(f) : x = f[j]
  <1> DEFINE n == Len(f)
             c == [k \in 1 .. n - i + 1 |-> f[i + k - 1]]
  <1>1. f \in Seq(Insts \ deleted) /\ n \in Nat /\ i \in 1..n /\ n - i + 1 \in Nat /\ n - i + 1 # 0
    BY DEF Chain
  <1>2. \A k \in 1 .. n - i + 1 : i + k - 1 \in 1..n /\ f[i + k - 1] \in Insts \ deleted
    BY <1>1
  <1>3. /\ c \in Seq(Insts \ deleted) /\ Len(c) = n - i + 1
        /\ \A k \in 1 .. n - i + 1 : c[k] = f[i + k - 1]
    BY <1>1, <1>2
  <1> HIDE DEF c
  <1>4. /\ \A j \in 1 .. n - 1 : next[f[j]] = f[j + 1]
        /\ \A j, k \in 1..n : j # k => f[j] # f[k]
        /\ next[f[n]] = Null
    <2>1. f # <<>>
      BY <1>1
    <2> QED BY <1>1, <2>1 DEF Chain, NoDuplicates
  <1> HIDE DEF n
  <1>5. c[1] = f[i] /\ c[Len(c)] = f[n] /\ c # <<>> /\ c \in Seq(Insts)
    BY <1>1, <1>3
  <1>6. NoDuplicates(c)
    <2>1. DOMAIN c = 1 .. n - i + 1
      BY <1>3
    <2>2. ASSUME NEW j \in 1 .. n - i + 1, NEW k \in 1 .. n - i + 1, j # k PROVE c[j] # c[k]
      <3>1. i + j - 1 # i + k - 1
        BY <1>1, <2>2
      <3> QED BY <1>2, <1>3, <1>4, <3>1
    <2> QED BY <2>1, <2>2 DEF NoDuplicates
  <1>7. Len(c) <= MaxInsts
    BY <1>5, <1>6, NotTooLong DEF Typed
  <1>8. \A k \in 1 .. Len(c) - 1 : c[k + 1] = next[c[k]]
    <2> SUFFICES ASSUME NEW k \in 1 .. Len(c) - 1 PROVE c[k + 1] = next[c[k]]
      OBVIOUS
    <2>1. k \in 1 .. n - i + 1 /\ k + 1 \in 1 .. n - i + 1
      BY <1>1, <1>3
    <2>2. PICK j \in 1 .. n - 1 : j = i + k - 1 /\ j + 1 = i + (k + 1) - 1
      BY <1>1, <1>3
    <2> QED BY <1>3, <1>4, <2>1, <2>2
  <1>9. ~Valid(next[c[Len(c)]])
    BY <1>4, <1>5, NullIsNothing
  <1>10. Follow(f[i]) = c
    BY <1>3, <1>5, <1>7, <1>8, <1>9, FollowChain DEF Typed
  <1>11. ASSUME NEW x \in Insts PROVE x \in ToSet(c) <=> \E j \in i..n : x = f[j]
    <2>1. x \in ToSet(c) <=> \E k \in 1..Len(c) : c[k] = x
      BY <1>5, Entries
    <2>2. ASSUME NEW k \in 1..Len(c) PROVE i + k - 1 \in i..n /\ c[k] = f[i + k - 1]
      BY <1>1, <1>3
    <2>3. ASSUME NEW j \in i..n PROVE j - i + 1 \in 1..Len(c) /\ c[j - i + 1] = f[j]
      <3>1. j - i + 1 \in 1 .. n - i + 1 /\ i + (j - i + 1) - 1 = j
        BY <1>1
      <3> QED BY <1>3, <3>1
    <2> QED BY <2>1, <2>2, <2>3
  <1> QED BY <1>10, <1>11 DEF n

\* SplitBBInTwo in the last block of its list.
LEMMA SplitIntact ==
    ASSUME IInv, IInv', Fresh, NEW L, LaidAs(L), NEW g \in Graphs, NEW h, h = [kind |-> "graph", id |-> g],
           NEW inst \in ToSet(L[h]), NEW bb, bb = parent[inst], last_inst[bb] # inst, next[last_inst[bb]] = Null,
           NEW new_bb \in BBs, new_bb \notin blocks, blocks' = blocks \cup {new_bb},
           first_inst' = [first_inst EXCEPT ![new_bb] = next[inst]],
           last_inst' = [last_inst EXCEPT ![new_bb] = last_inst[bb], ![bb] = inst],
           parent' = [x \in Insts |-> IF x \in ToSet(Follow(next[inst])) THEN new_bb ELSE parent[x]],
           UNCHANGED <<next, prev, deleted, graph_, first, last>>
    PROVE  ListIntact'
  <1> DEFINE f == L[h]
             n == Len(f)
  <1>1. h \in Holders /\ HeadOf(h) = first[g] /\ TailOf(h) = last[g] /\ HeadOf(h)' = first[g] /\ TailOf(h)' = last[g]
        /\ h.kind = "graph"
    BY DEF Holders, HeadOf, TailOf
  <1>2. f \in Seq(Insts) /\ Chain(f) /\ KnowsBoth(f, h) /\ n \in Nat
    BY <1>1 DEF LaidAs
  <1>3. bb \in blocks /\ MayHold(h, bb) /\ PieceIn(f, bb) /\ \A k \in Holders \ {h} : Without(L[k], bb)
    BY <1>1, PieceOfMember
  <1>4. Typed /\ bb \in BBs /\ bb \notin Copies /\ bb # new_bb /\ Copies \subseteq blocks /\ blocks \subseteq BBs
    BY <1>1, <1>3, TypesFit DEF Typed, MayHold, Copies
  <1>5. Copies' = Copies
    <2>1. graph_[new_bb] # Wild
      BY LayoutAssumption DEF Fresh, MaybeInst
    <2> QED BY <2>1 DEF Copies
  <1>6. \A k \in Holders : \A x \in ToSet(L[k]) : x \in Insts /\ parent[x] # new_bb
    <2> SUFFICES ASSUME NEW k \in Holders, NEW x \in ToSet(L[k]) PROVE x \in Insts /\ parent[x] # new_bb
      OBVIOUS
    <2>1. L[k] \in Seq(Insts) /\ parent[x] \in blocks
      BY DEF LaidAs, MayHold
    <2> QED BY <2>1, Entries
  <1>7. \A x \in ToSet(f) : MayHold(h, parent[x])
    BY <1>1 DEF LaidAs
  <1> HIDE DEF f
  <1>8. PICK i \in 1..n : f[i] = inst
    BY <1>2, Entries DEF f
  <1>9. /\ \A j \in 1..n : f[j] \in Insts /\ f[j] \in ToSet(f)
        /\ \A j, k \in 1..n : j # k => f[j] # f[k]
        /\ \A j \in 1 .. n - 1 : next[f[j]] = f[j + 1]
        /\ \A x \in ToSet(f) : x \in Insts /\ \E j \in 1..n : f[j] = x
    <2>1. DOMAIN f = 1..n
      BY <1>2
    <2> QED BY <1>2, <2>1, Entries DEF Chain, NoDuplicates
  <1>10. PICK a \in 1..n :
            /\ first_inst[bb] = f[a] /\ last_inst[bb] = f[n] /\ a <= i /\ i < n
            /\ \A j \in 1..n : parent[f[j]] = bb <=> a <= j
    <2>1. PICK a, d \in 1..n :
            /\ a <= d /\ first_inst[bb] = f[a] /\ last_inst[bb] = f[d]
            /\ \A j \in 1..n : parent[f[j]] = bb <=> a <= j /\ j <= d
      BY <1>3 DEF PieceIn
    <2>2. a <= i /\ i <= d /\ i # d
      BY <1>8, <2>1
    <2>3. d = n
      <3>1. CASE d # n
        <4>1. d \in 1 .. n - 1 /\ d + 1 \in 1..n
          BY <1>2, <3>1
        <4>2. next[f[d]] \in Insts
          BY <1>9, <4>1
        <4> QED BY <2>1, <4>2, NullIsNothing
      <3> QED BY <3>1
    <2> QED BY <1>2, <2>1, <2>2, <2>3
  <1>11. i + 1 \in 1..n /\ next[inst] = f[i + 1]
    <2>1. i \in 1 .. n - 1 /\ i + 1 \in 1..n
      BY <1>2, <1>10
    <2> QED BY <1>8, <1>9, <2>1
  <1>12. \A x \in Insts : x \in ToSet(Follow(f[i + 1])) <=> \E j \in i + 1 .. n : x = f[j]
    BY <1>2, <1>4, <1>11, RestOfChain
  <1>13. \A j \in 1..n : parent'[f[j]] = IF i < j THEN new_bb ELSE parent[f[j]]
    <2> SUFFICES ASSUME NEW j \in 1..n PROVE parent'[f[j]] = IF i < j THEN new_bb ELSE parent[f[j]]
      OBVIOUS
    <2>1. f[j] \in ToSet(Follow(f[i + 1])) <=> \E k \in i + 1 .. n : f[j] = f[k]
      BY <1>9, <1>12
    <2>2. (\E k \in i + 1 .. n : f[j] = f[k]) <=> i < j
      <3>1. \A k \in i + 1 .. n : k \in 1..n /\ (k = j => i < j)
        BY <1>2
      <3>2. i < j => j \in i + 1 .. n
        BY <1>2
      <3> QED BY <1>9, <3>1, <3>2
    <2> QED BY <1>9, <1>11, <2>1, <2>2
  <1>14. \A x \in Insts : x \notin ToSet(f) => parent'[x] = parent[x]
    <2>1. \A j \in i + 1 .. n : j \in 1..n
      BY <1>2
    <2> QED BY <1>9, <1>11, <1>12, <2>1
  <1>15. Chain(f)'
    BY <1>2 DEF Chain
  <1>16. KnowsBoth(f, h)'
    BY <1>1, <1>2 DEF KnowsBoth
  <1>17. /\ first_inst'[bb] = f[a] /\ last_inst'[bb] = f[i]
         /\ first_inst'[new_bb] = f[i + 1] /\ last_inst'[new_bb] = f[n]
         /\ \A d \in BBs : d # bb /\ d # new_bb => first_inst'[d] = first_inst[d] /\ last_inst'[d] = last_inst[d]
    BY <1>4, <1>8, <1>10, <1>11 DEF Typed
  <1>18. \A k \in Holders \ {h} : HeadOf(k)' = HeadOf(k) /\ TailOf(k)' = TailOf(k)
    <2> SUFFICES ASSUME NEW k \in Holders \ {h} PROVE HeadOf(k)' = HeadOf(k) /\ TailOf(k)' = TailOf(k)
      OBVIOUS
    <2>1. (k.kind = "graph" /\ k.id \in Graphs) \/ (k.kind = "copy" /\ k.id \in Copies)
      BY HolderOf
    <2> QED BY <1>4, <1>17, <2>1 DEF HeadOf, TailOf
  <1>19. OthersAlone(f, f)
    BY <1>14 DEF OthersAlone
  <1>20. Allowed(f, f, h)
    <2>1. MayHold(h, new_bb)'
      BY <1>1, <1>4, <1>5 DEF MayHold
    <2> QED BY <1>9, <1>13, <2>1 DEF Allowed
  <1> DEFINE B == {bb, new_bb}
  <1>21. \A d \in blocks' \ B : d \in blocks /\ Stays(f, f, d)
    <2> SUFFICES ASSUME NEW d \in blocks' \ B PROVE d \in blocks /\ Stays(f, f, d)
      OBVIOUS
    <2>1. d \in blocks /\ d \in BBs /\ d # bb /\ d # new_bb
      BY <1>4
    <2>2. first_inst'[d] = first_inst[d] /\ last_inst'[d] = last_inst[d]
      BY <1>17, <2>1
    <2>3. \A j \in 1..n : parent'[f[j]] = d <=> parent[f[j]] = d
      <3>1. \A j \in 1..n : i < j => parent[f[j]] = bb
        BY <1>2, <1>10
      <3> QED BY <1>13, <2>1, <3>1
    <2>4. Without(f, d) => Without(f, d)'
      BY <1>9, <2>3 DEF Without
    <2>5. PieceIn(f, d) => PieceIn(f, d)'
      BY <2>2, <2>3 DEF PieceIn
    <2> QED BY <2>1, <2>2, <2>4, <2>5 DEF Stays
  <1>22. PieceIn(f, bb)' /\ PieceIn(f, new_bb)'
    <2>1. \A j \in 1..n : (parent'[f[j]] = bb <=> a <= j /\ j <= i) /\ (parent'[f[j]] = new_bb <=> i + 1 <= j /\ j <= n)
      <3> SUFFICES ASSUME NEW j \in 1..n
                   PROVE (parent'[f[j]] = bb <=> a <= j /\ j <= i) /\ (parent'[f[j]] = new_bb <=> i + 1 <= j /\ j <= n)
        OBVIOUS
      <3>1. parent[f[j]] # new_bb
        BY <1>1, <1>6, <1>9 DEF f
      <3> QED BY <1>2, <1>4, <1>10, <1>13, <3>1
    <2>2. n \in 1..n /\ i + 1 <= n
      BY <1>2, <1>10
    <2> QED BY <1>10, <1>11, <1>17, <2>1, <2>2 DEF PieceIn
  <1>23. \A d \in B : /\ \A k \in Holders \ {h} : Without(L[k], d)
                      /\ PieceIn(f, d)' \/ (Empty(d)' /\ Without(f, d)')
    <2>1. \A k \in Holders : Without(L[k], new_bb)
      BY <1>6 DEF Without
    <2> QED BY <1>3, <1>22, <2>1
  <1> HIDE DEF B
  <1>24. Becomes(L, h, f, B)
    <2>1. blocks \subseteq blocks'
      OBVIOUS
    <2> QED BY <1>1, <1>2, <1>5, <1>15, <1>16, <1>18, <1>19, <1>20, <1>21, <1>23, <2>1, Zenon DEF Becomes, f
  <1> QED BY <1>4, <1>24, ListEdited

\* The writes of AddBBToBegin with a block of one instruction.
PutToFront(g, bb, inst) ==
    /\ parent' = [x \in Insts |-> IF x = inst THEN bb ELSE parent[x]] /\ blocks' = blocks \cup {bb}
    /\ first_inst' = [first_inst EXCEPT ![bb] = inst] /\ last_inst' = [last_inst EXCEPT ![bb] = inst]
    /\ first' = [first EXCEPT ![g] = inst]
    /\ first[g] = Null => last' = [last EXCEPT ![g] = inst] /\ UNCHANGED <<next, prev>>
    /\ first[g] # Null =>
          last' = last /\ prev' = [prev EXCEPT ![first[g]] = inst] /\ next' = [next EXCEPT ![inst] = first[g]]
    /\ UNCHANGED <<deleted, graph_>>

\* What AddBBToBegin does with a block of one instruction.
LEMMA AddToBeginIntact ==
    ASSUME IInv, IInv', Fresh, NEW L, LaidAs(L), NEW g \in Graphs, NEW h, h = [kind |-> "graph", id |-> g],
           NEW bb \in BBs, bb \notin blocks, NEW inst \in Insts, parent[inst] = Null,
           next[inst] = Null, prev[inst] = Null,
           PutToFront(g, bb, inst)
    PROVE  ListIntact'
  <1> USE DEF PutToFront
  <1> DEFINE f == L[h]
             n == Len(f)
  <1>1. h \in Holders /\ HeadOf(h) = first[g] /\ TailOf(h) = last[g] /\ HeadOf(h)' = first'[g] /\ TailOf(h)' = last'[g]
        /\ h.kind = "graph"
    BY DEF Holders, HeadOf, TailOf
  <1>2. f \in Seq(Insts) /\ Chain(f) /\ KnowsBoth(f, h) /\ n \in Nat
    BY <1>1 DEF LaidAs
  <1>3. Typed /\ Copies \subseteq blocks /\ blocks \subseteq BBs
    BY TypesFit DEF Typed, Copies
  <1>4. Copies' = Copies
    <2>1. graph_[bb] # Wild
      BY LayoutAssumption DEF Fresh, MaybeInst
    <2> QED BY <2>1 DEF Copies
  <1>5. \A k \in Holders : \A x \in ToSet(L[k]) : x \in Insts /\ parent[x] # bb
    <2> SUFFICES ASSUME NEW k \in Holders, NEW x \in ToSet(L[k]) PROVE x \in Insts /\ parent[x] # bb
      OBVIOUS
    <2>1. L[k] \in Seq(Insts) /\ parent[x] \in blocks
      BY DEF LaidAs, MayHold
    <2> QED BY <2>1, Entries
  <1>6. inst \notin ToSet(f)
    BY <1>1, <1>3, NewInNone
  <1>7. \A x \in ToSet(f) : x \in Insts /\ parent[x] # bb
    BY <1>1, <1>5
  <1> HIDE DEF f
  <1>8. PICK c \in Seq(Insts) : /\ Len(c) = n + 1 /\ c[1] = inst
                                /\ \A i \in 1..n : c[i + 1] = f[i]
                                /\ \A i \in 2..Len(c) : c[i] = f[i - 1]
                                /\ ToSet(c) = ToSet(f) \cup {inst}
    BY <1>2, PutInFront
  <1>9. /\ f = <<>> <=> first[g] = Null
        /\ f # <<>> => f[1] = first[g] /\ f[n] = last[g] /\ first[g] \in ToSet(f)
        /\ \A j \in 1..n : f[j] \in Insts /\ f[j] \in ToSet(f)
    <2>1. \A j \in 1..n : f[j] \in Insts /\ f[j] \in ToSet(f)
      BY <1>2, Entries
    <2>2. f # <<>> => 1 \in 1..n
      BY <1>2
    <2> QED BY <1>1, <1>2, <2>1, <2>2, NullIsNothing DEF KnowsBoth
  <1>10. inst \notin deleted
    BY DEF Fresh
  <1>11. Chain(c)'
    <2>1. CASE f = <<>>
      <3>1. n = 0 /\ next' = next /\ prev' = prev
        BY <1>9, <2>1
      <3>2. Len(c) = 1 /\ c[1] = inst /\ c[Len(c)] = inst
        BY <1>8, <3>1
      <3>3. \A i \in 1..Len(c) : c[i] = inst /\ i = 1
        BY <3>2
      <3>4. c \in Seq(Insts \ deleted) /\ NoDuplicates(c)
        <4>1. c \in Seq(Insts) /\ DOMAIN c = 1..Len(c) /\ \A i \in 1..Len(c) : c[i] \in Insts \ deleted
          BY <1>8, <1>10, <3>3
        <4> QED BY <3>3, <4>1 DEF NoDuplicates
      <3> QED BY <3>1, <3>2, <3>4 DEF Chain
    <2>2. CASE f # <<>>
      <3>1. next' = [next EXCEPT ![inst] = f[1]] /\ prev' = [prev EXCEPT ![f[1]] = inst]
        BY <1>9, <2>2
      <3> QED BY <1>2, <1>3, <1>6, <1>8, <1>10, <2>2, <3>1, FrontChain
    <2> QED BY <2>1, <2>2
  <1>12. KnowsBoth(c, h)'
    <2>1. first'[g] = inst /\ c # <<>> /\ c[1] = inst
      BY <1>3, <1>8 DEF Typed
    <2>2. last'[g] = c[Len(c)]
      <3>1. CASE f = <<>>
        BY <1>3, <1>8, <1>9, <3>1 DEF Typed
      <3>2. CASE f # <<>>
        <4>1. n \in 1..n /\ c[n + 1] = f[n]
          BY <1>2, <1>8, <3>2
        <4> QED BY <1>8, <1>9, <3>2, <4>1
      <3> QED BY <3>1, <3>2
    <2> QED BY <1>1, <2>1, <2>2 DEF KnowsBoth
  <1>13. /\ first_inst'[bb] = inst /\ last_inst'[bb] = inst /\ parent'[inst] = bb
         /\ \A d \in BBs : d # bb => first_inst'[d] = first_inst[d] /\ last_inst'[d] = last_inst[d]
         /\ \A x \in Insts : x # inst => parent'[x] = parent[x]
    BY <1>3 DEF Typed
  <1>14. \A k \in Holders \ {h} : HeadOf(k)' = HeadOf(k) /\ TailOf(k)' = TailOf(k)
    <2> SUFFICES ASSUME NEW k \in Holders \ {h} PROVE HeadOf(k)' = HeadOf(k) /\ TailOf(k)' = TailOf(k)
      OBVIOUS
    <2>1. (k.kind = "graph" /\ k.id \in Graphs /\ k.id # g) \/ (k.kind = "copy" /\ k.id \in Copies)
      BY <1>1, HolderOf
    <2>2. \A d \in Graphs : d # g => first'[d] = first[d] /\ last'[d] = last[d]
      BY <1>3 DEF Typed
    <2> QED BY <1>3, <1>13, <2>1, <2>2 DEF HeadOf, TailOf
  <1>15. OthersAlone(f, c)
    <2>1. \A x \in Insts : x # inst /\ x \notin ToSet(f) => next'[x] = next[x] /\ prev'[x] = prev[x]
      BY <1>3, <1>9 DEF Typed
    <2> QED BY <1>8, <1>13, <2>1 DEF OthersAlone
  <1>16. Allowed(f, c, h)
    <2>1. MayHold(h, bb)'
      BY <1>1, <1>3, <1>4 DEF MayHold
    <2> QED BY <1>6, <1>7, <1>8, <1>13, <2>1 DEF Allowed
  <1> DEFINE B == {bb}
  <1> HIDE DEF PutToFront
  <1>17. Shifted(f, c, bb, 1, n, 1)
    <2>1. \A i \in 1..n : c[i + 1] = f[i] /\ parent'[f[i]] = parent[f[i]]
      BY <1>6, <1>8, <1>9, <1>13
    <2>2. \A j \in 1..Len(c) : j \in 1 + 1 .. n + 1 \/ parent'[c[j]] = bb
      BY <1>2, <1>8, <1>13
    <2> QED BY <1>2, <1>8, <2>1, <2>2 DEF Shifted
  <1>18. \A d \in blocks' \ B : d \in blocks /\ Stays(f, c, d)
    <2>1. \A d \in blocks' \ B : d \in blocks /\ d \in BBs /\ d # bb
      BY <1>3 DEF PutToFront
    <2> QED BY <1>13, <1>17, <2>1, OthersStay
  <1>19. PieceIn(c, bb)'
    <2>1. \A j \in 1..Len(c) : parent'[c[j]] = bb <=> 1 <= j /\ j <= 1
      <3> SUFFICES ASSUME NEW j \in 1..Len(c) PROVE parent'[c[j]] = bb <=> 1 <= j /\ j <= 1
        OBVIOUS
      <3>1. CASE j = 1
        BY <1>8, <1>13, <3>1
      <3>2. CASE j # 1
        <4>1. j - 1 \in 1..n /\ c[j] = f[j - 1]
          BY <1>2, <1>8, <3>2
        <4>2. f[j - 1] \in ToSet(f) /\ f[j - 1] # inst
          BY <1>6, <1>9, <4>1
        <4>3. parent'[c[j]] # bb
          BY <1>7, <1>13, <4>1, <4>2
        <4> QED BY <3>2, <4>3
      <3> QED BY <3>1, <3>2
    <2>2. 1 \in 1..Len(c)
      BY <1>2, <1>8
    <2> QED BY <1>8, <1>13, <2>1, <2>2 DEF PieceIn
  <1>20. \A d \in B : /\ \A k \in Holders \ {h} : Without(L[k], d)
                      /\ PieceIn(c, d)' \/ (Empty(d)' /\ Without(c, d)')
    <2>1. \A k \in Holders : Without(L[k], bb)
      BY <1>5 DEF Without
    <2> QED BY <1>19, <2>1
  <1> HIDE DEF B
  <1>21. Becomes(L, h, c, B)
    <2>1. blocks \subseteq blocks'
      BY DEF PutToFront
    <2> QED BY <1>1, <1>4, <1>8, <1>11, <1>12, <1>14, <1>15, <1>16, <1>18, <1>20, <2>1, Zenon DEF Becomes, f
  <1> QED BY <1>3, <1>21, ListEdited

\* What the copy constructor does: m new instructions, linked one to the other,
\* are the list of the new block.
LEMMA CopyIntact ==
    ASSUME IInv, IInv', Fresh, NEW L, LaidAs(L), NEW new_bb \in BBs, new_bb \notin blocks,
           NEW m \in Nat, NEW made \in Nat, made + m <= MaxInsts, \A x \in Insts : parent[x] # Null <=> x <= made,
           \A x \in Insts : x \in made + 1 .. made + m =>
              /\ parent'[x] = new_bb
              /\ next'[x] = IF x = made + m THEN Null ELSE x + 1
              /\ prev'[x] = IF x = made + 1 THEN Null ELSE x - 1,
           \A x \in Insts : x <= made => parent'[x] = parent[x] /\ next'[x] = next[x] /\ prev'[x] = prev[x],
           blocks' = blocks \cup {new_bb}, graph_'[new_bb] = Wild,
           first_inst'[new_bb] = IF m = 0 THEN Null ELSE made + 1,
           last_inst'[new_bb] = IF m = 0 THEN Null ELSE made + m,
           \A b \in BBs : b # new_bb =>
              first_inst'[b] = first_inst[b] /\ last_inst'[b] = last_inst[b] /\ graph_'[b] = graph_[b],
           UNCHANGED <<deleted, first, last>>
    PROVE  ListIntact'
  <1> DEFINE c == [i \in 1..m |-> made + i]
             mine == [kind |-> "copy", id |-> new_bb]
  <1>1. Typed /\ Copies \subseteq blocks /\ blocks \subseteq BBs
    BY TypesFit DEF Typed, Copies
  <1>2. /\ c \in Seq(Insts) /\ Len(c) = m /\ DOMAIN c = 1..m
        /\ \A i \in 1..m : c[i] = made + i /\ c[i] \in Insts /\ parent[c[i]] = Null /\ c[i] \notin deleted
    <2>1. \A i \in 1..m : made + i \in Insts /\ ~(made + i <= made)
      BY <1>1 DEF Insts, Typed
    <2>2. \A i \in 1..m : parent[made + i] = Null /\ made + i \notin deleted
      BY <2>1 DEF Fresh
    <2> QED BY <2>1, <2>2
  <1>3. Copies' = Copies \cup {new_bb}
    BY <1>1 DEF Copies
  <1>4. Holders' = Holders \cup {mine} /\ mine \notin Holders
    BY <1>1, <1>3 DEF Holders
  <1>5a. PICK L2 : L2 = [k \in Holders \cup {mine} |-> IF k = mine THEN c ELSE L[k]]
    OBVIOUS
  <1>5. /\ \A k \in Holders : L2[k] = L[k] /\ k # mine
        /\ L2[mine] = c /\ L2 \in [Holders' -> Seq(Insts)]
    BY <1>2, <1>4, <1>5a DEF LaidAs
  <1>6. mine.kind = "copy" /\ mine.id = new_bb
    OBVIOUS
  <1> HIDE DEF c, mine
  <1>7. \A x \in ToSet(c) : x \in Insts /\ parent[x] = Null /\ parent'[x] = new_bb
    <2>1. \A x \in ToSet(c) : \E i \in 1..m : c[i] = x
      BY <1>2, Entries
    <2>2. \A i \in 1..m : c[i] \in made + 1 .. made + m
      BY <1>2
    <2> QED BY <1>2, <2>1, <2>2
  <1>8. \A k \in Holders : \A x \in ToSet(L[k]) :
          /\ x \in Insts /\ parent[x] \in blocks /\ parent[x] # Null
          /\ parent'[x] = parent[x] /\ next'[x] = next[x] /\ prev'[x] = prev[x]
    <2> SUFFICES ASSUME NEW k \in Holders, NEW x \in ToSet(L[k])
                 PROVE  x \in Insts /\ parent[x] \in blocks /\ parent[x] # Null
      OBVIOUS
    <2>1. L[k] \in Seq(Insts) /\ parent[x] \in blocks
      BY DEF LaidAs, MayHold
    <2> QED BY <1>1, <2>1, Entries, NullIsNothing
  <1>9. \A k \in Holders : HeadOf(k)' = HeadOf(k) /\ TailOf(k)' = TailOf(k)
    <2> SUFFICES ASSUME NEW k \in Holders PROVE HeadOf(k)' = HeadOf(k) /\ TailOf(k)' = TailOf(k)
      OBVIOUS
    <2>1. (k.kind = "graph" /\ k.id \in Graphs) \/ (k.kind = "copy" /\ k.id \in Copies)
      BY HolderOf
    <2> QED BY <1>1, <2>1 DEF HeadOf, TailOf
  <1>10. ASSUME NEW k \in Holders
         PROVE  Chain(L[k])' /\ KnowsBoth(L[k], k)' /\ \A x \in ToSet(L[k]) : MayHold(k, parent[x])'
    <2>1. Chain(L[k]) /\ KnowsBoth(L[k], k) /\ L[k] \in Seq(Insts) /\ Len(L[k]) \in Nat
      BY DEF LaidAs
    <2>2. \A i \in 1..Len(L[k]) : L[k][i] \in ToSet(L[k])
      BY <2>1, Entries
    <2>3. \A i \in 1 .. Len(L[k]) - 1 : i \in 1..Len(L[k]) /\ i + 1 \in 1..Len(L[k])
      BY <2>1
    <2>4. \A i \in 1..Len(L[k]) : next'[L[k][i]] = next[L[k][i]] /\ prev'[L[k][i]] = prev[L[k][i]]
      BY <1>8, <2>2
    <2>5. L[k] # <<>> => 1 \in 1..Len(L[k]) /\ Len(L[k]) \in 1..Len(L[k])
      BY <2>1
    <2>6. Chain(L[k])'
      BY <2>1, <2>3, <2>4, <2>5 DEF Chain
    <2>7. KnowsBoth(L[k], k)'
      BY <1>9, <2>1 DEF KnowsBoth
    <2>8. \A x \in ToSet(L[k]) : MayHold(k, parent[x])'
      <3>1. \A x \in ToSet(L[k]) : MayHold(k, parent[x])
        BY DEF LaidAs
      <3>2. \A b \in blocks : MayHold(k, b) => MayHold(k, b)'
        BY <1>3 DEF MayHold
      <3>3. \A x \in ToSet(L[k]) : parent[x] \in blocks /\ parent'[x] = parent[x]
        BY <1>8
      <3> QED BY <1>3, <3>1, <3>2, <3>3 DEF MayHold
    <2> QED BY <2>6, <2>7, <2>8
  <1>11. Chain(c)' /\ KnowsBoth(c, mine)' /\ \A x \in ToSet(c) : MayHold(mine, parent[x])'
    <2>1. \A i \in 1..m : /\ next'[c[i]] = IF i = m THEN Null ELSE made + i + 1
                          /\ prev'[c[i]] = IF i = 1 THEN Null ELSE made + i - 1
      <3> SUFFICES ASSUME NEW i \in 1..m
                   PROVE  /\ next'[c[i]] = IF i = m THEN Null ELSE made + i + 1
                          /\ prev'[c[i]] = IF i = 1 THEN Null ELSE made + i - 1
        OBVIOUS
      <3>1. c[i] = made + i /\ c[i] \in Insts /\ c[i] \in made + 1 .. made + m
            /\ (c[i] = made + m <=> i = m) /\ (c[i] = made + 1 <=> i = 1)
        BY <1>2
      <3> QED BY <3>1
    <2>2. \A i \in 1 .. m - 1 : next'[c[i]] = c[i + 1] /\ prev'[c[i + 1]] = c[i]
      <3> SUFFICES ASSUME NEW i \in 1 .. m - 1 PROVE next'[c[i]] = c[i + 1] /\ prev'[c[i + 1]] = c[i]
        OBVIOUS
      <3>1. i \in 1..m /\ i + 1 \in 1..m /\ i # m /\ i + 1 # 1 /\ made + (i + 1) - 1 = made + i
        OBVIOUS
      <3> QED BY <1>2, <2>1, <3>1
    <2>3. c # <<>> => m # 0 /\ 1 \in 1..m /\ m \in 1..m /\ c[1] = made + 1 /\ c[m] = made + m
      BY <1>2
    <2>4. c = <<>> => m = 0
      BY <1>2
    <2>5. c \in Seq(Insts \ deleted) /\ NoDuplicates(c)
      BY <1>2 DEF NoDuplicates
    <2>6. Chain(c)'
      BY <1>2, <2>1, <2>2, <2>3, <2>5 DEF Chain
    <2>7. HeadOf(mine)' = first_inst'[new_bb] /\ TailOf(mine)' = last_inst'[new_bb]
      BY <1>6 DEF HeadOf, TailOf
    <2>8. KnowsBoth(c, mine)'
      BY <1>2, <2>3, <2>4, <2>7 DEF KnowsBoth
    <2>9. \A x \in ToSet(c) : MayHold(mine, parent[x])'
      BY <1>6, <1>7 DEF MayHold
    <2> QED BY <2>6, <2>8, <2>9
  <1>12. \A k, j \in Holders' : k # j => Apart(L2[k], L2[j])
    <2>1. \A k, j \in Holders : k # j => Apart(L[k], L[j])
      BY DEF LaidAs
    <2>2. \A k \in Holders : Apart(L[k], c) /\ Apart(c, L[k])
      BY <1>7, <1>8 DEF Apart
    <2> QED BY <1>4, <1>5, <2>1, <2>2
  <1>13. \A d \in blocks : Without(c, d)'
    BY <1>7 DEF Without
  <1>14. ASSUME NEW d, NEW k \in Holders, Without(L[k], d) PROVE Without(L2[k], d)'
    BY <1>5, <1>8, <1>14 DEF Without
  <1>15. ASSUME NEW d \in blocks PROVE Placed(L2, d)'
    <2>1. first_inst'[d] = first_inst[d] /\ last_inst'[d] = last_inst[d]
      BY <1>1
    <2>2. CASE Empty(d) /\ \A h \in Holders : Without(L[h], d)
      <3>1. Empty(d)'
        BY <2>1, <2>2 DEF Empty
      <3>2. \A h \in Holders' : Without(L2[h], d)'
        BY <1>4, <1>5, <1>13, <1>14, <2>2
      <3> QED BY <3>1, <3>2 DEF Placed
    <2>3. ASSUME NEW h \in Holders, PieceIn(L[h], d), \A k \in Holders \ {h} : Without(L[k], d)
          PROVE  Placed(L2, d)'
      <3>1. \A i \in 1..Len(L[h]) : parent'[L[h][i]] = parent[L[h][i]]
        <4>1. L[h] \in Seq(Insts)
          BY DEF LaidAs
        <4> QED BY <1>8, <4>1, Entries
      <3>2. PieceIn(L2[h], d)'
        <4>1. PICK a, b \in 1..Len(L[h]) :
                /\ a <= b /\ first_inst[d] = L[h][a] /\ last_inst[d] = L[h][b]
                /\ \A i \in 1..Len(L[h]) : parent[L[h][i]] = d <=> a <= i /\ i <= b
          BY <2>3, Zenon DEF PieceIn
        <4>2. \A i \in 1..Len(L[h]) : parent'[L[h][i]] = d <=> a <= i /\ i <= b
          BY <3>1, <4>1
        <4>3. first_inst'[d] = L[h][a] /\ last_inst'[d] = L[h][b]
          BY <2>1, <4>1
        <4>4. PieceIn(L[h], d)'
          BY <4>1, <4>2, <4>3, Zenon DEF PieceIn
        <4> QED BY <1>5, <4>4
      <3>3. \A k \in Holders' \ {h} : Without(L2[k], d)'
        BY <1>4, <1>5, <1>13, <1>14, <2>3
      <3> QED BY <1>4, <3>2, <3>3 DEF Placed
    <2>4. Placed(L, d)
      BY DEF LaidAs
    <2> QED BY <2>2, <2>3, <2>4 DEF Placed
  <1>16. Placed(L2, new_bb)'
    <2>1. \A k \in Holders : Without(L2[k], new_bb)'
      BY <1>5, <1>8 DEF Without
    <2>2. CASE m = 0
      <3>1. Empty(new_bb)'
        BY <2>2 DEF Empty
      <3>2. Without(c, new_bb)'
        <4>1. \A x \in ToSet(c) : \E i \in 1..m : c[i] = x
          BY <1>2, Entries
        <4> QED BY <2>2, <4>1 DEF Without
      <3>3. \A k \in Holders' : Without(L2[k], new_bb)'
        BY <1>4, <1>5, <2>1, <3>2
      <3> QED BY <3>1, <3>3 DEF Placed
    <2>3. CASE m # 0
      <3>1. 1 \in 1..m /\ m \in 1..m /\ 1 <= m
        BY <2>3
      <3>2. \A i \in 1..m : parent'[c[i]] = new_bb
        BY <1>2, <1>7, Entries
      <3>3. first_inst'[new_bb] = c[1] /\ last_inst'[new_bb] = c[m]
        BY <1>2, <2>3, <3>1
      <3>4. \A i \in 1..Len(c) : parent'[c[i]] = new_bb <=> 1 <= i /\ i <= m
        BY <1>2, <3>2
      <3>5. PieceIn(c, new_bb)'
        BY <1>2, <3>1, <3>3, <3>4 DEF PieceIn
      <3>6. mine \in Holders' /\ PieceIn(L2[mine], new_bb)' /\ \A k \in Holders' \ {mine} : Without(L2[k], new_bb)'
        BY <1>4, <1>5, <2>1, <3>5
      <3> QED BY <3>6 DEF Placed
    <2> QED BY <2>2, <2>3
  <1>17. LaidAs(L2)'
    <2>1. \A k \in Holders' : /\ Chain(L2[k])' /\ KnowsBoth(L2[k], k)'
                              /\ \A x \in ToSet(L2[k]) : MayHold(k, parent[x])'
      BY <1>4, <1>5, <1>10, <1>11
    <2>2. \A d \in blocks' : Placed(L2, d)'
      BY <1>15, <1>16
    <2> QED BY <1>5, <1>12, <2>1, <2>2 DEF LaidAs, Apart
  <1> QED BY <1>17, LaidNext

-----------------------------------------------------------------------------
(* Calls that keep the lists intact.                                       *)

\* A block whose ends are those of its list, as far as the block knows, and a
\* copied block that is empty.
AtFirst(bb) == first_inst[bb] # Null /\ graph_[bb] # Null /\ HeadOf(OwnerOf(bb)) = first_inst[bb]
AtLast(bb) == last_inst[bb] # Null /\ graph_[bb] # Null /\ TailOf(OwnerOf(bb)) = last_inst[bb]
Alone(bb, inst) == graph_[bb] = Wild /\ first_inst[bb] = Null /\ next[inst] = Null /\ prev[inst] = Null

\* What KeepsList asks of each call.
LEMMA KeepsSays ==
    ASSUME NEW c
    PROVE  /\ c.op = "InsertInstForward" =>
                 (KeepsList(c) <=> Alone(c.bb, c.inst) \/ (AtFirst(c.bb) /\ prev[c.inst] = Null))
           /\ c.op = "InsertInstBack" =>
                 (KeepsList(c) <=> Alone(c.bb, c.inst) \/ (AtLast(c.bb) /\ next[c.inst] = Null))
           /\ c.op = "ReplaceFirstInst" =>
                 (KeepsList(c) <=> AtFirst(c.bb) /\ first_inst[c.bb] # last_inst[c.bb] /\ prev[c.inst] = Null)
           /\ c.op = "ReplaceLastInst" =>
                 (KeepsList(c) <=> AtLast(c.bb) /\ first_inst[c.bb] # last_inst[c.bb] /\ next[c.inst] = Null)
           /\ c.op = "RemoveNonCFGOrSideInst" =>
                 (KeepsList(c) <=> \A h \in Graphs : c.inst \notin {first[h], last[h]})
           /\ c.op = "SplitBBInTwo" =>
                 (KeepsList(c) <=> last_inst[c.bb] = c.inst \/ next[last_inst[c.bb]] = Null \/ c.outcome = "threw")
           /\ c.op \in {"AddBBToBegin", "BasicBlock"} => KeepsList(c)
  <1>1. Wild # Null
    BY LayoutAssumption DEF MaybeInst
  <1>2. AtFirst(c.bb) <=>
           /\ first_inst[c.bb] # Null
           /\ graph_[c.bb] = Wild \/ (graph_[c.bb] # Null /\ first_inst[c.bb] = first[graph_[c.bb]])
    BY <1>1 DEF AtFirst, OwnerOf, HeadOf
  <1>3. AtLast(c.bb) <=>
           /\ last_inst[c.bb] # Null
           /\ graph_[c.bb] = Wild \/ (graph_[c.bb] # Null /\ last_inst[c.bb] = last[graph_[c.bb]])
    BY <1>1 DEF AtLast, OwnerOf, TailOf
  <1> QED BY <1>2, <1>3 DEF KeepsList, Alone

\* What a call with a meaning has been called with.
LEMMA CallSays ==
    ASSUME NEW op, NEW bb, NEW inst, NEW outcome, Ends(op, bb, inst, outcome)
    PROVE  call'.op = op /\ call'.bb = bb /\ call'.inst = inst /\ call'.outcome = outcome
  BY DEF Ends

\* Wild is no graph, and a block that knows none moves no graph's ends.
LEMMA MovedNone ==
    ASSUME NEW pointers, NEW bb, graph_[bb] = Wild, NEW field, NEW inst, NEW q \in Moved(pointers, bb, field, inst)
    PROVE  q = pointers
  <1>1. Wild \notin Graphs
    BY LayoutAssumption
  <1> QED BY <1>1 DEF Moved

\* InsertInstForward where KeepsList allows it.
LEMMA ForwardKept ==
    ASSUME IInv, IInv', PointersHeld, Fresh, ListIntact, NEW bb \in blocks, NEW inst \in Insts, IsNew(inst),
           InsertInstForward(bb, inst), call'.outcome # "undefined", KeepsList(call')
    PROVE  ListIntact'
  <1>1. LaidAs(TheLists)
    BY IntactIsLaid
  <1>2. PICK L : L = TheLists
    OBVIOUS
  <1>3. /\ parent' = [parent EXCEPT ![inst] = bb]
        /\ first_inst' = [first_inst EXCEPT ![bb] = inst]
        /\ first_inst[bb] = Null => last_inst' = [last_inst EXCEPT ![bb] = inst] /\ UNCHANGED <<next, prev>>
        /\ first_inst[bb] # Null => /\ prev' = [prev EXCEPT ![first_inst[bb]] = inst]
                                    /\ next' = [next EXCEPT ![inst] = first_inst[bb]]
                                    /\ UNCHANGED last_inst
        /\ first' \in Moved(first, bb, next'[inst], inst)
        /\ Ends("InsertInstForward", bb, inst, "returned")
        /\ UNCHANGED <<deleted, blocks, graph_, last>>
    BY DEF InsertInstForward, Undefined, Ends
  <1>4. Alone(bb, inst) \/ (AtFirst(bb) /\ prev[inst] = Null)
    BY <1>3, CallSays, KeepsSays
  <1>5. parent[inst] = Null
    BY DEF IsNew
  <1>6. CASE Alone(bb, inst)
    <2>1. first' = first
      BY <1>3, <1>6, MovedNone DEF Alone
    <2> QED BY <1>1, <1>2, <1>3, <1>5, <1>6, <2>1, AloneIntact DEF Alone
  <1>7. CASE AtFirst(bb) /\ prev[inst] = Null
    <2>1. next'[inst] = first_inst[bb]
      BY <1>3, <1>7, TypesFit DEF AtFirst, Typed
    <2>2. first' \in Moved(first, bb, first_inst[bb], inst)
      BY <1>3, <2>1
    <2> QED BY <1>1, <1>2, <1>3, <1>5, <1>7, <2>2, ForwardIntact DEF AtFirst
  <1> QED BY <1>4, <1>6, <1>7

\* InsertInstBack where KeepsList allows it.
LEMMA BackKept ==
    ASSUME IInv, IInv', PointersHeld, Fresh, ListIntact, NEW bb \in blocks, NEW inst \in Insts, IsNew(inst),
           InsertInstBack(bb, inst), call'.outcome # "undefined", KeepsList(call')
    PROVE  ListIntact'
  <1>1. LaidAs(TheLists)
    BY IntactIsLaid
  <1>2. PICK L : L = TheLists
    OBVIOUS
  <1>3. /\ parent' = [parent EXCEPT ![inst] = bb]
        /\ last_inst' = [last_inst EXCEPT ![bb] = inst]
        /\ first_inst[bb] = Null => first_inst' = [first_inst EXCEPT ![bb] = inst] /\ UNCHANGED <<next, prev>>
        /\ first_inst[bb] # Null => /\ next' = [next EXCEPT ![last_inst[bb]] = inst]
                                    /\ prev' = [prev EXCEPT ![inst] = last_inst[bb]]
                                    /\ UNCHANGED first_inst
        /\ last' \in Moved(last, bb, prev'[inst], inst)
        /\ Ends("InsertInstBack", bb, inst, "returned")
        /\ UNCHANGED <<deleted, blocks, graph_, first>>
    BY DEF InsertInstBack, Undefined, Ends
  <1>4. Alone(bb, inst) \/ (AtLast(bb) /\ next[inst] = Null)
    BY <1>3, CallSays, KeepsSays
  <1>5. parent[inst] = Null
    BY DEF IsNew
  <1>6. CASE Alone(bb, inst)
    <2>1. last' = last
      BY <1>3, <1>6, MovedNone DEF Alone
    <2> QED BY <1>1, <1>2, <1>3, <1>5, <1>6, <2>1, AloneIntact DEF Alone
  <1>7. CASE AtLast(bb) /\ next[inst] = Null
    <2>1. first_inst[bb] # Null
      BY <1>7, BlockEnds DEF AtLast
    <2>2. prev'[inst] = last_inst[bb]
      BY <1>3, <1>7, <2>1, TypesFit DEF Typed
    <2>3. last' \in Moved(last, bb, last_inst[bb], inst)
      BY <1>3, <2>2
    <2> QED BY <1>1, <1>2, <1>3, <1>5, <1>7, <2>1, <2>3, BackIntact DEF AtLast
  <1> QED BY <1>4, <1>6, <1>7

\* ReplaceFirstInst where KeepsList allows it.
LEMMA ReplaceFirstKept ==
    ASSUME IInv, IInv', PointersHeld, Fresh, ListIntact, NEW bb \in blocks, NEW inst \in Insts, IsNew(inst),
           ReplaceFirstInst(bb, inst), call'.outcome # "undefined", KeepsList(call')
    PROVE  ListIntact'
  <1>1. LaidAs(TheLists)
    BY IntactIsLaid
  <1>2. PICK L : L = TheLists
    OBVIOUS
  <1>3. /\ parent' = [parent EXCEPT ![inst] = bb]
        /\ first_inst' = [first_inst EXCEPT ![bb] = inst]
        /\ next' = [next EXCEPT ![inst] = next[first_inst[bb]]]
        /\ prev' = [prev EXCEPT ![next[first_inst[bb]]] = inst]
        /\ first' \in Moved(first, bb, first_inst[bb], inst)
        /\ Ends("ReplaceFirstInst", bb, inst, "returned")
        /\ UNCHANGED <<deleted, blocks, last_inst, graph_, last>>
    BY DEF ReplaceFirstInst, Undefined, Ends
  <1>4. AtFirst(bb) /\ first_inst[bb] # last_inst[bb] /\ prev[inst] = Null
    BY <1>3, CallSays, KeepsSays
  <1>5. parent[inst] = Null
    BY DEF IsNew
  <1> QED BY <1>1, <1>2, <1>3, <1>4, <1>5, ReplaceFirstIntact DEF AtFirst

\* ReplaceLastInst where KeepsList allows it.
LEMMA ReplaceLastKept ==
    ASSUME IInv, IInv', PointersHeld, Fresh, ListIntact, NEW bb \in blocks, NEW inst \in Insts, IsNew(inst),
           ReplaceLastInst(bb, inst), call'.outcome # "undefined", KeepsList(call')
    PROVE  ListIntact'
  <1>1. LaidAs(TheLists)
    BY IntactIsLaid
  <1>2. PICK L : L = TheLists
    OBVIOUS
  <1>3. /\ parent' = [parent EXCEPT ![inst] = bb]
        /\ last_inst' = [last_inst EXCEPT ![bb] = inst]
        /\ prev' = [prev EXCEPT ![inst] = prev[last_inst[bb]]]
        /\ next' = [next EXCEPT ![prev[last_inst[bb]]] = inst]
        /\ last' \in Moved(last, bb, last_inst[bb], inst)
        /\ Ends("ReplaceLastInst", bb, inst, "returned")
        /\ UNCHANGED <<deleted, blocks, first_inst, graph_, first>>
    BY DEF ReplaceLastInst, Undefined, Ends
  <1>4. AtLast(bb) /\ first_inst[bb] # last_inst[bb] /\ next[inst] = Null
    BY <1>3, CallSays, KeepsSays
  <1>5. parent[inst] = Null
    BY DEF IsNew
  <1> QED BY <1>1, <1>2, <1>3, <1>4, <1>5, ReplaceLastIntact DEF AtLast

\* Where nothing is written nothing changes.
LEMMA SameIntact ==
    ASSUME IInv, IInv', PointersHeld, ListIntact, UNCHANGED <<linkVars, blockVars, graphVars>>
    PROVE  ListIntact'
  <1>1. PICK L : L = TheLists
    OBVIOUS
  <1>2. LaidAs(L)
    BY <1>1, IntactIsLaid
  <1>3. UNCHANGED <<next, prev, parent, deleted, blocks, first_inst, last_inst, graph_, first, last>>
    BY DEF linkVars, blockVars, graphVars
  <1>4. Holders' = Holders
    BY <1>3 DEF Holders, Copies
  <1>5. ASSUME NEW h \in Holders
        PROVE  Chain(L[h])' /\ KnowsBoth(L[h], h)' /\ \A x \in ToSet(L[h]) : MayHold(h, parent[x])'
    <2>1. Chain(L[h]) /\ KnowsBoth(L[h], h) /\ \A x \in ToSet(L[h]) : MayHold(h, parent[x])
      BY <1>2 DEF LaidAs
    <2>2. Chain(L[h])'
      BY <1>3, <2>1 DEF Chain
    <2>3. KnowsBoth(L[h], h)'
      BY <1>3, <2>1 DEF KnowsBoth, HeadOf, TailOf
    <2>4. \A x \in ToSet(L[h]) : MayHold(h, parent[x])'
      BY <1>3, <2>1 DEF MayHold, Copies
    <2> QED BY <2>2, <2>3, <2>4
  <1>6. ASSUME NEW bb \in blocks PROVE Placed(L, bb)'
    <2>1. Placed(L, bb)
      BY <1>2 DEF LaidAs
    <2> QED BY <1>3, <1>4, <2>1 DEF Placed, Empty, PieceIn, Without
  <1>7. LaidAs(L)'
    BY <1>2, <1>3, <1>4, <1>5, <1>6 DEF LaidAs, Apart
  <1> QED BY <1>7, LaidNext

\* RemoveNonCFGOrSideInst where KeepsList allows it.
LEMMA RemoveKept ==
    ASSUME IInv, IInv', Ready, ListIntact, NEW g \in Graphs, NEW inst \in ToSet(List(g)),
           RemoveNonCFGOrSideInst(g, inst), call'.outcome # "undefined", KeepsList(call')
    PROVE  ListIntact'
  <1>1. PICK L : L = TheLists
    OBVIOUS
  <1>2. PICK h : h = [kind |-> "graph", id |-> g]
    OBVIOUS
  <1>3. PICK bb : bb = parent[inst]
    OBVIOUS
  <1>4. LaidAs(L)
    BY <1>1, IntactIsLaid DEF Ready, IInv
  <1>5. inst \in ToSet(L[h])
    BY <1>1, <1>2 DEF TheLists, HeadOf, List, Holders
  <1>6. Ends("RemoveNonCFGOrSideInst", bb, inst, "returned")
    BY <1>3 DEF RemoveNonCFGOrSideInst, Undefined, Ends
  <1>7. inst # first[g] /\ inst # last[g]
    BY <1>6, CallSays, KeepsSays
  <1>8. PICK alone : alone = (first_inst[bb] # Null /\ first_inst[bb] = last_inst[bb])
    OBVIOUS
  <1>9. /\ first_inst' = IF alone THEN [first_inst EXCEPT ![bb] = Null]
                         ELSE IF first_inst[bb] = inst THEN [first_inst EXCEPT ![bb] = next[inst]]
                         ELSE first_inst
        /\ last_inst' = IF alone THEN [last_inst EXCEPT ![bb] = Null]
                        ELSE IF first_inst[bb] # inst /\ last_inst[bb] = inst
                        THEN [last_inst EXCEPT ![bb] = prev[inst]] ELSE last_inst
        /\ next' = [next EXCEPT ![prev[inst]] = next[inst]]
        /\ prev' = [prev EXCEPT ![next[inst]] = prev[inst]]
        /\ deleted' = deleted \cup {inst}
        /\ UNCHANGED <<parent, blocks, graph_, first, last>>
    <2>1. ~Undefined("RemoveNonCFGOrSideInst", parent[inst], inst)
      BY DEF Undefined, Ends
    <2> QED BY <1>3, <1>7, <1>8, <2>1, Zenon DEF RemoveNonCFGOrSideInst
  <1> QED BY <1>2, <1>3, <1>4, <1>5, <1>7, <1>8, <1>9, RemoveIntact

\* SplitBBInTwo where KeepsList allows it, and where it does nothing or throws.
LEMMA SplitKept ==
    ASSUME IInv, IInv', Ready, Fresh, ListIntact, NEW g \in Graphs, NEW inst \in ToSet(List(g)),
           SplitBBInTwo(inst), call'.outcome # "undefined", KeepsList(call')
    PROVE  ListIntact'
  <1>1. PICK L : L = TheLists
    OBVIOUS
  <1>2. PICK h : h = [kind |-> "graph", id |-> g]
    OBVIOUS
  <1>3. PICK bb : bb = parent[inst]
    OBVIOUS
  <1>4. LaidAs(L) /\ PointersHeld
    BY <1>1, IntactIsLaid DEF Ready, IInv
  <1>5. inst \in ToSet(L[h])
    BY <1>1, <1>2 DEF TheLists, HeadOf, List, Holders
  <1>6. CASE last_inst[bb] = inst /\ UNCHANGED <<linkVars, blockVars, edgeVars, graphVars>>
    BY <1>4, <1>6, SameIntact
  <1>7. ASSUME last_inst[bb] # inst, NEW new_bb \in BBs, IsNewBB(new_bb), Split(bb, inst, new_bb) PROVE ListIntact'
    <2>1. PICK threw \in BOOLEAN :
            /\ blocks' = blocks \cup {new_bb}
            /\ threw => UNCHANGED <<first_inst, last_inst, parent>>
            /\ ~threw => /\ first_inst' = [first_inst EXCEPT ![new_bb] = next[inst]]
                         /\ last_inst' = [last_inst EXCEPT ![new_bb] = last_inst[bb], ![bb] = inst]
                         /\ parent' = [x \in Insts |-> IF x \in ToSet(Follow(next[inst])) THEN new_bb ELSE parent[x]]
            /\ Ends("SplitBBInTwo", bb, inst, IF threw THEN "threw" ELSE "returned")
            /\ UNCHANGED <<next, prev, deleted, graph_, first, last>>
      <3>1. ~Undefined("SplitBBInTwo", bb, inst)
        BY DEF Undefined, Ends
      <3>2. SplitEdges(bb, new_bb).threw \/ ~SplitEdges(bb, new_bb).threw
        OBVIOUS
      <3> QED BY <1>7, <3>1, <3>2 DEF Split, graphVars
    <2>2. new_bb \notin blocks
      BY <1>7 DEF IsNewBB
    <2>3. CASE threw
      BY <1>4, <2>1, <2>2, <2>3, NewBlockIntact
    <2>4. CASE ~threw
      <3>1. next[last_inst[bb]] = Null
        BY <1>7, <2>1, <2>4, CallSays, KeepsSays
      <3> QED BY <1>2, <1>3, <1>4, <1>5, <1>7, <2>1, <2>2, <2>4, <3>1, SplitIntact
    <2> QED BY <2>3, <2>4
  <1> QED BY <1>3, <1>6, <1>7 DEF SplitBBInTwo

\* AddBBToBegin, with an instruction or without.
LEMMA AddToBeginKept ==
    ASSUME IInv, IInv', Ready, Fresh, ListIntact, NEW g \in Graphs, NEW bb \in BBs, IsNewBB(bb),
           NEW inst \in {Null} \cup {x \in Insts : IsNew(x)}, AddBBToBegin(g, bb, inst), call'.outcome # "undefined"
    PROVE  ListIntact'
  <1>1. PICK L : L = TheLists
    OBVIOUS
  <1>2. PICK h : h = [kind |-> "graph", id |-> g]
    OBVIOUS
  <1>3. LaidAs(L) /\ Typed /\ bb \notin blocks
    BY <1>1, IntactIsLaid, TypesFit DEF Ready, IInv, IsNewBB
  <1>4. /\ inst # Null => next[inst] = Null /\ prev[inst] = Null
        /\ parent' = [x \in Insts |-> IF x = inst THEN bb ELSE parent[x]]
        /\ blocks' = blocks \cup {bb}
        /\ first_inst' = [first_inst EXCEPT ![bb] = inst]
        /\ last_inst' = [last_inst EXCEPT ![bb] = inst]
        /\ first' = IF first[g] = Null \/ inst # Null THEN [first EXCEPT ![g] = inst] ELSE first
        /\ last' = IF first[g] = Null THEN [last EXCEPT ![g] = inst] ELSE last
        /\ IF first[g] # Null /\ inst # Null
           THEN prev' = [prev EXCEPT ![first[g]] = inst] /\ next' = [next EXCEPT ![inst] = first[g]]
           ELSE UNCHANGED <<next, prev>>
        /\ UNCHANGED <<deleted, graph_>>
    <2>1. ~Undefined("AddBBToBegin", bb, inst)
      BY DEF Undefined, Ends
    <2> QED BY <2>1, Zenon DEF AddBBToBegin
  <1>5. CASE inst = Null
    <2>1. \A x \in Insts : next'[x] = next[x] /\ prev'[x] = prev[x] /\ parent'[x] = parent[x]
      BY <1>4, <1>5, NullIsNothing
    <2>2. \A d \in BBs : first_inst'[d] = first_inst[d] /\ last_inst'[d] = last_inst[d]
      BY <1>3, <1>4, <1>5 DEF Fresh, Empty, Typed
    <2>3. first[g] = Null => last[g] = Null
      <3>1. h \in Holders /\ HeadOf(h) = first[g] /\ TailOf(h) = last[g]
        BY <1>2 DEF Holders, HeadOf, TailOf
      <3>2. KnowsBoth(L[h], h) /\ L[h] \in Seq(Insts)
        BY <1>3, <3>1 DEF LaidAs
      <3>3. L[h] # <<>> => L[h][1] \in Insts
        BY <3>2
      <3> QED BY <3>1, <3>2, <3>3, NullIsNothing DEF KnowsBoth
    <2>4. \A d \in Graphs : first'[d] = first[d] /\ last'[d] = last[d]
      BY <1>3, <1>4, <1>5, <2>3 DEF Typed
    <2> QED BY <1>3, <1>4, <2>1, <2>2, <2>4, NewBlockIntact
  <1>6. CASE inst # Null
    <2>1. inst \in Insts /\ parent[inst] = Null
      BY <1>6 DEF IsNew
    <2>2. PutToFront(g, bb, inst)
      BY <1>4, <1>6 DEF PutToFront
    <2> QED BY <1>2, <1>3, <1>4, <1>6, <2>1, <2>2, AddToBeginIntact
  <1> QED BY <1>5, <1>6

\* The copy constructor, whatever the block holds.
LEMMA CopyKept ==
    ASSUME IInv, IInv', Ready, Fresh, ListIntact, NEW bb \in blocks, NEW new_bb \in BBs, IsNewBB(new_bb),
           CopyBB(bb, new_bb), call'.outcome # "undefined"
    PROVE  ListIntact'
  <1>1. PICK L : L = TheLists
    OBVIOUS
  <1>2. LaidAs(L) /\ Typed /\ PointersHeld /\ new_bb \notin blocks
    BY <1>1, IntactIsLaid, TypesFit DEF Ready, IInv, IsNewBB
  <1>3. PICK old : old = Follow(first_inst[bb])
    OBVIOUS
  <1>4. PICK made : made = Cardinality({x \in Insts : parent[x] # Null})
    OBVIOUS
  <1>5. made \in Nat /\ \A x \in Insts : parent[x] # Null <=> x <= made
    BY <1>2, <1>4, MadeSoFar DEF Fresh, Typed
  <1>6. Len(old) \in Nat /\ (old = <<>> <=> Len(old) = 0)
    <2>1. first_inst[bb] \in HeldLinks
      BY <1>2 DEF PointersHeld, Typed
    <2>2. old \in Seq(Insts)
      <3>1. old \in Seq({y \in Insts \ deleted : parent[y] \in blocks})
        BY <1>2, <1>3, <2>1, ListHeld, Zenon
      <3> QED BY <3>1
    <2> QED BY <2>2
  <1>7. PICK m \in Nat : m = Len(old) /\ (old = <<>> <=> m = 0)
    BY <1>6
  <1>8. /\ made + m <= MaxInsts
        /\ next' = [x \in Insts |-> IF x \in made + 1 .. made + m - 1 THEN x + 1
                                    ELSE IF x = made + m /\ old # <<>> THEN Null ELSE next[x]]
        /\ prev' = [x \in Insts |-> IF x = made + 1 /\ old # <<>> THEN Null
                                    ELSE IF x \in made + 2 .. made + m THEN x - 1 ELSE prev[x]]
        /\ parent' = [x \in Insts |-> IF x \in made + 1 .. made + m THEN new_bb ELSE parent[x]]
        /\ blocks' = blocks \cup {new_bb}
        /\ first_inst' = [first_inst EXCEPT ![new_bb] = IF old = <<>> THEN Null ELSE made + 1]
        /\ last_inst' = [last_inst EXCEPT ![new_bb] = IF old = <<>> THEN Null ELSE made + m]
        /\ graph_' = [graph_ EXCEPT ![new_bb] = Wild]
        /\ UNCHANGED <<deleted, first, last>>
    <2>1. ~Undefined("BasicBlock", bb, Null)
      BY DEF Undefined, Ends
    <2> QED BY <1>3, <1>4, <1>7, <2>1, Zenon DEF CopyBB, graphVars
  <1>9. \A x \in Insts : x \in Nat
    BY DEF Insts
  <1>10. \A x \in Insts : /\ next'[x] = (IF x \in made + 1 .. made + m - 1 THEN x + 1
                                         ELSE IF x = made + m /\ old # <<>> THEN Null ELSE next[x])
                          /\ prev'[x] = (IF x = made + 1 /\ old # <<>> THEN Null
                                         ELSE IF x \in made + 2 .. made + m THEN x - 1 ELSE prev[x])
                          /\ parent'[x] = IF x \in made + 1 .. made + m THEN new_bb ELSE parent[x]
    BY <1>8, Zenon
  <1>11. \A x \in Insts : x \in made + 1 .. made + m =>
              /\ parent'[x] = new_bb
              /\ next'[x] = IF x = made + m THEN Null ELSE x + 1
              /\ prev'[x] = IF x = made + 1 THEN Null ELSE x - 1
    <2> SUFFICES ASSUME NEW x \in Insts, x \in made + 1 .. made + m
                 PROVE  /\ parent'[x] = new_bb
                        /\ next'[x] = IF x = made + m THEN Null ELSE x + 1
                        /\ prev'[x] = IF x = made + 1 THEN Null ELSE x - 1
      OBVIOUS
    <2>1. /\ x = made + m => x \notin made + 1 .. made + m - 1
          /\ x # made + m => x \in made + 1 .. made + m - 1
          /\ x # made + 1 => x \in made + 2 .. made + m
          /\ old # <<>>
      BY <1>5, <1>7, <1>9
    <2> QED BY <1>10, <2>1
  <1>12. \A x \in Insts : x <= made => parent'[x] = parent[x] /\ next'[x] = next[x] /\ prev'[x] = prev[x]
    <2> SUFFICES ASSUME NEW x \in Insts, x <= made
                 PROVE  parent'[x] = parent[x] /\ next'[x] = next[x] /\ prev'[x] = prev[x]
      OBVIOUS
    <2>1. /\ x \notin made + 1 .. made + m - 1 /\ x \notin made + 2 .. made + m /\ x \notin made + 1 .. made + m
          /\ x # made + 1 /\ (x = made + m => old = <<>>)
      BY <1>5, <1>7, <1>9
    <2> QED BY <1>10, <2>1
  <1>13. /\ graph_'[new_bb] = Wild
         /\ first_inst'[new_bb] = IF m = 0 THEN Null ELSE made + 1
         /\ last_inst'[new_bb] = IF m = 0 THEN Null ELSE made + m
         /\ \A b \in BBs : b # new_bb =>
              first_inst'[b] = first_inst[b] /\ last_inst'[b] = last_inst[b] /\ graph_'[b] = graph_[b]
    <2>1. graph_ \in [BBs -> Graphs \cup {Null, Wild}]
      BY DEF IInv, TypeOK
    <2> QED BY <1>2, <1>7, <1>8, <2>1 DEF Typed
  <1> QED BY <1>2, <1>5, <1>8, <1>11, <1>12, <1>13, CopyIntact

\* A call that KeepsList names keeps the lists intact.
LEMMA NextKept ==
    ASSUME FreshInv, FreshInv', Next, ListIntact, Edits(call'), KeepsList(call') PROVE ListIntact'
  <1>1. IInv /\ IInv' /\ call'.outcome # "undefined" /\ call'.op # "~IRGraph"
    BY DEF FreshInv, Edits
  <1>2. CASE ~Ready /\ UNCHANGED vars
    <2>1. UNCHANGED <<linkVars, blockVars, graphVars>>
      BY <1>2 DEF vars
    <2>2. CASE PointersHeld
      BY <1>1, <2>1, <2>2, SameIntact
    <2>3. CASE ~PointersHeld
      BY <1>1, <1>2, <2>3 DEF IInv, vars
    <2> QED BY <2>2, <2>3
  <1>3. ASSUME Ready PROVE PointersHeld /\ Fresh
    BY <1>1, <1>3 DEF Ready, IInv, FreshInv
  <1>4. ASSUME Ready, NEW bb \in blocks, NEW inst \in Insts, IsNew(inst), EditBlock(bb, inst) PROVE ListIntact'
    BY <1>1, <1>3, <1>4, ForwardKept, BackKept, ReplaceFirstKept, ReplaceLastKept DEF EditBlock
  <1>5. ASSUME Ready, NEW bb \in blocks, NEW new_bb \in BBs, IsNewBB(new_bb), CopyBB(bb, new_bb) PROVE ListIntact'
    BY <1>1, <1>3, <1>5, CopyKept
  <1>6. ASSUME Ready, NEW g \in Graphs, EditGraph(g) PROVE ListIntact'
    <2>1. ASSUME NEW inst \in ToSet(List(g)), RemoveNonCFGOrSideInst(g, inst) PROVE ListIntact'
      BY <1>1, <1>6, <2>1, RemoveKept
    <2>2. ASSUME NEW inst \in ToSet(List(g)), SplitBBInTwo(inst) PROVE ListIntact'
      BY <1>1, <1>3, <1>6, <2>2, SplitKept
    <2>3. ASSUME NEW bb \in BBs, NEW inst \in {Null} \cup {x \in Insts : IsNew(x)},
                 IsNewBB(bb), AddBBToBegin(g, bb, inst)
          PROVE  ListIntact'
      BY <1>1, <1>3, <1>6, <2>3, AddToBeginKept
    <2>4. CASE DestroyGraph(g)
      BY <1>1, <2>4 DEF DestroyGraph, Undefined, Ends
    <2> QED BY <1>6, <2>1, <2>2, <2>3, <2>4 DEF EditGraph
  <1> QED BY <1>2, <1>4, <1>5, <1>6 DEF Next

-----------------------------------------------------------------------------
(* Calls that do not.                                                      *)

\* x is in a list of h: at an end that h knows, or between neighbours that know it.
Soundly(x, h) ==
    /\ x \in Insts \ deleted
    /\ (x = HeadOf(h) /\ prev[x] = Null) \/ (prev[x] \in Insts \ deleted /\ next[prev[x]] = x)
    /\ (x = TailOf(h) /\ next[x] = Null) \/ (next[x] \in Insts \ deleted /\ prev[next[x]] = x)

\* Both ends of block bb are in the same list, and it ends where its instructions do.
Neat(bb) ==
    \/ Empty(bb)
    \/ /\ \E h \in Holders : MayHold(h, bb) /\ Soundly(first_inst[bb], h) /\ Soundly(last_inst[bb], h)
       /\ next[last_inst[bb]] # Null => parent[next[last_inst[bb]]] # bb

\* Graph g has no instruction, or its ends are ends.
NeatEnds(g) ==
    \/ first[g] = Null /\ last[g] = Null
    \/ first[g] \in Insts /\ last[g] \in Insts /\ prev[first[g]] = Null /\ next[last[g]] = Null

\* In a chain all are between neighbours that know them.
LEMMA ChainSoundly ==
    ASSUME NEW h, NEW f, Chain(f), KnowsBoth(f, h), NEW i \in 1..Len(f)
    PROVE  Soundly(f[i], h)
  <1>1. /\ f \in Seq(Insts \ deleted) /\ Len(f) \in Nat /\ f # <<>>
        /\ \A j \in 1 .. Len(f) - 1 : next[f[j]] = f[j + 1] /\ prev[f[j + 1]] = f[j]
        /\ prev[f[1]] = Null /\ next[f[Len(f)]] = Null /\ HeadOf(h) = f[1] /\ TailOf(h) = f[Len(f)]
    <2>1. f \in Seq(Insts \ deleted) /\ Len(f) \in Nat /\ f # <<>>
      BY DEF Chain
    <2> QED BY <2>1 DEF Chain, KnowsBoth
  <1>2. \A j \in 1..Len(f) : f[j] \in Insts \ deleted
    BY <1>1
  <1>3. (f[i] = HeadOf(h) /\ prev[f[i]] = Null) \/ (prev[f[i]] \in Insts \ deleted /\ next[prev[f[i]]] = f[i])
    <2>1. CASE i = 1
      BY <1>1, <2>1
    <2>2. CASE i # 1
      <3>1. PICK j \in 1 .. Len(f) - 1 : j + 1 = i /\ j \in 1..Len(f)
        <4>1. i - 1 \in 1 .. Len(f) - 1 /\ (i - 1) + 1 = i /\ i - 1 \in 1..Len(f)
          BY <1>1, <2>2
        <4> QED BY <4>1
      <3> QED BY <1>1, <1>2, <3>1
    <2> QED BY <2>1, <2>2
  <1>4. (f[i] = TailOf(h) /\ next[f[i]] = Null) \/ (next[f[i]] \in Insts \ deleted /\ prev[next[f[i]]] = f[i])
    <2>1. CASE i = Len(f)
      BY <1>1, <2>1
    <2>2. CASE i # Len(f)
      <3>1. i \in 1 .. Len(f) - 1 /\ i + 1 \in 1..Len(f)
        BY <1>1, <2>2
      <3> QED BY <1>1, <1>2, <3>1
    <2> QED BY <2>1, <2>2
  <1> QED BY <1>2, <1>3, <1>4 DEF Soundly

\* On intact lists all blocks and all graphs are neat.
LEMMA IntactIsNeat ==
    IInv /\ PointersHeld /\ ListIntact => (\A bb \in blocks : Neat(bb)) /\ (\A g \in Graphs : NeatEnds(g))
  <1> SUFFICES ASSUME IInv, PointersHeld, ListIntact
               PROVE  (\A bb \in blocks : Neat(bb)) /\ (\A g \in Graphs : NeatEnds(g))
    OBVIOUS
  <1>1. PICK L : L = TheLists
    OBVIOUS
  <1>2. LaidAs(L)
    BY <1>1, IntactIsLaid
  <1>3. ASSUME NEW bb \in blocks PROVE Neat(bb)
    <2>1. ASSUME NEW h \in Holders, PieceIn(L[h], bb) PROVE Neat(bb)
      <3>1. PICK f : f = L[h]
        OBVIOUS
      <3>2. /\ f \in Seq(Insts) /\ Chain(f) /\ KnowsBoth(f, h) /\ Len(f) \in Nat
            /\ \A x \in ToSet(f) : MayHold(h, parent[x])
        BY <1>2, <3>1 DEF LaidAs
      <3>3. PICK a, b \in 1..Len(f) :
              /\ a <= b /\ first_inst[bb] = f[a] /\ last_inst[bb] = f[b]
              /\ \A i \in 1..Len(f) : parent[f[i]] = bb <=> a <= i /\ i <= b
        BY <2>1, <3>1 DEF PieceIn
      <3>4. Soundly(first_inst[bb], h) /\ Soundly(last_inst[bb], h)
        BY <3>2, <3>3, ChainSoundly
      <3>5. MayHold(h, bb)
        <4>1. parent[f[a]] = bb
          BY <3>3
        <4> QED BY <3>2, <4>1, Entries
      <3>6. next[last_inst[bb]] # Null => parent[next[last_inst[bb]]] # bb
        <4>1. CASE b = Len(f)
          BY <3>2, <3>3, <4>1 DEF Chain
        <4>2. CASE b # Len(f)
          <5>1. b \in 1 .. Len(f) - 1 /\ b + 1 \in 1..Len(f) /\ ~(b + 1 <= b)
            BY <3>2, <4>2
          <5>2. next[f[b]] = f[b + 1]
            BY <3>2, <5>1 DEF Chain
          <5> QED BY <3>3, <5>1, <5>2
        <4> QED BY <4>1, <4>2
      <3> QED BY <3>4, <3>5, <3>6 DEF Neat
    <2>2. Placed(L, bb)
      BY <1>2 DEF LaidAs
    <2> QED BY <2>1, <2>2 DEF Placed, Neat
  <1>4. ASSUME NEW g \in Graphs PROVE NeatEnds(g)
    <2>1. PICK h : h = [kind |-> "graph", id |-> g]
      OBVIOUS
    <2>2. h \in Holders /\ HeadOf(h) = first[g] /\ TailOf(h) = last[g]
      BY <2>1 DEF Holders, HeadOf, TailOf
    <2>3. L[h] \in Seq(Insts) /\ Chain(L[h]) /\ KnowsBoth(L[h], h)
      BY <1>2, <2>2 DEF LaidAs
    <2>4. CASE L[h] = <<>>
      BY <2>2, <2>3, <2>4 DEF KnowsBoth, NeatEnds
    <2>5. CASE L[h] # <<>>
      <3>1. L[h][1] \in Insts /\ L[h][Len(L[h])] \in Insts
        BY <2>3, <2>5
      <3> QED BY <2>2, <2>3, <2>5, <3>1 DEF KnowsBoth, Chain, NeatEnds
    <2> QED BY <2>4, <2>5
  <1> QED BY <1>3, <1>4

\* And so they are after a call that keeps the lists intact.
LEMMA NeatNext ==
    (IInv /\ PointersHeld /\ ListIntact => (\A bb \in blocks : Neat(bb)) /\ (\A g \in Graphs : NeatEnds(g)))'
  BY IntactIsNeat, PTL

\* Nothing leads to an instruction that no block has taken, nor from it.
LEMMA NewIsApart ==
    ASSUME IInv, PointersHeld, Fresh, NEW inst \in Insts, parent[inst] = Null
    PROVE  /\ \A bb \in BBs : first_inst[bb] # inst /\ last_inst[bb] # inst
           /\ \A g \in Graphs : first[g] # inst /\ last[g] # inst
           /\ \A x \in Insts : next[x] # inst /\ prev[x] # inst
           /\ next[inst] \in {Null, Wild} /\ prev[inst] \in {Null, Wild}
           /\ Null \notin Insts /\ Wild \notin Insts /\ Wild # Null /\ Wild \notin Graphs
  <1>1. inst \notin HeldLinks
    BY HeldIsTaken
  <1> QED BY <1>1, LayoutAssumption, NullIsNothing DEF PointersHeld, Fresh, MaybeInst

\* A block whose first or last instruction has no neighbour on the outer side is
\* at that end of its list: of its own when it is a copy, of a graph's otherwise.
LEMMA NeatHead ==
    ASSUME NEW bb, Neat(bb), NEW x, first_inst[bb] = x, x # Null, prev[x] \notin Insts
    PROVE  /\ prev[x] = Null /\ (next[x] = Null \/ next[x] \in Insts)
           /\ \/ bb \in Copies
              \/ \E g \in Graphs : first[g] = x /\ (next[x] = Null => last[g] = x)
  <1>1. PICK h \in Holders : MayHold(h, bb) /\ Soundly(x, h)
    BY DEF Neat, Empty
  <1>2. (h.kind = "graph" /\ h.id \in Graphs) \/ (h.kind = "copy" /\ h.id \in Copies)
    BY HolderOf
  <1>3. h.kind = "copy" => bb \in Copies
    BY <1>1, <1>2 DEF MayHold
  <1>4. /\ x = HeadOf(h) /\ prev[x] = Null
        /\ (x = TailOf(h) /\ next[x] = Null) \/ (next[x] \in Insts)
    BY <1>1 DEF Soundly
  <1> QED BY <1>2, <1>3, <1>4, NullIsNothing DEF HeadOf, TailOf

\* The same at the last instruction.
LEMMA NeatTail ==
    ASSUME NEW bb, Neat(bb), NEW x, last_inst[bb] = x, first_inst[bb] # Null \/ x # Null, next[x] \notin Insts
    PROVE  /\ next[x] = Null /\ (prev[x] = Null \/ prev[x] \in Insts)
           /\ \/ bb \in Copies
              \/ \E g \in Graphs : last[g] = x /\ (prev[x] = Null => first[g] = x)
  <1>1. PICK h \in Holders : MayHold(h, bb) /\ Soundly(x, h)
    BY DEF Neat, Empty
  <1>2. (h.kind = "graph" /\ h.id \in Graphs) \/ (h.kind = "copy" /\ h.id \in Copies)
    BY HolderOf
  <1>3. h.kind = "copy" => bb \in Copies
    BY <1>1, <1>2 DEF MayHold
  <1>4. /\ x = TailOf(h) /\ next[x] = Null
        /\ (x = HeadOf(h) /\ prev[x] = Null) \/ (prev[x] \in Insts)
    BY <1>1 DEF Soundly
  <1> QED BY <1>2, <1>3, <1>4, NullIsNothing DEF HeadOf, TailOf

\* And so after a call; in the words of the lemmas above.
LEMMA HeadNext ==
    (\A bb, x : Neat(bb) /\ first_inst[bb] = x /\ x # Null /\ prev[x] \notin Insts
                => /\ prev[x] = Null /\ (next[x] = Null \/ next[x] \in Insts)
                   /\ \/ bb \in Copies
                      \/ \E g \in Graphs : first[g] = x /\ (next[x] = Null => last[g] = x))'
  <1>1. \A bb, x : Neat(bb) /\ first_inst[bb] = x /\ x # Null /\ prev[x] \notin Insts
                => /\ prev[x] = Null /\ (next[x] = Null \/ next[x] \in Insts)
                   /\ \/ bb \in Copies
                      \/ \E g \in Graphs : first[g] = x /\ (next[x] = Null => last[g] = x)
    BY NeatHead
  <1> QED BY <1>1, PTL

\* The same at the last instruction.
LEMMA TailNext ==
    (\A bb, x : Neat(bb) /\ last_inst[bb] = x /\ (first_inst[bb] # Null \/ x # Null) /\ next[x] \notin Insts
                => /\ next[x] = Null /\ (prev[x] = Null \/ prev[x] \in Insts)
                   /\ \/ bb \in Copies
                      \/ \E g \in Graphs : last[g] = x /\ (prev[x] = Null => first[g] = x))'
  <1>1. \A bb, x : Neat(bb) /\ last_inst[bb] = x /\ (first_inst[bb] # Null \/ x # Null) /\ next[x] \notin Insts
                => /\ next[x] = Null /\ (prev[x] = Null \/ prev[x] \in Insts)
                   /\ \/ bb \in Copies
                      \/ \E g \in Graphs : last[g] = x /\ (prev[x] = Null => first[g] = x)
    BY NeatTail
  <1> QED BY <1>1, PTL

\* An insertion in front that keeps the lists intact is one in front of a list.
LEMMA ForwardOnly ==
    ASSUME IInv, IInv', PointersHeld, PointersHeld', Fresh, ListIntact, ListIntact',
           NEW bb \in blocks, NEW inst \in Insts, IsNew(inst),
           InsertInstForward(bb, inst), call'.outcome # "undefined"
    PROVE  KeepsList(call')
  <1>1. Typed /\ bb \in BBs /\ parent[inst] = Null
    BY TypesFit DEF Typed, IsNew
  <1>2. /\ first_inst[bb] # inst
        /\ \A g \in Graphs : first[g] # inst /\ last[g] # inst
        /\ next[inst] \in {Null, Wild} /\ prev[inst] \in {Null, Wild}
        /\ Null \notin Insts /\ Wild \notin Insts /\ Wild # Null /\ Wild \notin Graphs
    BY <1>1, NewIsApart
  <1>3. /\ first_inst' = [first_inst EXCEPT ![bb] = inst]
        /\ first_inst[bb] = Null => UNCHANGED <<next, prev>>
        /\ first_inst[bb] # Null => /\ prev' = [prev EXCEPT ![first_inst[bb]] = inst]
                                    /\ next' = [next EXCEPT ![inst] = first_inst[bb]]
        /\ first' \in Moved(first, bb, next'[inst], inst)
        /\ Ends("InsertInstForward", bb, inst, "returned")
        /\ UNCHANGED <<blocks, graph_, last>>
    BY DEF InsertInstForward, Undefined, Ends
  <1>4. /\ first_inst'[bb] = inst /\ prev'[inst] = prev[inst]
        /\ next'[inst] = IF first_inst[bb] = Null THEN next[inst] ELSE first_inst[bb]
    BY <1>1, <1>2, <1>3 DEF Typed
  <1>5. Neat(bb)'
    BY <1>3, NeatNext
  <1>6. /\ prev[inst] = Null /\ (next'[inst] = Null \/ next'[inst] \in Insts)
        /\ \/ bb \in Copies'
           \/ \E g \in Graphs : first'[g] = inst /\ (next'[inst] = Null => last'[g] = inst)
    BY <1>2, <1>4, <1>5, HeadNext
  <1>7. Alone(bb, inst) \/ AtFirst(bb)
    <2>1. CASE bb \in Copies'
      <3>1. graph_[bb] = Wild
        BY <1>3, <2>1 DEF Copies
      <3>2. CASE first_inst[bb] = Null
        BY <1>2, <1>4, <1>6, <3>1, <3>2 DEF Alone
      <3>3. CASE first_inst[bb] # Null
        BY <1>2, <3>1, <3>3 DEF AtFirst, OwnerOf, HeadOf
      <3> QED BY <3>2, <3>3
    <2>2. ASSUME NEW g \in Graphs, first'[g] = inst, next'[inst] = Null => last'[g] = inst PROVE AtFirst(bb)
      <3>1. next'[inst] # Null
        BY <1>2, <1>3, <2>2
      <3>2. next'[inst] = first_inst[bb] /\ first_inst[bb] # Null /\ next'[inst] # Wild
        BY <1>2, <1>4, <1>6, <3>1
      <3>3. first' \in Moved(first, bb, first_inst[bb], inst)
        BY <1>3, <3>2
      <3>4. first \in [Graphs -> Links]
        BY <1>1 DEF Typed
      <3>5. g = graph_[bb]
        BY <1>2, <2>2, <3>3, <3>4, MovedOne
      <3>6. first[g] = first_inst[bb]
        BY <1>2, <2>2, <3>2, <3>3, <3>4, <3>5, MovedOne
      <3> QED BY <1>2, <3>2, <3>5, <3>6, NullIsNothing DEF AtFirst, OwnerOf, HeadOf, Graphs, Null
    <2> QED BY <1>6, <2>1, <2>2
  <1>8. call'.op = "InsertInstForward" /\ call'.bb = bb /\ call'.inst = inst
    BY <1>3, CallSays
  <1> QED BY <1>6, <1>7, <1>8, KeepsSays

\* An insertion at the back that keeps the lists intact is one at the end of a list.
LEMMA BackOnly ==
    ASSUME IInv, IInv', PointersHeld, PointersHeld', Fresh, ListIntact, ListIntact',
           NEW bb \in blocks, NEW inst \in Insts, IsNew(inst),
           InsertInstBack(bb, inst), call'.outcome # "undefined"
    PROVE  KeepsList(call')
  <1>1. Typed /\ bb \in BBs /\ parent[inst] = Null
    BY TypesFit DEF Typed, IsNew
  <1>2. /\ last_inst[bb] # inst
        /\ \A g \in Graphs : first[g] # inst /\ last[g] # inst
        /\ next[inst] \in {Null, Wild} /\ prev[inst] \in {Null, Wild}
        /\ Null \notin Insts /\ Wild \notin Insts /\ Wild # Null /\ Wild \notin Graphs
    BY <1>1, NewIsApart
  <1>3. /\ last_inst' = [last_inst EXCEPT ![bb] = inst]
        /\ first_inst[bb] = Null => UNCHANGED <<next, prev>>
        /\ first_inst[bb] # Null => /\ next' = [next EXCEPT ![last_inst[bb]] = inst]
                                    /\ prev' = [prev EXCEPT ![inst] = last_inst[bb]]
        /\ last' \in Moved(last, bb, prev'[inst], inst)
        /\ Ends("InsertInstBack", bb, inst, "returned")
        /\ UNCHANGED <<blocks, graph_, first>>
    BY DEF InsertInstBack, Undefined, Ends
  <1>4. /\ last_inst'[bb] = inst /\ next'[inst] = next[inst]
        /\ prev'[inst] = IF first_inst[bb] = Null THEN prev[inst] ELSE last_inst[bb]
    BY <1>1, <1>2, <1>3 DEF Typed
  <1>5. Neat(bb)'
    BY <1>3, NeatNext
  <1>6. /\ next[inst] = Null /\ (prev'[inst] = Null \/ prev'[inst] \in Insts)
        /\ \/ bb \in Copies'
           \/ \E g \in Graphs : last'[g] = inst /\ (prev'[inst] = Null => first'[g] = inst)
    BY <1>2, <1>4, <1>5, TailNext
  <1>7. first_inst[bb] = Null <=> last_inst[bb] = Null
    BY BlockEnds
  <1>8. Alone(bb, inst) \/ AtLast(bb)
    <2>1. CASE bb \in Copies'
      <3>1. graph_[bb] = Wild
        BY <1>3, <2>1 DEF Copies
      <3>2. CASE first_inst[bb] = Null
        BY <1>2, <1>4, <1>6, <3>1, <3>2 DEF Alone
      <3>3. CASE first_inst[bb] # Null
        BY <1>2, <1>7, <3>1, <3>3 DEF AtLast, OwnerOf, TailOf
      <3> QED BY <3>2, <3>3
    <2>2. ASSUME NEW g \in Graphs, last'[g] = inst, prev'[inst] = Null => first'[g] = inst PROVE AtLast(bb)
      <3>1. prev'[inst] # Null
        BY <1>2, <1>3, <2>2
      <3>2. prev'[inst] = last_inst[bb] /\ last_inst[bb] # Null /\ prev'[inst] # Wild
        BY <1>2, <1>4, <1>6, <3>1
      <3>3. last' \in Moved(last, bb, last_inst[bb], inst)
        BY <1>3, <3>2
      <3>4. last \in [Graphs -> Links]
        BY <1>1 DEF Typed
      <3>5. g = graph_[bb]
        BY <1>2, <2>2, <3>3, <3>4, MovedOne
      <3>6. last[g] = last_inst[bb]
        BY <1>2, <2>2, <3>2, <3>3, <3>4, <3>5, MovedOne
      <3> QED BY <1>2, <3>2, <3>5, <3>6, NullIsNothing DEF AtLast, OwnerOf, TailOf, Graphs, Null
    <2> QED BY <1>6, <2>1, <2>2
  <1>9. call'.op = "InsertInstBack" /\ call'.bb = bb /\ call'.inst = inst
    BY <1>3, CallSays
  <1> QED BY <1>6, <1>8, <1>9, KeepsSays

\* A replacement of the first instruction that keeps the lists intact is one at
\* the beginning of a list, in a block of several instructions.
LEMMA ReplaceFirstOnly ==
    ASSUME IInv, IInv', PointersHeld, PointersHeld', Fresh, ListIntact, ListIntact',
           NEW bb \in blocks, NEW inst \in Insts, IsNew(inst),
           ReplaceFirstInst(bb, inst), call'.outcome # "undefined"
    PROVE  KeepsList(call')
  <1> DEFINE x == first_inst[bb]
             y == next[first_inst[bb]]
  <1>1. Typed /\ bb \in BBs /\ parent[inst] = Null
    BY TypesFit DEF Typed, IsNew
  <1>2. /\ x # inst /\ (x \in Insts => y # inst)
        /\ \A g \in Graphs : first[g] # inst /\ last[g] # inst
        /\ next[inst] \in {Null, Wild} /\ prev[inst] \in {Null, Wild}
        /\ Null \notin Insts /\ Wild \notin Insts /\ Wild # Null /\ Wild \notin Graphs
    BY <1>1, NewIsApart
  <1>3. /\ x \in Insts /\ y \in Insts
        /\ first_inst' = [first_inst EXCEPT ![bb] = inst]
        /\ next' = [next EXCEPT ![inst] = y]
        /\ prev' = [prev EXCEPT ![y] = inst]
        /\ first' \in Moved(first, bb, x, inst)
        /\ Ends("ReplaceFirstInst", bb, inst, "returned")
        /\ UNCHANGED <<blocks, last_inst, graph_, last>>
    BY DEF ReplaceFirstInst, Undefined, Ends, Valid
  <1>4. /\ first_inst'[bb] = inst /\ prev'[inst] = prev[inst] /\ prev'[y] = inst /\ next'[x] = y /\ x # inst
    BY <1>1, <1>2, <1>3 DEF Typed
  <1>5. Neat(bb)'
    BY <1>3, NeatNext
  <1>6. /\ prev[inst] = Null
        /\ bb \in Copies' \/ \E g \in Graphs : first'[g] = inst
    BY <1>2, <1>4, <1>5, HeadNext
  <1>7. AtFirst(bb)
    <2>1. CASE bb \in Copies'
      <3>1. graph_[bb] = Wild
        BY <1>3, <2>1 DEF Copies
      <3> QED BY <1>2, <1>3, <3>1 DEF AtFirst, OwnerOf, HeadOf
    <2>2. ASSUME NEW g \in Graphs, first'[g] = inst PROVE AtFirst(bb)
      <3>1. first \in [Graphs -> Links]
        BY <1>1 DEF Typed
      <3>2. g = graph_[bb]
        BY <1>2, <1>3, <2>2, <3>1, MovedOne
      <3>3. first[g] = x
        BY <1>2, <1>3, <2>2, <3>1, <3>2, MovedOne
      <3> QED BY <1>2, <1>3, <3>2, <3>3, NullIsNothing DEF AtFirst, OwnerOf, HeadOf, Graphs, Null
    <2> QED BY <1>6, <2>1, <2>2
  <1>8. x # last_inst[bb]
    <2> SUFFICES ASSUME last_inst[bb] = x PROVE FALSE
      OBVIOUS
    <2>1. last_inst'[bb] = x /\ ~Empty(bb)'
      BY <1>2, <1>3, <1>4 DEF Empty
    <2>2. next'[x] = Null \/ prev'[next'[x]] = x
      BY <1>5, <2>1 DEF Neat, Soundly
    <2> QED BY <1>2, <1>3, <1>4, <2>2
  <1>9. call'.op = "ReplaceFirstInst" /\ call'.bb = bb /\ call'.inst = inst
    BY <1>3, CallSays
  <1> QED BY <1>6, <1>7, <1>8, <1>9, KeepsSays

\* A replacement of the last instruction that keeps the lists intact is one at
\* the end of a list, in a block of several instructions.
LEMMA ReplaceLastOnly ==
    ASSUME IInv, IInv', PointersHeld, PointersHeld', Fresh, ListIntact, ListIntact',
           NEW bb \in blocks, NEW inst \in Insts, IsNew(inst),
           ReplaceLastInst(bb, inst), call'.outcome # "undefined"
    PROVE  KeepsList(call')
  <1> DEFINE x == last_inst[bb]
             y == prev[last_inst[bb]]
  <1>1. Typed /\ bb \in BBs /\ parent[inst] = Null
    BY TypesFit DEF Typed, IsNew
  <1>2. /\ x # inst /\ (x \in Insts => y # inst)
        /\ \A g \in Graphs : first[g] # inst /\ last[g] # inst
        /\ next[inst] \in {Null, Wild} /\ prev[inst] \in {Null, Wild}
        /\ Null \notin Insts /\ Wild \notin Insts /\ Wild # Null /\ Wild \notin Graphs
    BY <1>1, NewIsApart
  <1>3. /\ x \in Insts /\ y \in Insts
        /\ last_inst' = [last_inst EXCEPT ![bb] = inst]
        /\ prev' = [prev EXCEPT ![inst] = y]
        /\ next' = [next EXCEPT ![y] = inst]
        /\ last' \in Moved(last, bb, x, inst)
        /\ Ends("ReplaceLastInst", bb, inst, "returned")
        /\ UNCHANGED <<blocks, first_inst, graph_, first>>
    BY DEF ReplaceLastInst, Undefined, Ends, Valid
  <1>4. /\ last_inst'[bb] = inst /\ next'[inst] = next[inst] /\ next'[y] = inst /\ prev'[x] = y /\ x # inst
    BY <1>1, <1>2, <1>3 DEF Typed
  <1>5. Neat(bb)'
    BY <1>3, NeatNext
  <1>6. /\ next[inst] = Null
        /\ bb \in Copies' \/ \E g \in Graphs : last'[g] = inst
    BY <1>2, <1>4, <1>5, TailNext
  <1>7. AtLast(bb)
    <2>1. CASE bb \in Copies'
      <3>1. graph_[bb] = Wild
        BY <1>3, <2>1 DEF Copies
      <3> QED BY <1>2, <1>3, <3>1 DEF AtLast, OwnerOf, TailOf
    <2>2. ASSUME NEW g \in Graphs, last'[g] = inst PROVE AtLast(bb)
      <3>1. last \in [Graphs -> Links]
        BY <1>1 DEF Typed
      <3>2. g = graph_[bb]
        BY <1>2, <1>3, <2>2, <3>1, MovedOne
      <3>3. last[g] = x
        BY <1>2, <1>3, <2>2, <3>1, <3>2, MovedOne
      <3> QED BY <1>2, <1>3, <3>2, <3>3, NullIsNothing DEF AtLast, OwnerOf, TailOf, Graphs, Null
    <2> QED BY <1>6, <2>1, <2>2
  <1>8. first_inst[bb] # x
    <2> SUFFICES ASSUME first_inst[bb] = x PROVE FALSE
      OBVIOUS
    <2>1. first_inst'[bb] = x /\ ~Empty(bb)'
      BY <1>2, <1>3, <1>4 DEF Empty
    <2>2. prev'[x] = Null \/ next'[prev'[x]] = x
      BY <1>5, <2>1 DEF Neat, Soundly
    <2> QED BY <1>2, <1>3, <1>4, <2>2
  <1>9. call'.op = "ReplaceLastInst" /\ call'.bb = bb /\ call'.inst = inst
    BY <1>3, CallSays
  <1> QED BY <1>6, <1>7, <1>8, <1>9, KeepsSays

\* After the removal of an end of a list the graph's pointers and the links disagree.
LEMMA RemoveOnly ==
    ASSUME IInv, IInv', PointersHeld, PointersHeld', ListIntact, ListIntact',
           NEW g \in Graphs, NEW inst \in ToSet(List(g)),
           RemoveNonCFGOrSideInst(g, inst), call'.outcome # "undefined"
    PROVE  KeepsList(call')
  <1>1. PICK L : L = TheLists
    OBVIOUS
  <1>2. PICK h : h = [kind |-> "graph", id |-> g]
    OBVIOUS
  <1>3. LaidAs(L) /\ Typed
    BY <1>1, IntactIsLaid, TypesFit
  <1>4. /\ h \in Holders /\ HeadOf(h) = first[g] /\ TailOf(h) = last[g] /\ inst \in ToSet(L[h])
    BY <1>1, <1>2 DEF TheLists, HeadOf, TailOf, List, Holders
  <1>5. L[h] \in Seq(Insts) /\ Chain(L[h]) /\ KnowsBoth(L[h], h)
    BY <1>3, <1>4 DEF LaidAs
  <1>6. Soundly(inst, h)
    <2>1. PICK i \in 1..Len(L[h]) : L[h][i] = inst
      BY <1>4, <1>5, Entries
    <2> QED BY <1>5, <2>1, ChainSoundly
  <1>7. Ends("RemoveNonCFGOrSideInst", parent[inst], inst, "returned")
    BY DEF RemoveNonCFGOrSideInst, Undefined, Ends
  <1>8. ASSUME NEW k \in Graphs, inst \in {first[k], last[k]} PROVE k = g
    <2>1. PICK j : j = [kind |-> "graph", id |-> k]
      OBVIOUS
    <2>2. j \in Holders /\ HeadOf(j) = first[k] /\ TailOf(j) = last[k]
      BY <2>1 DEF TheLists, HeadOf, TailOf, Holders
    <2>3. L[j] \in Seq(Insts) /\ KnowsBoth(L[j], j)
      BY <1>3, <2>2 DEF LaidAs
    <2>4. inst # Null
      BY <1>6, NullIsNothing DEF Soundly
    <2>5. L[j] # <<>>
      BY <1>8, <2>2, <2>3, <2>4 DEF KnowsBoth
    <2>6. inst \in ToSet(L[j])
      <3>1. L[j][1] \in ToSet(L[j]) /\ L[j][Len(L[j])] \in ToSet(L[j])
        <4>1. 1 \in 1..Len(L[j]) /\ Len(L[j]) \in 1..Len(L[j])
          BY <2>3, <2>5
        <4> QED BY <2>3, <4>1, Entries
      <3> QED BY <1>8, <2>2, <2>3, <2>5, <3>1 DEF KnowsBoth
    <2>7. j = h
      <3>1. j # h => Apart(L[j], L[h])
        BY <1>3, <1>4, <2>2 DEF LaidAs
      <3> QED BY <1>4, <2>6, <3>1 DEF Apart
    <2> QED BY <1>2, <2>1, <2>7
  <1>9. inst \notin {first[g], last[g]}
    <2> SUFFICES ASSUME inst \in {first[g], last[g]} PROVE FALSE
      OBVIOUS
    <2>1. /\ first' = IF inst = first[g] THEN [first EXCEPT ![g] = next[inst]] ELSE first
          /\ last' = IF inst # first[g] /\ inst = last[g] THEN [last EXCEPT ![g] = prev[inst]] ELSE last
          /\ next' = next /\ prev' = prev
      <3>1. ~Undefined("RemoveNonCFGOrSideInst", parent[inst], inst)
        BY DEF Undefined, Ends
      <3> QED BY <3>1 DEF RemoveNonCFGOrSideInst
    <2>2. NeatEnds(g) /\ NeatEnds(g)'
      BY IntactIsNeat, NeatNext
    <2>3. /\ inst \in Insts
          /\ inst = first[g] \/ (prev[inst] \in Insts /\ next[prev[inst]] = inst)
          /\ (inst = last[g] /\ next[inst] = Null) \/ (next[inst] \in Insts /\ prev[next[inst]] = inst)
      BY <1>4, <1>6 DEF Soundly
    <2>4. \/ first'[g] = Null /\ last'[g] = Null
          \/ first'[g] \in Insts /\ last'[g] \in Insts /\ prev[first'[g]] = Null /\ next[last'[g]] = Null
      <3>1. \/ first'[g] = Null /\ last'[g] = Null
            \/ first'[g] \in Insts /\ last'[g] \in Insts /\ prev'[first'[g]] = Null /\ next'[last'[g]] = Null
        BY <2>2 DEF NeatEnds
      <3> QED BY <2>1, <3>1, Zenon
    <2>5. CASE inst = first[g]
      <3>1. first'[g] = next[inst] /\ last'[g] = last[g]
        BY <1>3, <2>1, <2>5 DEF Typed
      <3> QED BY <2>3, <2>4, <3>1, NullIsNothing
    <2>6. CASE inst # first[g] /\ inst = last[g]
      <3>1. last'[g] = prev[inst]
        BY <1>3, <2>1, <2>6 DEF Typed
      <3> QED BY <2>3, <2>4, <2>6, <3>1, NullIsNothing
    <2> QED BY <2>5, <2>6
  <1> QED BY <1>7, <1>8, <1>9, CallSays, KeepsSays

\* After a split of another block than the last the new block does not know its end.
LEMMA SplitOnly ==
    ASSUME IInv, IInv', PointersHeld, PointersHeld', ListIntact, ListIntact',
           NEW g \in Graphs, NEW inst \in ToSet(List(g)), SplitBBInTwo(inst), call'.outcome # "undefined"
    PROVE  KeepsList(call')
  <1>1. PICK L : L = TheLists
    OBVIOUS
  <1>2. PICK h : h = [kind |-> "graph", id |-> g]
    OBVIOUS
  <1>3. PICK bb : bb = parent[inst]
    OBVIOUS
  <1>4. LaidAs(L) /\ Typed
    BY <1>1, IntactIsLaid, TypesFit
  <1>5. h \in Holders /\ inst \in ToSet(L[h])
    BY <1>1, <1>2 DEF TheLists, HeadOf, List, Holders
  <1>6. CASE last_inst[bb] = inst /\ Ends("SplitBBInTwo", bb, inst, "returned")
    BY <1>6, CallSays, KeepsSays
  <1>7. ASSUME last_inst[bb] # inst, NEW new_bb \in BBs, IsNewBB(new_bb), Split(bb, inst, new_bb)
        PROVE  KeepsList(call')
    <2>1. ~Undefined("SplitBBInTwo", bb, inst)
      BY DEF Undefined, Ends
    <2>2. CASE SplitEdges(bb, new_bb).threw
      <3>1. Ends("SplitBBInTwo", bb, inst, "threw")
        BY <1>7, <2>1, <2>2 DEF Split
      <3> QED BY <3>1, CallSays, KeepsSays
    <2>3. CASE ~SplitEdges(bb, new_bb).threw
      <3>1. /\ Ends("SplitBBInTwo", bb, inst, "returned")
            /\ blocks' = blocks \cup {new_bb}
            /\ last_inst' = [last_inst EXCEPT ![new_bb] = last_inst[bb], ![bb] = inst]
            /\ parent' = [x \in Insts |-> IF x \in ToSet(Follow(next[inst])) THEN new_bb ELSE parent[x]]
            /\ next' = next
        BY <1>7, <2>1, <2>3 DEF Split
      <3>2. next[last_inst[bb]] = Null
        <4> SUFFICES ASSUME next[last_inst[bb]] # Null PROVE FALSE
          OBVIOUS
        <4> DEFINE f == L[h]
                   n == Len(f)
        <4>1. bb \in blocks /\ PieceIn(f, bb) /\ f \in Seq(Insts) /\ Chain(f) /\ n \in Nat
          <5>1. f \in Seq(Insts) /\ Chain(f)
            BY <1>4, <1>5 DEF LaidAs
          <5>2. bb \in blocks /\ PieceIn(f, bb)
            BY <1>3, <1>4, <1>5, PieceOfMember
          <5> QED BY <5>1, <5>2
        <4> HIDE DEF f
        <4>2. PICK i \in 1..n : f[i] = inst
          BY <1>5, <4>1, Entries DEF f
        <4>3. PICK a, d \in 1..n :
                /\ a <= d /\ first_inst[bb] = f[a] /\ last_inst[bb] = f[d]
                /\ \A j \in 1..n : parent[f[j]] = bb <=> a <= j /\ j <= d
          BY <4>1 DEF PieceIn
        <4>4. i < d
          <5>1. i <= d /\ i # d
            BY <1>3, <1>7, <4>2, <4>3
          <5> QED BY <5>1
        <4>5. /\ \A j \in 1..n : f[j] \in Insts
              /\ \A j \in 1 .. n - 1 : next[f[j]] = f[j + 1]
              /\ next[f[n]] = Null
          <5>1. f # <<>>
            BY <4>1, <4>2
          <5> QED BY <4>1, <5>1 DEF Chain
        <4>6. d \in 1 .. n - 1 /\ i \in 1 .. n - 1 /\ i + 1 \in 1..n /\ d + 1 \in i + 1 .. n /\ d + 1 \in 1..n
          <5>1. d # n
            BY <4>3, <4>5
          <5> QED BY <4>1, <4>4, <5>1
        <4>7. next[inst] = f[i + 1] /\ next[f[d]] = f[d + 1]
          BY <4>2, <4>5, <4>6
        <4>8. f[d + 1] \in ToSet(Follow(f[i + 1]))
          BY <1>4, <4>1, <4>5, <4>6, RestOfChain
        <4>9. parent'[f[d + 1]] = new_bb
          BY <3>1, <4>5, <4>6, <4>7, <4>8
        <4>10. last_inst'[new_bb] = f[d] /\ f[d] \in Insts /\ f[d + 1] \in Insts
          <5>1. new_bb # bb
            BY <1>7, <4>1 DEF IsNewBB
          <5> QED BY <1>4, <3>1, <4>3, <4>5, <4>6, <5>1 DEF Typed
        <4>11. Neat(new_bb)'
          BY <3>1, NeatNext
        <4> QED BY <3>1, <4>7, <4>9, <4>10, <4>11, NullIsNothing DEF Neat, Empty
      <3> QED BY <3>1, <3>2, CallSays, KeepsSays
    <2> QED BY <2>2, <2>3
  <1> QED BY <1>3, <1>6, <1>7 DEF SplitBBInTwo

\* A call that keeps the lists intact is one that KeepsList names.
LEMMA NextOnly ==
    ASSUME FreshInv, FreshInv', Ready, Next, ListIntact, ListIntact', Edits(call') PROVE KeepsList(call')
  <1>1. IInv /\ IInv' /\ call'.outcome # "undefined" /\ call'.op # "~IRGraph"
    BY DEF FreshInv, Edits
  <1>2. PointersHeld /\ PointersHeld' /\ Fresh
    BY <1>1 DEF Ready, IInv, FreshInv
  <1>3. ASSUME NEW bb \in blocks, NEW inst \in Insts, IsNew(inst), EditBlock(bb, inst) PROVE KeepsList(call')
    BY <1>1, <1>2, <1>3, ForwardOnly, BackOnly, ReplaceFirstOnly, ReplaceLastOnly DEF EditBlock
  <1>4. ASSUME NEW bb \in blocks, NEW new_bb, CopyBB(bb, new_bb) PROVE KeepsList(call')
    <2>1. call'.op = "BasicBlock"
      BY <1>4 DEF CopyBB, Undefined, Ends
    <2> QED BY <2>1, KeepsSays
  <1>5. ASSUME NEW g \in Graphs, EditGraph(g) PROVE KeepsList(call')
    <2>1. ASSUME NEW bb, NEW inst, AddBBToBegin(g, bb, inst) PROVE KeepsList(call')
      <3>1. call'.op = "AddBBToBegin"
        BY <2>1 DEF AddBBToBegin, Undefined, Ends
      <3> QED BY <3>1, KeepsSays
    <2>2. CASE DestroyGraph(g)
      BY <1>1, <2>2 DEF DestroyGraph, Undefined, Ends
    <2> QED BY <1>1, <1>2, <1>5, <2>1, <2>2, RemoveOnly, SplitOnly DEF EditGraph
  <1> QED BY <1>3, <1>4, <1>5 DEF Next

\* In any function and after any calls: a call on intact lists keeps them intact
\* exactly when KeepsList says so, all of BasicBlock's edits and IRGraph's three.
THEOREM IntactExactly == Spec => ListIntactIff
  <1>1. ASSUME FreshInv, FreshInv', Next, ListIntact, Edits(call'), vars' # vars
        PROVE  ListIntact' <=> KeepsList(call')
    <2>1. Ready
      BY <1>1 DEF Next
    <2> QED BY <1>1, <2>1, NextKept, NextOnly
  <1>2. FreshInv /\ FreshInv' /\ [Next]_vars =>
         [ListIntact /\ Edits(call') => (ListIntact' <=> KeepsList(call'))]_vars
    BY <1>1
  <1> QED BY <1>2, AlwaysFresh, PTL DEF Spec, ListIntactIff
=============================================================================
