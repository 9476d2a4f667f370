-------------------------- MODULE DomTreeInvariant --------------------------
(***************************************************************************)
(* The inductive invariant of DomTree, phase by phase: the tree of the DFS *)
(* and its numbers, the forest of Link and Compress over it, and what the  *)
(* dominators are while they are being found.                              *)
(***************************************************************************)
EXTENDS DomTree

-----------------------------------------------------------------------------
(* The inductive invariant: the graph and the walk of the DFS.             *)

InStep ==
    /\ \A u, v \in Blocks : Occurs(succ, u, v) <=> Occurs(predec, v, u)
    /\ plan.edits > 0 => MirroredEdges(succ, predec)

Walked == DOMAIN info
Parent == [v \in Walked |-> info[v].parent]
Above(v) == UpFrom(Parent, v)

NumbersShape ==
    /\ vertexes # <<>> /\ vertexes[1] = Root
    /\ ToSet(vertexes) = Walked

\* The tree of the DFS, numbered from the root down.
TreeShape ==
    /\ Parent[Root] = Null
    /\ \A v \in Walked \ {Root} :
          /\ Parent[v] \in Walked /\ Number(Parent[v]) < Number(v)
          /\ Occurs(succ, Parent[v], v)

\* An edge to a greater number leads down the tree.
EdgesDown ==
    \A u \in Walked : \A v \in ToSet(succ[u]) \cap Walked :
        Number(u) < Number(v) => u \in Above(v)

\* The blocks below one block have numbers without a gap.
Intervals ==
    \A a, b, c \in Walked :
        a \in Above(c) /\ Number(a) <= Number(b) /\ Number(b) <= Number(c) => a \in Above(b)

\* Only successors of the root are numbered a second time, and then every
\* block but the root is closed: no later block comes below an earlier one.
Second(j) == Number(vertexes[j]) # j - 1
Split(j) == \A v \in Walked : Number(v) >= j => \A a \in Above(v) \ {Root} : Number(a) >= j

SecondNumbers ==
    \A j \in DOMAIN vertexes : Second(j) => Occurs(succ, Root, vertexes[j]) /\ Split(j)

WalkedReachable == Walked \subseteq Reachable

Tree == NumbersShape /\ TreeShape /\ EdgesDown /\ Intervals /\ SecondNumbers /\ WalkedReachable

RootTwice == \E j \in 2 .. Len(vertexes) : vertexes[j] = Root

\* bbs_info_ as the DFS leaves it.
Fresh == \A v \in Walked : info[v] = NewInfo(Number(v), Parent[v])

FramesShape ==
    /\ stack # <<>> /\ stack[1].node = Root
    /\ \A j \in DOMAIN stack : stack[j].it > 0 /\ stack[j].node \in Walked

Passed ==
    /\ \A j \in DOMAIN stack : \A m \in DOMAIN succ[stack[j].node] :
          m < stack[j].it => succ[stack[j].node][m] \in Walked
    /\ \A m \in DOMAIN succ[Root] : m < stack[1].it /\ succ[Root][m] = Root => RootTwice

Finished(u) == ToSet(succ[u]) \subseteq Walked

OpenOrFinished == \A u \in Walked : Finished(u) \/ \E j \in DOMAIN stack : stack[j].node = u

ActiveChain ==
    \A j, m \in DOMAIN stack : j <= m => stack[j].node \in Above(stack[m].node)

\* All blocks with greater numbers are below a: it is still open.
Spans(a) == \A x \in Walked : Number(a) <= Number(x) => a \in Above(x)
AfterSeconds(a) == \A j \in DOMAIN vertexes : Second(j) => Number(a) >= j
Open(a) == Spans(a) /\ (a # Root => AfterSeconds(a))

\* Only a block numbered a second time is active when it is closed.
ActiveSpan ==
    \A j \in DOMAIN stack :
        \/ \A a \in Above(stack[j].node) : Open(a)
        \/ j = 2 /\ Len(stack) = 2 /\ Finished(stack[2].node)

Walking == FramesShape /\ Passed /\ OpenOrFinished /\ ActiveChain /\ ActiveSpan

AllWalked ==
    /\ \A u \in Walked : Finished(u)
    /\ Occurs(succ, Root, Root) => RootTwice

WalkInv ==
    /\ InStep
    /\ pc \notin {"start", "done"} => Tree
    /\ pc = "dfs" => Walking /\ Fresh
    /\ pc \notin {"start", "dfs", "done"} => AllWalked
    /\ pc = "forest" => Fresh

-----------------------------------------------------------------------------
(* The forest of Link, Eval and Compress.                                  *)

Semi(v) == info[v].semi
Linked(v) == info[v].ancestor # Null
Handled(j) == j > k \/ (j = k /\ pc = "bucket")

\* The blocks below a on the way up from v, which are what Eval looks at.
Between(v, a) == Above(v) \ Above(a)

\* v hangs below a, and l is the lowest block with the least semidominator of
\* the linked ones between.
Hangs(v, a, l) ==
    /\ a \in Above(v) \ {v}
    /\ l \in Between(v, a)
    /\ \A x \in Between(v, a) :
          /\ Linked(x)
          /\ Semi(l) <= Semi(x)
          /\ x \notin Above(l) => Semi(l) < Semi(x)

LinkedWhenHandled ==
    \A v \in Walked : Linked(v) <=> \E j \in DOMAIN vertexes : Handled(j) /\ vertexes[j] = v

ForestShape ==
    \A v \in Walked :
        IF Linked(v)
        THEN Hangs(v, info[v].ancestor, info[v].label)
        ELSE /\ info[v].label = v
             /\ v # Vertex \/ pc # "preds" => Semi(v) = Number(v)

\* The block whose number is the semidominator of v.
SemiBlock(v) == Numbered(Semi(v))
SemiAbove == \A v \in Walked : \E y \in Above(v) : Semi(v) = Number(y)

\* What a predecessor u says about the semidominator of w.
Bounds(u, w) == \A x \in Above(u) : Number(x) > Number(w) => Semi(w) <= Semi(x)

PredecsBound ==
    \A w \in Walked : Linked(w) =>
        \A u \in ToSet(predec[w]) : u \in Walked /\ Semi(w) <= Number(u) /\ Bounds(u, w)

PredecsSeen ==
    pc = "preds" => \A q \in DOMAIN predec[Vertex] : q < p =>
        LET u == predec[Vertex][q]
        IN /\ u \in Walked /\ Semi(Vertex) <= Number(u)
           /\ k = Number(Vertex) + 1 => Bounds(u, Vertex)

\* A semidominator is not linked before its turn, the root never.
SemisWait ==
    \A w \in Walked : LET y == SemiBlock(w) IN Linked(y) => y # Root /\ Number(y) + 1 >= k

Buckets ==
    /\ \A y \in Walked : \A w \in ToSet(info[y].bucket) : w \in Walked /\ Linked(w) /\ SemiBlock(w) = y
    /\ \A w \in Walked : Linked(w) => w \in ToSet(info[SemiBlock(w)].bucket)
    /\ pc = "bucket" => Vertex # Root /\ ToSet(bucket) \subseteq ToSet(info[Parent[Vertex]].bucket)

-----------------------------------------------------------------------------
(* The dominators.                                                         *)

\* What EmptyBucket leaves: the semidominator, or a block with the same
\* dominator.
Deferred(w) ==
    LET dom == info[w].dom
        between == Between(w, SemiBlock(w))
    IN \/ dom = SemiBlock(w) /\ \A x \in between : Semi(w) <= Semi(x)
       \/ /\ dom \in between /\ Semi(dom) < Semi(w)
          /\ \A x \in between : Semi(dom) <= Semi(x)

\* w leaves the bucket when the block below its semidominator is handled.
BucketsEmptied ==
    \A w \in Walked : Linked(w) =>
        \A c \in Above(w) \ {Root} :
            /\ Parent[c] = SemiBlock(w)
            /\ Number(c) + 1 > k \/ (Number(c) + 1 = k /\ pc = "bucket" /\ w \notin ToSet(bucket))
            => Deferred(w)

Resolved(w) ==
    LET dom == info[w].dom
    IN /\ dom \in Above(w) /\ Number(dom) <= Semi(w)
       /\ StrictlyDominates(succ, Root, dom, w)

Semis == SemiAbove /\ PredecsBound

ForestInv ==
    /\ k \in 2 .. Len(vertexes) /\ p > 0
    /\ ~Linked(Root)
    /\ LinkedWhenHandled /\ ForestShape /\ Semis /\ PredecsSeen /\ SemisWait
    /\ Buckets /\ BucketsEmptied

AllLinked == ~RootTwice /\ Semis /\ \A w \in Walked \ {Root} : Linked(w)

IInv ==
    /\ TypeOK /\ WalkInv
    /\ pc \in {"preds", "bucket"} => ForestInv
    /\ pc \in {"step4", "build"} => AllLinked /\ k > 0
    /\ pc = "step4" => k > 1 /\ \A w \in Walked \ {Root} :
                                    IF Number(w) + 1 < k THEN Resolved(w) ELSE Deferred(w)
    /\ pc = "build" => info[Root].dom = Null /\ \A w \in Walked \ {Root} : Resolved(w)
    /\ pc = "threw" => ThrowsExactlyOn

-----------------------------------------------------------------------------
(* What more there is where no block is numbered twice: semidominators are *)
(* reached, dominators immediate; and what the lists of the blocks say.    *)

\* The blocks with a number are those some successor of the root, called
\* already, leads to around the root.
Called ==
    \A v \in Walked \ {Root} :
        \E m \in DOMAIN succ[Root] :
            m < stack[1].it /\ v \in ReachAvoiding(succ, succ[Root][m], {Root})

NumberedOnce ==
    /\ \A j \in DOMAIN vertexes : ~Second(j)
    /\ pc = "dfs" => Called /\ \A j \in DOMAIN stack : j > 1 => stack[j].node # Root

\* A semidominator is never less than what some path explains.
SemisReached == \A w \in Walked : Semi(w) = Number(w) \/ SemiBlock(w) \in Starts(w)

Immediate(w) ==
    \A c \in Walked :
        StrictlyDominates(succ, Root, c, w) => Dominates(succ, Root, c, info[w].dom)

WhereOnce ==
    /\ pc \notin {"start", "threw", "done"} => NumberedOnce
    /\ pc \in {"preds", "bucket", "step4"} => SemisReached
    /\ pc \in {"step4", "build"} =>
          \A w \in Walked \ {Root} : Number(w) + 1 < k \/ pc = "build" => Immediate(w)

\* The blocks before position k have their result.
Listed ==
    \A j \in DOMAIN vertexes : j < k =>
        LET v == vertexes[j]
        IN /\ idom[v] = info[v].dom
           /\ v # Root => v \in ToSet(dominated[info[v].dom])

\* The first run finds empty lists.
OnlyListed ==
    \A u \in Blocks : \A v \in ToSet(dominated[u]) :
        pc = "build" /\ v \in Walked \ {Root} /\ info[v].dom = u

FirstLists ==
    /\ runs = 0 => pc = "start"
    /\ runs = 0 \/ (runs = 1 /\ pc \notin {"start", "done"}) => OnlyListed

Exact ==
    /\ ~NumbersTwice => WhereOnce
    /\ pc = "build" => Listed
    /\ FirstLists
    /\ TreeAnswersDominance /\ ListsNeverMissDominance
-----------------------------------------------------------------------------
(* The lists end, however often they are built.                            *)

\* Dominance between reachable blocks is in R; R holds no more than that about
\* them; R is about reachable blocks only.
HoldsDominance(graph, R) ==
    \A u \in Blocks : \A v \in ReachFrom(graph, Root) :
        StrictlyDominates(graph, Root, u, v) => <<u, v>> \in R

OnlyDominance(graph, R) ==
    \A u \in Blocks : \A v \in ReachFrom(graph, Root) :
        <<u, v>> \in R => StrictlyDominates(graph, Root, u, v)

OnlyReached(graph, R) ==
    \A u, v \in Blocks : <<u, v>> \in R => {u, v} \subseteq ReachFrom(graph, Root)

StrictOrder(R) ==
    /\ \A u \in Blocks : <<u, u>> \notin R
    /\ \A u, v, w \in Blocks : <<u, v>> \in R /\ <<v, w>> \in R => <<u, w>> \in R

\* R has room for the dominance of every graph there was.  Added edges take
\* dominance away between blocks that were reachable, removed ones between
\* blocks that are so no more: R tells the two kinds of pairs apart as long as
\* there are edits of one kind only.
Orders(R) ==
    /\ StrictOrder(R) /\ HoldsDominance(succ, R)
    /\ \A u, v \in Blocks : v \in ToSet(dominated[u]) => <<u, v>> \in R
    /\ "added" \notin plan.kinds => OnlyDominance(succ, R)
    /\ "removed" \notin plan.kinds => OnlyReached(succ, R)

ListsOrdered ==
    plan.kinds # {"added", "removed"} => \E R \in SUBSET (Blocks \X Blocks) : Orders(R)
=============================================================================
