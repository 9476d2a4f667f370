------------------------------ MODULE DomTree ------------------------------
(***************************************************************************)
(* DomTree::Run, the dominator tree by Lengauer and Tarjan, one action per *)
(* turn of each loop and per call or return of the recursive DFS.  The map *)
(* bbs_info_ is a function whose domain is the set of blocks it contains,  *)
(* so bbs_info_.at(x) throws exactly when x is outside that domain.        *)
(***************************************************************************)
EXTENDS ControlFlow

CONSTANTS Blocks, Root, Null,
          Cfgs        \* the graphs: records of succ and predec vectors, of how
                      \* often Run is called, how many edges change between
                      \* two runs and among which blocks

ASSUME CfgAssumption ==
    /\ Root \in Blocks
    /\ Null \notin Blocks
    /\ Cfgs \subseteq [succ : [Blocks -> Seq(Blocks)], predec : [Blocks -> Seq(Blocks)],
                      runs : Nat, edits : Nat, among : SUBSET Blocks]

\* Every edge is stored at both of its ends, as AddSuccWithPredec stores it, and
\* edges come and go only in graphs that have none twice.
ASSUME EdgesAssumption ==
    \A g \in Cfgs :
        /\ \A u, v \in Blocks : Occurs(g.succ, u, v) <=> Occurs(g.predec, v, u)
        /\ g.edits > 0 => MirroredEdges(g.succ, g.predec)

VARIABLES
    succ, predec,   \* the vectors of the blocks
    idom,           \* idom_ of the blocks
    dominated,      \* dominated_bbs_ of the blocks
    vertexes,       \* blocks in the order of their numbers
    info,           \* bbs_info_
    stack,          \* activations of DFS, RunStep1 itself at the bottom
    k,              \* position of the running loop over vertexes
    p,              \* position in the predecessor vector of vertexes[k]
    bucket,         \* what is left of the local COPY w_parent_info.bucket_
    pc,             \* the phase of Run
    runs, edits,    \* calls of Run, and of AddEdge or RemoveEdge, so far
    plan            \* the bounds on them, and which kinds of edit there were

graphVars == <<succ, predec>>
resultVars == <<idom, dominated>>
countVars == <<runs, edits, plan>>
vars == <<graphVars, resultVars, vertexes, info, stack, k, p, bucket, pc, countVars>>

MaybeBlock == Blocks \cup {Null}
Phases == {"start", "dfs", "forest", "preds", "bucket", "step4", "build", "done", "threw"}

\* BasicBlockInfo; id_ is written and never read.
Infos == [semi : Nat, parent : MaybeBlock, dom : MaybeBlock, label : MaybeBlock,
          ancestor : MaybeBlock, bucket : Seq(Blocks)]

NewInfo(number, parent) ==
    [semi |-> number, parent |-> parent, dom |-> Null, label |-> Null,
     ancestor |-> Null, bucket |-> <<>>]

TypeOK ==
    /\ succ \in [Blocks -> Seq(Blocks)] /\ predec \in [Blocks -> Seq(Blocks)]
    /\ idom \in [Blocks -> MaybeBlock] /\ dominated \in [Blocks -> Seq(Blocks)]
    /\ vertexes \in Seq(Blocks)
    /\ DOMAIN info \subseteq Blocks /\ \A v \in DOMAIN info : info[v] \in Infos
    /\ stack \in Seq([node : Blocks, it : Nat])
    /\ k \in Nat /\ p \in Nat /\ bucket \in Seq(Blocks)
    /\ pc \in Phases
    /\ plan \in [runs : Nat, edits : Nat, among : SUBSET Blocks, kinds : SUBSET {"added", "removed"}]
    /\ runs \in 0 .. plan.runs /\ edits \in 0 .. plan.edits

Init ==
    /\ \E g \in Cfgs :
          /\ succ = g.succ /\ predec = g.predec
          /\ plan = [runs |-> g.runs, edits |-> g.edits, among |-> g.among, kinds |-> {}]
    /\ idom = [b \in Blocks |-> Null]
    /\ dominated = [b \in Blocks |-> <<>>]
    /\ vertexes = <<>> /\ info = <<>> /\ stack = <<>>
    /\ k = 0 /\ p = 0 /\ bucket = <<>>
    /\ pc = "start" /\ runs = 0 /\ edits = 0

-----------------------------------------------------------------------------
(* RunStep1 and DFS.  The number of a block is its 0-based position in     *)
(* vertexes: cur_idx and vertexes always grow together.                    *)

Depth == Len(stack)
Top == stack[Depth]
Enter(node) == [node |-> node, it |-> 1]
Advanced == [stack EXCEPT ![Depth].it = @ + 1]

\* Run starts with RunStep1: the root gets number 0.
Run ==
    /\ pc \in {"start", "done"}
    /\ runs < plan.runs
    /\ runs' = runs + 1
    /\ vertexes' = <<Root>>
    /\ info' = [v \in {Root} |-> NewInfo(0, Null)]
    /\ stack' = <<Enter(Root)>>
    /\ pc' = "dfs"
    /\ UNCHANGED <<graphVars, resultVars, k, p, bucket, edits, plan>>

AtSuccessor == pc = "dfs" /\ Top.it <= Len(succ[Top.node])
Successor == succ[Top.node][Top.it]

\* RunStep1, the activation at depth 1, calls DFS on EVERY successor of the
\* root; only DFS itself first asks whether the block is numbered.
Calls == Depth = 1 \/ Successor \notin DOMAIN info

\* std::unordered_map::insert keeps an existing entry.
Inserted(inf, v, entry) ==
    [x \in DOMAIN inf \cup {v} |-> IF x \in DOMAIN inf THEN inf[x] ELSE entry]

\* push_back always happens, even when insert keeps the old entry.
CallDFS ==
    /\ AtSuccessor
    /\ Calls
    /\ vertexes' = Append(vertexes, Successor)
    /\ info' = Inserted(info, Successor, NewInfo(Len(vertexes), Top.node))
    /\ stack' = Append(Advanced, Enter(Successor))
    /\ UNCHANGED <<graphVars, resultVars, k, p, bucket, pc, countVars>>

\* Mutant: a numbered successor restarts the loop over the successors.
PassOverRestarts ==
    /\ AtSuccessor
    /\ ~Calls
    /\ stack' = [stack EXCEPT ![Depth].it = 1]
    /\ UNCHANGED <<graphVars, resultVars, vertexes, info, k, p, bucket, pc, countVars>>

PassOver ==
    /\ AtSuccessor
    /\ ~Calls
    /\ stack' = Advanced
    /\ UNCHANGED <<graphVars, resultVars, vertexes, info, k, p, bucket, pc, countVars>>

Return ==
    /\ pc = "dfs"
    /\ Top.it > Len(succ[Top.node])
    /\ stack' = Front(stack)
    /\ pc' = IF Depth = 1 THEN "forest" ELSE "dfs"
    /\ UNCHANGED <<graphVars, resultVars, vertexes, info, k, p, bucket, countVars>>

-----------------------------------------------------------------------------
(* RunStep2AndStep3.                                                       *)

\* Mutant: the path is shortened but labels are not improved.
CompressedKeepingLabels(inf) ==
    LET C[v \in DOMAIN inf] ==
            LET a == inf[v].ancestor
            IN IF a = Null \/ inf[a].ancestor = Null
               THEN inf[v]
               ELSE [inf[v] EXCEPT !.ancestor = C[a].ancestor]
    IN C

\* The entry of v hung below the root of its tree, with the better of its own
\* label and the one its ancestor has now; above is the ancestor's entry.
Hung(inf, v, above) ==
    [inf[v] EXCEPT !.label = IF inf[above.label].semi < inf[@].semi THEN above.label ELSE @,
                   !.ancestor = above.ancestor]

\* The root of a tree of the forest and its children stay as they are.
Stays(inf, v) == inf[v].ancestor = Null \/ inf[inf[v].ancestor].ancestor = Null

\* What Compress makes of the entry of each block.
Compressed(inf) ==
    LET C[v \in DOMAIN inf] ==
            IF Stays(inf, v) THEN inf[v] ELSE Hung(inf, v, C[inf[v].ancestor])
    IN C

\* The blocks Compress(v) visits: v and its ancestors.
WayUp(inf, v) ==
    LET W[x \in DOMAIN inf] ==
            {x} \cup IF inf[x].ancestor = Null THEN {} ELSE W[inf[x].ancestor]
    IN W[v]

\* bbs_info_ after Eval(v), and the block Eval(v) returns.
EvalInfo(inf, v) ==
    [x \in DOMAIN inf |-> IF x \in WayUp(inf, v) THEN Compressed(inf)[x] ELSE inf[x]]
Eval(inf, v) == IF inf[v].ancestor = Null THEN v ELSE Compressed(inf)[v].label

Vertex == vertexes[k]
Numbered(number) == vertexes[number + 1]

\* The first loop of the function; the second runs from the last vertex down
\* to the second.
MakeForest ==
    /\ pc = "forest"
    /\ info' = [v \in DOMAIN info |-> [info[v] EXCEPT !.ancestor = Null, !.label = v]]
    /\ IF Len(vertexes) = 1
       THEN pc' = "step4" /\ k' = 2
       ELSE pc' = "preds" /\ k' = Len(vertexes)
    /\ p' = 1
    /\ UNCHANGED <<graphVars, resultVars, vertexes, stack, bucket, countVars>>

\* Mutants: the last predecessor decides, or one the DFS has not reached is
\* left out.
LastPredecDecides ==
    /\ pc = "preds"
    /\ p <= Len(predec[Vertex])
    /\ LET u == predec[Vertex][p]
       IN IF u \notin DOMAIN info
          THEN pc' = "threw" /\ UNCHANGED <<info, p>>
          ELSE LET inf == EvalInfo(info, u)
               IN /\ info' = [inf EXCEPT ![Vertex].semi = inf[Eval(info, u)].semi]
                  /\ p' = p + 1
                  /\ UNCHANGED pc
    /\ UNCHANGED <<graphVars, resultVars, vertexes, stack, k, bucket, countVars>>

UnreachedPredecLeftOut ==
    /\ pc = "preds"
    /\ p <= Len(predec[Vertex])
    /\ LET u == predec[Vertex][p]
       IN IF u \notin DOMAIN info
          THEN UNCHANGED info
          ELSE LET inf == EvalInfo(info, u)
                   semi == inf[Eval(info, u)].semi
               IN info' = [inf EXCEPT ![Vertex].semi = IF semi < @ THEN semi ELSE @]
    /\ p' = p + 1
    /\ UNCHANGED <<graphVars, resultVars, vertexes, stack, k, bucket, pc, countVars>>

\* One predecessor lowers the semidominator.  A predecessor the DFS has not
\* reached is not in bbs_info_, and at() throws.
EvalPredec ==
    /\ pc = "preds"
    /\ p <= Len(predec[Vertex])
    /\ LET u == predec[Vertex][p]
       IN IF u \notin DOMAIN info
          THEN pc' = "threw" /\ UNCHANGED <<info, p>>
          ELSE LET inf == EvalInfo(info, u)
                   semi == inf[Eval(info, u)].semi
               IN /\ info' = [inf EXCEPT ![Vertex].semi = IF semi < @ THEN semi ELSE @]
                  /\ p' = p + 1
                  /\ UNCHANGED pc
    /\ UNCHANGED <<graphVars, resultVars, vertexes, stack, k, bucket, countVars>>

\* Mutant: operator[] instead of at() for the parent, which makes an entry
\* for the null pointer.
LinkVertexInserting ==
    /\ pc = "preds"
    /\ p > Len(predec[Vertex])
    /\ LET parent == info[Vertex].parent
           put == [info EXCEPT ![Numbered(info[Vertex].semi)].bucket = Append(@, Vertex)]
           linked == Inserted([put EXCEPT ![Vertex].ancestor = parent], parent, NewInfo(0, Null))
       IN info' = linked /\ bucket' = linked[parent].bucket
    /\ pc' = "bucket"
    /\ UNCHANGED <<graphVars, resultVars, vertexes, stack, k, p, countVars>>

\* The vertex enters the bucket of its semidominator and is linked to its
\* parent, whose entry is then COPIED.  The root has no parent: at() throws.
LinkVertex ==
    /\ pc = "preds"
    /\ p > Len(predec[Vertex])
    /\ LET parent == info[Vertex].parent
           put == [info EXCEPT ![Numbered(info[Vertex].semi)].bucket = Append(@, Vertex)]
       IN /\ info' = [put EXCEPT ![Vertex].ancestor = parent]
          /\ IF parent = Null
             THEN pc' = "threw" /\ UNCHANGED bucket
             ELSE pc' = "bucket" /\ bucket' = put[parent].bucket
    /\ UNCHANGED <<graphVars, resultVars, vertexes, stack, k, p, countVars>>

\* Mutant: the vertex instead of its parent becomes the dominator.
EmptyBucketIntoVertex ==
    /\ pc = "bucket"
    /\ bucket # <<>>
    /\ LET v == Last(bucket)
           u == Eval(info, v)
           inf == EvalInfo(info, v)
       IN info' = [inf EXCEPT ![v].dom = IF inf[u].semi < inf[v].semi THEN u ELSE Vertex]
    /\ bucket' = Front(bucket)
    /\ UNCHANGED <<graphVars, resultVars, vertexes, stack, k, p, pc, countVars>>

\* One block of the copied bucket gets its dominator, or the block that has
\* the same dominator.  The real bucket is never emptied.
EmptyBucket ==
    /\ pc = "bucket"
    /\ bucket # <<>>
    /\ LET v == Last(bucket)
           u == Eval(info, v)
           inf == EvalInfo(info, v)
           dom == IF inf[u].semi < inf[v].semi THEN u ELSE info[Vertex].parent
       IN info' = [inf EXCEPT ![v].dom = dom]
    /\ bucket' = Front(bucket)
    /\ UNCHANGED <<graphVars, resultVars, vertexes, stack, k, p, pc, countVars>>

NextVertex ==
    /\ pc = "bucket"
    /\ bucket = <<>>
    /\ IF k = 2
       THEN pc' = "step4" /\ k' = 2
       ELSE pc' = "preds" /\ k' = k - 1
    /\ p' = 1
    /\ UNCHANGED <<graphVars, resultVars, vertexes, info, stack, bucket, countVars>>

-----------------------------------------------------------------------------
(* RunStep4, BuildDomTree and the end of Run.                              *)

\* Mutant: the deferred dominators are never looked up.
FixDomSkipped ==
    /\ pc = "step4"
    /\ k <= Len(vertexes)
    /\ k' = k + 1
    /\ UNCHANGED <<graphVars, resultVars, vertexes, info, stack, p, bucket, pc, countVars>>

\* A dominator that is not the semidominator is replaced by its own.
FixDom ==
    /\ pc = "step4"
    /\ k <= Len(vertexes)
    /\ LET dom == info[Vertex].dom
       IN IF dom = Numbered(info[Vertex].semi)
          THEN UNCHANGED <<info, pc>>
          ELSE IF dom \in DOMAIN info
               THEN info' = [info EXCEPT ![Vertex].dom = info[dom].dom] /\ UNCHANGED pc
               ELSE pc' = "threw" /\ UNCHANGED info
    /\ k' = k + 1
    /\ UNCHANGED <<graphVars, resultVars, vertexes, stack, p, bucket, countVars>>

ClearRootDom ==
    /\ pc = "step4"
    /\ k > Len(vertexes)
    /\ info' = [info EXCEPT ![Root].dom = Null]
    /\ pc' = "build" /\ k' = 1
    /\ UNCHANGED <<graphVars, resultVars, vertexes, stack, p, bucket, countVars>>

\* Mutant: the vertex replaces what the dominator has listed.
BuildVertexReplacing ==
    /\ pc = "build"
    /\ k <= Len(vertexes)
    /\ LET dom == info[Vertex].dom
       IN /\ idom' = [idom EXCEPT ![Vertex] = dom]
          /\ dominated' = IF dom = Null THEN dominated ELSE [dominated EXCEPT ![dom] = <<Vertex>>]
    /\ k' = k + 1
    /\ UNCHANGED <<graphVars, vertexes, info, stack, p, bucket, pc, countVars>>

\* The result goes into the blocks: idom_ is overwritten, dominated_bbs_ of
\* the dominator only grows.
BuildVertex ==
    /\ pc = "build"
    /\ k <= Len(vertexes)
    /\ LET dom == info[Vertex].dom
       IN /\ idom' = [idom EXCEPT ![Vertex] = dom]
          /\ dominated' = IF dom = Null THEN dominated ELSE PushBack(dominated, dom, Vertex)
    /\ k' = k + 1
    /\ UNCHANGED <<graphVars, vertexes, info, stack, p, bucket, pc, countVars>>

Finish ==
    /\ pc = "build"
    /\ k > Len(vertexes)
    /\ vertexes' = <<>> /\ info' = <<>>
    /\ pc' = "done"
    /\ UNCHANGED <<graphVars, resultVars, stack, k, p, bucket, countVars>>

-----------------------------------------------------------------------------
\* Between two runs the client may add an edge, as IRGraph::AddEdge lets it,
\* or remove one.  It removes only edges that are stored last at both ends: any
\* other call of RemoveEdge removes something else (see IRGraphEdges).
Edit(kind) ==
    /\ pc \in {"start", "done"} /\ runs \in 1 .. plan.runs - 1 /\ edits < plan.edits
    /\ edits' = edits + 1
    /\ plan' = [plan EXCEPT !.kinds = @ \cup {kind}]
    /\ pc' = "start"
    /\ UNCHANGED <<resultVars, vertexes, info, stack, k, p, bucket, runs>>

AddEdge(from, to) ==
    /\ Len(succ[from]) < 2 /\ ~Occurs(succ, from, to)
    /\ succ' = PushBack(succ, from, to)
    /\ predec' = PushBack(predec, to, from)
    /\ Edit("added")

RemoveEdge(from, to) ==
    /\ Occurs(succ, from, to) /\ Last(succ[from]) = to /\ Last(predec[to]) = from
    /\ succ' = PopBack(succ, from)
    /\ predec' = PopBack(predec, to)
    /\ Edit("removed")

\* The client is done with the analysis, or an exception has left Run.
Ended == (pc = "threw" \/ (pc = "done" /\ runs = plan.runs)) /\ UNCHANGED vars

Steps ==
    \/ Run \/ CallDFS \/ PassOver \/ Return
    \/ MakeForest \/ EvalPredec \/ LinkVertex \/ EmptyBucket \/ NextVertex
    \/ FixDom \/ ClearRootDom \/ BuildVertex \/ Finish

Edits == \E from, to \in plan.among : AddEdge(from, to) \/ RemoveEdge(from, to)

Next == Steps \/ Edits \/ Ended

Spec == Init /\ [][Next]_vars
FairSpec == Spec /\ WF_vars(Steps)

-----------------------------------------------------------------------------
(* Properties.                                                             *)

Reachable == ReachFrom(succ, Root)

\* Some successor of the root is already numbered when RunStep1 comes to it:
\* the root is its own successor, or an earlier successor leads there.
NumbersTwice ==
    \E j \in DOMAIN succ[Root] :
        \/ succ[Root][j] = Root
        \/ \E i \in 1 .. j - 1 : succ[Root][j] \in ReachAvoiding(succ, succ[Root][i], {Root})

\* The number of a block; of two numbers the one that bbs_info_ knows.
NumberIn(order, v) ==
    CHOOSE n \in 0 .. Len(order) - 1 :
        order[n + 1] = v /\ \A m \in 0 .. n - 1 : order[m + 1] # v
Number(v) == NumberIn(vertexes, v)

\* The blocks from which a path leads to v whose inner blocks all have greater
\* numbers than v; the semidominator is the smallest number of one of them.
Starts(v) ==
    LET low == {u \in ToSet(vertexes) : Number(u) <= Number(v)}
    IN {u \in ToSet(vertexes) :
          \E x \in ToSet(succ[u]) :
             \/ x = v
             \/ x \notin low /\ v \in ReachAvoiding(succ, x, low)}

Semidominator(v) == Min({Number(u) : u \in Starts(v)})

\* The semidominators, the heart of the algorithm, are right when the loop
\* over the vertexes is through.
SemidominatorsCorrect ==
    pc = "step4" /\ k = 2 /\ ~NumbersTwice =>
        \A v \in ToSet(vertexes) \ {Root} : info[v].semi = Semidominator(v)

\* No block is given an idom that does not dominate it, not even when some
\* block was numbered twice.
IdomsDominate ==
    pc = "build" =>
        \A v \in ToSet(vertexes) \ {Root} :
            StrictlyDominates(succ, Root, info[v].dom, v)

\* Run throws for two kinds of graph and no other: the root is its own
\* successor, or a reachable block has an unreachable predecessor.
HasUnreachablePredec ==
    \E v \in Reachable \ {Root} : ~(ToSet(predec[v]) \subseteq Reachable)

ThrowsExactlyOn ==
    /\ pc = "threw" => Occurs(succ, Root, Root) \/ HasUnreachablePredec
    /\ pc = "build" => ~Occurs(succ, Root, Root) /\ ~HasUnreachablePredec

\* Run returns or throws, on every graph.
Terminates == <>[](pc \in {"done", "threw"})

\* BasicBlock::IsDominated(v) called on u: v is found below u in the lists.
IsDominated(u, v) ==
    \E x \in ToSet(dominated[u]) : v \in ReachFrom(dominated, x)

\* What the tree in the blocks is for: after a first run GetIdom gives the
\* immediate dominator and IsDominated answers the question of dominance
\* between reachable blocks, unless a block was numbered twice.
TreeAnswersDominance ==
    pc = "done" /\ runs = 1 /\ ~NumbersTwice =>
        /\ idom[Root] = Null
        /\ \A v \in Reachable \ {Root} : IsImmediateDominator(succ, Root, idom[v], v)
        /\ \A u, v \in Reachable :
              IsDominated(u, v) <=> StrictlyDominates(succ, Root, u, v)

\* The tree is the dominator tree on every graph that does not throw.
BuildsDominatorTree ==
    pc = "done" => \A v \in Reachable \ {Root} : IsImmediateDominator(succ, Root, idom[v], v)

\* After any run the lists still say yes to every true dominance: what a
\* rerun after an added or removed edge leaves stale can only be a yes too many.
ListsNeverMissDominance ==
    pc = "done" /\ ~NumbersTwice =>
        \A u, v \in Reachable :
            StrictlyDominates(succ, Root, u, v) => IsDominated(u, v)

\* The recursion of IsDominated, which knows no visited blocks, comes to an
\* end: no block is below itself in the lists, however often the tree is built
\* and even where blocks were numbered twice, as long as the client does not
\* both add and remove edges in between.
IsDominatedEnds ==
    pc = "done" /\ plan.kinds # {"added", "removed"} =>
        \A u \in Blocks : ~IsDominated(u, u)

=============================================================================
