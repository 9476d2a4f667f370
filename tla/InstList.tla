------------------------------ MODULE InstList ------------------------------
(***************************************************************************)
(* The calls that edit the code of IRGraphs: the doubly linked lists of    *)
(* instructions, the blocks that cut them into pieces and, in SplitBBInTwo *)
(* and AddBBToBegin, the edges between them.  One action is one call.      *)
(* The outcome of a call is "undefined" when it reads through a pointer    *)
(* to nothing, to a deleted instruction or to whatever an unassigned field *)
(* holds (Wild), or follows a cycle for ever: nothing is said of what      *)
(* comes after it.                                                         *)
(***************************************************************************)
EXTENDS GraphNode, FiniteSets

CONSTANTS Layouts,    \* graphs to start from
          MaxInsts,   \* bound on the instructions ever made
          MaxBBs,     \* bound on the blocks ever made
          MaxGraphs,  \* how many graphs there may be
          MaxCalls,   \* bound on the number of calls
          Wild        \* what an unassigned field holds, if not nullptr

Null == 0
Insts == 1..MaxInsts
BBs == 1..MaxBBs
MaybeInst == Insts \cup {Null}
Links == MaybeInst \cup {Wild}
Graphs == 1..MaxGraphs

\* The blocks of the instructions, which are numbered from 1 through all of the
\* graphs, the graphs of the blocks, and the edges.
Layout == [owner : Seq(BBs), graph : Seq(Graphs), succ : [BBs -> Seq(BBs)], predec : [BBs -> Seq(BBs)]]

\* One graph follows the other, and in a graph one block the other.
InOrder(s) == \A i, j \in DOMAIN s : i <= j => s[i] <= s[j]

\* No block is empty or has more than two successors, and no edge leaves or
\* enters a block that does not exist.
Fits(layout) ==
    /\ Len(layout.owner) <= MaxInsts /\ Len(layout.graph) <= MaxBBs
    /\ InOrder(layout.owner) /\ InOrder(layout.graph)
    /\ ToSet(layout.owner) = DOMAIN layout.graph
    /\ \A bb \in BBs :
          /\ Len(layout.succ[bb]) <= 2 /\ ToSet(layout.succ[bb]) \subseteq DOMAIN layout.graph
          /\ bb \notin DOMAIN layout.graph => layout.succ[bb] = <<>> /\ layout.predec[bb] = <<>>

ASSUME LayoutAssumption ==
    /\ MaxInsts \in Nat /\ MaxBBs \in Nat /\ MaxGraphs \in Nat \ {0} /\ MaxCalls \in Nat
    /\ Wild \notin MaybeInst \cup Graphs
    /\ Layouts \subseteq Layout /\ \A layout \in Layouts : Fits(layout)

VARIABLES
    next, prev,              \* next_ and prev_ of the instructions
    parent,                  \* parent_bb_, Null until a block takes them
    deleted,                 \* instructions deleted so far
    blocks,                  \* the BasicBlocks made so far
    first_inst, last_inst,   \* of the blocks
    graph_,                  \* the graph the blocks know, if any
    succ, predec,            \* their edge vectors
    first, last,             \* first_ and last_ of the graphs
    root, bb_set,            \* root_ and bb_set_ of the graphs
    call, calls              \* the last call, and how many there were

linkVars == <<next, prev, parent, deleted>>
blockVars == <<blocks, first_inst, last_inst, graph_>>
edgeVars == <<succ, predec>>
graphVars == <<first, last, root, bb_set>>
vars == <<linkVars, blockVars, edgeVars, graphVars, call, calls>>

\* Graphs as the constructor makes them, with any edges added since.  An
\* instruction in no list yet has zeroed links or wild ones, depending on the
\* memory it was made in, and zeroed says which: its constructor assigns neither.
Laid(layout, zeroed) ==
    LET insts == DOMAIN layout.owner
        own(bb) == {x \in insts : layout.owner[x] = bb}
        list(g) == {x \in insts : layout.graph[layout.owner[x]] = g}
        linked(x, y) == y \in insts /\ \E g \in Graphs : {x, y} \subseteq list(g)
        link(x, y) == IF x \in insts THEN IF linked(x, y) THEN y ELSE Null
                                     ELSE IF x \in zeroed THEN Null ELSE Wild
    IN /\ next = [x \in Insts |-> link(x, x + 1)] /\ prev = [x \in Insts |-> link(x, x - 1)]
       /\ parent = [x \in Insts |-> IF x \in insts THEN layout.owner[x] ELSE Null]
       /\ deleted = {}
       /\ blocks = DOMAIN layout.graph
       /\ first_inst = [bb \in BBs |-> IF bb \in blocks THEN Min(own(bb)) ELSE Null]
       /\ last_inst = [bb \in BBs |-> IF bb \in blocks THEN Max(own(bb)) ELSE Null]
       /\ graph_ = [bb \in BBs |-> IF bb \in blocks THEN layout.graph[bb] ELSE Null]
       /\ succ = layout.succ /\ predec = layout.predec
       /\ bb_set = [g \in Graphs |-> {bb \in blocks : layout.graph[bb] = g}]
       /\ root = [g \in Graphs |-> IF bb_set[g] = {} THEN Null ELSE Min(bb_set[g])]
       /\ first = [g \in Graphs |-> IF bb_set[g] = {} THEN Null ELSE Min(list(g))]
       /\ last = [g \in Graphs |-> IF bb_set[g] = {} THEN Null ELSE Max(list(g))]
       /\ call = [op |-> "IRGraph", bb |-> Null, inst |-> Null, outcome |-> "returned"]
       /\ calls = 0

Init == \E layout \in Layouts, zeroed \in SUBSET Insts : Laid(layout, zeroed)

Ops == {"IRGraph", "InsertInstForward", "InsertInstBack", "ReplaceFirstInst", "ReplaceLastInst",
        "RemoveNonCFGOrSideInst", "SplitBBInTwo", "AddBBToBegin", "BasicBlock", "~IRGraph"}

TypeOK ==
    /\ next \in [Insts -> Links] /\ prev \in [Insts -> Links]
    /\ parent \in [Insts -> BBs \cup {Null}] /\ deleted \subseteq Insts
    /\ blocks \subseteq BBs /\ graph_ \in [BBs -> Graphs \cup {Null, Wild}]
    /\ first_inst \in [BBs -> Links] /\ last_inst \in [BBs -> Links]
    /\ succ \in [BBs -> Seq(BBs)] /\ predec \in [BBs -> Seq(BBs)]
    /\ first \in [Graphs -> Links] /\ last \in [Graphs -> Links]
    /\ bb_set \in [Graphs -> SUBSET BBs] /\ \A g \in Graphs : root[g] \in bb_set[g] \cup {Null}
    /\ call \in [op : Ops, bb : BBs \cup {Null}, inst : MaybeInst,
                 outcome : {"returned", "threw", "undefined"}]

-----------------------------------------------------------------------------
(* Pointers.                                                               *)

\* x points to an instruction that exists.
Valid(x) == x \in Insts \ deleted

\* The instructions met from x on through next_, as far as pointers are valid.
Follow(x) ==
    LET further == [y \in Links |-> IF Valid(y) THEN next[y] ELSE y]
        At[n \in Insts] == IF n = 1 THEN x ELSE further[At[n - 1]]
    IN [n \in {m \in Insts : Valid(At[m])} |-> At[n]]

\* Following next_ from x ends at nullptr.
EndsInNull(x) == IF Follow(x) = <<>> THEN x = Null ELSE next[Last(Follow(x))] = Null

List(g) == Follow(first[g])

-----------------------------------------------------------------------------
(* Calls.                                                                  *)

\* Calls are made one after the other until one has no defined meaning.
Ready == call.outcome # "undefined" /\ call.op # "~IRGraph" /\ calls < MaxCalls

Ends(op, bb, inst, outcome) ==
    /\ call' = [op |-> op, bb |-> bb, inst |-> inst, outcome |-> outcome]
    /\ calls' = calls + 1

Undefined(op, bb, inst) ==
    /\ Ends(op, bb, inst, "undefined")
    /\ UNCHANGED <<linkVars, blockVars, edgeVars, graphVars>>

\* The client makes its instructions and blocks one after the other.
IsNew(inst) == parent[inst] = Null /\ \A x \in 1 .. inst - 1 : parent[x] # Null
IsNewBB(bb) == bb \notin blocks /\ 1 .. bb - 1 \subseteq blocks

\* How first_ or last_ of the graph that bb knows is moved to inst: when it
\* equals what the field of inst holds; a wild value may be anything.
Moved(pointers, bb, field, inst) ==
    LET g == graph_[bb]
        moved == [pointers EXCEPT ![g] = inst]
    IN IF g \notin Graphs THEN {pointers}
       ELSE IF field = Wild THEN {pointers, moved}
       ELSE IF pointers[g] = field THEN {moved} ELSE {pointers}

\* A call on bb has no defined meaning when the pointers it follows are not
\* sound, and when it follows a graph_ nothing has assigned; that one may also
\* be zero, and then the call does without a graph.
Fails(bb, sound) == ~sound \/ graph_[bb] = Wild

\* Mutant: the instruction is not told its block.
InsertInstBackOrphan(bb, inst) ==
    LET sound == first_inst[bb] # Null => Valid(last_inst[bb])
    IN \/ Fails(bb, sound) /\ Undefined("InsertInstBack", bb, inst)
       \/ /\ sound
          /\ last_inst' = [last_inst EXCEPT ![bb] = inst]
          /\ IF first_inst[bb] = Null
             THEN first_inst' = [first_inst EXCEPT ![bb] = inst] /\ UNCHANGED <<next, prev>>
             ELSE /\ next' = [next EXCEPT ![last_inst[bb]] = inst]
                  /\ prev' = [prev EXCEPT ![inst] = last_inst[bb]]
                  /\ UNCHANGED first_inst
          /\ last' \in Moved(last, bb, prev'[inst], inst)
          /\ Ends("InsertInstBack", bb, inst, "returned")
          /\ UNCHANGED <<parent, deleted, blocks, graph_, edgeVars, first, root, bb_set>>

\* Mutant: the old first instruction is not told of its new neighbour.
InsertInstForwardOneWay(bb, inst) ==
    LET sound == first_inst[bb] # Null => Valid(first_inst[bb])
    IN \/ Fails(bb, sound) /\ Undefined("InsertInstForward", bb, inst)
       \/ /\ sound
          /\ parent' = [parent EXCEPT ![inst] = bb]
          /\ first_inst' = [first_inst EXCEPT ![bb] = inst]
          /\ IF first_inst[bb] = Null
             THEN last_inst' = [last_inst EXCEPT ![bb] = inst] /\ UNCHANGED next
             ELSE next' = [next EXCEPT ![inst] = first_inst[bb]] /\ UNCHANGED last_inst
          /\ first' \in Moved(first, bb, next'[inst], inst)
          /\ Ends("InsertInstForward", bb, inst, "returned")
          /\ UNCHANGED <<prev, deleted, blocks, graph_, edgeVars, last, root, bb_set>>

\* Only the block's own first instruction is linked to the new one.
InsertInstForward(bb, inst) ==
    LET sound == first_inst[bb] # Null => Valid(first_inst[bb])
    IN \/ Fails(bb, sound) /\ Undefined("InsertInstForward", bb, inst)
       \/ /\ sound
          /\ parent' = [parent EXCEPT ![inst] = bb]
          /\ first_inst' = [first_inst EXCEPT ![bb] = inst]
          /\ IF first_inst[bb] = Null
             THEN last_inst' = [last_inst EXCEPT ![bb] = inst] /\ UNCHANGED <<next, prev>>
             ELSE /\ prev' = [prev EXCEPT ![first_inst[bb]] = inst]
                  /\ next' = [next EXCEPT ![inst] = first_inst[bb]]
                  /\ UNCHANGED last_inst
          /\ first' \in Moved(first, bb, next'[inst], inst)
          /\ Ends("InsertInstForward", bb, inst, "returned")
          /\ UNCHANGED <<deleted, blocks, graph_, edgeVars, last, root, bb_set>>

InsertInstBack(bb, inst) ==
    LET sound == first_inst[bb] # Null => Valid(last_inst[bb])
    IN \/ Fails(bb, sound) /\ Undefined("InsertInstBack", bb, inst)
       \/ /\ sound
          /\ parent' = [parent EXCEPT ![inst] = bb]
          /\ last_inst' = [last_inst EXCEPT ![bb] = inst]
          /\ IF first_inst[bb] = Null
             THEN first_inst' = [first_inst EXCEPT ![bb] = inst] /\ UNCHANGED <<next, prev>>
             ELSE /\ next' = [next EXCEPT ![last_inst[bb]] = inst]
                  /\ prev' = [prev EXCEPT ![inst] = last_inst[bb]]
                  /\ UNCHANGED first_inst
          /\ last' \in Moved(last, bb, prev'[inst], inst)
          /\ Ends("InsertInstBack", bb, inst, "returned")
          /\ UNCHANGED <<deleted, blocks, graph_, edgeVars, first, root, bb_set>>

\* The old first instruction, which is returned, keeps its links, and so does
\* its predecessor; a block of one instruction keeps last_inst_.
ReplaceFirstInst(bb, inst) ==
    LET old == first_inst[bb]
        sound == Valid(old) /\ Valid(next[old])
    IN \/ Fails(bb, sound) /\ Undefined("ReplaceFirstInst", bb, inst)
       \/ /\ sound
          /\ parent' = [parent EXCEPT ![inst] = bb]
          /\ first_inst' = [first_inst EXCEPT ![bb] = inst]
          /\ next' = [next EXCEPT ![inst] = next[old]]
          /\ prev' = [prev EXCEPT ![next[old]] = inst]
          /\ first' \in Moved(first, bb, old, inst)
          /\ Ends("ReplaceFirstInst", bb, inst, "returned")
          /\ UNCHANGED <<deleted, blocks, last_inst, graph_, edgeVars, last, root, bb_set>>

\* Mutant: an empty block is asked for its neighbour only.
ReplaceLastInstUnchecked(bb, inst) ==
    LET old == last_inst[bb]
        sound == Valid(old)
    IN \/ Fails(bb, sound) /\ Undefined("ReplaceLastInst", bb, inst)
       \/ /\ sound
          /\ parent' = [parent EXCEPT ![inst] = bb]
          /\ last_inst' = [last_inst EXCEPT ![bb] = inst]
          /\ prev' = [prev EXCEPT ![inst] = prev[old]]
          /\ next' = IF Valid(prev[old]) THEN [next EXCEPT ![prev[old]] = inst] ELSE next
          /\ last' \in Moved(last, bb, old, inst)
          /\ Ends("ReplaceLastInst", bb, inst, "returned")
          /\ UNCHANGED <<deleted, blocks, first_inst, graph_, edgeVars, first, root, bb_set>>

ReplaceLastInst(bb, inst) ==
    LET old == last_inst[bb]
        sound == Valid(old) /\ Valid(prev[old])
    IN \/ Fails(bb, sound) /\ Undefined("ReplaceLastInst", bb, inst)
       \/ /\ sound
          /\ parent' = [parent EXCEPT ![inst] = bb]
          /\ last_inst' = [last_inst EXCEPT ![bb] = inst]
          /\ prev' = [prev EXCEPT ![inst] = prev[old]]
          /\ next' = [next EXCEPT ![prev[old]] = inst]
          /\ last' \in Moved(last, bb, old, inst)
          /\ Ends("ReplaceLastInst", bb, inst, "returned")
          /\ UNCHANGED <<deleted, blocks, first_inst, graph_, edgeVars, first, root, bb_set>>

\* size() walks from the first instruction of the block and meets the last.
SizeDefined(bb) ==
    \/ first_inst[bb] \in {Null, last_inst[bb]}
    \/ last_inst[bb] \in ToSet(Follow(first_inst[bb]))

\* The ends of the block are moved by its size; the first or last instruction
\* of the graph is deleted without a word to its neighbour.
RemoveNonCFGOrSideInst(g, inst) ==
    LET bb == parent[inst]
        alone == first_inst[bb] # Null /\ first_inst[bb] = last_inst[bb]
        at_end == inst \in {first[g], last[g]}
    IN /\ inst \in ToSet(List(g))
       /\ IF ~SizeDefined(bb) \/ (~at_end /\ ~(Valid(prev[inst]) /\ Valid(next[inst])))
          THEN Undefined("RemoveNonCFGOrSideInst", bb, inst)
          ELSE /\ first_inst' = IF alone THEN [first_inst EXCEPT ![bb] = Null]
                                ELSE IF first_inst[bb] = inst THEN [first_inst EXCEPT ![bb] = next[inst]]
                                ELSE first_inst
               /\ last_inst' = IF alone THEN [last_inst EXCEPT ![bb] = Null]
                               ELSE IF first_inst[bb] # inst /\ last_inst[bb] = inst
                               THEN [last_inst EXCEPT ![bb] = prev[inst]] ELSE last_inst
               /\ first' = IF inst = first[g] THEN [first EXCEPT ![g] = next[inst]] ELSE first
               /\ last' = IF inst # first[g] /\ inst = last[g]
                         THEN [last EXCEPT ![g] = prev[inst]] ELSE last
               /\ next' = IF at_end THEN next ELSE [next EXCEPT ![prev[inst]] = next[inst]]
               /\ prev' = IF at_end THEN prev ELSE [prev EXCEPT ![next[inst]] = prev[inst]]
               /\ deleted' = deleted \cup {inst}
               /\ Ends("RemoveNonCFGOrSideInst", bb, inst, "returned")
               /\ UNCHANGED <<parent, blocks, graph_, edgeVars, root, bb_set>>

-----------------------------------------------------------------------------
(* SplitBBInTwo.                                                           *)

\* AddSuccWithPredec and RemoveSuccWithPredec on the edges e, unless one of
\* the calls before has thrown.  The last entry goes, whichever is asked for.
Added(e, u, v) ==
    IF e.threw THEN e
    ELSE [e EXCEPT !.succ = PushBack(@, u, v), !.predec = PushBack(@, v, u)]

Removed(e, u, v) ==
    IF e.threw THEN e
    ELSE IF ~Occurs(e.succ, u, v) THEN [e EXCEPT !.threw = TRUE]
    ELSE IF ~Occurs(e.predec, v, u) THEN [e EXCEPT !.succ = PopBack(@, u), !.threw = TRUE]
    ELSE [e EXCEPT !.succ = PopBack(@, u), !.predec = PopBack(@, v)]

\* Mutant: the new block is not made a successor of the old one.
SplitEdgesUnlinked(bb, new_bb) ==
    LET Through[k \in 0 .. Len(succ[bb])] ==
            IF k = 0 THEN [succ |-> succ, predec |-> predec, threw |-> FALSE]
            ELSE Added(Removed(Through[k - 1], bb, succ[bb][k]), new_bb, succ[bb][k])
    IN Through[Len(succ[bb])]

\* The successors, read at the start, move to the new block one by one.
SplitEdges(bb, new_bb) ==
    LET Through[k \in 0 .. Len(succ[bb])] ==
            IF k = 0 THEN [succ |-> succ, predec |-> predec, threw |-> FALSE]
            ELSE Added(Removed(Through[k - 1], bb, succ[bb][k]), new_bb, succ[bb][k])
    IN Added(Through[Len(succ[bb])], bb, new_bb)

\* The new block takes what follows inst, with the whole rest of the list as
\* its own instructions.  It is put neither into bb_set_ nor under the graph.
\* When an edge cannot be moved it stays empty, and the edges before that one
\* have been moved.
Split(bb, inst, new_bb) ==
    LET e == SplitEdges(bb, new_bb)
    IN IF ~e.threw /\ ~EndsInNull(next[inst])
       THEN Undefined("SplitBBInTwo", bb, inst)
       ELSE /\ succ' = e.succ /\ predec' = e.predec
            /\ blocks' = blocks \cup {new_bb}
            /\ IF e.threw
               THEN UNCHANGED <<first_inst, last_inst, parent>>
               ELSE /\ first_inst' = [first_inst EXCEPT ![new_bb] = next[inst]]
                    /\ last_inst' = [last_inst EXCEPT ![new_bb] = last_inst[bb], ![bb] = inst]
                    /\ parent' = [x \in Insts |->
                          IF x \in ToSet(Follow(next[inst])) THEN new_bb ELSE parent[x]]
            /\ Ends("SplitBBInTwo", bb, inst, IF e.threw THEN "threw" ELSE "returned")
            /\ UNCHANGED <<next, prev, deleted, graph_, graphVars>>

\* For inst in its own block; nothing is done at the end of the block.
SplitBBInTwo(inst) ==
    LET bb == parent[inst]
    IN \/ /\ last_inst[bb] = inst
          /\ Ends("SplitBBInTwo", bb, inst, "returned")
          /\ UNCHANGED <<linkVars, blockVars, edgeVars, graphVars>>
       \/ /\ last_inst[bb] # inst
          /\ \E new_bb \in BBs : IsNewBB(new_bb) /\ Split(bb, inst, new_bb)

-----------------------------------------------------------------------------
\* Mutant: the graph does not note that it has the block.
MakeRootUnknown(g, bb) ==
    /\ IF root[g] = Null
       THEN UNCHANGED edgeVars
       ELSE succ' = PushBack(succ, bb, root[g]) /\ predec' = PushBack(predec, root[g], bb)
    /\ root' = [root EXCEPT ![g] = bb]
    /\ UNCHANGED bb_set

\* The block goes in front of the root and becomes the root.
MakeRoot(g, bb) ==
    /\ IF root[g] = Null
       THEN UNCHANGED edgeVars
       ELSE succ' = PushBack(succ, bb, root[g]) /\ predec' = PushBack(predec, root[g], bb)
    /\ root' = [root EXCEPT ![g] = bb]
    /\ bb_set' = [bb_set EXCEPT ![g] = @ \cup {bb}]

\* The client makes the block of one instruction without neighbours, or of
\* none.  Its list goes in front of the graph's, but graph_ is not set.
AddBBToBegin(g, bb, inst) ==
    LET old == first[g]
    IN /\ inst # Null => next[inst] = Null /\ prev[inst] = Null
       /\ IF old # Null /\ inst # Null /\ ~Valid(old)
          THEN Undefined("AddBBToBegin", bb, inst)
          ELSE /\ parent' = [x \in Insts |-> IF x = inst THEN bb ELSE parent[x]]
               /\ blocks' = blocks \cup {bb}
               /\ first_inst' = [first_inst EXCEPT ![bb] = inst]
               /\ last_inst' = [last_inst EXCEPT ![bb] = inst]
               /\ first' = IF old = Null \/ inst # Null THEN [first EXCEPT ![g] = inst] ELSE first
               /\ last' = IF old = Null THEN [last EXCEPT ![g] = inst] ELSE last
               /\ IF old # Null /\ inst # Null
                  THEN prev' = [prev EXCEPT ![old] = inst] /\ next' = [next EXCEPT ![inst] = old]
                  ELSE UNCHANGED <<next, prev>>
               /\ MakeRoot(g, bb)
               /\ Ends("AddBBToBegin", bb, inst, "returned")
               /\ UNCHANGED <<deleted, graph_>>

\* The copy constructor of BasicBlock clones what follows the first
\* instruction up to the end of the LIST, not of the block, into a list of the
\* copy's own; no field but first_inst_ and last_inst_ is assigned.
CopyBB(bb, new_bb) ==
    LET old == Follow(first_inst[bb])
        made == Cardinality({x \in Insts : parent[x] # Null})
        clone(i) == made + i
    IN /\ made + Len(old) <= MaxInsts
       /\ IF ~EndsInNull(first_inst[bb])
          THEN Undefined("BasicBlock", bb, Null)
          ELSE /\ next' = [x \in Insts |-> IF x \in made + 1 .. made + Len(old) - 1 THEN x + 1
                                          ELSE IF x = made + Len(old) /\ old # <<>> THEN Null ELSE next[x]]
               /\ prev' = [x \in Insts |-> IF x = clone(1) /\ old # <<>> THEN Null
                                          ELSE IF x \in made + 2 .. made + Len(old) THEN x - 1 ELSE prev[x]]
               /\ parent' = [x \in Insts |-> IF x \in made + 1 .. made + Len(old) THEN new_bb ELSE parent[x]]
               /\ blocks' = blocks \cup {new_bb}
               /\ first_inst' = [first_inst EXCEPT ![new_bb] = IF old = <<>> THEN Null ELSE clone(1)]
               /\ last_inst' = [last_inst EXCEPT ![new_bb] = IF old = <<>> THEN Null ELSE clone(Len(old))]
               /\ graph_' = [graph_ EXCEPT ![new_bb] = Wild]
               /\ Ends("BasicBlock", bb, Null, "returned")
               /\ UNCHANGED <<deleted, edgeVars, graphVars>>

\* Mutant: the destructor deletes the blocks only.
DestroyGraphKeepingInsts(g) ==
    IF ~EndsInNull(first[g])
    THEN Undefined("~IRGraph", Null, Null)
    ELSE /\ blocks' = blocks \ bb_set[g]
         /\ Ends("~IRGraph", Null, Null, "returned")
         /\ UNCHANGED <<next, prev, parent, deleted, first_inst, last_inst, graph_, edgeVars, graphVars>>

\* The destructor deletes what it meets from first_ on, whoever made it, and
\* then the blocks of bb_set_.
DestroyGraph(g) ==
    IF ~EndsInNull(first[g])
    THEN Undefined("~IRGraph", Null, Null)
    ELSE /\ deleted' = deleted \cup ToSet(List(g))
         /\ blocks' = blocks \ bb_set[g]
         /\ Ends("~IRGraph", Null, Null, "returned")
         /\ UNCHANGED <<next, prev, parent, first_inst, last_inst, graph_, edgeVars, graphVars>>

EditBlock(bb, inst) ==
    \/ InsertInstForward(bb, inst) \/ InsertInstBack(bb, inst)
    \/ ReplaceFirstInst(bb, inst) \/ ReplaceLastInst(bb, inst)

EditGraph(g) ==
    \/ \E inst \in ToSet(List(g)) : RemoveNonCFGOrSideInst(g, inst) \/ SplitBBInTwo(inst)
    \/ \E bb \in BBs, inst \in {Null} \cup {x \in Insts : IsNew(x)} :
          IsNewBB(bb) /\ AddBBToBegin(g, bb, inst)
    \/ DestroyGraph(g)

Next ==
    \/ /\ Ready
       /\ \/ \E bb \in blocks, inst \in Insts : IsNew(inst) /\ EditBlock(bb, inst)
          \/ \E bb \in blocks, new_bb \in BBs : IsNewBB(new_bb) /\ CopyBB(bb, new_bb)
          \/ \E g \in Graphs : EditGraph(g)
    \/ ~Ready /\ UNCHANGED vars

Spec == Init /\ [][Next]_vars

-----------------------------------------------------------------------------
(* Properties.                                                             *)

\* The lists of instructions: of the graphs, and of the copied blocks.
Copies == {bb \in blocks : graph_[bb] = Wild}
Lists == {List(g) : g \in Graphs} \cup {Follow(first_inst[bb]) : bb \in Copies}

\* The lists are doubly linked and apart, each graph knows both ends of its own,
\* the list of a copied block is all its own, and every block is a piece of a
\* list that its instructions, and no other, know as theirs.
Linked(list) ==
    /\ NoDuplicates(list)
    /\ list # <<>> => prev[list[1]] = Null /\ next[Last(list)] = Null
    /\ \A i \in 1 .. Len(list) - 1 : prev[list[i + 1]] = list[i]

KnowsEnds(list, head, tail) ==
    IF list = <<>> THEN head = Null /\ tail = Null ELSE tail = Last(list)

IsPiece(list, bb) ==
    LET own == {i \in DOMAIN list : parent[list[i]] = bb}
    IN own # {} =>
        own = Min(own) .. Max(own) /\ first_inst[bb] = list[Min(own)] /\ last_inst[bb] = list[Max(own)]

HoldsNone(all, bb) ==
    /\ first_inst[bb] = Null /\ last_inst[bb] = Null
    /\ \A x \in all : parent[x] # bb

ListIntact ==
    \E of \in {[g \in Graphs |-> List(g)]}, copy \in {[bb \in Copies |-> Follow(first_inst[bb])]} :
        LET lists == Range(of) \cup Range(copy)
            all == UNION {ToSet(list) : list \in lists}
        IN /\ \A g \in Graphs :
                 /\ KnowsEnds(of[g], first[g], last[g])
                 /\ \A x \in ToSet(of[g]) : parent[x] \in blocks \ Copies
                 /\ \A h \in Graphs \ {g} : ToSet(of[g]) \cap ToSet(of[h]) = {}
           /\ \A bb \in Copies : \A x \in ToSet(copy[bb]) : parent[x] = bb
           /\ \A list \in lists : Linked(list) /\ \A bb \in blocks : IsPiece(list, bb)
           /\ \A bb \in blocks :
                 (first_inst[bb] \in all /\ parent[first_inst[bb]] = bb) \/ HoldsNone(all, bb)

\* Called with c, on an intact list, the code keeps the list intact.
KeepsList(c) ==
    LET g == graph_[c.bb]
        at_first == first_inst[c.bb] # Null /\ (g = Wild \/ (g # Null /\ first_inst[c.bb] = first[g]))
        at_last == last_inst[c.bb] # Null /\ (g = Wild \/ (g # Null /\ last_inst[c.bb] = last[g]))
        several == first_inst[c.bb] # last_inst[c.bb]
        alone == g = Wild /\ first_inst[c.bb] = Null /\ next[c.inst] = Null /\ prev[c.inst] = Null
    IN CASE c.op = "InsertInstForward" -> alone \/ (at_first /\ prev[c.inst] = Null)
         [] c.op = "InsertInstBack" -> alone \/ (at_last /\ next[c.inst] = Null)
         [] c.op = "ReplaceFirstInst" -> at_first /\ several /\ prev[c.inst] = Null
         [] c.op = "ReplaceLastInst" -> at_last /\ several /\ next[c.inst] = Null
         [] c.op = "RemoveNonCFGOrSideInst" ->
               \A h \in Graphs : c.inst \notin {first[h], last[h]}
         [] c.op = "SplitBBInTwo" ->
               last_inst[c.bb] = c.inst \/ next[last_inst[c.bb]] = Null \/ c.outcome = "threw"
         [] c.op \in {"AddBBToBegin", "BasicBlock"} -> TRUE

Edits(c) == calls' = calls + 1 /\ c.op # "~IRGraph" /\ c.outcome # "undefined"

\* Which calls keep an intact list intact, and no other does: insertions and
\* replacements at the two ends of the whole list, in a block that knows its
\* graph or is a copy with a list of its own, of an instruction whose field on
\* the outer side happens to be zero; removals everywhere but at the two ends;
\* splits in the last block; copies of blocks.  All of BasicBlock's edits and
\* the three of IRGraph.
ListIntactIff ==
    [][ListIntact /\ Edits(call') => (ListIntact' <=> KeepsList(call'))]_vars

\* On an intact list the only calls without a defined meaning are replacements
\* in an empty block or where the list has no neighbour to tell, and some or
\* all of the edits of a copied block, whose graph_ nothing has assigned.
UndefinedIff ==
    [][ListIntact =>
        LET c == call'
            alone == \/ c.op = "ReplaceFirstInst" /\ (first_inst[c.bb] = Null \/ next[first_inst[c.bb]] = Null)
                     \/ c.op = "ReplaceLastInst" /\ (last_inst[c.bb] = Null \/ prev[last_inst[c.bb]] = Null)
        IN /\ alone => c.outcome = "undefined"
           /\ c.outcome = "undefined" => alone \/ (graph_[c.bb] = Wild /\ c.op # "BasicBlock")]_vars

\* What the blocks hold, and what they hold after call c if it is safe: a copied
\* block gets clones of the rest of the list.
Everything == FlattenSeq(SetToSeq(Lists))
Pieces == [bb \in BBs |-> SelectSeq(Everything, LAMBDA x : parent[x] = bb)]

Edited(c) ==
    LET piece == Pieces
        cut == Len(Follow(first_inst[c.bb])) - Len(Follow(c.inst)) + 1
        new_bb == CHOOSE bb \in BBs : IsNewBB(bb)
        fresh == CHOOSE x \in Insts : IsNew(x)
    IN CASE c.op = "InsertInstForward" -> [piece EXCEPT ![c.bb] = <<c.inst>> \o @]
         [] c.op = "InsertInstBack" -> [piece EXCEPT ![c.bb] = Append(@, c.inst)]
         [] c.op = "ReplaceFirstInst" -> [piece EXCEPT ![c.bb][1] = c.inst]
         [] c.op = "ReplaceLastInst" -> [piece EXCEPT ![c.bb] = Append(Front(@), c.inst)]
         [] c.op = "RemoveNonCFGOrSideInst" -> [piece EXCEPT ![c.bb] = SelectSeq(@, LAMBDA x : x # c.inst)]
         [] c.op = "SplitBBInTwo" ->
               IF last_inst[c.bb] = c.inst \/ c.outcome = "threw" THEN piece
               ELSE [piece EXCEPT ![c.bb] = SubSeq(@, 1, cut), ![new_bb] = SubSeq(piece[c.bb], cut + 1, Len(piece[c.bb]))]
         [] c.op = "AddBBToBegin" -> IF c.inst = Null THEN piece ELSE [piece EXCEPT ![c.bb] = <<c.inst>>]
         [] c.op = "BasicBlock" ->
               [piece EXCEPT ![new_bb] = [i \in DOMAIN Follow(first_inst[c.bb]) |-> fresh + i - 1]]

\* A call that keeps the list intact makes of the blocks what its name says,
\* and of no other block anything else.
SafeEditsDoWhatTheySay ==
    [][ListIntact /\ Edits(call') /\ KeepsList(call') => Pieces' = Edited(call')]_vars

\* The successors the blocks should have after bb has been split.
EdgesAfterSplit(bb, new_bb) ==
    [succ EXCEPT ![bb] = <<new_bb>>, ![new_bb] = succ[bb]]

\* A split keeps the two edge vectors in step, and moves the edges as it
\* should, exactly when the block has at most one successor and is stored last
\* among its predecessors; with two successors it throws half-way.
SplitMovesEdgesIff ==
    [][ /\ call'.op = "SplitBBInTwo" /\ blocks' # blocks
        /\ MirroredEdges(succ, predec)
        => LET bb == call'.bb
           IN /\ call'.outcome = "threw" <=> Len(succ[bb]) = 2
              /\ MirroredEdges(succ, predec)' <=>
                    Len(succ[bb]) < 2 /\ \A v \in ToSet(succ[bb]) : Last(predec[v]) = bb
              /\ call'.outcome = "returned" =>
                    succ' = EdgesAfterSplit(bb, CHOOSE new \in BBs : IsNewBB(new))]_vars

\* Both ends of every edge are blocks that the destructor of one graph deletes.
EdgesRegistered ==
    \A u, v \in BBs : Occurs(succ, u, v) \/ Occurs(predec, u, v) =>
        \E g \in Graphs : {u, v} \subseteq bb_set[g]

\* From graphs whose edges join their own blocks, and are stored at both ends, an
\* edge leads out of a graph exactly when a split makes a block, even one that
\* throws half-way: the new block is linked but no graph owns it, and the
\* destructor leaves it with edges to deleted blocks.  No other call,
\* AddBBToBegin included, links a foreign block.
OnlySplitLeavesGraph ==
    [][ EdgesRegistered /\ MirroredEdges(succ, predec) =>
        (EdgesRegistered' <=> ~(call'.op = "SplitBBInTwo" /\ blocks' # blocks))]_vars
=============================================================================
