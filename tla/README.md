# Verification of the IR, its analyses and its edits

The repository is the middle end of a small JIT/AOT compiler in C++: an
intermediate representation (`src/IR_architecture`), three analyses of its
control-flow graph (`src/RPO`, `src/Dom_tree`, `src/Loop_search`) and one
transformation (`src/Inlining`).  This directory holds TLA+ modules translated
from that code, TLC configurations that check them on small instances, and TLAPS
proofs of what holds on every instance.

## 1. Inventory

The program is sequential.  It has no threads, no I/O and keeps nothing across
runs, so there are no races, lost messages or restarts.  What makes it hard:

* one structure, three views: the doubly linked list of instructions, the blocks
  that cut it into pieces, and the edges between blocks are kept in step by hand;
* **protocols between calls**: several functions are right only after certain
  earlier calls (an edge is removed correctly only if it was added last);
* **half-done work** when a function throws in its middle;
* **state that is never reset** and is stale at the next run;
* **orders** that the analyses rely on (numbering, reverse post-order, an
  `unordered_set` of back edges) and recursions that must end on cyclic graphs.

| component | state | operations | correct when |
|---|---|---|---|
| graph nodes, `ilist_graph_node` | `succ_`, `predec_` | Add/RemoveSucc, Add/RemovePredec and the paired forms | both vectors describe the same edges |
| list nodes, `ilist_bidirectional_node` | `next_`, `prev_` (not initialised) | AssignNext, AssignPrev, AssignNextAndPrev | `prev_` mirrors `next_` |
| `IRGraph`, edges and blocks | `bb_set_`, `root_` | AddBBInGraph, AddBBToBegin, AddEdge, RemoveEdge | at most two different successors, edges stay in the graph, a removal removes the edge it names |
| `IRGraph`, construction | `first_`, `last_`, `bb_set_`, `root_`, the blocks | constructor, copy constructor, CreateIRGraphFromInstList | blocks tile the list, edges are its control flow, a copy is independent |
| `BasicBlock`, lists | `first_inst_`, `last_inst_`, `graph_` | InsertInstForward/Back, ReplaceFirst/LastInst | block and graph ends stay on the list |
| `IRGraph`, list surgery | all of the above | SplitBBInTwo, RemoveNonCFGOrSideInst, the splice of AddBBToBegin | list, blocks, parents and edges stay in step |
| `RPO` | `rpo_`, a local visited set | Run | each reachable block once, sources before targets off cycles |
| `DomTree` | `vertexes`, `bbs_info_`; writes `idom_`, `dominated_bbs_` of blocks | Run | immediate dominators; IsDominated answers dominance |
| `Loop`, `LoopAnalyzer` | `blacks`, `grays`, `greens`, loops, `loop_` of blocks, `loop_tree_root_` | Run | each block in its innermost natural loop, tree = nesting |
| `Inlining` | none of its own; writes all of the above and the operands | run, ReplaceCallWithBody | the function computes what it computed, list, blocks and edges stay in step |
| instructions, operands, `User`, `IRFunction` | result, operands, jump target, callee; the graph of a function | getters, setters, clone, destructor | clones are independent, each object has one owner |
| `marker_mgr.h`, `reg_builder.h` | - | - | included, but not in the repository |

How they interact: `IRGraph` and `BasicBlock` share the instruction objects, and
the blocks point back to their graph.  `LoopAnalyzer::Run` calls `DomTree::Run`,
asks `BasicBlock::IsDominated` of its result during its own walk, then calls
`RPO::Run` and works on the order.  `Inlining` copies a graph, splits a block,
moves edges and splices lists.  All analyses leave their results inside the
blocks (`idom_`, `dominated_bbs_`, `loop_`), where the next run finds them.

`PROJECT.json` lists every component with its status, and under `hazards` the
places where this goes wrong, with the properties that would notice.

## 2. Modules

| module | models | extends / uses |
|---|---|---|
| `GraphNode` | the two edge vectors of `ilist_graph_node` as operators | |
| `EdgeSet` | abstract: a set of blocks with a set of edges; a throwing call changes nothing | |
| `IRGraphEdges` | AddBBInGraph, AddBBToBegin, AddEdge, RemoveEdge | `GraphNode`; implements `EdgeSet` |
| `IRGraphBuild` | construction and copying of a graph | `GraphNode` |
| `ControlFlow` | reference definitions: reachability, dominance, cycles | `GraphNode` |
| `InstList` | the calls that edit the lists of graphs: InsertInstForward/Back, ReplaceFirst/LastInst, RemoveNonCFGOrSideInst, SplitBBInTwo, AddBBToBegin, the copy constructor of a block, the destructor of a graph | `GraphNode` |
| `Inlining` | Inlining::run, with copying, renaming, arguments, result, edges, splice, and the deletion of the functions | instance `Lists` of `InstList` on the same variables |
| `RPO` | RPO::Run | `ControlFlow` |
| `DomTree` | DomTree::Run (Lengauer-Tarjan) and IsDominated | `ControlFlow` |
| `LoopAnalyzer` | LoopAnalyzer::Run | instances `Tree` of `DomTree` and `Order` of `RPO` |
| `ControlFlow_proofs` | lemmas on edge vectors, least numbers, paths, paths around blocks, dominators, and chains of parents | `ControlFlow` |
| `IRGraphEdges_proofs`, `IRGraphBuild_proofs`, `RPO_proofs` | lemmas, theorems, proofs | the module of that name, `ControlFlow_proofs` |
| `DomTreeInvariant` | the inductive invariant of `DomTree` | `DomTree` |
| `InstList_proofs` | proofs about the edits: where pointers lead, what a split does to the edges, which calls are undefined, which keep the lists | `InstList`, `ControlFlow_proofs` |
| `DomTree_proofs` | proofs about the numbering walk, Link, Compress, the buckets and the dominators; that the result is exact where no block is numbered twice, and that the lists never form a cycle | `DomTreeInvariant`, `ControlFlow_proofs` |
| `LoopAnalyzer_proofs` | proofs about the loop analysis on any graph: pointers, membership, exceptions | `LoopAnalyzer`, `ControlFlow_proofs`; instances of `DomTree_proofs` and `RPO_proofs` |
| `LoopAnalyzerInvariant` | the inductive invariant of natural loops and their nesting | `LoopAnalyzer` |
| `LoopNatural_proofs` | proofs that the loops are the natural loops and hang in each other as they should | `LoopAnalyzerInvariant`, `LoopAnalyzer_proofs` |
| `SmallGraphs`, `MC*` | families of small inputs for TLC | |

How state and actions correspond to the code:

* A block is a value; a vector member of a block is a function from blocks to
  sequences.  A pointer is the value or `Null`.
* One action is one call for `IRGraphEdges` (the program is sequential, a call is
  atomic to its client); the outcome, returned or threw, is in the variable
  `call`.  For the analyses one action is one call, return or turn of a loop, so
  that invariants can speak of what holds in the middle of the recursion.
* A recursive function is a variable `stack` of activations, each the block and
  the position of its iterator.
* An exception that leaves a function ends in `pc = "threw"` with everything
  written so far left as it is.  `bbs_info_.at(x)` throws when `x` is outside the
  domain of the function `info`.
* In `IRGraphBuild` an instruction is its position in the list and carries what
  the construction looks at: its kind, its jump target and `is_jump_dest_`.
* In `InstList` instructions and blocks are numbers in the order they are made,
  0 is `nullptr` and `Wild` an unassigned field.  One action is one call on an
  instruction and its own block, or on a new instruction (the client makes them
  one after the other).  `graph_` is the graph a block knows: the constructor
  sets it, SplitBBInTwo and AddBBToBegin leave it null, the copy constructor of
  a block does not assign it, so that it may be anything.
  A call that reads through `nullptr`, a deleted instruction or `Wild` ends with
  outcome `undefined`, and the behaviour with it.
* `Inlining` works on the variables of `InstList` and makes its calls
  (SplitBBInTwo, InsertInstForward, RemoveNonCFGOrSideInst, the destructor)
  through the instance `Lists`; `code` adds what an instruction is.  Function f's
  body is graph f, the copies are numbered from there on.  `pc` names the next
  part of ReplaceCallWithBody for the call `walker` points to.  `program` keeps
  what the client has written, for the properties only.
* In `LoopAnalyzer` a `Loop` object is its position in the sequence of all loops
  allocated so far; back edges are taken from their `unordered_set` in any order.
* Operators whose comment starts with "Mutant" are deliberately wrong variants of
  the definition that follows them.  Nothing uses them in a normal run;
  substituted for that definition they must break a property, which shows that
  the property depends on the code.

## 3. Runs

Each run answers one question.  `expect` is `violation` where TLC finds that the
code does not do what a text of the repository says.

| run | question | instance |
|---|---|---|
| `edges_any` | what survives arbitrary additions, removals and prepended blocks? | 2 blocks, room for 3 successors and 4 predecessors each |
| `edges_last` | is the graph a plain edge set for clients that remove only edges stored last? | 3 blocks, room for 3 successors and predecessors each |
| `edges_wrong_edge` | does RemoveEdge remove the edge it is asked to? **violated** | 3 blocks |
| `build` | are blocks and edges the control flow of the list? | every list of at most 4 instructions with its targets flagged, with any flags for at most 3 and for 4 without `ja`, straight code of 5, 2 copies, MaxInstInBB = 2 |
| `build_shared` | is a copy independent of its original? **violated** | the same straight code |
| `instlist` | which edits keep list, blocks and edges in step? | every sequence of 3 calls on graphs of at most 3 instructions in at most 3 blocks, zeroed and wild links, one graph |
| `inlining` | what does the inliner do to programs? | 2539 programs of one to three functions: 9 callers of about 60 callees, nested calls, two calls, shared and recursive callees |
| `rpo` | the reverse post-order | every graph of 3 blocks (with a fourth one isolated), every graph of 4 reachable blocks |
| `domtree` | the dominator tree, and what is left of it after a second run with other edges | one run on every graph of 3 blocks in two predecessor orders, every graph of 4 reachable blocks, the same behind an entry block, chains of 6 with two more edges; two runs on sparse graphs of 4 blocks with one edge added or removed in between, on graphs of 3 with two |
| `domtree_if_at_root` | is it the dominator tree on every graph? **violated** | every graph of 4 reachable blocks |
| `loops` | loops and loop tree, twice in a row | every graph of 3 blocks, every graph of 4 reachable blocks behind an entry block |
| `loops_shared_latch` | is every loop in the loop tree? **violated** | the same behind an entry block |

### What the runs show

* **Edges.**  RemoveSucc and RemovePredec pop the *last* entry of the vector, not
  the one they were given.  `RemoveEdgeIntactIffLast` says exactly when that is
  harmless.  In spite of it no edge leaves the graph, and no removal or addition
  gives a block a third or a double successor: `OnlyPrependCrowds` says that one comes
  from AddBBToBegin alone, and exactly when the block it is given has two
  successors, or the root among them, already.  A client that prepends only unlinked
  blocks never sees one (`TwoDistinctSuccs`), and when it also removes only edges
  stored last, it sees the plain set of edges of `EdgeSet`.  These two contracts are
  the constants `FreshBegin` and `LastOnly`.
* **Construction.**  With flagged jump targets the edges are the control flow (without
  flags they are exactly when each target begins a block for another reason:
  `EdgesExactIffTargetsBegin`), only a trailing `ja` throws (from `at(i+1)`, after all blocks are allocated), and
  a block may have one instruction more than MAX_INST_IN_BB (the limit is tested
  before the instruction is counted).  A copied graph is built over the
  *original* instructions and takes them away from the original's blocks.
* **Edits of instructions.**  `ListIntactIff` says exactly which calls keep the
  list whole, and it is a short list.  An insertion or a replacement links the new
  instruction to its neighbour inside the block only, so it must happen at the
  end of the whole list, in a block that knows its graph, and the field that is
  not assigned must be zero by luck.  A removal must happen anywhere but at the
  ends, where a neighbour keeps pointing to the deleted instruction.  A split
  gives the rest of the *whole list* to the new block, so only the last block can
  be split; it throws half-way on a block with two successors and moves the right
  edges exactly when the block is stored last at its successor
  (`SplitMovesEdgesIff`).  The new block is put into no `bb_set_`: of all calls, the
  splits are those that lead an edge out of a graph (`OnlySplitLeavesGraph`), to a
  block that the destructor leaves behind.  A replacement in an empty block, or of an instruction
  that has no neighbour on the inner side, reads through `nullptr`
  (`UndefinedIff`).  What is left does what the names say
  (`SafeEditsDoWhatTheySay`).  A copy of a block clones the rest of the whole
  list, and as its `graph_` is not assigned any edit of it may go wrong.
* **Inlining.**  `Sound` names the calls whose inlining keeps the meaning
  (`MeaningKept`): the rest of the call's block does not end in a conditional
  jump, no other block leads to the block after a call that ends its own, both
  functions end in `ret`, the callee does not write its arguments, and a call in
  a function that is itself inlined assigns a temporary and is not in one of
  several blocks with a `ret`.  Each of these conditions is needed: without it
  TLC finds a program that computes something else (not runs of their own, no
  text says otherwise).  `OutcomeExact` says which programs run returns for: a
  conditional jump after the call, a missing argument and a body without `ret`
  make it throw half-way; a call at the very end, a body of nothing but `ret`, a
  second call after the first one's block was split and an instruction without a
  result register are undefined behaviour, and a callee with a jump may be.
  List and edges afterwards are in `ListSplicedIff` and `EdgesInStep`.  The body
  is not a copy but the callee's own instructions (see `build_shared`), so the
  caller and the callee cannot both be deleted (`DestructionSafeIff`), a second
  caller finds the first one's tail behind the body: most of the properties are
  about bodies that are used once (`UsedOnce`).  Even so run always comes to an
  end (`Terminates`); functions that call themselves or each other throw or break
  before they are inlined for ever.  Only run on one function twice may never
  end: its body's list then leads back into itself.
* **RPO** is right on every graph.
* **Dominators.**  RunStep1 descends into every successor of the root without
  asking whether it is numbered.  When one successor of the root leads to a later
  one (`NumbersTwice`), blocks get two numbers and idoms come out wrong: on
  1 -> 2, 3; 2 -> 3; 3 -> 4 the idom of 4 is 1 instead of 3.  Every other graph is
  right, and even on these each idom given is a dominator.  Run throws exactly for
  a root that is its own successor and for a reachable block with an unreachable
  predecessor.  Lists of dominated blocks are never cleared: after a rerun they
  miss no dominance but may claim old ones: with 2 -> 4 added to the chain
  2 -> 3 -> 4, 3 still "dominates" 4 (seen with the converse of
  `ListsNeverMissDominance`; not a run of its own, no text says otherwise).
  IsDominated ends all the same, unless the client has both added and removed
  edges (`IsDominatedEnds`): then two blocks can be in each other's lists.
* **Loops.**  On reducible graphs whose back edges start in the innermost loop
  they close, blocks and tree are right after the first run.  When one block has
  back edges to an inner and an outer header (1 -> 2 -> 3 -> 4 -> 5, 5 -> 4 and
  5 -> 3), the two loops become children of each other and the root reaches
  neither.  A header met first by a back edge it dominates and later by another
  one collects blocks up to the entry (irreducible graphs, where only membership
  is checked).  A second run finds the loops of the first
  in the blocks, allocates none, and its new root loop holds none of them.

### Bounds, and why they are enough

* Two blocks decide every property of `edges_any` (each call involves at most two
  blocks and a root); three are used where a third one could be torn apart.
  `MaxSucc`, `MaxPredec` cap the vectors; `MaxSucc` is 3, one more than AddEdge allows,
  so that nothing but the code keeps a third successor away, in both runs.  The theorems of
  section 5 need neither bound.
* `MaxInstInBB = 2` stands for 10: with 4 or 5 instructions blocks end because of
  the limit, of jumps, of flags, of `ret` and of the end of the list, in every
  combination of two causes.
  The fourth instruction of straight code begins a block for the limit's sake, so an
  unflagged target may be the begin of a block or lie inside.
* Up to renaming, `ReachableGraphs(4)` holds every graph of four reachable blocks
  with at most two different successors; the small three-block family adds
  unreachable blocks, double edges and self-loops in every place.  Four blocks
  suffice for a block with two predecessors of which one is above the other,
  nested and overlapping loops need the fifth, and `Compress` has a path of two
  steps to shorten only from six blocks in a chain.
* `InstList`: three calls on one graph are enough for each call to follow every effect of
  another two, and for each of its undefined cases; a list of three has a middle.
* `Cfgs` of `DomTree` holds the number of runs and of edits between them: stale
  state shows at the second run, and two edits are needed to add and to remove.
* `Inlining`: `MaxInsts`, `MaxBBs` and `MaxGraphs` are above what any program of
  the families makes before it ends or repeats (`TypeOK` would say so).  Callees
  have up to five instructions in up to four blocks, with none, one and two
  `ret`; three functions give calls two deep and two calls one after the other.
  Functions with global registers as
  operands, phis of the client's own and lists of more than ten instructions
  are not among the programs: `MaxInstInBB` is 10 as in the code, and no list that is
  copied reaches it.  Neither does one end in a conditional jump, where the model
  throws as the constructor does: `ProgramsAssumption` rules it out for the lists
  the client writes, and in these programs no splice makes one before a copy.
  Values are terms over the arguments, compared for
  every choice of taken jumps; a loop is not among the programs either.

### Fairness

The graphs' clients may stop at any time, so `IRGraphEdges` has no fairness.  A
call of an analysis or of a constructor is code of a single thread that keeps
running: weak fairness of its steps says no more than that.  Calls between runs
(AddEdge, RemoveEdge) and the deletion of functions are not fair, the client need
not make them.

## 4. Abstract specification and refinement

`EdgeSet` says what the edge calls promise.  `IRGraphEdges` maps `bb_set` to
`blocks`, `root` to `entry` and the pairs found in `succ` to `edges`.  Run
`edges_last` checks the refinement and theorem `Refinement` proves it, under
both client contracts; run `edges_wrong_edge` is what happens without `LastOnly`.

`LoopAnalyzer` contains `DomTree` as its instance `Tree`; theorem `RunsDomTree`
says that it implements it: whatever the later passes do, the part of the state
that `DomTree` knows takes steps of `DomTree` or none (safety only, the theorem is
about the specifications without fairness).

## 5. Proofs

All proofs are checked by TLAPS for arbitrary constants: any set of blocks, any
family of graphs or programs, finite or not, any limit of instructions.  Every
invariant that is proved below was first checked by TLC on the graphs of section
3 (`IInv` of `RPO` is an invariant of run `rpo`; that of `IRGraphBuild` was tried on
the programs of run `build`, that of `InstList` on the graphs of run `instlist`,
that of `DomTree` on families of three and four
blocks with edits between two runs, `ListsOrdered` on every graph of three blocks
with three runs and three edits, that of `LoopAnalyzer` on the graphs of run
`loops`, and `Natural` of `LoopAnalyzerInvariant`, which takes too long there, on the
344 graphs that fulfil `Orderly` among those of three blocks and those of three
reachable blocks behind an entry block, analysed twice).

### Assumptions

`ContractAssumption`, `CfgAssumption` and `ProgramAssumption` give the constants
their types; a jump of a program has a target in the list.  `EdgesAssumption`
(`DomTree`) says that every edge of a graph is stored at both of its ends, which
is how `AddSuccWithPredec` stores it, and that where edges are edited between
two runs each is stored once: `AddEdge` makes no double edges.  `LoopAnalyzer`
makes the same assumptions, has no edits, and needs that `nullptr` is not the
number of a loop.
`LayoutAssumption` (`InstList`) says that the graphs are what the constructor makes:
one after the other, blocks without gaps and never empty, no edge from or to a
block that does not exist, and at most two successors, as `AddEdge` refuses a
third; `Wild` is no instruction, no graph and not `nullptr`.
`ProgramsAssumption` (`Inlining`) says that the client's functions exist: the
constructor throws on a list that ends in a conditional jump.  `FreshBegin` and
`LastOnly` are hypotheses of the theorems that name them.

### Edges

* `TypeCorrect`: the type invariant of `IRGraphEdges`.
* `SuccessorsStayDistinct` (FreshBegin): `TwoDistinctSuccs` is inductive together
  with the type invariant.  AddEdge compares with the first successor only; this is
  enough because the test for a third one comes first (`AcceptedEdgeIsNew`).
* `OnlyPrependingCrowds` (any client): what AddBBToBegin pushes is distinct from the
  rest exactly when `Crowds` does not hold (`PushDistinctIff`); what AddEdge
  accepts always is.
* `EdgesNeverLeaveGraph`: inductive as it stands, on the entries of both vectors
  (`EdgeEndsInGraph`), for every client.
* `RemovalIntactIffLast` and `ThrowIsHarmlessWhenMirrored`: action properties, from
  the type invariant; `RemoveMirrored` is the heart of both.
* `VectorsStayMirrored` (both contracts): `Mirrored` needs `TwoDistinctSuccs` for
  the push and `StoredLast` for the pop.
* `Refinement` (both contracts): from `Mirrored`, `TwoDistinctSuccs` and the type
  invariant each call is a step of `EdgeSet` or changes nothing it sees.

### Construction

`Invariance` proves the `IInv` of `IRGraphBuild`; `Typed`, `BlocksAreATiling` and
`EdgesFollowControl` follow.  What is inductive is what holds in the middle of the
walk: the walker stands behind the newest block, the blocks of one graph cut the
list up to the walker without gap or overlap (`BlocksTile`, `BlocksCover`), each
instruction knows the block of the newest graph over it (`BlocksOwn`), no jump and
no flagged instruction stands inside a block (`InsideStraight`), and the edges are
those of the blocks linked so far (`EdgesSoFar`).  From `InsideStraight` it follows
that control enters a block at its first instruction only, so an edge of the list
is an edge between blocks.

### Edits of instructions

`TypeCorrect`, `SplitRight` and `UndefinedForeseen` speak of lists of any length, of
any number of blocks and graphs, and of any sequence of calls; not of lists in
good order only, most calls leave them in a bad one.  The invariant `IInv` adds two
parts to the types.

* **`PointersHeld`**: `next_`, `prev_` and the ends of blocks and graphs lead to
  instructions that a block has taken, to nothing, or are wild.  Without it a call
  could write into an instruction that the client has not made yet, and
  `IsNew` would mean nothing.  Most calls copy pointers that were there before; the
  walk of SplitBBInTwo and that of the copy constructor stay among such
  instructions too, since next_ does not lead out of them (`FollowWay`,
  `FollowStays`).
* **`EdgesHeld`**: edges start and end at blocks that exist, and a block has at most
  two successors, even where a split throws half-way.

The destructor takes blocks away and leaves pointers and edges to them, so both
parts end with it; no call comes after it.

`SplitRight` goes through the loop of SplitBBInTwo for no, one and two successors
(`SplitNone`, `SplitOne`, `SplitTwo`); `EdgesHeld` says that these are all cases, so
that no induction over the vector is needed, and rules out that the new block has
edges of its own.  `OnlySplitsLeaveGraph` adds that the new block is the end of an
edge in all three cases (`SplitLinksNew`) and in no set of blocks, as those hold only
blocks that exist (`SetsHeld`), while AddBBToBegin registers what it links
(`RootIsRegistered`); no other call touches edges or sets (`CallTouches`).

For `UndefinedForeseen` the walks have to be understood.  `FollowSteps` says that
they meet what is met along `next_`, one after the other, and `FollowChain` that on a
list that is linked without repetition the walk from any place of it meets the
rest of the list (both by the first place where it would not hold).  So on
`ListIntact` the walk always ends in `nullptr`, a block's last instruction is met
from its first one (`BlockIsPiece`, `BlockEnds`), and what is left are the calls
that `UndefinedIff` names.

`IntactExactly` is `ListIntactIff`: an equivalence for each call, on lists of any
length.  `ListIntact` finds the lists by walking; the proofs need to say what
they are.  So it is first shown to be the same as **`LaidAs(L)`**, where `L` gives
each holder of a list (a graph or a copied block) a sequence that is linked both
ways (`Chain`), with both ends known to its holder, and each block is empty or a
piece of one of them (`IntactIsLaid`, `LaidIsIntact`; `ChainIsMet`: a walk along a
chain without repetition meets the chain and fits into the bound of the walk).

* *Which calls keep the lists* (`NextKept`).  Each call that `KeepsList` names
  turns the list of one holder into another sequence: one more in front or behind
  (`FrontChain`, `BackChain`), one replaced (`ReplacedSays`), one gone
  (`GapChain`), the same with a new block at its end (`SplitIntact`), a whole new
  one (`CopyIntact`).  `ListEdited` says when that is enough: new entries come from no
  other list, the blocks that are changed are pieces of the new sequence, and the others
  stay where they were, the same or shifted (`Shifted`).
* *That no other does* (`NextOnly`).  An intact state has a neighbour condition
  that needs no walk (**`Neat`**, `NeatEnds`): the ends of a block lie in one list, the end
  of a list is where its holder says, and neighbours know each other.  After each call
  outside `KeepsList` it fails at a place that can be named: the neighbour block that
  still points past the new instruction, the end of the graph that stays at the
  deleted one, the new block of a split that ends before its instructions do.
* Both rest on **`Fresh`**, inductive with `IInv` until the destructor runs: the
  client's next instruction and block have not been touched, no pointer leads to
  them, and those taken are the first numbers.  Without it an insertion could be one of
  an instruction that is in a list already.

### Reverse post-order

`Invariance` proves the inductive invariant `IInv`; `ListsReachable`, `ForwardEdges`
and `DominatorsFirst` follow.  None is inductive by itself: the invariant adds that
active blocks form a chain of reachability, that successors an iterator has passed
are visited, and that a successor of a finished block is finished earlier or leads
back to it.  For `DominatorsFirst`: if some block came before one of its strict
dominators, the blocks listed before the dominator would hold all that is
reachable around it, that is, the dominator would be no dominator.  Reachability
is defined by closed sets, so no induction over paths is needed.

### Dominator tree

The algorithm is proved, with the defect of RunStep1 in it.

* **Walk.**  Parents form a tree with growing numbers
  (`TreeShape`), the blocks below one block have numbers without a gap
  (`Intervals`), and an edge to a greater number leads down the tree
  (`EdgesDown`).  The last one is why the algorithm works, and it survives the
  second numbering of a successor of the root: by then every block but the root
  is closed (`SecondNumbers`), so whatever has a number from there on is not
  below a block with a number before it.
* **Forest.**  `Hangs(v, a, l)` says what one entry of the
  forest means: `a` is above `v` and the label `l` is the lowest block with the
  least semidominator between them.  `Compress` keeps this (`HangsJoin`,
  `CompressFacts`), so `Eval` finds the least semidominator on the way up
  (`EvalFacts`).  `PredecsBound` says that the semidominator of a linked block is
  at most what each of its predecessors suggests.
* **Buckets.**  A block leaves the bucket of its semidominator with that as its
  dominator or with a block whose dominator is the same (`Deferred`), and
  FixDom, going down the numbers, resolves the second case.
* **Dominance.**  A semidominator of the least number on the way dominates: the
  blocks not reached around it would be closed under predecessors
  (`EntersRegion`, `SemiDominates`).  So every idom is a strict dominator
  (`IdomsAreDominators`), on every graph and after any edits.
* **Exceptions.**  `ThrowsRight`: Run throws exactly for a root that is its own
  successor and for a reachable block with an unreachable predecessor.
* **Results**, where no block is numbered twice: `Called`
  explains every number by a path around the root, so there is one number for
  each block (`NumberedOnce`); a semidominator is reached by the paths of its
  definition (`SemisReached`) and no smaller one is (`SemiLeast`), hence
  `SemidominatorsExact`; every strict dominator of a block dominates its idom
  (`DeferredImmediate`, `SemiImmediate`), hence the idom is immediate.  The lists
  of dominated blocks then hold exactly the dominances after the first run
  (`TreeRight`) and, as they are only added to, miss none after any later one
  (`ListsMissNothing`): the block with the least number among those missing
  would have a dominator that is missing too.
* **The recursion of IsDominated** (`RecursionEnds`).  It marks nothing as visited,
  so it ends only if no block is below itself in the lists, and those keep what
  was dominance in older graphs.  `ListsOrdered`: some strict order holds all
  entries.  It is not the dominance of any one graph, so it is stated by an
  existential quantifier, and an edit extends it: after an added edge the newly
  reachable blocks come behind all others (`OrderGrows`), after a removed one
  those that are reachable no more (`OrderShrinks`).  With both kinds of edit the
  two cases contradict each other, and TLC finds a cycle.

### Loop analysis

* `RunsDomTree`: up to the end of its first part LoopAnalyzer::Run is
  DomTree::Run, and it leaves alone afterwards what that has written.  With it
  the theorems about `DomTree`, and those of `RPO_proofs` for the second
  part, hold inside the analysis; they are used through instances, whose
  assumptions are proved as lemmas (`TreeAssumption`, `TreeEdgesAssumption`,
  `OrderAssumption`).
* `Typed`: no pass reads a loop that does not exist, and every iterator stays
  inside its vector.
* `EveryBlockInItsLoop`: after each run, on every graph, reducible or not, a
  reachable block has a loop and belongs to it.  Two things are needed.
  `PointersRight`: ProcessBackEdge, ProcessLoopBBs and CollectRootLoop move a
  block's pointer only to a loop they add it to, and take blocks out of no loop
  (`BackEdgeKept`, `LoopBBKept`, `RootBBKept`).  `RootWalk`: the blocks the last
  walk has met have a loop, and all their successors are met once its stack is
  empty, so the blocks met are closed and hold whatever is reachable.
* `ThrowsAsDomTree`: the analysis throws only where DomTree::Run does, the two
  kinds of graph that `ThrowsRight` names.

What the analysis is for is proved in `LoopNatural_proofs`, for the graphs of
`Orderly`: DomTree numbers no block twice, no block is its own successor, the
graph is reducible, and a back edge starts in the innermost loop it could start
in.  Without the last two TLC shows what goes wrong (section 3); all four are
hypotheses of `LoopsAreNatural` and `TreeIsNesting` themselves.  `LoopsRight`: after
any number of runs each reachable block points to the innermost natural loop
around it.  `TreeNests`: after the first run the tree of loops is the nesting of
the natural loops.  Both follow from `Natural`, whose parts belong to the passes:

* **DomTree first** (`TreeKnows`).  Once it has returned, every predecessor of a
  reachable block is reachable, so that the walk along predecessors stays among
  reachable blocks, and `IsDominated` misses no dominance, so that a new loop is
  marked reducible.  The second is `ListsMissNothing` of `DomTree`.
* **Search** (`GrayPath`, `Searched`).  The blocks on the stack are a path of
  edges that are no back edges.  On a reducible graph such a path does not lead
  back, so an edge to a block on the stack is a back edge (`GrayEdges`);
  and every dominator of the top is on the stack, so a back edge always meets its
  header there.  So when the walk ends exactly the back edges are recorded
  (`AllRecorded`), each in the one loop of its header (`OnePerHeader`), and the
  sources point to that loop, which is where `SourcesInnermost` is needed
  (`Located`).
* **Order.**  A header dominates its loop, and `DominatorsComeFirst` of `RPO` puts it
  before all other blocks of it (`Ordered`).  CollectLoops goes from the end, so
  when it opens a loop all loops inside are complete (`Collected`).
* **Fill** (`Filling`).  The blocks met lie in the natural loop, and all
  predecessors of those the walk is done with are met (`PredecInLoop`).  When the
  stack and the set of back edges are empty, the blocks met are closed under
  predecessors up to the header, which makes them the whole natural loop
  (`FillOver`).  A block met without a loop belongs to no loop further inside, as
  those are complete (`LooseInnermost`); a loop met that hangs nowhere has the
  current header as the next one around it (`LooseParent`).  Both rest on natural
  loops with different headers being nested or disjoint, and that on two
  dominators of one block being comparable (`DominatorsComparable`).
* **Hang** (`NestingInv`).  Edges between loops are stored at both ends, a loop hangs
  below its parent or nowhere (`Hanging`), and the loops that hang nowhere when
  CollectLoops is done are the outermost ones, which AssignRootLoop takes in the
  order of `rpo`.  This part is about the first run only: the second finds the
  outermost loops below the old root loop.

Induction over numbers is replaced by the least element of a set of numbers
(`LeastNat`) throughout, and induction over paths by closed sets.

## 6. Only model-checked, and not modelled

Only TLC: liveness (every `Terminates`), `SafeEditsDoWhatTheySay` of `InstList`,
`EdgesExactIffTargetsBegin` of `IRGraphBuild`, and everything about `Inlining`.
Liveness under fairness is out of the prover's reach.  `Inlining` compares terms that recursive operators build, and the
prover loses its SMT backend in a module that declares one.  `SafeEditsDoWhatTheySay`
speaks of what `SelectSeq` and `FlattenSeq` make of the lists, which is induction over
data; `EdgesExactIffTargetsBegin` counts with a remainder where blocks begin, which
would need an invariant of its own.  The violated properties are of course not theorems.

Proved and in no cfg of their own, as a run would repeat another property:
`TwoDistinctSuccs` (one half of `OnlyPrependCrowds`), `EdgesStayInGraph`
(`ImplementsEdgeSet` checks that no foreign block is linked) and
`ListsReachableOnce` (a conjunct of the `IInv` of `RPO`).

Not modelled: primitive types, bit lengths, labels and names; the arguments,
return type and name of an `IRFunction`, which nothing reads; the `user_` pointers
of operands, which nothing follows; markers and register builder (not in the
repository); which memory a wild pointer hits, so a jump whose target was deleted
and reused counts as undefined; leaks (the clones of the copy constructor, the
blocks of a split); second runs on an `RPO` or `DomTree` object that has been used
before (no caller in the repository makes one); tests and build files.

## 7. Plan

1. Done: edges, construction, instruction lists with copies of blocks and the
   destructor, RPO, dominator tree with edits between runs, loop analysis,
   inlining; proofs of edges, construction, RPO, the dominator tree, of the
   loop analysis (types, pointers, exceptions, natural loops and their nesting),
   and of the edits (types, edges of a split, undefined calls, which calls keep the
   lists).
2. An abstract specification for `InstList`, a sequence of blocks of instructions,
   with the contract of `ListIntactIff` as its clients' guards.
