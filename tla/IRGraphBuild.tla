---------------------------- MODULE IRGraphBuild ----------------------------
(***************************************************************************)
(* How an IRGraph comes into being: CreateIRGraphFromInstList cuts a list  *)
(* of instructions into basic blocks and links them, for the constructor   *)
(* and for the copy constructor.  An instruction is its position in insts, *)
(* so GetNext() is the next position and nullptr lies behind the last one; *)
(* a BasicBlock is its position in bbs, an IRGraph its position in graphs. *)
(***************************************************************************)
EXTENDS GraphNode

CONSTANTS Programs,      \* the instruction lists clients pass
          MaxInstInBB,   \* MAX_INST_IN_BB
          MaxCopies      \* bound on the number of copies made

InstTypes == {"plain", "jmp", "ja", "ret"}

\* Clients set the target of every jump.
ASSUME ProgramAssumption ==
    /\ \A prog \in Programs :
          /\ prog \in Seq([type : InstTypes, target : Nat, dest : BOOLEAN])
          /\ \A i \in DOMAIN prog : prog[i].type \in {"jmp", "ja"} => prog[i].target \in DOMAIN prog
    /\ MaxInstInBB \in Nat \ {0}
    /\ MaxCopies \in Nat

VARIABLES
    insts,        \* the instructions: type_, the jump's target, is_jump_dest_
    parent,       \* parent_bb_ of the instructions, 0 for nullptr
    bbs,          \* the blocks: first_inst_, last_inst_ and graph_
    succ, predec, \* their edge vectors
    graphs,       \* finished graphs: bb_set_, root_, first_ and last_
    walker, first_in_bb, inst_cnt, bbs_in_order,   \* locals of the construction
    i,            \* index of the loop that links the blocks
    pc            \* "cut", "link", "done" or "threw"

edgeVars == <<succ, predec>>
localVars == <<walker, first_in_bb, inst_cnt, bbs_in_order, i>>
vars == <<insts, parent, bbs, edgeVars, graphs, localVars, pc>>

Insts == DOMAIN insts
BBs == DOMAIN bbs

Init ==
    /\ insts \in Programs
    /\ parent = [n \in DOMAIN insts |-> 0]
    /\ bbs = <<>> /\ succ = <<>> /\ predec = <<>>
    /\ graphs = <<>>
    /\ walker = 1 /\ first_in_bb = 1 /\ inst_cnt = 0 /\ bbs_in_order = <<>> /\ i = 1
    /\ pc = "cut"

TypeOK ==
    /\ parent \in [Insts -> BBs \cup {0}]
    /\ bbs \in Seq([first : Insts, last : Insts, graph : 1 .. MaxCopies + 1])
    /\ succ \in [BBs -> Seq(BBs)] /\ predec \in [BBs -> Seq(BBs)]
    /\ graphs \in Seq([bb_set : SUBSET BBs, root : BBs \cup {0},
                       first : Insts \cup {0}, last : Insts \cup {0}])
    /\ bbs_in_order \in Seq(BBs)
    /\ inst_cnt \in 0..MaxInstInBB
    /\ pc \in {"cut", "link", "done", "threw"}

-----------------------------------------------------------------------------
(* The first loop: cutting the list.                                       *)

IsJumpInst(n) == insts[n].type \in {"jmp", "ja"}
IsExitInst(n) == insts[n].type = "ret"

\* Mutants: the instructions are not counted, or only jumps end a block.
EndsBBUncounted(n) ==
    \/ IsJumpInst(n) \/ IsExitInst(n) \/ n = Len(insts)
    \/ n < Len(insts) /\ insts[n + 1].dest

\* Mutant: walker itself is counted too.
EndsBBTooSoon(n) ==
    \/ inst_cnt + 1 = MaxInstInBB \/ IsJumpInst(n) \/ IsExitInst(n) \/ n = Len(insts)
    \/ n < Len(insts) /\ insts[n + 1].dest

EndsBBIgnoringTargets(n) ==
    inst_cnt = MaxInstInBB \/ IsJumpInst(n) \/ IsExitInst(n) \/ n = Len(insts)

\* inst_cnt counts the instructions BEFORE walker in the block.
EndsBB(n) ==
    \/ inst_cnt = MaxInstInBB
    \/ IsJumpInst(n)
    \/ IsExitInst(n)
    \/ n = Len(insts)
    \/ n < Len(insts) /\ insts[n + 1].dest

\* Mutant: it never is.
FirstInBBNeverReset == first_in_bb

\* first_in_bb is set anew at the first instruction after a cut.
FirstInBB == IF inst_cnt = 0 THEN walker ELSE first_in_bb

\* The graph under construction; each block belongs to it from the start.
CurGraph == Len(graphs) + 1

\* The constructor of BasicBlock takes the instructions from first to the end
\* of the LIST as its own; the blocks cut later take theirs back.
NewBB(first, last) ==
    LET bb == Len(bbs) + 1
    IN /\ bbs' = Append(bbs, [first |-> first, last |-> last, graph |-> CurGraph])
       /\ parent' = [n \in Insts |-> IF n >= first THEN bb ELSE parent[n]]
       /\ succ' = Append(succ, <<>>) /\ predec' = Append(predec, <<>>)
       /\ bbs_in_order' = Append(bbs_in_order, bb)

CutHere ==
    /\ pc = "cut" /\ walker <= Len(insts)
    /\ EndsBB(walker)
    /\ first_in_bb' = FirstInBB
    /\ NewBB(FirstInBB, walker)
    /\ inst_cnt' = 0
    /\ walker' = walker + 1
    /\ UNCHANGED <<insts, graphs, i, pc>>

WalkOn ==
    /\ pc = "cut" /\ walker <= Len(insts)
    /\ ~EndsBB(walker)
    /\ first_in_bb' = FirstInBB
    /\ inst_cnt' = inst_cnt + 1
    /\ walker' = walker + 1
    /\ UNCHANGED <<insts, parent, bbs, edgeVars, graphs, bbs_in_order, i, pc>>

AllCut ==
    /\ pc = "cut" /\ walker > Len(insts)
    /\ pc' = "link"
    /\ UNCHANGED <<insts, parent, bbs, edgeVars, graphs, localVars>>

-----------------------------------------------------------------------------
(* The second loop: linking the blocks.                                    *)

CurBB == bbs_in_order[i]
LastInst == bbs[CurBB].last
IsLastBB == i = Len(bbs_in_order)

\* AddSuccWithPredec on the edges e.
Link(e, to) == [succ |-> PushBack(e.succ, CurBB, to), predec |-> PushBack(e.predec, to, CurBB)]

Unlinked == [succ |-> succ, predec |-> predec]
Following == bbs_in_order[i + 1]
Target == parent[insts[LastInst].target]

\* The edges of the block, by its last instruction.
Linked ==
    CASE insts[LastInst].type = "jmp" -> Link(Unlinked, Target)
      [] insts[LastInst].type = "ja"  -> Link(Link(Unlinked, Following), Target)
      [] insts[LastInst].type = "ret" -> Unlinked
      [] OTHER -> IF IsLastBB THEN Unlinked ELSE Link(Unlinked, Following)

LinkBB ==
    /\ pc = "link" /\ i <= Len(bbs_in_order)
    /\ ~(insts[LastInst].type = "ja" /\ IsLastBB)
    /\ succ' = Linked.succ /\ predec' = Linked.predec
    /\ i' = i + 1
    /\ UNCHANGED <<insts, parent, bbs, graphs, walker, first_in_bb, inst_cnt, bbs_in_order, pc>>

\* bbs_in_order.at(i+1) behind the last block.
LinkThrows ==
    /\ pc = "link" /\ i <= Len(bbs_in_order)
    /\ insts[LastInst].type = "ja" /\ IsLastBB
    /\ pc' = "threw"
    /\ UNCHANGED <<insts, parent, bbs, edgeVars, graphs, localVars>>

Constructed ==
    /\ pc = "link" /\ i > Len(bbs_in_order)
    /\ graphs' = Append(graphs,
          IF bbs_in_order = <<>>
          THEN [bb_set |-> {}, root |-> 0, first |-> 0, last |-> 0]
          ELSE [bb_set |-> ToSet(bbs_in_order), root |-> Head(bbs_in_order),
                first |-> bbs[Head(bbs_in_order)].first, last |-> bbs[Last(bbs_in_order)].last])
    /\ pc' = "done"
    /\ UNCHANGED <<insts, parent, bbs, edgeVars, localVars>>

-----------------------------------------------------------------------------
\* The copy constructor clones every instruction, but the list it passes on
\* starts with the ORIGINAL first instruction; the clones are lost.  A jump
\* has no clone of its own: fixing its copy writes behind the object, which
\* no model describes, so only lists without jumps are copied here.
CopyGraph ==
    /\ pc = "done" /\ Len(graphs) <= MaxCopies
    /\ \A n \in Insts : ~IsJumpInst(n)
    /\ walker' = 1 /\ first_in_bb' = 1 /\ inst_cnt' = 0 /\ bbs_in_order' = <<>> /\ i' = 1
    /\ pc' = "cut"
    /\ UNCHANGED <<insts, parent, bbs, edgeVars, graphs>>

\* The clients make no further copy, or the constructor has thrown.
Ended == pc \in {"done", "threw"} /\ UNCHANGED vars

Next == CutHere \/ WalkOn \/ AllCut \/ LinkBB \/ LinkThrows \/ Constructed \/ CopyGraph \/ Ended

Spec == Init /\ [][Next]_vars

-----------------------------------------------------------------------------
(* Properties.                                                             *)

InstsOf(bb) == bbs[bb].first .. bbs[bb].last

\* Every jump's target carries the flag is_jump_dest_.
TargetsFlagged == \A n \in Insts : IsJumpInst(n) => insts[insts[n].target].dest

\* The blocks of the newest graph tile the list in order, none is longer than
\* one instruction more than MAX_INST_IN_BB, and each instruction knows the
\* block that holds it, though every block has taken the whole rest of the list
\* first, and blocks of other graphs before.
BlocksTileTheList ==
    pc = "done" =>
        /\ \A j \in DOMAIN bbs_in_order :
              bbs[bbs_in_order[j]].first =
                  IF j = 1 THEN 1 ELSE bbs[bbs_in_order[j - 1]].last + 1
        /\ insts # <<>> => bbs[Last(bbs_in_order)].last = Len(insts)
        /\ \A bb \in BBs : bbs[bb].last - bbs[bb].first <= MaxInstInBB
        /\ \A bb \in ToSet(bbs_in_order) : \A n \in InstsOf(bb) : parent[n] = bb

\* Control enters a block at its first instruction and leaves it at its last.
FlowsTo(n) ==
    CASE insts[n].type = "jmp" -> {insts[n].target}
      [] insts[n].type = "ja"  -> {n + 1, insts[n].target}
      [] insts[n].type = "ret" -> {}
      [] OTHER -> {n + 1}

\* The edges of the newest graph are the steps that control takes from the end
\* of one block to the start of another, and no step of control leads from or
\* to the inside of a block.
FlowsBetweenBlocks ==
    /\ \A u, v \in ToSet(bbs_in_order) :
          /\ Occurs(succ, u, v) <=> bbs[v].first \in FlowsTo(bbs[u].last)
          /\ Occurs(predec, v, u) <=> Occurs(succ, u, v)
    /\ \A n \in Insts : \A m \in FlowsTo(n) \cap Insts :
          \/ m = n + 1 /\ parent[m] = parent[n]
          \/ bbs[parent[n]].last = n /\ bbs[parent[m]].first = m

\* When every target is flagged, control flows between blocks and the edges say
\* how.  There is a graph unless the list ends in a conditional jump: then the
\* constructor throws.
EdgesAreControlFlow ==
    /\ pc = "done" /\ TargetsFlagged => FlowsBetweenBlocks
    /\ pc = "threw" => insts # <<>> /\ Last(insts).type = "ja"
    /\ pc = "done" => insts = <<>> \/ Last(insts).type # "ja"

\* A block begins with the list, at a flag, behind a jump or a ret, and in
\* straight code after every MAX_INST_IN_BB + 1 instructions.
Forced(n) == n = 1 \/ insts[n].dest \/ insts[n - 1].type # "plain"
BeginsBlock(n) == (n - Max({m \in 1..n : Forced(m)})) % (MaxInstInBB + 1) = 0

\* Whichever targets lack the flag, the edges are the control flow exactly when
\* every jump leads to an instruction that begins a block all the same: else
\* control enters a block in the middle, and the edge says at its start.
EdgesExactIffTargetsBegin ==
    pc = "done" =>
        (FlowsBetweenBlocks <=>
            \A n \in Insts : IsJumpInst(n) => BeginsBlock(insts[n].target))

\* A copy is a graph of its own: the instructions of each graph still belong
\* to that graph's blocks.
CopiesShareNothing ==
    pc = "done" => \A g \in DOMAIN graphs : \A bb \in graphs[g].bb_set :
        \A n \in InstsOf(bb) : parent[n] = bb

-----------------------------------------------------------------------------
(* The inductive invariant.                                                *)

NewestBBs == ToSet(bbs_in_order)

\* The last instruction cut off so far, 0 if there is none.
CutEnd == IF bbs_in_order = <<>> THEN 0 ELSE bbs[Last(bbs_in_order)].last

\* The loop over the list is inst_cnt instructions behind the last cut.
WalkerInStep ==
    /\ walker = CutEnd + inst_cnt + 1 /\ walker <= Len(insts) + 1
    /\ inst_cnt > 0 => first_in_bb = CutEnd + 1 /\ walker <= Len(insts)
    /\ pc # "cut" => walker = Len(insts) + 1

CountersInStep ==
    /\ i \in 1 .. Len(bbs_in_order) + 1
    /\ pc = "cut" => i = 1
    /\ Len(graphs) <= IF pc = "done" THEN MaxCopies + 1 ELSE MaxCopies

\* The blocks of the newest graph are the ones allocated last.
NewestAreLast ==
    /\ Len(bbs_in_order) <= Len(bbs)
    /\ \A j \in DOMAIN bbs_in_order : bbs_in_order[j] = Len(bbs) - Len(bbs_in_order) + j

BlocksTile ==
    \A j \in DOMAIN bbs_in_order :
        LET bb == bbs[bbs_in_order[j]]
        IN /\ bb.first = IF j = 1 THEN 1 ELSE bbs[bbs_in_order[j - 1]].last + 1
           /\ bb.first <= bb.last /\ bb.last <= CutEnd

BlocksCover == \A n \in 1..CutEnd : \E bb \in NewestBBs : n \in InstsOf(bb)

BlocksOwn == \A bb \in NewestBBs : \A n \in InstsOf(bb) : parent[n] = bb

BlocksBounded == \A bb \in BBs : bbs[bb].last - bbs[bb].first <= MaxInstInBB

\* Within a block control goes from each instruction to the next, and nowhere else.
InsideStraight ==
    \A n \in 1 .. walker - 1 :
        \/ \E bb \in NewestBBs : bbs[bb].last = n
        \/ insts[n].type = "plain" /\ n < Len(insts) /\ ~insts[n + 1].dest

\* The blocks control gets to from the end of bb.
SuccsByFlow(bb) == {parent[n] : n \in FlowsTo(bbs[bb].last) \cap Insts}

\* The first i - 1 blocks are linked as control flows, the others not at all.
EdgesSoFar ==
    \A j \in DOMAIN bbs_in_order :
        LET bb == bbs_in_order[j]
        IN /\ ToSet(succ[bb]) = IF j < i THEN SuccsByFlow(bb) ELSE {}
           /\ \A v \in NewestBBs : Occurs(predec, v, bb) <=> Occurs(succ, bb, v)

TrailingJaThrows ==
    /\ pc = "threw" => insts # <<>> /\ Last(insts).type = "ja"
    /\ i > Len(bbs_in_order) /\ pc \in {"link", "done"} => insts = <<>> \/ Last(insts).type # "ja"
    /\ pc = "done" => i > Len(bbs_in_order)

IInv ==
    /\ TypeOK
    /\ insts \in Programs
    /\ WalkerInStep
    /\ CountersInStep
    /\ NewestAreLast
    /\ BlocksTile
    /\ BlocksCover
    /\ BlocksOwn
    /\ BlocksBounded
    /\ InsideStraight
    /\ EdgesSoFar
    /\ TrailingJaThrows
=============================================================================
