------------------------------ MODULE Inlining ------------------------------
(***************************************************************************)
(* Inlining::run: every call met on the way through a function's list is   *)
(* followed by the callee's body.  The lists, the blocks and the edges are *)
(* those of InstList, whose calls the inliner makes; function f's body is  *)
(* graph f, and the graphs the inliner makes are numbered from there on.   *)
(* pc says which part of ReplaceCallWithBody comes next, for the call that *)
(* walker points to; it ends in "threw" when an exception leaves run, and  *)
(* in "undefined" when the code has no meaning from there on.              *)
(***************************************************************************)
EXTENDS GraphNode, FiniteSets

CONSTANTS Programs,   \* functions, and those of them run is called on
          MaxInsts,   \* bound on the instructions ever made
          MaxBBs,     \* bound on the blocks ever made
          MaxGraphs,  \* bound on the graphs ever made
          MaxInstInBB,   \* MAX_INST_IN_BB
          Wild        \* as in InstList

\* The client has its functions: a list that ends in a conditional jump makes
\* the constructor of its graph throw.
ASSUME ProgramsAssumption ==
    /\ MaxInstInBB \in Nat
    /\ \A p \in Programs : \A f \in DOMAIN p.bodies :
          p.bodies[f] = <<>> \/ Last(p.bodies[f]).type # "ja"

VARIABLES
    next, prev, parent, deleted, blocks, first_inst, last_inst, graph_,
    succ, predec, first, last, root, bb_set, call, calls,   \* of InstList
    code,        \* what the instructions are
    program,     \* the functions as the client has made them
    ran,         \* how many calls of run have begun
    walker,      \* of run; the call_inst of everything it calls
    clone,       \* callee_body_clone, the last graph made
    ret_insts,   \* those InsertFuncBody has still to remove
    end_bb,      \* of InsertFuncBody
    inlined,     \* calls that have been replaced
    destroyed,   \* functions that have been deleted
    pc

Lists == INSTANCE InstList WITH Layouts <- {}, MaxCalls <- 0

listVars == <<next, prev, parent, deleted>>
blockVars == <<blocks, first_inst, last_inst, graph_>>
edgeVars == <<succ, predec>>
graphVars == <<first, last, root, bb_set>>
callVars == <<call, calls>>
instVars == <<listVars, blockVars, edgeVars, graphVars, callVars>>
workVars == <<clone, ret_insts, end_bb>>
clientVars == <<program, inlined, destroyed>>
vars == <<instVars, code, ran, walker, workVars, clientVars, pc>>

Null == 0
Insts == 1..MaxInsts
Valid(x) == Lists!Valid(x)
EndsInNull(x) == Lists!EndsInNull(x)
List(g) == Lists!List(g)

Functions == DOMAIN program.bodies

-----------------------------------------------------------------------------
(* Instructions.  An operand is a register or an immediate: its kind and   *)
(* its index or value.                                                     *)

NoReg == <<"nullptr", 0>>
Kinds == {"t", "a", "g", "imm", "nullptr"}
Types == {"movi", "add", "ja", "jmp", "ret", "phi", "call"}
Code == [type : Types, res : Kinds \X Nat, opnds : Seq(Kinds \X Nat),
         dest : Insts \cup {Null}, jump_dest : BOOLEAN, callee : Nat, from : Seq(1..MaxBBs)]

\* The classes of instructions that have a result register and operands.
HasRegs(x) == code[x].type \notin {"ja", "jmp"}
IsCall(x) == code[x].type = "call"
IsRet(x) == code[x].type = "ret"

-----------------------------------------------------------------------------
(* Graphs cut out of lists.                                                *)

\* The places in a list where a block ends, the last one of straight code
\* after every MAX_INST_IN_BB + 1 instructions.
Cuts(list) ==
    LET forced == {i \in DOMAIN list : \/ code[list[i]].type \in {"ja", "jmp", "ret"}
                                       \/ i = Len(list)
                                       \/ code[list[i + 1]].jump_dest}
        behind(i) == i - Max({0} \cup {j \in forced : j < i})
    IN forced \cup {i \in MaxInstInBB + 1 .. Len(list) : behind(i) % (MaxInstInBB + 1) = 0}

EndsInJa(list) == list # <<>> /\ code[Last(list)].type = "ja"

\* The block the i-th instruction falls into, counted from 1.
Nth(list, i) == Cardinality({j \in Cuts(list) : j < i}) + 1
NthOf(list, x) == Nth(list, CHOOSE i \in DOMAIN list : list[i] = x)

\* A block ends where the code says, and is linked to the block of a jump's
\* target, after the next one when the jump is conditional; a ret has none.
\* A conditional jump at the end of the list throws before it has any.
Edges(list) ==
    LET ends == SetToSortSeq(Cuts(list), LAMBDA i, j : i < j)
        edges(k) ==
            LET x == code[list[ends[k]]]
            IN CASE x.type = "ret" -> <<>>
                 [] x.type = "jmp" -> <<<<k, NthOf(list, x.dest)>>>>
                 [] x.type = "ja" -> IF k = Len(ends) THEN <<>>
                                     ELSE <<<<k, k + 1>>, <<k, NthOf(list, x.dest)>>>>
                 [] OTHER -> IF k = Len(ends) THEN <<>> ELSE <<<<k, k + 1>>>>
    IN FlattenSeq([k \in DOMAIN ends |-> edges(k)])

\* The edge vectors e with these edges between the blocks after base added.
WithEdges(e, edges, base) ==
    FoldLeft(LAMBDA acc, edge : Lists!Added(acc, base + edge[1], base + edge[2]), e, edges)

NowEdges == [succ |-> succ, predec |-> predec, threw |-> FALSE]

-----------------------------------------------------------------------------
(* The client makes its functions' lists and the functions from them.      *)

\* The places of function f's instructions among those of all bodies.
Body(bodies, f) ==
    LET before == Len(FlattenSeq(SubSeq(bodies, 1, f - 1)))
    IN [i \in DOMAIN bodies[f] |-> before + i]

\* Bodies name the targets of their jumps by place.
Made(bodies) ==
    LET target(f, i) == IF i = 0 THEN Null ELSE Body(bodies, f)[i]
    IN FlattenSeq([f \in DOMAIN bodies |->
           [i \in DOMAIN bodies[f] |-> [bodies[f][i] EXCEPT !.dest = target(f, @)]]])

Unmade == [type |-> "movi", res |-> NoReg, opnds |-> <<>>, dest |-> Null,
           jump_dest |-> FALSE, callee |-> 0, from |-> <<>>]

\* The blocks and edges of function after function.
LayoutOf(bodies) ==
    LET graph == FlattenSeq([f \in DOMAIN bodies |-> [k \in 1 .. Cardinality(Cuts(bodies[f])) |-> f]])
        base(f) == Cardinality({bb \in DOMAIN graph : graph[bb] < f})
        none == [bb \in 1..MaxBBs |-> <<>>]
        e == FoldLeft(LAMBDA acc, f : WithEdges(acc, Edges(bodies[f]), base(f)),
                      [succ |-> none, predec |-> none, threw |-> FALSE],
                      [f \in DOMAIN bodies |-> f])
    IN [owner |-> FlattenSeq([f \in DOMAIN bodies |->
                      [i \in DOMAIN bodies[f] |-> base(f) + Nth(bodies[f], i)]]),
        graph |-> graph, succ |-> e.succ, predec |-> e.predec]

Init ==
    /\ \E p \in Programs :
          LET made == Made(p.bodies)
          IN /\ code = [x \in Insts |-> IF x \in DOMAIN made THEN made[x] ELSE Unmade]
             /\ program = [bodies |-> [f \in DOMAIN p.bodies |-> Body(p.bodies, f)],
                           code |-> made, runs |-> p.runs]
    /\ \E layout \in {LayoutOf(program.bodies)}, zeroed \in {{}, Insts} : Lists!Laid(layout, zeroed)
    /\ ran = 1 /\ walker = first[program.runs[1]]
    /\ clone = Len(program.bodies) /\ ret_insts = <<>> /\ end_bb = Null
    /\ inlined = {} /\ destroyed = {} /\ pc = "walk"

TypeOK ==
    /\ Lists!TypeOK
    /\ code \in [Insts -> Code]
    /\ \A x \in Insts : Len(code[x].from) = (IF code[x].type = "phi" THEN Len(code[x].opnds) ELSE 0)
    /\ program.code \in Seq(Code) /\ ran \in DOMAIN program.runs
    /\ walker \in Lists!Links /\ clone \in 1..MaxGraphs
    /\ ret_insts \in Seq(Insts) /\ end_bb \in Lists!BBs \cup {Null}
    /\ inlined \subseteq {x \in Insts : IsCall(x)} /\ destroyed \subseteq Functions
    /\ pc \in {"walk", "copy", "rename", "split", "args", "result", "relink", "rets", "remove",
               "done", "threw", "undefined"}

-----------------------------------------------------------------------------
(* run.                                                                    *)

\* The rest is not reached.
Stops(how) == pc' = how /\ UNCHANGED <<instVars, code, ran, walker, workVars, clientVars>>

\* Mutant: the loop does not get past a ret.
WalkStuckAtRet ==
    /\ pc = "walk" /\ Valid(walker)
    /\ IF IsCall(walker) THEN pc' = "copy" /\ UNCHANGED walker
                         ELSE walker' = (IF IsRet(walker) THEN walker ELSE next[walker]) /\ UNCHANGED pc
    /\ UNCHANGED <<instVars, code, ran, workVars, clientVars>>

Walk ==
    /\ pc = "walk" /\ Valid(walker)
    /\ IF IsCall(walker) THEN pc' = "copy" /\ UNCHANGED walker
                         ELSE walker' = next[walker] /\ UNCHANGED pc
    /\ UNCHANGED <<instVars, code, ran, workVars, clientVars>>

WalkAstray == pc = "walk" /\ walker # Null /\ ~Valid(walker) /\ Stops("undefined")

\* run has returned; the client may call it on another function.
Return ==
    /\ pc = "walk" /\ walker = Null
    /\ IF ran = Len(program.runs)
       THEN pc' = "done" /\ UNCHANGED <<ran, walker>>
       ELSE ran' = ran + 1 /\ walker' = first[program.runs[ran + 1]] /\ UNCHANGED pc
    /\ UNCHANGED <<instVars, code, workVars, clientVars>>

-----------------------------------------------------------------------------
(* ReplaceCallWithBody.                                                    *)

\* Cloning reads the result register of whatever has operands.
Clonable(list) == \A x \in ToSet(list) : HasRegs(x) => code[x].res # NoReg

Jumps(list) == {x \in ToSet(list) : ~HasRegs(x)}
JumpsOut(list) == \E x \in Jumps(list) : code[x].dest \notin ToSet(list)

\* CreateIRGraphFromInstList: graph g over the instructions of the list, in
\* the blocks after base; when it throws there are blocks and edges, but no graph.
Built(list, g, base) ==
    \E starts \in {{i \in DOMAIN list : i = 1 \/ i - 1 \in Cuts(list)}}, e \in {WithEdges(NowEdges, Edges(list), base)} :
        LET ends == {i \in DOMAIN list : i = Len(list) \/ i + 1 \in starts}
            at == base + 1 .. base + Cardinality(starts)
            nth(i) == base + Cardinality({j \in starts : j <= i})
            held(bb, places, else) ==
                IF bb \in at THEN list[CHOOSE i \in places : nth(i) = bb] ELSE else
            place(x) == CHOOSE i \in DOMAIN list : list[i] = x
        IN /\ blocks' = blocks \cup at
           /\ parent' = [x \in Insts |-> IF x \in ToSet(list) THEN nth(place(x)) ELSE parent[x]]
           /\ first_inst' = [bb \in Lists!BBs |-> held(bb, starts, first_inst[bb])]
           /\ last_inst' = [bb \in Lists!BBs |-> held(bb, ends, last_inst[bb])]
           /\ graph_' = [bb \in Lists!BBs |-> IF bb \in at THEN g ELSE graph_[bb]]
           /\ succ' = e.succ /\ predec' = e.predec
           /\ IF EndsInJa(list) THEN UNCHANGED graphVars ELSE
              /\ bb_set' = [bb_set EXCEPT ![g] = at]
              /\ root' = [root EXCEPT ![g] = IF list = <<>> THEN Null ELSE base + 1]
              /\ first' = [first EXCEPT ![g] = IF list = <<>> THEN Null ELSE list[1]]
              /\ last' = [last EXCEPT ![g] = IF list = <<>> THEN Null ELSE Last(list)]

\* The copy constructor of IRGraph: the clones are left behind, and the new
\* graph takes the callee's own instructions.  The target of a jump must be on
\* the list, and the clone of a jump is too small for the target that is
\* written into it: the memory behind it may or may not matter.
CopyGraph ==
    /\ pc = "copy"
    /\ \E callee \in {code[walker].callee} : \E list \in {List(callee)} :
          \/ /\ ~EndsInNull(first[callee]) \/ ~Clonable(list) \/ Jumps(list) # {}
             /\ Stops("undefined")
          \/ /\ EndsInNull(first[callee]) /\ Clonable(list) /\ JumpsOut(list)
             /\ Stops("threw")
          \/ /\ EndsInNull(first[callee]) /\ Clonable(list) /\ ~JumpsOut(list)
             /\ Built(list, clone + 1, Cardinality(blocks))
             /\ clone' = clone + 1 /\ pc' = (IF EndsInJa(list) THEN "threw" ELSE "rename")
             /\ UNCHANGED <<next, prev, deleted, callVars, code, ran, walker, ret_insts, end_bb, clientVars>>

\* Mutant: the results of calls are not looked at.
MaxTmpRegBesideCalls(list) ==
    Max({0} \cup {code[x].res[2] : x \in {y \in ToSet(list) : code[y].res[1] = "t" /\ ~IsCall(y)}})

\* The highest index among the temporaries the list assigns.
MaxTmpReg(list) == Max({0} \cup {code[x].res[2] : x \in {y \in ToSet(list) : code[y].res[1] = "t"}})

Shifted(reg, num) == IF reg[1] = "t" THEN <<"t", reg[2] + num>> ELSE reg
WithShifted(x, num) ==
    [code[x] EXCEPT !.res = Shifted(@, num), !.opnds = [i \in DOMAIN @ |-> Shifted(@[i], num)]]

\* FindMaxTmpReg, in the graph the call's block knows, and
\* AddNumToEveryTmpRegIdx, in the copy.
RenameTmps ==
    /\ pc = "rename"
    /\ LET g == graph_[parent[walker]]
           known == g # Null /\ EndsInNull(first[g])
       IN IF ~known \/ \E x \in ToSet(List(g)) : HasRegs(x) /\ code[x].res = NoReg
          THEN Stops("undefined")
          ELSE /\ \E copied \in {ToSet(List(clone))}, num \in {MaxTmpReg(List(g)) + 1} :
                     code' = [x \in Insts |-> IF x \in copied THEN WithShifted(x, num) ELSE code[x]]
               /\ pc' = "split"
               /\ UNCHANGED <<instVars, ran, walker, workVars, clientVars>>

\* What follows a call of InstList.
Then(where) == pc' = IF call'.outcome = "returned" THEN where ELSE call'.outcome

Split ==
    /\ pc = "split"
    /\ Lists!SplitBBInTwo(walker) /\ Then("args")
    /\ UNCHANGED <<code, ran, walker, workVars, clientVars>>

IsArg(reg) == reg[1] = "a"
Missing(x, args) == {i \in DOMAIN code[x].opnds : IsArg(code[x].opnds[i]) /\ code[x].opnds[i][2] >= Len(args)}

\* x with its argument registers replaced, up to the first that has no value.
WithArgs(x, args) ==
    [code[x] EXCEPT !.opnds = [i \in DOMAIN @ |->
        IF IsArg(@[i]) /\ \A j \in Missing(x, args) : i < j THEN args[@[i][2] + 1] ELSE @[i]]]

\* A function that calls itself: the call's own operands are replaced, and a
\* value is read again after the operand it is copied from is gone.
ReadsFreed(list, args) ==
    \E i \in DOMAIN list, a \in DOMAIN args :
        /\ list[i] = walker /\ IsArg(args[a])
        /\ \/ \E b \in DOMAIN args : b > a /\ args[b] = <<"a", a - 1>>
           \/ \E j \in DOMAIN list : j > i /\ <<"a", a - 1>> \in ToSet(code[list[j]].opnds)

\* Mutant: an argument that is missing is left as it is.
PropFuncArgsUnchecked ==
    /\ pc = "args"
    /\ \E list \in {List(clone)}, args \in {code[walker].opnds} :
          IF ReadsFreed(list, args) THEN Stops("undefined")
          ELSE /\ code' = [x \in Insts |-> IF x \in ToSet(list) THEN WithArgs(x, args) ELSE code[x]]
               /\ pc' = "result"
               /\ UNCHANGED <<instVars, ran, walker, workVars, clientVars>>

\* The values of the call take the place of the argument registers that are
\* read in the copy, one after the other until one is missing.
PropFuncArgs ==
    /\ pc = "args"
    /\ \E list \in {List(clone)}, args \in {code[walker].opnds} :
          LET lacking == {i \in DOMAIN list : Missing(list[i], args) # {}}
              reached == IF lacking = {} THEN list ELSE SubSeq(list, 1, Min(lacking))
          IN IF ReadsFreed(reached, args) THEN Stops("undefined")
             ELSE /\ code' = [x \in Insts |-> IF x \in ToSet(reached) THEN WithArgs(x, args) ELSE code[x]]
                  /\ pc' = IF lacking = {} THEN "result" ELSE "threw"
                  /\ UNCHANGED <<instVars, ran, walker, workVars, clientVars>>

-----------------------------------------------------------------------------
(* InsertFuncBody.                                                         *)

Unchanging == UNCHANGED <<ran, walker, clone, clientVars>>

\* Mutant: the operands of the phi do not say where control comes from.
ResultOfAnyBlock(rets) ==
    LET operand(x) == code[x].opnds[1]
    IN IF Len(rets) > 1
       THEN [Unmade EXCEPT !.type = "phi", !.res = code[walker].res, !.jump_dest = TRUE,
                           !.opnds = [i \in DOMAIN rets |-> operand(rets[i])]]
       ELSE [Unmade EXCEPT !.res = code[walker].res, !.opnds = <<operand(rets[1])>>]

\* What stands for the result of the call: a choice by the block of the ret
\* among several, or a plain move.
Result(rets) ==
    LET operand(x) == code[x].opnds[1]
    IN IF Len(rets) > 1
       THEN [Unmade EXCEPT !.type = "phi", !.res = code[walker].res, !.jump_dest = TRUE,
                           !.opnds = [i \in DOMAIN rets |-> operand(rets[i])],
                           !.from = [i \in DOMAIN rets |-> parent[rets[i]]]]
       ELSE [Unmade EXCEPT !.res = code[walker].res, !.opnds = <<operand(rets[1])>>]

InsertResult ==
    /\ pc = "result"
    /\ \E rets \in {SelectSeq(List(clone), IsRet)}, bb \in {parent[walker]} :
          \/ rets = <<>> /\ Stops("threw")
          \/ rets # <<>> /\ succ[bb] = <<>> /\ Stops("undefined")
          \/ /\ rets # <<>> /\ succ[bb] # <<>>
             /\ \E inst \in Insts :
                   /\ Lists!IsNew(inst) /\ Lists!InsertInstForward(succ[bb][1], inst)
                   /\ code' = [code EXCEPT ![inst] = Result(rets)]
             /\ Then("relink")
             /\ ret_insts' = rets /\ UNCHANGED end_bb /\ Unchanging

\* The call's block leads to the body instead of to its successor.
Relink ==
    /\ pc = "relink"
    /\ LET bb == parent[walker]
           e == Lists!Added(Lists!Removed(NowEdges, bb, succ[bb][1]), bb, root[clone])
       IN /\ end_bb' = succ[bb][1]
          /\ succ' = e.succ /\ predec' = e.predec
          /\ pc' = IF e.threw THEN "threw" ELSE "rets"
    /\ UNCHANGED <<listVars, blockVars, graphVars, callVars, code, ret_insts>> /\ Unchanging

\* Mutant: the new successor does not know the block of the ret.
LinkRetOneWay ==
    /\ pc = "rets" /\ ret_insts # <<>>
    /\ succ' = Lists!Added(NowEdges, parent[Head(ret_insts)], end_bb).succ
    /\ pc' = "remove"
    /\ UNCHANGED <<listVars, blockVars, predec, graphVars, callVars, code, ret_insts, end_bb>> /\ Unchanging

\* The block of a ret leads to where the call's block led, and the ret goes.
LinkRet ==
    /\ pc = "rets" /\ ret_insts # <<>>
    /\ LET e == Lists!Added(NowEdges, parent[Head(ret_insts)], end_bb)
       IN succ' = e.succ /\ predec' = e.predec
    /\ pc' = "remove"
    /\ UNCHANGED <<listVars, blockVars, graphVars, callVars, code, ret_insts, end_bb>> /\ Unchanging

RemoveRet ==
    /\ pc = "remove"
    /\ Lists!RemoveNonCFGOrSideInst(clone, Head(ret_insts)) /\ Then("rets")
    /\ ret_insts' = Tail(ret_insts)
    /\ UNCHANGED <<code, end_bb>> /\ Unchanging

\* Mutant: the last instruction of the body leads nowhere.
SpliceOneEnd ==
    /\ pc = "rets" /\ ret_insts = <<>>
    /\ LET after == first_inst[end_bb]
       IN IF \A x \in {first[clone], last[clone], after} : Valid(x)
          THEN /\ next' = [next EXCEPT ![walker] = first[clone]]
               /\ prev' = [prev EXCEPT ![first[clone]] = walker, ![after] = last[clone]]
               /\ inlined' = inlined \cup {walker}
               /\ walker' = next'[walker] /\ pc' = "walk"
               /\ UNCHANGED <<parent, deleted, blockVars, edgeVars, graphVars, callVars,
                              code, ran, workVars, program, destroyed>>
          ELSE Stops("undefined")

\* The body goes between the call and the instruction after it, and run goes
\* on with the body.
Splice ==
    /\ pc = "rets" /\ ret_insts = <<>>
    /\ LET after == first_inst[end_bb]
       IN IF \A x \in {first[clone], last[clone], after} : Valid(x)
          THEN /\ next' = [next EXCEPT ![walker] = first[clone], ![last[clone]] = after]
               /\ prev' = [prev EXCEPT ![first[clone]] = walker, ![after] = last[clone]]
               /\ inlined' = inlined \cup {walker}
               /\ walker' = next'[walker] /\ pc' = "walk"
               /\ UNCHANGED <<parent, deleted, blockVars, edgeVars, graphVars, callVars,
                              code, ran, workVars, program, destroyed>>
          ELSE Stops("undefined")

-----------------------------------------------------------------------------
\* The client deletes a function, and with it its graph.
Destroy(f) ==
    /\ pc \in {"done", "threw"} /\ f \in Functions \ destroyed
    /\ Lists!DestroyGraph(f) /\ Then(pc)
    /\ destroyed' = destroyed \cup {f}
    /\ UNCHANGED <<code, program, ran, walker, workVars, inlined>>

Run ==
    \/ Walk \/ WalkAstray \/ Return \/ CopyGraph \/ RenameTmps \/ Split \/ PropFuncArgs
    \/ InsertResult \/ Relink \/ LinkRet \/ RemoveRet \/ Splice

Over == pc = "undefined" \/ destroyed = Functions

Next ==
    \/ Run
    \/ \E f \in Functions : Destroy(f)
    \/ Over /\ UNCHANGED vars

Spec == Init /\ [][Next]_vars
FairSpec == Spec /\ WF_vars(Run)

-----------------------------------------------------------------------------
(* What functions compute, for a choice of the conditional jumps that are  *)
(* taken: a term over the arguments.                                       *)

Undef == <<"undefined">>
Nowhere == <<"end">>

Read(env, x) == IF x[1] = "imm" THEN x ELSE IF x \in DOMAIN env THEN env[x] ELSE Undef
Called(args) == [x \in {<<"a", i - 1>> : i \in DOMAIN args} |-> args[x[2] + 1]]
Assigned(env, reg, value) == (reg :> value) @@ env

RECURSIVE ValueFrom(_, _, _, _)

\* As the client has written it.
Value(f, args, taken) == ValueFrom(f, 1, Called(args), taken)

Computed(c, env, taken) ==
    LET values == [i \in DOMAIN c.opnds |-> Read(env, c.opnds[i])]
    IN CASE c.type = "movi" -> values[1]
         [] c.type = "add" -> <<"add">> \o values
         [] c.type = "call" -> Value(c.callee, values, taken)

ValueFrom(f, i, env, taken) ==
    LET body == program.bodies[f]
        c == program.code[body[i]]
        at(x) == CHOOSE j \in DOMAIN body : body[j] = x
    IN IF i > Len(body) THEN Nowhere
       ELSE CASE c.type = "ret" -> Read(env, c.opnds[1])
              [] c.type = "jmp" -> ValueFrom(f, at(c.dest), env, taken)
              [] c.type = "ja" -> ValueFrom(f, IF body[i] \in taken THEN at(c.dest) ELSE i + 1, env, taken)
              [] OTHER -> ValueFrom(f, i + 1, Assigned(env, c.res, Computed(c, env, taken)), taken)

\* As the blocks and edges have it now; a call that was replaced is passed by.
Content(bb) ==
    LET list == Lists!Follow(first_inst[bb])
        ends == {i \in DOMAIN list : list[i] = last_inst[bb]}
    IN SubSeq(list, 1, IF ends = {} THEN Len(list) ELSE Min(ends))

Stepped(env, x, before, taken) ==
    LET c == code[x]
    IN CASE ~HasRegs(x) \/ x \in inlined -> env
         [] c.type = "phi" ->
               LET came == {i \in DOMAIN c.from : c.from[i] = before}
               IN Assigned(env, c.res, IF came = {} THEN Undef ELSE Read(env, c.opnds[Min(came)]))
         [] OTHER -> Assigned(env, c.res, Computed(c, env, taken))

RECURSIVE ValueIn(_, _, _, _, _)
ValueIn(bb, before, env, taken, n) ==
    LET insts == Content(bb)
        rets == SelectSeq(insts, IsRet)
        now == FoldLeft(LAMBDA e, x : Stepped(e, x, before, taken), env,
                        SelectSeq(insts, LAMBDA x : ~IsRet(x)))
        jumps == Len(succ[bb]) = 2 /\ insts # <<>> /\ Last(insts) \in taken
    IN IF rets # <<>> THEN Read(now, code[rets[1]].opnds[1])
       ELSE IF succ[bb] = <<>> \/ n = 0 THEN Nowhere
       ELSE ValueIn(succ[bb][IF jumps THEN 2 ELSE 1], bb, now, taken, n - 1)

ValueNow(f, args, taken) == IF root[f] = Null THEN Nowhere ELSE ValueIn(root[f], Null, Called(args), taken, MaxBBs)

Arguments == <<<<"arg", 0>>, <<"arg", 1>>>>
SameValue(f) ==
    \A taken \in SUBSET {x \in DOMAIN program.code : program.code[x].type = "ja"} :
        ValueNow(f, Arguments, taken) = Value(f, Arguments, taken)

-----------------------------------------------------------------------------
(* What can be said of a program before anything is inlined.  Instructions *)
(* are given by their function and their place in its body.                *)

Places(f) == DOMAIN program.bodies[f]
At(f, i) == program.code[program.bodies[f][i]]
Type(f, i) == At(f, i).type
Rets(f) == {i \in Places(f) : Type(f, i) = "ret"}
AllCalls == {c \in Functions \X Insts : c[2] \in Places(c[1]) /\ Type(c[1], c[2]) = "call"}
CallersOf(f) == {c \in AllCalls : At(c[1], c[2]).callee = f}
ForEveryCall(Holds(_, _, _)) == \A c \in AllCalls : Holds(c[1], c[2], At(c[1], c[2]).callee)
ForSomeCall(Holds(_, _, _)) == \E c \in AllCalls : Holds(c[1], c[2], At(c[1], c[2]).callee)

\* No function is called from two places, called and run on, run on twice, or
\* called by itself.
UsedOnce ==
    /\ NoDuplicates(program.runs)
    /\ \A f \in Functions : Cardinality(CallersOf(f)) + Cardinality({f} \cap ToSet(program.runs)) <= 1

\* Where f's blocks end, and where control goes from there.
Ends(f) == {i \in Places(f) : \/ Type(f, i) \in {"ja", "jmp", "ret"}
                              \/ i = Len(program.bodies[f])
                              \/ At(f, i + 1).jump_dest}
EndAt(f, i) == Min({j \in Ends(f) : j >= i})
Target(f, i) == CHOOSE j \in Places(f) : program.bodies[f][j] = At(f, i).dest
Onward(f, i) ==
    CASE Type(f, i) = "ret" -> {}
      [] Type(f, i) = "jmp" -> {Target(f, i)}
      [] Type(f, i) = "ja" -> {i + 1, Target(f, i)}
      [] OTHER -> {i + 1} \cap Places(f)

\* The call is followed by more of its block, which gets split.
Splits(f, i) == EndAt(f, i) # i

\* The call's block ends in a conditional jump.
BeforeBranch(f, i) == Type(f, EndAt(f, i)) = "ja"

\* Other blocks that lead where the call's block leads.
Joining(f, i) == {j \in Ends(f) \ {EndAt(f, i)} : Onward(f, j) \cap Onward(f, EndAt(f, i)) # {}}

\* The call is the last of its block, and the next block is no more than a ret
\* that goes when f itself is inlined.
EmptiesNext(f, i) == ~Splits(f, i) /\ CallersOf(f) # {} /\ i + 1 \in Rets(f)

\* The value of f is chosen by the block of its ret, and the call is in one.
BeforeChoice(f, i) == CallersOf(f) # {} /\ Cardinality(Rets(f)) > 1 /\ EndAt(f, i) \in Rets(f)

Returns(f) == Len(program.bodies[f]) \in Rets(f)
LacksReg(f) == \E i \in Places(f) : Type(f, i) \notin {"ja", "jmp"} /\ At(f, i).res = NoReg
WritesArgs(f) == \E i \in Places(f) : IsArg(At(f, i).res)
LacksArgs(f, i, callee) ==
    \E j \in Places(callee) : \E r \in ToSet(At(callee, j).opnds) : IsArg(r) /\ r[2] >= Len(At(f, i).opnds)

-----------------------------------------------------------------------------
(* Properties.  Some of them say of which programs they hold.              *)

\* The calls whose inlining keeps the meaning of the program.
SoundCall(f, i, callee) ==
    /\ ~BeforeBranch(f, i)
    /\ Splits(f, i) \/ Joining(f, i) = {}
    /\ ~BeforeChoice(f, i)
    /\ CallersOf(f) # {} => At(f, i).res[1] = "t"
    /\ Returns(f) /\ Returns(callee) /\ ~WritesArgs(callee)
Sound == UsedOnce /\ ForEveryCall(SoundCall)

\* StaticInline.h:18: the function with its calls replaced computes what it
\* computed before, whichever way its conditional jumps go: temporaries of the
\* body are no one else's, arguments arrive, each ret gives its value to the
\* result of the call.  A run that throws leaves the meaning as it was.
MeaningKept ==
    pc \in {"done", "threw"} /\ destroyed = {} /\ Sound =>
        \A i \in 1..ran : SameValue(program.runs[i])

\* A split block with two successors, a missing argument, a body without ret.
Throws(f, i, callee) == BeforeBranch(f, i) \/ LacksArgs(f, i, callee) \/ Rets(callee) = {}

\* Nothing after the call, a body of nothing but rets, a second call in the
\* part that was split off, whose block knows no graph.
Breaks(f, i, callee) ==
    \/ i = Len(program.bodies[f])
    \/ Rets(callee) = Places(callee) /\ Rets(callee) # {}
    \/ Splits(f, i) /\ \E j \in Places(f) : j > i /\ Type(f, j) = "call"
AnyLacksReg == \E f \in Functions : LacksReg(f)

\* StaticInline.h:7: on which programs run returns, throws or loses its way:
\* the ones that return are those with no cause for anything else, and neither
\* an exception nor undefined behaviour is without a cause.
OutcomeExact ==
    destroyed = {} /\ UsedOnce =>
        /\ pc = "done" => ~ForSomeCall(Throws) /\ ~ForSomeCall(Breaks) /\ ~AnyLacksReg
        /\ pc = "threw" => ForSomeCall(Throws)
        /\ pc = "undefined" =>
              \/ AnyLacksReg
              \/ ForSomeCall(Breaks)
              \/ ForSomeCall(LAMBDA f, i, callee : EmptiesNext(f, i))
              \/ Valid(walker) /\ IsCall(walker) /\ Jumps(program.bodies[code[walker].callee]) # {}

\* The list f should have: its own instructions, and after each call that has
\* been replaced the callee's without its rets, and one that is new.
RECURSIVE Spliced(_)
Spliced(f) ==
    LET kept(x) == SelectSeq(Spliced(program.code[x].callee), LAMBDA y : y = Null \/ ~IsRet(y))
        part(x) == IF x \in inlined THEN <<x>> \o kept(x) \o <<Null>> ELSE <<x>>
    IN FlattenSeq([i \in Places(f) |-> part(program.bodies[f][i])])

ListSpliced(f) ==
    LET old(x) == IF x \in DOMAIN program.code THEN x ELSE Null
    IN /\ Lists!Linked(List(f))
       /\ [i \in DOMAIN List(f) |-> old(List(f)[i])] = Spliced(f)

\* StaticInline.h:263: the two ends of the body are tied into the caller's
\* list, which is whole again unless an inlined call ended its block and the
\* next block lost its only instruction to an outer inlining.
ListSplicedIff ==
    pc \in {"done", "threw"} /\ destroyed = {} /\ UsedOnce =>
        ((\A i \in 1..ran : ListSpliced(program.runs[i])) <=>
           ForEveryCall(LAMBDA f, i, callee :
               program.bodies[f][i] \in inlined => ~EmptiesNext(f, i)))

\* The blocks that control can get to.
RECURSIVE From(_)
From(bbs) ==
    LET more == bbs \cup UNION {ToSet(succ[bb]) : bb \in bbs}
    IN IF more = bbs THEN bbs ELSE From(more)
Reached == From({root[program.runs[i]] : i \in 1..ran} \ {Null})

\* Each phi chooses among the blocks that lead to its own.
PhisMatch ==
    \A bb \in Reached : \A x \in ToSet(Content(bb)) :
        code[x].type = "phi" => ToSet(code[x].from) = ToSet(predec[bb])

\* No conditional jump goes to the next instruction.
Straight == \A f \in Functions, i \in Insts : i \in Places(f) /\ Type(f, i) = "ja" => Target(f, i) # i + 1

\* An edge to where the call's block leads that is stored behind the call's.
StoredBehind(f, i) ==
    \E j \in (IF BeforeChoice(f, i) THEN Rets(f) ELSE Joining(f, i)) : j > EndAt(f, i)
MixesIn(f, i) == ~Splits(f, i) /\ Joining(f, i) # {}
SeveralRets(f) == Cardinality(Rets(f)) > 1

\* StaticInline.h:255: the call's block is taken off its successor and the
\* blocks of the rets are put in its place.  Both edge vectors agree at the end
\* exactly when every such edge was the last one stored; then the phi of a
\* call among several rets chooses among all blocks that lead to it, except
\* where another block of the caller leads there as well.
EdgesInStep ==
    pc = "done" /\ destroyed = {} /\ UsedOnce /\ Straight =>
        /\ MirroredEdges(succ, predec) <=> ForEveryCall(LAMBDA f, i, callee : ~StoredBehind(f, i))
        /\ Sound => PhisMatch
        /\ Cardinality(AllCalls) = 1 /\ MirroredEdges(succ, predec) =>
              (PhisMatch <=> ForEveryCall(LAMBDA f, i, callee : ~(MixesIn(f, i) /\ SeveralRets(callee))))

\* ir_graph.h:183: the graph of a function deletes the whole list it starts,
\* and after an inlining two functions share the callee's instructions: all of
\* them can be deleted exactly when nothing has been inlined.
DestructionSafeIff ==
    /\ pc = "undefined" /\ destroyed # {} => inlined # {}
    /\ pc \in {"done", "threw"} /\ destroyed = Functions => inlined = {} \/ Cardinality(Functions) = 1

\* StaticInline.h:9: run comes to an end, by itself or otherwise, as long as it
\* is not called on one function twice: its list, which each inlining makes
\* longer before the walk goes on, never leads back into itself, and functions
\* that call themselves or each other are stopped by what goes wrong in them.
Terminates == NoDuplicates(program.runs) => <>(pc \in {"done", "threw", "undefined"})
=============================================================================
