----------------------------- MODULE MCInlining -----------------------------
(* Small programs for Inlining.                                            *)
EXTENDS Inlining

\* Instructions.
T(i) == <<"t", i>>
A(i) == <<"a", i>>
G(i) == <<"g", i>>
Imm(n) == <<"imm", n>>

Inst(type, res, opnds) ==
    [type |-> type, res |-> res, opnds |-> opnds, dest |-> 0, jump_dest |-> FALSE, callee |-> 0, from |-> <<>>]
Movi(res, x) == Inst("movi", res, <<x>>)
Add(res, x, y) == Inst("add", res, <<x, y>>)
Ret(x) == Inst("ret", G(1), <<x>>)
VoidRet(x) == Inst("ret", NoReg, <<x>>)
Ja(dest) == [Inst("ja", NoReg, <<>>) EXCEPT !.dest = dest]
Jmp(dest) == [Inst("jmp", NoReg, <<>>) EXCEPT !.dest = dest]
Call(res, f, args) == [Inst("call", res, args) EXCEPT !.callee = f]
Dest(inst) == [inst EXCEPT !.jump_dest = TRUE]

\* Callees of up to three instructions; a jump goes to the last one.
Letters == {Movi(T(0), A(0)), Add(T(1), T(0), A(1)), Ja(0), Ret(T(0))}
Jumping(body) ==
    LET jumps == \E i \in DOMAIN body : body[i].type = "ja"
        n == Len(body)
    IN [i \in 1..n |-> IF i = n /\ jumps THEN Dest(body[i])
                       ELSE IF body[i].type = "ja" THEN [body[i] EXCEPT !.dest = n] ELSE body[i]]
Bodies(n) == {Jumping(body) : body \in {b \in [1..n -> Letters] : n = 0 \/ b[n].type # "ja"}}
OddBodies == {
    <<Ret(A(0))>>, <<Movi(T(0), A(2)), Ret(T(0))>>, <<Movi(T(0), A(0)), VoidRet(T(0))>>,
    <<Movi(A(0), Imm(5)), Ret(A(0))>>, <<Movi(G(0), A(1)), Ret(G(0))>>,
    <<Add(T(0), A(0), A(1)), Ja(4), Ret(T(0)), Dest(Add(T(1), T(0), T(0))), Ret(T(1))>>,
    <<Movi(T(0), A(0)), Jmp(4), Ret(A(1)), Dest(Ret(T(0)))>>}
Callees == UNION {Bodies(n) : n \in 0..3} \cup OddBodies

\* Callers of function f.
Callers(f) == {
    <<Call(T(1), f, <<Imm(6), Imm(7)>>), Ret(T(1))>>,
    <<Movi(T(0), A(0)), Call(T(1), f, <<T(0), Imm(7)>>), Add(T(2), T(0), T(1)), Ret(T(2))>>,
    <<Movi(T(1), A(1)), Ja(4), Call(T(1), f, <<A(0), A(0)>>), Dest(Ret(T(1)))>>,
    <<Movi(T(0), A(1)), Ja(3), Dest(Call(T(1), f, <<A(0), T(0)>>)), Ret(T(1))>>,
    <<Call(T(0), f, <<A(1), A(0)>>), Ja(4), Ret(A(0)), Dest(Ret(T(0)))>>,
    <<Movi(T(0), A(0)), Call(T(1), f, <<T(0), T(0)>>)>>,
    <<Movi(T(1), A(0)), Call(T(0), f, <<A(1), T(1)>>), Add(T(0), T(0), T(1)), Ret(T(0))>>,
    <<Movi(T(0), A(0)), Call(T(1), f, <<T(0), T(0)>>), Dest(Add(T(2), T(0), T(1))), Ret(T(2))>>,
    <<Movi(T(0), A(0)), Call(T(1), f, <<T(0), T(0)>>), Jmp(5), Ret(T(0)), Dest(Ret(T(1)))>> }

OneCall == {[bodies |-> <<caller, callee>>, runs |-> <<1>>] : caller \in Callers(2), callee \in Callees}

\* Function 2 calls function 3.
Middles == {
    <<Call(T(0), 3, <<A(0), A(1)>>), Ret(T(0))>>,
    <<Call(G(0), 3, <<A(0), A(1)>>), Ret(G(0))>>,
    <<Call(T(0), 3, <<A(0), A(1)>>), Dest(Ret(T(0)))>>,
    <<Movi(T(0), A(1)), Call(T(1), 3, <<A(0), T(0)>>), Dest(Add(T(2), T(0), T(1))), Ret(T(2))>>,
    <<Movi(T(0), A(1)), Call(T(1), 3, <<A(0), T(0)>>), Add(T(2), T(0), T(1)), Ret(T(2))>>,
    <<Movi(T(0), A(1)), Ja(4), Call(T(0), 3, <<A(0), T(0)>>), Dest(Ret(T(0)))>>,
    <<Movi(T(0), A(1)), Ja(5), Call(T(1), 3, <<A(0), T(0)>>), Ret(T(1)), Dest(Ret(T(0)))>>,
    <<Movi(T(0), A(1)), Ja(6), Call(T(1), 3, <<A(0), T(0)>>), Add(T(2), T(1), T(1)), Ret(T(2)), Dest(Ret(T(0)))>> }
FewCallees == {<<Movi(T(0), A(0)), Ret(T(0))>>,
   <<Add(T(0), A(0), A(1)), Ja(4), Ret(T(0)), Dest(Add(T(1), T(0), T(0))), Ret(T(1))>>}
Nested == {[bodies |-> <<caller, middle, callee>>, runs |-> <<1>>] :
              caller \in Callers(2), middle \in Middles, callee \in FewCallees}

\* Two calls, of functions 2 and 3 or of function 2 alone.
Twice(f, g) == {
    <<Call(T(0), f, <<Imm(1), A(0)>>), Call(T(1), g, <<T(0), A(1)>>), Add(T(2), T(0), T(1)), Ret(T(2))>>,
    <<Call(T(0), f, <<Imm(1), A(0)>>), Dest(Call(T(1), g, <<T(0), A(1)>>)), Add(T(2), T(0), T(1)), Ret(T(2))>>,
    <<Call(T(0), f, <<Imm(1), A(0)>>), Dest(Call(T(1), g, <<T(0), A(1)>>)), Dest(Add(T(2), T(0), T(1))), Ret(T(2))>>,
    <<Call(T(0), f, <<Imm(1), A(0)>>), Movi(T(3), A(1)), Dest(Call(T(1), g, <<T(0), A(1)>>)), Add(T(2), T(0), T(1)), Ret(T(2))>>}
TwoCalls ==
    {[bodies |-> <<caller, callee, other>>, runs |-> <<1>>] :
        caller \in Twice(2, 3) \cup Twice(2, 2), callee \in FewCallees, other \in FewCallees}

\* Two callers of one function, and functions that call themselves or each
\* other.
Shared ==
    {[bodies |-> <<caller, other, callee>>, runs |-> runs] :
        caller \in Callers(3), other \in Callers(3), callee \in FewCallees, runs \in {<<1, 2>>, <<1, 1>>}}
Recursive ==
    {[bodies |-> <<caller, callee>>, runs |-> <<1>>] : caller \in Callers(2), callee \in Callers(2)}
    \cup {[bodies |-> <<callee>>, runs |-> <<1>>] : callee \in Callers(1)}
    \cup {[bodies |-> <<caller, callee>>, runs |-> <<1>>] : caller \in Callers(2), callee \in Callers(1)}

SmallPrograms == OneCall \cup Nested \cup TwoCalls \cup Shared \cup Recursive
=============================================================================
