--------------------------- MODULE MCIRGraphBuild ---------------------------
(* Instruction lists of a few instructions for IRGraphBuild.               *)
EXTENDS IRGraphBuild

Plain == [type |-> "plain", target |-> 0]
Ret == [type |-> "ret", target |-> 0]
Jumps(n) == [type : {"jmp", "ja"}, target : 1..n]

\* The flag is_jump_dest_ on the targets, and on the instructions in extra.
Flagged(prog, extra) ==
    [n \in DOMAIN prog |->
        [type |-> prog[n].type, target |-> prog[n].target,
         dest |-> n \in extra \cup {prog[m].target : m \in DOMAIN prog}]]

Lists(n) == [1..n -> {Plain, Ret} \cup Jumps(n)]

UpToFour == UNION {{Flagged(prog, {}) : prog \in Lists(n)} : n \in 0..4}

\* Flags anywhere, on targets or not.
AnyFlags(n, kinds) ==
    {[m \in 1..n |-> [type |-> prog[m].type, target |-> prog[m].target, dest |-> m \in flags]] :
        prog \in [1..n -> kinds], flags \in SUBSET (1..n)}
AnyFlagsUpToFour ==
    UNION {AnyFlags(n, {Plain, Ret} \cup Jumps(n)) : n \in 0..3}
    \cup AnyFlags(4, {Plain, Ret} \cup [type : {"jmp"}, target : 1..4])

\* Straight code with flags anywhere.
Straight(n) == {Flagged(prog, extra) : prog \in [1..n -> {Plain, Ret}], extra \in SUBSET (1..n)}
StraightUpToFive == UNION {Straight(n) : n \in 0..5}

UpToFive == UpToFour \cup StraightUpToFive \cup AnyFlagsUpToFour
=============================================================================
