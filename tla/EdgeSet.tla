------------------------------ MODULE EdgeSet ------------------------------
(***************************************************************************)
(* What the edge operations of IRGraph promise: a graph is a set of blocks *)
(* with a set of edges among them, an added or removed edge is exactly the *)
(* one named in the call, and a call that throws changes nothing.          *)
(***************************************************************************)
CONSTANTS BasicBlocks,  \* every BasicBlock object the client may own
          Null          \* nullptr

VARIABLES blocks, entry, edges

vars == <<blocks, entry, edges>>

Init == blocks = {} /\ entry = Null /\ edges = {}

Targets(u) == {v \in BasicBlocks : <<u, v>> \in edges}

AddBBInGraph(bb) ==
    /\ blocks' = blocks \cup {bb}
    /\ UNCHANGED <<entry, edges>>

\* A new entry block is put in front of the old one.
AddBBToBegin(bb) ==
    /\ bb \notin blocks
    /\ blocks' = blocks \cup {bb}
    /\ entry' = bb
    /\ edges' = IF entry = Null THEN edges ELSE edges \cup {<<bb, entry>>}

AddEdge(from, to) ==
    /\ {from, to} \subseteq blocks
    /\ <<from, to>> \notin edges
    /\ \A v, w \in Targets(from) : v = w    \* at most one so far
    /\ edges' = edges \cup {<<from, to>>}
    /\ UNCHANGED <<blocks, entry>>

RemoveEdge(from, to) ==
    /\ <<from, to>> \in edges
    /\ edges' = edges \ {<<from, to>>}
    /\ UNCHANGED <<blocks, entry>>

Next ==
    \/ \E bb \in BasicBlocks : AddBBInGraph(bb) \/ AddBBToBegin(bb)
    \/ \E from, to \in BasicBlocks : AddEdge(from, to) \/ RemoveEdge(from, to)

Spec == Init /\ [][Next]_vars
=============================================================================
