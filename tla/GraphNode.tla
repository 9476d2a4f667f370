----------------------------- MODULE GraphNode -----------------------------
(***************************************************************************)
(* The two edge vectors of ilist_graph_node<Elt>, the base class of        *)
(* BasicBlock and of Loop.  A family of nodes is a pair of functions from  *)
(* nodes to sequences, one for succ_ and one for predec_; every operator   *)
(* below is one member function of the class applied to one of them.       *)
(***************************************************************************)
EXTENDS Naturals, Sequences, SequencesExt

\* IsBBSucc and IsBBPredec: elt occurs in the vector of node u.
Occurs(vec, u, elt) == elt \in ToSet(vec[u])

\* AddSucc and AddPredec: push_back, with no look at what is already there.
PushBack(vec, u, elt) == [vec EXCEPT ![u] = Append(@, elt)]

\* RemoveSucc and RemovePredec after their test for occurrence: std::swap
\* exchanges the last slot with the by-value PARAMETER elt, so pop_back drops
\* the last entry of the vector, whichever entry was asked for.
PopBack(vec, u) == [vec EXCEPT ![u] = Front(@)]

\* No entry occurs twice.
NoDuplicates(s) == \A i, j \in DOMAIN s : s[i] = s[j] => i = j

\* The two vectors describe one set of edges, each stored once at each end.
MirroredEdges(succ, predec) ==
    \A u \in DOMAIN succ :
        /\ NoDuplicates(succ[u])
        /\ NoDuplicates(predec[u])
        /\ \A v \in DOMAIN succ : Occurs(succ, u, v) <=> Occurs(predec, v, u)
=============================================================================
