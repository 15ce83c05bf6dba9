------------------------------ MODULE SCCSpec -------------------------------
(***************************************************************************)
(* What the two functions computeSCCs (CompressCG, CompressCFG) promise:   *)
(* every strongly connected component that holds a cycle is recorded, each *)
(* once, and nothing else is.  A single node that is not its own successor *)
(* is left out, "alghough strictly speaking every node in the call graph   *)
(* is a SCC" (CompressCallGraph.cpp:170).                                  *)
(***************************************************************************)
EXTENDS Reachability

CONSTANT Node

VARIABLES
  succ,   \* the compressed graph
  sccs    \* the components recorded so far

Init ==
  /\ succ \in [Node -> SUBSET Node]
  /\ sccs = {}

Record ==
  /\ \E scc \in Components(succ) \ sccs : sccs' = sccs \cup {scc}
  /\ UNCHANGED succ

Spec == Init /\ [][Record]_<<succ, sccs>> /\ WF_<<succ, sccs>>(Record)
=============================================================================
