---------------------------- MODULE Reachability ----------------------------
(***************************************************************************)
(* Reachability in a directed graph given by its successor function        *)
(* succ : Node -> SUBSET Node.  "m is reachable from n" is stated by       *)
(* closed sets: m lies in every set that contains n and is closed under    *)
(* succ.  The statement needs no recursion and no paths, so the same       *)
(* definition is evaluated by TLC and reasoned about in proofs.            *)
(*                                                                         *)
(* The two depth-first searches that only collect nodes, PrivCallGraph::DFS*)
(* and CompressCG::DFS, return exactly this set whatever the iteration     *)
(* order of their hash sets is: module DepthFirst models them call by call *)
(* and proves it.  The other modules therefore use Reach for their result. *)
(***************************************************************************)

\* S is closed under the edges whose target lies in T.
ClosedIn(succ, T, S) == \A x \in S : succ[x] \cap T \subseteq S

\* The nodes reachable from n by a path all of whose nodes after n lie in T.
ReachIn(succ, T, n) ==
  {m \in DOMAIN succ :
     \A S \in SUBSET DOMAIN succ : n \in S /\ ClosedIn(succ, T, S) => m \in S}

\* The nodes reachable from n, n included.
Reach(succ, n) == ReachIn(succ, DOMAIN succ, n)

\* The reversed graph.
Reversed(succ) == [m \in DOMAIN succ |-> {n \in DOMAIN succ : m \in succ[n]}]

\* n lies on a cycle (a self-loop is a cycle of one node).
OnCycle(succ, n) == \E m \in succ[n] : n \in Reach(succ, m)

\* The strongly connected component of n.
SCCOf(succ, n) == {m \in Reach(succ, n) : n \in Reach(succ, m)}

\* The strongly connected components that hold a cycle.
Components(succ) == {SCCOf(succ, n) : n \in {m \in DOMAIN succ : OnCycle(succ, m)}}

\* What u reaches before the next node in kept, u included.
Span(succ, kept, u) == ReachIn(succ, DOMAIN succ \ kept, u)

\* The graph contracted to the nodes in kept: an edge for every path whose inner nodes
\* are not kept.
Contracted(succ, kept) ==
  [u \in kept |-> kept \cap UNION {succ[x] : x \in Span(succ, kept, u)}]
=============================================================================
