----------------------------- MODULE MCKosaraju -----------------------------
(* Model checking of Kosaraju on the graphs with few edges: five are enough *)
(* for two components of two nodes below one another, for three components  *)
(* in a chain, and for a component entered from two sides.                  *)
EXTENDS Kosaraju

CONSTANT MaxEdges   \* bound on the edges of the graph

Edges(G) == {e \in Node \X Node : e[2] \in G[e[1]]}

MCInit == Init /\ Cardinality(Edges(succ)) <= MaxEdges

MCSpec == MCInit /\ [][Next]_vars /\ Fairness
=============================================================================
