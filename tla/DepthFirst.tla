---------------------------- MODULE DepthFirst ------------------------------
(***************************************************************************)
(* The recursive depth-first search that collects functions of the call    *)
(* graph, one call per step: PrivCallGraph::DFS (everything reachable from *)
(* main) and CompressCG::DFS (the priv-functions a function reaches).  The *)
(* first is the second with every function in the table.                   *)
(*                                                                         *)
(* stack holds the nodes whose call is active, todo[n] the callees that    *)
(* the loop of n's call has not come to yet; the loop runs over a hash set,*)
(* so they come in any order.                                              *)
(***************************************************************************)
EXTENDS Naturals, Sequences, FiniteSets, Reachability

CONSTANTS
  Node,    \* the nodes of the call graph
  root     \* the node the search starts from

ASSUME RootAssumption == root \in Node

VARIABLES
  callees,    \* PrivCallGraphNode::callees (input)
  table,      \* the functions in funcCapMap (input)
  stack, todo,
  visited, reachable

vars == <<callees, table, stack, todo, visited, reachable>>

TypeOK ==
  /\ callees \in [Node -> SUBSET Node]
  /\ table \subseteq Node
  /\ stack \in Seq(Node)
  /\ todo \in [Node -> SUBSET Node] /\ \A n \in Node : todo[n] \subseteq callees[n]
  /\ visited \subseteq Node
  /\ reachable = visited \cap table

Top == stack[Len(stack)]

Init ==
  /\ callees \in [Node -> SUBSET Node]
  /\ table \in SUBSET Node
  /\ stack = <<root>>
  /\ todo = [n \in Node |-> IF n = root THEN callees[root] ELSE {}]
  /\ visited = {root}
  /\ reachable = {root} \cap table

\* Faulty: the call does not mark its node as visited.
DescendUnmarked(m) ==
  /\ stack' = Append(stack, m)
  /\ visited' = visited
  /\ reachable' = reachable \cup ({m} \cap table)
  /\ todo' = [todo EXCEPT ![Top] = @ \ {m}, ![m] = callees[m]]

\* Faulty: a node in the table ends the search below it.
DescendStopsAtTable(m) ==
  /\ stack' = Append(stack, m)
  /\ visited' = visited \cup {m}
  /\ reachable' = reachable \cup ({m} \cap table)
  /\ todo' = [todo EXCEPT ![Top] = @ \ {m}, ![m] = IF m \in table THEN {} ELSE callees[m]]

\* The call DFS(m) enters a node for the first time.
Descend(m) ==
  /\ stack' = Append(stack, m)
  /\ visited' = visited \cup {m}
  /\ reachable' = reachable \cup ({m} \cap table)
  /\ todo' = [todo EXCEPT ![Top] = @ \ {m}, ![m] = callees[m]]

\* Faulty: the iterator does not advance past a visited callee.
SkipStays(m) == UNCHANGED <<stack, todo, visited, reachable>>

\* The call DFS(m) returns at once.
Skip(m) ==
  /\ todo' = [todo EXCEPT ![Top] = @ \ {m}]
  /\ UNCHANGED <<stack, visited, reachable>>

\* One round of the loop over the callees of the innermost call.
Explore ==
  /\ stack # <<>>
  /\ \E m \in todo[Top] : IF m \in visited THEN Skip(m) ELSE Descend(m)
  /\ UNCHANGED <<callees, table>>

Return ==
  /\ stack # <<>>
  /\ todo[Top] = {}
  /\ stack' = SubSeq(stack, 1, Len(stack) - 1)
  /\ UNCHANGED <<callees, table, todo, visited, reachable>>

Terminated == stack = <<>> /\ UNCHANGED vars

Next == Explore \/ Return \/ Terminated

Spec == Init /\ [][Next]_vars

\* The search is one thread: a step that is enabled is taken.
FairSpec == Spec /\ WF_vars(Explore \/ Return)

-----------------------------------------------------------------------------
\* The active calls form a path of the graph without repetition from the node the
\* search started from: the recursion is never deeper than the graph has nodes.
StackIsPath ==
  /\ stack # <<>> => stack[1] = root
  /\ \A i \in 1 .. Len(stack) - 1 : stack[i + 1] \in callees[stack[i]]
  /\ \A i, j \in 1 .. Len(stack) : stack[i] = stack[j] => i = j

\* When the first call returns, the search has collected the table entries among
\* exactly the nodes reachable from root, in whatever order the sets were walked
\* and however the graph loops.
CollectsReachable ==
  stack = <<>> =>
    /\ visited = Reach(callees, root)
    /\ reachable = Reach(callees, root) \cap table

\* No step undoes what an earlier one did: each enters a node for the first time, or else
\* leaves a callee behind for good or ends a call.  However the graph loops there are no
\* more rounds than it has links.
Grows(old, new) == old \subseteq new /\ old # new
FewerLeft ==
  /\ \A n \in Node : todo'[n] \subseteq todo[n]
  /\ Len(stack') <= Len(stack)
  /\ todo' # todo \/ Len(stack') < Len(stack)
MovesOn == [][Grows(visited, visited') \/ (visited' = visited /\ FewerLeft)]_vars

\* The search ends on every graph.
Terminates == <>(stack = <<>>)
=============================================================================
