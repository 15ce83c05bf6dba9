------------------------------ MODULE Kosaraju ------------------------------
(***************************************************************************)
(* computeSCCs with its helpers forwardDFS and backwardDFS, which          *)
(* CompressCG and CompressCFG share line for line: one forward search from *)
(* the entry that lists the nodes in the order their calls return, then,   *)
(* from the back of that list, one backward search per node not yet        *)
(* processed.  Each call and each loop round is a step.                    *)
(*                                                                         *)
(* As in DepthFirst, stack holds the active calls and todo[n] what the     *)
(* loop over a hash set in n's call has still to visit, in any order.      *)
(***************************************************************************)
EXTENDS Naturals, Sequences, FiniteSets, Reachability

CONSTANTS
  Node,    \* the nodes of the compressed graph
  root     \* main, or the first block of the function

ASSUME RootAssumption == root \in Node

VARIABLES
  succ,        \* callees or successors (input)
  stack, todo,
  visited,     \* of the running search
  order,       \* the nodes in the order forwardDFS returned from them
  processed,   \* the nodes some backward search has taken
  sccs,        \* the components recorded (funcSCCMap, sccs)
  pc           \* "forward", "select", "backward", "record", "done"

calls == <<stack, todo, visited>>
vars  == <<succ, calls, order, processed, sccs, pc>>

\* callers or predecessors, the other direction of the same links.
pred == Reversed(succ)

TypeOK ==
  /\ succ \in [Node -> SUBSET Node]
  /\ stack \in Seq(Node)
  /\ todo \in [Node -> SUBSET Node]
  /\ visited \subseteq Node
  /\ order \in Seq(Node) /\ \A i, j \in 1 .. Len(order) : order[i] = order[j] => i = j
  /\ processed \subseteq Node
  /\ sccs \subseteq SUBSET Node
  /\ pc \in {"forward", "select", "backward", "record", "done"}

\* Every node of the compressed graph can be reached from its entry: what
\* CompressCG and CompressCFG (on optimized code) guarantee when they call.
Init ==
  /\ succ \in {G \in [Node -> SUBSET Node] : Reach(G, root) = Node}
  /\ stack = <<root>>
  /\ todo = [n \in Node |-> IF n = root THEN succ[root] ELSE {}]
  /\ visited = {root}
  /\ order = <<>>
  /\ processed = {}
  /\ sccs = {}
  /\ pc = "forward"

Top == stack[Len(stack)]
Pop == stack' = SubSeq(stack, 1, Len(stack) - 1)

\* Faulty: a node is not marked when it is entered.
VisitUnmarked(m, seen, edges) ==
  IF m \in seen
  THEN /\ todo' = [todo EXCEPT ![Top] = @ \ {m}]
       /\ UNCHANGED <<stack, visited>>
  ELSE /\ todo' = [todo EXCEPT ![Top] = @ \ {m}, ![m] = edges[m]]
       /\ stack' = Append(stack, m)
       /\ UNCHANGED visited

\* The loop of the innermost call comes to m; m is entered unless it is in seen.
Visit(m, seen, edges) ==
  IF m \in seen
  THEN /\ todo' = [todo EXCEPT ![Top] = @ \ {m}]
       /\ UNCHANGED <<stack, visited>>
  ELSE /\ todo' = [todo EXCEPT ![Top] = @ \ {m}, ![m] = edges[m]]
       /\ stack' = Append(stack, m)
       /\ visited' = visited \cup {m}

-----------------------------------------------------------------------------
\* forwardDFS

ForwardExplore ==
  /\ pc = "forward"
  /\ \E m \in todo[Top] : Visit(m, visited, succ)
  /\ UNCHANGED <<succ, order, processed, sccs, pc>>

\* Faulty: the call returns as soon as it meets a visited node.
ForwardReturnEarly ==
  /\ pc = "forward"
  /\ todo[Top] = {} \/ todo[Top] \cap visited # {}
  /\ Pop
  /\ order' = Append(order, Top)
  /\ pc' = IF Len(stack) = 1 THEN "select" ELSE pc
  /\ UNCHANGED <<succ, todo, visited, processed, sccs>>

ForwardReturn ==
  /\ pc = "forward"
  /\ todo[Top] = {}
  /\ Pop
  /\ order' = Append(order, Top)
  /\ pc' = IF Len(stack) = 1 THEN "select" ELSE pc
  /\ UNCHANGED <<succ, todo, visited, processed, sccs>>

-----------------------------------------------------------------------------
\* The loop over order

Back == order[Len(order)]
PopOrder == order' = SubSeq(order, 1, Len(order) - 1)

\* Faulty: a processed node is skipped but stays in the list.
SkipProcessedStays ==
  /\ pc = "select" /\ order # <<>>
  /\ Back \in processed
  /\ UNCHANGED vars

SkipProcessed ==
  /\ pc = "select" /\ order # <<>>
  /\ Back \in processed
  /\ PopOrder
  /\ UNCHANGED <<succ, calls, processed, sccs, pc>>

StartBackward ==
  /\ pc = "select" /\ order # <<>>
  /\ Back \notin processed
  /\ PopOrder
  /\ visited' = {Back}
  /\ processed' = processed \cup {Back}
  /\ stack' = <<Back>>
  /\ todo' = [todo EXCEPT ![Back] = pred[Back]]
  /\ pc' = "backward"
  /\ UNCHANGED <<succ, sccs>>

\* Faulty: from a caller on, the search follows callees.
BackwardExploreCallees ==
  /\ pc = "backward"
  /\ \E m \in todo[Top] : Visit(m, processed, succ) /\ processed' = processed \cup {m}
  /\ UNCHANGED <<succ, order, sccs, pc>>

\* backwardDFS: a caller taken by this or an earlier search is not entered.
BackwardExplore ==
  /\ pc = "backward"
  /\ \E m \in todo[Top] : Visit(m, processed, pred) /\ processed' = processed \cup {m}
  /\ UNCHANGED <<succ, order, sccs, pc>>

BackwardReturn ==
  /\ pc = "backward"
  /\ todo[Top] = {}
  /\ Pop
  /\ pc' = IF Len(stack) = 1 THEN "record" ELSE pc
  /\ UNCHANGED <<succ, todo, visited, order, processed, sccs>>

\* Faulty: the self-call is not looked at.
IsTrivialSelfless == Cardinality(visited) = 1
IsTrivial == Cardinality(visited) = 1 /\ \A n \in visited : n \notin succ[n]

Record ==
  /\ pc = "record"
  /\ sccs' = IF IsTrivial THEN sccs ELSE sccs \cup {visited}
  /\ pc' = "select"
  /\ UNCHANGED <<succ, calls, order, processed>>

Finish ==
  /\ pc = "select" /\ order = <<>>
  /\ pc' = "done"
  /\ UNCHANGED <<succ, calls, order, processed, sccs>>

Step ==
  \/ ForwardExplore \/ ForwardReturn
  \/ SkipProcessed \/ StartBackward
  \/ BackwardExplore \/ BackwardReturn
  \/ Record \/ Finish

Terminated == pc = "done" /\ UNCHANGED vars

Next == Step \/ Terminated

\* One thread: a step that is enabled is taken.
Fairness == WF_vars(Step)

Spec == Init /\ [][Next]_vars
FairSpec == Spec /\ Fairness

-----------------------------------------------------------------------------
S == INSTANCE SCCSpec WITH Node <- Node, succ <- succ, sccs <- sccs

\* Only whole components are recorded, one per step and none twice, and every
\* component is recorded in the end: the program implements SCCSpec.
ImplementsSCCSpec == S!Spec

\* "computeSCCs() gets all SCCs in this call graph" (CompressCallGraph.cpp:169), and
\* at the end no recorded set is part of a component or more than one.
RecordsComponents == pc = "done" => sccs = Components(succ)

\* At every point between two backward searches the processed nodes are whole
\* components and closed under callers: a backward search can take nothing but the
\* component of the node it starts from.
ProcessedIsUnionOfComponents ==
  pc \in {"select", "done"} =>
    \A n \in processed : SCCOf(succ, n) \cup pred[n] \subseteq processed

\* When the forward search has returned from a node but not from its caller, the node
\* leads back to an active call or its whole component was returned from: the order
\* that makes the back of the list start in a component no other unlisted one reaches.
Listed == {order[i] : i \in 1 .. Len(order)}
Active == {stack[i] : i \in 1 .. Len(stack)}
ReturnOrder ==
  pc = "forward" =>
    \A n \in Listed :
      \/ \E a \in Active : a \in Reach(succ, n)
      \/ Reach(succ, n) \subseteq Listed

\* No step undoes what an earlier one did, in either direction of the search: it enters a
\* node for the first time, or else leaves a neighbour, a call or a member of the list
\* behind for good.  The forward search is not taken up again.
Grows(old, new) == old \subseteq new /\ old # new
FewerLeft ==
  /\ \A n \in Node : todo'[n] \subseteq todo[n]
  /\ Len(stack') <= Len(stack)
  /\ todo' # todo \/ Len(stack') < Len(stack)
MovesOn ==
  [][/\ pc # "forward" => pc' # "forward"
     /\ \/ pc = "forward" /\ Grows(visited, visited')
        \/ pc = "forward" /\ visited' = visited /\ FewerLeft
        \/ pc # "forward" /\ Grows(processed, processed')
        \/ /\ pc # "forward" /\ processed' = processed
           /\ \/ Len(order') < Len(order)
              \/ order' = order /\ FewerLeft
              \/ /\ UNCHANGED <<order, calls>>
                 /\ <<pc, pc'>> \in {<<"record", "select">>, <<"select", "done">>}]_vars
=============================================================================
