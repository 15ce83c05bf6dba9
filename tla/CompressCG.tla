----------------------------- MODULE CompressCG -----------------------------
(***************************************************************************)
(* The call graph (class PrivCallGraph) and the pass CompressCG that       *)
(* compresses it: build the graph of direct calls, drop what main cannot   *)
(* reach, drop from LocalAnalysis's tables what is not in the graph any    *)
(* more, compute which priv-functions every function reaches, drop the     *)
(* functions that reach none, and record the recursive components with     *)
(* their privileges.                                                       *)
(*                                                                         *)
(* A PrivCallGraphNode is named by its function: a pointer to a deleted    *)
(* node is a member of a link set that is not in nodes, a NULL entry of    *)
(* funcNodeMap a key that is not in nodes.  Loops over hash sets that free *)
(* or record something take their elements in any order, one per step; the *)
(* two searches have the result DepthFirst establishes, the components the *)
(* one Kosaraju establishes.                                               *)
(***************************************************************************)
EXTENDS Integers, FiniteSets, ADT, Reachability

CONSTANTS
  main,        \* ENTRY_FUNC
  Ignorable,   \* declarations, priv_raise, priv_lower and priv_lowerall
  Cap          \* the capabilities

ASSUME FuncAssumption == main \in Func \ Ignorable /\ Ignorable \subseteq Func /\ IsFiniteSet(Func)

VARIABLES
  calls,     \* direct calls of the program (input)
  lowers,    \* blocks that call priv_lower, with what they lower (input)
  unscanned, \* functions the constructor's loop has still to come to
  nodes, funcNodeMap, callers, callees,   \* PrivCallGraph
  funcCapMap, bbCapMap,                   \* LocalAnalysis's tables, shared
  reachablePrivFunc,                      \* CompressCG
  doomed,    \* nodes collected for removal, not removed yet
  sccCaps,   \* the recorded components (funcSCCMap) with their capabilities
  pc

inputs == <<calls, lowers>>
graph  == <<nodes, funcNodeMap, callers, callees>>
tables == <<funcCapMap, bbCapMap>>
vars   == <<inputs, unscanned, graph, tables, reachablePrivFunc, doomed, sccCaps, pc>>

\* What the pass is about: the direct calls between functions that are not ignored.
IsIgnorable(f) == f \in Ignorable
Direct == [f \in Func |-> IF IsIgnorable(f) THEN {} ELSE calls[f] \ Ignorable]

\* The call graph as the searches walk it.
CallGraph == [f \in nodes |-> callees[f]]

TypeOK ==
  /\ calls \in [Func -> SUBSET Func]
  /\ IsMap(lowers, Block, SUBSET Cap)
  /\ unscanned \subseteq Func
  /\ nodes \subseteq Func \ Ignorable
  /\ funcNodeMap \subseteq Func
  /\ callers \in [Func -> SUBSET Func]
  /\ callees \in [Func -> SUBSET Func]
  /\ IsMap(funcCapMap, Func, SUBSET Cap)
  /\ IsMap(bbCapMap, Block, SUBSET Cap)
  /\ IsMap(reachablePrivFunc, Func, SUBSET Func)
  /\ doomed \subseteq nodes
  /\ IsMap(sccCaps, SUBSET Func, SUBSET Cap)
  /\ pc \in {"build", "unreachable", "tables", "reach", "reached", "unpriv",
             "sizes", "scc", "done", "nullptr"}

Init ==
  /\ calls \in [Func -> SUBSET Func]
  /\ \E D \in SUBSET Block : lowers \in [D -> SUBSET Cap]
  /\ unscanned = Func
  /\ nodes = {} /\ funcNodeMap = {}
  /\ callers = [f \in Func |-> {}]
  /\ callees = [f \in Func |-> {}]
  /\ bbCapMap = lowers /\ funcCapMap = PerFunction(lowers)
  /\ reachablePrivFunc = EmptyTable
  /\ doomed = {}
  /\ sccCaps = EmptyTable
  /\ pc = "build"

-----------------------------------------------------------------------------
\* The constructor of PrivCallGraph

AddCalls(f, targets) ==
  LET added == targets \cup (IF f = main \/ targets # {} THEN {f} ELSE {})
  IN  /\ nodes' = nodes \cup added
      /\ funcNodeMap' = funcNodeMap \cup added
      /\ callees' = [callees EXCEPT ![f] = @ \cup targets]
      /\ callers' = [g \in Func |-> callers[g] \cup (IF g \in targets THEN {f} ELSE {})]

\* Faulty: calls of library functions are added too.
ScanFunctionAll(f) ==
  /\ pc = "build" /\ f \in unscanned
  /\ unscanned' = unscanned \ {f}
  /\ IF IsIgnorable(f) THEN UNCHANGED graph ELSE AddCalls(f, calls[f])
  /\ UNCHANGED <<inputs, tables, reachablePrivFunc, doomed, sccCaps, pc>>

\* One round of the loop over the functions of the module.
ScanFunction(f) ==
  /\ pc = "build" /\ f \in unscanned
  /\ unscanned' = unscanned \ {f}
  /\ IF IsIgnorable(f) THEN UNCHANGED graph ELSE AddCalls(f, calls[f] \ Ignorable)
  /\ UNCHANGED <<inputs, tables, reachablePrivFunc, doomed, sccCaps, pc>>

\* removeUnreachableFuncs: collect what the search from main did not visit.
FindUnreachable ==
  /\ pc = "build" /\ unscanned = {}
  /\ doomed' = nodes \ Reach(CallGraph, main)
  /\ pc' = "unreachable"
  /\ UNCHANGED <<inputs, unscanned, graph, tables, reachablePrivFunc, sccCaps>>

-----------------------------------------------------------------------------
\* Faulty variants of removeNode: the map entry stays; the callees keep their
\* pointer to the removed caller.
RemoveNodeKeepsEntry(f) ==
  /\ nodes' = nodes \ {f}
  /\ UNCHANGED funcNodeMap
  /\ callers' = [g \in Func |-> IF g \in callees[f] THEN callers[g] \ {f} ELSE callers[g]]
  /\ callees' = [g \in Func |-> IF g \in callers[f] THEN callees[g] \ {f} ELSE callees[g]]

RemoveNodeKeepsCaller(f) ==
  /\ nodes' = nodes \ {f}
  /\ funcNodeMap' = funcNodeMap \ {f}
  /\ UNCHANGED callers
  /\ callees' = [g \in Func |-> IF g \in callers[f] THEN callees[g] \ {f} ELSE callees[g]]

\* PrivCallGraph::removeNode
RemoveNode(f) ==
  /\ nodes' = nodes \ {f}
  /\ funcNodeMap' = funcNodeMap \ {f}
  /\ callers' = [g \in Func |-> IF g \in callees[f] THEN callers[g] \ {f} ELSE callers[g]]
  /\ callees' = [g \in Func |-> IF g \in callers[f] THEN callees[g] \ {f} ELSE callees[g]]

\* One round of the loops that end removeUnreachableFuncs and removeUnprivFunc.
RemoveDoomed(f) ==
  /\ pc \in {"unreachable", "unpriv"} /\ f \in doomed
  /\ RemoveNode(f)
  /\ doomed' = doomed \ {f}
  /\ UNCHANGED <<inputs, unscanned, tables, reachablePrivFunc, sccCaps, pc>>

EndRemoval ==
  /\ pc \in {"unreachable", "unpriv"} /\ doomed = {}
  /\ pc' = IF pc = "unreachable" THEN "tables" ELSE "sizes"
  /\ UNCHANGED <<inputs, unscanned, graph, tables, reachablePrivFunc, doomed, sccCaps>>

-----------------------------------------------------------------------------
HasFunction(f) == f \in funcNodeMap

\* Faulty: only the function table is filtered.
RemoveUnneededFuncsOnly ==
  /\ pc = "tables"
  /\ funcCapMap' = [f \in {g \in DOMAIN funcCapMap : HasFunction(g)} |-> funcCapMap[f]]
  /\ pc' = "reach"
  /\ UNCHANGED <<inputs, unscanned, graph, bbCapMap, reachablePrivFunc, doomed, sccCaps>>

\* removeUnneededFromCapTable
RemoveUnneeded ==
  /\ pc = "tables"
  /\ funcCapMap' = [f \in {g \in DOMAIN funcCapMap : HasFunction(g)} |-> funcCapMap[f]]
  /\ bbCapMap' = [b \in {d \in DOMAIN bbCapMap : HasFunction(parent(d))} |-> bbCapMap[b]]
  /\ pc' = "reach"
  /\ UNCHANGED <<inputs, unscanned, graph, reachablePrivFunc, doomed, sccCaps>>

\* Faulty: a function is not counted among those it reaches.
PrivFuncsReachedBelow(f) ==
  (UNION {Reach(CallGraph, g) : g \in callees[f]}) \cap DOMAIN funcCapMap

\* The result of CompressCG::DFS from the node of f.
PrivFuncsReached(f) == Reach(CallGraph, f) \cap DOMAIN funcCapMap

\* getReachablePrivFunc: an entry for every function that reaches some.
GetReachablePrivFunc ==
  /\ pc = "reach"
  /\ reachablePrivFunc' =
       [f \in {g \in nodes : PrivFuncsReached(g) # {}} |-> PrivFuncsReached(f)]
  /\ pc' = "reached"
  /\ UNCHANGED <<inputs, unscanned, graph, tables, doomed, sccCaps>>

CanReachPrivFunc(f) == f \in DOMAIN reachablePrivFunc

\* Faulty: the functions that lower nothing themselves are collected.
FindUnprivOwn ==
  /\ pc = "reached"
  /\ doomed' = nodes \ DOMAIN funcCapMap
  /\ pc' = "unpriv"
  /\ UNCHANGED <<inputs, unscanned, graph, tables, reachablePrivFunc, sccCaps>>

\* removeUnprivFunc: collect the functions without an entry.
FindUnpriv ==
  /\ pc = "reached"
  /\ doomed' = {f \in nodes : ~ CanReachPrivFunc(f)}
  /\ pc' = "unpriv"
  /\ UNCHANGED <<inputs, unscanned, graph, tables, reachablePrivFunc, sccCaps>>

-----------------------------------------------------------------------------
\* computeSCCs starts from getNode(entryFunc): operator[] puts a NULL entry into
\* funcNodeMap if main is gone, and forwardDFS reads the callees of it.
StartSCCs ==
  /\ pc = "sizes"
  /\ funcNodeMap' = funcNodeMap \cup {main}
  /\ pc' = IF main \in nodes THEN "scc" ELSE "nullptr"
  /\ UNCHANGED <<inputs, unscanned, nodes, callers, callees, tables,
                 reachablePrivFunc, doomed, sccCaps>>

\* Faulty: only what the member lowers itself.
CollectOwnCaps(member) == IF member \in DOMAIN funcCapMap THEN funcCapMap[member] ELSE {}

\* collectSCCCaps, from the member that comes first in the hash set.
CollectSCCCaps(member) == UNION {funcCapMap[g] : g \in reachablePrivFunc[member]}

\* One more component, with its capabilities.
RecordSCC ==
  /\ pc = "scc"
  /\ \E scc \in Components(CallGraph) \ DOMAIN sccCaps : \E member \in scc :
       sccCaps' = [c \in DOMAIN sccCaps \cup {scc} |->
                     IF c = scc THEN CollectSCCCaps(member) ELSE sccCaps[c]]
  /\ UNCHANGED <<inputs, unscanned, graph, tables, reachablePrivFunc, doomed, pc>>

Finish ==
  /\ pc = "scc" /\ Components(CallGraph) = DOMAIN sccCaps
  /\ pc' = "done"
  /\ UNCHANGED <<inputs, unscanned, graph, tables, reachablePrivFunc, doomed, sccCaps>>

Terminated == pc \in {"done", "nullptr"} /\ UNCHANGED vars

Next ==
  \/ \E f \in Func : ScanFunction(f) \/ RemoveDoomed(f)
  \/ FindUnreachable \/ EndRemoval \/ RemoveUnneeded
  \/ GetReachablePrivFunc \/ FindUnpriv
  \/ StartSCCs \/ RecordSCC \/ Finish
  \/ Terminated

Spec == Init /\ [][Next]_vars

-----------------------------------------------------------------------------
\* Privileged functions according to LocalAnalysis, before any filtering.
PrivFuncs == {parent(b) : b \in DOMAIN lowers}

Compressed == pc \in {"sizes", "scc", "done", "nullptr"}

\* Callers and callees of a node are nodes, and each is the inverse of the other,
\* also between the removals of several nodes: no removal leaves a pointer to a freed
\* node behind ("delete a PrivCallGraphNode and all its relations", PrivGraph.h:83).
LinksAgree ==
  \A f \in nodes :
    /\ callees[f] \cup callers[f] \subseteq nodes
    /\ \A g \in nodes : g \in callees[f] <=> f \in callers[g]

\* After the first removal the graph is the direct-call graph below main; after the
\* second, the part of it that leads to a function LocalAnalysis found privileged.
NodesExact ==
  /\ pc \in {"tables", "reach", "reached"} => nodes = Reach(Direct, main)
  /\ Compressed =>
       nodes = {f \in Reach(Direct, main) : Reach(Direct, f) \cap PrivFuncs # {}}

\* Removing the functions that reach no privilege cuts none of the others off from
\* main: the forward search of computeSCCs comes to every node that is left, and when
\* main itself went nothing is left.
MainReachesAll ==
  Compressed => IF main \in nodes THEN Reach(CallGraph, main) = nodes ELSE nodes = {}

\* "size difference error!" (CompressCallGraph.cpp:67-68)
SizesAgree ==
  pc = "sizes" =>
    /\ Cardinality(nodes) = Cardinality(funcNodeMap)
    /\ Cardinality(nodes) = Cardinality(DOMAIN reachablePrivFunc)

\* A function's entry lists the live nodes of exactly the privileged functions it
\* reaches in the whole program: filtering the tables first makes no difference
\* ("we don't need call this function to get a correct result", CompressCallGraph.cpp:81),
\* and no entry is left with a pointer to a node the second removal freed.
ReachableExact ==
  Compressed =>
    \A f \in DOMAIN reachablePrivFunc :
      /\ reachablePrivFunc[f] = Reach(Direct, f) \cap PrivFuncs
      /\ reachablePrivFunc[f] \subseteq nodes

\* A component carries the capabilities of everything its functions reach, whichever
\* member collectSCCCaps happened to start from.
SCCCapsExact ==
  \A scc \in DOMAIN sccCaps : \A f \in scc :
    sccCaps[scc] =
      UNION {lowers[b] : b \in {d \in DOMAIN lowers : parent(d) \in Reach(Direct, f)}}

\* The function table stays the summary of the block table.
TablesAgree == funcCapMap = PerFunction(bbCapMap)

\* Once main is in the call graph ("lost main() function" is asserted not to happen,
\* PrivGraph.cpp:188) it is still there when computeSCCs searches from it.
MainIsNotLost == pc # "nullptr"
=============================================================================
