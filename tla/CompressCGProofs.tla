-------------------------- MODULE CompressCGProofs --------------------------
(***************************************************************************)
(* The pass over the call graph does what its comments say, for every      *)
(* program: at each step the links of the live nodes are the direct calls  *)
(* among them (GraphInv), so each phase ends with the nodes it should keep *)
(* (PhaseInv) and the tables describe the whole program, filtered or not   *)
(* (TableInv).                                                             *)
(***************************************************************************)
EXTENDS CompressCG, ReachabilityTheorems

CONSTANTS
  remaining,        \* the functions CompressCG leaves
  cfg, calleeOf,    \* the blocks of the program: their successors and callees
  None, entry, end  \* as in CompressCFG

\* CompressCFG when it starts on what CompressCG leaves.
CFG == INSTANCE CompressCFG WITH
  Kept <- remaining, funcCFGMap <- EmptyTable, running <- <<>>, unread <- {}, caps <- {},
  recorded <- EmptyTable, pc <- "compress"

\* computeSCCs when it starts on the functions that are left.
SCC == INSTANCE Kosaraju WITH
  Node <- remaining, root <- main, succ <- CallGraph,
  stack <- <<main>>, visited <- {main}, order <- <<>>, processed <- {}, sccs <- {},
  todo <- [f \in remaining |-> IF f = main THEN CallGraph[main] ELSE {}],
  pc <- "forward"

\* What the second removal must keep.
Kept == {f \in Reach(Direct, main) : Reach(Direct, f) \cap PrivFuncs # {}}

\* The links of a live node are its direct calls to and from live nodes that the
\* constructor has come to.
GraphInv ==
  /\ pc # "build" => unscanned = {}
  /\ \A f \in nodes : callees[f] = IF f \in unscanned THEN {} ELSE Direct[f] \cap nodes
  /\ \A f \in nodes : callers[f] = {g \in nodes \ unscanned : f \in Direct[g]}

\* While the graph is built: the functions scanned are in it with all their callees.
BuildInv ==
  pc = "build" =>
    /\ \A f \in Func \ unscanned : Direct[f] \subseteq nodes
    /\ \A f \in Func \ unscanned : Direct[f] # {} => f \in nodes
    /\ main \in unscanned \cup nodes
    /\ \A f \in Func \ nodes : callees[f] = {} /\ callers[f] = {}

PhaseInv ==
  /\ pc = "unreachable" => nodes \ doomed = Reach(Direct, main)
  /\ pc \in {"tables", "reach", "reached"} => nodes = Reach(Direct, main)
  /\ pc = "unpriv" => nodes \ doomed = Kept
  /\ Compressed => nodes = Kept
  /\ pc \notin {"unreachable", "unpriv"} => doomed = {}
  /\ pc # "nullptr" => funcNodeMap = nodes
  /\ pc \in {"scc", "done"} => main \in nodes

\* The tables before and after the filter, and what the components are given.
Below(table, S) == [b \in {d \in DOMAIN table : parent(d) \in S} |-> table[b]]

TableInv ==
  /\ pc \in {"build", "unreachable", "tables"} => bbCapMap = lowers
  /\ pc \notin {"build", "unreachable", "tables"} =>
       bbCapMap = Below(lowers, Reach(Direct, main))
  /\ funcCapMap = PerFunction(bbCapMap)
  /\ pc = "reached" \/ pc = "unpriv" \/ Compressed =>
       reachablePrivFunc = [f \in Kept |-> Reach(Direct, f) \cap PrivFuncs]
  /\ pc \notin {"scc", "done"} => DOMAIN sccCaps = {}
  /\ SCCCapsExact

Inv == TypeOK /\ GraphInv /\ BuildInv /\ PhaseInv /\ TableInv

-----------------------------------------------------------------------------
\* The operators

LEMMA DirectType ==
  ASSUME calls \in [Func -> SUBSET Func]
  PROVE  Direct \in [Func -> SUBSET (Func \ Ignorable)]
BY DEF Direct

LEMMA DirectGraph ==
  ASSUME calls \in [Func -> SUBSET Func]
  PROVE  Direct \in [Func -> SUBSET Func] /\ main \in Func
BY FuncAssumption DEF Direct

\* The keys of FuncCAPTable are the functions of the blocks in BBCAPTable.
LEMMA PerFunctionType ==
  ASSUME NEW table, IsMap(table, Block, SUBSET Cap)
  PROVE  /\ IsMap(PerFunction(table), Func, SUBSET Cap)
         /\ DOMAIN PerFunction(table) = {parent(b) : b \in DOMAIN table}
<1>1. \A b \in Block : parent(b) \in Func
  BY DEF Block, parent
<1>2. DOMAIN table \subseteq Block /\ \A b \in DOMAIN table : table[b] \in SUBSET Cap
  BY DEF IsMap
<1>3. \A f : UNION {table[b] : b \in {d \in DOMAIN table : parent(d) = f}} \in SUBSET Cap
  BY <1>2
<1>4. DOMAIN PerFunction(table) = {parent(b) : b \in DOMAIN table}
  BY DEF PerFunction
<1>5. {parent(b) : b \in DOMAIN table} \subseteq Func
  BY <1>1, <1>2
<1>6. PerFunction(table) \in [{parent(b) : b \in DOMAIN table} -> SUBSET Cap]
  BY <1>3 DEF PerFunction
<1>7. QED
  BY <1>4, <1>5, <1>6 DEF IsMap

\* Filtering both tables by function keeps one the summary of the other.
LEMMA PerFunctionBelow ==
  ASSUME NEW table, NEW S
  PROVE  PerFunction(Below(table, S)) =
           [f \in {g \in DOMAIN PerFunction(table) : g \in S} |-> PerFunction(table)[f]]
<1> DEFINE keys == {g \in DOMAIN PerFunction(table) : g \in S}
           blocks(t, f) == {d \in DOMAIN t : parent(d) = f}
<1>1. DOMAIN Below(table, S) = {d \in DOMAIN table : parent(d) \in S}
  BY DEF Below
<1>2. keys = {parent(b) : b \in DOMAIN Below(table, S)}
  BY <1>1 DEF PerFunction
<1>3. ASSUME NEW f \in keys
      PROVE  UNION {Below(table, S)[b] : b \in blocks(Below(table, S), f)} =
             UNION {table[b] : b \in blocks(table, f)}
  <2>1. blocks(Below(table, S), f) = blocks(table, f)
    BY <1>1, <1>3
  <2>2. \A b \in blocks(table, f) : Below(table, S)[b] = table[b]
    BY <1>1, <1>3 DEF Below
  <2>3. {Below(table, S)[b] : b \in blocks(table, f)} = {table[b] : b \in blocks(table, f)}
    BY <2>2
  <2>4. QED
    BY <2>1, <2>3
<1>4. \A f \in keys : PerFunction(table)[f] = UNION {table[b] : b \in blocks(table, f)}
  BY DEF PerFunction
<1>5. PerFunction(Below(table, S)) =
        [f \in keys |-> UNION {Below(table, S)[b] : b \in blocks(Below(table, S), f)}]
  BY <1>2 DEF PerFunction
<1>6. QED
  BY <1>3, <1>4, <1>5

-----------------------------------------------------------------------------
\* The graph of live nodes

\* As long as the graph is not written, it stays the graph it is.
LEMMA CallGraphFacts ==
  ASSUME TypeOK, GraphInv, pc # "build"
  PROVE  /\ CallGraph \in [nodes -> SUBSET nodes]
         /\ \A f \in nodes : CallGraph[f] = Direct[f] \cap nodes
         /\ nodes \subseteq Func
BY DEF TypeOK, GraphInv, CallGraph

\* When the constructor's loop is over, the graph is closed under direct calls.
LEMMA BuiltGraph ==
  ASSUME TypeOK, GraphInv, BuildInv, pc = "build", unscanned = {}
  PROVE  /\ main \in nodes
         /\ \A f \in nodes : callees[f] = Direct[f]
         /\ Reach(CallGraph, main) = Reach(Direct, main)
         /\ Reach(Direct, main) \subseteq nodes
<1>1. main \in nodes
  BY DEF BuildInv
<1>2. \A f \in nodes : f \in Func /\ Direct[f] \subseteq nodes
  BY DEF BuildInv, TypeOK
<1>3. \A f \in nodes : callees[f] = Direct[f]
  BY <1>2 DEF GraphInv
<1>4. CallGraph = [f \in nodes |-> Direct[f]]
  BY <1>3 DEF CallGraph
<1>5. Direct \in [Func -> SUBSET Func] /\ nodes \in SUBSET Func
  BY DirectGraph DEF TypeOK
<1>6. Reach(CallGraph, main) = Reach(Direct, main)
  BY <1>1, <1>2, <1>4, <1>5, ReachClosedPart
<1>7. Reach(Direct, main) \subseteq nodes
  BY <1>1, <1>2, <1>5, ReachLeast
<1>8. QED
  BY <1>1, <1>3, <1>6, <1>7

\* When the nodes are what main reaches, every one of them reaches in the graph what
\* it reaches in the program.
LEMMA ReachedGraph ==
  ASSUME TypeOK, GraphInv, pc # "build", nodes = Reach(Direct, main)
  PROVE  \A f \in nodes : /\ Reach(CallGraph, f) = Reach(Direct, f)
                          /\ Reach(Direct, f) \subseteq nodes
<1>1. Direct \in [Func -> SUBSET Func] /\ main \in Func
  BY DirectGraph DEF TypeOK
<1>2. nodes \in SUBSET Func /\ \A f \in nodes : Direct[f] \subseteq nodes
  BY <1>1, ReachFacts
<1>3. CallGraph = [f \in nodes |-> Direct[f]]
  BY <1>2, CallGraphFacts
<1>4. \A f \in nodes : Reach(CallGraph, f) = Reach(Direct, f)
  BY <1>1, <1>2, <1>3, ReachClosedPart
<1>5. \A f \in nodes : Reach(Direct, f) \subseteq nodes
  BY <1>1, ReachFacts
<1>6. QED
  BY <1>4, <1>5

-----------------------------------------------------------------------------
\* The invariant holds at the start

LEMMA InitInv == Init => Inv
<1> SUFFICES ASSUME Init PROVE Inv
  OBVIOUS
<1> USE DEF Init
<1>1. IsMap(lowers, Block, SUBSET Cap)
  BY DEF IsMap
<1>2. IsMap(EmptyTable, Func, SUBSET Func) /\ IsMap(EmptyTable, SUBSET Func, SUBSET Cap)
      /\ DOMAIN EmptyTable = {}
  BY DEF IsMap, EmptyTable
<1>3. TypeOK
  BY <1>1, <1>2, PerFunctionType DEF TypeOK
<1>4. GraphInv /\ BuildInv
  BY FuncAssumption DEF GraphInv, BuildInv
<1>5. PhaseInv
  BY DEF PhaseInv, Compressed
<1>6. TableInv
  BY <1>2 DEF TableInv, Compressed, SCCCapsExact
<1>7. QED
  BY <1>3, <1>4, <1>5, <1>6 DEF Inv

-----------------------------------------------------------------------------
\* Every step keeps the invariant

\* No step writes the program.
LEMMA InputsSame ==
  ASSUME UNCHANGED inputs
  PROVE  Direct' = Direct /\ PrivFuncs' = PrivFuncs /\ Kept' = Kept
BY DEF inputs, Direct, PrivFuncs, Kept

LEMMA ScanFunctionInv ==
  ASSUME Inv, NEW f \in Func, ScanFunction(f)
  PROVE  Inv'
<1> DEFINE targets == Direct[f]
           added == targets \cup (IF f = main \/ targets # {} THEN {f} ELSE {})
<1>1. /\ pc = "build" /\ f \in unscanned /\ unscanned' = unscanned \ {f}
      /\ UNCHANGED inputs /\ UNCHANGED tables
      /\ UNCHANGED <<reachablePrivFunc, doomed, sccCaps, pc>>
  BY DEF ScanFunction
<1>2. Direct' = Direct /\ PrivFuncs' = PrivFuncs /\ Kept' = Kept
  BY <1>1, InputsSame
<1>3. targets \subseteq Func \ Ignorable /\ f \in Func
  BY DirectType DEF Inv, TypeOK
<1>4. /\ UNCHANGED <<calls, lowers, funcCapMap, bbCapMap>>
      /\ callers \in [Func -> SUBSET Func] /\ callees \in [Func -> SUBSET Func]
  BY <1>1 DEF inputs, tables, Inv, TypeOK
<1>5. \A g \in Func \ nodes : callees[g] = {} /\ callers[g] = {}
  BY <1>1 DEF Inv, BuildInv
<1>6. callees[f] = {}
  BY <1>1, <1>3, <1>5 DEF Inv, GraphInv
<1>7. CASE IsIgnorable(f)
  <2>1. UNCHANGED <<nodes, funcNodeMap, callers, callees>> /\ Direct[f] = {} /\ f # main
    BY <1>7, FuncAssumption DEF ScanFunction, graph, Direct, IsIgnorable
  <2>2. f \notin nodes
    BY <1>7 DEF Inv, TypeOK, IsIgnorable
  <2>3. TypeOK'
    BY <1>1, <1>4, <2>1 DEF Inv, TypeOK
  <2>4. GraphInv'
    BY <1>1, <1>2, <2>1, <2>2 DEF Inv, GraphInv
  <2>5. BuildInv'
    BY <1>1, <1>2, <2>1 DEF Inv, BuildInv
  <2>6. PhaseInv'
    BY <1>1, <1>2, <2>1 DEF Inv, PhaseInv, Compressed
  <2>7. TableInv'
    BY <1>1, <1>2, <1>4 DEF Inv, TableInv, Compressed, SCCCapsExact
  <2>8. QED
    BY <2>3, <2>4, <2>5, <2>6, <2>7 DEF Inv
<1>8. CASE ~ IsIgnorable(f)
  <2>1. calls[f] \ Ignorable = targets
    BY <1>8, <1>3 DEF Direct
  <2>2. /\ nodes' = nodes \cup added
        /\ funcNodeMap' = funcNodeMap \cup added
        /\ callees' = [callees EXCEPT ![f] = @ \cup targets]
        /\ callers' = [g \in Func |-> callers[g] \cup (IF g \in targets THEN {f} ELSE {})]
    BY <1>8, <2>1 DEF ScanFunction, AddCalls
  <2>3. added \subseteq Func \ Ignorable
    BY <1>3, <1>8 DEF IsIgnorable
  <2>4. \A g \in Func : callees'[g] = IF g = f THEN targets ELSE callees[g]
    BY <2>2, <1>4, <1>6
  <2>5. \A g \in Func : callers'[g] = callers[g] \cup (IF g \in targets THEN {f} ELSE {})
    BY <2>2
  <2>6. nodes \subseteq Func
    BY DEF Inv, TypeOK
  <2>7. TypeOK'
    <3>1. callees' \in [Func -> SUBSET Func] /\ callers' \in [Func -> SUBSET Func]
      BY <1>3, <1>4, <2>2
    <3>2. nodes' \subseteq Func \ Ignorable /\ funcNodeMap' \subseteq Func
      BY <2>2, <2>3 DEF Inv, TypeOK
    <3>3. doomed' \subseteq nodes'
      BY <1>1, <2>2 DEF Inv, TypeOK
    <3>4. QED
      BY <1>1, <1>4, <3>1, <3>2, <3>3 DEF Inv, TypeOK
  <2>8. GraphInv'
    <3>1. ASSUME NEW g \in nodes'
          PROVE  callees'[g] = IF g \in unscanned' THEN {} ELSE Direct'[g] \cap nodes'
      <4>1. CASE g = f
        BY <4>1, <1>1, <1>2, <1>3, <2>2, <2>4
      <4>2. CASE g # f /\ g \in nodes
        <5>1. g \notin unscanned => Direct[g] \subseteq nodes
          BY <1>1, <4>2, <2>6 DEF Inv, BuildInv
        <5>2. QED
          BY <5>1, <4>2, <1>1, <1>2, <2>2, <2>4, <2>6 DEF Inv, GraphInv
      <4>3. CASE g # f /\ g \notin nodes
        <5>1. g \in Func /\ callees[g] = {}
          BY <4>3, <2>2, <2>3, <1>5
        <5>2. g \notin unscanned => Direct[g] = {}
          BY <1>1, <4>3, <5>1 DEF Inv, BuildInv
        <5>3. QED
          BY <5>1, <5>2, <4>3, <1>1, <1>2, <2>4
      <4>4. QED
        BY <4>1, <4>2, <4>3
    <3>2. ASSUME NEW g \in nodes'
          PROVE  callers'[g] = {h \in nodes' \ unscanned' : g \in Direct'[h]}
      <4>1. g \in Func
        BY <2>2, <2>3, <2>6
      <4>2. callers[g] = {h \in nodes \ unscanned : g \in Direct[h]}
        <5>1. CASE g \in nodes
          BY <5>1 DEF Inv, GraphInv
        <5>2. CASE g \notin nodes
          <6>1. callers[g] = {}
            BY <4>1, <5>2, <1>5
          <6>2. \A h \in nodes \ unscanned : g \notin Direct[h]
            BY <1>1, <2>6, <5>2 DEF Inv, BuildInv
          <6>3. QED
            BY <6>1, <6>2
        <5>3. QED
          BY <5>1, <5>2
      <4>3. {h \in nodes' \ unscanned' : g \in Direct[h]} =
              {h \in nodes \ unscanned : g \in Direct[h]} \cup (IF g \in targets THEN {f} ELSE {})
        <5>1. ASSUME NEW h \in nodes', h \notin unscanned', g \in Direct[h]
              PROVE  (h \in nodes /\ h \notin unscanned) \/ (h = f /\ g \in targets)
          <6>1. CASE h = f
            BY <5>1, <6>1
          <6>2. CASE h # f
            <7>1. h \in Func /\ h \notin unscanned
              BY <5>1, <6>2, <1>1, <2>2, <2>3, <2>6
            <7>2. h \in nodes
              BY <5>1, <7>1, <1>1 DEF Inv, BuildInv
            <7>3. QED
              BY <7>1, <7>2
          <6>3. QED
            BY <6>1, <6>2
        <5>2. g \in targets => f \in nodes' /\ f \notin unscanned'
          BY <1>1, <2>2
        <5>3. QED
          BY <5>1, <5>2, <1>1, <2>2
      <4>4. QED
        BY <4>1, <4>2, <4>3, <1>2, <2>5
    <3>3. pc' = "build"
      BY <1>1
    <3>4. QED
      BY <3>1, <3>2, <3>3 DEF GraphInv
  <2>9. BuildInv'
    <3>1. \A g \in Func \ unscanned' : Direct'[g] \subseteq nodes'
                                       /\ (Direct'[g] # {} => g \in nodes')
      BY <1>1, <1>2, <2>2 DEF Inv, BuildInv
    <3>2. main \in unscanned' \cup nodes'
      BY <1>1, <2>2 DEF Inv, BuildInv
    <3>3. \A g \in Func \ nodes' : callees'[g] = {} /\ callers'[g] = {}
      BY <1>5, <2>2, <2>4, <2>5
    <3>4. QED
      BY <3>1, <3>2, <3>3 DEF BuildInv
  <2>10. PhaseInv'
    BY <1>1, <1>2, <2>2 DEF Inv, PhaseInv, Compressed
  <2>11. TableInv'
    BY <1>1, <1>2, <1>4 DEF Inv, TableInv, Compressed, SCCCapsExact
  <2>12. QED
    BY <2>7, <2>8, <2>9, <2>10, <2>11 DEF Inv
<1>9. QED
  BY <1>7, <1>8

LEMMA FindUnreachableInv ==
  ASSUME Inv, FindUnreachable
  PROVE  Inv'
<1>1. /\ pc = "build" /\ unscanned = {} /\ pc' = "unreachable"
      /\ doomed' = nodes \ Reach(CallGraph, main)
      /\ UNCHANGED <<calls, lowers, unscanned, nodes, funcNodeMap, callers, callees,
                     funcCapMap, bbCapMap, reachablePrivFunc, sccCaps>>
  BY DEF FindUnreachable, inputs, graph, tables
<1>2. Direct' = Direct /\ PrivFuncs' = PrivFuncs /\ Kept' = Kept
  BY <1>1, InputsSame DEF inputs
<1>3. Reach(CallGraph, main) = Reach(Direct, main) /\ Reach(Direct, main) \subseteq nodes
  BY <1>1, BuiltGraph DEF Inv
<1>4. TypeOK'
  BY <1>1 DEF Inv, TypeOK
<1>5. GraphInv' /\ BuildInv'
  BY <1>1, <1>2 DEF Inv, GraphInv, BuildInv
<1>6. PhaseInv'
  BY <1>1, <1>2, <1>3 DEF Inv, PhaseInv, Compressed
<1>7. TableInv'
  BY <1>1, <1>2 DEF Inv, TableInv, Compressed, SCCCapsExact
<1>8. QED
  BY <1>4, <1>5, <1>6, <1>7 DEF Inv

LEMMA RemoveDoomedInv ==
  ASSUME Inv, NEW f \in Func, RemoveDoomed(f)
  PROVE  Inv'
<1>1. /\ pc \in {"unreachable", "unpriv"} /\ f \in doomed /\ doomed' = doomed \ {f}
      /\ UNCHANGED <<calls, lowers, unscanned, funcCapMap, bbCapMap,
                     reachablePrivFunc, sccCaps, pc>>
      /\ nodes' = nodes \ {f}
      /\ funcNodeMap' = funcNodeMap \ {f}
      /\ callers' = [g \in Func |-> IF g \in callees[f] THEN callers[g] \ {f} ELSE callers[g]]
      /\ callees' = [g \in Func |-> IF g \in callers[f] THEN callees[g] \ {f} ELSE callees[g]]
  BY DEF RemoveDoomed, RemoveNode, inputs, tables
<1>2. Direct' = Direct /\ PrivFuncs' = PrivFuncs /\ Kept' = Kept
  BY <1>1, InputsSame DEF inputs
<1>3. unscanned = {} /\ f \in nodes /\ nodes \subseteq Func
  BY <1>1 DEF Inv, GraphInv, TypeOK
<1>4. TypeOK'
  <2>1. callers' \in [Func -> SUBSET Func] /\ callees' \in [Func -> SUBSET Func]
    BY <1>1 DEF Inv, TypeOK
  <2>2. QED
    BY <1>1, <2>1 DEF Inv, TypeOK
<1>5. GraphInv'
  <2>1. ASSUME NEW g \in nodes'
        PROVE  /\ callees'[g] = Direct[g] \cap nodes'
               /\ callers'[g] = {h \in nodes' : g \in Direct[h]}
    <3>1. g \in nodes /\ g # f /\ g \in Func
      BY <1>1, <1>3
    <3>2. callees[g] = Direct[g] \cap nodes /\ callers[g] = {h \in nodes : g \in Direct[h]}
      BY <1>3, <3>1 DEF Inv, GraphInv
    <3>3. callees[f] = Direct[f] \cap nodes /\ callers[f] = {h \in nodes : f \in Direct[h]}
      BY <1>3 DEF Inv, GraphInv
    <3>4. QED
      BY <1>1, <3>1, <3>2, <3>3
  <2>2. QED
    BY <1>1, <1>2, <1>3, <2>1 DEF GraphInv
<1>6. BuildInv'
  BY <1>1 DEF BuildInv
<1>7. PhaseInv'
  <2>1. nodes' \ doomed' = nodes \ doomed
    BY <1>1
  <2>2. QED
    BY <1>1, <1>2, <2>1 DEF Inv, PhaseInv, Compressed
<1>8. TableInv'
  BY <1>1, <1>2 DEF Inv, TableInv, Compressed, SCCCapsExact
<1>9. QED
  BY <1>4, <1>5, <1>6, <1>7, <1>8 DEF Inv

LEMMA EndRemovalInv ==
  ASSUME Inv, EndRemoval
  PROVE  Inv'
<1>1. /\ pc \in {"unreachable", "unpriv"} /\ doomed = {}
      /\ pc' = IF pc = "unreachable" THEN "tables" ELSE "sizes"
      /\ UNCHANGED <<calls, lowers, unscanned, nodes, funcNodeMap, callers, callees,
                     funcCapMap, bbCapMap, reachablePrivFunc, doomed, sccCaps>>
  BY DEF EndRemoval, inputs, graph, tables
<1>2. Direct' = Direct /\ PrivFuncs' = PrivFuncs /\ Kept' = Kept
  BY <1>1, InputsSame DEF inputs
<1>3. TypeOK'
  BY <1>1 DEF Inv, TypeOK
<1>4. GraphInv' /\ BuildInv'
  BY <1>1, <1>2 DEF Inv, GraphInv, BuildInv
<1>5. PhaseInv'
  BY <1>1, <1>2 DEF Inv, PhaseInv, Compressed
<1>6. TableInv'
  BY <1>1, <1>2 DEF Inv, TableInv, Compressed, SCCCapsExact
<1>7. QED
  BY <1>3, <1>4, <1>5, <1>6 DEF Inv

LEMMA RemoveUnneededInv ==
  ASSUME Inv, RemoveUnneeded
  PROVE  Inv'
<1>1. /\ pc = "tables" /\ pc' = "reach"
      /\ UNCHANGED <<calls, lowers, unscanned, nodes, funcNodeMap, callers, callees,
                     reachablePrivFunc, doomed, sccCaps>>
      /\ funcCapMap' = [f \in {g \in DOMAIN funcCapMap : HasFunction(g)} |-> funcCapMap[f]]
      /\ bbCapMap' = [b \in {d \in DOMAIN bbCapMap : HasFunction(parent(d))} |-> bbCapMap[b]]
  BY DEF RemoveUnneeded, inputs, graph
<1>2. Direct' = Direct /\ PrivFuncs' = PrivFuncs /\ Kept' = Kept
  BY <1>1, InputsSame DEF inputs
<1>3. funcNodeMap = Reach(Direct, main) /\ bbCapMap = lowers
  BY <1>1 DEF Inv, PhaseInv, TableInv
<1>4. bbCapMap' = Below(bbCapMap, funcNodeMap)
  BY <1>1 DEF HasFunction, Below
<1>5. funcCapMap' = PerFunction(bbCapMap')
  <2>1. funcCapMap = PerFunction(bbCapMap)
    BY DEF Inv, TableInv
  <2>2. PerFunction(Below(bbCapMap, funcNodeMap)) =
          [f \in {g \in DOMAIN PerFunction(bbCapMap) : g \in funcNodeMap}
             |-> PerFunction(bbCapMap)[f]]
    BY PerFunctionBelow
  <2>3. funcCapMap' = [f \in {g \in DOMAIN funcCapMap : g \in funcNodeMap} |-> funcCapMap[f]]
    BY <1>1 DEF HasFunction
  <2>4. QED
    BY <1>4, <2>1, <2>2, <2>3
<1>6. TypeOK'
  <2>1. IsMap(funcCapMap', Func, SUBSET Cap) /\ IsMap(bbCapMap', Block, SUBSET Cap)
    BY <1>1 DEF Inv, TypeOK, IsMap
  <2>2. QED
    BY <1>1, <2>1 DEF Inv, TypeOK
<1>7. GraphInv' /\ BuildInv'
  BY <1>1, <1>2 DEF Inv, GraphInv, BuildInv
<1>8. PhaseInv'
  BY <1>1, <1>2 DEF Inv, PhaseInv, Compressed
<1>9. TableInv'
  BY <1>1, <1>2, <1>3, <1>4, <1>5 DEF Inv, TableInv, Compressed, SCCCapsExact
<1>10. QED
  BY <1>6, <1>7, <1>8, <1>9 DEF Inv

\* The priv-functions the second search finds are those of the whole program.
LEMMA PrivFuncsReachedExact ==
  ASSUME Inv, pc = "reach", NEW f \in nodes
  PROVE  PrivFuncsReached(f) = Reach(Direct, f) \cap PrivFuncs
<1>1. nodes = Reach(Direct, main)
  BY DEF Inv, PhaseInv
<1>2. Reach(CallGraph, f) = Reach(Direct, f) /\ Reach(Direct, f) \subseteq nodes
  BY <1>1, ReachedGraph DEF Inv
<1>3. bbCapMap = Below(lowers, nodes) /\ funcCapMap = PerFunction(bbCapMap)
  BY <1>1 DEF Inv, TableInv
<1>4. DOMAIN PerFunction(lowers) = PrivFuncs
  BY PerFunctionType DEF Inv, TypeOK, PrivFuncs
<1>5. funcCapMap = [g \in {h \in DOMAIN PerFunction(lowers) : h \in nodes}
                      |-> PerFunction(lowers)[g]]
  BY <1>3, PerFunctionBelow
<1>6. DOMAIN funcCapMap = {h \in DOMAIN PerFunction(lowers) : h \in nodes}
  BY <1>5
<1>7. DOMAIN funcCapMap = PrivFuncs \cap nodes
  BY <1>4, <1>6
<1>8. QED
  BY <1>2, <1>7 DEF PrivFuncsReached

LEMMA GetReachablePrivFuncInv ==
  ASSUME Inv, GetReachablePrivFunc
  PROVE  Inv'
<1>1. /\ pc = "reach" /\ pc' = "reached"
      /\ UNCHANGED <<calls, lowers, unscanned, nodes, funcNodeMap, callers, callees,
                     funcCapMap, bbCapMap, doomed, sccCaps>>
      /\ reachablePrivFunc' =
           [f \in {g \in nodes : PrivFuncsReached(g) # {}} |-> PrivFuncsReached(f)]
  BY DEF GetReachablePrivFunc, inputs, graph, tables
<1>2. Direct' = Direct /\ PrivFuncs' = PrivFuncs /\ Kept' = Kept
  BY <1>1, InputsSame DEF inputs
<1>3. nodes = Reach(Direct, main) /\ nodes \subseteq Func
  BY <1>1 DEF Inv, PhaseInv, TypeOK
<1>4. \A f \in nodes : PrivFuncsReached(f) = Reach(Direct, f) \cap PrivFuncs
  BY <1>1, PrivFuncsReachedExact
<1>5. {g \in nodes : PrivFuncsReached(g) # {}} = Kept
  BY <1>3, <1>4 DEF Kept
<1>6. Kept \subseteq nodes
  BY <1>3 DEF Kept
<1>7. reachablePrivFunc' = [f \in Kept |-> Reach(Direct, f) \cap PrivFuncs]
  BY <1>1, <1>4, <1>5, <1>6
<1>8. IsMap(reachablePrivFunc', Func, SUBSET Func)
  <2>1. \A f \in Func : Reach(Direct, f) \subseteq Func
    BY DirectGraph, ReachFacts DEF Inv, TypeOK
  <2>2. QED
    BY <1>3, <1>6, <1>7, <2>1 DEF IsMap
<1>9. TypeOK'
  BY <1>1, <1>8 DEF Inv, TypeOK
<1>10. GraphInv' /\ BuildInv'
  BY <1>1, <1>2 DEF Inv, GraphInv, BuildInv
<1>11. PhaseInv'
  BY <1>1, <1>2 DEF Inv, PhaseInv, Compressed
<1>12. TableInv'
  BY <1>1, <1>2, <1>7 DEF Inv, TableInv, Compressed, SCCCapsExact
<1>13. QED
  BY <1>9, <1>10, <1>11, <1>12 DEF Inv

LEMMA FindUnprivInv ==
  ASSUME Inv, FindUnpriv
  PROVE  Inv'
<1>1. /\ pc = "reached" /\ pc' = "unpriv"
      /\ UNCHANGED <<calls, lowers, unscanned, nodes, funcNodeMap, callers, callees,
                     funcCapMap, bbCapMap, reachablePrivFunc, sccCaps>>
      /\ doomed' = {f \in nodes : ~ CanReachPrivFunc(f)}
  BY DEF FindUnpriv, inputs, graph, tables
<1>2. Direct' = Direct /\ PrivFuncs' = PrivFuncs /\ Kept' = Kept
  BY <1>1, InputsSame DEF inputs
<1>3. nodes = Reach(Direct, main) /\ DOMAIN reachablePrivFunc = Kept
  BY <1>1 DEF Inv, PhaseInv, TableInv
<1>4. nodes \ doomed' = Kept
  BY <1>1, <1>3 DEF Kept, CanReachPrivFunc
<1>5. TypeOK'
  BY <1>1 DEF Inv, TypeOK
<1>6. GraphInv' /\ BuildInv'
  BY <1>1, <1>2 DEF Inv, GraphInv, BuildInv
<1>7. PhaseInv'
  BY <1>1, <1>2, <1>4 DEF Inv, PhaseInv, Compressed
<1>8. TableInv'
  BY <1>1, <1>2 DEF Inv, TableInv, Compressed, SCCCapsExact
<1>9. QED
  BY <1>5, <1>6, <1>7, <1>8 DEF Inv

LEMMA StartSCCsInv ==
  ASSUME Inv, StartSCCs
  PROVE  Inv'
<1>1. /\ pc = "sizes" /\ pc' = IF main \in nodes THEN "scc" ELSE "nullptr"
      /\ funcNodeMap' = funcNodeMap \cup {main}
      /\ UNCHANGED <<calls, lowers, unscanned, nodes, callers, callees,
                     funcCapMap, bbCapMap, reachablePrivFunc, doomed, sccCaps>>
  BY DEF StartSCCs, inputs, tables
<1>2. Direct' = Direct /\ PrivFuncs' = PrivFuncs /\ Kept' = Kept
  BY <1>1, InputsSame DEF inputs
<1>3. TypeOK'
  BY <1>1, FuncAssumption DEF Inv, TypeOK
<1>4. GraphInv' /\ BuildInv'
  BY <1>1, <1>2 DEF Inv, GraphInv, BuildInv
<1>5. PhaseInv'
  BY <1>1, <1>2 DEF Inv, PhaseInv, Compressed
<1>6. TableInv'
  BY <1>1, <1>2 DEF Inv, TableInv, Compressed, SCCCapsExact
<1>7. QED
  BY <1>3, <1>4, <1>5, <1>6 DEF Inv

-----------------------------------------------------------------------------
\* Recording the components

\* Uniting per function and then over functions is uniting over their blocks.
LEMMA UnitePerFunction ==
  ASSUME NEW S
  PROVE  UNION {PerFunction(lowers)[g] : g \in S \cap PrivFuncs} =
         UNION {lowers[b] : b \in {d \in DOMAIN lowers : parent(d) \in S}}
<1> DEFINE own(g) == UNION {lowers[b] : b \in {d \in DOMAIN lowers : parent(d) = g}}
           left   == UNION {own(g) : g \in S \cap PrivFuncs}
           right  == UNION {lowers[b] : b \in {d \in DOMAIN lowers : parent(d) \in S}}
<1>1. \A g \in PrivFuncs : PerFunction(lowers)[g] = own(g)
  BY DEF PerFunction, PrivFuncs
<1>2. UNION {PerFunction(lowers)[g] : g \in S \cap PrivFuncs} = left
  BY <1>1
<1>3. left \subseteq right
  OBVIOUS
<1>4. ASSUME NEW c \in right PROVE c \in left
  <2>1. PICK b \in DOMAIN lowers : parent(b) \in S /\ c \in lowers[b]
    OBVIOUS
  <2>2. parent(b) \in S \cap PrivFuncs /\ c \in own(parent(b))
    BY <2>1 DEF PrivFuncs
  <2>3. QED
    BY <2>2
<1>5. QED
  BY <1>2, <1>3, <1>4

\* Whichever member collectSCCCaps starts from, it collects what every member reaches.
LEMMA CollectedCapsExact ==
  ASSUME Inv, pc = "scc", NEW scc \in Components(CallGraph),
         NEW member \in scc, NEW f \in scc
  PROVE  /\ scc \subseteq nodes
         /\ CollectSCCCaps(member) =
              UNION {lowers[b] : b \in {d \in DOMAIN lowers : parent(d) \in Reach(Direct, f)}}
<1>1. Direct \in [Func -> SUBSET Func] /\ main \in Func
  BY DirectGraph DEF Inv, TypeOK
<1>2. /\ CallGraph \in [nodes -> SUBSET nodes] /\ nodes \in SUBSET Func
      /\ \A x \in nodes : CallGraph[x] \subseteq Direct[x]
  BY CallGraphFacts DEF Inv
<1>3. PICK n \in nodes : scc = SCCOf(CallGraph, n)
  BY <1>2 DEF Components
<1>4. scc \subseteq nodes
  BY <1>2, <1>3, ReachFacts DEF SCCOf
<1>5. f \in Reach(CallGraph, member) /\ member \in Reach(CallGraph, f)
  BY <1>2, <1>3, SameComponentSameReach
<1>6. f \in Reach(Direct, member) /\ member \in Reach(Direct, f)
  BY <1>1, <1>2, <1>4, <1>5, ReachPart
<1>7. Reach(Direct, f) = Reach(Direct, member)
  <2>1. f \in Func /\ member \in Func
    BY <1>2, <1>4
  <2>2. Reach(Direct, f) \subseteq Reach(Direct, member)
    BY <1>1, <1>6, <2>1, ReachFacts
  <2>3. Reach(Direct, member) \subseteq Reach(Direct, f)
    BY <1>1, <1>6, <2>1, ReachFacts
  <2>4. QED
    BY <2>2, <2>3
<1>8. nodes = Kept /\ bbCapMap = Below(lowers, Reach(Direct, main))
      /\ funcCapMap = PerFunction(bbCapMap)
      /\ reachablePrivFunc = [g \in Kept |-> Reach(Direct, g) \cap PrivFuncs]
  BY DEF Inv, PhaseInv, TableInv, Compressed
<1>9. reachablePrivFunc[member] = Reach(Direct, f) \cap PrivFuncs
  BY <1>4, <1>7, <1>8
<1>10. Reach(Direct, f) \subseteq Reach(Direct, main)
  BY <1>1, <1>4, <1>8, ReachFacts DEF Kept
<1>11. \A g \in Reach(Direct, f) \cap PrivFuncs : funcCapMap[g] = PerFunction(lowers)[g]
  <2>1. DOMAIN PerFunction(lowers) = PrivFuncs
    BY PerFunctionType DEF Inv, TypeOK, PrivFuncs
  <2>2. PerFunction(Below(lowers, Reach(Direct, main))) =
          [g \in {h \in DOMAIN PerFunction(lowers) : h \in Reach(Direct, main)}
             |-> PerFunction(lowers)[g]]
    BY PerFunctionBelow
  <2>3. funcCapMap = [g \in {h \in DOMAIN PerFunction(lowers) : h \in Reach(Direct, main)}
                        |-> PerFunction(lowers)[g]]
    BY <1>8, <2>2
  <2>4. QED
    BY <1>10, <2>1, <2>3
<1>12. CollectSCCCaps(member) =
         UNION {PerFunction(lowers)[g] : g \in Reach(Direct, f) \cap PrivFuncs}
  BY <1>9, <1>11 DEF CollectSCCCaps
<1>13. QED
  BY <1>4, <1>12, UnitePerFunction

LEMMA RecordSCCInv ==
  ASSUME Inv, RecordSCC
  PROVE  Inv'
<1>1. /\ pc = "scc"
      /\ UNCHANGED <<calls, lowers, unscanned, nodes, funcNodeMap, callers, callees,
                     funcCapMap, bbCapMap, reachablePrivFunc, doomed, pc>>
  BY DEF RecordSCC, inputs, graph, tables
<1>2. Direct' = Direct /\ PrivFuncs' = PrivFuncs /\ Kept' = Kept
  BY <1>1, InputsSame DEF inputs
<1>3. PICK scc \in Components(CallGraph) :
         \E member \in scc :
           sccCaps' = [c \in DOMAIN sccCaps \cup {scc} |->
                         IF c = scc THEN CollectSCCCaps(member) ELSE sccCaps[c]]
  BY DEF RecordSCC
<1>4. PICK member \in scc :
        sccCaps' = [c \in DOMAIN sccCaps \cup {scc} |->
                      IF c = scc THEN CollectSCCCaps(member) ELSE sccCaps[c]]
  BY <1>3
<1> DEFINE caps(f) ==
      UNION {lowers[b] : b \in {d \in DOMAIN lowers : parent(d) \in Reach(Direct, f)}}
<1>5. scc \subseteq nodes /\ \A f \in scc : CollectSCCCaps(member) = caps(f)
  BY <1>1, <1>4, CollectedCapsExact
<1>6. SCCCapsExact'
  <2>1. \A c \in DOMAIN sccCaps : \A f \in c : sccCaps[c] = caps(f)
    BY DEF Inv, TableInv, SCCCapsExact
  <2>2. \A c \in DOMAIN sccCaps' : \A f \in c : sccCaps'[c] = caps(f)
    BY <1>4, <1>5, <2>1
  <2>3. QED
    BY <1>1, <1>2, <2>2 DEF SCCCapsExact
<1>7. TypeOK'
  <2>1. CollectSCCCaps(member) \in SUBSET Cap
    <3>1. caps(member) \in SUBSET Cap
      BY DEF Inv, TypeOK, IsMap
    <3>2. QED
      BY <1>5, <3>1
  <2>2. scc \in SUBSET Func
    BY <1>5 DEF Inv, TypeOK
  <2>3. IsMap(sccCaps', SUBSET Func, SUBSET Cap)
    BY <1>4, <2>1, <2>2 DEF Inv, TypeOK, IsMap
  <2>4. QED
    BY <1>1, <2>3 DEF Inv, TypeOK
<1>8. GraphInv' /\ BuildInv'
  BY <1>1, <1>2 DEF Inv, GraphInv, BuildInv
<1>9. PhaseInv'
  BY <1>1, <1>2 DEF Inv, PhaseInv, Compressed
<1>10. TableInv'
  BY <1>1, <1>2, <1>6 DEF Inv, TableInv, Compressed
<1>11. QED
  BY <1>7, <1>8, <1>9, <1>10 DEF Inv

LEMMA FinishInv ==
  ASSUME Inv, Finish
  PROVE  Inv'
<1>1. /\ pc = "scc" /\ pc' = "done"
      /\ UNCHANGED <<calls, lowers, unscanned, nodes, funcNodeMap, callers, callees,
                     funcCapMap, bbCapMap, reachablePrivFunc, doomed, sccCaps>>
  BY DEF Finish, inputs, graph, tables
<1>2. Direct' = Direct /\ PrivFuncs' = PrivFuncs /\ Kept' = Kept
  BY <1>1, InputsSame DEF inputs
<1>3. TypeOK'
  BY <1>1 DEF Inv, TypeOK
<1>4. GraphInv' /\ BuildInv'
  BY <1>1, <1>2 DEF Inv, GraphInv, BuildInv
<1>5. PhaseInv'
  BY <1>1, <1>2 DEF Inv, PhaseInv, Compressed
<1>6. TableInv'
  BY <1>1, <1>2 DEF Inv, TableInv, Compressed, SCCCapsExact
<1>7. QED
  BY <1>3, <1>4, <1>5, <1>6 DEF Inv

LEMMA NextInv == Inv /\ [Next]_vars => Inv'
<1> SUFFICES ASSUME Inv, [Next]_vars PROVE Inv'
  OBVIOUS
<1>1. ASSUME NEW f \in Func, ScanFunction(f) PROVE Inv'
  BY <1>1, ScanFunctionInv
<1>2. ASSUME NEW f \in Func, RemoveDoomed(f) PROVE Inv'
  BY <1>2, RemoveDoomedInv
<1>3. CASE FindUnreachable
  BY <1>3, FindUnreachableInv
<1>4. CASE EndRemoval
  BY <1>4, EndRemovalInv
<1>5. CASE RemoveUnneeded
  BY <1>5, RemoveUnneededInv
<1>6. CASE GetReachablePrivFunc
  BY <1>6, GetReachablePrivFuncInv
<1>7. CASE FindUnpriv
  BY <1>7, FindUnprivInv
<1>8. CASE StartSCCs
  BY <1>8, StartSCCsInv
<1>9. CASE RecordSCC
  BY <1>9, RecordSCCInv
<1>10. CASE Finish
  BY <1>10, FinishInv
<1>11. CASE UNCHANGED vars
  <2>1. UNCHANGED <<calls, lowers, unscanned, nodes, funcNodeMap, callers, callees,
                    funcCapMap, bbCapMap, reachablePrivFunc, doomed, sccCaps, pc>>
    BY <1>11 DEF vars, inputs, graph, tables
  <2>2. Direct' = Direct /\ PrivFuncs' = PrivFuncs /\ Kept' = Kept
    BY <2>1, InputsSame DEF inputs
  <2>3. TypeOK' /\ GraphInv' /\ BuildInv'
    BY <2>1, <2>2 DEF Inv, TypeOK, GraphInv, BuildInv
  <2>4. PhaseInv' /\ TableInv'
    BY <2>1, <2>2 DEF Inv, PhaseInv, TableInv, Compressed, SCCCapsExact
  <2>5. QED
    BY <2>3, <2>4 DEF Inv
<1>12. QED
  BY <1>1, <1>2, <1>3, <1>4, <1>5, <1>6, <1>7, <1>8, <1>9, <1>10, <1>11
     DEF Next, Terminated

LEMMA Invariance == Spec => []Inv
BY InitInv, NextInv, PTL DEF Spec

-----------------------------------------------------------------------------
\* The types of the pass; no function that is ignored gets a node.
THEOREM TypeCorrect == Spec => []TypeOK
<1>1. Inv => TypeOK
  BY DEF Inv
<1>2. QED
  BY <1>1, Invariance, PTL

\* Between any two node removals, in any order, the links of the live nodes agree and
\* lead to live nodes: removeNode leaves no pointer to a freed node behind.
THEOREM LinksCorrect == Spec => []LinksAgree
<1>1. Inv => LinksAgree
  BY DEF Inv, GraphInv, LinksAgree
<1>2. QED
  BY <1>1, Invariance, PTL

\* The two removals leave exactly the functions they are meant to leave.
THEOREM NodesCorrect == Spec => []NodesExact
<1>1. Inv => NodesExact
  BY DEF Inv, PhaseInv, NodesExact, Kept
<1>2. QED
  BY <1>1, Invariance, PTL

\* Compression cuts no function off from main: the search of computeSCCs starts from
\* main and sees the whole graph, unless the graph is empty.
THEOREM MainReaches == Spec => []MainReachesAll
<1>1. ASSUME Inv PROVE MainReachesAll
  <2> SUFFICES ASSUME Compressed
               PROVE  IF main \in nodes THEN Reach(CallGraph, main) = nodes ELSE nodes = {}
    BY DEF MainReachesAll
  <2>1. nodes = Kept /\ pc # "build"
    BY <1>1 DEF Inv, PhaseInv, Compressed
  <2>2. Direct \in [Func -> SUBSET Func] /\ main \in Func
    BY <1>1, DirectGraph DEF Inv, TypeOK
  <2>3. \A x \in Reach(Direct, main) : x \in Func /\ Direct[x] \subseteq Reach(Direct, main)
    BY <2>2, ReachFacts
  <2>4. ASSUME NEW x \in Reach(Direct, main), NEW y \in Reach(Direct, x), y \in Kept
        PROVE  x \in Kept
    BY <2>2, <2>3, <2>4, ReachFacts DEF Kept
  <2>5. CASE main \notin nodes
    <3>1. \A y \in Kept : y \in Reach(Direct, main)
      BY DEF Kept
    <3>2. main \in Reach(Direct, main)
      BY <2>2, ReachFacts
    <3>3. QED
      BY <2>1, <2>4, <2>5, <3>1, <3>2
  <2>6. CASE main \in nodes
    <3>1. CallGraph \in [nodes -> SUBSET nodes] /\ \A f \in nodes : CallGraph[f] = Direct[f] \cap nodes
      BY <1>1, <2>1, CallGraphFacts DEF Inv
    <3> DEFINE T == {x \in Reach(Direct, main) : x \in nodes => x \in Reach(CallGraph, main)}
    <3>2. main \in T
      BY <2>2, <2>6, <3>1, ReachFacts
    <3>3. T \in SUBSET Func
      BY <2>3
    <3>4. ASSUME NEW x \in T, NEW y \in Direct[x] PROVE y \in T
      <4>1. y \in Reach(Direct, main)
        BY <2>3
      <4>2. ASSUME y \in nodes PROVE y \in Reach(CallGraph, main)
        <5>1. y \in Reach(Direct, x)
          BY <2>2, <2>3, ReachFacts
        <5>2. x \in nodes
          BY <2>1, <2>4, <4>2, <5>1
        <5>3. x \in Reach(CallGraph, main) /\ y \in CallGraph[x]
          BY <3>1, <4>2, <5>2
        <5>4. QED
          BY <2>6, <3>1, <5>3, ReachFacts
      <4>3. QED
        BY <4>1, <4>2
    <3>5. Reach(Direct, main) \subseteq T
      <4> HIDE DEF T
      <4>1. QED
        BY <2>2, <3>2, <3>3, <3>4, ReachLeast
    <3>6. nodes \subseteq Reach(CallGraph, main)
      BY <2>1, <3>5 DEF Kept
    <3>7. Reach(CallGraph, main) \subseteq nodes
      BY <2>6, <3>1, ReachFacts
    <3>8. QED
      BY <2>6, <3>6, <3>7
  <2>7. QED
    BY <2>5, <2>6
<1>2. QED
  BY <1>1, Invariance, PTL

\* The assertion before computeSCCs never fails.
THEOREM SizesCorrect == Spec => []SizesAgree
<1>1. ASSUME Inv PROVE SizesAgree
  <2>1. pc = "sizes" => nodes = funcNodeMap /\ nodes = DOMAIN reachablePrivFunc
    BY <1>1 DEF Inv, PhaseInv, TableInv, Compressed
  <2>2. QED
    BY <2>1 DEF SizesAgree
<1>2. QED
  BY <1>1, Invariance, PTL

\* reachablePrivFunc is right for the whole program, although it was computed on the
\* filtered tables, and points to nodes that are still there.
THEOREM ReachableCorrect == Spec => []ReachableExact
<1>1. ASSUME Inv PROVE ReachableExact
  <2> SUFFICES ASSUME Compressed, NEW f \in DOMAIN reachablePrivFunc
               PROVE  /\ reachablePrivFunc[f] = Reach(Direct, f) \cap PrivFuncs
                      /\ reachablePrivFunc[f] \subseteq nodes
    BY DEF ReachableExact
  <2>1. nodes = Kept /\ reachablePrivFunc = [g \in Kept |-> Reach(Direct, g) \cap PrivFuncs]
    BY <1>1 DEF Inv, PhaseInv, TableInv
  <2>2. Direct \in [Func -> SUBSET Func] /\ main \in Func
    BY <1>1, DirectGraph DEF Inv, TypeOK
  <2>3. f \in Reach(Direct, main)
    BY <2>1 DEF Kept
  <2>4. ASSUME NEW g \in Reach(Direct, f) \cap PrivFuncs PROVE g \in Kept
    <3>1. f \in Func
      BY <2>2, <2>3, ReachFacts
    <3>2. g \in Reach(Direct, main) /\ g \in Func
      BY <2>2, <2>3, <2>4, <3>1, ReachFacts
    <3>3. g \in Reach(Direct, g)
      BY <2>2, <3>2, ReachFacts
    <3>4. QED
      BY <2>4, <3>2, <3>3 DEF Kept
  <2>5. QED
    BY <2>1, <2>4
<1>2. QED
  BY <1>1, Invariance, PTL

\* Every recorded component has exactly the capabilities its functions can reach.
THEOREM SCCCapsCorrect == Spec => []SCCCapsExact
<1>1. Inv => SCCCapsExact
  BY DEF Inv, TableInv
<1>2. QED
  BY <1>1, Invariance, PTL

\* Filtering keeps the two tables of LocalAnalysis consistent.
THEOREM TablesCorrect == Spec => []TablesAgree
<1>1. Inv => TablesAgree
  BY DEF Inv, TableInv, TablesAgree
<1>2. QED
  BY <1>1, Invariance, PTL

\* When computeSCCs is called main is left and reaches every function that is: the search,
\* which starts from main only, sees the whole graph.
THEOREM StartsSCCs ==
  Spec => [](pc = "scc" /\ nodes = remaining => SCC!RootAssumption /\ SCC!Init)
<1>1. ASSUME Inv, MainReachesAll, pc = "scc", nodes = remaining
      PROVE  SCC!RootAssumption /\ SCC!Init
  <2>1. main \in remaining
    BY <1>1 DEF Inv, PhaseInv
  <2>2. CallGraph \in [remaining -> SUBSET remaining]
    BY <1>1, CallGraphFacts DEF Inv
  <2>3. Reach(CallGraph, main) = remaining
    BY <1>1, <2>1 DEF MainReachesAll, Compressed
  <2>4. SCC!Reach(CallGraph, main) = Reach(CallGraph, main)
    BY DEF SCC!Reach, SCC!ReachIn, SCC!ClosedIn, Reach, ReachIn, ClosedIn
  <2>5. SCC!Init
    BY <2>2, <2>3, <2>4 DEF SCC!Init
  <2>6. QED
    BY <2>1, <2>5 DEF SCC!RootAssumption
<1>2. Inv => (MainReachesAll => (pc = "scc" /\ nodes = remaining => SCC!RootAssumption /\ SCC!Init))
  BY <1>1
<1>3. QED
  BY <1>2, Invariance, MainReaches, PTL

-----------------------------------------------------------------------------
\* What CompressCFG starts from

\* Both modules speak of the same operators.
LEMMA SameOperators ==
  /\ \A succ, n : CFG!Reach(succ, n) = Reach(succ, n)
  /\ \A table : CFG!PerFunction(table) = PerFunction(table)
  /\ \A table, S, T : CFG!IsMap(table, S, T) <=> IsMap(table, S, T)
  /\ CFG!EmptyTable = EmptyTable
BY DEF CFG!Reach, CFG!ReachIn, CFG!ClosedIn, Reach, ReachIn, ClosedIn,
       CFG!PerFunction, CFG!parent, PerFunction, parent, CFG!IsMap, IsMap,
       CFG!EmptyTable, EmptyTable

\* The direct calls are those of the blocks; the blocks of a function are optimized code.
BlocksOfProgram ==
  /\ calleeOf \in [Block -> Func \cup {None}] /\ None \notin Func
  /\ \A f \in Func : Direct[f] = {calleeOf[b] : b \in {c \in Block : parent(c) = f}} \ {None}
  /\ cfg \in [remaining -> [BlockId -> SUBSET (BlockId \ {entry})]]
  /\ \A f \in remaining : Reach(cfg[f], entry) = BlockId
  /\ {entry, end} \subseteq BlockId

LEMMA FilteredTable ==
  ASSUME Inv, pc = "done"
  PROVE  /\ IsMap(bbCapMap, Kept \X BlockId, SUBSET Cap)
         /\ \A f \in Reach(Direct, main) :
              Reach(Direct, f) \cap DOMAIN PerFunction(bbCapMap) = Reach(Direct, f) \cap PrivFuncs
<1>1. bbCapMap = Below(lowers, Reach(Direct, main)) /\ IsMap(lowers, Block, SUBSET Cap)
  BY DEF Inv, TableInv, TypeOK
<1>2. Direct \in [Func -> SUBSET Func] /\ main \in Func
  BY DirectGraph DEF Inv, TypeOK
<1>3. DOMAIN bbCapMap = {b \in DOMAIN lowers : parent(b) \in Reach(Direct, main)}
  BY <1>1 DEF Below
<1>4. DOMAIN bbCapMap \subseteq Kept \X BlockId
  <2>1. ASSUME NEW b \in DOMAIN lowers, parent(b) \in Reach(Direct, main)
        PROVE  b \in Kept \X BlockId
    <3>1. b \in Func \X BlockId /\ parent(b) \in Func /\ b = <<parent(b), b[2]>> /\ b[2] \in BlockId
      BY <1>1 DEF IsMap, Block, parent
    <3>2. parent(b) \in Reach(Direct, parent(b)) /\ parent(b) \in PrivFuncs
      BY <1>2, <3>1, ReachFacts DEF PrivFuncs
    <3>3. parent(b) \in Kept
      BY <2>1, <3>2 DEF Kept
    <3>4. QED
      BY <3>1, <3>3
  <2>2. QED
    BY <1>3, <2>1
<1>5. bbCapMap \in [DOMAIN bbCapMap -> SUBSET Cap]
  BY <1>1 DEF Below, IsMap
<1>6. ASSUME NEW f \in Reach(Direct, main)
      PROVE  Reach(Direct, f) \cap DOMAIN PerFunction(bbCapMap) = Reach(Direct, f) \cap PrivFuncs
  <2>1. DOMAIN PerFunction(bbCapMap) = {parent(b) : b \in DOMAIN bbCapMap}
    BY DEF PerFunction
  <2>2. f \in Func
    BY <1>2, ReachFacts
  <2>3. \A g \in Reach(Direct, f) : g \in Reach(Direct, main)
    BY <1>2, <2>2, ReachFacts
  <2>4. QED
    BY <1>3, <2>1, <2>3 DEF PrivFuncs
<1>7. QED
  BY <1>4, <1>5, <1>6 DEF IsMap

\* What CompressCG leaves when it ends is what CompressCFG starts from: its tables are
\* filtered to the functions that are left, its table of reached functions is exact, and
\* main is left.  The properties of CompressCFG and Execution, which start there, hold of
\* the two passes together.
THEOREM StartsCompressCFG ==
  Spec => [](pc = "done" /\ nodes = remaining /\ BlocksOfProgram => CFG!CFGAssumption /\ CFG!Init)
<1>1. ASSUME Inv, pc = "done", nodes = remaining, BlocksOfProgram
      PROVE  CFG!CFGAssumption /\ CFG!Init
  <2>1. /\ nodes = Kept
        /\ reachablePrivFunc = [f \in Kept |-> Reach(Direct, f) \cap PrivFuncs]
    BY <1>1 DEF Inv, PhaseInv, TableInv, Compressed
  <2>2. remaining = Kept
    BY <1>1, <2>1
  <2>3. CFG!Calls = Direct
    <3>1. CFG!Calls = [f \in Func |-> {calleeOf[b] : b \in {c \in Block : parent(c) = f}} \ {None}]
      BY DEF CFG!Calls, CFG!Block, Block, CFG!parent, parent
    <3>2. Direct = [f \in Func |-> Direct[f]]
      BY DEF Direct
    <3>3. QED
      BY <1>1, <3>1, <3>2 DEF BlocksOfProgram
  <2>4. \A f : CFG!PrivReach(f) = Reach(Direct, f) \cap DOMAIN PerFunction(bbCapMap)
    BY <2>3, SameOperators DEF CFG!PrivReach, CFG!funcCapMap
  <2>5. \A f \in Reach(Direct, main) : CFG!PrivReach(f) = Reach(Direct, f) \cap PrivFuncs
    BY <1>1, <2>4, FilteredTable
  <2>6. remaining = {f \in CFG!Reach(CFG!Calls, main) : CFG!PrivReach(f) # {}}
    BY <2>2, <2>3, <2>5, SameOperators DEF Kept
  <2>7. reachablePrivFunc = [f \in remaining |-> CFG!PrivReach(f)]
    BY <2>1, <2>2, <2>5 DEF Kept
  <2>8. \E D \in SUBSET (remaining \X BlockId) : bbCapMap \in [D -> SUBSET Cap]
    BY <1>1, <2>2, FilteredTable DEF IsMap
  <2>9. CFG!Init
    BY <1>1, <2>6, <2>7, <2>8, SameOperators DEF CFG!Init, BlocksOfProgram, CFG!Block, Block
  <2>10. main \in remaining /\ remaining \subseteq Func
    BY <1>1 DEF Inv, TypeOK, PhaseInv
  <2>11. QED
    BY <1>1, <2>9, <2>10 DEF CFG!CFGAssumption, BlocksOfProgram
<1>2. QED
  BY <1>1, Invariance, PTL
=============================================================================
