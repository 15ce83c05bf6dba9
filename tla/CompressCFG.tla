---------------------------- MODULE CompressCFG -----------------------------
(***************************************************************************)
(* The pass CompressCFG over the functions CompressCG has kept: compress   *)
(* the control-flow graph of each, then, function by function, record the  *)
(* loops of it with their capabilities.  The removal of blocks from one    *)
(* graph is module PrivCFG and the search for components module Kosaraju;  *)
(* here their results are used (Contracted, Components), and the steps are *)
(* those that read and write what the passes share: bbCapMap, funcCapMap   *)
(* and reachablePrivFunc.                                                  *)
(*                                                                         *)
(* An entry that operator[] inserts into reachablePrivFunc stays: the      *)
(* table is a variable.  The NULL entries getCalleeFromBB inserts into     *)
(* bbInstMap and callinstFuncMap read as None before and after.            *)
(***************************************************************************)
EXTENDS Naturals, FiniteSets, ADT, Reachability

CONSTANTS
  main,      \* ENTRY_FUNC
  Kept,      \* the functions in the compressed call graph
  Cap,       \* the capabilities
  None,      \* no callee, the NULL of getCalleeFromBB
  entry, end \* the first and the last block of a function

ASSUME CFGAssumption ==
  main \in Kept /\ Kept \subseteq Func /\ None \notin Func /\ {entry, end} \subseteq BlockId

VARIABLES
  cfg,                \* per function, LLVM's successors (input)
  calleeOf,           \* per block, getCalleeFromBB (input)
  bbCapMap,           \* LocalAnalysis's table, filtered (input)
  reachablePrivFunc,  \* CompressCG's table, with what operator[] has inserted since
  funcCFGMap,         \* the compressed graphs so far
  running,            \* the component being recorded, with its function
  unread, caps,       \* its blocks still to come and its capabilities so far
  recorded,           \* the finished components with their capabilities
  pc                  \* "compress", "sccs", "collect", "done"; "abort": assert failed

inputs == <<cfg, calleeOf, bbCapMap>>
vars   == <<inputs, reachablePrivFunc, funcCFGMap, running, unread, caps, recorded, pc>>

funcCapMap == PerFunction(bbCapMap)

\* The direct calls of the program.
Calls == [f \in Func |-> {calleeOf[b] : b \in {c \in Block : parent(c) = f}} \ {None}]

\* What CompressCG has found that f reaches (CompressCG!ReachableExact).
PrivReach(f) == Reach(Calls, f) \cap DOMAIN funcCapMap

Graphs == UNION {[B -> SUBSET B] : B \in SUBSET BlockId}
Loops  == Kept \X SUBSET BlockId   \* a component is named by its function and its blocks

TypeOK ==
  /\ cfg \in [Kept -> [BlockId -> SUBSET BlockId]]
  /\ calleeOf \in [Block -> Func \cup {None}]
  /\ IsMap(bbCapMap, Kept \X BlockId, SUBSET Cap)
  /\ IsMap(reachablePrivFunc, Func, SUBSET Kept)
  /\ IsMap(funcCFGMap, Kept, Graphs)
  /\ running \in Loops \cup {<<>>}
  /\ unread \subseteq BlockId /\ caps \subseteq Cap
  /\ pc = "collect" => running # <<>> /\ unread \subseteq running[2]
  /\ IsMap(recorded, Loops, SUBSET Cap)
  /\ pc \in {"compress", "sccs", "collect", "done", "abort"}

\* The kept functions are those main reaches that reach a privilege themselves; every
\* block is reached from the first one, which has no predecessors.
Init ==
  /\ cfg \in [Kept -> [BlockId -> SUBSET (BlockId \ {entry})]]
  /\ \A f \in Kept : Reach(cfg[f], entry) = BlockId
  /\ calleeOf \in [Block -> Func \cup {None}]
  /\ \E D \in SUBSET (Kept \X BlockId) : bbCapMap \in [D -> SUBSET Cap]
  /\ Kept = {f \in Reach(Calls, main) : PrivReach(f) # {}}
  /\ reachablePrivFunc = [f \in Kept |-> PrivReach(f)]
  /\ funcCFGMap = EmptyTable
  /\ running = <<>> /\ unread = {} /\ caps = {}
  /\ recorded = EmptyTable
  /\ pc = "compress"

-----------------------------------------------------------------------------
CanReachPrivFunc(f) == f \in DOMAIN reachablePrivFunc

\* Faulty: a block is kept for any call.
IsKeptForCall(b)  ==
  b[2] \in {entry, end} \/ b \in DOMAIN bbCapMap \/ calleeOf[b] # None

\* Faulty: a block whose callee only leads to a privilege is removed.
IsKeptOwn(b) ==
  b[2] \in {entry, end} \/ b \in DOMAIN bbCapMap \/ calleeOf[b] \in DOMAIN funcCapMap

\* removeUnprivBB keeps the first and the last block, the blocks that lower
\* privileges and those whose callee can reach a priv-function.
IsKept(b) ==
  b[2] \in {entry, end} \/ b \in DOMAIN bbCapMap \/ CanReachPrivFunc(calleeOf[b])

\* initializeCFG and removeUnprivBB for one function; the removals leave the contracted
\* graph (PrivCFG!Contraction).
CompressFunction(f) ==
  /\ pc = "compress" /\ f \in Kept \ DOMAIN funcCFGMap
  /\ LET B == {i \in BlockId : IsKept(<<f, i>>)}
     IN  funcCFGMap' = [g \in DOMAIN funcCFGMap \cup {f} |->
           IF g = f THEN Contracted(cfg[f], B) ELSE funcCFGMap[g]]
  /\ UNCHANGED <<inputs, reachablePrivFunc, running, unread, caps, recorded, pc>>

StartSCCs ==
  /\ pc = "compress" /\ DOMAIN funcCFGMap = Kept
  /\ pc' = "sccs"
  /\ UNCHANGED <<inputs, reachablePrivFunc, funcCFGMap, running, unread, caps, recorded>>

-----------------------------------------------------------------------------
\* computeSCCs and collectSCCCaps

Unrecorded(f) == {scc \in Components(funcCFGMap[f]) : <<f, scc>> \notin DOMAIN recorded}

\* The next component, one function after the other: a new PrivCFGSCC without
\* capabilities.
StartSCC(f, scc) ==
  /\ pc = "sccs" /\ scc \in Unrecorded(f)
  /\ \A g \in Kept \ {f} : Unrecorded(g) \in {{}, Components(funcCFGMap[g])}
  /\ running' = <<f, scc>> /\ unread' = scc /\ caps' = {}
  /\ pc' = "collect"
  /\ UNCHANGED <<inputs, reachablePrivFunc, funcCFGMap, recorded>>

\* A block that lowers privileges.
CollectOwn(i) ==
  LET b == <<running[1], i>>
  IN  /\ b \in DOMAIN bbCapMap
      /\ caps' = UnionCAPArrays(caps, bbCapMap[b])
      /\ UNCHANGED <<reachablePrivFunc, pc>>

\* Faulty: reads what the callee lowers itself; a block without a call is looked up too.
CollectCalleeOwn(i) ==
  LET callee == calleeOf[<<running[1], i>>]
  IN  /\ <<running[1], i>> \notin DOMAIN bbCapMap /\ callee # None
      /\ reachablePrivFunc' = AddToTable(reachablePrivFunc, callee, {})
      /\ caps' = UnionCAPArrays(caps, UNION {funcCapMap[g] : g \in {callee} \cap DOMAIN funcCapMap})
      /\ UNCHANGED pc
CollectCalleeUnchecked(i) ==
  LET callee == calleeOf[<<running[1], i>>]
  IN  /\ <<running[1], i>> \notin DOMAIN bbCapMap
      /\ reachablePrivFunc' = AddToTable(reachablePrivFunc, callee, {})
      /\ caps' = UnionCAPArrays(caps, UNION {funcCapMap[g] : g \in reachablePrivFunc'[callee]})
      /\ UNCHANGED pc

\* A block that lowers none and calls: what the callee reaches.  operator[] gives a
\* callee without an entry an empty one.
CollectCallee(i) ==
  LET callee == calleeOf[<<running[1], i>>]
  IN  /\ <<running[1], i>> \notin DOMAIN bbCapMap /\ callee # None
      /\ reachablePrivFunc' = AddToTable(reachablePrivFunc, callee, {})
      /\ caps' = UnionCAPArrays(caps, UNION {funcCapMap[g] : g \in reachablePrivFunc'[callee]})
      /\ UNCHANGED pc

\* Faulty: the last block is forgotten.
CollectNoneEntryOnly(i) ==
  /\ <<running[1], i>> \notin DOMAIN bbCapMap /\ calleeOf[<<running[1], i>>] = None
  /\ pc' = IF i = entry THEN pc ELSE "abort"
  /\ UNCHANGED <<reachablePrivFunc, caps>>

\* Any other block has to be the first or the last.
CollectNone(i) ==
  /\ <<running[1], i>> \notin DOMAIN bbCapMap /\ calleeOf[<<running[1], i>>] = None
  /\ pc' = IF i \in {entry, end} THEN pc ELSE "abort"
  /\ UNCHANGED <<reachablePrivFunc, caps>>

\* One round of the loop of collectSCCCaps; bbs is a hash set.
CollectBlock(i) ==
  /\ pc = "collect" /\ i \in unread
  /\ CollectOwn(i) \/ CollectCallee(i) \/ CollectNone(i)
  /\ unread' = unread \ {i}
  /\ UNCHANGED <<inputs, funcCFGMap, running, recorded>>

RecordSCC ==
  /\ pc = "collect" /\ unread = {}
  /\ recorded' = AddToTable(recorded, running, caps)
  /\ pc' = "sccs"
  /\ UNCHANGED <<inputs, reachablePrivFunc, funcCFGMap, running, unread, caps>>

Finish ==
  /\ pc = "sccs" /\ \A f \in Kept : Unrecorded(f) = {}
  /\ pc' = "done"
  /\ UNCHANGED <<inputs, reachablePrivFunc, funcCFGMap, running, unread, caps, recorded>>

Terminated == pc \in {"done", "abort"} /\ UNCHANGED vars

Analyze ==
  \/ \E f \in Kept : CompressFunction(f) \/ \E scc \in SUBSET BlockId : StartSCC(f, scc)
  \/ \E i \in BlockId : CollectBlock(i)
  \/ StartSCCs \/ RecordSCC \/ Finish

Next == Analyze \/ Terminated

Spec == Init /\ [][Next]_vars

-----------------------------------------------------------------------------
\* The capabilities a run of block b may lower, in the block or below its call.
BlockCaps(b) ==
  (IF b \in DOMAIN bbCapMap THEN bbCapMap[b] ELSE {})
    \cup UNION {funcCapMap[g] : g \in IF calleeOf[b] = None THEN {} ELSE PrivReach(calleeOf[b])}

LoopCaps(f, B) == UNION {BlockCaps(<<f, i>>) : i \in B}

\* SplitBB has put every call of a defined function into a block of its own, so when
\* priv_lower is defined in the module no block lowers and calls.  When it is only
\* declared one may, and collectSCCCaps then skips the call (CompressCFG.cpp:213).
LowersApart == \A b \in DOMAIN bbCapMap : calleeOf[b] = None

\* A loop of the original graph is a component of the compressed one exactly when a
\* block of it is left, and it carries what any of its blocks, removed ones included,
\* may lower; a loop that disappears without a trace lowers nothing.
LoopsExact ==
  pc = "done" /\ LowersApart =>
    \A f \in Kept :
      LET left == DOMAIN funcCFGMap[f]
          loops == Components(cfg[f])
      IN  /\ {r \in DOMAIN recorded : r[1] = f} = {<<f, C \cap left>> : C \in loops} \ {<<f, {}>>}
          /\ \A C \in loops :
               LoopCaps(f, C) = IF C \cap left = {} THEN {} ELSE recorded[<<f, C \cap left>>]

\* The blocks left between the first and the last are those that may lower something.
BlocksExact ==
  pc = "done" => \A f \in Kept : \A i \in BlockId \ {entry, end} :
    i \in DOMAIN funcCFGMap[f] <=>
      \/ <<f, i>> \in DOMAIN bbCapMap
      \/ calleeOf[<<f, i>>] # None /\ PrivReach(calleeOf[<<f, i>>]) # {}

\* "Basic Blocks are not split as intended" (CompressCFG.cpp:222) is never reported.
SplitAsIntended == pc # "abort"

\* The insertions of operator[] change no answer of reachablePrivFunc as collectSCCCaps
\* reads it: a function without an entry and one with an empty entry both reach nothing.
\* It asks about callees only, which main reaches.
ReadsStayExact ==
  pc = "done" => \A f \in Reach(Calls, main) :
    PrivReach(f) = IF f \in DOMAIN reachablePrivFunc THEN reachablePrivFunc[f] ELSE {}
=============================================================================
