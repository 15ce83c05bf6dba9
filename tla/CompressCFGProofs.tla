-------------------------- MODULE CompressCFGProofs --------------------------
(***************************************************************************)
(* The pass CompressCFG for any program and any order of its steps, and    *)
(* the runs of the program after it.  Two facts carry the first: the       *)
(* components of a contracted graph are the parts of the components of     *)
(* the whole that are left (ContractedComponents), and a function that     *)
(* main reaches is kept exactly if it reaches a privilege, so nothing that *)
(* is removed lowers anything (RemovedIsIdle).  The second rests on two    *)
(* more: a frame is always in the span of the last block it has passed     *)
(* that is left (FrameOK), and every active call leads to the functions of *)
(* all the frames above it (StackOK).                                      *)
(***************************************************************************)
EXTENDS Execution, ReachabilityTheorems, SequenceTheorems

\* The blocks of f that are left in its compressed graph.
Left(f) ==
  {i \in BlockId : i \in {entry, end} \/ <<f, i>> \in DOMAIN bbCapMap \/ calleeOf[<<f, i>>] \in Kept}

InputInv ==
  /\ cfg \in [Kept -> [BlockId -> SUBSET BlockId]]
  /\ calleeOf \in [Block -> Func \cup {None}]
  /\ IsMap(bbCapMap, Kept \X BlockId, SUBSET Cap)
  /\ Kept = {f \in Reach(Calls, main) : PrivReach(f) # {}}

\* An entry of reachablePrivFunc is right, and where there is none nothing is reached.
\* While graphs are compressed the keys are the kept functions.
ReadInv ==
  /\ IsMap(reachablePrivFunc, Func, SUBSET Kept)
  /\ \A f \in Reach(Calls, main) :
       /\ f \in DOMAIN reachablePrivFunc => reachablePrivFunc[f] = PrivReach(f)
       /\ f \notin DOMAIN reachablePrivFunc => PrivReach(f) = {}
  /\ pc = "compress" => DOMAIN reachablePrivFunc = Kept

GraphInv ==
  /\ DOMAIN funcCFGMap \subseteq Kept
  /\ funcCFGMap = [f \in DOMAIN funcCFGMap |-> Contracted(cfg[f], Left(f))]
  /\ pc # "compress" => DOMAIN funcCFGMap = Kept

\* What is read off a block, from CompressCG's findings as they were: its own
\* capabilities if it lowers any, else those its callee reaches.
ReadCaps(b) ==
  IF b \in DOMAIN bbCapMap THEN bbCapMap[b]
  ELSE UNION {funcCapMap[g] : g \in IF calleeOf[b] = None THEN {} ELSE PrivReach(calleeOf[b])}

ReadLoop(f, B) == UNION {ReadCaps(<<f, i>>) : i \in B}

\* The component that is being recorded; what its blocks read so far come to.
RunningInv ==
  /\ running \in Loops \cup {<<>>}
  /\ unread \subseteq BlockId /\ caps \subseteq Cap
  /\ pc = "collect" =>
       /\ running \in Loops \ DOMAIN recorded
       /\ running[2] \in Components(funcCFGMap[running[1]])
       /\ unread \subseteq running[2]
       /\ caps = ReadLoop(running[1], running[2] \ unread)

RecordedInv ==
  /\ IsMap(recorded, Loops, SUBSET Cap)
  /\ \A r \in DOMAIN recorded :
       /\ r[2] \in Components(funcCFGMap[r[1]])
       /\ recorded[r] = ReadLoop(r[1], r[2])
  /\ recorded # EmptyTable => pc # "compress"
  /\ pc = "done" => \A f \in Kept : Unrecorded(f) = {}

PcInv == pc \in {"compress", "sccs", "collect", "done"}

Inv == InputInv /\ ReadInv /\ GraphInv /\ RunningInv /\ RecordedInv /\ PcInv

-----------------------------------------------------------------------------
\* Components and contraction

\* The nodes of a component that holds a cycle all lie on a cycle, and it is the
\* component of each of them.
LEMMA ComponentMember ==
  ASSUME NEW D, NEW succ \in [D -> SUBSET D], NEW C \in Components(succ), NEW u \in C
  PROVE  u \in D /\ OnCycle(succ, u) /\ SCCOf(succ, u) = C
<1>1. PICK n \in D : OnCycle(succ, n) /\ C = SCCOf(succ, n)
  BY DEF Components
<1>2. u \in D /\ u \in Reach(succ, n) /\ n \in Reach(succ, u)
  BY <1>1, ReachFacts DEF SCCOf
<1>3. Reach(succ, u) = Reach(succ, n)
  <2>1. Reach(succ, u) \subseteq Reach(succ, n)
    BY <1>2, ReachFacts
  <2>2. Reach(succ, n) \subseteq Reach(succ, u)
    BY <1>2, ReachFacts
  <2>3. QED
    BY <2>1, <2>2
<1>4. \A m \in D : u \in Reach(succ, m) <=> n \in Reach(succ, m)
  BY <1>1, <1>2, ReachFacts
<1>5. SCCOf(succ, u) = C
  <2>1. Reach(succ, n) \subseteq D
    BY <1>1, ReachFacts
  <2>2. QED
    BY <1>1, <1>3, <1>4, <2>1 DEF SCCOf
<1>6. OnCycle(succ, u)
  <2>1. CASE u = n
    BY <1>1, <2>1
  <2>2. CASE u # n
    <3>1. PICK k \in succ[u] : n \in Reach(succ, k)
      BY <1>2, <2>2, ReachFirst
    <3>2. k \in D
      BY <1>2
    <3>3. QED
      BY <1>2, <1>4, <3>1, <3>2 DEF OnCycle
  <2>3. QED
    BY <2>1, <2>2
<1>7. QED
  BY <1>2, <1>5, <1>6

LEMMA ComponentInDomain ==
  ASSUME NEW D, NEW succ \in [D -> SUBSET D], NEW C \in Components(succ)
  PROVE  C \subseteq D /\ C # {}
<1>1. PICK n \in D : C = SCCOf(succ, n)
  BY DEF Components
<1>2. n \in Reach(succ, n) /\ Reach(succ, n) \subseteq D
  BY ReachFacts
<1>3. QED
  BY <1>1, <1>2 DEF SCCOf

LEMMA ContractedSCC ==
  ASSUME NEW D, NEW succ \in [D -> SUBSET D], NEW L \in SUBSET D, NEW u \in L
  PROVE  SCCOf(Contracted(succ, L), u) = SCCOf(succ, u) \cap L
<1> DEFINE C == Contracted(succ, L)
<1>1. \A m \in L : Reach(C, m) = Reach(succ, m) \cap L
  BY ContractedReach
<1> HIDE DEF C
<1>2. SCCOf(C, u) = SCCOf(succ, u) \cap L
  BY <1>1 DEF SCCOf
<1>3. QED
  BY <1>2 DEF C

\* The components of a contracted graph are those of the whole, less what is removed,
\* as far as anything is left.
LEMMA ContractedComponents ==
  ASSUME NEW D, NEW succ \in [D -> SUBSET D], NEW L \in SUBSET D
  PROVE  Components(Contracted(succ, L)) = {C \cap L : C \in Components(succ)} \ {{}}
<1> DEFINE K == Contracted(succ, L)
<1>1. DOMAIN K = L
  BY ContractedType
<1>2. \A u \in L : OnCycle(K, u) <=> OnCycle(succ, u)
  BY ContractedCycle
<1>3. \A u \in L : SCCOf(K, u) = SCCOf(succ, u) \cap L
  BY ContractedSCC
<1> HIDE DEF K
<1>4. ASSUME NEW B \in Components(K)
      PROVE  B \in {C \cap L : C \in Components(succ)} \ {{}}
  <2>1. PICK u \in L : OnCycle(K, u) /\ B = SCCOf(K, u)
    BY <1>1 DEF Components
  <2>2. SCCOf(succ, u) \in Components(succ) /\ B = SCCOf(succ, u) \cap L
    BY <1>2, <1>3, <2>1 DEF Components
  <2>3. u \in SCCOf(succ, u)
    BY ReachFacts DEF SCCOf
  <2>4. QED
    BY <2>2, <2>3
<1>5. ASSUME NEW C \in Components(succ), NEW u \in C \cap L
      PROVE  C \cap L \in Components(K)
  <2>1. OnCycle(succ, u) /\ SCCOf(succ, u) = C
    BY ComponentMember
  <2>2. OnCycle(K, u) /\ SCCOf(K, u) = C \cap L
    BY <1>2, <1>3, <2>1
  <2>3. QED
    BY <1>1, <2>2 DEF Components
<1>6. QED
  BY <1>4, <1>5 DEF K

-----------------------------------------------------------------------------
\* The tables

LEMMA AddTyped ==
  ASSUME NEW X, NEW Y, NEW table, IsMap(table, X, SUBSET Y), NEW key \in X, NEW v \in SUBSET Y
  PROVE  /\ IsMap(AddToTable(table, key, v), X, SUBSET Y)
         /\ DOMAIN AddToTable(table, key, v) = DOMAIN table \cup {key}
         /\ \A k \in DOMAIN table : k # key => AddToTable(table, key, v)[k] = table[k]
         /\ key \in DOMAIN table => AddToTable(table, key, v)[key] = table[key] \cup v
         /\ key \notin DOMAIN table => AddToTable(table, key, v)[key] = v
BY DEF AddToTable, IsMap

LEMMA InputFacts ==
  ASSUME InputInv
  PROVE  /\ Calls \in [Func -> SUBSET Func]
         /\ DOMAIN funcCapMap \subseteq Kept
         /\ \A g \in DOMAIN funcCapMap : funcCapMap[g] \subseteq Cap
         /\ \A f : PrivReach(f) \subseteq Kept
         /\ \A f \in Kept : f \in Reach(Calls, main) /\ f \in Func
<1>1. Calls \in [Func -> SUBSET Func]
  BY DEF Calls, InputInv, Block
<1>2. \A b \in DOMAIN bbCapMap : parent(b) \in Kept /\ bbCapMap[b] \subseteq Cap
  BY DEF InputInv, IsMap, parent
<1>3. DOMAIN funcCapMap \subseteq Kept /\ \A g \in DOMAIN funcCapMap : funcCapMap[g] \subseteq Cap
  BY <1>2 DEF funcCapMap, PerFunction
<1>4. \A f : PrivReach(f) \subseteq Kept
  BY <1>3 DEF PrivReach
<1>5. QED
  BY <1>1, <1>3, <1>4, CFGAssumption DEF InputInv

\* A callee of a kept function is kept if and only if it reaches a privilege.
LEMMA CalleeFacts ==
  ASSUME InputInv, NEW f \in Kept, NEW i \in BlockId, calleeOf[<<f, i>>] # None
  PROVE  /\ calleeOf[<<f, i>>] \in Reach(Calls, main)
         /\ calleeOf[<<f, i>>] \in Func
         /\ calleeOf[<<f, i>>] \in Kept <=> PrivReach(calleeOf[<<f, i>>]) # {}
<1> DEFINE g == calleeOf[<<f, i>>]
<1>1. f \in Func /\ f \in Reach(Calls, main) /\ Calls \in [Func -> SUBSET Func]
  BY InputFacts
<1>2. <<f, i>> \in Block /\ parent(<<f, i>>) = f
  BY <1>1 DEF Block, parent
<1>3. g \in Calls[f]
  BY <1>1, <1>2 DEF Calls
<1>4. g \in Func
  BY <1>1, <1>3
<1>5. main \in Func
  BY CFGAssumption
<1>6. g \in Reach(Calls, main)
  BY <1>1, <1>3, <1>5, ReachFacts
<1>7. QED
  BY <1>4, <1>6 DEF InputInv

LEMMA StaticsSame ==
  ASSUME UNCHANGED inputs
  PROVE  /\ Calls' = Calls /\ funcCapMap' = funcCapMap
         /\ \A f : PrivReach(f)' = PrivReach(f) /\ Left(f)' = Left(f)
         /\ \A f, B : ReadLoop(f, B)' = ReadLoop(f, B)
<1>1. cfg' = cfg /\ calleeOf' = calleeOf /\ bbCapMap' = bbCapMap
  BY DEF inputs
<1>2. Calls' = Calls
  BY <1>1 DEF Calls
<1>3. funcCapMap' = funcCapMap
  BY <1>1 DEF funcCapMap
<1>4. \A f : PrivReach(f)' = PrivReach(f)
  BY <1>2, <1>3 DEF PrivReach
<1>5. \A f : Left(f)' = Left(f)
  BY <1>1 DEF Left
<1>6. \A f, B : ReadLoop(f, B)' = ReadLoop(f, B)
  <2>1. \A b : ReadCaps(b)' = ReadCaps(b)
    BY <1>1, <1>3, <1>4 DEF ReadCaps
  <2>2. QED
    BY <2>1 DEF ReadLoop
<1>7. /\ Calls' = Calls /\ funcCapMap' = funcCapMap
      /\ \A f : PrivReach(f)' = PrivReach(f) /\ Left(f)' = Left(f)
  BY <1>2, <1>3, <1>4, <1>5
<1>8. QED
  BY <1>6, <1>7

-----------------------------------------------------------------------------
\* The steps

LEMMA InitInv == Init => Inv
<1>1. SUFFICES ASSUME Init PROVE Inv
  OBVIOUS
<1>2. IsMap(bbCapMap, Kept \X BlockId, SUBSET Cap)
  BY <1>1 DEF Init, IsMap
<1>3. cfg \in [Kept -> [BlockId -> SUBSET BlockId]]
  BY <1>1 DEF Init
<1>4. InputInv
  BY <1>1, <1>2, <1>3 DEF Init, InputInv
<1>5. reachablePrivFunc = [f \in Kept |-> PrivReach(f)] /\ DOMAIN reachablePrivFunc = Kept
  BY <1>1 DEF Init
<1>6. IsMap(reachablePrivFunc, Func, SUBSET Kept)
  BY <1>4, <1>5, InputFacts, CFGAssumption DEF IsMap
<1>7. ReadInv
  BY <1>4, <1>5, <1>6 DEF ReadInv, InputInv
<1>8. DOMAIN EmptyTable = {} /\ EmptyTable = [k \in {} |-> {}]
  BY DEF EmptyTable
<1>9. GraphInv
  <2>1. funcCFGMap = EmptyTable /\ pc = "compress"
    BY <1>1 DEF Init
  <2>2. EmptyTable = [f \in {} |-> Contracted(cfg[f], Left(f))]
    BY DEF EmptyTable
  <2>3. QED
    BY <1>8, <2>1, <2>2 DEF GraphInv
<1>10. RunningInv
  BY <1>1 DEF Init, RunningInv
<1>11. RecordedInv
  <2>1. recorded = EmptyTable /\ pc = "compress"
    BY <1>1 DEF Init
  <2>2. IsMap(EmptyTable, Loops, SUBSET Cap)
    BY <1>8 DEF IsMap, EmptyTable
  <2>3. QED
    BY <1>8, <2>1, <2>2 DEF RecordedInv
<1>12. PcInv
  BY <1>1 DEF Init, PcInv
<1>13. QED
  BY <1>4, <1>7, <1>9, <1>10, <1>11, <1>12 DEF Inv

\* No action changes the inputs.
LEMMA InputStays ==
  ASSUME Inv, UNCHANGED inputs
  PROVE  InputInv'
<1>1. cfg' = cfg /\ calleeOf' = calleeOf /\ bbCapMap' = bbCapMap /\ Calls' = Calls
      /\ \A f : PrivReach(f)' = PrivReach(f)
  BY StaticsSame DEF inputs
<1>2. InputInv
  BY DEF Inv
<1>3. QED
  BY <1>1, <1>2 DEF InputInv

\* A step that leaves reachablePrivFunc alone and does not go back to compressing.
LEMMA ReadStays ==
  ASSUME Inv, UNCHANGED <<inputs, reachablePrivFunc>>, pc' = "compress" => pc = "compress"
  PROVE  ReadInv'
<1>1. Calls' = Calls /\ \A f : PrivReach(f)' = PrivReach(f)
  BY StaticsSame
<1>2. ReadInv
  BY DEF Inv
<1>3. QED
  BY <1>1, <1>2 DEF ReadInv

LEMMA GraphStays ==
  ASSUME Inv, UNCHANGED <<inputs, funcCFGMap>>, pc' # "compress" => pc # "compress"
  PROVE  GraphInv'
<1>1. cfg' = cfg /\ \A f : Left(f)' = Left(f)
  BY StaticsSame DEF inputs
<1>2. GraphInv
  BY DEF Inv
<1>3. QED
  BY <1>1, <1>2 DEF GraphInv

LEMMA RecordedStays ==
  ASSUME Inv, UNCHANGED <<inputs, funcCFGMap, recorded>>, pc # "compress", 
         pc' \notin {"compress", "done"} \/ pc = pc'
  PROVE  RecordedInv'
<1>1. \A f, B : ReadLoop(f, B)' = ReadLoop(f, B)
  BY StaticsSame
<1>2. RecordedInv
  BY DEF Inv
<1>3. IsMap(recorded, Loops, SUBSET Cap)' /\ recorded' = recorded /\ funcCFGMap' = funcCFGMap
  BY <1>2 DEF RecordedInv, IsMap, Loops
<1>4. (\A r \in DOMAIN recorded :
         /\ r[2] \in Components(funcCFGMap[r[1]])
         /\ recorded[r] = ReadLoop(r[1], r[2]))'
  BY <1>1, <1>2, <1>3 DEF RecordedInv
<1>5. (pc = "done" => \A f \in Kept : Unrecorded(f) = {})'
  BY <1>2, <1>3 DEF RecordedInv, Unrecorded
<1>6. QED
  BY <1>3, <1>4, <1>5 DEF RecordedInv

\* While graphs are compressed no component has been recorded.
LEMMA RecordedEmpty ==
  ASSUME Inv, pc = "compress", UNCHANGED recorded, pc' # "done"
  PROVE  RecordedInv'
<1>1. recorded' = EmptyTable /\ EmptyTable' = EmptyTable
  BY DEF Inv, RecordedInv, EmptyTable
<1>2. IsMap(EmptyTable, Loops, SUBSET Cap) /\ DOMAIN EmptyTable = {}
  BY DEF IsMap, EmptyTable
<1>3. QED
  BY <1>1, <1>2 DEF RecordedInv, IsMap

\* What is left of a function and its components are blocks.
LEMMA GraphFacts ==
  ASSUME Inv, NEW f \in DOMAIN funcCFGMap
  PROVE  /\ f \in Kept
         /\ Left(f) \subseteq BlockId
         /\ funcCFGMap[f] = Contracted(cfg[f], Left(f))
         /\ funcCFGMap[f] \in [Left(f) -> SUBSET Left(f)]
         /\ \A C \in Components(funcCFGMap[f]) : C \subseteq Left(f)
<1>1. f \in Kept /\ Left(f) \subseteq BlockId
  BY DEF Inv, GraphInv, Left
<1>2. funcCFGMap[f] = Contracted(cfg[f], Left(f))
  BY DEF Inv, GraphInv
<1>3. funcCFGMap[f] \in [Left(f) -> SUBSET Left(f)]
  BY <1>2, ContractedType
<1>4. \A C \in Components(funcCFGMap[f]) : C \subseteq Left(f)
  BY <1>3, ComponentInDomain
<1>5. QED
  BY <1>1, <1>2, <1>3, <1>4

LEMMA CompressStep ==
  ASSUME Inv, NEW f \in Kept, CompressFunction(f)
  PROVE  Inv'
<1> DEFINE B == {i \in BlockId : IsKept(<<f, i>>)}
<1>1. /\ pc = "compress" /\ pc' = "compress" /\ f \notin DOMAIN funcCFGMap
      /\ UNCHANGED <<inputs, reachablePrivFunc, running, unread, caps, recorded>>
      /\ funcCFGMap' = [g \in DOMAIN funcCFGMap \cup {f} |->
           IF g = f THEN Contracted(cfg[f], B) ELSE funcCFGMap[g]]
  BY DEF CompressFunction
<1>2. B = Left(f)
  <2>1. DOMAIN reachablePrivFunc = Kept
    BY <1>1 DEF Inv, ReadInv
  <2>2. \A i \in BlockId : IsKept(<<f, i>>) <=>
          i \in {entry, end} \/ <<f, i>> \in DOMAIN bbCapMap \/ calleeOf[<<f, i>>] \in Kept
    BY <2>1 DEF IsKept, CanReachPrivFunc
  <2>3. QED
    BY <2>2 DEF Left
<1> HIDE DEF B
<1>3. GraphInv'
  <2>1. DOMAIN funcCFGMap' = DOMAIN funcCFGMap \cup {f}
    BY <1>1
  <2>2. ASSUME NEW g \in DOMAIN funcCFGMap' PROVE funcCFGMap'[g] = Contracted(cfg[g], Left(g))
    BY <1>1, <1>2, <2>1, <2>2 DEF Inv, GraphInv
  <2>3. funcCFGMap' = [g \in DOMAIN funcCFGMap' |-> Contracted(cfg[g], Left(g))]
    <3>1. funcCFGMap' = [g \in DOMAIN funcCFGMap' |-> funcCFGMap'[g]]
      BY <1>1
    <3>2. QED
      BY <2>2, <3>1
  <2>4. cfg' = cfg /\ \A g : Left(g)' = Left(g)
    BY <1>1, StaticsSame DEF inputs
  <2>5. DOMAIN funcCFGMap \subseteq Kept
    BY DEF Inv, GraphInv
  <2>6. QED
    BY <1>1, <2>1, <2>3, <2>4, <2>5 DEF GraphInv
<1>4. InputInv' /\ ReadInv' /\ RecordedInv'
  BY <1>1, InputStays, ReadStays, RecordedEmpty
<1>5. RunningInv'
  BY <1>1 DEF Inv, RunningInv, Loops
<1>6. PcInv'
  BY <1>1 DEF PcInv
<1>7. QED
  BY <1>3, <1>4, <1>5, <1>6 DEF Inv

LEMMA StartStep ==
  ASSUME Inv, StartSCCs
  PROVE  Inv'
<1>1. /\ pc = "compress" /\ pc' = "sccs" /\ DOMAIN funcCFGMap = Kept
      /\ UNCHANGED <<inputs, reachablePrivFunc, funcCFGMap, running, unread, caps, recorded>>
  BY DEF StartSCCs
<1>2. InputInv' /\ ReadInv' /\ RecordedInv'
  BY <1>1, InputStays, ReadStays, RecordedEmpty
<1>3. GraphInv'
  <2>1. cfg' = cfg /\ \A g : Left(g)' = Left(g)
    BY <1>1, StaticsSame DEF inputs
  <2>2. QED
    BY <1>1, <2>1 DEF Inv, GraphInv
<1>4. RunningInv'
  BY <1>1 DEF Inv, RunningInv, Loops
<1>5. PcInv'
  BY <1>1 DEF PcInv
<1>6. QED
  BY <1>2, <1>3, <1>4, <1>5 DEF Inv

LEMMA StartSCCStep ==
  ASSUME Inv, NEW f \in Kept, NEW scc \in SUBSET BlockId, StartSCC(f, scc)
  PROVE  Inv'
<1>1. /\ pc = "sccs" /\ pc' = "collect" /\ scc \in Unrecorded(f)
      /\ UNCHANGED <<inputs, reachablePrivFunc, funcCFGMap, recorded>>
      /\ running' = <<f, scc>> /\ unread' = scc /\ caps' = {}
  BY DEF StartSCC
<1>2. InputInv' /\ ReadInv' /\ GraphInv' /\ RecordedInv'
  BY <1>1, InputStays, ReadStays, GraphStays, RecordedStays
<1>3. RunningInv'
  <2>1. <<f, scc>> \in Loops \ DOMAIN recorded /\ scc \in Components(funcCFGMap[f])
    BY <1>1 DEF Unrecorded, Loops
  <2>2. ReadLoop(f, scc \ scc)' = {}
    BY DEF ReadLoop
  <2>3. running'[1] = f /\ running'[2] = scc
    BY <1>1
  <2>4. caps' = ReadLoop(running[1], running[2] \ unread)'
    BY <1>1, <2>2, <2>3
  <2>5. QED
    BY <1>1, <2>1, <2>3, <2>4 DEF RunningInv, Loops
<1>4. PcInv'
  BY <1>1 DEF PcInv
<1>5. QED
  BY <1>2, <1>3, <1>4 DEF Inv

LEMMA FinishStep ==
  ASSUME Inv, Finish
  PROVE  Inv'
<1>1. /\ pc = "sccs" /\ pc' = "done" /\ \A f \in Kept : Unrecorded(f) = {}
      /\ UNCHANGED <<inputs, reachablePrivFunc, funcCFGMap, running, unread, caps, recorded>>
  BY DEF Finish
<1>2. InputInv' /\ ReadInv' /\ GraphInv'
  BY <1>1, InputStays, ReadStays, GraphStays
<1>3. RecordedInv'
  <2>1. \A f, B : ReadLoop(f, B)' = ReadLoop(f, B)
    BY <1>1, StaticsSame
  <2>2. RecordedInv
    BY DEF Inv
  <2>3. IsMap(recorded, Loops, SUBSET Cap)' /\ recorded' = recorded /\ funcCFGMap' = funcCFGMap
    BY <1>1, <2>2 DEF RecordedInv, IsMap, Loops
  <2>4. (\A r \in DOMAIN recorded :
           /\ r[2] \in Components(funcCFGMap[r[1]])
           /\ recorded[r] = ReadLoop(r[1], r[2]))'
    BY <2>1, <2>2, <2>3 DEF RecordedInv
  <2>5. (\A f \in Kept : Unrecorded(f) = {})'
    BY <1>1, <2>3 DEF Unrecorded
  <2>6. QED
    BY <1>1, <2>3, <2>4, <2>5 DEF RecordedInv
<1>4. RunningInv'
  BY <1>1 DEF Inv, RunningInv, Loops
<1>5. PcInv'
  BY <1>1 DEF PcInv
<1>6. QED
  BY <1>2, <1>3, <1>4, <1>5 DEF Inv

\* Where collectSCCCaps is.
LEMMA CollectFacts ==
  ASSUME Inv, pc = "collect", NEW i \in unread
  PROVE  /\ running[1] \in Kept /\ i \in BlockId /\ i \in Left(running[1])
         /\ i \in running[2]
         /\ <<running[1], i>> \in Kept \X BlockId
<1>1. running \in Loops /\ i \in running[2] /\ running[2] \in Components(funcCFGMap[running[1]])
  BY DEF Inv, RunningInv
<1>2. running[1] \in Kept /\ DOMAIN funcCFGMap = Kept
  BY <1>1 DEF Loops, Inv, GraphInv
<1>3. i \in Left(running[1]) /\ Left(running[1]) \subseteq BlockId
  BY <1>1, <1>2, GraphFacts
<1>4. QED
  BY <1>1, <1>2, <1>3

\* What one round adds: what is read off its block.
RoundAdds(i) ==
  /\ caps' \subseteq Cap
  /\ caps' = caps \cup ReadCaps(<<running[1], i>>)
  /\ pc' = "collect"
  /\ ReadInv'

LEMMA OwnRound ==
  ASSUME Inv, pc = "collect", NEW i \in unread, CollectOwn(i), UNCHANGED inputs
  PROVE  RoundAdds(i)
<1> DEFINE b == <<running[1], i>>
<1>1. b \in DOMAIN bbCapMap /\ caps' = caps \cup bbCapMap[b] /\ pc' = pc
      /\ reachablePrivFunc' = reachablePrivFunc
  BY DEF CollectOwn, UnionCAPArrays
<1>2. caps' \subseteq Cap
  BY <1>1 DEF Inv, InputInv, RunningInv, IsMap
<1>3. ReadCaps(b) = bbCapMap[b]
  BY <1>1 DEF ReadCaps
<1>4. ReadInv'
  BY <1>1, ReadStays
<1>5. QED
  BY <1>1, <1>2, <1>3, <1>4 DEF RoundAdds

LEMMA NoneRound ==
  ASSUME Inv, pc = "collect", NEW i \in unread, CollectNone(i), UNCHANGED inputs
  PROVE  RoundAdds(i)
<1> DEFINE b == <<running[1], i>>
<1>1. /\ b \notin DOMAIN bbCapMap /\ calleeOf[b] = None
      /\ pc' = IF i \in {entry, end} THEN pc ELSE "abort"
      /\ caps' = caps /\ reachablePrivFunc' = reachablePrivFunc
  BY DEF CollectNone
<1>2. i \in {entry, end}
  <2>1. None \notin Kept
    BY CFGAssumption
  <2>2. i \in Left(running[1])
    BY CollectFacts
  <2>3. QED
    BY <1>1, <2>1, <2>2 DEF Left
<1>3. ReadCaps(b) = {}
  BY <1>1 DEF ReadCaps
<1>4. ReadInv'
  BY <1>1, <1>2, ReadStays
<1>5. QED
  BY <1>1, <1>2, <1>3, <1>4 DEF RoundAdds, Inv, RunningInv

LEMMA CalleeRound ==
  ASSUME Inv, pc = "collect", NEW i \in unread, CollectCallee(i), UNCHANGED inputs
  PROVE  RoundAdds(i)
<1> DEFINE b == <<running[1], i>>
           g == calleeOf[<<running[1], i>>]
           new == AddToTable(reachablePrivFunc, g, {})
<1>1. /\ b \notin DOMAIN bbCapMap /\ g # None
      /\ reachablePrivFunc' = new /\ pc' = pc
      /\ caps' = caps \cup UNION {funcCapMap[h] : h \in new[g]}
  BY DEF CollectCallee, UnionCAPArrays
<1>2. InputInv /\ ReadInv /\ caps \subseteq Cap
  BY DEF Inv, RunningInv
<1>3. g \in Func /\ g \in Reach(Calls, main)
  BY <1>1, <1>2, CollectFacts, CalleeFacts
<1>4. /\ IsMap(new, Func, SUBSET Kept)
      /\ DOMAIN new = DOMAIN reachablePrivFunc \cup {g}
      /\ \A k \in DOMAIN reachablePrivFunc : k # g => new[k] = reachablePrivFunc[k]
      /\ g \in DOMAIN reachablePrivFunc => new[g] = reachablePrivFunc[g] \cup {}
      /\ g \notin DOMAIN reachablePrivFunc => new[g] = {}
  <2>1. IsMap(reachablePrivFunc, Func, SUBSET Kept) /\ {} \in SUBSET Kept
    BY <1>2 DEF ReadInv
  <2> HIDE DEF g
  <2>2. QED
    BY <1>3, <2>1, AddTyped
<1> HIDE DEF g, new
<1>5. new[g] = PrivReach(g)
  BY <1>2, <1>3, <1>4 DEF ReadInv
<1>6. ReadInv'
  <2>1. Calls' = Calls /\ \A f : PrivReach(f)' = PrivReach(f)
    BY StaticsSame
  <2>2. ASSUME NEW f \in Reach(Calls, main)
        PROVE  /\ f \in DOMAIN new => new[f] = PrivReach(f)
               /\ f \notin DOMAIN new => PrivReach(f) = {}
    BY <1>2, <1>4, <1>5 DEF ReadInv
  <2>3. pc' # "compress"
    BY <1>1
  <2>4. QED
    BY <1>1, <1>4, <2>1, <2>2, <2>3 DEF ReadInv
<1>7. ReadCaps(b) = UNION {funcCapMap[h] : h \in PrivReach(g)}
  BY <1>1 DEF ReadCaps, g
<1>8. UNION {funcCapMap[h] : h \in PrivReach(g)} \subseteq Cap
  <2>1. PrivReach(g) \subseteq DOMAIN funcCapMap
    BY DEF PrivReach
  <2>2. QED
    BY <1>2, <2>1, InputFacts
<1>9. QED
  BY <1>1, <1>2, <1>5, <1>6, <1>7, <1>8 DEF RoundAdds

LEMMA BlockStep ==
  ASSUME Inv, NEW i \in BlockId, CollectBlock(i)
  PROVE  Inv'
<1>1. /\ pc = "collect" /\ i \in unread /\ unread' = unread \ {i}
      /\ UNCHANGED <<inputs, funcCFGMap, running, recorded>>
      /\ CollectOwn(i) \/ CollectCallee(i) \/ CollectNone(i)
  BY DEF CollectBlock
<1>2. RoundAdds(i)
  BY <1>1, OwnRound, CalleeRound, NoneRound
<1>3. pc' = "collect" /\ ReadInv' /\ caps' \subseteq Cap
  BY <1>2 DEF RoundAdds
<1>4. InputInv' /\ GraphInv' /\ RecordedInv'
  BY <1>1, <1>3, InputStays, GraphStays, RecordedStays
<1>5. RunningInv'
  <2>1. /\ running \in Loops \ DOMAIN recorded
        /\ running[2] \in Components(funcCFGMap[running[1]])
        /\ unread \subseteq running[2] /\ unread \subseteq BlockId
        /\ caps = ReadLoop(running[1], running[2] \ unread)
    BY <1>1 DEF Inv, RunningInv
  <2>2. \A f, B : ReadLoop(f, B)' = ReadLoop(f, B)
    BY <1>1, StaticsSame
  <2> DEFINE X == running[2] \ unread
  <2>3. running[2] \ (unread \ {i}) = X \cup {i}
    BY <1>1, <2>1
  <2>4. ReadLoop(running[1], X \cup {i}) = ReadLoop(running[1], X) \cup ReadCaps(<<running[1], i>>)
    <3> HIDE DEF X
    <3>1. QED
      BY DEF ReadLoop
  <2> HIDE DEF X
  <2>5. caps' = ReadLoop(running[1], running[2] \ (unread \ {i}))
    BY <1>2, <2>1, <2>3, <2>4 DEF RoundAdds, X
  <2>6. (caps = ReadLoop(running[1], running[2] \ unread))'
    <3>1. ReadLoop(running[1], running[2] \ unread)' = ReadLoop(running[1], running[2] \ (unread \ {i}))
      BY <1>1, <2>2 DEF ReadLoop, ReadCaps, inputs, funcCapMap, PrivReach, Calls
    <3>2. QED
      BY <2>2, <2>5, <3>1
  <2>7. QED
    BY <1>1, <1>3, <2>1, <2>6 DEF RunningInv, Loops
<1>6. PcInv'
  BY <1>3 DEF PcInv
<1>7. QED
  BY <1>3, <1>4, <1>5, <1>6 DEF Inv

LEMMA RecordStep ==
  ASSUME Inv, RecordSCC
  PROVE  Inv'
<1>1. /\ pc = "collect" /\ unread = {} /\ pc' = "sccs"
      /\ recorded' = AddToTable(recorded, running, caps)
      /\ UNCHANGED <<inputs, reachablePrivFunc, funcCFGMap, running, unread, caps>>
  BY DEF RecordSCC
<1>2. InputInv' /\ ReadInv' /\ GraphInv'
  BY <1>1, InputStays, ReadStays, GraphStays
<1>3. RecordedInv'
  <2>1. /\ running \in Loops /\ running \notin DOMAIN recorded /\ caps \in SUBSET Cap
        /\ running[2] \in Components(funcCFGMap[running[1]])
        /\ caps = ReadLoop(running[1], running[2])
    <3>1. running[2] \ unread = running[2]
      BY <1>1
    <3>2. QED
      BY <1>1, <3>1 DEF Inv, RunningInv
  <2>2. RecordedInv
    BY DEF Inv
  <2>3. /\ IsMap(recorded', Loops, SUBSET Cap)
        /\ DOMAIN recorded' = DOMAIN recorded \cup {running}
        /\ \A k \in DOMAIN recorded : k # running => recorded'[k] = recorded[k]
        /\ recorded'[running] = caps
    <3> DEFINE new == AddToTable(recorded, running, caps)
    <3>1. IsMap(recorded, Loops, SUBSET Cap)
      BY <2>2 DEF RecordedInv
    <3>2. /\ IsMap(new, Loops, SUBSET Cap)
          /\ DOMAIN new = DOMAIN recorded \cup {running}
          /\ \A k \in DOMAIN recorded : k # running => new[k] = recorded[k]
          /\ running \notin DOMAIN recorded => new[running] = caps
      BY <2>1, <3>1 DEF AddToTable, IsMap
    <3> HIDE DEF new
    <3>3. recorded' = new
      BY <1>1 DEF new
    <3>4. QED
      BY <2>1, <3>2, <3>3
  <2>4. \A f, B : ReadLoop(f, B)' = ReadLoop(f, B)
    BY <1>1, StaticsSame
  <2>5. ASSUME NEW r \in DOMAIN recorded'
        PROVE  /\ r[2] \in Components(funcCFGMap[r[1]])
               /\ recorded'[r] = ReadLoop(r[1], r[2])
    <3>1. CASE r = running
      BY <2>1, <2>3, <3>1
    <3>2. CASE r # running
      BY <2>2, <2>3, <2>5, <3>2 DEF RecordedInv
    <3>3. QED
      BY <3>1, <3>2
  <2>6. (\A r \in DOMAIN recorded :
           /\ r[2] \in Components(funcCFGMap[r[1]])
           /\ recorded[r] = ReadLoop(r[1], r[2]))'
    BY <1>1, <2>4, <2>5
  <2>7. IsMap(recorded, Loops, SUBSET Cap)'
    BY <2>3 DEF IsMap, Loops
  <2>8. QED
    BY <1>1, <2>6, <2>7 DEF RecordedInv
<1>4. RunningInv'
  BY <1>1 DEF Inv, RunningInv, Loops
<1>5. PcInv'
  BY <1>1 DEF PcInv
<1>6. QED
  BY <1>2, <1>3, <1>4, <1>5 DEF Inv

LEMMA StopStep ==
  ASSUME Inv, UNCHANGED vars
  PROVE  Inv'
<1>1. UNCHANGED <<inputs, reachablePrivFunc, funcCFGMap, running, unread, caps, recorded, pc>>
  BY DEF vars
<1>2. InputInv' /\ ReadInv' /\ GraphInv'
  BY <1>1, InputStays, ReadStays, GraphStays
<1>3. RecordedInv'
  BY <1>1, RecordedStays, RecordedEmpty
<1>4. RunningInv'
  <2>1. ReadLoop(running[1], running[2] \ unread)' = ReadLoop(running[1], running[2] \ unread)
    BY <1>1 DEF ReadLoop, ReadCaps, inputs, funcCapMap, PrivReach, Calls
  <2>2. QED
    BY <1>1, <2>1 DEF Inv, RunningInv, Loops
<1>5. PcInv'
  BY <1>1 DEF Inv, PcInv
<1>6. QED
  BY <1>2, <1>3, <1>4, <1>5 DEF Inv

LEMMA StepInv == Inv /\ [Next]_vars => Inv'
<1>1. SUFFICES ASSUME Inv, [Next]_vars PROVE Inv'
  OBVIOUS
<1>2. CASE \E f \in Kept : CompressFunction(f) \/ \E scc \in SUBSET BlockId : StartSCC(f, scc)
  BY <1>1, <1>2, CompressStep, StartSCCStep
<1>3. CASE \E i \in BlockId : CollectBlock(i)
  BY <1>1, <1>3, BlockStep
<1>4. CASE StartSCCs \/ RecordSCC \/ Finish
  BY <1>1, <1>4, StartStep, RecordStep, FinishStep
<1>5. CASE Terminated \/ UNCHANGED vars
  BY <1>1, <1>5, StopStep DEF Terminated
<1>6. QED
  BY <1>1, <1>2, <1>3, <1>4, <1>5 DEF Next, Analyze

\* Inv is inductive.
THEOREM Invariance == Spec => []Inv
BY InitInv, StepInv, PTL DEF Spec

-----------------------------------------------------------------------------
LEMMA InvType == Inv => TypeOK
<1>1. SUFFICES ASSUME Inv PROVE TypeOK
  OBVIOUS
<1>2. DOMAIN funcCFGMap \subseteq Kept
  BY <1>1 DEF Inv, GraphInv
<1>3. \A f \in DOMAIN funcCFGMap : funcCFGMap[f] \in Graphs
  <2>1. TAKE f \in DOMAIN funcCFGMap
  <2>2. Left(f) \in SUBSET BlockId /\ funcCFGMap[f] \in [Left(f) -> SUBSET Left(f)]
    BY <1>1, GraphFacts
  <2>3. QED
    BY <2>2 DEF Graphs
<1>4. funcCFGMap = [f \in DOMAIN funcCFGMap |-> funcCFGMap[f]]
  BY <1>1 DEF Inv, GraphInv
<1>5. IsMap(funcCFGMap, Kept, Graphs)
  BY <1>2, <1>3, <1>4 DEF IsMap
<1>6. pc = "collect" => running # <<>> /\ unread \subseteq running[2]
  <2>1. SUFFICES ASSUME pc = "collect" PROVE running # <<>> /\ unread \subseteq running[2]
    OBVIOUS
  <2>2. running \in Kept \X SUBSET BlockId /\ unread \subseteq running[2]
    BY <1>1, <2>1 DEF Inv, RunningInv, Loops
  <2>3. QED
    BY <2>2
<1>7. QED
  BY <1>1, <1>5, <1>6 DEF Inv, InputInv, ReadInv, RunningInv, RecordedInv, PcInv, TypeOK

\* The variables keep their types: a graph only has links between its own blocks, and
\* the assertion of collectSCCCaps does not stop the pass.
THEOREM TypeCorrect == Spec => []TypeOK
BY InvType, Invariance, PTL

\* "Basic Blocks are not split as intended" is never reported, whatever the program.
THEOREM SplitCorrect == Spec => []SplitAsIntended
<1>1. Inv => SplitAsIntended
  BY DEF Inv, PcInv, SplitAsIntended
<1>2. QED
  BY <1>1, Invariance, PTL

\* The insertions into reachablePrivFunc change no answer the pass gets from it.
THEOREM ReadsCorrect == Spec => []ReadsStayExact
<1>1. Inv => ReadsStayExact
  BY DEF Inv, ReadInv, ReadsStayExact
<1>2. QED
  BY <1>1, Invariance, PTL

\* Between the first and the last block exactly those are left that may lower something.
THEOREM BlocksCorrect == Spec => []BlocksExact
<1>1. Inv => BlocksExact
  <2>1. SUFFICES ASSUME Inv, pc = "done", NEW f \in Kept, NEW i \in BlockId \ {entry, end}
                 PROVE  i \in DOMAIN funcCFGMap[f] <=>
                          \/ <<f, i>> \in DOMAIN bbCapMap
                          \/ calleeOf[<<f, i>>] # None /\ PrivReach(calleeOf[<<f, i>>]) # {}
    BY DEF BlocksExact
  <2>2. f \in DOMAIN funcCFGMap
    BY <2>1 DEF Inv, GraphInv
  <2>3. DOMAIN funcCFGMap[f] = Left(f)
    BY <2>1, <2>2, GraphFacts
  <2>4. calleeOf[<<f, i>>] \in Kept <=>
          calleeOf[<<f, i>>] # None /\ PrivReach(calleeOf[<<f, i>>]) # {}
    <3>1. None \notin Kept /\ InputInv
      BY <2>1, CFGAssumption DEF Inv
    <3>2. QED
      BY <2>1, <3>1, CalleeFacts
  <2>5. QED
    BY <2>1, <2>3, <2>4 DEF Left
<1>2. QED
  BY <1>1, Invariance, PTL

\* A block that is removed lowers nothing, and neither does its callee.
LEMMA RemovedIsIdle ==
  ASSUME Inv, NEW f \in Kept, NEW i \in BlockId \ Left(f)
  PROVE  BlockCaps(<<f, i>>) = {}
<1>1. <<f, i>> \notin DOMAIN bbCapMap /\ calleeOf[<<f, i>>] \notin Kept
  BY DEF Left
<1>2. calleeOf[<<f, i>>] # None => PrivReach(calleeOf[<<f, i>>]) = {}
  BY <1>1, CalleeFacts DEF Inv
<1>3. QED
  BY <1>1, <1>2 DEF BlockCaps

\* When no block lowers and calls, all of a block is read.
LEMMA ApartReadAll ==
  ASSUME LowersApart
  PROVE  \A f, B : ReadLoop(f, B) = LoopCaps(f, B)
<1>1. \A b : ReadCaps(b) = BlockCaps(b)
  BY DEF LowersApart, ReadCaps, BlockCaps
<1>2. QED
  BY <1>1 DEF ReadLoop, LoopCaps

\* The loops recorded are those of the whole function as far as they have a block left,
\* with all that any of their blocks may lower; the other loops lower nothing.
THEOREM LoopsCorrect == Spec => []LoopsExact
<1>1. Inv => LoopsExact
  <2>1. SUFFICES ASSUME Inv, pc = "done", LowersApart, NEW f \in Kept
                 PROVE  LET left  == DOMAIN funcCFGMap[f]
                            loops == Components(cfg[f])
                        IN  /\ {r \in DOMAIN recorded : r[1] = f} =
                                 {<<f, C \cap left>> : C \in loops} \ {<<f, {}>>}
                            /\ \A C \in loops :
                                 LoopCaps(f, C) = IF C \cap left = {} THEN {}
                                                  ELSE recorded[<<f, C \cap left>>]
    BY DEF LoopsExact
  <2> DEFINE left  == Left(f)
             loops == Components(cfg[f])
             parts == {C \cap left : C \in loops} \ {{}}
  <2>2. f \in DOMAIN funcCFGMap
    BY <2>1 DEF Inv, GraphInv
  <2>3. /\ funcCFGMap[f] = Contracted(cfg[f], left) /\ DOMAIN funcCFGMap[f] = left
        /\ left \in SUBSET BlockId
    BY <2>1, <2>2, GraphFacts
  <2>4. cfg[f] \in [BlockId -> SUBSET BlockId]
    BY <2>1 DEF Inv, InputInv
  <2>5. Components(funcCFGMap[f]) = parts
    BY <2>3, <2>4, ContractedComponents
  <2>6. \A C \in loops : C \subseteq BlockId
    BY <2>4, ComponentInDomain
  <2>7. \A B \in parts : <<f, B>> \in DOMAIN recorded
    BY <2>1, <2>5 DEF Inv, RecordedInv, Unrecorded
  <2>8. \A r \in DOMAIN recorded : r \in Kept \X SUBSET BlockId
    BY <2>1 DEF Inv, RecordedInv, IsMap, Loops
  <2>9. \A r \in DOMAIN recorded : r[1] = f => r = <<f, r[2]>> /\ r[2] \in parts
    BY <2>1, <2>5, <2>8 DEF Inv, RecordedInv
  <2>10. {r \in DOMAIN recorded : r[1] = f} = {<<f, C \cap left>> : C \in loops} \ {<<f, {}>>}
    BY <2>7, <2>9
  <2>11. ASSUME NEW C \in loops PROVE LoopCaps(f, C) = LoopCaps(f, C \cap left)
    <3>1. \A i \in C : i \notin left => BlockCaps(<<f, i>>) = {}
      BY <2>1, <2>6, <2>11, RemovedIsIdle
    <3>2. QED
      BY <3>1 DEF LoopCaps
  <2>12. ASSUME NEW C \in loops, C \cap left # {}
         PROVE  recorded[<<f, C \cap left>>] = LoopCaps(f, C \cap left)
    <3>1. <<f, C \cap left>> \in DOMAIN recorded
      BY <2>7, <2>12
    <3>2. recorded[<<f, C \cap left>>] = ReadLoop(f, C \cap left)
      BY <2>1, <3>1 DEF Inv, RecordedInv
    <3>3. QED
      BY <2>1, <3>2, ApartReadAll
  <2>13. LoopCaps(f, {}) = {}
    BY DEF LoopCaps
  <2>14. \A C \in loops :
           LoopCaps(f, C) = IF C \cap left = {} THEN {} ELSE recorded[<<f, C \cap left>>]
    BY <2>11, <2>12, <2>13
  <2>15. QED
    BY <2>3, <2>10, <2>14
<1>2. QED
  BY <1>1, Invariance, PTL

-----------------------------------------------------------------------------
\* Runs of the analyzed program

\* A frame has last passed a block that is left, and since then only removed ones.
FrameOK(fr) ==
  /\ fr.at \in Left(fr.func)
  /\ fr.bb \in Span(cfg[fr.func], Left(fr.func), fr.at)

\* The call the frame is in, or about to make.
CalleeOf(fr) == calleeOf[<<fr.func, fr.bb>>]

\* The stack: every frame is below a call that leads to the frames above it.
StackOK(s) ==
  /\ s \in Seq(Frames) /\ Len(s) <= MaxFrames
  /\ \A k \in 1 .. Len(s) : FrameOK(s[k])
  /\ \A j, k \in 1 .. Len(s) : j < k =>
       CalleeOf(s[j]) # None /\ s[k].func \in Reach(Calls, CalleeOf(s[j]))

RunInv ==
  /\ StackOK(stack)
  /\ phase \in {"analysis", "run", "exit"}
  /\ phase = "analysis" => stack = <<>>
  /\ phase # "analysis" => pc = "done"

LEMMA ReplaceTop ==
  ASSUME stack \in Seq(Frames), stack # <<>>, NEW fr \in Frames
  PROVE  /\ Advance(fr) \in Seq(Frames) /\ Len(Advance(fr)) = Len(stack)
         /\ Len(stack) \in Nat /\ Len(stack) >= 1
         /\ Advance(fr)[Len(stack)] = fr
         /\ \A k \in 1 .. Len(stack) : k # Len(stack) => Advance(fr)[k] = stack[k]
<1>1. Len(stack) \in Nat /\ Len(stack) >= 1
  OBVIOUS
<1>2. QED
  BY <1>1 DEF Advance

LEMMA TopFacts ==
  ASSUME Inv, RunInv, stack # <<>>, phase # "analysis"
  PROVE  /\ Len(stack) \in 1 .. Len(stack) /\ Len(stack) \in Nat
         /\ Top \in Frames /\ FrameOK(Top)
         /\ Top.func \in Kept /\ Top.bb \in BlockId /\ Top.at \in BlockId
         /\ DOMAIN funcCFGMap = Kept
         /\ DOMAIN funcCFGMap[Top.func] = Left(Top.func)
<1>1. Len(stack) \in Nat /\ Len(stack) >= 1 /\ Len(stack) \in 1 .. Len(stack)
  BY DEF RunInv, StackOK
<1>2. Top \in Frames /\ FrameOK(Top)
  BY <1>1 DEF RunInv, StackOK, Top
<1>3. Top.func \in Kept /\ Top.bb \in BlockId /\ Top.at \in BlockId
  BY <1>2 DEF Frames
<1>4. DOMAIN funcCFGMap = Kept
  BY DEF RunInv, Inv, GraphInv
<1>5. DOMAIN funcCFGMap[Top.func] = Left(Top.func)
  BY <1>3, <1>4, GraphFacts
<1>6. QED
  BY <1>1, <1>2, <1>3, <1>4, <1>5

\* A block a frame is in is left only if it is the last one it has passed that is.
LEMMA FrameBlock ==
  ASSUME Inv, NEW fr \in Frames, FrameOK(fr)
  PROVE  /\ fr.bb \in Left(fr.func) => fr.bb = fr.at
         /\ cfg[fr.func] \in [BlockId -> SUBSET BlockId]
         /\ Left(fr.func) \in SUBSET BlockId
<1>1. fr.func \in Kept
  BY DEF Frames
<1>2. cfg[fr.func] \in [BlockId -> SUBSET BlockId]
  BY <1>1 DEF Inv, InputInv
<1>3. Left(fr.func) \in SUBSET BlockId
  BY DEF Left
<1>4. fr.at \in Left(fr.func) /\ fr.bb \in Span(cfg[fr.func], Left(fr.func), fr.at)
  BY DEF FrameOK
<1>5. QED
  BY <1>2, <1>3, <1>4, SpanFacts

-----------------------------------------------------------------------------
\* The capabilities read off the tables

\* What a callee is listed with: what a kept one reaches, and of any no more than its
\* caller reaches.
LEMMA CalleeCapsFacts ==
  ASSUME Inv, NEW f \in Kept, NEW i \in BlockId
  PROVE  /\ CalleeCaps(<<f, i>>) \subseteq UNION {funcCapMap[h] : h \in PrivReach(f)}
         /\ calleeOf[<<f, i>>] # None =>
              CalleeCaps(<<f, i>>) = UNION {funcCapMap[h] : h \in PrivReach(calleeOf[<<f, i>>])}
<1> DEFINE b == <<f, i>>
           g == calleeOf[<<f, i>>]
           below == UNION {reachablePrivFunc[h] : h \in {g} \cap DOMAIN reachablePrivFunc}
<1>1. InputInv /\ ReadInv
  BY DEF Inv
<1>2. f \in Func /\ Calls \in [Func -> SUBSET Func]
  BY <1>1, InputFacts
<1>3. parent(b) = f /\ b \in Block
  BY <1>2 DEF parent, Block
<1>4. g # None => PrivReach(g) \subseteq PrivReach(f) /\ below = PrivReach(g)
  <2>1. SUFFICES ASSUME g # None
                 PROVE  PrivReach(g) \subseteq PrivReach(f) /\ below = PrivReach(g)
    OBVIOUS
  <2>2. g \in Reach(Calls, main)
    BY <1>1, <2>1, CalleeFacts
  <2>3. g \in Calls[f]
    BY <1>1, <1>2, <1>3, <2>1 DEF Calls
  <2>4. Reach(Calls, g) \subseteq Reach(Calls, f)
    BY <1>2, <2>3, ReachFacts
  <2>5. PrivReach(g) \subseteq PrivReach(f)
    BY <2>4 DEF PrivReach
  <2>6. /\ g \in DOMAIN reachablePrivFunc => reachablePrivFunc[g] = PrivReach(g)
        /\ g \notin DOMAIN reachablePrivFunc => PrivReach(g) = {}
    BY <1>1, <2>2 DEF ReadInv
  <2>7. QED
    BY <2>5, <2>6
<1>5. g = None => below = {}
  BY <1>1, CFGAssumption DEF ReadInv, IsMap
<1>6. CalleeCaps(b) = UNION {funcCapMap[h] : h \in below}
  BY DEF CalleeCaps
<1> HIDE DEF below, b, g
<1>7. CalleeCaps(b) \subseteq UNION {funcCapMap[h] : h \in PrivReach(f)}
  BY <1>4, <1>5, <1>6
<1>8. g # None => CalleeCaps(b) = UNION {funcCapMap[h] : h \in PrivReach(g)}
  BY <1>4, <1>6
<1>9. QED
  BY <1>7, <1>8 DEF b, g

\* A block is listed with no more than its function reaches, and its record reads the same.
LEMMA CapsReadFacts ==
  ASSUME Inv, NEW f \in Kept, NEW i \in BlockId
  PROVE  /\ CapsRead(<<f, i>>) \subseteq UNION {funcCapMap[h] : h \in PrivReach(f)}
         /\ CapsRead(<<f, i>>) = ReadCaps(<<f, i>>)
<1> DEFINE b == <<f, i>>
<1>1. f \in Func /\ parent(b) = f
  BY InputFacts DEF parent, Inv
<1>2. CASE b \in DOMAIN bbCapMap
  <2>1. CapsRead(b) = bbCapMap[b] /\ ReadCaps(b) = bbCapMap[b]
    BY <1>2 DEF CapsRead, ReadCaps
  <2>2. f \in DOMAIN funcCapMap /\ bbCapMap[b] \subseteq funcCapMap[f]
    BY <1>1, <1>2 DEF funcCapMap, PerFunction
  <2>3. f \in Reach(Calls, f)
    BY <1>1, InputFacts, ReachFacts DEF Inv
  <2>4. f \in PrivReach(f)
    BY <2>2, <2>3 DEF PrivReach
  <2>5. QED
    BY <2>1, <2>2, <2>4
<1>3. CASE b \notin DOMAIN bbCapMap
  <2>1. CapsRead(b) = CalleeCaps(b)
    BY <1>3 DEF CapsRead
  <2>2. CASE calleeOf[b] # None
    <3>1. ReadCaps(b) = UNION {funcCapMap[h] : h \in PrivReach(calleeOf[b])}
      BY <1>3, <2>2 DEF ReadCaps
    <3>2. QED
      BY <2>1, <2>2, <3>1, CalleeCapsFacts
  <2>3. CASE calleeOf[b] = None
    <3>1. ReadCaps(b) = {}
      BY <1>3, <2>3 DEF ReadCaps
    <3>2. None \notin DOMAIN reachablePrivFunc
      BY CFGAssumption DEF Inv, ReadInv, IsMap
    <3>3. CalleeCaps(b) = {}
      BY <2>3, <3>2 DEF CalleeCaps
    <3>4. QED
      BY <2>1, <3>1, <3>3
  <2>4. QED
    BY <2>2, <2>3
<1>4. QED
  BY <1>2, <1>3

\* A frame that has made its call adds no more than before: if its block lowers, that is
\* all that was read off it.
LEMMA CallShare ==
  ASSUME Inv, NEW fr \in Frames, FrameOK(fr), fr.next = "call"
  PROVE  Share([fr EXCEPT !.next = "lower"]) \subseteq Share(fr)
<1> DEFINE new == [fr EXCEPT !.next = "lower"]
           b == <<fr.func, fr.bb>>
<1>1. new.func = fr.func /\ new.bb = fr.bb /\ new.at = fr.at /\ new.next = "lower"
  BY DEF Frames
<1> HIDE DEF new
<1>2. Ahead(new) = Ahead(fr)
  BY <1>1 DEF Ahead
<1>3. Rest(new) \subseteq Rest(fr)
  <2>1. CASE b \in DOMAIN bbCapMap
    <3>1. fr.bb \in Left(fr.func)
      BY <2>1 DEF Left, Frames
    <3>2. fr.bb = fr.at
      BY <3>1, FrameBlock
    <3>3. Rest(fr) = CapsRead(b) /\ CapsRead(b) = bbCapMap[b]
      BY <2>1, <3>2 DEF Rest, CapsRead
    <3>4. Rest(new) = bbCapMap[b]
      BY <1>1, <2>1 DEF Rest
    <3>5. QED
      BY <3>3, <3>4
  <2>2. CASE b \notin DOMAIN bbCapMap
    <3>1. Rest(new) = {}
      BY <1>1, <2>2 DEF Rest
    <3>2. QED
      BY <3>1
  <2>3. QED
    BY <2>1, <2>2
<1>4. Share(new) \subseteq Share(fr)
  BY <1>1, <1>2, <1>3 DEF Share
<1>5. QED
  BY <1>4 DEF new

\* Nor does one that has lowered what its block lowers.
LEMMA LowerShare ==
  ASSUME NEW fr \in Frames, fr.next = "lower"
  PROVE  Share([fr EXCEPT !.next = "branch"]) \subseteq Share(fr)
<1> DEFINE new == [fr EXCEPT !.next = "branch"]
<1>1. new.func = fr.func /\ new.bb = fr.bb /\ new.at = fr.at /\ new.next = "branch"
  BY DEF Frames
<1> HIDE DEF new
<1>2. Ahead(new) = Ahead(fr) /\ Rest(new) = {}
  BY <1>1 DEF Ahead, Rest
<1>3. Share(new) \subseteq Share(fr)
  BY <1>1, <1>2 DEF Share
<1>4. QED
  BY <1>3 DEF new

\* What a frame has ahead is left in the graph of its function.
LEMMA AheadLeft ==
  ASSUME Inv, pc = "done", NEW fr \in Frames, FrameOK(fr)
  PROVE  /\ Ahead(fr) \subseteq Left(fr.func)
         /\ \A i \in funcCFGMap[fr.func][fr.at] : i \in Left(fr.func)
         /\ funcCFGMap[fr.func] \in [Left(fr.func) -> SUBSET Left(fr.func)]
<1>1. fr.func \in DOMAIN funcCFGMap /\ fr.at \in Left(fr.func)
  BY DEF Inv, GraphInv, Frames, FrameOK
<1>2. funcCFGMap[fr.func] \in [Left(fr.func) -> SUBSET Left(fr.func)]
  BY <1>1, GraphFacts
<1>3. \A i \in funcCFGMap[fr.func][fr.at] :
        i \in Left(fr.func) /\ Reach(funcCFGMap[fr.func], i) \subseteq Left(fr.func)
  BY <1>1, <1>2, ReachFacts
<1>4. QED
  BY <1>1, <1>2, <1>3 DEF Ahead

\* The frame of a kept callee adds nothing that its call was not listed with, or, if the
\* block of the call lowers, what is listed for the callee.
LEMMA EntryShare ==
  ASSUME Inv, pc = "done", NEW fr \in Frames, FrameOK(fr), fr.next = "call",
         CalleeOf(fr) \in Kept
  PROVE  /\ Frame(CalleeOf(fr), entry, entry) \in Frames
         /\ FrameOK(Frame(CalleeOf(fr), entry, entry))
         /\ Share(Frame(CalleeOf(fr), entry, entry)) \subseteq CalleeCaps(<<fr.func, fr.bb>>)
         /\ <<fr.func, fr.bb>> \notin DOMAIN bbCapMap =>
              Share(Frame(CalleeOf(fr), entry, entry)) \subseteq Share(fr)
<1> DEFINE g == CalleeOf(fr)
           new == Frame(g, entry, entry)
<1>1. g \in Kept /\ entry \in BlockId /\ fr.func \in Kept /\ fr.bb \in BlockId
  BY CFGAssumption DEF Frames
<1> HIDE DEF g
<1>2. new.func = g /\ new.bb = entry /\ new.at = entry /\ new.next = "call"
      /\ new \in Frames
  BY <1>1 DEF Frame, Frames
<1> HIDE DEF new
<1>3. entry \in Left(g) /\ Left(g) \in SUBSET BlockId
  BY <1>1 DEF Left
<1>4. FrameOK(new)
  <2>1. cfg[g] \in [BlockId -> SUBSET BlockId]
    BY <1>1 DEF Inv, InputInv
  <2>2. entry \in Span(cfg[g], Left(g), entry)
    BY <1>1, <1>3, <2>1, SpanFacts
  <2>3. QED
    BY <1>2, <1>3, <2>2 DEF FrameOK
<1>5. Ahead(new) \subseteq BlockId
  BY <1>2, <1>3, <1>4, AheadLeft
<1>6. Share(new) \subseteq UNION {funcCapMap[h] : h \in PrivReach(g)}
  <2>1. \A i \in BlockId : CapsRead(<<g, i>>) \subseteq UNION {funcCapMap[h] : h \in PrivReach(g)}
    BY <1>1, CapsReadFacts
  <2>2. Rest(new) = CapsRead(<<g, entry>>)
    BY <1>2 DEF Rest
  <2>3. Share(new) = CapsRead(<<g, entry>>) \cup UNION {CapsRead(<<g, i>>) : i \in Ahead(new)}
    BY <1>2, <2>2 DEF Share
  <2>4. QED
    BY <1>1, <1>5, <2>1, <2>3
<1>7. CalleeCaps(<<fr.func, fr.bb>>) = UNION {funcCapMap[h] : h \in PrivReach(g)}
  <2>1. calleeOf[<<fr.func, fr.bb>>] = g /\ g # None
    BY <1>1, CFGAssumption DEF g, CalleeOf
  <2>2. QED
    BY <1>1, <2>1, CalleeCapsFacts
<1>8. ASSUME <<fr.func, fr.bb>> \notin DOMAIN bbCapMap PROVE Share(new) \subseteq Share(fr)
  <2>1. fr.bb \in Left(fr.func)
    BY <1>1 DEF Left, g, CalleeOf
  <2>2. fr.bb = fr.at
    BY <2>1, FrameBlock
  <2>3. Rest(fr) = CalleeCaps(<<fr.func, fr.bb>>)
    BY <1>8, <2>2 DEF Rest, CapsRead
  <2>4. Rest(fr) \subseteq Share(fr)
    BY DEF Share
  <2>5. QED
    BY <1>6, <1>7, <2>3, <2>4
<1>9. QED
  BY <1>2, <1>4, <1>6, <1>7, <1>8 DEF new, g

\* A branch, to a block that is left or not, leads to nothing that was not ahead.
LEMMA BranchShare ==
  ASSUME Inv, pc = "done", NEW fr \in Frames, FrameOK(fr),
         NEW i \in cfg[fr.func][fr.bb]
  PROVE  /\ Frame(fr.func, i, fr.at) \in Frames
         /\ FrameOK(Frame(fr.func, i, fr.at))
         /\ Share(Frame(fr.func, i, fr.at)) \subseteq Share(fr)
<1> DEFINE f == fr.func
           L == Left(fr.func)
           new == Frame(fr.func, i, fr.at)
           C == funcCFGMap[fr.func]
<1>1. f \in Kept /\ fr.bb \in BlockId /\ fr.at \in BlockId
  BY DEF Frames
<1>2. cfg[f] \in [BlockId -> SUBSET BlockId] /\ L \in SUBSET BlockId
  BY FrameBlock
<1>3. i \in BlockId
  BY <1>1, <1>2
<1>4. f \in DOMAIN funcCFGMap
  BY <1>1 DEF Inv, GraphInv
<1>5. C = Contracted(cfg[f], L) /\ C \in [L -> SUBSET L]
  BY <1>4, GraphFacts
<1>6. DOMAIN C = L
  BY <1>5
<1>7. fr.at \in L /\ fr.bb \in Span(cfg[f], L, fr.at)
  BY DEF FrameOK
<1>8. /\ new.func = f /\ new.bb = i /\ new.next = "call" /\ new \in Frames
      /\ i \in L => new.at = i
      /\ i \notin L => new.at = fr.at
  BY <1>1, <1>3, <1>6 DEF Frame, Frames
<1> HIDE DEF new
<1>9. i \in L => i \in C[fr.at]
  BY <1>5, <1>7, ContractedEdges
<1>10. i \notin L => i \in Span(cfg[f], L, fr.at)
  BY <1>1, <1>2, <1>7, SpanFacts
<1>11. i \in L => i \in Span(cfg[f], L, i)
  BY <1>2, <1>3, SpanFacts
<1>12. FrameOK(new)
  BY <1>7, <1>8, <1>10, <1>11 DEF FrameOK
<1>13. Share(new) \subseteq UNION {CapsRead(<<f, m>>) : m \in Ahead(fr)}
  <2>1. CASE i \in L
    <3>1. new.at = i /\ i \in C[fr.at]
      BY <1>8, <1>9, <2>1
    <3>2. /\ i \in Reach(C, i)
          /\ \A m \in C[i] : Reach(C, m) \subseteq Reach(C, i)
      BY <1>5, <2>1, ReachFacts
    <3>3. Ahead(new) \subseteq Reach(C, i)
      BY <1>8, <3>1, <3>2 DEF Ahead
    <3>4. Reach(C, i) \subseteq Ahead(fr)
      BY <3>1 DEF Ahead
    <3>5. Rest(new) = CapsRead(<<f, i>>)
      BY <1>8, <3>1 DEF Rest
    <3>6. Share(new) = CapsRead(<<f, i>>) \cup UNION {CapsRead(<<f, m>>) : m \in Ahead(new)}
      BY <1>8, <3>5 DEF Share
    <3>7. QED
      BY <3>2, <3>3, <3>4, <3>6
  <2>2. CASE i \notin L
    <3>1. new.at = fr.at /\ new.bb # new.at
      BY <1>7, <1>8, <2>2
    <3>2. Ahead(new) = Ahead(fr) /\ Rest(new) = {}
      BY <1>8, <3>1 DEF Ahead, Rest
    <3>3. QED
      BY <1>8, <3>2 DEF Share
  <2>3. QED
    BY <2>1, <2>2
<1>14. Share(new) \subseteq Share(fr)
  BY <1>13 DEF Share
<1>15. QED
  BY <1>8, <1>12, <1>14 DEF new

-----------------------------------------------------------------------------
\* The stack

\* A step of the run leaves the tables, and with them what a frame means, as they are.
LEMMA RunStatics ==
  ASSUME UNCHANGED vars
  PROVE  /\ \A s : StackOK(s)' <=> StackOK(s)
         /\ \A fr : Share(fr)' = Share(fr)
<1>1. /\ cfg' = cfg /\ calleeOf' = calleeOf /\ bbCapMap' = bbCapMap /\ pc' = pc
      /\ funcCFGMap' = funcCFGMap /\ reachablePrivFunc' = reachablePrivFunc
      /\ UNCHANGED inputs
  BY DEF vars, inputs
<1>2. /\ Calls' = Calls /\ funcCapMap' = funcCapMap
      /\ \A f : Left(f)' = Left(f)
  BY <1>1, StaticsSame
<1>3. \A fr : FrameOK(fr)' <=> FrameOK(fr)
  BY <1>1, <1>2 DEF FrameOK
<1>4. \A fr : CalleeOf(fr)' = CalleeOf(fr)
  BY <1>1 DEF CalleeOf
<1>5. \A s : StackOK(s)' <=> StackOK(s)
  BY <1>2, <1>3, <1>4 DEF StackOK
<1>6. \A b : CapsRead(b)' = CapsRead(b)
  BY <1>1, <1>2 DEF CapsRead, CalleeCaps
<1>7. \A fr : Ahead(fr)' = Ahead(fr) /\ Rest(fr)' = Rest(fr)
  BY <1>1, <1>6 DEF Ahead, Rest
<1>8. \A fr : Share(fr)' = Share(fr)
  BY <1>6, <1>7 DEF Share
<1>9. QED
  BY <1>5, <1>8

\* If no frame of the next stack adds anything but what collectSCCCaps skips, neither does
\* the step.
LEMMA NeededStep ==
  ASSUME UNCHANGED vars, \A k \in 1 .. Len(stack') : Share(stack'[k]) \subseteq Needed \cup Skipped
  PROVE  Needed' \subseteq Needed \cup Skipped
<1>1. \A fr : Share(fr)' = Share(fr)
  BY RunStatics
<1>2. Needed' = UNION {Share(stack[k])' : k \in 1 .. Len(stack')}
  BY DEF Needed
<1>3. \A k \in 1 .. Len(stack') : Share(stack[k])' \subseteq Needed \cup Skipped
  BY <1>1
<1>4. QED
  BY <1>2, <1>3

\* The top frame goes on in its function.
LEMMA AdvanceStack ==
  ASSUME Inv, RunInv, phase = "run", stack # <<>>,
         NEW fr \in Frames, FrameOK(fr), fr.func = Top.func, Share(fr) \subseteq Share(Top)
  PROVE  /\ StackOK(Advance(fr))
         /\ \A k \in 1 .. Len(Advance(fr)) : Share(Advance(fr)[k]) \subseteq Needed
<1> DEFINE n == Len(stack)
           s == Advance(fr)
<1>1. StackOK(stack) /\ stack \in Seq(Frames) /\ n <= MaxFrames
  BY DEF RunInv, StackOK
<1>2. /\ s \in Seq(Frames) /\ Len(s) = n /\ n \in Nat /\ n >= 1
      /\ s[n] = fr /\ \A k \in 1 .. n : k # n => s[k] = stack[k]
  BY <1>1, ReplaceTop
<1>3. Top = stack[n]
  BY DEF Top
<1> HIDE DEF s, n
<1>4. \A k \in 1 .. n : FrameOK(s[k])
  BY <1>1, <1>2 DEF StackOK, n
<1>5. \A k \in 1 .. n : s[k].func = stack[k].func
  BY <1>2, <1>3
<1>6. ASSUME NEW j \in 1 .. n, NEW k \in 1 .. n, j < k
      PROVE  CalleeOf(s[j]) # None /\ s[k].func \in Reach(Calls, CalleeOf(s[j]))
  <2>1. s[j] = stack[j]
    BY <1>2, <1>6
  <2>2. CalleeOf(stack[j]) # None /\ stack[k].func \in Reach(Calls, CalleeOf(stack[j]))
    BY <1>1, <1>6 DEF StackOK, n
  <2>3. QED
    BY <1>5, <2>1, <2>2
<1>7. StackOK(s)
  BY <1>1, <1>2, <1>4, <1>6 DEF StackOK
<1>8. \A k \in 1 .. n : Share(stack[k]) \subseteq Needed
  BY DEF Needed, n
<1>9. \A k \in 1 .. n : Share(s[k]) \subseteq Needed
  BY <1>2, <1>3, <1>8
<1>10. QED
  BY <1>2, <1>7, <1>9 DEF s

\* The top frame calls a kept function.
LEMMA CallStack ==
  ASSUME Inv, RunInv, phase = "run", stack # <<>>, Top.next = "call",
         CalleeOf(Top) \in Kept, Len(stack) < MaxFrames
  PROVE  LET s == Append(Advance([Top EXCEPT !.next = "lower"]),
                         Frame(CalleeOf(Top), entry, entry))
         IN  /\ StackOK(s)
             /\ \A k \in 1 .. Len(s) : Share(s[k]) \subseteq Needed \cup Skipped
<1> DEFINE n   == Len(stack)
           top == [Top EXCEPT !.next = "lower"]
           g   == CalleeOf(Top)
           new == Frame(g, entry, entry)
           t   == Advance(top)
           s   == Append(t, new)
<1>1. Top \in Frames /\ FrameOK(Top) /\ pc = "done" /\ n \in Nat /\ n \in 1 .. n
  BY TopFacts DEF RunInv
<1>2. /\ top \in Frames /\ top.func = Top.func /\ top.bb = Top.bb /\ top.at = Top.at
  BY <1>1 DEF Frames
<1>3. FrameOK(top) /\ CalleeOf(top) = g
  BY <1>1, <1>2 DEF FrameOK, CalleeOf
<1>4. Share(top) \subseteq Share(Top)
  BY <1>1, CallShare
<1>5. /\ new \in Frames /\ FrameOK(new)
      /\ Share(new) \subseteq CalleeCaps(CurrentBlock)
      /\ CurrentBlock \notin DOMAIN bbCapMap => Share(new) \subseteq Share(Top)
  BY <1>1, EntryShare DEF CurrentBlock
<1>6. new.func = g /\ g \in Kept
  BY DEF Frame
<1> HIDE DEF top
<1>7. StackOK(t) /\ \A k \in 1 .. Len(t) : Share(t[k]) \subseteq Needed
  BY <1>2, <1>3, <1>4, AdvanceStack
<1>8. /\ t \in Seq(Frames) /\ Len(t) = n /\ t[n] = top
      /\ \A k \in 1 .. n : k # n => t[k] = stack[k]
  BY <1>2, ReplaceTop DEF RunInv, StackOK
<1> HIDE DEF t, new
<1>9. /\ s \in Seq(Frames) /\ Len(s) = n + 1 /\ s[n + 1] = new
      /\ \A k \in 1 .. n : s[k] = t[k]
  BY <1>1, <1>5, <1>8
<1> HIDE DEF s, g, n
<1>10. Share(Top) \subseteq Needed
  BY <1>1 DEF Needed, Top, n
<1> DEFINE U == Skipped
<1>11. Share(new) \subseteq Needed \cup U
  <2>1. CurrentBlock \in DOMAIN bbCapMap => U = CalleeCaps(CurrentBlock)
    BY DEF Skipped, Running
  <2> HIDE DEF U
  <2>2. QED
    BY <1>5, <1>10, <2>1
<1> HIDE DEF U
<1>12. \A k \in 1 .. n + 1 : Share(s[k]) \subseteq Needed \cup U
  BY <1>1, <1>7, <1>8, <1>9, <1>11
<1>13. \A k \in 1 .. n + 1 : FrameOK(s[k])
  BY <1>1, <1>5, <1>7, <1>8, <1>9 DEF StackOK
<1>14. Calls \in [Func -> SUBSET Func] /\ g \in Func /\ g # None
  BY <1>6, InputFacts, CFGAssumption DEF Inv
<1>15. g \in Reach(Calls, g)
  BY <1>14, ReachFacts
<1>16. g \in Calls[Top.func] /\ Top.func \in Func
  <2>1. Top.func \in Func /\ Top.bb \in BlockId
    BY <1>1, InputFacts DEF Inv, Frames
  <2>2. <<Top.func, Top.bb>> \in Block /\ parent(<<Top.func, Top.bb>>) = Top.func
    BY <2>1 DEF Block, parent
  <2>3. QED
    BY <1>14, <2>1, <2>2 DEF Calls, g, CalleeOf
<1>17. ASSUME NEW j \in 1 .. n + 1, NEW k \in 1 .. n + 1, j < k
       PROVE  CalleeOf(s[j]) # None /\ s[k].func \in Reach(Calls, CalleeOf(s[j]))
  <2>1. j \in 1 .. n /\ s[j] = t[j]
    BY <1>1, <1>9, <1>17
  <2>2. CASE k \in 1 .. n
    BY <1>7, <1>8, <1>9, <1>17, <2>1, <2>2 DEF StackOK
  <2>3. CASE k = n + 1 /\ j = n
    BY <1>3, <1>6, <1>8, <1>9, <1>14, <1>15, <2>1, <2>3
  <2>4. CASE k = n + 1 /\ j # n
    <3>1. s[j] = stack[j] /\ j < n
      BY <1>1, <1>8, <2>1, <2>4
    <3>2. CalleeOf(stack[j]) # None /\ stack[n].func \in Reach(Calls, CalleeOf(stack[j]))
      BY <1>1, <2>1, <3>1 DEF RunInv, StackOK, n
    <3>3. Top.func \in Reach(Calls, CalleeOf(stack[j]))
      BY <3>2 DEF Top, n
    <3>4. CalleeOf(stack[j]) \in Func
      <4>1. DOMAIN Calls = Func
        BY <1>14
      <4>2. stack[j] \in Frames
        BY <2>1 DEF RunInv, StackOK, n
      <4>3. stack[j].func \in Kept /\ stack[j].bb \in BlockId
        BY <4>2 DEF Frames
      <4>4. QED
        BY <3>2, <4>3, CalleeFacts DEF Inv, CalleeOf
    <3>5. g \in Reach(Calls, CalleeOf(stack[j]))
      BY <1>14, <1>16, <3>3, <3>4, ReachFacts
    <3>6. QED
      BY <1>6, <1>9, <2>4, <3>1, <3>2, <3>5
  <2>5. QED
    BY <1>1, <2>2, <2>3, <2>4
<1>18. n + 1 <= MaxFrames
  BY <1>1, FramesAssumption DEF n
<1>19. StackOK(s)
  BY <1>9, <1>13, <1>17, <1>18 DEF StackOK
<1>20. QED
  BY <1>9, <1>12, <1>19 DEF s, t, new, g, top, U

\* A sequence without its last element.
LEMMA FrontFacts ==
  ASSUME NEW A, NEW s \in Seq(A), s # <<>>
  PROVE  /\ Len(s) \in Nat \ {0}
         /\ SubSeq(s, 1, Len(s) - 1) \in Seq(A)
         /\ Len(SubSeq(s, 1, Len(s) - 1)) = Len(s) - 1
         /\ \A i \in 1 .. Len(s) - 1 : SubSeq(s, 1, Len(s) - 1)[i] = s[i]
<1>1. Len(s) \in Nat \ {0} /\ \A i \in 1 .. Len(s) : s[i] \in A
  OBVIOUS
<1> DEFINE n == Len(s) - 1
<1>2. n \in Int /\ 1 \in Int /\ \A i \in 1 .. n : s[i] \in A
  BY <1>1
<1> HIDE DEF n
<1>3. /\ SubSeq(s, 1, n) \in Seq(A)
      /\ Len(SubSeq(s, 1, n)) = IF 1 <= n THEN n - 1 + 1 ELSE 0
      /\ \A i \in 1 .. n - 1 + 1 : SubSeq(s, 1, n)[i] = s[1 + i - 1]
  BY <1>2, SubSeqProperties
<1>4. n \in Nat
  BY <1>1 DEF n
<1>5. Len(SubSeq(s, 1, n)) = n
  BY <1>3, <1>4
<1>6. ASSUME NEW i \in 1 .. n PROVE SubSeq(s, 1, n)[i] = s[i]
  <2>1. i \in 1 .. n - 1 + 1 /\ 1 + i - 1 = i
    BY <1>4
  <2>2. SubSeq(s, 1, n)[i] = s[1 + i - 1]
    BY <1>3, <2>1
  <2>3. QED
    BY <2>1, <2>2, Zenon
<1>7. QED
  BY <1>1, <1>3, <1>5, <1>6, Zenon DEF n

\* The top frame returns.
LEMMA ReturnStack ==
  ASSUME Inv, RunInv, stack # <<>>
  PROVE  LET s == SubSeq(stack, 1, Len(stack) - 1)
         IN  /\ StackOK(s)
             /\ \A k \in 1 .. Len(s) : Share(s[k]) \subseteq Needed
<1> DEFINE n == Len(stack)
           s == SubSeq(stack, 1, n - 1)
<1>1. stack \in Seq(Frames) /\ n \in Nat /\ n >= 1 /\ n <= MaxFrames
  BY DEF RunInv, StackOK
<1>2. /\ s \in Seq(Frames) /\ Len(s) = n - 1
      /\ \A k \in 1 .. n - 1 : s[k] = stack[k] /\ k \in 1 .. n
  BY <1>1, FrontFacts
<1> HIDE DEF s
<1>3. Len(s) <= MaxFrames
  BY <1>1, <1>2, FramesAssumption
<1>4. \A k \in 1 .. n - 1 : FrameOK(s[k]) /\ Share(s[k]) \subseteq Needed
  BY <1>2 DEF RunInv, StackOK, Needed, n
<1>5. \A j, k \in 1 .. n - 1 : j < k =>
        CalleeOf(s[j]) # None /\ s[k].func \in Reach(Calls, CalleeOf(s[j]))
  BY <1>2 DEF RunInv, StackOK
<1>6. StackOK(s)
  BY <1>2, <1>3, <1>4, <1>5 DEF StackOK
<1>7. QED
  BY <1>2, <1>4, <1>6 DEF s

-----------------------------------------------------------------------------
\* The steps of the run

\* Every step of the run keeps the stack in order and needs nothing new but what
\* collectSCCCaps skips.
RunKeeps ==
  /\ StackOK(stack')
  /\ \A k \in 1 .. Len(stack') : Share(stack'[k]) \subseteq Needed \cup Skipped
  /\ phase' \in {"run", "exit"} /\ pc = "done" /\ UNCHANGED vars

LEMMA CallKeptStep ==
  ASSUME Inv, RunInv, CallKept
  PROVE  RunKeeps
<1>1. /\ phase = "run" /\ stack # <<>> /\ Top.next = "call" /\ CalleeOf(Top) \in Kept
      /\ Len(stack) < MaxFrames /\ UNCHANGED <<vars, phase>>
      /\ stack' = Append(Advance([Top EXCEPT !.next = "lower"]),
                         Frame(CalleeOf(Top), entry, entry))
  BY DEF CallKept, Running, CurrentBlock, CalleeOf
<1>2. /\ StackOK(stack')
      /\ \A k \in 1 .. Len(stack') : Share(stack'[k]) \subseteq Needed \cup Skipped
  BY <1>1, CallStack
<1>3. QED
  BY <1>1, <1>2 DEF RunKeeps, RunInv

LEMMA CallOtherStep ==
  ASSUME Inv, RunInv, CallOther
  PROVE  RunKeeps
<1> DEFINE fr == [Top EXCEPT !.next = "lower"]
<1>1. /\ phase = "run" /\ stack # <<>> /\ Top.next = "call"
      /\ stack' = Advance(fr) /\ UNCHANGED <<vars, phase>>
  BY DEF CallOther, Running
<1>2. Top \in Frames /\ FrameOK(Top) /\ pc = "done"
  BY <1>1, TopFacts DEF RunInv
<1>3. /\ fr \in Frames /\ fr.func = Top.func /\ fr.bb = Top.bb /\ fr.at = Top.at
  BY <1>2 DEF Frames
<1>4. FrameOK(fr)
  BY <1>2, <1>3 DEF FrameOK
<1>5. Share(fr) \subseteq Share(Top)
  BY <1>1, <1>2, CallShare
<1> HIDE DEF fr
<1>6. StackOK(Advance(fr)) /\ \A k \in 1 .. Len(Advance(fr)) : Share(Advance(fr)[k]) \subseteq Needed
  BY <1>1, <1>3, <1>4, <1>5, AdvanceStack
<1>7. QED
  BY <1>1, <1>2, <1>6 DEF RunKeeps

LEMMA LowerStep ==
  ASSUME Inv, RunInv, PrivLower
  PROVE  RunKeeps
<1> DEFINE fr == [Top EXCEPT !.next = "branch"]
<1>1. /\ phase = "run" /\ stack # <<>> /\ Top.next = "lower"
      /\ stack' = Advance(fr) /\ UNCHANGED <<vars, phase>>
  BY DEF PrivLower, Running
<1>2. Top \in Frames /\ FrameOK(Top) /\ pc = "done"
  BY <1>1, TopFacts DEF RunInv
<1>3. /\ fr \in Frames /\ fr.func = Top.func /\ fr.bb = Top.bb /\ fr.at = Top.at
  BY <1>2 DEF Frames
<1>4. FrameOK(fr)
  BY <1>2, <1>3 DEF FrameOK
<1>5. Share(fr) \subseteq Share(Top)
  BY <1>1, <1>2, LowerShare
<1> HIDE DEF fr
<1>6. StackOK(Advance(fr)) /\ \A k \in 1 .. Len(Advance(fr)) : Share(Advance(fr)[k]) \subseteq Needed
  BY <1>1, <1>3, <1>4, <1>5, AdvanceStack
<1>7. QED
  BY <1>1, <1>2, <1>6 DEF RunKeeps

LEMMA BranchStep ==
  ASSUME Inv, RunInv, Branch
  PROVE  RunKeeps
<1>1. PICK i \in cfg[Top.func][Top.bb] :
        /\ phase = "run" /\ stack # <<>>
        /\ stack' = Advance(Frame(Top.func, i, Top.at)) /\ UNCHANGED <<vars, phase>>
  BY DEF Branch, Running
<1> DEFINE fr == Frame(Top.func, i, Top.at)
<1>2. Top \in Frames /\ FrameOK(Top) /\ pc = "done"
  BY <1>1, TopFacts DEF RunInv
<1>3. fr \in Frames /\ FrameOK(fr) /\ Share(fr) \subseteq Share(Top)
  BY <1>2, BranchShare
<1>4. fr.func = Top.func
  BY DEF Frame
<1> HIDE DEF fr
<1>5. StackOK(Advance(fr)) /\ \A k \in 1 .. Len(Advance(fr)) : Share(Advance(fr)[k]) \subseteq Needed
  BY <1>1, <1>3, <1>4, AdvanceStack
<1>6. QED
  BY <1>1, <1>2, <1>5 DEF RunKeeps, fr

LEMMA ReturnStep ==
  ASSUME Inv, RunInv, Return
  PROVE  RunKeeps
<1>1. /\ phase = "run" /\ stack # <<>> /\ phase' \in {"run", "exit"}
      /\ stack' = SubSeq(stack, 1, Len(stack) - 1) /\ UNCHANGED vars
  BY DEF Return, Running
<1>2. /\ StackOK(stack')
      /\ \A k \in 1 .. Len(stack') : Share(stack'[k]) \subseteq Needed
  BY <1>1, ReturnStack
<1>3. QED
  BY <1>1, <1>2 DEF RunKeeps, RunInv

LEMMA RunStep ==
  ASSUME Inv, RunInv, Run
  PROVE  RunKeeps
BY CallKeptStep, CallOtherStep, LowerStep, BranchStep, ReturnStep DEF Run

\* The run starts with the first block of main.
LEMMA StartRunStep ==
  ASSUME Inv, RunInv, Start
  PROVE  RunInv'
<1> DEFINE fr == Frame(main, entry, entry)
           s  == <<fr>>
<1>1. pc = "done" /\ stack' = s /\ phase' = "run" /\ UNCHANGED vars
  BY DEF Start
<1>2. main \in Kept /\ entry \in BlockId
  BY CFGAssumption
<1>3. fr \in Frames /\ fr.func = main /\ fr.bb = entry /\ fr.at = entry
  BY <1>2 DEF Frame, Frames
<1> HIDE DEF fr
<1>4. FrameOK(fr)
  <2>1. cfg[main] \in [BlockId -> SUBSET BlockId]
    BY <1>2 DEF Inv, InputInv
  <2>2. entry \in Left(main) /\ Left(main) \in SUBSET BlockId
    BY <1>2 DEF Left
  <2>3. entry \in Span(cfg[main], Left(main), entry)
    BY <1>2, <2>1, <2>2, SpanFacts
  <2>4. QED
    BY <1>3, <2>2, <2>3 DEF FrameOK
<1>5. s \in Seq(Frames) /\ Len(s) = 1 /\ s[1] = fr
  BY <1>3
<1>6. \A k \in 1 .. 1 : k = 1
  OBVIOUS
<1> HIDE DEF s
<1>7. StackOK(s)
  <2>1. Len(s) <= MaxFrames
    BY <1>5, FramesAssumption
  <2>2. \A k \in 1 .. Len(s) : FrameOK(s[k])
    BY <1>4, <1>5, <1>6
  <2>3. \A j, k \in 1 .. Len(s) : ~ (j < k)
    BY <1>5
  <2>4. QED
    BY <1>5, <2>1, <2>2, <2>3 DEF StackOK
<1>8. StackOK(stack)'
  BY <1>1, <1>7, RunStatics
<1>9. QED
  BY <1>1, <1>8 DEF RunInv, vars

LEMMA EmptyStack == StackOK(<<>>)
<1>1. <<>> \in Seq(Frames) /\ Len(<<>>) = 0
  OBVIOUS
<1>2. 0 <= MaxFrames /\ \A k \in 1 .. 0 : FALSE
  BY FramesAssumption
<1>3. QED
  BY <1>1, <1>2 DEF StackOK

\* The run only begins when the analysis is done, and the analysis then does nothing.
LEMMA AnalyzeStep ==
  ASSUME Inv, RunInv, Analyze, UNCHANGED run
  PROVE  RunInv' /\ phase = "analysis"
<1>1. pc \in {"compress", "sccs", "collect"}
  BY DEF Analyze, CompressFunction, StartSCC, CollectBlock, StartSCCs, RecordSCC, Finish
<1>2. phase = "analysis" /\ stack = <<>>
  BY <1>1 DEF RunInv
<1>3. phase' = "analysis" /\ stack' = <<>>
  BY <1>2 DEF run
<1>4. StackOK(stack)'
  <2>1. (stack = <<>>)'
    BY <1>3
  <2>2. StackOK(<<>>)'
    BY EmptyStack, PTL
  <2>3. QED
    BY <2>1, <2>2
<1>5. QED
  BY <1>2, <1>3, <1>4 DEF RunInv

THEOREM RunInvariance == RunSpec => [](Inv /\ RunInv)
<1>1. RunInit => Inv /\ RunInv
  <2>1. SUFFICES ASSUME RunInit PROVE Inv /\ RunInv
    OBVIOUS
  <2>2. QED
    BY <2>1, InitInv, EmptyStack DEF RunInit, RunInv
<1>2. Inv /\ RunInv /\ [RunNext]_<<vars, run>> => (Inv /\ RunInv)'
  <2>1. SUFFICES ASSUME Inv, RunInv, [RunNext]_<<vars, run>> PROVE Inv' /\ RunInv'
    OBVIOUS
  <2>2. CASE Analyze /\ UNCHANGED run
    <3>1. Inv'
      BY <2>1, <2>2, StepInv DEF Next
    <3>2. QED
      BY <2>1, <2>2, <3>1, AnalyzeStep
  <2>3. CASE Start
    <3>1. UNCHANGED vars
      BY <2>3 DEF Start
    <3>2. QED
      BY <2>1, <2>3, <3>1, StopStep, StartRunStep
  <2>4. CASE Run
    <3>1. RunKeeps
      BY <2>1, <2>4, RunStep
    <3>2. /\ StackOK(stack') /\ phase' \in {"run", "exit"} /\ pc = "done" /\ UNCHANGED vars
      BY <3>1 DEF RunKeeps
    <3>3. StackOK(stack)'
      BY <3>2, RunStatics
    <3>4. RunInv'
      BY <3>2, <3>3 DEF RunInv, vars
    <3>5. QED
      BY <2>1, <3>2, <3>4, StopStep
  <2>5. CASE Stopped \/ UNCHANGED <<vars, run>>
    <3>1. UNCHANGED vars /\ stack' = stack /\ phase' = phase /\ pc' = pc
      BY <2>5 DEF Stopped, run, vars
    <3>2. StackOK(stack)'
      BY <2>1, <3>1, RunStatics DEF RunInv
    <3>3. RunInv'
      BY <2>1, <3>1, <3>2 DEF RunInv
    <3>4. QED
      BY <2>1, <3>1, <3>3, StopStep
  <2>6. QED
    BY <2>1, <2>2, <2>3, <2>4, <2>5 DEF RunNext
<1>3. QED
  BY <1>1, <1>2, PTL DEF RunSpec

\* The types of the run; its stack keeps to the bound.
THEOREM RunTypeCorrect == RunSpec => []RunTypeOK
<1>1. Inv /\ RunInv => RunTypeOK
  BY InvType DEF RunInv, StackOK, RunTypeOK
<1>2. QED
  BY <1>1, RunInvariance, PTL

\* No step of any run, however deep, comes to need a privilege that the compressed graphs
\* did not list before, but the one step that calls out of a block that lowers: it may
\* bring back what its callee reaches and collectSCCCaps has not read.
THEOREM GivenUpForGood == RunSpec => NeededShrinks
<1>1. Inv /\ RunInv /\ [RunNext]_<<vars, run>>
        => [phase = "run" => Needed' \subseteq Needed \cup Skipped]_<<vars, run>>
  <2>1. SUFFICES ASSUME Inv, RunInv, RunNext, phase = "run"
                 PROVE  Needed' \subseteq Needed \cup Skipped \/ UNCHANGED <<vars, run>>
    OBVIOUS
  <2>2. CASE Analyze /\ UNCHANGED run
    BY <2>1, <2>2, AnalyzeStep
  <2>3. CASE Start
    BY <2>1, <2>3 DEF Start
  <2>4. CASE Run
    <3>1. RunKeeps
      BY <2>1, <2>4, RunStep
    <3>2. QED
      BY <3>1, NeededStep DEF RunKeeps
  <2>5. CASE Stopped
    BY <2>5 DEF Stopped
  <2>6. QED
    BY <2>1, <2>2, <2>3, <2>4, <2>5 DEF RunNext
<1>2. QED
  BY <1>1, RunInvariance, PTL DEF RunSpec, NeededShrinks

\* What the running block lowers is read off the block of every active call that does not
\* lower itself: its callee reaches the running function.
LEMMA ReadByCaller ==
  ASSUME Inv, RunInv, Lowers # {}, NEW k \in 1 .. Len(stack),
         k = Len(stack) \/ <<stack[k].func, stack[k].bb>> \notin DOMAIN bbCapMap
  PROVE  /\ Lowers \subseteq CapsRead(<<stack[k].func, stack[k].bb>>)
         /\ stack[k].bb \in Left(stack[k].func)
         /\ stack[k].func \in Kept /\ stack[k].bb \in BlockId /\ pc = "done"
<1> DEFINE b == CurrentBlock
           c == <<stack[k].func, stack[k].bb>>
           n == Len(stack)
<1>1. /\ phase = "run" /\ stack # <<>> /\ b \in DOMAIN bbCapMap /\ Lowers = bbCapMap[b]
  BY DEF Lowers, Running
<1>2. n \in 1 .. n /\ n \in Nat /\ pc = "done"
  BY <1>1, TopFacts DEF RunInv
<1>3. stack[k].func \in Kept /\ stack[k].bb \in BlockId
  <2>1. stack[k] \in Frames
    BY DEF RunInv, StackOK
  <2>2. QED
    BY <2>1 DEF Frames
<1>4. b = <<Top.func, Top.bb>> /\ Top = stack[n]
  BY DEF CurrentBlock, Top
<1>5. Top.func \in DOMAIN funcCapMap /\ Lowers \subseteq funcCapMap[Top.func]
  <2>1. parent(b) = Top.func
    BY <1>4 DEF parent
  <2>2. QED
    BY <1>1, <2>1 DEF funcCapMap, PerFunction
<1> HIDE DEF b
<1>6. CASE k = n
  <2>1. c = b
    BY <1>4, <1>6
  <2>2. Lowers \subseteq CapsRead(c)
    BY <1>1, <2>1 DEF CapsRead
  <2>3. stack[k].bb \in Left(stack[k].func)
    BY <1>1, <1>3, <2>1 DEF Left
  <2>4. QED
    BY <1>2, <1>3, <2>2, <2>3
<1>7. CASE k # n
  <2>1. k < n /\ c \notin DOMAIN bbCapMap
    BY <1>2, <1>7
  <2>2. CalleeOf(stack[k]) # None /\ stack[n].func \in Reach(Calls, CalleeOf(stack[k]))
    BY <1>2, <2>1 DEF RunInv, StackOK
  <2>3. calleeOf[c] # None /\ Top.func \in PrivReach(calleeOf[c])
    BY <1>4, <1>5, <2>2 DEF PrivReach, CalleeOf
  <2>4. CapsRead(c) = UNION {funcCapMap[h] : h \in PrivReach(calleeOf[c])}
    <3>1. CapsRead(c) = CalleeCaps(c)
      BY <2>1 DEF CapsRead
    <3>2. QED
      BY <1>3, <2>3, <3>1, CalleeCapsFacts
  <2>5. Lowers \subseteq CapsRead(c)
    BY <1>5, <2>3, <2>4
  <2>6. calleeOf[c] \in Kept
    BY <1>3, <2>3, CalleeFacts DEF Inv
  <2>7. stack[k].bb \in Left(stack[k].func)
    BY <1>3, <2>6 DEF Left
  <2>8. QED
    BY <1>2, <1>3, <2>5, <2>7
<1>8. QED
  BY <1>6, <1>7

\* Every loop that a block left is in has its record, with what is read off the block.
LEMMA LoopRecord ==
  ASSUME Inv, pc = "done", NEW f \in Kept, NEW i \in Left(f), NEW C \in Components(cfg[f]), i \in C
  PROVE  /\ DOMAIN funcCFGMap[f] = Left(f)
         /\ <<f, C \cap Left(f)>> \in DOMAIN recorded
         /\ ReadCaps(<<f, i>>) \subseteq recorded[<<f, C \cap Left(f)>>]
<1>1. f \in DOMAIN funcCFGMap
  BY DEF Inv, GraphInv
<1>2. /\ funcCFGMap[f] = Contracted(cfg[f], Left(f)) /\ DOMAIN funcCFGMap[f] = Left(f)
      /\ Left(f) \in SUBSET BlockId
  BY <1>1, GraphFacts
<1>3. cfg[f] \in [BlockId -> SUBSET BlockId]
  BY DEF Inv, InputInv
<1>4. C \cap Left(f) \in Components(funcCFGMap[f])
  BY <1>2, <1>3, ContractedComponents
<1>5. <<f, C \cap Left(f)>> \in DOMAIN recorded
  BY <1>4 DEF Inv, RecordedInv, Unrecorded
<1>6. recorded[<<f, C \cap Left(f)>>] = ReadLoop(f, C \cap Left(f))
  BY <1>5 DEF Inv, RecordedInv
<1>7. QED
  BY <1>2, <1>5, <1>6 DEF ReadLoop

\* Whatever a run lowers was read off the block of every active call, the running one
\* included, and is in the record of every loop that block is in; of the active calls
\* those are left out that a block makes which lowers privileges itself.
THEOREM ForeseenCorrect == RunSpec => []LowersForeseen
<1>1. Inv /\ RunInv => LowersForeseen
  <2>1. SUFFICES ASSUME Inv, RunInv, Lowers # {}, NEW k \in 1 .. Len(stack),
                        k = Len(stack) \/ <<stack[k].func, stack[k].bb>> \notin DOMAIN bbCapMap
                 PROVE  LET fr   == stack[k]
                            b    == <<fr.func, fr.bb>>
                            left == DOMAIN funcCFGMap[fr.func]
                        IN  /\ fr.bb \in left /\ Lowers \subseteq CapsRead(b)
                            /\ \A C \in Components(cfg[fr.func]) : fr.bb \in C =>
                                 /\ <<fr.func, C \cap left>> \in DOMAIN recorded
                                 /\ Lowers \subseteq recorded[<<fr.func, C \cap left>>]
    BY DEF LowersForeseen
  <2> DEFINE f == stack[k].func
             i == stack[k].bb
  <2>2. /\ Lowers \subseteq CapsRead(<<f, i>>) /\ i \in Left(f)
        /\ f \in Kept /\ i \in BlockId /\ pc = "done"
    BY <2>1, ReadByCaller
  <2> HIDE DEF f, i
  <2>3. Lowers \subseteq ReadCaps(<<f, i>>)
    BY <2>1, <2>2, CapsReadFacts
  <2>4. DOMAIN funcCFGMap[f] = Left(f)
    BY <2>1, <2>2, GraphFacts DEF Inv, GraphInv
  <2>5. ASSUME NEW C \in Components(cfg[f]), i \in C
        PROVE  /\ <<f, C \cap Left(f)>> \in DOMAIN recorded
               /\ Lowers \subseteq recorded[<<f, C \cap Left(f)>>]
    BY <2>1, <2>2, <2>3, <2>5, LoopRecord
  <2>6. QED
    BY <2>2, <2>4, <2>5 DEF f, i
<1>2. QED
  BY <1>1, RunInvariance, PTL
=============================================================================
