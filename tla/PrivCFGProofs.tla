---------------------------- MODULE PrivCFGProofs ----------------------------
(***************************************************************************)
(* The compression of a control-flow graph, proved for functions of any    *)
(* size.  The inductive invariant says which blocks have a node at each    *)
(* point of the two loops, what the constructor has linked so far, and, on *)
(* optimized code, that the links are at every step of the removal those   *)
(* of the contracted graph, in both directions.                            *)
(***************************************************************************)
EXTENDS PrivCFG, ReachabilityTheorems

CONSTANT left   \* the blocks that are left

\* computeSCCs when it starts on the compressed graph.
SCC == INSTANCE Kosaraju WITH
  Node <- left, root <- entry, succ <- Compressed,
  stack <- <<entry>>, visited <- {entry}, order <- <<>>, processed <- {}, sccs <- {},
  todo <- [b \in left |-> IF b = entry THEN Compressed[entry] ELSE {}],
  pc <- "forward"

\* After fi - 1 rounds the constructor has made the links of every edge with an end
\* among the blocks it has passed, and has nodes for the ends of every link.
BuildInv ==
  pc = "build" =>
    /\ \A b \in Block : b < fi => b \in bbNodeMap
    /\ \A u, v \in Block : v \in successors[u] => u \in bbNodeMap /\ v \in bbNodeMap
    /\ \A u, v \in Block : v \in successors[u] <=> v \in cfgSucc[u] /\ (u < fi \/ v < fi)
    /\ \A u, v \in Block : u \in predecessors[v] <=> v \in successors[u]

\* During the removal the blocks ahead of the iterator and the kept ones have nodes.
NodesInv ==
  /\ pc = "remove" => \A b \in Block : b \in bbNodeMap <=> b >= fi \/ IsKept(b)
  /\ pc = "done" => \A b \in Block : b \in bbNodeMap <=> IsKept(b)

\* The live part of the graph on optimized code.
LinksInv ==
  /\ \A u \in bbNodeMap : successors[u] \cup predecessors[u] \subseteq bbNodeMap
  /\ \A u, v \in bbNodeMap : u \in predecessors[v] <=> v \in successors[u]

GraphInv ==
  Optimized(cfgSucc) =>
    /\ pc # "undefined"
    /\ pc \in {"remove", "done"} =>
         /\ LinksInv
         /\ \A u \in bbNodeMap : successors[u] = Contracted(cfgSucc, bbNodeMap)[u]

Inv == TypeOK /\ BuildInv /\ NodesInv /\ GraphInv

-----------------------------------------------------------------------------
\* The first and the last block are blocks, and kept.
LEMMA EndsKept ==
  entry \in Block /\ end \in Block /\ IsKept(entry) /\ IsKept(end)
BY NumBBAssumption DEF entry, end, Block, IsKept

\* LinksInv is what the property LinksConsistent says.
LEMMA LinksInvConsistent ==
  ASSUME TypeOK, LinksInv
  PROVE  LinksConsistent
BY DEF LinksInv, LinksConsistent, TypeOK

\* The graph before the first block.
LEMMA InitInv ==
  ASSUME Init
  PROVE  Inv
<1>1. TypeOK
  BY NumBBAssumption DEF Init, TypeOK, Block, entry
<1>2. BuildInv
  <2>1. \A b \in Block : ~ b < 1
    BY NumBBAssumption DEF Block
  <2>2. QED
    BY <2>1 DEF Init, BuildInv, entry
<1>3. NodesInv /\ GraphInv
  BY DEF Init, NodesInv, GraphInv
<1>4. QED
  BY <1>1, <1>2, <1>3 DEF Inv

\* One round of the constructor.
LEMMA BuildStep ==
  ASSUME Inv, BuildBlock
  PROVE  Inv'
<1> USE DEF Inv
<1> DEFINE succs == cfgSucc[fi]
           preds == {b \in Block : fi \in cfgSucc[b]}
<1>1. /\ pc = "build" /\ fi \in Block /\ pc' = "build" /\ fi' = fi + 1
      /\ cfgSucc' = cfgSucc /\ privileged' = privileged
      /\ bbNodeMap' = bbNodeMap \cup {fi} \cup succs \cup preds
  BY DEF BuildBlock, inputs
<1>2. /\ cfgSucc \in [Block -> SUBSET Block] /\ succs \subseteq Block /\ preds \subseteq Block
      /\ fi \in Nat /\ fi <= NumBB /\ Block \subseteq Nat
      /\ bbNodeMap \subseteq Block /\ successors \in [Block -> SUBSET Block]
      /\ predecessors \in [Block -> SUBSET Block]
  BY <1>1, NumBBAssumption DEF TypeOK, CFGs, Block
<1>3. successors' = [b \in Block |-> successors[b] \cup (IF b = fi THEN succs ELSE {})
                                              \cup (IF b \in preds THEN {fi} ELSE {})]
  BY DEF BuildBlock
<1>4. predecessors' = [b \in Block |-> predecessors[b] \cup (IF b = fi THEN preds ELSE {})
                                              \cup (IF b \in succs THEN {fi} ELSE {})]
  BY DEF BuildBlock
<1>5. ASSUME NEW u \in Block, NEW v \in Block
      PROVE  v \in successors'[u] <=> v \in successors[u] \/ (u = fi /\ v \in cfgSucc[u])
                                                       \/ (v = fi /\ v \in cfgSucc[u])
  BY <1>2, <1>3
<1>6. ASSUME NEW u \in Block, NEW v \in Block
      PROVE  u \in predecessors'[v] <=> u \in predecessors[v] \/ (u = fi /\ v \in cfgSucc[u])
                                                           \/ (v = fi /\ v \in cfgSucc[u])
  BY <1>2, <1>4
<1>7. TypeOK'
  <2>1. successors' \in [Block -> SUBSET Block]
    BY <1>1, <1>2, <1>3
  <2>2. predecessors' \in [Block -> SUBSET Block]
    BY <1>1, <1>2, <1>4
  <2>3. fi' \in 1 .. NumBB + 1
    BY <1>1, <1>2, NumBBAssumption
  <2>4. QED
    BY <1>1, <1>2, <2>1, <2>2, <2>3 DEF TypeOK
<1>8. BuildInv'
  <2>1. \A b \in Block : b < fi' <=> b < fi \/ b = fi
    BY <1>1, <1>2
  <2>2. \A b \in Block : b < fi' => b \in bbNodeMap'
    BY <1>1, <2>1 DEF BuildInv
  <2>3. \A u, v \in Block : v \in successors'[u] => u \in bbNodeMap' /\ v \in bbNodeMap'
    BY <1>1, <1>2, <1>5 DEF BuildInv
  <2>4. \A u, v \in Block : v \in successors'[u] <=> v \in cfgSucc'[u] /\ (u < fi' \/ v < fi')
    BY <1>1, <1>5, <2>1 DEF BuildInv
  <2>5. \A u, v \in Block : u \in predecessors'[v] <=> v \in successors'[u]
    BY <1>1, <1>5, <1>6 DEF BuildInv
  <2>6. QED
    BY <2>2, <2>3, <2>4, <2>5 DEF BuildInv
<1>9. NodesInv' /\ GraphInv'
  BY <1>1 DEF NodesInv, GraphInv
<1>10. QED
  BY <1>7, <1>8, <1>9

\* The whole graph is built when the removal starts.
LEMMA StartStep ==
  ASSUME Inv, StartRemoval
  PROVE  Inv'
<1> USE DEF Inv
<1>1. /\ pc = "build" /\ fi \notin Block /\ pc' = "remove" /\ fi' = 1
      /\ cfgSucc' = cfgSucc /\ privileged' = privileged /\ bbNodeMap' = bbNodeMap
      /\ successors' = successors /\ predecessors' = predecessors
  BY DEF StartRemoval, inputs, links, entry
<1>2. \A b \in Block : b < fi /\ b >= 1
  BY <1>1, NumBBAssumption DEF TypeOK, Block
<1>3. bbNodeMap = Block
  BY <1>1, <1>2 DEF BuildInv, TypeOK
<1>4. TypeOK'
  BY <1>1, NumBBAssumption DEF TypeOK
<1>5. NodesInv'
  BY <1>1, <1>2, <1>3 DEF NodesInv, IsKept
<1>6. cfgSucc \in [Block -> SUBSET Block] /\ successors \in [Block -> SUBSET Block]
  BY DEF TypeOK, CFGs
<1>7. successors = cfgSucc
  <2>1. ASSUME NEW u \in Block PROVE successors[u] = cfgSucc[u]
    <3>1. \A v \in Block : v \in successors[u] <=> v \in cfgSucc[u]
      BY <1>1, <1>2 DEF BuildInv
    <3>2. QED
      BY <1>6, <3>1
  <2>2. QED
    BY <1>6, <2>1
<1>8. LinksInv
  BY <1>1, <1>3 DEF LinksInv, BuildInv, TypeOK
<1>9. Contracted(cfgSucc, Block) = cfgSucc
  BY <1>6, ContractedAll
<1>10. GraphInv'
  BY <1>1, <1>3, <1>7, <1>8, <1>9 DEF GraphInv, LinksInv
<1>11. QED
  BY <1>1, <1>4, <1>5, <1>10 DEF BuildInv

\* A kept block is passed.
LEMMA KeepStep ==
  ASSUME Inv, KeepBlock
  PROVE  Inv'
<1> USE DEF Inv
<1>1. /\ pc = "remove" /\ fi \in Block /\ IsKept(fi) /\ pc' = "remove" /\ fi' = fi + 1
      /\ cfgSucc' = cfgSucc /\ privileged' = privileged /\ bbNodeMap' = bbNodeMap
      /\ successors' = successors /\ predecessors' = predecessors
  BY DEF KeepBlock, inputs, links
<1>2. \A b \in Block : b >= fi <=> b >= fi' \/ b = fi
  BY <1>1, NumBBAssumption DEF Block
<1>3. TypeOK'
  BY <1>1, NumBBAssumption DEF TypeOK, Block
<1>4. NodesInv'
  BY <1>1, <1>2 DEF NodesInv, IsKept
<1>5. GraphInv'
  BY <1>1 DEF GraphInv, LinksInv
<1>6. QED
  BY <1>1, <1>3, <1>4, <1>5 DEF BuildInv

-----------------------------------------------------------------------------
\* What removeNode needs of the graph on optimized code: the block has a node, it has a
\* predecessor other than itself, and its neighbours have nodes.
LEMMA RemovalFacts ==
  ASSUME Inv, pc = "remove", fi \in Block, ~ IsKept(fi), Optimized(cfgSucc)
  PROVE  /\ fi \in bbNodeMap
         /\ predecessors[fi] \ {fi} # {}
         /\ successors[fi] \cup predecessors[fi] \subseteq bbNodeMap
<1> USE DEF Inv
<1>1. cfgSucc \in [Block -> SUBSET Block] /\ bbNodeMap \in SUBSET Block
  BY DEF TypeOK, CFGs
<1>2. fi \in bbNodeMap
  BY NumBBAssumption DEF NodesInv, Block
<1>3. entry \in bbNodeMap /\ fi # entry /\ fi \in Reach(cfgSucc, entry)
  BY EndsKept DEF NodesInv, Optimized
<1>4. PICK u \in bbNodeMap : u # fi /\ fi \in Contracted(cfgSucc, bbNodeMap)[u]
  BY <1>1, <1>2, <1>3, ContractedPred
<1>5. u \in predecessors[fi]
  BY <1>2, <1>4 DEF GraphInv, LinksInv
<1>6. QED
  BY <1>2, <1>4, <1>5 DEF GraphInv, LinksInv

\* The links of the live nodes after removeNode(n).
LEMMA RemoveNodeLinks ==
  ASSUME TypeOK, LinksInv, NEW n \in bbNodeMap, RemoveNode(n),
         predecessors[n] \ {n} # {},
         NEW u \in bbNodeMap \ {n}
  PROVE  /\ \A v : v \in successors'[u] <=>
                v # n /\ (v \in successors[u] \/ (n \in successors[u] /\ v \in successors[n]))
         /\ \A v : v \in predecessors'[u] <=>
                v # n /\ (v \in predecessors[u] \/ (n \in predecessors[u] /\ v \in predecessors[n]))
<1>1. u \in Block /\ u # n
  BY DEF TypeOK
<1>2. u \in predecessors[n] <=> n \in successors[u]
  BY DEF LinksInv
<1>3. n \in predecessors[u] <=> u \in successors[n]
  BY DEF LinksInv
<1>4. successors'[u] = IF u \in predecessors[n] \ {n}
                       THEN (successors[u] \ {n}) \cup (successors[n] \ {n})
                       ELSE successors[u]
  BY <1>1 DEF RemoveNode
<1>5. predecessors'[u] = IF u \in successors[n] \ {n}
                         THEN (predecessors[u] \ {n}) \cup (predecessors[n] \ {n})
                         ELSE predecessors[u]
  BY <1>1 DEF RemoveNode
<1>6. QED
  BY <1>1, <1>2, <1>3, <1>4, <1>5

\* removeNode keeps the links of the live nodes consistent.
LEMMA RemoveNodeLinksInv ==
  ASSUME TypeOK, LinksInv, NEW n \in bbNodeMap, RemoveNode(n),
         predecessors[n] \ {n} # {}
  PROVE  LinksInv'
<1>1. bbNodeMap' = bbNodeMap \ {n}
  BY DEF RemoveNode
<1>2. \A u \in bbNodeMap : successors[u] \cup predecessors[u] \subseteq bbNodeMap
  BY DEF LinksInv
<1>3. \A u, v \in bbNodeMap : u \in predecessors[v] <=> v \in successors[u]
  BY DEF LinksInv
<1>4. ASSUME NEW u \in bbNodeMap'
      PROVE  successors'[u] \cup predecessors'[u] \subseteq bbNodeMap'
  <2>1. u \in bbNodeMap \ {n}
    BY <1>1, <1>4
  <2>2. \A v : v \in successors'[u] =>
                 v # n /\ (v \in successors[u] \/ v \in successors[n])
    BY <2>1, RemoveNodeLinks
  <2>3. \A v : v \in predecessors'[u] =>
                 v # n /\ (v \in predecessors[u] \/ v \in predecessors[n])
    BY <2>1, RemoveNodeLinks
  <2>4. QED
    BY <1>1, <1>2, <2>1, <2>2, <2>3
<1>5. ASSUME NEW u \in bbNodeMap', NEW v \in bbNodeMap'
      PROVE  u \in predecessors'[v] <=> v \in successors'[u]
  <2>1. u \in bbNodeMap \ {n} /\ v \in bbNodeMap \ {n}
    BY <1>1, <1>5
  <2>2. v \in successors'[u] <=> v \in successors[u] \/ (n \in successors[u] /\ v \in successors[n])
    BY <2>1, RemoveNodeLinks
  <2>3. u \in predecessors'[v] <=>
          u \in predecessors[v] \/ (n \in predecessors[v] /\ u \in predecessors[n])
    BY <2>1, RemoveNodeLinks
  <2>4. QED
    BY <1>3, <2>1, <2>2, <2>3
<1>6. QED
  BY <1>4, <1>5 DEF LinksInv

\* An unneeded block is removed.
LEMMA RemoveStep ==
  ASSUME Inv, RemoveBlock
  PROVE  Inv'
<1> USE DEF Inv
<1>1. /\ pc = "remove" /\ fi \in Block /\ ~ IsKept(fi) /\ pc' = "remove" /\ fi' = fi + 1
      /\ cfgSucc' = cfgSucc /\ privileged' = privileged /\ RemoveNode(fi)
  BY DEF RemoveBlock, inputs
<1>2. bbNodeMap' = bbNodeMap \ {fi}
  BY <1>1 DEF RemoveNode
<1>3. TypeOK'
  <2>1. successors \in [Block -> SUBSET Block] /\ predecessors \in [Block -> SUBSET Block]
    BY DEF TypeOK
  <2>2. successors' \in [Block -> SUBSET Block]
    BY <1>1, <2>1 DEF RemoveNode
  <2>3. predecessors' \in [Block -> SUBSET Block]
    BY <1>1, <2>1 DEF RemoveNode
  <2>4. fi' \in 1 .. NumBB + 1
    BY <1>1, NumBBAssumption DEF Block
  <2>5. bbNodeMap' \subseteq Block
    BY <1>2 DEF TypeOK
  <2>6. QED
    BY <1>1, <2>2, <2>3, <2>4, <2>5 DEF TypeOK
<1>4. NodesInv'
  <2>1. \A b \in Block : b >= fi <=> b >= fi' \/ b = fi
    BY <1>1, NumBBAssumption DEF Block
  <2>2. ~ fi >= fi'
    BY <1>1, NumBBAssumption DEF Block
  <2>3. QED
    BY <1>1, <1>2, <2>1, <2>2 DEF NodesInv, IsKept
<1>5. GraphInv'
  <2>1. SUFFICES ASSUME Optimized(cfgSucc)
                 PROVE  /\ LinksInv'
                        /\ \A u \in bbNodeMap' : successors'[u] = Contracted(cfgSucc, bbNodeMap')[u]
    BY <1>1 DEF GraphInv
  <2>2. fi \in bbNodeMap /\ predecessors[fi] \ {fi} # {}
    BY <1>1, <2>1, RemovalFacts
  <2>3. LinksInv /\ \A u \in bbNodeMap : successors[u] = Contracted(cfgSucc, bbNodeMap)[u]
    BY <1>1, <2>1 DEF GraphInv
  <2>4. LinksInv'
    BY <1>1, <2>2, <2>3, RemoveNodeLinksInv
  <2>5. cfgSucc \in [Block -> SUBSET Block] /\ bbNodeMap \in SUBSET Block
    BY DEF TypeOK, CFGs
  <2>6. ASSUME NEW u \in bbNodeMap'
        PROVE  successors'[u] = Contracted(cfgSucc, bbNodeMap')[u]
    <3>1. u \in bbNodeMap \ {fi}
      BY <1>2, <2>6
    <3>2. Contracted(cfgSucc, bbNodeMap \ {fi})[u] =
            IF fi \in Contracted(cfgSucc, bbNodeMap)[u]
            THEN (Contracted(cfgSucc, bbNodeMap)[u] \cup Contracted(cfgSucc, bbNodeMap)[fi]) \ {fi}
            ELSE Contracted(cfgSucc, bbNodeMap)[u]
      BY <2>2, <2>5, <3>1, ContractedStep
    <3>3. \A v : v \in successors'[u] <=>
                v # fi /\ (v \in successors[u] \/ (fi \in successors[u] /\ v \in successors[fi]))
      BY <1>1, <2>2, <2>3, <3>1, RemoveNodeLinks
    <3>4. /\ successors[u] = Contracted(cfgSucc, bbNodeMap)[u]
          /\ successors[fi] = Contracted(cfgSucc, bbNodeMap)[fi]
      BY <2>2, <2>3, <3>1
    <3>5. \A v : v \in successors'[u] <=> v \in Contracted(cfgSucc, bbNodeMap \ {fi})[u]
      BY <3>2, <3>3, <3>4
    <3>6. QED
      BY <1>2, <3>5
  <2>7. QED
    BY <2>4, <2>6
<1>6. QED
  BY <1>1, <1>3, <1>4, <1>5 DEF BuildInv

\* A freed node is never used on optimized code.
LEMMA UseAfterFreeStep ==
  ASSUME Inv, UseAfterFree
  PROVE  Inv'
<1> USE DEF Inv
<1>1. /\ pc = "remove" /\ fi \in Block /\ ~ IsKept(fi) /\ ~ Touched(fi) \subseteq bbNodeMap
      /\ pc' = "undefined" /\ fi' = fi /\ cfgSucc' = cfgSucc /\ privileged' = privileged
      /\ bbNodeMap' = bbNodeMap /\ successors' = successors /\ predecessors' = predecessors
  BY DEF UseAfterFree, inputs, links
<1>2. ~ Optimized(cfgSucc)
  <2>1. SUFFICES ASSUME Optimized(cfgSucc) PROVE FALSE
    OBVIOUS
  <2>2. successors[fi] \cup predecessors[fi] \subseteq bbNodeMap
    BY <1>1, <2>1, RemovalFacts
  <2>3. Touched(fi) \subseteq bbNodeMap
    BY <2>2 DEF Touched
  <2>4. QED
    BY <1>1, <2>3
<1>3. TypeOK'
  BY <1>1 DEF TypeOK
<1>4. QED
  BY <1>1, <1>2, <1>3 DEF BuildInv, NodesInv, GraphInv, Optimized

\* All blocks have been passed.
LEMMA FinishStep ==
  ASSUME Inv, Finish
  PROVE  Inv'
<1> USE DEF Inv
<1>1. /\ pc = "remove" /\ fi \notin Block /\ pc' = "done" /\ fi' = fi
      /\ cfgSucc' = cfgSucc /\ privileged' = privileged
      /\ bbNodeMap' = bbNodeMap /\ successors' = successors /\ predecessors' = predecessors
  BY DEF Finish, inputs, links
<1>2. \A b \in Block : ~ b >= fi
  BY <1>1, NumBBAssumption DEF TypeOK, Block
<1>3. TypeOK'
  BY <1>1 DEF TypeOK
<1>4. NodesInv'
  BY <1>1, <1>2 DEF NodesInv, IsKept
<1>5. GraphInv'
  BY <1>1 DEF GraphInv, LinksInv
<1>6. QED
  BY <1>1, <1>3, <1>4, <1>5 DEF BuildInv

\* The inductive invariant.
THEOREM Invariance == Spec => []Inv
<1>1. Init => Inv
  BY InitInv
<1>2. Inv /\ [Next]_vars => Inv'
  <2>1. SUFFICES ASSUME Inv, [Next]_vars PROVE Inv'
    OBVIOUS
  <2>2. CASE UNCHANGED vars
    BY <2>1, <2>2 DEF vars, inputs, links, Inv, TypeOK, BuildInv, NodesInv, GraphInv, LinksInv,
                      IsKept
  <2>3. QED
    BY <2>1, <2>2, BuildStep, StartStep, KeepStep, RemoveStep, UseAfterFreeStep, FinishStep
    DEF Next, Terminated
<1>3. QED
  BY <1>1, <1>2, PTL DEF Spec

-----------------------------------------------------------------------------
\* The types of the graph and of the block iterator, which never runs past the end of
\* the function.
THEOREM TypeCorrect == Spec => []TypeOK
<1>1. Inv => TypeOK
  BY DEF Inv
<1>2. QED
  BY <1>1, Invariance, PTL

\* On optimized code no pointer to a freed node is followed or left in a live node, for
\* every function and every set of blocks that are kept.
THEOREM SafeOnOptimized == Spec => []OptimizedIsSafe
<1>1. ASSUME Inv PROVE OptimizedIsSafe
  <2>1. SUFFICES ASSUME Optimized(cfgSucc) PROVE pc # "undefined" /\ LinksConsistent
    BY DEF OptimizedIsSafe
  <2>2. pc # "undefined" /\ TypeOK
    BY <1>1, <2>1 DEF Inv, GraphInv
  <2>3. CASE pc \in {"remove", "done"}
    BY <1>1, <2>1, <2>2, <2>3, LinksInvConsistent DEF Inv, GraphInv
  <2>4. CASE pc = "build"
    BY <1>1, <2>2, <2>4 DEF Inv, BuildInv, TypeOK, LinksConsistent
  <2>5. QED
    BY <2>2, <2>3, <2>4 DEF TypeOK
<1>2. QED
  BY <1>1, Invariance, PTL

\* At every step of the removal the graph is the contraction of the function's graph to
\* the blocks that are left.
LEMMA InvContraction ==
  ASSUME Inv, Optimized(cfgSucc), pc \in {"remove", "done"}
  PROVE  /\ Compressed = Contracted(cfgSucc, bbNodeMap)
         /\ cfgSucc \in [Block -> SUBSET Block]
         /\ bbNodeMap \in SUBSET Block
<1>1. \A u \in bbNodeMap : successors[u] = Contracted(cfgSucc, bbNodeMap)[u]
  BY DEF Inv, GraphInv
<1>2. Contracted(cfgSucc, bbNodeMap) \in [bbNodeMap -> SUBSET bbNodeMap]
  BY ContractedType
<1>3. Compressed = Contracted(cfgSucc, bbNodeMap)
  BY <1>1, <1>2 DEF Compressed
<1>4. QED
  BY <1>3 DEF Inv, TypeOK, CFGs

\* Removal never loses and never invents an order of kept blocks, whatever the layout.
THEOREM ContractionCorrect == Spec => []Contraction
<1>1. Inv => Contraction
  BY InvContraction DEF Contraction
<1>2. QED
  BY <1>1, Invariance, PTL

\* The blocks left reach the same blocks as in the function.
THEOREM PathsCorrect == Spec => []PathsKept
<1>1. ASSUME Inv PROVE PathsKept
  <2>1. SUFFICES ASSUME Optimized(cfgSucc), pc \in {"remove", "done"}, NEW u \in bbNodeMap
                 PROVE  Reach(Compressed, u) = Reach(cfgSucc, u) \cap bbNodeMap
    BY DEF PathsKept
  <2>2. QED
    BY <1>1, <2>1, InvContraction, ContractedReach
<1>2. QED
  BY <1>1, Invariance, PTL

\* The blocks left lie on a loop exactly if they do in the function.
THEOREM LoopsCorrect == Spec => []LoopsKept
<1>1. ASSUME Inv PROVE LoopsKept
  <2>1. SUFFICES ASSUME Optimized(cfgSucc), pc \in {"remove", "done"}, NEW u \in bbNodeMap
                 PROVE  OnCycle(Compressed, u) <=> OnCycle(cfgSucc, u)
    BY DEF LoopsKept
  <2>2. QED
    BY <1>1, <2>1, InvContraction, ContractedCycle
<1>2. QED
  BY <1>1, Invariance, PTL

\* The blocks left at the end are the first, the last and the privileged ones, for every
\* function, optimized or not.
THEOREM BlocksLeft == Spec => []OnlyNeededBlocksLeft
<1>1. ASSUME Inv PROVE OnlyNeededBlocksLeft
  BY <1>1, EndsKept DEF Inv, NodesInv, TypeOK, OnlyNeededBlocksLeft, IsKept
<1>2. QED
  BY <1>1, Invariance, PTL

\* If the last block of the layout is the one exit, reached from everywhere, it stays the
\* one exit: every other block keeps a successor on its way there.
THEOREM ExitStays == Spec => []LastBlockStaysExit
<1>1. ASSUME Inv PROVE LastBlockStaysExit
  <2>1. SUFFICES ASSUME pc = "done", Optimized(cfgSucc), Exits(cfgSucc) = {end},
                        \A b \in Block : end \in Reach(cfgSucc, b)
                 PROVE  Exits(Compressed) = {end}
    BY DEF LastBlockStaysExit
  <2> DEFINE C == Contracted(cfgSucc, bbNodeMap)
  <2>2. Compressed = C /\ cfgSucc \in [Block -> SUBSET Block] /\ bbNodeMap \in SUBSET Block
    BY <1>1, <2>1, InvContraction
  <2>3. C \in [bbNodeMap -> SUBSET bbNodeMap]
    BY ContractedType
  <2>4. end \in bbNodeMap /\ end \in Block
    BY <1>1, <2>1, EndsKept DEF Inv, NodesInv
  <2>5. cfgSucc[end] = {}
    BY <2>1 DEF Exits
  <2>6. \A v : v \in C[end] <=> v \in bbNodeMap /\ \E x \in Span(cfgSucc, bbNodeMap, end) : v \in cfgSucc[x]
    BY <2>4, ContractedEdges
  <2>7. Span(cfgSucc, bbNodeMap, end) \subseteq {end}
    <3>1. end \in {end} /\ {end} \in SUBSET Block
      BY <2>4
    <3>2. \A x \in {end} : \A y \in cfgSucc[x] : y \notin bbNodeMap => y \in {end}
      BY <2>5
    <3>3. QED
      BY <2>2, <3>1, <3>2, SpanLeast
  <2>8. C[end] = {}
    BY <2>5, <2>6, <2>7
  <2>9. ASSUME NEW b \in bbNodeMap, b # end PROVE C[b] # {}
    <3>1. end \in Reach(cfgSucc, b) \cap bbNodeMap
      BY <2>1, <2>2, <2>4, <2>9
    <3>2. end \in Reach(C, b)
      BY <2>2, <2>9, <3>1, ContractedReach
    <3> HIDE DEF C
    <3>3. Reach(C, b) = {b} \cup UNION {Reach(C, m) : m \in C[b]}
      BY <2>3, <2>9, ReachFirst
    <3>4. QED
      BY <2>9, <3>2, <3>3
  <2> HIDE DEF C
  <2>10. QED
    BY <2>2, <2>3, <2>4, <2>8, <2>9 DEF Exits
<1>2. QED
  BY <1>1, Invariance, PTL

\* The graph that is handed on is the one CompressCFG starts computeSCCs and the collection
\* of capabilities from: the contraction to the kept blocks, whatever the layout.
THEOREM HandsOnContraction ==
  Spec => [](pc = "done" /\ Optimized(cfgSucc)
               => Compressed = Contracted(cfgSucc, {entry, end} \cup privileged))
<1>1. Inv => OnlyNeededBlocksLeft
  BY EndsKept DEF Inv, NodesInv, TypeOK, OnlyNeededBlocksLeft, IsKept
<1>2. Inv => (pc = "done" /\ Optimized(cfgSucc)
                => Compressed = Contracted(cfgSucc, {entry, end} \cup privileged))
  BY <1>1, InvContraction DEF OnlyNeededBlocksLeft
<1>3. QED
  BY <1>2, Invariance, PTL

\* Of optimized code every block that is left is reached from the first one: computeSCCs,
\* which searches from there only, starts on a graph it can see the whole of.
THEOREM StartsSCCs ==
  Spec => [](pc = "done" /\ Optimized(cfgSucc) /\ bbNodeMap = left
               => SCC!RootAssumption /\ SCC!Init)
<1>1. ASSUME Inv, pc = "done", Optimized(cfgSucc), bbNodeMap = left
      PROVE  SCC!RootAssumption /\ SCC!Init
  <2>1. /\ Compressed = Contracted(cfgSucc, left)
        /\ cfgSucc \in [Block -> SUBSET Block] /\ left \in SUBSET Block
    BY <1>1, InvContraction
  <2>2. Compressed \in [left -> SUBSET left]
    BY <2>1, ContractedType
  <2>3. entry \in left
    BY <1>1, EndsKept DEF Inv, NodesInv
  <2>4. Reach(Compressed, entry) = left
    <3>1. Reach(Compressed, entry) = Reach(cfgSucc, entry) \cap left
      BY <2>1, <2>3, ContractedReach
    <3>2. QED
      BY <1>1, <2>1, <3>1 DEF Optimized
  <2>5. SCC!Reach(Compressed, entry) = Reach(Compressed, entry)
    BY DEF SCC!Reach, SCC!ReachIn, SCC!ClosedIn, Reach, ReachIn, ClosedIn
  <2>6. SCC!Init
    BY <2>2, <2>4, <2>5 DEF SCC!Init
  <2>7. QED
    BY <2>3, <2>6 DEF SCC!RootAssumption
<1>2. Inv => (pc = "done" /\ Optimized(cfgSucc) /\ bbNodeMap = left
                => SCC!RootAssumption /\ SCC!Init)
  BY <1>1
<1>3. QED
  BY <1>2, Invariance, PTL
=============================================================================
