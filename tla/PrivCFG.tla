------------------------------ MODULE PrivCFG -------------------------------
(***************************************************************************)
(* The control-flow graph of one function (class PrivCFG of PrivGraph) and *)
(* its compression by CompressCFG::removeUnprivBB: the constructor copies  *)
(* LLVM's CFG into nodes with predecessor and successor sets, and then     *)
(* every unprivileged block but the first and the last is removed, each    *)
(* removal linking the predecessors of the block to its successors.        *)
(*                                                                         *)
(* Blocks are numbered in the layout order of the function, so the block   *)
(* iterator of both loops is a number.  Block pointers stay in the link    *)
(* sets after a node is deleted unless the code erases them, so a dangling *)
(* pointer is an element of a link set that is not in bbNodeMap.           *)
(***************************************************************************)
EXTENDS Integers, FiniteSets, Reachability

CONSTANT NumBB   \* number of basic blocks of the function

ASSUME NumBBAssumption == NumBB \in Nat \ {0}

Block == 1 .. NumBB
entry == 1       \* F.getEntryBlock()
end   == NumBB   \* F.back()

VARIABLES
  cfgSucc,       \* LLVM's successors(bb) (input, never written)
  privileged,    \* blocks in bbCapMap or whose callee reaches a priv-function (input)
  bbNodeMap,     \* blocks that have a live node
  successors,    \* PrivCFGNode::successors
  predecessors,  \* PrivCFGNode::predecessors
  fi,            \* the block iterator of the running loop
  pc             \* "build", "remove", "done"; "undefined" after a use of a freed node

inputs == <<cfgSucc, privileged>>
links  == <<bbNodeMap, successors, predecessors>>
vars   == <<inputs, links, fi, pc>>

\* In LLVM the entry block of a function has no predecessors.
CFGs == [Block -> SUBSET (Block \ {entry})]

\* With -O2 (tests/Makefile) the blocks control cannot reach are gone.
Optimized(succ) == Reach(succ, entry) = Block

TypeOK ==
  /\ cfgSucc \in CFGs
  /\ privileged \subseteq Block
  /\ bbNodeMap \subseteq Block
  /\ successors \in [Block -> SUBSET Block]
  /\ predecessors \in [Block -> SUBSET Block]
  /\ fi \in 1 .. NumBB + 1
  /\ pc \in {"build", "remove", "done", "undefined"}

-----------------------------------------------------------------------------
Init ==
  /\ cfgSucc \in CFGs
  /\ privileged \in SUBSET Block
  /\ bbNodeMap = {}
  /\ successors = [b \in Block |-> {}]
  /\ predecessors = [b \in Block |-> {}]
  /\ fi = entry
  /\ pc = "build"

\* One round of the constructor's loop: a node for the block, and both
\* links (addInheritance) with each of its neighbours.
BuildBlock ==
  /\ pc = "build" /\ fi \in Block
  /\ LET succs == cfgSucc[fi]
         preds == {b \in Block : fi \in cfgSucc[b]}
     IN  /\ bbNodeMap' = bbNodeMap \cup {fi} \cup succs \cup preds
         /\ successors' = [b \in Block |->
              successors[b] \cup (IF b = fi THEN succs ELSE {})
                            \cup (IF b \in preds THEN {fi} ELSE {})]
         /\ predecessors' = [b \in Block |->
              predecessors[b] \cup (IF b = fi THEN preds ELSE {})
                              \cup (IF b \in succs THEN {fi} ELSE {})]
  /\ fi' = fi + 1
  /\ UNCHANGED <<inputs, pc>>

StartRemoval ==
  /\ pc = "build" /\ fi \notin Block
  /\ pc' = "remove"
  /\ fi' = entry
  /\ UNCHANGED <<inputs, links>>

-----------------------------------------------------------------------------
\* The nodes removeNode(n) dereferences: the inner loop over the successors
\* runs once per predecessor, hence not at all without one.
Touched(n) ==
  LET preds == predecessors[n] \ {n}
      succs == successors[n] \ {n}
  IN  preds \cup (IF preds = {} THEN {} ELSE succs)

\* Faulty variants of removeNode for the mutation runs: the predecessor lists are
\* not purged; no links around a block with a self-loop; no link from a block to
\* itself.
RemoveNodeWith(n, preds, succs, purged) ==
  /\ bbNodeMap' = bbNodeMap \ {n}
  /\ successors' = [b \in Block |->
       IF b \in preds THEN (successors[b] \ {n}) \cup succs[b] ELSE successors[b]]
  /\ predecessors' = [b \in Block |->
       (predecessors[b] \ (IF b \in purged THEN {n} ELSE {}))
          \cup {p \in preds : b \in succs[p]}]

RemoveNodeNoPurge(n) ==
  RemoveNodeWith(n, predecessors[n] \ {n}, [b \in Block |-> successors[n] \ {n}], {})
RemoveNodeLoopLost(n) ==
  RemoveNodeWith(n, predecessors[n] \ {n},
                 [b \in Block |-> IF n \in successors[n] THEN {} ELSE successors[n]], Block)
RemoveNodeNoSelfLink(n) ==
  RemoveNodeWith(n, predecessors[n] \ {n}, [b \in Block |-> successors[n] \ {n, b}], Block)

\* PrivCFG::removeNode: link the predecessors of n to its successors, both
\* without n itself, and free n.
RemoveNode(n) ==
  LET preds == predecessors[n] \ {n}
      succs == successors[n] \ {n}
  IN  /\ bbNodeMap' = bbNodeMap \ {n}
      /\ successors' = [b \in Block |->
           IF b \in preds THEN (successors[b] \ {n}) \cup succs
                          ELSE successors[b]]
      /\ predecessors' = [b \in Block |->
           IF b \in succs /\ preds # {} THEN (predecessors[b] \ {n}) \cup preds
                                        ELSE predecessors[b]]

\* removeUnprivBB keeps the first block, the last block and the privileged ones.
IsKeptNoEnd(b) == b \in {entry} \cup privileged   \* faulty: the last block goes
IsKept(b) == b \in {entry, end} \cup privileged

\* Faulty: the loop runs one block too far.
KeepBlockPastEnd ==
  /\ pc = "remove" /\ fi <= NumBB + 1
  /\ fi \in Block => IsKept(fi)
  /\ fi' = fi + 1
  /\ UNCHANGED <<inputs, links, pc>>

KeepBlock ==
  /\ pc = "remove" /\ fi \in Block
  /\ IsKept(fi)
  /\ fi' = fi + 1
  /\ UNCHANGED <<inputs, links, pc>>

RemoveBlock ==
  /\ pc = "remove" /\ fi \in Block
  /\ ~ IsKept(fi)
  /\ Touched(fi) \subseteq bbNodeMap
  /\ RemoveNode(fi)
  /\ fi' = fi + 1
  /\ UNCHANGED <<inputs, pc>>

\* removeNode reads or writes a node that was deleted before.
UseAfterFree ==
  /\ pc = "remove" /\ fi \in Block
  /\ ~ IsKept(fi)
  /\ ~ Touched(fi) \subseteq bbNodeMap
  /\ pc' = "undefined"
  /\ UNCHANGED <<inputs, links, fi>>

Finish ==
  /\ pc = "remove" /\ fi \notin Block
  /\ pc' = "done"
  /\ UNCHANGED <<inputs, links, fi>>

\* The pass has ended.
Terminated == pc \in {"done", "undefined"} /\ UNCHANGED vars

Next ==
  \/ BuildBlock \/ StartRemoval
  \/ KeepBlock \/ RemoveBlock \/ UseAfterFree \/ Finish
  \/ Terminated

Spec == Init /\ [][Next]_vars

-----------------------------------------------------------------------------
\* The compressed graph as later passes walk it.
Compressed == [b \in bbNodeMap |-> successors[b]]

\* The links of a live node lead to live nodes and the two directions of every link
\* agree.  removeNode promises it for every graph: it erases the node "from all its
\* successors's predecessor list" (PrivGraph.cpp:390).
LinksConsistent ==
  \A b \in bbNodeMap :
    /\ successors[b] \cup predecessors[b] \subseteq bbNodeMap
    /\ \A s \in successors[b] : b \in predecessors[s]
    /\ \A p \in predecessors[b] : b \in successors[p]

\* On optimized code no deleted node is ever used and the links of the live
\* nodes always agree.
OptimizedIsSafe ==
  Optimized(cfgSucc) => pc # "undefined" /\ LinksConsistent

\* During the removal two live blocks are linked exactly when the function has
\* a path between them whose inner blocks were all removed: compression never
\* loses an order of privileged blocks and never skips a privileged block.
Contraction ==
  Optimized(cfgSucc) /\ pc \in {"remove", "done"} => Compressed = Contracted(cfgSucc, bbNodeMap)

\* Compression preserves which kept block can reach which, and which kept
\* blocks lie on a loop: the two facts computeSCCs depends on.
PathsKept ==
  Optimized(cfgSucc) /\ pc \in {"remove", "done"} =>
    \A u \in bbNodeMap : Reach(Compressed, u) = Reach(cfgSucc, u) \cap bbNodeMap

LoopsKept ==
  Optimized(cfgSucc) /\ pc \in {"remove", "done"} =>
    \A u \in bbNodeMap : OnCycle(Compressed, u) <=> OnCycle(cfgSucc, u)

\* The blocks left at the end are the first, the last and the privileged ones
\* ("remove 'unprivileged' basic blocks", CompressCFG.cpp:77).
OnlyNeededBlocksLeft ==
  pc = "done" => bbNodeMap = {entry, end} \cup privileged

Exits(succ) == {b \in DOMAIN succ : succ[b] = {}}

\* If the last block of the layout is the one exit of the function and every block can
\* get there, it is still the one exit after compression.  The last block is kept as
\* "otherwise there might be multiple ending points of a function" (CompressCFG.cpp:89-90);
\* F.back() is the last of the layout, which need not be the one that returns, and of a
\* function where it is not nothing follows.
LastBlockStaysExit ==
  /\ pc = "done" /\ Optimized(cfgSucc)
  /\ Exits(cfgSucc) = {end} /\ \A b \in Block : end \in Reach(cfgSucc, b)
  => Exits(Compressed) = {end}
=============================================================================
