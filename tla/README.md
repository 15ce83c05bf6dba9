# Verification of PrivAnalysis

PrivAnalysis is a set of LLVM passes that find out which Linux capabilities a
program still needs at each point. This directory holds TLA+ models of the
passes, TLC configurations that check them on small instances, and TLAPS proofs.
Source lines are given as `file:line` of the repository (`src/`).

## 1. The system

### Components and how they interact

The passes run one after the other in one thread; each requires the one above
it and reads its tables through pointers.

| part | state | operations | gives the next part |
|---|---|---|---|
| SplitBB (`SplitBasicBlock.cpp`) | the module's blocks | `splitFunc` | blocks that start with a call of a defined function and hold no other |
| LocalAnalysis (`LocalAnalysis.cpp`), ADT (`ADT.cpp`) | `FuncCAPTable`, `BBCAPTable` | `runOnModule`, `RetrieveAllCAP`, `AddTo...Table`, `UnionCAPArrays` | the capabilities each block and function lowers itself |
| PrivCallGraph (`PrivGraph.cpp`) | `nodes`, `funcNodeMap`, callers and callees of each node, `bbInstMap`, `callinstFuncMap` | constructor, `addCallRelation`, `removeNode`, `removeUnreachableFuncs`, `DFS`, `getCalleeFromBB` | the graph of direct calls below `main` |
| CompressCG (`CompressCallGraph.cpp`) | `reachablePrivFunc`, `funcSCCMap`; filters the two tables in place | `removeUnneededFromCapTable`, `getReachablePrivFunc`, `removeUnprivFunc`, `computeSCCs`, `collectSCCCaps` | the compressed call graph, what each function reaches, recursive components with their capabilities |
| PrivCFG (`PrivGraph.cpp`) | `bbNodeMap`, predecessors and successors of each node | constructor, `addInheritance`, `removeNode` | the graph of one function |
| CompressCFG (`CompressCFG.cpp`) | `funcCFGMap`, `bbSCCMap`; inserts into `reachablePrivFunc` | `initializeCFG`, `removeUnprivBB`, `computeSCCs`, `collectSCCCaps` | compressed graphs, loops with their capabilities |
| PrivAnalysis, UnfoldCallee | none | empty `runOnModule` | nothing yet |
| the pass the results are for | none (not in the repository) | reads the compressed graphs and the tables | which privileges are still needed from a point on |
| run-time wrapper (`tests/priv.c`) | the thread's permitted and effective sets (kernel), a `cap_t` copy of them | `priv_raise`, `priv_lower`, `priv_remove`, `priv_lowerall` | the calls LocalAnalysis looks for, by name |

### What is hard

The passes do not run concurrently and persist nothing. The difficulties are:

* **Order.** Almost every loop runs over a hash set or hash map of pointers (or
  over LLVM's use list), so the order of removals, of searches and of unions is
  arbitrary. The models leave each such order open.
* **Removal with raw pointers.** `removeNode` of both graphs frees nodes whose
  addresses are in other nodes' sets.
* **Shared tables with insertion on read.** `operator[]` of a hash map inserts a
  default value; elsewhere the mere presence of a key is the answer.
* **Assumptions from pass to pass**: one call per block, every block reachable
  (the makefile runs the optimizer first), `main` still in the graph.
* **Recursion on cyclic graphs**, and **integer width** of the capability array.
* **Partial failure** in the wrapper: five library calls, each with an error
  path that has to free the copy and leave the process as it was.

`PROJECT.json` lists these under `hazards`, each at its line with the properties
aimed at it, or the reason why none is.

### What makes each part correct

* SplitBB: each collected call starts a block of its own; no instruction moves.
* LocalAnalysis: a table entry is the union of what the calls in that block name; the two tables agree.
* Call graph: links are inverse and lead to live nodes; after compression the
  nodes are those on a way from `main` to a privilege; `reachablePrivFunc` is exact.
* Components: all of them, each once, none in part, with the capabilities of
  everything they reach.
* Control-flow graphs: a link between two kept blocks exactly where the function
  has a path with only removed blocks inside; hence the same paths and loops.
* All passes together: what a run of the program lowers was read off the block of every active call
  and is in the record of every loop it is in, and what the compressed graphs have stopped listing is not
  needed again. Both hold but for the calls made by a block that lowers privileges itself, whose callee
  `collectSCCCaps` does not read (`CompressCFG.cpp:212-213`).
* The wrapper: a call takes its whole effect or none (`priv.h:33-34`); no handle is lost.

## 2. Modules

| module | models | state and actions |
|---|---|---|
| `Reachability` | the vocabulary: `Reach`, `Components`, `Contracted`, ... by closed sets, so TLC evaluates and TLAPS reasons about the same definition | operators |
| `ReachabilityTheorems` | lemmas about it | |
| `ADT` | capability tables as partial functions to sets of bits | `AddToTable`, `PerFunction` |
| `SplitBB` (proofs in `LocalPassesProofs`) | `splitFunc` | `layout` is the function's blocks, `CIs` the vector, `phase` and `bi` the two loops; `Collect` per instruction, `Split` per call |
| `LocalAnalysis`, `MCLocalAnalysis`, `LocalPassesProofs` | `runOnModule` over the uses of `priv_lower` | one action per kind of use; `ShiftLeft` gives the results `1 << iarg` may have |
| `DepthFirst`, `DepthFirstProofs` | `PrivCallGraph::DFS`, `CompressCG::DFS` | `stack` of active calls, `todo` per call, one action per call and return |
| `SCCSpec` | abstract: what `computeSCCs` promises | `Record` one more component |
| `Kosaraju`, `MCKosaraju`, `KosarajuProofs` | both `computeSCCs` with `forwardDFS`, `backwardDFS` | as `DepthFirst`, plus `order`, `processed`, `sccs` |
| `CompressCG`, `MCCompressCG`, `CompressCGProofs` | PrivCallGraph and the whole of `CompressCG::runOnModule` | one action per function scanned, per node removed, per phase and per component |
| `PrivCFG`, `MCPrivCFG`, `PrivCFGProofs` | one function's graph: constructor and `removeUnprivBB` with `removeNode` | `bbNodeMap`, `successors`, `predecessors`; one action per block |
| `CompressCFG`, `MCCompressCFG`, `CompressCFGProofs` | the pass over all functions and the tables it shares | `CompressFunction`, `StartSCC`, `CollectBlock` per block, `RecordSCC` |
| `Execution`, `MCExecution` (proofs in `CompressCFGProofs`) | `CompressCFG` followed by a run of the program it has analyzed | `stack` of frames; `CallKept`, `CallOther`, `PrivLower`, `Branch`, `Return`, in the order a block does them (SplitBB puts the call first); `CapsRead` reads a block as `collectSCCCaps` does, `Needed` is what is then still to be lowered |
| `PrivSpec` | abstract: what a call of the wrapper promises | `Begin`, `Succeed` with the whole effect or `Fail` without any, `End` |
| `PrivLib`, `MCPrivLib`, `PrivLibProofs` | `tests/priv.c`, library call by library call | `permitted`, `effective` (kernel), `copy` (the `cap_t`), `handles`; one action per library call and per way it fails |

Composition: `CompressCG` uses the result of the searches that `DepthFirst` and `Kosaraju`
take call by call; `CompressCFG` uses the result of `PrivCFG` (invariant
`Contraction`), of `Kosaraju` (`RecordsComponents`), and of `CompressCG` (invariant `ReachableExact` is its
initial condition); `Execution` extends `CompressCFG` and runs the program on what it leaves. The small
modules are checked call by call and the large ones can then take a whole search
as one step. `Init` of each is what the earlier pass establishes, and for each hand-off that is a
theorem (section 4): LocalAnalysis to `CompressCG`, `CompressCG` to `CompressCFG`, and both graphs to
`Kosaraju`, which assumes that the entry reaches the whole graph. Two abstract specifications are implemented by detailed ones
through `INSTANCE ... WITH`: `SCCSpec` by `Kosaraju` (only the recorded components are visible)
and `PrivSpec` by `PrivLib` (the copy is hidden; a step is visible when the kernel takes the copy).

A comment the model does not follow: `SplitBasicBlock.h:7` says a block is split after the
call; `splitBasicBlock(ci)` moves the call itself to the new block, so calls come first in their blocks
(`SplitBB!OneCallPerBlock`).

Pointers: a node is named by its function or block, so a dangling pointer is a
member of a link set that is not in `nodes` (`bbNodeMap`). Reading one makes
`pc` "undefined" or "nullptr". Definitions whose comment begins with `Faulty` are
alternatives with a bug, used to show that each property notices one.

## 3. Runs

| run | instance | shows |
|---|---|---|
| `SplitBB` | 5 instructions, every mix of calls, every division into up to 3 blocks, empty ones included | splitting establishes what the call graph and CompressCFG assume |
| `LocalAnalysis` | 3 uses, 2 functions with 2 blocks, capability sets around bit 31 | tables agree; in every order of the uses arrays are exact up to the sign bit of `int` |
| `LocalAnalysisWidth` | same | **violated:** `ADT.h:36` promises all 37 capabilities; `1 << iarg` is an `int` |
| `DepthFirst` | all graphs of 3 functions, all tables | the search ends, is complete, recursion is a simple path, no round undoes another |
| `Kosaraju` | all graphs of 4 nodes with at most 5 edges | refinement of `SCCSpec`, with liveness; the invariants the algorithm rests on; the components at the end; no round undoes another |
| `CompressCG` | 3 functions and 1 ignored, at most 2 direct calls each, all privileges | links, nodes, sizes, tables, reachability and capabilities at every step of the pass |
| `CompressCGMain` | same | **violated:** an unprivileged `main` is removed and then searched from |
| `PrivCFG` | all graphs of 4 blocks, all sets of privileged blocks | compression is a contraction, keeps loops, uses no freed node on optimized code |
| `PrivCFGDangling` | same | **violated:** `PrivGraph.cpp:390` when the removed block has no predecessor but itself |
| `CompressCFG` | any graph of 3 blocks for `main`, a looping callee and an unprivileged one | blocks kept, loops recorded and their capabilities are those of the full function |
| `Execution` | the same analysis with a loop in the callee and recursion, blocks that lower, call or do both, then every run of up to 3 active calls | what is lowered was read off the block of every active call and is in the record of every loop it is in; what is no longer listed is not needed again; a call out of a block that lowers is the only exception |
| `PrivLib` | 3 capabilities, up to 2 arguments, counts from 0 to 4, any library call may fail | refinement of `PrivSpec`, with liveness; handles freed once; no failure without a reason |

**Bounds.** `NumBB = 4` is the first size with two inner blocks on a loop
besides first and last: removal of adjacent blocks, self-loops, a loop that is
compressed to one block, and a loop between two removed blocks all occur. Four nodes and five
edges (`MaxEdges` of `MCKosaraju`) in `Kosaraju` give two components of two, one above the other, a
component of four, and chains of trivial and other components. Three functions
and a library in `CompressCG` give recursion away from `main`, unreachable
callers of reachable functions, and ignored functions that call. `MaxCalls`
(of `MCCompressCG`) bounds the calls of each function. In `MCCompressCG`, `MCCompressCFG` and
`MCExecution` each function (block) lowers a capability of its own, so a set of capabilities
shows whose were collected. `MCLocalAnalysis` takes its sets of arguments from
both sides of bits 31 and 32. `MaxFrames = 3` in `Execution` lets `main` call `f` and `f` call
`main` back, with a frame of the same function below and above another; a run that comes to the bound
stops there. `LastCap = 2` in `PrivLib` is the least for which a list can be accepted, be too long by one,
and still name two capabilities; `MaxArgs = 2` with counts up to 4 gives lists shorter and longer
than their count, repeated values and values that are no capability. In `SplitBB`, `NumInstr = 5` and
`MaxBlocks = 3` give a block with several calls before, between and behind others, and calls at both ends of
a block; `MaxBlocks` bounds the blocks before the split only. There is no other bound: every
model is finite and is explored completely.

**Symmetry** is used only in runs of invariants and action properties, over functions other than
`main`, blocks and uses that no definition distinguishes.

**Fairness.** `DepthFirst!FairSpec` and `Kosaraju!Fairness` assume weak fairness
of the one thread: an enabled step is taken. Nothing in the passes waits, so a
pass that is running goes on. No order among the
steps is assumed. `PrivLib!Fairness` is weak fairness of `Step`: once called, the wrapper runs on
(none of the library calls blocks); the program need not call it.

**Optimized code.** `PrivCFG!Optimized` (every block is reached from the
entry) is what `tests/Makefile:1-3` prescribes: `-O2` before the passes. The
properties that need it say so; `LinksConsistent` shows what happens without.

## 4. Proofs

All for every value of the constants; `tlapm` checks them without further assumptions
than the named `ASSUME`s of the modules: `root \in Node`; a function has a block; `main`
is a function that is not ignored and the set of functions is finite (in the compressed
control-flow graph: `main` is kept, entry and end are blocks, `None` is no function); a function has an instruction;
the arguments of `priv_lower` are sets of capabilities; the wrapper's arguments are sequences
of numbers up to one past the last capability; a run has room for at least one frame.

* **`ReachabilityTheorems`**: `ReachIn` is the least closed set: contains its
  start, is closed, transitive; paths can be split at the first and the last
  step; members of one component reach the same nodes; a part of a graph that is closed has
  the same reachability as the whole. For contraction: dropping one more node from a contracted
  graph is what `removeNode` does to the links (`ContractedStep`), and contraction preserves
  reachability (`ContractedReach`) and cycles (`ContractedCycle`) of the nodes it keeps.
* **`DepthFirstProofs`**: the inductive invariant adds to `TypeOK` that the
  active calls are distinct, visited, and linked by edges, and that every callee
  of a visited node is visited or is still in the `todo` set of an active call. When the stack
  is empty the visited set is therefore closed; being reached from the root as
  well, it is `Reach`. Theorems `TypeCorrect`, `RecursionIsPath`, `SearchCorrect`; by the pigeonhole
  principle a path without repetition is no longer than the graph has nodes (`RecursionBounded`). `SearchMovesOn`
  is the safety half of termination: each round enlarges the visited set, or keeps it and shrinks a
  `todo` set or the stack. That such rounds come to an end, and are taken, is what TLC checks (`Terminates`).
* **`CompressCGProofs`**: `Inv` is the conjunction of `TypeOK`, `GraphInv` (links
  inverse, to live nodes; map and set of nodes agree), `BuildInv` (what the constructor has
  added for the functions scanned so far), `PhaseInv` (per phase, which nodes are left
  and which are doomed) and `TableInv` (tables and `reachablePrivFunc` against the program). `PhaseInv`
  is what the properties lack to be inductive: in the middle of a removal the
  graph is neither the old nor the new one. The facts about removed parts come from
  `ReachPart` and `ReachClosedPart`: the nodes kept by the first removal are closed under callees,
  the ones dropped by the second are. Each invariant of the run is a theorem, and so is `MainReaches`: the graph that is left is empty or is reached from `main`.
  Two theorems are about what is handed on. `StartsSCCs`: when `computeSCCs` is called, `main` is left and the
  functions left satisfy the assumption and the initial condition of `Kosaraju`. `StartsCompressCFG`: at
  the end the graph and the filtered tables (`FilteredTable`) satisfy those of `CompressCFG`, if that pass
  is given the blocks of the same program (`BlocksOfProgram`).

* **`PrivCFGProofs`**: the inductive invariant says which links the constructor has made after
  each round (`BuildInv`), which blocks have a node at each point of the removal (`NodesInv`), and, on optimized
  code, that the links agree in both directions, lead to live nodes, and are those of the contraction
  to the blocks that are left (`GraphInv`). The last is needed because a node without
  another predecessor is removed badly (`PrivCFGDangling`): on optimized code every block
  other than the entry is reached, so in the contracted graph it has a live predecessor (`ContractedPred`), and then
  `removeNode` purges all links. Each invariant of the run is a theorem for every
  number of blocks, as are `PathsCorrect` (the kept blocks reach each other as in the function) and `BlocksLeft`. What is handed on
  follows: the contraction to the first, the last and the privileged blocks, which `CompressCFG` takes in one
  step (`HandsOnContraction`), and which satisfies what `Kosaraju` assumes (`StartsSCCs`).

* **`LocalPassesProofs`**: the two passes that look at one function at a time. LocalAnalysis: what one call
  of `AddToTable` does to a table and to its summary (`AddSummary`), and what `RetrieveAllCAP` returns (`ArrayType`,
  `ArrayInInt`). Every use then keeps the tables in agreement and the arrays exact up to the sign bit, for any set of
  uses in any order. `StartsCompressCG` hands the tables on to `CompressCG`.
  SplitBB: where the blocks of the function start, every instruction is in one block (`StartsCover`, by the
  least-number principle) and the instructions increase from position to position. A split
  takes each position to one of the old layout (`SplitPositions`), every instruction keeps one (`SplitCover`), and
  the order of two positions stays (`SplitOrder`), so `OrderKept` is preserved. `SplitBBInv` adds that while calls are collected
  the vector holds exactly those passed, and that from then on every call that is behind another instruction of
  its block, or in the first block, is still in the vector (`SplitInv`). A split takes one call from the vector and puts it
  in front of its block, and because no instruction occurs twice (`OrderKept`) it displaces no other one. When the vector is empty
  every call is in front of its block (`CallsPlaced`). Each invariant of the run is a theorem, for functions of any
  size and number of calls and any division into blocks.
* **`KosarajuProofs`**: four invariants in a row. `ForwardInv`: during the forward search a
  returned node leads back to an active call or all it reaches has returned. `OrderInv`: hence, in the
  finished list, a node that reaches an earlier-returned one and not back is later. `BackInv`: a backward search from the
  last unprocessed node visits what leads to it among the unprocessed nodes, which is its component.
  `SettledInv`: between searches the processed nodes are whole components with all their callers, and the
  recorded sets are those of them that hold a cycle. `StepsRecordComponents` is the safety part of the refinement of `SCCSpec`.
  The recursion is no deeper than the graph has nodes, in both directions (`RecursionBounded`).
  `SearchMovesOn` is the safety half of its termination: in the forward search the visited set, then the `todo` sets
  and the stack, in the loop over the list the processed set, then the list, the `todo` sets and the stack only move one way.
* **`PrivLibProofs`**: the invariant relates the copy to the kernel's sets and the values read, at each
  program counter; every step is then a step of `PrivSpec` or a stutter (`AllOrNothing`), for any number of
  capabilities and any argument lists.
* **`CompressCFGProofs`**: for the pass, the invariant keeps the tables it shares as `CompressCG` left
  them up to empty entries (`ReadInv`), each compressed graph the contraction to the blocks
  that may lower something (`GraphInv`), and the capabilities collected so far those of the blocks read
  (`RunningInv`, `RecordedInv`). `ContractedComponents` says that the components of a contracted graph are
  those of the whole less what is removed, and `RemovedIsIdle` that what is removed lowers nothing; together
  they give `LoopsExact`. All five invariants of the run are theorems. For the runs after it
  (`RunSpec`), a frame is always in the span of the last block it has passed that is left
  (`FrameOK`), so what it can come to is a successor in the compressed graph; and every active call leads to the
  functions of all the frames above it (`StackOK`), so what the top frame lowers is part of what can be read off
  the block of each call below. Neither the pass nor the invariant needs `LowersApart`: the records are what
  `collectSCCCaps` reads off the blocks left (`ReadCaps`), and only `LoopsExact`, which compares them with all
  a block may lower (`BlockCaps`), has that guard.
  `ForeseenCorrect` and `GivenUpForGood` hold for any program that makes direct calls and runs of any depth, with one
  exception stated in the properties: a block that lowers and calls is read for what it lowers only. A call it makes is not
  covered by `LowersForeseen`, and is the one step at which `NeededShrinks` lets privileges come back, no more
  than its callee reaches (`Skipped`). Where `priv_lower` is defined in the module, as in `tests/Makefile`, which links
  `priv.bc`, there is no such block (`OneCallCorrect`: SplitBB leaves a block one call, of `priv_lower` or
  of another function), and a privilege that is off the list can be given up for good.

A prefix `UNION` followed by another set operator is in parentheses throughout: the two tools
bind it differently.

Model-checked only: liveness (`Terminates`, the fairness parts of `ImplementsSCCSpec` and
`ImplementsPrivSpec`), which is beyond the prover. Every invariant and every action property of the passing runs is a
theorem. Induction over data and RECURSIVE operators are beyond the prover too, so no module uses either: reachability is
defined by closed sets, and what a block holds is found from the positions where blocks start.

### Observations without a run

* `CompressCFG.cpp:105` keeps `F.back()`, the last block of the layout, as the end of a function; it need not be
  the block that returns, although `CompressCFG.cpp:89-90` is about ending points (`PrivCFG!LastBlockStaysExit` says
  what does hold: if the last block is the one exit it stays so).
* `CompressCFG.cpp:213` looks at the callee of a block only if the block lowers nothing itself. When `priv_lower` is only
  declared in the module, SplitBB does not split at it and a block may do both, the call first; the loop is then recorded
  without what the callee reaches, although the comment at `CompressCFG.cpp:202-203` names both
  (`CompressCFG!LowersApart` is the condition under which records are exact, `Execution!Skipped` what is passed over).
* `priv.c:39` compares the count with `CAP_LAST_CAP`: a list of all capabilities is rejected although it fits. `PrivSpec`
  accepts what the code accepts, so no property speaks of this.
* Raised privileges are not counted: the lower of an inner pair takes away what the outer pair raised. Nothing promises
  otherwise, and `PrivSpec` lowers at once as the code does.
* The comments above `priv_lower` and `priv_remove` (`priv.h:40-41`, `priv.h:53-54`, `priv.c:80`) say "Raise the
  capability": copied from `priv_raise`. The model follows the code.

## 5. Not modelled

* The empty passes PrivAnalysis and UnfoldCallee; printing; test programs. `print_cap` changes nothing.
* Helpers of ADT without a caller (`CopyTableKeys`, `findCAPArraySize`,
  `DiffCAPArrays`, `ReverseCAPArray`, `IsCAPArrayEmpty`): no state of the program depends on them.
* Indirect calls: `PrivCallGraph` skips them (`PrivGraph.cpp:44`), so they are not in `calls`, and `Execution`
  makes direct calls only. A function that is only called through a pointer is dropped with its privileges.
* Calls of `priv_lower` through a cast, which LocalAnalysis skips (`SkipUser`) while the other passes look through them:
  the tables are defined by the direct calls.
* Insertion of NULL entries by `getCalleeFromBB`: they read as "no callee" before and after.
* `PrivLib`: a signal handler that calls the wrapper between `cap_get_proc` and `cap_set_proc` of an interrupted
  call (the programs of the repository install none), and negative counts (the size given to `alloca` would
  wrap; the counts of the repository's programs are positive literals).

## 6. Plan

Every component of the repository that has behaviour is modelled. What could still be added:

1. Larger instances of `Execution` (a second callee with privileges), if TLC's limits allow.
2. A model of the pass that will use the results, once the repository has one; `Needed` in `Execution` is the
   question it will ask.
