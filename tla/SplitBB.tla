------------------------------ MODULE SplitBB -------------------------------
(***************************************************************************)
(* The pass SplitBB on one function: collect every call that is indirect   *)
(* or whose callee has a body, then split the block of each, in that       *)
(* order, so that the call starts a block.  Instructions are numbered in   *)
(* program order; a block is the sequence of its instructions without the  *)
(* terminator: it may be empty, and the one splitBasicBlock leaves in      *)
(* front of a call that was first is.  The names LocalAnalysis has too are *)
(* prefixed: the proofs about the two passes over instructions share a     *)
(* module.                                                                 *)
(***************************************************************************)
EXTENDS Naturals, Sequences

CONSTANTS
  NumInstr,   \* number of instructions of the function
  MaxBlocks   \* bound on its blocks before the pass

ASSUME InstrAssumption == NumInstr \in Nat \ {0} /\ MaxBlocks \in Nat \ {0}

Instr == 1 .. NumInstr
Kind  == {"call",     \* indirect, or of a function with a body
          "libcall",  \* of a declaration
          "other"}

VARIABLES
  kind,     \* what the instructions are (input)
  layout,   \* the blocks in the order of the function
  bi,       \* the instruction the two loops over blocks and instructions have come to
  CIs,      \* the calls collected and not split at yet
  phase     \* "collect", "split", "done"

splitVars == <<kind, layout, bi, CIs, phase>>

Calls == {i \in Instr : kind[i] = "call"}

SplitTypeOK ==
  /\ kind \in [Instr -> Kind]
  /\ layout \in Seq(Seq(Instr)) /\ layout # <<>>
  /\ bi \in 1 .. NumInstr + 1
  /\ CIs \in Seq(Calls)
  /\ phase \in {"collect", "split", "done"}

\* Where the blocks of a function may start, one after the other.
Starts ==
  {start \in UNION {[1 .. n -> 1 .. NumInstr + 1] : n \in 1 .. MaxBlocks} :
     start[1] = 1 /\ \A b, c \in 1 .. Len(start) : b <= c => start[b] <= start[c]}

After(start, b) == IF b = Len(start) THEN NumInstr + 1 ELSE start[b + 1]

BlocksAt(start) ==
  [b \in 1 .. Len(start) |-> [k \in 1 .. After(start, b) - start[b] |-> start[b] + k - 1]]

SplitInit ==
  /\ kind \in [Instr -> Kind]
  /\ \E start \in Starts : layout = BlocksAt(start)
  /\ bi = 1
  /\ CIs = <<>>
  /\ phase = "collect"

\* Faulty: one split point per block.
InOneBlock(i, j) ==
  \E b \in DOMAIN layout : \E k, l \in DOMAIN layout[b] : layout[b][k] = i /\ layout[b][l] = j
CollectFirst ==
  /\ phase = "collect" /\ bi \in Instr
  /\ CIs' = IF bi \in Calls /\ \A n \in DOMAIN CIs : ~ InOneBlock(CIs[n], bi)
            THEN Append(CIs, bi) ELSE CIs
  /\ bi' = bi + 1
  /\ UNCHANGED <<kind, layout, phase>>

\* Faulty: calls of declarations are not skipped.
CollectLibcalls ==
  /\ phase = "collect" /\ bi \in Instr
  /\ CIs' = IF kind[bi] # "other" THEN Append(CIs, bi) ELSE CIs
  /\ bi' = bi + 1
  /\ UNCHANGED <<kind, layout, phase>>

\* One round of the inner loop.
Collect ==
  /\ phase = "collect" /\ bi \in Instr
  /\ CIs' = IF bi \in Calls THEN Append(CIs, bi) ELSE CIs
  /\ bi' = bi + 1
  /\ UNCHANGED <<kind, layout, phase>>

StartSplit ==
  /\ phase = "collect" /\ bi \notin Instr
  /\ phase' = "split"
  /\ UNCHANGED <<kind, layout, bi, CIs>>

\* Faulty: the new block goes to the end of the function.
SplitBlockAtEnd(b, k) ==
  layout' = [layout EXCEPT ![b] = SubSeq(@, 1, k - 1)]
              \o <<SubSeq(layout[b], k, Len(layout[b]))>>

\* BasicBlock::splitBasicBlock: the instructions from the k-th on move to a new block
\* that follows the old one.
SplitBlock(b, k) ==
  layout' = SubSeq(layout, 1, b - 1)
              \o <<SubSeq(layout[b], 1, k - 1), SubSeq(layout[b], k, Len(layout[b]))>>
              \o SubSeq(layout, b + 1, Len(layout))

\* One round of the last loop.
Split ==
  /\ phase = "split" /\ CIs # <<>>
  /\ \E b \in DOMAIN layout : \E k \in DOMAIN layout[b] :
       layout[b][k] = Head(CIs) /\ SplitBlock(b, k)
  /\ CIs' = Tail(CIs)
  /\ UNCHANGED <<kind, bi, phase>>

FinishSplit ==
  /\ phase = "split" /\ CIs = <<>>
  /\ phase' = "done"
  /\ UNCHANGED <<kind, layout, bi, CIs>>

SplitTerminated == phase = "done" /\ UNCHANGED splitVars

SplitNext == Collect \/ StartSplit \/ Split \/ FinishSplit \/ SplitTerminated

SplitSpec == SplitInit /\ [][SplitNext]_splitVars

-----------------------------------------------------------------------------
\* "because of SplitBB, there is at most one CallInst in a BB" (PrivGraph.h:64), of a
\* function that is not a declaration, and it is the first instruction of its block
\* (not the last, as SplitBasicBlock.h:7 has it).  The first block has none, even if it
\* started with one: later passes keep that block whether or not it is privileged.
OneCallPerBlock ==
  phase = "done" =>
    \A b \in DOMAIN layout : \A k \in DOMAIN layout[b] :
      layout[b][k] \in Calls => k = 1 /\ b # 1

\* Splitting loses, repeats and moves no instruction: read block by block, the function
\* is the same at every step.
OrderKept ==
  /\ \A i \in Instr : \E b \in DOMAIN layout : \E k \in DOMAIN layout[b] : layout[b][k] = i
  /\ \A b, c \in DOMAIN layout : \A k \in DOMAIN layout[b], l \in DOMAIN layout[c] :
       b < c \/ (b = c /\ k < l) => layout[b][k] < layout[c][l]
=============================================================================
