----------------------------- MODULE Execution ------------------------------
(***************************************************************************)
(* The analysis and then a run of the program it has analyzed.  The        *)
(* repository computes the compressed graphs so that a later pass can tell *)
(* from a point of the program which privileges are still needed there;    *)
(* here that question is asked of every point of every run.                *)
(*                                                                         *)
(* The analysis is CompressCFG, step by step.  The run is LLVM's semantics *)
(* of what the passes look at: a stack of frames, each in a block that     *)
(* calls, then lowers, then branches; SplitBB makes a call the first       *)
(* instruction of its block (SplitBB!OneCallPerBlock), so what the block   *)
(* lowers itself comes after it.  A call of a function that is not in the  *)
(* compressed call graph lowers nothing (CompressCG!NodesExact) and is one *)
(* step; indirect calls, which the call graph does not have either, are    *)
(* left out.                                                               *)
(***************************************************************************)
EXTENDS CompressCFG, Sequences

CONSTANT MaxFrames   \* bound on the depth of the run's stack

ASSUME FramesAssumption == MaxFrames \in Nat \ {0}

VARIABLES
  stack,   \* the active calls of the run, the last one running
  phase    \* "analysis", "run", "exit"

run == <<stack, phase>>

Top == stack[Len(stack)]

\* A frame that enters block i.  at is the last block it has passed that is left in the
\* compressed graph: the first one is, so every frame has one.
Frame(f, i, at) ==
  [func |-> f, bb |-> i, next |-> "call",
   at |-> IF i \in DOMAIN funcCFGMap[f] THEN i ELSE at]

Frames == [func : Kept, bb : BlockId, next : {"call", "lower", "branch"}, at : BlockId]

RunTypeOK ==
  /\ TypeOK
  /\ stack \in Seq(Frames) /\ Len(stack) <= MaxFrames
  /\ phase \in {"analysis", "run", "exit"}

RunInit == Init /\ stack = <<>> /\ phase = "analysis"

Start ==
  /\ phase = "analysis" /\ pc = "done"
  /\ stack' = <<Frame(main, entry, entry)>>
  /\ phase' = "run"
  /\ UNCHANGED vars

-----------------------------------------------------------------------------
\* The running block, in its phases.
CurrentBlock == <<Top.func, Top.bb>>

Running(next) == phase = "run" /\ stack # <<>> /\ Top.next = next

Advance(frame) == [stack EXCEPT ![Len(stack)] = frame]

CallKept ==
  /\ Running("call") /\ calleeOf[CurrentBlock] \in Kept
  /\ Len(stack) < MaxFrames
  /\ stack' = Append(Advance([Top EXCEPT !.next = "lower"]),
                     Frame(calleeOf[CurrentBlock], entry, entry))
  /\ UNCHANGED <<vars, phase>>

CallOther ==
  /\ Running("call") /\ calleeOf[CurrentBlock] \notin Kept
  /\ stack' = Advance([Top EXCEPT !.next = "lower"])
  /\ UNCHANGED <<vars, phase>>

\* The calls of priv_lower, if the block has any, after the call has returned.
PrivLower ==
  /\ Running("lower")
  /\ stack' = Advance([Top EXCEPT !.next = "branch"])
  /\ UNCHANGED <<vars, phase>>

Branch ==
  /\ Running("branch")
  /\ \E i \in cfg[Top.func][Top.bb] : stack' = Advance(Frame(Top.func, i, Top.at))
  /\ UNCHANGED <<vars, phase>>

Return ==
  /\ Running("branch") /\ cfg[Top.func][Top.bb] = {}
  /\ stack' = SubSeq(stack, 1, Len(stack) - 1)
  /\ phase' = IF Len(stack) = 1 THEN "exit" ELSE phase
  /\ UNCHANGED vars

Run == CallKept \/ CallOther \/ PrivLower \/ Branch \/ Return

\* The run is over, or has come to the bound on its stack.
Stopped ==
  /\ \/ phase = "exit" \/ pc = "abort"
     \/ Running("call") /\ calleeOf[CurrentBlock] \in Kept /\ Len(stack) = MaxFrames
  /\ UNCHANGED <<vars, run>>

RunNext == (Analyze /\ UNCHANGED run) \/ Start \/ Run \/ Stopped

RunSpec == RunInit /\ [][RunNext]_<<vars, run>>

-----------------------------------------------------------------------------
\* What the next step of the run lowers.
Lowers ==
  IF Running("lower") /\ CurrentBlock \in DOMAIN bbCapMap THEN bbCapMap[CurrentBlock] ELSE {}

\* What reachablePrivFunc and funcCapMap say the callee of a block may lower.
CalleeCaps(b) ==
  UNION {funcCapMap[g] : g \in
    UNION {reachablePrivFunc[f] : f \in {calleeOf[b]} \cap DOMAIN reachablePrivFunc}}

\* A block as collectSCCCaps reads it: its own capabilities if it lowers any, else those
\* its callee reaches.  The callee of a block that lowers is not read.
CapsRead(b) == IF b \in DOMAIN bbCapMap THEN bbCapMap[b] ELSE CalleeCaps(b)

\* The blocks of the compressed graph a frame has still to come to.
Ahead(fr) == UNION {Reach(funcCFGMap[fr.func], i) : i \in funcCFGMap[fr.func][fr.at]}

\* What the frame's own block, if it is left, is still listed with: all of it before the
\* call, what it lowers itself while the callee runs and after it.
Rest(fr) ==
  LET b == <<fr.func, fr.bb>>
  IN  IF fr.next = "call" /\ fr.bb = fr.at THEN CapsRead(b)
      ELSE IF fr.next = "lower" /\ b \in DOMAIN bbCapMap THEN bbCapMap[b] ELSE {}

\* The privileges that are still needed, read off the compressed graphs for all the
\* active calls.
Share(fr) == Rest(fr) \cup UNION {CapsRead(<<fr.func, i>>) : i \in Ahead(fr)}
Needed == UNION {Share(stack[k]) : k \in 1 .. Len(stack)}

\* What collectSCCCaps skips: the callee of a block that lowers privileges and is about to
\* call.  When priv_lower is defined in the module no block does both.
Skipped ==
  IF Running("call") /\ CurrentBlock \in DOMAIN bbCapMap THEN CalleeCaps(CurrentBlock) ELSE {}

\* No step of the program, however it branches, calls or returns, comes to need what the
\* compressed graphs did not list before, except for what collectSCCCaps passes over by
\* its else (CompressCFG.cpp:213): there, and only there, a privilege that is off the
\* list comes back.
NeededShrinks == [][phase = "run" => Needed' \subseteq Needed \cup Skipped]_<<vars, run>>

\* Whatever a run lowers was foreseen in the block of every active call: the block is
\* left, the capability is read off it, and each loop of the function the block is in has
\* a record that holds it, through callees and recursion.  The calls this does not cover
\* are those made by a block that lowers privileges itself.
LowersForeseen ==
  \A k \in 1 .. Len(stack) :
    LET fr   == stack[k]
        b    == <<fr.func, fr.bb>>
        left == DOMAIN funcCFGMap[fr.func]
    IN  Lowers # {} /\ (k = Len(stack) \/ b \notin DOMAIN bbCapMap) =>
          /\ fr.bb \in left /\ Lowers \subseteq CapsRead(b)
          /\ \A C \in Components(cfg[fr.func]) : fr.bb \in C =>
               /\ <<fr.func, C \cap left>> \in DOMAIN recorded
               /\ Lowers \subseteq recorded[<<fr.func, C \cap left>>]
=============================================================================
