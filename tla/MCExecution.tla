---------------------------- MODULE MCExecution -----------------------------
(* Model checking of Execution.  main has any graph of its blocks; f repeats  *)
(* its second block and returns.  A block lowers a capability of its own,     *)
(* calls, does both or neither; a first block does not call, as SplitBB       *)
(* leaves it.  f may call main back.                                          *)
EXTENDS Execution

MCCaps(b) == IF parent(b) = main THEN {b[2]} ELSE {parent(b)}

Repeat == [i \in BlockId |-> IF i = end THEN {} ELSE {i + 1} \cup ({i} \ {entry})]
Optimized == {g \in [BlockId -> SUBSET (BlockId \ {entry})] : Reach(g, entry) = BlockId}

Middle == {b \in Kept \X BlockId : parent(b) = main \/ b[2] \notin {entry, end}}

MCInit ==
  /\ \E g \in Optimized : cfg = [f \in Kept |-> IF f = main THEN g ELSE Repeat]
  /\ \E D \in SUBSET Middle : bbCapMap = [b \in D |-> MCCaps(b)]
  /\ \E c \in [{b \in Middle : b[2] # entry} -> Func \cup {None}] :
       calleeOf = [b \in Block |-> IF b \in DOMAIN c THEN c[b] ELSE None]
  /\ RunInit

MCSpec == MCInit /\ [][RunNext]_<<vars, run>>
=============================================================================
