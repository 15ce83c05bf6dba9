--------------------------- MODULE MCCompressCFG ----------------------------
(* Model checking of CompressCFG.  main has any graph; the other functions   *)
(* are a straight line whose last block repeats and may lower, or call main. *)
(* Every block of main lowers a capability of its own, if any, so a set of   *)
(* capabilities tells which blocks were read.                                *)
EXTENDS CompressCFG

MCCaps(b) == IF parent(b) = main THEN {b[2]} ELSE {parent(b)}

Line == [i \in BlockId |-> IF i = end THEN {end} ELSE {i + 1}]
Optimized == {g \in [BlockId -> SUBSET (BlockId \ {entry})] : Reach(g, entry) = BlockId}

Active == {b \in Kept \X BlockId : parent(b) = main \/ b[2] = end}

Callees(b) == IF parent(b) = main THEN Func \cup {None} ELSE {main, None}

MCInit ==
  /\ \E g \in Optimized : cfg = [f \in Kept |-> IF f = main THEN g ELSE Line]
  /\ \E D \in SUBSET Active : bbCapMap = [b \in D |-> MCCaps(b)]
  /\ \E c \in [Active -> Func \cup {None}] :
       /\ \A b \in Active : c[b] \in Callees(b)
       /\ calleeOf = [b \in Block |-> IF b \in Active THEN c[b] ELSE None]
  /\ Init

MCSpec == MCInit /\ [][Next]_vars
=============================================================================
