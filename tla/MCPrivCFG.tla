----------------------------- MODULE MCPrivCFG ------------------------------
(* Model checking of PrivCFG: every control-flow graph of NumBB blocks and  *)
(* every choice of privileged blocks among those the first/last rule does   *)
(* not keep anyway.                                                         *)
EXTENDS PrivCFG

MCInit == Init /\ privileged \subseteq Block \ {entry, end}

MCSpec == MCInit /\ [][Next]_vars
=============================================================================
