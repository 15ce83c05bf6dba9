---------------------------- MODULE MCCompressCG ----------------------------
(* Model checking of CompressCG.  Each capability is lowered by one function *)
(* only (Cap = Func), so a set of capabilities tells whose they are; main    *)
(* lowers the empty set, which is an entry all the same.  The functions that *)
(* are ignored call and are called, with few edges.                          *)
EXTENDS CompressCG, TLC

CONSTANT MaxCalls   \* bound on the direct calls of a function

MCCaps(b) == IF parent(b) = main THEN {} ELSE {parent(b)}

FewCalls == {C \in SUBSET Func : Cardinality(C) <= MaxCalls}

MCInit ==
  /\ \E own \in [Func \ Ignorable -> FewCalls],
        lib \in [Ignorable -> FewCalls \cap SUBSET (Func \ ({main} \cup Ignorable))] :
       calls = [f \in Func |-> IF f \in Ignorable THEN lib[f] ELSE own[f]]
  /\ \E D \in SUBSET Block : lowers = [b \in D |-> MCCaps(b)]
  /\ Init

MCSpec == MCInit /\ [][Next]_vars

Symmetry == Permutations(Func \ ({main} \cup Ignorable))
=============================================================================
