--------------------------- MODULE MCLocalAnalysis --------------------------
(* Model checking of LocalAnalysis: capabilities well below the sign bit of  *)
(* an int (CAP_CHOWN, CAP_KILL), next to it (CAP_AUDIT_CONTROL), on it       *)
(* (CAP_SETFCAP) and beyond it (CAP_SYSLOG); priv_lower(0) passes none.      *)
EXTENDS LocalAnalysis, TLC

MCArgSets == {{}, {0}, {5, 30}, {31}, {5, 34}}

\* At most one use has an argument that is not a constant.
MCInit ==
  /\ unresolved \in {{}} \cup {{u} : u \in User}
  /\ Init

MCSpec == MCInit /\ [][Next]_vars

Symmetry == Permutations(User)
=============================================================================
