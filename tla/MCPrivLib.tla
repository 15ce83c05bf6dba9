----------------------------- MODULE MCPrivLib ------------------------------
(* Model checking of PrivLib with three capabilities: lists of one and two   *)
(* are accepted, a list of all three is too long.  The argument lists hold   *)
(* repeated values, values that are no capability, and fewer arguments than  *)
(* the count (as priv_test.c:67 passes) or more.                             *)
EXTENDS PrivLib

CONSTANT MaxArgs   \* bound on the arguments of a call

MCArgs == UNION {[1 .. n -> 0 .. LastCap + 1] : n \in 0 .. MaxArgs}
=============================================================================
