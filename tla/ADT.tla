-------------------------------- MODULE ADT ---------------------------------
(***************************************************************************)
(* The capability arrays and tables of ADT.cpp.  A CAPArray is the set of  *)
(* its bits.  A table maps the blocks, or the functions, that have an      *)
(* entry to their array; an entry with an empty array is an entry.         *)
(***************************************************************************)
CONSTANTS
  Func,      \* the functions of the module, declarations included
  BlockId    \* names of the blocks of a function

Block     == Func \X BlockId
parent(b) == b[1]   \* BasicBlock::getParent

\* table maps some keys in S to values in T.
IsMap(table, S, T) == DOMAIN table \subseteq S /\ table \in [DOMAIN table -> T]

EmptyTable == [k \in {} |-> {}]

\* UnionCAPArrays: what dest becomes.
UnionCAPArrays(dest, src) == dest \cup src

\* Faulty: an entry that exists is replaced.
AddToTableOverwrite(table, key, caps) ==
  [k \in DOMAIN table \cup {key} |-> IF k = key THEN caps ELSE table[k]]

\* AddToFuncCAPTable and AddToBBCAPTable: a new entry, or the union with the old one.
AddToTable(table, key, caps) ==
  [k \in DOMAIN table \cup {key} |->
     IF k # key THEN table[k]
     ELSE IF key \in DOMAIN table THEN table[key] \cup caps ELSE caps]

\* The function table that summarizes a block table: per function, the union over
\* its blocks.
PerFunction(table) ==
  [f \in {parent(b) : b \in DOMAIN table} |->
     UNION {table[b] : b \in {d \in DOMAIN table : parent(d) = f}}]
=============================================================================
