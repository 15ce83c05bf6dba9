--------------------------- MODULE LocalAnalysis ----------------------------
(***************************************************************************)
(* The pass LocalAnalysis: for every direct call of priv_lower, in the     *)
(* order the uses of that function happen to be listed, read the           *)
(* capabilities from the arguments and add them to the entries of the      *)
(* block and of the function the call is in.                               *)
(*                                                                         *)
(* RetrieveAllCAP builds the array with "CAPArray |= 1 << iarg": an int    *)
(* is shifted, not a CAPArray_t.  Shift 31 makes the int negative and its  *)
(* conversion sets all higher bits; a shift by 32 or more is undefined.    *)
(***************************************************************************)
EXTENDS ADT, Naturals, FiniteSets

CONSTANTS
  User,      \* the uses of priv_lower in the module
  ArgSets    \* sets of capability numbers a call may be given

IntBits    == 32
Bits       == 0 .. 63       \* CAPArray_t is a uint64_t
Capability == 0 .. 36       \* CAP_CHOWN .. CAP_LAST_CAP ("all 37 capabilities")

ASSUME ArgAssumption == ArgSets \subseteq SUBSET Capability

VARIABLES
  directCalls,  \* uses that are calls of priv_lower by name (input)
  unresolved,   \* uses with an argument that is not a constant (input)
  args,         \* the capabilities a use passes (input)
  blockOf,      \* the block a use is in (input)
  users,        \* uses the loop has still to come to
  BBCAPTable, FuncCAPTable,
  pc            \* "users", "done"; "nullptr" after a dyn_cast that failed

inputs == <<directCalls, unresolved, args, blockOf>>
vars   == <<inputs, users, BBCAPTable, FuncCAPTable, pc>>

TypeOK ==
  /\ directCalls \subseteq User /\ unresolved \subseteq User
  /\ args \in [User -> ArgSets]
  /\ blockOf \in [User -> Block]
  /\ users \subseteq User
  /\ IsMap(BBCAPTable, Block, SUBSET Bits)
  /\ IsMap(FuncCAPTable, Func, SUBSET Bits)
  /\ pc \in {"users", "done", "nullptr"}

Init ==
  /\ directCalls \in SUBSET User /\ unresolved \in SUBSET User
  /\ args \in [User -> ArgSets]
  /\ blockOf \in [User -> Block]
  /\ users = User
  /\ BBCAPTable = EmptyTable /\ FuncCAPTable = EmptyTable
  /\ pc = "users"

-----------------------------------------------------------------------------
\* What an int with these bits becomes when it is converted to a CAPArray_t.
SignExtended(bits) == bits \cup IF IntBits - 1 \in bits THEN IntBits .. 63 ELSE {}

\* What "1 << k" may be once it is converted.  Beyond the width the machine decides: x86
\* shifts by k modulo the width, others shift the bit out.
ShiftLeft(k) ==
  IF k < IntBits THEN {SignExtended({k})} ELSE {{k - IntBits}, {}}

\* Faulty: the first argument, the number of the others, is read as a capability.
RetrieveAllCAPFromZero(caps) ==
  {{Cardinality(caps)} \cup UNION {outcome[k] : k \in caps} :
     outcome \in {o \in [caps -> UNION {ShiftLeft(k) : k \in caps}] :
                    \A k \in caps : o[k] \in ShiftLeft(k)}}

\* The arrays RetrieveAllCAP may build from the arguments after the first.
RetrieveAllCAP(caps) ==
  {UNION {outcome[k] : k \in caps} :
     outcome \in {o \in [caps -> UNION {ShiftLeft(k) : k \in caps}] :
                    \A k \in caps : o[k] \in ShiftLeft(k)}}

\* A use that is not a call of priv_lower itself (a cast, an argument, a store) is
\* skipped.
SkipUser(u) ==
  /\ pc = "users" /\ u \in users
  /\ u \notin directCalls
  /\ users' = users \ {u}
  /\ UNCHANGED <<inputs, BBCAPTable, FuncCAPTable, pc>>

\* Faulty: the function entry is not updated with the block entry.
AnalyzeCallBlockOnly(u) ==
  /\ pc = "users" /\ u \in users
  /\ u \in directCalls \ unresolved
  /\ \E caps \in RetrieveAllCAP(args[u]) :
       /\ BBCAPTable' = AddToTable(BBCAPTable, blockOf[u], caps)
       /\ FuncCAPTable' = IF parent(blockOf[u]) \in DOMAIN FuncCAPTable
                          THEN FuncCAPTable
                          ELSE AddToTable(FuncCAPTable, parent(blockOf[u]), caps)
  /\ users' = users \ {u}
  /\ UNCHANGED <<inputs, pc>>

\* Faulty: both entries are made for the function.
AnalyzeCallWrongKey(u) ==
  /\ pc = "users" /\ u \in users
  /\ u \in directCalls \ unresolved
  /\ \E caps \in RetrieveAllCAP(args[u]) :
       /\ BBCAPTable' = AddToTable(BBCAPTable, parent(blockOf[u]), caps)
       /\ FuncCAPTable' = AddToTable(FuncCAPTable, parent(blockOf[u]), caps)
  /\ users' = users \ {u}
  /\ UNCHANGED <<inputs, pc>>

AnalyzeCall(u) ==
  /\ pc = "users" /\ u \in users
  /\ u \in directCalls \ unresolved
  /\ \E caps \in RetrieveAllCAP(args[u]) :
       /\ BBCAPTable' = AddToTable(BBCAPTable, blockOf[u], caps)
       /\ FuncCAPTable' = AddToTable(FuncCAPTable, parent(blockOf[u]), caps)
  /\ users' = users \ {u}
  /\ UNCHANGED <<inputs, pc>>

\* The dyn_cast to ConstantInt gives NULL and the next line reads through it.
NotAConstant(u) ==
  /\ pc = "users" /\ u \in users
  /\ u \in directCalls \cap unresolved
  /\ pc' = "nullptr"
  /\ UNCHANGED <<inputs, users, BBCAPTable, FuncCAPTable>>

Finish ==
  /\ pc = "users" /\ users = {}
  /\ pc' = "done"
  /\ UNCHANGED <<inputs, users, BBCAPTable, FuncCAPTable>>

Terminated == pc \in {"done", "nullptr"} /\ UNCHANGED vars

Next ==
  \/ \E u \in User : SkipUser(u) \/ AnalyzeCall(u) \/ NotAConstant(u)
  \/ Finish
  \/ Terminated

Spec == Init /\ [][Next]_vars

-----------------------------------------------------------------------------
Analyzed      == directCalls \ users
PassedIn(b)   == UNION {args[u] : u \in {v \in Analyzed : blockOf[v] = b}}
AllArgs       == UNION {args[u] : u \in directCalls}

\* At every point of the loop the function table is the summary of the block table,
\* whatever the shifts did: the two passes that read one or the other agree.
TablesAgree == FuncCAPTable = PerFunction(BBCAPTable)

\* In whatever order the uses come, the entries are the blocks of the calls analyzed so
\* far, later calls add to what earlier ones have put there, and as long as every
\* capability fits into an int none is missed and only the sign bit brings others in.
ExactInInt ==
  /\ DOMAIN BBCAPTable = {blockOf[u] : u \in Analyzed}
  /\ (\A k \in AllArgs : k < IntBits) =>
       \A b \in DOMAIN BBCAPTable : BBCAPTable[b] = SignExtended(PassedIn(b))

\* "using 64bit long unsigned to represent all 37 capabilities" (ADT.h:32): the array of
\* a block is the set of capabilities its calls name.
RepresentsAll37 ==
  pc = "done" => \A b \in DOMAIN BBCAPTable : BBCAPTable[b] = PassedIn(b)
=============================================================================
