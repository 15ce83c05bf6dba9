-------------------------- MODULE LocalPassesProofs --------------------------
(***************************************************************************)
(* The two passes over the instructions of the module.                     *)
(*                                                                         *)
(* The tables of LocalAnalysis for any number of uses, blocks and          *)
(* functions, in any order of the uses: what AddToTable does to one table  *)
(* and to the summary of it (AddSummary), what RetrieveAllCAP may return   *)
(* (ArrayType, ArrayInInt), and from these that each call of priv_lower    *)
(* keeps the invariants.                                                   *)
(*                                                                         *)
(* The blocks of SplitBB for any function: how the positions after a split *)
(* map to those before it (SplitLayout, SplitPositions, SplitOrder), and   *)
(* from this that no order changes and that a misplaced call is always one *)
(* the last loop has still to come to (SplitInv).                          *)
(***************************************************************************)
EXTENDS LocalAnalysis, SplitBB, SequenceTheorems, WellFoundedInduction, TLAPS

CONSTANTS main, Ignorable, calls   \* as in CompressCG

\* CompressCG when it starts on the tables of LocalAnalysis.
CG == INSTANCE CompressCG WITH
  Cap <- Bits, lowers <- BBCAPTable, bbCapMap <- BBCAPTable, funcCapMap <- FuncCAPTable,
  unscanned <- Func, nodes <- {}, funcNodeMap <- {},
  callers <- [f \in Func |-> {}], callees <- [f \in Func |-> {}],
  reachablePrivFunc <- EmptyTable, doomed <- {}, sccCaps <- EmptyTable, pc <- "build"

\* TypeOK is not inductive alone: the tables stay typed because the arguments are.
Inv == TypeOK /\ TablesAgree /\ ExactInInt

-----------------------------------------------------------------------------
\* The arrays

LEMMA ShiftType ==
  ASSUME NEW k \in Capability, NEW A \in ShiftLeft(k)
  PROVE  A \in SUBSET Bits /\ (k < IntBits => A = SignExtended({k}))
<1>1. CASE k < IntBits
  <2>1. A = SignExtended({k})
    BY <1>1 DEF ShiftLeft
  <2>2. k \in Bits /\ IntBits .. 63 \subseteq Bits
    BY <1>1 DEF Capability, Bits, IntBits
  <2>3. QED
    BY <2>1, <2>2 DEF SignExtended
<1>2. CASE ~ (k < IntBits)
  <2>1. A = {k - IntBits} \/ A = {}
    BY <1>2 DEF ShiftLeft
  <2>2. k - IntBits \in Bits
    BY <1>2 DEF Capability, IntBits, Bits
  <2>3. QED
    BY <1>2, <2>1, <2>2
<1>3. QED
  BY <1>1, <1>2

\* An array has no bits beyond those of the type, whatever was shifted.
LEMMA ArrayType ==
  ASSUME NEW args_, args_ \subseteq Capability, NEW A \in RetrieveAllCAP(args_)
  PROVE  A \in SUBSET Bits
<1>1. PICK o \in [args_ -> UNION {ShiftLeft(k) : k \in args_}] :
        /\ A = UNION {o[k] : k \in args_}
        /\ \A k \in args_ : o[k] \in ShiftLeft(k)
  BY DEF RetrieveAllCAP
<1>2. \A k \in args_ : o[k] \subseteq Bits
  BY <1>1, ShiftType
<1>3. QED
  BY <1>1, <1>2

\* Up to the sign bit the array is what the arguments name, sign-extended.
LEMMA ArrayInInt ==
  ASSUME NEW args_, args_ \subseteq Capability, NEW A \in RetrieveAllCAP(args_),
         \A k \in args_ : k < IntBits
  PROVE  A = SignExtended(args_)
<1>1. PICK o \in [args_ -> UNION {ShiftLeft(k) : k \in args_}] :
        /\ A = UNION {o[k] : k \in args_}
        /\ \A k \in args_ : o[k] \in ShiftLeft(k)
  BY DEF RetrieveAllCAP
<1>2. \A k \in args_ : o[k] = SignExtended({k})
  BY <1>1, ShiftType
<1>3. \A k \in args_ : k \in o[k]
  BY <1>2 DEF SignExtended
<1>4. ASSUME NEW x \in A PROVE x \in SignExtended(args_)
  BY <1>1, <1>2 DEF SignExtended
<1>5. ASSUME NEW x \in SignExtended(args_) PROVE x \in A
  BY <1>1, <1>2 DEF SignExtended
<1>6. QED
  BY <1>4, <1>5

LEMMA SignExtendedUnion ==
  ASSUME NEW S, NEW T
  PROVE  SignExtended(S \cup T) = SignExtended(S) \cup SignExtended(T)
BY DEF SignExtended

-----------------------------------------------------------------------------
\* The tables

LEMMA AddType ==
  ASSUME NEW S, NEW T, NEW table, IsMap(table, S, SUBSET T),
         NEW key \in S, NEW caps \in SUBSET T
  PROVE  IsMap(AddToTable(table, key, caps), S, SUBSET T)
<1> DEFINE new == AddToTable(table, key, caps)
<1>1. DOMAIN table \subseteq S /\ table \in [DOMAIN table -> SUBSET T]
  BY DEF IsMap
<1>2. DOMAIN new = DOMAIN table \cup {key}
  BY DEF AddToTable
<1>3. new \in [DOMAIN table \cup {key} -> SUBSET T]
  BY <1>1 DEF AddToTable
<1>4. QED
  BY <1>1, <1>2, <1>3 DEF IsMap

\* Adding to a block and to its function keeps one table the summary of the other.
LEMMA AddSummary ==
  ASSUME NEW table, NEW b, NEW caps
  PROVE  PerFunction(AddToTable(table, b, caps)) =
           AddToTable(PerFunction(table), parent(b), caps)
<1> DEFINE new    == AddToTable(table, b, caps)
           F      == {parent(d) : d \in DOMAIN table}
           old(f) == UNION {table[d] : d \in {e \in DOMAIN table : parent(e) = f}}
           sum(f) == UNION {new[d] : d \in {e \in DOMAIN new : parent(e) = f}}
           res(f) == IF f # parent(b) THEN old(f) ELSE IF f \in F THEN old(f) \cup caps ELSE caps
           both   == F \cup {parent(b)}
<1>1. DOMAIN new = DOMAIN table \cup {b}
  BY DEF AddToTable
<1>2. PerFunction(new) = [f \in both |-> sum(f)]
  <2>1. {parent(d) : d \in DOMAIN new} = F \cup {parent(b)}
    BY <1>1
  <2>2. QED
    BY <2>1 DEF PerFunction
<1>3. PerFunction(table) = [f \in F |-> old(f)]
  BY DEF PerFunction
<1>4. AddToTable(PerFunction(table), parent(b), caps) =
        [f \in both |-> res(f)]
  BY <1>3 DEF AddToTable
<1>5. \A d \in DOMAIN table : d # b => new[d] = table[d]
  BY DEF AddToTable
<1>6. b \in DOMAIN table => new[b] = table[b] \cup caps
  BY DEF AddToTable
<1>7. b \notin DOMAIN table => new[b] = caps
  BY DEF AddToTable
<1> HIDE DEF new
<1>8. ASSUME NEW f \in F, f # parent(b) PROVE sum(f) = old(f)
  <2>1. {e \in DOMAIN new : parent(e) = f} = {e \in DOMAIN table : parent(e) = f}
    BY <1>1, <1>8
  <2>2. \A d \in {e \in DOMAIN table : parent(e) = f} : new[d] = table[d]
    BY <1>5, <1>8
  <2>3. QED
    BY <2>1, <2>2
<1>9. sum(parent(b)) = old(parent(b)) \cup caps
  <2>1. ASSUME NEW x \in sum(parent(b)) PROVE x \in old(parent(b)) \cup caps
    <3>1. PICK d \in DOMAIN new : parent(d) = parent(b) /\ x \in new[d]
      BY <2>1
    <3>2. QED
      BY <1>1, <1>5, <1>6, <1>7, <3>1
  <2>2. ASSUME NEW x \in old(parent(b)) PROVE x \in sum(parent(b))
    <3>1. PICK d \in DOMAIN table : parent(d) = parent(b) /\ x \in table[d]
      BY <2>2
    <3>2. d \in DOMAIN new /\ x \in new[d]
      BY <1>1, <1>5, <1>6, <3>1
    <3>3. QED
      BY <3>1, <3>2
  <2>3. ASSUME NEW x \in caps PROVE x \in sum(parent(b))
    <3>1. b \in DOMAIN new /\ x \in new[b]
      BY <1>1, <1>6, <1>7, <2>3
    <3>2. QED
      BY <3>1
  <2>4. QED
    BY <2>1, <2>2, <2>3
<1>10. parent(b) \notin F => old(parent(b)) = {}
  OBVIOUS
<1> HIDE DEF old, sum, F
<1>11. \A f \in both : sum(f) = res(f)
  BY <1>8, <1>9, <1>10
<1> HIDE DEF res, both
<1>12. PerFunction(new) = AddToTable(PerFunction(table), parent(b), caps)
  BY <1>2, <1>4, <1>11
<1>13. QED
  BY <1>12 DEF new

-----------------------------------------------------------------------------
\* The invariant

LEMMA InitInv == Init => Inv
<1> SUFFICES ASSUME Init PROVE Inv
  OBVIOUS
<1>1. DOMAIN EmptyTable = {}
  BY DEF EmptyTable
<1>2. IsMap(EmptyTable, Block, SUBSET Bits) /\ IsMap(EmptyTable, Func, SUBSET Bits)
  BY <1>1 DEF IsMap, EmptyTable
<1>3. TypeOK
  BY <1>2 DEF Init, TypeOK
<1>4. TablesAgree
  BY DEF Init, TablesAgree, PerFunction, EmptyTable
<1>5. ExactInInt
  BY <1>1 DEF Init, ExactInInt, Analyzed
<1>6. QED
  BY <1>3, <1>4, <1>5 DEF Inv

\* Steps that leave the tables and the calls analyzed so far.
LEMMA SameTables ==
  ASSUME Inv, UNCHANGED <<inputs, BBCAPTable, FuncCAPTable>>, Analyzed' = Analyzed
  PROVE  TablesAgree' /\ ExactInInt'
<1>1. TablesAgree'
  BY DEF Inv, TablesAgree, PerFunction
<1>2. ExactInInt'
  BY DEF Inv, ExactInInt, PassedIn, AllArgs, inputs
<1>3. QED
  BY <1>1, <1>2

LEMMA SkipUserInv ==
  ASSUME Inv, NEW u \in User, SkipUser(u)
  PROVE  Inv'
<1>1. /\ u \notin directCalls /\ users' = users \ {u}
      /\ UNCHANGED <<inputs, BBCAPTable, FuncCAPTable, pc>>
  BY DEF SkipUser
<1>2. TypeOK'
  BY <1>1 DEF Inv, TypeOK, inputs, IsMap
<1>3. Analyzed' = Analyzed
  BY <1>1 DEF Analyzed, inputs
<1>4. QED
  BY <1>1, <1>2, <1>3, SameTables DEF Inv

\* A call of priv_lower: both tables get the array it passes.
LEMMA AnalyzeCallInv ==
  ASSUME Inv, NEW u \in User, AnalyzeCall(u)
  PROVE  Inv'
<1>1. PICK caps \in RetrieveAllCAP(args[u]) :
        /\ BBCAPTable' = AddToTable(BBCAPTable, blockOf[u], caps)
        /\ FuncCAPTable' = AddToTable(FuncCAPTable, parent(blockOf[u]), caps)
  BY DEF AnalyzeCall
<1>2. /\ u \in users /\ u \in directCalls
      /\ users' = users \ {u}
      /\ UNCHANGED <<inputs, pc>>
  BY DEF AnalyzeCall
<1>3. args[u] \subseteq Capability /\ blockOf[u] \in Block
  BY ArgAssumption DEF Inv, TypeOK
<1>4. TypeOK'
  <2>1. caps \in SUBSET Bits
    BY <1>1, <1>3, ArrayType
  <2>2. parent(blockOf[u]) \in Func
    BY <1>3 DEF Block, parent
  <2>3. IsMap(BBCAPTable', Block, SUBSET Bits)
    BY <1>1, <1>3, <2>1, AddType DEF Inv, TypeOK
  <2>4. IsMap(FuncCAPTable', Func, SUBSET Bits)
    BY <1>1, <2>1, <2>2, AddType DEF Inv, TypeOK
  <2>5. QED
    BY <1>2, <2>3, <2>4 DEF Inv, TypeOK, inputs
<1>5. TablesAgree'
  BY <1>1, AddSummary DEF Inv, TablesAgree
<1>6. ExactInInt'
  <2> DEFINE b == blockOf[u]
  <2>1. Analyzed' = Analyzed \cup {u} /\ u \notin Analyzed
    BY <1>2 DEF Analyzed, inputs
  <2>2. blockOf' = blockOf /\ args' = args /\ AllArgs' = AllArgs
    BY <1>2 DEF inputs, AllArgs
  <2>3. DOMAIN BBCAPTable = {blockOf[v] : v \in Analyzed}
    BY DEF Inv, ExactInInt
  <2>4. DOMAIN BBCAPTable' = DOMAIN BBCAPTable \cup {b}
    BY <1>1 DEF AddToTable
  <2>5. DOMAIN BBCAPTable' = {blockOf[v] : v \in Analyzed}'
    BY <2>1, <2>2, <2>3, <2>4
  <2>6. ASSUME \A k \in AllArgs : k < IntBits, NEW d \in DOMAIN BBCAPTable'
        PROVE  BBCAPTable'[d] = SignExtended(PassedIn(d)')
    <3>1. \A e \in DOMAIN BBCAPTable : BBCAPTable[e] = SignExtended(PassedIn(e))
      BY <2>6 DEF Inv, ExactInInt
    <3>2. CASE d # b
      <4>1. PassedIn(d)' = PassedIn(d)
        BY <2>1, <2>2, <3>2 DEF PassedIn
      <4>2. d \in DOMAIN BBCAPTable /\ BBCAPTable'[d] = BBCAPTable[d]
        BY <1>1, <2>4, <2>6, <3>2 DEF AddToTable
      <4>3. QED
        BY <3>1, <4>1, <4>2
    <3>3. CASE d = b
      <4>1. PassedIn(d)' = PassedIn(d) \cup args[u]
        BY <2>1, <2>2, <3>3 DEF PassedIn
      <4>2. caps = SignExtended(args[u])
        <5>1. \A k \in args[u] : k < IntBits
          BY <1>2, <2>6 DEF AllArgs
        <5>2. QED
          BY <1>1, <1>3, <5>1, ArrayInInt
      <4>3. CASE d \in DOMAIN BBCAPTable
        <5>1. BBCAPTable'[d] = BBCAPTable[d] \cup caps
          BY <1>1, <3>3, <4>3 DEF AddToTable
        <5>2. QED
          BY <3>1, <4>1, <4>2, <4>3, <5>1, SignExtendedUnion
      <4>4. CASE d \notin DOMAIN BBCAPTable
        <5>1. BBCAPTable'[d] = caps
          BY <1>1, <3>3, <4>4 DEF AddToTable
        <5>2. PassedIn(d) = {}
          BY <2>3, <4>4 DEF PassedIn
        <5>3. QED
          BY <4>1, <4>2, <5>1, <5>2
      <4>5. QED
        BY <4>3, <4>4
    <3>4. QED
      BY <3>2, <3>3
  <2>7. QED
    BY <2>2, <2>5, <2>6 DEF ExactInInt
<1>7. QED
  BY <1>4, <1>5, <1>6 DEF Inv

LEMMA OtherInv ==
  ASSUME Inv, \/ \E u \in User : NotAConstant(u)
              \/ Finish
              \/ UNCHANGED vars
  PROVE  Inv'
<1>1. /\ UNCHANGED <<inputs, users, BBCAPTable, FuncCAPTable>>
      /\ pc' \in {pc, "nullptr", "done"}
  BY DEF NotAConstant, Finish, vars
<1>2. TypeOK'
  BY <1>1 DEF Inv, TypeOK, inputs, IsMap
<1>3. Analyzed' = Analyzed
  BY <1>1 DEF Analyzed, inputs
<1>4. QED
  BY <1>1, <1>2, <1>3, SameTables DEF Inv

THEOREM Invariance == Spec => []Inv
<1>1. Inv /\ [Next]_vars => Inv'
  BY SkipUserInv, AnalyzeCallInv, OtherInv DEF Next, Terminated
<1>2. QED
  BY <1>1, InitInv, PTL DEF Spec

-----------------------------------------------------------------------------
\* Both tables stay maps from blocks and functions to 64-bit arrays, also where the
\* shift is undefined.
THEOREM TypeCorrect == Spec => []TypeOK
<1>1. Inv => TypeOK
  BY DEF Inv
<1>2. QED
  BY <1>1, Invariance, PTL

\* The function table is the summary of the block table at every step of runOnModule.
THEOREM TablesCorrect == Spec => []TablesAgree
<1>1. Inv => TablesAgree
  BY DEF Inv
<1>2. QED
  BY <1>1, Invariance, PTL

\* In every order of the uses the block table holds what the calls name, up to the
\* sign bit of the int that RetrieveAllCAP shifts.
THEOREM ArraysCorrect == Spec => []ExactInInt
<1>1. Inv => ExactInInt
  BY DEF Inv
<1>2. QED
  BY <1>1, Invariance, PTL

\* What LocalAnalysis leaves is what CompressCG starts from: the block table is what the
\* program lowers, the function table its summary.
THEOREM StartsCompressCG ==
  Spec => [](pc = "done" /\ calls \in [Func -> SUBSET Func] => CG!Init)
<1>1. Inv => (pc = "done" /\ calls \in [Func -> SUBSET Func] => CG!Init)
  <2> SUFFICES ASSUME Inv, calls \in [Func -> SUBSET Func] PROVE CG!Init
    OBVIOUS
  <2>1. BBCAPTable \in [DOMAIN BBCAPTable -> SUBSET Bits] /\ DOMAIN BBCAPTable \subseteq Block
    BY DEF Inv, TypeOK, IsMap
  <2>2. FuncCAPTable = CG!PerFunction(BBCAPTable)
    BY DEF Inv, TablesAgree, PerFunction, parent, CG!PerFunction, CG!parent
  <2>3. EmptyTable = CG!EmptyTable /\ CG!Block = Block
    BY DEF EmptyTable, CG!EmptyTable, CG!Block, Block
  <2>4. QED
    BY <2>1, <2>2, <2>3 DEF CG!Init
<1>2. QED
  BY <1>1, Invariance, PTL

-----------------------------------------------------------------------------
\* SplitBB

\* The calls that have been collected and have not been split at.
Pending == {CIs[n] : n \in 1 .. Len(CIs)}

\* The positions at which a call is not allowed in the end.
Misplaced(b, k) == b = 1 \/ k # 1

CollectInv == phase = "collect" => Pending = {i \in Calls : i < bi}

\* A misplaced call is one the last loop has still to come to.
SplitInv ==
  phase # "collect" =>
    \A b \in 1 .. Len(layout) : \A k \in 1 .. Len(layout[b]) :
      layout[b][k] \in Calls /\ Misplaced(b, k) => layout[b][k] \in Pending

SplitBBInv ==
  /\ SplitTypeOK /\ OrderKept
  /\ CollectInv /\ SplitInv
  /\ phase = "done" => CIs = <<>>

-----------------------------------------------------------------------------
Less == {r \in Nat \X Nat : r[1] < r[2]}

\* A set of naturals has a least element.
LEMMA LeastNatural ==
  ASSUME NEW T, T \subseteq Nat, T # {}
  PROVE  \E m \in T : \A k \in T : m <= k
<1>1. OpToRel(<, Nat) = Less
  BY DEF OpToRel, Less
<1>2. IsWellFoundedOn(Less, Nat)
  BY <1>1, NatLessThanWellFounded, Zenon
<1>3. PICK m \in T : \A k \in T : ~ (<<k, m>> \in Less)
  BY <1>2, WFMin
<1>4. \A k \in T : ~ (k < m)
  BY <1>3 DEF Less
<1>5. QED
  BY <1>4

-----------------------------------------------------------------------------
\* The layout before the pass: the blocks follow each other and each instruction is in one.
LEMMA StartsFacts ==
  ASSUME NEW start \in Starts
  PROVE  /\ Len(start) \in Nat \ {0}
         /\ \A b \in 1 .. Len(start) :
              /\ start[b] \in Nat \ {0} /\ After(start, b) \in Nat
              /\ start[b] <= After(start, b) /\ After(start, b) <= NumInstr + 1
         /\ \A b, c \in 1 .. Len(start) : b < c => After(start, b) <= start[c]
<1>1. /\ Len(start) \in Nat \ {0} /\ start \in [1 .. Len(start) -> 1 .. NumInstr + 1]
      /\ \A b, c \in 1 .. Len(start) : b <= c => start[b] <= start[c]
  BY DEF Starts
<1> DEFINE N == Len(start)
<1> HIDE DEF N
<1>2. /\ N \in Nat \ {0}
      /\ \A b \in 1 .. N : start[b] \in 1 .. NumInstr + 1
      /\ \A b, c \in 1 .. N : b <= c => start[b] <= start[c]
  BY <1>1 DEF N
<1>3. ASSUME NEW b \in 1 .. N
      PROVE  /\ start[b] \in Nat \ {0} /\ After(start, b) \in Nat
             /\ start[b] <= After(start, b) /\ After(start, b) <= NumInstr + 1
  <2>1. CASE b = N
    <3>1. After(start, b) = NumInstr + 1
      BY <2>1 DEF After, N
    <3>2. QED
      BY <1>2, <3>1, InstrAssumption
  <2>2. CASE b # N
    <3>1. After(start, b) = start[b + 1] /\ b + 1 \in 1 .. N
      BY <2>2, <1>2 DEF After, N
    <3>2. QED
      BY <1>2, <3>1, InstrAssumption
  <2>3. QED
    BY <2>1, <2>2
<1>4. ASSUME NEW b \in 1 .. N, NEW c \in 1 .. N, b < c
      PROVE  After(start, b) <= start[c]
  <2>1. After(start, b) = start[b + 1] /\ b + 1 \in 1 .. N /\ b + 1 <= c
    BY <1>4, <1>2 DEF After, N
  <2>2. QED
    BY <2>1, <1>2
<1>5. QED
  BY <1>2, <1>3, <1>4 DEF N

LEMMA StartsCover ==
  ASSUME NEW start \in Starts, NEW i \in Instr
  PROVE  \E b \in 1 .. Len(start) : start[b] <= i /\ i < After(start, b)
<1> DEFINE N == Len(start)
           T == {N - b : b \in {c \in 1 .. N : start[c] <= i}}
<1> HIDE DEF N, T
<1>1. /\ N \in Nat \ {0} /\ start[1] = 1
      /\ \A b \in 1 .. N : start[b] \in Nat /\ N - b \in Nat
  BY StartsFacts DEF N, Starts
<1>2. T \subseteq Nat /\ T # {}
  <2>1. start[1] <= i
    BY <1>1 DEF Instr
  <2>2. QED
    BY <1>1, <2>1 DEF T
<1>3. PICK m \in T : \A k \in T : m <= k
  BY <1>2, LeastNatural
<1>4. PICK b \in 1 .. N : start[b] <= i /\ m = N - b
  BY <1>3 DEF T
<1>5. CASE b = N
  <2>1. After(start, b) = NumInstr + 1
    BY <1>5 DEF After, N
  <2>2. i < NumInstr + 1
    BY InstrAssumption DEF Instr
  <2>3. QED
    BY <1>4, <2>1, <2>2 DEF N
<1>6. CASE b # N
  <2>1. After(start, b) = start[b + 1] /\ b + 1 \in 1 .. N
    BY <1>1, <1>6 DEF After, N
  <2>2. N - (b + 1) \notin T
    BY <1>1, <1>3, <1>4, <2>1
  <2>3. ~ (start[b + 1] <= i)
    BY <2>1, <2>2 DEF T
  <2>4. i < start[b + 1]
    BY <1>1, <2>1, <2>3 DEF Instr
  <2>5. QED
    BY <1>4, <2>1, <2>4 DEF N
<1>7. QED
  BY <1>5, <1>6

LEMMA BlocksAtFacts ==
  ASSUME NEW start \in Starts
  PROVE  /\ BlocksAt(start) \in Seq(Seq(Instr))
         /\ Len(BlocksAt(start)) = Len(start)
         /\ \A b \in 1 .. Len(start) :
              /\ Len(BlocksAt(start)[b]) = After(start, b) - start[b]
              /\ \A k \in 1 .. After(start, b) - start[b] :
                   BlocksAt(start)[b][k] = start[b] + k - 1
<1> DEFINE N == Len(start)
           L == BlocksAt(start)
<1>1. N \in Nat
  BY StartsFacts
<1>2. ASSUME NEW b \in 1 .. N
      PROVE  /\ L[b] \in Seq(Instr) /\ Len(L[b]) = After(start, b) - start[b]
             /\ \A k \in 1 .. After(start, b) - start[b] : L[b][k] = start[b] + k - 1
  <2> DEFINE n == After(start, b) - start[b]
  <2>1. L[b] = [k \in 1 .. n |-> start[b] + k - 1]
    BY DEF BlocksAt
  <2>2. n \in Nat /\ \A k \in 1 .. n : start[b] + k - 1 \in Instr
    BY StartsFacts, InstrAssumption DEF Instr
  <2> HIDE DEF n, L
  <2>3. L[b] \in [1 .. n -> Instr] /\ \A k \in 1 .. n : L[b][k] = start[b] + k - 1
    BY <2>1, <2>2
  <2>4. L[b] \in Seq(Instr) /\ Len(L[b]) = n
    BY <2>2, <2>3
  <2>5. QED
    BY <2>3, <2>4 DEF n
<1>3. DOMAIN L = 1 .. N /\ L = [b \in 1 .. N |-> L[b]]
  BY DEF BlocksAt
<1> HIDE DEF L, N
<1>4. L \in [1 .. N -> Seq(Instr)]
  BY <1>2, <1>3
<1>5. L \in Seq(Seq(Instr)) /\ Len(L) = N
  BY <1>1, <1>4
<1>6. QED
  BY <1>2, <1>5 DEF L, N

LEMMA InitOrder ==
  ASSUME NEW start \in Starts, layout = BlocksAt(start)
  PROVE  OrderKept
<1> DEFINE N == Len(start)
           after(b) == After(start, b)
<1>1. DOMAIN layout = 1 .. N /\ \A b \in 1 .. N : layout[b] \in Seq(Instr)
  BY BlocksAtFacts
<1>2. ASSUME NEW b \in 1 .. N
      PROVE  /\ DOMAIN layout[b] = 1 .. after(b) - start[b]
             /\ \A k \in 1 .. after(b) - start[b] : layout[b][k] = start[b] + k - 1
             /\ start[b] \in Nat /\ after(b) \in Nat
  BY <1>1, BlocksAtFacts, StartsFacts
<1>3. ASSUME NEW i \in Instr
      PROVE  \E b \in DOMAIN layout : \E k \in DOMAIN layout[b] : layout[b][k] = i
  <2>1. PICK b \in 1 .. N : start[b] <= i /\ i < after(b)
    BY StartsCover
  <2> DEFINE k == i - start[b] + 1
  <2> HIDE DEF N, after
  <2>2. k \in 1 .. after(b) - start[b] /\ start[b] + k - 1 = i
    BY <1>2, <2>1 DEF Instr
  <2> HIDE DEF k
  <2>3. b \in DOMAIN layout /\ k \in DOMAIN layout[b] /\ layout[b][k] = i
    BY <1>1, <1>2, <2>2
  <2>4. QED
    BY <2>3
<1>4. ASSUME NEW b \in 1 .. N, NEW c \in 1 .. N, NEW k \in DOMAIN layout[b], NEW l \in DOMAIN layout[c],
             b < c \/ (b = c /\ k < l)
      PROVE  layout[b][k] < layout[c][l]
  <2>1. b < c => after(b) <= start[c]
    BY StartsFacts
  <2> HIDE DEF N, after
  <2>2. /\ k \in 1 .. after(b) - start[b] /\ l \in 1 .. after(c) - start[c]
        /\ layout[b][k] = start[b] + k - 1 /\ layout[c][l] = start[c] + l - 1
    BY <1>2
  <2>3. start[b] \in Nat /\ start[c] \in Nat /\ after(b) \in Nat
    BY <1>2
  <2>4. QED
    BY <1>4, <2>1, <2>2, <2>3
<1>5. QED
  BY <1>1, <1>3, <1>4 DEF OrderKept

LEMMA SplitInitInv == SplitInit => SplitBBInv
<1> SUFFICES ASSUME SplitInit PROVE SplitBBInv
  OBVIOUS
<1>1. PICK start \in Starts : layout = BlocksAt(start)
  BY DEF SplitInit
<1>2. layout \in Seq(Seq(Instr)) /\ layout # <<>>
  BY <1>1, BlocksAtFacts, StartsFacts
<1>3. SplitTypeOK
  BY <1>2, InstrAssumption DEF SplitInit, SplitTypeOK
<1>4. OrderKept
  BY <1>1, InitOrder
<1>5. Pending = {} /\ {i \in Calls : i < bi} = {}
  BY DEF SplitInit, Pending, Calls, Instr
<1>6. QED
  BY <1>3, <1>4, <1>5 DEF SplitInit, SplitBBInv, CollectInv, SplitInv

-----------------------------------------------------------------------------
LEMMA CollectStep ==
  ASSUME SplitBBInv, Collect
  PROVE  SplitBBInv'
<1>1. /\ phase = "collect" /\ bi \in Instr /\ bi' = bi + 1
      /\ CIs' = IF bi \in Calls THEN Append(CIs, bi) ELSE CIs
      /\ UNCHANGED <<kind, layout, phase>>
  BY DEF Collect
<1>2. SplitTypeOK /\ CIs \in Seq(Calls) /\ Pending = {i \in Calls : i < bi}
  BY <1>1 DEF SplitBBInv, SplitTypeOK, CollectInv
<1>3. Calls' = Calls
  BY <1>1 DEF Calls
<1>4. CIs' \in Seq(Calls) /\ Pending' = Pending \cup ({bi} \cap Calls)
  <2>1. CASE bi \in Calls
    <3>1. CIs' = Append(CIs, bi)
      BY <1>1, <2>1
    <3>2. /\ CIs' \in Seq(Calls) /\ Len(CIs') = Len(CIs) + 1 /\ Len(CIs) \in Nat
          /\ \A n \in 1 .. Len(CIs) : CIs'[n] = CIs[n]
          /\ CIs'[Len(CIs) + 1] = bi
      BY <1>2, <2>1, <3>1, AppendProperties
    <3>3. QED
      BY <2>1, <3>2 DEF Pending
  <2>2. CASE bi \notin Calls
    BY <1>1, <1>2, <2>2 DEF Pending
  <2>3. QED
    BY <2>1, <2>2
<1>5. SplitTypeOK'
  BY <1>1, <1>2, <1>3, <1>4, InstrAssumption DEF SplitTypeOK, Instr
<1>6. Pending' = {i \in Calls : i < bi + 1}
  BY <1>1, <1>2, <1>4 DEF Calls, Instr
<1>7. OrderKept'
  BY <1>1 DEF SplitBBInv, OrderKept
<1>8. QED
  BY <1>1, <1>3, <1>5, <1>6, <1>7 DEF SplitBBInv, CollectInv, SplitInv

LEMMA StartSplitStep ==
  ASSUME SplitBBInv, StartSplit
  PROVE  SplitBBInv'
<1>1. phase = "collect" /\ bi \notin Instr /\ phase' = "split" /\ UNCHANGED <<kind, layout, bi, CIs>>
  BY DEF StartSplit
<1>2. SplitTypeOK /\ Pending = {i \in Calls : i < bi}
  BY <1>1 DEF SplitBBInv, CollectInv
<1>3. Calls \subseteq Pending
  BY <1>1, <1>2, InstrAssumption DEF SplitTypeOK, Calls, Instr
<1>4. Pending' = Pending /\ Calls' = Calls
  BY <1>1 DEF Pending, Calls
<1>5. SplitTypeOK' /\ OrderKept'
  BY <1>1, <1>2 DEF SplitBBInv, SplitTypeOK, OrderKept, Calls
<1>6. SplitInv'
  BY <1>1, <1>3, <1>4 DEF SplitInv
<1>7. QED
  BY <1>1, <1>5, <1>6 DEF SplitBBInv, CollectInv

\* What splitBasicBlock does to the positions: each position of the new layout was one
\* of the old, in the same order.
LEMMA SplitLayout ==
  ASSUME NEW b \in 1 .. Len(layout), NEW k \in 1 .. Len(layout[b]),
         layout \in Seq(Seq(Instr)), SplitBlock(b, k)
  PROVE  /\ layout' \in Seq(Seq(Instr))
         /\ Len(layout') = Len(layout) + 1
         /\ \A c \in 1 .. b - 1 : layout'[c] = layout[c]
         /\ Len(layout'[b]) = k - 1 /\ \A l \in 1 .. k - 1 : layout'[b][l] = layout[b][l]
         /\ Len(layout'[b + 1]) = Len(layout[b]) - k + 1
         /\ \A l \in 1 .. Len(layout[b]) - k + 1 : layout'[b + 1][l] = layout[b][k + l - 1]
         /\ \A c \in b + 2 .. Len(layout) + 1 : layout'[c] = layout[c - 1]
<1> DEFINE pre  == SubSeq(layout, 1, b - 1)
           one  == SubSeq(layout[b], 1, k - 1)
           two  == SubSeq(layout[b], k, Len(layout[b]))
           post == SubSeq(layout, b + 1, Len(layout))
<1>1. layout' = (pre \o <<one, two>>) \o post
  BY DEF SplitBlock
<1>2. Len(layout) \in Nat /\ layout[b] \in Seq(Instr) /\ Len(layout[b]) \in Nat
  OBVIOUS
<1>3. /\ one \in Seq(Instr) /\ Len(one) = k - 1
      /\ \A l \in 1 .. k - 1 : one[l] = layout[b][l]
  BY <1>2
<1>4. /\ two \in Seq(Instr) /\ Len(two) = Len(layout[b]) - k + 1
      /\ \A l \in 1 .. Len(layout[b]) - k + 1 : two[l] = layout[b][k + l - 1]
  BY <1>2
<1>5. /\ pre \in Seq(Seq(Instr)) /\ Len(pre) = b - 1
      /\ \A c \in 1 .. b - 1 : pre[c] = layout[c]
  BY <1>2
<1>6. /\ post \in Seq(Seq(Instr)) /\ Len(post) = Len(layout) - b
      /\ \A c \in 1 .. Len(layout) - b : post[c] = layout[b + c]
  BY <1>2
<1> HIDE DEF pre, one, two, post
<1> DEFINE mid   == <<one, two>>
           front == pre \o mid
<1>7. mid \in Seq(Seq(Instr)) /\ Len(mid) = 2 /\ mid[1] = one /\ mid[2] = two
  BY <1>3, <1>4
<1>8. layout' = front \o post
  BY <1>1
<1> HIDE DEF mid
<1>9. /\ front \in Seq(Seq(Instr)) /\ Len(front) = Len(pre) + Len(mid)
      /\ \A c \in 1 .. Len(pre) + Len(mid) :
           front[c] = IF c <= Len(pre) THEN pre[c] ELSE mid[c - Len(pre)]
  BY <1>5, <1>7, ConcatProperties
<1> HIDE DEF front
<1>10. /\ Len(front) = b + 1 /\ \A c \in 1 .. b - 1 : front[c] = layout[c]
       /\ front[b] = one /\ front[b + 1] = two
  <2>1. Len(front) = b + 1 /\ b \in 1 .. b + 1 /\ b + 1 \in 1 .. b + 1
    BY <1>2, <1>5, <1>7, <1>9
  <2>2. front[b] = mid[1] /\ front[b + 1] = mid[2]
    BY <2>1, <1>2, <1>5, <1>7, <1>9
  <2>3. ASSUME NEW c \in 1 .. b - 1
        PROVE  front[c] = layout[c]
    <3>1. c \in 1 .. Len(pre) + Len(mid) /\ c <= Len(pre)
      BY <1>2, <1>5, <1>7
    <3>2. QED
      BY <3>1, <1>5, <1>9
  <2>4. QED
    BY <2>1, <2>2, <2>3, <1>7
<1> DEFINE new == front \o post
<1>11. /\ new \in Seq(Seq(Instr)) /\ Len(new) = Len(front) + Len(post)
       /\ \A c \in 1 .. Len(front) + Len(post) :
            new[c] = IF c <= Len(front) THEN front[c] ELSE post[c - Len(front)]
  <2>1. front \in Seq(Seq(Instr)) /\ post \in Seq(Seq(Instr))
    BY <1>6, <1>9
  <2>2. QED
    BY <2>1, ConcatProperties
<1> HIDE DEF new
<1>12. Len(new) = Len(layout) + 1
  BY <1>2, <1>6, <1>10, <1>11
<1>13. ASSUME NEW c \in 1 .. b + 1
       PROVE  new[c] = front[c]
  <2>1. c \in 1 .. Len(front) + Len(post) /\ c <= Len(front)
    BY <1>2, <1>6, <1>10
  <2>2. QED
    BY <2>1, <1>11
<1>14. ASSUME NEW c \in b + 2 .. Len(layout) + 1
       PROVE  new[c] = layout[c - 1]
  <2> DEFINE d == c - (b + 1)
  <2>1. c \in 1 .. Len(front) + Len(post) /\ ~ (c <= Len(front)) /\ c - Len(front) = d
    BY <1>2, <1>6, <1>10
  <2>2. d \in 1 .. Len(layout) - b /\ b + d = c - 1
    BY <1>2
  <2>3. new[c] = post[d]
    BY <2>1, <1>11
  <2> HIDE DEF d
  <2>4. post[d] = layout[b + d]
    BY <2>2, <1>6
  <2>5. QED
    BY <2>2, <2>3, <2>4
<1>15. new[b] = one /\ new[b + 1] = two /\ \A c \in 1 .. b - 1 : new[c] = layout[c]
  <2>1. b \in 1 .. b + 1 /\ b + 1 \in 1 .. b + 1 /\ \A c \in 1 .. b - 1 : c \in 1 .. b + 1
    BY <1>2
  <2>2. QED
    BY <2>1, <1>10, <1>13
<1>16. layout' = new
  BY <1>8 DEF new
<1>17. /\ Len(layout'[b]) = k - 1 /\ \A l \in 1 .. k - 1 : layout'[b][l] = layout[b][l]
       /\ Len(layout'[b + 1]) = Len(layout[b]) - k + 1
       /\ \A l \in 1 .. Len(layout[b]) - k + 1 : layout'[b + 1][l] = layout[b][k + l - 1]
  BY <1>3, <1>4, <1>15, <1>16
<1>18. QED
  BY <1>11, <1>12, <1>14, <1>15, <1>16, <1>17

\* Where the l-th instruction of block c of the new layout was before.
OldBlock(b, c)       == IF c <= b THEN c ELSE c - 1
OldPlace(b, k, c, l) == IF c = b + 1 THEN k + l - 1 ELSE l

LEMMA SplitPositions ==
  ASSUME NEW b \in 1 .. Len(layout), NEW k \in 1 .. Len(layout[b]),
         layout \in Seq(Seq(Instr)), SplitBlock(b, k),
         NEW c \in 1 .. Len(layout'), NEW l \in 1 .. Len(layout'[c])
  PROVE  /\ OldBlock(b, c) \in 1 .. Len(layout)
         /\ OldPlace(b, k, c, l) \in 1 .. Len(layout[OldBlock(b, c)])
         /\ layout'[c][l] = layout[OldBlock(b, c)][OldPlace(b, k, c, l)]
<1>1. Len(layout) \in Nat /\ Len(layout[b]) \in Nat /\ Len(layout') = Len(layout) + 1
  <2>1. Len(layout) \in Nat /\ Len(layout[b]) \in Nat
    OBVIOUS
  <2>2. Len(layout') = Len(layout) + 1
    BY SplitLayout, Zenon
  <2>3. QED
    BY <2>1, <2>2
<1> DEFINE n == Len(layout)
           m == Len(layout[b])
<1> HIDE DEF n, m
<1>2. n \in Nat /\ m \in Nat /\ b \in 1 .. n /\ k \in 1 .. m /\ c \in 1 .. n + 1
  BY <1>1 DEF n, m
<1>3. CASE c < b
  <2>1. c \in 1 .. b - 1 /\ c \in 1 .. n /\ OldBlock(b, c) = c /\ OldPlace(b, k, c, l) = l
    BY <1>2, <1>3 DEF OldBlock, OldPlace
  <2>2. layout'[c] = layout[c]
    BY <2>1, SplitLayout
  <2>3. QED
    BY <2>1, <2>2 DEF n
<1>4. CASE c = b
  <2>1. OldBlock(b, c) = c /\ OldPlace(b, k, c, l) = l
    BY <1>2, <1>4 DEF OldBlock, OldPlace
  <2>2. Len(layout'[b]) = k - 1 /\ \A j \in 1 .. k - 1 : layout'[b][j] = layout[b][j]
    BY SplitLayout
  <2>3. l \in 1 .. k - 1 /\ l \in 1 .. m
    BY <1>2, <1>4, <2>2
  <2>4. QED
    BY <1>2, <1>4, <2>1, <2>2, <2>3 DEF n, m
<1>5. CASE c = b + 1
  <2>1. OldBlock(b, c) = b /\ OldPlace(b, k, c, l) = k + l - 1
    BY <1>2, <1>5 DEF OldBlock, OldPlace
  <2>2. /\ Len(layout'[b + 1]) = m - k + 1
        /\ \A j \in 1 .. m - k + 1 : layout'[b + 1][j] = layout[b][k + j - 1]
    BY SplitLayout DEF m
  <2>3. l \in 1 .. m - k + 1
    BY <1>5, <2>2
  <2>4. k + l - 1 \in 1 .. m
    BY <1>2, <2>3
  <2>5. QED
    BY <1>2, <1>5, <2>1, <2>2, <2>3, <2>4 DEF n, m
<1>6. CASE c > b + 1
  <2>1. /\ c \in b + 2 .. n + 1 /\ c - 1 \in 1 .. n
        /\ OldBlock(b, c) = c - 1 /\ OldPlace(b, k, c, l) = l
    BY <1>2, <1>6 DEF OldBlock, OldPlace
  <2>2. layout'[c] = layout[c - 1]
    BY <2>1, SplitLayout DEF n
  <2>3. QED
    BY <2>1, <2>2 DEF n
<1>7. QED
  BY <1>2, <1>3, <1>4, <1>5, <1>6

\* Every instruction still has a position, and the call split at is first in block b + 1.
LEMMA SplitCover ==
  ASSUME NEW b \in 1 .. Len(layout), NEW k \in 1 .. Len(layout[b]),
         layout \in Seq(Seq(Instr)), SplitBlock(b, k),
         NEW c \in 1 .. Len(layout), NEW l \in 1 .. Len(layout[c])
  PROVE  \E d \in 1 .. Len(layout') : \E j \in 1 .. Len(layout'[d]) :
           layout'[d][j] = layout[c][l]
<1>1. Len(layout) \in Nat /\ Len(layout[b]) \in Nat /\ Len(layout') = Len(layout) + 1
  <2>1. Len(layout) \in Nat /\ Len(layout[b]) \in Nat
    OBVIOUS
  <2>2. Len(layout') = Len(layout) + 1
    BY SplitLayout, Zenon
  <2>3. QED
    BY <2>1, <2>2
<1> DEFINE n == Len(layout)
           m == Len(layout[b])
<1> HIDE DEF n, m
<1>2. n \in Nat /\ m \in Nat /\ b \in 1 .. n /\ k \in 1 .. m /\ c \in 1 .. n
      /\ Len(layout') = n + 1
  BY <1>1 DEF n, m
<1>3. CASE c < b
  <2>1. c \in 1 .. b - 1 /\ c \in 1 .. n + 1
    BY <1>2, <1>3
  <2>2. layout'[c] = layout[c]
    BY <2>1, SplitLayout
  <2>3. QED
    BY <1>2, <2>1, <2>2
<1>4. CASE c = b /\ l < k
  <2>1. Len(layout'[b]) = k - 1 /\ \A j \in 1 .. k - 1 : layout'[b][j] = layout[b][j]
    BY SplitLayout
  <2>2. l \in 1 .. k - 1 /\ b \in 1 .. n + 1
    BY <1>2, <1>4
  <2>3. b \in 1 .. Len(layout') /\ l \in 1 .. Len(layout'[b]) /\ layout'[b][l] = layout[c][l]
    BY <1>2, <1>4, <2>1, <2>2
  <2>4. QED
    BY <2>3
<1>5. CASE c = b /\ ~ (l < k)
  <2> DEFINE j == l - k + 1
  <2>1. /\ Len(layout'[b + 1]) = m - k + 1
        /\ \A i \in 1 .. m - k + 1 : layout'[b + 1][i] = layout[b][k + i - 1]
    BY SplitLayout DEF m
  <2>2. l \in 1 .. m
    BY <1>5 DEF m
  <2>3. j \in 1 .. m - k + 1 /\ k + j - 1 = l /\ b + 1 \in 1 .. n + 1
    BY <1>2, <1>5, <2>2
  <2> HIDE DEF j
  <2>4. b + 1 \in 1 .. Len(layout') /\ j \in 1 .. Len(layout'[b + 1]) /\ layout'[b + 1][j] = layout[c][l]
    BY <1>2, <1>5, <2>1, <2>3
  <2>5. QED
    BY <2>4
<1>6. CASE c > b
  <2>1. c + 1 \in b + 2 .. n + 1 /\ c + 1 \in 1 .. n + 1 /\ (c + 1) - 1 = c
    BY <1>2, <1>6
  <2>2. layout'[c + 1] = layout[c]
    BY <2>1, SplitLayout DEF n
  <2>3. QED
    BY <1>2, <2>1, <2>2
<1>7. QED
  BY <1>2, <1>3, <1>4, <1>5, <1>6

\* The order of two positions is the order their instructions had before.
LEMMA SplitOrder ==
  ASSUME NEW b \in Nat, NEW k \in Nat, NEW c \in Nat, NEW d \in Nat, NEW l \in Nat \ {0}, NEW j \in Nat \ {0},
         c < d \/ (c = d /\ l < j), c = b => l < k
  PROVE  \/ OldBlock(b, c) < OldBlock(b, d)
         \/ OldBlock(b, c) = OldBlock(b, d) /\ OldPlace(b, k, c, l) < OldPlace(b, k, d, j)
  BY DEF OldBlock, OldPlace

\* The order of the instructions, stated with the lengths of the blocks.
LEMMA OrderFacts ==
  ASSUME layout \in Seq(Seq(Instr)), OrderKept
  PROVE  /\ \A i \in Instr : \E b \in 1 .. Len(layout) : \E k \in 1 .. Len(layout[b]) : layout[b][k] = i
         /\ \A b, c \in 1 .. Len(layout) :
              \A k \in 1 .. Len(layout[b]), l \in 1 .. Len(layout[c]) :
                b < c \/ (b = c /\ k < l) => layout[b][k] < layout[c][l]
<1>1. DOMAIN layout = 1 .. Len(layout) /\ \A b \in 1 .. Len(layout) : DOMAIN layout[b] = 1 .. Len(layout[b])
  OBVIOUS
<1>2. QED
  BY <1>1 DEF OrderKept

LEMMA SplitKeepsOrder ==
  ASSUME NEW b \in 1 .. Len(layout), NEW k \in 1 .. Len(layout[b]),
         layout \in Seq(Seq(Instr)), SplitBlock(b, k), OrderKept
  PROVE  /\ layout' \in Seq(Seq(Instr))
         /\ \A i \in Instr : \E c \in 1 .. Len(layout') : \E l \in 1 .. Len(layout'[c]) : layout'[c][l] = i
         /\ \A c, d \in 1 .. Len(layout') :
              \A l \in 1 .. Len(layout'[c]), j \in 1 .. Len(layout'[d]) :
                c < d \/ (c = d /\ l < j) => layout'[c][l] < layout'[d][j]
<1>1. layout' \in Seq(Seq(Instr)) /\ Len(layout'[b]) = k - 1
  BY SplitLayout
<1>2. ASSUME NEW i \in Instr
      PROVE  \E c \in 1 .. Len(layout') : \E l \in 1 .. Len(layout'[c]) : layout'[c][l] = i
  <2>1. PICK c \in 1 .. Len(layout) : \E l \in 1 .. Len(layout[c]) : layout[c][l] = i
    BY OrderFacts
  <2>2. PICK l \in 1 .. Len(layout[c]) : layout[c][l] = i
    BY <2>1
  <2>3. QED
    BY <2>2, SplitCover
<1>3. ASSUME NEW c \in 1 .. Len(layout'), NEW d \in 1 .. Len(layout'),
             NEW l \in 1 .. Len(layout'[c]), NEW j \in 1 .. Len(layout'[d]),
             c < d \/ (c = d /\ l < j)
      PROVE  layout'[c][l] < layout'[d][j]
  <2> DEFINE oc == OldBlock(b, c)
             od == OldBlock(b, d)
             ol == OldPlace(b, k, c, l)
             oj == OldPlace(b, k, d, j)
  <2>1. oc \in 1 .. Len(layout) /\ ol \in 1 .. Len(layout[oc]) /\ layout'[c][l] = layout[oc][ol]
    BY SplitPositions
  <2>2. od \in 1 .. Len(layout) /\ oj \in 1 .. Len(layout[od]) /\ layout'[d][j] = layout[od][oj]
    BY SplitPositions
  <2>3. c = b => l < k
    BY <1>1
  <2>4. b \in Nat /\ k \in Nat /\ c \in Nat /\ d \in Nat /\ l \in Nat \ {0} /\ j \in Nat \ {0}
    OBVIOUS
  <2>5. oc < od \/ (oc = od /\ ol < oj)
    BY <1>3, <2>3, <2>4, SplitOrder
  <2> HIDE DEF oc, od, ol, oj
  <2>6. layout[oc][ol] < layout[od][oj]
    BY <2>1, <2>2, <2>5, OrderFacts
  <2>7. QED
    BY <2>1, <2>2, <2>6
<1>4. QED
  BY <1>1, <1>2, <1>3

LEMMA SplitKeepsPending ==
  ASSUME CIs \in Seq(Calls), CIs # <<>>, CIs' = Tail(CIs), UNCHANGED kind
  PROVE  /\ CIs' \in Seq(Calls)' /\ Head(CIs) \in Calls
         /\ \A i \in Pending : i = Head(CIs) \/ i \in Pending'
<1>1. /\ Tail(CIs) \in Seq(Calls) /\ Len(Tail(CIs)) = Len(CIs) - 1 /\ Len(CIs) \in Nat
      /\ \A n \in 1 .. Len(CIs) - 1 : Tail(CIs)[n] = CIs[n + 1]
      /\ Head(CIs) = CIs[1] /\ Head(CIs) \in Calls
  BY HeadTailProperties
<1>2. Calls' = Calls
  BY DEF Calls
<1>3. ASSUME NEW i \in Pending, i # Head(CIs)
      PROVE  i \in Pending'
  <2>1. PICK n \in 1 .. Len(CIs) : CIs[n] = i
    BY DEF Pending
  <2>2. n # 1
    BY <1>1, <1>3, <2>1
  <2>3. n - 1 \in 1 .. Len(CIs) - 1 /\ (n - 1) + 1 = n
    BY <1>1, <2>2
  <2>4. Tail(CIs)[n - 1] = i
    BY <1>1, <2>1, <2>3
  <2>5. QED
    BY <1>1, <2>3, <2>4 DEF Pending
<1>4. QED
  BY <1>1, <1>2, <1>3

LEMMA SplitStep ==
  ASSUME SplitBBInv, Split
  PROVE  SplitBBInv'
<1>1. /\ phase = "split" /\ CIs # <<>> /\ CIs' = Tail(CIs) /\ UNCHANGED <<kind, bi, phase>>
      /\ \E b \in DOMAIN layout : \E k \in DOMAIN layout[b] : layout[b][k] = Head(CIs) /\ SplitBlock(b, k)
  BY DEF Split
<1>2. SplitTypeOK /\ OrderKept /\ layout \in Seq(Seq(Instr)) /\ CIs \in Seq(Calls)
  BY DEF SplitBBInv, SplitTypeOK
<1>14. DOMAIN layout = 1 .. Len(layout) /\ \A b \in 1 .. Len(layout) : DOMAIN layout[b] = 1 .. Len(layout[b])
  BY <1>2
<1>3. PICK b \in 1 .. Len(layout) : \E k \in 1 .. Len(layout[b]) : layout[b][k] = Head(CIs) /\ SplitBlock(b, k)
  BY <1>1, <1>14
<1>4. PICK k \in 1 .. Len(layout[b]) : layout[b][k] = Head(CIs) /\ SplitBlock(b, k)
  BY <1>3
<1>5. /\ layout' \in Seq(Seq(Instr))
      /\ \A i \in Instr : \E c \in 1 .. Len(layout') : \E l \in 1 .. Len(layout'[c]) : layout'[c][l] = i
      /\ \A c, d \in 1 .. Len(layout') :
           \A l \in 1 .. Len(layout'[c]), j \in 1 .. Len(layout'[d]) :
             c < d \/ (c = d /\ l < j) => layout'[c][l] < layout'[d][j]
  BY <1>2, <1>4, SplitKeepsOrder
<1>6. OrderKept'
  <2>1. DOMAIN layout' = 1 .. Len(layout') /\ \A c \in 1 .. Len(layout') : DOMAIN layout'[c] = 1 .. Len(layout'[c])
    BY <1>5
  <2>2. QED
    BY <1>5, <2>1 DEF OrderKept
<1>7. CIs' \in Seq(Calls)' /\ Head(CIs) \in Calls /\ Calls' = Calls
      /\ \A i \in Pending : i = Head(CIs) \/ i \in Pending'
  BY <1>1, <1>2, SplitKeepsPending DEF Calls
<1>8. Len(layout') = Len(layout) + 1 /\ Len(layout) \in Nat
  BY <1>2, <1>4, SplitLayout
<1>9. SplitTypeOK'
  BY <1>1, <1>2, <1>5, <1>7, <1>8 DEF SplitTypeOK
<1>10. b + 1 \in 1 .. Len(layout') /\ 1 \in 1 .. Len(layout'[b + 1]) /\ layout'[b + 1][1] = Head(CIs)
  <2>1. /\ Len(layout'[b + 1]) = Len(layout[b]) - k + 1
        /\ \A l \in 1 .. Len(layout[b]) - k + 1 : layout'[b + 1][l] = layout[b][k + l - 1]
    BY <1>2, <1>4, SplitLayout
  <2>2. Len(layout[b]) \in Nat /\ k + 1 - 1 = k
    BY <1>2
  <2>3. 1 \in 1 .. Len(layout[b]) - k + 1
    BY <2>2
  <2>4. QED
    BY <1>4, <1>8, <2>1, <2>2, <2>3
<1>11. ASSUME NEW c \in 1 .. Len(layout'), NEW l \in 1 .. Len(layout'[c]),
              layout'[c][l] \in Calls, Misplaced(c, l)
       PROVE  layout'[c][l] \in Pending'
  <2> DEFINE oc == OldBlock(b, c)
             ol == OldPlace(b, k, c, l)
  <2>1. oc \in 1 .. Len(layout) /\ ol \in 1 .. Len(layout[oc]) /\ layout'[c][l] = layout[oc][ol]
    BY <1>2, <1>4, SplitPositions
  <2>2. b \in Nat \ {0} /\ k \in Nat \ {0} /\ c \in Nat \ {0} /\ l \in Nat \ {0}
    <3> HIDE DEF oc, ol
    <3>1. layout[b] \in Seq(Instr)
      BY <1>2
    <3>2. layout'[c] \in Seq(Instr)
      BY <1>5
    <3>3. Len(layout) \in Nat /\ Len(layout') \in Nat
      BY <1>8
    <3>4. Len(layout) \in Nat /\ Len(layout[b]) \in Nat /\ Len(layout') \in Nat /\ Len(layout'[c]) \in Nat
      BY <3>1, <3>2, <3>3
    <3>5. QED
      BY <3>4
  <2>3. Misplaced(oc, ol)
    BY <1>11, <2>2 DEF Misplaced, OldBlock, OldPlace
  <2> HIDE DEF oc, ol
  <2>4. layout[oc][ol] \in Pending
    BY <1>1, <1>11, <2>1, <2>3 DEF SplitBBInv, SplitInv
  <2>5. layout'[c][l] # Head(CIs)
    <3>1. SUFFICES ASSUME layout'[c][l] = Head(CIs) PROVE FALSE
      OBVIOUS
    <3>2. ~ (c < b + 1 \/ (c = b + 1 /\ l < 1)) /\ ~ (b + 1 < c \/ (b + 1 = c /\ 1 < l))
      <4>1. Head(CIs) \in Nat /\ ~ (Head(CIs) < Head(CIs))
        BY <1>7 DEF Calls, Instr
      <4>2. \A d, e \in 1 .. Len(layout') : \A i \in 1 .. Len(layout'[d]), j \in 1 .. Len(layout'[e]) :
              d < e \/ (d = e /\ i < j) => layout'[d][i] < layout'[e][j]
        BY <1>5
      <4>3. ~ (c < b + 1 \/ (c = b + 1 /\ l < 1))
        BY <1>10, <3>1, <4>1, <4>2
      <4>4. ~ (b + 1 < c \/ (b + 1 = c /\ 1 < l))
        BY <1>10, <3>1, <4>1, <4>2
      <4>5. QED
        BY <4>3, <4>4
    <3>3. c = b + 1 /\ l = 1
      BY <2>2, <3>2
    <3>4. QED
      BY <1>11, <2>2, <3>3 DEF Misplaced
  <2>6. QED
    BY <1>7, <2>1, <2>4, <2>5
<1>12. SplitInv' /\ CollectInv'
  BY <1>1, <1>7, <1>11 DEF SplitInv, CollectInv, Misplaced
<1>13. QED
  BY <1>1, <1>6, <1>9, <1>12 DEF SplitBBInv

LEMMA FinishStep ==
  ASSUME SplitBBInv, FinishSplit
  PROVE  SplitBBInv'
<1>1. /\ phase = "split" /\ CIs = <<>> /\ phase' = "done"
      /\ kind' = kind /\ layout' = layout /\ bi' = bi /\ CIs' = CIs
  BY DEF FinishSplit
<1>2. Calls' = Calls /\ Pending' = Pending /\ (OrderKept' <=> OrderKept)
  BY <1>1 DEF Calls, Pending, OrderKept
<1>3. SplitTypeOK' /\ CollectInv' /\ SplitInv'
  BY <1>1, <1>2 DEF SplitBBInv, SplitTypeOK, CollectInv, SplitInv, Misplaced
<1>4. QED
  BY <1>1, <1>2, <1>3 DEF SplitBBInv

LEMMA SplitInvariance == SplitSpec => []SplitBBInv
<1>1. ASSUME SplitBBInv, [SplitNext]_splitVars
      PROVE  SplitBBInv'
  <2>1. CASE Collect
    BY <1>1, <2>1, CollectStep
  <2>2. CASE StartSplit
    BY <1>1, <2>2, StartSplitStep
  <2>3. CASE Split
    BY <1>1, <2>3, SplitStep
  <2>4. CASE FinishSplit
    BY <1>1, <2>4, FinishStep
  <2>5. CASE UNCHANGED splitVars
    <3>1. kind' = kind /\ layout' = layout /\ bi' = bi /\ CIs' = CIs /\ phase' = phase
      BY <2>5 DEF splitVars
    <3>2. Calls' = Calls /\ Pending' = Pending /\ (OrderKept' <=> OrderKept)
      BY <3>1 DEF Calls, Pending, OrderKept
    <3>3. SplitTypeOK' /\ CollectInv' /\ SplitInv'
      BY <1>1, <3>1, <3>2 DEF SplitBBInv, SplitTypeOK, CollectInv, SplitInv, Misplaced
    <3>4. QED
      BY <1>1, <3>1, <3>2, <3>3 DEF SplitBBInv
  <2>6. QED
    BY <1>1, <2>1, <2>2, <2>3, <2>4, <2>5 DEF SplitNext, SplitTerminated
<1>2. QED
  BY <1>1, SplitInitInv, PTL DEF SplitSpec

LEMMA CallsPlaced == SplitBBInv => OneCallPerBlock
<1>1. SUFFICES ASSUME SplitBBInv, phase = "done" PROVE OneCallPerBlock
  BY DEF OneCallPerBlock
<1>2. layout \in Seq(Seq(Instr)) /\ layout # <<>>
  BY <1>1 DEF SplitBBInv, SplitTypeOK
<1>3. /\ DOMAIN layout = 1 .. Len(layout) /\ 1 \in 1 .. Len(layout)
      /\ \A b \in 1 .. Len(layout) : DOMAIN layout[b] = 1 .. Len(layout[b])
  BY <1>2
<1>4. Pending = {}
  BY <1>1 DEF SplitBBInv, Pending
<1>5. \A b \in 1 .. Len(layout) : \A k \in 1 .. Len(layout[b]) :
        layout[b][k] \in Calls => b # 1 /\ k = 1
  BY <1>1, <1>4 DEF SplitBBInv, SplitInv, Misplaced
<1>6. QED
  BY <1>3, <1>5 DEF OneCallPerBlock

\* The blocks hold instructions of the function, and only calls are split at.
THEOREM SplitTypesCorrect == SplitSpec => []SplitTypeOK
<1>1. SplitBBInv => SplitTypeOK
  BY DEF SplitBBInv
<1> QED BY <1>1, SplitInvariance, PTL

\* splitBasicBlock keeps the instructions and their order, however many splits there are:
\* read block by block, the function is the same after every call that is split off.
THEOREM OrderCorrect == SplitSpec => []OrderKept
<1>1. SplitBBInv => OrderKept
  BY DEF SplitBBInv
<1> QED BY <1>1, SplitInvariance, PTL

\* What PrivGraph.h:64 relies on: after the pass a block has at most one call, in front,
\* and the entry block has none, not even one it started with.
THEOREM OneCallCorrect == SplitSpec => []OneCallPerBlock
<1>1. SplitBBInv => OneCallPerBlock
  BY CallsPlaced
<1> QED BY <1>1, SplitInvariance, PTL
=============================================================================
