---------------------------- MODULE PrivLibProofs ---------------------------
(***************************************************************************)
(* For any number of capabilities and any argument lists, every step of    *)
(* the wrapper is a step of PrivSpec or changes nothing it speaks of, and  *)
(* no path leaks or frees twice a handle.  CallInv says what the copy      *)
(* holds at each step; everything else follows from it.                    *)
(***************************************************************************)
EXTENDS PrivLib, TLAPS

Running == {"check", "get", "effective", "permitted", "set"}

\* The copy at each step of the call.
CopyInv ==
  /\ pc = "effective" => copy = [permitted |-> permitted, effective |-> effective]
  /\ pc = "permitted" =>
       /\ call.op = "remove"
       /\ copy = [permitted |-> permitted, effective |-> effective \ list]
  /\ pc = "set" =>
       copy = [permitted |-> IF call.op = "remove" THEN permitted \ list ELSE permitted,
               effective |-> IF call.op = "raise" THEN effective \cup (list \cap Cap)
                                                  ELSE effective \ list]

CallInv ==
  /\ pc = "idle" => call = S!NoCall
  /\ pc # "idle" => call \in S!Calls
  /\ pc = "check" => call.op # "lowerall"
  /\ pc \in {"idle"} \cup Running => ret = "none"
  /\ pc = "free" => ret = "ok"
  /\ pc = "return" => ret \in {"ok", "error"}
  /\ pc \in {"get", "effective", "permitted", "set"} =>
       call.op = "lowerall" \/ call.count <= LastCap
  /\ pc \in {"permitted", "set"} => call.count > 0
  /\ pc \in {"effective", "permitted", "set"} =>
       IF call.op = "lowerall" THEN list = Cap ELSE list \in S!Named(call)

Inv == TypeOK /\ HandlesBalanced /\ FailsForAReason /\ CopyInv /\ CallInv

LEMMA CallsType ==
  ASSUME NEW c \in S!Calls
  PROVE  /\ c.op \in {"raise", "lower", "remove", "lowerall"}
         /\ c.count \in Nat
         /\ c.args \in Seq(S!Value)
         /\ c # S!NoCall
         /\ c.op = "lowerall" => c.count > 0
<1>1. <<>> \in Seq(S!Value) /\ Args \subseteq Seq(S!Value)
  BY LibAssumption DEF S!Value, S!CapNum
<1>2. CASE c = S!LowerAll
  BY <1>1, <1>2, LibAssumption DEF S!LowerAll, S!NoCall, S!CapNum
<1>3. CASE c \in [op : {"raise", "lower", "remove"}, count : 0 .. S!CapNum + 1, args : Args]
  BY <1>1, <1>3, LibAssumption DEF S!NoCall, S!CapNum
<1> QED BY <1>2, <1>3 DEF S!Calls

LEMMA NamedType ==
  ASSUME NEW c \in S!Calls, NEW caps \in S!Named(c)
  PROVE  caps \subseteq S!Value
<1>1. \A i \in 1 .. Len(c.args) : c.args[i] \in S!Value
  BY CallsType
<1> QED BY <1>1 DEF S!Named

LEMMA CapType == Cap \subseteq S!Value /\ LastCap \in Nat
BY LibAssumption DEF Cap, S!Cap, S!Value, S!CapNum

LEMMA InitInv == Init => Inv
<1> SUFFICES ASSUME Init PROVE Inv
  OBVIOUS
<1> USE DEF Init
<1>1. TypeOK
  BY DEF TypeOK, Empty
<1>2. HandlesBalanced /\ FailsForAReason /\ CopyInv /\ CallInv
  BY DEF HandlesBalanced, FailsForAReason, CopyInv, CallInv, Holding, Running
<1> QED BY <1>1, <1>2 DEF Inv

\* A return with -1, and whether the handle was got before.
LEMMA FailsInv ==
  ASSUME Inv, NEW freed \in {0, 1}, Fails(freed),
         pc # "idle", freed = (IF pc \in Holding THEN 1 ELSE 0), fault' \in BOOLEAN,
         FailsForAReason'
  PROVE  Inv'
<1>1. /\ handles' = handles - freed /\ ret' = "error" /\ pc' = "return"
      /\ UNCHANGED <<permitted, effective, call, list, copy>>
  BY DEF Fails, kernel, locals
<1>2. handles = freed
  BY DEF Inv, HandlesBalanced
<1>3. TypeOK' /\ HandlesBalanced'
  BY <1>1, <1>2 DEF Inv, TypeOK, HandlesBalanced, Holding
<1>4. CopyInv'
  BY <1>1 DEF CopyInv
<1>5. CallInv'
  BY <1>1 DEF Inv, CallInv, Running
<1> QED BY <1>3, <1>4, <1>5 DEF Inv

LEMMA NextInv == Inv /\ [Next]_vars => Inv'
<1> SUFFICES ASSUME Inv, [Next]_vars PROVE Inv'
  OBVIOUS
<1> USE DEF kernel, locals
<1>1. CASE Call
  <2>1. /\ pc = "idle" /\ call' \in S!Calls
        /\ pc' = IF call'.op = "lowerall" THEN "get" ELSE "check"
        /\ UNCHANGED <<permitted, effective, list, copy, handles, fault, ret>>
    BY <1>1 DEF Call
  <2>2. TypeOK' /\ HandlesBalanced' /\ CopyInv'
    BY <2>1 DEF Inv, TypeOK, HandlesBalanced, Holding, CopyInv
  <2>3. ret' = "none" /\ pc' # "idle"
    BY <2>1 DEF Inv, CallInv
  <2>4. CallInv' /\ FailsForAReason'
    BY <2>1, <2>3 DEF CallInv, FailsForAReason, Running
  <2> QED BY <2>2, <2>4 DEF Inv
<1>2. CASE CheckCount
  <2>1. /\ pc = "check" /\ ~ call.count > LastCap /\ pc' = "get"
        /\ UNCHANGED <<permitted, effective, call, list, copy, handles, fault, ret>>
    BY <1>2 DEF CheckCount, IsOversized
  <2>2. TypeOK' /\ HandlesBalanced' /\ CopyInv' /\ FailsForAReason'
    BY <2>1 DEF Inv, TypeOK, HandlesBalanced, Holding, CopyInv, FailsForAReason
  <2>3. call.count \in Nat
    BY <2>1, CallsType DEF Inv, CallInv
  <2>4. CallInv'
    BY <2>1, <2>3, CapType DEF Inv, CallInv, Running
  <2> QED BY <2>2, <2>4 DEF Inv
<1>3. CASE RejectCount
  <2>1. pc = "check" /\ call.count > LastCap /\ Fails(0) /\ fault' = fault
    BY <1>3 DEF RejectCount, IsOversized
  <2>2. FailsForAReason'
    BY <2>1 DEF FailsForAReason, Fails
  <2> QED BY <2>1, <2>2, FailsInv DEF Holding, Inv, TypeOK
<1>4. CASE GetProc
  <2>1. /\ pc = "get" /\ copy' = [permitted |-> permitted, effective |-> effective]
        /\ handles' = handles + 1
        /\ IF call.op = "lowerall" THEN list' = Cap ELSE list' \in S!Named(call)
        /\ pc' = "effective"
        /\ UNCHANGED <<permitted, effective, call, fault, ret>>
    BY <1>4 DEF GetProc
  <2>2. list' \subseteq S!Value
    BY <2>1, CapType, NamedType DEF Inv, CallInv
  <2>3. TypeOK' /\ HandlesBalanced'
    BY <2>1, <2>2 DEF Inv, TypeOK, HandlesBalanced, Holding
  <2>4. CopyInv' /\ FailsForAReason'
    BY <2>1 DEF Inv, CallInv, Running, CopyInv, FailsForAReason
  <2>5. CallInv'
    BY <2>1 DEF Inv, CallInv, Running
  <2> QED BY <2>3, <2>4, <2>5 DEF Inv
<1>5. CASE GetProcFails
  <2>1. pc = "get" /\ Fails(0) /\ fault' = TRUE
    BY <1>5 DEF GetProcFails
  <2>2. FailsForAReason'
    BY <2>1 DEF FailsForAReason
  <2> QED BY <2>1, <2>2, FailsInv DEF Holding
<1>6. CASE SetEffective
  <2>1. /\ pc = "effective" /\ call.count > 0
        /\ copy' = [copy EXCEPT !.effective =
                      Flag(copy.effective, IF call.op = "raise" THEN "CAP_SET" ELSE "CAP_CLEAR")]
        /\ pc' = IF call.op = "remove" THEN "permitted" ELSE "set"
        /\ UNCHANGED <<permitted, effective, call, list, handles, fault, ret>>
    BY <1>6 DEF SetEffective
  <2>2. copy = [permitted |-> permitted, effective |-> effective]
    BY <2>1 DEF Inv, CopyInv
  <2>3. copy' = [permitted |-> permitted,
                 effective |-> IF call.op = "raise" THEN effective \cup (list \cap Cap)
                                                    ELSE effective \ list]
    BY <2>1, <2>2 DEF Flag
  <2>4. TypeOK' /\ HandlesBalanced'
    BY <2>1, <2>3 DEF Inv, TypeOK, HandlesBalanced, Holding
  <2>5. CopyInv'
    BY <2>1, <2>3 DEF CopyInv
  <2>6. CallInv' /\ FailsForAReason'
    BY <2>1 DEF Inv, CallInv, FailsForAReason, Running
  <2> QED BY <2>4, <2>5, <2>6 DEF Inv
<1>7. CASE ClearPermitted
  <2>1. /\ pc = "permitted" /\ pc' = "set"
        /\ copy' = [copy EXCEPT !.permitted = Flag(copy.permitted, "CAP_CLEAR")]
        /\ UNCHANGED <<permitted, effective, call, list, handles, fault, ret>>
    BY <1>7 DEF ClearPermitted
  <2>2. call.op = "remove" /\ copy = [permitted |-> permitted, effective |-> effective \ list]
    BY <2>1 DEF Inv, CopyInv
  <2>3. copy' = [permitted |-> permitted \ list, effective |-> effective \ list]
    BY <2>1, <2>2 DEF Flag
  <2>4. TypeOK' /\ HandlesBalanced'
    BY <2>1, <2>3 DEF Inv, TypeOK, HandlesBalanced, Holding
  <2>5. CopyInv'
    BY <2>1, <2>2, <2>3 DEF CopyInv
  <2>6. CallInv' /\ FailsForAReason'
    BY <2>1 DEF Inv, CallInv, FailsForAReason, Running
  <2> QED BY <2>4, <2>5, <2>6 DEF Inv
<1>8. CASE SetFlagFails
  <2>1. /\ pc \in {"effective", "permitted"} /\ Fails(1)
        /\ fault' = (fault \/ call.count > 0)
    BY <1>8 DEF SetFlagFails
  <2>2. call.count \in Nat
    BY <2>1, CallsType DEF Inv, CallInv
  <2>3. call.count = 0 \/ call.count > 0
    BY <2>2
  <2>4. fault' \/ call'.count = 0
    BY <2>1, <2>3 DEF Fails
  <2>5. FailsForAReason'
    BY <2>4, Zenon DEF FailsForAReason
  <2> QED BY <2>1, <2>5, FailsInv DEF Holding, Inv, TypeOK
<1>9. CASE SetProc
  <2>1. /\ pc = "set" /\ copy.effective \subseteq copy.permitted
        /\ permitted' = copy.permitted /\ effective' = copy.effective
        /\ ret' = "ok" /\ pc' = "free"
        /\ UNCHANGED <<call, list, copy, handles, fault>>
    BY <1>9 DEF SetProc, IsAllowed
  <2>2. TypeOK' /\ HandlesBalanced'
    BY <2>1 DEF Inv, TypeOK, HandlesBalanced, Holding
  <2>3. CopyInv' /\ CallInv' /\ FailsForAReason'
    BY <2>1 DEF Inv, CopyInv, CallInv, FailsForAReason, Running
  <2> QED BY <2>2, <2>3 DEF Inv
<1>10. CASE SetProcFails
  <2>1. pc = "set" /\ Fails(1) /\ fault' = (fault \/ IsAllowed)
    BY <1>10 DEF SetProcFails
  <2>2. CASE IsAllowed
    BY <2>1, <2>2, FailsInv DEF Holding, FailsForAReason, Inv, TypeOK
  <2>3. CASE ~ IsAllowed
    <3>1. effective \subseteq permitted
      BY DEF Inv, TypeOK
    <3>2. call.op = "raise" /\ ~ list \cap Cap \subseteq permitted
      BY <2>1, <2>3, <3>1 DEF Inv, CopyInv, IsAllowed
    <3>3. FailsForAReason'
      BY <2>1, <3>2 DEF FailsForAReason, Fails
    <3> QED BY <2>1, <2>3, <3>3, FailsInv DEF Holding, Inv, TypeOK
  <2> QED BY <2>2, <2>3
<1>11. CASE Free
  <2>1. /\ pc = "free" /\ pc' = "return" /\ handles' = handles - 1
        /\ UNCHANGED <<permitted, effective, call, list, copy, fault, ret>>
    BY <1>11 DEF Free
  <2>2. TypeOK' /\ HandlesBalanced'
    BY <2>1 DEF Inv, TypeOK, HandlesBalanced, Holding
  <2>3. CopyInv' /\ CallInv' /\ FailsForAReason'
    BY <2>1 DEF Inv, CopyInv, CallInv, FailsForAReason, Running
  <2> QED BY <2>2, <2>3 DEF Inv
<1>12. CASE Return
  <2>1. /\ pc = "return" /\ pc' = "idle" /\ ret' = "none" /\ fault' = FALSE
        /\ call' = S!NoCall /\ list' = {} /\ copy' = Empty
        /\ UNCHANGED <<permitted, effective, handles>>
    BY <1>12 DEF Return
  <2>2. TypeOK' /\ HandlesBalanced'
    BY <2>1 DEF Inv, TypeOK, HandlesBalanced, Holding, Empty
  <2>3. CopyInv' /\ CallInv' /\ FailsForAReason'
    BY <2>1 DEF CopyInv, CallInv, FailsForAReason, Running
  <2> QED BY <2>2, <2>3 DEF Inv
<1>13. CASE UNCHANGED vars
  BY <1>13 DEF vars, Inv, TypeOK, HandlesBalanced, FailsForAReason, CopyInv, CallInv
<1> QED BY <1>1, <1>2, <1>3, <1>4, <1>5, <1>6, <1>7, <1>8, <1>9, <1>10, <1>11, <1>12, <1>13
        DEF Next, Step

-----------------------------------------------------------------------------
\* The wrapper implements PrivSpec, but for the fairness.

LEMMA SucceedStep == Inv /\ SetProc => S!Succeed
<1> SUFFICES ASSUME Inv, SetProc PROVE S!Succeed
  OBVIOUS
<1>1. /\ pc = "set" /\ permitted' = copy.permitted /\ effective' = copy.effective
      /\ copy.permitted \subseteq permitted /\ copy.effective \subseteq copy.permitted
      /\ ret' = "ok" /\ call' = call
  BY DEF SetProc, IsAllowed
<1>2. /\ permitted' = IF call.op = "remove" THEN permitted \ list ELSE permitted
      /\ effective' = IF call.op = "raise" THEN effective \cup (list \cap Cap)
                                           ELSE effective \ list
  BY <1>1 DEF Inv, CopyInv
<1>3. /\ call \in S!Calls /\ ret = "none" /\ call.count > 0
      /\ call.op = "lowerall" \/ call.count <= LastCap
      /\ IF call.op = "lowerall" THEN list = Cap ELSE list \in S!Named(call)
  BY <1>1 DEF Inv, CallInv, Running
<1>4. call # S!NoCall /\ call.op \in {"raise", "lower", "remove", "lowerall"} /\ call.count \in Nat
  BY <1>3, CallsType
<1>5. CASE call.op = "lowerall"
  <2>1. effective' = {} /\ permitted' = permitted
    BY <1>2, <1>3, <1>5 DEF Inv, TypeOK
  <2> QED BY <1>1, <1>3, <1>4, <1>5, <2>1 DEF S!Succeed, S!LowerEverything
<1>6. CASE call.op # "lowerall"
  <2>1. S!Accepted
    BY <1>3, <1>4, <1>6, CapType DEF S!Accepted
  <2>2. CASE call.op = "raise"
    <3>1. list \cap S!Cap \subseteq permitted
      BY <1>1, <1>2, <2>2 DEF Cap
    <3>2. S!Raise(list)
      BY <1>2, <2>1, <2>2, <3>1 DEF S!Raise, Cap
    <3> QED BY <1>1, <1>3, <1>4, <1>6, <3>2 DEF S!Succeed
  <2>3. CASE call.op = "lower"
    <3>1. S!Lower(list)
      BY <1>2, <2>1, <2>3 DEF S!Lower
    <3> QED BY <1>1, <1>3, <1>4, <1>6, <3>1 DEF S!Succeed
  <2>4. CASE call.op = "remove"
    <3>1. S!Remove(list)
      BY <1>2, <2>1, <2>4 DEF S!Remove
    <3> QED BY <1>1, <1>3, <1>4, <1>6, <3>1 DEF S!Succeed
  <2> QED BY <1>4, <1>6, <2>2, <2>3, <2>4
<1> QED BY <1>5, <1>6

LEMMA FailStep ==
  ASSUME Inv, NEW freed, Fails(freed), pc \in Running
  PROVE  S!Fail
<1>1. call \in S!Calls /\ ret = "none"
  BY DEF Inv, CallInv, Running
<1>2. call # S!NoCall
  BY <1>1, CallsType
<1> QED BY <1>1, <1>2 DEF Fails, kernel, locals, S!Fail

LEMMA NextStep == Inv /\ [Next]_vars => [S!Next]_S!vars
<1> SUFFICES ASSUME Inv, [Next]_vars PROVE [S!Next]_S!vars
  OBVIOUS
<1> USE DEF kernel, S!Next, S!vars
<1>1. CASE Call
  <2>1. call = S!NoCall
    BY <1>1 DEF Call, Inv, CallInv
  <2>2. S!Begin
    BY <1>1, <2>1 DEF Call, S!Begin
  <2> QED BY <2>2
<1>2. CASE CheckCount \/ GetProc \/ SetEffective \/ ClearPermitted \/ Free \/ UNCHANGED vars
  BY <1>2 DEF CheckCount, GetProc, SetEffective, ClearPermitted, Free, vars
<1>3. CASE RejectCount \/ GetProcFails \/ SetFlagFails \/ SetProcFails
  BY <1>3, FailStep DEF RejectCount, GetProcFails, SetFlagFails, SetProcFails, Running
<1>4. CASE SetProc
  BY <1>4, SucceedStep
<1>5. CASE Return
  <2>1. ret # "none"
    BY <1>5 DEF Return, Inv, CallInv
  <2>2. S!End
    BY <1>5, <2>1 DEF Return, S!End
  <2> QED BY <2>2
<1> QED BY <1>1, <1>2, <1>3, <1>4, <1>5 DEF Next, Step

-----------------------------------------------------------------------------
THEOREM Invariance == Spec => []Inv
<1>1. Init => Inv
  BY InitInv
<1>2. Inv /\ [Next]_vars => Inv'
  BY NextInv
<1> QED BY <1>1, <1>2, PTL DEF Spec

\* The sets, the locals and the handle count keep their types, and what is effective is
\* permitted.
THEOREM TypeCorrect == Spec => []TypeOK
<1>1. Inv => TypeOK
  BY DEF Inv
<1> QED BY <1>1, Invariance, PTL

\* No path through the wrapper leaks a handle or frees one twice.
THEOREM HandlesCorrect == Spec => []HandlesBalanced
<1>1. Inv => HandlesBalanced
  BY DEF Inv
<1> QED BY <1>1, Invariance, PTL

\* A call of the wrapper that returns -1 has met a failing library call, a raise of
\* something not permitted, or a count that is 0 or too large.
THEOREM FailuresCorrect == Spec => []FailsForAReason
<1>1. Inv => FailsForAReason
  BY DEF Inv
<1> QED BY <1>1, Invariance, PTL

\* A call of the wrapper takes its whole effect in one step and returns 0, or changes
\* nothing and returns -1: the safety part of ImplementsPrivSpec.
THEOREM AllOrNothing == Spec => S!Init /\ [][S!Next]_S!vars
<1>1. Init => S!Init
  BY DEF Init, S!Init, Cap
<1>2. Inv /\ [Next]_vars => [S!Next]_S!vars
  BY NextStep
<1> QED BY <1>1, <1>2, Invariance, PTL DEF Spec
=============================================================================
