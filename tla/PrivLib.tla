------------------------------ MODULE PrivLib -------------------------------
(***************************************************************************)
(* The privilege wrapper tests/priv.c: priv_raise, priv_lower, priv_remove *)
(* and priv_lowerall, library call by library call.  Each works on a copy  *)
(* of the thread's capability sets (a cap_t, to be freed), changes flags   *)
(* in the copy and gives it to the kernel; every library call may fail.    *)
(* The four functions are the same but for the flags they change, so a     *)
(* step is one action for all of them.                                     *)
(*                                                                         *)
(* libcap and the kernel are external: cap_set_flag wants at least one     *)
(* value and skips values that are no capabilities, cap_set_proc lets no   *)
(* permitted capability be gained and none be effective without being      *)
(* permitted.                                                              *)
(***************************************************************************)
EXTENDS Integers, Sequences, FiniteSets

CONSTANTS
  LastCap,   \* CAP_LAST_CAP
  Args       \* the argument lists the program passes

ASSUME LibAssumption == LastCap \in Nat /\ Args \subseteq Seq(0 .. LastCap + 1)

VARIABLES
  permitted, effective,  \* of the calling thread, kept by the kernel
  call,                  \* the running call with its arguments
  list,                  \* cap_v_list, the values read from them
  copy,                  \* cap, the sets the handle holds
  handles,               \* the handles allocated and not freed
  fault,                 \* whether a library call has failed without cause (history)
  ret,                   \* the result decided on: "none", "ok" (0), "error" (-1)
  pc                     \* the next step, "idle" between calls

kernel == <<permitted, effective>>
locals == <<list, copy>>
vars   == <<kernel, call, locals, handles, fault, ret, pc>>

\* A call of the wrapper promises what PrivSpec says; only the copy is hidden.
S == INSTANCE PrivSpec WITH
       permitted <- permitted, effective <- effective, call <- call, outcome <- ret

Cap == S!Cap

Empty == [permitted |-> {}, effective |-> {}]
Holding == {"effective", "permitted", "set", "free"}   \* steps with a handle

TypeOK ==
  /\ permitted \subseteq Cap /\ effective \subseteq permitted
  /\ call \in S!Calls \cup {S!NoCall}
  /\ list \subseteq S!Value
  /\ copy \in [permitted : SUBSET Cap, effective : SUBSET Cap]
  /\ handles \in Nat
  /\ fault \in BOOLEAN
  /\ ret \in {"none", "ok", "error"}
  /\ pc \in {"idle", "check", "get", "return"} \cup Holding

Init ==
  /\ permitted \in SUBSET Cap /\ effective \in SUBSET permitted
  /\ call = S!NoCall /\ list = {} /\ copy = Empty
  /\ handles = 0 /\ fault = FALSE /\ ret = "none"
  /\ pc = "idle"

-----------------------------------------------------------------------------
\* The program calls the wrapper; priv_lowerall checks no count.
Call ==
  /\ pc = "idle"
  /\ call' \in S!Calls
  /\ pc' = IF call'.op = "lowerall" THEN "get" ELSE "check"
  /\ UNCHANGED <<kernel, locals, handles, fault, ret>>

\* return -1
Fails(freed) ==
  /\ handles' = handles - freed
  /\ ret' = "error"
  /\ pc' = "return"
  /\ UNCHANGED <<kernel, call, locals>>

IsOversizedFrom(count) == count >= LastCap   \* faulty: one too few
IsOversized(count) == count > LastCap

CheckCount ==
  /\ pc = "check"
  /\ ~ IsOversized(call.count)
  /\ pc' = "get"
  /\ UNCHANGED <<kernel, call, locals, handles, fault, ret>>

RejectCount ==
  /\ pc = "check"
  /\ IsOversized(call.count)
  /\ Fails(0)
  /\ UNCHANGED fault

\* cap_get_proc, and the loop that fills cap_v_list.
GetProc ==
  /\ pc = "get"
  /\ copy' = [permitted |-> permitted, effective |-> effective]
  /\ handles' = handles + 1
  /\ IF call.op = "lowerall" THEN list' = Cap ELSE list' \in S!Named(call)
  /\ pc' = "effective"
  /\ UNCHANGED <<kernel, call, fault, ret>>

GetProcFails ==
  /\ pc = "get"
  /\ Fails(0)
  /\ fault' = TRUE

\* cap_set_flag sets or clears the values that are capabilities.
Flag(set, value) ==
  IF value = "CAP_SET" THEN set \cup (list \cap Cap) ELSE set \ list

SetEffective ==
  /\ pc = "effective" /\ call.count > 0
  /\ copy' = [copy EXCEPT !.effective =
                Flag(@, IF call.op = "raise" THEN "CAP_SET" ELSE "CAP_CLEAR")]
  /\ pc' = IF call.op = "remove" THEN "permitted" ELSE "set"
  /\ UNCHANGED <<kernel, call, list, handles, fault, ret>>

\* Faulty: the kernel gets the copy after the first of the two flags as well.
ClearPermittedLate ==
  /\ pc = "permitted"
  /\ copy' = [copy EXCEPT !.permitted = Flag(@, "CAP_CLEAR")]
  /\ effective' = copy.effective
  /\ pc' = "set"
  /\ UNCHANGED <<permitted, call, list, handles, fault, ret>>

ClearPermitted ==
  /\ pc = "permitted"
  /\ copy' = [copy EXCEPT !.permitted = Flag(@, "CAP_CLEAR")]
  /\ pc' = "set"
  /\ UNCHANGED <<kernel, call, list, handles, fault, ret>>

\* Faulty: the second error path returns without cap_free.
SetFlagFailsLeaks ==
  /\ pc \in {"effective", "permitted"}
  /\ Fails(IF pc = "effective" THEN 1 ELSE 0)
  /\ fault' = (fault \/ call.count > 0)

SetFlagFails ==
  /\ pc \in {"effective", "permitted"}
  /\ Fails(1)
  /\ fault' = (fault \/ call.count > 0)

\* What the kernel refuses.
IsAllowed == copy.permitted \subseteq permitted /\ copy.effective \subseteq copy.permitted

SetProc ==
  /\ pc = "set" /\ IsAllowed
  /\ permitted' = copy.permitted /\ effective' = copy.effective
  /\ ret' = "ok"
  /\ pc' = "free"
  /\ UNCHANGED <<call, locals, handles, fault>>

\* Faulty: the error path has no return and runs on to the second cap_free.
SetProcFailsRunsOn ==
  /\ pc = "set"
  /\ handles' = handles - 1
  /\ ret' = "error" /\ fault' = TRUE
  /\ pc' = "free"
  /\ UNCHANGED <<kernel, call, locals>>

SetProcFails ==
  /\ pc = "set"
  /\ Fails(1)
  /\ fault' = (fault \/ IsAllowed)

Free ==
  /\ pc = "free"
  /\ handles' = handles - 1
  /\ pc' = "return"
  /\ UNCHANGED <<kernel, call, locals, fault, ret>>

Return ==
  /\ pc = "return"
  /\ call' = S!NoCall /\ list' = {} /\ copy' = Empty
  /\ fault' = FALSE /\ ret' = "none"
  /\ pc' = "idle"
  /\ UNCHANGED <<kernel, handles>>

Step ==
  \/ CheckCount \/ RejectCount
  \/ GetProc \/ GetProcFails
  \/ SetEffective \/ ClearPermitted \/ SetFlagFails
  \/ SetProc \/ SetProcFails
  \/ Free \/ Return

Next == Call \/ Step

\* Once called, the code runs on; the program need not call.
Fairness == WF_vars(Step)

Spec == Init /\ [][Next]_vars /\ Fairness

-----------------------------------------------------------------------------
\* "return: 0 on success, -1 on any error" (priv.h:33-34): whichever library call fails,
\* a call takes its whole effect or none, priv_remove on both sets at once; what it does
\* to a capability does not depend on earlier raises and lowers; and it returns.
ImplementsPrivSpec == S!Spec

\* Every path through the four functions frees the handle it has got, once.
HandlesBalanced == handles = IF pc \in Holding THEN 1 ELSE 0

\* A call fails only if a library call does, if the kernel has to refuse it (a raise of
\* something not permitted), or if the count is 0 or counts all capabilities: removing
\* never meets the kernel's rule that the effective ones are permitted.
FailsForAReason ==
  ret = "error" =>
    \/ fault
    \/ call.count = 0 \/ call.count > LastCap
    \/ call.op = "raise" /\ ~ (list \cap Cap \subseteq permitted)
=============================================================================
