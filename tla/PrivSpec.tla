------------------------------ MODULE PrivSpec ------------------------------
(***************************************************************************)
(* What the privilege wrapper (tests/priv.h) promises its caller.  A call  *)
(* returns 0 on success and -1 "on any error": it then has done all it was *)
(* asked, in one step, or it has changed nothing.  Capabilities form sets: *)
(* raises and lowers are not counted, and what is removed is gone.         *)
(***************************************************************************)
EXTENDS Integers, Sequences, FiniteSets

CONSTANTS
  LastCap,   \* CAP_LAST_CAP
  Args       \* the argument lists the program passes

Cap    == 0 .. LastCap
CapNum == LastCap + 1       \* CAP_NUM
Value  == 0 .. CapNum       \* an argument; the last one is no capability

\* Calls with every count up to two more than there are capabilities to be raised.
LowerAll == [op |-> "lowerall", count |-> CapNum, args |-> <<>>]
Calls    == [op : {"raise", "lower", "remove"}, count : 0 .. CapNum + 1, args : Args]
              \cup {LowerAll}
NoCall   == [op |-> "none", count |-> 0, args |-> <<>>]

\* The sets a call may name: its first count arguments and, where the count promises
\* more of them than there are, whatever va_arg finds.
Named(c) ==
  LET passed  == {c.args[i] : i \in 1 .. Len(c.args) \cap 1 .. c.count}
      missing == c.count - Len(c.args)
  IN  {passed \cup found :
         found \in {V \in SUBSET Value : V # {} => Cardinality(V) <= missing}}

VARIABLES
  permitted, effective,   \* of the calling thread
  call,                   \* the call that is running, or NoCall
  outcome                 \* its result: "none" yet, "ok", "error"

vars == <<permitted, effective, call, outcome>>

Init ==
  /\ permitted \in SUBSET Cap /\ effective \in SUBSET permitted
  /\ call = NoCall /\ outcome = "none"

Begin ==
  /\ call = NoCall
  /\ call' \in Calls
  /\ UNCHANGED <<permitted, effective, outcome>>

\* A list of all capabilities is too long already.
Accepted == call.count \in 1 .. LastCap

Raise(caps) ==
  /\ call.op = "raise" /\ Accepted
  /\ caps \cap Cap \subseteq permitted
  /\ effective' = effective \cup (caps \cap Cap)
  /\ UNCHANGED permitted

Lower(caps) ==
  /\ call.op = "lower" /\ Accepted
  /\ effective' = effective \ caps
  /\ UNCHANGED permitted

Remove(caps) ==
  /\ call.op = "remove" /\ Accepted
  /\ effective' = effective \ caps
  /\ permitted' = permitted \ caps

LowerEverything ==
  /\ call.op = "lowerall"
  /\ effective' = {}
  /\ UNCHANGED permitted

Succeed ==
  /\ call # NoCall /\ outcome = "none"
  /\ \/ \E caps \in Named(call) : Raise(caps) \/ Lower(caps) \/ Remove(caps)
     \/ LowerEverything
  /\ outcome' = "ok"
  /\ UNCHANGED call

Fail ==
  /\ call # NoCall /\ outcome = "none"
  /\ outcome' = "error"
  /\ UNCHANGED <<permitted, effective, call>>

End ==
  /\ outcome # "none"
  /\ call' = NoCall /\ outcome' = "none"
  /\ UNCHANGED <<permitted, effective>>

Next == Begin \/ Succeed \/ Fail \/ End

\* Every call returns.
Spec == Init /\ [][Next]_vars /\ WF_vars(Succeed \/ Fail) /\ WF_vars(End)
=============================================================================
