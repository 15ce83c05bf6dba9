-------------------------- MODULE DepthFirstProofs --------------------------
(***************************************************************************)
(* The recursive search returns, and on every graph collects exactly what  *)
(* can be reached.  The invariant: what the loops have passed of the       *)
(* callees of a visited node is visited, and only active calls have        *)
(* callees left; when no call is active, visited is closed.                *)
(***************************************************************************)
EXTENDS DepthFirst, ReachabilityTheorems, SequenceTheorems, FiniteSetTheorems

\* Everything visited is reachable, and it is closed up to the callees that the
\* active calls have still to come to.
SearchInv ==
  /\ root \in visited
  /\ visited \subseteq Reach(callees, root)
  /\ \A n \in visited : callees[n] \ todo[n] \subseteq visited
  /\ \A n \in Node : todo[n] # {} => \E i \in 1 .. Len(stack) : stack[i] = n
  /\ \A i \in 1 .. Len(stack) : stack[i] \in visited

Inv == TypeOK /\ StackIsPath /\ SearchInv

-----------------------------------------------------------------------------
\* Returning from a call removes the last element of the stack and no other.
LEMMA FrontFacts ==
  ASSUME NEW A, NEW s \in Seq(A), s # <<>>
  PROVE  /\ Len(s) \in Nat \ {0}
         /\ SubSeq(s, 1, Len(s) - 1) \in Seq(A)
         /\ Len(SubSeq(s, 1, Len(s) - 1)) = Len(s) - 1
         /\ \A i \in 1 .. Len(s) - 1 : SubSeq(s, 1, Len(s) - 1)[i] = s[i]
<1>1. Len(s) \in Nat \ {0} /\ \A i \in 1 .. Len(s) : s[i] \in A
  OBVIOUS
<1> DEFINE n == Len(s) - 1
<1>2. n \in Int /\ 1 \in Int /\ \A i \in 1 .. n : s[i] \in A
  BY <1>1
<1> HIDE DEF n
<1>3. /\ SubSeq(s, 1, n) \in Seq(A)
      /\ Len(SubSeq(s, 1, n)) = IF 1 <= n THEN n - 1 + 1 ELSE 0
      /\ \A i \in 1 .. n - 1 + 1 : SubSeq(s, 1, n)[i] = s[1 + i - 1]
  BY <1>2, SubSeqProperties
<1>4. n \in Nat
  BY <1>1 DEF n
<1>5. Len(SubSeq(s, 1, n)) = n
  BY <1>3, <1>4
<1>6. ASSUME NEW i \in 1 .. n PROVE SubSeq(s, 1, n)[i] = s[i]
  <2>1. i \in 1 .. n - 1 + 1 /\ 1 + i - 1 = i
    BY <1>4
  <2>2. SubSeq(s, 1, n)[i] = s[1 + i - 1]
    BY <1>3, <2>1
  <2>3. QED
    BY <2>1, <2>2, Zenon
<1>7. QED
  BY <1>1, <1>3, <1>5, <1>6, Zenon DEF n

\* Entering a call adds an element at the end.
LEMMA AppendFacts ==
  ASSUME NEW A, NEW s \in Seq(A), NEW m \in A
  PROVE  /\ Append(s, m) \in Seq(A)
         /\ Len(Append(s, m)) = Len(s) + 1
         /\ Len(s) \in Nat
         /\ Append(s, m)[Len(s) + 1] = m
         /\ \A i \in 1 .. Len(s) : Append(s, m)[i] = s[i]
OBVIOUS

LEMMA InitInv == Init => Inv
<1> SUFFICES ASSUME Init PROVE Inv
  OBVIOUS
<1> USE RootAssumption
<1>1. stack \in Seq(Node) /\ Len(stack) = 1 /\ stack[1] = root
  BY DEF Init
<1>2. TypeOK
  BY <1>1 DEF Init, TypeOK
<1>3. StackIsPath
  BY <1>1 DEF StackIsPath
<1>4. SearchInv
  <2>1. root \in Reach(callees, root)
    BY ReachFacts DEF Init
  <2>2. QED
    BY <1>1, <2>1 DEF Init, SearchInv
<1>5. QED
  BY <1>2, <1>3, <1>4 DEF Inv

\* A loop round that comes to a visited callee.
LEMMA SkipInv ==
  ASSUME Inv, stack # <<>>, NEW m \in todo[Top], m \in visited, Skip(m),
         UNCHANGED <<callees, table>>
  PROVE  Inv'
<1>1. Len(stack) \in Nat \ {0} /\ Top \in Node
  BY FrontFacts DEF Inv, TypeOK, Top
<1>2. TypeOK'
  BY <1>1 DEF Inv, TypeOK, Skip
<1>3. StackIsPath'
  BY DEF Inv, StackIsPath, Skip
<1>4. SearchInv'
  <2>1. \A n \in Node : todo'[n] = IF n = Top THEN todo[n] \ {m} ELSE todo[n]
    BY <1>1 DEF Inv, TypeOK, Skip
  <2>2. QED
    BY <2>1 DEF Inv, TypeOK, SearchInv, Skip
<1>5. QED
  BY <1>2, <1>3, <1>4 DEF Inv

\* A loop round that enters a callee.
LEMMA DescendInv ==
  ASSUME Inv, stack # <<>>, NEW m \in todo[Top], m \notin visited, Descend(m),
         UNCHANGED <<callees, table>>
  PROVE  Inv'
<1>1. Len(stack) \in Nat \ {0} /\ Top \in Node /\ m \in Node /\ m \in callees[Top]
  BY FrontFacts DEF Inv, TypeOK, Top
<1>2. /\ stack' \in Seq(Node) /\ Len(stack') = Len(stack) + 1
      /\ stack'[Len(stack) + 1] = m
      /\ \A i \in 1 .. Len(stack) : stack'[i] = stack[i]
  BY <1>1, AppendFacts DEF Inv, TypeOK, Descend
<1>3. Top \in visited
  BY <1>1 DEF Inv, SearchInv, Top
<1>4. m # Top
  BY <1>3
<1>5. \A n \in Node : todo'[n] = IF n = Top THEN todo[n] \ {m}
                                 ELSE IF n = m THEN callees[m] ELSE todo[n]
  BY <1>1, <1>4 DEF Inv, TypeOK, Descend
<1>6. TypeOK'
  <2>1. todo' \in [Node -> SUBSET Node]
    BY <1>1 DEF Inv, TypeOK, Descend
  <2>2. QED
    BY <1>1, <1>2, <1>5, <2>1 DEF Inv, TypeOK, Descend
<1>7. StackIsPath'
  <2>1. stack'[1] = root
    BY <1>1, <1>2 DEF Inv, StackIsPath
  <2>2. ASSUME NEW i \in 1 .. Len(stack') - 1
        PROVE  stack'[i + 1] \in callees'[stack'[i]]
    <3>1. CASE i = Len(stack)
      BY <1>1, <1>2, <3>1 DEF Top
    <3>2. CASE i \in 1 .. Len(stack) - 1
      BY <1>1, <1>2, <3>2 DEF Inv, StackIsPath
    <3>3. QED
      BY <1>1, <1>2, <3>1, <3>2
  <2>3. ASSUME NEW i \in 1 .. Len(stack'), NEW j \in 1 .. Len(stack'),
               stack'[i] = stack'[j]
        PROVE  i = j
    <3>1. \A k \in 1 .. Len(stack) : stack'[k] # m
      BY <1>2 DEF Inv, SearchInv
    <3>2. QED
      BY <1>1, <1>2, <2>3, <3>1 DEF Inv, StackIsPath
  <2>4. QED
    BY <2>1, <2>2, <2>3 DEF StackIsPath
<1>8. SearchInv'
  <2>1. visited' = visited \cup {m} /\ callees' = callees
    BY DEF Descend
  <2>2. m \in Reach(callees, root)
    BY <1>1, <1>3, RootAssumption, ReachFacts DEF Inv, TypeOK, SearchInv
  <2>3. ASSUME NEW n \in visited'
        PROVE  callees'[n] \ todo'[n] \subseteq visited'
    BY <1>1, <1>3, <1>4, <1>5, <2>1 DEF Inv, TypeOK, SearchInv
  <2>4. ASSUME NEW n \in Node, todo'[n] # {}
        PROVE  \E i \in 1 .. Len(stack') : stack'[i] = n
    <3>1. CASE n = m
      BY <1>1, <1>2, <3>1
    <3>2. CASE n # m
      <4>1. todo[n] # {}
        BY <1>5, <2>4, <3>2
      <4>2. PICK i \in 1 .. Len(stack) : stack[i] = n
        BY <4>1 DEF Inv, SearchInv
      <4>3. QED
        BY <1>1, <1>2, <4>2
    <3>3. QED
      BY <3>1, <3>2
  <2>5. \A i \in 1 .. Len(stack') : stack'[i] \in visited'
    BY <1>1, <1>2, <2>1 DEF Inv, SearchInv
  <2>6. QED
    BY <2>1, <2>2, <2>3, <2>4, <2>5 DEF Inv, SearchInv
<1>9. QED
  BY <1>6, <1>7, <1>8 DEF Inv

\* The innermost call returns.
LEMMA ReturnInv ==
  ASSUME Inv, Return
  PROVE  Inv'
<1>1. /\ Len(stack) \in Nat \ {0}
      /\ stack' \in Seq(Node) /\ Len(stack') = Len(stack) - 1
      /\ \A i \in 1 .. Len(stack) - 1 : stack'[i] = stack[i]
  BY FrontFacts DEF Inv, TypeOK, Return
<1>2. UNCHANGED <<callees, table, todo, visited, reachable>> /\ todo[Top] = {}
  BY DEF Return
<1>3. TypeOK'
  BY <1>1, <1>2 DEF Inv, TypeOK
<1>4. StackIsPath'
  <2>1. \A i \in 1 .. Len(stack') : i \in 1 .. Len(stack) /\ stack'[i] = stack[i]
    BY <1>1
  <2>2. stack' # <<>> => stack'[1] = root
    BY <1>1 DEF Inv, StackIsPath
  <2>3. ASSUME NEW i \in 1 .. Len(stack') - 1
        PROVE  stack'[i + 1] \in callees'[stack'[i]]
    BY <1>1, <1>2 DEF Inv, StackIsPath
  <2>4. QED
    BY <2>1, <2>2, <2>3 DEF Inv, StackIsPath
<1>5. SearchInv'
  <2>1. ASSUME NEW n \in Node, todo'[n] # {}
        PROVE  \E i \in 1 .. Len(stack') : stack'[i] = n
    <3>1. PICK i \in 1 .. Len(stack) : stack[i] = n
      BY <1>2, <2>1 DEF Inv, SearchInv
    <3>2. i # Len(stack)
      BY <1>2, <2>1, <3>1 DEF Top
    <3>3. QED
      BY <1>1, <3>1, <3>2
  <2>2. \A i \in 1 .. Len(stack') : stack'[i] \in visited'
    BY <1>1, <1>2 DEF Inv, SearchInv
  <2>3. QED
    BY <1>2, <2>1, <2>2 DEF Inv, SearchInv
<1>6. QED
  BY <1>3, <1>4, <1>5 DEF Inv

LEMMA NextInv == Inv /\ [Next]_vars => Inv'
<1> SUFFICES ASSUME Inv, [Next]_vars PROVE Inv'
  OBVIOUS
<1>1. CASE Explore
  <2>1. PICK m \in todo[Top] : IF m \in visited THEN Skip(m) ELSE Descend(m)
    BY <1>1 DEF Explore
  <2>2. QED
    BY <1>1, <2>1, SkipInv, DescendInv DEF Explore
<1>2. CASE Return
  BY <1>2, ReturnInv
<1>3. CASE UNCHANGED vars
  BY <1>3 DEF Inv, TypeOK, StackIsPath, SearchInv, vars
<1>4. QED
  BY <1>1, <1>2, <1>3 DEF Next, Terminated

-----------------------------------------------------------------------------
\* The search keeps its types: an iterator only ever holds callees of its node, and
\* the priv-functions collected are those among the visited nodes.
THEOREM TypeCorrect == Spec => []TypeOK
<1>1. Inv => TypeOK
  BY DEF Inv
<1>2. QED
  BY <1>1, InitInv, NextInv, PTL DEF Spec

\* The recursion of DFS never enters a node twice and is never deeper than the graph
\* has nodes.
THEOREM RecursionIsPath == Spec => []StackIsPath
<1>1. Inv => StackIsPath
  BY DEF Inv
<1>2. QED
  BY <1>1, InitInv, NextInv, PTL DEF Spec

\* PrivCallGraph::DFS and CompressCG::DFS return exactly what is reachable, for every
\* graph, every table and every iteration order.
THEOREM SearchCorrect == Spec => []CollectsReachable
<1>1. ASSUME Inv PROVE CollectsReachable
  <2> SUFFICES ASSUME stack = <<>>
               PROVE  /\ visited = Reach(callees, root)
                      /\ reachable = Reach(callees, root) \cap table
    BY DEF CollectsReachable
  <2>1. \A n \in Node : todo[n] = {}
    BY <1>1 DEF Inv, SearchInv
  <2>2. \A n \in visited : callees[n] \subseteq visited
    BY <1>1, <2>1 DEF Inv, TypeOK, SearchInv
  <2>3. Reach(callees, root) \subseteq visited
    BY <1>1, <2>2, ReachLeast DEF Inv, TypeOK, SearchInv
  <2>4. QED
    BY <1>1, <2>3 DEF Inv, TypeOK, SearchInv
<1>2. QED
  BY <1>1, InitInv, NextInv, PTL DEF Spec

\* The recursion of DFS is never deeper than the graph has nodes.
THEOREM RecursionBounded == Spec => [](IsFiniteSet(Node) => Len(stack) <= Cardinality(Node))
<1>1. ASSUME Inv, IsFiniteSet(Node) PROVE Len(stack) <= Cardinality(Node)
  <2>1. Len(stack) \in Nat /\ \A i \in 1 .. Len(stack) : stack[i] \in Node
    BY <1>1 DEF Inv, TypeOK
  <2>2. \A i, j \in 1 .. Len(stack) : stack[i] = stack[j] => i = j
    BY <1>1 DEF Inv, StackIsPath
  <2>3. /\ IsFiniteSet(1 .. Len(stack))
        /\ Cardinality(1 .. Len(stack)) = Len(stack)
    BY <2>1, FS_Interval
  <2>4. Cardinality(Node) \in Nat
    BY <1>1, FS_CardinalityType
  <2>5. SUFFICES ASSUME Cardinality(Node) < Len(stack) PROVE FALSE
    BY <2>1, <2>4
  <2> DEFINE call == [i \in 1 .. Len(stack) |-> stack[i]]
  <2>6. call \in [1 .. Len(stack) -> Node]
    BY <2>1
  <2> HIDE DEF call
  <2>7. \E i, j \in 1 .. Len(stack) : i # j /\ call[i] = call[j]
    BY <1>1, <2>3, <2>5, <2>6, FS_PigeonHole
  <2>8. QED
    BY <2>2, <2>7 DEF call
<1>2. Inv => (IsFiniteSet(Node) => Len(stack) <= Cardinality(Node))
  BY <1>1
<1>3. QED
  BY <1>2, InitInv, NextInv, PTL DEF Spec

\* Every round of the search enters a new node or leaves a callee or a call behind for
\* good, on every graph: what is left of the search lies below one bound and shrinks.
THEOREM SearchMovesOn == Spec => MovesOn
<1> DEFINE Moves == Grows(visited, visited') \/ (visited' = visited /\ FewerLeft)
<1>1. ASSUME Inv, stack # <<>>, NEW m \in todo[Top], m \in visited, Skip(m) PROVE Moves
  <2>1. Len(stack) \in Nat \ {0} /\ Top \in Node
    BY <1>1, FrontFacts DEF Inv, TypeOK, Top
  <2>2. \A n \in Node : todo'[n] = IF n = Top THEN todo[n] \ {m} ELSE todo[n]
    BY <1>1, <2>1 DEF Inv, TypeOK, Skip
  <2>3. todo' # todo
    BY <1>1, <2>1, <2>2
  <2>4. stack' = stack /\ visited' = visited
    BY <1>1 DEF Skip
  <2>5. \A n \in Node : todo'[n] \subseteq todo[n]
    BY <2>2
  <2>6. Len(stack') <= Len(stack)
    BY <2>1, <2>4
  <2>7. FewerLeft
    BY <2>3, <2>5, <2>6 DEF FewerLeft
  <2>8. QED
    BY <2>4, <2>7
<1>2. ASSUME NEW m \in todo[Top], m \notin visited, Descend(m) PROVE Moves
  BY <1>2 DEF Descend, Grows
<1>3. ASSUME Inv, Return PROVE Moves
  <2>1. Len(stack) \in Nat \ {0} /\ Len(stack') = Len(stack) - 1
    BY <1>3, FrontFacts DEF Inv, TypeOK, Return
  <2>2. todo' = todo /\ visited' = visited
    BY <1>3 DEF Return
  <2>3. QED
    BY <2>1, <2>2 DEF FewerLeft
<1> HIDE DEF Moves
<1>4. Inv /\ [Next]_vars => [Moves]_vars
  <2> SUFFICES ASSUME Inv, Next PROVE Moves \/ UNCHANGED vars
    OBVIOUS
  <2>1. CASE Explore
    BY <1>1, <1>2, <2>1 DEF Explore
  <2>2. CASE Return
    BY <1>3, <2>2
  <2>3. QED
    BY <2>1, <2>2 DEF Next, Terminated
<1>5. QED
  BY <1>4, InitInv, NextInv, PTL DEF Spec, MovesOn, Moves
=============================================================================
