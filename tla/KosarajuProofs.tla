--------------------------- MODULE KosarajuProofs ----------------------------
(***************************************************************************)
(* computeSCCs records exactly the strongly connected components that hold *)
(* a cycle, on every graph and in every order of the hash sets.            *)
(*                                                                         *)
(* While the forward search runs, a node it has returned from is in one    *)
(* component with an active call, or everything it reaches was returned    *)
(* from too (ForwardInv).  So the list has, behind every two nodes of      *)
(* which the first leads to the second but not back, another node of the   *)
(* component of the first (OrderInv).  The node at the back of the list is *)
(* then led to by no component that is not processed, except its own, and  *)
(* the backward search can take nothing else (BackInv).                    *)
(***************************************************************************)
EXTENDS Kosaraju, ReachabilityTheorems, SequenceTheorems, FiniteSetTheorems

\* The nodes processed by the searches that have ended.
Settled == IF pc \in {"backward", "record"} THEN processed \ visited ELSE processed

\* The nodes whose component is behind all of the list, or will be.
Pending == IF pc = "forward" THEN Active ELSE processed

Elems(s)    == {s[i] : i \in 1 .. Len(s)}
Distinct(s) == \A i, j \in 1 .. Len(s) : s[i] = s[j] => i = j

\* The recursion: only active calls have nodes to come to.
StackInv ==
  /\ Reach(succ, root) = Node
  /\ stack # <<>> <=> pc \in {"forward", "backward"}
  /\ Active \subseteq visited
  /\ Distinct(stack)
  /\ \A n \in Node : todo[n] # {} => n \in Active
  /\ IsFiniteSet(visited)

ForwardInv ==
  pc = "forward" =>
    /\ root \in visited /\ processed = {}
    /\ visited = Listed \cup Active /\ Listed \cap Active = {}
    /\ \A n \in Node : todo[n] \subseteq succ[n]
    /\ \A n \in visited : succ[n] \ todo[n] \subseteq visited
    /\ \A i, j \in 1 .. Len(stack) : i <= j => stack[j] \in Reach(succ, stack[i])
    /\ \A u \in Listed : \/ Reach(succ, u) \subseteq Listed
                         \/ \E a \in Active : a \in SCCOf(succ, u)

OrderInv ==
  /\ pc # "forward" => Node = Listed \cup processed
  /\ \A i, j \in 1 .. Len(order) :
       i < j /\ order[j] \in Reach(succ, order[i]) =>
         \/ order[i] \in Reach(succ, order[j])
         \/ \E k \in 1 .. Len(order) : k > j /\ order[k] \in SCCOf(succ, order[i])
         \/ \E a \in Pending : a \in SCCOf(succ, order[i])

\* What has been settled are whole components, with all that leads to them.
SettledInv ==
  /\ \A n \in Settled : SCCOf(succ, n) \cup pred[n] \subseteq Settled
  /\ sccs = {SCCOf(succ, n) : n \in {m \in Settled : OnCycle(succ, m)}}

BackInv ==
  pc \in {"backward", "record"} =>
    /\ visited # {} /\ visited \subseteq processed
    /\ \A n \in Node : todo[n] \subseteq pred[n]
    /\ \A n \in visited : pred[n] \ todo[n] \subseteq processed
    /\ \A x, y \in visited : y \in Reach(succ, x)
    /\ \A x \in visited : \A u \in Node \ Settled :
         x \in Reach(succ, u) => u \in Reach(succ, x)

Inv == TypeOK /\ StackInv /\ ForwardInv /\ OrderInv /\ SettledInv /\ BackInv

-----------------------------------------------------------------------------
\* Sequences that are used as stacks

LEMMA AppendFacts ==
  ASSUME NEW A, NEW s \in Seq(A), Distinct(s), NEW m \in A, m \notin Elems(s)
  PROVE  /\ Append(s, m) \in Seq(A) /\ Append(s, m) # <<>>
         /\ Len(s) \in Nat /\ Len(Append(s, m)) = Len(s) + 1
         /\ Append(s, m)[Len(s) + 1] = m
         /\ \A i \in 1 .. Len(s) : Append(s, m)[i] = s[i]
         /\ Elems(Append(s, m)) = Elems(s) \cup {m}
         /\ Distinct(Append(s, m))
<1> DEFINE t == Append(s, m)
<1>1. /\ t \in Seq(A) /\ Len(s) \in Nat /\ Len(t) = Len(s) + 1
      /\ t[Len(s) + 1] = m
      /\ \A i \in 1 .. Len(s) : t[i] = s[i]
  OBVIOUS
<1>2. t # <<>>
  BY <1>1
<1> HIDE DEF t
<1>3. \A i : i \in 1 .. Len(t) <=> i \in 1 .. Len(s) \/ i = Len(s) + 1
  BY <1>1
<1>4. Elems(t) = Elems(s) \cup {m}
  BY <1>1, <1>3 DEF Elems
<1>5. Distinct(t)
  BY <1>1, <1>3 DEF Distinct, Elems
<1>6. QED
  BY <1>1, <1>2, <1>4, <1>5 DEF t

\* All but the last element.
Front(s) == SubSeq(s, 1, Len(s) - 1)

LEMMA FrontFacts ==
  ASSUME NEW A, NEW s \in Seq(A), Distinct(s), s # <<>>
  PROVE  /\ Len(s) \in Nat \ {0} /\ s[Len(s)] \in A /\ s[Len(s)] \in Elems(s)
         /\ Front(s) \in Seq(A) /\ Len(Front(s)) = Len(s) - 1
         /\ Len(s) = 1 <=> Front(s) = <<>>
         /\ \A i \in 1 .. Len(s) - 1 : Front(s)[i] = s[i]
         /\ Elems(Front(s)) = Elems(s) \ {s[Len(s)]}
         /\ Distinct(Front(s))
<1> DEFINE front == Front(s)
<1>1. Len(s) \in Nat \ {0} /\ \A i \in 1 .. Len(s) : s[i] \in A
  OBVIOUS
<1> DEFINE n == Len(s) - 1
<1>2. n \in Int /\ 1 \in Int /\ \A i \in 1 .. n : s[i] \in A
  BY <1>1
<1> HIDE DEF n
<1>3. /\ SubSeq(s, 1, n) \in Seq(A)
      /\ Len(SubSeq(s, 1, n)) = IF 1 <= n THEN n - 1 + 1 ELSE 0
      /\ \A i \in 1 .. n - 1 + 1 : SubSeq(s, 1, n)[i] = s[1 + i - 1]
  BY <1>2, SubSeqProperties
<1>4. n \in Nat /\ front = SubSeq(s, 1, n)
  BY <1>1 DEF n, Front
<1> HIDE DEF front
<1>5. front \in Seq(A) /\ Len(front) = n
  BY <1>3, <1>4
<1>6. ASSUME NEW i \in 1 .. n PROVE front[i] = s[i]
  <2>1. i \in 1 .. n - 1 + 1 /\ 1 + i - 1 = i
    BY <1>4
  <2>2. SubSeq(s, 1, n)[i] = s[1 + i - 1]
    BY <1>3, <2>1
  <2>3. QED
    BY <1>4, <2>1, <2>2, Zenon
<1>7. \A i : i \in 1 .. Len(s) <=> i \in 1 .. n \/ i = Len(s)
  BY <1>1 DEF n
<1>8. Elems(front) = Elems(s) \ {s[Len(s)]}
  <2>1. \A i \in 1 .. n : s[i] # s[Len(s)]
    BY <1>1, <1>7 DEF Distinct, n
  <2>2. QED
    BY <1>5, <1>6, <1>7, <2>1 DEF Elems
<1>9. Distinct(front)
  BY <1>5, <1>6, <1>7 DEF Distinct
<1>10. Len(s) = 1 <=> front = <<>>
  <2>1. front = <<>> => Len(front) = 0
    OBVIOUS
  <2>2. front # <<>> => Len(front) # 0
    BY <1>5, EmptySeq
  <2>3. QED
    BY <1>1, <1>5, <2>1, <2>2 DEF n
<1>11. s[Len(s)] \in A /\ s[Len(s)] \in Elems(s)
  BY <1>1 DEF Elems
<1>12. QED
  BY <1>1, <1>5, <1>6, <1>8, <1>9, <1>10, <1>11 DEF n, front

-----------------------------------------------------------------------------
\* Components

LEMMA SCCFacts ==
  ASSUME NEW D, NEW G \in [D -> SUBSET D], NEW n \in D
  PROVE  /\ n \in SCCOf(G, n)
         /\ SCCOf(G, n) \subseteq D
         /\ \A m \in SCCOf(G, n) : /\ n \in SCCOf(G, m)
                                   /\ Reach(G, m) = Reach(G, n)
                                   /\ SCCOf(G, m) = SCCOf(G, n)
<1>1. n \in Reach(G, n) /\ Reach(G, n) \subseteq D
  BY ReachFacts
<1>2. ASSUME NEW m \in SCCOf(G, n)
      PROVE  n \in SCCOf(G, m) /\ Reach(G, m) = Reach(G, n) /\ SCCOf(G, m) = SCCOf(G, n)
  <2>1. m \in D /\ m \in Reach(G, n) /\ n \in Reach(G, m)
    BY <1>1 DEF SCCOf
  <2>2. Reach(G, m) = Reach(G, n)
    BY <2>1, ReachFacts
  <2>3. \A x \in D : n \in Reach(G, x) <=> m \in Reach(G, x)
    BY <2>1, ReachFacts
  <2>4. SCCOf(G, m) = SCCOf(G, n)
    BY <1>1, <2>2, <2>3 DEF SCCOf
  <2>5. QED
    BY <2>1, <2>2, <2>4 DEF SCCOf
<1>3. QED
  BY <1>1, <1>2 DEF SCCOf

LEMMA SameReach ==
  ASSUME NEW D, NEW G \in [D -> SUBSET D], NEW n \in D,
         NEW m \in Reach(G, n), n \in Reach(G, m)
  PROVE  Reach(G, m) = Reach(G, n)
<1>1. m \in D
  BY ReachFacts
<1>2. m \in SCCOf(G, n)
  BY <1>1 DEF SCCOf
<1>3. QED
  BY <1>2, SCCFacts

\* A set that holds with each node what leads to it holds all from where it is reached.
LEMMA ReachBack ==
  ASSUME NEW D, NEW G \in [D -> SUBSET D], NEW X \in SUBSET D,
         \A n \in X : Reversed(G)[n] \subseteq X,
         NEW x \in X, NEW y \in D, x \in Reach(G, y)
  PROVE  y \in X
<1>1. SUFFICES ASSUME y \notin X PROVE FALSE
  OBVIOUS
<1>2. \A n \in D \ X : G[n] \subseteq D \ X
  BY DEF Reversed
<1>3. Reach(G, y) \subseteq D \ X
  BY <1>1, <1>2, ReachLeast
<1>4. QED
  BY <1>3

LEMMA CycleFacts ==
  ASSUME NEW D, NEW G \in [D -> SUBSET D], NEW n \in D
  PROVE  OnCycle(G, n) <=> n \in G[n] \/ SCCOf(G, n) # {n}
<1>1. G[n] \subseteq Reach(G, n) /\ G[n] \subseteq D /\ n \in SCCOf(G, n)
  BY ReachFacts, SCCFacts
<1>2. ASSUME NEW m \in G[n], n \in Reach(G, m) PROVE m \in SCCOf(G, n)
  BY <1>1, <1>2 DEF SCCOf
<1>3. ASSUME n \in G[n] PROVE OnCycle(G, n)
  BY <1>3, ReachFacts DEF OnCycle
<1>4. ASSUME NEW m \in SCCOf(G, n), m # n PROVE OnCycle(G, n)
  <2>1. m \in Reach(G, n) /\ n \in Reach(G, m)
    BY DEF SCCOf
  <2>2. PICK k \in G[n] : m \in Reach(G, k)
    BY <1>4, <2>1, ReachFirst
  <2>3. n \in Reach(G, k)
    BY <1>1, <2>1, <2>2, ReachFacts
  <2>4. QED
    BY <2>3 DEF OnCycle
<1>5. QED
  BY <1>1, <1>2, <1>3, <1>4 DEF OnCycle

-----------------------------------------------------------------------------
\* The stack

LEMMA TopFacts ==
  ASSUME TypeOK, StackInv, pc \in {"forward", "backward"}
  PROVE  /\ stack # <<>> /\ Len(stack) \in Nat \ {0}
         /\ Top \in Node /\ Top \in Active /\ Top \in visited
<1>1. stack # <<>>
  BY DEF StackInv
<1>2. Len(stack) \in Nat \ {0} /\ stack[Len(stack)] \in Node /\ stack[Len(stack)] \in Elems(stack)
  BY <1>1, FrontFacts DEF TypeOK, StackInv
<1>3. QED
  BY <1>1, <1>2 DEF Top, Active, Elems, StackInv

\* A loop round that does not enter the node it comes to.
LEMMA PassFacts ==
  ASSUME TypeOK, StackInv, pc \in {"forward", "backward"},
         NEW seen, NEW edges, NEW m \in todo[Top], m \in seen, Visit(m, seen, edges),
         UNCHANGED <<succ, pc>>
  PROVE  /\ UNCHANGED <<stack, visited>>
         /\ todo' \in [Node -> SUBSET Node]
         /\ \A n \in Node : todo'[n] = IF n = Top THEN todo[n] \ {m} ELSE todo[n]
         /\ StackInv'
<1>1. UNCHANGED <<stack, visited>> /\ todo' = [todo EXCEPT ![Top] = @ \ {m}]
  BY DEF Visit
<1>2. todo' \in [Node -> SUBSET Node]
  BY <1>1 DEF TypeOK
<1>3. \A n \in Node : todo'[n] = IF n = Top THEN todo[n] \ {m} ELSE todo[n]
  BY <1>1 DEF TypeOK
<1>4. StackInv'
  <2>1. \A n \in Node : todo'[n] # {} => todo[n] # {}
    BY <1>3
  <2>2. QED
    BY <1>1, <2>1 DEF StackInv, Active
<1>5. QED
  BY <1>1, <1>2, <1>3, <1>4

\* A loop round that enters m.
LEMMA EnterFacts ==
  ASSUME TypeOK, StackInv, pc \in {"forward", "backward"},
         NEW m \in todo[Top], m \notin visited, NEW below \in SUBSET Node,
         todo' = [todo EXCEPT ![Top] = @ \ {m}, ![m] = below],
         stack' = Append(stack, m), visited' = visited \cup {m},
         UNCHANGED <<succ, pc>>
  PROVE  /\ m \in Node /\ m # Top
         /\ visited' = visited \cup {m}
         /\ stack' \in Seq(Node) /\ Len(stack') = Len(stack) + 1
         /\ stack'[Len(stack) + 1] = m
         /\ \A i \in 1 .. Len(stack) : stack'[i] = stack[i]
         /\ Active' = Active \cup {m}
         /\ todo' \in [Node -> SUBSET Node]
         /\ \A n \in Node : todo'[n] = IF n = Top THEN todo[n] \ {m}
                                       ELSE IF n = m THEN below ELSE todo[n]
         /\ StackInv'
<1>1. Top \in Node /\ Top \in visited
  BY TopFacts
<1>2. m \in Node /\ m # Top
  BY <1>1 DEF TypeOK
<1>3. m \notin Elems(stack)
  BY <1>2 DEF StackInv, Active, Elems
<1>4. /\ stack' \in Seq(Node) /\ stack' # <<>> /\ Len(stack') = Len(stack) + 1
      /\ stack'[Len(stack) + 1] = m
      /\ \A i \in 1 .. Len(stack) : stack'[i] = stack[i]
      /\ Elems(stack') = Elems(stack) \cup {m}
      /\ Distinct(stack')
  BY <1>2, <1>3, AppendFacts DEF TypeOK, StackInv
<1>5. Active' = Active \cup {m}
  BY <1>4 DEF Active, Elems
<1>6. todo' \in [Node -> SUBSET Node]
  BY <1>1, <1>2 DEF TypeOK
<1>7. \A n \in Node : todo'[n] = IF n = Top THEN todo[n] \ {m}
                                 ELSE IF n = m THEN below ELSE todo[n]
  BY <1>1, <1>2 DEF TypeOK
<1>8. StackInv'
  <2>1. \A n \in Node : todo'[n] # {} => n \in Active'
    BY <1>5, <1>7 DEF StackInv
  <2>2. IsFiniteSet(visited')
    BY FS_AddElement DEF StackInv
  <2>3. Active' \subseteq visited'
    BY <1>5 DEF StackInv
  <2>4. QED
    BY <1>4, <2>1, <2>2, <2>3 DEF StackInv
<1>9. QED
  BY <1>2, <1>4, <1>5, <1>6, <1>7, <1>8

\* A call that returns.
LEMMA LeaveFacts ==
  ASSUME TypeOK, StackInv, pc \in {"forward", "backward"}, todo[Top] = {}, Pop,
         UNCHANGED <<succ, todo, visited>>,
         NEW next, next \notin {"forward", "backward"},
         pc' = IF Len(stack) = 1 THEN next ELSE pc
  PROVE  /\ stack' \in Seq(Node) /\ Len(stack') = Len(stack) - 1
         /\ \A i \in 1 .. Len(stack') : i \in 1 .. Len(stack) /\ stack'[i] = stack[i]
         /\ Active' = Active \ {Top}
         /\ stack' = <<>> => Active' = {}
         /\ StackInv'
<1>1. stack # <<>> /\ stack' = Front(stack)
  BY TopFacts DEF Pop, Front
<1>2. /\ Len(stack) \in Nat \ {0}
      /\ stack' \in Seq(Node) /\ Len(stack') = Len(stack) - 1
      /\ Len(stack) = 1 <=> stack' = <<>>
      /\ \A i \in 1 .. Len(stack) - 1 : stack'[i] = stack[i]
      /\ Elems(stack') = Elems(stack) \ {stack[Len(stack)]}
      /\ Distinct(stack')
  BY <1>1, FrontFacts DEF TypeOK, StackInv
<1>3. Active' = Active \ {Top}
  BY <1>2 DEF Active, Elems, Top
<1>4. \A i \in 1 .. Len(stack') : i \in 1 .. Len(stack) /\ stack'[i] = stack[i]
  BY <1>2
<1>5. stack' = <<>> => Active' = {}
  <2>1. stack' = <<>> => Len(stack') = 0
    OBVIOUS
  <2>2. QED
    BY <2>1 DEF Active
<1>6. StackInv'
  <2>1. \A n \in Node : todo'[n] # {} => n \in Active'
    BY <1>3 DEF StackInv
  <2>2. stack' # <<>> <=> pc' \in {"forward", "backward"}
    BY <1>2
  <2>3. QED
    BY <1>2, <1>3, <2>1, <2>2 DEF StackInv
<1>7. QED
  BY <1>2, <1>3, <1>4, <1>5, <1>6

\* A component keeps its witnesses as long as none of them is taken away.
LEMMA OrderKept ==
  ASSUME OrderInv, UNCHANGED <<succ, order>>, Pending \subseteq Pending',
         pc' # "forward" => Node = Listed \cup processed'
  PROVE  OrderInv'
<1>1. Listed' = Listed
  BY DEF Listed
<1>2. ASSUME NEW i \in 1 .. Len(order), NEW j \in 1 .. Len(order),
             i < j, order[j] \in Reach(succ, order[i])
      PROVE  \/ order[i] \in Reach(succ, order[j])
             \/ \E k \in 1 .. Len(order) : k > j /\ order[k] \in SCCOf(succ, order[i])
             \/ \E a \in Pending' : a \in SCCOf(succ, order[i])
  BY <1>2 DEF OrderInv
<1>3. QED
  BY <1>1, <1>2 DEF OrderInv

LEMMA SettledKept ==
  ASSUME SettledInv, UNCHANGED <<succ, sccs>>, Settled' = Settled
  PROVE  SettledInv'
BY DEF SettledInv, pred

-----------------------------------------------------------------------------
\* The forward search

LEMMA InitInv == Init => Inv
<1> SUFFICES ASSUME Init PROVE Inv
  OBVIOUS
<1> USE RootAssumption
<1>1. stack \in Seq(Node) /\ Len(stack) = 1 /\ stack[1] = root /\ stack # <<>>
  BY DEF Init
<1>2. order \in Seq(Node) /\ Len(order) = 0
  BY DEF Init
<1>3. Active = {root} /\ Listed = {}
  BY <1>1, <1>2 DEF Active, Listed
<1>4. TypeOK
  BY <1>1, <1>2 DEF Init, TypeOK
<1>5. StackInv
  <2>1. Reach(succ, root) = Node /\ pc = "forward" /\ visited = {root}
    BY DEF Init
  <2>2. IsFiniteSet(visited)
    BY <2>1, FS_Singleton
  <2>3. Distinct(stack)
    BY <1>1 DEF Distinct
  <2>4. \A n \in Node : todo[n] # {} => n \in Active
    BY <1>3 DEF Init
  <2>5. QED
    BY <1>1, <1>3, <2>1, <2>2, <2>3, <2>4 DEF StackInv
<1>6. ForwardInv
  <2>1. root \in Reach(succ, root)
    BY ReachFacts DEF Init
  <2>2. QED
    BY <1>1, <1>3, <2>1 DEF Init, ForwardInv
<1>7. OrderInv
  BY <1>2 DEF Init, OrderInv
<1>8. SettledInv /\ BackInv
  BY DEF Init, SettledInv, Settled, BackInv
<1>9. QED
  BY <1>4, <1>5, <1>6, <1>7, <1>8 DEF Inv

LEMMA ForwardExploreInv ==
  ASSUME Inv, ForwardExplore
  PROVE  Inv'
<1>1. PICK m \in todo[Top] : Visit(m, visited, succ)
  BY DEF ForwardExplore
<1>2. pc = "forward" /\ UNCHANGED <<succ, order, processed, sccs, pc>>
  BY DEF ForwardExplore
<1>3. TypeOK /\ StackInv /\ ForwardInv
  BY DEF Inv
<1>4. Top \in Node /\ Top \in visited /\ Len(stack) \in Nat \ {0}
  BY <1>2, <1>3, TopFacts
<1>5. m \in succ[Top] /\ m \in Node
  BY <1>2, <1>3, <1>4 DEF ForwardInv, TypeOK
<1>6. Listed' = Listed
  BY <1>2 DEF Listed
<1>7. CASE m \in visited
  <2>1. /\ UNCHANGED <<stack, visited>>
        /\ todo' \in [Node -> SUBSET Node]
        /\ \A n \in Node : todo'[n] = IF n = Top THEN todo[n] \ {m} ELSE todo[n]
        /\ StackInv'
    BY <1>1, <1>2, <1>3, <1>7, PassFacts
  <2>2. TypeOK'
    BY <1>2, <1>3, <2>1 DEF TypeOK
  <2>3. Active' = Active
    BY <2>1 DEF Active
  <2>4. ForwardInv'
    <3>1. \A n \in Node : todo'[n] \subseteq succ[n]
      BY <1>2, <1>3, <2>1 DEF ForwardInv
    <3>2. \A n \in visited : succ[n] \ todo'[n] \subseteq visited
      BY <1>2, <1>3, <1>7, <2>1 DEF ForwardInv, TypeOK
    <3>3. QED
      BY <1>2, <1>3, <1>6, <2>1, <2>3, <3>1, <3>2 DEF ForwardInv
  <2>5. Pending' = Pending
    BY <1>2, <2>3 DEF Pending
  <2>6. QED
    <3>1. OrderInv'
      BY <1>2, <2>5, OrderKept DEF Inv
    <3>2. SettledInv' /\ BackInv'
      BY <1>2, SettledKept DEF Inv, Settled, BackInv
    <3>3. QED
      BY <2>1, <2>2, <2>4, <3>1, <3>2 DEF Inv
<1>8. CASE m \notin visited
  <2>1. /\ m # Top
        /\ visited' = visited \cup {m}
        /\ stack' \in Seq(Node) /\ Len(stack') = Len(stack) + 1
        /\ stack'[Len(stack) + 1] = m
        /\ \A i \in 1 .. Len(stack) : stack'[i] = stack[i]
        /\ Active' = Active \cup {m}
        /\ todo' \in [Node -> SUBSET Node]
        /\ \A n \in Node : todo'[n] = IF n = Top THEN todo[n] \ {m}
                                      ELSE IF n = m THEN succ[m] ELSE todo[n]
        /\ StackInv'
    <3>1. succ[m] \in SUBSET Node
      BY <1>3, <1>5 DEF TypeOK
    <3>2. /\ todo' = [todo EXCEPT ![Top] = @ \ {m}, ![m] = succ[m]]
          /\ stack' = Append(stack, m) /\ visited' = visited \cup {m}
      BY <1>1, <1>8 DEF Visit
    <3>3. QED
      BY <1>2, <1>3, <1>8, <3>1, <3>2, EnterFacts
  <2>2. TypeOK'
    BY <1>2, <1>3, <1>5, <2>1 DEF TypeOK
  <2>3. ForwardInv'
    <3>1. \A n \in Node : todo'[n] \subseteq succ[n]
      BY <1>2, <1>3, <2>1 DEF ForwardInv
    <3>2. \A n \in visited' : succ[n] \ todo'[n] \subseteq visited'
      BY <1>2, <1>3, <1>5, <2>1 DEF ForwardInv, TypeOK
    <3>3. ASSUME NEW i \in 1 .. Len(stack'), NEW j \in 1 .. Len(stack'), i <= j
          PROVE  stack'[j] \in Reach(succ, stack'[i])
      <4>1. CASE j \in 1 .. Len(stack)
        BY <1>2, <1>3, <1>4, <2>1, <3>3, <4>1 DEF ForwardInv
      <4>2. CASE j = Len(stack) + 1 /\ i \in 1 .. Len(stack)
        <5>1. stack[i] \in Node /\ Top \in Reach(succ, stack[i])
          BY <1>2, <1>3, <1>4, <4>2 DEF ForwardInv, TypeOK, Top
        <5>2. m \in Reach(succ, stack[i])
          BY <1>3, <1>5, <5>1, ReachFacts DEF TypeOK
        <5>3. QED
          BY <2>1, <4>2, <5>2
      <4>3. CASE j = Len(stack) + 1 /\ i = Len(stack) + 1
        <5>1. m \in Reach(succ, m)
          BY <1>3, <1>5, ReachFacts DEF TypeOK
        <5>2. QED
          BY <2>1, <4>3, <5>1
      <4>4. QED
        BY <1>4, <2>1, <4>1, <4>2, <4>3
    <3>4. \A u \in Listed : \/ Reach(succ, u) \subseteq Listed
                            \/ \E a \in Active' : a \in SCCOf(succ, u)
      BY <1>2, <1>3, <2>1 DEF ForwardInv
    <3>5. visited' = Listed \cup Active' /\ Listed \cap Active' = {} /\ root \in visited'
      BY <1>2, <1>3, <1>8, <2>1 DEF ForwardInv
    <3>6. processed' = {} /\ succ' = succ
      BY <1>2, <1>3 DEF ForwardInv
    <3>7. QED
      BY <1>6, <3>1, <3>2, <3>3, <3>4, <3>5, <3>6 DEF ForwardInv
  <2>4. Pending \subseteq Pending'
    BY <1>2, <2>1 DEF Pending
  <2>5. OrderInv'
    BY <1>2, <2>4, OrderKept DEF Inv
  <2>6. SettledInv' /\ BackInv'
    BY <1>2, SettledKept DEF Inv, Settled, BackInv
  <2>7. QED
    BY <2>1, <2>2, <2>3, <2>5, <2>6 DEF Inv
<1>9. QED
  BY <1>7, <1>8

LEMMA ForwardReturnInv ==
  ASSUME Inv, ForwardReturn
  PROVE  Inv'
<1> DEFINE t == Top
<1>1. /\ pc = "forward" /\ todo[t] = {} /\ Pop
      /\ order' = Append(order, t)
      /\ pc' = IF Len(stack) = 1 THEN "select" ELSE pc
      /\ UNCHANGED <<succ, todo, visited, processed, sccs>>
  BY DEF ForwardReturn
<1>2. TypeOK /\ StackInv /\ ForwardInv /\ OrderInv
  BY DEF Inv
<1>3. t \in Node /\ t \in Active /\ Len(stack) \in Nat \ {0}
  BY <1>1, <1>2, TopFacts
<1>4. /\ stack' \in Seq(Node) /\ Len(stack') = Len(stack) - 1
      /\ \A i \in 1 .. Len(stack') : i \in 1 .. Len(stack) /\ stack'[i] = stack[i]
      /\ Active' = Active \ {t}
      /\ stack' = <<>> => Active' = {}
      /\ StackInv'
  <2>1. "select" \notin {"forward", "backward"}
    OBVIOUS
  <2>2. pc \in {"forward", "backward"}
    BY <1>1
  <2>3. QED
    BY <1>1, <1>2, <2>1, <2>2, LeaveFacts
<1>5. /\ order' \in Seq(Node) /\ Len(order) \in Nat /\ Len(order') = Len(order) + 1
      /\ order'[Len(order) + 1] = t
      /\ \A i \in 1 .. Len(order) : order'[i] = order[i]
      /\ Listed' = Listed \cup {t}
      /\ Distinct(order')
  <2>1. Distinct(order) /\ t \notin Elems(order)
    BY <1>1, <1>2, <1>3 DEF TypeOK, Distinct, ForwardInv, Elems, Listed
  <2>2. QED
    BY <1>1, <1>2, <1>3, <2>1, AppendFacts DEF TypeOK, Listed, Elems
<1>6. /\ succ \in [Node -> SUBSET Node] /\ processed = {}
      /\ visited = Listed \cup Active /\ visited \subseteq Node
      /\ \A n \in visited : succ[n] \ todo[n] \subseteq visited
  BY <1>1, <1>2 DEF TypeOK, ForwardInv
<1>7. \A n \in Listed' : succ[n] \subseteq visited /\ n \in Node
  <2>1. \A n \in Listed' : n \in visited /\ todo[n] = {}
    BY <1>1, <1>2, <1>3, <1>5, <1>6 DEF StackInv, ForwardInv
  <2>2. QED
    BY <1>6, <2>1
<1>8. \A a \in Active : a \in Node /\ t \in Reach(succ, a)
  BY <1>1, <1>2, <1>3 DEF Active, Top, ForwardInv, TypeOK
<1> HIDE DEF t
\* The component of t has another active call, or all below t was returned from.
<1>9. Reach(succ, t) \subseteq Listed' \/ \E a \in Active' : a \in SCCOf(succ, t)
  <2> SUFFICES ASSUME \A a \in Active' : a \notin SCCOf(succ, t)
               PROVE  Reach(succ, t) \subseteq Listed'
    OBVIOUS
  <2> DEFINE X == Reach(succ, t) \cap Listed'
  <2>1. X \in SUBSET Node /\ t \in X
    BY <1>3, <1>5, <1>6, <1>7, ReachFacts
  <2>2. ASSUME NEW x \in X, NEW y \in succ[x] PROVE y \in X
    <3>1. y \in Reach(succ, t) /\ y \in visited
      BY <1>3, <1>6, <1>7, ReachFacts
    <3>2. y \notin Active'
      BY <1>4, <1>8, <3>1 DEF SCCOf
    <3>3. QED
      BY <1>4, <1>5, <1>6, <3>1, <3>2
  <2> HIDE DEF X
  <2>3. Reach(succ, t) \subseteq X
    BY <1>6, <2>1, <2>2, ReachLeast
  <2>4. QED
    BY <2>3 DEF X
<1>10. \A u \in Listed' : \/ Reach(succ, u) \subseteq Listed'
                          \/ \E a \in Active' : a \in SCCOf(succ, u)
  <2>1. ASSUME NEW u \in Listed, NEW a \in Active, a \in SCCOf(succ, u), a = t
        PROVE  \/ Reach(succ, u) \subseteq Listed'
               \/ \E b \in Active' : b \in SCCOf(succ, u)
    <3>1. u \in Node /\ t \in SCCOf(succ, u)
      BY <1>5, <1>7, <2>1
    <3>2. Reach(succ, t) = Reach(succ, u) /\ SCCOf(succ, t) = SCCOf(succ, u)
      BY <1>6, <3>1, SCCFacts
    <3>3. QED
      BY <1>9, <3>2
  <2>2. ASSUME NEW u \in Listed
        PROVE  \/ Reach(succ, u) \subseteq Listed'
               \/ \E a \in Active' : a \in SCCOf(succ, u)
    <3>1. \/ Reach(succ, u) \subseteq Listed
          \/ \E a \in Active : a \in SCCOf(succ, u)
      BY <1>1, <1>2, <2>2 DEF ForwardInv
    <3>2. QED
      BY <1>4, <1>5, <2>1, <3>1
  <2>3. QED
    BY <1>5, <1>9, <2>2
<1>11. TypeOK'
  BY <1>1, <1>2, <1>4, <1>5 DEF TypeOK, Distinct
<1>12. ForwardInv'
  <2> SUFFICES ASSUME pc' = "forward" PROVE ForwardInv'
    BY DEF ForwardInv
  <2>1. visited' = Listed' \cup Active' /\ Listed' \cap Active' = {}
    BY <1>1, <1>2, <1>3, <1>4, <1>5 DEF ForwardInv
  <2>2. \A i, j \in 1 .. Len(stack') : i <= j => stack'[j] \in Reach(succ, stack'[i])
    BY <1>1, <1>2, <1>4 DEF ForwardInv
  <2>3. root \in visited' /\ processed' = {}
    BY <1>1, <1>2 DEF ForwardInv
  <2>4. \A n \in Node : todo'[n] \subseteq succ'[n]
    BY <1>1, <1>2 DEF ForwardInv
  <2>5. \A n \in visited' : succ'[n] \ todo'[n] \subseteq visited'
    BY <1>1, <1>2 DEF ForwardInv
  <2>6. succ' = succ
    BY <1>1
  <2>7. QED
    BY <1>10, <2>1, <2>2, <2>3, <2>4, <2>5, <2>6 DEF ForwardInv
<1>13. pc' # "forward" => Active' = {} /\ Node = Listed'
  <2> SUFFICES ASSUME pc' # "forward" PROVE Active' = {} /\ Node = Listed'
    OBVIOUS
  <2>1. Active' = {}
    <3>1. stack' = <<>>
      BY <1>1, <1>4 DEF StackInv
    <3>2. QED
      BY <1>4, <3>1
  <2>2. visited = Listed'
    BY <1>3, <1>4, <1>5, <1>6, <2>1
  <2>3. \A n \in visited : succ[n] \subseteq visited
    BY <1>7, <2>2
  <2>4. root \in visited
    BY <1>1, <1>2 DEF ForwardInv
  <2>5. Reach(succ, root) \subseteq visited
    BY <1>6, <2>3, <2>4, ReachLeast
  <2>6. QED
    BY <1>2, <1>6, <2>1, <2>2, <2>5 DEF StackInv
<1>14. Pending' = Active' /\ Pending = Active
  BY <1>1, <1>6, <1>13 DEF Pending
<1>15. OrderInv'
  <2>1. ASSUME NEW i \in 1 .. Len(order'), NEW j \in 1 .. Len(order'),
               i < j, order'[j] \in Reach(succ, order'[i])
        PROVE  \/ order'[i] \in Reach(succ, order'[j])
               \/ \E k \in 1 .. Len(order') : k > j /\ order'[k] \in SCCOf(succ, order'[i])
               \/ \E a \in Active' : a \in SCCOf(succ, order'[i])
    <3>1. i \in 1 .. Len(order) /\ order'[i] = order[i]
      BY <1>5, <2>1
    <3>2. CASE j \in 1 .. Len(order)
      <4>1. order'[j] = order[j]
        BY <1>5, <3>2
      <4>2. \/ order[i] \in Reach(succ, order[j])
            \/ \E k \in 1 .. Len(order) : k > j /\ order[k] \in SCCOf(succ, order[i])
            \/ \E a \in Active : a \in SCCOf(succ, order[i])
        BY <1>2, <1>14, <2>1, <3>1, <3>2, <4>1 DEF OrderInv
      <4>3. ASSUME NEW k \in 1 .. Len(order), k > j, order[k] \in SCCOf(succ, order[i])
            PROVE  \E l \in 1 .. Len(order') : l > j /\ order'[l] \in SCCOf(succ, order[i])
        BY <1>5, <4>3
      <4>4. ASSUME t \in SCCOf(succ, order[i])
            PROVE  \E l \in 1 .. Len(order') : l > j /\ order'[l] \in SCCOf(succ, order[i])
        BY <1>5, <3>2, <4>4
      <4>5. QED
        BY <1>4, <3>1, <4>1, <4>2, <4>3, <4>4
    <3>3. CASE j = Len(order) + 1
      <4>1. order'[j] = t /\ order[i] \in Listed
        BY <1>5, <3>1, <3>3 DEF Listed
      <4>2. t \in Reach(succ, order[i]) /\ t \notin Listed
        BY <1>1, <1>2, <1>3, <2>1, <3>1, <4>1 DEF ForwardInv
      <4>3. PICK a \in Active : a \in SCCOf(succ, order[i])
        BY <1>1, <1>2, <4>1, <4>2 DEF ForwardInv
      <4>4. a = t => order[i] \in Reach(succ, t)
        BY <4>3 DEF SCCOf
      <4>5. QED
        BY <1>4, <3>1, <4>1, <4>3, <4>4
    <3>4. QED
      BY <1>5, <3>2, <3>3
  <2>2. pc' # "forward" => Node = Listed' \cup processed'
    BY <1>1, <1>6, <1>13
  <2>3. succ' = succ
    BY <1>1
  <2>4. \A i, j \in 1 .. Len(order') :
          i < j /\ order'[j] \in Reach(succ', order'[i]) =>
            \/ order'[i] \in Reach(succ', order'[j])
            \/ \E k \in 1 .. Len(order') : k > j /\ order'[k] \in SCCOf(succ', order'[i])
            \/ \E a \in Pending' : a \in SCCOf(succ', order'[i])
    BY <1>14, <2>1, <2>3
  <2>5. QED
    BY <2>2, <2>4 DEF OrderInv
<1>16. SettledInv' /\ BackInv'
  <2>1. pc' \in {"forward", "select"}
    BY <1>1
  <2>2. Settled' = Settled
    BY <1>1, <2>1 DEF Settled
  <2>3. QED
    BY <1>1, <2>1, <2>2, SettledKept DEF Inv, BackInv
<1>17. QED
  BY <1>4, <1>11, <1>12, <1>15, <1>16 DEF Inv

-----------------------------------------------------------------------------
\* The loop over order and the backward searches

LEMMA PredType ==
  ASSUME TypeOK
  PROVE  /\ succ \in [Node -> SUBSET Node] /\ pred \in [Node -> SUBSET Node]
         /\ \A m, n \in Node : m \in pred[n] <=> n \in succ[m]
BY DEF TypeOK, pred, Reversed

\* Taking the back of the list, which is or gets processed.
LEMMA PopOrderFacts ==
  ASSUME TypeOK, OrderInv, order # <<>>, PopOrder, pc # "forward", pc' # "forward",
         processed' \in {processed, processed \cup {Back}}, Back \in processed', succ' = succ
  PROVE  /\ Back \in Node /\ order' \in Seq(Node) /\ Distinct(order')
         /\ OrderInv'
<1>1. /\ Len(order) \in Nat \ {0} /\ Back \in Node
      /\ order' \in Seq(Node) /\ Len(order') = Len(order) - 1
      /\ \A i \in 1 .. Len(order) - 1 : order'[i] = order[i]
      /\ Elems(order') = Elems(order) \ {Back}
      /\ Distinct(order')
  <2>1. order' = Front(order) /\ Distinct(order) /\ order \in Seq(Node)
    BY DEF PopOrder, Front, TypeOK, Distinct
  <2>2. QED
    BY <2>1, FrontFacts DEF Back
<1>2. Node = Listed' \cup processed'
  <2>1. Node = Listed \cup processed
    BY DEF OrderInv
  <2>2. Listed' = Listed \ {Back}
    BY <1>1 DEF Listed, Elems
  <2>3. QED
    BY <1>1, <2>1, <2>2
<1>3. ASSUME NEW i \in 1 .. Len(order'), NEW j \in 1 .. Len(order'),
             i < j, order'[j] \in Reach(succ, order'[i])
      PROVE  \/ order'[i] \in Reach(succ, order'[j])
             \/ \E k \in 1 .. Len(order') : k > j /\ order'[k] \in SCCOf(succ, order'[i])
             \/ \E a \in processed' : a \in SCCOf(succ, order'[i])
  <2>1. /\ i \in 1 .. Len(order) /\ j \in 1 .. Len(order)
        /\ order'[i] = order[i] /\ order'[j] = order[j]
    BY <1>1
  <2>2. \/ order[i] \in Reach(succ, order[j])
        \/ \E k \in 1 .. Len(order) : k > j /\ order[k] \in SCCOf(succ, order[i])
        \/ \E a \in processed : a \in SCCOf(succ, order[i])
    BY <1>3, <2>1 DEF OrderInv, Pending
  <2>3. ASSUME NEW k \in 1 .. Len(order), k > j, order[k] \in SCCOf(succ, order[i])
        PROVE  \/ \E l \in 1 .. Len(order') : l > j /\ order'[l] \in SCCOf(succ, order[i])
               \/ \E a \in processed' : a \in SCCOf(succ, order[i])
    <3>1. CASE k = Len(order)
      <4>1. order[k] = Back
        BY <3>1 DEF Back
      <4>2. Back \in SCCOf(succ, order[i])
        BY <2>3, <4>1
      <4>3. \E a \in processed' : a \in SCCOf(succ, order[i])
        BY <4>2
      <4>4. QED
        BY <4>3
    <3>2. CASE k \in 1 .. Len(order')
      <4>1. order'[k] = order[k]
        BY <1>1, <3>2
      <4>2. QED
        BY <2>3, <3>2, <4>1
    <3>3. k = Len(order) \/ k \in 1 .. Len(order')
      <4>1. Len(order) \in Nat /\ Len(order') = Len(order) - 1
        BY <1>1
      <4>2. k \in Nat /\ 1 <= k /\ k <= Len(order)
        BY <4>1
      <4>3. k = Len(order) \/ k <= Len(order) - 1
        BY <4>1, <4>2
      <4>4. QED
        BY <4>1, <4>2, <4>3
    <3>4. QED
      BY <3>1, <3>2, <3>3
  <2>4. ASSUME NEW a \in processed, a \in SCCOf(succ, order[i])
        PROVE  \E c \in processed' : c \in SCCOf(succ, order[i])
    BY <2>4
  <2>5. QED
    BY <2>1, <2>2, <2>3, <2>4
<1>4. OrderInv'
  <2>1. \A i, j \in 1 .. Len(order') :
          i < j /\ order'[j] \in Reach(succ', order'[i]) =>
            \/ order'[i] \in Reach(succ', order'[j])
            \/ \E k \in 1 .. Len(order') : k > j /\ order'[k] \in SCCOf(succ', order'[i])
            \/ \E a \in Pending' : a \in SCCOf(succ', order'[i])
    BY <1>3 DEF Pending
  <2>2. QED
    BY <1>2, <2>1 DEF OrderInv
<1>5. QED
  BY <1>1, <1>4

LEMMA SkipProcessedInv ==
  ASSUME Inv, SkipProcessed
  PROVE  Inv'
<1>1. /\ pc = "select" /\ order # <<>> /\ Back \in processed /\ PopOrder
      /\ UNCHANGED <<succ, stack, todo, visited, processed, sccs, pc>>
  BY DEF SkipProcessed, calls
<1>2. order' \in Seq(Node) /\ Distinct(order') /\ OrderInv'
  BY <1>1, PopOrderFacts DEF Inv
<1>3. TypeOK'
  BY <1>1, <1>2 DEF Inv, TypeOK, Distinct
<1>4. StackInv' /\ ForwardInv' /\ BackInv'
  BY <1>1 DEF Inv, StackInv, ForwardInv, BackInv, Active
<1>5. SettledInv'
  BY <1>1, SettledKept DEF Inv, Settled
<1>6. QED
  BY <1>2, <1>3, <1>4, <1>5 DEF Inv

\* What still leads to the back of the list is in its component: no other component
\* that does can be wholly in front of it.
LEMMA BackIsLast ==
  ASSUME Inv, pc = "select", order # <<>>, Back \notin processed,
         NEW u \in Node, u \notin processed, Back \in Reach(succ, u)
  PROVE  u \in Reach(succ, Back)
<1>1. TypeOK /\ OrderInv /\ SettledInv
  BY DEF Inv
<1>2. Len(order) \in Nat \ {0} /\ Back \in Node
  <2>1. Distinct(order) /\ order \in Seq(Node)
    BY <1>1 DEF TypeOK, Distinct
  <2>2. QED
    BY <2>1, FrontFacts DEF Back
<1>3. PICK i \in 1 .. Len(order) : u = order[i]
  BY <1>1 DEF OrderInv, Listed
<1>4. CASE i = Len(order)
  BY <1>1, <1>2, <1>3, <1>4, PredType, ReachFacts DEF Back
<1>5. CASE i < Len(order)
  <2>1. \/ u \in Reach(succ, Back)
        \/ \E a \in processed : a \in SCCOf(succ, u)
    BY <1>1, <1>2, <1>3, <1>5 DEF OrderInv, Back, Pending
  <2>2. ASSUME NEW a \in processed, a \in SCCOf(succ, u) PROVE FALSE
    <3>1. SCCOf(succ, a) \subseteq processed
      BY <1>1 DEF SettledInv, Settled
    <3>2. u \in SCCOf(succ, a)
      BY <1>1, <2>2, PredType, SCCFacts
    <3>3. QED
      BY <3>1, <3>2
  <2>3. QED
    BY <2>1, <2>2
<1>6. QED
  BY <1>2, <1>4, <1>5

LEMMA StartBackwardInv ==
  ASSUME Inv, StartBackward
  PROVE  Inv'
<1> DEFINE b == Back
<1>1. /\ pc = "select" /\ order # <<>> /\ b \notin processed /\ PopOrder
      /\ visited' = {b} /\ processed' = processed \cup {b}
      /\ stack' = <<b>> /\ todo' = [todo EXCEPT ![b] = pred[b]]
      /\ pc' = "backward"
      /\ UNCHANGED <<succ, sccs>>
  BY DEF StartBackward
<1>2. TypeOK /\ StackInv /\ OrderInv /\ SettledInv
  BY DEF Inv
<1>3. b \in Node /\ order' \in Seq(Node) /\ Distinct(order') /\ OrderInv'
  BY <1>1, <1>2, PopOrderFacts
<1>4. \A u \in Node \ processed : b \in Reach(succ, u) => u \in Reach(succ, b)
  BY <1>1, BackIsLast
<1> HIDE DEF b
<1>5. stack' \in Seq(Node) /\ stack' # <<>> /\ Len(stack') = 1 /\ stack'[1] = b
  BY <1>1, <1>3
<1>6. Active' = {b} /\ Distinct(stack')
  BY <1>5 DEF Active, Distinct
<1>7. Active = {}
  <2>1. stack = <<>>
    BY <1>1, <1>2 DEF StackInv
  <2>2. Len(stack) = 0
    BY <2>1
  <2>3. QED
    BY <2>2 DEF Active
<1>8. /\ todo' \in [Node -> SUBSET Node]
      /\ \A n \in Node : todo'[n] = IF n = b THEN pred[n] ELSE {}
  BY <1>1, <1>2, <1>3, <1>7, PredType DEF TypeOK, StackInv
<1>9. TypeOK'
  BY <1>1, <1>2, <1>3, <1>5, <1>8 DEF TypeOK, Distinct
<1>10. StackInv'
  <2>1. IsFiniteSet(visited')
    BY <1>1, FS_Singleton
  <2>2. QED
    BY <1>1, <1>2, <1>5, <1>6, <1>8, <2>1 DEF StackInv
<1>11. Settled' = Settled /\ Settled' = processed
  BY <1>1 DEF Settled
<1>12. BackInv'
  <2>1. pred' = pred
    BY <1>1 DEF pred
  <2>2. b \in Reach(succ, b)
    BY <1>2, <1>3, PredType, ReachFacts
  <2>3. \A n \in Node : todo'[n] \subseteq pred[n]
    BY <1>8
  <2>4. pred[b] \ todo'[b] = {}
    BY <1>3, <1>8
  <2>5. QED
    BY <1>1, <1>4, <1>11, <2>1, <2>2, <2>3, <2>4 DEF BackInv
<1>13. SettledInv' /\ ForwardInv'
  BY <1>1, <1>2, <1>11, SettledKept DEF ForwardInv
<1>14. QED
  BY <1>3, <1>9, <1>10, <1>12, <1>13 DEF Inv

\* An entry of what is reached back from the component: m leads to it, so it is in it.
LEMMA BackExploreEnter ==
  ASSUME Inv, BackwardExplore, NEW m \in todo[Top], m \notin processed,
         Visit(m, processed, pred), processed' = processed \cup {m}
  PROVE  Inv'
<1> DEFINE t == Top
<1>1. /\ pc = "backward" /\ m \in todo[t] /\ m \notin processed
      /\ UNCHANGED <<succ, order, sccs, pc>>
      /\ todo' = [todo EXCEPT ![t] = @ \ {m}, ![m] = pred[m]]
      /\ stack' = Append(stack, m) /\ visited' = visited \cup {m}
  BY DEF BackwardExplore, Visit
<1>2. TypeOK /\ StackInv /\ OrderInv /\ SettledInv /\ BackInv
  BY DEF Inv
<1>3. t \in Node /\ t \in visited
  BY <1>1, <1>2, TopFacts
<1>4. /\ succ \in [Node -> SUBSET Node] /\ pred \in [Node -> SUBSET Node]
      /\ \A x, n \in Node : x \in pred[n] <=> n \in succ[x]
  BY <1>2, PredType
<1>5. /\ visited \subseteq processed /\ m \notin visited
      /\ m \in pred[t] /\ m \in Node /\ pred[m] \in SUBSET Node
  BY <1>1, <1>2, <1>3, <1>4 DEF BackInv
<1>6. /\ stack' \in Seq(Node)
      /\ todo' \in [Node -> SUBSET Node]
      /\ \A n \in Node : todo'[n] = IF n = t THEN todo[n] \ {m}
                                    ELSE IF n = m THEN pred[m] ELSE todo[n]
      /\ StackInv'
  BY <1>1, <1>2, <1>5, EnterFacts
<1> HIDE DEF t
<1>7. Settled' = Settled /\ m \notin Settled /\ Settled = processed \ visited
  BY <1>1, <1>5 DEF Settled
\* m is in the component that is collected.
<1>8. m \in Reach(succ, t) /\ t \in Reach(succ, m)
  <2>1. t \in Reach(succ, m)
    BY <1>3, <1>4, <1>5, ReachFacts
  <2>2. m \in Reach(succ, t)
    BY <1>1, <1>2, <1>3, <1>5, <1>7, <2>1 DEF BackInv
  <2>3. QED
    BY <2>1, <2>2
<1>9. Reach(succ, m) = Reach(succ, t)
  BY <1>3, <1>4, <1>8, SameReach
<1>10. \A x \in visited : Reach(succ, x) = Reach(succ, t)
  <2>1. \A x \in visited : x \in Node /\ t \in Reach(succ, x) /\ x \in Reach(succ, t)
    BY <1>1, <1>2, <1>3 DEF BackInv, TypeOK
  <2>2. QED
    BY <1>3, <1>4, <2>1, SameReach
<1>11. \A x, y \in visited' : y \in Reach(succ, x)
  <2>1. \A y \in visited' : y \in Reach(succ, t)
    BY <1>1, <1>2, <1>3, <1>8 DEF BackInv
  <2>2. QED
    BY <1>1, <1>9, <1>10, <2>1
<1>12. ASSUME NEW x \in visited', NEW u \in Node \ Settled, x \in Reach(succ, u)
       PROVE  u \in Reach(succ, x)
  <2>1. t \in Reach(succ, u)
    <3>1. t \in Reach(succ, x)
      BY <1>1, <1>3, <1>11, <1>12
    <3>2. Reach(succ, x) \subseteq Reach(succ, u)
      BY <1>4, <1>12, ReachFacts
    <3>3. QED
      BY <3>1, <3>2
  <2>2. u \in Reach(succ, t)
    BY <1>1, <1>2, <1>3, <1>12, <2>1 DEF BackInv
  <2>3. QED
    BY <1>1, <1>9, <1>10, <1>12, <2>2
<1>13. BackInv'
  <2>1. pred' = pred
    BY <1>1 DEF pred
  <2>2. visited' # {} /\ visited' \subseteq processed'
    BY <1>1, <1>5
  <2>3. \A n \in Node : todo'[n] \subseteq pred[n]
    BY <1>1, <1>2, <1>6 DEF BackInv
  <2>4. \A n \in visited' : pred[n] \ todo'[n] \subseteq processed'
    BY <1>1, <1>2, <1>5, <1>6 DEF BackInv, TypeOK
  <2>5. \A x \in visited' : \A u \in Node \ Settled' :
          x \in Reach(succ', u) => u \in Reach(succ', x)
    BY <1>1, <1>7, <1>12
  <2>6. \A x, y \in visited' : y \in Reach(succ', x)
    BY <1>1, <1>11
  <2>7. QED
    BY <2>1, <2>2, <2>3, <2>4, <2>5, <2>6 DEF BackInv
<1>14. TypeOK'
  BY <1>1, <1>2, <1>5, <1>6 DEF TypeOK
<1>15. OrderInv'
  <2>1. Pending \subseteq Pending' /\ processed \subseteq processed'
    BY <1>1 DEF Pending
  <2>2. Node = Listed \cup processed
    BY <1>1, <1>2 DEF OrderInv
  <2>3. QED
    BY <1>1, <1>2, <1>5, <2>1, <2>2, OrderKept
<1>16. SettledInv' /\ ForwardInv'
  BY <1>1, <1>2, <1>7, SettledKept DEF ForwardInv
<1>17. QED
  BY <1>6, <1>13, <1>14, <1>15, <1>16 DEF Inv

LEMMA BackwardExploreInv ==
  ASSUME Inv, BackwardExplore
  PROVE  Inv'
<1>1. /\ pc = "backward" /\ UNCHANGED <<succ, order, sccs, pc>>
  BY DEF BackwardExplore
<1>2. PICK m \in todo[Top] : Visit(m, processed, pred) /\ processed' = processed \cup {m}
  BY DEF BackwardExplore
<1>3. TypeOK /\ StackInv /\ OrderInv /\ SettledInv /\ BackInv
  BY DEF Inv
<1>4. CASE m \in processed
  <2>1. processed' = processed
    BY <1>2, <1>4
  <2>2. /\ UNCHANGED <<stack, visited>>
        /\ todo' \in [Node -> SUBSET Node]
        /\ \A n \in Node : todo'[n] = IF n = Top THEN todo[n] \ {m} ELSE todo[n]
        /\ StackInv'
    BY <1>1, <1>2, <1>3, <1>4, PassFacts
  <2>3. TypeOK'
    BY <1>1, <1>3, <2>1, <2>2 DEF TypeOK
  <2>4. Settled' = Settled /\ pred' = pred
    BY <1>1, <2>1, <2>2 DEF Settled, pred
  <2>5. BackInv'
    <3>1. \A n \in Node : todo'[n] \subseteq pred[n]
      BY <1>1, <1>3, <2>2 DEF BackInv
    <3>2. \A n \in visited : pred[n] \ todo'[n] \subseteq processed
      BY <1>1, <1>3, <1>4, <2>2 DEF BackInv, TypeOK
    <3>3. QED
      BY <1>1, <1>3, <2>1, <2>2, <2>4, <3>1, <3>2 DEF BackInv
  <2>6. OrderInv'
    <3>1. Pending' = Pending
      BY <1>1, <2>1 DEF Pending
    <3>2. QED
      BY <1>1, <1>3, <2>1, <3>1, OrderKept DEF OrderInv
  <2>7. SettledInv' /\ ForwardInv'
    BY <1>1, <1>3, <2>4, SettledKept DEF ForwardInv
  <2>8. QED
    BY <2>2, <2>3, <2>5, <2>6, <2>7 DEF Inv
<1>5. CASE m \notin processed
  BY <1>2, <1>5, BackExploreEnter
<1>6. QED
  BY <1>4, <1>5

LEMMA BackwardReturnInv ==
  ASSUME Inv, BackwardReturn
  PROVE  Inv'
<1>1. /\ pc = "backward" /\ todo[Top] = {} /\ Pop
      /\ pc' = IF Len(stack) = 1 THEN "record" ELSE pc
      /\ UNCHANGED <<succ, todo, visited, order, processed, sccs>>
  BY DEF BackwardReturn
<1>2. TypeOK /\ StackInv /\ OrderInv /\ SettledInv /\ BackInv
  BY DEF Inv
<1>3. stack' \in Seq(Node) /\ StackInv'
  <2>1. "record" \notin {"forward", "backward"} /\ pc \in {"forward", "backward"}
    BY <1>1
  <2>2. QED
    BY <1>1, <1>2, <2>1, LeaveFacts
<1>4. pc' \in {"backward", "record"}
  BY <1>1
<1>5. TypeOK'
  BY <1>1, <1>2, <1>3, <1>4 DEF TypeOK
<1>6. Settled' = Settled /\ pred' = pred /\ Pending' = Pending
  BY <1>1, <1>4 DEF Settled, pred, Pending
<1>7. BackInv'
  BY <1>1, <1>2, <1>6 DEF BackInv
<1>8. OrderInv'
  BY <1>1, <1>2, <1>6, OrderKept DEF OrderInv
<1>9. SettledInv' /\ ForwardInv'
  BY <1>1, <1>2, <1>4, <1>6, SettledKept DEF ForwardInv
<1>10. QED
  BY <1>3, <1>5, <1>7, <1>8, <1>9 DEF Inv

\* What a backward search has taken when it ends is one whole component.
LEMMA ComponentTaken ==
  ASSUME Inv, pc = "record"
  PROVE  /\ processed = Settled \cup visited /\ Settled \cap visited = {} /\ visited # {}
         /\ \A n \in processed : pred[n] \subseteq processed
         /\ \A x \in visited : visited = SCCOf(succ, x) /\ (IsTrivial <=> ~OnCycle(succ, x))
<1>1. TypeOK /\ StackInv /\ SettledInv /\ BackInv
  BY DEF Inv
<1>2. /\ Settled = processed \ visited /\ visited # {} /\ visited \subseteq processed
      /\ visited \subseteq Node /\ processed \subseteq Node
      /\ \A x, y \in visited : y \in Reach(succ, x)
  BY <1>1 DEF Settled, BackInv, TypeOK
<1>3. /\ succ \in [Node -> SUBSET Node] /\ pred \in [Node -> SUBSET Node]
  BY <1>1, PredType
<1>4. \A n \in Node : todo[n] = {}
  <2>1. stack = <<>>
    BY <1>1 DEF StackInv
  <2>2. Len(stack) = 0
    BY <2>1
  <2>3. Active = {}
    BY <2>2 DEF Active
  <2>4. QED
    BY <1>1, <2>3 DEF StackInv
<1>5. \A n \in processed : pred[n] \subseteq processed
  <2>1. \A n \in visited : pred[n] \subseteq processed
    BY <1>1, <1>2, <1>4 DEF BackInv
  <2>2. \A n \in Settled : pred[n] \subseteq Settled
    BY <1>1 DEF SettledInv
  <2>3. QED
    BY <1>2, <2>1, <2>2
<1>6. ASSUME NEW x \in visited PROVE visited = SCCOf(succ, x)
  <2>1. visited \subseteq SCCOf(succ, x)
    BY <1>2 DEF SCCOf
  <2>2. ASSUME NEW y \in SCCOf(succ, x) PROVE y \in visited
    <3>1. y \in Node /\ x \in Reach(succ, y) /\ x \in SCCOf(succ, y)
      BY <1>2, <1>3, SCCFacts DEF SCCOf
    <3>2. y \in processed
      <4>1. \A n \in processed : Reversed(succ)[n] \subseteq processed
        BY <1>5 DEF pred
      <4>2. QED
        BY <1>2, <1>3, <3>1, <4>1, ReachBack
    <3>3. y \notin Settled
      <4>1. y \in Settled => SCCOf(succ, y) \subseteq Settled
        BY <1>1 DEF SettledInv
      <4>2. QED
        BY <1>2, <3>1, <4>1
    <3>4. QED
      BY <1>2, <3>2, <3>3
  <2>3. QED
    BY <2>1, <2>2
<1>7. IsFiniteSet(visited)
  BY <1>1 DEF StackInv
<1>8. ASSUME NEW x \in visited PROVE IsTrivial <=> ~OnCycle(succ, x)
  <2>1. OnCycle(succ, x) <=> x \in succ[x] \/ visited # {x}
    BY <1>2, <1>3, <1>6, CycleFacts
  <2>2. Cardinality(visited) = 1 <=> visited = {x}
    <3>1. Cardinality(visited) = 1 <=> \E y : visited = {y}
      BY <1>7, FS_Singleton
    <3>2. QED
      BY <3>1
  <2>3. QED
    BY <2>1, <2>2 DEF IsTrivial
<1>9. QED
  BY <1>2, <1>5, <1>6, <1>8

LEMMA RecordInv ==
  ASSUME Inv, Record
  PROVE  Inv'
<1>1. /\ pc = "record" /\ pc' = "select"
      /\ sccs' = IF IsTrivial THEN sccs ELSE sccs \cup {visited}
      /\ UNCHANGED <<succ, stack, todo, visited, order, processed>>
  BY DEF Record, calls
<1>2. TypeOK /\ StackInv /\ OrderInv /\ SettledInv
  BY DEF Inv
<1>3. /\ processed = Settled \cup visited /\ visited # {}
      /\ \A n \in processed : pred[n] \subseteq processed
      /\ \A x \in visited : visited = SCCOf(succ, x) /\ (IsTrivial <=> ~OnCycle(succ, x))
  BY <1>1, ComponentTaken
<1>4. TypeOK'
  BY <1>1, <1>2 DEF TypeOK
<1>5. StackInv'
  BY <1>1, <1>2 DEF StackInv, Active
<1>6. ForwardInv' /\ BackInv'
  BY <1>1 DEF ForwardInv, BackInv
<1>7. OrderInv'
  <2>1. Pending' = Pending
    BY <1>1 DEF Pending
  <2>2. QED
    BY <1>1, <1>2, <2>1, OrderKept DEF OrderInv
<1>8. Settled' = processed /\ pred' = pred
  BY <1>1 DEF Settled, pred
<1>9. \A n \in processed : SCCOf(succ, n) \subseteq processed
  <2>1. \A n \in Settled : SCCOf(succ, n) \subseteq Settled
    BY <1>2 DEF SettledInv
  <2>2. QED
    BY <1>3, <2>1
<1>10. sccs' = {SCCOf(succ, n) : n \in {m \in processed : OnCycle(succ, m)}}
  <2> DEFINE Of(X) == {SCCOf(succ, n) : n \in {m \in X : OnCycle(succ, m)}}
  <2>1. sccs = Of(Settled)
    BY <1>2 DEF SettledInv
  <2>2. Of(processed) = Of(Settled) \cup Of(visited)
    BY <1>3
  <2>3. Of(visited) = IF IsTrivial THEN {} ELSE {visited}
    BY <1>3
  <2> HIDE DEF Of
  <2>4. sccs' = Of(processed)
    BY <1>1, <2>1, <2>2, <2>3
  <2>5. QED
    BY <2>4 DEF Of
<1>11. SettledInv'
  <2>1. succ' = succ
    BY <1>1
  <2>2. QED
    BY <1>3, <1>8, <1>9, <1>10, <2>1 DEF SettledInv
<1>12. QED
  BY <1>4, <1>5, <1>6, <1>7, <1>11 DEF Inv

LEMMA FinishInv ==
  ASSUME Inv, Finish
  PROVE  Inv' /\ order = <<>>
<1>1. /\ pc = "select" /\ pc' = "done" /\ order = <<>>
      /\ UNCHANGED <<succ, stack, todo, visited, order, processed, sccs>>
  BY DEF Finish, calls
<1>2. TypeOK' /\ StackInv' /\ ForwardInv' /\ BackInv'
  BY <1>1 DEF Inv, TypeOK, StackInv, Active, ForwardInv, BackInv
<1>3. Settled' = Settled /\ Pending' = Pending
  BY <1>1 DEF Settled, Pending
<1>4. OrderInv' /\ SettledInv'
  BY <1>1, <1>3, OrderKept, SettledKept DEF Inv, OrderInv
<1>5. QED
  BY <1>1, <1>2, <1>4 DEF Inv

LEMMA StutterInv ==
  ASSUME Inv, UNCHANGED vars
  PROVE  Inv'
<1>1. UNCHANGED <<succ, stack, todo, visited, order, processed, sccs, pc>>
  BY DEF vars, calls
<1>2. TypeOK' /\ StackInv' /\ ForwardInv' /\ BackInv'
  <2>1. Active' = Active /\ Listed' = Listed /\ pred' = pred /\ Settled' = Settled
    BY <1>1 DEF Active, Listed, pred, Settled
  <2>2. TypeOK' /\ StackInv'
    BY <1>1, <2>1 DEF Inv, TypeOK, StackInv, Distinct
  <2>3. ForwardInv'
    BY <1>1, <2>1 DEF Inv, ForwardInv
  <2>4. BackInv'
    BY <1>1, <2>1 DEF Inv, BackInv
  <2>5. QED
    BY <2>2, <2>3, <2>4
<1>3. Settled' = Settled /\ Pending' = Pending
  BY <1>1 DEF Settled, Pending, Active
<1>4. OrderInv' /\ SettledInv'
  BY <1>1, <1>3, OrderKept, SettledKept DEF Inv, OrderInv
<1>5. QED
  BY <1>2, <1>4 DEF Inv

-----------------------------------------------------------------------------
\* The list has been emptied when the loop ends.
EndInv == pc = "done" => order = <<>>

\* Inv /\ EndInv is inductive: the initial states satisfy it and every step keeps it.
THEOREM Invariance == Spec => [](Inv /\ EndInv)
<1>1. Init => Inv /\ EndInv
  BY InitInv DEF Init, EndInv
<1>2. Inv /\ EndInv /\ [Next]_vars => (Inv /\ EndInv)'
  <2> SUFFICES ASSUME Inv, EndInv, [Next]_vars PROVE Inv' /\ EndInv'
    OBVIOUS
  <2>1. CASE ForwardExplore
    BY <2>1, ForwardExploreInv DEF ForwardExplore, EndInv
  <2>2. CASE ForwardReturn
    <3>1. pc' # "done"
      BY <2>2 DEF ForwardReturn
    <3>2. QED
      BY <2>2, <3>1, ForwardReturnInv DEF EndInv
  <2>3. CASE SkipProcessed
    BY <2>3, SkipProcessedInv DEF SkipProcessed, EndInv
  <2>4. CASE StartBackward
    BY <2>4, StartBackwardInv DEF StartBackward, EndInv
  <2>5. CASE BackwardExplore
    BY <2>5, BackwardExploreInv DEF BackwardExplore, EndInv
  <2>6. CASE BackwardReturn
    <3>1. pc' # "done"
      BY <2>6 DEF BackwardReturn
    <3>2. QED
      BY <2>6, <3>1, BackwardReturnInv DEF EndInv
  <2>7. CASE Record
    BY <2>7, RecordInv DEF Record, EndInv
  <2>8. CASE Finish
    BY <2>8, FinishInv DEF Finish, EndInv
  <2>9. CASE UNCHANGED vars
    BY <2>9, StutterInv DEF EndInv, vars
  <2>10. QED
    BY <2>1, <2>2, <2>3, <2>4, <2>5, <2>6, <2>7, <2>8, <2>9 DEF Next, Step, Terminated
<1>3. QED
  BY <1>1, <1>2, PTL DEF Spec

\* The variables keep their types: no node is listed twice, and the recorded sets are
\* sets of nodes.
THEOREM TypeCorrect == Spec => []TypeOK
<1>1. Inv => TypeOK
  BY DEF Inv
<1>2. QED
  BY <1>1, Invariance, PTL

\* A node forwardDFS has returned from leads back to an active call, or everything it
\* reaches was returned from.
THEOREM OrderCorrect == Spec => []ReturnOrder
<1>1. ASSUME Inv PROVE ReturnOrder
  <2>1. \A u : \A a \in SCCOf(succ, u) : a \in Reach(succ, u)
    BY DEF SCCOf
  <2>2. QED
    BY <1>1, <2>1 DEF Inv, ForwardInv, ReturnOrder
<1>2. QED
  BY <1>1, Invariance, PTL

\* Between two backward searches the processed nodes are whole components, with all
\* that leads to them.
THEOREM ProcessedCorrect == Spec => []ProcessedIsUnionOfComponents
<1>1. Inv => ProcessedIsUnionOfComponents
  BY DEF Inv, SettledInv, Settled, ProcessedIsUnionOfComponents
<1>2. QED
  BY <1>1, Invariance, PTL

\* When computeSCCs ends it has recorded the components that hold a cycle, all of
\* them and nothing else.
THEOREM RecordsCorrect == Spec => []RecordsComponents
<1>1. ASSUME Inv, EndInv PROVE RecordsComponents
  <2> SUFFICES ASSUME pc = "done" PROVE sccs = Components(succ)
    BY DEF RecordsComponents
  <2>1. order = <<>>
    BY <1>1 DEF EndInv
  <2>2. Len(order) = 0
    BY <2>1
  <2>3. Listed = {}
    BY <2>2 DEF Listed
  <2>4. Node = processed /\ Settled = processed
    BY <1>1, <2>3 DEF Inv, OrderInv, Settled
  <2>5. DOMAIN succ = Node
    BY <1>1 DEF Inv, TypeOK
  <2>6. QED
    BY <1>1, <2>4, <2>5 DEF Inv, SettledInv, Components
<1>2. QED
  BY <1>1, Invariance, PTL

\* Every step of computeSCCs records one new component that holds a cycle, or leaves
\* what is recorded alone: the safety part of ImplementsSCCSpec.
THEOREM StepsRecordComponents == Spec => S!Init /\ [][S!Record]_<<succ, sccs>>
<1>1. Init => S!Init
  BY DEF Init, S!Init
<1>2. Inv /\ [Next]_vars => [S!Record]_<<succ, sccs>>
  <2> SUFFICES ASSUME Inv, [Next]_vars PROVE S!Record \/ UNCHANGED <<succ, sccs>>
    OBVIOUS
  <2>1. CASE Record
    <3>1. /\ pc = "record" /\ succ' = succ
          /\ sccs' = IF IsTrivial THEN sccs ELSE sccs \cup {visited}
      BY <2>1 DEF Record
    <3>2. /\ Settled \cap visited = {} /\ visited # {}
          /\ \A x \in visited : visited = SCCOf(succ, x) /\ (IsTrivial <=> ~OnCycle(succ, x))
      BY <3>1, ComponentTaken
    <3>3. ASSUME ~IsTrivial PROVE visited \in Components(succ) \ sccs
      <4>1. /\ visited \subseteq Node /\ DOMAIN succ = Node
            /\ \A n \in Settled : SCCOf(succ, n) \subseteq Settled
            /\ sccs = {SCCOf(succ, n) : n \in {m \in Settled : OnCycle(succ, m)}}
        BY DEF Inv, TypeOK, SettledInv
      <4>2. visited \in Components(succ)
        BY <3>2, <3>3, <4>1 DEF Components
      <4>3. visited \notin sccs
        BY <3>2, <4>1
      <4>4. QED
        BY <4>2, <4>3
    <3>4. S!Components(succ) = Components(succ)
      BY DEF Components, S!Components, SCCOf, S!SCCOf, OnCycle, S!OnCycle,
             Reach, S!Reach, ReachIn, S!ReachIn, ClosedIn, S!ClosedIn
    <3>5. QED
      BY <3>1, <3>3, <3>4 DEF S!Record
  <2>2. CASE ~Record
    BY <2>2 DEF Next, Step, Terminated, ForwardExplore, ForwardReturn, SkipProcessed,
                StartBackward, BackwardExplore, BackwardReturn, Finish, vars
  <2>3. QED
    BY <2>1, <2>2
<1>3. QED
  BY <1>1, <1>2, Invariance, PTL DEF Spec

\* The recursion of forwardDFS and of backwardDFS is never deeper than the graph has nodes.
THEOREM RecursionBounded == Spec => [](IsFiniteSet(Node) => Len(stack) <= Cardinality(Node))
<1>1. ASSUME Inv, IsFiniteSet(Node) PROVE Len(stack) <= Cardinality(Node)
  <2>1. Len(stack) \in Nat /\ \A i \in 1 .. Len(stack) : stack[i] \in Node
    BY <1>1 DEF Inv, TypeOK
  <2>2. \A i, j \in 1 .. Len(stack) : stack[i] = stack[j] => i = j
    BY <1>1 DEF Inv, StackInv, Distinct
  <2>3. IsFiniteSet(1 .. Len(stack)) /\ Cardinality(1 .. Len(stack)) = Len(stack)
    BY <2>1, FS_Interval
  <2>4. Cardinality(Node) \in Nat
    BY <1>1, FS_CardinalityType
  <2>5. SUFFICES ASSUME Cardinality(Node) < Len(stack) PROVE FALSE
    BY <2>1, <2>4
  <2> DEFINE call == [i \in 1 .. Len(stack) |-> stack[i]]
  <2>6. call \in [1 .. Len(stack) -> Node]
    BY <2>1
  <2> HIDE DEF call
  <2>7. \E i, j \in 1 .. Len(stack) : i # j /\ call[i] = call[j]
    BY <1>1, <2>3, <2>5, <2>6, FS_PigeonHole
  <2>8. QED
    BY <2>2, <2>7 DEF call
<1>2. Inv => (IsFiniteSet(Node) => Len(stack) <= Cardinality(Node))
  BY <1>1
<1>3. QED
  BY <1>2, Invariance, PTL

-----------------------------------------------------------------------------
\* A loop round that does not enter the node it comes to leaves it behind.
LEMMA PassMoves ==
  ASSUME TypeOK, StackInv, pc \in {"forward", "backward"},
         NEW seen, NEW edges, NEW m \in todo[Top], m \in seen, Visit(m, seen, edges),
         UNCHANGED <<succ, pc>>
  PROVE  FewerLeft /\ visited' = visited
<1>1. /\ UNCHANGED <<stack, visited>>
      /\ \A n \in Node : todo'[n] = IF n = Top THEN todo[n] \ {m} ELSE todo[n]
  BY PassFacts
<1>2. Top \in Node /\ Len(stack) \in Nat \ {0}
  BY TopFacts
<1>3. todo' # todo
  BY <1>1, <1>2
<1>4. \A n \in Node : todo'[n] \subseteq todo[n]
  BY <1>1
<1>5. Len(stack') <= Len(stack)
  BY <1>1, <1>2
<1>6. QED
  BY <1>1, <1>3, <1>4, <1>5 DEF FewerLeft

\* A call that returns is left behind.
LEMMA LeaveMoves ==
  ASSUME TypeOK, StackInv, pc \in {"forward", "backward"}, todo[Top] = {}, Pop,
         UNCHANGED <<succ, todo, visited>>,
         NEW next, next \notin {"forward", "backward"},
         pc' = IF Len(stack) = 1 THEN next ELSE pc
  PROVE  FewerLeft
<1>1. Len(stack') = Len(stack) - 1
  BY LeaveFacts
<1>2. Len(stack) \in Nat \ {0}
  BY TopFacts
<1>3. QED
  BY <1>1, <1>2 DEF FewerLeft

\* Every round of computeSCCs enters a node for the first time, in the direction it
\* searches, or leaves a neighbour, a call or a member of the list behind for good; the
\* forward search is not taken up again.
THEOREM SearchMovesOn == Spec => MovesOn
<1> DEFINE
      Moves ==
        /\ pc # "forward" => pc' # "forward"
        /\ \/ pc = "forward" /\ Grows(visited, visited')
           \/ pc = "forward" /\ visited' = visited /\ FewerLeft
           \/ pc # "forward" /\ Grows(processed, processed')
           \/ /\ pc # "forward" /\ processed' = processed
              /\ \/ Len(order') < Len(order)
                 \/ order' = order /\ FewerLeft
                 \/ /\ UNCHANGED <<order, calls>>
                    /\ <<pc, pc'>> \in {<<"record", "select">>, <<"select", "done">>}
<1>1. ASSUME Inv, ForwardExplore PROVE Moves
  <2>1. pc = "forward" /\ UNCHANGED <<succ, pc>>
    BY <1>1 DEF ForwardExplore
  <2>2. PICK m \in todo[Top] : Visit(m, visited, succ)
    BY <1>1 DEF ForwardExplore
  <2>3. CASE m \in visited
    <3>1. FewerLeft /\ visited' = visited
      BY <1>1, <2>1, <2>2, <2>3, PassMoves DEF Inv
    <3>2. QED
      BY <2>1, <3>1
  <2>4. CASE m \notin visited
    BY <2>1, <2>2, <2>4 DEF Visit, Grows
  <2>5. QED
    BY <2>3, <2>4
<1>2. ASSUME Inv, ForwardReturn PROVE Moves
  <2>1. /\ pc = "forward" /\ todo[Top] = {} /\ Pop
        /\ pc' = IF Len(stack) = 1 THEN "select" ELSE pc
        /\ UNCHANGED <<succ, todo, visited>>
    BY <1>2 DEF ForwardReturn
  <2>2. FewerLeft
    BY <1>2, <2>1, LeaveMoves DEF Inv
  <2>3. QED
    BY <2>1, <2>2
<1>3. ASSUME Inv, SkipProcessed PROVE Moves
  <2>1. order # <<>> /\ PopOrder /\ pc = "select" /\ pc' = pc /\ processed' = processed
    BY <1>3 DEF SkipProcessed
  <2>2. order \in Seq(Node) /\ Distinct(order)
    BY <1>3 DEF Inv, TypeOK, Distinct
  <2>3. Len(order) \in Nat \ {0} /\ Len(order') = Len(order) - 1
    BY <2>1, <2>2, FrontFacts DEF PopOrder, Front
  <2>4. Len(order') < Len(order)
    BY <2>3
  <2>5. QED
    BY <2>1, <2>4
<1>4. ASSUME StartBackward PROVE Moves
  BY <1>4 DEF StartBackward, Grows
<1>5. ASSUME Inv, BackwardExplore PROVE Moves
  <2>1. pc = "backward" /\ UNCHANGED <<succ, order, pc>>
    BY <1>5 DEF BackwardExplore
  <2>2. PICK m \in todo[Top] : Visit(m, processed, pred) /\ processed' = processed \cup {m}
    BY <1>5 DEF BackwardExplore
  <2>3. CASE m \in processed
    <3>1. FewerLeft
      BY <1>5, <2>1, <2>2, <2>3, PassMoves DEF Inv
    <3>2. processed' = processed
      BY <2>2, <2>3
    <3>3. QED
      BY <2>1, <3>1, <3>2
  <2>4. CASE m \notin processed
    BY <2>1, <2>2, <2>4 DEF Grows
  <2>5. QED
    BY <2>3, <2>4
<1>6. ASSUME Inv, BackwardReturn PROVE Moves
  <2>1. /\ pc = "backward" /\ todo[Top] = {} /\ Pop
        /\ pc' = IF Len(stack) = 1 THEN "record" ELSE pc
        /\ UNCHANGED <<succ, todo, visited>>
        /\ processed' = processed /\ order' = order
    BY <1>6 DEF BackwardReturn
  <2>2. FewerLeft
    BY <1>6, <2>1, LeaveMoves DEF Inv
  <2>3. QED
    BY <2>1, <2>2
<1>7. ASSUME Record PROVE Moves
  BY <1>7 DEF Record
<1>8. ASSUME Finish PROVE Moves
  BY <1>8 DEF Finish
<1> HIDE DEF Moves
<1>9. Inv /\ [Next]_vars => [Moves]_vars
  <2> SUFFICES ASSUME Inv, Next PROVE Moves \/ UNCHANGED vars
    OBVIOUS
  <2>1. QED
    BY <1>1, <1>2, <1>3, <1>4, <1>5, <1>6, <1>7, <1>8 DEF Next, Step, Terminated
<1>10. QED
  BY <1>9, Invariance, PTL DEF Spec, MovesOn, Moves
=============================================================================
