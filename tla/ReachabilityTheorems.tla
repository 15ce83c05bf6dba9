------------------------ MODULE ReachabilityTheorems ------------------------
(***************************************************************************)
(* What the proofs use of Reachability.  ReachIn is the least closed set   *)
(* that contains its start: that it is closed, and that it is the least,   *)
(* are the two facts every other one follows from.                         *)
(***************************************************************************)
EXTENDS Reachability, TLAPS

\* A node reaches itself.
LEMMA ReachInSelf ==
  ASSUME NEW succ, NEW T, NEW n \in DOMAIN succ
  PROVE  n \in ReachIn(succ, T, n)
BY DEF ReachIn

\* Reachability stays within the graph.
LEMMA ReachInDomain ==
  ASSUME NEW succ, NEW T, NEW n
  PROVE  ReachIn(succ, T, n) \subseteq DOMAIN succ
BY DEF ReachIn

\* It contains what one more step leads to.
LEMMA ReachInStep ==
  ASSUME NEW succ, NEW T, NEW n, NEW m \in ReachIn(succ, T, n),
         NEW k \in succ[m], k \in T, k \in DOMAIN succ
  PROVE  k \in ReachIn(succ, T, n)
<1>1. ASSUME NEW S \in SUBSET DOMAIN succ, n \in S, ClosedIn(succ, T, S)
      PROVE  k \in S
  <2>1. m \in S
    BY <1>1 DEF ReachIn
  <2>2. QED
    BY <1>1, <2>1 DEF ClosedIn
<1>2. QED
  BY <1>1 DEF ReachIn

\* It is contained in every closed set that contains the start.
LEMMA ReachInLeast ==
  ASSUME NEW succ, NEW T, NEW S \in SUBSET DOMAIN succ, NEW n \in S,
         ClosedIn(succ, T, S)
  PROVE  ReachIn(succ, T, n) \subseteq S
BY DEF ReachIn

\* Reachability is transitive.
LEMMA ReachInTransitive ==
  ASSUME NEW succ, NEW T, NEW n, NEW m \in ReachIn(succ, T, n),
         T \subseteq DOMAIN succ
  PROVE  ReachIn(succ, T, m) \subseteq ReachIn(succ, T, n)
<1>1. ReachIn(succ, T, n) \in SUBSET DOMAIN succ
  BY ReachInDomain
<1>2. ClosedIn(succ, T, ReachIn(succ, T, n))
  BY ReachInStep DEF ClosedIn
<1>3. QED
  BY <1>1, <1>2, ReachInLeast

-----------------------------------------------------------------------------
\* The same facts for whole graphs.
LEMMA ReachFacts ==
  ASSUME NEW D, NEW succ \in [D -> SUBSET D], NEW n \in D
  PROVE  /\ n \in Reach(succ, n)
         /\ Reach(succ, n) \subseteq D
         /\ \A m \in Reach(succ, n) : succ[m] \subseteq Reach(succ, n)
         /\ \A m \in Reach(succ, n) : Reach(succ, m) \subseteq Reach(succ, n)
<1>1. DOMAIN succ = D
  OBVIOUS
<1>2. n \in Reach(succ, n) /\ Reach(succ, n) \subseteq D
  BY <1>1, ReachInSelf, ReachInDomain DEF Reach
<1>3. ASSUME NEW m \in Reach(succ, n), NEW k \in succ[m]
      PROVE  k \in Reach(succ, n)
  <2>1. m \in D /\ k \in D
    BY <1>2, <1>3
  <2>2. QED
    BY <1>1, <1>3, <2>1, ReachInStep DEF Reach
<1>4. ASSUME NEW m \in Reach(succ, n)
      PROVE  Reach(succ, m) \subseteq Reach(succ, n)
  BY <1>1, <1>4, ReachInTransitive DEF Reach
<1>5. QED
  BY <1>2, <1>3, <1>4

\* A set that contains n and the successors of its members contains what n reaches.
LEMMA ReachLeast ==
  ASSUME NEW D, NEW succ \in [D -> SUBSET D], NEW S \in SUBSET D, NEW n \in S,
         \A m \in S : succ[m] \subseteq S
  PROVE  Reach(succ, n) \subseteq S
<1>1. DOMAIN succ = D /\ S \in SUBSET DOMAIN succ
  OBVIOUS
<1>2. ClosedIn(succ, DOMAIN succ, S)
  BY DEF ClosedIn
<1>3. QED
  BY <1>1, <1>2, ReachInLeast DEF Reach

\* A node that is reached from another one has a predecessor that is reached too,
\* other than itself.
LEMMA ReachLast ==
  ASSUME NEW D, NEW succ \in [D -> SUBSET D], NEW n \in D,
         NEW m \in Reach(succ, n), m # n
  PROVE  \E p \in Reach(succ, n) \ {m} : m \in succ[p]
<1> DEFINE S == Reach(succ, n) \ {m}
<1>1. SUFFICES ASSUME \A p \in S : m \notin succ[p]
               PROVE  FALSE
  OBVIOUS
<1>2. S \in SUBSET D /\ n \in S
  BY ReachFacts
<1>3. \A p \in S : succ[p] \subseteq S
  BY <1>1, ReachFacts
<1>4. Reach(succ, n) \subseteq S
  BY <1>2, <1>3, ReachLeast
<1>5. QED
  BY <1>4

\* What a node reaches is itself and what its successors reach.
LEMMA ReachFirst ==
  ASSUME NEW D, NEW succ \in [D -> SUBSET D], NEW n \in D
  PROVE  Reach(succ, n) = {n} \cup UNION {Reach(succ, m) : m \in succ[n]}
<1> DEFINE S == {n} \cup UNION {Reach(succ, m) : m \in succ[n]}
<1>1. \A m \in succ[n] : m \in D /\ m \in Reach(succ, n)
  BY ReachFacts
<1>2. S \subseteq Reach(succ, n)
  BY <1>1, ReachFacts
<1>3. S \in SUBSET D
  BY <1>2, ReachFacts
<1>4. ASSUME NEW x \in S PROVE succ[x] \subseteq S
  <2>1. CASE x = n
    BY <2>1, <1>1, ReachFacts
  <2>2. CASE \E m \in succ[n] : x \in Reach(succ, m)
    BY <2>2, <1>1, ReachFacts
  <2>3. QED
    BY <1>4, <2>1, <2>2
<1>5. Reach(succ, n) \subseteq S
  <2>1. n \in S
    OBVIOUS
  <2> HIDE DEF S
  <2>2. QED
    BY <2>1, <1>3, <1>4, ReachLeast
<1>6. QED
  BY <1>2, <1>5

\* In a part of the graph that no edge leaves, reachability is the same.
LEMMA ReachClosedPart ==
  ASSUME NEW D, NEW succ \in [D -> SUBSET D], NEW E \in SUBSET D,
         \A x \in E : succ[x] \subseteq E,
         NEW part, part = [x \in E |-> succ[x]], NEW n \in E
  PROVE  Reach(part, n) = Reach(succ, n)
<1>1. part \in [E -> SUBSET E]
  OBVIOUS
<1>2. Reach(succ, n) \subseteq E
  BY ReachLeast
<1>3. Reach(succ, n) \subseteq Reach(part, n)
  <2>1. n \in Reach(part, n) /\ Reach(part, n) \in SUBSET D
    BY <1>1, ReachFacts
  <2>2. \A x \in Reach(part, n) : succ[x] \subseteq Reach(part, n)
    BY <1>1, ReachFacts
  <2>3. QED
    BY <2>1, <2>2, ReachLeast
<1>4. Reach(part, n) \subseteq Reach(succ, n)
  <2>1. n \in Reach(succ, n) /\ Reach(succ, n) \in SUBSET E
    BY <1>2, ReachFacts
  <2>2. \A x \in Reach(succ, n) : part[x] \subseteq Reach(succ, n)
    BY <1>2, ReachFacts
  <2>3. QED
    BY <1>1, <2>1, <2>2, ReachLeast
<1>5. QED
  BY <1>3, <1>4

\* In a part of the graph less is reachable than in the whole.
LEMMA ReachPart ==
  ASSUME NEW D, NEW succ \in [D -> SUBSET D], NEW E \in SUBSET D,
         NEW part \in [E -> SUBSET E], \A x \in E : part[x] \subseteq succ[x],
         NEW n \in E
  PROVE  Reach(part, n) \subseteq Reach(succ, n)
<1> DEFINE M == Reach(succ, n) \cap E
<1>1. n \in M /\ M \in SUBSET E
  BY ReachFacts
<1>2. \A x \in M : part[x] \subseteq M
  BY ReachFacts
<1>3. Reach(part, n) \subseteq M
  <2> HIDE DEF M
  <2>1. QED
    BY <1>1, <1>2, ReachLeast
<1>4. QED
  BY <1>3

\* Two nodes of one component reach the same nodes.
LEMMA SameComponentSameReach ==
  ASSUME NEW D, NEW succ \in [D -> SUBSET D], NEW n \in D,
         NEW x \in SCCOf(succ, n), NEW y \in SCCOf(succ, n)
  PROVE  y \in Reach(succ, x)
<1>1. x \in D /\ n \in Reach(succ, x) /\ y \in Reach(succ, n)
  BY ReachFacts DEF SCCOf
<1>2. QED
  BY <1>1, ReachFacts

-----------------------------------------------------------------------------
\* With more nodes to pass through more is reached.
LEMMA ReachInMonotone ==
  ASSUME NEW succ, NEW T, NEW U, T \subseteq U, NEW n
  PROVE  ReachIn(succ, T, n) \subseteq ReachIn(succ, U, n)
<1>1. ASSUME NEW S, ClosedIn(succ, U, S) PROVE ClosedIn(succ, T, S)
  BY <1>1 DEF ClosedIn
<1>2. QED
  BY <1>1 DEF ReachIn

\* What is reached by passing through T is the start or in T.
LEMMA ReachInWithin ==
  ASSUME NEW succ, NEW T \in SUBSET DOMAIN succ, NEW n \in DOMAIN succ
  PROVE  ReachIn(succ, T, n) \subseteq {n} \cup T
<1>1. {n} \cup T \in SUBSET DOMAIN succ /\ n \in {n} \cup T
  OBVIOUS
<1>2. ClosedIn(succ, T, {n} \cup T)
  BY DEF ClosedIn
<1>3. QED
  BY <1>1, <1>2, ReachInLeast

-----------------------------------------------------------------------------
\* Contraction

\* The edges of a contracted graph, spelled out.
LEMMA ContractedEdges ==
  ASSUME NEW succ, NEW L, NEW u \in L, NEW v
  PROVE  v \in Contracted(succ, L)[u] <=> v \in L /\ \E x \in Span(succ, L, u) : v \in succ[x]
BY DEF Contracted

\* What a span contains: its start, and beyond it only nodes that are not kept, all
\* of them reached, and with each node its successors that are not kept.
LEMMA SpanFacts ==
  ASSUME NEW D, NEW succ \in [D -> SUBSET D], NEW L \in SUBSET D, NEW u \in D
  PROVE  /\ u \in Span(succ, L, u)
         /\ Span(succ, L, u) \subseteq Reach(succ, u)
         /\ \A x \in Span(succ, L, u) : x \in D /\ (x = u \/ x \notin L)
         /\ \A x \in Span(succ, L, u) : \A y \in succ[x] : y \notin L => y \in Span(succ, L, u)
         /\ \A x \in Span(succ, L, u) : Span(succ, L, x) \subseteq Span(succ, L, u)
<1> DEFINE T == D \ L
<1>1. DOMAIN succ = D /\ T \in SUBSET D /\ Span(succ, L, u) = ReachIn(succ, T, u)
  BY DEF Span
<1>2. \A y : y \in T <=> y \in D /\ y \notin L
  OBVIOUS
<1>3. \A x : Span(succ, L, x) = ReachIn(succ, T, x)
  BY DEF Span
<1> HIDE DEF T
<1>4. u \in ReachIn(succ, T, u) /\ ReachIn(succ, T, u) \subseteq D
  BY <1>1, ReachInSelf, ReachInDomain
<1>5. ReachIn(succ, T, u) \subseteq Reach(succ, u)
  BY <1>1, ReachInMonotone DEF Reach
<1>6. ReachIn(succ, T, u) \subseteq {u} \cup T
  BY <1>1, ReachInWithin
<1>7. ASSUME NEW x \in ReachIn(succ, T, u), NEW y \in succ[x], y \notin L
      PROVE  y \in ReachIn(succ, T, u)
  <2>1. x \in D /\ y \in D
    BY <1>4, <1>7
  <2>2. y \in T
    BY <1>2, <1>7, <2>1
  <2>3. QED
    BY <1>1, <1>7, <2>1, <2>2, ReachInStep
<1>8. ASSUME NEW x \in ReachIn(succ, T, u)
      PROVE  ReachIn(succ, T, x) \subseteq ReachIn(succ, T, u)
  BY <1>1, <1>8, ReachInTransitive
<1>9. QED
  BY <1>1, <1>2, <1>3, <1>4, <1>5, <1>6, <1>7, <1>8

\* A set with u and the unkept successors of its members contains the span of u.
LEMMA SpanLeast ==
  ASSUME NEW D, NEW succ \in [D -> SUBSET D], NEW L \in SUBSET D, NEW S \in SUBSET D,
         NEW u \in S, \A x \in S : \A y \in succ[x] : y \notin L => y \in S
  PROVE  Span(succ, L, u) \subseteq S
<1>1. DOMAIN succ = D
  OBVIOUS
<1>2. ClosedIn(succ, D \ L, S)
  BY DEF ClosedIn
<1>3. QED
  BY <1>1, <1>2, ReachInLeast DEF Span

\* Nothing is contracted when every node is kept.
LEMMA ContractedAll ==
  ASSUME NEW D, NEW succ \in [D -> SUBSET D]
  PROVE  Contracted(succ, D) = succ
<1>1. ASSUME NEW u \in D PROVE Span(succ, D, u) = {u}
  BY SpanFacts
<1>2. ASSUME NEW u \in D PROVE Contracted(succ, D)[u] = succ[u]
  <2>1. \A v : v \in Contracted(succ, D)[u] <=> v \in D /\ \E x \in Span(succ, D, u) : v \in succ[x]
    BY ContractedEdges
  <2>2. \A v : v \in Contracted(succ, D)[u] <=> v \in succ[u]
    BY <1>1, <2>1
  <2>3. QED
    BY <2>2
<1>3. Contracted(succ, D) = [u \in D |-> Contracted(succ, D)[u]]
  BY DEF Contracted
<1>4. QED
  BY <1>2, <1>3

\* One more node b is dropped: its span becomes part of the spans that lead to b.
LEMMA SpanStep ==
  ASSUME NEW D, NEW succ \in [D -> SUBSET D], NEW L \in SUBSET D,
         NEW b \in L, NEW u \in L
  PROVE  /\ b \in Contracted(succ, L)[u] =>
              Span(succ, L \ {b}, u) = Span(succ, L, u) \cup Span(succ, L, b)
         /\ b \notin Contracted(succ, L)[u] => Span(succ, L \ {b}, u) = Span(succ, L, u)
<1> DEFINE K == L \ {b}
           W == IF b \in Contracted(succ, L)[u]
                THEN Span(succ, L, u) \cup Span(succ, L, b) ELSE Span(succ, L, u)
<1>1. K \in SUBSET D /\ u \in D /\ b \in D /\ \A x : x \in K <=> x \in L /\ x # b
  OBVIOUS
<1>2. b \in Contracted(succ, L)[u] <=> \E x \in Span(succ, L, u) : b \in succ[x]
  BY ContractedEdges
<1>3. u \in W /\ W \in SUBSET D
  BY <1>1, SpanFacts
<1>4. ASSUME NEW x \in W, NEW y \in succ[x], y \notin K PROVE y \in W
  <2>1. y \notin L \/ y = b
    BY <1>1, <1>4
  <2>2. b \in Span(succ, L, b)
    BY <1>1, SpanFacts
  <2>3. CASE x \in Span(succ, L, u)
    <3>1. CASE y \notin L
      BY <1>1, <1>4, <2>3, <3>1, SpanFacts
    <3>2. CASE y = b
      BY <1>2, <1>4, <2>2, <2>3, <3>2
    <3>3. QED
      BY <2>1, <3>1, <3>2
  <2>4. CASE b \in Contracted(succ, L)[u] /\ x \in Span(succ, L, b)
    <3>1. CASE y \notin L
      BY <1>1, <1>4, <2>4, <3>1, SpanFacts
    <3>2. CASE y = b
      BY <2>2, <2>4, <3>2
    <3>3. QED
      BY <2>1, <3>1, <3>2
  <2>5. QED
    BY <1>4, <2>3, <2>4
<1>5. Span(succ, K, u) \subseteq W
  <2> HIDE DEF W, K
  <2>1. QED
    BY <1>1, <1>3, <1>4, SpanLeast
<1>6. ASSUME NEW n \in D PROVE Span(succ, L, n) \subseteq Span(succ, K, n)
  <2>1. n \in Span(succ, K, n) /\ Span(succ, K, n) \in SUBSET D
    BY <1>1, SpanFacts
  <2>2. \A x \in Span(succ, K, n) : \A y \in succ[x] : y \notin L => y \in Span(succ, K, n)
    BY <1>1, SpanFacts
  <2> HIDE DEF K
  <2>3. QED
    BY <2>1, <2>2, SpanLeast
<1>7. W \subseteq Span(succ, K, u)
  <2>1. CASE b \in Contracted(succ, L)[u]
    <3>1. PICK x \in Span(succ, L, u) : b \in succ[x]
      BY <1>2, <2>1
    <3>2. x \in Span(succ, K, u) /\ b \notin K
      BY <1>1, <1>6, <3>1
    <3>3. b \in Span(succ, K, u)
      BY <1>1, <3>1, <3>2, SpanFacts
    <3>4. Span(succ, K, b) \subseteq Span(succ, K, u)
      BY <1>1, <3>3, SpanFacts
    <3>5. QED
      BY <1>1, <1>6, <2>1, <3>4
  <2>2. CASE b \notin Contracted(succ, L)[u]
    BY <1>1, <1>6, <2>2
  <2>3. QED
    BY <2>1, <2>2
<1>8. QED
  BY <1>5, <1>7

\* Dropping one more node b from a contracted graph links the predecessors of b to
\* its successors.
LEMMA ContractedStep ==
  ASSUME NEW D, NEW succ \in [D -> SUBSET D], NEW L \in SUBSET D,
         NEW b \in L, NEW u \in L, u # b
  PROVE  Contracted(succ, L \ {b})[u] =
           IF b \in Contracted(succ, L)[u]
           THEN (Contracted(succ, L)[u] \cup Contracted(succ, L)[b]) \ {b}
           ELSE Contracted(succ, L)[u]
<1> DEFINE K == L \ {b}
<1>0. u \in K /\ \A x : x \in K <=> x \in L /\ x # b
  OBVIOUS
<1>1. \A v : v \in Contracted(succ, K)[u] <=> v \in K /\ \E x \in Span(succ, K, u) : v \in succ[x]
  <2> HIDE DEF K
  <2>1. QED
    BY <1>0, ContractedEdges
<1>2. \A v : v \in Contracted(succ, L)[u] <=> v \in L /\ \E x \in Span(succ, L, u) : v \in succ[x]
  BY ContractedEdges
<1>3. \A v : v \in Contracted(succ, L)[b] <=> v \in L /\ \E x \in Span(succ, L, b) : v \in succ[x]
  BY ContractedEdges
<1>4. CASE b \in Contracted(succ, L)[u]
  <2>1. Span(succ, K, u) = Span(succ, L, u) \cup Span(succ, L, b)
    BY <1>4, SpanStep
  <2>2. \A v : v \in Contracted(succ, K)[u]
                 <=> v \in (Contracted(succ, L)[u] \cup Contracted(succ, L)[b]) \ {b}
    <3> HIDE DEF K
    <3>1. QED
      BY <1>0, <1>1, <1>2, <1>3, <2>1
  <2>3. QED
    BY <1>4, <2>2
<1>5. CASE b \notin Contracted(succ, L)[u]
  <2>1. Span(succ, K, u) = Span(succ, L, u)
    BY <1>5, SpanStep
  <2>2. \A v : v \in Contracted(succ, K)[u] <=> v \in Contracted(succ, L)[u]
    <3> HIDE DEF K
    <3>1. QED
      BY <1>0, <1>1, <1>2, <1>5, <2>1
  <2>3. QED
    BY <1>5, <2>2
<1>6. QED
  BY <1>4, <1>5

\* A node that is reached from another kept node is led to by a kept node other than
\* itself.
LEMMA ContractedPred ==
  ASSUME NEW D, NEW succ \in [D -> SUBSET D], NEW L \in SUBSET D,
         NEW e \in L, NEW b \in L, b # e, b \in Reach(succ, e)
  PROVE  \E u \in L : u # b /\ b \in Contracted(succ, L)[u]
<1> DEFINE S == {x \in D : \E u \in L : u # b /\ x \in Span(succ, L, u)}
<1>1. SUFFICES ASSUME \A u \in L : u # b => b \notin Contracted(succ, L)[u]
               PROVE  FALSE
  OBVIOUS
<1>2. e \in S /\ S \in SUBSET D
  BY SpanFacts
<1>3. b \notin S
  BY SpanFacts
<1>4. ASSUME NEW x \in S, NEW y \in succ[x] PROVE y \in S
  <2>1. PICK u \in L : u # b /\ x \in Span(succ, L, u)
    BY <1>4
  <2>2. x \in D /\ y \in D
    BY <1>4
  <2>3. CASE y \in L
    <3>1. y # b
      BY <1>1, <1>4, <2>1, <2>3, ContractedEdges
    <3>2. y \in Span(succ, L, y)
      BY <2>2, SpanFacts
    <3>3. QED
      BY <2>2, <2>3, <3>1, <3>2
  <2>4. CASE y \notin L
    <3>1. y \in Span(succ, L, u)
      BY <1>4, <2>1, <2>4, SpanFacts
    <3>2. QED
      BY <2>1, <2>2, <3>1
  <2>5. QED
    BY <2>3, <2>4
<1>5. Reach(succ, e) \subseteq S
  <2> HIDE DEF S
  <2>1. QED
    BY <1>2, <1>4, ReachLeast
<1>6. QED
  BY <1>3, <1>5

\* The successors in a contracted graph are kept nodes.
LEMMA ContractedType ==
  ASSUME NEW succ, NEW L
  PROVE  Contracted(succ, L) \in [L -> SUBSET L]
BY DEF Contracted

\* Contraction preserves which kept node reaches which.
LEMMA ContractedReach ==
  ASSUME NEW D, NEW succ \in [D -> SUBSET D], NEW L \in SUBSET D, NEW u \in L
  PROVE  Reach(Contracted(succ, L), u) = Reach(succ, u) \cap L
<1> DEFINE C == Contracted(succ, L)
           M == Reach(succ, u) \cap L
           S == {x \in D : \E w \in Reach(C, u) : x \in Span(succ, L, w)}
<1>1. C \in [L -> SUBSET L]
  BY ContractedType
<1>2. \A x \in L : \A v : v \in C[x] <=> v \in L /\ \E y \in Span(succ, L, x) : v \in succ[y]
  BY ContractedEdges
<1>3. u \in Reach(C, u) /\ Reach(C, u) \subseteq L
  <2> HIDE DEF C
  <2>1. QED
    BY <1>1, ReachFacts
<1>4. \A w \in Reach(C, u) : C[w] \subseteq Reach(C, u)
  <2> HIDE DEF C
  <2>1. QED
    BY <1>1, ReachFacts
<1> HIDE DEF C
<1>5. Reach(C, u) \subseteq M
  <2>1. u \in M /\ M \in SUBSET L
    BY ReachFacts
  <2>2. ASSUME NEW x \in M, NEW v \in C[x] PROVE v \in M
    <3>1. PICK y \in Span(succ, L, x) : v \in succ[y] /\ v \in L
      BY <1>2, <2>2
    <3>2. y \in Reach(succ, x)
      BY <2>2, SpanFacts
    <3>3. y \in Reach(succ, u)
      BY <2>2, <3>2, ReachFacts
    <3>4. QED
      BY <3>1, <3>3, ReachFacts
  <2> HIDE DEF M
  <2>3. QED
    BY <1>1, <2>1, <2>2, ReachLeast
<1>6. Reach(succ, u) \subseteq S
  <2>1. u \in S /\ S \in SUBSET D
    BY <1>3, SpanFacts
  <2>2. ASSUME NEW x \in S, NEW y \in succ[x] PROVE y \in S
    <3>1. PICK w \in Reach(C, u) : x \in Span(succ, L, w)
      BY <2>2
    <3>2. w \in L /\ w \in D /\ x \in D /\ y \in D
      BY <1>3, <2>2, <3>1
    <3>3. CASE y \in L
      <4>1. y \in C[w]
        BY <1>2, <2>2, <3>1, <3>2, <3>3
      <4>2. y \in Reach(C, u)
        BY <1>4, <3>1, <4>1
      <4>3. y \in Span(succ, L, y)
        BY <3>2, SpanFacts
      <4>4. QED
        BY <3>2, <4>2, <4>3
    <3>4. CASE y \notin L
      <4>1. y \in Span(succ, L, w)
        BY <2>2, <3>1, <3>2, <3>4, SpanFacts
      <4>2. QED
        BY <3>1, <3>2, <4>1
    <3>5. QED
      BY <3>3, <3>4
  <2> HIDE DEF S
  <2>3. QED
    BY <2>1, <2>2, ReachLeast
<1>7. M \subseteq Reach(C, u)
  <2>1. ASSUME NEW v \in M PROVE v \in Reach(C, u)
    <3>1. PICK w \in Reach(C, u) : v \in Span(succ, L, w)
      BY <1>6, <2>1
    <3>2. w \in D /\ v \in L
      BY <1>3, <2>1, <3>1
    <3>3. v = w
      BY <3>1, <3>2, SpanFacts
    <3>4. QED
      BY <3>1, <3>3
  <2>2. QED
    BY <2>1
<1>8. QED
  BY <1>5, <1>7 DEF C

\* Contraction preserves which kept nodes lie on a cycle.
LEMMA ContractedCycle ==
  ASSUME NEW D, NEW succ \in [D -> SUBSET D], NEW L \in SUBSET D, NEW u \in L
  PROVE  OnCycle(Contracted(succ, L), u) <=> OnCycle(succ, u)
<1> DEFINE C == Contracted(succ, L)
<1>1. \A v : v \in C[u] <=> v \in L /\ \E y \in Span(succ, L, u) : v \in succ[y]
  BY ContractedEdges
<1>2. \A m \in L : u \in Reach(C, m) <=> u \in Reach(succ, m)
  BY ContractedReach
<1>3. u \in D /\ u \in Span(succ, L, u) /\ Span(succ, L, u) \in SUBSET D
  BY SpanFacts
<1> HIDE DEF C
<1>4. ASSUME NEW m \in C[u], u \in Reach(C, m) PROVE OnCycle(succ, u)
  <2>1. PICK x \in Span(succ, L, u) : m \in succ[x] /\ m \in L
    BY <1>1, <1>4
  <2>2. u \in Reach(succ, m)
    BY <1>2, <1>4, <2>1
  <2>3. CASE x = u
    BY <2>1, <2>2, <2>3 DEF OnCycle
  <2>4. CASE x # u
    <3>1. x \in Reach(succ, u)
      BY <1>3, SpanFacts
    <3>2. PICK k \in succ[u] : x \in Reach(succ, k)
      BY <1>3, <2>4, <3>1, ReachFirst
    <3>3. k \in D
      BY <1>3
    <3>4. m \in Reach(succ, k)
      BY <2>1, <3>2, <3>3, ReachFacts
    <3>5. u \in Reach(succ, k)
      BY <2>2, <3>3, <3>4, ReachFacts
    <3>6. QED
      BY <3>2, <3>5 DEF OnCycle
  <2>5. QED
    BY <2>3, <2>4
<1>5. ASSUME NEW k \in succ[u], u \in Reach(succ, k) PROVE OnCycle(C, u)
  <2>1. SUFFICES ASSUME \A m \in C[u] : u \notin Reach(succ, m) PROVE FALSE
    BY <1>1, <1>2 DEF OnCycle
  <2> DEFINE S == {y \in D : y # u /\ y \in Span(succ, L, u)} \cup {y \in D : u \notin Reach(succ, y)}
  <2>2. k \in D /\ u \in Reach(succ, u)
    BY <1>3, ReachFacts
  <2>3. k \notin L
    BY <1>1, <1>3, <1>5, <2>1
  <2>4. k \in S /\ S \in SUBSET D
    BY <1>3, <2>2, <2>3, SpanFacts
  <2>5. ASSUME NEW x \in S, NEW y \in succ[x] PROVE y \in S
    <3>1. x \in D /\ y \in D
      BY <2>4, <2>5
    <3>2. CASE u \notin Reach(succ, x)
      <4>1. Reach(succ, y) \subseteq Reach(succ, x)
        BY <2>5, <3>1, ReachFacts
      <4>2. QED
        BY <3>1, <3>2, <4>1
    <3>3. CASE x # u /\ x \in Span(succ, L, u)
      <4>1. CASE y \in L
        <5>1. y \in C[u]
          BY <1>1, <2>5, <3>3, <4>1
        <5>2. QED
          BY <2>1, <3>1, <5>1
      <4>2. CASE y \notin L
        <5>1. y \in Span(succ, L, u)
          BY <1>3, <2>5, <3>3, <4>2, SpanFacts
        <5>2. QED
          BY <3>1, <4>2, <5>1
      <4>3. QED
        BY <4>1, <4>2
    <3>4. QED
      BY <2>5, <3>2, <3>3
  <2>6. u \notin S
    BY <2>2
  <2>7. Reach(succ, k) \subseteq S
    <3> HIDE DEF S
    <3>1. QED
      BY <2>4, <2>5, ReachLeast
  <2>8. QED
    BY <1>5, <2>6, <2>7
<1>6. OnCycle(C, u) <=> OnCycle(succ, u)
  BY <1>4, <1>5 DEF OnCycle
<1>7. QED
  BY <1>6 DEF C
=============================================================================
