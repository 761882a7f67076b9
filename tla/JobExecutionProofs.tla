------------------------ MODULE JobExecutionProofs --------------------------
(***************************************************************************)
(* Theorems about WorkflowGraph, for every finite graph, and about         *)
(* JobExecution, for every Workflow, any number of executions and keys,    *)
(* and any number of crashes and touches.                                  *)
(***************************************************************************)
EXTENDS JobExecution, FiniteSetTheorems, WellFoundedInduction, TLAPS

-----------------------------------------------------------------------------
(* Induction, over sets of numbers *)

LEMMA LeastNumber ==
  ASSUME NEW S \in SUBSET Nat, S # {}
  PROVE  \E n \in S : \A m \in S : n <= m
<1>1. PICK n \in S : \A m \in S : ~ (<<m, n>> \in OpToRel(<, Nat))
  BY WFMin, NatLessThanWellFounded
<1>2. \A m \in S : ~ (m < n)
  BY <1>1 DEF OpToRel
<1> QED
  BY <1>2

LEMMA NumbersFromZero ==
  ASSUME NEW S, 0 \in S, \A n \in Nat : n \in S => n + 1 \in S
  PROVE  \A n \in Nat : n \in S
<1> SUFFICES ASSUME Nat \ S # {} PROVE FALSE
  OBVIOUS
<1>1. PICK n \in Nat \ S : \A m \in Nat \ S : n <= m
  BY LeastNumber
<1>2. n - 1 \in Nat /\ ~ (n <= n - 1) /\ (n - 1) + 1 = n
  BY <1>1
<1> QED
  BY <1>1, <1>2

LEMMA LeastIsLeast ==
  ASSUME NEW S \in SUBSET Nat, S # {}
  PROVE  Least(S) \in S /\ \A m \in S : Least(S) <= m
  BY LeastNumber DEF Least

-----------------------------------------------------------------------------
(* The rounds *)

NextRound(arcs, s) == IF s.queue = {} THEN s ELSE KahnRound(arcs, s)

\* r is what topologicalOrder() has after each of its first n rounds.
Rounds(nodes, arcs, r, n) ==
  r = [i \in 0 .. n |-> IF i = 0 THEN KahnStart(nodes, arcs)
                        ELSE IF r[i - 1].queue = {} THEN r[i - 1]
                        ELSE KahnRound(arcs, r[i - 1])]

LEMMA RoundsExist ==
  ASSUME NEW nodes, NEW arcs
  PROVE  \A n \in Nat : \E r : Rounds(nodes, arcs, r, n)
<1> DEFINE S == {n \in Nat : \E r : Rounds(nodes, arcs, r, n)}
<1>1. 0 \in S
  <2> DEFINE r == [i \in 0 .. 0 |-> KahnStart(nodes, arcs)]
  <2>1. Rounds(nodes, arcs, r, 0)
    BY DEF Rounds
  <2> QED
    BY <2>1
<1>2. ASSUME NEW n \in Nat, n \in S PROVE n + 1 \in S
  <2>1. PICK r : Rounds(nodes, arcs, r, n)
    BY <1>2
  <2> DEFINE q == [i \in 0 .. n + 1 |-> IF i = n + 1 THEN NextRound(arcs, r[n]) ELSE r[i]]
  <2>2. \A i \in 0 .. n : q[i] = r[i]
    OBVIOUS
  <2>3. q[n + 1] = NextRound(arcs, q[n])
    OBVIOUS
  <2>4. \A i \in 0 .. n + 1 : q[i] = IF i = 0 THEN KahnStart(nodes, arcs)
                                     ELSE IF q[i - 1].queue = {} THEN q[i - 1]
                                     ELSE KahnRound(arcs, q[i - 1])
    <3> SUFFICES ASSUME NEW i \in 0 .. n + 1
                 PROVE  q[i] = IF i = 0 THEN KahnStart(nodes, arcs)
                               ELSE IF q[i - 1].queue = {} THEN q[i - 1]
                               ELSE KahnRound(arcs, q[i - 1])
      OBVIOUS
    <3>1. CASE i = n + 1
      <4>1. i # 0 /\ i - 1 = n
        BY <3>1
      <4>2. q[i] = NextRound(arcs, q[i - 1])
        BY <2>3, <3>1, <4>1
      <4> HIDE DEF q
      <4> QED
        BY <4>1, <4>2 DEF NextRound
    <3>2. CASE i \in 0 .. n
      <4>1. r[i] = IF i = 0 THEN KahnStart(nodes, arcs)
                   ELSE IF r[i - 1].queue = {} THEN r[i - 1]
                   ELSE KahnRound(arcs, r[i - 1])
        BY <2>1, <3>2 DEF Rounds
      <4>2. i = 0 \/ i - 1 \in 0 .. n
        BY <3>2
      <4> HIDE DEF q
      <4> QED
        BY <2>2, <3>2, <4>1, <4>2
    <3>3. i = n + 1 \/ i \in 0 .. n
      OBVIOUS
    <3> HIDE DEF q
    <3> QED
      BY <3>1, <3>2, <3>3
  <2>5. Rounds(nodes, arcs, q, n + 1)
    BY <2>4 DEF Rounds
  <2> QED
    BY <2>5
<1> HIDE DEF S
<1>3. \A n \in Nat : n \in S
  BY <1>1, <1>2, NumbersFromZero
<1> QED
  BY <1>3 DEF S

LEMMA OrderIsLastRound ==
  ASSUME NEW nodes, IsFiniteSet(nodes), NEW arcs
  PROVE  \E r : /\ Rounds(nodes, arcs, r, Cardinality(nodes))
                /\ TopologicalOrder(nodes, arcs) = r[Cardinality(nodes)].ordered
<1>1. Cardinality(nodes) \in Nat
  BY FS_CardinalityType
<1>2. \E r : Rounds(nodes, arcs, r, Cardinality(nodes))
  BY <1>1, RoundsExist
<1> QED
  BY <1>2, Zenon DEF Rounds, TopologicalOrder

-----------------------------------------------------------------------------
(* Kahn's algorithm *)

Listed(order, i) == {order[j] : j \in 1 .. i}

\* What could come next when the nodes of done are ordered.
Ready(nodes, arcs, done) == {n \in nodes \ done : Predecessors(n, arcs) \subseteq done}

\* After a round the queue holds what could come next, the degrees count the predecessors
\* that are not ordered, and every node was ordered as the least that could come next.
KahnInv(nodes, arcs, s) ==
  LET done == Listed(s.ordered, Len(s.ordered))
  IN /\ s.ordered \in Seq(nodes)
     /\ Cardinality(done) = Len(s.ordered)
     /\ DOMAIN s.degree = nodes
     /\ \A m \in nodes : s.degree[m] = Cardinality(Predecessors(m, arcs) \ done)
     /\ s.queue = Ready(nodes, arcs, done)
     /\ \A i \in 1 .. Len(s.ordered) :
          LET before == Listed(s.ordered, i - 1)
          IN s.ordered[i] = Least(Ready(nodes, arcs, before)) /\ s.ordered[i] \in Ready(nodes, arcs, before)

\* Every Workflow has finitely many nodes, and its edges are among them.
IsGraph(nodes, arcs) ==
  nodes \in SUBSET Nat /\ IsFiniteSet(nodes) /\ arcs \in SUBSET (nodes \X nodes)

LEMMA PredecessorsFinite ==
  ASSUME NEW nodes, NEW arcs, IsGraph(nodes, arcs), NEW n
  PROVE  Predecessors(n, arcs) \subseteq nodes /\ IsFiniteSet(Predecessors(n, arcs))
<1>1. \A edge \in arcs : edge[1] \in nodes
  BY DEF IsGraph
<1>2. Predecessors(n, arcs) \subseteq nodes
  BY <1>1 DEF Predecessors
<1> QED
  BY <1>2, FS_Subset DEF IsGraph

LEMMA PredecessorIsEdge ==
  ASSUME NEW nodes, NEW arcs, IsGraph(nodes, arcs), NEW m, NEW n
  PROVE  /\ m \in Predecessors(n, arcs) <=> <<m, n>> \in arcs
         /\ n \in Targets(m, arcs) <=> <<m, n>> \in arcs
<1>1. ASSUME <<m, n>> \in arcs
      PROVE  m \in {edge[1] : edge \in arcs} /\ n \in {edge[2] : edge \in arcs}
  <2>1. <<m, n>>[1] = m /\ <<m, n>>[2] = n
    OBVIOUS
  <2> QED
    BY <1>1, <2>1
<1> QED
  BY <1>1 DEF Predecessors, Targets

LEMMA KahnStarts ==
  ASSUME NEW nodes, NEW arcs, IsGraph(nodes, arcs)
  PROVE  KahnInv(nodes, arcs, KahnStart(nodes, arcs))
<1> DEFINE s == KahnStart(nodes, arcs)
<1>1. /\ s.ordered = <<>> /\ s.queue = {n \in nodes : Predecessors(n, arcs) = {}}
      /\ s.degree = [n \in nodes |-> Cardinality(Predecessors(n, arcs))]
  BY DEF KahnStart
<1>2. s.ordered \in Seq(nodes) /\ Len(s.ordered) = 0
  BY <1>1
<1> HIDE DEF s
<1>3. Listed(s.ordered, Len(s.ordered)) = {}
  BY <1>2 DEF Listed
<1>4. s.queue = Ready(nodes, arcs, {})
  BY <1>1 DEF Ready
<1>5. \A m \in nodes : s.degree[m] = Cardinality(Predecessors(m, arcs) \ {})
  BY <1>1
<1>6. DOMAIN s.degree = nodes /\ 1 .. Len(s.ordered) = {} /\ Cardinality({}) = Len(s.ordered)
  BY <1>1, <1>2, FS_EmptySet
<1> QED
  BY <1>2, <1>3, <1>4, <1>5, <1>6 DEF KahnInv, s

LEMMA KahnGoesOn ==
  ASSUME NEW nodes, NEW arcs, IsGraph(nodes, arcs),
         NEW s, KahnInv(nodes, arcs, s), s.queue # {}
  PROVE  /\ KahnInv(nodes, arcs, KahnRound(arcs, s))
         /\ Len(KahnRound(arcs, s).ordered) = Len(s.ordered) + 1
<1> DEFINE t == KahnRound(arcs, s)
           n == Least(s.queue)
           done == Listed(s.ordered, Len(s.ordered))
           degree == [m \in nodes |-> IF m \in Targets(n, arcs) THEN s.degree[m] - 1 ELSE s.degree[m]]
<1>1. /\ s.ordered \in Seq(nodes) /\ DOMAIN s.degree = nodes
      /\ s.queue = Ready(nodes, arcs, done) /\ Cardinality(done) = Len(s.ordered)
      /\ \A m \in nodes : s.degree[m] = Cardinality(Predecessors(m, arcs) \ done)
  BY DEF KahnInv
<1>2. /\ t.ordered = Append(s.ordered, n)
      /\ t.degree = degree
      /\ t.queue = (s.queue \ {n}) \cup {m \in Targets(n, arcs) : degree[m] = 0}
  BY <1>1 DEF KahnRound
<1>3. n \in s.queue
  <2>1. s.queue \in SUBSET Nat
    BY <1>1 DEF Ready, IsGraph
  <2> QED
    BY <2>1, LeastIsLeast
<1>4. n \in nodes /\ n \notin done /\ Predecessors(n, arcs) \subseteq done
  BY <1>1, <1>3 DEF Ready
<1> HIDE DEF t, n, done, degree
<1>5. /\ t.ordered \in Seq(nodes) /\ Len(t.ordered) = Len(s.ordered) + 1
      /\ \A i \in 1 .. Len(s.ordered) : t.ordered[i] = s.ordered[i]
      /\ t.ordered[Len(t.ordered)] = n
  BY <1>1, <1>2, <1>4
<1>6. Len(s.ordered) \in Nat
  BY <1>1
<1>7. Listed(t.ordered, Len(t.ordered)) = done \cup {n}
  <2>1. \A i \in 1 .. Len(t.ordered) : i \in 1 .. Len(s.ordered) \/ i = Len(t.ordered)
    BY <1>5, <1>6
  <2>2. \A i \in 1 .. Len(s.ordered) : i \in 1 .. Len(t.ordered)
    BY <1>5, <1>6
  <2>3. Len(t.ordered) \in 1 .. Len(t.ordered)
    BY <1>5, <1>6
  <2> QED
    BY <1>5, <2>1, <2>2, <2>3 DEF Listed, done
<1>8. done \subseteq nodes /\ IsFiniteSet(done)
  <2>1. done \subseteq nodes
    BY <1>1 DEF done, Listed
  <2> QED
    BY <2>1, FS_Subset DEF IsGraph
<1>9. Cardinality(done \cup {n}) = Len(t.ordered)
  <2>1. Cardinality(done \cup {n}) = Cardinality(done) + 1
    BY <1>4, <1>8, FS_AddElement
  <2> QED
    BY <1>1, <1>5, <2>1
<1>10. ASSUME NEW m \in nodes
       PROVE  degree[m] = Cardinality(Predecessors(m, arcs) \ (done \cup {n}))
  <2> DEFINE P == Predecessors(m, arcs) \ done
  <2>1. IsFiniteSet(P)
    BY PredecessorsFinite, FS_Difference
  <2>2. Predecessors(m, arcs) \ (done \cup {n}) = P \ {n}
    OBVIOUS
  <2>3. m \in Targets(n, arcs) <=> n \in P
    BY <1>4, PredecessorIsEdge
  <2>4. s.degree[m] = Cardinality(P)
    BY <1>1
  <2> HIDE DEF P
  <2>5. Cardinality(P \ {n}) = IF n \in P THEN Cardinality(P) - 1 ELSE Cardinality(P)
    BY <2>1, FS_RemoveElement
  <2> QED
    BY <2>2, <2>3, <2>4, <2>5 DEF degree
<1>11. t.queue = Ready(nodes, arcs, done \cup {n})
  <2>1. ASSUME NEW m \in nodes
        PROVE  degree[m] = 0 <=> Predecessors(m, arcs) \subseteq done \cup {n}
    <3>1. IsFiniteSet(Predecessors(m, arcs) \ (done \cup {n}))
      BY PredecessorsFinite, FS_Difference
    <3>2. degree[m] = 0 <=> Predecessors(m, arcs) \ (done \cup {n}) = {}
      BY <1>10, <3>1, FS_EmptySet
    <3>3. Predecessors(m, arcs) \ (done \cup {n}) = {} <=> Predecessors(m, arcs) \subseteq done \cup {n}
      OBVIOUS
    <3> QED
      BY <3>2, <3>3
  <2>2. ASSUME NEW m \in Targets(n, arcs) PROVE m \in nodes
    <3>1. <<n, m>> \in arcs
      BY <2>2, PredecessorIsEdge
    <3> QED
      BY <3>1 DEF IsGraph
  <2>3. ASSUME NEW m \in Targets(n, arcs) PROVE m \notin done
    <3>1. n \in Predecessors(m, arcs) /\ m \in nodes
      BY <2>2, <2>3, PredecessorIsEdge
    <3>2. SUFFICES ASSUME m \in done PROVE FALSE
      OBVIOUS
    <3>3. PICK i \in 1 .. Len(s.ordered) : s.ordered[i] = m
      BY <3>2 DEF done, Listed
    <3>4. Predecessors(m, arcs) \subseteq Listed(s.ordered, i - 1)
      BY <3>3 DEF KahnInv, Ready
    <3>5. Listed(s.ordered, i - 1) \subseteq done
      BY <1>6, <3>3 DEF Listed, done
    <3> QED
      BY <1>4, <3>1, <3>4, <3>5
  <2>4. ASSUME NEW m \in nodes \ (done \cup {n}), Predecessors(m, arcs) \subseteq done \cup {n},
               m \notin Targets(n, arcs)
        PROVE  Predecessors(m, arcs) \subseteq done
    BY <2>4, PredecessorIsEdge
  <2>5. n \notin Targets(n, arcs)
    BY <1>4, PredecessorIsEdge
  <2> QED
    BY <1>1, <1>2, <2>1, <2>2, <2>3, <2>4, <2>5 DEF Ready
<1>12. ASSUME NEW i \in 1 .. Len(t.ordered)
       PROVE  /\ t.ordered[i] = Least(Ready(nodes, arcs, Listed(t.ordered, i - 1)))
              /\ t.ordered[i] \in Ready(nodes, arcs, Listed(t.ordered, i - 1))
  <2>1. i - 1 \in 0 .. Len(s.ordered) /\ (i \in 1 .. Len(s.ordered) \/ i = Len(s.ordered) + 1)
    BY <1>5, <1>6
  <2>2. Listed(t.ordered, i - 1) = Listed(s.ordered, i - 1)
    <3>1. \A j \in 1 .. i - 1 : j \in 1 .. Len(s.ordered)
      BY <1>6, <2>1
    <3> QED
      BY <1>5, <3>1 DEF Listed
  <2>3. CASE i \in 1 .. Len(s.ordered)
    <3>1. /\ s.ordered[i] = Least(Ready(nodes, arcs, Listed(s.ordered, i - 1)))
          /\ s.ordered[i] \in Ready(nodes, arcs, Listed(s.ordered, i - 1))
      BY <2>3 DEF KahnInv
    <3> QED
      BY <1>5, <2>2, <2>3, <3>1
  <2>4. CASE i = Len(s.ordered) + 1
    <3>1. Listed(s.ordered, i - 1) = done
      BY <1>6, <2>4 DEF done
    <3> QED
      BY <1>1, <1>3, <1>5, <2>2, <2>4, <3>1 DEF n
  <2> QED
    BY <2>1, <2>3, <2>4
<1>13. DOMAIN t.degree = nodes
  BY <1>2 DEF degree
<1> QED
  BY <1>2, <1>5, <1>7, <1>9, <1>10, <1>11, <1>12, <1>13 DEF KahnInv, t

\* After n rounds n nodes are ordered, or none is left that could be.
LEMMA KahnEnds ==
  ASSUME NEW nodes, NEW arcs, IsGraph(nodes, arcs),
         NEW ordering, ordering = TopologicalOrder(nodes, arcs)
  PROVE  /\ ordering \in Seq(nodes)
         /\ Cardinality(Listed(ordering, Len(ordering))) = Len(ordering)
         /\ Len(ordering) <= Cardinality(nodes)
         /\ Len(ordering) # Cardinality(nodes) => Ready(nodes, arcs, Listed(ordering, Len(ordering))) = {}
         /\ \A i \in 1 .. Len(ordering) :
              /\ ordering[i] = Least(Ready(nodes, arcs, Listed(ordering, i - 1)))
              /\ ordering[i] \in Ready(nodes, arcs, Listed(ordering, i - 1))
<1>1. Cardinality(nodes) \in Nat
  BY FS_CardinalityType DEF IsGraph
<1>2. PICK r : /\ Rounds(nodes, arcs, r, Cardinality(nodes))
               /\ ordering = r[Cardinality(nodes)].ordered
  BY OrderIsLastRound DEF IsGraph
<1> DEFINE N == Cardinality(nodes)
           Good(i) == /\ KahnInv(nodes, arcs, r[i])
                      /\ Len(r[i].ordered) = i \/ (Len(r[i].ordered) < i /\ r[i].queue = {})
           S == {i \in Nat : i <= N => Good(i)}
<1>3. 0 \in S
  <2>1. r[0] = KahnStart(nodes, arcs)
    BY <1>1, <1>2 DEF Rounds
  <2>2. r[0].ordered = <<>>
    BY <2>1 DEF KahnStart
  <2>3. KahnInv(nodes, arcs, r[0]) /\ Len(r[0].ordered) = 0
    BY <2>1, <2>2, KahnStarts
  <2> QED
    BY <2>3
<1>4. ASSUME NEW i \in Nat, i \in S PROVE i + 1 \in S
  <2> SUFFICES ASSUME i + 1 <= N PROVE Good(i + 1)
    OBVIOUS
  <2>1. KahnInv(nodes, arcs, r[i])
        /\ (Len(r[i].ordered) = i \/ (Len(r[i].ordered) < i /\ r[i].queue = {}))
    BY <1>1, <1>4
  <2>2. r[i + 1] = IF r[i].queue = {} THEN r[i] ELSE KahnRound(arcs, r[i])
    <3>1. i + 1 \in 0 .. N /\ i + 1 # 0 /\ (i + 1) - 1 = i
      BY <1>1
    <3> QED
      BY <1>2, <3>1 DEF Rounds
  <2>3. Len(r[i].ordered) \in Nat
    BY <2>1 DEF KahnInv
  <2>4. CASE r[i].queue = {}
    BY <2>1, <2>2, <2>3, <2>4
  <2>5. CASE r[i].queue # {}
    BY <2>1, <2>2, <2>5, KahnGoesOn
  <2> QED
    BY <2>4, <2>5
<1> HIDE DEF S
<1>5. \A i \in Nat : i \in S
  BY <1>3, <1>4, NumbersFromZero
<1>6. Good(N)
  BY <1>1, <1>5 DEF S
<1> HIDE DEF Good
<1>7. /\ KahnInv(nodes, arcs, r[N])
      /\ Len(r[N].ordered) = N \/ (Len(r[N].ordered) < N /\ r[N].queue = {})
  BY <1>6 DEF Good
<1>8. Len(r[N].ordered) \in Nat
  BY <1>7 DEF KahnInv
<1> QED
  BY <1>1, <1>2, <1>7, <1>8 DEF KahnInv

\* topologicalOrder() lists a graph that detectCycle() lets pass completely, every node
\* once and behind its predecessors, and always the least id first.
THEOREM OrderIsStable ==
  ASSUME NEW nodes, NEW arcs, IsGraph(nodes, arcs), ~ DetectCycle(nodes, arcs)
  PROVE  /\ IsStableOrder(TopologicalOrder(nodes, arcs), nodes, arcs)
         /\ Listed(TopologicalOrder(nodes, arcs), Cardinality(nodes)) = nodes
<1> DEFINE ordering == TopologicalOrder(nodes, arcs)
<1> HIDE DEF ordering
<1>1. /\ ordering \in Seq(nodes) /\ Len(ordering) = Cardinality(nodes)
      /\ Cardinality(Listed(ordering, Len(ordering))) = Len(ordering)
      /\ \A i \in 1 .. Len(ordering) :
           ordering[i] = Least(Ready(nodes, arcs, Listed(ordering, i - 1)))
  BY KahnEnds DEF DetectCycle, ordering
<1>2. IsStableOrder(ordering, nodes, arcs)
  <2>1. DOMAIN ordering = 1 .. Len(ordering)
    BY <1>1
  <2>2. ASSUME NEW i \in 1 .. Len(ordering)
        PROVE  ordering[i] = Least({n \in nodes \ {ordering[j] : j \in 1 .. (i - 1)} :
                                  Predecessors(n, arcs) \subseteq {ordering[j] : j \in 1 .. (i - 1)}})
    BY <1>1 DEF Ready, Listed
  <2> QED
    BY <1>1, <2>1, <2>2 DEF IsStableOrder
<1>3. Listed(ordering, Cardinality(nodes)) \in SUBSET nodes
  BY <1>1 DEF Listed
<1>4. Listed(ordering, Cardinality(nodes)) = nodes
  BY <1>1, <1>3, FS_Subset DEF IsGraph
<1> QED
  BY <1>2, <1>4 DEF ordering

\* detectCycle() finds a cycle exactly when there is one.
THEOREM CycleIsDetected ==
  ASSUME NEW nodes, NEW arcs, IsGraph(nodes, arcs)
  PROVE  DetectCycle(nodes, arcs) <=> ~ Acyclic(nodes, arcs)
<1> DEFINE ordering == TopologicalOrder(nodes, arcs)
           done == Listed(ordering, Len(ordering))
<1> HIDE DEF ordering
<1>1. /\ ordering \in Seq(nodes)
      /\ Cardinality(done) = Len(ordering)
      /\ Len(ordering) # Cardinality(nodes) => Ready(nodes, arcs, done) = {}
      /\ \A i \in 1 .. Len(ordering) : ordering[i] \in Ready(nodes, arcs, Listed(ordering, i - 1))
  BY KahnEnds DEF ordering
<1>2. done \subseteq nodes
  <2>1. \A i \in 1 .. Len(ordering) : ordering[i] \in nodes
    BY <1>1
  <2> QED
    BY <2>1 DEF Listed
<1>3. ASSUME ~ DetectCycle(nodes, arcs) PROVE Acyclic(nodes, arcs)
  <2>1. done = nodes
    BY <1>3, OrderIsStable DEF DetectCycle, ordering
  <2> HIDE DEF done
  <2> SUFFICES ASSUME NEW S \in (SUBSET nodes) \ {{}}
               PROVE  \E n \in S : Predecessors(n, arcs) \cap S = {}
    BY DEF Acyclic
  <2> DEFINE I == {i \in 1 .. Len(ordering) : ordering[i] \in S}
  <2>2. I \in SUBSET Nat /\ I # {}
    <3>0. S # {} /\ S \subseteq nodes
      OBVIOUS
    <3>1. PICK n \in S : n \in nodes
      BY <3>0
    <3>2. PICK i \in 1 .. Len(ordering) : ordering[i] = n
      BY <2>1, <3>1 DEF done, Listed
    <3>3. 1 .. Len(ordering) \subseteq Nat
      OBVIOUS
    <3> QED
      BY <3>2, <3>3
  <2> HIDE DEF I
  <2>3. PICK i \in I : \A j \in I : i <= j
    BY <2>2, LeastNumber
  <2>4. i \in 1 .. Len(ordering) /\ ordering[i] \in S /\ Predecessors(ordering[i], arcs) \subseteq Listed(ordering, i - 1)
    BY <1>1, <2>3 DEF I, Ready
  <2>5. ASSUME NEW j \in 1 .. i - 1 PROVE ordering[j] \notin S
    <3>1. j \in 1 .. Len(ordering) /\ ~ (i <= j)
      BY <1>1, <2>4
    <3> QED
      BY <2>3, <3>1 DEF I
  <2>6. Listed(ordering, i - 1) \cap S = {}
    BY <2>5 DEF Listed
  <2> QED
    BY <2>4, <2>6
<1>4. ASSUME DetectCycle(nodes, arcs), Acyclic(nodes, arcs) PROVE FALSE
  <2>1. Len(ordering) # Cardinality(nodes) /\ Ready(nodes, arcs, done) = {}
    BY <1>1, <1>4 DEF DetectCycle, ordering
  <2> HIDE DEF done
  <2>2. nodes \ done # {}
    <3>1. done # nodes
      BY <1>1, <2>1
    <3> QED
      BY <1>2, <3>1
  <2>3. PICK n \in nodes \ done : Predecessors(n, arcs) \cap (nodes \ done) = {}
    BY <1>4, <2>2 DEF Acyclic
  <2>4. Predecessors(n, arcs) \subseteq nodes
    BY PredecessorsFinite
  <2> QED
    BY <2>1, <2>3, <2>4 DEF Ready
<1> QED
  BY <1>3, <1>4

-----------------------------------------------------------------------------
(* The search of findDisconnectedNodes() *)

Widened(arcs, S) == S \cup UNION {Predecessors(n, arcs) \cup Targets(n, arcs) : n \in S}

\* v is what the search has visited after each of its first n steps.
Search(nodes, arcs, v, n) ==
  v = [i \in 0 .. n |-> IF i = 0 THEN {Least(nodes)} ELSE Widened(arcs, v[i - 1])]

LEMMA SearchExists ==
  ASSUME NEW nodes, NEW arcs
  PROVE  \A n \in Nat : \E v : Search(nodes, arcs, v, n)
<1> DEFINE S == {n \in Nat : \E v : Search(nodes, arcs, v, n)}
<1>1. 0 \in S
  <2> DEFINE v == [i \in 0 .. 0 |-> {Least(nodes)}]
  <2>1. Search(nodes, arcs, v, 0)
    BY DEF Search
  <2> QED
    BY <2>1
<1>2. ASSUME NEW n \in Nat, n \in S PROVE n + 1 \in S
  <2>1. PICK v : Search(nodes, arcs, v, n)
    BY <1>2
  <2> DEFINE q == [i \in 0 .. n + 1 |-> IF i = n + 1 THEN Widened(arcs, v[n]) ELSE v[i]]
  <2>2. \A i \in 0 .. n : q[i] = v[i]
    OBVIOUS
  <2>3. q[n + 1] = Widened(arcs, q[n])
    OBVIOUS
  <2>4. \A i \in 0 .. n + 1 : q[i] = IF i = 0 THEN {Least(nodes)} ELSE Widened(arcs, q[i - 1])
    <3> SUFFICES ASSUME NEW i \in 0 .. n + 1
                 PROVE  q[i] = IF i = 0 THEN {Least(nodes)} ELSE Widened(arcs, q[i - 1])
      OBVIOUS
    <3>1. CASE i = n + 1
      BY <2>3, <3>1
    <3>2. CASE i \in 0 .. n
      <4>1. v[i] = IF i = 0 THEN {Least(nodes)} ELSE Widened(arcs, v[i - 1])
        BY <2>1, <3>2 DEF Search
      <4>2. i = 0 \/ i - 1 \in 0 .. n
        BY <3>2
      <4> HIDE DEF q
      <4> QED
        BY <2>2, <3>2, <4>1, <4>2
    <3>3. i = n + 1 \/ i \in 0 .. n
      OBVIOUS
    <3> HIDE DEF q
    <3> QED
      BY <3>1, <3>2, <3>3
  <2>5. Search(nodes, arcs, q, n + 1)
    BY <2>4 DEF Search
  <2> QED
    BY <2>5
<1> HIDE DEF S
<1>3. \A n \in Nat : n \in S
  BY <1>1, <1>2, NumbersFromZero
<1> QED
  BY <1>3 DEF S

LEMMA UnvisitedIsDisconnected ==
  ASSUME NEW nodes, IsFiniteSet(nodes), NEW arcs
  PROVE  \E v : /\ Search(nodes, arcs, v, Cardinality(nodes))
                /\ DisconnectedNodes(nodes, arcs) = nodes \ v[Cardinality(nodes)]
<1>1. Cardinality(nodes) \in Nat
  BY FS_CardinalityType
<1>2. \E v : Search(nodes, arcs, v, Cardinality(nodes))
  BY <1>1, SearchExists
<1> QED
  BY <1>2, Zenon DEF Search, Widened, DisconnectedNodes

\* A step of the search stays in the graph and keeps what it visited.
LEMMA WidenedInNodes ==
  ASSUME NEW nodes, NEW arcs, arcs \in SUBSET (nodes \X nodes), NEW S, S \subseteq nodes
  PROVE  S \subseteq Widened(arcs, S) /\ Widened(arcs, S) \subseteq nodes
<1>1. ASSUME NEW n PROVE Predecessors(n, arcs) \subseteq nodes /\ Targets(n, arcs) \subseteq nodes
  BY DEF Predecessors, Targets
<1> QED
  BY <1>1 DEF Widened

\* What an edge joins to a visited node is visited in the next step.
LEMMA WidenedAlongEdges ==
  ASSUME NEW arcs, NEW S, NEW edge \in arcs, edge = <<edge[1], edge[2]>>,
         edge[1] \in S \/ edge[2] \in S
  PROVE  edge[1] \in Widened(arcs, S) /\ edge[2] \in Widened(arcs, S)
<1>1. edge[1] \in Predecessors(edge[2], arcs) /\ edge[2] \in Targets(edge[1], arcs)
  BY DEF Predecessors, Targets
<1> QED
  BY <1>1 DEF Widened

\* And nothing else is: the search does not leave a part that no edge leaves.
LEMMA WidenedStaysInside ==
  ASSUME NEW arcs, NEW S, NEW P, S \subseteq P,
         \A edge \in arcs : (edge[1] \in P) <=> (edge[2] \in P)
  PROVE  Widened(arcs, S) \subseteq P
<1>1. ASSUME NEW n \in S PROVE Predecessors(n, arcs) \subseteq P /\ Targets(n, arcs) \subseteq P
  <2>1. ASSUME NEW m \in Predecessors(n, arcs) PROVE m \in P
    <3>1. <<m, n>> \in arcs /\ n \in P
      BY <2>1 DEF Predecessors
    <3> QED
      BY <3>1
  <2>2. ASSUME NEW m \in Targets(n, arcs) PROVE m \in P
    <3>1. <<n, m>> \in arcs /\ n \in P
      BY <2>2 DEF Targets
    <3> QED
      BY <3>1
  <2> QED
    BY <2>1, <2>2
<1> QED
  BY <1>1 DEF Widened

\* While the search finds something it visits one more node in every step.
LEMMA SearchGoesOn ==
  ASSUME NEW nodes, NEW arcs, IsGraph(nodes, arcs), nodes # {}
  PROVE  \A n \in Nat : \A v : Search(nodes, arcs, v, n) =>
           \A i \in 0 .. n : /\ v[i] \subseteq nodes /\ Least(nodes) \in v[i]
                             /\ (Cardinality(v[i]) > i \/ Widened(arcs, v[i]) = v[i])
<1> SUFFICES ASSUME NEW n \in Nat, NEW v, Search(nodes, arcs, v, n)
             PROVE  \A i \in 0 .. n : /\ v[i] \subseteq nodes /\ Least(nodes) \in v[i]
                                      /\ (Cardinality(v[i]) > i \/ Widened(arcs, v[i]) = v[i])
  OBVIOUS
<1> DEFINE Good(i) == /\ v[i] \subseteq nodes /\ Least(nodes) \in v[i]
                      /\ (Cardinality(v[i]) > i \/ Widened(arcs, v[i]) = v[i])
           S == {i \in Nat : i \in 0 .. n => Good(i)}
<1>1. 0 \in S
  <2>1. v[0] = {Least(nodes)} /\ Least(nodes) \in nodes
    BY LeastIsLeast DEF Search, IsGraph
  <2>2. Cardinality(v[0]) = 1
    BY <2>1, FS_Singleton
  <2> QED
    BY <2>1, <2>2
<1>2. ASSUME NEW i \in Nat, i \in S PROVE i + 1 \in S
  <2> SUFFICES ASSUME i + 1 \in 0 .. n PROVE Good(i + 1)
    OBVIOUS
  <2>1. i \in 0 .. n /\ Good(i)
    BY <1>2
  <2>2. v[i + 1] = Widened(arcs, v[i])
    <3>1. i + 1 # 0 /\ (i + 1) - 1 = i
      OBVIOUS
    <3> QED
      BY <3>1, Zenon DEF Search
  <2>3. v[i] \subseteq v[i + 1] /\ v[i + 1] \subseteq nodes
    BY <2>1, <2>2, WidenedInNodes DEF IsGraph
  <2>4. CASE Widened(arcs, v[i]) = v[i]
    BY <2>1, <2>2, <2>3, <2>4
  <2>5. CASE Widened(arcs, v[i]) # v[i]
    <3>1. Cardinality(v[i]) > i /\ IsFiniteSet(v[i + 1])
      BY <2>1, <2>3, <2>5, FS_Subset DEF IsGraph
    <3>2. Cardinality(v[i]) < Cardinality(v[i + 1])
      BY <2>2, <2>3, <2>5, <3>1, FS_Subset, FS_CardinalityType
    <3>3. Cardinality(v[i]) \in Nat /\ Cardinality(v[i + 1]) \in Nat
      BY <2>3, <3>1, FS_Subset, FS_CardinalityType
    <3>4. Cardinality(v[i + 1]) > i + 1
      BY <3>1, <3>2, <3>3
    <3> QED
      BY <2>1, <2>3, <3>4
  <2> QED
    BY <2>4, <2>5
<1> HIDE DEF S
<1>3. \A i \in Nat : i \in S
  BY <1>1, <1>2, NumbersFromZero
<1> QED
  BY <1>3 DEF S

\* findDisconnectedNodes() finds nothing exactly when no part of the graph is cut off from
\* the rest.
THEOREM SearchIsComplete ==
  ASSUME NEW nodes, NEW arcs, IsGraph(nodes, arcs), nodes # {}
  PROVE  DisconnectedNodes(nodes, arcs) = {} <=> Connected(nodes, arcs)
<1> DEFINE N == Cardinality(nodes)
<1>1. PICK v : /\ Search(nodes, arcs, v, N)
               /\ DisconnectedNodes(nodes, arcs) = nodes \ v[N]
  BY UnvisitedIsDisconnected DEF IsGraph
<1>2. N \in Nat
  BY FS_CardinalityType DEF IsGraph
<1> HIDE DEF N
<1>3. /\ v[N] \subseteq nodes /\ Least(nodes) \in v[N]
      /\ (Cardinality(v[N]) > N \/ Widened(arcs, v[N]) = v[N])
  BY <1>1, <1>2, SearchGoesOn
<1>4. Least(nodes) \in nodes
  BY LeastIsLeast DEF IsGraph
<1>5. \A edge \in arcs : edge = <<edge[1], edge[2]>> /\ edge[1] \in nodes /\ edge[2] \in nodes
  BY DEF IsGraph
<1>6. ASSUME Connected(nodes, arcs) PROVE nodes \subseteq v[N]
  <2> SUFFICES ASSUME v[N] # nodes PROVE FALSE
    OBVIOUS
  <2>1. Cardinality(v[N]) <= N /\ Cardinality(v[N]) \in Nat
    BY <1>3, FS_Subset, FS_CardinalityType DEF IsGraph, N
  <2>2. Widened(arcs, v[N]) = v[N]
    BY <1>2, <1>3, <2>1
  <2>3. v[N] \in (SUBSET nodes) \ {{}, nodes}
    BY <1>3
  <2>4. PICK edge \in arcs : (edge[1] \in v[N]) # (edge[2] \in v[N])
    BY <1>6, <2>3 DEF Connected
  <2>5. edge[1] \in v[N] \/ edge[2] \in v[N]
    BY <2>4
  <2>6. edge[1] \in v[N] /\ edge[2] \in v[N]
    BY <1>5, <2>2, <2>5, WidenedAlongEdges
  <2> QED
    BY <2>4, <2>6
<1>7. ASSUME nodes \subseteq v[N] PROVE Connected(nodes, arcs)
  <2> SUFFICES ASSUME NEW S \in (SUBSET nodes) \ {{}, nodes},
                      \A edge \in arcs : (edge[1] \in S) = (edge[2] \in S)
               PROVE  FALSE
    BY DEF Connected
  <2>1. PICK P \in SUBSET nodes : /\ Least(nodes) \in P /\ P # nodes
                                  /\ \A edge \in arcs : (edge[1] \in P) <=> (edge[2] \in P)
    <3>1. S # {} /\ S # nodes /\ S \subseteq nodes
      OBVIOUS
    <3>2. CASE Least(nodes) \in S
      BY <3>1, <3>2
    <3>3. CASE Least(nodes) \notin S
      <4> DEFINE P == nodes \ S
      <4>1. P # nodes /\ Least(nodes) \in P
        BY <1>4, <3>1, <3>3
      <4>2. \A edge \in arcs : (edge[1] \in P) <=> (edge[2] \in P)
        BY <1>5
      <4> QED
        BY <4>1, <4>2
    <3> QED
      BY <3>2, <3>3
  <2> DEFINE I == {i \in Nat : i \in 0 .. N => v[i] \subseteq P}
  <2>2. 0 \in I
    <3>1. v[0] = {Least(nodes)}
      BY <1>1, <1>2 DEF Search
    <3> QED
      BY <2>1, <3>1
  <2>3. ASSUME NEW i \in Nat, i \in I PROVE i + 1 \in I
    <3> SUFFICES ASSUME i + 1 \in 0 .. N PROVE v[i + 1] \subseteq P
      OBVIOUS
    <3>1. v[i] \subseteq P
      BY <1>2, <2>3
    <3>2. v[i + 1] = Widened(arcs, v[i])
      <4>1. i + 1 # 0 /\ (i + 1) - 1 = i
        OBVIOUS
      <4> QED
        BY <1>1, <4>1, Zenon DEF Search
    <3> QED
      BY <2>1, <3>1, <3>2, WidenedStaysInside
  <2> HIDE DEF I
  <2>4. N \in I
    BY <1>2, <2>2, <2>3, NumbersFromZero
  <2>5. v[N] \subseteq P
    BY <1>2, <2>4 DEF I
  <2> QED
    BY <1>7, <2>1, <2>5
<1> QED
  BY <1>1, <1>3, <1>6, <1>7

\* A Workflow passes validateWorkflow() exactly when its graph has no cycle and no part cut off.
THEOREM ValidationIsExact ==
  ASSUME NEW nodes, NEW arcs, IsGraph(nodes, arcs), nodes # {}
  PROVE  ValidateWorkflow(nodes, arcs) <=> (Acyclic(nodes, arcs) /\ Connected(nodes, arcs))
  BY CycleIsDetected, SearchIsComplete DEF ValidateWorkflow

-----------------------------------------------------------------------------
(* JobExecution *)

USE NodesAssumption, RoleAssumption, NothingAssumption

-----------------------------------------------------------------------------
(* The inductive invariant *)

Execs == [state : States, key : Keys \cup {Nothing}, at : Nat,
          outputs : UNION {[D -> Envelopes] : D \in SUBSET Nodes}, aborted : BOOLEAN]

Bodies == [pc : Steps, node : Nodes \cup {Nothing}, input : Envelopes,
           answer : {"no", "written", "receipt", "in_progress"}, key : Keys \cup {Nothing}]

Typed ==
  /\ execs \in [Executions -> Execs]
  /\ bodies \in [Executions -> Bodies]
  /\ active \in SUBSET Fingerprints /\ receipts \in SUBSET Fingerprints
  /\ locks \in [Producers -> Executions \cup {Nothing}]
  /\ files \in [Producers -> Fingerprints \cup {Nothing}]
  /\ inputs \in Versions
  /\ touches \in 0 .. MaxTouches /\ crashed \in BOOLEAN

\* The edges are among the nodes; the plan of an accepted Workflow lists each of them once.
Ordered ==
  /\ edges \in SUBSET (Nodes \X Nodes)
  /\ verdict \in {"unchecked", "accepted", "rejected"}
  /\ plan \in Seq(Nodes) /\ Len(plan) <= Cardinality(Nodes)
  /\ verdict = "accepted" => Listed(plan, Len(plan)) = Nodes

\* Where an execution is, what it has put out, and which body it waits for.
AtNode(e) ==
  /\ execs[e].state = "idle" => execs[e].at = 0
  /\ execs[e].state # "idle" => verdict = "accepted" /\ execs[e].key \in Keys /\ execs[e].at > 0
  /\ execs[e].at <= Len(plan) + 1
  /\ DOMAIN execs[e].outputs = Listed(plan, execs[e].at - 1)
  /\ execs[e].state \in {"idle", "next"} => bodies[e].pc = "none"
  /\ execs[e].state = "node" =>
       /\ execs[e].at <= Len(plan)
       /\ bodies[e].pc # "none"
       /\ bodies[e].node = plan[execs[e].at] /\ bodies[e].key = execs[e].key

\* A body that is to produce a file: what it has claimed, what it has locked, and what it saw.
Locking == {"verify", "rename", "unlock", "unlock_failed"}

AtWork(e) ==
  /\ bodies[e].pc # "none" => bodies[e].node \in Nodes /\ bodies[e].key \in Keys
  /\ Holding(e) => bodies[e].node \in Producers /\ Fingerprint(bodies[e]) \in active
  /\ bodies[e].pc \in Locking \cup {"lock"} => Role[bodies[e].node] = "write"
  /\ bodies[e].pc = "combine" => Role[bodies[e].node] = "combine"
  /\ bodies[e].pc \in Locking => locks[bodies[e].node] = e
  /\ bodies[e].pc = "rename" => files[bodies[e].node] = Nothing
  /\ bodies[e].pc = "returned" /\ bodies[e].node \in Producers =>
       bodies[e].answer = "in_progress" \/ Fingerprint(bodies[e]) \in receipts

\* A claim is one body's, and not of something that has its receipt.
Claimed ==
  /\ active \cap receipts = {}
  /\ \A e, o \in Executions :
       Holding(e) /\ Holding(o) /\ Fingerprint(bodies[e]) = Fingerprint(bodies[o]) => e = o
  /\ \A print \in active : \E e \in Executions : Holding(e) /\ Fingerprint(bodies[e]) = print

\* What an execution has put out has its receipt, or was in another body's hands.
Receipted ==
  \A e \in Executions : \A n \in Producers \cap DOMAIN execs[e].outputs :
    \/ execs[e].outputs[n].produced = "in_progress"
    \/ [key |-> execs[e].key, node |-> n, hashes |-> execs[e].outputs[n].hashes] \in receipts

\* An execution succeeds behind its last node.
PastTheEnd == \A e \in Executions : execs[e].state = "succeeded" => execs[e].at = Len(plan) + 1

IInv ==
  /\ Typed
  /\ Ordered
  /\ \A e \in Executions : AtNode(e) /\ AtWork(e)
  /\ Claimed
  /\ LockHasOwner
  /\ Receipted
  /\ PastTheEnd

-----------------------------------------------------------------------------
(* Validation and order *)

\* Validation accepts exactly the runnable Workflows, and their order is the stable one.
LEMMA ValidateIsExact ==
  ASSUME Ordered, Validate
  PROVE  /\ (verdict' = "accepted") <=> (Acyclic(Nodes, edges) /\ Connected(Nodes, edges))
         /\ verdict' = "accepted" => IsStableOrder(plan', Nodes, edges)
         /\ Ordered'
<1>1. IsGraph(Nodes, edges) /\ edges' = edges
  BY DEF Ordered, IsGraph, Validate, world, disk
<1>2. /\ verdict' = IF ValidateWorkflow(Nodes, edges) THEN "accepted" ELSE "rejected"
      /\ plan' = TopologicalOrder(Nodes, edges)
  BY DEF Validate
<1>3. plan' \in Seq(Nodes) /\ Len(plan') <= Cardinality(Nodes)
  BY <1>1, <1>2, KahnEnds
<1>4. ASSUME verdict' = "accepted"
      PROVE  IsStableOrder(plan', Nodes, edges) /\ Listed(plan', Len(plan')) = Nodes
  <2>1. ~ DetectCycle(Nodes, edges)
    BY <1>2, <1>4 DEF ValidateWorkflow
  <2>2. Len(plan') = Cardinality(Nodes)
    BY <1>2, <2>1 DEF DetectCycle
  <2> QED
    BY <1>1, <1>2, <2>1, <2>2, OrderIsStable
<1>5. (verdict' = "accepted") <=> ValidateWorkflow(Nodes, edges)
  BY <1>2
<1>6. (verdict' = "accepted") <=> (Acyclic(Nodes, edges) /\ Connected(Nodes, edges))
  BY <1>1, <1>5, ValidationIsExact
<1> QED
  BY <1>1, <1>2, <1>3, <1>4, <1>6 DEF Ordered

-----------------------------------------------------------------------------
(* Types *)

LEMMA MoveFacts ==
  ASSUME Typed, NEW e \in Executions, NEW pc \in Steps, Moves(e, pc)
  PROVE  /\ bodies' \in [Executions -> Bodies]
         /\ bodies'[e].pc = pc /\ bodies'[e].node = bodies[e].node /\ bodies'[e].key = bodies[e].key
         /\ bodies'[e].input = bodies[e].input /\ bodies'[e].answer = bodies[e].answer
         /\ Fingerprint(bodies'[e]) = Fingerprint(bodies[e])
         /\ \A o \in Executions : o # e => bodies'[o] = bodies[o]
<1>1. bodies[e] \in Bodies
  BY DEF Typed
<1>2. bodies'[e] = [bodies[e] EXCEPT !.pc = pc]
  BY DEF Typed, Moves
<1>3. /\ bodies'[e].pc = pc /\ bodies'[e].node = bodies[e].node /\ bodies'[e].key = bodies[e].key
      /\ bodies'[e].input = bodies[e].input /\ bodies'[e].answer = bodies[e].answer
      /\ bodies'[e] \in Bodies
  BY <1>1, <1>2 DEF Bodies
<1> QED
  BY <1>3 DEF Typed, Moves, Fingerprint

LEMMA EndsFacts ==
  ASSUME Typed, NEW e \in Executions, NEW outcome \in States, Ends(e, outcome)
  PROVE  /\ execs' \in [Executions -> Execs]
         /\ execs'[e].state = outcome /\ execs'[e].key = execs[e].key /\ execs'[e].at = execs[e].at
         /\ execs'[e].outputs = execs[e].outputs /\ execs'[e].aborted = execs[e].aborted
         /\ \A o \in Executions : o # e => execs'[o] = execs[o]
<1>1. execs[e] \in Execs
  BY DEF Typed
<1>2. execs'[e] = [execs[e] EXCEPT !.state = outcome]
  BY DEF Typed, Ends
<1>3. /\ execs'[e].state = outcome /\ execs'[e].key = execs[e].key /\ execs'[e].at = execs[e].at
      /\ execs'[e].outputs = execs[e].outputs /\ execs'[e].aborted = execs[e].aborted
      /\ execs'[e] \in Execs
  BY <1>1, <1>2 DEF Execs
<1> QED
  BY <1>3 DEF Typed, Ends

LEMMA NoBodyTyped == NoBody \in Bodies /\ NoBody.pc = "none"
<1>1. EmptyEnvelope \in Envelopes
  BY DEF EmptyEnvelope, Envelopes
<1> QED
  BY <1>1 DEF NoBody, Bodies, Steps

LEMMA EmptiedFacts ==
  ASSUME Typed, NEW e \in Executions, bodies' = [bodies EXCEPT ![e] = NoBody]
  PROVE  /\ bodies' \in [Executions -> Bodies]
         /\ bodies'[e].pc = "none"
         /\ \A o \in Executions : o # e => bodies'[o] = bodies[o]
  BY NoBodyTyped DEF Typed

LEMMA OutputsTyped ==
  ASSUME Typed, NEW e \in Executions
  PROVE  /\ DOMAIN execs[e].outputs \subseteq Nodes
         /\ execs[e].outputs \in [DOMAIN execs[e].outputs -> Envelopes]
<1>1. execs[e].outputs \in UNION {[D -> Envelopes] : D \in SUBSET Nodes}
  BY DEF Typed, Execs
<1> QED
  BY <1>1

LEMMA InputTyped ==
  ASSUME Typed, NEW e \in Executions, NEW n
  PROVE  InputForNode(e, n) \in Envelopes
<1> DEFINE given == {execs[e].outputs[m] : m \in Predecessors(n, edges) \cap DOMAIN execs[e].outputs}
<1>1. \A g \in given : g \in Envelopes
  BY OutputsTyped
<1> HIDE DEF given
<1>2. UNION {g.hashes : g \in given} \in SUBSET Versions
  BY <1>1 DEF Envelopes
<1>3. InputForNode(e, n) = [hashes |-> UNION {g.hashes : g \in given},
                            tables |-> \E g \in given : g.tables,
                            paths |-> \E g \in given : g.paths,
                            produced |-> "no"]
  BY DEF InputForNode, given
<1>4. (\E g \in given : g.tables) \in BOOLEAN /\ (\E g \in given : g.paths) \in BOOLEAN
  OBVIOUS
<1> QED
  BY <1>2, <1>3, <1>4 DEF Envelopes

LEMMA OutputTyped ==
  ASSUME NEW b \in Bodies
  PROVE  Output(b) \in Envelopes /\ Output(b).hashes = b.input.hashes /\ Output(b).produced = b.answer
<1>1. b.input \in Envelopes /\ b.answer \in {"no", "written", "receipt", "in_progress"}
  BY DEF Bodies
<1> QED
  BY <1>1, Zenon DEF Output, Envelopes

-----------------------------------------------------------------------------
(* What a step of the engine does: to the execution, and to its body *)

\* Every step of the engine, and what the world does to it.
Engine(e) == EngineStep(e) \/ Abort(e) \/ ReportRejected(e) \/ NodeTimesOut(e) \/ \E key \in Keys : Begin(e, key)

LEMMA IdleTyped == Idle \in Execs /\ DOMAIN Idle.outputs = {}
<1>1. <<>> \in [{} -> Envelopes]
  <2>1. <<>> \in [1 .. 0 -> Envelopes]
    OBVIOUS
  <2>2. 1 .. 0 = {}
    OBVIOUS
  <2> QED
    BY <2>1, <2>2
<1>2. <<>> \in UNION {[D -> Envelopes] : D \in SUBSET Nodes}
  BY <1>1
<1>3. "idle" \in States
  BY DEF States
<1> QED
  BY <1>1, <1>2, <1>3 DEF Idle, Execs

LEMMA ReturnsFacts ==
  ASSUME Typed, NEW e \in Executions, NodeReturns(e),
         OutputsWith(e) \in UNION {[D -> Envelopes] : D \in SUBSET Nodes}
  PROVE  /\ execs' \in [Executions -> Execs]
         /\ execs'[e].state = "next" /\ execs'[e].at = execs[e].at + 1
         /\ execs'[e].key = execs[e].key /\ execs'[e].outputs = OutputsWith(e)
         /\ \A o \in Executions : o # e => execs'[o] = execs[o]
<1>1. execs[e] \in Execs
  BY DEF Typed
<1>2. execs' = [execs EXCEPT ![e].state = "next", ![e].at = @ + 1, ![e].outputs = OutputsWith(e)]
  BY DEF NodeReturns
<1>3. /\ execs'[e].state = "next" /\ execs'[e].at = execs[e].at + 1
      /\ execs'[e].key = execs[e].key /\ execs'[e].outputs = OutputsWith(e)
      /\ execs'[e] \in Execs
  BY <1>1, <1>2 DEF Execs, Typed, States
<1> QED
  BY <1>2, <1>3 DEF Typed

LEMMA EngineExecs ==
  ASSUME IInv, NEW e \in Executions, Engine(e)
  PROVE  /\ execs' \in [Executions -> Execs]
         /\ \A o \in Executions : o # e => execs'[o] = execs[o]
<1> USE DEF IInv
<1>0. Typed /\ execs[e] \in Execs
  BY DEF Typed
<1>1. CASE CancelBeforeNode(e) \/ Finish(e) \/ NodeFails(e) \/ ReportRejected(e) \/ NodeTimesOut(e)
  <2>1. PICK outcome \in States : Ends(e, outcome)
    BY <1>1 DEF CancelBeforeNode, Finish, NodeFails, ReportRejected, NodeTimesOut, States
  <2> QED
    BY <1>0, <2>1, EndsFacts
<1>2. CASE StartNode(e)
  <2>1. Ends(e, "node")
    BY <1>2 DEF StartNode, Ends
  <2> QED
    BY <1>0, <2>1, EndsFacts DEF States
<1>3. CASE OrphanEnds(e)
  BY <1>3 DEF OrphanEnds, Typed
<1>4. CASE Abort(e)
  <2>1. [execs[e] EXCEPT !.aborted = TRUE] \in Execs
    BY <1>0 DEF Execs
  <2> QED
    BY <1>0, <1>4, <2>1 DEF Abort, Typed
<1>5. ASSUME NEW key \in Keys, Begin(e, key)
      PROVE  /\ execs' \in [Executions -> Execs]
             /\ \A o \in Executions : o # e => execs'[o] = execs[o]
  <2>1. Idle \in Execs
    BY IdleTyped
  <2>2. key \in Keys \cup {Nothing} /\ 1 \in Nat /\ "next" \in States
    BY DEF States
  <2>3. [Idle EXCEPT !.state = "next", !.key = key, !.at = 1] \in Execs
    BY <2>1, <2>2 DEF Execs
  <2> QED
    BY <1>0, <1>5, <2>3 DEF Begin, Typed
<1>6. CASE NodeReturns(e)
  <2>1. bodies[e] \in Bodies /\ bodies[e].node \in Nodes
    BY <1>0, <1>6 DEF NodeReturns, AtWork, Typed
  <2>2. OutputsWith(e) \in [DOMAIN execs[e].outputs \cup {bodies[e].node} -> Envelopes]
    BY <1>0, <2>1, OutputsTyped, OutputTyped DEF OutputsWith
  <2>3. DOMAIN execs[e].outputs \cup {bodies[e].node} \in SUBSET Nodes
    BY <1>0, <2>1, OutputsTyped
  <2>4. OutputsWith(e) \in UNION {[D -> Envelopes] : D \in SUBSET Nodes}
    BY <2>2, <2>3
  <2> QED
    BY <1>0, <1>6, <2>4, ReturnsFacts
<1> QED
  BY <1>1, <1>2, <1>3, <1>4, <1>5, <1>6 DEF Engine, EngineStep

\* Nothing on disk and no claim changes; the body is as it was, or none was at work and one
\* starts at most.
Apart(e) ==
  /\ bodies' \in [Executions -> Bodies]
  /\ \A o \in Executions : o # e => bodies'[o] = bodies[o]
  /\ \/ bodies'[e] = bodies[e]
     \/ /\ bodies[e].pc \in {"none", "returned", "thrown"}
        /\ bodies'[e].pc \in {"none", "start"}
        /\ bodies'[e].pc = "start" => bodies'[e].node \in Nodes /\ bodies'[e].key \in Keys

LEMMA EngineBodies ==
  ASSUME IInv, NEW e \in Executions, Engine(e)
  PROVE  /\ Apart(e)
         /\ UNCHANGED <<engine, active, receipts, locks, files, world>>
<1> USE DEF IInv
<1>0. Typed /\ execs[e] \in Execs /\ AtNode(e)
  BY DEF Typed
<1>1. CASE CancelBeforeNode(e) \/ Finish(e) \/ NodeTimesOut(e) \/ Abort(e)
  BY <1>0, <1>1 DEF CancelBeforeNode, Finish, NodeTimesOut, Abort, Apart, Typed, disk
<1>2. CASE NodeFails(e) \/ ReportRejected(e) \/ NodeReturns(e) \/ OrphanEnds(e)
  <2>1. bodies' = [bodies EXCEPT ![e] = NoBody] /\ UNCHANGED <<engine, active, disk, world>>
    BY <1>2 DEF NodeFails, ReportRejected, NodeReturns, OrphanEnds
  <2>2. bodies[e].pc \in {"none", "returned", "thrown"}
    BY <1>0, <1>2 DEF NodeFails, ReportRejected, NodeReturns, OrphanEnds, AtNode
  <2> QED
    BY <1>0, <2>1, <2>2, EmptiedFacts DEF Apart, disk
<1>3. CASE StartNode(e)
  <2> DEFINE n == plan[execs[e].at]
             body == [pc |-> "start", node |-> n, input |-> InputForNode(e, n),
                      answer |-> "no", key |-> execs[e].key]
  <2>1. bodies' = [bodies EXCEPT ![e] = body]
    BY <1>3 DEF StartNode
  <2>2. n \in Nodes /\ execs[e].key \in Keys /\ bodies[e].pc = "none"
    BY <1>0, <1>3 DEF StartNode, AtNode, Ordered, Execs
  <2>3. body \in Bodies
    BY <1>0, <2>2, InputTyped DEF Bodies, Steps
  <2>4. body.pc = "start" /\ body.node = n /\ body.key = execs[e].key
    OBVIOUS
  <2>5. UNCHANGED <<engine, active, disk, world>>
    BY <1>3 DEF StartNode
  <2> HIDE DEF body, n
  <2>6. bodies'[e] = body /\ bodies' \in [Executions -> Bodies]
        /\ \A o \in Executions : o # e => bodies'[o] = bodies[o]
    BY <1>0, <2>1, <2>3 DEF Typed
  <2> QED
    BY <2>2, <2>4, <2>5, <2>6 DEF Apart, disk
<1>4. ASSUME NEW key \in Keys, Begin(e, key)
      PROVE  Apart(e) /\ UNCHANGED <<engine, active, receipts, locks, files, world>>
  BY <1>0, <1>4 DEF Begin, Apart, Typed, disk
<1> QED
  BY <1>1, <1>2, <1>3, <1>4 DEF Engine, EngineStep

LEMMA EngineKeepsWork ==
  ASSUME IInv, NEW e \in Executions, Engine(e)
  PROVE  /\ \A o \in Executions : AtWork(o)'
         /\ Claimed'
         /\ LockHasOwner'
<1> USE DEF IInv
<1>1. /\ \A o \in Executions : o # e => bodies'[o] = bodies[o]
      /\ \/ bodies'[e] = bodies[e]
         \/ /\ bodies[e].pc \in {"none", "returned", "thrown"}
            /\ bodies'[e].pc \in {"none", "start"}
            /\ bodies'[e].pc = "start" => (bodies'[e].node \in Nodes /\ bodies'[e].key \in Keys)
      /\ active' = active /\ receipts' = receipts /\ locks' = locks /\ files' = files
      /\ crashed' = crashed
  BY EngineBodies DEF Apart, world
<1>2. \A o \in Executions : Holding(o)' <=> Holding(o)
  BY <1>1 DEF Holding
<1>3. \A o \in Executions : Holding(o) => bodies'[o] = bodies[o]
  BY <1>1 DEF Holding
<1>4. ASSUME NEW o \in Executions PROVE AtWork(o)'
  <2>1. CASE bodies'[o] = bodies[o]
    BY <1>1, <2>1 DEF AtWork, Holding
  <2>2. CASE bodies'[o] # bodies[o]
    <3>1. bodies'[o].pc \in {"none", "start"}
          /\ (bodies'[o].pc = "start" => (bodies'[o].node \in Nodes /\ bodies'[o].key \in Keys))
      BY <1>1, <2>2
    <3> QED
      BY <3>1 DEF AtWork, Holding, Locking
  <2> QED
    BY <2>1, <2>2
<1>5. Claimed'
  BY <1>1, <1>2, <1>3 DEF Claimed
<1>6. LockHasOwner'
  <2> SUFFICES ASSUME NEW n \in Producers, locks[n] # Nothing, ~ crashed
               PROVE  bodies'[locks[n]].node = n /\ bodies'[locks[n]].pc \in Locking
    BY <1>1 DEF LockHasOwner, Locking
  <2>1. locks[n] \in Executions /\ bodies[locks[n]].node = n /\ bodies[locks[n]].pc \in Locking
    BY DEF LockHasOwner, Typed, Locking
  <2> QED
    BY <1>1, <2>1 DEF Locking
<1> QED
  BY <1>4, <1>5, <1>6

LEMMA ListedGrows ==
  ASSUME NEW order, NEW i \in Nat, i > 0
  PROVE  Listed(order, i) = Listed(order, i - 1) \cup {order[i]}
<1>1. 1 .. i = (1 .. (i - 1)) \cup {i}
  OBVIOUS
<1> QED
  BY <1>1 DEF Listed

\* After a step of the engine the execution is where its state says, its outputs are those of
\* the nodes behind it and have their receipts.
LEMMA EngineKeepsPlace ==
  ASSUME IInv, NEW e \in Executions, Engine(e)
  PROVE  /\ AtNode(e)'
         /\ execs'[e].state = "succeeded" => execs'[e].at = Len(plan') + 1
         /\ \A n \in Producers \cap DOMAIN execs'[e].outputs :
              \/ execs'[e].outputs[n].produced = "in_progress"
              \/ [key |-> execs'[e].key, node |-> n, hashes |-> execs'[e].outputs[n].hashes] \in receipts'
<1> USE DEF IInv
<1>0. Typed /\ execs[e] \in Execs /\ AtNode(e) /\ AtWork(e) /\ Len(plan) \in Nat /\ execs[e].at \in Nat
  BY DEF Typed, Ordered, Execs
<1>1. plan' = plan /\ verdict' = verdict /\ receipts' = receipts
  BY EngineBodies DEF engine
<1>2. \A n \in Producers \cap DOMAIN execs[e].outputs :
        \/ execs[e].outputs[n].produced = "in_progress"
        \/ [key |-> execs[e].key, node |-> n, hashes |-> execs[e].outputs[n].hashes] \in receipts
  BY DEF Receipted
<1>3. execs[e].state = "succeeded" => execs[e].at = Len(plan) + 1
  BY DEF PastTheEnd
<1> HIDE DEF IInv
<1>4. ASSUME NEW outcome \in {"succeeded", "failed", "cancelled"}, Ends(e, outcome),
             execs[e].state \in {"next", "node"}, outcome = "succeeded" => execs[e].at = Len(plan) + 1
      PROVE  /\ AtNode(e)'
             /\ execs'[e].state = "succeeded" => execs'[e].at = Len(plan') + 1
             /\ \A n \in Producers \cap DOMAIN execs'[e].outputs :
                  \/ execs'[e].outputs[n].produced = "in_progress"
                  \/ [key |-> execs'[e].key, node |-> n, hashes |-> execs'[e].outputs[n].hashes] \in receipts'
  <2>1. /\ execs'[e].state = outcome /\ execs'[e].key = execs[e].key /\ execs'[e].at = execs[e].at
        /\ execs'[e].outputs = execs[e].outputs
    BY <1>0, <1>4, EndsFacts DEF States
  <2> QED
    BY <1>0, <1>1, <1>2, <1>4, <2>1 DEF AtNode
<1>5. CASE CancelBeforeNode(e) \/ NodeTimesOut(e) \/ NodeFails(e) \/ ReportRejected(e)
  <2>1. /\ Ends(e, "failed") \/ Ends(e, "cancelled")
        /\ execs[e].state \in {"next", "node"}
    BY <1>5 DEF CancelBeforeNode, NodeTimesOut, NodeFails, ReportRejected
  <2> QED
    BY <1>4, <2>1
<1>6. CASE Finish(e)
  <2>1. Ends(e, "succeeded") /\ execs[e].state = "next" /\ execs[e].at = Len(plan) + 1
    BY <1>0, <1>6 DEF Finish, AtNode
  <2> QED
    BY <1>4, <2>1
<1>7. CASE StartNode(e)
  <2> DEFINE body == [pc |-> "start", node |-> plan[execs[e].at],
                      input |-> InputForNode(e, plan[execs[e].at]), answer |-> "no", key |-> execs[e].key]
  <2>1. Ends(e, "node") /\ execs[e].state = "next" /\ execs[e].at <= Len(plan)
        /\ bodies' = [bodies EXCEPT ![e] = body]
    BY <1>7 DEF StartNode, Ends
  <2>2. body.pc = "start" /\ body.node = plan[execs[e].at] /\ body.key = execs[e].key
    OBVIOUS
  <2> HIDE DEF body
  <2>3. bodies'[e] = body
    BY <1>0, <2>1 DEF Typed
  <2>4. /\ execs'[e].state = "node" /\ execs'[e].key = execs[e].key /\ execs'[e].at = execs[e].at
        /\ execs'[e].outputs = execs[e].outputs
    BY <1>0, <2>1, EndsFacts DEF States
  <2> QED
    BY <1>0, <1>1, <1>2, <2>1, <2>2, <2>3, <2>4 DEF AtNode
<1>8. CASE NodeReturns(e)
  <2> DEFINE n == bodies[e].node
  <2>1. /\ execs[e].at <= Len(plan) /\ execs[e].at > 0
        /\ n = plan[execs[e].at] /\ bodies[e].key = execs[e].key
        /\ execs[e].state = "node" /\ bodies[e].pc = "returned"
    BY <1>0, <1>8 DEF AtNode, NodeReturns
  <2>2. n \in Nodes /\ bodies[e] \in Bodies
    BY <1>0, <2>1 DEF AtWork, Typed
  <2>3. /\ DOMAIN OutputsWith(e) = DOMAIN execs[e].outputs \cup {n}
        /\ OutputsWith(e)[n] = Output(bodies[e])
        /\ \A m \in DOMAIN execs[e].outputs : m # n => OutputsWith(e)[m] = execs[e].outputs[m]
    BY DEF OutputsWith
  <2>4. OutputsWith(e) \in UNION {[D -> Envelopes] : D \in SUBSET Nodes}
    <3>1. OutputsWith(e) \in [DOMAIN execs[e].outputs \cup {n} -> Envelopes]
      BY <1>0, <2>2, OutputsTyped, OutputTyped DEF OutputsWith
    <3>2. DOMAIN execs[e].outputs \cup {n} \in SUBSET Nodes
      BY <1>0, <2>2, OutputsTyped
    <3> QED
      BY <3>1, <3>2
  <2>5. /\ execs'[e].state = "next" /\ execs'[e].at = execs[e].at + 1
        /\ execs'[e].key = execs[e].key /\ execs'[e].outputs = OutputsWith(e)
    BY <1>0, <1>8, <2>4, ReturnsFacts
  <2>6. bodies'[e].pc = "none"
    BY <1>0, <1>8, EmptiedFacts DEF NodeReturns
  <2>7. DOMAIN execs'[e].outputs = Listed(plan, execs'[e].at - 1)
    <3>1. DOMAIN execs[e].outputs = Listed(plan, execs[e].at - 1)
      BY <1>0 DEF AtNode
    <3>2. (execs[e].at + 1) - 1 = execs[e].at
      BY <1>0
    <3> QED
      BY <1>0, <2>1, <2>3, <2>5, <3>1, <3>2, ListedGrows
  <2>8. AtNode(e)'
    BY <1>0, <1>1, <2>1, <2>5, <2>6, <2>7 DEF AtNode
  <2>9. ASSUME n \in Producers
        PROVE  \/ Output(bodies[e]).produced = "in_progress"
               \/ [key |-> execs[e].key, node |-> n, hashes |-> Output(bodies[e]).hashes] \in receipts
    BY <1>0, <2>1, <2>2, <2>9, OutputTyped DEF AtWork, Fingerprint
  <2> HIDE DEF n
  <2>10. ASSUME NEW m \in Producers \cap DOMAIN execs'[e].outputs
         PROVE  \/ execs'[e].outputs[m].produced = "in_progress"
                \/ [key |-> execs'[e].key, node |-> m, hashes |-> execs'[e].outputs[m].hashes] \in receipts'
    <3>1. CASE m = n
      BY <1>1, <2>3, <2>5, <2>9, <3>1
    <3>2. CASE m # n
      BY <1>1, <1>2, <2>3, <2>5, <3>2
    <3> QED
      BY <3>1, <3>2
  <2> QED
    BY <2>5, <2>8, <2>10
<1>9. CASE OrphanEnds(e)
  <2>1. execs' = execs /\ execs[e].state \in {"succeeded", "failed", "cancelled"}
    BY <1>9 DEF OrphanEnds, Over
  <2> QED
    BY <1>0, <1>1, <1>2, <1>3, <2>1 DEF AtNode
<1>10. CASE Abort(e)
  <2>1. execs' = [execs EXCEPT ![e].aborted = TRUE] /\ bodies' = bodies
    BY <1>10 DEF Abort
  <2>2. execs'[e] = [execs[e] EXCEPT !.aborted = TRUE]
    BY <1>0, <2>1 DEF Typed
  <2>3. /\ execs'[e].state = execs[e].state /\ execs'[e].key = execs[e].key /\ execs'[e].at = execs[e].at
        /\ execs'[e].outputs = execs[e].outputs
    BY <1>0, <2>2 DEF Execs
  <2> QED
    BY <1>0, <1>1, <1>2, <1>3, <2>1, <2>3 DEF AtNode
<1>11. ASSUME NEW key \in Keys, Begin(e, key)
       PROVE  /\ AtNode(e)'
              /\ execs'[e].state = "succeeded" => execs'[e].at = Len(plan') + 1
              /\ \A n \in Producers \cap DOMAIN execs'[e].outputs :
                   \/ execs'[e].outputs[n].produced = "in_progress"
                   \/ [key |-> execs'[e].key, node |-> n, hashes |-> execs'[e].outputs[n].hashes] \in receipts'
  <2>1. /\ execs' = [execs EXCEPT ![e] = [Idle EXCEPT !.state = "next", !.key = key, !.at = 1]]
        /\ bodies' = bodies /\ verdict = "accepted" /\ execs[e].state = "idle"
    BY <1>11 DEF Begin
  <2>2. execs'[e] = [Idle EXCEPT !.state = "next", !.key = key, !.at = 1]
    BY <1>0, <2>1 DEF Typed
  <2>3. /\ execs'[e].state = "next" /\ execs'[e].key = key /\ execs'[e].at = 1
        /\ execs'[e].outputs = Idle.outputs
    BY <2>2, IdleTyped DEF Execs
  <2>4. DOMAIN execs'[e].outputs = {} /\ Listed(plan, execs'[e].at - 1) = {}
    BY <2>3, IdleTyped DEF Listed
  <2>5. bodies[e].pc = "none"
    BY <1>0, <2>1 DEF AtNode
  <2>6. execs'[e].at <= Len(plan) + 1 /\ execs'[e].at > 0
    BY <1>0, <2>3
  <2>7. AtNode(e)'
    BY <1>1, <2>1, <2>3, <2>4, <2>5, <2>6 DEF AtNode
  <2> QED
    BY <2>3, <2>4, <2>7
<1> QED
  BY <1>5, <1>6, <1>7, <1>8, <1>9, <1>10, <1>11 DEF Engine, EngineStep

-----------------------------------------------------------------------------
(* What a step of a body does: to itself, to the claims, the locks and the files *)

\* Wherever it goes next, a body stays with its node and its key.
Stays(e) ==
  /\ bodies' \in [Executions -> Bodies]
  /\ \A o \in Executions : o # e => bodies'[o] = bodies[o]
  /\ bodies[e].pc # "none" /\ bodies'[e].pc # "none"
  /\ bodies'[e].node = bodies[e].node /\ bodies'[e].key = bodies[e].key

LEMMA LookStays ==
  ASSUME Typed, NEW e \in Executions, LookNode(e)
  PROVE  Stays(e) /\ bodies'[e].pc \in {"returned", "thrown"}
<1>1. CASE Moves(e, "thrown")
  BY <1>1, MoveFacts DEF LookNode, Stays, Steps
<1>2. ASSUME bodies' = [bodies EXCEPT ![e].pc = "returned",
                 ![e].input.hashes = IF Role[bodies[e].node] = "read" THEN {inputs} ELSE @]
      PROVE  Stays(e) /\ bodies'[e].pc \in {"returned", "thrown"}
  <2> DEFINE hashes == IF Role[bodies[e].node] = "read" THEN {inputs} ELSE bodies[e].input.hashes
  <2>1. bodies[e] \in Bodies /\ bodies[e].input \in Envelopes /\ inputs \in Versions
    BY DEF Typed, Bodies
  <2>2. hashes \in SUBSET Versions
    BY <2>1 DEF Envelopes
  <2>3. bodies' = [bodies EXCEPT ![e].pc = "returned", ![e].input.hashes = hashes]
    BY <1>2
  <2> HIDE DEF hashes
  <2> DEFINE input == [bodies[e].input EXCEPT !.hashes = hashes]
  <2>4. input \in Envelopes
    BY <2>1, <2>2 DEF Envelopes
  <2>5. /\ bodies'[e].pc = "returned" /\ bodies'[e].input = input
        /\ bodies'[e].node = bodies[e].node /\ bodies'[e].key = bodies[e].key
        /\ bodies'[e].answer = bodies[e].answer
        /\ bodies'[e] = [bodies[e] EXCEPT !.pc = "returned", !.input = input]
    BY <2>1, <2>3 DEF Typed, Bodies
  <2> HIDE DEF input
  <2>6. bodies'[e] \in Bodies
    BY <2>1, <2>4, <2>5 DEF Bodies, Steps
  <2> QED
    BY <2>3, <2>5, <2>6 DEF Typed, Stays, LookNode
<1> QED
  BY <1>1, <1>2 DEF LookNode

LEMMA ClaimStays ==
  ASSUME Typed, NEW e \in Executions, Claim(e)
  PROVE  /\ Stays(e)
         /\ bodies'[e].input = bodies[e].input /\ bodies'[e].answer = ClaimAnswer(bodies[e])
         /\ bodies'[e].pc = IF ClaimAnswer(bodies[e]) = "written" THEN "check" ELSE "returned"
<1> DEFINE answer == ClaimAnswer(bodies[e])
           pc == IF answer = "written" THEN "check" ELSE "returned"
<1>1. bodies[e] \in Bodies /\ bodies[e].pc = "start"
  BY DEF Typed, Claim
<1>2. bodies' = [bodies EXCEPT ![e].answer = answer, ![e].pc = pc]
  BY DEF Claim
<1>3. answer \in {"no", "written", "receipt", "in_progress"}
  BY DEF ClaimAnswer
<1>4. pc \in Steps /\ pc # "none"
  BY DEF Steps
<1> HIDE DEF answer, pc
<1>5. /\ bodies'[e].pc = pc /\ bodies'[e].answer = answer /\ bodies'[e].input = bodies[e].input
      /\ bodies'[e].node = bodies[e].node /\ bodies'[e].key = bodies[e].key
      /\ bodies'[e] \in Bodies
  BY <1>1, <1>2, <1>3, <1>4 DEF Typed, Bodies
<1> QED
  BY <1>1, <1>2, <1>4, <1>5 DEF Typed, Stays, answer, pc

\* The other steps of a body only move it.
LEMMA MoveStays ==
  ASSUME Typed, NEW e \in Executions, BodyStep(e), ~ LookNode(e), ~ Claim(e)
  PROVE  \E pc \in Steps \ {"none"} : Moves(e, pc)
<1>1. CASE RefuseInput(e) \/ Release(e)
  BY <1>1 DEF RefuseInput, Release, Steps
<1>2. CASE CheckDestination(e)
  BY <1>2 DEF CheckDestination, Steps
<1>3. CASE TakeLock(e) \/ VerifyTemporary(e)
  BY <1>3 DEF TakeLock, VerifyTemporary, Steps
<1>4. CASE Rename(e) \/ Combine(e) \/ Complete(e)
  BY <1>4 DEF Rename, Combine, Complete, Steps
<1>5. CASE Unlock(e)
  BY <1>5 DEF Unlock, Steps
<1> QED
  BY <1>1, <1>2, <1>3, <1>4, <1>5 DEF BodyStep

LEMMA BodyStays ==
  ASSUME Typed, NEW e \in Executions, BodyStep(e)
  PROVE  Stays(e) /\ UNCHANGED <<engine, execs, world>>
<1>1. bodies[e].pc # "none"
  BY DEF BodyStep, LookNode, RefuseInput, Claim, CheckDestination, TakeLock, VerifyTemporary,
         Rename, Unlock, Combine, Complete, Release
<1>2. UNCHANGED <<engine, execs, world>>
  BY DEF BodyStep, LookNode, RefuseInput, Claim, CheckDestination, TakeLock, VerifyTemporary,
         Rename, Unlock, Combine, Complete, Release
<1>3. CASE ~ LookNode(e) /\ ~ Claim(e)
  <2>1. PICK pc \in Steps \ {"none"} : Moves(e, pc)
    BY <1>3, MoveStays
  <2> QED
    BY <1>1, <1>2, <2>1, MoveFacts DEF Stays
<1> QED
  BY <1>2, <1>3, LookStays, ClaimStays

\* A body's step leaves every execution where it is.
LEMMA BodyKeepsPlace ==
  ASSUME IInv, NEW e \in Executions, BodyStep(e), receipts \subseteq receipts'
  PROVE  (\A o \in Executions : AtNode(o)') /\ Receipted' /\ PastTheEnd' /\ Ordered'
<1>1. /\ \A o \in Executions : o # e => bodies'[o] = bodies[o]
      /\ bodies[e].pc # "none" /\ bodies'[e].pc # "none"
      /\ bodies'[e].node = bodies[e].node /\ bodies'[e].key = bodies[e].key
      /\ execs' = execs /\ edges' = edges /\ verdict' = verdict /\ plan' = plan
  BY BodyStays DEF IInv, Stays, engine
<1>2. ASSUME NEW o \in Executions PROVE AtNode(o)'
  <2>1. CASE o = e
    BY <1>1, <2>1 DEF IInv, AtNode
  <2>2. CASE o # e
    BY <1>1, <2>2 DEF IInv, AtNode
  <2> QED
    BY <2>1, <2>2
<1>3. Receipted'
  BY <1>1 DEF IInv, Receipted
<1>4. PastTheEnd' /\ Ordered'
  BY <1>1 DEF IInv, PastTheEnd, Ordered
<1> QED
  BY <1>2, <1>3, <1>4

\* What another body has claimed, locked and seen stays its own.
LEMMA OthersWork ==
  ASSUME IInv, NEW e \in Executions,
         \A o \in Executions : o # e => bodies'[o] = bodies[o],
         receipts \subseteq receipts',
         \A o \in Executions : o # e /\ Holding(o) => Fingerprint(bodies[o]) \in active',
         \A o \in Executions : o # e /\ bodies[o].pc \in Locking => locks'[bodies[o].node] = o,
         \A o \in Executions : o # e /\ bodies[o].pc = "rename" => files'[bodies[o].node] = Nothing
  PROVE  \A o \in Executions : o # e => AtWork(o)'
<1> SUFFICES ASSUME NEW o \in Executions, o # e PROVE AtWork(o)'
  OBVIOUS
<1>1. AtWork(o) /\ bodies'[o] = bodies[o]
  BY DEF IInv
<1> QED
  BY <1>1 DEF AtWork, Holding

\* Nobody's claim changes while everyone holds what it held.
LEMMA HoldersSame ==
  ASSUME Claimed, active' = active, receipts' = receipts,
         \A o \in Executions : Holding(o)' <=> Holding(o),
         \A o \in Executions : Holding(o) => Fingerprint(bodies'[o]) = Fingerprint(bodies[o])
  PROVE  Claimed'
  BY DEF Claimed

\* A body that only looks, or is refused, was and is not at work.
LEMMA LookKeepsWork ==
  ASSUME IInv, NEW e \in Executions, LookNode(e) \/ RefuseInput(e)
  PROVE  (\A o \in Executions : AtWork(o)') /\ Claimed' /\ LockHasOwner'
<1>1. /\ Stays(e) /\ bodies[e].pc = "start" /\ bodies'[e].pc \in {"returned", "thrown"}
      /\ bodies'[e].pc = "returned" => bodies[e].node \notin Producers
      /\ active' = active /\ receipts' = receipts /\ locks' = locks /\ files' = files
      /\ crashed' = crashed
  <2>1. CASE LookNode(e)
    BY <2>1, LookStays DEF IInv, LookNode, disk, world
  <2>2. CASE RefuseInput(e)
    BY <2>2, MoveFacts, BodyStays DEF IInv, RefuseInput, disk, world, Steps, BodyStep
  <2> QED
    BY <2>1, <2>2
<1>2. /\ \A o \in Executions : o # e => bodies'[o] = bodies[o]
      /\ bodies'[e].node = bodies[e].node /\ bodies'[e].key = bodies[e].key
  BY <1>1 DEF Stays
<1>3. AtWork(e)'
  <2>1. bodies[e].node \in Nodes /\ bodies[e].key \in Keys
    BY <1>1 DEF IInv, AtWork
  <2> QED
    BY <1>1, <1>2, <2>1 DEF AtWork, Holding, Locking
<1>4. ~ Holding(e) /\ ~ Holding(e)'
  BY <1>1 DEF Holding
<1>5. \A o \in Executions : (Holding(o)' <=> Holding(o)) /\ (Holding(o) => bodies'[o] = bodies[o])
  BY <1>2, <1>4 DEF Holding
<1>6. Claimed'
  BY <1>1, <1>5, HoldersSame DEF IInv
<1>7. \A o \in Executions : o # e => AtWork(o)'
  BY <1>1, <1>2, OthersWork DEF IInv, AtWork
<1>8. LockHasOwner'
  BY <1>1, <1>2 DEF IInv, LockHasOwner, Typed
<1> QED
  BY <1>3, <1>6, <1>7, <1>8

\* claim(): what is claimed was neither claimed nor receipted.
LEMMA ClaimKeepsWork ==
  ASSUME IInv, NEW e \in Executions, Claim(e)
  PROVE  (\A o \in Executions : AtWork(o)') /\ Claimed' /\ LockHasOwner'
<1> DEFINE print == Fingerprint(bodies[e])
<1>1. /\ bodies[e].pc = "start" /\ bodies[e].node \in Producers /\ bodies[e].key \in Keys
      /\ receipts' = receipts /\ locks' = locks /\ files' = files /\ crashed' = crashed
      /\ active' = IF ClaimAnswer(bodies[e]) = "written" THEN active \cup {print} ELSE active
  BY DEF IInv, Claim, disk, world, AtWork
<1>2. /\ \A o \in Executions : o # e => bodies'[o] = bodies[o]
      /\ bodies'[e].node = bodies[e].node /\ bodies'[e].key = bodies[e].key
      /\ bodies'[e].input = bodies[e].input /\ bodies'[e].answer = ClaimAnswer(bodies[e])
      /\ bodies'[e].pc = IF ClaimAnswer(bodies[e]) = "written" THEN "check" ELSE "returned"
  BY ClaimStays DEF IInv, Stays
<1>3. Fingerprint(bodies'[e]) = print /\ bodies[e].node \in Nodes
  BY <1>1, <1>2 DEF Fingerprint, Producers
<1>4. ~ Holding(e) /\ active \subseteq active'
  BY <1>1 DEF Holding
<1>5. /\ ClaimAnswer(bodies[e]) = "written" => print \notin active /\ print \notin receipts
      /\ ClaimAnswer(bodies[e]) = "receipt" => print \in receipts
      /\ ClaimAnswer(bodies[e]) \in {"written", "receipt", "in_progress"}
  BY DEF ClaimAnswer
<1> HIDE DEF print
<1>6. AtWork(e)'
  BY <1>1, <1>2, <1>3, <1>5 DEF AtWork, Holding, Locking
<1>7. \A o \in Executions : o # e => AtWork(o)'
  BY <1>1, <1>2, <1>4, OthersWork DEF IInv, AtWork
<1>8. LockHasOwner'
  BY <1>1, <1>2 DEF IInv, LockHasOwner, Typed
<1>9. CASE ClaimAnswer(bodies[e]) = "written"
  <2>1. /\ print \notin active /\ print \notin receipts /\ active' = active \cup {print}
        /\ Holding(e)'
    BY <1>1, <1>2, <1>5, <1>9 DEF Holding
  <2>2. \A o \in Executions : o # e => (Holding(o)' <=> Holding(o))
    BY <1>2 DEF Holding
  <2>3. \A o \in Executions : Holding(o) => Fingerprint(bodies[o]) \in active
    BY DEF IInv, AtWork
  <2>4. Claimed'
    <3>1. active' \cap receipts' = {}
      BY <1>1, <2>1 DEF IInv, Claimed
    <3>2. ASSUME NEW o \in Executions, NEW q \in Executions, Holding(o)', Holding(q)',
                 Fingerprint(bodies'[o]) = Fingerprint(bodies'[q])
          PROVE  o = q
      BY <1>2, <1>3, <2>1, <2>2, <2>3, <3>2 DEF IInv, Claimed
    <3>3. ASSUME NEW p \in active' PROVE \E o \in Executions : Holding(o)' /\ Fingerprint(bodies'[o]) = p
      <4>1. CASE p = print
        BY <1>3, <2>1, <4>1
      <4>2. CASE p # print
        <5>1. PICK o \in Executions : Holding(o) /\ Fingerprint(bodies[o]) = p
          BY <2>1, <4>2 DEF IInv, Claimed
        <5> QED
          BY <1>2, <1>4, <2>2, <5>1
      <4> QED
        BY <4>1, <4>2
    <3> QED
      BY <3>1, <3>2, <3>3 DEF Claimed
  <2> QED
    BY <1>6, <1>7, <1>8, <2>4
<1>10. CASE ClaimAnswer(bodies[e]) # "written"
  <2>1. active' = active /\ ~ Holding(e)'
    BY <1>1, <1>2, <1>10 DEF Holding
  <2>2. \A o \in Executions : (Holding(o)' <=> Holding(o)) /\ (Holding(o) => bodies'[o] = bodies[o])
    BY <1>2, <1>4, <2>1 DEF Holding
  <2>3. Claimed'
    BY <1>1, <2>1, <2>2, HoldersSame DEF IInv
  <2> QED
    BY <1>6, <1>7, <1>8, <2>3
<1> QED
  BY <1>9, <1>10

\* A body at work that goes on keeps its claim, as everyone does.
Works == {"check", "lock", "verify", "rename", "unlock", "unlock_failed", "combine",
          "complete", "release"}

LEMMA ClaimGoesOn ==
  ASSUME IInv, NEW e \in Executions, NEW pc \in Works, Moves(e, pc), bodies[e].pc \in Works,
         active' = active, receipts' = receipts
  PROVE  /\ Claimed'
         /\ \A o \in Executions : o # e => bodies'[o] = bodies[o]
         /\ bodies'[e].pc = pc /\ bodies'[e].node = bodies[e].node
         /\ bodies[e].node \in Producers /\ bodies[e].node \in Nodes /\ bodies'[e].key \in Keys
         /\ Fingerprint(bodies'[e]) \in active'
<1>1. pc \in Steps
  BY DEF Works, Steps
<1>2. /\ \A o \in Executions : o # e => bodies'[o] = bodies[o]
      /\ bodies'[e].pc = pc /\ bodies'[e].node = bodies[e].node /\ bodies'[e].key = bodies[e].key
      /\ Fingerprint(bodies'[e]) = Fingerprint(bodies[e])
  BY <1>1, MoveFacts DEF IInv
<1>3. Holding(e) /\ Holding(e)'
  BY <1>2 DEF Holding, Works
<1>4. \A o \in Executions : (Holding(o)' <=> Holding(o))
  BY <1>2, <1>3 DEF Holding
<1>5. Claimed'
  BY <1>2, <1>4, HoldersSame DEF IInv
<1>6. /\ bodies[e].node \in Producers /\ bodies[e].node \in Nodes /\ bodies[e].key \in Keys
      /\ Fingerprint(bodies[e]) \in active
  <2>1. AtWork(e) /\ bodies[e].pc # "none"
    BY DEF IInv, Works
  <2> QED
    BY <1>3, <2>1 DEF AtWork
<1> QED
  BY <1>2, <1>5, <1>6

LEMMA CheckKeepsWork ==
  ASSUME IInv, NEW e \in Executions, CheckDestination(e)
  PROVE  (\A o \in Executions : AtWork(o)') /\ Claimed' /\ LockHasOwner'
<1>1. PICK pc \in {"release", "lock", "combine"} :
        /\ Moves(e, pc)
        /\ pc = "lock" => Role[bodies[e].node] = "write"
        /\ pc = "combine" => Role[bodies[e].node] # "write"
  BY DEF CheckDestination
<1>2. /\ bodies[e].pc = "check" /\ active' = active /\ receipts' = receipts
      /\ locks' = locks /\ files' = files /\ crashed' = crashed
  BY DEF CheckDestination, disk, world
<1>3. /\ Claimed'
      /\ \A o \in Executions : o # e => bodies'[o] = bodies[o]
      /\ bodies'[e].pc = pc /\ bodies'[e].node = bodies[e].node
      /\ bodies[e].node \in Producers /\ bodies[e].node \in Nodes /\ bodies'[e].key \in Keys
      /\ Fingerprint(bodies'[e]) \in active'
  BY <1>1, <1>2, ClaimGoesOn DEF Works
<1>4. AtWork(e)'
  BY <1>1, <1>3 DEF AtWork, Locking, Producers
<1>5. \A o \in Executions : o # e => AtWork(o)'
  BY <1>2, <1>3, OthersWork DEF IInv, AtWork
<1>6. LockHasOwner'
  BY <1>2, <1>3 DEF IInv, LockHasOwner, Typed
<1> QED
  BY <1>3, <1>4, <1>5, <1>6

LEMMA LockKeepsWork ==
  ASSUME IInv, NEW e \in Executions, TakeLock(e)
  PROVE  (\A o \in Executions : AtWork(o)') /\ Claimed' /\ LockHasOwner'
<1> DEFINE n == bodies[e].node
<1>1. /\ bodies[e].pc = "lock" /\ active' = active /\ receipts' = receipts
      /\ files' = files /\ crashed' = crashed
  BY DEF TakeLock, world
<1>2. PICK pc \in {"verify", "release"} :
        /\ Moves(e, pc)
        /\ pc = "verify" => locks[n] = Nothing /\ locks' = [locks EXCEPT ![n] = e]
        /\ pc = "release" => locks' = locks
  BY DEF TakeLock
<1>3. /\ Claimed'
      /\ \A o \in Executions : o # e => bodies'[o] = bodies[o]
      /\ bodies'[e].pc = pc /\ bodies'[e].node = n
      /\ n \in Producers /\ n \in Nodes /\ bodies'[e].key \in Keys
      /\ Fingerprint(bodies'[e]) \in active'
  BY <1>1, <1>2, ClaimGoesOn DEF Works
<1>4. Role[n] = "write"
  BY <1>1 DEF IInv, AtWork
<1> HIDE DEF n
<1>5. locks \in [Producers -> Executions \cup {Nothing}]
  BY DEF IInv, Typed
<1>6. CASE pc = "release"
  <2>1. locks' = locks
    BY <1>2, <1>6
  <2>2. AtWork(e)'
    BY <1>3, <1>4, <1>6 DEF AtWork, Locking
  <2>3. \A o \in Executions : o # e => AtWork(o)'
    BY <1>1, <1>3, <2>1, OthersWork DEF IInv, AtWork
  <2>4. LockHasOwner'
    <3> SUFFICES ASSUME NEW m \in Producers, locks[m] # Nothing, ~ crashed
                 PROVE  bodies'[locks[m]].node = m /\ bodies'[locks[m]].pc \in Locking
      BY <1>1, <2>1 DEF LockHasOwner, Locking
    <3>1. bodies[locks[m]].node = m /\ bodies[locks[m]].pc \in Locking /\ locks[m] \in Executions
      BY <1>5 DEF IInv, LockHasOwner, Locking
    <3> QED
      BY <1>1, <1>3, <3>1 DEF Locking
  <2> QED
    BY <1>3, <2>2, <2>3, <2>4
<1>7. CASE pc = "verify"
  <2>1. locks[n] = Nothing /\ locks' = [locks EXCEPT ![n] = e]
    BY <1>2, <1>7
  <2>2. AtWork(e)'
    BY <1>3, <1>4, <1>5, <1>7, <2>1 DEF AtWork, Locking
  <2>3. \A o \in Executions : bodies[o].pc \in Locking => locks'[bodies[o].node] = o
    <3> SUFFICES ASSUME NEW o \in Executions, bodies[o].pc \in Locking
                 PROVE  locks'[bodies[o].node] = o
      OBVIOUS
    <3>1. Holding(o)
      BY DEF Holding, Locking
    <3>2. bodies[o].node \in Producers /\ locks[bodies[o].node] = o
      BY <3>1 DEF IInv, AtWork
    <3> QED
      BY <1>5, <2>1, <3>2
  <2>4. \A o \in Executions : o # e => AtWork(o)'
    BY <1>1, <1>3, <2>3, OthersWork DEF IInv, AtWork
  <2>5. LockHasOwner'
    <3> SUFFICES ASSUME NEW m \in Producers, locks'[m] # Nothing, ~ crashed
                 PROVE  bodies'[locks'[m]].node = m /\ bodies'[locks'[m]].pc \in Locking
      BY <1>1 DEF LockHasOwner, Locking
    <3>1. CASE m = n
      BY <1>3, <1>5, <1>7, <2>1, <3>1 DEF Locking
    <3>2. CASE m # n
      <4>1. locks'[m] = locks[m] /\ locks[m] \in Executions
        BY <1>5, <2>1, <3>2
      <4>2. bodies[locks[m]].node = m /\ bodies[locks[m]].pc \in Locking
        BY <4>1 DEF IInv, LockHasOwner, Locking
      <4> QED
        BY <1>1, <1>3, <4>1, <4>2 DEF Locking
    <3> QED
      BY <3>1, <3>2
  <2> QED
    BY <1>3, <2>2, <2>4, <2>5
<1> QED
  BY <1>6, <1>7

\* While a body has the lock no other one is about to rename onto its output.
LEMMA VerifyKeepsWork ==
  ASSUME IInv, NEW e \in Executions, VerifyTemporary(e)
  PROVE  (\A o \in Executions : AtWork(o)') /\ Claimed' /\ LockHasOwner'
<1>1. /\ bodies[e].pc = "verify" /\ active' = active /\ receipts' = receipts
      /\ locks' = locks /\ files' = files /\ crashed' = crashed
  BY DEF VerifyTemporary, disk, world
<1>2. PICK pc \in {"rename", "unlock_failed"} :
        Moves(e, pc) /\ (pc = "rename" => files[bodies[e].node] = Nothing)
  BY DEF VerifyTemporary, DestinationFree
<1>3. /\ Claimed'
      /\ \A o \in Executions : o # e => bodies'[o] = bodies[o]
      /\ bodies'[e].pc = pc /\ bodies'[e].node = bodies[e].node
      /\ bodies[e].node \in Producers /\ bodies[e].node \in Nodes /\ bodies'[e].key \in Keys
      /\ Fingerprint(bodies'[e]) \in active'
  BY <1>1, <1>2, ClaimGoesOn DEF Works
<1>4. Role[bodies[e].node] = "write" /\ locks[bodies[e].node] = e
  BY <1>1 DEF IInv, AtWork, Locking
<1>5. AtWork(e)'
  BY <1>1, <1>2, <1>3, <1>4 DEF AtWork, Locking
<1>6. \A o \in Executions : o # e => AtWork(o)'
  BY <1>1, <1>3, OthersWork DEF IInv, AtWork
<1>7. LockHasOwner'
  BY <1>1, <1>2, <1>3 DEF IInv, LockHasOwner, Typed
<1> QED
  BY <1>3, <1>5, <1>6, <1>7

LEMMA RenameKeepsWork ==
  ASSUME IInv, NEW e \in Executions, Rename(e)
  PROVE  (\A o \in Executions : AtWork(o)') /\ Claimed' /\ LockHasOwner'
<1>1. /\ bodies[e].pc = "rename" /\ active' = active /\ receipts' = receipts
      /\ locks' = locks /\ crashed' = crashed /\ Moves(e, "unlock")
      /\ files' = [files EXCEPT ![bodies[e].node] = Fingerprint(bodies[e])]
  BY DEF Rename, Produce, world
<1>3. /\ Claimed'
      /\ \A o \in Executions : o # e => bodies'[o] = bodies[o]
      /\ bodies'[e].pc = "unlock" /\ bodies'[e].node = bodies[e].node
      /\ bodies[e].node \in Producers /\ bodies[e].node \in Nodes /\ bodies'[e].key \in Keys
      /\ Fingerprint(bodies'[e]) \in active'
  BY <1>1, ClaimGoesOn DEF Works
<1>4. Role[bodies[e].node] = "write" /\ locks[bodies[e].node] = e
  BY <1>1 DEF IInv, AtWork, Locking
<1>5. AtWork(e)'
  BY <1>1, <1>3, <1>4 DEF AtWork, Locking
<1>6. \A o \in Executions : o # e /\ bodies[o].pc = "rename" => files'[bodies[o].node] = Nothing
  <2> SUFFICES ASSUME NEW o \in Executions, o # e, bodies[o].pc = "rename"
               PROVE  files'[bodies[o].node] = Nothing
    OBVIOUS
  <2>1. locks[bodies[o].node] = o /\ files[bodies[o].node] = Nothing
    BY DEF IInv, AtWork, Locking
  <2>2. bodies[o].node # bodies[e].node
    BY <1>4, <2>1
  <2> QED
    BY <1>1, <2>1, <2>2
<1>7. \A o \in Executions : o # e => AtWork(o)'
  BY <1>1, <1>3, <1>6, OthersWork DEF IInv, AtWork
<1>8. LockHasOwner'
  BY <1>1, <1>3 DEF IInv, LockHasOwner, Typed
<1> QED
  BY <1>3, <1>5, <1>7, <1>8

LEMMA UnlockKeepsWork ==
  ASSUME IInv, NEW e \in Executions, Unlock(e)
  PROVE  (\A o \in Executions : AtWork(o)') /\ Claimed' /\ LockHasOwner'
<1> DEFINE n == bodies[e].node
<1>1. /\ bodies[e].pc \in {"unlock", "unlock_failed"} /\ active' = active /\ receipts' = receipts
      /\ files' = files /\ crashed' = crashed
      /\ locks' = [locks EXCEPT ![n] = Nothing]
  BY DEF Unlock, Unlocked, world
<1>2. PICK pc \in {"complete", "release"} : Moves(e, pc)
  BY DEF Unlock
<1>3. /\ Claimed'
      /\ \A o \in Executions : o # e => bodies'[o] = bodies[o]
      /\ bodies'[e].pc = pc /\ bodies'[e].node = n
      /\ n \in Producers /\ n \in Nodes /\ bodies'[e].key \in Keys
      /\ Fingerprint(bodies'[e]) \in active'
  BY <1>1, <1>2, ClaimGoesOn DEF Works
<1>4. locks[n] = e
  BY <1>1 DEF IInv, AtWork, Locking
<1> HIDE DEF n
<1>5. locks \in [Producers -> Executions \cup {Nothing}]
  BY DEF IInv, Typed
<1>6. AtWork(e)'
  BY <1>2, <1>3 DEF AtWork, Locking
<1>7. \A o \in Executions : o # e /\ bodies[o].pc \in Locking => locks'[bodies[o].node] = o
  <2> SUFFICES ASSUME NEW o \in Executions, o # e, bodies[o].pc \in Locking
               PROVE  locks'[bodies[o].node] = o
    OBVIOUS
  <2>1. locks[bodies[o].node] = o
    BY DEF IInv, AtWork
  <2>2. bodies[o].node # n
    BY <1>4, <2>1
  <2> QED
    BY <1>1, <2>1, <2>2
<1>8. \A o \in Executions : o # e => AtWork(o)'
  BY <1>1, <1>3, <1>7, OthersWork DEF IInv, AtWork
<1>9. LockHasOwner'
  <2> SUFFICES ASSUME NEW m \in Producers, locks'[m] # Nothing, ~ crashed
               PROVE  bodies'[locks'[m]].node = m /\ bodies'[locks'[m]].pc \in Locking
    BY <1>1 DEF LockHasOwner, Locking
  <2>1. m # n /\ locks'[m] = locks[m] /\ locks[m] \in Executions
    BY <1>1, <1>5
  <2>2. bodies[locks[m]].node = m /\ bodies[locks[m]].pc \in Locking
    BY <2>1 DEF IInv, LockHasOwner, Locking
  <2>3. locks[m] # e
    BY <2>1, <2>2 DEF n
  <2> QED
    BY <1>3, <2>1, <2>2, <2>3
<1> QED
  BY <1>3, <1>6, <1>8, <1>9

\* combine takes no lock; its output is no output of a write node.
LEMMA CombineKeepsWork ==
  ASSUME IInv, NEW e \in Executions, Combine(e)
  PROVE  (\A o \in Executions : AtWork(o)') /\ Claimed' /\ LockHasOwner'
<1>1. /\ bodies[e].pc = "combine" /\ active' = active /\ receipts' = receipts
      /\ locks' = locks /\ crashed' = crashed
      /\ files' = files \/ files' = [files EXCEPT ![bodies[e].node] = Fingerprint(bodies[e])]
  BY DEF Combine, Produce, world
<1>2. PICK pc \in {"complete", "release"} : Moves(e, pc)
  BY DEF Combine
<1>3. /\ Claimed'
      /\ \A o \in Executions : o # e => bodies'[o] = bodies[o]
      /\ bodies'[e].pc = pc /\ bodies'[e].node = bodies[e].node
      /\ bodies[e].node \in Producers /\ bodies[e].node \in Nodes /\ bodies'[e].key \in Keys
      /\ Fingerprint(bodies'[e]) \in active'
  BY <1>1, <1>2, ClaimGoesOn DEF Works
<1>4. Role[bodies[e].node] = "combine"
  BY <1>1 DEF IInv, AtWork
<1>5. AtWork(e)'
  BY <1>2, <1>3 DEF AtWork, Locking
<1>6. \A o \in Executions : o # e /\ bodies[o].pc = "rename" => files'[bodies[o].node] = Nothing
  <2> SUFFICES ASSUME NEW o \in Executions, o # e, bodies[o].pc = "rename"
               PROVE  files'[bodies[o].node] = Nothing
    OBVIOUS
  <2>1. Role[bodies[o].node] = "write" /\ files[bodies[o].node] = Nothing
    BY DEF IInv, AtWork, Locking
  <2>2. bodies[o].node # bodies[e].node
    BY <1>4, <2>1
  <2>3. Holding(o)
    BY DEF Holding
  <2>4. bodies[o].node \in Producers /\ files \in [Producers -> Fingerprints \cup {Nothing}]
    BY <2>3 DEF IInv, AtWork, Typed
  <2>5. CASE files' = files
    BY <2>1, <2>5
  <2>6. CASE files' = [files EXCEPT ![bodies[e].node] = Fingerprint(bodies[e])]
    BY <2>1, <2>2, <2>4, <2>6
  <2> QED
    BY <1>1, <2>5, <2>6
<1>7. \A o \in Executions : o # e => AtWork(o)'
  BY <1>1, <1>3, <1>6, OthersWork DEF IInv, AtWork
<1>8. LockHasOwner'
  <2> SUFFICES ASSUME NEW m \in Producers, locks[m] # Nothing, ~ crashed
               PROVE  bodies'[locks[m]].node = m /\ bodies'[locks[m]].pc \in Locking
    BY <1>1 DEF LockHasOwner, Locking
  <2>1. bodies[locks[m]].node = m /\ bodies[locks[m]].pc \in Locking /\ locks[m] \in Executions
    BY DEF IInv, LockHasOwner, Locking, Typed
  <2> QED
    BY <1>1, <1>3, <2>1 DEF Locking
<1> QED
  BY <1>3, <1>5, <1>7, <1>8

\* complete() and release(): the claim goes with its body, and only that claim.
LEMMA SettleKeepsWork ==
  ASSUME IInv, NEW e \in Executions, Complete(e) \/ Release(e)
  PROVE  (\A o \in Executions : AtWork(o)') /\ Claimed' /\ LockHasOwner' /\ receipts \subseteq receipts'
<1> DEFINE print == Fingerprint(bodies[e])
<1>1. /\ bodies[e].pc \in {"complete", "release"} /\ active' = active \ {print}
      /\ locks' = locks /\ files' = files /\ crashed' = crashed
      /\ receipts' = receipts \/ receipts' = receipts \cup {print}
  BY DEF Complete, Release, world, disk
<1>2. PICK pc \in {"returned", "thrown"} :
        Moves(e, pc) /\ (pc = "returned" => print \in receipts')
  BY DEF Complete, Release
<1>3. /\ \A o \in Executions : o # e => bodies'[o] = bodies[o]
      /\ bodies'[e].pc = pc /\ bodies'[e].node = bodies[e].node /\ bodies'[e].key = bodies[e].key
      /\ Fingerprint(bodies'[e]) = print
  BY <1>2, MoveFacts DEF IInv, Steps
<1>4. Holding(e) /\ bodies[e].pc # "none"
  BY <1>1 DEF Holding
<1>5. bodies[e].node \in Nodes /\ bodies[e].key \in Keys /\ bodies[e].node \in Producers /\ print \in active
  BY <1>4 DEF IInv, AtWork
<1> HIDE DEF print
<1>6. ~ Holding(e)'
  BY <1>3 DEF Holding
<1>7. AtWork(e)'
  BY <1>2, <1>3, <1>5, <1>6 DEF AtWork, Locking
<1>8. \A o \in Executions : o # e => (Holding(o)' <=> Holding(o))
  BY <1>3 DEF Holding
<1>9. \A o \in Executions : o # e /\ Holding(o) => Fingerprint(bodies[o]) # print
  BY <1>4 DEF IInv, Claimed, print
<1>10. \A o \in Executions : o # e /\ Holding(o) => Fingerprint(bodies[o]) \in active'
  BY <1>1, <1>9 DEF IInv, AtWork
<1>11. \A o \in Executions : o # e => AtWork(o)'
  BY <1>1, <1>3, <1>10, OthersWork DEF IInv, AtWork
<1>12. LockHasOwner'
  <2> SUFFICES ASSUME NEW m \in Producers, locks[m] # Nothing, ~ crashed
               PROVE  bodies'[locks[m]].node = m /\ bodies'[locks[m]].pc \in Locking
    BY <1>1 DEF LockHasOwner, Locking
  <2>1. bodies[locks[m]].node = m /\ bodies[locks[m]].pc \in Locking /\ locks[m] \in Executions
    BY DEF IInv, LockHasOwner, Locking, Typed
  <2> QED
    BY <1>1, <1>3, <2>1 DEF Locking
<1>13. Claimed'
  <2>1. active' \cap receipts' = {}
    BY <1>1 DEF IInv, Claimed
  <2>2. ASSUME NEW o \in Executions, NEW q \in Executions, Holding(o)', Holding(q)',
               Fingerprint(bodies'[o]) = Fingerprint(bodies'[q])
        PROVE  o = q
    BY <1>3, <1>6, <1>8, <2>2 DEF IInv, Claimed
  <2>3. ASSUME NEW p \in active' PROVE \E o \in Executions : Holding(o)' /\ Fingerprint(bodies'[o]) = p
    <3>1. p \in active /\ p # print
      BY <1>1
    <3>2. PICK o \in Executions : Holding(o) /\ Fingerprint(bodies[o]) = p
      BY <3>1 DEF IInv, Claimed
    <3>3. o # e
      BY <3>1, <3>2 DEF print
    <3> QED
      BY <1>3, <1>8, <3>2, <3>3
  <2> QED
    BY <2>1, <2>2, <2>3 DEF Claimed
<1> QED
  BY <1>1, <1>7, <1>11, <1>12, <1>13

LEMMA BodyKeepsWork ==
  ASSUME IInv, NEW e \in Executions, BodyStep(e)
  PROVE  (\A o \in Executions : AtWork(o)') /\ Claimed' /\ LockHasOwner' /\ receipts \subseteq receipts'
<1>1. Complete(e) \/ Release(e) \/ receipts' = receipts
  BY DEF BodyStep, LookNode, RefuseInput, Claim, CheckDestination, TakeLock, VerifyTemporary,
         Rename, Unlock, Combine, disk
<1> QED
  BY <1>1, LookKeepsWork, ClaimKeepsWork, CheckKeepsWork, LockKeepsWork, VerifyKeepsWork,
     RenameKeepsWork, UnlockKeepsWork, CombineKeepsWork, SettleKeepsWork DEF BodyStep

\* What bodies put on disk and claim are fingerprints of what they produce.
LEMMA BodyTyped ==
  ASSUME IInv, NEW e \in Executions, BodyStep(e)
  PROVE  Typed'
<1>1. Stays(e) /\ execs' = execs /\ inputs' = inputs /\ touches' = touches /\ crashed' = crashed
  BY BodyStays DEF IInv, world
<1>2. Typed /\ AtWork(e) /\ bodies[e] \in Bodies
  BY DEF IInv, Typed
<1>3. bodies[e].node \in Producers /\ bodies[e].key \in Keys => Fingerprint(bodies[e]) \in Fingerprints
  BY <1>2 DEF Fingerprint, Fingerprints, Bodies, Envelopes
<1>4. CASE LookNode(e) \/ RefuseInput(e) \/ CheckDestination(e) \/ VerifyTemporary(e)
  BY <1>1, <1>2, <1>4 DEF LookNode, RefuseInput, CheckDestination, VerifyTemporary, Typed, disk, Stays
<1>5. CASE Claim(e)
  <2>1. Fingerprint(bodies[e]) \in Fingerprints
    BY <1>2, <1>3, <1>5 DEF Claim, AtWork
  <2> QED
    BY <1>1, <1>2, <1>5, <2>1 DEF Claim, Typed, disk, Stays
<1>6. CASE TakeLock(e) \/ Unlock(e)
  BY <1>1, <1>2, <1>6 DEF TakeLock, Unlock, Unlocked, Typed, Stays
<1>7. CASE Rename(e) \/ Combine(e) \/ Complete(e) \/ Release(e)
  <2>1. Holding(e) /\ bodies[e].pc # "none"
    BY <1>7 DEF Rename, Combine, Complete, Release, Holding
  <2>2. Fingerprint(bodies[e]) \in Fingerprints
    BY <1>2, <1>3, <2>1 DEF AtWork
  <2> HIDE DEF Fingerprint
  <2>3. CASE Rename(e) \/ Combine(e)
    BY <1>1, <1>2, <2>2, <2>3 DEF Rename, Combine, Produce, Typed, Stays
  <2>4. CASE Complete(e) \/ Release(e)
    BY <1>1, <1>2, <2>2, <2>4 DEF Complete, Release, Typed, disk, Stays
  <2> QED
    BY <1>7, <2>3, <2>4
<1> QED
  BY <1>4, <1>5, <1>6, <1>7 DEF BodyStep

-----------------------------------------------------------------------------
(* The user and the machine *)

LEMMA TouchKeeps ==
  ASSUME IInv, EditInputs \/ \E n \in Producers : TakeOutputAway(n)
  PROVE  IInv'
<1>1. /\ execs' = execs /\ bodies' = bodies /\ active' = active /\ receipts' = receipts
      /\ locks' = locks /\ crashed' = crashed
      /\ edges' = edges /\ verdict' = verdict /\ plan' = plan
  BY DEF EditInputs, TakeOutputAway, engine, disk
<1>2. files' = files \/ \E n \in Producers : files' = [files EXCEPT ![n] = Nothing]
  BY DEF EditInputs, TakeOutputAway, disk
<1>3. inputs' \in Versions /\ touches' \in 0 .. MaxTouches
  BY TouchesAssumption DEF EditInputs, TakeOutputAway, Touch, IInv, Typed
<1>4. Typed'
  BY <1>1, <1>2, <1>3 DEF IInv, Typed
<1>5. Ordered' /\ Claimed' /\ LockHasOwner' /\ Receipted' /\ PastTheEnd'
  BY <1>1 DEF IInv, Ordered, Claimed, LockHasOwner, Receipted, PastTheEnd, Holding
<1>6. ASSUME NEW o \in Executions PROVE AtNode(o)' /\ AtWork(o)'
  <2>1. AtNode(o) /\ AtWork(o)
    BY DEF IInv
  <2>2. AtNode(o)'
    BY <1>1, <2>1 DEF AtNode
  <2>3. bodies[o].pc = "rename" => files'[bodies[o].node] = Nothing
    <3> SUFFICES ASSUME bodies[o].pc = "rename" PROVE files'[bodies[o].node] = Nothing
      OBVIOUS
    <3>1. Holding(o)
      BY DEF Holding
    <3>2. files[bodies[o].node] = Nothing /\ bodies[o].node \in Producers
      BY <2>1, <3>1 DEF AtWork
    <3> QED
      BY <1>2, <3>2 DEF IInv, Typed
  <2>4. AtWork(o)'
    BY <1>1, <2>1, <2>3 DEF AtWork, Holding
  <2> QED
    BY <2>2, <2>4
<1> QED
  BY <1>4, <1>5, <1>6 DEF IInv

\* A crash leaves the receipts, the locks and the files, and no body and no claim.
LEMMA CrashKeeps ==
  ASSUME IInv, Crash
  PROVE  IInv'
<1>1. /\ active' = {} /\ receipts' = receipts /\ locks' = locks /\ files' = files /\ crashed' = TRUE
      /\ edges' = edges /\ verdict' = verdict /\ plan' = plan /\ inputs' = inputs
      /\ touches' \in 0 .. MaxTouches
      /\ bodies' = [e \in Executions |-> NoBody]
      /\ execs' = [e \in Executions |->
            IF execs[e].state \in {"next", "node"} THEN [execs[e] EXCEPT !.state = "failed"]
            ELSE execs[e]]
  BY TouchesAssumption DEF Crash, Touch, engine, disk, IInv, Typed
<1>2. \A o \in Executions : bodies'[o].pc = "none" /\ bodies'[o] \in Bodies
  BY <1>1, NoBodyTyped
<1>3. ASSUME NEW o \in Executions
      PROVE  /\ execs'[o] \in Execs
             /\ execs'[o].state = IF execs[o].state \in {"next", "node"} THEN "failed" ELSE execs[o].state
             /\ execs'[o].key = execs[o].key /\ execs'[o].at = execs[o].at
             /\ execs'[o].outputs = execs[o].outputs
  <2>1. execs[o] \in Execs
    BY DEF IInv, Typed
  <2>2. execs'[o] = IF execs[o].state \in {"next", "node"} THEN [execs[o] EXCEPT !.state = "failed"]
                    ELSE execs[o]
    BY <1>1
  <2> QED
    BY <2>1, <2>2 DEF Execs, States
<1>4. Typed'
  <2>1. execs' \in [Executions -> Execs]
    BY <1>1, <1>3
  <2>2. bodies' \in [Executions -> Bodies]
    BY <1>1, <1>2
  <2> QED
    BY <1>1, <2>1, <2>2 DEF IInv, Typed
<1>5. ASSUME NEW o \in Executions PROVE AtNode(o)' /\ AtWork(o)'
  <2>1. AtNode(o)
    BY DEF IInv
  <2>2. AtNode(o)'
    BY <1>1, <1>2, <1>3, <2>1 DEF AtNode
  <2>3. AtWork(o)'
    BY <1>2 DEF AtWork, Holding, Locking
  <2> QED
    BY <2>2, <2>3
<1>6. \A o \in Executions : ~ Holding(o)'
  BY <1>2 DEF Holding
<1>7. Claimed'
  BY <1>1, <1>6 DEF Claimed
<1>8. Ordered' /\ LockHasOwner'
  BY <1>1 DEF IInv, Ordered, LockHasOwner
<1>9. Receipted'
  BY <1>1, <1>3 DEF IInv, Receipted
<1>10. PastTheEnd'
  BY <1>1, <1>3 DEF IInv, PastTheEnd
<1> QED
  BY <1>4, <1>5, <1>7, <1>8, <1>9, <1>10 DEF IInv

LEMMA ValidateKeeps ==
  ASSUME IInv, Validate
  PROVE  IInv'
<1>1. /\ execs' = execs /\ bodies' = bodies /\ active' = active /\ receipts' = receipts
      /\ locks' = locks /\ files' = files /\ inputs' = inputs /\ touches' = touches
      /\ crashed' = crashed /\ verdict = "unchecked"
  BY DEF Validate, disk, world
<1>2. Ordered'
  BY ValidateIsExact DEF IInv
<1>3. Typed' /\ Claimed' /\ LockHasOwner' /\ Receipted'
  BY <1>1 DEF IInv, Typed, Claimed, LockHasOwner, Receipted, Holding
<1>4. ASSUME NEW o \in Executions PROVE AtNode(o)' /\ AtWork(o)' /\ execs[o].state = "idle"
  <2>1. AtNode(o) /\ AtWork(o)
    BY DEF IInv
  <2>2. execs[o].state = "idle" /\ execs[o].at = 0
    BY <1>1, <2>1 DEF AtNode
  <2>3. AtWork(o)'
    BY <1>1, <2>1 DEF AtWork, Holding
  <2>4. Listed(plan, 0 - 1) = {} /\ Listed(plan', 0 - 1) = {}
    BY DEF Listed
  <2>5. Len(plan') \in Nat
    BY <1>2 DEF Ordered
  <2>6. DOMAIN execs[o].outputs = {} /\ bodies[o].pc = "none"
    BY <2>1, <2>2, <2>4 DEF AtNode
  <2>7. AtNode(o)'
    BY <1>1, <2>2, <2>4, <2>5, <2>6 DEF AtNode
  <2> QED
    BY <2>2, <2>3, <2>7
<1>5. PastTheEnd'
  BY <1>1, <1>4 DEF PastTheEnd
<1> QED
  BY <1>2, <1>3, <1>4, <1>5 DEF IInv

-----------------------------------------------------------------------------
(* The theorems *)

LEMMA InitIInv == Init => IInv
<1> SUFFICES ASSUME Init PROVE IInv
  OBVIOUS
<1>1. \A e \in Executions : execs[e] = Idle /\ bodies[e] = NoBody
  BY DEF Init
<1>2. Typed
  <2>1. execs \in [Executions -> Execs] /\ bodies \in [Executions -> Bodies]
    BY IdleTyped, NoBodyTyped DEF Init
  <2>2. active \in SUBSET Fingerprints /\ receipts \in SUBSET Fingerprints /\ inputs \in Versions
    BY DEF Init
  <2>3. locks \in [Producers -> Executions \cup {Nothing}] /\ files \in [Producers -> Fingerprints \cup {Nothing}]
    <3>1. locks = [n \in Producers |-> Nothing] /\ files = [n \in Producers |-> Nothing]
      BY DEF Init
    <3> QED
      BY <3>1
  <2>4. touches \in 0 .. MaxTouches /\ crashed \in BOOLEAN
    <3>1. 0 \in 0 .. MaxTouches
      BY TouchesAssumption
    <3>2. touches = 0 /\ crashed = FALSE
      BY Zenon DEF Init
    <3> QED
      BY <3>1, <3>2
  <2> QED
    BY <2>1, <2>2, <2>3, <2>4 DEF Typed
<1>3. Ordered
  <2>1. Cardinality(Nodes) \in Nat
    BY FS_CardinalityType
  <2> QED
    BY <2>1 DEF Init, Ordered
<1>4. Idle.state = "idle" /\ Idle.at = 0
  BY DEF Idle
<1>5. ASSUME NEW e \in Executions PROVE AtNode(e) /\ AtWork(e) /\ ~ Holding(e)
  <2>1. Len(plan) = 0 /\ Listed(plan, 0 - 1) = {}
    BY DEF Init, Listed
  <2>2. execs[e].state = "idle" /\ execs[e].at = 0 /\ DOMAIN execs[e].outputs = {} /\ bodies[e].pc = "none"
    BY <1>1, <1>4, IdleTyped, NoBodyTyped
  <2>4. AtNode(e)
    BY <2>1, <2>2 DEF AtNode
  <2>3. AtWork(e) /\ ~ Holding(e)
    BY <1>1, NoBodyTyped DEF AtWork, Holding, Locking
  <2> QED
    BY <2>3, <2>4
<1>6. Claimed
  BY <1>5 DEF Init, Claimed
<1>7. LockHasOwner
  BY DEF Init, LockHasOwner
<1>8. Receipted /\ PastTheEnd
  BY <1>1, <1>4, IdleTyped DEF Receipted, PastTheEnd
<1> QED
  BY <1>2, <1>3, <1>5, <1>6, <1>7, <1>8 DEF IInv

LEMMA NextIInv == IInv /\ [Next]_vars => IInv'
<1> SUFFICES ASSUME IInv, [Next]_vars PROVE IInv'
  OBVIOUS
<1>1. ASSUME NEW e \in Executions, Engine(e) PROVE IInv'
  <2>1. /\ UNCHANGED <<engine, active, receipts, locks, files, world>>
        /\ \A o \in Executions : o # e => bodies'[o] = bodies[o] /\ execs'[o] = execs[o]
        /\ execs' \in [Executions -> Execs] /\ bodies' \in [Executions -> Bodies]
    BY <1>1, EngineBodies, EngineExecs DEF Apart
  <2>2. Typed' /\ Ordered'
    BY <2>1 DEF IInv, Typed, Ordered, engine, world
  <2>3. (\A o \in Executions : AtWork(o)') /\ Claimed' /\ LockHasOwner'
    BY <1>1, EngineKeepsWork
  <2>4. ASSUME NEW o \in Executions
        PROVE  /\ AtNode(o)'
               /\ execs'[o].state = "succeeded" => execs'[o].at = Len(plan') + 1
               /\ \A n \in Producers \cap DOMAIN execs'[o].outputs :
                    \/ execs'[o].outputs[n].produced = "in_progress"
                    \/ [key |-> execs'[o].key, node |-> n, hashes |-> execs'[o].outputs[n].hashes] \in receipts'
    <3>1. CASE o = e
      BY <1>1, <3>1, EngineKeepsPlace
    <3>2. CASE o # e
      <4>1. execs'[o] = execs[o] /\ bodies'[o] = bodies[o] /\ plan' = plan /\ verdict' = verdict
            /\ receipts' = receipts
        BY <2>1, <3>2 DEF engine
      <4>2. AtNode(o)'
        BY <4>1 DEF IInv, AtNode
      <4> QED
        BY <4>1, <4>2 DEF IInv, PastTheEnd, Receipted
    <3> QED
      BY <3>1, <3>2
  <2>5. Receipted' /\ PastTheEnd'
    BY <2>4 DEF Receipted, PastTheEnd
  <2> QED
    BY <2>2, <2>3, <2>4, <2>5 DEF IInv
<1>2. ASSUME NEW e \in Executions, BodyStep(e) PROVE IInv'
  <2>1. (\A o \in Executions : AtWork(o)') /\ Claimed' /\ LockHasOwner' /\ receipts \subseteq receipts'
    BY <1>2, BodyKeepsWork
  <2>2. Typed'
    BY <1>2, BodyTyped
  <2>3. (\A o \in Executions : AtNode(o)') /\ Receipted' /\ PastTheEnd' /\ Ordered'
    BY <1>2, <2>1, BodyKeepsPlace
  <2> QED
    BY <2>1, <2>2, <2>3 DEF IInv
<1>3. CASE UNCHANGED vars
  <2>1. /\ execs' = execs /\ bodies' = bodies /\ active' = active /\ receipts' = receipts
        /\ locks' = locks /\ files' = files /\ inputs' = inputs /\ touches' = touches
        /\ crashed' = crashed /\ edges' = edges /\ verdict' = verdict /\ plan' = plan
    BY <1>3 DEF vars, engine, disk, world
  <2>2. Typed' /\ Ordered' /\ Claimed' /\ LockHasOwner' /\ Receipted' /\ PastTheEnd'
    BY <2>1 DEF IInv, Typed, Ordered, Claimed, LockHasOwner, Receipted, PastTheEnd, Holding
  <2>3. \A o \in Executions : AtNode(o)' /\ AtWork(o)'
    BY <2>1 DEF IInv, AtNode, AtWork, Holding
  <2> QED
    BY <2>2, <2>3 DEF IInv
<1> QED
  BY <1>1, <1>2, <1>3, ValidateKeeps, TouchKeeps, CrashKeeps DEF Next, Engine

LEMMA IInvHolds == Spec => []IInv
  BY InitIInv, NextIInv, PTL DEF Spec

\* What validateWorkflow() accepts is connected and has no cycle, and is run in the stable order.
THEOREM AcceptedIsRun == Spec => AcceptedIsRunnable
<1>1. IInv /\ [Next]_vars =>
        [verdict' # verdict =>
          /\ (verdict' = "accepted") <=> (Acyclic(Nodes, edges) /\ Connected(Nodes, edges))
          /\ verdict' = "accepted" => IsStableOrder(plan', Nodes, edges)]_vars
  <2> SUFFICES ASSUME IInv, Next, verdict' # verdict
               PROVE  /\ (verdict' = "accepted") <=> (Acyclic(Nodes, edges) /\ Connected(Nodes, edges))
                      /\ verdict' = "accepted" => IsStableOrder(plan', Nodes, edges)
    OBVIOUS
  <2>1. ASSUME NEW e \in Executions, Engine(e) PROVE verdict' = verdict
    BY <2>1, EngineBodies DEF engine
  <2>2. ASSUME NEW e \in Executions, BodyStep(e) PROVE verdict' = verdict
    BY <2>2, BodyStays DEF IInv, engine
  <2>3. EditInputs \/ Crash \/ (\E n \in Producers : TakeOutputAway(n)) => verdict' = verdict
    BY DEF EditInputs, Crash, TakeOutputAway, engine
  <2>4. Validate
    BY <2>1, <2>2, <2>3 DEF Next, Engine
  <2> QED
    BY <2>4, ValidateIsExact DEF IInv
<1> QED
  BY <1>1, IInvHolds, PTL DEF AcceptedIsRunnable, Spec

\* An output that is there stays, and what has its receipt is not produced again.
THEOREM OutputsAreKept == Spec => OutputsKept
<1>1. ASSUME IInv, [Next]_vars, NEW n \in Producers
      PROVE  /\ Role[n] = "write" /\ files[n] # Nothing => files'[n] \in {files[n], Nothing}
             /\ files'[n] \notin {files[n], Nothing} => files'[n] \notin receipts
  <2>1. ASSUME NEW e \in Executions, Rename(e) \/ Combine(e), files'[n] # files[n]
        PROVE  /\ Role[n] = "write" => files[n] = Nothing
               /\ files'[n] \notin receipts
    <3>1. Holding(e) /\ files' = [files EXCEPT ![bodies[e].node] = Fingerprint(bodies[e])]
      BY <2>1 DEF Rename, Combine, Produce, Holding
    <3>2. Fingerprint(bodies[e]) \notin receipts /\ AtWork(e)
      BY <1>1, <3>1 DEF IInv, AtWork, Claimed
    <3>3. n = bodies[e].node /\ files'[n] = Fingerprint(bodies[e])
      BY <1>1, <2>1, <3>1 DEF IInv, Typed
    <3>4. Role[n] = "write" => files[n] = Nothing
      BY <2>1, <3>2, <3>3 DEF AtWork, Rename, Combine
    <3> QED
      BY <3>2, <3>3, <3>4
  <2>2. \/ files'[n] \in {files[n], Nothing}
        \/ \E e \in Executions : Rename(e) \/ Combine(e)
    <3>1. ASSUME NEW e \in Executions, Engine(e) PROVE files' = files
      BY <1>1, <3>1, EngineBodies
    <3>2. ASSUME NEW e \in Executions, BodyStep(e), ~ Rename(e), ~ Combine(e) PROVE files' = files
      BY <3>2 DEF BodyStep, LookNode, RefuseInput, Claim, CheckDestination, TakeLock,
                  VerifyTemporary, Unlock, Complete, Release, disk
    <3>3. EditInputs \/ Crash \/ Validate \/ UNCHANGED vars => files' = files
      BY DEF EditInputs, Crash, Validate, vars, disk
    <3>4. ASSUME NEW m \in Producers, TakeOutputAway(m) PROVE files'[n] \in {files[n], Nothing}
      BY <1>1, <3>4 DEF TakeOutputAway, IInv, Typed
    <3> QED
      BY <1>1, <3>1, <3>2, <3>3, <3>4 DEF Next, Engine
  <2> QED
    BY <2>1, <2>2
<1>2. IInv /\ [Next]_vars =>
        /\ [\A n \in Producers :
              (Role[n] = "write" /\ files[n] # Nothing) => files'[n] \in {files[n], Nothing}]_vars
        /\ [\A n \in Producers :
              files'[n] \notin {files[n], Nothing} => files'[n] \notin receipts]_vars
  BY <1>1
<1> QED
  BY <1>2, IInvHolds, PTL DEF OutputsKept, OutputKept, ReceiptedNotProduced, Spec

\* Every claim is one body's, every lock has an owner who removes it, and an execution that
\* succeeded left its receipts.
THEOREM JobsAreSafe == Spec => []JobSafe
<1>1. IInv => JobSafe
  <2> SUFFICES ASSUME IInv PROVE JobSafe
    OBVIOUS
  <2>0. Typed /\ Ordered /\ Cardinality(Nodes) \in Nat
    BY FS_CardinalityType DEF IInv
  <2>1. TypeOK
    <3>1. ASSUME NEW e \in Executions
          PROVE  /\ execs[e].state \in States
                 /\ execs[e].key \in Keys \cup {Nothing}
                 /\ execs[e].at \in 0 .. (Cardinality(Nodes) + 1)
                 /\ DOMAIN execs[e].outputs = {plan[i] : i \in 1 .. (execs[e].at - 1)}
                 /\ \A n \in DOMAIN execs[e].outputs : execs[e].outputs[n] \in Envelopes
                 /\ execs[e].aborted \in BOOLEAN
      <4>1. execs[e] \in Execs /\ AtNode(e)
        BY <2>0 DEF IInv, Typed
      <4>2. execs[e].at \in 0 .. (Cardinality(Nodes) + 1)
        BY <2>0, <4>1 DEF Execs, AtNode, Ordered
      <4>3. DOMAIN execs[e].outputs = {plan[i] : i \in 1 .. (execs[e].at - 1)}
        BY <4>1 DEF AtNode, Listed
      <4>4. \A n \in DOMAIN execs[e].outputs : execs[e].outputs[n] \in Envelopes
        BY <2>0, OutputsTyped
      <4> QED
        BY <4>1, <4>2, <4>3, <4>4 DEF Execs
    <3> QED
      BY <2>0, <3>1 DEF TypeOK, Typed, Ordered, Bodies
  <2>2. ClaimHeldOnce
    <3> SUFFICES ASSUME NEW print \in Fingerprints
                 PROVE  Cardinality({e \in Executions : Holding(e) /\ Fingerprint(bodies[e]) = print}) =
                          IF print \in active THEN 1 ELSE 0
      BY DEF ClaimHeldOnce
    <3> DEFINE H == {e \in Executions : Holding(e) /\ Fingerprint(bodies[e]) = print}
    <3>1. CASE print \in active
      <4>1. PICK e \in Executions : Holding(e) /\ Fingerprint(bodies[e]) = print
        BY <3>1 DEF IInv, Claimed
      <4>2. H = {e}
        BY <4>1 DEF IInv, Claimed
      <4>3. Cardinality(H) = 1
        BY <4>2, FS_Singleton
      <4> QED
        BY <3>1, <4>3
    <3>2. CASE print \notin active
      <4>1. H = {}
        BY <3>2 DEF IInv, AtWork
      <4>2. Cardinality(H) = 0
        BY <4>1, FS_EmptySet
      <4> QED
        BY <3>2, <4>2
    <3> QED
      BY <3>1, <3>2
  <2>3. LockHasOwner
    BY DEF IInv
  <2>4. SucceededIsReceipted
    <3> SUFFICES ASSUME NEW e \in Executions, execs[e].state = "succeeded", NEW n \in Producers
                 PROVE  \/ execs[e].outputs[n].produced = "in_progress"
                        \/ [key |-> execs[e].key, node |-> n, hashes |-> execs[e].outputs[n].hashes]
                             \in receipts
      BY DEF SucceededIsReceipted
    <3>1. execs[e].at = Len(plan) + 1 /\ AtNode(e)
      BY DEF IInv, PastTheEnd
    <3>2. Len(plan) \in Nat /\ Listed(plan, Len(plan)) = Nodes
      BY <2>0, <3>1 DEF Ordered, AtNode
    <3>3. DOMAIN execs[e].outputs = Nodes
      BY <3>1, <3>2 DEF AtNode
    <3>4. n \in Producers \cap DOMAIN execs[e].outputs
      BY <3>3 DEF Producers
    <3> QED
      BY <3>4 DEF IInv, Receipted
  <2> QED
    BY <2>1, <2>2, <2>3, <2>4 DEF JobSafe
<1> QED
  BY <1>1, IInvHolds, PTL

=============================================================================
