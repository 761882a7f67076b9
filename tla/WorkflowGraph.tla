--------------------------- MODULE WorkflowGraph ---------------------------
(***************************************************************************)
(* The graph of a Workflow as the schema validates it (semantic.ts) and as  *)
(* the engine orders it (runner.ts).  Nodes are numbers: the code sorts     *)
(* node ids, and only their order matters.  A graph is a set of edges       *)
(* <<from, to>>; duplicate edges and self-loops are refused by the schema.  *)
(***************************************************************************)
EXTENDS Naturals, FiniteSets, Sequences

Least(S) == CHOOSE n \in S : \A m \in S : n <= m

Predecessors(n, edges) == {m \in {edge[1] : edge \in edges} : <<m, n>> \in edges}

Targets(n, edges) == {m \in {edge[2] : edge \in edges} : <<n, m>> \in edges}

(* The state of Kahn's algorithm before its first round.  The queue of the  *)
(* code is sorted after every push, so it is the set it holds.              *)
KahnStart(nodes, edges) ==
    [queue |-> {n \in nodes : Predecessors(n, edges) = {}},
     degree |-> [n \in nodes |-> Cardinality(Predecessors(n, edges))],
     ordered |-> <<>>]

(* Mutant: a node is queued as soon as one predecessor is ordered.          *)
KahnRoundEager(edges, s) ==
    LET n == Least(s.queue)
    IN  [queue |-> (s.queue \ {n}) \cup Targets(n, edges),
         degree |-> s.degree,
         ordered |-> Append(s.ordered, n)]

KahnRound(edges, s) ==
    LET n == Least(s.queue)
        degree == [m \in DOMAIN s.degree |->
                      IF m \in Targets(n, edges) THEN s.degree[m] - 1 ELSE s.degree[m]]
    IN  [queue |-> (s.queue \ {n}) \cup {m \in Targets(n, edges) : degree[m] = 0},
         degree |-> degree,
         ordered |-> Append(s.ordered, n)]

TopologicalOrder(nodes, edges) ==
    LET round[i \in 0..Cardinality(nodes)] ==
            IF i = 0 THEN KahnStart(nodes, edges)
            ELSE IF round[i - 1].queue = {} THEN round[i - 1]
            ELSE KahnRound(edges, round[i - 1])
    IN  round[Cardinality(nodes)].ordered

(* detectCycle: the same rounds, and a node they never reach is on or       *)
(* behind a cycle.                                                          *)
DetectCycle(nodes, edges) == Len(TopologicalOrder(nodes, edges)) # Cardinality(nodes)

(* findDisconnectedNodes: a breadth-first search from the first node along  *)
(* the edges in both directions.                                            *)
DisconnectedNodes(nodes, edges) ==
    LET Widen(S) == S \cup UNION {Predecessors(n, edges) \cup Targets(n, edges) : n \in S}
        visited[i \in 0..Cardinality(nodes)] ==
            IF i = 0 THEN {Least(nodes)} ELSE Widen(visited[i - 1])
    IN  nodes \ visited[Cardinality(nodes)]

ValidateWorkflow(nodes, edges) ==
    /\ ~DetectCycle(nodes, edges)
    /\ DisconnectedNodes(nodes, edges) = {}

-----------------------------------------------------------------------------
(* What validation and ordering are for, without an algorithm.              *)

(* In every set of nodes one has no predecessor in the set.                 *)
Acyclic(nodes, edges) ==
    \A S \in (SUBSET nodes) \ {{}} : \E n \in S : Predecessors(n, edges) \cap S = {}

(* No part of the graph is cut off from the rest.                           *)
Connected(nodes, edges) ==
    \A S \in (SUBSET nodes) \ {{}, nodes} :
        \E edge \in edges : (edge[1] \in S) # (edge[2] \in S)

(* plan lists every node once, behind its predecessors, and among those     *)
(* that could come next it always takes the least.                          *)
IsStableOrder(plan, nodes, edges) ==
    /\ Len(plan) = Cardinality(nodes)
    /\ \A i \in DOMAIN plan :
          LET before == {plan[j] : j \in 1..(i - 1)}
          IN  plan[i] = Least({n \in nodes \ before : Predecessors(n, edges) \subseteq before})
=============================================================================
