------------------------------ MODULE SSSPGraph ------------------------------
(***************************************************************************)
(* The input graph of the shortest-path applications (apps/sssp,          *)
(* apps/astar), the reference distances the parallel algorithms must      *)
(* compute, and the result check verify() of SSSP.cpp.                     *)
(***************************************************************************)
EXTENDS Integers, Sequences, FiniteSets, FiniteSetsExt

CONSTANTS
  Node,        \* graph nodes
  Source,      \* -startNode
  Adj          \* out-edges of each node in CSR order: <<dst, weight>>

\* What the graph reader yields; assumed by the modules that fix Adj.
GraphOK == Source \in Node /\ Adj \in [Node -> Seq(Node \X Nat)]

\* graph.getEdgeDst(ii) and graph.getEdgeData(ii) of the i-th out-edge of n.
Dst(n, i) == Adj[n][i][1]
Weight(n, i) == Adj[n][i][2]

Edges == UNION {{<<u, Dst(u, i), Weight(u, i)>> : i \in 1..Len(Adj[u])} : u \in Node}

(* Reference: Bellman-Ford distances from Source after k rounds, with      *)
(* Unreached for nodes that no path of at most k edges reaches.           *)
Unreached == -1

RECURSIVE BellmanFord(_)
BellmanFord(k) ==
  IF k = 0
    THEN [n \in Node |-> IF n = Source THEN 0 ELSE Unreached]
    ELSE LET p == BellmanFord(k - 1)
             cand(n) == {p[e[1]] + e[3] : e \in {e \in Edges : e[2] = n /\ p[e[1]] # Unreached}}
                        \cup (IF p[n] = Unreached THEN {} ELSE {p[n]})
         IN [n \in Node |-> IF cand(n) = {} THEN Unreached ELSE Min(cand(n))]

ShortestPath == BellmanFord(Cardinality(Node))

(* The distances a correct run leaves: the shortest-path distance, or the  *)
(* sentinel inf for nodes the source does not reach.                      *)
Expected(inf) ==
  [n \in Node |-> IF ShortestPath[n] = Unreached THEN inf ELSE ShortestPath[n]]

(* <<n, k>> such that a walk of length k < inf leads from Source to n:    *)
(* the least set that holds <<Source, 0>> and is closed under extending   *)
(* a walk by one edge.                                                    *)
RECURSIVE WalkClosure(_, _)
WalkClosure(S, inf) ==
  LET S1 == S \cup {<<pe[2][2], pe[1][2] + pe[2][3]>> :
                      pe \in {pe \in S \X Edges : /\ pe[2][1] = pe[1][1]
                                                  /\ pe[1][2] + pe[2][3] < inf}}
  IN IF S1 = S THEN S ELSE WalkClosure(S1, inf)

WalksBelow(inf) == WalkClosure({<<Source, 0>>}, inf)

(* not_consistent(n): a reached node with an out-edge (n, v, w) such that  *)
(* dist(v) > dist(n) + w.                                                 *)
NotConsistent(d, inf, n) ==
  /\ d[n] # inf
  /\ \E i \in 1..Len(Adj[n]) : d[Dst(n, i)] > d[n] + Weight(n, i)

(* verify(graph, source): the source has distance 0 and find_if finds no   *)
(* not_consistent node.  The count of unvisited nodes is only reported.    *)
Verify(d, inf) ==
  /\ d[Source] = 0
  /\ \A n \in Node : ~NotConsistent(d, inf, n)
=============================================================================
