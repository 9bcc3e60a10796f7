----------------------------- MODULE SSSPSerial -----------------------------
(***************************************************************************)
(* SerialAlgo of apps/sssp/SSSP.cpp (-algo=serial; apps/astar/astar.cpp    *)
(* has the same operator): Dijkstra over a std::set of update requests    *)
(* ordered by UpdateRequestCommon::operator< (distance, then node).  One   *)
(* iteration of the while loop is one step.  The input graph is chosen    *)
(* from Graphs in the initial state, so that one run checks the loop      *)
(* against the reference distances on every graph of the family.         *)
(***************************************************************************)
EXTENDS Integers, Sequences, FiniteSets

CONSTANTS
  Node,       \* graph nodes
  Source,     \* -startNode
  Graphs,     \* the input graphs: out-edge sequences <<dst, weight>>
  Infinity    \* DIST_INFINITY (the 64-bit sentinel; no wrap-around)

ASSUME Source \in Node /\ Node \subseteq Nat
ASSUME Graphs \subseteq [Node -> Seq(Node \X Nat)] /\ Infinity \in Nat

VARIABLES
  adj,      \* the graph read by readGraph
  dist,     \* SNode::dist of each node
  initial   \* the std::set of UpdateRequests <<n, w>>

vars == <<adj, dist, initial>>

G == INSTANCE SSSPGraph WITH Adj <- adj

\* UpdateRequestCommon::operator<: by w, ties broken by n.
Less(a, b) == a[2] < b[2] \/ (a[2] = b[2] /\ a[1] < b[1])

\* The largest request, as a std::set ordered by std::greater would give.
Largest(S) == CHOOSE r \in S : \A s \in S \ {r} : Less(s, r)

\* *initial.begin() under std::less<UpdateRequest>.
Begin(S) == CHOOSE r \in S : \A s \in S \ {r} : Less(r, s)

(* Initialize sets every dist to DIST_INFINITY; the set starts as {(src,0)}. *)
Init ==
  /\ adj \in Graphs
  /\ dist = [n \in Node |-> Infinity]
  /\ initial = {<<Source, 0>>}

\* The requests the edge loop inserts for <<n, w>> once dist(n) = w.
Relaxed(n, w, d) ==
  {<<G!Dst(n, i), w + G!Weight(n, i)>> :
     i \in {j \in 1..Len(adj[n]) : w + G!Weight(n, j) < d[G!Dst(n, j)]}}

(* The loop body with the store done whatever the request.               *)
IterationNoGuard ==
  LET req == Begin(initial)
      d2  == [dist EXCEPT ![req[1]] = req[2]]
  IN /\ initial # {}
     /\ dist' = d2
     /\ initial' = (initial \ {req}) \cup Relaxed(req[1], req[2], d2)
     /\ UNCHANGED adj

(* One iteration: take and erase the first request; if req.w < data.dist,  *)
(* store it and insert (dst, req.w + d) for every out-edge whose newDist   *)
(* is below the destination's dist.                                       *)
Iteration ==
  LET req == Begin(initial)
      d2  == [dist EXCEPT ![req[1]] = req[2]]
  IN /\ initial # {}
     /\ IF req[2] < dist[req[1]]
          THEN /\ dist' = d2
               /\ initial' = (initial \ {req}) \cup Relaxed(req[1], req[2], d2)
          ELSE /\ initial' = initial \ {req}
               /\ UNCHANGED dist
     /\ UNCHANGED adj

Next == Iteration

Spec == Init /\ [][Next]_vars /\ WF_vars(Next)

-----------------------------------------------------------------------------
(* Every node is settled at most once (P5): once the loop has stored a     *)
(* distance for a node, no later request changes it, because the set      *)
(* yields requests in non-decreasing distance and weights are unsigned.   *)
SettledOnce ==
  [][\A n \in Node : dist[n] # Infinity => dist'[n] = dist[n]]_vars

(* When the set is empty every node holds its shortest-path distance, or  *)
(* DIST_INFINITY if unreachable (P2).                                     *)
ShortestWhenEmpty ==
  initial = {} => dist = G!Expected(Infinity)

=============================================================================
