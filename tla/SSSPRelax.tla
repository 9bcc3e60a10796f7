------------------------------ MODULE SSSPRelax ------------------------------
(***************************************************************************)
(* What the parallel shortest-path operators of apps/sssp and apps/astar  *)
(* promise about the node distances, stated without threads, worklists or *)
(* node words: a distance only ever drops, and only to the length of a    *)
(* real walk from the source (one shorter than the sentinel Inf); as long *)
(* as some node can still be lowered, one eventually is.                  *)
(*                                                                         *)
(* The async, CAS and push-pull operators implement this specification    *)
(* under a refinement mapping that keeps the distance half of each node   *)
(* word (SSSPAsync, SSSPPushPull); AStarAsync, which prunes pushes,       *)
(* implements SafetySpec only.                                            *)
(***************************************************************************)
EXTENDS SSSPGraph

CONSTANTS
  Inf,    \* DIST_INFINITY as the node word holds it
  Walks   \* <<n, k>>: a walk of length k < Inf leads from Source to n

ASSUME Walks = WalksBelow(Inf)

VARIABLE dist  \* the distance of each node

\* Lengths of the walks from Source to n, shorter than Inf.
WalkLength(n) == {w[2] : w \in {x \in Walks : x[1] = n}}

Init == dist = [n \in Node |-> IF n = Source THEN 0 ELSE Inf]

(* Relaxation in the abstract: node n's distance drops to the length of   *)
(* some walk to it.                                                       *)
Lower(n) ==
  \E k \in WalkLength(n) :
    /\ k < dist[n]
    /\ dist' = [dist EXCEPT ![n] = k]

Next == \E n \in Node : Lower(n)

\* Distances only drop, and only to walk lengths.
SafetySpec == Init /\ [][Next]_dist

Spec == SafetySpec /\ WF_dist(Next)
=============================================================================
