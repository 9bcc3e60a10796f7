-------------------------- MODULE MC_PageRankAsync --------------------------
(* Model of PageRankAsync: two worker threads on a three-node graph with a *)
(* cycle and a node with two in-edges, tolerance 2, and priorities fine   *)
(* enough (Amp 4) that adding a delta above the tolerance changes them.   *)
EXTENDS PageRankAsync

MCNode == 0..2
\* INT_MIN scaled so that the largest residuals saturate the priority.
MCIntMin == -3
\* 0->1, 0->2, 1->2, 2->0
MCOut == [n \in MCNode |-> CASE n = 0 -> <<1, 2>>
                             [] n = 1 -> <<2>>
                             [] n = 2 -> <<0>>]
=============================================================================
