---------------------------- MODULE MC_SSSPSerial ----------------------------
(* Model of SSSPSerial: every graph on three nodes in which each node has  *)
(* an out-edge of weight 0, 1 or 3 to each of the two other nodes, or      *)
(* none; edges are listed in node order.  Weight 0 gives ties and cycles   *)
(* of length 0; 1 and 3 give shortcuts that make requests stale.          *)
EXTENDS SSSPSerial

MCNode == 0..2
MCSource == 0
MCWeightOrNone == {-1, 0, 1, 3}
\* The other two nodes in ascending order.
Others(n) == IF n = 0 THEN <<1, 2>> ELSE IF n = 1 THEN <<0, 2>> ELSE <<0, 1>>
\* The out-edge list of n for a weight (or -1: none) per other node.
OutList(n, c) ==
  LET e(k) == IF c[k] = -1 THEN << >> ELSE << <<Others(n)[k], c[k]>> >>
  IN e(1) \o e(2)
MCGraphs ==
  {[n \in MCNode |-> OutList(n, c[n])] :
     c \in [MCNode -> MCWeightOrNone \X MCWeightOrNone]}
=============================================================================
