---------------------------- MODULE MC_PageRankPull ----------------------------
(* Model of PageRankPull: three nodes, a cycle 0 -> 1 -> 2 -> 0 with a     *)
(* chord 0 -> 2, so node 2 has two in-edges of different weights and the *)
(* ranks change over several rounds before they settle.                  *)
EXTENDS PageRankPull, TLC

MCNode == 0..2
MCOut == 0 :> <<1, 2>> @@ 1 :> <<2>> @@ 2 :> <<0>>
=============================================================================
