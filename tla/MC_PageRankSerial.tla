--------------------------- MODULE MC_PageRankSerial ---------------------------
(* Model of PageRankSerial: four nodes, 0 -> 1, 2; 1 -> 2, 3; 2 -> 0;     *)
(* 3 -> 0.  The fixed-point ranks change by at most 2 first at iteration  *)
(* 8, by 3 again at iteration 9, and are unchanged from iteration 15.     *)
EXTENDS PageRankSerial, TLC

MCNode == 0..3
MCOut == 0 :> <<1, 2>> @@ 1 :> <<2, 3>> @@ 2 :> <<0>> @@ 3 :> <<0>>
=============================================================================
