--------------------------- MODULE MC_AStarAsync ---------------------------
(* Model of AStarAsync: two worker threads, source 0, destination 3.       *)
(* The destination is first reached by a direct edge (3) and then by the   *)
(* shorter path 0->1->3 (2); node 2 lies 4 from the source, past the best  *)
(* known goal distance once the destination is reached, and node 4 is     *)
(* reached only through node 2.  A parallel source edge of equal weight   *)
(* exercises the initial do_all's "no improvement" case with CAS and a    *)
(* double store without it; the edge 3->0 never improves.  H never        *)
(* overestimates.                                                         *)
EXTENDS AStarAsync

MCNode == 0..4
MCSource == 0
MCDest == 3
MCReport == 3
\* 0->1 (1), 0->3 (3), 0->2 (4), 0->1 (1); 1->3 (1), 1->2 (2); 2->4 (1); 3->0 (1); 4->3 (4)
MCAdj == [n \in MCNode |->
            CASE n = 0 -> << <<1, 1>>, <<3, 3>>, <<2, 4>>, <<1, 1>> >>
              [] n = 1 -> << <<3, 1>>, <<2, 2>> >>
              [] n = 2 -> << <<4, 1>> >>
              [] n = 3 -> << <<0, 1>> >>
              [] n = 4 -> << <<3, 4>> >>]
MCH == [n \in MCNode |-> CASE n = 0 -> 2 [] n = 1 -> 1 [] n = 2 -> 3
                                [] n = 3 -> 0 [] n = 4 -> 2]
MCDistBits == 4
MCWorkStamps == {1}
=============================================================================
