---------------------------- MODULE MC_SSSPAsync ----------------------------
(* Model of SSSPAsync: two worker threads on a four-node graph with a      *)
(* cycle, a shortcut that makes early requests stale, a parallel source  *)
(* edge of the same weight that the initial do_all stores twice without  *)
(* CAS, and two edges into node 3 so that concurrent relaxations of one   *)
(* word happen (and, without CAS, lock conflicts).                        *)
EXTENDS SSSPAsync

MCNode == 0..3
MCSource == 0
\* 0->1 (1), 0->2 (4), 0->1 (1) parallel edge; 1->2 (1), 1->3 (5); 2->3 (1); 3->1 (1)
MCAdj == [n \in MCNode |->
            CASE n = 0 -> << <<1, 1>>, <<2, 4>>, <<1, 1>> >>
              [] n = 1 -> << <<2, 1>>, <<3, 5>> >>
              [] n = 2 -> << <<3, 1>> >>
              [] n = 3 -> << <<1, 1>> >>]
\* parallel source edges of different weights, relaxed by the do_all at
\* once: 0->1 (1), 0->1 (2), 1->3 (1)
MCRaceAdj == [n \in MCNode |->
                CASE n = 0 -> << <<1, 1>>, <<1, 2>> >>
                  [] n = 1 -> << <<3, 1>> >>
                  [] n = 2 -> << >>
                  [] n = 3 -> << >>]
\* a path 0->1 (8), 1->2 (8) whose length 16 reaches past the sentinel 14
MCLongAdj == [n \in MCNode |->
                CASE n = 0 -> << <<1, 8>> >>
                  [] n = 1 -> << <<2, 8>> >>
                  [] n = 2 -> << <<3, 1>> >>
                  [] n = 3 -> << >>]
MCDistBits == 4
MCWorkStamps == {1, 2}
=============================================================================
