-------------------------- MODULE MC_SSSPPushPull --------------------------
(* Models of SSSPPushPull: two worker threads.  MCSymAdj is a symmetric    *)
(* graph (every edge listed in both directions, as in the road graphs the *)
(* push-pull variant is run on) with a triangle, so that a neighbour can  *)
(* improve between a node's load and its out-edge loop and the pull       *)
(* fires.  MCDirAdj is a directed graph on which a pull follows an edge   *)
(* backwards that does not exist.                                         *)
EXTENDS SSSPPushPull

MCNode == 0..3
MCSource == 0
MCDistInfinity == 20
\* undirected 0-1 (4), 0-2 (1), 1-2 (1), 1-3 (1), and a parallel 0-1 (6)
MCSymAdj == [n \in MCNode |->
               CASE n = 0 -> << <<1, 4>>, <<2, 1>>, <<1, 6>> >>
                 [] n = 1 -> << <<3, 1>>, <<0, 4>>, <<2, 1>>, <<0, 6>> >>
                 [] n = 2 -> << <<0, 1>>, <<1, 1>> >>
                 [] n = 3 -> << <<1, 1>> >>]
\* directed 0->2 (1), 0->1 (5), 1->2 (1), 1->3 (1): dist(3) is 6
MCDirAdj == [n \in MCNode |->
               CASE n = 0 -> << <<2, 1>>, <<1, 5>> >>
                 [] n = 1 -> << <<2, 1>>, <<3, 1>> >>
                 [] n = 2 -> << >>
                 [] n = 3 -> << >>]
=============================================================================
