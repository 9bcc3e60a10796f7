---------------------------- MODULE SSSPPushPull ----------------------------
(***************************************************************************)
(* AsyncAlgoPP of apps/sssp/SSSP.cpp (-algo=asyncPP, "Async, CAS,          *)
(* push-pull") run by several worker threads over the abstract worklist.   *)
(*                                                                         *)
(* The node word holds the distance only (Initialize stores the 64-bit    *)
(* DIST_INFINITY, no work half).  The operator loads the distance once     *)
(* into a local sdist and passes it by reference to relaxEdge for every    *)
(* out-edge (u,v,w): relaxEdge pushes (CAS loop) when sdist + w improves  *)
(* v, and otherwise "pulls": sdist = min(dist(v) + w, sdist).  The pulled *)
(* value is used for the following out-edges of u.                        *)
(***************************************************************************)
EXTENDS SSSPGraph, Bags

CONSTANTS
  Threads,       \* worker threads (-t)
  DistInfinity   \* DIST_INFINITY

ASSUME GraphOK
ASSUME DistInfinity \in Nat /\ DistInfinity > 0

\* UpdateRequest <<n, w>>; a pushed request carries a distance some CAS wrote.
Req == Node \X (0..(DistInfinity - 1))

VARIABLES
  dist,      \* distance word of each node
  wl,        \* the worklist, a bag of requests
  initLeft,  \* out-edges of Source not yet relaxed by the initial do_all
  pc,        \* program counter of each thread
  req,       \* the request a thread is processing
  ei,        \* index of the current out-edge in the operator's loop
  sd,        \* the operator's local sdist
  nd,        \* newDist of the current relaxEdge
  od,        \* oldDist read by relaxEdge
  buf        \* push buffer of each thread's UserContext

vars == <<dist, wl, initLeft, pc, req, ei, sd, nd, od, buf>>

PC == {"idle", "edge", "cas", "reread"}

Init ==
  /\ dist = [n \in Node |-> IF n = Source THEN 0 ELSE DistInfinity]
  /\ wl = EmptyBag
  /\ initLeft = 1..Len(Adj[Source])
  /\ pc = [t \in Threads |-> "idle"]
  /\ req = [t \in Threads |-> <<Source, 0>>]
  /\ ei = [t \in Threads |-> 1]
  /\ sd = [t \in Threads |-> 0]
  /\ nd = [t \in Threads |-> 0]
  /\ od = [t \in Threads |-> 0]
  /\ buf = [t \in Threads |-> EmptyBag]

Push(b, r) == b (+) SetToBag({r})

(* InitialProcess: relaxEdge(graph, d, ii, bag) with a local d = 0.  The   *)
(* CAS loop is an atomic "lower if smaller, then push"; the pull only      *)
(* changes the discarded local d.                                          *)
InitialProcess(i) ==
  LET v  == Dst(Source, i)
      nw == Weight(Source, i)
  IN /\ i \in initLeft
     /\ initLeft' = initLeft \ {i}
     /\ IF nw < dist[v]
          THEN /\ dist' = [dist EXCEPT ![v] = nw]
               /\ wl' = Push(wl, <<v, nw>>)
          ELSE UNCHANGED <<dist, wl>>
     /\ UNCHANGED <<pc, req, ei, sd, nd, od, buf>>

(* The operator returns: its pushes are added to the worklist.            *)
Return(t) ==
  /\ wl' = wl (+) buf[t]
  /\ buf' = [buf EXCEPT ![t] = EmptyBag]
  /\ pc' = [pc EXCEPT ![t] = "idle"]

(* Process: take a request, sdist = *psdist, return if req.w != sdist.     *)
Pop(t) ==
  /\ initLeft = {}
  /\ pc[t] = "idle"
  /\ \E r \in BagToSet(wl) :
       /\ wl' = wl (-) SetToBag({r})
       /\ req' = [req EXCEPT ![t] = r]
       /\ ei' = [ei EXCEPT ![t] = 1]
       /\ sd' = [sd EXCEPT ![t] = dist[r[1]]]
       /\ pc' = [pc EXCEPT ![t] = IF r[2] # dist[r[1]] THEN "idle" ELSE "edge"]
  /\ UNCHANGED <<dist, initLeft, nd, od, buf>>

(* The pull without the edge weight: sdist = min(dist(v), sdist).         *)
EdgePullNoWeight(t) ==
  LET n == req[t][1]
      i == ei[t]
  IN /\ pc[t] = "edge"
     /\ IF i > Len(Adj[n])
          THEN /\ Return(t)
               /\ UNCHANGED <<ei, sd, nd, od>>
          ELSE LET v == Dst(n, i)
                   w == Weight(n, i)
               IN /\ nd' = [nd EXCEPT ![t] = sd[t] + w]
                  /\ od' = [od EXCEPT ![t] = dist[v]]
                  /\ IF sd[t] + w < dist[v]
                       THEN /\ pc' = [pc EXCEPT ![t] = "cas"]
                            /\ UNCHANGED <<ei, sd>>
                       ELSE /\ sd' = [sd EXCEPT ![t] = Min({dist[v], sd[t]})]
                            /\ ei' = [ei EXCEPT ![t] = @ + 1]
                            /\ UNCHANGED pc
                  /\ UNCHANGED <<wl, buf>>
     /\ UNCHANGED <<dist, initLeft, req>>

(* Loop over the out-edges; relaxEdge: newDist = sdata + d, read oldDist;  *)
(* if newDist < oldDist enter the CAS loop, else pull into sdist.         *)
Edge(t) ==
  LET n == req[t][1]
      i == ei[t]
  IN /\ pc[t] = "edge"
     /\ IF i > Len(Adj[n])
          THEN /\ Return(t)
               /\ UNCHANGED <<ei, sd, nd, od>>
          ELSE LET v == Dst(n, i)
                   w == Weight(n, i)
               IN /\ nd' = [nd EXCEPT ![t] = sd[t] + w]
                  /\ od' = [od EXCEPT ![t] = dist[v]]
                  /\ IF sd[t] + w < dist[v]
                       THEN /\ pc' = [pc EXCEPT ![t] = "cas"]
                            /\ UNCHANGED <<ei, sd>>
                       ELSE /\ sd' = [sd EXCEPT ![t] = Min({dist[v] + w, sd[t]})]
                            /\ ei' = [ei EXCEPT ![t] = @ + 1]
                            /\ UNCHANGED pc
                  /\ UNCHANGED <<wl, buf>>
     /\ UNCHANGED <<dist, initLeft, req>>

(* A successful CAS pushes the distance it replaced.                      *)
CasPushOld(t) ==
  LET v == Dst(req[t][1], ei[t]) IN
  /\ pc[t] = "cas"
  /\ IF dist[v] = od[t]
       THEN /\ dist' = [dist EXCEPT ![v] = nd[t]]
            /\ buf' = [buf EXCEPT ![t] = Push(@, <<v, od[t]>>)]
            /\ pc' = [pc EXCEPT ![t] = "edge"]
            /\ ei' = [ei EXCEPT ![t] = @ + 1]
       ELSE /\ pc' = [pc EXCEPT ![t] = "reread"]
            /\ UNCHANGED <<dist, buf, ei>>
  /\ UNCHANGED <<wl, initLeft, req, sd, nd, od>>

(* A CAS that fails abandons the edge.                                    *)
CasGiveUp(t) ==
  LET v == Dst(req[t][1], ei[t]) IN
  /\ pc[t] = "cas"
  /\ IF dist[v] = od[t]
       THEN /\ dist' = [dist EXCEPT ![v] = nd[t]]
            /\ buf' = [buf EXCEPT ![t] = Push(@, <<v, nd[t]>>)]
       ELSE UNCHANGED <<dist, buf>>
  /\ pc' = [pc EXCEPT ![t] = "edge"]
  /\ ei' = [ei EXCEPT ![t] = @ + 1]
  /\ UNCHANGED <<wl, initLeft, req, sd, nd, od>>

(* __sync_bool_compare_and_swap(&ddata.dist, oldDist, newDist): push and   *)
(* break on success, otherwise re-read in the do-while condition.         *)
Cas(t) ==
  LET v == Dst(req[t][1], ei[t]) IN
  /\ pc[t] = "cas"
  /\ IF dist[v] = od[t]
       THEN /\ dist' = [dist EXCEPT ![v] = nd[t]]
            /\ buf' = [buf EXCEPT ![t] = Push(@, <<v, nd[t]>>)]
            /\ pc' = [pc EXCEPT ![t] = "edge"]
            /\ ei' = [ei EXCEPT ![t] = @ + 1]
       ELSE /\ pc' = [pc EXCEPT ![t] = "reread"]
            /\ UNCHANGED <<dist, buf, ei>>
  /\ UNCHANGED <<wl, initLeft, req, sd, nd, od>>

(* while (newDist < (oldDist = ddata.dist)): retry, or leave relaxEdge     *)
(* without pulling.                                                       *)
Reread(t) ==
  LET v == Dst(req[t][1], ei[t]) IN
  /\ pc[t] = "reread"
  /\ od' = [od EXCEPT ![t] = dist[v]]
  /\ IF nd[t] < dist[v]
       THEN /\ pc' = [pc EXCEPT ![t] = "cas"]
            /\ UNCHANGED ei
       ELSE /\ pc' = [pc EXCEPT ![t] = "edge"]
            /\ ei' = [ei EXCEPT ![t] = @ + 1]
  /\ UNCHANGED <<dist, wl, initLeft, req, sd, nd, buf>>

Step(t) == Pop(t) \/ Edge(t) \/ Cas(t) \/ Reread(t)

Next ==
  \/ \E i \in initLeft : InitialProcess(i)
  \/ \E t \in Threads : Step(t)

Fairness ==
  /\ \A i \in 1..Len(Adj[Source]) : WF_vars(InitialProcess(i))
  /\ \A t \in Threads : WF_vars(Step(t))

Spec == Init /\ [][Next]_vars /\ Fairness

-----------------------------------------------------------------------------
Terminated ==
  /\ initLeft = {}
  /\ wl = EmptyBag
  /\ \A t \in Threads : pc[t] = "idle"

TypeOK ==
  /\ dist \in [Node -> 0..DistInfinity]
  /\ BagToSet(wl) \subseteq Req
  /\ initLeft \subseteq 1..Len(Adj[Source])
  /\ pc \in [Threads -> PC]
  /\ req \in [Threads -> Req]
  /\ ei \in [Threads -> Nat]
  /\ sd \in [Threads -> Nat]
  /\ nd \in [Threads -> Nat]
  /\ od \in [Threads -> 0..DistInfinity]
  /\ \A t \in Threads : BagToSet(buf[t]) \subseteq Req

(* When for_each_local returns, every node holds its shortest-path         *)
(* distance, DIST_INFINITY if unreached (spec P2).  The pull reuses the    *)
(* weight of the out-edge (u,v) as if (v,u) were an edge.                 *)
ShortestAtTermination ==
  Terminated => dist = Expected(DistInfinity)

(* The distances implement SSSPRelax: each write lowers a node to the    *)
(* length of a real walk from the source.  A CAS writes sdist + w, and     *)
(* sdist may come from a pull; on a symmetric graph the pulled            *)
(* dist(v) + w is a walk to u through the reverse edge (v,u).             *)
RelaxWalks == WalksBelow(DistInfinity)
Relax == INSTANCE SSSPRelax WITH Inf <- DistInfinity, Walks <- RelaxWalks
RefinesRelax == Relax!Spec

(* A result that verify() accepts is the shortest-path result: verify()    *)
(* only looks for edges with dist(v) > dist(u) + w, so it must not be      *)
(* possible to end with distances that pass it and are still wrong.       *)
VerifiedIsShortest ==
  (Terminated /\ Verify(dist, DistInfinity)) => dist = Expected(DistInfinity)

=============================================================================
