------------------------------ MODULE SSSPAsync ------------------------------
(***************************************************************************)
(* The asynchronous single-source shortest path operator of               *)
(* apps/sssp/SSSP.cpp, AsyncAlgo<UseCas>, run by several worker threads    *)
(* over a shared worklist.  -algo=asyncWithCas (UseCas) lowers words with  *)
(* CAS; -algo=async stores them, and its for_each operator locks the      *)
(* source and all its out-neighbours (MethodFlag::ALL), while the initial  *)
(* do_all over the source's edges locks nothing.                          *)
(*                                                                         *)
(* Every node keeps one 64-bit word: the low half is the tentative         *)
(* distance, the high half a "work" stamp written by the accounting CAS at *)
(* the end of relaxNode.  Every CAS compares the whole word.  Each shared  *)
(* memory access of relaxNode/relaxEdge is one step of a thread.           *)
(*                                                                         *)
(* The worklist is the abstract Galois worklist: a bag of update requests *)
(* <<node, dist>> from which a thread may take any element.  Every        *)
(* scheduler of the -wl flag (OBIM, SMQ, MQ, skiplist, ...) takes its      *)
(* items from this bag in some order, so the safety results here hold for *)
(* all of them.  Items a thread pushes through its UserContext are kept in *)
(* its push buffer and reach the worklist when the operator returns.      *)
(***************************************************************************)
EXTENDS SSSPGraph, Bags

CONSTANTS
  Threads,     \* worker threads (-t)
  UseCasChoices, \* AsyncAlgo<UseCas> instantiations (-algo) the run may use
  DistBits,    \* width of the distance half of the node word (32 in the code)
  WorkStamps   \* values "pusher.u + pusher.t.sample()" the accounting may write

ASSUME GraphOK
ASSUME UseCasChoices \subseteq BOOLEAN /\ UseCasChoices # {}
ASSUME DistBits \in Nat \ {0}
ASSUME WorkStamps \subseteq Nat \ {0} /\ WorkStamps # {}

\* (unsigned int)DIST_INFINITY: the largest value of the low half, minus one.
Infinity == 2^DistBits - 2

\* A node word: d is the low half (distance), w the high half (work stamp).
Word == [d : 0..Infinity, w : {0} \cup WorkStamps]

\* UpdateRequest <<n, w>>; a pushed request carries a distance some CAS wrote.
Req == Node \X (0..(Infinity - 1))

VARIABLES
  useCas,    \* the template argument UseCas that -algo selects
  dist,      \* node word of each node
  wl,        \* the worklist, a bag of requests
  initLeft,  \* out-edges of Source not yet relaxed by the initial do_all
  initStore, \* source edges whose do_all iteration passed the test, not yet stored
  pc,        \* program counter of each thread
  req,       \* the request a thread is processing
  ei,        \* index of the current out-edge in relaxNode's loop
  nd,        \* newDist of the current relaxEdge
  od,        \* oldDist word read by relaxEdge's loop / the accounting
  buf        \* push buffer of each thread's UserContext

vars == <<useCas, dist, wl, initLeft, initStore, pc, req, ei, nd, od, buf>>

PC == {"idle", "check", "readSrc", "readDst", "cas", "acctRead", "acctCas"}

-----------------------------------------------------------------------------
(* Initialize (do_all_local over the graph) then "dist = 0" for source.    *)
Init ==
  /\ useCas \in UseCasChoices
  /\ dist = [n \in Node |-> IF n = Source THEN [d |-> 0, w |-> 0]
                                          ELSE [d |-> Infinity, w |-> 0]]
  /\ wl = EmptyBag
  /\ initLeft = 1..Len(Adj[Source])
  /\ initStore = {}
  /\ pc = [t \in Threads |-> "idle"]
  /\ req = [t \in Threads |-> <<Source, 0>>]
  /\ ei = [t \in Threads |-> 1]
  /\ nd = [t \in Threads |-> 0]
  /\ od = [t \in Threads |-> [d |-> 0, w |-> 0]]
  /\ buf = [t \in Threads |-> EmptyBag]

Push(b, r) == b (+) SetToBag({r})

(* InitialProcess: relaxEdge(source, edge i) inside the initial do_all,    *)
(* pushing into the "initial" InsertBag.  The source word stays 0 and no  *)
(* accounting runs during do_all, so with CAS the loop amounts to one      *)
(* atomic "lower if smaller, then push".                                   *)
InitialProcess(i) ==
  LET v  == Dst(Source, i)
      nw == Weight(Source, i)
  IN /\ useCas
     /\ i \in initLeft
     /\ initLeft' = initLeft \ {i}
     /\ IF nw < dist[v].d
          THEN /\ dist' = [dist EXCEPT ![v] = [d |-> nw, w |-> @.w]]
               /\ wl' = Push(wl, <<v, nw>>)
          ELSE UNCHANGED <<dist, wl>>
     /\ UNCHANGED <<useCas, initStore, pc, req, ei, nd, od, buf>>

(* Without CAS the do_all iteration of edge i loads the word and tests     *)
(* newDist < (unsigned int)oldDist; the store comes in a later step.  The  *)
(* do_all runs at most one iteration per thread at a time.                *)
InitLoad(i) ==
  LET v == Dst(Source, i) IN
  /\ ~useCas
  /\ i \in initLeft \ initStore
  /\ Cardinality(initStore) < Cardinality(Threads)
  /\ IF Weight(Source, i) < dist[v].d
       THEN /\ initStore' = initStore \cup {i}
            /\ initLeft' = initLeft
       ELSE /\ initStore' = initStore
            /\ initLeft' = initLeft \ {i}
  /\ UNCHANGED <<useCas, dist, wl, pc, req, ei, nd, od, buf>>

(* ddata.dist = newDist, a plain store to a node no one locked, then push. *)
InitStore(i) ==
  LET v  == Dst(Source, i)
      nw == Weight(Source, i)
  IN /\ i \in initStore
     /\ dist' = [dist EXCEPT ![v] = [d |-> nw, w |-> 0]]
     /\ wl' = Push(wl, <<v, nw>>)
     /\ initStore' = initStore \ {i}
     /\ initLeft' = initLeft \ {i}
     /\ UNCHANGED <<useCas, pc, req, ei, nd, od, buf>>

(* The operator returns without committing its push buffer.              *)
ReturnDrop(t) ==
  /\ wl' = wl
  /\ buf' = [buf EXCEPT ![t] = EmptyBag]
  /\ pc' = [pc EXCEPT ![t] = "idle"]

(* The operator returns: its pushes are added to the worklist.            *)
Return(t) ==
  /\ wl' = wl (+) buf[t]
  /\ buf' = [buf EXCEPT ![t] = EmptyBag]
  /\ pc' = [pc EXCEPT ![t] = "idle"]

(* Out-neighbours of n: the nodes edge_begin(n, MethodFlag::ALL) locks.    *)
Nbrs(n) == {Dst(n, i) : i \in 1..Len(Adj[n])}

(* Nodes an operator running on thread u holds locked (without CAS).      *)
Held(u) == IF pc[u] = "idle" THEN {} ELSE {req[u][1]} \cup Nbrs(req[u][1])

(* for_each_local hands a request to an idle thread; relaxNode loads the   *)
(* distance and discards the request when "req.w != (unsigned int)*sdist". *)
(* Without CAS, getData(req.n, ALL) locks the source and, for a request   *)
(* that is not stale, edge_begin(req.n, ALL) locks its out-neighbours; a  *)
(* lock another operator holds makes the iteration abort, with no write   *)
(* done, and retry later, which is the same as not taking the request.   *)
Pop(t) ==
  /\ initLeft = {}
  /\ pc[t] = "idle"
  /\ \E r \in BagToSet(wl) :
       LET stale == r[2] # dist[r[1]].d
           locks == IF stale THEN {r[1]} ELSE {r[1]} \cup Nbrs(r[1])
       IN /\ ~useCas => \A u \in Threads \ {t} : locks \cap Held(u) = {}
          /\ wl' = wl (-) SetToBag({r})
          /\ req' = [req EXCEPT ![t] = r]
          /\ ei' = [ei EXCEPT ![t] = 1]
          /\ pc' = [pc EXCEPT ![t] = IF stale THEN "idle" ELSE "check"]
  /\ UNCHANGED <<useCas, dist, initLeft, initStore, nd, od, buf>>

(* Head of the edge loop: leave the loop after the last edge; otherwise    *)
(* re-load the distance and return if the request has become stale.      *)
Check(t) ==
  LET n == req[t][1] IN
  /\ pc[t] = "check"
  /\ IF ei[t] > Len(Adj[n])
       THEN /\ pc' = [pc EXCEPT ![t] = "acctRead"]
            /\ UNCHANGED <<wl, buf>>
       ELSE IF req[t][2] # dist[n].d
              THEN Return(t)
              ELSE /\ pc' = [pc EXCEPT ![t] = "readSrc"]
                   /\ UNCHANGED <<wl, buf>>
  /\ UNCHANGED <<dist, initLeft, initStore, req, ei, nd, od>>

(* relaxEdge: newDist = (unsigned int)sdata.dist + d.                     *)
ReadSrc(t) ==
  LET n == req[t][1] IN
  /\ pc[t] = "readSrc"
  /\ nd' = [nd EXCEPT ![t] = dist[n].d + Weight(n, ei[t])]
  /\ pc' = [pc EXCEPT ![t] = "readDst"]
  /\ UNCHANGED <<dist, wl, initLeft, initStore, req, ei, od, buf>>

(* relaxEdge's loop condition: newDist < (unsigned int)(oldDist = ddata.dist). *)
ReadDst(t) ==
  LET v == Dst(req[t][1], ei[t]) IN
  /\ pc[t] = "readDst"
  /\ od' = [od EXCEPT ![t] = dist[v]]
  /\ IF nd[t] < dist[v].d
       THEN /\ pc' = [pc EXCEPT ![t] = "cas"]
            /\ ei' = ei
       ELSE /\ pc' = [pc EXCEPT ![t] = "check"]
            /\ ei' = [ei EXCEPT ![t] = @ + 1]
  /\ UNCHANGED <<dist, wl, initLeft, initStore, req, nd, buf>>

(* A CAS that fails retries without re-reading the word.                  *)
CasStale(t) ==
  LET v == Dst(req[t][1], ei[t]) IN
  /\ pc[t] = "cas"
  /\ IF dist[v] = od[t]
       THEN /\ dist' = [dist EXCEPT ![v] = [d |-> nd[t], w |-> od[t].w]]
            /\ buf' = [buf EXCEPT ![t] = Push(@, <<v, nd[t]>>)]
            /\ pc' = [pc EXCEPT ![t] = "check"]
            /\ ei' = [ei EXCEPT ![t] = @ + 1]
       ELSE UNCHANGED <<dist, buf, pc, ei>>
  /\ UNCHANGED <<wl, initLeft, initStore, req, nd, od>>

(* A CAS that fails abandons the edge instead of re-reading the word.     *)
CasGiveUp(t) ==
  LET v == Dst(req[t][1], ei[t]) IN
  /\ pc[t] = "cas"
  /\ IF dist[v] = od[t]
       THEN /\ dist' = [dist EXCEPT ![v] = [d |-> nd[t], w |-> od[t].w]]
            /\ buf' = [buf EXCEPT ![t] = Push(@, <<v, nd[t]>>)]
       ELSE UNCHANGED <<dist, buf>>
  /\ pc' = [pc EXCEPT ![t] = "check"]
  /\ ei' = [ei EXCEPT ![t] = @ + 1]
  /\ UNCHANGED <<wl, initLeft, initStore, req, nd, od>>

(* A successful CAS pushes the distance it replaced.                      *)
CasPushOld(t) ==
  LET v == Dst(req[t][1], ei[t]) IN
  /\ pc[t] = "cas"
  /\ IF dist[v] = od[t]
       THEN /\ dist' = [dist EXCEPT ![v] = [d |-> nd[t], w |-> od[t].w]]
            /\ buf' = [buf EXCEPT ![t] = Push(@, <<v, od[t].d>>)]
            /\ pc' = [pc EXCEPT ![t] = "check"]
            /\ ei' = [ei EXCEPT ![t] = @ + 1]
       ELSE /\ pc' = [pc EXCEPT ![t] = "readDst"]
            /\ UNCHANGED <<dist, buf, ei>>
  /\ UNCHANGED <<wl, initLeft, initStore, req, nd, od>>

(* __sync_bool_compare_and_swap(&ddata.dist, oldDist,                      *)
(*   newDist | (oldDist & 0xffffffff00000000)): on success push and break, *)
(* on failure loop back to the re-load.  Without CAS: the plain store      *)
(* ddata.dist = newDist (work half cleared) to the locked destination.    *)
Cas(t) ==
  LET v == Dst(req[t][1], ei[t]) IN
  /\ pc[t] = "cas"
  /\ IF ~useCas \/ dist[v] = od[t]
       THEN /\ dist' = [dist EXCEPT ![v] = [d |-> nd[t],
                                            w |-> IF useCas THEN od[t].w ELSE 0]]
            /\ buf' = [buf EXCEPT ![t] = Push(@, <<v, nd[t]>>)]
            /\ pc' = [pc EXCEPT ![t] = "check"]
            /\ ei' = [ei EXCEPT ![t] = @ + 1]
       ELSE /\ pc' = [pc EXCEPT ![t] = "readDst"]
            /\ UNCHANGED <<dist, buf, ei>>
  /\ UNCHANGED <<wl, initLeft, initStore, req, nd, od>>

(* trackWork: oldDist = sdata.dist; if (unsigned int)oldDist < req.w the   *)
(* iteration was bad and nothing is written.                              *)
AcctRead(t) ==
  LET n == req[t][1] IN
  /\ pc[t] = "acctRead"
  /\ od' = [od EXCEPT ![t] = dist[n]]
  /\ IF dist[n].d < req[t][2]
       THEN Return(t)
       ELSE /\ pc' = [pc EXCEPT ![t] = "acctCas"]
            /\ UNCHANGED <<wl, buf>>
  /\ UNCHANGED <<dist, initLeft, initStore, req, ei, nd>>

(* The accounting written as a plain store of req.w | work << 32.          *)
AcctStore(t) ==
  LET n == req[t][1] IN
  /\ pc[t] = "acctCas"
  /\ \E s \in WorkStamps : dist' = [dist EXCEPT ![n] = [d |-> req[t][2], w |-> s]]
  /\ Return(t)
  /\ UNCHANGED <<initLeft, initStore, req, ei, nd, od>>

(* __sync_bool_compare_and_swap(&sdata.dist, oldDist, req.w | work << 32); *)
(* a failed CAS only changes statistics.  Then the operator returns.      *)
AcctCas(t) ==
  LET n == req[t][1] IN
  /\ pc[t] = "acctCas"
  /\ \E s \in WorkStamps :
       dist' = IF dist[n] = od[t]
                 THEN [dist EXCEPT ![n] = [d |-> req[t][2], w |-> s]]
                 ELSE dist
  /\ Return(t)
  /\ UNCHANGED <<initLeft, initStore, req, ei, nd, od>>

Step(t) ==
  /\ \/ Pop(t) \/ Check(t) \/ ReadSrc(t) \/ ReadDst(t) \/ Cas(t)
     \/ AcctRead(t) \/ AcctCas(t)
  /\ UNCHANGED useCas

Next ==
  \/ \E i \in initLeft : InitialProcess(i) \/ InitLoad(i) \/ InitStore(i)
  \/ \E t \in Threads : Step(t)

(* Worker threads are OS threads that keep running while they have work;   *)
(* the do_all over the source's edges completes.                          *)
Fairness ==
  /\ \A i \in 1..Len(Adj[Source]) :
        WF_vars(InitialProcess(i)) /\ WF_vars(InitLoad(i)) /\ WF_vars(InitStore(i))
  /\ \A t \in Threads : WF_vars(Step(t))

Spec == Init /\ [][Next]_vars /\ Fairness

-----------------------------------------------------------------------------
(* for_each_local returns: worklist empty and no operator running.        *)
Terminated ==
  /\ initLeft = {}
  /\ wl = EmptyBag
  /\ \A t \in Threads : pc[t] = "idle"

TypeOK ==
  /\ useCas \in BOOLEAN
  /\ dist \in [Node -> Word]
  /\ BagToSet(wl) \subseteq Req
  /\ initLeft \subseteq 1..Len(Adj[Source])
  /\ initStore \subseteq initLeft
  /\ pc \in [Threads -> PC]
  /\ req \in [Threads -> Req]
  /\ ei \in [Threads -> Nat]
  /\ nd \in [Threads -> Nat]
  /\ od \in [Threads -> Word]
  /\ \A t \in Threads : BagToSet(buf[t]) \subseteq Req

(* Some pending work still covers out-edge i of u at u's current distance: *)
(* a request <<u, dist(u)>> waits in the worklist or a push buffer, a      *)
(* thread processing that request has not yet passed edge i, or the edge   *)
(* is a source edge the initial do_all has not relaxed yet.               *)
Pending(u, i) ==
  LET r == <<u, dist[u].d>> IN
  \/ BagIn(r, wl)
  \/ \E t \in Threads : BagIn(r, buf[t])
  \/ \E t \in Threads : /\ pc[t] \in {"check", "readSrc", "readDst", "cas"}
                        /\ req[t] = r
                        /\ ei[t] <= i
  \/ u = Source /\ i \in initLeft

(* No relaxation is lost: at every moment, each out-edge (u,v,w) of a      *)
(* reached node satisfies dist(v) <= dist(u) + w or is still covered by    *)
(* pending work.  A CAS that fails because another thread changed the      *)
(* word (its distance, or only its work half) must not drop the edge.     *)
NoLostRelaxation ==
  \A u \in Node : \A i \in 1..Len(Adj[u]) :
    dist[u].d < Infinity =>
      \/ dist[Dst(u, i)].d <= dist[u].d + Weight(u, i)
      \/ Pending(u, i)

(* The distance halves of the node words implement SSSPRelax: each step  *)
(* leaves them alone or lowers one node's distance to the length of a     *)
(* real walk from the source, and while a distance can still drop, one    *)
(* eventually does.  The accounting at the end of relaxNode rewrites the  *)
(* whole word from a copy read earlier; a write of a stale distance would *)
(* raise it.                                                              *)
RelaxWalks == WalksBelow(Infinity)
Relax == INSTANCE SSSPRelax
           WITH dist <- [n \in Node |-> dist[n].d], Inf <- Infinity, Walks <- RelaxWalks
RefinesRelax == Relax!Spec

(* When for_each_local returns, every reached node holds its shortest-path *)
(* distance and every other node still holds DIST_INFINITY (spec P2), so  *)
(* verify() finds the source at 0 and no inconsistent edge.               *)
ShortestAtTermination ==
  Terminated =>
    \A n \in Node :
      dist[n].d = Expected(Infinity)[n]

(* The parallel loop terminates: no thread spins forever in relaxEdge's    *)
(* CAS loop and the worklist drains.                                      *)
Termination == <>Terminated

=============================================================================
