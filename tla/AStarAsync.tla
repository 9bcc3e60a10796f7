------------------------------ MODULE AStarAsync ------------------------------
(***************************************************************************)
(* AsyncAlgo<UseCas> of apps/astar/astar.cpp: the SSSP operator with A*   *)
(* keys and pruning, run by several worker threads over the abstract      *)
(* worklist (a bag; see SSSPAsync).  -algo=asyncWithCas lowers a          *)
(* destination with CAS; -algo=async stores into it, and its for_each     *)
(* operator locks the source and all its out-neighbours (as in            *)
(* SSSPAsync), while the initial do_all locks nothing.  The initial state  *)
(* chooses the variant from UseCasChoices.                                 *)
(*                                                                         *)
(* Differences from SSSP: a request for n carries key dist + h(n), and the *)
(* operator recovers the distance as req.w - h(n); relaxEdge loads the     *)
(* destination's distance (targetDist) before its CAS loop and, after a    *)
(* successful CAS, pushes only if newDist <= targetDist.  h is the         *)
(* heuristic of the node's coordinates, a fixed function H of the node.   *)
(***************************************************************************)
EXTENDS SSSPGraph, Bags

CONSTANTS
  Threads,     \* worker threads (-t)
  UseCasChoices, \* AsyncAlgo<UseCas> instantiations the run may use
  Dest,        \* -destNode
  Report,      \* -reportNode
  H,           \* heuristic(ddata, graph) of each node
  DistBits,    \* width of the distance half of the node word
  WorkStamps   \* values the work accounting may write

ASSUME GraphOK
ASSUME Dest \in Node /\ Report \in Node
ASSUME H \in [Node -> Nat]
ASSUME UseCasChoices \subseteq BOOLEAN /\ UseCasChoices # {}
ASSUME DistBits \in Nat \ {0}
ASSUME WorkStamps \subseteq Nat \ {0} /\ WorkStamps # {}

Infinity == 2^DistBits - 2
SrcEdges == 1..Len(Adj[Source])
Word == [d : 0..Infinity, w : {0} \cup WorkStamps]

\* UpdateRequest <<n, newDist + heu_val>> for a distance some CAS wrote.
Req == {r \in Node \X Nat : r[2] >= H[r[1]] /\ r[2] - H[r[1]] < Infinity}

\* The distance a request stands for: req.w - heu_val.
ReqDist(r) == r[2] - H[r[1]]

VARIABLES
  useCas,    \* the template argument UseCas of the algorithm -algo selects
  dist, wl,
  initPc,    \* stage of the initial do_all's relaxEdge of each source edge
  initTd,    \* targetDist that do_all iteration loaded
  pc, req, ei,
  nd,        \* newDist of the current relaxEdge
  td,        \* targetDist loaded by the current relaxEdge
  od,        \* oldDist word read by relaxEdge's loop / the accounting
  buf

vars == <<useCas, dist, wl, initPc, initTd, pc, req, ei, nd, td, od, buf>>

PC == {"idle", "check", "readSrc", "readTarget", "readDst", "cas",
       "acctRead", "acctCas"}

Init ==
  /\ useCas \in UseCasChoices
  /\ dist = [n \in Node |-> IF n = Source THEN [d |-> 0, w |-> 0]
                                          ELSE [d |-> Infinity, w |-> 0]]
  /\ wl = EmptyBag
  /\ initPc = [i \in SrcEdges |-> "target"]
  /\ initTd = [i \in SrcEdges |-> 0]
  /\ pc = [t \in Threads |-> "idle"]
  /\ req = [t \in Threads |-> <<Source, H[Source]>>]
  /\ ei = [t \in Threads |-> 1]
  /\ nd = [t \in Threads |-> 0]
  /\ td = [t \in Threads |-> 0]
  /\ od = [t \in Threads |-> [d |-> 0, w |-> 0]]
  /\ buf = [t \in Threads |-> EmptyBag]

Push(b, r) == b (+) SetToBag({r})

\* The pruning rule of relaxEdge: "if (newDist <= targetDist) push".
PushIfUnderTarget(b, v, newDist, targetDist) ==
  IF newDist <= targetDist THEN Push(b, <<v, newDist + H[v]>>) ELSE b

\* The high half after the write: kept by the CAS, zero after the store of
\* the Dist newDist.
StoredWork(old) == IF useCas THEN old.w ELSE 0

\* Source edges whose do_all iteration has started and not yet finished.
InitBusy == {i \in SrcEdges : initPc[i] \in {"load", "store"}}

InitDone == \A i \in SrcEdges : initPc[i] = "done"

(* relaxEdge(source, edge i) in the initial do_all, one iteration per     *)
(* thread at a time: targetDist = (unsigned int)tdata.dist is loaded      *)
(* first.                                                                  *)
InitTarget(i) ==
  /\ initPc[i] = "target"
  /\ Cardinality(InitBusy) < Cardinality(Threads)
  /\ initPc' = [initPc EXCEPT ![i] = "load"]
  /\ initTd' = [initTd EXCEPT ![i] = dist[Dest].d]
  /\ UNCHANGED <<useCas, dist, wl, pc, req, ei, nd, td, od, buf>>

(* With CAS the loop is one atomic "lower if smaller" (the source word is  *)
(* 0 and no accounting runs yet), then the pruned push into the bag.      *)
InitialProcess(i) ==
  LET v  == Dst(Source, i)
      nw == Weight(Source, i)
  IN /\ useCas
     /\ initPc[i] = "load"
     /\ initPc' = [initPc EXCEPT ![i] = "done"]
     /\ IF nw < dist[v].d
          THEN /\ dist' = [dist EXCEPT ![v] = [d |-> nw, w |-> @.w]]
               /\ wl' = PushIfUnderTarget(wl, v, nw, initTd[i])
          ELSE UNCHANGED <<dist, wl>>
     /\ UNCHANGED <<useCas, initTd, pc, req, ei, nd, td, od, buf>>

(* Without CAS: the test newDist < (unsigned int)oldDist on a load ...    *)
InitLoad(i) ==
  /\ ~useCas
  /\ initPc[i] = "load"
  /\ initPc' = [initPc EXCEPT ![i] =
                  IF Weight(Source, i) < dist[Dst(Source, i)].d THEN "store" ELSE "done"]
  /\ UNCHANGED <<useCas, dist, wl, initTd, pc, req, ei, nd, td, od, buf>>

(* ... and, in a later step, the plain store ddata.dist = newDist to a    *)
(* node no one locked, then the pruned push.                              *)
InitStore(i) ==
  LET v  == Dst(Source, i)
      nw == Weight(Source, i)
  IN /\ initPc[i] = "store"
     /\ initPc' = [initPc EXCEPT ![i] = "done"]
     /\ dist' = [dist EXCEPT ![v] = [d |-> nw, w |-> 0]]
     /\ wl' = PushIfUnderTarget(wl, v, nw, initTd[i])
     /\ UNCHANGED <<useCas, initTd, pc, req, ei, nd, td, od, buf>>

Return(t) ==
  /\ wl' = wl (+) buf[t]
  /\ buf' = [buf EXCEPT ![t] = EmptyBag]
  /\ pc' = [pc EXCEPT ![t] = "idle"]

\* Out-neighbours of n: the nodes edge_begin(n, MethodFlag::ALL) locks.
Nbrs(n) == {Dst(n, i) : i \in 1..Len(Adj[n])}

\* Nodes an operator running on thread u holds locked (without CAS).
Held(u) == IF pc[u] = "idle" THEN {} ELSE {req[u][1]} \cup Nbrs(req[u][1])

(* relaxNode: heu_val = heuristic(sdata); stale if req.w - heu_val !=      *)
(* (unsigned int)*sdist.  Without CAS, getData(req.n, ALL) locks the      *)
(* source and edge_begin(req.n, ALL) its out-neighbours; a lock held by   *)
(* another operator aborts the iteration before any write, and it is      *)
(* retried later, the same as not taking the request.                     *)
Pop(t) ==
  /\ InitDone
  /\ pc[t] = "idle"
  /\ \E r \in BagToSet(wl) :
       LET stale == ReqDist(r) # dist[r[1]].d
           locks == IF stale THEN {r[1]} ELSE {r[1]} \cup Nbrs(r[1])
       IN /\ ~useCas => \A u \in Threads \ {t} : locks \cap Held(u) = {}
          /\ wl' = wl (-) SetToBag({r})
          /\ req' = [req EXCEPT ![t] = r]
          /\ ei' = [ei EXCEPT ![t] = 1]
          /\ pc' = [pc EXCEPT ![t] = IF stale THEN "idle" ELSE "check"]
  /\ UNCHANGED <<dist, initPc, initTd, nd, td, od, buf>>

(* Head of the edge loop, with the same stale test as on entry.           *)
Check(t) ==
  LET n == req[t][1] IN
  /\ pc[t] = "check"
  /\ IF ei[t] > Len(Adj[n])
       THEN /\ pc' = [pc EXCEPT ![t] = "acctRead"]
            /\ UNCHANGED <<wl, buf>>
       ELSE IF ReqDist(req[t]) # dist[n].d
              THEN Return(t)
              ELSE /\ pc' = [pc EXCEPT ![t] = "readSrc"]
                   /\ UNCHANGED <<wl, buf>>
  /\ UNCHANGED <<dist, initPc, initTd, req, ei, nd, td, od>>

(* newDist = (unsigned int)sdata.dist + d.                                *)
ReadSrc(t) ==
  LET n == req[t][1] IN
  /\ pc[t] = "readSrc"
  /\ nd' = [nd EXCEPT ![t] = dist[n].d + Weight(n, ei[t])]
  /\ pc' = [pc EXCEPT ![t] = "readTarget"]
  /\ UNCHANGED <<dist, wl, initPc, initTd, req, ei, td, od, buf>>

(* targetDist loaded as the whole word, work half included.               *)
ReadTargetFullWord(t) ==
  /\ pc[t] = "readTarget"
  /\ td' = [td EXCEPT ![t] = dist[Dest].d + dist[Dest].w * 2^DistBits]
  /\ pc' = [pc EXCEPT ![t] = "readDst"]
  /\ UNCHANGED <<dist, wl, initPc, initTd, req, ei, nd, od, buf>>

(* targetDist = (unsigned int)tdata.dist, loaded once before the loop.    *)
ReadTarget(t) ==
  /\ pc[t] = "readTarget"
  /\ td' = [td EXCEPT ![t] = dist[Dest].d]
  /\ pc' = [pc EXCEPT ![t] = "readDst"]
  /\ UNCHANGED <<dist, wl, initPc, initTd, req, ei, nd, od, buf>>

(* while (newDist < (unsigned int)(oldDist = ddata.dist)).                *)
ReadDst(t) ==
  LET v == Dst(req[t][1], ei[t]) IN
  /\ pc[t] = "readDst"
  /\ od' = [od EXCEPT ![t] = dist[v]]
  /\ IF nd[t] < dist[v].d
       THEN /\ pc' = [pc EXCEPT ![t] = "cas"]
            /\ ei' = ei
       ELSE /\ pc' = [pc EXCEPT ![t] = "check"]
            /\ ei' = [ei EXCEPT ![t] = @ + 1]
  /\ UNCHANGED <<dist, wl, initPc, initTd, req, nd, td, buf>>

(* A CAS that fails retries with the oldDist it already read.             *)
CasStale(t) ==
  LET v == Dst(req[t][1], ei[t]) IN
  /\ pc[t] = "cas"
  /\ IF ~useCas \/ dist[v] = od[t]
       THEN /\ dist' = [dist EXCEPT ![v] = [d |-> nd[t], w |-> StoredWork(od[t])]]
            /\ buf' = [buf EXCEPT ![t] = PushIfUnderTarget(@, v, nd[t], td[t])]
            /\ pc' = [pc EXCEPT ![t] = "check"]
            /\ ei' = [ei EXCEPT ![t] = @ + 1]
       ELSE UNCHANGED <<dist, buf, pc, ei>>
  /\ UNCHANGED <<wl, initPc, initTd, req, nd, td, od>>

(* A CAS that fails abandons the edge instead of re-reading the word.     *)
CasGiveUp(t) ==
  LET v == Dst(req[t][1], ei[t]) IN
  /\ pc[t] = "cas"
  /\ IF ~useCas \/ dist[v] = od[t]
       THEN /\ dist' = [dist EXCEPT ![v] = [d |-> nd[t], w |-> StoredWork(od[t])]]
            /\ buf' = [buf EXCEPT ![t] = PushIfUnderTarget(@, v, nd[t], td[t])]
       ELSE UNCHANGED <<dist, buf>>
  /\ pc' = [pc EXCEPT ![t] = "check"]
  /\ ei' = [ei EXCEPT ![t] = @ + 1]
  /\ UNCHANGED <<wl, initPc, initTd, req, nd, td, od>>

(* CAS(&ddata.dist, oldDist, newDist | high half), or with !UseCas the     *)
(* store to the locked destination; on success the pruned push of         *)
(* <<dst, newDist + heu_val>> and break, otherwise re-read.               *)
Cas(t) ==
  LET v == Dst(req[t][1], ei[t]) IN
  /\ pc[t] = "cas"
  /\ IF ~useCas \/ dist[v] = od[t]
       THEN /\ dist' = [dist EXCEPT ![v] = [d |-> nd[t], w |-> StoredWork(od[t])]]
            /\ buf' = [buf EXCEPT ![t] = PushIfUnderTarget(@, v, nd[t], td[t])]
            /\ pc' = [pc EXCEPT ![t] = "check"]
            /\ ei' = [ei EXCEPT ![t] = @ + 1]
       ELSE /\ pc' = [pc EXCEPT ![t] = "readDst"]
            /\ UNCHANGED <<dist, buf, ei>>
  /\ UNCHANGED <<wl, initPc, initTd, req, nd, td, od>>

(* trackWork: bad iteration if (unsigned int)oldDist < req.w - heu_val.   *)
AcctRead(t) ==
  LET n == req[t][1] IN
  /\ pc[t] = "acctRead"
  /\ od' = [od EXCEPT ![t] = dist[n]]
  /\ IF dist[n].d < ReqDist(req[t])
       THEN Return(t)
       ELSE /\ pc' = [pc EXCEPT ![t] = "acctCas"]
            /\ UNCHANGED <<wl, buf>>
  /\ UNCHANGED <<dist, initPc, initTd, req, ei, nd, td>>

(* The accounting writes the request's key req.w, not req.w - heu_val.   *)
AcctCasKey(t) ==
  LET n == req[t][1] IN
  /\ pc[t] = "acctCas"
  /\ \E s \in WorkStamps :
       dist' = IF dist[n] = od[t]
                 THEN [dist EXCEPT ![n] = [d |-> Min({req[t][2], Infinity}), w |-> s]]
                 ELSE dist
  /\ Return(t)
  /\ UNCHANGED <<initPc, initTd, req, ei, nd, td, od>>

(* CAS(&sdata.dist, oldDist, (req.w - heu_val) | work << 32), then return. *)
AcctCas(t) ==
  LET n == req[t][1] IN
  /\ pc[t] = "acctCas"
  /\ \E s \in WorkStamps :
       dist' = IF dist[n] = od[t]
                 THEN [dist EXCEPT ![n] = [d |-> ReqDist(req[t]), w |-> s]]
                 ELSE dist
  /\ Return(t)
  /\ UNCHANGED <<initPc, initTd, req, ei, nd, td, od>>

Step(t) ==
  /\ \/ Pop(t) \/ Check(t) \/ ReadSrc(t) \/ ReadTarget(t) \/ ReadDst(t)
     \/ Cas(t) \/ AcctRead(t) \/ AcctCas(t)
  /\ UNCHANGED useCas

Next ==
  \/ \E i \in SrcEdges :
       InitTarget(i) \/ InitialProcess(i) \/ InitLoad(i) \/ InitStore(i)
  \/ \E t \in Threads : Step(t)

Fairness ==
  /\ \A i \in SrcEdges :
        /\ WF_vars(InitTarget(i)) /\ WF_vars(InitialProcess(i))
        /\ WF_vars(InitLoad(i)) /\ WF_vars(InitStore(i))
  /\ \A t \in Threads : WF_vars(Step(t))

Spec == Init /\ [][Next]_vars /\ Fairness

-----------------------------------------------------------------------------
Terminated ==
  /\ InitDone
  /\ wl = EmptyBag
  /\ \A t \in Threads : pc[t] = "idle"

TypeOK ==
  /\ dist \in [Node -> Word]
  /\ BagToSet(wl) \subseteq Req
  /\ useCas \in BOOLEAN
  /\ initPc \in [SrcEdges -> {"target", "load", "store", "done"}]
  /\ initTd \in [SrcEdges -> 0..Infinity]
  /\ pc \in [Threads -> PC]
  /\ req \in [Threads -> Req]
  /\ ei \in [Threads -> Nat]
  /\ nd \in [Threads -> Nat]
  /\ td \in [Threads -> 0..Infinity]
  /\ od \in [Threads -> Word]
  /\ \A t \in Threads : BagToSet(buf[t]) \subseteq Req

(* P3: when for_each_local returns, the destination holds its shortest-    *)
(* path distance, although pushes past the best known goal distance were   *)
(* pruned with a targetDist that may be stale by the time of the CAS.     *)
DestOptimalAtTermination ==
  Terminated => dist[Dest].d = Expected(Infinity)[Dest]

(* The distance halves implement the safety part of SSSPRelax: a node's   *)
(* distance only drops, and only to the length of a real walk from the    *)
(* source.  The accounting CAS writes req.w - heu_val back into the word; *)
(* the key req.w itself is dist + h and lies above any walk's length.     *)
(* Pruned pushes leave some distances above the shortest, so SSSPRelax's *)
(* fairness does not hold (VerifiedAtTermination).                       *)
RelaxWalks == WalksBelow(Infinity)
Relax == INSTANCE SSSPRelax
           WITH dist <- [n \in Node |-> dist[n].d], Inf <- Infinity, Walks <- RelaxWalks
RefinesRelaxSafety == Relax!SafetySpec

(* verify(graph, source, report) of astar.cpp: the source must be at 0;  *)
(* the one USA-road query it knows (startNode 1, destNode 22629042, the   *)
(* report node at 42715444) is accepted without further checks; otherwise *)
(* find_if must find no not_consistent node.  The count of unvisited      *)
(* nodes is only printed.                                                 *)
USAQuery(d) == Source = 1 /\ Dest = 22629042 /\ d[Report] = 42715444

AStarVerify(d) ==
  /\ d[Source] = 0
  /\ \/ USAQuery(d)
     \/ \A n \in Node : ~NotConsistent(d, Infinity, n)

(* When for_each_local returns, astar.cpp's verify() accepts the result   *)
(* and run() does not abort: the source is at 0 and, outside the USA-road *)
(* query, no reached node has an out-edge (u,v,w) with dist(v) > dist(u) + w. *)
VerifiedAtTermination ==
  Terminated => AStarVerify([n \in Node |-> dist[n].d])

(* The parallel A* loop terminates: no thread spins forever in relaxEdge's *)
(* CAS loop, pruned pushes do not keep it alive, and the worklist drains.  *)
Termination == <>Terminated

=============================================================================
