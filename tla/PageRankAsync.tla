---------------------------- MODULE PageRankAsync ----------------------------
(***************************************************************************)
(* AsyncPri of apps/pagerank/PageRank.cpp (-algo=async_prt): residual-     *)
(* priority PageRank run by several worker threads over the abstract      *)
(* worklist (a bag of WorkItems <<node, priority>>).                      *)
(*                                                                         *)
(* Residuals are the only state the operator's control depends on; they   *)
(* are natural numbers here.  The new page rank of a node is computed from *)
(* its in-neighbours' values (computePageRankInOut, outside the operator)  *)
(* and only enters the operator through delta = |pr - value| * alpha / nout; *)
(* the model chooses delta from Deltas, and a bound MaxRounds on the       *)
(* number of non-zero deltas stands for the geometric decay of the ranks.  *)
(***************************************************************************)
EXTENDS Integers, Sequences, FiniteSets, Bags, BagsExt

CONSTANTS
  Node,         \* graph nodes
  Out,          \* Out[n]: out-neighbours of n, in edge order
  Tol,          \* -tolerance
  Amp,          \* -amp
  InitResidual, \* residuals initResidual may leave a node with
  Deltas,       \* non-zero deltas a node update may spread
  MaxRounds,    \* bound on the node updates with a non-zero delta
  IntMin,       \* INT_MIN of the priority's int, scaled down
  OutOnlyChoices, \* values of -outdeg the run may be started with
  Threads       \* worker threads (-t)

ASSUME Out \in [Node -> Seq(Node)]
ASSUME Tol \in Nat \ {0} /\ Amp \in Nat \ {0}
ASSUME InitResidual \subseteq Nat /\ Deltas \subseteq Nat \ {0}
ASSUME MaxRounds \in Nat
ASSUME IntMin \in Int /\ IntMin < 0
ASSUME OutOnlyChoices \subseteq BOOLEAN /\ OutOnlyChoices # {}

\* ninout(graph, n): in-degree plus out-degree.
InEdges(n) == UNION {{<<m, i>> : i \in {j \in 1..Len(Out[m]) : Out[m][j] = n}} : m \in Node}
Ninout(n) == Len(Out[n]) + Cardinality(InEdges(n))

ASSUME \A n \in Node : Ninout(n) > 0

VARIABLES
  outOnly,   \* the global outOnly, set from -outdeg before the run
  residual,  \* LNode::residual of each node
  wl,        \* the worklist, a bag of WorkItems
  pc,        \* program counter of each thread
  item,      \* the WorkItem a thread is processing
  ei,        \* index of the current out-edge
  delta,     \* the delta the current operator spreads
  rounds,    \* node updates with a non-zero delta so far
  buf        \* push buffer of each thread's UserContext

vars == <<outOnly, residual, wl, pc, item, ei, delta, rounds, buf>>

\* The degree PRPri divides by: 1 + nout with -outdeg, ninout otherwise.
PriDegree(n) == IF outOnly THEN 1 + Len(Out[n]) ELSE Ninout(n)

(* A priority without the sign.                                           *)
PriUnsigned(n, d) == (d * Amp) \div (PriDegree(n) * Tol)

(* PRPri: d /= degree; d /= tolerance; return -1 * d * amp, truncated to   *)
(* int (towards zero).  A float below INT_MIN does not fit the int; the   *)
(* conversion is undefined, and the x86 build's cvttss2si returns the     *)
(* "integer indefinite" value 0x80000000 = INT_MIN for it.                *)
Pri(n, d) ==
  LET p == -((d * Amp) \div (PriDegree(n) * Tol))
  IN IF p < IntMin THEN IntMin ELSE p

\* WorkItem priorities: -1 * d * amp is never positive, nor below INT_MIN.
Priority == IntMin..0

PC == {"idle", "pri", "exchange", "edge"}

(* initResidual, then for_each over all nodes with WorkItem(n, pri(n)).    *)
Init ==
  /\ outOnly \in OutOnlyChoices
  /\ residual \in [Node -> InitResidual]
  /\ wl = SetToBag({<<n, Pri(n, residual[n])>> : n \in Node})
  /\ pc = [t \in Threads |-> "idle"]
  /\ item = [t \in Threads |-> <<CHOOSE n \in Node : TRUE, 0>>]
  /\ ei = [t \in Threads |-> 1]
  /\ delta = [t \in Threads |-> 0]
  /\ rounds = 0
  /\ buf = [t \in Threads |-> EmptyBag]

Return(t) ==
  /\ wl' = wl (+) buf[t]
  /\ buf' = [buf EXCEPT ![t] = EmptyBag]
  /\ pc' = [pc EXCEPT ![t] = "idle"]

(* Process: take a WorkItem; "sdata.residual < tolerance" discards it.      *)
Pop(t) ==
  /\ pc[t] = "idle"
  /\ \E w \in BagToSet(wl) :
       /\ wl' = BagRemove(wl, w)
       /\ item' = [item EXCEPT ![t] = w]
       /\ pc' = [pc EXCEPT ![t] = IF residual[w[1]] < Tol THEN "idle" ELSE "pri"]
  /\ UNCHANGED <<residual, ei, delta, rounds, buf>>

(* "pri(src) != srcn.second", a second load of the residual.              *)
PriCheck(t) ==
  LET n == item[t][1] IN
  /\ pc[t] = "pri"
  /\ pc' = [pc EXCEPT ![t] = IF Pri(n, residual[n]) # item[t][2]
                              THEN "idle" ELSE "exchange"]
  /\ UNCHANGED <<residual, wl, item, ei, delta, rounds, buf>>

(* The exchange as a plain load: the residual is left in place.          *)
ExchangeNoReset(t) ==
  LET n == item[t][1] IN
  /\ pc[t] = "exchange"
  /\ \E d \in IF rounds < MaxRounds THEN Deltas \cup {0} ELSE {0} :
       /\ delta' = [delta EXCEPT ![t] = d]
       /\ rounds' = IF d > 0 THEN rounds + 1 ELSE rounds
  /\ ei' = [ei EXCEPT ![t] = 1]
  /\ pc' = [pc EXCEPT ![t] = "edge"]
  /\ UNCHANGED <<residual, wl, item, buf>>

(* residual.exchange(0.0); pr = computePageRankInOut(...); value = pr;     *)
(* delta = |pr - value| * alpha2 / nout.                                   *)
Exchange(t) ==
  LET n == item[t][1] IN
  /\ pc[t] = "exchange"
  /\ residual' = [residual EXCEPT ![n] = 0]
  /\ \E d \in IF rounds < MaxRounds THEN Deltas \cup {0} ELSE {0} :
       /\ delta' = [delta EXCEPT ![t] = d]
       /\ rounds' = IF d > 0 THEN rounds + 1 ELSE rounds
  /\ ei' = [ei EXCEPT ![t] = 1]
  /\ pc' = [pc EXCEPT ![t] = "edge"]
  /\ UNCHANGED <<wl, item, buf>>

(* The push condition without the priority-change disjunct.              *)
ShouldPushNoPriChange(dst, old, d) ==
  /\ old + d >= Tol
  /\ old <= Tol

(* The push condition of the operator.                                     *)
ShouldPush(dst, old, d) ==
  /\ old + d >= Tol
  /\ \/ old <= Tol
     \/ Pri(dst, old) # Pri(dst, old + d)

(* For each out-neighbour: old = atomicAdd(ddata.residual, delta); push    *)
(* WorkItem(dst, pri(dst, old + delta)) if ShouldPush.  After the last     *)
(* edge the operator returns.                                              *)
Edge(t) ==
  LET n == item[t][1] IN
  /\ pc[t] = "edge"
  /\ IF ei[t] > Len(Out[n])
       THEN /\ Return(t)
            /\ UNCHANGED <<residual, ei>>
       ELSE LET v   == Out[n][ei[t]]
                old == residual[v]
                d   == delta[t]
            IN /\ residual' = [residual EXCEPT ![v] = old + d]
               /\ buf' = [buf EXCEPT ![t] =
                            IF ShouldPush(v, old, d)
                              THEN BagAdd(@, <<v, Pri(v, old + d)>>)
                              ELSE @]
               /\ ei' = [ei EXCEPT ![t] = @ + 1]
               /\ UNCHANGED <<wl, pc>>
  /\ UNCHANGED <<item, delta, rounds>>

Step(t) ==
  /\ Pop(t) \/ PriCheck(t) \/ Exchange(t) \/ Edge(t)
  /\ UNCHANGED outOnly

Next == \E t \in Threads : Step(t)

Spec == Init /\ [][Next]_vars /\ \A t \in Threads : WF_vars(Step(t))

-----------------------------------------------------------------------------
Terminated == wl = EmptyBag /\ \A t \in Threads : pc[t] = "idle"

TypeOK ==
  /\ residual \in [Node -> Nat]
  /\ BagToSet(wl) \subseteq Node \X Priority
  /\ pc \in [Threads -> PC]
  /\ item \in [Threads -> Node \X Priority]
  /\ ei \in [Threads -> Nat]
  /\ delta \in [Threads -> Deltas \cup {0}]
  /\ rounds \in 0..MaxRounds
  /\ \A t \in Threads : BagToSet(buf[t]) \subseteq Node \X Priority

(* A WorkItem that the operator would not discard for node n: its key is  *)
(* n's current priority, and it waits in the worklist or a push buffer,   *)
(* or a thread holding it has yet to run the priority test, or a thread   *)
(* has passed both tests and will exchange n's residual.                  *)
Live(n) ==
  LET w == <<n, Pri(n, residual[n])>> IN
  \/ BagIn(w, wl)
  \/ \E t \in Threads : BagIn(w, buf[t])
  \/ \E t \in Threads : pc[t] = "pri" /\ item[t] = w
  \/ \E t \in Threads : pc[t] = "exchange" /\ item[t][1] = n

(* No residual is stranded: every node whose residual is at least the     *)
(* tolerance has a live WorkItem.  The push condition skips a push when    *)
(* the residual was already above the tolerance and its priority did not  *)
(* change, relying on the item pushed earlier, which concurrent adds and   *)
(* the two separate residual loads of the stale test may invalidate.      *)
NoStrandedResidual ==
  \A n \in Node : residual[n] >= Tol => Live(n)

(* for_each returns: the worklist drains and every thread goes idle.  A    *)
(* pushed item is either discarded by the stale test or consumed by an    *)
(* exchange that zeroes the residual, so the only way to keep going is    *)
(* a new non-zero delta, and those are bounded by MaxRounds.              *)
Termination == <>Terminated

=============================================================================
