---------------------------- MODULE PageRankSerial ----------------------------
(***************************************************************************)
(* SerialAlgo of apps/pagerank/PageRank.cpp (-algo=serial): one thread,   *)
(* iterations of two loops over the nodes in graph order.  The first loop *)
(* scatters value / neighbors of every node into the accum of each        *)
(* out-neighbour; the second turns accum into the new value, records the  *)
(* change in max_delta and clears accum.  The loop stops when max_delta   *)
(* <= tolerance or after maxIterations.                                   *)
(*                                                                         *)
(* Ranks are fixed-point naturals with Scale units per 1.0, as in         *)
(* PageRankPull.  max_delta starts every iteration at                     *)
(* std::numeric_limits<float>::min(), the smallest positive float: below  *)
(* one unit, yet above 0.  It is the marker FltMin here.                  *)
(***************************************************************************)
EXTENDS Integers, SequencesExt

CONSTANTS
  Node,           \* graph nodes, visited in ascending order (graph.begin())
  Out,            \* Out[n]: out-neighbours of n in edge order
  Scale,          \* fixed-point units of 1.0
  AlphaS,         \* alpha * Scale
  Tol,            \* -tolerance * Scale
  MaxIterations   \* -maxIterations

ASSUME Node \subseteq Nat /\ Out \in [Node -> Seq(Node)]
ASSUME Scale \in Nat \ {0} /\ AlphaS \in 0..Scale /\ Tol \in Nat
ASSUME MaxIterations \in Nat \ {0}

\* std::numeric_limits<float>::min(): positive, smaller than any unit.
FltMin == -1

\* max_delta <= tolerance, with FltMin above 0 and below one unit.
Converged(md) == IF md = FltMin THEN Tol > 0 ELSE md <= Tol

\* if (diff > max_delta) max_delta = diff.
RaiseDelta(md, diff) ==
  IF md = FltMin THEN (IF diff > 0 THEN diff ELSE FltMin)
  ELSE Max({md, diff})

\* float delta = sdata.value / neighbors.
Share(v, n) == v \div Len(Out[n])

\* float value = (1.0 - alpha) * accum + alpha.
Rank(acc) == (acc * (Scale - AlphaS)) \div Scale + AlphaS

\* |a - b| (std::fabs).
Diff(a, b) == IF a >= b THEN a - b ELSE b - a

(* Reference: the Jacobi iterates from value 1 - alpha.                   *)
RECURSIVE Iterate(_)
Iterate(k) ==
  IF k = 0 THEN [n \in Node |-> Scale - AlphaS]
  ELSE LET p == Iterate(k - 1)
           In(n) == UNION {{<<m, i>> : i \in {j \in 1..Len(Out[m]) : Out[m][j] = n}} :
                             m \in Node}
       IN [n \in Node |-> Rank(MapThenSumSet(LAMBDA e : Share(p[e[1]], e[1]), In(n)))]

\* The iteration the loop should stop after: the first whose largest change
\* is within the tolerance, or maxIterations.
StopRound ==
  LET MaxDiff(k) == Max({Diff(Iterate(k)[n], Iterate(k - 1)[n]) : n \in Node})
      Done == {k \in 1..MaxIterations : MaxDiff(k) <= Tol}
  IN IF Done = {} THEN MaxIterations ELSE Min(Done)

VARIABLES
  value,      \* PNode::value of each node
  accum,      \* PNode::accum of each node
  iteration,  \* the loop's iteration counter
  maxDelta,   \* the local max_delta
  phase,      \* "scatter" (first loop), "apply" (second loop), "done"
  left,       \* nodes the current loop has not visited yet
  ei          \* index of the out-edge the scatter loop adds to next

vars == <<value, accum, iteration, maxDelta, phase, left, ei>>

(* Initialize: value = 1 - alpha, accum = 0; then the first iteration.    *)
Init ==
  /\ value = [n \in Node |-> Scale - AlphaS]
  /\ accum = [n \in Node |-> 0]
  /\ iteration = 0
  /\ maxDelta = FltMin
  /\ phase = "scatter"
  /\ left = Node
  /\ ei = 1

(* First loop: ddata.accum += sdata.value / neighbors for the next out-    *)
(* edge of the current node; the second loop starts after the last node.  *)
Scatter ==
  /\ phase = "scatter"
  /\ IF left = {}
       THEN /\ phase' = "apply"
            /\ left' = Node
            /\ UNCHANGED <<accum, ei>>
       ELSE LET n == Min(left) IN
            IF ei > Len(Out[n])
              THEN /\ left' = left \ {n}
                   /\ ei' = 1
                   /\ UNCHANGED <<accum, phase>>
              ELSE /\ accum' = [accum EXCEPT ![Out[n][ei]] = @ + Share(value[n], n)]
                   /\ ei' = ei + 1
                   /\ UNCHANGED <<left, phase>>
  /\ UNCHANGED <<value, iteration, maxDelta>>

(* Apply with accum left in place.                                        *)
ApplyNoClear ==
  /\ phase = "apply"
  /\ left # {}
  /\ LET n == Min(left)
         v == Rank(accum[n])
     IN /\ maxDelta' = RaiseDelta(maxDelta, Diff(v, value[n]))
        /\ value' = [value EXCEPT ![n] = v]
        /\ left' = left \ {n}
  /\ UNCHANGED <<accum, iteration, phase, ei>>

(* Second loop: value = (1 - alpha) * accum + alpha; diff; raise           *)
(* max_delta; sdata.value = value; accum.write(0).                        *)
Apply ==
  /\ phase = "apply"
  /\ left # {}
  /\ LET n == Min(left)
         v == Rank(accum[n])
     IN /\ maxDelta' = RaiseDelta(maxDelta, Diff(v, value[n]))
        /\ value' = [value EXCEPT ![n] = v]
        /\ accum' = [accum EXCEPT ![n] = 0]
        /\ left' = left \ {n}
  /\ UNCHANGED <<iteration, phase, ei>>

(* max_delta declared once, before the loop, and never reset.           *)
EndIterationNoReset ==
  /\ phase = "apply"
  /\ left = {}
  /\ iteration' = iteration + 1
  /\ IF Converged(maxDelta) \/ iteration + 1 >= MaxIterations
       THEN phase' = "done" /\ UNCHANGED left
       ELSE phase' = "scatter" /\ left' = Node
  /\ UNCHANGED <<value, accum, ei, maxDelta>>

(* iteration += 1; break if max_delta <= tolerance or iteration >=         *)
(* maxIterations; otherwise the next iteration, whose max_delta starts at  *)
(* numeric_limits<float>::min().                                          *)
EndIteration ==
  /\ phase = "apply"
  /\ left = {}
  /\ iteration' = iteration + 1
  /\ IF Converged(maxDelta) \/ iteration + 1 >= MaxIterations
       THEN /\ phase' = "done"
            /\ UNCHANGED <<left, maxDelta>>
       ELSE /\ phase' = "scatter"
            /\ left' = Node
            /\ maxDelta' = FltMin
  /\ UNCHANGED <<value, accum, ei>>

Next == Scatter \/ Apply \/ EndIteration

Spec == Init /\ [][Next]_vars /\ WF_vars(Next)

-----------------------------------------------------------------------------
(* When SerialAlgo returns, every node's value is the Jacobi iterate of    *)
(* the iteration the loop stopped after: values are written only after all *)
(* scatters of the iteration, and accum starts every iteration at 0.      *)
ResultIsIterate ==
  phase = "done" => value = Iterate(iteration)

(* The loop stops after the first iteration whose largest change is within *)
(* the tolerance, or after maxIterations ("Failed to converge").          *)
StopsAtFirstConverged ==
  phase = "done" => iteration = StopRound
=============================================================================
