---------------------------- MODULE PageRankPull ----------------------------
(***************************************************************************)
(* PullAlgo of apps/pagerank/PageRank.cpp (-algo=pull): bulk-synchronous  *)
(* PageRank over the transposed graph written by precomputePullData.      *)
(*                                                                         *)
(* Every node keeps two values, value[0] and value[1].  Round it reads     *)
(* the in-neighbours' value[it & 1] and writes the node's own             *)
(* value[(it+1) & 1]; for_each_local runs the rounds' Process calls on    *)
(* several threads, each load of a neighbour's value being one step.      *)
(* After the loop, getPageRank() reads value[1], so when the number of     *)
(* rounds is even the Copy do_all moves value[0] into value[1].           *)
(*                                                                         *)
(* Ranks are fixed-point naturals with Scale units per 1.0 (the code uses *)
(* float); the reference iterate below uses the same arithmetic, so the   *)
(* rounding does not affect what is compared.                             *)
(***************************************************************************)
EXTENDS Integers, SequencesExt

CONSTANTS
  Node,           \* graph nodes
  Out,            \* Out[n]: out-neighbours of n in the input graph
  Scale,          \* fixed-point units of 1.0
  AlphaS,         \* alpha * Scale
  Tolerances,     \* values of -tolerance * Scale the run may be given
  MaxIterationsChoices, \* values of -maxIterations the run may be given
  Threads         \* worker threads (-t)

ASSUME Out \in [Node -> Seq(Node)]
ASSUME Scale \in Nat \ {0} /\ AlphaS \in 0..Scale /\ Tolerances \subseteq Nat
ASSUME MaxIterationsChoices \subseteq Nat \ {0}

(* precomputePullData: the transposed graph; node dst gets an in-edge      *)
(* <<src, w>> for every out-edge src -> dst, with w = 1.0/num_neighbors    *)
(* of src.                                                                 *)
In(dst) ==
  SetToSeq(UNION {{<<src, i, Scale \div Len(Out[src])>> :
                      i \in {j \in 1..Len(Out[src]) : Out[src][j] = dst}} :
                   src \in Node})

\* float value = sum * (1.0 - alpha) + alpha, with sum = SUM value * w.
Rank(sum) == (sum * (Scale - AlphaS)) \div (Scale * Scale) + AlphaS

\* Sum of w * value over n's in-edges, for a function of the in-neighbours.
InSum(n, v) == MapThenSumSet(LAMBDA e : v[e[1]] * e[3], ToSet(In(n)))

\* |a - b| (std::fabs).
Diff(a, b) == IF a >= b THEN a - b ELSE b - a

(* Reference: the Jacobi iterates, all ranks 1.0 at round 0.              *)
RECURSIVE Iterate(_)
Iterate(k) ==
  IF k = 0 THEN [n \in Node |-> Scale]
  ELSE LET p == Iterate(k - 1) IN [n \in Node |-> Rank(InSum(n, p))]

\* The round after which the loop stops: max delta <= tolerance, or the bound.
StopRound(tol, maxIt) ==
  LET MaxDelta(k) == Max({Diff(Iterate(k)[n], Iterate(k - 1)[n]) : n \in Node})
      Done == {k \in 1..maxIt : MaxDelta(k) <= tol}
  IN IF Done = {} THEN maxIt ELSE Min(Done)

VARIABLES
  tolerance,      \* the -tolerance option
  maxIterations,  \* the -maxIterations option
  value,      \* LNode::value[0..1] of each node
  iteration,  \* the loop's iteration counter
  todo,       \* nodes for_each_local has not handed out in this round
  maxDelta,   \* GReduceMax<double> max_delta
  phase,      \* "rounds", "copy" (after the loop), "done"
  pc,         \* "idle" or "edge" for each thread
  cur,        \* the node a thread's Process is computing
  ei,         \* index of the in-edge it reads next
  sum         \* the Process's local sum

vars == <<tolerance, maxIterations, value, iteration, todo, maxDelta, phase, pc, cur, ei, sum>>

(* The run's options; Initialize sets value[0] = value[1] = 1.0; the first *)
(* round hands out every node.                                            *)
Init ==
  /\ tolerance \in Tolerances
  /\ maxIterations \in MaxIterationsChoices
  /\ value = [n \in Node |-> [b \in 0..1 |-> Scale]]
  /\ iteration = 0
  /\ todo = Node
  /\ maxDelta = 0
  /\ phase = "rounds"
  /\ pc = [t \in Threads |-> "idle"]
  /\ cur = [t \in Threads |-> CHOOSE n \in Node : TRUE]
  /\ ei = [t \in Threads |-> 1]
  /\ sum = [t \in Threads |-> 0]

\* for_each_local hands node n of the graph to an idle thread.
Start(t) ==
  /\ phase = "rounds"
  /\ pc[t] = "idle"
  /\ \E n \in todo :
       /\ todo' = todo \ {n}
       /\ cur' = [cur EXCEPT ![t] = n]
  /\ ei' = [ei EXCEPT ![t] = 1]
  /\ sum' = [sum EXCEPT ![t] = 0]
  /\ pc' = [pc EXCEPT ![t] = "edge"]
  /\ UNCHANGED <<value, iteration, maxDelta, phase>>

(* The write with getPageRank(iteration) as the slot written: a single     *)
(* buffer, updated in place.                                              *)
WriteInPlace(t) ==
  LET n == cur[t]
      v == Rank(sum[t])
  IN /\ value' = [value EXCEPT ![n][iteration % 2] = v]
     /\ maxDelta' = Max({maxDelta, Diff(v, value[n][iteration % 2])})

(* value = sum * (1 - alpha) + alpha; diff = |value - getPageRank(it)|;    *)
(* max_delta.update(diff); setPageRank(it, value) writes value[(it+1)&1]. *)
Write(t) ==
  LET n == cur[t]
      v == Rank(sum[t])
  IN /\ value' = [value EXCEPT ![n][(iteration + 1) % 2] = v]
     /\ maxDelta' = Max({maxDelta, Diff(v, value[n][iteration % 2])})

(* Process: sum += ddata.getPageRank(iteration) * w for the next in-edge;  *)
(* after the last one, compute and store the node's new value.           *)
Edge(t) ==
  LET n == cur[t] IN
  /\ pc[t] = "edge"
  /\ IF ei[t] <= Len(In(n))
       THEN LET e == In(n)[ei[t]] IN
            /\ sum' = [sum EXCEPT ![t] = @ + value[e[1]][iteration % 2] * e[3]]
            /\ ei' = [ei EXCEPT ![t] = @ + 1]
            /\ UNCHANGED <<value, maxDelta, pc>>
       ELSE /\ Write(t)
            /\ pc' = [pc EXCEPT ![t] = "idle"]
            /\ UNCHANGED <<sum, ei>>
  /\ UNCHANGED <<iteration, todo, phase, cur>>

(* The round's end without max_delta.reset().                             *)
EndRoundNoReset ==
  /\ phase = "rounds"
  /\ todo = {}
  /\ \A t \in Threads : pc[t] = "idle"
  /\ iteration' = iteration + 1
  /\ IF maxDelta <= tolerance \/ iteration + 1 >= maxIterations
       THEN /\ phase' = "copy"
            /\ UNCHANGED todo
       ELSE /\ todo' = Node
            /\ UNCHANGED phase
  /\ UNCHANGED <<value, maxDelta, pc, cur, ei, sum>>

(* The round's end with the bound tested as iteration > maxIterations.    *)
EndRoundOffByOne ==
  /\ phase = "rounds"
  /\ todo = {}
  /\ \A t \in Threads : pc[t] = "idle"
  /\ iteration' = iteration + 1
  /\ IF maxDelta <= tolerance \/ iteration + 1 > maxIterations
       THEN /\ phase' = "copy"
            /\ UNCHANGED <<todo, maxDelta>>
       ELSE /\ todo' = Node
            /\ maxDelta' = 0
            /\ UNCHANGED phase
  /\ UNCHANGED <<value, pc, cur, ei, sum>>

(* for_each_local returns; iteration += 1; stop if max_delta <= tolerance *)
(* or iteration >= maxIterations, otherwise reset the reducer and loop.   *)
EndRound ==
  /\ phase = "rounds"
  /\ todo = {}
  /\ \A t \in Threads : pc[t] = "idle"
  /\ iteration' = iteration + 1
  /\ IF maxDelta <= tolerance \/ iteration + 1 >= maxIterations
       THEN /\ phase' = "copy"
            /\ UNCHANGED <<todo, maxDelta>>
       ELSE /\ todo' = Node
            /\ maxDelta' = 0
            /\ UNCHANGED phase
  /\ UNCHANGED <<value, pc, cur, ei, sum>>

(* The final copy with the parity test inverted.                          *)
CopyParityFlipped ==
  /\ phase = "copy"
  /\ value' = IF iteration % 2 = 0 THEN value
              ELSE [n \in Node |-> [value[n] EXCEPT ![1] = value[n][0]]]
  /\ phase' = "done"
  /\ UNCHANGED <<iteration, todo, maxDelta, pc, cur, ei, sum>>

(* if (iteration & 1) the result is in value[1]; else do_all Copy:        *)
(* value[1] = value[0] for every node.                                    *)
Copy ==
  /\ phase = "copy"
  /\ value' = IF iteration % 2 = 1 THEN value
              ELSE [n \in Node |-> [value[n] EXCEPT ![1] = value[n][0]]]
  /\ phase' = "done"
  /\ UNCHANGED <<iteration, todo, maxDelta, pc, cur, ei, sum>>

\* The options are read once; no step changes them.
Next ==
  /\ \/ \E t \in Threads : Start(t) \/ Edge(t)
     \/ EndRound
     \/ Copy
  /\ UNCHANGED <<tolerance, maxIterations>>

Spec == Init /\ [][Next]_vars /\ WF_vars(Next)

-----------------------------------------------------------------------------
TypeOK ==
  /\ value \in [Node -> [0..1 -> Nat]]
  /\ iteration \in 0..maxIterations
  /\ todo \subseteq Node
  /\ maxDelta \in Nat
  /\ phase \in {"rounds", "copy", "done"}
  /\ pc \in [Threads -> {"idle", "edge"}]
  /\ cur \in [Threads -> Node]
  /\ ei \in [Threads -> Nat]
  /\ sum \in [Threads -> Nat]

(* When PullAlgo returns, getPageRank() (value[1]) of every node is the    *)
(* Jacobi iterate of the round the loop stopped at, whatever order the    *)
(* threads processed the nodes in: a round reads only the slot written    *)
(* by the previous round, and the final Copy fixes the parity.           *)
ResultIsIterate ==
  phase = "done" => \A n \in Node : value[n][1] = Iterate(iteration)[n]

(* The loop stops at the first round whose largest change is within the   *)
(* tolerance (or at maxIterations): the max_delta reducer holds only the  *)
(* current round's changes.                                               *)
StopsAtFirstConverged ==
  phase = "done" => iteration = StopRound(tolerance, maxIterations)

=============================================================================
