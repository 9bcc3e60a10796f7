# TLA+ models of the Galois shortest-path and PageRank operators

This directory models the parallel graph operators of
`src/Galois-2.2.1/apps`, the code the multi-queue schedulers are measured with.
`PROJECT.json` has the full inventory: components, runs, mutants, the
definition-to-source map, findings and hazards.

## The system

Each application reads a graph (CSR, constant here) and then runs an operator
inside `Galois::for_each_local` / `for_each`:

- **sssp** (`apps/sssp/SSSP.cpp`) has these operators:
  - `SerialAlgo`: Dijkstra over a `std::set`.
  - `AsyncAlgo<true>` (`-algo=asyncWithCas`, the default): data-driven relaxation with a CAS on a 64-bit node word. The low half holds the distance and the high half a work stamp, which `trackWork` writes with a second CAS.
  - `AsyncAlgo<false>` (`-algo=async`): the same operator with a plain store. Its `for_each` operator locks the source and every out-neighbour (`getData` and `edge_begin` with `MethodFlag::ALL`). The initial `do_all` over the source's edges locks nothing.
  - `AsyncAlgoPP` (`-algo=asyncPP`): CAS push plus a "pull" into a local distance.
- **astar** (`apps/astar/astar.cpp`, `astar.h`) is the same operator with A\* keys. A request holds `dist + h(n)`. Before its CAS loop, `relaxEdge` loads the goal's distance (`targetDist`) and prunes pushes beyond it.
- **pagerank** (`apps/pagerank/PageRank.cpp`) has these algorithms:
  - `SerialAlgo`: one thread, two loops per iteration. The first scatters `value / neighbors` into each out-neighbour's `accum`. The second turns `accum` into the new value and tracks `max_delta`.
  - `PullAlgo`: bulk-synchronous rounds over the transposed graph that `precomputePullData` writes. Each node has two value slots. Round `it` reads `value[it & 1]` and writes `value[(it+1) & 1]`. A final `Copy` fixes the parity.
  - `AsyncPri::Process` is a residual-driven PageRank. Each item carries the priority `PRPri` computed from the node's residual. A stale item is discarded. The node's residual is exchanged for 0, and `delta` is `atomicAdd`ed to each out-neighbour, pushing a new item under a condition.
- **Worklists**: the schedulers (OBIM, adaptive OBIM, MultiQueue variants, `WorkList/AMQ2.h` typedefs) hand work items to worker threads. A pushed item reaches the worklist when its operator returns.

Threads interact only through the shared node words or residuals and through
the worklist.

## Modules

| Module | Models | State ↔ code |
|---|---|---|
| `SSSPGraph` | the graph, `verify`/`not_consistent`, and reference Bellman-Ford distances (RECURSIVE) | `Adj[n][i]` = `<<getEdgeDst, getEdgeData>>` of the i-th out-edge |
| `SSSPAsync` | `AsyncAlgo<UseCas>` of SSSP.cpp | `dist[n] = [d, w]` is the node word (halves). `wl` is the worklist bag, `buf[t]` the UserContext push buffer, `initLeft` the source edges the initial `do_all` has yet to relax, `initStore` those whose no-CAS iteration has passed its test but not yet stored. `useCas` is the template argument, chosen in `Init`. `pc/req/ei/nd/od` are each thread's position in `relaxNode`/`relaxEdge` and its locals `newDist`/`oldDist` |
| `SSSPPushPull` | `AsyncAlgoPP` | as above, plus `sd` (the local `sdist` passed by reference) |
| `AStarAsync` | `AsyncAlgo<UseCas>` and `verify` of astar.cpp | as `SSSPAsync`, plus `td` (`targetDist`). `initPc[i]`/`initTd[i]` are the stage and the loaded `targetDist` of the initial `do_all` iteration over source edge `i`. `H` is the heuristic of each node. `AStarVerify` is astar.cpp's `verify`, with its USA-graph bypass (`USAQuery`) |
| `PageRankAsync` | `AsyncPri::Process` and `PRPri` | `outOnly` (the `-outdeg` global, chosen in the initial state), `residual`, the worklist of `<<node, priority>>` items, per thread `item`, `ei` and `delta`. `rounds` counts non-zero deltas |
| `SSSPRelax` | the abstract promise of the shortest-path operators: a distance only drops, and only to the length of a real walk from the source below the sentinel; while one can drop, one eventually does | `dist` only. `SafetySpec` leaves out the fairness |
| `PageRankPull` | `PullAlgo` and `precomputePullData` | `value[n][0..1]` are the two slots, `iteration`, `maxDelta` the `GReduceMax`. `todo` holds the nodes `for_each_local` has not handed out yet. `pc/cur/ei/sum` are each thread's position in `Process` |
| `PageRankSerial` | `SerialAlgo` | `value`, `accum`, `iteration`, `maxDelta`, `phase` (which loop), `left` (nodes not yet visited), `ei` |
| `SSSPSerial` | `SerialAlgo::operator()` (SSSP and astar) | `initial` is the `std::set`, `dist` the node distances. `adj` is chosen from a set of graphs in the initial state |

Each thread step is one shared-memory access:

- the load of the distance in the stale test (`Pop`, `Check`);
- the load of the source (`ReadSrc`);
- the load of the destination in the `while` condition (`ReadDst`, `Reread`);
- the CAS (`Cas`);
- the accounting read and CAS (`AcctRead`, `AcctCas`).

Every early return of the code is a branch to `Return`. `Return` commits the
push buffer, because the runtime's `UserContext` publishes pushes when the
operator returns. That runtime is not under `src/` and is modelled from its
documented behaviour (`spec_modelled` in the map).

The worklist is a **bag** from which any item may be taken. Every scheduler
of the `-wl` flag yields items in some order, so a safety result over the bag
holds for every scheduler. For `-algo=async`, the locks of `getData(req.n, ALL)`
and `edge_begin(req.n, ALL)` are modelled in `Pop`: a thread does not take a
request whose source, or (if the request is not stale) any of whose
out-neighbours, another running operator holds (`Held`). In the runtime, the
conflicting iteration aborts before any write and is retried later. The
initial `do_all` takes no locks. Without CAS, its load-and-test (`InitLoad`)
and its plain store (`InitStore`) are separate steps, with at most one
iteration per thread in flight. With CAS, the loop is one atomic "lower if
smaller" (`InitialProcess`). In A\*, each iteration first loads `targetDist`
(`InitTarget`).

**Refinement.** `SSSPAsync` and `SSSPPushPull` instantiate `SSSPRelax` with the
distance half of every node word as `dist`, and check `RefinesRelax == Relax!Spec`.
`AStarAsync` checks only `Relax!SafetySpec`, because pruned pushes leave some
distances above their shortest value. The set of walks is passed to the
instance as the constant `Walks`, so TLC computes it once; an `ASSUME` pins it
to `WalksBelow(Inf)` of `SSSPGraph`. `RefinesRelax` implies that distances
never rise.

**PageRank arithmetic.** Ranks are fixed-point naturals, with `Scale = 100`
units per 1.0 and `AlphaS = 15`. A reference operator `Iterate(k)` computes the
k-th Jacobi iterate with the same arithmetic, and `StopRound` is the first
round within the tolerance. Rounding therefore never separates model from
reference. `SerialAlgo` resets `max_delta` to `numeric_limits<float>::min()`.
The model keeps it as the marker `FltMin`, which lies above 0 and below one
unit.

**Priorities.** `PRPri` converts a float to `int`, and the value can be out of
range, which is undefined behaviour. The x86 conversion `cvttss2si` then returns
`INT_MIN`. `PageRankAsync` models this as saturation at `IntMin`, which is -3
in the model so that the larger residuals reach it. `PRPri` divides the
residual by `ninout(n)`, or by `1 + nout(n)` when `-outdeg` sets the global
`outOnly`. The initial state chooses `outOnly`, so one run checks both
priority functions; on the model graph they differ at node 2.

`Infinity` is `(unsigned int)DIST_INFINITY = 2^DistBits - 2`. `DistBits` is
the width of the distance half: 32 in the code, 4 in the models. This keeps the
sentinel arithmetic exact while bounding the state.

## Runs

| Run | Expect | Shows |
|---|---|---|
| `sssp_async` | pass | The operator with CAS and without it (chosen in `Init`, with the neighbourhood locks), accounting CAS, 2 threads, 4 nodes with a shortcut, 2 work stamps. **NoLostRelaxation**: every out-edge of a reached node is satisfied or still covered by pending work. **RefinesRelax**: the distances implement `SSSPRelax`, although the accounting CAS rewrites whole words from an earlier copy. **ShortestAtTermination**. **Termination** under weak fairness. The parallel source edges have equal weight, so the unlocked double store of the `do_all` is harmless here. Dropping the neighbour locks breaks **RefinesRelax**. About 93k states. |
| `sssp_long` | violation | A path of length 16 > 14 = the 4-bit sentinel: the node stays "unreached". `verify()` only prints the count of unvisited nodes, although spec.md section 7 asks for a nonzero exit (finding). |
| `sssp_nocas` | violation | `-algo=async`: the `for_each` operator is safe under its locks, but the initial `do_all` is not. Two of its iterations over parallel source edges of weights 1 and 2 both pass the test, and the store of 2 lands last. The request for distance 1 is then discarded as stale, and node 3 ends at 3 instead of 2 (finding). |
| `pushpull_sym` | pass | On a symmetric graph with parallel edges the pull is sound: every written distance is a real walk length (**RefinesRelax**), and the operator ends with shortest paths. |
| `pushpull_directed` | violation | On a directed graph the pull produces a distance below the shortest path, and `verify()` accepts it (finding). |
| `astar` | pass | With CAS and without it (chosen in `Init`). An admissible heuristic and a 5-node graph with a cycle through the goal. Its parallel source edges have equal weight: with weights 1 and 2, the unlocked `do_all` race of `sssp_nocas` makes **RefinesRelaxSafety** fail here too. The goal's distance is optimal although `targetDist` may be stale at the CAS. Distances only drop to walk lengths (**RefinesRelaxSafety**). The loop terminates (**Termination**). |
| `astar_consistent` | violation | **VerifiedAtTermination**: pruning leaves other nodes inconsistent, so astar.cpp's `verify()` rejects the result and `run()` aborts. The code bypasses the check only for one hard-coded USA-graph query (finding). |
| `pagerank` | pass | **NoStrandedResidual**: every node whose residual reaches the tolerance has a live item with its current priority. This holds through the two-load stale test, through the push condition that skips pushes when the priority is unchanged, and through priorities that saturate at `INT_MIN`. **Termination**: the worklist drains. Both values of `-outdeg` are checked. About 915k states, about 100 s. |
| `pagerank_pull` | pass | `PullAlgo` with 2 threads on 3 nodes and `Tol = 5`. Init chooses `-maxIterations` 4 or 10. With 4 the loop stops on the bound after an even round and `Copy` runs; with 10 it converges at round 7 (odd). **ResultIsIterate**: whatever order the threads process nodes in, the result is the Jacobi iterate of the last round. **StopsAtFirstConverged**. **TypeOK** keeps the counter within the bound. |
| `pagerank_serial` | pass | `SerialAlgo` on 4 nodes, `Tol = 2`: the result is the iterate of round 8, the first round within the tolerance. |
| `pagerank_serial_tol0` | violation | With `-tolerance=0` the ranks stop changing at round 15, but `max_delta` never falls below `FLT_MIN`, so the loop runs to `maxIterations` (finding). |
| `sssp_serial` | pass | Every graph on three nodes with weights 0, 1 and 3 (4096 graphs). Each node is settled once, and the set drains to shortest paths. |

Each property of a passing run has a mutant in `PROJECT.json`: a plausible bug
in a mapped definition that TLC finds. The mutants are:

- a CAS that gives up on failure;
- a CAS that retries without re-reading (in SSSP and in A\*);
- a push of the replaced distance;
- the accounting as a plain store;
- a return that drops the push buffer;
- `targetDist` loaded with the work half;
- an unsigned priority;
- the exchange as a plain load, which leaves the residual in place;
- the pull without the edge weight;
- A\* accounting that writes the key instead of the distance;
- `PullAlgo` writing in place, not resetting `max_delta`, with an off-by-one bound, or with the `Copy` parity inverted;
- `SerialAlgo` not clearing `accum`, or `max_delta` kept across iterations;
- the push condition without its priority-change disjunct;
- the serial loop without its guard;
- the serial set in reverse order.

## Bounds

- **PageRank rounds.** The graphs and tolerances are chosen so that the stop
  round comes from convergence and not from the bound. A round above the
  tolerance follows a lower one, so a `max_delta` that carries over is
  detected. Both parities of the last round occur.
- **Threads.** Two threads are enough for every race here. Each race involves
  two operators on the same word.
- **Graphs.** They are hand-built so that each interesting case happens.
  Coverage confirms that every action and branch fires:
  - a shortcut makes requests stale;
  - parallel edges exercise the "no improvement" branches;
  - a cycle through the goal;
  - weights that trigger the pull.
- **Work stamps.** `{1,2}` lets the accounting CAS change only the high half of
  a word another thread has read.
- **PageRank.** Residuals are naturals, with `Tol = 2`, `Amp = 4` and deltas in
  `{1,2}`. These bounds make the priorities of some nodes change and those of
  others not. `MaxRounds = 2` bounds the number of non-zero deltas, which
  stands for the geometric decay of real-valued ranks.

## Fairness

Weak fairness on each thread's step and on each initial `do_all` iteration.
Worker threads are OS threads that keep running while there is work, and
`do_all` completes every iteration. `PullAlgo` and `SerialAlgo` have weak fairness on `Next`, because the loops
run to completion. `CHECK_DEADLOCK FALSE` is used because
the program really stops: a terminated run (empty worklist, all threads idle)
has no successor, just as `for_each_local` returns.

## Not modelled

- **Scheduler implementations.** They are not under `src/`, and `AMQ2.h` is
  only typedefs. The bag abstracts them, so priority order and the
  performance questions are out of scope.
- **PageRank `ProcessWithBreaks`, `fpPRPri`, `computePageRankInOut`, and floating point.**
  `ProcessWithBreaks` is used only by `for_each` calls that are commented
  out (PageRank.cpp:832-840). `fpPRPri` feeds only the `fn2` initial
  items, and no live branch uses them. So both are dead code in this build.
  Real-valued ranks are fixed-point naturals. `small_delta` is only printed.
- **The astar `do_all` race as a run of its own.** The `astar` run checks
  `-algo=async` only on equal-weight parallel source edges. The race on
  unequal weights is the one `sssp_nocas` shows, and the project is at its
  limit of 12 runs.
- **astar `AsyncAlgoPP`.** It is the same code as SSSP's, apart from indentation, so
  `SSSPPushPull` covers it.
- **The heuristic's geometry.** `H` is a fixed per-node value.
- **`not_visited`, `max_dist`, `printTop`.** They only print counts, maxima or (commented-out) rankings.
- **Graph I/O, command line, statistics, `config.h`.**
