CONSTANTS
  Node <- MCNode
  Source <- MCSource
  Adj <- MCSymAdj
  Threads = {t1, t2}
  DistInfinity <- MCDistInfinity
SPECIFICATION Spec
INVARIANTS
  TypeOK
  ShortestAtTermination
PROPERTY
  RefinesRelax
CHECK_DEADLOCK FALSE
