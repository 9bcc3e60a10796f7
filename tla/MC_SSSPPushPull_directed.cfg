CONSTANTS
  Node <- MCNode
  Source <- MCSource
  Adj <- MCDirAdj
  Threads = {t1, t2}
  DistInfinity <- MCDistInfinity
SPECIFICATION Spec
INVARIANT
  VerifiedIsShortest
CHECK_DEADLOCK FALSE
