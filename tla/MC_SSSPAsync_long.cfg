CONSTANTS
  Node <- MCNode
  Source <- MCSource
  Adj <- MCLongAdj
  Threads = {t1, t2}
  UseCasChoices = {TRUE}
  DistBits <- MCDistBits
  WorkStamps <- MCWorkStamps
SPECIFICATION Spec
INVARIANT
  ShortestAtTermination
CHECK_DEADLOCK FALSE
