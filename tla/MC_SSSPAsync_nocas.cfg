CONSTANTS
  Node <- MCNode
  Source <- MCSource
  Adj <- MCRaceAdj
  Threads = {t1, t2}
  UseCasChoices = {FALSE}
  DistBits <- MCDistBits
  WorkStamps <- MCWorkStamps
SPECIFICATION Spec
INVARIANT
  ShortestAtTermination
CHECK_DEADLOCK FALSE
