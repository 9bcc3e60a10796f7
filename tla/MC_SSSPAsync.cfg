CONSTANTS
  Node <- MCNode
  Source <- MCSource
  Adj <- MCAdj
  Threads = {t1, t2}
  UseCasChoices = {TRUE, FALSE}
  DistBits <- MCDistBits
  WorkStamps <- MCWorkStamps
SPECIFICATION Spec
INVARIANTS
  TypeOK
  NoLostRelaxation
  ShortestAtTermination
PROPERTIES
  RefinesRelax
  Termination
CHECK_DEADLOCK FALSE
