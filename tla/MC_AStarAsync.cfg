CONSTANTS
  Node <- MCNode
  Source <- MCSource
  Dest <- MCDest
  Report <- MCReport
  Adj <- MCAdj
  H <- MCH
  Threads = {t1, t2}
  UseCasChoices = {TRUE, FALSE}
  DistBits <- MCDistBits
  WorkStamps <- MCWorkStamps
SPECIFICATION Spec
INVARIANTS
  TypeOK
  DestOptimalAtTermination
PROPERTIES
  RefinesRelaxSafety
  Termination
CHECK_DEADLOCK FALSE
