CONSTANTS
  Node <- MCNode
  Source <- MCSource
  Dest <- MCDest
  Report <- MCReport
  Adj <- MCAdj
  H <- MCH
  Threads = {t1, t2}
  UseCasChoices = {TRUE}
  DistBits <- MCDistBits
  WorkStamps <- MCWorkStamps
SPECIFICATION Spec
INVARIANT
  VerifiedAtTermination
CHECK_DEADLOCK FALSE
