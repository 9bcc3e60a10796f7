CONSTANTS
  Node <- MCNode
  Out <- MCOut
  Tol = 2
  Amp = 4
  InitResidual = {0, 2}
  Deltas = {1, 2}
  MaxRounds = 2
  IntMin <- MCIntMin
  OutOnlyChoices = {FALSE, TRUE}
  Threads = {t1, t2}
SPECIFICATION Spec
INVARIANTS
  TypeOK
  NoStrandedResidual
PROPERTIES
  Termination
CHECK_DEADLOCK FALSE
