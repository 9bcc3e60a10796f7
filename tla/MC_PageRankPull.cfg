CONSTANTS
  Node <- MCNode
  Out <- MCOut
  Scale = 100
  AlphaS = 15
  Tolerances = {5}
  MaxIterationsChoices = {4, 10}
  Threads = {t1, t2}
SPECIFICATION Spec
INVARIANTS
  TypeOK
  ResultIsIterate
  StopsAtFirstConverged
CHECK_DEADLOCK FALSE
