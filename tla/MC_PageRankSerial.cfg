CONSTANTS
  Node <- MCNode
  Out <- MCOut
  Scale = 100
  AlphaS = 15
  Tol = 2
  MaxIterations = 18
SPECIFICATION Spec
INVARIANTS
  ResultIsIterate
  StopsAtFirstConverged
CHECK_DEADLOCK FALSE
