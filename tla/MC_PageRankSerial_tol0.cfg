CONSTANTS
  Node <- MCNode
  Out <- MCOut
  Scale = 100
  AlphaS = 15
  Tol = 0
  MaxIterations = 18
SPECIFICATION Spec
INVARIANTS
  StopsAtFirstConverged
CHECK_DEADLOCK FALSE
