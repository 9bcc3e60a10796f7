CONSTANTS
  Node <- MCNode
  Source <- MCSource
  Graphs <- MCGraphs
  Infinity = 100
SPECIFICATION Spec
INVARIANT
  ShortestWhenEmpty
PROPERTY
  SettledOnce
CHECK_DEADLOCK FALSE
