SPECIFICATION Spec
CONSTANTS
  MAX_NODES = 4
  MAX_CHILDREN = 3
  Graphs <- MCGraphs
  StackJunk <- Clean
  Pids = {p1, p2, p3}
INVARIANTS
  TypeOK
  DependencyOrder
  WaitsBalanced
  ParentsHeard
  CleanSuccess
PROPERTIES
  ImplementsDagRun
  Completes
