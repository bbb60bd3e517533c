\* Three benchmarks, two load clients; one interrupt at any point, in a hook or
\* between two; the server may crash at any point.  The script ends.
CONSTANTS
  Main = 0
  Asyncs = {1, 2}
  MaxRid = 10
  Benchmarks <- AllBenchmarks
  MaxInterrupts = 1
SPECIFICATION Spec
CHECK_DEADLOCK FALSE
INVARIANTS
  TypeOK
  PipesOpen
  NoneForgotten
  WaitExact
  AllStopped
  EndClean
PROPERTIES
  ImplementsCalls
  RunReturns
  OrphansDie
