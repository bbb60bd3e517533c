\* Two load clients on one host, nothing interrupted.
CONSTANTS
  Main = 0
  Asyncs = {1, 2}
  MaxRid = 10
  Benchmarks <- ApacheOnly
  MaxInterrupts = 0
SPECIFICATION Spec
CHECK_DEADLOCK FALSE
INVARIANT ProxiesExact
