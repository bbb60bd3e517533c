\* Three processes, nobody holds two modes: the queue stays exact and every
\* request is granted.  With two-bit counts three holders fill a field.
CONSTANTS
  Proc = {p1, p2, p3}
  Mode <- RwMode
  Conflicts <- RwConflicts
  NULL = NULL
  Head = Head
  MaxHeld = 1
  Index <- RwIndex
  ActiveBits = 2
SPECIFICATION LiveWordSpec
INVARIANTS
  QueueExact
  WakeAsserts
  NoLostWakeup
  WordExact
  TestsExact
PROPERTIES
  AcquireReturns
