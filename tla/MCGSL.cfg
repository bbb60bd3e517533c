\* Three processes that may hold both modes: upgrades jump the queue and wake
\* passes over them.  Two upgrades may block each other, so the system may stop.
CONSTANTS
  Proc = {p1, p2, p3}
  Mode <- RwMode
  Conflicts <- RwConflicts
  NULL = NULL
  Head = Head
  MaxHeld = 2
SPECIFICATION Spec
SYMMETRY Symmetry
CHECK_DEADLOCK FALSE
INVARIANTS
  TypeOK
  MutualExclusion
  CountsExact
  WaitBitsExact
  NoLostWakeup
  EntryAsserts
PROPERTIES
  NoBarging
  ImplementsModeLock
