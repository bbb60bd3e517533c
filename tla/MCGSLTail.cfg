\* With upgrades, wake leaves waiterTail behind and loses a waiter.
CONSTANTS
  Proc = {p1, p2, p3}
  Mode <- RwMode
  Conflicts <- RwConflicts
  NULL = NULL
  Head = Head
  MaxHeld = 2
SPECIFICATION Spec
SYMMETRY Symmetry
CHECK_DEADLOCK FALSE
INVARIANT WakeAsserts
