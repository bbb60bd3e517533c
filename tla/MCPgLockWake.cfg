CONSTANTS
  Proc = {p1, p2, p3}
  Mode <- RwMode
  Conflicts <- RwConflicts
  NULL = NULL
  Head = Head
  MaxHeld = 1
SPECIFICATION PgSpec
SYMMETRY Symmetry
CHECK_DEADLOCK FALSE
INVARIANT WakeNotForgotten
