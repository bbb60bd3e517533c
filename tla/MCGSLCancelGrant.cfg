\* Sleeps that are aborted and canceled.
CONSTANTS
  Proc = {p1, p2, p3}
  Mode <- RwMode
  Conflicts <- RwConflicts
  NULL = NULL
  Head = Head
  MaxHeld = 1
SPECIFICATION CancelSpec
SYMMETRY Symmetry
CHECK_DEADLOCK FALSE
INVARIANT MutualExclusion
