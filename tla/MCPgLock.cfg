\* Three backends, one mode each.  A backend asleep for good may stop the
\* system.
CONSTANTS
  Proc = {p1, p2, p3}
  Mode <- RwMode
  Conflicts <- RwConflicts
  NULL = NULL
  Head = Head
  MaxHeld = 1
SPECIFICATION PgSpec
SYMMETRY Symmetry
CHECK_DEADLOCK FALSE
INVARIANTS
  HoldersKeepEntry
  PinsExact
  MutualExclusion
