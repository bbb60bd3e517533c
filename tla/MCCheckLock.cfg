\* checklock with two threads, upgrades and non-blocking calls.
CONSTANTS
  Proc = {A, B}
  Mode <- SomeMode
  Conflicts <- SomeConflicts
  NULL = NULL
  Head = Head
  MaxHeld = 2
  Upgrades = TRUE
SPECIFICATION LiveTestSpec
CHECK_DEADLOCK FALSE
INVARIANTS
  OnlyExpectedDeadlocks
  NoConflictingLockHeld
  CleanAtEnd
PROPERTY Termination
