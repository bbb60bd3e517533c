---------------------------- MODULE MCCheckLock ----------------------------
(* Instances of CheckLock for TLC. *)
EXTENDS CheckLock, LockModes

\* Modes of modes-pg.h: a weak reader, a writer and a reader that conflict
\* with each other only, and a mode that conflicts with everything.
SomeMode == {"AccessShare", "RowExclusive", "Share", "AccessExclusive"}
SomeConflicts == [m \in SomeMode |-> PgConflicts[m] \cap SomeMode]
============================================================================
