------------------------------ MODULE MCPgLock ------------------------------
(* Instances of PgLock for TLC. *)
EXTENDS PgLock, LockModes, TLC

\* Neither lock.c nor the lock looks at a process's identity.
Symmetry == Permutations(Proc)
============================================================================
