------------------------------- MODULE MCGSL -------------------------------
(* Instances of GSLLock for TLC. *)
EXTENDS GSLLock, LockModes, TLC

\* The lock code never looks at a process's identity.
Symmetry == Permutations(Proc)
============================================================================
