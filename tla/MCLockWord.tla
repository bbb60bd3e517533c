----------------------------- MODULE MCLockWord -----------------------------
(* Instances of LockWord for TLC. *)
EXTENDS LockWord, LockModes

RwIndex == [SHARED |-> 0, EXCLUSIVE |-> 1]
=============================================================================
