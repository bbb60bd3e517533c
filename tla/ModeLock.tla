------------------------------ MODULE ModeLock ------------------------------
(***************************************************************************)
(* What the lock of gsl-impl.h promises its callers, with no lock word, no *)
(* queue and no mutex: a process gets a mode only while nobody else holds  *)
(* a conflicting one, and a process that holds nothing does not get past a *)
(* request that is already waiting.                                        *)
(***************************************************************************)
CONSTANTS Proc, Mode, Conflicts

VARIABLES
  held,      \* held[p]: the modes p owns
  pending    \* pending[p]: the mode p waits for, as a set of at most one

absVars == <<held, pending>>

Init ==
  /\ held = [p \in Proc |-> {}]
  /\ pending = [p \in Proc |-> {}]

\* Nobody but p owns a mode that conflicts with m.
Free(p, m) == \A q \in Proc \ {p} : held[q] \cap Conflicts[m] = {}

\* Nobody waits for a mode that conflicts with m.
Unwanted(m) == \A q \in Proc : pending[q] \cap Conflicts[m] = {}

\* gslAcquire returns true without having waited.
Acquire(p, m) ==
  /\ pending[p] = {}
  /\ m \notin held[p]
  /\ Free(p, m)
  /\ held[p] = {} => Unwanted(m)
  /\ held' = [held EXCEPT ![p] = @ \cup {m}]
  /\ UNCHANGED pending

\* gslAcquire meets a conflict and queues.
Request(p, m) ==
  /\ pending[p] = {}
  /\ m \notin held[p]
  /\ pending' = [pending EXCEPT ![p] = {m}]
  /\ UNCHANGED held

\* Somebody's wake grants a waiting request.
Grant(p, m) ==
  /\ pending[p] = {m}
  /\ Free(p, m)
  /\ held' = [held EXCEPT ![p] = @ \cup {m}]
  /\ pending' = [pending EXCEPT ![p] = {}]

\* gslRelease.
Release(p, m) ==
  /\ pending[p] = {}
  /\ m \in held[p]
  /\ held' = [held EXCEPT ![p] = @ \ {m}]
  /\ UNCHANGED pending

Next ==
  \E p \in Proc, m \in Mode :
    Acquire(p, m) \/ Request(p, m) \/ Grant(p, m) \/ Release(p, m)

Spec == Init /\ [][Next]_absVars
=============================================================================
