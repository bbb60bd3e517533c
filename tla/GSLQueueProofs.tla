--------------------------- MODULE GSLQueueProofs ---------------------------
(***************************************************************************)
(* Proofs about the wait queue of GSLLock: no wakeup is lost, for any      *)
(* number of processes, any symmetric conflict table and any nesting of    *)
(* upgrades; and where nobody upgrades the queue holds every waiter.       *)
(***************************************************************************)
EXTENDS GSLLockProofs, WellFoundedInduction

(***************************************************************************)
(* The inductive invariant.                                                *)
(***************************************************************************)
Resting(p) == pc[p] \in {"idle", "asleep"}
Waking(p)  == pc[p] \in Walk \cup Grant

\* Behind a fair request are fair requests.
OrderInv ==
  \A c \in Proc : InQ(c) /\ ~isUpgrade[c] /\ lockNext[c] # NULL => ~isUpgrade[lockNext[c]]

\* P are the upgrade requests that wake has passed over, from the head of the
\* queue to its cursor.
Passed(P) ==
  /\ \A q \in P : InQ(q) /\ isUpgrade[q]
  /\ prevLink \in P \cup {Head}
  /\ \A c \in P \cup {Head} : c # prevLink => lockNext[c] \in P
  /\ \A q \in P : \E c \in P \cup {Head} : c # prevLink /\ lockNext[c] = q

\* What wake has passed over is blocked, unless somebody on its way to
\* queueLock will run wake again.
WalkInv ==
  \A p \in Proc : Waking(p) =>
    \E P \in SUBSET Proc :
      /\ Passed(P)
      /\ (\A q \in Proc : q # p => Resting(q)) => \A q \in P : Blocked(q)

WakeInv == IInv /\ OrderInv /\ WalkInv /\ NoLostWakeup

\* Without upgrades the queue is first in, first out: wake stays at its head,
\* waiterTail is its last process, and each process on it is linked from one.
FifoInv ==
  /\ \A p \in Proc : /\ IsFiniteSet(holding[p])
                     /\ pc[p] \in {"contend", "enqueue"} => holding[p] = {}
                     /\ InQ(p) => ~isUpgrade[p]
                     /\ Waking(p) => prevLink = Head
                     /\ InQ(p) => \E c \in Cell : InQCell(c) /\ lockNext[c] = p
  /\ lockNext[Head] # NULL =>
       waiterTail \in Proc /\ InQ(waiterTail) /\ lockNext[waiterTail] = NULL

-----------------------------------------------------------------------------
(***************************************************************************)
(* Facts about one state.                                                  *)
(***************************************************************************)
\* The links lead from the head to waiters only.
LEMMA OnQueueQueued ==
  ASSUME StructInv, NEW q \in OnQueue
  PROVE  q \in Proc /\ InQ(q)
<1> DEFINE S == {p \in Proc : InQ(p)}
<1>1. Closed(S)
  <2>1. ASSUME NEW c \in S \cup {Head} PROVE lockNext[c] \in S \cup {NULL}
    <3>1. c \in Cell /\ InQCell(c)
      BY DEF Cell, InQCell
    <3> QED BY <3>1 DEF StructInv, TypeOK, ListInv
  <2> QED BY <2>1 DEF Closed
<1> QED BY <1>1 DEF OnQueue

\* A queued process is counted for what it recorded as its own.
LEMMA OwnCounted ==
  ASSUME IInv, NEW q \in Proc, InQ(q), NEW n \in Mode
  PROVE  active[n] \in Nat /\ Own(waitHolding[q], n) \in {0, 1}
         /\ active[n] - Own(waitHolding[q], n) >= 0
<1>1. active[n] \in Nat
  BY DEF IInv, StructInv, TypeOK
<1>2. CASE n \in waitHolding[q]
  <2> DEFINE S == {r \in Proc : n \in ClaimMap[r]}
  <2>1. n \in holding[q]
    BY <1>2 DEF IInv, StructInv, CallInv, InQ
  <2>2. q \in S
    BY <2>1 DEF ClaimMap, Claim, Held
  <2>3. IsFiniteSet(S) /\ active[n] = Cardinality(S)
    BY ProcAssumption, FS_Subset DEF IInv, CountInv, Counts
  <2>4. active[n] # 0
    BY <2>2, <2>3, FS_EmptySet
  <2> QED BY <1>1, <1>2, <2>4 DEF Own
<1>3. CASE n \notin waitHolding[q]
  BY <1>1, <1>3 DEF Own
<1> QED BY <1>2, <1>3

\* One more count blocks nobody less.
LEMMA BlockedUp ==
  ASSUME IInv, NEW q \in Proc, InQ(q), Blocked(q), NEW m \in Mode,
         active' = [active EXCEPT ![m] = @ + 1],
         wantMode'[q] = wantMode[q], waitHolding'[q] = waitHolding[q]
  PROVE  Blocked(q)'
<1>1. PICK n \in Conflicts[wantMode[q]] : active[n] - Own(waitHolding[q], n) # 0
  BY DEF Blocked, ActiveConflict
<1>2. n \in Mode /\ active \in [Mode -> Nat]
  BY ConflictsAssumption DEF IInv, StructInv, TypeOK, CallInv, InQ
<1>3. active'[n] - Own(waitHolding[q], n) # 0
  <2>1. /\ active[n] \in Nat /\ Own(waitHolding[q], n) \in {0, 1}
        /\ active[n] - Own(waitHolding[q], n) >= 0
    BY <1>2, OwnCounted
  <2>2. active'[n] \in {active[n], active[n] + 1}
    BY <1>2
  <2> QED BY <1>1, <2>1, <2>2
<1> QED BY <1>3 DEF Blocked, ActiveConflict

\* A count given back without a look at the queue blocks no waiter less: its
\* wait bit would have been seen.
LEMMA BlockedDown ==
  ASSUME IInv, NEW q \in Proc, Waits(q), Blocked(q), NEW m \in Mode,
         active' = [active EXCEPT ![m] = @ - 1], ~WaitConflict(m),
         wantMode'[q] = wantMode[q], waitHolding'[q] = waitHolding[q]
  PROVE  Blocked(q)'
<1>1. PICK n \in Conflicts[wantMode[q]] : active[n] - Own(waitHolding[q], n) # 0
  BY DEF Blocked, ActiveConflict
<1>2. wantMode[q] \in Mode /\ waiting[wantMode[q]] /\ n \in Mode /\ active \in [Mode -> Nat]
  BY ConflictsAssumption DEF IInv, StructInv, TypeOK, CallInv, Waits, WaitBitsExact
<1>3. wantMode[q] \notin Conflicts[m]
  BY <1>2 DEF WaitConflict
<1>4. n # m
  BY <1>2, <1>3, ConflictsAssumption
<1>5. active'[n] = active[n]
  BY <1>2, <1>4
<1> QED BY <1>1, <1>5 DEF Blocked, ActiveConflict

\* The same counts block the same requests.
LEMMA BlockedSame ==
  ASSUME NEW q, Blocked(q), UNCHANGED active,
         wantMode'[q] = wantMode[q], waitHolding'[q] = waitHolding[q]
  PROVE  Blocked(q)'
BY DEF Blocked, ActiveConflict

\* Wake does not come back to what it has passed over.
LEMMA CandidateAhead ==
  ASSUME StructInv, NEW p \in Proc, Waking(p), NEW P \in SUBSET Proc, Passed(P)
  PROVE  Candidate \notin P
<1> SUFFICES ASSUME Candidate \in P PROVE FALSE
  OBVIOUS
<1>1. PICK c \in P \cup {Head} : c # prevLink /\ lockNext[c] = Candidate
  BY DEF Passed
<1>2. c \in Cell /\ InQCell(c) /\ prevLink \in Cell /\ InQCell(prevLink) /\ Candidate # NULL
  BY CellAssumption DEF Passed, InQCell, Cell
<1> QED BY <1>1, <1>2 DEF StructInv, ListInv, Candidate

\* At most one process is in wake.
LEMMA OneWakes ==
  ASSUME StructInv, NEW p \in Proc, Waking(p)
  PROVE  queueLock = p /\ \A q \in Proc : q # p => ~Waking(q)
BY OneCritical DEF Waking, StructInv, ControlInv, Critical

-----------------------------------------------------------------------------
(***************************************************************************)
(* No lost wakeup.                                                         *)
(***************************************************************************)
\* The queue, its order and the turns depend on a part of the state only.
LEMMA QueueSame ==
  ASSUME UNCHANGED <<lockNext, isUpgrade>>
  PROVE  OnQueue' = OnQueue /\ \A q : Turn(q)' = Turn(q)
<1>1. \A S : Closed(S)' = Closed(S)
  BY DEF Closed
<1>2. OnQueue' = OnQueue
  BY <1>1 DEF OnQueue
<1> QED BY <1>2 DEF Turn

\* A step that leaves the queue and everybody's part in it alone.
LEMMA CalmStep ==
  ASSUME WakeInv, UNCHANGED <<lockNext, prevLink, isUpgrade>>,
         \A q \in Proc : /\ InQ(q)' <=> InQ(q)
                         /\ Resting(q)' <=> Resting(q)
                         /\ Waking(q)' <=> Waking(q)
                         /\ Waits(q) /\ Blocked(q) => Blocked(q)'
  PROVE  OrderInv' /\ WalkInv' /\ NoLostWakeup'
<1> USE DEF WakeInv
<1>1. OrderInv'
  BY DEF OrderInv
<1>2. WalkInv'
  <2> SUFFICES ASSUME NEW p \in Proc, Waking(p)
               PROVE  \E P \in SUBSET Proc :
                        /\ Passed(P)'
                        /\ (\A q \in Proc : q # p => Resting(q)') => \A q \in P : Blocked(q)'
    BY DEF WalkInv
  <2>1. PICK P \in SUBSET Proc :
          /\ Passed(P)
          /\ (\A q \in Proc : q # p => Resting(q)) => \A q \in P : Blocked(q)
    BY DEF WalkInv
  <2>2. Passed(P)'
    BY <2>1 DEF Passed
  <2>3. ASSUME NEW q \in P PROVE Waits(q)
    <3>1. InQ(q) /\ q # Candidate
      BY <2>1, CandidateAhead DEF Passed, IInv
    <3> QED BY <3>1 DEF InQ, Waits, Granted
  <2> QED BY <2>1, <2>2, <2>3
<1>3. NoLostWakeup'
  <2> SUFFICES ASSUME \A p \in Proc : Resting(p), NEW q \in OnQueue, Turn(q)
               PROVE  Blocked(q)'
    BY QueueSame DEF NoLostWakeup, Resting
  <2>1. Blocked(q)
    BY DEF NoLostWakeup, Resting
  <2>2. q \in Proc /\ InQ(q)
    BY OnQueueQueued DEF IInv
  <2>3. Waits(q)
    BY <2>2 DEF Resting, Waits, InQ, Granted, Grant
  <2> QED BY <2>1, <2>2, <2>3
<1> QED BY <1>1, <1>2, <1>3

\* A process sets out for queueLock, or has got it.
LEMMA LoudStep ==
  ASSUME WakeInv, UNCHANGED <<lockNext, prevLink, isUpgrade>>,
         NEW p \in Proc, ~Resting(p)', ~Waking(p)',
         \A q \in Proc : /\ InQ(q)' <=> InQ(q)
                         /\ q # p => (Waking(q)' <=> Waking(q))
  PROVE  OrderInv' /\ WalkInv' /\ NoLostWakeup'
<1> USE DEF WakeInv
<1>1. OrderInv'
  BY DEF OrderInv
<1>2. WalkInv'
  <2> SUFFICES ASSUME NEW w \in Proc, w # p, Waking(w)
               PROVE  \E P \in SUBSET Proc : Passed(P)'
    BY DEF WalkInv
  <2>1. PICK P \in SUBSET Proc : Passed(P)
    BY DEF WalkInv
  <2>2. Passed(P)'
    BY <2>1 DEF Passed
  <2> QED BY <2>2
<1>3. NoLostWakeup'
  BY DEF NoLostWakeup, Resting
<1> QED BY <1>1, <1>2, <1>3

\* The fast paths, and the return of a granted sleeper.
LEMMA FastCalm ==
  ASSUME WakeInv, NEW p \in Proc, NEW m \in Mode,
         AcquireAtOnce(p, m) \/ ReleaseFast(p, m) \/ AcquireReturn(p)
  PROVE  OrderInv' /\ WalkInv' /\ NoLostWakeup'
<1> USE DEF WakeInv
<1>1. CASE AcquireAtOnce(p, m)
  <2>1. /\ UNCHANGED <<lockNext, prevLink, isUpgrade, wantMode, waitHolding, pc, wakeup>>
        /\ active' = [active EXCEPT ![m] = @ + 1]
    BY <1>1 DEF AcquireAtOnce, queue
  <2>2. \A q \in Proc : /\ InQ(q)' <=> InQ(q)
                        /\ Resting(q)' <=> Resting(q)
                        /\ Waking(q)' <=> Waking(q)
    BY <2>1 DEF InQ, Blocking, Resting, Waking
  <2>3. \A q \in Proc : Waits(q) /\ Blocked(q) => Blocked(q)'
    BY <2>1, BlockedUp DEF Waits, InQ, Granted
  <2> QED BY <2>1, <2>2, <2>3, CalmStep
<1>2. CASE ReleaseFast(p, m)
  <2>1. /\ UNCHANGED <<lockNext, prevLink, isUpgrade, wantMode, waitHolding, pc, wakeup>>
        /\ active' = [active EXCEPT ![m] = @ - 1] /\ ~WaitConflict(m)
    BY <1>2 DEF ReleaseFast, queue
  <2>2. \A q \in Proc : /\ InQ(q)' <=> InQ(q)
                        /\ Resting(q)' <=> Resting(q)
                        /\ Waking(q)' <=> Waking(q)
    BY <2>1 DEF InQ, Blocking, Resting, Waking
  <2>3. \A q \in Proc : Waits(q) /\ Blocked(q) => Blocked(q)'
    BY <2>1, BlockedDown
  <2> QED BY <2>1, <2>2, <2>3, CalmStep
<1>3. CASE AcquireReturn(p)
  <2>1. /\ UNCHANGED <<lockNext, prevLink, isUpgrade, wantMode, waitHolding, active>>
        /\ pc[p] = "asleep" /\ wakeup[p] /\ pc' = [pc EXCEPT ![p] = "idle"]
        /\ wakeup' = [wakeup EXCEPT ![p] = FALSE]
        /\ pc \in [Proc -> Label] /\ wakeup \in [Proc -> BOOLEAN]
    BY <1>3 DEF AcquireReturn, queue, lockWord, IInv, StructInv, TypeOK
  <2>2. \A q \in Proc : /\ InQ(q)' <=> InQ(q)
                        /\ Resting(q)' <=> Resting(q)
                        /\ Waking(q)' <=> Waking(q)
    BY <2>1 DEF InQ, Blocking, Resting, Waking, Walk, Grant
  <2>3. \A q \in Proc : Waits(q) /\ Blocked(q) => Blocked(q)'
    BY <2>1, BlockedSame
  <2> QED BY <2>1, <2>2, <2>3, CalmStep
<1> QED BY <1>1, <1>2, <1>3

\* The slow paths up to queueLock.
LEMMA SlowLoud ==
  ASSUME WakeInv, NEW p \in Proc, NEW m \in Mode,
         AcquireContended(p, m) \/ ReleaseContended(p, m) \/ TakeQueueLock(p)
  PROVE  OrderInv' /\ WalkInv' /\ NoLostWakeup'
<1> USE DEF WakeInv
<1>1. /\ UNCHANGED <<lockNext, prevLink, isUpgrade, wakeup>> /\ pc \in [Proc -> Label]
      /\ pc[p] \in {"idle", "contend", "release"}
      /\ \E l \in {"contend", "release", "enqueue", "relWake"} : pc' = [pc EXCEPT ![p] = l]
  BY DEF AcquireContended, Callable, ReleaseContended, Releasable, TakeQueueLock,
     AcquireQueueLock, ReleaseQueueLock, queue, IInv, StructInv, TypeOK
<1>2. ~Resting(p)' /\ ~Waking(p)'
  BY <1>1 DEF Resting, Waking, Walk, Grant
<1>3. \A q \in Proc : /\ InQ(q)' <=> InQ(q)
                      /\ q # p => (Waking(q)' <=> Waking(q))
  BY <1>1 DEF InQ, Blocking, Waking
<1> QED BY <1>1, <1>2, <1>3, LoudStep

\* A request joins the queue: a fair one is followed by nobody.
LEMMA EnqueueLoud ==
  ASSUME WakeInv, NEW p \in Proc, Enqueue(p)
  PROVE  OrderInv' /\ WalkInv' /\ NoLostWakeup'
<1> USE DEF WakeInv
<1>1. /\ pc[p] = "enqueue" /\ pc' = [pc EXCEPT ![p] = "acqWake"] /\ pc \in [Proc -> Label]
      /\ isUpgrade' = [isUpgrade EXCEPT ![p] = holding[p] # {}]
      /\ isUpgrade \in [Proc -> BOOLEAN] /\ lockNext \in [Cell -> Proc \cup {NULL}]
      /\ UNCHANGED wakeup /\ p \in Cell /\ Head \in Cell /\ p # Head
      /\ IF holding[p] # {} THEN Prepend(p) ELSE AppendFair(p)
  BY CellAssumption DEF Enqueue, IInv, StructInv, TypeOK, Cell
<1>2. \A q \in Proc : (InQ(q)' <=> InQ(q) \/ q = p) /\ (q # p => isUpgrade'[q] = isUpgrade[q])
  BY <1>1 DEF InQ, Blocking, IInv, StructInv, CallInv
<1>3. OrderInv'
  <2> SUFFICES ASSUME NEW c \in Proc, InQ(c)', ~isUpgrade'[c], lockNext'[c] # NULL
               PROVE  ~isUpgrade'[lockNext'[c]]
    BY DEF OrderInv
  <2>1. c \in Cell /\ c # Head
    BY CellAssumption DEF Cell
  <2>2. CASE holding[p] # {}
    <3>1. c # p /\ lockNext'[c] = lockNext[c]
      BY <1>1, <2>1, <2>2 DEF Prepend
    <3>2. InQ(c) /\ lockNext[c] \in Proc /\ InQ(lockNext[c])
      BY <1>1, <1>2, <2>1, <3>1 DEF IInv, StructInv, ListInv, InQCell
    <3>3. lockNext[c] # p
      BY <1>1, <3>2 DEF InQ, Blocking
    <3> QED BY <1>2, <3>1, <3>2, <3>3 DEF OrderInv
  <2>3. CASE holding[p] = {}
    <3>1. ~isUpgrade'[p]
      BY <1>1, <2>3
    <3>2. c # p /\ lockNext'[c] \in {p, lockNext[c]}
      BY <1>1, <2>1, <2>3 DEF AppendFair
    <3>3. CASE lockNext'[c] # p
      <4>1. InQ(c) /\ ~isUpgrade[c] /\ lockNext[c] # NULL /\ lockNext[c] \in Proc
        BY <1>1, <1>2, <2>1, <3>2, <3>3
      <4> QED BY <1>2, <3>2, <3>3, <4>1 DEF OrderInv
    <3> QED BY <3>1, <3>3
  <2> QED BY <2>2, <2>3
<1>4. WalkInv' /\ NoLostWakeup'
  <2>1. \A q \in Proc : ~Waking(q)'
    BY <1>1 DEF Waking, Walk, Grant, IInv, StructInv, ControlInv, Critical
  <2> QED BY <1>1, <2>1 DEF WalkInv, NoLostWakeup
<1> QED BY <1>3, <1>4

\* The walk begins at the head, with nothing passed over.
LEMMA WakeBeginStep ==
  ASSUME WakeInv, NEW p \in Proc, WakeBegin(p)
  PROVE  OrderInv' /\ WalkInv' /\ NoLostWakeup'
<1> USE DEF WakeInv
<1>1. /\ pc[p] \in {"acqWake", "relWake"} /\ pc' = [pc EXCEPT ![p] = ToWalk(@)]
      /\ pc \in [Proc -> Label] /\ prevLink' = Head /\ UNCHANGED <<lockNext, isUpgrade, wakeup>>
  BY DEF WakeBegin, queue, IInv, StructInv, TypeOK
<1>2. ~Resting(p)' /\ \A q \in Proc : InQ(q)' <=> InQ(q)
  BY <1>1 DEF InQ, Blocking, Resting, ToWalk
<1>3. OrderInv'
  BY <1>1, <1>2 DEF OrderInv
<1>4. WalkInv'
  <2>1. Passed({})'
    BY <1>1 DEF Passed
  <2> QED BY <2>1 DEF WalkInv
<1>5. NoLostWakeup'
  BY <1>2 DEF NoLostWakeup, Resting
<1> QED BY <1>3, <1>4, <1>5

\* The candidate is granted: the counts only grow.
LEMMA WakeGrantLoud ==
  ASSUME WakeInv, NEW p \in Proc, WakeGrant(p)
  PROVE  OrderInv' /\ WalkInv' /\ NoLostWakeup'
<1> USE DEF WakeInv
<1> DEFINE m == wantMode[Candidate]
<1>1. /\ Waking(p) /\ pc' = [pc EXCEPT ![p] = ToGrant(@)] /\ pc \in [Proc -> Label]
      /\ pc[p] \in Walk /\ Candidate # NULL
      /\ active' = [active EXCEPT ![m] = @ + 1]
      /\ UNCHANGED <<lockNext, prevLink, isUpgrade, wantMode, waitHolding, wakeup>>
  BY DEF WakeGrant, queue, IInv, StructInv, TypeOK, Waking
<1>2. m \in Mode /\ \A q \in Proc : q # p => ~Waking(q)
  BY <1>1, CandidateQueued, OneWakes DEF IInv
<1>3. /\ ~Resting(p)' /\ \A q \in Proc : InQ(q)' <=> InQ(q)
      /\ \A q \in Proc : q # p => (Resting(q)' <=> Resting(q)) /\ ~Waking(q)'
  BY <1>1, <1>2 DEF InQ, Blocking, Resting, Waking, Walk, ToGrant
<1>4. OrderInv'
  BY <1>1, <1>3 DEF OrderInv
<1>5. WalkInv'
  <2>1. PICK P \in SUBSET Proc :
          /\ Passed(P)
          /\ (\A q \in Proc : q # p => Resting(q)) => \A q \in P : Blocked(q)
    BY <1>1 DEF WalkInv
  <2>2. Passed(P)'
    BY <1>1, <1>3, <2>1 DEF Passed
  <2>3. \A q \in P : Blocked(q) => Blocked(q)'
    BY <1>1, <1>2, <2>1, BlockedUp DEF Passed
  <2> QED BY <1>3, <2>1, <2>2, <2>3 DEF WalkInv
<1>6. NoLostWakeup'
  BY <1>3 DEF NoLostWakeup, Resting
<1> QED BY <1>4, <1>5, <1>6

\* The candidate is woken and taken off the queue, past the cursor.
LEMMA WakeUnlinkLoud ==
  ASSUME WakeInv, NEW p \in Proc, WakeUnlink(p)
  PROVE  OrderInv' /\ WalkInv' /\ NoLostWakeup'
<1> USE DEF WakeInv
<1> DEFINE c == Candidate
<1>1. /\ Waking(p) /\ pc' = [pc EXCEPT ![p] = ToWalk(@)] /\ pc \in [Proc -> Label]
      /\ pc[p] \in Grant /\ c # NULL
      /\ wakeup' = [wakeup EXCEPT ![c] = TRUE] /\ wakeup \in [Proc -> BOOLEAN]
      /\ lockNext' = [lockNext EXCEPT ![prevLink] = lockNext[c], ![c] = NULL]
      /\ lockNext \in [Cell -> Proc \cup {NULL}]
      /\ UNCHANGED <<prevLink, isUpgrade, wantMode, waitHolding, active>>
  BY DEF WakeUnlink, lockWord, IInv, StructInv, TypeOK, Waking, ListInv
<1>2. /\ prevLink \in Cell /\ InQCell(prevLink) /\ c \in Proc /\ InQ(c) /\ lockNext[prevLink] = c
      /\ \A q \in Proc : q # p => ~Waking(q)
  BY <1>1, CandidateQueued, OneWakes DEF IInv
<1>3. /\ ~Resting(p)' /\ \A q \in Proc : InQ(q)' <=> InQ(q) /\ q # c
      /\ \A q \in Proc : q # p => (Resting(q)' <=> Resting(q)) /\ ~Waking(q)'
  BY <1>1, <1>2 DEF InQ, Blocking, Resting, Waking, Grant, Walk, ToWalk
<1>4. /\ c \in Cell /\ c # Head
      /\ \A d \in Cell : d # c => lockNext'[d] = IF d = prevLink THEN lockNext[c] ELSE lockNext[d]
  BY <1>1, <1>2, CellAssumption DEF Cell
<1>5. OrderInv'
  <2> SUFFICES ASSUME NEW d \in Proc, InQ(d), d # c, ~isUpgrade[d], lockNext'[d] # NULL
               PROVE  ~isUpgrade[lockNext'[d]]
    BY <1>1, <1>3 DEF OrderInv
  <2>1. d \in Cell
    BY DEF Cell
  <2>2. CASE d = prevLink
    <3>1. lockNext'[d] = lockNext[c] /\ ~isUpgrade[c]
      BY <1>1, <1>2, <1>4, <2>1, <2>2 DEF OrderInv
    <3> QED BY <1>2, <3>1 DEF OrderInv
  <2>3. CASE d # prevLink
    BY <1>4, <2>1, <2>3 DEF OrderInv
  <2> QED BY <2>2, <2>3
<1>6. WalkInv'
  <2>1. PICK P \in SUBSET Proc :
          /\ Passed(P)
          /\ (\A q \in Proc : q # p => Resting(q)) => \A q \in P : Blocked(q)
    BY <1>1 DEF WalkInv
  <2>2. c \notin P
    BY <1>1, <2>1, CandidateAhead DEF IInv
  <2>3. \A d \in P \cup {Head} : d # prevLink => lockNext'[d] = lockNext[d]
    BY <1>4, <2>2 DEF Cell
  <2>4. Passed(P)'
    <3>1. \A q \in P : InQ(q)' /\ isUpgrade'[q]
      BY <1>1, <1>3, <2>1, <2>2 DEF Passed
    <3> QED BY <1>1, <2>1, <2>3, <3>1 DEF Passed
  <2>5. \A q \in P : Blocked(q) => Blocked(q)'
    BY <1>1, BlockedSame
  <2> QED BY <1>3, <2>1, <2>4, <2>5 DEF WalkInv
<1>7. NoLostWakeup'
  BY <1>3 DEF NoLostWakeup, Resting
<1> QED BY <1>5, <1>6, <1>7

\* A blocked upgrade request is passed over.
LEMMA WakeSkipStep ==
  ASSUME WakeInv, NEW p \in Proc, WakeSkip(p)
  PROVE  OrderInv' /\ WalkInv' /\ NoLostWakeup'
<1> USE DEF WakeInv
<1>0. PICK c : c = Candidate
  OBVIOUS
<1>1. /\ Waking(p) /\ c # NULL /\ Blocked(c) /\ isUpgrade[c] /\ prevLink' = c
      /\ UNCHANGED <<lockNext, isUpgrade, wantMode, waitHolding, active, wakeup, pc>>
  BY <1>0 DEF WakeSkip, queue, lockWord, Waking
<1>2. /\ prevLink \in Cell /\ c \in Proc /\ InQ(c) /\ lockNext[prevLink] = c
      /\ \A q \in Proc : q # p => ~Waking(q)
  BY <1>0, <1>1, CandidateQueued, OneWakes DEF IInv, Waking
<1>3. \A q \in Proc : /\ InQ(q)' <=> InQ(q)
                      /\ Resting(q)' <=> Resting(q)
                      /\ Waking(q)' <=> Waking(q)
                      /\ Blocked(q) => Blocked(q)'
  BY <1>1, BlockedSame DEF InQ, Blocking, Resting, Waking
<1>4. OrderInv'
  BY <1>1, <1>3 DEF OrderInv
<1>5. WalkInv'
  <2>1. PICK P \in SUBSET Proc :
          /\ Passed(P)
          /\ (\A q \in Proc : q # p => Resting(q)) => \A q \in P : Blocked(q)
    BY <1>1 DEF WalkInv
  <2>2. c \notin P /\ c # Head
    BY <1>0, <1>1, <1>2, <2>1, CandidateAhead, CellAssumption DEF IInv
  <2> DEFINE Q == P \cup {c}
  <2>3. Q \in SUBSET Proc /\ \A q \in Q : InQ(q)' /\ isUpgrade'[q]
    BY <1>1, <1>2, <1>3, <2>1 DEF Passed
  <2>4. \A d \in Q \cup {Head} : d # c => lockNext[d] \in Q
    BY <1>2, <2>1 DEF Passed
  <2>5. \A q \in Q : \E d \in Q \cup {Head} : d # c /\ lockNext[d] = q
    <3>1. ASSUME NEW q \in P PROVE \E d \in Q \cup {Head} : d # c /\ lockNext[d] = q
      BY <2>1, <2>2 DEF Passed
    <3>2. prevLink \in Q \cup {Head} /\ prevLink # c /\ lockNext[prevLink] = c
      BY <1>2, <2>1, <2>2 DEF Passed
    <3> QED BY <3>1, <3>2
  <2>6. Passed(Q)'
    BY <1>1, <2>3, <2>4, <2>5 DEF Passed
  <2>7. (\A q \in Proc : q # p => Resting(q)') => \A q \in Q : Blocked(q)'
    BY <1>1, <1>2, <1>3, <2>1
  <2> QED BY <1>2, <1>3, <2>3, <2>6, <2>7 DEF WalkInv
<1>6. NoLostWakeup'
  <2>1. ~Resting(p)'
    BY <1>1, <1>3 DEF Resting, Waking, Walk, Grant
  <2> QED BY <2>1 DEF NoLostWakeup, Resting
<1> QED BY <1>4, <1>5, <1>6

\* The walk ends at a blocked fair request or at the end of the queue: every
\* request whose turn it is has been looked at.
LEMMA WakeEndStep ==
  ASSUME WakeInv, NEW p \in Proc, AcquireSleep(p) \/ ReleaseReturn(p)
  PROVE  OrderInv' /\ WalkInv' /\ NoLostWakeup'
<1> USE DEF WakeInv
<1>1. /\ Waking(p) /\ WakeEnds /\ pc \in [Proc -> Label]
      /\ pc' \in {[pc EXCEPT ![p] = "asleep"], [pc EXCEPT ![p] = "idle"]}
      /\ pc[p] = "acqWalk" => pc' = [pc EXCEPT ![p] = "asleep"]
      /\ pc[p] \in {"acqWalk", "relWalk"} /\ (pc[p] = "relWalk" => pc' = [pc EXCEPT ![p] = "idle"])
      /\ UNCHANGED <<lockNext, prevLink, isUpgrade, wantMode, waitHolding, active, wakeup>>
  BY DEF AcquireSleep, ReleaseReturn, queue, lockWord, IInv, StructInv, TypeOK, Waking, Walk
<1>2. \A q \in Proc : /\ InQ(q)' <=> InQ(q)
                      /\ ~Waking(q)'
                      /\ q # p => (Resting(q)' <=> Resting(q))
                      /\ Blocked(q) => Blocked(q)'
  <2>1. \A q \in Proc : q # p => ~Waking(q)
    BY <1>1, OneWakes DEF IInv
  <2>2. ~Waking(p)'
    BY <1>1 DEF Waking, Walk, Grant
  <2>3. InQ(p)' <=> InQ(p)
    BY <1>1 DEF InQ, Blocking
  <2> QED BY <1>1, <2>1, <2>2, <2>3, BlockedSame DEF InQ, Blocking, Resting, Waking
<1>3. OrderInv' /\ WalkInv'
  BY <1>1, <1>2 DEF OrderInv, WalkInv
<1>4. NoLostWakeup'
  <2> SUFFICES ASSUME \A q \in Proc : Resting(q)', NEW q \in OnQueue, Turn(q)
               PROVE  Blocked(q)
    BY <1>1, <1>2, QueueSame DEF NoLostWakeup, Resting, OnQueue
  <2>1. PICK P \in SUBSET Proc : Passed(P) /\ \A r \in P : Blocked(r)
    BY <1>1, <1>2 DEF WalkInv
  <2> DEFINE S == P \cup {r \in Proc : InQ(r) /\ ~isUpgrade[r]}
  <2>2. Candidate # NULL => /\ Candidate \in Proc /\ InQ(Candidate)
                            /\ Blocked(Candidate) /\ ~isUpgrade[Candidate]
    BY <1>1, CandidateQueued DEF WakeEnds, Waking, IInv
  <2>3. Closed(S)
    <3>1. ASSUME NEW d \in P \cup {Head} PROVE lockNext[d] \in S \cup {NULL}
      <4>1. CASE d # prevLink
        BY <2>1, <4>1 DEF Passed
      <4>2. CASE d = prevLink
        BY <2>2, <4>2 DEF Candidate
      <4> QED BY <4>1, <4>2
    <3>2. ASSUME NEW d \in Proc, InQ(d), ~isUpgrade[d] PROVE lockNext[d] \in S \cup {NULL}
      <4>1. lockNext[d] # NULL => lockNext[d] \in Proc /\ InQ(lockNext[d])
        BY <3>2 DEF IInv, StructInv, TypeOK, ListInv, Cell, InQCell
      <4> QED BY <3>2, <4>1 DEF OrderInv
    <3> QED BY <3>1, <3>2 DEF Closed
  <2>4. OnQueue \subseteq S
    BY <2>3 DEF OnQueue
  <2>5. CASE q \in P
    BY <2>1, <2>5
  <2>6. CASE q \notin P
    <3>1. ~isUpgrade[q]
      BY <2>4, <2>6
    <3>2. PICK d \in OnQueue \cup {Head} : lockNext[d] = q /\ (d # Head => isUpgrade[d])
      BY <3>1 DEF Turn
    <3>3. d \in P \cup {Head}
      BY <2>4, <3>2
    <3>4. d = prevLink
      BY <2>1, <2>6, <3>2, <3>3 DEF Passed
    <3>5. q = Candidate /\ q # NULL
      BY <3>2, <3>4, CellAssumption DEF Candidate, OnQueue
    <3> QED BY <2>2, <3>5
  <2> QED BY <2>5, <2>6
<1> QED BY <1>3, <1>4

\* No step loses a wakeup.
LEMMA WakeInvNext == WakeInv /\ [Next]_vars => WakeInv'
<1> SUFFICES ASSUME WakeInv, [Next]_vars PROVE OrderInv' /\ WalkInv' /\ NoLostWakeup'
  BY IInvNext DEF WakeInv
<1>1. ASSUME UNCHANGED vars PROVE OrderInv' /\ WalkInv' /\ NoLostWakeup'
  <2>1. UNCHANGED <<lockNext, prevLink, isUpgrade, wantMode, waitHolding, active, wakeup, pc>>
    BY <1>1 DEF vars
  <2>2. \A q \in Proc : /\ InQ(q)' <=> InQ(q)
                        /\ Resting(q)' <=> Resting(q)
                        /\ Waking(q)' <=> Waking(q)
                        /\ Blocked(q) => Blocked(q)'
    BY <2>1, BlockedSame DEF InQ, Blocking, Resting, Waking
  <2> QED BY <2>1, <2>2, CalmStep
<1>2. ASSUME NEW p \in Proc, Call(p) PROVE OrderInv' /\ WalkInv' /\ NoLostWakeup'
  BY <1>1, <1>2, FastCalm, SlowLoud DEF Call, AcquireRefused
<1>3. ASSUME NEW p \in Proc, Return(p) PROVE OrderInv' /\ WalkInv' /\ NoLostWakeup'
  BY <1>3, FastCalm, SlowLoud DEF Return
<1>4. ASSUME NEW p \in Proc, TakeQueueLock(p) PROVE OrderInv' /\ WalkInv' /\ NoLostWakeup'
  BY <1>4, SlowLoud, ConflictsAssumption
<1>5. ASSUME NEW p \in Proc, AcquireReturn(p) PROVE OrderInv' /\ WalkInv' /\ NoLostWakeup'
  BY <1>5, FastCalm, ConflictsAssumption
<1>6. ASSUME NEW p \in Proc, Continue(p) PROVE OrderInv' /\ WalkInv' /\ NoLostWakeup'
  BY <1>5, <1>6, EnqueueLoud, WakeBeginStep, WakeGrantLoud, WakeUnlinkLoud, WakeSkipStep,
     WakeEndStep DEF Continue
<1> QED BY <1>1, <1>2, <1>3, <1>4, <1>6 DEF Next

LEMMA WakeInvInit == Init => WakeInv
<1> SUFFICES ASSUME Init PROVE WakeInv
  OBVIOUS
<1>1. IInv /\ \A p \in Proc : ~InQ(p) /\ ~Waking(p)
  BY IInvInit DEF Init, InQ, Blocking, Waking, Walk, Grant
<1>2. \A q \in OnQueue : FALSE
  BY <1>1, OnQueueQueued DEF IInv
<1> QED BY <1>1, <1>2 DEF WakeInv, OrderInv, WalkInv, NoLostWakeup

\* No wakeup is lost: when every process is outside the lock code or asleep, no
\* queued request whose turn it is could be granted, whatever released, queued
\* and woke before, upgrades included.
THEOREM WakeupsKept == Spec => []NoLostWakeup
<1>1. Init => WakeInv
  BY WakeInvInit
<1>2. WakeInv /\ [Next]_vars => WakeInv'
  BY WakeInvNext
<1>3. WakeInv => NoLostWakeup
  BY DEF WakeInv
<1> QED BY <1>1, <1>2, <1>3, PTL DEF Spec

-----------------------------------------------------------------------------
(***************************************************************************)
(* The queue without upgrades.                                             *)
(***************************************************************************)
\* A set of natural numbers has a least one.
LEMMA Least ==
  ASSUME NEW S, S \subseteq Nat, S # {}
  PROVE  \E x \in S : \A y \in S : x <= y
<1> DEFINE R == OpToRel(<, Nat)
<1>1. IsWellFoundedOn(R, Nat)
  BY NatLessThanWellFounded
<1> HIDE DEF R
<1>2. PICK x \in S : \A y \in S : ~(<<y, x>> \in R)
  BY <1>1, WFMin
<1>3. ASSUME NEW y \in Nat, NEW z \in Nat, y < z PROVE <<y, z>> \in R
  BY <1>3 DEF R, OpToRel
<1>4. ASSUME NEW y \in S PROVE x <= y
  <2>1. ~(y < x)
    BY <1>2, <1>3
  <2>2. x \in Nat /\ y \in Nat
    OBVIOUS
  <2> QED BY <2>1, <2>2, SMT
<1> QED BY <1>4

\* If every queued process is linked from a queued process or from the head,
\* the head leads to all of them: of those it did not lead to, the one of the
\* least rank would have no link.
LEMMA AllReached ==
  ASSUME StructInv,
         \A p \in Proc : InQ(p) => \E c \in Cell : InQCell(c) /\ lockNext[c] = p
  PROVE  OnQueue = {p \in Proc : InQ(p)}
<1>1. OnQueue \subseteq {p \in Proc : InQ(p)}
  BY OnQueueQueued
<1>2. ASSUME NEW S \in SUBSET Proc, Closed(S), NEW p \in Proc, InQ(p), p \notin S
      PROVE  FALSE
  <2>1. PICK r \in [Proc -> Nat] : Ranks(r)
    BY DEF StructInv, RankInv
  <2> DEFINE U == {q \in Proc : InQ(q) /\ q \notin S}
             V == {r[q] : q \in U}
  <2>2. V \subseteq Nat /\ V # {}
    BY <1>2
  <2>3. PICK x \in V : \A y \in V : x <= y
    BY <2>2, Least
  <2>4. PICK u \in U : x = r[u]
    OBVIOUS
  <2>5. PICK c \in Cell : InQCell(c) /\ lockNext[c] = u
    OBVIOUS
  <2>6. u \in Proc /\ u \notin S /\ u # NULL
    BY CellAssumption
  <2>7. c # Head
    BY <1>2, <2>5, <2>6 DEF Closed
  <2>8. c \in Proc /\ InQ(c) /\ r[c] < r[u]
    BY <2>1, <2>5, <2>6, <2>7 DEF Cell, InQCell, Ranks
  <2>9. c \in S
    <3>1. CASE c \notin S
      <4>1. r[c] \in V
        BY <2>8, <3>1
      <4>2. r[u] <= r[c] /\ r[u] \in Nat /\ r[c] \in Nat
        BY <2>1, <2>3, <2>4, <2>6, <2>8, <4>1
      <4> QED BY <2>8, <4>2, SMT
    <3> QED BY <3>1
  <2>10. u \in S
    BY <1>2, <2>5, <2>6, <2>9 DEF Closed
  <2> QED BY <2>6, <2>10
<1> QED BY <1>1, <1>2 DEF OnQueue

\* A step that leaves the queue alone.
LEMMA FifoKept ==
  ASSUME FifoInv, UNCHANGED <<lockNext, waiterTail, isUpgrade>>,
         \A q \in Proc : /\ InQ(q)' <=> InQ(q)
                         /\ IsFiniteSet(holding'[q])
                         /\ pc'[q] \in {"contend", "enqueue"} => holding'[q] = {}
                         /\ Waking(q)' => prevLink' = Head
  PROVE  FifoInv'
<1>1. \A c \in Cell : InQCell(c)' <=> InQCell(c)
  BY DEF InQCell
<1>2. \A q \in Proc : /\ InQ(q)' => ~isUpgrade'[q]
                      /\ InQ(q)' => \E c \in Cell : InQCell(c)' /\ lockNext'[c] = q
  BY <1>1 DEF FifoInv
<1>3. lockNext'[Head] # NULL =>
        waiterTail' \in Proc /\ InQ(waiterTail)' /\ lockNext'[waiterTail'] = NULL
  BY DEF FifoInv
<1> QED BY <1>2, <1>3 DEF FifoInv

\* A fair request is linked from the last one.
LEMMA FifoEnqueue ==
  ASSUME IInv, FifoInv, NEW p \in Proc, Enqueue(p)
  PROVE  FifoInv'
<1>1. /\ pc[p] = "enqueue" /\ pc' = [pc EXCEPT ![p] = "acqWake"] /\ pc \in [Proc -> Label]
      /\ holding[p] = {} /\ isUpgrade' = [isUpgrade EXCEPT ![p] = FALSE]
      /\ isUpgrade \in [Proc -> BOOLEAN] /\ lockNext \in [Cell -> Proc \cup {NULL}]
      /\ UNCHANGED <<wakeup, holding, prevLink>> /\ p \in Cell /\ Head \in Cell /\ p # Head
      /\ p # NULL /\ AppendFair(p)
  BY CellAssumption DEF Enqueue, IInv, StructInv, TypeOK, Cell, FifoInv, local
<1>2. /\ \A q \in Proc : InQ(q)' <=> InQ(q) \/ q = p
      /\ \A c \in Cell : InQCell(c) => InQCell(c)'
      /\ ~InQ(p) /\ InQ(p)'
  BY <1>1 DEF InQ, InQCell, Blocking, IInv, StructInv, CallInv
<1>3. PICK t \in Cell : t = IF lockNext[Head] = NULL THEN Head ELSE waiterTail
  BY <1>1 DEF FifoInv, Cell
<1>4. /\ InQCell(t) /\ t # p /\ lockNext[t] = NULL
      /\ waiterTail' = p /\ lockNext'[t] = p /\ lockNext'[p] = NULL
      /\ \A c \in Cell : c # t /\ c # p => lockNext'[c] = lockNext[c]
  BY <1>1, <1>2, <1>3 DEF FifoInv, InQCell, AppendFair
<1>5. ASSUME NEW q \in Proc, InQ(q)' PROVE \E c \in Cell : InQCell(c)' /\ lockNext'[c] = q
  <2>1. CASE q = p
    BY <1>2, <1>4, <2>1
  <2>2. CASE q # p
    <3>1. PICK c \in Cell : InQCell(c) /\ lockNext[c] = q
      BY <1>2, <1>5, <2>2 DEF FifoInv
    <3>2. c # t /\ c # p
      BY <1>1, <1>2, <1>4, <3>1, CellAssumption DEF InQCell
    <3> QED BY <1>2, <1>4, <3>1, <3>2
  <2> QED BY <2>1, <2>2
<1>6. \A q \in Proc : /\ IsFiniteSet(holding'[q])
                      /\ pc'[q] \in {"contend", "enqueue"} => holding'[q] = {}
                      /\ InQ(q)' => ~isUpgrade'[q]
                      /\ ~Waking(q)'
  <2>1. \A q \in Proc : ~Waking(q)'
    BY <1>1 DEF Waking, Walk, Grant, IInv, StructInv, ControlInv, Critical
  <2> QED BY <1>1, <1>2, <2>1 DEF FifoInv
<1>7. waiterTail' \in Proc /\ InQ(waiterTail)' /\ lockNext'[waiterTail'] = NULL
  BY <1>2, <1>4
<1> QED BY <1>5, <1>6, <1>7 DEF FifoInv

\* Wake takes the first process off the queue.
LEMMA FifoUnlink ==
  ASSUME IInv, FifoInv, NEW p \in Proc, WakeUnlink(p)
  PROVE  FifoInv'
<1>0. PICK h : h = Candidate
  OBVIOUS
<1>1. /\ Waking(p) /\ pc' = [pc EXCEPT ![p] = ToWalk(@)] /\ pc \in [Proc -> Label]
      /\ pc[p] \in Grant /\ h # NULL
      /\ wakeup' = [wakeup EXCEPT ![h] = TRUE] /\ wakeup \in [Proc -> BOOLEAN]
      /\ lockNext' = [lockNext EXCEPT ![prevLink] = lockNext[h], ![h] = NULL]
      /\ lockNext \in [Cell -> Proc \cup {NULL}] /\ prevLink = Head
      /\ UNCHANGED <<prevLink, isUpgrade, holding, waiterTail>>
  BY <1>0 DEF WakeUnlink, lockWord, local, IInv, StructInv, TypeOK, Waking, ListInv, FifoInv
<1>2. h \in Proc /\ InQ(h) /\ lockNext[Head] = h
  BY <1>0, <1>1, CandidateQueued DEF IInv
<1>3. /\ h \in Cell /\ h # Head /\ Head \in Cell
      /\ lockNext'[Head] = lockNext[h]
      /\ \A d \in Cell : d # h /\ d # Head => lockNext'[d] = lockNext[d]
  BY <1>1, <1>2, CellAssumption DEF Cell
<1>4. /\ \A q \in Proc : InQ(q)' <=> InQ(q) /\ q # h
      /\ \A c \in Cell : InQCell(c) /\ c # h => InQCell(c)'
  BY <1>1, <1>2 DEF InQ, InQCell, Blocking, Grant, ToWalk
<1>5. ASSUME NEW q \in Proc, InQ(q)' PROVE \E c \in Cell : InQCell(c)' /\ lockNext'[c] = q
  <2>1. PICK c \in Cell : InQCell(c) /\ lockNext[c] = q
    BY <1>4, <1>5 DEF FifoInv
  <2>2. CASE c = h
    <3>1. InQCell(Head)' /\ lockNext'[Head] = q
      BY <1>3, <2>1, <2>2 DEF InQCell
    <3> QED BY <1>3, <3>1
  <2>3. CASE c # h
    BY <1>2, <1>3, <1>4, <1>5, <2>1, <2>3
  <2> QED BY <2>2, <2>3
<1>6. lockNext'[Head] # NULL =>
        waiterTail' \in Proc /\ InQ(waiterTail)' /\ lockNext'[waiterTail'] = NULL
  <2> SUFFICES ASSUME lockNext'[Head] # NULL
               PROVE  waiterTail' \in Proc /\ InQ(waiterTail)' /\ lockNext'[waiterTail'] = NULL
    OBVIOUS
  <2>1. /\ waiterTail \in Proc /\ InQ(waiterTail) /\ lockNext[waiterTail] = NULL
        /\ waiterTail # h /\ waiterTail # Head /\ waiterTail \in Cell
    BY <1>1, <1>2, <1>3, CellAssumption DEF FifoInv, Cell
  <2>2. PICK w \in Proc : w = waiterTail /\ waiterTail' = w
    BY <1>1, <2>1
  <2>3. InQ(w)' /\ lockNext'[w] = NULL
    BY <1>3, <1>4, <2>1, <2>2
  <2> QED BY <2>2, <2>3
<1>7. \A q \in Proc : /\ IsFiniteSet(holding'[q])
                      /\ pc'[q] \in {"contend", "enqueue"} => holding'[q] = {}
                      /\ InQ(q)' => ~isUpgrade'[q]
                      /\ Waking(q)' => prevLink' = Head
  BY <1>1, <1>4 DEF FifoInv, ToWalk, Grant
<1> QED BY <1>5, <1>6, <1>7 DEF FifoInv

\* Where nobody holds two modes nobody upgrades, and the queue is first in,
\* first out.
LEMMA FifoNext ==
  ASSUME MaxHeld = 1, IInv, FifoInv, [Next]_vars
  PROVE  FifoInv'
<1>1. CASE UNCHANGED vars
  BY <1>1, FifoKept DEF vars, FifoInv, InQ, Blocking, Waking
<1>2. ASSUME NEW p \in Proc, NEW m \in Mode, AcquireAtOnce(p, m) \/ ReleaseFast(p, m)
      PROVE  FifoInv'
  <2>1. /\ UNCHANGED <<lockNext, waiterTail, isUpgrade, prevLink, pc, wakeup>> /\ pc[p] = "idle"
        /\ holding' \in {[holding EXCEPT ![p] = @ \cup {m}], [holding EXCEPT ![p] = @ \ {m}]}
        /\ holding \in [Proc -> SUBSET Mode]
    BY <1>2 DEF AcquireAtOnce, Callable, ReleaseFast, Releasable, queue, IInv, StructInv, TypeOK
  <2>2. \A q \in Proc : IsFiniteSet(holding'[q])
    BY <2>1, FS_AddElement, FS_RemoveElement DEF FifoInv
  <2> QED BY <2>1, <2>2, FifoKept DEF FifoInv, InQ, Blocking, Waking
<1>3. ASSUME NEW p \in Proc, NEW m \in Mode, AcquireContended(p, m) PROVE FifoInv'
  <2>1. /\ UNCHANGED <<lockNext, waiterTail, isUpgrade, prevLink, holding, wakeup>>
        /\ pc[p] = "idle" /\ pc' = [pc EXCEPT ![p] = "contend"] /\ pc \in [Proc -> Label]
        /\ Cardinality(holding[p]) < MaxHeld
    BY <1>3 DEF AcquireContended, Callable, queue, local, IInv, StructInv, TypeOK
  <2>2. holding[p] = {}
    <3>1. IsFiniteSet(holding[p])
      BY DEF FifoInv
    <3>2. Cardinality(holding[p]) \in Nat
      BY <3>1, FS_CardinalityType
    <3>3. Cardinality(holding[p]) = 0
      BY <2>1, <3>2
    <3> QED BY <3>1, <3>3, FS_EmptySet
  <2> QED BY <2>1, <2>2, FifoKept DEF FifoInv, InQ, Blocking, Waking, Walk, Grant
<1>4. ASSUME NEW p \in Proc, NEW m \in Mode, ReleaseContended(p, m) PROVE FifoInv'
  <2>1. /\ UNCHANGED <<lockNext, waiterTail, isUpgrade, prevLink, wakeup>> /\ pc[p] = "idle"
        /\ pc' = [pc EXCEPT ![p] = "release"] /\ pc \in [Proc -> Label]
        /\ holding' = [holding EXCEPT ![p] = @ \ {m}] /\ holding \in [Proc -> SUBSET Mode]
    BY <1>4 DEF ReleaseContended, Releasable, queue, IInv, StructInv, TypeOK
  <2>2. \A q \in Proc : IsFiniteSet(holding'[q])
    BY <2>1, FS_RemoveElement DEF FifoInv
  <2> QED BY <2>1, <2>2, FifoKept DEF FifoInv, InQ, Blocking, Waking, Walk, Grant
<1>5. ASSUME NEW p \in Proc, AcquireReturn(p) PROVE FifoInv'
  <2>1. /\ UNCHANGED <<lockNext, waiterTail, isUpgrade, prevLink>>
        /\ pc[p] = "asleep" /\ wakeup[p] /\ pc' = [pc EXCEPT ![p] = "idle"]
        /\ wakeup' = [wakeup EXCEPT ![p] = FALSE]
        /\ pc \in [Proc -> Label] /\ wakeup \in [Proc -> BOOLEAN]
        /\ holding' = [holding EXCEPT ![p] = @ \cup {arg[p]}] /\ holding \in [Proc -> SUBSET Mode]
    BY <1>5 DEF AcquireReturn, queue, lockWord, IInv, StructInv, TypeOK
  <2>2. \A q \in Proc : IsFiniteSet(holding'[q])
    BY <2>1, FS_AddElement DEF FifoInv
  <2>3. \A q \in Proc : InQ(q)' <=> InQ(q)
    BY <2>1 DEF InQ, Blocking
  <2> QED BY <2>1, <2>2, <2>3, FifoKept DEF FifoInv, Waking, Walk, Grant
<1>6. ASSUME NEW p \in Proc, TakeQueueLock(p) PROVE FifoInv'
  <2>1. /\ UNCHANGED <<lockNext, waiterTail, isUpgrade, prevLink, holding, wakeup>>
        /\ pc \in [Proc -> Label]
        /\ \/ pc[p] = "contend" /\ pc' = [pc EXCEPT ![p] = "enqueue"]
           \/ pc[p] = "release" /\ pc' = [pc EXCEPT ![p] = "relWake"]
    BY <1>6 DEF TakeQueueLock, AcquireQueueLock, ReleaseQueueLock, queue, local, IInv, StructInv,
       TypeOK
  <2> QED BY <2>1, FifoKept DEF FifoInv, InQ, Blocking, Waking, Walk, Grant
<1>7. ASSUME NEW p \in Proc, WakeBegin(p) \/ WakeGrant(p) PROVE FifoInv'
  <2>1. /\ UNCHANGED <<lockNext, waiterTail, isUpgrade, holding, wakeup>> /\ pc \in [Proc -> Label]
        /\ \/ pc[p] \in {"acqWake", "relWake"} /\ pc' = [pc EXCEPT ![p] = ToWalk(@)] /\ prevLink' = Head
           \/ pc[p] \in Walk /\ pc' = [pc EXCEPT ![p] = ToGrant(@)] /\ prevLink' = prevLink
    BY <1>7 DEF WakeBegin, WakeGrant, queue, local, IInv, StructInv, TypeOK
  <2>2. \A q \in Proc : InQ(q)' <=> InQ(q)
    BY <2>1 DEF InQ, Blocking, ToWalk, ToGrant, Walk
  <2>3. \A q \in Proc : pc'[q] \in {"contend", "enqueue"} => pc[q] \in {"contend", "enqueue"}
    BY <2>1 DEF ToWalk, ToGrant
  <2>4. \A q \in Proc : Waking(q)' => prevLink' = Head
    BY <2>1 DEF FifoInv, Waking, Walk, Grant
  <2> QED BY <2>1, <2>2, <2>3, <2>4, FifoKept DEF FifoInv
<1>8. ASSUME NEW p \in Proc, WakeSkip(p) PROVE FifoInv'
  <2>1. Candidate \in Proc /\ InQ(Candidate) /\ isUpgrade[Candidate]
    BY <1>8, CandidateQueued DEF WakeSkip, IInv
  <2> QED BY <2>1 DEF FifoInv
<1>9. ASSUME NEW p \in Proc, AcquireSleep(p) \/ ReleaseReturn(p) PROVE FifoInv'
  <2>1. /\ UNCHANGED <<lockNext, waiterTail, isUpgrade, prevLink, holding, wakeup>>
        /\ pc \in [Proc -> Label]
        /\ \/ pc[p] = "acqWalk" /\ pc' = [pc EXCEPT ![p] = "asleep"]
           \/ pc[p] = "relWalk" /\ pc' = [pc EXCEPT ![p] = "idle"]
    BY <1>9 DEF AcquireSleep, ReleaseReturn, queue, local, IInv, StructInv, TypeOK
  <2>2. \A q \in Proc : InQ(q)' <=> InQ(q)
    BY <2>1 DEF InQ, Blocking
  <2> QED BY <2>1, <2>2, FifoKept DEF FifoInv, Waking, Walk, Grant
<1>10. ASSUME NEW p \in Proc, Call(p) \/ Return(p) \/ Continue(p) PROVE FifoInv'
  BY <1>1, <1>2, <1>3, <1>4, <1>5, <1>7, <1>8, <1>9, <1>10, FifoEnqueue, FifoUnlink
  DEF Call, AcquireRefused, Return, Continue
<1> QED BY <1>1, <1>6, <1>10 DEF Next

LEMMA FifoInit == Init => FifoInv
<1> SUFFICES ASSUME Init PROVE FifoInv
  OBVIOUS
<1>1. \A p \in Proc : pc[p] = "idle" /\ holding[p] = {} /\ ~InQ(p) /\ ~Waking(p)
  BY DEF Init, InQ, Blocking, Waking, Walk, Grant
<1>2. lockNext[Head] = NULL
  BY DEF Init, Cell
<1> QED BY <1>1, <1>2, FS_EmptySet DEF FifoInv

\* Where nobody upgrades, the queue and the processes that wait are the same:
\* every process blocked in gslAcquire without a grant is linked from
\* lock->waiter, in spite of a waiterTail that wake leaves alone.
THEOREM QueueCorrect == MaxHeld = 1 => (Spec => []QueueExact)
<1> SUFFICES ASSUME MaxHeld = 1 PROVE Spec => []QueueExact
  OBVIOUS
<1>1. Init => IInv /\ FifoInv
  BY IInvInit, FifoInit
<1>2. IInv /\ FifoInv /\ [Next]_vars => IInv' /\ FifoInv'
  BY IInvNext, FifoNext
<1>3. IInv /\ FifoInv => QueueExact
  BY AllReached DEF QueueExact, InQ, FifoInv, IInv
<1> QED BY <1>1, <1>2, <1>3, PTL DEF Spec

\* Where nobody upgrades, the GSL_PARANOID assert of wake never fails.
THEOREM WakeAssertsHold == MaxHeld = 1 => (Spec => []WakeAsserts)
<1> SUFFICES ASSUME MaxHeld = 1 PROVE Spec => []WakeAsserts
  OBVIOUS
<1>1. IInv /\ QueueExact => WakeAsserts
  <2> SUFFICES ASSUME IInv, QueueExact, NEW m \in Mode
               PROVE  waitCounts[m] = Cardinality({q \in OnQueue : wantMode[q] = m})
    BY DEF WakeAsserts, WaitCountsRight
  <2>1. {q \in OnQueue : wantMode[q] = m} = {q \in Proc : m \in WaitMap[q]}
    BY DEF QueueExact, WaitMap, InQ
  <2> QED BY <2>1 DEF IInv, CountInv, Counts
<1> QED BY <1>1, QueueCorrect, Invariance, PTL
=============================================================================
