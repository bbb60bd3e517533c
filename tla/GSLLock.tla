------------------------------ MODULE GSLLock ------------------------------
(***************************************************************************)
(* The scalable heavyweight lock of postgres/gsl (gsl-impl.h): one lock,   *)
(* many modes, a lock word changed by compare-and-swap on the fast path    *)
(* and a wait queue protected by a mutex on the slow path.                 *)
(*                                                                         *)
(* Grain of atomicity.  One action is one access to the lock word c, or    *)
(* one acquisition of queueLock, with the work up to the next such access: *)
(* that work touches only fields no other process may touch (the process's *)
(* own `holding', or what queueLock protects while it is held).  A         *)
(* compare-and-swap retry loop is one atomic read-modify-write.            *)
(*                                                                         *)
(* An assert of the code is a guard: a process whose assert fails stops    *)
(* there.  That the asserted condition does hold is an invariant.          *)
(***************************************************************************)
EXTENDS Integers, FiniteSets

CONSTANTS
  Proc,        \* processes (gslProc_t)
  Mode,        \* lock modes (gslLockMode_t)
  Conflicts,   \* Conflicts[m]: the modes that conflict with m (conflictTable_t)
  NULL,        \* the null process pointer
  Head,        \* the cell lock->waiter; the cell of p's lockNext is p itself
  MaxHeld      \* bound: modes one process holds at once (1: nobody upgrades)

ASSUME ProcAssumption == IsFiniteSet(Proc)
ASSUME CellAssumption == Head \notin Proc /\ NULL \notin Proc \cup {Head}
ASSUME ConflictsAssumption ==
  /\ Mode # {}
  /\ Conflicts \in [Mode -> SUBSET Mode]
  /\ \A m, n \in Mode : n \in Conflicts[m] <=> m \in Conflicts[n]

VARIABLES
  active,      \* lock word: number of holders of each mode
  waiting,     \* lock word: wait bit of each mode
  queueLock,   \* owner of the mutex lock->queueLock
  lockNext,    \* lockNext[Head] is lock->waiter, lockNext[p] is p's link
  waiterTail,  \* the cell the next fair waiter is linked from
  waitCounts,  \* number of queued processes wanting each mode
  wantMode,    \* gslPerProcShared_t.wantMode
  isUpgrade,   \* gslPerProcShared_t.isUpgrade
  waitHolding, \* gslPerProcShared_t.waitHolding
  awaited,     \* gslPerProcLocal_t.awaitedLock is the lock
  holding,     \* gslPerProcPerLock_t.holding
  wakeup,      \* the process was woken since it queued (its semaphore)
  prevLink,    \* wake's cursor; only the owner of queueLock uses it
  pc,          \* control point of each process
  arg          \* mode argument of the call a process is in

lockWord  == <<active, waiting>>
queue     == <<lockNext, waiterTail, waitCounts, wantMode, isUpgrade, waitHolding>>
local     == <<awaited, holding>>
vars == <<active, waiting, queueLock, lockNext, waiterTail, waitCounts,
          wantMode, isUpgrade, waitHolding, awaited, holding, wakeup,
          prevLink, pc, arg>>

Cell == Proc \cup {Head}

(***************************************************************************)
(* Control points.                                                         *)
(*   idle       outside the lock code                                      *)
(*   contend    transient active count added, about to take queueLock      *)
(*   enqueue    queueLock taken, about to undo the count and queue         *)
(*   acqWake    gslAcquire about to enter wake                             *)
(*   acqWalk    gslAcquire walking the queue in wake                       *)
(*   acqGrant   the same, after wake's compare-and-swap for a waiter       *)
(*   asleep     in GSL_ACQUIRE_SLEEP                                       *)
(*   release    gslRelease decremented the count, about to take queueLock  *)
(*   relWake, relWalk, relGrant   gslRelease in wake                       *)
(*   cancel     the sleep was aborted, gslCancel about to take queueLock   *)
(*   unqueue    gslCancel with queueLock                                   *)
(***************************************************************************)
Label == {"idle", "contend", "enqueue", "acqWake", "acqWalk", "acqGrant",
          "asleep", "release", "relWake", "relWalk", "relGrant",
          "cancel", "unqueue"}

Walk  == {"acqWalk", "relWalk"}
Grant == {"acqGrant", "relGrant"}

\* pc moves from wake's entry to its loop, into the loop's body and back.
ToWalk(l)  == IF l \in {"acqWake", "acqGrant"} THEN "acqWalk" ELSE "relWalk"
ToGrant(l) == IF l = "acqWalk" THEN "acqGrant" ELSE "relGrant"

Init ==
  /\ active = [m \in Mode |-> 0]
  /\ waiting = [m \in Mode |-> FALSE]
  /\ queueLock = NULL
  /\ lockNext = [c \in Cell |-> NULL]
  /\ waiterTail = NULL
  /\ waitCounts = [m \in Mode |-> 0]
  /\ wantMode = [p \in Proc |-> NULL]
  /\ isUpgrade = [p \in Proc |-> FALSE]
  /\ waitHolding = [p \in Proc |-> {}]
  /\ awaited = [p \in Proc |-> FALSE]
  /\ holding = [p \in Proc |-> {}]
  /\ wakeup = [p \in Proc |-> FALSE]
  /\ prevLink = Head
  /\ pc = [p \in Proc |-> "idle"]
  /\ arg = [p \in Proc |-> NULL]

(***************************************************************************)
(* The lock word.  ActiveConflict(m, own) is the test of preCounts minus   *)
(* the modes `own' against the active part of m's conflict mask, and       *)
(* WaitConflict(m) the test against its waiting part.                      *)
(***************************************************************************)
Own(own, m) == IF m \in own THEN 1 ELSE 0

ActiveConflict(m, own) == \E n \in Conflicts[m] : active[n] - Own(own, n) # 0

WaitConflict(m) == \E n \in Conflicts[m] : waiting[n]

\* Bug: the wait bits are not in the conflict mask.
MustWaitNoBits(p, m) == ActiveConflict(m, holding[p])

\* Bug: a process that holds the lock already is never made to wait.
MustWaitUpgradeFree(p, m) ==
  holding[p] = {} /\ (ActiveConflict(m, {}) \/ WaitConflict(m))

\* gslAcquire's test: wait bits count only for a process holding no mode yet.
MustWait(p, m) ==
  \/ ActiveConflict(m, holding[p])
  \/ holding[p] = {} /\ WaitConflict(m)

(***************************************************************************)
(* gslAcquire.                                                             *)
(***************************************************************************)
\* Entry of gslAcquire: p calls it outside of any other call, for a mode it
\* does not hold, and is not awaiting the lock.
Callable(p, m) ==
  /\ pc[p] = "idle"
  /\ ~awaited[p]
  /\ m \notin holding[p]
  /\ Cardinality(holding[p]) < MaxHeld

\* Get the lock at once.  The dontWait path tests and increments in one
\* step; the blocking path increments and then tests the counts it replaced:
\* the same step when the test finds no conflict.
AcquireAtOnce(p, m) ==
  /\ Callable(p, m)
  /\ ~MustWait(p, m)
  /\ active' = [active EXCEPT ![m] = @ + 1]
  /\ holding' = [holding EXCEPT ![p] = @ \cup {m}]
  /\ UNCHANGED <<waiting, queueLock, queue, awaited, wakeup, prevLink, pc, arg>>

\* The dontWait path that returns false.
AcquireRefused(p, m) ==
  /\ Callable(p, m)
  /\ MustWait(p, m)
  /\ UNCHANGED vars

\* Bug: the conflict test comes first and the count is not taken.
AcquireContendedUncounted(p, m) ==
  /\ Callable(p, m)
  /\ MustWait(p, m)
  /\ pc' = [pc EXCEPT ![p] = "contend"]
  /\ arg' = [arg EXCEPT ![p] = m]
  /\ UNCHANGED <<active, waiting, queueLock, queue, local, wakeup, prevLink>>

\* The blocking path that meets a conflict keeps its count while it goes for
\* queueLock: the transient count other processes may see.
AcquireContended(p, m) ==
  /\ Callable(p, m)
  /\ active' = [active EXCEPT ![m] = @ + 1]
  /\ MustWait(p, m)
  /\ pc' = [pc EXCEPT ![p] = "contend"]
  /\ arg' = [arg EXCEPT ![p] = m]
  /\ UNCHANGED <<waiting, queueLock, queue, local, wakeup, prevLink>>

\* GSL_MUTEX_ACQUIRE of the slow path.
AcquireQueueLock(p) ==
  /\ pc[p] = "contend"
  /\ queueLock = NULL
  /\ queueLock' = p
  /\ pc' = [pc EXCEPT ![p] = "enqueue"]
  /\ UNCHANGED <<lockWord, queue, local, wakeup, prevLink, arg>>

\* An upgrade request goes to the head of the queue.
Prepend(p) ==
  /\ waiterTail' = IF lockNext[Head] = NULL THEN p ELSE waiterTail
  /\ lockNext' = [lockNext EXCEPT ![p] = lockNext[Head], ![Head] = p]

\* Bug: waiterTail is not advanced past a waiter that joins a waiting queue.
AppendFairStaleTail(p) ==
  LET tail == IF lockNext[Head] = NULL THEN Head ELSE waiterTail IN
  /\ waiterTail' = IF tail = Head THEN p ELSE waiterTail
  /\ lockNext' = [lockNext EXCEPT ![tail] = p, ![p] = NULL]

\* A fair request is linked from the cell waiterTail points to.
AppendFair(p) ==
  LET tail == IF lockNext[Head] = NULL THEN Head ELSE waiterTail IN
  /\ waiterTail' = p
  /\ lockNext' = [lockNext EXCEPT ![tail] = p, ![p] = NULL]

\* Bug: the transient count is not undone.
EnqueueKeepsCount(p) ==
  LET m == arg[p] IN
  /\ pc[p] = "enqueue"
  /\ waiting' = [waiting EXCEPT ![m] = TRUE]
  /\ IF holding[p] # {} THEN Prepend(p) ELSE AppendFair(p)
  /\ isUpgrade' = [isUpgrade EXCEPT ![p] = holding[p] # {}]
  /\ waitCounts' = [waitCounts EXCEPT ![m] = @ + 1]
  /\ wantMode' = [wantMode EXCEPT ![p] = m]
  /\ waitHolding' = [waitHolding EXCEPT ![p] = holding[p]]
  /\ pc' = [pc EXCEPT ![p] = "acqWake"]
  /\ UNCHANGED <<active, queueLock, local, wakeup, prevLink, arg>>

\* Undo the transient count, set the wait bit, join the queue.
Enqueue(p) ==
  LET m == arg[p]
      holdLock == holding[p] # {} IN
  /\ pc[p] = "enqueue"
  /\ active' = [active EXCEPT ![m] = @ - 1]
  /\ waiting' = [waiting EXCEPT ![m] = TRUE]
  /\ IF holdLock THEN Prepend(p) ELSE AppendFair(p)
  /\ isUpgrade' = [isUpgrade EXCEPT ![p] = holdLock]
  /\ waitCounts' = [waitCounts EXCEPT ![m] = @ + 1]
  /\ wantMode' = [wantMode EXCEPT ![p] = m]
  /\ waitHolding' = [waitHolding EXCEPT ![p] = holding[p]]
  /\ pc' = [pc EXCEPT ![p] = "acqWake"]
  /\ UNCHANGED <<queueLock, local, wakeup, prevLink, arg>>

\* Bug: awaitedLock is not reset.
AcquireReturnStillAwaits(p) ==
  /\ pc[p] = "asleep"
  /\ wakeup[p]
  /\ wakeup' = [wakeup EXCEPT ![p] = FALSE]
  /\ holding' = [holding EXCEPT ![p] = @ \cup {arg[p]}]
  /\ pc' = [pc EXCEPT ![p] = "idle"]
  /\ arg' = [arg EXCEPT ![p] = NULL]
  /\ UNCHANGED <<lockWord, queueLock, queue, awaited, prevLink>>

\* GSL_ACQUIRE_SLEEP returned: the lock was granted by whoever ran wake.
AcquireReturn(p) ==
  /\ pc[p] = "asleep"
  /\ wakeup[p]
  /\ awaited[p]
  /\ wakeup' = [wakeup EXCEPT ![p] = FALSE]
  /\ awaited' = [awaited EXCEPT ![p] = FALSE]
  /\ holding' = [holding EXCEPT ![p] = @ \cup {arg[p]}]
  /\ pc' = [pc EXCEPT ![p] = "idle"]
  /\ arg' = [arg EXCEPT ![p] = NULL]
  /\ UNCHANGED <<lockWord, queueLock, queue, prevLink>>

(***************************************************************************)
(* wake, run with queueLock held by gslAcquire and by gslRelease.          *)
(***************************************************************************)
\* The links do not lead from lock->waiter out of S.
Closed(S) == \A c \in S \cup {Head} : lockNext[c] \in S \cup {NULL}

\* The processes linked from lock->waiter: the least closed set.
OnQueue == {p \in Proc : \A S \in SUBSET Proc : Closed(S) => p \in S}

\* wake's GSL_PARANOID check.
WaitCountsRight ==
  \A m \in Mode : waitCounts[m] = Cardinality({q \in OnQueue : wantMode[q] = m})

WakeBegin(p) ==
  /\ pc[p] \in {"acqWake", "relWake"}
  /\ WaitCountsRight
  /\ prevLink' = Head
  /\ pc' = [pc EXCEPT ![p] = ToWalk(@)]
  /\ UNCHANGED <<lockWord, queueLock, queue, local, wakeup, arg>>

Candidate == lockNext[prevLink]

\* Bug: an upgrade request is granted without a conflict test.
BlockedUnlessUpgrade(q) ==
  ~isUpgrade[q] /\ ActiveConflict(wantMode[q], waitHolding[q])

\* Wake tests the candidate against the active counts only.
Blocked(q) == ActiveConflict(wantMode[q], waitHolding[q])

\* Bug: the wait bit is cleared only when the count is already zero.
WakeGrantKeepsBit(p) ==
  LET q == Candidate
      m == wantMode[q] IN
  /\ pc[p] \in Walk
  /\ q # NULL
  /\ ~Blocked(q)
  /\ active' = [active EXCEPT ![m] = @ + 1]
  /\ waiting' = [waiting EXCEPT ![m] = @ /\ waitCounts[m] # 0]
  /\ pc' = [pc EXCEPT ![p] = ToGrant(@)]
  /\ UNCHANGED <<queueLock, queue, local, wakeup, prevLink, arg>>

\* Bug: the wait bit is cleared though others wait for the same mode.
WakeGrantClearsBit(p) ==
  LET q == Candidate
      m == wantMode[q] IN
  /\ pc[p] \in Walk
  /\ q # NULL
  /\ ~Blocked(q)
  /\ active' = [active EXCEPT ![m] = @ + 1]
  /\ waiting' = [waiting EXCEPT ![m] = FALSE]
  /\ pc' = [pc EXCEPT ![p] = ToGrant(@)]
  /\ UNCHANGED <<queueLock, queue, local, wakeup, prevLink, arg>>

\* The candidate does not conflict: count it and, if it is the last waiter
\* for its mode, clear the mode's wait bit.
WakeGrant(p) ==
  LET q == Candidate
      m == wantMode[q] IN
  /\ pc[p] \in Walk
  /\ q # NULL
  /\ ~Blocked(q)
  /\ active' = [active EXCEPT ![m] = @ + 1]
  /\ waiting' = [waiting EXCEPT ![m] = @ /\ waitCounts[m] # 1]
  /\ pc' = [pc EXCEPT ![p] = ToGrant(@)]
  /\ UNCHANGED <<queueLock, queue, local, wakeup, prevLink, arg>>

\* Bug: the wait count is not fixed.
WakeUnlinkKeepsCount(p) ==
  LET q == Candidate IN
  /\ pc[p] \in Grant
  /\ wakeup' = [wakeup EXCEPT ![q] = TRUE]
  /\ lockNext' = [lockNext EXCEPT ![prevLink] = lockNext[q], ![q] = NULL]
  /\ pc' = [pc EXCEPT ![p] = ToWalk(@)]
  /\ UNCHANGED <<lockWord, queueLock, waiterTail, waitCounts, wantMode,
                 isUpgrade, waitHolding, local, prevLink, arg>>

\* Bug: the candidate is granted and unlinked but not woken.
WakeUnlinkSilent(p) ==
  LET q == Candidate IN
  /\ pc[p] \in Grant
  /\ waitCounts' = [waitCounts EXCEPT ![wantMode[q]] = @ - 1]
  /\ lockNext' = [lockNext EXCEPT ![prevLink] = lockNext[q], ![q] = NULL]
  /\ pc' = [pc EXCEPT ![p] = ToWalk(@)]
  /\ UNCHANGED <<lockWord, queueLock, waiterTail, wantMode, isUpgrade,
                 waitHolding, local, wakeup, prevLink, arg>>

\* Wake the candidate and take it off the queue.
WakeUnlink(p) ==
  LET q == Candidate IN
  /\ pc[p] \in Grant
  /\ wakeup' = [wakeup EXCEPT ![q] = TRUE]
  /\ waitCounts' = [waitCounts EXCEPT ![wantMode[q]] = @ - 1]
  /\ lockNext' = [lockNext EXCEPT ![prevLink] = lockNext[q], ![q] = NULL]
  /\ pc' = [pc EXCEPT ![p] = ToWalk(@)]
  /\ UNCHANGED <<lockWord, queueLock, waiterTail, wantMode, isUpgrade,
                 waitHolding, local, prevLink, arg>>

\* A blocked upgrade request is passed over.
WakeSkip(p) ==
  LET q == Candidate IN
  /\ pc[p] \in Walk
  /\ q # NULL
  /\ Blocked(q)
  /\ isUpgrade[q]
  /\ prevLink' = q
  /\ UNCHANGED <<lockWord, queueLock, queue, local, wakeup, pc, arg>>

\* Bug: a blocked upgrade request ends the walk too.
WakeEndsAtUpgrade == Candidate # NULL => Blocked(Candidate)

\* A blocked fair request, or the end of the queue, ends the walk.
WakeEnds == Candidate # NULL => Blocked(Candidate) /\ ~isUpgrade[Candidate]

\* gslAcquire records the awaited lock; GSL_ACQUIRE_SLEEP drops queueLock.
AcquireSleep(p) ==
  /\ pc[p] = "acqWalk"
  /\ WakeEnds
  /\ awaited' = [awaited EXCEPT ![p] = TRUE]
  /\ queueLock' = NULL
  /\ pc' = [pc EXCEPT ![p] = "asleep"]
  /\ UNCHANGED <<lockWord, queue, holding, wakeup, prevLink, arg>>

ReleaseReturn(p) ==
  /\ pc[p] = "relWalk"
  /\ WakeEnds
  /\ queueLock' = NULL
  /\ pc' = [pc EXCEPT ![p] = "idle"]
  /\ UNCHANGED <<lockWord, queue, local, wakeup, prevLink, arg>>

(***************************************************************************)
(* gslRelease.                                                             *)
(***************************************************************************)
Releasable(p, m) ==
  /\ pc[p] = "idle"
  /\ ~awaited[p]
  /\ m \in holding[p]
  /\ active[m] # 0

\* Bug: a release never runs wake.
ReleaseFastAlways(p, m) ==
  /\ Releasable(p, m)
  /\ active' = [active EXCEPT ![m] = @ - 1]
  /\ holding' = [holding EXCEPT ![p] = @ \ {m}]
  /\ UNCHANGED <<waiting, queueLock, queue, awaited, wakeup, prevLink, pc, arg>>

\* Nobody waits for a mode conflicting with m: nothing more to do.
ReleaseFast(p, m) ==
  /\ Releasable(p, m)
  /\ active' = [active EXCEPT ![m] = @ - 1]
  /\ holding' = [holding EXCEPT ![p] = @ \ {m}]
  /\ ~WaitConflict(m)
  /\ UNCHANGED <<waiting, queueLock, queue, awaited, wakeup, prevLink, pc, arg>>

ReleaseContended(p, m) ==
  /\ Releasable(p, m)
  /\ active' = [active EXCEPT ![m] = @ - 1]
  /\ holding' = [holding EXCEPT ![p] = @ \ {m}]
  /\ WaitConflict(m)
  /\ pc' = [pc EXCEPT ![p] = "release"]
  /\ UNCHANGED <<waiting, queueLock, queue, awaited, wakeup, prevLink, arg>>

ReleaseQueueLock(p) ==
  /\ pc[p] = "release"
  /\ queueLock = NULL
  /\ queueLock' = p
  /\ pc' = [pc EXCEPT ![p] = "relWake"]
  /\ UNCHANGED <<lockWord, queue, local, wakeup, prevLink, arg>>

(***************************************************************************)
(* gslCancel, called after GSL_ACQUIRE_SLEEP was aborted.                  *)
(***************************************************************************)
\* The sleep is aborted (an interrupt or an error), before or after a grant.
SleepAbort(p) ==
  /\ pc[p] = "asleep"
  /\ pc' = [pc EXCEPT ![p] = "cancel"]
  /\ UNCHANGED <<lockWord, queueLock, queue, local, wakeup, prevLink, arg>>

CancelQueueLock(p) ==
  /\ pc[p] = "cancel"
  /\ awaited[p]
  /\ queueLock = NULL
  /\ queueLock' = p
  /\ pc' = [pc EXCEPT ![p] = "unqueue"]
  /\ UNCHANGED <<lockWord, queue, local, wakeup, prevLink, arg>>

\* gslCancel takes a null lockNext for "I was given the lock".  A wake saved
\* from the aborted sleep does not end a later one.
CancelGranted(p) ==
  /\ pc[p] = "unqueue"
  /\ lockNext[p] = NULL
  /\ holding' = [holding EXCEPT ![p] = @ \cup {wantMode[p]}]
  /\ awaited' = [awaited EXCEPT ![p] = FALSE]
  /\ wakeup' = [wakeup EXCEPT ![p] = FALSE]
  /\ queueLock' = NULL
  /\ pc' = [pc EXCEPT ![p] = "idle"]
  /\ arg' = [arg EXCEPT ![p] = NULL]
  /\ UNCHANGED <<lockWord, queue, prevLink>>

\* Otherwise p unlinks itself and drops its wait count; it leaves the wait
\* bit, waiterTail and awaitedLock as they are.
CancelRemove(p) ==
  /\ pc[p] = "unqueue"
  /\ lockNext[p] # NULL
  /\ waitCounts[wantMode[p]] # 0
  /\ \E c \in OnQueue \cup {Head} :
       /\ lockNext[c] = p
       /\ lockNext' = [lockNext EXCEPT ![c] = lockNext[p], ![p] = NULL]
  /\ waitCounts' = [waitCounts EXCEPT ![wantMode[p]] = @ - 1]
  /\ queueLock' = NULL
  /\ pc' = [pc EXCEPT ![p] = "idle"]
  /\ arg' = [arg EXCEPT ![p] = NULL]
  /\ UNCHANGED <<lockWord, waiterTail, wantMode, isUpgrade, waitHolding,
                 local, wakeup, prevLink>>

-----------------------------------------------------------------------------
Call(p) ==
  \E m \in Mode :
    \/ AcquireAtOnce(p, m)
    \/ AcquireRefused(p, m)
    \/ AcquireContended(p, m)

Return(p) ==
  \E m \in Mode :
    \/ ReleaseFast(p, m)
    \/ ReleaseContended(p, m)

TakeQueueLock(p) == AcquireQueueLock(p) \/ ReleaseQueueLock(p)

Continue(p) ==
  \/ Enqueue(p)
  \/ WakeBegin(p)
  \/ WakeGrant(p)
  \/ WakeUnlink(p)
  \/ WakeSkip(p)
  \/ AcquireSleep(p)
  \/ AcquireReturn(p)
  \/ ReleaseReturn(p)

Next == \E p \in Proc : Call(p) \/ Return(p) \/ TakeQueueLock(p) \/ Continue(p)

\* The parex binding: procSleep never aborts.
Spec == Init /\ [][Next]_vars

\* The Postgres binding: a sleep may be interrupted and is then canceled.
Cancel(p) ==
  \/ SleepAbort(p)
  \/ CancelQueueLock(p)
  \/ CancelGranted(p)
  \/ CancelRemove(p)

CancelNext == Next \/ \E p \in Proc : Cancel(p)

CancelSpec == Init /\ [][CancelNext]_vars

\* A process inside the lock code keeps running, queueLock is not denied
\* forever to a process that keeps asking (parex hands it over in the order of
\* asking), and a holder eventually releases.
Fairness ==
  \A p \in Proc :
    /\ WF_vars(Continue(p))
    /\ SF_vars(TakeQueueLock(p))
    /\ WF_vars(Return(p))

LiveSpec == Spec /\ Fairness

-----------------------------------------------------------------------------
(***************************************************************************)
(* What the state means.                                                   *)
(***************************************************************************)
\* p is inside the slow path of gslAcquire, queued at some time in this call.
Blocking(p) == pc[p] \in {"acqWake", "acqWalk", "acqGrant", "asleep",
                         "cancel", "unqueue"}

\* p has been counted by a wake but has not returned from gslAcquire yet.
Granted(p) ==
  \/ wakeup[p]
  \/ p = Candidate /\ \E w \in Proc : pc[w] \in Grant

\* p joined the queue and nobody has granted its request.
Waits(p) == Blocking(p) /\ ~Granted(p)

\* The modes p owns: recorded by itself, or granted by a wake it has yet to see.
Held(p) == holding[p] \cup {m \in Mode : m = wantMode[p] /\ Granted(p)}

\* The modes p is counted for in the lock word: held, or tried for.
Claim(p) ==
  Held(p) \cup {m \in Mode : m = arg[p] /\ pc[p] \in {"contend", "enqueue"}}

(***************************************************************************)
(* Properties.                                                             *)
(***************************************************************************)
\* Every variable keeps its type; in particular no active count and no wait
\* count ever goes below zero.
TypeOK ==
  /\ active \in [Mode -> Nat]
  /\ waiting \in [Mode -> BOOLEAN]
  /\ queueLock \in Proc \cup {NULL}
  /\ lockNext \in [Cell -> Proc \cup {NULL}]
  /\ waiterTail \in Cell \cup {NULL}
  /\ waitCounts \in [Mode -> Nat]
  /\ wantMode \in [Proc -> Mode \cup {NULL}]
  /\ isUpgrade \in [Proc -> BOOLEAN]
  /\ waitHolding \in [Proc -> SUBSET Mode]
  /\ awaited \in [Proc -> BOOLEAN]
  /\ holding \in [Proc -> SUBSET Mode]
  /\ wakeup \in [Proc -> BOOLEAN]
  /\ prevLink \in Cell
  /\ pc \in [Proc -> Label]
  /\ arg \in [Proc -> Mode \cup {NULL}]

\* Two processes never own conflicting modes at once, whether they got them
\* on the fast path, from their own wake or from somebody else's
\* (checklock.c fails a run with "Conflicting lock held").
MutualExclusion ==
  \A p, q \in Proc : p # q =>
    \A m \in Held(p), n \in Held(q) : n \notin Conflicts[m]

\* The lock word counts each mode exactly: one for every process that owns
\* it, whose grant is under way, or whose transient count is in flight.
\* No interleaving of the increment, the undo and the grants loses one.
CountsExact ==
  \A m \in Mode : active[m] = Cardinality({p \in Proc : m \in Claim(p)})

\* A mode's wait bit, which the fast paths trust without taking queueLock,
\* is set exactly when some queued request for the mode is not granted.
WaitBitsExact ==
  \A m \in Mode : waiting[m] <=> \E p \in Proc : Waits(p) /\ wantMode[p] = m

\* Whoever waits can be found: a process blocked in gslAcquire without a
\* grant is linked from lock->waiter, and nobody else is.
QueueExact ==
  OnQueue = {p \in Proc : Blocking(p) /\ ~wakeup[p]}

\* A queued request whose turn it is: an upgrade, or the first fair one.
Turn(q) ==
  \/ isUpgrade[q]
  \/ \E c \in OnQueue \cup {Head} :
       lockNext[c] = q /\ (c # Head => isUpgrade[c])

\* No lost wakeup: once every process is outside the lock code or asleep,
\* no request whose turn it is could be granted.
NoLostWakeup ==
  (\A p \in Proc : pc[p] \in {"idle", "asleep"}) =>
    \A q \in OnQueue : Turn(q) => Blocked(q)

\* The asserts at the entry of gslAcquire and gslRelease hold: outside the
\* lock code no lock is awaited and every held mode is counted.
EntryAsserts ==
  \A p \in Proc : pc[p] = "idle" =>
    /\ ~awaited[p]
    /\ \A m \in holding[p] : active[m] # 0

\* The GSL_PARANOID assert of wake holds on every entry.
WakeAsserts ==
  (\E p \in Proc : pc[p] \in {"acqWake", "relWake"}) => WaitCountsRight

\* Every blocking request is granted: a process that met a conflict gets
\* out of gslAcquire again, past newcomers and transient counts.
AcquireReturns == \A p \in Proc : pc[p] = "contend" ~> pc[p] = "idle"

\* A process that holds nothing never gets, on the fast path, a mode that
\* conflicts with a request already queued.
NoBarging ==
  [][\A p, q \in Proc :
       Waits(q) /\ holding[p] = {} /\ ~Granted(p) =>
         \A m \in holding'[p] : wantMode[q] \notin Conflicts[m]]_vars

(***************************************************************************)
(* The lock implements ModeLock.                                           *)
(***************************************************************************)
Abs == INSTANCE ModeLock WITH
         held    <- [p \in Proc |-> Held(p)],
         pending <- [p \in Proc |-> {m \in Mode : m = wantMode[p] /\ Waits(p)}]

\* Every step of gslAcquire, gslRelease and wake is a step of the abstract
\* lock or invisible to its callers: each grant is compatible with what all
\* the others own at that moment, and no fast path overtakes the queue.
ImplementsModeLock == Abs!Spec
=============================================================================
