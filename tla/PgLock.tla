------------------------------- MODULE PgLock -------------------------------
(***************************************************************************)
(* One entry of Postgres' shared lock table under LOCK_SCALABLE: how       *)
(* lock.c finds, creates, pins and garbage-collects the LOCK object around *)
(* the GSL lock inside it, and how proc.c sleeps and wakes.  The entry's   *)
(* queueLock is the partition lock of the hash table (an LWLock).          *)
(*                                                                         *)
(* The entry's memory is modelled as one slot: deleting the entry leaves   *)
(* its contents, creating it again runs gslLockInit on them.               *)
(***************************************************************************)
EXTENDS GSLLock

VARIABLES
  exists,      \* the tag is in LockMethodLockHash
  pins,        \* LOCK.pins
  lpc,         \* where each process is in lock.c
  req,         \* lockmode and dontWait of the LockAcquire or LockRelease
  waitStatus,  \* PGPROC.waitStatus
  sem          \* PGPROC.sem, a counting semaphore

table   == <<exists, pins, lpc, req>>
sleep   == <<waitStatus, sem>>
pgVars  == <<vars, exists, pins, lpc, req, waitStatus, sem>>

NoRequest == [mode |-> NULL, dontWait |-> FALSE]

PgInit ==
  /\ Init
  /\ exists = FALSE
  /\ pins = 0
  /\ lpc = [p \in Proc |-> "out"]
  /\ req = [p \in Proc |-> NoRequest]
  /\ waitStatus = [p \in Proc |-> "OK"]
  /\ sem = [p \in Proc |-> 0]

Goto(p, l) == lpc' = [lpc EXCEPT ![p] = l]

\* Return to the caller of lock.c; the call's arguments go out of scope.
Leave(p) == Goto(p, "out") /\ req' = [req EXCEPT ![p] = NoRequest]

\* lcNonZero of the lock word: gslAnyHolding, and lastHold's test.
AnyHolding == \E m \in Mode : active[m] # 0 \/ waiting[m]

(***************************************************************************)
(* LockAcquire.                                                            *)
(***************************************************************************)
\* Under the shared partition lock: find the entry and pin it.
LockFind(p, m, dontWait) ==
  /\ lpc[p] = "out"
  /\ Callable(p, m)
  /\ queueLock = NULL
  /\ req' = [req EXCEPT ![p] = [mode |-> m, dontWait |-> dontWait]]
  /\ IF exists THEN pins' = pins + 1 /\ Goto(p, "acquire")
               ELSE pins' = pins /\ Goto(p, "create")
  /\ UNCHANGED <<vars, exists, sleep>>

\* gslLockInit zeroes the GSL lock of a new entry; nothing resets its pins.
GslLockInit ==
  /\ active' = [m \in Mode |-> 0]
  /\ waiting' = [m \in Mode |-> FALSE]
  /\ lockNext' = [lockNext EXCEPT ![Head] = NULL]
  /\ waiterTail' = NULL
  /\ waitCounts' = [m \in Mode |-> 0]

\* Bug: an entry that somebody else created in the meantime is initialised
\* again.
LockCreateAgain(p) ==
  /\ lpc[p] = "create"
  /\ queueLock = NULL
  /\ exists' = TRUE
  /\ GslLockInit
  /\ pins' = pins + 1
  /\ Goto(p, "acquire")
  /\ UNCHANGED <<queueLock, wantMode, isUpgrade, waitHolding, local, wakeup,
                 prevLink, pc, arg, req, sleep>>

\* Under the exclusive partition lock: enter the tag (somebody else may have
\* done so in the meantime), initialise a new entry, pin it.
LockCreate(p) ==
  /\ lpc[p] = "create"
  /\ queueLock = NULL
  /\ exists' = TRUE
  /\ IF exists THEN UNCHANGED <<lockWord, lockNext, waiterTail, waitCounts>>
               ELSE GslLockInit
  /\ pins' = pins + 1
  /\ Goto(p, "acquire")
  /\ UNCHANGED <<queueLock, wantMode, isUpgrade, waitHolding, local, wakeup,
                 prevLink, pc, arg, req, sleep>>

\* The call of gslAcquire, up to its return or to the slow path.
CallAcquire(p) ==
  LET m == req[p].mode IN
  /\ lpc[p] = "acquire"
  /\ \/ AcquireAtOnce(p, m) /\ Goto(p, "acquired")
     \/ req[p].dontWait /\ AcquireRefused(p, m) /\ Goto(p, "acquired")
     \/ ~req[p].dontWait /\ AcquireContended(p, m) /\ UNCHANGED lpc
  /\ UNCHANGED <<exists, pins, req, sleep>>

\* LockUnpin after gslAcquire returned, with the lock or without it.
LockAcquired(p) ==
  /\ lpc[p] = "acquired"
  /\ pins' = pins - 1
  /\ Leave(p)
  /\ UNCHANGED <<vars, exists, sleep>>

(***************************************************************************)
(* ProcSleep and ProcWakeup, the bindings of GSL_ACQUIRE_SLEEP and         *)
(* GSL_WAKE.                                                               *)
(***************************************************************************)
\* Bug: the sleeper keeps its pin.
ProcSleepPinned(p) ==
  /\ AcquireSleep(p)
  /\ waitStatus' = [waitStatus EXCEPT ![p] = "WAITING"]
  /\ UNCHANGED <<exists, pins, lpc, req, sem>>

\* ProcSleep marks the process waiting, drops its pin and then queueLock.
ProcSleep(p) ==
  /\ AcquireSleep(p)
  /\ waitStatus' = [waitStatus EXCEPT ![p] = "WAITING"]
  /\ pins' = pins - 1
  /\ UNCHANGED <<exists, lpc, req, sem>>

\* ProcWakeup, called by wake for the candidate it granted.
ProcWakeup(p) ==
  /\ WakeUnlink(p)
  /\ waitStatus' = [waitStatus EXCEPT ![Candidate] = "OK"]
  /\ sem' = [sem EXCEPT ![Candidate] = @ + 1]
  /\ UNCHANGED table

\* PGSemaphoreLock returned, but waitStatus says nothing was granted: loop.
SleepAgain(p) ==
  /\ pc[p] = "asleep"
  /\ sem[p] > 0
  /\ waitStatus[p] = "WAITING"
  /\ sem' = [sem EXCEPT ![p] = @ - 1]
  /\ UNCHANGED <<vars, table, waitStatus>>

\* It returned and the lock was granted: ProcSleep takes the pin back,
\* gslAcquire finishes.
ProcAwake(p) ==
  /\ sem[p] > 0
  /\ waitStatus[p] = "OK"
  /\ AcquireReturn(p)
  /\ sem' = [sem EXCEPT ![p] = @ - 1]
  /\ pins' = pins + 1
  /\ Goto(p, "acquired")
  /\ UNCHANGED <<exists, req, waitStatus>>

(***************************************************************************)
(* LockRelease (LockReleaseAll does the same for each lock) and            *)
(* CleanUpLock.                                                            *)
(***************************************************************************)
\* Pin the entry for the cleanup, while still holding the lock.
LockRelease(p, m) ==
  /\ lpc[p] = "out"
  /\ Releasable(p, m)
  /\ pins' = pins + 1
  /\ req' = [req EXCEPT ![p].mode = m]
  /\ Goto(p, "release")
  /\ UNCHANGED <<vars, exists, sleep>>

\* The call of gslRelease: with no waiters, lastHold is whether the lock word
\* became zero.
CallRelease(p) ==
  LET m == req[p].mode IN
  /\ lpc[p] = "release"
  /\ \/ ReleaseFast(p, m) /\ Goto(p, IF AnyHolding' THEN "cleanup" ELSE "lastHold")
     \/ ReleaseContended(p, m) /\ UNCHANGED lpc
  /\ UNCHANGED <<exists, pins, req, sleep>>

\* gslRelease returns from its wake, with lastHold false.
CallReleased(p) ==
  /\ ReleaseReturn(p)
  /\ Goto(p, "cleanup")
  /\ UNCHANGED <<exists, pins, req, sleep>>

\* CleanUpLock: not the last holder, no point in looking further.
CleanUpSkip(p) ==
  /\ lpc[p] = "cleanup"
  /\ pins' = pins - 1
  /\ Leave(p)
  /\ UNCHANGED <<vars, exists, sleep>>

\* Bug: somebody else's pin does not keep the entry.
CleanUpUnpinAnyway(p) ==
  /\ lpc[p] = "lastHold"
  /\ queueLock = NULL
  /\ pins' = pins - 1
  /\ queueLock' = p
  /\ Goto(p, "collect")
  /\ UNCHANGED <<lockWord, queue, local, wakeup, prevLink, pc, arg,
                 exists, req, sleep>>

\* CleanUpLock: take the partition lock, give up the pin; somebody else's
\* pin means the entry stays.
CleanUpPinned(p) ==
  /\ lpc[p] = "lastHold"
  /\ queueLock = NULL
  /\ pins' = pins - 1
  /\ pins' > 0
  /\ Leave(p)
  /\ UNCHANGED <<vars, exists, sleep>>

CleanUpUnpin(p) ==
  /\ lpc[p] = "lastHold"
  /\ queueLock = NULL
  /\ pins' = pins - 1
  /\ ~(pins' > 0)
  /\ queueLock' = p
  /\ Goto(p, "collect")
  /\ UNCHANGED <<lockWord, queue, local, wakeup, prevLink, pc, arg,
                 exists, req, sleep>>

\* CleanUpLock: no pins were seen, now look at the lock word; if nobody holds
\* the lock, delete the entry (a missing entry is a PANIC).
CleanUpDelete(p) ==
  /\ lpc[p] = "collect"
  /\ \/ AnyHolding /\ UNCHANGED exists
     \/ ~AnyHolding /\ exists /\ exists' = FALSE
  /\ queueLock' = NULL
  /\ Leave(p)
  /\ UNCHANGED <<lockWord, queue, local, wakeup, prevLink, pc, arg,
                 pins, sleep>>

-----------------------------------------------------------------------------
\* The steps of the GSL lock that lock.c and proc.c have no part in.
Inside(p) ==
  /\ \/ TakeQueueLock(p)
     \/ Enqueue(p)
     \/ WakeBegin(p)
     \/ WakeGrant(p)
     \/ WakeSkip(p)
  /\ UNCHANGED <<table, sleep>>

PgNext ==
  \E p \in Proc :
    \/ \E m \in Mode, dontWait \in BOOLEAN : LockFind(p, m, dontWait)
    \/ \E m \in Mode : LockRelease(p, m)
    \/ LockCreate(p)
    \/ CallAcquire(p)
    \/ LockAcquired(p)
    \/ ProcSleep(p)
    \/ ProcWakeup(p)
    \/ SleepAgain(p)
    \/ ProcAwake(p)
    \/ CallRelease(p)
    \/ CallReleased(p)
    \/ CleanUpSkip(p)
    \/ CleanUpPinned(p)
    \/ CleanUpUnpin(p)
    \/ CleanUpDelete(p)
    \/ Inside(p)

PgSpec == PgInit /\ [][PgNext]_pgVars

-----------------------------------------------------------------------------
\* p has the entry's address and will use it: it is inside LockAcquire or
\* LockRelease past the lookup, or holds the lock, so LockRelease will come.
Uses(p) == lpc[p] \notin {"out", "create", "collect"} \/ holding[p] # {}

\* p's pin is in the count: ProcSleep gives it up while p sleeps.
Pinned(p) ==
  /\ lpc[p] \in {"acquire", "acquired", "release", "cleanup", "lastHold"}
  /\ pc[p] # "asleep"

\* No use after free: the entry is never deleted while a process holds the
\* lock, waits for it, or is between looking it up and letting go of it
\* ("Now I know nobody is holding the lock or about to hold the lock").
NoUseAfterFree == (\E p \in Proc : Uses(p)) => exists

\* The part of it that protects the lock itself: nobody inside LockAcquire
\* or holding a mode, sleeping without a pin included, loses the entry.
HoldersKeepEntry ==
  \A p \in Proc : holding[p] # {} \/ lpc[p] \in {"acquire", "acquired"} => exists

\* The pin count is exact over every path: acquisition at once, refused,
\* through ProcSleep, and both ends of CleanUpLock.
PinsExact == pins = Cardinality({p \in Proc : Pinned(p)})

\* GSL_ACQUIRE_SLEEP's contract: "If a wake already happened, just release
\* the mutex and return."  A granted sleeper can get out of ProcSleep's loop.
WakeNotForgotten ==
  \A p \in Proc : pc[p] = "asleep" /\ wakeup[p] =>
    waitStatus[p] = "OK" /\ sem[p] > 0
=============================================================================
