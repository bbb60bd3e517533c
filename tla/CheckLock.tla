----------------------------- MODULE CheckLock -----------------------------
(***************************************************************************)
(* The lock's own test, checklock.c: every process runs testLock, which    *)
(* acquires one mode and perhaps a second one, each blocking or not, and   *)
(* releases what it got, the first mode first.  generateRun enumerates the *)
(* test cases; Init chooses one case per process.  parex (parex.c) is the  *)
(* scheduler: it explores interleavings of the code between two preemption *)
(* points, as Next does, and reports a state where nobody is runnable.     *)
(***************************************************************************)
EXTENDS GSLLock

CONSTANTS Upgrades   \* doUpgrades: do the processes acquire a second mode?

VARIABLES
  test,    \* testMode1, testMode1DontWait, testMode2, testMode2DontWait
  got,     \* got[p]: which of the two acquisitions succeeded (got1, got2)
  tpc      \* where each process is in testLock

testVars == <<vars, test, got, tpc>>

\* What generateRun gives one process; mode2 = NULL is its -1.
TestCase ==
  {t \in [mode : [1..2 -> Mode \cup {NULL}], dontWait : [1..2 -> BOOLEAN]] :
     /\ t.mode[1] # NULL
     /\ t.mode[1] # t.mode[2]
     /\ t.mode[2] = NULL => ~t.dontWait[2]
     /\ t.dontWait[1] => t.mode[2] = NULL
     /\ ~Upgrades => t.mode[2] = NULL}

TestInit ==
  /\ Init
  /\ test \in [Proc -> TestCase]
  /\ got = [p \in Proc |-> {}]
  /\ tpc = [p \in Proc |-> "acquire1"]

Step(l) == IF l \in {"acquire1", "release1"} THEN 1 ELSE 2
TestMode(p) == test[p].mode[Step(tpc[p])]

\* Where testLock goes when its current call has returned.
After(p) ==
  LET l == tpc[p] IN
  CASE l = "acquire1" /\ test[p].mode[2] # NULL -> "acquire2"
    [] l \in {"acquire1", "acquire2"}           -> "release1"
    [] l = "release1"                           -> "release2"
    [] l = "release2"                           -> "done"

Stay    == UNCHANGED <<test, got, tpc>>
Advance(p, g) ==
  /\ got' = [got EXCEPT ![p] = g]
  /\ tpc' = [tpc EXCEPT ![p] = After(p)]
  /\ UNCHANGED test

\* gslAcquire(&theLock, mode, dontWait): got it, refused, or still in it.
TestAcquire(p) ==
  LET m == TestMode(p)
      k == Step(tpc[p])
      dontWait == test[p].dontWait[k] IN
  /\ tpc[p] \in {"acquire1", "acquire2"}
  /\ \/ AcquireAtOnce(p, m) /\ Advance(p, got[p] \cup {k})
     \/ dontWait /\ AcquireRefused(p, m) /\ Advance(p, got[p])
     \/ ~dontWait /\ AcquireContended(p, m) /\ Stay

TestAcquired(p) ==
  AcquireReturn(p) /\ Advance(p, got[p] \cup {Step(tpc[p])})

\* gslRelease of a mode that was acquired; one that was not is skipped.
TestRelease(p) ==
  LET m == TestMode(p)
      k == Step(tpc[p]) IN
  /\ tpc[p] \in {"release1", "release2"}
  /\ pc[p] = "idle"
  /\ \/ k \in got[p] /\ ReleaseFast(p, m) /\ Advance(p, got[p] \ {k})
     \/ k \in got[p] /\ ReleaseContended(p, m) /\ got' = [got EXCEPT ![p] = @ \ {k}]
          /\ UNCHANGED <<test, tpc>>
     \/ k \notin got[p] /\ UNCHANGED vars /\ Advance(p, got[p])

TestReleased(p) == ReleaseReturn(p) /\ Advance(p, got[p])

\* The rest of a call in progress.
TestInside(p) ==
  /\ \/ Enqueue(p)
     \/ WakeBegin(p)
     \/ WakeGrant(p)
     \/ WakeUnlink(p)
     \/ WakeSkip(p)
     \/ AcquireSleep(p)
  /\ Stay

TestQueueLock(p) == TakeQueueLock(p) /\ Stay

TestStep(p) ==
  \/ TestAcquire(p)
  \/ TestAcquired(p)
  \/ TestRelease(p)
  \/ TestReleased(p)
  \/ TestInside(p)

AllDone == \A p \in Proc : tpc[p] = "done"

\* procSearchRec stops at a state where all procs are DONE.
TestNext ==
  \/ \E p \in Proc : TestStep(p) \/ TestQueueLock(p)
  \/ AllDone /\ UNCHANGED testVars

TestSpec == TestInit /\ [][TestNext]_testVars

\* parex schedules every runnable process, and its mutexes are FIFO.
TestFairness ==
  \A p \in Proc : WF_testVars(TestStep(p)) /\ SF_testVars(TestQueueLock(p))

LiveTestSpec == TestSpec /\ TestFairness

-----------------------------------------------------------------------------
\* doRun's rule: the combinations of two processes' modes it expects to
\* deadlock, and skips.
ExpectDeadlock ==
  \E p, q \in Proc :
    /\ p # q
    /\ test[p].mode[2] # NULL
    /\ test[q].mode[2] # NULL
    /\ test[q].mode[2] \in Conflicts[test[p].mode[1]]
    /\ test[q].mode[1] \in Conflicts[test[p].mode[2]]

\* Nobody is RUNNABLE, which parex reports as "ERROR: Deadlock".
NobodyRunnable ==
  \A p \in Proc : \/ tpc[p] = "done"
                  \/ pc[p] = "asleep" /\ ~wakeup[p]
                  \/ pc[p] \in {"contend", "release"} /\ queueLock # NULL

\* The test's deadlock rule is complete: processes block each other for good
\* only in the combinations doRun skips.  It rules out both a circular wait
\* the rule overlooks and a wakeup lost by the lock.
OnlyExpectedDeadlocks == NobodyRunnable => AllDone \/ ExpectDeadlock

\* testLock's own check, "Conflicting lock held": what one process believes
\* it got does not conflict with what another one believes it got.
NoConflictingLockHeld ==
  \A p, q \in Proc : p # q =>
    \A j \in got[p], k \in got[q] :
      test[q].mode[k] \notin Conflicts[test[p].mode[j]]

\* A complete test leaves the lock as gslLockInit made it: nothing counted,
\* no wait bit, nobody queued.
CleanAtEnd ==
  AllDone => /\ \A m \in Mode : active[m] = 0 /\ ~waiting[m] /\ waitCounts[m] = 0
             /\ lockNext[Head] = NULL
             /\ queueLock = NULL

\* Outside the combinations expected to deadlock, every process gets through
\* testLock.
Termination == ~ExpectDeadlock => <>AllDone
=============================================================================
