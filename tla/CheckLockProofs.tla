--------------------------- MODULE CheckLockProofs ---------------------------
(***************************************************************************)
(* Proofs about CheckLock, for any number of processes and any symmetric   *)
(* conflict table: the runs of the test are runs of the lock, what the     *)
(* processes believe they got never conflicts, a complete test leaves the  *)
(* lock as it was, and without upgrades nobody deadlocks.                  *)
(***************************************************************************)
EXTENDS CheckLock, GSLQueueProofs

(***************************************************************************)
(* The inductive invariant.                                                *)
(***************************************************************************)
TestLabel == {"acquire1", "acquire2", "release1", "release2", "done"}

TestTypes ==
  /\ test \in [Proc -> TestCase]
  /\ got \in [Proc -> SUBSET (1..2)]
  /\ tpc \in [Proc -> TestLabel]

InAcquire == {"contend", "enqueue", "acqWake", "acqWalk", "acqGrant", "asleep"}
InRelease == {"release", "relWake", "relWalk", "relGrant"}

GotModes(p) == {test[p].mode[k] : k \in got[p]}

\* What p believes it got is what the lock has recorded for it, testLock and
\* the lock agree on the call p is in, and what testLock is past is released.
TestCallInv(p) ==
  /\ holding[p] = GotModes(p)
  /\ 2 \in got[p] => test[p].mode[2] # NULL
  /\ tpc[p] = "acquire1" => got[p] = {}
  /\ tpc[p] = "acquire2" => got[p] \subseteq {1} /\ test[p].mode[2] # NULL
  /\ tpc[p] = "release2" => got[p] \subseteq {2}
  /\ tpc[p] = "done" => got[p] = {} /\ pc[p] = "idle"
  /\ tpc[p] \in {"acquire1", "acquire2"} => pc[p] \in {"idle"} \cup InAcquire
  /\ tpc[p] \in {"release1", "release2"} => pc[p] \in {"idle"} \cup InRelease
  /\ pc[p] \in InAcquire => arg[p] = TestMode(p)
  /\ pc[p] \in InRelease => Step(tpc[p]) \notin got[p]

\* The owner of queueLock is at a critical control point.
OwnerInv == \A p \in Proc : queueLock = p => pc[p] \in Critical

TestInv == IInv /\ TestTypes /\ (\A p \in Proc : TestCallInv(p)) /\ OwnerInv

-----------------------------------------------------------------------------
(***************************************************************************)
(* Facts about one state.                                                  *)
(***************************************************************************)
\* The modes of a test case.
LEMMA CaseModes ==
  ASSUME TestTypes, NEW p \in Proc
  PROVE  /\ test[p].mode[1] \in Mode
         /\ test[p].mode[2] # NULL => test[p].mode[2] \in Mode
         /\ test[p].mode[1] # test[p].mode[2]
         /\ ~Upgrades => test[p].mode[2] = NULL
<1>1. test[p] \in TestCase
  BY DEF TestTypes
<1>2. /\ test[p].mode \in [1..2 -> Mode \cup {NULL}]
      /\ test[p].mode[1] # NULL /\ test[p].mode[1] # test[p].mode[2]
      /\ ~Upgrades => test[p].mode[2] = NULL
  BY <1>1 DEF TestCase
<1> QED BY <1>2

\* What testLock does next, by where it is.
LEMMA AfterCases ==
  ASSUME NEW p
  PROVE  /\ tpc[p] = "acquire1" => \/ After(p) = "acquire2" /\ test[p].mode[2] # NULL
                                   \/ After(p) = "release1"
         /\ tpc[p] = "acquire2" => After(p) = "release1"
         /\ tpc[p] = "release1" => After(p) = "release2"
         /\ tpc[p] = "release2" => After(p) = "done"
BY DEF After

\* The mode of the call p is in is a mode of the lock.
LEMMA CallMode ==
  ASSUME TestTypes, NEW p \in Proc, TestCallInv(p),
         \/ tpc[p] \in {"acquire1", "acquire2"}
         \/ tpc[p] \in {"release1", "release2"} /\ Step(tpc[p]) \in got[p]
  PROVE  TestMode(p) \in Mode
BY CaseModes DEF TestMode, Step, TestCallInv

\* The modes got, after one more acquisition and after one release.
LEMMA GotChange ==
  ASSUME TestTypes, NEW p \in Proc, NEW k \in 1..2, test' = test
  PROVE  /\ got'[p] = got[p] \cup {k} => GotModes(p)' = GotModes(p) \cup {test[p].mode[k]}
         /\ got'[p] = got[p] \ {k} => GotModes(p)' = GotModes(p) \ {test[p].mode[k]}
         /\ got'[p] = got[p] => GotModes(p)' = GotModes(p)
<1>1. got[p] \subseteq 1..2 /\ test[p].mode[1] # test[p].mode[2]
  BY CaseModes DEF TestTypes
<1>2. ASSUME NEW i \in 1..2, NEW j \in 1..2, test[p].mode[i] = test[p].mode[j]
      PROVE  i = j
  BY <1>1, <1>2
<1>3. ASSUME got'[p] = got[p] \ {k}
      PROVE  GotModes(p)' = GotModes(p) \ {test[p].mode[k]}
  <2>1. GotModes(p)' = {test[p].mode[j] : j \in got[p] \ {k}}
    BY <1>3 DEF GotModes
  <2> QED BY <1>1, <1>2, <2>1 DEF GotModes
<1> QED BY <1>3 DEF GotModes

-----------------------------------------------------------------------------
(***************************************************************************)
(* The steps.                                                              *)
(***************************************************************************)
\* A step of p leaves the calls of the others alone.
Others(p) ==
  \A q \in Proc \ {p} :
    /\ pc'[q] = pc[q] /\ arg'[q] = arg[q] /\ holding'[q] = holding[q]
    /\ got'[q] = got[q] /\ tpc'[q] = tpc[q]

LEMMA OthersKept ==
  ASSUME NEW p \in Proc, \A q \in Proc : TestCallInv(q), Others(p), test' = test,
         TestCallInv(p)'
  PROVE  \A q \in Proc : TestCallInv(q)'
<1>1. ASSUME NEW q \in Proc, q # p PROVE TestCallInv(q)'
  <2>1. GotModes(q)' = GotModes(q) /\ TestMode(q)' = TestMode(q)
    BY <1>1 DEF Others, GotModes, TestMode
  <2> QED BY <1>1, <2>1 DEF Others, TestCallInv
<1> QED BY <1>1

\* Every step of the test is a step of the lock.
LEMMA TestStepIsStep == TestTypes /\ (\A p \in Proc : TestCallInv(p)) /\ [TestNext]_testVars => [Next]_vars
<1> SUFFICES ASSUME TestTypes, \A p \in Proc : TestCallInv(p), TestNext, ~UNCHANGED vars
             PROVE  Next
  BY DEF testVars
<1>1. PICK p \in Proc : TestStep(p) \/ TestQueueLock(p)
  BY DEF TestNext, testVars
<1>2. CASE TestAcquire(p)
  <2>1. TestMode(p) \in Mode
    BY <1>2, CallMode DEF TestAcquire
  <2> QED BY <1>2, <2>1 DEF TestAcquire, Next, Call
<1>3. CASE TestRelease(p)
  <2>1. PICK m : m = TestMode(p)
    OBVIOUS
  <2>2. Step(tpc[p]) \in got[p] /\ (ReleaseFast(p, m) \/ ReleaseContended(p, m))
    BY <1>3, <2>1 DEF TestRelease
  <2>3. m \in Mode
    BY <1>3, <2>1, <2>2, CallMode DEF TestRelease
  <2> QED BY <2>2, <2>3 DEF Next, Return
<1>4. CASE TestAcquired(p) \/ TestReleased(p) \/ TestInside(p) \/ TestQueueLock(p)
  BY <1>4 DEF TestAcquired, TestReleased, TestInside, TestQueueLock, Next, Continue
<1> QED BY <1>1, <1>2, <1>3, <1>4 DEF TestStep

\* A step of testLock keeps the types of its variables.
LEMMA TypesAdvance ==
  ASSUME TestTypes, NEW p \in Proc, tpc[p] # "done",
         \/ Stay
         \/ \E k \in 1..2 : \E g \in {got[p], got[p] \cup {k}, got[p] \ {k}} : Advance(p, g)
         \/ \E k \in 1..2 : got' = [got EXCEPT ![p] = @ \ {k}] /\ UNCHANGED <<test, tpc>>
  PROVE  TestTypes'
<1>1. After(p) \in TestLabel
  BY AfterCases DEF TestTypes, TestLabel
<1> QED BY <1>1 DEF TestTypes, Stay, Advance

\* gslAcquire got the mode at once, was refused, or goes for queueLock.
LEMMA AcquireKept ==
  ASSUME TestInv, NEW p \in Proc, TestAcquire(p)
  PROVE  TestTypes' /\ (\A q \in Proc : TestCallInv(q)') /\ OwnerInv'
<1> USE DEF TestInv
<1>1. PICK m, k : m = TestMode(p) /\ k = Step(tpc[p])
  OBVIOUS
<1>2. /\ tpc[p] \in {"acquire1", "acquire2"} /\ k \in 1..2 /\ pc[p] = "idle"
      /\ k = IF tpc[p] = "acquire1" THEN 1 ELSE 2
      /\ m = test[p].mode[k] /\ TestCallInv(p) /\ TestTypes
      /\ holding \in [Proc -> SUBSET Mode] /\ pc \in [Proc -> Label]
      /\ arg \in [Proc -> Mode \cup {NULL}] /\ m \in Mode
  BY <1>1, CallMode DEF TestAcquire, Step, TestMode, AcquireAtOnce, AcquireRefused,
     AcquireContended, Callable, IInv, StructInv, TypeOK
<1>3. CASE AcquireAtOnce(p, m) /\ Advance(p, got[p] \cup {k})
  <2>1. /\ holding' = [holding EXCEPT ![p] = @ \cup {m}] /\ UNCHANGED <<pc, arg, queueLock, test>>
        /\ got' = [got EXCEPT ![p] = got[p] \cup {k}] /\ tpc' = [tpc EXCEPT ![p] = After(p)]
    BY <1>3 DEF AcquireAtOnce, Advance
  <2>2. TestTypes'
    BY <1>2, <1>3, TypesAdvance
  <2>3. Others(p)
    BY <1>2, <2>1 DEF Others, TestTypes
  <2>4. got'[p] = got[p] \cup {k} /\ tpc'[p] = After(p)
    BY <1>2, <2>1 DEF TestTypes
  <2>5. holding'[p] = GotModes(p)'
    BY <1>2, <2>1, <2>4, GotChange DEF TestCallInv
  <2>6. TestCallInv(p)'
    BY <1>2, <2>1, <2>4, <2>5, AfterCases DEF TestCallInv, InAcquire, InRelease
  <2>7. OwnerInv'
    BY <2>1 DEF OwnerInv
  <2> QED BY <2>1, <2>2, <2>3, <2>6, <2>7, OthersKept
<1>4. CASE AcquireRefused(p, m) /\ Advance(p, got[p])
  <2>1. /\ UNCHANGED <<holding, pc, arg, queueLock, test>>
        /\ got' = [got EXCEPT ![p] = got[p]] /\ tpc' = [tpc EXCEPT ![p] = After(p)]
    BY <1>4 DEF AcquireRefused, Advance, vars
  <2>2. TestTypes'
    BY <1>2, <1>4, TypesAdvance
  <2>3. Others(p)
    BY <1>2, <2>1 DEF Others, TestTypes
  <2>4. got'[p] = got[p] /\ tpc'[p] = After(p)
    BY <1>2, <2>1 DEF TestTypes
  <2>5. holding'[p] = GotModes(p)'
    BY <1>2, <2>1, <2>4, GotChange DEF TestCallInv
  <2>6. TestCallInv(p)'
    BY <1>2, <2>1, <2>4, <2>5, AfterCases DEF TestCallInv, InAcquire, InRelease
  <2>7. OwnerInv'
    BY <2>1 DEF OwnerInv
  <2> QED BY <2>1, <2>2, <2>3, <2>6, <2>7, OthersKept
<1>5. CASE AcquireContended(p, m) /\ Stay
  <2>1. /\ UNCHANGED <<holding, queueLock, test, got, tpc>>
        /\ pc' = [pc EXCEPT ![p] = "contend"] /\ arg' = [arg EXCEPT ![p] = m]
    BY <1>5 DEF AcquireContended, Stay, local
  <2>2. TestTypes'
    BY <1>2, <1>5, TypesAdvance
  <2>3. Others(p) /\ pc'[p] = "contend" /\ arg'[p] = m
    BY <1>2, <2>1 DEF Others
  <2>4. GotModes(p)' = GotModes(p) /\ TestMode(p)' = TestMode(p)
    BY <2>1 DEF GotModes, TestMode
  <2>5. TestCallInv(p)'
    BY <1>1, <1>2, <2>1, <2>3, <2>4 DEF TestCallInv, InAcquire, InRelease
  <2>6. OwnerInv'
    BY <1>2, <2>1, <2>3 DEF OwnerInv, Others, Critical, Walk, Grant
  <2> QED BY <2>1, <2>2, <2>3, <2>5, <2>6, OthersKept
<1> QED BY <1>1, <1>3, <1>4, <1>5 DEF TestAcquire

\* gslAcquire returns what a wake has granted.
LEMMA AcquiredKept ==
  ASSUME TestInv, NEW p \in Proc, TestAcquired(p)
  PROVE  TestTypes' /\ (\A q \in Proc : TestCallInv(q)') /\ OwnerInv'
<1> USE DEF TestInv
<1>1. PICK k : k = Step(tpc[p])
  OBVIOUS
<1>2. /\ pc[p] = "asleep" /\ TestCallInv(p) /\ TestTypes /\ tpc[p] \in TestLabel
      /\ holding \in [Proc -> SUBSET Mode] /\ pc \in [Proc -> Label]
      /\ arg \in [Proc -> Mode \cup {NULL}]
  BY DEF TestAcquired, AcquireReturn, IInv, StructInv, TypeOK, TestTypes
<1>3. /\ tpc[p] \in {"acquire1", "acquire2"} /\ k \in 1..2
      /\ k = IF tpc[p] = "acquire1" THEN 1 ELSE 2
      /\ arg[p] = test[p].mode[k]
  BY <1>1, <1>2 DEF TestCallInv, TestLabel, InAcquire, InRelease, TestMode, Step
<1>4. /\ holding' = [holding EXCEPT ![p] = @ \cup {arg[p]}] /\ UNCHANGED <<queueLock, test>>
      /\ pc' = [pc EXCEPT ![p] = "idle"] /\ arg' = [arg EXCEPT ![p] = NULL]
      /\ got' = [got EXCEPT ![p] = got[p] \cup {k}] /\ tpc' = [tpc EXCEPT ![p] = After(p)]
      /\ Advance(p, got[p] \cup {k})
  BY <1>1 DEF TestAcquired, AcquireReturn, Advance
<1>5. TestTypes'
  BY <1>2, <1>3, <1>4, TypesAdvance
<1>6. Others(p)
  BY <1>2, <1>4 DEF Others, TestTypes
<1>7. got'[p] = got[p] \cup {k} /\ tpc'[p] = After(p) /\ pc'[p] = "idle"
  BY <1>2, <1>4 DEF TestTypes
<1>8. holding'[p] = GotModes(p)'
  BY <1>2, <1>3, <1>4, <1>7, GotChange DEF TestCallInv
<1>9. TestCallInv(p)'
  BY <1>2, <1>3, <1>4, <1>7, <1>8, AfterCases DEF TestCallInv, InAcquire, InRelease
<1>10. OwnerInv'
  BY <1>2, <1>4, <1>6 DEF OwnerInv, Others, Critical, Walk, Grant
<1> QED BY <1>4, <1>5, <1>6, <1>9, <1>10, OthersKept

\* gslRelease of what was acquired drops it at once, on either path.
LEMMA ReleaseKept ==
  ASSUME TestInv, NEW p \in Proc, TestRelease(p)
  PROVE  TestTypes' /\ (\A q \in Proc : TestCallInv(q)') /\ OwnerInv'
<1> USE DEF TestInv
<1>1. PICK m, k : m = TestMode(p) /\ k = Step(tpc[p])
  OBVIOUS
<1>2. /\ tpc[p] \in {"release1", "release2"} /\ k \in 1..2 /\ pc[p] = "idle"
      /\ k = IF tpc[p] = "release1" THEN 1 ELSE 2
      /\ m = test[p].mode[k] /\ TestCallInv(p) /\ TestTypes /\ got[p] \subseteq 1..2
      /\ holding \in [Proc -> SUBSET Mode] /\ pc \in [Proc -> Label]
  BY <1>1 DEF TestRelease, Step, TestMode, IInv, StructInv, TypeOK, TestTypes
<1>3. CASE \/ ReleaseFast(p, m) /\ Advance(p, got[p] \ {k})
           \/ k \notin got[p] /\ UNCHANGED vars /\ Advance(p, got[p])
  <2>1. /\ holding' = [holding EXCEPT ![p] = @ \ {m}] \/ (k \notin got[p] /\ holding' = holding)
        /\ UNCHANGED <<pc, arg, queueLock, test>>
        /\ got' = [got EXCEPT ![p] = got[p] \ {k}] /\ tpc' = [tpc EXCEPT ![p] = After(p)]
    <3>1. k \notin got[p] => got[p] \ {k} = got[p]
      OBVIOUS
    <3> QED BY <1>3, <3>1 DEF ReleaseFast, Advance, vars
  <2>2. TestTypes'
    BY <1>2, <1>3, TypesAdvance
  <2>3. Others(p)
    BY <1>2, <2>1 DEF Others, TestTypes
  <2>4. got'[p] = got[p] \ {k} /\ tpc'[p] = After(p)
    BY <1>2, <2>1 DEF TestTypes
  <2>5. holding'[p] = GotModes(p)'
    <3>1. CASE holding' = [holding EXCEPT ![p] = @ \ {m}]
      BY <1>2, <2>1, <2>4, <3>1, GotChange DEF TestCallInv
    <3>2. CASE k \notin got[p] /\ holding' = holding
      <4>1. got'[p] = got[p]
        BY <2>4, <3>2
      <4> QED BY <1>2, <2>1, <3>2, <4>1, GotChange DEF TestCallInv
    <3> QED BY <2>1, <3>1, <3>2
  <2>6. TestCallInv(p)'
    BY <1>2, <2>1, <2>4, <2>5, AfterCases DEF TestCallInv, InAcquire, InRelease
  <2>7. OwnerInv'
    BY <2>1 DEF OwnerInv
  <2> QED BY <2>1, <2>2, <2>3, <2>6, <2>7, OthersKept
<1>4. CASE /\ ReleaseContended(p, m) /\ got' = [got EXCEPT ![p] = @ \ {k}]
           /\ UNCHANGED <<test, tpc>>
  <2>1. /\ UNCHANGED <<queueLock, test, tpc, arg>> /\ got' = [got EXCEPT ![p] = got[p] \ {k}]
        /\ holding' = [holding EXCEPT ![p] = @ \ {m}] /\ pc' = [pc EXCEPT ![p] = "release"]
    BY <1>4 DEF ReleaseContended
  <2>2. TestTypes'
    BY <1>2, <1>4, TypesAdvance
  <2>3. Others(p) /\ pc'[p] = "release" /\ got'[p] = got[p] \ {k}
    BY <1>2, <2>1 DEF Others, TestTypes
  <2>4. holding'[p] = GotModes(p)'
    BY <1>2, <2>1, <2>3, GotChange DEF TestCallInv
  <2>5. TestCallInv(p)'
    BY <1>1, <1>2, <2>1, <2>3, <2>4 DEF TestCallInv, InAcquire, InRelease
  <2>6. OwnerInv'
    BY <1>2, <2>1, <2>3 DEF OwnerInv, Others, Critical, Walk, Grant
  <2> QED BY <2>1, <2>2, <2>3, <2>5, <2>6, OthersKept
<1> QED BY <1>1, <1>3, <1>4 DEF TestRelease

\* gslRelease returns from its wake.
LEMMA ReleasedKept ==
  ASSUME TestInv, NEW p \in Proc, TestReleased(p)
  PROVE  TestTypes' /\ (\A q \in Proc : TestCallInv(q)') /\ OwnerInv'
<1> USE DEF TestInv
<1>1. /\ pc[p] = "relWalk" /\ TestCallInv(p) /\ TestTypes /\ tpc[p] \in TestLabel
      /\ pc \in [Proc -> Label] /\ got[p] \subseteq 1..2 /\ NULL \notin Proc
  BY CellAssumption DEF TestReleased, ReleaseReturn, IInv, StructInv, TypeOK, TestTypes
<1>2. tpc[p] \in {"release1", "release2"} /\ Step(tpc[p]) \notin got[p]
  BY <1>1 DEF TestCallInv, TestLabel, InAcquire, InRelease
<1>3. /\ pc' = [pc EXCEPT ![p] = "idle"] /\ queueLock' = NULL /\ UNCHANGED <<holding, arg, test>>
      /\ got' = [got EXCEPT ![p] = got[p]] /\ tpc' = [tpc EXCEPT ![p] = After(p)]
      /\ Advance(p, got[p])
  BY DEF TestReleased, ReleaseReturn, Advance, local
<1>4. TestTypes'
  <2>1. \E k \in 1..2 : \E g \in {got[p], got[p] \cup {k}, got[p] \ {k}} : Advance(p, g)
    BY <1>3, 1 \in 1..2
  <2> QED BY <1>1, <1>2, <2>1, TypesAdvance
<1>5. Others(p) /\ got'[p] = got[p] /\ tpc'[p] = After(p) /\ pc'[p] = "idle"
  BY <1>1, <1>3 DEF Others, TestTypes
<1>6. holding'[p] = GotModes(p)'
  BY <1>1, <1>3, <1>5, GotChange DEF TestCallInv
<1>7. TestCallInv(p)'
  BY <1>1, <1>2, <1>3, <1>5, <1>6, AfterCases DEF TestCallInv, InAcquire, InRelease, Step
<1>8. OwnerInv'
  BY <1>1, <1>3 DEF OwnerInv
<1> QED BY <1>3, <1>4, <1>5, <1>7, <1>8, OthersKept

\* The rest of a call moves its process inside the call.
LEMMA InsideKept ==
  ASSUME TestInv, NEW p \in Proc, TestInside(p) \/ TestQueueLock(p)
  PROVE  TestTypes' /\ (\A q \in Proc : TestCallInv(q)') /\ OwnerInv'
<1> USE DEF TestInv
<1>1. UNCHANGED <<test, got, tpc, holding, arg>>
  BY DEF TestInside, TestQueueLock, TakeQueueLock, Stay, Enqueue, WakeBegin, WakeGrant,
     WakeUnlink, WakeSkip, AcquireSleep, AcquireQueueLock, ReleaseQueueLock, local
<1>2. /\ pc \in [Proc -> Label] /\ queueLock \in Proc \cup {NULL} /\ NULL \notin Proc
      /\ pc[p] \in Critical => queueLock = p
  BY CellAssumption DEF IInv, StructInv, TypeOK, ControlInv
<1>3. PICK l : /\ pc' = [pc EXCEPT ![p] = l]
               /\ \/ pc[p] \in InAcquire /\ l \in InAcquire
                  \/ pc[p] \in InRelease /\ l \in InRelease
               /\ \/ queueLock' = p /\ l \in Critical
                  \/ queueLock' = NULL
                  \/ queueLock' = queueLock /\ pc[p] \in Critical /\ l \in Critical
  <2> USE DEF InAcquire, InRelease, Critical, Walk, Grant, ToWalk, ToGrant
  <2>1. CASE Enqueue(p)
    BY <1>2, <2>1 DEF Enqueue
  <2>2. CASE WakeBegin(p)
    BY <1>2, <2>2 DEF WakeBegin
  <2>3. CASE WakeGrant(p)
    BY <1>2, <2>3 DEF WakeGrant
  <2>4. CASE WakeUnlink(p)
    BY <1>2, <2>4 DEF WakeUnlink
  <2>5. CASE WakeSkip(p)
    <3>1. pc' = [pc EXCEPT ![p] = pc[p]] /\ queueLock' = queueLock /\ pc[p] \in Walk
      BY <1>2, <2>5 DEF WakeSkip
    <3> QED BY <3>1
  <2>6. CASE AcquireSleep(p)
    BY <1>2, <2>6 DEF AcquireSleep
  <2>7. CASE TakeQueueLock(p)
    BY <1>2, <2>7 DEF TakeQueueLock, AcquireQueueLock, ReleaseQueueLock
  <2> QED BY <2>1, <2>2, <2>3, <2>4, <2>5, <2>6, <2>7 DEF TestInside, TestQueueLock
<1>4. TestTypes'
  BY <1>1 DEF TestTypes
<1>5. Others(p) /\ pc'[p] = l
  BY <1>1, <1>2, <1>3 DEF Others
<1>6. TestCallInv(p)'
  <2>1. GotModes(p)' = GotModes(p) /\ TestMode(p)' = TestMode(p)
    BY <1>1 DEF GotModes, TestMode
  <2> QED BY <1>1, <1>3, <1>5, <2>1 DEF TestCallInv, InAcquire, InRelease
<1>7. OwnerInv'
  BY <1>2, <1>3, <1>5 DEF OwnerInv, Others
<1> QED BY <1>1, <1>4, <1>5, <1>6, <1>7, OthersKept

\* The invariant holds at the start and every step of the test preserves it.
LEMMA TestInvInit == TestInit => TestInv
<1> SUFFICES ASSUME TestInit PROVE TestInv
  OBVIOUS
<1>1. IInv /\ OwnerInv
  BY IInvInit, CellAssumption DEF TestInit, Init, OwnerInv
<1>2. TestTypes
  BY DEF TestInit, TestTypes, TestLabel
<1>3. \A p \in Proc : TestCallInv(p)
  BY DEF TestInit, Init, TestCallInv, GotModes, InAcquire, InRelease
<1> QED BY <1>1, <1>2, <1>3 DEF TestInv

LEMMA TestInvNext == TestInv /\ [TestNext]_testVars => TestInv' /\ [Next]_vars
<1> SUFFICES ASSUME TestInv, [TestNext]_testVars PROVE TestInv' /\ [Next]_vars
  OBVIOUS
<1>1. [Next]_vars
  BY TestStepIsStep DEF TestInv
<1>2. IInv'
  BY <1>1, IInvNext DEF TestInv
<1>3. ASSUME UNCHANGED testVars
      PROVE  TestTypes' /\ (\A q \in Proc : TestCallInv(q)') /\ OwnerInv'
  <2>1. UNCHANGED <<test, got, tpc, pc, arg, holding, queueLock>>
    BY <1>3 DEF testVars, vars
  <2>2. \A q \in Proc : GotModes(q)' = GotModes(q) /\ TestMode(q)' = TestMode(q)
    BY <2>1 DEF GotModes, TestMode
  <2> QED BY <2>1, <2>2 DEF TestInv, TestTypes, TestCallInv, OwnerInv
<1>4. ASSUME NEW p \in Proc, TestStep(p) \/ TestQueueLock(p)
      PROVE  TestTypes' /\ (\A q \in Proc : TestCallInv(q)') /\ OwnerInv'
  BY <1>4, AcquireKept, AcquiredKept, ReleaseKept, ReleasedKept, InsideKept DEF TestStep
<1> QED BY <1>1, <1>2, <1>3, <1>4 DEF TestNext, TestInv

-----------------------------------------------------------------------------
(***************************************************************************)
(* The theorems.                                                           *)
(***************************************************************************)
\* Every reachable state of the test satisfies the inductive invariant.
THEOREM TestInvariance == TestSpec => []TestInv
<1>1. TestInit => TestInv
  BY TestInvInit
<1>2. TestInv /\ [TestNext]_testVars => TestInv'
  BY TestInvNext
<1> QED BY <1>1, <1>2, PTL DEF TestSpec

\* Every run of testLock in every process is a run of the lock: what is proved
\* of the lock holds in the test.
THEOREM TestRunsTheLock == TestSpec => Spec
<1>1. TestInit => Init
  BY DEF TestInit
<1>2. TestInv /\ [TestNext]_testVars => [Next]_vars
  BY TestInvNext
<1> QED BY <1>1, <1>2, TestInvariance, PTL DEF TestSpec, Spec

\* testLock never finds "Conflicting lock held", whatever the test cases, the
\* conflict table and the number of processes.
THEOREM TestExclusion == TestSpec => []NoConflictingLockHeld
<1>1. TestInv => NoConflictingLockHeld
  <2> SUFFICES ASSUME TestInv, NEW p \in Proc, NEW q \in Proc, p # q,
                      NEW j \in got[p], NEW k \in got[q]
               PROVE  test[q].mode[k] \notin Conflicts[test[p].mode[j]]
    BY DEF NoConflictingLockHeld
  <2>1. test[p].mode[j] \in holding[p] /\ test[q].mode[k] \in holding[q]
    BY DEF TestInv, TestCallInv, GotModes
  <2> QED BY <2>1 DEF TestInv, IInv, MutualExclusion, Held
<1> QED BY <1>1, TestInvariance, PTL

\* A process outside the lock code that holds nothing is counted nowhere.
LEMMA Uncounted ==
  ASSUME IInv, NEW p \in Proc, pc[p] = "idle", holding[p] = {}
  PROVE  Claim(p) = {} /\ ~InQ(p) /\ ~Waits(p)
<1>1. ~Blocking(p) /\ ~Granted(p)
  BY GrantedBlocks DEF IInv, Blocking
<1> QED BY <1>1 DEF Claim, Held, InQ, Waits

\* A complete test leaves the counters, the wait bits, the queue and the mutex
\* as gslLockInit made them.
THEOREM TestLeavesClean == TestSpec => []CleanAtEnd
<1>1. TestInv => CleanAtEnd
  <2> SUFFICES ASSUME TestInv, AllDone
               PROVE  /\ \A m \in Mode : active[m] = 0 /\ ~waiting[m] /\ waitCounts[m] = 0
                      /\ lockNext[Head] = NULL
                      /\ queueLock = NULL
    BY DEF CleanAtEnd
  <2>1. \A p \in Proc : pc[p] = "idle" /\ holding[p] = {}
    BY DEF AllDone, TestInv, TestCallInv, GotModes
  <2>2. \A p \in Proc : Claim(p) = {} /\ ~InQ(p) /\ ~Waits(p)
    BY <2>1, Uncounted DEF TestInv
  <2>3. ASSUME NEW m \in Mode PROVE active[m] = 0 /\ ~waiting[m] /\ waitCounts[m] = 0
    <3>1. {q \in Proc : m \in ClaimMap[q]} = {} /\ {q \in Proc : m \in WaitMap[q]} = {}
      BY <2>2 DEF ClaimMap, WaitMap
    <3>2. active[m] = 0 /\ waitCounts[m] = 0
      BY <3>1, FS_EmptySet DEF TestInv, IInv, CountInv, Counts
    <3>3. ~waiting[m]
      BY <2>2 DEF TestInv, IInv, WaitBitsExact
    <3> QED BY <3>2, <3>3
  <2>4. lockNext[Head] = NULL
    BY <2>2 DEF TestInv, IInv, StructInv, TypeOK, ListInv, InQCell, Cell
  <2>5. queueLock = NULL
    BY <2>1 DEF TestInv, OwnerInv, IInv, StructInv, TypeOK, Critical, Walk, Grant
  <2> QED BY <2>3, <2>4, <2>5
<1> QED BY <1>1, TestInvariance, PTL

\* Where nobody upgrades, nobody deadlocks: as long as some process is in
\* testLock, some process can run.  The last wake has left the head of the
\* queue only if somebody conflicts with it, and that process is neither done
\* nor asleep.
THEOREM NoDeadlock ==
  MaxHeld = 1 /\ ~Upgrades => (TestSpec => []OnlyExpectedDeadlocks)
<1> SUFFICES ASSUME MaxHeld = 1, ~Upgrades PROVE TestSpec => []OnlyExpectedDeadlocks
  OBVIOUS
<1>1. TestInv /\ NoLostWakeup /\ QueueExact => OnlyExpectedDeadlocks
  <2> SUFFICES ASSUME TestInv, NoLostWakeup, QueueExact, NobodyRunnable,
                      NEW p \in Proc, tpc[p] # "done"
               PROVE  FALSE
    BY DEF OnlyExpectedDeadlocks, AllDone
  <2> USE DEF TestInv
  <2>1. queueLock = NULL
    <3>1. ASSUME NEW q \in Proc, queueLock = q PROVE FALSE
      BY <3>1 DEF NobodyRunnable, OwnerInv, TestCallInv, Critical, Walk, Grant
    <3> QED BY <3>1 DEF IInv, StructInv, TypeOK
  <2>2. \A q \in Proc : \/ tpc[q] = "done" /\ pc[q] = "idle" /\ holding[q] = {}
                        \/ pc[q] = "asleep" /\ ~wakeup[q]
    BY <2>1 DEF NobodyRunnable, TestCallInv, GotModes
  <2>3. \A q \in Proc : pc[q] = "asleep" => holding[q] = {}
    <3> SUFFICES ASSUME NEW q \in Proc, pc[q] = "asleep" PROVE holding[q] = {}
      OBVIOUS
    <3>1. tpc[q] \in {"acquire1", "acquire2"} /\ test[q].mode[2] = NULL
      BY CaseModes DEF TestCallInv, TestTypes, TestLabel, InAcquire, InRelease
    <3> QED BY <3>1 DEF TestCallInv, GotModes
  <2>4. \A q \in Proc : Claim(q) = {}
    <3>1. \A q \in Proc : ~Granted(q)
      BY <2>2, GrantedBlocks DEF IInv, Granted, Blocking, Grant
    <3> QED BY <2>2, <2>3, <3>1 DEF Claim, Held
  <2>5. PICK h \in OnQueue : lockNext[Head] = h
    <3>1. p \in OnQueue
      BY <2>2 DEF QueueExact, Blocking
    <3>2. lockNext[Head] # NULL
      <4>1. ASSUME lockNext[Head] = NULL PROVE Closed({})
        BY <4>1 DEF Closed
      <4> QED BY <3>1, <4>1 DEF OnQueue
    <3>3. lockNext[Head] \in Proc /\ InQ(lockNext[Head])
      BY <3>2 DEF IInv, StructInv, TypeOK, ListInv, InQCell, Cell
    <3> QED BY <3>3 DEF QueueExact, InQ
  <2>6. Blocked(h) /\ h \in Proc /\ InQ(h)
    BY <2>2, <2>5, OnQueueQueued DEF NoLostWakeup, Turn, IInv
  <2>7. PICK n \in Mode : active[n] - Own(waitHolding[h], n) # 0
    BY <2>6, ConflictsAssumption DEF Blocked, ActiveConflict, IInv, StructInv, CallInv, InQ
  <2>8. active[n] = 0
    <3>1. {q \in Proc : n \in ClaimMap[q]} = {}
      BY <2>4 DEF ClaimMap
    <3> QED BY <3>1, FS_EmptySet DEF IInv, CountInv, Counts
  <2>9. Own(waitHolding[h], n) = 0
    BY <2>2, <2>3, <2>6 DEF IInv, StructInv, CallInv, InQ, Own
  <2> QED BY <2>7, <2>8, <2>9
<1>2. Spec => []NoLostWakeup /\ []QueueExact
  BY WakeupsKept, QueueCorrect, PTL
<1> QED BY <1>1, <1>2, TestInvariance, TestRunsTheLock, PTL
=============================================================================
