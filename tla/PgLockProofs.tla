---------------------------- MODULE PgLockProofs ----------------------------
(***************************************************************************)
(* Proofs about PgLock, for any number of backends, any symmetric conflict *)
(* table and any nesting of upgrades: the lock inside the table's entry    *)
(* keeps the invariant of GSLLockProofs although entries come and go, the  *)
(* pins are exact, and no holder or waiter loses the entry.                *)
(***************************************************************************)
EXTENDS PgLock, GSLLockProofs

(***************************************************************************)
(* The inductive invariant.                                                *)
(***************************************************************************)
Places == {"out", "create", "acquire", "acquired", "release", "cleanup",
           "lastHold", "collect"}

TableTypes ==
  /\ exists \in BOOLEAN /\ pins \in Nat
  /\ lpc \in [Proc -> Places]
  /\ req \in [Proc -> [mode : Mode \cup {NULL}, dontWait : BOOLEAN]]

\* Where a process may be in the GSL lock when lock.c has called it, and what
\* it asked for.
CallsInv ==
  \A p \in Proc :
    /\ lpc[p] \notin {"acquire", "release"} => pc[p] = "idle"
    /\ lpc[p] = "acquire" => pc[p] \notin {"release", "relWake", "relWalk", "relGrant"}
    /\ lpc[p] = "release" => pc[p] \in {"idle", "release", "relWake", "relWalk", "relGrant"}
    /\ lpc[p] \in {"create", "acquire", "release"} => req[p].mode \in Mode
    /\ lpc[p] = "release" /\ pc[p] = "idle" => req[p].mode \in holding[p]

\* While the entry is not in the table nobody is inside its lock, holds it or
\* is about to call it.
EntryInv ==
  ~exists =>
    \A p \in Proc : /\ pc[p] = "idle" /\ holding[p] = {}
                    /\ lpc[p] \notin {"acquire", "acquired", "release"}

\* While a process collects, all acquirers left are asleep or hold the lock,
\* and a releaser is in the slow path because somebody waits.
CollectInv ==
  \A p \in Proc : lpc[p] = "collect" =>
    /\ queueLock = p
    /\ \A q \in Proc :
         /\ lpc[q] = "acquire" => pc[q] = "asleep"
         /\ lpc[q] = "acquired" => holding[q] # {}
         /\ pc[q] = "release" => \E m \in Mode : waiting[m]

PgIInv == IInv /\ TableTypes /\ CallsInv /\ EntryInv /\ CollectInv /\ PinsExact

-----------------------------------------------------------------------------
(***************************************************************************)
(* The GSL lock inside the entry.                                          *)
(***************************************************************************)
\* Taking or dropping queueLock with nobody inside its critical sections.
LEMMA MutexStep ==
  ASSUME IInv, queueLock' \in Proc \cup {NULL}, \A q \in Proc : pc[q] \notin Critical,
         UNCHANGED <<lockWord, queue, local, wakeup, prevLink, pc, arg>>
  PROVE  IInv'
<1> USE DEF IInv, lockWord, queue, local
<1>1. OtherTypes' /\ active' \in [Mode -> Nat] /\ waitCounts' \in [Mode -> Nat]
  BY DEF StructInv, TypeOK, OtherTypes
<1>2. Structure'
  BY DEF StructInv, Structure, ControlInv, CallInv, ListInv, RankInv, Ranks,
     InQ, InQCell, Blocking, Candidate
<1>3. \A q \in Proc : Granted(q)' = Granted(q) /\ Blocking(q)' = Blocking(q)
  BY DEF Granted, Blocking, Candidate
<1>4. HeldMap' = HeldMap
  BY <1>3 DEF HeldMap, Held
<1>5. ClaimMap' = ClaimMap
  BY <1>3 DEF ClaimMap, Claim, Held
<1>6. WaitMap' = WaitMap /\ PendMap' = PendMap
  BY <1>3 DEF WaitMap, PendMap, InQ, Waits
<1>7. Counters'
  BY <1>1, <1>5, <1>6 DEF Counters, CountInv, Counts
<1>8. MutualExclusion'
  BY <1>4, ExclusionKept
<1>9. WaitBitsExact'
  BY <1>6, BitsExact, BitsExactNext
<1> QED BY <1>1, <1>2, <1>7, <1>8, <1>9, Recompose

\* gslLockInit on the remains of an entry nobody uses any more.
LEMMA LockInitStep ==
  ASSUME IInv, GslLockInit, \A q \in Proc : pc[q] = "idle" /\ holding[q] = {},
         UNCHANGED <<queueLock, wantMode, isUpgrade, waitHolding, local, wakeup,
                     prevLink, pc, arg>>
  PROVE  IInv'
<1> USE DEF local
<1>1. TypeOK'
  BY DEF IInv, StructInv, TypeOK, GslLockInit, Cell
<1>2. \A q \in Proc : /\ ~Blocking(q)' /\ ~Granted(q)' /\ pc'[q] = "idle" /\ holding'[q] = {}
                      /\ ~wakeup'[q] /\ ~awaited'[q]
  BY DEF Blocking, Granted, Grant, IInv, StructInv, CallInv
<1>3. ControlInv' /\ CallInv'
  BY <1>2 DEF ControlInv, CallInv, Critical, Walk, Grant
<1>4. ListInv'
  <2>1. \A c \in Cell : InQCell(c)' => c = Head
    BY <1>2 DEF InQCell, InQ
  <2>2. lockNext'[Head] = NULL
    BY DEF GslLockInit, IInv, StructInv, TypeOK, Cell
  <2> QED BY <1>2, <2>1, <2>2 DEF ListInv, Walk, Grant
<1>5. RankInv'
  <2> DEFINE r == [q \in Proc |-> 0]
  <2>1. r \in [Proc -> Nat] /\ Ranks(r)'
    BY <1>2 DEF Ranks, InQ
  <2> QED BY <2>1 DEF RankInv
<1>6. \A q \in Proc : Held(q)' = {} /\ Claim(q)' = {} /\ ~InQ(q)' /\ ~Waits(q)'
  BY <1>2 DEF Held, Claim, InQ, Waits
<1>7. CountInv'
  <2>1. /\ \A m \in Mode : {q \in Proc : m \in ClaimMap'[q]} = {}
        /\ \A m \in Mode : {q \in Proc : m \in WaitMap'[q]} = {}
    BY <1>6 DEF ClaimMap, WaitMap
  <2> QED BY <2>1, FS_EmptySet DEF CountInv, Counts, GslLockInit
<1>8. MutualExclusion'
  BY <1>6 DEF MutualExclusion
<1>9. WaitBitsExact'
  BY <1>6 DEF WaitBitsExact, GslLockInit
<1> QED BY <1>1, <1>3, <1>4, <1>5, <1>7, <1>8, <1>9 DEF IInv, StructInv

\* Every step of lock.c and proc.c leaves the lock's invariant intact.
LEMMA LockKept ==
  ASSUME PgIInv, [PgNext]_pgVars
  PROVE  IInv'
<1> USE DEF PgIInv
<1>1. CASE UNCHANGED pgVars
  BY <1>1, StutterStep DEF pgVars
<1>2. ASSUME NEW p \in Proc, NEW m \in Mode, NEW dontWait \in BOOLEAN,
             LockFind(p, m, dontWait) \/ LockRelease(p, m)
      PROVE  IInv'
  BY <1>2, StutterStep DEF LockFind, LockRelease
<1>3. ASSUME NEW p \in Proc,
             LockAcquired(p) \/ SleepAgain(p) \/ CleanUpSkip(p) \/ CleanUpPinned(p)
      PROVE  IInv'
  BY <1>3, StutterStep DEF LockAcquired, SleepAgain, CleanUpSkip, CleanUpPinned
<1>4. ASSUME NEW p \in Proc, LockCreate(p) PROVE IInv'
  <2>1. CASE exists
    BY <1>4, <2>1, StutterStep DEF LockCreate, lockWord, local, vars
  <2>2. CASE ~exists
    BY <1>4, <2>2, LockInitStep DEF LockCreate, EntryInv
  <2> QED BY <2>1, <2>2
<1>5. ASSUME NEW p \in Proc, CallAcquire(p) \/ CallRelease(p) PROVE IInv'
  <2>1. req[p].mode \in Mode
    BY <1>5 DEF CallAcquire, CallRelease, CallsInv
  <2> QED BY <1>5, <2>1, AcquireAtOnceStep, AcquireContendedStep, StutterStep, ReleaseStep
          DEF CallAcquire, CallRelease, AcquireRefused
<1>6. ASSUME NEW p \in Proc, ProcSleep(p) \/ ProcAwake(p) \/ CallReleased(p) PROVE IInv'
  BY <1>6, QuietStep DEF ProcSleep, ProcAwake, CallReleased, Quiet
<1>7. ASSUME NEW p \in Proc, ProcWakeup(p) PROVE IInv'
  BY <1>7, WakeUnlinkStep DEF ProcWakeup
<1>8. ASSUME NEW p \in Proc, Inside(p) PROVE IInv'
  BY <1>8, QuietStep, EnqueueStep, WakeGrantStep DEF Inside, Quiet, TakeQueueLock
<1>9. ASSUME NEW p \in Proc, CleanUpUnpin(p) PROVE IInv'
  <2>1. \A q \in Proc : pc[q] \notin Critical
    BY <1>9, CellAssumption DEF CleanUpUnpin, IInv, StructInv, ControlInv
  <2> QED BY <1>9, <2>1, MutexStep DEF CleanUpUnpin
<1>10. ASSUME NEW p \in Proc, CleanUpDelete(p) PROVE IInv'
  <2>1. queueLock = p /\ pc[p] = "idle"
    BY <1>10 DEF CleanUpDelete, CollectInv, CallsInv
  <2>2. \A q \in Proc : pc[q] \notin Critical
    BY <2>1 DEF IInv, StructInv, ControlInv, Critical, Walk, Grant
  <2> QED BY <1>10, <2>2, MutexStep DEF CleanUpDelete
<1> QED BY <1>1, <1>2, <1>3, <1>4, <1>5, <1>6, <1>7, <1>8, <1>9, <1>10 DEF PgNext

-----------------------------------------------------------------------------
(***************************************************************************)
(* The pins.                                                               *)
(***************************************************************************)
LEMMA PinUp ==
  ASSUME PinsExact, NEW p \in Proc, ~Pinned(p), Pinned(p)', pins' = pins + 1,
         \A q \in Proc : q # p => (Pinned(q)' <=> Pinned(q))
  PROVE  PinsExact' /\ pins' \in Nat
<1> DEFINE S == {q \in Proc : Pinned(q)}
           T == {q \in Proc : Pinned(q)'}
<1>1. T = S \cup {p} /\ p \notin S /\ IsFiniteSet(S)
  BY ProcAssumption, FS_Subset
<1>2. Cardinality(T) = Cardinality(S) + 1 /\ Cardinality(S) \in Nat
  BY <1>1, FS_AddElement, FS_CardinalityType
<1> QED BY <1>2 DEF PinsExact

LEMMA PinDown ==
  ASSUME PinsExact, NEW p \in Proc, Pinned(p), ~Pinned(p)', pins' = pins - 1,
         \A q \in Proc : q # p => (Pinned(q)' <=> Pinned(q))
  PROVE  /\ PinsExact' /\ pins' \in Nat
         /\ ~(pins' > 0) => \A q \in Proc : ~Pinned(q)'
<1> DEFINE S == {q \in Proc : Pinned(q)}
           T == {q \in Proc : Pinned(q)'}
<1>1. T = S \ {p} /\ p \in S /\ IsFiniteSet(S) /\ IsFiniteSet(T)
  BY ProcAssumption, FS_Subset
<1>2. Cardinality(T) = Cardinality(S) - 1 /\ Cardinality(T) \in Nat
  BY <1>1, FS_RemoveElement, FS_CardinalityType
<1>3. Cardinality(T) = 0 => T = {}
  BY <1>1, FS_EmptySet
<1>4. pins' = Cardinality(T)
  BY <1>2 DEF PinsExact
<1>5. PinsExact' /\ pins' \in Nat
  BY <1>2, <1>4 DEF PinsExact
<1>6. ASSUME ~(pins' > 0) PROVE T = {}
  <2>1. \A n \in Nat : ~(n > 0) => n = 0
    OBVIOUS
  <2>2. pins' \in Nat
    BY <1>5
  <2>3. pins' = 0
    BY <2>1, <2>2, <1>6
  <2> QED BY <1>3, <1>4, <2>3
<1>7. ~(pins' > 0) => \A q \in Proc : ~Pinned(q)'
  BY <1>6
<1> QED BY <1>5, <1>7

LEMMA PinSame ==
  ASSUME PinsExact, UNCHANGED pins, \A q \in Proc : Pinned(q)' <=> Pinned(q)
  PROVE  PinsExact'
<1>1. {q \in Proc : Pinned(q)} = {q \in Proc : Pinned(q)'}
  OBVIOUS
<1> QED BY <1>1 DEF PinsExact

-----------------------------------------------------------------------------
(***************************************************************************)
(* What the table's part of the invariant says of each step.               *)
(***************************************************************************)
TableInv == TableTypes /\ CallsInv /\ EntryInv /\ CollectInv /\ PinsExact

\* A mode that somebody is counted for has a count; a wait bit is somebody's.
LEMMA Counted ==
  ASSUME IInv, ~AnyHolding, NEW q \in Proc
  PROVE  Claim(q) = {} /\ ~Waits(q)
<1>1. ASSUME NEW m \in Mode PROVE m \notin Claim(q)
  <2> DEFINE S == {r \in Proc : m \in ClaimMap[r]}
  <2>1. IsFiniteSet(S) /\ active[m] = Cardinality(S)
    BY ProcAssumption, FS_Subset DEF IInv, CountInv, Counts
  <2>2. S = {}
    BY <2>1, FS_EmptySet DEF AnyHolding
  <2> QED BY <2>2 DEF ClaimMap
<1>2. Claim(q) \subseteq Mode
  BY DEF Claim, Held, IInv, StructInv, TypeOK
<1>3. ~Waits(q)
  BY DEF IInv, StructInv, CallInv, WaitBitsExact, AnyHolding, Waits
<1> QED BY <1>1, <1>2, <1>3

\* LockFind, LockRelease: the calls of lock.c begin.
LEMMA BeginStep ==
  ASSUME PgIInv, NEW p \in Proc, NEW m \in Mode, NEW dontWait \in BOOLEAN,
         LockFind(p, m, dontWait) \/ LockRelease(p, m)
  PROVE  TableInv'
<1> USE DEF PgIInv, IInv, StructInv
<1>1. /\ lpc[p] = "out" /\ pc[p] = "idle" /\ UNCHANGED <<vars, exists>>
      /\ \/ queueLock = NULL /\ ~exists /\ pins' = pins /\ lpc' = [lpc EXCEPT ![p] = "create"]
         \/ queueLock = NULL /\ exists /\ pins' = pins + 1 /\ lpc' = [lpc EXCEPT ![p] = "acquire"]
         \/ m \in holding[p] /\ pins' = pins + 1 /\ lpc' = [lpc EXCEPT ![p] = "release"]
  BY DEF LockFind, LockRelease, Goto, Callable, Releasable
<1>2. /\ req' \in [Proc -> [mode : Mode \cup {NULL}, dontWait : BOOLEAN]]
      /\ req'[p].mode = m /\ \A q \in Proc : q # p => req'[q] = req[q]
  BY DEF LockFind, LockRelease, TableTypes
<1>3. PinsExact' /\ pins' \in Nat
  <2>1. CASE lpc'[p] = "create"
    <3>1. UNCHANGED pins /\ \A q \in Proc : Pinned(q)' <=> Pinned(q)
      BY <1>1, <2>1 DEF Pinned, vars, TableTypes
    <3> QED BY <3>1, PinSame DEF TableTypes
  <2>2. CASE lpc'[p] # "create"
    <3>1. /\ ~Pinned(p) /\ Pinned(p)' /\ pins' = pins + 1
          /\ \A q \in Proc : q # p => (Pinned(q)' <=> Pinned(q))
      BY <1>1, <2>2 DEF Pinned, vars, TableTypes
    <3> QED BY <3>1, PinUp
  <2> QED BY <2>1, <2>2
<1>4. TableTypes'
  BY <1>1, <1>2, <1>3 DEF TableTypes, Places
<1>5. CallsInv'
  BY <1>1, <1>2 DEF CallsInv, TableTypes, vars
<1>6. EntryInv'
  BY <1>1 DEF EntryInv, TableTypes, vars
<1>7. CollectInv'
  BY <1>1, CellAssumption DEF CollectInv, TableTypes, vars
<1> QED BY <1>3, <1>4, <1>5, <1>6, <1>7 DEF TableInv

\* LockAcquired, CleanUpSkip, CleanUpPinned: the calls of lock.c end.
LEMMA EndStep ==
  ASSUME PgIInv, NEW p \in Proc, LockAcquired(p) \/ CleanUpSkip(p) \/ CleanUpPinned(p)
  PROVE  TableInv'
<1> USE DEF PgIInv, IInv, StructInv
<1>1. /\ lpc[p] \in {"acquired", "cleanup", "lastHold"} /\ pc[p] = "idle"
      /\ UNCHANGED <<vars, exists>> /\ pins' = pins - 1
      /\ lpc' = [lpc EXCEPT ![p] = "out"] /\ req' = [req EXCEPT ![p] = NoRequest]
  BY DEF LockAcquired, CleanUpSkip, CleanUpPinned, Leave, Goto, CallsInv
<1>2. PinsExact' /\ pins' \in Nat
  <2>1. /\ Pinned(p) /\ ~Pinned(p)'
        /\ \A q \in Proc : q # p => (Pinned(q)' <=> Pinned(q))
    BY <1>1 DEF Pinned, vars, TableTypes
  <2> QED BY <1>1, <2>1, PinDown
<1>3. TableTypes'
  BY <1>1, <1>2 DEF TableTypes, Places, NoRequest
<1>4. CallsInv'
  BY <1>1 DEF CallsInv, TableTypes, vars
<1>5. EntryInv' /\ CollectInv'
  BY <1>1 DEF EntryInv, CollectInv, TableTypes, vars
<1> QED BY <1>2, <1>3, <1>4, <1>5 DEF TableInv

\* LockCreate: the entry is there now, and pinned.
LEMMA CreateStep ==
  ASSUME PgIInv, NEW p \in Proc, LockCreate(p)
  PROVE  TableInv'
<1> USE DEF PgIInv, IInv, StructInv
<1>1. /\ lpc[p] = "create" /\ pc[p] = "idle" /\ queueLock = NULL /\ exists' = TRUE
      /\ lpc' = [lpc EXCEPT ![p] = "acquire"] /\ pins' = pins + 1
      /\ UNCHANGED <<req, queueLock, holding, pc>>
  BY DEF LockCreate, Goto, CallsInv, local
<1>2. PinsExact' /\ pins' \in Nat
  <2>1. /\ ~Pinned(p) /\ Pinned(p)'
        /\ \A q \in Proc : q # p => (Pinned(q)' <=> Pinned(q))
    BY <1>1 DEF Pinned, TableTypes
  <2> QED BY <1>1, <2>1, PinUp
<1>3. TableTypes'
  BY <1>1, <1>2 DEF TableTypes, Places
<1>4. CallsInv'
  BY <1>1 DEF CallsInv, TableTypes
<1>5. EntryInv' /\ CollectInv'
  BY <1>1, CellAssumption DEF EntryInv, CollectInv, TableTypes
<1> QED BY <1>2, <1>3, <1>4, <1>5 DEF TableInv

\* CallAcquire, CallRelease: gslAcquire and gslRelease up to their return or
\* to their slow path.
LEMMA CallStep ==
  ASSUME PgIInv, NEW p \in Proc, CallAcquire(p) \/ CallRelease(p)
  PROVE  TableInv'
<1> USE DEF PgIInv, IInv, StructInv
<1> DEFINE m == req[p].mode
<1>1. /\ m \in Mode /\ pc[p] = "idle" /\ UNCHANGED <<exists, pins, req, queueLock, waiting>>
      /\ \/ /\ lpc[p] = "acquire"
            /\ \/ /\ lpc' = [lpc EXCEPT ![p] = "acquired"] /\ pc' = pc
                  /\ holding' = [holding EXCEPT ![p] = @ \cup {m}] \/ holding' = holding
               \/ /\ UNCHANGED <<lpc, holding>> /\ pc' = [pc EXCEPT ![p] = "contend"]
         \/ /\ lpc[p] = "release" /\ holding' = [holding EXCEPT ![p] = @ \ {m}]
            /\ \/ /\ lpc' \in {[lpc EXCEPT ![p] = "cleanup"], [lpc EXCEPT ![p] = "lastHold"]}
                  /\ pc' = pc
               \/ /\ WaitConflict(m) /\ lpc' = lpc /\ pc' = [pc EXCEPT ![p] = "release"]
  BY DEF CallAcquire, CallRelease, AcquireAtOnce, AcquireRefused, AcquireContended,
     ReleaseFast, ReleaseContended, Callable, Releasable, Goto, CallsInv, local, vars
<1>2. PinsExact'
  <2>1. \A q \in Proc : Pinned(q)' <=> Pinned(q)
    BY <1>1 DEF Pinned, TableTypes, TypeOK
  <2> QED BY <1>1, <2>1, PinSame
<1>3. TableTypes'
  BY <1>1 DEF TableTypes, Places
<1>4. CallsInv'
  BY <1>1 DEF CallsInv, TableTypes, TypeOK
<1>5. EntryInv'
  BY <1>1 DEF EntryInv, TableTypes, TypeOK
<1>6. CollectInv'
  <2>1. ASSUME NEW c \in Proc, lpc'[c] = "collect" PROVE lpc[c] = "collect" /\ lpc[p] = "release"
    BY <1>1, <2>1 DEF CollectInv, TableTypes
  <2>2. WaitConflict(m) => \E n \in Mode : waiting[n]
    BY <1>1, ConflictsAssumption DEF WaitConflict
  <2> QED BY <1>1, <2>1, <2>2 DEF CollectInv, TableTypes, TypeOK
<1> QED BY <1>2, <1>3, <1>4, <1>5, <1>6 DEF TableInv

\* ProcSleep, ProcAwake: the pin is given up and taken back.
LEMMA SleepStep ==
  ASSUME PgIInv, NEW p \in Proc, ProcSleep(p) \/ ProcAwake(p)
  PROVE  TableInv'
<1> USE DEF PgIInv, IInv, StructInv
<1>1. CASE ProcSleep(p)
  <2>1. /\ pc[p] = "acqWalk" /\ queueLock = p /\ pc' = [pc EXCEPT ![p] = "asleep"]
        /\ queueLock' = NULL /\ pins' = pins - 1 /\ UNCHANGED <<exists, lpc, req, holding, waiting>>
    BY <1>1 DEF ProcSleep, AcquireSleep, ControlInv, Critical, Walk, lockWord
  <2>2. lpc[p] = "acquire"
    BY <2>1 DEF CallsInv
  <2>3. PinsExact' /\ pins' \in Nat
    <3>1. /\ Pinned(p) /\ ~Pinned(p)'
          /\ \A q \in Proc : q # p => (Pinned(q)' <=> Pinned(q))
      BY <2>1, <2>2 DEF Pinned, TypeOK
    <3> QED BY <2>1, <3>1, PinDown
  <2>4. TableTypes' /\ CallsInv'
    BY <2>1, <2>2, <2>3 DEF TableTypes, CallsInv, TypeOK
  <2>5. EntryInv' /\ CollectInv'
    BY <2>1, <2>2 DEF EntryInv, CollectInv, TypeOK
  <2> QED BY <2>3, <2>4, <2>5 DEF TableInv
<1>2. CASE ProcAwake(p)
  <2>1. /\ pc[p] = "asleep" /\ pc' = [pc EXCEPT ![p] = "idle"]
        /\ holding' = [holding EXCEPT ![p] = @ \cup {arg[p]}]
        /\ lpc' = [lpc EXCEPT ![p] = "acquired"]
        /\ pins' = pins + 1 /\ UNCHANGED <<exists, req, queueLock, waiting>>
    BY <1>2 DEF ProcAwake, AcquireReturn, Goto, lockWord
  <2>2. lpc[p] = "acquire"
    BY <2>1 DEF CallsInv
  <2>3. PinsExact' /\ pins' \in Nat
    <3>1. /\ ~Pinned(p) /\ Pinned(p)'
          /\ \A q \in Proc : q # p => (Pinned(q)' <=> Pinned(q))
      BY <2>1, <2>2 DEF Pinned, TypeOK, TableTypes
    <3> QED BY <2>1, <3>1, PinUp
  <2>4. TableTypes' /\ CallsInv'
    BY <2>1, <2>2, <2>3 DEF TableTypes, CallsInv, TypeOK, Places
  <2>5. EntryInv' /\ CollectInv'
    BY <2>1, <2>2 DEF EntryInv, CollectInv, TypeOK, TableTypes
  <2> QED BY <2>3, <2>4, <2>5 DEF TableInv
<1> QED BY <1>1, <1>2

\* The steps inside gslAcquire, gslRelease and wake need queueLock: no entry is
\* being collected.
LEMMA InsideStep ==
  ASSUME PgIInv, NEW p \in Proc, Inside(p) \/ ProcWakeup(p)
  PROVE  TableInv'
<1> USE DEF PgIInv, IInv, StructInv
<1> DEFINE acq == {"contend", "enqueue", "acqWake", "acqWalk", "acqGrant"}
           rel == {"release", "relWake", "relWalk", "relGrant"}
<1>1. /\ queueLock \in {p, NULL} /\ UNCHANGED <<exists, pins, lpc, req, holding>>
      /\ \E l \in Label : /\ pc' = [pc EXCEPT ![p] = l]
                          /\ \/ pc[p] \in acq /\ l \in acq
                             \/ pc[p] \in rel /\ l \in rel
  <2>1. CASE TakeQueueLock(p) /\ UNCHANGED table
    BY <2>1 DEF TakeQueueLock, AcquireQueueLock, ReleaseQueueLock, table, local, Label
  <2>2. CASE Enqueue(p) /\ UNCHANGED table
    BY <2>2 DEF Enqueue, table, local, ControlInv, Critical, Label
  <2>3. CASE (WakeBegin(p) \/ WakeGrant(p) \/ WakeUnlink(p) \/ WakeSkip(p)) /\ UNCHANGED table
    <3>1. /\ UNCHANGED <<exists, pins, lpc, req, holding>>
          /\ pc[p] \in {"acqWake", "relWake", "acqWalk", "relWalk", "acqGrant", "relGrant"}
          /\ \/ pc' = [pc EXCEPT ![p] = ToWalk(pc[p])] /\ pc[p] \notin Walk
             \/ pc' = [pc EXCEPT ![p] = ToGrant(pc[p])] /\ pc[p] \in Walk
             \/ pc' = pc
      <4>1. CASE WakeBegin(p) \/ WakeUnlink(p)
        BY <2>3, <4>1 DEF WakeBegin, WakeUnlink, table, local, Walk, Grant, ToWalk, ToGrant, TypeOK
      <4>2. CASE WakeGrant(p)
        BY <2>3, <4>2 DEF WakeGrant, table, local, Walk, ToWalk, ToGrant, TypeOK
      <4>3. CASE WakeSkip(p)
        BY <2>3, <4>3 DEF WakeSkip, table, local, Walk, ToWalk, ToGrant, TypeOK
      <4> QED BY <2>3, <4>1, <4>2, <4>3
    <3>2. pc = [pc EXCEPT ![p] = pc[p]] /\ queueLock = p
      BY <3>1 DEF TypeOK, ControlInv, Critical, Walk, Grant
    <3> QED BY <3>1, <3>2 DEF Walk, ToWalk, ToGrant, Label
  <2> QED BY <2>1, <2>2, <2>3 DEF Inside, ProcWakeup, table
<1>2. PICK l \in Label : /\ pc' = [pc EXCEPT ![p] = l]
                         /\ \/ pc[p] \in acq /\ l \in acq
                            \/ pc[p] \in rel /\ l \in rel
  BY <1>1
<1>3. PinsExact'
  <2>1. \A q \in Proc : Pinned(q)' <=> Pinned(q)
    BY <1>1, <1>2 DEF Pinned, TypeOK
  <2> QED BY <1>1, <2>1, PinSame
<1>4. TableTypes' /\ CallsInv' /\ EntryInv'
  BY <1>1, <1>2 DEF TableTypes, CallsInv, EntryInv, TypeOK
<1>5. CollectInv'
  BY <1>1, <1>2, CellAssumption DEF CollectInv, CallsInv, TypeOK
<1> QED BY <1>3, <1>4, <1>5 DEF TableInv

\* gslRelease returns from its wake.
LEMMA ReleasedStep ==
  ASSUME PgIInv, NEW p \in Proc, CallReleased(p)
  PROVE  TableInv'
<1> USE DEF PgIInv, IInv, StructInv
<1>1. /\ pc[p] = "relWalk" /\ queueLock = p /\ pc' = [pc EXCEPT ![p] = "idle"]
      /\ lpc' = [lpc EXCEPT ![p] = "cleanup"]
      /\ UNCHANGED <<exists, pins, req, holding, waiting>>
  BY DEF CallReleased, ReleaseReturn, Goto, ControlInv, Critical, Walk, lockWord, local
<1>2. lpc[p] = "release"
  BY <1>1 DEF CallsInv
<1>3. PinsExact'
  <2>1. \A q \in Proc : Pinned(q)' <=> Pinned(q)
    BY <1>1, <1>2 DEF Pinned, TypeOK, TableTypes
  <2> QED BY <1>1, <2>1, PinSame
<1>4. TableTypes' /\ CallsInv' /\ EntryInv'
  BY <1>1, <1>2 DEF TableTypes, CallsInv, EntryInv, TypeOK, Places
<1>5. CollectInv'
  BY <1>1, <1>2 DEF CollectInv, CallsInv, TypeOK, TableTypes
<1> QED BY <1>3, <1>4, <1>5 DEF TableInv

\* CleanUpUnpin: the last pin is gone, so the acquirers that are left sleep.
LEMMA UnpinStep ==
  ASSUME PgIInv, NEW p \in Proc, CleanUpUnpin(p)
  PROVE  TableInv'
<1> USE DEF PgIInv, IInv, StructInv
<1>1. /\ lpc[p] = "lastHold" /\ pc[p] = "idle" /\ queueLock = NULL /\ queueLock' = p
      /\ lpc' = [lpc EXCEPT ![p] = "collect"] /\ pins' = pins - 1 /\ ~(pins' > 0)
      /\ UNCHANGED <<exists, req, holding, pc, waiting>>
  BY DEF CleanUpUnpin, Goto, CallsInv, lockWord, local
<1>2. PinsExact' /\ pins' \in Nat /\ \A q \in Proc : ~Pinned(q)'
  <2>1. /\ Pinned(p) /\ ~Pinned(p)'
        /\ \A q \in Proc : q # p => (Pinned(q)' <=> Pinned(q))
    BY <1>1 DEF Pinned, TableTypes
  <2> QED BY <1>1, <2>1, PinDown
<1>3. TableTypes' /\ CallsInv' /\ EntryInv'
  BY <1>1, <1>2 DEF TableTypes, CallsInv, EntryInv, Places
<1>4. CollectInv'
  <2>1. \A c \in Proc : lpc'[c] = "collect" => c = p
    BY <1>1, CellAssumption DEF CollectInv, TableTypes
  <2>2. \A q \in Proc : /\ lpc'[q] = "acquire" => pc'[q] = "asleep"
                        /\ lpc'[q] # "acquired"
                        /\ pc'[q] # "release"
    BY <1>1, <1>2, <1>3 DEF Pinned, CallsInv
  <2> QED BY <1>1, <2>1, <2>2 DEF CollectInv
<1> QED BY <1>2, <1>3, <1>4 DEF TableInv

\* CleanUpDelete: with the lock word zero nobody holds the lock or waits.
LEMMA DeleteStep ==
  ASSUME PgIInv, NEW p \in Proc, CleanUpDelete(p)
  PROVE  TableInv'
<1> USE DEF PgIInv, IInv, StructInv
<1>1. /\ lpc[p] = "collect" /\ pc[p] = "idle" /\ queueLock = p /\ queueLock' = NULL
      /\ lpc' = [lpc EXCEPT ![p] = "out"] /\ req' = [req EXCEPT ![p] = NoRequest]
      /\ \/ UNCHANGED exists
         \/ ~AnyHolding /\ exists' = FALSE
      /\ UNCHANGED <<pins, holding, pc, waiting>>
  BY DEF CleanUpDelete, Leave, Goto, CallsInv, CollectInv, lockWord, local
<1>2. PinsExact'
  <2>1. \A q \in Proc : Pinned(q)' <=> Pinned(q)
    BY <1>1 DEF Pinned, TableTypes
  <2> QED BY <1>1, <2>1, PinSame
<1>3. TableTypes'
  BY <1>1 DEF TableTypes, Places, NoRequest
<1>4. CallsInv'
  BY <1>1 DEF CallsInv, TableTypes
<1>5. EntryInv'
  <2>1. CASE UNCHANGED exists
    BY <1>1, <2>1 DEF EntryInv, TableTypes
  <2>2. ASSUME ~AnyHolding, NEW q \in Proc
        PROVE  pc[q] = "idle" /\ holding[q] = {} /\ lpc[q] \notin {"acquire", "acquired", "release"}
    <3>1. Claim(q) = {} /\ ~Waits(q)
      BY <2>2, Counted
    <3>2. holding[q] = {} /\ ~Granted(q)
      <4>1. holding[q] = {} /\ (wantMode[q] \in Mode => ~Granted(q))
        BY <3>1 DEF Claim, Held
      <4>2. Granted(q) => wantMode[q] \in Mode
        BY GrantedBlocks DEF CallInv
      <4> QED BY <4>1, <4>2
    <3>3. pc[q] # "asleep" /\ pc[q] # "release"
      BY <1>1, <2>2, <3>1, <3>2 DEF Waits, Blocking, CollectInv, AnyHolding
    <3>4. pc[q] \notin Critical
      BY <1>1 DEF ControlInv, Critical, Walk, Grant
    <3> QED BY <1>1, <3>2, <3>3, <3>4 DEF CollectInv, CallsInv, TableTypes, TypeOK, Critical, Walk, Grant
  <2> QED BY <1>1, <2>1, <2>2 DEF EntryInv, TableTypes
<1>6. CollectInv'
  BY <1>1 DEF CollectInv, TableTypes
<1> QED BY <1>2, <1>3, <1>4, <1>5, <1>6 DEF TableInv

-----------------------------------------------------------------------------
(***************************************************************************)
(* The theorems.                                                           *)
(***************************************************************************)
LEMMA PgIInvInit == PgInit => PgIInv
<1> SUFFICES ASSUME PgInit PROVE PgIInv
  OBVIOUS
<1>1. IInv /\ \A p \in Proc : pc[p] = "idle" /\ holding[p] = {} /\ lpc[p] = "out"
  BY IInvInit DEF PgInit, Init
<1>2. TableTypes
  BY DEF PgInit, TableTypes, NoRequest, Places
<1>3. CallsInv /\ EntryInv /\ CollectInv
  BY <1>1 DEF CallsInv, EntryInv, CollectInv
<1>4. PinsExact
  <2>1. {p \in Proc : Pinned(p)} = {}
    BY <1>1 DEF Pinned
  <2> QED BY <2>1, FS_EmptySet DEF PgInit, PinsExact
<1> QED BY <1>1, <1>2, <1>3, <1>4 DEF PgIInv

LEMMA PgIInvNext == PgIInv /\ [PgNext]_pgVars => PgIInv'
<1> SUFFICES ASSUME PgIInv, [PgNext]_pgVars PROVE TableInv'
  BY LockKept DEF PgIInv, TableInv
<1>1. ASSUME UNCHANGED <<vars, table>> PROVE TableInv'
  <2>1. UNCHANGED <<exists, pins, lpc, req, pc, holding, queueLock, waiting>>
    BY <1>1 DEF vars, table
  <2>2. PinsExact'
    BY <2>1, PinSame DEF Pinned, PgIInv
  <2> QED BY <2>1, <2>2 DEF PgIInv, TableInv, TableTypes, CallsInv, EntryInv, CollectInv
<1>2. CASE UNCHANGED pgVars
  BY <1>1, <1>2 DEF pgVars, table
<1>3. ASSUME NEW p \in Proc, SleepAgain(p) PROVE TableInv'
  BY <1>1, <1>3 DEF SleepAgain
<1> QED BY <1>2, <1>3, BeginStep, EndStep, CreateStep, CallStep, SleepStep, InsideStep,
           ReleasedStep, UnpinStep, DeleteStep DEF PgNext

\* Every state of the lock table's entry satisfies the inductive invariant, and
\* with it everything GSLLockProofs says of the lock in any one state.
THEOREM PgInvariance == PgSpec => []PgIInv
<1>1. PgInit => PgIInv
  BY PgIInvInit
<1>2. PgIInv /\ [PgNext]_pgVars => PgIInv'
  BY PgIInvNext
<1> QED BY <1>1, <1>2, PTL DEF PgSpec

\* LOCK.pins counts exactly the processes that have a pin, on every path
\* through LockAcquire, ProcSleep, LockRelease and CleanUpLock.
THEOREM PinsCorrect == PgSpec => []PinsExact
<1>1. PgIInv => PinsExact
  BY DEF PgIInv
<1> QED BY <1>1, PgInvariance, PTL

\* CleanUpLock never deletes the entry under a process that holds the lock or
\* is inside LockAcquire, asleep without a pin included.
THEOREM EntryKept == PgSpec => []HoldersKeepEntry
<1>1. PgIInv => HoldersKeepEntry
  BY DEF PgIInv, EntryInv, HoldersKeepEntry
<1> QED BY <1>1, PgInvariance, PTL

\* Deleting, re-creating and re-initialising entries never lets two backends
\* own conflicting modes.
THEOREM PgExclusion == PgSpec => []MutualExclusion
<1>1. PgIInv => MutualExclusion
  BY DEF PgIInv, IInv
<1> QED BY <1>1, PgInvariance, PTL
=============================================================================
