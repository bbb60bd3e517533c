--------------------------- MODULE GSLLockRefines ---------------------------
(***************************************************************************)
(* The lock of gsl-impl.h implements ModeLock, for any number of           *)
(* processes, any symmetric conflict table and any nesting of upgrades.    *)
(* The refinement mapping reads `held' off the holders' records and the    *)
(* grants under way, and `pending' off the requests not granted yet.       *)
(***************************************************************************)
EXTENDS GSLLockProofs

\* The mapped variables are the two maps of the effect lemmas.
LEMMA MappedInit == Init => Abs!Init
<1> SUFFICES ASSUME Init PROVE Abs!Init
  OBVIOUS
<1>1. \A q \in Proc : Held(q) = {} /\ ~Waits(q)
  BY DEF Init, Held, Granted, Waits, Blocking, Grant
<1> QED BY <1>1 DEF Abs!Init

\* A step that leaves both maps alone is invisible.
LEMMA Invisible ==
  ASSUME Same(HeldMap, HeldMap'), Same(PendMap, PendMap')
  PROVE  UNCHANGED Abs!absVars
BY DEF Same, HeldMap, PendMap, Abs!absVars

\* The fast path of gslAcquire is an abstract Acquire.
LEMMA AcquireRefines ==
  ASSUME IInv, NEW p \in Proc, NEW m \in Mode, AcquireAtOnce(p, m)
  PROVE  Abs!Acquire(p, m)
<1> USE DEF IInv
<1>1. /\ m \notin ClaimMap[p] /\ Adds(HeldMap, HeldMap', p, m)
      /\ Same(PendMap, PendMap')
  BY AcquireAtOnceMaps
<1>2. PendMap[p] = {} /\ HeldMap[p] = holding[p] /\ m \notin HeldMap[p]
  <2>1. ~Blocking(p) /\ ~Granted(p)
    BY GrantedBlocks DEF AcquireAtOnce, Callable, Blocking
  <2> QED BY <1>1, <2>1 DEF PendMap, Waits, HeldMap, Held, ClaimMap, Claim
<1>3. \A q \in Proc : q # p => HeldMap[q] \cap Conflicts[m] = {}
  <2>1. ~ActiveConflict(m, holding[p]) /\ holding[p] \subseteq ClaimMap[p]
    BY DEF AcquireAtOnce, MustWait, ClaimMap, Claim, Held
  <2> QED BY <2>1, NobodyElse
<1>4. HeldMap[p] = {} => \A q \in Proc : PendMap[q] \cap Conflicts[m] = {}
  <2> SUFFICES ASSUME holding[p] = {}, NEW q \in Proc, NEW n \in PendMap[q]
               PROVE  n \notin Conflicts[m]
    BY <1>2
  <2>1. n \in Mode /\ waiting[n]
    BY BitsExact DEF Bits, PendMap
  <2> QED BY <2>1 DEF AcquireAtOnce, MustWait, WaitConflict
<1>5. /\ HeldMap' = [HeldMap EXCEPT ![p] = HeldMap[p] \cup {m}]
      /\ PendMap' = PendMap
  BY <1>1 DEF HeldMap, PendMap, Adds, Same
<1> QED BY <1>2, <1>3, <1>4, <1>5 DEF Abs!Acquire, Abs!Free, Abs!Unwanted,
    HeldMap, PendMap

\* Joining the queue is an abstract Request.
LEMMA EnqueueRefines ==
  ASSUME IInv, NEW p \in Proc, Enqueue(p)
  PROVE  \E m \in Mode : Abs!Request(p, m)
<1> USE DEF IInv
<1>1. PICK m : m = arg[p]
  OBVIOUS
<1>2. m \in Mode /\ Same(HeldMap, HeldMap') /\ Adds(PendMap, PendMap', p, m)
  BY <1>1, EnqueueMaps
<1>3. PendMap[p] = {} /\ m \notin HeldMap[p]
  <2>1. pc[p] = "enqueue" /\ ~Blocking(p) /\ ~Granted(p) /\ m \notin holding[p]
    BY <1>1, GrantedBlocks DEF Enqueue, Blocking, StructInv, CallInv
  <2> QED BY <2>1 DEF PendMap, Waits, HeldMap, Held
<1>4. HeldMap' = HeldMap /\ PendMap' = [PendMap EXCEPT ![p] = {m}]
  BY <1>2, <1>3 DEF HeldMap, PendMap, Adds, Same
<1>5. Abs!Request(p, m)
  BY <1>2, <1>3, <1>4 DEF Abs!Request, HeldMap, PendMap
<1> QED BY <1>2, <1>5

\* wake's compare-and-swap is an abstract Grant, to the candidate.
LEMMA GrantRefines ==
  ASSUME IInv, NEW p \in Proc, WakeGrant(p)
  PROVE  \E q \in Proc, m \in Mode : Abs!Grant(q, m)
<1> USE DEF IInv
<1>1. PICK q, m : q = Candidate /\ m = wantMode[q]
  OBVIOUS
<1>2. /\ q \in Proc /\ m \in Mode /\ m \in WaitMap[q] /\ PendMap = WaitMap
      /\ Adds(HeldMap, HeldMap', q, m) /\ Drops(PendMap, PendMap', q, m)
  BY <1>1, WakeGrantMaps
<1>3. PendMap[q] = {m}
  BY <1>1, <1>2 DEF PendMap
<1>4. \A r \in Proc : r # q => HeldMap[r] \cap Conflicts[m] = {}
  <2>1. ~ActiveConflict(m, holding[q])
    BY <1>1, CandidateQueued DEF WakeGrant, Blocked
  <2>2. holding[q] \subseteq ClaimMap[q]
    BY <1>2 DEF ClaimMap, Claim, Held
  <2> QED BY <1>2, <2>1, <2>2, NobodyElse
<1>5. /\ HeldMap' = [HeldMap EXCEPT ![q] = HeldMap[q] \cup {m}]
      /\ PendMap' = [PendMap EXCEPT ![q] = {}]
  BY <1>2, <1>3 DEF HeldMap, PendMap, Adds, Drops
<1>6. Abs!Grant(q, m)
  BY <1>2, <1>3, <1>4, <1>5 DEF Abs!Grant, Abs!Free, HeldMap, PendMap
<1> QED BY <1>2, <1>6

\* gslRelease is an abstract Release on either path.
LEMMA ReleaseRefines ==
  ASSUME IInv, NEW p \in Proc, NEW m \in Mode,
         ReleaseFast(p, m) \/ ReleaseContended(p, m)
  PROVE  Abs!Release(p, m)
<1> USE DEF IInv
<1>1. Drops(HeldMap, HeldMap', p, m) /\ Same(PendMap, PendMap')
  BY ReleaseMaps
<1>2. PendMap[p] = {} /\ m \in HeldMap[p]
  BY DEF ReleaseFast, ReleaseContended, Releasable, PendMap, Waits, Blocking,
     HeldMap, Held
<1>3. /\ HeldMap' = [HeldMap EXCEPT ![p] = HeldMap[p] \ {m}]
      /\ PendMap' = PendMap
  BY <1>1 DEF HeldMap, PendMap, Drops, Same
<1> QED BY <1>2, <1>3 DEF Abs!Release, HeldMap, PendMap

\* Every step of the lock maps to an abstract step or to none.
LEMMA MappedNext == IInv /\ [Next]_vars => [Abs!Next]_(Abs!absVars)
<1> SUFFICES ASSUME IInv, [Next]_vars
             PROVE  Abs!Next \/ UNCHANGED Abs!absVars
  OBVIOUS
<1>0. StructInv
  BY DEF IInv
<1>1. CASE UNCHANGED vars
  <2>1. \A q \in Proc : Granted(q)' = Granted(q) /\ Blocking(q)' = Blocking(q)
    BY <1>1 DEF vars, Granted, Blocking, Candidate
  <2>2. Same(HeldMap, HeldMap') /\ Same(PendMap, PendMap')
    BY <1>1, <2>1 DEF vars, Same, HeldMap, Held, PendMap, Waits
  <2> QED BY <2>2, Invisible
<1>2. ASSUME NEW p \in Proc, NEW m \in Mode, AcquireAtOnce(p, m)
      PROVE  Abs!Next
  BY <1>2, AcquireRefines DEF Abs!Next
<1>3. ASSUME NEW p \in Proc, NEW m \in Mode, AcquireContended(p, m)
      PROVE  UNCHANGED Abs!absVars
  BY <1>0, <1>3, AcquireContendedMaps, Invisible
<1>4. ASSUME NEW p \in Proc, NEW m \in Mode,
             ReleaseFast(p, m) \/ ReleaseContended(p, m)
      PROVE  Abs!Next
  BY <1>4, ReleaseRefines DEF Abs!Next
<1>5. ASSUME NEW p \in Proc, Enqueue(p)
      PROVE  Abs!Next
  BY <1>5, EnqueueRefines DEF Abs!Next
<1>6. ASSUME NEW p \in Proc, WakeGrant(p)
      PROVE  Abs!Next
  BY <1>6, GrantRefines DEF Abs!Next
<1>7. ASSUME NEW p \in Proc, WakeUnlink(p)
      PROVE  UNCHANGED Abs!absVars
  BY <1>0, <1>7, WakeUnlinkMaps, Invisible
<1>8. ASSUME NEW p \in Proc, Quiet(p)
      PROVE  UNCHANGED Abs!absVars
  BY <1>0, <1>8, QuietMaps, Invisible
<1>9. CASE Next
  <2>1. PICK p \in Proc : Call(p) \/ Return(p) \/ TakeQueueLock(p) \/ Continue(p)
    BY <1>9 DEF Next
  <2>2. CASE Call(p)
    BY <1>1, <1>2, <1>3, <2>2 DEF Call, AcquireRefused
  <2>3. CASE Return(p)
    BY <1>4, <2>3 DEF Return
  <2>4. CASE TakeQueueLock(p)
    BY <1>8, <2>4 DEF TakeQueueLock, Quiet
  <2>5. CASE Continue(p)
    BY <1>5, <1>6, <1>7, <1>8, <2>5 DEF Continue, Quiet
  <2> QED BY <2>1, <2>2, <2>3, <2>4, <2>5
<1> QED BY <1>1, <1>9

\* gslAcquire, gslRelease and wake together behave as the abstract lock: each
\* grant is compatible with all that the others own at that moment, and a
\* process that holds nothing never gets past a waiting request.
THEOREM Refinement == Spec => ImplementsModeLock
<1>1. Init => Abs!Init
  BY MappedInit
<1>2. IInv /\ [Next]_vars => [Abs!Next]_(Abs!absVars)
  BY MappedNext
<1> QED BY <1>1, <1>2, Invariance, PTL DEF Spec, ImplementsModeLock, Abs!Spec
=============================================================================
