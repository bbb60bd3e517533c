---------------------------- MODULE GSLLockProofs ----------------------------
(***************************************************************************)
(* Proofs about GSLLock, for any number of processes, any symmetric        *)
(* conflict table and any nesting of upgrades: the lock word is exact,     *)
(* conflicting modes are never owned together, the wait bits are exact,    *)
(* and the lock implements ModeLock.                                       *)
(***************************************************************************)
EXTENDS GSLLock, FiniteSetTheorems, TLAPS

(***************************************************************************)
(* The inductive invariant.                                                *)
(***************************************************************************)
\* The control points that hold queueLock.
Critical == {"enqueue", "acqWake", "relWake"} \cup Walk \cup Grant

\* p is on the queue as far as wake is concerned: queued and not yet woken.
InQ(p) == Blocking(p) /\ ~wakeup[p]

\* A cell wake may stand on.
InQCell(c) == c = Head \/ (c \in Proc /\ InQ(c))

\* A process at a critical control point owns queueLock (so does, under PgSpec,
\* a process that collects the entry).
ControlInv ==
  \A p \in Proc :
    /\ pc[p] \notin {"cancel", "unqueue"}
    /\ pc[p] \in Critical => queueLock = p

\* What a process in the slow path has recorded for wake is still true.
CallInv ==
  \A p \in Proc :
    /\ pc[p] \in {"contend", "enqueue"} => arg[p] \in Mode \ holding[p]
    /\ Blocking(p) => /\ arg[p] = wantMode[p]
                      /\ wantMode[p] \in Mode \ holding[p]
                      /\ waitHolding[p] = holding[p]
    /\ wakeup[p] => Blocking(p)
    /\ awaited[p] <=> pc[p] = "asleep"

\* The links of queued processes lead to queued processes, no two of them to
\* the same one, and wake's cursor stands on one of them.
ListInv ==
  /\ \A c \in Cell : InQCell(c) => lockNext[c] = NULL \/ InQ(lockNext[c])
  /\ \A c, d \in Cell :
       /\ InQCell(c) /\ InQCell(d)
       /\ lockNext[c] = lockNext[d] /\ lockNext[c] # NULL
       => c = d
  /\ \A p \in Proc : pc[p] \in Walk \cup Grant => InQCell(prevLink)
  /\ \A p \in Proc : pc[p] \in Grant => Candidate # NULL

\* r orders the queue: no cycle of links, not even among waiters the head no
\* longer leads to.
Ranks(r) == \A p \in Proc : InQ(p) /\ lockNext[p] # NULL => r[p] < r[lockNext[p]]

RankInv == \E r \in [Proc -> Nat] : Ranks(r)

\* The two counters count a map from processes to sets of modes.
Counts(a, C) == \A m \in Mode : a[m] = Cardinality({q \in Proc : m \in C[q]})

\* Such a map changes in one step by one mode of one process, or not at all.
Adds(C, D, p, m) ==
  \A q \in Proc : D[q] = IF q = p THEN C[q] \cup {m} ELSE C[q]
Drops(C, D, p, m) ==
  \A q \in Proc : D[q] = IF q = p THEN C[q] \ {m} ELSE C[q]
Same(C, D) == \A q \in Proc : D[q] = C[q]

ClaimMap == [q \in Proc |-> Claim(q)]
HeldMap  == [q \in Proc |-> Held(q)]
WaitMap  == [q \in Proc |-> {m \in Mode : m = wantMode[q] /\ InQ(q)}]
PendMap  == [q \in Proc |-> {m \in Mode : m = wantMode[q] /\ Waits(q)}]

CountInv == Counts(active, ClaimMap) /\ Counts(waitCounts, WaitMap)

StructInv == TypeOK /\ ControlInv /\ CallInv /\ ListInv /\ RankInv

IInv == StructInv /\ CountInv /\ MutualExclusion /\ WaitBitsExact

-----------------------------------------------------------------------------
(***************************************************************************)
(* Lemmas about counters.                                                  *)
(***************************************************************************)
\* One more process is counted for m, as the compare-and-swap loops do it.
LEMMA CountUp ==
  ASSUME NEW a \in [Mode -> Nat], NEW b, NEW C, NEW D,
         NEW p \in Proc, NEW m \in Mode,
         Counts(a, C), m \notin C[p],
         b = [a EXCEPT ![m] = @ + 1],
         Adds(C, D, p, m)
  PROVE  b \in [Mode -> Nat] /\ Counts(b, D)
<1>1. b \in [Mode -> Nat]
  OBVIOUS
<1>2. ASSUME NEW n \in Mode PROVE b[n] = Cardinality({q \in Proc : n \in D[q]})
  <2> DEFINE S == {q \in Proc : n \in C[q]}
             T == {q \in Proc : n \in D[q]}
  <2>1. CASE n = m
    <3>1. T = S \cup {p} /\ p \notin S
      BY <2>1 DEF Adds
    <3>2. IsFiniteSet(S)
      BY ProcAssumption, FS_Subset
    <3>3. Cardinality(T) = Cardinality(S) + 1
      BY <3>1, <3>2, FS_AddElement
    <3> QED BY <2>1, <3>3 DEF Counts
  <2>2. CASE n # m
    <3>1. T = S
      BY <2>2 DEF Adds
    <3> QED BY <2>2, <3>1 DEF Counts
  <2> QED BY <2>1, <2>2
<1> QED BY <1>1, <1>2 DEF Counts

\* One process less is counted for m: the counter was not zero.
LEMMA CountDown ==
  ASSUME NEW a \in [Mode -> Nat], NEW b, NEW C, NEW D,
         NEW p \in Proc, NEW m \in Mode,
         Counts(a, C), m \in C[p],
         b = [a EXCEPT ![m] = @ - 1],
         Drops(C, D, p, m)
  PROVE  a[m] # 0 /\ b \in [Mode -> Nat] /\ Counts(b, D)
<1> DEFINE S(n) == {q \in Proc : n \in C[q]}
           T(n) == {q \in Proc : n \in D[q]}
<1>1. T(m) = S(m) \ {p} /\ p \in S(m)
  BY DEF Drops
<1>2. IsFiniteSet(S(m)) /\ IsFiniteSet(T(m))
  BY ProcAssumption, FS_Subset
<1>3. Cardinality(T(m)) = Cardinality(S(m)) - 1
  BY <1>1, <1>2, FS_RemoveElement
<1>4. Cardinality(T(m)) \in Nat
  BY <1>2, FS_CardinalityType
<1>5. a[m] = Cardinality(S(m))
  BY DEF Counts
<1>6. a[m] # 0 /\ b \in [Mode -> Nat]
  BY <1>3, <1>4, <1>5
<1>7. ASSUME NEW n \in Mode, n # m PROVE b[n] = Cardinality(T(n))
  <2>1. T(n) = S(n)
    BY <1>7 DEF Drops
  <2> QED BY <1>7, <2>1 DEF Counts
<1>8. b[m] = Cardinality(T(m))
  BY <1>3, <1>5
<1> QED BY <1>6, <1>7, <1>8 DEF Counts

\* A count of zero, apart from p's own, means that nobody else is counted.
LEMMA CountZero ==
  ASSUME NEW a \in [Mode -> Nat], NEW C, NEW p \in Proc, NEW m \in Mode,
         NEW own, own \subseteq C[p],
         Counts(a, C), a[m] - Own(own, m) = 0,
         NEW q \in Proc, q # p
  PROVE  m \notin C[q]
<1> DEFINE S == {r \in Proc : m \in C[r]}
<1>1. IsFiniteSet(S) /\ a[m] = Cardinality(S)
  BY ProcAssumption, FS_Subset DEF Counts
<1>2. CASE m \notin own
  <2>1. S = {}
    BY <1>1, <1>2, FS_EmptySet DEF Own
  <2> QED BY <2>1
<1>3. CASE m \in own
  <2>1. p \in S
    BY <1>3
  <2>2. IsFiniteSet(S \ {p}) /\ Cardinality(S \ {p}) = 0
    BY <1>1, <1>3, <2>1, FS_RemoveElement DEF Own
  <2>3. S \ {p} = {}
    BY <2>2, FS_EmptySet
  <2> QED BY <2>3
<1> QED BY <1>2, <1>3

\* A count of one means that p is the last one counted.
LEMMA CountOne ==
  ASSUME NEW a \in [Mode -> Nat], NEW C, NEW p \in Proc, NEW m \in Mode,
         Counts(a, C), m \in C[p]
  PROVE  a[m] # 1 <=> \E q \in Proc : q # p /\ m \in C[q]
<1> DEFINE S == {r \in Proc : m \in C[r]}
<1>1. IsFiniteSet(S) /\ a[m] = Cardinality(S) /\ p \in S
  BY ProcAssumption, FS_Subset DEF Counts
<1>2. IsFiniteSet(S \ {p}) /\ Cardinality(S \ {p}) = Cardinality(S) - 1
  BY <1>1, FS_RemoveElement
<1>3. a[m] = 1 <=> Cardinality(S \ {p}) = 0
  BY <1>1, <1>2
<1>4. Cardinality(S \ {p}) = 0 <=> S \ {p} = {}
  BY <1>2, FS_EmptySet
<1> QED BY <1>3, <1>4

-----------------------------------------------------------------------------
(***************************************************************************)
(* Facts about one state.                                                  *)
(***************************************************************************)
\* queueLock excludes: at most one process is at a critical control point.
LEMMA OneCritical ==
  ASSUME ControlInv, NEW p \in Proc, NEW q \in Proc,
         pc[p] \in Critical, pc[q] \in Critical
  PROVE  p = q
BY DEF ControlInv

\* A grant under way is for a queued process.
LEMMA GrantedBlocks ==
  ASSUME StructInv, NEW p \in Proc, Granted(p)
  PROVE  Blocking(p)
BY CellAssumption
DEF StructInv, TypeOK, CallInv, ListInv, Granted, InQ, InQCell, Candidate, Cell

\* While the owner of queueLock is not granting, the queued processes are
\* exactly the waiting ones.
LEMMA NoGrant ==
  ASSUME StructInv, NEW p \in Proc, queueLock = p, pc[p] \notin Grant
  PROVE  \A q \in Proc : (Waits(q) <=> InQ(q)) /\ (Granted(q) <=> wakeup[q])
BY DEF StructInv, ControlInv, Critical, Grant, Walk, Waits, InQ, Granted

-----------------------------------------------------------------------------
(***************************************************************************)
(* What each action does to the modes claimed, held, counted in the queue  *)
(* and pending.                                                            *)
(***************************************************************************)
\* The fast path takes the mode and is counted for it in one step.
LEMMA AcquireAtOnceMaps ==
  ASSUME StructInv, NEW p \in Proc, NEW m \in Mode, AcquireAtOnce(p, m)
  PROVE  /\ m \notin ClaimMap[p]
         /\ Adds(ClaimMap, ClaimMap', p, m) /\ Adds(HeldMap, HeldMap', p, m)
         /\ Same(WaitMap, WaitMap') /\ Same(PendMap, PendMap')
<1>1. /\ ~Granted(p) /\ pc[p] = "idle" /\ m \notin holding[p]
      /\ holding \in [Proc -> SUBSET Mode]
      /\ \A q \in Proc : Granted(q)' = Granted(q) /\ Blocking(q)' = Blocking(q)
  BY GrantedBlocks DEF AcquireAtOnce, Callable, Blocking, StructInv, TypeOK,
     Granted, Candidate, queue
<1>2. m \notin ClaimMap[p]
  BY <1>1 DEF Claim, Held, ClaimMap
<1>3. Adds(HeldMap, HeldMap', p, m)
  BY <1>1 DEF AcquireAtOnce, queue, Held, HeldMap, Adds
<1>4. Adds(ClaimMap, ClaimMap', p, m)
  BY <1>3 DEF AcquireAtOnce, queue, Claim, HeldMap, ClaimMap, Adds
<1>5. Same(WaitMap, WaitMap') /\ Same(PendMap, PendMap')
  BY <1>1 DEF AcquireAtOnce, queue, InQ, Waits, WaitMap, PendMap, Same
<1> QED BY <1>2, <1>3, <1>4, <1>5

\* A transient count is a claim without ownership.
LEMMA AcquireContendedMaps ==
  ASSUME StructInv, NEW p \in Proc, NEW m \in Mode, AcquireContended(p, m)
  PROVE  /\ m \notin ClaimMap[p]
         /\ Adds(ClaimMap, ClaimMap', p, m) /\ Same(HeldMap, HeldMap')
         /\ Same(WaitMap, WaitMap') /\ Same(PendMap, PendMap')
<1>1. /\ ~Granted(p) /\ pc[p] = "idle" /\ m \notin holding[p]
      /\ pc' = [pc EXCEPT ![p] = "contend"] /\ pc \in [Proc -> Label]
      /\ arg' = [arg EXCEPT ![p] = m] /\ arg \in [Proc -> Mode \cup {NULL}]
      /\ UNCHANGED <<holding, wantMode, wakeup, lockNext, prevLink>>
  BY GrantedBlocks DEF AcquireContended, Callable, Blocking, StructInv, TypeOK,
     queue, local
<1>2. \A q \in Proc : Granted(q)' = Granted(q) /\ Blocking(q)' = Blocking(q)
  BY <1>1 DEF Granted, Blocking, Candidate, Grant
<1>3. m \notin ClaimMap[p]
  BY <1>1 DEF Claim, Held, ClaimMap
<1>4. Same(HeldMap, HeldMap')
  BY <1>1, <1>2 DEF Held, HeldMap, Same
<1>5. Adds(ClaimMap, ClaimMap', p, m)
  BY <1>1, <1>4 DEF Claim, HeldMap, ClaimMap, Adds, Same
<1>6. Same(WaitMap, WaitMap') /\ Same(PendMap, PendMap')
  BY <1>1, <1>2 DEF InQ, Waits, WaitMap, PendMap, Same
<1> QED BY <1>3, <1>4, <1>5, <1>6

\* Queueing turns the transient count into a request.
LEMMA EnqueueMaps ==
  ASSUME StructInv, NEW p \in Proc, Enqueue(p)
  PROVE  /\ arg[p] \in Mode /\ arg[p] \in ClaimMap[p] /\ arg[p] \notin WaitMap[p]
         /\ Drops(ClaimMap, ClaimMap', p, arg[p]) /\ Same(HeldMap, HeldMap')
         /\ Adds(WaitMap, WaitMap', p, arg[p]) /\ Adds(PendMap, PendMap', p, arg[p])
<1>1. /\ pc[p] = "enqueue" /\ arg[p] \in Mode /\ arg[p] \notin holding[p]
      /\ queueLock = p /\ ~wakeup[p]
      /\ pc' = [pc EXCEPT ![p] = "acqWake"] /\ pc \in [Proc -> Label]
      /\ wantMode' = [wantMode EXCEPT ![p] = arg[p]]
      /\ wantMode \in [Proc -> Mode \cup {NULL}]
      /\ UNCHANGED <<holding, wakeup, arg>>
  BY DEF Enqueue, Critical, Blocking, StructInv, TypeOK, ControlInv, CallInv, local
<1>2. \A q \in Proc : pc[q] \notin Grant /\ pc'[q] \notin Grant
  BY <1>1 DEF StructInv, ControlInv, Critical, Grant
<1>3. \A q \in Proc : Granted(q) = wakeup[q] /\ Granted(q)' = wakeup[q]
  BY <1>1, <1>2 DEF Granted, StructInv, TypeOK
<1>4. \A q \in Proc : Blocking(q)' = (Blocking(q) \/ q = p)
  BY <1>1 DEF Blocking
<1>5. Same(HeldMap, HeldMap')
  BY <1>1, <1>3 DEF Held, HeldMap, Same
<1>6. Drops(ClaimMap, ClaimMap', p, arg[p]) /\ arg[p] \in ClaimMap[p]
  BY <1>1, <1>3, <1>5 DEF Claim, Held, HeldMap, ClaimMap, Drops, Same
<1>7. arg[p] \notin WaitMap[p]
  BY <1>1 DEF WaitMap, InQ, Blocking
<1>8. Adds(WaitMap, WaitMap', p, arg[p])
  <2>1. ~InQ(p) /\ InQ(p)' /\ \A q \in Proc : q # p => InQ(q)' = InQ(q)
    BY <1>1, <1>4 DEF InQ, Blocking
  <2> QED BY <1>1, <2>1 DEF WaitMap, Adds
<1>9. Adds(PendMap, PendMap', p, arg[p])
  <2>1. ~Waits(p) /\ Waits(p)' /\ \A q \in Proc : q # p => Waits(q)' = Waits(q)
    BY <1>1, <1>3, <1>4 DEF Waits, Blocking
  <2> QED BY <1>1, <2>1 DEF PendMap, Adds
<1> QED BY <1>1, <1>5, <1>6, <1>7, <1>8, <1>9

\* Facts about the candidate of a wake in progress.
LEMMA CandidateQueued ==
  ASSUME StructInv, NEW p \in Proc, pc[p] \in Walk \cup Grant, Candidate # NULL
  PROVE  /\ queueLock = p /\ prevLink \in Cell /\ InQCell(prevLink)
         /\ Candidate \in Proc /\ InQ(Candidate) /\ lockNext[prevLink] = Candidate
         /\ wantMode[Candidate] \in Mode \ holding[Candidate]
         /\ waitHolding[Candidate] = holding[Candidate]
         /\ \A q \in Proc : q # p => pc[q] \notin Walk \cup Grant
<1>1. queueLock = p /\ prevLink \in Cell /\ InQCell(prevLink)
  BY DEF StructInv, TypeOK, ControlInv, ListInv, Critical
<1>2. Candidate \in Proc /\ InQ(Candidate) /\ lockNext[prevLink] = Candidate
  BY <1>1 DEF StructInv, TypeOK, ListInv, Candidate
<1>3. /\ wantMode[Candidate] \in Mode \ holding[Candidate]
      /\ waitHolding[Candidate] = holding[Candidate]
  BY <1>2 DEF StructInv, CallInv, InQ
<1>4. \A q \in Proc : q # p => pc[q] \notin Walk \cup Grant
  BY <1>1 DEF StructInv, ControlInv, Critical
<1> QED BY <1>1, <1>2, <1>3, <1>4

\* wake's compare-and-swap gives the candidate its mode, though it stays
\* linked and counted in the queue.
LEMMA WakeGrantMaps ==
  ASSUME StructInv, NEW p \in Proc, WakeGrant(p), NEW q, q = Candidate,
         NEW m, m = wantMode[q]
  PROVE  /\ q \in Proc /\ m \in Mode /\ m \notin ClaimMap[q]
         /\ m \in WaitMap[q] /\ PendMap = WaitMap
         /\ Adds(ClaimMap, ClaimMap', q, m) /\ Adds(HeldMap, HeldMap', q, m)
         /\ Same(WaitMap, WaitMap') /\ Drops(PendMap, PendMap', q, m)
<1>1. /\ q \in Proc /\ m \in Mode \ holding[q] /\ queueLock = p /\ InQ(q)
      /\ pc[p] \in Walk
      /\ pc' = [pc EXCEPT ![p] = ToGrant(@)] /\ pc \in [Proc -> Label]
      /\ UNCHANGED <<holding, wakeup, arg, wantMode, lockNext, prevLink>>
  BY CandidateQueued DEF WakeGrant, StructInv, TypeOK, local, queue
<1>2. pc[p] \notin Grant /\ pc'[p] \in Grant
  BY <1>1 DEF Walk, Grant, ToGrant
<1>3. \A r \in Proc : (Waits(r) <=> InQ(r)) /\ (Granted(r) <=> wakeup[r])
  BY <1>1, <1>2, NoGrant
<1>4. \A r \in Proc : Granted(r)' <=> (wakeup[r] \/ r = q)
  BY <1>1, <1>2 DEF Granted, Candidate
<1>5. \A r \in Proc : Blocking(r)' <=> Blocking(r)
  BY <1>1 DEF Blocking, Walk, ToGrant
<1>6. /\ ~Granted(q) /\ Blocking(q) /\ pc[q] \notin {"contend", "enqueue"}
      /\ \A r \in Proc : pc'[r] \in {"contend", "enqueue"}
                         <=> pc[r] \in {"contend", "enqueue"}
  BY <1>1, <1>3 DEF InQ, Blocking, Walk, ToGrant
<1>7. m \notin ClaimMap[q]
  BY <1>1, <1>6 DEF ClaimMap, Claim, Held
<1>8. Adds(HeldMap, HeldMap', q, m)
  BY <1>1, <1>3, <1>4 DEF HeldMap, Held, Adds
<1>9. Adds(ClaimMap, ClaimMap', q, m)
  BY <1>1, <1>6, <1>8 DEF HeldMap, ClaimMap, Claim, Adds
<1>10. Same(WaitMap, WaitMap') /\ m \in WaitMap[q] /\ PendMap = WaitMap
  BY <1>1, <1>3, <1>5 DEF WaitMap, PendMap, InQ, Same
<1>11. Drops(PendMap, PendMap', q, m)
  BY <1>1, <1>3, <1>4, <1>5 DEF PendMap, Waits, Drops
<1> QED BY <1>1, <1>7, <1>8, <1>9, <1>10, <1>11

\* Unlinking the candidate changes who is counted in the queue, not who owns.
LEMMA WakeUnlinkMaps ==
  ASSUME StructInv, NEW p \in Proc, WakeUnlink(p), NEW q, q = Candidate,
         NEW m, m = wantMode[q]
  PROVE  /\ q \in Proc /\ m \in Mode /\ m \in WaitMap[q]
         /\ Same(ClaimMap, ClaimMap') /\ Same(HeldMap, HeldMap')
         /\ Drops(WaitMap, WaitMap', q, m) /\ Same(PendMap, PendMap')
<1>1. /\ q \in Proc /\ m \in Mode \ holding[q] /\ queueLock = p /\ InQ(q)
      /\ pc[p] \in Grant /\ \A r \in Proc : r # p => pc[r] \notin Grant
      /\ pc' = [pc EXCEPT ![p] = ToWalk(@)] /\ pc \in [Proc -> Label]
      /\ wakeup' = [wakeup EXCEPT ![q] = TRUE] /\ wakeup \in [Proc -> BOOLEAN]
      /\ UNCHANGED <<holding, arg, wantMode>>
  <2>1. pc[p] \in Grant /\ Candidate # NULL
    BY DEF WakeUnlink, StructInv, ListInv
  <2> QED BY <2>1, CandidateQueued DEF WakeUnlink, StructInv, TypeOK, local
<1>2. \A r \in Proc : pc'[r] \notin Grant
  BY <1>1 DEF Grant, ToWalk
<1>3. \A r \in Proc : Granted(r) <=> (wakeup[r] \/ r = q)
  BY <1>1 DEF Granted
<1>4. \A r \in Proc : Granted(r)' <=> (wakeup[r] \/ r = q)
  BY <1>1, <1>2 DEF Granted
<1>5. \A r \in Proc :
        /\ Blocking(r)' <=> Blocking(r)
        /\ pc'[r] \in {"contend", "enqueue"} <=> pc[r] \in {"contend", "enqueue"}
  BY <1>1 DEF Blocking, Grant, ToWalk
<1>6. Same(HeldMap, HeldMap')
  BY <1>1, <1>3, <1>4 DEF HeldMap, Held, Same
<1>7. Same(ClaimMap, ClaimMap')
  BY <1>1, <1>5, <1>6 DEF HeldMap, ClaimMap, Claim, Same
<1>8. Drops(WaitMap, WaitMap', q, m) /\ m \in WaitMap[q]
  BY <1>1, <1>5 DEF WaitMap, InQ, Drops
<1>9. Same(PendMap, PendMap')
  BY <1>1, <1>3, <1>4, <1>5 DEF PendMap, Waits, Same
<1> QED BY <1>1, <1>6, <1>7, <1>8, <1>9

\* gslRelease gives up the mode and its count in one step, on either path.
LEMMA ReleaseMaps ==
  ASSUME StructInv, NEW p \in Proc, NEW m \in Mode,
         ReleaseFast(p, m) \/ ReleaseContended(p, m)
  PROVE  /\ m \in ClaimMap[p]
         /\ Drops(ClaimMap, ClaimMap', p, m) /\ Drops(HeldMap, HeldMap', p, m)
         /\ Same(WaitMap, WaitMap') /\ Same(PendMap, PendMap')
<1>1. /\ ~Granted(p) /\ pc[p] = "idle" /\ m \in holding[p]
      /\ holding \in [Proc -> SUBSET Mode] /\ pc \in [Proc -> Label]
      /\ pc' = pc \/ pc' = [pc EXCEPT ![p] = "release"]
      /\ holding' = [holding EXCEPT ![p] = @ \ {m}]
      /\ UNCHANGED <<arg, wantMode, wakeup, lockNext, prevLink>>
  BY GrantedBlocks DEF ReleaseFast, ReleaseContended, Releasable, Blocking,
     StructInv, TypeOK, queue
<1>2. \A q \in Proc :
        /\ Granted(q)' = Granted(q) /\ Blocking(q)' = Blocking(q)
        /\ pc'[q] \in {"contend", "enqueue"} <=> pc[q] \in {"contend", "enqueue"}
  BY <1>1 DEF Granted, Blocking, Candidate, Grant
<1>3. Drops(HeldMap, HeldMap', p, m)
  BY <1>1, <1>2 DEF HeldMap, Held, Drops
<1>4. m \in ClaimMap[p] /\ Drops(ClaimMap, ClaimMap', p, m)
  BY <1>1, <1>2, <1>3 DEF HeldMap, ClaimMap, Claim, Held, Drops
<1>5. Same(WaitMap, WaitMap') /\ Same(PendMap, PendMap')
  BY <1>1, <1>2 DEF InQ, Waits, WaitMap, PendMap, Same
<1> QED BY <1>1, <1>3, <1>4, <1>5

\* The steps that change neither a counter nor a wait bit.
Quiet(p) ==
  \/ AcquireQueueLock(p) \/ ReleaseQueueLock(p) \/ WakeBegin(p) \/ WakeSkip(p)
  \/ AcquireSleep(p) \/ ReleaseReturn(p) \/ AcquireReturn(p)

\* Nobody's modes change in those steps: returning from gslAcquire only
\* records what a wake has granted.
LEMMA QuietMaps ==
  ASSUME StructInv, NEW p \in Proc, Quiet(p)
  PROVE  /\ Same(ClaimMap, ClaimMap') /\ Same(HeldMap, HeldMap')
         /\ Same(WaitMap, WaitMap') /\ Same(PendMap, PendMap')
         /\ UNCHANGED <<active, waiting, waitCounts>>
<1>1. CASE AcquireReturn(p)
  <2>1. /\ pc[p] = "asleep" /\ wakeup[p] /\ Blocking(p)
        /\ arg[p] = wantMode[p] /\ wantMode[p] \in Mode
        /\ pc' = [pc EXCEPT ![p] = "idle"] /\ pc \in [Proc -> Label]
        /\ wakeup' = [wakeup EXCEPT ![p] = FALSE] /\ wakeup \in [Proc -> BOOLEAN]
        /\ holding' = [holding EXCEPT ![p] = @ \cup {arg[p]}]
        /\ holding \in [Proc -> SUBSET Mode]
        /\ arg' = [arg EXCEPT ![p] = NULL] /\ arg \in [Proc -> Mode \cup {NULL}]
        /\ UNCHANGED <<wantMode, lockNext, prevLink, active, waiting, waitCounts>>
    BY <1>1 DEF AcquireReturn, StructInv, TypeOK, CallInv, Blocking, queue, lockWord
  <2>2. Granted(p) /\ ~Granted(p)' /\ ~Blocking(p)' /\ ~InQ(p) /\ ~Waits(p)
    <3>1. p # Candidate \/ \A w \in Proc : pc[w] \notin Grant
      BY <2>1, CandidateQueued DEF InQ, StructInv, ListInv
    <3> QED BY <2>1, <3>1 DEF Granted, Blocking, InQ, Waits, Candidate, Grant
  <2>3. \A q \in Proc : q # p =>
          /\ Granted(q)' = Granted(q) /\ Blocking(q)' = Blocking(q)
    BY <2>1 DEF Granted, Blocking, Candidate, Grant
  <2>4. Same(HeldMap, HeldMap')
    BY <2>1, <2>2, <2>3 DEF HeldMap, Held, Same
  <2>5. Same(ClaimMap, ClaimMap')
    BY <2>1, <2>4 DEF ClaimMap, Claim, HeldMap, Same
  <2>6. Same(WaitMap, WaitMap')
    <3>1. ~InQ(p)' /\ \A q \in Proc : q # p => InQ(q)' = InQ(q)
      BY <2>1, <2>2, <2>3 DEF InQ
    <3> QED BY <2>1, <2>2, <3>1 DEF WaitMap, Same
  <2>7. Same(PendMap, PendMap')
    BY <2>1, <2>2, <2>3 DEF Waits, PendMap, Same
  <2> QED BY <2>1, <2>4, <2>5, <2>6, <2>7
<1>2. CASE ~AcquireReturn(p)
  <2>1. /\ pc \in [Proc -> Label]
        /\ UNCHANGED <<holding, wakeup, arg, wantMode, lockNext,
                       active, waiting, waitCounts>>
    BY <1>2 DEF Quiet, AcquireQueueLock, ReleaseQueueLock, WakeBegin, WakeSkip,
       AcquireSleep, ReleaseReturn, StructInv, TypeOK, lockWord, queue, local
  <2>2. \A q \in Proc :
          /\ Blocking(q)' = Blocking(q)
          /\ pc'[q] \in {"contend", "enqueue"} <=> pc[q] \in {"contend", "enqueue"}
          /\ pc'[q] \in Grant <=> pc[q] \in Grant
    BY <1>2, <2>1 DEF Quiet, AcquireQueueLock, ReleaseQueueLock, WakeBegin,
       WakeSkip, AcquireSleep, ReleaseReturn, Blocking, Grant, Walk, ToWalk
  <2>3. prevLink' = prevLink \/ \A w \in Proc : pc[w] \notin Grant
    BY <1>2 DEF Quiet, AcquireQueueLock, ReleaseQueueLock, WakeBegin, WakeSkip,
       AcquireSleep, ReleaseReturn, StructInv, ControlInv, Critical, Grant, Walk
  <2>4. \A q \in Proc : Granted(q)' = Granted(q)
    BY <2>1, <2>2, <2>3 DEF Granted, Candidate
  <2>5. Same(HeldMap, HeldMap')
    BY <2>1, <2>4 DEF HeldMap, Held, Same
  <2>6. Same(ClaimMap, ClaimMap')
    BY <2>1, <2>2, <2>5 DEF ClaimMap, Claim, HeldMap, Same
  <2>7. Same(WaitMap, WaitMap') /\ Same(PendMap, PendMap')
    BY <2>1, <2>2, <2>4 DEF InQ, Waits, WaitMap, PendMap, Same
  <2> QED BY <2>1, <2>5, <2>6, <2>7
<1> QED BY <1>1, <1>2

-----------------------------------------------------------------------------
(***************************************************************************)
(* The structure of the queue and of the calls, action by action.  The     *)
(* types of the counters are left to the counting argument.                *)
(***************************************************************************)
Structure == ControlInv /\ CallInv /\ ListInv /\ RankInv

\* The fast paths leave the queue alone and keep their process outside it.
LEMMA FastStructure ==
  ASSUME StructInv, NEW p \in Proc, NEW m \in Mode,
         \/ AcquireAtOnce(p, m) \/ AcquireContended(p, m)
         \/ ReleaseFast(p, m) \/ ReleaseContended(p, m)
  PROVE  Structure'
<1>1. /\ pc[p] = "idle" /\ ~awaited[p]
      /\ \/ pc' = pc /\ arg' = arg
         \/ /\ pc' = [pc EXCEPT ![p] = "contend"]
            /\ arg' = [arg EXCEPT ![p] = m] /\ m \notin holding[p]
            /\ holding' = holding
         \/ pc' = [pc EXCEPT ![p] = "release"] /\ arg' = arg
      /\ \A q \in Proc : q # p => holding'[q] = holding[q]
      /\ UNCHANGED <<queueLock, lockNext, wantMode, waitHolding, awaited,
                     wakeup, prevLink>>
  BY DEF AcquireAtOnce, AcquireContended, ReleaseFast, ReleaseContended,
     Callable, Releasable, queue, local, StructInv, TypeOK
<1>2. pc \in [Proc -> Label] /\ arg \in [Proc -> Mode \cup {NULL}]
  BY DEF StructInv, TypeOK
<1>3. ControlInv'
  BY <1>1, <1>2 DEF ControlInv, StructInv, Critical, Walk, Grant
<1>4. \A q \in Proc : (Blocking(q)' <=> Blocking(q)) /\ (InQ(q)' <=> InQ(q))
  BY <1>1, <1>2 DEF Blocking, InQ
<1>5. CallInv'
  BY <1>1, <1>2, <1>4 DEF CallInv, StructInv, Blocking
<1>6. ListInv'
  <2>1. \A c \in Cell : /\ InQCell(c)' <=> InQCell(c)
                        /\ lockNext[c] \in Proc \cup {NULL}
    BY <1>4 DEF InQCell, StructInv, TypeOK
  <2>2. \A q \in Proc : pc'[q] \in Walk \cup Grant => pc'[q] = pc[q]
    BY <1>1, <1>2 DEF Walk, Grant
  <2> QED BY <1>1, <1>4, <2>1, <2>2 DEF ListInv, StructInv, TypeOK, Candidate
<1>7. RankInv'
  BY <1>1, <1>4 DEF RankInv, Ranks, StructInv
<1> QED BY <1>3, <1>5, <1>6, <1>7 DEF Structure

\* Moving queueLock and wake's cursor, and returning, keep the structure.
LEMMA QuietStructure ==
  ASSUME StructInv, NEW p \in Proc, Quiet(p)
  PROVE  Structure'
<1>1. /\ pc \in [Proc -> Label] /\ arg \in [Proc -> Mode \cup {NULL}]
      /\ wakeup \in [Proc -> BOOLEAN] /\ awaited \in [Proc -> BOOLEAN]
      /\ UNCHANGED <<lockNext, wantMode, isUpgrade, waitHolding>>
      /\ \A q \in Proc : q # p => /\ pc'[q] = pc[q] /\ holding'[q] = holding[q]
                                  /\ arg'[q] = arg[q] /\ wakeup'[q] = wakeup[q]
                                  /\ awaited'[q] = awaited[q]
  BY DEF Quiet, AcquireQueueLock, ReleaseQueueLock, WakeBegin, WakeSkip,
     AcquireSleep, ReleaseReturn, AcquireReturn, StructInv, TypeOK, queue,
     local, lockWord
<1>2. ControlInv'
  <2>1. CASE AcquireQueueLock(p) \/ ReleaseQueueLock(p)
    BY <1>1, <2>1, CellAssumption DEF AcquireQueueLock, ReleaseQueueLock,
       StructInv, ControlInv, Critical
  <2>2. CASE WakeBegin(p) \/ WakeSkip(p)
    BY <1>1, <2>2 DEF WakeBegin, WakeSkip, StructInv, ControlInv, Critical,
       Walk, Grant, ToWalk
  <2>3. CASE AcquireSleep(p) \/ ReleaseReturn(p)
    BY <1>1, <2>3, CellAssumption DEF AcquireSleep, ReleaseReturn, StructInv,
       ControlInv, Critical, Walk, Grant
  <2>4. CASE AcquireReturn(p)
    BY <1>1, <2>4 DEF AcquireReturn, StructInv, ControlInv, Critical, Walk, Grant
  <2> QED BY <2>1, <2>2, <2>3, <2>4 DEF Quiet
<1>3. CallInv'
  <2>1. CASE AcquireQueueLock(p) \/ ReleaseQueueLock(p)
    BY <1>1, <2>1 DEF AcquireQueueLock, ReleaseQueueLock, StructInv, CallInv,
       local, Blocking
  <2>2. CASE WakeBegin(p) \/ WakeSkip(p)
    BY <1>1, <2>2 DEF WakeBegin, WakeSkip, StructInv, CallInv, local, Blocking,
       ToWalk, Walk
  <2>3. CASE AcquireSleep(p) \/ ReleaseReturn(p)
    BY <1>1, <2>3 DEF AcquireSleep, ReleaseReturn, StructInv, CallInv, local,
       Blocking
  <2>4. CASE AcquireReturn(p)
    BY <1>1, <2>4 DEF AcquireReturn, StructInv, CallInv, Blocking
  <2> QED BY <2>1, <2>2, <2>3, <2>4 DEF Quiet
<1>4. \A q \in Proc : InQ(q)' <=> InQ(q)
  <2>1. CASE AcquireReturn(p)
    BY <1>1, <2>1 DEF AcquireReturn, InQ, Blocking
  <2>2. CASE ~AcquireReturn(p)
    BY <1>1, <2>2 DEF Quiet, AcquireQueueLock, ReleaseQueueLock, WakeBegin,
       WakeSkip, AcquireSleep, ReleaseReturn, InQ, Blocking, Walk, ToWalk
  <2> QED BY <2>1, <2>2
<1>5. ListInv'
  <2>1. \A c \in Cell : /\ InQCell(c)' <=> InQCell(c)
                        /\ lockNext[c] \in Proc \cup {NULL}
    BY <1>4 DEF InQCell, StructInv, TypeOK
  <2>2. ASSUME NEW q \in Proc, pc'[q] \in Walk \cup Grant
        PROVE  InQCell(prevLink)' /\ (pc'[q] \in Grant => Candidate' # NULL)
    <3>1. CASE WakeBegin(p)
      <4>1. q = p /\ prevLink' = Head /\ pc'[p] \notin Grant
        BY <1>1, <2>2, <3>1 DEF WakeBegin, StructInv, ControlInv, Critical,
           ToWalk, Grant
      <4> QED BY <4>1 DEF InQCell
    <3>2. CASE WakeSkip(p)
      <4>1. q = p /\ prevLink' = Candidate /\ pc'[p] \notin Grant
        BY <1>1, <2>2, <3>2 DEF WakeSkip, StructInv, ControlInv, Critical,
           Walk, Grant
      <4>2. Candidate \in Proc /\ InQ(Candidate)
        BY <3>2, CandidateQueued DEF WakeSkip
      <4> QED BY <1>4, <4>1, <4>2 DEF InQCell
    <3>3. CASE ~WakeBegin(p) /\ ~WakeSkip(p)
      <4>1. pc'[q] = pc[q] /\ prevLink' = prevLink /\ prevLink \in Cell
        BY <1>1, <2>2, <3>3 DEF Quiet, AcquireQueueLock, ReleaseQueueLock,
           AcquireSleep, ReleaseReturn, AcquireReturn, StructInv, TypeOK,
           Walk, Grant
      <4> QED BY <1>1, <2>1, <2>2, <4>1 DEF ListInv, StructInv, Candidate
    <3> QED BY <3>1, <3>2, <3>3
  <2> QED BY <1>1, <1>4, <2>1, <2>2 DEF ListInv, StructInv
<1>6. RankInv'
  BY <1>1, <1>4 DEF RankInv, Ranks, StructInv
<1> QED BY <1>2, <1>3, <1>5, <1>6 DEF Structure

\* wake's compare-and-swap changes the granting process's pc only.
LEMMA WakeGrantStructure ==
  ASSUME StructInv, NEW p \in Proc, WakeGrant(p)
  PROVE  Structure'
<1>1. /\ pc \in [Proc -> Label] /\ pc[p] \in Walk /\ Candidate # NULL
      /\ pc' = [pc EXCEPT ![p] = ToGrant(@)]
      /\ UNCHANGED <<queueLock, lockNext, wantMode, isUpgrade, waitHolding,
                     holding, awaited, wakeup, prevLink, arg>>
  BY DEF WakeGrant, StructInv, TypeOK, queue, local
<1>2. ControlInv'
  BY <1>1 DEF StructInv, ControlInv, Critical, Walk, Grant, ToGrant
<1>3. CallInv'
  BY <1>1 DEF StructInv, CallInv, Blocking, Walk, ToGrant
<1>4. \A q \in Proc : InQ(q)' <=> InQ(q)
  BY <1>1 DEF InQ, Blocking, Walk, ToGrant
<1>5. ListInv'
  <2>1. \A c \in Cell : /\ InQCell(c)' <=> InQCell(c)
                        /\ lockNext[c] \in Proc \cup {NULL}
    BY <1>4 DEF InQCell, StructInv, TypeOK
  <2>2. prevLink \in Cell /\ InQCell(prevLink) /\ Candidate' = Candidate
    BY <1>1, CandidateQueued DEF Candidate
  <2> QED BY <1>1, <1>4, <2>1, <2>2 DEF ListInv, StructInv
<1>6. RankInv'
  BY <1>1, <1>4 DEF RankInv, Ranks, StructInv
<1> QED BY <1>2, <1>3, <1>5, <1>6 DEF Structure

\* Unlinking the candidate joins its predecessor to its successor.  The rank
\* rules out that the candidate is its own neighbour.
LEMMA WakeUnlinkStructure ==
  ASSUME StructInv, NEW p \in Proc, WakeUnlink(p)
  PROVE  Structure'
<1> DEFINE q == Candidate
<1>1. /\ pc \in [Proc -> Label] /\ pc[p] \in Grant /\ Candidate # NULL
      /\ lockNext \in [Cell -> Proc \cup {NULL}]
      /\ wakeup \in [Proc -> BOOLEAN]
      /\ pc' = [pc EXCEPT ![p] = ToWalk(@)]
      /\ wakeup' = [wakeup EXCEPT ![q] = TRUE]
      /\ lockNext' = [lockNext EXCEPT ![prevLink] = lockNext[q], ![q] = NULL]
      /\ UNCHANGED <<queueLock, wantMode, isUpgrade, waitHolding,
                     holding, awaited, prevLink, arg>>
  BY DEF WakeUnlink, StructInv, TypeOK, ListInv, local
<1>2. /\ q \in Proc /\ InQ(q) /\ prevLink \in Cell /\ InQCell(prevLink)
      /\ lockNext[prevLink] = q /\ Proc \subseteq Cell
      /\ \A r \in Proc : r # p => pc[r] \notin Walk \cup Grant
  BY <1>1, CandidateQueued DEF Cell
<1>3. PICK r \in [Proc -> Nat] : Ranks(r)
  BY DEF StructInv, RankInv
<1>4. prevLink # q /\ lockNext[q] # q
  BY <1>1, <1>2, <1>3, CellAssumption DEF Ranks
<1>5. /\ lockNext'[prevLink] = lockNext[q]
      /\ \A c \in Cell : c # prevLink /\ c # q => lockNext'[c] = lockNext[c]
  BY <1>1, <1>2, <1>4
<1>6. \A c \in Cell : InQCell(c) /\ lockNext[c] = q => c = prevLink
  BY <1>2, CellAssumption DEF StructInv, ListInv
<1>7. /\ \A s \in Proc : Blocking(s)' <=> Blocking(s)
      /\ \A s \in Proc : InQ(s)' <=> (InQ(s) /\ s # q)
      /\ \A c \in Cell : InQCell(c)' <=> (InQCell(c) /\ c # q)
  BY <1>1, <1>2, CellAssumption DEF Blocking, InQ, InQCell, Grant, ToWalk
<1>8. ControlInv'
  BY <1>1 DEF StructInv, ControlInv, Critical, Walk, Grant, ToWalk
<1>9. CallInv'
  <2>1. \A s \in Proc :
          /\ pc'[s] \in {"contend", "enqueue"} <=> pc[s] \in {"contend", "enqueue"}
          /\ pc'[s] = "asleep" <=> pc[s] = "asleep"
    BY <1>1 DEF Grant, ToWalk
  <2>2. \A s \in Proc : wakeup'[s] => Blocking(s)
    BY <1>1, <1>2 DEF StructInv, CallInv, InQ
  <2> QED BY <1>1, <1>7, <2>1, <2>2 DEF StructInv, CallInv
<1>10. ListInv'
  <2>1. ASSUME NEW c \in Cell, InQCell(c)'
        PROVE  (lockNext[c] = NULL \/ InQ(lockNext[c]))'
    <3>1. CASE c = prevLink
      <4>1. InQCell(q) /\ lockNext[q] \in Proc \cup {NULL}
        BY <1>1, <1>2 DEF InQCell
      <4>2. lockNext[q] = NULL \/ InQ(lockNext[q])
        BY <1>2, <4>1 DEF StructInv, ListInv
      <4> QED BY <1>4, <1>5, <1>7, <3>1, <4>1, <4>2
    <3>2. CASE c # prevLink
      <4>1. c # q /\ lockNext'[c] = lockNext[c] /\ lockNext[c] # q
        BY <1>5, <1>6, <1>7, <2>1, <3>2
      <4>2. lockNext[c] = NULL \/ InQ(lockNext[c])
        BY <1>7, <2>1 DEF StructInv, ListInv
      <4> QED BY <1>1, <1>7, <4>1, <4>2
    <3> QED BY <3>1, <3>2
  <2>2. ASSUME NEW c \in Cell, NEW d \in Cell, InQCell(c)', InQCell(d)',
               lockNext'[c] = lockNext'[d], lockNext'[c] # NULL
        PROVE  c = d
    <3>1. /\ InQCell(c) /\ InQCell(d) /\ InQCell(q) /\ q \in Cell
          /\ c # q /\ d # q
      BY <1>2, <1>7, <2>2 DEF InQCell
    <3> QED BY <1>5, <2>2, <3>1 DEF StructInv, ListInv
  <2>3. InQCell(prevLink)'
    BY <1>1, <1>2, <1>4, <1>7
  <2>4. \A s \in Proc : pc'[s] \notin Grant
    BY <1>1, <1>2 DEF Grant, ToWalk
  <2> QED BY <2>1, <2>2, <2>3, <2>4 DEF ListInv
<1>11. Ranks(r)'
  <2>1. ASSUME NEW s \in Proc, InQ(s)', lockNext'[s] # NULL
        PROVE  r[s] < r[lockNext'[s]]
    <3>1. CASE s = prevLink
      <4>1. r[s] < r[q] /\ r[q] < r[lockNext[q]] /\ lockNext[q] \in Proc
        BY <1>1, <1>2, <1>3, <1>5, <1>7, <2>1, <3>1, CellAssumption DEF Ranks
      <4> QED BY <1>2, <1>5, <3>1, <4>1
    <3>2. CASE s # prevLink
      BY <1>2, <1>3, <1>5, <1>7, <2>1, <3>2 DEF Ranks
    <3> QED BY <3>1, <3>2
  <2> QED BY <2>1 DEF Ranks
<1> QED BY <1>8, <1>9, <1>10, <1>11 DEF Structure, RankInv

\* What joining the queue does to the links, wherever waiterTail points: the
\* new waiter is linked from at most one cell on the queue, and is followed by
\* the old head (an upgrade) or by nobody.
LEMMA EnqueueLinks ==
  ASSUME StructInv, NEW p \in Proc, Enqueue(p)
  PROVE  /\ lockNext' \in [Cell -> Proc \cup {NULL}]
         /\ \E t \in Cell \cup {NULL} :
              \A c \in Cell \ {p} : lockNext'[c] = IF c = t THEN p ELSE lockNext[c]
         /\ \/ lockNext'[p] = NULL
            \/ lockNext'[p] = lockNext[Head] /\ lockNext'[Head] = p
<1>1. /\ lockNext \in [Cell -> Proc \cup {NULL}] /\ p \in Cell /\ Head \in Cell
      /\ waiterTail \in Cell \cup {NULL} /\ p # Head
  BY CellAssumption DEF StructInv, TypeOK, Cell
<1>2. CASE Prepend(p)
  <2>1. /\ lockNext'[p] = lockNext[Head] /\ lockNext'[Head] = p
        /\ \A c \in Cell \ {p} : lockNext'[c] = IF c = Head THEN p ELSE lockNext[c]
        /\ lockNext' \in [Cell -> Proc \cup {NULL}]
    BY <1>1, <1>2 DEF Prepend
  <2> QED BY <1>1, <2>1
<1>3. CASE AppendFair(p)
  <2> DEFINE t == IF lockNext[Head] = NULL THEN Head ELSE waiterTail
  <2>1. /\ lockNext'[p] = NULL
        /\ \A c \in Cell \ {p} : lockNext'[c] = IF c = t THEN p ELSE lockNext[c]
        /\ lockNext' \in [Cell -> Proc \cup {NULL}]
    BY <1>1, <1>3 DEF AppendFair
  <2>2. t \in Cell \cup {NULL}
    BY <1>1
  <2> QED BY <2>1, <2>2
<1> QED BY <1>2, <1>3 DEF Enqueue

\* Joining the queue keeps it a list: the new waiter, prepended or appended
\* from a waiterTail that may be stale, shares its cell with nobody.
LEMMA EnqueueStructure ==
  ASSUME StructInv, NEW p \in Proc, Enqueue(p)
  PROVE  Structure'
<1>1. /\ pc \in [Proc -> Label] /\ pc[p] = "enqueue" /\ ~wakeup[p]
      /\ arg[p] \in Mode \ holding[p] /\ ~awaited[p]
      /\ pc' = [pc EXCEPT ![p] = "acqWake"]
      /\ wantMode' = [wantMode EXCEPT ![p] = arg[p]]
      /\ waitHolding' = [waitHolding EXCEPT ![p] = holding[p]]
      /\ wantMode \in [Proc -> Mode \cup {NULL}]
      /\ waitHolding \in [Proc -> SUBSET Mode]
      /\ UNCHANGED <<queueLock, holding, awaited, wakeup, prevLink, arg>>
  BY DEF Enqueue, StructInv, TypeOK, CallInv, Blocking, local
<1>2. /\ lockNext \in [Cell -> Proc \cup {NULL}] /\ p \in Cell /\ Head \in Cell
      /\ p # Head /\ NULL # p
  BY CellAssumption DEF StructInv, TypeOK, Cell
<1>3. PICK t \in Cell \cup {NULL} :
        \A c \in Cell \ {p} : lockNext'[c] = IF c = t THEN p ELSE lockNext[c]
  BY EnqueueLinks
<1>4. /\ lockNext' \in [Cell -> Proc \cup {NULL}]
      /\ \/ lockNext'[p] = NULL
         \/ lockNext'[p] = lockNext[Head] /\ lockNext'[Head] = p
  BY EnqueueLinks
<1>5. /\ ~InQ(p)
      /\ \A q \in Proc : InQ(q)' <=> (InQ(q) \/ q = p)
      /\ \A c \in Cell : InQCell(c)' <=> (InQCell(c) \/ c = p)
  BY <1>1, <1>2 DEF InQ, InQCell, Blocking
<1>6. \A c \in Cell : InQCell(c) => c # p /\ lockNext[c] # p
  BY <1>2, <1>5 DEF InQCell, StructInv, ListInv
<1>7. ControlInv'
  BY <1>1 DEF StructInv, ControlInv, Critical
<1>8. CallInv'
  BY <1>1 DEF StructInv, CallInv, Blocking
<1>9. ListInv'
  <2>1. ASSUME NEW c \in Cell, InQCell(c)'
        PROVE  (lockNext[c] = NULL \/ InQ(lockNext[c]))'
    <3>1. CASE c = p
      <4>1. InQCell(Head)
        BY DEF InQCell
      <4>2. lockNext[Head] = NULL \/ InQ(lockNext[Head])
        BY <1>2, <4>1 DEF StructInv, ListInv
      <4> QED BY <1>2, <1>4, <1>5, <3>1, <4>2
    <3>2. CASE c # p
      <4>1. lockNext[c] = NULL \/ InQ(lockNext[c])
        BY <1>5, <2>1, <3>2 DEF StructInv, ListInv
      <4> QED BY <1>2, <1>3, <1>5, <3>2, <4>1
    <3> QED BY <3>1, <3>2
  <2>2. ASSUME NEW c \in Cell, NEW d \in Cell, InQCell(c)', InQCell(d)',
               lockNext'[c] = lockNext'[d], lockNext'[c] # NULL
        PROVE  c = d
    <3>1. InQCell(Head)
      BY DEF InQCell
    <3>2. ASSUME NEW e \in Cell, InQCell(e), lockNext'[p] = lockNext'[e],
                 lockNext'[p] # NULL
          PROVE  FALSE
      <4>1. lockNext'[p] = lockNext[Head] /\ lockNext'[Head] = p
        BY <1>4, <3>2
      <4>2. e # p /\ e # Head /\ lockNext'[e] = lockNext[e]
        BY <1>2, <1>3, <1>6, <3>1, <3>2, <4>1
      <4> QED BY <1>2, <3>1, <3>2, <4>1, <4>2 DEF StructInv, ListInv
    <3>3. CASE c = p
      BY <1>5, <2>2, <3>2, <3>3
    <3>4. CASE d = p
      BY <1>5, <2>2, <3>2, <3>4
    <3>5. CASE c # p /\ d # p
      <4>1. InQCell(c) /\ InQCell(d) /\ lockNext[c] # p /\ lockNext[d] # p
        BY <1>5, <1>6, <2>2, <3>5
      <4> QED BY <1>3, <2>2, <3>5, <4>1 DEF StructInv, ListInv
    <3> QED BY <3>3, <3>4, <3>5
  <2>3. \A q \in Proc : pc'[q] \notin Walk \cup Grant
    BY <1>1 DEF StructInv, ControlInv, Critical, Walk, Grant
  <2> QED BY <2>1, <2>2, <2>3 DEF ListInv
<1>10. RankInv'
  <2>1. PICK r \in [Proc -> Nat] : Ranks(r)
    BY DEF StructInv, RankInv
  <2>2. CASE lockNext'[p] = NULL
    <3> DEFINE s == IF t \in Proc /\ t # p THEN [r EXCEPT ![p] = r[t] + 1] ELSE r
    <3>1. s \in [Proc -> Nat] /\ \A q \in Proc : q # p => s[q] = r[q]
      OBVIOUS
    <3>2. ASSUME NEW q \in Proc, InQ(q)', lockNext'[q] # NULL
          PROVE  s[q] < s[lockNext'[q]]
      <4>1. q # p /\ InQ(q) /\ InQCell(q) /\ q \in Cell
        BY <1>5, <2>2, <3>2 DEF InQCell, Cell
      <4>2. CASE q = t
        <5>1. lockNext'[q] = p /\ s[p] = r[t] + 1 /\ s[q] = r[t]
          BY <1>3, <4>1, <4>2
        <5> QED BY <4>2, <5>1
      <4>3. CASE q # t
        <5>1. lockNext'[q] = lockNext[q] /\ lockNext[q] # p /\ lockNext[q] \in Proc
          BY <1>2, <1>3, <1>6, <3>2, <4>1, <4>3
        <5> QED BY <2>1, <3>1, <3>2, <4>1, <5>1 DEF Ranks
      <4> QED BY <4>2, <4>3
    <3>3. Ranks(s)'
      BY <3>2 DEF Ranks
    <3> QED BY <3>1, <3>3 DEF RankInv
  <2>3. CASE lockNext'[p] # NULL
    <3>1. PICK h \in Proc :
            h = lockNext[Head] /\ lockNext'[p] = h /\ lockNext'[Head] = p /\ h # p
      BY <1>2, <1>4, <1>6, <2>3 DEF InQCell
    <3> DEFINE s == [q \in Proc |-> IF q = p THEN 0 ELSE r[q] + 1]
    <3>2. s \in [Proc -> Nat] /\ s[p] = 0 /\ \A q \in Proc : q # p => s[q] = r[q] + 1
      BY <3>1
    <3>3. t = Head
      BY <1>2, <1>3, <1>6, <3>1 DEF InQCell
    <3>4. ASSUME NEW q \in Proc, InQ(q)', lockNext'[q] # NULL
          PROVE  s[q] < s[lockNext'[q]]
      <4>1. CASE q = p
        BY <3>1, <3>2, <4>1
      <4>2. CASE q # p
        <5>1. InQ(q) /\ InQCell(q) /\ q \in Cell /\ q # Head
          BY <1>5, <3>4, <4>2, CellAssumption DEF InQCell, Cell
        <5>2. lockNext'[q] = lockNext[q] /\ lockNext[q] # p /\ lockNext[q] \in Proc
          BY <1>2, <1>3, <1>6, <3>3, <3>4, <4>2, <5>1
        <5> QED BY <2>1, <3>2, <3>4, <4>2, <5>1, <5>2 DEF Ranks
      <4> QED BY <4>1, <4>2
    <3>5. Ranks(s)'
      BY <3>4 DEF Ranks
    <3> QED BY <3>2, <3>5 DEF RankInv
  <2> QED BY <2>2, <2>3
<1> QED BY <1>7, <1>8, <1>9, <1>10 DEF Structure

-----------------------------------------------------------------------------
(***************************************************************************)
(* Exclusion and the wait bits, from the effects above.                    *)
(***************************************************************************)
\* The test against the active counts is conclusive: if it finds no conflict
\* for m beyond p's own modes, nobody else owns a mode conflicting with m.
LEMMA NobodyElse ==
  ASSUME StructInv, CountInv, NEW p \in Proc, NEW m \in Mode,
         NEW own, own \subseteq ClaimMap[p], ~ActiveConflict(m, own)
  PROVE  \A q \in Proc : q # p => HeldMap[q] \cap Conflicts[m] = {}
<1>1. ASSUME NEW q \in Proc, q # p, NEW n \in Conflicts[m]
      PROVE  n \notin ClaimMap[q]
  <2>1. active \in [Mode -> Nat] /\ Counts(active, ClaimMap) /\ n \in Mode
    BY ConflictsAssumption DEF StructInv, TypeOK, CountInv
  <2>2. active[n] - Own(own, n) = 0
    BY DEF ActiveConflict
  <2> QED BY <1>1, <2>1, <2>2, CountZero
<1>2. \A q \in Proc : HeldMap[q] \subseteq ClaimMap[q]
  BY DEF HeldMap, ClaimMap, Claim
<1> QED BY <1>1, <1>2

\* Owning less, or the same, excludes as before.
LEMMA ExclusionKept ==
  ASSUME MutualExclusion, \A q \in Proc : HeldMap'[q] \subseteq HeldMap[q]
  PROVE  MutualExclusion'
BY DEF MutualExclusion, HeldMap

\* One more mode excludes if it is free of the others.
LEMMA ExclusionAdded ==
  ASSUME StructInv, MutualExclusion, NEW p \in Proc, NEW m \in Mode,
         Adds(HeldMap, HeldMap', p, m),
         \A q \in Proc : q # p => HeldMap[q] \cap Conflicts[m] = {}
  PROVE  MutualExclusion'
<1> SUFFICES ASSUME NEW q \in Proc, NEW r \in Proc, q # r,
                    NEW k \in Held(q)', NEW n \in Held(r)'
             PROVE  n \notin Conflicts[k]
  BY DEF MutualExclusion
<1>1. /\ k \in HeldMap'[q] /\ n \in HeldMap'[r]
      /\ \A s \in Proc : HeldMap[s] = Held(s) /\ HeldMap[s] \subseteq HeldMap'[s]
      /\ HeldMap'[q] = IF q = p THEN HeldMap[q] \cup {m} ELSE HeldMap[q]
      /\ HeldMap'[r] = IF r = p THEN HeldMap[r] \cup {m} ELSE HeldMap[r]
  BY DEF HeldMap, Adds
<1>2. CASE k \in HeldMap[q] /\ n \in HeldMap[r]
  BY <1>1, <1>2 DEF MutualExclusion
<1>3. CASE k \notin HeldMap[q]
  BY <1>1, <1>3
<1>4. CASE n \notin HeldMap[r]
  <2>1. r = p /\ n = m /\ k \in HeldMap[q] /\ k \notin Conflicts[n]
    BY <1>1, <1>4
  <2>2. k \in Mode
    BY <2>1 DEF HeldMap, Held, StructInv, TypeOK
  <2> QED BY <2>1, <2>2, ConflictsAssumption
<1> QED BY <1>2, <1>3, <1>4

\* A wait bit for each mode that a map names.
Bits(w, C) == \A m \in Mode : w[m] <=> \E q \in Proc : m \in C[q]

\* WaitBitsExact, stated over the map of pending modes.
LEMMA BitsExact == WaitBitsExact <=> Bits(waiting, PendMap)
BY DEF WaitBitsExact, Bits, PendMap

\* The same in the next state.
LEMMA BitsExactNext == WaitBitsExact' <=> Bits(waiting', PendMap')
BY DEF WaitBitsExact, Bits, PendMap

-----------------------------------------------------------------------------
(***************************************************************************)
(* The invariant is inductive.                                             *)
(***************************************************************************)
\* The types of all but the two counters; a step keeps them.
OtherTypes ==
  /\ waiting \in [Mode -> BOOLEAN]
  /\ queueLock \in Proc \cup {NULL}
  /\ lockNext \in [Cell -> Proc \cup {NULL}]
  /\ waiterTail \in Cell \cup {NULL}
  /\ wantMode \in [Proc -> Mode \cup {NULL}]
  /\ isUpgrade \in [Proc -> BOOLEAN]
  /\ waitHolding \in [Proc -> SUBSET Mode]
  /\ awaited \in [Proc -> BOOLEAN]
  /\ holding \in [Proc -> SUBSET Mode]
  /\ wakeup \in [Proc -> BOOLEAN]
  /\ prevLink \in Cell
  /\ pc \in [Proc -> Label]
  /\ arg \in [Proc -> Mode \cup {NULL}]

\* The counters of a state.
Counters == /\ active \in [Mode -> Nat] /\ waitCounts \in [Mode -> Nat]
            /\ Counts(active, ClaimMap) /\ Counts(waitCounts, WaitMap)

\* The inductive invariant from its parts.
LEMMA Recompose ==
  ASSUME OtherTypes', Structure', Counters', MutualExclusion', WaitBitsExact'
  PROVE  IInv'
BY DEF OtherTypes, Structure, Counters, IInv, StructInv, TypeOK, CountInv

\* Counters that do not change, of maps that do not change.
LEMMA CountSame ==
  ASSUME NEW a, NEW C, NEW D, Counts(a, C), Same(C, D)
  PROVE  Counts(a, D)
<1>1. \A m \in Mode : {q \in Proc : m \in C[q]} = {q \in Proc : m \in D[q]}
  BY DEF Same
<1> QED BY <1>1 DEF Counts

\* Type correctness of the actions that leave the counters alone.
LEMMA TypesQuiet ==
  ASSUME StructInv, NEW p \in Proc, Quiet(p)
  PROVE  OtherTypes'
<1> USE DEF StructInv, TypeOK, OtherTypes, lockWord, queue, local
<1>1. CASE AcquireQueueLock(p) \/ ReleaseQueueLock(p)
  BY <1>1 DEF AcquireQueueLock, ReleaseQueueLock, Label
<1>2. CASE WakeBegin(p) \/ WakeSkip(p)
  <2>1. WakeSkip(p) => Candidate \in Proc
    BY CandidateQueued DEF WakeSkip
  <2> QED BY <1>2, <2>1 DEF WakeBegin, WakeSkip, Label, ToWalk, Cell
<1>3. CASE AcquireSleep(p) \/ ReleaseReturn(p)
  BY <1>3 DEF AcquireSleep, ReleaseReturn, Label
<1>4. CASE AcquireReturn(p)
  <2>1. arg[p] \in Mode
    BY <1>4 DEF AcquireReturn, CallInv, Blocking
  <2> QED BY <1>4, <2>1 DEF AcquireReturn, Label
<1> QED BY <1>1, <1>2, <1>3, <1>4 DEF Quiet

\* Type correctness of the actions that only change the lock word.
LEMMA TypesFast ==
  ASSUME StructInv, NEW p \in Proc, NEW m \in Mode,
         \/ AcquireAtOnce(p, m) \/ AcquireContended(p, m)
         \/ ReleaseFast(p, m) \/ ReleaseContended(p, m)
  PROVE  OtherTypes'
BY DEF StructInv, TypeOK, OtherTypes, queue, local, Label,
   AcquireAtOnce, AcquireContended, ReleaseFast, ReleaseContended

\* Type correctness of joining the queue, given that of the counters.
LEMMA TypesEnqueue ==
  ASSUME StructInv, NEW p \in Proc, Enqueue(p)
  PROVE  OtherTypes'
<1>1. lockNext' \in [Cell -> Proc \cup {NULL}] /\ arg[p] \in Mode
  BY EnqueueLinks, EnqueueMaps
<1>2. waiterTail' \in Cell \cup {NULL}
  BY DEF Enqueue, Prepend, AppendFair, StructInv, TypeOK, Cell
<1> QED BY <1>1, <1>2 DEF Enqueue, StructInv, TypeOK, OtherTypes, local, Label

\* Type correctness of wake's two halves, given that of the counters.
LEMMA TypesWake ==
  ASSUME StructInv, NEW p \in Proc, WakeGrant(p) \/ WakeUnlink(p)
  PROVE  OtherTypes'
<1>1. Candidate \in Proc /\ wantMode[Candidate] \in Mode
  BY WakeGrantMaps, WakeUnlinkMaps
<1>2. Proc \subseteq Cell
  BY DEF Cell
<1>3. CASE WakeGrant(p)
  BY <1>1, <1>3 DEF WakeGrant, StructInv, TypeOK, OtherTypes, local, queue,
     Label, ToGrant
<1>4. CASE WakeUnlink(p)
  BY <1>1, <1>2, <1>4 DEF WakeUnlink, StructInv, TypeOK, OtherTypes, lockWord,
     local, Label, ToWalk
<1> QED BY <1>3, <1>4

\* The fast path of gslAcquire preserves the invariant: a count of zero on
\* every conflicting mode excludes every conflicting holder.
LEMMA AcquireAtOnceStep ==
  ASSUME IInv, NEW p \in Proc, NEW m \in Mode, AcquireAtOnce(p, m)
  PROVE  IInv'
<1> USE DEF IInv
<1>1. /\ m \notin ClaimMap[p]
      /\ Adds(ClaimMap, ClaimMap', p, m) /\ Adds(HeldMap, HeldMap', p, m)
      /\ Same(WaitMap, WaitMap') /\ Same(PendMap, PendMap')
  BY AcquireAtOnceMaps
<1>2. OtherTypes' /\ Structure'
  BY TypesFast, FastStructure
<1>3. Counters'
  <2>1. /\ active \in [Mode -> Nat] /\ Counts(active, ClaimMap)
        /\ active' = [active EXCEPT ![m] = @ + 1]
        /\ waitCounts' = waitCounts /\ waitCounts \in [Mode -> Nat]
        /\ Counts(waitCounts, WaitMap)
    BY DEF AcquireAtOnce, queue, StructInv, TypeOK, CountInv
  <2>2. active' \in [Mode -> Nat] /\ Counts(active', ClaimMap')
    BY <1>1, <2>1, CountUp
  <2>3. Counts(waitCounts', WaitMap')
    BY <1>1, <2>1, CountSame
  <2> QED BY <2>1, <2>2, <2>3 DEF Counters, Counts
<1>4. MutualExclusion'
  <2>1. ~ActiveConflict(m, holding[p])
    BY DEF AcquireAtOnce, MustWait
  <2>2. holding[p] \subseteq ClaimMap[p]
    BY DEF ClaimMap, Claim, Held
  <2>3. \A q \in Proc : q # p => HeldMap[q] \cap Conflicts[m] = {}
    BY <2>1, <2>2, NobodyElse
  <2> QED BY <1>1, <2>3, ExclusionAdded
<1>5. WaitBitsExact'
  BY <1>1, BitsExact, BitsExactNext DEF AcquireAtOnce, Bits, Same
<1> QED BY <1>2, <1>3, <1>4, <1>5, Recompose

\* The transient count of gslAcquire preserves the invariant.
LEMMA AcquireContendedStep ==
  ASSUME IInv, NEW p \in Proc, NEW m \in Mode, AcquireContended(p, m)
  PROVE  IInv'
<1> USE DEF IInv
<1>1. /\ m \notin ClaimMap[p]
      /\ Adds(ClaimMap, ClaimMap', p, m) /\ Same(HeldMap, HeldMap')
      /\ Same(WaitMap, WaitMap') /\ Same(PendMap, PendMap')
  BY AcquireContendedMaps
<1>2. OtherTypes' /\ Structure'
  BY TypesFast, FastStructure
<1>3. Counters'
  <2>1. /\ active \in [Mode -> Nat] /\ Counts(active, ClaimMap)
        /\ active' = [active EXCEPT ![m] = @ + 1]
        /\ waitCounts' = waitCounts /\ waitCounts \in [Mode -> Nat]
        /\ Counts(waitCounts, WaitMap)
    BY DEF AcquireContended, queue, StructInv, TypeOK, CountInv
  <2>2. active' \in [Mode -> Nat] /\ Counts(active', ClaimMap')
    BY <1>1, <2>1, CountUp
  <2>3. Counts(waitCounts', WaitMap')
    BY <1>1, <2>1, CountSame
  <2> QED BY <2>1, <2>2, <2>3 DEF Counters, Counts
<1>4. MutualExclusion'
  BY <1>1, ExclusionKept DEF Same
<1>5. WaitBitsExact'
  BY <1>1, BitsExact, BitsExactNext DEF AcquireContended, Bits, Same
<1> QED BY <1>2, <1>3, <1>4, <1>5, Recompose

\* Undoing the transient count and queueing preserves the invariant.
LEMMA EnqueueStep ==
  ASSUME IInv, NEW p \in Proc, Enqueue(p)
  PROVE  IInv'
<1> USE DEF IInv
<1>1. /\ arg[p] \in Mode /\ arg[p] \in ClaimMap[p] /\ arg[p] \notin WaitMap[p]
      /\ Drops(ClaimMap, ClaimMap', p, arg[p]) /\ Same(HeldMap, HeldMap')
      /\ Adds(WaitMap, WaitMap', p, arg[p]) /\ Adds(PendMap, PendMap', p, arg[p])
  BY EnqueueMaps
<1>2. OtherTypes' /\ Structure'
  BY TypesEnqueue, EnqueueStructure
<1>3. Counters'
  <2>1. /\ active \in [Mode -> Nat] /\ Counts(active, ClaimMap)
        /\ active' = [active EXCEPT ![arg[p]] = @ - 1]
        /\ waitCounts \in [Mode -> Nat] /\ Counts(waitCounts, WaitMap)
        /\ waitCounts' = [waitCounts EXCEPT ![arg[p]] = @ + 1]
    BY DEF Enqueue, StructInv, TypeOK, CountInv
  <2>2. active' \in [Mode -> Nat] /\ Counts(active', ClaimMap')
    BY <1>1, <2>1, CountDown
  <2>3. waitCounts' \in [Mode -> Nat] /\ Counts(waitCounts', WaitMap')
    BY <1>1, <2>1, CountUp
  <2> QED BY <2>2, <2>3 DEF Counters, Counts
<1>4. MutualExclusion'
  BY <1>1, ExclusionKept DEF Same
<1>5. WaitBitsExact'
  <2>1. waiting \in [Mode -> BOOLEAN] /\ waiting' = [waiting EXCEPT ![arg[p]] = TRUE]
    BY DEF Enqueue, StructInv, TypeOK
  <2>2. arg[p] \in PendMap'[p] /\ waiting'[arg[p]]
    BY <1>1, <2>1 DEF Adds
  <2>3. ASSUME NEW n \in Mode, n # arg[p]
        PROVE  waiting'[n] <=> \E q \in Proc : n \in PendMap'[q]
    <3>1. waiting'[n] = waiting[n] /\ \A q \in Proc : n \in PendMap'[q] <=> n \in PendMap[q]
      BY <1>1, <2>1, <2>3 DEF Adds
    <3> QED BY <3>1, BitsExact DEF Bits
  <2>4. Bits(waiting', PendMap')
    BY <2>2, <2>3 DEF Bits
  <2> QED BY <2>4, BitsExactNext
<1> QED BY <1>2, <1>3, <1>4, <1>5, Recompose

\* wake's compare-and-swap preserves the invariant: the grant excludes the
\* other holders, and the wait bit goes with the last waiter of its mode.
LEMMA WakeGrantStep ==
  ASSUME IInv, NEW p \in Proc, WakeGrant(p)
  PROVE  IInv'
<1> USE DEF IInv
<1>1. PICK q, m : q = Candidate /\ m = wantMode[q]
  OBVIOUS
<1>2. /\ q \in Proc /\ m \in Mode /\ m \notin ClaimMap[q]
      /\ m \in WaitMap[q] /\ PendMap = WaitMap
      /\ Adds(ClaimMap, ClaimMap', q, m) /\ Adds(HeldMap, HeldMap', q, m)
      /\ Same(WaitMap, WaitMap') /\ Drops(PendMap, PendMap', q, m)
  BY <1>1, WakeGrantMaps
<1>3. OtherTypes' /\ Structure'
  BY TypesWake, WakeGrantStructure
<1>4. /\ active \in [Mode -> Nat] /\ Counts(active, ClaimMap)
      /\ active' = [active EXCEPT ![m] = @ + 1]
      /\ waitCounts' = waitCounts /\ waitCounts \in [Mode -> Nat]
      /\ Counts(waitCounts, WaitMap)
      /\ waiting \in [Mode -> BOOLEAN]
      /\ waiting' = [waiting EXCEPT ![m] = @ /\ waitCounts[m] # 1]
  BY <1>1 DEF WakeGrant, queue, StructInv, TypeOK, CountInv
<1>5. Counters'
  <2>1. active' \in [Mode -> Nat] /\ Counts(active', ClaimMap')
    BY <1>2, <1>4, CountUp
  <2>2. Counts(waitCounts', WaitMap')
    BY <1>2, <1>4, CountSame
  <2> QED BY <1>4, <2>1, <2>2 DEF Counters, Counts
<1>6. MutualExclusion'
  <2>1. ~ActiveConflict(m, holding[q])
    BY <1>1, CandidateQueued DEF WakeGrant, Blocked
  <2>2. holding[q] \subseteq ClaimMap[q]
    BY <1>2 DEF ClaimMap, Claim, Held
  <2>3. \A r \in Proc : r # q => HeldMap[r] \cap Conflicts[m] = {}
    BY <1>2, <2>1, <2>2, NobodyElse
  <2> QED BY <1>2, <2>3, ExclusionAdded
<1>7. WaitBitsExact'
  <2>1. waitCounts[m] # 1 <=> \E r \in Proc : r # q /\ m \in PendMap[r]
    BY <1>2, <1>4, CountOne
  <2>2. waiting[m] /\ (waiting'[m] <=> waitCounts[m] # 1)
    BY <1>2, <1>4, BitsExact DEF Bits
  <2>3. waiting'[m] <=> \E r \in Proc : m \in PendMap'[r]
    BY <1>2, <2>1, <2>2 DEF Drops
  <2>4. ASSUME NEW n \in Mode, n # m
        PROVE  waiting'[n] <=> \E r \in Proc : n \in PendMap'[r]
    <3>1. /\ waiting'[n] = waiting[n]
          /\ \A r \in Proc : n \in PendMap'[r] <=> n \in PendMap[r]
      BY <1>2, <1>4, <2>4 DEF Drops
    <3> QED BY <3>1, BitsExact DEF Bits
  <2>5. Bits(waiting', PendMap')
    BY <2>3, <2>4 DEF Bits
  <2> QED BY <2>5, BitsExactNext
<1> QED BY <1>3, <1>5, <1>6, <1>7, Recompose

\* Unlinking and waking the granted process preserves the invariant.
LEMMA WakeUnlinkStep ==
  ASSUME IInv, NEW p \in Proc, WakeUnlink(p)
  PROVE  IInv'
<1> USE DEF IInv
<1>1. PICK q, m : q = Candidate /\ m = wantMode[q]
  OBVIOUS
<1>2. /\ q \in Proc /\ m \in Mode /\ m \in WaitMap[q]
      /\ Same(ClaimMap, ClaimMap') /\ Same(HeldMap, HeldMap')
      /\ Drops(WaitMap, WaitMap', q, m) /\ Same(PendMap, PendMap')
  BY <1>1, WakeUnlinkMaps
<1>3. OtherTypes' /\ Structure'
  BY TypesWake, WakeUnlinkStructure
<1>4. Counters'
  <2>1. /\ active' = active /\ active \in [Mode -> Nat] /\ Counts(active, ClaimMap)
        /\ waitCounts \in [Mode -> Nat] /\ Counts(waitCounts, WaitMap)
        /\ waitCounts' = [waitCounts EXCEPT ![m] = @ - 1]
    BY <1>1 DEF WakeUnlink, lockWord, StructInv, TypeOK, CountInv
  <2>2. Counts(active', ClaimMap')
    BY <1>2, <2>1, CountSame
  <2>3. waitCounts' \in [Mode -> Nat] /\ Counts(waitCounts', WaitMap')
    BY <1>2, <2>1, CountDown
  <2> QED BY <2>1, <2>2, <2>3 DEF Counters, Counts
<1>5. MutualExclusion'
  BY <1>2, ExclusionKept DEF Same
<1>6. WaitBitsExact'
  BY <1>2, BitsExact, BitsExactNext DEF WakeUnlink, lockWord, Bits, Same
<1> QED BY <1>3, <1>4, <1>5, <1>6, Recompose

\* Both paths of gslRelease preserve the invariant.
LEMMA ReleaseStep ==
  ASSUME IInv, NEW p \in Proc, NEW m \in Mode,
         ReleaseFast(p, m) \/ ReleaseContended(p, m)
  PROVE  IInv'
<1> USE DEF IInv
<1>1. /\ m \in ClaimMap[p]
      /\ Drops(ClaimMap, ClaimMap', p, m) /\ Drops(HeldMap, HeldMap', p, m)
      /\ Same(WaitMap, WaitMap') /\ Same(PendMap, PendMap')
  BY ReleaseMaps
<1>2. OtherTypes' /\ Structure'
  BY TypesFast, FastStructure
<1>3. /\ active \in [Mode -> Nat] /\ Counts(active, ClaimMap)
      /\ active' = [active EXCEPT ![m] = @ - 1]
      /\ UNCHANGED <<waiting, waitCounts>>
      /\ waitCounts \in [Mode -> Nat] /\ Counts(waitCounts, WaitMap)
  BY DEF ReleaseFast, ReleaseContended, queue, StructInv, TypeOK, CountInv
<1>4. Counters'
  <2>1. active' \in [Mode -> Nat] /\ Counts(active', ClaimMap')
    BY <1>1, <1>3, CountDown
  <2>2. Counts(waitCounts', WaitMap')
    BY <1>1, <1>3, CountSame
  <2> QED BY <1>3, <2>1, <2>2 DEF Counters, Counts
<1>5. MutualExclusion'
  BY <1>1, ExclusionKept DEF Drops
<1>6. WaitBitsExact'
  BY <1>1, <1>3, BitsExact, BitsExactNext DEF Bits, Same
<1> QED BY <1>2, <1>4, <1>5, <1>6, Recompose

\* The actions that move only control, queueLock and wake's cursor preserve
\* the invariant.
LEMMA QuietStep ==
  ASSUME IInv, NEW p \in Proc, Quiet(p)
  PROVE  IInv'
<1> USE DEF IInv
<1>1. /\ Same(ClaimMap, ClaimMap') /\ Same(HeldMap, HeldMap')
      /\ Same(WaitMap, WaitMap') /\ Same(PendMap, PendMap')
      /\ UNCHANGED <<active, waiting, waitCounts>>
  BY QuietMaps
<1>2. OtherTypes' /\ Structure'
  BY TypesQuiet, QuietStructure
<1>3. Counters'
  <2>1. /\ active \in [Mode -> Nat] /\ Counts(active, ClaimMap)
        /\ waitCounts \in [Mode -> Nat] /\ Counts(waitCounts, WaitMap)
    BY DEF StructInv, TypeOK, CountInv
  <2>2. Counts(active', ClaimMap') /\ Counts(waitCounts', WaitMap')
    BY <1>1, <2>1, CountSame
  <2> QED BY <1>1, <2>1, <2>2 DEF Counters, Counts
<1>4. MutualExclusion'
  BY <1>1, ExclusionKept DEF Same
<1>5. WaitBitsExact'
  BY <1>1, BitsExact, BitsExactNext DEF Bits, Same
<1> QED BY <1>2, <1>3, <1>4, <1>5, Recompose

\* A step that leaves every variable alone preserves the invariant.
LEMMA StutterStep ==
  ASSUME IInv, UNCHANGED vars
  PROVE  IInv'
<1> USE DEF IInv, vars
<1>1. OtherTypes' /\ active' \in [Mode -> Nat] /\ waitCounts' \in [Mode -> Nat]
  BY DEF StructInv, TypeOK, OtherTypes
<1>2. Structure'
  BY DEF StructInv, Structure, ControlInv, CallInv, ListInv, RankInv, Ranks,
     InQ, InQCell, Blocking, Candidate
<1>3. \A q \in Proc : Granted(q)' = Granted(q) /\ Blocking(q)' = Blocking(q)
  BY DEF Granted, Blocking, Candidate
<1>4. HeldMap' = HeldMap
  BY <1>3 DEF HeldMap, Held
<1>5. ClaimMap' = ClaimMap
  BY <1>3 DEF ClaimMap, Claim, Held
<1>6. WaitMap' = WaitMap /\ PendMap' = PendMap
  BY <1>3 DEF WaitMap, PendMap, InQ, Waits
<1>7. Counters'
  BY <1>1, <1>5, <1>6 DEF Counters, CountInv, Counts
<1>8. MutualExclusion'
  BY <1>4, ExclusionKept
<1>9. WaitBitsExact'
  BY <1>6, BitsExact, BitsExactNext
<1> QED BY <1>1, <1>2, <1>7, <1>8, <1>9, Recompose

\* gslLockInit establishes the invariant.
LEMMA IInvInit == Init => IInv
<1> SUFFICES ASSUME Init PROVE IInv
  OBVIOUS
<1>1. TypeOK
  BY DEF Init, TypeOK, Cell, Label
<1>2. \A q \in Proc : ~Blocking(q) /\ ~Granted(q) /\ pc[q] = "idle" /\ holding[q] = {}
  BY DEF Init, Blocking, Granted, Grant
<1>3. ControlInv /\ CallInv
  BY <1>2, CellAssumption DEF Init, ControlInv, CallInv, Critical, Walk, Grant
<1>4. ListInv
  BY <1>2 DEF Init, ListInv, InQCell, InQ, Cell, Walk, Grant
<1>5. RankInv
  <2> DEFINE r == [q \in Proc |-> 0]
  <2>1. r \in [Proc -> Nat] /\ Ranks(r)
    BY <1>2 DEF Ranks, InQ
  <2> QED BY <2>1 DEF RankInv
<1>6. \A q \in Proc : Held(q) = {} /\ Claim(q) = {} /\ ~InQ(q) /\ ~Waits(q)
  BY <1>2 DEF Held, Claim, InQ, Waits
<1>7. CountInv
  <2>1. /\ \A m \in Mode : {q \in Proc : m \in ClaimMap[q]} = {}
        /\ \A m \in Mode : {q \in Proc : m \in WaitMap[q]} = {}
    BY <1>6 DEF ClaimMap, WaitMap
  <2> QED BY <2>1, FS_EmptySet DEF CountInv, Counts, Init
<1>8. MutualExclusion
  BY <1>6 DEF MutualExclusion
<1>9. WaitBitsExact
  BY <1>6 DEF WaitBitsExact, Init
<1> QED BY <1>1, <1>3, <1>4, <1>5, <1>7, <1>8, <1>9 DEF IInv, StructInv

\* Every step of every process preserves the invariant.
LEMMA IInvNext == IInv /\ [Next]_vars => IInv'
<1> SUFFICES ASSUME IInv, [Next]_vars PROVE IInv'
  OBVIOUS
<1>1. CASE UNCHANGED vars
  BY <1>1, StutterStep
<1>2. ASSUME NEW p \in Proc, Call(p) PROVE IInv'
  BY <1>2, AcquireAtOnceStep, AcquireContendedStep, StutterStep
  DEF Call, AcquireRefused
<1>3. ASSUME NEW p \in Proc, Return(p) PROVE IInv'
  BY <1>3, ReleaseStep DEF Return
<1>4. ASSUME NEW p \in Proc, TakeQueueLock(p) PROVE IInv'
  BY <1>4, QuietStep DEF TakeQueueLock, Quiet
<1>5. ASSUME NEW p \in Proc, Continue(p) PROVE IInv'
  BY <1>5, EnqueueStep, WakeGrantStep, WakeUnlinkStep, QuietStep
  DEF Continue, Quiet
<1> QED BY <1>1, <1>2, <1>3, <1>4, <1>5 DEF Next

-----------------------------------------------------------------------------
(***************************************************************************)
(* The theorems.                                                           *)
(***************************************************************************)
\* Every reachable state satisfies the inductive invariant.
THEOREM Invariance == Spec => []IInv
<1>1. Init => IInv
  BY IInvInit
<1>2. IInv /\ [Next]_vars => IInv'
  BY IInvNext
<1> QED BY <1>1, <1>2, PTL DEF Spec

\* Type correctness of gslAcquire, gslRelease and wake: among other things no
\* counter of the lock word and no wait count is ever decremented below zero.
THEOREM TypeCorrect == Spec => []TypeOK
<1>1. IInv => TypeOK
  BY DEF IInv, StructInv
<1> QED BY <1>1, Invariance, PTL

\* Two processes never own conflicting modes, whatever the conflict table, the
\* number of processes and the upgrades.
THEOREM Exclusion == Spec => []MutualExclusion
<1>1. IInv => MutualExclusion
  BY DEF IInv
<1> QED BY <1>1, Invariance, PTL

\* The lock word counts exactly the modes owned or tried for.
THEOREM LockWordExact == Spec => []CountsExact
<1>1. IInv => CountsExact
  <2> SUFFICES ASSUME IInv, NEW m \in Mode
               PROVE  active[m] = Cardinality({p \in Proc : m \in Claim(p)})
    BY DEF CountsExact
  <2>1. {q \in Proc : m \in ClaimMap[q]} = {p \in Proc : m \in Claim(p)}
    BY DEF ClaimMap
  <2> QED BY <2>1 DEF IInv, CountInv, Counts
<1> QED BY <1>1, Invariance, PTL

\* The wait bits tell exactly which modes have a request that waits.
THEOREM WaitBitsCorrect == Spec => []WaitBitsExact
<1>1. IInv => WaitBitsExact
  BY DEF IInv
<1> QED BY <1>1, Invariance, PTL

\* The asserts at the entry of gslAcquire and gslRelease never fail.
THEOREM EntryAssertsHold == Spec => []EntryAsserts
<1>1. IInv => EntryAsserts
  <2> SUFFICES ASSUME IInv, NEW p \in Proc, pc[p] = "idle"
               PROVE  ~awaited[p] /\ \A m \in holding[p] : active[m] # 0
    BY DEF EntryAsserts
  <2>1. ~awaited[p]
    BY DEF IInv, StructInv, CallInv
  <2>2. ASSUME NEW m \in holding[p] PROVE active[m] # 0
    <3> DEFINE S == {q \in Proc : m \in ClaimMap[q]}
    <3>1. m \in Mode /\ p \in S
      BY DEF IInv, StructInv, TypeOK, ClaimMap, Claim, Held
    <3>2. IsFiniteSet(S) /\ active[m] = Cardinality(S)
      BY <3>1, ProcAssumption, FS_Subset DEF IInv, CountInv, Counts
    <3> QED BY <3>1, <3>2, FS_EmptySet
  <2> QED BY <2>1, <2>2
<1> QED BY <1>1, Invariance, PTL

\* No fast path overtakes a queued request it conflicts with.
THEOREM NoOvertaking == Spec => NoBarging
<1> DEFINE Step ==
      \A p, q \in Proc :
        Waits(q) /\ holding[p] = {} /\ ~Granted(p) =>
          \A m \in holding'[p] : wantMode[q] \notin Conflicts[m]
<1>1. IInv /\ [Next]_vars => Step \/ UNCHANGED vars
  <2> SUFFICES ASSUME IInv, Next, NEW p \in Proc, NEW q \in Proc, Waits(q),
                      holding[p] = {}, ~Granted(p), NEW m \in holding'[p]
               PROVE  wantMode[q] \notin Conflicts[m]
    OBVIOUS
  <2>1. PICK r \in Proc : Call(r) \/ Return(r) \/ TakeQueueLock(r) \/ Continue(r)
    BY DEF Next
  <2>2. holding \in [Proc -> SUBSET Mode] /\ wantMode[q] \in Mode
    BY DEF IInv, StructInv, TypeOK, CallInv, Waits
  <2>3. ~(Return(r) \/ TakeQueueLock(r))
    BY <2>2 DEF Return, ReleaseFast, ReleaseContended, TakeQueueLock,
       AcquireQueueLock, ReleaseQueueLock, local
  <2>4. ~Continue(r)
    <3>1. ~AcquireReturn(r)
      BY <2>2 DEF AcquireReturn, Granted
    <3> QED BY <2>2, <3>1 DEF Continue, Enqueue, WakeBegin, WakeGrant, WakeUnlink,
           WakeSkip, AcquireSleep, ReleaseReturn, local
  <2>5. AcquireAtOnce(p, m)
    BY <2>1, <2>2, <2>3, <2>4 DEF Call, AcquireAtOnce, AcquireRefused,
       AcquireContended, local, vars
  <2>6. \A n \in Conflicts[m] : ~waiting[n]
    BY <2>5 DEF AcquireAtOnce, MustWait, WaitConflict
  <2>7. waiting[wantMode[q]]
    BY <2>2 DEF IInv, WaitBitsExact
  <2> QED BY <2>6, <2>7
<1> QED BY <1>1, Invariance, PTL DEF Spec, NoBarging
=============================================================================
