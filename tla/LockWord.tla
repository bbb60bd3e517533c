------------------------------ MODULE LockWord ------------------------------
(***************************************************************************)
(* The lock word as lc-int128-impl.h packs it: one 128-bit integer with a  *)
(* field of 16 bits per mode, 15 for the active count and the top one for  *)
(* the wait bit.  Every access of gsl-impl.h to the word is replayed on    *)
(* the packed integer next to GSLLock's counters and bits, which are what  *)
(* lc-array.h, the unpacked implementation, keeps.                         *)
(***************************************************************************)
EXTENDS GSLLock, FiniteSetsExt, Bitwise

CONSTANTS
  Index,       \* Index[m]: the number of mode m, 0 .. LC_MAX_MODES - 1
  ActiveBits   \* bits of an active count (the code's 15)

ASSUME WordAssumption ==
  /\ Index \in [Mode -> 0 .. Cardinality(Mode) - 1]
  /\ \A m, n \in Mode : Index[m] = Index[n] => m = n
  /\ Cardinality(Proc) < 2 ^ ActiveBits

VARIABLE c     \* gslLock_t.c

wordVars == <<vars, c>>

BitsPerMode == ActiveBits + 1
WordSize    == 2 ^ (BitsPerMode * Cardinality(Mode))
ActiveMask  == 2 ^ ActiveBits - 1

\* Bug: the wait bit overlaps the top bit of the active count.
WaitMaskLow == 2 ^ (ActiveBits - 1)

WaitMask    == 2 ^ ActiveBits

Shift(x, m) == x * 2 ^ (BitsPerMode * Index[m])

lcActive(m) == Shift(1, m)

lcSetWait(x, m, wait) ==
  IF wait THEN x | Shift(WaitMask, m) ELSE x & (WordSize - 1 - Shift(WaitMask, m))

\* Unsigned arithmetic wraps around.
lcAdd(a, b)      == (a + b) % WordSize
lcSubtract(a, b) == (a - b) % WordSize

lcMaskSet == WordSize - 1

lcGetActive(x, m) == (x \div Shift(1, m)) & ActiveMask

\* Bug: the two masks are swapped.
lcConflictMaskSwapped(m, act, wait) ==
  LET bits == SumSet({lcActive(n) : n \in Conflicts[m]}) IN
  bits * ((IF act THEN WaitMask ELSE 0) | (IF wait THEN ActiveMask ELSE 0))

\* lcInitConflictTable's entry for a mode: one multiplication puts the chosen
\* mask into the field of every conflicting mode.
lcConflictMask(m, act, wait) ==
  LET bits == SumSet({lcActive(n) : n \in Conflicts[m]}) IN
  bits * ((IF act THEN ActiveMask ELSE 0) | (IF wait THEN WaitMask ELSE 0))

\* The modes a process holds, as the word *holding or waitHolding.
Packed(own) == SumSet({lcActive(n) : n \in own})

\* lcNonZero(lcAnd(lcSubtract(c, own), lcConflictMask(...)))
Conflicting(m, own, act, wait) ==
  lcSubtract(c, Packed(own)) & lcConflictMask(m, act, wait) # 0

-----------------------------------------------------------------------------
WordInit == Init /\ c = 0

\* The accesses of gslAcquire, wake and gslRelease to the word.
WordCall(p) ==
  \E m \in Mode :
    \/ (AcquireAtOnce(p, m) \/ AcquireContended(p, m))
         /\ c' = lcAdd(c, lcActive(m))
    \/ AcquireRefused(p, m) /\ UNCHANGED c

WordReturn(p) ==
  \E m \in Mode :
    /\ ReleaseFast(p, m) \/ ReleaseContended(p, m)
    /\ c' = lcSubtract(c, lcActive(m))

WordEnqueue(p) ==
  /\ Enqueue(p)
  /\ c' = lcSubtract(c, lcActive(arg[p])) | lcSetWait(0, arg[p], TRUE)

WordGrant(p) ==
  LET m == wantMode[Candidate]
      waitMask == IF waitCounts[m] = 1 THEN lcSetWait(lcMaskSet, m, FALSE)
                                       ELSE lcMaskSet IN
  /\ WakeGrant(p)
  /\ c' = lcAdd(c, lcActive(m)) & waitMask

\* The steps that do not touch the word.
WordElse(p) ==
  /\ \/ TakeQueueLock(p)
     \/ WakeBegin(p)
     \/ WakeUnlink(p)
     \/ WakeSkip(p)
     \/ AcquireSleep(p)
     \/ AcquireReturn(p)
     \/ ReleaseReturn(p)
  /\ UNCHANGED c

WordNext ==
  \E p \in Proc :
    WordCall(p) \/ WordReturn(p) \/ WordEnqueue(p) \/ WordGrant(p) \/ WordElse(p)

WordSpec == WordInit /\ [][WordNext]_wordVars

\* The word is no variable of its own to the scheduler: GSLLock's fairness.
LiveWordSpec == WordSpec /\ Fairness

-----------------------------------------------------------------------------
\* The packed word and the unpacked counters say the same, up to the largest
\* count a field can hold: no carry or borrow ever leaves a mode's field.
WordExact ==
  \A m \in Mode :
    /\ lcGetActive(c, m) = active[m]
    /\ (c & Shift(WaitMask, m) # 0) <=> waiting[m]

\* Every test the code makes on the packed word has the outcome of the test
\* on the counters: gslAcquire's, wake's, gslRelease's.  The first is stated
\* for a process that holds modes already too, whose own counts are subtracted.
TestsExact ==
  /\ \A p \in Proc, m \in Mode : pc[p] = "idle" /\ m \notin holding[p] =>
       (Conflicting(m, holding[p], TRUE, holding[p] = {}) <=> MustWait(p, m))
  /\ \A q \in Proc : Blocking(q) /\ ~wakeup[q] =>
       (Conflicting(wantMode[q], waitHolding[q], TRUE, FALSE) <=> Blocked(q))
  /\ \A m \in Mode : Conflicting(m, {}, FALSE, TRUE) <=> WaitConflict(m)
=============================================================================
