------------------------------ MODULE PsrsSort ------------------------------
(***************************************************************************)
(* The sequential parts of Metis's parallel sort by regular sampling       *)
(* (metis/lib/psrs.c): how a CPU picks its share of the pairs, its pivots  *)
(* and the bounds of its sublists, and how sublists are merged.            *)
(* A pair is a record with a key; C's array index i is index i + 1 here.   *)
(***************************************************************************)
EXTENDS Bsearch, SequencesExt, TLC

CONSTANT NCpus    \* mr_param_t.nr_cpus

ASSUME NCpusAssumption == NCpus \in Nat \ {0}

\* With four CPUs or more sublists may search a sublist of one element, asks
\* bsearch_lar for -1 elements, and its result is whatever lies before the
\* array; the model stops short of that.
ASSUME SortAssumption == NCpus <= 3

Cpu == 0 .. NCpus - 1

CeilDiv(a, b) == (a + b - 1) \div b

\* Below this many pairs the main CPU sorts alone.
Small(total) == total < NCpus * NCpus * NCpus

\* qsort, with rbkts_pair_cmp's order on keys.
qsort(pairs) == SortSeq(pairs, LAMBDA a, b : a.key < b.key)

-----------------------------------------------------------------------------
\* Bounds in s[start .. end] for the pivots fp .. lp: the middle pivot first,
\* then the pivots on either side of it in the part that is left for them.
\* The search leaves out the last two elements.
sublists(s, pivots) ==
  LET split[start \in 0 .. Len(s), end \in -1 .. Len(s) - 1,
            fp \in 1 .. NCpus, lp \in 0 .. NCpus - 1] ==
        LET mid == (fp + lp) \div 2
            pos == start + bsearch_lar(pivots[mid], s, start, end - start - 1)
            left == IF fp = mid THEN <<>>
                    ELSE IF start < pos THEN split[start, pos - 1, fp, mid - 1]
                    ELSE [j \in fp .. mid - 1 |-> start]
            right == IF mid = lp THEN <<>>
                     ELSE IF pos <= end THEN split[pos, end, mid + 1, lp]
                     ELSE [j \in mid + 1 .. lp |-> end + 1] IN
        (mid :> pos) @@ left @@ right IN
  split[0, Len(s) - 1, 1, NCpus - 1]

\* copy_elems and the bounds psrs passes to it: the CPU's share of all pairs.
Share(pairs, cpu) ==
  LET w == CeilDiv(Len(pairs), NCpus)
      end == w * (cpu + 1) - 1 IN
  SubSeq(pairs, w * cpu + 1, (IF end >= Len(pairs) THEN Len(pairs) - 1 ELSE end) + 1)

\* The NCpus - 1 pivots a CPU takes from its sorted share.
LocalPivot(s, j) ==
  LET at == (j + 1) * CeilDiv(Len(s), NCpus) IN
  s[(IF at < Len(s) THEN at ELSE Len(s) - 1) + 1].key

\* The main CPU sorts all pivots and moves NCpus - 1 of them to the front.
SelectPivots(pivots) ==
  LET sorted == SortSeq([j \in 1 .. NCpus * (NCpus - 1) |-> pivots[j - 1]],
                        LAMBDA a, b : a < b) IN
  [j \in DOMAIN pivots |->
     IF j \in 1 .. NCpus - 1 THEN sorted[(j - 1) * NCpus + NCpus \div 2 + 1]
                             ELSE sorted[j + 1]]

\* mergesort: take the smallest of the sublists' next pairs, the lowest CPU's
\* among equals, until all sublists are used up.
mergesort(lists) ==
  LET more(pos, j) == pos[j] < Len(lists[j])
      head(pos, j) == lists[j][pos[j] + 1]
      merge[pos \in [Cpu -> Nat]] ==
        IF \A j \in Cpu : ~more(pos, j) THEN <<>>
        ELSE LET best == CHOOSE j \in Cpu :
                   /\ more(pos, j)
                   /\ \A h \in Cpu : more(pos, h) =>
                        \/ head(pos, j).key < head(pos, h).key
                        \/ head(pos, j).key = head(pos, h).key /\ j <= h IN
             <<head(pos, best)>> \o merge[[pos EXCEPT ![best] = @ + 1]] IN
  merge[[j \in Cpu |-> 0]]
=============================================================================
