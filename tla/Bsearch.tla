------------------------------ MODULE Bsearch ------------------------------
(***************************************************************************)
(* Metis's two bisections (metis/lib/bsearch.c), over n elements of s from *)
(* base on, each a record with a key.  C's array index i is index i + 1.   *)
(***************************************************************************)
EXTENDS Integers, Sequences

\* The first element whose key is greater than key; the last is looked at first.
bsearch_lar(key, s, base, n) ==
  LET NotBelow(j) == key >= s[base + j + 1].key
      loop[left \in 0 .. n, right \in -1 .. n] ==
        IF left < right
        THEN LET mid == (left + right) \div 2 IN
             IF NotBelow(mid) THEN loop[mid + 1, right] ELSE loop[left, mid - 1]
        ELSE IF NotBelow(left) THEN left + 1 ELSE left IN
  CASE n = 0                    -> 0
    [] n > 0 /\ NotBelow(n - 1) -> n
    [] OTHER -> IF n = 1 THEN 0
                ELSE IF n = 2 THEN IF NotBelow(0) THEN 1 ELSE 0
                ELSE loop[0, n - 2]

\* The element whose key is key, and whether there is one; if not, its place.
bsearch_eq(key, s, base, n) ==
  LET k(j) == s[base + j + 1].key
      At(j) == [pos |-> IF key > k(j) THEN j + 1 ELSE j, found |-> key = k(j)]
      loop[left \in 0 .. n, right \in -1 .. n] ==
        IF left < right
        THEN LET mid == (left + right) \div 2 IN
             IF key = k(mid) THEN At(mid)
             ELSE IF key < k(mid) THEN loop[left, mid - 1] ELSE loop[mid + 1, right]
        ELSE At(left) IN
  CASE n = 0                      -> [pos |-> 0, found |-> FALSE]
    [] n > 0 /\ key >= k(n - 1)   -> At(n - 1)
    [] OTHER -> IF n <= 2 THEN At(0) ELSE loop[0, n - 2]
=============================================================================
