------------------------------ MODULE MCMetis ------------------------------
(* Instances of Metis for TLC. *)
EXTENDS Metis

\* Nine keys, enough for two CPUs to sort in parallel, in unequal shares; with
\* two reduce tasks eight of them share a column, enough for a tree of three
\* levels.
Many == << <<8, 11, 2, 18>>, <<4, 14, 20>>, <<16, 11, 6>> >>

\* Few keys, one of them emitted by every split: the main CPU sorts alone.
Few == << <<6, 11>>, <<11>>, <<2, 11>> >>

ManyOrFew == {Many, Few}
============================================================================
