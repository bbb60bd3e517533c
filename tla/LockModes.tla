----------------------------- MODULE LockModes -----------------------------
(***************************************************************************)
(* The conflict tables the lock is built with: modes-pg.h, the eight       *)
(* heavyweight lock modes of Postgres, and modes-rwsem.h, a readers-writer *)
(* lock.  A row is the set of modes whose bit the table sets.              *)
(***************************************************************************)
EXTENDS Naturals

RwConflicts ==
  [SHARED    |-> {"EXCLUSIVE"},
   EXCLUSIVE |-> {"SHARED", "EXCLUSIVE"}]

RwMode == DOMAIN RwConflicts

PgConflicts ==
  LET Exclusives == {"ShareRowExclusive", "Exclusive", "AccessExclusive"} IN
  [AccessShare          |-> {"AccessExclusive"},
   RowShare             |-> {"Exclusive", "AccessExclusive"},
   RowExclusive         |-> {"Share"} \cup Exclusives,
   ShareUpdateExclusive |-> {"ShareUpdateExclusive", "Share"} \cup Exclusives,
   Share                |-> {"RowExclusive", "ShareUpdateExclusive"} \cup Exclusives,
   ShareRowExclusive    |-> {"RowExclusive", "ShareUpdateExclusive", "Share"}
                              \cup Exclusives,
   Exclusive            |-> {"RowShare", "RowExclusive", "ShareUpdateExclusive",
                             "Share"} \cup Exclusives,
   AccessExclusive      |-> {"AccessShare", "RowShare", "RowExclusive",
                             "ShareUpdateExclusive", "Share"} \cup Exclusives]

PgMode == DOMAIN PgConflicts
=============================================================================
