---------------------------- MODULE MetisProofs ----------------------------
(***************************************************************************)
(* Proofs about Metis, for any number of CPUs, any jobs and any data: the  *)
(* thread pool never lets a thread work for a task that is over, and the   *)
(* barrier of the parallel sort keeps its stages apart, so that nobody     *)
(* copies from buckets that somebody else has freed; the shared counters   *)
(* pass their limits by at most one per thread, and nobody rehashes a row  *)
(* of the backup that is gone.                                             *)
(* SortAssumption, the limit of the model of the sort's data, is not used. *)
(***************************************************************************)
EXTENDS Metis, FiniteSetTheorems, TLAPS

(***************************************************************************)
(* The inductive invariant.                                                *)
(***************************************************************************)
SortPlaces == {"work", "arrive", "leave", "open", "gather", "drain"}
TaskPhases == {"SAMPLE", "MAP", "REDUCE", "MERGE"}

MainPlaces   == {"app", "create", "handoff", "join", "joinexit", "enter"}
                  \cup (Busy \ {"arrive", "leave"})
WorkerPlaces == {"exited", "spin", "started", "enter"}
                  \cup (Busy \ {"open", "gather", "drain"})

\* What is handed to the threads in the current phase.
Routine    == IF phase = "SAMPLE" THEN "MAP" ELSE phase
Current(c) == work[c].routine = Routine /\ work[c].arg = task_pos.id

\* mr_run_task has got to pool thread c.
Handed(c) ==
  pc[main_lcpu] # "app" /\ (c < lid \/ (pc[main_lcpu] = "handoff" /\ c = lid))

\* The types of what the control depends on.
PoolTypes ==
  /\ ready \in [Cpu -> BOOLEAN] /\ running \in [Cpu -> BOOLEAN] /\ inited \in BOOLEAN
  /\ work \in [Cpu -> [routine : {"NONE", "MAP", "REDUCE", "MERGE", "EXIT"}, arg : Nat]]
  /\ pc \in [Cpu -> Places] /\ lid \in 0 .. NCpus
  /\ phase \in TaskPhases \cup {"NONE", "EXIT"}
  /\ task_pos \in [id : Nat, val : Nat, live : BOOLEAN]
  /\ status \in {"START", "STOP"} /\ rdy \in [Cpu -> BOOLEAN]
  /\ stage \in [Cpu -> Stages]

\* Where a thread is tells which phase the scheduler is in.
PlaceInv ==
  \A c \in Cpu :
    /\ pc[c] \in {"mapinit", "map", "mapdo"} => phase \in {"SAMPLE", "MAP"}
    /\ pc[c] \in {"reduce", "reducedo"} => phase = "REDUCE"
    /\ pc[c] \in SortPlaces => phase = "MERGE"
    /\ pc[c] \in {"return", "join"} => phase \in TaskPhases

\* The main thread: it is outside of the library exactly when no phase is on,
\* and past its loop over the pool threads all of them have been handed work.
MainInv ==
  /\ pc[main_lcpu] \in MainPlaces
  /\ pc[main_lcpu] = "app" <=> phase = "NONE"
  /\ pc[main_lcpu] # "app" => inited
  /\ phase = "EXIT" => pc[main_lcpu] \in {"create", "handoff", "joinexit"}
  /\ pc[main_lcpu] = "joinexit" => phase = "EXIT"
  /\ phase \in TaskPhases => task_pos.live
  /\ pc[main_lcpu] = "create" => lid > 0
  /\ pc[main_lcpu] = "handoff" => lid \in Worker
  /\ pc[main_lcpu] \notin {"app", "create", "handoff"} => lid = NCpus
  /\ pc[main_lcpu] \in Busy \cup {"enter"} => Current(main_lcpu)

\* A pool thread: ready is up only during its hand-over, running while it is
\* away from its spin loop, and what it works on is what was handed to it last.
WorkerInv ==
  \A c \in Worker :
    /\ pc[c] \in WorkerPlaces
    /\ ready[c] => /\ pc[main_lcpu] = "handoff" /\ lid = c
                   /\ pc[c] \in {"spin", "started"} /\ Current(c)
    /\ pc[c] = "started" => ready[c]
    /\ inited => (running[c] <=> pc[c] # "spin")
    /\ ~inited => pc[c] = "exited"
    /\ inited /\ pc[c] = "exited" => phase = "EXIT"
    /\ pc[c] \notin {"spin", "exited"} => Handed(c) /\ Current(c)

\* The barrier: the other threads are in the main thread's stage or, while it
\* drains the barrier, in the next one.  A thread that has returned from psrs
\* has its stage reset, the main thread too.
BarrierInv ==
  /\ status = "START" <=> pc[main_lcpu] = "gather"
  /\ \A c \in Cpu :
       /\ pc[c] \notin SortPlaces => stage[c] = 0
       /\ pc[c] \in SortPlaces \ {"work"} => stage[c] < 6
  /\ \A c \in Worker :
       /\ rdy[c] <=> pc[c] = "leave"
       /\ pc[c] = "leave" => pc[main_lcpu] \in {"gather", "drain"} /\ stage[c] = stage[main_lcpu]
       /\ pc[c] \in {"work", "arrive"} /\ pc[main_lcpu] \notin {"return", "join"} =>
            stage[c] = IF pc[main_lcpu] = "drain" THEN stage[main_lcpu] + 1 ELSE stage[main_lcpu]
       /\ pc[c] \in {"started", "enter"} /\ phase = "MERGE" =>
            pc[main_lcpu] \notin {"drain", "return", "join"} /\ stage[main_lcpu] = 0
       /\ \A d \in Worker :
            /\ pc[main_lcpu] \in {"return", "join"}
            /\ pc[c] \in {"work", "arrive"} /\ pc[d] \in {"work", "arrive"}
            => stage[c] = stage[d]

\* The pairs that were counted are there until everybody has copied its share.
CopyInv ==
  phase = "MERGE" =>
    /\ \/ pc[main_lcpu] \in {"open", "gather", "drain"} /\ stage[main_lcpu] = 0
       \/ pc[main_lcpu] \in {"work", "open", "gather"} /\ stage[main_lcpu] = 1
       => Len(Pairs(rbkts)) = total_len
    /\ pc[main_lcpu] \in {"return", "join"} =>
         \A c \in Worker : pc[c] = "work" /\ stage[c] = 1 => Alone

IInv == PoolTypes /\ PlaceInv /\ MainInv /\ WorkerInv /\ BarrierInv /\ CopyInv

-----------------------------------------------------------------------------
(***************************************************************************)
(* Steps of one thread inside its routine.                                 *)
(***************************************************************************)
\* The CPUs are the main one and the pool's.
LEMMA Cpus ==
  /\ main_lcpu \in Cpu /\ main_lcpu \notin Worker /\ Worker \subseteq Cpu
  /\ \A c \in Cpu : c = main_lcpu \/ c \in Worker
  /\ \A c \in Worker : c \in 1 .. NCpus - 1
BY NCpusAssumption DEF main_lcpu, Worker, Cpu

\* Thread c goes to place y and leaves what the pool and the scheduler keep.
Moves(c, y) ==
  /\ pc' = [pc EXCEPT ![c] = y]
  /\ UNCHANGED <<ready, work, inited, lid, phase>>
  /\ task_pos' \in [id : Nat, val : Nat, live : BOOLEAN]
  /\ task_pos'.id = task_pos.id /\ task_pos'.live = task_pos.live

\* A thread in its routine that stays there disturbs nothing in the pool.
LEMMA PoolKept ==
  ASSUME PoolTypes, PlaceInv, MainInv, WorkerInv, NEW c \in Cpu, NEW y \in Busy,
         Moves(c, y), pc[c] \in Busy, UNCHANGED running,
         c = main_lcpu => y \notin {"arrive", "leave"},
         c # main_lcpu => y \notin {"open", "gather", "drain"}
  PROVE  MainInv' /\ WorkerInv'
<1> USE Cpus
<1>1. MainInv'
  BY DEF MainInv, PoolTypes, PlaceInv, Moves, Current, Routine, Busy, MainPlaces, TaskPhases
<1>2. WorkerInv'
  BY DEF MainInv, WorkerInv, PoolTypes, PlaceInv, Moves, Current, Routine, Handed,
     Busy, WorkerPlaces, TaskPhases
<1> QED BY <1>1, <1>2

\* The map and the reduce worker.
LEMMA MapReduceStep ==
  ASSUME IInv, NEW c \in Cpu, MapStep(c) \/ ReduceStep(c)
  PROVE  IInv'
<1> USE Cpus
<1>1. PICK y \in Busy :
        /\ Moves(c, y) /\ UNCHANGED <<running, status, rdy, stage>>
        /\ y = "return" \/ (pc[c] \in {"mapinit", "map", "mapdo"} /\ y \in {"map", "mapdo"})
                        \/ (pc[c] \in {"reduce", "reducedo"} /\ y \in {"reduce", "reducedo"})
        /\ pc[c] \in {"mapinit", "map", "mapdo", "reduce", "reducedo"}
  <2>1. PoolTypes BY DEF IInv
  <2>2. CASE kvst_map_worker_init(c) \/ map_func(c)
    <3>1. Moves(c, "map")
      BY <2>1, <2>2 DEF kvst_map_worker_init, map_func, Moves, Goto, poolVars, schedVars, PoolTypes
    <3> QED BY <2>2, <3>1 DEF kvst_map_worker_init, map_func, poolVars, sortVars, Busy
  <2>3. CASE presplitter(c)
    <3>1. Moves(c, "return") \/ Moves(c, "mapdo")
      BY <2>1, <2>3 DEF presplitter, Moves, Goto, poolVars, schedVars, PoolTypes
    <3> QED BY <2>3, <3>1 DEF presplitter, poolVars, sortVars, Busy
  <2>4. CASE mr_reduce_worker(c)
    <3>1. Moves(c, "return") \/ Moves(c, "reducedo")
      BY <2>1, <2>4 DEF mr_reduce_worker, Moves, Goto, poolVars, PoolTypes
    <3> QED BY <2>4, <3>1 DEF mr_reduce_worker, poolVars, sortVars, Busy
  <2>5. CASE kvst_reduce_do_task(c)
    <3>1. Moves(c, "reduce")
      BY <2>1, <2>5 DEF kvst_reduce_do_task, Moves, Goto, poolVars, schedVars, PoolTypes
    <3> QED BY <2>5, <3>1 DEF kvst_reduce_do_task, poolVars, sortVars, Busy
  <2> QED BY <2>2, <2>3, <2>4, <2>5 DEF MapStep, ReduceStep
<1>2. phase # "MERGE" /\ pc[c] \in Busy /\ phase' = phase
  BY <1>1 DEF IInv, PlaceInv, Moves, Busy
<1>3. MainInv' /\ WorkerInv'
  BY <1>1, <1>2, PoolKept DEF IInv
<1>4. PoolTypes' /\ PlaceInv'
  BY <1>1, <1>2 DEF IInv, PoolTypes, PlaceInv, Moves, Busy, Places, SortPlaces, TaskPhases
<1>5. BarrierInv'
  BY <1>1, <1>2 DEF IInv, BarrierInv, PoolTypes, PlaceInv, Moves, SortPlaces
<1>6. CopyInv'
  BY <1>2 DEF CopyInv
<1> QED BY <1>3, <1>4, <1>5, <1>6 DEF IInv

\* A thread ends its part of a stage and goes to the barrier.
LEMMA ArriveStep ==
  ASSUME IInv, NEW c \in Cpu, pc[c] = "work", stage[c] < 6,
         Moves(c, IF c = main_lcpu THEN "open" ELSE "arrive"),
         UNCHANGED <<running, status, rdy, stage>>,
         c = main_lcpu /\ stage[c] = 0 => Len(Pairs(rbkts))' = total_len',
         c # main_lcpu \/ stage[c] # 0 => total_len' = total_len,
         stage[c] \in {0, 1} => rbkts' = rbkts
  PROVE  IInv'
<1> USE Cpus
<1>1. phase = "MERGE" /\ phase' = phase /\ pc[c] \in Busy
  BY DEF IInv, PlaceInv, SortPlaces, Moves, Busy
<1>2. MainInv' /\ WorkerInv'
  BY <1>1, PoolKept DEF IInv, Busy
<1>3. PoolTypes' /\ PlaceInv'
  BY <1>1 DEF IInv, PoolTypes, PlaceInv, Moves, Places, SortPlaces, TaskPhases
<1>4. BarrierInv'
  BY <1>1 DEF IInv, BarrierInv, PoolTypes, PlaceInv, Moves, SortPlaces, Stages
<1>5. CopyInv'
  <2>1. CASE c = main_lcpu
    BY <1>1, <2>1 DEF IInv, CopyInv, PoolTypes, Moves
  <2>2. CASE c # main_lcpu
    <3>1. pc'[main_lcpu] = pc[main_lcpu] /\ total_len' = total_len /\ Alone' = Alone
      BY <2>2 DEF IInv, PoolTypes, Moves, Alone, Small
    <3>2. CASE pc[main_lcpu] \in {"return", "join"}
      BY <1>1, <2>2, <3>1, <3>2 DEF IInv, CopyInv, PoolTypes, Moves
    <3>3. CASE \/ pc[main_lcpu] \in {"open", "gather", "drain"} /\ stage[main_lcpu] = 0
               \/ pc[main_lcpu] \in {"work", "open", "gather"} /\ stage[main_lcpu] = 1
      <4>1. stage[c] \in {0, 1}
        BY <2>2, <3>3 DEF IInv, BarrierInv
      <4> QED BY <1>1, <3>1, <3>3, <4>1 DEF IInv, CopyInv
    <3> QED BY <1>1, <3>1, <3>2, <3>3 DEF CopyInv
  <2> QED BY <2>1, <2>2
<1> QED BY <1>2, <1>3, <1>4, <1>5 DEF IInv

\* A thread returns from psrs.  When the main thread does so in stage 1 there
\* are few pairs, and the others leave the buckets alone.
LEMMA PsrsReturnStep ==
  ASSUME IInv, NEW c \in Cpu, PsrsAlone(c) \/ PsrsEnd(c)
  PROVE  IInv'
<1> USE Cpus
<1>1. /\ Moves(c, "return") /\ pc[c] = "work" /\ stage[c] \in {1, 6}
      /\ stage[c] = 1 => Alone
      /\ stage' = [stage EXCEPT ![c] = 0] /\ total_len' = total_len
      /\ c # main_lcpu => rbkts' = rbkts
      /\ UNCHANGED <<running, status, rdy>>
  <2>1. Moves(c, "return")
    BY DEF IInv, PoolTypes, PsrsAlone, PsrsEnd, PsrsReturn, Goto, Moves, unsortedVars,
       poolVars, schedVars
  <2> QED BY <2>1 DEF PsrsAlone, PsrsEnd, PsrsReturn, unsortedVars, poolVars
<1>2. phase = "MERGE" /\ phase' = phase /\ pc[c] \in Busy
  BY <1>1 DEF IInv, PlaceInv, SortPlaces, Moves, Busy
<1>3. MainInv' /\ WorkerInv'
  BY <1>1, <1>2, PoolKept DEF IInv, Busy
<1>4. PoolTypes' /\ PlaceInv'
  BY <1>1, <1>2 DEF IInv, PoolTypes, PlaceInv, Moves, Places, SortPlaces, TaskPhases, Stages
<1>5. BarrierInv'
  BY <1>1, <1>2 DEF IInv, BarrierInv, PoolTypes, PlaceInv, Moves, SortPlaces, Stages
<1>6. Alone' = Alone
  BY <1>1 DEF Alone, Small
<1>7. CopyInv'
  <2>1. CASE c = main_lcpu
    <3>1. ASSUME NEW d \in Worker, pc'[d] = "work", stage'[d] = 1 PROVE Alone'
      <4>1. pc[d] = "work" /\ stage[d] = stage[c] /\ stage[d] = 1
        BY <1>1, <2>1, <3>1 DEF IInv, PoolTypes, Moves, BarrierInv
      <4> QED BY <1>1, <1>6, <4>1
    <3> QED BY <1>1, <1>2, <2>1, <3>1 DEF IInv, CopyInv, PoolTypes, Moves
  <2>2. CASE c # main_lcpu
    BY <1>1, <1>2, <1>6, <2>2 DEF IInv, CopyInv, PoolTypes, Moves
  <2> QED BY <2>1, <2>2
<1> QED BY <1>3, <1>4, <1>5, <1>7 DEF IInv

\* The stages of the sort.
LEMMA PsrsStep ==
  ASSUME IInv, NEW c \in Cpu,
         \/ PsrsInit(c) \/ PsrsAlone(c) \/ PsrsShare(c) \/ PsrsPivots(c) \/ PsrsDivide(c)
         \/ PsrsSizes(c) \/ PsrsMerge(c) \/ PsrsEnd(c)
  PROVE  IInv'
<1> DEFINE y == IF c = main_lcpu THEN "open" ELSE "arrive"
<1>1. CASE PsrsInit(c)
  <2>1. /\ Moves(c, y) /\ stage[c] = 0 /\ pc[c] = "work"
        /\ UNCHANGED <<rbkts, running, status, rdy, stage>>
    BY <1>1 DEF IInv, PoolTypes, PsrsInit, ToBarrier, Goto, Moves, unsortedVars, poolVars, schedVars
  <2>2. IF c = main_lcpu THEN total_len' = Len(Pairs(rbkts)) ELSE total_len' = total_len
    BY <1>1 DEF PsrsInit
  <2> QED BY <2>1, <2>2, ArriveStep DEF Pairs
<1>2. CASE PsrsShare(c)
  <2>1. /\ Moves(c, y) /\ stage[c] = 1 /\ pc[c] = "work"
        /\ UNCHANGED <<rbkts, total_len, running, status, rdy, stage>>
    BY <1>2 DEF IInv, PoolTypes, PsrsShare, ToBarrier, Goto, Moves, unsortedVars, poolVars, schedVars
  <2> QED BY <2>1, ArriveStep
<1>3. CASE PsrsPivots(c) \/ PsrsDivide(c) \/ PsrsSizes(c) \/ PsrsMerge(c)
  <2>1. /\ Moves(c, y) /\ stage[c] \in 2 .. 5 /\ pc[c] = "work"
        /\ UNCHANGED <<total_len, running, status, rdy, stage>>
    BY <1>3 DEF IInv, PoolTypes, PsrsPivots, PsrsDivide, PsrsSizes, PsrsMerge, ToBarrier,
       Goto, Moves, unsortedVars, poolVars, schedVars
  <2> QED BY <2>1, ArriveStep
<1> QED BY <1>1, <1>2, <1>3, PsrsReturnStep

\* The barrier, on the side of the pool threads.
LEMMA BarrierStep ==
  ASSUME IInv, NEW c \in Cpu, psrs_barrier(c)
  PROVE  IInv'
<1> USE Cpus
<1> DEFINE Enters == pc[c] = "arrive" /\ status = "START" /\ rdy' = [rdy EXCEPT ![c] = TRUE]
                       /\ Moves(c, "leave") /\ stage' = stage
           Leaves == pc[c] = "leave" /\ status = "STOP" /\ rdy' = [rdy EXCEPT ![c] = FALSE]
                       /\ Moves(c, "work") /\ stage' = [stage EXCEPT ![c] = @ + 1]
<1>1. (Enters \/ Leaves) /\ UNCHANGED <<running, status, rbkts, total_len>>
  BY DEF IInv, PoolTypes, psrs_barrier, NextStage, Goto, Moves, unblockedVars, poolVars,
     schedVars, storeVars, dataVars
<1>2. c # main_lcpu /\ phase = "MERGE" /\ phase' = phase /\ pc[c] \in Busy
  BY <1>1 DEF IInv, MainInv, MainPlaces, PlaceInv, SortPlaces, Moves, Busy
<1>3. MainInv' /\ WorkerInv'
  BY <1>1, <1>2, PoolKept DEF IInv, Busy
<1>4. PoolTypes' /\ PlaceInv'
  <2>1. stage' \in [Cpu -> Stages]
    <3>1. pc[c] \in {"leave", "drain"} => stage[c] \in 0 .. 5
      BY DEF IInv, PoolTypes, BarrierInv, SortPlaces, Stages
    <3> QED BY <1>1, <3>1 DEF IInv, PoolTypes, Stages
  <2> QED BY <1>1, <1>2, <2>1 DEF IInv, PoolTypes, PlaceInv, Moves, Places, SortPlaces, TaskPhases
<1>5. CASE Enters
  <2>1. BarrierInv'
    BY <1>1, <1>2, <1>5 DEF IInv, BarrierInv, PoolTypes, PlaceInv, Moves, SortPlaces, Stages
  <2>2. CopyInv'
    BY <1>1, <1>2, <1>5 DEF IInv, CopyInv, PoolTypes, Moves, Alone, Small
  <2> QED BY <1>3, <1>4, <2>1, <2>2 DEF IInv
<1>6. CASE Leaves
  <2>1. pc[main_lcpu] = "drain" /\ stage[c] = stage[main_lcpu]
    BY <1>1, <1>2, <1>6 DEF IInv, BarrierInv
  <2>2. BarrierInv'
    BY <1>1, <1>2, <1>6, <2>1 DEF IInv, BarrierInv, PoolTypes, PlaceInv, Moves, SortPlaces, Stages
  <2>3. CopyInv'
    BY <1>1, <1>2, <1>6, <2>1 DEF IInv, CopyInv, PoolTypes, Moves
  <2> QED BY <1>3, <1>4, <2>2, <2>3 DEF IInv
<1> QED BY <1>1, <1>5, <1>6

\* The barrier, on the side of the main thread.
LEMMA BarrierMainStep ==
  ASSUME IInv, psrs_barrier_main
  PROVE  IInv'
<1> USE Cpus
<1> DEFINE c == main_lcpu
           Opens  == pc[c] = "open" /\ Moves(c, "gather") /\ status' = "START" /\ stage' = stage
           Closes == pc[c] = "gather" /\ (\A d \in Worker : rdy[d])
                       /\ Moves(c, "drain") /\ status' = "STOP" /\ stage' = stage
           Leaves == pc[c] = "drain" /\ (\A d \in Worker : ~rdy[d])
                       /\ Moves(c, "work") /\ status' = status /\ stage' = [stage EXCEPT ![c] = @ + 1]
<1>1. (Opens \/ Closes \/ Leaves) /\ UNCHANGED <<running, rdy, rbkts, total_len>>
  BY DEF IInv, PoolTypes, psrs_barrier_main, NextStage, Goto, Moves, unblockedVars, poolVars,
     schedVars, storeVars, dataVars
<1>2. phase = "MERGE" /\ phase' = phase /\ pc[c] \in Busy
  BY <1>1 DEF IInv, PlaceInv, SortPlaces, Moves, Busy
<1>3. MainInv' /\ WorkerInv'
  BY <1>1, <1>2, PoolKept DEF IInv, Busy
<1>4. PoolTypes' /\ PlaceInv'
  <2>1. stage' \in [Cpu -> Stages]
    <3>1. pc[c] \in {"leave", "drain"} => stage[c] \in 0 .. 5
      BY DEF IInv, PoolTypes, BarrierInv, SortPlaces, Stages
    <3> QED BY <1>1, <3>1 DEF IInv, PoolTypes, Stages
  <2> QED BY <1>1, <1>2, <2>1 DEF IInv, PoolTypes, PlaceInv, Moves, Places, SortPlaces, TaskPhases
<1>5. BarrierInv'
  <2>1. CASE Opens
    BY <1>1, <1>2, <2>1 DEF IInv, BarrierInv, PoolTypes, PlaceInv, Moves, SortPlaces, Stages
  <2>2. CASE Closes
    <3>1. \A d \in Worker : pc[d] = "leave" /\ pc'[d] = "leave" /\ stage[d] = stage[c]
      BY <1>1, <2>2 DEF IInv, BarrierInv, PoolTypes, Moves
    <3> QED BY <1>1, <1>2, <2>2, <3>1 DEF IInv, BarrierInv, PoolTypes, Moves, SortPlaces
  <2>3. CASE Leaves
    BY <1>1, <1>2, <2>3 DEF IInv, BarrierInv, PoolTypes, PlaceInv, Moves, SortPlaces, Stages
  <2> QED BY <1>1, <2>1, <2>2, <2>3
<1>6. CopyInv'
  <2>1. Len(Pairs(rbkts))' = Len(Pairs(rbkts)) /\ total_len' = total_len
    BY <1>1 DEF Pairs
  <2>2. /\ pc' = [pc EXCEPT ![c] = pc'[c]] /\ pc'[c] \notin {"return", "join"}
        /\ pc[c] = "open" => pc'[c] = "gather" /\ stage'[c] = stage[c]
        /\ pc[c] = "gather" => pc'[c] = "drain" /\ stage'[c] = stage[c]
        /\ pc[c] = "drain" => pc'[c] = "work" /\ stage'[c] = stage[c] + 1
        /\ stage[c] \in 0 .. 6 /\ pc[c] \in {"open", "gather", "drain"}
    BY <1>1 DEF IInv, PoolTypes, Moves, Stages
  <2> QED BY <1>2, <2>1, <2>2 DEF IInv, CopyInv
<1> QED BY <1>3, <1>4, <1>5, <1>6 DEF IInv

-----------------------------------------------------------------------------
(***************************************************************************)
(* The thread pool.                                                        *)
(***************************************************************************)
\* A pool thread takes the work that is handed to it.
LEMMA EntryStartStep ==
  ASSUME IInv, NEW c \in Cpu, mthread_entry_start(c)
  PROVE  IInv'
<1> USE Cpus
<1>1. /\ \/ /\ pc[c] = "spin" /\ ready[c] /\ pc' = [pc EXCEPT ![c] = "started"]
            /\ running' = [running EXCEPT ![c] = TRUE] /\ ready' = ready
         \/ /\ pc[c] = "started" /\ pc' = [pc EXCEPT ![c] = "enter"]
            /\ ready' = [ready EXCEPT ![c] = FALSE] /\ running' = running
      /\ UNCHANGED <<work, inited, lid, phase, task_pos, status, rdy, stage, rbkts, total_len>>
  BY DEF mthread_entry_start, Goto, schedVars, storeVars, sortVars, dataVars
<1>2. c \in Worker
  BY <1>1 DEF IInv, MainInv, MainPlaces, Busy
<1>3. /\ Handed(c) /\ Current(c) /\ pc[main_lcpu] = "handoff" /\ ready[c] /\ lid = c
      /\ inited
  BY <1>1, <1>2 DEF IInv, WorkerInv, MainInv, Handed
<1>4. PoolTypes' /\ PlaceInv'
  BY <1>1, <1>2 DEF IInv, PoolTypes, PlaceInv, Places, SortPlaces
<1>5. MainInv'
  BY <1>1, <1>2 DEF IInv, PoolTypes, MainInv, Current, Routine
<1>6. WorkerInv'
  BY <1>1, <1>2, <1>3 DEF IInv, PoolTypes, WorkerInv, WorkerPlaces, Current, Routine, Handed
<1>7. BarrierInv' /\ CopyInv'
  <2>1. stage[main_lcpu] = 0
    BY <1>3 DEF IInv, BarrierInv, SortPlaces
  <2>2. BarrierInv'
    BY <1>1, <1>2, <1>3, <2>1 DEF IInv, PoolTypes, BarrierInv, SortPlaces
  <2>3. CopyInv'
    BY <1>1, <1>2, <1>3 DEF IInv, PoolTypes, CopyInv
  <2> QED BY <2>2, <2>3
<1> QED BY <1>4, <1>5, <1>6, <1>7 DEF IInv

\* A thread calls the routine of the phase.
LEMMA EntryCalls ==
  ASSUME IInv, NEW c \in Cpu, mthread_entry_call(c)
  PROVE  /\ pc[c] = "enter" /\ Current(c)
         /\ UNCHANGED <<ready, running, work, inited, lid, phase, task_pos, status, rdy, stage,
                        rbkts, total_len>>
         /\ phase \in TaskPhases \cup {"EXIT"}
         /\ phase = "EXIT" => c # main_lcpu
         /\ \E y \in {"mapinit", "reduce", "work", "exited"} :
              /\ pc' = [pc EXCEPT ![c] = y]
              /\ y = "mapinit" => phase \in {"SAMPLE", "MAP"}
              /\ y = "reduce" => phase = "REDUCE"
              /\ y = "work" => phase = "MERGE"
              /\ y = "exited" => phase = "EXIT"
<1> USE Cpus
<1>1. /\ pc[c] = "enter" /\ Current(c)
      /\ UNCHANGED <<ready, running, work, inited, lid, phase, task_pos, status, rdy, stage,
                     rbkts, total_len>>
  BY DEF IInv, MainInv, WorkerInv, mthread_entry_call, poolVars, schedVars, storeVars,
     sortVars, dataVars
<1>2. /\ phase \in TaskPhases \cup {"EXIT"}
      /\ phase = "EXIT" => c # main_lcpu
  BY <1>1 DEF IInv, PoolTypes, MainInv, WorkerInv, Handed
<1>3. PICK y \in {"mapinit", "reduce", "work", "exited"} :
        /\ pc' = [pc EXCEPT ![c] = y]
        /\ y = "mapinit" => phase \in {"SAMPLE", "MAP"}
        /\ y = "reduce" => phase = "REDUCE"
        /\ y = "work" => phase = "MERGE"
        /\ y = "exited" => phase = "EXIT"
  BY <1>1, <1>2 DEF mthread_entry_call, Goto, Current, Routine, TaskPhases
<1> QED BY <1>1, <1>2, <1>3

\* It is a routine of the task in progress.
LEMMA EntryCallStep ==
  ASSUME IInv, NEW c \in Cpu, mthread_entry_call(c)
  PROVE  IInv'
<1> USE Cpus
<1>1. /\ pc[c] = "enter" /\ Current(c)
      /\ UNCHANGED <<ready, running, work, inited, lid, phase, task_pos, status, rdy, stage,
                     rbkts, total_len>>
  BY EntryCalls
<1>2. /\ phase \in TaskPhases \cup {"EXIT"}
      /\ phase = "EXIT" => c # main_lcpu
  BY EntryCalls
<1>3. PICK y \in {"mapinit", "reduce", "work", "exited"} :
        /\ pc' = [pc EXCEPT ![c] = y]
        /\ y = "mapinit" => phase \in {"SAMPLE", "MAP"}
        /\ y = "reduce" => phase = "REDUCE"
        /\ y = "work" => phase = "MERGE"
        /\ y = "exited" => phase = "EXIT"
  BY EntryCalls
<1>4. PoolTypes' /\ PlaceInv'
  BY <1>1, <1>2, <1>3 DEF IInv, PoolTypes, PlaceInv, Places, SortPlaces
<1>5. MainInv'
  BY <1>1, <1>2, <1>3 DEF IInv, PoolTypes, MainInv, MainPlaces, Busy, Current, Routine
<1>6. WorkerInv'
  BY <1>1, <1>2, <1>3 DEF IInv, PoolTypes, WorkerInv, WorkerPlaces, Busy, Current, Routine, Handed,
     MainInv
<1>7. BarrierInv'
  BY <1>1, <1>2, <1>3 DEF IInv, PoolTypes, BarrierInv, SortPlaces, PlaceInv, MainInv, MainPlaces,
     TaskPhases, Stages, Busy
<1>8. CopyInv'
  BY <1>1, <1>2, <1>3 DEF IInv, PoolTypes, CopyInv, BarrierInv, SortPlaces
<1> QED BY <1>4, <1>5, <1>6, <1>7, <1>8 DEF IInv

\* A routine returns.
LEMMA EntryEndStep ==
  ASSUME IInv, NEW c \in Cpu, mthread_entry_end(c)
  PROVE  IInv'
<1> USE Cpus
<1> DEFINE y == IF c = main_lcpu THEN "join" ELSE "spin"
<1>1. /\ pc[c] = "return" /\ pc' = [pc EXCEPT ![c] = y]
      /\ running' = IF c = main_lcpu THEN running ELSE [running EXCEPT ![c] = FALSE]
      /\ UNCHANGED <<ready, work, inited, lid, phase, task_pos, status, rdy, stage, rbkts,
                     total_len>>
  BY DEF mthread_entry_end, Goto, schedVars, storeVars, sortVars, dataVars
<1>2. phase \in TaskPhases
  BY <1>1 DEF IInv, PlaceInv
<1>3. PoolTypes' /\ PlaceInv'
  BY <1>1, <1>2 DEF IInv, PoolTypes, PlaceInv, Places, SortPlaces
<1>4. MainInv'
  BY <1>1, <1>2 DEF IInv, PoolTypes, MainInv, MainPlaces, Busy, Current, Routine, TaskPhases
<1>5. WorkerInv'
  BY <1>1, <1>2 DEF IInv, PoolTypes, WorkerInv, WorkerPlaces, Busy, Current, Routine, Handed,
     MainInv
<1>6. BarrierInv'
  BY <1>1, <1>2 DEF IInv, PoolTypes, BarrierInv, SortPlaces
<1>7. CopyInv'
  BY <1>1, <1>2 DEF IInv, PoolTypes, CopyInv, Alone, Small
<1> QED BY <1>3, <1>4, <1>5, <1>6, <1>7 DEF IInv

-----------------------------------------------------------------------------
(***************************************************************************)
(* The main thread: hand-over, join and the scheduler's phases.            *)
(***************************************************************************)
\* The main thread waits for a pool thread and hands over to it.
LEMMA CreateStep ==
  ASSUME IInv, mthread_create
  PROVE  IInv'
<1> USE Cpus
<1> DEFINE given == [routine |-> Routine, arg |-> task_pos.id]
           Gives == /\ pc[main_lcpu] = "create" /\ lid \in Worker /\ ~running[lid]
                    /\ work' = [work EXCEPT ![lid] = given]
                    /\ ready' = [ready EXCEPT ![lid] = TRUE]
                    /\ pc' = [pc EXCEPT ![main_lcpu] = "handoff"] /\ lid' = lid
           Given == /\ pc[main_lcpu] = "handoff" /\ ~ready[lid]
                    /\ lid' = lid + 1 /\ work' = work /\ ready' = ready
                    /\ pc' = [pc EXCEPT ![main_lcpu] = "create"]
<1>1. /\ Gives \/ Given
      /\ UNCHANGED <<running, inited, phase, task_pos, status, rdy, stage, rbkts, total_len>>
  BY DEF mthread_create, Goto, Routine, schedVars, storeVars, sortVars, dataVars, poolVars
<1>2. phase \in TaskPhases \cup {"EXIT"} /\ inited
  BY <1>1 DEF IInv, PoolTypes, MainInv
<1>3. given \in [routine : {"NONE", "MAP", "REDUCE", "MERGE", "EXIT"}, arg : Nat]
  BY <1>2 DEF IInv, PoolTypes, Routine, TaskPhases
<1>4. PoolTypes' /\ PlaceInv'
  <2>1. lid' \in 0 .. NCpus
    <3>1. CASE Gives
      BY <3>1 DEF IInv, PoolTypes
    <3>2. CASE Given
      <4>1. lid \in 1 .. NCpus - 1
        BY <3>2 DEF IInv, MainInv
      <4> QED BY <3>2, <4>1, NCpusAssumption
    <3> QED BY <1>1, <3>1, <3>2
  <2>2. work' \in [Cpu -> [routine : {"NONE", "MAP", "REDUCE", "MERGE", "EXIT"}, arg : Nat]]
    BY <1>1, <1>3 DEF IInv, PoolTypes
  <2> QED BY <1>1, <2>1, <2>2 DEF IInv, PoolTypes, PlaceInv, Places, SortPlaces
<1>5. MainInv'
  BY <1>1, <1>2 DEF IInv, PoolTypes, MainInv, MainPlaces, Busy, TaskPhases
<1>6. WorkerInv'
  <2>1. CASE Gives
    <3>1. pc[lid] = "spin" /\ Current(lid)'
      BY <1>1, <1>2, <2>1 DEF IInv, PoolTypes, WorkerInv, Current, Routine
    <3>2. \A c \in Worker : c # lid => work'[c] = work[c] /\ ready'[c] = ready[c] /\ ~ready[c]
      BY <1>1, <2>1 DEF IInv, PoolTypes, WorkerInv
    <3> QED BY <1>1, <1>2, <2>1, <3>1, <3>2 DEF IInv, PoolTypes, WorkerInv, Current, Routine, Handed
  <2>2. CASE Given
    BY <1>1, <1>2, <2>2 DEF IInv, PoolTypes, WorkerInv, Current, Routine, Handed
  <2> QED BY <1>1, <2>1, <2>2
<1>7. BarrierInv' /\ CopyInv'
  BY <1>1 DEF IInv, PoolTypes, BarrierInv, CopyInv, SortPlaces
<1> QED BY <1>4, <1>5, <1>6, <1>7 DEF IInv

\* Past the last pool thread the main thread calls the routine itself, or
\* waits for the pool to end.
LEMMA CreateMainStep ==
  ASSUME IInv, mthread_create_main
  PROVE  IInv'
<1> USE Cpus
<1> DEFINE given == [routine |-> Routine, arg |-> task_pos.id]
           y == IF phase = "EXIT" THEN "joinexit" ELSE "enter"
<1>1. /\ pc[main_lcpu] = "create" /\ lid = NCpus
      /\ pc' = [pc EXCEPT ![main_lcpu] = y]
      /\ work' = IF phase = "EXIT" THEN work ELSE [work EXCEPT ![main_lcpu] = given]
      /\ UNCHANGED <<ready, running, lid, inited, phase, task_pos, status, rdy, stage, rbkts,
                     total_len>>
  BY DEF mthread_create_main, Goto, Routine, schedVars, storeVars, sortVars, dataVars
<1>2. phase \in TaskPhases \cup {"EXIT"} /\ inited
  BY <1>1 DEF IInv, PoolTypes, MainInv
<1>3. given \in [routine : {"NONE", "MAP", "REDUCE", "MERGE", "EXIT"}, arg : Nat]
  BY <1>2 DEF IInv, PoolTypes, Routine, TaskPhases
<1>4. PoolTypes' /\ PlaceInv'
  <2>1. work' \in [Cpu -> [routine : {"NONE", "MAP", "REDUCE", "MERGE", "EXIT"}, arg : Nat]]
    BY <1>1, <1>3 DEF IInv, PoolTypes
  <2> QED BY <1>1, <2>1 DEF IInv, PoolTypes, PlaceInv, Places, SortPlaces
<1>5. MainInv'
  BY <1>1, <1>2 DEF IInv, PoolTypes, MainInv, MainPlaces, Busy, TaskPhases, Current, Routine
<1>6. WorkerInv'
  <2>1. \A c \in Worker : work'[c] = work[c] /\ pc'[c] = pc[c]
    BY <1>1 DEF IInv, PoolTypes
  <2> QED BY <1>1, <1>2, <2>1 DEF IInv, PoolTypes, WorkerInv, Current, Routine, Handed
<1>7. BarrierInv' /\ CopyInv'
  BY <1>1 DEF IInv, PoolTypes, BarrierInv, CopyInv, SortPlaces
<1> QED BY <1>4, <1>5, <1>6, <1>7 DEF IInv

\* After a join every pool thread is back in its spin loop.
LEMMA Joined ==
  ASSUME IInv, pc[main_lcpu] = "join", mthread_join
  PROVE  /\ inited /\ \A c \in Worker : pc[c] = "spin" /\ ~ready[c]
         /\ status = "STOP" /\ \A c \in Cpu : stage[c] = 0
<1> USE Cpus
<1>1. inited /\ phase # "EXIT" /\ status = "STOP"
  BY DEF IInv, PoolTypes, MainInv, BarrierInv
<1>2. \A c \in Worker : pc[c] = "spin" /\ ~ready[c]
  BY <1>1 DEF IInv, WorkerInv, mthread_join
<1>3. \A c \in Cpu : stage[c] = 0
  BY <1>2 DEF IInv, BarrierInv, SortPlaces
<1> QED BY <1>1, <1>2, <1>3

\* Outside of the library every pool thread spins, or there is none.
LEMMA Outside ==
  ASSUME IInv, pc[main_lcpu] = "app"
  PROVE  /\ phase = "NONE" /\ status = "STOP" /\ \A c \in Cpu : stage[c] = 0
         /\ \A c \in Worker : pc[c] = (IF inited THEN "spin" ELSE "exited") /\ ~ready[c]
<1> USE Cpus
<1>1. phase = "NONE" /\ status = "STOP"
  BY DEF IInv, PoolTypes, MainInv, BarrierInv
<1>2. \A c \in Worker : pc[c] = (IF inited THEN "spin" ELSE "exited") /\ ~ready[c]
  BY <1>1 DEF IInv, PoolTypes, WorkerInv, Handed
<1>3. \A c \in Cpu : stage[c] = 0
  BY <1>2 DEF IInv, BarrierInv, SortPlaces
<1> QED BY <1>1, <1>2, <1>3

\* With all pool threads in their spin loop a new phase starts from the first.
LEMMA FreshTask ==
  ASSUME IInv, NEW type \in TaskPhases, RunTask(type), inited',
         pc'[main_lcpu] = "create", \A c \in Worker : pc'[c] = "spin",
         pc' \in [Cpu -> Places],
         ready' \in [Cpu -> BOOLEAN], running' \in [Cpu -> BOOLEAN],
         \A c \in Worker : ~ready'[c] /\ ~running'[c],
         status = "STOP", \A c \in Cpu : stage[c] = 0, \A c \in Worker : ~rdy[c],
         UNCHANGED <<work, status, rdy, stage>>
  PROVE  IInv'
<1> USE Cpus
<1>1. PoolTypes'
  BY NCpusAssumption DEF IInv, PoolTypes, RunTask
<1>2. PlaceInv'
  BY DEF PlaceInv, RunTask, SortPlaces
<1>3. MainInv'
  BY DEF MainInv, MainPlaces, RunTask, Busy, TaskPhases
<1>4. WorkerInv'
  BY DEF WorkerInv, WorkerPlaces
<1>5. BarrierInv' /\ CopyInv'
  BY DEF BarrierInv, CopyInv, SortPlaces
<1> QED BY <1>1, <1>2, <1>3, <1>4, <1>5 DEF IInv

\* mr_setup, and the phases that follow a join.
LEMMA TaskStep ==
  ASSUME IInv, mr_setup \/ mr_sample_end \/ mr_run_task_next
  PROVE  IInv'
<1> USE Cpus
<1>1. PICK type \in TaskPhases : RunTask(type)
  BY DEF mr_setup, mr_sample_end, mr_run_task_next, TaskPhases
<1>2. CASE mr_setup
  <2>1. /\ pc[main_lcpu] = "app" /\ inited' = TRUE /\ UNCHANGED <<work, status, rdy, stage>>
        /\ IF inited THEN pc' = [pc EXCEPT ![main_lcpu] = "create"] /\ UNCHANGED <<ready, running>>
           ELSE /\ pc' = [c \in Cpu |-> IF c = main_lcpu THEN "create" ELSE "spin"]
                /\ ready' = PoolClear /\ running' = PoolClear
    BY <1>2 DEF mr_setup, sortVars
  <2>2. /\ pc'[main_lcpu] = "create" /\ \A c \in Worker : pc'[c] = "spin"
        /\ pc' \in [Cpu -> Places]
        /\ ready' \in [Cpu -> BOOLEAN] /\ running' \in [Cpu -> BOOLEAN]
        /\ \A c \in Worker : ~ready'[c] /\ ~running'[c]
    <3>1. CASE inited
      BY <2>1, <3>1, Outside DEF IInv, PoolTypes, WorkerInv, Places
    <3>2. CASE ~inited
      <4>1. \A c \in Cpu : ready'[c] = FALSE /\ running'[c] = FALSE
        BY <2>1, <3>2 DEF PoolClear
      <4>2. ready' \in [Cpu -> BOOLEAN] /\ running' \in [Cpu -> BOOLEAN]
        BY <2>1, <3>2 DEF PoolClear
      <4>3. pc' \in [Cpu -> Places] /\ pc'[main_lcpu] = "create"
        BY <2>1, <3>2 DEF Places
      <4>4. \A c \in Worker : pc'[c] = "spin"
        BY <2>1, <3>2
      <4> QED BY <4>1, <4>2, <4>3, <4>4
    <3> QED BY <3>1, <3>2
  <2>3. \A c \in Worker : ~rdy[c]
    BY <2>1, Outside DEF IInv, BarrierInv
  <2> QED BY <1>1, <2>1, <2>2, <2>3, Outside, FreshTask
<1>3. CASE mr_sample_end \/ mr_run_task_next
  <2>1. /\ pc[main_lcpu] = "join" /\ mthread_join /\ pc' = [pc EXCEPT ![main_lcpu] = "create"]
        /\ UNCHANGED <<ready, running, inited, work, status, rdy, stage>>
    BY <1>3 DEF mr_sample_end, mr_run_task_next, Goto, sortVars, poolVars
  <2>2. /\ pc'[main_lcpu] = "create" /\ \A c \in Worker : pc'[c] = "spin"
        /\ pc' \in [Cpu -> Places]
        /\ ready' \in [Cpu -> BOOLEAN] /\ running' \in [Cpu -> BOOLEAN]
        /\ \A c \in Worker : ~ready'[c] /\ ~running'[c]
    BY <2>1, Joined DEF IInv, PoolTypes, Places, mthread_join
  <2>3. \A c \in Worker : ~rdy[c]
    BY <2>1, Joined DEF IInv, BarrierInv
  <2> QED BY <1>1, <2>1, <2>2, <2>3, Joined, FreshTask
<1> QED BY <1>2, <1>3

\* A call of the library ends.
LEMMA ResultsStep ==
  ASSUME IInv, app_set_final_results
  PROVE  IInv'
<1> USE Cpus
<1>1. /\ pc[main_lcpu] = "join" /\ mthread_join /\ pc' = [pc EXCEPT ![main_lcpu] = "app"]
      /\ phase' = "NONE" /\ task_pos' = [task_pos EXCEPT !.live = FALSE]
      /\ UNCHANGED <<ready, running, inited, work, lid, status, rdy, stage>>
  BY DEF app_set_final_results, Goto, sortVars, poolVars
<1>2. task_pos' \in [id : Nat, val : Nat, live : BOOLEAN]
  BY <1>1 DEF IInv, PoolTypes
<1>3. /\ inited /\ \A c \in Worker : pc[c] = "spin" /\ ~ready[c] /\ pc'[c] = "spin"
      /\ status = "STOP" /\ pc'[main_lcpu] = "app"
      /\ \A c \in Cpu : stage[c] = 0 /\ pc'[c] \in {"app", "spin"}
  BY <1>1, Joined DEF IInv, PoolTypes
<1>4. PoolTypes' /\ PlaceInv'
  BY <1>1, <1>2, <1>3 DEF IInv, PoolTypes, PlaceInv, SortPlaces, Places
<1>5. MainInv' /\ WorkerInv'
  BY <1>1, <1>3 DEF IInv, MainInv, WorkerInv, MainPlaces, WorkerPlaces, Busy, TaskPhases
<1>6. BarrierInv' /\ CopyInv'
  BY <1>1, <1>3 DEF IInv, BarrierInv, CopyInv
<1> QED BY <1>4, <1>5, <1>6 DEF IInv

\* The pool is told to exit, and has exited.
LEMMA FinalizeStep ==
  ASSUME IInv, mr_finalize \/ mthread_finalize
  PROVE  IInv'
<1> USE Cpus
<1>1. CASE mr_finalize
  <2>1. /\ pc[main_lcpu] = "app" /\ inited /\ phase' = "EXIT" /\ lid' = 1
        /\ pc' = [pc EXCEPT ![main_lcpu] = "create"]
        /\ UNCHANGED <<ready, running, inited, work, task_pos, status, rdy, stage>>
    BY <1>1 DEF mr_finalize, Goto, poolVars, sortVars
  <2>2. /\ \A c \in Worker : pc[c] = "spin" /\ ~ready[c] /\ pc'[c] = "spin"
        /\ status = "STOP" /\ pc'[main_lcpu] = "create"
        /\ \A c \in Cpu : stage[c] = 0 /\ pc'[c] \in {"create", "spin"}
    BY <2>1, Outside DEF IInv, PoolTypes
  <2>3. PoolTypes' /\ PlaceInv'
    BY <2>1, <2>2, NCpusAssumption DEF IInv, PoolTypes, PlaceInv, SortPlaces, Places
  <2>4. MainInv' /\ WorkerInv'
    BY <2>1, <2>2 DEF IInv, MainInv, WorkerInv, MainPlaces, WorkerPlaces, Busy, TaskPhases
  <2>5. BarrierInv' /\ CopyInv'
    BY <2>1, <2>2 DEF IInv, BarrierInv, CopyInv
  <2> QED BY <2>3, <2>4, <2>5 DEF IInv
<1>2. CASE mthread_finalize
  <2>1. /\ pc[main_lcpu] = "joinexit" /\ \A c \in Worker : pc[c] = "exited"
        /\ ready' = PoolClear /\ running' = PoolClear /\ inited' = FALSE /\ phase' = "NONE"
        /\ pc' = [pc EXCEPT ![main_lcpu] = "app"]
        /\ UNCHANGED <<work, lid, task_pos, status, rdy, stage>>
    BY <1>2 DEF mthread_finalize, Goto, poolVars, sortVars
  <2>2. /\ \A c \in Worker : pc'[c] = "exited" /\ ~ready'[c]
        /\ pc'[main_lcpu] = "app" /\ status = "STOP"
        /\ \A c \in Cpu : stage[c] = 0 /\ pc'[c] \in {"app", "exited"}
    BY <2>1 DEF IInv, PoolTypes, BarrierInv, PoolClear, SortPlaces
  <2>3. PoolTypes' /\ PlaceInv'
    BY <2>1, <2>2 DEF IInv, PoolTypes, PlaceInv, SortPlaces, Places, PoolClear
  <2>4. MainInv' /\ WorkerInv'
    BY <2>1, <2>2 DEF IInv, MainInv, WorkerInv, MainPlaces, WorkerPlaces, Busy, TaskPhases
  <2>5. BarrierInv' /\ CopyInv'
    BY <2>1, <2>2 DEF IInv, BarrierInv, CopyInv
  <2> QED BY <2>3, <2>4, <2>5 DEF IInv
<1> QED BY <1>1, <1>2

-----------------------------------------------------------------------------
(***************************************************************************)
(* The theorems.                                                           *)
(***************************************************************************)
\* The invariant holds before the first job.
LEMMA IInvInit == Init => IInv
<1> SUFFICES ASSUME Init PROVE IInv
  OBVIOUS
<1> USE Cpus
<1>1. /\ \A c \in Cpu : pc[c] = (IF c = main_lcpu THEN "app" ELSE "exited")
      /\ \A c \in Cpu : ~ready[c] /\ ~running[c] /\ ~rdy[c] /\ stage[c] = 0
  BY DEF Init, PoolClear
<1>2. PoolTypes
  <2>1. {ready, running, rdy} \subseteq [Cpu -> BOOLEAN] /\ inited \in BOOLEAN
    BY DEF Init, PoolClear
  <2>2. work \in [Cpu -> [routine : {"NONE", "MAP", "REDUCE", "MERGE", "EXIT"}, arg : Nat]]
    BY DEF Init
  <2>3. pc \in [Cpu -> Places] /\ stage \in [Cpu -> Stages]
    BY DEF Init, Places, Stages
  <2>4. lid \in 0 .. NCpus
    BY NCpusAssumption DEF Init
  <2>5. task_pos \in [id : Nat, val : Nat, live : BOOLEAN]
    BY DEF Init
  <2> QED BY <2>1, <2>2, <2>3, <2>4, <2>5 DEF Init, PoolTypes
<1>3. PlaceInv /\ MainInv /\ WorkerInv
  BY <1>1 DEF Init, PlaceInv, MainInv, WorkerInv, SortPlaces, MainPlaces, WorkerPlaces, Busy, TaskPhases
<1>4. BarrierInv /\ CopyInv
  BY <1>1 DEF Init, BarrierInv, CopyInv
<1> QED BY <1>2, <1>3, <1>4 DEF IInv

\* Nothing changes.
LEMMA StutterStep == ASSUME IInv, UNCHANGED vars PROVE IInv'
<1>1. /\ UNCHANGED <<ready, running, work, inited, pc, lid, phase, task_pos, status, rdy, stage,
                     rbkts, total_len>>
  BY DEF vars, poolVars, schedVars, storeVars, sortVars, dataVars
<1>2. PoolTypes' /\ PlaceInv'
  BY <1>1 DEF IInv, PoolTypes, PlaceInv
<1>3. MainInv' /\ WorkerInv'
  BY <1>1 DEF IInv, MainInv, WorkerInv, Current, Routine, Handed
<1>4. BarrierInv' /\ CopyInv'
  BY <1>1 DEF IInv, BarrierInv, CopyInv, Pairs, Alone, Small
<1> QED BY <1>2, <1>3, <1>4 DEF IInv

\* One case per action.
LEMMA IInvNext == IInv /\ [Next]_vars => IInv'
<1> SUFFICES ASSUME IInv, [Next]_vars PROVE IInv'
  OBVIOUS
<1>1. CASE AppStep
  BY <1>1, TaskStep, FinalizeStep DEF AppStep
<1>2. CASE MainStep
  BY <1>2, CreateStep, CreateMainStep, TaskStep, ResultsStep, BarrierMainStep, FinalizeStep
  DEF MainStep
<1>3. ASSUME NEW c \in Cpu, PoolStep(c) PROVE IInv'
  BY <1>3, EntryStartStep, EntryCallStep, EntryEndStep, MapReduceStep, PsrsStep, BarrierStep
  DEF PoolStep, SortStep
<1>4. CASE UNCHANGED vars
  BY <1>4, StutterStep
<1> QED BY <1>1, <1>2, <1>3, <1>4 DEF Next, LibStep

\* The inductive invariant holds, for any number of CPUs.
THEOREM Invariance == Spec => []IInv
<1>1. Init => IInv BY IInvInit
<1>2. IInv /\ [Next]_vars => IInv' BY IInvNext
<1> QED BY <1>1, <1>2, PTL DEF Spec

\* A thread that runs a routine runs it for the mr_run_task in progress.
THEOREM NoThreadFallsBehind == Spec => []NoStragglers
<1>1. IInv => NoStragglers
  BY Cpus DEF IInv, NoStragglers, MainInv, WorkerInv, PlaceInv, Busy, SortPlaces, Current, TaskPhases
<1> QED BY <1>1, Invariance, PTL

\* psrs_barrier keeps the stages of the sort apart.
THEOREM BarrierSeparates == Spec => []StagesSeparated
<1>1. ASSUME IInv PROVE StagesSeparated
  <2> SUFFICES ASSUME NEW c \in Cpu, NEW d \in Cpu,
                      phase = "MERGE", pc[c] = "work", stage[c] > 0
               PROVE  Arrived(d, stage[c] - 1)
    BY DEF StagesSeparated
  <2> USE Cpus
  <2>1. stage \in [Cpu -> 0 .. 6]
    BY <1>1 DEF IInv, PoolTypes, Stages
  <2>2. pc[main_lcpu] \in {"work", "open", "gather", "drain", "return", "join"}
    <3>1. pc[main_lcpu] \in MainPlaces \ {"app", "joinexit"} /\ phase \notin {"SAMPLE", "MAP", "REDUCE"}
      BY <1>1 DEF IInv, MainInv
    <3>2. pc[main_lcpu] \notin {"create", "handoff", "enter"}
      BY <1>1, <2>1 DEF IInv, BarrierInv, SortPlaces
    <3> QED BY <1>1, <3>1, <3>2 DEF IInv, PlaceInv, MainPlaces, Busy
  <2>3. /\ pc[main_lcpu] \in {"work", "open", "gather"} => stage[c] = stage[main_lcpu]
        /\ pc[main_lcpu] = "drain" => stage[c] = stage[main_lcpu] + 1
    BY <1>1 DEF IInv, BarrierInv
  <2>4. CASE d = main_lcpu
    BY <2>1, <2>2, <2>3, <2>4 DEF Arrived
  <2>5. CASE d # main_lcpu
    <3>1. pc[d] \in {"work", "arrive", "leave", "return", "spin"}
      <4>1. pc[d] \notin {"started", "enter"}
        BY <1>1, <2>1, <2>2, <2>3, <2>5 DEF IInv, BarrierInv
      <4>2. pc[d] \in WorkerPlaces /\ pc[d] # "exited"
        BY <1>1, <2>2, <2>5 DEF IInv, WorkerInv, MainInv
      <4> QED BY <1>1, <4>1, <4>2 DEF IInv, PlaceInv, WorkerPlaces, Busy
    <3>2. CASE pc[d] \in {"return", "spin"}
      BY <3>2 DEF Arrived
    <3>3. CASE pc[d] = "leave"
      BY <1>1, <2>1, <2>3, <2>5, <3>3 DEF IInv, BarrierInv, Arrived
    <3>4. CASE pc[d] \in {"work", "arrive"}
      <4>1. stage[d] = stage[c]
        BY <1>1, <2>2, <2>5, <3>4 DEF IInv, BarrierInv
      <4> QED BY <2>1, <3>4, <4>1 DEF Arrived
    <3> QED BY <3>1, <3>2, <3>3, <3>4
  <2> QED BY <2>4, <2>5
<1> QED BY <1>1, Invariance, PTL

\* Nobody frees or replaces a bucket before everybody has copied its share.
THEOREM SharesComplete == Spec => []CopyComplete
<1>1. ASSUME IInv PROVE CopyComplete
  <2> SUFFICES ASSUME NEW c \in Cpu, pc[c] = "work", stage[c] = 1, c = main_lcpu \/ ~Alone
               PROVE  Len(Pairs(rbkts)) = total_len
    BY DEF CopyComplete
  <2> USE Cpus
  <2>1. phase = "MERGE" /\ stage \in [Cpu -> 0 .. 6]
    BY <1>1 DEF IInv, PlaceInv, SortPlaces, PoolTypes, Stages
  <2>2. CASE c = main_lcpu
    BY <1>1, <2>1, <2>2 DEF IInv, CopyInv
  <2>3. CASE c # main_lcpu
    <3>1. pc[main_lcpu] \notin {"return", "join"}
      BY <1>1, <2>1, <2>3 DEF IInv, CopyInv
    <3>2. /\ pc[main_lcpu] = "drain" => stage[main_lcpu] = 0
          /\ pc[main_lcpu] # "drain" => stage[main_lcpu] = 1
      BY <1>1, <2>1, <2>3, <3>1 DEF IInv, BarrierInv
    <3>3. pc[main_lcpu] \in {"work", "open", "gather", "drain"}
      BY <1>1, <3>1, <3>2 DEF IInv, BarrierInv, MainInv, MainPlaces, Busy, SortPlaces
    <3> QED BY <1>1, <2>1, <3>2, <3>3 DEF IInv, CopyInv
  <2> QED BY <2>2, <2>3
<1> QED BY <1>1, Invariance, PTL

-----------------------------------------------------------------------------
(***************************************************************************)
(* The backup of the sampled rows, where all jobs of a process are sampled *)
(* or none is.                                                             *)
(***************************************************************************)
\* In the current phase thread c has not come past kvst_map_worker_init.
NotMapped(c) ==
  IF c = main_lcpu THEN pc[c] \in {"create", "handoff", "enter", "mapinit"}
  ELSE ~Handed(c) \/ ready[c] \/ pc[c] \in {"started", "enter", "mapinit"}

\* There is a backup only after sampling, and while the threads sample the one
\* of the job before is off and every thread has its row; a thread that has not
\* begun to map still has its row of the backup.
BackupInv ==
  /\ has_backup => kind = "sample"
  /\ phase = "SAMPLE" =>
       /\ kind = "sample" /\ ~has_backup
       /\ mbks = [c \in Cpu |-> mbks[c]] /\ \A c \in Cpu : DOMAIN mbks[c] # {}
  /\ mapper_bak = [c \in Cpu |-> mapper_bak[c]]
  /\ phase = "MAP" /\ has_backup => \A c \in Cpu : NotMapped(c) => DOMAIN mapper_bak[c] # {}

\* What thread c does inside its routine.
LEMMA RoutineMoves ==
  ASSUME NEW c \in Cpu,
         \/ MapStep(c) \/ ReduceStep(c) \/ SortStep(c)
         \/ c = main_lcpu /\ psrs_barrier_main
  PROVE  /\ pc[c] \in Busy /\ UNCHANGED <<ready, lid, phase, kind, has_backup, input, tasks, nsplits>>
         /\ \E y \in Busy \ {"mapinit"} : pc' = [pc EXCEPT ![c] = y]
<1> USE DEF Goto, Busy, poolVars, schedVars, storeVars
<1>1. CASE MapStep(c)
  BY <1>1 DEF MapStep, kvst_map_worker_init, presplitter, map_func, splitVars
<1>2. CASE ReduceStep(c)
  BY <1>2 DEF ReduceStep, mr_reduce_worker, kvst_reduce_do_task, splitVars
<1>3. CASE SortStep(c)
  <2>1. CASE PsrsInit(c) \/ PsrsShare(c) \/ PsrsPivots(c) \/ PsrsDivide(c) \/ PsrsSizes(c) \/ PsrsMerge(c)
    BY <2>1 DEF PsrsInit, PsrsShare, PsrsPivots, PsrsDivide, PsrsSizes, PsrsMerge, ToBarrier, unsortedVars, splitVars
  <2>2. CASE PsrsAlone(c) \/ PsrsEnd(c)
    BY <2>2 DEF PsrsAlone, PsrsEnd, PsrsReturn, unsortedVars, splitVars
  <2>3. CASE psrs_barrier(c)
    BY <2>3 DEF psrs_barrier, unblockedVars, splitVars
  <2> QED BY <1>3, <2>1, <2>2, <2>3 DEF SortStep
<1>4. CASE c = main_lcpu /\ psrs_barrier_main
  BY <1>4 DEF psrs_barrier_main, unblockedVars, splitVars
<1> QED BY <1>1, <1>2, <1>3, <1>4

\* No thread gets back to before its map worker within a phase.
LEMMA NotMappedKept ==
  ASSUME IInv,
         \/ mthread_create \/ mthread_create_main \/ psrs_barrier_main
         \/ \E c \in Cpu : PoolStep(c)
  PROVE  \A d \in Cpu : NotMapped(d)' => NotMapped(d)
<1> USE Cpus DEF IInv, PoolTypes
<1>1. ASSUME NEW c \in Cpu, pc[c] \in Busy, UNCHANGED <<ready, lid>>, NEW y \in Busy \ {"mapinit"},
             pc' = [pc EXCEPT ![c] = y]
      PROVE  \A d \in Cpu : NotMapped(d)' => NotMapped(d)
  BY <1>1 DEF NotMapped, Handed, Busy
<1>2. ASSUME NEW c \in Cpu, MapStep(c) \/ ReduceStep(c) \/ SortStep(c) \/ (c = main_lcpu /\ psrs_barrier_main)
      PROVE  \A d \in Cpu : NotMapped(d)' => NotMapped(d)
  BY <1>1, <1>2, RoutineMoves
<1>3. ASSUME NEW c \in Cpu, mthread_entry_start(c) \/ mthread_entry_call(c) \/ mthread_entry_end(c)
      PROVE  \A d \in Cpu : NotMapped(d)' => NotMapped(d)
  <2>1. CASE mthread_entry_start(c)
    <3>1. c \in Worker
      BY <2>1 DEF mthread_entry_start, MainInv, MainPlaces, Busy
    <3> QED BY <2>1, <3>1 DEF mthread_entry_start, Goto, NotMapped, Handed, WorkerInv
  <2>2. CASE mthread_entry_call(c)
    <3>1. PICK y \in {"mapinit", "reduce", "work", "exited"} : pc' = [pc EXCEPT ![c] = y]
      BY <2>2, EntryCalls
    <3>2. pc[c] = "enter" /\ UNCHANGED <<ready, lid>>
      BY <2>2 DEF mthread_entry_call, poolVars
    <3> QED BY <3>1, <3>2 DEF NotMapped, Handed
  <2>3. CASE mthread_entry_end(c)
    BY <2>3 DEF mthread_entry_end, Goto, NotMapped, Handed
  <2> QED BY <1>3, <2>1, <2>2, <2>3
<1>4. CASE mthread_create
  BY <1>4 DEF mthread_create, Goto, NotMapped, Handed, MainInv, poolVars
<1>5. CASE mthread_create_main
  BY <1>5 DEF mthread_create_main, Goto, NotMapped, Handed
<1> QED BY <1>2, <1>3, <1>4, <1>5 DEF PoolStep

\* A step within a phase that leaves the table and the backup alone.
LEMMA BackupKept ==
  ASSUME BackupInv, UNCHANGED <<phase, kind, has_backup, mbks, mapper_bak>>,
         \A c \in Cpu : NotMapped(c)' => NotMapped(c)
  PROVE  BackupInv'
BY DEF BackupInv

\* A map worker puts its keys into its row, or takes its row of the backup.
LEMMA BackupMapStep ==
  ASSUME IInv, BackupInv, NEW c \in Cpu, MapStep(c)
  PROVE  BackupInv'
<1> USE Cpus
<1>1. /\ UNCHANGED <<phase, kind, has_backup>> /\ pc[c] \in {"mapinit", "map", "mapdo"}
      /\ \A d \in Cpu : NotMapped(d)' => NotMapped(d)
  BY RoutineMoves, NotMappedKept DEF MapStep, kvst_map_worker_init, presplitter, map_func, PoolStep
<1>2. CASE presplitter(c)
  BY <1>1, <1>2, BackupKept DEF presplitter, storeVars
<1>3. CASE map_func(c)
  <2>1. PICK row : mbks' = [mbks EXCEPT ![c] = row] /\ DOMAIN row = DOMAIN mbks[c]
    <3>1. mbks' = [mbks EXCEPT ![c] = mbm_map_put(mbks[c], input[cur[c] + 1])]
      BY <1>3 DEF map_func
    <3>2. DOMAIN mbm_map_put(mbks[c], input[cur[c] + 1]) = DOMAIN mbks[c]
      BY DEF mbm_map_put
    <3> QED BY <3>1, <3>2
  <2>2. mapper_bak' = mapper_bak
    BY <1>3 DEF map_func
  <2>3. phase = "SAMPLE" =>
          mbks' = [d \in Cpu |-> mbks'[d]] /\ \A d \in Cpu : DOMAIN mbks'[d] # {}
    BY <2>1 DEF BackupInv
  <2> QED BY <1>1, <2>2, <2>3 DEF BackupInv
<1>4. CASE kvst_map_worker_init(c)
  <2>1. CASE ~has_backup
    BY <1>1, <1>4, <2>1, BackupKept DEF kvst_map_worker_init
  <2>2. CASE has_backup
    <3>1. mapper_bak' = [mapper_bak EXCEPT ![c] = <<>>] /\ UNCHANGED <<ready, lid>>
          /\ pc' = [pc EXCEPT ![c] = "map"]
      BY <1>4, <2>2 DEF kvst_map_worker_init, Goto, poolVars
    <3>2. ~NotMapped(c)'
      BY <1>1, <3>1 DEF IInv, PoolTypes, WorkerInv, NotMapped, Handed
    <3> QED BY <1>1, <2>2, <3>1, <3>2 DEF BackupInv
  <2> QED BY <2>1, <2>2
<1> QED BY <1>2, <1>3, <1>4 DEF MapStep

\* The steps inside a phase.
LEMMA BackupPhaseStep ==
  ASSUME IInv, BackupInv,
         \/ mthread_create \/ mthread_create_main \/ psrs_barrier_main
         \/ \E c \in Cpu : PoolStep(c)
  PROVE  BackupInv'
<1> USE Cpus
<1>1. \A d \in Cpu : NotMapped(d)' => NotMapped(d)
  BY NotMappedKept
<1>2. CASE mthread_create \/ mthread_create_main \/ psrs_barrier_main
  <2>1. UNCHANGED <<phase, kind, has_backup, mbks, mapper_bak>>
    BY <1>2 DEF mthread_create, mthread_create_main, psrs_barrier_main, unblockedVars, schedVars, storeVars
  <2> QED BY <1>1, <2>1, BackupKept
<1>3. ASSUME NEW c \in Cpu, mthread_entry_start(c) \/ mthread_entry_call(c) \/ mthread_entry_end(c)
      PROVE  BackupInv'
  <2>1. UNCHANGED <<phase, kind, has_backup, mbks, mapper_bak>>
    BY <1>3 DEF mthread_entry_start, mthread_entry_call, mthread_entry_end, schedVars, storeVars
  <2> QED BY <1>1, <2>1, BackupKept
<1>4. ASSUME NEW c \in Cpu, ReduceStep(c) PROVE BackupInv'
  <2>1. UNCHANGED <<phase, kind, has_backup, mapper_bak>> /\ pc[c] \in {"reduce", "reducedo"}
    BY <1>4 DEF ReduceStep, mr_reduce_worker, kvst_reduce_do_task, schedVars, storeVars
  <2>2. phase = "REDUCE"
    BY <2>1 DEF IInv, PlaceInv
  <2> QED BY <2>1, <2>2 DEF BackupInv
<1>5. ASSUME NEW c \in Cpu, SortStep(c) PROVE BackupInv'
  <2>1. UNCHANGED <<phase, kind, has_backup>>
    BY <1>5, RoutineMoves
  <2>2. UNCHANGED <<mbks, mapper_bak>>
    BY <1>5 DEF SortStep, PsrsInit, PsrsAlone, PsrsShare, PsrsPivots, PsrsDivide, PsrsSizes, PsrsMerge,
       PsrsEnd, psrs_barrier, unsortedVars, unblockedVars, storeVars
  <2> QED BY <1>1, <2>1, <2>2, BackupKept
<1> QED BY <1>2, <1>3, <1>4, <1>5, BackupMapStep DEF PoolStep

\* A new table has a column in each row.
LEMMA NewTable ==
  ASSUME NEW cols \in Nat \ {0}, mbks' = mbks_init(cols)
  PROVE  mbks' = [c \in Cpu |-> mbks'[c]] /\ \A c \in Cpu : DOMAIN mbks'[c] # {}
<1>1. \A c \in Cpu : DOMAIN mbks'[c] = 0 .. cols - 1
  BY DEF mbks_init
<1>2. 0 \in 0 .. cols - 1
  OBVIOUS
<1>3. mbks' = [c \in Cpu |-> mbks'[c]]
  BY DEF mbks_init
<1> QED BY <1>1, <1>2, <1>3

\* The steps from phase to phase.
LEMMA BackupTaskStep ==
  ASSUME ~MixedKinds, IInv, BackupInv,
         \/ mr_setup \/ mr_sample_end \/ mr_run_task_next \/ app_set_final_results
         \/ mr_finalize \/ mthread_finalize
  PROVE  BackupInv'
<1> USE Cpus
<1>1. CASE mr_setup
  <2>1. kind' = kind /\ mapper_bak' = mapper_bak /\ mbks' = mbks_init(tasks')
    BY <1>1 DEF mr_setup
  <2>2. CASE kind = "sample"
    <3>1. tasks' = SampleTasks /\ ~has_backup' /\ phase' = "SAMPLE"
      BY <1>1, <2>1, <2>2 DEF mr_setup, kvst_sample_init, RunTask
    <3>2. SampleTasks \in Nat \ {0}
      BY MetisAssumption
    <3> QED BY <2>1, <2>2, <3>1, <3>2, NewTable DEF BackupInv
  <2>3. CASE kind # "sample"
    <3>1. has_backup' = has_backup /\ phase' = "MAP"
      BY <1>1, <2>1, <2>3 DEF mr_setup, RunTask
    <3> QED BY <2>1, <2>3, <3>1 DEF BackupInv
  <2> QED BY <2>2, <2>3
<1>2. CASE mr_sample_end
  <2>1. phase = "SAMPLE" /\ phase' = "MAP" /\ kind' = kind /\ mapper_bak' = mbks
    BY <1>2 DEF mr_sample_end, RunTask
  <2> QED BY <2>1 DEF BackupInv
<1>3. CASE mr_run_task_next \/ app_set_final_results \/ mr_finalize \/ mthread_finalize
  <2>1. UNCHANGED <<kind, has_backup, mapper_bak>> /\ phase' \notin {"SAMPLE", "MAP"}
    BY <1>3 DEF mr_run_task_next, app_set_final_results, mr_finalize, mthread_finalize, RunTask, storeVars, schedVars
  <2> QED BY <2>1 DEF BackupInv
<1> QED BY <1>1, <1>2, <1>3

\* Where all jobs are sampled or none is, a thread that starts to map finds its
\* row of the backup whenever there is one: the assert of mbm_rehash_bak holds
\* for any number of CPUs and jobs.  With jobs of both kinds it does not, since
\* nothing resets has_backup.
THEOREM RehashFindsBackup == ~MixedKinds => (Spec => []BackupReady)
<1> SUFFICES ASSUME ~MixedKinds PROVE Spec => []BackupReady
  OBVIOUS
<1>1. Init => BackupInv
  BY DEF Init, BackupInv, NoBak
<1>2. IInv /\ BackupInv /\ [Next]_vars => BackupInv'
  <2> SUFFICES ASSUME IInv, BackupInv, [Next]_vars PROVE BackupInv'
    OBVIOUS
  <2>1. CASE UNCHANGED vars
    <3>1. UNCHANGED <<phase, kind, has_backup, mbks, mapper_bak, pc, ready, lid>>
      BY <2>1 DEF vars, poolVars, schedVars, storeVars
    <3>2. \A c \in Cpu : NotMapped(c)' = NotMapped(c)
      BY <3>1 DEF NotMapped, Handed
    <3> QED BY <3>1, <3>2, BackupKept
  <2>2. CASE Next
    BY <2>2, BackupPhaseStep, BackupTaskStep DEF Next, AppStep, LibStep, MainStep
  <2> QED BY <2>1, <2>2
<1>3. IInv /\ BackupInv => BackupReady
  <2> SUFFICES ASSUME IInv, BackupInv, NEW c \in Cpu, pc[c] = "mapinit", has_backup
               PROVE  mapper_bak[c] # <<>>
    BY DEF BackupReady
  <2>1. phase = "MAP"
    BY DEF IInv, PlaceInv, BackupInv
  <2>2. NotMapped(c)
    BY DEF NotMapped
  <2>3. DOMAIN mapper_bak[c] # {}
    BY <2>1, <2>2 DEF BackupInv
  <2>4. DOMAIN <<>> = {}
    OBVIOUS
  <2> QED BY <2>3, <2>4
<1> QED BY <1>1, <1>2, <1>3, Invariance, PTL DEF Spec

-----------------------------------------------------------------------------
(***************************************************************************)
(* The counters of splits and reduce tasks.                                *)
(***************************************************************************)
\* In the current phase thread c has returned from its worker.
Returned(c) ==
  IF c = main_lcpu THEN pc[c] \in {"return", "join"}
  ELSE Handed(c) /\ ~ready[c] /\ pc[c] \in {"return", "spin"}

Over == Cardinality({c \in Cpu : Returned(c)})

\* Only a thread that then returns takes a counter past its limit.
CounterInv ==
  /\ nsplits \in Nat /\ idx \in Nat /\ tasks \in Nat
  /\ phase = "SAMPLE" => input \in Inputs /\ nsplits <= Len(input)
  /\ phase \in {"SAMPLE", "MAP"} => idx <= nsplits + Over
  /\ phase = "REDUCE" => task_pos.val <= tasks + Over
  /\ CountersInRange

\* The larger and the smaller of two numbers.
LEMMA MaxMin ==
  ASSUME NEW a \in Nat, NEW b \in Nat
  PROVE  /\ Max({a, b}) \in {a, b} /\ Max({a, b}) >= a /\ Max({a, b}) >= b
         /\ Min({a, b}) \in {a, b} /\ Min({a, b}) <= a /\ Min({a, b}) <= b
<1>1. \E x \in {a, b} : \A y \in {a, b} : x >= y
  <2>1. a >= b \/ b >= a
    OBVIOUS
  <2> QED BY <2>1
<1>2. \E x \in {a, b} : \A y \in {a, b} : x =< y
  <2>1. a =< b \/ b =< a
    OBVIOUS
  <2> QED BY <2>1
<1>3. Max({a, b}) \in {a, b} /\ \A y \in {a, b} : Max({a, b}) >= y
  BY <1>1 DEF Max
<1>4. Min({a, b}) \in {a, b} /\ \A y \in {a, b} : Min({a, b}) =< y
  BY <1>2 DEF Min
<1> QED BY <1>3, <1>4

\* mr_sample never takes more splits than there are.
LEMMA SampledFew ==
  ASSUME NEW n \in Nat \ {0}
  PROVE  NSampled(n) \in Nat /\ NSampled(n) <= n
<1> DEFINE share == (5 * n) \div 100
           least == IF share < NCpus THEN Min({NCpus, n}) ELSE share
<1>1. share \in Nat /\ share <= n
  OBVIOUS
<1>2. Min({NCpus, n}) \in Nat /\ Min({NCpus, n}) <= n
  BY MaxMin, NCpusAssumption
<1>3. least \in Nat /\ least <= n
  BY <1>1, <1>2
<1> HIDE DEF least
<1>4. Max({least, 1}) \in {least, 1}
  BY <1>3, MaxMin
<1>5. NSampled(n) = Max({least, 1})
  BY DEF NSampled, least
<1> QED BY <1>3, <1>4, <1>5

\* The number of threads that have returned, before and after a step.
LEMMA OverCount ==
  \E n, m \in 0 .. NCpus :
    /\ n = Over /\ m = Over'
    /\ (\A c \in Cpu : Returned(c) => Returned(c)') =>
         /\ n <= m
         /\ (\E c \in Cpu : ~Returned(c) /\ Returned(c)') => n + 1 <= m
<1> DEFINE S == {c \in Cpu : Returned(c)}
           T == {c \in Cpu : Returned(c)'}
<1>1. IsFiniteSet(Cpu) /\ Cardinality(Cpu) = NCpus
  BY NCpusAssumption, FS_Interval DEF Cpu
<1>2. Over = Cardinality(S) /\ Over' = Cardinality(T)
  BY DEF Over
<1>3. S \subseteq Cpu /\ T \subseteq Cpu
  OBVIOUS
<1>4. /\ IsFiniteSet(S) /\ Cardinality(S) \in Nat /\ Cardinality(S) <= NCpus
      /\ IsFiniteSet(T) /\ Cardinality(T) \in Nat /\ Cardinality(T) <= NCpus
  <2> HIDE DEF S, T
  <2> QED BY <1>1, <1>3, FS_Subset, FS_CardinalityType
<1>5. ASSUME \A c \in Cpu : Returned(c) => Returned(c)' PROVE S \subseteq T
  BY <1>5
<1>6. ASSUME S \subseteq T PROVE Cardinality(S) <= Cardinality(T)
  <2> HIDE DEF S, T
  <2> QED BY <1>4, <1>6, FS_Subset
<1>7. ASSUME S \subseteq T, NEW c \in Cpu, ~Returned(c), Returned(c)' PROVE Cardinality(S) + 1 <= Cardinality(T)
  <2>1. c \notin S /\ S \cup {c} \subseteq T
    BY <1>7
  <2> HIDE DEF S, T
  <2>2. Cardinality(S \cup {c}) = Cardinality(S) + 1
    BY <1>4, <2>1, FS_AddElement
  <2> QED BY <1>4, <2>1, <2>2, FS_Subset
<1> HIDE DEF S, T
<1>8. PICK n, m : n = Cardinality(S) /\ m = Cardinality(T)
  OBVIOUS
<1>9. n \in 0 .. NCpus /\ m \in 0 .. NCpus
  BY <1>4, <1>8, NCpusAssumption
<1>10. n = Over /\ m = Over'
  BY <1>2, <1>8
<1> QED BY <1>5, <1>6, <1>7, <1>8, <1>9, <1>10

\* A thread that has returned stays so within a phase.
LEMMA ReturnedKept ==
  ASSUME IInv,
         \/ mthread_create \/ mthread_create_main \/ psrs_barrier_main
         \/ \E c \in Cpu : PoolStep(c)
  PROVE  \A d \in Cpu : Returned(d) => Returned(d)'
<1> USE Cpus DEF IInv, PoolTypes
<1>1. ASSUME NEW c \in Cpu, MapStep(c) \/ ReduceStep(c) \/ SortStep(c) \/ (c = main_lcpu /\ psrs_barrier_main)
      PROVE  \A d \in Cpu : Returned(d) => Returned(d)'
  <2>1. PICK y \in Busy \ {"mapinit"} : pc' = [pc EXCEPT ![c] = y]
    BY <1>1, RoutineMoves
  <2>2. pc[c] \in Busy /\ UNCHANGED <<ready, lid>>
    BY <1>1, RoutineMoves
  <2>3. pc[c] # "return"
    <3>1. CASE MapStep(c) \/ ReduceStep(c)
      BY <3>1 DEF MapStep, ReduceStep, kvst_map_worker_init, presplitter, map_func, mr_reduce_worker, kvst_reduce_do_task
    <3>2. CASE SortStep(c)
      BY <3>2 DEF SortStep, PsrsInit, PsrsAlone, PsrsShare, PsrsPivots, PsrsDivide, PsrsSizes, PsrsMerge,
         PsrsEnd, psrs_barrier
    <3>3. CASE c = main_lcpu /\ psrs_barrier_main
      BY <3>3 DEF psrs_barrier_main
    <3> QED BY <1>1, <3>1, <3>2, <3>3
  <2> QED BY <2>1, <2>2, <2>3 DEF Returned, Handed, Busy
<1>2. ASSUME NEW c \in Cpu, mthread_entry_start(c) \/ mthread_entry_call(c) \/ mthread_entry_end(c)
      PROVE  \A d \in Cpu : Returned(d) => Returned(d)'
  <2>1. CASE mthread_entry_start(c)
    <3>1. c \in Worker
      BY <2>1 DEF mthread_entry_start, MainInv, MainPlaces, Busy
    <3> QED BY <2>1, <3>1 DEF mthread_entry_start, Goto, Returned, Handed, WorkerInv
  <2>2. CASE mthread_entry_call(c)
    <3>1. PICK y \in {"mapinit", "reduce", "work", "exited"} : pc' = [pc EXCEPT ![c] = y]
      BY <2>2, EntryCalls
    <3>2. pc[c] = "enter" /\ UNCHANGED <<ready, lid>>
      BY <2>2 DEF mthread_entry_call, poolVars
    <3> QED BY <3>1, <3>2 DEF Returned, Handed
  <2>3. CASE mthread_entry_end(c)
    BY <2>3 DEF mthread_entry_end, Goto, Returned, Handed
  <2> QED BY <1>2, <2>1, <2>2, <2>3
<1>3. CASE mthread_create
  BY <1>3 DEF mthread_create, Goto, Returned, Handed, MainInv, poolVars
<1>4. CASE mthread_create_main
  BY <1>4 DEF mthread_create_main, Goto, Returned, Handed
<1> QED BY <1>1, <1>2, <1>3, <1>4 DEF PoolStep

\* A step within a phase that leaves the counters alone.
LEMMA CounterKept ==
  ASSUME CounterInv, UNCHANGED <<phase, input, nsplits, tasks, idx, task_pos>>,
         task_pos.val \in Nat, \A c \in Cpu : Returned(c) => Returned(c)'
  PROVE  CounterInv'
<1>1. PICK n, m \in 0 .. NCpus : n = Over /\ m = Over' /\ n <= m
  BY OverCount
<1>2. nsplits \in Nat /\ idx \in Nat /\ tasks \in Nat /\ n \in Nat /\ m \in Nat /\ n <= m
  BY <1>1, NCpusAssumption DEF CounterInv
<1>3. phase \in {"SAMPLE", "MAP"} => idx <= nsplits + m
  <2>1. phase \in {"SAMPLE", "MAP"} => idx <= nsplits + n
    BY <1>1 DEF CounterInv
  <2> QED BY <1>2, <2>1
<1>4. phase = "REDUCE" => task_pos.val <= tasks + m
  <2>1. phase = "REDUCE" => task_pos.val <= tasks + n
    BY <1>1 DEF CounterInv
  <2> QED BY <1>2, <2>1
<1> QED BY <1>1, <1>3, <1>4 DEF CounterInv, CountersInRange

\* A thread fetches a split.
LEMMA SplitStep ==
  ASSUME IInv, CounterInv, NEW c \in Cpu, presplitter(c)
  PROVE  CounterInv'
<1> USE Cpus
<1>1. /\ pc[c] = "map" /\ idx' = idx + 1 /\ UNCHANGED <<phase, input, nsplits, tasks, task_pos, ready, lid>>
      /\ IF idx >= nsplits THEN pc' = [pc EXCEPT ![c] = "return"] ELSE pc' = [pc EXCEPT ![c] = "mapdo"]
  BY DEF presplitter, Goto, poolVars, schedVars
<1>2. phase \in {"SAMPLE", "MAP"}
  BY <1>1 DEF IInv, PlaceInv
<1>3. \A d \in Cpu : Returned(d) => Returned(d)'
  BY ReturnedKept DEF PoolStep, MapStep
<1>4. ~Returned(c) /\ (idx >= nsplits => Returned(c)')
  BY <1>1 DEF IInv, PoolTypes, WorkerInv, Returned, Handed
<1>5. PICK n, m \in 0 .. NCpus : n = Over /\ m = Over' /\ n <= m /\ (idx >= nsplits => n + 1 <= m)
  BY <1>3, <1>4, OverCount
<1>6. nsplits \in Nat /\ idx \in Nat /\ idx <= nsplits + n
  BY <1>2, <1>5 DEF CounterInv
<1>7. NCpus \in Nat /\ n \in Nat /\ m \in Nat /\ m <= NCpus /\ n <= m /\ (idx >= nsplits => n + 1 <= m)
  BY <1>5, NCpusAssumption
<1>8. idx' \in Nat /\ idx' <= nsplits + m /\ idx' <= nsplits + NCpus
  BY <1>1, <1>6, <1>7
<1> QED BY <1>1, <1>2, <1>5, <1>8 DEF CounterInv, CountersInRange

\* A thread fetches a reduce task.
LEMMA FetchStep ==
  ASSUME IInv, CounterInv, NEW c \in Cpu, mr_reduce_worker(c)
  PROVE  CounterInv'
<1> USE Cpus
<1> DEFINE v == task_pos.val
<1>1. /\ pc[c] = "reduce" /\ task_pos' = [task_pos EXCEPT !.val = @ + 1]
      /\ UNCHANGED <<phase, input, nsplits, tasks, idx, ready, lid>>
      /\ IF v >= tasks THEN pc' = [pc EXCEPT ![c] = "return"] ELSE pc' = [pc EXCEPT ![c] = "reducedo"]
  BY DEF mr_reduce_worker, Goto, poolVars, splitVars
<1>2. phase = "REDUCE"
  BY <1>1 DEF IInv, PlaceInv
<1>3. \A d \in Cpu : Returned(d) => Returned(d)'
  BY ReturnedKept DEF PoolStep, ReduceStep
<1>4. ~Returned(c) /\ (v >= tasks => Returned(c)')
  BY <1>1 DEF IInv, PoolTypes, WorkerInv, Returned, Handed
<1>5. PICK n, m \in 0 .. NCpus : n = Over /\ m = Over' /\ n <= m /\ (v >= tasks => n + 1 <= m)
  BY <1>3, <1>4, OverCount
<1>6. tasks \in Nat /\ v \in Nat /\ v <= tasks + n
  BY <1>2, <1>5 DEF CounterInv, IInv, PoolTypes
<1>7. task_pos'.val = v + 1
  BY <1>1 DEF IInv, PoolTypes
<1>8. NCpus \in Nat /\ n \in Nat /\ m \in Nat /\ m <= NCpus /\ n <= m /\ (v >= tasks => n + 1 <= m)
  BY <1>5, NCpusAssumption
<1> HIDE DEF v
<1>9. task_pos'.val <= tasks + m /\ task_pos'.val <= tasks + NCpus
  BY <1>6, <1>7, <1>8
<1> QED BY <1>1, <1>2, <1>5, <1>9 DEF CounterInv, CountersInRange

\* The steps inside a phase.
LEMMA CounterPhaseStep ==
  ASSUME IInv, CounterInv,
         \/ mthread_create \/ mthread_create_main \/ psrs_barrier_main
         \/ \E c \in Cpu : PoolStep(c)
  PROVE  CounterInv'
<1> USE Cpus
<1>1. \A d \in Cpu : Returned(d) => Returned(d)'
  BY ReturnedKept
<1>2. task_pos.val \in Nat
  BY DEF IInv, PoolTypes
<1>3. CASE mthread_create \/ mthread_create_main \/ psrs_barrier_main
  <2>1. UNCHANGED <<phase, input, nsplits, tasks, idx, task_pos>>
    BY <1>3 DEF mthread_create, mthread_create_main, psrs_barrier_main, unblockedVars, schedVars, splitVars
  <2> QED BY <1>1, <1>2, <2>1, CounterKept
<1>4. ASSUME NEW c \in Cpu,
             \/ mthread_entry_start(c) \/ mthread_entry_call(c) \/ mthread_entry_end(c)
             \/ kvst_map_worker_init(c) \/ map_func(c) \/ kvst_reduce_do_task(c)
      PROVE  CounterInv'
  <2>1. UNCHANGED <<phase, input, nsplits, tasks, idx, task_pos>>
    BY <1>4 DEF mthread_entry_start, mthread_entry_call, mthread_entry_end, kvst_map_worker_init, map_func,
       kvst_reduce_do_task, schedVars, splitVars
  <2> QED BY <1>1, <1>2, <2>1, CounterKept
<1>5. ASSUME NEW c \in Cpu, SortStep(c) PROVE CounterInv'
  <2>1. UNCHANGED <<phase, input, nsplits, tasks, idx, task_pos>>
    BY <1>5 DEF SortStep, PsrsInit, PsrsAlone, PsrsShare, PsrsPivots, PsrsDivide, PsrsSizes, PsrsMerge,
       PsrsEnd, psrs_barrier, unsortedVars, unblockedVars, schedVars, splitVars
  <2> QED BY <1>1, <1>2, <2>1, CounterKept
<1> QED BY <1>3, <1>4, <1>5, SplitStep, FetchStep DEF PoolStep, MapStep, ReduceStep

\* The steps from phase to phase.
LEMMA CounterTaskStep ==
  ASSUME IInv, CounterInv,
         \/ mr_setup \/ mr_sample_end \/ mr_run_task_next \/ app_set_final_results
         \/ mr_finalize \/ mthread_finalize
  PROVE  CounterInv'
<1>1. PICK m \in 0 .. NCpus : m = Over'
  BY OverCount
<1>2. \A a, b \in Nat : a <= b => a <= b + NCpus /\ a <= b + m
  <2>1. NCpus \in Nat /\ m \in Nat
    BY <1>1, NCpusAssumption
  <2> QED BY <2>1
<1>3. \A in \in Inputs : Len(in) \in Nat \ {0}
  <2>1. \A in \in Inputs : in \in Seq(Seq(Key)) /\ in # <<>>
    BY MetisAssumption
  <2> QED BY <2>1
<1>4. CASE mr_setup
  <2>1. idx' = 0 /\ task_pos'.val = 0 /\ input' \in Inputs
    BY <1>4 DEF mr_setup, RunTask
  <2>2. /\ tasks' \in {SampleTasks, FixedTasks}
        /\ \/ nsplits' = NSampled(Len(input'))
           \/ nsplits' = Len(input') /\ phase' = "MAP"
    BY <1>4 DEF mr_setup, RunTask
  <2>3. nsplits' \in Nat /\ nsplits' <= Len(input')
    BY <1>3, <2>1, <2>2, SampledFew
  <2>4. tasks' \in Nat
    BY <2>2, MetisAssumption
  <2>5. 0 <= nsplits' + NCpus /\ 0 <= tasks' + NCpus /\ 0 <= nsplits' + m /\ 0 <= tasks' + m
    <3>1. nsplits' \in Nat /\ 0 <= nsplits' /\ 0 <= tasks' /\ 0 \in Nat
      BY <2>3, <2>4
    <3> QED BY <1>2, <2>4, <3>1
  <2> QED BY <1>1, <2>1, <2>3, <2>4, <2>5 DEF CounterInv, CountersInRange
<1>5. CASE mr_sample_end
  <2>1. /\ phase = "SAMPLE" /\ phase' = "MAP" /\ idx' = nsplits /\ nsplits' = Len(input)
        /\ task_pos'.val = 0
    BY <1>5 DEF mr_sample_end, presplitter_done_sample, RunTask
  <2>2. tasks' \in Nat
    <3>1. PICK ntasks \in Estimates : tasks' = Max({ntasks, NCpus * TasksPerCpu})
      BY <1>5 DEF mr_sample_end
    <3>2. ntasks \in Nat /\ NCpus * TasksPerCpu \in Nat
      BY NCpusAssumption, MetisAssumption
    <3> QED BY <3>1, <3>2, MaxMin
  <2>3. nsplits \in Nat /\ nsplits <= Len(input) /\ Len(input) \in Nat
    BY <1>3, <2>1 DEF CounterInv
  <2>4. idx' <= nsplits' + NCpus /\ 0 <= tasks' + NCpus /\ idx' <= nsplits' + m
    BY <1>2, <2>1, <2>2, <2>3
  <2> QED BY <1>1, <2>1, <2>2, <2>3, <2>4 DEF CounterInv, CountersInRange
<1>6. CASE mr_run_task_next
  <2>1. /\ phase' \in {"REDUCE", "MERGE"} /\ task_pos'.val = 0 /\ UNCHANGED <<idx, nsplits, tasks>>
    BY <1>6 DEF mr_run_task_next, RunTask, splitVars
  <2>2. tasks \in Nat /\ 0 <= tasks + NCpus /\ 0 <= tasks + m
    BY <1>2 DEF CounterInv
  <2> QED BY <1>1, <2>1, <2>2 DEF CounterInv, CountersInRange
<1>7. CASE app_set_final_results \/ mr_finalize \/ mthread_finalize
  <2>1. phase' \in {"NONE", "EXIT"} /\ task_pos'.val = task_pos.val /\ UNCHANGED <<idx, nsplits, tasks>>
    BY <1>7 DEF app_set_final_results, mr_finalize, mthread_finalize, splitVars, IInv, PoolTypes
  <2> QED BY <2>1 DEF CounterInv, CountersInRange
<1> QED BY <1>4, <1>5, <1>6, <1>7

\* For any number of CPUs, splits and reduce tasks, the shared counters of the
\* splits and of the reduce tasks pass their limits by at most one per thread.
THEOREM CountersBounded == Spec => []CountersInRange
<1>1. Init => CounterInv
  BY NCpusAssumption DEF Init, CounterInv, CountersInRange
<1>2. IInv /\ CounterInv /\ [Next]_vars => CounterInv'
  <2> SUFFICES ASSUME IInv, CounterInv, [Next]_vars PROVE CounterInv'
    OBVIOUS
  <2>1. CASE UNCHANGED vars
    <3>1. UNCHANGED <<phase, input, nsplits, tasks, idx, task_pos, pc, ready, lid>>
      BY <2>1 DEF vars, poolVars, schedVars, splitVars
    <3>2. \A c \in Cpu : Returned(c) => Returned(c)'
      BY <3>1 DEF Returned, Handed
    <3> QED BY <3>1, <3>2, CounterKept DEF IInv, PoolTypes
  <2>2. CASE Next
    BY <2>2, CounterPhaseStep, CounterTaskStep DEF Next, AppStep, LibStep, MainStep
  <2> QED BY <2>1, <2>2
<1>3. CounterInv => CountersInRange
  BY DEF CounterInv
<1> QED BY <1>1, <1>2, <1>3, Invariance, PTL DEF Spec
=============================================================================
