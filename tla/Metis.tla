------------------------------- MODULE Metis -------------------------------
(***************************************************************************)
(* The Metis MapReduce library: the thread pool (pthreadpool.c), the       *)
(* scheduler (mr-sched.c) with its pre-computed splits (presplitter.c),    *)
(* the key/value store (kvstore.c, btreebktmgr.c, rbktsmgr.c, reduce.c) on *)
(* its B+ trees and the parallel sort of the merge phase (psrs.c), for the *)
(* default configuration of mr-conf.h and jobs that reduce or group.       *)
(*                                                                         *)
(* Threads share memory without locks: they poll flags, fetch tasks with   *)
(* an atomic add, and otherwise stay in their own row of the store, their  *)
(* own reduce task or, between two barriers, their own slots of the sort's *)
(* arrays.  A step is one access to a flag or counter, or the work between *)
(* two of them.                                                            *)
(***************************************************************************)
EXTENDS PsrsSort, KeyvalsBtree, FiniteSetsExt

CONSTANTS
  Inputs,       \* inputs of a job: what map_func emits, split by split
  Key,          \* the keys they emit, positive integers
  Kinds,        \* "fixed": the job sets its reduce tasks; "sample": it does not
  MixedKinds,   \* whether the jobs of a process may be of different kinds
  FixedTasks,   \* reduce_tasks of a "fixed" job
  SampleTasks,  \* def_sample_reduce_tasks
  TasksPerCpu,  \* def_gr_tasks_per_cpu
  Estimates,    \* possible estimates of kvst_sample_finished
  MaxJobs       \* bound on calls of mr_run_scheduler

ASSUME MetisAssumption ==
  /\ Key \subseteq Nat \ {0}
  /\ Inputs \subseteq Seq(Seq(Key)) /\ <<>> \notin Inputs
  /\ Kinds # {} /\ Kinds \subseteq {"fixed", "sample"}
  /\ MixedKinds \in BOOLEAN
  /\ {FixedTasks, SampleTasks, TasksPerCpu, MaxJobs} \subseteq Nat \ {0}
  /\ Estimates # {} /\ Estimates \subseteq Nat

main_lcpu == 0
free_lcpu == 1
Worker == Cpu \ {main_lcpu}

VARIABLES
  ready, running, work, inited,                   \* pthreadpool.c
  pc, lid,             \* where each thread is; mr_run_task's loop variable
  job, kind, input, phase, tasks, task_pos,       \* mr-sched.c
  idx, nsplits,                                   \* presplitter_state
  mbks, mapper_bak, has_backup, rbkts, results,   \* the key/value store
  cur,                 \* the split or reduce task a thread has fetched
  status, rdy, stage, total_len, lpairs, pivots, subsize, partsize  \* psrs.c

poolVars  == <<ready, running, work, inited>>
schedVars == <<job, kind, input, phase, tasks, task_pos>>
splitVars == <<idx, nsplits>>
storeVars == <<mbks, mapper_bak, has_backup, rbkts, results>>
dataVars  == <<total_len, lpairs, pivots, subsize, partsize>>
sortVars  == <<status, rdy, stage, dataVars>>
vars == <<poolVars, pc, lid, schedVars, splitVars, storeVars, cur, sortVars>>

-----------------------------------------------------------------------------
NoBak == [c \in Cpu |-> <<>>]    \* a row of mapper_bak is freed: no columns

mbks_init(cols) == [c \in Cpu |-> [col \in 0 .. cols - 1 |-> pch_init]]

\* The column of a key in a table of cols columns; the partition function is
\* the application's, here the key itself.
Col(k, cols) == k % cols

\* mbm_map_put of those of the keys, one after the other, that go to column col.
put_column(tree, keys, col, cols) ==
  LET mine == SelectSeq(keys, LAMBDA k : Col(k, cols) = col)
      put[t \in Tree, i \in Nat] ==
        IF i > Len(mine) THEN t ELSE put[pch_insert_kv(t, mine[i]), i + 1] IN
  put[tree, 1]

\* mbm_map_put of all keys into the row.
mbm_map_put(row, keys) ==
  [col \in DOMAIN row |-> put_column(row[col], keys, col, Cardinality(DOMAIN row))]

\* map_put_kvs of those of the pairs that go to column col.
put_kvs_column(tree, kvs, col, cols) ==
  LET mine == SelectSeq(kvs, LAMBDA kv : Col(kv.key, cols) = col)
      put[t \in Tree, i \in Nat] ==
        IF i > Len(mine) THEN t ELSE put[pch_insert_kvs(t, mine[i]), i + 1] IN
  put[tree, 1]

\* mbm_rehash_bak: the keys of all columns of a thread's row of the backup go
\* (bkt_rehash), with their values, to their columns in the new row.
mbm_rehash_bak(row, bak) ==
  LET kvs == FlattenSeq([i \in 1 .. Cardinality(DOMAIN bak) |-> pch_copy_kvs(bak[i - 1])]) IN
  [col \in DOMAIN row |-> put_kvs_column(row[col], kvs, col, Cardinality(DOMAIN row))]

\* reduce_or_groupkvs: the rows' trees are read side by side; the values of the
\* least key that is next in some of them become one pair.
reduce_or_groupkvs(nodes) ==
  LET merge[pos \in [Cpu -> Nat]] ==
        LET live == {c \in Cpu : pos[c] < Len(nodes[c])}
            next == [c \in live |-> nodes[c][pos[c] + 1]]
            marked == {c \in live : \A d \in live : next[c].key <= next[d].key} IN
        IF live = {} THEN <<>>
        ELSE <<[key |-> next[CHOOSE c \in marked : TRUE].key,
                n |-> MapThenSumSet(LAMBDA c : next[c].n, marked)]>>
             \o merge[[c \in Cpu |-> pos[c] + IF c \in marked THEN 1 ELSE 0]] IN
  merge[[c \in Cpu |-> 0]]

\* All pairs of the reduce buckets, indexed as one array.
Pairs(bkts) == FlattenSeq([j \in 1 .. Cardinality(DOMAIN bkts) |-> bkts[j - 1]])

NoPair == [key |-> 0, n |-> 0]

-----------------------------------------------------------------------------
(* The thread pool. *)

PoolClear == [c \in Cpu |-> FALSE]

Goto(c, place) == pc' = [pc EXCEPT ![c] = place]

\* A pool thread picks up work: it raises running, then drops ready.
mthread_entry_start(c) ==
  \/ /\ pc[c] = "spin" /\ ready[c]
     /\ running' = [running EXCEPT ![c] = TRUE]
     /\ Goto(c, "started")
     /\ UNCHANGED <<ready, work, inited, lid, schedVars, splitVars, storeVars, cur, sortVars>>
  \/ /\ pc[c] = "started"
     /\ ready' = [ready EXCEPT ![c] = FALSE]
     /\ Goto(c, "enter")
     /\ UNCHANGED <<running, work, inited, lid, schedVars, splitVars, storeVars, cur, sortVars>>

\* The thread calls the routine it was given.
mthread_entry_call(c) ==
  /\ pc[c] = "enter"
  /\ Goto(c, CASE work[c].routine = "MAP"    -> "mapinit"
               [] work[c].routine = "REDUCE" -> "reduce"
               [] work[c].routine = "MERGE"  -> "work"
               [] work[c].routine = "EXIT"   -> "exited")
  /\ UNCHANGED <<poolVars, lid, schedVars, splitVars, storeVars, cur, sortVars>>

\* The routine returns.  The main thread goes on in mr_run_task, to join.
mthread_entry_end(c) ==
  /\ pc[c] = "return"
  /\ IF c = main_lcpu
     THEN Goto(c, "join") /\ UNCHANGED running
     ELSE Goto(c, "spin") /\ running' = [running EXCEPT ![c] = FALSE]
  /\ UNCHANGED <<ready, work, inited, lid, schedVars, splitVars, storeVars, cur, sortVars>>

\* mthread_create for pool thread lid: wait until it is not running, give it
\* the routine and the argument, and wait until it has taken them.
mthread_create ==
  \/ /\ pc[main_lcpu] = "create" /\ lid \in Worker /\ ~running[lid]
     /\ work' = [work EXCEPT ![lid] = [routine |-> IF phase = "SAMPLE" THEN "MAP" ELSE phase,
                                       arg |-> task_pos.id]]
     /\ ready' = [ready EXCEPT ![lid] = TRUE]
     /\ Goto(main_lcpu, "handoff")
     /\ UNCHANGED <<running, inited, lid, schedVars, splitVars, storeVars, cur, sortVars>>
  \/ /\ pc[main_lcpu] = "handoff" /\ ~ready[lid]
     /\ lid' = lid + 1
     /\ Goto(main_lcpu, "create")
     /\ UNCHANGED <<poolVars, schedVars, splitVars, storeVars, cur, sortVars>>

\* With all pool threads at work the main thread calls the routine itself, or
\* waits for the threads to exit.
mthread_create_main ==
  /\ pc[main_lcpu] = "create" /\ lid = NCpus
  /\ IF phase = "EXIT"
     THEN Goto(main_lcpu, "joinexit") /\ UNCHANGED work
     ELSE /\ Goto(main_lcpu, "enter")
          /\ work' = [work EXCEPT ![main_lcpu] =
                        [routine |-> IF phase = "SAMPLE" THEN "MAP" ELSE phase,
                         arg |-> task_pos.id]]
  /\ UNCHANGED <<ready, running, inited, lid, schedVars, splitVars, storeVars, cur, sortVars>>

\* Bug: join polls ready, which the thread dropped when it started.
mthread_join_ready == \A c \in Worker : ~ready[c]

\* All pool threads are joined.  The flags are polled one by one; none is
\* raised again meanwhile.
mthread_join == \A c \in Worker : ~running[c]

-----------------------------------------------------------------------------
(* The scheduler: mr_run_scheduler on the main thread. *)

EmptyRbkts(n) == [b \in 0 .. n - 1 |-> <<>>]

\* mr_run_task: a fresh task counter, then pool thread after pool thread.
RunTask(type) ==
  /\ phase' = type
  /\ task_pos' = [id |-> task_pos.id + 1, val |-> 0, live |-> TRUE]
  /\ lid' = 1

\* mr_sample's number of splits.
NSampled(n) ==
  LET share == (5 * n) \div 100
      least == IF share < NCpus THEN Min({NCpus, n}) ELSE share IN
  Max({least, 1})

\* Bug: the backup of an earlier job is still taken to be there.
kvst_sample_initKeep == UNCHANGED <<has_backup, rbkts>>

kvst_sample_init == has_backup' = FALSE /\ UNCHANGED rbkts

\* mr_run_scheduler is called: mr_setup, up to the first mr_run_task.
mr_setup ==
  /\ pc[main_lcpu] = "app" /\ job < MaxJobs
  /\ job' = job + 1
  /\ input' \in Inputs
  /\ kind' \in IF MixedKinds THEN Kinds ELSE {kind}
  /\ IF inited THEN pc' = [pc EXCEPT ![main_lcpu] = "create"] /\ UNCHANGED <<ready, running>>
     ELSE /\ pc' = [c \in Cpu |-> IF c = main_lcpu THEN "create" ELSE "spin"]
          /\ ready' = PoolClear /\ running' = PoolClear
  /\ inited' = TRUE
  /\ idx' = 0
  /\ IF kind' = "sample"
     THEN /\ nsplits' = NSampled(Len(input'))
          /\ tasks' = SampleTasks
          /\ kvst_sample_init
          /\ RunTask("SAMPLE")
     ELSE /\ nsplits' = Len(input')
          /\ tasks' = FixedTasks
          /\ UNCHANGED has_backup
          /\ rbkts' = EmptyRbkts(FixedTasks)
          /\ RunTask("MAP")
  /\ mbks' = mbks_init(tasks')
  /\ UNCHANGED <<work, mapper_bak, results, cur, sortVars>>

\* Bug: the counter is left where the threads that found no split left it.
presplitter_done_sampleKeep == UNCHANGED idx /\ nsplits' = Len(input)

\* Bug: the splits taken while sampling are handed out again.
presplitter_done_sampleZero == idx' = 0 /\ nsplits' = Len(input)

\* The counter has run past the sampled splits; the first one not sampled is
\* the next one to hand out.
presplitter_done_sample == idx' = nsplits /\ nsplits' = Len(input)

\* After the join the counter is freed and the next phase begins.
mr_sample_end ==
  /\ pc[main_lcpu] = "join" /\ phase = "SAMPLE" /\ mthread_join
  /\ presplitter_done_sample
  /\ \E ntasks \in Estimates : tasks' = Max({ntasks, NCpus * TasksPerCpu})
  /\ mapper_bak' = mbks
  /\ has_backup' = TRUE
  /\ mbks' = mbks_init(tasks')
  /\ rbkts' = EmptyRbkts(tasks')
  /\ RunTask("MAP")
  /\ Goto(main_lcpu, "create")
  /\ UNCHANGED <<poolVars, job, kind, input, results, cur, sortVars>>

mr_run_task_next ==
  /\ pc[main_lcpu] = "join" /\ phase \in {"MAP", "REDUCE"} /\ mthread_join
  /\ RunTask(IF phase = "MAP" THEN "REDUCE" ELSE "MERGE")
  /\ Goto(main_lcpu, "create")
  /\ UNCHANGED <<poolVars, job, kind, input, tasks, splitVars, storeVars, cur, sortVars>>

app_set_final_results ==
  /\ pc[main_lcpu] = "join" /\ phase = "MERGE" /\ mthread_join
  /\ task_pos' = [task_pos EXCEPT !.live = FALSE]
  /\ phase' = "NONE"
  /\ results' = rbkts[0]
  /\ Goto(main_lcpu, "app")
  /\ UNCHANGED <<poolVars, lid, job, kind, input, tasks, splitVars,
                 mbks, mapper_bak, has_backup, rbkts, cur, sortVars>>

\* The application calls mr_finalize: the pool threads get a routine that
\* never returns (it ignores its argument).
mr_finalize ==
  /\ pc[main_lcpu] = "app" /\ inited
  /\ rbkts' = <<>>
  /\ phase' = "EXIT"
  /\ lid' = 1
  /\ Goto(main_lcpu, "create")
  /\ UNCHANGED <<poolVars, job, kind, input, tasks, task_pos, splitVars,
                 mbks, mapper_bak, has_backup, results, cur, sortVars>>

\* The threads have exited, the pool is cleared.
mthread_finalize ==
  /\ pc[main_lcpu] = "joinexit" /\ \A c \in Worker : pc[c] = "exited"
  /\ ready' = PoolClear /\ running' = PoolClear /\ inited' = FALSE
  /\ phase' = "NONE"
  /\ Goto(main_lcpu, "app")
  /\ UNCHANGED <<work, lid, job, kind, input, tasks, task_pos, splitVars, storeVars, cur, sortVars>>

-----------------------------------------------------------------------------
(* The map and reduce workers. *)

\* kvst_map_worker_init: what the thread mapped while sampling goes to the
\* columns of the new table, and its row of the backup is freed.
kvst_map_worker_init(c) ==
  /\ pc[c] = "mapinit"
  /\ IF has_backup
     THEN /\ mapper_bak[c] # <<>>
          /\ mbks' = [mbks EXCEPT ![c] = mbm_rehash_bak(@, mapper_bak[c])]
          /\ mapper_bak' = [mapper_bak EXCEPT ![c] = <<>>]
     ELSE UNCHANGED <<mbks, mapper_bak>>
  /\ Goto(c, "map")
  /\ UNCHANGED <<poolVars, lid, schedVars, splitVars, has_backup, rbkts, results, cur, sortVars>>

presplitter(c) ==
  /\ pc[c] = "map"
  /\ idx' = idx + 1
  /\ IF idx >= nsplits
     THEN Goto(c, "return") /\ UNCHANGED cur
     ELSE Goto(c, "mapdo") /\ cur' = [cur EXCEPT ![c] = idx]
  /\ UNCHANGED <<poolVars, lid, schedVars, nsplits, storeVars, sortVars>>

\* map_func emits the keys of the split into the thread's row.
map_func(c) ==
  /\ pc[c] = "mapdo"
  /\ mbks' = [mbks EXCEPT ![c] = mbm_map_put(@, input[cur[c] + 1])]
  /\ Goto(c, "map")
  /\ UNCHANGED <<poolVars, lid, schedVars, splitVars, mapper_bak, has_backup, rbkts, results,
                 cur, sortVars>>

mr_reduce_worker(c) ==
  /\ pc[c] = "reduce"
  /\ task_pos' = [task_pos EXCEPT !.val = @ + 1]
  /\ IF task_pos.val >= tasks
     THEN Goto(c, "return") /\ UNCHANGED cur
     ELSE Goto(c, "reducedo") /\ cur' = [cur EXCEPT ![c] = task_pos.val]
  /\ UNCHANGED <<poolVars, lid, job, kind, input, phase, tasks, splitVars, storeVars, sortVars>>

\* The column of every row is grouped into one reduce bucket and freed.
kvst_reduce_do_task(c) ==
  LET col == cur[c] IN
  /\ pc[c] = "reducedo"
  /\ rbkts' = [rbkts EXCEPT ![col] = @ \o
               reduce_or_groupkvs([r \in Cpu |-> pch_copy_kvs(mbks[r][col])])]
  /\ mbks' = [r \in Cpu |-> [mbks[r] EXCEPT ![col] = pch_shallow_free(@)]]
  /\ Goto(c, "reduce")
  /\ UNCHANGED <<poolVars, lid, schedVars, splitVars, mapper_bak, has_backup, results, cur, sortVars>>
-----------------------------------------------------------------------------
(***************************************************************************)
(* The merge worker: psrs, in seven stages with a barrier after each but   *)
(* the last.  stage[c] is the stage thread c is in or has just finished.   *)
(***************************************************************************)
Stages == 0 .. 6

\* The stage ends at the barrier.
ToBarrier(c) == Goto(c, IF c = main_lcpu THEN "open" ELSE "arrive")

\* psrs returns.
PsrsReturn(c) == Goto(c, "return") /\ stage' = [stage EXCEPT ![c] = 0]

unsortedVars == <<poolVars, lid, schedVars, splitVars, mbks, mapper_bak, has_backup, results,
                  cur, status, rdy>>

\* 0: the main thread counts the pairs and clears the shared arrays.
PsrsInit(c) ==
  /\ pc[c] = "work" /\ stage[c] = 0
  /\ IF c = main_lcpu
     THEN /\ total_len' = Len(Pairs(rbkts))
          /\ lpairs'  = [d \in Cpu |-> <<>>]
          /\ subsize' = [d \in Cpu |-> [j \in 0 .. NCpus |-> 0]]
          /\ pivots'  = [j \in 0 .. NCpus * (NCpus - 1) - 1 |-> 0]
     ELSE UNCHANGED <<total_len, lpairs, subsize, pivots>>
  /\ ToBarrier(c)
  /\ UNCHANGED <<partsize, rbkts, stage, unsortedVars>>

\* The main thread sorts alone.
Alone == NCpus = 1 \/ Small(total_len)

\* free_arr_colls
FreedRbkts == [b \in DOMAIN rbkts |-> <<>>]

\* 1, few pairs: the others return at once, the main thread sorts everything
\* into the first bucket.
PsrsAlone(c) ==
  /\ pc[c] = "work" /\ stage[c] = 1 /\ Alone
  /\ IF c = main_lcpu
     THEN LET sorted == qsort(Pairs(rbkts)) IN
          /\ Len(sorted) = total_len
          /\ lpairs' = [lpairs EXCEPT ![c] = sorted]
          /\ rbkts' = [FreedRbkts EXCEPT ![0] = sorted]
     ELSE UNCHANGED <<lpairs, rbkts>>
  /\ PsrsReturn(c)
  /\ UNCHANGED <<total_len, pivots, subsize, partsize, unsortedVars>>

\* Bug: a thread that has copied its share frees the buckets.
PsrsShareFrees(c) ==
  LET share == qsort(Share(Pairs(rbkts), c)) IN
  /\ pc[c] = "work" /\ stage[c] = 1 /\ ~Alone
  /\ Len(Pairs(rbkts)) = total_len
  /\ lpairs' = [lpairs EXCEPT ![c] = share]
  /\ pivots' = [j \in DOMAIN pivots |->
                  IF j \div (NCpus - 1) = c THEN LocalPivot(share, j % (NCpus - 1)) ELSE pivots[j]]
  /\ rbkts' = IF c = free_lcpu THEN FreedRbkts ELSE rbkts
  /\ ToBarrier(c)
  /\ UNCHANGED <<total_len, subsize, partsize, stage, unsortedVars>>

\* 1: sort the thread's share and publish its pivots.
PsrsShare(c) ==
  LET share == qsort(Share(Pairs(rbkts), c)) IN
  /\ pc[c] = "work" /\ stage[c] = 1 /\ ~Alone
  /\ Len(Pairs(rbkts)) = total_len
  /\ lpairs' = [lpairs EXCEPT ![c] = share]
  /\ pivots' = [j \in DOMAIN pivots |->
                  IF j \div (NCpus - 1) = c THEN LocalPivot(share, j % (NCpus - 1)) ELSE pivots[j]]
  /\ ToBarrier(c)
  /\ UNCHANGED <<total_len, subsize, partsize, rbkts, stage, unsortedVars>>

\* 2: the main thread selects the pivots; another one frees the buckets.
PsrsPivots(c) ==
  /\ pc[c] = "work" /\ stage[c] = 2
  /\ pivots' = IF c = main_lcpu THEN SelectPivots(pivots) ELSE pivots
  /\ rbkts' = IF c = free_lcpu THEN FreedRbkts ELSE rbkts
  /\ ToBarrier(c)
  /\ UNCHANGED <<total_len, lpairs, subsize, partsize, stage, unsortedVars>>

\* 3: divide the share by the pivots.
PsrsDivide(c) ==
  LET bounds == sublists(lpairs[c], pivots) IN
  /\ pc[c] = "work" /\ stage[c] = 3
  /\ subsize' = [subsize EXCEPT ![c] = [j \in 0 .. NCpus |->
                   IF j = 0 THEN 0 ELSE IF j = NCpus THEN Len(lpairs[c]) ELSE bounds[j]]]
  /\ ToBarrier(c)
  /\ UNCHANGED <<total_len, lpairs, pivots, partsize, rbkts, stage, unsortedVars>>

\* 4: the size of the thread's partition; the main thread makes the first
\* bucket the output array, its contents still undefined.
PsrsSizes(c) ==
  /\ pc[c] = "work" /\ stage[c] = 4
  /\ partsize' = [partsize EXCEPT ![c] =
                    SumFunction([d \in Cpu |-> subsize[d][c + 1] - subsize[d][c]])]
  /\ rbkts' = IF c = main_lcpu THEN [rbkts EXCEPT ![0] = [j \in 1 .. total_len |-> NoPair]]
                               ELSE rbkts
  /\ ToBarrier(c)
  /\ UNCHANGED <<total_len, lpairs, pivots, subsize, stage, unsortedVars>>

StartPos(c) == SumFunctionOnSet(partsize, 0 .. c - 1)

\* 5: merge the thread's partition into its place in the output.
PsrsMerge(c) ==
  LET parts  == [d \in Cpu |-> SubSeq(lpairs[d], subsize[d][c] + 1, subsize[d][c + 1])]
      merged == mergesort(parts)
      start  == StartPos(c) IN
  /\ pc[c] = "work" /\ stage[c] = 5
  /\ rbkts' = [rbkts EXCEPT ![0] = [j \in DOMAIN @ |->
                  IF j - start \in DOMAIN merged THEN merged[j - start] ELSE @[j]]]
  /\ ToBarrier(c)
  /\ UNCHANGED <<total_len, lpairs, pivots, subsize, partsize, stage, unsortedVars>>

\* Bug: the last stage ends at a barrier too.
PsrsEndBarrier(c) ==
  /\ pc[c] = "work" /\ stage[c] = 6
  /\ lpairs' = [lpairs EXCEPT ![c] = <<>>]
  /\ ToBarrier(c)
  /\ UNCHANGED <<total_len, pivots, subsize, partsize, rbkts, stage, unsortedVars>>

\* 6: free the share.
PsrsEnd(c) ==
  /\ pc[c] = "work" /\ stage[c] = 6
  /\ lpairs' = [lpairs EXCEPT ![c] = <<>>]
  /\ PsrsReturn(c)
  /\ UNCHANGED <<total_len, pivots, subsize, partsize, rbkts, unsortedVars>>

-----------------------------------------------------------------------------
unblockedVars == <<poolVars, lid, schedVars, splitVars, storeVars, cur, dataVars>>

NextStage(c) == stage' = [stage EXCEPT ![c] = @ + 1]

\* Bug: the flag stays up when the barrier closes.
psrs_barrierNoLower(c) ==
  \/ /\ pc[c] = "arrive" /\ status = "START"
     /\ rdy' = [rdy EXCEPT ![c] = TRUE]
     /\ Goto(c, "leave")
     /\ UNCHANGED <<status, stage, unblockedVars>>
  \/ /\ pc[c] = "leave" /\ status = "STOP"
     /\ Goto(c, "work")
     /\ NextStage(c)
     /\ UNCHANGED <<status, rdy, unblockedVars>>

\* psrs_barrier for the other threads: raise the flag when the barrier opens,
\* lower it when it closes.
psrs_barrier(c) ==
  \/ /\ pc[c] = "arrive" /\ status = "START"
     /\ rdy' = [rdy EXCEPT ![c] = TRUE]
     /\ Goto(c, "leave")
     /\ UNCHANGED <<status, stage, unblockedVars>>
  \/ /\ pc[c] = "leave" /\ status = "STOP"
     /\ rdy' = [rdy EXCEPT ![c] = FALSE]
     /\ Goto(c, "work")
     /\ NextStage(c)
     /\ UNCHANGED <<status, unblockedVars>>

\* Bug: the main thread does not wait for the flags to be lowered.
psrs_barrier_mainNoDrain ==
  \/ /\ pc[main_lcpu] = "open"
     /\ status' = "START"
     /\ Goto(main_lcpu, "gather")
     /\ UNCHANGED <<rdy, stage, unblockedVars>>
  \/ /\ pc[main_lcpu] = "gather" /\ \A c \in Worker : rdy[c]
     /\ status' = "STOP"
     /\ Goto(main_lcpu, "work")
     /\ NextStage(main_lcpu)
     /\ UNCHANGED <<rdy, unblockedVars>>

\* psrs_barrier for the main thread: open, wait for all flags, close, wait
\* until all are lowered.  A flag keeps its value until status changes, so
\* polling them one by one sees what one look at all of them sees.
psrs_barrier_main ==
  \/ /\ pc[main_lcpu] = "open"
     /\ status' = "START"
     /\ Goto(main_lcpu, "gather")
     /\ UNCHANGED <<rdy, stage, unblockedVars>>
  \/ /\ pc[main_lcpu] = "gather" /\ \A c \in Worker : rdy[c]
     /\ status' = "STOP"
     /\ Goto(main_lcpu, "drain")
     /\ UNCHANGED <<rdy, stage, unblockedVars>>
  \/ /\ pc[main_lcpu] = "drain" /\ \A c \in Worker : ~rdy[c]
     /\ Goto(main_lcpu, "work")
     /\ NextStage(main_lcpu)
     /\ UNCHANGED <<status, rdy, unblockedVars>>

-----------------------------------------------------------------------------
Init ==
  /\ ready = PoolClear /\ running = PoolClear /\ inited = FALSE
  /\ work = [c \in Cpu |-> [routine |-> "NONE", arg |-> 0]]
  /\ pc = [c \in Cpu |-> IF c = main_lcpu THEN "app" ELSE "exited"]
  /\ lid = 0
  /\ job = 0 /\ kind \in Kinds /\ input = <<>> /\ phase = "NONE" /\ tasks = 0
  /\ task_pos = [id |-> 0, val |-> 0, live |-> FALSE]
  /\ idx = 0 /\ nsplits = 0
  /\ mbks = NoBak /\ mapper_bak = NoBak /\ has_backup = FALSE
  /\ rbkts = <<>> /\ results = <<>>
  /\ cur = [c \in Cpu |-> 0]
  /\ status = "STOP" /\ rdy = PoolClear
  /\ stage = [c \in Cpu |-> 0]
  /\ total_len = 0 /\ lpairs = [c \in Cpu |-> <<>>] /\ pivots = <<>>
  /\ subsize = [c \in Cpu |-> <<>>] /\ partsize = [c \in Cpu |-> 0]

MapStep(c)    == kvst_map_worker_init(c) \/ presplitter(c) \/ map_func(c)
ReduceStep(c) == mr_reduce_worker(c) \/ kvst_reduce_do_task(c)
SortStep(c) ==
  \/ PsrsInit(c) \/ PsrsAlone(c) \/ PsrsShare(c) \/ PsrsPivots(c) \/ PsrsDivide(c)
  \/ PsrsSizes(c) \/ PsrsMerge(c) \/ PsrsEnd(c) \/ psrs_barrier(c)

\* A pool thread takes a step.
PoolStep(c) ==
  mthread_entry_start(c) \/ mthread_entry_call(c) \/ mthread_entry_end(c)
    \/ MapStep(c) \/ ReduceStep(c) \/ SortStep(c)

\* The main thread takes a step inside the library.
MainStep ==
  \/ mthread_create \/ mthread_create_main
  \/ mr_sample_end \/ mr_run_task_next \/ app_set_final_results
  \/ psrs_barrier_main \/ mthread_finalize

\* The application calls the library.
AppStep == mr_setup \/ mr_finalize

\* Some thread takes a step inside the library.
LibStep == MainStep \/ \E c \in Cpu : PoolStep(c)

Next == AppStep \/ LibStep

\* The machine does not stop: as long as some thread can do more than poll a
\* flag that has not changed, some thread does.  No thread blocks, so nothing
\* more is needed of the scheduler.
Fairness == WF_vars(LibStep)

Spec == Init /\ [][Next]_vars /\ Fairness
-----------------------------------------------------------------------------
Places == {"app", "create", "handoff", "join", "joinexit", "spin", "started", "enter",
           "mapinit", "map", "mapdo", "reduce", "reducedo", "work", "arrive", "leave",
           "open", "gather", "drain", "return", "exited"}

\* Places inside a routine that mr_run_task handed out.
Busy == {"mapinit", "map", "mapdo", "reduce", "reducedo", "work", "arrive", "leave",
         "open", "gather", "drain", "return"}

\* The types.
TypeOK ==
  /\ {ready, running, rdy} \subseteq [Cpu -> BOOLEAN] /\ inited \in BOOLEAN
  /\ work \in [Cpu -> [routine : {"NONE", "MAP", "REDUCE", "MERGE", "EXIT"}, arg : Nat]]
  /\ pc \in [Cpu -> Places] /\ lid \in 0 .. NCpus
  /\ job \in 0 .. MaxJobs /\ kind \in Kinds /\ input \in Inputs \cup {<<>>}
  /\ phase \in {"NONE", "SAMPLE", "MAP", "REDUCE", "MERGE", "EXIT"}
  /\ {tasks, nsplits, idx} \subseteq Nat /\ cur \in [Cpu -> Nat]
  /\ task_pos \in [id : Nat, val : Nat, live : BOOLEAN]
  /\ status \in {"START", "STOP"} /\ stage \in [Cpu -> Stages]
  /\ total_len \in Nat /\ partsize \in [Cpu -> Nat]

\* The counters that the threads fetch splits and reduce tasks from run past
\* their limits by at most one per thread: a thread that found nothing left
\* does not ask again before the next mr_run_task, and what was sampled is not
\* more than there is.
CountersInRange == idx <= nsplits + NCpus /\ task_pos.val <= tasks + NCpus

\* A thread that runs a routine runs it for the mr_run_task in progress: the
\* counter it got is the current one and is not freed.  The hand-over's flags
\* and the join must not let a thread fall behind.
NoStragglers ==
  \A c \in Cpu : pc[c] \in Busy => work[c].arg = task_pos.id /\ task_pos.live

\* A thread that starts to map finds its row of the backup whenever there is
\* a backup (the assert of mbm_rehash_bak).
BackupReady == \A c \in Cpu : pc[c] = "mapinit" /\ has_backup => mapper_bak[c] # <<>>

\* d has finished its part of stage s of the sort.
Arrived(d, s) ==
  \/ pc[d] \in {"work", "arrive", "open"} /\ stage[d] > s
  \/ pc[d] \in {"leave", "gather", "drain"} /\ stage[d] >= s
  \/ pc[d] \in {"return", "spin", "join"}

\* psrs_barrier keeps the stages of the sort apart: nobody works in a stage
\* before everybody has finished the one before.  The arrays of psrs.c are
\* read in one stage and written by others in another, without locks.
StagesSeparated ==
  \A c, d \in Cpu :
    phase = "MERGE" /\ pc[c] = "work" /\ stage[c] > 0 => Arrived(d, stage[c] - 1)

\* Whoever copies from the buckets finds all the pairs that were counted (the
\* assert of copy_elems): nobody has freed or replaced a bucket yet.
CopyComplete ==
  \A c \in Cpu : pc[c] = "work" /\ stage[c] = 1 /\ (c = main_lcpu \/ ~Alone) =>
    Len(Pairs(rbkts)) = total_len

\* Every tree of the table and of the backup is sound, and holds keys of its
\* column only.  In particular no key is rehashed into a tree that holds it
\* already (the assert of pch_insert_kvs).
TreesSound ==
  \A table \in {mbks, mapper_bak} : \A c \in Cpu : \A col \in DOMAIN table[c] :
    /\ TreeSound(table[c][col])
    /\ \A kv \in Range(pch_copy_kvs(table[c][col])) : Col(kv.key, Cardinality(DOMAIN table[c])) = col

\* In whatever order keys are put into a bucket, its B+ tree is sound and holds
\* just these keys: checked before the first job for all orders of eight keys,
\* which make a tree of three levels.
TreesExact == job = 0 => BtreeExact(1 .. 8)

Emitted(s, k) == Cardinality({j \in DOMAIN input[s] : input[s][j] = k})

Want == [k \in Key |-> SumFunction([s \in DOMAIN input |-> Emitted(s, k)])]

\* When a job is done its results hold every key that some split emitted, once,
\* with all the values emitted for it: no split is lost or mapped twice between
\* sampling and mapping, no reduce task is skipped or done twice, and the
\* partitions of the sort fill the output.
ResultExact ==
  phase = "NONE" /\ job > 0 =>
    /\ Len(results) = Cardinality({k \in Key : Want[k] > 0})
    /\ \A k \in Key : Want[k] > 0 => [key |-> k, n |-> Want[k]] \in Range(results)

\* When a job is done its results are in the order of their keys.
ResultSorted ==
  phase = "NONE" =>
    \A i, j \in DOMAIN results : i < j => results[i].key <= results[j].key

\* A call of the library returns: no thread waits at a barrier, for a hand-over
\* or for a join that never comes.
CallReturns == pc[main_lcpu] # "app" ~> pc[main_lcpu] = "app"
============================================================================
