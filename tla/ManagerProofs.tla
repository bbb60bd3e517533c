---------------------------- MODULE ManagerProofs ----------------------------
(***************************************************************************)
(* Proofs about Manager and the calls it makes through Rpc, for any list   *)
(* of tasks, any number of load clients, calls and interrupts, and a       *)
(* server that may be lost at any moment.                                  *)
(***************************************************************************)
EXTENDS Manager, FiniteSetTheorems, SequenceTheorems, TLAPS

-----------------------------------------------------------------------------
(* Types. *)

Place == {"idle", "call", "raise", "try", "put", "read", "clean", "close", "done"}
HndPlace == {"none", "new", "popen", "wait", "waitpid", "store", "done"}
Op == {"none", "getUserRoot", "file", "runWait", "run", "runLoad", "wait", "poll", "kill"}
Request == [oid : Int, op : Op]
Answer  == [kind : {"val", "proxy", "exc", "none"}, n : Int]
Object  == [cls : {"sys", "host", "proc"}, p : Rid \cup {NoRid}]

ClientTypes ==
  /\ thr \in [Caller -> [at : Place, rid : Rid \cup {NoRid}, req : Request]]
  /\ rid \in 0 .. MaxRid
  /\ req \in [Rid -> Request]
  /\ outstanding \subseteq Rid /\ fds \subseteq Rid
  /\ cell \in [Rid -> Answer] /\ out \in [Rid -> Answer]
  /\ sendQ \in {<<>>} \cup {<<v>> : v \in Rid \cup {Close}}
  /\ send \in {"get", "closing", "closed", "dead"} /\ recv \in {"load", "dead"}

ServerTypes ==
  /\ replies \in Seq([rid : Rid, res : Answer])
  /\ server \in {"none", "up", "down"}
  /\ hnd \in [Rid -> [at : HndPlace, obj : Rid \cup {NoRid}, id : Nat, res : Answer]]
  /\ IsFiniteSet(DOMAIN oids) /\ DOMAIN oids \subseteq Nat
  /\ oids \in [DOMAIN oids -> Object]

ProcTypes ==
  /\ proc \in [Rid -> {"none", "live", "zombie", "reaped"}]
  /\ returncode \in [Rid -> {0, 1}]
  /\ sig \subseteq Rid \cup {NoRid} /\ dw \subseteq Rid
  /\ held \in [Rid -> SUBSET Rid]
  /\ waitLock \in [Rid -> Rid \cup {NoRid}]

MgrTypes ==
  /\ tasks \in Seq(TaskClass) /\ Len(tasks) > 0
  /\ phase \in {"start", "wait", "stop", "reset", "over", "exited"}
  /\ cur \in 1 .. Len(tasks) /\ step \in 1 .. Len(TheHook) + 1
  /\ tstate \in [1 .. Len(tasks) -> {"STOPPED", "RUNNING"}]
  /\ rConn \in Int
  /\ ps \in [1 .. Len(tasks) -> Seq(Int)]
  /\ failed \in {"no", "raised", "twice", "escaped"}
  /\ interrupts \in 0 .. MaxInterrupts

-----------------------------------------------------------------------------
(* The manager. *)

\* How far the tasks have been taken.
TaskInv ==
  \A j \in 1 .. Len(tasks) :
    /\ phase = "start" /\ j < cur => tstate[j] = "RUNNING"
    /\ phase = "wait" => tstate[j] = "RUNNING"
    /\ phase = "stop" => tstate[j] = IF j <= cur THEN "RUNNING" ELSE "STOPPED"
    /\ phase = "reset" /\ j > cur => tstate[j] = "STOPPED"
    /\ phase \in {"over", "exited"} => tstate[j] = "STOPPED" \/ (failed = "escaped" /\ j <= cur)

\* A connection belongs to a Host task, whose reset is still to come once
\* run() has raised.
ConnInv ==
  /\ phase \in {"start", "wait", "stop"} => failed = "no"
  /\ phase = "reset" => failed # "escaped"
  /\ rConn # NoConn => \E j \in 1 .. Len(tasks) : tasks[j] = "Host"
  /\ failed = "raised" /\ rConn # NoConn =>
       /\ phase = "reset"
       /\ \E j \in 1 .. Len(tasks) : tasks[j] = "Host" /\ (j < cur \/ (j = cur /\ step = 1))

\* The main thread is in the call of the step it is at.
MainInv ==
  thr[Main].at # "idle" =>
    /\ Running /\ step <= Len(TheHook)
    /\ TheHook[step].do \in {"connect", "host", "proc"}
    /\ thr[Main].req.op = TheHook[step].op

\* While run() does its work, an Async thread runs between the step that made
\* it and the one that syncs with it.
AsyncInv ==
  \A i \in Asyncs :
    /\ thr[i].req.op \in {"none", "run", "runLoad"}
    /\ phase \in {"start", "wait", "stop"} /\ thr[i].at \notin {"idle", "done"} =>
         /\ i < step /\ step <= N + i /\ N + i <= Len(TheHook)
         /\ TheHook[N + i].do = "sync" /\ TheHook[N + i].i = i
    /\ phase \in {"start", "wait", "stop"} /\ i < step /\ i <= Len(TheHook)
         /\ TheHook[i].do = "async" => thr[i].at # "idle"

FlowInv == TaskInv /\ ConnInv /\ MainInv /\ AsyncInv

-----------------------------------------------------------------------------
(* The calls. *)

InCall == {"raise", "try", "put", "read", "clean", "close", "done"}

\* A call belongs to one thread, is the thread's request, has not returned while
\* the thread waits for it, and is not outstanding when its pipe is to be closed.
OwnerInv ==
  /\ \A t \in Caller :
       /\ thr[t].at \in InCall => thr[t].rid # NoRid
       /\ thr[t].rid # NoRid => thr[t].rid < rid /\ req[thr[t].rid] = thr[t].req
       /\ thr[t].at \in {"raise", "try", "put", "read"} => out[thr[t].rid] = NoVal
       /\ thr[t].at \in {"clean", "close"} => out[thr[t].rid] = Exc
       /\ thr[t].at \in {"try", "put", "read"} => thr[t].rid \in outstanding \/ cell[thr[t].rid] # NoVal
       /\ thr[t].at \in {"raise", "close"} => thr[t].rid \notin outstanding
  /\ \A t, u \in Caller : t # u /\ thr[t].rid = thr[u].rid => thr[t].rid = NoRid

\* A call nobody has sent to the server.
Unsent(r) == \/ r >= rid
             \/ sendQ = <<r>>
             \/ \E t \in Caller : thr[t].at \in {"try", "put"} /\ thr[t].rid = r

\* The server has not seen it, and the process it may start is not there.
SendInv ==
  /\ \A r \in Rid : Unsent(r) => hnd[r].at = "none" /\ proc[r] = "none"
  /\ \A r \in Rid : r >= rid => cell[r] = NoVal /\ out[r] = NoVal /\ sendQ # <<r>>
  /\ \A t \in Caller : thr[t].at \in {"try", "put"} => sendQ # <<thr[t].rid>>

\* Every answer is the result of the call's own handler, or an exception.
AnswerInv ==
  /\ \A r \in Rid :
       /\ hnd[r].at = "done" <=> hnd[r].res # NoVal
       /\ cell[r] \in {NoVal, Exc, hnd[r].res}
       /\ out[r] \in {NoVal, Exc, hnd[r].res}
       /\ r \in outstanding => cell[r] = NoVal
  /\ \A i \in 1 .. Len(replies) :
       hnd[replies[i].rid].at = "done" /\ replies[i].res = hnd[replies[i].rid].res

CallsInv == OwnerInv /\ SendInv /\ AnswerInv /\ PipesOpen

-----------------------------------------------------------------------------
(* The objects. *)

\* Every object id that is used is in the table; the table has an entry for
\* each proxy made and one for the system root.
OidInv ==
  /\ 0 \in DOMAIN oids
  /\ rConn \in DOMAIN oids \cup {NoConn}
  /\ \A j \in 1 .. Len(tasks) : \A i \in 1 .. Len(ps[j]) : ps[j][i] \in DOMAIN oids
  /\ \A t \in Caller : thr[t].req.oid \in DOMAIN oids
  /\ \A r \in Rid : /\ req[r].oid \in DOMAIN oids
                    /\ req[r].op # "poll" => hnd[r].res.n \in DOMAIN oids

TableInv ==
  /\ Cardinality(DOMAIN oids) <= 1 + Cardinality({h \in Rid : hnd[h].at = "done"})
  /\ \A r \in Rid : /\ hnd[r].at = "store" => hnd[r].id <= MaxRid + 1
                    /\ hnd[r].res # NoVal => hnd[r].res \in Results

-----------------------------------------------------------------------------
(* The processes. *)

\* A handler has an object once it waits; one in waitpid has the lock, and the
\* process it waits for is not reaped.
WaitInv ==
  \A h \in Rid :
    /\ hnd[h].at \in {"none", "new", "popen"} => hnd[h].obj = NoRid
    /\ hnd[h].at \in {"new", "popen"} => proc[h] = "none"
    /\ hnd[h].at = "waitpid" /\ hnd[h].obj # NoRid =>
         waitLock[hnd[h].obj] = h /\ proc[hnd[h].obj] # "reaped"

Types == ClientTypes /\ ServerTypes /\ ProcTypes /\ MgrTypes

MIInv == Types /\ FlowInv /\ CallsInv /\ OidInv /\ TableInv /\ WaitInv /\ WaitExact
-----------------------------------------------------------------------------
(***************************************************************************)
(* The hooks.                                                              *)
(***************************************************************************)
HookStep == [do : {"local", "connect", "close", "host", "proc", "async", "sync"},
             op : Op, i : Nat]

\* A step of the main thread alone, and one that does not connect.
CalmStep ==
  {s \in HookStep :
     /\ s.do \notin {"async", "sync", "connect"}
     /\ s.do = "host" => s.i = 0
     /\ s.do = "proc" => s.i > 0}
MainStep == CalmStep \cup {Connect}

\* A hook makes its Async threads in its first N steps, or makes none, and then
\* syncs with each of them.
GoodHook(h) ==
  /\ h \in Seq(HookStep)
  /\ \A j \in 1 .. Len(h) :
       /\ h[j].do \notin {"async", "sync"} => h[j] \in MainStep
       /\ h[j].do = "async" => j <= N /\ h[j].i = j /\ h[j].op \in {"run", "runLoad"}
       /\ h[j].do = "sync" => h[j].i \in 1 .. N /\ j = N + h[j].i
       /\ h[j].do \in {"async", "sync"} =>
            /\ N + N <= Len(h)
            /\ \A k \in 1 .. N : h[k].do = "async" /\ h[N + k].do = "sync" /\ h[N + k].i = k

LEMMA NPositive == N \in Nat \ {0} /\ Asyncs = 1 .. N /\ Main = 0 /\ Main \notin Asyncs
BY ManagerAssumption

\* A hook without Async threads.
LEMMA MainHook ==
  ASSUME NEW h \in Seq(MainStep)
  PROVE  GoodHook(h)
<1>1. MainStep \subseteq HookStep /\ \A s \in MainStep : s.do \notin {"async", "sync"}
  BY DEF CalmStep, MainStep, Connect, Step, HookStep, Op
<1>2. h \in Seq(HookStep)
  BY <1>1, SeqMonotonic
<1>3. \A j \in 1 .. Len(h) : h[j] \in MainStep
  BY ElementOfSeq
<1> QED BY <1>1, <1>2, <1>3 DEF GoodHook

Connects(h) == \E j \in 1 .. Len(h) : h[j].do = "connect"

\* The same without a connection.
LEMMA CalmHook ==
  ASSUME NEW h \in Seq(CalmStep)
  PROVE  GoodHook(h) /\ ~Connects(h)
<1>1. h \in Seq(MainStep)
  BY SeqMonotonic DEF MainStep
<1>2. \A j \in 1 .. Len(h) : h[j] \in CalmStep
  BY ElementOfSeq
<1> QED BY <1>1, <1>2, MainHook DEF CalmStep, Connects

\* A hook that runs its clients first.
LEMMA AsyncHook ==
  ASSUME NEW op \in {"run", "runLoad"}, NEW c \in Seq(CalmStep)
  PROVE  GoodHook(RunAll(op) \o c) /\ ~Connects(RunAll(op) \o c) /\ RunAll(op) \in Seq(HookStep)
<1> DEFINE a == [i \in 1 .. N |-> Step("async", op, i)]
           s == [i \in 1 .. N |-> Step("sync", op, i)]
           h == (a \o s) \o c
<1>1. N \in Nat \ {0}
  BY NPositive
<1>2. \A i \in 1 .. N : Step("async", op, i) \in HookStep /\ Step("sync", op, i) \in HookStep
  BY <1>1 DEF Step, HookStep, Op
<1>3. a \in Seq(HookStep) /\ s \in Seq(HookStep) /\ Len(a) = N /\ Len(s) = N
  BY <1>1, <1>2
<1>4. c \in Seq(HookStep) /\ Len(c) \in Nat /\ \A j \in 1 .. Len(c) : c[j] \in CalmStep
  BY SeqMonotonic, ElementOfSeq, LenProperties DEF CalmStep
<1>5. /\ a \o s \in Seq(HookStep) /\ Len(a \o s) = N + N
      /\ \A i \in 1 .. N + N : (a \o s)[i] = IF i <= N THEN a[i] ELSE s[i - N]
  BY <1>1, <1>3, ConcatProperties
<1>6. /\ h \in Seq(HookStep) /\ Len(h) = N + N + Len(c)
      /\ \A i \in 1 .. N + N + Len(c) : h[i] = IF i <= N + N THEN (a \o s)[i] ELSE c[i - (N + N)]
  BY <1>1, <1>4, <1>5, ConcatProperties
<1> HIDE DEF a, s, h
<1>7. \A k \in 1 .. N : a[k] = Step("async", op, k) /\ s[k] = Step("sync", op, k)
  BY DEF a, s
<1>8. /\ \A k \in 1 .. N : h[k] = Step("async", op, k) /\ h[N + k] = Step("sync", op, k)
  <2> SUFFICES ASSUME NEW k \in 1 .. N
               PROVE  h[k] = Step("async", op, k) /\ h[N + k] = Step("sync", op, k)
    OBVIOUS
  <2>1. k \in 1 .. N + N /\ N + k \in 1 .. N + N /\ ~(N + k <= N) /\ (N + k) - N = k
    BY <1>1
  <2>2. /\ k \in 1 .. N + N + Len(c) /\ N + k \in 1 .. N + N + Len(c)
        /\ k <= N + N /\ N + k <= N + N /\ k <= N
    BY <1>1, <1>4, <2>1
  <2>3. h[k] = (a \o s)[k] /\ h[N + k] = (a \o s)[N + k]
    BY <1>6, <2>2
  <2> QED BY <1>5, <1>7, <2>1, <2>2, <2>3
<1>9. ASSUME NEW j \in 1 .. Len(h)
      PROVE  \/ j \in 1 .. N
             \/ \E k \in 1 .. N : j = N + k
             \/ h[j] \in CalmStep
  <2>1. CASE j > N + N
    <3>1. j - (N + N) \in 1 .. Len(c) /\ j \in 1 .. N + N + Len(c) /\ ~(j <= N + N)
      BY <1>1, <1>4, <1>6, <2>1
    <3> QED BY <1>4, <1>6, <3>1
  <2>2. CASE j > N /\ j <= N + N
    <3>1. j - N \in 1 .. N /\ j = N + (j - N)
      BY <1>1, <1>4, <1>6, <2>2
    <3> QED BY <3>1
  <2> QED BY <1>1, <1>4, <1>6, <2>1, <2>2
<1>10. \A x \in CalmStep : x.do \notin {"async", "sync", "connect"} /\ x \in MainStep
  BY DEF CalmStep, MainStep
<1>11. \A k : /\ Step("async", op, k).do = "async" /\ Step("async", op, k).i = k
              /\ Step("async", op, k).op = op
              /\ Step("sync", op, k).do = "sync" /\ Step("sync", op, k).i = k
  BY DEF Step
<1>12. GoodHook(h) /\ ~Connects(h)
  <2> SUFFICES ASSUME NEW j \in 1 .. Len(h)
               PROVE  /\ h[j].do \notin {"async", "sync"} => h[j] \in MainStep
                      /\ h[j].do # "connect"
                      /\ h[j].do = "async" => j <= N /\ h[j].i = j /\ h[j].op \in {"run", "runLoad"}
                      /\ h[j].do = "sync" => h[j].i \in 1 .. N /\ j = N + h[j].i
                      /\ N + N <= Len(h)
                      /\ \A k \in 1 .. N : h[k].do = "async" /\ h[N + k].do = "sync" /\ h[N + k].i = k
    BY <1>6 DEF GoodHook, Connects
  <2>1. N + N <= Len(h)
    BY <1>1, <1>4, <1>6
  <2>2. \A k \in 1 .. N : h[k].do = "async" /\ h[N + k].do = "sync" /\ h[N + k].i = k
    BY <1>8, <1>11
  <2>3. CASE j \in 1 .. N
    BY <1>1, <1>8, <1>11, <2>1, <2>2, <2>3
  <2>4. CASE \E k \in 1 .. N : j = N + k
    <3>1. PICK k \in 1 .. N : j = N + k
      BY <2>4
    <3>2. h[j].do = "sync" /\ h[j].i = k
      BY <2>2, <3>1
    <3> QED BY <2>1, <2>2, <3>1, <3>2
  <2>5. CASE h[j] \in CalmStep
    BY <1>10, <2>1, <2>2, <2>5
  <2> QED BY <1>9, <2>3, <2>4, <2>5
<1> QED BY <1>5, <1>12 DEF RunAll, a, s, h
ProcCall == {s \in CalmStep : s.do = "proc"}

\* The processes of a task, one after the other.
LEMMA EachCalm ==
  /\ ForEach(<<"kill", "wait">>) \in Seq(ProcCall)
  /\ ForEach(<<"wait">>) \in Seq(ProcCall)
<1>1. N \in Nat \ {0} /\ Len(<<"kill", "wait">>) = 2 /\ Len(<<"wait">>) = 1
  BY NPositive
<1>2. ASSUME NEW op \in {"kill", "wait"}, NEW i \in Nat \ {0}
      PROVE  OnProc(op, i) \in ProcCall
  BY <1>2 DEF OnProc, Step, ProcCall, CalmStep, HookStep, Op
<1>3. ForEach(<<"kill", "wait">>) \in Seq(ProcCall)
  <2> DEFINE ops == <<"kill", "wait">>
  <2>1. ASSUME NEW j \in 1 .. N * 2
        PROVE  OnProc(ops[((j - 1) % 2) + 1], ((j - 1) \div 2) + 1) \in ProcCall
    <3>1. ((j - 1) % 2) + 1 \in 1 .. 2
      BY <1>1, <2>1
    <3>2. ops[((j - 1) % 2) + 1] \in {"kill", "wait"}
      BY <3>1
    <3>3. ((j - 1) \div 2) + 1 \in Nat \ {0}
      BY <1>1, <2>1
    <3> QED BY <1>2, <3>2, <3>3
  <2>2. [j \in 1 .. N * 2 |-> OnProc(ops[((j - 1) % 2) + 1], ((j - 1) \div 2) + 1)] \in Seq(ProcCall)
    BY <1>1, <2>1
  <2> QED BY <1>1, <2>2 DEF ForEach
<1>4. ForEach(<<"wait">>) \in Seq(ProcCall)
  <2> DEFINE ops == <<"wait">>
  <2>1. ASSUME NEW j \in 1 .. N * 1
        PROVE  OnProc(ops[((j - 1) % 1) + 1], ((j - 1) \div 1) + 1) \in ProcCall
    <3>1. ((j - 1) % 1) + 1 = 1 /\ ((j - 1) \div 1) + 1 \in Nat \ {0}
      BY <1>1, <2>1
    <3> QED BY <1>2, <3>1
  <2>2. [j \in 1 .. N * 1 |-> OnProc(ops[((j - 1) % 1) + 1], ((j - 1) \div 1) + 1)] \in Seq(ProcCall)
    BY <1>1, <2>1
  <2> QED BY <1>1, <2>2 DEF ForEach
<1> QED BY <1>3, <1>4

\* A short hook, step by step.
LEMMA TupleSeq ==
  ASSUME NEW S, NEW x \in S, NEW y \in S, NEW z \in S
  PROVE  <<>> \in Seq(S) /\ <<x>> \in Seq(S) /\ <<x, y>> \in Seq(S) /\ <<x, y, z>> \in Seq(S)
OBVIOUS

Phase == {"start", "wait", "stop", "reset", "over", "exited"}

\* Every hook is good; those that reset only close the link and call methods
\* of processes.
LEMMA HookGood ==
  ASSUME NEW task \in TaskClass, NEW ph \in Phase
  PROVE  /\ GoodHook(Hook(task, ph))
         /\ ph = "reset" => \A j \in 1 .. Len(Hook(task, ph)) :
                              Hook(task, ph)[j].do \in {"proc", "close"}
         /\ Hook("Host", "reset") = <<CloseConn>>
         /\ Connects(Hook(task, ph)) => task = "Host"
<1> DEFINE h == Hook(task, ph)
<1>1. CASE task = "Host"
  <2>1. h = HostHook(ph)
    BY <1>1 DEF Hook
  <2>2. h \in {<<Local, Connect, OnHost("file")>>, <<OnHost("file"), Local>>, <<CloseConn>>, <<>>}
    BY <2>1 DEF HostHook
  <2>3. {Local, Connect, OnHost("file"), CloseConn} \subseteq MainStep
    BY DEF Local, OnHost, CloseConn, Step, MainStep, CalmStep, HookStep, Op
  <2>4. h \in Seq(MainStep)
    BY <2>2, <2>3, TupleSeq
  <2>5. ph = "reset" => h = <<CloseConn>>
    BY <2>1 DEF HostHook
  <2>6. Hook("Host", "reset") = <<CloseConn>>
    BY DEF Hook, HostHook
  <2>7. ph = "reset" => \A j \in 1 .. Len(h) : h[j].do \in {"proc", "close"}
    BY <2>5 DEF CloseConn, Step
  <2> QED BY <1>1, <2>4, <2>6, <2>7, MainHook
<1>2. Hook("Host", "reset") = <<CloseConn>>
  BY DEF Hook, HostHook
<1>3. CASE task = "Httperf"
  <2>1. h = HttperfHook(ph)
    BY <1>3 DEF Hook
  <2>2. CASE ph = "start"
    <3>1. h = RunAll("run") /\ <<>> \in Seq(CalmStep)
      BY <2>1, <2>2, EmptySeq DEF HttperfHook
    <3>2. RunAll("run") \o <<>> = RunAll("run")
      BY <3>1, AsyncHook, ConcatEmptySeq
    <3> QED BY <1>2, <2>2, <3>1, <3>2, AsyncHook
  <2>3. CASE ph \in {"stop", "reset"}
    <3>1. h = KillEach
      BY <2>1, <2>3 DEF HttperfHook
    <3>2. h \in Seq(CalmStep)
      BY <3>1, EachCalm, SeqMonotonic DEF KillEach, ProcCall
    <3>3. \A j \in 1 .. Len(h) : h[j].do = "proc"
      BY <3>1, EachCalm, ElementOfSeq DEF KillEach, ProcCall
    <3> QED BY <1>2, <3>2, <3>3, CalmHook
  <2>4. CASE ph \notin {"start", "stop", "reset"}
    <3>1. h = <<>>
      BY <2>1, <2>4 DEF HttperfHook
    <3> QED BY <1>2, <2>4, <3>1, CalmHook, EmptySeq
  <2> QED BY <2>2, <2>3, <2>4
<1>4. CASE task = "Memcached"
  <2>1. h = MemcachedHook(ph)
    BY <1>4 DEF Hook
  <2>2. h \in {<<OnHost("run"), OnProc("poll", 1)>>, <<OnProc("kill", 1), OnProc("wait", 1)>>, <<>>}
    BY <2>1 DEF MemcachedHook
  <2>3. {OnHost("run"), OnProc("poll", 1), OnProc("kill", 1), OnProc("wait", 1)} \subseteq CalmStep
    BY DEF OnHost, OnProc, Step, CalmStep, HookStep, Op
  <2>4. h \in Seq(CalmStep)
    BY <2>2, <2>3, TupleSeq
  <2>5. ph = "reset" => h = <<OnProc("kill", 1), OnProc("wait", 1)>>
    BY <2>1 DEF MemcachedHook
  <2>6. ph = "reset" => \A j \in 1 .. Len(h) : h[j].do \in {"proc", "close"}
    BY <2>5 DEF OnProc, Step
  <2> QED BY <1>2, <2>4, <2>6, CalmHook
<1>5. CASE task = "MemcachedLoad"
  <2>1. h = MemcachedLoadHook(ph)
    BY <1>5 DEF Hook
  <2>2. {OnHost("runWait"), OnHost("file"), Local} \subseteq CalmStep
    BY DEF OnHost, Local, Step, CalmStep, HookStep, Op
  <2>3. CASE ph = "wait"
    <3>1. h = (RunAll("runLoad") \o WaitEach) \o <<OnHost("file"), Local>>
      BY <2>1, <2>3 DEF MemcachedLoadHook
    <3>2. WaitEach \in Seq(CalmStep)
      BY EachCalm, SeqMonotonic DEF WaitEach, ProcCall
    <3>3. /\ <<OnHost("file"), Local>> \in Seq(CalmStep)
          /\ WaitEach \o <<OnHost("file"), Local>> \in Seq(CalmStep)
      BY <2>2, <3>2, TupleSeq, ConcatProperties
    <3>4. h = RunAll("runLoad") \o (WaitEach \o <<OnHost("file"), Local>>)
      <4>1. Seq(CalmStep) \subseteq Seq(HookStep)
        BY SeqMonotonic DEF CalmStep
      <4>2. PICK r, w, u : r = RunAll("runLoad") /\ w = WaitEach /\ u = <<OnHost("file"), Local>>
        OBVIOUS
      <4>3. r \in Seq(HookStep) /\ w \in Seq(HookStep) /\ u \in Seq(HookStep)
        <5>1. RunAll("runLoad") \in Seq(HookStep)
          BY <3>2, AsyncHook
        <5> QED BY <3>2, <3>3, <4>1, <4>2, <5>1
      <4>4. (r \o w) \o u = r \o (w \o u)
        BY <4>3, ConcatAssociative
      <4> QED BY <3>1, <4>2, <4>4
    <3> QED BY <1>2, <2>3, <3>3, <3>4, AsyncHook
  <2>4. CASE ph # "wait"
    <3>1. h \in {<<OnHost("runWait")>>, <<>>}
      BY <2>1, <2>4 DEF MemcachedLoadHook
    <3>2. h \in Seq(CalmStep)
      BY <2>2, <3>1, TupleSeq
    <3>3. ph = "reset" => h = <<>>
      BY <2>1 DEF MemcachedLoadHook
    <3> QED BY <1>2, <3>2, <3>3, CalmHook
  <2> QED BY <2>3, <2>4
<1> QED BY <1>1, <1>3, <1>4, <1>5 DEF TaskClass
-----------------------------------------------------------------------------
(***************************************************************************)
(* The flow of run().                                                      *)
(***************************************************************************)
\* The hook the manager is in.
LEMMA TheHookGood ==
  ASSUME MgrTypes
  PROVE  /\ GoodHook(TheHook) /\ Len(TheHook) \in Nat
         /\ step <= Len(TheHook) => step \in 1 .. Len(TheHook) /\ TheHook[step] \in HookStep
         /\ step <= Len(TheHook) /\ phase = "reset" => TheHook[step].do \in {"proc", "close"}
         /\ phase = "reset" /\ tasks[cur] = "Host" =>
              Len(TheHook) = 1 /\ TheHook[1].do = "close"
         /\ step <= Len(TheHook) /\ TheHook[step].do = "connect" =>
              tasks[cur] = "Host" /\ TheHook[step].op = "getUserRoot"
<1>1. tasks[cur] \in TaskClass /\ phase \in Phase
  BY DEF MgrTypes, Phase
<1>2. GoodHook(TheHook) /\ Len(TheHook) \in Nat /\ TheHook \in Seq(HookStep)
  BY <1>1, HookGood, LenProperties DEF TheHook, GoodHook
<1>3. step <= Len(TheHook) => step \in 1 .. Len(TheHook)
  BY <1>2 DEF MgrTypes
<1>4. step <= Len(TheHook) => TheHook[step] \in HookStep
  BY <1>2, <1>3, ElementOfSeq
<1>5. step <= Len(TheHook) /\ phase = "reset" => TheHook[step].do \in {"proc", "close"}
  BY <1>1, <1>3, HookGood DEF TheHook
<1>6. phase = "reset" /\ tasks[cur] = "Host" => Len(TheHook) = 1 /\ TheHook[1].do = "close"
  <2>1. phase = "reset" /\ tasks[cur] = "Host" => TheHook = <<CloseConn>>
    BY <1>1, HookGood DEF TheHook
  <2> QED BY <2>1 DEF CloseConn, Step
<1>7. step <= Len(TheHook) /\ TheHook[step].do = "connect" =>
        tasks[cur] = "Host" /\ TheHook[step].op = "getUserRoot"
  <2>1. step <= Len(TheHook) /\ TheHook[step].do = "connect" => tasks[cur] = "Host"
    BY <1>1, <1>3, HookGood DEF TheHook, Connects
  <2>2. step <= Len(TheHook) /\ TheHook[step].do = "connect" => TheHook[step] \in MainStep
    BY <1>2, <1>3 DEF GoodHook
  <2>3. \A x \in MainStep : x.do = "connect" => x.op = "getUserRoot"
    BY DEF MainStep, CalmStep, Connect, Step
  <2> QED BY <2>1, <2>2, <2>3
<1> QED BY <1>2, <1>3, <1>4, <1>5, <1>6, <1>7

\* The threads do not change their places, but for the main thread.
AsyncsStay == \A i \in Asyncs : thr'[i] = thr[i]

\* The step makes an Async thread.
AsyncStarts ==
  /\ TheHook[step].do = "async"
  /\ \A i \in Asyncs : IF i = step THEN thr'[i].at = "call" /\ thr'[i].req.op \in {"run", "runLoad"}
                                   ELSE thr'[i] = thr[i]

\* The hook goes on to its next step.
LEMMA FlowAdvance ==
  ASSUME MgrTypes, FlowInv, Running, step <= Len(TheHook), Advance, UNCHANGED <<tasks, tstate>>,
         thr'[Main].at = "idle",
         \/ AsyncsStay /\ TheHook[step].do # "async"
         \/ AsyncStarts,
         TheHook[step].do = "sync" => thr[TheHook[step].i].at = "done",
         \/ rConn' = rConn /\ TheHook[step].do # "close"
         \/ rConn' = NoConn
         \/ TheHook[step].do = "connect"
  PROVE  FlowInv'
<1>1. /\ GoodHook(TheHook) /\ Len(TheHook) \in Nat /\ step \in 1 .. Len(TheHook)
      /\ N \in Nat \ {0} /\ Asyncs = 1 .. N
  BY TheHookGood, NPositive
<1>2. UNCHANGED <<phase, cur, failed, TheHook, tasks, tstate>> /\ step' = step + 1
  BY DEF Advance, TheHook
<1>3. TaskInv'
  BY <1>2 DEF FlowInv, TaskInv
<1>4. MainInv'
  BY DEF MainInv
<1>5. ConnInv'
  <2>1. CASE rConn' = NoConn
    BY <1>2, <2>1 DEF FlowInv, ConnInv
  <2>2. CASE TheHook[step].do = "connect"
    <3>1. tasks[cur] = "Host" /\ phase # "reset" /\ cur \in 1 .. Len(tasks)
      BY <2>2, TheHookGood DEF MgrTypes
    <3>2. failed = "no"
      BY <3>1 DEF FlowInv, ConnInv, Running
    <3> QED BY <1>2, <3>1, <3>2 DEF FlowInv, ConnInv
  <2>3. CASE rConn' = rConn /\ TheHook[step].do # "close"
    <3> SUFFICES ASSUME failed = "raised", rConn # NoConn
                 PROVE  /\ phase = "reset"
                        /\ \E j \in 1 .. Len(tasks) : tasks[j] = "Host" /\ j < cur
      BY <1>2, <2>3 DEF FlowInv, ConnInv
    <3>1. /\ phase = "reset"
          /\ \E j \in 1 .. Len(tasks) : tasks[j] = "Host" /\ (j < cur \/ (j = cur /\ step = 1))
      BY DEF FlowInv, ConnInv
    <3>2. tasks[cur] = "Host" /\ step = 1 => FALSE
      BY <2>3, <3>1, TheHookGood
    <3> QED BY <3>1, <3>2
  <2> QED BY <2>1, <2>2, <2>3
<1>6. AsyncInv'
  <2> SUFFICES ASSUME NEW i \in Asyncs
               PROVE  /\ thr'[i].req.op \in {"none", "run", "runLoad"}
                      /\ phase \in {"start", "wait", "stop"} /\ thr'[i].at \notin {"idle", "done"} =>
                           /\ i < step + 1 /\ step + 1 <= N + i /\ N + i <= Len(TheHook)
                           /\ TheHook[N + i].do = "sync" /\ TheHook[N + i].i = i
                      /\ phase \in {"start", "wait", "stop"} /\ i < step + 1 /\ i <= Len(TheHook)
                           /\ TheHook[i].do = "async" => thr'[i].at # "idle"
    BY <1>2 DEF AsyncInv
  <2>1. CASE thr'[i] = thr[i] /\ (i # step \/ TheHook[step].do # "async")
    <3>1. ASSUME phase \in {"start", "wait", "stop"}, thr[i].at \notin {"idle", "done"}
          PROVE  /\ i < step + 1 /\ step + 1 <= N + i /\ N + i <= Len(TheHook)
                 /\ TheHook[N + i].do = "sync" /\ TheHook[N + i].i = i
      <4>1. /\ i < step /\ step <= N + i /\ N + i <= Len(TheHook)
            /\ TheHook[N + i].do = "sync" /\ TheHook[N + i].i = i
        BY <3>1 DEF FlowInv, AsyncInv
      <4>2. step # N + i
        BY <3>1, <4>1
      <4> QED BY <1>1, <4>1, <4>2
    <3>2. i < step + 1 => i < step \/ i = step
      BY <1>1
    <3> QED BY <2>1, <3>1, <3>2 DEF FlowInv, AsyncInv
  <2>2. CASE i = step /\ TheHook[step].do = "async" /\ thr'[i].at = "call" /\ thr'[i].req.op \in {"run", "runLoad"}
    <3>1. N + N <= Len(TheHook) /\ TheHook[N + i].do = "sync" /\ TheHook[N + i].i = i
      BY <1>1, <2>2 DEF GoodHook
    <3>2. i < step + 1 /\ step + 1 <= N + i /\ N + i <= Len(TheHook)
      BY <1>1, <2>2, <3>1
    <3> QED BY <2>2, <3>1, <3>2
  <2> QED BY <2>1, <2>2 DEF AsyncsStay, AsyncStarts
<1> QED BY <1>3, <1>4, <1>5, <1>6 DEF FlowInv

\* An exception leaves the hook.
LEMMA FlowRaise ==
  ASSUME MgrTypes, FlowInv, Running, UNCHANGED <<tasks, tstate, rConn>>,
         thr'[Main].at = "idle", AsyncsStay,
         \/ phase # "reset" /\ InRun
         \/ phase = "reset" /\ InReset /\ (failed' = "twice" \/ (failed' = failed /\ step <= Len(TheHook) /\ TheHook[step].do # "close"))
  PROVE  FlowInv'
<1>1. Len(TheHook) \in Nat /\ Len(tasks) \in Nat /\ cur \in 1 .. Len(tasks)
  BY TheHookGood, LenProperties DEF MgrTypes
<1>2. MainInv'
  BY DEF MainInv
<1>3. phase' = "reset" /\ cur' \in 1 .. Len(tasks)
  BY <1>1 DEF InRun, InReset, MgrTypes
<1>4. TaskInv'
  <2>1. CASE InRun
    BY <1>1, <2>1 DEF InRun, TaskInv
  <2>2. CASE phase = "reset" /\ InReset
    BY <2>2 DEF InReset, FlowInv, TaskInv
  <2> QED BY <2>1, <2>2
<1>5. AsyncInv'
  BY <1>3 DEF AsyncInv, FlowInv, AsyncsStay
<1>6. ConnInv'
  <2>1. CASE InRun
    <3>1. \A j \in 1 .. Len(tasks) : j < Len(tasks) \/ j = Len(tasks)
      BY <1>1
    <3> QED BY <2>1, <3>1 DEF InRun, FlowInv, ConnInv
  <2>2. CASE phase = "reset" /\ InReset /\ failed' = "twice"
    BY <2>2 DEF InReset, FlowInv, ConnInv
  <2>3. CASE phase = "reset" /\ InReset /\ failed' = failed /\ step <= Len(TheHook) /\ TheHook[step].do # "close"
    <3> SUFFICES ASSUME failed = "raised", rConn # NoConn
                 PROVE  \E j \in 1 .. Len(tasks) : tasks[j] = "Host" /\ j < cur
      BY <2>3 DEF FlowInv, ConnInv, InReset
    <3>1. \E j \in 1 .. Len(tasks) : tasks[j] = "Host" /\ (j < cur \/ (j = cur /\ step = 1))
      BY DEF FlowInv, ConnInv
    <3>2. tasks[cur] = "Host" /\ step = 1 => FALSE
      BY <2>3, TheHookGood
    <3> QED BY <3>1, <3>2
  <2> QED BY <2>1, <2>2, <2>3
<1> QED BY <1>2, <1>4, <1>5, <1>6 DEF FlowInv

\* An interrupt leaves the reset.
LEMMA FlowEscape ==
  ASSUME MgrTypes, FlowInv, phase = "reset", UNCHANGED <<tasks, tstate, rConn>>,
         thr'[Main].at = "idle", AsyncsStay, Escape
  PROVE  FlowInv'
<1>1. phase' = "over" /\ cur' = cur /\ failed' = "escaped"
  BY DEF Escape
<1>2. \A j \in 1 .. Len(tasks) : tstate[j] = "STOPPED" \/ j <= cur
  BY LenProperties DEF FlowInv, TaskInv, MgrTypes
<1>3. TaskInv'
  BY <1>1, <1>2 DEF TaskInv
<1>4. ConnInv' /\ MainInv' /\ AsyncInv'
  BY <1>1 DEF FlowInv, ConnInv, MainInv, AsyncInv, AsyncsStay
<1> QED BY <1>3, <1>4 DEF FlowInv

\* The manager does not move: the main thread starts the call of its step, or
\* threads go on in their calls.
ThreadsGoOn ==
  \A t \in Caller :
    /\ thr'[t].req = thr[t].req
    /\ thr'[t].at = thr[t].at \/ (thr[t].at \notin {"idle", "done"} /\ thr'[t].at # "idle")

LEMMA FlowStay ==
  ASSUME MgrTypes, FlowInv, UNCHANGED <<tasks, phase, cur, step, tstate, rConn, failed>>,
         \/ ThreadsGoOn
         \/ /\ Running /\ step <= Len(TheHook) /\ AsyncsStay
            /\ TheHook[step].do \in {"connect", "host", "proc"}
            /\ thr'[Main].req.op = TheHook[step].op
  PROVE  FlowInv'
<1>1. UNCHANGED <<TheHook, Running>>
  BY DEF TheHook, Running
<1>2. TaskInv' /\ ConnInv'
  BY DEF FlowInv, TaskInv, ConnInv
<1>3. MainInv'
  BY <1>1 DEF FlowInv, MainInv, ThreadsGoOn, Caller
<1>4. AsyncInv'
  BY <1>1 DEF FlowInv, AsyncInv, ThreadsGoOn, AsyncsStay, Caller
<1> QED BY <1>2, <1>3, <1>4 DEF FlowInv

\* No task is skipped: a run starts all its tasks before it waits for them.
LEMMA NotSkipped ==
  ASSUME MgrTypes, FlowInv
  PROVE  ~Skips
<1>1. cur \in 1 .. Len(tasks) /\ cur <= cur
  BY DEF MgrTypes
<1> QED BY <1>1 DEF FlowInv, TaskInv, Skips

LEMMA FlowTaskDone ==
  ASSUME MgrTypes, FlowInv, TaskDone
  PROVE  FlowInv'
<1>1. /\ Len(tasks) \in Nat /\ cur \in 1 .. Len(tasks) /\ Len(TheHook) \in Nat /\ step \in Nat
      /\ step > Len(TheHook) /\ thr[Main].at = "idle" /\ Running /\ N \in Nat \ {0} /\ Asyncs = 1 .. N
      /\ UNCHANGED <<tasks, rConn, failed, thr>> /\ step' = 1
      /\ tstate \in [1 .. Len(tasks) -> {"STOPPED", "RUNNING"}]
  BY TheHookGood, NotSkipped, NPositive, LenProperties
  DEF MgrTypes, TaskDone, hostVars, rpcVars, clientVars
<1>2. phase \in {"start", "wait", "stop", "reset"}
  BY <1>1 DEF Running
<1>3. /\ phase = "start" => tstate' = [tstate EXCEPT ![cur] = "RUNNING"]
      /\ phase = "wait" => tstate' = tstate
      /\ phase \in {"stop", "reset"} => tstate' = [tstate EXCEPT ![cur] = "STOPPED"]
  BY DEF TaskDone
<1>4. /\ phase = "start" => IF cur = Len(tasks) THEN phase' = "wait" /\ cur' = 1
                                                 ELSE phase' = "start" /\ cur' = cur + 1
      /\ phase = "wait" => IF cur = Len(tasks) THEN phase' = "stop" /\ cur' = Len(tasks)
                                                ELSE phase' = "wait" /\ cur' = cur + 1
      /\ phase \in {"stop", "reset"} => IF cur = 1 THEN phase' = "over" /\ cur' = Len(tasks)
                                                   ELSE phase' = phase /\ cur' = cur - 1
  BY <1>2 DEF TaskDone
<1>5. TaskInv'
  <2> SUFFICES ASSUME NEW j \in 1 .. Len(tasks)
               PROVE  /\ phase' = "start" /\ j < cur' => tstate'[j] = "RUNNING"
                      /\ phase' = "wait" => tstate'[j] = "RUNNING"
                      /\ phase' = "stop" => tstate'[j] = IF j <= cur' THEN "RUNNING" ELSE "STOPPED"
                      /\ phase' = "reset" /\ j > cur' => tstate'[j] = "STOPPED"
                      /\ phase' \in {"over", "exited"} => tstate'[j] = "STOPPED"
    BY <1>1 DEF TaskInv
  <2>0. /\ phase = "start" /\ j < cur => tstate[j] = "RUNNING"
        /\ phase = "wait" => tstate[j] = "RUNNING"
        /\ phase = "stop" => tstate[j] = IF j <= cur THEN "RUNNING" ELSE "STOPPED"
        /\ phase = "reset" /\ j > cur => tstate[j] = "STOPPED"
    BY DEF FlowInv, TaskInv
  <2>1. CASE phase = "start"
    BY <1>1, <1>3, <1>4, <2>0, <2>1
  <2>2. CASE phase = "wait"
    BY <1>1, <1>3, <1>4, <2>0, <2>2
  <2>3. CASE phase = "stop"
    BY <1>1, <1>3, <1>4, <2>0, <2>3
  <2>4. CASE phase = "reset"
    BY <1>1, <1>3, <1>4, <2>0, <2>4
  <2> QED BY <1>2, <2>1, <2>2, <2>3, <2>4
<1>6. MainInv'
  BY <1>1 DEF MainInv
<1>7. AsyncInv'
  <2>1. ASSUME NEW i \in Asyncs, phase' \in {"start", "wait", "stop"}
        PROVE  thr[i].at \in {"idle", "done"} /\ ~(i < 1)
    <3>1. phase \in {"start", "wait", "stop"}
      BY <1>2, <1>4, <2>1
    <3>2. thr[i].at \notin {"idle", "done"} => step <= N + i /\ N + i <= Len(TheHook)
      BY <3>1 DEF FlowInv, AsyncInv
    <3> QED BY <1>1, <3>2
  <2> QED BY <1>1, <2>1 DEF AsyncInv, FlowInv
<1>8. ConnInv'
  <2>1. phase' \in {"start", "wait", "stop"} => failed = "no"
    BY <1>2, <1>4 DEF FlowInv, ConnInv
  <2>0. phase' = "reset" => failed # "escaped"
    BY <1>2, <1>4 DEF FlowInv, ConnInv
  <2>2. ASSUME failed = "raised", rConn # NoConn
        PROVE  /\ phase' = "reset"
               /\ \E j \in 1 .. Len(tasks) : tasks[j] = "Host" /\ (j < cur' \/ j = cur')
    <3>1. PICK j \in 1 .. Len(tasks) : tasks[j] = "Host" /\ (j < cur \/ (j = cur /\ step = 1))
      BY <2>2 DEF FlowInv, ConnInv
    <3>2. phase = "reset"
      BY <2>2 DEF FlowInv, ConnInv
    <3>3. j < cur
      BY <1>1, <3>1, <3>2, TheHookGood
    <3>4. cur # 1 /\ j <= cur - 1
      BY <1>1, <3>3
    <3> QED BY <1>1, <1>4, <3>1, <3>2, <3>4
  <2> QED BY <1>1, <2>0, <2>1, <2>2 DEF FlowInv, ConnInv
<1> QED BY <1>5, <1>6, <1>7, <1>8 DEF FlowInv

\* The script ends.
LEMMA FlowExit ==
  ASSUME FlowInv, Exit
  PROVE  FlowInv'
BY DEF FlowInv, TaskInv, ConnInv, MainInv, AsyncInv, Exit, Running, clientVars
-----------------------------------------------------------------------------
(***************************************************************************)
(* The client's threads.                                                   *)
(***************************************************************************)
\* The thread t moves to a place in its call.
Moves(t, place) ==
  /\ thr'[t].at = place /\ thr'[t].rid = thr[t].rid /\ thr'[t].req = thr[t].req
  /\ \A u \in Caller \ {t} : thr'[u] = thr[u]

ThreadType == [at : Place, rid : Rid \cup {NoRid}, req : Request]

LEMMA GotoMoves ==
  ASSUME ClientTypes, NEW t \in Caller, NEW place \in Place, Goto(t, place)
  PROVE  thr' \in [Caller -> ThreadType] /\ Moves(t, place)
BY DEF ClientTypes, ThreadType, Goto, Moves

\* A thread is in the call r, and has not come to its end.
InTry(r) == \E t \in Caller : thr[t].rid = r /\ thr[t].at \in {"try", "put", "read", "clean"}

\* What a step of the client may not touch.
ServerStays == UNCHANGED <<replies, server, hnd, oids, procVars>>

\* A call registers: it gets the next number, a pipe, and its place in
\* outstanding if the receive loop is there.
LEMMA RegisterKept ==
  ASSUME MIInv, NEW t \in Caller, Register(t), UNCHANGED procVars
  PROVE  ClientTypes' /\ CallsInv' /\ ThreadsGoOn
<1> USE DEF MIInv, Types, CallsInv
<1>1. /\ rid \in Rid /\ rid + 1 \in 0 .. MaxRid /\ rid' = rid + 1 /\ thr[t].at = "call" /\ rid \in Nat
      /\ \A r \in Rid : r \in Nat /\ (r >= rid + 1 => r >= rid /\ r # rid) /\ (r < rid => r < rid + 1 /\ r # rid)
      /\ rid # NoRid /\ rid < rid + 1
  BY RpcAssumption DEF ClientTypes, Register, Rid, NoRid
<1>2. PICK l \in {"raise", "try"} :
        /\ l = IF recv = "dead" THEN "raise" ELSE "try"
        /\ thr' = [thr EXCEPT ![t].at = l, ![t].rid = rid]
        /\ outstanding' = IF recv = "dead" THEN outstanding ELSE outstanding \cup {rid}
  BY DEF Register
<1>3. thr' \in [Caller -> ThreadType]
  <2>1. \A x \in ThreadType : [x EXCEPT !.at = l] \in ThreadType /\ [x EXCEPT !.rid = rid] \in ThreadType
    BY <1>1 DEF ThreadType, Place
  <2>2. thr \in [Caller -> ThreadType]
    BY DEF ClientTypes, ThreadType
  <2>3. [thr EXCEPT ![t].at = l] \in [Caller -> ThreadType]
    BY <2>1, <2>2
  <2> QED BY <1>2, <2>1, <2>3
<1>4. /\ thr'[t].at = l /\ thr'[t].rid = rid /\ thr'[t].req = thr[t].req
      /\ \A u \in Caller \ {t} : thr'[u] = thr[u]
  BY <1>2 DEF ClientTypes
<1>5. /\ req' = [req EXCEPT ![rid] = thr[t].req] /\ fds' = fds \cup {rid}
      /\ UNCHANGED <<cell, out, sendQ, send, recv, replies, hnd, oids, proc>>
  BY DEF Register, sendVars, serverVars, procVars
<1>50. /\ outstanding \subseteq outstanding' /\ outstanding' \subseteq outstanding \cup {rid}
       /\ l = "try" => rid \in outstanding'
       /\ rid \in outstanding' => l = "try" \/ rid \in outstanding
  BY <1>2
<1>51. rid \notin outstanding /\ \A u \in Caller : thr[u].rid # rid
  <2>1. \A u \in Caller : thr[u].rid # rid
    BY <1>1 DEF ClientTypes, OwnerInv
  <2>2. out[rid] # Exc
    BY <1>1 DEF SendInv, Exc, NoVal
  <2> QED BY <2>1, <2>2 DEF PipesOpen
<1>6. ClientTypes'
  BY <1>1, <1>2, <1>3, <1>4, <1>5 DEF ClientTypes, ThreadType
<1>7. ThreadsGoOn
  BY <1>1, <1>4 DEF ThreadsGoOn
<1>8. OwnerInv'
  <2>1. ASSUME NEW u \in Caller
        PROVE  /\ thr'[u].at \in InCall => thr'[u].rid # NoRid
               /\ thr'[u].rid # NoRid => thr'[u].rid < rid' /\ req'[thr'[u].rid] = thr'[u].req
               /\ thr'[u].at \in {"raise", "try", "put", "read"} => out'[thr'[u].rid] = NoVal
               /\ thr'[u].at \in {"clean", "close"} => out'[thr'[u].rid] = Exc
               /\ thr'[u].at \in {"try", "put", "read"} =>
                    thr'[u].rid \in outstanding' \/ cell'[thr'[u].rid] # NoVal
               /\ thr'[u].at \in {"raise", "close"} => thr'[u].rid \notin outstanding'
    <3>1. CASE u = t
      BY <1>1, <1>2, <1>4, <1>5, <1>51, <3>1 DEF ClientTypes, SendInv
    <3>2. CASE u # t
      <4>1. thr[u].rid \in Rid \cup {NoRid} /\ thr'[u] = thr[u]
        BY <1>4, <3>2 DEF ClientTypes
      <4>2. thr[u].rid # NoRid => /\ thr[u].rid \in Rid /\ thr[u].rid < rid /\ thr[u].rid # rid
                                  /\ req'[thr[u].rid] = req[thr[u].rid] /\ thr[u].rid < rid + 1
        BY <1>1, <1>5, <4>1 DEF ClientTypes, OwnerInv
      <4>3. /\ thr[u].at \in {"try", "put", "read"} => thr[u].rid \in outstanding' \/ cell[thr[u].rid] # NoVal
            /\ thr[u].at \in {"raise", "close"} => thr[u].rid \notin outstanding'
        BY <1>50, <1>51 DEF OwnerInv
      <4> QED BY <1>1, <1>5, <4>1, <4>2, <4>3 DEF OwnerInv
    <3> QED BY <3>1, <3>2
  <2> QED BY <1>4, <1>51, <2>1 DEF OwnerInv
<1>9. SendInv'
  <2>1. ASSUME NEW r \in Rid, Unsent(r)' PROVE Unsent(r)
    <3>1. ASSUME NEW u \in Caller, thr'[u].at \in {"try", "put"}, thr'[u].rid = r PROVE Unsent(r)
      BY <1>1, <1>4, <3>1 DEF Unsent
    <3>2. r >= rid' => r >= rid
      BY <1>1
    <3> QED BY <1>5, <2>1, <3>1, <3>2 DEF Unsent
  <2>2. ASSUME NEW u \in Caller, thr'[u].at \in {"try", "put"} PROVE sendQ # <<thr'[u].rid>>
    <3>1. CASE u = t
      BY <1>1, <1>4, <3>1 DEF SendInv
    <3>2. CASE u # t
      BY <1>4, <2>2, <3>2 DEF SendInv
    <3> QED BY <3>1, <3>2
  <2> QED BY <1>1, <1>5, <2>1, <2>2 DEF SendInv
<1>10. AnswerInv'
  BY <1>1, <1>50, <1>5 DEF AnswerInv, SendInv
<1>11. PipesOpen'
  <2> SUFFICES ASSUME NEW r \in outstanding'
               PROVE  r \in fds' /\ (InTry(r)' \/ out'[r] = Exc)
    BY DEF PipesOpen, InTry
  <2>1. CASE r = rid
    BY <1>4, <1>5, <1>50, <1>51, <2>1 DEF InTry
  <2>2. CASE r \in outstanding
    <3>1. r \in fds' /\ (InTry(r) \/ out'[r] = Exc)
      BY <1>5, <2>2 DEF PipesOpen, InTry
    <3>2. InTry(r) => InTry(r)'
      BY <1>1, <1>4 DEF InTry
    <3> QED BY <3>1, <3>2
  <2> QED BY <1>50, <2>1, <2>2
<1> QED BY <1>6, <1>7, <1>8, <1>9, <1>10, <1>11
\* A thread leaves its call, one step at a time: it waits for room, has put its
\* request, gives up, takes its entry out, or is done with a call the receive
\* loop does not know any more, or with one that raises.
LEMMA LeaveKept ==
  ASSUME MIInv, NEW t \in Caller, NEW place, Moves(t, place), NEW r, r = thr[t].rid,
         UNCHANGED <<rid, req, cell, hnd, proc, replies>>,
         \/ /\ place = "put" /\ thr[t].at = "try" /\ out' = out /\ UNCHANGED <<outstanding, fds, sendQ>>
         \/ /\ place = "read" /\ thr[t].at \in {"try", "put"} /\ out' = out /\ sendQ' = <<r>>
            /\ UNCHANGED <<outstanding, fds>>
         \/ /\ place = "clean" /\ thr[t].at \in {"try", "put", "read"} /\ out' = [out EXCEPT ![r] = Exc]
            /\ UNCHANGED <<outstanding, fds, sendQ>>
         \/ /\ place = "close" /\ thr[t].at = "clean" /\ out' = out /\ outstanding' = outstanding \ {r}
            /\ UNCHANGED <<fds, sendQ>>
         \/ /\ place = "done" /\ thr[t].at \in InCall /\ r \notin outstanding
            /\ out' = out \/ \E v \in {Exc, cell[r]} : out' = [out EXCEPT ![r] = v]
            /\ (fds' = fds \/ fds' = fds \ {r}) /\ UNCHANGED <<outstanding, sendQ>>
         \/ /\ place = "done" /\ thr[t].at \in InCall /\ out' = [out EXCEPT ![r] = Exc]
            /\ UNCHANGED <<outstanding, fds, sendQ>>
  PROVE  CallsInv'
<1> USE DEF MIInv, Types, CallsInv, InCall
<1>1. /\ r \in Rid /\ r < rid /\ r # NoRid
      /\ \A u \in Caller \ {t} : thr[u].rid # r /\ thr'[u] = thr[u]
      /\ thr'[t].at = place /\ thr'[t].rid = r /\ thr'[t].req = thr[t].req
      /\ place \in {"put", "read", "clean", "close", "done"}
      /\ thr[t].at \in InCall
  BY DEF OwnerInv, ClientTypes, Moves
<1>2. \A q \in Rid : q # r => out'[q] = out[q] /\ (q \in outstanding' <=> q \in outstanding)
  BY DEF ClientTypes
<1>3. outstanding' \subseteq outstanding
  OBVIOUS
<1>4. OwnerInv'
  <2>1. ASSUME NEW u \in Caller, u # t
        PROVE  /\ thr'[u].at \in {"raise", "try", "put", "read"} => out'[thr'[u].rid] = NoVal
               /\ thr'[u].at \in {"clean", "close"} => out'[thr'[u].rid] = Exc
               /\ thr'[u].at \in {"try", "put", "read"} =>
                    thr'[u].rid \in outstanding' \/ cell'[thr'[u].rid] # NoVal
               /\ thr'[u].at \in {"raise", "close"} => thr'[u].rid \notin outstanding'
    <3>1. thr'[u] = thr[u] /\ thr[u].rid # r
      BY <1>1, <2>1
    <3>2. thr[u].at \in InCall => thr[u].rid \in Rid
      BY DEF OwnerInv, ClientTypes
    <3> QED BY <1>2, <3>1, <3>2 DEF OwnerInv
  <2>2. /\ place \in {"put", "read"} => out'[r] = NoVal /\ (r \in outstanding' \/ cell'[r] # NoVal)
        /\ place \in {"clean", "close"} => out'[r] = Exc
        /\ place = "close" => r \notin outstanding'
    BY <1>1 DEF OwnerInv, ClientTypes
  <2>3. \A u \in Caller : thr'[u].rid = thr[u].rid /\ thr'[u].req = thr[u].req
    BY <1>1
  <2>4. \A u \in Caller : thr'[u].at \in InCall => thr'[u].rid # NoRid
    BY <1>1 DEF OwnerInv
  <2> QED BY <1>1, <2>1, <2>2, <2>3, <2>4 DEF OwnerInv
<1>5. SendInv'
  <2>1. ASSUME NEW q \in Rid, Unsent(q)' PROVE Unsent(q)
    <3>1. ASSUME NEW u \in Caller, thr'[u].at \in {"try", "put"}, thr'[u].rid = q PROVE Unsent(q)
      BY <1>1, <3>1 DEF Unsent
    <3>2. sendQ' = <<q>> => Unsent(q)
      BY <1>1 DEF Unsent
    <3> QED BY <2>1, <3>1, <3>2 DEF Unsent
  <2>2. ASSUME NEW u \in Caller, thr'[u].at \in {"try", "put"} PROVE sendQ' # <<thr'[u].rid>>
    <3>1. CASE u # t
      <4>1. thr'[u] = thr[u] /\ thr[u].rid # r
        BY <1>1, <3>1
      <4> QED BY <2>2, <4>1 DEF SendInv
    <3>2. CASE u = t
      <4>1. place = "put" /\ thr[t].at = "try" /\ sendQ' = sendQ /\ thr'[t].rid = thr[t].rid
        BY <1>1, <2>2, <3>2
      <4> QED BY <3>2, <4>1 DEF SendInv
    <3> QED BY <3>1, <3>2
  <2>3. ASSUME NEW q \in Rid, q >= rid PROVE q # r /\ out'[q] = NoVal /\ sendQ' # <<q>>
    <3>1. q # r
      BY <1>1, <2>3 DEF ClientTypes, Rid
    <3> QED BY <1>2, <2>3, <3>1 DEF SendInv
  <2> QED BY <2>1, <2>2, <2>3 DEF SendInv
<1>6. AnswerInv'
  <2>1. out'[r] \in {NoVal, Exc, hnd[r].res}
    BY <1>1 DEF AnswerInv, ClientTypes
  <2> QED BY <1>2, <1>3, <2>1 DEF AnswerInv
<1>7. PipesOpen'
  <2> SUFFICES ASSUME NEW q \in outstanding'
               PROVE  q \in fds' /\ (InTry(q)' \/ out'[q] = Exc)
    BY DEF PipesOpen, InTry
  <2>1. q \in outstanding /\ q \in fds /\ (InTry(q) \/ out[q] = Exc) /\ q \in Rid
    BY <1>3 DEF PipesOpen, InTry, ClientTypes
  <2>2. q \in fds'
    BY <2>1
  <2>3. out[q] = Exc => out'[q] = Exc
    <3>1. CASE q # r
      BY <1>2, <2>1, <3>1
    <3>2. CASE q = r
      BY <1>1, <2>1, <3>2 DEF AnswerInv, OwnerInv, ClientTypes
    <3> QED BY <3>1, <3>2
  <2>4. CASE InTry(q)
    <3>1. PICK u \in Caller : thr[u].rid = q /\ thr[u].at \in {"try", "put", "read", "clean"}
      BY <2>4 DEF InTry
    <3>2. CASE u # t
      BY <1>1, <2>2, <3>1, <3>2 DEF InTry
    <3>3. CASE u = t /\ place \in {"put", "read", "clean"}
      BY <1>1, <2>2, <3>1, <3>3 DEF InTry
    <3>4. CASE u = t /\ place \in {"close", "done"}
      BY <1>1, <2>1, <3>1, <3>4 DEF ClientTypes
    <3> QED BY <1>1, <2>2, <3>2, <3>3, <3>4
  <2> QED BY <2>1, <2>2, <2>3, <2>4
<1> QED BY <1>4, <1>5, <1>6, <1>7

ThreadStep(t) == Refused(t) \/ NoPut(t) \/ Put(t) \/ Read(t) \/ Clean(t) \/ CloseFds(t)

LEMMA ThreadKept ==
  ASSUME MIInv, NEW t \in Caller, ThreadStep(t) \/ (t = Main /\ InterruptCall), UNCHANGED procVars
  PROVE  ClientTypes' /\ CallsInv' /\ ThreadsGoOn
<1> USE DEF MIInv, Types, CallsInv
<1>1. PICK r : r = thr[t].rid
  OBVIOUS
<1>2. /\ UNCHANGED <<rid, req, cell, hnd, proc, replies, send, recv>>
      /\ thr[t].at \in {"raise", "try", "put", "read", "clean", "close"}
  BY DEF ThreadStep, Refused, NoPut, Put, callVars, Read, Clean, CloseFds, InterruptCall, sendVars, serverVars, procVars
<1>3. r \in Rid /\ out \in [Rid -> Answer] /\ Exc \in Answer /\ cell[r] \in Answer
  BY <1>1, <1>2 DEF OwnerInv, ClientTypes, InCall, Exc, Answer
<1>4. PICK place \in {"put", "read", "clean", "close", "done"} :
        /\ Goto(t, place)
        /\ \/ /\ place = "put" /\ thr[t].at = "try" /\ out' = out /\ UNCHANGED <<outstanding, fds, sendQ>>
           \/ /\ place = "read" /\ thr[t].at \in {"try", "put"} /\ out' = out /\ sendQ' = <<r>>
              /\ UNCHANGED <<outstanding, fds>>
           \/ /\ place = "clean" /\ thr[t].at \in {"try", "put", "read"} /\ out' = [out EXCEPT ![r] = Exc]
              /\ UNCHANGED <<outstanding, fds, sendQ>>
           \/ /\ place = "close" /\ thr[t].at = "clean" /\ out' = out /\ outstanding' = outstanding \ {r}
              /\ UNCHANGED <<fds, sendQ>>
           \/ /\ place = "done" /\ thr[t].at \in InCall /\ r \notin outstanding
              /\ out' = out \/ \E v \in {Exc, cell[r]} : out' = [out EXCEPT ![r] = v]
              /\ (fds' = fds \/ fds' = fds \ {r}) /\ UNCHANGED <<outstanding, sendQ>>
           \/ /\ place = "done" /\ thr[t].at \in InCall /\ out' = [out EXCEPT ![r] = Exc]
              /\ UNCHANGED <<outstanding, fds, sendQ>>
  <2>1. CASE Refused(t)
    <3>1. r \notin outstanding
      BY <1>1, <2>1 DEF Refused, OwnerInv
    <3> QED BY <1>1, <2>1, <3>1 DEF Refused, sendVars, InCall
  <2>2. CASE Put(t)
    BY <1>1, <2>2 DEF Put, QueuePut, callVars
  <2>3. CASE Read(t)
    <3>1. r \notin outstanding
      BY <1>1, <1>3, <2>3 DEF Read, AnswerInv
    <3> QED BY <1>1, <2>3, <3>1 DEF Read, sendVars, InCall
  <2>4. CASE Clean(t)
    BY <1>1, <2>4 DEF Clean, sendVars
  <2>5. CASE CloseFds(t)
    <3>1. r \notin outstanding
      BY <1>1, <2>5 DEF CloseFds, OwnerInv
    <3> QED BY <1>1, <2>5, <3>1 DEF CloseFds, sendVars, InCall
  <2>6. CASE t = Main /\ InterruptCall
    BY <1>1, <2>6 DEF InterruptCall, sendVars, InCall
  <2>7. CASE NoPut(t)
    BY <1>1, <2>7 DEF NoPut, sendVars
  <2> QED BY <2>1, <2>2, <2>3, <2>4, <2>5, <2>6, <2>7 DEF ThreadStep
<1>5. thr' \in [Caller -> ThreadType] /\ Moves(t, place)
  BY <1>4, GotoMoves DEF Place
<1>6. CallsInv'
  BY <1>1, <1>2, <1>4, <1>5, LeaveKept
<1>7. ThreadsGoOn
  BY <1>2, <1>4, <1>5 DEF Moves, ThreadsGoOn
<1>8. ClientTypes'
  <2>1. out' \in [Rid -> Answer]
    BY <1>3, <1>4
  <2>2. sendQ' \in {<<>>} \cup {<<v>> : v \in Rid \cup {Close}}
    BY <1>3, <1>4 DEF ClientTypes
  <2>3. outstanding' \subseteq Rid /\ fds' \subseteq Rid
    BY <1>4 DEF ClientTypes
  <2> QED BY <1>2, <1>5, <2>1, <2>2, <2>3 DEF ClientTypes, ThreadType
<1> QED BY <1>6, <1>7, <1>8

\* The replies under way.
LEMMA RepliesTyped ==
  ASSUME ServerTypes
  PROVE  \A i \in 1 .. Len(replies) : replies[i] \in [rid : Rid, res : Answer] /\ replies[i].rid \in Rid
<1>1. \A i \in 1 .. Len(replies) : replies[i] \in [rid : Rid, res : Answer]
  BY ElementOfSeq DEF ServerTypes
<1> QED BY <1>1

LEMMA FirstReply ==
  ASSUME ServerTypes, replies # <<>>
  PROVE  /\ Head(replies) = replies[1] /\ 1 \in 1 .. Len(replies)
         /\ Head(replies) \in [rid : Rid, res : Answer]
<1>1. replies \in Seq([rid : Rid, res : Answer])
  BY DEF ServerTypes
<1>2. Len(replies) \in Nat /\ Len(replies) # 0
  BY <1>1, LenProperties, EmptySeq
<1>3. Head(replies) = replies[1]
  BY <1>1, <1>2
<1> QED BY <1>2, <1>3, RepliesTyped

\* The receive loop gives a reply to its call, or wakes up all of them.
LEMMA RecvKept ==
  ASSUME MIInv, recvReply \/ recvEof, UNCHANGED procVars
  PROVE  ClientTypes' /\ CallsInv' /\ ThreadsGoOn /\ replies' \in Seq([rid : Rid, res : Answer])
<1> USE DEF MIInv, Types, CallsInv
<1>1. UNCHANGED <<thr, rid, req, fds, out, sendQ, send, hnd, proc>>
  BY DEF recvReply, recvEof, sendVars, serverVars, procVars
<1>2. /\ cell' \in [Rid -> Answer] /\ outstanding' \subseteq outstanding
      /\ recv' \in {"load", "dead"}
      /\ \A r \in Rid : \/ r \in outstanding' /\ cell'[r] = cell[r]
                        \/ r \notin outstanding /\ r \notin outstanding' /\ cell'[r] = cell[r]
                        \/ /\ r \in outstanding /\ r \notin outstanding' /\ cell'[r] # NoVal
                           /\ cell'[r] \in {Exc, hnd[r].res}
  <2>1. CASE recvReply
    <3>1. PICK m : m = Head(replies)
      OBVIOUS
    <3>2. m = replies[1] /\ m \in [rid : Rid, res : Answer] /\ 1 \in 1 .. Len(replies)
      BY <2>1, <3>1, FirstReply DEF recvReply
    <3>3. m.rid \in Rid /\ m.res \in Answer /\ m.res = hnd[m.rid].res /\ m.res # NoVal
      BY <3>2 DEF AnswerInv
    <3>4. /\ cell' = IF m.rid \in outstanding THEN [cell EXCEPT ![m.rid] = m.res] ELSE cell
          /\ outstanding' = outstanding \ {m.rid} /\ recv' = recv
      BY <2>1, <3>1 DEF recvReply
    <3> QED BY <3>3, <3>4 DEF ClientTypes
  <2>2. CASE recvEof
    <3>1. Exc \in Answer /\ Exc # NoVal
      BY DEF Exc, NoVal, Answer
    <3> QED BY <2>2, <3>1 DEF recvEof, ClientTypes
  <2> QED BY <2>1, <2>2
<1>3. /\ replies' \in Seq([rid : Rid, res : Answer])
      /\ \A i \in 1 .. Len(replies') : \E j \in 1 .. Len(replies) : replies'[i] = replies[j]
  <2>1. CASE recvReply
    <3>1. replies # <<>> /\ replies' = Tail(replies) /\ replies \in Seq([rid : Rid, res : Answer])
      BY <2>1 DEF recvReply, ServerTypes
    <3>2. /\ replies' \in Seq([rid : Rid, res : Answer]) /\ Len(replies') = Len(replies) - 1
          /\ \A i \in 1 .. Len(replies') : replies'[i] = replies[i + 1]
      BY <3>1, HeadTailProperties
    <3>3. Len(replies) \in Nat
      BY <3>1, LenProperties
    <3>4. \A i \in 1 .. Len(replies') : i + 1 \in 1 .. Len(replies)
      BY <3>2, <3>3
    <3> QED BY <3>2, <3>4
  <2>2. CASE recvEof
    BY <2>2 DEF recvEof, ServerTypes
  <2> QED BY <2>1, <2>2
<1>4. ClientTypes'
  BY <1>1, <1>2 DEF ClientTypes
<1>5. ThreadsGoOn
  BY <1>1 DEF ThreadsGoOn
<1>6. OwnerInv'
  <2>1. ASSUME NEW t \in Caller, thr[t].at \in {"try", "put", "read"}
        PROVE  thr[t].rid \in outstanding' \/ cell'[thr[t].rid] # NoVal
    <3>1. thr[t].rid \in Rid /\ (thr[t].rid \in outstanding \/ cell[thr[t].rid] # NoVal)
      BY <2>1 DEF OwnerInv, ClientTypes, InCall
    <3> QED BY <1>2, <3>1
  <2> QED BY <1>1, <1>2, <2>1 DEF OwnerInv
<1>7. SendInv'
  <2>1. \A r \in Rid : Unsent(r)' <=> Unsent(r)
    BY <1>1 DEF Unsent
  <2>2. ASSUME NEW r \in Rid, r >= rid PROVE cell'[r] = NoVal
    <3>1. out[r] # Exc
      BY <2>2 DEF SendInv, Exc, NoVal
    <3>2. r \notin outstanding
      BY <2>2, <3>1 DEF PipesOpen, OwnerInv, ClientTypes, Rid, NoRid
    <3> QED BY <1>2, <2>2, <3>2 DEF SendInv
  <2> QED BY <1>1, <2>1, <2>2 DEF SendInv
<1>8. AnswerInv'
  BY <1>1, <1>2, <1>3 DEF AnswerInv
<1>9. PipesOpen'
  BY <1>1, <1>2 DEF PipesOpen
<1> QED BY <1>3, <1>4, <1>5, <1>6, <1>7, <1>8, <1>9

\* The send loop takes an item from the queue: the server gets the request, or
\* the loop ends; or it drops the queue.
LEMMA SendKept ==
  ASSUME MIInv, sendLoop \/ dropQueue, UNCHANGED procVars
  PROVE  /\ ClientTypes' /\ CallsInv' /\ ThreadsGoOn
         /\ \/ hnd' = hnd
            \/ \E r \in Rid : /\ hnd[r].at = "none" /\ proc[r] = "none"
                              /\ hnd' = [hnd EXCEPT ![r].at = "new"]
<1> USE DEF MIInv, Types, CallsInv
<1>1. UNCHANGED <<thr, rid, req, outstanding, fds, cell, out, recv, replies, proc>>
  BY DEF sendLoop, dropQueue, clientVars, callVars, procVars
<1>0. CASE dropQueue
  <2>1. UNCHANGED <<sendQ, hnd>> /\ send' = "closed"
    BY <1>0 DEF dropQueue, serverVars
  <2>2. ClientTypes' /\ ThreadsGoOn
    BY <1>1, <2>1 DEF ClientTypes, ThreadsGoOn
  <2>3. OwnerInv' /\ SendInv' /\ AnswerInv' /\ PipesOpen'
    BY <1>1, <2>1 DEF OwnerInv, SendInv, Unsent, AnswerInv, PipesOpen
  <2> QED BY <2>1, <2>2, <2>3
<1> SUFFICES ASSUME sendLoop
             PROVE  /\ ClientTypes' /\ CallsInv' /\ ThreadsGoOn
                    /\ \/ hnd' = hnd
                       \/ \E r \in Rid : /\ hnd[r].at = "none" /\ proc[r] = "none"
                                         /\ hnd' = [hnd EXCEPT ![r].at = "new"]
  BY <1>0
<1>2. PICK v \in Rid \cup {Close} : sendQ = <<v>> /\ sendQ' = <<>> /\ v = Head(sendQ)
  BY DEF sendLoop, ClientTypes
<1>3. send' \in {"get", "closing", "dead"} /\ (send' = "get" => v # Close)
  BY <1>2 DEF sendLoop
<1>4. \/ hnd' = hnd
      \/ v \in Rid /\ hnd' = [hnd EXCEPT ![v].at = "new"]
  BY <1>2, <1>3 DEF sendLoop, serve
<1>5. v \in Rid => hnd[v].at = "none" /\ proc[v] = "none" /\ ~(v >= rid)
  BY <1>2 DEF SendInv, Unsent
<1>6. \A r \in Rid : /\ hnd'[r].res = hnd[r].res /\ (hnd'[r].at = "done" <=> hnd[r].at = "done")
                     /\ hnd[r].at = "none" /\ r # v => hnd'[r].at = "none"
  BY <1>4, <1>5 DEF ServerTypes
<1>7. ClientTypes'
  BY <1>1, <1>2, <1>3 DEF ClientTypes
<1>8. OwnerInv' /\ PipesOpen' /\ ThreadsGoOn
  BY <1>1 DEF OwnerInv, PipesOpen, ThreadsGoOn
<1>9. SendInv'
  <2>1. ASSUME NEW r \in Rid, Unsent(r)' PROVE Unsent(r) /\ r # v
    <3>1. r >= rid \/ \E t \in Caller : thr[t].at \in {"try", "put"} /\ thr[t].rid = r
      BY <1>1, <1>2, <2>1 DEF Unsent
    <3> QED BY <1>2, <1>5, <3>1 DEF Unsent, SendInv
  <2> QED BY <1>1, <1>2, <1>6, <2>1 DEF SendInv
<1>10. AnswerInv'
  <2>1. \A i \in 1 .. Len(replies) : replies[i].rid \in Rid
    BY RepliesTyped
  <2> QED BY <1>1, <1>6, <2>1 DEF AnswerInv
<1> QED BY <1>4, <1>5, <1>7, <1>8, <1>9, <1>10
-----------------------------------------------------------------------------
(***************************************************************************)
(* The client's steps leave the server's objects and processes alone.      *)
(***************************************************************************)
HandlerType == [at : HndPlace, obj : Rid \cup {NoRid}, id : Nat, res : Answer]

\* A handler stays where it is, or starts for a call that was just sent; a call
\* that was just made has no handler.
HandlersStay ==
  \A r \in Rid :
    /\ hnd'[r].res = hnd[r].res /\ hnd'[r].obj = hnd[r].obj /\ hnd'[r].id = hnd[r].id
    /\ hnd'[r].at = hnd[r].at \/ (hnd[r].at = "none" /\ hnd'[r].at = "new" /\ proc[r] = "none")
    /\ \/ req'[r] = req[r]
       \/ hnd'[r].at = "none" /\ hnd[r].at = "none" /\ \E t \in Caller : req'[r] = thr[t].req

LEMMA ObjectsKept ==
  ASSUME MIInv, HandlersStay, ThreadsGoOn, UNCHANGED <<procVars, oids, rConn, ps, tasks>>
  PROVE  ProcTypes' /\ OidInv' /\ TableInv' /\ WaitInv' /\ WaitExact'
<1> USE DEF MIInv, Types
<1>1. UNCHANGED <<proc, returncode, sig, dw, held, waitLock>>
  BY DEF procVars
<1>2. ProcTypes'
  BY <1>1 DEF ProcTypes
<1>3. OidInv'
  <2>1. ASSUME NEW r \in Rid
        PROVE  req'[r].oid \in DOMAIN oids /\ (req'[r].op # "poll" => hnd'[r].res.n \in DOMAIN oids)
    <3>1. CASE req'[r] = req[r]
      BY <3>1 DEF OidInv, HandlersStay
    <3>2. CASE hnd[r].at = "none" /\ \E t \in Caller : req'[r] = thr[t].req
      <4>1. hnd'[r].res = NoVal
        BY <3>2 DEF HandlersStay, CallsInv, AnswerInv
      <4> QED BY <3>2, <4>1 DEF OidInv, NoVal
    <3> QED BY <3>1, <3>2 DEF HandlersStay
  <2> QED BY <2>1 DEF OidInv, ThreadsGoOn
<1>4. TableInv'
  <2>1. {h \in Rid : hnd'[h].at = "done"} = {h \in Rid : hnd[h].at = "done"}
    BY DEF HandlersStay
  <2>2. \A r \in Rid : hnd'[r].at = "store" => hnd[r].at = "store"
    BY DEF HandlersStay
  <2> QED BY <2>1, <2>2 DEF TableInv, HandlersStay
<1>5. WaitInv'
  BY <1>1 DEF WaitInv, HandlersStay
<1>6. WaitExact'
  <2> SUFFICES ASSUME NEW h \in Rid, hnd'[h].at \in {"store", "done"}, hnd'[h].obj # NoRid,
                      req'[h].op \in {"runWait", "wait"}
               PROVE  /\ proc'[hnd'[h].obj] = "reaped"
                      /\ hnd'[h].res = Exc <=> returncode'[hnd'[h].obj] # 0
    BY DEF WaitExact
  <2>1. hnd[h].at \in {"store", "done"} /\ req'[h] = req[h] /\ hnd'[h].obj = hnd[h].obj /\ hnd'[h].res = hnd[h].res
    BY DEF HandlersStay
  <2> QED BY <1>1, <2>1 DEF WaitExact
<1> QED BY <1>2, <1>3, <1>4, <1>5, <1>6

\* Every step of the client's threads.
LEMMA ClientKept ==
  ASSUME MIInv, ClientStep, UNCHANGED <<procVars, mgrVars>>
  PROVE  MIInv'
<1> USE DEF MIInv, Types
<1>1. UNCHANGED <<tasks, phase, cur, step, failed, tstate, rConn, ps, interrupts>>
  BY DEF mgrVars, position
<1>2. MgrTypes'
  BY <1>1 DEF MgrTypes, TheHook
<1>3. UNCHANGED <<server, oids>>
  BY DEF ClientStep, Register, Refused, NoPut, Put, Read, Clean, CloseFds, sendLoop, dropQueue,
         recvReply, recvEof, serverVars
<1>4. /\ ClientTypes' /\ CallsInv' /\ ThreadsGoOn /\ HandlersStay
      /\ hnd' \in [Rid -> HandlerType] /\ replies' \in Seq([rid : Rid, res : Answer])
  <2>1. CASE \E t \in Caller : Register(t)
    <3>1. PICK t \in Caller : Register(t)
      BY <2>1
    <3>11. rid \in Rid /\ rid >= rid
      BY <3>1, RpcAssumption DEF Register, ClientTypes, Rid
    <3>2. rid \in Rid /\ hnd[rid].at = "none"
      BY <3>11 DEF CallsInv, SendInv, Unsent
    <3>3. UNCHANGED <<hnd, replies>> /\ req' = [req EXCEPT ![rid] = thr[t].req]
      BY <3>1 DEF Register, serverVars
    <3>4. HandlersStay
      BY <3>2, <3>3 DEF HandlersStay, ClientTypes
    <3> QED BY <3>1, <3>3, <3>4, RegisterKept DEF ServerTypes, HandlerType
  <2>2. CASE \E t \in Caller : ThreadStep(t)
    <3>1. PICK t \in Caller : ThreadStep(t)
      BY <2>2
    <3>2. UNCHANGED <<hnd, replies, req>>
      BY <3>1 DEF ThreadStep, Refused, NoPut, Put, Read, Clean, CloseFds, callVars, serverVars
    <3> QED BY <3>1, <3>2, ThreadKept DEF HandlersStay, ServerTypes, HandlerType
  <2>3. CASE recvReply \/ recvEof
    <3>1. UNCHANGED <<hnd, req>>
      BY <2>3 DEF recvReply, recvEof, serverVars
    <3> QED BY <2>3, <3>1, RecvKept DEF HandlersStay, ServerTypes, HandlerType
  <2>4. CASE sendLoop \/ dropQueue
    <3>1. UNCHANGED <<req, replies>>
      BY <2>4 DEF sendLoop, dropQueue, clientVars, callVars
    <3>2. CASE hnd' = hnd
      BY <2>4, <3>1, <3>2, SendKept DEF HandlersStay, ServerTypes, HandlerType
    <3>3. CASE \E r \in Rid : /\ hnd[r].at = "none" /\ proc[r] = "none"
                              /\ hnd' = [hnd EXCEPT ![r].at = "new"]
      <4>1. hnd' \in [Rid -> HandlerType] /\ HandlersStay
        BY <3>1, <3>3 DEF HandlersStay, ServerTypes, HandlerType, HndPlace
      <4> QED BY <2>4, <3>1, <4>1, SendKept DEF ServerTypes
    <3> QED BY <2>4, <3>2, <3>3, SendKept
  <2> QED BY <2>1, <2>2, <2>3, <2>4 DEF ClientStep, ThreadStep
<1>5. ServerTypes'
  BY <1>3, <1>4 DEF ServerTypes, HandlerType
<1>6. FlowInv'
  BY <1>1, <1>4, FlowStay
<1>7. ProcTypes' /\ OidInv' /\ TableInv' /\ WaitInv' /\ WaitExact'
  BY <1>1, <1>3, <1>4, ObjectsKept
<1> QED BY <1>2, <1>4, <1>5, <1>6, <1>7
-----------------------------------------------------------------------------
(***************************************************************************)
(* The server's handlers.                                                  *)
(***************************************************************************)
\* The handler h goes on to a place, or has its result and replies.
Placed(h, place, obj, id) ==
  /\ hnd' \in [Rid -> HandlerType] /\ \A q \in Rid \ {h} : hnd'[q] = hnd[q]
  /\ hnd'[h].at = place /\ hnd'[h].obj = obj /\ hnd'[h].id = id /\ hnd'[h].res = hnd[h].res
  /\ replies' = replies

Replied(h, res) ==
  /\ hnd' \in [Rid -> HandlerType] /\ \A q \in Rid \ {h} : hnd'[q] = hnd[q]
  /\ hnd'[h].at = "done" /\ hnd'[h].obj = hnd[h].obj /\ hnd'[h].id = hnd[h].id /\ hnd'[h].res = res
  /\ replies' = Append(replies, [rid |-> h, res |-> res])

LEMMA ReplyReplied ==
  ASSUME ServerTypes, NEW h \in Rid, NEW res \in Answer, Reply(h, res)
  PROVE  Replied(h, res)
<1>1. hnd \in [Rid -> HandlerType]
  BY DEF ServerTypes, HandlerType
<1>2. \A x \in HandlerType : [x EXCEPT !.at = "done"] \in HandlerType /\ [x EXCEPT !.res = res] \in HandlerType
  BY DEF HandlerType, HndPlace
<1>3. [hnd EXCEPT ![h].at = "done"] \in [Rid -> HandlerType]
  BY <1>1, <1>2
<1>4. hnd' = [[hnd EXCEPT ![h].at = "done"] EXCEPT ![h].res = res]
  BY DEF Reply
<1>5. hnd' \in [Rid -> HandlerType]
  BY <1>2, <1>3, <1>4
<1>6. /\ \A q \in Rid \ {h} : hnd'[q] = hnd[q]
      /\ hnd'[h].at = "done" /\ hnd'[h].obj = hnd[h].obj /\ hnd'[h].id = hnd[h].id /\ hnd'[h].res = res
  BY <1>1, <1>4 DEF HandlerType
<1> QED BY <1>5, <1>6 DEF Reply, Replied

LEMMA TableSize ==
  ASSUME ServerTypes, TableInv
  PROVE  /\ Cardinality(DOMAIN oids) \in Nat /\ Cardinality(DOMAIN oids) <= MaxRid + 1
         /\ IsFiniteSet(Rid)
<1>1. IsFiniteSet(Rid) /\ Cardinality(Rid) = MaxRid /\ MaxRid \in Nat
  <2>1. MaxRid \in Nat /\ MaxRid - 1 \in Int /\ 0 \in Int
    BY RpcAssumption
  <2>2. IsFiniteSet(0 .. MaxRid - 1) /\ Cardinality(0 .. MaxRid - 1) = IF 0 > MaxRid - 1 THEN 0 ELSE MaxRid - 1 - 0 + 1
    BY <2>1, FS_Interval
  <2> QED BY <2>1, <2>2, RpcAssumption DEF Rid
<1>2. Cardinality({h \in Rid : hnd[h].at = "done"}) <= MaxRid /\ Cardinality({h \in Rid : hnd[h].at = "done"}) \in Nat
  BY <1>1, FS_Subset, FS_CardinalityType
<1>3. Cardinality(DOMAIN oids) \in Nat
  BY FS_CardinalityType DEF ServerTypes
<1> QED BY <1>1, <1>2, <1>3 DEF TableInv

LEMMA ProxyPlaced ==
  ASSUME ServerTypes, TableInv, NEW h \in Rid, MakeProxy(h)
  PROVE  Placed(h, "store", hnd[h].obj, Cardinality(DOMAIN oids))
<1>1. hnd \in [Rid -> HandlerType] /\ replies' = replies
  BY DEF ServerTypes, HandlerType, MakeProxy
<1>2. PICK id \in Nat : id = Cardinality(DOMAIN oids)
  BY TableSize
<1>3. \A x \in HandlerType : [x EXCEPT !.at = "store"] \in HandlerType /\ [x EXCEPT !.id = id] \in HandlerType
  BY DEF HandlerType, HndPlace
<1>4. [hnd EXCEPT ![h].at = "store"] \in [Rid -> HandlerType]
  BY <1>1, <1>3
<1>5. hnd' = [[hnd EXCEPT ![h].at = "store"] EXCEPT ![h].id = id]
  BY <1>2 DEF MakeProxy
<1>6. hnd' \in [Rid -> HandlerType]
  BY <1>3, <1>4, <1>5
<1>7. /\ \A q \in Rid \ {h} : hnd'[q] = hnd[q]
      /\ hnd'[h].at = "store" /\ hnd'[h].obj = hnd[h].obj /\ hnd'[h].id = id /\ hnd'[h].res = hnd[h].res
  BY <1>1, <1>5 DEF HandlerType
<1> QED BY <1>1, <1>2, <1>6, <1>7 DEF Placed

\* A handler that is at work.
HandlerStep(h) ==
  /\ hnd[h].at \notin {"none", "done"}
  /\ \/ \E place \in {"popen", "wait", "waitpid", "store"} : \E obj, id : Placed(h, place, obj, id)
     \/ \E res \in Answer \ {NoVal} : Replied(h, res)

\* What it does to the table: its id and its result are good, and it adds its
\* own object at the most.
TableStep(h) ==
  /\ IsFiniteSet(DOMAIN oids') /\ DOMAIN oids' \subseteq Nat
  /\ oids' \in [DOMAIN oids' -> Object]
  /\ \/ DOMAIN oids' = DOMAIN oids
     \/ hnd'[h].at = "done" /\ \E o : DOMAIN oids' = DOMAIN oids \cup {o}
  /\ req[h].op # "poll" => hnd'[h].res.n \in DOMAIN oids'
  /\ hnd'[h].at = "store" => hnd'[h].id <= MaxRid + 1
  /\ hnd'[h].res # NoVal => hnd'[h].res \in Results

\* What it does to the processes: it starts its own, and reaps one that no
\* other handler is waiting for.
ProcsStep(h) ==
  /\ \A q \in Rid : /\ proc[q] = "none" /\ q # h => proc'[q] = "none"
                    /\ proc[q] = "reaped" => proc'[q] = "reaped" /\ returncode'[q] = returncode[q]
  /\ \A k \in Rid : k # h /\ hnd[k].at = "waitpid" /\ hnd[k].obj # NoRid =>
       waitLock'[hnd[k].obj] = waitLock[hnd[k].obj] /\ proc'[hnd[k].obj] # "reaped"

\* WaitInv and WaitExact for one handler.
WaitInvOf(h) ==
  /\ hnd[h].at \in {"none", "new", "popen"} => hnd[h].obj = NoRid
  /\ hnd[h].at \in {"new", "popen"} => proc[h] = "none"
  /\ hnd[h].at = "waitpid" /\ hnd[h].obj # NoRid =>
       waitLock[hnd[h].obj] = h /\ proc[hnd[h].obj] # "reaped"

WaitExactOf(h) ==
  /\ hnd[h].at \in {"store", "done"}
  /\ hnd[h].obj # NoRid /\ req[h].op \in {"runWait", "wait"}
  => /\ proc[hnd[h].obj] = "reaped"
     /\ hnd[h].res = Exc <=> returncode[hnd[h].obj] # 0

LEMMA HandlerCalls ==
  ASSUME MIInv, NEW h \in Rid, HandlerStep(h), ProcsStep(h), UNCHANGED <<clientVars, sendVars>>
  PROVE  CallsInv' /\ replies' \in Seq([rid : Rid, res : Answer]) /\ hnd' \in [Rid -> HandlerType]
<1> USE DEF MIInv, Types, CallsInv
<1>1. UNCHANGED <<thr, rid, req, outstanding, fds, cell, out, sendQ, send>>
  BY DEF clientVars, callVars, sendVars
<1>2. /\ hnd' \in [Rid -> HandlerType]
      /\ \A q \in Rid \ {h} : hnd'[q] = hnd[q]
      /\ hnd[h].at \notin {"none", "done"} /\ hnd[h].res = NoVal
      /\ \/ hnd'[h].at # "done" /\ hnd'[h].res = NoVal /\ replies' = replies
         \/ /\ hnd'[h].at = "done" /\ hnd'[h].res \in Answer \ {NoVal}
            /\ replies' = Append(replies, [rid |-> h, res |-> hnd'[h].res])
  BY DEF HandlerStep, Placed, Replied, AnswerInv
<1>3. replies \in Seq([rid : Rid, res : Answer]) /\ Len(replies) \in Nat
  BY LenProperties DEF ServerTypes
<1>4. /\ replies' \in Seq([rid : Rid, res : Answer])
      /\ \A i \in 1 .. Len(replies') :
           \/ i \in 1 .. Len(replies) /\ replies'[i] = replies[i]
           \/ hnd'[h].at = "done" /\ replies'[i] = [rid |-> h, res |-> hnd'[h].res]
  <2>1. CASE replies' = replies
    BY <1>3, <2>1
  <2>2. CASE hnd'[h].at = "done" /\ hnd'[h].res \in Answer /\ replies' = Append(replies, [rid |-> h, res |-> hnd'[h].res])
    <3>1. PICK m \in [rid : Rid, res : Answer] : m = [rid |-> h, res |-> hnd'[h].res]
      BY <2>2
    <3>2. replies' = Append(replies, m)
      BY <2>2, <3>1
    <3>3. /\ replies' \in Seq([rid : Rid, res : Answer]) /\ Len(replies') = Len(replies) + 1
          /\ \A i \in 1 .. Len(replies) : replies'[i] = replies[i]
          /\ replies'[Len(replies) + 1] = m
      BY <1>3, <3>2, AppendProperties
    <3>4. \A i \in 1 .. Len(replies') : i \in 1 .. Len(replies) \/ i = Len(replies) + 1
      BY <1>3, <3>3
    <3> QED BY <2>2, <3>1, <3>3, <3>4
  <2> QED BY <1>2, <2>1, <2>2
<1>5. OwnerInv' /\ PipesOpen'
  BY <1>1 DEF OwnerInv, PipesOpen
<1>6. SendInv'
  <2>1. \A r \in Rid : Unsent(r)' <=> Unsent(r)
    BY <1>1 DEF Unsent
  <2>2. ASSUME NEW r \in Rid, Unsent(r) PROVE hnd'[r].at = "none" /\ proc'[r] = "none"
    <3>1. hnd[r].at = "none" /\ proc[r] = "none"
      BY <2>2 DEF SendInv
    <3> QED BY <1>2, <3>1 DEF ProcsStep
  <2> QED BY <1>1, <2>1, <2>2 DEF SendInv
<1>7. AnswerInv'
  <2>1. ASSUME NEW r \in Rid
        PROVE  /\ hnd'[r].at = "done" <=> hnd'[r].res # NoVal
               /\ cell[r] \in {NoVal, Exc, hnd'[r].res} /\ out[r] \in {NoVal, Exc, hnd'[r].res}
    BY <1>2 DEF AnswerInv
  <2>2. ASSUME NEW i \in 1 .. Len(replies')
        PROVE  hnd'[replies'[i].rid].at = "done" /\ replies'[i].res = hnd'[replies'[i].rid].res
    <3>1. CASE i \in 1 .. Len(replies) /\ replies'[i] = replies[i]
      <4>1. replies[i].rid \in Rid /\ hnd[replies[i].rid].at = "done" /\ replies[i].res = hnd[replies[i].rid].res
        BY <3>1, RepliesTyped DEF AnswerInv
      <4> QED BY <1>2, <3>1, <4>1
    <3>2. CASE hnd'[h].at = "done" /\ replies'[i] = [rid |-> h, res |-> hnd'[h].res]
      BY <3>2
    <3> QED BY <1>4, <3>1, <3>2
  <2> QED BY <1>1, <2>1, <2>2 DEF AnswerInv
<1> QED BY <1>2, <1>4, <1>5, <1>6, <1>7
\* A step of one handler keeps the invariant when it keeps it for itself.
LEMMA HandlerKept ==
  ASSUME MIInv, NEW h \in Rid, HandlerStep(h), TableStep(h), ProcsStep(h),
         WaitInvOf(h)', WaitExactOf(h)', ProcTypes',
         UNCHANGED <<clientVars, sendVars, recv, server, mgrVars>>
  PROVE  MIInv'
<1> USE DEF MIInv, Types
<1>1. /\ UNCHANGED <<tasks, phase, cur, step, failed, tstate, rConn, ps, interrupts>>
      /\ UNCHANGED <<thr, rid, req, outstanding, fds, cell, out, sendQ, send>>
  BY DEF mgrVars, position, clientVars, callVars, sendVars
<1>2. /\ \A q \in Rid \ {h} : hnd'[q] = hnd[q]
      /\ hnd[h].at \notin {"none", "done"}
  BY DEF HandlerStep, Placed, Replied
<1>3. MgrTypes' /\ ClientTypes'
  BY <1>1 DEF MgrTypes, TheHook, ClientTypes
<1>4. FlowInv'
  BY <1>1, FlowStay DEF ThreadsGoOn
<1>5. CallsInv'
  BY HandlerCalls
<1>6. ServerTypes'
  BY HandlerCalls DEF ServerTypes, TableStep, HandlerType
<1>7. OidInv'
  <2>1. DOMAIN oids \subseteq DOMAIN oids'
    BY DEF TableStep
  <2>2. \A r \in Rid : req[r].op # "poll" => hnd'[r].res.n \in DOMAIN oids'
    BY <1>2, <2>1 DEF TableStep, OidInv
  <2> QED BY <1>1, <2>1, <2>2 DEF OidInv
<1>8. TableInv'
  <2> DEFINE D == {k \in Rid : hnd[k].at = "done"}
             E == {k \in Rid : hnd'[k].at = "done"}
  <2>1. IsFiniteSet(Rid) /\ IsFiniteSet(D) /\ IsFiniteSet(E) /\ D \subseteq E
    BY <1>2, TableSize, FS_Subset
  <2>2. Cardinality(D) \in Nat /\ Cardinality(E) \in Nat /\ Cardinality(DOMAIN oids) \in Nat
    BY <2>1, TableSize, FS_CardinalityType
  <2>3. Cardinality(DOMAIN oids) <= 1 + Cardinality(D)
    BY DEF TableInv
  <2>4. Cardinality(DOMAIN oids') <= 1 + Cardinality(E)
    <3>1. CASE DOMAIN oids' = DOMAIN oids
      <4>1. Cardinality(D) <= Cardinality(E)
        BY <2>1, FS_Subset
      <4> QED BY <2>2, <2>3, <3>1, <4>1
    <3>2. CASE hnd'[h].at = "done" /\ \E o : DOMAIN oids' = DOMAIN oids \cup {o}
      <4>1. E = D \cup {h} /\ h \notin D
        BY <1>2, <3>2
      <4>2. Cardinality(E) = Cardinality(D) + 1
        BY <2>1, <4>1, FS_AddElement
      <4>3. PICK o : DOMAIN oids' = DOMAIN oids \cup {o}
        BY <3>2
      <4>4. /\ Cardinality(DOMAIN oids') = Cardinality(DOMAIN oids)
               \/ Cardinality(DOMAIN oids') = Cardinality(DOMAIN oids) + 1
        BY <4>3, FS_AddElement DEF ServerTypes
      <4> QED BY <2>2, <2>3, <4>2, <4>4
    <3> QED BY <3>1, <3>2 DEF TableStep
  <2>5. ASSUME NEW r \in Rid
        PROVE  /\ hnd'[r].at = "store" => hnd'[r].id <= MaxRid + 1
               /\ hnd'[r].res # NoVal => hnd'[r].res \in Results
    BY <1>2 DEF TableStep, TableInv
  <2> QED BY <2>4, <2>5 DEF TableInv
<1>9. WaitInv'
  <2>1. ASSUME NEW k \in Rid, k # h PROVE WaitInvOf(k)'
    <3>1. hnd'[k] = hnd[k] /\ WaitInvOf(k)
      BY <1>2, <2>1 DEF WaitInv, WaitInvOf
    <3>2. proc[k] = "none" => proc'[k] = "none"
      BY <2>1 DEF ProcsStep
    <3>3. hnd[k].at = "waitpid" /\ hnd[k].obj # NoRid =>
            waitLock'[hnd[k].obj] = waitLock[hnd[k].obj] /\ proc'[hnd[k].obj] # "reaped"
      BY <2>1 DEF ProcsStep
    <3> QED BY <3>1, <3>2, <3>3 DEF WaitInvOf
  <2> QED BY <2>1 DEF WaitInv, WaitInvOf
<1>10. WaitExact'
  <2>1. ASSUME NEW k \in Rid, k # h PROVE WaitExactOf(k)'
    <3>1. hnd'[k] = hnd[k] /\ req'[k] = req[k] /\ WaitExactOf(k) /\ hnd[k].obj \in Rid \cup {NoRid}
      BY <1>1, <1>2, <2>1 DEF WaitExact, WaitExactOf, ServerTypes
    <3>2. hnd[k].obj # NoRid /\ proc[hnd[k].obj] = "reaped" =>
            proc'[hnd[k].obj] = "reaped" /\ returncode'[hnd[k].obj] = returncode[hnd[k].obj]
      BY <3>1 DEF ProcsStep
    <3> QED BY <3>1, <3>2 DEF WaitExactOf
  <2> QED BY <2>1 DEF WaitExact, WaitExactOf
<1> QED BY <1>3, <1>4, <1>5, <1>6, <1>7, <1>8, <1>9, <1>10
\* The values a method other than a proxy returns.
Plain(h, res) == res \in {Exc, Val(0)} \/ (res = Val(-1) /\ req[h].op = "poll")

\* A step that makes no object.
NoObject(h) ==
  /\ hnd[h].at \notin {"none", "done"} /\ oids' = oids
  /\ \/ \E place \in {"popen", "wait", "waitpid"} : \E obj, id : Placed(h, place, obj, id)
     \/ \E obj : Placed(h, "store", obj, Cardinality(DOMAIN oids))
     \/ \E res : Plain(h, res) /\ Replied(h, res)

LEMMA NoObjectKept ==
  ASSUME MIInv, NEW h \in Rid, NoObject(h)
  PROVE  HandlerStep(h) /\ TableStep(h)
<1> USE DEF MIInv, Types, CallsInv
<1>1. \A res : Plain(h, res) => /\ res \in Answer \ {NoVal} /\ res \in Results
                                /\ res.n = 0 \/ req[h].op = "poll"
  BY DEF Plain, Exc, Val, NoVal, Answer, Results
<1>2. HandlerStep(h)
  BY <1>1 DEF NoObject, HandlerStep
<1>3. hnd[h].res = NoVal /\ 0 \in DOMAIN oids /\ NoVal.n = 0
  BY DEF NoObject, AnswerInv, OidInv, NoVal
<1>4. hnd'[h].at = "store" => hnd'[h].id <= MaxRid + 1
  BY TableSize DEF NoObject, Placed, Replied
<1>5. /\ req[h].op # "poll" => hnd'[h].res.n \in DOMAIN oids
      /\ hnd'[h].res # NoVal => hnd'[h].res \in Results
  BY <1>1, <1>3 DEF NoObject, Placed, Replied
<1> QED BY <1>2, <1>4, <1>5 DEF TableStep, NoObject, ServerTypes

LEMMA NoProcKept ==
  ASSUME MIInv, NEW h \in Rid, UNCHANGED <<proc, returncode, waitLock>>
  PROVE  ProcsStep(h)
BY DEF MIInv, WaitInv, ProcsStep

\* The methods that have to do with no process but their own, before it starts.
LEMMA EarlyKept ==
  ASSUME MIInv, NEW h \in Rid, getUserRoot(h) \/ FileMethod(h) \/ run_pipe(h) \/ kill(h),
         UNCHANGED mgrVars
  PROVE  MIInv'
<1> USE DEF MIInv, Types
<1>1. /\ UNCHANGED <<clientVars, sendVars, recv, server, oids, proc, returncode, held, waitLock, req>>
      /\ hnd[h].at = "new" /\ hnd[h].obj = NoRid /\ proc[h] = "none"
  BY DEF getUserRoot, FileMethod, run_pipe, kill, procVars, clientVars, callVars, Called, WaitInv
<1>2. ProcTypes'
  <2>1. dw' \subseteq Rid
    BY DEF getUserRoot, FileMethod, run_pipe, kill, procVars, ProcTypes
  <2>2. sig' \subseteq Rid \cup {NoRid}
    <3>1. CASE kill(h)
      <4>1. req[h].oid \in DOMAIN oids
        BY DEF OidInv
      <4>2. Target(h) \in Object
        BY <4>1 DEF Target, ServerTypes
      <4> QED BY <3>1, <4>2 DEF kill, Object, ProcTypes
    <3> QED BY <3>1 DEF getUserRoot, FileMethod, run_pipe, procVars, ProcTypes
  <2> QED BY <1>1, <2>1, <2>2 DEF ProcTypes
<1>3. \/ Placed(h, "store", NoRid, Cardinality(DOMAIN oids))
      \/ \E id : Placed(h, "popen", NoRid, id)
      \/ \E res \in {Exc, Val(0)} : Replied(h, res)
  <2>0. Exc \in Answer /\ Val(0) \in Answer
    BY DEF Exc, Val, Answer
  <2>1. CASE getUserRoot(h)
    BY <1>1, <2>1, ProxyPlaced DEF getUserRoot
  <2>2. CASE FileMethod(h)
    BY <2>0, <2>2, ReplyReplied DEF FileMethod
  <2>3. CASE kill(h)
    BY <2>0, <2>3, ReplyReplied DEF kill
  <2>4. CASE run_pipe(h)
    <3>1. CASE Reply(h, Exc)
      BY <2>0, <3>1, ReplyReplied
    <3>2. CASE hnd' = [hnd EXCEPT ![h].at = "popen"] /\ UNCHANGED replies
      BY <1>1, <3>2 DEF Placed, ServerTypes, HandlerType, HndPlace
    <3> QED BY <2>4, <3>1, <3>2 DEF run_pipe
  <2> QED BY <2>1, <2>2, <2>3, <2>4
<1>4. NoObject(h)
  BY <1>1, <1>3 DEF NoObject, Plain
<1>5. hnd'[h].at \in {"store", "popen", "done"} /\ hnd'[h].obj = NoRid
  BY <1>1, <1>3 DEF Placed, Replied
<1>6. WaitInvOf(h)' /\ WaitExactOf(h)'
  BY <1>1, <1>5 DEF WaitInvOf, WaitExactOf
<1>7. ProcsStep(h)
  BY <1>1, NoProcKept
<1>8. HandlerStep(h) /\ TableStep(h)
  BY <1>4, NoObjectKept
<1> QED BY <1>1, <1>2, <1>6, <1>7, <1>8, HandlerKept
\* Popen.
LEMMA PopenKept ==
  ASSUME MIInv, NEW h \in Rid, run_popen(h), UNCHANGED mgrVars
  PROVE  MIInv'
<1> USE DEF MIInv, Types
<1>1. /\ UNCHANGED <<clientVars, sendVars, recv, server, oids, returncode, sig, waitLock, req>>
      /\ hnd[h].at = "popen" /\ hnd[h].obj = NoRid /\ proc[h] = "none"
      /\ proc \in [Rid -> {"none", "live", "zombie", "reaped"}] /\ h # NoRid
  BY DEF run_popen, clientVars, callVars, WaitInv, ProcTypes, Rid, NoRid
<1>2. proc' = proc \/ proc' = [proc EXCEPT ![h] = "live"]
  BY DEF run_popen
<1>3. ProcTypes'
  BY <1>1 DEF run_popen, ProcTypes
<1>4. ProcsStep(h)
  BY <1>1, <1>2 DEF ProcsStep, WaitInv, ServerTypes
<1>5. \/ Replied(h, Exc)
      \/ \E id : Placed(h, "wait", h, id)
      \/ Placed(h, "store", NoRid, Cardinality(DOMAIN oids))
  <2>1. CASE Reply(h, Exc)
    BY <2>1, ReplyReplied DEF Exc, Answer
  <2>2. CASE MakeProxy(h)
    BY <1>1, <2>2, ProxyPlaced
  <2>3. CASE hnd' = [hnd EXCEPT ![h].at = "wait", ![h].obj = h] /\ UNCHANGED replies
    <3>1. hnd \in [Rid -> HandlerType]
      BY DEF ServerTypes, HandlerType
    <3>2. \A x \in HandlerType : [x EXCEPT !.at = "wait"] \in HandlerType /\ [x EXCEPT !.obj = h] \in HandlerType
      BY DEF HandlerType, HndPlace
    <3>3. [hnd EXCEPT ![h].at = "wait"] \in [Rid -> HandlerType]
      BY <3>1, <3>2
    <3>4. hnd' = [[hnd EXCEPT ![h].at = "wait"] EXCEPT ![h].obj = h]
      BY <2>3
    <3>5. hnd' \in [Rid -> HandlerType]
      BY <3>2, <3>3, <3>4
    <3>6. /\ \A q \in Rid \ {h} : hnd'[q] = hnd[q]
          /\ hnd'[h].at = "wait" /\ hnd'[h].obj = h /\ hnd'[h].id = hnd[h].id /\ hnd'[h].res = hnd[h].res
      BY <3>1, <3>4 DEF HandlerType
    <3> QED BY <2>3, <3>5, <3>6 DEF Placed
  <2> QED BY <2>1, <2>2, <2>3 DEF run_popen
<1>6. NoObject(h)
  BY <1>1, <1>5 DEF NoObject, Plain
<1>7. WaitInvOf(h)' /\ WaitExactOf(h)'
  <2>1. hnd'[h].at = "wait" \/ (hnd'[h].at \in {"done", "store"} /\ hnd'[h].obj = NoRid)
    BY <1>1, <1>5 DEF Placed, Replied
  <2> QED BY <2>1 DEF WaitInvOf, WaitExactOf
<1> QED BY <1>1, <1>3, <1>4, <1>6, <1>7, NoObjectKept, HandlerKept

\* wait begins with its object.
LEMMA EnterKept ==
  ASSUME MIInv, NEW h \in Rid, wait_enter(h), UNCHANGED mgrVars
  PROVE  MIInv'
<1> USE DEF MIInv, Types
<1>1. /\ UNCHANGED <<clientVars, sendVars, recv, server, oids, procVars, replies, proc, returncode, waitLock>>
      /\ hnd[h].at = "new"
  BY DEF wait_enter, procVars, Called
<1>2. PICK p \in Rid \cup {NoRid} : p = Target(h).p
  <2>1. Target(h) \in Object
    BY DEF Target, ServerTypes, OidInv
  <2> QED BY <2>1 DEF Object
<1>3. \E id : Placed(h, "wait", p, id)
  <2>1. hnd \in [Rid -> HandlerType]
    BY DEF ServerTypes, HandlerType
  <2>2. \A x \in HandlerType : [x EXCEPT !.at = "wait"] \in HandlerType /\ [x EXCEPT !.obj = p] \in HandlerType
    BY DEF HandlerType, HndPlace
  <2>3. [hnd EXCEPT ![h].at = "wait"] \in [Rid -> HandlerType]
    BY <2>1, <2>2
  <2>4. hnd' = [[hnd EXCEPT ![h].at = "wait"] EXCEPT ![h].obj = p]
    BY <1>2 DEF wait_enter
  <2>5. hnd' \in [Rid -> HandlerType]
    BY <2>2, <2>3, <2>4
  <2>6. /\ \A q \in Rid \ {h} : hnd'[q] = hnd[q]
        /\ hnd'[h].at = "wait" /\ hnd'[h].obj = p /\ hnd'[h].id = hnd[h].id /\ hnd'[h].res = hnd[h].res
    BY <2>1, <2>4 DEF HandlerType
  <2> QED BY <1>1, <2>5, <2>6 DEF Placed
<1>4. NoObject(h)
  BY <1>1, <1>3 DEF NoObject
<1>5. WaitInvOf(h)' /\ WaitExactOf(h)'
  BY <1>3 DEF Placed, WaitInvOf, WaitExactOf
<1>6. ProcTypes'
  BY <1>1 DEF ProcTypes, procVars
<1>7. ProcsStep(h)
  BY <1>1, NoProcKept
<1>8. HandlerStep(h) /\ TableStep(h)
  BY <1>4, NoObjectKept
<1> QED BY <1>1, <1>5, <1>6, <1>7, <1>8, HandlerKept
\* What wait does with an exit code.
LEMMA CheckedStep ==
  ASSUME MIInv, NEW h \in Rid, NEW c, Checked(h, c), hnd[h].at \notin {"none", "done"}, oids' = oids
  PROVE  /\ NoObject(h) /\ hnd'[h].at \in {"store", "done"} /\ hnd'[h].obj = hnd[h].obj
         /\ hnd'[h].res = Exc <=> c # 0
<1> USE DEF MIInv, Types, CallsInv
<1>1. hnd[h].res = NoVal /\ NoVal # Exc /\ Val(0) # Exc /\ Exc \in Answer /\ Val(0) \in Answer
  BY DEF AnswerInv, NoVal, Exc, Val, Answer
<1>2. CASE c = 0 /\ req[h].op \in RunOps
  <2>1. Placed(h, "store", hnd[h].obj, Cardinality(DOMAIN oids))
    BY <1>2, ProxyPlaced DEF Checked
  <2> QED BY <1>1, <1>2, <2>1 DEF NoObject, Placed
<1>3. CASE ~(c = 0 /\ req[h].op \in RunOps)
  <2>1. PICK v : v = (IF c = 0 THEN Val(0) ELSE Exc) /\ Reply(h, v)
    BY <1>3 DEF Checked
  <2>2. Replied(h, v)
    BY <1>1, <2>1, ReplyReplied
  <2> QED BY <1>1, <2>1, <2>2 DEF NoObject, Replied, Plain
<1> QED BY <1>2, <1>3

\* A process is reaped that no other handler waits for.
LEMMA ReapStep ==
  ASSUME MIInv, NEW h \in Rid, NEW p \in Rid \cup {NoRid}, p = hnd[h].obj, proc[p] = "zombie", Reap(h, p),
         \A k \in Rid : k # h /\ hnd[k].at = "waitpid" /\ hnd[k].obj # NoRid => hnd[k].obj # p,
         hnd[h].at \notin {"none", "new", "popen", "done"}, oids' = oids, req' = req,
         waitLock' = waitLock \/ waitLock' = [waitLock EXCEPT ![p] = NoRid]
  PROVE  /\ NoObject(h) /\ ProcsStep(h) /\ WaitInvOf(h)' /\ WaitExactOf(h)'
         /\ proc' \in [Rid -> {"none", "live", "zombie", "reaped"}] /\ returncode' \in [Rid -> {0, 1}]
         /\ waitLock' \in [Rid -> Rid \cup {NoRid}]
<1> USE DEF MIInv, Types
<1>1. PICK c \in {0, 1} : returncode' = [returncode EXCEPT ![p] = c] /\ Checked(h, c)
  BY DEF Reap
<1>2. proc' = [proc EXCEPT ![p] = "reaped"]
  BY DEF Reap
<1>3. /\ proc \in [Rid -> {"none", "live", "zombie", "reaped"}] /\ returncode \in [Rid -> {0, 1}]
      /\ waitLock \in [Rid -> Rid \cup {NoRid}]
  BY DEF ProcTypes
<1>4. /\ proc' \in [Rid -> {"none", "live", "zombie", "reaped"}] /\ returncode' \in [Rid -> {0, 1}]
      /\ waitLock' \in [Rid -> Rid \cup {NoRid}]
  BY <1>1, <1>2, <1>3
<1>5. /\ NoObject(h) /\ hnd'[h].at \in {"store", "done"} /\ hnd'[h].obj = p
      /\ hnd'[h].res = Exc <=> c # 0
  BY <1>1, CheckedStep
<1>6. \A q \in Rid : q # p => proc'[q] = proc[q] /\ returncode'[q] = returncode[q] /\ waitLock'[q] = waitLock[q]
  BY <1>1, <1>2, <1>3
<1>7. p # NoRid => proc'[p] = "reaped" /\ returncode'[p] = c
  BY <1>1, <1>2, <1>3
<1>8. WaitInvOf(h)' /\ WaitExactOf(h)'
  BY <1>5, <1>7 DEF WaitInvOf, WaitExactOf
<1>9. ProcsStep(h)
  <2>1. \A q \in Rid : /\ proc[q] = "none" /\ q # h => proc'[q] = "none"
                       /\ proc[q] = "reaped" => proc'[q] = "reaped" /\ returncode'[q] = returncode[q]
    BY <1>6
  <2>2. ASSUME NEW k \in Rid, k # h, hnd[k].at = "waitpid", hnd[k].obj # NoRid
        PROVE  waitLock'[hnd[k].obj] = waitLock[hnd[k].obj] /\ proc'[hnd[k].obj] # "reaped"
    <3>1. hnd[k].obj \in Rid /\ hnd[k].obj # p /\ proc[hnd[k].obj] # "reaped"
      BY <2>2 DEF ServerTypes, WaitInv
    <3> QED BY <1>6, <3>1
  <2> QED BY <2>1, <2>2 DEF ProcsStep
<1> QED BY <1>4, <1>5, <1>8, <1>9

\* Under the waitLock.
LEMMA LockedKept ==
  ASSUME MIInv, NEW h \in Rid, wait_locked(h), UNCHANGED mgrVars
  PROVE  MIInv'
<1> USE DEF MIInv, Types
<1>1. /\ UNCHANGED <<clientVars, sendVars, recv, server, oids, sig, dw, held, req>>
      /\ hnd[h].at = "wait"
  BY DEF wait_locked, clientVars, callVars
<1>2. PICK p \in Rid \cup {NoRid} : p = hnd[h].obj
  BY DEF ServerTypes
<1>3. /\ proc \in [Rid -> {"none", "live", "zombie", "reaped"}] /\ returncode \in [Rid -> {0, 1}]
      /\ waitLock \in [Rid -> Rid \cup {NoRid}] /\ NoRid \notin Rid /\ hnd \in [Rid -> HandlerType]
  BY DEF ProcTypes, Rid, NoRid, ServerTypes, HandlerType
<1>4. waitLock[p] = NoRid
  BY <1>2 DEF wait_locked, WaitLockFree
<1>5. \A k \in Rid : hnd[k].at = "waitpid" /\ hnd[k].obj # NoRid => hnd[k].obj # p
  BY <1>3, <1>4 DEF WaitInv
<1>6. CASE proc[p] = "reaped" /\ Checked(h, returncode[p]) /\ UNCHANGED <<proc, returncode, waitLock>>
  <2>1. /\ NoObject(h) /\ hnd'[h].at \in {"store", "done"} /\ hnd'[h].obj = p
        /\ hnd'[h].res = Exc <=> returncode[p] # 0
    BY <1>1, <1>2, <1>6, CheckedStep
  <2>2. WaitInvOf(h)' /\ WaitExactOf(h)' /\ ProcTypes'
    BY <1>1, <1>6, <2>1 DEF WaitInvOf, WaitExactOf, ProcTypes
  <2>3. ProcsStep(h) /\ HandlerStep(h) /\ TableStep(h)
    BY <1>6, <2>1, NoProcKept, NoObjectKept
  <2> QED BY <1>1, <2>2, <2>3, HandlerKept
<1>7. CASE proc[p] = "zombie" /\ req[h].op = "poll" /\ Reap(h, p) /\ UNCHANGED waitLock
  <2>1. /\ NoObject(h) /\ ProcsStep(h) /\ WaitInvOf(h)' /\ WaitExactOf(h)'
        /\ proc' \in [Rid -> {"none", "live", "zombie", "reaped"}] /\ returncode' \in [Rid -> {0, 1}]
        /\ waitLock' \in [Rid -> Rid \cup {NoRid}]
    BY <1>1, <1>2, <1>5, <1>7, ReapStep
  <2>2. ProcTypes' /\ HandlerStep(h) /\ TableStep(h)
    BY <1>1, <2>1, NoObjectKept DEF ProcTypes
  <2> QED BY <1>1, <2>1, <2>2, HandlerKept
<1>8. CASE req[h].op = "poll" /\ Reply(h, Val(-1)) /\ UNCHANGED <<proc, returncode, waitLock>>
  <2>1. Replied(h, Val(-1))
    BY <1>8, ReplyReplied DEF Val, Answer
  <2>2. NoObject(h)
    BY <1>1, <1>8, <2>1 DEF NoObject, Plain
  <2>3. WaitInvOf(h)' /\ WaitExactOf(h)' /\ ProcTypes'
    BY <1>1, <1>8, <2>1 DEF WaitInvOf, WaitExactOf, ProcTypes, Replied
  <2>4. ProcsStep(h) /\ HandlerStep(h) /\ TableStep(h)
    BY <1>8, <2>2, NoProcKept, NoObjectKept
  <2> QED BY <1>1, <2>3, <2>4, HandlerKept
<1>9. CASE /\ proc[p] # "reaped" /\ waitLock' = [waitLock EXCEPT ![p] = h]
           /\ hnd' = [hnd EXCEPT ![h].at = "waitpid"] /\ UNCHANGED <<proc, returncode, replies>>
  <2>1. Placed(h, "waitpid", p, hnd[h].id)
    BY <1>2, <1>3, <1>9 DEF Placed, HandlerType, HndPlace
  <2>2. NoObject(h)
    BY <1>1, <2>1 DEF NoObject
  <2>3. ProcTypes'
    BY <1>1, <1>3, <1>9 DEF ProcTypes
  <2>4. WaitInvOf(h)' /\ WaitExactOf(h)'
    BY <1>3, <1>9, <2>1 DEF WaitInvOf, WaitExactOf, Placed
  <2>5. ProcsStep(h)
    BY <1>3, <1>5, <1>9 DEF ProcsStep, WaitInv, HandlerType
  <2> QED BY <1>1, <2>2, <2>3, <2>4, <2>5, NoObjectKept, HandlerKept
<1> QED BY <1>2, <1>6, <1>7, <1>8, <1>9 DEF wait_locked
\* waitpid returns.
LEMMA WaitpidKept ==
  ASSUME MIInv, NEW h \in Rid, wait_waitpid(h), UNCHANGED mgrVars
  PROVE  MIInv'
<1> USE DEF MIInv, Types
<1>1. /\ UNCHANGED <<clientVars, sendVars, recv, server, oids, sig, held, req>>
      /\ hnd[h].at = "waitpid"
  BY DEF wait_waitpid, clientVars, callVars
<1>2. PICK p \in Rid \cup {NoRid} : p = hnd[h].obj
  BY DEF ServerTypes
<1>3. /\ dw' = dw \ {p} /\ waitLock' = [waitLock EXCEPT ![p] = NoRid]
      /\ proc \in [Rid -> {"none", "live", "zombie", "reaped"}] /\ returncode \in [Rid -> {0, 1}]
      /\ waitLock \in [Rid -> Rid \cup {NoRid}] /\ NoRid \notin Rid
      /\ \A k \in Rid : hnd[k].obj \in Rid \cup {NoRid}
  BY <1>2 DEF wait_waitpid, ReleaseWaitLock, ProcTypes, Rid, NoRid, ServerTypes
<1>4. \A k \in Rid : k # h /\ hnd[k].at = "waitpid" /\ hnd[k].obj # NoRid => hnd[k].obj # p
  BY <1>1, <1>2 DEF WaitInv
<1>5. CASE proc[p] = "zombie" /\ Reap(h, p)
  <2>1. /\ NoObject(h) /\ ProcsStep(h) /\ WaitInvOf(h)' /\ WaitExactOf(h)'
        /\ proc' \in [Rid -> {"none", "live", "zombie", "reaped"}] /\ returncode' \in [Rid -> {0, 1}]
        /\ waitLock' \in [Rid -> Rid \cup {NoRid}]
    BY <1>1, <1>2, <1>3, <1>4, <1>5, ReapStep
  <2>2. ProcTypes'
    BY <1>1, <1>3, <2>1 DEF ProcTypes
  <2>3. HandlerStep(h) /\ TableStep(h)
    BY <2>1, NoObjectKept
  <2> QED BY <1>1, <2>1, <2>2, <2>3, HandlerKept
<1>6. CASE proc[p] = "reaped" /\ Reply(h, Exc) /\ UNCHANGED <<proc, returncode>>
  <2>1. p = NoRid
    BY <1>1, <1>2, <1>6 DEF WaitInv
  <2>2. waitLock' = waitLock
    BY <1>3, <2>1
  <2>3. Replied(h, Exc)
    BY <1>6, ReplyReplied DEF Exc, Answer
  <2>4. NoObject(h)
    BY <1>1, <2>3 DEF NoObject, Plain
  <2>5. WaitInvOf(h)' /\ WaitExactOf(h)'
    BY <1>2, <2>1, <2>3 DEF WaitInvOf, WaitExactOf, Replied
  <2>6. ProcTypes'
    BY <1>1, <1>3, <1>6, <2>2 DEF ProcTypes
  <2>7. ProcsStep(h) /\ HandlerStep(h) /\ TableStep(h)
    BY <1>6, <2>2, <2>4, NoProcKept, NoObjectKept
  <2> QED BY <1>1, <2>5, <2>6, <2>7, HandlerKept
<1> QED BY <1>2, <1>5, <1>6 DEF wait_waitpid

\* An object is stored under its id.
LEMMA StoreKept ==
  ASSUME MIInv, NEW h \in Rid, Store(h), UNCHANGED <<procVars, mgrVars>>
  PROVE  MIInv'
<1> USE DEF MIInv, Types, CallsInv
<1>1. /\ UNCHANGED <<clientVars, sendVars, recv, server, req, proc, returncode, waitLock>>
      /\ hnd[h].at = "store" /\ hnd[h].res = NoVal
  BY DEF Store, clientVars, callVars, procVars, AnswerInv
<1>2. PICK id \in Nat : id = hnd[h].id
  BY DEF ServerTypes
<1>3. id \in 0 .. MaxRid + 1
  BY <1>1, <1>2, RpcAssumption DEF TableInv
<1>4. Proxy(id) \in Answer /\ Proxy(id) # NoVal /\ Proxy(id) # Exc /\ Proxy(id).n = id /\ Proxy(id) \in Results
  BY <1>3 DEF Proxy, Answer, NoVal, Exc, Results
<1>5. Replied(h, Proxy(id))
  BY <1>2, <1>4, ReplyReplied DEF Store
<1>6. HandlerStep(h)
  BY <1>1, <1>4, <1>5 DEF HandlerStep
<1>7. PICK obj \in Object : oids' = [o \in DOMAIN oids \cup {id} |-> IF o = id THEN obj ELSE oids[o]]
  <2>1. UserRoot \in Object /\ [cls |-> "proc", p |-> h] \in Object
    BY DEF UserRoot, Object
  <2> QED BY <1>2, <2>1 DEF Store
<1>8. /\ DOMAIN oids' = DOMAIN oids \cup {id} /\ oids' \in [DOMAIN oids' -> Object]
      /\ DOMAIN oids' \subseteq Nat
  BY <1>7 DEF ServerTypes
<1>9. IsFiniteSet(DOMAIN oids')
  BY <1>8, FS_AddElement DEF ServerTypes
<1>10. TableStep(h)
  <2>1. hnd'[h].at = "done" /\ hnd'[h].res = Proxy(id)
    BY <1>5 DEF Replied
  <2> QED BY <1>4, <1>8, <1>9, <2>1 DEF TableStep
<1>11. WaitInvOf(h)' /\ WaitExactOf(h)'
  <2>1. hnd'[h].at = "done" /\ hnd'[h].res = Proxy(id) /\ hnd'[h].obj = hnd[h].obj
    BY <1>5 DEF Replied
  <2>2. hnd[h].obj # NoRid /\ req[h].op \in {"runWait", "wait"} =>
          proc[hnd[h].obj] = "reaped" /\ ~(returncode[hnd[h].obj] # 0)
    <3>1. NoVal # Exc
      BY DEF NoVal, Exc
    <3> QED BY <1>1, <3>1 DEF WaitExact
  <2> QED BY <1>1, <1>4, <2>1, <2>2 DEF WaitInvOf, WaitExactOf
<1>12. ProcTypes' /\ ProcsStep(h)
  BY <1>1, NoProcKept DEF ProcTypes, procVars
<1> QED BY <1>1, <1>6, <1>10, <1>11, <1>12, HandlerKept

\* A process ends.
LEMMA EndsKept ==
  ASSUME MIInv, NEW p \in Rid, proc[p] = "live", Ends(p), UNCHANGED mgrVars
  PROVE  MIInv'
<1> USE DEF MIInv, Types
<1>1. /\ UNCHANGED <<tasks, phase, cur, step, failed, tstate, rConn, ps, interrupts>>
      /\ UNCHANGED <<thr, rid, req, outstanding, fds, cell, out, sendQ, send, recv, replies, server, hnd, oids>>
      /\ UNCHANGED <<returncode, sig, dw, waitLock>>
  BY DEF mgrVars, position, Ends, rpcVars, clientVars, callVars, sendVars, serverVars
<1>2. /\ proc' \in [Rid -> {"none", "live", "zombie", "reaped"}]
      /\ proc'[p] = "zombie" /\ \A q \in Rid : q # p => proc'[q] = proc[q]
      /\ held' \in [Rid -> SUBSET Rid]
  BY DEF Ends, ProcTypes
<1>3. MgrTypes' /\ ClientTypes' /\ ServerTypes'
  BY <1>1 DEF MgrTypes, TheHook, ClientTypes, ServerTypes
<1>4. ProcTypes'
  BY <1>1, <1>2 DEF ProcTypes
<1>5. FlowInv'
  BY <1>1, FlowStay DEF ThreadsGoOn
<1>6. OwnerInv' /\ AnswerInv' /\ PipesOpen'
  BY <1>1 DEF CallsInv, OwnerInv, AnswerInv, PipesOpen
<1>7. SendInv'
  <2>1. \A r \in Rid : Unsent(r)' <=> Unsent(r)
    BY <1>1 DEF Unsent
  <2> QED BY <1>1, <1>2, <2>1 DEF CallsInv, SendInv
<1>8. OidInv' /\ TableInv'
  BY <1>1 DEF OidInv, TableInv
<1>9. WaitInv' /\ WaitExact'
  <2>1. \A h \in Rid : hnd[h].obj \in Rid \cup {NoRid}
    BY DEF ServerTypes
  <2> QED BY <1>1, <1>2, <2>1 DEF WaitInv, WaitExact
<1> QED BY <1>3, <1>4, <1>5, <1>6, <1>7, <1>8, <1>9 DEF CallsInv
\* The server is gone, and with it the work of its handlers.
LEMMA HostEndsKept ==
  ASSUME MIInv, HostEnds, UNCHANGED mgrVars
  PROVE  MIInv'
<1> USE DEF MIInv, Types
<1>1. /\ UNCHANGED <<tasks, phase, cur, step, failed, tstate, rConn, ps, interrupts>>
      /\ UNCHANGED <<thr, rid, req, outstanding, fds, cell, out, sendQ, send, recv, oids>>
      /\ UNCHANGED <<proc, returncode, sig, held>> /\ dw' = {} /\ server' = "down"
      /\ waitLock' = [p \in Rid |-> NoRid]
  BY DEF mgrVars, position, HostEnds, ServerEnds, clientVars, callVars, sendVars
<1>2. /\ hnd' \in [Rid -> HandlerType]
      /\ \A h \in Rid : \/ hnd[h].at = "done" /\ hnd'[h] = hnd[h]
                        \/ /\ hnd[h].at # "done" /\ hnd'[h].at = "none" /\ hnd'[h].obj = NoRid
                           /\ hnd'[h].res = NoVal
  <2>1. Thread("none") \in HandlerType
    BY DEF Thread, HandlerType, HndPlace, NoVal, Answer
  <2>2. Thread("none").at = "none" /\ Thread("none").obj = NoRid /\ Thread("none").res = NoVal
    BY DEF Thread
  <2>3. hnd' = [h \in Rid |-> IF hnd[h].at = "done" THEN hnd[h] ELSE Thread("none")] /\ hnd \in [Rid -> HandlerType]
    BY DEF HostEnds, ServerEnds, ServerTypes, HandlerType
  <2> QED BY <2>1, <2>2, <2>3
<1>3. /\ replies' \in Seq([rid : Rid, res : Answer])
      /\ \A i \in 1 .. Len(replies') : i \in 1 .. Len(replies) /\ replies'[i] = replies[i]
  <2>1. PICK n \in 0 .. Len(replies) : replies' = SubSeq(replies, 1, n)
    BY DEF HostEnds, ServerEnds
  <2>2. replies \in Seq([rid : Rid, res : Answer]) /\ Len(replies) \in Nat
    BY LenProperties DEF ServerTypes
  <2>3. /\ replies' \in Seq([rid : Rid, res : Answer]) /\ Len(replies') = n
        /\ \A i \in 1 .. n : replies'[i] = replies[i]
    <3>1. n \in Nat /\ n <= Len(replies) /\ 1 \in Int /\ n \in Int
      BY <2>2
    <3>2. \A i \in 1 .. n : replies[i] \in [rid : Rid, res : Answer]
      BY <2>2, <3>1, RepliesTyped
    <3>3. /\ SubSeq(replies, 1, n) \in Seq([rid : Rid, res : Answer])
          /\ Len(SubSeq(replies, 1, n)) = IF 1 <= n THEN n - 1 + 1 ELSE 0
          /\ \A i \in 1 .. n - 1 + 1 : SubSeq(replies, 1, n)[i] = replies[1 + i - 1]
      BY <3>1, <3>2, SubSeqProperties
    <3>4. n - 1 + 1 = n /\ \A i \in 1 .. n : 1 + i - 1 = i
      BY <3>1
    <3> QED BY <2>1, <3>1, <3>3, <3>4
  <2> QED BY <2>2, <2>3
<1>4. MgrTypes' /\ ClientTypes' /\ ServerTypes' /\ ProcTypes'
  BY <1>1, <1>2, <1>3 DEF MgrTypes, TheHook, ClientTypes, ServerTypes, ProcTypes, HandlerType
<1>5. FlowInv'
  BY <1>1, FlowStay DEF ThreadsGoOn
<1>6. OwnerInv' /\ PipesOpen'
  BY <1>1 DEF CallsInv, OwnerInv, PipesOpen
<1>7. SendInv'
  <2>1. \A r \in Rid : Unsent(r)' <=> Unsent(r)
    BY <1>1 DEF Unsent
  <2> QED BY <1>1, <1>2, <2>1 DEF CallsInv, SendInv
<1>8. \A r \in Rid : hnd'[r].res = hnd[r].res /\ (hnd'[r].at = "done" <=> hnd[r].at = "done")
  BY <1>2 DEF CallsInv, AnswerInv
<1>9. AnswerInv'
  <2>1. ASSUME NEW i \in 1 .. Len(replies')
        PROVE  hnd'[replies'[i].rid].at = "done" /\ replies'[i].res = hnd'[replies'[i].rid].res
    <3>1. replies[i].rid \in Rid /\ replies'[i] = replies[i] /\ i \in 1 .. Len(replies)
      BY <1>3, RepliesTyped
    <3> QED BY <1>8, <3>1 DEF CallsInv, AnswerInv
  <2> QED BY <1>1, <1>8, <2>1 DEF CallsInv, AnswerInv
<1>10. OidInv'
  BY <1>1, <1>8 DEF OidInv
<1>11. TableInv'
  <2>1. {h \in Rid : hnd'[h].at = "done"} = {h \in Rid : hnd[h].at = "done"}
    BY <1>8
  <2>2. \A r \in Rid : hnd'[r].at # "store"
    BY <1>2
  <2> QED BY <1>1, <1>8, <2>1, <2>2 DEF TableInv
<1>12. WaitInv' /\ WaitExact'
  BY <1>1, <1>2 DEF WaitInv, WaitExact
<1> QED BY <1>4, <1>5, <1>6, <1>7, <1>9, <1>10, <1>11, <1>12 DEF CallsInv

\* Every step of the link, the server and the processes.
LEMMA HostKept ==
  ASSUME MIInv, HostStep \/ ServerCrash \/ (\E p \in Rid : ProcFails(p)), UNCHANGED mgrVars
  PROVE  MIInv'
<1>1. CASE ClientStep /\ UNCHANGED procVars
  BY <1>1, ClientKept
<1>2. CASE ServerStep /\ UNCHANGED procVars
  BY <1>2, StoreKept DEF ServerStep
<1>3. CASE ServerEof \/ ServerCrash
  BY <1>3, HostEndsKept DEF ServerEof, ServerCrash
<1>4. CASE \E h \in Rid : Method(h)
  BY <1>4, EarlyKept, PopenKept, EnterKept, LockedKept, WaitpidKept DEF Method
<1>5. CASE \E p \in Rid : ProcExit(p) \/ ProcFails(p)
  BY <1>5, EndsKept DEF ProcExit, ProcFails
<1> QED BY <1>1, <1>2, <1>3, <1>4, <1>5 DEF HostStep, RpcStep
-----------------------------------------------------------------------------
(***************************************************************************)
(* The manager's steps.                                                    *)
(***************************************************************************)
\* A thread that is in no call starts one of a known object, or forgets the one
\* it was in.
ThreadsStart ==
  /\ thr' \in [Caller -> ThreadType]
  /\ \A t \in Caller :
       \/ thr'[t] = thr[t]
       \/ /\ thr[t].at \in {"idle", "done"} /\ thr'[t].at = "call" /\ thr'[t].rid = NoRid
          /\ thr'[t].req.oid \in DOMAIN oids
       \/ /\ thr[t].at = "done" /\ thr'[t].at = "idle"
          /\ thr'[t].rid = thr[t].rid /\ thr'[t].req = thr[t].req

\* The manager touches the threads, the queue and its own state.
MgrOnly ==
  /\ UNCHANGED <<callVars, recv, replies, hnd, oids, procVars>>
  /\ server' \in {server, "up"} /\ send' \in {send, "closed"} /\ sendQ' \in {sendQ, <<Close>>, <<>>}
  /\ rConn' \in DOMAIN oids \cup {NoConn}
  /\ \A j \in 1 .. Len(tasks') : \A i \in 1 .. Len(ps'[j]) : ps'[j][i] \in DOMAIN oids

LEMMA MgrKept ==
  ASSUME MIInv, ThreadsStart, MgrOnly, MgrTypes', FlowInv'
  PROVE  MIInv'
<1> USE DEF MIInv, Types, CallsInv
<1>1. UNCHANGED <<rid, req, outstanding, fds, cell, out, recv, replies, hnd, oids,
                  proc, returncode, sig, dw, held, waitLock>>
  BY DEF MgrOnly, callVars, procVars
<1>2. ClientTypes'
  <2>1. sendQ' \in {<<>>} \cup {<<v>> : v \in Rid \cup {Close}} /\ send' \in {"get", "closing", "closed", "dead"}
    BY DEF MgrOnly, ClientTypes
  <2> QED BY <1>1, <2>1 DEF ClientTypes, ThreadsStart, ThreadType
<1>3. ServerTypes' /\ ProcTypes'
  BY <1>1 DEF ServerTypes, ProcTypes, MgrOnly
<1>4. TableInv' /\ WaitInv' /\ WaitExact'
  BY <1>1 DEF TableInv, WaitInv, WaitExact
<1>5. OidInv'
  BY <1>1 DEF OidInv, ThreadsStart, MgrOnly
<1>6. AnswerInv'
  BY <1>1 DEF AnswerInv
<1>7. PipesOpen'
  <2> SUFFICES ASSUME NEW r \in outstanding, InTry(r)
               PROVE  InTry(r)'
    BY <1>1 DEF PipesOpen, InTry
  <2>1. PICK t \in Caller : thr[t].rid = r /\ thr[t].at \in {"try", "put", "read", "clean"}
    BY DEF InTry
  <2>2. thr'[t] = thr[t]
    BY <2>1 DEF ThreadsStart
  <2> QED BY <2>1, <2>2 DEF InTry
<1>8. SendInv'
  <2>1. \A t \in Caller : thr'[t].at \in {"try", "put"} => thr'[t] = thr[t]
    BY DEF ThreadsStart
  <2>2. Close \notin Rid /\ \A r \in Rid : <<Close>> # <<r>> /\ <<>> # <<r>>
    BY DEF Close, Rid
  <2>3. \A r \in Rid : sendQ' = <<r>> => sendQ = <<r>>
    BY <2>2 DEF MgrOnly
  <2>4. \A r \in Rid : Unsent(r)' => Unsent(r)
    BY <1>1, <2>1, <2>3 DEF Unsent
  <2>5. ASSUME NEW t \in Caller, thr'[t].at \in {"try", "put"} PROVE sendQ' # <<thr'[t].rid>>
    <3>1. thr'[t] = thr[t] /\ thr[t].rid \in Rid
      BY <2>1, <2>5 DEF OwnerInv, ClientTypes, InCall
    <3> QED BY <2>3, <2>5, <3>1 DEF SendInv
  <2> QED BY <1>1, <2>3, <2>4, <2>5 DEF SendInv
<1>9. OwnerInv'
  <2>1. \A t \in Caller : thr'[t].rid = NoRid \/ (thr'[t].rid = thr[t].rid /\ thr'[t].req = thr[t].req)
    BY DEF ThreadsStart
  <2>2. \A t \in Caller : thr'[t].at \in InCall => thr'[t] = thr[t]
    BY DEF ThreadsStart, InCall
  <2>3. \A t, u \in Caller : t # u /\ thr'[t].rid = thr'[u].rid => thr'[t].rid = NoRid
    BY <2>1 DEF OwnerInv
  <2>4. ASSUME NEW t \in Caller
        PROVE  /\ thr'[t].at \in InCall => thr'[t].rid # NoRid
               /\ thr'[t].rid # NoRid => thr'[t].rid < rid /\ req[thr'[t].rid] = thr'[t].req
               /\ thr'[t].at \in {"raise", "try", "put", "read"} => out[thr'[t].rid] = NoVal
               /\ thr'[t].at \in {"clean", "close"} => out[thr'[t].rid] = Exc
               /\ thr'[t].at \in {"try", "put", "read"} => thr'[t].rid \in outstanding \/ cell[thr'[t].rid] # NoVal
               /\ thr'[t].at \in {"raise", "close"} => thr'[t].rid \notin outstanding
    BY <2>1, <2>2 DEF OwnerInv, InCall
  <2> QED BY <1>1, <2>3, <2>4 DEF OwnerInv
<1> QED BY <1>2, <1>3, <1>4, <1>5, <1>6, <1>7, <1>8, <1>9

\* Where a step of a hook leads.
LEMMA PositionTyped ==
  ASSUME MgrTypes, Running, UNCHANGED tasks,
         (Advance /\ step <= Len(TheHook)) \/ InReset \/ InRun \/ Escape
  PROVE  /\ phase' \in Phase /\ cur' \in 1 .. Len(tasks') /\ step' \in 1 .. Len(TheHook') + 1
<1>1. Len(tasks) \in Nat /\ Len(TheHook) \in Nat /\ step \in 1 .. Len(TheHook) + 1
  BY TheHookGood, LenProperties DEF MgrTypes
<1>2. CASE (Advance /\ step <= Len(TheHook)) \/ InReset
  <2>1. UNCHANGED <<phase, cur, TheHook>> /\ ((step' = step + 1 /\ step <= Len(TheHook)) \/ step' = Len(TheHook) + 1)
    BY <1>2 DEF Advance, InReset, TheHook
  <2> QED BY <1>1, <2>1 DEF MgrTypes, Phase
<1>3. CASE InRun \/ Escape
  <2>1. phase' \in {"reset", "over"} /\ cur' \in 1 .. Len(tasks) /\ step' = 1
    BY <1>1, <1>3 DEF InRun, Escape, MgrTypes
  <2>2. tasks'[cur'] \in TaskClass /\ phase' \in Phase
    BY <2>1, ElementOfSeq DEF MgrTypes, Phase
  <2>3. Len(TheHook') \in Nat
    <3>1. \A task \in TaskClass, ph \in Phase : Len(Hook(task, ph)) \in Nat
      BY HookGood, LenProperties DEF GoodHook
    <3>2. TheHook' = Hook(tasks'[cur'], phase')
      BY DEF TheHook
    <3> QED BY <2>2, <3>1, <3>2
  <2> QED BY <2>1, <2>2, <2>3
<1> QED BY <1>2, <1>3
\* The hook goes on.
LEMMA AdvanceKept ==
  ASSUME MIInv, Running, step <= Len(TheHook), Advance, UNCHANGED <<tasks, tstate, interrupts>>,
         ThreadsStart, MgrOnly, ps' \in [1 .. Len(tasks) -> Seq(Int)],
         thr'[Main].at = "idle",
         \/ AsyncsStay /\ TheHook[step].do # "async"
         \/ AsyncStarts,
         TheHook[step].do = "sync" => thr[TheHook[step].i].at = "done",
         \/ rConn' = rConn /\ TheHook[step].do # "close"
         \/ rConn' = NoConn
         \/ TheHook[step].do = "connect"
  PROVE  MIInv'
<1> USE DEF MIInv, Types
<1>1. FlowInv'
  BY FlowAdvance
<1>2. MgrTypes'
  <2>1. /\ phase' \in Phase /\ cur' \in 1 .. Len(tasks') /\ step' \in 1 .. Len(TheHook') + 1
    BY PositionTyped
  <2>2. rConn' \in Int
    BY DEF MgrOnly, ServerTypes, NoConn
  <2>3. failed' = failed
    BY DEF Advance
  <2> QED BY <2>1, <2>2, <2>3 DEF MgrTypes, Phase
<1> QED BY <1>1, <1>2, MgrKept

\* An exception, or an interrupt, leaves it.
LEMMA RaiseKept ==
  ASSUME MIInv, Running, UNCHANGED <<tasks, tstate, rConn, ps>>,
         ThreadsStart, MgrOnly, thr'[Main].at = "idle", AsyncsStay,
         interrupts' \in 0 .. MaxInterrupts,
         \/ Raise /\ step <= Len(TheHook) /\ TheHook[step].do # "close"
         \/ phase # "reset" /\ InRun
         \/ phase = "reset" /\ InReset /\ failed' = "twice"
         \/ phase = "reset" /\ Escape
  PROVE  MIInv'
<1> USE DEF MIInv, Types
<1>1. \/ phase # "reset" /\ InRun
      \/ phase = "reset" /\ InReset /\ (failed' = "twice" \/ (failed' = failed /\ step <= Len(TheHook) /\ TheHook[step].do # "close"))
      \/ phase = "reset" /\ Escape
  BY DEF Raise
<1>2. FlowInv'
  BY <1>1, FlowRaise, FlowEscape
<1>3. MgrTypes'
  <2>1. /\ phase' \in Phase /\ cur' \in 1 .. Len(tasks') /\ step' \in 1 .. Len(TheHook') + 1
    BY <1>1, PositionTyped
  <2>2. failed' \in {"no", "raised", "twice", "escaped"}
    BY <1>1 DEF InRun, Escape, MgrTypes
  <2> QED BY <2>1, <2>2 DEF MgrTypes, Phase
<1> QED BY <1>2, <1>3, MgrKept

\* The main thread is in the call of its step.
LEMMA CallKept ==
  ASSUME MIInv, Running, step <= Len(TheHook), UNCHANGED <<tasks, position, tstate, rConn, ps, interrupts>>,
         ThreadsStart, MgrOnly, AsyncsStay,
         TheHook[step].do \in {"connect", "host", "proc"}, thr'[Main].req.op = TheHook[step].op
  PROVE  MIInv'
<1> USE DEF MIInv, Types
<1>1. UNCHANGED <<phase, cur, step, failed>>
  BY DEF position
<1>2. FlowInv'
  BY <1>1, FlowStay
<1>3. MgrTypes'
  BY <1>1 DEF MgrTypes, TheHook
<1> QED BY <1>2, <1>3, MgrKept

\* What a step leaves alone.
LEMMA QuietThreads ==
  ASSUME MIInv, UNCHANGED <<thr, callVars, sendVars, recv, replies, hnd, oids, procVars, tasks, rConn, ps>>,
         server' \in {server, "up"}
  PROVE  ThreadsStart /\ MgrOnly /\ AsyncsStay /\ ps' \in [1 .. Len(tasks) -> Seq(Int)]
<1>1. ThreadsStart
  BY DEF ThreadsStart, MIInv, Types, ClientTypes, ThreadType
<1>2. AsyncsStay
  BY DEF AsyncsStay
<1>3. MgrOnly
  BY DEF MgrOnly, MIInv, OidInv, sendVars
<1>4. ps' \in [1 .. Len(tasks) -> Seq(Int)]
  BY DEF MIInv, Types, MgrTypes
<1> QED BY <1>1, <1>2, <1>3, <1>4

\* A call starts.
LEMMA StartKept ==
  ASSUME MIInv, NEW t \in Caller, NEW oid \in DOMAIN oids, NEW op \in Op, StartCall(t, oid, op),
         thr[t].at \in {"idle", "done"}
  PROVE  /\ ThreadsStart /\ thr'[t].at = "call" /\ thr'[t].req.op = op
         /\ \A u \in Caller \ {t} : thr'[u] = thr[u]
<1>1. thr \in [Caller -> ThreadType] /\ oid \in Int
  BY DEF MIInv, Types, ClientTypes, ThreadType, ServerTypes
<1>2. PICK c : c = [at |-> "call", rid |-> NoRid, req |-> [oid |-> oid, op |-> op]]
  OBVIOUS
<1>3. /\ c \in ThreadType /\ c.at = "call" /\ c.rid = NoRid /\ c.req.oid = oid /\ c.req.op = op
  BY <1>1, <1>2 DEF ThreadType, Place, Request
<1>4. thr' = [thr EXCEPT ![t] = c]
  BY <1>2 DEF StartCall
<1> QED BY <1>1, <1>3, <1>4 DEF ThreadsStart

LEMMA LocalKept ==
  ASSUME MIInv, LocalStep
  PROVE  MIInv'
<1> USE DEF MIInv, Types
<1>1. /\ Running /\ step <= Len(TheHook) /\ TheHook[step].do = "local" /\ thr'[Main].at = "idle"
      /\ UNCHANGED <<thr, callVars, sendVars, recv, replies, server, hnd, oids, procVars,
                     tasks, rConn, ps, tstate, interrupts>>
  BY DEF LocalStep, AtStep, hostVars, rpcVars, clientVars, serverVars
<1>2. ThreadsStart /\ MgrOnly /\ AsyncsStay /\ ps' \in [1 .. Len(tasks) -> Seq(Int)]
  BY <1>1, QuietThreads
<1>3. CASE Advance
  BY <1>1, <1>2, <1>3, AdvanceKept
<1>4. CASE Raise
  BY <1>1, <1>2, <1>4, RaiseKept DEF MgrTypes
<1> QED BY <1>3, <1>4 DEF LocalStep

LEMMA ConnectKept ==
  ASSUME MIInv, ConnectStep
  PROVE  MIInv'
<1> USE DEF MIInv, Types
<1>1. /\ Running /\ step <= Len(TheHook) /\ TheHook[step].do = "connect" /\ thr[Main].at = "idle"
      /\ UNCHANGED <<callVars, sendVars, recv, replies, hnd, oids, procVars,
                     tasks, rConn, ps, tstate, interrupts>>
      /\ Main \in Caller /\ Main \notin Asyncs /\ TheHook[step].op = "getUserRoot"
  BY TheHookGood, NPositive DEF ConnectStep, AtStep, Caller
<1>2. CASE Raise /\ UNCHANGED <<thr, server>>
  <2>1. ThreadsStart /\ MgrOnly /\ AsyncsStay
    BY <1>1, <1>2, QuietThreads
  <2> QED BY <1>1, <1>2, <2>1, RaiseKept DEF MgrTypes
<1>3. CASE server' = "up" /\ StartCall(Main, 0, "getUserRoot") /\ UNCHANGED position
  <2>1. /\ ThreadsStart /\ thr'[Main].req.op = "getUserRoot"
        /\ \A u \in Caller \ {Main} : thr'[u] = thr[u]
    BY <1>1, <1>3, StartKept DEF OidInv, Op
  <2>2. AsyncsStay
    BY <1>1, <2>1 DEF AsyncsStay, Caller
  <2>3. MgrOnly
    BY <1>1, <1>3 DEF MgrOnly, OidInv, sendVars
  <2> QED BY <1>1, <1>3, <2>1, <2>2, <2>3, CallKept
<1> QED BY <1>2, <1>3 DEF ConnectStep
LEMMA HostCallKept ==
  ASSUME MIInv, HostCall
  PROVE  MIInv'
<1> USE DEF MIInv, Types
<1>1. /\ Running /\ step <= Len(TheHook) /\ TheHook[step].do \in {"host", "async"} /\ thr[Main].at = "idle"
      /\ UNCHANGED <<callVars, sendVars, recv, replies, server, hnd, oids, procVars,
                     tasks, rConn, ps, tstate, interrupts>>
      /\ Main \in Caller /\ Main \notin Asyncs /\ Main = 0
  BY NPositive DEF HostCall, AtStep, Caller, serverVars
<1>2. PICK s : s = TheHook[step]
  OBVIOUS
<1>3. GoodHook(TheHook) /\ step \in 1 .. Len(TheHook) /\ s \in HookStep /\ phase # "reset"
  BY <1>1, <1>2, TheHookGood
<1>4. CASE rConn = NoConn
  <2>1. Raise /\ UNCHANGED thr
    BY <1>4 DEF HostCall
  <2>2. ThreadsStart /\ MgrOnly /\ AsyncsStay
    BY <1>1, <2>1, QuietThreads
  <2> QED BY <1>1, <2>1, <2>2, RaiseKept DEF MgrTypes
<1>5. CASE rConn # NoConn
  <2>1. StartCall(s.i, rConn, s.op) /\ (IF s.i = Main THEN UNCHANGED position ELSE Advance)
    BY <1>2, <1>5 DEF HostCall
  <2>2. rConn \in DOMAIN oids /\ s.op \in Op
    BY <1>3, <1>5 DEF OidInv, HookStep
  <2>3. MgrOnly
    BY <1>1 DEF MgrOnly, OidInv, sendVars
  <2>4. CASE s.do = "host"
    <3>1. s.i = Main
      <4>1. s \in MainStep
        BY <1>2, <1>3, <2>4 DEF GoodHook
      <4> QED BY <1>1, <2>4, <4>1 DEF MainStep, CalmStep, Connect, Step
    <3>2. StartCall(Main, rConn, s.op) /\ UNCHANGED position
      BY <2>1, <3>1
    <3>3. ThreadsStart /\ thr'[Main].req.op = s.op /\ \A u \in Caller \ {Main} : thr'[u] = thr[u]
      BY <1>1, <2>2, <3>2, StartKept
    <3>4. AsyncsStay
      BY <1>1, <3>3 DEF AsyncsStay, Caller
    <3> QED BY <1>1, <1>2, <2>3, <2>4, <3>2, <3>3, <3>4, CallKept
  <2>5. CASE s.do = "async"
    <3>1. s.i = step /\ step <= N /\ s.op \in {"run", "runLoad"}
      BY <1>2, <1>3, <2>5 DEF GoodHook
    <3>2. step \in Asyncs /\ step \in Caller /\ step # Main /\ step \in Nat
      BY <1>1, <1>3, <3>1, NPositive, TheHookGood DEF Caller
    <3>3. thr[step].at \in {"idle", "done"}
      <4>1. phase \in {"start", "wait", "stop"} /\ ~(step < step)
        BY <1>1, <1>3, <3>2 DEF Running
      <4> QED BY <3>2, <4>1 DEF FlowInv, AsyncInv
    <3>4. StartCall(step, rConn, s.op) /\ Advance
      BY <2>1, <3>1, <3>2
    <3>5. /\ ThreadsStart /\ thr'[step].at = "call" /\ thr'[step].req.op = s.op
          /\ \A u \in Caller \ {step} : thr'[u] = thr[u]
      BY <2>2, <3>2, <3>3, <3>4, StartKept
    <3>6. AsyncStarts /\ thr'[Main].at = "idle"
      BY <1>1, <1>2, <2>5, <3>1, <3>2, <3>5 DEF AsyncStarts, Caller
    <3>7. ps' \in [1 .. Len(tasks) -> Seq(Int)]
      BY <1>1 DEF MgrTypes
    <3> QED BY <1>1, <1>2, <2>3, <2>5, <3>4, <3>5, <3>6, <3>7, AdvanceKept
  <2> QED BY <1>1, <1>2, <2>4, <2>5
<1> QED BY <1>4, <1>5

\* The number in an answer is an object id, unless it is an exit code.
LEMMA AnswerOid ==
  ASSUME MIInv, NEW t \in Caller, thr[t].rid # NoRid, thr[t].req.op # "poll"
  PROVE  out[thr[t].rid].n \in DOMAIN oids /\ out[thr[t].rid].n \in Int
<1> USE DEF MIInv, Types, CallsInv
<1>1. PICK r \in Rid : r = thr[t].rid
  BY DEF ClientTypes
<1>2. req[r] = thr[t].req
  BY <1>1 DEF OwnerInv
<1>3. NoVal.n = 0 /\ Exc.n = 0 /\ 0 \in DOMAIN oids /\ hnd[r].res.n \in DOMAIN oids
  BY <1>2 DEF NoVal, Exc, OidInv
<1>4. out[r].n \in DOMAIN oids
  BY <1>3 DEF AnswerInv
<1> QED BY <1>1, <1>4 DEF ServerTypes

LEMMA SyncKept ==
  ASSUME MIInv, SyncStep
  PROVE  MIInv'
<1> USE DEF MIInv, Types
<1>1. /\ Running /\ step <= Len(TheHook) /\ TheHook[step].do = "sync" /\ thr[Main].at = "idle"
      /\ UNCHANGED <<thr, callVars, sendVars, recv, replies, server, hnd, oids, procVars,
                     tasks, rConn, tstate, interrupts>>
      /\ N \in Nat \ {0} /\ Asyncs = 1 .. N
  BY NPositive DEF SyncStep, AtStep, hostVars, rpcVars, clientVars, serverVars
<1>2. PICK i : i = TheHook[step].i
  OBVIOUS
<1>3. GoodHook(TheHook) /\ step \in 1 .. Len(TheHook) /\ phase \in {"start", "wait", "stop"}
  BY <1>1, TheHookGood DEF Running
<1>4. i \in 1 .. N /\ step = N + i /\ thr[i].at = "done"
  BY <1>1, <1>2, <1>3 DEF GoodHook, SyncStep
<1>5. CASE Raise /\ UNCHANGED ps
  <2>1. ThreadsStart /\ MgrOnly /\ AsyncsStay
    BY <1>1, <1>5, QuietThreads
  <2> QED BY <1>1, <1>5, <2>1, RaiseKept DEF MgrTypes
<1>6. CASE Advance /\ ps' = IF i = N THEN [ps EXCEPT ![cur] = [j \in 1 .. N |-> out[thr[j].rid].n]] ELSE ps
  <2>1. /\ ps \in [1 .. Len(tasks) -> Seq(Int)] /\ cur \in 1 .. Len(tasks)
        /\ \A j \in 1 .. Len(tasks) : \A k \in 1 .. Len(ps[j]) : ps[j][k] \in DOMAIN oids
    BY DEF MgrTypes, OidInv
  <2>2. /\ ps' \in [1 .. Len(tasks) -> Seq(Int)]
        /\ \A j \in 1 .. Len(tasks) : \A k \in 1 .. Len(ps'[j]) : ps'[j][k] \in DOMAIN oids
    <3>1. CASE i = N
      <4>1. ASSUME NEW j \in 1 .. N
            PROVE  out[thr[j].rid].n \in DOMAIN oids /\ out[thr[j].rid].n \in Int
        <5>1. j < step /\ j <= Len(TheHook) /\ (step <= N + j => j = N)
          BY <1>1, <1>3, <1>4, <3>1, TheHookGood
        <5>2. j \in Asyncs /\ j \in Caller
          BY <1>1 DEF Caller
        <5>3. TheHook[j].do = "async"
          BY <1>1, <1>3 DEF GoodHook
        <5>4. thr[j].at = "done"
          BY <1>3, <1>4, <3>1, <5>1, <5>2, <5>3 DEF FlowInv, AsyncInv
        <5>5. thr[j].rid # NoRid
          BY <5>2, <5>4 DEF CallsInv, OwnerInv, InCall
        <5>6. thr[j].req.op # "poll"
          BY <5>2 DEF FlowInv, AsyncInv
        <5> QED BY <5>2, <5>5, <5>6, AnswerOid
      <4>2. PICK q : q = [j \in 1 .. N |-> out[thr[j].rid].n]
        OBVIOUS
      <4>3. q \in Seq(Int) /\ Len(q) = N /\ \A k \in 1 .. N : q[k] \in DOMAIN oids
        BY <1>1, <4>1, <4>2
      <4>4. ps' = [ps EXCEPT ![cur] = q]
        BY <1>6, <3>1, <4>2
      <4> QED BY <2>1, <4>3, <4>4
    <3>2. CASE i # N
      BY <1>6, <2>1, <3>2
    <3> QED BY <3>1, <3>2
  <2>3. ThreadsStart /\ AsyncsStay
    BY <1>1 DEF ThreadsStart, AsyncsStay, ClientTypes, ThreadType
  <2>4. MgrOnly
    BY <1>1, <2>2 DEF MgrOnly, OidInv, sendVars
  <2> QED BY <1>1, <1>2, <1>4, <1>6, <2>2, <2>3, <2>4, AdvanceKept
<1> QED BY <1>2, <1>5, <1>6 DEF SyncStep
LEMMA ProcKept ==
  ASSUME MIInv, ProcStep
  PROVE  MIInv'
<1> USE DEF MIInv, Types
<1>1. /\ Running /\ step <= Len(TheHook) /\ TheHook[step].do = "proc" /\ thr[Main].at = "idle"
      /\ UNCHANGED <<callVars, sendVars, recv, replies, server, hnd, oids, procVars,
                     tasks, rConn, ps, tstate, interrupts>>
      /\ Main \in Caller /\ Main \notin Asyncs
  BY NPositive DEF ProcStep, AtStep, Caller, serverVars
<1>2. PICK s : s = TheHook[step]
  OBVIOUS
<1>3. GoodHook(TheHook) /\ step \in 1 .. Len(TheHook) /\ s \in HookStep
  BY <1>1, <1>2, TheHookGood
<1>4. s.i > 0 /\ s.op \in Op /\ s.i \in Nat
  <2>1. s \in MainStep
    BY <1>1, <1>2, <1>3 DEF GoodHook
  <2> QED BY <1>1, <1>2, <1>3, <2>1 DEF MainStep, CalmStep, Connect, Step, HookStep
<1>5. CASE s.i > Len(ps[cur])
  <2>1. Advance /\ UNCHANGED thr
    BY <1>2, <1>5 DEF ProcStep
  <2>2. ThreadsStart /\ MgrOnly /\ AsyncsStay /\ ps' \in [1 .. Len(tasks) -> Seq(Int)]
    BY <1>1, <2>1, QuietThreads
  <2> QED BY <1>1, <2>1, <2>2, AdvanceKept
<1>6. CASE ~(s.i > Len(ps[cur]))
  <2>1. StartCall(Main, ps[cur][s.i], s.op) /\ UNCHANGED position
    BY <1>2, <1>6 DEF ProcStep
  <2>2. ps[cur] \in Seq(Int) /\ cur \in 1 .. Len(tasks) /\ Len(ps[cur]) \in Nat
    BY LenProperties DEF MgrTypes
  <2>3. s.i \in 1 .. Len(ps[cur])
    BY <1>4, <1>6, <2>2
  <2>4. ps[cur][s.i] \in DOMAIN oids
    BY <2>2, <2>3 DEF OidInv
  <2>5. ThreadsStart /\ thr'[Main].req.op = s.op /\ \A u \in Caller \ {Main} : thr'[u] = thr[u]
    BY <1>1, <1>4, <2>1, <2>4, StartKept
  <2>6. AsyncsStay
    BY <1>1, <2>5 DEF AsyncsStay, Caller
  <2>7. MgrOnly
    BY <1>1 DEF MgrOnly, OidInv, sendVars
  <2> QED BY <1>1, <1>2, <2>1, <2>5, <2>6, <2>7, CallKept
<1> QED BY <1>5, <1>6

LEMMA CloseKept ==
  ASSUME MIInv, CloseStep
  PROVE  MIInv'
<1> USE DEF MIInv, Types
<1>1. /\ Running /\ step <= Len(TheHook) /\ TheHook[step].do = "close" /\ thr[Main].at = "idle"
      /\ UNCHANGED <<thr, callVars, send, recv, replies, server, hnd, oids, procVars,
                     tasks, ps, tstate, interrupts>>
      /\ rConn' = NoConn /\ Advance /\ sendQ' \in {sendQ, <<Close>>}
  BY DEF CloseStep, AtStep, QueuePut, clientVars, serverVars
<1>2. ThreadsStart /\ AsyncsStay
  BY <1>1 DEF ThreadsStart, AsyncsStay, ClientTypes, ThreadType
<1>3. MgrOnly
  BY <1>1 DEF MgrOnly, OidInv
<1>4. ps' \in [1 .. Len(tasks) -> Seq(Int)]
  BY <1>1 DEF MgrTypes
<1> QED BY <1>1, <1>2, <1>3, <1>4, AdvanceKept

LEMMA ReturnsKept ==
  ASSUME MIInv, CallReturns
  PROVE  MIInv'
<1> USE DEF MIInv, Types
<1>1. /\ Running /\ thr[Main].at = "done" /\ Goto(Main, "idle")
      /\ UNCHANGED <<callVars, sendVars, recv, replies, server, hnd, oids, procVars,
                     tasks, tstate, interrupts>>
      /\ Main \in Caller /\ Main \notin Asyncs
  BY NPositive DEF CallReturns, Caller, serverVars
<1>2. PICK s, v : s = TheHook[step] /\ v = out[thr[Main].rid]
  OBVIOUS
<1>3. /\ step <= Len(TheHook) /\ s.do \in {"connect", "host", "proc"} /\ thr[Main].req.op = s.op
      /\ thr[Main].rid # NoRid
  BY <1>1, <1>2 DEF FlowInv, MainInv, CallsInv, OwnerInv, InCall
<1>4. s.do = "connect" => s.op = "getUserRoot"
  BY <1>2, <1>3, TheHookGood
<1>5. s.op # "poll" => v.n \in DOMAIN oids /\ v.n \in Int
  BY <1>1, <1>2, <1>3, AnswerOid
<1>6. /\ IF v = Exc \/ (s.op = "poll" /\ v # Val(-1)) THEN Raise ELSE Advance
      /\ rConn' = IF s.do = "connect" /\ v # Exc THEN v.n ELSE rConn
      /\ ps' = IF s.do = "host" /\ s.op = "run" /\ v # Exc
               THEN [ps EXCEPT ![cur] = Append(@, v.n)] ELSE ps
  BY <1>2 DEF CallReturns
<1>7. thr' \in [Caller -> ThreadType] /\ Moves(Main, "idle")
  BY <1>1, GotoMoves DEF Place
<1>8. ThreadsStart /\ AsyncsStay /\ thr'[Main].at = "idle"
  BY <1>1, <1>7 DEF ThreadsStart, AsyncsStay, Moves, Caller
<1>9. /\ ps \in [1 .. Len(tasks) -> Seq(Int)] /\ cur \in 1 .. Len(tasks)
      /\ \A j \in 1 .. Len(tasks) : \A k \in 1 .. Len(ps[j]) : ps[j][k] \in DOMAIN oids
  BY DEF MgrTypes, OidInv
<1>10. /\ ps' \in [1 .. Len(tasks) -> Seq(Int)]
       /\ \A j \in 1 .. Len(tasks) : \A k \in 1 .. Len(ps'[j]) : ps'[j][k] \in DOMAIN oids
  <2>1. CASE ps' = ps
    BY <1>9, <2>1
  <2>2. CASE s.op = "run" /\ ps' = [ps EXCEPT ![cur] = Append(@, v.n)]
    <3>1. v.n \in DOMAIN oids /\ v.n \in Int
      BY <1>5, <2>2
    <3>2. PICK q : q = Append(ps[cur], v.n)
      OBVIOUS
    <3>3. ps[cur] \in Seq(Int) /\ Len(ps[cur]) \in Nat
      BY <1>9, LenProperties
    <3>4. /\ q \in Seq(Int) /\ Len(q) = Len(ps[cur]) + 1 /\ q[Len(ps[cur]) + 1] = v.n
          /\ \A k \in 1 .. Len(ps[cur]) : q[k] = ps[cur][k]
      BY <3>1, <3>2, <3>3, AppendProperties
    <3>5. \A k \in 1 .. Len(q) : k \in 1 .. Len(ps[cur]) \/ k = Len(ps[cur]) + 1
      BY <3>3, <3>4
    <3>6. \A k \in 1 .. Len(q) : q[k] \in DOMAIN oids
      BY <1>9, <3>1, <3>4, <3>5
    <3>7. ps' = [ps EXCEPT ![cur] = q]
      BY <2>2, <3>2
    <3> QED BY <1>9, <3>4, <3>6, <3>7
  <2> QED BY <1>6, <2>1, <2>2
<1>11. MgrOnly
  <2>1. rConn' \in DOMAIN oids \cup {NoConn}
    BY <1>4, <1>5, <1>6 DEF OidInv
  <2> QED BY <1>1, <1>10, <2>1 DEF MgrOnly, sendVars
<1>12. CASE Advance
  <2>1. s.do \notin {"async", "sync", "close"}
    BY <1>3
  <2>2. rConn' = rConn \/ s.do = "connect"
    BY <1>6
  <2> QED BY <1>1, <1>2, <1>3, <1>8, <1>10, <1>11, <1>12, <2>1, <2>2, AdvanceKept
<1>13. CASE Raise /\ (v = Exc \/ s.op = "poll")
  <2>1. s.do # "close" /\ UNCHANGED <<rConn, ps>>
    BY <1>3, <1>4, <1>6, <1>13
  <2> QED BY <1>1, <1>2, <1>3, <1>8, <1>11, <1>13, <2>1, RaiseKept DEF MgrTypes
<1> QED BY <1>6, <1>12, <1>13
LEMMA DoneKept ==
  ASSUME MIInv, TaskDone
  PROVE  MIInv'
<1> USE DEF MIInv, Types
<1>1. /\ Running
      /\ UNCHANGED <<thr, callVars, sendVars, recv, replies, server, hnd, oids, procVars,
                     tasks, rConn, ps, failed, interrupts>>
      /\ step' = 1
  BY DEF TaskDone, hostVars, rpcVars, clientVars, serverVars
<1>2. ThreadsStart /\ MgrOnly
  BY <1>1, QuietThreads
<1>3. FlowInv'
  BY FlowTaskDone
<1>4. MgrTypes'
  <2>1. /\ Len(tasks) \in Nat /\ Len(tasks) > 0 /\ cur \in 1 .. Len(tasks) /\ tasks \in Seq(TaskClass)
        /\ tstate \in [1 .. Len(tasks) -> {"STOPPED", "RUNNING"}]
    BY LenProperties DEF MgrTypes
  <2>2. phase' \in Phase /\ cur' \in {cur, cur + 1, cur - 1, 1, Len(tasks)}
    BY DEF TaskDone, MgrTypes, Phase
  <2>3. cur' \in 1 .. Len(tasks)
    <3>1. \/ cur' = 1 \/ cur' = Len(tasks)
          \/ cur # Len(tasks) /\ cur' = cur + 1
          \/ cur # 1 /\ cur' = cur - 1
      BY DEF TaskDone
    <3> QED BY <2>1, <3>1
  <2>4. tstate' \in [1 .. Len(tasks) -> {"STOPPED", "RUNNING"}]
    <3>1. tstate' \in {tstate, [tstate EXCEPT ![cur] = "RUNNING"], [tstate EXCEPT ![cur] = "STOPPED"]}
      BY DEF TaskDone
    <3> QED BY <2>1, <3>1
  <2>5. Len(TheHook') \in Nat
    <3>1. \A task \in TaskClass, ph \in Phase : Len(Hook(task, ph)) \in Nat
      BY HookGood, LenProperties DEF GoodHook
    <3>2. TheHook' = Hook(tasks'[cur'], phase') /\ tasks' = tasks
      BY <1>1 DEF TheHook
    <3>3. tasks[cur'] \in TaskClass
      BY <2>1, <2>3, ElementOfSeq
    <3> QED BY <2>2, <3>1, <3>2, <3>3
  <2>6. step' \in 1 .. Len(TheHook') + 1
    BY <1>1, <2>5
  <2> QED BY <1>1, <2>2, <2>3, <2>4, <2>6 DEF MgrTypes, Phase
<1> QED BY <1>2, <1>3, <1>4, MgrKept

LEMMA ExitKept ==
  ASSUME MIInv, Exit
  PROVE  MIInv'
<1> USE DEF MIInv, Types
<1>1. /\ UNCHANGED <<thr, callVars, recv, replies, server, hnd, oids, procVars,
                     tasks, rConn, ps, failed, interrupts, cur, step, tstate>>
      /\ send' = "closed" /\ sendQ' = <<>> /\ phase = "over" /\ phase' = "exited"
  BY DEF Exit, clientVars, serverVars
<1>2. ThreadsStart
  BY <1>1 DEF ThreadsStart, ClientTypes, ThreadType
<1>3. MgrOnly
  BY <1>1 DEF MgrOnly, OidInv
<1>4. FlowInv'
  BY FlowExit
<1>5. MgrTypes'
  <2>1. tasks[cur] \in TaskClass
    BY ElementOfSeq DEF MgrTypes
  <2>2. TheHook' = TheHook
    <3>1. \A task \in TaskClass : Hook(task, "exited") = Hook(task, "over")
      BY DEF Hook, HostHook, HttperfHook, MemcachedHook, MemcachedLoadHook, TaskClass
    <3>2. TheHook' = Hook(tasks[cur], "exited") /\ TheHook = Hook(tasks[cur], "over")
      BY <1>1 DEF TheHook
    <3> QED BY <2>1, <3>1, <3>2
  <2> QED BY <1>1, <2>2 DEF MgrTypes
<1> QED BY <1>2, <1>3, <1>4, <1>5, MgrKept

LEMMA InterruptKept ==
  ASSUME MIInv, Interrupt
  PROVE  MIInv'
<1> USE DEF MIInv, Types
<1>1. /\ Running /\ interrupts' \in 0 .. MaxInterrupts /\ UNCHANGED <<procVars, tasks, tstate, rConn, ps>>
      /\ Main \in Caller
  BY ManagerAssumption DEF Interrupt, MgrTypes, Caller
<1>2. CASE InterruptCall /\ UNCHANGED position
  <2>1. ClientTypes' /\ CallsInv' /\ ThreadsGoOn
    BY <1>1, <1>2, ThreadKept
  <2>2. UNCHANGED <<phase, cur, step, failed, hnd, oids, replies, server, req>>
    BY <1>2 DEF position, InterruptCall, serverVars
  <2>3. FlowInv'
    BY <1>1, <2>1, <2>2, FlowStay
  <2>4. MgrTypes' /\ ServerTypes'
    BY <1>1, <2>2 DEF MgrTypes, TheHook, ServerTypes
  <2>5. HandlersStay
    BY <2>2 DEF HandlersStay
  <2>6. ProcTypes' /\ OidInv' /\ TableInv' /\ WaitInv' /\ WaitExact'
    BY <1>1, <2>1, <2>2, <2>5, ObjectsKept
  <2> QED BY <2>1, <2>3, <2>4, <2>6
<1>3. CASE /\ thr[Main].at = "idle"
           /\ \/ phase # "reset" /\ InRun
              \/ phase = "reset" /\ step <= Len(TheHook) /\ InReset /\ failed' = "twice"
              \/ phase = "reset" /\ (step = 1 \/ step > Len(TheHook)) /\ Escape
           /\ UNCHANGED rpcVars
  <2>1. UNCHANGED <<thr, callVars, sendVars, recv, replies, server, hnd, oids>>
    BY <1>3 DEF rpcVars, clientVars, serverVars
  <2>2. ThreadsStart /\ MgrOnly /\ AsyncsStay
    BY <1>1, <2>1, QuietThreads
  <2> QED BY <1>1, <1>3, <2>1, <2>2, RaiseKept
<1> QED BY <1>2, <1>3 DEF Interrupt

-----------------------------------------------------------------------------
(***************************************************************************)
(* The theorems.                                                           *)
(***************************************************************************)
LEMMA InitMI ==
  ASSUME Init
  PROVE  MIInv
<1> USE DEF Init, HostInit, RpcInit
<1>1. /\ Rid \subseteq Nat /\ 0 \in Rid /\ NoRid \notin Rid /\ MaxRid \in Nat /\ Main \in Caller
      /\ N \in Nat \ {0} /\ Asyncs = 1 .. N
  BY RpcAssumption, NPositive DEF Rid, NoRid, Caller
<1>2. NoVal \in Answer /\ NoReq \in Request /\ SystemRoot \in Object /\ Thread("none") \in HandlerType
  BY DEF NoVal, Answer, NoReq, Request, Op, SystemRoot, Object, Thread, HandlerType, HndPlace
<1>3. /\ Thread("none").at = "none" /\ Thread("none").obj = NoRid /\ Thread("none").res = NoVal
      /\ NoReq.oid = 0 /\ NoReq.op = "none" /\ NoVal.n = 0
  BY DEF Thread, NoReq, NoVal
<1>4. ClientTypes
  BY <1>1, <1>2 DEF ClientTypes, Place
<1>5. ServerTypes
  <2>1. IsFiniteSet({0}) /\ DOMAIN oids = {0}
    BY FS_Singleton
  <2>2. replies \in Seq([rid : Rid, res : Answer])
    BY EmptySeq
  <2>3. oids \in [DOMAIN oids -> Object]
    BY <1>2
  <2> QED BY <1>2, <2>1, <2>2, <2>3 DEF ServerTypes, HandlerType
<1>6. ProcTypes
  BY DEF ProcTypes
<1>7. MgrTypes
  <2>1. tasks \in Seq(TaskClass) /\ tasks # <<>>
    BY ManagerAssumption
  <2>2. Len(tasks) \in Nat /\ Len(tasks) # 0 /\ DOMAIN tasks = 1 .. Len(tasks)
    BY <2>1, LenProperties, EmptySeq
  <2>3. 1 \in 1 .. Len(tasks) /\ Len(tasks) > 0
    BY <2>2
  <2>4. tasks[cur] \in TaskClass /\ phase \in Phase
    BY <2>1, <2>3, ElementOfSeq DEF Phase
  <2>5. Len(TheHook) \in Nat
    BY <2>4, HookGood, LenProperties DEF TheHook, GoodHook
  <2>6. step \in 1 .. Len(TheHook) + 1
    BY <2>5
  <2>7. ps \in [1 .. Len(tasks) -> Seq(Int)]
    BY <2>2, EmptySeq
  <2> QED BY <2>1, <2>2, <2>3, <2>6, <2>7, ManagerAssumption DEF MgrTypes, NoConn
<1>8. FlowInv
  <2>1. \A j \in 1 .. Len(tasks) : ~(j < 1)
    BY <1>7, LenProperties DEF MgrTypes
  <2>2. TaskInv
    BY <2>1 DEF TaskInv
  <2>3. ConnInv /\ MainInv
    BY <1>1 DEF ConnInv, MainInv
  <2>4. AsyncInv
    BY <1>1, <1>3 DEF AsyncInv, Caller
  <2> QED BY <2>2, <2>3, <2>4 DEF FlowInv
<1>9. CallsInv
  <2>1. OwnerInv /\ PipesOpen
    BY DEF OwnerInv, PipesOpen, InCall
  <2>2. SendInv
    BY <1>3 DEF SendInv, Unsent
  <2>3. AnswerInv
    BY <1>3 DEF AnswerInv
  <2> QED BY <2>1, <2>2, <2>3 DEF CallsInv
<1>10. OidInv
  <2>1. \A j \in 1 .. Len(tasks) : Len(ps[j]) = 0
    BY <1>7, LenProperties, EmptySeq DEF MgrTypes
  <2> QED BY <1>3, <2>1 DEF OidInv
<1>11. TableInv
  <2>1. DOMAIN oids = {0} /\ Cardinality({0}) = 1
    BY FS_Singleton
  <2>2. {h \in Rid : hnd[h].at = "done"} = {} /\ Cardinality({}) = 0
    BY <1>3, FS_EmptySet
  <2>3. Cardinality(DOMAIN oids) <= 1 + Cardinality({h \in Rid : hnd[h].at = "done"})
    <3>1. PICK D : D = {h \in Rid : hnd[h].at = "done"}
      OBVIOUS
    <3>2. Cardinality(D) = 0 /\ Cardinality(DOMAIN oids) = 1
      BY <2>1, <2>2, <3>1
    <3> HIDE DEF Init, HostInit, RpcInit
    <3>3. Cardinality(DOMAIN oids) <= 1 + Cardinality(D)
      BY <3>2
    <3> QED BY <3>1, <3>3
  <2> QED BY <1>3, <2>3 DEF TableInv
<1>12. WaitInv /\ WaitExact
  BY <1>3 DEF WaitInv, WaitExact
<1> QED BY <1>4, <1>5, <1>6, <1>7, <1>8, <1>9, <1>10, <1>11, <1>12 DEF MIInv, Types

LEMMA NextMI ==
  ASSUME MIInv, [Next]_vars
  PROVE  MIInv'
<1>1. CASE ManagerStep
  BY <1>1, LocalKept, ConnectKept, HostCallKept, SyncKept, ProcKept, CloseKept, ReturnsKept,
     DoneKept, ExitKept DEF ManagerStep
<1>2. CASE HostStep /\ UNCHANGED mgrVars
  BY <1>2, HostKept
<1>3. CASE (ServerCrash \/ (\E p \in Rid : ProcFails(p))) /\ UNCHANGED mgrVars
  BY <1>3, HostKept
<1>4. CASE Interrupt
  BY <1>4, InterruptKept
<1>5. CASE UNCHANGED vars
  <2>1. UNCHANGED <<thr, callVars, sendVars, recv, replies, server, hnd, oids, procVars,
                    tasks, phase, cur, step, failed, tstate, rConn, ps, interrupts>>
    BY <1>5 DEF vars, hostVars, rpcVars, clientVars, serverVars, mgrVars, position
  <2>2. ThreadsStart /\ MgrOnly
    BY <2>1, QuietThreads
  <2>3. MgrTypes' /\ FlowInv'
    BY <2>1, FlowStay DEF MIInv, Types, MgrTypes, TheHook, ThreadsGoOn
  <2> QED BY <2>2, <2>3, MgrKept
<1> QED BY <1>1, <1>2, <1>3, <1>4, <1>5 DEF Next, SystemStep, Fault
\* MIInv holds in every state of every run of the manager, for any list of
\* tasks and any number of clients, calls, interrupts and lost servers.
THEOREM ManagerInvariance == Spec => []MIInv
<1>1. Init => MIInv
  BY InitMI
<1>2. MIInv /\ [Next]_vars => MIInv'
  BY NextMI
<1> QED BY <1>1, <1>2, PTL DEF Spec

\* When Manager.run is over every task is STOPPED, but for those that a reset
\* which an interrupt ended had not come to; and when run raised, and its reset
\* was not interrupted, Host has dropped its connection.
THEOREM EverythingStopped == Spec => []AllStopped
<1>1. MIInv => AllStopped
  <2> SUFFICES ASSUME MIInv, phase \in {"over", "exited"}
               PROVE  /\ \A j \in DOMAIN tasks : tstate[j] = "STOPPED" \/ (failed = "escaped" /\ j <= cur)
                      /\ failed = "raised" => rConn = NoConn
    BY DEF AllStopped
  <2>1. DOMAIN tasks = 1 .. Len(tasks)
    BY LenProperties DEF MIInv, Types, MgrTypes
  <2>2. phase # "reset"
    OBVIOUS
  <2> QED BY <2>1, <2>2 DEF MIInv, FlowInv, TaskInv, ConnInv
<1> QED BY <1>1, ManagerInvariance, PTL

\* The receive loop only ever writes to open pipes, of calls under way or of
\* calls that raised.
THEOREM PipesStayOpen == Spec => []PipesOpen
<1>1. MIInv => PipesOpen
  BY DEF MIInv, CallsInv
<1> QED BY <1>1, ManagerInvariance, PTL

\* Every call that waits for its answer has its entry in outstanding, or its
\* answer: no reply, lost server or interrupt makes the receive loop forget it.
THEOREM NoCallForgotten == Spec => []NoneForgotten
<1>1. MIInv => NoneForgotten
  BY DEF MIInv, CallsInv, OwnerInv, NoneForgotten
<1> QED BY <1>1, ManagerInvariance, PTL

\* However many requests wait for a process, each is answered by its exit code.
THEOREM WaitsExact == Spec => []WaitExact
<1>1. MIInv => WaitExact
  BY DEF MIInv
<1> QED BY <1>1, ManagerInvariance, PTL

-----------------------------------------------------------------------------
(***************************************************************************)
(* The calls implement Calls: each is executed at most once and returns    *)
(* once, with the result of its own execution or an exception.             *)
(***************************************************************************)
\* What the refinement mapping reads.
ResultMap == [r \in Rid |-> hnd[r].res]

SameResults == \A r \in Rid : hnd'[r].res = hnd[r].res

\* A step that makes no call, executes none and returns from none.
LEMMA Unseen ==
  ASSUME UNCHANGED <<rid, out>>, SameResults
  PROVE  UNCHANGED Service!vars
BY DEF SameResults, Service!vars

\* A registration is an abstract Issue.
LEMMA RegisterIssues ==
  ASSUME MIInv, NEW t \in Caller, Register(t)
  PROVE  Service!Issue(rid) /\ rid \in Rid
<1>1. /\ rid \in Nat /\ rid \in Rid /\ rid' = rid + 1 /\ UNCHANGED <<hnd, out>>
  BY RpcAssumption DEF MIInv, Types, ClientTypes, Register, serverVars, Rid
<1>2. rid \notin 0 .. rid - 1 /\ 0 .. rid' - 1 = (0 .. rid - 1) \cup {rid}
  BY <1>1
<1> QED BY <1>1, <1>2 DEF Service!Issue

\* The call r returns v to its thread.
Gives(r, v) == out' = [out EXCEPT ![r] = v] /\ UNCHANGED <<rid, hnd>>

\* A thread leaves the try statement with the exception, or with what the
\* receive loop left for its call: an abstract Return.
LEMMA AnswerReturns ==
  ASSUME MIInv, NEW t \in Caller, NEW v, thr[t].at \in {"raise", "try", "put", "read"},
         v = Exc \/ (v = cell[thr[t].rid] /\ v # NoVal),
         Gives(thr[t].rid, v)
  PROVE  \E r \in Rid : Service!Return(r)
<1> USE DEF MIInv, Types, CallsInv
<1>1. PICK r \in Rid : r = thr[t].rid
  BY DEF ClientTypes, OwnerInv, InCall
<1>2. r < rid /\ out[r] = NoVal /\ r \in 0 .. rid - 1
  <2>1. r < rid /\ out[r] = NoVal
    BY <1>1 DEF OwnerInv, InCall
  <2> QED BY <2>1 DEF ClientTypes, Rid
<1>3. out' = [out EXCEPT ![r] = v] /\ out'[r] = v
  BY <1>1 DEF ClientTypes, Gives
<1>4. v \in {hnd[r].res, Exc} \ {NoVal}
  <2>1. Exc # NoVal
    BY DEF Exc, NoVal
  <2> QED BY <1>1, <2>1 DEF AnswerInv
<1>5. Service!Return(r)
  BY <1>2, <1>3, <1>4 DEF Service!Return, Gives
<1> QED BY <1>5

\* A step of one handler, at work, that may end with its result: an abstract
\* Execute, or nothing to see.
LEMMA HandlerExecutes ==
  ASSUME MIInv, MIInv', NEW h \in Rid, hnd[h].at \notin {"none", "done"},
         \A q \in Rid \ {h} : hnd'[q] = hnd[q], UNCHANGED <<rid, out>>
  PROVE  Service!Execute(h) \/ UNCHANGED Service!vars
<1> USE DEF MIInv, Types, CallsInv
<1>1. hnd[h].res = NoVal /\ h < rid
  <2>1. ~Unsent(h)
    BY DEF SendInv
  <2> QED BY <2>1 DEF AnswerInv, Unsent, ClientTypes, Rid
<1>2. CASE hnd'[h].res = NoVal
  BY <1>1, <1>2, Unseen DEF SameResults
<1>3. CASE hnd'[h].res # NoVal
  <2>1. hnd'[h].res \in Results
    BY <1>3 DEF TableInv
  <2>2. h \in 0 .. rid - 1
    BY <1>1 DEF ClientTypes, Rid
  <2>3. /\ ResultMap[h] = NoVal /\ ResultMap'[h] = hnd'[h].res
        /\ ResultMap' = [ResultMap EXCEPT ![h] = ResultMap'[h]]
    BY <1>1 DEF ResultMap
  <2> QED BY <2>1, <2>2, <2>3 DEF Service!Execute, ResultMap
<1> QED BY <1>2, <1>3

\* Every method works in its own handler.
LEMMA OneHandler ==
  ASSUME MIInv, NEW h \in Rid, Method(h) \/ Store(h)
  PROVE  /\ hnd[h].at \notin {"none", "done"} /\ UNCHANGED <<rid, out>>
         /\ \A q \in Rid \ {h} : hnd'[q] = hnd[q]
<1>1. hnd \in [Rid -> HandlerType]
  BY DEF MIInv, Types, ServerTypes, HandlerType
<1>2. ASSUME NEW res, Reply(h, res) PROVE \A q \in Rid \ {h} : hnd'[q] = hnd[q]
  BY <1>1, <1>2 DEF Reply
<1>3. ASSUME MakeProxy(h) PROVE \A q \in Rid \ {h} : hnd'[q] = hnd[q]
  BY <1>1, <1>3 DEF MakeProxy
<1>4. ASSUME NEW c, Checked(h, c) PROVE \A q \in Rid \ {h} : hnd'[q] = hnd[q]
  BY <1>2, <1>3, <1>4 DEF Checked
<1>5. ASSUME NEW p, Reap(h, p) PROVE \A q \in Rid \ {h} : hnd'[q] = hnd[q]
  BY <1>4, <1>5 DEF Reap
<1>6. UNCHANGED <<rid, out>>
  BY DEF Method, Store, getUserRoot, FileMethod, run_pipe, run_popen, wait_enter, wait_locked,
         wait_waitpid, kill, clientVars, callVars
<1>7. hnd[h].at \notin {"none", "done"}
  BY DEF Method, Store, Called, getUserRoot, FileMethod, run_pipe, run_popen, wait_enter, wait_locked,
         wait_waitpid, kill
<1>8. CASE getUserRoot(h) \/ FileMethod(h) \/ kill(h) \/ Store(h)
  BY <1>6, <1>7, <1>2, <1>3, <1>8 DEF getUserRoot, FileMethod, kill, Store
<1>9. CASE run_pipe(h)
  BY <1>6, <1>7, <1>1, <1>2, <1>9 DEF run_pipe
<1>10. CASE run_popen(h)
  BY <1>6, <1>7, <1>1, <1>2, <1>3, <1>10 DEF run_popen
<1>11. CASE wait_enter(h)
  BY <1>6, <1>7, <1>1, <1>11 DEF wait_enter
<1>12. CASE wait_locked(h)
  BY <1>6, <1>7, <1>1, <1>2, <1>4, <1>5, <1>12 DEF wait_locked
<1>13. CASE wait_waitpid(h)
  BY <1>6, <1>7, <1>1, <1>2, <1>5, <1>13 DEF wait_waitpid
<1> QED BY <1>6, <1>7, <1>8, <1>9, <1>10, <1>11, <1>12, <1>13 DEF Method

\* The steps of the client.
LEMMA ClientSeen ==
  ASSUME MIInv, ClientStep \/ InterruptCall
  PROVE  (\E r \in Rid : Service!Issue(r) \/ Service!Return(r)) \/ UNCHANGED Service!vars
<1>1. ASSUME NEW t \in Caller, Register(t) PROVE \E r \in Rid : Service!Issue(r)
  BY <1>1, RegisterIssues
<1>2. ASSUME NEW t \in Caller, Refused(t) PROVE \E r \in Rid : Service!Return(r)
  <2>1. thr[t].at = "raise" /\ Gives(thr[t].rid, Exc)
    BY <1>2 DEF Refused, serverVars, Gives
  <2> QED BY <2>1, AnswerReturns
<1>3. ASSUME NEW t \in Caller, Read(t) PROVE \E r \in Rid : Service!Return(r)
  <2>1. thr[t].at = "read" /\ Gives(thr[t].rid, cell[thr[t].rid]) /\ cell[thr[t].rid] # NoVal
    BY <1>3 DEF Read, serverVars, Gives
  <2> QED BY <2>1, AnswerReturns
<1>4. ASSUME InterruptCall PROVE (\E r \in Rid : Service!Return(r)) \/ UNCHANGED Service!vars
  <2>1. Main \in Caller
    BY DEF Caller
  <2>2. /\ thr[Main].at \in {"try", "put", "read", "clean", "close"}
        /\ Gives(thr[Main].rid, Exc)
    BY <1>4 DEF InterruptCall, serverVars, Gives
  <2>3. CASE thr[Main].at \in {"try", "put", "read"}
    BY <2>1, <2>2, <2>3, AnswerReturns
  <2>4. CASE thr[Main].at \in {"clean", "close"}
    <3>1. out[thr[Main].rid] = Exc /\ out \in [Rid -> Answer]
      BY <2>1, <2>4 DEF MIInv, CallsInv, OwnerInv, Types, ClientTypes
    <3>2. UNCHANGED <<out, rid, hnd>>
      BY <2>2, <3>1 DEF Gives
    <3> QED BY <3>2, Unseen DEF SameResults
  <2> QED BY <2>2, <2>3, <2>4
<1>5. ASSUME NEW t \in Caller, NoPut(t) PROVE (\E r \in Rid : Service!Return(r)) \/ UNCHANGED Service!vars
  <2>1. UNCHANGED <<rid, hnd>> /\ thr[t].at = "try"
    BY <1>5 DEF NoPut, serverVars
  <2>2. CASE out' = [out EXCEPT ![thr[t].rid] = Exc]
    <3>1. Gives(thr[t].rid, Exc)
      BY <2>1, <2>2 DEF Gives
    <3> QED BY <2>1, <3>1, AnswerReturns
  <2>3. CASE UNCHANGED out
    BY <2>1, <2>3, Unseen DEF SameResults
  <2> QED BY <1>5, <2>2, <2>3 DEF NoPut
<1>6. ASSUME NEW t \in Caller, Put(t) \/ Clean(t) \/ CloseFds(t) PROVE UNCHANGED Service!vars
  BY <1>6, Unseen DEF Put, Clean, CloseFds, callVars, serverVars, SameResults
<1>7. ASSUME recvReply \/ recvEof \/ dropQueue PROVE UNCHANGED Service!vars
  BY <1>7, Unseen DEF recvReply, recvEof, dropQueue, clientVars, callVars, serverVars, SameResults
<1>8. ASSUME sendLoop PROVE UNCHANGED Service!vars
  <2>1. UNCHANGED <<rid, out>>
    BY <1>8 DEF sendLoop, clientVars, callVars
  <2>2. SameResults
    BY <1>8 DEF sendLoop, serve, SameResults, ServerTypes, MIInv, Types
  <2> QED BY <2>1, <2>2, Unseen
<1> QED BY <1>1, <1>2, <1>3, <1>4, <1>5, <1>6, <1>7, <1>8 DEF ClientStep

\* Every step of the manager, the link and the server is a step of the abstract
\* calls, or changes nothing of them.
LEMMA MappedStep ==
  ASSUME MIInv, MIInv', [Next]_vars
  PROVE  [Service!Next]_(Service!vars)
<1>1. ASSUME ClientStep \/ InterruptCall PROVE [Service!Next]_(Service!vars)
  BY <1>1, ClientSeen DEF Service!Next
<1>2. ASSUME NEW h \in Rid, Method(h) \/ Store(h) PROVE [Service!Next]_(Service!vars)
  BY <1>2, OneHandler, HandlerExecutes DEF Service!Next
<1>3. ASSUME HostEnds PROVE UNCHANGED Service!vars
  <2>1. UNCHANGED <<rid, out>>
    BY <1>3 DEF HostEnds, ServerEnds, clientVars, callVars
  <2>2. Thread("none").res = NoVal
    BY DEF Thread
  <2>3. SameResults
    BY <1>3, <2>2 DEF HostEnds, ServerEnds, SameResults, MIInv, CallsInv, AnswerInv
  <2> QED BY <2>1, <2>3, Unseen
<1>4. ASSUME UNCHANGED <<callVars, hnd>> PROVE UNCHANGED Service!vars
  BY <1>4, Unseen DEF callVars, SameResults
<1>5. CASE ManagerStep
  BY <1>4, <1>5 DEF ManagerStep, LocalStep, ConnectStep, HostCall, SyncStep, ProcStep, CloseStep,
     CallReturns, TaskDone, Exit, hostVars, rpcVars, clientVars, serverVars
<1>6. CASE HostStep
  BY <1>1, <1>2, <1>3, <1>4, <1>6 DEF HostStep, RpcStep, ServerStep, ServerEof, ProcExit, Ends,
     rpcVars, clientVars, serverVars
<1>7. CASE Fault
  BY <1>1, <1>3, <1>4, <1>7 DEF Fault, Interrupt, ServerCrash, ProcFails, Ends,
     rpcVars, clientVars, serverVars
<1>8. CASE UNCHANGED vars
  BY <1>4, <1>8 DEF vars, hostVars, rpcVars, clientVars, serverVars
<1> QED BY <1>5, <1>6, <1>7, <1>8 DEF Next, SystemStep

\* A remote call of mparts is executed at most once and returns once, with its
\* own result or an exception, whatever the threads, the interrupts and the
\* loss of the server do.
THEOREM CallsRefinement == Spec => ImplementsCalls
<1>1. Init => Service!Init
  <2> SUFFICES ASSUME Init PROVE Service!Init
    OBVIOUS
  <2>1. rid = 0 /\ out = [r \in Rid |-> NoVal] /\ hnd = [r \in Rid |-> Thread("none")]
    BY DEF Init, HostInit, RpcInit
  <2>2. Thread("none").res = NoVal /\ 0 .. rid - 1 = {}
    BY <2>1 DEF Thread
  <2> QED BY <2>1, <2>2 DEF Service!Init
<1>2. MIInv /\ MIInv' /\ [Next]_vars => [Service!Next]_(Service!vars)
  BY MappedStep
<1> QED BY <1>1, <1>2, ManagerInvariance, PTL DEF Spec, ImplementsCalls, Service!Spec
=============================================================================
