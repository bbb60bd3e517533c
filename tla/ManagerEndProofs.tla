-------------------------- MODULE ManagerEndProofs --------------------------
(***************************************************************************)
(* Proofs about how a run of Manager ends, for any list of tasks, any      *)
(* number of load clients, calls and interrupts, and a server that may be  *)
(* lost at any moment: every object id names an object of the class its    *)
(* user expects, and a run that returns leaves no process behind.          *)
(***************************************************************************)
EXTENDS ManagerProofs

-----------------------------------------------------------------------------
(* The threads and their results. *)

\* A call that has returned has an outcome.
DoneInv == \A t \in Caller : thr[t].at \in {"clean", "close", "done"} => out[thr[t].rid] # NoVal

Working == phase \in {"start", "wait", "stop"}

\* The hook has made its Async thread i and has not recorded the processes.
Collecting(i) ==
  /\ Working /\ i < step /\ step <= N + N
  /\ N + N <= Len(TheHook) /\ TheHook[N + N].do = "sync"

\* The threads that are synced with did not raise; a run that has returned
\* leaves no thread at work.
SyncInv ==
  /\ phase = "reset" => failed # "no"
  /\ \A i \in Asyncs :
       /\ Collecting(i) /\ N + i < step => thr[i].at = "done" /\ out[thr[i].rid] # Exc
       /\ failed = "no" /\ ~Working => thr[i].at \in {"idle", "done"}

-----------------------------------------------------------------------------
(* The objects. *)

ProcOps == {"wait", "poll", "kill"}

\* The user root is in the table.
Started == 1 \in DOMAIN oids

\* The ids of proxies: 1 is the user root, which is stored first.
GoodId(op, o) == IF op = "getUserRoot" THEN o = 1 ELSE o > 1

\* o is the id in the proxy of a process.
Owned(o) == o > 1 /\ \E p \in Rid : req[p].op \in RunOps /\ hnd[p].res = Proxy(o)

TableKinds ==
  /\ ~Started => DOMAIN oids = {0}
  /\ Started => hnd[0].at = "done"
  /\ \A o \in DOMAIN oids : o > 1 => oids[o].p \in Rid

HandlerKind(h) ==
  /\ hnd[h].at = "popen" \/ proc[h] # "none" => req[h].op \in RunOps
  /\ hnd[h].at \in {"wait", "waitpid"} =>
       req[h].op \in {"runWait", "wait", "poll"} /\ hnd[h].obj \in Rid
  /\ hnd[h].at = "store" =>
       req[h].op \in RunOps \cup {"getUserRoot"} /\ GoodId(req[h].op, hnd[h].id)
  /\ req[h].op \in RunOps \cup {"getUserRoot"} =>
       \/ hnd[h].res \in {NoVal, Exc}
       \/ hnd[h].res = Proxy(hnd[h].res.n) /\ GoodId(req[h].op, hnd[h].res.n)
  /\ req[h].op = "runWait" /\ (hnd[h].at \in {"wait", "waitpid", "store"} \/ hnd[h].res \notin {NoVal, Exc}) =>
       hnd[h].obj = h
  /\ req[h].op = "poll" => hnd[h].res.kind # "proxy"

\* A call is the first one, or comes when the user root is there; the methods
\* of Process are called with the id of a process.
RequestKind(r) ==
  /\ req[r].op = "getUserRoot" => r = 0
  /\ req[r].op \notin {"none", "getUserRoot"} => Started
  /\ req[r].op \in ProcOps => Owned(req[r].oid)

ThreadKind(t) ==
  /\ thr[t].at # "idle" => thr[t].req.op # "none"
  /\ thr[t].at = "call" /\ thr[t].req.op = "getUserRoot" => rid = 0
  /\ thr[t].req.op \notin {"none", "getUserRoot"} => Started
  /\ thr[t].req.op \in ProcOps => Owned(thr[t].req.oid)

\* Until Host is connected there is no call but the one that connects it.
ConnKinds ==
  /\ rConn # NoConn => Started
  /\ phase = "start" /\ rConn = NoConn =>
       /\ thr[Main].at = "idle" => rid = 0
       /\ thr[Main].at # "idle" => thr[Main].req.op = "getUserRoot"
       /\ \A i \in Asyncs : thr[i].at = "idle"
       /\ \A j \in 1 .. Len(tasks) : Len(ps[j]) = 0
  /\ \A j \in 1 .. Len(tasks) : \A i \in 1 .. Len(ps[j]) : Started /\ Owned(ps[j][i])

ObjInv ==
  /\ DoneInv /\ SyncInv
  /\ TableKinds /\ sig \subseteq Rid
  /\ \A h \in Rid : HandlerKind(h) /\ RequestKind(h)
  /\ \A t \in Caller : ThreadKind(t)
  /\ ConnKinds

-----------------------------------------------------------------------------
(* The processes. *)

\* The call r has not returned to the hook that made it.
UnderWay(r) ==
  \/ thr[Main].at \in InCall /\ thr[Main].rid = r
  \/ \E i \in Asyncs : thr[i].at \in InCall /\ thr[i].rid = r /\ Collecting(i)

Recorded(r) ==
  \E j \in 1 .. Len(tasks) : \E i \in 1 .. Len(ps[j]) : hnd[r].res = Proxy(ps[j][i])

\* A process whose call has returned is recorded by its task, or reaped.
RunsInv ==
  \A r \in Rid : r < rid /\ ~UnderWay(r) =>
    /\ req[r].op \in {"run", "runLoad"} => Recorded(r)
    /\ req[r].op = "runWait" => proc[r] = "reaped"

\* The loop over the tasks, in start order, has not come past step k of task j.
NotYet(j, k) == cur < j \/ (cur = j /\ step <= k)

\* The task j has still to record its processes.
RecAhead(j) ==
  \/ tasks[j] = "Host"
  \/ tasks[j] = "Httperf" /\ phase = "start" /\ NotYet(j, N + N)
  \/ tasks[j] = "Memcached" /\ phase = "start" /\ NotYet(j, 1)
  \/ tasks[j] = "MemcachedLoad" /\ (phase = "start" \/ (phase = "wait" /\ NotYet(j, N + N)))

\* The task j has still to wait for its process i: the load in its wait hook,
\* the others in their stop hooks, which come in reverse order.
WaitAhead(j, i) ==
  IF tasks[j] = "MemcachedLoad"
  THEN phase = "start" \/ (phase = "wait" /\ NotYet(j, N + N + i))
  ELSE phase \in {"start", "wait"} \/ (phase = "stop" /\ (j < cur \/ (cur = j /\ step <= i + i)))

\* A task records its processes once, and not more than its hooks wait for.
RecInv ==
  \A j \in 1 .. Len(tasks) :
    /\ RecAhead(j) => Len(ps[j]) = 0
    /\ Len(ps[j]) <= N
    /\ tasks[j] = "Memcached" => Len(ps[j]) <= 1

\* The main thread calls a method of the process its step is about.
ProcCallInv ==
  thr[Main].at # "idle" /\ TheHook[step].do = "proc" =>
    TheHook[step].i \in 1 .. Len(ps[cur]) /\ thr[Main].req.oid = ps[cur][TheHook[step].i]

\* wait waits for the process that its request names.
TargetInv ==
  \A h \in Rid : req[h].op = "wait" /\ hnd[h].at \in {"wait", "waitpid", "done"} =>
    hnd[h].obj = oids[req[h].oid].p

\* The processes of a task are reaped, or it has still to wait for them.
WaitedInv ==
  \A j \in 1 .. Len(tasks) : \A i \in 1 .. Len(ps[j]) :
    WaitAhead(j, i) \/ proc[oids[ps[j][i]].p] = "reaped"

\* What the end of a run rests on.
EndInv ==
  /\ ProcCallInv
  /\ failed = "no" => RunsInv /\ RecInv
  /\ ProxiesExact => TargetInv
  /\ ProxiesExact /\ failed = "no" => WaitedInv

-----------------------------------------------------------------------------
(***************************************************************************)
(* What the hooks do, and when.                                            *)
(***************************************************************************)
StepKind(s, task, ph, j) ==
  /\ s.do = "connect" <=> s.op = "getUserRoot"
  /\ s.do = "connect" => ph = "start"
  /\ s.do = "close" => ph = "reset"
  /\ s.do = "host" => /\ s.op \in {"file", "run", "runWait"}
                      /\ s.op = "run" => task = "Memcached" /\ ph = "start" /\ j = 1
  /\ s.do = "proc" <=> s.op \in ProcOps
  /\ s.do \in {"async", "sync"} => \/ task = "Httperf" /\ ph = "start"
                                   \/ task = "MemcachedLoad" /\ ph = "wait"
  /\ s.do \in {"async", "sync"} => s.op \in {"run", "runLoad"}

\* The steps of RunAll, one by one.
LEMMA RunAllSteps ==
  ASSUME NEW op \in Op
  PROVE  /\ RunAll(op) \in Seq(HookStep) /\ Len(RunAll(op)) = N + N
         /\ \A k \in 1 .. N + N : \/ k \in 1 .. N /\ RunAll(op)[k] = Step("async", op, k)
                                  \/ k - N \in 1 .. N /\ RunAll(op)[k] = Step("sync", op, k - N)
<1> DEFINE a == [i \in 1 .. N |-> Step("async", op, i)]
           s == [i \in 1 .. N |-> Step("sync", op, i)]
<1>1. N \in Nat \ {0}
  BY NPositive
<1>2. \A i \in 1 .. N : Step("async", op, i) \in HookStep /\ Step("sync", op, i) \in HookStep
  BY <1>1 DEF Step, HookStep, Op
<1>3. a \in Seq(HookStep) /\ s \in Seq(HookStep) /\ Len(a) = N /\ Len(s) = N
  BY <1>1, <1>2
<1>4. /\ a \o s \in Seq(HookStep) /\ Len(a \o s) = N + N
      /\ \A i \in 1 .. N + N : (a \o s)[i] = IF i <= N THEN a[i] ELSE s[i - N]
  BY <1>1, <1>3, ConcatProperties
<1>5. ASSUME NEW k \in 1 .. N + N
      PROVE  \/ k \in 1 .. N /\ (a \o s)[k] = Step("async", op, k)
             \/ k - N \in 1 .. N /\ (a \o s)[k] = Step("sync", op, k - N)
  <2> HIDE DEF a, s
  <2>1. CASE k <= N
    <3>1. k \in 1 .. N
      BY <1>1, <2>1
    <3> QED BY <1>4, <2>1, <3>1 DEF a
  <2>2. CASE ~(k <= N)
    <3>1. k - N \in 1 .. N
      BY <1>1, <2>2
    <3> QED BY <1>4, <2>2, <3>1 DEF s
  <2> QED BY <2>1, <2>2
<1> QED BY <1>4, <1>5 DEF RunAll

\* The steps of the loops over the processes.
LEMMA EachSteps ==
  /\ WaitEach \in Seq(HookStep) /\ Len(WaitEach) = N
  /\ \A k \in 1 .. N : WaitEach[k] = OnProc("wait", k)
  /\ KillEach \in Seq(HookStep) /\ Len(KillEach) = N + N
  /\ \A k \in 1 .. N + N : \E op \in {"kill", "wait"}, i \in 1 .. N : KillEach[k] = OnProc(op, i)
  /\ \A i \in 1 .. N : KillEach[i + i] = OnProc("wait", i)
<1>1. N \in Nat \ {0} /\ Len(<<"kill", "wait">>) = 2 /\ Len(<<"wait">>) = 1
      /\ N * 2 = N + N /\ N * 1 = N
  BY NPositive
<1>2. WaitEach \in Seq(HookStep) /\ KillEach \in Seq(HookStep)
  BY EachCalm, SeqMonotonic DEF WaitEach, KillEach, ProcCall, CalmStep
<1>3. WaitEach = [j \in 1 .. N * 1 |-> OnProc(<<"wait">>[((j - 1) % 1) + 1], ((j - 1) \div 1) + 1)]
  BY <1>1 DEF WaitEach, ForEach
<1>4. KillEach = [j \in 1 .. N * 2 |-> OnProc(<<"kill", "wait">>[((j - 1) % 2) + 1], ((j - 1) \div 2) + 1)]
  BY <1>1 DEF KillEach, ForEach
<1>5. Len(WaitEach) = N /\ Len(KillEach) = N + N
  BY <1>1, <1>2, <1>3, <1>4
<1>6. ASSUME NEW k \in 1 .. N PROVE WaitEach[k] = OnProc("wait", k)
  <2>1. ((k - 1) % 1) + 1 = 1 /\ ((k - 1) \div 1) + 1 = k
    BY <1>1
  <2> QED BY <1>1, <1>3, <2>1
<1>7. ASSUME NEW k \in 1 .. N + N
      PROVE  \E op \in {"kill", "wait"}, i \in 1 .. N : KillEach[k] = OnProc(op, i)
  <2>1. ((k - 1) % 2) + 1 \in 1 .. 2 /\ ((k - 1) \div 2) + 1 \in 1 .. N
    BY <1>1
  <2>2. <<"kill", "wait">>[((k - 1) % 2) + 1] \in {"kill", "wait"}
    BY <2>1
  <2> QED BY <1>1, <1>4, <2>1, <2>2
<1>8. ASSUME NEW i \in 1 .. N PROVE KillEach[i + i] = OnProc("wait", i)
  <2>1. i + i \in 1 .. N * 2 /\ ((i + i - 1) % 2) + 1 = 2 /\ ((i + i - 1) \div 2) + 1 = i
    BY <1>1
  <2>2. <<"kill", "wait">>[((i + i - 1) % 2) + 1] = "wait"
    BY <2>1
  <2> QED BY <1>4, <2>1, <2>2
<1> QED BY <1>2, <1>5, <1>6, <1>7, <1>8

\* Where the steps of two hooks in a row are.
LEMMA CatSteps ==
  ASSUME NEW S, NEW s1 \in Seq(S), NEW s2 \in Seq(S), NEW m, NEW n, Len(s1) = m, Len(s2) = n
  PROVE  /\ s1 \o s2 \in Seq(S) /\ Len(s1 \o s2) = m + n
         /\ \A k \in 1 .. m + n : (s1 \o s2)[k] = IF k <= m THEN s1[k] ELSE s2[k - m]
BY ConcatProperties

\* Every step of every hook is of its kind; where the hooks wait for the
\* processes.
LEMMA HookKinds ==
  ASSUME NEW task \in TaskClass, NEW ph \in Phase
  PROVE  /\ \A j \in 1 .. Len(Hook(task, ph)) : StepKind(Hook(task, ph)[j], task, ph, j)
         /\ task = "Httperf" /\ ph = "stop" =>
              Len(Hook(task, ph)) = N + N /\ \A i \in 1 .. N : Hook(task, ph)[i + i] = OnProc("wait", i)
         /\ task = "Memcached" /\ ph = "stop" =>
              Len(Hook(task, ph)) = 2 /\ Hook(task, ph)[2] = OnProc("wait", 1)
         /\ task = "MemcachedLoad" /\ ph = "wait" =>
              /\ Len(Hook(task, ph)) = N + N + N + 2
              /\ \A i \in 1 .. N : Hook(task, ph)[N + N + i] = OnProc("wait", i)
         /\ task = "Httperf" /\ ph = "start" => Len(Hook(task, ph)) = N + N
         /\ task = "Memcached" /\ ph = "start" => Len(Hook(task, ph)) = 2
<1>0. N \in Nat \ {0}
  BY NPositive
<1>1. CASE task = "Host"
  <2>1. Hook(task, ph) = HostHook(ph)
    BY <1>1 DEF Hook
  <2>2. CASE ph = "start"
    <3>1. Hook(task, ph) = <<Local, Connect, OnHost("file")>>
      BY <2>1, <2>2 DEF HostHook
    <3> QED BY <1>1, <2>2, <3>1 DEF StepKind, Local, Connect, OnHost, Step, ProcOps
  <2>3. CASE ph = "stop"
    <3>1. Hook(task, ph) = <<OnHost("file"), Local>>
      BY <2>1, <2>3 DEF HostHook
    <3> QED BY <1>1, <2>3, <3>1 DEF StepKind, Local, OnHost, Step, ProcOps
  <2>4. CASE ph = "reset"
    <3>1. Hook(task, ph) = <<CloseConn>>
      BY <2>1, <2>4 DEF HostHook
    <3> QED BY <1>1, <2>4, <3>1 DEF StepKind, CloseConn, Step, ProcOps
  <2>5. CASE ph \notin {"start", "stop", "reset"}
    <3>1. Hook(task, ph) = <<>>
      BY <2>1, <2>5 DEF HostHook
    <3> QED BY <1>1, <2>5, <3>1
  <2> QED BY <2>2, <2>3, <2>4, <2>5
<1>2. CASE task = "Httperf"
  <2>1. Hook(task, ph) = HttperfHook(ph)
    BY <1>2 DEF Hook
  <2>2. CASE ph = "start"
    <3>1. Hook(task, ph) = RunAll("run")
      BY <2>1, <2>2 DEF HttperfHook
    <3>2. /\ Len(RunAll("run")) = N + N
          /\ \A k \in 1 .. N + N : \E i : RunAll("run")[k] \in {Step("async", "run", i), Step("sync", "run", i)}
      BY RunAllSteps DEF Op
    <3>3. \A k \in 1 .. N + N : StepKind(RunAll("run")[k], task, ph, k)
      BY <1>2, <2>2, <3>2 DEF StepKind, Step, ProcOps
    <3> QED BY <1>2, <2>2, <3>1, <3>2, <3>3
  <2>3. CASE ph \in {"stop", "reset"}
    <3>1. Hook(task, ph) = KillEach
      BY <2>1, <2>3 DEF HttperfHook
    <3>2. \A k \in 1 .. N + N : StepKind(KillEach[k], task, ph, k)
      BY EachSteps DEF StepKind, OnProc, Step, ProcOps
    <3> QED BY <1>2, <2>3, <3>1, <3>2, EachSteps
  <2>4. CASE ph \notin {"start", "stop", "reset"}
    <3>1. Hook(task, ph) = <<>>
      BY <2>1, <2>4 DEF HttperfHook
    <3> QED BY <1>2, <2>4, <3>1
  <2> QED BY <2>2, <2>3, <2>4
<1>3. CASE task = "Memcached"
  <2>1. Hook(task, ph) = MemcachedHook(ph)
    BY <1>3 DEF Hook
  <2>2. CASE ph = "start"
    <3>1. Hook(task, ph) = <<OnHost("run"), OnProc("poll", 1)>>
      BY <2>1, <2>2 DEF MemcachedHook
    <3> QED BY <1>3, <2>2, <3>1 DEF StepKind, OnHost, OnProc, Step, ProcOps
  <2>3. CASE ph \in {"stop", "reset"}
    <3>1. Hook(task, ph) = <<OnProc("kill", 1), OnProc("wait", 1)>>
      BY <2>1, <2>3 DEF MemcachedHook
    <3> QED BY <1>3, <2>3, <3>1 DEF StepKind, OnProc, Step, ProcOps
  <2>4. CASE ph \notin {"start", "stop", "reset"}
    <3>1. Hook(task, ph) = <<>>
      BY <2>1, <2>4 DEF MemcachedHook
    <3> QED BY <1>3, <2>4, <3>1
  <2> QED BY <2>2, <2>3, <2>4
<1>4. CASE task = "MemcachedLoad"
  <2>1. Hook(task, ph) = MemcachedLoadHook(ph)
    BY <1>4 DEF Hook
  <2>2. CASE ph = "start"
    <3>1. Hook(task, ph) = <<OnHost("runWait")>>
      BY <2>1, <2>2 DEF MemcachedLoadHook
    <3> QED BY <1>4, <2>2, <3>1 DEF StepKind, OnHost, Step, ProcOps
  <2>3. CASE ph = "wait"
    <3> DEFINE a == RunAll("runLoad")
               b == <<OnHost("file"), Local>>
    <3>1. Hook(task, ph) = (a \o WaitEach) \o b
      BY <2>1, <2>3 DEF MemcachedLoadHook
    <3>2. /\ a \in Seq(HookStep) /\ Len(a) = N + N
          /\ \A k \in 1 .. N + N : \E i : a[k] \in {Step("async", "runLoad", i), Step("sync", "runLoad", i)}
      BY RunAllSteps DEF Op
    <3>3. b \in Seq(HookStep) /\ Len(b) = 2
      BY DEF OnHost, Local, Step, HookStep, Op
    <3>4. /\ b[1] = OnHost("file") /\ b[2] = Local
      OBVIOUS
    <3> HIDE DEF a, b
    <3>5. /\ a \o WaitEach \in Seq(HookStep) /\ Len(a \o WaitEach) = N + N + N
          /\ \A k \in 1 .. N + N + N : (a \o WaitEach)[k] = IF k <= N + N THEN a[k] ELSE WaitEach[k - (N + N)]
      <4>1. PICK w \in Seq(HookStep) : w = WaitEach /\ Len(w) = N
        BY EachSteps
      <4>2. /\ a \o w \in Seq(HookStep) /\ Len(a \o w) = (N + N) + N
            /\ \A k \in 1 .. (N + N) + N : (a \o w)[k] = IF k <= N + N THEN a[k] ELSE w[k - (N + N)]
        <5>1. PICK x \in Seq(HookStep), m \in Nat : x = a /\ m = N + N /\ Len(x) = m
          BY <1>0, <3>2
        <5>2. /\ x \o w \in Seq(HookStep) /\ Len(x \o w) = m + N
              /\ \A k \in 1 .. m + N : (x \o w)[k] = IF k <= m THEN x[k] ELSE w[k - m]
          BY <4>1, <5>1, CatSteps
        <5> QED BY <5>1, <5>2
      <4> QED BY <4>1, <4>2
    <3>6. PICK c \in Seq(HookStep) : c = a \o WaitEach
      BY <3>5
    <3>7. /\ Len(c \o b) = N + N + N + 2
          /\ \A k \in 1 .. N + N + N + 2 : (c \o b)[k] = IF k <= N + N + N THEN c[k] ELSE b[k - (N + N + N)]
      <4>1. Len(c) = N + N + N
        BY <3>5, <3>6
      <4>2. PICK y, m, n : y = b /\ m = N + N + N /\ n = 2
        OBVIOUS
      <4>3. y \in Seq(HookStep) /\ Len(c) = m /\ Len(y) = n
        BY <3>3, <4>1, <4>2
      <4>4. /\ Len(c \o y) = m + n
            /\ \A k \in 1 .. m + n : (c \o y)[k] = IF k <= m THEN c[k] ELSE y[k - m]
        BY <4>3, CatSteps
      <4> QED BY <4>2, <4>4
    <3>8. ASSUME NEW i \in 1 .. N PROVE (c \o b)[N + N + i] = OnProc("wait", i)
      <4>1. /\ N + N + i \in 1 .. N + N + N + 2 /\ N + N + i \in 1 .. N + N + N
            /\ ~(N + N + i <= N + N) /\ (N + N + i) - (N + N) = i /\ N + N + i <= N + N + N
        BY <1>0
      <4>2. (c \o b)[N + N + i] = c[N + N + i]
        BY <3>7, <4>1
      <4>3. c[N + N + i] = WaitEach[(N + N + i) - (N + N)]
        BY <3>5, <3>6, <4>1
      <4>4. WaitEach[i] = OnProc("wait", i)
        BY EachSteps
      <4> QED BY <4>1, <4>2, <4>3, <4>4
    <3>9. ASSUME NEW k \in 1 .. N + N + N + 2
          PROVE  \/ k \in 1 .. N + N /\ (c \o b)[k] = a[k]
                 \/ \E i \in 1 .. N : k = N + N + i
                 \/ (c \o b)[k] \in {b[1], b[2]}
      <4>1. CASE k <= N + N
        <5>1. k \in 1 .. N + N /\ k \in 1 .. N + N + N /\ k <= N + N + N
          BY <1>0, <4>1
        <5> QED BY <3>5, <3>6, <3>7, <4>1, <5>1
      <4>2. CASE k > N + N /\ k <= N + N + N
        <5>1. k - (N + N) \in 1 .. N /\ k = N + N + (k - (N + N))
          BY <1>0, <4>2
        <5> QED BY <5>1
      <4>3. CASE k > N + N + N
        <5>1. k - (N + N + N) \in {1, 2} /\ ~(k <= N + N + N)
          BY <1>0, <4>3
        <5> QED BY <3>7, <5>1
      <4>4. k <= N + N \/ (k > N + N /\ k <= N + N + N) \/ k > N + N + N
        BY <1>0
      <4> QED BY <4>1, <4>2, <4>3, <4>4
    <3>10. ASSUME NEW k \in 1 .. N + N + N + 2 PROVE StepKind((c \o b)[k], task, ph, k)
      <4>1. \A i : /\ StepKind(Step("async", "runLoad", i), task, ph, k)
                   /\ StepKind(Step("sync", "runLoad", i), task, ph, k)
                   /\ StepKind(OnProc("wait", i), task, ph, k)
                   /\ StepKind(OnHost("file"), task, ph, k) /\ StepKind(Local, task, ph, k)
        BY <1>4, <2>3 DEF StepKind, OnProc, OnHost, Local, Step, ProcOps
      <4>2. CASE k \in 1 .. N + N /\ (c \o b)[k] = a[k]
        BY <3>2, <4>1, <4>2
      <4>3. CASE \E i \in 1 .. N : k = N + N + i
        BY <3>8, <4>1, <4>3
      <4>4. CASE (c \o b)[k] \in {b[1], b[2]}
        BY <3>4, <4>1, <4>4
      <4> QED BY <3>9, <4>2, <4>3, <4>4
    <3> QED BY <1>4, <2>3, <3>1, <3>6, <3>7, <3>8, <3>10
  <2>4. CASE ph \notin {"start", "wait"}
    <3>1. Hook(task, ph) = <<>>
      BY <2>1, <2>4 DEF MemcachedLoadHook
    <3> QED BY <1>4, <2>4, <3>1
  <2> QED BY <2>2, <2>3, <2>4
<1> QED BY <1>1, <1>2, <1>3, <1>4 DEF TaskClass

\* The step the manager is at.
LEMMA StepIs ==
  ASSUME MgrTypes
  PROVE  /\ step <= Len(TheHook) => StepKind(TheHook[step], tasks[cur], phase, step)
         /\ tasks[cur] \in TaskClass /\ phase \in Phase
<1>1. tasks[cur] \in TaskClass /\ phase \in Phase
  BY ElementOfSeq DEF MgrTypes, Phase
<1>2. step <= Len(TheHook) => step \in 1 .. Len(TheHook)
  BY TheHookGood
<1> QED BY <1>1, <1>2, HookKinds DEF TheHook

-----------------------------------------------------------------------------
(***************************************************************************)
(* The steps of the client.                                                *)
(***************************************************************************)
\* The call of the thread t gets the next number.
Registers(t) ==
  /\ thr[t].at = "call" /\ thr'[t].at \in {"raise", "try"} /\ thr'[t].rid = rid
  /\ rid \in Rid /\ rid' = rid + 1
  /\ req'[rid] = thr[t].req /\ \A r \in Rid \ {rid} : req'[r] = req[r]
  /\ \A u \in Caller \ {t} : thr'[u] = thr[u]

\* The thread t stays, goes on in its call, or registers it.
ThreadMove(t) ==
  /\ thr'[t].req = thr[t].req
  /\ \/ thr'[t] = thr[t]
     \/ Registers(t)
     \/ thr[t].at \in InCall \ {"done"} /\ thr'[t].at \in InCall /\ thr'[t].rid = thr[t].rid
  /\ thr'[t].at \in {"clean", "close", "done"} => out'[thr'[t].rid] # NoVal
  /\ thr[t].at = "done" => out'[thr[t].rid] = out[thr[t].rid]

ClientMove ==
  /\ \A t \in Caller : ThreadMove(t)
  /\ (rid' = rid /\ req' = req) \/ \E t \in Caller : Registers(t)
  /\ \A h \in Rid : \/ hnd'[h] = hnd[h]
                    \/ /\ hnd[h].at = "none" /\ hnd'[h].at = "new"
                       /\ hnd'[h].obj = hnd[h].obj /\ hnd'[h].res = hnd[h].res
  /\ UNCHANGED <<oids, procVars>>

\* A call registers.
LEMMA RegisterMoves ==
  ASSUME MIInv, DoneInv, NEW t \in Caller, Register(t)
  PROVE  Registers(t) /\ UNCHANGED <<out, hnd, oids>> /\ thr'[t].req = thr[t].req
<1> USE DEF MIInv, Types
<1>1. rid \in Rid /\ UNCHANGED <<out, hnd, oids>>
  BY RpcAssumption DEF ClientTypes, Register, Rid, serverVars
<1>2. PICK l \in {"raise", "try"} : thr' = [thr EXCEPT ![t].at = l, ![t].rid = rid]
  BY DEF Register
<1>3. /\ thr'[t].at = l /\ thr'[t].rid = rid /\ thr'[t].req = thr[t].req
      /\ \A u \in Caller \ {t} : thr'[u] = thr[u]
  BY <1>2 DEF ClientTypes
<1>4. req'[rid] = thr[t].req /\ \A r \in Rid \ {rid} : req'[r] = req[r]
  BY <1>1 DEF ClientTypes, Register
<1> QED BY <1>1, <1>3, <1>4 DEF Registers, Register

\* A thread goes on in its call, and may leave it with v.
LEMMA GoesOn ==
  ASSUME MIInv, DoneInv, NEW t \in Caller, NEW place \in InCall, thr[t].at \in InCall \ {"done"},
         Goto(t, place),
         \/ /\ \E v \in Answer \ {NoVal} : out' = [out EXCEPT ![thr[t].rid] = v]
         \/ out' = out /\ (place \in {"clean", "close", "done"} => thr[t].at \in {"clean", "close", "done"})
  PROVE  \A u \in Caller : ThreadMove(u)
<1> USE DEF MIInv, Types, CallsInv
<1>1. Moves(t, place) /\ place \in Place
  BY GotoMoves DEF InCall, Place
<1>2. PICK r \in Rid : r = thr[t].rid
  BY DEF ClientTypes, OwnerInv
<1>3. \A q \in Rid \ {r} : out'[q] = out[q]
  BY <1>2 DEF ClientTypes
<1>4. ASSUME NEW u \in Caller, u # t, thr[u].at \in InCall
      PROVE  thr[u].rid \in Rid \ {r}
  BY <1>2, <1>4 DEF OwnerInv, ClientTypes
<1>5. ASSUME NEW u \in Caller, u # t
      PROVE  ThreadMove(u)
  <2>1. thr'[u] = thr[u]
    BY <1>1, <1>5 DEF Moves
  <2>2. thr[u].at \in InCall => out'[thr[u].rid] = out[thr[u].rid]
    BY <1>3, <1>4, <1>5
  <2> QED BY <2>1, <2>2 DEF ThreadMove, DoneInv, InCall
<1>6. ThreadMove(t)
  <2>1. place \in {"clean", "close", "done"} => out'[r] # NoVal
    <3>1. CASE \E v \in Answer \ {NoVal} : out' = [out EXCEPT ![thr[t].rid] = v]
      BY <1>2, <3>1 DEF ClientTypes
    <3>2. CASE out' = out /\ (place \in {"clean", "close", "done"} => thr[t].at \in {"clean", "close", "done"})
      BY <1>2, <3>2 DEF DoneInv
    <3> QED BY <3>1, <3>2
  <2> QED BY <1>1, <1>2, <2>1 DEF ThreadMove, Moves
<1> QED BY <1>5, <1>6

\* A step of the client, seen from the threads and the handlers.
LEMMA ClientMoves ==
  ASSUME MIInv, DoneInv, ClientStep \/ InterruptCall \/ UNCHANGED rpcVars, UNCHANGED procVars
  PROVE  ClientMove
<1> USE DEF MIInv, Types, CallsInv
<1>0. Exc \in Answer \ {NoVal}
  BY DEF Exc, NoVal, Answer
<1>1. ASSUME UNCHANGED <<rid, req, hnd, oids>>, \A u \in Caller : ThreadMove(u)
      PROVE  ClientMove
  BY <1>1 DEF ClientMove
<1>2. ASSUME UNCHANGED <<thr, out>>
      PROVE  \A u \in Caller : ThreadMove(u)
  BY <1>2 DEF ThreadMove, DoneInv
<1>3. ASSUME NEW t \in Caller, Register(t) PROVE ClientMove
  <2>1. Registers(t) /\ UNCHANGED <<out, hnd, oids>> /\ thr'[t].req = thr[t].req
    BY <1>3, RegisterMoves
  <2>2. \A u \in Caller : ThreadMove(u)
    BY <2>1 DEF ThreadMove, DoneInv, Registers
  <2> QED BY <2>1, <2>2 DEF ClientMove
<1>4. ASSUME NEW t \in Caller, ThreadStep(t) PROVE ClientMove
  <2>1. UNCHANGED <<rid, req, hnd, oids>>
    BY <1>4 DEF ThreadStep, Refused, NoPut, Put, Read, Clean, CloseFds, serverVars, callVars
  <2>2. CASE Refused(t)
    <3>1. thr[t].at = "raise" /\ Goto(t, "done") /\ out' = [out EXCEPT ![thr[t].rid] = Exc]
      BY <2>2 DEF Refused
    <3> QED BY <1>0, <1>1, <2>1, <3>1, GoesOn DEF InCall
  <2>3. CASE Put(t)
    <3>1. thr[t].at \in {"try", "put"} /\ Goto(t, "read") /\ out' = out
      BY <2>3 DEF Put, callVars
    <3> QED BY <1>1, <2>1, <3>1, GoesOn DEF InCall
  <2>7. CASE NoPut(t)
    <3>1. thr[t].at = "try"
      BY <2>7 DEF NoPut
    <3>2. CASE Goto(t, "clean") /\ out' = [out EXCEPT ![thr[t].rid] = Exc]
      BY <1>0, <1>1, <2>1, <3>1, <3>2, GoesOn DEF InCall
    <3>3. CASE Goto(t, "put") /\ out' = out
      BY <1>1, <2>1, <3>1, <3>3, GoesOn DEF InCall
    <3> QED BY <2>7, <3>2, <3>3 DEF NoPut
  <2>4. CASE Read(t)
    <3>1. PICK v : v = cell[thr[t].rid]
      OBVIOUS
    <3>2. thr[t].at = "read" /\ Goto(t, "done") /\ out' = [out EXCEPT ![thr[t].rid] = v] /\ v # NoVal
      BY <2>4, <3>1 DEF Read
    <3>3. v \in Answer \ {NoVal}
      BY <3>1, <3>2 DEF ClientTypes, OwnerInv, InCall
    <3> QED BY <1>1, <2>1, <3>2, <3>3, GoesOn DEF InCall
  <2>5. CASE Clean(t)
    BY <1>1, <2>1, <2>5, GoesOn DEF InCall, Clean
  <2>6. CASE CloseFds(t)
    BY <1>1, <2>1, <2>6, GoesOn DEF InCall, CloseFds
  <2> QED BY <1>4, <2>2, <2>3, <2>4, <2>5, <2>6, <2>7 DEF ThreadStep
<1>5. ASSUME InterruptCall PROVE ClientMove
  <2>1. /\ UNCHANGED <<rid, req, hnd, oids>> /\ Main \in Caller
        /\ thr[Main].at \in {"try", "put", "read", "clean", "close"}
        /\ out' = [out EXCEPT ![thr[Main].rid] = Exc]
    BY <1>5 DEF InterruptCall, serverVars, Caller
  <2>2. PICK l \in {"clean", "done"} : Goto(Main, l)
    BY <1>5 DEF InterruptCall
  <2>3. \A u \in Caller : ThreadMove(u)
    BY <1>0, <2>1, <2>2, GoesOn DEF InCall
  <2> QED BY <1>1, <2>1, <2>3
<1>6. ASSUME dropQueue \/ recvReply \/ recvEof \/ UNCHANGED rpcVars PROVE ClientMove
  <2>1. UNCHANGED <<thr, out, rid, req, hnd, oids>>
    BY <1>6 DEF dropQueue, recvReply, recvEof, rpcVars, clientVars, callVars, serverVars
  <2> QED BY <1>1, <1>2, <2>1
<1>7. ASSUME sendLoop PROVE ClientMove
  <2>1. UNCHANGED <<thr, out, rid, req, oids>> /\ sendQ # <<>>
    BY <1>7 DEF sendLoop, clientVars, callVars
  <2>2. \/ hnd' = hnd
        \/ serve(Head(sendQ)) /\ Head(sendQ) # Close
    <3>1. send' = "get" => Head(sendQ) # Close
      BY <1>7 DEF sendLoop
    <3> QED BY <1>7, <3>1 DEF sendLoop
  <2>3. \A h \in Rid : \/ hnd'[h] = hnd[h]
                       \/ /\ hnd[h].at = "none" /\ hnd'[h].at = "new"
                          /\ hnd'[h].obj = hnd[h].obj /\ hnd'[h].res = hnd[h].res
    <3>1. CASE hnd' = hnd
      BY <3>1
    <3>2. CASE serve(Head(sendQ)) /\ Head(sendQ) # Close
      <4>1. PICK r \in Rid : sendQ = <<r>> /\ Head(sendQ) = r
        BY <2>1, <3>2 DEF ClientTypes
      <4>2. hnd[r].at = "none"
        BY <4>1 DEF SendInv, Unsent
      <4>3. hnd' = [hnd EXCEPT ![r].at = "new"]
        BY <3>2, <4>1 DEF serve
      <4> QED BY <4>2, <4>3 DEF ServerTypes
    <3> QED BY <2>2, <3>1, <3>2
  <2> QED BY <1>2, <2>1, <2>3 DEF ClientMove
<1> QED BY <1>3, <1>4, <1>5, <1>6, <1>7 DEF ClientStep, ThreadStep

-----------------------------------------------------------------------------
(***************************************************************************)
(* The steps of the server.                                                *)
(***************************************************************************)
ProxyOps == RunOps \cup {"getUserRoot"}

\* What the handler h does next, without the table.
Goes(h) ==
  /\ oids' = oids
  /\ \/ /\ hnd[h].at = "new" /\ req[h].op \in RunOps /\ hnd'[h].at = "popen"
        /\ hnd'[h].res = hnd[h].res
     \/ /\ hnd'[h].at = "wait" /\ hnd'[h].res = hnd[h].res
        /\ \/ hnd[h].at = "popen" /\ req[h].op = "runWait" /\ hnd'[h].obj = h
           \/ hnd[h].at = "new" /\ req[h].op \in {"wait", "poll"} /\ hnd'[h].obj = Target(h).p
     \/ /\ hnd[h].at = "wait" /\ hnd'[h].at = "waitpid"
        /\ hnd'[h].obj = hnd[h].obj /\ hnd'[h].res = hnd[h].res /\ req[h].op # "poll"
     \/ /\ hnd'[h].at = "store" /\ hnd'[h].id = Cardinality(DOMAIN oids)
        /\ hnd'[h].obj = hnd[h].obj /\ hnd'[h].res = hnd[h].res
        /\ \/ hnd[h].at = "new" /\ req[h].op = "getUserRoot"
           \/ hnd[h].at = "popen" /\ req[h].op # "runWait"
           \/ hnd[h].at \in {"wait", "waitpid"} /\ req[h].op \in RunOps
     \/ /\ hnd'[h].at = "done" /\ hnd'[h].obj = hnd[h].obj
        /\ hnd'[h].res \in {Exc, Val(0), Val(-1)}
        /\ req[h].op \in ProxyOps => hnd'[h].res = Exc
        /\ req[h].op = "wait" => hnd[h].at \in {"wait", "waitpid"}

\* It stores its object and is done.
Stores(h) ==
  /\ hnd[h].at = "store" /\ hnd'[h].at = "done"
  /\ hnd'[h].obj = hnd[h].obj /\ hnd'[h].res = Proxy(hnd[h].id)
  /\ DOMAIN oids' = DOMAIN oids \cup {hnd[h].id}
  /\ oids'[hnd[h].id] = IF req[h].op = "getUserRoot" THEN UserRoot ELSE [cls |-> "proc", p |-> h]
  /\ \A o \in DOMAIN oids : o # hnd[h].id => oids'[o] = oids[o]

\* The processes of a step of h: it starts its own, and reaps the one it has.
ProcMove(h) ==
  \A q \in Rid :
    /\ proc[q] = "reaped" => proc'[q] = "reaped"
    /\ proc'[q] # "none" => proc[q] # "none" \/ (q = h /\ hnd[h].at = "popen")

HandlerMove(h) ==
  /\ hnd[h].at \notin {"none", "done"} /\ \A q \in Rid \ {h} : hnd'[q] = hnd[q]
  /\ Goes(h) \/ Stores(h)
  /\ ProcMove(h)
  /\ sig' = sig \/ (req[h].op = "kill" /\ sig' \subseteq sig \cup {Target(h).p})

\* What wait does with an exit code.
LEMMA CheckedGoes ==
  ASSUME MIInv, NEW h \in Rid, HandlerKind(h), NEW c, Checked(h, c), hnd[h].at \in {"wait", "waitpid"},
         oids' = oids
  PROVE  Goes(h)
<1> USE DEF MIInv, Types
<1>1. CASE c = 0 /\ req[h].op \in RunOps
  <2>1. Placed(h, "store", hnd[h].obj, Cardinality(DOMAIN oids))
    BY <1>1, ProxyPlaced DEF Checked
  <2> QED BY <1>1, <2>1 DEF Goes, Placed
<1>2. CASE ~(c = 0 /\ req[h].op \in RunOps)
  <2>1. PICK v : v = (IF c = 0 THEN Val(0) ELSE Exc) /\ Reply(h, v)
    BY <1>2 DEF Checked
  <2>2. v \in Answer
    BY <2>1 DEF Val, Exc, Answer
  <2>3. Replied(h, v)
    BY <2>1, <2>2, ReplyReplied
  <2>4. req[h].op \in ProxyOps => v = Exc
    <3>1. req[h].op # "getUserRoot"
      BY DEF HandlerKind
    <3> QED BY <1>2, <2>1, <3>1 DEF ProxyOps
  <2> QED BY <2>1, <2>3, <2>4 DEF Goes, Replied
<1> QED BY <1>1, <1>2

\* A reply of a method that makes no object.
LEMMA ReplyGoes ==
  ASSUME MIInv, NEW h \in Rid, NEW v \in {Exc, Val(0), Val(-1)}, Reply(h, v), oids' = oids,
         req[h].op \in ProxyOps => v = Exc, req[h].op = "wait" => hnd[h].at \in {"wait", "waitpid"}
  PROVE  Goes(h)
<1>1. v \in Answer
  BY DEF Val, Exc, Answer
<1>2. Replied(h, v)
  BY <1>1, ReplyReplied DEF MIInv, Types
<1> QED BY <1>2 DEF Goes, Replied

\* The steps of a handler that has no process.
LEMMA EarlyMoves ==
  ASSUME MIInv, NEW h \in Rid, HandlerKind(h),
         getUserRoot(h) \/ FileMethod(h) \/ run_pipe(h) \/ wait_enter(h) \/ kill(h)
  PROVE  Goes(h) /\ ProcMove(h) /\ (sig' = sig \/ (req[h].op = "kill" /\ sig' \subseteq sig \cup {Target(h).p}))
<1> USE DEF MIInv, Types
<1>1. /\ oids' = oids /\ proc' = proc /\ hnd[h].at = "new"
      /\ sig' = sig \/ (req[h].op = "kill" /\ sig' \subseteq sig \cup {Target(h).p})
  BY DEF getUserRoot, FileMethod, run_pipe, wait_enter, kill, procVars, Called
<1>2. ProcMove(h)
  BY <1>1 DEF ProcMove
<1>3. hnd \in [Rid -> HandlerType]
  BY DEF ServerTypes, HandlerType
<1>4. CASE getUserRoot(h)
  <2>1. Placed(h, "store", hnd[h].obj, Cardinality(DOMAIN oids)) /\ req[h].op = "getUserRoot"
    BY <1>4, ProxyPlaced DEF getUserRoot, Called
  <2> QED BY <1>1, <1>2, <2>1 DEF Goes, Placed
<1>5. CASE FileMethod(h)
  <2>1. PICK v \in {Val(0), Exc} : Reply(h, v) /\ req[h].op = "file"
    BY <1>5 DEF FileMethod, Called
  <2> QED BY <1>1, <1>2, <2>1, ReplyGoes DEF ProxyOps, RunOps
<1>6. CASE run_pipe(h)
  <2>1. CASE Reply(h, Exc)
    BY <1>1, <1>2, <1>6, <2>1, ReplyGoes DEF run_pipe, Called, RunOps
  <2>2. CASE hnd' = [hnd EXCEPT ![h].at = "popen"]
    <3>1. hnd'[h].at = "popen" /\ hnd'[h].res = hnd[h].res
      BY <1>3, <2>2 DEF HandlerType
    <3> QED BY <1>1, <1>2, <1>6, <3>1 DEF Goes, run_pipe, Called
  <2> QED BY <1>6, <2>1, <2>2 DEF run_pipe
<1>7. CASE wait_enter(h)
  <2>1. PICK p : p = Target(h).p
    OBVIOUS
  <2>2. hnd' = [hnd EXCEPT ![h].at = "wait", ![h].obj = p]
    BY <1>7, <2>1 DEF wait_enter
  <2>3. hnd'[h].at = "wait" /\ hnd'[h].res = hnd[h].res /\ hnd'[h].obj = p
    BY <1>3, <2>2 DEF HandlerType
  <2> QED BY <1>1, <1>2, <1>7, <2>1, <2>3 DEF Goes, wait_enter, Called
<1>8. CASE kill(h)
  <2>1. PICK v \in {Val(0), Exc} : Reply(h, v) /\ req[h].op = "kill"
    BY <1>8 DEF kill, Called
  <2> QED BY <1>1, <1>2, <2>1, ReplyGoes DEF ProxyOps, RunOps
<1> QED BY <1>4, <1>5, <1>6, <1>7, <1>8

\* The process it has is reaped.
LEMMA ReapMoves ==
  ASSUME MIInv, NEW h \in Rid, HandlerKind(h), NEW p \in Rid, proc[p] = "zombie",
         Reap(h, p), hnd[h].at \in {"wait", "waitpid"}, oids' = oids
  PROVE  Goes(h) /\ ProcMove(h)
<1>1. Goes(h)
  BY CheckedGoes DEF Reap
<1>2. proc' = [proc EXCEPT ![p] = "reaped"] /\ proc \in [Rid -> {"none", "live", "zombie", "reaped"}]
  BY DEF Reap, MIInv, Types, ProcTypes
<1>3. ProcMove(h)
  BY <1>2 DEF ProcMove
<1> QED BY <1>1, <1>3

\* The steps that have to do with processes.
LEMMA ProcMoves ==
  ASSUME MIInv, NEW h \in Rid, HandlerKind(h), run_popen(h) \/ wait_locked(h) \/ wait_waitpid(h)
  PROVE  Goes(h) /\ ProcMove(h) /\ sig' = sig
<1> USE DEF MIInv, Types
<1>1. oids' = oids /\ sig' = sig
  BY DEF run_popen, wait_locked, wait_waitpid
<1>2. hnd \in [Rid -> HandlerType] /\ proc \in [Rid -> {"none", "live", "zombie", "reaped"}]
  BY DEF ServerTypes, HandlerType, ProcTypes
<1>3. proc' = proc => ProcMove(h)
  BY DEF ProcMove
<1>4. CASE run_popen(h)
  <2>1. hnd[h].at = "popen" /\ req[h].op \in RunOps
    BY <1>4 DEF run_popen, HandlerKind
  <2>2. CASE Reply(h, Exc) /\ UNCHANGED proc
    BY <1>1, <1>3, <2>1, <2>2, ReplyGoes DEF RunOps
  <2>3. CASE proc' = [proc EXCEPT ![h] = "live"]
    <3>1. ProcMove(h)
      <4>1. proc[h] = "none"
        BY <2>1 DEF WaitInv
      <4> QED BY <1>2, <2>1, <2>3, <4>1 DEF ProcMove
    <3>2. CASE req[h].op = "runWait" /\ hnd' = [hnd EXCEPT ![h].at = "wait", ![h].obj = h]
      <4>1. hnd'[h].at = "wait" /\ hnd'[h].res = hnd[h].res /\ hnd'[h].obj = h
        BY <1>2, <3>2 DEF HandlerType
      <4> QED BY <1>1, <2>1, <3>1, <3>2, <4>1 DEF Goes
    <3>3. CASE req[h].op # "runWait" /\ MakeProxy(h)
      <4>1. Placed(h, "store", hnd[h].obj, Cardinality(DOMAIN oids))
        BY <3>3, ProxyPlaced
      <4> QED BY <1>1, <2>1, <3>1, <3>3, <4>1 DEF Goes, Placed
    <3>4. CASE Reply(h, Exc)
      BY <1>1, <2>1, <3>1, <3>4, ReplyGoes DEF RunOps
    <3> QED BY <1>4, <3>2, <3>3, <3>4 DEF run_popen
  <2> QED BY <1>4, <2>2, <2>3 DEF run_popen
<1>5. CASE wait_locked(h)
  <2>1. PICK p \in Rid : p = hnd[h].obj /\ hnd[h].at = "wait"
    BY <1>5 DEF wait_locked, HandlerKind
  <2>2. CASE Checked(h, returncode[p]) /\ UNCHANGED proc
    BY <1>1, <1>3, <2>1, <2>2, CheckedGoes
  <2>3. CASE proc[p] = "zombie" /\ Reap(h, p)
    BY <1>1, <2>1, <2>3, ReapMoves
  <2>4. CASE req[h].op = "poll" /\ Reply(h, Val(-1)) /\ UNCHANGED proc
    BY <1>1, <1>3, <2>4, ReplyGoes DEF ProxyOps, RunOps
  <2>5. CASE req[h].op # "poll" /\ hnd' = [hnd EXCEPT ![h].at = "waitpid"] /\ UNCHANGED proc
    <3>1. hnd'[h].at = "waitpid" /\ hnd'[h].res = hnd[h].res /\ hnd'[h].obj = hnd[h].obj
      BY <1>2, <2>5 DEF HandlerType
    <3> QED BY <1>1, <1>3, <2>1, <2>5, <3>1 DEF Goes
  <2> QED BY <1>5, <2>1, <2>2, <2>3, <2>4, <2>5 DEF wait_locked
<1>6. CASE wait_waitpid(h)
  <2>1. PICK p \in Rid : p = hnd[h].obj /\ hnd[h].at = "waitpid"
    BY <1>6 DEF wait_waitpid, HandlerKind
  <2>2. CASE proc[p] = "zombie" /\ Reap(h, p)
    BY <1>1, <2>1, <2>2, ReapMoves
  <2>3. CASE Reply(h, Exc) /\ UNCHANGED proc
    BY <1>1, <1>3, <2>1, <2>3, ReplyGoes
  <2> QED BY <1>6, <2>1, <2>2, <2>3 DEF wait_waitpid
<1> QED BY <1>1, <1>4, <1>5, <1>6

\* An object is stored.
LEMMA StoreMoves ==
  ASSUME MIInv, NEW h \in Rid, Store(h)
  PROVE  Stores(h)
<1> USE DEF MIInv, Types
<1>1. PICK id \in Nat : id = hnd[h].id
  BY DEF ServerTypes
<1>2. PICK obj : obj = IF req[h].op = "getUserRoot" THEN UserRoot ELSE [cls |-> "proc", p |-> h]
  OBVIOUS
<1>3. oids' = [o \in DOMAIN oids \cup {id} |-> IF o = id THEN obj ELSE oids[o]]
  BY <1>1, <1>2 DEF Store
<1>4. /\ DOMAIN oids' = DOMAIN oids \cup {id} /\ oids'[id] = obj
      /\ \A o \in DOMAIN oids : o # id => oids'[o] = oids[o]
  BY <1>3
<1>5. Proxy(id) \in Answer /\ Reply(h, Proxy(id))
  BY <1>1 DEF Proxy, Answer, Store
<1>6. Replied(h, Proxy(id))
  BY <1>5, ReplyReplied
<1> QED BY <1>1, <1>2, <1>4, <1>6 DEF Stores, Replied, Store

\* A step of the server, seen from the handlers, the table and the processes.
LEMMA HandlerMoves ==
  ASSUME MIInv, NEW h \in Rid, HandlerKind(h), Method(h) \/ (Store(h) /\ UNCHANGED procVars)
  PROVE  HandlerMove(h)
<1>1. /\ hnd[h].at \notin {"none", "done"} /\ \A q \in Rid \ {h} : hnd'[q] = hnd[q]
  BY OneHandler
<1>2. CASE Method(h)
  BY <1>1, <1>2, EarlyMoves, ProcMoves DEF Method, HandlerMove
<1>3. CASE Store(h) /\ UNCHANGED procVars
  <2>1. ProcMove(h) /\ sig' = sig
    BY <1>3 DEF procVars, ProcMove
  <2> QED BY <1>1, <1>3, <2>1, StoreMoves DEF HandlerMove
<1> QED BY <1>2, <1>3

-----------------------------------------------------------------------------
(***************************************************************************)
(* ObjInv is kept.                                                         *)
(***************************************************************************)
\* The table grows, and what a handler has done stays done.
Keeps ==
  /\ DOMAIN oids \subseteq DOMAIN oids'
  /\ \A p \in Rid : hnd[p].at = "done" => hnd'[p] = hnd[p] /\ req'[p] = req[p]

\* The id of a process stays one.
LEMMA OwnedStays ==
  ASSUME MIInv, Keeps
  PROVE  (Started => Started') /\ \A o : Owned(o) => Owned(o)'
<1>1. Started => Started'
  BY DEF Keeps, Started
<1>2. ASSUME NEW o, o > 1, NEW p \in Rid, req[p].op \in RunOps, hnd[p].res = Proxy(o)
      PROVE  req'[p].op \in RunOps /\ hnd'[p].res = Proxy(o)
  <2>1. Proxy(o) # NoVal
    BY DEF Proxy, NoVal
  <2>2. hnd[p].at = "done"
    BY <1>2, <2>1 DEF MIInv, CallsInv, AnswerInv
  <2> QED BY <1>2, <2>2 DEF Keeps
<1>3. \A o : Owned(o) => Owned(o)'
  BY <1>2 DEF Owned
<1> QED BY <1>1, <1>3

ServerFrame == UNCHANGED <<thr, rid, req, out, tasks, phase, cur, step, failed, rConn, ps>>

\* What a step of the server leaves to be looked at.
LEMMA ServerKept ==
  ASSUME MIInv, ObjInv, ServerFrame, Keeps, TableKinds', sig' \subseteq Rid,
         \A h \in Rid : HandlerKind(h)'
  PROVE  ObjInv'
<1>1. UNCHANGED <<thr, rid, req, out, tasks, phase, cur, step, failed, rConn, ps>>
  BY DEF ServerFrame
<1>2. (Started => Started') /\ \A o : Owned(o) => Owned(o)'
  BY OwnedStays
<1>3. DoneInv'
  BY <1>1 DEF ObjInv, DoneInv
<1>4. SyncInv'
  <2>1. \A i \in Asyncs : Collecting(i)' <=> Collecting(i)
    BY <1>1 DEF Collecting, Working, TheHook
  <2>2. Working' <=> Working
    BY <1>1 DEF Working
  <2> QED BY <1>1, <2>1, <2>2 DEF ObjInv, SyncInv
<1>5. \A h \in Rid : RequestKind(h)'
  BY <1>1, <1>2 DEF ObjInv, RequestKind
<1>6. \A t \in Caller : ThreadKind(t)'
  BY <1>1, <1>2 DEF ObjInv, ThreadKind
<1>7. ConnKinds'
  BY <1>1, <1>2 DEF ObjInv, ConnKinds
<1> QED BY <1>3, <1>4, <1>5, <1>6, <1>7 DEF ObjInv

\* How many objects there are.
LEMMA TableGrown ==
  ASSUME MIInv, TableKinds
  PROVE  /\ Started => Cardinality(DOMAIN oids) > 1
         /\ ~Started => Cardinality(DOMAIN oids) = 1
<1>1. IsFiniteSet(DOMAIN oids) /\ 0 \in DOMAIN oids
  BY DEF MIInv, Types, ServerTypes, OidInv
<1>2. ASSUME Started PROVE Cardinality(DOMAIN oids) > 1
  <2>1. {0, 1} \subseteq DOMAIN oids
    BY <1>1, <1>2 DEF Started
  <2>2. IsFiniteSet({0, 1}) /\ Cardinality({0, 1}) = 2
    <3>1. {0, 1} = {0} \cup {1} /\ 1 \notin {0}
      OBVIOUS
    <3>2. IsFiniteSet({0}) /\ Cardinality({0}) = 1
      BY FS_Singleton
    <3> QED BY <3>1, <3>2, FS_AddElement
  <2>3. Cardinality({0, 1}) <= Cardinality(DOMAIN oids)
    BY <1>1, <2>1, FS_Subset
  <2>4. Cardinality(DOMAIN oids) \in Nat
    BY <1>1, FS_CardinalityType
  <2> QED BY <2>2, <2>3, <2>4
<1>3. ASSUME ~Started PROVE Cardinality(DOMAIN oids) = 1
  BY <1>3, FS_Singleton DEF TableKinds
<1> QED BY <1>2, <1>3

\* A handler takes a step.
LEMMA HandlerObj ==
  ASSUME MIInv, ObjInv, ServerFrame, NEW h \in Rid, HandlerMove(h)
  PROVE  ObjInv' /\ Keeps
<1> USE DEF MIInv, Types, CallsInv
<1>1. req' = req /\ hnd[h].at \notin {"none", "done"} /\ hnd[h].res = NoVal
      /\ \A q \in Rid \ {h} : hnd'[q] = hnd[q]
  BY DEF ServerFrame, HandlerMove, AnswerInv
<1>2. HandlerKind(h) /\ RequestKind(h) /\ TableKinds
  BY DEF ObjInv
<1>3. Keeps
  <2>1. DOMAIN oids \subseteq DOMAIN oids'
    BY DEF HandlerMove, Goes, Stores
  <2> QED BY <1>1, <2>1 DEF Keeps
<1>4. ASSUME req[h].op \in ProcOps PROVE Target(h).p \in Rid
  <2>1. Owned(req[h].oid) /\ req[h].oid \in DOMAIN oids
    BY <1>2, <1>4 DEF RequestKind, OidInv
  <2> QED BY <1>2, <2>1 DEF Owned, TableKinds, Target
<1>5. sig' \subseteq Rid
  BY <1>4 DEF HandlerMove, ObjInv, ProcOps
<1>6. ASSUME NEW q \in Rid, q # h PROVE HandlerKind(q)'
  <2>1. hnd'[q] = hnd[q] /\ req'[q] = req[q] /\ (proc'[q] # "none" => proc[q] # "none")
    BY <1>1, <1>6 DEF HandlerMove, ProcMove
  <2>2. HandlerKind(q)
    BY DEF ObjInv
  <2> QED BY <2>1, <2>2 DEF HandlerKind
<1>7. proc'[h] # "none" => req[h].op \in RunOps
  BY <1>2 DEF HandlerMove, ProcMove, HandlerKind
<1>8. CASE Goes(h)
  <2>1. oids' = oids
    BY <1>8 DEF Goes
  <2>2. TableKinds'
    <3>1. 0 \in Rid /\ (hnd[0].at = "done" => hnd'[0].at = "done")
      BY <1>1, RpcAssumption DEF Rid
    <3> QED BY <1>2, <2>1, <3>1 DEF TableKinds, Started
  <2>3. hnd'[h].at = "popen" => req[h].op \in RunOps
    BY <1>8 DEF Goes
  <2>4. hnd'[h].at \in {"wait", "waitpid"} =>
          req[h].op \in {"runWait", "wait", "poll"} /\ hnd'[h].obj \in Rid
    BY <1>2, <1>4, <1>8 DEF Goes, HandlerKind, ProcOps
  <2>5. hnd'[h].at = "store" => req[h].op \in ProxyOps /\ GoodId(req[h].op, hnd'[h].id)
    <3> SUFFICES ASSUME hnd'[h].at = "store"
                 PROVE  req[h].op \in ProxyOps /\ GoodId(req[h].op, hnd'[h].id)
      OBVIOUS
    <3>1. hnd'[h].id = Cardinality(DOMAIN oids)
      BY <1>8 DEF Goes
    <3>2. req[h].op \in ProxyOps
      BY <1>2, <1>8 DEF Goes, HandlerKind, ProxyOps
    <3>3. CASE req[h].op = "getUserRoot"
      <4>1. h = 0 /\ ~Started
        BY <1>1, <1>2, <3>3 DEF RequestKind, TableKinds
      <4> QED BY <1>2, <3>1, <3>2, <3>3, <4>1, TableGrown DEF GoodId
    <3>4. CASE req[h].op # "getUserRoot"
      <4>1. Started
        BY <1>2, <3>2, <3>4 DEF RequestKind, ProxyOps, RunOps
      <4> QED BY <1>2, <3>1, <3>2, <3>4, <4>1, TableGrown DEF GoodId
    <3> QED BY <3>3, <3>4
  <2>6. req[h].op \in ProxyOps => hnd'[h].res \in {NoVal, Exc}
    BY <1>1, <1>8 DEF Goes
  <2>7. req[h].op = "runWait" /\ (hnd'[h].at \in {"wait", "waitpid", "store"} \/ hnd'[h].res \notin {NoVal, Exc}) =>
          hnd'[h].obj = h
    BY <1>1, <1>2, <1>8 DEF Goes, HandlerKind, ProxyOps, RunOps
  <2>8. req[h].op = "poll" => hnd'[h].res.kind # "proxy"
    BY <1>1, <1>8 DEF Goes, Exc, Val, NoVal
  <2>9. HandlerKind(h)'
    BY <1>1, <1>7, <2>3, <2>4, <2>5, <2>6, <2>7, <2>8 DEF HandlerKind, ProxyOps
  <2> QED BY <1>3, <1>5, <1>6, <2>2, <2>9, ServerKept
<1>9. CASE Stores(h)
  <2>1. PICK id \in Nat : id = hnd[h].id
    BY DEF ServerTypes
  <2>2. /\ hnd'[h].at = "done" /\ hnd'[h].obj = hnd[h].obj /\ hnd'[h].res = Proxy(id) /\ hnd[h].at = "store"
        /\ DOMAIN oids' = DOMAIN oids \cup {id}
        /\ oids'[id] = IF req[h].op = "getUserRoot" THEN UserRoot ELSE [cls |-> "proc", p |-> h]
        /\ \A o \in DOMAIN oids : o # id => oids'[o] = oids[o]
    BY <1>9, <2>1 DEF Stores
  <2>3. req[h].op \in RunOps \cup {"getUserRoot"} /\ GoodId(req[h].op, id)
    BY <1>2, <2>1, <2>2 DEF HandlerKind
  <2>4. Proxy(id).n = id
    BY DEF Proxy
  <2>5. HandlerKind(h)'
    <3>1. req[h].op # "poll"
      BY <2>3 DEF RunOps
    <3> QED BY <1>1, <1>2, <1>7, <2>2, <2>3, <2>4, <3>1 DEF HandlerKind
  <2>6. TableKinds'
    <3>1. CASE req[h].op = "getUserRoot"
      <4>1. h = 0 /\ id = 1
        BY <1>2, <2>3, <3>1 DEF RequestKind, GoodId
      <4>2. \A o \in DOMAIN oids' : o > 1 => o \in DOMAIN oids /\ oids'[o] = oids[o]
        BY <2>2, <4>1
      <4> QED BY <1>2, <2>2, <4>1, <4>2 DEF TableKinds, Started
    <3>2. CASE req[h].op # "getUserRoot"
      <4>1. Started /\ id > 1 /\ hnd[0].at = "done"
        BY <1>2, <2>3, <3>2 DEF RequestKind, GoodId, TableKinds, RunOps
      <4>2. 0 \in Rid /\ hnd'[0].at = "done"
        BY <1>1, <4>1, RpcAssumption DEF Rid
      <4>3. oids'[id].p = h
        BY <2>2, <3>2
      <4>4. \A o \in DOMAIN oids' : o > 1 => oids'[o].p \in Rid
        BY <1>2, <2>2, <4>3 DEF TableKinds
      <4>5. Started'
        BY <2>2, <4>1 DEF Started
      <4> QED BY <4>2, <4>4, <4>5 DEF TableKinds
    <3> QED BY <3>1, <3>2
  <2> QED BY <1>3, <1>5, <1>6, <2>5, <2>6, ServerKept
<1> QED BY <1>8, <1>9 DEF HandlerMove

\* A process ends, or the server does.
EndMove ==
  /\ UNCHANGED <<oids, sig>>
  /\ \A h \in Rid : /\ \/ hnd'[h] = hnd[h]
                       \/ hnd[h].at # "done" /\ hnd'[h].at = "none" /\ hnd'[h].res = NoVal
                    /\ proc'[h] # "none" => proc[h] # "none"
                    /\ proc[h] = "reaped" => proc'[h] = "reaped"

\* What is left of the objects then.
LEMMA EndsObj ==
  ASSUME MIInv, ObjInv, ServerFrame, EndMove
  PROVE  ObjInv' /\ Keeps
<1>1. req' = req
  BY DEF ServerFrame
<1>2. Keeps
  BY <1>1 DEF Keeps, EndMove
<1>3. \A h \in Rid : HandlerKind(h)'
  <2>1. NoVal.kind # "proxy"
    BY DEF NoVal
  <2> QED BY <1>1, <2>1 DEF ObjInv, HandlerKind, EndMove
<1>4. TableKinds'
  <2>1. 0 \in Rid /\ (hnd[0].at = "done" => hnd'[0].at = "done")
    BY RpcAssumption DEF Rid, EndMove
  <2> QED BY <2>1 DEF ObjInv, TableKinds, Started, EndMove
<1> QED BY <1>2, <1>3, <1>4, ServerKept DEF ObjInv, EndMove

MgrFrame == UNCHANGED <<tasks, phase, cur, step, failed, rConn, ps>>

\* A call with a new number is the first one, unless Host is connected.
LEMMA ClientKeeps ==
  ASSUME MIInv, ObjInv, ClientMove
  PROVE  /\ Keeps
         /\ \A r \in Rid : \/ req'[r] = req[r]
                           \/ /\ r = rid /\ hnd[r].at = "none" /\ proc[r] = "none"
                              /\ \E t \in Caller : Registers(t) /\ req'[r] = thr[t].req
<1> USE DEF MIInv, Types, CallsInv
<1>1. \A r \in Rid : r >= rid => hnd[r].at = "none" /\ proc[r] = "none"
  BY DEF SendInv, Unsent
<1>2. \A r \in Rid : \/ req'[r] = req[r]
                     \/ /\ r = rid /\ hnd[r].at = "none" /\ proc[r] = "none"
                        /\ \E t \in Caller : Registers(t) /\ req'[r] = thr[t].req
  <2>1. rid >= rid
    BY DEF ClientTypes
  <2> QED BY <1>1, <2>1 DEF ClientMove, Registers
<1>3. Keeps
  BY <1>2 DEF Keeps, ClientMove
<1> QED BY <1>2, <1>3

\* The client takes a step.
LEMMA ClientObj ==
  ASSUME MIInv, ObjInv, ClientMove, MgrFrame
  PROVE  ObjInv' /\ Keeps
<1> USE DEF MIInv, Types, CallsInv
<1>1. /\ UNCHANGED <<tasks, phase, cur, step, failed, rConn, ps, oids, proc, sig>>
      /\ Main \in Caller /\ Asyncs \subseteq Caller /\ 0 \in Rid
  BY RpcAssumption DEF MgrFrame, ClientMove, procVars, Caller, Rid
<1>2. /\ Keeps
      /\ \A r \in Rid : \/ req'[r] = req[r]
                        \/ /\ r = rid /\ hnd[r].at = "none" /\ proc[r] = "none"
                           /\ \E t \in Caller : Registers(t) /\ req'[r] = thr[t].req
  BY ClientKeeps
<1>3. (Started <=> Started') /\ \A o : Owned(o) => Owned(o)'
  BY <1>1, <1>2, OwnedStays DEF Started
<1>4. \A t \in Caller : /\ thr'[t].req = thr[t].req
                        /\ thr[t].at \in {"idle", "done"} => thr'[t] = thr[t]
                        /\ thr'[t].at \in {"idle", "call"} => thr'[t] = thr[t]
  BY DEF ClientMove, ThreadMove, Registers, InCall
<1>5. DoneInv'
  BY DEF ClientMove, ThreadMove, DoneInv
<1>6. SyncInv'
  <2>1. \A i \in Asyncs : Collecting(i)' <=> Collecting(i)
    BY <1>1 DEF Collecting, Working, TheHook
  <2>2. Working' <=> Working
    BY <1>1 DEF Working
  <2>3. \A i \in Asyncs : thr[i].at = "done" => thr'[i] = thr[i] /\ out'[thr[i].rid] = out[thr[i].rid]
    BY <1>1, <1>4 DEF ClientMove, ThreadMove
  <2> QED BY <1>1, <1>4, <2>1, <2>2, <2>3 DEF ObjInv, SyncInv
<1>7. TableKinds'
  <2>1. hnd[0].at = "done" => hnd'[0].at = "done"
    BY <1>1, <1>2 DEF Keeps
  <2> QED BY <1>1, <1>3, <2>1 DEF ObjInv, TableKinds
<1>8. ASSUME NEW h \in Rid PROVE HandlerKind(h)'
  <2>1. HandlerKind(h)
    BY DEF ObjInv
  <2>2. hnd[h].at = "none" => hnd[h].res = NoVal
    BY DEF AnswerInv
  <2>3. CASE req'[h] = req[h]
    BY <1>1, <2>1, <2>2, <2>3 DEF HandlerKind, ClientMove
  <2>4. CASE hnd[h].at = "none" /\ proc[h] = "none"
    <3>1. hnd'[h].at \in {"none", "new"} /\ hnd'[h].res = NoVal /\ proc'[h] = "none"
      BY <1>1, <2>2, <2>4 DEF ClientMove
    <3>2. NoVal.kind # "proxy"
      BY DEF NoVal
    <3> QED BY <3>1, <3>2 DEF HandlerKind
  <2> QED BY <1>2, <2>3, <2>4
<1>9. ASSUME NEW t \in Caller, Registers(t), thr[t].req.op \notin {"none", "getUserRoot"}
      PROVE  Started /\ rid > 0
  <2>1. Started /\ hnd[0].at = "done"
    BY <1>9 DEF ObjInv, ThreadKind, TableKinds
  <2>2. ~(0 >= rid)
    BY <1>1, <2>1 DEF SendInv, Unsent
  <2> QED BY <2>1, <2>2 DEF ClientTypes
<1>10. ASSUME NEW r \in Rid PROVE RequestKind(r)'
  <2>1. CASE req'[r] = req[r]
    BY <1>3, <2>1 DEF ObjInv, RequestKind
  <2>2. CASE req'[r] # req[r]
    <3>1. PICK t \in Caller : r = rid /\ Registers(t) /\ req'[r] = thr[t].req
      BY <1>2, <2>2
    <3> QED BY <1>3, <3>1 DEF ObjInv, ThreadKind, RequestKind, Registers
  <2> QED BY <2>1, <2>2
<1>11. ASSUME NEW t \in Caller PROVE ThreadKind(t)'
  <2>1. ThreadKind(t)
    BY DEF ObjInv
  <2>2. thr'[t].at # "idle" => thr[t].at # "idle"
    BY <1>4
  <2>3. ASSUME thr'[t].at = "call", thr[t].req.op = "getUserRoot" PROVE rid' = 0
    <3>1. thr'[t] = thr[t] /\ rid = 0
      BY <1>4, <2>1, <2>3 DEF ThreadKind
    <3>2. ASSUME NEW u \in Caller, Registers(u) PROVE FALSE
      <4>1. u # t /\ thr[u].at = "call"
        BY <2>3, <3>2 DEF Registers
      <4>2. t = Main
        BY <2>3 DEF FlowInv, AsyncInv, Caller
      <4>3. u \in Asyncs
        BY <4>1, <4>2 DEF Caller
      <4>4. thr[u].req.op \notin {"none", "getUserRoot"}
        BY <3>2, <4>1, <4>3 DEF FlowInv, AsyncInv, ObjInv, ThreadKind
      <4>5. rid > 0
        BY <1>9, <3>2, <4>4
      <4> QED BY <3>1, <4>5
    <3> QED BY <3>1, <3>2 DEF ClientMove
  <2> QED BY <1>3, <1>4, <2>1, <2>2, <2>3 DEF ThreadKind
<1>12. ConnKinds'
  <2>1. ASSUME phase = "start", rConn = NoConn
        PROVE  /\ thr'[Main].at = "idle" => rid' = 0
               /\ thr'[Main].at # "idle" => thr'[Main].req.op = "getUserRoot"
               /\ \A i \in Asyncs : thr'[i].at = "idle"
    <3>1. /\ thr[Main].at = "idle" => rid = 0
          /\ thr[Main].at # "idle" => thr[Main].req.op = "getUserRoot"
          /\ \A i \in Asyncs : thr[i].at = "idle"
      BY <2>1 DEF ObjInv, ConnKinds
    <3>2. ASSUME NEW u \in Caller, Registers(u), thr'[Main].at = "idle" PROVE FALSE
      BY <1>1, <1>4, <3>1, <3>2 DEF Registers, Caller
    <3> QED BY <1>1, <1>4, <3>1, <3>2 DEF ClientMove
  <2> QED BY <1>1, <1>3, <2>1 DEF ObjInv, ConnKinds
<1>13. sig' \subseteq Rid
  BY <1>1 DEF ObjInv
<1> QED BY <1>2, <1>5, <1>6, <1>7, <1>8, <1>10, <1>11, <1>12, <1>13 DEF ObjInv

\* The steps of the manager.
MgrMove == UNCHANGED <<rid, req, out, hnd, oids, procVars, tasks>>

\* What a step of the manager leaves to be looked at.
LEMMA MgrObj ==
  ASSUME MIInv, ObjInv, MgrMove, ThreadsStart, SyncInv', ConnKinds',
         \A t \in Caller : thr'[t].at = "call" => thr'[t] = thr[t] \/ ThreadKind(t)'
  PROVE  ObjInv' /\ Keeps
<1>1. UNCHANGED <<rid, req, out, hnd, oids, proc, sig>>
  BY DEF MgrMove, procVars
<1>2. (Started' <=> Started) /\ \A o : Owned(o)' <=> Owned(o)
  BY <1>1 DEF Started, Owned
<1>3. Keeps
  BY <1>1 DEF Keeps
<1>4. DoneInv'
  <2>1. \A t \in Caller : thr'[t].at \in {"clean", "close", "done"} => thr'[t] = thr[t]
    BY DEF ThreadsStart
  <2> QED BY <1>1, <2>1 DEF DoneInv, ObjInv
<1>5. TableKinds' /\ sig' \subseteq Rid
  BY <1>1, <1>2 DEF ObjInv, TableKinds
<1>6. \A h \in Rid : HandlerKind(h)' /\ RequestKind(h)'
  BY <1>1, <1>2 DEF ObjInv, HandlerKind, RequestKind
<1>7. ASSUME NEW t \in Caller PROVE ThreadKind(t)'
  <2>1. ThreadKind(t)
    BY DEF ObjInv
  <2>2. CASE thr'[t] = thr[t]
    BY <1>1, <1>2, <2>1, <2>2 DEF ThreadKind
  <2>3. CASE thr'[t].at = "idle" /\ thr'[t].req = thr[t].req
    BY <1>1, <1>2, <2>1, <2>3 DEF ThreadKind
  <2> QED BY <2>2, <2>3 DEF ThreadsStart
<1> QED BY <1>3, <1>4, <1>5, <1>6, <1>7 DEF ObjInv

\* The run goes to its reset, or leaves it.
Leaves == phase' \in {"reset", "over"} /\ failed' # "no"

\* No thread starts a call.
Settled == ThreadsStart /\ \A t \in Caller : thr'[t].at = "call" => thr'[t] = thr[t]

\* Every exception leads to the reset, or out of it.
LEMMA RaiseLeaves ==
  ASSUME SyncInv, \/ Raise
                  \/ phase # "reset" /\ InRun
                  \/ phase = "reset" /\ InReset /\ failed' = "twice"
                  \/ Escape
  PROVE  Leaves
BY DEF SyncInv, Raise, InReset, InRun, Escape, Leaves

\* The objects of a run that raises.
LEMMA LeavesObj ==
  ASSUME MIInv, ObjInv, MgrMove, Settled, Leaves, UNCHANGED <<rConn, ps>>
  PROVE  ObjInv' /\ Keeps
<1>1. SyncInv'
  BY DEF Leaves, SyncInv, Collecting, Working
<1>2. UNCHANGED <<oids, req, hnd, tasks>>
  BY DEF MgrMove
<1>3. ConnKinds'
  BY <1>2 DEF Leaves, ObjInv, ConnKinds, Started, Owned
<1> QED BY <1>1, <1>3, MgrObj DEF Settled

\* The hook goes on, and has not found an exception in a thread.
LEMMA AdvanceSync ==
  ASSUME MIInv, ObjInv, MgrMove, Running, step <= Len(TheHook), Advance,
         \/ AsyncsStay /\ TheHook[step].do # "async"
         \/ AsyncStarts,
         TheHook[step].do = "sync" => /\ thr[TheHook[step].i].at = "done"
                                      /\ out[thr[TheHook[step].i].rid] # Exc
  PROVE  SyncInv'
<1> USE DEF MIInv, Types
<1>1. /\ UNCHANGED <<phase, cur, failed, tasks, out, TheHook>> /\ step' = step + 1
  BY DEF Advance, MgrMove, TheHook
<1>2. /\ GoodHook(TheHook) /\ Len(TheHook) \in Nat /\ step \in 1 .. Len(TheHook)
      /\ N \in Nat \ {0} /\ Asyncs = 1 .. N
  BY TheHookGood, NPositive
<1>3. ASSUME NEW i \in Asyncs, Collecting(i)', N + i < step + 1
      PROVE  thr'[i].at = "done" /\ out[thr'[i].rid] # Exc
  <2>1. Working /\ step + 1 <= N + N /\ N + N <= Len(TheHook) /\ TheHook[N + N].do = "sync"
    BY <1>1, <1>3 DEF Collecting, Working
  <2>2. /\ N + N \in 1 .. Len(TheHook) /\ N + i \in 1 .. Len(TheHook) /\ i \in 1 .. N
        /\ (N + i = step \/ N + i < step) /\ i < step /\ step <= N + N
    BY <1>2, <1>3, <2>1
  <2>3. TheHook[N + i].do = "sync" /\ TheHook[N + i].i = i
    BY <1>2, <2>1, <2>2 DEF GoodHook
  <2>4. ~(step <= N)
    BY <1>2, <2>2
  <2>5. TheHook[step].do # "async"
    BY <1>2, <2>4 DEF GoodHook
  <2>6. thr'[i] = thr[i]
    BY <2>5 DEF AsyncsStay, AsyncStarts
  <2>7. CASE N + i = step
    BY <2>3, <2>6, <2>7
  <2>8. CASE N + i < step
    BY <2>1, <2>2, <2>6, <2>8 DEF ObjInv, SyncInv, Collecting
  <2> QED BY <2>2, <2>7, <2>8
<1>4. failed = "no" => Working
  BY DEF Running, Working, ObjInv, SyncInv
<1> QED BY <1>1, <1>3, <1>4 DEF SyncInv, ObjInv, Working

\* The manager stays where it is.
LEMMA StaySync ==
  ASSUME ObjInv, MgrMove, AsyncsStay, UNCHANGED position
  PROVE  SyncInv'
<1>1. UNCHANGED <<phase, cur, step, failed, tasks, out, TheHook>>
  BY DEF MgrMove, TheHook, position
<1>2. \A i \in Asyncs : Collecting(i)' <=> Collecting(i)
  BY <1>1 DEF Collecting, Working
<1> QED BY <1>1, <1>2 DEF ObjInv, SyncInv, AsyncsStay, Working

\* The call of a thread starts.
Starts(t, oid, op) ==
  /\ ThreadsStart /\ thr'[t].at = "call" /\ thr'[t].rid = NoRid
  /\ thr'[t].req.op = op /\ thr'[t].req.oid = oid
  /\ \A u \in Caller \ {t} : thr'[u] = thr[u]

\* StartCall, thread by thread.
LEMMA CallStarts ==
  ASSUME MIInv, NEW t \in Caller, NEW oid \in DOMAIN oids, NEW op \in Op, StartCall(t, oid, op),
         thr[t].at \in {"idle", "done"}
  PROVE  Starts(t, oid, op)
<1>1. thr \in [Caller -> ThreadType]
  BY DEF MIInv, Types, ClientTypes, ThreadType
<1>2. PICK c : c = [at |-> "call", rid |-> NoRid, req |-> [oid |-> oid, op |-> op]]
  OBVIOUS
<1>3. c.rid = NoRid /\ c.req.oid = oid
  BY <1>2
<1>4. thr'[t] = c
  BY <1>1, <1>2 DEF StartCall
<1> QED BY <1>3, <1>4, StartKept DEF Starts

\* Nothing moves but the manager.
LEMMA QuietSettled ==
  ASSUME MIInv, UNCHANGED thr
  PROVE  Settled /\ AsyncsStay
BY DEF Settled, ThreadsStart, AsyncsStay, MIInv, Types, ClientTypes, ThreadType

\* Local work.
LEMMA LocalObj ==
  ASSUME MIInv, ObjInv, LocalStep
  PROVE  ObjInv' /\ Keeps
<1>1. /\ Running /\ step <= Len(TheHook) /\ TheHook[step].do = "local"
      /\ UNCHANGED <<thr, rConn, ps>> /\ MgrMove
  BY DEF LocalStep, AtStep, hostVars, rpcVars, clientVars, callVars, serverVars, MgrMove
<1>2. Settled /\ AsyncsStay
  BY <1>1, QuietSettled
<1>3. CASE Raise
  BY <1>1, <1>2, <1>3, RaiseLeaves, LeavesObj DEF ObjInv
<1>4. CASE Advance
  <2>1. SyncInv'
    BY <1>1, <1>2, <1>4, AdvanceSync
  <2>2. UNCHANGED <<phase, tasks, oids, req, hnd, rid>>
    BY <1>1, <1>4 DEF Advance, MgrMove
  <2>3. ConnKinds'
    BY <1>1, <2>2 DEF ObjInv, ConnKinds, Started, Owned
  <2> QED BY <1>1, <1>2, <2>1, <2>3, MgrObj DEF Settled
<1> QED BY <1>3, <1>4 DEF LocalStep

\* The first call.
LEMMA ConnectObj ==
  ASSUME MIInv, ObjInv, ConnectStep
  PROVE  ObjInv' /\ Keeps
<1> USE DEF MIInv, Types
<1>1. /\ Running /\ step <= Len(TheHook) /\ TheHook[step].do = "connect" /\ rConn = NoConn
      /\ thr[Main].at = "idle" /\ UNCHANGED <<rConn, ps>> /\ MgrMove
      /\ Main \in Caller /\ Main \notin Asyncs
  BY NPositive DEF ConnectStep, AtStep, callVars, MgrMove, Caller
<1>2. CASE Raise /\ UNCHANGED <<thr, server>>
  BY <1>1, <1>2, QuietSettled, RaiseLeaves, LeavesObj DEF ObjInv
<1>3. CASE StartCall(Main, 0, "getUserRoot") /\ UNCHANGED position
  <2>1. Starts(Main, 0, "getUserRoot")
    BY <1>1, <1>3, CallStarts DEF OidInv, Op
  <2>2. UNCHANGED <<phase, tasks, oids, req, hnd, rid>> /\ phase = "start"
    BY <1>1, <1>3, StepIs DEF position, MgrMove, StepKind
  <2>3. rid = 0 /\ AsyncsStay
    BY <1>1, <2>1, <2>2 DEF ObjInv, ConnKinds, AsyncsStay, Starts, Caller
  <2>4. SyncInv'
    BY <1>1, <1>3, <2>3, StaySync
  <2>5. ConnKinds'
    BY <1>1, <2>1, <2>2, <2>3 DEF ObjInv, ConnKinds, Started, Owned, Starts, AsyncsStay
  <2>6. ThreadKind(Main)'
    BY <2>1, <2>2, <2>3 DEF ThreadKind, Starts, ProcOps
  <2> QED BY <1>1, <2>1, <2>4, <2>5, <2>6, MgrObj DEF Starts
<1> QED BY <1>2, <1>3 DEF ConnectStep

\* A call of a method of Host starts in the main thread or in an Async thread.
LEMMA HostStarts ==
  ASSUME MIInv, HostCall, rConn # NoConn
  PROVE  /\ Running /\ step <= Len(TheHook) /\ MgrMove /\ UNCHANGED <<rConn, ps>> /\ thr[Main].at = "idle"
         /\ \/ /\ TheHook[step].do = "host" /\ TheHook[step].op \in {"file", "run", "runWait"}
               /\ Starts(Main, rConn, TheHook[step].op) /\ AsyncsStay /\ UNCHANGED position
            \/ /\ TheHook[step].do = "async" /\ TheHook[step].op \in {"run", "runLoad"}
               /\ step \in Asyncs /\ thr[step].at \in {"idle", "done"}
               /\ Starts(step, rConn, TheHook[step].op) /\ AsyncStarts /\ Advance
<1> USE DEF MIInv, Types
<1>1. /\ Running /\ step <= Len(TheHook) /\ TheHook[step].do \in {"host", "async"}
      /\ thr[Main].at = "idle" /\ UNCHANGED <<rConn, ps>> /\ MgrMove
      /\ Main \in Caller /\ Main \notin Asyncs /\ Main = 0
  BY NPositive DEF HostCall, AtStep, callVars, serverVars, MgrMove, Caller
<1>2. PICK s : s = TheHook[step]
  OBVIOUS
<1>3. /\ GoodHook(TheHook) /\ step \in 1 .. Len(TheHook) /\ Len(TheHook) \in Nat /\ s \in HookStep
      /\ phase # "reset" /\ StepKind(s, tasks[cur], phase, step)
  BY <1>1, <1>2, TheHookGood, StepIs
<1>4. /\ StartCall(s.i, rConn, s.op) /\ (IF s.i = Main THEN UNCHANGED position ELSE Advance)
      /\ rConn \in DOMAIN oids /\ s.op \in Op
  BY <1>2, <1>3 DEF HostCall, OidInv, HookStep
<1>5. CASE s.do = "host"
  <2>1. s.i = Main
    <3>1. s \in MainStep
      BY <1>2, <1>3, <1>5 DEF GoodHook
    <3> QED BY <1>1, <1>5, <3>1 DEF MainStep, CalmStep, Connect, Step
  <2>2. StartCall(Main, rConn, s.op) /\ UNCHANGED position
    BY <1>4, <2>1
  <2>3. Starts(Main, rConn, s.op)
    BY <1>1, <1>4, <2>2, CallStarts
  <2>4. AsyncsStay
    BY <1>1, <2>3 DEF AsyncsStay, Caller, Starts
  <2>5. s.op \in {"file", "run", "runWait"}
    BY <1>3, <1>5 DEF StepKind
  <2> QED BY <1>1, <1>2, <1>5, <2>2, <2>3, <2>4, <2>5
<1>6. CASE s.do = "async"
  <2>1. s.i = step /\ step <= N /\ s.op \in {"run", "runLoad"}
    BY <1>2, <1>3, <1>6 DEF GoodHook
  <2>2. step \in Asyncs /\ step \in Caller /\ step # Main
    BY <1>1, <1>3, <2>1, NPositive DEF Caller
  <2>3. thr[step].at \in {"idle", "done"}
    <3>1. phase \in {"start", "wait", "stop"} /\ ~(step < step)
      BY <1>1, <1>3 DEF Running
    <3> QED BY <2>2, <3>1 DEF FlowInv, AsyncInv
  <2>4. StartCall(step, rConn, s.op) /\ Advance
    BY <1>4, <2>1, <2>2
  <2>5. Starts(step, rConn, s.op)
    BY <1>4, <2>2, <2>3, <2>4, CallStarts
  <2>6. AsyncStarts
    BY <1>2, <1>6, <2>1, <2>2, <2>5 DEF AsyncStarts, Caller, Starts
  <2> QED BY <1>1, <1>2, <1>6, <2>1, <2>2, <2>3, <2>4, <2>5, <2>6
<1> QED BY <1>1, <1>2, <1>5, <1>6

\* A call of a method of Host.
LEMMA HostCallObj ==
  ASSUME MIInv, ObjInv, HostCall
  PROVE  ObjInv' /\ Keeps
<1>1. CASE rConn = NoConn
  <2>1. Raise /\ UNCHANGED <<thr, rConn, ps>> /\ MgrMove
    BY <1>1 DEF HostCall, callVars, serverVars, MgrMove
  <2> QED BY <2>1, QuietSettled, RaiseLeaves, LeavesObj DEF ObjInv
<1>2. CASE rConn # NoConn
  <2>1. Running /\ step <= Len(TheHook) /\ MgrMove /\ UNCHANGED <<rConn, ps>>
    BY <1>2, HostStarts
  <2>2. Started
    BY <1>2 DEF ObjInv, ConnKinds
  <2>3. UNCHANGED <<tasks, oids, req, hnd, rid>>
    BY <2>1 DEF MgrMove
  <2>4. ConnKinds'
    BY <1>2, <2>1, <2>3 DEF ObjInv, ConnKinds, Started, Owned
  <2>5. CASE /\ TheHook[step].do = "host" /\ TheHook[step].op \in {"file", "run", "runWait"}
             /\ Starts(Main, rConn, TheHook[step].op) /\ AsyncsStay /\ UNCHANGED position
    <3>1. SyncInv'
      BY <2>1, <2>5, StaySync
    <3>2. ThreadKind(Main)'
      BY <2>2, <2>3, <2>5 DEF ThreadKind, Starts, ProcOps, Started
    <3> QED BY <2>1, <2>4, <2>5, <3>1, <3>2, MgrObj DEF Starts
  <2>6. CASE /\ TheHook[step].do = "async" /\ TheHook[step].op \in {"run", "runLoad"}
             /\ step \in Asyncs
             /\ Starts(step, rConn, TheHook[step].op) /\ AsyncStarts /\ Advance
    <3>1. SyncInv'
      BY <2>1, <2>6, AdvanceSync
    <3>2. PICK t \in Caller : t = step
      BY <2>6 DEF Caller
    <3>3. ThreadKind(t)'
      BY <2>2, <2>3, <2>6, <3>2 DEF ThreadKind, Starts, ProcOps, Started
    <3>4. \A u \in Caller : thr'[u].at = "call" => thr'[u] = thr[u] \/ ThreadKind(u)'
      BY <2>6, <3>2, <3>3 DEF Starts
    <3> QED BY <2>1, <2>4, <2>6, <3>1, <3>4, MgrObj DEF Starts
  <2> QED BY <1>2, <2>5, <2>6, HostStarts
<1> QED BY <1>1, <1>2

\* A call that made an object and did not raise has its proxy.
LEMMA AnswerProxy ==
  ASSUME MIInv, ObjInv, NEW t \in Caller, thr[t].at = "done", thr[t].req.op \in ProxyOps,
         out[thr[t].rid] # Exc
  PROVE  /\ thr[t].rid \in Rid /\ thr[t].rid < rid /\ req[thr[t].rid] = thr[t].req
         /\ out[thr[t].rid] = hnd[thr[t].rid].res
         /\ out[thr[t].rid] = Proxy(out[thr[t].rid].n) /\ out[thr[t].rid].n \in DOMAIN oids
         /\ GoodId(thr[t].req.op, out[thr[t].rid].n)
         /\ thr[t].req.op \in RunOps => Owned(out[thr[t].rid].n)
<1> USE DEF MIInv, Types, CallsInv
<1>1. PICK r : r = thr[t].rid
  OBVIOUS
<1>2. r \in Rid /\ r < rid /\ req[r] = thr[t].req
  BY <1>1 DEF OwnerInv, ClientTypes, InCall
<1>3. out[r] = hnd[r].res /\ out[r] # NoVal
  BY <1>1, <1>2 DEF AnswerInv, ObjInv, DoneInv
<1>4. hnd[r].res = Proxy(hnd[r].res.n) /\ GoodId(req[r].op, hnd[r].res.n)
  BY <1>1, <1>2, <1>3 DEF ObjInv, HandlerKind, ProxyOps
<1>5. hnd[r].res.n \in DOMAIN oids
  BY <1>2 DEF OidInv, ProxyOps, RunOps
<1>6. req[r].op \in RunOps => Owned(hnd[r].res.n)
  BY <1>2, <1>4 DEF Owned, GoodId, RunOps
<1> QED BY <1>1, <1>2, <1>3, <1>4, <1>5, <1>6

\* Async.sync.
LEMMA SyncDo ==
  ASSUME MIInv, ObjInv, SyncStep
  PROVE  /\ Running /\ step <= Len(TheHook) /\ TheHook[step].do = "sync" /\ thr[Main].at = "idle"
         /\ MgrMove /\ UNCHANGED <<thr, rConn>> /\ phase \in {"start", "wait", "stop"}
         /\ \/ Raise /\ UNCHANGED ps
            \/ /\ Advance /\ TheHook[step].i \in Asyncs /\ step = N + TheHook[step].i
               /\ thr[TheHook[step].i].at = "done" /\ out[thr[TheHook[step].i].rid] # Exc
               /\ \/ step < N + N /\ UNCHANGED ps
                  \/ /\ step = N + N
                     /\ ps' = [ps EXCEPT ![cur] = [j \in 1 .. N |-> out[thr[j].rid].n]]
                     /\ \A j \in 1 .. N : /\ thr[j].at = "done" /\ out[thr[j].rid] # Exc
                                          /\ thr[j].req.op \in {"run", "runLoad"}
<1> USE DEF MIInv, Types
<1>1. /\ Running /\ step <= Len(TheHook) /\ TheHook[step].do = "sync" /\ thr[Main].at = "idle"
      /\ MgrMove /\ UNCHANGED <<thr, rConn>> /\ N \in Nat \ {0} /\ Asyncs = 1 .. N
  BY NPositive DEF SyncStep, AtStep, hostVars, rpcVars, clientVars, callVars, serverVars, MgrMove
<1>2. PICK i : i = TheHook[step].i
  OBVIOUS
<1>3. GoodHook(TheHook) /\ step \in 1 .. Len(TheHook) /\ Len(TheHook) \in Nat /\ phase \in {"start", "wait", "stop"}
  BY <1>1, TheHookGood DEF Running
<1>4. /\ i \in 1 .. N /\ step = N + i /\ thr[i].at = "done"
      /\ N + N <= Len(TheHook) /\ TheHook[N + N].do = "sync"
  BY <1>1, <1>2, <1>3 DEF GoodHook, SyncStep
<1>5. CASE out[thr[i].rid] = Exc
  BY <1>1, <1>2, <1>3, <1>5 DEF SyncStep
<1>6. CASE out[thr[i].rid] # Exc
  <2>1. Advance /\ ps' = IF i = N THEN [ps EXCEPT ![cur] = [j \in 1 .. N |-> out[thr[j].rid].n]] ELSE ps
    BY <1>2, <1>6 DEF SyncStep
  <2>2. CASE i # N
    <3>1. step < N + N
      BY <1>1, <1>4, <2>2
    <3> QED BY <1>1, <1>2, <1>3, <1>4, <1>6, <2>1, <2>2, <3>1
  <2>3. CASE i = N
    <3>1. ASSUME NEW j \in 1 .. N
          PROVE  /\ thr[j].at = "done" /\ out[thr[j].rid] # Exc
                 /\ thr[j].req.op \in {"run", "runLoad"}
      <4>1. j \in Asyncs /\ j \in Caller /\ j < step /\ step <= N + N /\ (j # N => N + j < step)
        BY <1>1, <1>4, <2>3 DEF Caller
      <4>2. Collecting(j)
        BY <1>3, <1>4, <4>1 DEF Collecting, Working
      <4>3. thr[j].at = "done" /\ out[thr[j].rid] # Exc
        BY <1>4, <1>6, <2>3, <4>1, <4>2 DEF ObjInv, SyncInv
      <4>4. thr[j].req.op \in {"run", "runLoad"}
        BY <4>1, <4>3 DEF ObjInv, ThreadKind, FlowInv, AsyncInv
      <4> QED BY <4>3, <4>4
    <3> QED BY <1>1, <1>2, <1>3, <1>4, <1>6, <2>1, <2>3, <3>1
  <2> QED BY <2>2, <2>3
<1> QED BY <1>5, <1>6

\* The threads are synced with, and the last one brings the record.
LEMMA SyncObj ==
  ASSUME MIInv, ObjInv, SyncStep
  PROVE  ObjInv' /\ Keeps
<1> USE DEF MIInv, Types
<1>1. /\ Running /\ step <= Len(TheHook) /\ TheHook[step].do = "sync"
      /\ MgrMove /\ UNCHANGED <<thr, rConn>>
  BY SyncDo
<1>2. Settled /\ AsyncsStay
  BY <1>1, QuietSettled
<1>3. CASE Raise /\ UNCHANGED ps
  BY <1>1, <1>2, <1>3, RaiseLeaves, LeavesObj DEF ObjInv
<1>4. CASE /\ Advance /\ TheHook[step].i \in Asyncs
           /\ thr[TheHook[step].i].at = "done" /\ out[thr[TheHook[step].i].rid] # Exc
           /\ \/ UNCHANGED ps
              \/ /\ ps' = [ps EXCEPT ![cur] = [j \in 1 .. N |-> out[thr[j].rid].n]]
                 /\ \A j \in 1 .. N : /\ thr[j].at = "done" /\ out[thr[j].rid] # Exc
                                      /\ thr[j].req.op \in {"run", "runLoad"}
  <2>1. SyncInv'
    BY <1>1, <1>2, <1>4, AdvanceSync
  <2>2. UNCHANGED <<phase, tasks, oids, req, hnd, rid>>
    BY <1>1, <1>4 DEF Advance, MgrMove
  <2>3. phase = "start" => rConn # NoConn
    BY <1>4 DEF ObjInv, ConnKinds
  <2>4. \A j \in 1 .. Len(tasks) : \A k \in 1 .. Len(ps'[j]) : Started /\ Owned(ps'[j][k])
    <3>1. CASE UNCHANGED ps
      BY <3>1 DEF ObjInv, ConnKinds
    <3>2. CASE /\ ps' = [ps EXCEPT ![cur] = [j \in 1 .. N |-> out[thr[j].rid].n]]
               /\ \A j \in 1 .. N : /\ thr[j].at = "done" /\ out[thr[j].rid] # Exc
                                    /\ thr[j].req.op \in {"run", "runLoad"}
      <4>1. ASSUME NEW j \in 1 .. N PROVE Started /\ Owned(out[thr[j].rid].n)
        <5>1. j \in Caller /\ thr[j].req.op \in RunOps /\ thr[j].req.op \in ProxyOps
          BY <3>2, NPositive DEF Caller, RunOps, ProxyOps
        <5>2. Owned(out[thr[j].rid].n)
          BY <3>2, <5>1, AnswerProxy
        <5>3. Started
          BY <5>1 DEF ObjInv, ThreadKind, RunOps
        <5> QED BY <5>2, <5>3
      <4>2. PICK q : q = [j \in 1 .. N |-> out[thr[j].rid].n]
        OBVIOUS
      <4>3. Len(q) = N /\ \A k \in 1 .. N : Started /\ Owned(q[k])
        BY <4>1, <4>2, NPositive
      <4>4. ps' = [ps EXCEPT ![cur] = q] /\ ps \in [1 .. Len(tasks) -> Seq(Int)]
        BY <3>2, <4>2 DEF MgrTypes
      <4>5. \A j \in 1 .. Len(tasks) : ps'[j] = ps[j] \/ ps'[j] = q
        BY <4>4
      <4> QED BY <4>3, <4>5 DEF ObjInv, ConnKinds
    <3> QED BY <1>4, <3>1, <3>2
  <2>5. ConnKinds'
    BY <1>1, <2>2, <2>3, <2>4 DEF ObjInv, ConnKinds, Started, Owned
  <2> QED BY <1>1, <1>2, <2>1, <2>5, MgrObj DEF Settled
<1> QED BY <1>3, <1>4, SyncDo

\* A call of a method of a process.
LEMMA ProcDo ==
  ASSUME MIInv, ProcStep
  PROVE  /\ Running /\ step <= Len(TheHook) /\ TheHook[step].do = "proc" /\ thr[Main].at = "idle"
         /\ MgrMove /\ UNCHANGED <<rConn, ps>> /\ TheHook[step].op \in ProcOps
         /\ \/ Advance /\ UNCHANGED thr /\ TheHook[step].i > Len(ps[cur])
            \/ /\ TheHook[step].i \in 1 .. Len(ps[cur])
               /\ Starts(Main, ps[cur][TheHook[step].i], TheHook[step].op) /\ AsyncsStay /\ UNCHANGED position
<1> USE DEF MIInv, Types
<1>1. /\ Running /\ step <= Len(TheHook) /\ TheHook[step].do = "proc" /\ thr[Main].at = "idle"
      /\ MgrMove /\ UNCHANGED <<rConn, ps>>
      /\ Main \in Caller /\ Main \notin Asyncs
  BY NPositive DEF ProcStep, AtStep, Caller, serverVars, callVars, MgrMove
<1>2. PICK s : s = TheHook[step]
  OBVIOUS
<1>3. GoodHook(TheHook) /\ step \in 1 .. Len(TheHook) /\ s \in HookStep /\ s.op \in ProcOps
  BY <1>1, <1>2, TheHookGood, StepIs DEF StepKind
<1>4. s.i > 0 /\ s.op \in Op /\ s.i \in Nat
  <2>1. s \in MainStep
    BY <1>1, <1>2, <1>3 DEF GoodHook
  <2> QED BY <1>1, <1>2, <1>3, <2>1 DEF MainStep, CalmStep, Connect, Step, HookStep
<1>5. CASE s.i > Len(ps[cur])
  BY <1>1, <1>2, <1>3, <1>5 DEF ProcStep
<1>6. CASE ~(s.i > Len(ps[cur]))
  <2>1. StartCall(Main, ps[cur][s.i], s.op) /\ UNCHANGED position
    BY <1>2, <1>6 DEF ProcStep
  <2>2. ps[cur] \in Seq(Int) /\ cur \in 1 .. Len(tasks) /\ Len(ps[cur]) \in Nat
    BY LenProperties DEF MgrTypes
  <2>3. s.i \in 1 .. Len(ps[cur])
    BY <1>4, <1>6, <2>2
  <2>4. ps[cur][s.i] \in DOMAIN oids
    BY <2>2, <2>3 DEF OidInv
  <2>5. Starts(Main, ps[cur][s.i], s.op)
    BY <1>1, <1>4, <2>1, <2>4, CallStarts
  <2>6. AsyncsStay
    BY <1>1, <2>5 DEF AsyncsStay, Caller, Starts
  <2> QED BY <1>1, <1>2, <1>3, <2>1, <2>3, <2>5, <2>6
<1> QED BY <1>5, <1>6

\* The hook calls a method of a process, or has none to call.
LEMMA ProcObj ==
  ASSUME MIInv, ObjInv, ProcStep
  PROVE  ObjInv' /\ Keeps
<1>1. /\ Running /\ step <= Len(TheHook) /\ TheHook[step].do = "proc" /\ thr[Main].at = "idle"
      /\ MgrMove /\ UNCHANGED <<rConn, ps>> /\ TheHook[step].op \in ProcOps
      /\ cur \in 1 .. Len(tasks)
  BY ProcDo DEF MIInv, Types, MgrTypes
<1>2. UNCHANGED <<tasks, oids, req, hnd, rid>>
  BY <1>1 DEF MgrMove
<1>3. CASE Advance /\ UNCHANGED thr
  <2>1. Settled /\ AsyncsStay
    BY <1>3, QuietSettled
  <2>2. SyncInv'
    BY <1>1, <1>3, <2>1, AdvanceSync
  <2>3. ConnKinds'
    BY <1>1, <1>2, <1>3 DEF ObjInv, ConnKinds, Started, Owned, Advance
  <2> QED BY <1>1, <2>1, <2>2, <2>3, MgrObj DEF Settled
<1>4. CASE /\ TheHook[step].i \in 1 .. Len(ps[cur])
           /\ Starts(Main, ps[cur][TheHook[step].i], TheHook[step].op) /\ AsyncsStay /\ UNCHANGED position
  <2>1. SyncInv'
    BY <1>1, <1>4, StaySync
  <2>2. Started /\ Owned(ps[cur][TheHook[step].i])
    BY <1>1, <1>4 DEF ObjInv, ConnKinds
  <2>3. phase = "start" => rConn # NoConn
    <3>1. phase = "start" /\ rConn = NoConn => Len(ps[cur]) = 0
      BY <1>1 DEF ObjInv, ConnKinds
    <3> QED BY <1>4, <3>1
  <2>4. ConnKinds'
    BY <1>1, <1>2, <1>4, <2>3 DEF ObjInv, ConnKinds, Started, Owned, position
  <2>5. ThreadKind(Main)'
    BY <1>1, <1>2, <1>4, <2>2 DEF ThreadKind, Starts, ProcOps, Started, Owned
  <2> QED BY <1>1, <1>4, <2>1, <2>4, <2>5, MgrObj DEF Starts
<1> QED BY <1>3, <1>4, ProcDo

\* The connection is dropped.
LEMMA CloseObj ==
  ASSUME MIInv, ObjInv, CloseStep
  PROVE  ObjInv' /\ Keeps
<1>1. /\ Running /\ step <= Len(TheHook) /\ TheHook[step].do = "close" /\ Advance
      /\ MgrMove /\ UNCHANGED <<thr, ps>> /\ rConn' = NoConn
  BY DEF CloseStep, AtStep, clientVars, callVars, serverVars, MgrMove
<1>2. Settled /\ AsyncsStay
  BY <1>1, QuietSettled
<1>3. SyncInv'
  BY <1>1, <1>2, AdvanceSync
<1>4. UNCHANGED <<tasks, oids, req, hnd>> /\ phase' = "reset"
  BY <1>1, StepIs DEF MIInv, Types, StepKind, Advance, MgrMove
<1>5. ConnKinds'
  BY <1>1, <1>4 DEF ObjInv, ConnKinds, Started, Owned
<1> QED BY <1>1, <1>2, <1>3, <1>5, MgrObj DEF Settled

\* The main thread's call returns.
LEMMA ReturnsDo ==
  ASSUME MIInv, ObjInv, CallReturns
  PROVE  /\ Running /\ step <= Len(TheHook) /\ TheHook[step].do \in {"connect", "host", "proc"}
         /\ thr[Main].at = "done" /\ thr[Main].req.op = TheHook[step].op
         /\ thr'[Main].at = "idle" /\ MgrMove /\ Settled /\ AsyncsStay
         /\ \/ Raise /\ UNCHANGED <<rConn, ps>>
            \/ /\ Advance /\ out[thr[Main].rid] # Exc
               /\ \/ TheHook[step].do = "connect" /\ rConn' = 1 /\ Started /\ UNCHANGED ps
                  \/ /\ TheHook[step].do = "host" /\ TheHook[step].op = "run" /\ UNCHANGED rConn
                     /\ ps' = [ps EXCEPT ![cur] = Append(@, out[thr[Main].rid].n)]
                  \/ /\ TheHook[step].do # "connect" /\ UNCHANGED <<rConn, ps>>
                     /\ ~(TheHook[step].do = "host" /\ TheHook[step].op = "run")
<1> USE DEF MIInv, Types
<1>1. /\ Running /\ thr[Main].at = "done" /\ Goto(Main, "idle") /\ MgrMove
      /\ Main \in Caller /\ Main \notin Asyncs
  BY NPositive DEF CallReturns, Caller, serverVars, callVars, MgrMove
<1>2. PICK s, v : s = TheHook[step] /\ v = out[thr[Main].rid]
  OBVIOUS
<1>3. /\ step <= Len(TheHook) /\ s.do \in {"connect", "host", "proc"} /\ thr[Main].req.op = s.op
  BY <1>1, <1>2 DEF FlowInv, MainInv
<1>4. s.do = "connect" => s.op = "getUserRoot"
  BY <1>2, <1>3, TheHookGood
<1>5. /\ IF v = Exc \/ (s.op = "poll" /\ v # Val(-1)) THEN Raise ELSE Advance
      /\ rConn' = IF s.do = "connect" /\ v # Exc THEN v.n ELSE rConn
      /\ ps' = IF s.do = "host" /\ s.op = "run" /\ v # Exc
               THEN [ps EXCEPT ![cur] = Append(@, v.n)] ELSE ps
  BY <1>2 DEF CallReturns
<1>6. thr' \in [Caller -> ThreadType] /\ Moves(Main, "idle")
  BY <1>1, GotoMoves DEF Place
<1>7. Settled /\ AsyncsStay /\ thr'[Main].at = "idle"
  BY <1>1, <1>6 DEF Settled, ThreadsStart, AsyncsStay, Moves, Caller
<1>8. ASSUME s.do = "connect", v # Exc PROVE v.n = 1 /\ Started
  <2>1. thr[Main].req.op = "getUserRoot"
    BY <1>3, <1>4, <1>8
  <2>2. v.n \in DOMAIN oids /\ GoodId("getUserRoot", v.n)
    BY <1>1, <1>2, <1>8, <2>1, AnswerProxy DEF ProxyOps
  <2> QED BY <2>2 DEF GoodId, Started
<1>9. CASE v = Exc \/ (s.op = "poll" /\ v # Val(-1))
  <2>1. UNCHANGED <<rConn, ps>> /\ Raise
    BY <1>4, <1>5, <1>9
  <2> QED BY <1>1, <1>2, <1>3, <1>7, <2>1
<1>10. CASE ~(v = Exc \/ (s.op = "poll" /\ v # Val(-1)))
  <2>1. CASE s.do = "connect"
    <3>1. rConn' = 1 /\ Started /\ UNCHANGED ps /\ Advance
      BY <1>5, <1>8, <1>10, <2>1
    <3> QED BY <1>1, <1>2, <1>3, <1>7, <1>10, <2>1, <3>1
  <2>2. CASE s.do = "host" /\ s.op = "run"
    <3>1. UNCHANGED rConn /\ Advance /\ ps' = [ps EXCEPT ![cur] = Append(@, v.n)]
      BY <1>5, <1>10, <2>2
    <3> QED BY <1>1, <1>2, <1>3, <1>7, <1>10, <2>2, <3>1
  <2>3. CASE s.do # "connect" /\ ~(s.do = "host" /\ s.op = "run")
    <3>1. UNCHANGED <<rConn, ps>> /\ Advance
      BY <1>5, <1>10, <2>3
    <3> QED BY <1>1, <1>2, <1>3, <1>7, <1>10, <2>3, <3>1
  <2> QED BY <2>1, <2>2, <2>3
<1> QED BY <1>9, <1>10

\* The process that a call of run made.
LEMMA RunRecords ==
  ASSUME MIInv, ObjInv, thr[Main].at = "done", thr[Main].req.op = "run", out[thr[Main].rid] # Exc,
         ps' = [ps EXCEPT ![cur] = Append(@, out[thr[Main].rid].n)]
  PROVE  /\ \A j \in 1 .. Len(tasks) : j # cur => ps'[j] = ps[j]
         /\ Len(ps'[cur]) = Len(ps[cur]) + 1 /\ Len(ps[cur]) \in Nat
         /\ \A k \in 1 .. Len(ps[cur]) : ps'[cur][k] = ps[cur][k]
         /\ ps'[cur][Len(ps[cur]) + 1] = out[thr[Main].rid].n
         /\ Owned(out[thr[Main].rid].n) /\ Started
<1>1. PICK n : n = out[thr[Main].rid].n
  OBVIOUS
<1>2. ps \in [1 .. Len(tasks) -> Seq(Int)] /\ cur \in 1 .. Len(tasks) /\ ps[cur] \in Seq(Int) /\ Len(ps[cur]) \in Nat
  BY LenProperties DEF MIInv, Types, MgrTypes
<1>3. /\ n \in DOMAIN oids /\ Owned(n) /\ Started
  <2>1. Main \in Caller /\ thr[Main].req.op \in ProxyOps /\ thr[Main].req.op \in RunOps
    BY DEF Caller, ProxyOps, RunOps
  <2>2. n \in DOMAIN oids /\ Owned(n)
    BY <1>1, <2>1, AnswerProxy
  <2> QED BY <2>1, <2>2 DEF ObjInv, ThreadKind
<1>4. n \in Int
  BY <1>3 DEF MIInv, Types, ServerTypes
<1>5. PICK q : q = Append(ps[cur], n)
  OBVIOUS
<1>6. /\ Len(q) = Len(ps[cur]) + 1 /\ q[Len(ps[cur]) + 1] = n
      /\ \A k \in 1 .. Len(ps[cur]) : q[k] = ps[cur][k]
  BY <1>2, <1>4, <1>5, AppendProperties
<1>7. ps' = [ps EXCEPT ![cur] = q]
  BY <1>1, <1>5
<1> QED BY <1>1, <1>2, <1>3, <1>6, <1>7

\* The answer is used.
LEMMA ReturnsObj ==
  ASSUME MIInv, ObjInv, CallReturns
  PROVE  ObjInv' /\ Keeps
<1>1. /\ Running /\ step <= Len(TheHook) /\ TheHook[step].do \in {"connect", "host", "proc"}
      /\ thr[Main].at = "done" /\ thr[Main].req.op = TheHook[step].op
      /\ thr'[Main].at = "idle" /\ MgrMove /\ Settled /\ AsyncsStay
  BY ReturnsDo
<1>2. UNCHANGED <<tasks, oids, req, hnd>>
  BY <1>1 DEF MgrMove
<1>3. CASE Raise /\ UNCHANGED <<rConn, ps>>
  BY <1>1, <1>3, RaiseLeaves, LeavesObj DEF ObjInv
<1>4. ASSUME Advance, ConnKinds' PROVE ObjInv' /\ Keeps
  <2>1. SyncInv'
    BY <1>1, <1>4, AdvanceSync
  <2> QED BY <1>1, <1>4, <2>1, MgrObj DEF Settled
<1>5. CASE Advance /\ TheHook[step].do = "connect" /\ rConn' = 1 /\ Started /\ UNCHANGED ps
  <2>1. ConnKinds'
    BY <1>2, <1>5 DEF ObjInv, ConnKinds, Started, Owned, NoConn
  <2> QED BY <1>4, <1>5, <2>1
<1>6. TheHook[step].do # "connect" => (phase = "start" => rConn # NoConn)
  <2>1. TheHook[step].do # "connect" => TheHook[step].op # "getUserRoot"
    BY <1>1, StepIs DEF StepKind, MIInv, Types
  <2> QED BY <1>1, <2>1 DEF ObjInv, ConnKinds
<1>7. CASE /\ Advance /\ out[thr[Main].rid] # Exc
           /\ TheHook[step].do = "host" /\ TheHook[step].op = "run" /\ UNCHANGED rConn
           /\ ps' = [ps EXCEPT ![cur] = Append(@, out[thr[Main].rid].n)]
  <2>1. PICK n : n = out[thr[Main].rid].n
    OBVIOUS
  <2>2. /\ \A j \in 1 .. Len(tasks) : j # cur => ps'[j] = ps[j]
        /\ Len(ps'[cur]) = Len(ps[cur]) + 1 /\ Len(ps[cur]) \in Nat
        /\ \A k \in 1 .. Len(ps[cur]) : ps'[cur][k] = ps[cur][k]
        /\ ps'[cur][Len(ps[cur]) + 1] = n
        /\ Owned(n) /\ Started
    BY <1>1, <1>7, <2>1, RunRecords
  <2>3. ASSUME NEW j \in 1 .. Len(tasks), NEW k \in 1 .. Len(ps'[j]) PROVE Started /\ Owned(ps'[j][k])
    <3>1. CASE j # cur
      BY <2>2, <3>1 DEF ObjInv, ConnKinds
    <3>2. CASE j = cur
      <4>1. k \in 1 .. Len(ps[cur]) \/ k = Len(ps[cur]) + 1
        BY <2>2, <3>2
      <4> QED BY <2>2, <3>2, <4>1 DEF ObjInv, ConnKinds
    <3> QED BY <3>1, <3>2
  <2>4. ConnKinds'
    BY <1>2, <1>6, <1>7, <2>3 DEF ObjInv, ConnKinds, Started, Owned, Advance
  <2> QED BY <1>4, <1>7, <2>4
<1>8. CASE Advance /\ TheHook[step].do # "connect" /\ UNCHANGED <<rConn, ps>>
  <2>1. ConnKinds'
    BY <1>2, <1>6, <1>8 DEF ObjInv, ConnKinds, Started, Owned, Advance
  <2> QED BY <1>4, <1>8, <2>1
<1> QED BY <1>3, <1>5, <1>7, <1>8, ReturnsDo

\* The loops of run().
LEMMA DoneDo ==
  ASSUME MIInv, TaskDone
  PROVE  /\ Running /\ step > Len(TheHook) /\ Len(TheHook) \in Nat /\ thr[Main].at = "idle" /\ MgrMove
         /\ UNCHANGED <<thr, rConn, ps, failed>> /\ step' = 1
         /\ phase = "start" => IF cur = Len(tasks) THEN phase' = "wait" /\ cur' = 1
                                                   ELSE phase' = "start" /\ cur' = cur + 1
         /\ phase = "wait" => IF cur = Len(tasks) THEN phase' = "stop" /\ cur' = Len(tasks)
                                                  ELSE phase' = "wait" /\ cur' = cur + 1
         /\ phase \in {"stop", "reset"} => IF cur = 1 THEN phase' = "over" /\ cur' = Len(tasks)
                                                      ELSE phase' = phase /\ cur' = cur - 1
<1> USE DEF MIInv, Types
<1>1. /\ Running /\ step > Len(TheHook) /\ Len(TheHook) \in Nat /\ thr[Main].at = "idle" /\ MgrMove
      /\ UNCHANGED <<thr, rConn, ps, failed>> /\ step' = 1
  BY TheHookGood, NotSkipped DEF TaskDone, hostVars, rpcVars, clientVars, callVars, serverVars, MgrMove
<1>2. phase \in {"start", "wait", "stop", "reset"}
  BY <1>1 DEF Running
<1> QED BY <1>1, <1>2 DEF TaskDone

\* The loop goes on.
LEMMA DoneObj ==
  ASSUME MIInv, ObjInv, TaskDone
  PROVE  ObjInv' /\ Keeps
<1> USE DEF MIInv, Types
<1>1. /\ Running /\ step > Len(TheHook) /\ Len(TheHook) \in Nat /\ MgrMove
      /\ UNCHANGED <<thr, rConn, ps, failed>> /\ step' = 1
      /\ N \in Nat \ {0} /\ Asyncs = 1 .. N /\ step \in Nat
  BY DoneDo, NPositive DEF MgrTypes
<1>2. UNCHANGED <<tasks, oids, req, hnd, rid, out>>
  BY <1>1 DEF MgrMove
<1>3. /\ phase' = "reset" => phase = "reset"
      /\ phase' = "start" => phase = "start"
      /\ failed = "no" => Working
  BY <1>1, DoneDo DEF Running, Working, ObjInv, SyncInv
<1>4. SyncInv'
  <2>1. ASSUME NEW i \in Asyncs, failed = "no"
        PROVE  thr[i].at \in {"idle", "done"}
    <3>1. thr[i].at \notin {"idle", "done"} => step <= N + i /\ N + i <= Len(TheHook)
      BY <1>3, <2>1 DEF Working, FlowInv, AsyncInv
    <3> QED BY <1>1, <3>1
  <2>2. \A i \in Asyncs : ~(N + i < 1)
    BY <1>1
  <2> QED BY <1>1, <1>3, <2>1, <2>2 DEF ObjInv, SyncInv
<1>5. ConnKinds'
  BY <1>1, <1>2, <1>3 DEF ObjInv, ConnKinds, Started, Owned
<1> QED BY <1>1, <1>4, <1>5, QuietSettled, MgrObj DEF Settled

\* The script ends.
LEMMA ExitObj ==
  ASSUME MIInv, ObjInv, Exit
  PROVE  ObjInv' /\ Keeps
<1>1. /\ UNCHANGED <<thr, tasks, rConn, ps, failed, oids, req, hnd, rid, out>> /\ MgrMove
      /\ phase = "over" /\ phase' = "exited"
  BY DEF Exit, clientVars, callVars, serverVars, MgrMove
<1>2. SyncInv'
  BY <1>1 DEF ObjInv, SyncInv, Collecting, Working
<1>3. ConnKinds'
  BY <1>1 DEF ObjInv, ConnKinds, Started, Owned
<1> QED BY <1>1, <1>2, <1>3, QuietSettled, MgrObj DEF Settled

\* What a step is.
LEMMA StepKinds ==
  ASSUME MIInv, ObjInv, [Next]_vars
  PROVE  \/ ManagerStep
         \/ ClientMove /\ MgrFrame
         \/ ServerFrame /\ \E h \in Rid : HandlerMove(h)
         \/ ServerFrame /\ EndMove
         \/ MgrMove /\ Leaves /\ thr[Main].at = "idle" /\ UNCHANGED <<thr, rConn, ps>>
<1> USE DEF MIInv, Types
<1>1. ASSUME ClientStep \/ InterruptCall \/ UNCHANGED rpcVars, UNCHANGED procVars, MgrFrame PROVE ClientMove /\ MgrFrame
  BY <1>1, ClientMoves DEF ObjInv
<1>2. UNCHANGED mgrVars => MgrFrame
  BY DEF mgrVars, position, MgrFrame
<1>3. CASE RpcStep /\ ClientStep /\ UNCHANGED mgrVars
  BY <1>1, <1>2, <1>3 DEF RpcStep
<1>4. ASSUME UNCHANGED mgrVars, NEW h \in Rid, Method(h) \/ (Store(h) /\ UNCHANGED procVars)
      PROVE  ServerFrame /\ \E q \in Rid : HandlerMove(q)
  <2>1. HandlerMove(h)
    BY <1>4, HandlerMoves DEF ObjInv
  <2>2. UNCHANGED clientVars
    BY <1>4 DEF Method, Store, getUserRoot, FileMethod, run_pipe, run_popen, wait_enter, wait_locked,
       wait_waitpid, kill
  <2>3. ServerFrame
    BY <1>2, <1>4, <2>2 DEF ServerFrame, MgrFrame, clientVars, callVars
  <2> QED BY <2>1, <2>3
<1>5. ASSUME UNCHANGED mgrVars, HostEnds PROVE ServerFrame /\ EndMove
  <2>1. UNCHANGED <<clientVars, oids, proc, sig>>
    BY <1>5 DEF HostEnds, ServerEnds
  <2>2. Thread("none").at = "none" /\ Thread("none").res = NoVal
    BY DEF Thread
  <2>3. \A h \in Rid : hnd'[h] = IF hnd[h].at = "done" THEN hnd[h] ELSE Thread("none")
    BY <1>5 DEF HostEnds, ServerEnds
  <2>4. EndMove
    BY <2>1, <2>2, <2>3 DEF EndMove
  <2> QED BY <1>2, <1>5, <2>1, <2>4 DEF ServerFrame, MgrFrame, clientVars, callVars
<1>6. ASSUME UNCHANGED mgrVars, NEW p \in Rid, proc[p] = "live", Ends(p) PROVE ServerFrame /\ EndMove
  <2>1. UNCHANGED <<clientVars, hnd, oids, sig>> /\ proc' = [proc EXCEPT ![p] = "zombie"]
    BY <1>6 DEF Ends, rpcVars, serverVars
  <2>2. EndMove
    BY <1>6, <2>1 DEF EndMove, ProcTypes
  <2> QED BY <1>2, <1>6, <2>1, <2>2 DEF ServerFrame, MgrFrame, clientVars, callVars
<1>7. CASE HostStep /\ UNCHANGED mgrVars
  BY <1>1, <1>2, <1>3, <1>4, <1>5, <1>6, <1>7
  DEF HostStep, RpcStep, ServerStep, ServerEof, ProcExit
<1>8. CASE (ServerCrash \/ (\E p \in Rid : ProcFails(p))) /\ UNCHANGED mgrVars
  BY <1>5, <1>6, <1>8 DEF ServerCrash, ProcFails
<1>9. CASE Interrupt
  <2>1. UNCHANGED <<procVars, tasks, rConn, ps>>
    BY <1>9 DEF Interrupt
  <2>2. CASE InterruptCall /\ UNCHANGED position
    <3>1. MgrFrame
      BY <2>1, <2>2 DEF MgrFrame, position
    <3> QED BY <1>1, <2>1, <2>2, <3>1
  <2>3. CASE /\ thr[Main].at = "idle"
             /\ \/ phase # "reset" /\ InRun
                \/ phase = "reset" /\ InReset /\ failed' = "twice"
                \/ Escape
             /\ UNCHANGED rpcVars
    <3>1. Leaves
      BY <2>3, RaiseLeaves DEF ObjInv
    <3> QED BY <2>1, <2>3, <3>1 DEF MgrMove, rpcVars, clientVars, callVars, serverVars
  <2> QED BY <1>9, <2>2, <2>3 DEF Interrupt
<1>10. CASE UNCHANGED vars
  BY <1>1, <1>2, <1>10 DEF vars, hostVars
<1> QED BY <1>7, <1>8, <1>9, <1>10 DEF Next, SystemStep, Fault

\* Every step.
LEMMA NextObj ==
  ASSUME MIInv, ObjInv, [Next]_vars
  PROVE  ObjInv' /\ Keeps
<1>1. CASE ManagerStep
  BY <1>1, LocalObj, ConnectObj, HostCallObj, SyncObj, ProcObj, CloseObj, ReturnsObj, DoneObj, ExitObj
  DEF ManagerStep
<1>2. CASE MgrMove /\ Leaves /\ UNCHANGED <<thr, rConn, ps>>
  BY <1>2, QuietSettled, LeavesObj
<1> QED BY <1>1, <1>2, StepKinds, ClientObj, HandlerObj, EndsObj

\* The first state.
LEMMA InitObj ==
  ASSUME Init
  PROVE  ObjInv
<1>1. /\ thr = [t \in Caller |-> [at |-> "idle", rid |-> NoRid, req |-> NoReq]] /\ rid = 0
      /\ req = [r \in Rid |-> NoReq] /\ hnd = [r \in Rid |-> Thread("none")]
      /\ oids = [o \in {0} |-> SystemRoot] /\ proc = [p \in Rid |-> "none"] /\ sig = {}
  BY DEF Init, HostInit, RpcInit
<1>2. /\ phase = "start" /\ step = 1 /\ rConn = NoConn /\ failed = "no"
      /\ ps = [j \in DOMAIN tasks |-> <<>>] /\ tasks \in Seq(TaskClass)
  BY ManagerAssumption DEF Init
<1>3. \A t \in Caller : thr[t].at = "idle" /\ thr[t].req.op = "none"
  BY <1>1 DEF NoReq
<1>4. \A h \in Rid : hnd[h].at = "none" /\ hnd[h].res = NoVal /\ req[h].op = "none" /\ proc[h] = "none"
  BY <1>1 DEF NoReq, Thread
<1>5. DOMAIN oids = {0} /\ ~Started
  BY <1>1 DEF Started
<1>6. DoneInv
  BY <1>3 DEF DoneInv
<1>7. SyncInv
  <2>1. \A i \in Asyncs : ~(N + i < 1)
    BY NPositive
  <2> QED BY <1>2, <2>1 DEF SyncInv, Working
<1>8. TableKinds
  BY <1>5 DEF TableKinds
<1>9. \A h \in Rid : HandlerKind(h) /\ RequestKind(h)
  BY <1>4 DEF HandlerKind, RequestKind, RunOps, ProcOps
<1>10. \A t \in Caller : ThreadKind(t)
  BY <1>3 DEF ThreadKind, ProcOps
<1>11. \A j \in 1 .. Len(tasks) : Len(ps[j]) = 0
  BY <1>2, LenProperties
<1>12. ConnKinds
  BY <1>1, <1>2, <1>3, <1>11 DEF ConnKinds, Caller
<1> QED BY <1>1, <1>6, <1>7, <1>8, <1>9, <1>10, <1>12 DEF ObjInv

-----------------------------------------------------------------------------
\* In every state the table, the handlers, the calls and the threads agree on
\* what their object ids name: the methods of Process are only ever called with
\* the proxy of a process, and no call but the first is made before the user
\* root is there.
THEOREM ObjectInvariance == Spec => []ObjInv
<1>1. Init => ObjInv
  BY InitObj
<1>2. MIInv /\ ObjInv /\ [Next]_vars => ObjInv'
  BY NextObj
<1> QED BY <1>1, <1>2, ManagerInvariance, PTL DEF Spec

\* The whole system keeps its types: the send queue never holds more than one
\* item, every result is one that rpc.py can carry, and kill only signals
\* processes that a call of run started.
THEOREM TypeCorrect == Spec => []TypeOK
<1>1. MIInv /\ ObjInv => TypeOK
  <2> SUFFICES ASSUME MIInv, ObjInv PROVE TypeOK
    OBVIOUS
  <2> USE DEF MIInv, Types
  <2>1. DOMAIN tasks = 1 .. Len(tasks)
    BY LenProperties DEF MgrTypes
  <2>2. /\ \A t \in Caller : thr[t].at \in Place
        /\ rid \in 0 .. MaxRid /\ sendQ \in {<<>>} \cup {<<v>> : v \in Rid \cup {Close}}
        /\ send \in {"get", "closing", "closed", "dead"} /\ recv \in {"load", "dead"}
    BY DEF ClientTypes
  <2>3. ASSUME NEW h \in Rid
        PROVE  /\ hnd[h].at \in HndPlace
               /\ hnd[h].res \in Results \cup {NoVal} /\ out[h] \in Results \cup {NoVal}
               /\ proc[h] \in {"none", "live", "zombie", "reaped"} /\ returncode[h] \in {0, 1}
               /\ held[h] \subseteq Rid /\ waitLock[h] \in Rid \cup {NoRid}
    <3>1. hnd[h].res \in Results \cup {NoVal}
      BY DEF TableInv
    <3>2. out[h] \in Results \cup {NoVal}
      BY <3>1 DEF CallsInv, AnswerInv, Results
    <3> QED BY <3>1, <3>2 DEF ServerTypes, ProcTypes
  <2>4. server \in {"none", "up", "down"} /\ sig \cup dw \subseteq Rid
    BY DEF ServerTypes, ProcTypes, ObjInv
  <2>5. /\ phase \in {"start", "wait", "stop", "reset", "over", "exited"}
        /\ cur \in DOMAIN tasks /\ step \in 1 .. Len(TheHook) + 1
        /\ \A j \in DOMAIN tasks : tstate[j] \in {"STOPPED", "RUNNING"}
        /\ failed \in {"no", "raised", "twice", "escaped"} /\ interrupts \in 0 .. MaxInterrupts
    BY <2>1 DEF MgrTypes
  <2> QED BY <2>2, <2>3, <2>4, <2>5 DEF TypeOK, Place, HndPlace
<1> QED BY <1>1, ManagerInvariance, ObjectInvariance, PTL

-----------------------------------------------------------------------------
(***************************************************************************)
(* What every step keeps.                                                  *)
(***************************************************************************)
\* A reaped process stays reaped. Proxies that are exact after a step were
\* exact before it, and then the ids of processes keep their objects.
Stable ==
  /\ tasks' = tasks
  /\ \A q \in Rid : proc[q] = "reaped" => proc'[q] = "reaped"
  /\ ProxiesExact' => ProxiesExact /\ \A o : Owned(o) => oids'[o] = oids[o]

\* The id of a process that is done.
LEMMA ProxyDone ==
  ASSUME MIInv, ObjInv, NEW p \in Rid, hnd[p].res.kind = "proxy"
  PROVE  hnd[p].at = "done" /\ hnd[p].res.n \in DOMAIN oids
<1>1. hnd[p].res # NoVal
  BY DEF NoVal
<1>2. req[p].op # "poll"
  BY DEF ObjInv, HandlerKind
<1> QED BY <1>1, <1>2 DEF MIInv, CallsInv, AnswerInv, OidInv

\* A step that leaves the table alone.
LEMMA SameTable ==
  ASSUME MIInv, ObjInv, Keeps, oids' = oids
  PROVE  ProxiesExact' => ProxiesExact /\ \A o : Owned(o) => oids'[o] = oids[o]
<1>1. ASSUME NEW p \in Rid, hnd[p].res.kind = "proxy" PROVE hnd'[p] = hnd[p] /\ req'[p] = req[p]
  BY <1>1, ProxyDone DEF Keeps
<1> QED BY <1>1 DEF ProxiesExact

\* A step that stores an object: were the id another object's, the two would share it.
LEMMA StoresTable ==
  ASSUME MIInv, ObjInv, Keeps, NEW h \in Rid, Stores(h), req' = req, ProxiesExact'
  PROVE  ProxiesExact /\ \A o : Owned(o) => oids'[o] = oids[o]
<1>1. PICK id : id = hnd[h].id
  OBVIOUS
<1>2. /\ hnd'[h].res = Proxy(id) /\ hnd[h].at = "store"
      /\ \A o \in DOMAIN oids : o # id => oids'[o] = oids[o]
  BY <1>1 DEF Stores
<1>3. /\ Proxy(id).kind = "proxy" /\ Proxy(id).n = id /\ UserRoot.cls = "host"
      /\ \A q : [cls |-> "proc", p |-> q].cls = "proc" /\ [cls |-> "proc", p |-> q].p = q
  BY DEF Proxy, UserRoot
<1>4. oids'[id] = IF req[h].op = "getUserRoot" THEN UserRoot ELSE [cls |-> "proc", p |-> h]
  BY <1>1 DEF Stores
<1>5. ASSUME NEW p \in Rid, hnd[p].res.kind = "proxy"
      PROVE  /\ hnd'[p] = hnd[p] /\ oids'[hnd[p].res.n] = oids[hnd[p].res.n]
             /\ oids'[hnd[p].res.n] = IF req[p].op = "getUserRoot" THEN UserRoot ELSE [cls |-> "proc", p |-> p]
  <2>1. hnd[p].at = "done" /\ hnd[p].res.n \in DOMAIN oids
    BY <1>5, ProxyDone
  <2>2. hnd'[p] = hnd[p] /\ p # h
    BY <1>2, <2>1 DEF Keeps
  <2>3. oids'[hnd[p].res.n] = IF req[p].op = "getUserRoot" THEN UserRoot ELSE [cls |-> "proc", p |-> p]
    BY <1>5, <2>2 DEF ProxiesExact
  <2>4. ~(req[p].op = "getUserRoot" /\ req[h].op = "getUserRoot")
    BY <2>2 DEF ObjInv, RequestKind
  <2>5. hnd[p].res.n # id
    <3> SUFFICES ASSUME hnd[p].res.n = id PROVE FALSE
      OBVIOUS
    <3>1. (IF req[p].op = "getUserRoot" THEN UserRoot ELSE [cls |-> "proc", p |-> p])
          = (IF req[h].op = "getUserRoot" THEN UserRoot ELSE [cls |-> "proc", p |-> h])
      BY <1>4, <2>3
    <3>2. CASE req[p].op = "getUserRoot"
      BY <1>3, <2>4, <3>1, <3>2
    <3>3. CASE req[h].op = "getUserRoot"
      BY <1>3, <2>4, <3>1, <3>3
    <3>4. CASE req[p].op # "getUserRoot" /\ req[h].op # "getUserRoot"
      BY <1>3, <2>2, <3>1, <3>4
    <3> QED BY <3>2, <3>3, <3>4
  <2> QED BY <1>2, <2>1, <2>2, <2>3, <2>5
<1>6. ProxiesExact
  BY <1>5 DEF ProxiesExact
<1>7. ASSUME NEW o, NEW p \in Rid, hnd[p].res = Proxy(o) PROVE oids'[o] = oids[o]
  <2>1. hnd[p].res.kind = "proxy" /\ hnd[p].res.n = o
    BY <1>7 DEF Proxy
  <2>2. oids'[hnd[p].res.n] = oids[hnd[p].res.n]
    BY <1>5, <2>1
  <2> QED BY <2>1, <2>2
<1>8. ASSUME NEW o, Owned(o) PROVE oids'[o] = oids[o]
  <2>1. PICK p \in Rid : hnd[p].res = Proxy(o)
    BY <1>8 DEF Owned
  <2> QED BY <1>7, <2>1
<1> QED BY <1>6, <1>8

\* Every step is stable.
LEMMA NextStable ==
  ASSUME MIInv, ObjInv, [Next]_vars
  PROVE  Keeps /\ Stable
<1>1. Keeps
  BY NextObj
<1>2. CASE ManagerStep
  <2>1. MgrMove
    <3>1. CASE LocalStep \/ ConnectStep \/ HostCall \/ CloseStep \/ Exit
      BY <3>1 DEF LocalStep, ConnectStep, HostCall, CloseStep, Exit, hostVars, rpcVars, clientVars,
         callVars, serverVars, MgrMove
    <3> QED BY <1>2, <3>1, SyncDo, ProcDo, ReturnsDo, DoneDo DEF ManagerStep
  <2> QED BY <1>1, <2>1, SameTable DEF MgrMove, procVars, Stable
<1>3. CASE ClientMove /\ MgrFrame
  BY <1>1, <1>3, SameTable DEF ClientMove, MgrFrame, procVars, Stable
<1>4. ASSUME ServerFrame, NEW h \in Rid, HandlerMove(h) PROVE Stable
  <2>1. req' = req /\ tasks' = tasks /\ \A q \in Rid : proc[q] = "reaped" => proc'[q] = "reaped"
    BY <1>4 DEF ServerFrame, HandlerMove, ProcMove
  <2>2. CASE Goes(h)
    BY <1>1, <2>1, <2>2, SameTable DEF Goes, Stable
  <2>3. CASE Stores(h)
    BY <1>1, <2>1, <2>3, StoresTable DEF Stable
  <2> QED BY <1>4, <2>2, <2>3 DEF HandlerMove
<1>5. CASE ServerFrame /\ EndMove
  BY <1>1, <1>5, SameTable DEF ServerFrame, EndMove, Stable
<1>6. CASE MgrMove /\ UNCHANGED <<thr, rConn, ps>>
  BY <1>1, <1>6, SameTable DEF MgrMove, procVars, Stable
<1> QED BY <1>1, <1>2, <1>3, <1>4, <1>5, <1>6, StepKinds

-----------------------------------------------------------------------------
(***************************************************************************)
(* The kinds of the manager's steps.                                       *)
(***************************************************************************)
\* The run raises.
Quits == Leaves /\ UNCHANGED ps /\ thr'[Main].at = "idle"

\* The main thread begins a call.
Begins ==
  /\ UNCHANGED <<phase, cur, step, failed, ps>> /\ AsyncsStay
  /\ thr[Main].at = "idle" /\ thr'[Main].at = "call"
  /\ TheHook[step].do = "proc" =>
       /\ TheHook[step].i \in 1 .. Len(ps[cur])
       /\ thr'[Main].req.oid = ps[cur][TheHook[step].i]

\* The hook goes on, in the main thread.
GoesPast == Advance /\ step <= Len(TheHook) /\ thr'[Main].at = "idle"

\* It has nothing to record.
Passes ==
  /\ GoesPast /\ thr[Main].at = "idle" /\ AsyncsStay /\ UNCHANGED ps
  /\ TheHook[step].do = "proc" => TheHook[step].i > Len(ps[cur])
  /\ TheHook[step].do = "sync" => step < N + N

\* It makes an Async thread.
Spawns ==
  /\ GoesPast /\ thr[Main].at = "idle" /\ AsyncStarts /\ UNCHANGED ps
  /\ step \in Asyncs /\ thr[step].at \in {"idle", "done"}

\* It records the processes that the Async threads have made.
Records ==
  /\ GoesPast /\ thr[Main].at = "idle" /\ AsyncsStay
  /\ TheHook[step].do = "sync" /\ step = N + N
  /\ ps' = [ps EXCEPT ![cur] = [j \in 1 .. N |-> out[thr[j].rid].n]]
  /\ \A j \in 1 .. N : /\ thr[j].at = "done" /\ out[thr[j].rid] # Exc
                       /\ thr[j].req.op \in {"run", "runLoad"}

\* The main thread's call returns, and its process is recorded if it made one.
Returns ==
  /\ GoesPast /\ thr[Main].at = "done" /\ AsyncsStay
  /\ thr[Main].req.op = TheHook[step].op /\ out[thr[Main].rid] # Exc
  /\ TheHook[step].do \in {"connect", "host", "proc"}
  /\ IF TheHook[step].do = "host" /\ TheHook[step].op = "run"
     THEN ps' = [ps EXCEPT ![cur] = Append(@, out[thr[Main].rid].n)]
     ELSE UNCHANGED ps

\* An exception in the main thread.
LEMMA RaiseQuits ==
  ASSUME ObjInv, Raise, UNCHANGED ps, thr'[Main].at = "idle"
  PROVE  Quits
BY RaiseLeaves DEF ObjInv, Quits

\* Every step of the manager is of one of these kinds.
LEMMA ManagerKinds ==
  ASSUME MIInv, ObjInv, ManagerStep
  PROVE  /\ MgrMove
         /\ Quits \/ Begins \/ Passes \/ Spawns \/ Records \/ Returns \/ TaskDone \/ Exit
<1> USE DEF MIInv, Types
<1>1. Main \in Caller /\ Main \notin Asyncs /\ Asyncs \subseteq Caller
  BY NPositive DEF Caller
<1>2. CASE LocalStep
  <2>1. /\ step <= Len(TheHook) /\ TheHook[step].do = "local"
        /\ UNCHANGED <<thr, ps>> /\ MgrMove /\ thr[Main].at = "idle"
    BY <1>2 DEF LocalStep, AtStep, hostVars, rpcVars, clientVars, callVars, serverVars, MgrMove
  <2>2. CASE Raise
    BY <2>1, <2>2, RaiseQuits
  <2>3. CASE Advance
    BY <2>1, <2>3 DEF Passes, GoesPast, AsyncsStay
  <2> QED BY <1>2, <2>1, <2>2, <2>3 DEF LocalStep
<1>3. CASE ConnectStep
  <2>1. /\ step <= Len(TheHook) /\ TheHook[step].do = "connect"
        /\ UNCHANGED ps /\ MgrMove /\ thr[Main].at = "idle"
    BY <1>3 DEF ConnectStep, AtStep, callVars, MgrMove
  <2>2. CASE Raise /\ UNCHANGED <<thr, server>>
    BY <2>1, <2>2, RaiseQuits
  <2>3. CASE StartCall(Main, 0, "getUserRoot") /\ UNCHANGED position
    <3>1. Starts(Main, 0, "getUserRoot")
      BY <1>1, <2>1, <2>3, CallStarts DEF OidInv, Op
    <3> QED BY <1>1, <2>1, <2>3, <3>1 DEF Begins, Starts, AsyncsStay, position
  <2> QED BY <1>3, <2>1, <2>2, <2>3 DEF ConnectStep
<1>4. CASE HostCall
  <2>1. CASE rConn = NoConn
    <3>1. Raise /\ UNCHANGED <<thr, ps>> /\ MgrMove /\ thr[Main].at = "idle"
      BY <1>4, <2>1 DEF HostCall, AtStep, callVars, serverVars, MgrMove
    <3> QED BY <3>1, RaiseQuits
  <2>2. CASE rConn # NoConn
    <3>1. step <= Len(TheHook) /\ MgrMove /\ UNCHANGED ps /\ thr[Main].at = "idle"
      BY <1>4, <2>2, HostStarts
    <3>2. CASE /\ TheHook[step].do = "host"
               /\ Starts(Main, rConn, TheHook[step].op) /\ AsyncsStay /\ UNCHANGED position
      BY <3>1, <3>2 DEF Begins, Starts, position
    <3>3. CASE /\ step \in Asyncs /\ thr[step].at \in {"idle", "done"}
               /\ Starts(step, rConn, TheHook[step].op) /\ AsyncStarts /\ Advance
      <4>1. thr'[Main] = thr[Main]
        BY <1>1, <3>3 DEF Starts
      <4> QED BY <3>1, <3>3, <4>1 DEF Spawns, GoesPast
    <3> QED BY <1>4, <2>2, <3>1, <3>2, <3>3, HostStarts
  <2> QED BY <2>1, <2>2
<1>5. CASE SyncStep
  <2>1. /\ step <= Len(TheHook) /\ TheHook[step].do = "sync" /\ thr[Main].at = "idle"
        /\ MgrMove /\ UNCHANGED thr /\ AsyncsStay
    BY <1>5, SyncDo DEF AsyncsStay
  <2>2. CASE Raise /\ UNCHANGED ps
    BY <2>1, <2>2, RaiseQuits
  <2>3. CASE Advance /\ step < N + N /\ UNCHANGED ps
    BY <2>1, <2>3 DEF Passes, GoesPast
  <2>4. CASE /\ Advance /\ step = N + N
             /\ ps' = [ps EXCEPT ![cur] = [j \in 1 .. N |-> out[thr[j].rid].n]]
             /\ \A j \in 1 .. N : /\ thr[j].at = "done" /\ out[thr[j].rid] # Exc
                                  /\ thr[j].req.op \in {"run", "runLoad"}
    BY <2>1, <2>4 DEF Records, GoesPast
  <2> QED BY <1>5, <2>1, <2>2, <2>3, <2>4, SyncDo
<1>6. CASE ProcStep
  <2>1. /\ step <= Len(TheHook) /\ TheHook[step].do = "proc" /\ thr[Main].at = "idle"
        /\ MgrMove /\ UNCHANGED ps
    BY <1>6, ProcDo
  <2>2. CASE Advance /\ UNCHANGED thr /\ TheHook[step].i > Len(ps[cur])
    BY <2>1, <2>2 DEF Passes, GoesPast, AsyncsStay
  <2>3. CASE /\ TheHook[step].i \in 1 .. Len(ps[cur])
             /\ Starts(Main, ps[cur][TheHook[step].i], TheHook[step].op) /\ AsyncsStay /\ UNCHANGED position
    BY <2>1, <2>3 DEF Begins, Starts, position
  <2> QED BY <1>6, <2>1, <2>2, <2>3, ProcDo
<1>7. CASE CloseStep
  <2>1. /\ step <= Len(TheHook) /\ TheHook[step].do = "close" /\ Advance
        /\ MgrMove /\ UNCHANGED <<thr, ps>> /\ thr[Main].at = "idle"
    BY <1>7 DEF CloseStep, AtStep, clientVars, callVars, serverVars, MgrMove
  <2> QED BY <2>1 DEF Passes, GoesPast, AsyncsStay
<1>8. CASE CallReturns
  <2>1. /\ step <= Len(TheHook) /\ TheHook[step].do \in {"connect", "host", "proc"}
        /\ thr[Main].at = "done" /\ thr[Main].req.op = TheHook[step].op
        /\ thr'[Main].at = "idle" /\ MgrMove /\ AsyncsStay
    BY <1>8, ReturnsDo
  <2>2. CASE Raise /\ UNCHANGED ps
    BY <2>1, <2>2, RaiseQuits
  <2>3. CASE /\ Advance /\ out[thr[Main].rid] # Exc
             /\ \/ TheHook[step].do = "connect" /\ UNCHANGED ps
                \/ /\ TheHook[step].do = "host" /\ TheHook[step].op = "run"
                   /\ ps' = [ps EXCEPT ![cur] = Append(@, out[thr[Main].rid].n)]
                \/ /\ UNCHANGED ps
                   /\ ~(TheHook[step].do = "host" /\ TheHook[step].op = "run")
    BY <2>1, <2>3 DEF Returns, GoesPast
  <2> QED BY <1>8, <2>1, <2>2, <2>3, ReturnsDo
<1>9. CASE TaskDone
  BY <1>9, DoneDo
<1>10. CASE Exit
  BY <1>10 DEF Exit, clientVars, callVars, serverVars, MgrMove
<1> QED BY <1>2, <1>3, <1>4, <1>5, <1>6, <1>7, <1>8, <1>9, <1>10 DEF ManagerStep

-----------------------------------------------------------------------------
(***************************************************************************)
(* EndInv is kept, part by part.                                           *)
(***************************************************************************)
\* The main thread's call is about the process of its step.
LEMMA ProcCallKept ==
  ASSUME MIInv, ObjInv, ProcCallInv, [Next]_vars
  PROVE  ProcCallInv'
<1> USE DEF MIInv, Types
<1>1. Main \in Caller /\ Main \notin Asyncs
  BY NPositive DEF Caller
<1>2. ASSUME thr'[Main].at = "idle" PROVE ProcCallInv'
  BY <1>2 DEF ProcCallInv
<1>3. CASE ManagerStep
  <2>1. MgrMove
    BY <1>3, ManagerKinds
  <2>2. CASE Quits \/ Passes \/ Spawns \/ Records \/ Returns
    BY <1>2, <2>2 DEF Quits, Passes, Spawns, Records, Returns, GoesPast
  <2>3. CASE Begins
    <3>1. UNCHANGED <<phase, cur, step, ps, tasks, TheHook>>
      BY <2>1, <2>3 DEF Begins, MgrMove, TheHook
    <3> QED BY <2>3, <3>1 DEF Begins, ProcCallInv
  <2>4. CASE TaskDone
    BY <1>2, <2>4, DoneDo
  <2>5. CASE Exit
    <3>1. thr' = thr /\ phase = "over"
      BY <2>5 DEF Exit, clientVars
    <3>2. thr[Main].at = "idle"
      BY <3>1 DEF FlowInv, MainInv, Running
    <3> QED BY <1>2, <3>1, <3>2
  <2> QED BY <1>3, <2>2, <2>3, <2>4, <2>5, ManagerKinds
<1>4. CASE ClientMove /\ MgrFrame
  <2>1. UNCHANGED <<phase, cur, step, ps, tasks, TheHook>>
    BY <1>4 DEF MgrFrame, TheHook
  <2>2. thr'[Main].req = thr[Main].req /\ (thr[Main].at = "idle" => thr'[Main].at = "idle")
    BY <1>1, <1>4 DEF ClientMove, ThreadMove, Registers, InCall
  <2> QED BY <2>1, <2>2 DEF ProcCallInv
<1>5. CASE ServerFrame
  BY <1>5 DEF ServerFrame, ProcCallInv, TheHook
<1>6. CASE thr[Main].at = "idle" /\ UNCHANGED thr
  BY <1>2, <1>6
<1> QED BY <1>3, <1>4, <1>5, <1>6, StepKinds

\* The object of a wait is the one its request names, also after the table grew.
LEMMA TargetKept ==
  ASSUME MIInv, ObjInv, ProxiesExact => TargetInv, ProxiesExact', [Next]_vars
  PROVE  TargetInv'
<1>1. Keeps /\ Stable
  BY NextStable
<1>2. TargetInv
  BY <1>1 DEF Stable
<1>3. \A o : Owned(o) => oids'[o] = oids[o]
  BY <1>1 DEF Stable
<1>4. ASSUME NEW q \in Rid, req'[q] = req[q], hnd'[q] = hnd[q] \/ hnd'[q].at \in {"none", "new"},
             req'[q].op = "wait", hnd'[q].at \in {"wait", "waitpid", "done"}
      PROVE  hnd'[q].obj = oids'[req'[q].oid].p
  <2>1. Owned(req[q].oid)
    BY <1>4 DEF ObjInv, RequestKind, ProcOps
  <2> QED BY <1>2, <1>3, <1>4, <2>1 DEF TargetInv
<1>5. CASE ManagerStep \/ MgrMove
  <2>1. UNCHANGED <<req, hnd>>
    BY <1>5, ManagerKinds DEF MgrMove
  <2> QED BY <1>4, <2>1 DEF TargetInv
<1>6. CASE ClientMove
  <2>1. ASSUME NEW q \in Rid, req'[q].op = "wait", hnd'[q].at \in {"wait", "waitpid", "done"}
        PROVE  hnd'[q].obj = oids'[req'[q].oid].p
    <3>1. hnd'[q] = hnd[q] \/ hnd'[q].at \in {"none", "new"}
      BY <1>6 DEF ClientMove
    <3>2. req'[q] = req[q]
      BY <1>6, <2>1, <3>1, ClientKeeps
    <3> QED BY <1>4, <2>1, <3>1, <3>2
  <2> QED BY <2>1 DEF TargetInv
<1>7. ASSUME ServerFrame, NEW h \in Rid, HandlerMove(h) PROVE TargetInv'
  <2>1. req' = req /\ \A q \in Rid \ {h} : hnd'[q] = hnd[q]
    BY <1>7 DEF ServerFrame, HandlerMove
  <2>2. ASSUME req[h].op = "wait", hnd'[h].at \in {"wait", "waitpid", "done"}
        PROVE  hnd'[h].obj = oids'[req[h].oid].p
    <3>1. HandlerKind(h)
      BY DEF ObjInv
    <3>2. ~Stores(h)
      BY <2>2, <3>1 DEF Stores, HandlerKind, RunOps
    <3>3. Goes(h)
      BY <1>7, <3>2 DEF HandlerMove
    <3>4. oids' = oids
      BY <3>3 DEF Goes
    <3>5. hnd[h].at \in {"wait", "waitpid"} => hnd[h].obj = oids[req[h].oid].p
      BY <1>2, <2>2 DEF TargetInv
    <3> QED BY <2>2, <3>1, <3>3, <3>4, <3>5 DEF Goes, HandlerKind, RunOps, ProxyOps, Target
  <2> QED BY <1>4, <2>1, <2>2 DEF TargetInv
<1>8. CASE ServerFrame /\ EndMove
  <2>1. req' = req /\ \A q \in Rid : hnd'[q] = hnd[q] \/ hnd'[q].at = "none"
    BY <1>8 DEF ServerFrame, EndMove
  <2> QED BY <1>4, <2>1 DEF TargetInv
<1> QED BY <1>5, <1>6, <1>7, <1>8, StepKinds

\* The steps of a run that has not raised: the manager stays where it is, goes
\* on in its hook, or leaves it.
LEMMA GoodSteps ==
  ASSUME MIInv, ObjInv, [Next]_vars, failed' = "no"
  PROVE  /\ failed = "no"
         /\ \/ ClientMove /\ MgrFrame
            \/ ServerFrame
            \/ MgrMove /\ (Begins \/ Passes \/ Spawns \/ Records \/ Returns \/ TaskDone \/ Exit)
<1>1. CASE ManagerStep
  <2>1. MgrMove /\ (Begins \/ Passes \/ Spawns \/ Records \/ Returns \/ TaskDone \/ Exit)
    BY <1>1, ManagerKinds DEF Quits, Leaves
  <2>2. failed = "no"
    BY <2>1, DoneDo DEF Begins, Passes, Spawns, Records, Returns, GoesPast, Advance, Exit
  <2> QED BY <2>1, <2>2
<1> QED BY <1>1, StepKinds DEF MgrFrame, ServerFrame, Leaves

\* What the step of a hook that records is.
LEMMA RecordsWhere ==
  ASSUME MIInv
  PROVE  /\ Records => \/ tasks[cur] = "Httperf" /\ phase = "start"
                       \/ tasks[cur] = "MemcachedLoad" /\ phase = "wait"
         /\ Returns /\ TheHook[step].do = "host" /\ TheHook[step].op = "run" =>
              tasks[cur] = "Memcached" /\ phase = "start" /\ step = 1
BY StepIs DEF MIInv, Types, Records, Returns, GoesPast, StepKind

\* What a recording leaves.
LEMMA RecordsPs ==
  ASSUME MIInv, ObjInv, Records
  PROVE  /\ \A j \in 1 .. Len(tasks) : j # cur => ps'[j] = ps[j]
         /\ Len(ps'[cur]) = N /\ \A i \in 1 .. N : ps'[cur][i] = out[thr[i].rid].n
<1>1. PICK q : q = [j \in 1 .. N |-> out[thr[j].rid].n]
  OBVIOUS
<1>2. Len(q) = N /\ \A i \in 1 .. N : q[i] = out[thr[i].rid].n
  BY <1>1, NPositive
<1>3. ps' = [ps EXCEPT ![cur] = q] /\ ps \in [1 .. Len(tasks) -> Seq(Int)] /\ cur \in 1 .. Len(tasks)
  BY <1>1 DEF Records, MIInv, Types, MgrTypes
<1> QED BY <1>2, <1>3

\* A hook records its processes at one of its steps, and no more than it then
\* waits for, so that a step keeps the records exact.
LEMMA RecKept ==
  ASSUME MIInv, ObjInv, RecInv, [Next]_vars, failed' = "no"
  PROVE  RecInv'
<1> USE DEF MIInv, Types
<1>1. /\ cur \in 1 .. Len(tasks) /\ step \in Nat \ {0} /\ Len(tasks) \in Nat /\ N \in Nat \ {0}
      /\ ps \in [1 .. Len(tasks) -> Seq(Int)] /\ Len(TheHook) \in Nat
  BY NPositive, TheHookGood, LenProperties DEF MgrTypes
<1>2. tasks' = tasks
  BY NextStable DEF Stable
<1>3. CASE UNCHANGED <<phase, cur, step, ps>>
  BY <1>2, <1>3 DEF RecInv, RecAhead, NotYet
<1>4. ASSUME NEW j \in 1 .. Len(tasks), GoesPast, RecAhead(j)' PROVE RecAhead(j)
  <2>1. step' = step + 1 /\ UNCHANGED <<phase, cur>>
    BY <1>4 DEF GoesPast, Advance
  <2>2. \A k \in Nat : NotYet(j, k)' => NotYet(j, k)
    BY <1>1, <2>1 DEF NotYet
  <2> QED BY <1>1, <1>2, <1>4, <2>1, <2>2 DEF RecAhead
<1>5. CASE Passes \/ Spawns \/ (Returns /\ UNCHANGED ps)
  <2>1. GoesPast /\ UNCHANGED ps
    BY <1>5 DEF Passes, Spawns, Returns
  <2> QED BY <1>2, <1>4, <2>1 DEF RecInv
<1>6. CASE Records
  <2>1. GoesPast /\ step = N + N /\ step' = N + N + 1 /\ UNCHANGED <<phase, cur>>
    BY <1>6 DEF Records, GoesPast, Advance
  <2>2. \A j \in 1 .. Len(tasks) : j # cur => ps'[j] = ps[j]
    BY <1>6, RecordsPs
  <2>3. Len(ps'[cur]) = N
    BY <1>6, RecordsPs
  <2>4. \/ tasks[cur] = "Httperf" /\ phase = "start"
        \/ tasks[cur] = "MemcachedLoad" /\ phase = "wait"
    BY <1>6, RecordsWhere
  <2>5. ~RecAhead(cur)'
    <3>1. ~NotYet(cur, N + N)'
      BY <1>1, <2>1 DEF NotYet
    <3> QED BY <1>2, <2>1, <2>4, <3>1 DEF RecAhead, NotYet
  <2>6. ASSUME NEW j \in 1 .. Len(tasks)
        PROVE  /\ RecAhead(j)' => Len(ps'[j]) = 0
               /\ Len(ps'[j]) <= N
               /\ tasks[j] = "Memcached" => Len(ps'[j]) <= 1
    <3>1. CASE j = cur
      <4>1. ~RecAhead(j)'
        BY <2>1, <2>5, <3>1 DEF RecAhead, NotYet
      <4> QED BY <1>1, <2>3, <2>4, <3>1, <4>1
    <3>2. CASE j # cur
      BY <1>4, <2>1, <2>2, <3>2 DEF RecInv
    <3> QED BY <3>1, <3>2
  <2> QED BY <1>2, <2>6 DEF RecInv
<1>7. CASE Returns /\ TheHook[step].do = "host" /\ TheHook[step].op = "run"
  <2>1. GoesPast /\ step' = step + 1 /\ UNCHANGED <<phase, cur>> /\ thr[Main].at = "done"
        /\ out[thr[Main].rid] # Exc /\ thr[Main].req.op = "run"
        /\ ps' = [ps EXCEPT ![cur] = Append(@, out[thr[Main].rid].n)]
    BY <1>7 DEF Returns, GoesPast, Advance
  <2>2. /\ \A j \in 1 .. Len(tasks) : j # cur => ps'[j] = ps[j]
        /\ Len(ps'[cur]) = Len(ps[cur]) + 1
    BY <2>1, RunRecords
  <2>3. tasks[cur] = "Memcached" /\ phase = "start" /\ step = 1
    BY <1>7, RecordsWhere
  <2>4. RecAhead(cur)
    BY <1>1, <2>3 DEF RecAhead, NotYet
  <2>5. Len(ps'[cur]) = 1
    BY <1>1, <2>2, <2>4 DEF RecInv
  <2>6. ASSUME NEW j \in 1 .. Len(tasks)
        PROVE  /\ RecAhead(j)' => Len(ps'[j]) = 0
               /\ Len(ps'[j]) <= N
               /\ tasks[j] = "Memcached" => Len(ps'[j]) <= 1
    <3>1. CASE j = cur
      <4>1. ~RecAhead(j)'
        BY <1>1, <1>2, <2>1, <2>3, <3>1 DEF RecAhead, NotYet
      <4>2. Len(ps'[j]) = 1 /\ 1 <= N
        BY <1>1, <2>5, <3>1
      <4> QED BY <4>1, <4>2
    <3>2. CASE j # cur
      BY <1>4, <2>1, <2>2, <3>2 DEF RecInv
    <3> QED BY <3>1, <3>2
  <2> QED BY <1>2, <2>6 DEF RecInv
<1>8. CASE TaskDone
  <2>1. UNCHANGED <<tasks, ps>> /\ step' = 1 /\ Running
    BY <1>2, <1>8, DoneDo
  <2>2. ASSUME NEW j \in 1 .. Len(tasks), RecAhead(j)' PROVE RecAhead(j)
    <3>1. \A k \in Nat : phase' = phase /\ phase \in {"start", "wait"} /\ NotYet(j, k)' => NotYet(j, k)
      BY <1>1, <1>8, DoneDo DEF NotYet
    <3>2. phase' = "start" => phase = "start"
      BY <1>8, <2>1, DoneDo DEF Running
    <3>3. phase' = "wait" => phase = "start" \/ phase = "wait"
      BY <1>8, <2>1, DoneDo DEF Running
    <3> QED BY <1>1, <2>1, <2>2, <3>1, <3>2, <3>3 DEF RecAhead
  <2> QED BY <2>1, <2>2 DEF RecInv
<1>9. CASE Exit
  <2>1. UNCHANGED <<tasks, ps>> /\ phase' = "exited"
    BY <1>2, <1>9 DEF Exit
  <2> QED BY <2>1 DEF RecInv, RecAhead
<1> QED BY <1>3, <1>5, <1>6, <1>7, <1>8, <1>9, GoodSteps DEF MgrFrame, ServerFrame, Begins, Returns

\* What a task has recorded it keeps.
PsKept == \A j \in 1 .. Len(tasks) : \A i \in 1 .. Len(ps[j]) : i \in 1 .. Len(ps'[j]) /\ ps'[j][i] = ps[j][i]

\* A process that is recorded stays so.
LEMMA RecordedStays ==
  ASSUME MIInv, ObjInv, Keeps, tasks' = tasks, PsKept, NEW r \in Rid, Recorded(r)
  PROVE  Recorded(r)'
<1>1. PICK j \in 1 .. Len(tasks) : \E i \in 1 .. Len(ps[j]) : hnd[r].res = Proxy(ps[j][i])
  BY DEF Recorded
<1>2. PICK i \in 1 .. Len(ps[j]) : hnd[r].res = Proxy(ps[j][i])
  BY <1>1
<1>3. hnd[r].res.kind = "proxy"
  BY <1>2 DEF Proxy
<1>4. hnd'[r] = hnd[r]
  BY <1>3, ProxyDone DEF Keeps
<1>5. i \in 1 .. Len(ps'[j]) /\ hnd'[r].res = Proxy(ps'[j][i])
  BY <1>2, <1>4 DEF PsKept
<1> QED BY <1>5 DEF Recorded

\* A recording comes once to each task, and appends or fills what was empty.
LEMMA PsStays ==
  ASSUME MIInv, ObjInv, RecInv, [Next]_vars, failed' = "no"
  PROVE  PsKept
<1>1. CASE UNCHANGED ps
  BY <1>1 DEF PsKept
<1>2. CASE Records
  <2>1. step = N + N
    BY <1>2 DEF Records
  <2>2. RecAhead(cur)
    BY <1>2, <2>1, RecordsWhere, NPositive DEF RecAhead, NotYet
  <2>3. cur \in 1 .. Len(tasks)
    BY DEF MIInv, Types, MgrTypes
  <2>4. Len(ps[cur]) = 0
    BY <2>2, <2>3 DEF RecInv
  <2> QED BY <1>2, <2>4, RecordsPs DEF PsKept
<1>3. CASE Returns /\ TheHook[step].do = "host" /\ TheHook[step].op = "run"
  <2>1. /\ \A j \in 1 .. Len(tasks) : j # cur => ps'[j] = ps[j]
        /\ Len(ps'[cur]) = Len(ps[cur]) + 1 /\ Len(ps[cur]) \in Nat
        /\ \A k \in 1 .. Len(ps[cur]) : ps'[cur][k] = ps[cur][k]
    BY <1>3, RunRecords DEF Returns
  <2>2. \A i \in 1 .. Len(ps[cur]) : i \in 1 .. Len(ps'[cur])
    BY <2>1
  <2> QED BY <2>1, <2>2 DEF PsKept
<1> QED BY <1>1, <1>2, <1>3, GoodSteps, DoneDo DEF MgrFrame, ServerFrame, Begins, Passes, Spawns, Returns, Exit

\* The processes of a call that has returned before the step.
LEMMA RunStays ==
  ASSUME MIInv, ObjInv, RecInv, RunsInv, [Next]_vars, failed' = "no", NEW r \in Rid, r < rid, ~UnderWay(r)
  PROVE  /\ req'[r].op \in {"run", "runLoad"} => Recorded(r)'
         /\ req'[r].op = "runWait" => proc'[r] = "reaped"
<1>1. Keeps /\ Stable /\ PsKept
  BY NextStable, PsStays
<1>2. req'[r] = req[r]
  <2>1. CASE ClientMove
    <3>1. r # rid
      BY DEF MIInv, Types, ClientTypes, Rid
    <3> QED BY <2>1, <3>1, ClientKeeps
  <2> QED BY <2>1, GoodSteps DEF ServerFrame, MgrMove
<1>3. req[r].op \in {"run", "runLoad"} => Recorded(r)'
  BY <1>1, RecordedStays DEF RunsInv, Stable
<1> QED BY <1>1, <1>2, <1>3 DEF RunsInv, Stable

\* A call that the main thread has got an answer from.
LEMMA ReturnedRun ==
  ASSUME MIInv, ObjInv, Keeps, tasks' = tasks, MgrMove, Returns, NEW r, r = thr[Main].rid
  PROVE  /\ req[r].op \in {"run", "runLoad"} => Recorded(r)'
         /\ req[r].op = "runWait" => proc[r] = "reaped"
<1> USE DEF MIInv, Types
<1>1. r = thr[Main].rid
  OBVIOUS
<1>2. /\ Main \in Caller /\ thr[Main].at = "done" /\ step <= Len(TheHook)
      /\ thr[Main].req.op = TheHook[step].op /\ out[r] # Exc
      /\ TheHook[step].do \in {"connect", "host", "proc"}
  BY <1>1 DEF Returns, GoesPast, Caller
<1>3. StepKind(TheHook[step], tasks[cur], phase, step)
  BY <1>2, StepIs
<1>4. r \in Rid /\ req[r] = thr[Main].req
  BY <1>1, <1>2 DEF CallsInv, OwnerInv, ClientTypes, InCall
<1>5. ASSUME req[r].op = "runWait" PROVE proc[r] = "reaped"
  <2>1. out[r] = hnd[r].res /\ out[r] = Proxy(out[r].n)
    BY <1>1, <1>2, <1>4, <1>5, AnswerProxy DEF ProxyOps, RunOps
  <2>2. hnd[r].res.kind = "proxy"
    BY <2>1 DEF Proxy
  <2>3. hnd[r].at = "done" /\ hnd[r].res \notin {NoVal, Exc}
    BY <1>4, <2>2, ProxyDone DEF NoVal, Exc
  <2>4. hnd[r].obj = r
    BY <1>4, <1>5, <2>3 DEF ObjInv, HandlerKind
  <2>5. r # NoRid
    BY <1>4 DEF Rid, NoRid
  <2> QED BY <1>4, <1>5, <2>3, <2>4, <2>5 DEF WaitExact
<1>6. ASSUME req[r].op \in {"run", "runLoad"} PROVE Recorded(r)'
  <2>1. TheHook[step].do = "host" /\ TheHook[step].op = "run"
    BY <1>2, <1>3, <1>4, <1>6 DEF StepKind, ProcOps
  <2>2. out[r] = hnd[r].res /\ out[r] = Proxy(out[r].n)
    BY <1>1, <1>2, <1>4, <1>6, AnswerProxy DEF ProxyOps, RunOps
  <2>3. PICK k : k = Len(ps[cur]) + 1
    OBVIOUS
  <2>4. Len(ps'[cur]) = k /\ Len(ps[cur]) \in Nat /\ ps'[cur][k] = out[r].n
    BY <1>1, <1>2, <1>4, <1>6, <2>1, <2>3, RunRecords DEF Returns
  <2>5. k \in 1 .. Len(ps'[cur]) /\ cur \in 1 .. Len(tasks)
    BY <2>3, <2>4 DEF MgrTypes
  <2>6. hnd'[r].res = Proxy(ps'[cur][k])
    BY <2>2, <2>4 DEF MgrMove
  <2> QED BY <2>5, <2>6 DEF Recorded
<1> QED BY <1>5, <1>6

\* The hook is at its last sync when it has all its processes.
LEMMA CollectsOn ==
  ASSUME MIInv, tasks' = tasks, GoesPast, ~Records, Passes \/ Spawns \/ Returns, NEW i \in Asyncs, Collecting(i)
  PROVE  Collecting(i)'
<1>1. step' = step + 1 /\ UNCHANGED <<phase, cur, TheHook>>
  BY DEF GoesPast, Advance, TheHook
<1>2. Working /\ i < step /\ step <= N + N /\ N + N <= Len(TheHook) /\ TheHook[N + N].do = "sync"
  BY DEF Collecting
<1>3. step \in Nat /\ i \in Nat /\ N \in Nat \ {0} /\ Len(TheHook) \in Nat
  BY NPositive, TheHookGood DEF MIInv, Types, MgrTypes
<1>4. step # N + N
  <2>1. step = N + N => TheHook[step].do = "sync"
    BY <1>2
  <2> QED BY <1>3, <2>1 DEF Passes, Spawns, AsyncStarts, Returns
<1>5. i < step' /\ step' <= N + N
  BY <1>1, <1>2, <1>3, <1>4
<1> QED BY <1>1, <1>2, <1>5 DEF Collecting, Working

\* A call that returns leaves its process recorded or reaped.
LEMMA RunsKept ==
  ASSUME MIInv, MIInv', ObjInv, ObjInv', RecInv, RunsInv, [Next]_vars, failed' = "no"
  PROVE  RunsInv'
<1> USE DEF MIInv, Types
<1>1. /\ Main \in Caller /\ Main \notin Asyncs /\ Asyncs \subseteq Caller
      /\ Keeps /\ Stable /\ tasks' = tasks
  BY NPositive, NextStable DEF Caller, Stable
<1> DEFINE Good(r) == /\ req'[r].op \in {"run", "runLoad"} => Recorded(r)'
                      /\ req'[r].op = "runWait" => proc'[r] = "reaped"
<1>2. \A r \in Rid : r < rid /\ ~UnderWay(r) => Good(r)
  BY RunStays
<1>3. ASSUME \A r \in Rid : r < rid' /\ ~UnderWay(r)' => Good(r) PROVE RunsInv'
  BY <1>3 DEF RunsInv
<1> HIDE DEF Good
<1>4. CASE ClientMove /\ MgrFrame
  <2>1. UNCHANGED <<phase, cur, step, failed, TheHook>>
    BY <1>4 DEF MgrFrame, TheHook
  <2>2. \A i \in Asyncs : Collecting(i)' <=> Collecting(i)
    BY <2>1 DEF Collecting, Working
  <2>3. ASSUME NEW r \in Rid, UnderWay(r) PROVE UnderWay(r)'
    <3>1. \A t \in Caller : thr[t].at \in InCall => thr'[t].at \in InCall /\ thr'[t].rid = thr[t].rid
      BY <1>4 DEF ClientMove, ThreadMove, Registers, InCall
    <3> QED BY <1>1, <2>2, <2>3, <3>1 DEF UnderWay
  <2>4. ASSUME NEW r \in Rid, NEW t \in Caller, Registers(t), r = rid PROVE UnderWay(r)'
    <3>1. thr'[t].at \in {"raise", "try"} /\ thr'[t].rid = r
      BY <2>4 DEF Registers
    <3>2. CASE t = Main
      BY <3>1, <3>2 DEF UnderWay, InCall
    <3>3. CASE t # Main
      <4>1. t \in Asyncs
        BY <3>3 DEF Caller
      <4>2. Working'
        BY <3>1, <4>1 DEF ObjInv, SyncInv
      <4>3. /\ t < step /\ step <= N + t /\ N + t <= Len(TheHook)
            /\ TheHook[N + t].do = "sync"
        BY <2>1, <3>1, <4>1, <4>2 DEF FlowInv, AsyncInv, Working
      <4>4. /\ t \in 1 .. N /\ N \in Nat \ {0} /\ GoodHook(TheHook) /\ step \in Nat /\ Len(TheHook) \in Nat
        BY <4>1, NPositive, TheHookGood DEF MgrTypes
      <4>5. N + t \in 1 .. Len(TheHook) /\ N \in 1 .. N
        BY <4>3, <4>4
      <4>6. N + N <= Len(TheHook) /\ TheHook[N + N].do = "sync"
        BY <4>3, <4>4, <4>5 DEF GoodHook
      <4>7. step <= N + N
        BY <4>3, <4>4
      <4>8. Working
        BY <2>1, <4>2 DEF Working
      <4>9. Collecting(t)
        BY <4>3, <4>6, <4>7, <4>8 DEF Collecting
      <4> QED BY <2>2, <3>1, <4>1, <4>9 DEF UnderWay, InCall
    <3> QED BY <3>2, <3>3
  <2>5. ASSUME NEW r \in Rid, r < rid', ~UnderWay(r)' PROVE Good(r)
    <3>1. r < rid
      <4>1. CASE rid' = rid
        BY <2>5, <4>1
      <4>2. CASE \E t \in Caller : Registers(t)
        <5>1. rid' = rid + 1 /\ r # rid
          BY <2>4, <2>5, <4>2 DEF Registers
        <5> QED BY <2>5, <5>1 DEF ClientTypes, Rid
      <4> QED BY <1>4, <4>1, <4>2 DEF ClientMove
    <3>2. ~UnderWay(r)
      BY <2>3, <2>5
    <3> QED BY <1>2, <3>1, <3>2
  <2> QED BY <1>3, <2>5
<1>5. ASSUME rid' = rid, \A r \in Rid : UnderWay(r) /\ ~UnderWay(r)' => Good(r) PROVE RunsInv'
  BY <1>2, <1>3, <1>5
<1>6. CASE ServerFrame
  <2>1. \A r \in Rid : UnderWay(r) => UnderWay(r)'
    BY <1>6 DEF ServerFrame, UnderWay, Collecting, Working, TheHook
  <2> QED BY <1>5, <1>6, <2>1 DEF ServerFrame
<1>7. CASE MgrMove
  <2>0. rid' = rid /\ req' = req /\ proc' = proc
    BY <1>7 DEF MgrMove, procVars
  <2>1. CASE Begins
    <3>1. UNCHANGED <<phase, cur, step, TheHook>> /\ thr[Main].at \notin InCall /\ AsyncsStay
      BY <1>1, <2>1 DEF Begins, TheHook, InCall
    <3>2. \A r \in Rid : UnderWay(r) => UnderWay(r)'
      BY <3>1 DEF UnderWay, Collecting, Working, AsyncsStay
    <3> QED BY <1>5, <2>0, <3>2
  <2>2. CASE Passes \/ Spawns
    <3>1. GoesPast /\ ~Records /\ thr[Main].at \notin InCall
      <4>1. GoesPast /\ thr[Main].at = "idle" /\ UNCHANGED ps
        BY <2>2 DEF Passes, Spawns
      <4>2. ~(TheHook[step].do = "sync" /\ step = N + N)
        BY <2>2, NPositive DEF Passes, Spawns, AsyncStarts
      <4> QED BY <4>1, <4>2 DEF Records, InCall
    <3>2. \A i \in Asyncs : Collecting(i) => Collecting(i)' /\ thr'[i] = thr[i]
      <4>1. ASSUME NEW i \in Asyncs, Collecting(i) PROVE thr'[i] = thr[i]
        <5>1. i # step
          BY <4>1, NPositive DEF Collecting
        <5> QED BY <2>2, <5>1 DEF Passes, Spawns, AsyncsStay, AsyncStarts
      <4> QED BY <1>1, <2>2, <3>1, <4>1, CollectsOn
    <3>3. \A r \in Rid : UnderWay(r) => UnderWay(r)'
      BY <3>1, <3>2 DEF UnderWay
    <3> QED BY <1>5, <2>0, <3>3
  <2>3. CASE Returns
    <3>1. GoesPast /\ ~Records /\ AsyncsStay
      BY <2>3 DEF Returns, Records
    <3>2. \A i \in Asyncs : Collecting(i) => Collecting(i)' /\ thr'[i] = thr[i]
      BY <1>1, <2>3, <3>1, CollectsOn DEF AsyncsStay
    <3>3. \A r \in Rid : UnderWay(r) /\ ~UnderWay(r)' => r = thr[Main].rid
      BY <3>2 DEF UnderWay
    <3>4. ASSUME NEW r \in Rid, r = thr[Main].rid PROVE Good(r)
      BY <1>1, <1>7, <2>0, <2>3, <3>4, ReturnedRun DEF Good
    <3> QED BY <1>5, <2>0, <3>3, <3>4
  <2>4. CASE Records
    <3>1. thr[Main].at \notin InCall /\ \A j \in 1 .. N :
            thr[j].at = "done" /\ out[thr[j].rid] # Exc /\ thr[j].req.op \in {"run", "runLoad"}
      BY <2>4 DEF Records, InCall
    <3>2. ASSUME NEW r \in Rid, UnderWay(r) PROVE Good(r)
      <4>1. PICK i \in Asyncs : thr[i].rid = r
        BY <3>1, <3>2 DEF UnderWay
      <4>2. i \in 1 .. N /\ i \in Caller
        BY <1>1, <4>1, NPositive
      <4>3. /\ thr[i].at = "done" /\ out[r] # Exc /\ thr[i].req.op \in {"run", "runLoad"}
        BY <3>1, <4>1, <4>2
      <4>4. req[r] = thr[i].req /\ hnd[r].res = out[r] /\ out[r] = Proxy(out[r].n)
        BY <4>1, <4>2, <4>3, AnswerProxy DEF ProxyOps, RunOps
      <4>5. Len(ps'[cur]) = N /\ ps'[cur][i] = out[r].n
        BY <2>4, <4>1, <4>2, RecordsPs
      <4>6. i \in 1 .. Len(ps'[cur]) /\ cur \in 1 .. Len(tasks) /\ hnd' = hnd
        BY <1>7, <4>2, <4>5 DEF MgrTypes, MgrMove
      <4>7. hnd'[r].res = Proxy(ps'[cur][i])
        BY <4>4, <4>5, <4>6
      <4>8. Recorded(r)'
        BY <1>1, <4>6, <4>7 DEF Recorded
      <4> QED BY <2>0, <4>3, <4>4, <4>8 DEF Good
    <3> QED BY <1>5, <2>0, <3>2
  <2>5. CASE TaskDone \/ Exit
    <3>1. thr[Main].at = "idle"
      BY <2>5, DoneDo DEF Exit, FlowInv, MainInv, Running
    <3>2. \A i \in Asyncs : ~Collecting(i)
      <4>1. CASE TaskDone
        <5>1. step > Len(TheHook) /\ Len(TheHook) \in Nat /\ step \in Nat /\ N \in Nat
          BY <4>1, DoneDo, NPositive, TheHookGood DEF MgrTypes
        <5>2. ~(step <= N + N /\ N + N <= Len(TheHook))
          BY <5>1
        <5> QED BY <5>2 DEF Collecting
      <4>2. CASE Exit
        BY <4>2 DEF Exit, Collecting, Working
      <4> QED BY <2>5, <4>1, <4>2
    <3>3. \A r \in Rid : ~UnderWay(r)
      BY <3>1, <3>2 DEF UnderWay, InCall
    <3> QED BY <1>5, <2>0, <3>3
  <2> QED BY <2>1, <2>2, <2>3, <2>4, <2>5, GoodSteps, <1>4, <1>6
<1> QED BY <1>4, <1>6, <1>7, GoodSteps

\* Where a task waits for its process i the hook has its wait for it.
LEMMA WaitStep ==
  ASSUME MIInv, RecInv, NEW i \in 1 .. Len(ps[cur]),
         \/ tasks[cur] = "MemcachedLoad" /\ phase = "wait" /\ step = N + N + i
         \/ tasks[cur] # "MemcachedLoad" /\ phase = "stop" /\ step = i + i
  PROVE  TheHook[step] = OnProc("wait", i)
<1> USE DEF MIInv, Types
<1>1. cur \in 1 .. Len(tasks) /\ tasks[cur] \in TaskClass /\ phase \in Phase /\ N \in Nat \ {0}
  BY StepIs, NPositive DEF MgrTypes
<1>2. ps[cur] \in Seq(Int) /\ Len(ps[cur]) \in Nat
  BY <1>1, LenProperties DEF MgrTypes
<1>3. Len(ps[cur]) <= N /\ (tasks[cur] = "Memcached" => Len(ps[cur]) <= 1) /\ tasks[cur] # "Host"
  <2>1. tasks[cur] = "Host" => Len(ps[cur]) = 0
    BY <1>1 DEF RecInv, RecAhead
  <2> QED BY <1>1, <1>2, <2>1 DEF RecInv
<1>4. i \in 1 .. N /\ (tasks[cur] = "Memcached" => i = 1)
  BY <1>1, <1>2, <1>3
<1>5. CASE tasks[cur] = "MemcachedLoad"
  BY <1>1, <1>4, <1>5, HookKinds DEF TheHook
<1>6. CASE tasks[cur] = "Httperf"
  BY <1>1, <1>4, <1>6, HookKinds DEF TheHook
<1>7. CASE tasks[cur] = "Memcached"
  <2>1. i = 1 /\ step = 2 /\ phase = "stop"
    BY <1>4, <1>7
  <2> QED BY <1>1, <1>7, <2>1, HookKinds DEF TheHook
<1> QED BY <1>1, <1>3, <1>5, <1>6, <1>7 DEF TaskClass

\* The hook's wait has returned: the process is reaped.
LEMMA WaitReturned ==
  ASSUME MIInv, ObjInv, ProcCallInv, TargetInv, Returns, NEW i \in 1 .. Len(ps[cur]),
         TheHook[step] = OnProc("wait", i)
  PROVE  proc[oids[ps[cur][i]].p] = "reaped"
<1> USE DEF MIInv, Types
<1>1. PICK r : r = thr[Main].rid
  OBVIOUS
<1>2. TheHook[step].do = "proc" /\ TheHook[step].op = "wait" /\ TheHook[step].i = i
  BY DEF OnProc, Step
<1>3. /\ Main \in Caller /\ thr[Main].at = "done" /\ thr[Main].req.op = "wait" /\ out[r] # Exc
      /\ thr[Main].req.oid = ps[cur][i]
  BY <1>1, <1>2 DEF Returns, ProcCallInv, Caller
<1>4. r \in Rid /\ req[r] = thr[Main].req /\ out[r] # NoVal
  BY <1>1, <1>3 DEF CallsInv, OwnerInv, ClientTypes, InCall, ObjInv, DoneInv
<1>5. hnd[r].at = "done"
  BY <1>3, <1>4 DEF CallsInv, AnswerInv
<1>6. hnd[r].obj = oids[ps[cur][i]].p
  BY <1>3, <1>4, <1>5 DEF TargetInv
<1>7. Owned(req[r].oid) /\ req[r].oid \in DOMAIN oids
  BY <1>3, <1>4 DEF ObjInv, RequestKind, ProcOps, OidInv
<1>8. oids[ps[cur][i]].p \in Rid
  BY <1>3, <1>4, <1>7 DEF Owned, ObjInv, TableKinds
<1>9. hnd[r].obj # NoRid
  BY <1>6, <1>8 DEF Rid, NoRid
<1> QED BY <1>3, <1>4, <1>5, <1>6, <1>9 DEF WaitExact

\* A loop leaves a task when its hook is at its end.
LEMMA DoneAhead ==
  ASSUME MIInv, ObjInv, RecInv, TaskDone, failed = "no", NEW j \in 1 .. Len(tasks), NEW i \in 1 .. Len(ps[j]),
         WaitAhead(j, i)
  PROVE  WaitAhead(j, i)'
<1> USE DEF MIInv, Types
<1>1. /\ cur \in 1 .. Len(tasks) /\ Len(tasks) \in Nat /\ step \in Nat /\ Len(TheHook) \in Nat
      /\ tasks[cur] \in TaskClass /\ phase \in Phase /\ N \in Nat \ {0}
      /\ ps[j] \in Seq(Int) /\ Len(ps[j]) \in Nat
  <2>1. tasks[cur] \in TaskClass /\ phase \in Phase /\ N \in Nat \ {0} /\ Len(TheHook) \in Nat
    BY StepIs, NPositive, TheHookGood
  <2>2. ps[j] \in Seq(Int) /\ Len(ps[j]) \in Nat
    BY LenProperties DEF MgrTypes
  <2> QED BY <2>1, <2>2, LenProperties DEF MgrTypes
<1>2. /\ step > Len(TheHook) /\ step' = 1 /\ tasks' = tasks /\ phase \in {"start", "wait", "stop"}
  BY DoneDo DEF Running, MgrMove, ObjInv, SyncInv
<1>3. /\ Len(ps[j]) <= N /\ tasks[j] # "Host"
      /\ tasks[j] = "Memcached" => Len(ps[j]) <= 1
  <2>1. tasks[j] = "Host" => Len(ps[j]) = 0
    BY DEF RecInv, RecAhead
  <2> QED BY <1>1, <2>1 DEF RecInv
<1>4. i \in 1 .. N /\ (tasks[j] = "Memcached" => i = 1)
  BY <1>1, <1>3
<1>5. CASE phase = "start"
  <2>1. phase' = "start" \/ (phase' = "wait" /\ cur' = 1)
    BY <1>5, DoneDo
  <2>2. phase' = "wait" => NotYet(j, N + N + i)'
    BY <1>1, <1>2, <1>4, <2>1 DEF NotYet
  <2> QED BY <1>2, <2>1, <2>2 DEF WaitAhead
<1>6. CASE phase = "wait"
  <2>1. IF cur = Len(tasks) THEN phase' = "stop" /\ cur' = Len(tasks) ELSE phase' = "wait" /\ cur' = cur + 1
    BY <1>6, DoneDo
  <2>2. CASE tasks[j] = "MemcachedLoad"
    <3>1. NotYet(j, N + N + i)
      BY <1>6, <2>2 DEF WaitAhead
    <3>2. cur # j
      <4> SUFFICES ASSUME cur = j PROVE FALSE
        OBVIOUS
      <4>1. Len(TheHook) = N + N + N + 2
        BY <1>1, <1>6, <2>2, HookKinds DEF TheHook
      <4>2. step <= N + N + i
        BY <1>1, <3>1 DEF NotYet
      <4> QED BY <1>1, <1>2, <1>4, <4>1, <4>2
    <3>3. cur < j
      BY <1>1, <3>1, <3>2 DEF NotYet
    <3>4. phase' = "wait" /\ cur' = cur + 1
      BY <1>1, <2>1, <3>3
    <3>5. NotYet(j, N + N + i)'
      BY <1>1, <1>2, <1>4, <3>3, <3>4 DEF NotYet
    <3> QED BY <1>2, <2>2, <3>4, <3>5 DEF WaitAhead
  <2>3. CASE tasks[j] # "MemcachedLoad"
    <3>1. phase' = "stop" => j < cur' \/ (cur' = j /\ step' <= i + i)
      BY <1>1, <1>2, <1>4, <2>1
    <3> QED BY <1>2, <2>1, <2>3, <3>1 DEF WaitAhead
  <2> QED BY <2>2, <2>3
<1>7. CASE phase = "stop"
  <2>1. tasks[j] # "MemcachedLoad" /\ (j < cur \/ (cur = j /\ step <= i + i))
    BY <1>7 DEF WaitAhead
  <2>2. IF cur = 1 THEN phase' = "over" /\ cur' = Len(tasks) ELSE phase' = "stop" /\ cur' = cur - 1
    BY <1>7, DoneDo
  <2>3. ~(cur = j /\ step <= i + i)
    <3> SUFFICES ASSUME cur = j, step <= i + i PROVE FALSE
      OBVIOUS
    <3>1. CASE tasks[j] = "Httperf"
      <4>1. Len(TheHook) = N + N
        BY <1>1, <1>7, <3>1, HookKinds DEF TheHook
      <4> QED BY <1>1, <1>2, <1>4, <4>1
    <3>2. CASE tasks[j] = "Memcached"
      <4>1. Len(TheHook) = 2 /\ i = 1
        BY <1>1, <1>4, <1>7, <3>2, HookKinds DEF TheHook
      <4> QED BY <1>1, <1>2, <4>1
    <3> QED BY <1>1, <1>3, <2>1, <3>1, <3>2 DEF TaskClass
  <2>4. j < cur /\ phase' = "stop" /\ cur' = cur - 1
    BY <1>1, <2>1, <2>2, <2>3
  <2>5. j < cur' \/ (cur' = j /\ step' <= i + i)
    BY <1>1, <1>2, <1>4, <2>4
  <2> QED BY <1>2, <2>1, <2>4, <2>5 DEF WaitAhead
<1> QED BY <1>2, <1>5, <1>6, <1>7

\* A hook goes past a wait when it has returned, or there was none to make.
LEMMA PastWait ==
  ASSUME MIInv, ObjInv, ProcCallInv, RecInv, TargetInv, tasks' = tasks,
         Passes \/ Spawns \/ Records \/ Returns,
         NEW j \in 1 .. Len(tasks), NEW i \in 1 .. Len(ps[j]), WaitAhead(j, i), ~WaitAhead(j, i)'
  PROVE  proc[oids[ps[j][i]].p] = "reaped"
<1> USE DEF MIInv, Types
<1>1. /\ cur \in 1 .. Len(tasks) /\ step \in Nat /\ N \in Nat \ {0} /\ i \in Nat /\ Len(ps[j]) \in Nat
  BY NPositive, TheHookGood, LenProperties DEF MgrTypes
<1>2. GoesPast /\ step' = step + 1 /\ UNCHANGED <<phase, cur>>
  BY DEF Passes, Spawns, Records, Returns, GoesPast, Advance
<1>3. /\ j = cur
      /\ \/ tasks[cur] = "MemcachedLoad" /\ phase = "wait" /\ step = N + N + i
         \/ tasks[cur] # "MemcachedLoad" /\ phase = "stop" /\ step = i + i
  <2>1. CASE tasks[j] = "MemcachedLoad"
    <3>1. phase = "wait" /\ NotYet(j, N + N + i) /\ ~NotYet(j, N + N + i)'
      BY <1>2, <2>1 DEF WaitAhead
    <3>2. j = cur /\ step <= N + N + i /\ ~(step + 1 <= N + N + i)
      BY <1>1, <1>2, <3>1 DEF NotYet
    <3> QED BY <1>1, <2>1, <3>1, <3>2
  <2>2. CASE tasks[j] # "MemcachedLoad"
    <3>1. phase = "stop" /\ j = cur /\ step <= i + i /\ ~(step + 1 <= i + i)
      BY <1>1, <1>2, <2>2 DEF WaitAhead
    <3> QED BY <1>1, <2>2, <3>1
  <2> QED BY <2>1, <2>2
<1>4. i \in 1 .. Len(ps[cur]) /\ TheHook[step] = OnProc("wait", i)
  BY <1>3, WaitStep
<1>5. TheHook[step].do = "proc" /\ TheHook[step].i = i /\ ~(i > Len(ps[cur]))
  BY <1>1, <1>3, <1>4 DEF OnProc, Step
<1>6. Returns
  BY <1>5 DEF Passes, Spawns, AsyncStarts, Records
<1> QED BY <1>3, <1>4, <1>6, WaitReturned

\* What a task has recorded it waits for, or has waited for.
LEMMA WaitedKept ==
  ASSUME MIInv, ObjInv, ProcCallInv, RecInv, ProxiesExact => TargetInv, ProxiesExact => WaitedInv,
         ProxiesExact', failed' = "no", [Next]_vars
  PROVE  WaitedInv'
<1> USE DEF MIInv, Types
<1>1. Keeps /\ Stable /\ tasks' = tasks /\ PsKept /\ TargetInv /\ WaitedInv
  BY NextStable, PsStays DEF Stable
<1>2. ASSUME NEW j \in 1 .. Len(tasks), NEW i \in 1 .. Len(ps[j]), proc[oids[ps[j][i]].p] = "reaped"
      PROVE  proc'[oids'[ps'[j][i]].p] = "reaped"
  <2>1. ps'[j][i] = ps[j][i]
    BY <1>1 DEF PsKept
  <2>2. Owned(ps[j][i]) /\ ps[j][i] \in DOMAIN oids
    BY DEF ObjInv, ConnKinds, OidInv
  <2>3. oids'[ps[j][i]] = oids[ps[j][i]]
    BY <1>1, <2>2 DEF Stable
  <2>4. oids[ps[j][i]].p \in Rid
    BY <2>2 DEF Owned, ObjInv, TableKinds
  <2> QED BY <1>1, <1>2, <2>1, <2>3, <2>4 DEF Stable
<1>3. ASSUME \A j \in 1 .. Len(tasks) : \A i \in 1 .. Len(ps'[j]) :
               \/ WaitAhead(j, i)'
               \/ i \in 1 .. Len(ps[j]) /\ (~WaitAhead(j, i) \/ proc[oids[ps[j][i]].p] = "reaped")
      PROVE  WaitedInv'
  BY <1>1, <1>2, <1>3 DEF WaitedInv
<1>4. CASE UNCHANGED <<phase, cur, step, ps>>
  BY <1>1, <1>3, <1>4 DEF WaitAhead, NotYet
<1>5. CASE (Passes \/ Spawns \/ Returns) /\ UNCHANGED ps
  BY <1>1, <1>3, <1>5, PastWait
<1>6. CASE Records
  <2>1. step' = step + 1 /\ step = N + N /\ UNCHANGED <<phase, cur>> /\ N \in Nat \ {0}
    BY <1>6, NPositive DEF Records, GoesPast, Advance
  <2>2. /\ \A j \in 1 .. Len(tasks) : j # cur => ps'[j] = ps[j]
        /\ Len(ps'[cur]) = N
    BY <1>6, RecordsPs
  <2>3. \/ tasks[cur] = "Httperf" /\ phase = "start"
        \/ tasks[cur] = "MemcachedLoad" /\ phase = "wait"
    BY <1>6, RecordsWhere
  <2>4. ASSUME NEW i \in 1 .. N, NEW j, j = cur PROVE WaitAhead(j, i)'
    <3>1. NotYet(j, N + N + i)'
      BY <2>1, <2>4 DEF NotYet
    <3> QED BY <1>1, <2>1, <2>3, <2>4, <3>1 DEF WaitAhead
  <2>5. ASSUME NEW j \in 1 .. Len(tasks), NEW i \in 1 .. Len(ps'[j])
        PROVE  \/ WaitAhead(j, i)'
               \/ i \in 1 .. Len(ps[j]) /\ (~WaitAhead(j, i) \/ proc[oids[ps[j][i]].p] = "reaped")
    <3>1. CASE j = cur
      BY <2>2, <2>4, <3>1
    <3>2. CASE j # cur
      <4>1. i \in 1 .. Len(ps[j])
        BY <2>2, <3>2
      <4> QED BY <1>1, <1>6, <4>1, PastWait
    <3> QED BY <3>1, <3>2
  <2> QED BY <1>3, <2>5
<1>7. CASE Returns /\ TheHook[step].do = "host" /\ TheHook[step].op = "run"
  <2>1. UNCHANGED <<phase, cur>>
    BY <1>7 DEF Returns, GoesPast, Advance
  <2>2. \A j \in 1 .. Len(tasks) : j # cur => ps'[j] = ps[j]
    BY <1>7, RunRecords DEF Returns
  <2>3. tasks[cur] = "Memcached" /\ phase = "start"
    BY <1>7, RecordsWhere
  <2>4. ASSUME NEW j \in 1 .. Len(tasks), NEW i \in 1 .. Len(ps'[j])
        PROVE  WaitAhead(j, i)'
    BY <1>1, <2>1, <2>3 DEF WaitAhead
  <2> QED BY <1>3, <2>4
<1>8. CASE TaskDone
  <2>1. UNCHANGED ps /\ failed = "no"
    BY <1>8, DoneDo
  <2> QED BY <1>3, <1>8, <2>1, DoneAhead
<1>9. CASE Exit
  <2>1. UNCHANGED ps /\ phase = "over"
    BY <1>9 DEF Exit
  <2> QED BY <1>3, <2>1 DEF WaitAhead
<1> QED BY <1>4, <1>5, <1>6, <1>7, <1>8, <1>9, GoodSteps DEF MgrFrame, ServerFrame, Begins, Passes, Spawns, Returns

-----------------------------------------------------------------------------
\* Every step.
LEMMA NextEnd ==
  ASSUME MIInv, MIInv', ObjInv, ObjInv', EndInv, [Next]_vars
  PROVE  EndInv'
<1>1. ProcCallInv'
  BY ProcCallKept DEF EndInv
<1>2. ASSUME failed' = "no" PROVE RunsInv' /\ RecInv' /\ RunsInv /\ RecInv /\ failed = "no"
  BY <1>2, GoodSteps, RunsKept, RecKept DEF EndInv
<1>3. ProxiesExact' => TargetInv'
  BY TargetKept DEF EndInv
<1>4. ProxiesExact' /\ failed' = "no" => WaitedInv'
  BY <1>2, WaitedKept DEF EndInv
<1> QED BY <1>1, <1>2, <1>3, <1>4 DEF EndInv

\* The first state.
LEMMA InitEnd ==
  ASSUME Init
  PROVE  EndInv
<1>1. /\ thr = [t \in Caller |-> [at |-> "idle", rid |-> NoRid, req |-> NoReq]] /\ rid = 0
      /\ req = [r \in Rid |-> NoReq] /\ ps = [j \in DOMAIN tasks |-> <<>>] /\ tasks \in Seq(TaskClass)
  BY ManagerAssumption DEF Init, HostInit, RpcInit
<1>2. ProcCallInv
  BY <1>1 DEF ProcCallInv, Caller
<1>3. RunsInv
  BY <1>1 DEF RunsInv, Rid
<1>4. TargetInv
  BY <1>1 DEF TargetInv, NoReq
<1>5. \A j \in 1 .. Len(tasks) : Len(ps[j]) = 0
  BY <1>1, LenProperties
<1>6. RecInv
  BY <1>5, NPositive DEF RecInv
<1>7. WaitedInv
  BY <1>5 DEF WaitedInv
<1> QED BY <1>2, <1>3, <1>4, <1>6, <1>7 DEF EndInv

\* In every state of a run that has not raised, the process of a call that has
\* returned is in the list of the task that asked for it, and a task whose hooks
\* have waited for one of its processes has had it reaped: wait waits for the
\* process that its proxy names, as long as no two proxies share an id.
THEOREM EndInvariance == Spec => []EndInv
<1>1. Init => EndInv
  BY InitEnd
<1>2. MIInv /\ MIInv' /\ ObjInv /\ ObjInv' /\ EndInv /\ [Next]_vars => EndInv'
  BY NextEnd
<1> QED BY <1>1, <1>2, ManagerInvariance, ObjectInvariance, PTL DEF Spec

\* When run() returns without an exception, no process that any of its hooks
\* started is still running, whatever the tasks, the clients, the server and
\* the interrupts did, unless two processes got the same object id.
THEOREM NothingLeftRunning == Spec => []EndClean
<1>1. MIInv /\ ObjInv /\ EndInv => EndClean
  <2> SUFFICES ASSUME MIInv, ObjInv, EndInv, phase \in {"over", "exited"}, failed = "no", ProxiesExact,
                      NEW p \in Rid, proc[p] = "live"
               PROVE  FALSE
    BY DEF EndClean
  <2> USE DEF MIInv, Types
  <2>1. RunsInv /\ WaitedInv
    BY DEF EndInv
  <2>2. req[p].op \in RunOps
    BY DEF ObjInv, HandlerKind
  <2>3. p < rid
    BY DEF CallsInv, SendInv, Unsent, ClientTypes, Rid
  <2>4. ~UnderWay(p)
    <3>1. thr[Main].at = "idle"
      BY DEF FlowInv, MainInv, Running
    <3> QED BY <3>1 DEF UnderWay, InCall, Collecting, Working
  <2>5. req[p].op # "runWait"
    BY <2>1, <2>3, <2>4 DEF RunsInv
  <2>6. Recorded(p)
    BY <2>1, <2>2, <2>3, <2>4, <2>5 DEF RunsInv, RunOps
  <2>7. PICK j \in 1 .. Len(tasks) : \E i \in 1 .. Len(ps[j]) : hnd[p].res = Proxy(ps[j][i])
    BY <2>6 DEF Recorded
  <2>8. PICK i \in 1 .. Len(ps[j]) : hnd[p].res = Proxy(ps[j][i])
    BY <2>7
  <2>9. hnd[p].res.kind = "proxy" /\ hnd[p].res.n = ps[j][i]
    BY <2>8 DEF Proxy
  <2>10. oids[ps[j][i]] = [cls |-> "proc", p |-> p]
    BY <2>2, <2>9 DEF ProxiesExact, RunOps
  <2>11. oids[ps[j][i]].p = p
    BY <2>10
  <2>12. ~WaitAhead(j, i)
    BY DEF WaitAhead
  <2> QED BY <2>1, <2>11, <2>12 DEF WaitedInv
<1> QED BY <1>1, ManagerInvariance, ObjectInvariance, EndInvariance, PTL
=============================================================================
