------------------------------ MODULE Manager ------------------------------
(***************************************************************************)
(* The experiment manager of mparts (mparts/manager.py) running a          *)
(* benchmark: Manager.run takes the tasks through start, wait and stop, or *)
(* through reset when anything is raised, and the hooks of the tasks       *)
(* (mparts/host.py and the benchmarks' own __init__.py) drive the remote   *)
(* host through Rpc and RemoteHost.                                        *)
(*                                                                         *)
(* A hook is a list of steps, each one remote call, one use of an Async    *)
(* thread, or local work that may fail.                                    *)
(***************************************************************************)
EXTENDS RemoteHost

CONSTANTS
  Benchmarks,     \* lists of tasks, named by their classes
  MaxInterrupts   \* bound on the interrupts of a run

N == Cardinality(Asyncs)     \* how many load clients there are

TaskClass == {"Host", "Httperf", "Memcached", "MemcachedLoad"}

ASSUME ManagerAssumption ==
  /\ Main = 0 /\ Asyncs = 1 .. N /\ N \in Nat \ {0} /\ MaxInterrupts \in Nat
  /\ \A b \in Benchmarks : b \in Seq(TaskClass) /\ b # <<>>

VARIABLES
  tasks,       \* the tasks of the manager, in start order
  phase,       \* what run() is doing
  cur,         \* the task whose hook runs
  step,        \* the next step of that hook
  tstate,      \* each task's _state
  rConn,       \* the object id of Host's remote stub, or NoConn
  ps,          \* the processes a task has recorded, as object ids
  failed,      \* "no"; "raised": run() raises; and its reset was interrupted in a
               \* hook, which ignores it ("twice"), or elsewhere ("escaped")
  interrupts

position == <<phase, cur, step, failed>>
mgrVars == <<tasks, position, tstate, rConn, ps, interrupts>>
vars == <<hostVars, mgrVars>>

NoConn == -1

-----------------------------------------------------------------------------
(* The hooks. *)

Step(do, op, i) == [do |-> do, op |-> op, i |-> i]
Local        == Step("local", "none", 0)
Connect      == Step("connect", "getUserRoot", 0)
CloseConn    == Step("close", "none", 0)
OnHost(op)   == Step("host", op, 0)
OnProc(op, i) == Step("proc", op, i)

\* The calls ops, in order, on the process of each client in turn.
ForEach(ops) == [j \in 1 .. N * Len(ops) |->
  OnProc(ops[((j - 1) % Len(ops)) + 1], ((j - 1) \div Len(ops)) + 1)]

\* Async(host.r.run, ...) for each client, then map(Async.sync, asyncs).
RunAll(op) == [i \in 1 .. N |-> Step("async", op, i)] \o [i \in 1 .. N |-> Step("sync", op, i)]

\* Bug: the processes are signalled and nobody waits for them.
KillOnly == ForEach(<<"kill">>)

\* kill and wait for one recorded process after the other.
KillEach == ForEach(<<"kill", "wait">>)
WaitEach == ForEach(<<"wait">>)

HostHook(ph) ==
  CASE ph = "start" -> <<Local, Connect, OnHost("file")>>
    [] ph = "stop"  -> <<OnHost("file"), Local>>
    [] ph = "reset" -> <<CloseConn>>
    [] OTHER -> <<>>

HttperfHook(ph) ==
  CASE ph = "start" -> RunAll("run")
    [] ph \in {"stop", "reset"} -> KillEach
    [] OTHER -> <<>>

\* One memcached process; it must still be running when it is polled.
MemcachedHook(ph) ==
  CASE ph = "start" -> <<OnHost("run"), OnProc("poll", 1)>>
    [] ph \in {"stop", "reset"} -> <<OnProc("kill", 1), OnProc("wait", 1)>>
    [] OTHER -> <<>>

\* Build the client, then run the clients and read their logs.
MemcachedLoadHook(ph) ==
  CASE ph = "start" -> <<OnHost("runWait")>>
    [] ph = "wait"  -> RunAll("runLoad") \o WaitEach \o <<OnHost("file"), Local>>
    [] OTHER -> <<>>

Hook(task, ph) ==
  CASE task = "Host"          -> HostHook(ph)
    [] task = "Httperf"       -> HttperfHook(ph)
    [] task = "Memcached"     -> MemcachedHook(ph)
    [] task = "MemcachedLoad" -> MemcachedLoadHook(ph)

-----------------------------------------------------------------------------
Init ==
  /\ HostInit
  /\ tasks \in Benchmarks
  /\ phase = "start" /\ cur = 1 /\ step = 1
  /\ tstate = [j \in DOMAIN tasks |-> "STOPPED"]
  /\ rConn = NoConn
  /\ ps = [j \in DOMAIN tasks |-> <<>>]
  /\ failed = "no" /\ interrupts = 0

TheHook == Hook(tasks[cur], phase)
Running == phase \in {"start", "wait", "stop", "reset"}

\* The main thread is between two steps of a hook.
AtStep(do) ==
  /\ Running /\ thr[Main].at = "idle"
  /\ step <= Len(TheHook) /\ TheHook[step].do = do

Advance == step' = step + 1 /\ UNCHANGED <<phase, cur, failed>>

\* An exception leaves the hook: run() goes on to __reset, and __reset, which
\* prints and ignores it, to its next task.  One that does not come from the
\* hook leaves __reset, and run() with it.
InReset == step' = Len(TheHook) + 1 /\ UNCHANGED <<phase, cur>>
InRun == phase' = "reset" /\ cur' = Len(tasks) /\ step' = 1 /\ failed' = "raised"
Escape == phase' = "over" /\ step' = 1 /\ failed' = "escaped" /\ UNCHANGED cur
Raise == IF phase = "reset" THEN InReset /\ UNCHANGED failed ELSE InRun

LocalStep ==
  /\ AtStep("local")
  /\ Advance \/ Raise
  /\ UNCHANGED <<hostVars, tasks, tstate, rConn, ps, interrupts>>

\* Host.__connect starts the server and the client of the link, whose last act
\* is a call for the user root.  (A later run() of the script finds Host
\* connected; here there is one.)
ConnectStep ==
  /\ AtStep("connect") /\ rConn = NoConn
  /\ \/ Raise /\ UNCHANGED <<thr, server>>
     \/ /\ server' = "up"
        /\ StartCall(Main, 0, "getUserRoot")
        /\ UNCHANGED position
  /\ UNCHANGED <<callVars, sendVars, recv, replies, hnd, oids, procVars,
                 tasks, tstate, rConn, ps, interrupts>>

\* A call of a method of host.r, which raises when Host is not connected: in
\* the main thread, or in a new Async thread, which the main thread leaves to it.
HostCall ==
  /\ AtStep("host") \/ AtStep("async")
  /\ LET s == TheHook[step] IN
       IF rConn = NoConn THEN Raise /\ UNCHANGED thr
       ELSE /\ StartCall(s.i, rConn, s.op)
            /\ IF s.i = Main THEN UNCHANGED position ELSE Advance
  /\ UNCHANGED <<callVars, sendVars, recv, replies, serverVars, procVars,
                 tasks, tstate, rConn, ps, interrupts>>

\* Async.sync: the result of the thread, or its exception.  The task records
\* its processes when all are there.
SyncStep ==
  /\ AtStep("sync")
  /\ LET i == TheHook[step].i IN
       /\ thr[i].at = "done"
       /\ IF out[thr[i].rid] = Exc
          THEN Raise /\ UNCHANGED ps
          ELSE /\ Advance
               /\ ps' = IF i = N THEN [ps EXCEPT ![cur] = [j \in 1 .. N |-> out[thr[j].rid].n]]
                                 ELSE ps
  /\ UNCHANGED <<hostVars, tasks, tstate, rConn, interrupts>>

\* A call of a method of a recorded process, if there is one.
ProcStep ==
  /\ AtStep("proc")
  /\ LET s == TheHook[step] IN
       IF s.i > Len(ps[cur])
       THEN Advance /\ UNCHANGED thr
       ELSE StartCall(Main, ps[cur][s.i], s.op) /\ UNCHANGED position
  /\ UNCHANGED <<callVars, sendVars, recv, replies, serverVars, procVars,
                 tasks, tstate, rConn, ps, interrupts>>

\* Host.reset: RPCClient.close puts None into the queue, when there is room.
CloseStep ==
  /\ AtStep("close")
  /\ IF rConn = NoConn THEN UNCHANGED sendQ ELSE QueuePut(Close)
  /\ rConn' = NoConn
  /\ Advance
  /\ UNCHANGED <<clientVars, send, recv, replies, serverVars, procVars,
                 tasks, tstate, ps, interrupts>>

\* The main thread's call returns or raises.  A poll that finds an exit code
\* raises; the proxy of a new connection or process is recorded.
CallReturns ==
  /\ Running /\ thr[Main].at = "done"
  /\ LET s == TheHook[step]
         v == out[thr[Main].rid] IN
       /\ IF v = Exc \/ (s.op = "poll" /\ v # Val(-1)) THEN Raise ELSE Advance
       /\ rConn' = IF s.do = "connect" /\ v # Exc THEN v.n ELSE rConn
       /\ ps' = IF s.do = "host" /\ s.op = "run" /\ v # Exc
                THEN [ps EXCEPT ![cur] = Append(@, v.n)] ELSE ps
  /\ Goto(Main, "idle")
  /\ UNCHANGED <<callVars, sendVars, recv, replies, serverVars,
                 procVars, tasks, tstate, interrupts>>

\* Bug: __reset passes over the tasks that are not running, as __stop does.
SkipsReset == \/ phase = "wait" /\ tstate[cur] # "RUNNING"
              \/ phase \in {"stop", "reset"} /\ tstate[cur] = "STOPPED"

\* The tasks whose hook __wait and __stop do not call.
Skips == \/ phase = "wait" /\ tstate[cur] # "RUNNING"
         \/ phase = "stop" /\ tstate[cur] = "STOPPED"

\* The loops of __start, __wait, __stop and __reset: the hook has returned (or
\* there is none to call), the task has its new state, and the loop goes on.
TaskDone ==
  /\ Running /\ thr[Main].at = "idle"
  /\ Skips \/ step > Len(TheHook)
  /\ tstate' = CASE phase = "start" -> [tstate EXCEPT ![cur] = "RUNNING"]
                 [] phase \in {"stop", "reset"} -> [tstate EXCEPT ![cur] = "STOPPED"]
                 [] OTHER -> tstate
  /\ LET last == IF phase \in {"start", "wait"} THEN cur = Len(tasks) ELSE cur = 1 IN
       IF last
       THEN /\ phase' = CASE phase = "start" -> "wait"
                          [] phase = "wait" -> "stop"
                          [] OTHER -> "over"
            /\ cur' = IF phase = "start" THEN 1 ELSE Len(tasks)
       ELSE /\ cur' = IF phase \in {"start", "wait"} THEN cur + 1 ELSE cur - 1
            /\ UNCHANGED phase
  /\ step' = 1
  /\ UNCHANGED <<hostVars, tasks, rConn, ps, failed, interrupts>>

\* The user's interrupt, in a call, or between two steps of a hook, or between
\* two hooks.  Only the hook is inside __reset's try statement: before it, and
\* from its end to the task's new state, the interrupt leaves the reset.
Interrupt ==
  /\ Running /\ interrupts < MaxInterrupts
  /\ interrupts' = interrupts + 1
  /\ \/ InterruptCall /\ UNCHANGED position
     \/ /\ thr[Main].at = "idle"
        /\ \/ phase # "reset" /\ InRun
           \/ phase = "reset" /\ step <= Len(TheHook) /\ InReset /\ failed' = "twice"
           \/ phase = "reset" /\ (step = 1 \/ step > Len(TheHook)) /\ Escape
        /\ UNCHANGED rpcVars
  /\ UNCHANGED <<procVars, tasks, tstate, rConn, ps>>

\* The script ends once its Async threads have: the link is closed with it.
Exit ==
  /\ phase = "over" /\ \A t \in Asyncs : thr[t].at \in {"idle", "done"}
  /\ phase' = "exited"
  /\ send' = "closed" /\ sendQ' = <<>>
  /\ UNCHANGED <<clientVars, recv, replies, serverVars, procVars,
                 tasks, cur, step, tstate, rConn, ps, failed, interrupts>>

ManagerStep ==
  \/ LocalStep \/ ConnectStep \/ HostCall \/ SyncStep \/ ProcStep \/ CloseStep
  \/ CallReturns \/ TaskDone \/ Exit

SystemStep ==
  \/ ManagerStep
  \/ HostStep /\ UNCHANGED mgrVars

\* What may happen and need not.
Fault ==
  \/ Interrupt
  \/ (ServerCrash \/ (\E p \in Rid : ProcFails(p))) /\ UNCHANGED mgrVars

Next == SystemStep \/ Fault

Spec == Init /\ [][Next]_vars /\ WF_vars(SystemStep)

-----------------------------------------------------------------------------
(* What the manager promises. *)

\* The types of the whole system's state; the send queue never holds more than
\* one item, and every method's result is one that rpc.py can carry.
TypeOK ==
  /\ \A t \in Caller : thr[t].at \in {"idle", "call", "raise", "try", "put", "read", "clean", "close", "done"}
  /\ rid \in 0 .. MaxRid
  /\ sendQ \in {<<>>} \cup {<<v>> : v \in Rid \cup {Close}}
  /\ send \in {"get", "closing", "closed", "dead"} /\ recv \in {"load", "dead"}
  /\ server \in {"none", "up", "down"}
  /\ \A h \in Rid :
       /\ hnd[h].at \in {"none", "new", "popen", "wait", "waitpid", "store", "done"}
       /\ hnd[h].res \in Results \cup {NoVal} /\ out[h] \in Results \cup {NoVal}
       /\ proc[h] \in {"none", "live", "zombie", "reaped"} /\ returncode[h] \in {0, 1}
       /\ held[h] \subseteq Rid /\ waitLock[h] \in Rid \cup {NoRid}
  /\ sig \cup dw \subseteq Rid
  /\ phase \in {"start", "wait", "stop", "reset", "over", "exited"}
  /\ cur \in DOMAIN tasks /\ step \in 1 .. Len(TheHook) + 1
  /\ \A j \in DOMAIN tasks : tstate[j] \in {"STOPPED", "RUNNING"}
  /\ failed \in {"no", "raised", "twice", "escaped"} /\ interrupts \in 0 .. MaxInterrupts

\* When run() is over every task is STOPPED, however little was started and
\* whatever the hooks raised in their turn; when it raises, Host has also
\* dropped its connection, unless a second interrupt hit the reset.  One that
\* leaves the reset leaves it at the task cur: those after it are done, and cur
\* and those before it may still be RUNNING, though __reset's docstring says that
\* tasks "are always put in the STOPPED state".
AllStopped ==
  phase \in {"over", "exited"} =>
    /\ \A j \in DOMAIN tasks : tstate[j] = "STOPPED" \/ (failed = "escaped" /\ j <= cur)
    /\ failed = "raised" => rConn = NoConn

\* When run() returns, nothing it started is running, unless two processes got
\* the same object id, so that the hooks waited for only one of them.
EndClean ==
  phase \in {"over", "exited"} /\ failed = "no" /\ ProxiesExact => \A p \in Rid : proc[p] # "live"

\* Nobody will ever take what is in the send queue.
Stuck == send = "dead" /\ sendQ # <<>>

\* run() returns or raises.  The one thing that can keep it from that is a send
\* loop that died with the server while a second request was queued: the close
\* of the link then waits for a place in the queue for ever.
RunReturns == <>(phase \in {"over", "exited"} \/ Stuck)

\* When the server is gone, however that came about, its processes get their
\* signal and end, unless two of them hold each other's death pipes.
OrphansDie ==
  server = "down" ~> \/ \A p \in Rid : proc[p] # "live"
                     \/ \E p, q \in Rid : proc[p] = "live" /\ CrossHeld(p, q)
=============================================================================
