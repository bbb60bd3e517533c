----------------------------- MODULE RemoteHost -----------------------------
(***************************************************************************)
(* The remote end of mparts (mparts/server.py): the methods of RemoteHost  *)
(* and Process, each running in the handler thread of its request, and the *)
(* processes they start.                                                   *)
(*                                                                         *)
(* A process is named by the request that started it.  Each has a death    *)
(* pipe: the kernel signals it when nobody holds the pipe's write end any  *)
(* more.  The server holds that end, and so does every process the server  *)
(* forked while it had the end open, except the pipe's own process.        *)
(*                                                                         *)
(* Methods: "getUserRoot" (rpc.py), "file" (init, listOutFiles, readFile:  *)
(* work on files that may fail), "runWait" (run with wait=CHECKED), "run"  *)
(* and "runLoad" (run with wait=False of a program that runs until it is   *)
(* signalled, or that ends by itself), "wait", "poll" (wait with           *)
(* poll=True) and "kill".                                                  *)
(***************************************************************************)
EXTENDS Rpc

VARIABLES
  proc,      \* "none", "live", "zombie", "reaped"
  returncode,  \* of a reaped process: 0, or 1 for a nonzero code or a signal
  sig,       \* the processes that got a signal from kill
  dw,        \* the death pipes whose write end the server has open
  held,      \* the processes that inherited the write end of a death pipe
  waitLock   \* the handler that holds a process's waitLock

procVars == <<proc, returncode, sig, dw, held, waitLock>>
hostVars == <<rpcVars, procVars>>

HostInit ==
  /\ RpcInit
  /\ proc = [p \in Rid |-> "none"]
  /\ returncode = [p \in Rid |-> 0]
  /\ sig = {} /\ dw = {}
  /\ held = [p \in Rid |-> {}]
  /\ waitLock = [p \in Rid |-> NoRid]

RunOps == {"runWait", "run", "runLoad"}

\* The handler h has not started its method, one of ops.
Called(h, ops) == server = "up" /\ hnd[h].at = "new" /\ req[h].op \in ops

getUserRoot(h) ==
  /\ Called(h, {"getUserRoot"})
  /\ MakeProxy(h)
  /\ UNCHANGED <<clientVars, sendVars, recv, server, oids, procVars>>

FileMethod(h) ==
  /\ Called(h, {"file"})
  /\ \E res \in {Val(0), Exc} : Reply(h, res)
  /\ UNCHANGED <<clientVars, sendVars, recv, server, oids, procVars>>

\* run opens the program's files, which may fail, and the death pipe.
run_pipe(h) ==
  /\ Called(h, RunOps)
  /\ \/ Reply(h, Exc) /\ UNCHANGED dw
     \/ /\ hnd' = [hnd EXCEPT ![h].at = "popen"]
        /\ dw' = dw \cup {h}
        /\ UNCHANGED replies
  /\ UNCHANGED <<clientVars, sendVars, recv, server, oids,
                 proc, returncode, sig, held, waitLock>>

\* Bug: the child keeps the write end of its own death pipe.
InheritedAll(h) == dw

\* The write ends that the child of h inherits: it closes its own.
Inherited(h) == dw \ {h}

\* Popen, under popenLock.  The child closes its own write end and keeps the
\* others that are open in the server.
run_popen(h) ==
  /\ server = "up" /\ hnd[h].at = "popen"
  /\ \/ /\ Reply(h, Exc)
        /\ dw' = dw \ {h}
        /\ UNCHANGED <<proc, held>>
     \/ /\ proc' = [proc EXCEPT ![h] = "live"]
        /\ held' = [q \in Rid |-> IF q \in Inherited(h) THEN held[q] \cup {h} ELSE held[q]]
        /\ IF req[h].op = "runWait"
           THEN hnd' = [hnd EXCEPT ![h].at = "wait", ![h].obj = h] /\ UNCHANGED replies
           ELSE MakeProxy(h)
        /\ UNCHANGED dw
  /\ UNCHANGED <<clientVars, sendVars, recv, server, oids, returncode, sig, waitLock>>

\* Process.wait enters with its object: run's own process, or the one that the
\* request's object id names now.
wait_enter(h) ==
  /\ Called(h, {"wait", "poll"})
  /\ hnd' = [hnd EXCEPT ![h].at = "wait", ![h].obj = Target(h).p]
  /\ UNCHANGED <<clientVars, sendVars, recv, replies, server, oids, procVars>>

\* What wait does with an exit code, check being True: run goes on to its
\* proxy, wait returns the code.
Checked(h, c) ==
  IF c = 0 /\ req[h].op \in RunOps
  THEN MakeProxy(h)
  ELSE Reply(h, IF c = 0 THEN Val(0) ELSE Exc)

\* The process p is reaped, and its exit code becomes known.
Reap(h, p) ==
  /\ proc' = [proc EXCEPT ![p] = "reaped"]
  /\ \E c \in {0, 1} : returncode' = [returncode EXCEPT ![p] = c] /\ Checked(h, c)

\* Bug: wait does without its lock.
WaitLockIgnored(p) == TRUE

\* Nobody holds the waitLock of p.
WaitLockFree(p) == waitLock[p] = NoRid

\* Under waitLock: the code that is known already; else poll looks whether the
\* process has ended; else the lock is kept and the handler blocks in waitpid.
wait_locked(h) ==
  /\ server = "up" /\ hnd[h].at = "wait"
  /\ LET p == hnd[h].obj IN
     /\ WaitLockFree(p)
     /\ \/ /\ proc[p] = "reaped"
           /\ Checked(h, returncode[p])
           /\ UNCHANGED <<proc, returncode, waitLock>>
        \/ /\ proc[p] = "zombie" /\ req[h].op = "poll"
           /\ Reap(h, p)
           /\ UNCHANGED waitLock
        \/ /\ proc[p] = "live" /\ req[h].op = "poll"
           /\ Reply(h, Val(-1))
           /\ UNCHANGED <<proc, returncode, waitLock>>
        \/ /\ proc[p] # "reaped" /\ req[h].op # "poll"
           /\ waitLock' = [waitLock EXCEPT ![p] = h]
           /\ hnd' = [hnd EXCEPT ![h].at = "waitpid"]
           /\ UNCHANGED <<proc, returncode, replies>>
  /\ UNCHANGED <<clientVars, sendVars, recv, server, oids, sig, dw, held>>

\* Bug: the lock is not released.
KeepWaitLock(p) == UNCHANGED waitLock

\* The handler leaves the waitLock of p.
ReleaseWaitLock(p) == waitLock' = [waitLock EXCEPT ![p] = NoRid]

\* waitpid returns once, to one caller; a second one gets ECHILD.  Only here
\* the server closes the death pipe.
wait_waitpid(h) ==
  /\ server = "up" /\ hnd[h].at = "waitpid"
  /\ LET p == hnd[h].obj IN
     /\ proc[p] \in {"zombie", "reaped"}
     /\ IF proc[p] = "zombie" THEN Reap(h, p)
        ELSE Reply(h, Exc) /\ UNCHANGED <<proc, returncode>>
     /\ dw' = dw \ {p}
     /\ ReleaseWaitLock(p)
  /\ UNCHANGED <<clientVars, sendVars, recv, server, oids, sig, held>>

\* Process.kill: the pid of a process that was reaped names nobody.
kill(h) ==
  /\ Called(h, {"kill"})
  /\ LET p == Target(h).p IN
       IF proc[p] = "reaped"
       THEN Reply(h, Exc) /\ UNCHANGED sig
       ELSE Reply(h, Val(0)) /\ sig' = sig \cup {p}
  /\ UNCHANGED <<clientVars, sendVars, recv, server, oids, proc, returncode, dw, held, waitLock>>

\* The write end of p's death pipe is closed everywhere.
PipeDead(p) == held[p] = {} /\ p \notin dw

\* A process ends, and gives up the pipes it inherited.
Ends(p) ==
  /\ proc' = [proc EXCEPT ![p] = "zombie"]
  /\ held' = [q \in Rid |-> held[q] \ {p}]
  /\ UNCHANGED <<rpcVars, returncode, sig, dw, waitLock>>

\* It ends because it was signalled or because its work is done,
ProcExit(p) ==
  /\ proc[p] = "live"
  /\ p \in sig \/ PipeDead(p) \/ req[p].op # "run"
  /\ Ends(p)

\* or, where it should have gone on, because it failed.
ProcFails(p) == proc[p] = "live" /\ req[p].op = "run" /\ Ends(p)

\* The server ends, and its descriptors are closed with it.
HostEnds ==
  /\ ServerEnds
  /\ dw' = {} /\ waitLock' = [p \in Rid |-> NoRid]
  /\ UNCHANGED <<proc, returncode, sig, held>>

ServerEof == send \in {"closing", "closed"} /\ HostEnds

ServerCrash == send \notin {"closing", "closed"} /\ HostEnds

RpcStep == (ClientStep \/ ServerStep) /\ UNCHANGED procVars

Method(h) ==
  \/ getUserRoot(h) \/ FileMethod(h)
  \/ run_pipe(h) \/ run_popen(h)
  \/ wait_enter(h) \/ wait_locked(h) \/ wait_waitpid(h)
  \/ kill(h)

HostStep == RpcStep \/ ServerEof \/ (\E h \in Rid : Method(h) \/ ProcExit(h))

-----------------------------------------------------------------------------
(* What the remote end promises. *)

\* wait is idempotent: every request that waited for a process, however many
\* did and in whatever order, is answered by the process's exit code.
WaitExact ==
  \A h \in Rid :
    /\ hnd[h].at \in {"store", "done"}
    /\ hnd[h].obj # NoRid /\ req[h].op \in {"runWait", "wait"}
    => /\ proc[hnd[h].obj] = "reaped"
       /\ hnd[h].res = Exc <=> returncode[hnd[h].obj] # 0

\* Two processes that hold each other's death pipes.
CrossHeld(p, q) == p # q /\ p \in held[q] /\ q \in held[p]
=============================================================================
