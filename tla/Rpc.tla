-------------------------------- MODULE Rpc --------------------------------
(***************************************************************************)
(* The remote procedure calls of mparts (mparts/rpc.py): client threads    *)
(* make calls over one pair of pipes, a send loop and a receive loop       *)
(* multiplex them, and the server runs each request in a thread of its     *)
(* own.  What a method does on the server is left to the module that       *)
(* extends this one.                                                       *)
(*                                                                         *)
(* A step is the code between two points where another thread may come in: *)
(* a lock, a queue, a pipe, or the two assignments that give a proxy its   *)
(* object id.  The server reads a request as soon as it is sent, for its   *)
(* serve loop does nothing else, and a handler writes its reply as soon as *)
(* it has its result.  A call is named by its request id, so everything    *)
(* the code keeps per call (pipe, cell, handler thread) is a function of   *)
(* it.                                                                     *)
(***************************************************************************)
EXTENDS Integers, Sequences, FiniteSets

CONSTANTS
  Main,      \* the client's main thread, the only one that gets interrupts
  Asyncs,    \* its other threads
  MaxRid     \* bound on the number of calls

ASSUME RpcAssumption == Main \notin Asyncs /\ MaxRid \in Nat \ {0}

Caller == {Main} \cup Asyncs
Rid    == 0 .. MaxRid - 1
NoRid  == -1
Close  == -2      \* the None that close() puts into the send queue

Val(n)   == [kind |-> "val", n |-> n]
Proxy(o) == [kind |-> "proxy", n |-> o]
Exc      == [kind |-> "exc", n |-> 0]
NoVal    == [kind |-> "none", n |-> 0]

NoReq == [oid |-> 0, op |-> "none"]

VARIABLES
  thr,          \* where each client thread is in _call, and in which call
  rid,          \* the next request id
  req,          \* each call's object id and method
  outstanding,  \* the calls whose cell the receive loop may fill
  fds,          \* the calls whose wake-up pipe is open
  cell,         \* what the receive loop left for a call
  out,          \* what the call returned or raised
  sendQ, send,  \* the send queue, of size one, and the send loop
  recv,         \* the receive loop
  replies,      \* the pipe from the server
  server,       \* "none", "up", "down"
  hnd,          \* the server's handler thread of each request
  oids          \* the server's table of objects

callVars   == <<rid, req, outstanding, fds, cell, out>>
clientVars == <<thr, callVars>>
sendVars   == <<sendQ, send>>
serverVars == <<server, hnd, oids>>
rpcVars    == <<clientVars, sendVars, recv, replies, serverVars>>

SystemRoot == [cls |-> "sys", p |-> NoRid]
UserRoot   == [cls |-> "host", p |-> NoRid]

Thread(place) == [at |-> place, obj |-> NoRid, id |-> 0, res |-> NoVal]

RpcInit ==
  /\ thr = [t \in Caller |-> [at |-> "idle", rid |-> NoRid, req |-> NoReq]]
  /\ rid = 0
  /\ req = [r \in Rid |-> NoReq]
  /\ outstanding = {} /\ fds = {}
  /\ cell = [r \in Rid |-> NoVal]
  /\ out = [r \in Rid |-> NoVal]
  /\ sendQ = <<>> /\ send = "get" /\ recv = "load"
  /\ replies = <<>>
  /\ server = "none"
  /\ hnd = [r \in Rid |-> Thread("none")]
  /\ oids = [o \in {0} |-> SystemRoot]

-----------------------------------------------------------------------------
(* The client: _call, in the thread t. *)

Goto(t, place) == thr' = [thr EXCEPT ![t].at = place]

\* The thread t is to call method op of the object oid.
StartCall(t, oid, op) ==
  thr' = [thr EXCEPT ![t] = [at |-> "call", rid |-> NoRid, req |-> [oid |-> oid, op |-> op]]]

\* The wake-up pipe, then, under oLock, the request id and the entry in
\* outstanding.  Once the receive loop has ended, outstanding is None: the call
\* raises here, outside the try statement, and its pipe stays open.
Register(t) ==
  /\ thr[t].at = "call" /\ rid < MaxRid
  /\ rid' = rid + 1
  /\ req' = [req EXCEPT ![rid] = thr[t].req]
  /\ fds' = fds \cup {rid}
  /\ outstanding' = IF recv = "dead" THEN outstanding ELSE outstanding \cup {rid}
  /\ thr' = [thr EXCEPT ![t].at = IF recv = "dead" THEN "raise" ELSE "try", ![t].rid = rid]
  /\ UNCHANGED <<cell, out, sendVars, recv, replies, serverVars>>

Refused(t) ==
  /\ thr[t].at = "raise"
  /\ out' = [out EXCEPT ![thr[t].rid] = Exc]
  /\ Goto(t, "done")
  /\ UNCHANGED <<rid, req, outstanding, fds, cell, sendVars, recv, replies, serverVars>>

\* Bug: a queue without a bound.
QueuePutUnbounded(v) == sendQ' = Append(sendQ, v)

\* put into a queue of size one, which blocks while it is full.
QueuePut(v) == sendQ = <<>> /\ sendQ' = <<v>>

\* sendQ.put(req) at once, or after a wait for room: the thread may then put it
\* into a queue that the send loop has left.
Put(t) ==
  /\ thr[t].at = "put" \/ (thr[t].at = "try" /\ send # "closed")
  /\ QueuePut(thr[t].rid)
  /\ Goto(t, "read")
  /\ UNCHANGED <<callVars, send, recv, replies, serverVars>>

\* The queue is full; or close() was called and sendQ is None.
NoPut(t) ==
  /\ thr[t].at = "try"
  /\ \/ send # "closed" /\ sendQ # <<>> /\ Goto(t, "put") /\ UNCHANGED out
     \/ send = "closed" /\ Goto(t, "clean") /\ out' = [out EXCEPT ![thr[t].rid] = Exc]
  /\ UNCHANGED <<rid, req, outstanding, fds, cell, sendVars, recv, replies, serverVars>>

\* The byte in the wake-up pipe: the cell is filled, and the receive loop has
\* taken the entry out of outstanding, which leaves the pipe to close.
Read(t) ==
  /\ thr[t].at = "read" /\ cell[thr[t].rid] # NoVal
  /\ out' = [out EXCEPT ![thr[t].rid] = cell[thr[t].rid]]
  /\ fds' = fds \ {thr[t].rid}
  /\ Goto(t, "done")
  /\ UNCHANGED <<rid, req, outstanding, cell, sendVars, recv, replies, serverVars>>

\* KeyboardInterrupt in the main thread.  Inside the try statement it leads to
\* finally; before it, or in finally itself, it leaves the call at once, with
\* its entry in outstanding and its pipe as they are.  (Before the entry is made
\* it is an interrupt between two calls.)
InterruptCall ==
  /\ \/ thr[Main].at \in {"put", "read"} /\ Goto(Main, "clean")
     \/ /\ \/ thr[Main].at \in {"try", "clean", "close"}
           \/ thr[Main].at = "read" /\ cell[thr[Main].rid] # NoVal
        /\ Goto(Main, "done")
  /\ out' = [out EXCEPT ![thr[Main].rid] = Exc]
  /\ UNCHANGED <<rid, req, outstanding, fds, cell, sendVars, recv, replies, serverVars>>

\* Bug: the pipe is closed while the receive loop may still write to it.
CleanPipeFirst(t) ==
  /\ thr[t].at = "clean"
  /\ fds' = fds \ {thr[t].rid}
  /\ Goto(t, "close")
  /\ UNCHANGED <<rid, req, outstanding, cell, out, sendVars, recv, replies, serverVars>>

\* finally: the entry first, under oLock, and then the pipe.
Clean(t) ==
  /\ thr[t].at = "clean"
  /\ outstanding' = outstanding \ {thr[t].rid}
  /\ Goto(t, "close")
  /\ UNCHANGED <<rid, req, fds, cell, out, sendVars, recv, replies, serverVars>>

CloseFds(t) ==
  /\ thr[t].at = "close"
  /\ fds' = fds \ {thr[t].rid}
  /\ Goto(t, "done")
  /\ UNCHANGED <<rid, req, outstanding, cell, out, sendVars, recv, replies, serverVars>>

\* The server's loop starts a thread for the request r.
serve(r) == hnd' = [hnd EXCEPT ![r].at = "new"]

\* The send loop takes an item and dumps it.  Close closes the pipe to the
\* server; a request for a server that is gone raises, which ends the loop
\* and leaves the queue to fill up.
sendLoop ==
  /\ send = "get" /\ sendQ # <<>>
  /\ sendQ' = Tail(sendQ)
  /\ send' = CASE Head(sendQ) = Close -> "closing"
               [] Head(sendQ) # Close /\ server = "up" -> "get"
               [] OTHER -> "dead"
  /\ IF send' = "get" THEN serve(Head(sendQ)) ELSE UNCHANGED hnd
  /\ UNCHANGED <<clientVars, recv, replies, server, oids>>

\* The loop's last act: sendQ is None, and the queue is left with what was put
\* into it since.
dropQueue ==
  /\ send = "closing" /\ send' = "closed"
  /\ UNCHANGED <<clientVars, sendQ, recv, replies, serverVars>>

\* Bug: replies are taken to come in the order of the requests.
recvReplyInOrder ==
  /\ recv = "load" /\ replies # <<>> /\ outstanding # {}
  /\ LET r == CHOOSE r \in outstanding : \A q \in outstanding : r <= q IN
       /\ cell' = [cell EXCEPT ![r] = Head(replies).res]
       /\ outstanding' = outstanding \ {r}
  /\ replies' = Tail(replies)
  /\ UNCHANGED <<thr, rid, req, fds, out, sendVars, recv, serverVars>>

\* The receive loop hands a reply to the call that waits for it, or discards it.
recvReply ==
  /\ recv = "load" /\ replies # <<>>
  /\ LET r == Head(replies).rid IN
       /\ cell' = IF r \in outstanding THEN [cell EXCEPT ![r] = Head(replies).res] ELSE cell
       /\ outstanding' = outstanding \ {r}
  /\ replies' = Tail(replies)
  /\ UNCHANGED <<thr, rid, req, fds, out, sendVars, recv, serverVars>>

\* Bug: the loop ends without a word to the calls it leaves.
recvEofSilent ==
  /\ recv = "load" /\ replies = <<>> /\ server = "down"
  /\ outstanding' = {}
  /\ recv' = "dead"
  /\ UNCHANGED <<thr, rid, req, fds, cell, out, sendVars, replies, serverVars>>

\* At the end of the pipe it wakes up every call with the exception, and ends.
recvEof ==
  /\ recv = "load" /\ replies = <<>> /\ server = "down"
  /\ cell' = [r \in Rid |-> IF r \in outstanding THEN Exc ELSE cell[r]]
  /\ outstanding' = {}
  /\ recv' = "dead"
  /\ UNCHANGED <<thr, rid, req, fds, out, sendVars, replies, serverVars>>

-------------------------------------------------------------------------
(* The server. *)

\* The object a request is for.
Target(h) == oids[req[h].oid]

\* The end of __handle: the reply, under sendLock.
Reply(h, res) ==
  /\ hnd' = [hnd EXCEPT ![h].at = "done", ![h].res = res]
  /\ replies' = Append(replies, [rid |-> h, res |-> res])

\* The method returns a proxy: its object gets the size of the table as id ...
MakeProxy(h) ==
  /\ hnd' = [hnd EXCEPT ![h].at = "store", ![h].id = Cardinality(DOMAIN oids)]
  /\ UNCHANGED replies

\* ... and is then stored under that id.
Store(h) ==
  /\ server = "up" /\ hnd[h].at = "store"
  /\ LET obj == IF req[h].op = "getUserRoot" THEN UserRoot
                                             ELSE [cls |-> "proc", p |-> h]
     IN oids' = [o \in DOMAIN oids \cup {hnd[h].id} |->
                   IF o = hnd[h].id THEN obj ELSE oids[o]]
  /\ Reply(h, Proxy(hnd[h].id))
  /\ UNCHANGED <<clientVars, sendVars, recv, server>>

\* The server ends, at the end of its input or because it is killed, and its
\* handler threads with it.  The last replies may not have been written.
ServerEnds ==
  /\ server = "up" /\ server' = "down"
  /\ \E n \in 0 .. Len(replies) : replies' = SubSeq(replies, 1, n)
  /\ hnd' = [h \in Rid |-> IF hnd[h].at = "done" THEN hnd[h] ELSE Thread("none")]
  /\ UNCHANGED <<clientVars, sendVars, recv, oids>>

ClientStep ==
  \/ \E t \in Caller :
       Register(t) \/ Refused(t) \/ NoPut(t) \/ Put(t) \/ Read(t) \/ Clean(t) \/ CloseFds(t)
  \/ sendLoop \/ dropQueue \/ recvReply \/ recvEof

ServerStep == \E h \in Rid : Store(h)

-----------------------------------------------------------------------------
(* What the calls promise. *)

Results == {Exc} \cup {Val(n) : n \in -1 .. 1} \cup {Proxy(o) : o \in 0 .. MaxRid + 1}

\* A call is made when it registers, executed when its handler has its result,
\* and returns when the thread leaves the try statement.
Service == INSTANCE Calls WITH
  Call <- Rid, Result <- Results, None <- NoVal,
  issued <- 0 .. rid - 1,
  result <- [r \in Rid |-> hnd[r].res],
  answer <- out

\* Calls are executed at most once and return once, with their own result or
\* an exception: whatever the threads, the interrupts and the loss of the
\* server do, no reply reaches another call and none is made up.
ImplementsCalls == Service!Spec

\* The receive loop writes to the pipe of every call in outstanding: that pipe
\* is open, and it is the pipe of a call that is still under way, or of one
\* that raised (an interrupt can leave an entry behind).
PipesOpen ==
  /\ outstanding \subseteq fds
  /\ \A r \in outstanding :
       \/ \E t \in Caller : thr[t].rid = r /\ thr[t].at \in {"try", "put", "read", "clean"}
       \/ out[r] = Exc

\* A thread that waits for its answer will get one: the receive loop still has
\* its call, or has filled its cell.
NoneForgotten ==
  \A t \in Caller :
    thr[t].at = "read" => thr[t].rid \in outstanding \/ cell[thr[t].rid] # NoVal

\* A proxy names the object that its call made.
ProxiesExact ==
  \A h \in Rid : hnd[h].res.kind = "proxy" =>
    oids[hnd[h].res.n] = IF req[h].op = "getUserRoot" THEN UserRoot
                                                      ELSE [cls |-> "proc", p |-> h]
=============================================================================
