------------------------------- MODULE Calls -------------------------------
(***************************************************************************)
(* What a remote call promises its caller: the server executes it at most  *)
(* once, and the caller gets one answer, which is either the result of     *)
(* that execution or an exception.  An exception does not say whether the  *)
(* call was executed, and a call given up may still be executed later.     *)
(***************************************************************************)
CONSTANTS
  Call,     \* the calls, in the order they are numbered
  Result,   \* what executing a call may produce
  Exc,      \* the exception, also a result
  None      \* no result, no answer

VARIABLES
  issued,   \* the calls made so far
  result,   \* what the execution of a call produced
  answer    \* what the call returned to its caller

vars == <<issued, result, answer>>

Init ==
  /\ issued = {}
  /\ result = [c \in Call |-> None]
  /\ answer = [c \in Call |-> None]

\* A thread makes a call nobody made before.
Issue(c) ==
  /\ c \notin issued
  /\ issued' = issued \cup {c}
  /\ UNCHANGED <<result, answer>>

\* The server executes a call that was made and not executed yet.
Execute(c) ==
  /\ c \in issued /\ result[c] = None
  /\ result'[c] \in Result
  /\ result' = [result EXCEPT ![c] = result'[c]]
  /\ UNCHANGED <<issued, answer>>

\* The call returns, once, with its own result or with an exception.
Return(c) ==
  /\ c \in issued /\ answer[c] = None
  /\ answer'[c] \in {result[c], Exc} \ {None}
  /\ answer' = [answer EXCEPT ![c] = answer'[c]]
  /\ UNCHANGED <<issued, result>>

Next == \E c \in Call : Issue(c) \/ Execute(c) \/ Return(c)

Spec == Init /\ [][Next]_vars
=============================================================================
