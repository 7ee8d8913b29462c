----------------------------- MODULE RequestReply -----------------------------
(***************************************************************************)
(* What request correlation promises its caller, with no ids, no messages  *)
(* and no clock: a request is open until it is answered for good, expires, *)
(* or its client forgets it; an answer is reported for an open request     *)
(* only, and only when the node it came from really served that request.   *)
(***************************************************************************)
CONSTANTS Requests,     \* every request a client may ever make
          Nodes,
          NoReport

VARIABLES
  open,      \* requests whose answer is still awaited
  closed,    \* requests that were open and are no more
  several,   \* the open requests that collect several answers
  served,    \* the <<request, node>> pairs in which the node replied
  report     \* the answer the last call returned, or NoReport

vars == <<open, closed, several, served, report>>

Init ==
  /\ open = {}
  /\ closed = {}
  /\ several = {}
  /\ served = {}
  /\ report = NoReport

Close(U) ==
  /\ open' = open \ U
  /\ closed' = closed \cup U
  /\ several' = several \ U

Issue(u, collects) ==
  /\ u \notin open \cup closed
  /\ open' = open \cup {u}
  /\ several' = IF collects THEN several \cup {u} ELSE several
  /\ report' = NoReport
  /\ UNCHANGED <<closed, served>>

Serve(u, n) ==
  /\ u \in open \cup closed
  /\ served' = served \cup {<<u, n>>}
  /\ UNCHANGED <<open, closed, several, report>>

Report(u, n, taken) ==
  /\ u \in open
  /\ <<u, n>> \in served
  /\ report' = [to |-> u, from |-> n, taken |-> taken]
  /\ UNCHANGED served

\* The caller looks at an answer without taking it.
Look(u, n) ==
  /\ Report(u, n, FALSE)
  /\ UNCHANGED <<open, closed, several>>

\* The caller takes an answer, which is the last one unless the request
\* collects several.
Take(u, n) ==
  /\ Report(u, n, TRUE)
  /\ IF u \in several THEN UNCHANGED <<open, closed, several>> ELSE Close({u})

\* Timed out, or forgotten when the client restarts; none of them when a call
\* returns without an answer.
Drop(U) ==
  /\ U \subseteq open
  /\ Close(U)
  /\ report' = NoReport
  /\ UNCHANGED served

Next ==
  \/ \E u \in Requests, collects \in BOOLEAN : Issue(u, collects)
  \/ \E u \in Requests, n \in Nodes : Serve(u, n) \/ Look(u, n) \/ Take(u, n)
  \/ \E U \in SUBSET Requests : Drop(U)

Spec == Init /\ [][Next]_vars
=============================================================================
