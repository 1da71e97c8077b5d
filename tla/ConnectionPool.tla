--------------------------- MODULE ConnectionPool ---------------------------
(***************************************************************************)
(* One worker process: its pool of database connections, its threads, and  *)
(* its event loop.  HTTP handlers and their dependencies run in threads,   *)
(* but only the loop can give them one, send their reply and end their     *)
(* session.  WebSocket handlers, and of the HTTP handlers the upload of a  *)
(* picture, run on the loop itself and block it with their statements and  *)
(* while they wait for a connection.  Whoever waits for one gives up after *)
(* the pool's timeout.                                                     *)
(***************************************************************************)
EXTENDS Naturals, FiniteSets

CONSTANTS Requests, Sockets,
          Connections, \* pool_size + max_overflow
          Threads,     \* of the thread pool that handlers and dependencies share
          Again        \* how often a handler at most asks for a connection anew

ASSUME PoolAssumption ==
  /\ Connections \in Nat \ {0} /\ Threads \in Nat \ {0}
  /\ Again \in Nat
  /\ Requests \cap Sockets = {}

VARIABLES req, sock, \* what each request and each WebSocket handler is doing
          holder,    \* who has a connection
          again      \* how often its handler has asked anew

vars == <<req, sock, holder, again>>
-----------------------------------------------------------------------------
InThread == {"authenticating", "handling", "committed", "reading"}
Uploading == {"uploading", "storing", "stored"}
OnLoop == {"asking", "working"}

\* Who has a thread; who has the loop.
Threaded == {p \in Requests : req[p] \in InThread}
Blockers == {p \in Requests : req[p] \in Uploading} \cup {s \in Sockets : sock[s] \in OnLoop}

\* There are never more connections in use, or threads, than the process has, and
\* never two handlers on its loop.
TypeOK ==
  /\ req \in [Requests -> {"idle", "entered", "between", "upload", "unread", "read",
                           "replying", "closing"} \cup InThread \cup Uploading]
  /\ sock \in [Sockets -> {"parked", "refusing"} \cup OnLoop]
  /\ holder \subseteq Requests \cup Sockets
  /\ again \in [Requests \cup Sockets -> 0..Again]
  /\ Cardinality(holder) <= Connections
  /\ Cardinality(Threaded) <= Threads
  /\ Cardinality(Blockers) <= 1

LoopFree == Blockers = {}
ThreadFree == Cardinality(Threaded) < Threads
ConnectionFree == Cardinality(holder) < Connections

Init ==
  /\ req = [p \in Requests |-> "idle"]
  /\ sock = [s \in Sockets |-> "parked"]
  /\ holder = {}
  /\ again = [x \in Requests \cup Sockets |-> 0]
-----------------------------------------------------------------------------
Turn(p, from, to) ==
  /\ req[p] \in from
  /\ \E point \in to : req' = [req EXCEPT ![p] = point]
  /\ UNCHANGED <<sock, again>>

\* Mutant: the overflow has no limit.
TakeAnyway(x) == holder' = holder \cup {x}

Take(x) == ConnectionFree /\ holder' = holder \cup {x}

Give(x) == holder' = holder \ {x}

Enter(p) == LoopFree /\ Turn(p, {"idle"}, {"entered"}) /\ UNCHANGED holder

\* The loop gives a thread to the dependency that authenticates, then to the
\* handler; some routes have no such dependency.  A file on disk is read in one too.
Dispatch(p) ==
  /\ LoopFree /\ ThreadFree
  /\ \/ Turn(p, {"entered"}, {"authenticating", "handling"})
     \/ Turn(p, {"between"}, {"handling"})
     \/ Turn(p, {"unread"}, {"reading"})
  /\ UNCHANGED holder

\* In a thread, or, for an upload after its commit, on the loop.
Waiting(p) == p \notin holder /\ req[p] \in {"authenticating", "handling", "committed", "stored"}

\* The first statement of a session, and the first after a commit.
CheckOut(p) ==
  /\ Waiting(p) /\ Take(p)
  /\ \/ \E point \in {"authenticating", "stored"} : Turn(p, {point}, {point})
     \/ Turn(p, {"handling", "committed"}, {"handling"})

\* Mutant: without a timeout.
WaitOn(p) ==
  /\ Waiting(p) /\ ~ConnectionFree
  /\ UNCHANGED vars

GiveUp(p) ==
  /\ Waiting(p) /\ ~ConnectionFree
  /\ Turn(p, {"authenticating", "handling", "committed", "stored"}, {"replying"})
  /\ UNCHANGED holder

\* What was read keeps the session's connection busy; so does an error.
Authenticated(p) ==
  /\ p \in holder
  /\ Turn(p, {"authenticating"}, {"between", "upload", "replying"})
  /\ UNCHANGED holder

\* A commit gives the connection back, as does the rollback of a lost insert.
Commit(p) ==
  /\ p \in holder /\ again[p] < Again
  /\ req[p] = "handling"
  /\ req' = [req EXCEPT ![p] = "committed"]
  /\ again' = [again EXCEPT ![p] = @ + 1]
  /\ Give(p)
  /\ UNCHANGED sock

\* An upload looks its product up before it awaits the file, which suspends it only
\* if the file is on disk.  Whatever it refuses, it refuses with the connection.
StartUpload(p) == LoopFree /\ Turn(p, {"upload"}, {"uploading"}) /\ UNCHANGED holder

AwaitFile(p) == Turn(p, {"uploading"}, {"storing", "unread", "replying"}) /\ UNCHANGED holder

FileIsRead(p) == Turn(p, {"reading"}, {"read"}) /\ UNCHANGED holder

ResumeUpload(p) == LoopFree /\ Turn(p, {"read"}, {"storing", "replying"}) /\ UNCHANGED holder

\* The object store is asked twice, by calls that block; if that works the row is
\* committed, and read anew.
StoreUpload(p) ==
  \/ Turn(p, {"storing"}, {"stored"}) /\ Give(p)
  \/ Turn(p, {"storing"}, {"replying"}) /\ UNCHANGED holder

\* What was read is still in a transaction; and a provider may have been asked.
Return(p) ==
  /\ req[p] \in {"handling", "stored"} => p \in holder
  /\ Turn(p, {"handling", "committed", "stored"}, {"replying"})
  /\ UNCHANGED holder

\* The response is sent and background tasks have run, then the session is ended,
\* in a thread that is kept for that.
Reply(p) ==
  /\ LoopFree /\ req[p] = "replying"
  /\ req' = [req EXCEPT ![p] = "closing"]
  /\ again' = [again EXCEPT ![p] = 0]
  /\ UNCHANGED <<sock, holder>>

\* Mutant: nobody ends the session.
LeaveOpen(p) == Turn(p, {"closing"}, {"idle"}) /\ UNCHANGED holder

Close(p) == Turn(p, {"closing"}, {"idle"}) /\ Give(p)
-----------------------------------------------------------------------------
Shift(s, from, to) ==
  /\ sock[s] = from /\ sock' = [sock EXCEPT ![s] = to]
  /\ again' = IF to = "parked" THEN [again EXCEPT ![s] = 0] ELSE again
  /\ UNCHANGED req

AskAnew(s, from) ==
  /\ sock[s] = from /\ sock' = [sock EXCEPT ![s] = "asking"]
  /\ again[s] < Again /\ again' = [again EXCEPT ![s] = @ + 1]
  /\ UNCHANGED req

\* A message arrives, or a handshake: the handler enters a session.
Wake(s) == LoopFree /\ Shift(s, "parked", "asking") /\ UNCHANGED holder

SocketChecksOut(s) == Take(s) /\ Shift(s, "asking", "working")

\* Mutant: without a timeout.
SocketWaitsOn(s) ==
  /\ sock[s] = "asking" /\ ~ConnectionFree
  /\ UNCHANGED vars

\* The handler fails; an administrator's still announces that it leaves.
SocketGivesUp(s) ==
  /\ ~ConnectionFree
  /\ Shift(s, "asking", "parked") \/ AskAnew(s, "asking")
  /\ UNCHANGED holder

\* After a commit the next statement asks again; and a session may end and the
\* next begin before the loop gets control.
SocketAsksAnew(s) == AskAnew(s, "working") /\ Give(s)

SocketDone(s) == Shift(s, "working", "parked") /\ Give(s)

\* A handshake that is refused sends and closes inside its session.
Refuse(s) == Shift(s, "working", "refusing") /\ UNCHANGED holder

Refused(s) == LoopFree /\ Shift(s, "refusing", "parked") /\ Give(s)
-----------------------------------------------------------------------------
\* What a request does on its own once it has a thread or the loop; what waits for
\* the loop.
Proceed(p) ==
  \/ CheckOut(p) \/ GiveUp(p) \/ Authenticated(p) \/ Commit(p) \/ Return(p) \/ Close(p)
  \/ AwaitFile(p) \/ FileIsRead(p) \/ StoreUpload(p)
ByLoop(p) == Dispatch(p) \/ StartUpload(p) \/ ResumeUpload(p) \/ Reply(p)
Blocking(s) == SocketChecksOut(s) \/ SocketGivesUp(s) \/ SocketAsksAnew(s) \/ SocketDone(s)
                 \/ Refuse(s)

Next ==
  \/ \E p \in Requests : Enter(p) \/ ByLoop(p) \/ Proceed(p)
  \/ \E s \in Sockets : Wake(s) \/ Blocking(s) \/ Refused(s)

\* Threads run, and so does the handler that has the loop; the loop takes what is
\* ready in turn, however often others come between.
Fairness ==
  /\ \A p \in Requests : WF_vars(Proceed(p)) /\ SF_vars(ByLoop(p))
  /\ \A s \in Sockets : WF_vars(Blocking(s)) /\ SF_vars(Refused(s))

Spec == Init /\ [][Next]_vars /\ Fairness
-----------------------------------------------------------------------------
\* Nothing at rest keeps a connection, on whatever path it came to rest
\* (deps.py:25-27, ws.py:52-73 and 127-133).
NothingHeldAtRest ==
  /\ \A p \in Requests : req[p] \in {"idle", "entered"} => p \notin holder
  /\ \A s \in Sockets : sock[s] = "parked" => s \notin holder

\* Every request is answered and its session ended, although all threads may wait
\* for connections held by requests that wait for a thread, and an upload waits on
\* the loop those requests need (deps.py:25-38, db.py:7-13, products.py:163-199).
RequestsEnd == \A p \in Requests : req[p] # "idle" ~> req[p] = "idle"

\* The loop comes back from a socket's handler or an upload that blocks it, although
\* all connections may be held by requests that wait for the loop (ws.py:38-42,
\* 52-73, 97-104, 164-166, products.py:173-199).
LoopComesBack == ~LoopFree ~> LoopFree
=============================================================================
