------------------------ MODULE ConnectionPoolProofs ------------------------
(* The limits of a worker's pool, threads and loop, and that nothing at    *)
(* rest holds a connection, for any number of requests and sockets.        *)
EXTENDS ConnectionPool, FiniteSetTheorems, TLAPS

RequestPoint == {"idle", "entered", "between", "upload", "unread", "read", "replying", "closing"}
                  \cup InThread \cup Uploading
SocketPoint == {"parked", "refusing"} \cup OnLoop

\* Only finitely many of the possibly infinitely many requests and sockets hold
\* or occupy something at a time: cardinalities are numbers.
InUseIsFinite == IsFiniteSet(holder) /\ IsFiniteSet(Threaded) /\ IsFiniteSet(Blockers)

\* A set that shrinks, or grows by one below its limit, keeps to its limit.
LEMMA WithinLimit ==
  ASSUME NEW S, IsFiniteSet(S), NEW n \in Nat, Cardinality(S) <= n, NEW T,
         T \subseteq S \/ (Cardinality(S) < n /\ \E x : T \subseteq S \cup {x})
  PROVE  IsFiniteSet(T) /\ Cardinality(T) <= n
<1>1. Cardinality(S) \in Nat
  BY FS_CardinalityType
<1>2. CASE T \subseteq S
  <2>1. IsFiniteSet(T) /\ Cardinality(T) <= Cardinality(S) /\ Cardinality(T) \in Nat
    BY <1>2, FS_Subset, FS_CardinalityType
  <2> QED
    BY <1>1, <2>1
<1>3. CASE Cardinality(S) < n /\ \E x : T \subseteq S \cup {x}
  <2>1. PICK x : T \subseteq S \cup {x}
    BY <1>3
  <2>2. /\ IsFiniteSet(S \cup {x})
        /\ Cardinality(S \cup {x}) = IF x \in S THEN Cardinality(S) ELSE Cardinality(S) + 1
    BY FS_AddElement
  <2>3. IsFiniteSet(T) /\ Cardinality(T) <= Cardinality(S \cup {x})
    BY <2>1, <2>2, FS_Subset
  <2>4. Cardinality(T) \in Nat /\ Cardinality(S \cup {x}) \in Nat
    BY <2>2, <2>3, FS_CardinalityType
  <2> QED
    BY <1>1, <1>3, <2>2, <2>3, <2>4
<1> QED
  BY <1>2, <1>3

\* How the holders can change: x gives its connection, keeps what it has, or takes
\* one that is free.
Holding(x) == \/ UNCHANGED holder
              \/ holder' = holder \ {x}
              \/ ConnectionFree /\ holder' = holder \cup {x}

\* What a step of one request does: it moves that request, into a thread only from
\* one or when one is free, and brings it to rest only without a connection.
LEMMA RequestStep ==
  ASSUME TypeOK, PoolAssumption, NEW p \in Requests, Enter(p) \/ ByLoop(p) \/ Proceed(p)
  PROVE  /\ req' \in [Requests -> RequestPoint] /\ UNCHANGED sock
         /\ again' \in [Requests \cup Sockets -> 0..Again]
         /\ \A q \in Requests \ {p} : req'[q] = req[q]
         /\ req'[p] \in InThread => req[p] \in InThread \/ ThreadFree
         /\ req'[p] \in Uploading => req[p] \in Uploading \/ LoopFree
         /\ Holding(p)
         /\ req'[p] \in {"idle", "entered"} =>
              p \notin holder' \/ (req[p] \in {"idle", "entered"} /\ UNCHANGED holder)
<1> DEFINE Fine ==
      /\ req' \in [Requests -> RequestPoint] /\ UNCHANGED sock
      /\ again' \in [Requests \cup Sockets -> 0..Again]
      /\ \A q \in Requests \ {p} : req'[q] = req[q]
      /\ req'[p] \in InThread => req[p] \in InThread \/ ThreadFree
      /\ req'[p] \in Uploading => req[p] \in Uploading \/ LoopFree
      /\ Holding(p)
      /\ req'[p] \in {"idle", "entered"} =>
           p \notin holder' \/ (req[p] \in {"idle", "entered"} /\ UNCHANGED holder)
<1>1. ASSUME NEW point \in RequestPoint, req' = [req EXCEPT ![p] = point], UNCHANGED sock,
             again' \in [Requests \cup Sockets -> 0..Again], Holding(p),
             point \in InThread => req[p] \in InThread \/ ThreadFree,
             point \in Uploading => req[p] \in Uploading \/ LoopFree,
             point \in {"idle", "entered"} =>
               p \notin holder' \/ (req[p] \in {"idle", "entered"} /\ UNCHANGED holder)
      PROVE  Fine
  <2>1. req' \in [Requests -> RequestPoint] /\ req'[p] = point
    BY <1>1 DEF TypeOK, RequestPoint
  <2>2. \A q \in Requests \ {p} : req'[q] = req[q]
    BY <1>1 DEF TypeOK
  <2> QED
    BY <1>1, <2>1, <2>2
<1>2. ASSUME NEW from, NEW to \in SUBSET RequestPoint, Turn(p, from, to), Holding(p),
             \A point \in to \cap InThread : req[p] \in InThread \/ ThreadFree,
             \A point \in to \cap Uploading : req[p] \in Uploading \/ LoopFree,
             \A point \in to \cap {"idle", "entered"} :
               p \notin holder' \/ (req[p] \in {"idle", "entered"} /\ UNCHANGED holder)
      PROVE  Fine
  <2>1. PICK point \in to : req' = [req EXCEPT ![p] = point]
    BY <1>2 DEF Turn
  <2> QED
    BY <1>1, <1>2, <2>1 DEF Turn, TypeOK
<1>3. CASE Enter(p)
  BY <1>2, <1>3 DEF Enter, Turn, RequestPoint, InThread, Uploading, Holding
<1>4. CASE Dispatch(p)
  BY <1>2, <1>4 DEF Dispatch, RequestPoint, InThread, Uploading, Holding
<1>5. CASE CheckOut(p)
  <2>1. Holding(p) /\ req[p] \in {"authenticating", "handling", "committed", "stored"}
    BY <1>5 DEF CheckOut, Take, Holding, Waiting
  <2> QED
    BY <1>2, <1>5, <2>1 DEF CheckOut, RequestPoint, InThread, Uploading, Turn
<1>6. CASE GiveUp(p)
  BY <1>2, <1>6 DEF GiveUp, RequestPoint, InThread, Uploading, Holding
<1>7. CASE Authenticated(p)
  BY <1>2, <1>7 DEF Authenticated, RequestPoint, InThread, Uploading, Holding
<1>8. CASE Commit(p)
  <2>1. again' \in [Requests \cup Sockets -> 0..Again]
    BY <1>8 DEF Commit, TypeOK, PoolAssumption
  <2>2. Holding(p) /\ req[p] \in InThread
    BY <1>8 DEF Commit, Give, Holding, InThread
  <2> QED
    BY <1>1, <1>8, <2>1, <2>2 DEF Commit, RequestPoint, InThread, Uploading
<1>9. CASE Return(p)
  BY <1>2, <1>9 DEF Return, RequestPoint, InThread, Uploading, Holding
<1>10. CASE Reply(p)
  <2>1. again' \in [Requests \cup Sockets -> 0..Again]
    BY <1>10 DEF Reply, TypeOK, PoolAssumption
  <2> QED
    BY <1>1, <1>10, <2>1 DEF Reply, RequestPoint, InThread, Uploading, Holding
<1>11. CASE Close(p)
  <2>1. Holding(p) /\ p \notin holder'
    BY <1>11 DEF Close, Give, Holding
  <2> QED
    BY <1>2, <1>11, <2>1 DEF Close, RequestPoint, InThread, Uploading
<1>12. CASE StartUpload(p)
  BY <1>2, <1>12 DEF StartUpload, RequestPoint, InThread, Uploading, Holding
<1>13. CASE AwaitFile(p)
  BY <1>2, <1>13 DEF AwaitFile, RequestPoint, InThread, Uploading, Holding, Turn
<1>14. CASE FileIsRead(p)
  BY <1>2, <1>14 DEF FileIsRead, RequestPoint, InThread, Uploading, Holding
<1>15. CASE ResumeUpload(p)
  BY <1>2, <1>15 DEF ResumeUpload, RequestPoint, InThread, Uploading, Holding
<1>16. CASE StoreUpload(p)
  <2>1. Holding(p) /\ req[p] = "storing"
    BY <1>16 DEF StoreUpload, Give, Holding, Turn
  <2> QED
    BY <1>2, <1>16, <2>1 DEF StoreUpload, RequestPoint, InThread, Uploading
<1> QED
  BY <1>3, <1>4, <1>5, <1>6, <1>7, <1>8, <1>9, <1>10, <1>11, <1>12, <1>13, <1>14, <1>15,
     <1>16 DEF ByLoop, Proceed

\* What a step of one WebSocket handler does: it enters the loop only when the loop
\* is free, and asks or comes to rest only without a connection.
LEMMA SocketStep ==
  ASSUME TypeOK, PoolAssumption, NEW s \in Sockets,
         \A x \in Sockets : sock[x] = "asking" => x \notin holder,
         Wake(s) \/ Blocking(s) \/ Refused(s)
  PROVE  /\ sock' \in [Sockets -> SocketPoint] /\ UNCHANGED req
         /\ again' \in [Requests \cup Sockets -> 0..Again]
         /\ \A x \in Sockets \ {s} : sock'[x] = sock[x]
         /\ sock'[s] \in OnLoop => sock[s] \in OnLoop \/ LoopFree
         /\ Holding(s)
         /\ sock'[s] \in {"parked", "asking"} =>
              s \notin holder' \/ (sock[s] \in {"parked", "asking"} /\ UNCHANGED holder)
<1> DEFINE Fine ==
      /\ sock' \in [Sockets -> SocketPoint] /\ UNCHANGED req
      /\ again' \in [Requests \cup Sockets -> 0..Again]
      /\ \A x \in Sockets \ {s} : sock'[x] = sock[x]
      /\ sock'[s] \in OnLoop => sock[s] \in OnLoop \/ LoopFree
      /\ Holding(s)
      /\ sock'[s] \in {"parked", "asking"} =>
           s \notin holder' \/ (sock[s] \in {"parked", "asking"} /\ UNCHANGED holder)
<1>1. ASSUME NEW point \in SocketPoint, sock' = [sock EXCEPT ![s] = point], UNCHANGED req,
             again' \in [Requests \cup Sockets -> 0..Again], Holding(s),
             point \in OnLoop => sock[s] \in OnLoop \/ LoopFree,
             point \in {"parked", "asking"} =>
               s \notin holder' \/ (sock[s] \in {"parked", "asking"} /\ UNCHANGED holder)
      PROVE  Fine
  <2>1. sock' \in [Sockets -> SocketPoint] /\ sock'[s] = point
    BY <1>1 DEF TypeOK, SocketPoint
  <2>2. \A x \in Sockets \ {s} : sock'[x] = sock[x]
    BY <1>1 DEF TypeOK
  <2> QED
    BY <1>1, <2>1, <2>2
<1>2. ASSUME NEW from, NEW to, Shift(s, from, to)
      PROVE  again' \in [Requests \cup Sockets -> 0..Again]
  BY <1>2 DEF Shift, TypeOK, PoolAssumption
<1>3. ASSUME NEW from, AskAnew(s, from)
      PROVE  again' \in [Requests \cup Sockets -> 0..Again]
  BY <1>3 DEF AskAnew, TypeOK, PoolAssumption
<1>4. CASE Wake(s)
  BY <1>1, <1>2, <1>4 DEF Wake, Shift, SocketPoint, OnLoop, Holding
<1>5. CASE SocketChecksOut(s)
  BY <1>1, <1>2, <1>5 DEF SocketChecksOut, Take, Shift, SocketPoint, OnLoop, Holding
<1>6. CASE SocketGivesUp(s)
  BY <1>1, <1>2, <1>3, <1>6 DEF SocketGivesUp, Shift, AskAnew, SocketPoint, OnLoop, Holding
<1>7. CASE SocketAsksAnew(s)
  BY <1>1, <1>3, <1>7 DEF SocketAsksAnew, Give, AskAnew, SocketPoint, OnLoop, Holding
<1>8. CASE SocketDone(s)
  BY <1>1, <1>2, <1>8 DEF SocketDone, Give, Shift, SocketPoint, OnLoop, Holding
<1>9. CASE Refuse(s)
  BY <1>1, <1>2, <1>9 DEF Refuse, Shift, SocketPoint, OnLoop, Holding
<1>10. CASE Refused(s)
  BY <1>1, <1>2, <1>10 DEF Refused, Give, Shift, SocketPoint, OnLoop, Holding
<1> QED
  BY <1>4, <1>5, <1>6, <1>7, <1>8, <1>9, <1>10 DEF Blocking
-----------------------------------------------------------------------------
\* A handler that asks for a connection has none, which is why it may give up
\* and come to rest without giving one back.
AskingHaveNone == \A s \in Sockets : sock[s] = "asking" => s \notin holder

Inv == TypeOK /\ InUseIsFinite /\ AskingHaveNone /\ NothingHeldAtRest

\* Whoever gets the loop gets it when it is free: it has one handler, or none.
LEMMA OneBlocks ==
  ASSUME TypeOK, InUseIsFinite,
         \/ Blockers' \subseteq Blockers
         \/ Blockers = {} /\ \E x : Blockers' \subseteq {x}
  PROVE  IsFiniteSet(Blockers') /\ Cardinality(Blockers') <= 1
<1>1. IsFiniteSet(Blockers) /\ Cardinality(Blockers) <= 1
  BY DEF InUseIsFinite, TypeOK
<1>2. Blockers = {} => Cardinality(Blockers) < 1
  BY FS_EmptySet
<1>3. \/ Blockers' \subseteq Blockers
      \/ Cardinality(Blockers) < 1 /\ \E x : Blockers' \subseteq Blockers \cup {x}
  BY <1>2
<1> QED
  BY <1>1, <1>3, WithinLimit

\* The limits hold after every step, and the sets in use stay finite.
LEMMA LimitsNext ==
  ASSUME Inv, [Next]_vars
  PROVE  TypeOK' /\ InUseIsFinite'
<1>0. TypeOK /\ InUseIsFinite /\ AskingHaveNone /\ PoolAssumption
  BY PoolAssumption DEF Inv
<1>1. CASE UNCHANGED vars
  BY <1>0, <1>1 DEF vars, TypeOK, InUseIsFinite, Threaded, Blockers
<1>2. ASSUME NEW x \in Requests \cup Sockets, Holding(x)
      PROVE  holder' \subseteq Requests \cup Sockets /\ IsFiniteSet(holder')
               /\ Cardinality(holder') <= Connections
  <2>1. \/ holder' \subseteq holder
        \/ Cardinality(holder) < Connections /\ holder' \subseteq holder \cup {x}
    BY <1>2 DEF Holding, ConnectionFree
  <2>2. holder' \subseteq Requests \cup Sockets
    BY <1>0, <2>1 DEF TypeOK
  <2>3. IsFiniteSet(holder) /\ Connections \in Nat /\ Cardinality(holder) <= Connections
    BY <1>0 DEF InUseIsFinite, PoolAssumption, TypeOK
  <2> HIDE DEF Inv
  <2> QED
    BY <2>1, <2>2, <2>3, WithinLimit
<1>3. ASSUME NEW p \in Requests, Enter(p) \/ ByLoop(p) \/ Proceed(p)
      PROVE  TypeOK' /\ InUseIsFinite'
  <2>1. /\ req' \in [Requests -> RequestPoint] /\ UNCHANGED sock
        /\ again' \in [Requests \cup Sockets -> 0..Again]
        /\ \A q \in Requests \ {p} : req'[q] = req[q]
        /\ req'[p] \in InThread => req[p] \in InThread \/ ThreadFree
        /\ req'[p] \in Uploading => req[p] \in Uploading \/ LoopFree
        /\ Holding(p)
    BY <1>0, <1>3, RequestStep
  <2>2. \/ Threaded' \subseteq Threaded
        \/ Cardinality(Threaded) < Threads /\ Threaded' \subseteq Threaded \cup {p}
    BY <2>1 DEF Threaded, ThreadFree
  <2>3. IsFiniteSet(Threaded) /\ Threads \in Nat /\ Cardinality(Threaded) <= Threads
    BY <1>0 DEF InUseIsFinite, PoolAssumption, TypeOK, Threaded
  <2>4. IsFiniteSet(Threaded') /\ Cardinality(Threaded') <= Threads
    BY <2>2, <2>3, WithinLimit
  <2>5. Blockers' \subseteq Blockers \/ (Blockers = {} /\ Blockers' \subseteq {p})
    BY <2>1 DEF Blockers, LoopFree
  <2>6. IsFiniteSet(Blockers') /\ Cardinality(Blockers') <= 1
    BY <1>0, <2>5, OneBlocks
  <2> QED
    BY <1>0, <1>2, <2>1, <2>4, <2>6 DEF TypeOK, InUseIsFinite, RequestPoint
<1>4. ASSUME NEW s \in Sockets, Wake(s) \/ Blocking(s) \/ Refused(s)
      PROVE  TypeOK' /\ InUseIsFinite'
  <2>1. /\ sock' \in [Sockets -> SocketPoint] /\ UNCHANGED req
        /\ again' \in [Requests \cup Sockets -> 0..Again]
        /\ \A x \in Sockets \ {s} : sock'[x] = sock[x]
        /\ sock'[s] \in OnLoop => sock[s] \in OnLoop \/ LoopFree
        /\ Holding(s)
    BY <1>0, <1>4, SocketStep DEF AskingHaveNone
  <2>3. Blockers' \subseteq Blockers \/ (Blockers = {} /\ Blockers' \subseteq {s})
    BY <2>1 DEF Blockers, LoopFree
  <2>4. IsFiniteSet(Blockers') /\ Cardinality(Blockers') <= 1
    BY <1>0, <2>3, OneBlocks
  <2>5. Threaded' = Threaded
    BY <2>1 DEF Threaded
  <2> QED
    BY <1>0, <1>2, <2>1, <2>4, <2>5 DEF TypeOK, InUseIsFinite, SocketPoint
<1> QED
  BY <1>1, <1>3, <1>4 DEF Next

\* Who rests or asks has no connection after a step either.
LEMMA RestNext ==
  ASSUME Inv, [Next]_vars
  PROVE  AskingHaveNone' /\ NothingHeldAtRest'
<1>0. TypeOK /\ AskingHaveNone /\ NothingHeldAtRest /\ PoolAssumption
  BY PoolAssumption DEF Inv
<1>1. CASE UNCHANGED vars
  BY <1>0, <1>1 DEF vars, AskingHaveNone, NothingHeldAtRest
<1>2. ASSUME NEW p \in Requests, Enter(p) \/ ByLoop(p) \/ Proceed(p)
      PROVE  AskingHaveNone' /\ NothingHeldAtRest'
  <2>1. /\ UNCHANGED sock
        /\ \A q \in Requests \ {p} : req'[q] = req[q]
        /\ Holding(p)
        /\ req'[p] \in {"idle", "entered"} =>
             p \notin holder' \/ (req[p] \in {"idle", "entered"} /\ UNCHANGED holder)
    BY <1>0, <1>2, RequestStep
  <2>2. \A x : x # p /\ x \notin holder => x \notin holder'
    BY <2>1 DEF Holding
  <2>3. p \notin Sockets
    BY <1>0 DEF PoolAssumption
  <2> QED
    BY <1>0, <2>1, <2>2, <2>3 DEF AskingHaveNone, NothingHeldAtRest
<1>3. ASSUME NEW s \in Sockets, Wake(s) \/ Blocking(s) \/ Refused(s)
      PROVE  AskingHaveNone' /\ NothingHeldAtRest'
  <2>1. /\ UNCHANGED req
        /\ \A x \in Sockets \ {s} : sock'[x] = sock[x]
        /\ Holding(s)
        /\ sock'[s] \in {"parked", "asking"} =>
             s \notin holder' \/ (sock[s] \in {"parked", "asking"} /\ UNCHANGED holder)
    BY <1>0, <1>3, SocketStep DEF AskingHaveNone
  <2>2. \A x : x # s /\ x \notin holder => x \notin holder'
    BY <2>1 DEF Holding
  <2>3. s \notin Requests
    BY <1>0 DEF PoolAssumption
  <2> QED
    BY <1>0, <2>1, <2>2, <2>3 DEF AskingHaveNone, NothingHeldAtRest
<1> QED
  BY <1>1, <1>2, <1>3 DEF Next

\* Everything holds at the start: nobody does anything.
LEMMA InvInit == Init => Inv
<1> SUFFICES ASSUME Init PROVE Inv
  OBVIOUS
<1>1. holder = {} /\ Threaded = {} /\ Blockers = {}
  BY DEF Init, Threaded, Blockers, InThread, Uploading, OnLoop
<1>2. InUseIsFinite /\ Cardinality({}) = 0
  BY <1>1, FS_EmptySet DEF InUseIsFinite
<1>3. TypeOK
  BY <1>1, <1>2, PoolAssumption DEF TypeOK, Init, PoolAssumption
<1> QED
  BY <1>1, <1>2, <1>3 DEF Inv, AskingHaveNone, NothingHeldAtRest

\* The invariant that carries both theorems.
THEOREM InvCorrect == Spec => []Inv
<1>1. Inv /\ [Next]_vars => Inv'
  BY LimitsNext, RestNext DEF Inv
<1> QED
  BY <1>1, InvInit, PTL DEF Spec

\* Requests and sockets keep their shape, and the pool, the threads and the loop
\* their limits.
THEOREM TypeCorrect == Spec => []TypeOK
<1>1. Inv => TypeOK
  BY DEF Inv
<1> QED
  BY <1>1, InvCorrect, PTL

\* Nothing at rest keeps a connection, on whatever path it came to rest: reply,
\* error, timeout or refused handshake (deps.py:25-27, ws.py:52-73).
THEOREM NothingLeaks == Spec => []NothingHeldAtRest
<1>1. Inv => NothingHeldAtRest
  BY DEF Inv
<1> QED
  BY <1>1, InvCorrect, PTL
=============================================================================
