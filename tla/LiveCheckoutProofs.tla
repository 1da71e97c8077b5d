-------------------------- MODULE LiveCheckoutProofs --------------------------
(* The live half of the checkout API, for any number of workers, sockets,  *)
(* sessions and requests: types, rooms, that the tables follow             *)
(* CheckoutPromise, the reasons for disconnecting a till, and that neither *)
(* a disconnection nor the news of a payment gets lost on its way.         *)
EXTENDS LiveCheckout, TLAPS

Coroutines == Sockets \cup Tasks

\* What the coroutine of a till, of an administrator and of a request can be:
\* only the last two ever broadcast or disconnect.
Announcements(backs) ==
  [at : {"announcing"}, worker : Workers, session : Sessions, says : News,
   targets : SUBSET Sockets, drop : BOOLEAN, back : backs]
Drops(backs) ==
  [at : {"dropping"}, worker : Workers, session : Sessions, targets : SUBSET Tills,
   back : backs]

TillCoroutine == {New, Over}
  \cup [at : {"authenticated"}, worker : Workers, key : Keys]
  \cup [at : {"greeting"}, worker : Workers, key : Keys, session : Sessions, says : News]
  \cup [at : {"joining", "serving"}, worker : Workers, key : Keys, session : Sessions]
AdminCoroutine == {New, Over}
  \cup [at : {"greeting"}, worker : Workers, session : Sessions, says : News]
  \cup [at : {"arrived", "serving", "departed"}, worker : Workers, session : Sessions]
  \cup Announcements({"over", "serving"}) \cup Drops({"over", "serving"})
TaskCoroutine == {New}
  \cup [at : {"rotated"}, worker : Workers, counter : Counters]
  \cup [at : {"scheduled"}, worker : Workers, session : Sessions,
        job : {"cart", "pay", "drop"}]
  \cup Announcements({"new"}) \cup Drops({"new"})

RolesOK ==
  /\ co \in [Coroutines -> TillCoroutine \cup AdminCoroutine \cup TaskCoroutine]
  /\ \A t \in Tills : co[t] \in TillCoroutine
  /\ \A a \in Admins : co[a] \in AdminCoroutine
  /\ \A h \in Tasks : co[h] \in TaskCoroutine

\* The actions of each kind of coroutine.
TillStep(t) ==
  \/ \E w \in Workers, k \in Keys : Accept(t, w, k)
  \/ FindOrCreateSession(t) \/ Greet(t) \/ Join(t) \/ TillLeaves(t)
AdminStep(a) ==
  \/ \E w \in Workers, s \in Sessions : AdminEnters(a, w, s)
  \/ AdminGreeted(a) \/ AnnouncePresence(a) \/ AdminEdits(a) \/ AdminCancels(a)
  \/ AdminLeaves(a)
TaskStep(h) ==
  \/ \E w \in Workers, s \in Sessions : UpdateCart(h, w, s) \/ Pay(h, w, s)
  \/ \E w \in Workers, c \in Counters, k \in Keys : Rotate(h, w, c, k)
  \/ ListOpenSessions(h) \/ RunTask(h)
RoundStep(x) == SendNext(x) \/ EndAnnouncement(x) \/ DropNext(x) \/ EndDrop(x)
TablesOnly ==
  \/ \E c \in Counters, k \in Keys : CreateCounter(c, k)
  \/ \E c \in Counters, s \in Sessions : ConnectOverHttp(c, s)

\* Every step is one of a coroutine, of the tables alone, or a failure.
LEMMA StepCases ==
  ASSUME [Next]_vars
  PROVE  \/ UNCHANGED vars
         \/ TablesOnly
         \/ \E k \in Sockets : HangUp(k)
         \/ \E w \in Workers : WorkerDies(w)
         \/ \E t \in Tills : TillStep(t)
         \/ \E a \in Admins : AdminStep(a)
         \/ \E h \in Tasks : TaskStep(h)
         \/ \E x \in Coroutines : RoundStep(x)
<1>1. Environment => \/ TablesOnly
                     \/ \E k \in Sockets : HangUp(k)
                     \/ \E w \in Workers : WorkerDies(w)
                     \/ \E t \in Tills : TillStep(t)
                     \/ \E a \in Admins : AdminStep(a)
                     \/ \E h \in Tasks : TaskStep(h)
  BY DEF Environment, TablesOnly, TillStep, AdminStep, TaskStep
<1>2. (\E x \in Coroutines : Proceed(x)) =>
        \/ \E t \in Tills : TillStep(t)
        \/ \E a \in Admins : AdminStep(a)
        \/ \E h \in Tasks : TaskStep(h)
        \/ \E x \in Coroutines : RoundStep(x)
  BY DEF Proceed, TillStep, AdminStep, TaskStep, RoundStep
<1> QED
  BY <1>1, <1>2 DEF Next, Coroutines

\* What a record needs to be a coroutine of its kind.
LEMMA Shapes ==
  /\ New \in TillCoroutine /\ New \in AdminCoroutine /\ New \in TaskCoroutine
  /\ Over \in TillCoroutine /\ Over \in AdminCoroutine
  /\ \A w \in Workers, k \in Keys :
       [at |-> "authenticated", worker |-> w, key |-> k] \in TillCoroutine
  /\ \A w \in Workers, k \in Keys, s \in Sessions, n \in News :
       [at |-> "greeting", worker |-> w, key |-> k, session |-> s, says |-> n] \in TillCoroutine
  /\ \A p \in {"joining", "serving"}, w \in Workers, k \in Keys, s \in Sessions :
       [at |-> p, worker |-> w, key |-> k, session |-> s] \in TillCoroutine
  /\ \A w \in Workers, s \in Sessions, n \in News :
       [at |-> "greeting", worker |-> w, session |-> s, says |-> n] \in AdminCoroutine
  /\ \A p \in {"arrived", "serving", "departed"}, w \in Workers, s \in Sessions :
       [at |-> p, worker |-> w, session |-> s] \in AdminCoroutine
  /\ \A w \in Workers, c \in Counters :
       [at |-> "rotated", worker |-> w, counter |-> c] \in TaskCoroutine
  /\ \A w \in Workers, s \in Sessions, j \in {"cart", "pay", "drop"} :
       [at |-> "scheduled", worker |-> w, session |-> s, job |-> j] \in TaskCoroutine
  /\ \A backs : \A w \in Workers, s \in Sessions, n \in News, k \in SUBSET Sockets,
        d \in BOOLEAN, b \in backs :
       [at |-> "announcing", worker |-> w, session |-> s, says |-> n, targets |-> k,
        drop |-> d, back |-> b] \in Announcements(backs)
  /\ \A backs : \A w \in Workers, s \in Sessions, k \in SUBSET Tills, b \in backs :
       [at |-> "dropping", worker |-> w, session |-> s, targets |-> k,
        back |-> b] \in Drops(backs)
  BY DEF TillCoroutine, AdminCoroutine, TaskCoroutine, Announcements, Drops

\* What coroutines remember at each point.
LEMMA TillFields ==
  ASSUME RolesOK, NEW t \in Tills
  PROVE  /\ co[t].at \in {"new", "over", "authenticated", "greeting", "joining", "serving"}
         /\ At(t, "new") => co[t] = New
         /\ At(t, "over") => co[t] = Over
         /\ At(t, "authenticated") => co[t].worker \in Workers /\ co[t].key \in Keys
         /\ At(t, "greeting") => /\ co[t].worker \in Workers /\ co[t].key \in Keys
                                 /\ co[t].session \in Sessions /\ co[t].says \in News
         /\ At(t, "joining") \/ At(t, "serving") =>
              co[t] \in [at : {"joining", "serving"}, worker : Workers, key : Keys,
                         session : Sessions]
<1>1. co[t] \in TillCoroutine
  BY DEF RolesOK
<1> QED
  BY <1>1 DEF TillCoroutine, New, Over, At

LEMMA AdminFields ==
  ASSUME RolesOK, NEW a \in Admins
  PROVE  /\ At(a, "greeting") => /\ co[a].worker \in Workers /\ co[a].session \in Sessions
                                 /\ co[a].says \in News
         /\ At(a, "arrived") \/ At(a, "serving") \/ At(a, "departed") =>
              co[a] \in [at : {"arrived", "serving", "departed"}, worker : Workers,
                         session : Sessions]
         /\ At(a, "announcing") => co[a] \in Announcements({"over", "serving"})
         /\ At(a, "dropping") => co[a] \in Drops({"over", "serving"})
         /\ ~At(a, "rotated") /\ ~At(a, "scheduled")
<1>1. co[a] \in AdminCoroutine
  BY DEF RolesOK
<1> QED
  BY <1>1 DEF AdminCoroutine, Announcements, Drops, New, Over, At

LEMMA TaskFields ==
  ASSUME RolesOK, NEW h \in Tasks
  PROVE  /\ At(h, "rotated") => co[h].worker \in Workers /\ co[h].counter \in Counters
         /\ At(h, "scheduled") => /\ co[h].worker \in Workers /\ co[h].session \in Sessions
                                  /\ co[h].job \in {"cart", "pay", "drop"}
         /\ At(h, "announcing") => co[h] \in Announcements({"new"})
         /\ At(h, "dropping") => co[h] \in Drops({"new"})
         /\ ~At(h, "over") /\ ~At(h, "serving")
<1>1. co[h] \in TaskCoroutine
  BY DEF RolesOK
<1> QED
  BY <1>1 DEF TaskCoroutine, Announcements, Drops, New, At

\* A step of a coroutine replaces its record and no other.
LEMMA Becoming ==
  ASSUME RolesOK, NEW x \in Coroutines, NEW r, Become(x, r)
  PROVE  \A y \in Coroutines : co'[y] = IF y = x THEN r ELSE co[y]
  BY DEF RolesOK, Become

LEMMA BecomingInRole ==
  ASSUME RolesOK, CoroutinesAssumption, NEW x \in Coroutines, NEW r, Become(x, r),
         \/ x \in Tills /\ r \in TillCoroutine
         \/ x \in Admins /\ r \in AdminCoroutine
         \/ x \in Tasks /\ r \in TaskCoroutine
  PROVE  RolesOK'
<1>1. co' \in [Coroutines -> TillCoroutine \cup AdminCoroutine \cup TaskCoroutine]
  BY DEF RolesOK, Become
<1>2. \A y \in Coroutines : co'[y] = IF y = x THEN r ELSE co[y]
  BY Becoming
<1> QED
  BY <1>1, <1>2 DEF RolesOK, Coroutines, Sockets, CoroutinesAssumption

\* Registering and unregistering change one room of one worker.
LEMMA Registered ==
  ASSUME RoomsOK, NEW w \in Workers, NEW s \in Sessions, NEW k, register_client(w, s, k)
  PROVE  /\ clients'[w][s] = clients[w][s] \cup {k}
         /\ \A v \in Workers, z \in Sessions :
              v # w \/ z # s => clients'[v][z] = clients[v][z]
<1> DEFINE room == clients[w][s] \cup {k}
<1>1. clients' = [clients EXCEPT ![w][s] = room]
  BY DEF register_client
<1>2. DOMAIN clients = Workers /\ DOMAIN clients[w] = Sessions
  BY DEF RoomsOK
<1> HIDE DEF room
<1>3. clients'[w] = [clients[w] EXCEPT ![s] = room]
  BY <1>1, <1>2
<1>4. clients'[w][s] = room /\ \A z \in Sessions \ {s} : clients'[w][z] = clients[w][z]
  BY <1>2, <1>3
<1>5. \A v \in Workers \ {w} : clients'[v] = clients[v]
  BY <1>1, <1>2
<1> QED
  BY <1>4, <1>5 DEF room

LEMMA Unregistered ==
  ASSUME RoomsOK, NEW w \in Workers, NEW s \in Sessions, NEW k, unregister_client(w, s, k)
  PROVE  /\ clients'[w][s] = clients[w][s] \ {k}
         /\ \A v \in Workers, z \in Sessions :
              v # w \/ z # s => clients'[v][z] = clients[v][z]
<1> DEFINE room == clients[w][s] \ {k}
<1>1. clients' = [clients EXCEPT ![w][s] = room]
  BY DEF unregister_client
<1>2. DOMAIN clients = Workers /\ DOMAIN clients[w] = Sessions
  BY DEF RoomsOK
<1> HIDE DEF room
<1>3. clients'[w] = [clients[w] EXCEPT ![s] = room]
  BY <1>1, <1>2
<1>4. clients'[w][s] = room /\ \A z \in Sessions \ {s} : clients'[w][z] = clients[w][z]
  BY <1>2, <1>3
<1>5. \A v \in Workers \ {w} : clients'[v] = clients[v]
  BY <1>1, <1>2
<1> QED
  BY <1>4, <1>5 DEF room

\* They leave rooms that hold sockets of their kind.
LEMMA Registering ==
  ASSUME RoomsOK, NEW w \in Workers, NEW s \in Sessions, NEW k
  PROVE  /\ register_client(w, s, k) /\ k \in Tills =>
              clients' \in [Workers -> [Sessions -> SUBSET Tills]]
         /\ unregister_client(w, s, k) => clients' \in [Workers -> [Sessions -> SUBSET Tills]]
         /\ register_admin(w, s, k) /\ k \in Admins =>
              admins' \in [Workers -> [Sessions -> SUBSET Admins]]
         /\ unregister_admin(w, s, k) => admins' \in [Workers -> [Sessions -> SUBSET Admins]]
<1>1. ASSUME NEW rs, NEW all, NEW rs2, NEW room \in SUBSET all,
             rs \in [Workers -> [Sessions -> SUBSET all]],
             rs2 = [rs EXCEPT ![w][s] = room]
      PROVE  rs2 \in [Workers -> [Sessions -> SUBSET all]]
  BY <1>1
<1>2. /\ clients \in [Workers -> [Sessions -> SUBSET Tills]]
      /\ admins \in [Workers -> [Sessions -> SUBSET Admins]]
      /\ clients[w][s] \in SUBSET Tills /\ admins[w][s] \in SUBSET Admins
  BY DEF RoomsOK
<1>3. register_client(w, s, k) /\ k \in Tills =>
        clients' \in [Workers -> [Sessions -> SUBSET Tills]]
  <2>1. register_client(w, s, k) => clients' = [clients EXCEPT ![w][s] = clients[w][s] \cup {k}]
    BY DEF register_client
  <2>2. k \in Tills => clients[w][s] \cup {k} \in SUBSET Tills
    BY <1>2
  <2> QED
    BY <1>1, <1>2, <2>1, <2>2
<1>4. unregister_client(w, s, k) => clients' \in [Workers -> [Sessions -> SUBSET Tills]]
  <2>1. unregister_client(w, s, k) => clients' = [clients EXCEPT ![w][s] = clients[w][s] \ {k}]
    BY DEF unregister_client
  <2>2. clients[w][s] \ {k} \in SUBSET Tills
    BY <1>2
  <2> QED
    BY <1>1, <1>2, <2>1, <2>2
<1>5. register_admin(w, s, k) /\ k \in Admins =>
        admins' \in [Workers -> [Sessions -> SUBSET Admins]]
  <2>1. register_admin(w, s, k) => admins' = [admins EXCEPT ![w][s] = admins[w][s] \cup {k}]
    BY DEF register_admin
  <2>2. k \in Admins => admins[w][s] \cup {k} \in SUBSET Admins
    BY <1>2
  <2> QED
    BY <1>1, <1>2, <2>1, <2>2
<1>6. unregister_admin(w, s, k) => admins' \in [Workers -> [Sessions -> SUBSET Admins]]
  <2>1. unregister_admin(w, s, k) => admins' = [admins EXCEPT ![w][s] = admins[w][s] \ {k}]
    BY DEF unregister_admin
  <2>2. admins[w][s] \ {k} \in SUBSET Admins
    BY <1>2
  <2> QED
    BY <1>1, <1>2, <2>1, <2>2
<1> QED
  BY <1>3, <1>4, <1>5, <1>6
-----------------------------------------------------------------------------
\* The records that entering broadcast and disconnect_clients makes.
LEMMA Entering ==
  ASSUME RoomsOK, NEW w \in Workers, NEW s \in Sessions, NEW closed \in BOOLEAN,
         NEW to_clients, NEW drop \in BOOLEAN, NEW backs, NEW back \in backs
  PROVE  /\ Announcing(w, s, closed, to_clients, drop, back) \in Announcements(backs)
         /\ Dropping(w, s, back) \in Drops(backs)
<1>1. [closed |-> closed, takeover |-> is_admin_present(w, s)] \in News
  BY DEF News, is_admin_present
<1>2. Audience(w, s, to_clients) \in SUBSET Sockets /\ clients[w][s] \in SUBSET Tills
  BY DEF RoomsOK, Audience, Sockets
<1> QED
  BY <1>1, <1>2, Shapes DEF Announcing, Dropping

\* A till's step leaves it a till's coroutine, and the rooms of their kind.
LEMMA TillTypes ==
  ASSUME RolesOK, RoomsOK, NEW t \in Tills, TillStep(t)
  PROVE  RoomsOK' /\ \E r \in TillCoroutine : Become(t, r)
<1>0. t \in Sockets
  BY DEF Sockets
<1>1. ASSUME NEW w \in Workers, NEW k \in Keys, Accept(t, w, k)
      PROVE  RoomsOK' /\ \E r \in TillCoroutine : Become(t, r)
  <2>1. RoomsOK'
    BY <1>0, <1>1 DEF Accept, RoomsOK, rooms
  <2> QED
    BY <1>1, <2>1, Shapes DEF Accept
<1>2. CASE FindOrCreateSession(t)
  <2> DEFINE w == co[t].worker  k == co[t].key
  <2>1. w \in Workers /\ k \in Keys
    BY <1>2, TillFields DEF FindOrCreateSession
  <2>2. ASSUME NEW s \in Sessions
        PROVE  [at |-> "greeting", worker |-> w, key |-> k, session |-> s,
                says |-> [closed |-> FALSE, takeover |-> is_admin_present(w, s)]]
                 \in TillCoroutine
    <3>1. [closed |-> FALSE, takeover |-> is_admin_present(w, s)] \in News
      BY DEF News, is_admin_present
    <3> QED
      BY <2>1, <3>1, Shapes
  <2>3. \E r \in TillCoroutine : Become(t, r)
    BY <1>2, <2>2, Shapes DEF FindOrCreateSession, DB!OpenOf
  <2>4. RoomsOK'
    BY <1>0, <1>2 DEF FindOrCreateSession, RoomsOK, rooms
  <2> QED
    BY <2>3, <2>4
<1>3. CASE Greet(t)
  <2>1. \E r \in TillCoroutine : Become(t, r)
    BY <1>3, TillFields, Shapes DEF Greet
  <2>2. co[t].says \in News
    BY <1>3, TillFields DEF Greet
  <2>3. RoomsOK'
    BY <1>0, <1>3, <2>2 DEF Greet, RoomsOK, rooms
  <2> QED
    BY <2>1, <2>3
<1>4. CASE Join(t)
  <2>1. co[t] \in [at : {"joining", "serving"}, worker : Workers, key : Keys,
                   session : Sessions]
    BY <1>4, TillFields DEF Join
  <2>2. [co[t] EXCEPT !.at = "serving"] \in TillCoroutine
    BY <2>1 DEF TillCoroutine
  <2>3. RoomsOK'
    BY <1>4, <2>1, Registering DEF Join, RoomsOK
  <2> QED
    BY <1>4, <2>2, <2>3 DEF Join
<1>5. CASE TillLeaves(t)
  <2>1. co[t] \in [at : {"joining", "serving"}, worker : Workers, key : Keys,
                   session : Sessions]
    BY <1>5, TillFields DEF TillLeaves
  <2>2. RoomsOK'
    BY <1>5, <2>1, Registering DEF TillLeaves, RoomsOK
  <2> QED
    BY <1>5, <2>2, Shapes DEF TillLeaves
<1> QED
  BY <1>1, <1>2, <1>3, <1>4, <1>5 DEF TillStep

\* The same for an administrator.
LEMMA AdminTypes ==
  ASSUME RolesOK, RoomsOK, NEW a \in Admins, AdminStep(a)
  PROVE  RoomsOK' /\ \E r \in AdminCoroutine : Become(a, r)
<1>0. a \in Sockets
  BY DEF Sockets
<1>1. ASSUME NEW w \in Workers, NEW s \in Sessions, AdminEnters(a, w, s)
      PROVE  RoomsOK' /\ \E r \in AdminCoroutine : Become(a, r)
  <2>1. [closed |-> Closed(s), takeover |-> TRUE] \in News
    BY DEF News, Closed
  <2>2. RoomsOK'
    BY <1>0, <1>1, Registering DEF AdminEnters, RoomsOK
  <2> QED
    BY <1>1, <2>1, <2>2, Shapes DEF AdminEnters
<1>2. CASE AdminGreeted(a)
  <2>1. co[a].worker \in Workers /\ co[a].session \in Sessions /\ co[a].says \in News
    BY <1>2, AdminFields DEF AdminGreeted
  <2>2. RoomsOK'
    BY <1>0, <1>2, <2>1 DEF AdminGreeted, RoomsOK, rooms
  <2> QED
    BY <1>2, <2>1, <2>2, Shapes DEF AdminGreeted
<1>3. ASSUME At(a, "arrived") \/ At(a, "serving") \/ At(a, "departed")
      PROVE  co[a].worker \in Workers /\ co[a].session \in Sessions
  BY <1>3, AdminFields
<1>4. ASSUME NEW closed \in BOOLEAN, NEW drop \in BOOLEAN, NEW back \in {"over", "serving"},
             At(a, "arrived") \/ At(a, "serving") \/ At(a, "departed"),
             Become(a, Announcing(co[a].worker, co[a].session, closed, TRUE, drop, back))
      PROVE  \E r \in AdminCoroutine : Become(a, r)
  BY <1>3, <1>4, Entering DEF AdminCoroutine
<1>5. CASE AnnouncePresence(a)
  <2>1. Closed(co[a].session) \in BOOLEAN
    BY DEF Closed
  <2> QED
    BY <1>4, <1>5, <2>1 DEF AnnouncePresence, RoomsOK, live
<1>6. CASE AdminEdits(a)
  BY <1>4, <1>6 DEF AdminEdits, RoomsOK, live
<1>7. CASE AdminCancels(a)
  BY <1>4, <1>7 DEF AdminCancels, RoomsOK, live
<1>8. CASE AdminLeaves(a)
  <2>1. co[a] \in [at : {"arrived", "serving", "departed"}, worker : Workers,
                   session : Sessions]
    BY <1>8, AdminFields DEF AdminLeaves
  <2>2. [co[a] EXCEPT !.at = "departed"] \in AdminCoroutine
    BY <2>1 DEF AdminCoroutine
  <2>3. RoomsOK'
    BY <1>8, <2>1, Registering DEF AdminLeaves, RoomsOK
  <2> QED
    BY <1>8, <2>2, <2>3 DEF AdminLeaves
<1> QED
  BY <1>1, <1>2, <1>5, <1>6, <1>7, <1>8 DEF AdminStep

\* The same for a request.
LEMMA TaskTypes ==
  ASSUME RolesOK, RoomsOK, NEW h \in Tasks, TaskStep(h)
  PROVE  RoomsOK' /\ \E r \in TaskCoroutine : Become(h, r)
<1>1. UNCHANGED live
  BY DEF TaskStep, UpdateCart, Pay, Rotate, ListOpenSessions, RunTask
<1>2. RoomsOK'
  BY <1>1 DEF live, RoomsOK
<1>3. ASSUME NEW w \in Workers, NEW s \in Sessions, UpdateCart(h, w, s) \/ Pay(h, w, s)
      PROVE  \E r \in TaskCoroutine : Become(h, r)
  BY <1>3, Shapes DEF UpdateCart, Pay
<1>4. ASSUME NEW w \in Workers, NEW c \in Counters, NEW k \in Keys, Rotate(h, w, c, k)
      PROVE  \E r \in TaskCoroutine : Become(h, r)
  BY <1>4, Shapes DEF Rotate
<1>5. CASE ListOpenSessions(h)
  <2>1. co[h].worker \in Workers
    BY <1>5, TaskFields DEF ListOpenSessions
  <2>2. ASSUME NEW s \in Sessions,
               Become(h, [at |-> "scheduled", worker |-> co[h].worker, session |-> s,
                          job |-> "drop"])
        PROVE  \E r \in TaskCoroutine : Become(h, r)
    BY <2>1, <2>2, Shapes
  <2>3. Become(h, New) => \E r \in TaskCoroutine : Become(h, r)
    BY Shapes
  <2> QED
    BY <1>2, <1>5, <2>2, <2>3 DEF ListOpenSessions, DB!OpenOf
<1>6. CASE RunTask(h)
  <2>1. co[h].worker \in Workers /\ co[h].session \in Sessions
    BY <1>6, TaskFields DEF RunTask
  <2>2. \A closed, drop \in BOOLEAN, to_clients \in BOOLEAN :
          Announcing(co[h].worker, co[h].session, closed, to_clients, drop, "new")
            \in TaskCoroutine
    BY <2>1, Entering DEF TaskCoroutine
  <2>3. Dropping(co[h].worker, co[h].session, "new") \in TaskCoroutine
    BY <2>1, Entering DEF TaskCoroutine
  <2>4. CASE Become(h, Announcing(co[h].worker, co[h].session, FALSE, TRUE, FALSE, "new"))
    BY <1>2, <2>2, <2>4
  <2>5. CASE Become(h, Announcing(co[h].worker, co[h].session, TRUE, FALSE, TRUE, "new"))
    BY <1>2, <2>2, <2>5
  <2>6. CASE Become(h, Dropping(co[h].worker, co[h].session, "new"))
    BY <1>2, <2>3, <2>6
  <2> QED
    BY <1>6, <2>4, <2>5, <2>6 DEF RunTask
<1> QED
  BY <1>2, <1>3, <1>4, <1>5, <1>6 DEF TaskStep

\* Only administrators and requests are inside broadcast or disconnect_clients.
LEMMA RoundFields ==
  ASSUME RolesOK, NEW x \in Coroutines, At(x, "announcing") \/ At(x, "dropping")
  PROVE  \/ x \in Admins /\ co[x] \in Announcements({"over", "serving"}) \cup Drops({"over", "serving"})
         \/ x \in Tasks /\ co[x] \in Announcements({"new"}) \cup Drops({"new"})
  BY TillFields, AdminFields, TaskFields DEF Coroutines, Sockets, At

\* A send or a drop, and the end of a round, leave coroutine and rooms of their kind.
LEMMA RoundTypes ==
  ASSUME RolesOK, RoomsOK, NEW x \in Coroutines, RoundStep(x)
  PROVE  /\ RoomsOK'
         /\ \/ x \in Admins /\ \E r \in AdminCoroutine : Become(x, r)
            \/ x \in Tasks /\ \E r \in TaskCoroutine : Become(x, r)
<1>1. PICK backs \in {{"over", "serving"}, {"new"}} :
        /\ co[x] \in Announcements(backs) \cup Drops(backs)
        /\ \/ x \in Admins /\ backs = {"over", "serving"}
           \/ x \in Tasks /\ backs = {"new"}
  <2>1. At(x, "announcing") \/ At(x, "dropping")
    BY DEF RoundStep, SendNext, EndAnnouncement, DropNext, EndDrop
  <2> QED
    BY <2>1, RoundFields
<1>2. /\ co[x].worker \in Workers /\ co[x].session \in Sessions /\ co[x].back \in backs
      /\ At(x, "announcing") => /\ co[x] \in Announcements(backs)
                                /\ co[x].says \in News /\ co[x].targets \subseteq Sockets
      /\ At(x, "dropping") => co[x] \in Drops(backs) /\ co[x].targets \subseteq Tills
  BY <1>1 DEF Announcements, Drops, At
<1>3. ASSUME NEW r \in Announcements(backs) \cup Drops(backs), Become(x, r)
      PROVE  \/ x \in Admins /\ \E q \in AdminCoroutine : Become(x, q)
             \/ x \in Tasks /\ \E q \in TaskCoroutine : Become(x, q)
  BY <1>1, <1>3 DEF AdminCoroutine, TaskCoroutine
<1>4. ASSUME Resume(x)
      PROVE  \/ x \in Admins /\ \E q \in AdminCoroutine : Become(x, q)
             \/ x \in Tasks /\ \E q \in TaskCoroutine : Become(x, q)
  <2>1. CASE co[x].back = "serving"
    BY <1>1, <1>2, <1>4, <2>1, Shapes DEF Resume
  <2>2. CASE co[x].back # "serving"
    <3>1. Become(x, [at |-> co[x].back])
      BY <1>4, <2>2 DEF Resume
    <3>2. \/ x \in Admins /\ co[x].back = "over"
          \/ x \in Tasks /\ co[x].back = "new"
      BY <1>1, <1>2, <2>2
    <3> QED
      BY <3>1, <3>2, Shapes DEF New, Over
  <2> QED
    BY <2>1, <2>2
<1>5. CASE SendNext(x)
  <2>1. PICK k \in FirstOf(co[x].targets) :
          /\ Send(co[x].worker, co[x].session, k, co[x].says)
          /\ Become(x, [co[x] EXCEPT !.targets = co[x].targets \ {k}])
    BY <1>5 DEF SendNext
  <2>2. k \in Sockets
    BY <1>2, <1>5, <2>1 DEF SendNext, FirstOf
  <2>3. [co[x] EXCEPT !.targets = co[x].targets \ {k}] \in Announcements(backs)
    BY <1>2, <1>5 DEF SendNext, Announcements
  <2>4. RoomsOK'
    <3>1. CASE link[k] = "up" /\ seen' = [seen EXCEPT ![k] = co[x].says] /\ UNCHANGED <<rooms, link>>
      BY <1>2, <1>5, <2>2, <3>1 DEF SendNext, RoomsOK, rooms
    <3>2. CASE /\ unregister_client(co[x].worker, co[x].session, k)
               /\ unregister_admin(co[x].worker, co[x].session, k)
               /\ UNCHANGED sockets
      BY <1>2, <3>2, Registering DEF RoomsOK, sockets
    <3> QED
      BY <2>1, <3>1, <3>2 DEF Send
  <2> QED
    BY <1>3, <2>1, <2>3, <2>4
<1>6. CASE EndAnnouncement(x)
  <2>1. Dropping(co[x].worker, co[x].session, co[x].back) \in Drops(backs)
    BY <1>2, Entering
  <2> QED
    BY <1>3, <1>4, <1>6, <2>1 DEF EndAnnouncement, RoomsOK, live
<1>7. CASE DropNext(x)
  <2>1. PICK k \in co[x].targets :
          /\ Drop(co[x].worker, co[x].session, k)
          /\ Become(x, [co[x] EXCEPT !.targets = co[x].targets \ {k}])
    BY <1>7 DEF DropNext
  <2>2. [co[x] EXCEPT !.targets = co[x].targets \ {k}] \in Drops(backs)
    BY <1>2, <1>7 DEF DropNext, Drops
  <2>3. k \in Sockets
    BY <1>2, <1>7, <2>1 DEF DropNext, Sockets
  <2>4. RoomsOK'
    BY <1>2, <2>1, <2>3, Registering DEF Drop, RoomsOK
  <2> QED
    BY <1>3, <2>1, <2>2, <2>4
<1>8. CASE EndDrop(x)
  BY <1>4, <1>8 DEF EndDrop, RoomsOK, live
<1> QED
  BY <1>5, <1>6, <1>7, <1>8 DEF RoundStep

\* A crash only ends coroutines, cuts links and empties rooms.
LEMMA CrashTypes ==
  ASSUME RolesOK, RoomsOK, CoroutinesAssumption, NEW w \in Workers, WorkerDies(w)
  PROVE  RoomsOK' /\ RolesOK'
<1>1. PICK lost \in SUBSET Coroutines :
        /\ co' = [x \in DOMAIN co |->
                   IF x \notin lost THEN co[x] ELSE IF x \in Tasks THEN New ELSE Over]
        /\ link' = [k \in Sockets |-> IF k \in lost THEN "down" ELSE link[k]]
        /\ clients' = [clients EXCEPT ![w] = [s \in Sessions |-> {}]]
        /\ admins' = [admins EXCEPT ![w] = [s \in Sessions |-> {}]]
        /\ UNCHANGED seen
  BY DEF WorkerDies, Coroutines
<1>2. RoomsOK'
  BY <1>1 DEF RoomsOK
<1>3. DOMAIN co = Coroutines
  BY DEF RolesOK
<1>4. \A x \in Coroutines : co'[x] =
        IF x \notin lost THEN co[x] ELSE IF x \in Tasks THEN New ELSE Over
  BY <1>1, <1>3
<1>5. co' \in [Coroutines -> TillCoroutine \cup AdminCoroutine \cup TaskCoroutine]
  BY <1>1, <1>3, Shapes DEF RolesOK
<1> QED
  BY <1>2, <1>4, <1>5, Shapes DEF RolesOK, Coroutines, Sockets, CoroutinesAssumption

\* Every coroutine stays in its role, and every room keeps its kind.
LEMMA RolesNext ==
  ASSUME RolesOK, RoomsOK, [Next]_vars
  PROVE  RolesOK' /\ RoomsOK'
<1>0. CoroutinesAssumption
  BY CoroutinesAssumption
<1>1. CASE UNCHANGED vars
  BY <1>1 DEF vars, RolesOK, RoomsOK
<1>2. CASE TablesOnly
  BY <1>2 DEF TablesOnly, CreateCounter, ConnectOverHttp, live, RolesOK, RoomsOK
<1>3. ASSUME NEW k \in Sockets, HangUp(k)
      PROVE  RolesOK' /\ RoomsOK'
  BY <1>3 DEF HangUp, rooms, RolesOK, RoomsOK
<1>4. ASSUME NEW w \in Workers, WorkerDies(w)
      PROVE  RolesOK' /\ RoomsOK'
  BY <1>0, <1>4, CrashTypes
<1>5. ASSUME NEW t \in Tills, TillStep(t)
      PROVE  RolesOK' /\ RoomsOK'
  BY <1>0, <1>5, TillTypes, BecomingInRole DEF Coroutines, Sockets
<1>6. ASSUME NEW a \in Admins, AdminStep(a)
      PROVE  RolesOK' /\ RoomsOK'
  BY <1>0, <1>6, AdminTypes, BecomingInRole DEF Coroutines, Sockets
<1>7. ASSUME NEW h \in Tasks, TaskStep(h)
      PROVE  RolesOK' /\ RoomsOK'
  BY <1>0, <1>7, TaskTypes, BecomingInRole DEF Coroutines
<1>8. ASSUME NEW x \in Coroutines, RoundStep(x)
      PROVE  RolesOK' /\ RoomsOK'
  BY <1>0, <1>8, RoundTypes, BecomingInRole
<1> QED
  BY <1>1, <1>2, <1>3, <1>4, <1>5, <1>6, <1>7, <1>8, StepCases

LEMMA RolesInit == Init => RolesOK /\ RoomsOK
<1> SUFFICES ASSUME Init PROVE RolesOK /\ RoomsOK
  OBVIOUS
<1>1. NoNews \in News
  BY DEF News, NoNews
<1>2. RoomsOK
  BY <1>1 DEF Init, NobodyWatches, RoomsOK
<1>3. co = [x \in Coroutines |-> New]
  BY DEF Init, Coroutines
<1>4. RolesOK
  BY <1>3, Shapes DEF RolesOK, Coroutines, Sockets
<1> QED
  BY <1>2, <1>4

\* Rooms and coroutines keep their types (ws_manager.py:9-58).
THEOREM TypeCorrect == Spec => []TypeOK
<1>1. TillCoroutine \cup AdminCoroutine \cup TaskCoroutine \subseteq Coroutine
  BY DEF TillCoroutine, AdminCoroutine, TaskCoroutine, Announcements, Drops, Coroutine, Backs
<1>2. RolesOK /\ RoomsOK => TypeOK
  BY <1>1 DEF RolesOK, TypeOK, Coroutines
<1>3. (RolesOK /\ RoomsOK) /\ [Next]_vars => (RolesOK /\ RoomsOK)'
  BY RolesNext
<1> QED
  BY <1>2, <1>3, RolesInit, PTL DEF Spec
-----------------------------------------------------------------------------
\* A till that has not begun or is done has no connection.
IdleAreDown == \A t \in Tills : At(t, "new") \/ At(t, "over") => link[t] = "down"

\* What a till's step does: it registers or unregisters the till that begins or
\* ends to be served, and touches no other socket.
LEMMA TillMoves ==
  ASSUME RolesOK, RoomsOK, IdleAreDown, NEW t \in Tills, TillStep(t)
  PROVE  /\ \A y \in Coroutines \ {t} : co'[y] = co[y]
         /\ \A k \in Sockets \ {t} : link'[k] = link[k]
         /\ ~At(t, "over") /\ co'[t].at # "new"
         /\ co'[t].at = "over" => link'[t] = "down"
         /\ link'[t] = "up" => link[t] = "up" \/ co'[t].at = "authenticated"
         /\ \/ /\ At(t, "joining") /\ register_client(co[t].worker, co[t].session, t)
               /\ co'[t] = [co[t] EXCEPT !.at = "serving"]
            \/ /\ At(t, "serving") /\ unregister_client(co[t].worker, co[t].session, t)
               /\ co'[t].at = "over"
            \/ ~At(t, "serving") /\ co'[t].at # "serving" /\ UNCHANGED clients
<1>0. t \in Sockets /\ t \in Coroutines
  BY DEF Sockets, Coroutines
<1>1. \A r : Become(t, r) =>
        co'[t] = r /\ \A y \in Coroutines \ {t} : co'[y] = co[y]
  BY <1>0, Becoming
<1>2. ASSUME NEW l, link' = [link EXCEPT ![t] = l]
      PROVE  link'[t] = l /\ \A k \in Sockets \ {t} : link'[k] = link[k]
  BY <1>0, <1>2 DEF RoomsOK
<1>3. ASSUME NEW w \in Workers, NEW k \in Keys, Accept(t, w, k)
      PROVE  /\ \A y \in Coroutines \ {t} : co'[y] = co[y]
             /\ \A x \in Sockets \ {t} : link'[x] = link[x]
             /\ At(t, "new") /\ UNCHANGED clients
             /\ \/ co'[t].at = "authenticated"
                \/ co'[t].at = "over" /\ link'[t] = "down"
  <2>1. At(t, "new") /\ UNCHANGED clients /\ link[t] = "down"
    BY <1>3 DEF Accept, rooms, IdleAreDown
  <2>2. CASE link' = [link EXCEPT ![t] = "up"]
             /\ Become(t, [at |-> "authenticated", worker |-> w, key |-> k])
    BY <1>1, <1>2, <2>1, <2>2
  <2>3. CASE Become(t, Over) /\ UNCHANGED link
    BY <1>1, <2>1, <2>3 DEF Over
  <2> QED
    BY <1>3, <2>2, <2>3 DEF Accept
<1>4. CASE FindOrCreateSession(t)
  <2>1. At(t, "authenticated") /\ UNCHANGED clients
    BY <1>4 DEF FindOrCreateSession, rooms
  <2>2. ASSUME NEW s, UNCHANGED link,
               Become(t, [at |-> "greeting", worker |-> co[t].worker, key |-> co[t].key,
                          session |-> s,
                          says |-> [closed |-> FALSE,
                                    takeover |-> is_admin_present(co[t].worker, s)]])
        PROVE  /\ \A y \in Coroutines \ {t} : co'[y] = co[y]
               /\ UNCHANGED link /\ co'[t].at = "greeting"
    BY <1>1, <2>2
  <2>3. CASE Become(t, Over) /\ link' = [link EXCEPT ![t] = "down"]
    <3>1. co'[t] = Over /\ \A y \in Coroutines \ {t} : co'[y] = co[y]
      BY <1>1, <2>3
    <3>2. link'[t] = "down" /\ \A k \in Sockets \ {t} : link'[k] = link[k]
      BY <1>2, <2>3
    <3> QED
      BY <2>1, <3>1, <3>2 DEF Over, At
  <2>4. \/ Become(t, Over) /\ link' = [link EXCEPT ![t] = "down"]
        \/ /\ \A y \in Coroutines \ {t} : co'[y] = co[y]
           /\ UNCHANGED link /\ co'[t].at = "greeting"
    BY <1>4, <2>2 DEF FindOrCreateSession
  <2> QED
    BY <2>1, <2>3, <2>4 DEF At
<1>5. CASE Greet(t)
  <2>1. At(t, "greeting") /\ UNCHANGED <<clients, link>>
    BY <1>5 DEF Greet, rooms
  <2>2. /\ \A y \in Coroutines \ {t} : co'[y] = co[y]
        /\ co'[t].at = "joining" \/ (co'[t].at = "over" /\ link[t] = "down")
    BY <1>1, <1>5 DEF Greet, Over
  <2> QED
    BY <2>1, <2>2 DEF At
<1>6. CASE Join(t)
  <2>1. co'[t] = [co[t] EXCEPT !.at = "serving"]
    BY <1>1, <1>6 DEF Join
  <2>2. co'[t].at = "serving"
    BY <1>6, <2>1, TillFields DEF Join
  <2> QED
    BY <1>1, <1>6, <2>1, <2>2 DEF Join, At
<1>7. CASE TillLeaves(t)
  BY <1>1, <1>7 DEF TillLeaves, Over, At
<1>8. ASSUME NEW w \in Workers, NEW k \in Keys, Accept(t, w, k)
      PROVE  /\ ~At(t, "serving") /\ ~At(t, "over")
             /\ co'[t].at \notin {"serving", "new"}
  BY <1>3, <1>8 DEF At
<1> QED
  BY <1>3, <1>4, <1>5, <1>6, <1>7, <1>8 DEF TillStep

\* What any other step, short of a crash, does to a till: it may cut its connection,
\* and takes it out of a room only when the connection is cut.
LEMMA OthersMove ==
  ASSUME RolesOK, RoomsOK, CoroutinesAssumption, NEW t \in Tills,
         \/ TablesOnly \/ UNCHANGED vars
         \/ \E k \in Sockets : HangUp(k)
         \/ \E a \in Admins : AdminStep(a)
         \/ \E h \in Tasks : TaskStep(h)
         \/ \E x \in Coroutines : RoundStep(x)
  PROVE  /\ co'[t] = co[t]
         /\ link'[t] \in {link[t], "down"}
         /\ \A w \in Workers, s \in Sessions :
              /\ clients'[w][s] \subseteq clients[w][s]
              /\ t \in clients[w][s] \ clients'[w][s] => link'[t] = "down"
<1> DEFINE Fine ==
      /\ co'[t] = co[t]
      /\ link'[t] \in {link[t], "down"}
      /\ \A w \in Workers, s \in Sessions :
           /\ clients'[w][s] \subseteq clients[w][s]
           /\ t \in clients[w][s] \ clients'[w][s] => link'[t] = "down"
<1>0. t \in Sockets /\ t \in Coroutines
  BY DEF Sockets, Coroutines
<1>1. ASSUME NEW x \in Coroutines, NEW r, Become(x, r), x \notin Tills
      PROVE  co'[t] = co[t]
  BY <1>0, <1>1, Becoming
<1>2. ASSUME NEW k \in Sockets, link' = [link EXCEPT ![k] = "down"]
      PROVE  link'[t] \in {link[t], "down"} /\ (t = k => link'[t] = "down")
  BY <1>0, <1>2 DEF RoomsOK
<1>3. CASE TablesOnly \/ UNCHANGED vars
  BY <1>3 DEF TablesOnly, CreateCounter, ConnectOverHttp, live, vars
<1>4. ASSUME NEW k \in Sockets, HangUp(k)
      PROVE  Fine
  BY <1>2, <1>4 DEF HangUp, rooms
<1>5. ASSUME NEW a \in Admins, AdminStep(a)
      PROVE  Fine
  <2>1. a \in Coroutines /\ a \notin Tills
    BY DEF Sockets, Coroutines, CoroutinesAssumption
  <2>2. co'[t] = co[t]
    BY <1>1, <1>5, <2>1, AdminTypes
  <2>3. UNCHANGED clients
    BY <1>5 DEF AdminStep, AdminEnters, AdminGreeted, AnnouncePresence, AdminEdits,
       AdminCancels, AdminLeaves, rooms, live
  <2>4. link'[t] = link[t]
    BY <1>0, <1>5, <2>1 DEF AdminStep, AdminEnters, AdminGreeted, AnnouncePresence, AdminEdits,
       AdminCancels, AdminLeaves, live, RoomsOK
  <2> QED
    BY <2>2, <2>3, <2>4
<1>6. ASSUME NEW h \in Tasks, TaskStep(h)
      PROVE  Fine
  <2>1. h \in Coroutines /\ h \notin Tills
    BY DEF Coroutines, CoroutinesAssumption
  <2>2. co'[t] = co[t]
    BY <1>1, <1>6, <2>1, TaskTypes
  <2>3. UNCHANGED live
    BY <1>6 DEF TaskStep, UpdateCart, Pay, Rotate, ListOpenSessions, RunTask
  <2> QED
    BY <2>2, <2>3 DEF live
<1>7. ASSUME NEW x \in Coroutines, RoundStep(x)
      PROVE  Fine
  <2>1. x \notin Tills
    BY <1>7, RoundTypes DEF CoroutinesAssumption
  <2>2. co'[t] = co[t]
    BY <1>1, <1>7, <2>1, RoundTypes
  <2>3. CASE UNCHANGED live
    BY <2>2, <2>3 DEF live
  <2>4. CASE SendNext(x) \/ DropNext(x)
    <3>1. /\ co[x].worker \in Workers /\ co[x].session \in Sessions
          /\ co[x].targets \subseteq Sockets
      <4>1. At(x, "announcing") \/ At(x, "dropping")
        BY <2>4 DEF SendNext, DropNext
      <4> QED
        BY <4>1, RoundFields DEF Announcements, Drops, Sockets
    <3>2. PICK k \in Sockets :
            \/ Send(co[x].worker, co[x].session, k, co[x].says)
            \/ Drop(co[x].worker, co[x].session, k)
      BY <2>4, <3>1 DEF SendNext, DropNext, FirstOf
    <3>3. CASE UNCHANGED <<rooms, link>>
      BY <2>2, <3>3 DEF rooms
    <3>4. CASE /\ unregister_client(co[x].worker, co[x].session, k)
               /\ \/ UNCHANGED link /\ link[k] = "down"
                  \/ link' = [link EXCEPT ![k] = "down"]
      <4>0. PICK w \in Workers, s \in Sessions : w = co[x].worker /\ s = co[x].session
        BY <3>1
      <4>1. /\ clients'[w][s] = clients[w][s] \ {k}
            /\ \A v \in Workers, z \in Sessions :
                 v # w \/ z # s => clients'[v][z] = clients[v][z]
        <5>1. unregister_client(w, s, k)
          BY <3>4, <4>0 DEF unregister_client
        <5> QED
          BY <5>1, Unregistered
      <4>2. link'[t] \in {link[t], "down"} /\ (t = k => link'[t] = "down")
        BY <1>2, <3>4
      <4> QED
        BY <2>2, <4>1, <4>2
    <3> QED
      BY <3>2, <3>3, <3>4 DEF Send, Drop, sockets
  <2> QED
    BY <1>7, <2>3, <2>4 DEF RoundStep, EndAnnouncement, EndDrop
<1> QED
  BY <1>3, <1>4, <1>5, <1>6, <1>7

\* What a crash does: it ends the coroutines of one worker and cuts their
\* connections, and empties that worker's rooms.
LEMMA CrashMoves ==
  ASSUME RolesOK, RoomsOK, CoroutinesAssumption, NEW w \in Workers, WorkerDies(w)
  PROVE  /\ \A v \in Workers, s \in Sessions :
              clients'[v][s] = IF v = w THEN {} ELSE clients[v][s]
         /\ UNCHANGED tables
         /\ \A x \in Coroutines :
              \/ co'[x] = co[x]
              \/ co[x].worker = w /\ co'[x] = IF x \in Tasks THEN New ELSE Over
         /\ \A t \in Tills :
              \/ /\ co'[t] = co[t] /\ link'[t] = link[t]
                 /\ At(t, "serving") => co[t].worker # w
              \/ co'[t] = Over /\ link'[t] = "down" /\ co[t].worker = w
<1> DEFINE lost == {x \in Sockets \cup Tasks : ~At(x, "new") /\ ~At(x, "over")
                                                 /\ co[x].worker = w}
<1>1. /\ co' = [x \in DOMAIN co |->
                   IF x \notin lost THEN co[x] ELSE IF x \in Tasks THEN New ELSE Over]
      /\ link' = [k \in Sockets |-> IF k \in lost THEN "down" ELSE link[k]]
      /\ clients' = [clients EXCEPT ![w] = [s \in Sessions |-> {}]]
      /\ UNCHANGED tables
  BY DEF WorkerDies
<1>2. DOMAIN co = Coroutines
  BY DEF RolesOK
<1>3. \A v \in Workers, s \in Sessions :
        clients'[v][s] = IF v = w THEN {} ELSE clients[v][s]
  BY <1>1 DEF RoomsOK
<1>4. ASSUME NEW t \in Tills
      PROVE  \/ /\ co'[t] = co[t] /\ link'[t] = link[t]
                /\ At(t, "serving") => co[t].worker # w
             \/ co'[t] = Over /\ link'[t] = "down" /\ co[t].worker = w
  <2>1. t \in Sockets /\ t \in Coroutines /\ t \notin Tasks
    BY DEF Sockets, Coroutines, CoroutinesAssumption
  <2>2. CASE t \in lost
    BY <1>1, <1>2, <2>1, <2>2
  <2>3. CASE t \notin lost
    <3>1. co'[t] = co[t] /\ link'[t] = link[t]
      BY <1>1, <1>2, <2>1, <2>3
    <3>2. At(t, "serving") => co[t].worker # w
      BY <2>1, <2>3 DEF At
    <3> QED
      BY <3>1, <3>2
  <2> QED
    BY <2>2, <2>3
<1>5. \A x \in Coroutines :
        \/ co'[x] = co[x]
        \/ co[x].worker = w /\ co'[x] = IF x \in Tasks THEN New ELSE Over
  BY <1>1, <1>2
<1> QED
  BY <1>1, <1>3, <1>4, <1>5

\* A till out of a handshake or done stays disconnected.
LEMMA IdleNext ==
  ASSUME RolesOK, RoomsOK, IdleAreDown, [Next]_vars
  PROVE  IdleAreDown'
<1> SUFFICES ASSUME NEW t \in Tills, co'[t].at \in {"new", "over"} PROVE link'[t] = "down"
  BY DEF IdleAreDown, At
<1>0. CoroutinesAssumption
  BY CoroutinesAssumption
<1>1. CASE co'[t] = co[t] /\ link'[t] \in {link[t], "down"}
  BY <1>1 DEF IdleAreDown, At
<1>2. ASSUME NEW u \in Tills, TillStep(u)
      PROVE  link'[t] = "down"
  <2>1. CASE u = t
    BY <1>2, <2>1, TillMoves
  <2>2. CASE u # t
    BY <1>1, <1>2, <2>2, TillMoves DEF Coroutines, Sockets
  <2> QED
    BY <2>1, <2>2
<1>3. ASSUME NEW w \in Workers, WorkerDies(w)
      PROVE  link'[t] = "down"
  BY <1>0, <1>1, <1>3, CrashMoves
<1>4. CASE \/ TablesOnly \/ UNCHANGED vars
           \/ \E k \in Sockets : HangUp(k)
           \/ \E a \in Admins : AdminStep(a)
           \/ \E h \in Tasks : TaskStep(h)
           \/ \E x \in Coroutines : RoundStep(x)
  BY <1>0, <1>1, <1>4, OthersMove
<1> QED
  BY <1>2, <1>3, <1>4, StepCases

\* Every step keeps rooms and served tills in agreement.
LEMMA ServedNext ==
  ASSUME RolesOK, RoomsOK, IdleAreDown, ClientsAreServed, [Next]_vars
  PROVE  ClientsAreServed'
<1> DEFINE Serves(r, w, s) == r.at = "serving" /\ r.worker = w /\ r.session = s
<1> SUFFICES ASSUME NEW w \in Workers, NEW s \in Sessions, NEW t \in Tills
             PROVE  /\ t \in clients'[w][s] => Serves(co'[t], w, s)
                    /\ Serves(co'[t], w, s) /\ link'[t] = "up" => t \in clients'[w][s]
  BY DEF ClientsAreServed, Serving, At
<1>0. CoroutinesAssumption
  BY CoroutinesAssumption
<1>1. /\ t \in clients[w][s] => Serves(co[t], w, s)
      /\ Serves(co[t], w, s) /\ link[t] = "up" => t \in clients[w][s]
  BY DEF ClientsAreServed, Serving, At
<1>2. CASE /\ co'[t] = co[t] /\ link'[t] \in {link[t], "down"}
           /\ t \in clients'[w][s] => t \in clients[w][s]
           /\ t \in clients[w][s] => t \in clients'[w][s] \/ link'[t] = "down"
  <2>1. link'[t] = "up" => link[t] = "up"
    BY <1>2
  <2> QED
    BY <1>1, <1>2, <2>1
<1>3. CASE TillStep(t)
  <2>1. CASE /\ At(t, "joining") /\ register_client(co[t].worker, co[t].session, t)
             /\ co'[t] = [co[t] EXCEPT !.at = "serving"]
    <3>1. co[t] \in [at : {"joining", "serving"}, worker : Workers, key : Keys,
                     session : Sessions]
      BY <2>1, TillFields
    <3>2. /\ co'[t].at = "serving" /\ co'[t].worker = co[t].worker
          /\ co'[t].session = co[t].session
      BY <2>1, <3>1
    <3>3. clients'[w][s] = IF w = co[t].worker /\ s = co[t].session
                           THEN clients[w][s] \cup {t} ELSE clients[w][s]
      <4>1. PICK v \in Workers, z \in Sessions : v = co[t].worker /\ z = co[t].session
        BY <3>1
      <4>2. register_client(v, z, t)
        BY <2>1, <4>1 DEF register_client
      <4>3. /\ clients'[v][z] = clients[v][z] \cup {t}
            /\ \A x \in Workers, y \in Sessions :
                 x # v \/ y # z => clients'[x][y] = clients[x][y]
        BY <4>2, Registered
      <4> QED
        BY <4>1, <4>3
    <3>4. t \notin clients[w][s]
      BY <1>1, <2>1 DEF At
    <3> QED
      BY <3>2, <3>3, <3>4
  <2>2. CASE /\ At(t, "serving") /\ unregister_client(co[t].worker, co[t].session, t)
             /\ co'[t].at = "over"
    <3>1. co[t] \in [at : {"joining", "serving"}, worker : Workers, key : Keys,
                     session : Sessions]
      BY <2>2, TillFields
    <3>2. clients'[w][s] = IF w = co[t].worker /\ s = co[t].session
                           THEN clients[w][s] \ {t} ELSE clients[w][s]
      <4>1. PICK v \in Workers, z \in Sessions : v = co[t].worker /\ z = co[t].session
        BY <3>1
      <4>2. unregister_client(v, z, t)
        BY <2>2, <4>1 DEF unregister_client
      <4>3. /\ clients'[v][z] = clients[v][z] \ {t}
            /\ \A x \in Workers, y \in Sessions :
                 x # v \/ y # z => clients'[x][y] = clients[x][y]
        BY <4>2, Unregistered
      <4> QED
        BY <4>1, <4>3
    <3>3. t \notin clients'[w][s]
      BY <1>1, <3>2
    <3> QED
      BY <2>2, <3>3
  <2>3. CASE ~At(t, "serving") /\ co'[t].at # "serving" /\ UNCHANGED clients
    BY <1>1, <2>3 DEF At
  <2> QED
    BY <1>3, <2>1, <2>2, <2>3, TillMoves
<1>4. ASSUME NEW u \in Tills, u # t, TillStep(u)
      PROVE  /\ t \in clients'[w][s] => Serves(co'[t], w, s)
             /\ Serves(co'[t], w, s) /\ link'[t] = "up" => t \in clients'[w][s]
  <2>1. co'[t] = co[t] /\ link'[t] = link[t]
    BY <1>4, TillMoves DEF Coroutines, Sockets
  <2>2. t \in clients'[w][s] <=> t \in clients[w][s]
    <3>1. CASE UNCHANGED clients
      BY <3>1
    <3>2. CASE \/ At(u, "joining") /\ register_client(co[u].worker, co[u].session, u)
               \/ At(u, "serving") /\ unregister_client(co[u].worker, co[u].session, u)
      <4>1. co[u].worker \in Workers /\ co[u].session \in Sessions
        BY <3>2, TillFields
      <4>2. PICK v \in Workers, z \in Sessions : v = co[u].worker /\ z = co[u].session
        BY <4>1
      <4>3. register_client(v, z, u) \/ unregister_client(v, z, u)
        BY <3>2, <4>2 DEF register_client, unregister_client
      <4> QED
        BY <1>4, <4>3, Registered, Unregistered
    <3> QED
      BY <1>4, <3>1, <3>2, TillMoves
  <2> QED
    BY <1>2, <2>1, <2>2
<1>5. ASSUME NEW v \in Workers, WorkerDies(v)
      PROVE  /\ t \in clients'[w][s] => Serves(co'[t], w, s)
             /\ Serves(co'[t], w, s) /\ link'[t] = "up" => t \in clients'[w][s]
  <2>1. clients'[w][s] = IF w = v THEN {} ELSE clients[w][s]
    BY <1>0, <1>5, CrashMoves
  <2>2. CASE co'[t] = co[t] /\ link'[t] = link[t] /\ (At(t, "serving") => co[t].worker # v)
    BY <1>1, <2>1, <2>2 DEF At
  <2>3. CASE co'[t] = Over /\ link'[t] = "down" /\ co[t].worker = v
    <3>1. t \notin clients'[w][s]
      BY <1>1, <2>1, <2>3
    <3> QED
      BY <2>3, <3>1 DEF Over
  <2> QED
    BY <1>0, <1>5, <2>2, <2>3, CrashMoves
<1>6. CASE \/ TablesOnly \/ UNCHANGED vars
           \/ \E k \in Sockets : HangUp(k)
           \/ \E a \in Admins : AdminStep(a)
           \/ \E h \in Tasks : TaskStep(h)
           \/ \E x \in Coroutines : RoundStep(x)
  BY <1>0, <1>2, <1>6, OthersMove
<1> QED
  BY <1>3, <1>4, <1>5, <1>6, StepCases
-----------------------------------------------------------------------------
\* The tables keep their shape, and a key that exists belongs to a counter.
TablesOK ==
  /\ counters \in [Counters -> {"none", "live"}]
  /\ sessions \in [Sessions -> [phase : {"none", "open", "closed"},
                                counter : Counters \cup {NoCounter}]]
  /\ keys \in [Keys -> [phase : {"none", "active", "revoked"},
                        counter : Counters \cup {NoCounter}]]
  /\ \A k \in Keys : keys[k].phase # "none" => keys[k].counter \in Counters

\* Every live counter has a usable key: a rotation always revokes one.
LiveHaveKeys ==
  \A c \in Counters : counters[c] = "live" =>
    \E k \in Keys : keys[k].phase = "active" /\ keys[k].counter = c

\* What a till authenticated with exists.
KeysAreKnown == \A t \in Tills : At(t, "authenticated") => keys[co[t].key].phase # "none"

RevokedFor(c) == \E k \in Keys : keys[k].phase = "revoked" /\ keys[k].counter = c
Reason(s) == /\ sessions[s].phase # "none"
             /\ Closed(s) \/ RevokedFor(sessions[s].counter)

\* Sessions and keys that exist keep their counter; closed and revoked is for good.
TablesGrow ==
  /\ \A s \in Sessions : sessions[s].phase # "none" =>
       /\ sessions'[s].phase # "none" /\ sessions'[s].counter = sessions[s].counter
       /\ sessions[s].phase = "closed" => sessions'[s].phase = "closed"
  /\ \A k \in Keys : keys[k].phase # "none" =>
       /\ keys'[k].phase # "none" /\ keys'[k].counter = keys[k].counter
       /\ keys[k].phase = "revoked" => keys'[k].phase = "revoked"

\* Only four operations of the promise change the tables.
TablesStep ==
  \/ UNCHANGED tables
  \/ \E c \in Counters, k \in Keys : DB!Establish(c, k) \/ DB!Rotate(c, k)
  \/ \E c \in Counters, s \in Sessions : DB!OpenSession(c, s)
  \/ \E s \in Sessions : DB!CloseOpen(s)

\* What a rotation does to the keys.
LEMMA Rotating ==
  ASSUME TablesOK, LiveHaveKeys, NEW c \in Counters, NEW n \in Keys, DB!Rotate(c, n)
  PROVE  /\ TablesOK' /\ LiveHaveKeys' /\ TablesGrow /\ RevokedFor(c)'
<1>1. /\ counters[c] = "live" /\ keys[n].phase = "none"
      /\ UNCHANGED <<counters, sessions>>
  BY DEF DB!Rotate
<1>2. \A k \in Keys : k \in DB!UsableKeys(c) <=> keys[k].phase = "active" /\ keys[k].counter = c
  BY DEF DB!UsableKeys, TablesOK
<1>3. ASSUME NEW k \in Keys
      PROVE  [keys[k] EXCEPT !.phase = "revoked"] = [phase |-> "revoked", counter |-> keys[k].counter]
  BY DEF TablesOK
<1>4. keys' = [k \in Keys |-> IF k = n THEN [phase |-> "active", counter |-> c]
                              ELSE IF keys[k].phase = "active" /\ keys[k].counter = c
                                   THEN [phase |-> "revoked", counter |-> keys[k].counter]
                                   ELSE keys[k]]
  BY <1>2, <1>3 DEF DB!Rotate
<1>5. /\ keys' \in [Keys -> [phase : {"none", "active", "revoked"},
                             counter : Counters \cup {NoCounter}]]
      /\ \A k \in Keys : keys'[k].phase # "none" => keys'[k].counter \in Counters
  BY <1>4 DEF TablesOK
<1>6. TablesOK'
  BY <1>1, <1>5 DEF TablesOK
<1>7. keys'[n].phase = "active" /\ keys'[n].counter = c
  BY <1>4
<1>8. \A k \in Keys \ {n} : keys'[k].counter = keys[k].counter
                            /\ keys'[k].phase = IF keys[k].phase = "active" /\ keys[k].counter = c
                                                THEN "revoked" ELSE keys[k].phase
  BY <1>4
<1>9. TablesGrow
  BY <1>1, <1>8 DEF TablesGrow
<1>10. LiveHaveKeys'
  BY <1>1, <1>7, <1>8 DEF LiveHaveKeys
<1>11. RevokedFor(c)'
  BY <1>1, <1>8 DEF LiveHaveKeys, RevokedFor
<1> QED
  BY <1>6, <1>9, <1>10, <1>11

\* Every operation keeps the tables in shape, and what exists as it is.
LEMMA TablesNext ==
  ASSUME TablesOK, LiveHaveKeys, TablesStep
  PROVE  TablesOK' /\ LiveHaveKeys' /\ TablesGrow
<1>1. CASE UNCHANGED tables
  BY <1>1 DEF tables, TablesOK, LiveHaveKeys, TablesGrow
<1>2. ASSUME NEW c \in Counters, NEW n \in Keys, DB!Establish(c, n)
      PROVE  TablesOK' /\ LiveHaveKeys' /\ TablesGrow
  <2>1. /\ keys[n].phase = "none" /\ UNCHANGED sessions
        /\ counters' = [counters EXCEPT ![c] = "live"]
        /\ keys' = [keys EXCEPT ![n] = [phase |-> "active", counter |-> c]]
    BY <1>2 DEF DB!Establish
  <2>2. /\ keys'[n].phase = "active" /\ keys'[n].counter = c
        /\ \A k \in Keys \ {n} : keys'[k] = keys[k]
    BY <2>1 DEF TablesOK
  <2>3. \A d \in Counters : counters'[d] = IF d = c THEN "live" ELSE counters[d]
    BY <2>1 DEF TablesOK
  <2>4. TablesOK'
    BY <2>1, <2>2 DEF TablesOK
  <2>5. LiveHaveKeys'
    BY <2>1, <2>2, <2>3 DEF LiveHaveKeys
  <2> QED
    BY <2>1, <2>2, <2>4, <2>5 DEF TablesGrow
<1>3. ASSUME NEW c \in Counters, NEW n \in Keys, DB!Rotate(c, n)
      PROVE  TablesOK' /\ LiveHaveKeys' /\ TablesGrow
  BY <1>3, Rotating
<1>4. ASSUME NEW c \in Counters, NEW s \in Sessions, DB!OpenSession(c, s)
      PROVE  TablesOK' /\ LiveHaveKeys' /\ TablesGrow
  <2>1. /\ sessions[s].phase = "none" /\ UNCHANGED <<counters, keys>>
        /\ sessions' = [sessions EXCEPT ![s] = [phase |-> "open", counter |-> c]]
    BY <1>4 DEF DB!OpenSession
  <2>2. \A z \in Sessions \ {s} : sessions'[z] = sessions[z]
    BY <2>1 DEF TablesOK
  <2> QED
    BY <2>1, <2>2 DEF TablesOK, LiveHaveKeys, TablesGrow
<1>5. ASSUME NEW s \in Sessions, DB!CloseOpen(s)
      PROVE  TablesOK' /\ LiveHaveKeys' /\ TablesGrow
  <2>1. /\ sessions[s].phase = "open" /\ UNCHANGED <<counters, keys>>
        /\ sessions' = [sessions EXCEPT ![s] = [sessions[s] EXCEPT !.phase = "closed"]]
    BY <1>5 DEF DB!CloseOpen
  <2>2. \A z \in Sessions \ {s} : sessions'[z] = sessions[z]
    BY <2>1 DEF TablesOK
  <2>3. sessions'[s].phase = "closed" /\ sessions'[s].counter = sessions[s].counter
    BY <2>1 DEF TablesOK
  <2>4. TablesOK'
    BY <2>1 DEF TablesOK
  <2> QED
    BY <2>1, <2>2, <2>3, <2>4 DEF LiveHaveKeys, TablesGrow
<1> QED
  BY <1>1, <1>2, <1>3, <1>4, <1>5 DEF TablesStep

\* A payment or cancellation closes the session.
LEMMA Closing ==
  ASSUME TablesOK, NEW s \in Sessions, DB!CloseOpen(s)
  PROVE  Reason(s)'
<1>1. sessions' = [sessions EXCEPT ![s] = [sessions[s] EXCEPT !.phase = "closed"]]
  BY DEF DB!CloseOpen
<1>2. sessions'[s].phase = "closed"
  BY <1>1 DEF TablesOK
<1> QED
  BY <1>2 DEF Reason, Closed

\* Every step of the live system is one operation on the tables, or none.
LEMMA TablesMove ==
  ASSUME RolesOK, TablesOK, KeysAreKnown, [Next]_vars
  PROVE  TablesStep
<1>1. CASE UNCHANGED vars
  BY <1>1 DEF vars, tables, TablesStep
<1>2. CASE TablesOnly
  BY <1>2 DEF TablesOnly, CreateCounter, ConnectOverHttp, TablesStep
<1>3. ASSUME NEW k \in Sockets, HangUp(k)
      PROVE  TablesStep
  BY <1>3 DEF HangUp, TablesStep
<1>4. ASSUME NEW w \in Workers, WorkerDies(w)
      PROVE  TablesStep
  BY <1>4 DEF WorkerDies, TablesStep
<1>5. ASSUME NEW t \in Tills, TillStep(t)
      PROVE  TablesStep
  <2>1. CASE FindOrCreateSession(t)
    <3>1. keys[co[t].key].counter \in Counters
      BY <2>1, TillFields DEF FindOrCreateSession, KeysAreKnown, TablesOK
    <3> QED
      BY <2>1, <3>1 DEF FindOrCreateSession, TablesStep
  <2>2. CASE \/ \E w \in Workers, k \in Keys : Accept(t, w, k)
             \/ Greet(t) \/ Join(t) \/ TillLeaves(t)
    BY <2>2 DEF Accept, Greet, Join, TillLeaves, TablesStep
  <2> QED
    BY <1>5, <2>1, <2>2 DEF TillStep
<1>6. ASSUME NEW a \in Admins, AdminStep(a)
      PROVE  TablesStep
  <2>1. CASE AdminCancels(a)
    <3>1. co[a].session \in Sessions
      BY <2>1, AdminFields DEF AdminCancels
    <3> QED
      BY <2>1, <3>1 DEF AdminCancels, TablesStep
  <2>2. CASE \/ \E w \in Workers, s \in Sessions : AdminEnters(a, w, s)
             \/ AdminGreeted(a) \/ AnnouncePresence(a) \/ AdminEdits(a) \/ AdminLeaves(a)
    BY <2>2 DEF AdminEnters, AdminGreeted, AnnouncePresence, AdminEdits, AdminLeaves, TablesStep
  <2> QED
    BY <1>6, <2>1, <2>2 DEF AdminStep
<1>7. ASSUME NEW h \in Tasks, TaskStep(h)
      PROVE  TablesStep
  BY <1>7 DEF TaskStep, UpdateCart, Pay, Rotate, ListOpenSessions, RunTask, TablesStep
<1>8. ASSUME NEW x \in Coroutines, RoundStep(x)
      PROVE  TablesStep
  BY <1>8 DEF RoundStep, SendNext, EndAnnouncement, DropNext, EndDrop, TablesStep
<1> QED
  BY <1>1, <1>2, <1>3, <1>4, <1>5, <1>6, <1>7, <1>8, StepCases

\* A key a till has authenticated with does not disappear.
LEMMA KnownNext ==
  ASSUME RolesOK, RoomsOK, IdleAreDown, TablesOK, KeysAreKnown, TablesGrow, [Next]_vars
  PROVE  KeysAreKnown'
<1> SUFFICES ASSUME NEW t \in Tills, co'[t].at = "authenticated"
             PROVE  keys'[co'[t].key].phase # "none"
  BY DEF KeysAreKnown, At
<1>0. CoroutinesAssumption
  BY CoroutinesAssumption
<1>1. CASE co'[t] = co[t]
  <2>1. keys[co[t].key].phase # "none" /\ co[t].key \in Keys
    BY <1>1, TillFields DEF KeysAreKnown, At
  <2> QED
    BY <1>1, <2>1 DEF TablesGrow
<1>2. ASSUME NEW u \in Tills, u # t, TillStep(u)
      PROVE  co'[t] = co[t]
  BY <1>2, TillMoves DEF Coroutines, Sockets
<1>3. CASE TillStep(t)
  <2>0. \A r : Become(t, r) => co'[t] = r
    BY Becoming DEF Coroutines, Sockets
  <2>1. ASSUME NEW w \in Workers, NEW k \in Keys, Accept(t, w, k)
        PROVE  keys'[co'[t].key].phase # "none"
    <3>1. CASE keys[k].phase = "active"
               /\ Become(t, [at |-> "authenticated", worker |-> w, key |-> k])
      BY <2>0, <3>1 DEF TablesGrow
    <3>2. CASE Become(t, Over)
      BY <2>0, <3>2 DEF Over
    <3> QED
      BY <2>1, <3>1, <3>2 DEF Accept
  <2>2. ~FindOrCreateSession(t)
    <3>1. SUFFICES ASSUME FindOrCreateSession(t) PROVE FALSE
      OBVIOUS
    <3>2. PICK r : Become(t, r) /\ r.at # "authenticated"
      <4>1. ASSUME NEW s, NEW n,
                   Become(t, [at |-> "greeting", worker |-> co[t].worker, key |-> co[t].key,
                              session |-> s, says |-> n])
            PROVE  \E r : Become(t, r) /\ r.at # "authenticated"
        BY <4>1
      <4>2. Become(t, Over) => \E r : Become(t, r) /\ r.at # "authenticated"
        BY DEF Over
      <4> QED
        BY <3>1, <4>1, <4>2 DEF FindOrCreateSession
    <3> QED
      BY <2>0, <3>2
  <2>3. ~Greet(t)
    BY <2>0 DEF Greet, Over
  <2>4. ~Join(t)
    <3>1. SUFFICES ASSUME Join(t) PROVE FALSE
      OBVIOUS
    <3>2. co'[t].at = "serving"
      BY <2>0, <3>1, TillFields DEF Join
    <3> QED
      BY <3>2
  <2>5. ~TillLeaves(t)
    BY <2>0 DEF TillLeaves, Over
  <2> QED
    BY <1>3, <2>1, <2>2, <2>3, <2>4, <2>5 DEF TillStep
<1>4. ASSUME NEW w \in Workers, WorkerDies(w)
      PROVE  co'[t] = co[t]
  BY <1>0, <1>4, CrashMoves DEF Over
<1>5. CASE \/ TablesOnly \/ UNCHANGED vars
           \/ \E k \in Sockets : HangUp(k)
           \/ \E a \in Admins : AdminStep(a)
           \/ \E h \in Tasks : TaskStep(h)
           \/ \E x \in Coroutines : RoundStep(x)
  BY <1>0, <1>1, <1>5, OthersMove
<1> QED
  BY <1>1, <1>2, <1>3, <1>4, <1>5, StepCases

\* Rooms, roles and tables together: what the following theorems start from.
Ground == /\ RolesOK /\ RoomsOK /\ IdleAreDown /\ ClientsAreServed
          /\ TablesOK /\ LiveHaveKeys /\ KeysAreKnown

LEMMA GroundNext ==
  ASSUME Ground, [Next]_vars
  PROVE  Ground' /\ TablesStep /\ TablesGrow
<1>1. TablesStep
  BY TablesMove DEF Ground
<1>2. TablesOK' /\ LiveHaveKeys' /\ TablesGrow
  BY <1>1, TablesNext DEF Ground
<1>3. RolesOK' /\ RoomsOK'
  BY RolesNext DEF Ground
<1>4. IdleAreDown' /\ ClientsAreServed'
  BY IdleNext, ServedNext DEF Ground
<1>5. KeysAreKnown'
  BY <1>2, KnownNext DEF Ground
<1> QED
  BY <1>1, <1>2, <1>3, <1>4, <1>5 DEF Ground

LEMMA GroundInit == Init => Ground
<1> SUFFICES ASSUME Init PROVE Ground
  OBVIOUS
<1>1. \A t \in Tills : link[t] = "down" /\ co[t] = New
  BY DEF Init, NobodyWatches, Sockets
<1>2. \A w \in Workers, s \in Sessions : clients[w][s] = {}
  BY DEF Init, NobodyWatches
<1>3. IdleAreDown /\ ClientsAreServed /\ KeysAreKnown
  BY <1>1, <1>2 DEF IdleAreDown, ClientsAreServed, KeysAreKnown, At, New
<1>4. TablesOK /\ LiveHaveKeys
  BY DEF Init, DB!Init, TablesOK, LiveHaveKeys
<1> QED
  BY <1>3, <1>4, RolesInit DEF Ground

LEMMA GroundCorrect == Spec => []Ground
<1>1. Ground /\ [Next]_vars => Ground'
  BY GroundNext
<1> QED
  BY <1>1, GroundInit, PTL DEF Spec

\* A till is in a room exactly as long as a handler of that worker serves it for
\* that session (ws.py:76, 105-111; ws_manager.py:15-30, 50-58, 74-79).
THEOREM RoomsAgree == Spec => []ClientsAreServed
<1>1. Ground => ClientsAreServed
  BY DEF Ground
<1> QED
  BY <1>1, GroundCorrect, PTL

\* Counters, sessions and keys change under the live system only as CheckoutPromise
\* says, whichever handlers, tasks and crashes come between (crud.py, ws.py).
THEOREM TablesFollowPromise == Spec => DB!Spec
<1>1. Init => DB!Init
  BY DEF Init
<1>2. TablesStep => [DB!Next]_tables
  BY DEF TablesStep, DB!Next
<1>3. Ground /\ [Next]_vars => [DB!Next]_tables
  BY <1>2, GroundNext
<1> QED
  BY <1>1, <1>3, GroundCorrect, PTL DEF Spec, DB!Spec, DB!promised, tables
-----------------------------------------------------------------------------
\* Every job to disconnect tills has a reason, from the commit that gives it to
\* the last socket it closes.
JobHolds(r) ==
  /\ r.at = "rotated" => RevokedFor(r.counter)
  /\ r.at = "scheduled" /\ r.job \in {"pay", "drop"} => Reason(r.session)
  /\ r.at = "announcing" /\ r.drop = TRUE => Reason(r.session)
  /\ r.at = "dropping" => Reason(r.session)
JobsHaveAReason == \A x \in Coroutines : JobHolds(co[x])

\* Whom a coroutine is about to disconnect is being served by the same worker for
\* that session, or gone already: copies of a room get old, but never wrong.
TargetsAreServed ==
  \A x \in Coroutines : At(x, "dropping") =>
    \A t \in co[x].targets :
      At(t, "over") \/ Serving(t, co[x].worker, co[x].session)

\* A reason stays one.
LEMMA ReasonsStay ==
  ASSUME TablesGrow
  PROVE  /\ \A c : RevokedFor(c) => RevokedFor(c)'
         /\ \A s \in Sessions : Reason(s) => Reason(s)'
<1>1. \A c : RevokedFor(c) => RevokedFor(c)'
  BY DEF RevokedFor, TablesGrow
<1>2. \A s \in Sessions : sessions[s].phase # "none" =>
        sessions'[s].phase # "none" /\ sessions'[s].counter = sessions[s].counter
  BY DEF TablesGrow
<1>3. \A s \in Sessions : Closed(s) => Closed(s)'
  BY DEF TablesGrow, Closed
<1> QED
  BY <1>1, <1>2, <1>3 DEF Reason

\* What a coroutine that goes on does with its job: it takes one up that has a
\* reason, hands on the one it has, or has none.
LEMMA TillJobs ==
  ASSUME RolesOK, RoomsOK, IdleAreDown, NEW t \in Tills, TillStep(t)
  PROVE  JobHolds(co[t])'
<1>2. \E r \in TillCoroutine : Become(t, r)
  BY TillTypes
<1>3. co'[t] \in TillCoroutine
  BY <1>2, Becoming DEF Coroutines, Sockets
<1>4. co'[t].at \notin {"rotated", "scheduled", "announcing", "dropping"}
  BY <1>3 DEF TillCoroutine, New, Over
<1> QED
  BY <1>4 DEF JobHolds

LEMMA AdminJobs ==
  ASSUME RolesOK, TablesOK, NEW a \in Admins, AdminStep(a)
  PROVE  JobHolds(co[a])'
<1>1. \A r : Become(a, r) => co'[a] = r
  BY Becoming DEF Coroutines, Sockets
<1>2. ASSUME NEW r, Become(a, r), r.at \in {"greeting", "arrived", "departed", "over"}
      PROVE  JobHolds(co[a])'
  BY <1>1, <1>2 DEF JobHolds
<1>3. ASSUME NEW closed, NEW to_clients, NEW back,
             Become(a, Announcing(co[a].worker, co[a].session, closed, to_clients, FALSE, back))
      PROVE  JobHolds(co[a])'
  BY <1>1, <1>3 DEF Announcing, JobHolds
<1>4. ASSUME NEW w \in Workers, NEW s \in Sessions, AdminEnters(a, w, s)
      PROVE  JobHolds(co[a])'
  BY <1>2, <1>4 DEF AdminEnters
<1>5. CASE AdminGreeted(a)
  BY <1>2, <1>5 DEF AdminGreeted, Over
<1>6. CASE AnnouncePresence(a)
  BY <1>3, <1>6 DEF AnnouncePresence
<1>7. CASE AdminEdits(a)
  BY <1>3, <1>7 DEF AdminEdits
<1>8. CASE AdminCancels(a)
  <2>1. PICK s \in Sessions : s = co[a].session
    BY <1>8, AdminFields DEF AdminCancels
  <2>2. Reason(s)'
    BY <1>8, <2>1, Closing DEF AdminCancels
  <2>3. /\ co'[a].at = "announcing" /\ co'[a].session = s
    BY <1>1, <1>8, <2>1 DEF AdminCancels, Announcing
  <2> QED
    BY <2>2, <2>3 DEF JobHolds
<1>9. CASE AdminLeaves(a)
  <2>1. co'[a].at = "departed"
    BY <1>1, <1>9, AdminFields DEF AdminLeaves
  <2> QED
    BY <2>1 DEF JobHolds
<1> QED
  BY <1>4, <1>5, <1>6, <1>7, <1>8, <1>9 DEF AdminStep

LEMMA TaskJobs ==
  ASSUME RolesOK, TablesOK, LiveHaveKeys, TablesGrow, JobsHaveAReason,
         NEW h \in Tasks, TaskStep(h)
  PROVE  JobHolds(co[h])'
<1>0. JobHolds(co[h])
  BY DEF JobsHaveAReason, Coroutines
<1>1. \A r : Become(h, r) => co'[h] = r
  BY Becoming DEF Coroutines
<1>2. ASSUME NEW w \in Workers, NEW s \in Sessions, UpdateCart(h, w, s)
      PROVE  JobHolds(co[h])'
  BY <1>1, <1>2 DEF UpdateCart, JobHolds
<1>3. ASSUME NEW w \in Workers, NEW s \in Sessions, Pay(h, w, s)
      PROVE  JobHolds(co[h])'
  <2>1. Reason(s)'
    BY <1>3, Closing DEF Pay
  <2>2. co'[h].at = "scheduled" /\ co'[h].session = s
    BY <1>1, <1>3 DEF Pay
  <2> QED
    BY <2>1, <2>2 DEF JobHolds
<1>4. ASSUME NEW w \in Workers, NEW c \in Counters, NEW k \in Keys, Rotate(h, w, c, k)
      PROVE  JobHolds(co[h])'
  <2>1. RevokedFor(c)'
    BY <1>4, Rotating DEF Rotate
  <2>2. co'[h].at = "rotated" /\ co'[h].counter = c
    BY <1>1, <1>4 DEF Rotate
  <2> QED
    BY <2>1, <2>2 DEF JobHolds
<1>5. CASE ListOpenSessions(h)
  <2>1. RevokedFor(co[h].counter) /\ UNCHANGED tables
    BY <1>0, <1>5 DEF ListOpenSessions, JobHolds, At
  <2>2. CASE Become(h, New)
    BY <1>1, <2>2 DEF New, JobHolds
  <2>3. ASSUME NEW s \in DB!OpenOf(co[h].counter),
               Become(h, [at |-> "scheduled", worker |-> co[h].worker, session |-> s,
                          job |-> "drop"])
        PROVE  JobHolds(co[h])'
    <3>1. /\ s \in Sessions /\ sessions[s].phase = "open"
          /\ sessions[s].counter = co[h].counter
      BY DEF DB!OpenOf
    <3>2. Reason(s)
      BY <2>1, <3>1 DEF Reason
    <3>3. Reason(s)'
      BY <3>1, <3>2, ReasonsStay
    <3>4. co'[h].at = "scheduled" /\ co'[h].session = s
      BY <1>1, <2>3
    <3> QED
      BY <3>3, <3>4 DEF JobHolds
  <2> QED
    BY <1>5, <2>2, <2>3 DEF ListOpenSessions
<1>6. CASE RunTask(h)
  <2>1. PICK s \in Sessions : s = co[h].session
    BY <1>6, TaskFields DEF RunTask
  <2>2. CASE Become(h, Announcing(co[h].worker, co[h].session, FALSE, TRUE, FALSE, "new"))
    BY <1>1, <2>2 DEF Announcing, JobHolds
  <2>3. ASSUME co[h].job \in {"pay", "drop"}
        PROVE  Reason(s)'
    <3>1. Reason(s)
      BY <1>0, <1>6, <2>1, <2>3 DEF RunTask, JobHolds, At
    <3> QED
      BY <3>1, ReasonsStay
  <2>4. CASE /\ co[h].job = "pay"
             /\ Become(h, Announcing(co[h].worker, co[h].session, TRUE, FALSE, TRUE, "new"))
    <3>1. co'[h].at = "announcing" /\ co'[h].session = s
      BY <1>1, <2>1, <2>4 DEF Announcing
    <3> QED
      BY <2>3, <2>4, <3>1 DEF JobHolds
  <2>5. CASE co[h].job = "drop" /\ Become(h, Dropping(co[h].worker, co[h].session, "new"))
    <3>1. co'[h].at = "dropping" /\ co'[h].session = s
      BY <1>1, <2>1, <2>5 DEF Dropping
    <3> QED
      BY <2>3, <2>5, <3>1 DEF JobHolds
  <2> QED
    BY <1>6, <2>2, <2>4, <2>5 DEF RunTask
<1> QED
  BY <1>2, <1>3, <1>4, <1>5, <1>6 DEF TaskStep

LEMMA RoundJobs ==
  ASSUME RolesOK, TablesGrow, JobsHaveAReason, NEW x \in Coroutines, RoundStep(x)
  PROVE  JobHolds(co[x])'
<1>0. JobHolds(co[x])
  BY DEF JobsHaveAReason
<1>1. \A r : Become(x, r) => co'[x] = r
  BY Becoming
<1>2. PICK backs \in {{"over", "serving"}, {"new"}} :
        co[x] \in Announcements(backs) \cup Drops(backs)
  <2>1. At(x, "announcing") \/ At(x, "dropping")
    BY DEF RoundStep, SendNext, EndAnnouncement, DropNext, EndDrop
  <2> QED
    BY <2>1, RoundFields
<1>3. PICK s \in Sessions : s = co[x].session
  BY <1>2 DEF Announcements, Drops
<1>4. CASE Resume(x)
  <2>1. co[x].back \in {"new", "over", "serving"}
    BY <1>2 DEF Announcements, Drops
  <2>2. co'[x].at \in {"new", "over", "serving"}
    BY <1>1, <1>4, <2>1 DEF Resume
  <2> QED
    BY <2>2 DEF JobHolds
<1>5. CASE SendNext(x)
  <2>1. PICK k : Become(x, [co[x] EXCEPT !.targets = co[x].targets \ {k}])
    BY <1>5 DEF SendNext
  <2>2. /\ co'[x].at = "announcing" /\ co'[x].session = s
        /\ co'[x].drop = TRUE => co[x].drop = TRUE
    <3>1. co[x] \in Announcements(backs)
      BY <1>2, <1>5 DEF SendNext, At, Drops
    <3> QED
      BY <1>1, <1>3, <2>1, <3>1 DEF Announcements
  <2>3. co'[x].drop = TRUE => Reason(s)'
    BY <1>0, <1>3, <1>5, <2>2, ReasonsStay DEF SendNext, JobHolds, At
  <2> QED
    BY <2>2, <2>3 DEF JobHolds
<1>6. CASE EndAnnouncement(x)
  <2>1. CASE co[x].drop /\ Become(x, Dropping(co[x].worker, co[x].session, co[x].back))
    <3>1. Reason(s)'
      BY <1>0, <1>3, <1>6, <2>1, ReasonsStay DEF EndAnnouncement, JobHolds, At
    <3>2. co'[x].at = "dropping" /\ co'[x].session = s
      BY <1>1, <1>3, <2>1 DEF Dropping
    <3> QED
      BY <3>1, <3>2 DEF JobHolds
  <2> QED
    BY <1>4, <1>6, <2>1 DEF EndAnnouncement
<1>7. CASE DropNext(x)
  <2>1. PICK k : Become(x, [co[x] EXCEPT !.targets = co[x].targets \ {k}])
    BY <1>7 DEF DropNext
  <2>2. co'[x].at = "dropping" /\ co'[x].session = s
    <3>1. co[x] \in Drops(backs)
      BY <1>2, <1>7 DEF DropNext, At, Announcements
    <3> QED
      BY <1>1, <1>3, <2>1, <3>1 DEF Drops
  <2>3. Reason(s)'
    BY <1>0, <1>3, <1>7, ReasonsStay DEF DropNext, JobHolds, At
  <2> QED
    BY <2>2, <2>3 DEF JobHolds
<1>8. CASE EndDrop(x)
  BY <1>4, <1>8 DEF EndDrop
<1> QED
  BY <1>5, <1>6, <1>7, <1>8 DEF RoundStep

\* The records that name a session name one of them.
LEMMA JobFields ==
  ASSUME RolesOK, NEW x \in Coroutines
  PROVE  At(x, "scheduled") \/ At(x, "announcing") \/ At(x, "dropping") =>
           co[x].session \in Sessions
<1>1. co[x].session \in Sessions \/ co[x].at \in {"new", "over", "authenticated", "rotated"}
  <2>1. co[x] \in TillCoroutine \cup AdminCoroutine \cup TaskCoroutine
    BY DEF RolesOK
  <2> QED
    BY <2>1 DEF TillCoroutine, AdminCoroutine, TaskCoroutine, Announcements, Drops, New, Over
<1> QED
  BY <1>1 DEF At

\* One coroutine at most goes on in a step; a crash only ends some.
LEMMA OneMoves ==
  ASSUME RolesOK, RoomsOK, [Next]_vars, NEW x \in Coroutines
  PROVE  \/ co'[x] = co[x]
         \/ /\ co'[x] = IF x \in Tasks THEN New ELSE Over
            /\ \E w \in Workers : WorkerDies(w) /\ co[x].worker = w
         \/ x \in Tills /\ TillStep(x)
         \/ x \in Admins /\ AdminStep(x)
         \/ x \in Tasks /\ TaskStep(x)
         \/ RoundStep(x)
<1>0. CoroutinesAssumption
  BY CoroutinesAssumption
<1>1. CASE UNCHANGED vars \/ TablesOnly \/ \E k \in Sockets : HangUp(k)
  BY <1>1 DEF vars, TablesOnly, CreateCounter, ConnectOverHttp, HangUp
<1>2. ASSUME NEW w \in Workers, WorkerDies(w)
      PROVE  \/ co'[x] = co[x]
             \/ co[x].worker = w /\ co'[x] = IF x \in Tasks THEN New ELSE Over
  BY <1>0, <1>2, CrashMoves
<1>3. ASSUME NEW y \in Coroutines, y # x, NEW r, Become(y, r)
      PROVE  co'[x] = co[x]
  BY <1>3, Becoming
<1>4. ASSUME NEW t \in Tills, TillStep(t), t # x
      PROVE  co'[x] = co[x]
  BY <1>3, <1>4, TillTypes DEF Coroutines, Sockets
<1>5. ASSUME NEW a \in Admins, AdminStep(a), a # x
      PROVE  co'[x] = co[x]
  BY <1>3, <1>5, AdminTypes DEF Coroutines, Sockets
<1>6. ASSUME NEW h \in Tasks, TaskStep(h), h # x
      PROVE  co'[x] = co[x]
  BY <1>3, <1>6, TaskTypes DEF Coroutines
<1>7. ASSUME NEW y \in Coroutines, RoundStep(y), y # x
      PROVE  co'[x] = co[x]
  BY <1>3, <1>7, RoundTypes
<1> QED
  BY <1>1, <1>2, <1>4, <1>5, <1>6, <1>7, StepCases

LEMMA JobsNext ==
  ASSUME Ground, JobsHaveAReason, [Next]_vars
  PROVE  JobsHaveAReason'
<1>1. RolesOK /\ RoomsOK /\ IdleAreDown /\ TablesOK /\ LiveHaveKeys /\ TablesGrow
  BY GroundNext DEF Ground
<1> SUFFICES ASSUME NEW x \in Coroutines PROVE JobHolds(co[x])'
  BY DEF JobsHaveAReason
<1>2. CASE co'[x] = co[x]
  <2>1. JobHolds(co[x])
    BY DEF JobsHaveAReason
  <2>2. /\ At(x, "rotated") => RevokedFor(co[x].counter)'
        /\ At(x, "scheduled") /\ co[x].job \in {"pay", "drop"} => Reason(co[x].session)'
        /\ At(x, "announcing") /\ co[x].drop = TRUE => Reason(co[x].session)'
        /\ At(x, "dropping") => Reason(co[x].session)'
    <3>1. At(x, "rotated") => RevokedFor(co[x].counter)'
      <4>1. PICK c : c = co[x].counter
        OBVIOUS
      <4>2. RevokedFor(c) => RevokedFor(c)'
        BY <1>1, ReasonsStay
      <4>3. At(x, "rotated") => RevokedFor(c)'
        BY <2>1, <4>1, <4>2 DEF JobHolds, At
      <4> QED
        BY <1>2, <4>1, <4>3
    <3>2. /\ At(x, "scheduled") /\ co[x].job \in {"pay", "drop"} => Reason(co[x].session)'
          /\ At(x, "announcing") /\ co[x].drop = TRUE => Reason(co[x].session)'
          /\ At(x, "dropping") => Reason(co[x].session)'
      <4> SUFFICES ASSUME \/ At(x, "scheduled") /\ co[x].job \in {"pay", "drop"}
                          \/ At(x, "announcing") /\ co[x].drop = TRUE
                          \/ At(x, "dropping")
                   PROVE  Reason(co[x].session)'
        OBVIOUS
      <4>1. PICK s \in Sessions : s = co[x].session
        BY <1>1, JobFields
      <4>2. Reason(s)
        BY <2>1, <4>1 DEF JobHolds, At
      <4>3. Reason(s)'
        BY <1>1, <4>2, ReasonsStay
      <4> QED
        BY <1>2, <4>1, <4>3
    <3> QED
      BY <3>1, <3>2
  <2> QED
    BY <1>2, <2>2 DEF JobHolds, At
<1>3. CASE co'[x] = IF x \in Tasks THEN New ELSE Over
  BY <1>3 DEF JobHolds, New, Over
<1> QED
  BY <1>1, <1>2, <1>3, OneMoves, TillJobs, AdminJobs, TaskJobs, RoundJobs

\* A job is to disconnect tills because it was, and has fewer of them left, or
\* because it has just copied a room.
LEMMA DropsStart ==
  ASSUME RolesOK, RoomsOK, [Next]_vars, NEW x \in Coroutines, co'[x].at = "dropping"
  PROVE  \/ /\ At(x, "dropping") /\ co'[x].targets \subseteq co[x].targets
            /\ co'[x].worker = co[x].worker /\ co'[x].session = co[x].session
         \/ \E w \in Workers, s \in Sessions :
              /\ co'[x].worker = w /\ co'[x].session = s
              /\ co'[x].targets = clients[w][s]
<1> DEFINE Goes == /\ At(x, "dropping") /\ co'[x].targets \subseteq co[x].targets
                   /\ co'[x].worker = co[x].worker /\ co'[x].session = co[x].session
           Starts == \E w \in Workers, s \in Sessions :
                       /\ co'[x].worker = w /\ co'[x].session = s
                       /\ co'[x].targets = clients[w][s]
<1>0. \A r : Become(x, r) => co'[x] = r
  BY Becoming
<1>1. CASE co'[x] = co[x]
  BY <1>1 DEF At
<1>2. ASSUME NEW w \in Workers, NEW s \in Sessions, NEW b, Become(x, Dropping(w, s, b))
      PROVE  Starts
  <2>1. /\ co'[x].worker = w /\ co'[x].session = s
        /\ co'[x].targets = clients[w][s]
    BY <1>0, <1>2 DEF Dropping
  <2> QED
    BY <2>1
<1>3. ASSUME x \in Tills, TillStep(x)
      PROVE  FALSE
  <2>1. co'[x] \in TillCoroutine
    BY <1>0, <1>3, TillTypes
  <2> QED
    BY <2>1 DEF TillCoroutine, New, Over
<1>4. ASSUME x \in Admins, AdminStep(x)
      PROVE  FALSE
  <2>1. \A r : Become(x, r) => r.at = "dropping"
    BY <1>0
  <2>2. \A w, s, closed, to_clients, back :
          ~Become(x, Announcing(w, s, closed, to_clients, FALSE, back))
          /\ ~Become(x, Announcing(w, s, closed, to_clients, TRUE, back))
    BY <2>1 DEF Announcing
  <2>3. ~AdminLeaves(x)
    <3>1. ASSUME AdminLeaves(x) PROVE co'[x].at = "departed"
      BY <1>0, <1>4, <3>1, AdminFields DEF AdminLeaves
    <3> QED
      BY <3>1
  <2>4. \A w \in Workers, s \in Sessions : ~AdminEnters(x, w, s)
    BY <2>1 DEF AdminEnters
  <2>5. ~AdminGreeted(x)
    BY <2>1 DEF AdminGreeted, Over
  <2>6. ~AnnouncePresence(x) /\ ~AdminEdits(x) /\ ~AdminCancels(x)
    BY <2>2 DEF AnnouncePresence, AdminEdits, AdminCancels
  <2> QED
    BY <1>4, <2>3, <2>4, <2>5, <2>6 DEF AdminStep
<1>5. ASSUME x \in Tasks, TaskStep(x)
      PROVE  Starts
  <2>1. \A r : Become(x, r) => r.at = "dropping"
    BY <1>0
  <2>2. \A w \in Workers, s \in Sessions : ~UpdateCart(x, w, s) /\ ~Pay(x, w, s)
    BY <2>1 DEF UpdateCart, Pay
  <2>3. \A w \in Workers, c \in Counters, k \in Keys : ~Rotate(x, w, c, k)
    BY <2>1 DEF Rotate
  <2>4. ~ListOpenSessions(x)
    <3>1. \A w, s : ~Become(x, [at |-> "scheduled", worker |-> w, session |-> s,
                               job |-> "drop"])
      BY <2>1
    <3>2. ~Become(x, New)
      BY <2>1 DEF New
    <3> QED
      BY <3>1, <3>2 DEF ListOpenSessions
  <2>5. RunTask(x)
    BY <1>5, <2>2, <2>3, <2>4 DEF TaskStep
  <2>6. PICK w \in Workers, s \in Sessions : w = co[x].worker /\ s = co[x].session
    BY <1>5, <2>5, TaskFields DEF RunTask
  <2>7. Become(x, Dropping(w, s, "new"))
    BY <2>1, <2>5, <2>6 DEF RunTask, Announcing
  <2> QED
    BY <1>2, <2>7
<1>6. ASSUME RoundStep(x)
      PROVE  Goes \/ Starts
  <2>1. PICK backs \in {{"over", "serving"}, {"new"}} :
          co[x] \in Announcements(backs) \cup Drops(backs)
    <3>1. At(x, "announcing") \/ At(x, "dropping")
      BY <1>6 DEF RoundStep, SendNext, EndAnnouncement, DropNext, EndDrop
    <3> QED
      BY <3>1, RoundFields
  <2>2. ~Resume(x)
    BY <1>0, <2>1 DEF Resume, Announcements, Drops
  <2>3. ~SendNext(x)
    <3>1. ASSUME SendNext(x) PROVE co'[x].at = "announcing"
      <4>1. co[x] \in Announcements(backs)
        BY <2>1, <3>1 DEF SendNext, At, Drops
      <4>2. PICK k : Become(x, [co[x] EXCEPT !.targets = co[x].targets \ {k}])
        BY <3>1 DEF SendNext
      <4> QED
        BY <1>0, <4>1, <4>2 DEF Announcements
    <3> QED
      BY <3>1
  <2>4. CASE EndAnnouncement(x)
    <3>1. PICK w \in Workers, s \in Sessions : w = co[x].worker /\ s = co[x].session
      BY <2>1 DEF Announcements, Drops
    <3>2. Become(x, Dropping(w, s, co[x].back))
      BY <2>2, <2>4, <3>1 DEF EndAnnouncement
    <3> QED
      BY <1>2, <3>2
  <2>5. CASE DropNext(x)
    <3>1. co[x] \in Drops(backs)
      BY <2>1, <2>5 DEF DropNext, At, Announcements
    <3>2. PICK k : Become(x, [co[x] EXCEPT !.targets = co[x].targets \ {k}])
      BY <2>5 DEF DropNext
    <3>3. /\ co'[x].worker = co[x].worker /\ co'[x].session = co[x].session
          /\ co'[x].targets = co[x].targets \ {k}
      BY <1>0, <3>1, <3>2 DEF Drops
    <3> QED
      BY <2>5, <3>3 DEF DropNext
  <2> QED
    BY <1>6, <2>2, <2>3, <2>4, <2>5 DEF RoundStep, EndDrop
<1> QED
  BY <1>1, <1>3, <1>4, <1>5, <1>6, OneMoves DEF New, Over

\* A till that is served for a session goes on being served for it, or is gone,
\* and whoever is gone stays so.
LEMMA ServedStay ==
  ASSUME RolesOK, RoomsOK, IdleAreDown, [Next]_vars, NEW t \in Tills,
         At(t, "over") \/ At(t, "serving")
  PROVE  \/ co'[t].at = "over"
         \/ At(t, "serving") /\ co'[t] = co[t]
<1>0. CoroutinesAssumption /\ t \in Coroutines
  BY CoroutinesAssumption DEF Coroutines, Sockets
<1>1. t \notin Admins /\ t \notin Tasks
  BY <1>0 DEF CoroutinesAssumption
<1>2. CASE co'[t] = co[t]
  BY <1>2 DEF At
<1>3. CASE TillStep(t)
  BY <1>3, TillMoves DEF At
<1>4. ~RoundStep(t)
  BY <1>0, <1>1, RoundFields DEF RoundStep, SendNext, EndAnnouncement, DropNext, EndDrop
<1> QED
  BY <1>0, <1>1, <1>2, <1>3, <1>4, OneMoves DEF Over

LEMMA TargetsNext ==
  ASSUME Ground, TargetsAreServed, [Next]_vars
  PROVE  TargetsAreServed'
<1>0. RolesOK /\ RoomsOK /\ IdleAreDown /\ ClientsAreServed
  BY DEF Ground
<1> SUFFICES ASSUME NEW x \in Coroutines, co'[x].at = "dropping", NEW t \in co'[x].targets
             PROVE  \/ co'[t].at = "over"
                    \/ /\ co'[t].at = "serving" /\ co'[t].session = co'[x].session
                       /\ co'[t].worker = co'[x].worker
  BY DEF TargetsAreServed, Serving, At
<1>1. /\ t \in Tills
      /\ \/ At(t, "over")
         \/ /\ At(t, "serving") /\ co[t].session = co'[x].session
            /\ co[t].worker = co'[x].worker
  <2>1. CASE /\ At(x, "dropping") /\ co'[x].targets \subseteq co[x].targets
             /\ co'[x].worker = co[x].worker /\ co'[x].session = co[x].session
    <3>1. t \in Tills
      <4>1. co[x].targets \subseteq Tills
        BY <1>0, <2>1, RoundFields DEF Announcements, Drops, At
      <4> QED
        BY <2>1, <4>1
    <3> QED
      BY <2>1, <3>1 DEF TargetsAreServed, Serving
  <2>2. ASSUME NEW w \in Workers, NEW s \in Sessions, co'[x].worker = w,
               co'[x].session = s, co'[x].targets = clients[w][s]
        PROVE  /\ t \in Tills /\ At(t, "serving")
               /\ co[t].session = co'[x].session /\ co[t].worker = co'[x].worker
    <3>1. t \in Tills
      BY <1>0, <2>2 DEF RoomsOK
    <3> QED
      BY <1>0, <2>2, <3>1 DEF ClientsAreServed, Serving
  <2> QED
    BY <1>0, <2>1, <2>2, DropsStart
<1> QED
  BY <1>0, <1>1, ServedStay DEF At

\* What disconnect_clients closes, it closes with a reason.
LEMMA DropsNext ==
  ASSUME Ground, JobsHaveAReason, TargetsAreServed, NEW x \in Coroutines, NEW t \in Tills,
         DropNext(x), link[t] = "up", link'[t] = "down"
  PROVE  \/ Closed(co[t].session)
         \/ \E k \in Keys : /\ keys[k].phase = "revoked"
                            /\ keys[k].counter = sessions[co[t].session].counter
<1>1. PICK k \in co[x].targets : link' = [link EXCEPT ![k] = "down"]
  BY DEF DropNext, Drop
<1>2. t = k
  BY <1>1 DEF Ground, RoomsOK, Sockets
<1>3. ~At(t, "over")
  BY DEF Ground, IdleAreDown
<1>4. At(t, "serving") /\ co[t].session = co[x].session
  BY <1>1, <1>2, <1>3 DEF TargetsAreServed, Serving, DropNext
<1>5. Reason(co[x].session)
  BY DEF DropNext, JobsHaveAReason, JobHolds, At
<1> QED
  BY <1>4, <1>5 DEF Reason, RevokedFor

\* The server disconnects a till only because its session was closed or a key of
\* its counter was replaced, at whatever distance from that commit and whatever
\* handlers, tasks and crashes came in between (ws_manager.py:50-58,
\* checkout_sessions.py:101-151, checkout_counters.py:104-123, ws.py:299-311).
THEOREM DropsAreJustified == Spec => DropsHaveAReason
<1> DEFINE Sound == Ground /\ JobsHaveAReason /\ TargetsAreServed
<1>1. Init => Sound
  <2> SUFFICES ASSUME Init PROVE Sound
    OBVIOUS
  <2>1. \A x \in Coroutines : co[x] = New
    BY DEF Init, Coroutines
  <2> QED
    BY <2>1, GroundInit DEF JobsHaveAReason, JobHolds, TargetsAreServed, At, New
<1>2. Sound /\ [Next]_vars => Sound'
  BY GroundNext, JobsNext, TargetsNext
<1>3. Sound /\ [Next]_vars =>
        [\A x \in DOMAIN co, t \in Tills :
           DropNext(x) /\ link[t] = "up" /\ link'[t] = "down" =>
             \/ Closed(co[t].session)
             \/ \E k \in Keys : /\ keys[k].phase = "revoked"
                                /\ keys[k].counter = sessions[co[t].session].counter]_vars
  <2>1. Sound => DOMAIN co = Coroutines
    BY DEF Ground, RolesOK
  <2> QED
    BY <2>1, DropsNext
<1> QED
  BY <1>1, <1>2, <1>3, PTL DEF Spec, DropsHaveAReason
-----------------------------------------------------------------------------
\* A till a payment, a cancellation or a rotation is on its way to: it is in the
\* room that will be copied, or among those copied.
Doomed(x, t) ==
  \/ /\ \/ At(x, "scheduled") /\ co[x].job \in {"pay", "drop"}
        \/ At(x, "announcing") /\ co[x].drop = TRUE
     /\ t \in clients[co[x].worker][co[x].session]
  \/ At(x, "dropping") /\ t \in co[x].targets

\* Who keeps the connection goes on being served where it is.
LEMMA TillsStay ==
  ASSUME Ground, [Next]_vars, NEW t \in Tills, At(t, "over") \/ At(t, "serving"),
         link'[t] = "up"
  PROVE  /\ At(t, "serving") /\ co'[t] = co[t]
         /\ \A w \in Workers, s \in Sessions :
              Serving(t, w, s) => t \in clients'[w][s]
<1>0. RolesOK /\ RoomsOK /\ IdleAreDown
  BY DEF Ground
<1>1. IdleAreDown' /\ ClientsAreServed'
  BY GroundNext DEF Ground
<1>2. At(t, "serving") /\ co'[t] = co[t]
  BY <1>0, <1>1, ServedStay DEF IdleAreDown, At
<1>3. ASSUME NEW w \in Workers, NEW s \in Sessions, Serving(t, w, s)
      PROVE  t \in clients'[w][s]
  <2>1. Serving(t, w, s)'
    BY <1>2, <1>3 DEF Serving, At
  <2> QED
    BY <1>1, <2>1 DEF ClientsAreServed
<1> QED
  BY <1>2, <1>3

\* The task or the round goes on with the till, or cuts it off.
LEMMA DoomedByTask ==
  ASSUME RolesOK, NEW h \in Tasks, TaskStep(h), NEW t,
         NEW w \in Workers, w = co[h].worker, NEW s \in Sessions, s = co[h].session,
         At(h, "scheduled"), co[h].job \in {"pay", "drop"},
         t \in clients[w][s], t \in clients'[w][s]
  PROVE  Doomed(h, t)'
<1>0. \A r : Become(h, r) => co'[h] = r
  BY Becoming DEF Coroutines
<1>1. RunTask(h)
  BY DEF TaskStep, UpdateCart, Pay, Rotate, ListOpenSessions, At
<1>2. CASE Become(h, Announcing(w, s, TRUE, FALSE, TRUE, "new"))
  <2>1. /\ co'[h].at = "announcing" /\ co'[h].drop = TRUE
        /\ co'[h].worker = w /\ co'[h].session = s
    BY <1>0, <1>2 DEF Announcing
  <2> QED
    BY <2>1 DEF Doomed, At
<1>3. CASE Become(h, Dropping(w, s, "new"))
  <2>1. co'[h].at = "dropping" /\ co'[h].targets = clients[w][s]
    BY <1>0, <1>3 DEF Dropping
  <2> QED
    BY <2>1 DEF Doomed, At
<1> QED
  BY <1>1, <1>2, <1>3 DEF RunTask

LEMMA DoomedByRound ==
  ASSUME RolesOK, RoomsOK, NEW x \in Coroutines, RoundStep(x), NEW t \in Tills, Doomed(x, t),
         link'[t] = "up",
         At(x, "announcing") => t \in clients'[co[x].worker][co[x].session]
  PROVE  Doomed(x, t)'
<1>0. \A r : Become(x, r) => co'[x] = r
  BY Becoming
<1>1. PICK backs \in {{"over", "serving"}, {"new"}} :
        co[x] \in Announcements(backs) \cup Drops(backs)
  <2>1. At(x, "announcing") \/ At(x, "dropping")
    BY DEF RoundStep, SendNext, EndAnnouncement, DropNext, EndDrop
  <2> QED
    BY <2>1, RoundFields
<1>2. CASE At(x, "announcing")
  <2>1. /\ co[x] \in Announcements(backs) /\ co[x].drop = TRUE
        /\ t \in clients[co[x].worker][co[x].session]
    BY <1>1, <1>2 DEF Drops, Doomed, At
  <2>2. CASE SendNext(x)
    <3>1. PICK k : Become(x, [co[x] EXCEPT !.targets = co[x].targets \ {k}])
      BY <2>2 DEF SendNext
    <3>2. /\ co'[x].at = "announcing" /\ co'[x].drop = TRUE
          /\ co'[x].worker = co[x].worker /\ co'[x].session = co[x].session
      BY <1>0, <2>1, <3>1 DEF Announcements
    <3> QED
      BY <1>2, <3>2 DEF Doomed, At
  <2>3. CASE EndAnnouncement(x)
    <3>1. Become(x, Dropping(co[x].worker, co[x].session, co[x].back))
      BY <2>1, <2>3 DEF EndAnnouncement
    <3>2. co'[x].at = "dropping" /\ co'[x].targets = clients[co[x].worker][co[x].session]
      BY <1>0, <3>1 DEF Dropping
    <3> QED
      BY <2>1, <3>2 DEF Doomed, At
  <2> QED
    BY <1>2, <2>2, <2>3 DEF RoundStep, DropNext, EndDrop, At
<1>3. CASE At(x, "dropping")
  <2>1. co[x] \in Drops(backs) /\ t \in co[x].targets
    BY <1>1, <1>3 DEF Announcements, Doomed, At
  <2>2. DropNext(x)
    BY <1>3, <2>1 DEF RoundStep, SendNext, EndAnnouncement, EndDrop, At
  <2>3. PICK k \in co[x].targets :
          /\ Become(x, [co[x] EXCEPT !.targets = co[x].targets \ {k}])
          /\ link' = [link EXCEPT ![k] = "down"]
    BY <2>2 DEF DropNext, Drop
  <2>4. t # k
    BY <2>3 DEF RoomsOK, Sockets
  <2>5. co'[x].at = "dropping" /\ co'[x].targets = co[x].targets \ {k}
    BY <1>0, <2>1, <2>3 DEF Drops
  <2> QED
    BY <2>1, <2>4, <2>5 DEF Doomed, At
<1> QED
  BY <1>2, <1>3 DEF RoundStep, SendNext, EndAnnouncement, DropNext, EndDrop

LEMMA DoomedNext ==
  ASSUME Ground, TargetsAreServed, [Next]_vars, NEW x \in Coroutines, NEW t \in Tills,
         Doomed(x, t), link'[t] = "up"
  PROVE  Doomed(x, t)'
<1>0. RolesOK /\ RoomsOK /\ IdleAreDown /\ ClientsAreServed
  BY DEF Ground
<1>1. PICK w, s : w = co[x].worker /\ s = co[x].session
  OBVIOUS
<1>2. /\ x \notin Tills
      /\ w \in Workers /\ s \in Sessions
  <2>1. At(x, "scheduled") \/ At(x, "announcing") \/ At(x, "dropping")
    BY DEF Doomed
  <2>2. co[x] \in TillCoroutine \cup AdminCoroutine \cup TaskCoroutine
    BY <1>0 DEF RolesOK
  <2>3. x \notin Tills
    BY <1>0, <2>1, TillFields DEF At
  <2> QED
    BY <1>1, <2>1, <2>2, <2>3
       DEF TillCoroutine, AdminCoroutine, TaskCoroutine, Announcements, Drops, New, Over, At
<1>3. At(t, "over") \/ Serving(t, w, s)
  BY <1>0, <1>1, <1>2 DEF Doomed, TargetsAreServed, ClientsAreServed
<1>4. At(t, "serving") /\ co'[t] = co[t] /\ t \in clients'[w][s]
  BY <1>2, <1>3, TillsStay DEF Serving, At
<1>5. CASE co'[x] = co[x]
  BY <1>1, <1>4, <1>5 DEF Doomed, At
<1>6. ASSUME NEW v \in Workers, WorkerDies(v), co[x].worker = v
      PROVE  FALSE
  <2>1. co[t].worker = v
    BY <1>1, <1>3, <1>4, <1>6 DEF Serving, At
  <2>2. CoroutinesAssumption
    BY CoroutinesAssumption
  <2>3. At(t, "serving") => co[t].worker # v
    BY <1>0, <1>4, <1>6, <2>2, CrashMoves DEF Over, At
  <2> QED
    BY <1>4, <2>1, <2>3
<1>7. ASSUME x \in Admins, AdminStep(x)
      PROVE  FALSE
  BY <1>7 DEF AdminStep, AdminEnters, AdminGreeted, AnnouncePresence, AdminEdits,
              AdminCancels, AdminLeaves, Doomed, At
<1>8. ASSUME x \in Tasks, TaskStep(x)
      PROVE  Doomed(x, t)'
  <2>1. ~At(x, "announcing") /\ ~At(x, "dropping")
    BY <1>8 DEF TaskStep, UpdateCart, Pay, Rotate, ListOpenSessions, RunTask, At
  <2> QED
    BY <1>0, <1>1, <1>2, <1>4, <1>8, <2>1, DoomedByTask DEF Doomed
<1>9. ASSUME RoundStep(x)
      PROVE  Doomed(x, t)'
  BY <1>0, <1>1, <1>4, <1>9, DoomedByRound
<1> QED
  BY <1>0, <1>2, <1>5, <1>6, <1>7, <1>8, <1>9, OneMoves

\* The safety half of PresentTillsAreDropped: once a payment, a cancellation or a
\* rotation is on its way to a till, nothing takes the till out of its way: it is
\* closed, or it is still to be closed, whoever joins, leaves or crashes
\* (ws_manager.py:50-58, checkout_sessions.py:139-151, ws.py:299-311).
THEOREM NobodySlipsAway ==
  Spec => [][\A x \in Coroutines, t \in Tills :
               Doomed(x, t) => Doomed(x, t)' \/ link'[t] = "down"]_vars
<1> DEFINE Sound == Ground /\ TargetsAreServed
<1>1. Init => Sound
  <2> SUFFICES ASSUME Init PROVE Sound
    OBVIOUS
  <2>1. \A x \in Coroutines : co[x] = New
    BY DEF Init, Coroutines
  <2> QED
    BY <2>1, GroundInit DEF TargetsAreServed, At, New
<1>2. Sound /\ [Next]_vars => Sound'
  BY GroundNext, TargetsNext
<1>3. Sound /\ [Next]_vars =>
        [\A x \in Coroutines, t \in Tills :
           Doomed(x, t) => Doomed(x, t)' \/ link'[t] = "down"]_vars
  <2> SUFFICES ASSUME Sound, [Next]_vars, NEW x \in Coroutines, NEW t \in Tills,
                      Doomed(x, t)
               PROVE  Doomed(x, t)' \/ link'[t] = "down"
    OBVIOUS
  <2>1. link'[t] \in {"up", "down"}
    BY GroundNext DEF Ground, RoomsOK, Sockets
  <2> QED
    BY <2>1, DoomedNext
<1> QED
  BY <1>1, <1>2, <1>3, PTL DEF Spec
-----------------------------------------------------------------------------
\* The admins' rooms: who is in one, or was when it was copied, is at work on that
\* worker, or gone; and who is gone, or going, is disconnected.
Attends(a, w) == At(a, "over") \/ (~At(a, "new") /\ co[a].worker = w)
Leaving(a) ==
  \/ At(a, "new") \/ At(a, "over") \/ At(a, "departed")
  \/ (At(a, "announcing") \/ At(a, "dropping")) /\ co[a].back = "over"
LeaversAreDown == \A a \in Admins : Leaving(a) => link[a] = "down"
MembersAttend ==
  \A a \in Admins, w \in Workers, s \in Sessions : a \in admins[w][s] => Attends(a, w)
ListenersAttend ==
  \A x \in Coroutines, a \in Admins :
    At(x, "announcing") /\ a \in co[x].targets => Attends(a, co[x].worker)

\* Registering and unregistering an administrator change one room of one worker.
LEMMA AdminRegistered ==
  ASSUME RoomsOK, NEW w \in Workers, NEW s \in Sessions, NEW k
  PROVE  /\ register_admin(w, s, k) =>
              /\ admins'[w][s] = admins[w][s] \cup {k}
              /\ \A v \in Workers, z \in Sessions :
                   v # w \/ z # s => admins'[v][z] = admins[v][z]
         /\ unregister_admin(w, s, k) =>
              /\ admins'[w][s] = admins[w][s] \ {k}
              /\ \A v \in Workers, z \in Sessions :
                   v # w \/ z # s => admins'[v][z] = admins[v][z]
<1>1. ASSUME NEW room, admins' = [admins EXCEPT ![w][s] = room]
      PROVE  /\ admins'[w][s] = room
             /\ \A v \in Workers, z \in Sessions :
                  v # w \/ z # s => admins'[v][z] = admins[v][z]
  <2>1. DOMAIN admins = Workers /\ DOMAIN admins[w] = Sessions
    BY DEF RoomsOK
  <2>2. admins'[w] = [admins[w] EXCEPT ![s] = room]
    BY <1>1, <2>1
  <2>3. admins'[w][s] = room /\ \A z \in Sessions \ {s} : admins'[w][z] = admins[w][z]
    BY <2>1, <2>2
  <2>4. \A v \in Workers \ {w} : admins'[v] = admins[v]
    BY <1>1, <2>1
  <2> QED
    BY <2>3, <2>4
<1>2. ASSUME register_admin(w, s, k)
      PROVE  /\ admins'[w][s] = admins[w][s] \cup {k}
             /\ \A v \in Workers, z \in Sessions :
                  v # w \/ z # s => admins'[v][z] = admins[v][z]
  <2> DEFINE room == admins[w][s] \cup {k}
  <2>1. admins' = [admins EXCEPT ![w][s] = room]
    BY <1>2 DEF register_admin
  <2> QED
    BY <1>1, <2>1
<1>3. ASSUME unregister_admin(w, s, k)
      PROVE  /\ admins'[w][s] = admins[w][s] \ {k}
             /\ \A v \in Workers, z \in Sessions :
                  v # w \/ z # s => admins'[v][z] = admins[v][z]
  <2> DEFINE room == admins[w][s] \ {k}
  <2>1. admins' = [admins EXCEPT ![w][s] = room]
    BY <1>3 DEF unregister_admin
  <2> QED
    BY <1>1, <2>1
<1> QED
  BY <1>2, <1>3

\* Who comes into a room has just been let in; who gets lost from one has no
\* connection, or was on a worker that died.
LEMMA MembersMove ==
  ASSUME RolesOK, RoomsOK, [Next]_vars, NEW a \in Admins, NEW w \in Workers, NEW s \in Sessions
  PROVE  /\ a \in admins'[w][s] => a \in admins[w][s] \/ AdminEnters(a, w, s)
         /\ a \in admins[w][s] /\ a \notin admins'[w][s] =>
              link'[a] = "down" \/ WorkerDies(w)
<1> DEFINE Fine == /\ a \in admins'[w][s] => a \in admins[w][s] \/ AdminEnters(a, w, s)
                   /\ a \in admins[w][s] /\ a \notin admins'[w][s] =>
                        link'[a] = "down" \/ WorkerDies(w)
<1>1. ASSUME UNCHANGED admins PROVE Fine
  BY <1>1
<1>2. ASSUME NEW v \in Workers, NEW z \in Sessions, NEW k, unregister_admin(v, z, k),
             link[k] = "down", UNCHANGED link
      PROVE  Fine
  BY <1>2, AdminRegistered
<1>3. CASE \/ UNCHANGED vars \/ TablesOnly
           \/ \E k \in Sockets : HangUp(k)
           \/ \E t \in Tills : TillStep(t)
           \/ \E h \in Tasks : TaskStep(h)
  <2>1. UNCHANGED admins
    BY <1>3 DEF vars, TablesOnly, CreateCounter, ConnectOverHttp, HangUp, live, rooms,
                TillStep, Accept, FindOrCreateSession, Greet, Join, TillLeaves,
                TaskStep, UpdateCart, Pay, Rotate, ListOpenSessions, RunTask
  <2> QED
    BY <1>1, <2>1
<1>4. ASSUME NEW v \in Workers, WorkerDies(v)
      PROVE  Fine
  <2>1. admins' = [admins EXCEPT ![v] = [z \in Sessions |-> {}]]
    BY <1>4 DEF WorkerDies
  <2>2. admins'[w][s] = IF v = w THEN {} ELSE admins[w][s]
    BY <2>1 DEF RoomsOK
  <2> QED
    BY <1>4, <2>2
<1>5. ASSUME NEW b \in Admins, AdminStep(b)
      PROVE  Fine
  <2>1. ASSUME NEW v \in Workers, NEW z \in Sessions, AdminEnters(b, v, z)
        PROVE  Fine
    <3>1. register_admin(v, z, b)
      BY <2>1 DEF AdminEnters
    <3>2. admins'[v][z] = admins[v][z] \cup {b}
      BY <3>1, AdminRegistered
    <3>3. v # w \/ z # s => admins'[w][s] = admins[w][s]
      BY <3>1, AdminRegistered
    <3> QED
      BY <2>1, <3>2, <3>3
  <2>2. CASE AdminLeaves(b)
    <3>1. PICK v \in Workers, z \in Sessions : v = co[b].worker /\ z = co[b].session
      BY <2>2, AdminFields DEF AdminLeaves
    <3>2. unregister_admin(v, z, b) /\ link[b] = "down" /\ UNCHANGED link
      BY <2>2, <3>1 DEF AdminLeaves
    <3> QED
      BY <1>2, <3>2
  <2>3. CASE AdminGreeted(b) \/ AnnouncePresence(b) \/ AdminEdits(b) \/ AdminCancels(b)
    <3>1. UNCHANGED admins
      BY <2>3 DEF AdminGreeted, AnnouncePresence, AdminEdits, AdminCancels, live, rooms
    <3> QED
      BY <1>1, <3>1
  <2> QED
    BY <1>5, <2>1, <2>2, <2>3 DEF AdminStep
<1>6. ASSUME NEW x \in Coroutines, RoundStep(x)
      PROVE  Fine
  <2>1. CASE SendNext(x)
    <3>1. PICK k : Send(co[x].worker, co[x].session, k, co[x].says)
      BY <2>1 DEF SendNext
    <3>2. PICK v \in Workers, z \in Sessions : v = co[x].worker /\ z = co[x].session
      BY <2>1, RoundFields DEF SendNext, Announcements, Drops
    <3>3. \/ UNCHANGED admins
          \/ unregister_admin(v, z, k) /\ link[k] = "down" /\ UNCHANGED link
      BY <3>1, <3>2 DEF Send, rooms, sockets
    <3> QED
      BY <1>1, <1>2, <3>3
  <2>2. CASE EndAnnouncement(x) \/ DropNext(x) \/ EndDrop(x)
    <3>1. UNCHANGED admins
      BY <2>2 DEF EndAnnouncement, DropNext, Drop, EndDrop, live
    <3> QED
      BY <1>1, <3>1
  <2> QED
    BY <1>6, <2>1, <2>2 DEF RoundStep
<1> QED
  BY <1>3, <1>4, <1>5, <1>6, StepCases

\* An administrator's coroutine stays on its worker, and ends without a connection.
LEMMA AdminMoves ==
  ASSUME RolesOK, RoomsOK, LeaversAreDown, NEW a \in Admins, AdminStep(a)
  PROVE  /\ ~At(a, "over") /\ co'[a].at # "new"
         /\ At(a, "new") \/ co'[a].at = "over" \/ co'[a].worker = co[a].worker
         /\ Leaving(a)' => link'[a] = "down"
<1>0. a \in Sockets /\ \A r : Become(a, r) => co'[a] = r
  BY Becoming DEF Coroutines, Sockets
<1>1. ASSUME NEW w \in Workers, NEW s \in Sessions, AdminEnters(a, w, s)
      PROVE  /\ At(a, "new") /\ co'[a].at = "greeting"
  BY <1>0, <1>1 DEF AdminEnters
<1>2. ASSUME AdminGreeted(a)
      PROVE  /\ At(a, "greeting") /\ co'[a].at \in {"arrived", "over"}
             /\ co'[a].at = "over" => link'[a] = "down"
             /\ co'[a].at = "over" \/ co'[a].worker = co[a].worker
  BY <1>0, <1>2 DEF AdminGreeted, Over
<1>3. ASSUME NEW closed, NEW to_clients, NEW drop, NEW back,
             Become(a, Announcing(co[a].worker, co[a].session, closed, to_clients, drop, back))
      PROVE  /\ co'[a].at = "announcing" /\ co'[a].worker = co[a].worker
             /\ co'[a].back = back
  BY <1>0, <1>3 DEF Announcing
<1>4. ASSUME AnnouncePresence(a)
      PROVE  /\ At(a, "arrived") \/ At(a, "departed")
             /\ co'[a].at = "announcing" /\ co'[a].worker = co[a].worker
             /\ co'[a].back = "over" => link'[a] = "down"
  <2>1. PICK back : /\ back = IF At(a, "arrived") THEN "serving" ELSE "over"
                    /\ \E closed : Become(a, Announcing(co[a].worker, co[a].session, closed,
                                                        TRUE, FALSE, back))
    BY <1>4 DEF AnnouncePresence
  <2>2. back = "over" => link[a] = "down"
    BY <1>4, <2>1 DEF AnnouncePresence, LeaversAreDown, Leaving
  <2>3. UNCHANGED link
    BY <1>4 DEF AnnouncePresence, live
  <2> QED
    BY <1>3, <1>4, <2>1, <2>2, <2>3 DEF AnnouncePresence
<1>5. ASSUME AdminEdits(a) \/ AdminCancels(a)
      PROVE  /\ At(a, "serving")
             /\ co'[a].at = "announcing" /\ co'[a].worker = co[a].worker
             /\ co'[a].back = "serving"
  BY <1>3, <1>5 DEF AdminEdits, AdminCancels
<1>6. ASSUME AdminLeaves(a)
      PROVE  /\ At(a, "serving")
             /\ co'[a].at = "departed" /\ co'[a].worker = co[a].worker
             /\ link'[a] = "down"
  BY <1>0, <1>6, AdminFields DEF AdminLeaves
<1> QED
  BY <1>1, <1>2, <1>4, <1>5, <1>6 DEF AdminStep, Leaving, At

\* A round stays on its worker; the last one of an administrator who leaves ends it.
LEMMA RoundMoves ==
  ASSUME RolesOK, RoomsOK, NEW x \in Coroutines, RoundStep(x)
  PROVE  /\ At(x, "announcing") \/ At(x, "dropping")
         /\ \/ /\ co'[x].at \in {"announcing", "dropping"}
               /\ co'[x].worker = co[x].worker /\ co'[x].back = co[x].back
            \/ co'[x].at = "serving" /\ co'[x].worker = co[x].worker
            \/ co'[x].at \in {"over", "new"} /\ co'[x].at = co[x].back
         /\ \A k \in Sockets : link[k] = "down" => link'[k] = "down"
<1>0. \A r : Become(x, r) => co'[x] = r
  BY Becoming
<1>1. At(x, "announcing") \/ At(x, "dropping")
  BY DEF RoundStep, SendNext, EndAnnouncement, DropNext, EndDrop
<1>2. PICK backs \in {{"over", "serving"}, {"new"}} :
        co[x] \in Announcements(backs) \cup Drops(backs)
  BY <1>1, RoundFields
<1>3. \A k \in Sockets : link[k] = "down" => link'[k] = "down"
  BY DEF RoundStep, SendNext, Send, EndAnnouncement, DropNext, Drop, EndDrop, rooms, sockets,
         live, RoomsOK
<1>4. CASE Resume(x)
  <2>1. co[x].back \in {"new", "over", "serving"}
    BY <1>2 DEF Announcements, Drops
  <2> QED
    BY <1>0, <1>1, <1>3, <1>4, <2>1 DEF Resume
<1>5. ASSUME NEW k, Become(x, [co[x] EXCEPT !.targets = co[x].targets \ {k}])
      PROVE  /\ co'[x].at \in {"announcing", "dropping"}
             /\ co'[x].worker = co[x].worker /\ co'[x].back = co[x].back
  BY <1>0, <1>2, <1>5 DEF Announcements, Drops
<1>6. ASSUME Become(x, Dropping(co[x].worker, co[x].session, co[x].back))
      PROVE  /\ co'[x].at \in {"announcing", "dropping"}
             /\ co'[x].worker = co[x].worker /\ co'[x].back = co[x].back
  BY <1>0, <1>6 DEF Dropping
<1>7. Resume(x) \/ ( /\ co'[x].at \in {"announcing", "dropping"}
                     /\ co'[x].worker = co[x].worker /\ co'[x].back = co[x].back )
  BY <1>5, <1>6 DEF RoundStep, SendNext, EndAnnouncement, DropNext, EndDrop
<1> QED
  BY <1>1, <1>3, <1>4, <1>7

\* Whoever attends goes on attending, or is gone.
LEMMA AttendersStay ==
  ASSUME RolesOK, RoomsOK, LeaversAreDown, [Next]_vars, NEW a \in Admins, NEW w,
         Attends(a, w)
  PROVE  Attends(a, w)'
<1>0. a \in Coroutines /\ a \notin Tills /\ a \notin Tasks
  BY CoroutinesAssumption DEF Coroutines, Sockets, CoroutinesAssumption
<1>1. CASE co'[a] = co[a]
  BY <1>1 DEF Attends, At
<1>2. CASE co'[a] = IF a \in Tasks THEN New ELSE Over
  BY <1>0, <1>2 DEF Over, Attends, At
<1>3. CASE AdminStep(a)
  BY <1>3, AdminMoves DEF Attends, At
<1>4. CASE RoundStep(a)
  <2>1. /\ At(a, "announcing") \/ At(a, "dropping")
        /\ co[a].back # "new"
    BY <1>0, <1>4, RoundMoves, AdminFields DEF Announcements, Drops
  <2> QED
    BY <1>0, <1>4, <2>1, RoundMoves DEF Attends, At
<1> QED
  BY <1>0, <1>1, <1>2, <1>3, <1>4, OneMoves

LEMMA LeaversNext ==
  ASSUME RolesOK, RoomsOK, LeaversAreDown, [Next]_vars
  PROVE  LeaversAreDown'
<1> SUFFICES ASSUME NEW a \in Admins, Leaving(a)' PROVE link'[a] = "down"
  BY DEF LeaversAreDown
<1>0. a \in Sockets /\ a \in Coroutines /\ a \notin Tills /\ a \notin Tasks
  BY CoroutinesAssumption DEF Coroutines, Sockets, CoroutinesAssumption
<1>1. CASE Leaving(a) /\ ~AdminStep(a)
  <2>1. link[a] = "down"
    BY <1>1 DEF LeaversAreDown
  <2>2. CASE UNCHANGED vars \/ TablesOnly \/ \E h \in Tasks : TaskStep(h)
    BY <2>1, <2>2 DEF vars, TablesOnly, CreateCounter, ConnectOverHttp, live,
                      TaskStep, UpdateCart, Pay, Rotate, ListOpenSessions, RunTask
  <2>3. ASSUME NEW k \in Sockets, HangUp(k)
        PROVE  link'[a] = "down"
    BY <1>0, <2>1, <2>3 DEF HangUp, RoomsOK
  <2>4. ASSUME NEW w \in Workers, WorkerDies(w)
        PROVE  link'[a] = "down"
    BY <1>0, <2>1, <2>4 DEF WorkerDies
  <2>5. ASSUME NEW t \in Tills, TillStep(t)
        PROVE  link'[a] = "down"
    <3>1. t # a
      BY <1>0
    <3> QED
      BY <1>0, <2>1, <2>5, <3>1
         DEF TillStep, Accept, FindOrCreateSession, Greet, Join, TillLeaves, live, RoomsOK
  <2>6. ASSUME NEW b \in Admins, AdminStep(b)
        PROVE  link'[a] = "down"
    <3>1. b # a
      BY <1>1, <2>6
    <3> QED
      BY <1>0, <2>1, <2>6, <3>1
         DEF AdminStep, AdminEnters, AdminGreeted, AnnouncePresence, AdminEdits,
             AdminCancels, AdminLeaves, live, RoomsOK
  <2>7. ASSUME NEW x \in Coroutines, RoundStep(x)
        PROVE  link'[a] = "down"
    BY <1>0, <2>1, <2>7, RoundMoves
  <2> QED
    BY <2>2, <2>3, <2>4, <2>5, <2>6, <2>7, StepCases
<1>2. CASE AdminStep(a)
  BY <1>2, AdminMoves
<1>3. CASE ~Leaving(a) /\ ~AdminStep(a)
  <2>1. co'[a] # co[a]
    BY <1>3 DEF Leaving, At
  <2>2. ~RoundStep(a)
    <3>1. ASSUME RoundStep(a) PROVE FALSE
      <4>1. /\ co[a].back \in {"over", "serving"}
            /\ At(a, "announcing") \/ At(a, "dropping")
        BY <1>0, <3>1, RoundMoves, AdminFields DEF Announcements, Drops
      <4>2. co[a].back = "serving"
        BY <1>3, <4>1 DEF Leaving
      <4> QED
        BY <1>0, <3>1, <4>2, RoundMoves DEF Leaving, At
    <3> QED
      BY <3>1
  <2>3. PICK w \in Workers : /\ WorkerDies(w) /\ co[a].worker = w
    BY <1>0, <1>3, <2>1, <2>2, OneMoves
  <2> QED
    BY <1>0, <1>3, <2>3 DEF WorkerDies, Leaving, At
<1> QED
  BY <1>1, <1>2, <1>3

LEMMA MembersNext ==
  ASSUME RolesOK, RoomsOK, LeaversAreDown, MembersAttend, [Next]_vars
  PROVE  MembersAttend'
<1> SUFFICES ASSUME NEW a \in Admins, NEW w \in Workers, NEW s \in Sessions,
                    a \in admins'[w][s]
             PROVE  Attends(a, w)'
  BY DEF MembersAttend
<1>1. CASE a \in admins[w][s]
  BY <1>1, AttendersStay DEF MembersAttend
<1>2. CASE AdminEnters(a, w, s)
  <2>1. \A r : Become(a, r) => co'[a] = r
    BY Becoming DEF Coroutines, Sockets
  <2>2. co'[a].at = "greeting" /\ co'[a].worker = w
    BY <1>2, <2>1 DEF AdminEnters
  <2> QED
    BY <2>2 DEF Attends, At
<1> QED
  BY <1>1, <1>2, MembersMove

\* A round of sends goes on because it was one, and has fewer sends left, or it has
\* just copied a room.
LEMMA SendsStart ==
  ASSUME RolesOK, RoomsOK, [Next]_vars, NEW x \in Coroutines, co'[x].at = "announcing"
  PROVE  \/ /\ At(x, "announcing") /\ co'[x].targets \subseteq co[x].targets
            /\ co'[x].worker = co[x].worker
         \/ \E w \in Workers, s \in Sessions :
              co'[x].worker = w /\ co'[x].targets \cap Admins \subseteq admins[w][s]
<1> DEFINE Goes == /\ At(x, "announcing") /\ co'[x].targets \subseteq co[x].targets
                   /\ co'[x].worker = co[x].worker
           Starts == \E w \in Workers, s \in Sessions :
                       co'[x].worker = w /\ co'[x].targets \cap Admins \subseteq admins[w][s]
<1>0. /\ \A r : Become(x, r) => co'[x] = r
      /\ \A r : Become(x, r) => r.at = "announcing"
  BY Becoming
<1>1. CASE co'[x] = co[x]
  BY <1>1 DEF At
<1>2. ASSUME NEW w \in Workers, NEW s \in Sessions, NEW closed, NEW to_clients, NEW drop,
             NEW back, Become(x, Announcing(w, s, closed, to_clients, drop, back))
      PROVE  Starts
  <2>1. co'[x].worker = w /\ co'[x].targets = Audience(w, s, to_clients)
    BY <1>0, <1>2 DEF Announcing
  <2>2. Audience(w, s, to_clients) \cap Admins \subseteq admins[w][s]
    BY CoroutinesAssumption DEF Audience, RoomsOK, CoroutinesAssumption
  <2> QED
    BY <2>1, <2>2
<1>3. ASSUME x \in Tills, TillStep(x)
      PROVE  FALSE
  <2>1. co'[x] \in TillCoroutine
    BY <1>0, <1>3, TillTypes
  <2> QED
    BY <2>1 DEF TillCoroutine, New, Over
<1>4. ASSUME x \in Admins, AdminStep(x)
      PROVE  Starts
  <2>1. \A w \in Workers, s \in Sessions : ~AdminEnters(x, w, s)
    BY <1>0 DEF AdminEnters
  <2>2. ~AdminGreeted(x)
    BY <1>0 DEF AdminGreeted, Over
  <2>3. ~AdminLeaves(x)
    <3>1. ASSUME AdminLeaves(x) PROVE co'[x].at = "departed"
      BY <1>0, <1>4, <3>1, AdminFields DEF AdminLeaves
    <3> QED
      BY <3>1
  <2>4. AnnouncePresence(x) \/ AdminEdits(x) \/ AdminCancels(x)
    BY <1>4, <2>1, <2>2, <2>3 DEF AdminStep
  <2>5. PICK w \in Workers, s \in Sessions : w = co[x].worker /\ s = co[x].session
    BY <1>4, <2>4, AdminFields DEF AnnouncePresence, AdminEdits, AdminCancels
  <2> QED
    BY <1>2, <2>4, <2>5 DEF AnnouncePresence, AdminEdits, AdminCancels
<1>5. ASSUME x \in Tasks, TaskStep(x)
      PROVE  Starts
  <2>1. \A w \in Workers, s \in Sessions : ~UpdateCart(x, w, s) /\ ~Pay(x, w, s)
    BY <1>0 DEF UpdateCart, Pay
  <2>2. \A w \in Workers, c \in Counters, k \in Keys : ~Rotate(x, w, c, k)
    BY <1>0 DEF Rotate
  <2>3. ~ListOpenSessions(x)
    <3>1. \A w, s : ~Become(x, [at |-> "scheduled", worker |-> w, session |-> s,
                               job |-> "drop"])
      BY <1>0
    <3>2. ~Become(x, New)
      BY <1>0 DEF New
    <3> QED
      BY <3>1, <3>2 DEF ListOpenSessions
  <2>4. RunTask(x)
    BY <1>5, <2>1, <2>2, <2>3 DEF TaskStep
  <2>5. PICK w \in Workers, s \in Sessions : w = co[x].worker /\ s = co[x].session
    BY <1>5, <2>4, TaskFields DEF RunTask
  <2>6. ~Become(x, Dropping(w, s, "new"))
    BY <1>0 DEF Dropping
  <2> QED
    BY <1>2, <2>4, <2>5, <2>6 DEF RunTask
<1>6. ASSUME RoundStep(x)
      PROVE  Goes
  <2>1. PICK backs \in {{"over", "serving"}, {"new"}} :
          co[x] \in Announcements(backs) \cup Drops(backs)
    BY <1>6, RoundMoves, RoundFields
  <2>2. ~Resume(x)
    BY <1>0, <2>1 DEF Resume, Announcements, Drops
  <2>3. ~EndAnnouncement(x) /\ ~EndDrop(x)
    BY <1>0, <2>2 DEF EndAnnouncement, EndDrop, Dropping
  <2>4. ~DropNext(x)
    <3>1. ASSUME DropNext(x) PROVE co'[x].at = "dropping"
      <4>1. co[x] \in Drops(backs)
        BY <2>1, <3>1 DEF DropNext, At, Announcements
      <4>2. PICK k : Become(x, [co[x] EXCEPT !.targets = co[x].targets \ {k}])
        BY <3>1 DEF DropNext
      <4> QED
        BY <1>0, <4>1, <4>2 DEF Drops
    <3> QED
      BY <3>1
  <2>5. SendNext(x)
    BY <1>6, <2>3, <2>4 DEF RoundStep
  <2>6. co[x] \in Announcements(backs)
    BY <2>1, <2>5 DEF SendNext, At, Drops
  <2>7. PICK k : Become(x, [co[x] EXCEPT !.targets = co[x].targets \ {k}])
    BY <2>5 DEF SendNext
  <2>8. co'[x].worker = co[x].worker /\ co'[x].targets = co[x].targets \ {k}
    BY <1>0, <2>6, <2>7 DEF Announcements
  <2> QED
    BY <2>5, <2>8 DEF SendNext
<1> QED
  BY <1>1, <1>3, <1>4, <1>5, <1>6, OneMoves DEF New, Over

LEMMA ListenersNext ==
  ASSUME RolesOK, RoomsOK, LeaversAreDown, MembersAttend, ListenersAttend, [Next]_vars
  PROVE  ListenersAttend'
<1> SUFFICES ASSUME NEW x \in Coroutines, NEW a \in Admins, co'[x].at = "announcing",
                    a \in co'[x].targets
             PROVE  Attends(a, co[x].worker)'
  BY DEF ListenersAttend, At
<1>1. PICK w : w = co'[x].worker
  OBVIOUS
<1>2. Attends(a, w)
  <2>1. CASE /\ At(x, "announcing") /\ co'[x].targets \subseteq co[x].targets
             /\ co'[x].worker = co[x].worker
    BY <1>1, <2>1 DEF ListenersAttend
  <2>2. ASSUME NEW v \in Workers, NEW s \in Sessions,
               co'[x].worker = v, co'[x].targets \cap Admins \subseteq admins[v][s]
        PROVE  Attends(a, w)
    BY <1>1, <2>2 DEF MembersAttend
  <2> QED
    BY <2>1, <2>2, SendsStart
<1>3. Attends(a, w)'
  BY <1>2, AttendersStay
<1> QED
  BY <1>1, <1>3 DEF Attends

\* An administrator the news of a closed session is on its way to: in the room that
\* will be copied for a payment, or among those still to be told.
Untold(x, a) ==
  \/ /\ At(x, "scheduled") /\ co[x].job = "pay"
     /\ a \in admins[co[x].worker][co[x].session]
  \/ At(x, "announcing") /\ co[x].says.closed = TRUE /\ a \in co[x].targets

LEMMA UntoldNext ==
  ASSUME RolesOK, RoomsOK, LeaversAreDown, MembersAttend, ListenersAttend, [Next]_vars,
         LeaversAreDown', NEW x \in Coroutines, NEW a \in Admins, Untold(x, a),
         link'[a] = "up"
  PROVE  Untold(x, a)' \/ seen'[a].closed = TRUE
<1>0. a \in Sockets /\ \A r : Become(x, r) => co'[x] = r
  BY Becoming DEF Sockets
<1>1. PICK w, s : w = co[x].worker /\ s = co[x].session
  OBVIOUS
<1>2. x \notin Tills /\ w \in Workers /\ s \in Sessions
  <2>1. At(x, "scheduled") \/ At(x, "announcing")
    BY DEF Untold
  <2>2. co[x] \in TillCoroutine \cup AdminCoroutine \cup TaskCoroutine
    BY DEF RolesOK
  <2>3. x \notin Tills
    BY <2>1, TillFields DEF At
  <2> QED
    BY <1>1, <2>1, <2>2, <2>3
       DEF TillCoroutine, AdminCoroutine, TaskCoroutine, Announcements, Drops, New, Over, At
<1>3. Attends(a, w)
  BY <1>1, <1>2 DEF Untold, MembersAttend, ListenersAttend
<1>4. ~WorkerDies(w)
  <2>1. ASSUME WorkerDies(w) PROVE FALSE
    <3>1. Attends(a, w)'
      BY <1>3, AttendersStay
    <3>2. co'[a].at # "over"
      BY DEF LeaversAreDown, Leaving, At
    <3>3. link'[a] = IF a \in {y \in Sockets \cup Tasks : ~At(y, "new") /\ ~At(y, "over")
                                                            /\ co[y].worker = w}
                     THEN "down" ELSE link[a]
      BY <1>0, <2>1 DEF WorkerDies
    <3>4. CASE At(a, "over")
      BY <1>0, <3>3, <3>4 DEF LeaversAreDown, Leaving, At
    <3>5. CASE ~At(a, "over")
      BY <1>0, <1>3, <3>3, <3>5 DEF Attends
    <3> QED
      BY <3>4, <3>5
  <2> QED
    BY <2>1
<1>5. a \in admins[w][s] => a \in admins'[w][s]
  BY <1>2, <1>4, MembersMove
<1>6. CASE co'[x] = co[x]
  BY <1>1, <1>5, <1>6 DEF Untold, At
<1>7. ASSUME x \in Admins, AdminStep(x)
      PROVE  FALSE
  BY <1>7 DEF AdminStep, AdminEnters, AdminGreeted, AnnouncePresence, AdminEdits,
              AdminCancels, AdminLeaves, Untold, At
<1>8. ASSUME x \in Tasks, TaskStep(x)
      PROVE  Untold(x, a)'
  <2>1. /\ RunTask(x) /\ co[x].job = "pay" /\ a \in admins[w][s]
    BY <1>1, <1>8
       DEF TaskStep, UpdateCart, Pay, Rotate, ListOpenSessions, RunTask, Untold, At
  <2>2. Become(x, Announcing(w, s, TRUE, FALSE, TRUE, "new"))
    BY <1>1, <2>1 DEF RunTask
  <2>3. /\ co'[x].at = "announcing" /\ co'[x].says.closed = TRUE
        /\ co'[x].targets = Audience(w, s, FALSE)
    <3>1. PICK n : n = is_admin_present(w, s)
      OBVIOUS
    <3>2. co'[x] = [at |-> "announcing", worker |-> w, session |-> s,
                    says |-> [closed |-> TRUE, takeover |-> n],
                    targets |-> Audience(w, s, FALSE), drop |-> TRUE, back |-> "new"]
      BY <1>0, <2>2, <3>1 DEF Announcing
    <3> QED
      BY <3>2
  <2>4. a \in Audience(w, s, FALSE)
    BY <2>1 DEF Audience
  <2> QED
    BY <2>3, <2>4 DEF Untold, At
<1>9. ASSUME RoundStep(x)
      PROVE  Untold(x, a)' \/ seen'[a].closed = TRUE
  <2>1. /\ At(x, "announcing") /\ co[x].says.closed = TRUE /\ a \in co[x].targets
    BY <1>9, RoundMoves DEF Untold, At
  <2>2. PICK backs \in {{"over", "serving"}, {"new"}} : co[x] \in Announcements(backs)
    BY <2>1, RoundFields DEF Drops, At
  <2>3. SendNext(x)
    BY <1>9, <2>1 DEF RoundStep, EndAnnouncement, DropNext, EndDrop, At
  <2>4. PICK k \in FirstOf(co[x].targets) :
          /\ Send(co[x].worker, co[x].session, k, co[x].says)
          /\ Become(x, [co[x] EXCEPT !.targets = co[x].targets \ {k}])
    BY <2>3 DEF SendNext
  <2>5. CASE k = a
    <3>1. link[a] = "up"
      BY <2>4, <2>5 DEF Send, sockets, RoomsOK
    <3>2. seen' = [seen EXCEPT ![a] = co[x].says]
      BY <2>4, <2>5, <3>1 DEF Send
    <3> QED
      BY <1>0, <2>1, <3>2 DEF RoomsOK
  <2>6. CASE k # a
    <3>1. /\ co'[x].at = "announcing" /\ co'[x].says = co[x].says
          /\ co'[x].targets = co[x].targets \ {k}
      BY <1>0, <2>2, <2>4 DEF Announcements
    <3> QED
      BY <2>1, <2>6, <3>1 DEF Untold, At
  <2> QED
    BY <2>5, <2>6
<1> QED
  BY <1>1, <1>2, <1>4, <1>6, <1>7, <1>8, <1>9, OneMoves

\* The safety half of WatchersSeeThePayment: the news that a session is closed stays
\* on its way to every administrator it was meant for until that one has it or is
\* disconnected, whatever other sends fail and whoever leaves
\* (ws_manager.py:68-79, checkout_sessions.py:139-150, ws.py:308).
THEOREM NewsIsNotLost ==
  Spec => [][\A x \in Coroutines, a \in Admins :
               Untold(x, a) => \/ Untold(x, a)'
                               \/ seen'[a].closed = TRUE
                               \/ link'[a] = "down"]_vars
<1> DEFINE Sound == RolesOK /\ RoomsOK /\ LeaversAreDown /\ MembersAttend /\ ListenersAttend
<1>1. Init => Sound
  <2> SUFFICES ASSUME Init PROVE Sound
    OBVIOUS
  <2>1. \A x \in Coroutines : co[x] = New
    BY DEF Init, Coroutines
  <2>2. \A a \in Admins : link[a] = "down"
    BY DEF Init, NobodyWatches, Sockets
  <2>3. \A w \in Workers, s \in Sessions : admins[w][s] = {}
    BY DEF Init, NobodyWatches
  <2> QED
    BY <2>1, <2>2, <2>3, RolesInit
       DEF LeaversAreDown, MembersAttend, ListenersAttend, At, New
<1>2. Sound /\ [Next]_vars => Sound'
  BY RolesNext, LeaversNext, MembersNext, ListenersNext
<1>3. Sound /\ [Next]_vars =>
        [\A x \in Coroutines, a \in Admins :
           Untold(x, a) => \/ Untold(x, a)'
                           \/ seen'[a].closed = TRUE
                           \/ link'[a] = "down"]_vars
  <2> SUFFICES ASSUME Sound, [Next]_vars, NEW x \in Coroutines, NEW a \in Admins,
                      Untold(x, a), link'[a] # "down"
               PROVE  Untold(x, a)' \/ seen'[a].closed = TRUE
    OBVIOUS
  <2>1. LeaversAreDown'
    BY LeaversNext
  <2>2. link'[a] = "up"
    BY RolesNext DEF RoomsOK, Sockets
  <2> QED
    BY <2>1, <2>2, UntoldNext
<1> QED
  BY <1>1, <1>2, <1>3, PTL DEF Spec
=============================================================================
