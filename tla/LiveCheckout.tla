---------------------------- MODULE LiveCheckout ----------------------------
(***************************************************************************)
(* The live half of the checkout API: the WebSocket handlers of ws.py and  *)
(* the background tasks of the HTTP routes, on several worker processes,   *)
(* each with its own WsManager and all with the same tables.               *)
(*                                                                         *)
(* The tables are those of CheckoutPromise, whose operations are what the  *)
(* statements of CheckoutStore were shown to amount to.  A handler or task *)
(* is a coroutine: co[x] is its program counter with what it remembers,    *)
(* and an action runs it from one await to the next.                       *)
(***************************************************************************)
EXTENDS WsManager

CONSTANTS Counters, Keys, NoCounter,
          Tasks,  \* HTTP requests a worker is serving, with what follows them
          Mortal  \* the workers that may crash

ASSUME MortalAssumption == Mortal \subseteq Workers

\* A coroutine serves a till, an administrator or a request.
ASSUME CoroutinesAssumption ==
  /\ Tills \cap Admins = {}
  /\ (Tills \cup Admins) \cap Tasks = {}

VARIABLES
  counters, sessions, keys,  \* the tables
  co                         \* the coroutines

DB == INSTANCE CheckoutPromise
tables == <<counters, sessions, keys>>
live == <<clients, admins, link, seen>>
vars == <<clients, admins, link, seen, counters, sessions, keys, co>>
-----------------------------------------------------------------------------
New == [at |-> "new"]
Over == [at |-> "over"]
Backs == {"new", "over", "serving"}

Coroutine ==
       {New, Over}
  \* a till's handshake, then its receive loop
  \cup [at : {"authenticated"}, worker : Workers, key : Keys]
  \cup [at : {"greeting"}, worker : Workers, key : Keys, session : Sessions, says : News]
  \cup [at : {"joining", "serving"}, worker : Workers, key : Keys, session : Sessions]
  \* an admin's handshake, receive loop and way out
  \cup [at : {"greeting"}, worker : Workers, session : Sessions, says : News]
  \cup [at : {"arrived", "serving", "departed"}, worker : Workers, session : Sessions]
  \* a request whose answer is out and whose background task is to run
  \cup [at : {"rotated"}, worker : Workers, counter : Counters]
  \cup [at : {"scheduled"}, worker : Workers, session : Sessions,
        job : {"cart", "pay", "drop"}]
  \* inside broadcast and disconnect_clients
  \cup [at : {"announcing"}, worker : Workers, session : Sessions, says : News,
        targets : SUBSET Sockets, drop : BOOLEAN, back : Backs]
  \cup [at : {"dropping"}, worker : Workers, session : Sessions,
        targets : SUBSET Tills, back : Backs]

TypeOK ==
  /\ RoomsOK
  /\ co \in [Sockets \cup Tasks -> Coroutine]

Init ==
  /\ DB!Init /\ NobodyWatches
  /\ co = [x \in Sockets \cup Tasks |-> New]

Become(x, r) == co' = [co EXCEPT ![x] = r]
At(x, label) == co[x].at = label
Closed(s) == sessions[s].phase = "closed"

\* Entering broadcast: the payload is made and the room is copied.
Announcing(w, s, closed, to_clients, drop, back) ==
  [at |-> "announcing", worker |-> w, session |-> s,
   says |-> [closed |-> closed, takeover |-> is_admin_present(w, s)],
   targets |-> Audience(w, s, to_clients), drop |-> drop, back |-> back]

DroppingEverybody(w, s, back) ==                                   \* mutant
  [at |-> "dropping", worker |-> w, session |-> s, targets |-> Audience(w, s, TRUE),
   back |-> back]

Dropping(w, s, back) ==
  [at |-> "dropping", worker |-> w, session |-> s, targets |-> clients[w][s],
   back |-> back]

\* Where a coroutine goes on after what it announced or dropped.
Resume(x) ==
  Become(x, IF co[x].back = "serving"
            THEN [at |-> "serving", worker |-> co[x].worker, session |-> co[x].session]
            ELSE [at |-> co[x].back])
-----------------------------------------------------------------------------
(* The till's WebSocket.                                                   *)

\* accept and the key: a revoked one is told so and closed with 4401.
Accept(t, w, k) ==
  /\ At(t, "new")
  /\ \/ /\ keys[k].phase = "active"
        /\ link' = [link EXCEPT ![t] = "up"]
        /\ Become(t, [at |-> "authenticated", worker |-> w, key |-> k])
     \/ /\ keys[k].phase = "revoked"
        /\ Become(t, Over)
        /\ UNCHANGED link
  /\ UNCHANGED <<rooms, seen, tables>>

\* The open session of the key's counter, or a new one; the lost races and
\* database errors that end this in an exception close the socket.
FindOrCreateSession(t) ==
  /\ At(t, "authenticated")
  /\ LET c == keys[co[t].key].counter
         w == co[t].worker
         Found(s) == Become(t, [at |-> "greeting", worker |-> w, key |-> co[t].key,
                                session |-> s,
                                says |-> [closed |-> FALSE,
                                          takeover |-> is_admin_present(w, s)]])
     IN  \/ /\ \E s \in DB!OpenOf(c) : Found(s)
            /\ UNCHANGED <<tables, link>>
         \/ /\ \E s \in Sessions : DB!OpenSession(c, s) /\ Found(s)
            /\ UNCHANGED link
         \/ /\ Become(t, Over)
            /\ link' = [link EXCEPT ![t] = "down"]
            /\ UNCHANGED tables
  /\ UNCHANGED <<rooms, seen>>

\* The first session_state goes out before the socket is in the room; a failed
\* send ends the handler, which has nothing to unregister yet.
GreetOrWait(t) ==                                                  \* mutant
  /\ t \in Tills /\ At(t, "greeting") /\ link[t] = "up"
  /\ seen' = [seen EXCEPT ![t] = co[t].says]
  /\ Become(t, [at |-> "joining", worker |-> co[t].worker, key |-> co[t].key,
                session |-> co[t].session])
  /\ UNCHANGED <<rooms, link, tables>>

Greet(t) ==
  /\ t \in Tills /\ At(t, "greeting")
  /\ \/ /\ link[t] = "up"
        /\ seen' = [seen EXCEPT ![t] = co[t].says]
        /\ Become(t, [at |-> "joining", worker |-> co[t].worker, key |-> co[t].key,
                      session |-> co[t].session])
     \/ /\ link[t] = "down"
        /\ Become(t, Over)
        /\ UNCHANGED seen
  /\ UNCHANGED <<rooms, link, tables>>

Join(t) ==
  /\ At(t, "joining")
  /\ register_client(co[t].worker, co[t].session, t)
  /\ Become(t, [co[t] EXCEPT !.at = "serving"])
  /\ UNCHANGED <<admins, link, seen, tables>>

\* The receive loop ends with the connection; `finally' unregisters.
TillLeavesRegistered(t) ==                                         \* mutant
  /\ t \in Tills /\ At(t, "serving") /\ link[t] = "down"
  /\ Become(t, Over)
  /\ UNCHANGED <<live, tables>>

TillLeaves(t) ==
  /\ t \in Tills /\ At(t, "serving") /\ link[t] = "down"
  /\ unregister_client(co[t].worker, co[t].session, t)
  /\ Become(t, Over)
  /\ UNCHANGED <<admins, link, seen, tables>>
-----------------------------------------------------------------------------
(* The admin's WebSocket.                                                  *)

\* Token verified and session found, open or not; registered, then greeted.
AdminEnters(a, w, s) ==
  /\ At(a, "new")
  /\ sessions[s].phase \in {"open", "closed"}
  /\ link' = [link EXCEPT ![a] = "up"]
  /\ register_admin(w, s, a)
  /\ Become(a, [at |-> "greeting", worker |-> w, session |-> s,
                says |-> [closed |-> Closed(s), takeover |-> TRUE]])
  /\ UNCHANGED <<clients, seen, tables>>

\* This send is before the try: its failure ends the handler at once.
AdminGreeted(a) ==
  /\ a \in Admins /\ At(a, "greeting")
  /\ \/ /\ link[a] = "up"
        /\ seen' = [seen EXCEPT ![a] = co[a].says]
        /\ Become(a, [at |-> "arrived", worker |-> co[a].worker,
                      session |-> co[a].session])
     \/ /\ link[a] = "down"
        /\ Become(a, Over)
        /\ UNCHANGED seen
  /\ UNCHANGED <<rooms, link, tables>>

\* _broadcast_state_for_session, on the way in and on the way out.
AnnouncePresence(a) ==
  /\ At(a, "arrived") \/ At(a, "departed")
  /\ LET w == co[a].worker
         s == co[a].session
     IN  Become(a, Announcing(w, s, Closed(s), TRUE, FALSE,
                              IF At(a, "arrived") THEN "serving" ELSE "over"))
  /\ UNCHANGED <<live, tables>>

\* remove_item, add_item and update_item_quantity on an open session.  A
\* command is taken from a connection that is up.
AdminEdits(a) ==
  /\ a \in Admins /\ At(a, "serving") /\ link[a] = "up"
  /\ sessions[co[a].session].phase = "open"
  /\ Become(a, Announcing(co[a].worker, co[a].session, FALSE, TRUE, FALSE, "serving"))
  /\ UNCHANGED <<live, tables>>

AdminCancels(a) ==
  /\ a \in Admins /\ At(a, "serving") /\ link[a] = "up"
  /\ DB!CloseOpen(co[a].session)
  /\ Become(a, Announcing(co[a].worker, co[a].session, TRUE, TRUE, TRUE, "serving"))
  /\ UNCHANGED live

AdminLeaves(a) ==
  /\ a \in Admins /\ At(a, "serving") /\ link[a] = "down"
  /\ unregister_admin(co[a].worker, co[a].session, a)
  /\ Become(a, [co[a] EXCEPT !.at = "departed"])
  /\ UNCHANGED <<clients, link, seen, tables>>
-----------------------------------------------------------------------------
(* The HTTP routes: a commit, then a background task on the worker's loop. *)

CreateCounter(c, k) == DB!Establish(c, k) /\ UNCHANGED <<live, co>>

ConnectOverHttp(c, s) == DB!OpenSession(c, s) /\ UNCHANGED <<live, co>>

UpdateCart(h, w, s) ==
  /\ At(h, "new")
  /\ sessions[s].phase = "open"
  /\ Become(h, [at |-> "scheduled", worker |-> w, session |-> s, job |-> "cart"])
  /\ UNCHANGED <<live, tables>>

Pay(h, w, s) ==
  /\ At(h, "new")
  /\ DB!CloseOpen(s)
  /\ Become(h, [at |-> "scheduled", worker |-> w, session |-> s, job |-> "pay"])
  /\ UNCHANGED live

Rotate(h, w, c, k) ==
  /\ At(h, "new")
  /\ DB!Rotate(c, k)
  /\ Become(h, [at |-> "rotated", worker |-> w, counter |-> c])
  /\ UNCHANGED live

\* The open sessions are read after the commit of the rotation.
ListOpenSessions(h) ==
  /\ At(h, "rotated")
  /\ \/ \E s \in DB!OpenOf(co[h].counter) :
          Become(h, [at |-> "scheduled", worker |-> co[h].worker, session |-> s,
                     job |-> "drop"])
     \/ DB!OpenOf(co[h].counter) = {} /\ Become(h, New)
  /\ UNCHANGED <<live, tables>>

\* _broadcast_session_state, _broadcast_paid_session_and_disconnect (admins
\* only, then the clients are dropped) and disconnect_clients.
RunTaskNotTellingAdmins(h) ==                                      \* mutant
  /\ At(h, "scheduled")
  /\ LET w == co[h].worker
         s == co[h].session
     IN  \/ /\ co[h].job = "cart"
            /\ Become(h, Announcing(w, s, FALSE, TRUE, FALSE, "new"))
         \/ co[h].job # "cart" /\ Become(h, Dropping(w, s, "new"))
  /\ UNCHANGED <<live, tables>>

RunTaskDroppingAlways(h) ==                                        \* mutant
  /\ At(h, "scheduled")
  /\ Become(h, Announcing(co[h].worker, co[h].session, co[h].job = "pay", FALSE,
                          TRUE, "new"))
  /\ UNCHANGED <<live, tables>>

RunTask(h) ==
  /\ At(h, "scheduled")
  /\ LET w == co[h].worker
         s == co[h].session
     IN  \/ /\ co[h].job = "cart"
            /\ Become(h, Announcing(w, s, FALSE, TRUE, FALSE, "new"))
         \/ /\ co[h].job = "pay"
            /\ Become(h, Announcing(w, s, TRUE, FALSE, TRUE, "new"))
         \/ /\ co[h].job = "drop"
            /\ Become(h, Dropping(w, s, "new"))
  /\ UNCHANGED <<live, tables>>
-----------------------------------------------------------------------------
(* broadcast and disconnect_clients, socket by socket.                     *)

SendNext(x) ==
  /\ At(x, "announcing")
  /\ \E k \in FirstOf(co[x].targets) :
       /\ Send(co[x].worker, co[x].session, k, co[x].says)
       /\ Become(x, [co[x] EXCEPT !.targets = @ \ {k}])
  /\ UNCHANGED tables

EndAnnouncement(x) ==
  /\ At(x, "announcing") /\ co[x].targets = {}
  /\ \/ co[x].drop /\ Become(x, Dropping(co[x].worker, co[x].session, co[x].back))
     \/ ~co[x].drop /\ Resume(x)
  /\ UNCHANGED <<live, tables>>

DropFirstOnly(x) ==                                                \* mutant
  /\ At(x, "dropping")
  /\ \E k \in co[x].targets :
       /\ Drop(co[x].worker, co[x].session, k)
       /\ Become(x, [co[x] EXCEPT !.targets = {}])
  /\ UNCHANGED tables

DropNext(x) ==
  /\ At(x, "dropping")
  /\ \E k \in co[x].targets :
       /\ Drop(co[x].worker, co[x].session, k)
       /\ Become(x, [co[x] EXCEPT !.targets = @ \ {k}])
  /\ UNCHANGED tables

EndDrop(x) ==
  /\ At(x, "dropping") /\ co[x].targets = {}
  /\ Resume(x)
  /\ UNCHANGED <<live, tables>>
-----------------------------------------------------------------------------
(* What no coroutine decides.                                              *)

\* The peer goes away, or an admin's token no longer verifies (4401).
HangUp(k) ==
  /\ link[k] = "up"
  /\ link' = [link EXCEPT ![k] = "down"]
  /\ UNCHANGED <<rooms, seen, tables, co>>

\* A worker process dies with its coroutines, sockets and manager.
WorkerDies(w) ==
  LET lost == {x \in Sockets \cup Tasks : ~At(x, "new") /\ ~At(x, "over")
                                            /\ co[x].worker = w}
  IN  /\ lost # {}
      /\ co' = [x \in DOMAIN co |->
                  IF x \notin lost THEN co[x] ELSE IF x \in Tasks THEN New ELSE Over]
      /\ link' = [k \in Sockets |-> IF k \in lost THEN "down" ELSE link[k]]
      /\ clients' = [clients EXCEPT ![w] = [s \in Sessions |-> {}]]
      /\ admins' = [admins EXCEPT ![w] = [s \in Sessions |-> {}]]
      /\ UNCHANGED <<seen, tables>>

\* What the event loop of a worker does with a coroutine it may run.
Proceed(x) ==
  \/ x \in Tills /\ (FindOrCreateSession(x) \/ Greet(x) \/ Join(x) \/ TillLeaves(x))
  \/ x \in Admins /\ (AdminGreeted(x) \/ AnnouncePresence(x) \/ AdminLeaves(x))
  \/ x \in Tasks /\ (ListOpenSessions(x) \/ RunTask(x))
  \/ SendNext(x) \/ EndAnnouncement(x) \/ DropNext(x) \/ EndDrop(x)

\* What comes from outside: requests, connections, commands, failures.
Environment ==
  \/ \E c \in Counters, k \in Keys : CreateCounter(c, k)
  \/ \E c \in Counters, s \in Sessions : ConnectOverHttp(c, s)
  \/ \E w \in Workers :
       \/ \E t \in Tills, k \in Keys : Accept(t, w, k)
       \/ \E a \in Admins, s \in Sessions : AdminEnters(a, w, s)
       \/ \E h \in Tasks, s \in Sessions : UpdateCart(h, w, s) \/ Pay(h, w, s)
       \/ \E h \in Tasks, c \in Counters, k \in Keys : Rotate(h, w, c, k)
       \/ w \in Mortal /\ WorkerDies(w)
  \/ \E a \in Admins : AdminEdits(a) \/ AdminCancels(a)
  \/ \E k \in Sockets : HangUp(k)

Next == Environment \/ \E x \in Sockets \cup Tasks : Proceed(x)

\* An event loop runs every coroutine that is ready; no send waits forever,
\* because the server pings its peers and gives up on those that do not answer.
Fairness == \A x \in Sockets \cup Tasks : WF_vars(Proceed(x))

Spec == Init /\ [][Next]_vars
FairSpec == Spec /\ Fairness
-----------------------------------------------------------------------------
Serving(x, w, s) == At(x, "serving") /\ co[x].worker = w /\ co[x].session = s

\* A till is in a room exactly as long as a handler of that worker serves it
\* for that session: no failed handshake, failed send, drop or disconnection
\* leaves a dead socket behind or takes out a live one.
ClientsAreServed ==
  \A w \in Workers, s \in Sessions, t \in Tills :
    /\ t \in clients[w][s] => Serving(t, w, s)
    /\ Serving(t, w, s) /\ link[t] = "up" => t \in clients[w][s]

\* The server closes a till's socket only because its session was closed or a
\* key of its counter was replaced: nobody loses a running session to a cart
\* update, to another counter's payment or to an admin who comes or goes.
DropsHaveAReason ==
  [][\A x \in DOMAIN co, t \in Tills :
       DropNext(x) /\ link[t] = "up" /\ link'[t] = "down" =>
         \/ Closed(co[t].session)
         \/ \E k \in Keys : /\ keys[k].phase = "revoked"
                            /\ keys[k].counter = sessions[co[t].session].counter]_vars

\* A payment or rotation reaches every till that is in the room of the same
\* worker when the task starts to wait for its turn, however many sends fail and
\* whoever joins or leaves meanwhile.
Condemned(h, t) ==
  /\ At(h, "scheduled") /\ co[h].job \in {"pay", "drop"}
  /\ t \in clients[co[h].worker][co[h].session]
PresentTillsAreDropped ==
  \A h \in Tasks, t \in Tills : Condemned(h, t) ~> link[t] = "down"

\* An admin watching a session on the worker that takes its payment gets to see
\* it closed, or is gone: a dead socket earlier in the list never stops the rest.
Paying(h, a) ==
  /\ At(h, "scheduled") /\ co[h].job = "pay"
  /\ a \in admins[co[h].worker][co[h].session]
WatchersSeeThePayment ==
  \A h \in Tasks, a \in Admins : Paying(h, a) ~> (seen[a].closed \/ link[a] = "down")

\* However a connection ends, its handler ends: nobody waits for it forever.
HandlersEnd ==
  \A k \in Sockets : (link[k] = "down" /\ ~At(k, "new")) ~> At(k, "over")

\* What the README says of a key rotation: active clients are disconnected.
RotationDisconnects ==
  \A t \in Tills : (At(t, "serving") /\ keys[co[t].key].phase = "revoked")
                     ~> ~At(t, "serving")
=============================================================================
