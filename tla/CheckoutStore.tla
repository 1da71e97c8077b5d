--------------------------- MODULE CheckoutStore ---------------------------
(***************************************************************************)
(* The checkout tables (checkoutcounter, checkoutsession and the rows of   *)
(* apikey with purpose "checkout_counter") and the requests that read and  *)
(* write them: the HTTP handlers of checkout_sessions.py and               *)
(* checkout_counters.py and the database half of the WebSocket handlers of *)
(* ws.py.                                                                  *)
(*                                                                         *)
(* A handler runs on a thread pool or on an event loop, in any of several  *)
(* worker processes, with a database session of its own: between two of    *)
(* its SQL statements any other request may commit.  A request is          *)
(* therefore a small process: `at' says which statement comes next, the    *)
(* other fields of its record are the values it read and will use.  The    *)
(* database runs at READ COMMITTED, no handler takes a row lock before its *)
(* UPDATE, and an UPDATE carries only the columns the request changed, so  *)
(* flush and COMMIT are one action guarded by what the tables enforce:     *)
(* primary keys, foreign keys and the two partial unique indexes.          *)
(***************************************************************************)
EXTENDS FiniteSets

CONSTANTS
  Counters, Sessions, Keys,  \* identifiers, never used twice (UUIDs)
  Requests,                  \* requests the server works on at a time
  Carts, EmptyCart,          \* cart contents
  Modes, DefaultMode,        \* ml_mode; stands for language and name too
  Cameras, NoCamera,         \* device ids; NoCamera is null
  NoCounter                  \* counter_id of a row that does not exist yet

ASSUME ConstantsAssumption ==
  /\ EmptyCart \in Carts
  /\ DefaultMode \in Modes
  /\ NoCamera \notin Cameras
  /\ NoCounter \notin Counters

VARIABLES
  counter,       \* checkoutcounter
  session,       \* checkoutsession
  apiKey,        \* apikey rows bound to a counter
  everReported,  \* history: cameras some committed report of a counter named
  req            \* the requests being served

tables == <<counter, session, apiKey>>
vars == <<counter, session, apiKey, everReported, req>>
-----------------------------------------------------------------------------
Camera == Cameras \cup {NoCamera}
Settings == [mode : Modes, camera : Camera]
DefaultSettings == [mode |-> DefaultMode, camera |-> NoCamera]

\* A row that was never inserted has phase "none", a deleted one "gone".
CounterRow == [phase : {"none", "live", "gone"}, settings : Settings,
               cameras : SUBSET Cameras]
SessionRow ==
  [phase : {"open", "closed", "gone"}, counter : Counters,
   cart : Carts, settings : Settings]
    \cup [phase : {"none"}, counter : {NoCounter}, cart : Carts, settings : Settings]
KeyRow == [phase : {"active", "revoked", "gone"}, counter : Counters]
            \cup [phase : {"none"}, counter : {NoCounter}]

\* What a request authenticated by a counter key asks for.
ConnectJob == [do : {"connect"}, discovered : BOOLEAN, report : SUBSET Cameras]
CartJob == [do : {"cart"}, session : Sessions, cart : Carts]
PayJob == [do : {"pay"}, session : Sessions]
Job == ConnectJob \cup CartJob \cup PayJob

\* Who writes a session: a counter by its key, or an administrator.
Caller == Counters \cup {NoCounter}

Idle == [at |-> "idle"]
Request ==
       {Idle}
  \cup [at : {"keyed", "authorised"}, counter : Counters, job : Job]
  \cup [at : {"connecting"}, counter : Counters, cameras : SUBSET Cameras,
        job : ConnectJob]
  \cup [at : {"refreshing", "clashed"}, counter : Counters]
  \cup [at : {"searching", "creating"}, counter : Counters, settings : Settings]
  \cup [at : {"inserted", "answering"}, counter : Counters, session : Sessions]
  \cup [at : {"editing"}, by : Caller, session : Sessions, seen : Carts, cart : Carts]
  \cup [at : {"closing"}, by : Caller, session : Sessions]
  \cup [at : {"reporting"}, counter : Counters, cameras : SUBSET Cameras,
        report : SUBSET Cameras]
  \cup [at : {"configuring"}, counter : Counters, seen : Settings,
        settings : Settings]
  \cup [at : {"rotating"}, counter : Counters, old : SUBSET Keys]
  \cup [at : {"deleting"}, counter : Counters, children : SUBSET Sessions]

TypeOK ==
  /\ counter \in [Counters -> CounterRow]
  /\ session \in [Sessions -> SessionRow]
  /\ apiKey \in [Keys -> KeyRow]
  /\ everReported \in [Counters -> SUBSET Cameras]
  /\ req \in [Requests -> Request]

Live(c) == counter[c].phase = "live"
Open(s) == session[s].phase = "open"
Stored(s) == session[s].phase \in {"open", "closed"}
SessionsOf(c) == {s \in Sessions : Stored(s) /\ session[s].counter = c}
get_open_checkout_session(c) == {s \in SessionsOf(c) : Open(s)}
ActiveKeys(c) ==
  {k \in Keys : apiKey[k].phase = "active" /\ apiKey[k].counter = c}

Init ==
  /\ counter = [c \in Counters |-> [phase |-> "none", settings |-> DefaultSettings,
                                    cameras |-> {}]]
  /\ session = [s \in Sessions |-> [phase |-> "none", counter |-> NoCounter,
                                    cart |-> EmptyCart, settings |-> DefaultSettings]]
  /\ apiKey = [k \in Keys |-> [phase |-> "none", counter |-> NoCounter]]
  /\ everReported = [c \in Counters |-> {}]
  /\ req = [p \in Requests |-> Idle]

\* Request p goes on with record r, or ends when r is Idle.
Become(p, r) == req' = [req EXCEPT ![p] = r]
At(p, label) == req[p].at = label
-----------------------------------------------------------------------------
(* Authentication: the key row, then the counter row it points at.         *)

\* 401 for a revoked key; the key's row is not read again in this request.
ReadKey(p, k, job) ==
  /\ At(p, "idle")
  /\ \/ /\ apiKey[k].phase = "active"
        /\ Become(p, [at |-> "keyed", counter |-> apiKey[k].counter, job |-> job])
     \/ apiKey[k].phase # "active" /\ UNCHANGED req
  /\ UNCHANGED <<tables, everReported>>

LoadCounter(p) ==
  /\ At(p, "keyed")
  /\ LET c == req[p].counter
         job == req[p].job
     IN  \/ ~Live(c) /\ Become(p, Idle)                                \* 401
         \/ /\ Live(c) /\ job.do # "connect"
            /\ Become(p, [at |-> "authorised", counter |-> c, job |-> job])
         \/ /\ Live(c) /\ job.do = "connect" /\ job.discovered
            /\ Become(p, [at |-> "connecting", counter |-> c, job |-> job,
                          cameras |-> counter[c].cameras])
         \/ /\ Live(c) /\ job.do = "connect" /\ ~job.discovered
            /\ Become(p, [at |-> "searching", counter |-> c,
                          settings |-> counter[c].settings])
  /\ UNCHANGED <<tables, everReported>>
-----------------------------------------------------------------------------
(* Camera inventory: the column is written only when it differs from the   *)
(* value the request read; the UPDATE fails when the row is gone.          *)

StoreCameras(c, seen, report) ==
  /\ counter' = [counter EXCEPT ![c].cameras = IF report = seen THEN @ ELSE report]
  /\ everReported' = [everReported EXCEPT ![c] = @ \cup report]

ConnectStoresCameras(p) ==
  /\ At(p, "connecting")
  /\ LET c == req[p].counter
     IN  \/ /\ Live(c)
            /\ StoreCameras(c, req[p].cameras, req[p].job.report)
            /\ Become(p, [at |-> "refreshing", counter |-> c])
         \/ /\ ~Live(c)                                                \* 500
            /\ Become(p, Idle)
            /\ UNCHANGED <<counter, everReported>>
  /\ UNCHANGED <<session, apiKey>>

\* session.refresh(db_counter): the settings the new session will copy.
RefreshCounter(p) ==
  /\ At(p, "refreshing")
  /\ LET c == req[p].counter
     IN  \/ /\ Live(c)
            /\ Become(p, [at |-> "searching", counter |-> c,
                          settings |-> counter[c].settings])
         \/ ~Live(c) /\ Become(p, Idle)                                \* 500
  /\ UNCHANGED <<tables, everReported>>

\* A report over the checkout-session WebSocket; the socket may outlive both
\* its key and its counter, an unknown counter is ignored.
ReadForReport(p, c, report) ==
  /\ At(p, "idle")
  /\ Live(c)
  /\ Become(p, [at |-> "reporting", counter |-> c, report |-> report,
                cameras |-> counter[c].cameras])
  /\ UNCHANGED <<tables, everReported>>

StoreReport(p) ==
  /\ At(p, "reporting")
  /\ IF Live(req[p].counter)
     THEN StoreCameras(req[p].counter, req[p].cameras, req[p].report)
     ELSE UNCHANGED <<counter, everReported>>
  /\ Become(p, Idle)
  /\ UNCHANGED <<session, apiKey>>
-----------------------------------------------------------------------------
(* Connecting: the open session of the counter, or a new one.              *)

Answer(p, c, s) ==
  Become(p, [at |-> "answering", counter |-> c, session |-> s])

FindOpenSession(p) ==
  /\ At(p, "searching")
  /\ LET c == req[p].counter
         open == get_open_checkout_session(c)
     IN  \/ \E s \in open : Answer(p, c, s)
         \/ /\ open = {}
            /\ Become(p, [at |-> "creating", counter |-> c,
                          settings |-> req[p].settings])
  /\ UNCHANGED <<tables, everReported>>

\* INSERT and COMMIT of create_checkout_session: the foreign key and the
\* partial unique index on open sessions reject the row (IntegrityError).
InsertWithoutIndex(c) == Live(c)                                   \* mutant
InsertWithoutForeignKey(c) == get_open_checkout_session(c) = {}    \* mutant
InsertAccepted(c) == Live(c) /\ get_open_checkout_session(c) = {}

InsertSession(p) ==
  /\ At(p, "creating")
  /\ LET c == req[p].counter
     IN  \/ /\ InsertAccepted(c)
            /\ \E s \in Sessions :
                 /\ session[s].phase = "none"
                 /\ session' = [session EXCEPT ![s] =
                                  [phase |-> "open", counter |-> c,
                                   cart |-> EmptyCart, settings |-> req[p].settings]]
                 /\ Become(p, [at |-> "inserted", counter |-> c, session |-> s])
         \/ /\ ~InsertAccepted(c)
            /\ Become(p, [at |-> "clashed", counter |-> c])
            /\ UNCHANGED session
  /\ UNCHANGED <<counter, apiKey, everReported>>

\* After the rollback: the session somebody else opened, or 500.
FindWinnerUnchecked(p) ==                                          \* mutant
  /\ At(p, "clashed")
  /\ LET c == req[p].counter
         open == get_open_checkout_session(c)
     IN  \/ \E s \in open : Answer(p, c, s)
         \/ open = {} /\ Answer(p, c, NoCounter)
  /\ UNCHANGED <<tables, everReported>>

FindWinner(p) ==
  /\ At(p, "clashed")
  /\ LET c == req[p].counter
         open == get_open_checkout_session(c)
     IN  \/ \E s \in open : Answer(p, c, s)
         \/ open = {} /\ Become(p, Idle)
  /\ UNCHANGED <<tables, everReported>>

RefreshSession(p) ==
  /\ At(p, "inserted")
  /\ LET s == req[p].session
     IN  \/ Stored(s) /\ Answer(p, req[p].counter, s)
         \/ ~Stored(s) /\ Become(p, Idle)                              \* 500
  /\ UNCHANGED <<tables, everReported>>

Reply(p) ==
  /\ At(p, "answering")
  /\ Become(p, Idle)
  /\ UNCHANGED <<tables, everReported>>
-----------------------------------------------------------------------------
(* Cart updates, payment and the admin's commands on one session.          *)

\* 404 for an unknown session, 403 for a session of another counter.
require_session(s, c) == Stored(s) /\ session[s].counter = c

\* With the test that the session is not closed (400).
RequireSession(p) ==
  /\ At(p, "authorised")
  /\ LET job == req[p].job
         s == job.session
         granted == require_session(s, req[p].counter) /\ Open(s)
     IN  \/ ~granted /\ Become(p, Idle)
         \/ /\ granted /\ job.do = "cart"
            /\ Become(p, [at |-> "editing", by |-> req[p].counter, session |-> s,
                          seen |-> session[s].cart, cart |-> job.cart])
         \/ /\ granted /\ job.do = "pay"
            /\ Become(p, [at |-> "closing", by |-> req[p].counter, session |-> s])
  /\ UNCHANGED <<tables, everReported>>

\* remove_item, add_item, update_item_quantity: a cart made from the one read.
AdminReadsForEdit(p, s, cart) ==
  /\ At(p, "idle")
  /\ Open(s)
  /\ Become(p, [at |-> "editing", by |-> NoCounter, session |-> s,
                seen |-> session[s].cart, cart |-> cart])
  /\ UNCHANGED <<tables, everReported>>

AdminCancelsTwice(p, s) ==                                         \* mutant
  /\ At(p, "idle")
  /\ Stored(s)
  /\ Become(p, [at |-> "closing", by |-> NoCounter, session |-> s])
  /\ UNCHANGED <<tables, everReported>>

AdminReadsForCancel(p, s) ==
  /\ At(p, "idle")
  /\ Open(s)
  /\ Become(p, [at |-> "closing", by |-> NoCounter, session |-> s])
  /\ UNCHANGED <<tables, everReported>>

StoreWholeRow(p) ==                                                \* mutant
  /\ At(p, "editing")
  /\ LET s == req[p].session
     IN  session' = IF Stored(s)
                    THEN [session EXCEPT ![s].cart = req[p].cart, ![s].phase = "open"]
                    ELSE session
  /\ Become(p, Idle)
  /\ UNCHANGED <<counter, apiKey, everReported>>

\* A row that has gone since fails the UPDATE (StaleDataError, 500).
StoreCart(p) ==
  /\ At(p, "editing")
  /\ LET s == req[p].session
     IN  session' = IF Stored(s) /\ req[p].cart # req[p].seen
                    THEN [session EXCEPT ![s].cart = req[p].cart]
                    ELSE session
  /\ Become(p, Idle)
  /\ UNCHANGED <<counter, apiKey, everReported>>

CloseSession(p) ==
  /\ At(p, "closing")
  /\ LET s == req[p].session
     IN  session' = IF Stored(s)
                    THEN [session EXCEPT ![s].phase = "closed"]
                    ELSE session
  /\ Become(p, Idle)
  /\ UNCHANGED <<counter, apiKey, everReported>>
-----------------------------------------------------------------------------
(* Counters: creation, settings, key rotation and deletion by a superuser. *)

CreateCounter(p, c, k) ==
  /\ At(p, "idle")
  /\ counter[c].phase = "none" /\ apiKey[k].phase = "none"
  /\ counter' = [counter EXCEPT ![c].phase = "live"]
  /\ apiKey' = [apiKey EXCEPT ![k] = [phase |-> "active", counter |-> c]]
  /\ UNCHANGED <<session, everReported, req>>

\* _validate_camera_selection refuses with 422.
SelectAnyCamera(c, settings) == settings.camera \in Camera         \* mutant
SelectionAllowed(c, settings) ==
  settings.camera \in {NoCamera, counter[c].settings.camera} \cup counter[c].cameras

ReadForSettings(p, c, settings) ==
  /\ At(p, "idle")
  /\ Live(c)
  /\ SelectionAllowed(c, settings)
  /\ Become(p, [at |-> "configuring", counter |-> c, settings |-> settings,
                seen |-> counter[c].settings])
  /\ UNCHANGED <<tables, everReported>>

\* Only the columns that differ from the row the request read are written.
Merge(now, seen, new) ==
  [mode |-> IF new.mode = seen.mode THEN now.mode ELSE new.mode,
   camera |-> IF new.camera = seen.camera THEN now.camera ELSE new.camera]

StoreSettings(p) ==
  /\ At(p, "configuring")
  /\ LET c == req[p].counter
     IN  counter' = IF Live(c)
                    THEN [counter EXCEPT ![c].settings =
                            Merge(@, req[p].seen, req[p].settings)]
                    ELSE counter
  /\ Become(p, Idle)
  /\ UNCHANGED <<session, apiKey, everReported>>

ReadActiveKeys(p, c) ==
  /\ At(p, "idle")
  /\ Live(c)
  /\ Become(p, [at |-> "rotating", counter |-> c, old |-> ActiveKeys(c)])
  /\ UNCHANGED <<tables, everReported>>

\* Revokes the keys it read and inserts the new one.  The unique index on
\* active keys and the foreign key reject the insert, and then nothing is
\* written (500).
RotateWithoutIndex(c, old) == Live(c)                              \* mutant
RotationAccepted(c, old) == Live(c) /\ ActiveKeys(c) \subseteq old

StoreRotatedKey(p) ==
  /\ At(p, "rotating")
  /\ LET c == req[p].counter
         old == req[p].old
     IN  \/ /\ RotationAccepted(c, old)
            /\ \E k \in Keys :
                 /\ apiKey[k].phase = "none"
                 /\ apiKey' = [x \in Keys |->
                      IF x = k THEN [phase |-> "active", counter |-> c]
                      ELSE IF x \in old THEN [apiKey[x] EXCEPT !.phase = "revoked"]
                      ELSE apiKey[x]]
         \/ ~RotationAccepted(c, old) /\ UNCHANGED apiKey
  /\ Become(p, Idle)
  /\ UNCHANGED <<counter, session, everReported>>

\* The flush first loads the counter's sessions: the relationship has no
\* delete cascade, so their counter_id is set to null, which NOT NULL rejects.
ReadForDelete(p, c) ==
  /\ At(p, "idle")
  /\ Live(c)
  /\ Become(p, [at |-> "deleting", counter |-> c, children |-> SessionsOf(c)])
  /\ UNCHANGED <<tables, everReported>>

\* With no child loaded the DELETE runs; the foreign keys of sessions and keys
\* are ON DELETE CASCADE and take the rows inserted in between.
DeleteCounter(p) ==
  /\ At(p, "deleting")
  /\ LET c == req[p].counter
     IN  \/ /\ req[p].children = {} /\ Live(c)
            /\ counter' = [counter EXCEPT ![c].phase = "gone"]
            /\ session' = [s \in Sessions |->
                 IF s \in SessionsOf(c) THEN [session[s] EXCEPT !.phase = "gone"]
                 ELSE session[s]]
            /\ apiKey' = [k \in Keys |->
                 IF apiKey[k].counter = c THEN [apiKey[k] EXCEPT !.phase = "gone"]
                 ELSE apiKey[k]]
         \/ /\ req[p].children # {} \/ ~Live(c)
            /\ UNCHANGED tables
  /\ Become(p, Idle)
  /\ UNCHANGED everReported

\* The worker dies, or its connection drops: the open transaction is undone.
Abort(p) ==
  /\ ~At(p, "idle")
  /\ Become(p, Idle)
  /\ UNCHANGED <<tables, everReported>>
-----------------------------------------------------------------------------
Start(p) ==
  \/ \E k \in Keys, job \in Job : ReadKey(p, k, job)
  \/ \E c \in Counters, report \in SUBSET Cameras : ReadForReport(p, c, report)
  \/ \E s \in Sessions, cart \in Carts : AdminReadsForEdit(p, s, cart)
  \/ \E s \in Sessions : AdminReadsForCancel(p, s)
  \/ \E c \in Counters, k \in Keys : CreateCounter(p, c, k)
  \/ \E c \in Counters, settings \in Settings : ReadForSettings(p, c, settings)
  \/ \E c \in Counters : ReadActiveKeys(p, c)
  \/ \E c \in Counters : ReadForDelete(p, c)

Continue(p) ==
  \/ LoadCounter(p) \/ ConnectStoresCameras(p) \/ RefreshCounter(p)
  \/ FindOpenSession(p) \/ InsertSession(p) \/ FindWinner(p)
  \/ RefreshSession(p) \/ Reply(p)
  \/ RequireSession(p) \/ StoreCart(p) \/ CloseSession(p)
  \/ StoreReport(p) \/ StoreSettings(p) \/ StoreRotatedKey(p) \/ DeleteCounter(p)

Next == \E p \in Requests : Start(p) \/ Continue(p) \/ Abort(p)

Spec == Init /\ [][Next]_vars
-----------------------------------------------------------------------------
(* Safety.                                                                 *)

\* The index of migration 7c9f2d1b4e10 and the retry of create_checkout_session
\* together: however connects, payments and deletions interleave, a counter
\* never has two open sessions, so a customer's cart is never split.
AtMostOneOpenSession ==
  \A c \in Counters : \A s, t \in get_open_checkout_session(c) : s = t

\* Rotation revokes and inserts in one transaction and loses races to the index
\* of migration de45fa67bc89: a live counter always has exactly one usable key,
\* never none (a locked-out counter) and never two (a key that outlived a
\* rotation).
ExactlyOneActiveKey ==
  \A c \in Counters : Live(c) => \E k \in Keys : ActiveKeys(c) = {k}

\* A session or key inserted while its counter is being deleted goes with it:
\* no stored row points at a counter that is gone.
NoOrphans ==
  /\ \A s \in Sessions : Stored(s) => Live(session[s].counter)
  /\ \A k \in Keys : apiKey[k].phase \in {"active", "revoked"} => Live(apiKey[k].counter)

\* A request authenticated with a counter's key answers with, edits and closes
\* sessions of that counter only, whatever was committed since it read the key.
OwnSessionsOnly ==
  \A p \in Requests :
    /\ At(p, "inserted") \/ At(p, "answering") =>
         session[req[p].session].counter = req[p].counter
    /\ At(p, "editing") \/ At(p, "closing") =>
         req[p].by \in {NoCounter, session[req[p].session].counter}

\* Every camera selected on a counter, or copied into a session, was named by
\* some successful report of that counter: the validation of an update and the
\* later writes of other requests never let in a device nobody reported.
SelectionWasReported ==
  /\ \A c \in Counters : counter[c].settings.camera \in everReported[c] \cup {NoCamera}
  /\ \A s \in Sessions : Stored(s) =>
       session[s].settings.camera \in everReported[session[s].counter] \cup {NoCamera}

\* Once a session is closed no further request gets to the point of writing it:
\* the writers that can still change it are those that read it while open.
Writers(s) == {p \in Requests : (At(p, "editing") \/ At(p, "closing"))
                                 /\ req[p].session = s}
ClosedAttractsNoWriters ==
  [][\A s \in Sessions : session[s].phase = "closed" => Writers(s)' \subseteq Writers(s)]_vars

\* The settings a session carries, and the counter it belongs to, never change
\* from its insertion on; an update of the counter reaches the next session.
SnapshotFrozen ==
  [][\A s \in Sessions : session[s].phase # "none" =>
       /\ session'[s].settings = session[s].settings
       /\ session'[s].counter = session[s].counter]_vars

\* Every committed statement, in any interleaving, is a single step of the
\* lifecycle CheckoutPromise describes, or changes nothing it speaks of.
Promise == INSTANCE CheckoutPromise WITH
  counters <- [c \in Counters |-> counter[c].phase],
  sessions <- [s \in Sessions |-> [phase |-> session[s].phase,
                                   counter |-> session[s].counter]],
  keys <- apiKey
KeepsThePromise == Promise!Spec
=============================================================================
