--------------------------- MODULE CheckoutProofs ---------------------------
(* What is proved of CheckoutStore for any constants: its types and the    *)
(* case lemmas, its safety invariants, and that it implements              *)
(* CheckoutPromise.                                                        *)
EXTENDS CheckoutStore, TLAPS

\* What a request carries across an await agrees with the rows it read:
\* keys and counters belong together for as long as the request runs.
KnowsItsRows(p) ==
  /\ At(p, "rotating") =>
       \A k \in req[p].old : apiKey[k].counter = req[p].counter
  /\ At(p, "inserted") \/ At(p, "answering") =>
       session[req[p].session].counter = req[p].counter
  /\ At(p, "editing") \/ At(p, "closing") =>
       /\ session[req[p].session].counter \in Counters
       /\ req[p].by \in {NoCounter, session[req[p].session].counter}

RequestsKnowTheirRows == \A p \in Requests : KnowsItsRows(p)

\* The fields a request record has at each of its points.
LEMMA RequestFields ==
  ASSUME NEW r \in Request
  PROVE  /\ r.at \in {"keyed", "authorised"} => r.counter \in Counters /\ r.job \in Job
         /\ r.at = "connecting" =>
              /\ r.counter \in Counters /\ r.cameras \in SUBSET Cameras
              /\ r.job \in ConnectJob
         /\ r.at \in {"refreshing", "clashed"} => r.counter \in Counters
         /\ r.at \in {"searching", "creating"} =>
              r.counter \in Counters /\ r.settings \in Settings
         /\ r.at \in {"inserted", "answering"} =>
              r.counter \in Counters /\ r.session \in Sessions
         /\ r.at = "editing" =>
              /\ r.by \in Caller /\ r.session \in Sessions
              /\ r.seen \in Carts /\ r.cart \in Carts
         /\ r.at = "closing" => r.by \in Caller /\ r.session \in Sessions
         /\ r.at = "reporting" =>
              /\ r.counter \in Counters /\ r.cameras \in SUBSET Cameras
              /\ r.report \in SUBSET Cameras
         /\ r.at = "configuring" =>
              /\ r.counter \in Counters /\ r.seen \in Settings
              /\ r.settings \in Settings
         /\ r.at = "rotating" => r.counter \in Counters /\ r.old \in SUBSET Keys
         /\ r.at = "deleting" =>
              r.counter \in Counters /\ r.children \in SUBSET Sessions
  BY DEF Request, Idle

\* The fields of the three jobs a counter key can be presented for.
LEMMA JobFields ==
  ASSUME NEW j \in Job
  PROVE  /\ j.do \in {"connect", "cart", "pay"}
         /\ j.do = "connect" => j \in ConnectJob
         /\ j.do = "cart" => j.session \in Sessions /\ j.cart \in Carts
         /\ j.do = "pay" => j.session \in Sessions
  BY DEF Job, ConnectJob, CartJob, PayJob

\* Moving one request keeps the requests typed.
LEMMA BecomeType ==
  ASSUME TypeOK, NEW p \in Requests, NEW r \in Request, Become(p, r)
  PROVE  req' \in [Requests -> Request]
  BY DEF TypeOK, Become

\* Every record the actions build is a request.
LEMMA RequestRecords ==
  /\ Idle \in Request
  /\ \A c \in Counters, j \in Job :
       /\ [at |-> "keyed", counter |-> c, job |-> j] \in Request
       /\ [at |-> "authorised", counter |-> c, job |-> j] \in Request
  /\ \A c \in Counters, cams \in SUBSET Cameras, j \in ConnectJob :
       [at |-> "connecting", counter |-> c, job |-> j, cameras |-> cams] \in Request
  /\ \A c \in Counters :
       /\ [at |-> "refreshing", counter |-> c] \in Request
       /\ [at |-> "clashed", counter |-> c] \in Request
  /\ \A c \in Counters, x \in Settings :
       /\ [at |-> "searching", counter |-> c, settings |-> x] \in Request
       /\ [at |-> "creating", counter |-> c, settings |-> x] \in Request
  /\ \A c \in Counters, s \in Sessions :
       /\ [at |-> "inserted", counter |-> c, session |-> s] \in Request
       /\ [at |-> "answering", counter |-> c, session |-> s] \in Request
  /\ \A b \in Caller, s \in Sessions, old \in Carts, new \in Carts :
       [at |-> "editing", by |-> b, session |-> s, seen |-> old, cart |-> new] \in Request
  /\ \A b \in Caller, s \in Sessions :
       [at |-> "closing", by |-> b, session |-> s] \in Request
  /\ \A c \in Counters, new \in SUBSET Cameras, old \in SUBSET Cameras :
       [at |-> "reporting", counter |-> c, report |-> new, cameras |-> old] \in Request
  /\ \A c \in Counters, new \in Settings, old \in Settings :
       [at |-> "configuring", counter |-> c, settings |-> new, seen |-> old] \in Request
  /\ \A c \in Counters, old \in SUBSET Keys :
       [at |-> "rotating", counter |-> c, old |-> old] \in Request
  /\ \A c \in Counters, old \in SUBSET Sessions :
       [at |-> "deleting", counter |-> c, children |-> old] \in Request
  BY DEF Request

\* The fields of a stored row.
LEMMA RowFields ==
  ASSUME TypeOK
  PROVE  /\ \A c \in Counters : counter[c].settings \in Settings
                                /\ counter[c].cameras \in SUBSET Cameras
         /\ \A s \in Sessions : session[s].cart \in Carts
         /\ \A k \in Keys : apiKey[k].phase # "none" => apiKey[k].counter \in Counters
  BY DEF TypeOK, CounterRow, SessionRow, KeyRow


\* The empty database is typed.
LEMMA TypeInit == Init => TypeOK
  BY ConstantsAssumption
  DEF Init, TypeOK, CounterRow, SessionRow, KeyRow, Settings, Camera,
      DefaultSettings, Request

\* Only nine operations write a row; every other step leaves the tables alone.
LEMMA StepCases ==
  ASSUME [Next]_vars
  PROVE  \/ UNCHANGED <<tables, everReported>>
         \/ \E p \in Requests :
              \/ ConnectStoresCameras(p) \/ StoreReport(p)
              \/ InsertSession(p) \/ StoreCart(p) \/ CloseSession(p)
              \/ StoreSettings(p) \/ StoreRotatedKey(p) \/ DeleteCounter(p)
              \/ \E c \in Counters, k \in Keys : CreateCounter(p, c, k)
<1>1. ASSUME NEW p \in Requests, Start(p)
      PROVE  \/ UNCHANGED <<tables, everReported>>
             \/ \E c \in Counters, k \in Keys : CreateCounter(p, c, k)
  BY <1>1 DEF Start, ReadKey, ReadForReport, AdminReadsForEdit, AdminReadsForCancel,
              ReadForSettings, ReadActiveKeys, ReadForDelete
<1>2. ASSUME NEW p \in Requests, Continue(p)
      PROVE  \/ UNCHANGED <<tables, everReported>>
             \/ ConnectStoresCameras(p) \/ StoreReport(p)
             \/ InsertSession(p) \/ StoreCart(p) \/ CloseSession(p)
             \/ StoreSettings(p) \/ StoreRotatedKey(p) \/ DeleteCounter(p)
  BY <1>2 DEF Continue, LoadCounter, RefreshCounter, FindOpenSession, FindWinner,
              RefreshSession, Reply, RequireSession
<1>3. ASSUME NEW p \in Requests, Abort(p)
      PROVE  UNCHANGED <<tables, everReported>>
  BY <1>3 DEF Abort
<1>4. CASE UNCHANGED vars
  BY <1>4 DEF vars, tables
<1> QED
  BY <1>1, <1>2, <1>3, <1>4 DEF Next

\* The requests stay typed, action by action.
LEMMA ReqType ==
  ASSUME TypeOK, [Next]_vars
  PROVE  req' \in [Requests -> Request]
<1> USE RequestFields, JobFields, RequestRecords, RowFields, BecomeType
<1>1. ASSUME NEW p \in Requests, Start(p)
      PROVE  req' \in [Requests -> Request]
  <2>1. ASSUME NEW k \in Keys, NEW job \in Job, ReadKey(p, k, job)
        PROVE  req' \in [Requests -> Request]
    BY <2>1 DEF ReadKey, TypeOK
  <2>2. ASSUME NEW c \in Counters, NEW new \in SUBSET Cameras, ReadForReport(p, c, new)
        PROVE  req' \in [Requests -> Request]
    BY <2>2 DEF ReadForReport
  <2>3. ASSUME NEW s \in Sessions, NEW new \in Carts, AdminReadsForEdit(p, s, new)
        PROVE  req' \in [Requests -> Request]
    BY <2>3 DEF AdminReadsForEdit, Caller
  <2>4. ASSUME NEW s \in Sessions, AdminReadsForCancel(p, s)
        PROVE  req' \in [Requests -> Request]
    BY <2>4 DEF AdminReadsForCancel, Caller
  <2>5. ASSUME NEW c \in Counters, NEW k \in Keys, CreateCounter(p, c, k)
        PROVE  req' \in [Requests -> Request]
    BY <2>5 DEF CreateCounter, TypeOK
  <2>6. ASSUME NEW c \in Counters, NEW new \in Settings, ReadForSettings(p, c, new)
        PROVE  req' \in [Requests -> Request]
    BY <2>6 DEF ReadForSettings
  <2>7. ASSUME NEW c \in Counters, ReadActiveKeys(p, c)
        PROVE  req' \in [Requests -> Request]
    BY <2>7 DEF ReadActiveKeys, ActiveKeys
  <2>8. ASSUME NEW c \in Counters, ReadForDelete(p, c)
        PROVE  req' \in [Requests -> Request]
    BY <2>8 DEF ReadForDelete, SessionsOf
  <2> QED
    BY <1>1, <2>1, <2>2, <2>3, <2>4, <2>5, <2>6, <2>7, <2>8 DEF Start
<1>2. ASSUME NEW p \in Requests, Continue(p)
      PROVE  req' \in [Requests -> Request]
  <2> req[p] \in Request
    BY DEF TypeOK
  <2>1. ASSUME LoadCounter(p)
        PROVE  req' \in [Requests -> Request]
    BY <2>1 DEF LoadCounter, At
  <2>2. ASSUME ConnectStoresCameras(p)
        PROVE  req' \in [Requests -> Request]
    BY <2>2 DEF ConnectStoresCameras, At
  <2>3. ASSUME RefreshCounter(p)
        PROVE  req' \in [Requests -> Request]
    BY <2>3 DEF RefreshCounter, At
  <2>4. ASSUME FindOpenSession(p)
        PROVE  req' \in [Requests -> Request]
    BY <2>4 DEF FindOpenSession, At, Answer, get_open_checkout_session, SessionsOf
  <2>5. ASSUME InsertSession(p)
        PROVE  req' \in [Requests -> Request]
    BY <2>5 DEF InsertSession, At
  <2>6. ASSUME FindWinner(p)
        PROVE  req' \in [Requests -> Request]
    BY <2>6 DEF FindWinner, At, Answer, get_open_checkout_session, SessionsOf
  <2>7. ASSUME RefreshSession(p)
        PROVE  req' \in [Requests -> Request]
    BY <2>7 DEF RefreshSession, At, Answer
  <2>8. ASSUME Reply(p)
        PROVE  req' \in [Requests -> Request]
    BY <2>8 DEF Reply
  <2>9. ASSUME RequireSession(p)
        PROVE  req' \in [Requests -> Request]
    BY <2>9 DEF RequireSession, At, Caller
  <2>10. ASSUME StoreCart(p)
        PROVE  req' \in [Requests -> Request]
    BY <2>10 DEF StoreCart
  <2>11. ASSUME CloseSession(p)
        PROVE  req' \in [Requests -> Request]
    BY <2>11 DEF CloseSession
  <2>12. ASSUME StoreReport(p)
        PROVE  req' \in [Requests -> Request]
    BY <2>12 DEF StoreReport
  <2>13. ASSUME StoreSettings(p)
        PROVE  req' \in [Requests -> Request]
    BY <2>13 DEF StoreSettings
  <2>14. ASSUME StoreRotatedKey(p)
        PROVE  req' \in [Requests -> Request]
    BY <2>14 DEF StoreRotatedKey
  <2>15. ASSUME DeleteCounter(p)
        PROVE  req' \in [Requests -> Request]
    BY <2>15 DEF DeleteCounter
  <2> QED
    BY <1>2, <2>1, <2>2, <2>3, <2>4, <2>5, <2>6, <2>7, <2>8, <2>9, <2>10, <2>11, <2>12, <2>13, <2>14, <2>15 DEF Continue
<1>3. ASSUME NEW p \in Requests, Abort(p)
      PROVE  req' \in [Requests -> Request]
  BY <1>3 DEF Abort
<1>4. CASE UNCHANGED vars
  BY <1>4 DEF vars, TypeOK
<1> QED
  BY <1>1, <1>2, <1>3, <1>4 DEF Next

\* The two lookups of the open session: found, none, or the winner gone.
LEMMA SearchCases ==
  ASSUME TypeOK, NEW p \in Requests, FindOpenSession(p) \/ FindWinner(p)
  PROVE  \/ req'[p] = Idle
         \/ req'[p].at = "answering"
         \/ /\ FindOpenSession(p)
            /\ req'[p] = [at |-> "creating", counter |-> req[p].counter,
                          settings |-> req[p].settings]
<1>1. \A r : Become(p, r) => req'[p] = r
  BY DEF Become, TypeOK
<1>2. CASE \E x \in get_open_checkout_session(req[p].counter) : Answer(p, req[p].counter, x)
  BY <1>1, <1>2 DEF Answer
<1>3. CASE ~ \E x \in get_open_checkout_session(req[p].counter) : Answer(p, req[p].counter, x)
  BY <1>1, <1>3 DEF FindOpenSession, FindWinner
<1> QED
  BY <1>2, <1>3

\* An insertion stores one new open session or is refused by an index.
LEMMA InsertionCases ==
  ASSUME TypeOK, NEW p \in Requests, InsertSession(p)
  PROVE  /\ req[p].counter \in Counters
         /\ req[p].settings \in Settings
         /\ UNCHANGED <<counter, apiKey, everReported>>
         /\ \/ UNCHANGED session
            \/ /\ InsertAccepted(req[p].counter)
               /\ \E s \in Sessions :
                    /\ session[s].phase = "none"
                    /\ session' = [session EXCEPT ![s] =
                         [phase |-> "open", counter |-> req[p].counter,
                          cart |-> EmptyCart, settings |-> req[p].settings]]
  BY RequestFields DEF InsertSession, At, TypeOK

\* A deletion takes the counter with all it owns or is refused.
LEMMA DeletionCases ==
  ASSUME TypeOK, NEW p \in Requests, DeleteCounter(p)
  PROVE  /\ req[p].counter \in Counters
         /\ UNCHANGED everReported
         /\ \/ UNCHANGED tables
            \/ /\ Live(req[p].counter)
               /\ counter' = [counter EXCEPT ![req[p].counter].phase = "gone"]
               /\ session' = [s \in Sessions |->
                    IF s \in SessionsOf(req[p].counter)
                    THEN [session[s] EXCEPT !.phase = "gone"] ELSE session[s]]
               /\ apiKey' = [k \in Keys |->
                    IF apiKey[k].counter = req[p].counter
                    THEN [apiKey[k] EXCEPT !.phase = "gone"] ELSE apiKey[k]]
  BY RequestFields DEF DeleteCounter, At, TypeOK

\* Storing a camera report keeps the counters typed.
LEMMA StoreCamerasType ==
  ASSUME TypeOK, NEW c \in Counters, NEW seen, NEW report \in SUBSET Cameras,
         StoreCameras(c, seen, report)
  PROVE  /\ counter' \in [Counters -> CounterRow]
         /\ everReported' \in [Counters -> SUBSET Cameras]
<1> DEFINE now == IF report = seen THEN counter[c].cameras ELSE report
<1>1. counter[c] \in CounterRow /\ now \in SUBSET Cameras
  BY DEF TypeOK, CounterRow
<1>2. [counter[c] EXCEPT !.cameras = now] \in CounterRow
  BY <1>1 DEF CounterRow
<1>3. counter' = [counter EXCEPT ![c] = [counter[c] EXCEPT !.cameras = now]]
  BY DEF StoreCameras, TypeOK
<1> QED
  BY <1>2, <1>3 DEF StoreCameras, TypeOK

\* Merging the changed columns into a settings row gives settings.
LEMMA MergeType ==
  ASSUME NEW now \in Settings, NEW seen \in Settings, NEW new \in Settings
  PROVE  Merge(now, seen, new) \in Settings
  BY DEF Merge, Settings

\* Every step keeps the tables and the requests typed.
LEMMA TypeNext ==
  ASSUME TypeOK, RequestsKnowTheirRows, [Next]_vars
  PROVE  TypeOK'
<1>1. req' \in [Requests -> Request]
  BY ReqType
<1>2. CASE UNCHANGED <<tables, everReported>>
  BY <1>1, <1>2 DEF tables, TypeOK
<1>3. ASSUME NEW p \in Requests, ConnectStoresCameras(p)
      PROVE  TypeOK'
  <2>1. req[p].counter \in Counters /\ req[p].job.report \in SUBSET Cameras
    BY <1>3, RequestFields DEF ConnectStoresCameras, At, TypeOK, ConnectJob
  <2> QED
    BY <1>1, <1>3, <2>1, StoreCamerasType DEF ConnectStoresCameras, TypeOK
<1>4. ASSUME NEW p \in Requests, StoreReport(p)
      PROVE  TypeOK'
  <2>1. req[p].counter \in Counters /\ req[p].report \in SUBSET Cameras
    BY <1>4, RequestFields DEF StoreReport, At, TypeOK
  <2> QED
    BY <1>1, <1>4, <2>1, StoreCamerasType DEF StoreReport, TypeOK
<1>5. ASSUME NEW p \in Requests, InsertSession(p)
      PROVE  TypeOK'
  <2>1. req[p].counter \in Counters /\ req[p].settings \in Settings
    BY <1>5, RequestFields DEF InsertSession, At, TypeOK
  <2>2. [phase |-> "open", counter |-> req[p].counter, cart |-> EmptyCart,
         settings |-> req[p].settings] \in SessionRow
    BY <2>1, ConstantsAssumption DEF SessionRow
  <2> QED
    BY <1>1, <1>5, <2>2 DEF InsertSession, TypeOK
<1>6. ASSUME NEW p \in Requests, StoreCart(p)
      PROVE  TypeOK'
  BY <1>1, <1>6, RequestFields DEF StoreCart, At, TypeOK, SessionRow
<1>7. ASSUME NEW p \in Requests, CloseSession(p)
      PROVE  TypeOK'
  BY <1>1, <1>7, RequestFields DEF CloseSession, At, Stored, TypeOK, SessionRow
<1>8. ASSUME NEW p \in Requests, StoreSettings(p)
      PROVE  TypeOK'
  <2> DEFINE c == req[p].counter
             merged == Merge(counter[c].settings, req[p].seen, req[p].settings)
  <2>1. c \in Counters /\ counter[c] \in CounterRow /\ merged \in Settings
    BY <1>8, RequestFields, RowFields, MergeType DEF StoreSettings, At, TypeOK
  <2>2. [counter[c] EXCEPT !.settings = merged] \in CounterRow
    BY <2>1 DEF CounterRow
  <2>3. \/ counter' = [counter EXCEPT ![c] = [counter[c] EXCEPT !.settings = merged]]
        \/ counter' = counter
    BY <1>8, <2>1 DEF StoreSettings, TypeOK
  <2> QED
    BY <1>1, <1>8, <2>2, <2>3 DEF StoreSettings, TypeOK
<1>9. ASSUME NEW p \in Requests, StoreRotatedKey(p)
      PROVE  TypeOK'
  <2> DEFINE c == req[p].counter
  <2>1. c \in Counters
    BY <1>9, RequestFields DEF StoreRotatedKey, At, TypeOK
  <2>2. [phase |-> "active", counter |-> c] \in KeyRow
    BY <2>1 DEF KeyRow
  <2>3. \A x \in Keys : x \in req[p].old => [apiKey[x] EXCEPT !.phase = "revoked"] \in KeyRow
    BY <1>9, <2>1, ConstantsAssumption
    DEF StoreRotatedKey, TypeOK, RequestsKnowTheirRows, KnowsItsRows, KeyRow
  <2> QED
    BY <1>1, <1>9, <2>2, <2>3 DEF StoreRotatedKey, TypeOK
<1>10. ASSUME NEW p \in Requests, DeleteCounter(p)
       PROVE  TypeOK'
  <2>1. CASE UNCHANGED tables
    BY <1>1, <1>10, <2>1, DeletionCases DEF tables, TypeOK
  <2>2. CASE ~ UNCHANGED tables
    <3>0. PICK c \in Counters : c = req[p].counter
      BY <1>10, DeletionCases
    <3>1. \A r \in CounterRow : r.phase = "live" => [r EXCEPT !.phase = "gone"] \in CounterRow
      BY DEF CounterRow
    <3>2. \A r \in SessionRow :
            r.phase # "none" => [r EXCEPT !.phase = "gone"] \in SessionRow
      BY DEF SessionRow
    <3>3. \A r \in KeyRow : r.counter \in Counters => [r EXCEPT !.phase = "gone"] \in KeyRow
      BY ConstantsAssumption DEF KeyRow
    <3>4. counter' \in [Counters -> CounterRow]
      <4>1. /\ counter \in [Counters -> CounterRow] /\ counter[c].phase = "live"
            /\ counter' = [counter EXCEPT ![c] = [counter[c] EXCEPT !.phase = "gone"]]
        BY <1>10, <2>2, <3>0, DeletionCases DEF Live, TypeOK
      <4> QED
        BY <3>1, <4>1
    <3>5. session' \in [Sessions -> SessionRow]
      <4>1. \A s \in Sessions :
              /\ session[s] \in SessionRow
              /\ s \in SessionsOf(c) => [session[s] EXCEPT !.phase = "gone"] \in SessionRow
        BY <3>2 DEF SessionsOf, Stored, TypeOK
      <4>2. session' = [s \in Sessions |->
              IF s \in SessionsOf(c) THEN [session[s] EXCEPT !.phase = "gone"] ELSE session[s]]
        BY <1>10, <2>2, <3>0, DeletionCases
      <4> QED
        BY <4>1, <4>2
    <3>6. apiKey' \in [Keys -> KeyRow]
      <4>1. \A k \in Keys :
              /\ apiKey[k] \in KeyRow
              /\ apiKey[k].counter = c => [apiKey[k] EXCEPT !.phase = "gone"] \in KeyRow
        BY <3>3 DEF TypeOK
      <4>2. apiKey' = [k \in Keys |->
              IF apiKey[k].counter = c THEN [apiKey[k] EXCEPT !.phase = "gone"] ELSE apiKey[k]]
        BY <1>10, <2>2, <3>0, DeletionCases
      <4> QED
        BY <4>1, <4>2
    <3> QED
      BY <1>1, <1>10, <3>4, <3>5, <3>6, DeletionCases DEF TypeOK
  <2> QED
    BY <2>1, <2>2
<1>11. ASSUME NEW p \in Requests, NEW c \in Counters, NEW k \in Keys,
              CreateCounter(p, c, k)
       PROVE  TypeOK'
  BY <1>1, <1>11 DEF CreateCounter, TypeOK, CounterRow, KeyRow
<1> QED
  BY <1>2, <1>3, <1>4, <1>5, <1>6, <1>7, <1>8, <1>9, <1>10, <1>11, StepCases

\* A stored row never moves to another counter, whoever writes it.
LEMMA RowsFrozen ==
  ASSUME TypeOK, RequestsKnowTheirRows, [Next]_vars
  PROVE  /\ \A k \in Keys : apiKey[k].counter \in Counters =>
              apiKey'[k].counter = apiKey[k].counter
         /\ \A s \in Sessions : session[s].counter \in Counters =>
              /\ session'[s].counter = session[s].counter
              /\ session'[s].settings = session[s].settings
<1> DEFINE Frozen ==
       /\ \A k \in Keys : apiKey[k].counter \in Counters =>
            apiKey'[k].counter = apiKey[k].counter
       /\ \A s \in Sessions : session[s].counter \in Counters =>
            /\ session'[s].counter = session[s].counter
            /\ session'[s].settings = session[s].settings
<1>1. CASE UNCHANGED <<tables, everReported>>
  BY <1>1 DEF tables
<1>2. ASSUME NEW p \in Requests,
             ConnectStoresCameras(p) \/ StoreReport(p) \/ StoreSettings(p)
      PROVE  Frozen
  BY <1>2 DEF ConnectStoresCameras, StoreReport, StoreSettings
<1>3. ASSUME NEW p \in Requests, InsertSession(p)
      PROVE  Frozen
  BY <1>3, ConstantsAssumption DEF InsertSession, TypeOK, SessionRow
<1>4. ASSUME NEW p \in Requests, StoreCart(p) \/ CloseSession(p)
      PROVE  Frozen
  BY <1>4 DEF StoreCart, CloseSession, TypeOK, SessionRow
<1>5. ASSUME NEW p \in Requests, StoreRotatedKey(p)
      PROVE  Frozen
  BY <1>5, ConstantsAssumption DEF StoreRotatedKey, TypeOK, KeyRow
<1>6. ASSUME NEW p \in Requests, DeleteCounter(p)
      PROVE  Frozen
  BY <1>6 DEF DeleteCounter, tables, TypeOK, SessionRow, KeyRow
<1>7. ASSUME NEW p \in Requests, NEW c \in Counters, NEW k \in Keys, CreateCounter(p, c, k)
      PROVE  Frozen
  BY <1>7, ConstantsAssumption DEF CreateCounter, TypeOK, KeyRow
<1> QED
  BY <1>1, <1>2, <1>3, <1>4, <1>5, <1>6, <1>7, StepCases

\* A request record changes only by a step of its own request.
LEMMA StepOfOne ==
  ASSUME TypeOK, [Next]_vars, NEW q \in Requests, req'[q] # req[q]
  PROVE  Start(q) \/ Continue(q) \/ Abort(q)
<1>1. \A p \in Requests : \A r : Become(p, r) /\ p # q => req'[q] = req[q]
  BY DEF Become, TypeOK
<1>2. ASSUME NEW p \in Requests, Start(p), p # q
      PROVE  req'[q] = req[q]
  BY <1>1, <1>2 DEF Start, ReadKey, ReadForReport, AdminReadsForEdit, CreateCounter,
       AdminReadsForCancel, ReadForSettings, ReadActiveKeys, ReadForDelete
<1>3. ASSUME NEW p \in Requests, Continue(p), p # q
      PROVE  req'[q] = req[q]
  BY <1>1, <1>3 DEF Continue, LoadCounter, ConnectStoresCameras, RefreshCounter,
       FindOpenSession, InsertSession, FindWinner, RefreshSession, Reply,
       RequireSession, StoreCart, CloseSession, StoreReport, StoreSettings,
       StoreRotatedKey, DeleteCounter, Answer
<1>4. ASSUME NEW p \in Requests, Abort(p), p # q
      PROVE  req'[q] = req[q]
  BY <1>1, <1>4 DEF Abort
<1> QED
  BY <1>2, <1>3, <1>4 DEF Next, vars

\* Every step keeps the requests in agreement with their rows.
LEMMA KnownNext ==
  ASSUME TypeOK, RequestsKnowTheirRows, [Next]_vars
  PROVE  RequestsKnowTheirRows'
<1> SUFFICES ASSUME NEW p \in Requests
             PROVE  KnowsItsRows(p)'
  BY DEF RequestsKnowTheirRows
<1> USE DEF KnowsItsRows, At
<1>1. CASE req'[p] = req[p]
  <2>1. req[p] \in Request /\ KnowsItsRows(p)
    BY DEF TypeOK, RequestsKnowTheirRows
  <2> QED
    BY <1>1, <2>1, RowsFrozen, RequestFields
<1>2. \A r : Become(p, r) => req'[p] = r
  BY DEF Become, TypeOK
<1>3. CASE Start(p)
  <2>1. ASSUME NEW c \in Counters, ReadActiveKeys(p, c)
        PROVE  KnowsItsRows(p)'
    BY <1>2, <2>1 DEF ReadActiveKeys, ActiveKeys, tables
  <2>2. ASSUME NEW s \in Sessions, NEW new \in Carts, AdminReadsForEdit(p, s, new)
        PROVE  KnowsItsRows(p)'
    BY <1>2, <2>2 DEF AdminReadsForEdit, Open, tables, TypeOK, SessionRow
  <2>3. ASSUME NEW s \in Sessions, AdminReadsForCancel(p, s)
        PROVE  KnowsItsRows(p)'
    BY <1>2, <2>3 DEF AdminReadsForCancel, Open, tables, TypeOK, SessionRow
  <2>4. ASSUME NEW k \in Keys, NEW job \in Job, ReadKey(p, k, job)
        PROVE  KnowsItsRows(p)'
    BY <1>2, <2>4 DEF ReadKey, tables
  <2>5. ASSUME NEW c \in Counters, NEW k \in Keys, CreateCounter(p, c, k)
        PROVE  KnowsItsRows(p)'
    BY <2>5 DEF CreateCounter
  <2>6. ASSUME NEW c \in Counters, NEW new, \/ ReadForReport(p, c, new)
                                           \/ ReadForSettings(p, c, new)
                                           \/ ReadForDelete(p, c)
        PROVE  KnowsItsRows(p)'
    BY <1>2, <2>6 DEF ReadForReport, ReadForSettings, ReadForDelete, tables
  <2> QED
    BY <1>3, <2>1, <2>2, <2>3, <2>4, <2>5, <2>6 DEF Start
<1>4. CASE Continue(p)
  <2> DEFINE c == req[p].counter
             s == req[p].session
             AnswerWith(x) == [at |-> "answering", counter |-> c, session |-> x]
  <2>1. CASE FindOpenSession(p) \/ FindWinner(p)
    <3>1. UNCHANGED session
      BY <2>1 DEF FindOpenSession, FindWinner, tables
    <3>2. CASE \E x \in get_open_checkout_session(c) : Answer(p, c, x)
      <4>1. PICK x \in get_open_checkout_session(c) : Answer(p, c, x)
        BY <3>2
      <4>2. req'[p] = AnswerWith(x) /\ session[x].counter = c
        BY <1>2, <4>1 DEF Answer, get_open_checkout_session, SessionsOf
      <4> QED
        BY <3>1, <4>2
    <3>3. CASE ~ \E x \in get_open_checkout_session(c) : Answer(p, c, x)
      <4>1. req'[p].at \in {"creating", "idle"}
        BY <1>2, <2>1, <3>3 DEF FindOpenSession, FindWinner, Idle
      <4> QED
        BY <4>1
    <3> QED
      BY <3>2, <3>3
  <2>2. CASE InsertSession(p)
    <3>1. CASE InsertAccepted(c)
      <4>1. PICK x \in Sessions :
              /\ session' = [session EXCEPT ![x] =
                              [phase |-> "open", counter |-> c, cart |-> EmptyCart,
                               settings |-> req[p].settings]]
              /\ Become(p, [at |-> "inserted", counter |-> c, session |-> x])
        BY <2>2, <3>1 DEF InsertSession
      <4>2. /\ req'[p] = [at |-> "inserted", counter |-> c, session |-> x]
            /\ session'[x].counter = c
        BY <1>2, <4>1 DEF TypeOK
      <4> QED
        BY <4>2
    <3>2. CASE ~InsertAccepted(c)
      <4>1. req'[p].at = "clashed"
        BY <1>2, <2>2, <3>2 DEF InsertSession
      <4> QED
        BY <4>1
    <3> QED
      BY <3>1, <3>2
  <2>3. CASE RefreshSession(p)
    <3>1. req'[p].at = "idle" \/ req'[p] = AnswerWith(s)
      BY <1>2, <2>3 DEF RefreshSession, Answer, Idle
    <3>2. session[s].counter = c
      BY <2>3 DEF RefreshSession, RequestsKnowTheirRows
    <3> QED
      BY <2>3, <3>1, <3>2 DEF RefreshSession, tables
  <2>4. CASE RequireSession(p)
    <3> DEFINE x == req[p].job.session
    <3>1. \/ req'[p].at = "idle"
          \/ /\ session[x].counter = c
             /\ req'[p].session = x /\ req'[p].by = c
             /\ req'[p].at \in {"editing", "closing"}
      BY <1>2, <2>4 DEF require_session, RequireSession, Idle
    <3>2. c \in Counters
      BY <2>4, RequestFields DEF RequireSession, TypeOK
    <3> QED
      BY <2>4, <3>1, <3>2 DEF RequireSession, tables
  <2>5. CASE \/ LoadCounter(p) \/ ConnectStoresCameras(p) \/ RefreshCounter(p)
             \/ Reply(p) \/ StoreCart(p) \/ CloseSession(p) \/ StoreReport(p)
             \/ StoreSettings(p) \/ StoreRotatedKey(p) \/ DeleteCounter(p)
    BY <1>2, <2>5 DEF LoadCounter, ConnectStoresCameras, RefreshCounter, Reply,
         StoreCart, CloseSession, StoreReport, StoreSettings, StoreRotatedKey,
         DeleteCounter, Idle
  <2> QED
    BY <1>4, <2>1, <2>2, <2>3, <2>4, <2>5 DEF Continue
<1>5. CASE Abort(p)
  BY <1>2, <1>5 DEF Abort, Idle
<1> QED
  BY <1>1, <1>3, <1>4, <1>5, StepOfOne

\* Rows and requests always have the shape their declarations give them.
THEOREM TypeCorrect == Spec => []TypeOK
<1>1. Init => TypeOK /\ RequestsKnowTheirRows
  BY TypeInit DEF Init, RequestsKnowTheirRows, KnowsItsRows, At, Idle
<1>2. TypeOK /\ RequestsKnowTheirRows /\ [Next]_vars
        => TypeOK' /\ RequestsKnowTheirRows'
  BY TypeNext, KnownNext
<1> QED
  BY <1>1, <1>2, PTL DEF Spec
-----------------------------------------------------------------------------
(* The safety invariants of CheckoutStore, for any number of everything.   *)

\* Sessions and keys are gone exactly when their counter is: the cascade of
\* the deletion is complete, and nothing is inserted under a deleted counter.
RowsFollowCounters ==
  /\ \A s \in Sessions : session[s].counter \in Counters =>
       /\ counter[session[s].counter].phase # "none"
       /\ session[s].phase = "gone" <=> counter[session[s].counter].phase = "gone"
  /\ \A k \in Keys : apiKey[k].counter \in Counters =>
       /\ counter[apiKey[k].counter].phase # "none"
       /\ apiKey[k].phase = "gone" <=> counter[apiKey[k].counter].phase = "gone"

\* Every step keeps sessions and keys with their counter.
LEMMA FollowNext ==
  ASSUME TypeOK, RequestsKnowTheirRows, RowsFollowCounters, [Next]_vars
  PROVE  RowsFollowCounters'
<1> USE DEF RowsFollowCounters, TypeOK, Live
<1>1. CASE UNCHANGED <<tables, everReported>>
  BY <1>1 DEF tables
<1>2. ASSUME NEW p \in Requests,
             ConnectStoresCameras(p) \/ StoreReport(p) \/ StoreSettings(p)
      PROVE  RowsFollowCounters'
  <2>1. UNCHANGED <<session, apiKey>>
    BY <1>2 DEF ConnectStoresCameras, StoreReport, StoreSettings
  <2>2. \A c \in Counters : counter'[c].phase = counter[c].phase
    BY <1>2 DEF ConnectStoresCameras, StoreReport, StoreSettings, StoreCameras, CounterRow
  <2> QED
    BY <2>1, <2>2
<1>3. ASSUME NEW p \in Requests, InsertSession(p)
      PROVE  RowsFollowCounters'
  <2> DEFINE c == req[p].counter
  <2>1. CASE UNCHANGED session
    BY <1>3, <2>1, InsertionCases
  <2>2. CASE ~ UNCHANGED session
    <3>1. PICK s \in Sessions :
            session' = [session EXCEPT ![s] =
              [phase |-> "open", counter |-> c, cart |-> EmptyCart,
               settings |-> req[p].settings]]
      BY <1>3, <2>2, InsertionCases
    <3>2. counter[c].phase = "live" /\ UNCHANGED <<counter, apiKey>>
      BY <1>3, <2>2, InsertionCases DEF InsertAccepted
    <3> QED
      BY <3>1, <3>2
  <2> QED
    BY <2>1, <2>2
<1>4. ASSUME NEW p \in Requests, StoreCart(p) \/ CloseSession(p)
      PROVE  RowsFollowCounters'
  BY <1>4 DEF StoreCart, CloseSession, Stored, SessionRow
<1>5. ASSUME NEW p \in Requests, StoreRotatedKey(p)
      PROVE  RowsFollowCounters'
  <2>1. /\ req[p].counter \in Counters
        /\ \A x \in req[p].old : apiKey[x].counter = req[p].counter
    BY <1>5, RequestFields DEF StoreRotatedKey, At, RequestsKnowTheirRows, KnowsItsRows
  <2> QED
    BY <1>5, <2>1 DEF StoreRotatedKey, RotationAccepted, KeyRow
<1>6. ASSUME NEW p \in Requests, DeleteCounter(p)
      PROVE  RowsFollowCounters'
  <2> DEFINE c == req[p].counter
  <2>1. CASE UNCHANGED tables
    BY <2>1 DEF tables
  <2>2. CASE ~ UNCHANGED tables
    <3>1. /\ c \in Counters /\ counter[c].phase = "live"
          /\ counter' = [counter EXCEPT ![c].phase = "gone"]
          /\ apiKey' = [k \in Keys |->
               IF apiKey[k].counter = c THEN [apiKey[k] EXCEPT !.phase = "gone"]
               ELSE apiKey[k]]
      BY <1>6, <2>2, DeletionCases
    <3>2. \A s \in Sessions :
            session[s].counter \in Counters /\ session[s].counter = c => s \in SessionsOf(c)
      BY <3>1, ConstantsAssumption DEF SessionsOf, Stored, SessionRow
    <3>3. \A s \in Sessions :
            /\ session'[s].counter = session[s].counter
            /\ session'[s].phase = IF session[s].counter = c THEN "gone" ELSE session[s].phase
      BY <1>6, <2>2, <3>1, <3>2, DeletionCases DEF SessionsOf, SessionRow
    <3>4. \A k \in Keys :
            /\ apiKey'[k].counter = apiKey[k].counter
            /\ apiKey'[k].phase = IF apiKey[k].counter = c THEN "gone" ELSE apiKey[k].phase
      <4>1. \A k \in Keys : apiKey'[k] =
              IF apiKey[k].counter = c THEN [apiKey[k] EXCEPT !.phase = "gone"] ELSE apiKey[k]
        BY <3>1
      <4> QED
        BY <4>1 DEF KeyRow
    <3>5. \A d \in Counters :
            counter'[d].phase = IF d = c THEN "gone" ELSE counter[d].phase
      BY <3>1 DEF CounterRow
    <3> QED
      BY <3>1, <3>3, <3>4, <3>5
  <2> QED
    BY <2>1, <2>2
<1>7. ASSUME NEW p \in Requests, NEW c \in Counters, NEW k \in Keys, CreateCounter(p, c, k)
      PROVE  RowsFollowCounters'
  BY <1>7 DEF CreateCounter, CounterRow, KeyRow
<1> QED
  BY <1>1, <1>2, <1>3, <1>4, <1>5, <1>6, <1>7, StepCases

\* Every step keeps at most one open session per counter.
LEMMA OneOpenNext ==
  ASSUME TypeOK, RequestsKnowTheirRows, AtMostOneOpenSession, [Next]_vars
  PROVE  AtMostOneOpenSession'
<1> USE DEF AtMostOneOpenSession, get_open_checkout_session, SessionsOf, Open, Stored, TypeOK
<1>1. CASE UNCHANGED session
  BY <1>1
<1>2. ASSUME NEW p \in Requests, InsertSession(p)
      PROVE  AtMostOneOpenSession'
  <2> DEFINE c == req[p].counter
  <2>1. CASE UNCHANGED session
    BY <2>1
  <2>2. CASE ~ UNCHANGED session
    <3>1. PICK s \in Sessions :
            session' = [session EXCEPT ![s] =
              [phase |-> "open", counter |-> c, cart |-> EmptyCart,
               settings |-> req[p].settings]]
      BY <1>2, <2>2, InsertionCases
    <3>2. get_open_checkout_session(c) = {}
      BY <1>2, <2>2, InsertionCases DEF InsertAccepted
    <3>3. \A d \in Counters :
            get_open_checkout_session(d)' =
              IF d = c THEN {s} ELSE get_open_checkout_session(d) \ {s}
      BY <3>1, <3>2
    <3> QED
      BY <3>3
  <2> QED
    BY <2>1, <2>2
<1>3. ASSUME NEW p \in Requests, StoreCart(p) \/ CloseSession(p)
      PROVE  AtMostOneOpenSession'
  BY <1>3 DEF StoreCart, CloseSession, SessionRow
<1>4. ASSUME NEW p \in Requests, DeleteCounter(p)
      PROVE  AtMostOneOpenSession'
  BY <1>4 DEF DeleteCounter, tables, SessionRow
<1> QED
  BY <1>1, <1>2, <1>3, <1>4, StepCases
  DEF tables, ConnectStoresCameras, StoreReport, StoreSettings, StoreRotatedKey, CreateCounter

\* Every step keeps one active key per live counter.
LEMMA OneKeyNext ==
  ASSUME TypeOK, RequestsKnowTheirRows, RowsFollowCounters, ExactlyOneActiveKey, [Next]_vars
  PROVE  ExactlyOneActiveKey'
<1> USE DEF ExactlyOneActiveKey, ActiveKeys, Live, TypeOK
<1>1. CASE UNCHANGED <<tables, everReported>>
  BY <1>1 DEF tables
<1>2. ASSUME NEW p \in Requests, \/ ConnectStoresCameras(p) \/ StoreReport(p)
                                 \/ StoreSettings(p) \/ InsertSession(p)
                                 \/ StoreCart(p) \/ CloseSession(p)
      PROVE  ExactlyOneActiveKey'
  <2>1. UNCHANGED apiKey
    BY <1>2 DEF ConnectStoresCameras, StoreReport, StoreSettings, InsertSession,
                StoreCart, CloseSession
  <2>2. \A c \in Counters : counter'[c].phase = counter[c].phase
    <3>1. CASE InsertSession(p) \/ StoreCart(p) \/ CloseSession(p)
      BY <3>1 DEF InsertSession, StoreCart, CloseSession
    <3>2. CASE ConnectStoresCameras(p) \/ StoreReport(p) \/ StoreSettings(p)
      BY <3>2 DEF ConnectStoresCameras, StoreReport, StoreSettings, StoreCameras, CounterRow
    <3> QED
      BY <1>2, <3>1, <3>2
  <2> QED
    BY <2>1, <2>2
<1>3. ASSUME NEW p \in Requests, StoreRotatedKey(p)
      PROVE  ExactlyOneActiveKey'
  <2> PICK c \in Counters : c = req[p].counter
    BY <1>3, RequestFields DEF StoreRotatedKey, At
  <2>1. \A x \in req[p].old : apiKey[x].counter = c
    BY <1>3 DEF StoreRotatedKey, RequestsKnowTheirRows, KnowsItsRows
  <2>2. CASE UNCHANGED apiKey
    BY <1>3, <2>2 DEF StoreRotatedKey
  <2>3. CASE RotationAccepted(c, req[p].old)
    <3>1. PICK k \in Keys :
            /\ apiKey[k].phase = "none"
            /\ apiKey' = [x \in Keys |->
                 IF x = k THEN [phase |-> "active", counter |-> c]
                 ELSE IF x \in req[p].old THEN [apiKey[x] EXCEPT !.phase = "revoked"]
                 ELSE apiKey[x]]
      BY <1>3, <2>3 DEF StoreRotatedKey
    <3>2. ActiveKeys(c)' = {k}
      <4>1. apiKey'[k].phase = "active" /\ apiKey'[k].counter = c
        BY <3>1
      <4>2. \A x \in Keys : x # k /\ x \in req[p].old => apiKey'[x].phase # "active"
        BY <3>1 DEF KeyRow
      <4>3. \A x \in Keys : x # k /\ x \notin req[p].old =>
              apiKey'[x] = apiKey[x] /\ x \notin ActiveKeys(c)
        BY <2>3, <3>1 DEF RotationAccepted
      <4> QED
        BY <4>1, <4>2, <4>3
    <3>3. \A d \in Counters : d # c => ActiveKeys(d)' = ActiveKeys(d)
      BY <2>1, <3>1 DEF KeyRow
    <3> QED
      <4>1. UNCHANGED counter
        BY <1>3 DEF StoreRotatedKey
      <4> QED
        BY <3>2, <3>3, <4>1
  <2> QED
    BY <1>3, <2>2, <2>3 DEF StoreRotatedKey
<1>4. ASSUME NEW p \in Requests, DeleteCounter(p)
      PROVE  ExactlyOneActiveKey'
  <2> DEFINE c == req[p].counter
  <2>1. CASE UNCHANGED tables
    BY <2>1 DEF tables
  <2>2. CASE ~ UNCHANGED tables
    <3>1. \A d \in Counters : (counter'[d].phase = "live") => d # c /\ counter[d].phase = "live"
      BY <1>4, <2>2 DEF DeleteCounter, CounterRow
    <3>2. \A d \in Counters : d # c => ActiveKeys(d)' = ActiveKeys(d)
      BY <1>4, <2>2 DEF DeleteCounter, KeyRow
    <3> QED
      BY <3>1, <3>2
  <2> QED
    BY <2>1, <2>2
<1>5. ASSUME NEW p \in Requests, NEW c \in Counters, NEW k \in Keys, CreateCounter(p, c, k)
      PROVE  ExactlyOneActiveKey'
  <2>1. ActiveKeys(c)' = {k}
    BY <1>5 DEF CreateCounter, RowsFollowCounters
  <2>2. \A d \in Counters : d # c => ActiveKeys(d)' = ActiveKeys(d)
    BY <1>5 DEF CreateCounter, KeyRow
  <2> QED
    BY <1>5, <2>1, <2>2 DEF CreateCounter
<1> QED
  BY <1>1, <1>2, <1>3, <1>4, <1>5, StepCases

Known(c) == everReported[c] \cup {NoCamera}
\* A counter's cameras and its selected camera were reported for it.
CountersKnow ==
  \A c \in Counters : /\ counter[c].settings.camera \in Known(c)
                      /\ counter[c].cameras \subseteq everReported[c]
\* The camera a session's snapshot names was reported for its counter.
SessionsKnow ==
  \A s \in Sessions : session[s].counter \in Counters =>
    session[s].settings.camera \in Known(session[s].counter)
\* So was the camera in the settings a request carries across an await.
RequestKnows(p) ==
  At(p, "searching") \/ At(p, "creating") \/ At(p, "configuring") =>
    req[p].settings.camera \in Known(req[p].counter)
RequestsKnow == \A p \in Requests : RequestKnows(p)

\* What was once reported stays reported.
LEMMA HistoryGrows ==
  ASSUME TypeOK, [Next]_vars, NEW c \in Counters
  PROVE  everReported[c] \subseteq everReported'[c]
<1>1. CASE UNCHANGED everReported
  BY <1>1
<1>2. ASSUME NEW p \in Requests, ConnectStoresCameras(p) \/ StoreReport(p)
      PROVE  everReported[c] \subseteq everReported'[c]
  BY <1>2 DEF ConnectStoresCameras, StoreReport, StoreCameras, TypeOK
<1> QED
  BY <1>1, <1>2, StepCases DEF InsertSession, StoreCart, CloseSession, StoreSettings,
     StoreRotatedKey, DeleteCounter, CreateCounter

\* Storing a report keeps every counter's cameras known.
LEMMA CamerasKnown ==
  ASSUME TypeOK, CountersKnow, NEW c \in Counters, NEW seen, NEW report \in SUBSET Cameras,
         StoreCameras(c, seen, report)
  PROVE  CountersKnow'
<1>1. \A d \in Counters : d # c =>
        counter'[d] = counter[d] /\ everReported'[d] = everReported[d]
  BY DEF StoreCameras, TypeOK
<1>2. /\ counter'[c].settings = counter[c].settings
      /\ counter'[c].cameras \in {counter[c].cameras, report}
      /\ everReported'[c] = everReported[c] \cup report
  BY DEF StoreCameras, TypeOK, CounterRow
<1> QED
  BY <1>1, <1>2 DEF CountersKnow, Known

\* Every step keeps the counters' cameras known.
LEMMA CountersKnowNext ==
  ASSUME TypeOK, RequestsKnow, CountersKnow, [Next]_vars
  PROVE  CountersKnow'
<1>1. CASE UNCHANGED <<tables, everReported>>
  BY <1>1 DEF CountersKnow, Known, tables
<1>2. ASSUME NEW p \in Requests, ConnectStoresCameras(p)
      PROVE  CountersKnow'
  <2>1. req[p].counter \in Counters /\ req[p].job.report \in SUBSET Cameras
    BY <1>2, RequestFields DEF ConnectStoresCameras, At, TypeOK, ConnectJob
  <2> QED
    BY <1>2, <2>1, CamerasKnown DEF ConnectStoresCameras, CountersKnow, Known
<1>3. ASSUME NEW p \in Requests, StoreReport(p)
      PROVE  CountersKnow'
  <2>1. req[p].counter \in Counters /\ req[p].report \in SUBSET Cameras
    BY <1>3, RequestFields DEF StoreReport, At, TypeOK
  <2> QED
    BY <1>3, <2>1, CamerasKnown DEF StoreReport, CountersKnow, Known
<1>4. ASSUME NEW p \in Requests, StoreSettings(p)
      PROVE  CountersKnow'
  <2> DEFINE c == req[p].counter
  <2>1. c \in Counters /\ req[p].settings.camera \in Known(c)
    BY <1>4, RequestFields DEF StoreSettings, At, TypeOK, RequestsKnow, RequestKnows
  <2>2. \A d \in Counters :
          /\ counter'[d].cameras = counter[d].cameras
          /\ counter'[d].settings.camera \in
               {counter[d].settings.camera} \cup (IF d = c THEN {req[p].settings.camera} ELSE {})
    BY <1>4, <2>1 DEF StoreSettings, Merge, TypeOK, CounterRow, Settings
  <2> QED
    BY <1>4, <2>1, <2>2 DEF StoreSettings, CountersKnow, Known
<1>5. ASSUME NEW p \in Requests, \/ InsertSession(p) \/ StoreCart(p) \/ CloseSession(p)
                                 \/ StoreRotatedKey(p)
      PROVE  CountersKnow'
  BY <1>5 DEF InsertSession, StoreCart, CloseSession, StoreRotatedKey, CountersKnow, Known
<1>6. ASSUME NEW p \in Requests, DeleteCounter(p)
      PROVE  CountersKnow'
  <2>1. \A d \in Counters : /\ counter'[d].cameras = counter[d].cameras
                            /\ counter'[d].settings = counter[d].settings
    <3>1. \/ counter' = counter
          \/ counter' = [counter EXCEPT ![req[p].counter].phase = "gone"]
      BY <1>6, DeletionCases DEF tables
    <3> QED
      BY <3>1 DEF TypeOK, CounterRow
  <2> QED
    BY <1>6, <2>1 DEF DeleteCounter, CountersKnow, Known
<1>7. ASSUME NEW p \in Requests, NEW c \in Counters, NEW k \in Keys, CreateCounter(p, c, k)
      PROVE  CountersKnow'
  <2>1. \A d \in Counters : /\ counter'[d].cameras = counter[d].cameras
                            /\ counter'[d].settings = counter[d].settings
    BY <1>7 DEF CreateCounter, TypeOK, CounterRow
  <2> QED
    BY <1>7, <2>1 DEF CreateCounter, CountersKnow, Known
<1> QED
  BY <1>1, <1>2, <1>3, <1>4, <1>5, <1>6, <1>7, StepCases

\* Every step keeps the snapshots' cameras known.
LEMMA SessionsKnowNext ==
  ASSUME TypeOK, RequestsKnowTheirRows, RequestsKnow, SessionsKnow, [Next]_vars
  PROVE  SessionsKnow'
<1>1. SUFFICES ASSUME NEW s \in Sessions, session'[s].counter \in Counters
               PROVE  session'[s].settings.camera \in everReported'[session'[s].counter] \cup {NoCamera}
  BY DEF SessionsKnow, Known
<1>2. CASE session[s].counter \in Counters
  BY <1>2, RowsFrozen, HistoryGrows DEF SessionsKnow, Known
<1>3. ASSUME session[s].counter \notin Counters, NEW p \in Requests, InsertSession(p)
      PROVE  session'[s].settings.camera \in everReported'[session'[s].counter] \cup {NoCamera}
  <2>1. CASE UNCHANGED session
    BY <1>1, <1>3, <2>1
  <2>2. CASE ~ UNCHANGED session
    <3>1. /\ session'[s].counter = req[p].counter
          /\ session'[s].settings = req[p].settings
      BY <1>1, <1>3, <2>2, InsertionCases DEF TypeOK
    <3>2. req[p].settings.camera \in Known(req[p].counter) /\ UNCHANGED everReported
      BY <1>3 DEF InsertSession, RequestsKnow, RequestKnows, At
    <3> QED
      BY <3>1, <3>2 DEF Known
  <2> QED
    BY <2>1, <2>2
<1>4. ASSUME session[s].counter \notin Counters,
             \A p \in Requests : ~InsertSession(p)
      PROVE  FALSE
  <2>1. CASE UNCHANGED session
    BY <1>1, <1>4, <2>1
  <2>2. ASSUME NEW p \in Requests, StoreCart(p) \/ CloseSession(p)
        PROVE  session'[s].counter = session[s].counter
    BY <2>2 DEF StoreCart, CloseSession, TypeOK, SessionRow
  <2>3. ASSUME NEW p \in Requests, DeleteCounter(p)
        PROVE  session'[s].counter = session[s].counter
    BY <2>3 DEF DeleteCounter, tables, TypeOK, SessionRow
  <2> QED
    BY <1>1, <1>4, <2>1, <2>2, <2>3, StepCases
    DEF tables, ConnectStoresCameras, StoreReport, StoreSettings, StoreRotatedKey, CreateCounter
<1> QED
  BY <1>2, <1>3, <1>4

\* Every step keeps the cameras the requests carry known.
LEMMA RequestsKnowNext ==
  ASSUME TypeOK, CountersKnow, RequestsKnow, [Next]_vars
  PROVE  RequestsKnow'
<1> SUFFICES ASSUME NEW p \in Requests
             PROVE  RequestKnows(p)'
  BY DEF RequestsKnow
<1> USE DEF RequestKnows, At
<1>1. CASE req'[p] = req[p]
  <2>1. req[p] \in Request /\ RequestKnows(p)
    BY DEF TypeOK, RequestsKnow
  <2> QED
    BY <1>1, <2>1, RequestFields, HistoryGrows DEF Known
<1>2. \A r : Become(p, r) => req'[p] = r
  BY DEF Become, TypeOK
<1>3. CASE Start(p)
  <2>1. ASSUME NEW c \in Counters, NEW new \in Settings, ReadForSettings(p, c, new)
        PROVE  RequestKnows(p)'
    BY <1>2, <2>1 DEF ReadForSettings, SelectionAllowed, CountersKnow, Known
  <2>2. ASSUME NEW k \in Keys, NEW job \in Job, ReadKey(p, k, job)
        PROVE  RequestKnows(p)'
    BY <1>2, <2>2 DEF ReadKey, RequestsKnow
  <2>3. ASSUME NEW c \in Counters, NEW k \in Keys, CreateCounter(p, c, k)
        PROVE  RequestKnows(p)'
    BY <2>3 DEF CreateCounter, RequestsKnow
  <2>4. ASSUME NEW x, NEW new, \/ ReadForReport(p, x, new)
                              \/ AdminReadsForEdit(p, x, new)
                              \/ AdminReadsForCancel(p, x)
                              \/ ReadActiveKeys(p, x) \/ ReadForDelete(p, x)
        PROVE  RequestKnows(p)'
    BY <1>2, <2>4 DEF ReadForReport, AdminReadsForEdit, AdminReadsForCancel,
                      ReadActiveKeys, ReadForDelete
  <2> QED
    BY <1>3, <2>1, <2>2, <2>3, <2>4 DEF Start
<1>4. CASE Continue(p)
  <2> DEFINE c == req[p].counter
  <2>1. CASE LoadCounter(p) \/ RefreshCounter(p)
    <3>1. c \in Counters /\ UNCHANGED everReported
      BY <2>1, RequestFields DEF LoadCounter, RefreshCounter, TypeOK
    <3>2. \/ req'[p].at \in {"idle", "authorised", "connecting"}
          \/ /\ req'[p].counter = c
             /\ req'[p].settings = counter[c].settings
      BY <1>2, <2>1, RequestFields, JobFields DEF LoadCounter, RefreshCounter, Idle, TypeOK
    <3> QED
      BY <3>1, <3>2 DEF CountersKnow, Known
  <2>2. CASE FindOpenSession(p)
    <3>1. \/ req'[p] = Idle \/ req'[p].at = "answering"
          \/ req'[p] = [at |-> "creating", counter |-> c, settings |-> req[p].settings]
      BY <2>2, SearchCases
    <3> QED
      BY <2>2, <3>1 DEF FindOpenSession, RequestsKnow, Known, Idle
  <2>3. CASE FindWinner(p)
    <3>1. ~ FindOpenSession(p)
      BY <2>3 DEF FindOpenSession, FindWinner
    <3>2. req'[p] = Idle \/ req'[p].at = "answering"
      BY <2>3, <3>1, SearchCases
    <3> QED
      BY <3>2 DEF Idle
  <2>4. CASE InsertSession(p) \/ RequireSession(p)
    <3>1. CASE RequireSession(p)
      BY <1>2, <3>1 DEF RequireSession, Idle
    <3>2. CASE InsertSession(p) /\ InsertAccepted(c)
      <4>1. PICK s \in Sessions :
              Become(p, [at |-> "inserted", counter |-> c, session |-> s])
        BY <3>2 DEF InsertSession
      <4> QED
        BY <1>2, <4>1
    <3>3. CASE InsertSession(p) /\ ~InsertAccepted(c)
      BY <1>2, <3>3 DEF InsertSession
    <3> QED
      BY <2>4, <3>1, <3>2, <3>3
  <2>5. CASE \/ ConnectStoresCameras(p) \/ RefreshSession(p) \/ Reply(p)
             \/ StoreCart(p) \/ CloseSession(p) \/ StoreReport(p) \/ StoreSettings(p)
             \/ StoreRotatedKey(p) \/ DeleteCounter(p)
    <3>1. req'[p].at \in {"refreshing", "answering", "idle"}
      BY <1>2, <2>5 DEF ConnectStoresCameras, RefreshSession, Reply, StoreCart,
           CloseSession, StoreReport, StoreSettings, StoreRotatedKey, DeleteCounter,
           Answer, Idle
    <3> QED
      BY <3>1
  <2> QED
    BY <1>4, <2>1, <2>2, <2>3, <2>4, <2>5 DEF Continue
<1>5. CASE Abort(p)
  BY <1>2, <1>5 DEF Abort, Idle
<1> QED
  BY <1>1, <1>3, <1>4, <1>5, StepOfOne

\* The inductive invariant.
Inv == /\ TypeOK /\ RequestsKnowTheirRows /\ RowsFollowCounters
       /\ AtMostOneOpenSession /\ ExactlyOneActiveKey
       /\ CountersKnow /\ SessionsKnow /\ RequestsKnow

\* It holds of the empty database.
LEMMA InvInit == Init => Inv
<1> SUFFICES ASSUME Init PROVE Inv
  OBVIOUS
<1>1. TypeOK
  BY TypeInit
<1>2. RequestsKnowTheirRows /\ RequestsKnow
  BY DEF Init, RequestsKnowTheirRows, KnowsItsRows, RequestsKnow, RequestKnows, At, Idle
<1>3. RowsFollowCounters /\ SessionsKnow /\ AtMostOneOpenSession
  BY ConstantsAssumption
  DEF Init, RowsFollowCounters, SessionsKnow, AtMostOneOpenSession,
      get_open_checkout_session, SessionsOf, Stored
<1>4. CountersKnow /\ ExactlyOneActiveKey
  BY DEF Init, CountersKnow, Known, DefaultSettings, ExactlyOneActiveKey, Live
<1> QED
  BY <1>1, <1>2, <1>3, <1>4 DEF Inv

\* Every step keeps it.
LEMMA InvNext == Inv /\ [Next]_vars => Inv'
  BY TypeNext, KnownNext, FollowNext, OneOpenNext, OneKeyNext, CountersKnowNext,
     SessionsKnowNext, RequestsKnowNext DEF Inv

\* It holds in every reachable state.
LEMMA InvCorrect == Spec => []Inv
  BY InvInit, InvNext, PTL DEF Spec

\* A counter never has two open sessions.
THEOREM OneOpenSession == Spec => []AtMostOneOpenSession
<1>1. Inv => AtMostOneOpenSession
  BY DEF Inv
<1> QED
  BY InvCorrect, <1>1, PTL

\* A live counter always has exactly one key that works.
THEOREM OneActiveKey == Spec => []ExactlyOneActiveKey
<1>1. Inv => ExactlyOneActiveKey
  BY DEF Inv
<1> QED
  BY InvCorrect, <1>1, PTL

\* No stored session and no key outlives its counter.
THEOREM NothingOrphaned == Spec => []NoOrphans
<1>1. Inv => NoOrphans
  BY DEF Inv, TypeOK, RowsFollowCounters, NoOrphans, Stored, Live,
         CounterRow, SessionRow, KeyRow
<1> QED
  BY InvCorrect, <1>1, PTL

\* A counter's key reaches the sessions of that counter only.
THEOREM OnlyOwnSessions == Spec => []OwnSessionsOnly
<1>1. Inv => OwnSessionsOnly
  BY DEF Inv, RequestsKnowTheirRows, KnowsItsRows, OwnSessionsOnly
<1> QED
  BY InvCorrect, <1>1, PTL

\* No camera is selected that the counter never reported.
THEOREM OnlyReportedCameras == Spec => []SelectionWasReported
<1>1. Inv => SelectionWasReported
  <2> SUFFICES ASSUME Inv PROVE SelectionWasReported
    OBVIOUS
  <2>1. \A s \in Sessions : Stored(s) => session[s].counter \in Counters
    BY DEF Inv, TypeOK, Stored, SessionRow
  <2> QED
    BY <2>1 DEF Inv, CountersKnow, SessionsKnow, Known, SelectionWasReported
<1> QED
  BY InvCorrect, <1>1, PTL

\* The settings and the counter of a session are fixed when it is inserted.
THEOREM SnapshotsNeverChange == Spec => SnapshotFrozen
<1>1. Inv /\ [Next]_vars => [\A s \in Sessions : session[s].phase # "none" =>
        /\ session'[s].settings = session[s].settings
        /\ session'[s].counter = session[s].counter]_vars
  <2> SUFFICES ASSUME Inv, [Next]_vars, NEW s \in Sessions, session[s].phase # "none"
               PROVE  /\ session'[s].settings = session[s].settings
                      /\ session'[s].counter = session[s].counter
    OBVIOUS
  <2>1. session[s].counter \in Counters
    BY DEF Inv, TypeOK, SessionRow
  <2> QED
    BY <2>1, RowsFrozen DEF Inv
<1> QED
  BY InvCorrect, <1>1, PTL DEF Spec, SnapshotFrozen
-----------------------------------------------------------------------------
(* The step properties: the closed session's writers, and the promise.     *)

\* No step lets a new request in to write a closed session.
LEMMA WritersNext ==
  ASSUME TypeOK, [Next]_vars, NEW s \in Sessions, session[s].phase = "closed"
  PROVE  Writers(s)' \subseteq Writers(s)
<1> SUFFICES ASSUME NEW p \in Requests,
                    req'[p].at \in {"editing", "closing"}, req'[p].session = s,
                    req'[p] # req[p]
             PROVE  FALSE
  BY DEF Writers, At
<1>1. \A r : Become(p, r) => req'[p] = r
  BY DEF Become, TypeOK
<1>2. CASE Start(p)
  <2>1. ASSUME NEW x \in Sessions, NEW new \in Carts, AdminReadsForEdit(p, x, new)
        PROVE  FALSE
    BY <1>1, <2>1 DEF AdminReadsForEdit, Open
  <2>2. ASSUME NEW x \in Sessions, AdminReadsForCancel(p, x)
        PROVE  FALSE
    BY <1>1, <2>2 DEF AdminReadsForCancel, Open
  <2>3. ASSUME NEW x, NEW new, \/ ReadForReport(p, x, new) \/ ReadForSettings(p, x, new)
                              \/ ReadActiveKeys(p, x) \/ ReadForDelete(p, x)
        PROVE  FALSE
    BY <1>1, <2>3 DEF ReadForReport, ReadForSettings, ReadActiveKeys, ReadForDelete
  <2>4. ASSUME NEW k \in Keys, NEW job \in Job, ReadKey(p, k, job)
        PROVE  FALSE
    BY <1>1, <2>4 DEF ReadKey
  <2>5. ASSUME NEW c \in Counters, NEW k \in Keys, CreateCounter(p, c, k)
        PROVE  FALSE
    BY <2>5 DEF CreateCounter
  <2> QED
    BY <1>2, <2>1, <2>2, <2>3, <2>4, <2>5 DEF Start
<1>3. CASE Continue(p)
  <2>1. CASE RequireSession(p)
    BY <1>1, <2>1 DEF RequireSession, require_session, Open, Idle
  <2>2. CASE FindOpenSession(p) \/ FindWinner(p)
    <3>1. \/ req'[p] = Idle \/ req'[p].at = "answering"
          \/ req'[p] = [at |-> "creating", counter |-> req[p].counter,
                        settings |-> req[p].settings]
      BY <2>2, SearchCases
    <3> QED
      BY <3>1 DEF Idle
  <2>3. CASE InsertSession(p)
    <3>1. CASE InsertAccepted(req[p].counter)
      <4>1. PICK x \in Sessions :
              Become(p, [at |-> "inserted", counter |-> req[p].counter, session |-> x])
        BY <2>3, <3>1 DEF InsertSession
      <4> QED
        BY <1>1, <4>1
    <3>2. CASE ~InsertAccepted(req[p].counter)
      BY <1>1, <2>3, <3>2 DEF InsertSession
    <3> QED
      BY <3>1, <3>2
  <2>4. CASE LoadCounter(p) \/ RefreshCounter(p) \/ ConnectStoresCameras(p)
    BY <1>1, <2>4 DEF LoadCounter, RefreshCounter, ConnectStoresCameras, Idle
  <2>5. CASE \/ RefreshSession(p) \/ Reply(p) \/ StoreCart(p) \/ CloseSession(p)
             \/ StoreReport(p) \/ StoreSettings(p) \/ StoreRotatedKey(p)
             \/ DeleteCounter(p)
    BY <1>1, <2>5 DEF RefreshSession, Reply, StoreCart, CloseSession, StoreReport,
         StoreSettings, StoreRotatedKey, DeleteCounter, Answer, Idle
  <2> QED
    BY <1>3, <2>1, <2>2, <2>3, <2>4, <2>5 DEF Continue
<1>4. CASE Abort(p)
  BY <1>1, <1>4 DEF Abort, Idle
<1> QED
  BY <1>2, <1>3, <1>4, StepOfOne

\* After a session is closed, no request joins those about to write it.
THEOREM ClosedGainsNoWriters == Spec => ClosedAttractsNoWriters
<1>1. Inv /\ [Next]_vars =>
        [\A s \in Sessions : session[s].phase = "closed" =>
           Writers(s)' \subseteq Writers(s)]_vars
  BY WritersNext DEF Inv
<1> QED
  BY InvCorrect, <1>1, PTL DEF Spec, ClosedAttractsNoWriters
-----------------------------------------------------------------------------
(* The refinement mapping forgets carts, settings and cameras.             *)
LifeOf(row) == [phase |-> row.phase, counter |-> row.counter]

\* The empty database maps to a promise that has not begun.
LEMMA PromiseInit == Init => Promise!Init
  BY DEF Init, Promise!Init

\* Where the mapped rows keep their values the promise stutters.
LEMMA SameLife ==
  ASSUME \A c \in Counters : counter'[c].phase = counter[c].phase,
         \A s \in Sessions : session'[s].phase = session[s].phase
                             /\ session'[s].counter = session[s].counter,
         UNCHANGED apiKey
  PROVE  UNCHANGED Promise!promised
  BY DEF Promise!promised

\* Every step of the store is a step of the promise, or none.
LEMMA PromiseNext == Inv /\ [Next]_vars => [Promise!Next]_(Promise!promised)
<1> SUFFICES ASSUME Inv, [Next]_vars
             PROVE  Promise!Next \/ UNCHANGED Promise!promised
  OBVIOUS
<1> USE DEF Inv
<1>1. CASE UNCHANGED <<tables, everReported>>
  BY <1>1, SameLife DEF tables
<1>2. ASSUME NEW p \in Requests,
             ConnectStoresCameras(p) \/ StoreReport(p) \/ StoreSettings(p)
      PROVE  UNCHANGED Promise!promised
  <2>1. \A c \in Counters : counter'[c].phase = counter[c].phase
    BY <1>2 DEF ConnectStoresCameras, StoreReport, StoreSettings, StoreCameras,
                TypeOK, CounterRow
  <2>2. UNCHANGED <<session, apiKey>>
    BY <1>2 DEF ConnectStoresCameras, StoreReport, StoreSettings
  <2> QED
    BY <2>1, <2>2, SameLife
<1>3. ASSUME NEW p \in Requests, StoreCart(p)
      PROVE  UNCHANGED Promise!promised
  <2>1. \A s \in Sessions : session'[s].phase = session[s].phase
                            /\ session'[s].counter = session[s].counter
    BY <1>3 DEF StoreCart, TypeOK, SessionRow
  <2>2. (\A c \in Counters : counter'[c].phase = counter[c].phase) /\ UNCHANGED apiKey
    BY <1>3 DEF StoreCart
  <2> QED
    BY <2>1, <2>2, SameLife
<1>4. ASSUME NEW p \in Requests, CloseSession(p)
      PROVE  Promise!Next \/ UNCHANGED Promise!promised
  <2> PICK s \in Sessions : s = req[p].session
    BY <1>4, RequestFields DEF CloseSession, At, TypeOK
  <2>1. (\A c \in Counters : counter'[c].phase = counter[c].phase) /\ UNCHANGED apiKey
    BY <1>4 DEF CloseSession
  <2>2. CASE session[s].phase = "open"
    <3>1. session' = [session EXCEPT ![s].phase = "closed"]
      BY <1>4, <2>2 DEF CloseSession, Stored
    <3>2. \A x \in Sessions :
            LifeOf(session'[x]) =
              IF x = s THEN [LifeOf(session[x]) EXCEPT !.phase = "closed"]
              ELSE LifeOf(session[x])
      BY <3>1 DEF LifeOf, TypeOK, SessionRow
    <3>3. [x \in Sessions |-> LifeOf(session'[x])] =
            [[x \in Sessions |-> LifeOf(session[x])] EXCEPT ![s].phase = "closed"]
      BY <3>2
    <3>4. UNCHANGED <<[c \in Counters |-> counter[c].phase], apiKey>>
      BY <2>1
    <3>5. Promise!CloseOpen(s)
      BY <2>2, <3>3, <3>4 DEF Promise!CloseOpen, LifeOf
    <3> QED
      BY <3>5 DEF Promise!Next
  <2>3. CASE session[s].phase # "open"
    <3>1. \A x \in Sessions : session'[x].phase = session[x].phase
                              /\ session'[x].counter = session[x].counter
      BY <1>4, <2>3 DEF CloseSession, Stored, TypeOK, SessionRow
    <3> QED
      BY <2>1, <3>1, SameLife
  <2> QED
    BY <2>2, <2>3
<1>5. ASSUME NEW p \in Requests, InsertSession(p)
      PROVE  Promise!Next \/ UNCHANGED Promise!promised
  <2> PICK c \in Counters : c = req[p].counter
    BY <1>5, InsertionCases
  <2>1. UNCHANGED <<counter, apiKey>>
    BY <1>5, InsertionCases
  <2>2. CASE UNCHANGED session
    BY <2>1, <2>2, SameLife
  <2>3. CASE ~ UNCHANGED session
    <3>1. PICK s \in Sessions :
            /\ session[s].phase = "none"
            /\ session' = [session EXCEPT ![s] =
                 [phase |-> "open", counter |-> c, cart |-> EmptyCart,
                  settings |-> req[p].settings]]
      BY <1>5, <2>3, InsertionCases
    <3>2. Live(c) /\ get_open_checkout_session(c) = {}
      BY <1>5, <2>3, InsertionCases DEF InsertAccepted
    <3>3. Promise!OpenOf(c) = {}
      BY <3>2 DEF Promise!OpenOf, get_open_checkout_session, SessionsOf, Stored, Open
    <3>4. \A x \in Sessions :
            LifeOf(session'[x]) = IF x = s THEN [phase |-> "open", counter |-> c]
                                  ELSE LifeOf(session[x])
      BY <3>1 DEF LifeOf, TypeOK
    <3>5. Promise!OpenSession(c, s)
      BY <2>1, <3>1, <3>2, <3>3, <3>4 DEF Promise!OpenSession, LifeOf, Live
    <3> QED
      BY <3>5 DEF Promise!Next
  <2> QED
    BY <2>2, <2>3
<1>6. ASSUME NEW p \in Requests, StoreRotatedKey(p)
      PROVE  Promise!Next \/ UNCHANGED Promise!promised
  <2> PICK c \in Counters : c = req[p].counter
    BY <1>6, RequestFields DEF StoreRotatedKey, At, TypeOK
  <2>1. UNCHANGED <<counter, session>>
    BY <1>6 DEF StoreRotatedKey
  <2>2. CASE UNCHANGED apiKey
    BY <2>1, <2>2, SameLife
  <2>3. CASE RotationAccepted(c, req[p].old)
    <3>1. PICK k \in Keys :
            /\ apiKey[k].phase = "none"
            /\ apiKey' = [x \in Keys |->
                 IF x = k THEN [phase |-> "active", counter |-> c]
                 ELSE IF x \in req[p].old THEN [apiKey[x] EXCEPT !.phase = "revoked"]
                 ELSE apiKey[x]]
      BY <1>6, <2>3 DEF StoreRotatedKey
    <3>2. \A x \in Keys : x \in req[p].old =>
            apiKey[x].counter = c /\ apiKey[x].phase \in {"active", "revoked"}
      <4>1. \A x \in Keys : x \in req[p].old => apiKey[x].counter = c
        BY <1>6 DEF StoreRotatedKey, RequestsKnowTheirRows, KnowsItsRows
      <4>2. \A x \in Keys : apiKey[x].counter = c => apiKey[x].phase \notin {"gone", "none"}
        BY <2>3, ConstantsAssumption
        DEF RowsFollowCounters, RotationAccepted, Live, TypeOK, KeyRow
      <4>3. \A x \in Keys : apiKey[x].phase \in {"none", "active", "revoked", "gone"}
        BY DEF TypeOK, KeyRow
      <4> QED
        BY <4>1, <4>2, <4>3
    <3>3. \A x \in Keys : x \in req[p].old /\ apiKey[x].phase = "revoked" =>
            [apiKey[x] EXCEPT !.phase = "revoked"] = apiKey[x]
      BY DEF TypeOK, KeyRow
    <3>4. Promise!UsableKeys(c) = ActiveKeys(c)
      BY DEF Promise!UsableKeys, ActiveKeys, TypeOK, KeyRow
    <3>5. ActiveKeys(c) = {x \in Keys : x \in req[p].old /\ apiKey[x].phase = "active"}
      BY <2>3, <3>2 DEF RotationAccepted, ActiveKeys
    <3>6. apiKey' = [x \in Keys |->
            IF x = k THEN [phase |-> "active", counter |-> c]
            ELSE IF x \in ActiveKeys(c) THEN [apiKey[x] EXCEPT !.phase = "revoked"]
            ELSE apiKey[x]]
      BY <3>1, <3>2, <3>3, <3>5
    <3>7. Promise!Rotate(c, k)
      BY <2>1, <2>3, <3>1, <3>4, <3>6 DEF Promise!Rotate, RotationAccepted, Live
    <3> QED
      BY <3>7 DEF Promise!Next
  <2>4. RotationAccepted(c, req[p].old) \/ UNCHANGED apiKey
    BY <1>6 DEF StoreRotatedKey
  <2> QED
    BY <2>2, <2>3, <2>4
<1>7. ASSUME NEW p \in Requests, DeleteCounter(p)
      PROVE  Promise!Next \/ UNCHANGED Promise!promised
  <2> PICK c \in Counters : c = req[p].counter
    BY <1>7, RequestFields DEF DeleteCounter, At, TypeOK
  <2>1. CASE UNCHANGED tables
    BY <2>1, SameLife DEF tables
  <2>2. CASE ~ UNCHANGED tables
    <3>1. /\ Live(c)
          /\ counter' = [counter EXCEPT ![c].phase = "gone"]
          /\ session' = [s \in Sessions |->
               IF s \in SessionsOf(c) THEN [session[s] EXCEPT !.phase = "gone"]
               ELSE session[s]]
          /\ apiKey' = [k \in Keys |->
               IF apiKey[k].counter = c THEN [apiKey[k] EXCEPT !.phase = "gone"]
               ELSE apiKey[k]]
      BY <1>7, <2>2, DeletionCases DEF DeleteCounter
    <3>2. [x \in Counters |-> counter'[x].phase] =
            [[x \in Counters |-> counter[x].phase] EXCEPT ![c] = "gone"]
      BY <3>1 DEF TypeOK, CounterRow
    <3>3. \A s \in Sessions :
            LifeOf(session'[s]) =
              IF Promise!Belongs(LifeOf(session[s]), c)
              THEN [LifeOf(session[s]) EXCEPT !.phase = "gone"]
              ELSE LifeOf(session[s])
      BY <3>1 DEF LifeOf, Promise!Belongs, SessionsOf, Stored, TypeOK, SessionRow
    <3>4. apiKey' = [k \in Keys |->
            IF Promise!Belongs(apiKey[k], c) THEN [apiKey[k] EXCEPT !.phase = "gone"]
            ELSE apiKey[k]]
      BY <3>1, ConstantsAssumption DEF Promise!Belongs, TypeOK, KeyRow
    <3>5. Promise!Dissolve(c)
      BY <3>1, <3>2, <3>3, <3>4 DEF Promise!Dissolve, LifeOf, Live
    <3> QED
      BY <3>5 DEF Promise!Next
  <2> QED
    BY <2>1, <2>2
<1>8. ASSUME NEW p \in Requests, NEW c \in Counters, NEW k \in Keys,
             CreateCounter(p, c, k)
      PROVE  Promise!Next
  <2>1. [x \in Counters |-> counter'[x].phase] =
          [[x \in Counters |-> counter[x].phase] EXCEPT ![c] = "live"]
    BY <1>8 DEF CreateCounter, TypeOK, CounterRow
  <2>2. Promise!Establish(c, k)
    BY <1>8, <2>1 DEF CreateCounter, Promise!Establish
  <2> QED
    BY <2>2 DEF Promise!Next
<1> QED
  BY <1>1, <1>2, <1>3, <1>4, <1>5, <1>6, <1>7, <1>8, StepCases

\* Every behaviour of the tables is, statement by statement, a behaviour of the
\* lifecycle: counters, sessions and keys change only as CheckoutPromise says.
THEOREM ImplementsPromise == Spec => KeepsThePromise
<1> QED
  BY InvCorrect, PromiseInit, PromiseNext, PTL DEF Spec, KeepsThePromise, Promise!Spec
=============================================================================
