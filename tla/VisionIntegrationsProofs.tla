---------------------- MODULE VisionIntegrationsProofs ----------------------
(* Keys and endpoints, and which model is active and shown, for any number *)
(* of integrations and requests.                                           *)
EXTENDS VisionIntegrations, TLAPS

\* What a request carries at the points that write or read an integration.
LEMMA Carried ==
  ASSUME TypeOK, NEW p \in Requests
  PROVE  /\ At(p, "updating") =>
              /\ req[p].integration \in Integrations
              /\ req[p].endpoint \in Endpoints \cup {Keep}
              /\ req[p].model \in {"keep", "set", "clear"}
         /\ At(p, "listing") => req[p].integration \in Integrations /\ req[p].active \in BOOLEAN
         /\ At(p, "flushing") =>
              req[p].integration \in Integrations /\ req[p].writes \subseteq Integrations
         /\ At(p, "activating") =>
              /\ req[p].integration \in Integrations /\ req[p].writes \subseteq Integrations
              /\ req[p].named \in Named
         /\ At(p, "resolving") => req[p].integration \in Integrations
<1>1. req[p] \in Request
  BY DEF TypeOK
<1> QED
  BY <1>1 DEF Request, Idle, At

\* Only these steps touch an integration.
LEMMA Writers ==
  ASSUME [Next]_vars
  PROVE  \/ UNCHANGED <<integration, settings>>
         \/ \E p \in Requests :
              \/ \E e \in Endpoints, model \in BOOLEAN : CreateIntegration(p, e, model)
              \/ StoreUpdate(p) \/ CommitActivation(p)
  BY DEF vars, Next, Update, Activate, Read, Finish, Begin, ReadForUpdate,
     ReadForActivate, ReadCandidates, FlushAndReadSettings, AskProvider, discover_models,
     ReadSettings, ReadRuntime

\* Creating an integration adds one row.
LEMMA Creating ==
  ASSUME TypeOK, NEW p \in Requests, NEW e \in Endpoints, NEW model \in BOOLEAN,
         CreateIntegration(p, e, model)
  PROVE  /\ integration' \in [Integrations -> Row] /\ settings' = settings
         /\ \A i \in Integrations :
              \/ integration'[i] = integration[i]
              \/ integration'[i].endpoint = e /\ integration'[i].key = e
<1>1. PICK i \in Integrations : integration' = [integration EXCEPT ![i] =
        [stored |-> TRUE, endpoint |-> e, key |-> KeyFor(e), model |-> model, active |-> FALSE]]
  BY DEF CreateIntegration
<1>2. [stored |-> TRUE, endpoint |-> e, key |-> KeyFor(e), model |-> model,
       active |-> FALSE] \in Row
  BY DEF Row, KeyFor
<1> QED
  BY <1>1, <1>2 DEF TypeOK, CreateIntegration, KeyFor

\* Updating one either moves it and drops its key, or keeps both.
LEMMA Updating ==
  ASSUME TypeOK, NEW p \in Requests, StoreUpdate(p)
  PROVE  /\ integration' \in [Integrations -> Row] /\ settings' = settings
         /\ \A i \in Integrations :
              \/ /\ integration'[i].endpoint = integration[i].endpoint
                 /\ integration'[i].key = integration[i].key
              \/ integration'[i].key = None
<1> DEFINE i == req[p].integration  row == integration[i]  moved == req[p].endpoint # Keep
           new == [row EXCEPT !.endpoint = IF moved THEN req[p].endpoint ELSE row.endpoint,
                              !.key = IF moved THEN None ELSE row.key,
                              !.model = IF req[p].model = "keep" THEN row.model
                                        ELSE req[p].model = "set"]
<1>1. /\ i \in Integrations /\ req[p].endpoint \in Endpoints \cup {Keep} /\ At(p, "updating")
  BY Carried DEF StoreUpdate
<1>2. row \in Row
  BY <1>1 DEF TypeOK
<1>3. integration' = [integration EXCEPT ![i] = new] /\ settings' = settings
  BY DEF StoreUpdate
<1>4. PICK endpoint \in Endpoints, key \in Endpoints \cup {None}, model \in BOOLEAN :
        /\ new = [row EXCEPT !.endpoint = endpoint, !.key = key, !.model = model]
        /\ (endpoint = row.endpoint /\ key = row.key) \/ key = None
  <2>1. (IF moved THEN req[p].endpoint ELSE row.endpoint) \in Endpoints
    BY <1>1, <1>2 DEF Row
  <2>2. (IF moved THEN None ELSE row.key) \in Endpoints \cup {None}
    BY <1>2 DEF Row
  <2>3. (IF req[p].model = "keep" THEN row.model ELSE req[p].model = "set") \in BOOLEAN
    BY <1>2 DEF Row
  <2> QED
    BY <2>1, <2>2, <2>3
<1>5. new \in Row /\ new.endpoint = endpoint /\ new.key = key
  BY <1>2, <1>4 DEF Row
<1> HIDE DEF new
<1>6. integration' \in [Integrations -> Row]
  BY <1>1, <1>3, <1>5 DEF TypeOK
<1>7. \A j \in Integrations : integration'[j] = IF j = i THEN new ELSE integration[j]
  BY <1>1, <1>3 DEF TypeOK
<1> QED
  BY <1>3, <1>4, <1>5, <1>6, <1>7

\* Updating writes no flag and no other integration.
LEMMA UpdatingKeepsFlags ==
  ASSUME TypeOK, NEW p \in Requests, StoreUpdate(p)
  PROVE  /\ settings' = settings
         /\ \A i \in Integrations : /\ integration'[i].stored = integration[i].stored
                                    /\ integration'[i].active = integration[i].active
<1>1. PICK e, k, m : integration' = [integration EXCEPT ![req[p].integration] =
        [integration[req[p].integration] EXCEPT !.endpoint = e, !.key = k, !.model = m]]
  BY DEF StoreUpdate
<1>2. /\ req[p].integration \in Integrations /\ settings' = settings
  BY Carried DEF StoreUpdate
<1>3. ASSUME NEW i \in Integrations
      PROVE  LET new == [integration[i] EXCEPT !.endpoint = e, !.key = k, !.model = m]
             IN  new.stored = integration[i].stored /\ new.active = integration[i].active
  <2>1. integration[i] \in Row
    BY DEF TypeOK
  <2> QED
    BY <2>1 DEF Row
<1> QED
  BY <1>1, <1>2, <1>3 DEF TypeOK

\* Activating changes flags only.
LEMMA Activating ==
  ASSUME TypeOK, NEW p \in Requests, CommitActivation(p)
  PROVE  /\ integration' \in [Integrations -> Row] /\ settings' \in Named
         /\ \A i \in Integrations : /\ integration'[i].endpoint = integration[i].endpoint
                                    /\ integration'[i].key = integration[i].key
<1> DEFINE i == req[p].integration
<1>1. i \in Integrations
  BY Carried DEF CommitActivation
<1>2. CASE UNCHANGED <<integration, settings>>
  BY <1>2 DEF TypeOK
<1>3. CASE /\ integration' = [j \in Integrations |->
                IF j \in req[p].writes THEN [integration[j] EXCEPT !.active = (j = i)]
                                       ELSE integration[j]]
           /\ settings' = IF req[p].named = i THEN settings ELSE i
  <2>1. ASSUME NEW j \in Integrations, NEW flag \in BOOLEAN
        PROVE  LET new == [integration[j] EXCEPT !.active = flag]
               IN  /\ new \in Row /\ new.endpoint = integration[j].endpoint
                   /\ new.key = integration[j].key
    <3>1. integration[j] \in Row
      BY DEF TypeOK
    <3> QED
      BY <3>1 DEF Row
  <2>2. \A j \in Integrations : (j = i) \in BOOLEAN
    OBVIOUS
  <2>3. settings' \in Named
    BY <1>1, <1>3 DEF TypeOK, Named
  <2> QED
    BY <1>3, <2>1, <2>2, <2>3 DEF TypeOK
<1> QED
  BY <1>2, <1>3 DEF CommitActivation

\* What a record of a request needs to be one.
LEMMA Shapes ==
  /\ Idle \in Request
  /\ \A i \in Integrations, e \in Endpoints \cup {Keep}, m \in {"keep", "set", "clear"} :
       [at |-> "updating", integration |-> i, endpoint |-> e, model |-> m] \in Request
  /\ \A i \in Integrations, flag \in BOOLEAN :
       [at |-> "listing", integration |-> i, active |-> flag] \in Request
  /\ \A i \in Integrations, w \in SUBSET Integrations :
       [at |-> "flushing", integration |-> i, writes |-> w] \in Request
  /\ \A i \in Integrations, w \in SUBSET Integrations, n \in Named :
       [at |-> "activating", integration |-> i, writes |-> w, named |-> n] \in Request
  /\ \A a \in {"asking", "handed"}, e \in Endpoints, k \in Endpoints \cup {None} :
       [at |-> a, endpoint |-> e, key |-> k] \in Request
  /\ \A i \in Integrations : [at |-> "resolving", integration |-> i] \in Request
  /\ \A x, y \in SUBSET Models, m, a \in Models \cup {None} :
       [at |-> "answered", listed |-> x, loaded |-> y, identifier |-> m,
        active |-> a] \in Request
  BY DEF Request

\* A step of a request replaces its record and no other.
LEMMA Becoming ==
  ASSUME TypeOK, NEW p \in Requests, NEW r \in Request, Become(p, r)
  PROVE  /\ req' \in [Requests -> Request]
         /\ \A q \in Requests : req'[q] = IF q = p THEN r ELSE req[q]
  BY DEF TypeOK, Become

\* Whichever way it is claimed, the model shown is one of the provider's or none.
LEMMA ShownIsAModel ==
  ASSUME NEW listed \in SUBSET Models, NEW loaded \in SUBSET Models,
         NEW identifier \in Models \cup {None}, NEW a \in Shown(listed, loaded, identifier)
  PROVE  a \in Models \cup {None}
<1>1. PICK m \in Claimed(loaded, identifier) :
        a \in IF m \in listed THEN {m}
              ELSE IF listed \cap loaded = {} THEN {None} ELSE listed \cap loaded
  BY DEF Shown
<1> QED
  BY <1>1

\* What a request asks or hands on is a pair that some integration holds.
LEMMA Requesting ==
  ASSUME TypeOK, VisionAssumption, [Next]_vars
  PROVE  /\ req' \in [Requests -> Request] /\ calm' \subseteq Requests
         /\ \A q \in Requests : At(q, "asking")' \/ At(q, "handed")' =>
              \/ req'[q] = req[q]
              \/ \E i \in Integrations :
                   req'[q].endpoint = integration[i].endpoint /\ req'[q].key = integration[i].key
<1> DEFINE Fine ==
      /\ req' \in [Requests -> Request] /\ calm' \subseteq Requests
      /\ \A q \in Requests : At(q, "asking")' \/ At(q, "handed")' =>
           \/ req'[q] = req[q]
           \/ \E i \in Integrations :
                req'[q].endpoint = integration[i].endpoint /\ req'[q].key = integration[i].key
<1>1. ASSUME NEW p \in Requests, NEW r \in Request, Become(p, r), calm' \subseteq Requests,
             r.at \notin {"asking", "handed"}
      PROVE  Fine
  BY <1>1, Becoming DEF At
<1>2. ASSUME NEW p \in Requests, NEW i \in Integrations, NEW a \in {"asking", "handed"},
             calm' = calm,
             Become(p, [at |-> a, endpoint |-> integration[i].endpoint,
                        key |-> integration[i].key])
      PROVE  Fine
  <2> DEFINE r == [at |-> a, endpoint |-> integration[i].endpoint, key |-> integration[i].key]
  <2>1. integration[i] \in Row
    BY DEF TypeOK
  <2>2. r \in Request
    BY <2>1, Shapes DEF Row
  <2>3. r.endpoint = integration[i].endpoint /\ r.key = integration[i].key
    OBVIOUS
  <2>4. Become(p, r)
    BY <1>2
  <2> HIDE DEF r
  <2>5. /\ req' \in [Requests -> Request]
        /\ \A q \in Requests : req'[q] = IF q = p THEN r ELSE req[q]
    BY <2>2, <2>4, Becoming
  <2> QED
    BY <1>2, <2>3, <2>5 DEF TypeOK
<1>3. ASSUME req' = req, calm' = calm
      PROVE  Fine
  BY <1>3 DEF TypeOK
<1>4. CASE UNCHANGED vars
  BY <1>3, <1>4 DEF vars
<1>5. ASSUME NEW p \in Requests
      PROVE  /\ (\E e \in Endpoints, model \in BOOLEAN : CreateIntegration(p, e, model)) => Fine
             /\ StoreUpdate(p) \/ CommitActivation(p) \/ Finish(p) => Fine
             /\ Update(p) \/ Activate(p) \/ Read(p) => Fine
  <2>1. ASSUME NEW e \in Endpoints, NEW model \in BOOLEAN, CreateIntegration(p, e, model)
        PROVE  Fine
    BY <2>1, <1>3 DEF CreateIntegration
  <2>2. Become(p, Idle) /\ calm' \subseteq Requests => Fine
    BY <1>1, Shapes DEF Idle
  <2>3. StoreUpdate(p) \/ CommitActivation(p) \/ Finish(p) => Fine
    BY <2>2 DEF StoreUpdate, CommitActivation, Finish, TypeOK
  <2>4. ASSUME NEW i \in Integrations, NEW e \in Endpoints \cup {Keep},
               NEW m \in {"keep", "set", "clear"}, ReadForUpdate(p, i, e, m)
        PROVE  Fine
    BY <2>4, <1>1, Shapes DEF ReadForUpdate, Begin, TypeOK
  <2>5. ASSUME NEW i \in Integrations, ReadForActivate(p, i)
        PROVE  Fine
    <3>1. integration[i].active \in BOOLEAN
      BY DEF TypeOK, Row
    <3> QED
      BY <2>5, <3>1, <1>1, Shapes DEF ReadForActivate, TypeOK
  <2>6. CASE ReadCandidates(p)
    <3>1. req[p].integration \in Integrations
      BY <2>6, Carried DEF ReadCandidates
    <3>2. (Active \ {req[p].integration})
            \cup (IF req[p].active THEN {} ELSE {req[p].integration}) \in SUBSET Integrations
      BY <3>1 DEF Active
    <3> QED
      BY <2>6, <3>1, <3>2, <1>1, Shapes DEF ReadCandidates, TypeOK
  <2>7. CASE FlushAndReadSettings(p)
    <3>1. req[p].integration \in Integrations /\ req[p].writes \in SUBSET Integrations
      BY <2>7, Carried DEF FlushAndReadSettings
    <3> QED
      BY <2>7, <3>1, <1>1, Shapes DEF FlushAndReadSettings, TypeOK
  <2>8. ASSUME NEW i \in Integrations, AskProvider(p, i)
        PROVE  Fine
    BY <2>8, <1>2 DEF AskProvider, Begin
  <2>9. CASE discover_models(p)
    <3>0. PICK listed \in SUBSET Models, loaded \in SUBSET Models,
               identifier \in Models \cup {None} :
            \E active \in Shown(listed, loaded, identifier) :
              Become(p, [at |-> "answered", listed |-> listed, loaded |-> loaded,
                         identifier |-> identifier, active |-> active])
      BY <2>9 DEF discover_models
    <3>1. PICK a \in Shown(listed, loaded, identifier) :
            Become(p, [at |-> "answered", listed |-> listed, loaded |-> loaded,
                       identifier |-> identifier, active |-> a])
      BY <3>0
    <3>2. a \in Models \cup {None}
      BY ShownIsAModel
    <3> QED
      BY <2>9, <3>1, <3>2, <1>1, Shapes DEF discover_models, TypeOK
  <2>10. CASE ReadSettings(p)
    BY <2>10, <1>1, Shapes DEF ReadSettings, Begin, TypeOK
  <2>11. CASE ReadRuntime(p)
    <3>1. req[p].integration \in Integrations
      BY <2>11, Carried DEF ReadRuntime
    <3> QED
      BY <2>11, <3>1, <1>2 DEF ReadRuntime
  <2> QED
    BY <2>1, <2>3, <2>4, <2>5, <2>6, <2>7, <2>8, <2>9, <2>10, <2>11
    DEF Update, Activate, Read
<1> QED
  BY <1>4, <1>5 DEF Next
-----------------------------------------------------------------------------
\* The tables and the requests always have their shape (models.py:101-165).
THEOREM TypeCorrect == Spec => []TypeOK
<1>1. Init => TypeOK
  <2> SUFFICES ASSUME Init PROVE TypeOK
    OBVIOUS
  <2>1. integration \in [Integrations -> Row] /\ settings \in Named
    <3>1. PICK e \in Endpoints :
            LET empty == [i \in Integrations |->
                  [stored |-> FALSE, endpoint |-> e, key |-> None, model |-> FALSE,
                   active |-> FALSE]]
            IN  \/ integration = empty /\ settings \in {None, NoRow}
                \/ \E i \in Integrations, key \in {KeyFor(e), None}, model \in BOOLEAN :
                     /\ integration = [empty EXCEPT ![i] =
                          [stored |-> TRUE, endpoint |-> e, key |-> key, model |-> model,
                           active |-> model /\ key # None]]
                     /\ settings = i
      BY DEF Init
    <3> DEFINE empty == [i \in Integrations |->
                  [stored |-> FALSE, endpoint |-> e, key |-> None, model |-> FALSE,
                   active |-> FALSE]]
    <3>2. empty \in [Integrations -> Row]
      BY DEF Row
    <3>3. CASE integration = empty /\ settings \in {None, NoRow}
      BY <3>2, <3>3 DEF Named
    <3>4. ASSUME NEW i \in Integrations, NEW key \in {KeyFor(e), None}, NEW model \in BOOLEAN,
                 settings = i,
                 integration = [empty EXCEPT ![i] =
                   [stored |-> TRUE, endpoint |-> e, key |-> key, model |-> model,
                    active |-> model /\ key # None]]
          PROVE  integration \in [Integrations -> Row] /\ settings \in Named
      <4> DEFINE migrated == [stored |-> TRUE, endpoint |-> e, key |-> key, model |-> model,
                              active |-> model /\ key # None]
      <4>0. (model /\ key # None) \in BOOLEAN
        OBVIOUS
      <4>1. migrated \in Row
        BY <4>0 DEF Row, KeyFor
      <4> HIDE DEF migrated, empty
      <4>2. [empty EXCEPT ![i] = migrated] \in [Integrations -> Row]
        BY <3>2, <4>1
      <4> QED
        BY <3>4, <4>2 DEF Named, migrated
    <3> QED
      BY <3>1, <3>3, <3>4
  <2> QED
    BY <2>1, Shapes DEF Init, TypeOK
<1>2. TypeOK /\ [Next]_vars => TypeOK'
  <2> SUFFICES ASSUME TypeOK, [Next]_vars PROVE TypeOK'
    OBVIOUS
  <2>1. integration' \in [Integrations -> Row] /\ settings' \in Named
    <3>1. CASE UNCHANGED <<integration, settings>>
      BY <3>1 DEF TypeOK
    <3>2. ASSUME NEW p \in Requests, NEW e \in Endpoints, NEW model \in BOOLEAN,
                 CreateIntegration(p, e, model)
          PROVE  integration' \in [Integrations -> Row] /\ settings' \in Named
      BY <3>2, Creating DEF TypeOK
    <3>3. ASSUME NEW p \in Requests, StoreUpdate(p)
          PROVE  integration' \in [Integrations -> Row] /\ settings' \in Named
      BY <3>3, Updating DEF TypeOK
    <3>4. ASSUME NEW p \in Requests, CommitActivation(p)
          PROVE  integration' \in [Integrations -> Row] /\ settings' \in Named
      BY <3>4, Activating
    <3> QED
      BY <3>1, <3>2, <3>3, <3>4, Writers
  <2>2. req' \in [Requests -> Request] /\ calm' \subseteq Requests
    BY Requesting, VisionAssumption
  <2> QED
    BY <2>1, <2>2 DEF TypeOK
<1> QED
  BY <1>1, <1>2, PTL DEF Spec

\* No interleaving of updates pairs a key with an endpoint it was not stored
\* for (vision_inference_integrations.py:99-101).
THEOREM KeysNeverStray == Spec => []KeysStayHome
<1>1. Init => KeysStayHome
  BY DEF Init, KeysStayHome, Opens, KeyFor, Idle, At
<1>2. TypeOK /\ KeysStayHome /\ [Next]_vars => KeysStayHome'
  <2> SUFFICES ASSUME TypeOK, KeysStayHome, [Next]_vars PROVE KeysStayHome'
    OBVIOUS
  <2>1. \A i \in Integrations : Opens(integration[i].key, integration[i].endpoint)
    BY DEF KeysStayHome
  <2>2. \A i \in Integrations : Opens(integration'[i].key, integration'[i].endpoint)
    <3>1. CASE UNCHANGED <<integration, settings>>
      BY <3>1, <2>1
    <3>2. ASSUME NEW p \in Requests, NEW e \in Endpoints, NEW model \in BOOLEAN,
                 CreateIntegration(p, e, model), NEW i \in Integrations
          PROVE  Opens(integration'[i].key, integration'[i].endpoint)
      BY <3>2, <2>1, Creating DEF Opens
    <3>3. ASSUME NEW p \in Requests, StoreUpdate(p), NEW i \in Integrations
          PROVE  Opens(integration'[i].key, integration'[i].endpoint)
      BY <3>3, <2>1, Updating DEF Opens
    <3>4. ASSUME NEW p \in Requests, CommitActivation(p), NEW i \in Integrations
          PROVE  Opens(integration'[i].key, integration'[i].endpoint)
      BY <3>4, <2>1, Activating
    <3> QED
      BY <3>1, <3>2, <3>3, <3>4, Writers
  <2>3. ASSUME NEW q \in Requests, At(q, "asking")' \/ At(q, "handed")'
        PROVE  Opens(req'[q].key, req'[q].endpoint)
    <3>1. CASE req'[q] = req[q]
      BY <3>1, <2>3 DEF KeysStayHome, At
    <3>2. CASE \E i \in Integrations :
                 req'[q].endpoint = integration[i].endpoint /\ req'[q].key = integration[i].key
      BY <3>2, <2>1
    <3> QED
      BY <2>3, <3>1, <3>2, Requesting, VisionAssumption
  <2> QED
    BY <2>2, <2>3 DEF KeysStayHome, Opens, At
<1> QED
  BY <1>1, <1>2, TypeCorrect, PTL DEF Spec
-----------------------------------------------------------------------------
\* A step that is not of a request leaves what that request remembers.
LEMMA StepOfOne ==
  ASSUME TypeOK, [Next]_vars, NEW q \in Requests, req'[q] # req[q]
  PROVE  Update(q) \/ Activate(q) \/ Read(q) \/ Finish(q)
<1>1. \A p \in Requests : \A r : Become(p, r) => p = q
  BY DEF Become, TypeOK
<1>2. PICK p \in Requests :
        \/ \E e \in Endpoints, model \in BOOLEAN : CreateIntegration(p, e, model)
        \/ Update(p) \/ Activate(p) \/ Read(p) \/ Finish(p)
  BY DEF Next, vars
<1>3. ~\E e \in Endpoints, model \in BOOLEAN : CreateIntegration(p, e, model)
  BY DEF CreateIntegration
<1>4. Update(p) => p = q
  BY <1>1 DEF Update, ReadForUpdate, StoreUpdate, Begin
<1>5. Activate(p) => p = q
  BY <1>1 DEF Activate, ReadForActivate, ReadCandidates, FlushAndReadSettings, CommitActivation
<1>6. Read(p) => p = q
  BY <1>1 DEF Read, AskProvider, discover_models, ReadSettings, ReadRuntime, Begin
<1>7. Finish(p) => p = q
  BY <1>1 DEF Finish
<1> QED
  BY <1>2, <1>3, <1>4, <1>5, <1>6, <1>7

\* What discover_models shows is usable, whatever the provider claims.
LEMMA ShownIsUsable ==
  ASSUME VisionAssumption, NEW listed \in SUBSET Models, NEW loaded \in SUBSET Models,
         NEW identifier \in Models \cup {None}, NEW a \in Shown(listed, loaded, identifier)
  PROVE  /\ a \in listed \cap loaded \/ (listed \cap loaded = {} /\ a = None)
         /\ identifier \in listed \cap loaded => a = identifier
<1>1. PICK m \in Claimed(loaded, identifier) :
        a \in IF m \in listed THEN {m}
              ELSE IF listed \cap loaded = {} THEN {None} ELSE listed \cap loaded
  BY DEF Shown
<1>2. CASE identifier \in loaded
  BY <1>1, <1>2 DEF Claimed
<1>3. CASE identifier \notin loaded /\ loaded = {}
  BY <1>1, <1>3 DEF Claimed, VisionAssumption
<1>4. CASE identifier \notin loaded /\ loaded # {}
  BY <1>1, <1>4 DEF Claimed
<1> QED
  BY <1>2, <1>3, <1>4

\* Where each operation leaves the request that performs it.
LEMMA PointAfter ==
  ASSUME TypeOK, NEW q \in Requests
  PROVE  /\ Update(q) => req'[q].at \in {"updating", "idle"}
         /\ (\E i \in Integrations : ReadForActivate(q, i)) => req'[q].at = "listing"
         /\ ReadCandidates(q) => req'[q].at = "flushing"
         /\ FlushAndReadSettings(q) => req'[q].at = "activating"
         /\ CommitActivation(q) \/ Finish(q) => req'[q].at = "idle"
         /\ Read(q) => \/ discover_models(q) /\ req'[q].at = "answered"
                       \/ req'[q].at \in {"asking", "resolving", "handed"}
<1>1. \A r : Become(q, r) => req'[q] = r
  BY DEF Become, TypeOK
<1>2. ASSUME NEW i \in Integrations, NEW e \in Endpoints \cup {Keep},
             NEW m \in {"keep", "set", "clear"}, ReadForUpdate(q, i, e, m)
      PROVE  req'[q].at = "updating"
  <2>1. req'[q] = [at |-> "updating", integration |-> i, endpoint |-> e, model |-> m]
    BY <1>1, <1>2 DEF ReadForUpdate, Begin
  <2> QED
    BY <2>1
<1>3. StoreUpdate(q) \/ CommitActivation(q) \/ Finish(q) => req'[q] = Idle
  BY <1>1 DEF StoreUpdate, CommitActivation, Finish
<1>4. ASSUME NEW i \in Integrations, ReadForActivate(q, i)
      PROVE  req'[q].at = "listing"
  <2>1. req'[q] = [at |-> "listing", integration |-> i, active |-> integration[i].active]
    BY <1>1, <1>4 DEF ReadForActivate
  <2> QED
    BY <2>1
<1>5. ASSUME ReadCandidates(q)
      PROVE  req'[q].at = "flushing"
  <2>1. PICK w : req'[q] = [at |-> "flushing", integration |-> req[q].integration, writes |-> w]
    BY <1>1, <1>5 DEF ReadCandidates
  <2> QED
    BY <2>1
<1>6. ASSUME FlushAndReadSettings(q)
      PROVE  req'[q].at = "activating"
  <2>1. req'[q] = [at |-> "activating", integration |-> req[q].integration,
                   writes |-> req[q].writes, named |-> settings]
    BY <1>1, <1>6 DEF FlushAndReadSettings
  <2> QED
    BY <2>1
<1>7. ASSUME NEW i \in Integrations, AskProvider(q, i)
      PROVE  req'[q].at = "asking"
  <2>1. req'[q] = [at |-> "asking", endpoint |-> integration[i].endpoint,
                   key |-> integration[i].key]
    BY <1>1, <1>7 DEF AskProvider, Begin
  <2> QED
    BY <2>1
<1>8. ASSUME discover_models(q)
      PROVE  req'[q].at = "answered"
  <2>1. PICK listed, loaded, identifier, active :
          Become(q, [at |-> "answered", listed |-> listed, loaded |-> loaded,
                     identifier |-> identifier, active |-> active])
    BY <1>8 DEF discover_models
  <2> QED
    BY <1>1, <2>1
<1>9. ASSUME ReadSettings(q) \/ ReadRuntime(q)
      PROVE  req'[q].at \in {"resolving", "handed"}
  <2>1. CASE ReadSettings(q)
    BY <1>1, <2>1 DEF ReadSettings, Begin
  <2>2. CASE ReadRuntime(q)
    BY <1>1, <2>2 DEF ReadRuntime
  <2> QED
    BY <1>9, <2>1, <2>2
<1>10. Update(q) => req'[q].at \in {"updating", "idle"}
  BY <1>2, <1>3 DEF Update, Idle
<1>11. Read(q) => \/ discover_models(q) /\ req'[q].at = "answered"
                  \/ req'[q].at \in {"asking", "resolving", "handed"}
  BY <1>7, <1>8, <1>9 DEF Read
<1> QED
  BY <1>3, <1>4, <1>5, <1>6, <1>10, <1>11 DEF Idle

\* Only asking the provider leads to an answer.
LEMMA Answering ==
  ASSUME TypeOK, [Next]_vars, NEW q \in Requests, At(q, "answered")'
  PROVE  req'[q] = req[q] \/ discover_models(q)
<1> SUFFICES ASSUME req'[q] # req[q] PROVE discover_models(q)
  OBVIOUS
<1>1. Update(q) \/ Activate(q) \/ Read(q) \/ Finish(q)
  BY StepOfOne
<1> QED
  BY <1>1, PointAfter DEF Activate, At

\* The model shown as in use is listed and loaded, and the provider's choice if
\* that is usable (autolabel_models.py:56-75).
THEOREM OnlyUsableModelsShown == Spec => []ShownModelIsLoaded
<1>1. Init => ShownModelIsLoaded
  BY DEF Init, ShownModelIsLoaded, Idle, At
<1>2. TypeOK /\ ShownModelIsLoaded /\ [Next]_vars => ShownModelIsLoaded'
  <2> SUFFICES ASSUME TypeOK, ShownModelIsLoaded, [Next]_vars,
                      NEW q \in Requests, At(q, "answered")'
               PROVE  LET usable == req'[q].listed \cap req'[q].loaded
                      IN  /\ req'[q].active \in usable
                               \/ (usable = {} /\ req'[q].active = None)
                          /\ req'[q].identifier \in usable => req'[q].active = req'[q].identifier
    BY DEF ShownModelIsLoaded, At
  <2>1. CASE req'[q] = req[q]
    BY <2>1 DEF ShownModelIsLoaded, At
  <2>2. CASE discover_models(q)
    <3>1. PICK listed \in SUBSET Models, loaded \in SUBSET Models,
               identifier \in Models \cup {None} :
            \E active \in Shown(listed, loaded, identifier) :
              Become(q, [at |-> "answered", listed |-> listed, loaded |-> loaded,
                         identifier |-> identifier, active |-> active])
      BY <2>2 DEF discover_models
    <3>2. PICK a \in Shown(listed, loaded, identifier) :
            Become(q, [at |-> "answered", listed |-> listed, loaded |-> loaded,
                       identifier |-> identifier, active |-> a])
      BY <3>1
    <3>3. req'[q] = [at |-> "answered", listed |-> listed, loaded |-> loaded,
                     identifier |-> identifier, active |-> a]
      BY <3>2 DEF Become, TypeOK
    <3>4. /\ a \in listed \cap loaded \/ (listed \cap loaded = {} /\ a = None)
          /\ identifier \in listed \cap loaded => a = identifier
      BY ShownIsUsable, VisionAssumption
    <3> QED
      BY <3>3, <3>4
  <2> QED
    BY <2>1, <2>2, Answering
<1> QED
  BY <1>1, <1>2, TypeCorrect, PTL DEF Spec
-----------------------------------------------------------------------------
\* What an activation that none overtook has read is still what the tables say.
Differing(i) == (Active \ {i}) \cup ({i} \ Active)
CalmFor(p) ==
  /\ At(p, "listing") =>
       /\ Stored(req[p].integration)
       /\ req[p].active = integration[req[p].integration].active
  /\ At(p, "flushing") \/ At(p, "activating") =>
       /\ Stored(req[p].integration)
       /\ req[p].writes = Differing(req[p].integration)
  /\ At(p, "activating") => req[p].named = settings
CalmIsCurrent == \A p \in calm : CalmFor(p)

\* A step that does not commit an activation leaves every flag and the settings.
LEMMA FlagsStay ==
  ASSUME TypeOK, [Next]_vars, calm' # {}
  PROVE  /\ settings' = settings /\ Active' = Active
         /\ \A i \in Integrations : Stored(i) =>
              Stored(i)' /\ integration'[i].active = integration[i].active
<1> SUFFICES ASSUME \/ UNCHANGED <<integration, settings>>
                    \/ \E p \in Requests :
                         \/ \E e \in Endpoints, model \in BOOLEAN : CreateIntegration(p, e, model)
                         \/ StoreUpdate(p) \/ CommitActivation(p)
             PROVE  /\ settings' = settings
                    /\ \A i \in Integrations :
                         /\ Stored(i) => Stored(i)' /\ integration'[i].active = integration[i].active
                         /\ ~Stored(i) => ~(Stored(i)' /\ integration'[i].active)
  BY Writers DEF Active
<1>1. CASE UNCHANGED <<integration, settings>>
  BY <1>1 DEF Stored
<1>2. ASSUME NEW p \in Requests, NEW e \in Endpoints, NEW model \in BOOLEAN,
             CreateIntegration(p, e, model)
      PROVE  /\ settings' = settings
             /\ \A i \in Integrations :
                  /\ Stored(i) => Stored(i)' /\ integration'[i].active = integration[i].active
                  /\ ~Stored(i) => ~(Stored(i)' /\ integration'[i].active)
  <2>1. PICK i \in Integrations :
          /\ ~Stored(i)
          /\ integration' = [integration EXCEPT ![i] =
               [stored |-> TRUE, endpoint |-> e, key |-> KeyFor(e), model |-> model,
                active |-> FALSE]]
    BY <1>2 DEF CreateIntegration
  <2>2. \A j \in Integrations : j # i => integration'[j] = integration[j]
    BY <2>1 DEF TypeOK
  <2>3. integration'[i].active = FALSE
    BY <2>1 DEF TypeOK
  <2> QED
    BY <1>2, <2>1, <2>2, <2>3 DEF Stored, CreateIntegration
<1>3. ASSUME NEW p \in Requests, StoreUpdate(p)
      PROVE  /\ settings' = settings
             /\ \A i \in Integrations : /\ integration'[i].stored = integration[i].stored
                                        /\ integration'[i].active = integration[i].active
  BY <1>3, UpdatingKeepsFlags
<1>4. ASSUME NEW p \in Requests, CommitActivation(p)
      PROVE  UNCHANGED <<integration, settings>>
  BY <1>4 DEF CommitActivation
<1> QED
  BY <1>1, <1>2, <1>3, <1>4 DEF Stored

\* A request that is calm after a step was so before, or has just begun.
LEMMA CalmOnes ==
  ASSUME TypeOK, [Next]_vars, NEW q \in calm'
  PROVE  \/ q \in calm /\ calm' = calm
         \/ \E p \in Requests, i \in Integrations :
              ReadForActivate(p, i) /\ (q \in calm \/ q = p)
  BY DEF Next, vars, Update, Activate, Read, Finish, Begin, ReadForUpdate, StoreUpdate,
     CreateIntegration, ReadForActivate, ReadCandidates, FlushAndReadSettings,
     CommitActivation, AskProvider, discover_models, ReadSettings, ReadRuntime

\* Every step keeps what calm activations have read up to date.
LEMMA CalmNext ==
  ASSUME TypeOK, CalmIsCurrent, [Next]_vars
  PROVE  CalmIsCurrent'
<1> SUFFICES ASSUME NEW q \in calm' PROVE CalmFor(q)'
  BY DEF CalmIsCurrent
<1>0. q \in Requests
  BY Requesting, VisionAssumption
<1>1. /\ settings' = settings /\ Active' = Active
      /\ \A i \in Integrations : Stored(i) =>
           Stored(i)' /\ integration'[i].active = integration[i].active
  BY FlagsStay
<1>2. \A i : Differing(i)' = Differing(i)
  BY <1>1 DEF Differing
<1>3. /\ At(q, "listing") => req[q].integration \in Integrations
      /\ At(q, "flushing") \/ At(q, "activating") => req[q].integration \in Integrations
  BY <1>0, Carried
<1>4. CASE req'[q] = req[q] /\ q \in calm
  <2>1. CalmFor(q)
    BY <1>4 DEF CalmIsCurrent
  <2>2. At(q, "listing")' =>
          Stored(req[q].integration)' /\ req[q].active = integration'[req[q].integration].active
    BY <1>1, <1>3, <1>4, <2>1 DEF CalmFor, At
  <2>3. At(q, "flushing")' \/ At(q, "activating")' =>
          Stored(req[q].integration)' /\ req[q].writes = Differing(req[q].integration)'
    BY <1>1, <1>2, <1>3, <1>4, <2>1 DEF CalmFor, At
  <2>4. At(q, "activating")' => req[q].named = settings'
    BY <1>1, <1>4, <2>1 DEF CalmFor, At
  <2> QED
    BY <1>4, <2>2, <2>3, <2>4 DEF CalmFor, Stored
<1>5. \A r : Become(q, r) => req'[q] = r
  BY <1>0 DEF Become, TypeOK
<1>6. ASSUME NEW i \in Integrations, ReadForActivate(q, i)
      PROVE  CalmFor(q)'
  <2>1. req'[q] = [at |-> "listing", integration |-> i, active |-> integration[i].active]
    BY <1>5, <1>6 DEF ReadForActivate
  <2>2. Stored(i)' /\ integration'[i].active = integration[i].active
    BY <1>1, <1>6 DEF ReadForActivate
  <2> QED
    BY <2>1, <2>2 DEF CalmFor, At, Stored
<1>7. CASE req'[q] # req[q] /\ ~(\E i \in Integrations : ReadForActivate(q, i))
  <2>1. Update(q) \/ Activate(q) \/ Read(q) \/ Finish(q)
    BY <1>0, <1>7, StepOfOne
  <2>2. CASE Update(q) \/ Read(q) \/ Finish(q) \/ CommitActivation(q)
    <3>1. req'[q].at \notin {"listing", "flushing", "activating"}
      BY <1>0, <2>2, PointAfter
    <3> QED
      BY <3>1 DEF CalmFor, At
  <2>3. CASE ReadCandidates(q)
    <3> DEFINE i == req[q].integration
    <3>1. q \in calm
      BY <2>3 DEF ReadCandidates
    <3>2. /\ Stored(i) /\ req[q].active = integration[i].active /\ i \in Integrations
      BY <1>3, <2>3, <3>1 DEF CalmIsCurrent, CalmFor, ReadCandidates
    <3>3. (Active \ {i}) \cup (IF req[q].active THEN {} ELSE {i}) = Differing(i)
      BY <3>2 DEF Differing, Active
    <3>4. req'[q] = [at |-> "flushing", integration |-> i,
                     writes |-> (Active \ {i}) \cup (IF req[q].active THEN {} ELSE {i})]
      BY <1>5, <2>3 DEF ReadCandidates
    <3>5. /\ req'[q].at = "flushing" /\ req'[q].integration = i
          /\ req'[q].writes = Differing(i)' /\ Stored(i)'
      BY <1>1, <1>2, <3>2, <3>3, <3>4
    <3> QED
      BY <3>5 DEF CalmFor, At, Stored
  <2>4. CASE FlushAndReadSettings(q)
    <3> DEFINE i == req[q].integration
    <3>1. q \in calm
      BY <2>4 DEF FlushAndReadSettings
    <3>2. /\ Stored(i) /\ req[q].writes = Differing(i) /\ i \in Integrations
      BY <1>3, <2>4, <3>1 DEF CalmIsCurrent, CalmFor, FlushAndReadSettings
    <3>3. req'[q] = [at |-> "activating", integration |-> i, writes |-> req[q].writes,
                     named |-> settings]
      BY <1>5, <2>4 DEF FlushAndReadSettings
    <3>4. /\ req'[q].at = "activating" /\ req'[q].integration = i
          /\ req'[q].writes = Differing(i)' /\ Stored(i)' /\ req'[q].named = settings'
      BY <1>1, <1>2, <3>2, <3>3
    <3> QED
      BY <3>4 DEF CalmFor, At, Stored
  <2> QED
    BY <1>7, <2>1, <2>2, <2>3, <2>4 DEF Activate
<1>8. CASE req'[q] = req[q] /\ q \notin calm
  <2>1. PICK i \in Integrations : ReadForActivate(q, i)
    BY <1>8, CalmOnes
  <2> QED
    BY <1>6, <2>1
<1> QED
  BY <1>4, <1>6, <1>7, <1>8

\* An activation that none overtook leaves its integration as the only active one
\* and named by the settings, whatever creates and updates run beside it
\* (vision_inference_integrations.py:124-131).
THEOREM CalmActivationsPrevail == Spec => CalmActivationPrevails
<1>1. Init => CalmIsCurrent
  BY DEF Init, CalmIsCurrent
<1>2. ASSUME TypeOK, CalmIsCurrent, NEW p \in calm, CommitActivation(p)
      PROVE  Active' = {req[p].integration} /\ settings' = req[p].integration
  <2> DEFINE i == req[p].integration
  <2>1. p \in Requests
    BY <1>2 DEF TypeOK
  <2>2. /\ i \in Integrations /\ Stored(i) /\ req[p].writes = Differing(i)
        /\ req[p].named = settings
    BY <1>2, <2>1, Carried DEF CalmIsCurrent, CalmFor, CommitActivation
  <2>3. /\ integration' = [j \in Integrations |->
               IF j \in req[p].writes THEN [integration[j] EXCEPT !.active = (j = i)]
                                      ELSE integration[j]]
        /\ settings' = i
    BY <1>2, <2>2 DEF CommitActivation
  <2>4. ASSUME NEW j \in Integrations
        PROVE  /\ integration'[j].stored = integration[j].stored
               /\ integration'[j].active = IF j \in req[p].writes THEN j = i
                                           ELSE integration[j].active
    <3>1. integration[j] \in Row
      BY <1>2 DEF TypeOK
    <3>2. integration'[j] = IF j \in req[p].writes
                            THEN [integration[j] EXCEPT !.active = (j = i)] ELSE integration[j]
      BY <2>3
    <3> QED
      BY <3>1, <3>2 DEF Row
  <2>5. ASSUME NEW j \in Integrations
        PROVE  j \in Active' <=> j = i
    <3>1. j \in Active' <=> integration[j].stored /\ integration'[j].active
      BY <2>4 DEF Active, Stored
    <3>2. CASE j = i
      BY <2>2, <2>4, <3>1, <3>2 DEF Differing, Active, Stored
    <3>3. CASE j # i
      BY <2>2, <2>4, <3>1, <3>3 DEF Differing, Active, Stored
    <3> QED
      BY <3>2, <3>3
  <2>6. Active' \subseteq Integrations
    BY DEF Active
  <2> QED
    BY <2>2, <2>3, <2>5, <2>6
<1>3. TypeOK /\ CalmIsCurrent /\ [Next]_vars =>
        [\A p \in calm :
           CommitActivation(p) =>
             Active' = {req[p].integration} /\ settings' = req[p].integration]_vars
  BY <1>2
<1>4. TypeOK /\ CalmIsCurrent /\ [Next]_vars => CalmIsCurrent'
  BY CalmNext
<1> QED
  BY <1>1, <1>3, <1>4, TypeCorrect, PTL DEF Spec, CalmActivationPrevails
=============================================================================
