------------------------- MODULE VisionIntegrations -------------------------
(***************************************************************************)
(* Integrations with vision inference providers and the settings row that  *)
(* names the one in use.  Requests interleave statement by statement; an   *)
(* activation flushes its changes of flags before it reads the settings,   *)
(* so it holds their rows until it commits.                                *)
(*                                                                         *)
(* A key is represented by the endpoint it was encrypted for.  Names,      *)
(* timeouts and syntax of endpoints are left out.                          *)
(***************************************************************************)
EXTENDS FiniteSets

CONSTANTS Integrations, Requests,
          Endpoints,
          Models,   \* what a provider can offer
          None,     \* an empty column, and no model
          NoRow,    \* the settings row is not there yet
          Keep      \* a column that an UPDATE leaves out

ASSUME VisionAssumption ==
  /\ None \notin Endpoints \cup Integrations \cup Models
  /\ Keep \notin Endpoints /\ NoRow \notin Integrations \cup {None}

VARIABLES integration, settings, \* the tables; settings is the integration it names
          req,
          calm                   \* history: activations since whose start none committed

vars == <<integration, settings, req, calm>>
-----------------------------------------------------------------------------
Row == [stored : BOOLEAN, endpoint : Endpoints, key : Endpoints \cup {None},
        model : BOOLEAN, active : BOOLEAN]
Named == Integrations \cup {None, NoRow}

Idle == [at |-> "idle"]
Request == {Idle}
  \cup [at : {"updating"}, integration : Integrations, endpoint : Endpoints \cup {Keep},
        model : {"keep", "set", "clear"}]
  \cup [at : {"listing"}, integration : Integrations, active : BOOLEAN]
  \cup [at : {"flushing"}, integration : Integrations, writes : SUBSET Integrations]
  \cup [at : {"activating"}, integration : Integrations, writes : SUBSET Integrations,
        named : Named]
  \cup [at : {"asking", "handed"}, endpoint : Endpoints, key : Endpoints \cup {None}]
  \cup [at : {"resolving"}, integration : Integrations]
  \cup [at : {"answered"}, listed : SUBSET Models, loaded : SUBSET Models,
        identifier : Models \cup {None}, active : Models \cup {None}]

\* Rows and requests always have the shape they are declared with.
TypeOK ==
  /\ integration \in [Integrations -> Row]
  /\ settings \in Named
  /\ req \in [Requests -> Request]
  /\ calm \subseteq Requests

At(p, point) == req[p].at = point
Become(p, r) == req' = [req EXCEPT ![p] = r]
Stored(i) == integration[i].stored
Configured(i) == integration[i].model /\ integration[i].key # None
Active == {i \in Integrations : Stored(i) /\ integration[i].active}

\* What encrypt_api_key makes, and what inference_headers insists on.
KeyFor(endpoint) == endpoint
Opens(key, endpoint) == key = None \/ key = endpoint

\* The migration turns settings with an endpoint into an integration, with the
\* key they held; it is active if it is configured, and named in either case.
Init ==
  /\ \E e \in Endpoints :
       LET empty == [i \in Integrations |->
             [stored |-> FALSE, endpoint |-> e, key |-> None, model |-> FALSE, active |-> FALSE]]
       IN  \/ integration = empty /\ settings \in {None, NoRow}
           \/ \E i \in Integrations, key \in {KeyFor(e), None}, model \in BOOLEAN :
                /\ integration = [empty EXCEPT ![i] =
                     [stored |-> TRUE, endpoint |-> e, key |-> key, model |-> model,
                      active |-> model /\ key # None]]
                /\ settings = i
  /\ req = [p \in Requests |-> Idle]
  /\ calm = {}
-----------------------------------------------------------------------------
Begin(p, r) ==
  /\ At(p, "idle")
  /\ Become(p, r)
  /\ UNCHANGED <<integration, settings, calm>>

CreateIntegration(p, e, model) ==
  /\ At(p, "idle")
  /\ \E i \in Integrations :
       /\ ~Stored(i)
       /\ integration' = [integration EXCEPT ![i] =
            [stored |-> TRUE, endpoint |-> e, key |-> KeyFor(e), model |-> model,
             active |-> FALSE]]
  /\ UNCHANGED <<settings, req, calm>>

\* What the client leaves out or sends unchanged is not written.
ReadForUpdate(p, i, e, model) ==
  /\ Stored(i) /\ e # integration[i].endpoint
  /\ model = "clear" => integration[i].model
  /\ Begin(p, [at |-> "updating", integration |-> i, endpoint |-> e, model |-> model])

\* Mutant: the key outlives a change of the endpoint.
StoreKeepingKey(p) ==
  /\ At(p, "updating")
  /\ integration' = [integration EXCEPT ![req[p].integration] =
       [@ EXCEPT !.endpoint = IF req[p].endpoint = Keep THEN @ ELSE req[p].endpoint,
                 !.model = IF req[p].model = "keep" THEN @ ELSE req[p].model = "set"]]
  /\ Become(p, Idle)
  /\ UNCHANGED <<settings, calm>>

\* A new endpoint takes the key away.
StoreUpdate(p) ==
  /\ At(p, "updating")
  /\ LET row == integration[req[p].integration]  moved == req[p].endpoint # Keep
     IN  integration' = [integration EXCEPT ![req[p].integration] =
           [row EXCEPT !.endpoint = IF moved THEN req[p].endpoint ELSE row.endpoint,
                       !.key = IF moved THEN None ELSE row.key,
                       !.model = IF req[p].model = "keep" THEN row.model
                                 ELSE req[p].model = "set"]]
  /\ Become(p, Idle)
  /\ UNCHANGED <<settings, calm>>
-----------------------------------------------------------------------------
ReadForActivate(p, i) ==
  /\ Stored(i) /\ Configured(i)
  /\ At(p, "idle")
  /\ Become(p, [at |-> "listing", integration |-> i, active |-> integration[i].active])
  /\ calm' = calm \cup {p}
  /\ UNCHANGED <<integration, settings>>

\* Mutant: only the integration that the settings name is deactivated.
ReadNamedOnly(p) ==
  /\ At(p, "listing")
  /\ LET i == req[p].integration
     IN  Become(p, [at |-> "flushing", integration |-> i,
                    writes |-> ((Active \cap {settings}) \ {i})
                                 \cup (IF req[p].active THEN {} ELSE {i})])
  /\ UNCHANGED <<integration, settings, calm>>

\* Flags that differ from what was read are written.  The integration itself
\* was read before, and its object is not refreshed.
ReadCandidates(p) ==
  /\ At(p, "listing")
  /\ LET i == req[p].integration
     IN  Become(p, [at |-> "flushing", integration |-> i,
                    writes |-> (Active \ {i}) \cup (IF req[p].active THEN {} ELSE {i})])
  /\ UNCHANGED <<integration, settings, calm>>

\* The flags are sent, which waits for others to give back their rows, and the
\* settings are read.
FlushAndReadSettings(p) ==
  /\ At(p, "flushing")
  /\ \A q \in Requests : At(q, "activating") => req[q].writes \cap req[p].writes = {}
  /\ Become(p, [at |-> "activating", integration |-> req[p].integration,
                writes |-> req[p].writes, named |-> settings])
  /\ UNCHANGED <<integration, settings, calm>>

\* The INSERT of a second settings row fails, and takes the flags with it.
CommitActivation(p) ==
  /\ At(p, "activating")
  /\ LET i == req[p].integration
     IN  \/ /\ req[p].named = NoRow => settings = NoRow
            /\ integration' = [j \in Integrations |->
                 IF j \in req[p].writes THEN [integration[j] EXCEPT !.active = (j = i)]
                                        ELSE integration[j]]
            /\ settings' = IF req[p].named = i THEN settings ELSE i
            /\ calm' = {}
         \/ /\ req[p].named = NoRow /\ settings # NoRow
            /\ UNCHANGED <<integration, settings, calm>>
  /\ Become(p, Idle)
-----------------------------------------------------------------------------
\* list_models, and the reply of every other route: the provider is asked with
\* the row as it was read.
AskProvider(p, i) ==
  /\ Stored(i) /\ Opens(integration[i].key, integration[i].endpoint)
  /\ Begin(p, [at |-> "asking", endpoint |-> integration[i].endpoint,
               key |-> integration[i].key])

\* The model in use according to the provider's status: the one it identifies
\* if loaded, else the first loaded.
Claimed(loaded, identifier) ==
  IF identifier \in loaded THEN {identifier} ELSE IF loaded = {} THEN {None} ELSE loaded

\* Mutant: a model that is not listed is shown.
ShownAsClaimed(listed, loaded, identifier) == Claimed(loaded, identifier)

\* What is shown has to be listed: else it is the first listed that is loaded.
Shown(listed, loaded, identifier) ==
  UNION {IF m \in listed THEN {m}
         ELSE IF listed \cap loaded = {} THEN {None} ELSE listed \cap loaded :
           m \in Claimed(loaded, identifier)}

discover_models(p) ==
  /\ At(p, "asking")
  /\ \E listed, loaded \in SUBSET Models, identifier \in Models \cup {None} :
       \E active \in Shown(listed, loaded, identifier) :
         Become(p, [at |-> "answered", listed |-> listed, loaded |-> loaded,
                    identifier |-> identifier, active |-> active])
  /\ UNCHANGED <<integration, settings, calm>>

\* Mutant: settings that name no integration are followed all the same.
FollowSettings(p) == Begin(p, [at |-> "resolving", integration |-> settings])

\* The worker that labels images fetches endpoint and key.
ReadSettings(p) ==
  /\ settings \in Integrations
  /\ Begin(p, [at |-> "resolving", integration |-> settings])

ReadRuntime(p) ==
  /\ At(p, "resolving")
  /\ LET row == integration[req[p].integration]
     IN  Become(p, [at |-> "handed", endpoint |-> row.endpoint, key |-> row.key])
  /\ UNCHANGED <<integration, settings, calm>>

\* The reply is sent, or something fails on the way.
Finish(p) ==
  /\ ~At(p, "idle")
  /\ Become(p, Idle)
  /\ UNCHANGED <<integration, settings, calm>>
-----------------------------------------------------------------------------
Update(p) ==
  \/ \E i \in Integrations, e \in Endpoints \cup {Keep}, model \in {"keep", "set", "clear"} :
       ReadForUpdate(p, i, e, model)
  \/ StoreUpdate(p)

Activate(p) ==
  \/ \E i \in Integrations : ReadForActivate(p, i)
  \/ ReadCandidates(p) \/ FlushAndReadSettings(p) \/ CommitActivation(p)

Read(p) ==
  \/ \E i \in Integrations : AskProvider(p, i)
  \/ discover_models(p) \/ ReadSettings(p) \/ ReadRuntime(p)

Next == \E p \in Requests :
  \/ \E e \in Endpoints, model \in BOOLEAN : CreateIntegration(p, e, model)
  \/ Update(p) \/ Activate(p) \/ Read(p) \/ Finish(p)

Spec == Init /\ [][Next]_vars
-----------------------------------------------------------------------------
\* However updates interleave, a key is never paired with an endpoint it was
\* not stored for: not in a row, not in a question to a provider, not in what
\* is handed to the worker (vision_inference_integrations.py:99-101).
KeysStayHome ==
  /\ \A i \in Integrations : Opens(integration[i].key, integration[i].endpoint)
  /\ \A p \in Requests :
       At(p, "asking") \/ At(p, "handed") => Opens(req[p].key, req[p].endpoint)

\* An activation that no other one overtook leaves its integration as the only
\* active one, and named by the settings (vision_inference_integrations.py:124-131).
CalmActivationPrevails ==
  [][\A p \in calm :
       CommitActivation(p) =>
         Active' = {req[p].integration} /\ settings' = req[p].integration]_vars

\* The model shown as active is listed and loaded, it is the one the provider
\* identifies if that one qualifies, and none is shown only if none qualifies
\* (autolabel_models.py:56-75).
ShownModelIsLoaded ==
  \A p \in Requests : At(p, "answered") =>
    LET usable == req[p].listed \cap req[p].loaded
    IN  /\ req[p].active \in usable \/ (usable = {} /\ req[p].active = None)
        /\ req[p].identifier \in usable => req[p].active = req[p].identifier
=============================================================================
