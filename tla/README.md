# Verification of the self-checkout backend

TLA+ models of this backend's checkout core, live sessions, cart arithmetic,
catalogue, vision integrations, accounts, credentials and connection pool, checked
with TLC and, for what the tables hold, proved with TLAPS. Paths below are relative to the repository; `crud.py`
is `app/crud.py`, `ws.py` is `app/api/routes/ws.py`, and so on.

## The system

The backend is a FastAPI application that runs as several worker processes
(`Dockerfile:44`, four) over one PostgreSQL database and one S3-like object
store. A *till* (the native client) authenticates with the API key of its
*checkout counter*; superusers administer counters, watch sessions and correct
carts.

| Component | State it keeps | Operations | Model |
|---|---|---|---|
| Counters and sessions (`crud.py:187-323`, `routes/checkout_counters.py`, `routes/checkout_sessions.py`) | tables `checkoutcounter`, `checkoutsession`, counter keys in `apikey` | create, update, rotate key, delete; connect, replace cart, pay; camera report; admin edit and cancel | `CheckoutStore`, `CheckoutPromise` |
| Live sessions (`ws.py`, background tasks of the routes) | one coroutine per socket or request | handshakes, receive loops, announcements, disconnections | `LiveCheckout` |
| WebSocket manager (`core/ws_manager.py`) | rooms of clients and admins, *per process* | register, unregister, broadcast, disconnect | `WsManager` |
| Counter keys (`core/api_keys.py`, `deps.py:98-110`) | `apikey` rows | authenticate | part of `CheckoutStore` |
| Cart arithmetic (`ws.py:202-296`, `models.py:505-513`) | JSON cart of a session | remove, add, change quantity | `CartEdits` |
| Catalogue (`routes/products.py`, `categories.py`, `crud.py:100-184`) | `product`, `category` | create, update, delete | `Catalog` |
| Product images (`core/object_storage.py`, `products.py:158-199`) | bucket, image columns | upload | part of `Catalog` |
| Vision integrations, system settings (`routes/vision_inference_integrations.py`, `system_settings.py`, `core/autolabel_*.py`) | integrations, singleton settings row | create, update, activate, discover models, hand out endpoint and key | `VisionIntegrations` |
| Accounts, generic keys, items (`routes/users.py`, `api_keys.py`, `items.py`, `core/api_keys.py`, `deps.py:34-87`) | `user` (flags), `apikey`, `item` | authenticate; create, update, delete users; create, revoke keys; create, delete items | `Accounts` |
| Login, passwords, addresses (`routes/login.py`, `users.py`, `private.py`, `crud.py:39-90`) | `user` (address, hash, active), mailed links | log in, recover, reset, change, sign up | `Credentials` |
| Connection pool, threads and event loop (`core/db.py:7-13`, `deps.py:25-27`, `ws.py`) | pooled connections, threads, the loop, *per process* | check out, give back, wait, give up | `ConnectionPool` |
| Configuration, e-mail, start-up, scripts | - | I/O | the first superuser and mailed links only |

How they interact: HTTP handlers run in a thread pool, but for `upload_product_image`
(`products.py:163`), which like the WebSocket handlers and background tasks runs on the
event loop of the same process; all have database sessions of their own. Tables are the only state workers share. A handler reads
a row, decides, and writes in a later statement; nothing locks a row and no row
carries a version. After the commit it tells the sockets of *its own* process.

What is hard here: statements of different requests in any order (uniqueness
rests on two partial unique indexes and one retry), decisions on rows that have
changed since, cascades against concurrent inserts, handlers that stop between
two steps, sockets that come and go during a broadcast, and state that exists
once per process. `PROJECT.json` lists these hazards with their lines.

What makes the components correct:

- a counter has at most one open session, a live counter exactly one usable key,
  nothing stored belongs to a deleted counter;
- a key reaches only its counter's sessions; closing is final; a session's
  settings are those it began with, and name only cameras that were reported;
- rooms contain exactly the sockets being served; who was there when a session
  closed or a key was rotated is disconnected; handlers always end;
- a stored cart can be read again and its lines cost what they should;
- category keys are unique and allocated in order, products on sale are in a
  listed category, a row's picture exists and a replaced one does not come back;
- a provider's key goes to no endpoint but its own, and an activation nobody
  overtook leaves one integration active, the one the settings name;
- nobody administers, or writes the catalogue, who was not entitled to; no item or
  key outlives its owner; addresses are unique, passwords the intended ones, tokens
  earned;
- whoever waits for a connection, a thread or the loop is freed, and gives back
  what it holds.

## Modules

**`CheckoutStore`** has the three tables and a set of requests. `counter`,
`session` and `apiKey` map identifiers to rows with a phase (`none` before the
insert, `gone` after the delete; for sessions `open`/`closed`). `req[p]` is a
request: `at` names its next statement, the other fields are what it read. There
is one action per SQL statement group that commits or reads as a unit:

| Action | Code |
|---|---|
| `ReadKey`, `LoadCounter` | `core/api_keys.py:18-54` |
| `ConnectStoresCameras`, `RefreshCounter`, `ReadForReport`, `StoreReport` | `crud.py:246-259` from `checkout_sessions.py:56-61` and `ws.py:97-104` |
| `FindOpenSession`, `InsertSession`, `FindWinner`, `RefreshSession`, `Reply` | `checkout_sessions.py:62-70`, `crud.py:262-295` |
| `RequireSession` | `checkout_sessions.py:22-33`, closed tests at 87 and 115 |
| `AdminReadsForEdit`, `AdminReadsForCancel` | `ws.py:202-303` |
| `StoreCart`, `CloseSession` | `crud.py:298-323` |
| `CreateCounter`, `ReadForSettings`, `StoreSettings` | `crud.py:203-213,235-243`, `checkout_counters.py:31-99` |
| `ReadActiveKeys`, `StoreRotatedKey` | `crud.py:216-232` |
| `ReadForDelete`, `DeleteCounter` | `checkout_counters.py:126-144` with the relationship of `models.py:477` |
| `Abort` | the session of `deps.py:25-27` closed without commit |

Assumptions about the database layer, which is outside the repository:
READ COMMITTED; an UPDATE carries only the columns changed since the row was
read (hence `Merge`, and the test for a changed cart or inventory); an UPDATE or
refresh of a row that is gone raises; deleting an object whose relationship has
children loaded sets their foreign key to null. The foreign keys and partial
unique indexes are those of the migrations (`7c9f2d1b4e10`, `de45fa67bc89`).
`settings` abstracts mode, language and name to `mode` and the two camera columns,
which are handled alike, to `camera`. `everReported` is a history variable.

**`CheckoutPromise`** is the lifecycle those tables are meant to have: counters are
established with a key, keys rotated in one step, sessions opened when none is
open and closed once, everything dissolved with the counter. `CheckoutStore`
implements it (`KeepsThePromise`) by forgetting carts, settings and cameras.

**`WsManager`** is `core/ws_manager.py`. Code under its lock contains no await, so
each such body is one step and the lock itself disappears; what does wait,
sending and closing, is a step per socket.

**`LiveCheckout`** puts handlers and background tasks on top of it. Its tables are
`CheckoutPromise`'s, so each commit is one operation of the promise that
`CheckoutStore` was shown to keep; its own variable `co` holds the coroutines.
Tills: `Accept`, `FindOrCreateSession`, `Greet`, `Join`, `TillLeaves`; admins:
`AdminEnters`, `AdminGreeted`, `AnnouncePresence`, `AdminEdits`, `AdminCancels`,
`AdminLeaves`; routes: `UpdateCart`, `Pay`, `Rotate`, `ListOpenSessions`, `RunTask`;
inside the manager: `SendNext`, `EndAnnouncement`, `DropNext`, `EndDrop`. Peers
hang up at any time, and the workers in `Mortal` may crash. Deleting a counter is
absent: the relationship of `models.py:477` nulls the foreign keys of the sessions
it has loaded, which the column refuses, so a deletion that succeeds
(`DeleteCounter`) had found no session and disconnects nobody. Payloads are reduced
to the two flags tills act on, `closed` and `admin_takeover`; camera reports over the
socket are in `CheckoutStore`; the heartbeat changes no state.

**`CartEdits`** opens up the carts that `CheckoutStore` compares as wholes: one
session, its till's whole-cart updates (`UpdateCart`) against the administrators'
`RemoveItem`, `AddItem` and `UpdateItemQuantity` and against payment and
cancellation (`ReadForClose`). `StoreCart` and `CloseSession` are the later
statements; what the watchers are told then, and whom it disconnects, is
`LiveCheckout`'s. A command of an administrator first validates the lines it found
(`ws.py:207-210`). Quantities are ten-thousandths of a piece or kilogram, so that
rounding to three decimals and cutting to whole pieces are integer arithmetic; where
a tie falls depends on the binary fraction, hence a choice. Infinite and
not-a-number quantities, labels and images are left out.

**`Catalog`** has categories, products and uploads. `ProbeKey` is one turn of the
loop of `crud.py:139-143`, `InsertCategory` its insertion under the unique index;
`ReadForDelete` and `DropCategory` test and delete, with the products' foreign key
against both; `CreateProduct`/`InsertProduct` and `UpdateProduct`/`StoreProduct` likewise.
An upload is `store_product_image`, `store_product_thumbnail`, `StoreUrls`, and may fail
before each. A slug is a sequence of words and the suffix of a key one more
element, so that `fruit` with suffix 2 can meet the name "fruit 2". A picture's
name is drawn from random bits, so it never equals another upload's or a URL a
client typed (`Elsewhere`). Names, translations, prices and units are left out.

**`VisionIntegrations`** has the integrations, the settings row and the requests on
them. `StoreUpdate` sends only columns that changed; `ReadForActivate`, `ReadCandidates`,
`FlushAndReadSettings` and `CommitActivation` are the statements of
`vision_inference_integrations.py:117-135`: the flags are flushed when the settings are
read, so their rows are held until the commit. `AskProvider` and `discover_models` are
`core/autolabel_models.py` with an arbitrary provider; `ReadSettings` and `ReadRuntime`
are the reads of `system_settings.py:17-66`. A key is represented by the endpoint it was
encrypted for. `calm` is a history variable: activations since whose start none has
committed.

**`Accounts`** has users with their two flags, generic keys and items. A token is
read with its user in one statement (`ReadCaller`), a key with a role in three:
`ReadKey`, `ReadOwner` (`core/api_keys.py:24-42`) and, to administer,
`ReadOwnerAgain` (`deps.py:49`, the first object is no longer referenced and the row
is read anew). To write the catalogue the first two are enough
(`require_catalog_access`). Keys from before the migration `de45fa67bc89` have
neither role nor owner and grant the scopes they were made with
(`api_keys.py:38-39`; `test_api_key_roles.py:92` keeps them working); they exist
from the start (`LegacyKeys`), as no route makes one. Of scopes only `catalog:write`
is told apart (`writes`); reading the catalogue changes nothing. Updates are a read
and a write of the columns that are to differ (`ReadForUpdate`, `StoreUser`); the
caller's own row is the one read when it was authenticated. `delete_user` includes
the foreign keys of migrations `1a31ce608336` (items go) and `de45fa67bc89` (keys
lose their owner). `entitled` is a history variable: of what a request presented,
what was in good standing at some moment since. `delete_user_me` refuses everybody
its dependency lets in, and has no action.

**`Credentials`** has addresses, password hashes and mailed links. `ReadForLogin`,
`StoreUpgrade` and `RefreshUser` are `crud.py:74-90` with `login.py:31-37`: a hash of the older
kind (bcrypt) is replaced on login. `CheckEmail` and `CheckNewEmail` look an address up,
`StoreUpdate` and `InsertUser` write it under the unique index. A link names an address
and opens whatever account has it (`reset_password`). `intended` and `witnessed` are
history variables. Accounts with hashes of the older kind are `Imported`: no code here
makes such a hash. `SetActive` and `delete_user` are what `Accounts` commits.

**`ConnectionPool`** is one worker process. An HTTP request is authenticated and
handled in threads the loop gives it, or on the loop if it is the upload of a
picture, holds its connection from its first statement to a commit or to the end of
its session, and its session ends after the response and the background tasks, for
which it needs the loop again (`Reply`, `Close`; the exit of `get_db` has threads of
its own). An upload blocks the loop (`Blockers`) while it looks its product up,
stores the picture and reads the row back (`StartUpload`, `StoreUpload`,
`CheckOut`), and lets it go only if the file is on disk and has to be read by a
thread (`AwaitFile`, `FileIsRead`, `ResumeUpload`); all that time it holds a
connection, but for the moment after its commit when it asks anew, still on the
loop. A WebSocket handler blocks the loop from `Wake` until its session is over; a
refused handshake sends and closes inside the session (`ws.py:60-61`, `130-131`) and
so holds a connection while it waits. `GiveUp` and `SocketGivesUp` are the pool's
timeout, thirty seconds by default. Each commit gives the connection back, and the
next statement asks anew (`Commit`, `SocketAsksAnew`; so does the next session of a
handler that has not let the loop go), at most `Again` times: two for connecting,
which stores cameras and inserts a session. Asking a vision provider is part of
`handling`. Pool, thread pool and the framework's order of events are external.

The `MC` modules add symmetry and constants for TLC. Operators marked
*mutant* are faulty variants of the operator they precede; no specification uses
them, but for `WriteUser` of `Credentials`, which is a mutant only when it stands alone.
They show that each property can fail.

## Runs

| Run | Instance | Shows |
|---|---|---|
| `Checkout` | 1 counter, 2 sessions, 3 keys, 2 carts, 1 camera, 2 requests | `ExactlyOneActiveKey`, `NoOrphans`, `SelectionWasReported`, `AtMostOneOpenSession`, `KeepsThePromise`, `ClosedAttractsNoWriters` |
| `CartEdits` | 2 products, 2 editors, carts of 2 lines, 3 typed quantities | `CartsAreReadable`, `TotalsMatch` |
| `Catalog` | 3 categories, 1 product, 2 uploads, 3 slugs, 2 requests | `CategoryKeysUnique`, `NoKeyPassedOver`, `EveryProductFiled`, `ImagesResolve`, `PicturesDoNotReturn` |
| `VisionIntegrations` | 2 integrations, 2 endpoints, 2 models, 2 requests | `KeysStayHome`, `ShownModelIsLoaded`, `CalmActivationPrevails` |
| `LiveRooms` | 2 mortal workers, 1 till, 1 admin, 2 sessions, 2 keys, 1 task | `ClientsAreServed`, `DropsHaveAReason` |
| `LiveTills` | 1 mortal worker, 2 tills, 2 sessions, 2 keys, 1 task | `PresentTillsAreDropped`, `HandlersEnd` |
| `LiveWatchers` | 1 mortal worker, 2 admins, 1 session, 1 task | `WatchersSeeThePayment`, `HandlersEnd` |
| `Accounts` | 3 users, 1 key (new or legacy), 1 item, 2 requests | `OnlyEntitledAdminister`, `OnlyEntitledWriteCatalogue`, `NothingOutlivesItsOwner` |
| `Credentials` | 2 users (1 imported), 2 addresses, 2 passwords, 2 requests | `EmailsUnique`, `PasswordsAreIntended`, `LoginsAreGenuine` |
| `ConnectionPool` | 3 requests, 2 sockets, 1 connection, 2 threads, asking anew twice | `NothingHeldAtRest`, `RequestsEnd`, `LoopComesBack` |

The runs with invariants check `TypeOK` too.

Identifiers are never reused, as UUIDs are not: their number bounds how often
things are created. Besides them only `MaxLines`, the lines
administrators add to a cart, and `Again`, the commits of a handler, bound anything. Two requests suffice for every race between two
statements; a request that has ended begins anew, so a session can be closed between
another request's lost insert and its second look. Two sessions allow one to be
closed and the next opened, three keys two rotations. What needs two counters is
proved (`OnlyOwnSessions`, `NothingOrphaned`). Two tills or admins are enough for a socket that fails before another
in the same broadcast. Typed quantities in `CartEdits` are one that vanishes when
cut to pieces but not when rounded to grams (0.0006), one half-way between two
grams (0.1235), and one that is cut down (2.15). Three categories leave two to create
beside the default, enough for a key's first and second form; one product and two
uploads replace a picture. Two endpoints let a row move there and back.
Three accounts let two superusers act on a third, or one on a key's owner who acts
through the key. With three requests, two threads and one connection, threads,
connection and loop can all be waited for in a circle.
The proofs remove the bounds from everything claimed but liveness.

Symmetry is used in runs without liveness only. Deadlock is checked except in the
live runs, in `Accounts` and in `Credentials`, where identifiers may be used up, and in
`CartEdits`, where a closed session is edited no more.

Fairness in `LiveCheckout`: `WF` of `Proceed(x)` for every coroutine. The event loop runs what is
ready, and no send waits forever because the server pings its peers and drops
those that do not answer. No fairness for peers, requests, administrators or
crashes. Liveness is stated per worker, since nothing crosses workers. In
`ConnectionPool`, `WF` of what a thread, or a handler on the loop, does once it may: wait
for a connection, at most for the timeout, and for the database, a provider, the
object store or a file, whose answers are bounded; `SF` of what
waits for the loop, which serves what is ready in the order it became ready, however
often sockets come between. No fairness for arrivals.

### Where the code and its words disagree

Two runs are expected to fail, each on one sentence of the repository:

- `DustInCart`: an administrator's weight of 0.4 g is positive when tested, then
  rounded to zero and stored, and the cart cannot be read any more
  (`models.py:510`, `quantity: float = Field(gt=0)`). `CartEdits` shows that this is the
  only way: with weights that survive rounding every cart is readable.
- `RotationMissed`: tills on other workers, and tills still in the handshake, stay
  connected after a rotation (`README.md:95-96`).

Behaviours the models also reach, without a run of their own: a cart update that
tested `closed` before a payment committed changes the paid session (`crud.py:304`;
`ws.py:309` says that closed sessions cannot be modified); a till that found its
session before a cancellation joins the room after it was emptied, and stays on a
closed session (`ws.py:75`); a session is closed while a line that does not validate
is being stored, and the close tells and disconnects nobody (`ws.py:307`;
`CartEdits` and `DustInCart` have such lines, `LiveCheckout`'s sessions have none);
an update that asks for a flag as it saw it does not write it, whatever it has
become (`crud.py:49-60`); a key from before there were roles writes the catalogue
with no account behind it, and a key whose owner is demoted after the one look at it
writes once more (`deps.py:133-135`); two superusers delete each other
(`users.py:239`); a login that upgrades an old hash brings a password back that was
changed meanwhile (`crud.py:85`); a link mailed for an address opens the account of
whoever has the address by now; with all connections held, requests and handlers
fail after the timeout rather than succeed; a counter with sessions cannot be
deleted (`models.py:477`); a camera may be selected after the report that named it
was replaced (`checkout_counters.py:96`); an administrator whose first send fails
stays registered, and tills stay under its takeover (`ws.py:135-142`); of two
overlapping activations, both integrations may end up active, or neither, or the
settings may name an inactive one (`vision_inference_integrations.py:124-131`).

## Proofs

`CheckoutProofs` proves `TypeCorrect` together with `RequestsKnowTheirRows` (what a
request remembers about a row's owner stays true, because `counter` columns never
change once set: `RowsFrozen`). `StepCases` and `StepOfOne` reduce `Next` to the
actions that write tables, or to one request.

It then builds the inductive invariant `Inv`:

- `RowsFollowCounters`: a session or key is gone exactly when its counter is.
  Needed because a cascade is only right if no row of a live counter is already
  gone and none of a gone counter is left; `NoOrphans` follows.
- `AtMostOneOpenSession` and `ExactlyOneActiveKey` are inductive once types and
  `RowsFollowCounters` hold: the indexes are tested in the step that writes. For
  keys the request's `old` must be keys of its own counter, which
  `RequestsKnowTheirRows` says.
- `CountersKnow`, `SessionsKnow`, `RequestsKnow`: every camera in a table *and in
  any request's memory* was reported. The last part is what makes
  `SelectionWasReported` inductive although selections are stored later than they
  are validated.

From `Inv`: `OneOpenSession`, `OneActiveKey`, `NothingOrphaned`,
`OnlyOwnSessions`, `OnlyReportedCameras`, `SnapshotsNeverChange`,
`ClosedGainsNoWriters` and `ImplementsPromise`: each writing action maps to one
operation of `CheckoutPromise` or to a stutter; `RowsFollowCounters` is again needed,
for rotation and deletion.

`CartEditsProofs` argues once for both properties: `DrawnFrom(S)` says that every line
in the cart, or about to be stored, is in `S`, and is inductive for every set `S` that
is `Closed` under what the commands build. `TypeCorrect` takes `S` to be all lines;
`ReadableCarts` the lines with a positive quantity, a closed set if no weight is
typed that rounds to nothing (`NothingVanishes`, which `DustInCart` shows to be
needed); `MatchingTotals` the lines with the right total, a closed set if tills
send such lines (`HonestTills`; the backend does not recompute what a till sends).

`CatalogProofs` proves all properties of `Catalog`. `KeysUnique` and `AllFiled` are
inductive with the types, since index and foreign key are tested in the step
that writes. `ImagesAlwaysResolve` needs `Progress`, what each stage of an upload
has already stored, and `StoreGrows`. `NoKeyLeftOut` needs `KeysStay`: keys of rows
never change, so what was found taken has been somebody's.

`LiveCheckoutProofs` starts from `Ground`, inductive as a whole: `RolesOK`, which says what
the coroutine of a till, an administrator and a request can be (only the last two ever
broadcast or disconnect); `RoomsOK`; `IdleAreDown` (a till that has not begun, or is done,
has no connection, without which a dead socket could be taken for a live one);
`ClientsAreServed`; and the tables' `TablesOK`, `LiveHaveKeys` and `KeysAreKnown`. `StepCases`
splits a step into one of a till, of an administrator, of a request, of a round of
sends or drops, of the tables alone, or a failure; `TillMoves`, `OthersMove` and `CrashMoves`
say what each of them does to a till and its rooms. Then:

- `RoomsAgree` and `TypeCorrect` follow. `TablesFollowPromise`: every step is one operation of
  `CheckoutPromise`, or none.
- `DropsAreJustified` needs `JobsHaveAReason`, from the commit to the last socket closed: who
  will disconnect tills works on a session that is closed or whose counter had a key
  revoked, and reasons stay (`TablesGrow`). `LiveHaveKeys` gives the rotation its first
  reason: it always revokes a key. `TargetsAreServed` says that a copied room gets old
  but never wrong: whoever is in it is served by that worker for that session, or gone.
- `NobodySlipsAway` and `NewsIsNotLost` are what safety can say of `PresentTillsAreDropped` and
  `WatchersSeeThePayment`: whoever must be disconnected, or told, stays on the way of the
  task that does it, in the room or in its copy, until it is done or the connection is
  gone. For crashes the first needs that a till in the room is on the task's worker
  (`ClientsAreServed`, `TargetsAreServed`), the second the same of administrators
  (`MembersAttend`, `ListenersAttend`), and `LeaversAreDown`: administrators leave rooms only
  without a connection. What remains to fairness is that rounds end.

`ConnectionPoolProofs` proves `TypeCorrect` and `NothingLeaks`. The types include the
limits of pool, threads and loop, which the guards of the model impose; they compare
cardinalities, so `InUseIsFinite` is part of the invariant instead of an assumption: of
any number of requests only finitely many use something at a time. `OneBlocks` says what
taking the free loop does to its blockers. `AskingHaveNone` is the other part: a handler that asks on the loop has no connection yet, so giving
up leaves none behind.

`VisionIntegrationsProofs` proves all properties of `VisionIntegrations`. For
`KeysNeverStray`, every write keeps endpoint and key, stores a pair that belongs together,
or drops the key (`Creating`, `Updating`, `Activating`), and whatever a request asks or
hands on is a pair that some row held when it was read (`Requesting`).
`OnlyUsableModelsShown` is an argument about `Answering`, the step that reads an answer.
`CalmActivationsPrevail` needs `CalmIsCurrent`: what an activation without overlap has read
of flags and settings is still true, since nobody but activations writes them
(`UpdatingKeepsFlags`), and its pending writes are exactly the flags that differ.

`AccountsProofs` proves all properties of `Accounts`. `OwnersExist` is inductive with the
types, as foreign keys are tested in the step that writes. `OnlyTheEntitled` and
`OnlyTheEntitledWrite` need `KeyWasLive` and `CallerWasEntitled`: what each read of a key has
already established, in terms of the history variable, so that it stays true when
account or key change. `CredentialsProofs` proves all properties of `Credentials`: `PasswordsStay` with
`OlderIsImported` (only accounts from before ever have a hash of the older kind, so only
their logins write), `TokensAreEarned` with `PasswordWasGiven` and `TokenIsEarned`, which
say what the stages of a login have witnessed.

The assumptions are those named in the modules (`ConstantsAssumption`,
`CartsAssumption`, `CatalogAssumption`, `VisionAssumption`, `AccountsAssumption`,
`CredentialsAssumption`, `PoolAssumption`, `CoroutinesAssumption`): null values are not
identifiers, defaults are members of their sets, tills' carts validate, limits are
positive numbers, and tills, administrators and requests are different things.
`MortalAssumption` is not used: the proofs let every worker crash. No finiteness is
assumed. `OnlyOwnSessions`, `SnapshotsNeverChange`, `NobodySlipsAway`, `NewsIsNotLost` and
`TablesFollowPromise` are proved only; no run checks them.

Only model-checked, because liveness is beyond TLAPS: `PresentTillsAreDropped`,
`WatchersSeeThePayment` and `HandlersEnd` of `LiveCheckout`, `RequestsEnd` and `LoopComesBack` of
`ConnectionPool`. Every invariant and every action
property of a passing run is a theorem.

## Not modelled, and the plan

Done, in this order: `CheckoutStore`, `CheckoutPromise` and their proofs; `WsManager`
and `LiveCheckout`; `CartEdits`, `Catalog` and `VisionIntegrations` with proofs; `Accounts`
and `Credentials` with proofs; `ConnectionPool`; the proofs of `LiveCheckout` and
`ConnectionPool`. Next:

1. Proofs: the safety halves of `HandlersEnd` and `RequestsEnd`; an
   abstract room implemented by `WsManager` under the handlers.
2. Room for slow peers in `ConnectionPool`: background tasks ask for no connection and
   are part of `Reply`, but their sends prolong the request's hold of its own.

Left out for good: configuration, the sending of e-mail, seeding (no shared state),
names and texts (users', items', products'),
the vision provider's and the label service's insides (external), password
hashing and tokens (cryptography).
