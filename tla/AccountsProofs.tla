--------------------------- MODULE AccountsProofs ---------------------------
(* Who administers, and what is left of whoever is gone, for any number of *)
(* accounts, keys, items and requests.                                     *)
EXTENDS Accounts, TLAPS

UserRow == [phase : {"new", "stored", "gone"}, flags : Flags]
KeyRow == [phase : {"new", "live", "dead"}, role : {"user", "admin", None}, writes : BOOLEAN,
           owner : Users \cup {None}]

\* What a request carries from one statement to the next.
LEMMA Carried ==
  ASSUME TypeOK, NEW p \in Requests
  PROVE  /\ At(p, "key") => req[p].key \in Keys /\ req[p].owner \in Users
         /\ At(p, "granted") => req[p].key \in Keys /\ req[p].owner \in Users \cup {None}
         /\ At(p, "catalogue") => req[p].caller \in Users \cup {None}
                                  /\ req[p].key \in Keys \cup {None}
         /\ At(p, "admitted") => /\ req[p].caller \in Users /\ req[p].key \in Keys \cup {None}
                                 /\ req[p].active \in BOOLEAN
         /\ At(p, "updating") => req[p].user \in Users /\ req[p].seen \in Flags
                                   /\ req[p].wants \in Flags
         /\ At(p, "deleting") => req[p].user \in Users
<1>1. req[p] \in Request
  BY DEF TypeOK
<1> QED
  BY <1>1 DEF Request, Idle, At

\* The flags an update leaves behind are flags.
LEMMA Merged ==
  ASSUME NEW seen \in Flags, NEW wants \in Flags, NEW now \in Flags
  PROVE  [active |-> IF wants.active # seen.active THEN wants.active ELSE now.active,
          super |-> IF wants.super # seen.super THEN wants.super ELSE now.super] \in Flags
<1>1. (IF wants.active # seen.active THEN wants.active ELSE now.active) \in BOOLEAN
  BY DEF Flags
<1>2. (IF wants.super # seen.super THEN wants.super ELSE now.super) \in BOOLEAN
  BY DEF Flags
<1> QED
  BY <1>1, <1>2 DEF Flags

\* Every step moves one request or none, and observes.
LEMMA Moving ==
  ASSUME TypeOK, Next
  PROVE  Observe /\ (req' = req \/ \E p \in Requests, r \in Request : Become(p, r))
<1> Idle \in Request
  BY DEF Request
<1>1. ASSUME NEW p \in Requests, NEW u \in Users, ReadCaller(p, u)
      PROVE  Observe /\ \E r \in Request : Become(p, r)
  BY <1>1 DEF ReadCaller, Moves, Request
<1>2. ASSUME NEW p \in Requests, NEW k \in Keys, ReadKey(p, k)
      PROVE  Observe /\ \E r \in Request : Become(p, r)
  <2>1. key[k].owner # None => key[k].owner \in Users
    BY DEF TypeOK
  <2> QED
    BY <1>2, <2>1 DEF ReadKey, Moves, Request
<1>3. ASSUME NEW p \in Requests, ReadOwner(p)
      PROVE  Observe /\ \E r \in Request : Become(p, r)
  BY <1>3, Carried DEF ReadOwner, Moves, Request
<1>4. ASSUME NEW p \in Requests, ReadOwnerAgain(p)
      PROVE  Observe /\ \E r \in Request : Become(p, r)
  <2>1. req[p].key \in Keys /\ req[p].owner \in Users
    BY <1>4, Carried DEF ReadOwnerAgain
  <2>2. user[req[p].owner].flags.active \in BOOLEAN
    BY <2>1 DEF TypeOK, Flags
  <2> QED
    BY <1>4, <2>1, <2>2 DEF ReadOwnerAgain, Moves, Request
<1>5. ASSUME NEW p \in Requests, NEW u \in Users, NEW f \in Flags, ReadForUpdate(p, u, f)
      PROVE  Observe /\ \E r \in Request : Become(p, r)
  <2>1. [active |-> req[p].active, super |-> TRUE] \in Flags
    BY <1>5, Carried DEF ReadForUpdate, Flags
  <2>2. user[u].flags \in Flags
    BY DEF TypeOK
  <2>3. PICK seen \in Flags : Moves(p, [at |-> "updating", user |-> u, seen |-> seen,
                                        wants |-> f])
    BY <1>5, <2>1, <2>2 DEF ReadForUpdate
  <2> QED
    BY <2>3 DEF Moves, Request
<1>6. ASSUME NEW p \in Requests, NEW u \in Users, ReadForDelete(p, u)
      PROVE  Observe /\ \E r \in Request : Become(p, r)
  BY <1>6 DEF ReadForDelete, Moves, Request
<1>7. ASSUME NEW p \in Requests, require_catalog_access(p)
      PROVE  Observe /\ \E r \in Request : Become(p, r)
  BY <1>7, Carried DEF require_catalog_access, Moves, Request
<1> QED
  BY <1>1, <1>2, <1>3, <1>4, <1>5, <1>6, <1>7
  DEF Next, Authenticate, AdministerUsers, AdministerKeysAndItems, Finish, Moves, create_user,
      StoreUser, delete_user, create_item, delete_item, create_api_key, revoke_api_key,
      SignUp, init_db, Expire

\* Only these steps write a table.
LEMMA Writers ==
  ASSUME Next
  PROVE  \/ UNCHANGED <<user, key, item>>
         \/ \E u \in Users, f \in Flags : Insert(u, f)
         \/ \E p \in Requests : StoreUser(p)
         \/ \E p \in Requests : delete_user(p)
         \/ \E p \in Requests, i \in Items : create_item(p, i) \/ delete_item(p, i)
         \/ \E p \in Requests, k \in Keys, role \in {"user", "admin"} : create_api_key(p, k, role)
         \/ \E p \in Requests, k \in Keys : revoke_api_key(p, k)
         \/ \E k \in Keys : Expire(k)
<1>1. ASSUME NEW p \in Requests, Authenticate(p) \/ Finish(p)
      PROVE  UNCHANGED <<user, key, item>>
  BY <1>1 DEF Authenticate, Finish, Moves, ReadCaller, ReadKey, ReadOwner, ReadOwnerAgain,
     require_catalog_access
<1>2. ASSUME NEW p \in Requests, NEW u \in Users, NEW f \in Flags,
             ReadForUpdate(p, u, f) \/ ReadForDelete(p, u)
      PROVE  UNCHANGED <<user, key, item>>
  BY <1>2 DEF ReadForUpdate, ReadForDelete, Moves
<1>3. ASSUME NEW p \in Requests, AdministerUsers(p)
      PROVE  \/ UNCHANGED <<user, key, item>>
             \/ \E u \in Users, f \in Flags : Insert(u, f)
             \/ StoreUser(p) \/ delete_user(p)
  <2>1. [active |-> TRUE, super |-> TRUE] \in Flags
    BY DEF Flags
  <2> QED
    BY <1>2, <1>3, <2>1 DEF AdministerUsers, create_user
<1>4. ASSUME NEW u \in Users, SignUp(u) \/ init_db(u)
      PROVE  \E f \in Flags : Insert(u, f)
  BY <1>4 DEF SignUp, init_db, Flags
<1> QED
  BY <1>1, <1>3, <1>4 DEF Next, AdministerKeysAndItems

\* What a step does to accounts: it adds one, changes flags, or deletes one.
LEMMA Accounting ==
  ASSUME TypeOK, Next
  PROVE  \/ UNCHANGED user
         \/ /\ UNCHANGED <<key, item>>
            /\ \E u \in Users, f \in Flags :
                 /\ user[u].phase \in {"new", "stored"}
                 /\ user' = [user EXCEPT ![u] = [phase |-> "stored", flags |-> f]]
         \/ \E p \in Requests : delete_user(p)
<1>1. ASSUME NEW u \in Users, NEW f \in Flags, Insert(u, f)
      PROVE  /\ UNCHANGED <<key, item>> /\ user[u].phase \in {"new", "stored"}
             /\ user' = [user EXCEPT ![u] = [phase |-> "stored", flags |-> f]]
  BY <1>1 DEF Insert
<1>3. ASSUME NEW p \in Requests, StoreUser(p)
      PROVE  /\ UNCHANGED <<key, item>>
             /\ \E u \in Users, f \in Flags :
                  /\ user[u].phase \in {"new", "stored"}
                  /\ user' = [user EXCEPT ![u] = [phase |-> "stored", flags |-> f]]
  <2>1. req[p].user \in Users /\ req[p].seen \in Flags /\ req[p].wants \in Flags
    BY <1>3, Carried DEF StoreUser
  <2>2. user[req[p].user].flags \in Flags
    BY <2>1 DEF TypeOK
  <2> QED
    BY <1>3, <2>1, <2>2, Merged DEF StoreUser, Stored
<1>4. CASE \E p \in Requests, i \in Items : create_item(p, i) \/ delete_item(p, i)
  BY <1>4 DEF create_item, delete_item
<1>5. CASE \E p \in Requests, k \in Keys, role \in {"user", "admin"} : create_api_key(p, k, role)
  BY <1>5 DEF create_api_key
<1>6. CASE \/ \E p \in Requests, k \in Keys : revoke_api_key(p, k)
           \/ \E k \in Keys : Expire(k)
  BY <1>6 DEF revoke_api_key, Expire
<1> QED
  BY <1>1, <1>3, <1>4, <1>5, <1>6, Writers

\* What a step does to keys and items.
LEMMA KeyKeeping ==
  ASSUME TypeOK, Next
  PROVE  /\ \/ UNCHANGED <<key, item>>
            \/ UNCHANGED user
            \/ \E p \in Requests : delete_user(p)
         /\ \/ UNCHANGED key
            \/ \E k \in Keys, u \in Users, role \in {"user", "admin"} :
                 /\ Stored(u) /\ key[k].phase = "new"
                 /\ key' = [key EXCEPT ![k] = [phase |-> "live", role |-> role,
                                               writes |-> FALSE, owner |-> u]]
            \/ \E k \in Keys :
                 /\ key[k].phase = "live"
                 /\ key' = [key EXCEPT ![k].phase = "dead"]
            \/ \E p \in Requests : delete_user(p)
         /\ \/ UNCHANGED item
            \/ \E i \in Items, u \in Users : Stored(u) /\ item' = [item EXCEPT ![i] = u]
            \/ \E i \in Items : item' = [item EXCEPT ![i] = None]
            \/ \E p \in Requests : delete_user(p)
<1>1. ASSUME NEW p \in Requests, NEW k \in Keys, NEW role \in {"user", "admin"},
             create_api_key(p, k, role)
      PROVE  /\ UNCHANGED <<user, item>>
             /\ \E u \in Users :
                  /\ Stored(u) /\ key[k].phase = "new"
                  /\ key' = [key EXCEPT ![k] = [phase |-> "live", role |-> role,
                                                writes |-> FALSE, owner |-> u]]
  BY <1>1, Carried DEF create_api_key
<1>2. ASSUME NEW p \in Requests, NEW i \in Items, create_item(p, i)
      PROVE  /\ UNCHANGED <<user, key>>
             /\ \E u \in Users : Stored(u) /\ item' = [item EXCEPT ![i] = u]
  BY <1>2, Carried DEF create_item
<1>3. ASSUME NEW u \in Users, NEW f \in Flags, Insert(u, f)
      PROVE  UNCHANGED <<key, item>>
  BY <1>3 DEF Insert
<1>4. ASSUME NEW p \in Requests, StoreUser(p)
      PROVE  UNCHANGED <<key, item>>
  BY <1>4 DEF StoreUser
<1>5. ASSUME NEW p \in Requests, NEW i \in Items, delete_item(p, i)
      PROVE  UNCHANGED <<user, key>> /\ item' = [item EXCEPT ![i] = None]
  BY <1>5 DEF delete_item
<1>6. ASSUME NEW p \in Requests, NEW k \in Keys, revoke_api_key(p, k)
      PROVE  /\ UNCHANGED <<user, item>> /\ key[k].phase = "live"
             /\ key' = [key EXCEPT ![k].phase = "dead"]
  BY <1>6 DEF revoke_api_key
<1>7. ASSUME NEW k \in Keys, Expire(k)
      PROVE  /\ UNCHANGED <<user, item>> /\ key[k].phase = "live"
             /\ key' = [key EXCEPT ![k].phase = "dead"]
  BY <1>7 DEF Expire
<1> QED
  BY <1>1, <1>2, <1>3, <1>4, <1>5, <1>6, <1>7, Writers

\* A deletion, table by table.
LEMMA Deleting ==
  ASSUME TypeOK, NEW p \in Requests, delete_user(p)
  PROVE  \E u \in Users :
           /\ user' \in [Users -> UserRow] /\ user'[u].phase = "gone"
           /\ \A v \in Users \ {u} : user'[v] = user[v]
           /\ key' \in [Keys -> KeyRow]
           /\ \A k \in Keys : /\ key'[k].phase = key[k].phase /\ key'[k].role = key[k].role
                              /\ key'[k].writes = key[k].writes
                              /\ key'[k].owner = IF key[k].owner = u THEN None ELSE key[k].owner
           /\ item' \in [Items -> Users \cup {None}]
           /\ \A i \in Items : item'[i] = IF item[i] = u THEN None ELSE item[i]
<1> DEFINE u == req[p].user
<1>1. u \in Users
  BY Carried DEF delete_user
<1>2. user' \in [Users -> UserRow] /\ user'[u].phase = "gone"
        /\ \A v \in Users \ {u} : user'[v] = user[v]
  <2>1. [phase |-> "gone", flags |-> user[u].flags] \in UserRow
    BY <1>1 DEF TypeOK, UserRow
  <2>2. user' = [user EXCEPT ![u] = [phase |-> "gone", flags |-> user[u].flags]]
    BY DEF delete_user
  <2> QED
    BY <1>1, <2>1, <2>2 DEF TypeOK, UserRow
<1>3. ASSUME NEW k \in Keys
      PROVE  /\ [key[k] EXCEPT !.owner = None] \in KeyRow
             /\ [key[k] EXCEPT !.owner = None].phase = key[k].phase
             /\ [key[k] EXCEPT !.owner = None].role = key[k].role
             /\ [key[k] EXCEPT !.owner = None].writes = key[k].writes
             /\ [key[k] EXCEPT !.owner = None].owner = None
  BY DEF TypeOK, KeyRow
<1>4. key' = [k \in Keys |-> IF key[k].owner = u THEN [key[k] EXCEPT !.owner = None] ELSE key[k]]
  BY DEF delete_user
<1>5. key' \in [Keys -> KeyRow]
  BY <1>3, <1>4 DEF TypeOK, KeyRow
<1>6. \A k \in Keys : /\ key'[k].phase = key[k].phase /\ key'[k].role = key[k].role
                      /\ key'[k].writes = key[k].writes
                      /\ key'[k].owner = IF key[k].owner = u THEN None ELSE key[k].owner
  BY <1>3, <1>4
<1>7. /\ item' \in [Items -> Users \cup {None}]
      /\ \A i \in Items : item'[i] = IF item[i] = u THEN None ELSE item[i]
  BY DEF delete_user, TypeOK
<1> QED
  BY <1>1, <1>2, <1>5, <1>6, <1>7

\* The types are inductive.
LEMMA TypeStep ==
  ASSUME TypeOK, [Next]_vars
  PROVE  TypeOK'
<1>1. CASE UNCHANGED vars
  BY <1>1 DEF vars, TypeOK
<1>2. CASE Next
  <2>1. user' \in [Users -> UserRow]
    <3>1. ASSUME NEW u \in Users, NEW f \in Flags,
                 user' = [user EXCEPT ![u] = [phase |-> "stored", flags |-> f]]
          PROVE  user' \in [Users -> UserRow]
      BY <3>1 DEF TypeOK, UserRow
    <3>2. user \in [Users -> UserRow]
      BY DEF TypeOK, UserRow
    <3> QED
      BY <1>2, <3>1, <3>2, Accounting, Deleting
  <2>2. key' \in [Keys -> KeyRow]
    <3>1. ASSUME NEW k \in Keys, NEW r \in KeyRow, key' = [key EXCEPT ![k] = r]
          PROVE  key' \in [Keys -> KeyRow]
      BY <3>1 DEF TypeOK, KeyRow
    <3>2. ASSUME NEW u \in Users, NEW role \in {"user", "admin"}
          PROVE  [phase |-> "live", role |-> role, writes |-> FALSE, owner |-> u] \in KeyRow
      BY DEF KeyRow
    <3>3. ASSUME NEW k \in Keys
          PROVE  [key[k] EXCEPT !.phase = "dead"] \in KeyRow
      BY DEF TypeOK, KeyRow
    <3>4. key \in [Keys -> KeyRow]
      BY DEF TypeOK, KeyRow
    <3>5. \/ UNCHANGED key
          \/ \E k \in Keys, r \in KeyRow : key' = [key EXCEPT ![k] = r]
          \/ \E p \in Requests : delete_user(p)
      BY <1>2, <3>2, <3>3, KeyKeeping
    <3> QED
      BY <3>1, <3>4, <3>5, Deleting
  <2>3. item' \in [Items -> Users \cup {None}]
    BY <1>2, KeyKeeping, Deleting DEF TypeOK
  <2>4. req' \in [Requests -> Request]
    BY <1>2, Moving DEF TypeOK, Become
  <2>5. entitled' \in [Requests -> SUBSET (Users \cup Keys)]
    <3>1. InGoodStanding' \subseteq Users \cup Keys
      BY DEF InGoodStanding
    <3>2. Observe
      BY <1>2, Moving
    <3> QED
      BY <3>1, <3>2 DEF Observe, TypeOK
  <2> QED
    BY <2>1, <2>2, <2>3, <2>4, <2>5 DEF TypeOK, UserRow, KeyRow
<1> QED
  BY <1>1, <1>2

\* Rows and requests keep their shapes.
THEOREM TypeCorrect == Spec => []TypeOK
<1>1. Init => TypeOK
  <2> SUFFICES ASSUME Init PROVE TypeOK
    OBVIOUS
  <2>1. {NewKey} \cup LegacyKeys \subseteq KeyRow
    <3>1. NewKey \in KeyRow
      BY DEF NewKey, KeyRow
    <3>2. ASSUME NEW r \in LegacyKeys
          PROVE  r \in KeyRow
      BY <3>2 DEF LegacyKeys, KeyRow
    <3> QED
      BY <3>1, <3>2
  <2>2. key \in [Keys -> KeyRow]
    BY <2>1 DEF Init
  <2> QED
    BY <2>2 DEF Init, TypeOK, KeyRow, Flags, Request
<1> QED
  BY <1>1, TypeStep, PTL DEF Spec
-----------------------------------------------------------------------------
\* Whatever names an account names one that is stored: inserts test it, deletions
\* take the names away, and nothing else ends an account.
LEMMA OwnersStep ==
  ASSUME TypeOK, NothingOutlivesItsOwner, [Next]_vars
  PROVE  NothingOutlivesItsOwner'
<1>1. CASE UNCHANGED vars
  BY <1>1 DEF vars, NothingOutlivesItsOwner, Stored
<1>2. CASE Next /\ \E p \in Requests : delete_user(p)
  <2>1. PICK u \in Users :
          /\ \A v \in Users \ {u} : user'[v] = user[v]
          /\ \A k \in Keys : key'[k].owner = IF key[k].owner = u THEN None ELSE key[k].owner
          /\ \A i \in Items : item'[i] = IF item[i] = u THEN None ELSE item[i]
    BY <1>2, Deleting
  <2> QED
    BY <2>1 DEF NothingOutlivesItsOwner, Stored, TypeOK
<1>3. CASE Next /\ ~\E p \in Requests : delete_user(p)
  <2>1. \A u \in Users : Stored(u) => Stored(u)'
    BY <1>3, Accounting DEF Stored, TypeOK
  <2>2. \A k \in Keys : key'[k].owner = key[k].owner \/ Stored(key'[k].owner)
    BY <1>3, KeyKeeping DEF TypeOK
  <2>3. \A i \in Items : item'[i] \in {item[i], None} \/ Stored(item'[i])
    BY <1>3, KeyKeeping DEF TypeOK
  <2>4. TypeOK'
    BY <1>3, TypeStep
  <2> QED
    BY <2>1, <2>2, <2>3, <2>4 DEF NothingOutlivesItsOwner, TypeOK
<1> QED
  BY <1>1, <1>2, <1>3

\* Nothing that is stored is owned by an account that is gone.
THEOREM OwnersExist == Spec => []NothingOutlivesItsOwner
<1>1. Init => NothingOutlivesItsOwner
  <2>1. \A r \in {NewKey} \cup LegacyKeys : r.owner = None
    BY DEF NewKey, LegacyKeys
  <2> QED
    BY <2>1 DEF Init, NothingOutlivesItsOwner
<1> QED
  BY <1>1, OwnersStep, TypeCorrect, PTL DEF Spec
-----------------------------------------------------------------------------
\* What makes both inductive: a key that was read is no new one, so its role and
\* scopes are settled, and if it may write it was alive when it was read.
KeyWasLive(p) ==
  /\ At(p, "key") \/ At(p, "granted") =>
       /\ key[req[p].key].phase # "new"
       /\ key[req[p].key].role = None <=> req[p].owner = None
       /\ GrantsWriting(req[p].key) => req[p].key \in entitled[p]
  /\ (At(p, "admitted") \/ At(p, "catalogue")) /\ req[p].key # None =>
       key[req[p].key].phase # "new"

CallerWasEntitled(p) ==
  /\ At(p, "granted") /\ key[req[p].key].role = "admin" => req[p].owner \in entitled[p]
  /\ At(p, "admitted") =>
       /\ {req[p].key, req[p].caller} \ {None} \subseteq entitled[p]
       /\ req[p].key # None => key[req[p].key].role = "admin"
  /\ At(p, "catalogue") =>
       /\ {req[p].key, req[p].caller} \ {None} \subseteq entitled[p]
       /\ req[p].caller = None => req[p].key \in Keys /\ key[req[p].key].role = None

\* A key that is no new one stays so and keeps its role and scopes.
LEMMA RolesStay ==
  ASSUME TypeOK, Next, NEW k \in Keys, key[k].phase # "new"
  PROVE  /\ key'[k].phase # "new" /\ key'[k].role = key[k].role
         /\ key'[k].writes = key[k].writes
<1>1. ASSUME NEW j \in Keys, key' = [key EXCEPT ![j].phase = "dead"]
      PROVE  /\ key'[k].phase # "new" /\ key'[k].role = key[k].role
             /\ key'[k].writes = key[k].writes
  <2>1. [key[j] EXCEPT !.phase = "dead"].phase = "dead"
        /\ [key[j] EXCEPT !.phase = "dead"].role = key[j].role
        /\ [key[j] EXCEPT !.phase = "dead"].writes = key[j].writes
    BY DEF TypeOK
  <2> QED
    BY <1>1, <2>1 DEF TypeOK
<1> QED
  BY <1>1, KeyKeeping, Deleting DEF TypeOK

\* A request that a step does not move keeps what it has.
LEMMA Unmoved ==
  ASSUME TypeOK, Next, NEW p \in Requests, req'[p] = req[p],
         KeyWasLive(p), CallerWasEntitled(p)
  PROVE  KeyWasLive(p)' /\ CallerWasEntitled(p)'
<1>1. entitled'[p] = (entitled[p] \cup InGoodStanding') \cap Presents(req[p])
  BY Moving DEF Observe
<1>2. ASSUME NEW k \in Keys, key[k].phase # "new"
      PROVE  /\ key'[k].phase # "new" /\ key'[k].role = key[k].role
             /\ GrantsWriting(k)' <=> GrantsWriting(k)
  BY <1>2, RolesStay DEF GrantsWriting
<1>3. CASE At(p, "key") \/ At(p, "granted")
  <2> DEFINE k == req[p].key  u == req[p].owner
  <2>1. k \in Keys /\ k # None /\ Presents(req[p]) = {k, u} \ {None}
    BY <1>3, Carried, AccountsAssumption DEF Presents, At
  <2>2. key[k].role = "admin" => u # None
    BY <1>3, AccountsAssumption DEF KeyWasLive
  <2>3. key'[k].phase # "new" /\ key'[k].role = key[k].role
          /\ (GrantsWriting(k)' <=> GrantsWriting(k))
    BY <1>2, <1>3, <2>1 DEF KeyWasLive
  <2> QED
    BY <1>1, <1>3, <2>1, <2>2, <2>3 DEF KeyWasLive, CallerWasEntitled, At
<1>4. CASE At(p, "admitted") \/ At(p, "catalogue")
  <2>1. /\ Presents(req[p]) = {req[p].key, req[p].caller} \ {None}
        /\ req[p].key # None => req[p].key \in Keys
    BY <1>4, Carried DEF Presents, At
  <2>2. req[p].key # None => key'[req[p].key].phase # "new"
                             /\ key'[req[p].key].role = key[req[p].key].role
    BY <1>2, <1>4, <2>1 DEF KeyWasLive
  <2>3. req[p].key \in Keys => req[p].key # None
    BY AccountsAssumption
  <2> QED
    BY <1>1, <1>4, <2>1, <2>2, <2>3 DEF KeyWasLive, CallerWasEntitled, At
<1> QED
  BY <1>3, <1>4 DEF KeyWasLive, CallerWasEntitled, At

\* Whoever authenticates is in good standing when it is read.
LEMMA Authenticating ==
  ASSUME TypeOK, Next, NEW p \in Requests, Authenticate(p),
         KeyWasLive(p), CallerWasEntitled(p)
  PROVE  KeyWasLive(p)' /\ CallerWasEntitled(p)'
<1>1. /\ entitled'[p] = (entitled[p] \cup InGoodStanding') \cap Presents(req'[p])
      /\ req[p] \in Request
  BY Moving DEF Observe, TypeOK
<1>2. InGoodStanding' = InGoodStanding /\ key' = key
  BY DEF Authenticate, ReadCaller, ReadKey, ReadOwner, ReadOwnerAgain, require_catalog_access,
     Moves, InGoodStanding, Stored, GrantsWriting
<1>3. ASSUME NEW u \in Users, Stored(u), user[u].flags.active, user[u].flags.super
      PROVE  u \in InGoodStanding
  <2>1. user[u].flags = [active |-> TRUE, super |-> TRUE]
    BY <1>3 DEF TypeOK, Flags
  <2> QED
    BY <1>3, <2>1 DEF InGoodStanding
<1>4. ASSUME NEW u \in Users, ReadCaller(p, u)
      PROVE  KeyWasLive(p)' /\ CallerWasEntitled(p)'
  <2>1. req'[p] = [at |-> "admitted", caller |-> u, key |-> None, active |-> TRUE]
    BY <1>4 DEF ReadCaller, Moves, Become, TypeOK
  <2>2. u \in InGoodStanding
    BY <1>3, <1>4 DEF ReadCaller
  <2>3. Presents(req'[p]) = {u} /\ u # None
    BY <2>1, AccountsAssumption DEF Presents
  <2>4. u \in entitled'[p]
    BY <1>1, <1>2, <2>2, <2>3
  <2> QED
    BY <2>1, <2>4 DEF KeyWasLive, CallerWasEntitled, At
<1>5. ASSUME NEW k \in Keys, ReadKey(p, k)
      PROVE  KeyWasLive(p)' /\ CallerWasEntitled(p)'
  <2>1. PICK point \in {"key", "granted"}, u \in Users \cup {None} :
          /\ req'[p] = [at |-> point, key |-> k, owner |-> u]
          /\ key[k].role = None <=> u = None
    <3>1. key[k].role = None =>
            req'[p] = [at |-> "granted", key |-> k, owner |-> None]
      BY <1>5 DEF ReadKey, Moves, Become, TypeOK
    <3>2. key[k].role # None =>
            key[k].owner \in Users /\ key[k].owner # None
              /\ req'[p] = [at |-> "key", key |-> k, owner |-> key[k].owner]
      BY <1>5 DEF ReadKey, Moves, Become, TypeOK
    <3> QED
      BY <1>5, <3>1, <3>2
  <2>2. Presents(req'[p]) = {k, u} \ {None} /\ k # None
    BY <2>1, AccountsAssumption DEF Presents
  <2>3. GrantsWriting(k) => k \in InGoodStanding
    BY <1>5 DEF ReadKey, InGoodStanding
  <2>4. GrantsWriting(k) => k \in entitled'[p]
    BY <1>1, <1>2, <2>2, <2>3
  <2>5. key[k].phase # "new" /\ ~(key'[k].role = "admin" /\ point = "granted")
    <3>1. point = "granted" => u = None
      BY <1>5, <2>1 DEF ReadKey, Moves, Become, TypeOK
    <3> QED
      BY <1>2, <1>5, <2>1, <3>1, AccountsAssumption DEF ReadKey
  <2>6. GrantsWriting(k)' <=> GrantsWriting(k)
    BY <1>2 DEF GrantsWriting
  <2> QED
    BY <1>2, <2>1, <2>4, <2>5, <2>6 DEF KeyWasLive, CallerWasEntitled, At
<1>6. CASE ReadOwner(p)
  <2>1. PICK k \in Keys, u \in Users :
          k = req[p].key /\ u = req[p].owner /\ At(p, "key") /\ k # None /\ u # None
    BY <1>6, Carried, AccountsAssumption DEF ReadOwner
  <2>2. req'[p] = [at |-> "granted", key |-> k, owner |-> u]
    BY <1>6, <2>1 DEF ReadOwner, Moves, Become, TypeOK
  <2>3. Presents(req'[p]) = {k, u}
    BY <2>1, <2>2 DEF Presents
  <2>4. key[k].role = "admin" => u \in InGoodStanding
    BY <1>3, <1>6, <2>1 DEF ReadOwner
  <2>5. /\ key[k].phase # "new"
        /\ key[k].role # None
        /\ GrantsWriting(k) => k \in entitled[p]
    BY <2>1 DEF KeyWasLive
  <2>6. GrantsWriting(k)' <=> GrantsWriting(k)
    BY <1>2 DEF GrantsWriting
  <2>7. GrantsWriting(k)' => k \in entitled'[p]
    BY <1>1, <2>3, <2>5, <2>6
  <2>8. key[k].role = "admin" => u \in entitled'[p]
    BY <1>1, <1>2, <2>3, <2>4
  <2> QED
    BY <1>2, <2>1, <2>2, <2>5, <2>7, <2>8 DEF KeyWasLive, CallerWasEntitled, At
<1>7. CASE ReadOwnerAgain(p)
  <2> DEFINE k == req[p].key  u == req[p].owner  active == user[u].flags.active
  <2>1. k \in Keys /\ u \in Users /\ At(p, "granted") /\ key[k].role = "admin"
    BY <1>7, Carried DEF ReadOwnerAgain
  <2>2. req'[p] = [at |-> "admitted", caller |-> u, key |-> k, active |-> active]
    BY <1>7 DEF ReadOwnerAgain, Moves, Become, TypeOK
  <2>3. Presents(req'[p]) = {k, u} \ {None}
    BY <2>2 DEF Presents
  <2>4. {k, u} \subseteq entitled[p] /\ key[k].phase # "new"
    BY <2>1 DEF KeyWasLive, CallerWasEntitled, GrantsWriting
  <2> HIDE DEF k, u, active
  <2> QED
    BY <1>1, <1>2, <2>1, <2>2, <2>3, <2>4 DEF KeyWasLive, CallerWasEntitled, At
<1>8. CASE require_catalog_access(p)
  <2>1. PICK k \in Keys \cup {None}, u \in Users \cup {None} :
          /\ req'[p] = [at |-> "catalogue", caller |-> u, key |-> k]
          /\ {k, u} \ {None} \subseteq entitled[p]
          /\ k # None => key[k].phase # "new"
          /\ u = None => k \in Keys /\ key[k].role = None
    <3>1. CASE At(p, "granted")
      <4>1. /\ req[p].key \in Keys /\ req[p].owner \in Users \cup {None}
            /\ GrantsWriting(req[p].key)
            /\ req'[p] = [at |-> "catalogue", caller |-> req[p].owner, key |-> req[p].key]
        BY <1>8, <3>1, Carried DEF require_catalog_access, Moves, Become, TypeOK, At
      <4>2. {req[p].key, req[p].owner} \ {None} \subseteq entitled[p]
        BY <3>1, <4>1 DEF KeyWasLive, CallerWasEntitled, GrantsWriting
      <4> QED
        BY <3>1, <4>1, <4>2 DEF KeyWasLive
    <3>2. CASE At(p, "admitted")
      <4>1. /\ req[p].key \in Keys \cup {None} /\ req[p].caller \in Users
            /\ req'[p] = [at |-> "catalogue", caller |-> req[p].caller, key |-> req[p].key]
        BY <1>8, <3>2, Carried DEF require_catalog_access, Moves, Become, TypeOK, At
      <4> QED
        BY <3>2, <4>1, AccountsAssumption DEF KeyWasLive, CallerWasEntitled
    <3> QED
      BY <1>8, <3>1, <3>2 DEF require_catalog_access
  <2>2. Presents(req'[p]) = {k, u} \ {None}
    BY <2>1 DEF Presents
  <2> QED
    BY <1>1, <1>2, <2>1, <2>2 DEF KeyWasLive, CallerWasEntitled, At
<1> QED
  BY <1>4, <1>5, <1>6, <1>7, <1>8 DEF Authenticate

\* Any other step leaves a request's authentication behind, or does not move it.
LEMMA Leaving ==
  ASSUME TypeOK, Next, NEW p \in Requests, req'[p] # req[p], ~Authenticate(p)
  PROVE  req'[p].at \in {"idle", "updating", "deleting"}
<1>1. req \in [Requests -> Request]
  BY DEF TypeOK
<1>2. ASSUME NEW q \in Requests, Authenticate(q)
      PROVE  q = p
  BY <1>1, <1>2 DEF Authenticate, ReadCaller, ReadKey, ReadOwner, ReadOwnerAgain,
     require_catalog_access, Moves, Become
<1>3. ASSUME NEW q \in Requests, Become(q, Idle)
      PROVE  req'[p].at = "idle"
  BY <1>1, <1>3 DEF Become, Idle
<1>4. ASSUME NEW q \in Requests, AdministerUsers(q)
      PROVE  req'[p].at \in {"idle", "updating", "deleting"}
  <2>1. ASSUME NEW u \in Users, NEW f \in Flags, ReadForUpdate(q, u, f)
        PROVE  req'[p].at = "updating"
    <3>1. PICK seen \in {[active |-> req[q].active, super |-> TRUE], user[u].flags} :
            Become(q, [at |-> "updating", user |-> u, seen |-> seen, wants |-> f])
      BY <2>1 DEF ReadForUpdate, Moves
    <3> QED
      BY <1>1, <3>1 DEF Become
  <2>2. ASSUME NEW u \in Users, ReadForDelete(q, u)
        PROVE  req'[p].at = "deleting"
    BY <1>1, <2>2 DEF ReadForDelete, Moves, Become
  <2> QED
    BY <1>3, <1>4, <2>1, <2>2 DEF AdministerUsers, create_user, StoreUser, delete_user
<1>5. ASSUME NEW q \in Requests, AdministerKeysAndItems(q) \/ Finish(q)
      PROVE  req'[p].at = "idle"
  BY <1>3, <1>5 DEF AdministerKeysAndItems, create_item, delete_item, create_api_key,
     revoke_api_key, Finish, Moves
<1>6. ~\E u \in Users : SignUp(u) \/ init_db(u)
  BY DEF SignUp, init_db
<1>7. ~\E k \in Keys : Expire(k)
  BY DEF Expire
<1> QED
  BY <1>2, <1>4, <1>5, <1>6, <1>7 DEF Next

\* Every step keeps what requests have established.
LEMMA EntitledStep ==
  ASSUME TypeOK, [Next]_vars, \A p \in Requests : KeyWasLive(p) /\ CallerWasEntitled(p)
  PROVE  \A p \in Requests : KeyWasLive(p)' /\ CallerWasEntitled(p)'
<1> SUFFICES ASSUME NEW p \in Requests
             PROVE  KeyWasLive(p)' /\ CallerWasEntitled(p)'
  OBVIOUS
<1>1. CASE UNCHANGED vars
  BY <1>1 DEF vars, KeyWasLive, CallerWasEntitled, GrantsWriting, At
<1>2. CASE Next /\ req'[p] = req[p]
  BY <1>2, Unmoved
<1>3. CASE Next /\ Authenticate(p)
  BY <1>3, Authenticating
<1>4. CASE Next /\ req'[p] # req[p] /\ ~Authenticate(p)
  BY <1>4, Leaving DEF KeyWasLive, CallerWasEntitled, At
<1> QED
  BY <1>1, <1>2, <1>3, <1>4

\* The invariant that carries both theorems.
LEMMA EntitledAlways == Spec => [](\A p \in Requests : KeyWasLive(p) /\ CallerWasEntitled(p))
<1> DEFINE Inv == \A p \in Requests : KeyWasLive(p) /\ CallerWasEntitled(p)
<1>1. Init => Inv
  BY DEF Init, KeyWasLive, CallerWasEntitled, At, Idle
<1>2. TypeOK /\ Inv /\ [Next]_vars => Inv'
  BY EntitledStep
<1> QED
  BY <1>1, <1>2, TypeCorrect, PTL DEF Spec

\* Nobody administers accounts, keys or items on the strength of what it was before
\* the request, and no key without role does at all (deps.py:34-87).
THEOREM OnlyTheEntitled == Spec => []OnlyEntitledAdminister
<1>1. (\A p \in Requests : KeyWasLive(p) /\ CallerWasEntitled(p)) => OnlyEntitledAdminister
  BY DEF CallerWasEntitled, OnlyEntitledAdminister
<1> QED
  BY <1>1, EntitledAlways, PTL

\* Nobody writes the catalogue on the strength of what account or key were before
\* the request; without an account only by a key that never had one (deps.py:128-143).
THEOREM OnlyTheEntitledWrite == Spec => []OnlyEntitledWriteCatalogue
<1>1. (\A p \in Requests : KeyWasLive(p) /\ CallerWasEntitled(p)) => OnlyEntitledWriteCatalogue
  BY DEF CallerWasEntitled, OnlyEntitledWriteCatalogue
<1> QED
  BY <1>1, EntitledAlways, PTL
=============================================================================
