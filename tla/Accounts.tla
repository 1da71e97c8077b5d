------------------------------ MODULE Accounts ------------------------------
(***************************************************************************)
(* Accounts, the generic API keys and the items they own, and the requests *)
(* that authenticate and then administer them, or write the catalogue.  A  *)
(* token is read with its user in one statement; a key with a role needs   *)
(* three, and anybody may be promoted, demoted, deactivated or deleted     *)
(* between them.  Keys from before there were roles have no owner and      *)
(* grant the scopes they were made with; nobody makes such a key any more. *)
(*                                                                         *)
(* Flags are the columns is_active and is_superuser.  Addresses and        *)
(* passwords are in Credentials, keys of checkout counters in              *)
(* CheckoutStore; names and an item's text are left out.                   *)
(***************************************************************************)
CONSTANTS Users, Keys, Items, Requests,
          None   \* an empty column; no key

ASSUME AccountsAssumption ==
  /\ None \notin Users \cup Keys \cup {"user", "admin"}
  /\ Users \cap Keys = {}

VARIABLES user, key, item, \* the tables; an item that is stored is its owner
          req,
          entitled         \* history: see Observe

vars == <<user, key, item, req, entitled>>
-----------------------------------------------------------------------------
Flags == [active : BOOLEAN, super : BOOLEAN]

Idle == [at |-> "idle"]
Request == {Idle}
  \cup [at : {"key"}, key : Keys, owner : Users]
  \cup [at : {"granted"}, key : Keys, owner : Users \cup {None}]
  \cup [at : {"admitted"}, caller : Users, key : Keys \cup {None}, active : BOOLEAN]
  \cup [at : {"catalogue"}, caller : Users \cup {None}, key : Keys \cup {None}]
  \cup [at : {"updating"}, user : Users, seen : Flags, wants : Flags]
  \cup [at : {"deleting"}, user : Users]

\* Rows and requests always have the shape they are declared with.
TypeOK ==
  /\ user \in [Users -> [phase : {"new", "stored", "gone"}, flags : Flags]]
  /\ key \in [Keys -> [phase : {"new", "live", "dead"}, role : {"user", "admin", None},
                       writes : BOOLEAN, owner : Users \cup {None}]]
  /\ item \in [Items -> Users \cup {None}]
  /\ req \in [Requests -> Request]
  /\ entitled \in [Requests -> SUBSET (Users \cup Keys)]

At(p, point) == req[p].at = point
Become(p, r) == req' = [req EXCEPT ![p] = r]
Stored(u) == user[u].phase = "stored"

\* A key of role admin has every scope, one of role user none that writes; one
\* without role has those it was made with.
GrantsWriting(k) == key[k].role = "admin" \/ (key[k].role = None /\ key[k].writes)

\* Accounts that may administer, keys that may write the catalogue.
InGoodStanding ==
  {u \in Users : Stored(u) /\ user[u].flags = [active |-> TRUE, super |-> TRUE]}
    \cup {k \in Keys : key[k].phase = "live" /\ GrantsWriting(k)}

\* What a request presents while it authenticates and until it knows what to do.
Presents(r) ==
  CASE r.at \in {"key", "granted"}        -> {r.key, r.owner} \ {None}
    [] r.at \in {"admitted", "catalogue"} -> {r.key, r.caller} \ {None}
    [] OTHER                              -> {}

\* Of what a request presents, what was in good standing at some moment since.
Observe ==
  entitled' = [p \in Requests |-> (entitled[p] \cup InGoodStanding') \cap Presents(req'[p])]

\* Rows of keys: not used yet, or from before the migration that added roles.
NewKey == [phase |-> "new", role |-> "user", writes |-> FALSE, owner |-> None]
LegacyKeys == [phase : {"live"}, role : {None}, writes : BOOLEAN, owner : {None}]

Init ==
  /\ user = [u \in Users |-> [phase |-> "new", flags |-> [active |-> FALSE, super |-> FALSE]]]
  /\ key \in [Keys -> {NewKey} \cup LegacyKeys]
  /\ item = [i \in Items |-> None]
  /\ req = [p \in Requests |-> Idle]
  /\ entitled = [p \in Requests |-> {}]
-----------------------------------------------------------------------------
\* A statement that writes nothing.
Moves(p, r) ==
  /\ Become(p, r)
  /\ UNCHANGED <<user, key, item>>
  /\ Observe

\* get_current_user of a token, and get_current_active_superuser.
ReadCaller(p, u) ==
  /\ At(p, "idle")
  /\ Stored(u) /\ user[u].flags.active /\ user[u].flags.super
  /\ Moves(p, [at |-> "admitted", caller |-> u, key |-> None, active |-> TRUE])

\* Mutant: a key is read whether or not it has an owner left.
ReadKeyWithoutOwner(p, k) ==
  /\ At(p, "idle")
  /\ key[k].phase = "live"
  /\ Moves(p, [at |-> "key", key |-> k, owner |-> key[k].owner])

\* The hash is found, neither revoked nor expired.  A key with a role needs its
\* owner next, who must not have been removed; one without has its scopes.
ReadKey(p, k) ==
  /\ At(p, "idle")
  /\ key[k].phase = "live"
  /\ \/ /\ key[k].role # None /\ key[k].owner # None
        /\ Moves(p, [at |-> "key", key |-> k, owner |-> key[k].owner])
     \/ /\ key[k].role = None
        /\ Moves(p, [at |-> "granted", key |-> k, owner |-> None])

\* Mutant: the key of a superuser stays an admin key when its owner is demoted.
ReadOwnerActive(p) ==
  /\ At(p, "key")
  /\ LET u == req[p].owner
     IN  /\ Stored(u) /\ user[u].flags.active
         /\ Moves(p, [at |-> "granted", key |-> req[p].key, owner |-> u])

\* authenticate_api_key goes on to grant the scopes of the role.
ReadOwner(p) ==
  /\ At(p, "key")
  /\ LET u == req[p].owner
     IN  /\ Stored(u) /\ user[u].flags.active
         /\ key[req[p].key].role = "admin" => user[u].flags.super
         /\ Moves(p, [at |-> "granted", key |-> req[p].key, owner |-> u])

\* Mutant: a key of role user keeps its owner's privilege.
ReadOwnerUnstripped(p) ==
  /\ At(p, "granted") /\ req[p].owner # None
  /\ LET u == req[p].owner
     IN  /\ Stored(u) /\ user[u].flags.super
         /\ Moves(p, [at |-> "admitted", caller |-> u, key |-> req[p].key,
                      active |-> user[u].flags.active])

\* get_current_user refuses keys without role.  The owner is read again, by then
\* it may be inactive; if it is gone an assertion fails.  A key of role user is
\* stripped of the owner's privilege.
ReadOwnerAgain(p) ==
  /\ At(p, "granted")
  /\ key[req[p].key].role = "admin" /\ req[p].owner # None
  /\ LET u == req[p].owner
     IN  /\ Stored(u) /\ user[u].flags.super
         /\ Moves(p, [at |-> "admitted", caller |-> u, key |-> req[p].key,
                      active |-> user[u].flags.active])

\* A key in its own header needs the scope and nothing else, a bearer has to be
\* a superuser.  What is written then is in Catalog.
require_catalog_access(p) ==
  \/ /\ At(p, "granted") /\ GrantsWriting(req[p].key)
     /\ Moves(p, [at |-> "catalogue", caller |-> req[p].owner, key |-> req[p].key])
  \/ /\ At(p, "admitted")
     /\ Moves(p, [at |-> "catalogue", caller |-> req[p].caller, key |-> req[p].key])

\* A reply, a refusal, a failure, or a route that changes nothing here.
Finish(p) ==
  /\ ~At(p, "idle")
  /\ Moves(p, Idle)
-----------------------------------------------------------------------------
Insert(u, flags) ==
  /\ user[u].phase = "new"
  /\ user' = [user EXCEPT ![u] = [phase |-> "stored", flags |-> flags]]
  /\ UNCHANGED <<key, item>>

\* Anybody signs up as an active user.  The script that runs before the server
\* starts makes a superuser if the configured address is free.
SignUp(u) ==
  /\ Insert(u, [active |-> TRUE, super |-> FALSE])
  /\ UNCHANGED req /\ Observe

init_db(u) ==
  /\ Insert(u, [active |-> TRUE, super |-> TRUE])
  /\ UNCHANGED req /\ Observe

create_user(p, u, flags) ==
  /\ At(p, "admitted")
  /\ Insert(u, flags)
  /\ Become(p, Idle) /\ Observe

\* What the client leaves out is wanted as it was seen.  The caller's own row
\* was seen when it was authenticated, and is not read again.
ReadForUpdate(p, u, wants) ==
  /\ At(p, "admitted")
  /\ LET own == u = req[p].caller
         seen == IF own THEN [active |-> req[p].active, super |-> TRUE] ELSE user[u].flags
     IN  /\ own \/ Stored(u)
         /\ wants # seen
         /\ Moves(p, [at |-> "updating", user |-> u, seen |-> seen, wants |-> wants])

\* The UPDATE names the columns that are to differ from what was seen; it
\* fails if the row is gone.
StoreUser(p) ==
  /\ At(p, "updating") /\ Stored(req[p].user)
  /\ LET r == req[p]  now == user[r.user].flags
     IN  user' = [user EXCEPT ![r.user] = [phase |-> "stored", flags |->
           [active |-> IF r.wants.active # r.seen.active THEN r.wants.active ELSE now.active,
            super |-> IF r.wants.super # r.seen.super THEN r.wants.super ELSE now.super]]]
  /\ Become(p, Idle)
  /\ UNCHANGED <<key, item>> /\ Observe

ReadForDelete(p, u) ==
  /\ At(p, "admitted")
  /\ u # req[p].caller /\ Stored(u)
  /\ Moves(p, [at |-> "deleting", user |-> u])

\* The items go with their owner, also those that came after the DELETE of the
\* items; keys lose it.  A row that is gone by now is only warned about.
delete_user(p) ==
  /\ At(p, "deleting")
  /\ LET u == req[p].user
     IN  /\ user' = [user EXCEPT ![u] = [phase |-> "gone", flags |-> user[u].flags]]
         /\ key' = [k \in Keys |-> IF key[k].owner = u THEN [key[k] EXCEPT !.owner = None]
                                                       ELSE key[k]]
         /\ item' = [i \in Items |-> IF item[i] = u THEN None ELSE item[i]]
  /\ Become(p, Idle) /\ Observe
-----------------------------------------------------------------------------
\* Mutant: no foreign key from an item to its owner.
InsertItemUnchecked(p, i) ==
  /\ At(p, "admitted")
  /\ item[i] = None
  /\ item' = [item EXCEPT ![i] = req[p].caller]
  /\ Become(p, Idle)
  /\ UNCHANGED <<user, key>> /\ Observe

\* The foreign key refuses the rows of a caller who is gone by now.
create_item(p, i) ==
  /\ At(p, "admitted") /\ Stored(req[p].caller)
  /\ item[i] = None
  /\ item' = [item EXCEPT ![i] = req[p].caller]
  /\ Become(p, Idle)
  /\ UNCHANGED <<user, key>> /\ Observe

delete_item(p, i) ==
  /\ At(p, "admitted")
  /\ item[i] # None
  /\ item' = [item EXCEPT ![i] = None]
  /\ Become(p, Idle)
  /\ UNCHANGED <<user, key>> /\ Observe

create_api_key(p, k, role) ==
  /\ At(p, "admitted") /\ Stored(req[p].caller)
  /\ key[k].phase = "new"
  /\ key' = [key EXCEPT ![k] = [phase |-> "live", role |-> role, writes |-> FALSE,
                                    owner |-> req[p].caller]]
  /\ Become(p, Idle)
  /\ UNCHANGED <<user, item>> /\ Observe

revoke_api_key(p, k) ==
  /\ At(p, "admitted")
  /\ key[k].phase = "live"
  /\ key' = [key EXCEPT ![k].phase = "dead"]
  /\ Become(p, Idle)
  /\ UNCHANGED <<user, item>> /\ Observe

\* The date of expiry, if it has one, is reached.
Expire(k) ==
  /\ key[k].phase = "live"
  /\ key' = [key EXCEPT ![k].phase = "dead"]
  /\ UNCHANGED <<user, item, req>> /\ Observe
-----------------------------------------------------------------------------
Authenticate(p) ==
  \/ \E u \in Users : ReadCaller(p, u)
  \/ \E k \in Keys : ReadKey(p, k)
  \/ ReadOwner(p) \/ ReadOwnerAgain(p) \/ require_catalog_access(p)

AdministerUsers(p) ==
  \/ \E u \in Users, f \in Flags : create_user(p, u, f) \/ ReadForUpdate(p, u, f)
  \/ \E u \in Users : ReadForDelete(p, u)
  \/ StoreUser(p) \/ delete_user(p)

AdministerKeysAndItems(p) ==
  \/ \E i \in Items : create_item(p, i) \/ delete_item(p, i)
  \/ \E k \in Keys, role \in {"user", "admin"} : create_api_key(p, k, role)
  \/ \E k \in Keys : revoke_api_key(p, k)

Next ==
  \/ \E p \in Requests :
       Authenticate(p) \/ AdministerUsers(p) \/ AdministerKeysAndItems(p) \/ Finish(p)
  \/ \E u \in Users : SignUp(u) \/ init_db(u)
  \/ \E k \in Keys : Expire(k)

Spec == Init /\ [][Next]_vars
-----------------------------------------------------------------------------
\* Whoever administers accounts, keys and items was an active superuser at some
\* moment since the request began, and the key, if any, was a live one of role
\* admin, whatever happened to them between the statements that read them.  Keys
\* without role never get there (deps.py:34-87, api_keys.py:18-42).
OnlyEntitledAdminister ==
  \A p \in Requests : At(p, "admitted") =>
    /\ {req[p].key, req[p].caller} \ {None} \subseteq entitled[p]
    /\ req[p].key # None => key[req[p].key].role = "admin"

\* Whoever writes the catalogue was an active superuser since the request began,
\* or presents a key that was live and whose owner was one, although the owner is
\* not read again for the catalogue; only with a key from before there were roles,
\* made for writing it and not revoked, no account stands behind the request
\* (deps.py:128-143, api_keys.py:31-41).
OnlyEntitledWriteCatalogue ==
  \A p \in Requests : At(p, "catalogue") =>
    /\ {req[p].key, req[p].caller} \ {None} \subseteq entitled[p]
    /\ req[p].caller = None => req[p].key \in Keys /\ key[req[p].key].role = None

\* No item and no key names an account that is gone, although they are inserted
\* for a caller that was read earlier and may be deleted meanwhile (users.py:243-246).
NothingOutlivesItsOwner ==
  /\ \A i \in Items : item[i] # None => Stored(item[i])
  /\ \A k \in Keys : key[k].owner # None => Stored(key[k].owner)
=============================================================================
