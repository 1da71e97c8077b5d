----------------------------- MODULE Credentials -----------------------------
(***************************************************************************)
(* Addresses and passwords: login, recovery by e-mail, changes by the      *)
(* owner or an administrator, and new accounts.  Requests look an address  *)
(* up and write in a later statement; a login may write too, when it finds *)
(* a hash of the older kind (bcrypt) and stores the password anew.         *)
(*                                                                         *)
(* A hash is the password it was made from and its kind; None is the hash  *)
(* "!" that no password opens.  Who may administer is in Accounts.         *)
(***************************************************************************)
CONSTANTS Users, Emails, Words, Requests,
          Imported, \* accounts from before: only they have hashes of the older kind
          None,     \* no password opens it
          Keep      \* a column that an UPDATE leaves out

ASSUME CredentialsAssumption ==
  /\ Imported \subseteq Users
  /\ None \notin Words /\ Keep \notin Words \cup Emails

VARIABLES user, link, \* the table, and the addresses a valid recovery link was sent to
          req,
          intended,   \* history: the password that was last set for an account
          witnessed   \* history: see Observe

vars == <<user, link, req, intended, witnessed>>
-----------------------------------------------------------------------------
Hash == [word : Words \cup {None}, older : BOOLEAN]
Row == [phase : {"new", "stored", "gone"}, email : Emails, active : BOOLEAN, hash : Hash]

Idle == [at |-> "idle"]
Request == {Idle}
  \cup [at : {"upgrading", "refreshing", "issued"}, user : Users, word : Words]
  \cup [at : {"checking", "storing"}, user : Users, email : Emails \cup {Keep},
        word : Words \cup {Keep}]
  \cup [at : {"inserting"}, email : Emails, word : Words]

\* Rows and requests always have the shape they are declared with.
TypeOK ==
  /\ user \in [Users -> Row]
  /\ link \subseteq Emails
  /\ req \in [Requests -> Request]
  /\ intended \in [Users -> Words \cup {None}]
  /\ witnessed \in [Requests -> SUBSET {"active", "password"}]

At(p, point) == req[p].at = point
Become(p, r) == req' = [req EXCEPT ![p] = r]
Stored(u) == user[u].phase = "stored"
Holds(u, e) == Stored(u) /\ user[u].email = e
Taken(e) == \E u \in Users : Holds(u, e)
LoggingIn(p) == At(p, "upgrading") \/ At(p, "refreshing") \/ At(p, "issued")

\* What is true of the account that a login is for.
Facts(p) ==
  {fact \in {"active", "password"} :
     /\ LoggingIn(p) /\ Stored(req[p].user)
     /\ fact = "active" => user[req[p].user].active
     /\ fact = "password" => user[req[p].user].hash.word = req[p].word}

\* What has been true of it at some moment since the login began.
Observe ==
  witnessed' = [p \in Requests |-> IF LoggingIn(p)' THEN witnessed[p] \cup Facts(p)' ELSE {}]

Init ==
  /\ user \in [Users -> Row]
  /\ \A u \in Users \ Imported :
       user[u].phase = "new" /\ user[u].hash = [word |-> None, older |-> FALSE]
  /\ \A u \in Imported : Stored(u)
  /\ \A u, v \in Imported : user[u].email = user[v].email => u = v
  /\ link = {}
  /\ req = [p \in Requests |-> Idle]
  /\ intended = [u \in Users |-> user[u].hash.word]
  /\ witnessed = [p \in Requests |-> {}]
-----------------------------------------------------------------------------
\* A statement that writes nothing.
Moves(p, r) ==
  /\ Become(p, r)
  /\ UNCHANGED <<user, link, intended>>
  /\ Observe

\* Mutant: every login stores the password anew.
LoginStoresAnew(p, e, w) ==
  /\ At(p, "idle")
  /\ \E u \in Users :
       /\ Holds(u, e) /\ user[u].hash.word = w
       /\ Moves(p, [at |-> "upgrading", user |-> u, word |-> w])

\* crud.authenticate up to its write.  Without one, is_active is tested as read.
ReadForLogin(p, e, w) ==
  /\ At(p, "idle")
  /\ \E u \in Users :
       /\ Holds(u, e) /\ user[u].hash.word = w
       /\ \/ user[u].hash.older /\ Moves(p, [at |-> "upgrading", user |-> u, word |-> w])
          \/ /\ ~user[u].hash.older /\ user[u].active
             /\ Moves(p, [at |-> "issued", user |-> u, word |-> w])

\* Whatever hash the row has by now is overwritten; the UPDATE fails if it is gone.
StoreUpgrade(p) ==
  /\ At(p, "upgrading") /\ Stored(req[p].user)
  /\ user' = [user EXCEPT ![req[p].user].hash = [word |-> req[p].word, older |-> FALSE]]
  /\ Become(p, [at |-> "refreshing", user |-> req[p].user, word |-> req[p].word])
  /\ UNCHANGED <<link, intended>> /\ Observe

\* Mutant: the upgrade makes the login succeed.
RefreshUntested(p) ==
  /\ At(p, "refreshing") /\ Stored(req[p].user)
  /\ Moves(p, [at |-> "issued", user |-> req[p].user, word |-> req[p].word])

RefreshUser(p) ==
  /\ At(p, "refreshing") /\ Stored(req[p].user) /\ user[req[p].user].active
  /\ Moves(p, [at |-> "issued", user |-> req[p].user, word |-> req[p].word])

Finish(p) ==
  /\ ~At(p, "idle")
  /\ Moves(p, Idle)
-----------------------------------------------------------------------------
\* The link names the address, not the account.  It lasts for some hours and
\* may be followed more than once.
recover_password(e) ==
  /\ Taken(e)
  /\ link' = link \cup {e}
  /\ UNCHANGED <<user, req, intended>> /\ Observe

LinkExpires(e) ==
  /\ e \in link
  /\ link' = link \ {e}
  /\ UNCHANGED <<user, req, intended>> /\ Observe

\* Whoever has the address by now.
reset_password(p, e, w) ==
  /\ At(p, "idle") /\ e \in link
  /\ \E u \in Users :
       /\ Holds(u, e) /\ user[u].active
       /\ Moves(p, [at |-> "storing", user |-> u, email |-> Keep, word |-> w])

\* The row as it was read when the owner was authenticated.
update_password_me(p, u, old, new) ==
  /\ At(p, "idle") /\ Stored(u)
  /\ user[u].hash.word = old /\ new # old
  /\ Moves(p, [at |-> "storing", user |-> u, email |-> Keep, word |-> new])

\* update_user, and update_user_me without a password.  An address that is sent
\* is looked up first; one that is sent unchanged is not written.
ReadForUpdate(p, u, e, w) ==
  /\ At(p, "idle") /\ Stored(u)
  /\ e # user[u].email /\ (e # Keep \/ w # Keep)
  /\ Moves(p, [at |-> IF e = Keep THEN "storing" ELSE "checking", user |-> u,
               email |-> e, word |-> w])

CheckEmail(p) ==
  /\ At(p, "checking")
  /\ \A u \in Users : Holds(u, req[p].email) => u = req[p].user
  /\ Moves(p, [at |-> "storing", user |-> req[p].user, email |-> req[p].email,
               word |-> req[p].word])

\* Mutant: what the client leaves out is written too.
WriteUnset(p) ==
  /\ At(p, "storing") /\ Stored(req[p].user)
  /\ LET u == req[p].user
     IN  /\ user' = [user EXCEPT ![u] =
              [phase |-> "stored", active |-> user[u].active, email |-> req[p].email,
               hash |-> [word |-> req[p].word, older |-> FALSE]]]
         /\ intended' = [intended EXCEPT ![u] = req[p].word]
  /\ Become(p, Idle)
  /\ UNCHANGED link /\ Observe

\* The UPDATE, whatever it finds.  Alone it is a mutant of StoreUpdate, without the
\* unique index.
WriteUser(p) ==
  /\ At(p, "storing") /\ Stored(req[p].user)
  /\ LET u == req[p].user  row == user[u]
     IN  /\ user' = [user EXCEPT ![u] =
              [phase |-> "stored", active |-> row.active,
               email |-> IF req[p].email = Keep THEN row.email ELSE req[p].email,
               hash |-> IF req[p].word = Keep THEN row.hash
                        ELSE [word |-> req[p].word, older |-> FALSE]]]
         /\ intended' = IF req[p].word = Keep THEN intended
                        ELSE [intended EXCEPT ![u] = req[p].word]
  /\ Become(p, Idle)
  /\ UNCHANGED link /\ Observe

\* The index has the last word on the address.
StoreUpdate(p) ==
  /\ At(p, "storing")
  /\ \A u \in Users : Holds(u, req[p].email) => u = req[p].user
  /\ WriteUser(p)
-----------------------------------------------------------------------------
\* The index refuses an address that is taken by now.
Insert(e, w) ==
  /\ ~Taken(e)
  /\ \E u \in Users, active \in BOOLEAN :
       /\ user[u].phase = "new"
       /\ user' = [user EXCEPT ![u] = [phase |-> "stored", active |-> active, email |-> e,
                                       hash |-> [word |-> w, older |-> FALSE]]]
       /\ intended' = [intended EXCEPT ![u] = w]
  /\ UNCHANGED link

\* create_user, register_user and init_db look the address up and insert later.
CheckNewEmail(p, e, w) ==
  /\ At(p, "idle") /\ ~Taken(e)
  /\ Moves(p, [at |-> "inserting", email |-> e, word |-> w])

InsertUser(p) ==
  /\ At(p, "inserting")
  /\ Insert(req[p].email, req[p].word)
  /\ Become(p, Idle) /\ Observe

\* The route that is only there in local development does not look.
CreatePrivateUser(e, w) ==
  /\ Insert(e, w)
  /\ UNCHANGED req /\ Observe

\* What Accounts commits.
SetActive(u) ==
  /\ Stored(u)
  /\ user' = [user EXCEPT ![u].active = ~user[u].active]
  /\ UNCHANGED <<link, req, intended>> /\ Observe

delete_user(u) ==
  /\ Stored(u)
  /\ user' = [user EXCEPT ![u].phase = "gone"]
  /\ UNCHANGED <<link, req, intended>> /\ Observe
-----------------------------------------------------------------------------
LogIn(p) ==
  \/ \E e \in Emails, w \in Words : ReadForLogin(p, e, w)
  \/ StoreUpgrade(p) \/ RefreshUser(p)

Recover(p) == \E e \in Emails :
  recover_password(e) \/ LinkExpires(e) \/ \E w \in Words : reset_password(p, e, w)

Change(p) ==
  \/ \E u \in Users, old, new \in Words : update_password_me(p, u, old, new)
  \/ \E u \in Users, e \in Emails \cup {Keep}, w \in Words \cup {Keep} : ReadForUpdate(p, u, e, w)
  \/ CheckEmail(p) \/ StoreUpdate(p)
  \/ \E e \in Emails, w \in Words : CheckNewEmail(p, e, w)
  \/ InsertUser(p)

Next ==
  \/ \E p \in Requests : LogIn(p) \/ Recover(p) \/ Change(p) \/ Finish(p)
  \/ \E e \in Emails, w \in Words : CreatePrivateUser(e, w)
  \/ \E u \in Users : SetActive(u) \/ delete_user(u)

Spec == Init /\ [][Next]_vars
-----------------------------------------------------------------------------
\* No two accounts share an address, however lookups and writes interleave
\* (models.py:21, users.py:60-67 and 92-101, private.py:29-36).
EmailsUnique ==
  \A u, v \in Users : Stored(u) /\ Stored(v) /\ user[u].email = user[v].email => u = v

\* An account has the password that was last set for it.  Only of an account from
\* before, once its hash was replaced, an upgrade that a login began earlier may
\* have brought an old password back (crud.py:82-88).
PasswordsAreIntended ==
  \A u \in Users : Stored(u) =>
    user[u].hash.word = intended[u] \/ (u \in Imported /\ ~user[u].hash.older)

\* A token is issued to who was active, and gave the password the account had, at
\* some moment since the login began; the upgrade of a hash replaces neither
\* test (login.py:31-37, crud.py:74-90).
LoginsAreGenuine ==
  \A p \in Requests : At(p, "issued") => witnessed[p] = {"active", "password"}
=============================================================================
