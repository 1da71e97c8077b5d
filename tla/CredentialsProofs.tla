-------------------------- MODULE CredentialsProofs --------------------------
(* Addresses, passwords and logins, for any number of accounts and requests. *)
EXTENDS Credentials, TLAPS

\* What a request carries from one statement to the next.
LEMMA Carried ==
  ASSUME TypeOK, NEW p \in Requests
  PROVE  /\ LoggingIn(p) => req[p].user \in Users /\ req[p].word \in Words
         /\ At(p, "checking") \/ At(p, "storing") =>
              /\ req[p].user \in Users /\ req[p].email \in Emails \cup {Keep}
              /\ req[p].word \in Words \cup {Keep}
         /\ At(p, "inserting") => req[p].email \in Emails /\ req[p].word \in Words
<1>1. req[p] \in Request
  BY DEF TypeOK
<1> QED
  BY <1>1 DEF Request, Idle, At, LoggingIn

\* Every step moves one request or none, and observes.
LEMMA Moving ==
  ASSUME TypeOK, Next
  PROVE  /\ Observe /\ link' \subseteq Emails
         /\ req' = req \/ \E p \in Requests, r \in Request : Become(p, r)
<1> Idle \in Request
  BY DEF Request
<1>1. ASSUME NEW p \in Requests, LogIn(p)
      PROVE  Observe /\ link' = link /\ \E r \in Request : Become(p, r)
  <2>1. ASSUME NEW e \in Emails, NEW w \in Words, ReadForLogin(p, e, w)
        PROVE  Observe /\ link' = link /\ \E r \in Request : Become(p, r)
    BY <2>1 DEF ReadForLogin, Moves, Request
  <2>2. ASSUME StoreUpgrade(p) \/ RefreshUser(p)
        PROVE  Observe /\ link' = link /\ \E r \in Request : Become(p, r)
    BY <2>2, Carried DEF StoreUpgrade, RefreshUser, Moves, Request, LoggingIn
  <2> QED
    BY <1>1, <2>1, <2>2 DEF LogIn
<1>2. ASSUME NEW p \in Requests, Recover(p)
      PROVE  /\ Observe /\ link' \subseteq Emails
             /\ req' = req \/ \E r \in Request : Become(p, r)
  BY <1>2 DEF Recover, recover_password, LinkExpires, reset_password, Moves, Request, TypeOK
<1>3. ASSUME NEW p \in Requests, Change(p)
      PROVE  Observe /\ link' = link /\ \E r \in Request : Become(p, r)
  <2>1. ASSUME NEW u \in Users, NEW old \in Words, NEW new \in Words,
               update_password_me(p, u, old, new)
        PROVE  Observe /\ link' = link /\ \E r \in Request : Become(p, r)
    BY <2>1 DEF update_password_me, Moves, Request
  <2>2. ASSUME NEW u \in Users, NEW e \in Emails \cup {Keep}, NEW w \in Words \cup {Keep},
               ReadForUpdate(p, u, e, w)
        PROVE  Observe /\ link' = link /\ \E r \in Request : Become(p, r)
    BY <2>2 DEF ReadForUpdate, Moves, Request
  <2>3. ASSUME CheckEmail(p)
        PROVE  Observe /\ link' = link /\ \E r \in Request : Become(p, r)
    BY <2>3, Carried DEF CheckEmail, Moves, Request
  <2>4. ASSUME NEW e \in Emails, NEW w \in Words, CheckNewEmail(p, e, w)
        PROVE  Observe /\ link' = link /\ \E r \in Request : Become(p, r)
    BY <2>4 DEF CheckNewEmail, Moves, Request
  <2>5. ASSUME StoreUpdate(p) \/ InsertUser(p)
        PROVE  Observe /\ link' = link /\ \E r \in Request : Become(p, r)
    BY <2>5 DEF StoreUpdate, WriteUser, InsertUser, Insert
  <2> QED
    BY <1>3, <2>1, <2>2, <2>3, <2>4, <2>5 DEF Change
<1>4. ASSUME NEW p \in Requests, Finish(p)
      PROVE  Observe /\ link' = link /\ \E r \in Request : Become(p, r)
  BY <1>4 DEF Finish, Moves
<1>5. ASSUME \/ \E e \in Emails, w \in Words : CreatePrivateUser(e, w)
             \/ \E u \in Users : SetActive(u) \/ delete_user(u)
      PROVE  Observe /\ link' = link /\ req' = req
  BY <1>5 DEF CreatePrivateUser, Insert, SetActive, delete_user
<1> QED
  BY <1>1, <1>2, <1>3, <1>4, <1>5 DEF Next, TypeOK

\* Only these steps write the table.
LEMMA Writers ==
  ASSUME Next
  PROVE  \/ UNCHANGED <<user, intended>>
         \/ \E p \in Requests : StoreUpgrade(p) \/ StoreUpdate(p)
         \/ \E p \in Requests : At(p, "inserting") /\ Insert(req[p].email, req[p].word)
         \/ \E e \in Emails, w \in Words : Insert(e, w)
         \/ \E u \in Users : SetActive(u) \/ delete_user(u)
<1>1. ASSUME NEW p \in Requests, Recover(p) \/ Finish(p)
      PROVE  UNCHANGED <<user, intended>>
  BY <1>1 DEF Recover, recover_password, LinkExpires, reset_password, Finish, Moves
<1>2. ASSUME NEW p \in Requests, LogIn(p), ~StoreUpgrade(p)
      PROVE  UNCHANGED <<user, intended>>
  BY <1>2 DEF LogIn, ReadForLogin, RefreshUser, Moves
<1>3. ASSUME NEW p \in Requests, Change(p), ~StoreUpdate(p), ~InsertUser(p)
      PROVE  UNCHANGED <<user, intended>>
  BY <1>3 DEF Change, update_password_me, ReadForUpdate, CheckEmail, CheckNewEmail, Moves
<1> QED
  BY <1>1, <1>2, <1>3 DEF Next, InsertUser, CreatePrivateUser

\* A row that may replace that of account u: stored with an address that it had or
\* nobody has, and with the hash it had, a password that is set, or an upgrade.
Replaces(u, row, new) ==
  /\ row.phase = "stored" =>
       \/ Stored(u) /\ row.email = user[u].email
       \/ \A v \in Users : Holds(v, row.email) => v = u
  /\ \/ row.hash = user[u].hash /\ new = intended[u] /\ (row.phase = "stored" => Stored(u))
     \/ row.hash.word = new /\ ~row.hash.older
     \/ /\ ~row.hash.older /\ new = intended[u]
        /\ \E p \in Requests : At(p, "upgrading") /\ req[p].user = u

\* Each of them replaces one row.
LEMMA Writing ==
  ASSUME TypeOK, Next
  PROVE  \/ UNCHANGED <<user, intended>>
         \/ \E u \in Users, row \in Row, new \in Words \cup {None} :
              /\ Replaces(u, row, new)
              /\ user' = [user EXCEPT ![u] = row]
              /\ intended' = [intended EXCEPT ![u] = new]
<1> DEFINE Goal == \E u \in Users, row \in Row, new \in Words \cup {None} :
                     /\ Replaces(u, row, new)
                     /\ user' = [user EXCEPT ![u] = row]
                     /\ intended' = [intended EXCEPT ![u] = new]
<1>1. \A u \in Users : intended[u] \in Words \cup {None} /\ intended = [intended EXCEPT ![u] = intended[u]]
  BY DEF TypeOK
<1>2. ASSUME NEW p \in Requests, StoreUpgrade(p)
      PROVE  Goal
  <2>1. PICK u \in Users, w \in Words : req[p].user = u /\ req[p].word = w /\ At(p, "upgrading")
    BY <1>2, Carried DEF StoreUpgrade, LoggingIn
  <2>2. PICK row : row = [user[u] EXCEPT !.hash = [word |-> w, older |-> FALSE]]
    OBVIOUS
  <2>3. user[u] \in Row
    BY DEF TypeOK
  <2>4. /\ row \in Row /\ row.hash = [word |-> w, older |-> FALSE]
        /\ row.email = user[u].email /\ Stored(u)
    BY <1>2, <2>1, <2>2, <2>3 DEF Row, Hash, StoreUpgrade
  <2>5. user' = [user EXCEPT ![u] = row] /\ intended' = intended
    BY <1>2, <2>1, <2>2 DEF StoreUpgrade
  <2>6. Replaces(u, row, intended[u])
    BY <2>1, <2>4 DEF Replaces
  <2>7. intended[u] \in Words \cup {None} /\ intended' = [intended EXCEPT ![u] = intended[u]]
    BY <1>1, <2>5
  <2> QED
    BY <2>4, <2>5, <2>6, <2>7
<1>3. ASSUME NEW p \in Requests, StoreUpdate(p)
      PROVE  Goal
  <2>1. PICK u \in Users, email \in Emails \cup {Keep}, w \in Words \cup {Keep} :
          req[p].user = u /\ req[p].email = email /\ req[p].word = w
    BY <1>3, Carried DEF StoreUpdate
  <2>2. PICK row : row = [phase |-> "stored", active |-> user[u].active,
                          email |-> IF email = Keep THEN user[u].email ELSE email,
                          hash |-> IF w = Keep THEN user[u].hash
                                   ELSE [word |-> w, older |-> FALSE]]
    OBVIOUS
  <2>3. user[u] \in Row
    BY DEF TypeOK
  <2>4. row \in Row
    <3>1. (IF email = Keep THEN user[u].email ELSE email) \in Emails
      BY <2>3 DEF Row
    <3>2. (IF w = Keep THEN user[u].hash ELSE [word |-> w, older |-> FALSE]) \in Hash
      BY <2>3 DEF Row, Hash
    <3> QED
      BY <2>2, <2>3, <3>1, <3>2 DEF Row
  <2>5. /\ user' = [user EXCEPT ![u] = row] /\ Stored(u)
        /\ intended' = IF w = Keep THEN intended ELSE [intended EXCEPT ![u] = w]
        /\ \A v \in Users : Holds(v, email) => v = u
    BY <1>3, <2>1, <2>2 DEF StoreUpdate, WriteUser
  <2>6. row.email = user[u].email \/ row.email = email
    BY <2>2
  <2>7. CASE w = Keep
    <3>1. Replaces(u, row, intended[u])
      BY <2>2, <2>5, <2>6, <2>7 DEF Replaces
    <3> QED
      BY <1>1, <2>4, <2>5, <2>7, <3>1
  <2>8. CASE w # Keep
    <3>1. Replaces(u, row, w)
      BY <2>2, <2>5, <2>6, <2>8 DEF Replaces
    <3> QED
      BY <2>4, <2>5, <2>8, <3>1
  <2> QED
    BY <2>7, <2>8
<1>4. ASSUME NEW e \in Emails, NEW w \in Words, Insert(e, w)
      PROVE  Goal
  <2>1. PICK u \in Users, active \in BOOLEAN :
          /\ user' = [user EXCEPT ![u] = [phase |-> "stored", active |-> active, email |-> e,
                                          hash |-> [word |-> w, older |-> FALSE]]]
          /\ intended' = [intended EXCEPT ![u] = w]
    BY <1>4 DEF Insert
  <2>2. PICK row : row = [phase |-> "stored", active |-> active, email |-> e,
                          hash |-> [word |-> w, older |-> FALSE]]
    OBVIOUS
  <2>3. row \in Row
    BY <2>2 DEF Row, Hash
  <2>4. Replaces(u, row, w)
    BY <1>4, <2>2 DEF Replaces, Insert, Taken
  <2> QED
    BY <2>1, <2>2, <2>3, <2>4
<1>5. ASSUME NEW u \in Users, SetActive(u) \/ delete_user(u)
      PROVE  Goal
  <2>1. user[u] \in Row
    BY DEF TypeOK
  <2>2. PICK row : /\ row \in Row /\ row.hash = user[u].hash /\ row.email = user[u].email
                   /\ user' = [user EXCEPT ![u] = row]
    <3>1. CASE SetActive(u)
      <4>1. user' = [user EXCEPT ![u] = [user[u] EXCEPT !.active = ~user[u].active]]
        BY <3>1 DEF SetActive
      <4> QED
        BY <2>1, <4>1 DEF Row
    <3>2. CASE delete_user(u)
      <4>1. user' = [user EXCEPT ![u] = [user[u] EXCEPT !.phase = "gone"]]
        BY <3>2 DEF delete_user
      <4> QED
        BY <2>1, <4>1 DEF Row
    <3> QED
      BY <1>5, <3>1, <3>2
  <2>3. Stored(u) /\ intended' = intended
    BY <1>5 DEF SetActive, delete_user
  <2>4. Replaces(u, row, intended[u])
    BY <2>2, <2>3 DEF Replaces
  <2>5. intended[u] \in Words \cup {None} /\ intended' = [intended EXCEPT ![u] = intended[u]]
    BY <1>1, <2>3
  <2> QED
    BY <2>2, <2>4, <2>5
<1>6. ASSUME NEW p \in Requests, At(p, "inserting"), Insert(req[p].email, req[p].word)
      PROVE  Goal
  BY <1>4, <1>6, Carried
<1> QED
  BY <1>2, <1>3, <1>4, <1>5, <1>6, Writers

\* The types are inductive.
LEMMA TypeStep ==
  ASSUME TypeOK, [Next]_vars
  PROVE  TypeOK'
<1>1. CASE UNCHANGED vars
  BY <1>1 DEF vars, TypeOK
<1>2. CASE Next
  <2>1. user' \in [Users -> Row] /\ intended' \in [Users -> Words \cup {None}]
    BY <1>2, Writing DEF TypeOK
  <2>2. link' \subseteq Emails /\ req' \in [Requests -> Request]
    BY <1>2, Moving DEF TypeOK, Become
  <2>3. witnessed' \in [Requests -> SUBSET {"active", "password"}]
    <3>1. \A p \in Requests : Facts(p)' \subseteq {"active", "password"}
      BY DEF Facts
    <3> QED
      BY <1>2, <3>1, Moving DEF Observe, TypeOK
  <2> QED
    BY <2>1, <2>2, <2>3 DEF TypeOK
<1> QED
  BY <1>1, <1>2

\* Rows and requests keep their shapes.
THEOREM TypeCorrect == Spec => []TypeOK
<1>1. Init => TypeOK
  BY DEF Init, TypeOK, Request, Row, Hash
<1> QED
  BY <1>1, TypeStep, PTL DEF Spec
-----------------------------------------------------------------------------
LEMMA UniqueStep ==
  ASSUME TypeOK, EmailsUnique, [Next]_vars
  PROVE  EmailsUnique'
<1>1. CASE UNCHANGED vars
  BY <1>1 DEF vars, EmailsUnique, Stored
<1>2. CASE Next /\ ~UNCHANGED <<user, intended>>
  <2>1. PICK u \in Users, row \in Row, new \in Words \cup {None} :
          Replaces(u, row, new) /\ user' = [user EXCEPT ![u] = row]
    BY <1>2, Writing
  <2>2. row.phase = "stored" => \A v \in Users : Holds(v, row.email) => v = u
    BY <2>1 DEF Replaces, EmailsUnique, Holds
  <2>3. \A v \in Users : user'[v] = IF v = u THEN row ELSE user[v]
    BY <2>1 DEF TypeOK
  <2> QED
    BY <2>2, <2>3 DEF EmailsUnique, Stored, Holds
<1>3. CASE UNCHANGED <<user, intended>>
  BY <1>3 DEF EmailsUnique, Stored
<1> QED
  BY <1>1, <1>2, <1>3

\* The index keeps addresses unique from every state of the table that obeys it.
THEOREM OneAccountPerAddress == Spec => []EmailsUnique
<1>1. Init => EmailsUnique
  <2> SUFFICES ASSUME Init, NEW u \in Users, NEW v \in Users, Stored(u), Stored(v),
                      user[u].email = user[v].email
               PROVE  u = v
    BY DEF EmailsUnique
  <2>1. u \in Imported /\ v \in Imported
    BY DEF Init, Stored
  <2> QED
    BY <2>1 DEF Init
<1> QED
  BY <1>1, UniqueStep, TypeCorrect, PTL DEF Spec
-----------------------------------------------------------------------------
\* Every other statement leaves a request that is no login.
LEMMA NoLogin ==
  ASSUME TypeOK, Next, NEW p \in Requests, req'[p] # req[p], ~LogIn(p)
  PROVE  ~LoggingIn(p)'
<1>1. ASSUME NEW q \in Requests, NEW r, Become(q, r)
      PROVE  q = p /\ req'[p] = r
  BY <1>1 DEF Become, TypeOK
<1>2. ASSUME NEW q \in Requests
      PROVE  ~LogIn(q)
  <2>1. ASSUME LogIn(q)
        PROVE  \E r : Become(q, r)
    <3>1. ASSUME NEW e \in Emails, NEW w \in Words, ReadForLogin(q, e, w)
          PROVE  \E r : Become(q, r)
      BY <3>1 DEF ReadForLogin, Moves
    <3>2. StoreUpgrade(q) \/ RefreshUser(q) => \E r : Become(q, r)
      BY DEF StoreUpgrade, RefreshUser, Moves
    <3> QED
      BY <2>1, <3>1, <3>2 DEF LogIn
  <2> QED
    BY <1>1, <2>1
<1>3. ASSUME NEW q \in Requests, NEW r, Become(q, r),
             r.at \in {"idle", "checking", "storing", "inserting"}
      PROVE  ~LoggingIn(p)'
  BY <1>1, <1>3 DEF LoggingIn, At
<1>4. ASSUME NEW q \in Requests, Recover(q)
      PROVE  ~LoggingIn(p)'
  <2>1. ASSUME NEW e \in Emails, NEW w \in Words, reset_password(q, e, w)
        PROVE  ~LoggingIn(p)'
    <3>1. PICK u \in Users : Become(q, [at |-> "storing", user |-> u, email |-> Keep,
                                        word |-> w])
      BY <2>1 DEF reset_password, Moves
    <3> QED
      BY <1>3, <3>1
  <2> QED
    BY <1>4, <2>1 DEF Recover, recover_password, LinkExpires
<1>5. ASSUME NEW q \in Requests, Change(q)
      PROVE  ~LoggingIn(p)'
  <2>1. ASSUME NEW u \in Users, NEW old \in Words, NEW new \in Words,
               update_password_me(q, u, old, new)
        PROVE  ~LoggingIn(p)'
    BY <1>3, <2>1 DEF update_password_me, Moves
  <2>2. ASSUME NEW u \in Users, NEW e \in Emails \cup {Keep}, NEW w \in Words \cup {Keep},
               ReadForUpdate(q, u, e, w)
        PROVE  ~LoggingIn(p)'
    BY <1>3, <2>2 DEF ReadForUpdate, Moves
  <2>3. ASSUME NEW e \in Emails, NEW w \in Words, CheckNewEmail(q, e, w)
        PROVE  ~LoggingIn(p)'
    BY <1>3, <2>3 DEF CheckNewEmail, Moves
  <2>4. ASSUME CheckEmail(q) \/ StoreUpdate(q) \/ InsertUser(q)
        PROVE  ~LoggingIn(p)'
    BY <1>3, <2>4 DEF CheckEmail, StoreUpdate, WriteUser, InsertUser, Moves, Idle
  <2> QED
    BY <1>5, <2>1, <2>2, <2>3, <2>4 DEF Change
<1>6. ASSUME NEW q \in Requests, Finish(q)
      PROVE  ~LoggingIn(p)'
  BY <1>3, <1>6 DEF Finish, Moves, Idle
<1>7. /\ ~\E e \in Emails, w \in Words : CreatePrivateUser(e, w)
      /\ ~\E u \in Users : SetActive(u) \/ delete_user(u)
  BY DEF CreatePrivateUser, SetActive, delete_user
<1> QED
  BY <1>2, <1>4, <1>5, <1>6, <1>7 DEF Next

\* What makes PasswordsAreIntended inductive: older hashes, and logins that replace
\* them, are found at imported accounts only.
OlderIsImported ==
  /\ \A u \in Users : user[u].hash.older => u \in Imported
  /\ \A p \in Requests : At(p, "upgrading") => req[p].user \in Imported

LEMMA PasswordStep ==
  ASSUME TypeOK, OlderIsImported, PasswordsAreIntended, [Next]_vars
  PROVE  OlderIsImported' /\ PasswordsAreIntended'
<1>1. CASE UNCHANGED vars
  BY <1>1 DEF vars, OlderIsImported, PasswordsAreIntended, Stored, At
<1>2. CASE Next
  <2>1. /\ \A u \in Users : user'[u].hash.older => u \in Imported
        /\ PasswordsAreIntended'
    <3>1. CASE UNCHANGED <<user, intended>>
      BY <3>1 DEF OlderIsImported, PasswordsAreIntended, Stored
    <3>2. CASE ~UNCHANGED <<user, intended>>
      <4>1. PICK u \in Users, row \in Row, new \in Words \cup {None} :
              /\ Replaces(u, row, new) /\ user' = [user EXCEPT ![u] = row]
              /\ intended' = [intended EXCEPT ![u] = new]
        BY <1>2, <3>2, Writing
      <4>2. \A v \in Users : /\ user'[v] = IF v = u THEN row ELSE user[v]
                             /\ intended'[v] = IF v = u THEN new ELSE intended[v]
        BY <4>1 DEF TypeOK
      <4>3. /\ row.hash.older => u \in Imported
            /\ row.phase = "stored" => row.hash.word = new \/ (u \in Imported /\ ~row.hash.older)
        BY <4>1 DEF Replaces, OlderIsImported, PasswordsAreIntended
      <4> QED
        BY <4>2, <4>3 DEF OlderIsImported, PasswordsAreIntended, Stored
    <3> QED
      BY <3>1, <3>2
  <2>2. ASSUME NEW p \in Requests, At(p, "upgrading")'
        PROVE  req'[p].user \in Imported
    <3>1. CASE req'[p] = req[p]
      BY <2>2, <3>1 DEF OlderIsImported, At
    <3>2. CASE req'[p] # req[p]
      <4>1. LogIn(p)
        BY <1>2, <2>2, <3>2, NoLogin DEF LoggingIn
      <4>2. \A r : Become(p, r) => r.at = "upgrading" /\ req'[p] = r
        BY <2>2 DEF Become, TypeOK, At
      <4>3. ~StoreUpgrade(p) /\ ~RefreshUser(p)
        BY <4>2 DEF StoreUpgrade, RefreshUser, Moves
      <4>4. PICK e \in Emails, w \in Words : ReadForLogin(p, e, w)
        BY <4>1, <4>3 DEF LogIn
      <4>5. PICK u \in Users :
              \/ user[u].hash.older /\ Moves(p, [at |-> "upgrading", user |-> u, word |-> w])
              \/ Moves(p, [at |-> "issued", user |-> u, word |-> w])
        BY <4>4 DEF ReadForLogin
      <4>6. user[u].hash.older /\ Become(p, [at |-> "upgrading", user |-> u, word |-> w])
        BY <4>2, <4>5 DEF Moves
      <4> QED
        BY <4>2, <4>6 DEF OlderIsImported
    <3> QED
      BY <3>1, <3>2
  <2> QED
    BY <2>1, <2>2 DEF OlderIsImported
<1> QED
  BY <1>1, <1>2

\* Accounts of this release always have the password that was last set.
THEOREM PasswordsStay == Spec => []PasswordsAreIntended
<1>1. Init => OlderIsImported /\ PasswordsAreIntended
  BY DEF Init, OlderIsImported, PasswordsAreIntended, At, Idle
<1> QED
  BY <1>1, PasswordStep, TypeCorrect, PTL DEF Spec
-----------------------------------------------------------------------------
\* What makes LoginsAreGenuine inductive: a login that writes has had the right
\* password.
PasswordWasGiven(p) ==
  At(p, "upgrading") \/ At(p, "refreshing") => "password" \in witnessed[p]

TokenIsEarned(p) == At(p, "issued") => witnessed[p] = {"active", "password"}

\* A login that a step does not move forgets nothing.
LEMMA Unmoved ==
  ASSUME TypeOK, Next, NEW p \in Requests, req'[p] = req[p],
         PasswordWasGiven(p), TokenIsEarned(p)
  PROVE  PasswordWasGiven(p)' /\ TokenIsEarned(p)'
<1>1. LoggingIn(p) => witnessed'[p] = witnessed[p] \cup Facts(p)'
  BY Moving DEF Observe, LoggingIn, At
<1>2. Facts(p)' \subseteq {"active", "password"}
  BY DEF Facts
<1> QED
  BY <1>1, <1>2 DEF PasswordWasGiven, TokenIsEarned, LoggingIn, At

\* A login's own statements see what they test.
LEMMA LoginStep ==
  ASSUME TypeOK, Next, NEW p \in Requests, LogIn(p), PasswordWasGiven(p), TokenIsEarned(p)
  PROVE  PasswordWasGiven(p)' /\ TokenIsEarned(p)'
<1>1. /\ LoggingIn(p)' => witnessed'[p] = witnessed[p] \cup Facts(p)'
      /\ Facts(p)' \subseteq {"active", "password"} /\ witnessed[p] \subseteq {"active", "password"}
  BY Moving DEF Observe, Facts, TypeOK
<1>2. ASSUME NEW e \in Emails, NEW w \in Words, ReadForLogin(p, e, w)
      PROVE  PasswordWasGiven(p)' /\ TokenIsEarned(p)'
  <2>1. PICK u \in Users :
          /\ Stored(u) /\ user[u].hash.word = w /\ user' = user
          /\ \/ req' = [req EXCEPT ![p] = [at |-> "upgrading", user |-> u, word |-> w]]
             \/ /\ user[u].active
                /\ req' = [req EXCEPT ![p] = [at |-> "issued", user |-> u, word |-> w]]
    BY <1>2 DEF ReadForLogin, Holds, Moves, Become
  <2>2. req'[p].user = u /\ req'[p].word = w /\ req'[p].at \in {"upgrading", "issued"}
    BY <2>1 DEF TypeOK
  <2>3. "password" \in Facts(p)' /\ (At(p, "issued")' => "active" \in Facts(p)')
    BY <2>1, <2>2 DEF Facts, LoggingIn, At, Stored, TypeOK
  <2> QED
    BY <1>1, <2>2, <2>3 DEF PasswordWasGiven, TokenIsEarned, LoggingIn, At
<1>3. CASE StoreUpgrade(p)
  <2>1. req'[p].at = "refreshing" /\ At(p, "upgrading")
    BY <1>3 DEF StoreUpgrade, Become, TypeOK
  <2> QED
    BY <1>1, <2>1 DEF PasswordWasGiven, TokenIsEarned, LoggingIn, At
<1>4. CASE RefreshUser(p)
  <2>1. req'[p] = [at |-> "issued", user |-> req[p].user, word |-> req[p].word] /\ user' = user
    BY <1>4 DEF RefreshUser, Moves, Become, TypeOK
  <2>2. At(p, "refreshing") /\ Stored(req[p].user) /\ user[req[p].user].active
    BY <1>4 DEF RefreshUser
  <2>3. "active" \in Facts(p)'
    BY <2>1, <2>2 DEF Facts, LoggingIn, At, Stored
  <2> QED
    BY <1>1, <2>1, <2>2, <2>3 DEF PasswordWasGiven, TokenIsEarned, LoggingIn, At
<1> QED
  BY <1>2, <1>3, <1>4 DEF LogIn

\* Tokens are issued to those who proved themselves during the login.
THEOREM TokensAreEarned == Spec => []LoginsAreGenuine
<1> DEFINE Inv == \A p \in Requests : PasswordWasGiven(p) /\ TokenIsEarned(p)
<1>1. Init => Inv
  BY DEF Init, PasswordWasGiven, TokenIsEarned, At, Idle
<1>2. ASSUME TypeOK, Inv, [Next]_vars
      PROVE  Inv'
  <2> SUFFICES ASSUME NEW p \in Requests
               PROVE  PasswordWasGiven(p)' /\ TokenIsEarned(p)'
    OBVIOUS
  <2>1. CASE UNCHANGED vars
    BY <1>2, <2>1 DEF vars, PasswordWasGiven, TokenIsEarned, At
  <2>2. CASE Next /\ req'[p] = req[p]
    BY <1>2, <2>2, Unmoved
  <2>3. CASE Next /\ LogIn(p)
    BY <1>2, <2>3, LoginStep
  <2>4. CASE Next /\ req'[p] # req[p] /\ ~LogIn(p)
    BY <1>2, <2>4, NoLogin DEF PasswordWasGiven, TokenIsEarned, LoggingIn, At
  <2> QED
    BY <1>2, <2>1, <2>2, <2>3, <2>4
<1>3. Inv => LoginsAreGenuine
  BY DEF TokenIsEarned, LoginsAreGenuine
<1> QED
  BY <1>1, <1>2, <1>3, TypeCorrect, PTL DEF Spec
=============================================================================
