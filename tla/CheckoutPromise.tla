-------------------------- MODULE CheckoutPromise --------------------------
(***************************************************************************)
(* What the checkout API promises about the life of counters, sessions and *)
(* keys, one operation at a time: no requests, no statements, no races.    *)
(* CheckoutStore implements it; the contents of carts, settings and camera *)
(* inventories are not part of the promise.                                *)
(***************************************************************************)
CONSTANTS Counters, Sessions, Keys, NoCounter

VARIABLES
  counters,  \* [Counters -> {"none", "live", "gone"}]
  sessions,  \* [Sessions -> [phase, counter]]
  keys       \* [Keys -> [phase, counter]]

promised == <<counters, sessions, keys>>

OpenOf(c) ==
  {s \in Sessions : sessions[s] = [phase |-> "open", counter |-> c]}
UsableKeys(c) ==
  {k \in Keys : keys[k] = [phase |-> "active", counter |-> c]}
Belongs(row, c) == row.counter = c /\ row.phase # "none"

Init ==
  /\ counters = [c \in Counters |-> "none"]
  /\ sessions = [s \in Sessions |-> [phase |-> "none", counter |-> NoCounter]]
  /\ keys = [k \in Keys |-> [phase |-> "none", counter |-> NoCounter]]

\* A counter appears together with the key its till will use.
Establish(c, k) ==
  /\ counters[c] = "none" /\ keys[k].phase = "none"
  /\ counters' = [counters EXCEPT ![c] = "live"]
  /\ keys' = [keys EXCEPT ![k] = [phase |-> "active", counter |-> c]]
  /\ UNCHANGED sessions

\* The usable key of a counter is replaced in one step.
Rotate(c, k) ==
  /\ counters[c] = "live" /\ keys[k].phase = "none"
  /\ keys' = [x \in Keys |->
       IF x = k THEN [phase |-> "active", counter |-> c]
       ELSE IF x \in UsableKeys(c) THEN [keys[x] EXCEPT !.phase = "revoked"]
       ELSE keys[x]]
  /\ UNCHANGED <<counters, sessions>>

\* A session is opened only for a live counter that has none open.
OpenSession(c, s) ==
  /\ counters[c] = "live" /\ OpenOf(c) = {}
  /\ sessions[s].phase = "none"
  /\ sessions' = [sessions EXCEPT ![s] = [phase |-> "open", counter |-> c]]
  /\ UNCHANGED <<counters, keys>>

\* Payment or cancellation, once.
CloseOpen(s) ==
  /\ sessions[s].phase = "open"
  /\ sessions' = [sessions EXCEPT ![s].phase = "closed"]
  /\ UNCHANGED <<counters, keys>>

\* A counter leaves with everything that belongs to it.
Dissolve(c) ==
  /\ counters[c] = "live"
  /\ counters' = [counters EXCEPT ![c] = "gone"]
  /\ sessions' = [s \in Sessions |->
       IF Belongs(sessions[s], c) THEN [sessions[s] EXCEPT !.phase = "gone"]
       ELSE sessions[s]]
  /\ keys' = [k \in Keys |->
       IF Belongs(keys[k], c) THEN [keys[k] EXCEPT !.phase = "gone"]
       ELSE keys[k]]

Next ==
  \/ \E c \in Counters, k \in Keys : Establish(c, k) \/ Rotate(c, k)
  \/ \E c \in Counters, s \in Sessions : OpenSession(c, s)
  \/ \E s \in Sessions : CloseOpen(s)
  \/ \E c \in Counters : Dissolve(c)

Spec == Init /\ [][Next]_promised
=============================================================================
