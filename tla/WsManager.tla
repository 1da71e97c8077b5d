----------------------------- MODULE WsManager -----------------------------
(***************************************************************************)
(* CheckoutWsManager: which sockets watch which checkout session.  Every   *)
(* worker process has a manager of its own; nothing connects them.         *)
(*                                                                         *)
(* The bodies under the manager's lock contain no await, so on an event    *)
(* loop each is one step and the lock is never waited for.  Sending to a   *)
(* socket and closing it do wait: broadcast and disconnect_clients copy    *)
(* the room first and then serve the copy one socket at a time.            *)
(***************************************************************************)
CONSTANTS Workers, Sessions,
          Tills, Admins  \* one WebSocket connection each, never used twice

VARIABLES
  clients, admins,  \* [worker -> [session -> sockets]]
  link,             \* "up" while both ends hold the connection
  seen              \* the last session_state a socket received

rooms == <<clients, admins>>
sockets == <<link, seen>>

Sockets == Tills \cup Admins
News == [closed : BOOLEAN, takeover : BOOLEAN]
NoNews == [closed |-> FALSE, takeover |-> FALSE]

RoomsOK ==
  /\ clients \in [Workers -> [Sessions -> SUBSET Tills]]
  /\ admins \in [Workers -> [Sessions -> SUBSET Admins]]
  /\ link \in [Sockets -> {"up", "down"}]
  /\ seen \in [Sockets -> News]

NobodyWatches ==
  /\ clients = [w \in Workers |-> [s \in Sessions |-> {}]]
  /\ admins = [w \in Workers |-> [s \in Sessions |-> {}]]
  /\ link = [k \in Sockets |-> "down"]
  /\ seen = [k \in Sockets |-> NoNews]

register_client(w, s, t) == clients' = [clients EXCEPT ![w][s] = @ \cup {t}]
unregister_client(w, s, k) == clients' = [clients EXCEPT ![w][s] = @ \ {k}]
register_admin(w, s, a) == admins' = [admins EXCEPT ![w][s] = @ \cup {a}]
unregister_admin(w, s, k) == admins' = [admins EXCEPT ![w][s] = @ \ {k}]
is_admin_present(w, s) == admins[w][s] # {}

\* Whom a broadcast copied now is for; clients are served before admins.
Audience(w, s, to_clients) ==
  admins[w][s] \cup IF to_clients THEN clients[w][s] ELSE {}
FirstOf(targets) ==
  IF targets \cap Tills # {} THEN targets \cap Tills ELSE targets

\* One socket of a broadcast: a failed send takes it out of the room.
SendOrWait(w, s, k, news) ==                                       \* mutant
  /\ link[k] = "up"
  /\ seen' = [seen EXCEPT ![k] = news]
  /\ UNCHANGED <<rooms, link>>

Send(w, s, k, news) ==
  \/ /\ link[k] = "up"
     /\ seen' = [seen EXCEPT ![k] = news]
     /\ UNCHANGED <<rooms, link>>
  \/ /\ link[k] = "down"
     /\ unregister_client(w, s, k)
     /\ unregister_admin(w, s, k)
     /\ UNCHANGED sockets

\* One socket of disconnect_clients.  The await between closing it and taking
\* it out of the room is not modelled: only an unregister can come in between.
Drop(w, s, k) ==
  /\ link' = [link EXCEPT ![k] = "down"]
  /\ unregister_client(w, s, k)
  /\ UNCHANGED <<admins, seen>>
=============================================================================
