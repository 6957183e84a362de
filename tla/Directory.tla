------------------------------ MODULE Directory ------------------------------
(***************************************************************************)
(* What the coordination server promises, without its tasks, locks, stages *)
(* of a connection, timestamps and sweeper: a table of who was last seen   *)
(* where, one row for each peer and each peer it named.                    *)
(*                                                                         *)
(*   - A request is answered from the table as it stood at one instant.    *)
(*   - What the request announces takes effect at one later instant, whole *)
(*     and at most once, and only if the request was answered.             *)
(*   - A request may be dropped on the way; one that is dropped after it   *)
(*     was answered may or may not have reached its client.                *)
(*   - Rows may be forgotten, and in a crash all are.                      *)
(*                                                                         *)
(* Wpcod is shown to implement it.  The code it stands for is that of      *)
(* server/src/server.rs and server/src/peering.rs.                         *)
(***************************************************************************)
EXTENDS Protocol

CONSTANTS
  Requests,       \* the requests of a behaviour
  Announcements   \* what they may announce

VARIABLES
  table,     \* the place of the first peer of a pair, as the second may know it
  request,   \* the announcement of a request and where it comes from
  phase,     \* how far a request has come
  answer     \* the endpoints that its client was sent

dvars == <<table, request, phase, answer>>

RequestPairs == Keys \X Keys

Place(a, addr) ==
  [wan_ipv4 |-> addr, wan_ipv6 |-> a.ipv6, lan_addrs |-> a.lan_addrs,
   wg_port |-> a.wg_port]

\* A peer behind the same public address is to be found on the LAN.
EndpointAt(place, addr) ==
  IF place = None THEN Unknown
  ELSE IF place.wan_ipv4 = addr
       THEN LocalNetwork(place.wan_ipv6, place.lan_addrs, place.wg_port)
       ELSE RemoteNetwork(place.wan_ipv4, place.wan_ipv6, place.wg_port)

DirectoryInit ==
  /\ table = [k \in RequestPairs |-> None]
  /\ request = [q \in Requests |-> None]
  /\ phase = [q \in Requests |-> "idle"]
  /\ answer = [q \in Requests |-> None]

Moves(q, from, to) == phase[q] = from /\ phase' = [phase EXCEPT ![q] = to]

Ask(q, a, addr) ==
  /\ Moves(q, "idle", "asked")
  /\ valid(a)
  /\ request' = [request EXCEPT ![q] = [ann |-> a, addr |-> addr]]
  /\ UNCHANGED <<table, answer>>

Answer(q) ==
  /\ Moves(q, "asked", "answered")
  /\ answer' = [answer EXCEPT ![q] =
       [p \in request[q].ann.peer_pubkeys |->
          EndpointAt(table[<<p, request[q].ann.initiator_pubkey>>], request[q].addr)]]
  /\ UNCHANGED <<table, request>>

Publish(q) ==
  /\ Moves(q, "answered", "published")
  /\ request[q].addr \in V4
  /\ table' = [k \in RequestPairs |->
       IF k \in {request[q].ann.initiator_pubkey} \X request[q].ann.peer_pubkeys
       THEN Place(request[q].ann, request[q].addr) ELSE table[k]]
  /\ UNCHANGED <<request, answer>>

Drop(q) ==
  /\ phase[q] # "published" /\ Moves(q, phase[q], "dropped")
  /\ answer' \in {answer, [answer EXCEPT ![q] = None]}
  /\ UNCHANGED <<table, request>>

Forget ==
  /\ table' \in {[k \in RequestPairs |-> IF k \in K THEN None ELSE table[k]] :
                   K \in SUBSET RequestPairs}
  /\ UNCHANGED <<request, phase, answer>>

\* Every open request is dropped; one that is idle may be made afterwards.
Crash ==
  /\ table' = [k \in RequestPairs |-> None]
  /\ \E Idle \in SUBSET {q \in Requests : phase[q] = "idle"},
        Lost \in SUBSET {q \in Requests : phase[q] = "answered"} :
       /\ phase' = [q \in Requests |->
            IF q \in Idle THEN "idle"
            ELSE IF phase[q] = "published" THEN "published" ELSE "dropped"]
       /\ answer' = [q \in Requests |-> IF q \in Lost THEN None ELSE answer[q]]
  /\ UNCHANGED request

DirectoryNext ==
  \/ \E q \in Requests :
       \/ \E a \in Announcements, addr \in Addrs : Ask(q, a, addr)
       \/ Answer(q) \/ Publish(q) \/ Drop(q)
  \/ Forget \/ Crash

DirectorySpec == DirectoryInit /\ [][DirectoryNext]_dvars
=============================================================================
