----------------------------- MODULE PeerTracker -----------------------------
(***************************************************************************)
(* The WireGuard device as the client reads and changes it, and the tracker*)
(* that the client keeps beside it: client/src/wg_interface.rs.            *)
(*                                                                         *)
(* rx counters are only compared with what the tracker remembers of them:  *)
(* rx says whether the peer's rx_bytes are more than the tracker's rx, the *)
(* same, or less, as they are once a peer was removed and added again.     *)
(***************************************************************************)
EXTENDS FiniteSets

CONSTANTS
  Peers,      \* the public keys that the device may come to have as peers
  Sockets,    \* socket addresses of peers
  Untracked,  \* the tracker has no entry for a peer
  NoSocket    \* no endpoint

ASSUME SocketsAssumption ==
  /\ NoSocket \notin Sockets /\ Untracked \notin Sockets \cup {NoSocket}

\* A peer of the device; handshaken: last_handshake_time is there.
DevicePeer ==
  [configured : BOOLEAN, endpoint : Sockets \cup {NoSocket}, handshaken : BOOLEAN,
   rx : {"less", "same", "more"}]

NoPeer == [configured |-> FALSE, endpoint |-> NoSocket, handshaken |-> FALSE,
           rx |-> "same"]

Devices == [Peers -> DevicePeer]

\* current_endpoint of the entry of a peer.
Trackers == [Peers -> Sockets \cup {NoSocket, Untracked}]

get_all_peers(device) == {p \in Peers : device[p].configured}

\* The peers that an inactivity check shows to PeerTracker::update: those that
\* have ever completed a handshake.
Judged(device) == {p \in get_all_peers(device) : device[p].handshaken}

heard(device, p) == device[p].rx = "more"

\* PeerTracker::update, for each peer of a set: the tracker takes in who is new,
\* with the endpoint of the device, and remembers a counter that is new or more.
tracked(tracker, device, ps) ==
  [p \in Peers |->
     IF p \in ps /\ tracker[p] = Untracked THEN device[p].endpoint ELSE tracker[p]]

\* Mutant: counters are compared and not remembered.
counted_once(tracker, device, ps) ==
  [p \in Peers |->
     IF p \in ps /\ tracker[p] = Untracked
     THEN [device[p] EXCEPT !.rx = "same"] ELSE device[p]]

counted(tracker, device, ps) ==
  [p \in Peers |->
     IF p \in ps /\ (device[p].rx = "more" \/ tracker[p] = Untracked)
     THEN [device[p] EXCEPT !.rx = "same"] ELSE device[p]]

\* Mutant: the daemon starts with the peers that an inactivity check would show it.
init_tracker_of_judged(device) ==
  tracked([p \in Peers |-> Untracked], device, Judged(device))

\* init_peers_activity, with the tracker empty.
init_tracker(device) == tracked([p \in Peers |-> Untracked], device, get_all_peers(device))

init_counters(device) ==
  counted([p \in Peers |-> Untracked], device, get_all_peers(device))

\* Mutant: a peer without a handshake is left to itself.
inactive_of_judged(tracker, device) ==
  {p \in Judged(device) : tracker[p] # Untracked /\ ~heard(device, p)}

\* get_inactive_peers_by_rx
inactive_peers(tracker, device) ==
  {p \in get_all_peers(device) :
     \/ ~device[p].handshaken
     \/ tracker[p] # Untracked /\ ~heard(device, p)}

-----------------------------------------------------------------------------
\* update_peers: told gives, for each peer asked for, the socket address that
\* its endpoint in the response resolves to, or NoSocket where it is Unknown or
\* where no LAN candidate was found.

\* Mutant: an endpoint is only set where there is none.
Unset(tracker, told) ==
  {p \in DOMAIN told : told[p] # NoSocket /\ tracker[p] \in {NoSocket, Untracked}}

\* The peers whose endpoint has to be set, as far as the tracker knows.
Outdated(tracker, told) ==
  {p \in DOMAIN told : told[p] # NoSocket /\ tracker[p] # told[p]}

\* Those for which update_peer fails, and with it the daemon.
Missing(tracker, told) ==
  {p \in Outdated(tracker, told) : tracker[p] = Untracked}

\* The device update adds a peer that is not there.
device_with(device, told, ps) ==
  [p \in Peers |->
     IF p \in ps THEN [device[p] EXCEPT !.configured = TRUE, !.endpoint = told[p]]
     ELSE device[p]]

tracker_with(tracker, told, ps) ==
  [p \in Peers |-> IF p \in ps THEN told[p] ELSE tracker[p]]
=============================================================================
