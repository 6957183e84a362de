------------------------------ MODULE Wireplugd ------------------------------
(***************************************************************************)
(* The client daemon: the loop of client/src/daemon.rs, one action for     *)
(* each stretch of it that nothing from outside can come into.  Between    *)
(* two actions the host may change networks, peers may be heard of, move   *)
(* and announce themselves, and the user may change the device.            *)
(*                                                                         *)
(* The daemon is one thread; what it waits for (a sleep, a STUN answer,    *)
(* the coordination server) lies between two actions.  Sleeps count in     *)
(* seconds against the next inactivity check; the time that calls take is  *)
(* not counted.                                                            *)
(***************************************************************************)
EXTENDS NetworkMonitor, Nat, PeerTracker, Integers

CONSTANTS
  TraverseNat,    \* not --no-nat
  LocalPorts,     \* what get_random_port may draw
  Observed,       \* Observed[place][server][port]: the port that a STUN server
                  \* sees when the host sends from port at place
  FirstPort,      \* ListenPort of the device when the daemon starts
  FirstPeers,     \* the peers configured when the daemon starts
  Roaming,        \* peers may reach this host before it has reached them
  MaxMoves,       \* bound: changes of the host's network
  MaxRoams,       \* bound: changes of the peers' socket addresses
  MaxEdits,       \* bound: changes of the device by the user, and of the server
  MaxLag          \* bound: seconds that the inactivity check is seen to lag

ASSUME PortsAssumption ==
  LocalPorts \subseteq {port \in Port : port >= 1024} /\ FirstPort \in Port
ASSUME ObservedAssumption ==
  Observed \in [OnlinePlaces -> [{1, 2} -> [LocalPorts -> Port]]]
ASSUME DaemonAssumption ==
  /\ TraverseNat \in BOOLEAN /\ Roaming \in BOOLEAN /\ FirstPeers \subseteq Peers
  /\ {MaxMoves, MaxRoams, MaxEdits, MaxLag} \subseteq Nat

VARIABLES
  pc,                 \* the place in the loop
  monitor,            \* netmon
  new_port, port_to_announce,
  first,              \* the answer of the first STUN server
  inactive,           \* inactive_peers
  retries,            \* turns taken of the loop in handle_inactive_peers
  left,               \* seconds until next_inactivity_check
  tracker,            \* peers_manager
  device, listen_port,
  present,            \* the WireGuard interface, and whether it can be operated on
  here, moves,        \* the place of the host, and what MaxMoves counts
  socket, roams,      \* where each peer is, and what MaxRoams counts
  known,              \* where the coordination server would say that it is
  upgraded,           \* that server speaks another version of the protocol
  edits,              \* what MaxEdits counts
  at_start,           \* history: the peers that the daemon started with
  hard_nat            \* history: a hard NAT was "found" on the network last seen
                      \* online, and maybe an "outage" after that

natVars == <<new_port, port_to_announce, first>>
loopVars == <<inactive, retries, left>>
deviceVars == <<device, listen_port, present>>
worldVars == <<here, moves, socket, roams, known, upgraded, edits, at_start>>
vars == <<pc, monitor, natVars, loopVars, tracker, deviceVars, worldVars, hard_nat>>

Init ==
  /\ pc = "check"
  /\ monitor = NewMonitor
  /\ new_port = 0 /\ port_to_announce = 0 /\ first = SamePort
  /\ inactive = {} /\ retries = 0 /\ left = 25
  /\ device = [p \in Peers |-> [NoPeer EXCEPT !.configured = p \in FirstPeers]]
  /\ tracker = init_tracker(device)
  /\ listen_port = FirstPort /\ present = TRUE
  /\ here \in Places /\ moves = 0
  /\ socket \in [Peers -> Sockets] /\ roams = 0
  /\ known = [p \in Peers |-> NoSocket] /\ upgraded = FALSE
  /\ edits = 0 /\ at_start = FirstPeers /\ hard_nat = "no"

Goes(from, to) == pc = from /\ pc' = to

\* What is left of a time, seconds later.
Later(time, seconds) ==
  IF time - seconds > -MaxLag THEN time - seconds ELSE -MaxLag

Exit == Goes(pc, "exited") /\ UNCHANGED <<monitor, natVars, loopVars, hard_nat>>

-----------------------------------------------------------------------------
\* check_status, and the arms of the match on its result.

CheckKnown ==
  /\ Goes("check", "inactivity")
  /\ status_of(monitor, here) \in {"Online", "ChangedToPrev"}
  /\ monitor' = after_check(monitor, here)
  /\ UNCHANGED <<natVars, loopVars, tracker, deviceVars, worldVars, hard_nat>>

CheckUnusable ==
  /\ Goes("check", "check")
  /\ status_of(monitor, here) \in {"Offline", "HardNat"}
  /\ monitor' = after_check(monitor, here)
  /\ left' = Later(left, 5)
  /\ hard_nat' = IF hard_nat = "found" /\ here \notin OnlinePlaces THEN "outage"
                 ELSE hard_nat
  /\ UNCHANGED <<natVars, inactive, retries, tracker, deviceVars, worldVars>>

CheckNew ==
  /\ Goes("check", IF TraverseNat THEN "stun1" ELSE "rebind")
  /\ status_of(monitor, here) = "ChangedToNew"
  /\ monitor' = after_check(monitor, here)
  /\ new_port' \in LocalPorts
  /\ port_to_announce' = IF TraverseNat THEN port_to_announce ELSE new_port'
  /\ hard_nat' = "no"
  /\ UNCHANGED <<first, loopVars, tracker, deviceVars, worldVars>>

-----------------------------------------------------------------------------
\* detect_kind, from a port that WireGuard does not use yet.

StunAnswer(server) ==
  stun_response(new_port, Observed[here][server][new_port])

Stun1 ==
  /\ Goes("stun1", "stun2")
  /\ here \in OnlinePlaces
  /\ first' = StunAnswer(1)
  /\ UNCHANGED <<monitor, new_port, port_to_announce, loopVars, tracker,
                 deviceVars, worldVars, hard_nat>>

\* The answer is the second server's, or the first one's once more: the two
\* requests leave from the same port, and the sender of an answer is not
\* looked at.
Stun2 ==
  /\ Goes("stun2", "rebind")
  /\ here \in OnlinePlaces
  /\ \E second \in {StunAnswer(2), first} :
       LET kind == kind_of(first, second) IN
       /\ kind.kind # "Inconsistent"
       /\ port_to_announce' = port_for(kind, new_port)
       /\ monitor' = IF kind.kind = "Hard" THEN set_hard_nat(monitor) ELSE monitor
       /\ hard_nat' = IF kind.kind = "Hard" THEN "found" ELSE hard_nat
  /\ UNCHANGED <<new_port, first, loopVars, tracker, deviceVars, worldVars>>

\* No address, no answer in time, or two that do not fit: the loop is started
\* over, with the monitor as check_status left it.
StunFails ==
  /\ pc \in {"stun1", "stun2"} /\ pc' = "check"
  /\ left' = Later(left, 5)
  /\ UNCHANGED <<monitor, natVars, inactive, retries, tracker, deviceVars, worldVars, hard_nat>>

\* Mutant: WireGuard keeps the port it listens on.
RebindForgotten ==
  /\ Goes("rebind", "inactivity")
  /\ present
  /\ inactive' = get_all_peers(device)
  /\ left' = Later(left, 3) + 25
  /\ UNCHANGED <<monitor, natVars, retries, tracker, deviceVars, worldVars, hard_nat>>

\* update_port, after a sleep, and get_all_peers.
Rebind ==
  /\ Goes("rebind", "inactivity")
  /\ present
  /\ listen_port' = new_port
  /\ inactive' = get_all_peers(device)
  /\ left' = Later(left, 3) + 25
  /\ UNCHANGED <<monitor, natVars, retries, tracker, device, present, worldVars,
                 hard_nat>>

-----------------------------------------------------------------------------
\* The inactivity check, if it is due, and what follows from inactive_peers.

Proceed(who, due_in) ==
  \/ /\ who = {} /\ pc' = "check"
     /\ left' = Later(due_in, 10)
     /\ UNCHANGED retries
  \/ /\ who # {} /\ pc' = "announce"
     /\ left' = due_in
     /\ retries' = 0

NotDue ==
  /\ pc = "inactivity" /\ left > 0
  /\ Proceed(inactive, left)
  /\ UNCHANGED <<monitor, natVars, inactive, tracker, deviceVars, worldVars, hard_nat>>

\* At 0 the instant is past: sleeps last at least as long as they should.
Due ==
  /\ pc = "inactivity" /\ left <= 0
  /\ present
  /\ inactive' = inactive_peers(tracker, device)
  /\ tracker' = tracked(tracker, device, Judged(device))
  /\ device' = counted(tracker, device, Judged(device))
  /\ Proceed(inactive', left + 25)
  /\ UNCHANGED <<monitor, natVars, listen_port, present, worldVars, hard_nat>>

-----------------------------------------------------------------------------
\* handle_inactive_peers

\* Mutant: the server is tried once too often.
AnnounceFailsAgain ==
  /\ pc = "announce"
  /\ pc' = IF retries < 3 THEN "announce" ELSE "check"
  /\ retries' = retries + 1
  /\ left' = Later(left, IF retries < 3 THEN 5 ELSE 15)
  /\ UNCHANGED <<monitor, natVars, inactive, tracker, deviceVars, worldVars, hard_nat>>

\* The server is not reached, does not answer in time or, as it does with an
\* announcement that is not valid, closes the connection; or the
\* device cannot be read.
AnnounceFails ==
  /\ pc = "announce"
  /\ pc' = IF retries < 2 THEN "announce" ELSE "check"
  /\ retries' = retries + 1
  /\ left' = Later(left, IF retries < 2 THEN 5 ELSE 15)
  /\ UNCHANGED <<monitor, natVars, inactive, tracker, deviceVars, worldVars, hard_nat>>

\* What the server says of the peers asked for.
Told == [p \in inactive |-> known[p]]

\* The response comes and every endpoint that differs is set.
Announced ==
  /\ Goes("announce", "check")
  /\ ~upgraded /\ port_to_announce >= 1024 /\ present
  /\ Missing(tracker, Told) = {}
  /\ LET ps == Outdated(tracker, Told) IN
       /\ device' = device_with(device, Told, ps)
       /\ tracker' = tracker_with(tracker, Told, ps)
       /\ inactive' = inactive \ ps
       /\ left' = Later(left, IF ps = {} THEN 10 ELSE 15)
  /\ UNCHANGED <<monitor, natVars, retries, listen_port, present, worldVars,
                 hard_nat>>

-----------------------------------------------------------------------------
\* The ways out of the loop; monitor_interface returns the error and main exits.

\* An operation on the interface fails: the last one, where the interface goes
\* while the response is under way.
ExitInterface ==
  /\ Exit
  /\ \/ pc = "rebind"
     \/ pc = "inactivity" /\ left <= 0
     \/ /\ pc = "announce" /\ ~upgraded /\ port_to_announce >= 1024
        /\ Outdated(tracker, Told) # {}
  /\ ~present
  /\ UNCHANGED <<tracker, deviceVars, worldVars>>

\* The response tells of a peer that the tracker does not have, and the peers
\* before it in the map have been updated.
ExitUntracked ==
  /\ Exit
  /\ pc = "announce"
  /\ ~upgraded /\ port_to_announce >= 1024 /\ present
  /\ Missing(tracker, Told) # {}
  /\ \E ps \in SUBSET (Outdated(tracker, Told) \ Missing(tracker, Told)) :
       /\ device' = device_with(device, Told, ps)
       /\ tracker' = tracker_with(tracker, Told, ps)
  /\ UNCHANGED <<listen_port, present, worldVars>>

\* The server's answer is its version alone: the client is outdated.
ExitOutdated ==
  /\ Exit
  /\ pc = "announce"
  /\ upgraded /\ present
  /\ UNCHANGED <<tracker, deviceVars, worldVars>>

-----------------------------------------------------------------------------
\* Meanwhile.

daemonVars == <<monitor, natVars, loopVars, tracker>>

Move ==
  /\ moves < MaxMoves /\ moves' = moves + 1
  /\ here' \in Places \ {here}
  /\ UNCHANGED <<pc, daemonVars, deviceVars, socket, roams, known, upgraded, edits,
                 at_start, hard_nat>>

\* A peer takes another socket address.
Roam(p) ==
  /\ roams < MaxRoams /\ roams' = roams + 1
  /\ \E s \in Sockets \ {socket[p]} : socket' = [socket EXCEPT ![p] = s]
  /\ UNCHANGED <<pc, daemonVars, deviceVars, here, moves, known, upgraded, edits,
                 at_start, hard_nat>>

\* It announces itself to the server.
PeerAnnounces(p) ==
  /\ known' = [known EXCEPT ![p] = socket[p]]
  /\ UNCHANGED <<pc, daemonVars, deviceVars, here, moves, socket, roams, upgraded,
                 edits, at_start, hard_nat>>

\* A packet of it comes in, and WireGuard takes its source for the endpoint.
\* Where rx_bytes have been less than the tracker's rx, they may still be.
Hear(p) ==
  /\ present /\ device[p].configured
  /\ Roaming \/ device[p].endpoint = socket[p]
  /\ \E rx \in IF device[p].rx = "less" THEN {"less", "same", "more"} ELSE {"more"} :
       device' = [device EXCEPT ![p] =
         [configured |-> TRUE, endpoint |-> socket[p], handshaken |-> TRUE, rx |-> rx]]
  /\ UNCHANGED <<pc, daemonVars, listen_port, present, worldVars, hard_nat>>

Edit ==
  /\ edits < MaxEdits /\ edits' = edits + 1
  /\ UNCHANGED <<here, moves, socket, roams, known>>

\* A peer that comes back does not count: it was counted when it was removed.
AddPeer(p) ==
  /\ \/ p \notin at_start /\ Edit
     \/ p \in at_start /\ UNCHANGED <<here, moves, socket, roams, known, edits>>
  /\ present /\ ~device[p].configured
  /\ device' = [device EXCEPT ![p].configured = TRUE]
  /\ UNCHANGED <<pc, daemonVars, listen_port, present, upgraded, at_start, hard_nat>>

\* rx_bytes are 0 if the peer comes back: not more than the tracker's rx.
RemovePeer(p) ==
  /\ Edit
  /\ present /\ device[p].configured
  /\ \E rx \in IF tracker[p] = Untracked THEN {"same"} ELSE {"less", "same"} :
       device' = [device EXCEPT ![p] = [NoPeer EXCEPT !.rx = rx]]
  /\ UNCHANGED <<pc, daemonVars, listen_port, present, upgraded, at_start, hard_nat>>

BreakInterface ==
  /\ Edit
  /\ present /\ present' = FALSE
  /\ UNCHANGED <<pc, daemonVars, device, listen_port, upgraded, at_start, hard_nat>>

\* The daemon is ended and started again, on the device as it is.
Restart ==
  /\ Edit
  /\ present
  /\ pc' = "check"
  /\ monitor' = NewMonitor
  /\ port_to_announce' = 0 /\ inactive' = {} /\ left' = 25
  /\ tracker' = init_tracker(device) /\ device' = init_counters(device)
  /\ at_start' = get_all_peers(device) /\ hard_nat' = "no"
  /\ UNCHANGED <<new_port, first, retries, listen_port, present, upgraded>>

Upgrade ==
  /\ Edit
  /\ ~upgraded /\ upgraded' = TRUE
  /\ UNCHANGED <<pc, daemonVars, deviceVars, at_start, hard_nat>>

-----------------------------------------------------------------------------
Daemon ==
  \/ CheckKnown \/ CheckUnusable \/ CheckNew
  \/ Stun1 \/ Stun2 \/ StunFails \/ Rebind
  \/ NotDue \/ Due
  \/ AnnounceFails \/ Announced
  \/ ExitInterface \/ ExitUntracked \/ ExitOutdated

World ==
  \/ Move \/ Restart \/ BreakInterface \/ Upgrade
  \/ \E p \in Peers : \/ Roam(p) \/ PeerAnnounces(p) \/ Hear(p)
                     \/ AddPeer(p) \/ RemovePeer(p)

Next == Daemon \/ World

Spec == Init /\ [][Next]_vars

\* The daemon's thread is scheduled, and neither the STUN servers nor the
\* coordination server fail at every attempt.  Peers keep announcing themselves.
\* Nothing is assumed of packets that come in.
Fairness ==
  /\ WF_vars(Daemon)
  /\ SF_vars(Stun1) /\ SF_vars(Stun2) /\ SF_vars(Announced)
  /\ \A p \in Peers : WF_vars(PeerAnnounces(p))

FairSpec == Spec /\ Fairness

-----------------------------------------------------------------------------
\* Properties.

\* The types of the variables.
TypeOK ==
  /\ pc \in {"check", "stun1", "stun2", "rebind", "inactivity", "announce", "exited"}
  /\ monitor \in Monitors
  /\ {new_port, port_to_announce, listen_port} \subseteq Port
  /\ first \in StunResult
  /\ inactive \subseteq Peers /\ retries \in 0 .. 3 /\ left \in Int
  /\ tracker \in Trackers /\ device \in Devices /\ present \in BOOLEAN
  /\ here \in Places /\ moves \in Nat
  /\ socket \in [Peers -> Sockets] /\ roams \in Nat
  /\ known \in [Peers -> Sockets \cup {NoSocket}]
  /\ upgraded \in BOOLEAN /\ edits \in Nat /\ at_start \subseteq Peers
  /\ hard_nat \in {"no", "found", "outage"}

\* The port announced is 0 or goes with the port that WireGuard listens on: it
\* is that port, or what a STUN server sees of it somewhere.  Detections that
\* fail, networks that change in the middle of one and answers that come twice
\* never make the daemon announce the mapping of a port that it has left.
PortFits ==
  pc = "announce" /\ port_to_announce # 0 =>
    /\ listen_port \in LocalPorts
    /\ \/ port_to_announce = listen_port
       \/ \E place \in OnlinePlaces, server \in {1, 2} :
            port_to_announce = Observed[place][server][listen_port]

\* Whatever becomes of the networks, of announcements and of the peers that the
\* daemon started with, removed and added again or not, it runs on.  Where the
\* interface is there and the server speaks its language, only a peer that was
\* added since can end it, which the server knows and the tracker does not.
ExitJustified ==
  pc = "exited" =>
    \/ ~present \/ upgraded
    \/ \E p \in inactive \ at_start : tracker[p] = Untracked /\ known[p] # NoSocket

\* After a destination-dependent NAT has been found the daemon asks nothing of
\* the server, from one check to the next, until it has seen another network or
\* none at all.  (After none at all it does: last_online does not know.)
HardNatQuiet ==
  [][pc = "check" /\ pc' = "inactivity" => hard_nat # "found"]_vars

\* The daemon cannot or need not do anything: it has ended, it is offline, it
\* has found a hard NAT, or p is no peer of the device.
Excused(p) ==
  \/ pc = "exited"
  \/ here \notin OnlinePlaces
  \/ needs_relay(monitor)
  \/ ~device[p].configured

\* A peer that is not heard of is asked for again and again, through failures of
\* STUN and of the server, whether it has ever completed a handshake or not.
SilentPeersAnnounced ==
  \A p \in Peers : []<>(\/ Excused(p) \/ heard(device, p)
                        \/ pc = "announce" /\ p \in inactive)

\* p was removed and has come back: the device has no endpoint for it, and the
\* tracker still has the one from before.
LostEndpoint(p) ==
  device[p].endpoint = NoSocket /\ tracker[p] \notin {NoSocket, Untracked}

\* The device ends up with the endpoint where a peer is, provided that the
\* daemon has a port to announce and the server speaks its language; but not
\* where the tracker takes the endpoint for set that a peer lost when it was removed.
ReachesPeer ==
  \A p \in Peers : []<>(\/ Excused(p) \/ port_to_announce < 1024 \/ upgraded
                        \/ LostEndpoint(p) \/ device[p].endpoint = socket[p])

\* The daemon comes to have a port to announce that the server takes.
UsablePort ==
  \A p \in Peers : []<>(Excused(p) \/ port_to_announce >= 1024)
=============================================================================
