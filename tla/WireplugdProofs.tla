--------------------------- MODULE WireplugdProofs ---------------------------
(***************************************************************************)
(* What is proved of Wireplugd, for any networks, NATs, peers and bounds.  *)
(***************************************************************************)
EXTENDS Wireplugd, TLAPS

-----------------------------------------------------------------------------
\* Types, one lemma for each module that Wireplugd is made of.

\* A check keeps the monitor well-formed, and a network that is new becomes the current one.
LEMMA CheckType ==
  ASSUME NEW m \in Monitors, NEW place \in Places
  PROVE  /\ after_check(m, place) \in Monitors
         /\ status_of(m, place) = "ChangedToNew" =>
              after_check(m, place) =
                [current |-> detect(place), last_online |-> detect(place)]
<1>1. detect(place) \in NetInfo
  BY DEF detect, NetInfo
<1>2. CASE m.current # None /\ place \in OnlinePlaces /\ place = m.current.at
  BY <1>2 DEF after_check, status_of
<1>3. CASE ~(m.current # None /\ place \in OnlinePlaces /\ place = m.current.at)
  BY <1>1, <1>3 DEF after_check, Monitors
<1> QED BY <1>2, <1>3

\* What a host finds at a place is that place.
LEMMA DetectType ==
  ASSUME NEW place \in Places
  PROVE  detect(place) # None /\ detect(place).at = place
<1>1. detect(place) \in NetInfo
  BY DEF detect, NetInfo
<1>2. detect(place) # None
  BY <1>1, NoInfoAssumption
<1> QED BY <1>2 DEF detect

\* Marking a network as behind a hard NAT keeps the monitor well-formed.
LEMMA HardType ==
  ASSUME NEW m \in Monitors, m.current # None
  PROVE  /\ set_hard_nat(m) \in Monitors
         /\ set_hard_nat(m).current # None /\ set_hard_nat(m).current.hard_nat
         /\ set_hard_nat(m).current.at = m.current.at
         /\ set_hard_nat(m).last_online = m.last_online
BY NoInfoAssumption DEF set_hard_nat, Monitors, NetInfo

\* An answer is about the port that the server sees.
LEMMA StunType ==
  ASSUME NEW port \in LocalPorts, NEW place \in OnlinePlaces, NEW server \in {1, 2}
  PROVE  /\ port \in Port /\ Observed[place][server][port] \in Port
         /\ stun_response(port, Observed[place][server][port]) \in StunResult
         /\ stun_response(port, Observed[place][server][port]).kind = "DifferentPort" =>
              stun_response(port, Observed[place][server][port]).port =
                Observed[place][server][port]
<1>1. port \in Port
  BY PortsAssumption
<1> DEFINE seen == Observed[place][server][port]
<1>2. seen \in Port
  <2>1. Observed[place] \in [{1, 2} -> [LocalPorts -> Port]]
    BY ObservedAssumption
  <2>2. Observed[place][server] \in [LocalPorts -> Port]
    BY <2>1
  <2> QED BY <2>2
<1> HIDE DEF seen
<1>3. CASE seen = port
  <2>1. stun_response(port, seen) = SamePort
    BY <1>3 DEF stun_response
  <2> QED BY <1>1, <1>2, <2>1 DEF StunResult, SamePort, seen
<1>4. CASE seen # port
  <2>1. stun_response(port, seen) = DifferentPort(seen)
    BY <1>4 DEF stun_response
  <2> QED BY <1>1, <1>2, <2>1 DEF StunResult, DifferentPort, seen
<1> QED BY <1>3, <1>4

\* Judging the peers of a device keeps device and tracker well-formed.
LEMMA PeersType ==
  ASSUME NEW d \in Devices, NEW t \in Trackers, NEW ps \in SUBSET Peers
  PROVE  /\ tracked(t, d, ps) \in Trackers /\ counted(t, d, ps) \in Devices
         /\ get_all_peers(d) \subseteq Peers /\ Judged(d) \subseteq Peers
         /\ inactive_peers(t, d) \subseteq Peers
BY DEF Devices, Trackers, DevicePeer, tracked, counted, get_all_peers, Judged, inactive_peers

\* So does setting the endpoints that the server told of, and it leaves other peers alone.
LEMMA UpdateType ==
  ASSUME NEW d \in Devices, NEW t \in Trackers, NEW who \in SUBSET Peers,
         NEW told \in [who -> Sockets \cup {NoSocket}],
         NEW ps \in SUBSET Outdated(t, told)
  PROVE  /\ device_with(d, told, ps) \in Devices /\ tracker_with(t, told, ps) \in Trackers
         /\ ps \subseteq who
         /\ \A p \in Peers \ ps : tracker_with(t, told, ps)[p] = t[p]
BY DEF Devices, Trackers, DevicePeer, device_with, tracker_with, Outdated

\* What is left until the next check stays a number.
LEMMA LaterType ==
  ASSUME NEW time \in Int, NEW seconds \in Nat
  PROVE  Later(time, seconds) \in Int
BY DaemonAssumption DEF Later

\* What is announced is the port itself or what the first answer says of it.
LEMMA PortForType ==
  ASSUME NEW r1 \in StunResult, NEW r2 \in StunResult, NEW port \in Port
  PROVE  /\ port_for(kind_of(r1, r2), port) \in Port
         /\ \/ port_for(kind_of(r1, r2), port) = port
            \/ r1.kind = "DifferentPort" /\ port_for(kind_of(r1, r2), port) = r1.port
BY DEF port_for, kind_of, StunResult, SamePort

-----------------------------------------------------------------------------
\* The invariant for the types: the loop in handle_inactive_peers has a turn left
\* while it goes on, and detection goes on with a port and a network.
RetriesLeft == pc = "announce" => retries <= 2

Detecting ==
  /\ pc \in {"stun1", "stun2"} =>
       /\ new_port \in LocalPorts
       /\ monitor.current # None /\ monitor.last_online # None
       /\ monitor.last_online.at = monitor.current.at
  /\ pc = "stun2" =>
       \E place \in OnlinePlaces :
         first = stun_response(new_port, Observed[place][1][new_port])

TInv == TypeOK /\ RetriesLeft /\ Detecting

\* Monitoring begins in a state that is well-formed.
LEMMA InitTypes == Init => TInv
<1> SUFFICES ASSUME Init PROVE TInv
  OBVIOUS
<1>1. device \in Devices
  <2>1. ASSUME NEW p \in Peers, NEW c \in BOOLEAN
        PROVE  [NoPeer EXCEPT !.configured = c] \in DevicePeer
    BY DEF NoPeer, DevicePeer
  <2>2. \A p \in Peers : (p \in FirstPeers) \in BOOLEAN
    OBVIOUS
  <2> QED BY <2>1, <2>2 DEF Init, Devices
<1>2. tracker \in Trackers
  BY <1>1 DEF Init, init_tracker, tracked, Trackers, get_all_peers, Devices, DevicePeer
<1>3. monitor \in Monitors /\ first \in StunResult
  BY DEF Init, NewMonitor, Monitors, StunResult
<1>4. 0 \in Port
  BY DEF Port
<1>5. {new_port, port_to_announce, listen_port} \subseteq Port
  BY <1>4, PortsAssumption DEF Init
<1>6. known \in [Peers -> Sockets \cup {NoSocket}]
  BY DEF Init
<1>7. /\ pc = "check" /\ inactive \subseteq Peers /\ retries = 0 /\ left = 25
      /\ here \in Places /\ moves = 0 /\ roams = 0 /\ edits = 0 /\ at_start \subseteq Peers
      /\ socket \in [Peers -> Sockets] /\ hard_nat = "no"
  BY DaemonAssumption DEF Init
<1>9. present \in BOOLEAN /\ upgraded \in BOOLEAN
  BY DEF Init
<1>8. TypeOK
  BY <1>1, <1>2, <1>3, <1>5, <1>6, <1>7, <1>9 DEF TypeOK
<1> QED BY <1>7, <1>8 DEF TInv, RetriesLeft, Detecting
-----------------------------------------------------------------------------
\* A pass that goes on is at the top of the loop or begins to announce with its first turn.
LEMMA ProceedType ==
  ASSUME NEW who, NEW due_in \in Int, Proceed(who, due_in), retries \in 0 .. 3
  PROVE  /\ left' \in Int /\ retries' \in 0 .. 3 /\ pc' \in {"check", "announce"}
         /\ pc' = "announce" => retries' = 0
<1>1. Later(due_in, 10) \in Int
  BY LaterType
<1> QED BY <1>1 DEF Proceed

\* A step of the daemon keeps the types.
LEMMA DaemonTypes == TInv /\ Daemon => TInv'
<1> SUFFICES ASSUME TInv, Daemon PROVE TInv'
  OBVIOUS
<1> USE DEF TInv, RetriesLeft, Goes
<1>0. here \in Places /\ left \in Int /\ monitor \in Monitors /\ device \in Devices
      /\ tracker \in Trackers /\ {3, 5, 10, 15} \subseteq Nat
  BY DEF TypeOK
<1>1. CASE CheckKnown
  BY <1>1, <1>0, CheckType
  DEF CheckKnown, TypeOK, Detecting, natVars, loopVars, deviceVars, worldVars
<1>2. CASE CheckUnusable
  BY <1>2, <1>0, CheckType, LaterType
  DEF CheckUnusable, TypeOK, Detecting, natVars, loopVars, deviceVars, worldVars
<1>3. CASE CheckNew
  <2>1. monitor' \in Monitors /\ left' \in Int
    BY <1>3, <1>0, CheckType DEF CheckNew, loopVars
  <2>2. new_port' \in LocalPorts /\ {new_port', port_to_announce'} \subseteq Port
    BY <1>3, PortsAssumption DEF CheckNew, TypeOK
  <2>3. TypeOK'
    BY <1>3, <2>1, <2>2 DEF CheckNew, TypeOK, loopVars, deviceVars, worldVars
  <2>4. Detecting'
    BY <1>3, <1>0, <2>2, CheckType, DetectType DEF CheckNew, Detecting
  <2> QED BY <1>3, <2>3, <2>4 DEF CheckNew
<1>4. CASE Stun1
  <2>1. first' \in StunResult
    BY <1>4, StunType DEF Stun1, StunAnswer, Detecting
  <2>2. TypeOK'
    BY <1>4, <2>1 DEF Stun1, TypeOK, loopVars, deviceVars, worldVars
  <2>3. Detecting'
    BY <1>4 DEF Stun1, StunAnswer, Detecting
  <2> QED BY <1>4, <2>2, <2>3 DEF Stun1
<1>5. CASE Stun2
  <2>1. PICK second \in {StunAnswer(2), first} :
          LET kind == kind_of(first, second) IN
          /\ port_to_announce' = port_for(kind, new_port)
          /\ monitor' = IF kind.kind = "Hard" THEN set_hard_nat(monitor) ELSE monitor
          /\ hard_nat' = IF kind.kind = "Hard" THEN "found" ELSE hard_nat
    BY <1>5 DEF Stun2
  <2>2. second \in StunResult /\ first \in StunResult /\ new_port \in Port
    BY <1>5, StunType DEF Stun2, StunAnswer, Detecting, TypeOK
  <2>3. port_to_announce' \in Port
    BY <2>1, <2>2, PortForType
  <2>4. monitor' \in Monitors /\ hard_nat' \in {"no", "found", "outage"}
    BY <1>5, <1>0, <2>1, HardType DEF Stun2, Detecting, TypeOK
  <2>5. TypeOK'
    BY <1>5, <2>3, <2>4 DEF Stun2, TypeOK, loopVars, deviceVars, worldVars
  <2> QED BY <1>5, <2>5 DEF Stun2, Detecting
<1>6. CASE StunFails
  BY <1>6, <1>0, LaterType
  DEF StunFails, TypeOK, Detecting, natVars, deviceVars, worldVars
<1>7. CASE Rebind
  <2>1. inactive' \subseteq Peers
    BY <1>7, <1>0, PeersType DEF Rebind
  <2>2. left' = Later(left, 3) + 25
    BY <1>7 DEF Rebind
  <2>3. left' \in Int
    BY <1>0, <2>2, LaterType
  <2>4. TypeOK'
    BY <1>7, <2>1, <2>3 DEF Rebind, TypeOK, natVars, worldVars
  <2> QED BY <1>7, <2>4 DEF Rebind, Detecting
<1>8. CASE NotDue
  <2>1. /\ left' \in Int /\ retries' \in 0 .. 3 /\ pc' \in {"check", "announce"}
        /\ pc' = "announce" => retries' = 0
    BY <1>8, <1>0, ProceedType DEF NotDue, TypeOK
  <2>2. TypeOK'
    BY <1>8, <2>1 DEF NotDue, TypeOK, natVars, deviceVars, worldVars
  <2> QED BY <2>1, <2>2 DEF Detecting
<1>9. CASE Due
  <2>1. /\ left' \in Int /\ retries' \in 0 .. 3 /\ pc' \in {"check", "announce"}
        /\ pc' = "announce" => retries' = 0
    BY <1>9, <1>0, ProceedType DEF Due, TypeOK
  <2>2. tracker' \in Trackers /\ device' \in Devices /\ inactive' \subseteq Peers
    BY <1>9, <1>0, PeersType DEF Due
  <2>3. TypeOK'
    BY <1>9, <2>1, <2>2 DEF Due, TypeOK, natVars, worldVars
  <2> QED BY <2>1, <2>3 DEF Detecting
<1>10. CASE AnnounceFails
  <2>1. left' \in Int /\ retries' \in 0 .. 3 /\ pc' \in {"check", "announce"}
        /\ (pc' = "announce" => retries' <= 2)
    BY <1>10, <1>0, LaterType DEF AnnounceFails, TypeOK
  <2>2. TypeOK'
    BY <1>10, <2>1 DEF AnnounceFails, TypeOK, natVars, deviceVars, worldVars
  <2> QED BY <2>1, <2>2 DEF Detecting
<1>11. Told \in [inactive -> Sockets \cup {NoSocket}] /\ inactive \in SUBSET Peers
  BY DEF Told, TypeOK
<1>12. CASE Announced
  <2>1. left' \in Int /\ inactive' \subseteq Peers
    BY <1>12, <1>0, <1>11, LaterType DEF Announced
  <2>2. tracker' \in Trackers /\ device' \in Devices
    BY <1>12, <1>0, <1>11, UpdateType DEF Announced
  <2>3. TypeOK'
    BY <1>12, <2>1, <2>2 DEF Announced, TypeOK, natVars, worldVars
  <2> QED BY <1>12, <2>3 DEF Announced, Detecting
<1>13. CASE ExitInterface \/ ExitOutdated
  BY <1>13
  DEF ExitInterface, ExitOutdated, Exit, TypeOK, Detecting, natVars, loopVars,
      deviceVars, worldVars
<1>14. CASE ExitUntracked
  <2>1. tracker' \in Trackers /\ device' \in Devices
    BY <1>14, <1>0, <1>11, UpdateType DEF ExitUntracked
  <2>2. TypeOK'
    BY <1>14, <2>1 DEF ExitUntracked, Exit, TypeOK, natVars, loopVars, worldVars
  <2> QED BY <1>14, <2>2 DEF ExitUntracked, Exit, Detecting
<1> QED
  BY <1>1, <1>2, <1>3, <1>4, <1>5, <1>6, <1>7, <1>8, <1>9, <1>10, <1>12, <1>13, <1>14
  DEF Daemon

\* So does what goes on around it.
LEMMA WorldTypes == TInv /\ World => TInv'
<1> SUFFICES ASSUME TInv, World PROVE TInv'
  OBVIOUS
<1> USE DEF TInv, RetriesLeft
<1>1. CASE Move
  BY <1>1 DEF Move, TypeOK, Detecting, daemonVars, natVars, loopVars, deviceVars
<1>2. CASE Restart
  <2>1. device' \in Devices /\ tracker' \in Trackers /\ at_start' \subseteq Peers
    <3>1. [p \in Peers |-> Untracked] \in Trackers /\ device \in Devices
      BY DEF Trackers, TypeOK
    <3>2. get_all_peers(device) \subseteq Peers
      BY DEF get_all_peers
    <3> QED BY <1>2, <3>1, <3>2, PeersType DEF Restart, init_tracker, init_counters
  <2>2. monitor' \in Monitors /\ 0 \in Port
    BY <1>2 DEF Restart, NewMonitor, Monitors, Port
  <2>3. TypeOK'
    BY <1>2, <2>1, <2>2 DEF Restart, Edit, TypeOK
  <2> QED BY <1>2, <2>3 DEF Restart, Detecting
<1>3. CASE BreakInterface \/ Upgrade
  <2>1. present' \in BOOLEAN /\ upgraded' \in BOOLEAN
    BY Zenon, <1>3 DEF BreakInterface, Upgrade, TypeOK, deviceVars
  <2>2. UNCHANGED <<pc, daemonVars, device, listen_port, here, moves, socket, roams,
                    known, at_start, hard_nat>> /\ edits' = edits + 1
    BY <1>3 DEF BreakInterface, Upgrade, Edit, deviceVars
  <2> QED BY <2>1, <2>2 DEF TypeOK, Detecting, daemonVars, natVars, loopVars
<1>4. ASSUME NEW p \in Peers, Roam(p) \/ PeerAnnounces(p) \/ Hear(p) \/ AddPeer(p) \/ RemovePeer(p)
      PROVE  TInv'
  <2>1. socket' \in [Peers -> Sockets] /\ roams' \in Nat
    BY <1>4
    DEF Roam, PeerAnnounces, Hear, AddPeer, RemovePeer, Edit, worldVars, TypeOK
  <2>2. known' \in [Peers -> Sockets \cup {NoSocket}]
    BY <1>4
    DEF Roam, PeerAnnounces, Hear, AddPeer, RemovePeer, Edit, worldVars, TypeOK
  <2>3. device' \in Devices
    <3>1. CASE Hear(p)
      BY <3>1 DEF Hear, Devices, DevicePeer, TypeOK
    <3>2. CASE AddPeer(p)
      BY <3>2 DEF AddPeer, Devices, DevicePeer, TypeOK
    <3>3. CASE RemovePeer(p)
      <4>1. PICK rx \in {"less", "same"} : device' = [device EXCEPT ![p] = [NoPeer EXCEPT !.rx = rx]]
        BY <3>3 DEF RemovePeer
      <4>2. [NoPeer EXCEPT !.rx = rx] \in DevicePeer
        BY DEF NoPeer, DevicePeer
      <4> QED BY <4>1, <4>2 DEF Devices, TypeOK
    <3>4. CASE Roam(p) \/ PeerAnnounces(p)
      BY <3>4 DEF Roam, PeerAnnounces, deviceVars, TypeOK
    <3> QED BY <1>4, <3>1, <3>2, <3>3, <3>4
  <2>4. /\ UNCHANGED <<pc, daemonVars, listen_port, present, here, moves, upgraded,
                       at_start, hard_nat>>
        /\ edits' \in Nat
    BY <1>4
    DEF Roam, PeerAnnounces, Hear, AddPeer, RemovePeer, Edit, worldVars, deviceVars, TypeOK
  <2> QED BY <2>1, <2>2, <2>3, <2>4 DEF TypeOK, Detecting, daemonVars, natVars, loopVars
<1> QED BY <1>1, <1>2, <1>3, <1>4 DEF World

\* Every step keeps the types.
LEMMA NextTypes == TInv /\ [Next]_vars => TInv'
<1>1. TInv /\ UNCHANGED vars => TInv'
  BY DEF TInv, TypeOK, RetriesLeft, Detecting, vars, natVars, loopVars, deviceVars, worldVars
<1> QED BY <1>1, DaemonTypes, WorldTypes DEF Next

\* The types hold throughout.
LEMMA Types == Spec => []TInv
BY InitTypes, NextTypes, PTL DEF Spec

\* The types of the variables.
THEOREM TypeCorrect == Spec => []TypeOK
<1>1. TInv => TypeOK
  BY DEF TInv
<1> QED BY <1>1, Types, PTL

-----------------------------------------------------------------------------
\* The port announced.  While the daemon is between drawing a port and listening
\* on it, port_to_announce goes with the one or with the other.

Fits(announced, port) ==
  \/ announced = port
  \/ \E place \in OnlinePlaces, server \in {1, 2} :
       announced = Observed[place][server][port]

PortInv ==
  /\ pc \notin {"rebind", "exited"} =>
       port_to_announce = 0 \/ (listen_port \in LocalPorts /\ Fits(port_to_announce, listen_port))
  /\ pc = "rebind" => new_port \in LocalPorts /\ Fits(port_to_announce, new_port)

\* A step keeps the ports of one network together.
LEMMA PortStep == TInv /\ PortInv /\ [Next]_vars => PortInv'
<1> SUFFICES ASSUME TInv, PortInv, [Next]_vars PROVE PortInv'
  OBVIOUS
<1>1. CASE CheckNew
  BY <1>1 DEF CheckNew, Goes, PortInv, Fits, deviceVars
<1>2. CASE Stun2
  <2>1. PICK place \in OnlinePlaces :
          first = stun_response(new_port, Observed[place][1][new_port])
    BY <1>2 DEF Stun2, Goes, TInv, Detecting
  <2>2. new_port \in LocalPorts /\ new_port \in Port /\ first \in StunResult
    BY <1>2, PortsAssumption DEF Stun2, Goes, TInv, TypeOK, Detecting
  <2>3. PICK second \in {StunAnswer(2), first} :
          port_to_announce' = port_for(kind_of(first, second), new_port)
    BY <1>2 DEF Stun2
  <2>4. second \in StunResult
    BY <1>2, <2>2, StunType DEF Stun2, StunAnswer
  <2>5. \/ port_to_announce' = new_port
        \/ first.kind = "DifferentPort" /\ port_to_announce' = first.port
    BY <2>2, <2>3, <2>4, PortForType
  <2>6. first.kind = "DifferentPort" => first.port = Observed[place][1][new_port]
    BY <2>1, <2>2, StunType
  <2>7. Fits(port_to_announce', new_port)
    BY <2>5, <2>6 DEF Fits
  <2> QED BY <1>2, <2>2, <2>7 DEF Stun2, Goes, PortInv
<1>3. CASE Rebind
  BY <1>3 DEF Rebind, Goes, PortInv, natVars
<1>4. CASE CheckKnown \/ CheckUnusable
  BY <1>4 DEF CheckKnown, CheckUnusable, Goes, PortInv, natVars, deviceVars
<1>5. CASE Stun1 \/ StunFails
  BY <1>5 DEF Stun1, StunFails, Goes, PortInv, natVars, deviceVars
<1>6. CASE NotDue \/ Due
  BY <1>6 DEF NotDue, Due, Proceed, PortInv, natVars, deviceVars
<1>7. CASE AnnounceFails \/ Announced
  BY <1>7 DEF AnnounceFails, Announced, Goes, PortInv, natVars, deviceVars
<1>8. CASE ExitInterface \/ ExitUntracked \/ ExitOutdated
  BY <1>8 DEF ExitInterface, ExitUntracked, ExitOutdated, Exit, Goes, PortInv
<1>9. CASE Restart
  BY <1>9 DEF Restart, PortInv
<1>10. CASE Move \/ BreakInterface \/ Upgrade
  BY <1>10
  DEF Move, BreakInterface, Upgrade, PortInv, daemonVars, natVars, deviceVars
<1>11. ASSUME NEW p \in Peers, Roam(p) \/ PeerAnnounces(p) \/ Hear(p) \/ AddPeer(p) \/ RemovePeer(p)
       PROVE  PortInv'
  BY <1>11
  DEF Roam, PeerAnnounces, Hear, AddPeer, RemovePeer, PortInv, daemonVars, natVars, deviceVars
<1>12. CASE UNCHANGED vars
  BY <1>12 DEF vars, natVars, deviceVars, PortInv
<1> QED
  BY <1>1, <1>2, <1>3, <1>4, <1>5, <1>6, <1>7, <1>8, <1>9, <1>10, <1>11, <1>12
  DEF Next, Daemon, World

\* What is announced is 0, the port that WireGuard listens on or what a STUN
\* server sees of that port: handle_inactive_peers after any detections, rebinds
\* and restarts.
THEOREM AnnouncesItsPort == Spec => []PortFits
<1>1. Init => PortInv
  BY DEF Init, PortInv
<1>2. PortInv => PortFits
  BY DEF PortInv, PortFits, Fits
<1> QED BY <1>1, <1>2, PortStep, Types, PTL DEF Spec

-----------------------------------------------------------------------------
\* How the daemon ends.  The peers that it started with are in the tracker for
\* good: what would end it for one of them cannot come up.

StartedTracked == \A p \in at_start : tracker[p] # Untracked

\* What becomes of a tracker keeps its entries.
LEMMA EntriesStay ==
  ASSUME NEW d \in Devices, NEW t \in Trackers, NEW p \in Peers, t[p] # Untracked
  PROVE  /\ \A ps \in SUBSET Peers : tracked(t, d, ps)[p] # Untracked
         /\ \A who \in SUBSET Peers : \A told \in [who -> Sockets \cup {NoSocket}] :
              \A ps \in SUBSET Outdated(t, told) : tracker_with(t, told, ps)[p] # Untracked
BY SocketsAssumption DEF tracked, tracker_with, Outdated

\* A tracker that was made of a device has an entry for each of its peers.
LEMMA StartTracks ==
  ASSUME NEW d \in Devices, NEW p \in get_all_peers(d)
  PROVE  init_tracker(d)[p] # Untracked
<1>1. d[p].endpoint # Untracked /\ p \in Peers
  BY SocketsAssumption DEF Devices, DevicePeer, get_all_peers
<1> QED BY <1>1 DEF init_tracker, tracked

\* It holds when the daemon starts.
LEMMA StartedInit == Init => StartedTracked
<1> SUFFICES ASSUME Init, NEW p \in FirstPeers PROVE tracker[p] # Untracked
  BY DEF Init, StartedTracked
<1>1. p \in Peers /\ device[p].configured
  BY DaemonAssumption DEF Init, NoPeer
<1>2. p \in get_all_peers(device) /\ device \in Devices
  BY <1>1, InitTypes DEF get_all_peers, TInv, TypeOK
<1> QED BY <1>2, StartTracks DEF Init

\* A step keeps every peer that the daemon started with in the tracker.
LEMMA StartedStep == TInv /\ StartedTracked /\ [Next]_vars => StartedTracked'
<1> SUFFICES ASSUME TInv, StartedTracked, [Next]_vars PROVE StartedTracked'
  OBVIOUS
<1>0. /\ device \in Devices /\ tracker \in Trackers /\ at_start \subseteq Peers
      /\ inactive \in SUBSET Peers /\ Told \in [inactive -> Sockets \cup {NoSocket}]
  BY DEF TInv, TypeOK, Told
<1>1. CASE UNCHANGED <<tracker, at_start>>
  BY <1>1 DEF StartedTracked
<1>2. CASE Due
  <2>1. tracker' = tracked(tracker, device, Judged(device)) /\ at_start' = at_start
    BY <1>2 DEF Due, worldVars
  <2> QED BY <1>0, <2>1, EntriesStay, PeersType DEF StartedTracked
<1>3. ASSUME NEW ps \in SUBSET Outdated(tracker, Told),
             tracker' = tracker_with(tracker, Told, ps), at_start' = at_start
      PROVE  StartedTracked'
  BY <1>0, <1>3, EntriesStay DEF StartedTracked
<1>4. CASE Announced
  BY <1>3, <1>4 DEF Announced, worldVars
<1>5. CASE ExitUntracked
  BY <1>3, <1>5 DEF ExitUntracked, worldVars
<1>6. CASE Restart
  <2>1. tracker' = init_tracker(device) /\ at_start' = get_all_peers(device)
    BY <1>6 DEF Restart
  <2> QED BY <1>0, <2>1, StartTracks DEF StartedTracked
<1>7. CASE Daemon /\ ~(Due \/ Announced \/ ExitUntracked)
  BY <1>1, <1>7
  DEF Daemon, CheckKnown, CheckUnusable, CheckNew, Stun1, Stun2, StunFails, Rebind, NotDue,
      AnnounceFails, ExitInterface, ExitOutdated, worldVars
<1>8. CASE World /\ ~Restart
  BY <1>1, <1>8
  DEF World, Move, BreakInterface, Upgrade, Roam, PeerAnnounces, Hear, AddPeer, RemovePeer,
      daemonVars, worldVars
<1>9. CASE UNCHANGED vars
  BY <1>1, <1>9 DEF vars, worldVars
<1> QED BY <1>2, <1>4, <1>5, <1>6, <1>7, <1>8, <1>9 DEF Next

\* The peers that have come since and are not tracked: those that the server knows.
Newcomers ==
  {p \in inactive \ at_start : tracker[p] = Untracked /\ known[p] # NoSocket}

\* A step keeps the reason that a daemon has to end.
LEMMA ExitStep == TInv /\ StartedTracked /\ ExitJustified /\ [Next]_vars => ExitJustified'
<1> SUFFICES ASSUME TInv, StartedTracked, ExitJustified, [Next]_vars, pc' = "exited"
    PROVE  ~present' \/ upgraded' \/ Newcomers' # {}
  BY DEF ExitJustified, Newcomers
<1>1. CASE ExitInterface \/ ExitOutdated
  <2>1. CASE ExitInterface
    <3>1. ~present /\ present' = present
      BY <2>1 DEF ExitInterface, deviceVars
    <3> QED BY <3>1
  <2>2. CASE ExitOutdated
    <3>1. upgraded /\ upgraded' = upgraded
      BY <2>2 DEF ExitOutdated, worldVars
    <3> QED BY <3>1
  <2> QED BY <1>1, <2>1, <2>2
<1>2. CASE ExitUntracked
  <2>1. PICK p : p \in Missing(tracker, Told)
    BY <1>2 DEF ExitUntracked
  <2>2. p \in inactive /\ p \in Peers /\ tracker[p] = Untracked /\ known[p] # NoSocket
    BY <2>1 DEF Missing, Outdated, Told, TInv, TypeOK
  <2>3. PICK ps \in SUBSET (Outdated(tracker, Told) \ Missing(tracker, Told)) :
          tracker' = tracker_with(tracker, Told, ps)
    BY <1>2 DEF ExitUntracked
  <2>4. tracker'[p] = Untracked
    BY <2>1, <2>2, <2>3 DEF tracker_with
  <2>5. inactive' = inactive /\ at_start' = at_start /\ known' = known
    BY <1>2 DEF ExitUntracked, Exit, loopVars, worldVars
  <2>6. p \notin at_start
    BY <2>2 DEF StartedTracked
  <2> QED BY <2>2, <2>4, <2>5, <2>6 DEF Newcomers
<1>3. CASE Daemon /\ ~(ExitInterface \/ ExitOutdated \/ ExitUntracked)
  BY <1>3
  DEF Daemon, CheckKnown, CheckUnusable, CheckNew, Stun1, Stun2, StunFails, Rebind, NotDue,
      Due, Proceed, AnnounceFails, Announced, Goes
<1>4. CASE Restart
  BY <1>4 DEF Restart
<1>5. ASSUME UNCHANGED <<pc, inactive, tracker, at_start>>, present' => present,
             upgraded => upgraded', \A p \in Peers : known[p] # NoSocket => known'[p] # NoSocket
      PROVE  ~present' \/ upgraded' \/ Newcomers' # {}
  <2>1. CASE ~present \/ upgraded
    BY <1>5, <2>1
  <2>2. CASE \E p \in inactive \ at_start : tracker[p] = Untracked /\ known[p] # NoSocket
    <3>1. PICK p \in inactive \ at_start : tracker[p] = Untracked /\ known[p] # NoSocket
      BY <2>2
    <3>2. p \in Peers
      BY DEF TInv, TypeOK
    <3>3. p \in Newcomers'
      BY <1>5, <3>1, <3>2 DEF Newcomers
    <3> QED BY <3>3
  <2> QED BY <1>5, <2>1, <2>2 DEF ExitJustified
<1>6. CASE Move \/ BreakInterface \/ Upgrade
  BY Zenon, <1>5, <1>6
  DEF Move, BreakInterface, Upgrade, Edit, daemonVars, loopVars, deviceVars
<1>7. ASSUME NEW p \in Peers, Roam(p) \/ Hear(p) \/ AddPeer(p) \/ RemovePeer(p)
      PROVE  ~present' \/ upgraded' \/ Newcomers' # {}
  BY Zenon, <1>5, <1>7
  DEF Roam, Hear, AddPeer, RemovePeer, Edit, daemonVars, loopVars, deviceVars, worldVars
<1>8. ASSUME NEW p \in Peers, PeerAnnounces(p)
      PROVE  ~present' \/ upgraded' \/ Newcomers' # {}
  <2>1. /\ UNCHANGED <<pc, inactive, tracker, at_start, present, upgraded>>
        /\ known' = [known EXCEPT ![p] = socket[p]]
    BY <1>8 DEF PeerAnnounces, daemonVars, loopVars, deviceVars
  <2>2. socket[p] # NoSocket
    BY SocketsAssumption DEF TInv, TypeOK
  <2>3. \A q \in Peers : known[q] # NoSocket => known'[q] # NoSocket
    BY <2>1, <2>2 DEF TInv, TypeOK
  <2> QED BY <1>5, <2>1, <2>3
<1>9. CASE UNCHANGED vars
  BY Zenon, <1>5, <1>9 DEF vars, loopVars, deviceVars, worldVars
<1> QED
  BY <1>1, <1>2, <1>3, <1>4, <1>6, <1>7, <1>8, <1>9 DEF Next, World

\* For any networks, NATs, peers and edits: as long as the interface is there and the
\* server speaks its language, monitor_interface returns for no peer that the
\* daemon started with, removed and added again or not, nor for what fails elsewhere.
THEOREM EndsForNewcomers == Spec => []ExitJustified
<1>1. Init => ExitJustified
  BY DEF Init, ExitJustified
<1> QED BY <1>1, StartedInit, StartedStep, ExitStep, Types, PTL DEF Spec

-----------------------------------------------------------------------------
\* Behind a hard NAT.  The flag is on the network that the monitor has as the
\* current one, and the network last seen online is that same one: check_status
\* cannot take another one for it.

QuietInv ==
  hard_nat = "found" =>
    /\ monitor.current # None /\ monitor.current.hard_nat
    /\ monitor.last_online # None
    /\ monitor.last_online.at = monitor.current.at

\* A step leaves the flag where a hard NAT was found, until there is another network or none.
LEMMA QuietStep == TInv /\ QuietInv /\ [Next]_vars => QuietInv'
<1> SUFFICES ASSUME TInv, QuietInv, [Next]_vars, hard_nat' = "found" PROVE QuietInv'
  BY DEF QuietInv
<1>1. CASE hard_nat = "found" /\ monitor' = monitor
  BY <1>1 DEF QuietInv
<1>2. CASE CheckKnown
  BY <1>2 DEF CheckKnown, QuietInv, status_of, online
<1>3. CASE CheckUnusable
  <2>1. here \in OnlinePlaces /\ hard_nat = "found"
    BY <1>3 DEF CheckUnusable
  <2>2. here = monitor.current.at
    BY <1>3, <2>1 DEF CheckUnusable, QuietInv, status_of, online
  <2>3. monitor' = monitor
    BY <1>3, <2>1, <2>2 DEF CheckUnusable, QuietInv, after_check
  <2> QED BY <1>1, <2>1, <2>3
<1>4. CASE CheckNew
  BY <1>4 DEF CheckNew
<1>5. CASE Stun2
  <2>1. CASE monitor' = set_hard_nat(monitor)
    BY <1>5, <2>1, HardType DEF Stun2, Goes, TInv, TypeOK, Detecting, QuietInv
  <2>2. CASE monitor' = monitor /\ hard_nat' = hard_nat
    BY <1>1, <2>2
  <2> QED BY <1>5, <2>1, <2>2 DEF Stun2
<1>6. CASE Daemon /\ ~(CheckKnown \/ CheckUnusable \/ CheckNew \/ Stun2)
  <2>1. UNCHANGED <<monitor, hard_nat>>
    BY <1>6
    DEF Daemon, Stun1, StunFails, Rebind, NotDue, Due, AnnounceFails, Announced,
        ExitInterface, ExitUntracked, ExitOutdated, Exit
  <2> QED BY <1>1, <2>1
<1>7. CASE Restart
  BY <1>7 DEF Restart
<1>8. CASE World /\ ~Restart
  <2>1. UNCHANGED <<monitor, hard_nat>>
    BY <1>8
    DEF World, Move, BreakInterface, Upgrade, Roam, PeerAnnounces, Hear, AddPeer,
        RemovePeer, daemonVars
  <2> QED BY <1>1, <2>1
<1>9. CASE UNCHANGED vars
  BY <1>1, <1>9 DEF vars
<1> QED BY <1>2, <1>3, <1>4, <1>5, <1>6, <1>7, <1>8, <1>9 DEF Next

\* Once detect_kind has found a hard NAT, no pass of the loop gets past
\* check_status before another network or none at all has been seen.
THEOREM QuietBehindHardNat == Spec => HardNatQuiet
<1>1. Init => QuietInv
  BY DEF Init, QuietInv
<1>2. QuietInv /\ [Next]_vars => [pc = "check" /\ pc' = "inactivity" => hard_nat # "found"]_vars
  <2> SUFFICES ASSUME QuietInv, Next, pc = "check", pc' = "inactivity"
      PROVE  hard_nat # "found"
    BY DEF HardNatQuiet
  <2>1. CheckKnown
    BY DEF Next, Daemon, World, CheckUnusable, CheckNew, Stun1, Stun2, StunFails, Rebind,
           NotDue, Due, AnnounceFails, Announced, ExitInterface, ExitUntracked, ExitOutdated,
           Exit, Goes, Restart, Move, BreakInterface, Upgrade, Roam, PeerAnnounces, Hear,
           AddPeer, RemovePeer
  <2> QED BY <2>1 DEF CheckKnown, QuietInv, status_of, online
<1> QED BY <1>1, <1>2, QuietStep, Types, PTL DEF Spec, HardNatQuiet
=============================================================================
