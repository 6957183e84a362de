------------------------------ MODULE Wireplug ------------------------------
(***************************************************************************)
(* The whole of it: a wireplugd on each of a few hosts, the coordination   *)
(* server between them, and the networks that they move among.             *)
(*                                                                         *)
(* The daemon is that of Wireplugd with fewer stops: NAT detection meets a *)
(* NAT that keeps or maps ports and has its answers, inactivity checks are *)
(* due now and then, and announcing gives up after any number of attempts. *)
(* What goes on here in full is what there is between two hosts: every     *)
(* announcement is made of what the host believed and of where it was, is  *)
(* answered and recorded at two different times, possibly long after the   *)
(* host went on, and the answer becomes an endpoint on another host.       *)
(*                                                                         *)
(* That the server answers and records at one instant each is what         *)
(* WpcodDirectory shows of Wpcod.                                          *)
(***************************************************************************)
EXTENDS Peering, Nat, FiniteSets, Functions, Sequences

CONSTANTS
  Width, NoIpv6,        \* see Endpoints
  NoSocket, Untracked,  \* see PeerTracker
  Places,     \* where hosts may be: the hosts at one place share a link
  InfoAt,     \* InfoAt[place][host]: the addresses that the host has at place
  MappedAt,   \* MappedAt[place][port]: the port that its NAT maps one to
  Visits,     \* Visits[host]: the places that the host comes to
  MaxMoves,   \* bound: changes of place
  MaxLosses   \* bound: times that the server loses records

Hosts == WgKeys

Addr == INSTANCE Endpoints
PT == INSTANCE PeerTracker WITH
        Peers <- Hosts,
        Sockets <- [ip : V4 \cup Ipv6Opts \cup Addr!LanAddr, port : Ports]

\* What NetInfo::detect finds.
Infos == {InfoAt[place][h] : place \in Places, h \in Hosts}
OnlineInfos == {info \in Infos : info.wan_ipv4 # None \/ info.wan_ipv6 # NoIpv6}

Net == INSTANCE NetworkMonitor WITH Places <- Infos, OnlinePlaces <- OnlineInfos

ASSUME WorldAssumption ==
  /\ Visits \in [Hosts -> SUBSET Places]
  /\ \A place \in Places, h \in Hosts :
       /\ InfoAt[place][h].wan_ipv4 \in V4 \cup {None}
       /\ InfoAt[place][h].wan_ipv6 \in Ipv6Opts
       /\ InfoAt[place][h].lan_addrs \in LanLists
  /\ LanLists \subseteq Seq(Addr!IpNet) /\ None \notin Net!NetInfo
  /\ MappedAt \in [Places -> [Ports -> Ports]]
  /\ {Width, MaxMoves, MaxLosses} \subseteq Nat

VARIABLES
  here, moves,        \* where each host is, and what MaxMoves counts
  pc,                 \* the place of each daemon in its loop
  monitor,            \* netmon
  new_port,           \* the port drawn last
  port_to_announce,
  inactive,           \* inactive_peers
  tracker,            \* peers_manager
  device, listen_port,
  request,            \* the announcement that a daemon waits for the answer of
  answered,           \* the announcement answered last, until it is recorded
  late,               \* an earlier one that the server has yet to record
  records, losses     \* peering_records, and what MaxLosses counts

hostVars == <<monitor, new_port, port_to_announce, listen_port>>
peerVars == <<inactive, tracker, device>>
connVars == <<request, answered, late>>
serverVars == <<records, losses>>
worldVars == <<here, moves>>
vars == <<worldVars, pc, hostVars, peerVars, connVars, serverVars>>

Info(h) == InfoAt[here[h]][h]

\* STUN goes over IPv4, and so does what the server takes.
HasIpv4(h) == Info(h).wan_ipv4 # None

Init ==
  /\ here \in {f \in [Hosts -> Places] : \A h \in Hosts : f[h] \in Visits[h]}
  /\ moves = 0
  /\ pc = [h \in Hosts |-> "check"]
  /\ monitor = [h \in Hosts |-> Net!NewMonitor]
  /\ new_port = [h \in Hosts |-> 1023]
  /\ port_to_announce = [h \in Hosts |-> 0]
  /\ listen_port = [h \in Hosts |-> 51820]
  /\ inactive = [h \in Hosts |-> {}]
  /\ device = [h \in Hosts |->
       [p \in Hosts |-> [PT!NoPeer EXCEPT !.configured = p # h]]]
  /\ tracker = [h \in Hosts |-> PT!init_tracker(device[h])]
  /\ request = [h \in Hosts |-> None]
  /\ answered = [h \in Hosts |-> None] /\ late = [h \in Hosts |-> None]
  /\ records = NoRecords /\ losses = 0

\* Where p gets what h sends: on the same link, over IPv6, and through the NAT of
\* another network.  NATs do not turn packets round.
Ways == {"link", "ipv6", "nat"}

At(h, p, way) ==
  CASE way = "link" /\ here[h] = here[p] ->
         {Addr!SocketAddr(net.addr, listen_port[p]) : net \in Range(Info(p).lan_addrs)}
    [] way = "ipv6" /\ NoIpv6 \notin {Info(h).wan_ipv6, Info(p).wan_ipv6} ->
         {Addr!SocketAddr(Info(p).wan_ipv6, listen_port[p])}
    [] way = "nat" /\ None \notin {Info(h).wan_ipv4, Info(p).wan_ipv4}
                   /\ Info(h).wan_ipv4 # Info(p).wan_ipv4 ->
         {Addr!SocketAddr(Info(p).wan_ipv4, MappedAt[here[p]][listen_port[p]])}
    [] OTHER -> {}

Arrives(h, p, way) ==
  device[h][p].endpoint # NoSocket /\ device[h][p].endpoint \in At(h, p, way)

Reaches(h, p) == \E way \in Ways : Arrives(h, p, way)

\* Where packets of p come from that reach h; NoSocket is for none.
Sources(h, p) ==
  {NoSocket} \cup UNION {At(h, p, way) : way \in {w \in Ways : Arrives(p, h, w)}}

\* The device of h once packets of some peers have come, and WireGuard has taken
\* their sources for endpoints.
Heard(h) ==
  LET sources == [p \in Hosts |-> Sources(h, p)] IN
  {[p \in Hosts |-> IF from[p] = NoSocket THEN device[h][p]
                    ELSE [configured |-> TRUE, endpoint |-> from[p],
                          handshaken |-> TRUE, rx |-> "more"]] :
     from \in {f \in [Hosts -> UNION Range(sources)] : \A p \in Hosts : f[p] \in sources[p]}}

Goes(h, from, to) == pc[h] = from /\ pc' = [pc EXCEPT ![h] = to]

-----------------------------------------------------------------------------
\* From the top of the loop to the end of a pass, or to an announcement.

After(who) == IF who = {} THEN "check" ELSE "announce"

Finds(h, statuses) ==
  /\ Net!status_of(monitor[h], Info(h)) \in statuses
  /\ monitor' = [monitor EXCEPT ![h] = Net!after_check(@, Info(h))]

NotDue(h) ==
  /\ Goes(h, "check", After(inactive[h]))
  /\ Finds(h, {"Online", "ChangedToPrev"})
  /\ UNCHANGED <<worldVars, new_port, port_to_announce, listen_port, peerVars,
                 connVars, serverVars>>

\* The inactivity check is due.
Judges(h) ==
  \E heard \in Heard(h) :
    LET silent == PT!inactive_peers(tracker[h], heard)
        judged == PT!Judged(heard)
    IN
    /\ pc' = [pc EXCEPT ![h] = After(silent)]
    /\ inactive' = [inactive EXCEPT ![h] = silent]
    /\ tracker' = [tracker EXCEPT ![h] = PT!tracked(@, heard, judged)]
    /\ device' = [device EXCEPT ![h] = PT!counted(tracker[h], heard, judged)]

Due(h) ==
  /\ pc[h] = "check"
  /\ UNCHANGED <<worldVars, new_port, port_to_announce, listen_port, connVars,
                 serverVars>>
  /\ Finds(h, {"Online", "ChangedToPrev"})
  /\ Judges(h)

\* Without IPv4 a network that is new, or the very first check with none, has
\* detect_kind fail; the port drawn is forgotten.
Unusable(h) ==
  /\ Goes(h, "check", "check")
  /\ Finds(h, {"Offline", "ChangedToNew"})
  /\ ~HasIpv4(h)
  /\ UNCHANGED <<worldVars, new_port, port_to_announce, listen_port, peerVars,
                 connVars, serverVars>>

\* detect_kind succeeds before the host moves on.  No port is drawn twice: of
\* 64512 ports few are ever drawn, and when all have been the model stops here.
NewNetwork(h) ==
  LET port == new_port[h] + 1
      answer == stun_response(port, MappedAt[here[h]][port])
  IN
  /\ Goes(h, "check", "rebind")
  /\ port \in Ports
  /\ Finds(h, {"ChangedToNew"})
  /\ HasIpv4(h)
  /\ new_port' = [new_port EXCEPT ![h] = port]
  /\ port_to_announce' =
       [port_to_announce EXCEPT ![h] = port_for(kind_of(answer, answer), port)]
  /\ UNCHANGED <<worldVars, listen_port, peerVars, connVars, serverVars>>

\* Every peer is to be announced to, but for a check that is due all the same.
Rebind(h) ==
  /\ pc[h] = "rebind"
  /\ listen_port' = [listen_port EXCEPT ![h] = new_port[h]]
  /\ \/ /\ pc' = [pc EXCEPT ![h] = After(PT!get_all_peers(device[h]))]
        /\ inactive' = [inactive EXCEPT ![h] = PT!get_all_peers(device[h])]
        /\ UNCHANGED <<tracker, device>>
     \/ Judges(h)
  /\ UNCHANGED <<worldVars, monitor, new_port, port_to_announce, connVars, serverVars>>

-----------------------------------------------------------------------------
\* handle_inactive_peers.  The addresses announced are those that check_status
\* found; the address announced from is the one that the host has now.

AnnouncementOf(h) ==
  [initiator_pubkey |-> h, peer_pubkeys |-> inactive[h],
   ipv6 |-> monitor[h].current.at.wan_ipv6, wg_port |-> port_to_announce[h],
   lan_addrs |-> monitor[h].current.at.lan_addrs,
   needs_relay |-> Net!needs_relay(monitor[h])]

\* Mutant: offline or not, an announcement is under way.
ConnectOffline(h) ==
  /\ Goes(h, "announce", "waiting")
  /\ request' = [request EXCEPT ![h] =
       [announcement |-> AnnouncementOf(h), addr |-> Info(h).wan_ipv4]]
  /\ UNCHANGED <<worldVars, hostVars, peerVars, answered, late, serverVars>>

Connect(h) ==
  /\ Goes(h, "announce", "waiting")
  /\ HasIpv4(h)
  /\ request' = [request EXCEPT ![h] =
       [announcement |-> AnnouncementOf(h), addr |-> Info(h).wan_ipv4]]
  /\ UNCHANGED <<worldVars, hostVars, peerVars, answered, late, serverVars>>

\* The server answers: the announcement is to be recorded, which may take longer
\* than the client takes to come again with another one.  Of two that come before
\* that one fails to be recorded.
Answered(h) ==
  /\ valid(request[h].announcement)
  /\ answered' = [answered EXCEPT ![h] = request[h]]
  /\ \E r \in IF answered[h] \in {None, request[h]} THEN {late[h]}
              ELSE {late[h], answered[h]} : late' = [late EXCEPT ![h] = r]

\* No connection, no answer in time, or a request that the server refuses; the
\* next attempt, or the end of attempts.
AnnounceFails(h) ==
  /\ \/ Goes(h, "announce", "check") /\ ~HasIpv4(h)
     \/ Goes(h, "waiting", "announce") \/ Goes(h, "waiting", "check")
  /\ request' = [request EXCEPT ![h] = None]
  /\ UNCHANGED <<answered, late>> \/ (request[h] # None /\ Answered(h))
  /\ UNCHANGED <<worldVars, hostVars, peerVars, serverVars>>

\* The answer is read as soon as it has been written: what it comes to are the
\* socket addresses of peers.
Told(h) ==
  LET endpoints == get_peer_endpoints(records, request[h].announcement, request[h].addr)
      local_has_ipv6 == monitor[h].current.at.wan_ipv6 # NoIpv6
  IN  [p \in request[h].announcement.peer_pubkeys |->
         Addr!Resolve(endpoints[p], local_has_ipv6, Info(h).lan_addrs)]

Announced(h) ==
  /\ Goes(h, "waiting", "check")
  /\ Answered(h)
  /\ request' = [request EXCEPT ![h] = None]
  /\ UNCHANGED <<worldVars, hostVars, serverVars>>
  /\ \E told \in {Told(h)} : \E ps \in {PT!Outdated(tracker[h], told)} :
       /\ PT!Missing(tracker[h], told) = {}
       /\ device' = [device EXCEPT ![h] = PT!device_with(@, told, ps)]
       /\ tracker' = [tracker EXCEPT ![h] = PT!tracker_with(@, told, ps)]
       /\ inactive' = [inactive EXCEPT ![h] = @ \ ps]

-----------------------------------------------------------------------------
\* The server.

Store(h) ==
  /\ answered[h] # None
  /\ answered' = [answered EXCEPT ![h] = None]
  /\ records' = process_announcement(records, answered[h].announcement,
                                     answered[h].addr, 0)
  /\ UNCHANGED <<worldVars, pc, hostVars, peerVars, request, late, losses>>

StoreLate(h) ==
  /\ late[h] # None
  /\ late' = [late EXCEPT ![h] = None]
  /\ records' = process_announcement(records, late[h].announcement, late[h].addr, 0)
  /\ UNCHANGED <<worldVars, pc, hostVars, peerVars, request, answered, losses>>

\* Shutting down the connection fails, and the announcement is dropped.
Drop(h) ==
  /\ \/ answered[h] # None /\ answered' = [answered EXCEPT ![h] = None]
        /\ UNCHANGED late
     \/ late[h] # None /\ late' = [late EXCEPT ![h] = None] /\ UNCHANGED answered
  /\ UNCHANGED <<worldVars, pc, hostVars, peerVars, request, serverVars>>

\* Records are out of time or, in a restart, all gone.
Forget ==
  /\ losses < MaxLosses /\ losses' = losses + 1
  /\ \E kept \in SUBSET Pairs :
       records' = [k \in Pairs |-> IF k \in kept THEN records[k] ELSE None]
  /\ UNCHANGED <<worldVars, pc, hostVars, peerVars, connVars>>

-----------------------------------------------------------------------------
\* The networks.

Move(h) ==
  /\ moves < MaxMoves /\ moves' = moves + 1
  /\ \E place \in Visits[h] \ {here[h]} : here' = [here EXCEPT ![h] = place]
  /\ UNCHANGED <<pc, hostVars, peerVars, connVars, serverVars>>

-----------------------------------------------------------------------------
Daemon(h) ==
  \/ NotDue(h) \/ Due(h) \/ Unusable(h) \/ NewNetwork(h) \/ Rebind(h)
  \/ Connect(h) \/ AnnounceFails(h) \/ Announced(h)

Server ==
  \/ \E h \in Hosts : Store(h) \/ StoreLate(h) \/ Drop(h)
  \/ Forget

Next ==
  \/ \E h \in Hosts : Daemon(h) \/ Move(h)
  \/ Server

Spec == Init /\ [][Next]_vars

\* Three attempts that the server refuses, and then the next pass.
Refused(h) ==
  /\ pc[h] = "waiting" /\ ~valid(request[h].announcement)
  /\ AnnounceFails(h) /\ pc'[h] = "check"

\* Daemons go on and their inactivity checks come to be due; of the attempts to
\* announce what the server takes not all fail, nor do the server's to record.
\* Nothing is assumed of packets that come in.
Fairness ==
  \A h \in Hosts :
    /\ WF_vars(Daemon(h))
    /\ SF_vars(Announced(h) \/ Refused(h)) /\ SF_vars(Store(h))

FairSpec == Spec /\ Fairness

-----------------------------------------------------------------------------
\* Properties.

\* The types of the variables.
Requests == [announcement : Announcement, addr : V4]

TypeOK ==
  /\ here \in [Hosts -> Places] /\ {moves, losses} \subseteq Nat
  /\ pc \in [Hosts -> {"check", "rebind", "announce", "waiting"}]
  /\ monitor \in [Hosts -> Net!Monitors]
  /\ {new_port, port_to_announce, listen_port} \subseteq [Hosts -> Ports]
  /\ inactive \in [Hosts -> SUBSET Hosts]
  /\ tracker \in [Hosts -> PT!Trackers] /\ device \in [Hosts -> PT!Devices]
  /\ request \in [Hosts -> Requests \cup {None}]
  /\ {answered, late} \subseteq [Hosts -> Requests \cup {None}]
  /\ records \in PeeringRecords

\* The addresses that a host has where it comes to, and the ports that its packets
\* may ever have come from: those that it has drawn so far, and what NATs make of
\* them.
InfosOf(p) == {InfoAt[place][p] : place \in Visits[p]}

IpsOf(p) ==
  ({info.wan_ipv4 : info \in InfosOf(p)} \ {None})
    \cup ({info.wan_ipv6 : info \in InfosOf(p)} \ {NoIpv6})
    \cup {net.addr : net \in UNION {Range(info.lan_addrs) : info \in InfosOf(p)}}

Drawn(p) == {51820} \cup 1024 .. new_port[p]

PortsOf(p) ==
  Drawn(p) \cup {MappedAt[place][port] : place \in Visits[p], port \in Drawn(p)}

SocketsOf(p) == [ip : IpsOf(p), port : PortsOf(p)]

\* Peers are not taken for one another: what a daemon or WireGuard holds for the
\* endpoint of a peer is an address that this peer has somewhere, with a port of its
\* own, whoever announced what in between, from where, however late it was recorded,
\* and whoever was on the same network or behind the same NAT.
EndpointsOwn ==
  \A h, p \in Hosts :
    /\ device[h][p].endpoint \in SocketsOf(p) \cup {NoSocket}
    /\ tracker[h][p] \in SocketsOf(p) \cup {NoSocket, Untracked}

\* Two hosts that stay where they have IPv4 come to hold each other's address, and
\* keep it, whatever was announced from where, and recorded when, before.
PeersMeet ==
  <>[](\A h, p \in Hosts :
         h = p \/ ~HasIpv4(h) \/ ~HasIpv4(p) \/ (Reaches(h, p) /\ Reaches(p, h)))
=============================================================================
