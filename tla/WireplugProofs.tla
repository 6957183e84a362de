---------------------------- MODULE WireplugProofs ----------------------------
(***************************************************************************)
(* What holds of any number of daemons, of whatever networks they move     *)
(* among and however often, and of the server between them.                *)
(***************************************************************************)
EXTENDS Wireplug, PeeringProofs, WellFoundedInduction, TLAPS

-----------------------------------------------------------------------------
\* The choice of a LAN address.

\* Of pairs of numbers one is the first.
LEMMA FirstPair ==
  ASSUME NEW S, S \subseteq Nat \X Nat, S # {}
  PROVE  \E c \in S : \A d \in S : c[1] < d[1] \/ (c[1] = d[1] /\ c[2] <= d[2])
<1> DEFINE Less == OpToRel(<, Nat)
           Lex == LexPairOrdering(Less, Less, Nat, Nat)
<1>1. IsWellFoundedOn(Less, Nat)
  BY NatLessThanWellFounded
<1>2. \A m, n \in Nat : <<m, n>> \in Less <=> m < n
  BY DEF OpToRel
<1> HIDE DEF Less
<1>3. IsWellFoundedOn(Lex, Nat \X Nat)
  BY <1>1, WFLexPairOrdering
<1>4. \A c, d \in Nat \X Nat :
        <<d, c>> \in Lex <=> d[1] < c[1] \/ (d[1] = c[1] /\ d[2] < c[2])
  BY <1>2 DEF LexPairOrdering
<1> HIDE DEF Lex
<1>5. PICK c \in S : \A d \in S : ~ (<<d, c>> \in Lex)
  BY <1>3, WFMin
<1>6. \A d \in S : c[1] < d[1] \/ (c[1] = d[1] /\ c[2] <= d[2])
  <2> SUFFICES ASSUME NEW d \in S PROVE c[1] < d[1] \/ (c[1] = d[1] /\ c[2] <= d[2])
    OBVIOUS
  <2>1. c \in Nat \X Nat /\ d \in Nat \X Nat
    OBVIOUS
  <2>2. {c[1], c[2], d[1], d[2]} \subseteq Nat
    BY <2>1
  <2>3. ~ (d[1] < c[1] \/ (d[1] = c[1] /\ d[2] < c[2]))
    BY <1>4, <1>5, <2>1
  <2> QED
    BY <2>2, <2>3
<1> QED
  BY <1>6

\* If there is a LAN candidate, the one that is taken is the address of the peer on
\* a link that it shares with this host.
LEMMA CandidateOnLink ==
  ASSUME NEW ours \in Seq(Addr!IpNet), NEW theirs \in Seq(Addr!IpNet),
         Addr!Candidates(ours, theirs) # {}
  PROVE  \E i \in DOMAIN ours, j \in DOMAIN theirs :
           /\ Addr!addrs_on_link(ours[i], theirs[j])
           /\ Addr!FirstCandidate(ours, theirs) = theirs[j].addr
<1> DEFINE Found == Addr!Candidates(ours, theirs)
           First(c) == \A d \in Found : c[1] < d[1] \/ (c[1] = d[1] /\ c[2] <= d[2])
           first == CHOOSE c \in Found : First(c)
<1>1. Found \subseteq (DOMAIN ours) \X (DOMAIN theirs)
      /\ \A c \in Found : Addr!addrs_on_link(ours[c[1]], theirs[c[2]])
  BY DEF Addr!Candidates
<1>2. DOMAIN ours \subseteq Nat /\ DOMAIN theirs \subseteq Nat
  OBVIOUS
<1>3. Addr!FirstCandidate(ours, theirs) = theirs[first[2]].addr
  BY DEF Addr!FirstCandidate
<1> HIDE DEF Found
<1>4. \E c \in Found : First(c)
  <2>1. Found \subseteq Nat \X Nat /\ Found # {}
    BY <1>1, <1>2 DEF Found
  <2> QED
    BY <2>1, FirstPair
<1>5. first \in Found
  BY <1>4
<1> HIDE DEF first
<1>6. first[1] \in DOMAIN ours /\ first[2] \in DOMAIN theirs
      /\ Addr!addrs_on_link(ours[first[1]], theirs[first[2]])
  BY <1>1, <1>5
<1> QED
  BY <1>3, <1>6

\* What an endpoint may come to: nothing, or its port at its IPv6 address, if it has
\* one, at its public address, if it is remote, or at one of its LAN addresses.
Taken(s, e) ==
  \/ s = NoSocket
  \/ e.kind # "Unknown" /\ e.ipv6 # NoIpv6 /\ s = Addr!SocketAddr(e.ipv6, e.wg_port)
  \/ e.kind = "RemoteNetwork" /\ s = Addr!SocketAddr(e.ipv4, e.wg_port)
  \/ /\ e.kind = "LocalNetwork"
     /\ \E j \in DOMAIN e.lan_addrs : s = Addr!SocketAddr(e.lan_addrs[j].addr, e.wg_port)

\* What an endpoint of the server comes to is one of these.
LEMMA Resolved ==
  ASSUME NEW e \in WireplugEndpoint, NEW six \in BOOLEAN, NEW ours \in Seq(Addr!IpNet)
  PROVE  Taken(Addr!Resolve(e, six, ours), e)
<1> USE WorldAssumption DEF Taken
<1>1. CASE e = Unknown
  BY <1>1 DEF Unknown, Addr!Resolve
<1>2. CASE e # Unknown /\ e.kind = "RemoteNetwork"
  BY <1>2 DEF WireplugEndpoint, Addr!Resolve
<1>3. CASE e # Unknown /\ e.kind = "LocalNetwork"
  <2>1. e.lan_addrs \in Seq(Addr!IpNet)
    BY <1>3 DEF WireplugEndpoint
  <2>2. CASE Addr!Candidates(ours, e.lan_addrs) = {}
    BY <1>3, <2>2 DEF Addr!Resolve
  <2>3. CASE Addr!Candidates(ours, e.lan_addrs) # {}
    <3>1. PICK j \in DOMAIN e.lan_addrs :
            Addr!FirstCandidate(ours, e.lan_addrs) = e.lan_addrs[j].addr
      BY <2>1, <2>3, CandidateOnLink
    <3> QED
      BY <1>3, <2>3, <3>1 DEF Addr!Resolve
  <2> QED
    BY <2>2, <2>3
<1>4. e.kind \in {"LocalNetwork", "RemoteNetwork"} \/ e = Unknown
  BY DEF WireplugEndpoint
<1> QED
  BY <1>1, <1>2, <1>3, <1>4

-----------------------------------------------------------------------------
\* Types.

Sockets == [ip : V4 \cup Ipv6Opts \cup Addr!LanAddr, port : Ports]

\* What a host finds where it is.
LEMMA InfoType ==
  ASSUME NEW place \in Places, NEW h \in Hosts
  PROVE  LET info == InfoAt[place][h] IN
         /\ info \in Infos
         /\ info.wan_ipv4 \in V4 \cup {None} /\ info.wan_ipv6 \in Ipv6Opts
         /\ info.lan_addrs \in Seq(Addr!IpNet)
         /\ \A net \in Range(info.lan_addrs) : net.addr \in Addr!LanAddr
<1>1. /\ InfoAt[place][h].wan_ipv4 \in V4 \cup {None}
      /\ InfoAt[place][h].wan_ipv6 \in Ipv6Opts
      /\ InfoAt[place][h].lan_addrs \in Seq(Addr!IpNet)
  BY WorldAssumption
<1>2. ASSUME NEW s \in Seq(Addr!IpNet), NEW net \in Range(s) PROVE net.addr \in Addr!LanAddr
  <2>1. net \in Addr!IpNet
    BY DEF Range
  <2> QED
    BY <2>1 DEF Addr!IpNet
<1> QED
  BY <1>1, <1>2 DEF Infos

\* A packet comes from a socket address.
LEMMA AtType ==
  ASSUME TypeOK, NEW h \in Hosts, NEW p \in Hosts, NEW way
  PROVE  At(h, p, way) \subseteq Sockets
<1>1. /\ here[p] \in Places /\ listen_port[p] \in Ports
      /\ MappedAt[here[p]][listen_port[p]] \in Ports
  BY WorldAssumption DEF TypeOK
<1>2. /\ Info(p).wan_ipv4 \in V4 \cup {None} /\ Info(p).wan_ipv6 \in Ipv6Opts
      /\ \A net \in Range(Info(p).lan_addrs) : net.addr \in Addr!LanAddr
  BY <1>1, InfoType DEF Info
<1> QED
  BY <1>1, <1>2 DEF At, Sockets, Addr!SocketAddr

\* A device that has heard of peers is a device.
LEMMA HeardType ==
  ASSUME TypeOK, NEW h \in Hosts, NEW d \in Heard(h)
  PROVE  d \in PT!Devices
<1> DEFINE sources == [p \in Hosts |-> Sources(h, p)]
<1>1. ASSUME NEW p \in Hosts PROVE sources[p] \subseteq Sockets \cup {NoSocket}
  BY AtType DEF Sources
<1> HIDE DEF sources
<1>2. PICK from :
        /\ \A p \in Hosts : from[p] \in sources[p]
        /\ d = [p \in Hosts |-> IF from[p] = NoSocket THEN device[h][p]
                                ELSE [configured |-> TRUE, endpoint |-> from[p],
                                      handshaken |-> TRUE, rx |-> "more"]]
  BY DEF Heard, sources
<1>3. ASSUME NEW p \in Hosts PROVE d[p] \in PT!DevicePeer
  <2>1. device[h][p] \in PT!DevicePeer
    BY DEF TypeOK, PT!Devices
  <2>2. from[p] \in Sockets \cup {NoSocket}
    BY <1>1, <1>2
  <2> QED
    BY <1>2, <2>1, <2>2 DEF PT!DevicePeer, Sockets
<1> QED
  BY <1>2, <1>3 DEF PT!Devices

\* Judging peers and setting endpoints keep device and tracker well-formed.
LEMMA JudgingTypes ==
  ASSUME NEW t \in PT!Trackers, NEW d \in PT!Devices, NEW ps
  PROVE  PT!tracked(t, d, ps) \in PT!Trackers /\ PT!counted(t, d, ps) \in PT!Devices
<1>1. ASSUME NEW p \in Hosts
      PROVE  /\ d[p].endpoint \in Sockets \cup {NoSocket}
             /\ [d[p] EXCEPT !.rx = "same"] \in PT!DevicePeer
  BY DEF PT!Devices, PT!DevicePeer, Sockets
<1>2. PT!tracked(t, d, ps) \in PT!Trackers
  BY <1>1 DEF PT!tracked, PT!Trackers, Sockets
<1>3. PT!counted(t, d, ps) \in PT!Devices
  BY <1>1 DEF PT!counted, PT!Devices
<1> QED
  BY <1>2, <1>3

\* So does setting the endpoints that the server told of.
LEMMA SettingTypes ==
  ASSUME NEW t \in PT!Trackers, NEW d \in PT!Devices, NEW told, NEW ps,
         \A p \in ps : told[p] \in Sockets
  PROVE  PT!tracker_with(t, told, ps) \in PT!Trackers
         /\ PT!device_with(d, told, ps) \in PT!Devices
<1>1. ASSUME NEW p \in Hosts, p \in ps
      PROVE  [d[p] EXCEPT !.configured = TRUE, !.endpoint = told[p]] \in PT!DevicePeer
  <2>1. told[p] \in Sockets
    BY <1>1
  <2> QED
    BY <2>1 DEF PT!Devices, PT!DevicePeer, Sockets
<1>2. PT!tracker_with(t, told, ps) \in PT!Trackers
  BY DEF PT!tracker_with, PT!Trackers, Sockets
<1>3. PT!device_with(d, told, ps) \in PT!Devices
  BY <1>1 DEF PT!device_with, PT!Devices
<1> QED
  BY <1>2, <1>3

\* The monitor after a check.
LEMMA CheckType ==
  ASSUME NEW m \in Net!Monitors, NEW info \in Infos
  PROVE  /\ Net!after_check(m, info) \in Net!Monitors
         /\ Net!after_check(m, info).current \in Net!NetInfo
         /\ Net!after_check(m, info).current.at = info
BY DEF Net!after_check, Net!status_of, Net!Monitors, Net!NetInfo, Net!detect

-----------------------------------------------------------------------------
\* A daemon has checked its network before it goes on from there, and knows what it
\* has asked for while it waits.
Staged ==
  \A h \in Hosts :
    /\ pc[h] # "check" => monitor[h].current \in Net!NetInfo
    /\ pc[h] = "waiting" => request[h] \in Requests

Typed == TypeOK /\ Staged

\* What a daemon announces is an announcement.
LEMMA AnnouncementType ==
  ASSUME Typed, NEW h \in Hosts, pc[h] = "announce", HasIpv4(h)
  PROVE  [announcement |-> AnnouncementOf(h), addr |-> Info(h).wan_ipv4] \in Requests
<1>1. monitor[h] \in Net!Monitors /\ monitor[h].current \in Net!NetInfo
  BY DEF Typed, TypeOK, Staged
<1>2. monitor[h].current.at \in Infos /\ monitor[h].current.hard_nat \in BOOLEAN
  BY <1>1 DEF Net!NetInfo
<1>3. /\ monitor[h].current.at.wan_ipv6 \in Ipv6Opts
      /\ monitor[h].current.at.lan_addrs \in LanLists
  BY <1>2, WorldAssumption DEF Infos
<1>4. Net!needs_relay(monitor[h]) \in BOOLEAN
  BY <1>2 DEF Net!needs_relay
<1>5. h \in Keys /\ inactive[h] \in SUBSET Keys /\ port_to_announce[h] \in Ports
  BY KeysAssumption DEF Typed, TypeOK, Hosts
<1>6. AnnouncementOf(h) \in Announcement
  BY <1>3, <1>4, <1>5 DEF AnnouncementOf, Announcement
<1>7. Info(h).wan_ipv4 \in V4
  BY InfoType DEF Typed, TypeOK, Info, HasIpv4
<1> QED
  BY <1>6, <1>7 DEF Requests

\* A check that is due keeps device and tracker well-formed, and a daemon goes on to
\* announce, or to its next pass.
LEMMA JudgesType ==
  ASSUME TypeOK, NEW h \in Hosts, Judges(h)
  PROVE  /\ inactive' \in [Hosts -> SUBSET Hosts]
         /\ tracker' \in [Hosts -> PT!Trackers] /\ device' \in [Hosts -> PT!Devices]
         /\ \E to \in {"check", "announce"} : pc' = [pc EXCEPT ![h] = to]
<1>1. PICK d \in Heard(h) :
        LET silent == PT!inactive_peers(tracker[h], d) IN
        /\ pc' = [pc EXCEPT ![h] = After(silent)]
        /\ inactive' = [inactive EXCEPT ![h] = silent]
        /\ tracker' = [tracker EXCEPT ![h] = PT!tracked(@, d, PT!Judged(d))]
        /\ device' = [device EXCEPT ![h] = PT!counted(tracker[h], d, PT!Judged(d))]
  BY DEF Judges
<1> DEFINE silent == PT!inactive_peers(tracker[h], d)
           t == PT!tracked(tracker[h], d, PT!Judged(d))
           c == PT!counted(tracker[h], d, PT!Judged(d))
<1>2. silent \in SUBSET Hosts /\ After(silent) \in {"check", "announce"}
  BY DEF PT!inactive_peers, PT!get_all_peers, After
<1>3. t \in PT!Trackers /\ c \in PT!Devices
  BY HeardType, JudgingTypes DEF TypeOK
<1>4. /\ pc' = [pc EXCEPT ![h] = After(silent)]
      /\ inactive' = [inactive EXCEPT ![h] = silent]
      /\ tracker' = [tracker EXCEPT ![h] = t] /\ device' = [device EXCEPT ![h] = c]
  BY <1>1
<1> HIDE DEF silent, t, c
<1> QED
  BY <1>2, <1>3, <1>4 DEF TypeOK

\* What a daemon is told of each peer is where to find it, or nothing.
LEMMA ToldType ==
  ASSUME Typed, NEW h \in Hosts, pc[h] = "waiting", NEW p \in DOMAIN Told(h)
  PROVE  /\ p \in request[h].announcement.peer_pubkeys
         /\ Told(h)[p] \in Sockets \cup {NoSocket}
<1> DEFINE a == request[h].announcement
           e == endpoint_of(records, a, request[h].addr, p)
           six == monitor[h].current.at.wan_ipv6 # NoIpv6
           ours == Info(h).lan_addrs
<1>1. a \in Announcement /\ records \in PeeringRecords /\ here[h] \in Places
  BY DEF Typed, TypeOK, Staged, Requests
<1>2. p \in a.peer_pubkeys /\ Told(h)[p] = Addr!Resolve(e, six, ours)
  BY DEF Told, get_peer_endpoints
<1>3. e \in WireplugEndpoint
  BY <1>1, <1>2, EndpointType
<1>4. ours \in Seq(Addr!IpNet) /\ LanLists \subseteq Seq(Addr!IpNet)
  BY <1>1, InfoType, WorldAssumption DEF Info
<1>9. six \in BOOLEAN
  OBVIOUS
<1> HIDE DEF e, a, six, ours
<1>5. e.kind # "Unknown" => e.ipv6 \in Ipv6Opts /\ e.wg_port \in Ports
  BY <1>3 DEF WireplugEndpoint, Unknown
<1>6. e.kind = "RemoteNetwork" => e.ipv4 \in V4
  BY <1>3 DEF WireplugEndpoint, Unknown
<1>7. ASSUME e.kind = "LocalNetwork", NEW j \in DOMAIN e.lan_addrs
      PROVE  e.lan_addrs[j].addr \in Addr!LanAddr
  <2>1. e.lan_addrs \in Seq(Addr!IpNet)
    BY <1>3, <1>4, <1>7 DEF WireplugEndpoint, Unknown
  <2>2. \A nets \in Seq(Addr!IpNet) : \A i \in DOMAIN nets : nets[i] \in Addr!IpNet
    OBVIOUS
  <2>3. e.lan_addrs[j] \in Addr!IpNet
    BY <1>7, <2>1, <2>2
  <2> QED
    BY <2>3 DEF Addr!IpNet
<1>8. Addr!Resolve(e, six, ours) \in Sockets \cup {NoSocket}
  <2> DEFINE s == Addr!Resolve(e, six, ours)
  <2>1. Taken(s, e)
    BY <1>3, <1>4, <1>9, Resolved
  <2> HIDE DEF s
  <2>2. s \in Sockets \cup {NoSocket}
    BY <2>1, <1>5, <1>6, <1>7 DEF Taken, Sockets, Addr!SocketAddr
  <2> QED
    BY <2>2 DEF s
<1> QED
  BY <1>2, <1>8 DEF a

-----------------------------------------------------------------------------
\* Daemons begin at the top of their loops, with devices that know of no endpoint.
LEMMA TypedInit == Init => Typed
<1> SUFFICES ASSUME Init PROVE Typed
  OBVIOUS
<1>1. here \in [Hosts -> Places] /\ {moves, losses} \subseteq Nat
  BY WorldAssumption DEF Init
<1>2. monitor \in [Hosts -> Net!Monitors]
  BY DEF Init, Net!NewMonitor, Net!Monitors
<1>3. {new_port, port_to_announce, listen_port} \subseteq [Hosts -> Ports]
  BY DEF Init, Ports
<1>4. device \in [Hosts -> PT!Devices]
  <2>1. ASSUME NEW b \in BOOLEAN PROVE [PT!NoPeer EXCEPT !.configured = b] \in PT!DevicePeer
    BY DEF PT!NoPeer, PT!DevicePeer
  <2>2. ASSUME NEW h \in Hosts, NEW p \in Hosts
        PROVE  [PT!NoPeer EXCEPT !.configured = p # h] \in PT!DevicePeer
    BY <2>1
  <2> QED
    BY <2>2 DEF Init, PT!Devices
<1>5. tracker \in [Hosts -> PT!Trackers]
  <2>1. [p \in Hosts |-> Untracked] \in PT!Trackers
    BY DEF PT!Trackers
  <2>2. ASSUME NEW h \in Hosts PROVE PT!init_tracker(device[h]) \in PT!Trackers
    BY <1>4, <2>1, JudgingTypes DEF PT!init_tracker
  <2>3. tracker = [h \in Hosts |-> PT!init_tracker(device[h])]
    BY DEF Init
  <2> QED
    BY <2>2, <2>3
<1>6. records \in PeeringRecords
  BY DEF Init, NoRecords, PeeringRecords
<1>7. /\ pc = [h \in Hosts |-> "check"] /\ inactive = [h \in Hosts |-> {}]
      /\ {request, answered, late} = {[h \in Hosts |-> None]}
  BY DEF Init
<1> QED
  BY <1>1, <1>2, <1>3, <1>4, <1>5, <1>6, <1>7 DEF Typed, TypeOK, Staged

\* A step of a daemon, of the server or of a host keeps the types, and a daemon is
\* nowhere without what it needs there.
LEMMA TypedStep == Typed /\ [Next]_vars => Typed'
<1> SUFFICES ASSUME Typed, [Next]_vars PROVE Typed'
  OBVIOUS
<1> USE DEF Goes, worldVars, hostVars, peerVars, connVars, serverVars
<1>0. TypeOK /\ Staged
  BY DEF Typed
<1>1. ASSUME NEW h \in Hosts, NEW statuses, Finds(h, statuses)
      PROVE  /\ monitor' \in [Hosts -> Net!Monitors]
             /\ monitor'[h].current \in Net!NetInfo
             /\ \A g \in Hosts \ {h} : monitor'[g] = monitor[g]
  <2>1. monitor[h] \in Net!Monitors /\ Info(h) \in Infos
    BY <1>0, InfoType DEF TypeOK, Info
  <2>2. monitor' = [monitor EXCEPT ![h] = Net!after_check(monitor[h], Info(h))]
    BY <1>1 DEF Finds
  <2> QED
    BY <1>0, <2>1, <2>2, CheckType DEF TypeOK
<1>2. ASSUME NEW h \in Hosts, NotDue(h) PROVE Typed'
  <2>1. After(inactive[h]) \in {"check", "announce"}
    BY DEF After
  <2> QED
    BY <1>0, <1>1, <1>2, <2>1 DEF NotDue, Typed, TypeOK, Staged
<1>3. ASSUME NEW h \in Hosts, Due(h) PROVE Typed'
  <2>1. /\ UNCHANGED <<worldVars, new_port, port_to_announce, listen_port, connVars,
                       serverVars>>
        /\ Finds(h, {"Online", "ChangedToPrev"}) /\ Judges(h)
    BY <1>3 DEF Due
  <2>2. PICK to \in {"check", "announce"} : pc' = [pc EXCEPT ![h] = to]
    BY <1>0, <2>1, JudgesType
  <2>3. /\ inactive' \in [Hosts -> SUBSET Hosts]
        /\ tracker' \in [Hosts -> PT!Trackers] /\ device' \in [Hosts -> PT!Devices]
    BY <1>0, <2>1, JudgesType
  <2> QED
    BY <1>0, <1>1, <2>1, <2>2, <2>3 DEF Typed, TypeOK, Staged
<1>4. ASSUME NEW h \in Hosts, Unusable(h) PROVE Typed'
  BY <1>0, <1>1, <1>4 DEF Unusable, Typed, TypeOK, Staged
<1>5. ASSUME NEW h \in Hosts, NewNetwork(h) PROVE Typed'
  <2> DEFINE port == new_port[h] + 1
             answer == stun_response(port, MappedAt[here[h]][port])
             announced == port_for(kind_of(answer, answer), port)
  <2>1. port \in Ports /\ MappedAt[here[h]][port] \in Ports
    BY <1>0, <1>5, WorldAssumption DEF NewNetwork, TypeOK
  <2> HIDE DEF port
  <2>2. announced \in Ports
    BY <2>1 DEF stun_response, kind_of, port_for, SamePort, DifferentPort
  <2> HIDE DEF answer, announced
  <2>3. /\ pc' = [pc EXCEPT ![h] = "rebind"]
        /\ new_port' = [new_port EXCEPT ![h] = port]
        /\ port_to_announce' = [port_to_announce EXCEPT ![h] = announced]
        /\ UNCHANGED <<worldVars, listen_port, peerVars, connVars, serverVars>>
        /\ Finds(h, {"ChangedToNew"})
    BY <1>5 DEF NewNetwork, port, answer, announced
  <2>4. {new_port', port_to_announce', listen_port'} \subseteq [Hosts -> Ports]
    BY <1>0, <2>1, <2>2, <2>3 DEF TypeOK
  <2> QED
    BY <1>0, <1>1, <2>3, <2>4 DEF Typed, TypeOK, Staged
<1>6. ASSUME NEW h \in Hosts, Rebind(h) PROVE Typed'
  <2>1. /\ listen_port' \in [Hosts -> Ports] /\ pc[h] = "rebind"
        /\ UNCHANGED <<worldVars, monitor, new_port, port_to_announce, connVars,
                       serverVars>>
    BY <1>0, <1>6 DEF Rebind, TypeOK
  <2>2. PICK to \in {"check", "announce"} : pc' = [pc EXCEPT ![h] = to]
    BY <1>0, <1>6, JudgesType DEF Rebind, After
  <2>3. /\ inactive' \in [Hosts -> SUBSET Hosts]
        /\ tracker' \in [Hosts -> PT!Trackers] /\ device' \in [Hosts -> PT!Devices]
    <3>1. CASE Judges(h)
      BY <1>0, <3>1, JudgesType
    <3>2. CASE ~Judges(h)
      BY <1>0, <1>6, <3>2 DEF Rebind, TypeOK, PT!get_all_peers
    <3> QED
      BY <3>1, <3>2
  <2> QED
    BY <1>0, <2>1, <2>2, <2>3 DEF Typed, TypeOK, Staged
<1>7. ASSUME NEW h \in Hosts, Connect(h) PROVE Typed'
  <2> DEFINE r == [announcement |-> AnnouncementOf(h), addr |-> Info(h).wan_ipv4]
  <2>1. r \in Requests
    BY <1>7, AnnouncementType DEF Connect
  <2>2. request' = [request EXCEPT ![h] = r]
    BY <1>7 DEF Connect
  <2> HIDE DEF r
  <2> QED
    BY <1>0, <1>7, <2>1, <2>2 DEF Connect, Typed, TypeOK, Staged
<1>8. ASSUME NEW h \in Hosts, Answered(h), request[h] \in Requests
      PROVE  {answered', late'} \subseteq [Hosts -> Requests \cup {None}]
  <2>1. answered' = [answered EXCEPT ![h] = request[h]]
        /\ late' \in {[late EXCEPT ![h] = late[h]], [late EXCEPT ![h] = answered[h]]}
    BY <1>8 DEF Answered
  <2> QED
    BY <1>0, <1>8, <2>1 DEF TypeOK
<1>9. ASSUME NEW h \in Hosts, AnnounceFails(h) PROVE Typed'
  <2>1. request' = [request EXCEPT ![h] = None] /\ pc' \in {[pc EXCEPT ![h] = "check"],
                                                       [pc EXCEPT ![h] = "announce"]}
        /\ pc[h] # "check" /\ UNCHANGED <<worldVars, hostVars, peerVars, serverVars>>
    BY <1>9 DEF AnnounceFails
  <2>2. {answered', late'} \subseteq [Hosts -> Requests \cup {None}]
    BY <1>0, <1>8, <1>9 DEF AnnounceFails, TypeOK
  <2> QED
    BY <1>0, <2>1, <2>2 DEF Typed, TypeOK, Staged
<1>10. ASSUME NEW h \in Hosts, Announced(h) PROVE Typed'
  <2> DEFINE ps == PT!Outdated(tracker[h], Told(h))
             t == PT!tracker_with(tracker[h], Told(h), ps)
             d == PT!device_with(device[h], Told(h), ps)
  <2>1. /\ pc[h] = "waiting" /\ pc' = [pc EXCEPT ![h] = "check"]
        /\ request' = [request EXCEPT ![h] = None]
        /\ device' = [device EXCEPT ![h] = d] /\ tracker' = [tracker EXCEPT ![h] = t]
        /\ inactive' = [inactive EXCEPT ![h] = inactive[h] \ ps]
        /\ UNCHANGED <<worldVars, hostVars, serverVars>>
    BY <1>10 DEF Announced
  <2>2. \A p \in ps : Told(h)[p] \in Sockets
    BY <2>1, ToldType DEF PT!Outdated
  <2>3. t \in PT!Trackers /\ d \in PT!Devices
    BY <1>0, <2>2, SettingTypes DEF TypeOK
  <2>4. {answered', late'} \subseteq [Hosts -> Requests \cup {None}]
    BY <1>0, <1>8, <1>10, <2>1 DEF Announced, Staged
  <2> HIDE DEF ps, t, d
  <2> QED
    BY <1>0, <2>1, <2>3, <2>4 DEF Typed, TypeOK, Staged
<1>11. ASSUME NEW r \in Requests
       PROVE  process_announcement(records, r.announcement, r.addr, 0) \in PeeringRecords
  BY <1>0, RecordsType DEF TypeOK, Requests
<1>12. ASSUME NEW h \in Hosts, Store(h) \/ StoreLate(h) \/ Drop(h) PROVE Typed'
  <2>1. {answered', late'} \subseteq [Hosts -> Requests \cup {None}]
        /\ UNCHANGED <<worldVars, pc, hostVars, peerVars, request, losses>>
    BY <1>0, <1>12 DEF Store, StoreLate, Drop, TypeOK
  <2>2. records' \in PeeringRecords
    BY <1>0, <1>11, <1>12 DEF Store, StoreLate, Drop, TypeOK
  <2> QED
    BY <1>0, <2>1, <2>2 DEF Typed, TypeOK, Staged
<1>13. CASE Forget
  <2>1. records' \in PeeringRecords
    BY <1>0, <1>13 DEF Forget, TypeOK, PeeringRecords
  <2>2. {moves', losses'} \subseteq Nat
    BY <1>0, <1>13 DEF Forget, TypeOK
  <2> QED
    BY <1>0, <1>13, <2>1, <2>2 DEF Forget, Typed, TypeOK, Staged
<1>14. ASSUME NEW h \in Hosts, Move(h) PROVE Typed'
  <2>1. here' \in [Hosts -> Places]
    BY <1>0, <1>14, WorldAssumption DEF Move, TypeOK
  <2>2. {moves', losses'} \subseteq Nat
    BY <1>0, <1>14 DEF Move, TypeOK
  <2> QED
    BY <1>0, <1>14, <2>1, <2>2 DEF Move, Typed, TypeOK, Staged
<1>15. CASE UNCHANGED vars
  BY <1>0, <1>15 DEF vars, Typed, TypeOK, Staged
<1> QED
  BY <1>2, <1>3, <1>4, <1>5, <1>6, <1>7, <1>9, <1>10, <1>12, <1>13, <1>14, <1>15
     DEF Next, Daemon, Server

\* The daemons, the server and the world only ever hold what the definition of their
\* state says; in particular every endpoint that is set is a socket address.
THEOREM TypeCorrect == Spec => []TypeOK
<1>1. Typed => TypeOK
  BY DEF Typed
<1> QED
  BY TypedInit, TypedStep, <1>1, PTL DEF Spec

=============================================================================
