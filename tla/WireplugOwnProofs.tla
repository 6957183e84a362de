-------------------------- MODULE WireplugOwnProofs --------------------------
(***************************************************************************)
(* Whose an address is: what a daemon or WireGuard takes for the endpoint  *)
(* of a peer has been one of that peer, whatever came in between.          *)
(***************************************************************************)
EXTENDS WireplugProofs

\* What a host believes of itself comes from places that it visits.
OwnHost(h) ==
  /\ here[h] \in Visits[h]
  /\ monitor[h].current \in Net!NetInfo => monitor[h].current.at \in InfosOf(h)
  /\ new_port[h] >= 1023 /\ (pc[h] = "rebind" => new_port[h] >= 1024)
  /\ listen_port[h] \in Drawn(h)
  /\ port_to_announce[h] \in PortsOf(h) \cup {0}

\* Addresses that p has, possibly not all at the same place.
OwnAddresses(p, ipv4, ipv6, lan_addrs) ==
  /\ \E info \in InfosOf(p) : ipv4 = info.wan_ipv4
  /\ \E info \in InfosOf(p) : ipv6 = info.wan_ipv6
  /\ \E info \in InfosOf(p) : lan_addrs = info.lan_addrs

OwnRequest(p, r, ports) ==
  /\ r.announcement.initiator_pubkey = p
  /\ OwnAddresses(p, r.addr, r.announcement.ipv6, r.announcement.lan_addrs)
  /\ r.announcement.wg_port \in ports

OwnRecord(p, r, ports) ==
  /\ OwnAddresses(p, r.wan_ipv4, r.wan_ipv6, r.lan_addrs)
  /\ r.wg_port \in ports

\* What is announced, answered and on record for a host is its own.  The port 0
\* that a host starts with is never answered.
OwnClaims(h) ==
  /\ request[h] # None \/ pc[h] = "waiting" =>
       OwnRequest(h, request[h], PortsOf(h) \cup {0})
  /\ answered[h] # None => OwnRequest(h, answered[h], PortsOf(h))
  /\ late[h] # None => OwnRequest(h, late[h], PortsOf(h))
  /\ \A q \in Keys :
       records[<<h, q>>] # None => OwnRecord(h, records[<<h, q>>], PortsOf(h))

Owned ==
  /\ \A h \in Hosts : OwnHost(h) /\ OwnClaims(h)
  /\ EndpointsOwn

-----------------------------------------------------------------------------
\* Ports are numbers.
LEMMA PortNumbers == Ports \subseteq Int
BY DEF Ports

\* The ports of a host grow with every port that it draws.
LEMMA PortsGrow ==
  ASSUME Typed, [Next]_vars, NEW h \in Hosts
  PROVE  /\ new_port[h] <= new_port'[h]
         /\ Drawn(h) \subseteq Drawn(h)' /\ PortsOf(h) \subseteq PortsOf(h)'
         /\ SocketsOf(h) \subseteq SocketsOf(h)'
<1>0. new_port \in [Hosts -> Ports]
  BY DEF Typed, TypeOK
<1>1. new_port' = new_port \/ \E g \in Hosts : NewNetwork(g)
  BY DEF Next, vars, Daemon, Server, NotDue, Due, Unusable, Rebind, Connect, AnnounceFails,
     Announced, Store, StoreLate, Drop, Forget, Move, hostVars
<1>2. new_port'[h] \in {new_port[h], new_port[h] + 1}
  BY <1>0, <1>1 DEF NewNetwork
<1>6. new_port[h] \in Int /\ new_port'[h] \in Int /\ new_port[h] <= new_port'[h]
  <2>1. new_port[h] \in Ports
    BY <1>0
  <2>2. new_port[h] \in Int
    BY <2>1, PortNumbers
  <2>3. \A m \in Int : \A n \in {m, m + 1} : n \in Int /\ m <= n
    OBVIOUS
  <2> QED
    BY <1>2, <2>2, <2>3
<1>3. Drawn(h) \subseteq Drawn(h)'
  <2>1. \A m, n \in Int : m <= n => 1024 .. m \subseteq 1024 .. n
    OBVIOUS
  <2>2. 1024 .. new_port[h] \subseteq 1024 .. new_port'[h]
    BY <1>6, <2>1
  <2> QED
    BY <2>2 DEF Drawn
<1>4. PortsOf(h) \subseteq PortsOf(h)'
  BY <1>3 DEF PortsOf
<1>5. SocketsOf(h) \subseteq SocketsOf(h)'
  BY <1>4 DEF SocketsOf, IpsOf, InfosOf
<1> QED
  BY <1>3, <1>4, <1>5, <1>6

\* Where a host is it has addresses of its own.
LEMMA OwnInfo ==
  ASSUME NEW h \in Hosts, OwnHost(h)
  PROVE  Info(h) \in InfosOf(h)
BY DEF OwnHost, Info, InfosOf

\* A step leaves what a host believes of itself its own.
LEMMA OwnHostStep ==
  ASSUME Typed, [Next]_vars, NEW h \in Hosts, OwnHost(h)
  PROVE  OwnHost(h)'
<1> USE DEF Goes, worldVars, hostVars, peerVars, connVars, serverVars
<1>0. /\ TypeOK /\ new_port[h] \in Ports /\ pc \in [Hosts -> {"check", "rebind", "announce", "waiting"}]
      /\ Drawn(h) \subseteq Drawn(h)' /\ PortsOf(h) \subseteq PortsOf(h)'
  BY PortsGrow DEF Typed, TypeOK
<1>1. CASE UNCHANGED <<here, monitor, new_port, listen_port, port_to_announce>>
           /\ (pc'[h] = "rebind" => pc[h] = "rebind")
  <2>1. new_port'[h] >= 1023 /\ (pc'[h] = "rebind" => new_port'[h] >= 1024)
    BY <1>1 DEF OwnHost
  <2>2. Drawn(h)' = Drawn(h) /\ PortsOf(h)' = PortsOf(h)
    BY <1>1 DEF Drawn, PortsOf
  <2> QED
    BY <1>1, <2>1, <2>2 DEF OwnHost
\* What a check finds is what there is.
<1>2. ASSUME NEW g \in Hosts, NEW statuses, Finds(g, statuses),
             UNCHANGED <<here, new_port, listen_port, port_to_announce>>,
             pc'[h] = "rebind" => pc[h] = "rebind"
      PROVE  OwnHost(h)'
  <2>1. monitor' = [monitor EXCEPT ![g] = Net!after_check(monitor[g], Info(g))]
        /\ monitor \in [Hosts -> Net!Monitors] /\ Info(g) \in Infos
    BY <1>0, <1>2, InfoType DEF Finds, TypeOK, Info
  <2>2. monitor'[h].current \in Net!NetInfo => monitor'[h].current.at \in InfosOf(h)
    <3>1. CASE g = h
      BY <2>1, <3>1, CheckType, OwnInfo
    <3>2. CASE g # h
      BY <2>1, <3>2 DEF OwnHost
    <3> QED
      BY <3>1, <3>2
  <2>3. new_port'[h] >= 1023 /\ (pc'[h] = "rebind" => new_port'[h] >= 1024)
    BY <1>2 DEF OwnHost
  <2>4. Drawn(h)' = Drawn(h) /\ PortsOf(h)' = PortsOf(h)
    BY <1>2 DEF Drawn, PortsOf
  <2> QED
    BY <1>2, <2>2, <2>3, <2>4 DEF OwnHost
<1>3. ASSUME NEW g \in Hosts, NewNetwork(g) PROVE OwnHost(h)'
  <2> DEFINE port == new_port[g] + 1
             answer == stun_response(port, MappedAt[here[g]][port])
             announced == port_for(kind_of(answer, answer), port)
  <2>1. announced \in {port, MappedAt[here[g]][port]}
    BY DEF stun_response, kind_of, port_for, SamePort, DifferentPort
  <2>2. /\ new_port' = [new_port EXCEPT ![g] = port]
        /\ port_to_announce' = [port_to_announce EXCEPT ![g] = announced]
        /\ UNCHANGED <<here, listen_port>> /\ pc' = [pc EXCEPT ![g] = "rebind"]
        /\ Finds(g, {"ChangedToNew"})
    BY <1>3 DEF NewNetwork
  <2>3. /\ {new_port, port_to_announce} \subseteq [Hosts -> Ports]
        /\ monitor \in [Hosts -> Net!Monitors] /\ Info(g) \in Infos
        /\ monitor' = [monitor EXCEPT ![g] = Net!after_check(monitor[g], Info(g))]
    BY <1>0, <2>2, InfoType DEF TypeOK, Finds, Info
  <2>4. CASE g = h
    <3>0. new_port'[h] = port /\ pc'[h] = "rebind"
      BY <1>0, <2>2, <2>3, <2>4
    <3>6. new_port[h] \in Int /\ new_port[h] >= 1023 /\ port = new_port[h] + 1
      <4>1. new_port[h] \in Int
        BY <1>0, PortNumbers
      <4>2. new_port[h] >= 1023
        BY DEF OwnHost
      <4> QED
        BY <2>4, <4>1, <4>2
    <3>1. port \in Int /\ port >= 1024
      BY <3>6
    <3>2. port \in Drawn(h)'
      BY <3>0, <3>1 DEF Drawn
    <3>3. port_to_announce'[h] \in PortsOf(h)'
      <4>1. here[h] \in Visits[h]
        BY DEF OwnHost
      <4> HIDE DEF announced, port
      <4> QED
        BY <2>1, <2>2, <2>3, <2>4, <3>2, <4>1 DEF PortsOf
    <3>4. monitor'[h].current \in Net!NetInfo => monitor'[h].current.at \in InfosOf(h)
      BY <2>3, <2>4, CheckType, OwnInfo
    <3>5. here'[h] \in Visits[h] /\ listen_port'[h] \in Drawn(h)'
      BY <1>0, <2>2 DEF OwnHost
    <3>7. new_port'[h] >= 1023 /\ (pc'[h] = "rebind" => new_port'[h] >= 1024)
      <4> HIDE DEF port
      <4> QED
        BY <3>0, <3>1
    <3> HIDE DEF port
    <3> QED
      BY <3>3, <3>4, <3>5, <3>7 DEF OwnHost
  <2>5. CASE g # h
    <3>1. /\ monitor'[h] = monitor[h] /\ new_port'[h] = new_port[h] /\ pc'[h] = pc[h]
          /\ port_to_announce'[h] = port_to_announce[h]
      BY <1>0, <2>2, <2>3, <2>5
    <3> QED
      BY <1>0, <2>2, <3>1 DEF OwnHost
  <2> QED
    BY <2>4, <2>5
<1>4. ASSUME NEW g \in Hosts, Rebind(g) PROVE OwnHost(h)'
  <2>1. /\ listen_port' = [listen_port EXCEPT ![g] = new_port[g]]
        /\ UNCHANGED <<here, monitor, new_port, port_to_announce>>
        /\ pc[g] = "rebind" /\ listen_port \in [Hosts -> Ports]
        /\ \E to \in {"check", "announce"} : pc' = [pc EXCEPT ![g] = to]
    BY <1>0, <1>4 DEF Rebind, Judges, After, TypeOK
  <2>2. listen_port'[h] \in Drawn(h)
    <3>1. CASE g = h
      <4>1. new_port[h] \in Int /\ new_port[h] >= 1024
        <5>1. new_port[h] \in Int
          BY <1>0, PortNumbers
        <5>2. new_port[h] >= 1024
          BY <2>1, <3>1 DEF OwnHost
        <5> QED
          BY <5>1, <5>2
      <4>2. new_port[h] \in Drawn(h)
        BY <4>1 DEF Drawn
      <4> QED
        BY <2>1, <3>1, <4>2
    <3>2. CASE g # h
      BY <2>1, <3>2 DEF OwnHost
    <3> QED
      BY <3>1, <3>2
  <2>3. pc'[h] = "rebind" => pc[h] = "rebind"
    BY <1>0, <2>1
  <2>4. new_port'[h] >= 1023 /\ (pc'[h] = "rebind" => new_port'[h] >= 1024)
    BY <2>1, <2>3 DEF OwnHost
  <2>5. Drawn(h)' = Drawn(h) /\ PortsOf(h)' = PortsOf(h)
    BY <2>1 DEF Drawn, PortsOf
  <2> QED
    BY <2>1, <2>2, <2>4, <2>5 DEF OwnHost
<1>5. ASSUME NEW g \in Hosts, Move(g) PROVE OwnHost(h)'
  <2>1. here'[h] \in Visits[h]
    BY <1>0, <1>5 DEF Move, TypeOK, OwnHost
  <2> QED
    BY <1>0, <1>5, <2>1 DEF Move, OwnHost
<1>6. ASSUME NEW g \in Hosts, NotDue(g) \/ Unusable(g) \/ Due(g) PROVE OwnHost(h)'
  <2>1. pc' \in {[pc EXCEPT ![g] = "check"], [pc EXCEPT ![g] = "announce"]}
    BY <1>6 DEF NotDue, Unusable, Due, Judges, After
  <2>2. UNCHANGED <<here, new_port, listen_port, port_to_announce>>
        /\ \E statuses : Finds(g, statuses)
    BY <1>6 DEF NotDue, Unusable, Due
  <2> QED
    BY <1>0, <1>2, <2>1, <2>2
<1>7. CASE \/ \E g \in Hosts : Connect(g) \/ AnnounceFails(g) \/ Announced(g)
           \/ Server \/ UNCHANGED vars
  <2>1. UNCHANGED <<here, monitor, new_port, listen_port, port_to_announce>>
    BY <1>7 DEF Connect, AnnounceFails, Announced, Server, Store, StoreLate, Drop, Forget, vars
  <2>2. pc'[h] = "rebind" => pc[h] = "rebind"
    BY <1>0, <1>7 DEF Connect, AnnounceFails, Announced, Server, Store, StoreLate, Drop,
       Forget, vars
  <2> QED
    BY <1>1, <2>1, <2>2
<1> QED
  BY <1>3, <1>4, <1>5, <1>6, <1>7 DEF Next, Daemon

\* A step leaves what is claimed of a host its own.
LEMMA OwnClaimsStep ==
  ASSUME Typed, [Next]_vars, \A g \in Hosts : OwnHost(g) /\ OwnClaims(g), NEW h \in Hosts
  PROVE  OwnClaims(h)'
<1> USE DEF Goes, worldVars, hostVars, peerVars, connVars, serverVars
<1>0. /\ TypeOK /\ Staged /\ OwnHost(h) /\ OwnClaims(h)
      /\ pc \in [Hosts -> {"check", "rebind", "announce", "waiting"}]
      /\ {request, answered, late} \subseteq [Hosts -> Requests \cup {None}]
  BY DEF Typed, TypeOK
<1> DEFINE asked == PortsOf(h) \cup {0}
           RequestOwn == request'[h] # None \/ pc'[h] = "waiting" =>
                           OwnRequest(h, request'[h], asked')
           AnsweredOwn == /\ answered'[h] # None => OwnRequest(h, answered'[h], PortsOf(h)')
                          /\ late'[h] # None => OwnRequest(h, late'[h], PortsOf(h)')
           RecordsOwn == \A q \in Keys : records'[<<h, q>>] # None =>
                           OwnRecord(h, records'[<<h, q>>], PortsOf(h)')
<1>1. /\ \A r : OwnRequest(h, r, PortsOf(h)) => OwnRequest(h, r, PortsOf(h)')
      /\ \A r : OwnRequest(h, r, asked) => OwnRequest(h, r, asked')
      /\ \A r : OwnRecord(h, r, PortsOf(h)) => OwnRecord(h, r, PortsOf(h)')
  BY PortsGrow DEF OwnRequest, OwnRecord
<1>2. RequestOwn /\ AnsweredOwn /\ RecordsOwn => OwnClaims(h)'
  BY DEF OwnClaims
\* What is not touched stays its own.
<1>3. /\ request'[h] = request[h] /\ (pc'[h] = "waiting" => pc[h] = "waiting") => RequestOwn
      /\ answered'[h] \in {answered[h], None} /\ late'[h] \in {late[h], None} => AnsweredOwn
      /\ (\A q \in Keys : records'[<<h, q>>] \in {records[<<h, q>>], None}) => RecordsOwn
  BY <1>0, <1>1 DEF OwnClaims
<1>4. request'[h] = None /\ pc'[h] # "waiting" => RequestOwn
  OBVIOUS
<1> HIDE DEF RequestOwn, AnsweredOwn, RecordsOwn
<1>5. ASSUME NEW g \in Hosts, NotDue(g) \/ Due(g) \/ Unusable(g) \/ NewNetwork(g)
                              \/ Rebind(g) \/ Move(g)
      PROVE  OwnClaims(h)'
  <2>1. UNCHANGED <<request, answered, late, records>>
    BY <1>5 DEF NotDue, Due, Unusable, NewNetwork, Rebind, Move
  <2>2. pc' = pc \/ \E to \in {"check", "announce", "rebind"} : pc' = [pc EXCEPT ![g] = to]
    BY <1>5 DEF NotDue, Due, Unusable, NewNetwork, Rebind, Move, Judges, After
  <2>3. pc'[h] = "waiting" => pc[h] = "waiting"
    BY <1>0, <2>2
  <2> QED
    BY <1>2, <1>3, <2>1, <2>3
<1>6. ASSUME NEW g \in Hosts, Connect(g) PROVE OwnClaims(h)'
  <2> DEFINE r == [announcement |-> AnnouncementOf(g), addr |-> Info(g).wan_ipv4]
  <2>1. /\ pc[g] = "announce" /\ pc' = [pc EXCEPT ![g] = "waiting"]
        /\ request' = [request EXCEPT ![g] = r]
        /\ UNCHANGED <<answered, late, records>>
    BY <1>6 DEF Connect
  <2>2. RequestOwn
    <3>1. CASE g = h
      <4>1. monitor[h].current.at \in InfosOf(h) /\ Info(h) \in InfosOf(h)
        BY <1>0, <2>1, <3>1, OwnInfo DEF OwnHost, Staged
      <4>2. port_to_announce[h] \in asked'
        BY <1>0, PortsGrow DEF OwnHost
      <4>3. OwnRequest(h, r, asked')
        BY <3>1, <4>1, <4>2 DEF OwnRequest, OwnAddresses, AnnouncementOf
      <4>4. request'[h] = r
        BY <1>0, <2>1, <3>1
      <4> QED
        BY <4>3, <4>4 DEF RequestOwn
    <3>2. CASE g # h
      <4> HIDE DEF r
      <4> QED
        BY <1>0, <1>3, <2>1, <3>2
    <3> QED
      BY <3>1, <3>2
  <2> QED
    BY <1>2, <1>3, <2>1, <2>2
\* What the server answers is valid, and has a port.
<1>7. ASSUME NEW g \in Hosts, Answered(g), request[g] # None \/ pc[g] = "waiting"
      PROVE  AnsweredOwn
  <2>1. answered' = [answered EXCEPT ![g] = request[g]]
        /\ late' \in {[late EXCEPT ![g] = late[g]], [late EXCEPT ![g] = answered[g]]}
        /\ valid(request[g].announcement)
    BY <1>7 DEF Answered
  <2>2. CASE g = h
    <3>1. OwnRequest(h, request[h], asked)
      BY <1>0, <1>7, <2>2 DEF OwnClaims
    <3>2. request[h].announcement.wg_port # 0
      BY <2>1, <2>2 DEF valid
    <3>3. OwnRequest(h, request[h], PortsOf(h))
      BY <3>1, <3>2 DEF OwnRequest
    <3>4. answered'[h] = request[h] /\ late'[h] \in {late[h], answered[h]}
      BY <1>0, <2>1, <2>2
    <3> QED
      BY <1>0, <1>1, <3>3, <3>4 DEF AnsweredOwn, OwnClaims
  <2>3. CASE g # h
    BY <1>0, <1>3, <2>1, <2>3
  <2> QED
    BY <2>2, <2>3
<1>8. ASSUME NEW g \in Hosts, AnnounceFails(g) \/ Announced(g) PROVE OwnClaims(h)'
  <2>1. /\ request' = [request EXCEPT ![g] = None] /\ records' = records
        /\ \E to \in {"check", "announce"} : pc' = [pc EXCEPT ![g] = to]
    BY <1>8 DEF AnnounceFails, Announced
  <2>2. \/ UNCHANGED <<answered, late>>
        \/ Answered(g) /\ (request[g] # None \/ pc[g] = "waiting")
    BY <1>8 DEF AnnounceFails, Announced
  <2>3. AnsweredOwn
    BY <1>3, <1>7, <2>2
  <2>4. RequestOwn
    <3>1. CASE g = h
      <4>1. request'[h] = None /\ pc'[h] # "waiting"
        BY <1>0, <2>1, <3>1
      <4> QED
        BY <1>4, <4>1
    <3>2. CASE g # h
      BY <1>0, <1>3, <2>1, <3>2
    <3> QED
      BY <3>1, <3>2
  <2> QED
    BY <1>2, <1>3, <2>1, <2>3, <2>4
\* What is recorded for a host is what it announced.
<1>9. ASSUME NEW g \in Hosts, NEW r \in Requests, OwnRequest(g, r, PortsOf(g)),
             records' = process_announcement(records, r.announcement, r.addr, 0)
      PROVE  RecordsOwn
  <2> SUFFICES ASSUME NEW q \in Keys, records'[<<h, q>>] # None
               PROVE  OwnRecord(h, records'[<<h, q>>], PortsOf(h)')
    BY DEF RecordsOwn
  <2>1. <<h, q>> \in Pairs
    BY KeysAssumption DEF Hosts, Pairs
  <2>2. CASE <<h, q>> \in PairsOf(r.announcement)
    <3>1. g = h /\ records'[<<h, q>>] = RecordOf(r.announcement, r.addr, 0)
      BY <1>9, <2>1, <2>2 DEF process_announcement, PairsOf, OwnRequest
    <3>2. OwnRequest(h, r, PortsOf(h)')
      BY <1>1, <1>9, <3>1
    <3> QED
      BY <3>1, <3>2 DEF OwnRequest, OwnRecord, RecordOf
  <2>3. CASE <<h, q>> \notin PairsOf(r.announcement)
    <3>1. records'[<<h, q>>] = records[<<h, q>>]
      BY <1>9, <2>1, <2>3 DEF process_announcement
    <3> QED
      BY <1>0, <1>1, <3>1 DEF OwnClaims
  <2> QED
    BY <2>2, <2>3
<1>10. ASSUME NEW g \in Hosts, Store(g) \/ StoreLate(g) PROVE OwnClaims(h)'
  <2>1. PICK r \in {answered[g], late[g]} :
          /\ r # None
          /\ records' = process_announcement(records, r.announcement, r.addr, 0)
    BY <1>10 DEF Store, StoreLate
  <2>2. r \in Requests /\ OwnRequest(g, r, PortsOf(g))
    <3>1. {answered[g], late[g]} \subseteq Requests \cup {None}
      BY <1>0
    <3>2. OwnClaims(g)
      OBVIOUS
    <3> QED
      BY <2>1, <3>1, <3>2 DEF OwnClaims
  <2>3. UNCHANGED <<pc, request>>
    BY <1>10 DEF Store, StoreLate
  <2>4. answered'[h] \in {answered[h], None} /\ late'[h] \in {late[h], None}
    BY <1>0, <1>10 DEF Store, StoreLate
  <2> QED
    BY <1>2, <1>3, <1>9, <2>1, <2>2, <2>3, <2>4
<1>11. ASSUME NEW g \in Hosts, Drop(g) PROVE OwnClaims(h)'
  <2>1. answered'[h] \in {answered[h], None} /\ late'[h] \in {late[h], None}
    BY <1>0, <1>11 DEF Drop
  <2>2. UNCHANGED <<pc, request, records>>
    BY <1>11 DEF Drop
  <2> QED
    BY <1>2, <1>3, <2>1, <2>2
<1>12. CASE Forget
  <2>1. \A q \in Keys : records'[<<h, q>>] \in {records[<<h, q>>], None}
    BY <1>12, KeysAssumption DEF Forget, Pairs, Hosts
  <2>2. UNCHANGED <<pc, request, answered, late>>
    BY <1>12 DEF Forget
  <2> QED
    BY <1>2, <1>3, <2>1, <2>2
<1>13. CASE UNCHANGED vars
  BY <1>2, <1>3, <1>13 DEF vars
<1> QED
  BY <1>5, <1>6, <1>8, <1>10, <1>11, <1>12, <1>13 DEF Next, Daemon, Server

-----------------------------------------------------------------------------
\* Where packets of a peer come from is its own.
LEMMA SourcesOwn ==
  ASSUME TypeOK, NEW h \in Hosts, NEW p \in Hosts, OwnHost(p), NEW way
  PROVE  At(h, p, way) \subseteq SocketsOf(p)
<1>1. Info(p) \in InfosOf(p) /\ here[p] \in Visits[p] /\ listen_port[p] \in Drawn(p)
  BY OwnInfo DEF OwnHost
<1>2. /\ listen_port[p] \in PortsOf(p)
      /\ MappedAt[here[p]][listen_port[p]] \in PortsOf(p)
  BY <1>1 DEF PortsOf
<1>3. /\ \A net \in Range(Info(p).lan_addrs) : net.addr \in IpsOf(p)
      /\ Info(p).wan_ipv6 # NoIpv6 => Info(p).wan_ipv6 \in IpsOf(p)
      /\ Info(p).wan_ipv4 # None => Info(p).wan_ipv4 \in IpsOf(p)
  BY <1>1 DEF IpsOf
<1> QED
  BY <1>2, <1>3 DEF At, SocketsOf, Addr!SocketAddr

\* What WireGuard takes for the endpoint of a peer that it hears is the peer's.
LEMMA HeardOwn ==
  ASSUME TypeOK, EndpointsOwn, NEW h \in Hosts, NEW p \in Hosts, OwnHost(p), NEW d \in Heard(h)
  PROVE  d[p].endpoint \in SocketsOf(p) \cup {NoSocket}
<1> DEFINE sources == [q \in Hosts |-> Sources(h, q)]
<1>1. sources[p] \subseteq SocketsOf(p) \cup {NoSocket}
  BY SourcesOwn DEF Sources
<1> HIDE DEF sources
<1>2. PICK from :
        /\ \A q \in Hosts : from[q] \in sources[q]
        /\ d = [q \in Hosts |-> IF from[q] = NoSocket THEN device[h][q]
                                ELSE [configured |-> TRUE, endpoint |-> from[q],
                                      handshaken |-> TRUE, rx |-> "more"]]
  BY DEF Heard, sources
<1>3. from[p] \in SocketsOf(p) \cup {NoSocket}
  BY <1>1, <1>2
<1>4. device[h][p].endpoint \in SocketsOf(p) \cup {NoSocket}
  BY DEF EndpointsOwn
<1> QED
  BY <1>2, <1>3, <1>4

\* What a daemon is told of a peer is the peer's, of whenever that is.
LEMMA ToldOwn ==
  ASSUME Typed, NEW h \in Hosts, pc[h] = "waiting", NEW p \in DOMAIN Told(h),
         p \in Hosts, OwnClaims(p)
  PROVE  Told(h)[p] \in SocketsOf(p) \cup {NoSocket}
<1> DEFINE a == request[h].announcement
           r == records[<<p, a.initiator_pubkey>>]
           e == endpoint_of(records, a, request[h].addr, p)
           six == monitor[h].current.at.wan_ipv6 # NoIpv6
           ours == Info(h).lan_addrs
           s == Addr!Resolve(e, six, ours)
<1>1. a \in Announcement /\ records \in PeeringRecords /\ here[h] \in Places
  BY DEF Typed, TypeOK, Staged, Requests
<1>2. p \in a.peer_pubkeys /\ Told(h)[p] = s
  BY DEF Told, get_peer_endpoints
<1>3. e \in WireplugEndpoint
  BY <1>1, <1>2, EndpointType
<1>4. ours \in Seq(Addr!IpNet) /\ six \in BOOLEAN
  BY <1>1, InfoType DEF Info
<1>5. a.initiator_pubkey \in Keys /\ r \in Record \cup {None}
  <2>1. a.initiator_pubkey \in Keys /\ p \in Keys
    BY <1>1, KeysAssumption DEF Announcement, Hosts
  <2> QED
    BY <1>1, <2>1 DEF PeeringRecords, Pairs
<1>6. r # None => OwnRecord(p, r, PortsOf(p))
  BY <1>5 DEF OwnClaims
<1>7. \/ r = None /\ e = Unknown
      \/ r # None /\ e = LocalNetwork(r.wan_ipv6, r.lan_addrs, r.wg_port)
      \/ r # None /\ e = RemoteNetwork(r.wan_ipv4, r.wan_ipv6, r.wg_port)
  BY DEF endpoint_of
<1> HIDE DEF e, a, six, ours
<1>8. Taken(s, e)
  BY <1>3, <1>4, Resolved
<1> HIDE DEF s, r
<1>9. CASE r = None
  BY <1>2, <1>7, <1>8, <1>9 DEF Taken, Unknown
<1>10. CASE r # None
  <2>1. r \in Record /\ OwnRecord(p, r, PortsOf(p))
    BY <1>5, <1>6, <1>10
  <2>2. r.wg_port \in PortsOf(p) /\ r.wan_ipv4 \in V4 /\ r.wan_ipv4 # None
    BY <2>1, NoneAssumption DEF OwnRecord, Record, Addrs
  <2>3. /\ r.wan_ipv4 \in IpsOf(p)
        /\ r.wan_ipv6 # NoIpv6 => r.wan_ipv6 \in IpsOf(p)
    BY <2>1, <2>2 DEF OwnRecord, OwnAddresses, IpsOf
  <2>4. \A j \in DOMAIN r.lan_addrs : r.lan_addrs[j].addr \in IpsOf(p)
    BY <2>1 DEF OwnRecord, OwnAddresses, IpsOf, Range
  <2> QED
    BY <1>2, <1>7, <1>8, <1>10, <2>2, <2>3, <2>4
       DEF Taken, LocalNetwork, RemoteNetwork, SocketsOf, Addr!SocketAddr
<1> QED
  BY <1>9, <1>10

\* A step leaves what is held for the endpoint of a peer the peer's.
LEMMA EndpointsOwnStep ==
  ASSUME Typed, [Next]_vars, Owned
  PROVE  EndpointsOwn'
<1> USE DEF Goes, worldVars, hostVars, peerVars, connVars, serverVars
<1> SUFFICES ASSUME NEW h \in Hosts, NEW p \in Hosts
             PROVE  /\ device'[h][p].endpoint \in SocketsOf(p)' \cup {NoSocket}
                    /\ tracker'[h][p] \in SocketsOf(p)' \cup {NoSocket, Untracked}
  BY DEF EndpointsOwn
<1>0. /\ TypeOK /\ EndpointsOwn /\ SocketsOf(p) \subseteq SocketsOf(p)'
      /\ \A g \in Hosts : OwnHost(g) /\ OwnClaims(g)
  BY PortsGrow DEF Typed, Owned
<1> DEFINE Holds(d, t) == /\ d[p].endpoint \in SocketsOf(p) \cup {NoSocket}
                          /\ t[p] \in SocketsOf(p) \cup {NoSocket, Untracked}
<1>1. Holds(device[h], tracker[h])
  BY <1>0 DEF EndpointsOwn
<1>2. SUFFICES Holds(device'[h], tracker'[h])
  BY <1>0
<1>3. \/ UNCHANGED <<device, tracker>>
      \/ \E g \in Hosts : Judges(g) \/ Announced(g)
  BY DEF Next, Daemon, Server, NotDue, Due, Unusable, NewNetwork, Rebind, Connect,
     AnnounceFails, Store, StoreLate, Drop, Forget, Move, vars
<1>4. ASSUME NEW g \in Hosts, Judges(g) PROVE Holds(device'[h], tracker'[h])
  <2>1. PICK d \in Heard(g) :
          /\ tracker' = [tracker EXCEPT ![g] = PT!tracked(tracker[g], d, PT!Judged(d))]
          /\ device' = [device EXCEPT ![g] = PT!counted(tracker[g], d, PT!Judged(d))]
    BY <1>4 DEF Judges
  <2> DEFINE t == PT!tracked(tracker[g], d, PT!Judged(d))
             c == PT!counted(tracker[g], d, PT!Judged(d))
  <2>2. CASE g = h
    <3>1. d[p].endpoint \in SocketsOf(p) \cup {NoSocket} /\ d \in PT!Devices
      BY <1>0, HeardOwn, HeardType
    <3>2. c[p].endpoint = d[p].endpoint
      <4>1. d[p] \in PT!DevicePeer
        BY <3>1 DEF PT!Devices
      <4> QED
        BY <4>1 DEF PT!counted, PT!DevicePeer
    <3>3. t[p] \in {d[p].endpoint, tracker[h][p]}
      BY <2>2 DEF PT!tracked
    <3>4. device'[h] = c /\ tracker'[h] = t
      BY <1>0, <2>1, <2>2 DEF TypeOK
    <3> HIDE DEF c, t
    <3> QED
      BY <1>1, <3>1, <3>2, <3>3, <3>4
  <2>3. CASE g # h
    <3> HIDE DEF c, t
    <3>1. device'[h] = device[h] /\ tracker'[h] = tracker[h]
      BY <1>0, <2>1, <2>3 DEF TypeOK
    <3> QED
      BY <1>1, <3>1
  <2> QED
    BY <2>2, <2>3
<1>5. ASSUME NEW g \in Hosts, Announced(g) PROVE Holds(device'[h], tracker'[h])
  <2> DEFINE ps == PT!Outdated(tracker[g], Told(g))
             t == PT!tracker_with(tracker[g], Told(g), ps)
             d == PT!device_with(device[g], Told(g), ps)
  <2>1. /\ pc[g] = "waiting"
        /\ device' = [device EXCEPT ![g] = d] /\ tracker' = [tracker EXCEPT ![g] = t]
    BY <1>5 DEF Announced
  <2>2. CASE g = h
    <3>1. p \in ps => Told(g)[p] \in SocketsOf(p) \cup {NoSocket}
      BY <1>0, <2>1, ToldOwn DEF PT!Outdated
    <3>2. d[p].endpoint \in {Told(g)[p], device[h][p].endpoint}
          /\ (p \notin ps => d[p].endpoint = device[h][p].endpoint)
      <4>1. device[h][p] \in PT!DevicePeer
        BY <1>0 DEF TypeOK, PT!Devices
      <4> QED
        BY <2>2, <4>1 DEF PT!device_with, PT!DevicePeer
    <3>3. t[p] = IF p \in ps THEN Told(g)[p] ELSE tracker[h][p]
      BY <2>2 DEF PT!tracker_with
    <3>4. device'[h] = d /\ tracker'[h] = t
      BY <1>0, <2>1, <2>2 DEF TypeOK
    <3> HIDE DEF ps, d, t
    <3> QED
      BY <1>1, <3>1, <3>2, <3>3, <3>4
  <2>3. CASE g # h
    <3> HIDE DEF d, t
    <3>1. device'[h] = device[h] /\ tracker'[h] = tracker[h]
      BY <1>0, <2>1, <2>3 DEF TypeOK
    <3> QED
      BY <1>1, <3>1
  <2> QED
    BY <2>2, <2>3
<1> QED
  BY <1>1, <1>3, <1>4, <1>5

\* To begin with nothing is claimed and no endpoint is set.
LEMMA OwnedInit == Init => Owned
<1> SUFFICES ASSUME Init PROVE Owned
  OBVIOUS
<1>1. ASSUME NEW h \in Hosts PROVE OwnHost(h)
  <2>1. monitor[h].current = None /\ None \notin Net!NetInfo
    BY WorldAssumption DEF Init, Net!NewMonitor
  <2>2. here[h] \in Visits[h] /\ new_port[h] = 1023 /\ pc[h] = "check"
        /\ listen_port[h] = 51820 /\ port_to_announce[h] = 0
    BY DEF Init
  <2> QED
    BY <2>1, <2>2 DEF OwnHost, Drawn
<1>2. ASSUME NEW h \in Hosts PROVE OwnClaims(h)
  <2>1. \A q \in Keys : records[<<h, q>>] = None
    BY KeysAssumption DEF Init, NoRecords, Pairs, Hosts
  <2>2. request[h] = None /\ answered[h] = None /\ late[h] = None /\ pc[h] # "waiting"
    BY DEF Init
  <2> QED
    BY <2>1, <2>2 DEF OwnClaims
<1>3. ASSUME NEW h \in Hosts, NEW p \in Hosts
      PROVE  /\ device[h][p].endpoint = NoSocket
             /\ tracker[h][p] \in {NoSocket, Untracked}
  <2>1. device[h][p].endpoint = NoSocket
    BY DEF Init, PT!NoPeer
  <2>2. tracker[h] = PT!init_tracker(device[h])
    BY DEF Init
  <2> QED
    BY <2>1, <2>2 DEF PT!init_tracker, PT!tracked
<1> QED
  BY <1>1, <1>2, <1>3 DEF Owned, EndpointsOwn

\* Peers are not taken for one another, whatever they announced and however late it
\* was recorded: what is held for the endpoint of a peer is that peer's.
THEOREM EndpointsOfPeers == Spec => []EndpointsOwn
<1>1. Typed /\ Owned /\ [Next]_vars => Owned'
  <2> SUFFICES ASSUME Typed, Owned, [Next]_vars PROVE Owned'
    OBVIOUS
  <2>1. \A h \in Hosts : OwnHost(h) /\ OwnClaims(h)
    BY DEF Owned
  <2>2. \A h \in Hosts : OwnHost(h)'
    BY <2>1, OwnHostStep
  <2>3. \A h \in Hosts : OwnClaims(h)'
    BY <2>1, OwnClaimsStep
  <2> QED
    BY <2>2, <2>3, EndpointsOwnStep DEF Owned
<1>2. Owned => EndpointsOwn
  BY DEF Owned
<1> QED
  BY TypedInit, TypedStep, OwnedInit, <1>1, <1>2, PTL DEF Spec

=============================================================================
