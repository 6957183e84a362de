---------------------------- MODULE WgSetupProofs ----------------------------
(***************************************************************************)
(* What is proved of WgSetup: however many starts end on the way, and      *)
(* whatever is in the config file, a start that comes to the end has done  *)
(* all that its config says.                                               *)
(***************************************************************************)
EXTENDS WgSetup, WellFoundedInduction, TLAPS

ConfigsRead ==
  /\ file \in Config \cup {None, Bad}
  /\ pc \in {"configure", "addr", "up", "route", "shown"} /\ ~no_config =>
       config \in Config
  /\ pc \in {"addr", "up", "route"} => ~no_config

\* What is sent to the IPs of a config goes to their last claimants.
Routed(c) ==
  \A i \in DOMAIN c.peers :
    LET block == First32[c.peers[i].allowed_ips] IN
    (\A j \in DOMAIN c.peers : j > i => First32[c.peers[j].allowed_ips] # block) =>
      allowed[block] = c.peers[i].public_key

\* What each stage of a start finds done.
Done ==
  /\ ~no_config =>
       /\ pc \in {"addr", "up", "route", "shown"} =>
            /\ key = config.private_key /\ ConfigPeers \subseteq keepalive
            /\ Parses(config) /\ Routed(config)
       /\ pc \in {"up", "route", "shown"} => config.address \in addrs
       /\ pc \in {"route", "shown"} => up
       /\ pc = "shown" => config.address \in routes \cup elsewhere
  /\ no_config /\ pc = "shown" => keepalive = peers

IInv == ConfigsRead /\ Done

\* The IPs of the peers of a config that parses are IPs.
LEMMA IpsParsed ==
  ASSUME NEW c \in Config, Parses(c), NEW i \in DOMAIN c.peers
  PROVE  c.peers[i].allowed_ips \in Ips
<1> DEFINE Peer == [public_key : Peers \cup {Bad}, allowed_ips : Ips \cup {Bad}]
<1>1. c.peers[i] \in Peer
  <2>1. c.peers \in Seq(Peer)
    BY DEF Config
  <2> HIDE DEF Peer
  <2> QED BY <2>1
<1>2. c.peers[i].allowed_ips # Bad
  BY DEF Parses
<1> QED BY <1>1, <1>2

\* A device update that goes through leaves every IP with its last claimant.
LEMMA ApplyRoutes ==
  ASSUME NEW c \in Config, Parses(c), Apply(c, Len(c.peers))
  PROVE  /\ key' = c.private_key /\ keepalive' = keepalive \cup PeersUpTo(c, Len(c.peers))
         /\ Routed(c)'
<1>1. /\ c.peers \in Seq([public_key : Peers \cup {Bad}, allowed_ips : Ips \cup {Bad}])
      /\ Len(c.peers) \in Nat /\ DOMAIN c.peers = 1 .. Len(c.peers)
  BY DEF Config
<1>2. ASSUME NEW i \in DOMAIN c.peers, NEW block, block = First32[c.peers[i].allowed_ips],
             \A j \in DOMAIN c.peers : j > i => First32[c.peers[j].allowed_ips] # block
      PROVE  allowed'[block] = c.peers[i].public_key
  <2> DEFINE S == Claims(c, Len(c.peers), block)
  <2>1. c.peers[i].allowed_ips \in Ips
    BY IpsParsed
  <2>2. block \in Blocks
    BY <1>2, <2>1, First32Assumption
  <2>3. i \in S /\ \A j \in S : j \in Nat /\ j <= i
    BY <1>1, <1>2 DEF Claims
  <2>4. \A k \in S : (\A j \in S : j <= k) => k = i
    BY <1>1, <2>3
  <2>5. (CHOOSE k \in S : \A j \in S : j <= k) = i
    <3> HIDE DEF S
    <3> QED BY <2>3, <2>4
  <2> QED BY <2>2, <2>3, <2>5 DEF Apply, AllowedUpTo
<1> QED BY <1>2 DEF Apply, Routed

\* Before the first start nothing has to be done.
LEMMA InitInvariant == Init => IInv
BY DEF Init, IInv, ConfigsRead, Done

\* A start that goes on has read a config, and keeps it whatever happens to the file.
LEMMA NextConfigs == ConfigsRead /\ [Next]_vars => ConfigsRead'
<1> SUFFICES ASSUME ConfigsRead, [Next]_vars PROVE ConfigsRead'
  OBVIOUS
<1> USE ConfigAssumption DEF ConfigsRead
<1>1. CASE Start \/ Show \/ read_from_file
  BY <1>1 DEF Start, Show, read_from_file, Goes, startVars
<1>2. CASE configure \/ configure_partly \/ configure_peers
  BY <1>2 DEF configure, configure_partly, configure_peers, Goes, startVars
<1>3. CASE set_addr \/ set_up \/ add_route \/ Monitor
  BY <1>3 DEF set_addr, set_up, add_route, Monitor, Goes, startVars
<1>4. CASE Fail
  BY <1>4 DEF Fail, startVars
<1>5. CASE WriteFile
  BY <1>5 DEF WriteFile, startVars
<1>6. CASE generate_example_to_file
  <2>1. file' \in Config
    BY <1>6 DEF generate_example_to_file, Config
  <2> QED BY <1>6, <2>1 DEF generate_example_to_file, startVars
<1>7. CASE AddInterface \/ DeleteInterface \/ AddPeer \/ SetDown \/ RouteElsewhere
  BY <1>7 DEF AddInterface, DeleteInterface, AddPeer, SetDown, RouteElsewhere, Alone,
              startVars
<1>8. CASE UNCHANGED vars
  BY <1>8 DEF vars, startVars
<1> QED BY <1>1, <1>2, <1>3, <1>4, <1>5, <1>6, <1>7, <1>8 DEF Next, start, User

\* Each call does its part, and no call or user undoes the part of an earlier one.
LEMMA NextDone == IInv /\ [Next]_vars => Done'
<1> SUFFICES ASSUME IInv, [Next]_vars PROVE Done'
  OBVIOUS
<1> USE DEF IInv
<1>1. CASE Start \/ Show \/ read_from_file \/ configure_partly \/ Fail
  BY <1>1 DEF Start, Show, read_from_file, configure_partly, Fail, Goes, Done
<1>2. CASE configure
  <2>1. config \in Config /\ Parses(config) /\ config' = config
    BY <1>2 DEF configure, ConfigsRead, Goes, startVars
  <2>2. /\ key' = config.private_key
        /\ keepalive' = keepalive \cup PeersUpTo(config, Len(config.peers))
        /\ Routed(config)'
    BY <1>2, <2>1, ApplyRoutes DEF configure
  <2>3. ConfigPeers' \subseteq keepalive'
    BY <2>1, <2>2 DEF ConfigPeers
  <2> QED BY <1>2, <2>1, <2>2, <2>3 DEF configure, Goes, Done, Parses, startVars
<1>3. CASE configure_peers
  BY <1>3 DEF configure_peers, Goes, Done, startVars
<1>4. CASE set_addr \/ set_up \/ add_route
  <2>1. /\ UNCHANGED <<key, keepalive, allowed, config, no_config, peers, elsewhere>>
        /\ pc \in {"addr", "up", "route"} /\ ~no_config
    BY <1>4 DEF set_addr, set_up, add_route, Goes, startVars, wgVars, ConfigsRead
  <2>2. Routed(config) => Routed(config)'
    BY <2>1 DEF Routed
  <2>3. /\ key' = config'.private_key /\ ConfigPeers' \subseteq keepalive'
        /\ Parses(config)' /\ Routed(config)'
    BY <2>1, <2>2 DEF Done, ConfigPeers, PeersUpTo, Parses
  <2>4. pc' = "up" => config'.address \in addrs'
    BY <1>4, <2>1 DEF set_addr, set_up, add_route, Goes
  <2>5. pc' = "route" => config'.address \in addrs' /\ up'
    BY <1>4, <2>1 DEF set_addr, set_up, add_route, Goes, Done
  <2>6. pc' = "shown" =>
          config'.address \in addrs' /\ up' /\ config'.address \in routes' \cup elsewhere'
    BY <1>4, <2>1 DEF set_addr, set_up, add_route, Goes, Done
  <2> QED BY <1>4, <2>1, <2>3, <2>4, <2>5, <2>6 DEF set_addr, set_up, add_route, Goes, Done
<1>5. CASE Monitor
  BY <1>5 DEF Monitor, Goes, Done
<1>6. CASE WriteFile \/ generate_example_to_file \/ UNCHANGED vars
  <2>1. UNCHANGED <<pc, no_config, config, key, peers, keepalive, allowed, addrs, up,
                    routes, elsewhere>>
    BY <1>6 DEF WriteFile, generate_example_to_file, vars, startVars, wgVars, inetVars
  <2> QED BY <2>1 DEF Done, ConfigPeers, PeersUpTo, Parses, Routed
<1>7. CASE AddInterface \/ DeleteInterface \/ AddPeer \/ SetDown \/ RouteElsewhere
  <2>1. pc \in {"off", "monitor"} /\ pc' = pc
    BY <1>7 DEF AddInterface, DeleteInterface, AddPeer, SetDown, RouteElsewhere, Alone
  <2> QED BY <2>1 DEF Done
<1> QED BY <1>1, <1>2, <1>3, <1>4, <1>5, <1>6, <1>7 DEF Next, start, User

\* Both hold of every start.
LEMMA Inductive == Spec => []IInv
<1>1. IInv /\ [Next]_vars => IInv'
  BY NextConfigs, NextDone DEF IInv
<1> QED BY InitInvariant, <1>1, PTL DEF Spec

\* The only way to begin monitoring is the last step of a start.
LEMMA OnlyMonitor ==
  ASSUME [Next]_vars, pc # "monitor", pc' = "monitor"
  PROVE  pc = "shown"
BY DEF Next, start, User, Start, Show, read_from_file, configure, configure_partly,
   configure_peers, set_addr, set_up, add_route, Monitor, Fail, WriteFile,
   generate_example_to_file, AddInterface, DeleteInterface, AddPeer, SetDown,
   RouteElsewhere, Alone, Goes, vars

\* For any configs, of any number of peers, read by any number of starts: the
\* daemon does not monitor an interface that is not as its config says.
THEOREM Configured == Spec => RunsConfigured
<1>1. IInv /\ [Next]_vars =>
        (pc # "monitor" /\ pc' = "monitor" =>
           IF no_config THEN keepalive = peers
           ELSE /\ key = config.private_key
                /\ ConfigPeers \subseteq keepalive
                /\ config.address \in addrs /\ up
                /\ config.address \in routes \cup elsewhere)
  BY OnlyMonitor DEF IInv, Done
<1> QED BY <1>1, Inductive, PTL DEF Spec, RunsConfigured

\* Where addresses differ in their first 32 bits, as those of IPv4 do, what is
\* sent to the IP of a peer goes to that peer.
THEOREM Routable ==
  ASSUME \A a, b \in Ips : First32[a] = First32[b] => a = b
  PROVE  Spec => PeersRoutable
<1>1. IInv /\ [Next]_vars =>
        (pc # "monitor" /\ pc' = "monitor" /\ ~no_config =>
           \A i \in DOMAIN config.peers :
             LET ip == config.peers[i].allowed_ips IN
             (\A j \in DOMAIN config.peers : j > i => config.peers[j].allowed_ips # ip) =>
               allowed[First32[ip]] = config.peers[i].public_key)
  <2> SUFFICES ASSUME IInv, [Next]_vars, pc # "monitor", pc' = "monitor", ~no_config,
                      NEW i \in DOMAIN config.peers,
                      \A j \in DOMAIN config.peers :
                        j > i => config.peers[j].allowed_ips # config.peers[i].allowed_ips
               PROVE  allowed[First32[config.peers[i].allowed_ips]] =
                        config.peers[i].public_key
    OBVIOUS
  <2>1. config \in Config /\ Parses(config) /\ Routed(config)
    BY OnlyMonitor DEF IInv, ConfigsRead, Done
  <2>2. \A j \in DOMAIN config.peers : config.peers[j].allowed_ips \in Ips
    BY <2>1, IpsParsed
  <2>3. \A j \in DOMAIN config.peers :
          j > i => First32[config.peers[j].allowed_ips] # First32[config.peers[i].allowed_ips]
    BY <2>2
  <2> QED BY <2>1, <2>3 DEF Routed
<1> QED BY <1>1, Inductive, PTL DEF Spec, PeersRoutable

\* Of the first n numbers, those of a set that is not empty have a last one.
LEMMA LastOf ==
  ASSUME NEW n \in Nat, NEW S, S \subseteq 1 .. n, S # {}
  PROVE  \E i \in S : \A j \in S : j <= i
<1> DEFINE T == {n - i : i \in S}
<1>1. T \subseteq Nat /\ T # {}
  <2>1. \A i \in 1 .. n : n - i \in Nat
    OBVIOUS
  <2> QED BY <2>1
<1>2. PICK d \in T : \A e \in T : d <= e
  <2> DEFINE Less == OpToRel(<, Nat)
  <2>1. IsWellFoundedOn(Less, Nat)
    BY NatLessThanWellFounded
  <2>2. \A m, k \in Nat : <<m, k>> \in Less <=> m < k
    BY DEF OpToRel
  <2> HIDE DEF T, Less
  <2>3. \E d \in T : \A e \in T : ~ (<<e, d>> \in Less)
    BY <1>1, <2>1, WFMin
  <2>4. \A d, e \in Nat : d <= e <=> ~ (e < d)
    OBVIOUS
  <2> QED BY <1>1, <2>2, <2>3, <2>4
<1>3. PICK i \in S : d = n - i
  OBVIOUS
<1>4. ASSUME NEW j \in S PROVE j <= i
  <2>1. n - i <= n - j
    BY <1>2, <1>3
  <2>2. {n, i, j} \subseteq Int
    OBVIOUS
  <2> QED BY <2>1, <2>2
<1> QED BY <1>4

\* What a device update of a config that parses leaves, through or not.
LEMMA ApplyTypes ==
  ASSUME TypeOK, NEW c \in Config, Parses(c), NEW n \in 0 .. Len(c.peers), Apply(c, n)
  PROVE  /\ key' \in Keys /\ peers' \subseteq Peers /\ keepalive' \subseteq peers'
         /\ allowed' \in [Blocks -> Peers \cup {None}]
<1> DEFINE Peer == [public_key : Peers \cup {Bad}, allowed_ips : Ips \cup {Bad}]
<1>1. /\ c.private_key \in Keys
      /\ c.peers \in Seq(Peer) /\ n \in Nat /\ 1 .. n \subseteq DOMAIN c.peers
  BY DEF Config, Parses
<1>2. ASSUME NEW i \in 1 .. n PROVE c.peers[i].public_key \in Peers
  <2>1. i \in DOMAIN c.peers
    BY <1>1
  <2>2. c.peers[i] \in Peer
    <3> HIDE DEF Peer
    <3> QED BY <1>1, <2>1
  <2>3. c.peers[i].public_key # Bad
    BY <2>1 DEF Parses
  <2> QED BY <2>2, <2>3
<1>3. PeersUpTo(c, n) \subseteq Peers
  BY <1>2 DEF PeersUpTo
<1>4. ASSUME NEW b \in Blocks, Claims(c, n, b) # {}
      PROVE  c.peers[CHOOSE i \in Claims(c, n, b) : \A j \in Claims(c, n, b) : j <= i].public_key
               \in Peers
  <2> DEFINE S == Claims(c, n, b)
             last == CHOOSE i \in S : \A j \in S : j <= i
  <2>1. S \subseteq 1 .. n /\ S # {}
    BY <1>4 DEF Claims
  <2>2. last \in S
    <3> HIDE DEF S
    <3>1. \E i \in S : \A j \in S : j <= i
      BY <1>1, <2>1, LastOf
    <3> QED BY <3>1
  <2> HIDE DEF last, S
  <2>3. c.peers[last].public_key \in Peers
    BY <1>2, <2>1, <2>2
  <2> QED BY <2>3 DEF last, S
<1>5. AllowedUpTo(c, n) \in [Blocks -> Peers \cup {None}]
  BY <1>4 DEF AllowedUpTo, TypeOK
<1> QED BY <1>1, <1>3, <1>5 DEF Apply, TypeOK

\* The invariant keeps the types: what a start reads it has read from a file that
\* parses, and what it sets up is of the parts that it needs.
LEMMA NextTypes == TypeOK /\ IInv /\ [Next]_vars => TypeOK'
<1> SUFFICES ASSUME TypeOK, IInv, [Next]_vars PROVE TypeOK'
  OBVIOUS
<1> USE DEF Goes, Stages, startVars, wgVars, inetVars
<1>1. CASE Start \/ Show \/ read_from_file
  BY <1>1 DEF Start, Show, read_from_file, TypeOK
<1>2. CASE configure \/ configure_partly
  <2>1. config \in Config /\ Parses(config)
    BY <1>2 DEF configure, configure_partly, IInv, ConfigsRead
  <2>2. Len(config.peers) \in 0 .. Len(config.peers)
    <3>1. Len(config.peers) \in Nat
      BY <2>1 DEF Config
    <3> QED BY <3>1
  <2>3. \E n \in 0 .. Len(config.peers) : Apply(config, n)
    BY <1>2, <2>2 DEF configure, configure_partly
  <2>4. /\ key' \in Keys /\ peers' \subseteq Peers /\ keepalive' \subseteq peers'
        /\ allowed' \in [Blocks -> Peers \cup {None}]
    BY <2>1, <2>3, ApplyTypes
  <2>5. /\ pc' \in {"addr", "off"}
        /\ UNCHANGED <<startVars, file, exists, inetVars, elsewhere, edits>>
    BY <1>2 DEF configure, configure_partly
  <2> QED BY <2>4, <2>5 DEF TypeOK
<1>3. CASE configure_peers
  BY <1>3 DEF configure_peers, TypeOK
<1>4. CASE set_addr \/ set_up
  <2>1. pc = "addr" => config \in Config
    BY <1>4 DEF set_addr, IInv, ConfigsRead
  <2>2. addrs' \subseteq Nets
    BY <1>4, <2>1 DEF set_addr, set_up, TypeOK, Config
  <2> QED BY <1>4, <2>2 DEF set_addr, set_up, TypeOK
<1>5. CASE add_route
  <2>1. config.address \in addrs
    BY <1>5 DEF add_route, IInv, ConfigsRead, Done
  <2>2. routes' \subseteq Nets
    BY <1>5, <2>1 DEF add_route, TypeOK
  <2> QED BY <1>5, <2>2 DEF add_route, TypeOK
<1>6. CASE Monitor \/ Fail
  BY <1>6 DEF Monitor, Fail, TypeOK
<1>7. CASE WriteFile
  <2>1. file' \in Config \cup {Bad}
    BY <1>7, ConfigAssumption DEF WriteFile
  <2> QED BY <1>7, <2>1 DEF WriteFile, Edit, TypeOK
<1>8. CASE generate_example_to_file
  <2>1. file' \in Config
    BY <1>8 DEF generate_example_to_file, Config
  <2> QED BY <1>8, <2>1 DEF generate_example_to_file, Edit, TypeOK
<1>9. CASE AddInterface \/ DeleteInterface \/ AddPeer \/ SetDown \/ RouteElsewhere
  <2>1. edits' \in Nat /\ UNCHANGED <<pc, startVars, file>>
    BY <1>9 DEF AddInterface, DeleteInterface, AddPeer, SetDown, RouteElsewhere, Alone,
                Edit, TypeOK
  <2>2. CASE AddInterface \/ SetDown \/ RouteElsewhere
    BY <2>1, <2>2 DEF AddInterface, SetDown, RouteElsewhere, TypeOK
  <2>3. CASE DeleteInterface
    BY <2>1, <2>3 DEF DeleteInterface, NobodyAllowed, TypeOK
  <2>4. CASE AddPeer
    BY <2>1, <2>4 DEF AddPeer, TypeOK
  <2> QED BY <1>9, <2>2, <2>3, <2>4
<1>10. CASE UNCHANGED vars
  BY <1>10 DEF vars, TypeOK
<1> QED BY <1>1, <1>2, <1>3, <1>4, <1>5, <1>6, <1>7, <1>8, <1>9, <1>10 DEF Next, start, User

\* Whatever the config file says and wherever starts end, the interface only ever
\* has a key, peers and addresses that are such, and keepalives of its own peers.
THEOREM TypeCorrect == Spec => []TypeOK
<1>1. Init => TypeOK
  <2> SUFFICES ASSUME Init PROVE TypeOK
    OBVIOUS
  <2>1. {no_config, exists, up} \subseteq BOOLEAN
    BY DEF Init
  <2>2. allowed \in [Blocks -> Peers \cup {None}] /\ edits \in Nat /\ pc = "off"
    BY DEF Init, NobodyAllowed
  <2>3. /\ config = None /\ file = None /\ key = None
        /\ {peers, keepalive, addrs, routes, elsewhere} = {{}}
    BY DEF Init
  <2> QED BY <2>1, <2>2, <2>3 DEF TypeOK
<1> QED BY <1>1, NextTypes, Inductive, PTL DEF Spec
=============================================================================
