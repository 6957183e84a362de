------------------------------- MODULE WgSetup -------------------------------
(***************************************************************************)
(* How wireplugd starts on Linux, up to the loop of Wireplugd: start of    *)
(* client/src/main.rs, configure of client/src/wg_interface.rs and the     *)
(* calls of client/src/netlink.rs, which change the interface one by one.  *)
(*                                                                         *)
(* Each call may fail, and the process may be killed between two of them;  *)
(* either way the start ends with the interface as the calls before have   *)
(* left it, and the next one begins there.                                 *)
(***************************************************************************)
EXTENDS Naturals, Sequences

CONSTANTS
  Peers,      \* public keys
  Keys,       \* private keys
  Ips,        \* addresses of peers, of IPv4 and of IPv6
  Blocks,     \* what the first 32 bits of an address may be, family included
  First32,    \* First32[ip]: what they are
  Nets,       \* addresses of the interface, each with its prefix; no two of one network
  Bad,        \* a string that does not parse
  None,       \* no file, no key, no peer
  Contents,   \* what the user may write to the config file
  MaxEdits    \* bound: times that the user interferes

\* Config, with the strings parsed.
Config ==
  [private_key : Keys \cup {Bad}, address : Nets \cup {Bad},
   peers : Seq([public_key : Peers \cup {Bad}, allowed_ips : Ips \cup {Bad}])]

ASSUME First32Assumption == First32 \in [Ips -> Blocks]
ASSUME ConfigAssumption ==
  /\ Contents \subseteq Config /\ None \notin Config \cup {Bad} /\ Bad \notin Config
  /\ None \notin Peers \cup Keys /\ Bad \notin Peers \cup Keys \cup Nets \cup Ips
  /\ MaxEdits \in Nat

VARIABLES
  pc, no_config, config,      \* the start under way
  file,                       \* /etc/wireplugd.<interface>
  exists,                     \* the interface, and on it:
  key, peers, keepalive,      \* its key, its peers, and those with a keepalive
  allowed,                    \* who has an allowed IP
  addrs, up, routes,          \* its addresses, its flag, and routes through it
  elsewhere,                  \* routes through another interface
  edits                       \* what MaxEdits counts

startVars == <<no_config, config>>
wgVars == <<key, peers, keepalive, allowed>>
inetVars == <<addrs, up, routes>>
vars == <<pc, startVars, file, exists, wgVars, inetVars, elsewhere, edits>>

NobodyAllowed == [b \in Blocks |-> None]

Init ==
  /\ pc = "off" /\ no_config = FALSE /\ config = None
  /\ file = None /\ exists = FALSE
  /\ key = None /\ peers = {} /\ keepalive = {} /\ allowed = NobodyAllowed
  /\ addrs = {} /\ up = FALSE /\ routes = {}
  /\ elsewhere = {} /\ edits = 0

Stages == {"show", "read", "configure", "addr", "up", "route", "shown"}

Goes(from, to) == pc = from /\ pc' = to

-----------------------------------------------------------------------------
Start ==
  /\ Goes("off", "show")
  /\ no_config' \in BOOLEAN /\ config' = None
  /\ UNCHANGED <<file, exists, wgVars, inetVars, elsewhere, edits>>

\* The first show_config, which fails where there is no interface.
Show ==
  /\ Goes("show", IF no_config THEN "configure" ELSE "read")
  /\ exists
  /\ UNCHANGED <<startVars, file, exists, wgVars, inetVars, elsewhere, edits>>

read_from_file ==
  /\ Goes("read", "configure")
  /\ file \notin {None, Bad}
  /\ config' = file
  /\ UNCHANGED <<no_config, file, exists, wgVars, inetVars, elsewhere, edits>>

\* Mutant: a key or an IP of a peer that does not parse is added all the same.
ParsesOwnKey(c) == c.private_key # Bad

\* Every key and every IP is parsed before anything is done with one.
Parses(c) ==
  /\ c.private_key # Bad
  /\ \A i \in DOMAIN c.peers : Bad \notin {c.peers[i].public_key, c.peers[i].allowed_ips}

\* The device update, as far as the n-th peer: set_keypair and add_peers, which
\* adds to the peers of the device and to their allowed IPs.  An allowed IP is
\* one of 32 bits, whatever its family, and belongs to who got it last.
PeersUpTo(c, n) == {c.peers[i].public_key : i \in 1 .. n}

Claims(c, n, b) == {i \in 1 .. n : First32[c.peers[i].allowed_ips] = b}

\* Mutant: who has an allowed IP keeps it.
AllowedByFirst(c, n) ==
  [b \in Blocks |->
     IF Claims(c, n, b) = {} \/ allowed[b] # None THEN allowed[b]
     ELSE c.peers[CHOOSE i \in Claims(c, n, b) : \A j \in Claims(c, n, b) : j <= i].public_key]

AllowedUpTo(c, n) ==
  [b \in Blocks |->
     IF Claims(c, n, b) = {} THEN allowed[b]
     ELSE c.peers[CHOOSE i \in Claims(c, n, b) : \A j \in Claims(c, n, b) : j <= i].public_key]

\* Mutant: peers that are there are left as they are.
ApplyToNew(c, n) ==
  /\ key' = c.private_key
  /\ peers' = peers \cup PeersUpTo(c, n)
  /\ keepalive' = keepalive \cup (PeersUpTo(c, n) \ peers)
  /\ allowed' = AllowedUpTo(c, n)

Apply(c, n) ==
  /\ key' = c.private_key
  /\ peers' = peers \cup PeersUpTo(c, n)
  /\ keepalive' = keepalive \cup PeersUpTo(c, n)
  /\ allowed' = AllowedUpTo(c, n)

configure ==
  /\ Goes("configure", "addr")
  /\ ~no_config /\ exists /\ Parses(config)
  /\ Apply(config, Len(config.peers))
  /\ UNCHANGED <<startVars, file, exists, inetVars, elsewhere, edits>>

\* A device update goes to the kernel in as many messages as it takes.
configure_partly ==
  /\ Goes("configure", "off")
  /\ ~no_config /\ exists /\ Parses(config)
  /\ \E n \in 0 .. Len(config.peers) : Apply(config, n)
  /\ UNCHANGED <<startVars, file, exists, inetVars, elsewhere, edits>>

\* --no-config: the peers that the device has get a keepalive.
configure_peers ==
  /\ Goes("configure", "shown")
  /\ no_config /\ exists
  /\ keepalive' = peers
  /\ UNCHANGED <<startVars, file, exists, key, peers, allowed, inetVars, elsewhere, edits>>

-----------------------------------------------------------------------------
\* configure_inet, for which the address is parsed.

set_addr ==
  /\ Goes("addr", "up")
  /\ exists /\ config.address # Bad
  /\ addrs' = addrs \cup {config.address}
  /\ UNCHANGED <<startVars, file, exists, wgVars, up, routes, elsewhere, edits>>

set_up ==
  /\ Goes("up", "route")
  /\ exists
  /\ up' = TRUE
  /\ UNCHANGED <<startVars, file, exists, wgVars, addrs, routes, elsewhere, edits>>

\* Mutant: a route that is there already is an error.
add_route_once ==
  /\ Goes("route", "shown")
  /\ exists /\ config.address \notin routes \cup elsewhere
  /\ routes' = routes \cup {config.address}
  /\ UNCHANGED <<startVars, file, exists, wgVars, addrs, up, elsewhere, edits>>

\* A route that is there already will do, whichever interface it goes through.
add_route ==
  /\ Goes("route", "shown")
  /\ exists
  /\ routes' = IF config.address \in elsewhere THEN routes
               ELSE routes \cup {config.address}
  /\ UNCHANGED <<startVars, file, exists, wgVars, addrs, up, elsewhere, edits>>

\* The second show_config and monitor_interface.
Monitor ==
  /\ Goes("shown", "monitor")
  /\ exists
  /\ UNCHANGED <<startVars, file, exists, wgVars, inetVars, elsewhere, edits>>

\* A call fails, a string does not parse, or the process is killed.
Fail ==
  /\ pc \in Stages \cup {"monitor"} /\ pc' = "off"
  /\ UNCHANGED <<startVars, file, exists, wgVars, inetVars, elsewhere, edits>>

-----------------------------------------------------------------------------
\* The user, who leaves the interface alone while a start is under way, but not
\* the config file.

Edit == edits < MaxEdits /\ edits' = edits + 1

Alone == pc \in {"off", "monitor"} /\ Edit /\ UNCHANGED <<pc, startVars, file>>

WriteFile ==
  /\ Edit
  /\ file' \in Contents \cup {Bad}
  /\ UNCHANGED <<pc, startVars, exists, wgVars, inetVars, elsewhere>>

\* --generate-config: a new key and a peer whose key is no key.
generate_example_to_file ==
  /\ Edit
  /\ file = None
  /\ \E k \in Keys, address \in Nets, ip \in Ips :
       file' = [private_key |-> k, address |-> address,
                peers |-> <<[public_key |-> Bad, allowed_ips |-> ip]>>]
  /\ UNCHANGED <<pc, startVars, exists, wgVars, inetVars, elsewhere>>

AddInterface ==
  /\ Alone
  /\ ~exists /\ exists' = TRUE
  /\ UNCHANGED <<wgVars, inetVars, elsewhere>>

DeleteInterface ==
  /\ Alone
  /\ exists /\ exists' = FALSE
  /\ key' = None /\ peers' = {} /\ keepalive' = {} /\ allowed' = NobodyAllowed
  /\ addrs' = {} /\ up' = FALSE /\ routes' = {}
  /\ UNCHANGED elsewhere

\* A peer is added to the device, without a keepalive.
AddPeer ==
  /\ Alone
  /\ exists
  /\ \E p \in Peers \ peers : peers' = peers \cup {p}
  /\ UNCHANGED <<exists, key, keepalive, allowed, inetVars, elsewhere>>

\* Routes go with the interface that they lead through.
SetDown ==
  /\ Alone
  /\ up /\ up' = FALSE /\ routes' = {}
  /\ UNCHANGED <<exists, wgVars, addrs, elsewhere>>

RouteElsewhere ==
  /\ Alone
  /\ \E net \in Nets \ (routes \cup elsewhere) : elsewhere' = elsewhere \cup {net}
  /\ UNCHANGED <<exists, wgVars, inetVars>>

-----------------------------------------------------------------------------
start ==
  \/ Show \/ read_from_file
  \/ configure \/ configure_partly \/ configure_peers
  \/ set_addr \/ set_up \/ add_route
  \/ Monitor

User ==
  \/ WriteFile \/ generate_example_to_file
  \/ AddInterface \/ DeleteInterface \/ AddPeer \/ SetDown \/ RouteElsewhere

Next == Start \/ start \/ Fail \/ User

Spec == Init /\ [][Next]_vars

\* The daemon is started again whenever it ends; a start goes on or fails, and no
\* call fails at every start.
Fairness ==
  /\ WF_vars(Start) /\ WF_vars(pc \in Stages /\ (start \/ Fail))
  /\ SF_vars(Show) /\ SF_vars(read_from_file)
  /\ SF_vars(configure) /\ SF_vars(configure_peers)
  /\ SF_vars(set_addr) /\ SF_vars(set_up) /\ SF_vars(add_route) /\ SF_vars(Monitor)

FairSpec == Spec /\ Fairness

-----------------------------------------------------------------------------
\* Properties.

\* The types of the variables.
TypeOK ==
  /\ pc \in Stages \cup {"off", "monitor"}
  /\ no_config \in BOOLEAN /\ config \in Config \cup {None}
  /\ file \in Config \cup {None, Bad}
  /\ exists \in BOOLEAN /\ key \in Keys \cup {None}
  /\ peers \subseteq Peers /\ keepalive \subseteq peers
  /\ allowed \in [Blocks -> Peers \cup {None}]
  /\ addrs \subseteq Nets /\ up \in BOOLEAN
  /\ routes \subseteq Nets /\ elsewhere \subseteq Nets
  /\ edits \in Nat

ConfigPeers == PeersUpTo(config, Len(config.peers))

\* Monitoring never begins on an interface that is not what the config read by
\* this start says, whatever starts before it, with other configs, have left
\* half done: its key, its peers with their keepalives, its address and a route,
\* and it is up.  Without a config all of its peers have a keepalive.
RunsConfigured ==
  [][pc # "monitor" /\ pc' = "monitor" =>
       IF no_config THEN keepalive = peers
       ELSE /\ key = config.private_key
            /\ ConfigPeers \subseteq keepalive
            /\ config.address \in addrs /\ up
            /\ config.address \in routes \cup elsewhere]_vars

\* By then, too, what is sent to the IP of a peer goes to that peer, if the
\* config gives the IP to nobody after it.  README.md: AllowedIPs is where
\* `outbound packets may be routed`.
PeersRoutable ==
  [][pc # "monitor" /\ pc' = "monitor" /\ ~no_config =>
       \A i \in DOMAIN config.peers :
         LET ip == config.peers[i].allowed_ips IN
         (\A j \in DOMAIN config.peers : j > i => config.peers[j].allowed_ips # ip) =>
           allowed[First32[ip]] = config.peers[i].public_key]_vars

\* With an interface, and a config that parses, the daemon comes to monitor
\* again and again, as often as it is killed, fails on the way or is reconfigured.
Startable ==
  exists /\ file \notin {None, Bad} /\ Parses(file) /\ file.address # Bad

StartsAgain == <>[]Startable => []<>(pc = "monitor")
=============================================================================
