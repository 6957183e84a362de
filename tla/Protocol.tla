------------------------------ MODULE Protocol ------------------------------
(***************************************************************************)
(* The messages that wireplugd and wpcod exchange: shared/src/protocol.rs. *)
(*                                                                         *)
(* The data is kept only as far as the two programs tell values apart.  A  *)
(* public key is a member of Keys; an optional IPv6 address and a list of  *)
(* LAN addresses are opaque values that are only ever copied.              *)
(***************************************************************************)
EXTENDS Naturals

CONSTANTS
  Keys,       \* the strings a client may send where a public key is expected
  WgKeys,     \* those of them that have the shape of a WireGuard key
  V4, V6,     \* source addresses of announcements: IPv4 and IPv6
  Ipv6Opts,   \* values of an Option<Ipv6Addr>
  LanLists,   \* values of a Vec<IpNet>
  None        \* "no value yet"

ASSUME KeysAssumption == WgKeys \subseteq Keys
ASSUME AddrAssumption == V4 \cap V6 = {}

Addrs == V4 \cup V6

Ports == 0 .. 65535

\* peer_pubkeys is a Vec that is only iterated over, each turn depending on
\* the key alone: the order and the repetitions do not matter.
Announcement ==
  [initiator_pubkey : Keys, peer_pubkeys : SUBSET Keys, ipv6 : Ipv6Opts,
   wg_port : Ports, lan_addrs : LanLists, needs_relay : BOOLEAN]

valid(a) ==
  /\ a.initiator_pubkey \in WgKeys
  /\ a.peer_pubkeys \subseteq WgKeys
  /\ a.wg_port >= 1024

-----------------------------------------------------------------------------
\* WireplugEndpoint.  The Relay variant is never built: RELAY_ENABLED is
\* false in server/src/peering.rs.

Unknown == [kind |-> "Unknown"]

LocalNetwork(v6, lans, port) ==
  [kind |-> "LocalNetwork", ipv6 |-> v6, lan_addrs |-> lans, wg_port |-> port]

RemoteNetwork(v4, v6, port) ==
  [kind |-> "RemoteNetwork", ipv4 |-> v4, ipv6 |-> v6, wg_port |-> port]

WireplugEndpoint ==
  {Unknown}
    \cup [kind : {"LocalNetwork"}, ipv6 : Ipv6Opts, lan_addrs : LanLists,
          wg_port : Ports]
    \cup [kind : {"RemoteNetwork"}, ipv4 : V4, ipv6 : Ipv6Opts, wg_port : Ports]

-----------------------------------------------------------------------------
\* What a client finds on its connection: nothing, the version the server
\* speaks, or a WireplugResponse.

NoReply == [kind |-> "nothing"]

VersionReply == [kind |-> "version"]

WireplugResponse(endpoints) ==
  [kind |-> "response", peer_endpoints |-> endpoints]

IsReply(r) ==
  \/ r \in {NoReply, VersionReply}
  \/ /\ r = WireplugResponse(r.peer_endpoints)
     /\ DOMAIN r.peer_endpoints \subseteq Keys
     /\ \A p \in DOMAIN r.peer_endpoints : r.peer_endpoints[p] \in WireplugEndpoint
=============================================================================
