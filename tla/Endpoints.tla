------------------------------ MODULE Endpoints ------------------------------
(***************************************************************************)
(* From what the server says of a peer to a socket address for WireGuard:  *)
(* update_peers of client/src/wg_interface.rs, and the choice of a LAN     *)
(* address in client/src/utils.rs.                                         *)
(*                                                                         *)
(* An IPv4 address of a LAN is a number of Width bits and an IpNet such a  *)
(* number with the length of its prefix.                                   *)
(***************************************************************************)
EXTENDS Naturals

CONSTANTS
  Width,     \* bits of a LAN address
  NoIpv6,    \* the None of an Option<Ipv6Addr>
  NoSocket   \* no endpoint

LanAddr == 0 .. (2 ^ Width - 1)

IpNet == [addr : LanAddr, prefix_len : 0 .. Width]

contains(net, addr) ==
  LET block == 2 ^ (Width - net.prefix_len)
  IN  net.addr \div block = addr \div block

addrs_on_link(a, b) == contains(a, b.addr) /\ contains(b, a.addr)

\* Where find_lan_candidates finds addresses of the peer: the indices of one of
\* ours and one of theirs.
Candidates(ours, theirs) ==
  {c \in (DOMAIN ours) \X (DOMAIN theirs) : addrs_on_link(ours[c[1]], theirs[c[2]])}

\* The one that is found first, ours being the outer loop.
FirstCandidate(ours, theirs) ==
  LET Found == Candidates(ours, theirs)
      first == CHOOSE c \in Found : \A d \in Found :
                 c[1] < d[1] \/ (c[1] = d[1] /\ c[2] <= d[2])
  IN  theirs[first[2]].addr

SocketAddr(ip, port) == [ip |-> ip, port |-> port]

\* The address that update_peers sets for an endpoint of the response; it skips
\* a peer that is unknown, and one on this network that shares no LAN with us.
Resolve(endpoint, local_has_ipv6, ours) ==
  IF endpoint.kind = "Unknown" THEN NoSocket
  ELSE IF local_has_ipv6 /\ endpoint.ipv6 # NoIpv6
       THEN SocketAddr(endpoint.ipv6, endpoint.wg_port)
  ELSE IF endpoint.kind = "RemoteNetwork"
       THEN SocketAddr(endpoint.ipv4, endpoint.wg_port)
  ELSE IF Candidates(ours, endpoint.lan_addrs) # {}
       THEN SocketAddr(FirstCandidate(ours, endpoint.lan_addrs), endpoint.wg_port)
  ELSE NoSocket
=============================================================================
