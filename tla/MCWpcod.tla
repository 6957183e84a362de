------------------------------- MODULE MCWpcod -------------------------------
(***************************************************************************)
(* Wpcod on small instances: the keys, addresses and announcements of the  *)
(* runs.                                                                   *)
(***************************************************************************)
EXTENDS Wpcod, TLC

CONSTANTS alice, bob, junk,   \* two peers, and a string that is not a key
          home, cafe, six,    \* two IPv4 addresses and an IPv6 one
          lan, noV6, nobody,
          c1, c2, c3

Announce(from, to, port, relay) ==
  [initiator_pubkey |-> from, peer_pubkeys |-> to, ipv6 |-> noV6,
   wg_port |-> port, lan_addrs |-> lan, needs_relay |-> relay]

\* Each peer names the other; alice has a second port, behind a NAT for which
\* she asks for a relay.
MutualAnnouncements ==
  {Announce(alice, {bob}, 1024, FALSE), Announce(alice, {bob}, 65535, TRUE),
   Announce(bob, {alice}, 1024, FALSE)}

\* One of each peer.
FewAnnouncements ==
  {Announce(alice, {bob}, 1024, TRUE), Announce(bob, {alice}, 1024, FALSE)}

ConnSymmetry == Permutations(Conns)
=============================================================================
