--------------------------- MODULE MCWpcodDirectory ---------------------------
(***************************************************************************)
(* Wpcod and its refinement of Directory on a small instance.              *)
(***************************************************************************)
EXTENDS WpcodDirectory, TLC

CONSTANTS alice, bob, junk, home, cafe, six, lan, noV6, nobody, c1, c2

Announce(from, to, port, relay) ==
  [initiator_pubkey |-> from, peer_pubkeys |-> to, ipv6 |-> noV6,
   wg_port |-> port, lan_addrs |-> lan, needs_relay |-> relay]

\* One that names two peers, one of them the initiator, so that an answer and a
\* recording have more than one row to be atomic about; one of the other peer; and
\* three that are invalid: by their port, a named key, and the initiator's.
OddAnnouncements ==
  {Announce(alice, {alice, bob}, 1024, TRUE), Announce(bob, {alice}, 2048, FALSE),
   Announce(alice, {bob}, 1023, FALSE), Announce(bob, {alice, junk}, 1024, FALSE),
   Announce(junk, {bob}, 1024, FALSE)}

ConnSymmetry == Permutations(Conns)
=============================================================================
