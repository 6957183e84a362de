----------------------------- MODULE MCWgSetup -----------------------------
(***************************************************************************)
(* WgSetup on small instances: two peers, and what the user may write.     *)
(***************************************************************************)
EXTENDS WgSetup, TLC

CONSTANTS alice, bob, k1, k2, ipA, ipB, blockA, blockB, netA, netB, bad, none

Peer(p, ip) == [public_key |-> p, allowed_ips |-> ip]

\* Addresses of IPv4 differ in their first 32 bits.
Ipv4 == ipA :> blockA @@ ipB :> blockB

\* A config of both peers, one with another key and address, and one with an
\* address that does not parse.
Configs ==
  {[private_key |-> k1, address |-> netA, peers |-> <<Peer(alice, ipA), Peer(bob, ipB)>>],
   [private_key |-> k2, address |-> netB, peers |-> <<Peer(bob, ipA)>>],
   [private_key |-> k1, address |-> bad, peers |-> <<Peer(bob, ipB)>>]}
=============================================================================
