----------------------------- MODULE MCWireplugd -----------------------------
(***************************************************************************)
(* Wireplugd on small instances: the networks a laptop moves between.      *)
(***************************************************************************)
EXTENDS Wireplugd, TLC

CONSTANTS home, hotel, nowhere,   \* places
          alice, bob,             \* peers
          s1, s2,                 \* socket addresses
          nobody, none, untracked

\* What the NATs do to a port, for the two servers: home maps one port and keeps
\* another; hotel maps to one port per destination, but keeps one port for the
\* first server.
Mapping(place, server, port) ==
  CASE place = home -> IF port = 2000 THEN port ELSE port + 1000
    [] place = hotel -> IF port = 2000 /\ server = 1 THEN port ELSE port + 1000 * server

NatOf == [place \in OnlinePlaces |->
            [server \in {1, 2} |-> [port \in LocalPorts |->
               Mapping(place, server, port)]]]
=============================================================================
