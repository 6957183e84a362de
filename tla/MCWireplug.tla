----------------------------- MODULE MCWireplug -----------------------------
(***************************************************************************)
(* Wireplug on small instances: two hosts and where they go.               *)
(***************************************************************************)
EXTENDS Wireplug, Sequences, TLC

CONSTANTS alice, bob,            \* the hosts
          home, cafe, nowhere, island,   \* the places
          h4, c4, a6, b6, noV6,
          nobody, none, untracked

\* Where the hosts come to: bob stays at home.
HomeAndCafe == (alice :> {home, cafe} @@ bob :> {home})
HomeAndNowhere == (alice :> {home, nowhere, island} @@ bob :> {home})

\* The address of a host on a private network of 3 bits, home and cafe having the
\* same block of addresses.
Lan(h) == <<[addr |-> IF h = alice THEN 1 ELSE 2, prefix_len |-> 1]>>

NetInfo(place, h, v6) ==
  IF place = nowhere THEN [wan_ipv4 |-> nobody, wan_ipv6 |-> noV6, lan_addrs |-> <<>>]
  ELSE [wan_ipv4 |-> CASE place = home -> h4 [] place = cafe -> c4 [] OTHER -> nobody,
        wan_ipv6 |-> v6, lan_addrs |-> Lan(h)]

Ipv6Of(place, h) == IF place # home THEN noV6 ELSE IF h = alice THEN a6 ELSE b6

AddrsWithIpv6 ==
  [place \in Places |-> [h \in Hosts |-> NetInfo(place, h, Ipv6Of(place, h))]]

\* The island has nothing else.
Ipv6OnIsland ==
  [place \in Places |-> [h \in Hosts |->
     NetInfo(place, h, IF place # island THEN noV6 ELSE Ipv6Of(home, h))]]

AllLanLists == {<<>>} \cup {Lan(h) : h \in {alice, bob}}

\* The cafe maps ports.
CafeMaps ==
  [place \in Places |-> [port \in Ports |->
     IF place = cafe THEN (port + 1000) % 65536 ELSE port]]
=============================================================================
