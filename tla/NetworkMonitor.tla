---------------------------- MODULE NetworkMonitor ----------------------------
(***************************************************************************)
(* What the client knows of the network it is on: client/src/netstat.rs.   *)
(* The fields of a NetInfo that are compared, the public addresses and the *)
(* LAN addresses, are one value here, a place; places with a public        *)
(* address are the online ones.                                            *)
(***************************************************************************)

CONSTANTS
  Places,        \* what NetInfo::detect may find
  OnlinePlaces,  \* the places with a public address
  None

ASSUME PlacesAssumption == OnlinePlaces \subseteq Places /\ None \notin Places

\* Equality of NetInfo does not look at hard_nat.
NetInfo == [at : Places, hard_nat : BOOLEAN]

ASSUME NoInfoAssumption == None \notin NetInfo

detect(place) == [at |-> place, hard_nat |-> FALSE]

online(info) == info.at \in OnlinePlaces

Monitors == [current : NetInfo \cup {None}, last_online : NetInfo \cup {None}]

NewMonitor == [current |-> None, last_online |-> None]

needs_relay(m) == m.current # None /\ m.current.hard_nat

\* set_hard_nat(true); it is only called after a check_status.
set_hard_nat(m) == [m EXCEPT !.current.hard_nat = TRUE]

Statuses == {"ChangedToNew", "ChangedToPrev", "Online", "HardNat", "Offline"}

\* Mutant: a hard NAT does not matter as long as the network stays.
status_soft(m, place) ==
  IF m.current = None THEN "ChangedToNew"
  ELSE IF place \notin OnlinePlaces THEN "Offline"
  ELSE IF place = m.current.at THEN "Online"
  ELSE "ChangedToNew"

\* What check_status returns when it finds the client at place.
status_of(m, place) ==
  IF m.current = None THEN "ChangedToNew"
  ELSE IF place \notin OnlinePlaces THEN "Offline"
  ELSE IF place = m.current.at
       THEN IF m.current.hard_nat THEN "HardNat" ELSE "Online"
  ELSE IF ~online(m.current) /\ m.last_online.at = place
       THEN IF m.last_online.hard_nat THEN "HardNat" ELSE "ChangedToPrev"
  ELSE "ChangedToNew"

\* What it does to the monitor: a network that stays is left alone, and a
\* network that is new becomes the last one online, even the very first one
\* found if that has no public address.
after_check(m, place) ==
  IF m.current # None /\ place \in OnlinePlaces /\ place = m.current.at THEN m
  ELSE IF status_of(m, place) = "ChangedToNew"
       THEN [current |-> detect(place), last_online |-> detect(place)]
  ELSE [m EXCEPT !.current = detect(place)]
=============================================================================
