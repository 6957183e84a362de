---------------------------- MODULE WpcodDirectory ----------------------------
(***************************************************************************)
(* Wpcod implements Directory: the refinement mapping.                     *)
(*                                                                         *)
(* A row of the table is a record without its timestamp.  A request exists *)
(* from the moment a valid announcement has been read; the answer is given *)
(* where it is computed, in Lookup, although the client reads it later.    *)
(***************************************************************************)
EXTENDS Wpcod

\* What is left of a record without its timestamp and its flag.
Row ==
  [wan_ipv4 : V4, wan_ipv6 : Ipv6Opts, lan_addrs : LanLists, wg_port : Ports]

ASSUME RowAssumption == None \notin Row

rows == [k \in Pairs |->
  IF storage[k] = None THEN None
  ELSE [wan_ipv4 |-> storage[k].wan_ipv4, wan_ipv6 |-> storage[k].wan_ipv6,
        lan_addrs |-> storage[k].lan_addrs, wg_port |-> storage[k].wg_port]]

requests == [h \in Conns |->
  IF ann[h] # None /\ valid(ann[h]) THEN [ann |-> ann[h], addr |-> src[h]] ELSE None]

phases == [h \in Conns |->
  CASE stage[h] \in {"free", "tls"} -> "idle"
    [] stage[h] \in {"lookup", "locked"} -> "asked"
    [] stage[h] \in {"respond", "shutdown", "store"} -> "answered"
    [] stage[h] \in Stored -> "published"
    [] OTHER -> "dropped"]

answers == [h \in Conns |->
  IF reply[h].kind = "response" THEN reply[h].peer_endpoints ELSE None]

Abstract == INSTANCE Directory WITH
  Requests <- Conns, table <- rows, request <- requests, phase <- phases,
  answer <- answers

\* Every step of the server is a step of the directory or invisible in it: a
\* request is answered from one state of the records, whatever the sweeper and
\* the other connections do around it, and its announcement is recorded whole,
\* after the answer, at most once, and never if it was turned away.
ImplementsDirectory == Abstract!DirectorySpec
=============================================================================
