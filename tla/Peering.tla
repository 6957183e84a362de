------------------------------- MODULE Peering -------------------------------
(***************************************************************************)
(* The records of the coordination server and the three functions that     *)
(* read and change them: server/src/peering.rs.  Each is an operator from  *)
(* the records before to the records after; Wpcod says when they run.      *)
(***************************************************************************)
EXTENDS Protocol, Integers

CONSTANTS
  RecordTimeout   \* RECORD_TIMEOUT_SEC, in ticks of the clock

ASSUME TimeoutAssumption == RecordTimeout \in Nat \ {0}

\* A record as process_announcement builds it.
RecordOf(a, src, t) ==
  [wan_ipv4 |-> src, wan_ipv6 |-> a.ipv6, lan_addrs |-> a.lan_addrs,
   wg_port |-> a.wg_port, timestamp |-> t, needs_relay |-> a.needs_relay]

Record ==
  [wan_ipv4 : V4, wan_ipv6 : Ipv6Opts, lan_addrs : LanLists, wg_port : Ports,
   timestamp : Nat, needs_relay : BOOLEAN]

ASSUME NoneAssumption ==
  None \notin Record \cup Announcement \cup Addrs

\* PeeringRecords: a map from (announcing peer, named peer) to a Record, here
\* a total function that is None where the map has no entry.
Pairs == Keys \X Keys

PeeringRecords == [Pairs -> Record \cup {None}]

NoRecords == [k \in Pairs |-> None]

-----------------------------------------------------------------------------
\* get_peer_endpoints

\* Mutant: the pair is looked up the way it is stored, initiator first.
endpoint_of_self(records, a, src, p) ==
  LET r == records[<<a.initiator_pubkey, p>>]
  IN  IF r = None THEN Unknown
      ELSE IF src = r.wan_ipv4
           THEN LocalNetwork(r.wan_ipv6, r.lan_addrs, r.wg_port)
           ELSE RemoteNetwork(r.wan_ipv4, r.wan_ipv6, r.wg_port)

\* Mutant: the comparison of the two public addresses is inverted.
endpoint_inverted(records, a, src, p) ==
  LET r == records[<<p, a.initiator_pubkey>>]
  IN  IF r = None THEN Unknown
      ELSE IF src # r.wan_ipv4
           THEN LocalNetwork(r.wan_ipv6, r.lan_addrs, r.wg_port)
           ELSE RemoteNetwork(r.wan_ipv4, r.wan_ipv6, r.wg_port)

endpoint_of(records, a, src, p) ==
  LET r == records[<<p, a.initiator_pubkey>>]
  IN  IF r = None THEN Unknown
      ELSE IF src = r.wan_ipv4
           THEN LocalNetwork(r.wan_ipv6, r.lan_addrs, r.wg_port)
           ELSE RemoteNetwork(r.wan_ipv4, r.wan_ipv6, r.wg_port)

get_peer_endpoints(records, a, src) ==
  [p \in a.peer_pubkeys |-> endpoint_of(records, a, src, p)]

-----------------------------------------------------------------------------
\* process_announcement

PairsOf(a) == {a.initiator_pubkey} \X a.peer_pubkeys

\* Mutant: a record is stored the way it is looked up, named peer first.
process_announcement_reversed(records, a, src, t) ==
  [k \in Pairs |->
     IF <<k[2], k[1]>> \in PairsOf(a) THEN RecordOf(a, src, t) ELSE records[k]]

process_announcement(records, a, src, t) ==
  [k \in Pairs |-> IF k \in PairsOf(a) THEN RecordOf(a, src, t) ELSE records[k]]

-----------------------------------------------------------------------------
\* remove_old_records

\* Mutant: only the failure of duration_since is handled.
KeptForever(r, t) == r.timestamp <= t

\* Mutant: records stay half as long.
KeptTooShort(r, t) == r.timestamp <= t /\ t - r.timestamp < RecordTimeout - 1

\* duration_since fails on a timestamp that lies in the future.
Kept(r, t) == r.timestamp <= t /\ t - r.timestamp < RecordTimeout

remove_old_records(records, t) ==
  [k \in Pairs |-> IF records[k] # None /\ Kept(records[k], t)
                     THEN records[k] ELSE None]
=============================================================================
