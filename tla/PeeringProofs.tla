---------------------------- MODULE PeeringProofs ----------------------------
(***************************************************************************)
(* What the three functions on the records return and keep, whatever the   *)
(* records are: the lemmas that the proofs about the modules around them   *)
(* need.                                                                   *)
(***************************************************************************)
EXTENDS Peering, TLAPS

\* The endpoint that a lookup gives for a peer is one of those the protocol has.
LEMMA EndpointType ==
  ASSUME NEW records \in PeeringRecords, NEW a \in Announcement, NEW addr,
         NEW p \in a.peer_pubkeys
  PROVE  endpoint_of(records, a, addr, p) \in WireplugEndpoint
<1> DEFINE r == records[<<p, a.initiator_pubkey>>]
<1>1. <<p, a.initiator_pubkey>> \in Pairs
  BY DEF Announcement, Pairs
<1>2. r \in Record \/ r = None
  BY <1>1 DEF PeeringRecords
<1>3. CASE r = None
  BY <1>3 DEF endpoint_of, WireplugEndpoint
<1>4. CASE r # None
  BY <1>2, <1>4 DEF endpoint_of, WireplugEndpoint, Record, LocalNetwork, RemoteNetwork
<1> QED
  BY <1>3, <1>4

\* A response is a reply.
LEMMA ResponseType ==
  ASSUME NEW records \in PeeringRecords, NEW a \in Announcement, NEW addr
  PROVE  /\ IsReply(WireplugResponse(get_peer_endpoints(records, a, addr)))
         /\ WireplugResponse(get_peer_endpoints(records, a, addr)).kind = "response"
<1> DEFINE e == get_peer_endpoints(records, a, addr)
<1>1. DOMAIN e = a.peer_pubkeys
  BY DEF get_peer_endpoints
<1>2. DOMAIN e \subseteq Keys
  BY <1>1 DEF Announcement
<1>3. \A p \in DOMAIN e : e[p] \in WireplugEndpoint
  BY <1>1, EndpointType DEF get_peer_endpoints
<1> HIDE DEF e
<1>4. WireplugResponse(e).peer_endpoints = e /\ WireplugResponse(e).kind = "response"
  BY DEF WireplugResponse
<1>5. IsReply(WireplugResponse(e))
  BY <1>2, <1>3, <1>4 DEF IsReply
<1> QED
  BY <1>4, <1>5 DEF e

\* What process_announcement writes is a record.
LEMMA RecordType ==
  ASSUME NEW a \in Announcement, NEW addr \in V4, NEW t \in Nat
  PROVE  RecordOf(a, addr, t) \in Record
BY DEF RecordOf, Record, Announcement

\* Recording an announcement and sweeping keep the records well-formed.
LEMMA RecordsType ==
  ASSUME NEW records \in PeeringRecords
  PROVE  /\ \A a \in Announcement, addr \in V4, t \in Nat :
              process_announcement(records, a, addr, t) \in PeeringRecords
         /\ \A t \in Nat : remove_old_records(records, t) \in PeeringRecords
<1>1. ASSUME NEW a \in Announcement, NEW addr \in V4, NEW t \in Nat
      PROVE  process_announcement(records, a, addr, t) \in PeeringRecords
  BY RecordType DEF process_announcement, PeeringRecords
<1>2. ASSUME NEW t \in Nat
      PROVE  remove_old_records(records, t) \in PeeringRecords
  BY DEF remove_old_records, PeeringRecords
<1> QED
  BY <1>1, <1>2
=============================================================================
