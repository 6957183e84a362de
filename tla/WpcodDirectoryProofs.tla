------------------------- MODULE WpcodDirectoryProofs -------------------------
(***************************************************************************)
(* The coordination server implements Directory, for any number of         *)
(* connections and whatever they announce: every step of Wpcod is, under   *)
(* the mapping of WpcodDirectory, a step of Directory or invisible in it.  *)
(***************************************************************************)
EXTENDS WpcodDirectory, WpcodProofs

\* A connection has no announcement before it has read one.
Unread == \A h \in Conns : stage[h] \in {"free", "tls"} => ann[h] = None

Mapped == Typed /\ Unread

\* The phase of a request by the stage of its connection.
PhaseOf(s) ==
  CASE s \in {"free", "tls"} -> "idle"
    [] s \in {"lookup", "locked"} -> "asked"
    [] s \in {"respond", "shutdown", "store"} -> "answered"
    [] s \in Stored -> "published"
    [] OTHER -> "dropped"

\* What a step of Wpcod has to be.
Implements == [Abstract!DirectoryNext]_(Abstract!dvars)

-----------------------------------------------------------------------------
\* No connection has read anything to begin with.
LEMMA MappedInit == Init => Mapped
BY TypedInit DEF Init, Mapped, Unread

\* Only reading an announcement gives a connection one.
LEMMA MappedStep == Mapped /\ [Next]_vars => Mapped'
<1> SUFFICES ASSUME Mapped, [Next]_vars PROVE Unread'
  BY TypedStep DEF Mapped
<1> USE DEF Mapped, Unread, Typed, TypeOK, Goes, requestVars
<1>1. CASE Restart
  BY <1>1 DEF Restart
<1>2. CASE UNCHANGED vars
  BY <1>2 DEF vars
<1>3. CASE \E h \in Conns : \/ \E addr \in Addrs : Accept(h, addr)
                            \/ \E a \in Announcements : ReadAnnouncement(h, a)
                            \/ TlsError(h) \/ BadFrame(h) \/ OtherVersion(h)
  BY <1>3 DEF Accept, ReadAnnouncement, TlsError, BadFrame, OtherVersion
<1>4. CASE \E h \in Conns : Handle(h)
  BY <1>4 DEF Handle, LockStorage, Lookup, WriteResponse, WriteFails, Shutdown,
     ShutdownFails, RefuseIpv6, Store, CountRelay
<1>5. CASE SweepStart \/ Sweep \/ MonitorFails \/ Tick \/ StepBack
  BY <1>5 DEF SweepStart, Sweep, MonitorFails, Tick, StepBack
<1> QED
  BY <1>1, <1>2, <1>3, <1>4, <1>5 DEF Next

-----------------------------------------------------------------------------
\* The mapping.

\* A connection that moves from one stage to another moves its request, and no
\* other, between the phases of these stages.
LEMMA PhaseMoves ==
  ASSUME Typed, NEW h \in Conns, NEW from, NEW to, Goes(h, from, to)
  PROVE  phases[h] = PhaseOf(from) /\ phases' = [phases EXCEPT ![h] = PhaseOf(to)]
<1>1. phases = [g \in Conns |-> PhaseOf(stage[g])]
  BY DEF phases, PhaseOf
<1>2. phases' = [g \in Conns |-> PhaseOf(stage'[g])]
  BY DEF phases, PhaseOf
<1>3. /\ stage \in [Conns -> Stages] /\ stage[h] = from
      /\ stage' = [stage EXCEPT ![h] = to]
  BY DEF Goes, Typed, TypeOK
<1> QED
  BY <1>1, <1>2, <1>3

\* The requests are those of the connections, and stay as long as these do.
LEMMA RequestsStay ==
  /\ UNCHANGED requestVars => UNCHANGED requests
  /\ UNCHANGED storage => UNCHANGED rows
  /\ UNCHANGED reply => UNCHANGED answers
  /\ UNCHANGED stage => UNCHANGED phases
BY DEF requestVars, requests, rows, answers, phases

\* A row is there exactly where a record is, and holds what the record holds.
LEMMA RowsThere ==
  ASSUME NEW k \in Pairs, storage \in PeeringRecords
  PROVE  /\ rows[k] = None <=> storage[k] = None
         /\ storage[k] # None =>
              /\ rows[k].wan_ipv4 = storage[k].wan_ipv4
              /\ rows[k].wan_ipv6 = storage[k].wan_ipv6
              /\ rows[k].lan_addrs = storage[k].lan_addrs
              /\ rows[k].wg_port = storage[k].wg_port
BY RowAssumption DEF rows, PeeringRecords, Record, Row

\* The request of a connection that has read its announcement.
LEMMA RequestThere ==
  ASSUME Typed, NEW h \in Conns, stage[h] \in Announcing
  PROVE  requests[h] = [ann |-> ann[h], addr |-> src[h]]
BY NoneAssumption DEF Typed, Staged, requests, Announcing

\* Dropping a request, its answer read or not.
LEMMA Drops ==
  ASSUME Typed, NEW h \in Conns, NEW from \in Stages \ Stored, Goes(h, from, "closed"),
         UNCHANGED <<rows, requests>>,
         answers' \in {answers, [answers EXCEPT ![h] = None]}
  PROVE  Implements
<1>1. phases[h] = PhaseOf(from) /\ phases' = [phases EXCEPT ![h] = PhaseOf("closed")]
  BY PhaseMoves
<1>2. PhaseOf("closed") = "dropped" /\ PhaseOf(from) # "published"
  BY DEF PhaseOf, Stored, Stages
<1>3. Abstract!Drop(h)
  BY <1>1, <1>2 DEF Abstract!Drop, Abstract!Moves
<1> QED
  BY <1>3 DEF Implements, Abstract!DirectoryNext

\* A step that touches nothing that the directory shows is invisible in it.
LEMMA Invisible ==
  ASSUME UNCHANGED <<rows, requests, phases, answers>>
  PROVE  Implements
BY DEF Implements, Abstract!dvars

-----------------------------------------------------------------------------
\* The steps of a connection.

\* Reading a valid announcement is asking, an invalid one is dropped.
LEMMA ReadMaps ==
  ASSUME Mapped, NEW h \in Conns, NEW a \in Announcements, ReadAnnouncement(h, a)
  PROVE  Implements
<1>1. /\ stage[h] = "tls" /\ ann' = [ann EXCEPT ![h] = a] /\ src' = src
      /\ UNCHANGED <<rows, answers>>
  BY RequestsStay DEF ReadAnnouncement, Goes, storageVars
<1>2. /\ a \in Announcement /\ a # None
      /\ src[h] \in Addrs /\ ann \in [Conns -> Announcement \cup {None}]
  BY <1>1, AnnouncementsAssumption, NoneAssumption DEF Mapped, Typed, TypeOK, Staged
<1>3. CASE valid(a)
  <2>1. phases[h] = "idle" /\ phases' = [phases EXCEPT ![h] = "asked"]
    <3>1. Goes(h, "tls", "lookup") /\ Typed
      BY <1>3 DEF ReadAnnouncement, Mapped
    <3>2. PhaseOf("tls") = "idle" /\ PhaseOf("lookup") = "asked"
      BY DEF PhaseOf, Stored
    <3> QED
      BY <3>1, <3>2, PhaseMoves
  <2>2. requests' = [requests EXCEPT ![h] = [ann |-> a, addr |-> src[h]]]
    BY <1>1, <1>2, <1>3 DEF requests
  <2>3. Abstract!valid(a) /\ src[h] \in Abstract!Addrs
    BY <1>2, <1>3 DEF valid, Abstract!valid, Addrs, Abstract!Addrs
  <2>4. Abstract!Ask(h, a, src[h])
    BY <1>1, <2>1, <2>2, <2>3 DEF Abstract!Ask, Abstract!Moves
  <2>5. \E b \in Announcements, addr \in Abstract!Addrs : Abstract!Ask(h, b, addr)
    BY <2>3, <2>4
  <2> QED
    BY <2>5 DEF Implements, Abstract!DirectoryNext
<1>4. CASE ~valid(a)
  <2>1. Goes(h, "tls", "closed")
    BY <1>4 DEF ReadAnnouncement
  <2>2. UNCHANGED requests
    BY <1>1, <1>2, <1>4 DEF requests, Mapped, Unread
  <2> QED
    BY <1>1, <2>1, <2>2, Drops DEF Mapped, Stages, Stored
<1> QED
  BY <1>3, <1>4

\* The endpoint looked up in the records is the one that the rows have.
LEMMA SameEndpoint ==
  ASSUME Typed, NEW h \in Conns, stage[h] = "locked", NEW p \in ann[h].peer_pubkeys
  PROVE  endpoint_of(storage, ann[h], src[h], p) =
           Abstract!EndpointAt(rows[<<p, ann[h].initiator_pubkey>>], src[h])
<1> DEFINE k == <<p, ann[h].initiator_pubkey>>
<1>1. k \in Pairs /\ storage \in PeeringRecords
  BY DEF Typed, TypeOK, Staged, Announcing, Announcement, Pairs
<1>2. CASE storage[k] = None
  BY <1>1, <1>2, RowsThere DEF endpoint_of, Abstract!EndpointAt, Unknown, Abstract!Unknown
<1>3. CASE storage[k] # None
  <2>1. /\ rows[k] # None
        /\ rows[k].wan_ipv4 = storage[k].wan_ipv4 /\ rows[k].wan_ipv6 = storage[k].wan_ipv6
        /\ rows[k].lan_addrs = storage[k].lan_addrs /\ rows[k].wg_port = storage[k].wg_port
    BY <1>1, <1>3, RowsThere
  <2> HIDE DEF k
  <2> QED
    BY <1>3, <2>1 DEF k, endpoint_of, Abstract!EndpointAt, LocalNetwork,
       Abstract!LocalNetwork, RemoteNetwork, Abstract!RemoteNetwork
<1> QED
  BY <1>2, <1>3

\* The lookup is the answer, given from the table as it stands.
LEMMA LookupMaps ==
  ASSUME Mapped, NEW h \in Conns, Lookup(h)
  PROVE  Implements
<1> DEFINE e == get_peer_endpoints(storage, ann[h], src[h])
<1>1. /\ stage[h] = "locked" /\ reply' = [reply EXCEPT ![h] = WireplugResponse(e)]
      /\ DOMAIN reply = Conns /\ UNCHANGED <<rows, requests>>
  BY RequestsStay DEF Lookup, Goes, storageVars, Mapped, Typed, TypeOK
<1>2. phases[h] = "asked" /\ phases' = [phases EXCEPT ![h] = "answered"]
  <2>1. Goes(h, "locked", "respond") /\ Typed
    BY DEF Lookup, Mapped
  <2>2. PhaseOf("locked") = "asked" /\ PhaseOf("respond") = "answered"
    BY DEF PhaseOf, Stored
  <2> QED
    BY <2>1, <2>2, PhaseMoves
<1>3. requests[h] = [ann |-> ann[h], addr |-> src[h]]
  BY <1>1, RequestThere DEF Mapped, Announcing
<1>4. e = [p \in requests[h].ann.peer_pubkeys |->
             Abstract!EndpointAt(rows[<<p, requests[h].ann.initiator_pubkey>>],
                                 requests[h].addr)]
  BY <1>1, <1>3, SameEndpoint DEF Mapped, get_peer_endpoints
<1> HIDE DEF e
<1>5. answers' = [answers EXCEPT ![h] = e]
  BY <1>1 DEF answers, WireplugResponse
<1>6. Abstract!Answer(h)
  BY <1>1, <1>2, <1>4, <1>5 DEF Abstract!Answer, Abstract!Moves
<1> QED
  BY <1>6 DEF Implements, Abstract!DirectoryNext

\* Recording is publishing: every row of the announcement changes at once.
LEMMA StoreMaps ==
  ASSUME Mapped, NEW h \in Conns, Store(h)
  PROVE  Implements
<1>1. /\ stage[h] = "store" /\ src[h] \in V4
      /\ storage' = process_announcement(storage, ann[h], src[h], clock)
      /\ UNCHANGED <<requests, answers>>
  BY RequestsStay DEF Store, Goes
<1>2. /\ ann[h] \in Announcement /\ clock \in Nat
      /\ requests[h] = [ann |-> ann[h], addr |-> src[h]]
  BY <1>1, RequestThere DEF Mapped, Typed, TypeOK, Staged, Announcing
<1>3. phases[h] = "answered" /\ phases' = [phases EXCEPT ![h] = "published"]
  <2>1. PhaseOf("store") = "answered"
        /\ PhaseOf(IF ann[h].needs_relay THEN "count" ELSE "done") = "published"
    BY DEF PhaseOf, Stored
  <2> QED
    BY <2>1, PhaseMoves DEF Store, Mapped
<1>4. ASSUME NEW k \in Pairs
      PROVE  rows'[k] = IF k \in PairsOf(ann[h]) THEN Abstract!Place(ann[h], src[h])
                        ELSE rows[k]
  <2> DEFINE r == RecordOf(ann[h], src[h], clock)
  <2>1. r # None
    BY <1>1, <1>2, RecordType, NoneAssumption
  <2>2. /\ r.wan_ipv4 = src[h] /\ r.wan_ipv6 = ann[h].ipv6
        /\ r.lan_addrs = ann[h].lan_addrs /\ r.wg_port = ann[h].wg_port
    BY DEF RecordOf
  <2> HIDE DEF r
  <2>3. storage'[k] = IF k \in PairsOf(ann[h]) THEN r ELSE storage[k]
    BY <1>1 DEF process_announcement, r
  <2> QED
    BY <2>1, <2>2, <2>3 DEF rows, Abstract!Place
<1>5. rows' = [k \in Abstract!RequestPairs |->
                 IF k \in {requests[h].ann.initiator_pubkey} \X requests[h].ann.peer_pubkeys
                 THEN Abstract!Place(requests[h].ann, requests[h].addr) ELSE rows[k]]
  BY <1>2, <1>4 DEF PairsOf, Abstract!RequestPairs, Pairs, rows
<1>6. Abstract!Publish(h)
  BY <1>1, <1>2, <1>3, <1>5 DEF Abstract!Publish, Abstract!Moves
<1> QED
  BY <1>6 DEF Implements, Abstract!DirectoryNext

\* A connection does nothing that the directory does not allow.
LEMMA ConnectionMaps ==
  ASSUME Mapped, NEW h \in Conns,
         \/ \E addr \in Addrs : Accept(h, addr)
         \/ TlsError(h) \/ BadFrame(h) \/ OtherVersion(h)
         \/ \E a \in Announcements : ReadAnnouncement(h, a)
         \/ Handle(h)
  PROVE  Implements
<1> USE DEF storageVars, requestVars
<1>0. /\ DOMAIN reply = Conns
      /\ NoReply.kind # "response" /\ VersionReply.kind # "response"
  BY DEF Mapped, Typed, TypeOK, NoReply, VersionReply
<1>1. ASSUME NEW addr \in Addrs, Accept(h, addr) PROVE Implements
  <2>1. stage[h] = "free" /\ src' = [src EXCEPT ![h] = addr] /\ ann' = ann
        /\ UNCHANGED <<rows, answers>>
    BY <1>1, RequestsStay DEF Accept, Goes
  <2>2. UNCHANGED requests
    BY <2>1 DEF requests, Mapped, Unread, Typed, TypeOK
  <2>3. UNCHANGED phases
    BY <1>1 DEF Accept, Goes, phases, Stored, Mapped, Typed, TypeOK
  <2> QED
    BY <2>1, <2>2, <2>3, Invisible
<1>2. CASE TlsError(h) \/ BadFrame(h)
  <2>1. Goes(h, "tls", "closed") /\ UNCHANGED <<rows, requests, answers>>
    BY <1>2, RequestsStay DEF TlsError, BadFrame
  <2> QED
    BY <2>1, Drops DEF Mapped, Stages, Stored
<1>3. CASE OtherVersion(h)
  <2>1. Goes(h, "tls", "closed") /\ UNCHANGED <<rows, requests>>
    BY <1>3, RequestsStay DEF OtherVersion
  <2>2. UNCHANGED answers
    BY <1>0, <1>3 DEF OtherVersion, Goes, answers, Mapped, Typed, Staged, Unanswered
  <2> QED
    BY <2>1, <2>2, Drops DEF Mapped, Stages, Stored
<1>4. CASE \E a \in Announcements : ReadAnnouncement(h, a)
  BY <1>4, ReadMaps
<1>5. CASE LockStorage(h) \/ WriteResponse(h) \/ Shutdown(h) \/ CountRelay(h)
  <2>1. UNCHANGED <<rows, requests, answers>>
    BY <1>5, RequestsStay DEF LockStorage, WriteResponse, Shutdown, CountRelay
  <2>2. UNCHANGED phases
    BY <1>5 DEF LockStorage, WriteResponse, Shutdown, CountRelay, Goes, phases, Stored,
       Mapped, Typed, TypeOK
  <2> QED
    BY <2>1, <2>2, Invisible
<1>6. CASE Lookup(h)
  BY <1>6, LookupMaps
<1>7. CASE WriteFails(h)
  <2>1. Goes(h, "respond", "closed") /\ UNCHANGED <<rows, requests>>
    BY <1>7, RequestsStay DEF WriteFails
  <2>2. answers' = [answers EXCEPT ![h] = None]
    BY <1>0, <1>7 DEF WriteFails, answers
  <2> QED
    BY <2>1, <2>2, Drops DEF Mapped, Stages, Stored
<1>8. CASE ShutdownFails(h)
  <2>1. Goes(h, "shutdown", "closed") /\ UNCHANGED <<rows, requests, answers>>
    BY <1>8, RequestsStay DEF ShutdownFails
  <2> QED
    BY <2>1, Drops DEF Mapped, Stages, Stored
<1>9. CASE RefuseIpv6(h)
  <2>1. Goes(h, "store", "closed") /\ UNCHANGED <<rows, requests, answers>>
    BY <1>9, RequestsStay DEF RefuseIpv6
  <2> QED
    BY <2>1, Drops DEF Mapped, Stages, Stored
<1>10. CASE Store(h)
  BY <1>10, StoreMaps
<1> QED
  BY <1>1, <1>2, <1>3, <1>4, <1>5, <1>6, <1>7, <1>8, <1>9, <1>10 DEF Handle

-----------------------------------------------------------------------------
\* The sweeper, and a restart.

\* A sweep forgets rows.
LEMMA SweepMaps ==
  ASSUME Mapped, Sweep
  PROVE  Implements
<1> DEFINE Swept == {k \in Pairs : ~(storage[k] # None /\ Kept(storage[k], sweep_now))}
<1>1. /\ storage' = remove_old_records(storage, sweep_now)
      /\ UNCHANGED <<requests, phases, answers>>
  BY RequestsStay DEF Sweep
<1>2. rows' = [k \in Pairs |-> IF k \in Swept THEN None ELSE rows[k]]
  <2>1. ASSUME NEW k \in Pairs
        PROVE  storage'[k] = IF k \in Swept THEN None ELSE storage[k]
    BY <1>1 DEF remove_old_records
  <2> HIDE DEF Swept
  <2> QED
    BY <2>1 DEF rows
<1>3. Swept \in SUBSET Pairs
  OBVIOUS
<1> HIDE DEF Swept
<1>4. Abstract!Forget
  BY <1>1, <1>2, <1>3 DEF Abstract!Forget, Abstract!RequestPairs, Pairs
<1> QED
  BY <1>4 DEF Implements, Abstract!DirectoryNext

\* A restart drops every request that is neither published nor still to be made,
\* and takes back the answers that were not written yet.
LEMMA RestartMaps ==
  ASSUME Mapped, Restart
  PROVE  Implements
<1> DEFINE Idle == {h \in Conns : stage[h] = "free"}
           Lost == {h \in Conns : stage[h] = "respond"}
<1>1. /\ storage' = NoRecords /\ UNCHANGED requests
      /\ stage' = [h \in Conns |-> IF stage[h] = "free" THEN "free"
                                   ELSE IF stage[h] \in Stored THEN "done" ELSE "closed"]
      /\ reply' = [h \in Conns |-> IF stage[h] = "respond" THEN NoReply ELSE reply[h]]
      /\ stage \in [Conns -> Stages]
  BY RequestsStay DEF Restart, Mapped, Typed, TypeOK
<1>2. rows' = [k \in Abstract!RequestPairs |-> None]
  BY <1>1 DEF rows, NoRecords, Pairs, Abstract!RequestPairs
<1>3. ASSUME NEW h \in Conns
      PROVE  /\ h \in Idle => phases[h] = "idle"
             /\ h \in Lost => phases[h] = "answered"
             /\ phases'[h] = IF h \in Idle THEN "idle"
                            ELSE IF phases[h] = "published" THEN "published" ELSE "dropped"
  BY <1>1 DEF phases, Stored, Stages
<1>4. phases' = [h \in Conns |-> IF h \in Idle THEN "idle"
                 ELSE IF phases[h] = "published" THEN "published" ELSE "dropped"]
  BY <1>3 DEF phases
<1>5. answers' = [h \in Conns |-> IF h \in Lost THEN None ELSE answers[h]]
  <2>1. NoReply.kind # "response"
    BY DEF NoReply
  <2> QED
    BY <1>1, <2>1 DEF answers
<1>6. /\ Idle \in SUBSET {h \in Conns : phases[h] = "idle"}
      /\ Lost \in SUBSET {h \in Conns : phases[h] = "answered"}
  BY <1>3
<1> HIDE DEF Idle, Lost
<1>7. Abstract!Crash
  BY <1>1, <1>2, <1>4, <1>5, <1>6 DEF Abstract!Crash
<1> QED
  BY <1>7 DEF Implements, Abstract!DirectoryNext

-----------------------------------------------------------------------------
\* Every step of the server is a step of the directory or invisible in it.
LEMMA StepMaps ==
  ASSUME Mapped, [Next]_vars
  PROVE  Implements
<1>1. CASE SweepStart \/ MonitorFails \/ Tick \/ StepBack \/ UNCHANGED vars
  <2>1. UNCHANGED <<storage, stage, reply, requestVars>>
    BY <1>1 DEF SweepStart, MonitorFails, Tick, StepBack, vars, storageVars
  <2> QED
    BY <2>1, RequestsStay, Invisible
<1> QED
  BY <1>1, ConnectionMaps, SweepMaps, RestartMaps DEF Next

\* The server starts as an empty directory that nobody has asked.
LEMMA InitMaps == Init => Abstract!DirectoryInit
<1> SUFFICES ASSUME Init PROVE Abstract!DirectoryInit
  OBVIOUS
<1>1. rows = [k \in Abstract!RequestPairs |-> None]
  BY DEF Init, NoRecords, rows, Pairs, Abstract!RequestPairs
<1>2. requests = [h \in Conns |-> None]
  BY DEF Init, requests
<1>3. phases = [h \in Conns |-> "idle"]
  BY DEF Init, phases, Stored
<1>4. answers = [h \in Conns |-> None]
  BY DEF Init, answers, NoReply
<1> QED
  BY <1>1, <1>2, <1>3, <1>4 DEF Abstract!DirectoryInit

\* Whatever the tasks of the server do around it, a request is answered from one
\* state of the records, and its announcement is recorded whole, after the answer
\* and at most once, and never if it was turned away or dropped.
THEOREM Refinement == Spec => ImplementsDirectory
<1>1. Mapped /\ [Next]_vars => [Abstract!DirectoryNext]_(Abstract!dvars)
  BY StepMaps DEF Implements
<1> QED
  BY <1>1, InitMaps, MappedInit, MappedStep, PTL
     DEF Spec, ImplementsDirectory, Abstract!DirectorySpec
=============================================================================
