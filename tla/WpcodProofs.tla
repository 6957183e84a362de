----------------------------- MODULE WpcodProofs -----------------------------
(***************************************************************************)
(* What holds of the coordination server for any number of connections,    *)
(* any keys, addresses and announcements, and whatever the timeout and the *)
(* sweeper's period are.                                                   *)
(***************************************************************************)
EXTENDS Wpcod, PeeringProofs, TLAPS

\* The stages of a connection in which an announcement has been read, in which
\* its answer has not been computed yet, and in which it has.
Announcing == {"lookup", "locked", "respond", "shutdown", "store", "count", "done"}
Unanswered == {"free", "tls", "lookup", "locked"}
Answering == {"respond", "shutdown", "store", "count", "done"}

\* What a connection has by the stage it is in.
Staged ==
  \A h \in Conns :
    /\ stage[h] # "free" => src[h] \in Addrs
    /\ stage[h] \in Announcing => ann[h] \in Announcement /\ valid(ann[h])
    /\ stage[h] \in Unanswered => reply[h] = NoReply
    /\ stage[h] \in Answering => reply[h].kind = "response"
    /\ stage[h] \in Stored => src[h] \in V4

Typed == TypeOK /\ Staged

-----------------------------------------------------------------------------
\* The server begins with connections that are free and an empty map.
LEMMA TypedInit == Init => Typed
BY TimeAssumption
   DEF Init, Typed, TypeOK, Staged, NoRecords, PeeringRecords, IsReply, NoReply, Stages,
       Announcing, Unanswered, Answering, Stored

\* A step of the server keeps the types, and each connection what its stage
\* calls for.
LEMMA TypedStep == Typed /\ [Next]_vars => Typed'
<1> SUFFICES ASSUME Typed, [Next]_vars PROVE Typed'
  OBVIOUS
<1> USE DEF Typed, TypeOK, Staged, Goes, Stages, Announcing, Unanswered, Answering, Stored,
         storageVars, statsVars, requestVars, sweepVars, envVars
<1>0. /\ IsReply(NoReply) /\ IsReply(VersionReply)
      /\ NoRecords \in PeeringRecords
  BY DEF IsReply, NoRecords, PeeringRecords
<1>1. ASSUME NEW h \in Conns, NEW addr \in Addrs, Accept(h, addr) PROVE Typed'
  BY <1>1 DEF Accept
<1>2. ASSUME NEW h \in Conns, TlsError(h) PROVE Typed'
  BY <1>2 DEF TlsError
<1>3. ASSUME NEW h \in Conns, BadFrame(h) PROVE Typed'
  BY <1>3 DEF BadFrame
<1>4. ASSUME NEW h \in Conns, OtherVersion(h) PROVE Typed'
  BY <1>0, <1>4 DEF OtherVersion
<1>5. ASSUME NEW h \in Conns, NEW a \in Announcements, ReadAnnouncement(h, a) PROVE Typed'
  BY <1>5, AnnouncementsAssumption DEF ReadAnnouncement
<1>6. ASSUME NEW h \in Conns, LockStorage(h) PROVE Typed'
  BY <1>6 DEF LockStorage
<1>7. ASSUME NEW h \in Conns, Lookup(h) PROVE Typed'
  <2> DEFINE answer == WireplugResponse(get_peer_endpoints(storage, ann[h], src[h]))
  <2>1. ann[h] \in Announcement
    BY <1>7 DEF Lookup
  <2>2. IsReply(answer) /\ answer.kind = "response"
    BY <2>1, ResponseType
  <2> HIDE DEF answer
  <2>3. reply' = [reply EXCEPT ![h] = answer]
    BY <1>7 DEF Lookup, answer
  <2> QED
    BY <1>7, <2>2, <2>3 DEF Lookup
<1>8. ASSUME NEW h \in Conns, WriteResponse(h) PROVE Typed'
  BY <1>8 DEF WriteResponse
<1>9. ASSUME NEW h \in Conns, WriteFails(h) PROVE Typed'
  BY <1>0, <1>9 DEF WriteFails
<1>10. ASSUME NEW h \in Conns, Shutdown(h) PROVE Typed'
  BY <1>10 DEF Shutdown
<1>11. ASSUME NEW h \in Conns, ShutdownFails(h) PROVE Typed'
  BY <1>11 DEF ShutdownFails
<1>12. ASSUME NEW h \in Conns, RefuseIpv6(h) PROVE Typed'
  BY <1>12 DEF RefuseIpv6
<1>13. ASSUME NEW h \in Conns, Store(h) PROVE Typed'
  <2>1. ann[h] \in Announcement /\ src[h] \in V4 /\ clock \in Nat
    BY <1>13 DEF Store
  <2>2. storage' \in PeeringRecords
    BY <1>13, <2>1, RecordsType DEF Store
  <2> QED
    BY <1>13, <2>1, <2>2 DEF Store
<1>14. ASSUME NEW h \in Conns, CountRelay(h) PROVE Typed'
  BY <1>14 DEF CountRelay
<1>15. CASE SweepStart
  BY <1>15 DEF SweepStart
<1>16. CASE Sweep
  <2>1. storage' \in PeeringRecords
    BY <1>16, RecordsType DEF Sweep
  <2> QED
    BY <1>16, <2>1 DEF Sweep
<1>17. CASE MonitorFails
  BY <1>17 DEF MonitorFails
<1>18. CASE Tick
  BY <1>18 DEF Tick
<1>19. CASE StepBack
  BY <1>19 DEF StepBack
<1>20. CASE Restart
  <2>1. storage' \in PeeringRecords
    BY <1>0, <1>20 DEF Restart
  <2>2. stage' \in [Conns -> Stages]
    BY <1>20 DEF Restart
  <2>3. DOMAIN reply' = Conns /\ \A h \in Conns : IsReply(reply'[h])
    BY <1>0, <1>20 DEF Restart
  <2>4. Staged'
    BY <1>20 DEF Restart
  <2> QED
    BY <1>20, <2>1, <2>2, <2>3, <2>4, TimeAssumption DEF Restart
<1>21. CASE UNCHANGED vars
  BY <1>21 DEF vars
<1> QED
  BY <1>1, <1>2, <1>3, <1>4, <1>5, <1>6, <1>7, <1>8, <1>9, <1>10, <1>11, <1>12, <1>13, <1>14, <1>15, <1>16, <1>17, <1>18, <1>19, <1>20, <1>21 DEF Next, Handle

\* The server only ever holds what the definition of its state says.
THEOREM TypeCorrect == Spec => []TypeOK
<1>1. Typed => TypeOK
  BY DEF Typed
<1> QED
  BY TypedInit, TypedStep, <1>1, PTL DEF Spec

-----------------------------------------------------------------------------
\* What has been recorded or answered stays as it was.

\* A connection that has stored its announcement keeps it, and its answer.
LEMMA StoredStays ==
  ASSUME Typed, [Next]_vars, NEW g \in Conns, stage[g] \in Stored
  PROVE  /\ stage'[g] \in Stored
         /\ ann'[g] = ann[g] /\ src'[g] = src[g] /\ reply'[g] = reply[g]
<1> USE DEF Typed, TypeOK, Goes, Stored, statsVars, storageVars, requestVars,
         sweepVars, envVars
<1>1. CASE Restart
  BY <1>1 DEF Restart
<1>2. CASE UNCHANGED vars
  BY <1>2 DEF vars
<1>3. CASE \E h \in Conns : \/ \E addr \in Addrs : Accept(h, addr)
                            \/ \E a \in Announcements : ReadAnnouncement(h, a)
                            \/ TlsError(h) \/ BadFrame(h) \/ OtherVersion(h)
  BY <1>3 DEF Accept, ReadAnnouncement, TlsError, BadFrame, OtherVersion
<1>4. CASE \E h \in Conns : Handle(h)
  BY <1>4 DEF Handle, LockStorage, Lookup, WriteResponse, WriteFails, Shutdown,
     ShutdownFails, RefuseIpv6, Store, CountRelay
<1>5. CASE SweepStart \/ Sweep \/ MonitorFails \/ Tick \/ StepBack
  BY <1>5 DEF SweepStart, Sweep, MonitorFails, Tick, StepBack
<1> QED
  BY <1>1, <1>2, <1>3, <1>4, <1>5 DEF Next

\* A connection with an answer has just looked it up, or keeps it together with
\* what it answers.
LEMMA AnswerStays ==
  ASSUME Typed, [Next]_vars, NEW h \in Conns, reply'[h].kind = "response"
  PROVE  \/ Lookup(h)
         \/ reply'[h] = reply[h] /\ ann'[h] = ann[h] /\ src'[h] = src[h]
<1> USE DEF Typed, TypeOK, Goes, statsVars, storageVars, requestVars, sweepVars, envVars
<1>0. NoReply.kind # "response" /\ VersionReply.kind # "response"
  BY DEF NoReply, VersionReply
<1>1. CASE Restart
  BY <1>0, <1>1 DEF Restart
<1>2. CASE UNCHANGED vars
  BY <1>2 DEF vars
<1>3. CASE \E g \in Conns : \/ \E addr \in Addrs : Accept(g, addr)
                            \/ \E a \in Announcements : ReadAnnouncement(g, a)
                            \/ TlsError(g) \/ BadFrame(g) \/ OtherVersion(g)
  BY <1>0, <1>3 DEF Accept, ReadAnnouncement, TlsError, BadFrame, OtherVersion, Staged,
     Unanswered
<1>4. CASE \E g \in Conns : Handle(g)
  BY <1>0, <1>4 DEF Handle, LockStorage, Lookup, WriteResponse, WriteFails, Shutdown,
     ShutdownFails, RefuseIpv6, Store, CountRelay
<1>5. CASE SweepStart \/ Sweep \/ MonitorFails \/ Tick \/ StepBack
  BY <1>5 DEF SweepStart, Sweep, MonitorFails, Tick, StepBack
<1> QED
  BY <1>1, <1>2, <1>3, <1>4, <1>5 DEF Next

\* The records change in three places only.
LEMMA RecordsChange ==
  ASSUME [Next]_vars
  PROVE  storage' = storage \/ Sweep \/ Restart \/ \E h \in Conns : Store(h)
BY DEF Next, vars, Handle, Accept, ReadAnnouncement, TlsError, BadFrame, OtherVersion,
   LockStorage, Lookup, WriteResponse, WriteFails, Shutdown, ShutdownFails, RefuseIpv6,
   CountRelay, SweepStart, MonitorFails, Tick, StepBack, storageVars

-----------------------------------------------------------------------------
\* What is on record.

\* A step leaves or makes only records that are authentic.
LEMMA AuthenticStep ==
  ASSUME Typed, Typed', [Next]_vars, RecordsAuthentic
  PROVE  RecordsAuthentic'
<1> SUFFICES ASSUME NEW k \in Pairs, storage'[k] # None
             PROVE  \E g \in Conns :
                      /\ Wrote(g, k)'
                      /\ storage'[k] =
                           RecordOf(ann'[g], src'[g], storage'[k].timestamp)
                      /\ reply'[g].kind = "response"
  BY DEF RecordsAuthentic
\* A record that is not new comes from the connection that it came from.
<1>1. CASE storage'[k] = storage[k]
  <2>1. PICK g \in Conns :
          /\ Wrote(g, k)
          /\ storage[k] = RecordOf(ann[g], src[g], storage[k].timestamp)
          /\ reply[g].kind = "response"
    BY <1>1 DEF RecordsAuthentic
  <2>2. /\ stage'[g] \in Stored
        /\ ann'[g] = ann[g] /\ src'[g] = src[g] /\ reply'[g] = reply[g]
    BY <2>1, StoredStays DEF Wrote
  <2> QED
    BY <1>1, <2>1, <2>2 DEF Wrote
\* A record that is new comes from the connection that stores.
<1>2. CASE \E h \in Conns : Store(h)
  <2>0. PICK h \in Conns : Store(h)
    BY <1>2
  <2>1. CASE k \in PairsOf(ann[h])
    <3>1. storage'[k] = RecordOf(ann[h], src[h], clock)
      BY <2>0, <2>1 DEF Store, process_announcement
    <3>2. storage'[k].timestamp = clock
      BY <3>1 DEF RecordOf
    <3>3. /\ ann'[h] = ann[h] /\ src'[h] = src[h] /\ reply'[h] = reply[h]
          /\ stage[h] = "store" /\ stage'[h] \in Stored /\ src[h] \in V4
      BY <2>0 DEF Store, requestVars, Goes, Stored, Typed, TypeOK
    <3>4. valid(ann[h]) /\ reply[h].kind = "response"
      BY <3>3 DEF Typed, Staged, Announcing, Answering
    <3> QED
      BY <2>1, <3>1, <3>2, <3>3, <3>4 DEF Wrote
  <2>2. CASE k \notin PairsOf(ann[h])
    BY <1>1, <2>0, <2>2 DEF Store, process_announcement
  <2> QED
    BY <2>1, <2>2
<1>3. CASE Sweep
  BY <1>1, <1>3 DEF Sweep, remove_old_records
<1>4. CASE Restart
  BY <1>4 DEF Restart, NoRecords
<1> QED
  BY <1>1, <1>2, <1>3, <1>4, RecordsChange

\* Every record comes whole from one valid announcement that was answered, made
\* from the IPv4 address on record, of whatever connections and in whatever
\* order the tasks run.
THEOREM Authentic == Spec => []RecordsAuthentic
<1>1. Init => RecordsAuthentic
  BY DEF Init, NoRecords, RecordsAuthentic
<1>2. Typed /\ Typed' /\ [Next]_vars /\ RecordsAuthentic => RecordsAuthentic'
  BY AuthenticStep
<1> QED
  BY <1>1, <1>2, TypedInit, TypedStep, PTL DEF Spec

-----------------------------------------------------------------------------
\* What is answered.

\* What a lookup finds of a peer is unknown, or as some connection announced it.
LEMMA LookupMutual ==
  ASSUME Typed, RecordsAuthentic, NEW h \in Conns, stage[h] = "locked",
         NEW p \in ann[h].peer_pubkeys
  PROVE  LET e == endpoint_of(storage, ann[h], src[h], p) IN
         \/ e = Unknown
         \/ \E g \in Conns :
              Wrote(g, <<p, ann[h].initiator_pubkey>>) /\ e = EndpointFrom(g, src[h])
<1> DEFINE k == <<p, ann[h].initiator_pubkey>>
           e == endpoint_of(storage, ann[h], src[h], p)
<1>1. k \in Pairs
  BY DEF Typed, Staged, Announcing, Announcement, Pairs
<1>2. CASE storage[k] = None
  BY <1>2 DEF endpoint_of
<1>3. CASE storage[k] # None
  <2>1. PICK g \in Conns :
          Wrote(g, k) /\ storage[k] = RecordOf(ann[g], src[g], storage[k].timestamp)
    BY <1>1, <1>3 DEF RecordsAuthentic
  <2>2. /\ storage[k].wan_ipv4 = src[g] /\ storage[k].wan_ipv6 = ann[g].ipv6
        /\ storage[k].lan_addrs = ann[g].lan_addrs /\ storage[k].wg_port = ann[g].wg_port
    BY <2>1 DEF RecordOf
  <2>3. e = EndpointFrom(g, src[h])
    BY <1>3, <2>2 DEF endpoint_of, EndpointFrom
  <2> QED
    BY <2>1, <2>3
<1> QED
  BY <1>2, <1>3

\* A step leaves or makes only answers that tell of those who asked for each other.
LEMMA MutualStep ==
  ASSUME Typed, [Next]_vars, RecordsAuthentic, AnswersMutual
  PROVE  AnswersMutual'
<1> SUFFICES ASSUME NEW h \in Conns, reply'[h].kind = "response",
                    NEW p \in DOMAIN reply'[h].peer_endpoints
             PROVE  \/ reply'[h].peer_endpoints[p] = Unknown
                    \/ \E g \in Conns :
                         /\ Wrote(g, <<p, ann[h].initiator_pubkey>>)'
                         /\ reply'[h].peer_endpoints[p] = EndpointFrom(g, src[h])'
  BY DEF AnswersMutual
<1>0. ASSUME NEW g \in Conns, NEW k, Wrote(g, k)
      PROVE  Wrote(g, k)' /\ ann'[g] = ann[g] /\ src'[g] = src[g]
  BY <1>0, StoredStays DEF Wrote
<1>1. CASE Lookup(h)
  <2> DEFINE e == get_peer_endpoints(storage, ann[h], src[h])
  <2>1. /\ stage[h] = "locked" /\ ann' = ann /\ src' = src
        /\ reply'[h] = WireplugResponse(e)
    BY <1>1 DEF Lookup, Goes, requestVars, Typed, TypeOK
  <2>2. reply'[h].peer_endpoints = e
    BY <2>1 DEF WireplugResponse
  <2>3. /\ p \in ann[h].peer_pubkeys
        /\ e[p] = endpoint_of(storage, ann[h], src[h], p)
    BY <2>2 DEF get_peer_endpoints
  <2> HIDE DEF e
  <2> QED
    BY <1>0, <2>1, <2>2, <2>3, LookupMutual DEF EndpointFrom
<1>2. CASE reply'[h] = reply[h] /\ ann'[h] = ann[h] /\ src'[h] = src[h]
  BY <1>0, <1>2 DEF AnswersMutual, EndpointFrom
<1> QED
  BY <1>1, <1>2, AnswerStays

\* Whatever a client is told of a peer is what that peer announced for it, in an
\* announcement that named the client's key.
THEOREM Mutual == Spec => []AnswersMutual
<1>1. Init => AnswersMutual
  BY DEF Init, NoReply, AnswersMutual
<1>2. Typed /\ [Next]_vars /\ RecordsAuthentic /\ AnswersMutual => AnswersMutual'
  BY MutualStep
<1> QED
  BY <1>1, <1>2, TypedInit, TypedStep, Authentic, PTL DEF Spec

-----------------------------------------------------------------------------
\* How long records stay, as long as the clock only goes forward.

\* Nothing on record is older than this.
AgeBelow(bound) ==
  \A k \in Pairs : storage[k] # None =>
    storage[k].timestamp <= clock /\ clock - storage[k].timestamp < bound

\* Right after a sweep a record is at most LockDelay over its time: that is how
\* old the sweeper's `now` may be.  It then ages with the sweeper's sleep, and
\* again while the sweeper waits for its lock.
Aging ==
  /\ sweeper = "asleep" =>
       waited <= SweepEvery /\ AgeBelow(RecordTimeout + LockDelay + waited)
  /\ sweeper = "locking" =>
       /\ waited <= LockDelay
       /\ sweep_now <= clock /\ clock <= sweep_now + waited
       /\ AgeBelow(RecordTimeout + LockDelay + SweepEvery + waited)

Timely ==
  /\ stepBacks = 0 => Aging
  /\ MonitorSurvives

\* The empty map has no record that is old.
LEMMA TimelyInit == Init => Timely
BY TimeAssumption DEF Init, Timely, Aging, AgeBelow, MonitorSurvives, NoRecords

\* The steps that leave records, clock and sweeper alone.
LEMMA TimelyElsewhere ==
  ASSUME Timely, UNCHANGED <<storage, clock, stepBacks, monitor, sweepVars>>
  PROVE  Timely'
BY DEF Timely, Aging, AgeBelow, MonitorSurvives, sweepVars

\* The sweeper's progress and the age of records keep pace.
LEMMA TimelyStep == Typed /\ Timely /\ [Next]_vars => Timely'
<1> SUFFICES ASSUME Typed, Timely, [Next]_vars PROVE Timely'
  OBVIOUS
<1> USE TimeAssumption, TimeoutAssumption
    DEF Timely, MonitorSurvives, Typed, TypeOK, sweepVars, envVars, storageVars
<1>0. ASSUME NEW k \in Pairs, storage[k] # None PROVE storage[k].timestamp \in Nat
  BY <1>0 DEF PeeringRecords, Record
\* A new record has no age.
<1>1. ASSUME NEW h \in Conns, Store(h) PROVE Timely'
  <2>1. ASSUME NEW b \in Nat \ {0}, AgeBelow(b) PROVE AgeBelow(b)'
    BY <1>0, <1>1, <2>1 DEF Store, AgeBelow, process_announcement, RecordOf
  <2>2. stepBacks = 0 => Aging'
    BY <1>1, <2>1 DEF Store, Aging
  <2> QED
    BY <1>1, <2>2 DEF Store
<1>2. CASE SweepStart
  BY <1>2 DEF SweepStart, Aging, AgeBelow
\* What the sweep keeps was young when `now` was read.
<1>3. CASE Sweep
  <2>1. ASSUME NEW k \in Pairs, storage'[k] # None
        PROVE  /\ storage[k] # None /\ storage'[k] = storage[k]
               /\ storage[k].timestamp <= sweep_now
               /\ sweep_now - storage[k].timestamp < RecordTimeout
    BY <1>3, <2>1 DEF Sweep, remove_old_records, Kept
  <2>2. ASSUME stepBacks = 0 PROVE AgeBelow(RecordTimeout + LockDelay)'
    BY <1>0, <1>3, <2>1, <2>2 DEF Sweep, Aging, AgeBelow
  <2> QED
    BY <1>3, <2>2 DEF Sweep, Aging, AgeBelow
<1>4. CASE Tick
  BY <1>0, <1>4 DEF Tick, Aging, AgeBelow
<1>5. CASE StepBack
  BY <1>5 DEF StepBack
<1>6. CASE Restart
  BY <1>6 DEF Restart, Aging, AgeBelow, NoRecords
<1>7. CASE MonitorFails
  BY <1>0, <1>7 DEF MonitorFails, Aging, AgeBelow
<1>8. CASE \E h \in Conns : \/ \E addr \in Addrs : Accept(h, addr)
                            \/ \E a \in Announcements : ReadAnnouncement(h, a)
                            \/ TlsError(h) \/ BadFrame(h) \/ OtherVersion(h)
  BY <1>8, TimelyElsewhere DEF Accept, ReadAnnouncement, TlsError, BadFrame, OtherVersion
<1>9. CASE \E h \in Conns : Handle(h) /\ ~Store(h)
  BY <1>9, TimelyElsewhere DEF Handle, LockStorage, Lookup, WriteResponse, WriteFails,
     Shutdown, ShutdownFails, RefuseIpv6, CountRelay
<1>10. CASE UNCHANGED vars
  BY <1>10, TimelyElsewhere DEF vars
<1> QED
  BY <1>1, <1>2, <1>3, <1>4, <1>5, <1>6, <1>7, <1>8, <1>9, <1>10 DEF Next

\* A record outlives RecordTimeout by no more than one period of the sweeper and
\* two waits for its lock: the one before `now` is put to use, and the next one.
THEOREM Forgotten == Spec => []ForgottenInTime
<1>1. Typed /\ Timely => ForgottenInTime
  BY TimeAssumption, TimeoutAssumption
     DEF Typed, TypeOK, Timely, Aging, AgeBelow, ForgottenInTime, PeeringRecords, Record
<1> QED
  BY <1>1, TypedInit, TypedStep, TimelyInit, TimelyStep, PTL DEF Spec

\* The status task never fails while the clock only goes forward.
THEOREM Survives == Spec => []MonitorSurvives
<1>1. Timely => MonitorSurvives
  BY DEF Timely
<1> QED
  BY <1>1, TypedInit, TypedStep, TimelyInit, TimelyStep, PTL DEF Spec

\* No record goes before its time, but for a restart, a clock set back, or the
\* sweeper having read its `now` before the record was written.
THEOREM NotEarly == Spec => NotForgottenEarly
<1> DEFINE Early ==
      \A k \in Pairs :
        (storage[k] # None /\ storage'[k] = None) =>
          \/ restarts' # restarts
          \/ stepBacks > 0
          \/ clock - storage[k].timestamp >= RecordTimeout
          \/ sweeper = "locking" /\ storage[k].timestamp > sweep_now
<1>1. ASSUME Typed, Timely, [Next]_vars PROVE Early
  <2> SUFFICES ASSUME NEW k \in Pairs, storage[k] # None, storage'[k] = None,
                      restarts' = restarts, ~(stepBacks > 0)
               PROVE  \/ clock - storage[k].timestamp >= RecordTimeout
                      \/ sweeper = "locking" /\ storage[k].timestamp > sweep_now
    OBVIOUS
  <2>1. /\ storage[k].timestamp \in Nat /\ clock \in Nat /\ sweep_now \in Nat
        /\ stepBacks = 0 /\ restarts \in Nat
    BY <1>1 DEF Typed, TypeOK, PeeringRecords, Record
  <2>2. ~Restart
    BY <2>1 DEF Restart
  <2>3. ASSUME NEW h \in Conns, Store(h) PROVE FALSE
    <3>1. ann[h] \in Announcement /\ src[h] \in V4
      BY <1>1, <2>3 DEF Store, Goes, Typed, Staged, Announcing
    <3>2. RecordOf(ann[h], src[h], clock) # None
      BY <2>1, <3>1, RecordType, NoneAssumption
    <3> QED
      BY <2>3, <3>2 DEF Store, process_announcement
  <2>4. Sweep
    BY <1>1, <2>2, <2>3, RecordsChange
  <2>5. ~Kept(storage[k], sweep_now) /\ sweeper = "locking"
    BY <2>4 DEF Sweep, remove_old_records
  <2>6. sweep_now <= clock
    BY <1>1, <2>1, <2>5 DEF Timely, Aging
  <2> QED
    BY <2>1, <2>5, <2>6, TimeoutAssumption DEF Kept
<1>2. Typed /\ Timely /\ [Next]_vars => [Early]_vars
  BY <1>1
<1>3. Spec => [](Typed /\ Timely)
  BY TypedInit, TypedStep, TimelyInit, TimelyStep, PTL DEF Spec
<1>4. Spec => [][Early]_vars
  BY <1>2, <1>3, PTL DEF Spec
<1> QED
  BY <1>4 DEF NotForgottenEarly

-----------------------------------------------------------------------------
\* Who is found, if the sweeper gets its lock at once.

\* What a connection has recorded is there, from then on or recorded again since,
\* for as long as it is not out of time.
Fresh ==
  \A g \in Conns : storedAt[g] >= 0 =>
    /\ stage[g] \in Stored
    /\ storedAt[g] <= clock
    /\ clock - storedAt[g] < RecordTimeout =>
         \A k \in PairsOf(ann[g]) :
           storage[k] # None /\ storage[k].timestamp >= storedAt[g]

FreshInv == stepBacks = 0 => Fresh

\* Nothing has been stored to begin with.
LEMMA FreshInit == Init => FreshInv
BY DEF Init, FreshInv, Fresh

\* The steps that leave alone what Fresh speaks of.
LEMMA FreshElsewhere ==
  ASSUME Typed, [Next]_vars, FreshInv, UNCHANGED <<storage, storedAt, clock, stepBacks>>
  PROVE  FreshInv'
BY StoredStays DEF FreshInv, Fresh, Stored

\* What was stored stays on record for its timeout, or is renewed.
LEMMA FreshStep ==
  ASSUME LockDelay = 0, Typed, Timely, FreshInv, [Next]_vars
  PROVE  FreshInv'
<1> SUFFICES ASSUME stepBacks' = 0 PROVE Fresh'
  BY DEF FreshInv
<1>0. /\ clock \in Nat /\ sweep_now \in Nat /\ stepBacks \in Nat
      /\ storedAt \in [Conns -> Nat \cup {-1}] /\ storage \in PeeringRecords
      /\ stage \in [Conns -> Stages]
  BY DEF Typed, TypeOK
<1>1. stepBacks = 0 /\ ~StepBack
  BY <1>0 DEF Next, vars, envVars, Handle, Accept, ReadAnnouncement, TlsError, BadFrame,
     OtherVersion, LockStorage, Lookup, WriteResponse, WriteFails, Shutdown, ShutdownFails,
     RefuseIpv6, Store, CountRelay, SweepStart, Sweep, MonitorFails, Tick, StepBack, Restart
<1>2. Fresh /\ Aging
  BY <1>1 DEF FreshInv, Timely
<1>3. ASSUME NEW g \in Conns, NEW k \in PairsOf(ann[g]), stage[g] \in Stored
      PROVE  k \in Pairs
  BY <1>3 DEF Typed, Staged, Stored, Announcing, Announcement, PairsOf, Pairs
<1>4. ASSUME NEW k \in Pairs, storage[k] # None PROVE storage[k].timestamp \in Nat
  BY <1>0, <1>4 DEF PeeringRecords, Record
\* A record that takes the place of another is as fresh.
<1>5. ASSUME NEW h \in Conns, Store(h) PROVE Fresh'
  <2>1. /\ storage' = process_announcement(storage, ann[h], src[h], clock)
        /\ storedAt' = [storedAt EXCEPT ![h] = clock]
        /\ ann' = ann /\ clock' = clock
        /\ stage[h] = "store" /\ stage'[h] \in Stored
    BY <1>0, <1>5 DEF Store, requestVars, envVars, Goes, Stored
  <2>2. ASSUME NEW k \in Pairs
        PROVE  storage'[k] = IF k \in PairsOf(ann[h]) THEN RecordOf(ann[h], src[h], clock)
                             ELSE storage[k]
    BY <2>1 DEF process_announcement
  <2>3. RecordOf(ann[h], src[h], clock) # None
        /\ RecordOf(ann[h], src[h], clock).timestamp = clock
    <3>1. ann[h] \in Announcement /\ src[h] \in V4
      BY <1>5, <2>1 DEF Store, Typed, Staged, Announcing
    <3> QED
      BY <1>0, <3>1, RecordType, NoneAssumption DEF RecordOf
  <2>4. ASSUME NEW g \in Conns, NEW k \in PairsOf(ann[g]), storedAt'[g] >= 0,
               clock - storedAt'[g] < RecordTimeout
        PROVE  storage'[k] # None /\ storage'[k].timestamp >= storedAt'[g]
    <3>1. CASE g = h
      <4>1. k \in Pairs
        BY <2>1, <3>1 DEF Typed, Staged, Announcing, Announcement, PairsOf, Pairs
      <4> QED
        BY <1>0, <2>1, <2>2, <2>3, <3>1, <4>1
    <3>2. CASE g # h
      <4>1. /\ storedAt'[g] = storedAt[g] /\ stage[g] \in Stored /\ storedAt[g] <= clock
            /\ storage[k] # None /\ storage[k].timestamp >= storedAt[g]
        BY <1>0, <1>2, <2>1, <2>4, <3>2 DEF Fresh
      <4> QED
        BY <1>0, <1>3, <2>2, <2>3, <4>1
    <3> QED
      BY <3>1, <3>2
  <2>5. ASSUME NEW g \in Conns, storedAt'[g] >= 0
        PROVE  stage'[g] \in Stored /\ storedAt'[g] <= clock
    BY <1>0, <1>2, <2>1, <2>5, StoredStays DEF Fresh
  <2> QED
    BY <2>1, <2>4, <2>5 DEF Fresh
\* While the sweeper waits for its lock no time passes.
<1>6. CASE Sweep
  <2>1. /\ storage' = remove_old_records(storage, sweep_now)
        /\ UNCHANGED <<storedAt, ann, clock, stage>>
    BY <1>6 DEF Sweep, requestVars, envVars
  <2>2. sweep_now = clock /\ \A k \in Pairs : storage[k] # None => storage[k].timestamp <= clock
    BY <1>0, <1>2, <1>6 DEF Sweep, Aging, AgeBelow, Typed, TypeOK
  <2>3. ASSUME NEW k \in Pairs, NEW t \in Nat, storage[k] # None, storage[k].timestamp >= t,
               clock - t < RecordTimeout
        PROVE  storage'[k] = storage[k]
    BY <1>0, <1>4, <2>1, <2>2, <2>3, TimeoutAssumption DEF remove_old_records, Kept
  <2>4. ASSUME NEW g \in Conns, NEW k \in PairsOf(ann[g]), storedAt[g] >= 0,
               clock - storedAt[g] < RecordTimeout
        PROVE  storage'[k] # None /\ storage'[k].timestamp >= storedAt[g]
    <3>1. /\ stage[g] \in Stored /\ storedAt[g] \in Nat
          /\ storage[k] # None /\ storage[k].timestamp >= storedAt[g]
      BY <1>0, <1>2, <2>4 DEF Fresh
    <3> QED
      BY <1>3, <2>3, <2>4, <3>1
  <2> QED
    BY <1>2, <2>1, <2>4 DEF Fresh
<1>7. CASE Tick
  <2>1. UNCHANGED <<storage, storedAt, ann, stage>> /\ clock' \in {clock, clock + 1}
    BY <1>7 DEF Tick, storageVars, requestVars
  <2> QED
    BY <1>0, <1>2, <2>1, TimeoutAssumption DEF Fresh
<1>8. CASE Restart
  BY <1>8 DEF Restart, Fresh
<1>9. CASE UNCHANGED <<storage, storedAt, clock, stepBacks>>
  BY <1>9, FreshElsewhere DEF FreshInv
<1> QED
  BY <1>1, <1>5, <1>6, <1>7, <1>8, <1>9 DEF Next, vars, storageVars, envVars, Handle, Accept,
     ReadAnnouncement, TlsError, BadFrame, OtherVersion, LockStorage, Lookup, WriteResponse,
     WriteFails, Shutdown, ShutdownFails, RefuseIpv6, CountRelay, SweepStart, MonitorFails

\* A connection comes to have an answer to write by looking it up.
LEMMA OnlyLookupAnswers ==
  ASSUME Typed, [Next]_vars, NEW h \in Conns, stage[h] = "locked", stage'[h] = "respond"
  PROVE  Lookup(h)
<1> USE DEF Goes, Typed, TypeOK
<1>1. CASE Restart
  BY <1>1 DEF Restart
<1>2. CASE SweepStart \/ Sweep \/ MonitorFails \/ Tick \/ StepBack \/ UNCHANGED vars
  BY <1>2 DEF SweepStart, Sweep, MonitorFails, Tick, StepBack, vars
<1>3. CASE \E g \in Conns : \/ \E addr \in Addrs : Accept(g, addr)
                            \/ \E a \in Announcements : ReadAnnouncement(g, a)
                            \/ TlsError(g) \/ BadFrame(g) \/ OtherVersion(g)
  BY <1>3 DEF Accept, ReadAnnouncement, TlsError, BadFrame, OtherVersion
<1>4. CASE \E g \in Conns : Handle(g)
  BY <1>4 DEF Handle, LockStorage, Lookup, WriteResponse, WriteFails, Shutdown,
     ShutdownFails, RefuseIpv6, Store, CountRelay
<1> QED
  BY <1>1, <1>2, <1>3, <1>4 DEF Next

\* Of two peers that name each other, the one that comes while the announcement of
\* the other is on record and in time is told where the other is, if the sweeper
\* never waits for its lock and the clock only goes forward.
THEOREM Meeting == LockDelay = 0 => (Spec => Rendezvous)
<1> SUFFICES ASSUME LockDelay = 0 PROVE Spec => Rendezvous
  OBVIOUS
<1> DEFINE Found ==
      \A g, h \in Conns :
        (/\ stage[h] = "locked" /\ stage'[h] = "respond"
         /\ storedAt[g] >= 0 /\ clock - storedAt[g] < RecordTimeout
         /\ ann[g].initiator_pubkey \in ann[h].peer_pubkeys
         /\ ann[h].initiator_pubkey \in ann[g].peer_pubkeys
         /\ stepBacks = 0)
        => reply'[h].peer_endpoints[ann[g].initiator_pubkey] # Unknown
<1>1. ASSUME Typed, FreshInv, [Next]_vars PROVE Found
  <2> SUFFICES ASSUME NEW g \in Conns, NEW h \in Conns,
                      stage[h] = "locked", stage'[h] = "respond",
                      storedAt[g] >= 0, clock - storedAt[g] < RecordTimeout,
                      ann[g].initiator_pubkey \in ann[h].peer_pubkeys,
                      ann[h].initiator_pubkey \in ann[g].peer_pubkeys,
                      stepBacks = 0
               PROVE  reply'[h].peer_endpoints[ann[g].initiator_pubkey] # Unknown
    OBVIOUS
  <2> DEFINE p == ann[g].initiator_pubkey
             k == <<p, ann[h].initiator_pubkey>>
             e == get_peer_endpoints(storage, ann[h], src[h])
  <2>1. storage[k] # None
    BY <1>1 DEF FreshInv, Fresh, PairsOf
  <2>2. reply'[h] = WireplugResponse(e)
    <3>1. Lookup(h)
      BY <1>1, OnlyLookupAnswers
    <3> QED
      BY <1>1, <3>1 DEF Lookup, Typed, TypeOK
  <2>3. reply'[h].peer_endpoints = e
    BY <2>2 DEF WireplugResponse
  <2>4. e[p] = endpoint_of(storage, ann[h], src[h], p)
    BY DEF get_peer_endpoints
  <2>5. endpoint_of(storage, ann[h], src[h], p) # Unknown
    BY <2>1 DEF endpoint_of, Unknown, LocalNetwork, RemoteNetwork
  <2> QED
    BY <2>3, <2>4, <2>5
<1>2. Typed /\ FreshInv /\ [Next]_vars => [Found]_vars
  BY <1>1
<1>3. Typed /\ Timely /\ FreshInv /\ [Next]_vars => FreshInv'
  BY FreshStep
<1>4. Spec => [](Typed /\ Timely /\ FreshInv)
  BY <1>3, TypedInit, TypedStep, TimelyInit, TimelyStep, FreshInit, PTL DEF Spec
<1>5. Spec => [][Found]_vars
  BY <1>2, <1>4, PTL DEF Spec
<1> QED
  BY <1>5 DEF Rendezvous
=============================================================================
