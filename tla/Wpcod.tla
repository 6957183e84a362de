-------------------------------- MODULE Wpcod --------------------------------
(***************************************************************************)
(* The coordination server as it runs: the tasks that server/src/main.rs   *)
(* spawns, what they share, and where they can be interrupted.             *)
(*                                                                         *)
(* The runtime is single-threaded, so a task runs undisturbed from one     *)
(* await to the next and an action is what lies between two awaits that    *)
(* matter.  Any await may suspend its task (a lock that is held, a socket  *)
(* that is not ready, the runtime's budget), so any other task may run     *)
(* between two actions.  Awaits that touch nothing shared, such as the     *)
(* reads of one frame, are one action.                                     *)
(*                                                                         *)
(* Locks.  Every write-locked section is free of awaits, so it is one      *)
(* action and no one ever sees the write lock held.  The one section that  *)
(* holds a lock across an await is get_peer_endpoints: it holds storage    *)
(* for reading while it waits for the relay manager.  Its holders are the  *)
(* connections in stage "locked", and a writer needs that there are none.  *)
(***************************************************************************)
EXTENDS Peering, FiniteSets

CONSTANTS
  Conns,          \* the connections accepted in a behaviour
  Announcements,  \* the announcements that clients send
  SweepEvery,     \* ticks the sweeper sleeps between two sweeps
  LockDelay,      \* bound: ticks the sweeper may have to wait for its lock
  MaxClock,       \* bound: the clock is not followed any further
  MaxStepBacks,   \* bound: times the system clock is set back
  MaxRestarts     \* bound: times wpcod is restarted

ASSUME AnnouncementsAssumption == Announcements \subseteq Announcement
ASSUME TimeAssumption ==
  SweepEvery \in Nat /\ LockDelay \in Nat /\ MaxClock \in Nat
ASSUME BoundsAssumption == MaxStepBacks \in Nat /\ MaxRestarts \in Nat

VARIABLES
  storage,      \* peering_records of the shared Storage
  tls_errors, relays_needed,          \* the shared ServerStats
  stage,        \* where the task of each connection stands
  src, ann,     \* its announcing_peer_addr and its announcement
  reply,        \* what it has for the client, in the end what the client read
  storedAt,     \* history: the clock when it wrote its records, -1 if it did
                \* not, or if the server was restarted since
  sweeper,      \* "asleep", or "locking": it waits for the storage lock
  waited,       \* ticks since the sweeper fell asleep or began to wait
  sweep_now,    \* the sweeper's `now`, read before it asks for the lock
  monitor,      \* "running" or "dead": the task of --monitor
  clock,        \* SystemTime
  stepBacks, restarts                 \* what the bounds above count

storageVars == <<storage, storedAt>>
statsVars == <<tls_errors, relays_needed>>
requestVars == <<src, ann>>
sweepVars == <<sweeper, waited, sweep_now>>
envVars == <<clock, stepBacks, restarts>>
vars == <<storageVars, statsVars, stage, requestVars, reply, sweepVars, monitor,
          envVars>>

\* free      not accepted yet            respond   the answer is computed
\* tls       accepted, nothing read      shutdown  the answer is written
\* lookup    a valid announcement read   store     the stream is shut down
\* locked    storage is read-locked      count     the records are written
\* done      handled without error       closed    given up on
Stages == {"free", "tls", "lookup", "locked", "respond", "shutdown", "store",
           "count", "done", "closed"}

Stored == {"count", "done"}

Readers == {h \in Conns : stage[h] = "locked"}

Goes(h, from, to) == stage[h] = from /\ stage' = [stage EXCEPT ![h] = to]

Init ==
  /\ storage = NoRecords
  /\ tls_errors = 0 /\ relays_needed = 0
  /\ stage = [h \in Conns |-> "free"]
  /\ src = [h \in Conns |-> None]
  /\ ann = [h \in Conns |-> None]
  /\ reply = [h \in Conns |-> NoReply]
  /\ storedAt = [h \in Conns |-> -1]
  /\ sweeper = "asleep" /\ waited = SweepEvery /\ sweep_now = 0
  /\ monitor = "running"
  /\ clock = 0 /\ stepBacks = 0 /\ restarts = 0

-----------------------------------------------------------------------------
\* A connection.

\* The accept loop takes a connection and spawns its task.
Accept(h, addr) ==
  /\ Goes(h, "free", "tls")
  /\ src' = [src EXCEPT ![h] = addr]
  /\ UNCHANGED <<storageVars, statsVars, ann, reply, sweepVars, monitor, envVars>>

TlsError(h) ==
  /\ Goes(h, "tls", "closed")
  /\ tls_errors' = tls_errors + 1
  /\ UNCHANGED <<storageVars, relays_needed, requestVars, reply, sweepVars,
                 monitor, envVars>>

\* The frame does not arrive in full, has the wrong magic, is announced as
\* longer than MAX_MESSAGE_SIZE, or does not decode.
BadFrame(h) ==
  /\ Goes(h, "tls", "closed")
  /\ UNCHANGED <<storageVars, statsVars, requestVars, reply, sweepVars, monitor,
                 envVars>>

\* The magic is right and the version is not: the client is told ours.
OtherVersion(h) ==
  /\ Goes(h, "tls", "closed")
  /\ reply' = [reply EXCEPT ![h] = VersionReply]
  /\ UNCHANGED <<storageVars, statsVars, requestVars, sweepVars, monitor, envVars>>

\* Mutant: announcements are not checked.
ReadUnchecked(h, a) ==
  /\ Goes(h, "tls", "lookup")
  /\ ann' = [ann EXCEPT ![h] = a]
  /\ UNCHANGED <<storageVars, statsVars, src, reply, sweepVars, monitor, envVars>>

ReadAnnouncement(h, a) ==
  /\ Goes(h, "tls", IF valid(a) THEN "lookup" ELSE "closed")
  /\ ann' = [ann EXCEPT ![h] = a]
  /\ UNCHANGED <<storageVars, statsVars, src, reply, sweepVars, monitor, envVars>>

\* storage.read().await of get_peer_endpoints
LockStorage(h) ==
  /\ Goes(h, "lookup", "locked")
  /\ UNCHANGED <<storageVars, statsVars, requestVars, reply, sweepVars, monitor,
                 envVars>>

\* relay_manager.write().await, which no one holds across an await, and the
\* rest of get_peer_endpoints; both locks are released on return.
Lookup(h) ==
  /\ Goes(h, "locked", "respond")
  /\ reply' = [reply EXCEPT ![h] =
       WireplugResponse(get_peer_endpoints(storage, ann[h], src[h]))]
  /\ UNCHANGED <<storageVars, statsVars, requestVars, sweepVars, monitor, envVars>>

WriteResponse(h) ==
  /\ Goes(h, "respond", "shutdown")
  /\ UNCHANGED <<storageVars, statsVars, requestVars, reply, sweepVars, monitor,
                 envVars>>

\* Mutant: when a write fails the announcement is handled again.
WriteRetries(h) ==
  /\ Goes(h, "respond", "lookup")
  /\ reply' = [reply EXCEPT ![h] = NoReply]
  /\ UNCHANGED <<storageVars, statsVars, requestVars, sweepVars, monitor, envVars>>

\* One of the writes fails: the client is gone and has no answer.
WriteFails(h) ==
  /\ Goes(h, "respond", "closed")
  /\ reply' = [reply EXCEPT ![h] = NoReply]
  /\ UNCHANGED <<storageVars, statsVars, requestVars, sweepVars, monitor, envVars>>

Shutdown(h) ==
  /\ Goes(h, "shutdown", "store")
  /\ UNCHANGED <<storageVars, statsVars, requestVars, reply, sweepVars, monitor,
                 envVars>>

\* The client has its answer, and the announcement is lost.
ShutdownFails(h) ==
  /\ Goes(h, "shutdown", "closed")
  /\ UNCHANGED <<storageVars, statsVars, requestVars, reply, sweepVars, monitor,
                 envVars>>

\* process_announcement refuses an announcer it sees under an IPv6 address.
RefuseIpv6(h) ==
  /\ Goes(h, "store", "closed")
  /\ src[h] \in V6
  /\ UNCHANGED <<storageVars, statsVars, requestVars, reply, sweepVars, monitor,
                 envVars>>

\* Mutant: the address is recorded whatever its family.
StoreAnyAddress(h) ==
  /\ Goes(h, "store", IF ann[h].needs_relay THEN "count" ELSE "done")
  /\ Readers = {}
  /\ storage' = process_announcement(storage, ann[h], src[h], clock)
  /\ storedAt' = [storedAt EXCEPT ![h] = clock]
  /\ UNCHANGED <<statsVars, requestVars, reply, sweepVars, monitor, envVars>>

\* storage.write().await and the rest of process_announcement.
Store(h) ==
  /\ Goes(h, "store", IF ann[h].needs_relay THEN "count" ELSE "done")
  /\ src[h] \in V4
  /\ Readers = {}
  /\ storage' = process_announcement(storage, ann[h], src[h], clock)
  /\ storedAt' = [storedAt EXCEPT ![h] = clock]
  /\ UNCHANGED <<statsVars, requestVars, reply, sweepVars, monitor, envVars>>

CountRelay(h) ==
  /\ Goes(h, "count", "done")
  /\ relays_needed' = relays_needed + 1
  /\ UNCHANGED <<storageVars, tls_errors, requestVars, reply, sweepVars, monitor,
                 envVars>>

-----------------------------------------------------------------------------
\* The sweeper task of main.rs around remove_old_records.

\* Mutant: `now` is read once, before the loop.
SweepStartOldNow ==
  /\ sweeper = "asleep" /\ waited = SweepEvery
  /\ sweeper' = "locking" /\ waited' = 0
  /\ UNCHANGED <<sweep_now, storageVars, statsVars, stage, requestVars, reply,
                 monitor, envVars>>

\* The sleep is over: `now` is read, and then the lock is asked for.
SweepStart ==
  /\ sweeper = "asleep" /\ waited = SweepEvery
  /\ sweeper' = "locking" /\ waited' = 0
  /\ sweep_now' = clock
  /\ UNCHANGED <<storageVars, statsVars, stage, requestVars, reply, monitor, envVars>>

Sweep ==
  /\ sweeper = "locking"
  /\ Readers = {}
  /\ storage' = remove_old_records(storage, sweep_now)
  /\ sweeper' = "asleep" /\ waited' = 0
  /\ UNCHANGED <<storedAt, statsVars, stage, requestVars, reply, sweep_now, monitor,
                 envVars>>

-----------------------------------------------------------------------------
\* Mutant: the writer gives up when it cannot write to the monitoring socket.
MonitorGivesUp ==
  /\ monitor = "running"
  /\ monitor' = "dead"
  /\ UNCHANGED <<storageVars, statsVars, stage, requestVars, reply, sweepVars, envVars>>

\* The task of --monitor (without the flag it does not exist).  write_to fails
\* on a record from the future, and start_writer returns on its first error.
MonitorFails ==
  /\ monitor = "running"
  /\ \E k \in Pairs : storage[k] # None /\ storage[k].timestamp > clock
  /\ monitor' = "dead"
  /\ UNCHANGED <<storageVars, statsVars, stage, requestVars, reply, sweepVars, envVars>>

-----------------------------------------------------------------------------
\* The environment.

\* A tick passes.  The sweeper is woken in the tick in which its sleep ends,
\* and waits LockDelay ticks at most.  The clock stops counting at MaxClock.
Tick ==
  /\ waited < (IF sweeper = "asleep" THEN SweepEvery ELSE LockDelay)
  /\ waited' = waited + 1
  /\ clock' = IF clock < MaxClock THEN clock + 1 ELSE clock
  /\ UNCHANGED <<storageVars, statsVars, stage, requestVars, reply, sweeper,
                 sweep_now, monitor, stepBacks, restarts>>

\* SystemTime is not monotonic: the clock is set back.
StepBack ==
  /\ stepBacks < MaxStepBacks
  /\ \E t \in 0 .. clock - 1 : clock' = t
  /\ stepBacks' = stepBacks + 1
  /\ UNCHANGED <<storageVars, statsVars, stage, requestVars, reply, sweepVars,
                 monitor, restarts>>

\* wpcod stops and is started again: nothing is persisted, and every
\* connection is cut.
Restart ==
  /\ restarts < MaxRestarts
  /\ restarts' = restarts + 1
  /\ storage' = NoRecords
  /\ tls_errors' = 0 /\ relays_needed' = 0
  /\ stage' = [h \in Conns |->
       IF stage[h] = "free" THEN "free"
       ELSE IF stage[h] \in Stored THEN "done" ELSE "closed"]
  /\ reply' = [h \in Conns |->
       IF stage[h] = "respond" THEN NoReply ELSE reply[h]]
  /\ storedAt' = [h \in Conns |-> -1]
  /\ sweeper' = "asleep" /\ waited' = SweepEvery /\ sweep_now' = 0
  /\ monitor' = "running"
  /\ UNCHANGED <<requestVars, clock, stepBacks>>

-----------------------------------------------------------------------------
\* What a task does once it has an announcement needs nothing of the client.
Handle(h) ==
  \/ LockStorage(h) \/ Lookup(h)
  \/ WriteResponse(h) \/ WriteFails(h)
  \/ Shutdown(h) \/ ShutdownFails(h)
  \/ RefuseIpv6(h) \/ Store(h) \/ CountRelay(h)

Next ==
  \/ \E h \in Conns :
       \/ \E addr \in Addrs : Accept(h, addr)
       \/ TlsError(h) \/ BadFrame(h) \/ OtherVersion(h)
       \/ \E a \in Announcements : ReadAnnouncement(h, a)
       \/ Handle(h)
  \/ SweepStart \/ Sweep
  \/ MonitorFails
  \/ Tick \/ StepBack \/ Restart

Spec == Init /\ [][Next]_vars

\* A task that can run is run in the end, and the storage lock is a queue: who
\* waits for it is served although readers keep coming.  Nothing obliges a
\* client to send its frame.
Fairness ==
  /\ \A h \in Conns : WF_vars(Handle(h)) /\ SF_vars(Store(h))
  /\ WF_vars(SweepStart) /\ SF_vars(Sweep)
  /\ WF_vars(Tick)

FairSpec == Spec /\ Fairness

-----------------------------------------------------------------------------
\* Properties.

\* The types of the variables, and the stages in which they have a value.
TypeOK ==
  /\ storage \in PeeringRecords
  /\ tls_errors \in Nat /\ relays_needed \in Nat
  /\ stage \in [Conns -> Stages]
  /\ src \in [Conns -> Addrs \cup {None}]
  /\ ann \in [Conns -> Announcement \cup {None}]
  /\ DOMAIN reply = Conns /\ \A h \in Conns : IsReply(reply[h])
  /\ storedAt \in [Conns -> Nat \cup {-1}]
  /\ sweeper \in {"asleep", "locking"} /\ waited \in Nat /\ sweep_now \in Nat
  /\ monitor \in {"running", "dead"}
  /\ clock \in Nat /\ stepBacks \in Nat /\ restarts \in Nat

\* Connection g wrote a record of k, with what it announced and the address it
\* was seen under.
Wrote(g, k) ==
  /\ stage[g] \in Stored
  /\ valid(ann[g]) /\ k \in PairsOf(ann[g])
  /\ src[g] \in V4

\* Whatever is on record was announced: a record comes, whole, from one valid
\* announcement, by the peer it is about, that named the peer it is for, and
\* that was answered (the answer is written before the record is).  No rejected,
\* cut off or IPv6 announcement and no mix of two announcements is on record.
RecordsAuthentic ==
  \A k \in Pairs : storage[k] # None =>
    \E g \in Conns :
      /\ Wrote(g, k)
      /\ storage[k] = RecordOf(ann[g], src[g], storage[k].timestamp)
      /\ reply[g].kind = "response"

\* The endpoint that a connection from addr is given for what g announced.
EndpointFrom(g, addr) ==
  IF addr = src[g]
  THEN LocalNetwork(ann[g].ipv6, ann[g].lan_addrs, ann[g].wg_port)
  ELSE RemoteNetwork(src[g], ann[g].ipv6, ann[g].wg_port)

\* Peers learn of each other only by naming each other: the endpoint that h is
\* told for p is one that p announced, in an announcement that named h's key;
\* and p's LAN addresses go to no one but a peer with p's public address.
AnswersMutual ==
  \A h \in Conns : reply[h].kind = "response" =>
    \A p \in DOMAIN reply[h].peer_endpoints :
      \/ reply[h].peer_endpoints[p] = Unknown
      \/ \E g \in Conns :
           /\ Wrote(g, <<p, ann[h].initiator_pubkey>>)
           /\ reply[h].peer_endpoints[p] = EndpointFrom(g, src[h])

\* Nothing is remembered for long: lookups do not look at timestamps, so that
\* endpoints of a peer that is gone for good are not handed out rests on the
\* sweeper alone, which has a period and a lock of its own to wait for.
ForgottenInTime ==
  stepBacks = 0 => \A k \in Pairs : storage[k] # None =>
    clock - storage[k].timestamp < RecordTimeout + SweepEvery + 2 * LockDelay

\* The status task, which returns on its first error, only ever fails if the
\* system clock is set back.
MonitorSurvives == monitor = "dead" => stepBacks > 0

\* A record goes before its time only by a restart, by a clock set back, or if
\* it was written while the sweeper, its `now` already read, was waiting.
NotForgottenEarly ==
  [][\A k \in Pairs :
       (storage[k] # None /\ storage'[k] = None) =>
         \/ restarts' # restarts
         \/ stepBacks > 0
         \/ clock - storage[k].timestamp >= RecordTimeout
         \/ sweeper = "locking" /\ storage[k].timestamp > sweep_now]_vars

\* The rendezvous: of two peers that name each other, the one that is answered
\* after the other's announcement is on record, and within RecordTimeout of it,
\* is told where the other is.  (Of two that are answered before either is on
\* record, neither is.)  It takes a sweeper that gets its lock at once.
Rendezvous ==
  [][\A g, h \in Conns :
       (/\ stage[h] = "locked" /\ stage'[h] = "respond"
        /\ storedAt[g] >= 0 /\ clock - storedAt[g] < RecordTimeout
        /\ ann[g].initiator_pubkey \in ann[h].peer_pubkeys
        /\ ann[h].initiator_pubkey \in ann[g].peer_pubkeys
        /\ stepBacks = 0)
       => reply'[h].peer_endpoints[ann[g].initiator_pubkey] # Unknown]_vars

\* No lock is waited for in vain: every announcement read is handled to the end
\* or given up on.
AnnouncementsSettle ==
  \A h \in Conns : stage[h] = "lookup" ~> stage[h] \in {"done", "closed"}

\* A record that has outlived RecordTimeout is removed or renewed.
OldRecordsGo ==
  \A k \in Pairs :
    (storage[k] # None /\ ~Kept(storage[k], clock))
      ~> (storage[k] = None \/ Kept(storage[k], clock))

=============================================================================
