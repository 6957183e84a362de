# Verification of wireplug

TLA+ models of `wpcod`, the coordination server of wireplug, of `wireplugd`, its
client, and of both together, with TLC runs that check them on small instances and
proofs that TLAPS checks for every instance. Paths below are relative to the
repository; `PROJECT.json` maps each definition to the lines it stands for.

## The system

Two programs share one protocol. A `wireplugd` watches the network of its host and
the traffic of the peers of one WireGuard interface. When the network is new, or a
peer has been silent, it announces itself over TLS to `wpcod`: its key, the keys of
the peers it wants to reach, its port, its IPv6 and LAN addresses. `wpcod` answers
with what it knows of those peers, that is, with what *they* announced about
themselves in an announcement that named *this* client, and then records the
announcement. Two UDP services of `wpcod` tell a client which port its packets seem
to come from, so that it can tell how the NAT in front of it maps ports.

| Part | State | Operations | What is hard | What makes it correct |
|---|---|---|---|---|
| protocol, `shared/src/protocol.rs` | none | `valid`, building messages | | only well-formed announcements count |
| peering storage, `server/src/peering.rs` | map (announcing key, named key) → record, behind an RwLock | `get_peer_endpoints`, `process_announcement`, `remove_old_records` | order of the key pair, two addresses compared, time read before the lock | answers concern those who asked for each other; records are whole |
| connection handler, `server/src/server.rs` | one task per connection, shared statistics | read a frame, answer, shut down, record, count | every await is an interleaving point, every I/O call can fail after the answer went out | answered from one state, recorded whole, after the answer, at most once |
| sweeper, `server/src/main.rs:71-79` | its `now` | sweep every 60 s | `now` older than the sweep, clock set back | records go in time and not before |
| status monitor, `server/src/status.rs` | none | write a report every 3 s | ends at the first error | survives |
| STUN service and NAT detection, `server/src/stun.rs`, `client/src/nat.rs` | none | answer, classify two answers | UDP: lost, late and repeated answers | the port announced goes with the port listened on |
| network monitor, `client/src/netstat.rs` | `current`, `last_online` | `check_status`, `set_hard_nat` | outages, coming back, what is remembered of a network | hard NATs are remembered while the network stays |
| daemon loop, `client/src/daemon.rs` | port to announce, inactive peers, deadline | check, detect, rebind, judge, announce | `continue` with half of the state changed, network changes anywhere, a deadline that lags | keeps going, keeps asking, asks in time, has a usable port |
| announcing, `client/src/announce.rs` | a connection | connect, send, wait for the answer | the answer may never come, or after the network has changed | what is announced is of one host at one time |
| device and tracker, `client/src/wg_interface.rs` | WireGuard's peers; the tracker's view of them | judge peers by rx, choose an address, set endpoints | the kernel changes endpoints and the user changes peers behind the tracker's back | peers are reached where they are |
| addresses of the host, `client/src/utils.rs` | none | find addresses, compare LANs | LANs of different hosts with the same addresses | a LAN address is used on that LAN only |
| start of the daemon, `client/src/main.rs`, `config.rs`, `netlink.rs`, `configure` | the interface, its addresses and routes | read the config, set up the interface step by step | any step can fail and leaves the ones before it done | monitoring begins only on the interface that the config describes |
| relay manager, `server/src/relay` | three maps | | disabled | |

The remaining parts (start-up and lockdown of the server, logging, `wppriv`, `bpf`)
run once in sequence, do nothing yet, or are output. They are listed in
`PROJECT.json` with the reason for leaving them out; so is every hazard of the code,
at its line, with the properties that look after it.

## The modules

| Module | Models | Uses |
|---|---|---|
| `Protocol` | announcements, endpoints, responses, `valid` | |
| `Peering` | the three functions of `peering.rs` as operators on the records | `Protocol` |
| `Wpcod` | the tasks of the server and their interleavings | `Peering` |
| `Directory` | the abstract directory that the server promises to be | `Protocol` |
| `WpcodDirectory` | the refinement mapping from `Wpcod` to `Directory` | `Wpcod` |
| `NetworkMonitor`, `Nat`, `PeerTracker` | `netstat.rs`, `nat.rs` with `stun.rs`, and the tracker of `wg_interface.rs` as operators | |
| `Endpoints` | from an answer of the server to a socket address: `update_peers`, LAN candidates | |
| `Wireplugd` | one daemon loop and the world around it | `NetworkMonitor`, `Nat`, `PeerTracker` |
| `InactivityClock` | the deadline of the inactivity check, in seconds | |
| `Wireplug` | several daemons, the server and the networks between them | `Peering`, `Nat`, and by INSTANCE `NetworkMonitor`, `PeerTracker`, `Endpoints` |
| `WgSetup` | a start of the daemon on Linux, with what earlier ones left behind | |
| `PeeringProofs` | lemmas on the three functions of `Peering`, for the modules below | `Peering`, TLAPS |
| `WpcodProofs`, `WireplugdProofs`, `WgSetupProofs`, `InactivityProofs`, `WireplugProofs` | theorems about the module each is named for | that module, TLAPS |
| `WpcodDirectoryProofs` | that the server implements `Directory` | `WpcodDirectory`, `WpcodProofs` |
| `WireplugOwnProofs` | whose the endpoints are that daemons hold | `WireplugProofs` |
| `MCWpcod`, `MCWpcodDirectory`, `MCWireplugd`, `MCWireplug`, `MCWgSetup` | constants of the runs | |

Definitions named *Mutant* are wrong versions of the definition that follows them.
No specification uses them: each shows, put in its place, that some property would
notice a plausible mistake.

### The server

The runtime has a single thread, so a task is undisturbed between two awaits. An
action of `Wpcod` is what lies between two awaits that matter; `stage[h]` says where
the task of connection `h` is suspended:

    free → tls → lookup → locked → respond → shutdown → store → (count →) done
             ↘ closed, from any stage but count, by an error, a refusal or a restart

`lookup` waits for the storage lock and `locked` holds it for reading while waiting
for the relay manager's (`peering.rs:89-90`); `respond` is about to write the
answer, `shutdown` to shut the stream down, `store` to write the record
(`server.rs:86-103`). The write lock of the storage is never held across an await,
so taking it and using it is one action, enabled when no connection is `locked`. In
practice few of these awaits suspend (the relay manager's lock is never contended,
for instance), but nothing in the code rules it out: the model lets every one of
them do so, and what holds of it does not rest on luck with the scheduler.

`storage` is a total function on pairs of keys with `None` where the map has no
entry. `storedAt` is the only history variable. A public key, an IPv6 option and a
LAN list are opaque; ports keep their sixteen bits.

Time is a `clock` in ticks. The sweeper sleeps `SweepEvery` ticks, reads `now`, and
then waits at most `LockDelay` ticks for its lock. The system clock may be set back,
the server restarted with an empty map, and any read or write may fail. Of the status task only
its failing is modelled, at the one line where a record can make it fail.

`Directory` has a table of places without timestamps, and requests that are asked,
answered from the table at one instant, and then published at one later instant or
dropped. Rows may be forgotten at any time and all of them in a crash. It says what
clients may count on; when rows are forgotten is what `ForgottenInTime` and
`NotForgottenEarly` say of `Wpcod`.

### The client

`pc` is the place in the loop of `monitor_interface`: `check` (top of the loop),
`stun1` and `stun2` (waiting for an answer), `rebind` (sleeping before
`update_port`), `inactivity` (the deadline check), `announce` (waiting for the
server), `exited`. Sleeps are subtracted from `left`, the time until the next
inactivity check, in seconds; calls take no time in the model, except that an
instant is past once the time until it is 0.

Around the loop the world goes on: the host changes its place (`Move`), peers change
their addresses (`Roam`), announce themselves (`PeerAnnounces`) and are heard of
(`Hear`, which sets the endpoint in the device as WireGuard does), the user adds or
removes a peer, the interface fails, the server is upgraded, and the daemon is ended
and started again on the device as it is (`Restart`). Places stand for the fields of
`NetInfo` that are compared. `Observed` gives the port that each of the two STUN
servers sees, and with it the kind of NAT of each place. The server appears as
`known`, where it would say that each peer is, already resolved to a socket address
(`NoSocket` for `Unknown` or no LAN candidate).

`rx_bytes` and the tracker's `rx` are compared and nothing else, so the device has
`less`, `same` or `more` for each peer: `less` is what a peer has that was removed
and added again, or was counted before. There are two history variables: `hard_nat` (a
hard NAT was `found` on the network last seen online, and perhaps an `outage` after) and
`at_start`, the peers that the device had when the daemon started.

### How long a peer may be silent

`InactivityClock` is the same loop with time in it and most else taken out. A pass is two
actions: one up to what `check_status` says and what that leads to (`Known`, `Quiet`,
`DetectionFails`, `ChangedToNew`), and one from the inactivity check to the sleep at the
end (`Check`). Each takes the seconds that the code sleeps:

| | `daemon.rs` | Sleep |
|---|---|---|
| `Quiet`: offline, or a hard NAT | 83 | 5, and no check |
| `DetectionFails` | 94 | 5, and no check |
| `ChangedToNew` | 115 | 3 |
| `Check`, at its end | 143 | 10 |
| `Check`, after each of up to three failed announcements | 45 | 5 |
| `Check`, after endpoints were updated | 38 | 5 |

and what its calls take (`Work`), at most `MaxWork`. `left` is the time until the next
check; unlike in `Wireplugd` it falls without end. `rx` and `inactive` are one peer's, and
its packets come when they like.

The deadline moves by 25 seconds each time it is met, and by another 25 for a new network,
from where it was and not from now. A pass may take longer than that on one network
already, with three announcements that fail: then the deadline lags, by any number of
seconds, and checks come at every pass until it has caught up.

- `waiting` is the time since the daemon heard the peer or turned to the server for it. A
  pass that ends before the check asks nobody, and there may be any number of them: an
  outage, a hard NAT, or a network whose detection fails each time. Nothing bounds how long
  a peer waits through these, so `waiting` leaves them out, and `SilentAskedInTime` bounds
  what remains: two periods and what the deadline and the longest passes add, and 12
  seconds for each new network, whose deadline moves by 25 where its pass may take 13.
- `whole` says that `waiting` is all of the time since the peer was heard, and `late` how
  late the last check was. `NotAskedEarly` then bounds how soon a peer that was heard last
  may be asked for: not before a whole period less `late`, and in any case not before the
  10 seconds at the end of a pass. After a late check those 10 seconds are all that is
  left of the 25, which is less than the interval of keepalives.

### Two daemons and a server

`Wireplug` puts a daemon on each of several hosts, and between them the server of
`Peering`, networks, and packets. A host is at a place; hosts at one place share a
link. `InfoAt` is what `NetInfo::detect` finds there, `MappedAt` what its NAT does to
ports. A packet gets from one host to another on their link, over IPv6, or through
the NAT of another network (`At`); NATs are open to whoever sends to the mapped port
and do not turn packets round. Endpoints are set by the daemon and by WireGuard, when
a packet comes in from elsewhere (`Heard`).

The daemon has fewer stops here than in `Wireplugd`, and the operators are the same:
`NetworkMonitor`, `PeerTracker`, `Nat`, `Endpoints` and `Peering` are instantiated
with the hosts' real addresses. What the module leaves out, so that the composition
stays small enough:

- NAT detection succeeds where the host has IPv4, on a NAT that keeps or maps ports;
  lost answers and hard NATs are `Wireplugd`'s. Where it has IPv6 alone it counts as
  online, as in the code, but is not served: the sockets of detection are of IPv4, and
  `process_announcement` refuses an IPv6 source.
- No port is drawn twice, of the 64512 that there are; when all have been drawn a
  host takes up no new network.
- Packets are looked at when the daemon judges its peers, and only then set
  endpoints; when judging is due is `InactivityClock`'s. It may be due at any check, also
  right after the port was changed for a new network (`Rebind`).
- The client reads an answer at the instant at which the server makes it. In the code
  a lot may happen in between, but only to the records, and an answer that is stale by
  then is one that could have come earlier.
- The server answers at one instant and records at a later one, or never; that is
  what `ImplementsDirectory` shows of `Wpcod`. Of each host at most two announcements
  wait to be recorded, in either order; a third makes one of them fail.
- A restart of the server and records that are out of time are both `Forget`.

### The start of the daemon

`WgSetup` has the calls that `start` makes before the loop of `Wireplugd`, one action
each: the config is read, keys and IPs are parsed, the device is updated, and address,
flag and route are set through netlink. Each may fail, and the process may be killed
between two, which ends the start with the interface as it is (`Fail`). A device
update goes to the kernel in messages, of which the last may be missing
(`configure_partly`). The next start finds all this, possibly with another config.

Meanwhile the user writes the config, has an example generated, adds and deletes the
interface, adds a peer with `wg`, takes the interface down, or gives a network to
another one; while a start is under way the user leaves the interface alone, but not
the file. An allowed IP has 32 bits as in the code (`wg_interface.rs:231`): `First32`
says which IPs that makes the same. Strings either parse or are `Bad`. The commands
for macOS and OpenBSD are not modelled.

## The runs

| Run | Question | Bounds, and why they are enough |
|---|---|---|
| `wpcod_records` | `TypeOK`, `RecordsAuthentic`, `AnswersMutual`: is what is recorded and answered what was announced, by and for the right peers? `ImplementsDirectory`: is an answer a snapshot, and a recording atomic? | 2 connections, two IPv4 addresses and an IPv6 one, announcements invalid in each way and one that names two peers; 1 restart; clock to 3 with a timeout of 2. A record needs one connection and an answer another one. |
| `wpcod_time` | `ForgottenInTime`, `NotForgottenEarly`, `MonitorSurvives` | Clock to 6 with a timeout of 2, a period of 2 and a delay of 1: enough for the worst case, which is 5, to happen and to be exceeded. 1 clock step back. |
| `wpcod_rendezvous` | `Rendezvous`: is the second of two peers told of the first? | 3 connections, so that one peer can announce twice, from two addresses with two ports. `LockDelay = 0`: otherwise a sweep may drop a fresh record, which `wpcod_time` shows. |
| `wpcod_live` | `AnnouncementsSettle`, `OldRecordsGo` under fairness | 2 connections, which is what it takes to wait for one another. |
| `wireplugd_safety` | `TypeOK`, `PortFits`, `ExitJustified`, `HardNatQuiet` | A network that keeps one port and maps another, one where detection finds a hard NAT or, from another port, contradicts itself, and none; 2 moves, so that a detection can fail or mix networks after one that succeeded; 2 ports; a second peer; one edit: a peer added, or removed and, which does not count again, added back, a restart, a failure of the interface or an upgrade. `at_start` tells the peers whose tracking a start is responsible for from newcomers. `MaxLag = 0` forgets how late an inactivity check is, which delays none. |
| `wireplugd_live` | `SilentPeersAnnounced`, `ReachesPeer` under fairness, peers not coming in by themselves | 2 moves of the host between a mapped network and none, 2 of the peer between 2 addresses: there and back; 1 edit, after which a peer that was removed may be added again. |
| `wireplugd_stun_lost` | `UsablePort`, violated | Host and peer stay where they are. |
| `wireplugd_roaming` | `ReachesPeer`, violated | The peer goes and comes back. |
| `wireplug_meet` | `EndpointsOwn`: is a peer ever taken for another one? `PeersMeet` under fairness: do two hosts come to reach each other, and go on doing so? | Alice at home, on bob's LAN and with IPv6, or at a cafe whose NAT maps ports and whose LAN has the same addresses; 1 move, at any point of either daemon and of the server. |
| `wireplug_losses` | `TypeOK`, `PeersMeet` under fairness | Alice at home with IPv4 alone, losing the network or on another with IPv6 alone, and back (2 moves); the server losing any of its records once. |
| `setup` | `TypeOK`, `RunsConfigured`, `PeersRoutable`; `StartsAgain` under fairness | Two peers with IPv4 addresses and three configs: one of both peers, one that gives an IP of the first to the other, one with an address that does not parse. 5 edits: an interface, a config, another config, and two disturbances. |
| `inactivity` | `SilentAskedInTime`, `NotAskedEarly` | The code's own seconds; calls of half a pass taking none or 5, three new networks, any number of passes of each kind, and a lag of up to 40 seconds, which three passes with failed announcements and slow calls build up. Where it is reached a pass is cut off (it is a guard); the proofs are for every lag and every `MaxWork`. |

Every property of a passing run has a mutant in `PROJECT.json` that breaks it.
Symmetry among connections is used in runs of safety properties only
(`ImplementsDirectory` is one: `Directory` states no fairness). The clock of `Wpcod` and
`left` of `Wireplugd` stop at `MaxClock` and `-MaxLag`; the other bounds disable the action
that they count.

### Fairness

In the server (`Fairness` of `Wpcod`): each task that has read its announcement goes
on, and the sweeper and time do, because the runtime polls every task that is ready
and socket errors end what sockets do not. `Store` and `Sweep` wait for readers that
may come again and again; the runtime's RwLock is a queue in which a waiting writer
holds up later readers, hence strong fairness. Nothing makes a client send its frame.

In the client (`Fairness` of `Wireplugd`): its one thread goes on; servers do not
fail at *every* attempt (strong fairness of the two STUN answers and of a response);
peers announce themselves. Nothing is assumed of packets coming in.

In the composition (`Fairness` of `Wireplug`): each daemon goes on; neither its
attempts to announce nor the server's to record what it announced all fail. An announcement
that the server refuses never succeeds (port 0, after a detection that failed); three such
attempts lead to the next pass (`Refused`), like those that are answered. Packets
are whatever they are: that two hosts keep each other's address must not need any.

In `WgSetup`: the daemon is started again whenever it has ended, as a service is; a
start goes on or fails; and none of its calls fails at every start. A user who deletes
the interface again and again is ruled out by `MaxEdits`, not by fairness.

### What the runs show to be wrong

- `wireplugd_stun_lost`: NAT detection that fails (`daemon.rs:92-95`) is never
  repeated on the same network, because `check_status` has already made that network
  the current one. The daemon then announces port 0, which the server rejects, until
  the network changes. `SilentPeersAnnounced` holds all the same: it keeps asking, in
  vain.
- `wireplugd_roaming`: `update_peer` takes the tracker's word for the endpoint of the
  device, and skips an update that is needed after WireGuard has followed the peer by
  itself. Without that (`wireplugd_live`) the same property holds.

### Where the instances stop

Some of what the code does would break a property on a larger instance; the hazards
in `PROJECT.json` have each at its line.

- `PeersMeet` is for hosts that share a LAN only where the NAT keeps ports, and have
  IPv6 only there. Let alice and bob both stay at the cafe, and they never meet: each
  is told the other's LAN address with the port that the NAT shows to the outside
  (`wg_interface.rs:339`). The same goes for the port of an IPv6 address
  (`wg_interface.rs:356`).
- `ReachesPeer` excuses a peer that has lost its endpoint (`LostEndpoint`): one that is
  removed and added again has none in the device, and is not given one while it stays
  where it was, because the tracker still has it. The cause is that of
  `wireplugd_roaming`.
- `PeersRoutable` is for IPs that differ in their first 32 bits. Of two peers with
  addresses in one IPv6 network the second takes both over (`wg_interface.rs:231`).
- A hard NAT is forgotten over an outage, because `set_hard_nat` does not reach
  `last_online` (`netstat.rs:139`): `HardNatQuiet` says `or none at all`.
- A peer that is added at runtime ends the daemon once the server knows of it, because no
  tracker entry is ever made for it. `ExitJustified` bounds the damage: it takes a newcomer,
  and the peers that were there when the daemon started never end it. A peer that is
  removed is put back by an answer that is on its way (`wg_interface.rs:295`).
- `PeersMeet` is for hosts that have IPv4: two with IPv6 alone could reach each other, but
  the server does not record them.
- On one network the deadline of the inactivity check may come to lag by any number of
  seconds, after which a peer that is well may be judged inactive after 10 seconds instead of
  25 (`daemon.rs:123-124`): `NotAskedEarly` counts the lag (`late`) in.

## The proofs

Each theorem is about `Spec` of its module, for any values of the constants that its
assumptions allow: any sets of connections, keys, addresses, networks, NATs, peers
and configs, and any bounds.

| Module | Theorem | Property |
|---|---|---|
| `WpcodProofs` | `TypeCorrect` | `TypeOK` |
| | `Authentic` | `RecordsAuthentic` |
| | `Mutual` | `AnswersMutual` |
| | `Forgotten` | `ForgottenInTime` |
| | `Survives` | `MonitorSurvives` |
| | `NotEarly` | `NotForgottenEarly` |
| | `Meeting` | `Rendezvous`, if `LockDelay = 0` |
| `WpcodDirectoryProofs` | `Refinement` | `ImplementsDirectory` |
| `WireplugdProofs` | `TypeCorrect` | `TypeOK` |
| | `AnnouncesItsPort` | `PortFits` |
| | `EndsForNewcomers` | `ExitJustified` |
| | `QuietBehindHardNat` | `HardNatQuiet` |
| `WgSetupProofs` | `Configured` | `RunsConfigured` |
| | `Routable` | `PeersRoutable` |
| | `TypeCorrect` | `TypeOK` |
| `InactivityProofs` | `AskedInTime` | `SilentAskedInTime` |
| | `AskedNotEarly` | `NotAskedEarly` |
| `WireplugProofs` | `TypeCorrect` | `TypeOK` |
| | `CandidateOnLink` (lemma) | the LAN address chosen for a peer is on a link shared with it |
| `WireplugOwnProofs` | `EndpointsOfPeers` | `EndpointsOwn` |

The assumptions on the constants are those of the modules: WireGuard keys are keys,
IPv4 and IPv6 addresses differ, `None` is neither record nor announcement nor address,
the timeout is positive, periods and bounds are numbers; ports drawn are at least 1024
and STUN servers see ports; a config is one, and `Bad` is not a key; `None` is no row
of the directory (`RowAssumption`). `WorldAssumption` says of the networks of
`Wireplug` that what a host finds at a place are addresses, that NATs map ports to
ports, and that `None` is nothing that a monitor finds. `Routable` also assumes that no
two IPs share their first 32 bits. `Meeting` assumes that the sweeper gets its lock at
once, as the run does: with a wait, a sweep that has read its `now` before a record was
made takes the timestamp for one of the future and drops the record.

**`Wpcod`.** The argument has three layers.

1. `Typed` is `TypeOK` with `Staged`, which says what a connection has by its stage: a
   source address once accepted, a valid announcement from `lookup` on, an answer from
   `respond` on and none before, an IPv4 source once stored. `TypeOK` alone is not
   inductive: a lookup needs an announcement to be well-typed.
2. `RecordsAuthentic` is inductive given `Typed`. A record changes only in `Store`,
   `Sweep` and `Restart` (`RecordsChange`), and a connection that has stored keeps
   what it announced (`StoredStays`). `AnswersMutual` is inductive given both: an
   answer is made in `Lookup`, from authentic records (`LookupMutual`), and otherwise
   stays with the request it belongs to (`AnswerStays`).
3. `Timely` strengthens `ForgottenInTime` by the sweeper's progress. While the sweeper
   sleeps, a record is younger than the timeout plus `LockDelay` plus the time slept;
   while it waits, younger than that plus a whole period plus the time waited, and its
   `now` is at most that wait behind the clock. A sweep with that `now` starts over.
   Timestamps not being in the future gives `MonitorSurvives`, and `now` not being
   ahead of the clock gives `NotForgottenEarly`.

`Rendezvous` needs a fourth, `Fresh`: as long as the clock has not been set back, and
for a timeout after a connection has stored its announcement, all its pairs are on
record with a timestamp no older than that. Another announcement only renews them
(`Store` at the clock of now), and a sweep drops none: with `LockDelay = 0` its `now`
is the clock, so that a record it drops has had its whole timeout (this is where
`Timely` is used).

**`Directory`.** `Refinement` shows, action by action, that a step of `Wpcod` is a step
of `Directory` under the mapping of `WpcodDirectory` or leaves its variables alone. The
phase of a request follows from the stage of its connection (`PhaseMoves`), and the
table of places from the records. Besides `Typed` the mapping needs `Unread`: a
connection that has read nothing yet asks for nothing. `Lookup` is where the answer is
taken from the table, all of it at that instant, `Store` where the request is
published; a sweep forgets rows and a restart all of them, with the requests that were
under way.

**`Wireplugd`.** `TInv` is `TypeOK` with two facts that it needs: there are turns left
while the daemon announces (`RetriesLeft`), and during a detection the monitor has a
network and the port is one that may be drawn (`Detecting`). `PortInv` follows the
port through a detection: from the first answer, which some network gave for the port
drawn, to the port announced, which goes with the port drawn until `Rebind` makes it
the port listened on. A detection that fails in between, or after a move, leaves both
ports of the earlier network, and these go with each other. `QuietInv` says that after
a hard NAT has been found, and no other network or outage seen, the monitor's
current network has the flag, and a check of any place either keeps the daemon quiet or ends
that condition. `EndsForNewcomers` rests on `StartedTracked`: the peers that were there at the
start have an entry in the tracker, which `init_tracker` makes and neither a check nor an
update nor the removal of the peer takes away. An answer that ends the daemon tells of a peer
without an entry (`ExitUntracked`), so of a newcomer.

**`Wireplug`.** `Typed` is `TypeOK` with `Staged`: a daemon that has left `check` has
found a network, and one that waits has asked. What is announced is then an
announcement (`AnnouncementType`), and what comes of an answer are socket addresses
(`ToldType`, by `Resolved` and `CandidateOnLink`: the first candidate exists because
pairs of numbers are well-ordered).

`EndpointsOwn` is about the whole way of an address: found by one host, announced,
answered, recorded perhaps much later, looked up by another host, resolved on the
network that this one has by then, and set; or seen by WireGuard in a packet. It is
not inductive alone. `Owned` adds what holds at each station: `OwnHost` (where a host
is, what it has found, what it listens on and announces is of places that it visits
and of ports that it has drawn), and `OwnClaims` (so are its request, the announcements
of it that wait to be recorded, and each record under its key). Port 0, with which a
host starts, may be in a request but in no record, because `valid` refuses it. A record
may mix addresses of one place with those of another, since the source address is that
of the moment of the connection and the rest that of the last check: `OwnAddresses`
asks for one place for each address, not for one for all. What a host owns only grows
(`PortsGrow`), so that what was right when it was announced stays so.

**`WgSetup`.** `TypeOK` rests on `Done` too: that the network a route is added for is
one, because it is the interface's address by then, and that the last claimant of an IP
exists (`LastOf`). `Done` lists, for each stage of a start, what the calls before it have
done, whatever was on the interface when the start began; nothing that a user may do
meanwhile undoes it, and `Fail` leaves the stages. For the routes `ApplyRoutes` says
that an update which goes through leaves each IP with the last peer that claims it.

**`InactivityClock`.** What grows while a peer is silent is `waiting`, and what bounds
it is the sum of `waiting` and `left`: time that passes takes from one what it gives
to the other. A check that is due moves the deadline on by 25 seconds and either asks for
the peer or notes its packets as seen; the next check asks. `IInv` has a part for each
condition that a peer goes through: heard since the last check or in the list, before the
network is looked at (`RecentAtStatus`) and after (`RecentAtCheck`), and neither
(`Unheard`). `Ahead` bounds how far ahead of now the deadline may be: a period, and 12
seconds for each new network. A lag has no bound and needs none: a deadline that is behind is
met in the pass at hand. `Longest` is `SilentAskedInTime` where it is tight, before a check.
For `NotAskedEarly` the same sum is bounded from below (`Early`): a peer that was heard last and
then noted as seen waits at least the pass that follows, and when `left` is used up
`waiting` has come to a period less `late`.

Model-checked only: everything under fairness, which is out of the prover's reach:
`AnnouncementsSettle`, `OldRecordsGo`, `SilentPeersAnnounced`, `ReachesPeer`,
`PeersMeet` and `StartsAgain`. Every invariant and action property that a passing run
checks is also proved.

## Not modelled

- The relay manager (`server/src/relay`): `RELAY_ENABLED` is false, and its choice of a
  port is a `todo!()`. A lookup may be held up at its lock, with the storage locked for
  reading; who else holds that lock is not modelled.
- How addresses and networks are found out (`netstat.rs`, `utils.rs`: system calls and
  a web service). What comes out is input: `Places`, `InfoAt`.
- Start-up and lockdown of the server, logging, `show_stats`, `wppriv` and `bpf`.
- `TcpStream::connect` has no timeout: `InactivityClock` bounds the calls of half a pass
  with `MaxWork`, the code leaves them to the system.
- The commands that set up the interface on macOS and OpenBSD.

## Plan

1. Done: `Protocol`, `Peering`, `Wpcod`, `Directory` and the refinement;
   `NetworkMonitor`, `Nat`, `PeerTracker`, `Endpoints`, `Wireplugd`; `Wireplug`;
   `InactivityClock`; `WgSetup`; their runs, and proofs of their safety properties.
2. Proofs: more of what they say of one another, such as that a LAN address is set
   only for a peer that was behind the same public address; the safety that
   `PeersMeet` rests on.
3. The STUN exchange with datagrams in flight, instead of its outcomes.

The relay manager joins when the code enables it.

## Running

    tlc -config wpcod_records.cfg MCWpcodDirectory.tla   # each .cfg with its module
    tlapm WpcodProofs.tla

Each run takes between a second and four minutes, the proofs of each module less than
half a minute.
