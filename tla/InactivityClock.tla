--------------------------- MODULE InactivityClock ---------------------------
(***************************************************************************)
(* The timing of the inactivity check in the loop of client/src/daemon.rs, *)
(* in seconds: the passes of the loop and the deadline of the check on one *)
(* side, one peer and what is heard of it on the other.  Wireplugd has the *)
(* rest of the loop.                                                       *)
(*                                                                         *)
(* A pass is one action up to what check_status says and what that leads   *)
(* to, and another from the inactivity check to the sleep at the end.      *)
(* Networks come and go as they like, and so do packets of the peer.  It   *)
(* has been heard of once.                                                 *)
(***************************************************************************)
EXTENDS Integers

CONSTANTS
  Work,         \* the seconds that the calls of half a pass may take
  MaxWork,      \* at most
  MaxNetworks,  \* bound: networks that are new
  MaxLag        \* bound: seconds that the deadline is behind

ASSUME ClockAssumption ==
  {MaxWork, MaxNetworks, MaxLag} \subseteq Nat /\ Work \subseteq 0 .. MaxWork

peer_is_inactive_duration == 25

VARIABLES
  pc,        \* "start": no network was seen yet; "status", "check"
  left,      \* seconds until next_inactivity_check
  rx,        \* rx_bytes of the peer are more than the tracker's rx
  inactive,  \* the peer is in inactive_peers
  networks,  \* what MaxNetworks counts
  waiting,   \* history: seconds since the peer was heard, or since the daemon last
             \* turned to the server for it, beside passes that ask for nobody
  whole,     \* history: that is all of the time since it was heard
  late       \* history: seconds that the last check came after its deadline

vars == <<pc, left, rx, inactive, networks, waiting, whole, late>>

Init ==
  /\ pc = "start"
  /\ left = peer_is_inactive_duration /\ rx = FALSE /\ inactive = FALSE
  /\ networks = 0
  /\ waiting = 0 /\ whole = FALSE /\ late = 0

Goes(from, to) == pc \in from /\ pc' = to

-----------------------------------------------------------------------------
\* Time.

\* The calls and the sleeps of half a pass take that long.
Takes(seconds, deadline) ==
  /\ left' = deadline - seconds
  /\ left' >= -MaxLag

\* Meanwhile packets of the peer come in, the last one some seconds ago, or none.
\* seen is rx, and asked whether the peer was asked for, before.
Passes(seconds, seen, asked) ==
  \/ /\ rx' = seen
     /\ waiting' = (IF asked THEN 0 ELSE waiting) + seconds
     /\ whole' = (whole /\ ~asked)
  \/ \E ago \in 0 .. seconds : rx' = TRUE /\ waiting' = ago /\ whole' = TRUE

\* The same of a pass that ends before the check.
PassesOver ==
  \/ UNCHANGED <<rx, waiting>> /\ whole' = FALSE
  \/ rx' = TRUE /\ waiting' = 0 /\ whole' = FALSE

-----------------------------------------------------------------------------
\* check_status and the match on its result.

\* Online or ChangedToPrev.
Known ==
  /\ Goes({"status"}, "check")
  /\ \E work \in Work :
       Takes(work, left) /\ Passes(work, rx, FALSE)
  /\ UNCHANGED <<inactive, networks, late>>

\* Offline or HardNat: the loop is started over.
Quiet ==
  /\ Goes({"status"}, "status")
  /\ \E work \in Work : Takes(work + 5, left)
  /\ PassesOver
  /\ UNCHANGED <<inactive, networks, late>>

\* ChangedToNew, and detect_kind fails: the loop is started over, and will find
\* the network known.
DetectionFails ==
  /\ Goes({"start", "status"}, "status")
  /\ \E work \in Work : Takes(work + 5, left)
  /\ PassesOver
  /\ UNCHANGED <<inactive, networks, late>>

\* ChangedToNew, and what it leads to: every peer is to be asked for.
ChangedToNew ==
  /\ Goes({"start", "status"}, "check")
  /\ networks < MaxNetworks /\ networks' = networks + 1
  /\ inactive' = TRUE
  /\ \E work \in Work :
       /\ Takes(work + 3, left + peer_is_inactive_duration)
       /\ Passes(work + 3, rx, FALSE)
  /\ UNCHANGED late

-----------------------------------------------------------------------------
\* The inactivity check, if it is due, handle_inactive_peers and the sleep.

due == left < 0

\* The peer is among those asked for.
asked_for == IF due THEN ~rx ELSE inactive

\* handle_inactive_peers sleeps after an announcement that fails, up to three
\* times, and after one that gets an endpoint updated.  There may be other peers
\* that are asked for.
Naps == {0, 5, 10, 15}

\* Mutant: the tracker does not remember what it was shown.
CheckForgetful ==
  /\ Goes({"check"}, "status")
  /\ \E work \in Work, nap \in Naps, updated \in BOOLEAN :
       /\ updated => asked_for /\ nap > 0
       /\ inactive' = (asked_for /\ ~updated)
       /\ Takes(work + nap + 10, IF due THEN left + peer_is_inactive_duration ELSE left)
       /\ Passes(work + nap + 10, rx, asked_for)
  /\ late' = IF due THEN -left ELSE late
  /\ UNCHANGED networks

\* Mutant: the next check is due as soon as the one before.
CheckAlways ==
  /\ Goes({"check"}, "status")
  /\ \E work \in Work, nap \in Naps, updated \in BOOLEAN :
       /\ updated => asked_for /\ nap > 0
       /\ inactive' = (asked_for /\ ~updated)
       /\ Takes(work + nap + 10, IF due THEN 0 ELSE left)
       /\ Passes(work + nap + 10, rx /\ ~due, asked_for)
  /\ late' = IF due THEN -left ELSE late
  /\ UNCHANGED networks

\* A peer whose endpoint was updated is not asked for any more.
Check ==
  /\ Goes({"check"}, "status")
  /\ \E work \in Work, nap \in Naps, updated \in BOOLEAN :
       /\ updated => asked_for /\ nap > 0
       /\ inactive' = (asked_for /\ ~updated)
       /\ Takes(work + nap + 10, IF due THEN left + peer_is_inactive_duration ELSE left)
       /\ Passes(work + nap + 10, rx /\ ~due, asked_for)
  /\ late' = IF due THEN -left ELSE late
  /\ UNCHANGED networks

Next == Known \/ Quiet \/ DetectionFails \/ ChangedToNew \/ Check

Spec == Init /\ [][Next]_vars

-----------------------------------------------------------------------------
\* Properties.

\* The types of the variables.
TypeOK ==
  /\ pc \in {"start", "status", "check"}
  /\ left \in Int /\ rx \in BOOLEAN /\ inactive \in BOOLEAN
  /\ networks \in Nat /\ waiting \in Nat /\ whole \in BOOLEAN /\ late \in Nat

\* Two periods of the check, and what the deadline and passes take beside: the
\* longest of them has 25 seconds of sleep, and one on a new network 3 more.
Latest == IF MaxWork <= 6 THEN 98 + 2 * MaxWork ELSE 85 + 4 * MaxWork

\* Deadlines that lag behind, failed announcements, updates that take a peer off
\* the list and checks that come in place of asking on a new network: through
\* all of this a peer goes unheard and unasked for no longer than a known time.
\* That grows with each new network, which puts the deadline off by 25 seconds
\* where its pass may take as few as 13.
SilentAskedInTime == waiting <= Latest + 12 * networks

\* Where no network is new, a peer that was heard of last is not asked for before
\* a pass is over, nor before a period, but for the seconds that the last check
\* was late.  On one network the deadline may come to lag by any number of them:
\* a pass with three failed announcements takes a period or more.
NotAskedEarly ==
  [][pc = "check" /\ ~inactive /\ inactive' /\ whole =>
       waiting >= 10 /\ waiting + late > peer_is_inactive_duration]_vars
=============================================================================
