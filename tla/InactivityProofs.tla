-------------------------- MODULE InactivityProofs --------------------------
(***************************************************************************)
(* What is proved of InactivityClock: however long calls take, however     *)
(* often they fail and networks change, no peer goes unheard and unasked   *)
(* for beyond a known time, and none is asked for too early.               *)
(***************************************************************************)
EXTENDS InactivityClock, TLAPS

\* How far ahead the deadline may be, which new networks put off.
Ahead ==
  /\ left <= 35 + 12 * networks
  /\ pc # "check" => left <= 25 + 12 * networks

\* A peer that was heard since the last check, or is in the list.
RecentAtStatus ==
  pc = "status" /\ (rx \/ inactive) =>
    /\ waiting + left <= 35 + 12 * networks
    /\ waiting <= 60 + 12 * networks + MaxWork

\* The same, once the network was looked at; a new one has put it on the list.
RecentAtCheck ==
  pc = "check" /\ rx =>
    /\ waiting + left <= 48 + 12 * networks
    /\ ~inactive => waiting + left <= 35 + 12 * networks
    /\ waiting <= 60 + 12 * networks + 2 * MaxWork

\* A peer that was not heard since the last check, and is not in the list.
Unheard ==
  ~rx /\ ~inactive =>
    /\ waiting + left <= 73 + 12 * networks
    /\ pc # "check" => waiting <= Latest + 12 * networks - MaxWork

Longest == pc = "check" => waiting <= Latest + 12 * networks

\* Nothing is known of the peer before the first network is.
Started == pc = "start" => ~rx /\ ~inactive

IInv ==
  TypeOK /\ Ahead /\ RecentAtStatus /\ RecentAtCheck /\ Unheard /\ Longest /\ Started

\* The bounds are numbers.
LEMMA Bounds ==
  /\ MaxWork \in Nat /\ Work \subseteq Nat /\ \A work \in Work : work <= MaxWork
  /\ Latest \in Nat
  /\ Latest >= 98 + 2 * MaxWork /\ Latest >= 85 + 4 * MaxWork
<1>1. MaxWork \in Nat /\ Work \subseteq 0 .. MaxWork
  BY ClockAssumption
<1>2. CASE MaxWork <= 6
  BY <1>1, <1>2 DEF Latest
<1>3. CASE ~(MaxWork <= 6)
  BY <1>1, <1>3 DEF Latest
<1>4. Work \subseteq Nat /\ \A work \in Work : work <= MaxWork
  BY <1>1
<1> QED BY <1>1, <1>2, <1>3, <1>4

\* It holds when monitoring begins.
LEMMA InitInvariant == Init => IInv
<1> SUFFICES ASSUME Init PROVE IInv
  OBVIOUS
<1>1. /\ pc = "start" /\ left = 25 /\ waiting = 0 /\ networks = 0 /\ late = 0
      /\ rx = FALSE /\ inactive = FALSE /\ whole = FALSE
  BY DEF Init, peer_is_inactive_duration
<1>2. TypeOK
  <2>1. left \in Int /\ waiting \in Nat /\ networks \in Nat /\ late \in Nat
    BY <1>1
  <2>2. rx \in BOOLEAN /\ inactive \in BOOLEAN /\ whole \in BOOLEAN
    BY <1>1
  <2> QED BY <1>1, <2>1, <2>2 DEF TypeOK
<1>3. Ahead /\ Unheard
  BY <1>1, Bounds DEF Ahead, Unheard
<1> QED BY <1>1, <1>2, <1>3 DEF IInv, RecentAtStatus, RecentAtCheck, Longest, Started

-----------------------------------------------------------------------------
\* Half a pass is over that began with seen for rx: what its time makes of the wait.
LEMMA PassesCases ==
  ASSUME NEW seconds \in Nat, NEW seen \in BOOLEAN, NEW asked \in BOOLEAN,
         waiting \in Nat, whole \in BOOLEAN, Passes(seconds, seen, asked)
  PROVE  /\ waiting' \in Nat /\ rx' \in BOOLEAN /\ whole' \in BOOLEAN
         /\ \/ (rx' <=> seen) /\ asked /\ waiting' = seconds /\ ~whole'
            \/ (rx' <=> seen) /\ ~asked /\ waiting' = waiting + seconds /\ (whole' => whole)
            \/ rx' /\ waiting' <= seconds
<1>1. CASE /\ rx' = seen /\ waiting' = (IF asked THEN 0 ELSE waiting) + seconds
           /\ whole' = (whole /\ ~asked)
  <2>1. CASE asked
    <3>1. waiting' = seconds /\ waiting' \in Nat
      BY <1>1, <2>1
    <3>2. rx' \in BOOLEAN /\ (rx' <=> seen) /\ whole' \in BOOLEAN /\ ~whole'
      BY <1>1, <2>1
    <3> QED BY <2>1, <3>1, <3>2
  <2>2. CASE ~asked
    <3>1. waiting' = waiting + seconds /\ waiting' \in Nat
      BY <1>1, <2>2
    <3>2. rx' \in BOOLEAN /\ (rx' <=> seen) /\ whole' \in BOOLEAN /\ (whole' => whole)
      BY <1>1, <2>2
    <3> QED BY <2>2, <3>1, <3>2
  <2> QED BY <2>1, <2>2
<1>2. CASE \E ago \in 0 .. seconds : rx' = TRUE /\ waiting' = ago /\ whole' = TRUE
  <2>1. PICK ago \in 0 .. seconds : rx' = TRUE /\ waiting' = ago /\ whole' = TRUE
    BY <1>2
  <2>2. waiting' \in Nat /\ waiting' <= seconds
    BY <2>1
  <2>3. rx' \in BOOLEAN /\ rx' /\ whole' \in BOOLEAN
    BY <2>1
  <2> QED BY <2>2, <2>3
<1> QED BY <1>1, <1>2 DEF Passes

\* A network that is known keeps the invariant.
LEMMA KnownInvariant == IInv /\ Known => IInv'
<1> SUFFICES ASSUME IInv, Known PROVE IInv'
  OBVIOUS
<1>0. TypeOK
  BY DEF IInv
<1>1. PICK work \in Work : Takes(work, left) /\ Passes(work, rx, FALSE)
  BY DEF Known
<1>2. /\ pc = "status" /\ pc' = "check"
      /\ inactive' = inactive /\ networks' = networks /\ late' = late
      /\ left' = left - work /\ work \in Nat /\ work <= MaxWork /\ MaxWork \in Nat
  BY <1>1, Bounds DEF Known, Goes, Takes
<1>3. /\ waiting' \in Nat /\ rx' \in BOOLEAN /\ whole' \in BOOLEAN
      /\ \/ (rx' <=> rx) /\ waiting' = waiting + work
         \/ rx' /\ waiting' <= work
  BY <1>0, <1>1, <1>2, PassesCases DEF TypeOK
<1>5. left \in Int /\ waiting \in Nat /\ networks \in Nat /\ inactive \in BOOLEAN
  BY <1>0 DEF TypeOK
<1>4. TypeOK'
  <2>1. left' \in Int
    BY <1>2, <1>5
  <2> QED BY <1>0, <1>2, <1>3, <2>1 DEF TypeOK
<1>6. left <= 25 + 12 * networks /\ Ahead'
  BY <1>2, <1>5 DEF IInv, Ahead
<1>11. CASE rx' /\ waiting' <= work
  <2>1. PICK ago \in 0 .. work : waiting' = ago
    BY <1>2, <1>3, <1>11
  <2>2. /\ waiting' + left' <= 35 + 12 * networks
        /\ waiting' + left' <= 48 + 12 * networks
        /\ waiting' <= 60 + 12 * networks + 2 * MaxWork
        /\ waiting' <= Latest + 12 * networks
    BY <1>2, <1>5, <1>6, <2>1, Bounds
  <2>3. RecentAtCheck' /\ Longest' /\ Unheard'
    BY <1>2, <1>11, <2>2 DEF RecentAtCheck, Longest, Unheard
  <2> QED BY <1>2, <1>4, <1>6, <2>3 DEF IInv, RecentAtStatus, Started
<1>12. CASE (rx' <=> rx) /\ waiting' = waiting + work
  <2>1. CASE rx \/ inactive
    <3>1. waiting + left <= 35 + 12 * networks /\ waiting <= 60 + 12 * networks + MaxWork
      BY <1>2, <2>1 DEF IInv, RecentAtStatus
    <3>2. /\ waiting' + left' <= 35 + 12 * networks
          /\ waiting' <= 60 + 12 * networks + 2 * MaxWork
          /\ waiting' + left' <= 48 + 12 * networks
          /\ waiting' <= Latest + 12 * networks
      BY <1>2, <1>5, <1>12, <3>1, Bounds
    <3>3. RecentAtCheck' /\ Longest' /\ Unheard'
      BY <1>2, <1>12, <2>1, <3>2 DEF RecentAtCheck, Longest, Unheard
    <3> QED BY <1>2, <1>4, <1>6, <3>3 DEF IInv, RecentAtStatus, Started
  <2>2. CASE ~rx /\ ~inactive
    <3>1. /\ waiting + left <= 73 + 12 * networks
          /\ waiting <= Latest + 12 * networks - MaxWork
      BY <1>2, <2>2 DEF IInv, Unheard
    <3>2. waiting' + left' <= 73 + 12 * networks /\ waiting' <= Latest + 12 * networks
      BY <1>2, <1>5, <1>12, <3>1, Bounds
    <3>3. RecentAtCheck' /\ Longest' /\ Unheard'
      BY <1>2, <1>12, <2>2, <3>2 DEF RecentAtCheck, Longest, Unheard
    <3> QED BY <1>2, <1>4, <1>6, <3>3 DEF IInv, RecentAtStatus, Started
  <2> QED BY <2>1, <2>2
<1> QED BY <1>3, <1>11, <1>12

\* A network that is new does.
LEMMA NewInvariant == IInv /\ ChangedToNew => IInv'
<1> SUFFICES ASSUME IInv, ChangedToNew PROVE IInv'
  OBVIOUS
<1>0. TypeOK
  BY DEF IInv
<1>1. PICK work \in Work : /\ Takes(work + 3, left + peer_is_inactive_duration)
                           /\ Passes(work + 3, rx, FALSE)
  BY DEF ChangedToNew
<1> DEFINE seconds == work + 3
<1>2. /\ pc \in {"start", "status"} /\ pc' = "check" /\ inactive' = TRUE /\ late' = late
  BY DEF ChangedToNew, Goes
<1>13. /\ seconds \in Nat /\ seconds <= MaxWork + 3 /\ MaxWork \in Nat
       /\ networks' = networks + 1
  BY Bounds DEF ChangedToNew
<1>14. left' = (left + 25) - seconds
  BY <1>1 DEF Takes, peer_is_inactive_duration
<1>15. Passes(seconds, rx, FALSE)
  BY <1>1
<1> HIDE DEF seconds
<1>3. /\ waiting' \in Nat /\ rx' \in BOOLEAN /\ whole' \in BOOLEAN
      /\ \/ (rx' <=> rx) /\ waiting' = waiting + seconds
         \/ rx' /\ waiting' <= seconds
  BY <1>0, <1>13, <1>15, PassesCases DEF TypeOK
<1>5. left \in Int /\ waiting \in Nat /\ networks \in Nat
  BY <1>0 DEF TypeOK
<1>4. TypeOK'
  <2>1. left' \in Int /\ networks' \in Nat
    BY <1>13, <1>14, <1>5
  <2> QED BY <1>0, <1>2, <1>3, <2>1 DEF TypeOK
<1>6. left <= 25 + 12 * networks
  BY <1>2, <1>5 DEF IInv, Ahead
<1>7. left' <= 35 + 12 * networks'
  <2>1. seconds >= 3
    BY <1>1, Bounds DEF seconds
  <2> QED BY <1>13, <1>14, <1>5, <1>6, <2>1
<1>8. Ahead'
  BY <1>2, <1>7 DEF Ahead
<1>11. CASE rx' /\ waiting' <= seconds
  <2>1. PICK ago \in 0 .. seconds : waiting' = ago
    BY <1>13, <1>3, <1>11
  <2>2. /\ waiting' + left' <= 48 + 12 * networks'
        /\ waiting' <= 60 + 12 * networks' + 2 * MaxWork
        /\ waiting' <= Latest + 12 * networks'
    BY <1>13, <1>14, <1>5, <1>6, <2>1, Bounds
  <2> QED BY <1>2, <1>4, <1>8, <2>2
          DEF IInv, RecentAtStatus, RecentAtCheck, Unheard, Longest, Started
<1>12. CASE (rx' <=> rx) /\ waiting' = waiting + seconds
  <2>1. CASE rx \/ inactive
    <3>1. waiting + left <= 35 + 12 * networks /\ waiting <= 60 + 12 * networks + MaxWork
      BY <1>2, <2>1 DEF IInv, RecentAtStatus, Started
    <3>2. /\ waiting' + left' <= 48 + 12 * networks'
          /\ waiting' <= 60 + 12 * networks' + 2 * MaxWork
          /\ waiting' <= Latest + 12 * networks'
      BY <1>13, <1>14, <1>5, <1>12, <3>1, Bounds
    <3> QED BY <1>2, <1>4, <1>8, <3>2
            DEF IInv, RecentAtStatus, RecentAtCheck, Unheard, Longest, Started
  <2>2. CASE ~rx /\ ~inactive
    <3>1. waiting <= Latest + 12 * networks - MaxWork
      BY <1>2, <2>2 DEF IInv, Unheard
    <3>2. waiting' <= Latest + 12 * networks'
      BY <1>13, <1>5, <1>12, <3>1, Bounds
    <3> QED BY <1>2, <1>4, <1>8, <1>12, <2>2, <3>2
            DEF IInv, RecentAtStatus, RecentAtCheck, Unheard, Longest, Started
  <2> QED BY <2>1, <2>2
<1> QED BY <1>3, <1>11, <1>12

\* A pass that ends before the check does: it only brings the deadline nearer.
LEMMA OverInvariant == IInv /\ (Quiet \/ DetectionFails) => IInv'
<1> SUFFICES ASSUME IInv, Quiet \/ DetectionFails PROVE IInv'
  OBVIOUS
<1>0. TypeOK
  BY DEF IInv
<1>1. PICK work \in Work : Takes(work + 5, left)
  BY DEF Quiet, DetectionFails
<1>2. /\ pc \in {"start", "status"} /\ pc' = "status"
      /\ inactive' = inactive /\ networks' = networks /\ late' = late
      /\ left' = left - (work + 5) /\ work \in Nat /\ work <= MaxWork /\ MaxWork \in Nat
  BY <1>1, Bounds DEF Quiet, DetectionFails, Goes, Takes
<1>3. /\ whole' = FALSE
      /\ \/ rx' = rx /\ waiting' = waiting
         \/ rx' = TRUE /\ waiting' = 0
  BY DEF Quiet, DetectionFails, PassesOver
<1>5. left \in Int /\ waiting \in Nat /\ networks \in Nat /\ rx \in BOOLEAN
  BY <1>0 DEF TypeOK
<1>4. TypeOK'
  <2>1. left' \in Int
    BY <1>2, <1>5
  <2>2. waiting' \in Nat
    BY <1>3, <1>5
  <2>3. rx' \in BOOLEAN /\ whole' \in BOOLEAN
    BY <1>3, <1>5
  <2> QED BY <1>0, <1>2, <2>1, <2>2, <2>3 DEF TypeOK
<1>6. left <= 25 + 12 * networks /\ left' <= left /\ Ahead'
  BY <1>2, <1>5 DEF IInv, Ahead
<1>11. CASE rx' = TRUE /\ waiting' = 0
  <2>1. waiting' + left' <= 35 + 12 * networks /\ waiting' <= 60 + 12 * networks + MaxWork
    BY <1>2, <1>5, <1>6, <1>11
  <2> QED BY <1>2, <1>4, <1>6, <1>11, <2>1
          DEF IInv, RecentAtStatus, RecentAtCheck, Unheard, Longest, Started
<1>12. CASE rx' = rx /\ waiting' = waiting
  <2>1. CASE rx \/ inactive
    <3>1. waiting + left <= 35 + 12 * networks /\ waiting <= 60 + 12 * networks + MaxWork
      BY <1>2, <2>1 DEF IInv, RecentAtStatus, Started
    <3>2. waiting' + left' <= 35 + 12 * networks
      BY <1>2, <1>5, <1>12, <3>1
    <3>3. RecentAtStatus'
      BY <1>2, <1>12, <3>1, <3>2 DEF RecentAtStatus
    <3> QED BY <1>2, <1>4, <1>6, <1>12, <2>1, <3>3
            DEF IInv, RecentAtCheck, Unheard, Longest, Started
  <2>2. CASE ~rx /\ ~inactive
    <3>1. /\ waiting + left <= 73 + 12 * networks
          /\ waiting <= Latest + 12 * networks - MaxWork
      BY <1>2, <2>2 DEF IInv, Unheard
    <3>2. waiting' + left' <= 73 + 12 * networks
      BY <1>2, <1>5, <1>12, <3>1
    <3>3. Unheard'
      BY <1>2, <1>12, <3>1, <3>2 DEF Unheard
    <3> QED BY <1>2, <1>4, <1>6, <1>12, <2>2, <3>3
            DEF IInv, RecentAtStatus, RecentAtCheck, Longest, Started
  <2> QED BY <2>1, <2>2
<1> QED BY <1>3, <1>11, <1>12

\* The second half of a pass does.
LEMMA CheckInvariant == IInv /\ Check => IInv'
<1> SUFFICES ASSUME IInv, Check PROVE IInv'
  OBVIOUS
<1>0. TypeOK
  BY DEF IInv
<1>1. PICK work \in Work, nap \in Naps, updated \in BOOLEAN :
         /\ updated => asked_for /\ nap > 0
         /\ inactive' = (asked_for /\ ~updated)
         /\ Takes(work + nap + 10, IF due THEN left + peer_is_inactive_duration ELSE left)
         /\ Passes(work + nap + 10, rx /\ ~due, asked_for)
  BY DEF Check
<1> DEFINE seconds == work + nap + 10
<1>2. /\ seconds \in Nat /\ seconds >= 10 /\ seconds <= 25 + MaxWork /\ MaxWork \in Nat
      /\ pc = "check" /\ pc' = "status" /\ networks' = networks
      /\ late' = (IF due THEN -left ELSE late)
  BY Bounds DEF Check, Goes, Naps
<1>3. /\ left < 0 => left' = left + 25 - seconds
      /\ ~(left < 0) => left' = left - seconds
  <2>1. Takes(seconds, IF due THEN left + peer_is_inactive_duration ELSE left)
    BY <1>1
  <2> HIDE DEF seconds
  <2>2. ASSUME left < 0 PROVE left' = left + 25 - seconds
    <3>1. left' = (left + peer_is_inactive_duration) - seconds
      BY <2>1, <2>2 DEF Takes, due
    <3>2. left \in Int
      BY <1>0 DEF TypeOK
    <3> QED BY <1>2, <3>1, <3>2 DEF peer_is_inactive_duration
  <2>3. ASSUME ~(left < 0) PROVE left' = left - seconds
    BY <2>1, <2>3 DEF Takes, due
  <2> QED BY <2>2, <2>3
<1>4. /\ left \in Int /\ waiting \in Nat /\ networks \in Nat /\ late \in Nat
      /\ rx \in BOOLEAN /\ inactive \in BOOLEAN /\ whole \in BOOLEAN
  BY <1>0 DEF TypeOK
<1>5. due \in BOOLEAN /\ asked_for \in BOOLEAN
  <2>1. due \in BOOLEAN
    BY <1>4 DEF due
  <2> QED BY <1>4, <2>1 DEF asked_for
<1>6. (rx /\ ~due) \in BOOLEAN /\ Passes(seconds, rx /\ ~due, asked_for)
  BY <1>1
<1>7. /\ waiting' \in Nat /\ rx' \in BOOLEAN /\ whole' \in BOOLEAN
      /\ \/ (rx' <=> rx /\ ~due) /\ asked_for /\ waiting' = seconds
         \/ (rx' <=> rx /\ ~due) /\ ~asked_for /\ waiting' = waiting + seconds
         \/ rx' /\ waiting' <= seconds
  <2> HIDE DEF seconds
  <2> QED BY <1>2, <1>4, <1>5, <1>6, PassesCases
<1> HIDE DEF seconds
<1>8. TypeOK'
  <2>1. left' \in Int
    BY <1>2, <1>3, <1>4 DEF due
  <2>2. late' \in Nat
    <3>1. CASE due
      BY <1>2, <1>4, <3>1 DEF due
    <3>2. CASE ~due
      BY <1>2, <1>4, <3>2
    <3> QED BY <3>1, <3>2
  <2>3. inactive' \in BOOLEAN
    BY <1>1, <1>5
  <2> QED BY <1>2, <1>4, <1>7, <2>1, <2>2, <2>3 DEF TypeOK
<1>9. left' + seconds <= 35 + 12 * networks /\ left' <= 25 + 12 * networks
  <2>1. left <= 35 + 12 * networks
    BY <1>4 DEF IInv, Ahead
  <2>2. CASE due
    <3>1. left' = left + 25 - seconds /\ left < 0
      BY <1>3, <2>2 DEF due
    <3> QED BY <1>2, <1>4, <3>1
  <2>3. CASE ~due
    <3>1. left' = left - seconds
      BY <1>3, <2>3 DEF due
    <3> QED BY <1>2, <1>4, <2>1, <3>1
  <2> QED BY <2>2, <2>3
<1>10. Ahead'
  BY <1>2, <1>4, <1>8, <1>9 DEF Ahead, TypeOK
<1>11. inactive' => asked_for
  BY <1>1
<1>12. CASE waiting' <= seconds
  <2>1. /\ waiting' + left' <= 35 + 12 * networks /\ waiting' + left' <= 73 + 12 * networks
        /\ waiting' <= 60 + 12 * networks + MaxWork
        /\ waiting' <= Latest + 12 * networks - MaxWork
    <3>1. PICK ago \in 0 .. seconds : waiting' = ago
      BY <1>2, <1>7, <1>12
    <3>2. PICK deadline \in Int : left' = deadline - seconds
      <4>1. CASE left < 0
        BY <1>2, <1>3, <1>4, <4>1
      <4>2. CASE ~(left < 0)
        BY <1>2, <1>3, <1>4, <4>2
      <4> QED BY <4>1, <4>2
    <3>3. deadline <= 35 + 12 * networks
      BY <1>2, <1>4, <1>9, <3>2
    <3> QED BY <1>2, <1>4, <3>1, <3>2, <3>3, Bounds
  <2>2. RecentAtStatus' /\ Unheard'
    BY <1>2, <2>1 DEF RecentAtStatus, Unheard
  <2> QED BY <1>2, <1>8, <1>10, <2>2 DEF IInv, RecentAtCheck, Longest, Started
<1>13. CASE (rx' <=> rx /\ ~due) /\ ~asked_for /\ waiting' = waiting + seconds
  <2>1. ~inactive'
    BY <1>11, <1>13
  <2>2. CASE due
    <3>1. rx /\ ~rx'
      BY <1>13, <2>2 DEF asked_for
    <3>2. left' = left + 25 - seconds /\ left < 0
      BY <1>3, <2>2 DEF due
    <3>3. waiting + left <= 48 + 12 * networks /\ waiting <= 60 + 12 * networks + 2 * MaxWork
      BY <1>2, <3>1 DEF IInv, RecentAtCheck
    <3>4. /\ waiting' + left' <= 73 + 12 * networks
          /\ waiting' <= Latest + 12 * networks - MaxWork
      BY <1>2, <1>4, <1>13, <3>2, <3>3, Bounds
    <3>5. Unheard' /\ RecentAtStatus'
      BY <1>2, <2>1, <3>1, <3>4 DEF Unheard, RecentAtStatus
    <3> QED BY <1>2, <1>8, <1>10, <3>5 DEF IInv, RecentAtCheck, Longest, Started
  <2>3. CASE ~due
    <3>1. ~inactive /\ (rx' <=> rx)
      BY <1>13, <2>3 DEF asked_for
    <3>2. left >= 0 /\ left' = left - seconds
      BY <1>3, <1>4, <2>3 DEF due
    <3>3. CASE rx
      <4>1. waiting + left <= 35 + 12 * networks
        BY <1>2, <3>1, <3>3 DEF IInv, RecentAtCheck
      <4>2. /\ waiting' + left' <= 35 + 12 * networks
            /\ waiting' <= 60 + 12 * networks + MaxWork
        BY <1>2, <1>4, <1>13, <3>2, <4>1
      <4>3. Unheard' /\ RecentAtStatus'
        BY <1>2, <3>1, <3>3, <4>2 DEF Unheard, RecentAtStatus
      <4> QED BY <1>2, <1>8, <1>10, <4>3 DEF IInv, RecentAtCheck, Longest, Started
    <3>4. CASE ~rx
      <4>1. waiting + left <= 73 + 12 * networks
        BY <1>2, <3>1, <3>4 DEF IInv, Unheard
      <4>2. /\ waiting' + left' <= 73 + 12 * networks
            /\ waiting' <= Latest + 12 * networks - MaxWork
        BY <1>2, <1>4, <1>13, <3>2, <4>1, Bounds
      <4>3. Unheard' /\ RecentAtStatus'
        BY <1>2, <2>1, <3>1, <3>4, <4>2 DEF Unheard, RecentAtStatus
      <4> QED BY <1>2, <1>8, <1>10, <4>3 DEF IInv, RecentAtCheck, Longest, Started
    <3> QED BY <3>3, <3>4
  <2> QED BY <2>2, <2>3
<1>14. CASE waiting' = seconds
  BY <1>2, <1>12, <1>14
<1> QED BY <1>7, <1>12, <1>13, <1>14

\* Every pass, packet and change of network keeps it.
LEMMA NextInvariant == IInv /\ [Next]_vars => IInv'
<1>1. IInv /\ UNCHANGED vars => IInv'
  BY DEF vars, IInv, TypeOK, Ahead, RecentAtStatus, RecentAtCheck, Unheard, Longest, Started
<1> QED BY <1>1, KnownInvariant, NewInvariant, OverInvariant, CheckInvariant DEF Next

\* In each of the conditions that a peer goes through its wait is bounded.
LEMMA InvariantSuffices == IInv => SilentAskedInTime
<1> SUFFICES ASSUME IInv PROVE waiting <= Latest + 12 * networks
  BY DEF SilentAskedInTime
<1>1. waiting \in Nat /\ networks \in Nat /\ pc \in {"start", "status", "check"}
  BY DEF IInv, TypeOK
<1>2. CASE ~rx /\ ~inactive /\ pc # "check"
  BY <1>1, <1>2, Bounds DEF IInv, Unheard
<1>3. CASE pc = "status" /\ (rx \/ inactive)
  BY <1>1, <1>3, Bounds DEF IInv, RecentAtStatus
<1>4. CASE pc = "check"
  BY <1>4 DEF IInv, Longest
<1> QED BY <1>1, <1>2, <1>3, <1>4 DEF IInv, Started

\* For any time that calls take, any number of failures and of networks, a peer that
\* is not heard is asked for within Latest seconds, and 12 more for a new network.
THEOREM AskedInTime == Spec => []SilentAskedInTime
<1>1. Spec => []IInv
  BY InitInvariant, NextInvariant, PTL DEF Spec
<1> QED BY <1>1, InvariantSuffices, PTL

-----------------------------------------------------------------------------
\* A peer that was heard in the time that the last check looked at, and not since.
Early ==
  whole /\ ~rx /\ ~inactive => waiting >= 10 /\ waiting + left + late >= 25

\* Half a pass that is no new network keeps it, if what it makes of wait, deadline
\* and lateness adds up.
LEMMA EarlyKnown == IInv /\ Early /\ Known => Early'
<1> SUFFICES ASSUME IInv, Early, Known, whole' = TRUE, ~rx', ~inactive'
             PROVE  waiting' >= 10 /\ waiting' + left' + late' >= 25
  BY DEF Early, IInv, TypeOK, Known, Passes
<1>0. TypeOK
  BY DEF IInv
<1>1. PICK work \in Work : Takes(work, left) /\ Passes(work, rx, FALSE)
  BY DEF Known
<1>2. left' = left - work /\ work \in Nat /\ late' = late /\ inactive' = inactive
  BY <1>1, Bounds DEF Known, Takes
<1>3. (rx' <=> rx) /\ waiting' = waiting + work /\ (whole' => whole)
  BY <1>0, <1>1, <1>2, PassesCases DEF TypeOK
<1>4. left \in Int /\ waiting \in Nat /\ late \in Nat
  BY <1>0 DEF TypeOK
<1>5. waiting >= 10 /\ waiting + left + late >= 25
  BY <1>2, <1>3 DEF Early
<1> QED BY <1>2, <1>3, <1>4, <1>5

\* The check keeps it: it has found a packet, or was not due.
LEMMA EarlyCheck == IInv /\ Early /\ Check => Early'
<1> SUFFICES ASSUME IInv, Early, Check, whole' = TRUE, ~rx', ~inactive'
             PROVE  waiting' >= 10 /\ waiting' + left' + late' >= 25
  BY DEF Early, Check, Passes
<1>0. TypeOK
  BY DEF IInv
<1>1. PICK work \in Work, nap \in Naps, updated \in BOOLEAN :
         /\ updated => asked_for /\ nap > 0
         /\ inactive' = (asked_for /\ ~updated)
         /\ Takes(work + nap + 10, IF due THEN left + peer_is_inactive_duration ELSE left)
         /\ Passes(work + nap + 10, rx /\ ~due, asked_for)
  BY DEF Check
<1> DEFINE seconds == work + nap + 10
<1>2. seconds \in Nat /\ seconds >= 10
  BY Bounds DEF Naps
<1>3. Takes(seconds, IF due THEN left + peer_is_inactive_duration ELSE left)
  BY <1>1
<1>4. /\ left \in Int /\ waiting \in Nat /\ late \in Nat
      /\ rx \in BOOLEAN /\ inactive \in BOOLEAN /\ whole \in BOOLEAN
  BY <1>0 DEF TypeOK
<1>5. due \in BOOLEAN /\ asked_for \in BOOLEAN
  <2>1. due \in BOOLEAN
    BY <1>4 DEF due
  <2> QED BY <1>4, <2>1 DEF asked_for
<1>6. (rx /\ ~due) \in BOOLEAN /\ Passes(seconds, rx /\ ~due, asked_for)
  BY <1>1
<1> HIDE DEF seconds
<1>7. /\ rx' <=> rx /\ ~due
      /\ ~asked_for /\ waiting' = waiting + seconds /\ (whole' => whole)
  BY <1>2, <1>4, <1>5, <1>6, PassesCases
<1>8. CASE due
  <2>1. left' = (left + peer_is_inactive_duration) - seconds /\ late' = -left
    BY <1>3, <1>8 DEF Takes, Check
  <2>2. left' = left + 25 - seconds
    BY <1>2, <1>4, <2>1 DEF peer_is_inactive_duration
  <2> QED BY <1>2, <1>4, <1>7, <2>1, <2>2
<1>9. CASE ~due
  <2>1. left' = left - seconds /\ late' = late
    BY <1>3, <1>9 DEF Takes, Check
  <2>2. ~rx /\ ~inactive /\ whole
    BY <1>7, <1>9 DEF asked_for
  <2>3. waiting >= 10 /\ waiting + left + late >= 25
    BY <2>2 DEF Early
  <2> QED BY <1>2, <1>4, <1>7, <2>1, <2>3
<1> QED BY <1>8, <1>9

\* So does every other step: it puts the peer on the list, or its time is not all counted.
LEMMA EarlyStep == IInv /\ Early /\ [Next]_vars => Early'
<1>1. Early /\ UNCHANGED vars => Early'
  BY DEF vars, Early
<1>2. Early /\ (Quiet \/ DetectionFails) => Early'
  BY DEF Quiet, DetectionFails, PassesOver, Early
<1>3. Early /\ ChangedToNew => Early'
  BY DEF ChangedToNew, Early
<1> QED BY <1>1, <1>2, <1>3, EarlyKnown, EarlyCheck DEF Next

\* For any time that calls take, a peer heard of since the last network is not
\* asked for within a pass, nor within a period but for the lateness of the check.
THEOREM AskedNotEarly == Spec => NotAskedEarly
<1> DEFINE A == pc = "check" /\ ~inactive /\ inactive' /\ whole =>
                  waiting >= 10 /\ waiting + late > peer_is_inactive_duration
<1>1. Init => Early
  BY DEF Init, Early
<1>2. IInv /\ Early /\ [Next]_vars => [A]_vars
  <2> SUFFICES ASSUME IInv, Early, Next, pc = "check", ~inactive, inactive', whole
               PROVE  waiting >= 10 /\ waiting + late > peer_is_inactive_duration
    OBVIOUS
  <2>1. Check
    BY DEF Next, Known, Quiet, DetectionFails, ChangedToNew, Goes
  <2>2. asked_for
    BY <2>1 DEF Check
  <2>3. due /\ ~rx
    BY <2>2 DEF asked_for
  <2>4. waiting >= 10 /\ waiting + left + late >= 25 /\ left < 0
    BY <2>3 DEF Early, due
  <2>5. left \in Int /\ waiting \in Nat /\ late \in Nat
    BY DEF IInv, TypeOK
  <2> QED BY <2>4, <2>5 DEF peer_is_inactive_duration
<1>3. Spec => []IInv
  BY InitInvariant, NextInvariant, PTL DEF Spec
<1> QED BY <1>1, <1>2, <1>3, EarlyStep, PTL DEF Spec, NotAskedEarly
=============================================================================
