SPECIFICATION Spec
CONSTANTS
  alice = alice  bob = bob  junk = junk
  home = home  cafe = cafe  six = six
  lan = lan  noV6 = noV6  nobody = nobody
  c1 = c1  c2 = c2
  None = nobody
  Keys = {alice, bob, junk}
  WgKeys = {alice, bob}
  V4 = {home, cafe}
  Ipv6Opts = {noV6}
  LanLists = {lan}
  V6 = {six}
  Conns = {c1, c2}
  Announcements <- OddAnnouncements
  RecordTimeout = 2
  SweepEvery = 1
  LockDelay = 1
  MaxClock = 3
  MaxStepBacks = 0
  MaxRestarts = 1
INVARIANTS TypeOK RecordsAuthentic AnswersMutual
PROPERTIES ImplementsDirectory
SYMMETRY ConnSymmetry
