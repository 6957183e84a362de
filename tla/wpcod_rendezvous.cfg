SPECIFICATION Spec
CONSTANTS
  alice = alice  bob = bob  junk = junk
  home = home  cafe = cafe  six = six
  lan = lan  noV6 = noV6  nobody = nobody
  c1 = c1  c2 = c2  c3 = c3
  None = nobody
  Keys = {alice, bob, junk}
  WgKeys = {alice, bob}
  V4 = {home, cafe}
  Ipv6Opts = {noV6}
  LanLists = {lan}
  V6 = {}
  Conns = {c1, c2, c3}
  Announcements <- MutualAnnouncements
  RecordTimeout = 2
  SweepEvery = 1
  LockDelay = 0
  MaxClock = 2
  MaxStepBacks = 0
  MaxRestarts = 0
PROPERTIES Rendezvous
SYMMETRY ConnSymmetry
