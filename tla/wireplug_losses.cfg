SPECIFICATION FairSpec
CONSTANTS
  alice = alice  bob = bob
  home = home  cafe = cafe  nowhere = nowhere  island = island
  h4 = h4  c4 = c4
  a6 = a6  b6 = b6  noV6 = noV6
  nobody = nobody  none = none  untracked = untracked
  None = nobody  NoSocket = none  Untracked = untracked  NoIpv6 = noV6
  Keys = {alice, bob}
  WgKeys = {alice, bob}
  V4 = {h4, c4}
  V6 = {}
  Ipv6Opts = {a6, b6, noV6}
  LanLists <- AllLanLists
  RecordTimeout = 1
  Width = 3
  Places = {home, nowhere, island}
  InfoAt <- Ipv6OnIsland
  MappedAt <- CafeMaps
  Visits <- HomeAndNowhere
  MaxMoves = 2
  MaxLosses = 1
INVARIANTS TypeOK
PROPERTIES PeersMeet
