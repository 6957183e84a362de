SPECIFICATION FairSpec
CONSTANTS
  home = home  hotel = hotel  nowhere = nowhere
  alice = alice  bob = bob
  s1 = s1  s2 = s2
  nobody = nobody  none = none  untracked = untracked
  None = nobody  NoSocket = none  Untracked = untracked
  Sockets = {s1, s2}
  Observed <- NatOf
  FirstPort = 51820
  MaxLag = 10
  Places = {home, nowhere}
  OnlinePlaces = {home}
  TraverseNat = TRUE
  LocalPorts = {1024}
  Peers = {alice}
  FirstPeers = {alice}
  Roaming = TRUE
  MaxMoves = 0
  MaxRoams = 2
  MaxEdits = 0
PROPERTIES ReachesPeer
