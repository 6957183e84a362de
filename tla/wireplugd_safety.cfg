SPECIFICATION Spec
CONSTANTS
  home = home  hotel = hotel  nowhere = nowhere
  alice = alice  bob = bob
  s1 = s1  s2 = s2
  nobody = nobody  none = none  untracked = untracked
  None = nobody  NoSocket = none  Untracked = untracked
  Sockets = {s1}
  Observed <- NatOf
  FirstPort = 51820
  MaxLag = 0
  Places = {home, hotel, nowhere}
  OnlinePlaces = {home, hotel}
  TraverseNat = TRUE
  LocalPorts = {1024, 2000}
  Peers = {alice, bob}
  FirstPeers = {alice}
  Roaming = FALSE
  MaxMoves = 2
  MaxRoams = 0
  MaxEdits = 1
INVARIANTS TypeOK PortFits ExitJustified
PROPERTIES HardNatQuiet
