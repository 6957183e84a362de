SPECIFICATION FairSpec
CONSTANTS
  alice = alice  bob = bob
  k1 = k1  k2 = k2
  ipA = ipA  ipB = ipB  blockA = blockA  blockB = blockB
  netA = netA  netB = netB
  bad = bad  none = none
  Bad = bad  None = none
  Peers = {alice, bob}
  Keys = {k1, k2}
  Ips = {ipA, ipB}
  Blocks = {blockA, blockB}
  First32 <- Ipv4
  Nets = {netA, netB}
  Contents <- Configs
  MaxEdits = 5
INVARIANTS TypeOK
PROPERTIES RunsConfigured PeersRoutable StartsAgain
