SPECIFICATION FairSpec
CONSTANTS
  w1 = w1
  w2 = w2
  w3 = w3
  d1 = d1
  d2 = d2
  d3 = d3
  Nobody = Nobody
  Workers = {w1, w2, w3}
  Devices = {d1, d2, d3}
  Ports = {1, 2}
  Configs <- AllConfigs
INVARIANTS
  LocksHold
  PortsExclusive
PROPERTIES
  FirstCome
  NothingIsKept
