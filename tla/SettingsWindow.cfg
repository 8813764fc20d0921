SPECIFICATION FairSpec
CONSTANTS
  Hosts <- MCHosts
  Addresses = {"loopback", "any"}
  Pending = 2
  Changes = 1
INVARIANTS TypeOK NeverUnderItself ShownIsStored
PROPERTIES PutBack
