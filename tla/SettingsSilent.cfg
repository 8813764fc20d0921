SPECIFICATION Spec
CONSTANTS
  Hosts <- MCHosts
  Addresses = {"loopback", "any"}
  Pending = 2
  Changes = 1
INVARIANT LanPutBack
CHECK_DEADLOCK FALSE
