CONSTANTS
  Pairs = {"desktop", "android"}
  Runs = {"first", "second", "elsewhere"}
  PairOf <- MCPairOf
  Roots = {"laptop", "pc"}
  RootOf <- MCRootOf
  Merges = 2
  Attended = {"first"}
  Publications = 2
  Kills = 1
SPECIFICATION Spec
INVARIANTS TypeOK
PROPERTIES GateSpec MergeHeals PublishHeals
