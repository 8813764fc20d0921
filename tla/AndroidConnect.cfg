SPECIFICATION LabFairSpec
CONSTANTS
  QuietDumps = 3
  Late = 1
  Attempts = 2
  Backs = 2
  Dumps = 2
  Faults = 3
  Paths <- MCPaths
  Screen <- MCScreen
  SafeLow <- MCSafeLow
  SafeHigh <- MCSafeHigh
  Tolerance = 6
  FastAbove = 120
  SlowMin = 40
  Tries = 14
  GainLow <- MCGainLow
  GainHigh <- MCGainHigh
  FirstGain <- MCFirstGain
  AppGains <- MCAppGains
  Starts <- MCStarts
  Goals <- MCGoals
  Drags <- MCDrags
  Placements = 2
  Blurs = 1
CHECK_DEADLOCK FALSE
INVARIANTS
  TypeOK
  ConnectedIsHonest
  RefusalNeedsFaults
  InfoClosed
  AtMostOneStray
  SwipeInZone
  PlacementConverges
PROPERTIES
  AnalyticsDeclined
  SheetNotCancelled
  ComesBack
