CONSTANTS
  Fixtures <- MCFixtures
  Selections <- MCSelections
  Cycles = 2
  Retries = 1
  Faults = 2
  Runs = 2
SPECIFICATION Spec
INVARIANTS TypeOK PassedRecord SpentIsRefused
PROPERTIES   RunShrinks RunEnds
CHECK_DEADLOCK FALSE
