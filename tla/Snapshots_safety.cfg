SPECIFICATION Spec
CONSTANTS
  MaxTime = 3
  MaxVer = 3
  Settings <- Any
INVARIANTS TypeOK ShippedStaysRestorable RemoteLatestIsNewest
PROPERTIES NewestNeverPruned
CHECK_DEADLOCK FALSE
