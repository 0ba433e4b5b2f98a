SPECIFICATION Spec
CONSTANTS
  Names = {a, b}
  MaxTime = 15
  Life = 10
  RenewBefore = 5
  BeforeExpiry = 2
  Window = 3
  AfterFailures = 2
  MinFailures = 2
  MinNames = 1
  Capacity = 1
  Refill = 2
  Faults = {"row", "read", "put", "record", "stall", "tx", "back", "luck", "edit", "ari", "crash", "refusal", "neighbour", "lost"}
  MaxMishaps = 2
SYMMETRY Symmetric
INVARIANTS TypeOK OthersNeverExpire EstimateNeverAboveCA
PROPERTIES FullSetWaits NoOrderWhileLockedOut
CHECK_DEADLOCK FALSE
