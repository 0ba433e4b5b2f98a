SPECIFICATION Spec
CONSTANTS
  Names = {a, b, c}
  MaxTime = 14
  Life = 12
  RenewBefore = 5
  BeforeExpiry = 2
  Window = 5
  AfterFailures = 3
  MinFailures = 2
  MinNames = 1
  Capacity = 2
  Refill = 2
  Faults = {"luck"}
  MaxMishaps = 1
SYMMETRY Symmetric
PROPERTIES HeldUntilDue
CHECK_DEADLOCK FALSE
