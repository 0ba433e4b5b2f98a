SPECIFICATION Spec
CONSTANTS
  Names = {a, b}
  NoName = NoName
  Workers = {w1, w2}
  Triggers = {t1, t2}
  Slots = 1
  Once = TRUE
  Faults = {"edit", "crash", "store", "panic", "linger", "cleanup", "stop", "timeout"}
  MaxMishaps = 1
SYMMETRY Symmetric
INVARIANTS TypeOK ClaimsHold
PROPERTIES DrainIsFinal PublishedExactlyOnce
