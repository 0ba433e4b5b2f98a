SPECIFICATION LiveSpec
CONSTANTS
  Names = {a}
  NoName = NoName
  Workers = {w1, w2}
  Triggers = {t1}
  Slots = 1
  Once = FALSE
  Faults = {"edit", "linger", "cleanup", "stop"}
  MaxMishaps = 4
PROPERTIES OrphansAreCleared
