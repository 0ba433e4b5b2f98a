SPECIFICATION Spec
CONSTANTS
  a1 = a1
  a2 = a2
  b1 = b1
  cA = cA
  cB = cB
  Urls = {a1, b1}
  Certs = {cA, cB}
  CertOf <- OneEach
  Sweeper = Sweeper
  MaxToken = 2
  Settings <- Settled
INVARIANTS TypeOK AwaitedStays
 
SYMMETRY Swap
CHECK_DEADLOCK FALSE
