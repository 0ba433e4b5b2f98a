SPECIFICATION Spec
CONSTANTS
  Ids = {i1, i2, i3}
  NoId = NoId
  Listeners = {l1, l2}
  Configs <- OneConfig
  MaxOrders = 3
  MaxFetchFailures = 2
  MaxMishaps = 2
  OrdersDie = FALSE
  CalmOperator = TRUE
  RefreshOn = FALSE
SYMMETRY Symmetry
PROPERTIES ServedStaysManaged
