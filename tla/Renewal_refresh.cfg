SPECIFICATION Spec
CONSTANTS
  Ids = {i1, i2, i3}
  NoId = NoId
  Listeners = {l1}
  Configs <- OneConfig
  MaxOrders = 3
  MaxFetchFailures = 2
  MaxMishaps = 0
  OrdersDie = FALSE
  CalmOperator = FALSE
  RefreshOn = TRUE
SYMMETRY Symmetry

PROPERTIES PromotionNeverUndone
