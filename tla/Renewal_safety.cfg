SPECIFICATION Spec
CONSTANTS
  Ids = {i1, i2, i3}
  NoId = NoId
  Listeners = {l1}
  Configs <- TwoConfigs
  MaxOrders = 3
  MaxFetchFailures = 2
  MaxMishaps = 1
  OrdersDie = TRUE
  CalmOperator = FALSE
  RefreshOn = FALSE
SYMMETRY Symmetry
INVARIANTS TypeOK RowIsSound
PROPERTIES NeverForgotten PromotionNeverUndone OrdersArePaced ImplementsCloudCopies
