SPECIFICATION LiveSpec
CONSTANTS
  Ids = {i1, i2}
  NoId = NoId
  Listeners = {l1}
  Configs <- OneConfig
  MaxOrders = 2
  MaxFetchFailures = 2
  MaxMishaps = 1
  OrdersDie = TRUE
  CalmOperator = FALSE
  RefreshOn = TRUE
PROPERTIES OrderNeverWedges RetiredIsReclaimed BindIsNoticed
