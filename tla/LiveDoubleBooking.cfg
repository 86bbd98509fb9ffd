SPECIFICATION Spec
CONSTANTS
  Tokens = {yes}
  NoToken = NoToken
  Traders = {bot}
  CliReconcilers = {cli}
  DashReconcilers = {dash}
  Quotes <- UnitQuote
  OrderCap = 2
  ExposureCap = 3
  BlockThreshold = 3
  Lot = 1
  LookupKinds = {"unknown", "unmatched", "exact"}
  Serial = FALSE
  MaxOrders = 1
  MaxRows = 2
  MaxPosition = 8
  MaxFaults = 0
  MaxRefusals = 0
  MaxOps = 0
INVARIANTS PositionsFromActualFills
