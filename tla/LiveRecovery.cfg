SPECIFICATION FairSpec
CONSTANTS
  Tokens = {yes}
  NoToken = NoToken
  Traders = {bot}
  CliReconcilers = {cli}
  DashReconcilers = {}
  Quotes <- UnitQuote
  OrderCap = 1
  ExposureCap = 2
  BlockThreshold = 3
  Lot = 1
  LookupKinds = {"unknown", "unmatched", "exact"}
  Serial = TRUE
  MaxOrders = 2
  MaxRows = 3
  MaxPosition = 8
  MaxFaults = 1
  MaxRefusals = 0
  MaxOps = 0
PROPERTIES FillsBookedEventually PositionsRepaired 
