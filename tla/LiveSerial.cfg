SPECIFICATION Spec
CONSTANTS
  Tokens = {yes}
  NoToken = NoToken
  Traders = {bot}
  CliReconcilers = {cli}
  DashReconcilers = {dash}
  Quotes <- OneQuote
  OrderCap = 2
  ExposureCap = 3
  BlockThreshold = 3
  Lot = 1
  LookupKinds = {"unknown", "open", "unmatched", "exact"}
  Serial = TRUE
  MaxOrders = 2
  MaxRows = 4
  MaxPosition = 8
  MaxFaults = 0
  MaxRefusals = 0
  MaxOps = 0
INVARIANTS TypeOK 
PROPERTIES  OnlyLateBookingExceedsCap
