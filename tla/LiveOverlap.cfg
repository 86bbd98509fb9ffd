SPECIFICATION Spec
CONSTANTS
  Tokens = {yes}
  NoToken = NoToken
  Traders = {bot}
  CliReconcilers = {cli}
  DashReconcilers = {}
  Quotes <- OneQuote
  OrderCap = 2
  ExposureCap = 3
  BlockThreshold = 2
  Lot = 1
  LookupKinds = {"unknown", "unmatched", "exact"}
  Serial = FALSE
  MaxOrders = 1
  MaxRows = 3
  MaxPosition = 2
  MaxFaults = 1
  MaxRefusals = 2
  MaxOps = 1
INVARIANTS EveryOrderTracked NoPhantomFill  KillSwitchStopsEntries
CHECK_DEADLOCK FALSE
