SPECIFICATION LedgerSpec
CONSTANTS
  Tokens = {"yes"}
  Bots = {"bot"}
  Users = {"user"}
  Books <- MCBooks
  MaxOrder = 4
  MinFill = 2
  Slippage = 1
  MaxEntry = 3
  EventCaps = {2}
  UserSizes = {4}
  MaxTrades = 4
  MaxFetches = 2
  MaxCuts = 1
  LiveCap = 8
  Grain = 2
  Kinds = {"match", "size", "bare", "word"}
  MaxRows = 3
  MaxPasses = 2
  MaxSteps = 5
INVARIANTS TypeOK  MoneyConserved LotsAgree ChartMatchesTile BudgetHolds BestPrices
INVARIANTS LedgerTypeOK LiveViewsAgree LiveMoneyConserved LiveLotsAddUp LiveTradesAddUp
INVARIANTS LiveChartMatchesTile OpenTradesMatchTile
CHECK_DEADLOCK FALSE
