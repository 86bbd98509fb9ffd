SPECIFICATION Spec
CONSTANTS
  Minute = 1
  Hours = 2
  Cadence = 1
  SinceMinutes <- MCSince
  ActualMinutes <- MCActuals
  ForecastMinutes <- MCForecasts
  CatchUp = 50
  Starts <- MCStarts
  Horizon = 71
  BookEvery = 2
  DiscoverEvery = 4
  PassLimit = 2
  Versions <- MCVersions
  None = None
INVARIANTS TypeOK  ReadingsArrive OneTickAfterStop
CHECK_DEADLOCK FALSE
