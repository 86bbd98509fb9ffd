SPECIFICATION Spec
CONSTANTS
  Deg = 2
  Kind = "highest"
  Outcomes <- MCTwoBuckets
  Temps <- MCTemps
  LastHour = 2
  LateHour = 2
  FreshHours = 1
  Paths <- MCFlatPaths
  Favorites <- MCFavorites
  Bots = {"b1"}
  Stations = {"HKO"}
  Budget = 1
  MaxReadings = 3
  MaxSamples = 1
  MaxCrashes = 0
  LateReadings = FALSE
CHECK_DEADLOCK FALSE
INVARIANT OncePerEvent
