SPECIFICATION Spec
CONSTANTS
  Deg = 2
  Kind = "lowest"
  Outcomes <- MCBottomLadder
  Temps <- MCTemps
  LastHour = 2
  LateHour = 2
  FreshHours = 1
  Paths <- MCFlatPaths
  Favorites <- MCFallingAsks
  Bots = {"b1"}
  Stations = {"HKO"}
  Budget = 2
  MaxReadings = 2
  MaxSamples = 2
  MaxCrashes = 1
  LateReadings = FALSE
CHECK_DEADLOCK FALSE
INVARIANTS TypeOK OncePerKey 
