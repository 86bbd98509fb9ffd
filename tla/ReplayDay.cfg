SPECIFICATION Spec
CONSTANTS
  MaxTime = 3
  FreshAge = 2
  Books = {"none", "dear", "thin", "cheap"}
  Bounds <- MCBounds
  Day <- MCDay
  TickSources <- MCSources
INVARIANT TypeOK
INVARIANT AsOf
 
 
INVARIANT ExperimentIsReference
ACTION_CONSTRAINT RestsDuringTicks
