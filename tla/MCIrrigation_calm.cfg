SPECIFICATION FairSpec
CONSTANTS
  None = None
  city = city
  rain = rain
  NumZones = 3
  Every <- MCEvery
  Sources <- MCTwoSources
  StartOrder <- Mixed
  StopOrder <- Mixed
  PumpOffInGap <- PumpRests
  ValveOpenDelay = TRUE
  ValveOverlap = FALSE
  Clients = {web}
  Timers = {tick}
  Schedules = {daily}
  Commands = {"ON", "OFF", "PAUSE", "RESUME", "NEXT_VALVE", "ZONE_ON", "STANDBY", "SETTING", "ZONE_ENABLED", "IDLE_SOURCE", "SCHEDULE_SKIP"}
  Repeats = {0}
  Saved <- AnySaved
  SavedEnabled <- OneDisabled
  MaxCommands = 4
  MaxFaults = 0
  MaxInFlight = 1
INVARIANTS IdleIsDry RunningWatersOneZone
PROPERTIES CycleMovesOn WateringEnds
CHECK_DEADLOCK FALSE
