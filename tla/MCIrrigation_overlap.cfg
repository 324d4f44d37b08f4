SPECIFICATION FairSpec
CONSTANTS
  None = None
  city = city
  rain = rain
  NumZones = 2
  Every <- MCEvery
  Sources <- MCSources
  StartOrder <- Mixed
  StopOrder <- Mixed
  PumpOffInGap <- PumpRests
  ValveOpenDelay = FALSE
  ValveOverlap = TRUE
  Clients = {mqtt, web}
  Timers = {tick}
  Schedules = {daily}
  Commands = {"ON", "OFF", "PAUSE", "RESUME", "NEXT_VALVE", "STANDBY"}
  Repeats = {1}
  Saved <- Defaults
  SavedEnabled <- AllEnabled
  MaxCommands = 3
  MaxFaults = 1
  MaxInFlight = 2
INVARIANTS RunningHasZone RunningIsTimed
PROPERTIES CyclesEnd
CHECK_DEADLOCK FALSE
