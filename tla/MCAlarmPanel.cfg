\* A door with entry delay and a window, commands, inputs, timers and a crash.
SPECIFICATION FairSpec
CONSTANTS
  t1 = t1
  t2 = t2
  door = door
  window = window
  home = home
  away = away
  None = None
  NumZones = 2
  Modes <- MCModes
  Inputs <- MCInputs
  ZoneInputs <- MCZoneInputs
  ArmModes <- MCArmModes
  EntryDelay <- MCEntryDelay
  Configs <- Delays
  NumOutputs = 2
  Tasks <- MCTasks
  MaxCommands = 2
  MaxChanges = 1
  MaxFaults = 1
  MaxRestarts = 1
INVARIANTS TransientIsTimed DisarmedIsSilentInTurn KeptIsState
PROPERTIES OnlyCommandsTurn AlarmEnds
\* Commands and inputs are bounded: the system really stops.
CHECK_DEADLOCK FALSE
