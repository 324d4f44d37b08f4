\* A cover with two thread slots: joins may time out, relay writes may fail.
SPECIFICATION FairSpec
CONSTANTS
  t1 = t1
  t2 = t2
  None = None
  Full = 2
  Kinds <- MCKinds
  Threads <- MCThreads
  Targets <- MCTargets
  Thresholds <- MCThresholds
  Restored <- MCRestored
  MaxCommands = 3
  MaxLate = 1
  MaxFaults = 1
INVARIANTS OneDirection IdleIsStill RelayHasThread SavedWhereStopped
PROPERTIES DirectionKept EndStopReached MovementEnds
\* The commands are bounded: the system really stops.
CHECK_DEADLOCK FALSE
