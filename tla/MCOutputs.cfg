\* Two interlock groups that share an output, one output momentary.
SPECIFICATION FairSpec
CONSTANTS
  t1 = t1
  t2 = t2
  m1 = m1
  m2 = m2
  None = None
  NumOutputs = 3
  Groups <- MCGroups
  Momentary <- MCMomentary
  SavedOn <- MCSavedOn
  Tasks <- MCTasks
  Timers <- MCTimers
  MaxCommands = 3
  MaxFaults = 1
INVARIANTS ExclusiveInTurn StateIsPin OnIsTimedInTurn
PROPERTIES GoesOff
\* The commands are bounded: the system really stops.
CHECK_DEADLOCK FALSE
