SPECIFICATION FairSpec
CONSTANTS
  Workers = {w1}
  Scheduler = sched
  Symbols = {eur, gbp}
  TrialLimit = 1
  BatchLimit = 50
  MaxSignals = 1
  MaxRows = 2
  MaxChanges = 1
  Scope = {"control", "market"}
PROPERTIES RunningWaitKept StopClearsCycles 
CHECK_DEADLOCK FALSE
