SPECIFICATION Spec
CONSTANTS
  Workers = {w1}
  Scheduler = sched
  Symbols = {eur}
  TrialLimit = 1
  BatchLimit = 50
  MaxSignals = 3
  MaxRows = 1
  MaxChanges = 2
  Scope = {"trial", "admin", "control", "timeout", "plan"}
INVARIANTS DenialTakesEffect StopTakesEffect OpenSignalsBounded
 
CHECK_DEADLOCK FALSE
