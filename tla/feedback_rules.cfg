SPECIFICATION FairSpec
CONSTANTS
  Users = {ann, bob}
  Paper = {bob}
  Recorders = {w1, w2}
  Trainers = {t1, t2}
  BatchLimit = 2
  MinNew = 1
  MaxRecords = 3
  Scope = {"crash", "disk", "threads"}
INVARIANTS OpenBounded
PROPERTIES  NeverDangles
CHECK_DEADLOCK FALSE
