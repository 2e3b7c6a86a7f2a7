SPECIFICATION DecisionSpec
CONSTANTS
  Modes = {TRUE, FALSE}
  SetupConfidences = {50, 78}
INVARIANTS  NoPreferredSide SupportNeverHurts
CHECK_DEADLOCK FALSE
