SPECIFICATION DecisionSpec
CONSTANTS
  Modes = {FALSE}
  SetupConfidences = {50, 78}
INVARIANTS ConfluenceRequired
CHECK_DEADLOCK FALSE
