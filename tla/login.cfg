SPECIFICATION FairSpec
CONSTANTS
  Browsers = {b1, b2}
  Patient = {b1}
  Scopes <- AllScopes
  MaxPasswords = 2
INVARIANTS VerifiedIsEarned 
PROPERTIES  WaitingEnds
CHECK_DEADLOCK FALSE
