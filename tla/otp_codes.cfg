SPECIFICATION Spec
CONSTANTS
  Workers = {w1, w2}
  MaxVerifyAttempts = 2
  RequestLimit = 1
  MaxRows = 3
SYMMETRY ThreadSymmetry
INVARIANTS VerifiesOnce 
PROPERTIES ResendInvalidates
CHECK_DEADLOCK FALSE
