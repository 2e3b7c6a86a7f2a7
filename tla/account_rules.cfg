SPECIFICATION AccountSpec
CONSTANTS
  Workers = {w1, w2}
  MaxTrials = 2
  MaxMonth = 3
  Payers = {p1, p2}
  Approvers = {a1, a2}
  References = {m1}
  Spellings = {s1, s2, s3}
  MaxPayments = 3
  MaxGrants = 2
SYMMETRY ThreadSymmetry
INVARIANTS PaidOnce 
PROPERTIES TrialSettles DenialSettles BypassEnds
CHECK_DEADLOCK FALSE
