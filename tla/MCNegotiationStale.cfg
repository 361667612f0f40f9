SPECIFICATION NegotiationSpec
CONSTANTS
  t1 = t1
  t2 = t2
  Terms <- TwoTerms
  FirstTerms = t1
  MaxVersions = 3
  MaxCalls = 2
INVARIANTS
  FundedAsSigned
CHECK_DEADLOCK FALSE
