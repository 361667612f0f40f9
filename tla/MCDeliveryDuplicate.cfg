SPECIFICATION DeliverySpec
CONSTANTS
  u1 = u1
  c1 = c1
  User <- OneUser
  Collab <- OneCollab
  Owner <- OneOwner
  TermsOf <- OneTerms
  CommissionRates = {50}
  BarterFees = {1}
  RefundPercents = {50, 100}
  AwardPercents = {0, 50}
  TopUpAmounts = {2}
  MaxToppedUp = 2
  Case = {1, 2}
  SerialAwards = TRUE
  MaxItems = 2
  RevisionLimit = 1
  BeforePercent = 100
  AfterPercent = 50
  MaxCalls = 2
INVARIANTS
  OneActiveDispute
CHECK_DEADLOCK FALSE
