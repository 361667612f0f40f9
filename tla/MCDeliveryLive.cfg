SPECIFICATION DeliverySpec
CONSTANTS
  u1 = u1
  c1 = c1
  User <- OneUser
  Collab <- OneCollab
  Owner <- OneOwner
  TermsOf <- OneTerms
  CommissionRates = {50}
  BarterFees = {1}
  RefundPercents = {50, 100}
  AwardPercents = {0, 50}
  TopUpAmounts = {2}
  MaxToppedUp = 2
  Case = {}
  SerialAwards = TRUE
  MaxItems = 3
  RevisionLimit = 1
  BeforePercent = 100
  AfterPercent = 50
  MaxCalls = 2
INVARIANTS
  DeliveryTypeOK
PROPERTIES
  AcceptedIsPaid
CHECK_DEADLOCK FALSE
