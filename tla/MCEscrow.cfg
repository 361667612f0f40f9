SPECIFICATION Spec
CONSTANTS
  u1 = u1
  c1 = c1
  c2 = c2
  User <- OneUser
  Collab <- OneCollab
  Owner <- OneOwner
  TermsOf <- OneTerms
  CommissionRates = {0, 20}
  BarterFees = {2}
  RefundPercents = {50, 100}
  AwardPercents = {0, 50, 100}
  TopUpAmounts = {5}
  MaxToppedUp = 5
  Case = {1, 2}
  SerialAwards = TRUE
INVARIANTS
  TypeOK
  HeldMatchesLedger
  EarnedAsRecorded
  RevenueMatchesLedger
PROPERTIES
  SettledIsFinal
  KeepsPromise
