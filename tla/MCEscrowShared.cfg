SPECIFICATION Spec
CONSTANTS
  u1 = u1
  c1 = c1
  c2 = c2
  User <- OneUser
  Collab <- TwoCollabs
  Owner <- SameOwner
  TermsOf <- TwoTerms
  CommissionRates = {34}
  BarterFees = {2}
  RefundPercents = {100}
  AwardPercents = {50}
  TopUpAmounts = {3}
  MaxToppedUp = 6
  Case = {1}
  SerialAwards = FALSE
INVARIANTS
  MoneyConserved
  NothingLost
  FinalStatusFollowsMoney
