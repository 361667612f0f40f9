SPECIFICATION ServicesSpec
CONSTANTS
  \* TopUp
  TopUp = {1}
  Request = {1, 2}
  KeyOf <- KeyOfRequest
  \* Payout
  Admin = {a1, a2}
  Delivery = {d1, d2}
  Earned = 1
  MaxPayouts = 1
  MaxTransfers = 2
  MaxRequests = 1
  MaxReopened = 1
  \* Acceptance
  Source = {1}
  Handler = {h1, h2}
  MaxVersion = 3
  \* Reviews
  Party = {b, c}
  ReviewRequest = {1, 2}
  \* SocialSync
  OAuthState = {1, 2}
  OAuthCall = {1, 2}
  Syncer = {y1, y2}
  WebhookEvent = {1}
  MaxRows = 2
  \* Leases
  Runner = {r1, r2}
  NoRunner = none
  JobAttempts = 2
  \* EventDelivery
  Consumer = {c1}
  Recipient = {u1, u2}
  DeliveryMax = 3
  MaxPublished = 1
  MaxDropped = 1
  \* Sessions
  Family = {f1}
  Call = {q1, q2}
  MaxTokens = 3
  MaxCodes = 1
  MaxSession = 2
  \* ClientSession
  Person = {p, q}
  Nobody = nobody
  AuthAction = {x1, x2}
  ApiCall = {i1}
  MaxAccess = 3
INVARIANTS
  ServicesTypeOK
  CreditedAsPaid
  DebitedOncePerTransfer
  TransferredAsApproved
  AcceptedHasWorkspace
  ShownByBoth
  OncePerConnection
  SyncingIsWorkedOn
  RunsUnderLease
  NotifiedOnce
  OneLiveToken
  RecoveredOnce
  TabOfOnePerson
PROPERTIES
  ImplementsEngagement
  PaidIsCredited
  EveryReviewRevealed
  JobIsRun
  EventSettles
CHECK_DEADLOCK FALSE
