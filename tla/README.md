# A verification of Linkfluence

Linkfluence ("Influence Hub") connects businesses with content creators: a
business funds a collaboration, the creator delivers and publishes, and the
platform pays the creator and keeps a commission. This directory holds TLA+
models of the core of its backend (`src/backend`) and of the session handling of
its React client (`src/frontend`), the TLC configurations that check them, and
theorems about them with proofs for TLAPS.

Source paths below are relative to `src/backend/src/` unless they start with
`src/`. `PROJECT.json` lists, definition by definition, the lines each model
translates.

## 1. The system

The API is an Express monolith over PostgreSQL (Prisma). A module under
`modules/` has a service, which decides, and a repository, which holds the
queries. `infrastructure/` has the event workers, the cache, email and realtime.
`workers/outbox.js` is a second process that runs the event worker alone. An
external scheduler triggers maintenance jobs, which run under a lease in the
database (`modules/operations/job-runner.js`). Several API processes may run, so
everything the services share is in the database, and what keeps two requests
apart is the transaction isolation each one asks for:

- `payments/wallet.repository.js:4` runs every wallet operation `SERIALIZABLE`;
- nearly everything else uses the default, `READ COMMITTED`: disputes,
  deliverables, reviews, campaigns and offers, sessions, social accounts, payouts,
  the jobs. These services mostly load a row, decide in JavaScript, and write
  later. What the `where` of that write repeats of the decision (a version, a
  status, a null column, or only the primary key) differs from handler to handler.

Most of what is hard in this code follows from that second point. In the browser
the same pattern returns: an answer arrives after the state it was asked in has
changed, and three different guards decide whether it still counts.

### Components

| Component | State | Operations | Interacts with | What is hard | What makes it correct |
|---|---|---|---|---|---|
| Money rules (`payments/finance.rules.js`, `calculateDisputeAward`) | none | price of a collaboration, split of a refund and of an award | used by wallet and disputes | rounding of parts that must add up | the parts add up, none is negative |
| Wallet, ledger, revenue (`payments/wallet.service.js`, `payments/ledger.service.js`) | ledger accounts and entries, Payment, PaymentRefund, PlatformRevenue | fund, release, refund | called by deliverables, lifecycle, admin; writes the collaboration's status | four tables tell one story; retries; a mix of partial refunds | no money appears or is lost; settled once |
| Top-ups (`payments/wallet.service.js`) | WalletTopUp, PaymentProviderEvent | checkout, webhook, reconciliation | payment provider | two channels report one payment; the provider call fails half way | credited once, and only what was paid |
| Payouts (`payments/payment.service.js`, `admin/`) | PaymentPayout, PaymentProviderEvent | request, decide, correct by hand, provider events | payment provider, ledger | read, claim, slow call and write are apart; lost answers; repeated events | one transfer for one decision, one debit for one transfer |
| Disputes (`disputes/`, parts of `admin/`) | TrustCase | open, freeze, evidence, resolve, award | reads the payment, writes payment, ledger and status itself | read and write are apart; two actors | at most one active dispute; no second settlement |
| Deliverables (`deliverables/`) | Deliverable, autoApprovalDueAt | submit, review | the last approval starts a release | stale decisions; crash before the release | paid only for work; accepted work is paid |
| Proofs and reviews (`reviews/`) | PublishProof, Review, ShowcaseConsent, ShowcasePost | submit and moderate proof, review, reveal, consent | asks a social network in mid-request; swept by the lifecycle job | slow call between read and write; two parties write at once | a publication does not undo a final status; nothing is shown on one party's word; every review appears |
| Lifecycle job (`collaborations/lifecycle.service.js`) | the rows above | auto-approve, reconcile, check retention, settle, reveal | release in the wallet | races every user request; limit of 100 | reconciles what a crash left |
| Scheduled jobs (`operations/`) | JobLease, JobRun | acquire, run with retries, release | external scheduler, the handlers of the services | a run outlives its lease; a process stops while it holds one | a run in its lease owns it; the job is run again |
| Outbox (`infrastructure/eventing/outbox.*`) | OutboxEvent | claim, publish, mark, fail | every service emits in its own transaction | several workers, expiring locks, crashes | no event is lost; each is settled in the end |
| RabbitMQ broker and notification consumer (`infrastructure/eventing/rabbitmq-broker.js`, `notifications/`) | queue, delay queues, Notification | deliver, retry, give up, notify, mail | fed by the outbox | copies multiply and repeat; a handler fails half way | one notification per recipient and event; an event is handled or its attempts are used up |
| Campaigns, offers, proposals, invitations (`offers/`, `proposals/`, `campaigns/`, `sourcing/`) | one row each, with a version | create, answer, counter, accept, cancel, delete | create the collaboration and its workspace | rival answers; each kind rechecks something else | one workspace per acceptance, and for good |
| Negotiation and contracts (`collaborations/`, `contracts/`) | versioned terms, Contract, approvals | change terms, approve, sign, request changes | its end is where funding starts | two parties edit at once | the signed terms are the agreed ones |
| Sessions (`auth/`) | RefreshToken family, sessionVersion, one-time codes | sign in, refresh, logout, recover a password | every request | rotation, reuse and endings race | one live token per family; one password per code |
| Social accounts (`social-sync/`) | SocialAccount, SocialOAuthState, webhook events | authorize, callback, sync, disconnect, webhook | social platforms; a scheduled job | slow calls between claim and write; crashes | one connection per authorization; a row that is syncing has a syncer |
| Browser tab (`src/frontend/src/api`, `src/frontend/src/context`) | access token, user, rows loaded for the user | restore, sign in and out, refresh, load, act | the API; other tabs through one cookie | late answers of an earlier user | token, user and rows are of one person |
| Messaging and realtime; workspace; users, discovery, media, analytics, platform data; pages of the frontend | rows of their own | edits, fan-out, reports | little | little | not a subject of this project |

Legacy code: `payments/payment.service.js` still holds a branch for payments
funded directly by a provider. `createFundingIntent` always funds from the
wallet, so that branch (and what `src/backend/README.md:199` says of signed
webhooks funding a collaboration) describes payments made before; it is not
modelled.

## 2. The modules

```
FinanceRules <-- Escrow <-- Delivery      Negotiation      Outbox
                   |  implements
                 Custody

Acceptance  TopUp  Payout  Reviews  SocialSync  Leases  EventDelivery  Sessions  ClientSession
   |  implements        \------------------- MCServices ------------------/
Engagement
```

| Module | Models |
|---|---|
| `FinanceRules` | `calculateCollaborationFinance`, the refund split of `walletService.refund`, `calculateDisputeAward`, over whole hundredths |
| `Custody` | the abstract promise: money is deposited, taken into custody, returned, or paid out once |
| `Escrow` | one wallet-funded payment per collaboration, its ledger and revenue rows, the collaboration's status, its disputes |
| `Delivery` | deliverables, proofs and the lifecycle job, composed with `Escrow`: each acceptance ends in its `Release` |
| `Outbox`, `EventDelivery` | the outbox table and its workers; one event behind it, in RabbitMQ and the notification consumer |
| `Negotiation` | versioned terms, their agreement, the contract and its signatures, from an accepted offer to funding |
| `Engagement`, `Acceptance` | the abstract promise of an approach: open, then connected or closed for good; and offers, proposals and invitations with their campaign, which implement it |
| `TopUp`, `Payout` | the two ways money crosses to and from the payment provider |
| `Reviews` | mutual reviews, their reveal, and the consent to the Showcase |
| `SocialSync` | a channel's account on one platform |
| `Leases` | the lease of a scheduled job and the runs under it |
| `Sessions`, `ClientSession` | refresh tokens and password recovery on the server; a tab in the browser |
| `MCEscrow`, `MCDelivery`, `MCNegotiation`, `MCOutbox`, `MCServices` | finite instances for TLC |
| `FinanceRules_proofs`, `Escrow_proofs`, `EscrowLedger_proofs`, `EscrowPromise_proofs`, `Delivery_proofs`, `Negotiation_proofs`, `Outbox_proofs`, `Services_proofs` | theorems |

The nine services of `MCServices` share no variable. It chooses one of them at the
start (`active`), and only that one moves: all at once would multiply their states
and show nothing more.

### Escrow: state and actions

`wallet` is the balance of `business-wallet:<user>`. `book` sums the ledger
entries of a payment by account (`pending`, `platform`, `available`, `earned`,
`returned`): the entries are append-only, so the sums are what the code can
observe of them. `payment`, `revenue`, `status` and `dispute` are the rows of
those names; `refunded` in a payment sums its PaymentRefund rows.

| Action | Code | Atomicity |
|---|---|---|
| `TopUp` | `walletService.processVerifiedTopUp` once the provider's event is accepted | one `SERIALIZABLE` transaction |
| `Fund`, `Release`, `ReleaseAgain`, `Refund` | `fundCollaboration`, `release` (its two branches), `refund` | one `SERIALIZABLE` transaction each |
| `OpenDisputeRead`, `FreezeContractRead`, then `CreateDispute` | `disputeService.open`, `adminService.freezeContract` | check and insert are two steps |
| `EditCaseRead`, `EditCaseWrite` | `disputeService.addEvidence`, `adminService.resolveCase` | read and update are two steps |
| `AwardRead`, `AwardWrite`, `AwardAbort` | `disputeService.resolveAward` | `READ COMMITTED`: the reads, then the writes by primary key, or a rollback |
| `Progress`, `RetentionFailed` | every status write of the delivery services | what `Delivery` refines |

`edit` and `award` hold what an uncommitted request has read; everything else
may commit before it writes.

`SerialAwards` separates two questions. With `FALSE`, `AwardWrite` is what the
code does: it commits whatever happened to the payment since it was read. The
`award_race` run shows the result, and `escrow_shared` what holds even so. With
`TRUE` such an award does not commit, as it would not under `SERIALIZABLE`; the
`escrow` run and those of `Delivery` use it, so that one known defect does not hide
the rest. The theorems of section 4 do not need it: those that hold of the code as
it is have no assumption, the others hold of every behaviour up to its first stale
award (`AwardsCurrent`).

### Delivery: state and actions

`items` are the deliverables with their status, version and the one they revise;
`proof` the publication; `autoDue` and `settleDue` whether the two deadlines of a
collaboration are set (time is not modelled: a deadline that is set may pass).
`calls` is the set of decisions read and not yet committed, at most `MaxCalls` on a
collaboration, and also the releases that an acceptance has started; `copy` tells
two requests that submit the same from one another.

A review is three steps. Its transaction updates the row and counts the approvals
it can see (`ReviewCount`), then commits (`ReviewCommit`); under `READ COMMITTED`
two reviews may each count without the other's approval, so that neither starts the
release, and a submission may commit between the count and the commit. Rows an
uncommitted review has updated are `Locked` for the others that would update them.

| Actions | Code |
|---|---|
| `SubmitRead`, `SubmitWrite` | `deliverableService.submit` |
| `ReviewRead`, `ReviewCount`, `ReviewCommit`, `AcceptAgain`, `ReleaseCall` | `deliverableService.review`, `completeFromBusinessAcceptance` |
| `AutoApproveRead`, `AutoApproveWrite`, `SettleAccepted`, `RetentionRead`, `RetentionWrite`, `SettlePublished` | `lifecycleService.run` |
| `SubmitProofRead`, `SubmitProofWrite`, `ModerateProofRead`, `ApproveProof`, `RejectProof` | `reviewService.submitProof`, `moderateProof`: an approval or rejection is written by id, whatever the proof is by then |
| `RefundByPolicy`, `Dispute`, `Pay` | Escrow's operations, with the refund policy in force |
| `Crash` | a request or job that stops between its read and its write, or before its release |

### Negotiation: state and actions

`collab` and `contract` are the two rows, `agreements` and `versions` their
AgreementVersion and ContractVersion rows by number, `funded` the terms a funding
took its price from. `calls` are requests that have read and not written, at most
`MaxCalls`. `raced` is history: some write was decided on a collaboration or a
contract that had changed since.

| Actions | Code |
|---|---|
| `Read` | the `load` of every operation, with its checks (`Allowed`) |
| `UpdateTerms`, `LockAgreement` | `collaborationService.updateTerms`, `lockAgreement`: refused if the collaboration's `version` has changed |
| `ApproveAgreement` | `collaborationService.approveAgreement`: only the approval itself is conditional |
| `RequestChanges` | `requestAgreementChanges` and `contractService.requestChanges`: only the number of the new agreement version is unique |
| `ApproveContract` | `contractService.approve` |
| `Fund` | the checks and the price of `walletService.fundCollaboration` |
| `Abort` | a request or transaction that fails |

### Outbox: state and actions

A row has `attempts`, whether it is `processed` or `dead`, whether its lock is
free, held or expired, and whether its next attempt is `due`. A worker has what
its claim selected, the snapshots it claimed and has still to publish, and the
event it has published and not marked.

| Actions | Code |
|---|---|
| `Emit` | any service's `tx.outboxEvent.create`, visible when its transaction commits |
| `ClaimSelect`, `ClaimLock` | `outboxRepository.claim`: the first `findMany`; the `updateMany`, second `findMany` and commit |
| `Publish`, `PublishThrows` | `broker.publish`: resolves, or rejects before or after the broker took the event |
| `MarkProcessed`, `MarkThrows`, `MarkFailed` | `processed`; its failure inside the same `try`; the `catch` |
| `Abandon` | the process stops, or the database fails and `runOnce` rejects |
| `LockExpires`, `BackoffElapsed` | time |

`updateMany` rechecks `processedAt` and `deadLetteredAt` but not `lockedAt`. Two
claims that overlap therefore both take the event, and each works from its own
snapshot. `MarkFailed` writes `attempts` and `deadLetteredAt`, or null, from that
snapshot: it may lower the count and revive a dead letter. The model has all of
this; the properties say what survives it.

### TopUp: state and actions

`topUps` is the WalletTopUp of an idempotency key with its status and whether the
checkout's url is stored, `checkout` the provider's session, `reported` the event
ids recorded, `credited` the wallet's credits. `failedCalls` is history: top-ups a
provider call has failed for.

| Actions | Code |
|---|---|
| `StartTopUp`, `ProviderOpens`, `ProviderFails`, `MarkFailed`, `SaveRef`, `AbandonTopUp` | `walletService.createTopUp`: before, in and after the provider call |
| `CheckoutMoves` | the buyer at the provider |
| `Webhook`, `CheckTopUp`, `Reconcile` | the webhook; `reconcilePendingTopUps`, its question and its answer. Both apply `ApplyEvent`, which is `processVerifiedTopUp`, one `SERIALIZABLE` transaction |

### Payout: state and actions

`payouts` are the rows of one payment, `adminCall` what administrators have read or
claimed, `transfers` what the provider was asked to pay, `events` the recorded
provider events, `debits` the ledger debits by payout. `reopened` is history: how
often an administrator set a payout back to PENDING.

| Actions | Code |
|---|---|
| `RequestRead`, `RequestCreate` | `requestPayout`: its check and the transaction that creates the row |
| `DecideRead`, `Claim`, `SendPayout`, `SavePayoutRef`, `PayoutFailed` | `decidePayout`: the read, `updateMany` where PENDING, the provider call whose answer may be lost, the record of it |
| `CorrectRead`, `CorrectWrite` | `reconcilePayout`, which updates by id |
| `EventRead`, `EventApply`, `EventReject` | `processVerifiedEvent` for `payout.succeeded`: its reads, its commit (a second copy fails on the event id), the `catch` that records the refusal |
| `AbandonCall` | a call that stops between two transactions |

### Acceptance: state and actions

`sources` are offers, proposals and invitations with status and version,
`campaign` the campaign of the last two, `workspaces` how many collaborations each
has. The operations are a table of moves (`Moves`, `CampaignMoves`): from which
statuses, to which.

| Actions | Code |
|---|---|
| `ReadSource`, `WriteSource` | every handler of `offer.service.js`, `proposal.service.js` and of invitations in `sourcing.service.js`: decide on the row read, then write where `StillHolds` - version and status for offers, version for proposals, status for answers to invitations, nothing but the id for their cancellation. Acceptance creates the workspace in the same transaction (`Bootstrapped`) |
| `ReadCampaign`, `WriteCampaign`, `RemoveCampaign` | publish, submit for review, pause, archive; `remove`, which deletes by id and takes proposals and invitations along |

### Reviews: state and actions

| Actions | Code |
|---|---|
| `SubmitRead`, `SubmitWrite` | `reviewService.submit`: whether the counterpart's review was seen decides whether both are revealed |
| `ConsentRead`, `DeclineRead`, `ConsentWrite` | `giveShowcaseConsent`: the consent, and the post if the counterpart's was seen |
| `SweepRead`, `SweepWrite`, `SweepStops` | `revealStale` in the lifecycle job |
| `CollaborationCompletes`, `CompletionUndone` | `walletService.release`, which writes `completedAt` each time; a retention failure or a submission written late, which take the collaboration out of COMPLETED |
| `WindowPasses`, `AbandonReviewCall` | 14 days since `completedAt`; a request that stops |

`Stale` is the query of `staleUnrevealed`: hidden reviews of a collaboration that is
COMPLETED and past its window. `everPassed` is history: the window of one completion
has passed.

### SocialSync: state and actions

`account` is the row (an id tells a row from its successor), `oauth` the
SocialOAuthState rows, `syncing` the row each synchronisation works on; `connected`,
`reconnected` and `stopped` are history.

| Actions | Code |
|---|---|
| `Authorize`, `StateExpires`, `CallbackRead`, `CompleteConnection`, `CallbackFails` | `authorize`; `callback` and `selectAccount`, whose claim of the state and upsert of the account are one transaction |
| `CreateManual`, `Disconnect` | a manual account; the deletion of the row |
| `ClaimSync`, `FinishSync`, `SyncStops` | `sync` and `syncStale`: the claim, `completeSync` or `failSync` by id, a process that stops |
| `StoreWebhook`, `MarkStale` | the webhook, stored once by its hash, then applied |

### Leases: state and actions

| Actions | Code |
|---|---|
| `Schedule`, `Trigger` | the external scheduler; `runOperationalJob` reads the clock |
| `CreateLease`, `TakeLease` | `acquire`: `create`, then `updateMany` where `expiresAt < now` |
| `BeginRun`, `AttemptSucceeds`, `AttemptFails` | `startRun`; the handler under `maxAttempts` |
| `Release`, `RunStops`, `LeaseExpires` | `deleteMany` where name and owner; a process that stops and leaves its lease; time, which nothing renews |

`tooEarly` are runners that read the clock before the lease expired, `outlived` is
history: runners whose lease expired under them.

### EventDelivery: state and actions

`ready` counts the copies in the queue by `x-attempt`, `delayed` those in each delay
queue, `consumer` what a consumer does with the copy it has. `handled` and
`exhausted` are history.

| Actions | Code |
|---|---|
| `PublishEvent` | `broker.publish`, called at least once by the outbox |
| `Receive`, `StoreNotifications`, `Finish`, `HandlerFails` | the subscription; `createMany` with `skipDuplicates`; realtime and mails, then the ack; an exception |
| `Retry`, `GiveUp`, `AckFailed` | the delay queue of the attempt is declared and the copy published, or the copy is dropped; the ack of the failed one |
| `ConnectionLost`, `Redeliver`, `DelayQueueExpires` | RabbitMQ: unacknowledged copies come back, delayed ones return, unused delay queues go with what they hold |

### Sessions: state and actions

`issued` and `live` are the tokens of a family, `session` the user's
`sessionVersion`, `openCodes` the recovery codes that are not consumed,
`resetTokens` the versions reset tokens were signed with; `work` what a request has
read. `granted` and `resets` are history.

| Actions | Code |
|---|---|
| `SignIn` | `login`, `googleLogin`, `verifyEmail` as far as they start a family |
| `ReadToken`, `Rotate`, `InvalidateFamily` | `refresh`: the record, `rotateAuthToken`, and the end of the family for a token used again |
| `ReadLogout`, `Logout`, `LogoutAll` | `logout`; `logoutAll`, a changed password, a deleted account |
| `ReadCodes`, `ReplaceCode`, `CodeNotSent` | `forgotPassword` |
| `ReadCode`, `ConsumeCode`, `ReadReset`, `ResetPassword` | `verifyCode`, `resetPassword` |
| `CallStops` | a request that stops between its read and its write |

### ClientSession: state and actions

One page load of the React client. `tokenOf` names the account of each access token
the tab was ever given, `token` the one in `tokenStore`, `shownUser` the user of
`AuthProvider`, `authCall`, `apiCall` and `refreshing` the requests in flight,
`items` and `dataOwner` the rows of `CollaborationProvider`. `mixed` is history: an
answer nobody guards met another account (see section 5).

| Actions | Code |
|---|---|
| `RestoreRefreshed`, `Restored`, `RestoreFails` | `AuthProvider.refreshSession` and `restore` |
| `SignInClicked`, `SignedIn`, `SignInFails`, `SignOut` | `login`, `loginWithGoogle`, `verifyEmail`; `logout`, `clearSession` |
| `Send`, `Loaded`, `Acted`, `ProfileSaved`, `CallFails` | `reload` and `runApi` of `CollaborationProvider`, `syncUser` |
| `Unauthorized`, `Refreshed`, `RefreshFails` | the 401 interceptor of `axiosClient` and its one shared refresh |

## 3. The runs

| Run | States | What it shows |
|---|---|---|
| `escrow` | 322,616 | Through partial refunds, two disputes, awards and late status writes, no award stale: the payment row, the ledger and the revenue row agree (`HeldMatchesLedger`, `EarnedAsRecorded`, `RevenueMatchesLedger`), a settled payment never moves again (`SettledIsFinal`), and `Escrow` implements `Custody` (`KeepsPromise`) |
| `escrow_shared` | 964,908 | Two collaborations on one wallet, awards on stale reads as in the code: even so no money appears or is lost (`MoneyConserved`), the books of each payment add up (`NothingLost`), and a final status follows the money (`FinalStatusFollowsMoney`) |
| `delivery` | 1,028,420 | Everything at once, two requests in flight: `Delivery` implements `Escrow`, and no release without submitted work |
| `delivery_live` | 423,124 | Three deliverables, no disputes: no revision goes beyond the contract's limit, even where two stale requests revise one deliverable (`DeliveryTypeOK`); accepted work is settled, although reviews may miss each other's approval and the process may stop between acceptance and release (`AcceptedIsPaid`) |
| `outbox` | 184,547 | Two workers, overlapping claims, crashes, expired locks: no event is marked processed undelivered or given up early, no claim takes a settled event, and every event is settled for good |
| `negotiation` | 1,935,861 | Two rival proposals, two requests in flight: no proposal is lost (`TermsAreLatest`), a contract version says what both approved in one locked version (`SignedWasAgreed`), and while nothing was decided on stale reads the funded terms are the signed ones (`ActiveIsSigned`) |
| `services` | 172,191 | The nine services of `MCServices`, see below |
| `award_race`, `freeze`, `terminal_status`, `duplicate_dispute`, `unsigned_funding` | stop at the violation | see below |

What `services` shows, property by property:

| Property | Of | In words |
|---|---|---|
| `CreditedAsPaid` | TopUp | credited once, only when completed, and completed only when paid, although two channels report one payment and requests repeat |
| `PaidIsCredited` | TopUp | what was paid is credited, unless a provider call of that top-up failed |
| `DebitedOncePerTransfer` | Payout | no more debits than transfers, and PAID only after one, whatever copies of events and corrections overlap |
| `TransferredAsApproved` | Payout | a second transfer needs the payout set back to PENDING by hand |
| `ImplementsEngagement` | Acceptance | an approach is connected once or closed, and stays so |
| `AcceptedHasWorkspace` | Acceptance | accepted exactly when its workspace exists |
| `ShownByBoth`, `EveryReviewRevealed` | Reviews | nothing is shown on one party's word; reviews that crossed are revealed by the sweep, as long as the collaboration stays COMPLETED |
| `OncePerConnection` | SocialSync | an authorization connects once; a row is synchronised once at a time, but for reconnections |
| `SyncingIsWorkedOn` | SocialSync | SYNCING means somebody is at work on the row, unless a process stopped |
| `RunsUnderLease`, `JobIsRun` | Leases | a run in its lease owns it; the job is run again whatever a stopped process left |
| `NotifiedOnce`, `EventSettles` | EventDelivery | one notification per recipient, whatever copies there are; an event is handled or its attempts are used up |
| `OneLiveToken` | Sessions | of a family only the newest token can go on |
| `RecoveredOnce` | Sessions | a code gives one reset token, a session version sets one password |
| `TabOfOnePerson` | ClientSession | user, token, requests and rows of a tab are of one person, until an unguarded answer mixes two |

### What the code does against its own documents

Five runs check a claim the repository makes and find it violated.

1. **`award_race`** (`ReleasedIsNotAwarded`). `dispute.service.js:99` refuses an
   award on a released payment, from a read that is not repeated. A release that
   commits between the read and the write of `resolveAward` is overwritten, and
   the creator is paid by both.
2. **`freeze`** (`FrozenWhileDisputed`). `API.md:56` says an active dispute
   forbids release, refund and payout. `walletService.release` and `refund` look
   at the payment only.
3. **`terminal_status`** (`TerminalStatusIsFinal`). `collaboration.state.js` has
   no transition out of COMPLETED. `submit`, `review`, `submitProof` and the
   retention check write their status over whatever the row holds by then.
   `FinalStatusFollowsMoney` is what still holds: the status can fall behind the
   money, but it never says COMPLETED or CANCELLED without it.
4. **`duplicate_dispute`** (`OneActiveDispute`). The check for an active dispute
   precedes the transaction that creates one, and no index makes it unique.
5. **`unsigned_funding`** (`FundedAsSigned`). `collaboration.service.js:131`
   promises that an update of the terms resets the approvals given before. The
   last approval of the old version, read before the update, still commits after
   it: it generates the contract on the old terms and moves the collaboration to
   CONTRACT_REVIEW without looking at its version. Both sign the old terms, and
   funding takes its price from the new ones. Updating, locking and approving
   cannot lose a proposal (`TermsAreLatest`) or produce a contract nobody agreed to
   (`SignedWasAgreed`); what they can lose is the tie between the two.

One more disagreement is in a model and has no run of its own. The comment at
`review.service.js:208-211` says the sweep is there so that no review is left
unrevealed forever. It looks only at collaborations that are COMPLETED
(`review.repository.js:29`), and a collaboration does leave COMPLETED
(`terminal_status`): a review that is hidden when a retention failure makes it
DISPUTED (`lifecycle.service.js:65`) is passed over for good, unless the
collaboration is completed again and 14 days pass once more. `Reviews` has these
steps (`CompletionUndone`), and `EveryReviewRevealed` claims what the code does:
while the collaboration stays COMPLETED, every review appears.

### Bounds, and why they are enough

- *Amounts* are small numbers of hundredths: 2 to 5 in funding, commissions of
  20, 34 and 50 %, refund policies of 50 and 100 %, awards of 0, 50 and 100 %.
  They are chosen so that shares do not divide evenly and the rounding of each
  part matters. `FinanceRules_proofs` covers all amounts.
- *One business*, one or two collaborations. Collaborations meet only in the
  wallet of their business, so two that share it are the interesting case.
- *Two disputes* per collaboration in `escrow`: a second one after, or beside, the
  first. One is enough in `delivery`.
- *Two deliverables*, one revision, in `delivery`: an original and what replaces it,
  or two that are reviewed at once. *Three* in `delivery_live`: an original and two
  revisions of it, or a revision of a revision, if the limit did not forbid it.
- *Two requests in flight* per collaboration: every pair of operations can race.
  `escrow` has further ones in `edit` and `award`.
- *Two terms, three agreement versions, two requests in flight* in `negotiation`:
  rival proposals, and a version that supersedes the one a request has read, with
  another after it.
- *Two workers and two events, batches of one, two attempts, three failures per
  event, one crash* in `outbox`. A row's snapshot is stale because of one other
  worker. Three failures are one more than the limit, so an event can be revived
  after it was given up. With batches of one an event waits for its own publication
  instead of its predecessor's; the lock may expire in both cases.
- `services` has two of whatever can race, and one of what cannot meet another:
  - TopUp: one key, two requests that carry it (two keys and three requests were
    run once: 18,476 states).
  - Payout: two administrators, two deliveries of events, one payout row, two
    transfers, one reopening. Two rows meet only in the earnings that bound their
    creation (two rows from two requests: 6.6 million states, run once).
  - Acceptance: one source of any kind, its campaign, two handlers, three versions:
    a row changes twice behind a request's back. Sources meet only when their
    campaign is deleted (three sources: 1.24 million states, run once).
  - Reviews: the two parties, two requests and the sweep; the collaboration is
    completed, and leaves COMPLETED, any number of times.
  - SocialSync: two authorizations, callbacks and synchronisations, one webhook
    event, two rows, so that a write by id can meet the row's successor.
  - Leases: two runners, two attempts: who outlives a lease and who takes it over.
  - EventDelivery: one consumer, two recipients, three attempts (so two delay
    queues, where copies multiply), one publication and one lost connection (two
    consumers: 45,422 states, run once).
  - Sessions: one family, two requests, three tokens, one code, two versions (two
    codes: 62,791 states, run once). Families meet only in `sessionVersion`.
  - ClientSession: two accounts, two sign-ins or restores and one other request in
    flight, three access tokens: an old one, the one in use and the one a refresh
    brings (two other requests: 3.4 million states, run once). At the start one
    request and one account stand for all, and a tab is not followed past an
    answer that mixed accounts, since nothing is claimed of it then.
  The larger instances passed with the same properties; the theorems of section 4
  hold for all.

`CHECK_DEADLOCK FALSE` is set where the system may come to rest: a settled
or funded collaboration, an outbox whose events are all settled, a service whose
bounded calls are used up and answered.

### Fairness

- `WF(SettleAccepted)`: the scheduled job keeps running and takes up a candidate
  that stays one. It looks at the 100 oldest collaborations funded and in review
  (`lifecycle.repository.js:9`); that it reaches the candidate is assumed.
- `SF(ReleaseCall)`: a release may be lost to a crash any number of times, but one
  that is started again and again is not killed every time.
- `WF(Pass(w))`: a worker polls every second and works to the end of its batch.
  `WF(LockExpires)`, `WF(BackoffElapsed)`: time passes.
- Crashes and failures of the outbox are bounded (`MaxStops`, `MaxFailures`).
  That is a real assumption of `EventuallySettled`: a worker that is slow in every
  round could restore an old count every time.
- TopUp: `WF(Webhook)`, the provider repeats an event until it is answered.
  Reconciliation, which only a visit to the payments page starts, is not assumed.
- Reviews: `WF(WindowPasses)` and `WF(SweepRead)`, time and the scheduled job;
  `SF(SweepWrite)`, not every sweep is cut off.
- Leases: a lease that is held expires, the scheduler goes on triggering, a release
  ends (weak); not every attempt to get the lease and start is cut off (strong).
  Nothing is assumed of the handler itself: `JobIsRun` is about runs that start.
- EventDelivery: consumers go on and the broker returns delayed copies (weak). Lost
  connections are bounded, failures of the handler are not.
- Nothing is assumed of users, who may do anything or nothing.

Each property of a passing run has a mutant in the modules, marked *Mutant:* beside
the definition it would replace: under the same run the mutant violates the
property. No specification uses them.

## 4. What is proved

TLAPS checks these for every value of the constants.

**Money rules** (`FinanceRules_proofs`). Creator part and fee add up to the
payable amount; the rounded creator share of a partial refund fits the refund and
the creator's part; the three parts of an award add up to what is divided. No
module assumption beyond natural amounts and percentages up to 100.

**Types and conservation** (`Escrow_proofs`). `TypeCorrect`: no wallet, payment or
revenue row goes below zero, whatever awards have read. That needs the arithmetic
above and that an award in flight has read a held payment with something to divide,
which the inductive `TypeInv` adds to `TypeOK`. `MoneyIsConserved`: what a business
topped up is in its wallet or in the ledger entries of its payments, for any
(finite) set of collaborations on one wallet. The sum over them is a fold; the step
from one collaboration to the sum is the lemma `SumChange` of `FinanceRules_proofs`: a sum over
a finite set changes by what the one changed element changes.

**The ledger** (`EscrowLedger_proofs`). The inductive invariant `LedgerInv` says for
each collaboration that payment, ledger entries, revenue row and status are
`Consistent`. None of the checked invariants is inductive alone: a refund keeps
`HeldMatchesLedger` only if the parts of the payment add up, and keeps the final
statuses only if a collaboration waiting for payment has none. It is kept by every
step but one: an award that is written for a payment it has not read. So
`HeldIsLedger`, `EarningsAreRecorded` and `RevenueIsLedger` are about the behaviours
in which no award is stale (`[][AwardsCurrent]_vars`).

Of the code as it is, stale awards included, the weaker `StaleInv` is inductive: the
entries of a payment add up to its amount and its status fits the collaboration's
(`Accounted`); what an award in flight has read is of the same amount, with no more
refunded than is now (`ReadSound`); and a payment that is not settled is still
`Consistent`, since an award settles whatever it hits. From it follow, without any
assumption, `MoneyIsNotLost`, `StatusFollowsMoney` and `HeldStaysBacked`: a payment
that can still be released, refunded or awarded is exactly what the ledger holds for
it. The damage of the `award_race` defect is thereby confined to settled rows.

**The promise** (`EscrowPromise_proofs`). `ResettledOnlyByAwards`: stale awards
included, a settled payment of which no award is in flight never changes again, and
no award of it begins. While no award is stale, `SettlementIsFinal`, and
`EscrowKeepsPromise`: each step of `Escrow` is a step of `Custody` or a stutter, under
`held = creator + fee of a held payment`, `paid = available + earned`, `returned`.
`SerialAwardsSuffice`: with awards that do not commit on stale reads, all of it
holds without condition; this is what a `SERIALIZABLE` `resolveAward` would give.

**Delivery** (`Delivery_proofs`). `DeliveryImplementsEscrow`: each step of the
delivery services is an `Escrow` step or leaves it alone. So all the above holds of
the whole: `DeliveryConservesMoney` and `DeliveryKeepsLedger` without assumption,
`DeliveryKeepsPromise` and `DeliverySettlesOnce` while no award is stale. Of the
delivery services' own state, the inductive `DeliveryInv` says what a decision that
waits to be written, a review that has counted, a moderation or a retention check may
rely on: the deliverable it is about exists and, where it is
sent back, is within the revision limit; and a pending release has work behind it
(deliverables are only added and keep their versions, `Grown`). So `DeliveryTypeCorrect`, with the revision limit of
the contract, and `ReleasePaysWork`: only an award pays a creator who delivered
nothing.

**Negotiation** (`Negotiation_proofs`). `NoProposalLost`, `SignedTermsWereAgreed`,
`ActiveContractIsSigned` and `NegotiationTypeCorrect`, for any terms, versions and
requests in flight. The inductive `NegotiationInv` adds what a request in flight may
rely on (`CallSound`): the version it has read exists, still has the terms it had
and is still locked. That holds because versions only grow (`VersionsGrow`), which
is proved once of every write. `InStep` is what holds besides while nothing has
raced: contract and collaboration have the same terms from PENDING_APPROVAL on.

**Outbox** (`Outbox_proofs`). `NoEventLost`, `GivenUpLate`, `ClaimsUnsettled` and
`OutboxTypeCorrect`, for any number of events and workers and any limits. The
inductive `OutboxInv` is about what workers hold: a result that is ok was delivered;
a snapshot, however stale, counts no more failures than there were and was taken
below the limit; and a row is dead exactly when its count is at the limit.

**Services** (`Services_proofs`). For each of them an inductive invariant made of
its type, the property, and what the requests in flight may rely on:

- `TopUpInv`: a reconciliation that works from *paid* has a paid session. So
  `TopUpsCreditedAsPaid`.
- `PayoutInv`: debits of a payout are bounded by its transfers that were reported;
  its transfers, the claims still to be sent and the payout itself while it is
  PENDING are together at most one more than the times it was reopened (`Counted`):
  a claim is worth one transfer. So `TransfersDebitedOnce` and `TransfersAreDecided`.
- `AcceptanceInv`: while a proposal has the version a request has read, and is not
  deleted, it is in a status the request was decided on (`CallOK`). So `AcceptedIsConnected`, and with it each step maps to a
  step of `Engagement` or a stutter (`EngagementStep`), which is
  `AcceptanceImplementsEngagement`.
- `ReviewsInv`: what a request that will reveal or publish has seen of the
  counterpart is still so: reviews are never deleted, approvals stay in the history.
  So `NothingShownByOne`.
- `SocialInv`: the synchronisations of a row (`Busy`) are at most one and one more
  for each reconnection; while the row can be claimed, at most the reconnections.
  So `ConnectedAndSyncedOnce` and `NoOrphanedSync`.
- `LeasesInv`, `EventDeliveryInv`: so `RunsHoldTheLease` and `NobodyNotifiedTwice`.
- `SessionsInv`, in two parts (`TokensInv`, `RecoveryInv`): so `FamilyHasOneToken`
  and `PasswordRecoveredOnce`.
- `ClientInv`: a token that a restore still carries is held by nobody else
  (`TokensHeld`); a refresh is for the account of the token it was started with, and
  what waits for it is of that account while the token is the same (`OnePerson`).
  So `TabStaysWithOnePerson`.

All of them together, in one step relation: `ServicesTypeCorrect`.

Four theorems are the safety side of a liveness property: what must happen is never
cut off from happening. `AcceptedWorkStaysDue`: accepted work that is not paid stays
what the lifecycle job looks for, whatever the other services write (of
`AcceptedIsPaid`). `SettledEventsStay`: an event that is settled, and of which no
worker has a snapshot, is settled for good (of `EventuallySettled`). `PaidStaysCreditable`: a payment that was
completed at the provider and not credited is still one the webhook would credit,
unless a provider call of it failed (of `PaidIsCredited`). `EventIsNotLost`: a
published event that is neither handled nor given up has a copy in the queue, with a
consumer, or in the delay queue it waits in (of `EventSettles`). What is left to the fairness assumptions
is that those steps are taken.

**Only model-checked.** Liveness itself: `AcceptedIsPaid`, `EventuallySettled`,
`PaidIsCredited`, `EveryReviewRevealed`, `JobIsRun`, `EventSettles`, which is out of
the prover's reach.

## 5. Abstractions

- Amounts are whole hundredths and percentages whole numbers. The half-ulp errors
  of binary floating point in `Math.round(x * 100) / 100` and fractional
  percentages of a split are left out.
- In `Escrow` the refund percentage is any the policy may name; `Delivery` ties it
  to whether work has started, which workspace tasks may also decide.
- TrustCase statuses OPEN, UNDER_REVIEW and ESCALATED are one, as are RESOLVED
  and DISMISSED: the code's guards do not tell them apart.
- One proof of publication per collaboration. The write of a retention failure,
  several statements in one transaction, is one step.
- Row locks are kept for the reviews of a deliverable (`Locked`), where a count lies
  between the update and the commit. Other transactions of the delivery services are
  one step at their commit.
- One award in flight per dispute: a second one posts the same ledger batch
  (`wallet-dispute:<id>`), which the ledger refuses.
- `Escrow` starts where the contract is ACTIVE and the collaboration
  PAYMENT_PENDING. Stale writes that take a funded collaboration back
  (`contract.service.js:166`) are in `Negotiation` and not composed with `Escrow`.
- In `Negotiation` the rows of one `load` are read at once, and the statements of a
  write commit at once: two approvals of one version meet on its row, and two new
  versions on their unique number. The version a client sends with its request is
  the one the request has read: an older one is refused, and there is no newer one.
- `Outbox`: `lastError` and the length of the backoff are left out.
- `EventDelivery`: RabbitMQ with durable queues, the events of one routing key, and
  an aggregate that exists when the consumer looks for it. Delay queues of two
  routing keys collide (`rabbitmq-broker.js:46`); what the closed channel then does
  belongs to the client library.
- `TopUp`: a session can be paid only by who has its url, so only once it is stored
  can it expire unpaid. An expired session is not an event the webhook accepts.
- `Payout`: one payment. The freeze policy and the minimum are checks in front of a
  request and left out; each `createPayout` call gets a reference of its own.
- `Acceptance`: edits of a campaign's text, shortlists and comparisons are left out.
  The version a client may send with a proposal (`proposal.service.js:101,184`) is the
  one its request has read, as in `Negotiation`: an older one is refused by the `where`
  of the write, and a client that guesses a number no row has had yet is left out.
- `Reviews`: rating aggregates, reactions and the approved deliverable a Showcase
  post needs are left out.
- `SocialSync`: one channel and platform, whose answers are a choice.
- `Leases`: JobRun rows are a log and left out.
- `Sessions`: expiry, the limit of attempts and the lock after failed passwords only
  refuse requests and are left out. Ending sessions may miss the successor a
  concurrent refresh commits, as `READ COMMITTED` allows.
- `ClientSession`: the refresh token is a cookie that all tabs write, so it is of any
  account at any time and needs no variable. The effects of a new user run with the
  render that shows it. The retry of `/auth/me`'s own 401, requests of visitors who
  are not signed in, and the realtime socket are left out.

`TabOfOnePerson` stops where `mixed` becomes true: `ClientMoves` of `MCServices` takes
no step that mixes, which acts on the tab like a state constraint. No liveness is
claimed of the tab, so nothing else depends on it, but the claim does not cover three
things the client does:

- a 401 that comes back for a request of an earlier user, after another has signed
  in, starts a refresh with the new user's token and is sent again as the new user.
  `src/frontend/tests/axios-refresh-race.test.js:53` tests the other order, in which
  the refresh was already running;
- `syncUser`, called when a profile was saved, shows the user of the answer whoever
  is signed in by then;
- a refresh finds whatever account the shared cookie has by then and does not
  compare it with the user shown.

Met while reading, and in no model: a failing refresh of a visitor raises
`authVersion` and drops a sign-in in flight; the mutations of
`DashboardDataProvider` do not compare the user as `CollaborationProvider` does; in
`MessagingPages` the answer of a fetch overwrites messages that arrived in between,
and a sent message is added to the thread open by then; `messaging.service.js` may
write a new body over a message deleted since it was read; and
`reconciliation.service.js` compares `funding.succeeded` events with `ESCROW_FUNDED`
entries, while a top-up posts `TOP_UP`, so that a period with top-ups is reported as
mismatched.

## 6. Not modelled, and the plan

Not modelled:

- pages, forms and the other providers of the frontend, which are most of the
  repository's lines: they render rows and call the API;
- messaging and realtime fan-out, profiles, content, discovery, media, analytics and
  SEO, tasks and files of the workspace, preferences and platform settings: edits
  and queries of single rows with no protocol of their own;
- the clean-up of expired records, the analytics rollup, the cache and the
  reconciliation report: single statements, or reads;
- retries inside the BullMQ and memory brokers, which are a library's and a loop's;
- provider-funded payments, which nothing starts any more;
- registration and its code, which repeat the recovery code's protocol.

What is modelled is a small share of the lines and most of the places where two
actors meet on one row.

Left on the plan:

1. the lifecycle job's limit of 100, with a queue of candidates
   (`lifecycle.repository.js:9`), which `AcceptedIsPaid` assumes away;
2. `Negotiation` composed with `Escrow`: what a stale write does to a collaboration
   that is funded;
3. `EventDelivery` composed with `Outbox`: an event handled in the end from the
   transaction that emits it.
