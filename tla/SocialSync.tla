----------------------------- MODULE SocialSync ------------------------------
(* A channel's account on one social platform: connected through OAuth or     *)
(* entered by hand, synchronised on request and by a scheduled job, marked    *)
(* stale by the platform's webhook, disconnected by deleting its row.         *)
(*                                                                            *)
(* A synchronisation claims the row, talks to the platform, and writes its    *)
(* result by id; a connection upserts the row whatever its state.             *)
EXTENDS Naturals, FiniteSets

CONSTANTS
  OAuthState,    \* authorizations the user has started
  OAuthCall,     \* concurrent callbacks and selections
  Syncer,        \* concurrent synchronisations
  WebhookEvent,  \* webhook deliveries by content (the event hash)
  MaxRows        \* bound: rows created for the channel and platform

ASSUME SocialSyncAssumption == MaxRows \in Nat /\ IsFiniteSet(Syncer)

VARIABLES
  account,       \* the SocialAccount row; id 0 is none
  rows,          \* rows created so far
  oauth,         \* [OAuthState -> OAuthStatus]
  oauthCall,     \* [OAuthCall -> SUBSET OAuthState]: state a request works on
  connected,     \* history: [OAuthState -> Nat], connections made from a state
  syncing,       \* [Syncer -> 0..MaxRows]: row a synchronisation has claimed
  reconnected,   \* history: [1..MaxRows -> Nat], connections into an existing row
  stopped,       \* history: rows whose synchronisation was cut off by a crash
  received       \* webhook events stored; one is marked when it is handled

socialVars == <<account, rows, oauth, oauthCall, connected, syncing, reconnected,
                stopped, received>>

SyncStatus   == {"MANUAL", "SYNCING", "HEALTHY", "ERROR", "STALE", "REAUTH_REQUIRED"}
Account      == [id : 0..MaxRows, status : SyncStatus]
NoAccount    == [id |-> 0, status |-> "MANUAL"]
OAuthStatus  == {"NONE", "OPEN", "CONSUMED", "EXPIRED"}
WebhookState == {"NONE", "STORED", "HANDLED"}

SocialTypeOK ==
  /\ account \in Account
  /\ rows \in 0..MaxRows
  /\ oauth \in [OAuthState -> OAuthStatus]
  /\ oauthCall \in [OAuthCall -> SUBSET OAuthState]
  /\ connected \in [OAuthState -> Nat]
  /\ syncing \in [Syncer -> 0..MaxRows]
  /\ reconnected \in [1..MaxRows -> Nat]
  /\ stopped \subseteq 1..MaxRows
  /\ received \in [WebhookEvent -> WebhookState]

SocialInit ==
  /\ account = NoAccount
  /\ rows = 0
  /\ oauth = [s \in OAuthState |-> "NONE"]
  /\ oauthCall = [c \in OAuthCall |-> {}]
  /\ connected = [s \in OAuthState |-> 0]
  /\ syncing = [y \in Syncer |-> 0]
  /\ reconnected = [i \in 1..MaxRows |-> 0]
  /\ stopped = {}
  /\ received = [e \in WebhookEvent |-> "NONE"]

-----------------------------------------------------------------------------
(* authorize; older states of the user that are spent are cleaned up. *)
Authorize(s) ==
  /\ oauth[s] = "NONE"
  /\ oauth' = [oauth EXCEPT ![s] = "OPEN"]
  /\ UNCHANGED <<account, rows, oauthCall, connected, syncing, reconnected, stopped, received>>

StateExpires(s) ==
  /\ oauth[s] = "OPEN"
  /\ oauth' = [oauth EXCEPT ![s] = "EXPIRED"]
  /\ UNCHANGED <<account, rows, oauthCall, connected, syncing, reconnected, stopped, received>>

(* callback or selectAccount find the state usable, then ask the platform. *)
CallbackRead(c, s) ==
  /\ oauthCall[c] = {}
  /\ oauth[s] = "OPEN"
  /\ oauthCall' = [oauthCall EXCEPT ![c] = {s}]
  /\ UNCHANGED <<account, rows, oauth, connected, syncing, reconnected, stopped, received>>

(* updateMany where consumedAt null and not expired *)
ClaimableState(s) == oauth[s] = "OPEN"

(* The claim and the upsert are one transaction; a lost claim returns the     *)
(* account the winner connected.                                              *)
CompleteConnection(c) ==
  \E s \in oauthCall[c] :
    /\ oauthCall' = [oauthCall EXCEPT ![c] = {}]
    /\ \/ /\ ~ClaimableState(s)
          /\ UNCHANGED <<account, rows, oauth, connected, reconnected>>
       \/ /\ ClaimableState(s)
          /\ oauth' = [oauth EXCEPT ![s] = "CONSUMED"]
          /\ connected' = [connected EXCEPT ![s] = @ + 1]
          /\ \/ /\ account.id = 0 /\ rows < MaxRows
                /\ rows' = rows + 1
                /\ account' = [id |-> rows + 1, status |-> "HEALTHY"]
                /\ UNCHANGED reconnected
             \/ /\ account.id # 0
                /\ account' = [account EXCEPT !.status = "HEALTHY"]
                /\ reconnected' = [reconnected EXCEPT ![account.id] = @ + 1]
                /\ UNCHANGED rows
    /\ UNCHANGED <<syncing, stopped, received>>

(* The platform refuses, or the request is cut off. *)
CallbackFails(c) ==
  /\ oauthCall[c] # {}
  /\ oauthCall' = [oauthCall EXCEPT ![c] = {}]
  /\ UNCHANGED <<account, rows, oauth, connected, syncing, reconnected, stopped, received>>

(* createManual: one row for a channel and platform; updateManual changes     *)
(* nothing that is modelled.                                                  *)
CreateManual ==
  /\ account.id = 0 /\ rows < MaxRows
  /\ rows' = rows + 1
  /\ account' = [id |-> rows + 1, status |-> "MANUAL"]
  /\ UNCHANGED <<oauth, oauthCall, connected, syncing, reconnected, stopped, received>>

Disconnect ==
  /\ account.id # 0
  /\ account' = NoAccount
  /\ UNCHANGED <<rows, oauth, oauthCall, connected, syncing, reconnected, stopped, received>>

-----------------------------------------------------------------------------
(* Mutant: a row that is being synchronised can be claimed again. *)
SyncableAlways == account.id # 0 /\ account.status # "MANUAL"

(* claimSync, for a request or for syncStale. *)
Syncable == account.id # 0 /\ account.status \notin {"MANUAL", "SYNCING"}

ClaimSync(y) ==
  /\ syncing[y] = 0
  /\ Syncable
  /\ syncing' = [syncing EXCEPT ![y] = account.id]
  /\ account' = [account EXCEPT !.status = "SYNCING"]
  /\ UNCHANGED <<rows, oauth, oauthCall, connected, reconnected, stopped, received>>

(* Mutant: a row that needs a new authorization is left as it is. *)
FailedButReauth == {"ERROR", account.status}

FailedStatus == {"ERROR", "REAUTH_REQUIRED"}

(* completeSync and failSync write by id; a deleted row is not there to write *)
(* to, and nobody hears of it.                                                *)
FinishSync(y) ==
  /\ syncing[y] # 0
  /\ \E result \in {"HEALTHY"} \cup FailedStatus :
       account' = IF account.id = syncing[y] THEN [account EXCEPT !.status = result]
                  ELSE account
  /\ syncing' = [syncing EXCEPT ![y] = 0]
  /\ UNCHANGED <<rows, oauth, oauthCall, connected, reconnected, stopped, received>>

(* The process stops, or the database refuses the failure as well. *)
SyncStops(y) ==
  /\ syncing[y] # 0
  /\ stopped' = stopped \cup {syncing[y]}
  /\ syncing' = [syncing EXCEPT ![y] = 0]
  /\ UNCHANGED <<account, rows, oauth, oauthCall, connected, reconnected, received>>

(* The webhook stores an event once by its hash ... *)
StoreWebhook(e) ==
  /\ received[e] = "NONE"
  /\ received' = [received EXCEPT ![e] = "STORED"]
  /\ UNCHANGED <<account, rows, oauth, oauthCall, connected, syncing, reconnected, stopped>>

(* ... and marks the account; one that is SYNCING stays as it is.  The same   *)
(* event delivered again, also after a crash in between, is a duplicate.      *)
MarkStale(e) ==
  /\ received[e] = "STORED"
  /\ received' = [received EXCEPT ![e] = "HANDLED"]
  /\ account' = IF account.id # 0 /\ account.status \in {"HEALTHY", "ERROR", "STALE"}
                  THEN [account EXCEPT !.status = "STALE"] ELSE account
  /\ UNCHANGED <<rows, oauth, oauthCall, connected, syncing, reconnected, stopped>>

SocialNext ==
  \/ \E s \in OAuthState : Authorize(s) \/ StateExpires(s)
  \/ \E c \in OAuthCall :
       (\E s \in OAuthState : CallbackRead(c, s)) \/ CompleteConnection(c) \/ CallbackFails(c)
  \/ CreateManual \/ Disconnect
  \/ \E y \in Syncer : ClaimSync(y) \/ FinishSync(y) \/ SyncStops(y)
  \/ \E e \in WebhookEvent : StoreWebhook(e) \/ MarkStale(e)

SocialSpec == SocialInit /\ [][SocialNext]_socialVars

-----------------------------------------------------------------------------
(* An authorization makes one connection, however often its callback is       *)
(* repeated, and a connection has one synchronisation at a time: two of one   *)
(* row overlap only if the account was connected again under the first, which *)
(* makes the row HEALTHY, or the first was cut off (completeConnection's      *)
(* claim, claimSync).                                                         *)
OncePerConnection ==
  /\ \A s \in OAuthState : connected[s] <= 1
  /\ \A i \in 1..MaxRows :
       Cardinality({y \in Syncer : syncing[y] = i}) <= 1 + reconnected[i]

(* A row says SYNCING only while somebody is synchronising it, unless a       *)
(* process stopped: then nothing but a new connection brings it back, since   *)
(* claimSync and the stale scan both pass over it.                            *)
SyncingIsWorkedOn ==
  account.id # 0 /\ account.status = "SYNCING" =>
    account.id \in stopped \/ \E y \in Syncer : syncing[y] = account.id
==============================================================================
