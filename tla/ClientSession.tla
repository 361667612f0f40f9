---------------------------- MODULE ClientSession ----------------------------
(* One browser tab of the React client, from a page load on: whose access     *)
(* token it holds, which user it shows, and whose data.                       *)
(*                                                                            *)
(* Access tokens live in memory.  The refresh token is a cookie: all tabs     *)
(* share it and every answer to a sign-in, a refresh or a sign-out in any of  *)
(* them writes it, so it may be of any account, or of none, at any time.      *)
(* The tab guards itself three times against late answers: sign-ins and the   *)
(* restore compare a version of the session, a refresh compares the token it  *)
(* was started with, and data compares the user it was asked for.             *)
EXTENDS Naturals, Sequences

CONSTANTS
  Person,       \* accounts
  Nobody,
  AuthAction,   \* sign-ins and the restore in flight at once
  ApiCall,      \* other requests in flight at once
  MaxAccess     \* bound: access tokens the tab is given

ASSUME ClientAssumption == Nobody \notin Person /\ MaxAccess \in Nat

VARIABLES
  tokenOf,      \* sequence: the account of each access token
  token,        \* tokenStore: the number of the token, 0 for none
  shownUser,    \* user of AuthProvider
  authCall,     \* [AuthAction -> AuthRow]
  refreshing,   \* refreshAttempt: {} or one refresh that all requests share
  apiCall,      \* [ApiCall -> ApiRow]
  items,        \* accounts whose rows CollaborationProvider holds
  dataOwner,    \* account it loaded them for
  mixed         \* history: an unguarded answer met another account (below)

clientVars == <<tokenOf, token, shownUser, authCall, refreshing, apiCall,
                items, dataOwner, mixed>>

Access   == 0..MaxAccess
AuthRow  == [kind : {"none", "restore", "me", "signIn"},
             person : Person \cup {Nobody}, token : Access, current : BOOLEAN]
ApiRow   == [kind : {"none", "load", "action", "profile"}, person : Person \cup {Nobody},
             token : Access, waiting : BOOLEAN, retried : BOOLEAN, current : BOOLEAN]
Refresh  == [person : Person \cup {Nobody}, token : Access]

NoAuth == [kind |-> "none", person |-> Nobody, token |-> 0, current |-> FALSE]
NoApi  == [kind |-> "none", person |-> Nobody, token |-> 0, waiting |-> FALSE,
           retried |-> FALSE, current |-> FALSE]

ClientTypeOK ==
  /\ tokenOf \in Seq(Person) /\ Len(tokenOf) <= MaxAccess
  /\ token \in 0..Len(tokenOf)
  /\ shownUser \in Person \cup {Nobody}
  /\ authCall \in [AuthAction -> AuthRow]
  /\ refreshing \in {{}} \cup {{a} : a \in Refresh}
  /\ apiCall \in [ApiCall -> ApiRow]
  /\ items \subseteq Person
  /\ dataOwner \in Person \cup {Nobody}
  /\ mixed \in BOOLEAN

(* The page is loaded, and AuthProvider asks for the session of the cookie. *)
ClientInit ==
  /\ tokenOf = <<>> /\ token = 0 /\ shownUser = Nobody
  /\ \E c \in AuthAction, p \in Person \cup {Nobody} :
       authCall = [x \in AuthAction |-> IF x = c
         THEN [kind |-> "restore", person |-> p, token |-> 0, current |-> TRUE]
         ELSE NoAuth]
  /\ refreshing = {}
  /\ apiCall = [r \in ApiCall |-> NoApi]
  /\ items = {} /\ dataOwner = Nobody
  /\ mixed = FALSE

-----------------------------------------------------------------------------
(* A new user in the state of AuthProvider: loads in flight are superseded,   *)
(* and rows of another owner are dropped before anything is asked for.        *)
Shows(p) ==
  /\ shownUser' = p
  /\ apiCall' = [r \in ApiCall |-> [apiCall[r] EXCEPT !.current = FALSE]]
  /\ items' = IF dataOwner = p /\ p # Nobody THEN items ELSE {}
  /\ dataOwner' = IF dataOwner = p THEN p ELSE Nobody

ShowsNothingNew == UNCHANGED <<token, shownUser, apiCall, items, dataOwner>>

(* authVersion is raised: whatever was in flight is not current any more. *)
Superseded(calls) == [c \in AuthAction |-> [calls[c] EXCEPT !.current = FALSE]]

Finished(c) == [authCall EXCEPT ![c] = NoAuth]

ResetAuth(calls) ==
  /\ authCall' = Superseded(calls)
  /\ token' = 0
  /\ Shows(Nobody)

(* The tab is given a new access token. *)
Given(p) ==
  /\ Len(tokenOf) < MaxAccess
  /\ tokenOf' = Append(tokenOf, p)

Newest == Len(tokenOf) + 1

(* refreshSession: /auth/refresh, then /auth/me with the token it gave. *)
RestoreRefreshed(c) ==
  /\ authCall[c].kind = "restore" /\ authCall[c].person # Nobody
  /\ Given(authCall[c].person)
  /\ authCall' = [authCall EXCEPT ![c].kind = "me", ![c].token = Newest]
  /\ ShowsNothingNew /\ UNCHANGED <<refreshing, mixed>>

(* version === authVersion.current *)
StillCurrent(c) == authCall[c].current

Restored(c) ==
  /\ authCall[c].kind = "me"
  /\ \/ StillCurrent(c) /\ token' = authCall[c].token /\ Shows(authCall[c].person)
     \/ ~StillCurrent(c) /\ ShowsNothingNew
  /\ authCall' = Finished(c)
  /\ UNCHANGED <<tokenOf, refreshing, mixed>>

RestoreFails(c) ==
  /\ authCall[c].kind \in {"restore", "me"}
  /\ \/ StillCurrent(c) /\ ResetAuth(Finished(c))
     \/ ~StillCurrent(c) /\ authCall' = Finished(c) /\ ShowsNothingNew
  /\ UNCHANGED <<tokenOf, refreshing, mixed>>

(* login, loginWithGoogle and verifyEmail raise the version as they start. *)
SignInClicked(c, p) ==
  /\ authCall[c] = NoAuth
  /\ authCall' = [Superseded(authCall) EXCEPT ![c] =
                    [kind |-> "signIn", person |-> p, token |-> 0, current |-> TRUE]]
  /\ ShowsNothingNew /\ UNCHANGED <<tokenOf, refreshing, mixed>>

SignedIn(c) ==
  /\ authCall[c].kind = "signIn"
  /\ Given(authCall[c].person)
  /\ \/ StillCurrent(c) /\ token' = Newest /\ Shows(authCall[c].person)
     \/ ~StillCurrent(c) /\ ShowsNothingNew
  /\ authCall' = Finished(c)
  /\ UNCHANGED <<refreshing, mixed>>

SignInFails(c) ==
  /\ authCall[c].kind = "signIn"
  /\ authCall' = Finished(c)
  /\ ShowsNothingNew /\ UNCHANGED <<tokenOf, refreshing, mixed>>

(* logout forgets the session first and tells the server then; so does        *)
(* clearSession, after a new password or the deletion of the account.  The    *)
(* server's answer only clears the cookie.                                    *)
SignOut ==
  /\ shownUser # Nobody
  /\ ResetAuth(authCall)
  /\ UNCHANGED <<tokenOf, refreshing, mixed>>

-----------------------------------------------------------------------------
(* The page calls the API with the token of the moment: it loads the user's   *)
(* rows (which supersedes an earlier load), acts on them, or edits the        *)
(* profile.                                                                   *)
Send(r, kind) ==
  /\ apiCall[r] = NoApi /\ shownUser # Nobody
  /\ apiCall' = [x \in ApiCall |->
       IF x = r THEN [kind |-> kind, person |-> shownUser, token |-> token,
                      waiting |-> FALSE, retried |-> FALSE, current |-> TRUE]
       ELSE IF kind = "load" THEN [apiCall[x] EXCEPT !.current = FALSE]
       ELSE apiCall[x]]
  /\ UNCHANGED <<tokenOf, token, shownUser, authCall, refreshing, items,
                 dataOwner, mixed>>

Sent(r, kind) ==
  apiCall[r].kind = kind /\ ~apiCall[r].waiting /\ apiCall[r].token # 0
Data(r) == tokenOf[apiCall[r].token]
Answered(r) == apiCall' = [apiCall EXCEPT ![r] = NoApi]

(* version === reloadVersion.current *)
LoadCurrent(r) == apiCall[r].current

Loaded(r) ==
  /\ Sent(r, "load")
  /\ \/ LoadCurrent(r) /\ items' = {Data(r)} /\ dataOwner' = apiCall[r].person
     \/ ~LoadCurrent(r) /\ UNCHANGED <<items, dataOwner>>
  /\ Answered(r)
  /\ UNCHANGED <<tokenOf, token, shownUser, authCall, refreshing, mixed>>

(* runApi: the result of an action counts for the user who started it. *)
ActsForUser(r) == apiCall[r].person = shownUser

Acted(r) ==
  /\ Sent(r, "action")
  /\ items' = IF ActsForUser(r) THEN items \cup {Data(r)} ELSE items
  /\ Answered(r)
  /\ UNCHANGED <<tokenOf, token, shownUser, authCall, refreshing, dataOwner, mixed>>

(* syncUser shows the user of the answer and compares nothing. *)
ProfileSaved(r) ==
  /\ Sent(r, "profile")
  /\ mixed' = (mixed \/ apiCall[r].person # shownUser)
  /\ shownUser' = Data(r)
  /\ items' = IF dataOwner = Data(r) THEN items ELSE {}
  /\ dataOwner' = IF dataOwner = Data(r) THEN dataOwner ELSE Nobody
  /\ apiCall' = [x \in ApiCall |->
       IF x = r THEN NoApi ELSE [apiCall[x] EXCEPT !.current = FALSE]]
  /\ UNCHANGED <<tokenOf, token, authCall, refreshing>>

CallFails(r) ==
  /\ apiCall[r].kind # "none" /\ ~apiCall[r].waiting
  /\ Answered(r)
  /\ UNCHANGED <<tokenOf, token, shownUser, authCall, refreshing, items,
                 dataOwner, mixed>>

-----------------------------------------------------------------------------
(* A 401 sends the request to the one refresh that is running, or starts it   *)
(* with the token and the cookie of this moment: nobody looks whose request   *)
(* it was, or whose cookie p it is.                                           *)
Unauthorized(r, p) ==
  /\ apiCall[r].kind # "none" /\ ~apiCall[r].waiting /\ ~apiCall[r].retried
  /\ apiCall' = [apiCall EXCEPT ![r].waiting = TRUE]
  /\ refreshing' = IF refreshing = {} THEN {[person |-> p, token |-> token]}
                   ELSE refreshing
  /\ mixed' = (mixed \/ apiCall[r].person # shownUser
                     \/ (refreshing = {} /\ p \notin {shownUser, Nobody}))
  /\ UNCHANGED <<tokenOf, token, shownUser, authCall, items, dataOwner>>

(* Mutant: the session may have changed since the refresh was started. *)
SameTokenAlways(a) == TRUE

(* tokenStore.get() === attempt.accessToken *)
SameToken(a) == token = a.token

GiveUpWaiting == [r \in ApiCall |-> IF apiCall[r].waiting THEN NoApi ELSE apiCall[r]]

(* The token is stored and the requests are sent again with it, unless the    *)
(* session has changed (ERR_STALE_SESSION).                                   *)
Refreshed ==
  \E a \in refreshing :
    /\ a.person # Nobody
    /\ Given(a.person)
    /\ \/ /\ SameToken(a)
          /\ token' = Newest
          /\ apiCall' = [r \in ApiCall |-> IF apiCall[r].waiting
               THEN [apiCall[r] EXCEPT !.token = Newest, !.waiting = FALSE, !.retried = TRUE]
               ELSE apiCall[r]]
       \/ /\ ~SameToken(a)
          /\ apiCall' = GiveUpWaiting
          /\ UNCHANGED token
    /\ refreshing' = {}
    /\ UNCHANGED <<shownUser, authCall, items, dataOwner, mixed>>

(* The session has expired (vyra:auth-expired), unless it has changed. *)
RefreshFails ==
  \E a \in refreshing :
    /\ \/ /\ SameToken(a)
          /\ authCall' = Superseded(authCall)
          /\ token' = 0 /\ shownUser' = Nobody
          /\ items' = {} /\ dataOwner' = Nobody
          /\ apiCall' = [r \in ApiCall |-> [GiveUpWaiting[r] EXCEPT !.current = FALSE]]
       \/ /\ ~SameToken(a)
          /\ apiCall' = GiveUpWaiting
          /\ UNCHANGED <<authCall, token, shownUser, items, dataOwner>>
    /\ refreshing' = {}
    /\ UNCHANGED <<tokenOf, mixed>>

ClientNext ==
  \/ \E c \in AuthAction :
       \/ RestoreRefreshed(c) \/ Restored(c) \/ RestoreFails(c)
       \/ (\E p \in Person : SignInClicked(c, p)) \/ SignedIn(c) \/ SignInFails(c)
  \/ SignOut
  \/ \E r \in ApiCall :
       \/ \E kind \in {"load", "action", "profile"} : Send(r, kind)
       \/ Loaded(r) \/ Acted(r) \/ ProfileSaved(r) \/ CallFails(r)
       \/ \E p \in Person \cup {Nobody} : Unauthorized(r, p)
  \/ Refreshed \/ RefreshFails

ClientSpec == ClientInit /\ [][ClientNext]_clientVars

-----------------------------------------------------------------------------
(* The user the tab shows is the one its token signs in; a request is sent,   *)
(* and sent again after a refresh, only as the user who asked for it; and the *)
(* rows it shows are that user's: however restores, sign-ins, sign-outs,      *)
(* refreshes and answers overlap ("cannot replay an old request as the new    *)
(* user", tests/axios-refresh-race.test.js).  It holds until a 401 or a saved *)
(* profile comes back to another account than it left, or a refresh finds the *)
(* cookie of another account: nothing in the client looks at those (mixed).   *)
TabOfOnePerson ==
  ~mixed =>
    /\ shownUser # Nobody => token # 0 /\ tokenOf[token] = shownUser
    /\ \A r \in ApiCall :
         apiCall[r].kind # "none" =>
           apiCall[r].token # 0 /\ tokenOf[apiCall[r].token] = apiCall[r].person
    /\ shownUser # Nobody /\ dataOwner = shownUser => items \subseteq {shownUser}
==============================================================================
