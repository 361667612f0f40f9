------------------------------ MODULE Sessions -------------------------------
(* One user's sign-in sessions and password recovery.                         *)
(*                                                                            *)
(* A sign-in starts a family of refresh tokens; each refresh replaces the     *)
(* family's token by a new one.  sessionVersion is raised whenever sessions   *)
(* are ended; access, reset and confirmation tokens carry the version they    *)
(* were signed with.  Requests read first and write in a later transaction,   *)
(* so what they read may be gone; expiry only refuses requests and is left    *)
(* out, as is the lock after failed passwords.                                *)
EXTENDS Naturals, FiniteSets

CONSTANTS
  Family,       \* sign-ins of the user
  Call,         \* concurrent requests
  MaxTokens,    \* bound: tokens of a family
  MaxCodes,     \* bound: recovery codes
  MaxSession    \* bound: sessionVersion

ASSUME SessionsAssumption ==
  MaxTokens \in Nat /\ MaxCodes \in Nat /\ MaxSession \in Nat

Token   == Family \X (1..MaxTokens)
Code    == 1..MaxCodes
Version == 0..MaxSession

VARIABLES
  issued,       \* [Family -> 0..MaxTokens]: tokens created, the last by number
  live,         \* tokens with revokedAt null
  session,      \* sessionVersion of the user
  codesSent,    \* recovery codes created so far
  openCodes,    \* codes with consumedAt null
  work,         \* [Call -> Work]: what a request has read and will act on
  granted,      \* history: [Code -> Nat], reset tokens given for a code
  resetTokens,  \* versions that a reset token carries
  resets        \* history: [Version -> Nat], passwords set from a version

sessionVars == <<issued, live, session, codesSent, openCodes, work, granted,
                 resetTokens, resets>>

Work == [kind : {"none"}]
        \cup [kind : {"refresh", "reuse", "logout"}, token : Token]
        \cup [kind : {"replace"}, seen : SUBSET Code]
        \cup [kind : {"verify"}, code : Code, version : Version]
        \cup [kind : {"reset"}, version : Version]
NoWork == [kind |-> "none"]

SessionsTypeOK ==
  /\ issued \in [Family -> 0..MaxTokens]
  /\ live \subseteq Token
  /\ session \in Version
  /\ codesSent \in 0..MaxCodes
  /\ openCodes \subseteq 1..codesSent
  /\ work \in [Call -> Work]
  /\ granted \in [Code -> Nat]
  /\ resetTokens \subseteq Version
  /\ resets \in [Version -> Nat]

SessionsInit ==
  /\ issued = [f \in Family |-> 0]
  /\ live = {}
  /\ session = 0
  /\ codesSent = 0
  /\ openCodes = {}
  /\ work = [c \in Call |-> NoWork]
  /\ granted = [k \in Code |-> 0]
  /\ resetTokens = {}
  /\ resets = [v \in Version |-> 0]

-----------------------------------------------------------------------------
Begin(c, w) ==
  /\ work[c] = NoWork
  /\ work' = [work EXCEPT ![c] = w]
  /\ UNCHANGED <<issued, live, session, codesSent, openCodes, granted, resetTokens, resets>>

Done(c) == work' = [work EXCEPT ![c] = NoWork]

(* The request is cut off between its read and its write. *)
CallStops(c) ==
  /\ work[c] # NoWork
  /\ Done(c)
  /\ UNCHANGED <<issued, live, session, codesSent, openCodes, granted, resetTokens, resets>>

(* Sessions are ended: the update does not see a successor that a refresh     *)
(* commits while it runs.                                                     *)
EndSessions(ended) ==
  /\ session < MaxSession
  /\ session' = session + 1
  /\ live' \in {live \ ended, live \ {t \in ended : t[2] = 1}}

(* login, googleLogin and verifyEmail end with a token of a new family. *)
SignIn(f) ==
  /\ issued[f] = 0 /\ MaxTokens > 0
  /\ issued' = [issued EXCEPT ![f] = 1]
  /\ live' = live \cup {<<f, 1>>}
  /\ UNCHANGED <<session, codesSent, openCodes, work, granted, resetTokens, resets>>

(* refresh reads the record of the token it is given: one that is revoked is  *)
(* a reuse, a live one will be rotated.                                       *)
ReadToken(c, t) ==
  /\ t[2] <= issued[t[1]]
  /\ Begin(c, [kind |-> IF t \in live THEN "refresh" ELSE "reuse", token |-> t])

(* Mutant: the old token is revoked whether or not somebody has done so. *)
RotatableAlways(t) == TRUE

(* updateMany where revokedAt null *)
Rotatable(t) == t \in live

(* rotateAuthToken revokes the token and creates its successor; a request     *)
(* that lost the race goes on to end the family.                              *)
Rotate(c) ==
  LET t == work[c].token
      f == t[1]
  IN
  /\ work[c].kind = "refresh"
  /\ \/ /\ Rotatable(t) /\ issued[f] < MaxTokens
        /\ issued' = [issued EXCEPT ![f] = @ + 1]
        /\ live' = (live \ {t}) \cup {<<f, issued[f] + 1>>}
        /\ Done(c)
     \/ /\ ~Rotatable(t)
        /\ work' = [work EXCEPT ![c].kind = "reuse"]
        /\ UNCHANGED <<issued, live>>
  /\ UNCHANGED <<session, codesSent, openCodes, granted, resetTokens, resets>>

InvalidateFamily(c) ==
  /\ work[c].kind = "reuse"
  /\ EndSessions({t \in live : t[1] = work[c].token[1]})
  /\ Done(c)
  /\ UNCHANGED <<issued, codesSent, openCodes, granted, resetTokens, resets>>

ReadLogout(c, t) == t \in live /\ Begin(c, [kind |-> "logout", token |-> t])

Logout(c) ==
  /\ work[c].kind = "logout"
  /\ live' = live \ {work[c].token}
  /\ Done(c)
  /\ UNCHANGED <<issued, session, codesSent, openCodes, granted, resetTokens, resets>>

(* logoutAll; a changed password and a deleted account do the same. *)
LogoutAll ==
  /\ EndSessions(live)
  /\ UNCHANGED <<issued, codesSent, openCodes, work, granted, resetTokens, resets>>

-----------------------------------------------------------------------------
(* forgotPassword may send a new code. *)
ReadCodes(c) == codesSent < MaxCodes /\ Begin(c, [kind |-> "replace", seen |-> openCodes])

(* replaceVerificationCode: the invalidation does not see a code that another *)
(* request commits meanwhile, so both stay open.                              *)
ReplaceCode(c) ==
  /\ work[c].kind = "replace"
  /\ codesSent < MaxCodes
  /\ codesSent' = codesSent + 1
  /\ openCodes' = (openCodes \ work[c].seen) \cup {codesSent + 1}
  /\ Done(c)
  /\ UNCHANGED <<issued, live, session, granted, resetTokens, resets>>

(* The mail could not be sent. *)
CodeNotSent(k) ==
  /\ k \in openCodes
  /\ openCodes' = openCodes \ {k}
  /\ UNCHANGED <<issued, live, session, codesSent, work, granted, resetTokens, resets>>

(* verifyCode compares with the latest open code. *)
ReadCode(c) ==
  \E k \in openCodes :
    /\ \A other \in openCodes : other <= k
    /\ Begin(c, [kind |-> "verify", code |-> k, version |-> session])

(* Mutant: the code is consumed whether or not somebody has done so. *)
ConsumableAlways(k) == TRUE

(* updateMany where consumedAt null *)
Consumable(k) == k \in openCodes

(* consumeResetCode; the token is signed with the version of the user as read *)
ConsumeCode(c) ==
  LET k == work[c].code IN
  /\ work[c].kind = "verify"
  /\ IF Consumable(k)
       THEN /\ openCodes' = openCodes \ {k}
            /\ granted' = [granted EXCEPT ![k] = @ + 1]
            /\ resetTokens' = resetTokens \cup {work[c].version}
       ELSE UNCHANGED <<openCodes, granted, resetTokens>>
  /\ Done(c)
  /\ UNCHANGED <<issued, live, session, codesSent, resets>>

ReadReset(c) ==
  /\ session \in resetTokens
  /\ Begin(c, [kind |-> "reset", version |-> session])

(* updateMany where sessionVersion is the token's *)
Resettable(v) == session = v

ResetPassword(c) ==
  LET v == work[c].version IN
  /\ work[c].kind = "reset"
  /\ \/ Resettable(v) /\ EndSessions(live) /\ resets' = [resets EXCEPT ![v] = @ + 1]
     \/ ~Resettable(v) /\ UNCHANGED <<session, live, resets>>
  /\ Done(c)
  /\ UNCHANGED <<issued, codesSent, openCodes, granted, resetTokens>>

SessionsNext ==
  \/ \E f \in Family : SignIn(f)
  \/ \E c \in Call, t \in Token : ReadToken(c, t) \/ ReadLogout(c, t)
  \/ \E c \in Call :
       \/ CallStops(c) \/ Rotate(c) \/ InvalidateFamily(c) \/ Logout(c)
       \/ ReadCodes(c) \/ ReplaceCode(c) \/ ReadCode(c) \/ ConsumeCode(c)
       \/ ReadReset(c) \/ ResetPassword(c)
  \/ LogoutAll
  \/ \E k \in Code : CodeNotSent(k)

SessionsSpec == SessionsInit /\ [][SessionsNext]_sessionVars

-----------------------------------------------------------------------------
(* Of a family at most the token issued last is live, however refreshes,      *)
(* sign-outs and the ending of a family overlap: two tabs never both hold a   *)
(* token that goes on (auth.repository.js rotateAuthToken).                   *)
OneLiveToken == \A t \in live : t[2] = issued[t[1]]

(* A recovery code gives one reset token, and of the tokens that carry one    *)
(* version one sets the password: the version moves with it (consumeResetCode,*)
(* resetPasswordAndRevokeSessions).                                           *)
RecoveredOnce ==
  /\ \A k \in Code : granted[k] + (IF k \in openCodes THEN 1 ELSE 0) <= 1
  /\ \A v \in Version : resets[v] <= IF v < session THEN 1 ELSE 0
==============================================================================
