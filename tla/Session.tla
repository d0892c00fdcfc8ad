-------------------------------- MODULE Session --------------------------------
(***************************************************************************)
(* Being signed in (web/src/auth.ts and api.ts): the OIDC client keeps and *)
(* renews the tokens, the session store holds the current one, every       *)
(* request sends it, and a rejected one ends the session.  The page can be *)
(* reloaded at any time, Keycloak can be down.  The OIDC client is         *)
(* external: it renews when a token is about to expire, and announces that *)
(* a user was loaded, unloaded, or has expired.                            *)
(***************************************************************************)
EXTENDS Integers, Sequences

CONSTANTS
  Life,         \* of an access token, in ticks of 5 s
  RenewBefore,  \* how long before its end it is renewed
  MaxTime,      \* bound on the clock
  MaxTokens,    \* bound: how many tokens are issued
  Calls         \* the requests the page has under way

ASSUME LifeAssumption == Life \in Nat /\ RenewBefore \in 1 .. Life - 1

(* Tokens are numbered as they are issued; 0 is none. *)
VARIABLES
  issued,      \* when each token was issued
  kept,        \* the token the OIDC client keeps, with its refresh token
  session,     \* the token in the session store
  renewal,     \* "loading" (initAuth), "off", "armed", "asked", "later" or "retry" (the timer of retryRenewal)
  removing,    \* is removeUser under way?
  call,        \* the token each request was sent with
  keycloak,    \* is it up?
  time,
  lastOutage   \* history: when Keycloak was last down
sessionVars == <<issued, kept, session, renewal, removing, call, keycloak, time, lastOutage>>

SessionInit ==
  /\ issued = <<0>>
  /\ kept = 1 /\ session = 0
  /\ renewal = "loading" /\ removing = FALSE
  /\ call = [c \in Calls |-> 0]
  /\ keycloak \in BOOLEAN
  /\ time = 0 /\ lastOutage = 0

Expires(token) == issued[token] + Life
Expired(token) == time >= Expires(token)

(* sessionStore.set, and the listener that forgets the tokens on the       *)
(* change from signed in to signed out.                                    *)
SetAlone(token) == session' = token /\ UNCHANGED removing   \* mutant: the tokens are kept
Set(token) ==
  /\ session' = token
  /\ removing' = (removing \/ (session # 0 /\ token = 0))

(* initAuth: the token that is kept, or a new one for the refresh token.   *)
Restore ==
  /\ renewal = "loading"
  /\ IF kept = 0 THEN renewal' = "off" /\ UNCHANGED <<session, removing>>
     ELSE IF Expired(kept) THEN renewal' = "asked" /\ UNCHANGED <<session, removing>>
     ELSE Set(kept) /\ renewal' = "armed"
  /\ UNCHANGED <<issued, kept, call, keycloak, time, lastOutage>>

(* The client asks once, shortly before the token expires. *)
RenewalDue == renewal = "armed" /\ kept # 0 /\ time >= Expires(kept) - RenewBefore
Renew ==
  /\ RenewalDue
  /\ renewal' = IF Expired(kept) THEN "off" ELSE "asked"
  /\ UNCHANGED <<issued, kept, session, removing, call, keycloak, time, lastOutage>>

(* addUserLoaded. *)
Renewed ==
  /\ renewal = "asked"
  /\ keycloak
  /\ Len(issued) < MaxTokens
  /\ issued' = Append(issued, time)
  /\ kept' = Len(issued')
  /\ Set(Len(issued'))
  /\ renewal' = "armed"
  /\ UNCHANGED <<call, keycloak, time, lastOutage>>

(* addSilentRenewError: once more in 5 s.  When it was initAuth that       *)
(* asked, the tokens are removed.                                          *)
AfterErrorNothing == "off"   \* mutant: the client gives up
AfterError == "later"
RenewalFailed ==
  /\ renewal = "asked"
  /\ ~keycloak
  /\ IF session = 0 THEN renewal' = "off" /\ removing' = TRUE
     ELSE renewal' = AfterError /\ UNCHANGED removing
  /\ UNCHANGED <<issued, kept, session, call, keycloak, time, lastOutage>>

(* retryRenewal: too late when there are no tokens, or they expired. *)
RetryRenewal ==
  /\ renewal = "retry"
  /\ renewal' = IF kept = 0 \/ Expired(kept) THEN "off" ELSE "asked"
  /\ UNCHANGED <<issued, kept, session, removing, call, keycloak, time, lastOutage>>

(* addAccessTokenExpired. *)
ExpiryDue == session # 0 /\ session = kept /\ Expired(kept)
TokenExpired ==
  /\ ExpiryDue
  /\ Set(0)
  /\ UNCHANGED <<issued, kept, renewal, call, keycloak, time, lastOutage>>

(* removeUser, and addUserUnloaded. *)
RemoveUser ==
  /\ removing
  /\ kept' = 0
  /\ session' = 0 /\ removing' = (session # 0)
  /\ UNCHANGED <<issued, renewal, call, keycloak, time, lastOutage>>

-----------------------------------------------------------------------------
(* What the page waits for takes less than a tick; a request may take more. *)
Settled == renewal \notin {"loading", "asked", "retry"} /\ ~removing

SendCall(c) ==
  /\ call[c] = 0 /\ session # 0
  /\ call' = [call EXCEPT ![c] = session]
  /\ UNCHANGED <<issued, kept, session, renewal, removing, keycloak, time, lastOutage>>

(* The gateway and the services reject an expired token; the page forgets  *)
(* the session it has when the answer arrives.                             *)
CallAnswered(c) ==
  /\ call[c] # 0
  /\ call' = [call EXCEPT ![c] = 0]
  /\ IF Expired(call[c]) /\ session # 0 THEN Set(0) ELSE UNCHANGED <<session, removing>>
  /\ UNCHANGED <<issued, kept, renewal, keycloak, time, lastOutage>>

ReloadPage ==
  /\ session' = 0 /\ renewal' = "loading" /\ removing' = FALSE
  /\ call' = [c \in Calls |-> 0]
  /\ UNCHANGED <<issued, kept, keycloak, time, lastOutage>>

(* The redirect to Keycloak and back: a new page with a new token.         *)
SignIn ==
  /\ session = 0 /\ Settled
  /\ keycloak
  /\ Len(issued) < MaxTokens
  /\ issued' = Append(issued, time)
  /\ kept' = Len(issued') /\ session' = Len(issued')
  /\ renewal' = "armed"
  /\ call' = [c \in Calls |-> 0]
  /\ UNCHANGED <<removing, keycloak, time, lastOutage>>

(* signoutRedirect, which forgets the tokens before it leaves the page.    *)
SignOut ==
  /\ session # 0
  /\ removing' = TRUE
  /\ UNCHANGED <<issued, kept, session, renewal, call, keycloak, time, lastOutage>>

KeycloakChanges ==
  /\ keycloak' = ~keycloak
  /\ lastOutage' = time
  /\ UNCHANGED <<issued, kept, session, renewal, removing, call, time>>

Tick5s ==
  /\ Settled /\ ~RenewalDue /\ ~ExpiryDue
  /\ time < MaxTime
  /\ time' = time + 1
  /\ renewal' = IF renewal = "later" THEN "retry" ELSE renewal
  /\ lastOutage' = IF keycloak THEN lastOutage ELSE time'
  /\ UNCHANGED <<issued, kept, session, removing, call, keycloak>>

SessionNext ==
  \/ Restore \/ Renew \/ Renewed \/ RenewalFailed \/ RetryRenewal \/ TokenExpired \/ RemoveUser
  \/ \E c \in Calls : SendCall(c) \/ CallAnswered(c)
  \/ ReloadPage \/ SignIn \/ SignOut \/ KeycloakChanges \/ Tick5s

SessionSpec == SessionInit /\ [][SessionNext]_sessionVars

-----------------------------------------------------------------------------
(* "A Keycloak replica that is just restarting must not sign the user out: *)
(* keep trying every 5 s while the token is still valid": a session runs   *)
(* out only if Keycloak was down in the last five seconds of its token.    *)
OutlivesOutages ==
  [][session # 0 /\ session' = 0 /\ renewal' # "loading" /\ Expired(session) =>
       lastOutage >= time - 1]_sessionVars

(* The page and the OIDC client agree whenever nothing is under way: a     *)
(* page that is signed out keeps no tokens a reload would restore, and one *)
(* that is signed in sends the token that is renewed - rejections,         *)
(* removals and renewals may overtake each other.                          *)
TokensFitSession == Settled => session = kept
=============================================================================
