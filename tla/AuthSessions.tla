------------------------------ MODULE AuthSessions ------------------------------
(***************************************************************************)
(* Local sign-in: the sessions, refresh tokens and access tokens of the    *)
(* API (src/backend/api/src/auth), and the tabs of the web app that use    *)
(* them.  Tabs of one browser share its cookie jar, and so the refresh     *)
(* token.                                                                  *)
(*                                                                         *)
(* A tab has at most one authentication request or API call in flight, so  *)
(* the single-flight refresh of inventory-api.ts is built in.  A request   *)
(* is cut at every await of the server between which another request can   *)
(* change what it read, and before its reply is delivered.                 *)
(***************************************************************************)
EXTENDS Integers, FiniteSets

CONSTANTS Users,
          Sessions,        \* identities of AuthSession rows
          Tabs,
          Browser,         \* the browser of each tab
          None,            \* null
          Lapses,          \* how sessions age: "idle", "expired"
          MaxVersion,      \* bound on User.authVersion
          MaxTokens        \* bound on the refresh tokens of a session

ASSUME AuthAssumption ==
  /\ Lapses \subseteq {"idle", "expired"}
  /\ MaxVersion \in Nat
  /\ MaxTokens \in Nat \ {0}
  /\ None \notin Users
  /\ None \notin Sessions

VARIABLES users,         \* User rows
          sessions,      \* AuthSession rows with their AuthRefreshToken rows
          jar,           \* the refresh cookie of each browser
          access,        \* the access token each tab holds
          request        \* what each tab has in flight

vars == <<users, sessions, jar, access, request>>

--------------------------------------------------------------------------------
(* Rows and messages *)

Browsers == {Browser[t] : t \in Tabs}

UserRows == [active : BOOLEAN, version : Nat]       \* authVersion

Reasons == {"refresh_token_reuse", "idle_timeout", "expired", "logout",
            "inactive_user", "account_changed"}

(* The refresh tokens of a session are numbered in the order of their issue. *)
SessionRows == [user : Users \cup {None},           \* None: no such row
                revoked : Reasons \cup {"no"},      \* revokedReason
                issued : Nat, used : SUBSET Nat,
                age : {"fresh", "idle", "expired"}]

Tokens == [session : Sessions, number : Nat]        \* refresh tokens
Claims == [session : Sessions, version : Nat]       \* access tokens (sid, av)

Idle == [kind |-> "none", step |-> "idle", user |-> None, session |-> None,
         number |-> 0, version |-> 0, read |-> {}, again |-> "none",
         valid |-> TRUE]

Kinds == {"login", "refresh", "api", "change", "logout"}
Steps == {"create", "rotateRead", "rotate", "checkUser", "guard", "granted",
          "change", "revokeCookie", "reply", "refused"}

RequestRows == [kind : Kinds \cup {"none"}, step : Steps \cup {"idle"},
                user : Users \cup {None}, session : Sessions \cup {None},
                number : Nat, version : Nat,
                read : SUBSET {"user", "session"},  \* what the guard has read
                again : {"none", "api", "change"},  \* the call to retry after a refresh
                valid : BOOLEAN]                    \* history: see Call

NoSession == [user |-> None, revoked |-> "no", issued |-> 0, used |-> {},
              age |-> "fresh"]

TypeOK ==
  /\ users \in [Users -> UserRows]
  /\ sessions \in [Sessions -> SessionRows]
  /\ jar \in [Browsers -> Tokens \cup {None}]
  /\ access \in [Tabs -> Claims \cup {None}]
  /\ request \in [Tabs -> RequestRows]

Init ==
  /\ users = [u \in Users |-> [active |-> TRUE, version |-> 0]]
  /\ sessions = [s \in Sessions |-> NoSession]
  /\ jar = [b \in Browsers |-> None]
  /\ access = [t \in Tabs |-> None]
  /\ request = [t \in Tabs |-> Idle]

--------------------------------------------------------------------------------
(* What the server does to its rows *)

Live(s) == sessions[s].user # None /\ sessions[s].revoked = "no"

(* updateMany where revokedAt is null *)
Revoke(chosen, reason) ==
  [s \in Sessions |-> IF s \in chosen /\ Live(s)
                      THEN [sessions[s] EXCEPT !.revoked = reason]
                      ELSE sessions[s]]

SessionsOf(u) == {s \in Sessions : sessions[s].user = u}

(* createSession: a row with its first refresh token *)
NewSession(s, u) ==
  [sessions EXCEPT ![s] = [NoSession EXCEPT !.user = u, !.issued = 1]]

(* The guard's conditions, on both rows at once *)
Current(c) ==
  /\ Live(c.session)
  /\ sessions[c.session].age # "expired"
  /\ users[sessions[c.session].user].version = c.version

Accepts(c) == Current(c) /\ users[sessions[c.session].user].active

Presented(t) == [session |-> request[t].session, version |-> request[t].version]

At(t, kind, step) == request[t].kind = kind /\ request[t].step = step
Advance(t, step) == request' = [request EXCEPT ![t].step = step]
Fail(t) == request' = [request EXCEPT ![t] =
             [Idle EXCEPT !.kind = request[t].kind, !.step = "refused",
                          !.again = request[t].again]]

--------------------------------------------------------------------------------
(* Sign-in *)

(* POST /auth/login: the user's row is read and the password verified. *)
LoginRead(t, u) ==
  /\ request[t] = Idle
  /\ access[t] = None
  /\ users[u].active
  /\ request' = [request EXCEPT ![t] =
       [Idle EXCEPT !.kind = "login", !.step = "create", !.user = u,
                    !.version = users[u].version]]
  /\ UNCHANGED <<users, sessions, jar, access>>

(* createSession, for login with the version read by then and for           *)
(* changePassword with the one it wrote; the access token is signed.        *)
CreateSession(t, s) ==
  /\ At(t, "login", "create") \/ At(t, "change", "create")
  /\ sessions[s].user = None
  /\ sessions' = NewSession(s, request[t].user)
  /\ request' = [request EXCEPT ![t].step = "reply", ![t].session = s,
                                ![t].number = 1]
  /\ UNCHANGED <<users, jar, access>>

--------------------------------------------------------------------------------
(* POST /auth/refresh *)

SendRefresh(t, again) ==
  LET cookie == jar[Browser[t]] IN
    IF cookie = None
    THEN [Idle EXCEPT !.kind = "refresh", !.step = "refused", !.again = again]
    ELSE [Idle EXCEPT !.kind = "refresh", !.step = "rotateRead", !.again = again,
                      !.session = cookie.session, !.number = cookie.number]

(* A tab that opens tries to resume the session of its browser. *)
OpenTab(t) ==
  /\ request[t] = Idle
  /\ access[t] = None
  /\ jar[Browser[t]] # None
  /\ request' = [request EXCEPT ![t] = SendRefresh(t, "none")]
  /\ UNCHANGED <<users, sessions, jar, access>>

(* rotateRefreshToken up to its conditional update: a used token, or a      *)
(* session that is revoked, idle or expired, ends here.                     *)
RotateRead(t) ==
  LET s == request[t].session
      used == request[t].number \in sessions[s].used
      over == ~Live(s) \/ sessions[s].age # "fresh"
  IN
  /\ At(t, "refresh", "rotateRead")
  /\ \/ /\ used
        /\ sessions' = Revoke({s}, "refresh_token_reuse")
        /\ Fail(t)
     \/ /\ ~used /\ over
        /\ sessions' = Revoke({s}, IF sessions[s].age = "idle" THEN "idle_timeout"
                                   ELSE "expired")
        /\ Fail(t)
     \/ /\ ~used /\ ~over
        /\ sessions[s].issued < MaxTokens
        /\ Advance(t, "rotate")
        /\ UNCHANGED sessions
  /\ UNCHANGED <<users, jar, access>>

(* Mutant: the token is marked used without the condition that it is not. *)
RotateCommitUnchecked(t) ==
  LET s == request[t].session IN
  /\ At(t, "refresh", "rotate")
  /\ sessions' = [sessions EXCEPT
       ![s].used = @ \cup {request[t].number}, ![s].issued = @ + 1]
  /\ request' = [request EXCEPT ![t].step = "checkUser",
                                ![t].number = sessions[s].issued + 1]
  /\ UNCHANGED <<users, jar, access>>

(* The rest of the transaction: the token is marked used if it still is     *)
(* unused, and the next one issued; a rotation that comes second revokes    *)
(* the session.                                                             *)
RotateCommit(t) ==
  LET s == request[t].session
      n == request[t].number
  IN
  /\ At(t, "refresh", "rotate")
  /\ \/ /\ n \notin sessions[s].used
        /\ sessions' = [sessions EXCEPT
             ![s].used = @ \cup {n}, ![s].issued = @ + 1,
             ![s].age = IF @ = "expired" THEN @ ELSE "fresh"]
        /\ request' = [request EXCEPT ![t].step = "checkUser",
                                      ![t].number = sessions[s].issued + 1]
     \/ /\ n \in sessions[s].used
        /\ sessions' = Revoke({s}, "refresh_token_reuse")
        /\ Fail(t)
  /\ UNCHANGED <<users, jar, access>>

(* LocalAuthService.refresh reads the user after the rotation. *)
RefreshCheckUser(t) ==
  LET s == request[t].session
      u == sessions[s].user
  IN
  /\ At(t, "refresh", "checkUser")
  /\ \/ /\ users[u].active
        /\ request' = [request EXCEPT ![t].step = "reply",
                                      ![t].version = users[u].version]
        /\ UNCHANGED sessions
     \/ /\ ~users[u].active
        /\ sessions' = Revoke({s}, "inactive_user")
        /\ Fail(t)
  /\ UNCHANGED <<users, jar, access>>

--------------------------------------------------------------------------------
(* Authenticated calls *)

GuardRequest(c, kind, again) ==
  [Idle EXCEPT !.kind = kind, !.step = "guard", !.again = again,
               !.session = c.session, !.version = c.version, !.valid = Current(c)]

(* A call with the tab's access token; `valid' remembers whether its session *)
(* and its version were current when it was sent.                           *)
Call(t, kind) ==
  /\ request[t] = Idle
  /\ access[t] # None
  /\ kind \in {"api", "change"}
  /\ request' = [request EXCEPT ![t] = GuardRequest(access[t], kind, kind)]
  /\ UNCHANGED <<users, sessions, jar, access>>

AtGuard(t) == At(t, "api", "guard") \/ At(t, "change", "guard")

(* The guard reads the user and the session by two queries, in any order;   *)
(* it lets the call through when neither refused.                           *)
GuardStep(t, row, accepted) ==
  /\ AtGuard(t)
  /\ row \notin request[t].read
  /\ IF accepted
     THEN request' = [request EXCEPT
            ![t].read = @ \cup {row},
            ![t].step = IF request[t].read = {} THEN "guard" ELSE "granted"]
     ELSE Fail(t)
  /\ UNCHANGED <<users, sessions, jar, access>>

(* Mutant: the version of the access token is not compared. *)
GuardUserAnyVersion(t) ==
  GuardStep(t, "user", users[sessions[request[t].session].user].active)

GuardUser(t) ==
  LET u == users[sessions[request[t].session].user] IN
    GuardStep(t, "user", u.active /\ u.version = request[t].version)

GuardSession(t) ==
  LET s == request[t].session IN
    GuardStep(t, "session", Live(s) /\ sessions[s].age # "expired")

(* The ten minutes of the access token are over: verifyAccessToken throws. *)
AccessExpired(t) ==
  /\ AtGuard(t)
  /\ Fail(t)
  /\ UNCHANGED <<users, sessions, jar, access>>

(* An ordinary call does its work, which is no part of this module. *)
ServeCall(t) ==
  /\ At(t, "api", "granted")
  /\ request' = [request EXCEPT ![t] = Idle]
  /\ UNCHANGED <<users, sessions, jar, access>>

(* changePassword reads the user and verifies the current password... *)
ChangeRead(t) ==
  LET u == sessions[request[t].session].user IN
  /\ At(t, "change", "granted")
  /\ \/ /\ users[u].active
        /\ request' = [request EXCEPT ![t].step = "change", ![t].user = u]
     \/ Fail(t)              \* inactive, or the wrong password
  /\ UNCHANGED <<users, sessions, jar, access>>

(* ...and writes the new one and ends every session of the user, whatever   *)
(* has happened to the user while the hash was computed.                    *)
ChangeWrite(t) ==
  LET u == request[t].user IN
  /\ At(t, "change", "change")
  /\ users[u].version < MaxVersion
  /\ users' = [users EXCEPT ![u].version = @ + 1]
  /\ sessions' = Revoke(SessionsOf(u), "account_changed")
  /\ request' = [request EXCEPT ![t].step = "create",
                                ![t].version = users[u].version + 1]
  /\ UNCHANGED <<jar, access>>

--------------------------------------------------------------------------------
(* Sign-out *)

(* logout revokes the session of the access token, unless that has          *)
(* expired...                                                               *)
Logout(t) ==
  LET cookie == jar[Browser[t]]
      reply == [Idle EXCEPT !.kind = "logout", !.step = "reply"]
  IN
  /\ request[t] = Idle
  /\ access[t] # None
  /\ \E byHeader \in {{}, {access[t].session}} : sessions' = Revoke(byHeader, "logout")
  /\ request' = [request EXCEPT ![t] =
       IF cookie = None THEN reply
       ELSE [reply EXCEPT !.step = "revokeCookie", !.session = cookie.session]]
  /\ UNCHANGED <<users, jar, access>>

(* ...and then the one of the cookie that came with the request. *)
LogoutCookie(t) ==
  /\ At(t, "logout", "revokeCookie")
  /\ sessions' = Revoke({request[t].session}, "logout")
  /\ request' = [request EXCEPT ![t] = [Idle EXCEPT !.kind = "logout", !.step = "reply"]]
  /\ UNCHANGED <<users, jar, access>>

--------------------------------------------------------------------------------
(* What reaches the tab *)

Retry(t) ==
  IF request[t].kind # "refresh" \/ request[t].again = "none" THEN Idle
  ELSE GuardRequest(Presented(t), request[t].again, "none")

(* Mutant: the reply to a sign-out is taken for one with tokens. *)
DeliverAnyTokens(t) ==
  /\ request[t].step = "reply"
  /\ jar' = [jar EXCEPT ![Browser[t]] =
       [session |-> request[t].session, number |-> request[t].number]]
  /\ access' = [access EXCEPT ![t] = Presented(t)]
  /\ request' = [request EXCEPT ![t] = Retry(t)]
  /\ UNCHANGED <<users, sessions>>

(* The reply to a login, a refresh or a change of password sets the cookie  *)
(* and the access token; a call that waited for the refresh is sent again.  *)
DeliverTokens(t) ==
  /\ request[t].step = "reply" /\ request[t].kind # "logout"
  /\ jar' = [jar EXCEPT ![Browser[t]] =
       [session |-> request[t].session, number |-> request[t].number]]
  /\ access' = [access EXCEPT ![t] = Presented(t)]
  /\ request' = [request EXCEPT ![t] = Retry(t)]
  /\ UNCHANGED <<users, sessions>>

DeliverLogout(t) ==
  /\ At(t, "logout", "reply")
  /\ jar' = [jar EXCEPT ![Browser[t]] = None]
  /\ access' = [access EXCEPT ![t] = None]
  /\ request' = [request EXCEPT ![t] = Idle]
  /\ UNCHANGED <<users, sessions>>

(* The server fails after a commit, or the reply is lost: what the          *)
(* server wrote stays and the browser keeps its old cookie.  A tab whose    *)
(* refresh or sign-out failed forgets its access token.                     *)
LoseReply(t) ==
  /\ request[t].step \in {"create", "checkUser", "revokeCookie", "reply"}
  /\ access' = [access EXCEPT ![t] =
       IF request[t].kind \in {"refresh", "logout"} THEN None ELSE @]
  /\ request' = [request EXCEPT ![t] = Idle]
  /\ UNCHANGED <<users, sessions, jar>>

(* A refused call is followed by a refresh and sent once more; a refused    *)
(* refresh, or a second refusal, signs the tab out.                         *)
Refused(t) ==
  /\ request[t].step = "refused"
  /\ \/ /\ request[t].kind \in {"api", "change"} /\ request[t].again # "none"
        /\ request' = [request EXCEPT ![t] = SendRefresh(t, request[t].kind)]
        /\ UNCHANGED access
     \/ /\ request[t].kind \notin {"api", "change"} \/ request[t].again = "none"
        /\ request' = [request EXCEPT ![t] = Idle]
        /\ access' = [access EXCEPT ![t] = None]
  /\ UNCHANGED <<users, sessions, jar>>

(* Closing or reloading a tab forgets its access token. *)
CloseTab(t) ==
  /\ request[t] = Idle
  /\ access[t] # None
  /\ access' = [access EXCEPT ![t] = None]
  /\ UNCHANGED <<users, sessions, jar, request>>

--------------------------------------------------------------------------------
(* The administrator, and time *)

(* One transaction that raises the authVersion and ends the sessions. *)
ChangeAccount(u, changed) ==
  /\ users[u].version < MaxVersion
  /\ users' = [users EXCEPT ![u] = [changed EXCEPT !.version = @ + 1]]
  /\ sessions' = Revoke(SessionsOf(u), "account_changed")
  /\ UNCHANGED <<jar, access, request>>

(* update with another role, resetPassword, initializeAdministratorPassword *)
ChangeRoleOrPassword(u) == ChangeAccount(u, users[u])

(* Mutant: the version stays and the sessions are not ended. *)
DeactivateOnly(u) ==
  /\ users' = [users EXCEPT ![u].active = FALSE]
  /\ UNCHANGED <<sessions, jar, access, request>>

Deactivate(u) ==
  ChangeAccount(u, [users[u] EXCEPT !.active = FALSE])

Activate(u) ==
  /\ users' = [users EXCEPT ![u].active = TRUE]
  /\ UNCHANGED <<sessions, jar, access, request>>

(* A session grows idle for seven days, or old for thirty. *)
Age(s) ==
  /\ sessions[s].user # None /\ sessions[s].age # "expired"
  /\ \E lapse \in Lapses : sessions' = [sessions EXCEPT ![s].age = lapse]
  /\ UNCHANGED <<users, jar, access, request>>

TabStep(t) ==
  \/ \E u \in Users : LoginRead(t, u)
  \/ \E s \in Sessions : CreateSession(t, s)
  \/ OpenTab(t) \/ RotateRead(t) \/ RotateCommit(t) \/ RefreshCheckUser(t)
  \/ \E kind \in {"api", "change"} : Call(t, kind)
  \/ GuardUser(t) \/ GuardSession(t) \/ AccessExpired(t) \/ ServeCall(t)
  \/ ChangeRead(t) \/ ChangeWrite(t)
  \/ Logout(t) \/ LogoutCookie(t)
  \/ DeliverTokens(t) \/ DeliverLogout(t) \/ LoseReply(t) \/ Refused(t)
  \/ CloseTab(t)

Next ==
  \/ \E t \in Tabs : TabStep(t)
  \/ \E u \in Users : ChangeRoleOrPassword(u) \/ Deactivate(u) \/ Activate(u)
  \/ \E s \in Sessions : Age(s)

Spec == Init /\ [][Next]_vars

--------------------------------------------------------------------------------
(* Properties *)

(* The refresh tokens of a session form a chain: all but the last have been *)
(* used, and each was used once, by the rotation that issued the next.      *)
(* Two rotations with one token cannot both succeed (rotateRefreshToken).   *)
TokensFormChain ==
  \A s \in Sessions : sessions[s].user # None =>
    sessions[s].used = 1 .. (sessions[s].issued - 1)

(* Whatever the order in which the guard's two queries run, and whatever an *)
(* administrator, a sign-out or a change of password does between them: a   *)
(* call it lets through had, when it was sent, a live session and the       *)
(* user's current version (authenticateLocalToken).                         *)
GrantedWasCurrent ==
  \A t \in Tabs : request[t].step = "granted" => request[t].valid

(* An access token that works and stops working never works again: the     *)
(* reason is one that lasts, a revoked or expired session or a newer        *)
(* version.  Activating a deactivated user brings no token back.            *)
Spent(c) ==
  \/ sessions[c.session].revoked # "no"
  \/ sessions[c.session].age = "expired"
  \/ users[sessions[c.session].user].version > c.version

RefusedForGood ==
  [][\A t \in Tabs : access[t] # None =>
       LET c == access[t] IN
         /\ Accepts(c) => \A after \in {c} : Accepts(after)' \/ Spent(after)'
         /\ Spent(c) => \A after \in {c} : Spent(after)']_vars

(* The last three are sentences the code does not keep; README.md tells how *)
(* each fails.                                                              *)

(* Deactivating: "The user will be signed out and blocked immediately"      *)
(* (AdministratorDashboard.tsx): an inactive user has no session alive.     *)
(* A login that read the user before creates one afterwards.                *)
DeactivatedIsSignedOut ==
  \A s \in Sessions : Live(s) => users[sessions[s].user].active

(* "Your secure session expired": withAuthRetry ends the session of a tab   *)
(* that was refused twice, or could not refresh, "if the refresh grant      *)
(* itself was rejected (the session is genuinely expired)".  A refresh      *)
(* whose reply is lost ends it too.                                         *)
SignedOutOnlyWhenOver ==
  [][\A t \in Tabs :
       /\ access[t] # None /\ access'[t] = None
       /\ request[t].step \in {"refused", "checkUser", "reply"}
       /\ request[t].kind # "logout"
       => ~Accepts(access[t])]_vars

(* "Local refresh is single-flight so concurrent startup/API calls cannot   *)
(* rotate the same cookie twice" (inventory-api.ts): the application's own  *)
(* tabs never present a used refresh token and lose the session to it.      *)
(* Two tabs that open together do.                                          *)
SameCookieNeverTwice ==
  \A s \in Sessions : sessions[s].revoked # "refresh_token_reuse"

================================================================================
