-------------------------- MODULE AuthSessions_proofs --------------------------
(***************************************************************************)
(* Theorems about AuthSessions, for any users, sessions, tabs and          *)
(* browsers and any bounds.                                                *)
(*                                                                         *)
(* Every argument rests on one fact: the server's rows only grow.  A       *)
(* version never goes down, a session keeps its user, a revocation and an  *)
(* expiry are never taken back (Grows).                                    *)
(***************************************************************************)
EXTENDS AuthSessions, TLAPS

--------------------------------------------------------------------------------
(* Type correctness *)

LEMMA IdleTyped == Idle \in RequestRows
  BY DEF Idle, RequestRows, Kinds, Steps

(* Ending sessions touches nothing but the reason of a revocation. *)
LEMMA RevokeFields ==
  ASSUME TypeOK, NEW chosen, NEW reason \in Reasons, NEW s \in Sessions
  PROVE  LET after == Revoke(chosen, reason)[s] IN
           /\ after \in SessionRows
           /\ after.user = sessions[s].user
           /\ after.issued = sessions[s].issued
           /\ after.used = sessions[s].used
           /\ after.age = sessions[s].age
           /\ sessions[s].revoked # "no" => after.revoked = sessions[s].revoked
           /\ s \in chosen /\ sessions[s].user # None => after.revoked # "no"
  BY DEF TypeOK, Revoke, Live, SessionRows, Reasons

LEMMA RevokeTyped ==
  ASSUME TypeOK, NEW chosen, NEW reason \in Reasons
  PROVE  Revoke(chosen, reason) \in [Sessions -> SessionRows]
  BY RevokeFields DEF Revoke

LEMMA FailTyped ==
  ASSUME TypeOK, NEW t \in Tabs, Fail(t)
  PROVE  request' \in [Tabs -> RequestRows]
  BY IdleTyped DEF TypeOK, Fail, Idle, RequestRows, Steps, Kinds

LEMMA TabBrowser ==
  ASSUME NEW t \in Tabs
  PROVE  Browser[t] \in Browsers
  BY DEF Browsers

--------------------------------------------------------------------------------
(* The invariant: cookies, access tokens and requests only name what the    *)
(* server has issued.                                                       *)

Issued(c) ==
  /\ c.session \in Sessions /\ sessions[c.session].user # None
  /\ c.number \in Nat /\ 1 <= c.number /\ c.number <= sessions[c.session].issued

Known(c) ==
  /\ c.session \in Sessions /\ sessions[c.session].user # None
  /\ c.version \in Nat
  /\ c.version <= users[sessions[c.session].user].version

Carried(t) == [session |-> request[t].session, number |-> request[t].number]

RequestLinks(t) ==
  LET r == request[t] IN
    /\ r.step \in {"rotateRead", "rotate", "checkUser"} => Issued(Carried(t))
    /\ r.step = "reply" /\ r.kind # "logout" => Issued(Carried(t)) /\ Known(Presented(t))
    /\ r.step \in {"guard", "granted"} => Known(Presented(t))
    /\ r.step = "create" => /\ r.user \in Users
                            /\ r.version <= users[r.user].version
    /\ r.step = "change" => r.user \in Users

Links ==
  /\ \A b \in Browsers : jar[b] # None => Issued(jar[b])
  /\ \A t \in Tabs : access[t] # None => Known(access[t])
  /\ \A t \in Tabs : RequestLinks(t)

(* What the guard has found out of a token that was spent when it was sent: *)
(* the query that accepted it leaves the other one to refuse it.            *)
Over(c) == sessions[c.session].revoked # "no" \/ sessions[c.session].age = "expired"
Outdated(c) == users[sessions[c.session].user].version > c.version

GuardKnows(t) ==
  LET r == request[t] IN
    /\ r.step = "guard" /\ ~r.valid =>
         /\ Over(Presented(t)) \/ Outdated(Presented(t))
         /\ "user" \in r.read => Over(Presented(t))
         /\ "session" \in r.read => Outdated(Presented(t))
    /\ r.step = "granted" => r.valid

IInv == /\ TypeOK
        /\ Links
        /\ TokensFormChain
        /\ \A t \in Tabs : GuardKnows(t)

(* The rows of the server only grow. *)
Grows ==
  /\ \A u \in Users :
       /\ users'[u].version >= users[u].version
       /\ users[u].active => users'[u].active \/ users'[u].version > users[u].version
  /\ \A s \in Sessions : sessions[s].user # None =>
       /\ sessions'[s].user = sessions[s].user
       /\ sessions'[s].issued >= sessions[s].issued
       /\ sessions[s].revoked # "no" => sessions'[s].revoked # "no"
       /\ sessions[s].age = "expired" => sessions'[s].age = "expired"

RowsTyped == users' \in [Users -> UserRows] /\ sessions' \in [Sessions -> SessionRows]

(* A session that is ended only changes there. *)
LEMMA EndingGrows ==
  ASSUME TypeOK, NEW chosen, NEW reason \in Reasons,
         sessions' = Revoke(chosen, reason), UNCHANGED users
  PROVE  RowsTyped /\ Grows
<1>1. sessions' \in [Sessions -> SessionRows] BY RevokeTyped
<1>2. \A s \in Sessions : /\ sessions'[s].user = sessions[s].user
                          /\ sessions'[s].issued = sessions[s].issued
                          /\ sessions'[s].age = sessions[s].age
                          /\ sessions[s].revoked # "no" => sessions'[s].revoked # "no"
  BY RevokeFields
<1>3. \A u \in Users : users[u].version \in Nat
  BY DEF TypeOK, UserRows
<1>4. \A s \in Sessions : sessions[s].issued \in Nat
  BY DEF TypeOK, SessionRows
<1> QED BY <1>1, <1>2, <1>3, <1>4 DEF RowsTyped, Grows, TypeOK

(* An account change raises the version and ends the sessions at once. *)
LEMMA AccountGrows ==
  ASSUME TypeOK, NEW u \in Users, NEW row \in UserRows,
         row.version = users[u].version + 1,
         users' = [users EXCEPT ![u] = row],
         sessions' = Revoke(SessionsOf(u), "account_changed")
  PROVE  RowsTyped /\ Grows
<1>1. sessions' \in [Sessions -> SessionRows]
  BY RevokeTyped DEF Reasons
<1>2. \A s \in Sessions : /\ sessions'[s].user = sessions[s].user
                          /\ sessions'[s].issued = sessions[s].issued
                          /\ sessions'[s].age = sessions[s].age
                          /\ sessions[s].revoked # "no" => sessions'[s].revoked # "no"
  BY RevokeFields DEF Reasons
<1>3. \A v \in Users : users[v].version \in Nat
  BY DEF TypeOK, UserRows
<1>4. users' \in [Users -> UserRows] BY DEF TypeOK
<1>5. \A v \in Users : users'[v].version >= users[v].version
                       /\ (users[v].active => users'[v].active
                             \/ users'[v].version > users[v].version)
  BY <1>3 DEF TypeOK
<1>6. \A s \in Sessions : sessions[s].issued \in Nat
  BY DEF TypeOK, SessionRows
<1> QED BY <1>1, <1>2, <1>4, <1>5, <1>6 DEF RowsTyped, Grows

LEMMA StillGrows ==
  ASSUME TypeOK, UNCHANGED <<users, sessions>>
  PROVE  RowsTyped /\ Grows
<1>1. \A u \in Users : users[u].version \in Nat BY DEF TypeOK, UserRows
<1>2. \A s \in Sessions : sessions[s].issued \in Nat BY DEF TypeOK, SessionRows
<1> QED BY <1>1, <1>2 DEF RowsTyped, Grows, TypeOK

(* Every step of the specification makes the rows grow. *)
LEMMA NextGrows ==
  ASSUME TypeOK, Links, Next
  PROVE  RowsTyped /\ Grows
<1>1. ASSUME NEW t \in Tabs, NEW s \in Sessions, CreateSession(t, s)
      PROVE  RowsTyped /\ Grows
  <2>1. request[t].user \in Users
    BY <1>1 DEF CreateSession, At, Links, RequestLinks
  <2>2. sessions' \in [Sessions -> SessionRows]
    BY <1>1, <2>1 DEF CreateSession, NewSession, NoSession, TypeOK, SessionRows
  <2>3. \A v \in Sessions : sessions[v].user # None => sessions'[v] = sessions[v]
    BY <1>1 DEF CreateSession, NewSession, TypeOK
  <2>4. \A u \in Users : users[u].version \in Nat BY DEF TypeOK, UserRows
  <2>5. \A v \in Sessions : sessions[v].issued \in Nat BY DEF TypeOK, SessionRows
  <2> QED BY <1>1, <2>2, <2>3, <2>4, <2>5 DEF CreateSession, RowsTyped, Grows, TypeOK
<1>2. ASSUME NEW t \in Tabs, RotateRead(t) PROVE RowsTyped /\ Grows
  BY <1>2, EndingGrows, StillGrows DEF RotateRead, Reasons
<1>3. ASSUME NEW t \in Tabs, RotateCommit(t) PROVE RowsTyped /\ Grows
  <2> DEFINE s == request[t].session
             n == request[t].number
  <2>1. CASE sessions' = Revoke({s}, "refresh_token_reuse")
    BY <1>3, <2>1, EndingGrows DEF RotateCommit, Reasons
  <2>2. CASE sessions' = [sessions EXCEPT
               ![s].used = @ \cup {n}, ![s].issued = @ + 1,
               ![s].age = IF @ = "expired" THEN @ ELSE "fresh"]
    <3>1. s \in Sessions /\ n \in Nat
      BY <1>3 DEF RotateCommit, At, Links, RequestLinks, Issued, Carried
    <3>2. sessions[s] \in SessionRows BY <3>1 DEF TypeOK
    <3>3. sessions' \in [Sessions -> SessionRows]
      BY <2>2, <3>1, <3>2 DEF TypeOK, SessionRows
    <3>4. \A v \in Sessions :
            /\ sessions'[v].user = sessions[v].user
            /\ sessions'[v].issued >= sessions[v].issued
            /\ sessions'[v].revoked = sessions[v].revoked
            /\ sessions[v].age = "expired" => sessions'[v].age = "expired"
      BY <2>2, <3>1 DEF TypeOK, SessionRows
    <3>5. \A u \in Users : users[u].version \in Nat BY DEF TypeOK, UserRows
    <3> QED BY <1>3, <3>3, <3>4, <3>5 DEF RotateCommit, RowsTyped, Grows, TypeOK
  <2> QED BY <1>3, <2>1, <2>2 DEF RotateCommit
<1>4. ASSUME NEW t \in Tabs, RefreshCheckUser(t) PROVE RowsTyped /\ Grows
  BY <1>4, EndingGrows, StillGrows DEF RefreshCheckUser, Reasons
<1>5. ASSUME NEW t \in Tabs, ChangeWrite(t) PROVE RowsTyped /\ Grows
  <2> DEFINE u == request[t].user
             row == [users[u] EXCEPT !.version = @ + 1]
  <2>1. u \in Users
    BY <1>5 DEF ChangeWrite, At, Links, RequestLinks
  <2>2. row \in UserRows /\ row.version = users[u].version + 1
    BY <2>1 DEF TypeOK, UserRows
  <2>3. users' = [users EXCEPT ![u] = row]
    BY <1>5, <2>1 DEF ChangeWrite, TypeOK
  <2> QED BY <1>5, <2>1, <2>2, <2>3, AccountGrows DEF ChangeWrite
<1>6. ASSUME NEW t \in Tabs, Logout(t) \/ LogoutCookie(t) PROVE RowsTyped /\ Grows
  <2>1. PICK chosen : sessions' = Revoke(chosen, "logout") BY <1>6 DEF Logout, LogoutCookie
  <2> QED BY <1>6, <2>1, EndingGrows DEF Logout, LogoutCookie, Reasons
<1>7. ASSUME NEW t \in Tabs, TabStep(t) PROVE RowsTyped /\ Grows
  <2>1. CASE UNCHANGED <<users, sessions>> BY <2>1, StillGrows
  <2> QED BY <1>1, <1>2, <1>3, <1>4, <1>5, <1>6, <1>7, <2>1
          DEF TabStep, LoginRead, OpenTab, Call, GuardUser, GuardSession, GuardStep,
              AccessExpired, ServeCall, ChangeRead, DeliverTokens, DeliverLogout,
              LoseReply, Refused, CloseTab
<1>8. ASSUME NEW u \in Users, NEW row \in UserRows,
             row.active \in BOOLEAN, ChangeAccount(u, row),
             row.version = users[u].version
      PROVE  RowsTyped /\ Grows
  <2>1. [row EXCEPT !.version = @ + 1] \in UserRows BY DEF UserRows
  <2>2. [row EXCEPT !.version = @ + 1].version = users[u].version + 1
    BY <1>8 DEF UserRows
  <2> QED BY <1>8, <2>1, <2>2, AccountGrows DEF ChangeAccount
<1>9. ASSUME NEW u \in Users, ChangeRoleOrPassword(u) \/ Deactivate(u) \/ Activate(u)
      PROVE  RowsTyped /\ Grows
  <2>1. users[u] \in UserRows BY DEF TypeOK
  <2>2. CASE ChangeRoleOrPassword(u)
    BY <2>1, <2>2, <1>8 DEF ChangeRoleOrPassword, UserRows
  <2>3. CASE Deactivate(u)
    <3>1. [users[u] EXCEPT !.active = FALSE] \in UserRows BY <2>1 DEF UserRows
    <3> QED BY <2>1, <2>3, <3>1, <1>8 DEF Deactivate, UserRows
  <2>4. CASE Activate(u)
    <3>1. users' \in [Users -> UserRows] BY <2>1, <2>4 DEF Activate, TypeOK, UserRows
    <3>2. \A v \in Users : users'[v].version = users[v].version
                           /\ users[v].version \in Nat
                           /\ (users[v].active => users'[v].active)
      BY <2>4 DEF Activate, TypeOK, UserRows
    <3>3. \A s \in Sessions : sessions[s].issued \in Nat BY DEF TypeOK, SessionRows
    <3> QED BY <2>4, <3>1, <3>2, <3>3 DEF Activate, RowsTyped, Grows, TypeOK
  <2> QED BY <1>9, <2>2, <2>3, <2>4
<1>10. ASSUME NEW s \in Sessions, Age(s) PROVE RowsTyped /\ Grows
  <2>1. PICK lapse \in Lapses : sessions' = [sessions EXCEPT ![s].age = lapse]
    BY <1>10 DEF Age
  <2>2. lapse \in {"idle", "expired"} BY AuthAssumption
  <2>3. sessions' \in [Sessions -> SessionRows]
    BY <2>1, <2>2 DEF TypeOK, SessionRows
  <2>4. \A v \in Sessions :
          /\ sessions'[v].user = sessions[v].user
          /\ sessions'[v].issued = sessions[v].issued
          /\ sessions'[v].revoked = sessions[v].revoked
          /\ sessions[v].age = "expired" => sessions'[v].age = "expired"
    BY <1>10, <2>1 DEF Age, TypeOK, SessionRows
  <2>5. \A u \in Users : users[u].version \in Nat BY DEF TypeOK, UserRows
  <2>6. \A v \in Sessions : sessions[v].issued \in Nat BY DEF TypeOK, SessionRows
  <2> QED BY <1>10, <2>3, <2>4, <2>5, <2>6 DEF Age, RowsTyped, Grows, TypeOK
<1> QED BY <1>7, <1>9, <1>10 DEF Next

--------------------------------------------------------------------------------
(* What has been issued stays so, what is spent stays spent. *)

LEMMA NamesKept ==
  ASSUME TypeOK, RowsTyped, Grows
  PROVE  /\ \A c : Issued(c) => Issued(c)'
         /\ \A c : Known(c) => Known(c)'
         /\ \A c : Known(c) /\ Over(c) => Over(c)'
         /\ \A c : Known(c) /\ Outdated(c) => Outdated(c)'
<1>1. \A s \in Sessions : sessions[s].user # None =>
        /\ sessions[s].user \in Users
        /\ users[sessions[s].user].version \in Nat
        /\ users'[sessions[s].user].version \in Nat
        /\ sessions[s].issued \in Nat /\ sessions'[s].issued \in Nat
  BY DEF TypeOK, RowsTyped, SessionRows, UserRows
<1>2. \A c : Issued(c) => Issued(c)'
  BY <1>1 DEF Grows, Issued
<1>3. \A c : Known(c) => Known(c)'
  BY <1>1 DEF Grows, Known
<1>4. \A c : Known(c) /\ Over(c) => Over(c)'
  BY <1>1 DEF Grows, Known, Over
<1>5. \A c : Known(c) /\ Outdated(c) => Outdated(c)'
  BY <1>1 DEF Grows, Known, Outdated
<1> QED BY <1>2, <1>3, <1>4, <1>5

LEMMA WaitingTab ==
  ASSUME IInv, RowsTyped, Grows, NEW t \in Tabs, request'[t] = request[t]
  PROVE  RequestLinks(t)' /\ GuardKnows(t)'
<1>1. RequestLinks(t) /\ GuardKnows(t) BY DEF IInv, Links
<1>2. Presented(t)' = Presented(t) /\ Carried(t)' = Carried(t)
  BY DEF Presented, Carried
<1>3. Issued(Carried(t)) => Issued(Carried(t))'
  BY <1>2, NamesKept DEF IInv, Issued
<1>4. Known(Presented(t)) => Known(Presented(t))'
  BY <1>2, NamesKept DEF IInv, Known
<1>5. Known(Presented(t)) /\ Over(Presented(t)) => Over(Presented(t))'
  BY <1>2, NamesKept DEF IInv, Over
<1>6. Known(Presented(t)) /\ Outdated(Presented(t)) => Outdated(Presented(t))'
  BY <1>2, NamesKept DEF IInv, Outdated
<1>7. \A u \in Users : users[u].version \in Nat /\ users'[u].version \in Nat
                       /\ users'[u].version >= users[u].version
  BY DEF IInv, TypeOK, RowsTyped, Grows, UserRows
<1>8. request[t].version \in Nat BY DEF IInv, TypeOK, RequestRows
<1>9. RequestLinks(t)'
  BY <1>1, <1>3, <1>4, <1>7, <1>8 DEF RequestLinks
<1>10. request[t].step \in {"guard", "granted"} => Known(Presented(t))
  BY <1>1 DEF RequestLinks
<1>11. GuardKnows(t)'
  BY <1>1, <1>5, <1>6, <1>10 DEF GuardKnows
<1> QED BY <1>9, <1>11

(* A step of one tab: what the others rely on is kept, so only the new      *)
(* request of that tab, its cookie and its access token are left to see.    *)
LEMMA TabMoves ==
  ASSUME IInv, RowsTyped, Grows, NEW t \in Tabs,
         NEW r \in RequestRows,
         request' = [request EXCEPT ![t] = r],
         RequestLinks(t)', GuardKnows(t)',
         jar' \in [Browsers -> Tokens \cup {None}],
         access' \in [Tabs -> Claims \cup {None}],
         \A b \in Browsers : jar'[b] = jar[b] \/ jar'[b] = None \/ Issued(jar[b])',
         \A v \in Tabs : access'[v] = access[v] \/ access'[v] = None \/ Known(access[v])'
  PROVE  TypeOK' /\ Links' /\ (\A v \in Tabs : GuardKnows(v)')
<1>1. request' \in [Tabs -> RequestRows] BY DEF IInv, TypeOK
<1>2. TypeOK' BY <1>1 DEF RowsTyped, TypeOK
<1>3. \A v \in Tabs : v # t => request'[v] = request[v] BY DEF IInv, TypeOK
<1>4. \A v \in Tabs : RequestLinks(v)' /\ GuardKnows(v)'
  BY <1>3, WaitingTab
<1>5. \A b \in Browsers : jar'[b] # None => Issued(jar[b])'
  BY NamesKept DEF IInv, Links, Issued
<1>6. \A v \in Tabs : access'[v] # None => Known(access[v])'
  BY NamesKept DEF IInv, Links, Known
<1> QED BY <1>2, <1>4, <1>5, <1>6 DEF Links

(* The common case: the tab's cookie and access token stay. *)
LEMMA RequestMoves ==
  ASSUME IInv, RowsTyped, Grows, NEW t \in Tabs,
         NEW r \in RequestRows,
         request' = [request EXCEPT ![t] = r],
         RequestLinks(t)', GuardKnows(t)', UNCHANGED <<jar, access>>
  PROVE  TypeOK' /\ Links' /\ (\A v \in Tabs : GuardKnows(v)')
  BY TabMoves DEF IInv, TypeOK

(* No step of this kind tells the tab anything: idle, or refused. *)
LEMMA QuietMoves ==
  ASSUME IInv, RowsTyped, Grows, NEW t \in Tabs,
         NEW r \in RequestRows, r.step \in {"idle", "refused"},
         request' = [request EXCEPT ![t] = r]
  PROVE  RequestLinks(t)' /\ GuardKnows(t)'
<1>1. request'[t].step \in {"idle", "refused"} BY DEF IInv, TypeOK
<1> QED BY <1>1 DEF RequestLinks, GuardKnows

LEMMA FailMoves ==
  ASSUME IInv, RowsTyped, Grows, NEW t \in Tabs, Fail(t), UNCHANGED <<jar, access>>
  PROVE  TypeOK' /\ Links' /\ (\A v \in Tabs : GuardKnows(v)')
<1> DEFINE r == [Idle EXCEPT !.kind = request[t].kind, !.step = "refused",
                             !.again = request[t].again]
<1>1. request[t] \in RequestRows BY DEF IInv, TypeOK
<1>2. r \in RequestRows /\ r.step = "refused"
  BY <1>1, IdleTyped DEF RequestRows, Idle, Steps
<1>3. request' = [request EXCEPT ![t] = r] BY DEF Fail
<1> QED BY <1>2, <1>3, QuietMoves, RequestMoves

LEMMA IdleMoves ==
  ASSUME IInv, RowsTyped, Grows, NEW t \in Tabs,
         request' = [request EXCEPT ![t] = Idle], UNCHANGED jar,
         access' = access \/ access' = [access EXCEPT ![t] = None]
  PROVE  TypeOK' /\ Links' /\ (\A v \in Tabs : GuardKnows(v)')
<1>1. RequestLinks(t)' /\ GuardKnows(t)'
  BY IdleTyped, QuietMoves DEF Idle
<1>2. access' \in [Tabs -> Claims \cup {None}] BY DEF IInv, TypeOK
<1>3. \A v \in Tabs : access'[v] = access[v] \/ access'[v] = None
  BY DEF IInv, TypeOK
<1>4. jar' \in [Browsers -> Tokens \cup {None}] BY DEF IInv, TypeOK
<1> QED BY <1>1, <1>2, <1>3, <1>4, IdleTyped, TabMoves

--------------------------------------------------------------------------------
(* The steps that tell a tab something, one by one *)

LEMMA LoginMoves ==
  ASSUME IInv, RowsTyped, Grows, NEW t \in Tabs, NEW u \in Users, LoginRead(t, u)
  PROVE  TypeOK' /\ Links' /\ (\A v \in Tabs : GuardKnows(v)')
<1> DEFINE r == [Idle EXCEPT !.kind = "login", !.step = "create", !.user = u,
                             !.version = users[u].version]
<1>1. users[u].version \in Nat BY DEF IInv, TypeOK, UserRows
<1>2. r \in RequestRows
  BY <1>1, IdleTyped DEF RequestRows, Idle, Steps, Kinds
<1>3. r.step = "create" /\ r.user = u /\ r.version = users[u].version BY DEF Idle
<1>4. request'[t] = r BY DEF LoginRead, IInv, TypeOK
<1>5. RequestLinks(t)' /\ GuardKnows(t)'
  <2>1. /\ request'[t].step = "create" /\ request'[t].user = u
        /\ request'[t].version = users[u].version /\ users' = users
    BY <1>3, <1>4 DEF LoginRead
  <2> QED BY <1>1, <2>1 DEF RequestLinks, GuardKnows
<1>6. request' = [request EXCEPT ![t] = r] /\ UNCHANGED <<jar, access>>
  BY DEF LoginRead
<1> HIDE DEF r
<1> QED BY <1>2, <1>5, <1>6, RequestMoves

LEMMA CreateMoves ==
  ASSUME IInv, RowsTyped, Grows, NEW t \in Tabs, NEW s \in Sessions,
         CreateSession(t, s)
  PROVE  TypeOK' /\ Links' /\ (\A v \in Tabs : GuardKnows(v)')
<1> DEFINE r == [request[t] EXCEPT !.step = "reply", !.session = s, !.number = 1]
<1>1. request[t] \in RequestRows BY DEF IInv, TypeOK
<1>2. r \in RequestRows BY <1>1 DEF RequestRows, Steps
<1>3. /\ request[t].user \in Users
      /\ request[t].version \in Nat
      /\ request[t].version <= users[request[t].user].version
  BY <1>1 DEF CreateSession, At, IInv, Links, RequestLinks, RequestRows
<1>4. request' = [request EXCEPT ![t] = r]
  BY DEF CreateSession, IInv, TypeOK
<1>5. /\ request'[t].step = "reply"
      /\ request'[t].session = s /\ request'[t].number = 1
      /\ request'[t].version = request[t].version
  BY <1>1, <1>4 DEF IInv, TypeOK, RequestRows
<1>6. /\ sessions'[s].user = request[t].user
      /\ sessions'[s].issued = 1
      /\ sessions'[s].user # None
  BY <1>3, AuthAssumption
     DEF CreateSession, NewSession, NoSession, IInv, TypeOK
<1>7. Issued(Carried(t))' /\ Known(Presented(t))'
  BY <1>3, <1>5, <1>6 DEF CreateSession, Issued, Known, Carried, Presented
<1>8. RequestLinks(t)' /\ GuardKnows(t)'
  BY <1>5, <1>7 DEF RequestLinks, GuardKnows
<1> QED BY <1>2, <1>4, <1>8, RequestMoves DEF CreateSession

(* Sending a refresh presents the browser's cookie, which was issued. *)
LEMMA RefreshMoves ==
  ASSUME IInv, RowsTyped, Grows, NEW t \in Tabs,
         NEW again \in {"none", "api", "change"},
         request' = [request EXCEPT ![t] = SendRefresh(t, again)],
         UNCHANGED <<users, sessions, jar, access>>
  PROVE  TypeOK' /\ Links' /\ (\A v \in Tabs : GuardKnows(v)')
<1> DEFINE r == SendRefresh(t, again)
           cookie == jar[Browser[t]]
<1>1. CASE cookie = None
  <2>1. r = [Idle EXCEPT !.kind = "refresh", !.step = "refused", !.again = again]
    BY <1>1 DEF SendRefresh
  <2>2. r \in RequestRows /\ r.step = "refused"
    BY <2>1, IdleTyped DEF RequestRows, Idle, Steps, Kinds
  <2> HIDE DEF r
  <2>3. request' = [request EXCEPT ![t] = r] BY DEF r
  <2> QED BY <2>2, <2>3, QuietMoves, RequestMoves
<1>2. CASE cookie # None
  <2>1. Issued(cookie) /\ cookie \in Tokens
    BY <1>2, TabBrowser DEF IInv, Links, TypeOK
  <2>2. r \in RequestRows
    BY <1>2, <2>1, IdleTyped DEF SendRefresh, RequestRows, Idle, Steps, Kinds, Tokens
  <2>3. /\ r.step = "rotateRead"
        /\ r.session = cookie.session /\ r.number = cookie.number
    BY <1>2 DEF SendRefresh, Idle
  <2>4. request'[t] = r BY DEF IInv, TypeOK
  <2>5. Issued(Carried(t))'
    BY <2>1, <2>3, <2>4 DEF Issued, Carried
  <2>6. RequestLinks(t)' /\ GuardKnows(t)'
    BY <2>3, <2>4, <2>5 DEF RequestLinks, GuardKnows
  <2> QED BY <2>2, <2>6, RequestMoves
<1> QED BY <1>1, <1>2

LEMMA RotateReadMoves ==
  ASSUME IInv, RowsTyped, Grows, NEW t \in Tabs, RotateRead(t)
  PROVE  TypeOK' /\ Links' /\ (\A v \in Tabs : GuardKnows(v)')
<1>1. CASE Fail(t) BY <1>1, FailMoves DEF RotateRead
<1>2. CASE Advance(t, "rotate")
  <2> DEFINE r == [request[t] EXCEPT !.step = "rotate"]
  <2>1. request[t] \in RequestRows BY DEF IInv, TypeOK
  <2>2. r \in RequestRows BY <2>1 DEF RequestRows, Steps
  <2>3. request' = [request EXCEPT ![t] = r] BY <1>2 DEF Advance, IInv, TypeOK
  <2>4. /\ request'[t].step = "rotate"
        /\ request'[t].session = request[t].session
        /\ request'[t].number = request[t].number
    BY <2>1, <2>3 DEF IInv, TypeOK, RequestRows
  <2>5. Issued(Carried(t)) BY DEF RotateRead, At, IInv, Links, RequestLinks
  <2>6. Issued(Carried(t))'
    BY <2>4, <2>5, NamesKept DEF IInv, Issued, Carried
  <2>7. RequestLinks(t)' /\ GuardKnows(t)'
    BY <2>4, <2>6 DEF RequestLinks, GuardKnows
  <2> QED BY <2>2, <2>3, <2>7, RequestMoves DEF RotateRead
<1> QED BY <1>1, <1>2 DEF RotateRead

LEMMA RotateCommitMoves ==
  ASSUME IInv, RowsTyped, Grows, NEW t \in Tabs, RotateCommit(t)
  PROVE  TypeOK' /\ Links' /\ (\A v \in Tabs : GuardKnows(v)')
<1> DEFINE s == request[t].session
           n == request[t].number
           r == [request[t] EXCEPT !.step = "checkUser",
                                   !.number = sessions[s].issued + 1]
<1>1. CASE n \in sessions[s].used
  BY <1>1, FailMoves DEF RotateCommit
<1>2. CASE n \notin sessions[s].used
  <2>1. request[t] \in RequestRows /\ Issued(Carried(t))
    BY DEF RotateCommit, At, IInv, TypeOK, Links, RequestLinks
  <2>2. s \in Sessions /\ sessions[s].user # None
    BY <2>1 DEF Issued, Carried
  <2>3. sessions[s].issued \in Nat BY <2>2 DEF IInv, TypeOK, SessionRows
  <2>4. r \in RequestRows
    <3>1. \A m \in Nat : [request[t] EXCEPT !.step = "checkUser", !.number = m]
                          \in RequestRows
      BY <2>1 DEF RequestRows, Steps
    <3>2. sessions[s].issued + 1 \in Nat BY <2>3
    <3> QED BY <3>1, <3>2
  <2>5. request' = [request EXCEPT ![t] = r]
    BY <1>2, <2>1 DEF RotateCommit, IInv, TypeOK, RequestRows
  <2>6. /\ request'[t].step = "checkUser"
        /\ request'[t].session = s
        /\ request'[t].number = sessions[s].issued + 1
    BY <2>1, <2>5 DEF IInv, TypeOK, RequestRows
  <2>7. sessions'[s].issued = sessions[s].issued + 1 /\ sessions'[s].user # None
    BY <1>2, <2>2 DEF RotateCommit, IInv, TypeOK, SessionRows
  <2>8. Issued(Carried(t))'
    BY <2>2, <2>3, <2>6, <2>7 DEF Issued, Carried
  <2>9. RequestLinks(t)' /\ GuardKnows(t)'
    BY <2>6, <2>8 DEF RequestLinks, GuardKnows
  <2> QED BY <2>4, <2>5, <2>9, RequestMoves DEF RotateCommit
<1> QED BY <1>1, <1>2

LEMMA CheckUserMoves ==
  ASSUME IInv, RowsTyped, Grows, NEW t \in Tabs, RefreshCheckUser(t)
  PROVE  TypeOK' /\ Links' /\ (\A v \in Tabs : GuardKnows(v)')
<1> DEFINE s == request[t].session
           u == sessions[s].user
           r == [request[t] EXCEPT !.step = "reply", !.version = users[u].version]
<1>1. CASE ~users[u].active
  BY <1>1, FailMoves DEF RefreshCheckUser
<1>2. CASE users[u].active
  <2>1. request[t] \in RequestRows /\ Issued(Carried(t))
    BY DEF RefreshCheckUser, At, IInv, TypeOK, Links, RequestLinks
  <2>2. s \in Sessions /\ sessions[s].user # None /\ u \in Users
    BY <2>1 DEF Issued, Carried, IInv, TypeOK, SessionRows
  <2>3. users[u].version \in Nat BY <2>2 DEF IInv, TypeOK, UserRows
  <2>4. r \in RequestRows BY <2>1, <2>3 DEF RequestRows, Steps
  <2>5. request' = [request EXCEPT ![t] = r] /\ UNCHANGED <<users, sessions>>
    BY <1>2 DEF RefreshCheckUser, IInv, TypeOK
  <2>6. /\ request'[t].step = "reply"
        /\ request'[t].session = s
        /\ request'[t].number = request[t].number
        /\ request'[t].version = users[u].version
    BY <2>1, <2>5 DEF IInv, TypeOK, RequestRows
  <2>7. Issued(Carried(t))'
    BY <2>1, <2>5, <2>6 DEF Issued, Carried
  <2>8. Known(Presented(t))'
    BY <2>2, <2>3, <2>5, <2>6 DEF Known, Presented
  <2>9. RequestLinks(t)' /\ GuardKnows(t)'
    BY <2>6, <2>7, <2>8 DEF RequestLinks, GuardKnows
  <2> QED BY <2>4, <2>5, <2>9, RequestMoves DEF RefreshCheckUser
<1> QED BY <1>1, <1>2

(* A call starts at the guard: when its token is not current, it is spent. *)
LEMMA SpentOrCurrent ==
  ASSUME IInv, NEW c, Known(c), ~Current(c)
  PROVE  Over(c) \/ Outdated(c)
<1>1. sessions[c.session].user \in Users
  BY DEF Known, IInv, TypeOK, SessionRows
<1>2. users[sessions[c.session].user].version \in Nat
  BY <1>1 DEF IInv, TypeOK, UserRows
<1> QED BY <1>2 DEF Known, Current, Live, Over, Outdated

LEMMA GuardMoves ==
  ASSUME IInv, RowsTyped, Grows, NEW t \in Tabs,
         NEW c \in Claims, Known(c),
         NEW kind \in {"api", "change"}, NEW again \in {"none", "api", "change"},
         request' = [request EXCEPT ![t] = GuardRequest(c, kind, again)],
         UNCHANGED <<users, sessions>>
  PROVE  /\ request'[t] \in RequestRows
         /\ request' = [request EXCEPT ![t] = request'[t]]
         /\ RequestLinks(t)' /\ GuardKnows(t)'
<1> DEFINE r == GuardRequest(c, kind, again)
<1>1. Current(c) \in BOOLEAN BY DEF Current, Live
<1>2. r \in RequestRows
  BY <1>1, IdleTyped DEF GuardRequest, Claims, RequestRows, Idle, Steps, Kinds
<1>3. request'[t] = r BY DEF IInv, TypeOK
<1>4. /\ r.step = "guard" /\ r.session = c.session /\ r.version = c.version
      /\ r.read = {} /\ r.valid = Current(c)
  BY DEF GuardRequest, Idle
<1>5. Known(Presented(t))'
  BY <1>3, <1>4 DEF Known, Presented
<1>6. ~Current(c) => (Over(Presented(t)) \/ Outdated(Presented(t)))'
  <2>1. ~Current(c) => Over(c) \/ Outdated(c) BY SpentOrCurrent
  <2>2. request'[t].session = c.session /\ request'[t].version = c.version
    BY <1>3, <1>4
  <2> QED BY <2>1, <2>2 DEF Over, Outdated, Presented
<1>7. RequestLinks(t)' /\ GuardKnows(t)'
  BY <1>3, <1>4, <1>5, <1>6 DEF RequestLinks, GuardKnows
<1> QED BY <1>2, <1>3, <1>7

LEMMA CallMoves ==
  ASSUME IInv, RowsTyped, Grows, NEW t \in Tabs, NEW kind \in {"api", "change"},
         Call(t, kind)
  PROVE  TypeOK' /\ Links' /\ (\A v \in Tabs : GuardKnows(v)')
<1>1. access[t] \in Claims /\ Known(access[t])
  BY DEF Call, IInv, Links, TypeOK
<1>2. /\ request'[t] \in RequestRows
      /\ request' = [request EXCEPT ![t] = request'[t]]
      /\ RequestLinks(t)' /\ GuardKnows(t)'
  BY <1>1, GuardMoves DEF Call
<1> QED BY <1>2, RequestMoves DEF Call

(* One of the guard's queries: together with what the other one has seen,   *)
(* no spent token can pass both.                                            *)
LEMMA GuardStepMoves ==
  ASSUME IInv, RowsTyped, Grows, NEW t \in Tabs, NEW row \in {"user", "session"},
         NEW accepted \in BOOLEAN, GuardStep(t, row, accepted),
         accepted /\ row = "user" => ~Outdated(Presented(t)),
         accepted /\ row = "session" => ~Over(Presented(t))
  PROVE  TypeOK' /\ Links' /\ (\A v \in Tabs : GuardKnows(v)')
<1>1. CASE ~accepted BY <1>1, FailMoves DEF GuardStep
<1>2. CASE accepted
  <2> DEFINE next == IF request[t].read = {} THEN "guard" ELSE "granted"
             r == [request[t] EXCEPT !.read = @ \cup {row}, !.step = next]
  <2>1. /\ request[t] \in RequestRows
        /\ request[t].step = "guard" /\ row \notin request[t].read
        /\ request[t].read \subseteq {"user", "session"}
    BY DEF GuardStep, AtGuard, At, IInv, TypeOK, RequestRows
  <2>2. r \in RequestRows BY <2>1 DEF RequestRows, Steps
  <2>3. request' = [request EXCEPT ![t] = r] /\ UNCHANGED <<users, sessions, jar, access>>
    BY <1>2 DEF GuardStep, IInv, TypeOK
  <2>4. /\ request'[t].step = next
        /\ request'[t].read = request[t].read \cup {row}
        /\ request'[t].session = request[t].session
        /\ request'[t].version = request[t].version
        /\ request'[t].valid = request[t].valid
    BY <2>1, <2>3 DEF IInv, TypeOK, RequestRows
  <2>5. Known(Presented(t)) /\ GuardKnows(t)
    BY <2>1 DEF IInv, Links, RequestLinks
  <2>6. Known(Presented(t))'
    BY <2>3, <2>4, <2>5 DEF Known, Presented
  <2>7. RequestLinks(t)'
    BY <2>4, <2>6 DEF RequestLinks
  <2>8. /\ Over(Presented(t))' <=> Over(Presented(t))
        /\ Outdated(Presented(t))' <=> Outdated(Presented(t))
    BY <2>3, <2>4 DEF Over, Outdated, Presented
  <2>9. ~request[t].valid =>
          /\ row = "user" => Over(Presented(t)) /\ "session" \notin request[t].read
          /\ row = "session" => Outdated(Presented(t)) /\ "user" \notin request[t].read
    BY <1>2, <2>1, <2>5 DEF GuardKnows
  <2>10. ~request[t].valid => request[t].read = {}
    BY <2>1, <2>9
  <2>11. GuardKnows(t)'
    BY <2>1, <2>4, <2>5, <2>8, <2>9, <2>10 DEF GuardKnows
  <2> HIDE DEF r
  <2> QED BY <2>2, <2>3, <2>7, <2>11, RequestMoves
<1> QED BY <1>1, <1>2

LEMMA GuardQueriesMove ==
  ASSUME IInv, RowsTyped, Grows, NEW t \in Tabs, GuardUser(t) \/ GuardSession(t)
  PROVE  TypeOK' /\ Links' /\ (\A v \in Tabs : GuardKnows(v)')
<1> DEFINE s == request[t].session
           u == users[sessions[s].user]
<1>1. AtGuard(t) BY DEF GuardUser, GuardSession, GuardStep
<1>2. Known(Presented(t))
  BY <1>1 DEF AtGuard, At, IInv, Links, RequestLinks
<1>3. s \in Sessions /\ sessions[s].user # None /\ sessions[s].user \in Users
  BY <1>2 DEF Known, Presented, IInv, TypeOK, SessionRows
<1>4. u \in UserRows /\ request[t].version \in Nat
  BY <1>3 DEF IInv, TypeOK, RequestRows
<1>5. CASE GuardUser(t)
  <2> DEFINE accepted == u.active /\ u.version = request[t].version
  <2>1. accepted \in BOOLEAN BY <1>4 DEF UserRows
  <2>2. accepted => ~Outdated(Presented(t))
    BY <1>4 DEF Outdated, Presented, UserRows
  <2>3. GuardStep(t, "user", accepted) BY <1>5 DEF GuardUser
  <2> HIDE DEF accepted
  <2> QED BY <2>1, <2>2, <2>3, GuardStepMoves
<1>6. CASE GuardSession(t)
  <2> DEFINE accepted == Live(s) /\ sessions[s].age # "expired"
  <2>1. accepted \in BOOLEAN BY DEF Live
  <2>2. accepted => ~Over(Presented(t)) BY DEF Over, Presented, Live
  <2>3. GuardStep(t, "session", accepted) BY <1>6 DEF GuardSession
  <2> HIDE DEF accepted
  <2> QED BY <2>1, <2>2, <2>3, GuardStepMoves
<1> QED BY <1>5, <1>6

LEMMA ChangeReadMoves ==
  ASSUME IInv, RowsTyped, Grows, NEW t \in Tabs, ChangeRead(t)
  PROVE  TypeOK' /\ Links' /\ (\A v \in Tabs : GuardKnows(v)')
<1> DEFINE u == sessions[request[t].session].user
           r == [request[t] EXCEPT !.step = "change", !.user = u]
<1>1. CASE Fail(t) BY <1>1, FailMoves DEF ChangeRead
<1>2. CASE ~Fail(t)
  <2>1. request[t] \in RequestRows /\ Known(Presented(t))
    BY DEF ChangeRead, At, IInv, TypeOK, Links, RequestLinks
  <2>2. u \in Users
    BY <2>1 DEF Known, Presented, IInv, TypeOK, SessionRows
  <2>3. r \in RequestRows BY <2>1, <2>2 DEF RequestRows, Steps
  <2>4. request' = [request EXCEPT ![t] = r] /\ UNCHANGED <<jar, access>>
    BY <1>2 DEF ChangeRead, IInv, TypeOK
  <2>5. request'[t].step = "change" /\ request'[t].user = u
    BY <2>1, <2>4 DEF IInv, TypeOK, RequestRows
  <2>6. RequestLinks(t)' /\ GuardKnows(t)'
    BY <2>2, <2>5 DEF RequestLinks, GuardKnows
  <2> HIDE DEF r
  <2> QED BY <2>3, <2>4, <2>6, RequestMoves
<1> QED BY <1>1, <1>2

LEMMA ChangeWriteMoves ==
  ASSUME IInv, RowsTyped, Grows, NEW t \in Tabs, ChangeWrite(t)
  PROVE  TypeOK' /\ Links' /\ (\A v \in Tabs : GuardKnows(v)')
<1> DEFINE u == request[t].user
           n == users[u].version + 1
           r == [request[t] EXCEPT !.step = "create", !.version = n]
<1>1. request[t] \in RequestRows /\ u \in Users
  BY DEF ChangeWrite, At, IInv, TypeOK, Links, RequestLinks
<1>2. users[u].version \in Nat /\ n \in Nat
  BY <1>1 DEF IInv, TypeOK, UserRows
<1>3. \A m \in Nat : [request[t] EXCEPT !.step = "create", !.version = m] \in RequestRows
  BY <1>1 DEF RequestRows, Steps
<1>4. r \in RequestRows BY <1>2, <1>3
<1>5. request' = [request EXCEPT ![t] = r] /\ UNCHANGED <<jar, access>>
  BY DEF ChangeWrite, IInv, TypeOK
<1>6. /\ request'[t].step = "create" /\ request'[t].user = u
      /\ request'[t].version = n
  BY <1>1, <1>5 DEF IInv, TypeOK, RequestRows
<1>7. users'[u].version = n
  BY <1>1 DEF ChangeWrite, IInv, TypeOK, UserRows
<1>8. RequestLinks(t)' /\ GuardKnows(t)'
  BY <1>1, <1>2, <1>6, <1>7 DEF RequestLinks, GuardKnows
<1> HIDE DEF r
<1> QED BY <1>4, <1>5, <1>8, RequestMoves

LEMMA LogoutMoves ==
  ASSUME IInv, RowsTyped, Grows, NEW t \in Tabs, Logout(t) \/ LogoutCookie(t)
  PROVE  TypeOK' /\ Links' /\ (\A v \in Tabs : GuardKnows(v)')
<1>1. PICK r \in RequestRows : /\ request' = [request EXCEPT ![t] = r]
                               /\ r.step \in {"reply", "revokeCookie"}
                               /\ r.kind = "logout"
  <2>1. CASE LogoutCookie(t) \/ (Logout(t) /\ jar[Browser[t]] = None)
    <3> DEFINE r == [Idle EXCEPT !.kind = "logout", !.step = "reply"]
    <3>1. r \in RequestRows /\ r.step = "reply" /\ r.kind = "logout"
      BY IdleTyped DEF RequestRows, Idle, Steps, Kinds
    <3>2. request' = [request EXCEPT ![t] = r]
      BY <2>1 DEF Logout, LogoutCookie
    <3> HIDE DEF r
    <3> QED BY <3>1, <3>2
  <2>2. CASE Logout(t) /\ jar[Browser[t]] # None
    <3>1. PICK s \in Sessions : s = jar[Browser[t]].session
      BY <2>2, TabBrowser DEF IInv, TypeOK, Tokens
    <3> DEFINE q == [Idle EXCEPT !.kind = "logout", !.step = "reply"]
               r == [q EXCEPT !.step = "revokeCookie", !.session = s]
    <3>2. r \in RequestRows /\ r.step = "revokeCookie" /\ r.kind = "logout"
      BY IdleTyped DEF RequestRows, Idle, Steps, Kinds
    <3>3. request' = [request EXCEPT ![t] = r]
      BY <2>2, <3>1 DEF Logout
    <3> HIDE DEF r
    <3> QED BY <3>2, <3>3
  <2> QED BY <2>1, <2>2
<1>2. UNCHANGED <<jar, access>>
  BY DEF Logout, LogoutCookie
<1>3. request'[t].step \in {"reply", "revokeCookie"} /\ request'[t].kind = "logout"
  BY <1>1 DEF IInv, TypeOK
<1>4. RequestLinks(t)' /\ GuardKnows(t)'
  BY <1>3 DEF RequestLinks, GuardKnows
<1> QED BY <1>1, <1>2, <1>4, RequestMoves

LEMMA DeliverMoves ==
  ASSUME IInv, RowsTyped, Grows, NEW t \in Tabs, DeliverTokens(t)
  PROVE  TypeOK' /\ Links' /\ (\A v \in Tabs : GuardKnows(v)')
<1> DEFINE c == Presented(t)
           cookie == Carried(t)
<1>1. /\ request[t] \in RequestRows
      /\ Issued(cookie) /\ Known(c)
  BY DEF DeliverTokens, IInv, TypeOK, Links, RequestLinks
<1>2. c \in Claims /\ cookie \in Tokens
  BY <1>1 DEF Known, Issued, Claims, Tokens, Presented, Carried
<1>3. jar' = [jar EXCEPT ![Browser[t]] = cookie] /\ access' = [access EXCEPT ![t] = c]
  BY DEF DeliverTokens, Carried
<1>4. jar' \in [Browsers -> Tokens \cup {None}]
  BY <1>2, <1>3, TabBrowser DEF IInv, TypeOK
<1>5. access' \in [Tabs -> Claims \cup {None}]
  BY <1>2, <1>3 DEF IInv, TypeOK
<1>6. \A b \in Browsers : jar'[b] = jar[b] \/ jar'[b] = cookie
  BY <1>3, TabBrowser DEF IInv, TypeOK
<1>7. \A v \in Tabs : access'[v] = access[v] \/ access'[v] = c
  BY <1>3 DEF IInv, TypeOK
<1>8. \A b \in Browsers : jar'[b] = jar[b] \/ jar'[b] = None \/ Issued(jar[b])'
  BY <1>1, <1>6, NamesKept DEF IInv, Issued
<1>9. \A v \in Tabs : access'[v] = access[v] \/ access'[v] = None \/ Known(access[v])'
  BY <1>1, <1>7, NamesKept DEF IInv, Known
<1>10. PICK r \in RequestRows : /\ request' = [request EXCEPT ![t] = r]
                                /\ RequestLinks(t)' /\ GuardKnows(t)'
  <2>1. CASE request[t].kind # "refresh" \/ request[t].again = "none"
    <3>1. request' = [request EXCEPT ![t] = Idle]
      BY <2>1 DEF DeliverTokens, Retry
    <3> QED BY <3>1, IdleTyped, QuietMoves DEF Idle
  <2>2. CASE ~(request[t].kind # "refresh" \/ request[t].again = "none")
    <3>1. request[t].again \in {"api", "change"}
      BY <1>1, <2>2 DEF RequestRows
    <3>2. request' = [request EXCEPT ![t] = GuardRequest(c, request[t].again, "none")]
      BY <2>2 DEF DeliverTokens, Retry
    <3>4. /\ request'[t] \in RequestRows
          /\ request' = [request EXCEPT ![t] = request'[t]]
          /\ RequestLinks(t)' /\ GuardKnows(t)'
      <4> HIDE DEF c
      <4> QED BY <1>1, <1>2, <3>1, <3>2, GuardMoves DEF DeliverTokens
    <3> QED BY <3>4
  <2> QED BY <2>1, <2>2
<1> HIDE DEF c, cookie
<1> QED BY <1>4, <1>5, <1>8, <1>9, <1>10, TabMoves

LEMMA SignOutDelivered ==
  ASSUME IInv, RowsTyped, Grows, NEW t \in Tabs, DeliverLogout(t)
  PROVE  TypeOK' /\ Links' /\ (\A v \in Tabs : GuardKnows(v)')
<1>1. RequestLinks(t)' /\ GuardKnows(t)'
  BY IdleTyped, QuietMoves DEF Idle, DeliverLogout
<1>2. jar' \in [Browsers -> Tokens \cup {None}]
  BY DEF DeliverLogout, IInv, TypeOK
<1>3. access' \in [Tabs -> Claims \cup {None}] BY DEF DeliverLogout, IInv, TypeOK
<1>4. /\ \A b \in Browsers : jar'[b] = jar[b] \/ jar'[b] = None
      /\ \A v \in Tabs : access'[v] = access[v] \/ access'[v] = None
  BY DEF DeliverLogout, IInv, TypeOK
<1> QED BY <1>1, <1>2, <1>3, <1>4, IdleTyped, TabMoves DEF DeliverLogout

LEMMA RefusedMoves ==
  ASSUME IInv, RowsTyped, Grows, NEW t \in Tabs, Refused(t)
  PROVE  TypeOK' /\ Links' /\ (\A v \in Tabs : GuardKnows(v)')
<1>1. CASE request' = [request EXCEPT ![t] = Idle]
           /\ access' = [access EXCEPT ![t] = None]
  BY <1>1, IdleMoves DEF Refused
<1>2. CASE /\ request' = [request EXCEPT ![t] = SendRefresh(t, request[t].kind)]
           /\ request[t].kind \in {"api", "change"}
           /\ UNCHANGED access
  BY <1>2, RefreshMoves DEF Refused
<1> QED BY <1>1, <1>2 DEF Refused

(* Steps that leave every request alone: the rows change, or a tab forgets  *)
(* its access token.                                                        *)
LEMMA RowsMove ==
  ASSUME IInv, RowsTyped, Grows, UNCHANGED <<jar, request>>,
         access' = access \/ \E t \in Tabs : access' = [access EXCEPT ![t] = None]
  PROVE  TypeOK' /\ Links' /\ (\A v \in Tabs : GuardKnows(v)')
<1>1. TypeOK' BY DEF IInv, TypeOK, RowsTyped
<1>2. \A v \in Tabs : RequestLinks(v)' /\ GuardKnows(v)' BY WaitingTab
<1>3. \A b \in Browsers : jar'[b] # None => Issued(jar[b])'
  BY NamesKept DEF IInv, Links, Issued
<1>4. \A v \in Tabs : access'[v] = access[v] \/ access'[v] = None
  BY DEF IInv, TypeOK
<1>5. \A v \in Tabs : access'[v] # None => Known(access[v])'
  BY <1>4, NamesKept DEF IInv, Links, Known
<1> QED BY <1>1, <1>2, <1>3, <1>5 DEF Links

--------------------------------------------------------------------------------
(* The chain of refresh tokens *)

(* A step that leaves each session's tokens alone keeps the chain. *)
LEMMA ChainKept ==
  ASSUME IInv,
         \A s \in Sessions : /\ sessions'[s].user = sessions[s].user
                             /\ sessions'[s].issued = sessions[s].issued
                             /\ sessions'[s].used = sessions[s].used
  PROVE  TokensFormChain'
  BY DEF IInv, TokensFormChain

LEMMA EndingKeepsChain ==
  ASSUME IInv, NEW chosen, NEW reason \in Reasons, sessions' = Revoke(chosen, reason)
  PROVE  TokensFormChain'
<1>1. \A s \in Sessions : /\ sessions'[s].user = sessions[s].user
                          /\ sessions'[s].issued = sessions[s].issued
                          /\ sessions'[s].used = sessions[s].used
  BY RevokeFields DEF IInv
<1> QED BY <1>1, ChainKept

LEMMA CreateExtends ==
  ASSUME IInv, NEW t \in Tabs, NEW s \in Sessions, CreateSession(t, s)
  PROVE  TokensFormChain'
<1>1. sessions'[s].used = {} /\ sessions'[s].issued = 1
  BY DEF CreateSession, NewSession, NoSession, IInv, TypeOK
<1>2. \A v \in Sessions \ {s} : sessions'[v] = sessions[v]
  BY DEF CreateSession, NewSession, IInv, TypeOK
<1>3. {} = 1 .. (1 - 1) OBVIOUS
<1>4. sessions'[s].used = 1 .. (sessions'[s].issued - 1) BY <1>1, <1>3
<1> QED BY <1>2, <1>4 DEF IInv, TokensFormChain

(* The heart of rotation: a token that is issued and not used is the last   *)
(* one of its session, so marking it used and issuing the next extends the  *)
(* chain by one.                                                            *)
LEMMA RotateExtends ==
  ASSUME IInv, NEW t \in Tabs, RotateCommit(t)
  PROVE  TokensFormChain'
<1> DEFINE s == request[t].session
           n == request[t].number
<1>1. CASE n \in sessions[s].used
  BY <1>1, EndingKeepsChain DEF RotateCommit, Reasons
<1>2. CASE n \notin sessions[s].used
  <2>1. Issued(Carried(t))
    BY DEF RotateCommit, At, IInv, Links, RequestLinks
  <2>2. /\ s \in Sessions /\ sessions[s].user # None
        /\ n \in Nat /\ 1 <= n /\ n <= sessions[s].issued
    BY <2>1 DEF Issued, Carried
  <2>3. sessions[s].issued \in Nat BY <2>2 DEF IInv, TypeOK, SessionRows
  <2>4. sessions[s].used = 1 .. (sessions[s].issued - 1)
    BY <2>2 DEF IInv, TokensFormChain
  <2>5. n = sessions[s].issued BY <1>2, <2>2, <2>3, <2>4
  <2>6. /\ sessions'[s].used = sessions[s].used \cup {n}
        /\ sessions'[s].issued = sessions[s].issued + 1
    BY <1>2, <2>2 DEF RotateCommit, IInv, TypeOK, SessionRows
  <2>7. sessions'[s].used = 1 .. (sessions'[s].issued - 1)
    BY <2>2, <2>3, <2>4, <2>5, <2>6
  <2>8. \A v \in Sessions \ {s} : sessions'[v] = sessions[v]
    BY <1>2, <2>2 DEF RotateCommit, IInv, TypeOK
  <2> QED BY <2>7, <2>8 DEF IInv, TokensFormChain
<1> QED BY <1>1, <1>2

LEMMA NextKeepsChain ==
  ASSUME IInv, Next
  PROVE  TokensFormChain'
<1>1. CASE UNCHANGED sessions BY <1>1 DEF IInv, TokensFormChain
<1>2. ASSUME NEW t \in Tabs, TabStep(t) PROVE TokensFormChain'
  <2>1. CASE RotateRead(t)
    BY <1>1, <2>1, EndingKeepsChain DEF RotateRead, Reasons
  <2>2. CASE RefreshCheckUser(t)
    BY <1>1, <2>2, EndingKeepsChain DEF RefreshCheckUser, Reasons
  <2>3. CASE ChangeWrite(t)
    BY <2>3, EndingKeepsChain DEF ChangeWrite, Reasons
  <2>4. CASE Logout(t) \/ LogoutCookie(t)
    BY <2>4, EndingKeepsChain DEF Logout, LogoutCookie, Reasons
  <2> QED BY <1>1, <1>2, <2>1, <2>2, <2>3, <2>4, CreateExtends, RotateExtends
          DEF TabStep, LoginRead, OpenTab, Call, GuardUser, GuardSession, GuardStep,
              AccessExpired, ServeCall, ChangeRead, DeliverTokens, DeliverLogout,
              LoseReply, Refused, CloseTab
<1>3. ASSUME NEW u \in Users, ChangeRoleOrPassword(u) \/ Deactivate(u) \/ Activate(u)
      PROVE  TokensFormChain'
  BY <1>1, <1>3, EndingKeepsChain
     DEF ChangeRoleOrPassword, Deactivate, Activate, ChangeAccount, Reasons
<1>4. ASSUME NEW s \in Sessions, Age(s) PROVE TokensFormChain'
  <2>1. PICK lapse \in Lapses : sessions' = [sessions EXCEPT ![s].age = lapse]
    BY <1>4 DEF Age
  <2>2. \A v \in Sessions : /\ sessions'[v].user = sessions[v].user
                            /\ sessions'[v].issued = sessions[v].issued
                            /\ sessions'[v].used = sessions[v].used
    BY <2>1 DEF IInv, TypeOK, SessionRows
  <2> QED BY <2>2, ChainKept
<1> QED BY <1>2, <1>3, <1>4 DEF Next

--------------------------------------------------------------------------------
(* The invariant is inductive *)

LEMMA InitInvariant == Init => IInv
<1> SUFFICES ASSUME Init PROVE IInv OBVIOUS
<1>1. users \in [Users -> UserRows] BY DEF Init, UserRows
<1>2. NoSession \in SessionRows BY DEF NoSession, SessionRows
<1>3. sessions \in [Sessions -> SessionRows] BY <1>2 DEF Init
<1>4. TypeOK BY <1>1, <1>3, IdleTyped DEF Init, TypeOK
<1>5. Links /\ \A t \in Tabs : GuardKnows(t)
  BY DEF Init, Links, RequestLinks, GuardKnows, Idle
<1>6. TokensFormChain BY DEF Init, NoSession, TokensFormChain
<1> QED BY <1>4, <1>5, <1>6 DEF IInv

LEMMA NextInvariant ==
  ASSUME IInv, Next
  PROVE  IInv'
<1> DEFINE Goal == TypeOK' /\ Links' /\ (\A v \in Tabs : GuardKnows(v)')
<1>1. RowsTyped /\ Grows BY NextGrows DEF IInv
<1>2. ASSUME NEW t \in Tabs, TabStep(t) PROVE Goal
  <2>1. CASE \E u \in Users : LoginRead(t, u) BY <1>1, <2>1, LoginMoves
  <2>2. CASE \E s \in Sessions : CreateSession(t, s) BY <1>1, <2>2, CreateMoves
  <2>3. CASE OpenTab(t) BY <1>1, <2>3, RefreshMoves DEF OpenTab
  <2>4. CASE RotateRead(t) BY <1>1, <2>4, RotateReadMoves
  <2>5. CASE RotateCommit(t) BY <1>1, <2>5, RotateCommitMoves
  <2>6. CASE RefreshCheckUser(t) BY <1>1, <2>6, CheckUserMoves
  <2>7. CASE \E kind \in {"api", "change"} : Call(t, kind) BY <1>1, <2>7, CallMoves
  <2>8. CASE GuardUser(t) \/ GuardSession(t) BY <1>1, <2>8, GuardQueriesMove
  <2>9. CASE AccessExpired(t) BY <1>1, <2>9, FailMoves DEF AccessExpired
  <2>10. CASE ServeCall(t) BY <1>1, <2>10, IdleMoves DEF ServeCall
  <2>11. CASE ChangeRead(t) BY <1>1, <2>11, ChangeReadMoves
  <2>12. CASE ChangeWrite(t) BY <1>1, <2>12, ChangeWriteMoves
  <2>13. CASE Logout(t) \/ LogoutCookie(t) BY <1>1, <2>13, LogoutMoves
  <2>14. CASE DeliverTokens(t) BY <1>1, <2>14, DeliverMoves
  <2>15. CASE DeliverLogout(t) BY <1>1, <2>15, SignOutDelivered
  <2>16. CASE LoseReply(t)
    <3>1. \/ access' = [access EXCEPT ![t] = None]
          \/ access' = [access EXCEPT ![t] = access[t]]
      BY <2>16 DEF LoseReply
    <3>2. [access EXCEPT ![t] = access[t]] = access BY DEF IInv, TypeOK
    <3> QED BY <1>1, <2>16, <3>1, <3>2, IdleMoves DEF LoseReply
  <2>17. CASE Refused(t) BY <1>1, <2>17, RefusedMoves
  <2>18. CASE CloseTab(t) BY <1>1, <2>18, RowsMove DEF CloseTab
  <2> HIDE DEF Goal
  <2> QED BY <1>2, <2>1, <2>2, <2>3, <2>4, <2>5, <2>6, <2>7, <2>8, <2>9, <2>10, <2>11,
             <2>12, <2>13, <2>14, <2>15, <2>16, <2>17, <2>18 DEF TabStep
<1>3. ASSUME NEW u \in Users, ChangeRoleOrPassword(u) \/ Deactivate(u) \/ Activate(u)
      PROVE  Goal
  BY <1>1, <1>3, RowsMove DEF ChangeRoleOrPassword, Deactivate, Activate, ChangeAccount
<1>4. ASSUME NEW s \in Sessions, Age(s) PROVE Goal
  BY <1>1, <1>4, RowsMove DEF Age
<1>5. Goal
  <2> HIDE DEF Goal
  <2> QED BY <1>2, <1>3, <1>4 DEF Next
<1>6. TokensFormChain' BY NextKeepsChain
<1> QED BY <1>5, <1>6 DEF IInv

LEMMA StutterInvariant ==
  ASSUME IInv, UNCHANGED vars
  PROVE  IInv'
  BY DEF vars, IInv, TypeOK, Links, RequestLinks, Issued, Known, Carried, Presented,
         GuardKnows, Over, Outdated, TokensFormChain

LEMMA InvariantHolds == Spec => []IInv
<1>1. IInv /\ [Next]_vars => IInv'
  BY NextInvariant, StutterInvariant
<1> QED BY <1>1, InitInvariant, PTL DEF Spec

--------------------------------------------------------------------------------
(* The theorems *)

(* Every cookie, access token and request of the model has its type, for    *)
(* any number of users, sessions, tabs and browsers (session.service.ts).   *)
THEOREM TypeCorrect == Spec => []TypeOK
<1>1. IInv => TypeOK BY DEF IInv
<1> QED BY <1>1, InvariantHolds, PTL

(* No refresh token is ever redeemed twice and none is skipped: the         *)
(* conditional update of rotateRefreshToken makes the tokens of every       *)
(* session a chain, however many tabs and replies race.                     *)
THEOREM RotationIsLinear == Spec => []TokensFormChain
<1>1. IInv => TokensFormChain BY DEF IInv
<1> QED BY <1>1, InvariantHolds, PTL

(* The two unordered queries of the guard add up: a call they both let      *)
(* through had a live session and the current version when it was sent.     *)
THEOREM GuardIsSound == Spec => []GrantedWasCurrent
<1>1. IInv => GrantedWasCurrent BY DEF IInv, GuardKnows, GrantedWasCurrent
<1> QED BY <1>1, InvariantHolds, PTL

(* Signing out, deactivating, resetting a password or expiring is final for *)
(* every access token given out before, whatever happens afterwards.        *)
THEOREM RefusalIsFinal == Spec => RefusedForGood
<1> DEFINE Stays(c) == /\ Accepts(c) => \A after \in {c} : Accepts(after)' \/ Spent(after)'
                       /\ Spent(c) => \A after \in {c} : Spent(after)'
           Step == \A t \in Tabs : access[t] # None => Stays(access[t])
<1>1. ASSUME IInv, RowsTyped, Grows, NEW t \in Tabs, access[t] # None
      PROVE  Stays(access[t])
  <2> DEFINE c == access[t]
             s == c.session
             u == sessions[s].user
  <2>1. Known(c) BY <1>1 DEF IInv, Links
  <2>2. s \in Sessions /\ u # None /\ u \in Users /\ c.version \in Nat
    BY <1>1, <2>1 DEF Known, IInv, TypeOK, SessionRows
  <2>3. /\ users[u] \in UserRows /\ users'[u] \in UserRows
        /\ sessions[s] \in SessionRows /\ sessions'[s] \in SessionRows
    BY <1>1, <2>2 DEF IInv, TypeOK, RowsTyped
  <2>4. /\ sessions'[s].user = u
        /\ users'[u].version >= users[u].version
        /\ users[u].active => users'[u].active \/ users'[u].version > users[u].version
        /\ sessions[s].revoked # "no" => sessions'[s].revoked # "no"
        /\ sessions[s].age = "expired" => sessions'[s].age = "expired"
    BY <1>1, <2>2 DEF Grows
  <2>5. ASSUME NEW d, d = c, Accepts(c) PROVE Accepts(d)' \/ Spent(d)'
    BY <2>2, <2>3, <2>4, <2>5
       DEF Accepts, Current, Live, Spent, UserRows, SessionRows
  <2>6. ASSUME NEW d, d = c, Spent(c) PROVE Spent(d)'
    BY <2>2, <2>3, <2>4, <2>6 DEF Spent, UserRows, SessionRows
  <2> QED BY <2>5, <2>6
<1>2. IInv /\ [Next]_vars => Step \/ UNCHANGED vars
  <2> SUFFICES ASSUME IInv, Next PROVE Step OBVIOUS
  <2>1. RowsTyped /\ Grows BY NextGrows DEF IInv
  <2> HIDE DEF Stays
  <2> QED BY <1>1, <2>1
<1>3. IInv /\ [Next]_vars => [Step]_vars BY <1>2
<1> QED BY <1>3, InvariantHolds, PTL DEF Spec, RefusedForGood

================================================================================
