----------------------------- MODULE AuthProofs -----------------------------
(***************************************************************************)
(* Theorems about AuthSessions: type correctness, unique usernames,        *)
(* rotation of refresh tokens and the end of deleted accounts, each proved *)
(* from the inductive invariant                                            *)
(* IInv == TypeOK /\ AuthInv /\ UniqueUsernames /\ RotationReplaces        *)
(*                /\ NoPairForDeletedUser;                                 *)
(* and that sessions follow the password, with PasswordInv added to it.    *)
(***************************************************************************)
EXTENDS AuthSessions, TLAPS

\* The type invariant holds initially: a seeded admin is a proper account.
LEMMA InitType == Init => TypeOK
<1> SUFFICES ASSUME Init PROVE TypeOK
    OBVIOUS
<1>1. users \in [UserIDs -> Users \union {NoUser}] /\ used \subseteq UserIDs
  BY AuthAssumption DEF Init, Users
<1>2. /\ issued \subseteq Tokens /\ del \subseteq UserIDs
      /\ late \subseteq Records /\ unrevoked \subseteq UserIDs
  BY DEF Init
<1>3. refresh \in [Tokens -> Sessions \union {NoToken}]
  BY DEF Init
<1>4. req \in [Requests -> {Idle} \union Issuing \union Rotating]
  BY DEF Init
<1>5. upd \in [Updaters -> {Idle} \union Updating]
  BY DEF Init
<1> QED
  BY <1>1, <1>2, <1>3, <1>4, <1>5 DEF TypeOK

\* UpdateUser writes an account with the name of the one it overwrites, or
\* of the one it read.
LEMMA WrittenType ==
  ASSUME NEW u \in Users, NEW old \in Users
  PROVE  /\ Written(u, old) \in Users
         /\ Mongo \/ u.name = old.name => Written(u, old).name = old.name
         /\ Written(u, old).pw = u.pw /\ Written(u, old).roles = u.roles
  BY DEF Written, Users

\* A record that is written replaces an account; nothing else is touched.
LEMMA WriteType ==
  ASSUME TypeOK, NEW id \in UserIDs, NEW u \in Users, Write(id, u)
  PROVE  /\ users' \in [UserIDs -> Users \union {NoUser}]
         /\ unrevoked' \subseteq UserIDs
         /\ users[id] \in Users /\ users'[id] = Written(u, users[id])
         /\ \A i \in UserIDs : i # id => users'[i] = users[i]
         /\ Registered' = Registered
<1>1. users[id] \in Users
  BY DEF Write, Registered, TypeOK
<1>2. Written(u, users[id]) \in Users
  BY <1>1, WrittenType
<1> QED
  BY <1>1, <1>2, AuthAssumption DEF Write, Registered, TypeOK

\* A revocation leaves the requests that are under way where they are.
LEMMA OvertakeType ==
  ASSUME TypeOK, NEW id
  PROVE  /\ Overtake(id) \in [Requests -> {Idle} \union Issuing \union Rotating]
         /\ \A c \in Requests :
              /\ Overtake(id)[c].pc = req[c].pc
              /\ Overtake(id)[c].user = req[c].user
              /\ Overtake(id)[c].parent = req[c].parent
              /\ Overtake(id)[c].gone = req[c].gone
              /\ req[c].pc # "idle" /\ req[c].user = id
                   => Overtake(id)[c].origin.overtaken
              /\ req[c].pc = "idle" \/ req[c].user # id
                   => Overtake(id)[c] = req[c]
<1> SUFFICES ASSUME NEW c \in Requests
             PROVE  /\ Overtake(id)[c] \in {Idle} \union Issuing \union Rotating
                    /\ Overtake(id)[c].pc = req[c].pc
                    /\ Overtake(id)[c].user = req[c].user
                    /\ Overtake(id)[c].parent = req[c].parent
                    /\ Overtake(id)[c].gone = req[c].gone
                    /\ req[c].pc # "idle" /\ req[c].user = id
                         => Overtake(id)[c].origin.overtaken
                    /\ req[c].pc = "idle" \/ req[c].user # id
                         => Overtake(id)[c] = req[c]
  BY DEF Overtake
<1>1. CASE req[c].pc = "idle" \/ req[c].user # id
  BY <1>1 DEF Overtake, TypeOK
<1>2. CASE req[c].pc # "idle" /\ req[c].user = id
  <2>1. /\ req[c] \in Issuing \union Rotating
        /\ Overtake(id)[c] = [req[c] EXCEPT !.origin.overtaken = TRUE]
    BY <1>2 DEF Overtake, TypeOK, Idle
  <2>2. CASE req[c] \in Issuing
    <3>1. [req[c].origin EXCEPT !.overtaken = TRUE] \in Origins
      BY <2>2 DEF Issuing, Origins
    <3>2. /\ Overtake(id)[c] \in Issuing
          /\ Overtake(id)[c].origin = [req[c].origin EXCEPT !.overtaken = TRUE]
      BY <2>1, <2>2, <3>1 DEF Issuing
    <3>3. Overtake(id)[c].origin.overtaken
      BY <2>2, <3>2 DEF Issuing, Origins
    <3> QED
      BY <1>2, <2>1, <2>2, <3>2, <3>3 DEF Issuing
  <2>3. CASE req[c] \in Rotating
    BY <1>2, <2>1, <2>3 DEF Rotating, Origins
  <2> QED
    BY <2>1, <2>2, <2>3
<1> QED
  BY <1>1, <1>2

\* A token that Refresh failed to delete is the same session as before.
LEMMA KeptType ==
  ASSUME TypeOK, NEW t \in Tokens
  PROVE  /\ Kept(t) \in [Tokens -> Sessions \union {NoToken}]
         /\ \A x \in Tokens : x # t => Kept(t)[x] = refresh[x]
         /\ t \in Live =>
              Kept(t)[t] \in Sessions /\ Kept(t)[t].kept
                /\ Kept(t)[t].parent = refresh[t].parent
         /\ t \notin Live => Kept(t) = refresh
<1>1. CASE t \in Live
  BY <1>1 DEF TypeOK, Kept, Live, Sessions
<1>2. CASE t \notin Live
  BY <1>2 DEF TypeOK, Kept
<1> QED
  BY <1>1, <1>2, AuthAssumption

\* Every step of accounts, sessions and updates preserves the types.
LEMMA NextType == TypeOK /\ [Next]_vars => TypeOK'
<1> SUFFICES ASSUME TypeOK, [Next]_vars PROVE TypeOK'
    OBVIOUS
<1> USE DEF TypeOK
<1>1. CASE UNCHANGED vars
  BY <1>1 DEF vars
<1>2. ASSUME NEW id \in UserIDs, NEW name \in Usernames, NEW pw \in Passwords,
             NEW roles \in RoleLists \union {{}}, CreateUser(id, name, pw, roles)
      PROVE  TypeOK'
  BY <1>2, AuthAssumption DEF CreateUser, Named, Users
<1>3. ASSUME NEW id \in UserIDs, DeleteUser(id)
      PROVE  TypeOK'
  BY <1>3 DEF DeleteUser, WithoutTokensOf, Registered
<1>4. ASSUME NEW c \in Updaters, NEW id \in UserIDs,
             NEW roles \in {Keep} \union RoleLists,
             NEW pw \in {Keep} \union Passwords, UpdateRead(c, id, roles, pw)
      PROVE  TypeOK'
  <2> DEFINE old == users[id]
             u == [old EXCEPT !.roles = IF roles = Keep THEN @ ELSE roles,
                              !.pw = IF pw = Keep THEN @ ELSE pw]
             call == [pc |-> "write", user |-> id, roles |-> roles, pw |-> pw,
                      u |-> u]
  <2>1. old \in Users
    BY <1>4 DEF UpdateRead, Registered
  <2>2. u \in Users
    BY <2>1, AuthAssumption DEF Users
  <2>3. call \in Updating
    <3> HIDE DEF u
    <3> QED
      BY <2>2, AuthAssumption DEF Updating
  <2>4. /\ upd' = [upd EXCEPT ![c] = call]
        /\ UNCHANGED <<users, refresh, req, del, used, issued, late, unrevoked>>
    BY <1>4 DEF UpdateRead
  <2> HIDE DEF call
  <2> QED
    BY <2>3, <2>4
<1>5. ASSUME NEW c \in Updaters, UpdateWrite(c)
      PROVE  TypeOK'
  <2>1. upd[c] \in Updating
    BY <1>5 DEF UpdateWrite, Idle
  <2>2. /\ users' \in [UserIDs -> Users \union {NoUser}]
        /\ unrevoked' \subseteq UserIDs
    BY <1>5, <2>1, WriteType DEF UpdateWrite, Updating
  <2>3. [upd[c] EXCEPT !.pc = "revoke"] \in Updating
    BY <2>1 DEF Updating
  <2>4. /\ \E new \in {Idle} \union Updating : upd' = [upd EXCEPT ![c] = new]
        /\ UNCHANGED <<refresh, req, del, used, issued>>
    BY <1>5, <2>3 DEF UpdateWrite
  <2>5. late' \subseteq Records
    BY <1>5, <2>1 DEF UpdateWrite, Updating, Records
  <2> QED
    BY <2>2, <2>4, <2>5
<1>6. ASSUME NEW c \in Updaters, UpdateRevoke(c)
      PROVE  TypeOK'
  <2>1. upd[c] \in Updating
    BY <1>6 DEF UpdateRevoke, Idle
  <2>2. refresh' \in [Tokens -> Sessions \union {NoToken}]
    BY <1>6 DEF UpdateRevoke, WithoutTokensOf
  <2>3. req' \in [Requests -> {Idle} \union Issuing \union Rotating]
    BY <1>6, OvertakeType DEF UpdateRevoke
  <2> QED
    BY <1>6, <2>2, <2>3 DEF UpdateRevoke
<1>7. ASSUME NEW c \in Requests, NEW name \in Usernames, NEW pw \in Passwords,
             Login(c, name, pw)
      PROVE  TypeOK'
  <2>1. PICK id \in Registered :
          req' = [req EXCEPT ![c] =
            [pc |-> "issue", user |-> id, roles |-> users[id].roles,
             parent |-> NoToken, gone |-> FALSE,
             origin |-> [pw |-> pw, overtaken |-> FALSE]]]
    BY <1>7 DEF Login, Named
  <2>2. /\ users[id].roles \in SUBSET Roles
        /\ [pw |-> pw, overtaken |-> FALSE] \in Origins
    BY DEF Registered, Users, Origins
  <2>3. [pc |-> "issue", user |-> id, roles |-> users[id].roles,
         parent |-> NoToken, gone |-> FALSE,
         origin |-> [pw |-> pw, overtaken |-> FALSE]] \in Issuing
    BY <2>2 DEF Issuing, Registered
  <2>4. req' \in [Requests -> {Idle} \union Issuing \union Rotating]
    BY <2>1, <2>3
  <2> QED
    BY <1>7, <2>4 DEF Login, Named
<1>8. ASSUME NEW c \in Requests, NEW t \in Tokens, RefreshGet(c, t)
      PROVE  TypeOK'
  <2> DEFINE call == [pc |-> "rotate", user |-> refresh[t].user,
                      origin |-> refresh[t].origin, parent |-> t,
                      gone |-> refresh[t].user \in Gone]
  <2>1. call \in Rotating
    BY <1>8 DEF RefreshGet, Rotating, Sessions, Live
  <2>2. req' = [req EXCEPT ![c] = call]
    BY <1>8 DEF RefreshGet
  <2>3. req' \in [Requests -> {Idle} \union Issuing \union Rotating]
    <3> HIDE DEF call
    <3> QED
      BY <2>1, <2>2
  <2> QED
    BY <1>8, <2>3 DEF RefreshGet
<1>9. ASSUME NEW c \in Requests, NEW t \in Tokens, IssueTokens(c, t)
      PROVE  TypeOK'
  BY <1>9 DEF IssueTokens, Issuing, Rotating, Sessions, Idle
<1>10. ASSUME NEW c \in Requests, RefreshRotate(c)
       PROVE  TypeOK'
  <2>1. req[c] \in Rotating
    BY <1>10 DEF RefreshRotate, Issuing, Idle
  <2>2. [req[c] EXCEPT !.pc = "lookup"] \in Rotating
    BY <2>1 DEF Rotating
  <2>3. req' \in [Requests -> {Idle} \union Issuing \union Rotating]
    BY <1>10, <2>2 DEF RefreshRotate
  <2>4. refresh' \in [Tokens -> Sessions \union {NoToken}]
    <3>1. req[c].parent \in Tokens
      BY <2>1 DEF Rotating
    <3> QED
      BY <1>10, <3>1, KeptType DEF RefreshRotate
  <2> QED
    BY <1>10, <2>3, <2>4 DEF RefreshRotate
<1>11. ASSUME NEW c \in Requests, RefreshLookup(c)
       PROVE  TypeOK'
  <2>1. req[c] \in Rotating
    BY <1>11 DEF RefreshLookup, Issuing, Idle
  <2>2. req[c].user \in Registered => users[req[c].user].roles \in SUBSET Roles
    BY <2>1 DEF Registered, Users
  <2>3. \E new \in {Idle} \union Issuing : req' = [req EXCEPT ![c] = new]
    BY <1>11, <2>1, <2>2 DEF RefreshLookup, Rotating, Issuing
  <2>4. req' \in [Requests -> {Idle} \union Issuing \union Rotating]
    BY <2>3
  <2> QED
    BY <1>11, <2>4 DEF RefreshLookup
<1>12. ASSUME NEW t \in Tokens, Logout(t)
       PROVE  TypeOK'
  BY <1>12 DEF Logout
<1>13. ASSUME NEW t \in Tokens, Expire(t)
       PROVE  TypeOK'
  BY <1>13 DEF Expire, Sessions, Live
<1>14. ASSUME NEW id \in UserIDs, DeleteTokens(id)
       PROVE  TypeOK'
  BY <1>14 DEF DeleteTokens, WithoutTokensOf
<1>15. ASSUME NEW c \in Requests, Abandon(c)
       PROVE  TypeOK'
  BY <1>15 DEF Abandon
<1>16. ASSUME NEW w \in late, WriteLate(w)
       PROVE  TypeOK'
  <2>1. w.user \in UserIDs /\ w.u \in Users /\ Write(w.user, w.u)
    BY <1>16 DEF WriteLate, Records
  <2> QED
    BY <1>16, <2>1, WriteType DEF WriteLate
<1> QED
  BY <1>1, <1>2, <1>3, <1>4, <1>5, <1>6, <1>7, <1>8, <1>9, <1>10, <1>11,
     <1>12, <1>13, <1>14, <1>15, <1>16
  DEF Next, UserStep, UpdateStep, UpdateContinues, RequestStep

\* The inductive invariant.
IInv == /\ TypeOK /\ AuthInv
        /\ UniqueUsernames /\ RotationReplaces /\ NoPairForDeletedUser

\* A request in progress is issuing or rotating and has all its fields; an
\* update in progress likewise.
LEMMA InProgress ==
  ASSUME TypeOK
  PROVE  /\ \A c \in Requests : req[c].pc # "idle" =>
              /\ req[c] \in Issuing \union Rotating
              /\ req[c].pc = "issue" => req[c] \in Issuing
              /\ req[c].pc \in {"rotate", "lookup"} => req[c] \in Rotating
         /\ \A c \in Updaters : upd[c].pc # "idle" => upd[c] \in Updating
  BY DEF TypeOK, Idle, Issuing, Rotating, Updating

\* IInv holds before the first request.
LEMMA InitInv == Init => IInv
<1> SUFFICES ASSUME Init PROVE IInv
    OBVIOUS
<1>1. TypeOK
  BY InitType
<1>2. /\ Live = {} /\ Registered \subseteq used
      /\ \A a, b \in Registered : a = b
  BY DEF Init, Live, Registered
<1>3. /\ \A c \in Requests : req[c].pc = "idle"
      /\ \A c \in Updaters : upd[c].pc = "idle"
  BY DEF Init, Idle
<1>4. AuthInv
  BY <1>2, <1>3 DEF AuthInv, StaleRecordsKeepNames, ParentsAreSpent,
                         DeletedStayDeleted
<1>5. UniqueUsernames /\ RotationReplaces /\ NoPairForDeletedUser
  BY <1>2, <1>3 DEF UniqueUsernames, RotationReplaces, NoPairForDeletedUser
<1> QED
  BY <1>1, <1>4, <1>5 DEF IInv

\* Accounts: usernames stay unique, although UpdateUser writes back records
\* that it read some steps ago.
LEMMA AccountsStep ==
  ASSUME TypeOK, StaleRecordsKeepNames, UniqueUsernames, [Next]_vars
  PROVE  StaleRecordsKeepNames' /\ UniqueUsernames'
<1> USE DEF StaleRecordsKeepNames, UniqueUsernames, Registered
<1>1. CASE UNCHANGED <<users, upd, used>>
  BY <1>1
<1>2. ASSUME NEW id \in UserIDs, NEW name \in Usernames, NEW pw \in Passwords,
             NEW roles \in RoleLists \union {{}}, CreateUser(id, name, pw, roles)
      PROVE  StaleRecordsKeepNames' /\ UniqueUsernames'
  BY <1>2, InProgress DEF CreateUser, Named, TypeOK
<1>3. ASSUME NEW id \in UserIDs, DeleteUser(id)
      PROVE  StaleRecordsKeepNames' /\ UniqueUsernames'
  BY <1>3, InProgress DEF DeleteUser, TypeOK
<1>4. ASSUME NEW c \in Updaters, NEW id \in UserIDs,
             NEW roles \in {Keep} \union RoleLists,
             NEW pw \in {Keep} \union Passwords, UpdateRead(c, id, roles, pw)
      PROVE  StaleRecordsKeepNames' /\ UniqueUsernames'
  <2>1. UNCHANGED <<users, used>> /\ id \in used /\ users[id] \in Users
    BY <1>4 DEF UpdateRead, TypeOK
  <2>2. upd'[c].user = id /\ upd'[c].u.name = users[id].name
    BY <1>4, <2>1 DEF UpdateRead, TypeOK, Users
  <2>3. \A d \in Updaters : d # c => upd'[d] = upd[d]
    BY <1>4 DEF UpdateRead, TypeOK
  <2> QED
    BY <2>1, <2>2, <2>3
<1>5. ASSUME NEW c \in Updaters, UpdateWrite(c)
      PROVE  StaleRecordsKeepNames' /\ UniqueUsernames'
  <2>1. upd[c] \in Updating /\ upd[c].u \in Users /\ upd[c].u # NoUser
    BY <1>5, InProgress, AuthAssumption DEF UpdateWrite, Updating
  <2>2. /\ used' = used
        /\ \A d \in Updaters : upd'[d].pc = "write" => upd'[d] = upd[d]
    BY <1>5, <2>1 DEF UpdateWrite, TypeOK, Idle, Updating
  <2>3. CASE users' = users
    BY <2>2, <2>3
  <2>4. CASE Write(upd[c].user, upd[c].u)
    <3>1. upd[c].user \in UserIDs /\ users[upd[c].user].name = upd[c].u.name
      BY <1>5, <2>1, <2>4 DEF UpdateWrite, Updating, Write
    <3>2. \A i \in Registered : users'[i].name = users[i].name
      BY <2>1, <2>4, <3>1, WriteType, WrittenType
    <3>3. Registered' = Registered
      BY <2>1, <2>4, <3>1, WriteType
    <3> QED
      BY <2>2, <3>2, <3>3
  <2> QED
    BY <1>5, <2>3, <2>4 DEF UpdateWrite
<1>6. ASSUME NEW c \in Updaters, UpdateRevoke(c)
      PROVE  StaleRecordsKeepNames' /\ UniqueUsernames'
  <2>1. /\ UNCHANGED <<users, used>>
        /\ \A d \in Updaters : upd'[d].pc = "write" => upd'[d] = upd[d]
    BY <1>6 DEF UpdateRevoke, TypeOK, Idle
  <2> QED
    BY <2>1
<1>7. ASSUME NEW w \in late, WriteLate(w)
      PROVE  StaleRecordsKeepNames' /\ UniqueUsernames'
  <2>1. /\ w.user \in UserIDs /\ w.u \in Users /\ Write(w.user, w.u) /\ Mongo
        /\ UNCHANGED <<upd, used>>
    BY <1>7 DEF WriteLate, Records, TypeOK
  <2>2. \A i \in Registered : users'[i].name = users[i].name
    BY <2>1, WriteType, WrittenType
  <2>3. Registered' = Registered
    BY <2>1, WriteType
  <2> QED
    BY <2>1, <2>2, <2>3
<1> QED
  BY <1>1, <1>2, <1>3, <1>4, <1>5, <1>6, <1>7
  DEF Next, UserStep, UpdateStep, UpdateContinues, RequestStep, vars,
      DeleteTokens, Login, Named,
      IssueTokens, Abandon, RefreshGet, RefreshRotate, RefreshLookup, Logout,
      Expire

\* Tokens that go take no new parent with them: deleting, revoking, logging
\* out and expiring only shrink the set of valid tokens.
LEMMA TokensShrink ==
  ASSUME TypeOK, ParentsAreSpent, RotationReplaces,
         issued' = issued, Live' \subseteq Live,
         \A c \in Requests : /\ req'[c].pc = req[c].pc
                             /\ req'[c].parent = req[c].parent,
         \A t \in Live' : /\ refresh'[t].parent = refresh[t].parent
                          /\ refresh'[t].kept = refresh[t].kept
  PROVE  ParentsAreSpent' /\ RotationReplaces'
  BY DEF ParentsAreSpent, RotationReplaces

\* Sessions: a token and its replacement are never valid together, whatever
\* requests present it at the same time.
LEMMA TokensStep ==
  ASSUME TypeOK, ParentsAreSpent, RotationReplaces, [Next]_vars
  PROVE  ParentsAreSpent' /\ RotationReplaces'
<1> USE DEF ParentsAreSpent, RotationReplaces, Live
<1>1. CASE UNCHANGED <<refresh, req, issued>>
  BY <1>1
<1>2. ASSUME \/ \E id \in UserIDs : DeleteUser(id)
             \/ \E id \in UserIDs : DeleteTokens(id)
             \/ \E c \in Updaters : UpdateRevoke(c)
      PROVE  ParentsAreSpent' /\ RotationReplaces'
  <2>1. /\ issued' = issued
        /\ refresh' = refresh \/ \E id : refresh' = WithoutTokensOf(id)
        /\ \A c \in Requests : /\ req'[c].pc = req[c].pc
                               /\ req'[c].parent = req[c].parent
    BY <1>2, OvertakeType DEF DeleteUser, DeleteTokens, UpdateRevoke
  <2>2. CASE refresh' = refresh
    BY <2>1, <2>2, TokensShrink
  <2>3. CASE \E id : refresh' = WithoutTokensOf(id)
    BY <2>1, <2>3, TokensShrink DEF WithoutTokensOf, TypeOK
  <2> QED
    BY <2>1, <2>2, <2>3
<1>3. ASSUME NEW t \in Tokens, Logout(t) \/ Expire(t)
      PROVE  ParentsAreSpent' /\ RotationReplaces'
  <2>1. CASE Logout(t)
    BY <2>1, TokensShrink DEF Logout, TypeOK
  <2>2. CASE Expire(t)
    BY <2>2, TokensShrink DEF Expire, TypeOK, Sessions
  <2> QED
    BY <1>3, <2>1, <2>2
<1>4. ASSUME NEW c \in Requests, NEW name \in Usernames, NEW pw \in Passwords,
             Login(c, name, pw)
      PROVE  ParentsAreSpent' /\ RotationReplaces'
  <2>1. /\ UNCHANGED <<refresh, issued>>
        /\ req'[c].parent = NoToken /\ req'[c].pc = "issue"
        /\ \A d \in Requests : d # c => req'[d] = req[d]
    BY <1>4 DEF Login, Named, TypeOK
  <2> QED
    BY <2>1, AuthAssumption
<1>5. ASSUME NEW c \in Requests, NEW t \in Tokens, RefreshGet(c, t)
      PROVE  ParentsAreSpent' /\ RotationReplaces'
  <2>1. /\ UNCHANGED <<refresh, issued>> /\ t \in issued
        /\ req'[c].parent = t /\ req'[c].pc = "rotate"
        /\ \A d \in Requests : d # c => req'[d] = req[d]
    BY <1>5 DEF RefreshGet, TypeOK
  <2> QED
    BY <2>1
<1>6. ASSUME NEW c \in Requests, NEW t \in Tokens, IssueTokens(c, t)
      PROVE  ParentsAreSpent' /\ RotationReplaces'
  <2>1. /\ req[c].pc = "issue" /\ t \notin issued
        /\ issued' = issued \union {t}
        /\ refresh'[t].parent = req[c].parent
        /\ \A x \in Tokens : x # t => refresh'[x] = refresh[x]
        /\ req'[c] = Idle
        /\ \A d \in Requests : d # c => req'[d] = req[d]
    BY <1>6 DEF IssueTokens, TypeOK
  <2>2. Live' \subseteq Live \union {t}
    BY <2>1
  <2>3. /\ req[c].parent \in issued \union {NoToken}
        /\ req[c].parent \in Live => refresh[req[c].parent].kept
        /\ NoToken \notin Tokens
        /\ \A x \in Live : refresh[x].parent \in issued \union {NoToken}
    BY <2>1, AuthAssumption
  <2>4. RotationReplaces'
    BY <2>1, <2>2, <2>3
  <2>5. ParentsAreSpent'
    BY <2>1, <2>2, <2>3 DEF Idle
  <2> QED
    BY <2>4, <2>5
<1>7. ASSUME NEW c \in Requests, RefreshRotate(c)
      PROVE  ParentsAreSpent' /\ RotationReplaces'
  <2>1. req[c] \in Rotating /\ req[c].parent \in Tokens
    BY <1>7, InProgress DEF RefreshRotate, Rotating
  <2>2. /\ issued' = issued
        /\ \A x \in Tokens : x # req[c].parent => refresh'[x] = refresh[x]
        /\ req[c].pc # "idle" /\ req'[c].parent = req[c].parent
        /\ \A d \in Requests : d # c => req'[d] = req[d]
    BY <1>7, <2>1, KeptType DEF RefreshRotate, TypeOK, Rotating
  <2>3. \/ refresh'[req[c].parent] = NoToken
        \/ /\ req[c].parent \in Live /\ refresh'[req[c].parent].kept
           /\ refresh'[req[c].parent].parent = refresh[req[c].parent].parent
    BY <1>7, <2>1, KeptType DEF RefreshRotate, TypeOK
  <2>4. /\ Live' \subseteq Live
        /\ \A x \in Live' : /\ refresh'[x].parent = refresh[x].parent
                            /\ refresh[x].kept => refresh'[x].kept
        /\ req[c].parent \in Live' => refresh'[req[c].parent].kept
    BY <2>1, <2>2, <2>3
  <2>5. ParentsAreSpent'
    BY <2>1, <2>2, <2>4
  <2>6. RotationReplaces'
    BY <2>4
  <2> QED
    BY <2>5, <2>6
<1>8. ASSUME NEW c \in Requests, RefreshLookup(c)
      PROVE  ParentsAreSpent' /\ RotationReplaces'
  <2>1. req[c] \in Rotating
    BY <1>8, InProgress DEF RefreshLookup
  <2>2. /\ UNCHANGED <<refresh, issued>> /\ req[c].pc = "lookup"
        /\ req'[c] = Idle \/ req'[c].parent = req[c].parent
        /\ \A d \in Requests : d # c => req'[d] = req[d]
    BY <1>8, <2>1 DEF RefreshLookup, TypeOK, Rotating
  <2> QED
    BY <2>2 DEF Idle
<1>9. ASSUME NEW c \in Requests, Abandon(c)
      PROVE  ParentsAreSpent' /\ RotationReplaces'
  <2>1. /\ UNCHANGED <<refresh, issued>> /\ req'[c] = Idle
        /\ \A d \in Requests : d # c => req'[d] = req[d]
    BY <1>9 DEF Abandon, TypeOK
  <2> QED
    BY <2>1 DEF Idle
<1> QED
  BY <1>1, <1>2, <1>3, <1>4, <1>5, <1>6, <1>7, <1>8, <1>9
  DEF Next, UserStep, UpdateStep, UpdateContinues, RequestStep, vars,
      CreateUser, UpdateRead, UpdateWrite, WriteLate

\* Deletion: no request that began after a user was deleted issues tokens for
\* that user.  Deleted users never come back, so Refresh's second look at the
\* account settles it.
LEMMA DeletionStep ==
  ASSUME TypeOK, StaleRecordsKeepNames, DeletedStayDeleted,
         NoPairForDeletedUser, [Next]_vars
  PROVE  DeletedStayDeleted' /\ NoPairForDeletedUser'
<1> USE DEF DeletedStayDeleted, NoPairForDeletedUser
<1>1. Gone \subseteq Gone'
  <2> USE DEF Gone, Registered
  <2>1. CASE UNCHANGED <<users, used>>
    BY <2>1
  <2>2. ASSUME NEW id \in UserIDs, NEW name \in Usernames,
               NEW pw \in Passwords, NEW roles \in RoleLists \union {{}},
               CreateUser(id, name, pw, roles)
        PROVE  Gone \subseteq Gone'
    BY <2>2 DEF CreateUser, Named, TypeOK
  <2>3. ASSUME NEW id \in UserIDs, DeleteUser(id)
        PROVE  Gone \subseteq Gone'
    BY <2>3 DEF DeleteUser, TypeOK
  <2>4. ASSUME NEW c \in Updaters, UpdateWrite(c)
        PROVE  Gone \subseteq Gone'
    BY <2>4 DEF UpdateWrite, Write, TypeOK
  <2>5. ASSUME NEW w \in late, WriteLate(w)
        PROVE  Gone \subseteq Gone'
    BY <2>5 DEF WriteLate, Write, TypeOK
  <2> QED
    BY <2>1, <2>2, <2>3, <2>4, <2>5
    DEF Next, UserStep, UpdateStep, UpdateContinues, RequestStep, vars,
      DeleteTokens, UpdateRead,
        UpdateRevoke, Login, Named, IssueTokens, Abandon, RefreshGet, RefreshRotate,
        RefreshLookup, Logout, Expire
<1>2. CASE req' = req
  BY <1>1, <1>2
<1>3. ASSUME NEW c \in Requests, NEW name \in Usernames, NEW pw \in Passwords,
             Login(c, name, pw)
      PROVE  DeletedStayDeleted' /\ NoPairForDeletedUser'
  <2>1. /\ req'[c].gone = FALSE
        /\ \A d \in Requests : d # c => req'[d] = req[d]
    BY <1>3 DEF Login, Named, TypeOK
  <2> QED
    BY <1>1, <2>1 DEF Gone, Registered
<1>4. ASSUME NEW c \in Requests, NEW t \in Tokens, RefreshGet(c, t)
      PROVE  DeletedStayDeleted' /\ NoPairForDeletedUser'
  <2>1. /\ req'[c].gone => req'[c].user \in Gone
        /\ req'[c].pc = "rotate"
        /\ \A d \in Requests : d # c => req'[d] = req[d]
    BY <1>4 DEF RefreshGet, TypeOK
  <2> QED
    BY <1>1, <2>1
<1>5. ASSUME NEW c \in Requests,
             Abandon(c) \/ \E t \in Tokens : IssueTokens(c, t)
      PROVE  DeletedStayDeleted' /\ NoPairForDeletedUser'
  <2>1. /\ req'[c].pc = "idle"
        /\ \A d \in Requests : d # c => req'[d] = req[d]
    BY <1>5 DEF Abandon, IssueTokens, TypeOK, Idle
  <2> QED
    BY <1>1, <2>1
<1>6. ASSUME NEW c \in Requests, RefreshRotate(c)
      PROVE  DeletedStayDeleted' /\ NoPairForDeletedUser'
  <2>1. req[c] \in Rotating /\ req[c].pc # "idle"
    BY <1>6, InProgress DEF RefreshRotate
  <2>2. /\ req'[c].pc = "lookup" /\ req'[c].gone = req[c].gone
        /\ req'[c].user = req[c].user
        /\ \A d \in Requests : d # c => req'[d] = req[d]
    BY <1>6, <2>1 DEF RefreshRotate, TypeOK, Rotating
  <2> QED
    BY <1>1, <2>1, <2>2
<1>7. ASSUME NEW c \in Requests, RefreshLookup(c)
      PROVE  DeletedStayDeleted' /\ NoPairForDeletedUser'
  <2>1. req[c] \in Rotating /\ req[c].pc # "idle"
    BY <1>7, InProgress DEF RefreshLookup
  <2>2. CASE req[c].user \in Registered
    <3>1. /\ req'[c].gone = req[c].gone /\ req'[c].user = req[c].user
          /\ \A d \in Requests : d # c => req'[d] = req[d]
      BY <1>7, <2>1, <2>2 DEF RefreshLookup, TypeOK, Rotating
    <3>2. ~req[c].gone
      BY <2>1, <2>2 DEF Gone, Registered
    <3> QED
      BY <1>1, <2>1, <3>1, <3>2
  <2>3. CASE req[c].user \notin Registered
    <3>1. /\ req'[c].pc = "idle"
          /\ \A d \in Requests : d # c => req'[d] = req[d]
      BY <1>7, <2>3 DEF RefreshLookup, TypeOK, Idle
    <3> QED
      BY <1>1, <3>1
  <2> QED
    BY <2>2, <2>3
<1>8. ASSUME NEW c \in Updaters, UpdateRevoke(c)
      PROVE  DeletedStayDeleted' /\ NoPairForDeletedUser'
  <2>1. \A d \in Requests : /\ req'[d].pc = req[d].pc /\ req'[d].user = req[d].user
                            /\ req'[d].gone = req[d].gone
    BY <1>8, OvertakeType DEF UpdateRevoke
  <2> QED
    BY <1>1, <2>1
<1> QED
  BY <1>2, <1>3, <1>4, <1>5, <1>6, <1>7, <1>8
  DEF Next, UserStep, UpdateStep, UpdateContinues, RequestStep, vars,
      CreateUser, DeleteUser, DeleteTokens, UpdateRead, UpdateWrite, WriteLate,
      Logout, Expire

-----------------------------------------------------------------------------
(* Sessions follow the password.                                           *)

\* A login o of the user id, whose tokens are stored or still to be stored,
\* carries the stored password, unless that has changed since the user's tokens
\* were last revoked or a request of the session was under way when they were.
Fits(o, id) ==
  /\ id \in used
  /\ (id \in Registered /\ id \notin unrevoked)
       => o.pw = users[id].pw \/ o.overtaken

\* Every valid token, and every request that may still store one, comes from a
\* login that fits.
PasswordInv ==
  /\ \A t \in Live : Fits(refresh[t].origin, refresh[t].user)
  /\ \A c \in Requests : req[c].pc # "idle" => Fits(req[c].origin, req[c].user)

\* A step of UpdateUser that deletes the user's refresh tokens.
Revokes(c) ==
  /\ UpdateRevoke(c)
  /\ refresh' = WithoutTokensOf(upd[c].user)
  /\ req' = Overtake(upd[c].user)
  /\ unrevoked' = unrevoked \ {upd[c].user}

\* Whatever is done to the account short of revoking its tokens, a login that
\* fits it goes on fitting: the user of a new password is yet to be revoked.
LEMMA FitsStays ==
  ASSUME TypeOK, [Next]_vars, NEW o \in Origins, NEW id \in UserIDs, Fits(o, id),
         ~ \E c \in Updaters : Revokes(c)
  PROVE  Fits(o, id)'
<1> USE DEF Fits
<1>1. CASE UNCHANGED <<users, used, unrevoked>>
  BY <1>1 DEF Registered
<1>2. ASSUME NEW i \in UserIDs, NEW name \in Usernames, NEW pw \in Passwords,
             NEW roles \in RoleLists \union {{}}, CreateUser(i, name, pw, roles)
      PROVE  Fits(o, id)'
  <2>1. /\ i # id /\ users'[id] = users[id] /\ id \in used'
        /\ unrevoked' = unrevoked
    BY <1>2 DEF CreateUser, TypeOK
  <2> QED
    BY <2>1 DEF Registered
<1>3. ASSUME NEW i \in UserIDs, DeleteUser(i)
      PROVE  Fits(o, id)'
  <2>1. /\ users' = [users EXCEPT ![i] = NoUser]
        /\ used' = used /\ unrevoked' = unrevoked \ {i}
    BY <1>3 DEF DeleteUser
  <2> QED
    BY <2>1 DEF Registered, TypeOK
<1>4. ASSUME NEW i \in UserIDs, NEW u \in Users, Write(i, u), used' = used
      PROVE  Fits(o, id)'
  <2>1. /\ Registered' = Registered
        /\ i # id => users'[id] = users[id]
        /\ users'[i].pw = u.pw
    BY <1>4, WriteType, WrittenType
  <2>2. unrevoked' = IF u.pw = users[i].pw THEN unrevoked ELSE unrevoked \union {i}
    BY <1>4 DEF Write
  <2> QED
    BY <1>4, <2>1, <2>2
<1>5. ASSUME NEW c \in Updaters, UpdateWrite(c)
      PROVE  Fits(o, id)'
  <2>1. /\ upd[c].user \in UserIDs /\ upd[c].u \in Users /\ used' = used
        /\ Write(upd[c].user, upd[c].u) \/ UNCHANGED <<users, unrevoked>>
    BY <1>5, InProgress DEF UpdateWrite, Updating
  <2> QED
    BY <1>1, <1>4, <2>1
<1>6. ASSUME NEW w \in late, WriteLate(w)
      PROVE  Fits(o, id)'
  <2>1. /\ w.user \in UserIDs /\ w.u \in Users /\ used' = used
        /\ Write(w.user, w.u)
    BY <1>6 DEF WriteLate, Records, TypeOK
  <2> QED
    BY <1>4, <2>1
<1>7. ASSUME NEW c \in Updaters, UpdateRevoke(c)
      PROVE  UNCHANGED <<users, used, unrevoked>>
  BY <1>7 DEF UpdateRevoke, Revokes
<1> QED
  BY <1>1, <1>2, <1>3, <1>5, <1>6, <1>7
  DEF Next, UserStep, UpdateStep, UpdateContinues, RequestStep, vars,
      DeleteTokens, UpdateRead, Login, IssueTokens, Abandon, RefreshGet,
      RefreshRotate, RefreshLookup, Logout, Expire

\* A valid token was valid before with the same login behind it, or a request
\* has just stored it.
LEMMA TokenOrigins ==
  ASSUME TypeOK, [Next]_vars, NEW t \in Live'
  PROVE  \/ /\ t \in Live
            /\ refresh'[t].user = refresh[t].user
            /\ refresh'[t].origin = refresh[t].origin
         \/ \E c \in Requests : /\ req[c].pc = "issue"
                                /\ refresh'[t].user = req[c].user
                                /\ refresh'[t].origin = req[c].origin
<1> USE DEF Live
<1>1. CASE refresh' = refresh
  BY <1>1
<1>2. CASE \E id : refresh' = WithoutTokensOf(id)
  BY <1>2 DEF WithoutTokensOf
<1>3. CASE \E x \in Tokens : refresh' = [refresh EXCEPT ![x] = NoToken]
  BY <1>3 DEF TypeOK
<1>4. ASSUME NEW x \in Tokens, Expire(x)
      PROVE  /\ t \in Live
             /\ refresh'[t].user = refresh[t].user
             /\ refresh'[t].origin = refresh[t].origin
  <2>1. refresh[x] \in Sessions
    BY <1>4 DEF Expire, TypeOK
  <2> QED
    BY <1>4, <2>1 DEF Expire, TypeOK, Sessions
<1>5. ASSUME NEW c \in Requests, RefreshRotate(c)
      PROVE  /\ t \in Live
             /\ refresh'[t].user = refresh[t].user
             /\ refresh'[t].origin = refresh[t].origin
  <2>1. req[c].parent \in Tokens
    BY <1>5, InProgress DEF RefreshRotate, Rotating
  <2>2. CASE refresh' = [refresh EXCEPT ![req[c].parent] = NoToken]
    BY <2>1, <2>2 DEF TypeOK
  <2>3. CASE refresh' = Kept(req[c].parent)
    <3>1. CASE req[c].parent \in Live
      <4>1. refresh[req[c].parent] \in Sessions
        BY <2>1, <3>1 DEF TypeOK
      <4> QED
        BY <2>1, <2>3, <3>1, <4>1 DEF Kept, TypeOK, Sessions
    <3>2. CASE req[c].parent \notin Live
      BY <2>3, <3>2 DEF Kept
    <3> QED
      BY <3>1, <3>2
  <2> QED
    BY <1>5, <2>2, <2>3 DEF RefreshRotate
<1>6. ASSUME NEW c \in Requests, NEW x \in Tokens, IssueTokens(c, x)
      PROVE  \/ /\ t \in Live
                /\ refresh'[t].user = refresh[t].user
                /\ refresh'[t].origin = refresh[t].origin
             \/ /\ req[c].pc = "issue"
                /\ refresh'[t].user = req[c].user
                /\ refresh'[t].origin = req[c].origin
  BY <1>6 DEF IssueTokens, TypeOK
<1> QED
  BY <1>1, <1>2, <1>3, <1>4, <1>5, <1>6
  DEF Next, UserStep, UpdateStep, UpdateContinues, RequestStep, vars,
      CreateUser, DeleteUser, DeleteTokens, UpdateRead, UpdateWrite, WriteLate,
      UpdateRevoke, Login, Abandon, RefreshGet, RefreshLookup, Logout

\* A request in progress goes on with the login it began with: its own, or the
\* one behind the token it presents.
LEMMA RequestOrigins ==
  ASSUME TypeOK, [Next]_vars, NEW c \in Requests, req'[c].pc # "idle",
         ~ \E d \in Updaters : Revokes(d)
  PROVE  \/ /\ req[c].pc # "idle"
            /\ req'[c].user = req[c].user
            /\ req'[c].origin = req[c].origin
         \/ \E t \in Live : /\ req'[c].user = refresh[t].user
                            /\ req'[c].origin = refresh[t].origin
         \/ \E id \in Registered :
              /\ req'[c].user = id
              /\ req'[c].origin = [pw |-> users[id].pw, overtaken |-> FALSE]
              /\ UNCHANGED <<users, used, unrevoked>>
<1>1. CASE req'[c] = req[c]
  BY <1>1
<1>2. ASSUME NEW name \in Usernames, NEW pw \in Passwords, Login(c, name, pw)
      PROVE  \E id \in Registered :
               /\ req'[c].user = id
               /\ req'[c].origin = [pw |-> users[id].pw, overtaken |-> FALSE]
               /\ UNCHANGED <<users, used, unrevoked>>
  <2>1. PICK id \in Registered :
          /\ users[id].pw = pw
          /\ req' = [req EXCEPT ![c] =
               [pc |-> "issue", user |-> id, roles |-> users[id].roles,
                parent |-> NoToken, gone |-> FALSE,
                origin |-> [pw |-> pw, overtaken |-> FALSE]]]
    BY <1>2 DEF Login, Named
  <2>2. req'[c].user = id /\ req'[c].origin = [pw |-> pw, overtaken |-> FALSE]
    BY <2>1 DEF TypeOK
  <2> QED
    BY <1>2, <2>1, <2>2 DEF Login
<1>3. ASSUME NEW t \in Tokens, RefreshGet(c, t)
      PROVE  /\ t \in Live
             /\ req'[c].user = refresh[t].user
             /\ req'[c].origin = refresh[t].origin
  BY <1>3 DEF RefreshGet, TypeOK
<1>4. ASSUME RefreshRotate(c) \/ RefreshLookup(c)
      PROVE  /\ req[c].pc # "idle"
             /\ req'[c].user = req[c].user
             /\ req'[c].origin = req[c].origin
  <2>1. req[c] \in Rotating /\ req[c].pc # "idle"
    BY <1>4, InProgress DEF RefreshRotate, RefreshLookup
  <2> QED
    BY <1>4, <2>1 DEF RefreshRotate, RefreshLookup, TypeOK, Rotating, Idle
<1>5. ASSUME Abandon(c) \/ \E t \in Tokens : IssueTokens(c, t)
      PROVE  FALSE
  BY <1>5 DEF Abandon, IssueTokens, TypeOK, Idle
<1>6. ASSUME NEW d \in Requests, RequestStep(d), d # c
      PROVE  req'[c] = req[c]
  BY <1>6 DEF RequestStep, Login, RefreshGet, IssueTokens, RefreshRotate,
              RefreshLookup, Abandon, TypeOK
<1>7. ASSUME RequestStep(c)
      PROVE  \/ /\ req[c].pc # "idle"
                /\ req'[c].user = req[c].user
                /\ req'[c].origin = req[c].origin
             \/ \E t \in Live : /\ req'[c].user = refresh[t].user
                                /\ req'[c].origin = refresh[t].origin
             \/ \E id \in Registered :
                  /\ req'[c].user = id
                  /\ req'[c].origin = [pw |-> users[id].pw, overtaken |-> FALSE]
                  /\ UNCHANGED <<users, used, unrevoked>>
  BY <1>2, <1>3, <1>4, <1>5, <1>7 DEF RequestStep
<1>8. CASE ~ \E d \in Requests : RequestStep(d)
  <2>1. req' = req
    BY <1>8 DEF Next, UserStep, UpdateStep, UpdateContinues, vars, CreateUser,
         DeleteUser, DeleteTokens, UpdateRead, UpdateWrite, WriteLate,
         UpdateRevoke, Revokes, Logout, Expire
  <2> QED
    BY <2>1
<1> QED
  BY <1>1, <1>6, <1>7, <1>8

\* A revocation leaves nothing that does not fit: the user's tokens are gone,
\* and the requests under way are marked.
LEMMA RevocationFits ==
  ASSUME TypeOK, PasswordInv, NEW a \in Updaters, Revokes(a)
  PROVE  PasswordInv'
<1>1. PICK id \in UserIDs : id = upd[a].user
  BY InProgress DEF Revokes, UpdateRevoke, Updating
<1>2. /\ refresh' = WithoutTokensOf(id) /\ req' = Overtake(id)
      /\ unrevoked' = unrevoked \ {id} /\ UNCHANGED <<users, used>>
  BY <1>1 DEF Revokes, UpdateRevoke
<1>3. ASSUME NEW t \in Live'
      PROVE  Fits(refresh[t].origin, refresh[t].user)'
  <2>1. t \in Live /\ refresh'[t] = refresh[t] /\ refresh[t].user # id
    BY <1>2 DEF Live, WithoutTokensOf
  <2> QED
    BY <1>2, <2>1 DEF PasswordInv, Fits, Registered
<1>4. ASSUME NEW c \in Requests, req'[c].pc # "idle"
      PROVE  Fits(req[c].origin, req[c].user)'
  <2>1. req[c].pc # "idle" /\ req'[c].user = req[c].user
    BY <1>2, <1>4, OvertakeType
  <2>2. CASE req[c].user = id
    BY <1>2, <2>1, <2>2, OvertakeType DEF PasswordInv, Fits
  <2>3. CASE req[c].user # id
    <3>1. req'[c] = req[c]
      BY <1>2, <2>3, OvertakeType
    <3> QED
      BY <1>2, <2>1, <2>3, <3>1 DEF PasswordInv, Fits, Registered
  <2> QED
    BY <2>2, <2>3
<1> QED
  BY <1>3, <1>4 DEF PasswordInv

\* Every step keeps PasswordInv: logins go on fitting, tokens and requests take
\* their logins from logins that fit.
LEMMA PasswordStep ==
  ASSUME TypeOK, TypeOK', StaleRecordsKeepNames, PasswordInv, [Next]_vars
  PROVE  PasswordInv'
<1>0. CASE \E c \in Updaters : Revokes(c)
  BY <1>0, RevocationFits
<1>a. SUFFICES ASSUME ~ \E c \in Updaters : Revokes(c)
               PROVE  PasswordInv'
  BY <1>0
<1>1. /\ \A t \in Live : /\ refresh[t].origin \in Origins
                         /\ refresh[t].user \in UserIDs
                         /\ Fits(refresh[t].origin, refresh[t].user)
      /\ \A c \in Requests : req[c].pc # "idle" =>
           /\ req[c].origin \in Origins /\ req[c].user \in UserIDs
           /\ Fits(req[c].origin, req[c].user)
  <2>1. \A t \in Live : refresh[t] \in Sessions
    BY DEF TypeOK, Live
  <2> QED
    BY <2>1, InProgress DEF PasswordInv, Sessions, Issuing, Rotating
<1>2. \A o \in Origins, id \in UserIDs : Fits(o, id) => Fits(o, id)'
  BY <1>a, FitsStays
<1>3. ASSUME NEW t \in Live'
      PROVE  Fits(refresh[t].origin, refresh[t].user)'
  <2>1. PICK o \in Origins, id \in UserIDs :
          /\ Fits(o, id)
          /\ refresh'[t].origin = o /\ refresh'[t].user = id
    BY <1>1, TokenOrigins
  <2>2. Fits(o, id)'
    BY <1>2, <2>1
  <2> QED
    BY <2>1, <2>2 DEF Fits, Registered
<1>4. ASSUME NEW c \in Requests, req'[c].pc # "idle"
      PROVE  Fits(req[c].origin, req[c].user)'
  <2>1. CASE \E o \in Origins, id \in UserIDs :
               /\ Fits(o, id)
               /\ req'[c].origin = o /\ req'[c].user = id
    <3>1. PICK o \in Origins, id \in UserIDs :
            /\ Fits(o, id)
            /\ req'[c].origin = o /\ req'[c].user = id
      BY <2>1
    <3>2. Fits(o, id)'
      BY <1>2, <3>1
    <3> QED
      BY <3>1, <3>2 DEF Fits, Registered
  <2>2. CASE \E id \in Registered :
               /\ req'[c].user = id
               /\ req'[c].origin = [pw |-> users[id].pw, overtaken |-> FALSE]
               /\ UNCHANGED <<users, used, unrevoked>>
    <3>1. PICK id \in Registered :
               /\ req'[c].user = id
               /\ req'[c].origin = [pw |-> users[id].pw, overtaken |-> FALSE]
               /\ UNCHANGED <<users, used, unrevoked>>
      BY <2>2
    <3>2. id \in used
      BY DEF StaleRecordsKeepNames
    <3> QED
      BY <3>1, <3>2 DEF Fits, Registered
  <2> QED
    BY <1>a, <1>1, <1>4, <2>1, <2>2, RequestOrigins
<1> QED
  BY <1>3, <1>4 DEF PasswordInv

\* IInv is an invariant of the specification.
LEMMA Invariance == Spec => []IInv
<1>1. IInv /\ [Next]_vars => IInv'
  BY NextType, AccountsStep, TokensStep, DeletionStep DEF IInv, AuthInv
<1> QED
  BY InitInv, <1>1, PTL DEF Spec

\* Every reachable state of auth.Service and its user store has its type.
THEOREM TypeCorrect == Spec => []TypeOK
<1> QED
  BY InitType, NextType, PTL DEF Spec

\* No two accounts ever share a username, for any number of concurrent
\* CreateUser, UpdateUser and DeleteUser calls.
THEOREM UsernamesUnique == Spec => []UniqueUsernames
<1>1. IInv => UniqueUsernames
  BY DEF IInv
<1> QED
  BY Invariance, <1>1, PTL

\* Rotation replaces: a refresh token and one obtained in exchange for it are
\* never valid together, for any number of concurrent Refresh calls.
THEOREM RotationSound == Spec => []RotationReplaces
<1>1. IInv => RotationReplaces
  BY DEF IInv
<1> QED
  BY Invariance, <1>1, PTL

\* No Login or Refresh that begins after an account was deleted issues tokens
\* for it.
THEOREM DeletionFinal == Spec => []NoPairForDeletedUser
<1>1. IInv => NoPairForDeletedUser
  BY DEF IInv
<1> QED
  BY Invariance, <1>1, PTL

\* Once the user's tokens have been revoked, and until the stored password
\* changes again, every valid token stems from a login with the stored password
\* or from a request that was under way at the revocation, whatever updates,
\* writes executed behind an error, logins, refreshes, deletions and failing
\* revocations interleave, for any number of clients.
THEOREM SessionsFollowPassword == Spec => []SessionsMatchPassword
<1>1. Init => PasswordInv
  BY DEF Init, PasswordInv, Live, Idle
<1>2. IInv /\ IInv' /\ PasswordInv /\ [Next]_vars => PasswordInv'
  BY PasswordStep DEF IInv, AuthInv
<1>3. PasswordInv => SessionsMatchPassword
  BY DEF PasswordInv, SessionsMatchPassword, Fits
<1> QED
  BY Invariance, <1>1, <1>2, <1>3, PTL DEF Spec
=============================================================================
