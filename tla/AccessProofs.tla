---------------------------- MODULE AccessProofs ----------------------------
(***************************************************************************)
(* Theorems about Access, for any users, roles, tokens, requests and       *)
(* lifetimes: access tokens leave the accounts and sessions as AuthProofs  *)
(* knows them, a lost role dies out, and authority comes from authority.   *)
(***************************************************************************)
EXTENDS Access, AuthProofs

\* Every step of the routes is a step of the auth service or none of it.
LEMMA AccessSteps == AccessNext => [Next]_vars
<1>1. Public => Next
  BY DEF Public, Next, RequestStep
<1>2. ASSUME NEW c \in Requests, NEW t \in Tokens, Generate(c, t)
      PROVE  Next
  BY <1>2 DEF Generate, Next, RequestStep
<1>3. ASSUME NEW a \in Updaters, Handle(a)
      PROVE  [Next]_vars
  BY <1>3 DEF Handle, Next, UserStep, UpdateStep
<1>4. Finish => Next
  BY DEF Finish, Next, UserStep, UpdateStep
<1>5. ASSUME NEW a \in Updaters, NEW t \in Tokens, Admit(a, t)
      PROVE  UNCHANGED vars
  BY <1>5 DEF Admit
<1>6. Tick => UNCHANGED vars
  BY DEF Tick
<1> QED
  BY <1>1, <1>2, <1>3, <1>4, <1>5, <1>6 DEF AccessNext

\* The server with its middleware implements the auth service on its own, so
\* what AuthProofs shows of accounts and sessions holds behind the routes too.
THEOREM AccessImplementsSessions == AccessSpec => Spec
<1>1. AccessInit => Init
  BY DEF AccessInit
<1>2. [AccessNext]_allVars => [Next]_vars
  BY AccessSteps DEF allVars
<1> QED
  BY <1>1, <1>2, PTL DEF AccessSpec, Spec

\* The lifetime of a token is positive.
LEMMA TtlPositive == ttl \in Nat /\ ttl > 0
  BY AccessAssumption DEF ttl

\* Every variable of the access layer has its type.
THEOREM AccessTypeCorrect == AccessSpec => []AccessTypeOK
<1>1. AccessInit /\ TypeOK => AccessTypeOK
  BY DEF AccessInit, AccessTypeOK
<1>2. ASSUME AccessTypeOK, TypeOK', [AccessNext]_allVars
      PROVE  AccessTypeOK'
  <2> USE DEF AccessTypeOK
  <2>1. ASSUME NEW c \in Requests, NEW t \in Tokens, Generate(c, t)
        PROVE  AccessTypeOK'
    <3>1. req[c].user \in UserIDs /\ req[c].roles \in SUBSET Roles
      <4>1. req[c].pc = "issue" /\ req[c] \in {Idle} \union Issuing \union Rotating
        BY <1>2, <2>1 DEF Generate, IssueTokens, TypeOK
      <4> QED
        BY <4>1 DEF Idle, Issuing, Rotating
    <3>2. [user |-> req[c].user, roles |-> req[c].roles, exp |-> now + ttl,
           late |-> ~(req[c].roles \subseteq RolesOf(req[c].user))] \in Claims
      <4>1. now + ttl \in Nat
        BY <1>2, TtlPositive
      <4> QED
        BY <3>1, <4>1 DEF Claims
    <3> QED
      BY <1>2, <2>1, <3>2 DEF Generate
  <2>2. ASSUME NEW a \in Updaters, Handle(a)
        PROVE  AccessTypeOK'
    BY <1>2, <2>2 DEF Handle, NoteLosses
  <2>3. CASE Finish
    BY <1>2, <2>3 DEF Finish, NoteLosses
  <2>4. ASSUME NEW a \in Updaters, NEW t \in Tokens, Admit(a, t)
        PROVE  AccessTypeOK'
    BY <1>2, <2>4 DEF Admit
  <2>5. CASE Tick
    BY <1>2, <2>5 DEF Tick
  <2>6. CASE Public \/ UNCHANGED allVars
    BY <1>2, <2>6 DEF Public, allVars, accessVars
  <2> QED
    BY <1>2, <2>1, <2>2, <2>3, <2>4, <2>5, <2>6 DEF AccessNext
<1> QED
  BY <1>1, <1>2, AccessImplementsSessions, TypeCorrect, PTL DEF AccessSpec

-----------------------------------------------------------------------------
\* A token that was issued with roles its owner had keeps them in step with
\* the account, or the account has lost one so recently that the token expires
\* within a lifetime of the loss.
ClaimFollows(t) ==
  access[t] # NoToken =>
    /\ access[t].exp <= now + ttl
    /\ \/ access[t].late
       \/ access[t].roles \subseteq RolesOf(access[t].user)
       \/ access[t].exp <= changed[access[t].user] + ttl

ClaimsFollow ==
  /\ \A id \in UserIDs : changed[id] <= now
  /\ \A t \in Tokens : ClaimFollows(t)

\* The parts of a claim that is there.
LEMMA ClaimTypes ==
  ASSUME AccessTypeOK, NEW t \in Tokens, access[t] # NoToken
  PROVE  access[t].user \in UserIDs /\ access[t].exp \in Nat
  BY DEF AccessTypeOK, Claims

\* A step that only changes accounts, and notes who loses a role.
LEMMA LossStep ==
  ASSUME AccessTypeOK, ClaimsFollow, NoteLosses, UNCHANGED <<now, access>>
  PROVE  ClaimsFollow'
<1>1. ASSUME NEW id \in UserIDs
      PROVE  /\ changed'[id] <= now /\ changed'[id] >= changed[id]
             /\ changed'[id] \in Nat
             /\ RolesOf(id) \subseteq RolesOf(id)' \/ changed'[id] = now
  BY DEF NoteLosses, ClaimsFollow, AccessTypeOK
<1>2. ASSUME NEW t \in Tokens, access[t] # NoToken
      PROVE  ClaimFollows(t)'
  <2>1. PICK id \in UserIDs : id = access[t].user
    BY <1>2, ClaimTypes
  <2>2. PICK x \in Nat : x = access[t].exp
    BY <1>2, ClaimTypes
  <2>3. /\ x <= now + ttl
        /\ \/ access[t].late
           \/ access[t].roles \subseteq RolesOf(id)
           \/ x <= changed[id] + ttl
    BY <1>2, <2>1, <2>2 DEF ClaimsFollow, ClaimFollows
  <2>4. x <= changed[id] + ttl => x <= changed'[id] + ttl
    BY <1>1, TtlPositive DEF AccessTypeOK
  <2>5. \/ RolesOf(id) \subseteq RolesOf(id)'
        \/ x <= changed'[id] + ttl
    BY <1>1, <2>3
  <2>6. \/ access[t].late
        \/ access[t].roles \subseteq RolesOf(id)'
        \/ x <= changed'[id] + ttl
    BY <2>3, <2>4, <2>5
  <2>7. RolesOf(access[t].user)' = RolesOf(id)'
    BY <2>1
  <2> QED
    BY <2>1, <2>2, <2>3, <2>6, <2>7 DEF ClaimFollows
<1>3. \A t \in Tokens : access[t] = NoToken => ClaimFollows(t)'
  BY DEF ClaimFollows
<1> QED
  BY <1>1, <1>2, <1>3 DEF ClaimsFollow

\* Every step preserves ClaimsFollow.
LEMMA ClaimsStep == AccessTypeOK /\ ClaimsFollow /\ [AccessNext]_allVars => ClaimsFollow'
<1> SUFFICES ASSUME AccessTypeOK, ClaimsFollow, [AccessNext]_allVars
             PROVE  ClaimsFollow'
    OBVIOUS
<1>1. CASE UNCHANGED <<users, now, access, changed>>
  BY <1>1 DEF ClaimsFollow, ClaimFollows, RolesOf, Registered
<1>2. ASSUME NEW c \in Requests, NEW s \in Tokens, Generate(c, s)
      PROVE  ClaimsFollow'
  <2>1. UNCHANGED <<users, now, changed>>
    BY <1>2 DEF Generate, IssueTokens
  <2>2. /\ access'[s].exp = now + ttl /\ access'[s].user = req[c].user
        /\ access'[s].roles = req[c].roles
        /\ access'[s].late = ~(req[c].roles \subseteq RolesOf(req[c].user))
    BY <1>2 DEF Generate, AccessTypeOK
  <2>3. \A t \in Tokens : t # s => access'[t] = access[t]
    BY <1>2 DEF Generate, AccessTypeOK
  <2>4. ClaimFollows(s)'
    <3>1. now + ttl <= now + ttl
      BY TtlPositive DEF AccessTypeOK
    <3> QED
      BY <2>1, <2>2, <3>1 DEF ClaimFollows, RolesOf, Registered
  <2>5. \A t \in Tokens : t # s => ClaimFollows(t)'
    BY <2>1, <2>3 DEF ClaimsFollow, ClaimFollows, RolesOf, Registered
  <2> QED
    BY <2>1, <2>4, <2>5 DEF ClaimsFollow
<1>3. CASE Tick
  <2>1. now' = now + 1 /\ UNCHANGED <<users, access, changed>>
    BY <1>3 DEF Tick, vars
  <2>2. \A id \in UserIDs : changed'[id] <= now'
    BY <2>1 DEF ClaimsFollow, AccessTypeOK
  <2>3. ASSUME NEW t \in Tokens, access[t] # NoToken
        PROVE  access[t].exp <= now' + ttl
    <3>1. access[t].exp <= now + ttl
      BY <2>3 DEF ClaimsFollow, ClaimFollows
    <3> QED
      BY <2>1, <2>3, <3>1, ClaimTypes, TtlPositive DEF AccessTypeOK
  <2>4. \A t \in Tokens : ClaimFollows(t)'
    BY <2>1, <2>3 DEF ClaimsFollow, ClaimFollows, RolesOf, Registered
  <2> QED
    BY <2>2, <2>4 DEF ClaimsFollow
<1>4. CASE Finish
  BY <1>4, LossStep DEF Finish
<1>5. ASSUME NEW a \in Updaters, Handle(a)
      PROVE  ClaimsFollow'
  BY <1>5, LossStep DEF Handle
<1>6. CASE Public
  BY <1>1, <1>6 DEF Public, accessVars, Login, Named, RefreshGet, RefreshRotate,
                    RefreshLookup, Abandon, Logout, Expire
<1>7. ASSUME NEW a \in Updaters, NEW t \in Tokens, Admit(a, t)
      PROVE  ClaimsFollow'
  BY <1>1, <1>7 DEF Admit, vars
<1>8. CASE UNCHANGED allVars
  BY <1>1, <1>8 DEF allVars, accessVars, vars
<1> QED
  BY <1>2, <1>3, <1>4, <1>5, <1>6, <1>7, <1>8 DEF AccessNext

\* A role that was lost opens no door a lifetime later.
THEOREM StaleAccessDies == AccessSpec => []StaleAccessDiesOut
<1>1. AccessInit => ClaimsFollow
  BY DEF AccessInit, ClaimsFollow, ClaimFollows
<1>2. AccessTypeOK /\ ClaimsFollow => StaleAccessDiesOut
  <2> SUFFICES ASSUME AccessTypeOK, ClaimsFollow, NEW t \in Tokens, Parse(t),
                      ~access[t].late,
                      ~(access[t].roles \subseteq RolesOf(access[t].user))
               PROVE  now < changed[access[t].user] + ttl
    BY DEF StaleAccessDiesOut
  <2>1. access[t].exp <= changed[access[t].user] + ttl
    BY DEF ClaimsFollow, ClaimFollows, Parse
  <2>2. changed[access[t].user] + ttl \in Nat /\ access[t].exp \in Nat /\ now \in Nat
    BY ClaimTypes, TtlPositive DEF AccessTypeOK, Parse
  <2>3. now < access[t].exp
    BY DEF Parse
  <2> QED
    BY <2>1, <2>2, <2>3
<1> QED
  BY <1>1, <1>2, ClaimsStep, AccessTypeCorrect, PTL DEF AccessSpec

-----------------------------------------------------------------------------
\* Without authority no step creates any.
LEMMA AuthorityStep ==
  ASSUME AccessTypeOK, [AccessNext]_allVars, ~Authority
  PROVE  ~Authority'
<1>1. /\ \A id \in Registered : Admin \notin users[id].roles
      /\ \A t \in Tokens : ~(Parse(t) /\ Admin \in access[t].roles)
      /\ \A c \in Requests : ~(req[c].pc = "issue" /\ Admin \in req[c].roles)
      /\ admitted = {}
      /\ \A a \in Updaters : ~(upd[a].pc = "write" /\ Admin \in upd[a].u.roles)
      /\ \A w \in late : Admin \notin w.u.roles
  BY DEF Authority
<1>2. CASE UNCHANGED <<users, req, upd, late, now, access, admitted>>
  BY <1>1, <1>2 DEF Authority, Registered, Parse
<1>3. CASE Tick
  <2>1. \A t \in Tokens : Parse(t)' => Parse(t)
    BY <1>3, ClaimTypes DEF Tick, Parse, AccessTypeOK
  <2> QED
    BY <1>1, <1>3, <2>1 DEF Tick, Authority, Registered, vars
<1>4. ASSUME NEW c \in Requests, NEW t \in Tokens, Generate(c, t)
      PROVE  ~Authority'
  <2>1. /\ UNCHANGED <<users, upd, late, now, admitted>>
        /\ req' = [req EXCEPT ![c] = Idle] /\ req[c].pc = "issue"
    BY <1>4 DEF Generate, IssueTokens
  <2>2. \A d \in Requests : req'[d].pc = "issue" => req'[d] = req[d]
    BY <2>1 DEF AccessTypeOK, TypeOK, Idle
  <2>3. access'[t].roles = req[c].roles /\ \A s \in Tokens : s # t => access'[s] = access[s]
    BY <1>4 DEF Generate, AccessTypeOK
  <2>4. \A s \in Tokens : ~(Parse(s)' /\ Admin \in access'[s].roles)
    BY <1>1, <2>1, <2>3 DEF Parse
  <2> QED
    BY <1>1, <2>1, <2>2, <2>4 DEF Authority, Registered
<1>5. \A a \in Updaters : ~Handle(a) /\ \A t \in Tokens : ~Admit(a, t)
  BY <1>1 DEF Admit, Handle, RequireRole
<1>6. CASE Finish
  <2>1. /\ UNCHANGED <<now, access, admitted>>
        /\ \A c \in Requests : req'[c].pc = "issue" =>
             req[c].pc = "issue" /\ req'[c].roles = req[c].roles
    <3>1. ASSUME NEW a \in Updaters, UpdateRevoke(a), NEW c \in Requests,
                 req'[c].pc = "issue"
          PROVE  req[c].pc = "issue" /\ req'[c].roles = req[c].roles
      <4>1. req[c].pc = "issue"
        BY <3>1, OvertakeType DEF UpdateRevoke, AccessTypeOK
      <4>2. req[c] \in Issuing
        BY <4>1, InProgress DEF AccessTypeOK
      <4> QED
        BY <3>1, <4>1, <4>2 DEF UpdateRevoke, Overtake, Issuing
    <3> QED
      BY <1>6, <3>1 DEF Finish, UpdateContinues, UpdateWrite, WriteLate,
                        DeleteTokens
  <2>2. ASSUME NEW i \in UserIDs, NEW u \in Users, Write(i, u), Admin \notin u.roles
        PROVE  \A id \in Registered' : Admin \notin users'[id].roles
    BY <1>1, <2>2, WriteType, WrittenType DEF AccessTypeOK, Registered
  <2>3. ASSUME NEW a \in Updaters, UpdateWrite(a)
        PROVE  /\ \A id \in Registered' : Admin \notin users'[id].roles
               /\ \A b \in Updaters : upd'[b].pc = "write" => upd'[b] = upd[b]
               /\ \A w \in late' : Admin \notin w.u.roles
    <3>1. upd[a] \in Updating /\ upd[a].pc = "write"
      BY <2>3, InProgress DEF UpdateWrite, AccessTypeOK
    <3>2. /\ upd[a].user \in UserIDs /\ upd[a].u \in Users
          /\ Admin \notin upd[a].u.roles
      BY <1>1, <3>1 DEF Updating
    <3>3. \A b \in Updaters : upd'[b].pc = "write" => upd'[b] = upd[b]
      BY <2>3, <3>1 DEF UpdateWrite, AccessTypeOK, TypeOK, Idle, Updating
    <3>4. \A w \in late' : Admin \notin w.u.roles
      BY <1>1, <2>3, <3>2 DEF UpdateWrite
    <3>5. \A id \in Registered' : Admin \notin users'[id].roles
      <4>1. CASE Write(upd[a].user, upd[a].u)
        BY <2>2, <3>2, <4>1
      <4>2. CASE users' = users
        BY <1>1, <4>2 DEF Registered
      <4> QED
        BY <2>3, <4>1, <4>2 DEF UpdateWrite
    <3> QED
      BY <3>3, <3>4, <3>5
  <2>4. ASSUME NEW x \in late, WriteLate(x)
        PROVE  /\ \A id \in Registered' : Admin \notin users'[id].roles
               /\ upd' = upd
               /\ \A w \in late' : Admin \notin w.u.roles
    <3>1. x.user \in UserIDs /\ x.u \in Users /\ Admin \notin x.u.roles
      BY <1>1 DEF AccessTypeOK, TypeOK, Records
    <3> QED
      BY <1>1, <2>2, <2>4, <3>1 DEF WriteLate
  <2>5. ASSUME NEW a \in Updaters, UpdateRevoke(a)
        PROVE  /\ UNCHANGED <<users, late>>
               /\ \A b \in Updaters : upd'[b].pc = "write" => upd'[b] = upd[b]
    BY <2>5 DEF UpdateRevoke, AccessTypeOK, TypeOK, Idle
  <2>6. ASSUME NEW id \in UserIDs, DeleteTokens(id)
        PROVE  UNCHANGED <<users, upd, late>>
    BY <2>6 DEF DeleteTokens
  <2>7. /\ \A id \in Registered' : Admin \notin users'[id].roles
        /\ \A b \in Updaters : upd'[b].pc = "write" => upd'[b] = upd[b]
        /\ \A w \in late' : Admin \notin w.u.roles
    BY <1>1, <1>6, <2>3, <2>4, <2>5, <2>6 DEF Finish, UpdateContinues, Registered
  <2> QED
    BY <1>1, <2>1, <2>7 DEF Authority, Parse
<1>7. CASE Public
  <2>1. UNCHANGED <<users, upd, late, now, access, admitted>>
    BY <1>7 DEF Public, accessVars, Login, Named, RefreshGet, RefreshRotate,
                RefreshLookup, Abandon, Logout, Expire
  <2>2. ASSUME NEW c \in Requests, req'[c].pc = "issue", req'[c] # req[c]
        PROVE  \E id \in Registered : req'[c].roles = users[id].roles
    <3>1. ASSUME NEW d \in Requests,
                 \/ \E name \in Usernames, pw \in Passwords : Login(d, name, pw)
                 \/ RefreshLookup(d)
          PROVE  \E id \in Registered : req'[c].roles = users[id].roles
      BY <2>2, <3>1 DEF Login, Named, RefreshLookup, Idle, AccessTypeOK, TypeOK
    <3>2. ASSUME NEW d \in Requests,
                 \/ \E t \in Tokens : RefreshGet(d, t)
                 \/ RefreshRotate(d) \/ Abandon(d)
          PROVE  FALSE
      BY <2>2, <3>2 DEF RefreshGet, RefreshRotate, Abandon, Idle, AccessTypeOK,
                        TypeOK, Issuing, Rotating
    <3>3. ASSUME NEW t \in Tokens, Logout(t) \/ Expire(t)
          PROVE  FALSE
      BY <2>2, <3>3 DEF Logout, Expire
    <3> QED
      BY <1>7, <3>1, <3>2, <3>3 DEF Public
  <2> QED
    BY <1>1, <2>1, <2>2 DEF Authority, Registered, Parse
<1>8. CASE UNCHANGED allVars
  BY <1>2, <1>8 DEF allVars, accessVars, vars
<1> QED
  BY <1>3, <1>4, <1>5, <1>6, <1>7, <1>8 DEF AccessNext

\* Once nobody has authority, or is about to have it, nobody ever will.
THEOREM AuthorityFromAuthority == AccessSpec => NoAuthorityFromNothing
<1>1. AccessTypeOK /\ [AccessNext]_allVars => [~Authority => ~Authority']_allVars
  BY AuthorityStep
<1> QED
  BY <1>1, AccessTypeCorrect, PTL DEF AccessSpec, NoAuthorityFromNothing
=============================================================================
