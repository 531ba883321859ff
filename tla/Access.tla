------------------------------- MODULE Access -------------------------------
(***************************************************************************)
(* Access tokens and the routes they open: internal/auth/auth.go,          *)
(* middleware.go and the account routes of internal/api/handlers.go, over  *)
(* the accounts and sessions of module AuthSessions.                       *)
(*                                                                         *)
(* An access token is a signed claim: whose it is, which roles its owner   *)
(* had when the account was read, and until when it is good.  No store     *)
(* knows of it, so nothing can take it back; the middleware looks at the   *)
(* claim and the clock only.  A handler that was let through acts later,   *)
(* when token and account may be gone.                                     *)
(***************************************************************************)
EXTENDS AuthSessions, Integers

CONSTANTS
  TTL,         \* cfg.JWTTTL
  DefaultTTL,  \* of NewManager, if TTL is not positive
  MaxTime      \* bound: of the clock

ASSUME AccessAssumption ==
  /\ TTL \in Int
  /\ DefaultTTL \in Nat \ {0}
  /\ MaxTime \in Nat

ttl == IF TTL <= 0 THEN DefaultTTL ELSE TTL

\* The access token that is handed out together with a refresh token; exp is
\* the first moment at which it is no longer good.  late: history, the owner's
\* roles had changed already when it was issued.
Claims == [user : UserIDs, roles : SUBSET Roles, exp : Nat, late : BOOLEAN]

VARIABLES
  now,       \* the clock
  access,    \* by the refresh token it was issued with
  admitted,  \* handlers of account routes that RequireRole has let through
  changed    \* history: when an account last lost a role or was deleted

accessVars == <<now, access, admitted, changed>>
allVars    == <<vars, accessVars>>

RolesOf(id) == IF id \in Registered THEN users[id].roles ELSE {}

AccessInit ==
  /\ Init
  /\ now = 0
  /\ access = [t \in Tokens |-> NoToken]
  /\ admitted = {}
  /\ changed = [id \in UserIDs |-> 0]

\* History: accounts that lose a role in this step do so now.
NoteLosses ==
  changed' = [id \in UserIDs |-> IF RolesOf(id) \subseteq RolesOf(id)'
                                 THEN changed[id] ELSE now]

-----------------------------------------------------------------------------
(* Tokens.                                                                 *)

\* issueTokens: Generate and StoreRefreshToken.  Nobody has the access token
\* before the call returns both.
Generate(c, t) ==
  /\ IssueTokens(c, t)
  /\ access' = [access EXCEPT ![t] =
       [user |-> req[c].user, roles |-> req[c].roles, exp |-> now + ttl,
        late |-> ~(req[c].roles \subseteq RolesOf(req[c].user))]]
  /\ UNCHANGED <<now, admitted, changed>>

\* Mutant: the claim's expiry is not looked at.
ParseForever(t) == access[t] # NoToken

\* Parse: signature and issuer are right if it was ever issued.
Parse(t) == access[t] # NoToken /\ now < access[t].exp

\* Mutant: any authenticated user will do.
RequireAnyRole(roles) == TRUE

\* RequireRole(models.RoleAdmin).
RequireRole(roles) == Admin \in roles

Tick ==
  /\ now < MaxTime
  /\ now' = now + 1
  /\ UNCHANGED <<vars, access, admitted, changed>>

-----------------------------------------------------------------------------
(* Routes.                                                                 *)

\* Login, refresh and logout are public.
Public ==
  /\ \/ \E c \in Requests :
          \/ \E name \in Usernames, pw \in Passwords : Login(c, name, pw)
          \/ \E t \in Tokens : RefreshGet(c, t)
          \/ RefreshRotate(c) \/ RefreshLookup(c) \/ Abandon(c)
     \/ \E t \in Tokens : Logout(t) \/ Expire(t)
  /\ UNCHANGED accessVars

\* Middleware and RequireRole: everybody else is answered 401 or 403.
Admit(a, t) ==
  /\ a \notin admitted /\ upd[a] = Idle
  /\ Parse(t)
  /\ RequireRole(access[t].roles)
  /\ admitted' = admitted \union {a}
  /\ UNCHANGED <<vars, now, access, changed>>

\* createUser, deleteUser or the first step of updateUser, or an answer
\* without any: a bad body, a weak password, an unknown user, a taken name, a
\* listing.
Handle(a) ==
  /\ a \in admitted
  /\ \/ \E id \in UserIDs, name \in Usernames, pw \in Passwords,
           roles \in RoleLists \union {{}} : CreateUser(id, name, pw, roles)
     \/ \E id \in UserIDs : DeleteUser(id)
     \/ \E id \in UserIDs, roles \in {Keep} \union RoleLists,
           pw \in {Keep} \union Passwords : UpdateRead(a, id, roles, pw)
     \/ UNCHANGED vars
  /\ admitted' = admitted \ {a}
  /\ NoteLosses
  /\ UNCHANGED <<now, access>>

\* The remaining steps of deleteUser and updateUser, and a write of updateUser
\* that the store executes behind the error it answered with.
Finish ==
  /\ \/ \E a \in Updaters : UpdateContinues(a)
     \/ \E w \in late : WriteLate(w)
     \/ \E id \in UserIDs : DeleteTokens(id)
  /\ NoteLosses
  /\ UNCHANGED <<now, access, admitted>>

AccessNext ==
  \/ Public
  \/ \E c \in Requests, t \in Tokens : Generate(c, t)
  \/ \E a \in Updaters, t \in Tokens : Admit(a, t)
  \/ \E a \in Updaters : Handle(a)
  \/ Finish
  \/ Tick

AccessSpec == AccessInit /\ [][AccessNext]_allVars

-----------------------------------------------------------------------------
(* Properties.                                                             *)

\* Every variable has its type.
AccessTypeOK ==
  /\ TypeOK
  /\ now \in Nat
  /\ access \in [Tokens -> Claims \union {NoToken}]
  /\ admitted \subseteq Updaters
  /\ changed \in [UserIDs -> Nat]

\* A role that an account has lost, by an update or with the account, opens no
\* door once the tokens' lifetime has passed since, although nothing revokes
\* them: refreshing meanwhile does not prolong it.  Only a token whose request
\* had read the account before the loss and was signed after it lives longer.
StaleAccessDiesOut ==
  \A t \in Tokens :
    (Parse(t) /\ ~access[t].late) =>
      LET id == access[t].user
      IN  access[t].roles \subseteq RolesOf(id) \/ now < changed[id] + ttl

\* Somebody may act as an administrator or is about to make one: an account, a
\* token, a token about to be signed, a request let through, a record about to
\* be written.
Authority ==
  \/ \E id \in Registered : Admin \in users[id].roles
  \/ \E t \in Tokens : Parse(t) /\ Admin \in access[t].roles
  \/ \E c \in Requests : req[c].pc = "issue" /\ Admin \in req[c].roles
  \/ admitted # {}
  \/ \E a \in Updaters : upd[a].pc = "write" /\ Admin \in upd[a].u.roles
  \/ \E w \in late : Admin \in w.u.roles

\* Authority comes from authority: once the last administrator is gone with
\* everything he left under way, no sequence of requests makes another, not
\* with stale records, old sessions or tokens of other users.
NoAuthorityFromNothing == [][~Authority => ~Authority']_allVars
=============================================================================
