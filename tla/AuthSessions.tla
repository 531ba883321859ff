---------------------------- MODULE AuthSessions ----------------------------
(***************************************************************************)
(* internal/auth/service.go over both user stores: user accounts and the   *)
(* refresh tokens that keep their sessions alive.                          *)
(*                                                                         *)
(* A method of the in-memory store (memory_users.go) holds its mutex from  *)
(* its first line to its return and is one atomic step.  A method of the   *)
(* MongoDB store (mongo_users.go) is one operation on the database, except *)
(* DeleteUser, which is two, and any operation may fail.  An operation of  *)
(* MongoDB that failed may be executed all the same, then or later: a      *)
(* record that UpdateUser failed to write is kept in late.  (A token       *)
(* deleted behind an error is a Logout; an account or a token stored       *)
(* behind one is a request that acts late.)  The service's methods make    *)
(* several store calls, and steps of concurrent requests interleave;       *)
(* bcrypt is slow, so a request may be far behind by the time it writes.   *)
(*                                                                         *)
(* A password stands for itself and for its hash (CompareHashAndPassword   *)
(* is equality).  A refresh token stands for itself and for its SHA-256    *)
(* hash; a new one is 32 random bytes, hence one never issued before.      *)
(* User IDs are fresh UUIDs.  Access tokens are stateless and leave no     *)
(* trace here; module Access adds them.                                    *)
(***************************************************************************)
EXTENDS Naturals

CONSTANTS
  UserIDs,     \* bound: as many users are ever created
  Usernames,
  Passwords,   \* of at least 8 characters: a weak one is refused at once
  Roles,
  RoleLists,   \* bound: the roles an admin may give, besides none
  Viewer,      \* models.RoleViewer
  Admin,       \* models.RoleAdmin
  Tokens,      \* bound: as many refresh tokens are ever issued
  Requests,    \* goroutines that serve Login and Refresh
  Updaters,    \* goroutines that serve UpdateUser
  Mongo,       \* the store is the MongoDB store
  CallsMayFail,\* hashing, signing and database operations may fail
  NoUser,      \* s.users has no entry
  NoToken,     \* s.refresh has no entry
  Keep         \* UpdateUser: nil roles, empty password

Users == [name : Usernames, pw : Passwords, roles : SUBSET Roles]

\* History: where a session comes from, the password of its login, and whether
\* the user's tokens were revoked while one of its requests was under way.
Origins == [pw : Passwords, overtaken : BOOLEAN]

\* History: parent is the token it was exchanged for; kept says that Refresh
\* failed to delete this one.
Sessions == [user : UserIDs, expired : BOOLEAN, origin : Origins,
             parent : Tokens \union {NoToken}, kept : BOOLEAN]

ASSUME AuthAssumption ==
  /\ Viewer \in Roles /\ Admin \in Roles /\ RoleLists \subseteq SUBSET Roles
  /\ NoUser \notin Users
  /\ NoToken \notin Tokens \union Sessions
  /\ Keep \notin Passwords /\ \A R \in SUBSET Roles : R # Keep
  /\ Mongo \in BOOLEAN
  /\ CallsMayFail \in BOOLEAN

VARIABLES
  users,    \* s.users
  refresh,  \* s.refresh
  req,      \* where each Login or Refresh is
  upd,      \* where each UpdateUser is
  del,      \* users whose DeleteUser has still to delete the tokens
  used,     \* UUIDs handed out so far
  issued,   \* refresh tokens handed out so far
  late,     \* records whose failed write may yet be executed
  unrevoked \* history: users whose stored password has changed since their
            \* tokens were last revoked

vars == <<users, refresh, req, upd, del, used, issued, late, unrevoked>>

Idle == [pc |-> "idle"]

\* A request that is about to issue tokens, or in the middle of Refresh.
\* roles are those of the record it has read.  gone: history, the user was
\* deleted already when it began.
Issuing  == [pc : {"issue"}, user : UserIDs, roles : SUBSET Roles,
             origin : Origins, parent : Tokens \union {NoToken},
             gone : BOOLEAN]
Rotating == [pc : {"rotate", "lookup"}, user : UserIDs, origin : Origins,
             parent : Tokens, gone : BOOLEAN]
Updating == [pc : {"write", "revoke"}, user : UserIDs, u : Users,
             roles : {Keep} \union SUBSET Roles, pw : {Keep} \union Passwords]
Records  == [user : UserIDs, u : Users]

Gone == {id \in used : users[id] = NoUser}
Live == {t \in Tokens : refresh[t] # NoToken}
Registered == {id \in UserIDs : users[id] # NoUser}
Named(name) == {id \in Registered : users[id].name = name}

\* EnsureUser runs before the server listens: main seeds an admin account if
\* a password is configured, over a store that is still empty.
Init ==
  /\ \/ used = {} /\ users = [id \in UserIDs |-> NoUser]
     \/ \E id \in UserIDs, name \in Usernames, pw \in Passwords :
          /\ used = {id}
          /\ users = [i \in UserIDs |->
                        IF i = id THEN [name |-> name, pw |-> pw, roles |-> {Admin}]
                                  ELSE NoUser]
  /\ refresh = [t \in Tokens |-> NoToken]
  /\ req = [c \in Requests |-> Idle]
  /\ upd = [c \in Updaters |-> Idle]
  /\ del = {}
  /\ issued = {}
  /\ late = {}
  /\ unrevoked = {}

-----------------------------------------------------------------------------
(* Accounts.                                                               *)

\* No roles means the viewer role.  A username that is taken is refused, by
\* a look through the map or by the unique index.
CreateUser(id, name, pw, roles) ==
  /\ id \notin used
  /\ Named(name) = {}
  /\ users' = [users EXCEPT ![id] =
                 [name |-> name, pw |-> pw,
                  roles |-> IF roles = {} THEN {Viewer} ELSE roles]]
  /\ used' = used \union {id}
  /\ UNCHANGED <<refresh, req, upd, del, issued, late, unrevoked>>

\* The user's tokens go.
WithoutTokensOf(id) ==
  [t \in Tokens |-> IF t \in Live /\ refresh[t].user = id THEN NoToken
                                                          ELSE refresh[t]]

\* The in-memory store deletes account and tokens under one lock, the MongoDB
\* store the account first; if that is executed behind an error, the tokens stay.
\* A write that is still to come finds nothing any more.
DeleteUser(id) ==
  /\ id \in Registered
  /\ users' = [users EXCEPT ![id] = NoUser]
  /\ \/ Mongo /\ refresh' = refresh /\ del' = del \union {id}
     \/ Mongo /\ CallsMayFail /\ UNCHANGED <<refresh, del>>
     \/ ~Mongo /\ refresh' = WithoutTokensOf(id) /\ del' = del
  /\ late' = {w \in late : w.user # id}
  /\ unrevoked' = unrevoked \ {id}
  /\ UNCHANGED <<req, upd, used, issued>>

\* The second operation of MongoDB's DeleteUser; an error is ignored.
DeleteTokens(id) ==
  /\ id \in del
  /\ del' = del \ {id}
  /\ refresh' = WithoutTokensOf(id) \/ (CallsMayFail /\ refresh' = refresh)
  /\ UNCHANGED <<users, req, upd, used, issued, late, unrevoked>>

-----------------------------------------------------------------------------
(* UpdateUser: read the record, write it back, revoke the tokens if the    *)
(* password was given.                                                     *)

UpdateRead(c, id, roles, pw) ==
  /\ upd[c] = Idle
  /\ id \in Registered
  /\ upd' = [upd EXCEPT ![c] =
       [pc |-> "write", user |-> id, roles |-> roles, pw |-> pw,
        u |-> [users[id] EXCEPT
                 !.roles = IF roles = Keep THEN @ ELSE roles,
                 !.pw = IF pw = Keep THEN @ ELSE pw]]]
  /\ UNCHANGED <<users, refresh, req, del, used, issued, late, unrevoked>>

\* The whole record in memory, two fields of the document in MongoDB.
Written(u, old) ==
  IF Mongo THEN [old EXCEPT !.roles = u.roles, !.pw = u.pw] ELSE u

\* The record is written; history notes a new password.
Write(id, u) ==
  /\ id \in Registered
  /\ users' = [users EXCEPT ![id] = Written(u, @)]
  /\ unrevoked' = IF u.pw = users[id].pw THEN unrevoked ELSE unrevoked \union {id}

\* Mutant: the store inserts a record it does not have (an upsert).
UpdateWriteUpsert(c) ==
  /\ upd[c].pc = "write"
  /\ users' = [users EXCEPT ![upd[c].user] = upd[c].u]
  /\ upd' = [upd EXCEPT ![c] = IF @.pw = Keep THEN Idle ELSE [@ EXCEPT !.pc = "revoke"]]
  /\ UNCHANGED <<refresh, req, del, used, issued, late, unrevoked>>

\* A user deleted meanwhile is ErrNotFound and ends the call, and so does a
\* failure to hash the password or to write; MongoDB may yet execute the write.
UpdateWrite(c) ==
  /\ upd[c].pc = "write"
  /\ \/ /\ Write(upd[c].user, upd[c].u)
        /\ upd' = [upd EXCEPT ![c] = IF @.pw = Keep THEN Idle
                                     ELSE [@ EXCEPT !.pc = "revoke"]]
        /\ UNCHANGED late
     \/ /\ upd[c].user \notin Registered \/ CallsMayFail
        /\ upd' = [upd EXCEPT ![c] = Idle]
        /\ UNCHANGED <<users, late, unrevoked>>
     \/ /\ Mongo /\ CallsMayFail /\ upd[c].user \in Registered
        /\ upd' = [upd EXCEPT ![c] = Idle]
        /\ late' = late \union {[user |-> upd[c].user, u |-> upd[c].u]}
        /\ UNCHANGED <<users, unrevoked>>
  /\ UNCHANGED <<refresh, req, del, used, issued>>

\* MongoDB executes a write that failed; UpdateUser has returned, and no
\* revocation follows.
WriteLate(w) ==
  /\ Mongo
  /\ Write(w.user, w.u)
  /\ late' = late \ {w}
  /\ UNCHANGED <<refresh, req, upd, del, used, issued>>

\* History: the requests of the user that are under way.
Overtake(id) ==
  [c \in Requests |-> IF req[c].pc # "idle" /\ req[c].user = id
                      THEN [req[c] EXCEPT !.origin.overtaken = TRUE] ELSE req[c]]

\* Mutant: the revocation deletes no token.
UpdateRevokeNothing(c) ==
  /\ upd[c].pc = "revoke"
  /\ req' = Overtake(upd[c].user)
  /\ unrevoked' = unrevoked \ {upd[c].user}
  /\ upd' = [upd EXCEPT ![c] = Idle]
  /\ UNCHANGED <<users, refresh, del, used, issued, late>>

\* DeleteUserRefreshTokens; an error is ignored.
UpdateRevoke(c) ==
  /\ upd[c].pc = "revoke"
  /\ \/ /\ refresh' = WithoutTokensOf(upd[c].user)
        /\ req' = Overtake(upd[c].user)
        /\ unrevoked' = unrevoked \ {upd[c].user}
     \/ CallsMayFail /\ UNCHANGED <<refresh, req, unrevoked>>
  /\ upd' = [upd EXCEPT ![c] = Idle]
  /\ UNCHANGED <<users, del, used, issued, late>>

-----------------------------------------------------------------------------
(* Sessions.                                                               *)

\* authenticate; a wrong name or password ends the call.
Login(c, name, pw) ==
  /\ req[c] = Idle
  /\ \E id \in Named(name) :
       /\ users[id].pw = pw
       /\ req' = [req EXCEPT ![c] =
            [pc |-> "issue", user |-> id, roles |-> users[id].roles,
             parent |-> NoToken, gone |-> FALSE,
             origin |-> [pw |-> pw, overtaken |-> FALSE]]]
  /\ UNCHANGED <<users, refresh, upd, del, used, issued, late, unrevoked>>

\* issueTokens: StoreRefreshToken of a new token.
IssueTokens(c, t) ==
  /\ req[c].pc = "issue"
  /\ t \notin issued
  /\ refresh' = [refresh EXCEPT ![t] =
       [user |-> req[c].user, expired |-> FALSE, kept |-> FALSE,
        origin |-> req[c].origin, parent |-> req[c].parent]]
  /\ issued' = issued \union {t}
  /\ req' = [req EXCEPT ![c] = Idle]
  /\ UNCHANGED <<users, upd, del, used, late, unrevoked>>

\* Signing, the random bytes, or a store call fails and ends the request.
Abandon(c) ==
  /\ CallsMayFail
  /\ req[c].pc \in {"lookup", "issue"}
  /\ req' = [req EXCEPT ![c] = Idle]
  /\ UNCHANGED <<users, refresh, upd, del, used, issued, late, unrevoked>>

\* Refresh, first store call: an unknown or expired token ends it.
RefreshGet(c, t) ==
  /\ req[c] = Idle
  /\ t \in Live
  /\ ~refresh[t].expired
  /\ req' = [req EXCEPT ![c] =
       [pc |-> "rotate", user |-> refresh[t].user, origin |-> refresh[t].origin,
        parent |-> t, gone |-> refresh[t].user \in Gone]]
  /\ UNCHANGED <<users, refresh, upd, del, used, issued, late, unrevoked>>

\* The token, if it is still there, is marked as one that Refresh has used and
\* not deleted.
Kept(t) ==
  IF t \in Live THEN [refresh EXCEPT ![t].kept = TRUE] ELSE refresh

\* Mutant: the presented token is not deleted.
RefreshRotateKeeps(c) ==
  /\ req[c].pc = "rotate"
  /\ req' = [req EXCEPT ![c].pc = "lookup"]
  /\ UNCHANGED <<users, refresh, upd, del, used, issued, late, unrevoked>>

\* Second: the presented token goes, whatever happens next; a failure to
\* delete it is ignored.
RefreshRotate(c) ==
  /\ req[c].pc = "rotate"
  /\ \/ refresh' = [refresh EXCEPT ![req[c].parent] = NoToken]
     \/ CallsMayFail /\ refresh' = Kept(req[c].parent)
  /\ req' = [req EXCEPT ![c].pc = "lookup"]
  /\ UNCHANGED <<users, upd, del, used, issued, late, unrevoked>>

\* Mutant: the token's user is not looked up again.
RefreshLookupTrusts(c) ==
  /\ req[c].pc = "lookup"
  /\ req' = [req EXCEPT ![c] =
       [pc |-> "issue", user |-> @.user, roles |-> {Viewer},
        origin |-> @.origin, parent |-> @.parent, gone |-> @.gone]]
  /\ UNCHANGED <<users, refresh, upd, del, used, issued, late, unrevoked>>

\* Third: GetUserByID; a deleted user ends the call.
RefreshLookup(c) ==
  /\ req[c].pc = "lookup"
  /\ req' = [req EXCEPT ![c] =
       IF @.user \in Registered
       THEN [pc |-> "issue", user |-> @.user, roles |-> users[@.user].roles,
             origin |-> @.origin, parent |-> @.parent, gone |-> @.gone]
       ELSE Idle]
  /\ UNCHANGED <<users, refresh, upd, del, used, issued, late, unrevoked>>

\* A failure is reported and changes nothing.
Logout(t) ==
  /\ refresh' = [refresh EXCEPT ![t] = NoToken]
  /\ UNCHANGED <<users, req, upd, del, used, issued, late, unrevoked>>

\* Environment: a token's lifetime passes.  Nothing removes it.
Expire(t) ==
  /\ t \in Live
  /\ ~refresh[t].expired
  /\ refresh' = [refresh EXCEPT ![t].expired = TRUE]
  /\ UNCHANGED <<users, req, upd, del, used, issued, late, unrevoked>>

-----------------------------------------------------------------------------
UserStep(id) ==
  \/ \E name \in Usernames, pw \in Passwords, roles \in RoleLists \union {{}} :
       CreateUser(id, name, pw, roles)
  \/ DeleteUser(id)
  \/ DeleteTokens(id)

UpdateContinues(c) == UpdateWrite(c) \/ UpdateRevoke(c)

UpdateStep(c) ==
  \/ \E id \in UserIDs, roles \in {Keep} \union RoleLists,
        pw \in {Keep} \union Passwords : UpdateRead(c, id, roles, pw)
  \/ UpdateContinues(c)

RequestStep(c) ==
  \/ \E name \in Usernames, pw \in Passwords : Login(c, name, pw)
  \/ \E t \in Tokens : RefreshGet(c, t) \/ IssueTokens(c, t)
  \/ RefreshRotate(c)
  \/ RefreshLookup(c)
  \/ Abandon(c)

Next ==
  \/ \E id \in UserIDs : UserStep(id)
  \/ \E c \in Updaters : UpdateStep(c)
  \/ \E w \in late : WriteLate(w)
  \/ \E c \in Requests : RequestStep(c)
  \/ \E t \in Tokens : Logout(t) \/ Expire(t)

Spec == Init /\ [][Next]_vars

\* A request that has begun is carried on by its goroutine; none need begin.
\* (IssueTokens is left out: the bound on Tokens may stop it.)
Fairness ==
  /\ \A c \in Updaters : WF_vars(UpdateContinues(c))
  /\ \A c \in Requests : WF_vars(RefreshRotate(c) \/ RefreshLookup(c))
  /\ \A id \in UserIDs : WF_vars(DeleteTokens(id))

FairSpec == Spec /\ Fairness

-----------------------------------------------------------------------------
(* Properties.                                                             *)

\* Every variable has its type.
TypeOK ==
  /\ users \in [UserIDs -> Users \union {NoUser}]
  /\ refresh \in [Tokens -> Sessions \union {NoToken}]
  /\ req \in [Requests -> {Idle} \union Issuing \union Rotating]
  /\ upd \in [Updaters -> {Idle} \union Updating]
  /\ used \subseteq UserIDs
  /\ issued \subseteq Tokens
  /\ late \subseteq Records
  /\ unrevoked \subseteq UserIDs
  /\ del \subseteq UserIDs

\* Two accounts never share a username, although UpdateUser writes back a
\* whole record that it read before other requests created and deleted users.
UniqueUsernames ==
  \A a, b \in Registered : users[a].name = users[b].name => a = b

\* Rotation replaces: a refresh token and one obtained in exchange for it are
\* never valid together, however many requests present it at the same time,
\* unless the store failed to delete the old one, which Refresh ignores.
RotationReplaces ==
  \A t \in Live : refresh[t].parent \in Live => refresh[refresh[t].parent].kept

\* Nobody gets a token pair for an account that was deleted before the request
\* began.  (A login that overtakes the deletion can leave a token behind, which
\* Refresh then refuses.)
NoPairForDeletedUser ==
  \A c \in Requests : req[c].pc = "issue" => ~req[c].gone

\* A password change ends the sessions of the old password: once the user's
\* tokens have been revoked, and until the stored password changes again, every
\* valid token stems from a login with the password that is stored, however
\* many updates of the account overlap, except through a Login or Refresh that
\* was under way at the revocation.  (A password that is stored without a
\* revocation, by a write executed behind an error, a record read before another
\* change, or because the revocation failed, ends nothing: unrevoked.)
SessionsMatchPassword ==
  \A t \in Live :
    LET id == refresh[t].user
    IN  (id \in Registered /\ id \notin unrevoked)
          => refresh[t].origin.pw = users[id].pw \/ refresh[t].origin.overtaken

-----------------------------------------------------------------------------
(* The inductive invariant behind the theorems of AuthProofs.              *)

\* A record that UpdateUser is about to write back has the name of the account
\* it will overwrite: names are immutable and IDs are never used again.
StaleRecordsKeepNames ==
  /\ Registered \subseteq used
  /\ \A c \in Updaters : upd[c].pc = "write" =>
       /\ upd[c].user \in used
       /\ upd[c].user \in Registered
            => users[upd[c].user].name = upd[c].u.name

\* Whatever token a session or a running Refresh descends from was issued
\* before, and once rotated it is not valid any more unless its deletion
\* failed.
ParentsAreSpent ==
  /\ Live \subseteq issued
  /\ \A t \in Live : refresh[t].parent \in issued \union {NoToken}
  /\ \A c \in Requests : req[c].pc # "idle" =>
       /\ req[c].parent \in issued \union {NoToken}
       /\ req[c].pc # "rotate" /\ req[c].parent \in Live
            => refresh[req[c].parent].kept

\* A user that was deleted when a request began is still deleted.
DeletedStayDeleted ==
  \A c \in Requests : (req[c].pc # "idle" /\ req[c].gone) => req[c].user \in Gone

\* Requests in progress agree with the accounts and tokens they will touch.
AuthInv == StaleRecordsKeepNames /\ ParentsAreSpent /\ DeletedStayDeleted

-----------------------------------------------------------------------------
(* A statement of the code's comments that the code does not keep.         *)

\* service.go on UpdateUser: "A nil roles slice leaves roles unchanged."
NilRolesKeepsRoles ==
  [][\A c \in Updaters :
       (/\ upd[c].pc = "write" /\ upd'[c] # upd[c]
        /\ upd[c].roles = Keep
        /\ upd[c].user \in Registered)
         => users'[upd[c].user].roles = users[upd[c].user].roles]_vars
=============================================================================
