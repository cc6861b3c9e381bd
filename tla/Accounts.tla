------------------------------ MODULE Accounts ------------------------------
(***************************************************************************)
(* Users, tokens and topic rights: the middleware that resolves who calls  *)
(* (auth.rs), authorize, the self-service handlers (handlers/account.rs)   *)
(* and the administrators' (handlers/admin.rs) over db/users.rs.           *)
(*                                                                         *)
(* The middleware reads the user's row once; the handler acts on that copy *)
(* later: after reading a body, hashing a password, looking up another     *)
(* user.  Each statement is atomic, and the statements of other requests   *)
(* come in between.                                                        *)
(*                                                                         *)
(* auth_enabled is on.  A user id, a token and a topic are model values;   *)
(* generate_id and generate_token never give one twice.  The hash of a     *)
(* password stands for the password.                                       *)
(***************************************************************************)
EXTENDS Naturals

CONSTANTS
  User, Name, Secret, Token, Topic,
  Request,  \* requests under way at a time
  Nobody,   \* no user, no name, no credential
  Root,     \* the administrator made by hand (README.md:392-401)
  Everyone, \* default_access: what callers without identity may do
  MaxWrites \* bound: statements that change the tables

Role == {"user", "admin"}
Perm == {"read", "write"}
Right == Topic \X Perm

ASSUME AccountsAssumption ==
  /\ Nobody \notin User \cup Name \cup Secret \cup Token
  /\ Secret \cap Token = {}
  /\ Root \in User
  /\ Everyone \in {{}, {"read"}, Perm}
  /\ MaxWrites \in Nat

VARIABLES
  writes,   \* statements executed so far
  name,     \* users.username, Nobody where there is no row
  alive,    \* the users with deleted = 0
  role,     \* users.role
  hash,     \* users.hash
  token,    \* each token: no row yet, a row, a row past its `expires', deleted
  owner,    \* tokens.user_id
  acl,      \* topic_acl: who has which right
  pc,       \* how far each request is
  who,      \* AuthUser.user.id, Nobody for anonymous
  as,       \* AuthUser.user.role
  with,     \* the credential the caller presented
  goal,     \* the user an administrator's request has looked up
  todo,     \* the rights the handler has not asked authorize for yet
  passed,   \* the rights authorize has granted the request
  outdated, \* history: requests whose caller changed since it was resolved
  held      \* history: the rights of each caller since its handler asks

userVars    == <<name, alive, role, hash>>
tokenVars   == <<token, owner>>
requestVars == <<pc, who, as, with, goal, todo, passed>>
historyVars == <<outdated, held>>
vars == <<writes, userVars, tokenVars, acl, requestVars, historyVars>>

\* One created without `expires' is one that stays "live".
TokenState == {"fresh", "live", "expired", "revoked"}

\* "resolved": the middleware is done.  "located": an administrator's handler
\* has found the user.  "asking": a publish or subscribe handler is before or
\* between its calls of authorize.  "open": it went on.
Place == {"idle", "resolved", "located", "asking", "open"}

\* tokens.user_id NOT NULL
RowsHaveOwners ==
  \A k \in Token : token[k] \in {"live", "expired"} <=> owner[k] \in User

TypeOK ==
  /\ writes \in 0 .. MaxWrites
  /\ name  \in [User -> Name \cup {Nobody}]
  /\ alive \subseteq User
  /\ role  \in [User -> Role]
  /\ hash  \in [User -> Secret \cup {Nobody}]
  /\ token \in [Token -> TokenState]
  /\ owner \in [Token -> User \cup {Nobody}]
  /\ RowsHaveOwners
  /\ acl \subseteq User \X Right
  /\ pc   \in [Request -> Place]
  /\ who  \in [Request -> User \cup {Nobody}]
  /\ as   \in [Request -> Role]
  /\ with \in [Request -> Secret \cup Token \cup {Nobody}]
  /\ goal \in [Request -> User \cup {Nobody}]
  /\ todo \in [Request -> SUBSET Right] /\ passed \in [Request -> SUBSET Right]
  /\ outdated \subseteq Request
  /\ held \in [Request -> SUBSET Right]

\* A username belongs to one user for good, deleted or not, so that no right
\* or token given to a name passes to somebody else (schema.rs:44, admin.rs:121-171).
NamesAreForLife ==
  \A u, v \in User : name[u] = name[v] /\ name[u] # Nobody => u = v

\* Users may have registered before the first administrator was made.
Init ==
  /\ writes = 0
  /\ name \in [User -> Name \cup {Nobody}] /\ name[Root] # Nobody
  /\ NamesAreForLife
  /\ alive = {u \in User : name[u] # Nobody}
  /\ \E p \in Secret : hash = [u \in User |-> IF u \in alive THEN p ELSE Nobody]
  /\ role = [u \in User |-> IF u = Root THEN "admin" ELSE "user"]
  /\ token = [k \in Token |-> "fresh"]
  /\ owner = [k \in Token |-> Nobody]
  /\ acl = {}
  /\ pc = [r \in Request |-> "idle"]
  /\ who = [r \in Request |-> Nobody]
  /\ as = [r \in Request |-> "user"]
  /\ with = [r \in Request |-> Nobody]
  /\ goal = [r \in Request |-> Nobody]
  /\ todo = [r \in Request |-> {}] /\ passed = [r \in Request |-> {}]
  /\ outdated = {}
  /\ held = [r \in Request |-> {}]

-----------------------------------------------------------------------------
(* The middleware.                                                         *)

\* req.extensions_mut().insert(auth_user)
Resolved(r, u, credential) ==
  /\ pc[r] = "idle"
  /\ pc'   = [pc EXCEPT ![r] = "resolved"]
  /\ who'  = [who EXCEPT ![r] = u]
  /\ as'   = [as EXCEPT ![r] = IF u = Nobody THEN "user" ELSE role[u]]
  /\ with' = [with EXCEPT ![r] = credential]
  /\ UNCHANGED <<writes, userVars, tokenVars, acl, goal, todo, passed, historyVars>>

\* authenticate_basic: the row is read (user_by_name), then the password is
\* compared with the hash just read.
AuthenticateBasic(r, n, p) ==
  \E u \in alive : name[u] = n /\ hash[u] = p /\ Resolved(r, u, p)

\* Mutant: the row of a deleted user is joined as well.
UserByTokenAnyUser(k, u) == token[k] = "live" /\ owner[k] = u

\* user_by_token: neither expired nor of a deleted user.
UserByToken(k, u) == token[k] = "live" /\ owner[k] = u /\ u \in alive

AuthenticateToken(r, k) ==
  \E u \in User : UserByToken(k, u) /\ Resolved(r, u, k)

\* No header, one that matches nothing, or a store that fails.
Anonymous(r) == Resolved(r, Nobody, Nobody)

-----------------------------------------------------------------------------
(* What requests leave behind.                                             *)

Idle(r) ==
  /\ pc'     = [pc EXCEPT ![r] = "idle"]
  /\ who'    = [who EXCEPT ![r] = Nobody]
  /\ as'     = [as EXCEPT ![r] = "user"]
  /\ with'   = [with EXCEPT ![r] = Nobody]
  /\ goal'   = [goal EXCEPT ![r] = Nobody]
  /\ todo'   = [todo EXCEPT ![r] = {}]
  /\ passed' = [passed EXCEPT ![r] = {}]

\* The rows of topic_acl that name u, in a table t.
RightsIn(t, u) == {x \in Right : <<u, x>> \in t}

\* History: r is over, what it did concerns the other callers in S, and those
\* who are asking have the rights of table t now.
Concerns(r, S, t) ==
  /\ outdated' = (outdated \cup S) \ {r}
  /\ held' = [q \in Request |->
       IF q = r THEN {}
       ELSE IF pc[q] = "asking" THEN held[q] \cup RightsIn(t, who[q]) ELSE held[q]]

\* One INSERT, UPDATE or DELETE.
Write == writes < MaxWrites /\ writes' = writes + 1

CallersAs(u) == {q \in Request : pc[q] # "idle" /\ who[q] = u}
CallersWith(k) == {q \in Request : pc[q] # "idle" /\ with[q] = k}

\* An error answer, a read-only answer (get_account, get_access, list_users),
\* a closed stream, or a client that went away.
End(r) ==
  /\ pc[r] # "idle"
  /\ Idle(r) /\ Concerns(r, {}, acl)
  /\ UNCHANGED <<writes, userVars, tokenVars, acl>>

-----------------------------------------------------------------------------
(* Self-service.                                                           *)

\* Mutant: callers without identity are let through.
IsCaller(r) == pc[r] = "resolved"

\* require_user
IsUser(r) == pc[r] = "resolved" /\ who[r] # Nobody

\* username TEXT NOT NULL UNIQUE: the rows of deleted users count.
NameFree(n) == \A u \in User : name[u] # n

\* insert_user
InsertUser(n, p, ro) ==
  \E u \in User :
    /\ name[u] = Nobody /\ NameFree(n)
    /\ name'  = [name EXCEPT ![u] = n]
    /\ hash'  = [hash EXCEPT ![u] = p]
    /\ role'  = [role EXCEPT ![u] = ro]
    /\ alive' = alive \cup {u}

\* Outside the middleware: anybody may register, as a user.
Register(n, p) ==
  /\ Write
  /\ InsertUser(n, p, "user")
  /\ UNCHANGED <<tokenVars, acl, requestVars, historyVars>>

DeleteAccount(r) ==
  /\ IsUser(r)
  /\ Write
  /\ alive' = alive \ {who[r]}
  /\ Idle(r) /\ Concerns(r, CallersAs(who[r]), acl)
  /\ UNCHANGED <<name, role, hash, tokenVars, acl>>

\* bcrypt_hash, then update_password; the user may be deleted by then.
ChangePassword(r, p) ==
  /\ IsUser(r)
  /\ Write
  /\ hash' = [hash EXCEPT ![who[r]] = p]
  /\ Idle(r) /\ Concerns(r, CallersAs(who[r]), acl)
  /\ UNCHANGED <<name, alive, role, tokenVars, acl>>

\* insert_token, also for a user deleted since: the row is still there for
\* the foreign key.
CreateToken(r, k) ==
  /\ IsUser(r) /\ token[k] = "fresh"
  /\ Write
  /\ token' = [token EXCEPT ![k] = "live"]
  /\ owner' = [owner EXCEPT ![k] = who[r]]
  /\ Idle(r) /\ Concerns(r, {}, acl)
  /\ UNCHANGED <<userVars, acl>>

\* delete_token(token, user_id)
DeleteToken(r, k) ==
  /\ IsUser(r) /\ token[k] \in {"live", "expired"} /\ owner[k] = who[r]
  /\ Write
  /\ token' = [token EXCEPT ![k] = "revoked"]
  /\ owner' = [owner EXCEPT ![k] = Nobody]
  /\ Idle(r) /\ Concerns(r, CallersWith(k), acl)
  /\ UNCHANGED <<userVars, acl>>

\* The clock passes a token's `expires'.
Expire(k) ==
  /\ token[k] = "live"
  /\ token' = [token EXCEPT ![k] = "expired"]
  /\ outdated' = outdated \cup CallersWith(k)
  /\ UNCHANGED <<writes, userVars, owner, acl, requestVars, held>>

\* acl_set and acl_delete: the row of user u and topic t now grants S.
WriteAcl(r, u, t, S) ==
  /\ Write
  /\ acl' = {x \in acl : x[1] # u \/ x[2][1] # t} \cup ({u} \X ({t} \X S))
  /\ Idle(r) /\ Concerns(r, {}, acl')
  /\ UNCHANGED <<userVars, tokenVars>>

DeleteOwnAccess(r, t) == IsUser(r) /\ WriteAcl(r, who[r], t, {})

-----------------------------------------------------------------------------
(* Administration.                                                         *)

\* Mutant: any user will do.
IsAnyUser(r) == IsUser(r)

\* require_admin, on the copy of the row
IsAdmin(r) == IsUser(r) /\ as[r] = "admin"

CreateUser(r, n, p, ro) ==
  /\ IsAdmin(r)
  /\ Write
  /\ InsertUser(n, p, ro)
  /\ Idle(r) /\ Concerns(r, {}, acl)
  /\ UNCHANGED <<tokenVars, acl>>

\* The first of two statements: user_by_name, or 404.
Locate(r, n) ==
  /\ IsAdmin(r)
  /\ \E u \in alive : name[u] = n /\ goal' = [goal EXCEPT ![r] = u]
  /\ pc' = [pc EXCEPT ![r] = "located"]
  /\ UNCHANGED <<writes, userVars, tokenVars, acl, who, as, with, todo, passed, historyVars>>

DeleteUser(r) ==
  /\ pc[r] = "located"
  /\ Write
  /\ alive' = alive \ {goal[r]}
  /\ Idle(r) /\ Concerns(r, CallersAs(goal[r]), acl)
  /\ UNCHANGED <<name, role, hash, tokenVars, acl>>

SetRole(r, ro) ==
  /\ pc[r] = "located"
  /\ Write
  /\ role' = [role EXCEPT ![goal[r]] = ro]
  /\ Idle(r) /\ Concerns(r, CallersAs(goal[r]), acl)
  /\ UNCHANGED <<name, alive, hash, tokenVars, acl>>

SetAccess(r, t, S) == pc[r] = "located" /\ WriteAcl(r, goal[r], t, S)
DeleteAccess(r, t) == SetAccess(r, t, {})

-----------------------------------------------------------------------------
(* Publishing and subscribing.                                             *)

\* What a handler asks for: to publish to one topic, or to read some.
Purpose == {{<<t, "write">>} : t \in Topic} \cup (SUBSET (Topic \X {"read"}) \ {{}})

Ask(r, W) ==
  /\ pc[r] = "resolved"
  /\ pc'   = [pc EXCEPT ![r] = "asking"]
  /\ todo' = [todo EXCEPT ![r] = W]
  /\ held' = [held EXCEPT ![r] = RightsIn(acl, who[r])]
  /\ UNCHANGED <<writes, userVars, tokenVars, acl, who, as, with, goal, passed, outdated>>

\* authorize: a user without a row has no right, whatever default_access says.
Allowed(r, x) ==
  \/ as[r] = "admin"
  \/ who[r] # Nobody /\ <<who[r], x>> \in acl
  \/ who[r] = Nobody /\ x[2] \in Everyone

\* Mutant: the first topic's right is taken for all.
AuthorizeOnce(r, x) ==
  /\ pc[r] = "asking" /\ x \in todo[r] /\ Allowed(r, x)
  /\ passed' = [passed EXCEPT ![r] = todo[r]]
  /\ todo'   = [todo EXCEPT ![r] = {}]
  /\ pc'     = [pc EXCEPT ![r] = "open"]
  /\ UNCHANGED <<writes, userVars, tokenVars, acl, who, as, with, goal, historyVars>>

\* One call per topic, each with its own query; a refusal is End.
Authorize(r, x) ==
  /\ pc[r] = "asking" /\ x \in todo[r] /\ Allowed(r, x)
  /\ passed' = [passed EXCEPT ![r] = @ \cup {x}]
  /\ todo'   = [todo EXCEPT ![r] = @ \ {x}]
  /\ pc'     = [pc EXCEPT ![r] = IF todo[r] = {x} THEN "open" ELSE @]
  /\ UNCHANGED <<writes, userVars, tokenVars, acl, who, as, with, goal, historyVars>>

-----------------------------------------------------------------------------
Resolve(r) ==
  \/ \E n \in Name, p \in Secret : AuthenticateBasic(r, n, p)
  \/ \E k \in Token : AuthenticateToken(r, k)
  \/ Anonymous(r)

SelfService(r) ==
  \/ DeleteAccount(r)
  \/ \E p \in Secret : ChangePassword(r, p)
  \/ \E k \in Token : CreateToken(r, k) \/ DeleteToken(r, k)
  \/ \E t \in Topic : DeleteOwnAccess(r, t)

Administer(r) ==
  \/ \E n \in Name, p \in Secret, ro \in Role : CreateUser(r, n, p, ro)
  \/ \E n \in Name : Locate(r, n)
  \/ DeleteUser(r)
  \/ \E ro \in Role : SetRole(r, ro)
  \/ \E t \in Topic, S \in SUBSET Perm : SetAccess(r, t, S)
  \/ \E t \in Topic : DeleteAccess(r, t)

UseTopics(r) ==
  \/ \E W \in Purpose : Ask(r, W)
  \/ \E x \in Right : Authorize(r, x)

Next ==
  \/ \E r \in Request :
       Resolve(r) \/ SelfService(r) \/ Administer(r) \/ UseTopics(r) \/ End(r)
  \/ \E n \in Name, p \in Secret : Register(n, p)
  \/ \E k \in Token : Expire(k)

Spec == Init /\ [][Next]_vars

-----------------------------------------------------------------------------
(* What holds.                                                             *)

\* The caller's row, read now, would still say what the request's copy says,
\* and the credential would still do.
StillValid(r) ==
  /\ who[r] \in alive /\ role[who[r]] = as[r]
  /\ \/ with[r] = hash[who[r]]
     \/ with[r] \in Token /\ owner[with[r]] = who[r] /\ token[with[r]] = "live"

\* A handler acts for a user as the database last had it, but for what changed
\* while the request was under way: nobody deleted, demoted, or with a revoked
\* or expired credential is ever resolved again, not even with a token that was
\* created for a user already deleted (auth.rs:163-175, users.rs:7-32).
IdentityIsRecent ==
  \A r \in Request :
    pc[r] # "idle" /\ who[r] # Nobody /\ r \notin outdated => StillValid(r)

\* Somebody who can act as administrator, or a request that already does.
AdminPresent ==
  \/ \E u \in alive : role[u] = "admin"
  \/ \E r \in Request : pc[r] # "idle" /\ as[r] = "admin"

\* Administrators come from administrators only: once the last one is gone and
\* the requests of former ones are over, there is none again; SPEC.md:714 says
\* the first takes "direct DB access" (account.rs:54-73, admin.rs:50-56).
AdminsComeFromAdmins == [][~AdminPresent => ~AdminPresent']_vars

\* What a handler does on topics its caller was allowed to do at some moment
\* since the handler began to ask, topic by topic (auth.rs:285-313, subscribe.rs, ws.rs:91-99).
UsesWereAllowed ==
  \A r \in Request : \A x \in passed[r] :
    as[r] = "admin" \/ x \in held[r] \/ (who[r] = Nobody /\ x[2] \in Everyone)

=============================================================================
