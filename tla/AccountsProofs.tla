--------------------------- MODULE AccountsProofs ---------------------------
(***************************************************************************)
(* Proofs about access control, for any users, names, tokens, topics,      *)
(* requests and bounds.                                                    *)
(***************************************************************************)
EXTENDS Accounts, TLAPS

\* A user who is not deleted has a row, and a name is one user's.
UserInv == (\A u \in alive : name[u] # Nobody) /\ NamesAreForLife

\* What a request's place says about its caller and what it has been granted.
PlaceSays(r) ==
  /\ pc[r] = "idle" => as[r] = "user" /\ passed[r] = {}
  /\ pc[r] = "located" => as[r] = "admin" /\ goal[r] \in User
  /\ pc[r] = "asking" => RightsIn(acl, who[r]) \subseteq held[r]
  /\ pc[r] \notin {"asking", "open"} => passed[r] = {}
  /\ \A x \in passed[r] :
       as[r] = "admin" \/ x \in held[r] \/ (who[r] = Nobody /\ x[2] \in Everyone)

RequestInv == \A r \in Request : PlaceSays(r)

AccountsInv == TypeOK /\ UserInv /\ RequestInv /\ IdentityIsRecent

-----------------------------------------------------------------------------
(* The effect of the parts that many actions share.                        *)

\* The part of TypeOK about requests.
RequestTypes ==
  /\ pc   \in [Request -> Place]
  /\ who  \in [Request -> User \cup {Nobody}]
  /\ as   \in [Request -> Role]
  /\ with \in [Request -> Secret \cup Token \cup {Nobody}]
  /\ goal \in [Request -> User \cup {Nobody}]
  /\ todo \in [Request -> SUBSET Right] /\ passed \in [Request -> SUBSET Right]
  /\ outdated \subseteq Request
  /\ held \in [Request -> SUBSET Right]

\* A request is over, and its callers keep count of the rights there are now.
Over(r) == Idle(r) /\ \E S \in SUBSET Request : Concerns(r, S, acl')

\* Every answer ends the request, but for the look-up that comes first.
LEMMA Answers ==
  ASSUME NEW r \in Request, SelfService(r) \/ Administer(r) \/ End(r)
  PROVE  Over(r) \/ \E n \in Name : Locate(r, n)
<1> USE DEF Over, CallersAs, CallersWith
<1>1. CASE End(r)
  BY <1>1 DEF End
<1>2. CASE SelfService(r)
  BY <1>2
     DEF SelfService, DeleteAccount, ChangePassword, CreateToken, DeleteToken,
         DeleteOwnAccess, WriteAcl
<1>3. CASE Administer(r)
  BY <1>3
     DEF Administer, CreateUser, DeleteUser, SetRole, SetAccess, DeleteAccess, WriteAcl
<1>4. QED
  BY <1>1, <1>2, <1>3

\* A request that is over keeps the types.
LEMMA OverTypes ==
  ASSUME TypeOK, NEW r \in Request, Over(r)
  PROVE  RequestTypes'
<1>1. PICK S \in SUBSET Request : Concerns(r, S, acl')
  BY DEF Over
<1>2. \A u : RightsIn(acl', u) \subseteq Right
  BY DEF RightsIn
<1>3. outdated' \subseteq Request /\ held' \in [Request -> SUBSET Right]
  BY <1>1, <1>2 DEF TypeOK, Concerns
<1>4. QED
  BY <1>3 DEF TypeOK, RequestTypes, Role, Place, Over, Idle

\* What the places say survives the end of a request, whatever it wrote.
LEMMA OverPlaces ==
  ASSUME TypeOK, RequestInv, NEW r \in Request, Over(r)
  PROVE  RequestInv'
<1> SUFFICES ASSUME NEW q \in Request PROVE PlaceSays(q)'
  BY DEF RequestInv
<1> USE DEF TypeOK, RequestInv, PlaceSays, Over, Idle, Concerns
<1>1. CASE q = r
  BY <1>1
<1>2. CASE q # r
  <2>1. /\ pc'[q] = pc[q] /\ who'[q] = who[q] /\ as'[q] = as[q]
        /\ goal'[q] = goal[q] /\ passed'[q] = passed[q]
        /\ held[q] \subseteq held'[q]
        /\ pc[q] = "asking" => RightsIn(acl', who[q]) \subseteq held'[q]
    BY <1>2
  <2>2. QED
    BY <2>1
<1>3. QED
  BY <1>1, <1>2

\* The middleware's insertion keeps the types and what the places say, and
\* what it inserts is valid.
LEMMA ResolvedStep ==
  ASSUME TypeOK, RequestInv, IdentityIsRecent,
         NEW r \in Request, NEW u \in User \cup {Nobody},
         NEW c \in Secret \cup Token \cup {Nobody}, Resolved(r, u, c),
         u # Nobody => /\ u \in alive
                       /\ \/ c = hash[u]
                          \/ c \in Token /\ owner[c] = u /\ token[c] = "live"
  PROVE  TypeOK' /\ RequestInv' /\ IdentityIsRecent'
<1> USE AccountsAssumption
    DEF TypeOK, Resolved, userVars, tokenVars, historyVars
<1>1. TypeOK'
  BY DEF RowsHaveOwners, Role, Place
<1>2. ASSUME NEW q \in Request PROVE PlaceSays(q)'
  <2>1. CASE q = r
    <3>1. pc'[q] = "resolved" /\ passed'[q] = passed[q] /\ passed[q] = {}
      BY <2>1 DEF RequestInv, PlaceSays
    <3>2. QED
      BY <3>1 DEF PlaceSays
  <2>2. CASE q # r
    <3>1. /\ pc'[q] = pc[q] /\ who'[q] = who[q] /\ as'[q] = as[q]
          /\ UNCHANGED <<acl, goal, passed, held>>
      BY <2>2
    <3>2. PlaceSays(q)
      BY DEF RequestInv
    <3>3. QED
      BY <3>1, <3>2 DEF PlaceSays
  <2>3. QED
    BY <2>1, <2>2
<1>3. ASSUME NEW q \in Request, pc'[q] # "idle", who'[q] # Nobody, q \notin outdated'
      PROVE  StillValid(q)'
  <2>1. CASE q = r
    <3>1. who'[q] = u /\ as'[q] = role[u] /\ with'[q] = c
      BY <1>3, <2>1
    <3>2. QED
      BY <1>3, <3>1 DEF StillValid
  <2>2. CASE q # r
    <3>1. /\ pc'[q] = pc[q] /\ who'[q] = who[q] /\ as'[q] = as[q] /\ with'[q] = with[q]
          /\ UNCHANGED <<alive, role, hash, token, owner, outdated>>
      BY <2>2
    <3>2. StillValid(q)
      BY <1>3, <3>1 DEF IdentityIsRecent
    <3>3. QED
      BY <3>1, <3>2 DEF StillValid
  <2>3. QED
    BY <2>1, <2>2
<1>4. QED
  BY <1>1, <1>2, <1>3 DEF RequestInv, IdentityIsRecent

\* The three ways to be resolved are such insertions.
LEMMA ResolveStep ==
  ASSUME TypeOK, RequestInv, IdentityIsRecent, NEW r \in Request, Resolve(r)
  PROVE  TypeOK' /\ RequestInv' /\ IdentityIsRecent'
<1>1. ASSUME NEW n \in Name, NEW p \in Secret, AuthenticateBasic(r, n, p)
      PROVE  TypeOK' /\ RequestInv' /\ IdentityIsRecent'
  BY <1>1, ResolvedStep DEF AuthenticateBasic, TypeOK
<1>2. ASSUME NEW k \in Token, AuthenticateToken(r, k)
      PROVE  TypeOK' /\ RequestInv' /\ IdentityIsRecent'
  <2>1. PICK u \in User : UserByToken(k, u) /\ Resolved(r, u, k)
    BY <1>2 DEF AuthenticateToken
  <2>2. QED
    BY <2>1, ResolvedStep DEF UserByToken
<1>3. ASSUME Anonymous(r)
      PROVE  TypeOK' /\ RequestInv' /\ IdentityIsRecent'
  BY <1>3, ResolvedStep DEF Anonymous
<1>4. QED
  BY <1>1, <1>2, <1>3 DEF Resolve

-----------------------------------------------------------------------------
(* The inductive step, part by part.                                       *)

\* Each statement writes values of the columns' types.
LEMMA TypeStep == TypeOK /\ RequestInv /\ IdentityIsRecent /\ [Next]_vars => TypeOK'
<1> SUFFICES ASSUME TypeOK, RequestInv, IdentityIsRecent, [Next]_vars PROVE TypeOK'
  OBVIOUS
<1> USE AccountsAssumption DEF userVars, tokenVars, requestVars, historyVars, RowsHaveOwners
<1>1. ASSUME NEW r \in Request, Resolve(r) PROVE TypeOK'
  BY <1>1, ResolveStep
<1>2. ASSUME NEW r \in Request, SelfService(r), RequestTypes' PROVE TypeOK'
  <2> USE <1>2 DEF TypeOK, RequestTypes
  <2>1. ASSUME DeleteAccount(r) PROVE TypeOK'
    BY <2>1 DEF DeleteAccount, Write
  <2>2. ASSUME NEW p \in Secret, ChangePassword(r, p) PROVE TypeOK'
    <3>1. hash' \in [User -> Secret \cup {Nobody}]
      BY <2>2 DEF ChangePassword
    <3>2. QED
      BY <2>2, <3>1 DEF ChangePassword, Write
  <2>3. ASSUME NEW k \in Token, CreateToken(r, k) PROVE TypeOK'
    BY <2>3 DEF CreateToken, IsUser, Write, TokenState
  <2>4. ASSUME NEW k \in Token, DeleteToken(r, k) PROVE TypeOK'
    BY <2>4 DEF DeleteToken, Write, TokenState
  <2>5. ASSUME NEW t \in Topic, DeleteOwnAccess(r, t) PROVE TypeOK'
    BY <2>5 DEF DeleteOwnAccess, WriteAcl, Write
  <2>6. QED
    BY <2>1, <2>2, <2>3, <2>4, <2>5 DEF SelfService
<1>3. ASSUME NEW r \in Request, Administer(r), RequestTypes' PROVE TypeOK'
  <2> USE <1>3 DEF TypeOK, RequestTypes
  <2>1. ASSUME NEW n \in Name, NEW p \in Secret, NEW ro \in Role,
               CreateUser(r, n, p, ro)
        PROVE  TypeOK'
    BY <2>1 DEF CreateUser, InsertUser, Write
  <2>2. ASSUME NEW n \in Name, Locate(r, n) PROVE TypeOK'
    BY <2>2 DEF Locate
  <2>3. ASSUME DeleteUser(r) PROVE TypeOK'
    BY <2>3 DEF DeleteUser, Write
  <2>4. ASSUME NEW ro \in Role, SetRole(r, ro) PROVE TypeOK'
    <3>1. role' \in [User -> Role]
      BY <2>4 DEF SetRole
    <3>2. QED
      BY <2>4, <3>1 DEF SetRole, Write
  <2>5. ASSUME NEW t \in Topic, NEW S \in SUBSET Perm, SetAccess(r, t, S) PROVE TypeOK'
    <3>1. goal[r] \in User
      BY <2>5 DEF SetAccess, RequestInv, PlaceSays
    <3>2. {goal[r]} \X ({t} \X S) \subseteq User \X Right
      BY <3>1 DEF Right
    <3>3. acl' \subseteq User \X Right /\ writes' \in 0 .. MaxWrites
      BY <2>5, <3>2 DEF SetAccess, WriteAcl, Write
    <3>4. UNCHANGED <<name, alive, role, hash, token, owner>>
      BY <2>5 DEF SetAccess, WriteAcl
    <3>5. QED
      BY <3>3, <3>4
  <2>6. QED
    BY <2>1, <2>2, <2>3, <2>4, <2>5 DEF Administer, DeleteAccess
<1>4. ASSUME NEW r \in Request, NEW n \in Name, Locate(r, n) PROVE TypeOK'
  BY <1>4 DEF Locate, TypeOK, Place
<1>5. ASSUME NEW r \in Request, UseTopics(r) PROVE TypeOK'
  <2>1. ASSUME NEW W \in Purpose, Ask(r, W) PROVE TypeOK'
    <3>1. W \subseteq Right
      BY DEF Purpose, Right, Perm
    <3>2. QED
      BY <2>1, <3>1 DEF Ask, RightsIn, TypeOK, Place
  <2>2. ASSUME NEW x \in Right, Authorize(r, x) PROVE TypeOK'
    BY <2>2 DEF Authorize, TypeOK, Place
  <2>3. QED
    BY <1>5, <2>1, <2>2 DEF UseTopics
<1>6. ASSUME NEW r \in Request, End(r), RequestTypes' PROVE TypeOK'
  BY <1>6 DEF End, TypeOK, RequestTypes
<1>7. ASSUME NEW n \in Name, NEW p \in Secret, Register(n, p) PROVE TypeOK'
  <2>1. /\ name' \in [User -> Name \cup {Nobody}] /\ alive' \subseteq User
        /\ role' \in [User -> Role] /\ hash' \in [User -> Secret \cup {Nobody}]
    BY <1>7 DEF Register, InsertUser, TypeOK, Role
  <2>2. writes' \in 0 .. MaxWrites
    BY <1>7 DEF Register, Write, TypeOK
  <2>3. UNCHANGED <<token, owner, acl, pc, who, as, with, goal, todo, passed, outdated, held>>
    BY <1>7 DEF Register
  <2>4. QED
    BY <2>1, <2>2, <2>3 DEF TypeOK
<1>8. ASSUME NEW k \in Token, Expire(k) PROVE TypeOK'
  BY <1>8 DEF Expire, CallersWith, TypeOK, TokenState
<1>9. CASE UNCHANGED vars
  BY <1>9 DEF vars, TypeOK
<1>10. ASSUME NEW r \in Request, SelfService(r) \/ Administer(r) \/ End(r)
       PROVE  RequestTypes' \/ \E n \in Name : Locate(r, n)
  BY <1>10, Answers, OverTypes
<1>11. QED
  BY <1>1, <1>2, <1>3, <1>4, <1>5, <1>6, <1>7, <1>8, <1>9, <1>10 DEF Next

\* No step gives a second user a name.
LEMMA UserStep == TypeOK /\ UserInv /\ [Next]_vars => UserInv'
<1> SUFFICES ASSUME TypeOK, UserInv, [Next]_vars PROVE UserInv'
  OBVIOUS
<1> USE AccountsAssumption
    DEF userVars, tokenVars, requestVars, historyVars
<1>1. ASSUME NEW n \in Name, NEW p \in Secret, NEW ro, InsertUser(n, p, ro)
      PROVE  UserInv'
  BY <1>1 DEF InsertUser, NameFree, TypeOK, UserInv, NamesAreForLife
<1>2. ASSUME name' = name, alive' \subseteq alive
      PROVE  UserInv'
  BY <1>2 DEF TypeOK, UserInv, NamesAreForLife
<1>3. ASSUME NEW r \in Request, Resolve(r) \/ UseTopics(r) \/ End(r)
      PROVE  UserInv'
  BY <1>2, <1>3
     DEF Resolve, AuthenticateBasic, AuthenticateToken, Anonymous, Resolved,
         UseTopics, Ask, Authorize, End
<1>4. ASSUME NEW r \in Request, SelfService(r) PROVE UserInv'
  BY <1>2, <1>4
     DEF SelfService, DeleteAccount, ChangePassword, CreateToken, DeleteToken,
         DeleteOwnAccess, WriteAcl
<1>5. ASSUME NEW r \in Request, Administer(r) PROVE UserInv'
  <2>1. ASSUME NEW n \in Name, NEW p \in Secret, NEW ro \in Role,
               CreateUser(r, n, p, ro)
        PROVE  UserInv'
    BY <2>1, <1>1 DEF CreateUser
  <2>2. ASSUME NEW n \in Name, Locate(r, n) PROVE UserInv'
    BY <2>2, <1>2 DEF Locate
  <2>3. ASSUME DeleteUser(r) PROVE UserInv'
    BY <2>3, <1>2 DEF DeleteUser
  <2>4. ASSUME NEW ro \in Role, SetRole(r, ro) PROVE UserInv'
    BY <2>4, <1>2 DEF SetRole
  <2>5. ASSUME NEW t \in Topic, NEW S \in SUBSET Perm, SetAccess(r, t, S) PROVE UserInv'
    BY <2>5, <1>2 DEF SetAccess, WriteAcl
  <2>6. QED
    BY <1>5, <2>1, <2>2, <2>3, <2>4, <2>5 DEF Administer, DeleteAccess
<1>6. ASSUME NEW n \in Name, NEW p \in Secret, Register(n, p) PROVE UserInv'
  BY <1>6, <1>1 DEF Register
<1>7. ASSUME NEW k \in Token, Expire(k) PROVE UserInv'
  BY <1>7, <1>2 DEF Expire
<1>8. CASE UNCHANGED vars
  BY <1>8, <1>2 DEF vars
<1>9. QED
  BY <1>3, <1>4, <1>5, <1>6, <1>7, <1>8 DEF Next

\* A request's place keeps saying what it says.
LEMMA RequestStep ==
  TypeOK /\ RequestInv /\ IdentityIsRecent /\ [Next]_vars => RequestInv'
<1> SUFFICES ASSUME TypeOK, RequestInv, IdentityIsRecent, [Next]_vars
             PROVE  RequestInv'
  OBVIOUS
<1> USE DEF userVars, tokenVars, requestVars, historyVars
<1>1. ASSUME NEW r \in Request, Resolve(r) PROVE RequestInv'
  BY <1>1, ResolveStep
<1>2. ASSUME NEW r \in Request, Over(r) PROVE RequestInv'
  BY <1>2, OverPlaces
<1>3. ASSUME NEW r \in Request, NEW n \in Name, Locate(r, n) PROVE RequestInv'
  BY <1>3 DEF Locate, IsAdmin, IsUser, TypeOK, RequestInv, PlaceSays
<1>4. ASSUME NEW r \in Request, NEW W \in Purpose, Ask(r, W) PROVE RequestInv'
  BY <1>4 DEF Ask, TypeOK, RequestInv, PlaceSays
<1>5. ASSUME NEW r \in Request, NEW x \in Right, Authorize(r, x) PROVE RequestInv'
  <2>1. as[r] = "admin" \/ x \in held[r] \/ (who[r] = Nobody /\ x[2] \in Everyone)
    BY <1>5 DEF Authorize, Allowed, RequestInv, PlaceSays, RightsIn
  <2>2. UNCHANGED <<acl, who, as, goal, held>>
    BY <1>5 DEF Authorize
  <2>3. ASSUME NEW q \in Request PROVE PlaceSays(q)'
    <3>1. CASE q = r
      BY <1>5, <2>1, <2>2, <3>1 DEF Authorize, TypeOK, RequestInv, PlaceSays
    <3>2. CASE q # r
      <4>1. pc'[q] = pc[q] /\ passed'[q] = passed[q]
        BY <1>5, <3>2 DEF Authorize, TypeOK
      <4>2. QED
        BY <2>2, <4>1 DEF RequestInv, PlaceSays
    <3>3. QED
      BY <3>1, <3>2
  <2>4. QED
    BY <2>3 DEF RequestInv
<1>6. ASSUME UNCHANGED <<acl, requestVars, held>> PROVE RequestInv'
  BY <1>6 DEF RequestInv, PlaceSays
<1>7. ASSUME NEW n \in Name, NEW p \in Secret, Register(n, p) PROVE RequestInv'
  BY <1>6, <1>7 DEF Register
<1>8. ASSUME NEW k \in Token, Expire(k) PROVE RequestInv'
  BY <1>6, <1>8 DEF Expire
<1>9. CASE UNCHANGED vars
  BY <1>6, <1>9 DEF vars
<1>10. QED
  BY Answers, <1>1, <1>2, <1>3, <1>4, <1>5, <1>7, <1>8, <1>9 DEF Next, UseTopics

\* Who changes a caller's row or credential makes the caller outdated.
LEMMA IdentityStep ==
  TypeOK /\ UserInv /\ RequestInv /\ IdentityIsRecent /\ [Next]_vars => IdentityIsRecent'
<1> SUFFICES ASSUME TypeOK, UserInv, RequestInv, IdentityIsRecent, [Next]_vars
             PROVE  IdentityIsRecent'
  OBVIOUS
<1> USE DEF userVars, tokenVars, requestVars, historyVars
<1>1. ASSUME NEW r \in Request, Resolve(r) PROVE IdentityIsRecent'
  BY <1>1, ResolveStep
<1>2. SUFFICES ASSUME \A r \in Request : ~Resolve(r),
                      NEW q \in Request, pc'[q] # "idle", who'[q] # Nobody,
                      q \notin outdated'
               PROVE  StillValid(q)'
  BY <1>1 DEF IdentityIsRecent
<1>3. ASSUME NEW r \in Request, Over(r)
      PROVE  /\ q # r /\ StillValid(q) /\ who[q] \in alive
             /\ pc[q] # "idle" /\ UNCHANGED <<who[q], as[q], with[q]>>
  BY <1>2, <1>3 DEF TypeOK, Over, Idle, Concerns, IdentityIsRecent, StillValid
<1>4. ASSUME NEW n \in Name, NEW p \in Secret, NEW ro, InsertUser(n, p, ro),
             StillValid(q), UNCHANGED <<who[q], as[q], with[q], token, owner>>
      PROVE  StillValid(q)'
  <2>1. PICK u \in User :
          /\ name[u] = Nobody /\ alive' = alive \cup {u}
          /\ hash' = [hash EXCEPT ![u] = p] /\ role' = [role EXCEPT ![u] = ro]
    BY <1>4 DEF InsertUser
  <2>2. who[q] # u
    BY <1>4, <2>1 DEF StillValid, UserInv
  <2>3. role'[who[q]] = role[who[q]] /\ hash'[who[q]] = hash[who[q]]
    BY <2>1, <2>2
  <2>4. QED
    BY <1>4, <2>1, <2>3 DEF StillValid
<1>5. ASSUME UNCHANGED <<alive, role, hash, token, owner, who[q], as[q], with[q]>>, StillValid(q)
      PROVE  StillValid(q)'
  BY <1>5 DEF StillValid
<1>6. ASSUME NEW r \in Request, SelfService(r) PROVE StillValid(q)'
  <2>1. Over(r)
    BY <1>6, Answers
       DEF Locate, SelfService, DeleteAccount, ChangePassword, CreateToken,
           DeleteToken, DeleteOwnAccess, WriteAcl, Over, CallersAs, CallersWith
  <2> USE <1>2, <1>3, <2>1 DEF Concerns, CallersAs, CallersWith
  <2>2. ASSUME DeleteAccount(r) PROVE StillValid(q)'
    BY <2>2 DEF DeleteAccount, StillValid
  <2>3. ASSUME NEW p \in Secret, ChangePassword(r, p) PROVE StillValid(q)'
    BY <2>3 DEF ChangePassword, StillValid, TypeOK
  <2>4. ASSUME NEW k \in Token, CreateToken(r, k) PROVE StillValid(q)'
    BY <2>4 DEF CreateToken, StillValid, TypeOK
  <2>5. ASSUME NEW k \in Token, DeleteToken(r, k) PROVE StillValid(q)'
    BY <2>5 DEF DeleteToken, StillValid, TypeOK
  <2>6. ASSUME NEW t \in Topic, DeleteOwnAccess(r, t) PROVE StillValid(q)'
    BY <2>6, <1>5 DEF DeleteOwnAccess, WriteAcl
  <2>7. QED
    BY <1>6, <2>2, <2>3, <2>4, <2>5, <2>6 DEF SelfService
<1>7. ASSUME NEW r \in Request, Administer(r), Over(r) PROVE StillValid(q)'
  <2> USE <1>2, <1>3, <1>7
  <2>1. ASSUME NEW n \in Name, NEW p \in Secret, NEW ro \in Role,
               CreateUser(r, n, p, ro)
        PROVE  StillValid(q)'
    BY <2>1, <1>4 DEF CreateUser
  <2>2. ASSUME NEW n \in Name, Locate(r, n) PROVE StillValid(q)'
    BY <2>2, <1>5 DEF Locate
  <2>3. ASSUME DeleteUser(r) PROVE StillValid(q)'
    BY <2>3 DEF DeleteUser, StillValid, Concerns, CallersAs
  <2>4. ASSUME NEW ro \in Role, SetRole(r, ro) PROVE StillValid(q)'
    BY <2>4 DEF SetRole, StillValid, Concerns, CallersAs, TypeOK
  <2>5. ASSUME NEW t \in Topic, NEW S \in SUBSET Perm, SetAccess(r, t, S)
        PROVE  StillValid(q)'
    BY <2>5, <1>5 DEF SetAccess, WriteAcl
  <2>6. QED
    BY <2>1, <2>2, <2>3, <2>4, <2>5 DEF Administer, DeleteAccess
<1>8. ASSUME NEW r \in Request,
             UseTopics(r) \/ \E n \in Name : Locate(r, n)
      PROVE  StillValid(q)'
  <2>1. /\ pc[q] # "idle" /\ outdated' = outdated
        /\ UNCHANGED <<alive, role, hash, token, owner, who[q], as[q], with[q]>>
    BY <1>2, <1>8
       DEF UseTopics, Ask, Authorize, Locate, IsAdmin, IsUser, TypeOK
  <2>2. QED
    BY <1>2, <1>5, <2>1 DEF IdentityIsRecent
<1>9. ASSUME NEW r \in Request, End(r) PROVE StillValid(q)'
  <2>1. Over(r)
    BY <1>9 DEF End, Over
  <2>2. QED
    BY <1>3, <1>5, <1>9, <2>1 DEF End
<1>10. ASSUME NEW n \in Name, NEW p \in Secret, Register(n, p) PROVE StillValid(q)'
  BY <1>2, <1>4, <1>10 DEF Register, IdentityIsRecent
<1>11. ASSUME NEW k \in Token, Expire(k) PROVE StillValid(q)'
  BY <1>2, <1>11 DEF Expire, CallersWith, IdentityIsRecent, StillValid, TypeOK
<1>12. CASE UNCHANGED vars
  BY <1>2, <1>5, <1>12 DEF vars, IdentityIsRecent
<1>13. QED
  BY Answers, <1>2, <1>6, <1>7, <1>8, <1>9, <1>10, <1>11, <1>12 DEF Next

-----------------------------------------------------------------------------
(* The theorems.                                                           *)

\* The inductive invariant holds.
THEOREM AccountsInvariant == Spec => []AccountsInv
<1>1. Init => AccountsInv
  <2> SUFFICES ASSUME Init PROVE AccountsInv
    OBVIOUS
  <2>1. TypeOK
    BY AccountsAssumption DEF Init, TypeOK, RowsHaveOwners, Role, Place, TokenState
  <2>2. UserInv /\ RequestInv /\ IdentityIsRecent
    BY DEF Init, UserInv, RequestInv, PlaceSays, IdentityIsRecent
  <2>3. QED
    BY <2>1, <2>2 DEF AccountsInv
<1>2. AccountsInv /\ [Next]_vars => AccountsInv'
  BY TypeStep, UserStep, RequestStep, IdentityStep DEF AccountsInv
<1>3. QED
  BY <1>1, <1>2, PTL DEF Spec

\* Every variable of Accounts keeps its type.
THEOREM AccountsTypeCorrect == Spec => []TypeOK
BY AccountsInvariant, PTL DEF AccountsInv

\* An identity differs from the row it was read from only by what changed
\* while the request was under way.
THEOREM IdentityIsRecentHolds == Spec => []IdentityIsRecent
BY AccountsInvariant, PTL DEF AccountsInv

\* Every right a handler uses was its caller's at some moment since it asked.
THEOREM UsesWereAllowedHolds == Spec => []UsesWereAllowed
<1>1. AccountsInv => UsesWereAllowed
  BY DEF AccountsInv, RequestInv, PlaceSays, UsesWereAllowed
<1>2. QED
  BY <1>1, AccountsInvariant, PTL

\* A step of the system makes no administrator where there is none.
LEMMA AdminStep ==
  AccountsInv /\ [Next]_vars => (~AdminPresent => ~AdminPresent')
<1> SUFFICES ASSUME AccountsInv, [Next]_vars, ~AdminPresent PROVE ~AdminPresent'
  OBVIOUS
<1> USE DEF AccountsInv, userVars, tokenVars, requestVars, historyVars
<1>1. ASSUME role' = role, alive' \subseteq alive,
             \A q \in Request : pc'[q] # "idle" => pc[q] # "idle" /\ as'[q] = as[q]
      PROVE  ~AdminPresent'
  BY <1>1 DEF AdminPresent
<1>2. ASSUME NEW r \in Request, Resolve(r) PROVE ~AdminPresent'
  <2>1. PICK u \in alive \cup {Nobody}, c \in Secret \cup Token \cup {Nobody} :
              Resolved(r, u, c)
    BY <1>2
       DEF Resolve, AuthenticateBasic, AuthenticateToken, UserByToken, Anonymous, TypeOK
  <2>2. as'[r] # "admin"
    BY <2>1 DEF Resolved, AdminPresent, TypeOK
  <2>3. QED
    BY <2>1, <2>2 DEF Resolved, AdminPresent, TypeOK
<1>3. ASSUME NEW r \in Request, Over(r)
      PROVE  \A q \in Request : pc'[q] # "idle" => pc[q] # "idle" /\ as'[q] = as[q]
  BY <1>3 DEF Over, Idle, TypeOK
<1>4. ASSUME NEW r \in Request, SelfService(r) PROVE ~AdminPresent'
  <2>1. Over(r) /\ role' = role /\ alive' \subseteq alive
    BY <1>4
       DEF SelfService, DeleteAccount, ChangePassword, CreateToken, DeleteToken,
           DeleteOwnAccess, WriteAcl, Over, CallersAs, CallersWith
  <2>2. QED
    BY <2>1, <1>1, <1>3
<1>5. ASSUME NEW r \in Request, Administer(r) PROVE ~AdminPresent'
  <2>1. pc[r] # "idle" /\ as[r] = "admin"
    BY <1>5
       DEF Administer, CreateUser, Locate, DeleteUser, SetRole, SetAccess,
           DeleteAccess, IsAdmin, IsUser, RequestInv, PlaceSays
  <2>2. QED
    BY <2>1 DEF AdminPresent
<1>6. ASSUME NEW r \in Request, UseTopics(r) PROVE ~AdminPresent'
  <2>1. /\ role' = role /\ alive' = alive /\ as' = as
        /\ \A q \in Request : pc'[q] # "idle" => pc[q] # "idle"
    BY <1>6 DEF UseTopics, Ask, Authorize, TypeOK
  <2>2. QED
    BY <2>1, <1>1
<1>7. ASSUME NEW r \in Request, End(r) PROVE ~AdminPresent'
  <2>1. Over(r) /\ role' = role /\ alive' = alive
    BY <1>7 DEF End, Over
  <2>2. QED
    BY <2>1, <1>1, <1>3
<1>8. ASSUME NEW n \in Name, NEW p \in Secret, Register(n, p) PROVE ~AdminPresent'
  BY <1>8 DEF Register, InsertUser, AdminPresent, TypeOK
<1>9. ASSUME NEW k \in Token, Expire(k) PROVE ~AdminPresent'
  BY <1>9, <1>1 DEF Expire
<1>10. CASE UNCHANGED vars
  BY <1>10, <1>1 DEF vars
<1>11. QED
  BY <1>2, <1>4, <1>5, <1>6, <1>7, <1>8, <1>9, <1>10 DEF Next

\* Where there is no administrator, there is none ever after.
THEOREM AdminsComeFromAdminsHolds == Spec => AdminsComeFromAdmins
BY AccountsInvariant, AdminStep, PTL DEF Spec, AdminsComeFromAdmins

=============================================================================
