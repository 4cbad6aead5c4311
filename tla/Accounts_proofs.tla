---------------------------- MODULE Accounts_proofs ----------------------------
(* The properties of Accounts, for every number of requests, emails and roles.   *)
(* They are not inductive: a handler's locals outlive its read of users, so the  *)
(* invariant says what is still true of them when the handler commits.          *)
EXTENDS Accounts, TLAPS

(* A login in flight, or a reset, is of an account that exists; the role that   *)
(* the login read is still the account's.                                       *)
LoginsHold ==
  \A s \in Session :
    /\ At(s, "login") =>
         /\ rq[s].actor = rq[s].email /\ users[rq[s].email] # NoUser
         /\ users[rq[s].email].role = rq[s].role
    /\ At(s, "user.password_reset") => users[rq[s].email] # NoUser

IsAdmin(e) == users[e] # NoUser /\ users[e].role = "admin"

(* An account is created by an admin, or by the bootstrap as an admin.          *)
CreatorsHold ==
  \A s \in Session : rq[s].pc \in {"insert", "user.create"} =>
    /\ rq[s].role \in Role
    /\ \/ rq[s].actor \in Email /\ IsAdmin(rq[s].actor)
       \/ s \in Cli /\ rq[s].actor = rq[s].email /\ rq[s].role = "admin"

(* An inserted row is the only one of its email.                                *)
InsertsHold ==
  \A s \in Session : At(s, "user.create") =>
    /\ users[rq[s].email] = NoUser
    /\ \A o \in Session : At(o, "user.create") /\ rq[o].email = rq[s].email => o = s

(* Every creation has an actor, and an account that created itself is an admin. *)
EntriesHold ==
  \A a \in audit : a.action = "user.create" =>
    /\ a.actor \in Email
    /\ a.actor = a.target => IsAdmin(a.target)

IInv ==
  /\ TypeOK /\ LoginsHold /\ CreatorsHold /\ InsertsHold /\ EntriesHold
  /\ SessionsAreLogins /\ RightsAreHandedDown /\ AccessEndsWithSession

(* An empty table, log and set of tokens satisfy the invariant.                *)
LEMMA InitIInv == Init => IInv
BY AccountAssumption DEF Init, IInv, TypeOK, LoginsHold, CreatorsHold, InsertsHold,
     EntriesHold, SessionsAreLogins, RightsAreHandedDown, AccessEndsWithSession, At, Idle,
     Locals, Account

-------------------------------------------------------------------------------
(* A session that is not idle has all its locals.                              *)
LEMMA LocalFacts ==
  ASSUME TypeOK, NEW s \in Session, rq[s].pc # "idle"
  PROVE  /\ rq[s] \in [pc : Action \cup {"insert"}, email : Email,
                       actor : Email \cup {NoUser}, password : Password,
                       role : Role \cup {"none"}]
         /\ rq[s].email \in Email /\ rq[s].actor \in Email \cup {NoUser}
         /\ rq[s].password \in Password /\ rq[s].role \in Role \cup {"none"}
<1>1. rq[s] \in Locals
  BY DEF TypeOK
<1>2. rq[s] # Idle
  BY DEF Idle
<1> QED
  BY <1>1, <1>2 DEF Locals

(* The steps that leave the users table and its entries alone.                 *)
Quiet == UNCHANGED <<users, audit>>

LEMMA QuietSteps ==
  ASSUME Next
  PROVE  \/ Quiet
         \/ \E s \in Request : LoginCommit(s)
         \/ \E s \in Session : CreateCommit(s)
         \/ \E s \in Cli : ResetCommit(s)
BY DEF Next, Quiet, LoginRead, CreateRequest, Bootstrap, ResetRead, Insert, Abort,
     Refresh, Restart, Tick

(* An account stays, with its role; an entry stays.                            *)
LEMMA NothingGoesAway ==
  ASSUME IInv, [Next]_vars
  PROVE  /\ users' \in [Email -> Account \cup {NoUser}]
         /\ \A e \in Email : users[e] # NoUser =>
              users'[e] # NoUser /\ users'[e].role = users[e].role
         /\ audit \subseteq audit'
<1> USE DEF IInv
<1>1. CASE Quiet \/ UNCHANGED vars
  BY <1>1 DEF Quiet, vars, TypeOK
<1>2. ASSUME NEW s \in Request, LoginCommit(s)
      PROVE  UNCHANGED users /\ audit \subseteq audit'
  BY <1>2 DEF LoginCommit
<1>3. ASSUME NEW s \in Session, CreateCommit(s)
      PROVE  /\ users' \in [Email -> Account \cup {NoUser}]
             /\ \A e \in Email : users[e] # NoUser => users'[e] = users[e]
             /\ audit \subseteq audit'
  <2>1. rq[s].pc # "idle"
    BY <1>3 DEF CreateCommit, At
  <2>2. rq[s].role \in Role
    BY <1>3 DEF CreateCommit, At, CreatorsHold
  <2> QED
    BY <1>3, <2>1, <2>2, LocalFacts DEF CreateCommit, InsertsHold, TypeOK, Account
<1>4. ASSUME NEW s \in Cli, ResetCommit(s)
      PROVE  /\ users' \in [Email -> Account \cup {NoUser}]
             /\ \A e \in Email : users[e] # NoUser =>
                  users'[e] # NoUser /\ users'[e].role = users[e].role
             /\ audit \subseteq audit'
  <2>1. s \in Session
    BY DEF Session
  <2> DEFINE e0 == rq[s].email
             p0 == rq[s].password
  <2>2. e0 \in Email /\ p0 \in Password /\ users[e0] # NoUser
    BY <1>4, <2>1, LocalFacts DEF ResetCommit, At, LoginsHold
  <2>3. users[e0] \in Account
    BY <2>2 DEF TypeOK
  <2>4. /\ [users[e0] EXCEPT !.password = p0] \in Account
        /\ [users[e0] EXCEPT !.password = p0].role = users[e0].role
    BY <2>2, <2>3 DEF Account
  <2>5. users' = [users EXCEPT ![e0] = [users[e0] EXCEPT !.password = p0]]
    BY <1>4, <2>2 DEF ResetCommit, TypeOK
  <2>6. audit \subseteq audit'
    BY <1>4 DEF ResetCommit
  <2> HIDE DEF e0, p0
  <2>7. \A e \in Email : users'[e] = IF e = e0 THEN [users[e0] EXCEPT !.password = p0]
                                              ELSE users[e]
    BY <2>2, <2>5 DEF TypeOK
  <2>8. NoUser \notin Account
    BY AccountAssumption DEF Account
  <2> QED
    BY <2>2, <2>4, <2>5, <2>6, <2>7, <2>8 DEF TypeOK
<1> QED
  BY <1>1, <1>2, <1>3, <1>4, QuietSteps DEF TypeOK

(* What a step may make of a session's locals.                                 *)
LEMMA LocalsStep ==
  ASSUME TypeOK, [Next]_vars, NEW s \in Session
  PROVE  \/ rq'[s] \in {rq[s], Idle}
         \/ \E e \in Email, p \in Password, code \in BOOLEAN :
              s \in Request /\ LoginRead(s, e, p, code)
         \/ \E t \in tokens, e \in Email, p \in Password, r \in Role :
              s \in Request /\ CreateRequest(s, t, e, p, r)
         \/ \E e \in Email, p \in Password : s \in Cli /\ Bootstrap(s, e, p)
         \/ \E e \in Email, p \in Password : s \in Cli /\ ResetRead(s, e, p)
         \/ Insert(s)
<1>1. CASE UNCHANGED vars
  BY <1>1 DEF vars
<1>2. CASE \E o \in Request, e \in Email, p \in Password, code \in BOOLEAN :
             LoginRead(o, e, p, code)
  <2>1. PICK o \in Request, e \in Email, p \in Password, code \in BOOLEAN :
               LoginRead(o, e, p, code)
    BY <1>2
  <2>2. CASE o = s
    BY <2>1, <2>2
  <2>3. CASE o # s
    BY <2>1, <2>3 DEF LoginRead, Goto, TypeOK
  <2> QED
    BY <2>2, <2>3
<1>3. CASE \E o \in Request, e \in Email, p \in Password, t \in tokens, r \in Role :
             CreateRequest(o, t, e, p, r)
  <2>1. PICK o \in Request, e \in Email, p \in Password, t \in tokens, r \in Role :
               CreateRequest(o, t, e, p, r)
    BY <1>3
  <2>2. CASE o = s
    BY <2>1, <2>2
  <2>3. CASE o # s
    BY <2>1, <2>3 DEF CreateRequest, Goto, TypeOK
  <2> QED
    BY <2>2, <2>3
<1>4. CASE \E o \in Cli, e \in Email, p \in Password : Bootstrap(o, e, p) \/ ResetRead(o, e, p)
  <2>1. PICK o \in Cli, e \in Email, p \in Password : Bootstrap(o, e, p) \/ ResetRead(o, e, p)
    BY <1>4
  <2>2. CASE o = s
    BY <2>1, <2>2
  <2>3. CASE o # s
    BY <2>1, <2>3 DEF Bootstrap, ResetRead, Goto, TypeOK
  <2> QED
    BY <2>2, <2>3
<1>5. CASE \E o \in Session : Insert(o)
  <2>1. PICK o \in Session : Insert(o)
    BY <1>5
  <2>2. CASE o = s
    BY <2>1, <2>2
  <2>3. CASE o # s
    BY <2>1, <2>3 DEF Insert, Goto, TypeOK
  <2> QED
    BY <2>2, <2>3
<1>6. CASE \/ \E o \in Session : LoginCommit(o) \/ CreateCommit(o) \/ ResetCommit(o) \/ Abort(o)
           \/ Restart \/ Tick \/ \E t \in tokens : Refresh(t)
  BY <1>6 DEF LoginCommit, CreateCommit, ResetCommit, Abort, Restart, Tick, Refresh, Goto, TypeOK
<1> QED
  BY <1>1, <1>2, <1>3, <1>4, <1>5, <1>6 DEF Next, Session

(* The tokens that a login or a refresh makes are well typed.                  *)
LEMMA NewTokensType ==
  ASSUME NEW e \in Email, NEW r \in Role
  PROVE  NewTokens(e, r) \subseteq [sub : Email, role : Role, type : {"access", "refresh"},
                                    left : Nat \ {0}]
BY LifetimeAssumption DEF NewTokens, Token

(* Where the tokens that work after a step come from.                          *)
LEMMA TokensStep ==
  ASSUME IInv, [Next]_vars
  PROVE  \/ tokens' \subseteq tokens
         \/ \E s \in Request :
              LoginCommit(s) /\ At(s, "login")
              /\ tokens' = tokens \cup NewTokens(rq[s].email, rq[s].role)
         \/ \E t \in tokens : Refresh(t)
         \/ Tick
BY DEF Next, vars, LoginRead, LoginCommit, CreateRequest, Bootstrap, ResetRead, Insert,
     CreateCommit, ResetCommit, Abort, Restart

(* Every step keeps the types.                                                 *)
LEMMA TypeStep ==
  ASSUME IInv, [Next]_vars
  PROVE  TypeOK'
<1> USE DEF IInv
<1>1. users' \in [Email -> Account \cup {NoUser}]
  BY NothingGoesAway
<1>2. rq' \in [Session -> Locals]
  <2>1. DOMAIN rq' = Session /\ rq' = [s \in Session |-> rq'[s]]
    BY DEF Next, vars, LoginRead, LoginCommit, CreateRequest, Bootstrap, ResetRead, Insert,
         CreateCommit, ResetCommit, Abort, Restart, Tick, Refresh, Goto, TypeOK
  <2>2. ASSUME NEW s \in Session
        PROVE  rq'[s] \in Locals
    <3>1. CASE rq'[s] \in {rq[s], Idle}
      BY <3>1 DEF TypeOK, Locals
    <3>2. ASSUME NEW e \in Email, NEW p \in Password, NEW code \in BOOLEAN,
                 LoginRead(s, e, p, code)
          PROVE  rq'[s] \in Locals
      BY <3>2, AccountAssumption
         DEF LoginRead, LoginResult, Goto, Local, Locals, Action, TypeOK, Account
    <3>3. ASSUME NEW t \in tokens, NEW e \in Email, NEW p \in Password, NEW r \in Role,
                 CreateRequest(s, t, e, p, r)
          PROVE  rq'[s] \in Locals
      BY <3>3 DEF CreateRequest, Goto, Local, Locals, Action, TypeOK
    <3>4. ASSUME NEW e \in Email, NEW p \in Password, Bootstrap(s, e, p)
          PROVE  rq'[s] \in Locals
      BY <3>4, AccountAssumption DEF Bootstrap, Goto, Local, Locals, Action, TypeOK
    <3>5. ASSUME NEW e \in Email, NEW p \in Password, ResetRead(s, e, p)
          PROVE  rq'[s] \in Locals
      BY <3>5 DEF ResetRead, Goto, Local, Locals, Action, TypeOK
    <3>6. ASSUME Insert(s)
          PROVE  rq'[s] \in Locals
      <4>1. rq'[s] \in {Idle, [rq[s] EXCEPT !.pc = "user.create"]} /\ rq[s].pc = "insert"
        BY <3>6 DEF Insert, Goto, At, TypeOK
      <4>2. [rq[s] EXCEPT !.pc = "user.create"] \in Locals
        BY <4>1, LocalFacts DEF Locals, Action
      <4> QED
        BY <4>1, <4>2 DEF Locals
    <3> QED
      BY <3>1, <3>2, <3>3, <3>4, <3>5, <3>6, LocalsStep
  <2> QED
    BY <2>1, <2>2
<1>3. audit' \subseteq [action : Action, actor : Email \cup {NoUser},
                        target : Email \cup {NoUser}, role : Role \cup {"none"}]
  <2> DEFINE Entries == [action : Action, actor : Email \cup {NoUser},
                         target : Email \cup {NoUser}, role : Role \cup {"none"}]
  <2>1. audit \subseteq Entries
    BY DEF TypeOK
  <2>2. ASSUME NEW s \in Request, LoginCommit(s)
        PROVE  audit' \subseteq Entries
    <3>1. /\ rq[s].actor \in Email \cup {NoUser} /\ rq[s].role \in Role \cup {"none"}
          /\ rq[s].pc \in Action
      BY <2>2, LocalFacts DEF LoginCommit, Session, Action
    <3> QED
      BY <2>1, <2>2, <3>1 DEF LoginCommit, Entry
  <2>3. ASSUME NEW s \in Session, CreateCommit(s)
        PROVE  audit' \subseteq Entries
    <3>1. /\ rq[s].actor \in Email \cup {NoUser} /\ rq[s].role \in Role \cup {"none"}
          /\ rq[s].email \in Email
      BY <2>3, LocalFacts DEF CreateCommit, At
    <3> QED
      BY <2>1, <2>3, <3>1 DEF CreateCommit, Entry, Action
  <2>4. ASSUME NEW s \in Cli, ResetCommit(s)
        PROVE  audit' \subseteq Entries
    <3>1. rq[s].actor \in Email \cup {NoUser} /\ rq[s].email \in Email
      BY <2>4, LocalFacts DEF ResetCommit, At, Session
    <3> QED
      BY <2>1, <2>4, <3>1 DEF ResetCommit, Entry, Action
  <2> QED
    BY <2>1, <2>2, <2>3, <2>4, QuietSteps DEF Quiet, vars
<1>4. tokens' \subseteq [sub : Email, role : Role, type : {"access", "refresh"}, left : Nat \ {0}]
  <2>1. ASSUME NEW s \in Request, LoginCommit(s), At(s, "login")
        PROVE  rq[s].email \in Email /\ rq[s].role \in Role
    BY <2>1, LocalFacts DEF LoginsHold, TypeOK, Account, Session, At
  <2>2. ASSUME NEW t \in tokens, Refresh(t)
        PROVE  /\ tokens' \subseteq tokens \cup NewTokens(t.sub, t.role)
               /\ t.sub \in Email /\ t.role \in Role
    BY <2>2 DEF Refresh, TypeOK
  <2>3. ASSUME Tick
        PROVE  tokens' \subseteq [sub : Email, role : Role, type : {"access", "refresh"},
                                  left : Nat \ {0}]
    BY <2>3 DEF Tick, TypeOK
  <2> QED
    BY <2>1, <2>2, <2>3, TokensStep, NewTokensType DEF TypeOK
<1> QED
  BY <1>1, <1>2, <1>3, <1>4 DEF TypeOK

(* What a login or a reset read stays true until it commits.                   *)
LEMMA LoginsStep ==
  ASSUME IInv, [Next]_vars
  PROVE  LoginsHold'
<1> SUFFICES ASSUME NEW s \in Session
             PROVE  /\ rq'[s].pc = "login" =>
                         /\ rq'[s].actor = rq'[s].email /\ users'[rq'[s].email] # NoUser
                         /\ users'[rq'[s].email].role = rq'[s].role
                    /\ rq'[s].pc = "user.password_reset" => users'[rq'[s].email] # NoUser
  BY DEF LoginsHold, At
<1> USE DEF IInv
<1>1. CASE rq'[s] \in {rq[s], Idle}
  <2>1. rq[s].pc # "idle" => rq[s].email \in Email
    BY LocalFacts
  <2> QED
    BY <1>1, <2>1, NothingGoesAway DEF LoginsHold, At, Idle
<1>2. ASSUME NEW e \in Email, NEW p \in Password, NEW code \in BOOLEAN, LoginRead(s, e, p, code)
      PROVE  /\ rq'[s].pc = "login" =>
                  /\ rq'[s].actor = rq'[s].email /\ users'[rq'[s].email] # NoUser
                  /\ users'[rq'[s].email].role = rq'[s].role
             /\ rq'[s].pc # "user.password_reset"
  BY <1>2 DEF LoginRead, LoginResult, Goto, Local, TypeOK
<1>3. ASSUME NEW e \in Email, NEW p \in Password, ResetRead(s, e, p)
      PROVE  rq'[s].pc = "user.password_reset" /\ users'[rq'[s].email] # NoUser
  BY <1>3 DEF ResetRead, Goto, Local, TypeOK
<1>4. ASSUME \/ \E t \in tokens, e \in Email, p \in Password, r \in Role :
                  CreateRequest(s, t, e, p, r)
             \/ \E e \in Email, p \in Password : Bootstrap(s, e, p)
             \/ Insert(s)
      PROVE  rq'[s].pc \in {"idle", "insert", "user.create"}
  <2>1. ASSUME NEW t \in tokens, NEW e \in Email, NEW p \in Password, NEW r \in Role,
               CreateRequest(s, t, e, p, r)
        PROVE  rq'[s].pc = "insert"
    BY <2>1 DEF CreateRequest, Goto, Local, TypeOK
  <2>2. ASSUME NEW e \in Email, NEW p \in Password, Bootstrap(s, e, p)
        PROVE  rq'[s].pc = "insert"
    BY <2>2 DEF Bootstrap, Goto, Local, TypeOK
  <2>3. ASSUME Insert(s)
        PROVE  rq'[s].pc \in {"idle", "user.create"}
    <3>1. rq[s].pc = "insert" /\ rq'[s] \in {Idle, [rq[s] EXCEPT !.pc = "user.create"]}
      BY <2>3 DEF Insert, Goto, At, TypeOK
    <3> QED
      BY <3>1, LocalFacts DEF Idle
  <2> QED
    BY <1>4, <2>1, <2>2, <2>3
<1> QED
  BY <1>1, <1>2, <1>3, <1>4, LocalsStep

(* The bearer of a token that passes require_role("admin") is an admin.        *)
LEMMA AdminToken ==
  ASSUME IInv, NEW t \in tokens, role_at_least(t.role, "admin")
  PROVE  t.sub \in Email /\ IsAdmin(t.sub)
<1>1. t.sub \in Email /\ t.role \in {"viewer", "analyst", "lead", "admin"}
  BY AccountAssumption DEF IInv, TypeOK, ROLE_ORDER
<1>2. t.role = "admin"
  BY <1>1 DEF role_at_least, ROLE_ORDER
<1> QED
  BY <1>1, <1>2 DEF IInv, SessionsAreLogins, IsAdmin

(* Whoever creates an account stays entitled to it.                            *)
LEMMA CreatorsStep ==
  ASSUME IInv, [Next]_vars
  PROVE  CreatorsHold'
<1> DEFINE Holds(s) ==
      /\ rq'[s].role \in Role
      /\ \/ /\ rq'[s].actor \in Email /\ users'[rq'[s].actor] # NoUser
            /\ users'[rq'[s].actor].role = "admin"
         \/ s \in Cli /\ rq'[s].actor = rq'[s].email /\ rq'[s].role = "admin"
<1> SUFFICES ASSUME NEW s \in Session, rq'[s].pc \in {"insert", "user.create"}
             PROVE  Holds(s)
  BY DEF CreatorsHold, IsAdmin
<1> USE DEF IInv
<1>0. \A e \in Email : IsAdmin(e) => users'[e] # NoUser /\ users'[e].role = "admin"
  BY NothingGoesAway DEF IsAdmin
<1>1. CASE rq'[s] \in {rq[s], Idle}
  BY <1>0, <1>1 DEF CreatorsHold, Idle
<1>2. ASSUME NEW t \in tokens, NEW e \in Email, NEW p \in Password, NEW r \in Role,
             CreateRequest(s, t, e, p, r)
      PROVE  Holds(s)
  BY <1>0, <1>2, AdminToken DEF CreateRequest, Goto, Local, TypeOK
<1>3. ASSUME NEW e \in Email, NEW p \in Password, s \in Cli, Bootstrap(s, e, p)
      PROVE  Holds(s)
  BY <1>3, AccountAssumption DEF Bootstrap, Goto, Local, TypeOK
<1>4. ASSUME Insert(s)
      PROVE  Holds(s)
  <2>1. rq[s].pc = "insert" /\ rq'[s] \in {Idle, [rq[s] EXCEPT !.pc = "user.create"]}
    BY <1>4 DEF Insert, Goto, At, TypeOK
  <2>2. /\ rq'[s].role = rq[s].role /\ rq'[s].actor = rq[s].actor
        /\ rq'[s].email = rq[s].email
    BY <2>1, LocalFacts DEF Idle
  <2> QED
    BY <1>0, <2>1, <2>2 DEF CreatorsHold
<1>5. ASSUME \/ \E e \in Email, p \in Password, code \in BOOLEAN : LoginRead(s, e, p, code)
             \/ \E e \in Email, p \in Password : ResetRead(s, e, p)
      PROVE  FALSE
  BY <1>5 DEF LoginRead, LoginResult, ResetRead, Goto, Local, TypeOK
<1> QED
  BY <1>1, <1>2, <1>3, <1>4, <1>5, LocalsStep

(* The unique index keeps an inserted row the only one of its email.           *)
LEMMA InsertsStep ==
  ASSUME IInv, [Next]_vars
  PROVE  InsertsHold'
<1> USE DEF IInv
(* Who comes to user.create just inserted the row.                             *)
<1>1. ASSUME NEW s \in Session, rq'[s].pc = "user.create", rq'[s] # rq[s]
      PROVE  /\ Insert(s) /\ rq'[s].email = rq[s].email
             /\ users[rq[s].email] = NoUser
             /\ ~ \E o \in Session : At(o, "user.create") /\ rq[o].email = rq[s].email
             /\ users' = users
  <2>1. ~ \E e \in Email, p \in Password, code \in BOOLEAN : LoginRead(s, e, p, code)
    BY <1>1 DEF LoginRead, LoginResult, Goto, Local, TypeOK
  <2>2. /\ ~ \E t \in tokens, e \in Email, p \in Password, r \in Role :
                CreateRequest(s, t, e, p, r)
        /\ ~ \E e \in Email, p \in Password : Bootstrap(s, e, p)
        /\ ~ \E e \in Email, p \in Password : ResetRead(s, e, p)
    BY <1>1 DEF CreateRequest, Bootstrap, ResetRead, Goto, Local, TypeOK
  <2>3. Insert(s)
    BY <1>1, <2>1, <2>2, LocalsStep DEF Idle
  <2>4. rq[s].pc = "insert"
    BY <2>3 DEF Insert, At
  <2> QED
    BY <1>1, <2>3, <2>4, LocalFacts DEF Insert, Goto, Idle, TypeOK
<1>2. ASSUME NEW s \in Session, rq'[s].pc = "user.create"
      PROVE  users'[rq'[s].email] = NoUser
  <2>1. CASE rq'[s] # rq[s]
    BY <1>1, <1>2, <2>1
  <2>2. CASE rq'[s] = rq[s]
    <3> DEFINE e == rq[s].email
    <3>1. users[e] = NoUser /\ e \in Email
      BY <1>2, <2>2, LocalFacts DEF InsertsHold, At
    <3>2. ASSUME NEW o \in Session, CreateCommit(o)
          PROVE  users'[e] = NoUser
      <4>1. o # s
        BY <1>2, <2>2, <3>2 DEF CreateCommit, Goto, Idle, TypeOK
      <4>2. rq[o].email # e
        BY <1>2, <2>2, <3>2, <4>1 DEF CreateCommit, InsertsHold, At
      <4> QED
        BY <3>1, <3>2, <4>2 DEF CreateCommit, TypeOK
    <3>3. ASSUME NEW o \in Cli, ResetCommit(o)
          PROVE  users'[e] = NoUser
      <4>1. rq[o].email # e
        BY <3>1, <3>3 DEF ResetCommit, LoginsHold, Session
      <4> QED
        BY <3>1, <3>3, <4>1 DEF ResetCommit, TypeOK
    <3> QED
      BY <2>2, <3>1, <3>2, <3>3, QuietSteps DEF Quiet, LoginCommit, vars
  <2> QED
    BY <2>1, <2>2
<1>3. ASSUME NEW s \in Session, NEW o \in Session, rq'[s].pc = "user.create",
             rq'[o].pc = "user.create", rq'[s].email = rq'[o].email, o # s
      PROVE  FALSE
  <2>1. CASE rq'[s] = rq[s] /\ rq'[o] = rq[o]
    BY <1>3, <2>1 DEF InsertsHold, At
  <2>2. CASE rq'[s] # rq[s]
    <3>1. Insert(s) /\ rq'[o] = rq[o]
      BY <1>1, <1>3, <2>2 DEF Insert, Goto, TypeOK
    <3> QED
      BY <1>1, <1>3, <2>2, <3>1 DEF At
  <2>3. CASE rq'[o] # rq[o]
    <3>1. Insert(o) /\ rq'[s] = rq[s]
      BY <1>1, <1>3, <2>3 DEF Insert, Goto, TypeOK
    <3> QED
      BY <1>1, <1>3, <2>3, <3>1 DEF At
  <2> QED
    BY <2>1, <2>2, <2>3
<1> QED
  BY <1>2, <1>3 DEF InsertsHold, At

(* Every step keeps tokens true to accounts and logins.                        *)
LEMMA SessionsStep ==
  ASSUME IInv, [Next]_vars
  PROVE  SessionsAreLogins'
<1> USE DEF IInv
<1> DEFINE Login(e, r) == [action |-> "login", actor |-> e, target |-> e, role |-> r]
           Backed(e, r) == /\ users'[e] # NoUser /\ users'[e].role = r
                           /\ Login(e, r) \in audit'
<1>1. \A t \in tokens : Backed(t.sub, t.role)
  <2> TAKE t \in tokens
  <2>1. t.sub \in Email /\ Login(t.sub, t.role) \in audit
    BY DEF TypeOK, SessionsAreLogins
  <2> QED
    BY <2>1, NothingGoesAway DEF SessionsAreLogins
<1>2. ASSUME NEW s \in Request, LoginCommit(s), At(s, "login")
      PROVE  Backed(rq[s].email, rq[s].role)
  <2>1. /\ rq[s].email \in Email /\ rq[s].actor = rq[s].email
        /\ users[rq[s].email] # NoUser /\ users[rq[s].email].role = rq[s].role
    BY <1>2, LocalFacts DEF LoginsHold, Session, At
  <2>2. Login(rq[s].email, rq[s].role) \in audit'
    BY <1>2, <2>1 DEF LoginCommit, Entry, At
  <2> QED
    BY <2>1, <2>2, NothingGoesAway
<1>3. \A t \in tokens' : Backed(t.sub, t.role)
  <2>1. ASSUME NEW t \in tokens, Refresh(t)
        PROVE  tokens' = tokens \cup NewTokens(t.sub, t.role)
    BY <2>1 DEF Refresh
  <2>2. ASSUME Tick, NEW u \in tokens'
        PROVE  Backed(u.sub, u.role)
    <3>1. PICK t \in tokens : u = [t EXCEPT !.left = @ - 1]
      BY <2>2 DEF Tick
    <3>2. u.sub = t.sub /\ u.role = t.role
      BY <3>1 DEF TypeOK
    <3> QED
      BY <1>1, <3>2
  <2>3. ASSUME NEW e, NEW r, NEW u \in NewTokens(e, r)
        PROVE  u.sub = e /\ u.role = r
    BY <2>3 DEF NewTokens, Token
  <2> HIDE DEF Backed
  <2> QED
    BY <1>1, <1>2, <2>1, <2>2, <2>3, TokensStep
<1> QED
  BY <1>3 DEF SessionsAreLogins

(* Every step keeps each account handed down by an admin.                      *)
LEMMA RightsStep ==
  ASSUME IInv, [Next]_vars
  PROVE  RightsAreHandedDown'
<1> USE DEF IInv
<1> DEFINE Given(e) ==
      \E a \in audit' :
        /\ a.action = "user.create" /\ a.target = e /\ a.role = users'[e].role
        /\ users'[a.actor] # NoUser /\ users'[a.actor].role = "admin"
<1>1. ASSUME NEW e \in Email, users[e] # NoUser
      PROVE  Given(e)
  <2>1. PICK a \in audit :
          /\ a.action = "user.create" /\ a.target = e /\ a.role = users[e].role
          /\ users[a.actor] # NoUser /\ users[a.actor].role = "admin"
    BY <1>1 DEF RightsAreHandedDown
  <2>2. a.actor \in Email
    BY <2>1 DEF EntriesHold
  <2> QED
    BY <1>1, <2>1, <2>2, NothingGoesAway
<1>2. ASSUME NEW e \in Email, users[e] = NoUser, users'[e] # NoUser
      PROVE  Given(e)
  <2>1. PICK s \in Session : CreateCommit(s)
    <3>1. ~Quiet /\ ~ \E s \in Request : LoginCommit(s)
      BY <1>2 DEF Quiet, LoginCommit
    <3>2. ASSUME NEW s \in Cli, ResetCommit(s)
          PROVE  FALSE
      BY <1>2, <3>2, LocalFacts DEF ResetCommit, LoginsHold, TypeOK, Session, At
    <3> QED
      BY <1>2, <3>1, <3>2, QuietSteps DEF vars
  <2>2. /\ rq[s].email = e
        /\ users' = [users EXCEPT ![e] = [password |-> rq[s].password, role |-> rq[s].role]]
        /\ Entry("user.create", rq[s].actor, e, rq[s].role) \in audit'
    BY <1>2, <2>1 DEF CreateCommit, TypeOK
  <2>3. users'[e].role = rq[s].role
    BY <2>2 DEF TypeOK
  <2>4. users'[rq[s].actor] # NoUser /\ users'[rq[s].actor].role = "admin"
    <3>1. CASE rq[s].actor \in Email /\ IsAdmin(rq[s].actor)
      BY <3>1, NothingGoesAway DEF IsAdmin
    <3>2. CASE rq[s].actor = e /\ rq[s].role = "admin"
      BY <1>2, <2>3, <3>2
    <3> QED
      BY <2>1, <2>2, <3>1, <3>2 DEF CreatorsHold, CreateCommit, At
  <2> QED
    BY <2>2, <2>3, <2>4 DEF Entry
<1> QED
  BY <1>1, <1>2 DEF RightsAreHandedDown

(* Every step keeps a refresh token beside each access token.                  *)
LEMMA AccessStep ==
  ASSUME IInv, [Next]_vars
  PROVE  AccessEndsWithSession'
<1> USE DEF IInv
<1> DEFINE Renewable(T) ==
      \A t \in T : t.type = "access" =>
        \E f \in T : f.type = "refresh" /\ f.sub = t.sub /\ f.left >= t.left
<1> SUFFICES Renewable(tokens')
  BY DEF AccessEndsWithSession
<1>1. ASSUME NEW e, NEW r
      PROVE  Renewable(NewTokens(e, r))
  BY LifetimeAssumption DEF NewTokens, Token
<1>2. ASSUME NEW S, NEW T, Renewable(S), Renewable(T)
      PROVE  Renewable(S \cup T)
  BY <1>2
<1>3. Renewable(tokens)
  BY DEF AccessEndsWithSession
<1>4. CASE Tick
  <2> SUFFICES ASSUME NEW u \in tokens', u.type = "access"
               PROVE  \E g \in tokens' : g.type = "refresh" /\ g.sub = u.sub /\ g.left >= u.left
    OBVIOUS
  <2>1. PICK t \in tokens : t.left > 1 /\ u = [t EXCEPT !.left = @ - 1]
    BY <1>4 DEF Tick
  <2>2. u.sub = t.sub /\ u.type = t.type /\ u.left = t.left - 1
    BY <2>1 DEF TypeOK
  <2>3. PICK f \in tokens : f.type = "refresh" /\ f.sub = t.sub /\ f.left >= t.left
    BY <1>3, <2>2
  <2>4. f.left \in Nat /\ t.left \in Nat
    BY DEF TypeOK
  <2>5. f.left > 1
    BY <2>1, <2>3, <2>4
  <2> DEFINE g == [f EXCEPT !.left = @ - 1]
  <2>6. g.type = f.type /\ g.sub = f.sub /\ g.left = f.left - 1
    BY DEF TypeOK
  <2>7. g \in tokens'
    BY <1>4, <2>5 DEF Tick
  <2> HIDE DEF g
  <2>8. g.left >= u.left
    BY <2>2, <2>3, <2>4, <2>6
  <2>9. g.type = "refresh" /\ g.sub = u.sub
    BY <2>2, <2>3, <2>6
  <2> QED
    BY <2>7, <2>8, <2>9
<1>5. CASE tokens' = {} \/ UNCHANGED tokens
  BY <1>3, <1>5
<1>6. CASE \E e, r : tokens' = tokens \cup NewTokens(e, r)
  <2> HIDE DEF Renewable
  <2>1. PICK e, r : tokens' = tokens \cup NewTokens(e, r)
    BY <1>6
  <2>2. Renewable(tokens')
    BY <1>1, <1>2, <1>3, <2>1
  <2> QED
    BY <2>2
<1>7. Tick \/ tokens' = {} \/ UNCHANGED tokens \/ \E e, r : tokens' = tokens \cup NewTokens(e, r)
  BY DEF Next, vars, LoginRead, LoginCommit, CreateRequest, Bootstrap, ResetRead, Insert,
     CreateCommit, ResetCommit, Abort, Restart, Refresh
<1> QED
  BY <1>4, <1>5, <1>6, <1>7

(* Every step keeps what user.create entries say true.                         *)
LEMMA EntriesStep ==
  ASSUME IInv, [Next]_vars
  PROVE  EntriesHold'
<1> USE DEF IInv
<1> DEFINE Fine(a) ==
      /\ a.actor \in Email
      /\ a.actor = a.target => users'[a.target] # NoUser /\ users'[a.target].role = "admin"
<1>1. ASSUME NEW a \in audit, a.action = "user.create"
      PROVE  Fine(a)
  BY <1>1, NothingGoesAway DEF EntriesHold, IsAdmin
<1>2. ASSUME NEW s \in Session, CreateCommit(s)
      PROVE  Fine(Entry("user.create", rq[s].actor, rq[s].email, rq[s].role))
  <2>1. /\ rq[s].email \in Email /\ users[rq[s].email] = NoUser
        /\ users' = [users EXCEPT ![rq[s].email] =
                       [password |-> rq[s].password, role |-> rq[s].role]]
    BY <1>2, LocalFacts DEF CreateCommit, InsertsHold, At
  <2>2. users'[rq[s].email] = [password |-> rq[s].password, role |-> rq[s].role]
    BY <2>1 DEF TypeOK
  <2>3. users'[rq[s].email] # NoUser
    BY <1>2, <2>2, LocalFacts, AccountAssumption DEF CreatorsHold, CreateCommit, At
  <2> QED
    BY <1>2, <2>1, <2>2, <2>3 DEF CreateCommit, CreatorsHold, IsAdmin, At, Entry
<1>3. ASSUME NEW a \in audit', a \notin audit, a.action = "user.create"
      PROVE  \E s \in Session :
               CreateCommit(s) /\ a = Entry("user.create", rq[s].actor, rq[s].email, rq[s].role)
  <2>1. ASSUME NEW s \in Request, LoginCommit(s)
        PROVE  FALSE
    BY <1>3, <2>1 DEF LoginCommit, Entry
  <2>2. ASSUME NEW s \in Cli, ResetCommit(s)
        PROVE  FALSE
    BY <1>3, <2>2 DEF ResetCommit, Entry
  <2>3. PICK s \in Session : CreateCommit(s)
    BY <1>3, <2>1, <2>2, QuietSteps DEF Quiet, vars
  <2> QED
    BY <1>3, <2>3 DEF CreateCommit
<1> QED
  BY <1>1, <1>2, <1>3 DEF EntriesHold, IsAdmin

-------------------------------------------------------------------------------
(* The strengthened invariant holds in every reachable state.                  *)
THEOREM Invariance == Spec => []IInv
<1>1. Init => IInv
  BY InitIInv
<1>2. IInv /\ [Next]_vars => IInv'
  <2> SUFFICES ASSUME IInv, [Next]_vars
               PROVE  IInv'
    OBVIOUS
  <2> QED
    BY TypeStep, LoginsStep, CreatorsStep, InsertsStep, EntriesStep, SessionsStep, RightsStep,
       AccessStep
       DEF IInv
<1> QED
  BY <1>1, <1>2, PTL DEF Spec

(* Every reachable state is well typed, the locals of handlers included.       *)
THEOREM TypeCorrect == Spec => []TypeOK
BY Invariance, PTL DEF IInv

(* Tokens never outlive what they say of the account: a refresh that copies the  *)
(* role of the old token (auth.py:77-86) is right.                             *)
THEOREM TokensAreTrue == Spec => []SessionsAreLogins
BY Invariance, PTL DEF IInv

(* Every account comes from an admin's hand (users.py:39-68, admin.py:28-57).   *)
THEOREM AdminsCreate == Spec => []RightsAreHandedDown
BY Invariance, PTL DEF IInv

(* An access token ends with its session (tokens.py:49-57).                     *)
THEOREM SessionsBoundAccess == Spec => []AccessEndsWithSession
BY Invariance, PTL DEF IInv

-------------------------------------------------------------------------------
SelfMade(a) == a.action = "user.create" /\ a.actor = a.target

(* The first admin.  While a bootstrap is under way no account has created      *)
(* itself, since it found no admin.                                            *)
FirstInv ==
  /\ IInv /\ OneFirstAdmin
  /\ \A c \in Cli : rq[c].pc \in {"insert", "user.create"} =>
       ~ \E a \in audit : SelfMade(a)

(* One command at a time keeps the first admin the only one of its kind.       *)
LEMMA FirstStep ==
  ASSUME FirstInv, IInv', [Next]_vars, \A c, d \in Cli : c = d
  PROVE  FirstInv'
<1> USE DEF FirstInv, IInv
<1>1. ASSUME NEW a \in audit', a \notin audit, SelfMade(a)
      PROVE  \E c \in Cli : CreateCommit(c) /\ audit' = audit \cup {a} /\ rq'[c] = Idle
  <2>1. ASSUME NEW s \in Request, LoginCommit(s)
        PROVE  FALSE
    BY <1>1, <2>1 DEF LoginCommit, Entry, SelfMade
  <2>2. ASSUME NEW s \in Cli, ResetCommit(s)
        PROVE  FALSE
    BY <1>1, <2>2 DEF ResetCommit, Entry, SelfMade
  <2>3. PICK s \in Session : CreateCommit(s)
    BY <1>1, <2>1, <2>2, QuietSteps DEF Quiet, vars
  <2>4. a = Entry("user.create", rq[s].actor, rq[s].email, rq[s].role) /\ audit' = audit \cup {a}
    BY <1>1, <2>3 DEF CreateCommit
  <2>5. rq[s].actor = rq[s].email /\ users[rq[s].email] = NoUser
    BY <1>1, <2>3, <2>4 DEF CreateCommit, InsertsHold, Entry, SelfMade
  <2>6. s \in Cli
    BY <2>3, <2>5 DEF CreatorsHold, CreateCommit, IsAdmin, At
  <2> QED
    BY <2>3, <2>4, <2>6 DEF CreateCommit, Goto, TypeOK
<1>2. OneFirstAdmin'
  <2>1. CASE \A a \in audit' : SelfMade(a) => a \in audit
    BY <2>1 DEF OneFirstAdmin, SelfMade
  <2>2. ASSUME NEW a \in audit', a \notin audit, SelfMade(a)
        PROVE  OneFirstAdmin'
    <3>1. ~ \E b \in audit : SelfMade(b)
      BY <1>1, <2>2 DEF CreateCommit, At
    <3>2. audit' = audit \cup {a}
      BY <1>1, <2>2
    <3> QED
      BY <3>1, <3>2 DEF OneFirstAdmin, SelfMade
  <2> QED
    BY <2>1, <2>2
<1>3. ASSUME NEW c \in Cli, rq'[c].pc \in {"insert", "user.create"}, NEW a \in audit', SelfMade(a)
      PROVE  FALSE
  <2>1. c \in Session /\ c \notin Request
    BY AccountAssumption DEF Session
  <2>2. a \in audit
    BY <1>1, <1>3 DEF Idle
  <2>3. a.target \in Email /\ IsAdmin(a.target)
    BY <2>2, <1>3 DEF EntriesHold, SelfMade
  <2>4. rq[c].pc \notin {"insert", "user.create"}
    BY <1>3, <2>2
  <2>5. rq'[c] # rq[c] /\ rq'[c] # Idle
    BY <1>3, <2>4 DEF Idle
  <2>6. ~ Insert(c)
    BY <2>4 DEF Insert, At
  <2>7. ASSUME NEW e \in Email, NEW p \in Password, ResetRead(c, e, p)
        PROVE  FALSE
    BY <1>3, <2>1, <2>7 DEF ResetRead, Goto, Local, TypeOK
  <2>8. ASSUME NEW e \in Email, NEW p \in Password, Bootstrap(c, e, p)
        PROVE  FALSE
    BY <2>3, <2>8 DEF Bootstrap, IsAdmin
  <2> QED
    BY <2>1, <2>5, <2>6, <2>7, <2>8, LocalsStep
<1> QED
  BY <1>2, <1>3

(* With one bootstrap command at a time, at most one account created itself     *)
(* (admin.py:28-57), whatever the requests do meanwhile.                       *)
THEOREM FirstAdminIsOne ==
  ASSUME \A c, d \in Cli : c = d
  PROVE  Spec => []OneFirstAdmin
<1>1. Init => FirstInv
  BY InitIInv DEF Init, FirstInv, OneFirstAdmin
<1>2. FirstInv /\ IInv' /\ [Next]_vars => FirstInv'
  BY FirstStep
<1>3. FirstInv => OneFirstAdmin
  BY DEF FirstInv
<1> QED
  BY <1>1, <1>2, <1>3, Invariance, PTL DEF Spec
================================================================================
