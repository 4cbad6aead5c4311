------------------------------- MODULE Accounts --------------------------------
(* Accounts and sessions: the users table, the commands that create the first  *)
(* admin and reset a password (admin.py, reset_password.py), the endpoints      *)
(* /auth/login, /auth/refresh and POST /users, and the signed tokens            *)
(* (security/tokens.py).                                                       *)
(*                                                                            *)
(* A handler awaits between its read of users and its commit, where it waits    *)
(* for the audit lock; signing and decoding await nothing.  No code deletes an  *)
(* account or changes its role or is_active, so an email stands for its id.    *)
(* A token that expired, or that another key signed, never decodes again: it    *)
(* leaves `tokens`.  Time is what a token has left, in units of the lifetimes. *)
EXTENDS Naturals

CONSTANTS Request,       \* concurrent HTTP requests
          Cli,           \* runs of the two commands
          Email, Password, NoUser,
          Role,          \* the roles an account may be given
          AccessTTL, RefreshTTL,
          EphemeralKey,  \* JWT_PRIVATE_KEY is not set
          RequireMfa

ROLE_ORDER == [viewer |-> 0, analyst |-> 1, lead |-> 2, admin |-> 3]

ASSUME AccountAssumption ==
  /\ "admin" \in Role /\ Role \subseteq DOMAIN ROLE_ORDER
  /\ NoUser \notin [password : Password, role : Role] \cup Email
  /\ Request \cap Cli = {}
ASSUME LifetimeAssumption ==
  /\ AccessTTL \in Nat \ {0} /\ RefreshTTL \in Nat /\ AccessTTL <= RefreshTTL
  /\ EphemeralKey \in BOOLEAN /\ RequireMfa \in BOOLEAN

VARIABLES
  users,    \* the table: an account, or NoUser, for each email
  audit,    \* committed audit entries about accounts
  tokens,   \* the signed tokens that would decode now
  rq        \* the local variables of each request and command

vars == <<users, audit, tokens, rq>>

Session == Request \cup Cli

(* The locals: the email worked on, who acts, the password and role to write,  *)
(* or the role that a login read.                                              *)
Local(label, e, by, p, r) ==
  [pc |-> label, email |-> e, actor |-> by, password |-> p, role |-> r]
Idle == [pc |-> "idle"]

Entry(action, by, e, r) ==
  [action |-> action, actor |-> by, target |-> e, role |-> r]

Init ==
  /\ users = [e \in Email |-> NoUser]
  /\ audit = {} /\ tokens = {}
  /\ rq = [s \in Session |-> Idle]

-------------------------------------------------------------------------------
(* Tokens.                                                                     *)
Token(sub, r, type, ttl) == [sub |-> sub, role |-> r, type |-> type, left |-> ttl]

(* Mutant: the two lifetimes are exchanged.                                    *)
SwappedTokens(sub, r) ==
  {Token(sub, r, "access", RefreshTTL), Token(sub, r, "refresh", AccessTTL)}

(* create_access and create_refresh, always together.                          *)
NewTokens(sub, r) ==
  {Token(sub, r, "access", AccessTTL), Token(sub, r, "refresh", RefreshTTL)}

role_at_least(r, required) == ROLE_ORDER[r] >= ROLE_ORDER[required]

-------------------------------------------------------------------------------
At(s, label) == rq[s].pc = label
Goto(s, local) == rq' = [rq EXCEPT ![s] = local]

(* login: the SELECT, then the password and, where required, the TOTP code.    *)
LoginResult(e, p, code) ==
  CASE users[e] = NoUser \/ users[e].password # p -> "login.failed"
    [] RequireMfa /\ ~code -> "login.mfa_failed"
    [] OTHER -> "login"

LoginRead(s, e, p, code) ==
  LET result == LoginResult(e, p, code) IN
  /\ At(s, "idle")
  /\ Goto(s, Local(result, e, IF result = "login.failed" THEN NoUser ELSE e, p,
                   IF result = "login" THEN users[e].role ELSE "none"))
  /\ UNCHANGED <<users, audit, tokens>>

(* Mutant: the tokens leave before the audit entry is committed.               *)
LoginUnaudited(s) ==
  /\ At(s, "login")
  /\ tokens' = tokens \cup NewTokens(rq[s].email, rq[s].role)
  /\ Goto(s, Idle)
  /\ UNCHANGED <<users, audit>>

(* The audit entry is committed, then the tokens are signed.  What a client     *)
(* typed in a failed login is left out: it names no account (actor_id is null). *)
LoginCommit(s) ==
  /\ rq[s].pc \in {"login", "login.failed", "login.mfa_failed"}
  /\ audit' = audit \cup {Entry(rq[s].pc, rq[s].actor, rq[s].actor, rq[s].role)}
  /\ tokens' = IF At(s, "login") THEN tokens \cup NewTokens(rq[s].email, rq[s].role)
                                 ELSE tokens
  /\ Goto(s, Idle)
  /\ UNCHANGED <<users>>

(* refresh: everything is copied from the token, users is not read.            *)
Refresh(t) ==
  /\ t.type = "refresh"
  /\ tokens' = tokens \cup NewTokens(t.sub, t.role)
  /\ UNCHANGED <<users, audit, rq>>

(* create_user: require_role("admin") on the bearer's token.                   *)
CreateRequest(s, t, e, p, r) ==
  /\ At(s, "idle")
  /\ t.type = "access" /\ role_at_least(t.role, "admin")
  /\ Goto(s, Local("insert", e, t.sub, p, r))
  /\ UNCHANGED <<users, audit, tokens>>

(* Mutant: the accounts are not counted.                                       *)
BootstrapAgain(s, e, p) ==
  /\ At(s, "idle")
  /\ Goto(s, Local("insert", e, e, p, "admin"))
  /\ UNCHANGED <<users, audit, tokens>>

(* app.admin: gives up if some account is an admin.                             *)
Bootstrap(s, e, p) ==
  /\ At(s, "idle")
  /\ ~ \E u \in Email : users[u] # NoUser /\ users[u].role = "admin"
  /\ Goto(s, Local("insert", e, e, p, "admin"))
  /\ UNCHANGED <<users, audit, tokens>>

(* Mutant: no unique index on email.                                           *)
InsertAnyway(s) ==
  /\ At(s, "insert")
  /\ Goto(s, [rq[s] EXCEPT !.pc = "user.create"])
  /\ UNCHANGED <<users, audit, tokens>>

(* The flush: the unique index on email makes the INSERT wait for another open  *)
(* transaction's row, and fail on a committed one.                             *)
Insert(s) ==
  /\ At(s, "insert")
  /\ ~ \E o \in Session : At(o, "user.create") /\ rq[o].email = rq[s].email
  /\ Goto(s, IF users[rq[s].email] = NoUser
             THEN [rq[s] EXCEPT !.pc = "user.create"] ELSE Idle)
  /\ UNCHANGED <<users, audit, tokens>>

(* The row and its audit entry.                                                *)
CreateCommit(s) ==
  /\ At(s, "user.create")
  /\ users' = [users EXCEPT ![rq[s].email] =
                 [password |-> rq[s].password, role |-> rq[s].role]]
  /\ audit' = audit \cup {Entry("user.create", rq[s].actor, rq[s].email, rq[s].role)}
  /\ Goto(s, Idle)
  /\ UNCHANGED <<tokens>>

(* app.reset_password: the account of ADMIN_EMAIL, or the first admin.          *)
ResetRead(s, e, p) ==
  /\ At(s, "idle")
  /\ users[e] # NoUser
  /\ Goto(s, Local("user.password_reset", e, e, p, "none"))
  /\ UNCHANGED <<users, audit, tokens>>

ResetCommit(s) ==
  /\ At(s, "user.password_reset")
  /\ users' = [users EXCEPT ![rq[s].email].password = rq[s].password]
  /\ audit' = audit \cup {Entry("user.password_reset", rq[s].actor, rq[s].email, "none")}
  /\ Goto(s, Idle)
  /\ UNCHANGED <<tokens>>

(* A request or a command dies: its transaction is rolled back.                *)
Abort(s) ==
  /\ ~At(s, "idle")
  /\ Goto(s, Idle)
  /\ UNCHANGED <<users, audit, tokens>>

(* The gateway restarts; without JWT_PRIVATE_KEY, _keys() makes a new key that  *)
(* verifies no older token.                                                    *)
Restart ==
  /\ tokens' = IF EphemeralKey THEN {} ELSE tokens
  /\ rq' = [s \in Session |-> IF s \in Request THEN Idle ELSE rq[s]]
  /\ UNCHANGED <<users, audit>>

(* A unit of time passes; decode refuses what expired.                         *)
Tick ==
  /\ tokens # {}
  /\ tokens' = {[t EXCEPT !.left = @ - 1] : t \in {u \in tokens : u.left > 1}}
  /\ UNCHANGED <<users, audit, rq>>

Next ==
  \/ \E s \in Request, e \in Email, p \in Password :
       \/ \E code \in BOOLEAN : LoginRead(s, e, p, code)
       \/ \E t \in tokens, r \in Role : CreateRequest(s, t, e, p, r)
  \/ \E s \in Request : LoginCommit(s)
  \/ \E s \in Cli, e \in Email, p \in Password : Bootstrap(s, e, p) \/ ResetRead(s, e, p)
  \/ \E s \in Cli : ResetCommit(s)
  \/ \E s \in Session : Insert(s) \/ CreateCommit(s) \/ Abort(s)
  \/ \E t \in tokens : Refresh(t)
  \/ Restart \/ Tick

Spec == Init /\ [][Next]_vars

-------------------------------------------------------------------------------
Account == [password : Password, role : Role]
Action == {"login", "login.failed", "login.mfa_failed", "user.create",
           "user.password_reset"}
Locals == {Idle} \cup
  [pc : Action \cup {"insert"}, email : Email, actor : Email \cup {NoUser}, password : Password,
   role : Role \cup {"none"}]

(* Every variable has its type.                                                *)
TypeOK ==
  /\ users \in [Email -> Account \cup {NoUser}]
  /\ audit \subseteq [action : Action, actor : Email \cup {NoUser},
                      target : Email \cup {NoUser},
                      role : Role \cup {"none"}]
  /\ tokens \subseteq [sub : Email, role : Role, type : {"access", "refresh"},
                       left : Nat \ {0}]
  /\ rq \in [Session -> Locals]

(* Whoever holds a token that works, however often it was refreshed, has an     *)
(* account and a login in the audit log, and the role that the token carries   *)
(* is the role of the account now, although nothing reads the account again.   *)
SessionsAreLogins ==
  \A t \in tokens :
    /\ users[t.sub] # NoUser /\ users[t.sub].role = t.role
    /\ [action |-> "login", actor |-> t.sub, target |-> t.sub, role |-> t.role]
       \in audit

(* Every account has its user.create entry, with its role, by an admin: rights  *)
(* are only ever handed down from the first one.                               *)
RightsAreHandedDown ==
  \A e \in Email : users[e] # NoUser =>
    \E a \in audit :
      /\ a.action = "user.create" /\ a.target = e /\ a.role = users[e].role
      /\ users[a.actor] # NoUser /\ users[a.actor].role = "admin"

(* admin.py:1, "Creation du premier compte admin": one account at most has      *)
(* created itself, as long as one command runs at a time.                      *)
OneFirstAdmin ==
  \A a, b \in {c \in audit : c.action = "user.create" /\ c.actor = c.target} :
    a.target = b.target

(* An access token that works has a refresh token of the account that works:   *)
(* once the last refresh token has expired, nobody acts for the account.       *)
AccessEndsWithSession ==
  \A t \in tokens : t.type = "access" =>
    \E f \in tokens : f.type = "refresh" /\ f.sub = t.sub /\ f.left >= t.left
================================================================================
