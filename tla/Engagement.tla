------------------------------ MODULE Engagement -------------------------------
(* The life of an engagement: api/engagements.py, the checks that api/tasks.py *)
(* makes before it inserts a task (security/scope.py), and the PostgreSQL      *)
(* schema that holds the engagement's data (services/engagement_schema.py).    *)
(*                                                                            *)
(* A handler reads what it needs, without a row lock, and writes later: each   *)
(* step below ends at an await.  Its writes show at its commit, READ           *)
(* COMMITTED; files of the vault are written at once.  UPDATEs are by id alone.*)
(* Requests refused at their first read (404, 409, 400, 413, 415, 422, a role  *)
(* that is too low) change nothing and are no steps.                           *)
EXTENDS FiniteSets

CONSTANTS Handler,     \* concurrent HTTP requests
          Engagement,
          Target,
          Doc,         \* contents of an authorization
          UrlDoc,      \* those given as a program_url: no file is stored
          Rule,        \* scope entries
          NoArg

Disposition == {"in_scope", "out_of_scope", "exclusion"}

ASSUME RuleAssumption == Rule \subseteq [disposition : Disposition, matches : SUBSET Target]
ASSUME DocAssumption == UrlDoc \subseteq Doc /\ NoArg \notin Doc /\ "output" \notin Doc

VARIABLES
  status,  \* engagements.status
  doc,     \* authorizations.content_hash, as what it hashes
  valid,   \* authorizations.validated_by is set
  scope,   \* scope_entries
  schema,  \* the schema eng_<uuid> and its tables exist
  tasks,   \* eng_<uuid>.tasks
  audit,   \* the audit entries of each engagement
  vault,   \* files of the vault, named by their engagement and what they hold
  rq,      \* the handlers' local variables
  refused, \* history: targets answered 403
  purged,  \* history: engagements that a purge was confirmed for
  overtaken \* history: engagements closed while an activation had read draft

public == <<status, doc, valid, scope>>
vars == <<public, schema, tasks, audit, vault, rq, refused, purged, overtaken>>

(* A request to check a target, to run a scoped tool or to run noop.           *)
Tool == {"check-target", "recon", "noop"}
Job == [target : Target, tool : Tool]

Local(label, e, x) == [pc |-> label, eng |-> e, arg |-> x]
Idle == Local("idle", NoArg, NoArg)

Init ==
  /\ status = [e \in Engagement |-> "none"]
  /\ doc = [e \in Engagement |-> NoArg]
  /\ valid = [e \in Engagement |-> FALSE]
  /\ scope = [e \in Engagement |-> {}]
  /\ schema = [e \in Engagement |-> FALSE]
  /\ tasks = [e \in Engagement |-> {}]
  /\ audit = [e \in Engagement |-> {}]
  /\ vault = {}
  /\ rq = [h \in Handler |-> Idle]
  /\ refused = {} /\ purged = {} /\ overtaken = {}

-------------------------------------------------------------------------------
At(h, label) == rq[h].pc = label
Receive(h, label, e, x) == At(h, "idle") /\ rq' = [rq EXCEPT ![h] = Local(label, e, x)]
Continue(h, label, x) == rq' = [rq EXCEPT ![h] = Local(label, rq[h].eng, x)]
Goto(h, label) == Continue(h, label, rq[h].arg)
Return(h) == rq' = [rq EXCEPT ![h] = Idle]

append_audit(e, entries) == audit' = [audit EXCEPT ![e] = @ \cup entries]

(* Mutant: what no rule excludes is allowed.                                   *)
EvaluateAllows(target, rules) ==
  \A r \in rules : target \in r.matches => r.disposition = "in_scope"

(* evaluate(target, rules).allowed: deny wins, and the default is to deny.     *)
evaluate(target, rules) ==
  /\ \A r \in rules : target \in r.matches => r.disposition = "in_scope"
  /\ \E r \in rules : target \in r.matches /\ r.disposition = "in_scope"

(* Transactions with locks on the engagement's schema: those that used its      *)
(* tables, those that dropped it, those that are creating it.                  *)
Using(e) == {h \in Handler : rq[h].eng = e /\ rq[h].pc \in {"enqueue_commit", "store", "finalize"}}
Dropping(e) == {h \in Handler : rq[h].eng = e /\ At(h, "purge_commit") /\ rq[h].arg = TRUE}
Creating(e) == {h \in Handler : rq[h].eng = e /\ At(h, "activate_commit")}

(* Past the first read of activate_engagement.                                 *)
Activating == {"activate_auth", "provision", "activate_commit"}

-------------------------------------------------------------------------------
(* create_engagement and add_scope read nothing that changes: one step each.   *)
CreateEngagement(e) ==
  /\ status[e] = "none"
  /\ status' = [status EXCEPT ![e] = "draft"]
  /\ append_audit(e, {<<"engagement.create", NoArg>>})
  /\ UNCHANGED <<doc, valid, scope, schema, tasks, vault, rq, refused, purged, overtaken>>

AddScope(e, r) ==
  /\ status[e] # "none"
  /\ scope' = [scope EXCEPT ![e] = @ \cup {r}]
  /\ append_audit(e, {<<"scope.add", r>>})
  /\ UNCHANGED <<status, doc, valid, schema, tasks, vault, rq, refused, purged, overtaken>>

(* upload_authorization.                                                       *)
UploadRead(h, e, d) ==
  /\ status[e] # "none" /\ doc[e] = NoArg
  /\ Receive(h, "upload_store", e, d)
  /\ UNCHANGED <<public, schema, tasks, audit, vault, refused, purged, overtaken>>

UploadStore(h) ==
  /\ At(h, "upload_store")
  /\ vault' = vault \cup ({<<rq[h].eng, rq[h].arg>>} \ (Engagement \X UrlDoc))
  /\ Goto(h, "upload_commit")
  /\ UNCHANGED <<public, schema, tasks, audit, refused, purged, overtaken>>

(* Mutant: no UNIQUE constraint, the last upload wins.                         *)
UploadReplaces(h) ==
  LET e == rq[h].eng IN
  /\ At(h, "upload_commit")
  /\ doc' = [doc EXCEPT ![e] = rq[h].arg]
  /\ append_audit(e, {<<"authorization.upload", rq[h].arg>>})
  /\ Return(h)
  /\ UNCHANGED <<status, valid, scope, schema, tasks, vault, refused, purged, overtaken>>

(* UNIQUE (engagement_id) refuses a second row, the transaction with it.       *)
UploadCommit(h) ==
  LET e == rq[h].eng IN
  /\ At(h, "upload_commit")
  /\ \/ /\ doc[e] = NoArg
        /\ doc' = [doc EXCEPT ![e] = rq[h].arg]
        /\ append_audit(e, {<<"authorization.upload", rq[h].arg>>})
     \/ doc[e] # NoArg /\ UNCHANGED <<doc, audit>>
  /\ Return(h)
  /\ UNCHANGED <<status, valid, scope, schema, tasks, vault, refused, purged, overtaken>>

(* Mutant: only an active engagement is refused.                               *)
ActivateClosedToo(h, e) ==
  /\ status[e] \in {"draft", "closed"}
  /\ Receive(h, "activate_auth", e, NoArg)
  /\ UNCHANGED <<public, schema, tasks, audit, vault, refused, purged, overtaken>>

(* activate_engagement: two reads, the DDL, the commit.                        *)
ActivateRead(h, e) ==
  /\ status[e] = "draft"
  /\ Receive(h, "activate_auth", e, NoArg)
  /\ UNCHANGED <<public, schema, tasks, audit, vault, refused, purged, overtaken>>

(* Mutant: the authorization is not looked for.                                *)
ActivateAnyway(h) ==
  /\ At(h, "activate_auth")
  /\ Goto(h, "provision")
  /\ UNCHANGED <<public, schema, tasks, audit, vault, refused, purged, overtaken>>

ActivateAuth(h) ==
  /\ At(h, "activate_auth")
  /\ \/ doc[rq[h].eng] = NoArg /\ Return(h)
     \/ doc[rq[h].eng] # NoArg /\ Goto(h, "provision")
  /\ UNCHANGED <<public, schema, tasks, audit, vault, refused, purged, overtaken>>

(* CREATE SCHEMA IF NOT EXISTS waits for another transaction that creates it;   *)
(* CREATE TABLE fails if the tables are there.                                 *)
Provision(h) ==
  LET e == rq[h].eng IN
  /\ At(h, "provision")
  /\ \/ schema[e] /\ Return(h)
     \/ ~schema[e] /\ Creating(e) = {} /\ Goto(h, "activate_commit")
  /\ UNCHANGED <<public, schema, tasks, audit, vault, refused, purged, overtaken>>

ActivateCommit(h) ==
  LET e == rq[h].eng IN
  /\ At(h, "activate_commit")
  /\ status' = [status EXCEPT ![e] = "active"]
  /\ valid' = [valid EXCEPT ![e] = TRUE]
  /\ schema' = [schema EXCEPT ![e] = TRUE]
  /\ append_audit(e, {<<"engagement.activate", NoArg>>, <<"schema.provision", NoArg>>})
  /\ Return(h)
  /\ UNCHANGED <<doc, scope, tasks, vault, refused, purged, overtaken>>

(* check_target, enqueue_*: _get_active_engagement, then enforce_scope (noop    *)
(* has no target to check).                                                    *)
GateRead(h, e, j) ==
  /\ status[e] = "active"
  /\ Receive(h, IF j.tool = "noop" THEN "insert" ELSE "scope", e, j)
  /\ UNCHANGED <<public, schema, tasks, audit, vault, refused, purged, overtaken>>

EnforceScope(h) ==
  LET j == rq[h].arg
      allowed == evaluate(j.target, scope[rq[h].eng])
  IN
  /\ At(h, "scope")
  /\ \/ ~allowed /\ Goto(h, "violation")
     \/ allowed /\ j.tool = "recon" /\ Goto(h, "insert")
     \/ allowed /\ Return(h)  \* check_target answers; build_args may refuse (422)
  /\ UNCHANGED <<public, schema, tasks, audit, vault, refused, purged, overtaken>>

(* Mutant: the commit is left to the caller, whose session the 403 rolls back.  *)
ViolationUncommitted(h) ==
  /\ At(h, "violation")
  /\ Goto(h, "raise")
  /\ UNCHANGED <<public, schema, tasks, audit, vault, refused, purged, overtaken>>

(* enforce_scope on a refusal: the entry is appended, then committed, then      *)
(* ScopeViolationError is raised and becomes a 403.                            *)
ViolationAppend(h) ==
  /\ At(h, "violation")
  /\ Goto(h, "violation_commit")
  /\ UNCHANGED <<public, schema, tasks, audit, vault, refused, purged, overtaken>>

ViolationCommit(h) ==
  /\ At(h, "violation_commit")
  /\ append_audit(rq[h].eng, {<<"scope.violation", rq[h].arg.target>>})
  /\ Goto(h, "raise")
  /\ UNCHANGED <<public, schema, tasks, vault, refused, purged, overtaken>>

ViolationRaise(h) ==
  /\ At(h, "raise")
  /\ refused' = refused \cup {<<rq[h].eng, rq[h].arg.target>>}
  /\ Return(h)
  /\ UNCHANGED <<public, schema, tasks, audit, vault, purged, overtaken>>

(* create_queued_task: waits for a drop, fails if the table is not there.      *)
InsertTask(h) ==
  LET e == rq[h].eng IN
  /\ At(h, "insert")
  /\ Dropping(e) = {}
  /\ IF schema[e] THEN Goto(h, "enqueue_commit") ELSE Return(h)
  /\ UNCHANGED <<public, schema, tasks, audit, vault, refused, purged, overtaken>>

EnqueueCommit(h) ==
  LET e == rq[h].eng
      j == rq[h].arg
  IN
  /\ At(h, "enqueue_commit")
  /\ tasks' = [tasks EXCEPT ![e] = @ \cup {j}]
  /\ append_audit(e, {<<"task.enqueue", j.target>>})
  /\ Return(h)
  /\ UNCHANGED <<public, schema, vault, refused, purged, overtaken>>

(* A poll that closes a task (TaskExecution has its detail): reading the row    *)
(* locks the table, finalize_task stores the output and updates the row.       *)
PollRead(h, e) ==
  /\ schema[e] /\ tasks[e] # {} /\ Dropping(e) = {}
  /\ Receive(h, "store", e, NoArg)
  /\ UNCHANGED <<public, schema, tasks, audit, vault, refused, purged, overtaken>>

PollStore(h) ==
  /\ At(h, "store")
  /\ vault' = vault \cup {<<rq[h].eng, "output">>}
  /\ Goto(h, "finalize")
  /\ UNCHANGED <<public, schema, tasks, audit, refused, purged, overtaken>>

PollCommit(h) ==
  /\ At(h, "finalize")
  /\ append_audit(rq[h].eng, {<<"task.run", NoArg>>})
  /\ Return(h)
  /\ UNCHANGED <<public, schema, tasks, vault, refused, purged, overtaken>>

(* close_engagement: from draft too.                                           *)
CloseRead(h, e) ==
  /\ status[e] \in {"draft", "active"}
  /\ Receive(h, "close_commit", e, NoArg)
  /\ UNCHANGED <<public, schema, tasks, audit, vault, refused, purged, overtaken>>

CloseCommit(h) ==
  LET e == rq[h].eng IN
  /\ At(h, "close_commit")
  /\ status' = [status EXCEPT ![e] = "closed"]
  /\ append_audit(e, {<<"engagement.close", NoArg>>})
  /\ overtaken' = overtaken \cup
       {f \in {e} : \E g \in Handler : rq[g].eng = f /\ rq[g].pc \in Activating}
  /\ Return(h)
  /\ UNCHANGED <<doc, valid, scope, schema, tasks, vault, refused, purged>>

(* Mutant: an open engagement can be purged.                                   *)
PurgeAnyStatus(h, e) ==
  /\ status[e] # "none"
  /\ Receive(h, "drop", e, NoArg)
  /\ UNCHANGED <<public, schema, tasks, audit, vault, refused, purged, overtaken>>

(* purge_engagement: DROP SCHEMA IF EXISTS CASCADE waits for whoever uses or    *)
(* drops the schema, and drops nothing if no committed schema is there.        *)
PurgeRead(h, e) ==
  /\ status[e] = "closed"
  /\ Receive(h, "drop", e, NoArg)
  /\ UNCHANGED <<public, schema, tasks, audit, vault, refused, purged, overtaken>>

(* Mutant: the drop waits for nobody.                                          *)
PurgeDropsAtOnce(h) ==
  /\ At(h, "drop")
  /\ Continue(h, "purge_commit", schema[rq[h].eng])
  /\ UNCHANGED <<public, schema, tasks, audit, vault, refused, purged, overtaken>>

PurgeDrop(h) ==
  LET e == rq[h].eng IN
  /\ At(h, "drop")
  /\ schema[e] => Using(e) \cup Dropping(e) = {}
  /\ Continue(h, "purge_commit", schema[e])
  /\ UNCHANGED <<public, schema, tasks, audit, vault, refused, purged, overtaken>>

PurgeCommit(h) ==
  LET e == rq[h].eng IN
  /\ At(h, "purge_commit")
  /\ schema' = [schema EXCEPT ![e] = @ /\ rq[h].arg = FALSE]
  /\ tasks' = [tasks EXCEPT ![e] = IF rq[h].arg = TRUE THEN {} ELSE @]
  /\ append_audit(e, {<<"schema.drop", NoArg>>})
  /\ purged' = purged \cup {e}
  /\ Return(h)
  /\ UNCHANGED <<public, vault, refused, overtaken>>

(* A request dies or its client leaves: its transaction is rolled back.        *)
HandlerCrash(h) ==
  /\ ~At(h, "idle")
  /\ Return(h)
  /\ UNCHANGED <<public, schema, tasks, audit, vault, refused, purged, overtaken>>

Receives(h, e) ==
  \/ \E d \in Doc : UploadRead(h, e, d)
  \/ \E j \in Job : GateRead(h, e, j)
  \/ ActivateRead(h, e) \/ PollRead(h, e) \/ CloseRead(h, e) \/ PurgeRead(h, e)

Handle(h) ==
  \/ UploadStore(h) \/ UploadCommit(h)
  \/ ActivateAuth(h) \/ Provision(h) \/ ActivateCommit(h)
  \/ EnforceScope(h) \/ ViolationAppend(h) \/ ViolationCommit(h) \/ ViolationRaise(h)
  \/ InsertTask(h) \/ EnqueueCommit(h)
  \/ PollStore(h) \/ PollCommit(h)
  \/ CloseCommit(h) \/ PurgeDrop(h) \/ PurgeCommit(h)
  \/ HandlerCrash(h)

Next ==
  \/ \E e \in Engagement : CreateEngagement(e) \/ \E r \in Rule : AddScope(e, r)
  \/ \E h \in Handler : Handle(h) \/ \E e \in Engagement : Receives(h, e)

Spec == Init /\ [][Next]_vars

-------------------------------------------------------------------------------
Status == {"none", "draft", "active", "closed"}
Label == {"idle", "upload_store", "upload_commit", "activate_auth", "provision",
          "activate_commit", "scope", "violation", "violation_commit", "raise",
          "insert", "enqueue_commit", "store", "finalize", "close_commit", "drop",
          "purge_commit"}

(* Past the first read of a handler that checks a target or takes a task.       *)
Gated == {"scope", "violation", "violation_commit", "raise", "insert", "enqueue_commit"}

(* What a request carries at each label.                                       *)
LocalOK(l) ==
  /\ l.pc \in Label
  /\ l.pc # "idle" => l.eng \in Engagement
  /\ l.pc \in {"upload_store", "upload_commit"} => l.arg \in Doc
  /\ l.pc \in Gated => l.arg \in Job
  /\ l.pc = "purge_commit" => l.arg \in BOOLEAN

(* Every variable has its type.                                                *)
TypeOK ==
  /\ status \in [Engagement -> Status]
  /\ doc \in [Engagement -> Doc \cup {NoArg}]
  /\ valid \in [Engagement -> BOOLEAN]
  /\ scope \in [Engagement -> SUBSET Rule]
  /\ schema \in [Engagement -> BOOLEAN]
  /\ tasks \in [Engagement -> SUBSET Job]
  /\ DOMAIN audit = Engagement
  /\ vault \subseteq Engagement \X (Doc \cup {"output"})
  /\ DOMAIN rq = Handler /\ \A h \in Handler : LocalOK(rq[h])
  /\ refused \subseteq Engagement \X Target
  /\ purged \subseteq Engagement /\ overtaken \subseteq Engagement

(* "Pas d'activation sans autorisation" (engagements.py:4), whatever requests   *)
(* race: where an engagement is active, has a schema or has tasks, its          *)
(* authorization was uploaded, audited, stored and validated.                  *)
NoActionWithoutAuthorization ==
  \A e \in Engagement :
    status[e] = "active" \/ schema[e] \/ tasks[e] # {} =>
      /\ valid[e]
      /\ <<"authorization.upload", doc[e]>> \in audit[e]
      /\ doc[e] \in UrlDoc \/ <<e, doc[e]>> \in vault
      /\ <<"engagement.activate", NoArg>> \in audit[e]

(* An authorization that a lead validated, in an engagement that was activated. *)
Authorized(e) ==
  /\ valid[e] /\ doc[e] # NoArg
  /\ <<"engagement.activate", NoArg>> \in audit[e]

Covered(e, t) == \E r \in scope[e] : r.disposition = "in_scope" /\ t \in r.matches

(* A row of the tasks table is one that some in_scope rule covers (noop aside), *)
(* its enqueueing is audited, and it lives in a schema that exists: a purge     *)
(* leaves none behind, and none is inserted behind its back.                   *)
TaskIsAccountable ==
  \A e \in Engagement, j \in Job :
    j \in tasks[e] =>
      /\ schema[e]
      /\ <<"task.enqueue", j.target>> \in audit[e]
      /\ j.tool = "noop" \/ (j.tool = "recon" /\ Covered(e, j.target))

(* What a request read, found or stored before an await, as a record l of its   *)
(* local variables.                                                            *)
StillTrue(l) ==
  /\ l.pc = "upload_commit" => l.arg \in UrlDoc \/ <<l.eng, l.arg>> \in vault
  /\ l.pc \in {"provision", "activate_commit"} => doc[l.eng] # NoArg
  /\ l.pc \in Gated => Authorized(l.eng)
  /\ l.pc = "raise" => <<"scope.violation", l.arg.target>> \in audit[l.eng]
  /\ l.pc \in {"insert", "enqueue_commit"} =>
       \/ l.arg.tool = "noop"
       \/ l.arg.tool = "recon" /\ Covered(l.eng, l.arg.target)

(* Nobody is about to commit an insertion into a table that is gone or going.   *)
DropExcludes ==
  \A h \in Handler :
    At(h, "enqueue_commit") => schema[rq[h].eng] /\ Dropping(rq[h].eng) = {}

(* What a request relies on at its commit still holds, the status excepted: the *)
(* authorization and the scope rule it found, the file it stored, the refusal   *)
(* it recorded, and the table it inserts into, which a drop waits for.         *)
ReadsStillHold == DropExcludes /\ \A h \in Handler : StillTrue(rq[h])

(* Whoever was answered 403 for a target left a `scope.violation` entry: the    *)
(* answer is an exception, which rolls back what is not committed              *)
(* (scope.py:133-143).                                                         *)
RefusalIsAudited ==
  \A e \in Engagement, t \in Target :
    <<e, t>> \in refused => <<"scope.violation", t>> \in audit[e]

(* An authorization is never replaced, nor its validation withdrawn: what a     *)
(* lead validated is what was uploaded, though two uploads or two activations  *)
(* may race.                                                                   *)
AuthorizationIsFinal ==
  [][\A e \in Engagement :
       /\ doc[e] # NoArg => doc'[e] = doc[e]
       /\ valid[e] => valid'[e] /\ doc[e] # NoArg]_vars

(* An active engagement has its schema, so that no enqueue fails for want of    *)
(* tables, though activations, closings and purges race: only an activation     *)
(* that a closing overtook breaks it.                                          *)
ActiveHasSchema ==
  \A e \in Engagement \ overtaken : status[e] = "active" => schema[e]

(* engagements.py:361-363, "l'engagement doit etre clos au prealable" and       *)
(* "suppression definitive": what was purged was closed, and neither it nor a   *)
(* task of it comes back, with the same exception.                             *)
PurgeIsFinal ==
  \A e \in purged \ overtaken : status[e] = "closed" /\ ~schema[e] /\ tasks[e] = {}

-------------------------------------------------------------------------------
(* What the repository says, and requests that race can break.                 *)

(* engagements.py:269, "engagement deja active ou clos": activation is only     *)
(* from draft, so closed is for good.                                          *)
ClosedIsFinal ==
  [][\A e \in Engagement : status[e] = "closed" => status'[e] = "closed"]_vars
================================================================================
