# TEGBESSOU: specifications

TLA+ models of the gateway of TEGBESSOU, an authorized-pentest platform: a FastAPI gateway that
holds engagements, their authorizations and their scope, puts tools (noop, subfinder, httpx) in an
arq queue, a worker that runs them as subprocesses, and a hash-chained audit log of everything that
is done. The modules are translated from `src/`; paths below are relative to `src/gateway/app/`
unless they start elsewhere.

## The system

| Component | Where | State | Operations |
|---|---|---|---|
| Audit log | `security/audit.py`, table and trigger in `alembic/versions/v001` | `audit_log` rows, the BIGSERIAL, the advisory lock | `append_audit`, `verify_chain` |
| Engagements | `api/engagements.py`, `models/tables.py` | `engagements.status`, `authorizations`, `scope_entries` | create, upload authorization, add scope, activate, check target, close, purge |
| Engagement schema | `services/engagement_schema.py` | one PostgreSQL schema `eng_<uuid>` per engagement | provision (at activation), drop (at purge) |
| Scope enforcer | `security/scope.py` | none (reads `scope_entries`) | `evaluate`, `enforce_scope` |
| Task handlers | `api/tasks.py`, `services/execution.py`, `services/assets.py` | rows of `eng_<uuid>.tasks` and `.assets` | enqueue, poll, kill |
| Queue | arq on Redis (`core/arq_pool.py`, `docker-compose.yml`) | queue, in-progress and retry keys, results, cancel flags | enqueue, claim, finish, requeue, expire |
| Worker | `worker.py` | its coroutines and subprocesses | `run_*`, `_run_subprocess`, `_watch_cancel` |
| File vault | `core/filevault.py` | encrypted files on a volume | `store`, `load` |
| Sessions | `api/deps.py`, `core/db.py` | one transaction per request | open, commit, roll back |
| Authentication, accounts | `api/auth.py`, `api/users.py`, `security/tokens.py`, `mfa.py`, `passwords.py`, `rbac.py`, `admin.py`, `reset_password.py` | `users`, the signing key | login, refresh, create user, bootstrap, reset |
| Rate limiter | `security/ratelimit.py` | one token bucket per engagement in Redis | `allow` (no caller yet) |
| Wrappers | `wrappers/` | none | `build_args`, `parse` |
| Worker boot, egress gateway | `src/gateway/scripts/wait_for_egress_route.py`, `src/egress-gateway/` | routes, daemons | wait for the route, supervise, filter |
| Configuration, crypto, entry, dashboard, skeletons | `core/config.py`, `core/crypto.py`, `main.py`, `src/dashboard`, `src/api_pentest`, ... | | |

How they interact. Every HTTP request is a coroutine with one database session (`get_session`); it
awaits between its statements, so requests interleave at every await, in one process, over
PostgreSQL at READ COMMITTED. Handlers read rows without locks and UPDATE them by id. Every handler
that changes something calls `append_audit` inside its transaction, and so waits for one global
advisory lock. Enqueueing commits the row first and tells arq after; the worker never touches the
database: its answer stays in Redis until a client's poll (`get_task_status`) fetches it, stores the
output in the vault, inserts assets, closes the row. A kill is a key in Redis that the worker's
coroutine looks at every 0.2 s.

What is hard here: stale reads across awaits; three stores (PostgreSQL, Redis, vault) written by one
handler with one commit; a request, the worker or Redis gone between two of those writes; timeouts
at two levels (the tool's and arq's); the cancel flag against exit, timeout, shutdown; DDL against
queries; the audit lock held over all that. `PROJECT.json` lists these hazards, line by line.

What makes each part correct: the audit log is one chain that only grows at its end; no engagement
is active without its stored, audited, validated authorization; no task exists outside the scope or
without a schema; a task's row says what its job did, with its evidence; whatever runs was enqueued
by a committed, audited request, and has its row until a purge takes it; a task that somebody polls
is closed in the end; a worker never runs more than it may.

## Modules

| Module | Content |
|---|---|
| `AuditLedger` | abstract: entries at positions, which grow at their end by whole batches |
| `AuditChain`, `MCAuditChain` | `append_audit`, the transactions around it, `verify_chain`, alteration behind the trigger; implements `AuditLedger`; contents for TLC |
| `TaskLife` | abstract: what clients are told of a task by concurrent readers, each of which may act late on what it read, and the purge |
| `TaskExecution` | the handlers of `api/tasks.py`, arq and Redis, the worker, the purge; implements `TaskLife` |
| `Engagement`, `MCEngagement` | `api/engagements.py`, the gate before a task, the schema; constants for TLC |
| `LockOrder` | the locks each handler holds together, PostgreSQL's queue and its deadlock detection |
| `ScopeMatch`, `MCScopeMatch` | the Scope Enforcer, `build_args` and `parse`, the flag of an asset; constants for TLC |
| `Accounts`, `MCAccounts` | accounts, login, refresh, tokens, bootstrap, reset; symmetry for TLC |
| `RateLimit` | the token bucket with callers whose clocks differ |
| `WorkerBoot` | compose, gateway and daemons, worker, netinit |
| `AuditChain_proofs`, `TaskExecution_proofs`, `Engagement_proofs`, `Accounts_proofs`, `RateLimit_proofs`, `LockOrder_proofs`, `ScopeMatch_proofs`, `WorkerBoot_proofs` | inductive invariants and theorems about the module each is named after |

In the modules, operators whose comment starts with "Mutant" are deliberately wrong versions of the
definition that follows: each one breaks a property, which shows that the property looks at that code.

### AuditChain

`log` holds the committed rows, `pending[s]` those of session s's open transaction, `nextId` the
sequence (never rolled back), `lock` the holder of `pg_advisory_xact_lock`, `pc` and `prev` where
`append_audit` is and its local `prev_hash`. Its three statements are the actions `AcquireLock`,
`SelectPrev`, `InsertRow`; `Commit` and `Rollback` are the ends of the handler's transaction, which
may append up to `MaxBatch` times. SHA-256 is injective, the text it is given is not: an entry's hash
is `<<prev_hash, Joined[content]>>`, where `content` stands for the hashed fields and `Joined` for
their join with `|`, which escapes nothing and writes `None` and `''` alike. `Joined` is any function;
in `MCAuditChain` two of three contents join to one text. `engagement_id` is beside the hash, as in
the code; an alteration changes one of the two. `Alter` is the UPDATE of `tests/test_audit.py` with
the trigger disabled, and `written` is a history field that remembers what the append wrote. Deletion
of rows is not modelled. `Ledger` maps the committed rows to `AuditLedger`: what was written, at its
id. The ids have gaps (a rollback does not give them back), so the positions of the abstract ledger
are not counted from one.

### TaskExecution and TaskLife

A row is `[status, output_ref]`, where `output_ref` names what the vault file holds (the outcome).
`job`, `result`, `tries` and `cancel` are what Redis says of a job; `coro`, `out`, `proc`, `seen`
are the worker's coroutine, what it will return, its subprocess, and whether its watch task is done.
`rq[h]` holds a request's locals: the row's status **as read**, the outcome it will record, the asset
values it **found**. Each action of a handler ends at an await of the code, and its writes to
PostgreSQL show in the action that commits; Redis and the vault are written where the code writes
them. `known` is the set of tasks whose id reached a client: nobody else can poll, because no
endpoint lists tasks. `ran`, `asked`, `hurt`, `faults` are history variables.

The tasks are those of one engagement, and `Purge` drops its schema: rows and assets are gone, as soon
as no request holds their tables, while queue, worker, vault and audit log know nothing of it, and
whoever polls or kills afterwards finds no table. What `purge_engagement` checks and does besides is
in `Engagement`.

`LongTask` are the tasks whose `timeout_seconds` exceeds arq's `job_timeout` (90 s): the API accepts
up to 120 s for subfinder. Faults: a request dies (`handler`), the worker crashes or gets SIGTERM
(`worker`), a coroutine's connection to Redis breaks (`connection`), Redis restarts empty (`redis`: it
has no volume, and any watch that asks it meanwhile raises), results and flags expire (`expiry`).
`hurt[t]` is history: which of these did something to task t, and what (`kill`: a handler died between
the flag and its commit; `watch`: the watch of its job raised; `lost`: Redis forgot the job or its
result). The properties excuse a task by its own harm only, never by faults elsewhere. arq itself is
modelled from how `worker.py` and the handlers use it: the states of `Job.status()`, at-least-once
execution with `MaxTries`, requeueing at shutdown, expiry of the in-progress key.

`TaskLife` knows a status, the verdicts in the audit log and what each reader is about to tell: a
reader that found the task open may later mark it running or close it, with one audited verdict at
once, even over another's verdict, since nobody looks again; and a purge ends all that. `Life` in
`TaskExecution` maps rows, the outcomes among the audit entries and the requests' locals to it.
Handlers, queue, worker and vault together implement it, however requests race. What it promises
is that only a reader that once found the task open closes it, that row and verdict come together,
and that no closing comes from nowhere; what it does not promise, that the first closing is the last,
is what `task_stale_poll` refutes.

### Engagement

`status`, `doc` (the authorization's content), `valid`, `scope` and `audit` are the public tables;
`schema` and `tasks` the engagement's own; `vault` its files. A request is `rq[h]`, with the step it
is at, its engagement and its argument. DDL and table locks: `Using`, `Dropping`, `Creating` are the
transactions that hold locks on the schema, and `InsertTask`, `PollRead`, `PurgeDrop`, `Provision`
wait for them. Requests refused at their first read change nothing and have no action; a request may
die at any step (`HandlerCrash`). A refusal by the enforcer is three steps, as in `scope.py:133-143`:
`ViolationAppend` puts the entry in the open transaction, `ViolationCommit` commits it,
`ViolationRaise` answers 403; a crash before the commit takes the entry back. `overtaken` is history:
the engagements that were closed while an activation had already read `draft`. Which target matches
which rule is a parameter (`Rule`) here; `ScopeMatch` has the matching.

### LockOrder

A handler is the sequence of locks that it asks for between its first statement and its commit: the
engagement's tables, the row of a task, the audit lock, the engagement's row, the index of its
authorization, the entry of its schema. `Take`, `Ask` and `Finish` are grant, wait and the end of the
transaction; `Blocks` says who waits for whom (a holder, or an earlier request in the queue, by its
`Place`), `Without` takes a session out of the queue, and
`Detected` is PostgreSQL ending one transaction of a cycle. All sessions work on one engagement.

### ScopeMatch

A text is the host that it writes and its `marks`, what stands around the host: spaces, upper case, a
final dot, a port, a path, a user, a scheme, a leading `*.`. `extract_host` says which marks the code
removes and which it trips over, `classify`, `domain_matches`, `rule_matches` and `evaluate` are the
functions of `security/scope.py` on such texts, and `Covers`, `Allowed` the reference on hosts. The two
are not written alike: for an IP rule the code compares texts and the reference the addresses that
they denote (`Address`; an IPv6 address may be written in two ways), and a contract rule compares
addresses without regard to case (`same_addr`) and asks for a chain that a tool's target never has.
A text without a scheme that has `://` further on has no host (`NoHost`), and is refused. A rule
of any kind may have any text as its value, and a target may be a host that no tool takes: the code
stores and compares both as they come (`InNetwork` refuses a value that is no network). Around
them, leads add rules (`AddScope`), and sessions enqueue (`Enqueue`), store findings (`Collect`) and
commit after the await of the audit lock (`Commit`); `saw` remembers the rules a session had read.
A tool's line has a host and the traces of a refusal by the egress gateway, any of them or none:
whoever answered, a line without a trace is kept (`Kept`), and subfinder's lines never have one.

### Accounts

`users` is the table, `audit` the entries about accounts, `tokens` the signed tokens that would decode
now, each with what is left of its lifetime, `rq` the locals of requests and of the two commands. A
handler's read and its commit are two actions, because it awaits the audit lock in between; signing
and decoding await nothing and have no step of their own. `Insert` is the flush that meets the unique
index. `Refresh` copies subject and role from the old token without reading the table, as
`auth.py:77` does. `Restart` loses the signing key unless one is configured; `Tick` lets time pass.

### RateLimit

`tokens` and `ts` are the Redis hash, `now[c]` the time a caller read before awaiting the script,
`granted` and `late` history: what was let through, and how far the times given to the scripts went
back. Scripts run one at a time, in any order; `Expire` is Redis' EXPIRE. Units are integers, and a
request costs one token.

### WorkerBoot

`docker compose up` is a set of services still to be started (`order`); `WorkerStarts`,
`GatewayStarts`, `NetinitStarts` follow `depends_on` and the health check. `Look` and `GiveUp` are
`wait_for_egress_route.py`. `Entrypoint`, `WaitReturns`, `KillOthers` and `WaitAll` are the script
`entrypoint.sh`: under `set -e` a `wait -n` that returns a failure ends it, and the container, at
once; after an exit status of 0 it sends SIGTERM and waits for the rest, while daemons die
(`DaemonDies`) or obey (`DaemonEnds`) one by one. A recreated worker has a new network namespace, and
a netinit that runs stays in the old one (`lost`).

## What is checked

| Run | Instance | Shows |
|---|---|---|
| `audit_chain` | 2 sessions, batches of up to 2, 3 entries, 3 contents of which two join alike, 2 engagements, alteration on, `FairSpec` | `VerifyExact`, `SingleWriter`, `CommitsInIdOrder`, `ImplementsLedger` (refinement), `LockIsGranted` |
| `task_races` | 2 requests, 1 task, 2 faults of any kind, the purge | `JobIsRecorded`, `ClosedRowHasEvidence`, `OutcomeIsReal`, `KillIsAudited`, `OrphanWasForgotten`, `AssetCopiesBounded`, `ImplementsLife` (refinement) |
| `task_pair` | 1 request at a time, 2 tasks, one of them long, on 1 slot, 1 fault of worker, connection, redis, the purge | `SubprocessesFitSlots` |
| `task_live` | 2 requests, 1 long task, 1 fault of any kind, the purge, `FairSpec` | `KnownTasksClose` |
| `eng_races` | 2 requests, 1 engagement, a stored and a linked document, an in_scope and an exclusion rule | `NoActionWithoutAuthorization`, `TaskIsAccountable`, `ReadsStillHold`, `RefusalIsAudited`, `ActiveHasSchema`, `PurgeIsFinal`, `AuthorizationIsFinal` |
| `lock_order` | 3 handlers of any kind on one engagement | `TypeOK`, `OnlyPurgesDeadlock`, `RequestsEnd` |
| `scope_match` | 3 names, 3 texts of 2 addresses, 2 contracts, 11 rules of which up to 3 are added, 54 texts, 1 session, 1 row | `TypeOK`, `EnforcerIsExact`, `ToolsStayInScope`, `FlagWasRight` |
| `accounts` | 2 requests, 1 command at a time, 2 emails, 2 roles, lifetimes 1 and 2, restarts that lose the key, MFA | `SessionsAreLogins`, `RightsAreHandedDown`, `OneFirstAdmin`, `AccessEndsWithSession` |
| `rate_limit` | 2 callers, capacity 2, clocks 1 unit apart, times to 5 | `RateBound` |
| `worker_boot` | 3 daemons, 3 commands of the operator, 2 looks | `TypeOK`, `ArqHasRoute`, `WaitIsDecided`, `GatewayFallsWhole` |

The type invariants of the modules with proofs are proved and not run; the others are run.

The bounds. A race of this code needs two actors, a reader whose read becomes stale and a writer in
between; a batch of two and one more entry are what a fork or a gap of the chain needs; two tries are
one retry; two faults let a recovery be hit in turn. Two tasks matter only for what they share, the
slot and the assets table: `task_pair` has two, one of them long, and one request at a time, for
requests have no part in slots; copies of an asset come from racing polls whatever their tasks, so
`task_races` has one task. A cycle of waits may need three handlers, because two of them share locks
that a third wants alone, so `lock_order` has three. Three rules let an exclusion meet two rules that
let a host in; one session is enough for what goes stale in `scope_match`, since rules are added
beside it, and one row, since rows do not meet. Two operators' commands and one more are a boot, a
recreation and a repair. The bounds on counters are `MaxId`, `MaxBatch`, `MaxFaults`, `MaxTries`,
`MaxRules`, `MaxRows`, `MaxTime`, `MaxLate`, `Skew`, `MaxWait`, `MaxOrders`, each named in its module.
Deadlock is checked for `lock_order` and the engagement runs; the other models stop at their bounds
(no id left, all tasks closed, no time left), so it is off there.

`OneFirstAdmin` is about one bootstrap at a time: two at once break it.

### Fairness

`AuditChain`: a statement that was issued is run, a handler ends its transaction (at the latest
`get_session` closes it), and PostgreSQL's lock queue is first come, first served, which strong
fairness of `AcquireLock` stands for. `TaskExecution`: both event loops run what is ready, a
subprocess ends or is timed out, a dead worker's key expires, and a client that was given an id keeps
polling. Nothing makes a worker start again: `docker-compose.yml` gives it no restart policy, so
`WorkerStart` has no fairness and `KnownTasksClose` starts with `[]<>up`: it speaks of the behaviours
in which somebody always brings the worker back. `LockOrder`: handlers go on and PostgreSQL looks for
deadlocks; that its queue is first come, first served is in the model and not assumed. `WorkerBoot`:
the processes in the containers run (`Look`, `GiveUp`, the script's `WaitReturns`, `KillOthers`,
`WaitAll`) and the daemons obey SIGTERM (`DaemonEnds`); operator, compose and failures owe nothing.
The other modules state safety only.

### Where the code and what the repository says of it differ

Two runs check what a comment or an error message says, and TLC refutes it; `PROJECT.json` quotes the
lines.

- `task_stale_poll`, `ClosedStaysClosed`: a poll that read `queued` before another poll closed the row
  marks it running, or closes it a second time with another file, while `finalize_task` "clôt la
  tâche" (`services/execution.py:103`). What the code does keep is `ImplementsLife`: only a poll that
  read the row open writes over it.
- `eng_stale_draft`, `ClosedIsFinal`: an activation that read `draft` commits after a close, and the
  engagement is active again (`api/engagements.py:269` refuses it to who comes later). What is left is
  `ActiveHasSchema` and `PurgeIsFinal`: only such an overtaken activation breaks them.

Other behaviours of the code that came out of the modelling, without a run of their own:

- Tasks. The gateway dies between commit and `enqueue_job`: the row that is "jamais coincée
  indéfiniment" stays queued, since nobody has its id. A kill whose handler dies between the flag and
  its commit takes effect without an audit entry; `KillIsAudited` leaves out those tasks only, and those
  whose watch raised. At
  SIGTERM `finally` deletes the cancel flag and arq requeues the job, which will run unkilled. A watch
  task that *raised*, because its connection broke or Redis restarted, is in `done` too: the tool is
  killed and the row says `killed`. `job_timeout` cancels the coroutine before `proc.kill()`, so more
  subprocesses than `max_jobs` may be alive: `SubprocessesFitSlots` counts all but those. Two polls of
  one finished task both look before either inserts, and its assets are there twice
  (`AssetCopiesBounded` bounds it). A job whose result expired is recorded as an orphan although it
  ran (`OrphanWasForgotten`).
- Audit. `VerifyExact` says what a verification sees: a row altered so that its fields join to the
  same text, or in its `engagement_id`, passes, although `security/audit.py:4` says "toute altération
  casse la chaîne".
- Purge. Neither close nor purge looks at tasks: the tables go while jobs are queued or running, the
  jobs run on, and a poll or a kill of them finds no table.
- Engagements. A task may be enqueued after the close of its engagement, if its request had read
  `active`; it is authorized, in scope and has its table all the same. After a close overtook an
  activation, a purge may drop the schema of an engagement that is active. A purge leaves the
  encrypted outputs: no step of the code erases the vault.
- Scope. Entries are stored as they were typed: a domain with a space, a scheme or a port around it,
  or an ip in another notation than the one compared with, never matches, and an exclusion written so
  excludes nothing. A contract rule with a chain never matches a tool's target. A text without a
  scheme and with `://` in its path has no host. `urlparse` raises on `http://[`. A refusal by the
  egress gateway that leaves neither trace in a line is taken for an answer of the target.
  `ToolsStayInScope` says what is left: what the enforcer misreads, `build_args` refuses.
- Accounts. Two bootstraps at once both count no admin and both create one. A password reset ends
  neither the sessions of the account nor a login in flight: tokens know nothing of the password.
- Rate. Each unit of time that a clock goes back is refilled twice; `RateBound` says exactly so much.
- Boot. The gateway is healthy as soon as the nft table is loaded, and remains so while its script
  takes the daemons down. If it stops while arq runs, nothing tells the worker, and its jobs end
  `done` with nothing found.

## What is proved

Every invariant, safety action property and refinement that the runs check is also a theorem: TLAPS
proves it for every value of the constants that satisfies the named assumptions of the modules. These
say that null values are not members, subsets subsets, bounds numbers; that access tokens live no
longer than refresh tokens (`LifetimeAssumption`); that a bucket is full within its expiry
(`RateAssumption`); and, in `ScopeMatch`, what texts and rules are made of (`RuleAssumption`,
`TargetAssumption`), that a contract's address is no IP address (`AddressAssumption`), and that no two
canonical notations denote one address (`CanonicalAssumption`).

| Theorem | Statement |
|---|---|
| `AuditChain_proofs!OneWriter` | `Spec => []SingleWriter` |
| `AuditChain_proofs!ChainVerifies` | `Spec => []VerifyExact` |
| `AuditChain_proofs!CommitOrder` | `Spec => CommitsInIdOrder` |
| `AuditChain_proofs!ImplementsTheLedger` | `Spec => ImplementsLedger` (refinement) |
| `TaskExecution_proofs!TypeCorrect` | `Spec => []TypeOK` |
| `TaskExecution_proofs!NothingRunsUnrecorded` | `Spec => []JobIsRecorded` |
| `TaskExecution_proofs!ClosedRowsAreBacked` | `Spec => []ClosedRowHasEvidence` |
| `TaskExecution_proofs!OutcomesAreReal` | `Spec => []OutcomeIsReal` |
| `TaskExecution_proofs!LossesHold` | every absence has its fault: of a kill's entry, of a job in Redis |
| `TaskExecution_proofs!KillsAreAudited` | `Spec => []KillIsAudited` |
| `TaskExecution_proofs!OrphansAreForgotten` | `Spec => []OrphanWasForgotten` |
| `TaskExecution_proofs!SlotsBoundSubprocesses` | `Spec => []SubprocessesFitSlots` |
| `TaskExecution_proofs!AssetCopies` | if `Handler` is finite, `Spec => []AssetCopiesBounded` |
| `TaskExecution_proofs!ImplementsTaskLife` | `Spec => ImplementsLife` (refinement) |
| `Engagement_proofs!TypeCorrect` | `Spec => []TypeOK` |
| `Engagement_proofs!AuthorizationFirst` | `Spec => []NoActionWithoutAuthorization` |
| `Engagement_proofs!TasksAreAccountable` | `Spec => []TaskIsAccountable` |
| `Engagement_proofs!ReadsHold` | `Spec => []ReadsStillHold` |
| `Engagement_proofs!RefusalsAreAudited` | `Spec => []RefusalIsAudited` |
| `Engagement_proofs!AuthorizationsAreFinal` | `Spec => AuthorizationIsFinal` |
| `Engagement_proofs!LifeCycle` | `Spec => []LifeInv`: the next two, with what requests read of the status |
| `Engagement_proofs!ActiveHasItsSchema` | `Spec => []ActiveHasSchema` |
| `Engagement_proofs!PurgesAreFinal` | `Spec => []PurgeIsFinal` |
| `LockOrder_proofs!TypeCorrect` | `Spec => []TypeOK` |
| `LockOrder_proofs!DeadlocksNeedAPurge` | `Spec => []OnlyPurgesDeadlock` |
| `LockOrder_proofs!NoLostWait` | who waits waits for a session at work, for one that can go on, or in a cycle |
| `ScopeMatch_proofs!TypeCorrect` | `Spec => []TypeOK` |
| `ScopeMatch_proofs!EnforcerDecides` | `Spec => []EnforcerIsExact` |
| `ScopeMatch_proofs!ToolsAreInScope` | `Spec => []ToolsStayInScope` |
| `ScopeMatch_proofs!FlagsAreRight` | `Spec => []FlagWasRight` |
| `Accounts_proofs!TypeCorrect` | `Spec => []TypeOK` |
| `Accounts_proofs!TokensAreTrue` | `Spec => []SessionsAreLogins` |
| `Accounts_proofs!AdminsCreate` | `Spec => []RightsAreHandedDown` |
| `Accounts_proofs!SessionsBoundAccess` | `Spec => []AccessEndsWithSession` |
| `Accounts_proofs!FirstAdminIsOne` | if `Cli` has at most one member, `Spec => []OneFirstAdmin` |
| `RateLimit_proofs!RateTypes` | `Spec => []TypeOK` |
| `RateLimit_proofs!RateIsBounded` | `Spec => []RateBound` |
| `WorkerBoot_proofs!TypeCorrect` | `Spec => []TypeOK` |
| `WorkerBoot_proofs!RoutesPrecedeJobs` | `Spec => []ArqHasRoute` |

The hypotheses. Besides the named assumptions there are two: `AssetCopies` speaks of finitely many
handlers, for there is nothing to count otherwise, and `FirstAdminIsOne` of one bootstrap command at
a time, which two at once show to be needed. No theorem asks requests to come one at a time.

The arguments.

- *Audit*: `VerifyExact` says nothing of sessions in flight and is not inductive. `SingleWriter`
  supplies that: only the lock's holder has read the last hash or has uncommitted rows, what it read
  is still last when it inserts, its rows come after all committed ones, and every snapshot is
  chained. A new row then extends a snapshot at its end, which leaves the predecessor of every other
  row alone; a commit makes a snapshot the log. For the ledger, a commit's rows have ids beyond the
  log's, no two the same, and are at most `MaxBatch` (`Batched`); an alteration changes neither an
  id nor what was written, so it is a stutter.
- *Tasks*: a closed row is written by a poll, so its invariant needs that of the poll's locals
  (`RequestsGrounded`: the file is stored, the outcome was earned), which needs that of what Redis
  and the worker hold (`AnswersEarned`): an outcome travels from the coroutine to the result, the
  poll and the row. A purge takes the rows (`PurgedIsGone`) but no audit entry, and not while a poll
  has its transaction open. `Losses` pairs each absence with its fault: a flag without its entry
  with a handler that stands at its commit or died there; a job that Redis does not know, although a
  client does, with its loss. A poll asks Redis twice, and the worker may finish the job in between;
  what it takes for an orphan was unknown at the second question, so it was lost. `Slots` counts
  coroutines against `max_jobs`, and lets a process live without its coroutine only if
  `job_timeout` left it behind.
- *Copies*: the copies of an asset together with the polls that are about to insert one are at most
  the handlers (`CopiesFit`): a poll that finds none joins the second group when no copy exists, and
  a commit moves it to the first.
- *Life*: with `Told`, what each poll read, the mapped requests are the readers of `TaskLife`. A poll
  past its read has `queued` or `running`, so marking and closing are steps of its reader, the
  questions to Redis and the vault are stutters, and so is all that the worker does.
- *Engagements*: a request's locals are facts about tables that only grow (`doc`, `valid`, `scope`,
  `audit`, `vault`), so what it read stays true over its awaits; the schema is the exception, and
  there the exclusion between inserting and dropping transactions (`DropExcludes`) takes its place.
  The status is no such fact. `Course` says what is left of it: a request that purges saw the
  engagement closed, and only an activation that had read `draft` can make it anything else, which
  is when a close `overtakes` it; an activation that was not overtaken still finds a draft. The
  refusals need that a request between its commit and its 403 has its entry in the table.
- *Locks*: the locks have a `Rank`, and every handler but the purge asks for them in rising rank and
  holds only lower ones (`InOrder`). In a set of such handlers that all wait for one another, take one
  that waits for the highest rank, and of those the first in the queue: who holds what it waits for
  waits higher, and who is ahead of it would be first. The same rank for a task's row, the schema's
  entry and the authorization's index is enough, because no handler asks for two of them.
- *Scope*: on a host without marks a rule matches no more than it covers (`RulesAreSound`), and all
  that it covers if it is plainly written (`PlainRulesAreComplete`); `Readings` says which texts lose
  their marks, and `Decision` joins them. The rows are right because what a request computed is right
  about the rules it read (`TaskRight`, `AssetRight`), and rules are only added.
- *Accounts*: an account keeps its role and is never deleted (`NothingGoesAway`), so a login's read
  (`LoginsHold`), a creator's right (`CreatorsHold`) and a token's role stay true; that no creation
  overwrites an account is the unique index (`InsertsHold`). For the first admin, while a bootstrap is
  under way no entry is self-made, since it found no admin, and `EntriesHold` says that a self-made
  one would have left an admin.
- *Rate*: what was granted and what is still in the bucket stay within the budget up to the last
  script's time (`Budget`), an expired bucket counting as full, `TTL` later.
- *Boot*: a route goes only with the worker that has it, so arq, which starts where there is one,
  keeps it.

Checked by TLC and not proved: liveness, since the prover has neither fairness nor `ENABLED`
(`KnownTasksClose`, `LockIsGranted`, `RequestsEnd`, `WaitIsDecided`, `GatewayFallsWhole`).

## What is not modelled

- Argument flags, JSON parsing and metadata of the wrappers: pure text.
- Encryption, password hashing and TOTP: a comparison, or a Boolean where a result is needed.
- Settings and process entry, the read-only endpoints, the pool of database connections.
- The tables no handler uses, the dashboard, the skeleton packages (`api_pentest`, `orchestrator`,
  `cli`, `knowledge_base`), which hold no logic yet.
- The filter rules of the egress gateway (nftables, nginx, dnsmasq): configuration, not a program.

## Plan

All the components that keep state are modelled, and what the runs check of their safety is proved.
What is left:

1. `Engagement` composed with `TaskExecution`, so that the close, the purge and the polls of one
   engagement meet in detail; today each module has its own view of the other's steps.
2. The verdicts that may follow one another on one row: which pairs of outcomes two polls can record.


