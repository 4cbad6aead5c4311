----------------------------- MODULE TaskExecution -----------------------------
(* The life of a task: the gateway's handlers (api/tasks.py) with the rows,    *)
(* assets, audit entries and vault files they write (services/execution.py,   *)
(* services/assets.py, core/filevault.py), the arq queue and the cancel flags  *)
(* in Redis, and the worker that runs subprocesses (worker.py).                *)
(*                                                                            *)
(* A handler awaits between its statements, so handlers interleave at each     *)
(* await.  READ COMMITTED and one commit per handler make its writes to        *)
(* PostgreSQL one step, the commit; Redis and the vault are written at once.   *)
(* The checks made before a row is inserted (role, engagement, scope, build    *)
(* arguments) are in Engagement.tla.  The tasks are those of one engagement,    *)
(* whose purge may come at any time.                                           *)
EXTENDS Naturals, FiniteSets

CONSTANTS Handler,    \* concurrent HTTP requests
          Task,
          Recon,      \* the tasks whose tool is subfinder or httpx
          LongTask,   \* the tasks whose timeout_seconds exceeds job_timeout
          Asset,      \* (kind, value) pairs parsed from a recon task's stdout
          Fault,      \* the faults that may happen, of AllFaults
          NoTask, NoRef,
          MaxJobs,    \* WorkerSettings.max_jobs
          MaxTries,   \* arq's max_tries
          MaxFaults   \* bound: faults in a behaviour

AllFaults == {"handler", "worker", "connection", "redis", "expiry"}

ASSUME TaskAssumption ==
  /\ Recon \subseteq Task /\ LongTask \subseteq Task /\ NoTask \notin Task
  /\ \A o \in {"done", "failed", "killed", "orphaned"} : NoRef # o
ASSUME BoundAssumption ==
  /\ MaxJobs \in Nat \ {0} /\ MaxTries \in Nat \ {0} /\ MaxFaults \in Nat
  /\ Fault \subseteq AllFaults

VARIABLES
  purged,  \* the schema eng_<uuid> is dropped
  row,     \* eng_<uuid>.tasks: status and output_ref
  assets,  \* eng_<uuid>.assets: how many rows hold each (kind, value)
  audit,   \* the audit entries of each task
  vault,   \* files of the vault, each named by its task and what it holds
  job,     \* arq's view of each job: Job.status()
  result,  \* arq:result:<id>
  tries,   \* arq:retry:<id>
  cancel,  \* job:cancel:<id> is set
  up,      \* the worker process runs
  coro,    \* where the worker's _run_subprocess coroutine is
  out,     \* the status it is about to return
  proc,    \* its subprocess
  seen,    \* its watch_task is done
  rq,      \* the handlers' local variables
  known,   \* tasks whose id some response carried
  ran,     \* history: how the attempts of each job ended
  asked,   \* history: tasks whose cancel flag was once set
  hurt,    \* history: what faults did to each task
  faults   \* history: faults so far

db == <<purged, row, assets, audit, vault>>
redis == <<job, result, tries, cancel>>
worker == <<up, coro, out, proc, seen, ran>>
history == <<hurt, faults>>
vars == <<db, redis, worker, rq, known, asked, history>>

Open == {"queued", "running"}
Final == {"done", "failed", "killed"}

(* What a finalisation records; an orphan's is {"failed", reason: "orphaned"}. *)
Outcome == Final \cup {"orphaned"}
StatusOf(o) == IF o = "orphaned" THEN "failed" ELSE o

(* A handler's local variables: its path parameter, the row's status as read at *)
(* the start, what a poll will record, the values it found in the assets table. *)
Local(label, t, st, o, values) ==
  [pc |-> label, task |-> t, status |-> st, out |-> o, have |-> values]

Idle == Local("idle", NoTask, "none", "none", {})

(* What a fault may do to a task: the handler of a kill dies before its commit,  *)
(* the worker's watch raises, Redis forgets the job or its result.             *)
Harm == {"kill", "watch", "lost"}

Init ==
  /\ purged = FALSE
  /\ row = [t \in Task |-> [status |-> "none", output_ref |-> NoRef]]
  /\ assets = [a \in Asset |-> 0]
  /\ audit = [t \in Task |-> {}]
  /\ vault = {}
  /\ job = [t \in Task |-> "not_found"]
  /\ result = [t \in Task |-> "none"]
  /\ tries = [t \in Task |-> 0]
  /\ cancel = [t \in Task |-> FALSE]
  /\ up = TRUE
  /\ coro = [t \in Task |-> "none"]
  /\ out = [t \in Task |-> "none"]
  /\ proc = [t \in Task |-> "none"]
  /\ seen = [t \in Task |-> FALSE]
  /\ rq = [h \in Handler |-> Idle]
  /\ known = {} /\ asked = {} /\ faults = 0
  /\ ran = [t \in Task |-> {}] /\ hurt = [t \in Task |-> {}]

-------------------------------------------------------------------------------
(* Handlers.                                                                   *)
At(h, label) == rq[h].pc = label
Receive(h, t, label) ==
  rq' = [rq EXCEPT ![h] = Local(label, t, row[t].status, "none", {})]
Continue(h, label, o, values) ==
  rq' = [rq EXCEPT ![h] = Local(label, rq[h].task, rq[h].status, o, values)]
Goto(h, label) == Continue(h, label, rq[h].out, rq[h].have)
Return(h) == rq' = [rq EXCEPT ![h] = Idle]

Found(t, o) == IF o = "done" /\ t \in Recon THEN Asset ELSE {}

(* Mutant: arq is told before the row is committed.                            *)
EnqueueUncommitted(h, t) ==
  /\ At(h, "idle")
  /\ ~purged /\ row[t].status = "none"
  /\ Receive(h, t, "enqueue")
  /\ UNCHANGED <<db, redis, worker, known, asked, history>>

(* enqueue_*: the row and its audit entry are committed before arq knows.      *)
EnqueueCommit(h, t) ==
  /\ At(h, "idle")
  /\ ~purged /\ row[t].status = "none"
  /\ row' = [row EXCEPT ![t] = [status |-> "queued", output_ref |-> NoRef]]
  /\ audit' = [audit EXCEPT ![t] = @ \cup {"task.enqueue"}]
  /\ Receive(h, t, "enqueue")
  /\ UNCHANGED <<purged, assets, vault, redis, worker, known, asked, history>>

(* arq_pool.enqueue_job(_job_id=task_id), a no-op if arq knows the id; then the *)
(* response with the id, which the client may not get.                         *)
EnqueueJob(h) ==
  LET t == rq[h].task IN
  /\ At(h, "enqueue")
  /\ job' = [job EXCEPT ![t] = IF @ = "not_found" THEN "queued" ELSE @]
  /\ known' \in {known, known \cup {t}}
  /\ Return(h)
  /\ UNCHANGED <<db, result, tries, cancel, worker, asked, history>>

(* get_task_status: a row already final is returned as it is, with no step.    *)
PollRead(h, t) ==
  /\ At(h, "idle")
  /\ t \in known
  /\ row[t].status \in Open
  /\ Receive(h, t, "result_info")
  /\ UNCHANGED <<db, redis, worker, known, asked, history>>

(* Mutant: info.success is not looked at.                                      *)
PollTrustsResult(h) ==
  LET t == rq[h].task IN
  /\ At(h, "result_info")
  /\ \/ job[t] = "complete" /\ Continue(h, "assets", "done", {})
     \/ job[t] # "complete" /\ Goto(h, "status")
  /\ UNCHANGED <<db, redis, worker, known, asked, history>>

PollResultInfo(h) ==
  LET t == rq[h].task IN
  /\ At(h, "result_info")
  /\ \/ job[t] = "complete" /\ Continue(h, "assets", result[t], {})
     \/ job[t] # "complete" /\ Goto(h, "status")
  /\ UNCHANGED <<db, redis, worker, known, asked, history>>

(* Mutant: no result and not running is taken for an orphan.                   *)
PollOrphansEarly(h) ==
  LET t == rq[h].task IN
  /\ At(h, "status")
  /\ \/ job[t] = "in_progress" /\ rq[h].status = "queued" /\ Goto(h, "mark")
     \/ job[t] # "in_progress" /\ Continue(h, "store", "orphaned", {})
     \/ job[t] = "in_progress" /\ rq[h].status # "queued" /\ Return(h)
  /\ UNCHANGED <<db, redis, worker, known, asked, history>>

(* Mutant: a job that Redis does not know is left alone.                       *)
PollSkipsOrphans(h) ==
  LET t == rq[h].task IN
  /\ At(h, "status")
  /\ \/ job[t] = "in_progress" /\ rq[h].status = "queued" /\ Goto(h, "mark")
     \/ ~(job[t] = "in_progress" /\ rq[h].status = "queued") /\ Return(h)
  /\ UNCHANGED <<db, redis, worker, known, asked, history>>

PollJobStatus(h) ==
  LET t == rq[h].task IN
  /\ At(h, "status")
  /\ \/ job[t] = "in_progress" /\ rq[h].status = "queued" /\ Goto(h, "mark")
     \/ job[t] = "not_found" /\ Continue(h, "store", "orphaned", {})
     \/ job[t] = "in_progress" /\ rq[h].status # "queued" /\ Return(h)
     \/ job[t] \in {"queued", "complete"} /\ Return(h)
  /\ UNCHANGED <<db, redis, worker, known, asked, history>>

(* mark_task_running: an UPDATE by id alone, and its commit.                   *)
PollMarkRunning(h) ==
  /\ At(h, "mark")
  /\ row' = [row EXCEPT ![rq[h].task].status = "running"]
  /\ Return(h)
  /\ UNCHANGED <<purged, assets, audit, vault, redis, worker, known, asked, history>>

(* Mutant: what the table holds is not looked at.                              *)
PollAllAssets(h) ==
  /\ At(h, "assets")
  /\ Continue(h, "store", rq[h].out, {})
  /\ UNCHANGED <<db, redis, worker, known, asked, history>>

(* insert_discovered_assets: the SELECT; its INSERTs show at the commit.       *)
PollAssets(h) ==
  /\ At(h, "assets")
  /\ Continue(h, "store", rq[h].out,
              {a \in Found(rq[h].task, rq[h].out) : assets[a] > 0})
  /\ UNCHANGED <<db, redis, worker, known, asked, history>>

(* Mutant: the row is updated before its file is stored.                       *)
PollStoresLate(h) ==
  /\ At(h, "store")
  /\ Goto(h, "commit")
  /\ UNCHANGED <<db, redis, worker, known, asked, history>>

(* Mutant: `task.run` is committed ahead of the UPDATE.                        *)
PollAuditsFirst(h) ==
  /\ At(h, "store")
  /\ vault' = vault \cup {<<rq[h].task, rq[h].out>>}
  /\ audit' = [audit EXCEPT ![rq[h].task] = @ \cup {rq[h].out}]
  /\ Goto(h, "commit")
  /\ UNCHANGED <<purged, row, assets, redis, worker, known, asked, history>>

(* finalize_task, first half: filevault.store.                                 *)
PollStore(h) ==
  /\ At(h, "store")
  /\ vault' = vault \cup {<<rq[h].task, rq[h].out>>}
  /\ Goto(h, "commit")
  /\ UNCHANGED <<purged, row, assets, audit, redis, worker, known, asked, history>>

(* finalize_task's UPDATE by id alone, the INSERTs, `task.run`, the commit.    *)
PollCommit(h) ==
  LET t == rq[h].task
      o == rq[h].out
  IN
  /\ At(h, "commit")
  /\ row' = [row EXCEPT ![t] = [status |-> StatusOf(o), output_ref |-> o]]
  /\ assets' = [a \in Asset |-> IF a \in Found(t, o) \ rq[h].have
                                THEN assets[a] + 1 ELSE assets[a]]
  /\ audit' = [audit EXCEPT ![t] = @ \cup {o}]
  /\ Return(h)
  /\ UNCHANGED <<purged, vault, redis, worker, known, asked, history>>

(* kill_task: a final row is refused with 409, with no step.                   *)
KillRead(h, t) ==
  /\ At(h, "idle")
  /\ t \in known
  /\ row[t].status \in Open
  /\ Receive(h, t, "kill_set")
  /\ UNCHANGED <<db, redis, worker, known, asked, history>>

(* Mutant: the flag is set and nothing is written.                             *)
KillUnaudited(h) ==
  /\ At(h, "kill_set")
  /\ cancel' = [cancel EXCEPT ![rq[h].task] = TRUE]
  /\ asked' = asked \cup {rq[h].task}
  /\ Return(h)
  /\ UNCHANGED <<db, job, result, tries, worker, known, history>>

KillSet(h) ==
  /\ At(h, "kill_set")
  /\ cancel' = [cancel EXCEPT ![rq[h].task] = TRUE]
  /\ asked' = asked \cup {rq[h].task}
  /\ Goto(h, "kill_commit")
  /\ UNCHANGED <<db, job, result, tries, worker, known, history>>

KillCommit(h) ==
  /\ At(h, "kill_commit")
  /\ audit' = [audit EXCEPT ![rq[h].task] = @ \cup {"task.kill"}]
  /\ Return(h)
  /\ UNCHANGED <<purged, row, assets, vault, redis, worker, known, asked, history>>

(* purge_engagement, which looks at no task: DROP SCHEMA CASCADE waits for the   *)
(* transactions that read or wrote the tables, and takes them; what Redis, the  *)
(* worker, the vault and the audit log hold of the tasks stays.                 *)
Purge ==
  /\ ~purged
  /\ \A h \in Handler : rq[h].pc \in {"idle", "enqueue"}
  /\ purged' = TRUE
  /\ row' = [t \in Task |-> [status |-> "none", output_ref |-> NoRef]]
  /\ assets' = [a \in Asset |-> 0]
  /\ UNCHANGED <<audit, vault, redis, worker, rq, known, asked, history>>

Handle(h) ==
  \/ EnqueueJob(h)
  \/ PollResultInfo(h) \/ PollJobStatus(h) \/ PollMarkRunning(h)
  \/ PollAssets(h) \/ PollStore(h) \/ PollCommit(h)
  \/ KillSet(h) \/ KillCommit(h)

-------------------------------------------------------------------------------
(* The worker: arq's run loop and worker.py's _run_subprocess.                 *)
Active == {t \in Task : coro[t] # "none"}

(* arq claims the job (in_progress key, retry count) and starts the coroutine, *)
(* which spawns the subprocess.                                                *)
StartJob(t) ==
  /\ up /\ job[t] = "queued" /\ coro[t] = "none"
  /\ Cardinality(Active) < MaxJobs
  /\ tries[t] < MaxTries
  /\ job' = [job EXCEPT ![t] = "in_progress"]
  /\ tries' = [tries EXCEPT ![t] = @ + 1]
  /\ coro' = [coro EXCEPT ![t] = "wait"]
  /\ proc' = [proc EXCEPT ![t] = "alive"]
  /\ seen' = [seen EXCEPT ![t] = FALSE]
  /\ UNCHANGED <<db, result, cancel, up, out, ran, rq, known, asked, history>>

(* No coroutine comes to its try: create_subprocess_exec raised, or arq gives   *)
(* the job up after max_tries attempts.  The result is a failure.              *)
FailAtOnce(t) ==
  /\ up /\ job[t] = "queued" /\ coro[t] = "none"
  /\ Cardinality(Active) < MaxJobs
  /\ job' = [job EXCEPT ![t] = "complete"]
  /\ result' = [result EXCEPT ![t] = "failed"]
  /\ tries' = [tries EXCEPT ![t] = 0]
  /\ UNCHANGED <<db, cancel, worker, rq, known, asked, history>>

ProcExit(t) ==
  /\ proc[t] = "alive"
  /\ \E code \in {"zero", "nonzero"} : proc' = [proc EXCEPT ![t] = code]
  /\ UNCHANGED <<db, redis, up, coro, out, seen, ran, rq, known, asked, history>>

(* _watch_cancel reads the flag, every 0.2 s.                                  *)
WatchCancel(t) ==
  /\ coro[t] = "wait" /\ ~seen[t] /\ cancel[t]
  /\ seen' = [seen EXCEPT ![t] = TRUE]
  /\ UNCHANGED <<db, redis, up, coro, out, proc, ran, rq, known, asked, history>>

(* asyncio.wait returned: the coroutine leaves with status o.                  *)
Leave(t, o) ==
  /\ coro' = [coro EXCEPT ![t] = "finally"]
  /\ out' = [out EXCEPT ![t] = o]
  /\ ran' = [ran EXCEPT ![t] = @ \cup {o}]
  /\ proc' = [proc EXCEPT ![t] = "none"]
  /\ UNCHANGED <<db, redis, up, seen, rq, known, asked, history>>

(* comm_task in done: the exit code decides, even if the flag was seen.        *)
CollectExit(t) ==
  /\ coro[t] = "wait" /\ proc[t] \in {"zero", "nonzero"}
  /\ Leave(t, IF proc[t] = "zero" THEN "done" ELSE "failed")

KillProc(t) ==
  /\ coro[t] = "wait" /\ proc[t] = "alive" /\ seen[t]
  /\ Leave(t, "killed")

(* Mutant: proc.kill() is forgotten.                                           *)
TimeoutWithoutKill(t) ==
  /\ t \notin LongTask
  /\ coro[t] = "wait" /\ proc[t] = "alive" /\ ~seen[t]
  /\ coro' = [coro EXCEPT ![t] = "finally"]
  /\ out' = [out EXCEPT ![t] = "failed"]
  /\ ran' = [ran EXCEPT ![t] = @ \cup {"failed"}]
  /\ UNCHANGED <<db, redis, up, proc, seen, rq, known, asked, history>>

SubprocessTimeout(t) ==
  /\ t \notin LongTask
  /\ coro[t] = "wait" /\ proc[t] = "alive" /\ ~seen[t]
  /\ Leave(t, "failed")

(* arq's job_timeout cancels the coroutine: only its finally runs, the          *)
(* subprocess is left as it is, and arq will record a failure.                 *)
JobTimeout(t) ==
  /\ t \in LongTask
  /\ coro[t] = "wait"
  /\ coro' = [coro EXCEPT ![t] = "finally"]
  /\ out' = [out EXCEPT ![t] = "failed"]
  /\ ran' = [ran EXCEPT ![t] = @ \cup {"failed"}]
  /\ UNCHANGED <<db, redis, up, proc, seen, rq, known, asked, history>>

(* finally: await redis.delete(key).                                           *)
DeleteFlag(t) ==
  /\ coro[t] = "finally"
  /\ cancel' = [cancel EXCEPT ![t] = FALSE]
  /\ coro' = [coro EXCEPT ![t] = "return"]
  /\ UNCHANGED <<db, job, result, tries, up, out, proc, seen, ran, rq, known, asked, history>>

(* arq's finish_job, one MULTI: the result is set and the job's keys deleted.  *)
FinishJob(t) ==
  /\ coro[t] = "return"
  /\ job' = [job EXCEPT ![t] = "complete"]
  /\ result' = [result EXCEPT ![t] = out[t]]
  /\ tries' = [tries EXCEPT ![t] = 0]
  /\ coro' = [coro EXCEPT ![t] = "none"]
  /\ out' = [out EXCEPT ![t] = "none"]
  /\ UNCHANGED <<db, cancel, up, proc, seen, ran, rq, known, asked, history>>

(* The in_progress key of a dead worker's job expires: it is claimable again.  *)
InProgressExpire(t) ==
  /\ job[t] = "in_progress" /\ coro[t] = "none"
  /\ job' = [job EXCEPT ![t] = "queued"]
  /\ UNCHANGED <<db, result, tries, cancel, worker, rq, known, asked, history>>

WorkerStart ==
  /\ ~up
  /\ up' = TRUE
  /\ UNCHANGED <<db, redis, coro, out, proc, seen, ran, rq, known, asked, history>>

Run(t) ==
  \/ StartJob(t) \/ FailAtOnce(t) \/ ProcExit(t) \/ WatchCancel(t)
  \/ CollectExit(t) \/ KillProc(t) \/ SubprocessTimeout(t) \/ JobTimeout(t)
  \/ DeleteFlag(t) \/ FinishJob(t) \/ InProgressExpire(t)

-------------------------------------------------------------------------------
(* Faults.                                                                     *)
FaultIs(kind) ==
  /\ kind \in Fault
  /\ faults < MaxFaults
  /\ faults' = faults + 1

Hurts(ts, harm) ==
  hurt' = [t \in Task |-> IF t \in ts THEN hurt[t] \cup {harm} ELSE hurt[t]]

(* A request dies (gateway crash, lost connection): what it had not committed  *)
(* is rolled back.                                                             *)
HandlerCrash(h) ==
  /\ FaultIs("handler")
  /\ ~At(h, "idle")
  /\ Hurts({t \in {rq[h].task} : At(h, "kill_commit")}, "kill")
  /\ Return(h)
  /\ UNCHANGED <<db, redis, worker, known, asked>>

(* The worker's container is gone, its subprocesses with it.                   *)
WorkerGone(requeued) ==
  /\ up' = FALSE
  /\ coro' = [t \in Task |-> "none"]
  /\ out' = [t \in Task |-> "none"]
  /\ proc' = [t \in Task |-> "none"]
  /\ job' = [t \in Task |-> IF t \in requeued /\ job[t] = "in_progress"
                            THEN "queued" ELSE job[t]]
  /\ UNCHANGED <<db, result, tries, seen, ran, rq, known, asked, hurt>>

WorkerCrash ==
  /\ FaultIs("worker")
  /\ up
  /\ WorkerGone({})
  /\ UNCHANGED cancel

(* SIGTERM: arq cancels the coroutines, whose finally deletes the flags, and   *)
(* puts the jobs back in the queue.  A deletion already awaited is cut short,  *)
(* before or after Redis got it; finish_job is shielded, so it is over first.  *)
WorkerShutdown ==
  /\ FaultIs("worker")
  /\ up
  /\ \A t \in Task : coro[t] # "return"
  /\ \E cut \in SUBSET {t \in Task : coro[t] = "finally"} :
       cancel' = [t \in Task |-> cancel[t] /\ (coro[t] = "none" \/ t \in cut)]
  /\ WorkerGone(Active)

(* The coroutine's connection to Redis breaks: _watch_cancel raises, and its    *)
(* watch_task is done as if it had read the flag.                              *)
WatchRaises(t) ==
  /\ FaultIs("connection")
  /\ coro[t] = "wait" /\ ~seen[t]
  /\ seen' = [seen EXCEPT ![t] = TRUE]
  /\ Hurts({t}, "watch")
  /\ UNCHANGED <<db, redis, up, coro, out, proc, ran, rq, known, asked>>

(* Or the DEL of finally raises, before or after Redis got it: arq records the  *)
(* exception instead of what the coroutine was returning.                      *)
DeleteRaises(t) ==
  /\ FaultIs("connection")
  /\ coro[t] = "finally"
  /\ cancel' \in {cancel, [cancel EXCEPT ![t] = FALSE]}
  /\ coro' = [coro EXCEPT ![t] = "return"]
  /\ out' = [out EXCEPT ![t] = "failed"]
  /\ UNCHANGED <<db, job, result, tries, up, proc, seen, ran, rq, known, asked, hurt>>

(* Redis keeps no volume: it restarts empty.  A watch that reads its flag        *)
(* meanwhile raises; one that sleeps through it does not.                      *)
RedisLoss ==
  /\ FaultIs("redis")
  /\ job' = [t \in Task |-> "not_found"]
  /\ result' = [t \in Task |-> "none"]
  /\ tries' = [t \in Task |-> 0]
  /\ cancel' = [t \in Task |-> FALSE]
  /\ \E broken \in SUBSET {t \in Task : coro[t] = "wait" /\ ~seen[t]} :
       /\ seen' = [t \in Task |-> seen[t] \/ t \in broken]
       /\ hurt' = [t \in Task |-> hurt[t] \cup {harm \in Harm :
                     \/ harm = "lost" /\ job[t] # "not_found"
                     \/ harm = "watch" /\ t \in broken}]
  /\ UNCHANGED <<db, up, coro, out, proc, ran, rq, known, asked>>

(* keep_result and the flag's EX 3600: an hour passes.                         *)
ResultExpire(t) ==
  /\ FaultIs("expiry")
  /\ job[t] = "complete"
  /\ job' = [job EXCEPT ![t] = "not_found"]
  /\ result' = [result EXCEPT ![t] = "none"]
  /\ Hurts({t}, "lost")
  /\ UNCHANGED <<db, tries, cancel, worker, rq, known, asked>>

CancelExpire(t) ==
  /\ FaultIs("expiry")
  /\ cancel[t]
  /\ cancel' = [cancel EXCEPT ![t] = FALSE]
  /\ UNCHANGED <<db, job, result, tries, worker, rq, known, asked, hurt>>

FaultStep ==
  \/ \E h \in Handler : HandlerCrash(h)
  \/ WorkerCrash \/ WorkerShutdown \/ RedisLoss
  \/ \E t \in Task : \/ WatchRaises(t) \/ DeleteRaises(t)
                     \/ ResultExpire(t) \/ CancelExpire(t)

-------------------------------------------------------------------------------
Receives(h) == \E t \in Task : EnqueueCommit(h, t) \/ PollRead(h, t) \/ KillRead(h, t)

Next ==
  \/ \E h \in Handler : Receives(h) \/ Handle(h)
  \/ \E t \in Task : Run(t)
  \/ WorkerStart
  \/ Purge
  \/ FaultStep

Spec == Init /\ [][Next]_vars

(* The event loops of both processes run what is ready, a subprocess ends or    *)
(* is timed out, a dead worker's key expires; the client that got an id polls. *)
(* Nothing restarts a worker: docker-compose.yml gives it no restart policy.   *)
Fairness ==
  /\ \A h \in Handler : WF_vars(Handle(h))
  /\ \A t \in Task : WF_vars(Run(t))
  /\ \A t \in Task : SF_vars(\E h \in Handler : PollRead(h, t))

FairSpec == Spec /\ Fairness

-------------------------------------------------------------------------------
Label == {"idle", "enqueue", "result_info", "status", "mark", "assets", "store",
          "commit", "kill_set", "kill_commit"}

Request == [pc : Label, task : Task \cup {NoTask},
            status : Open \cup Final \cup {"none"},
            out : Outcome \cup {"none"}, have : SUBSET Asset]

DbType ==
  /\ purged \in BOOLEAN
  /\ row \in [Task -> [status : Open \cup Final \cup {"none"},
                      output_ref : Outcome \cup {NoRef}]]
  /\ assets \in [Asset -> Nat]
  /\ audit \in [Task -> SUBSET (Outcome \cup {"task.enqueue", "task.kill"})]
  /\ vault \subseteq Task \X Outcome

RedisType ==
  /\ job \in [Task -> {"not_found", "queued", "in_progress", "complete"}]
  /\ result \in [Task -> Final \cup {"none"}]
  /\ tries \in [Task -> Nat]
  /\ cancel \in [Task -> BOOLEAN]

WorkerType ==
  /\ up \in BOOLEAN
  /\ coro \in [Task -> {"none", "wait", "finally", "return"}]
  /\ out \in [Task -> Final \cup {"none"}]
  /\ proc \in [Task -> {"none", "alive", "zero", "nonzero"}]
  /\ seen \in [Task -> BOOLEAN]
  /\ ran \in [Task -> SUBSET Final]

(* Every variable has its type.                                                *)
TypeOK ==
  /\ DbType /\ RedisType /\ WorkerType
  /\ rq \in [Handler -> Request]
  /\ known \subseteq Task /\ asked \subseteq Task
  /\ hurt \in [Task -> SUBSET Harm] /\ faults \in Nat

(* Whatever runs, waits in Redis or is known to a client was enqueued by a       *)
(* committed request, whose `task.enqueue` entry is there, and its row is there *)
(* too, unless a purge took it: jobs outlive the tables (engagements.py:355-377 *)
(* asks for a closed engagement, not for one without open tasks).              *)
JobIsRecorded ==
  \A t \in Task :
    \/ job[t] # "not_found" \/ coro[t] # "none" \/ proc[t] # "none"
    \/ t \in known \/ cancel[t] \/ ran[t] # {}
    => "task.enqueue" \in audit[t] /\ (row[t].status # "none" \/ purged)

(* A closed row and its evidence agree: the file named by output_ref is in the *)
(* vault, its content says the row's status, and a `task.run` entry says it;   *)
(* whichever poll closed it, and whatever crashed in between.                  *)
ClosedRowHasEvidence ==
  \A t \in Task :
    row[t].status \in Final =>
      /\ row[t].output_ref \in Outcome
      /\ StatusOf(row[t].output_ref) = row[t].status
      /\ <<t, row[t].output_ref>> \in vault
      /\ row[t].output_ref \in audit[t]

(* A row says done or killed only if an attempt of its job ended so, and killed *)
(* only if some handler set the flag or the watch of that very job raised: no   *)
(* stale answer of Redis, no retry and no race between exit, flag and timeout   *)
(* invents them.                                                               *)
OutcomeIsReal ==
  \A t \in Task :
    /\ row[t].status \in {"done", "killed"} => row[t].status \in ran[t]
    /\ row[t].status = "killed" => t \in asked \/ "watch" \in hurt[t]

(* What the worker is about to return and what Redis holds was earned by an     *)
(* attempt of the job; a flag that is set, or was seen, or killed, was asked.   *)
AnswersEarned ==
  \A t \in Task :
    /\ coro[t] \in {"finally", "return"} <=> out[t] # "none"
    /\ job[t] = "complete" <=> result[t] # "none"
    /\ {out[t], result[t]} \cap {"done", "killed"} \subseteq ran[t]
    /\ cancel[t] \/ (coro[t] = "wait" /\ seen[t]) \/ "killed" \in ran[t]
       => t \in asked \/ "watch" \in hurt[t]

(* A request works on a committed row, which a purge leaves it, unless all it    *)
(* has left is to tell arq; what a poll is about to record was earned, and its  *)
(* file is stored before its UPDATE.                                            *)
RequestsGrounded ==
  \A h \in Handler : rq[h].pc # "idle" =>
    /\ rq[h].task \in Task
    /\ row[rq[h].task].status # "none" \/ (purged /\ rq[h].pc = "enqueue")
    /\ "task.enqueue" \in audit[rq[h].task]
    /\ rq[h].pc \in {"assets", "store", "commit"} => rq[h].out \in Outcome
    /\ rq[h].out \in {"done", "killed"} => rq[h].out \in ran[rq[h].task]
    /\ rq[h].pc = "mark" => rq[h].status = "queued"
    /\ rq[h].pc = "commit" => <<rq[h].task, rq[h].out>> \in vault

(* Where every answer comes from.                                              *)
Provenance == AnswersEarned /\ RequestsGrounded

(* A kill that took effect is in the audit log, or its handler is about to      *)
(* write it, unless a handler that killed this task died between setting the    *)
(* flag (tasks.py:334) and its commit, or the watch of this job raised.         *)
KillIsAudited ==
  \A t \in Task :
    "killed" \in ran[t] =>
      \/ "task.kill" \in audit[t]
      \/ \E h \in Handler : rq[h].task = t /\ rq[h].pc = "kill_commit"
      \/ hurt[t] \cap {"kill", "watch"} # {}

(* No poll takes a job that waits or runs, or whose result came between its two *)
(* questions to Redis, for an orphan: the job it closes so is one that Redis    *)
(* lost.                                                                       *)
OrphanWasForgotten ==
  \A t \in Task : row[t].output_ref = "orphaned" => "lost" \in hurt[t]

(* What job_timeout left behind: the process of a task whose own timeout is      *)
(* longer, its coroutine cancelled (worker.py:134, tasks.py:52).               *)
LeftBehind(t) == t \in LongTask /\ coro[t] # "wait"

(* Every other live subprocess has a slot, so there are no more than max_jobs,  *)
(* whatever was cancelled, retried, timed out or lost.                         *)
SubprocessesFitSlots ==
  Cardinality({t \in Task : proc[t] = "alive" /\ ~LeftBehind(t)}) <= MaxJobs

(* Racing polls may insert an asset more than once, but only those that run at   *)
(* the same time do: no repetition and no other task adds a copy later.         *)
AssetCopiesBounded == \A a \in Asset : assets[a] <= Cardinality(Handler)

(* A client that keeps polling a task it was given sees it closed for good,     *)
(* whatever died meanwhile, unless the worker stays down (docker-compose.yml    *)
(* has no restart policy for it) or the engagement is purged.                  *)
KnownTasksClose ==
  []<>up => \A t \in Task : t \in known ~> [](row[t].status \in Final \/ purged)

-------------------------------------------------------------------------------
(* What the repository says, and requests that race can break.                 *)

(* execution.py:103, "clot la tache": a closed task stays as it was closed.    *)
ClosedStaysClosed ==
  [][\A t \in Task : row[t].status \in Final => row'[t] = row[t] \/ purged']_vars

-------------------------------------------------------------------------------
(* Past the read of get_task_status.                                           *)
Polling == {"result_info", "status", "mark", "assets", "store", "commit"}

Life == INSTANCE TaskLife
          WITH Verdict <- Outcome,
               Reader <- Handler,
               status <- [t \in Task |-> IF purged THEN "purged" ELSE row[t].status],
               verdicts <- [t \in Task |-> audit[t] \cap Outcome],
               reading <- [h \in Handler |-> IF rq[h].pc \in Polling
                                             THEN [task |-> rq[h].task, status |-> rq[h].status]
                                             ELSE [task |-> NoTask, status |-> "none"]]

(* Handlers, queue, worker and vault together are the life of a task as its      *)
(* clients see it, however requests race and whatever crashes: only a poll that *)
(* read a task open moves or closes it, a verdict is audited in the step that   *)
(* closes, and a purge waits for the polls.                                     *)
ImplementsLife == Life!Spec
================================================================================
