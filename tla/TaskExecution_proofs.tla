------------------------- MODULE TaskExecution_proofs --------------------------
(* What holds of task execution for any number of requests, tasks, workers'    *)
(* attempts and faults, and a purge at any time.  The inductive invariant joins *)
(* the types with three safety properties, with Provenance, which says where   *)
(* every answer a poll can record comes from, and with PurgedIsGone.           *)
EXTENDS TaskExecution, FiniteSetTheorems, TLAPS

(* After a purge there is no row, and so no request that works on one.           *)
PurgedIsGone == purged => \A t \in Task : row[t].status = "none"

IInv ==
  /\ TypeOK /\ JobIsRecorded /\ ClosedRowHasEvidence /\ OutcomeIsReal
  /\ Provenance /\ PurgedIsGone

-------------------------------------------------------------------------------
(* Which actions write what: here, the writers of PostgreSQL and the vault.    *)
LEMMA DbFrame ==
  ASSUME Next
  PROVE  \/ \E h \in Handler, t \in Task : EnqueueCommit(h, t)
         \/ \E h \in Handler : PollMarkRunning(h)
         \/ \E h \in Handler : PollStore(h)
         \/ \E h \in Handler : PollCommit(h)
         \/ \E h \in Handler : KillCommit(h)
         \/ Purge
         \/ UNCHANGED db
<1>1. ASSUME NEW h \in Handler, NEW t \in Task, PollRead(h, t) \/ KillRead(h, t)
      PROVE  UNCHANGED db
  BY <1>1 DEF db, PollRead, KillRead
<1>2. ASSUME NEW h \in Handler,
             \/ EnqueueJob(h) \/ PollResultInfo(h) \/ PollJobStatus(h) \/ PollAssets(h)
             \/ KillSet(h) \/ HandlerCrash(h)
      PROVE  UNCHANGED db
  BY <1>2 DEF db, EnqueueJob, PollResultInfo, PollJobStatus, PollAssets, KillSet,
              HandlerCrash
<1>3. ASSUME NEW t \in Task, Run(t) PROVE UNCHANGED db
  BY <1>3 DEF Run, db, Leave, StartJob, FailAtOnce, ProcExit, WatchCancel, CollectExit,
              KillProc, SubprocessTimeout, JobTimeout, DeleteFlag, FinishJob, InProgressExpire
<1>4. ASSUME NEW t \in Task,
             WatchRaises(t) \/ DeleteRaises(t) \/ ResultExpire(t) \/ CancelExpire(t)
      PROVE  UNCHANGED db
  BY <1>4 DEF db, WatchRaises, DeleteRaises, ResultExpire, CancelExpire
<1>5. ASSUME WorkerStart \/ WorkerCrash \/ WorkerShutdown \/ RedisLoss PROVE UNCHANGED db
  BY <1>5 DEF db, WorkerStart, WorkerCrash, WorkerShutdown, WorkerGone, RedisLoss
<1> QED
  BY <1>1, <1>2, <1>3, <1>4, <1>5 DEF Next, Receives, Handle, FaultStep

(* The writers of Redis.                                                       *)
LEMMA RedisFrame ==
  ASSUME Next
  PROVE  \/ \E h \in Handler : EnqueueJob(h)
         \/ \E h \in Handler : KillSet(h)
         \/ \E t \in Task : StartJob(t)
         \/ \E t \in Task : FailAtOnce(t)
         \/ \E t \in Task : DeleteFlag(t)
         \/ \E t \in Task : FinishJob(t)
         \/ \E t \in Task : InProgressExpire(t)
         \/ WorkerCrash
         \/ WorkerShutdown
         \/ RedisLoss
         \/ \E t \in Task : DeleteRaises(t)
         \/ \E t \in Task : ResultExpire(t)
         \/ \E t \in Task : CancelExpire(t)
         \/ UNCHANGED redis
BY DEF Next, Receives, Handle, Run, FaultStep, redis, Leave, EnqueueCommit,
       PollRead, KillRead, PollResultInfo, PollJobStatus, PollMarkRunning,
       PollAssets, PollStore, PollCommit, KillCommit, HandlerCrash, ProcExit,
       WatchCancel, CollectExit, KillProc, SubprocessTimeout, JobTimeout,
       WorkerStart, WatchRaises, Purge

(* The writers of the worker's state.                                          *)
LEMMA WorkerFrame ==
  ASSUME Next
  PROVE  \/ \E t \in Task : StartJob(t)
         \/ \E t \in Task : ProcExit(t)
         \/ \E t \in Task : WatchCancel(t)
         \/ \E t \in Task : CollectExit(t)
         \/ \E t \in Task : KillProc(t)
         \/ \E t \in Task : SubprocessTimeout(t)
         \/ \E t \in Task : JobTimeout(t)
         \/ \E t \in Task : DeleteFlag(t)
         \/ \E t \in Task : FinishJob(t)
         \/ WorkerStart
         \/ WorkerCrash
         \/ WorkerShutdown
         \/ \E t \in Task : WatchRaises(t)
         \/ \E t \in Task : DeleteRaises(t)
         \/ RedisLoss
         \/ UNCHANGED worker
<1>1. ASSUME NEW h \in Handler, Receives(h) \/ Handle(h) PROVE UNCHANGED worker
  BY <1>1 DEF Receives, Handle, worker, EnqueueCommit, PollRead, KillRead, EnqueueJob,
              PollResultInfo, PollJobStatus, PollMarkRunning, PollAssets, PollStore,
              PollCommit, KillSet, KillCommit
<1>2. ASSUME NEW t \in Task, FailAtOnce(t) \/ InProgressExpire(t) PROVE UNCHANGED worker
  BY <1>2 DEF worker, FailAtOnce, InProgressExpire
<1>3. ASSUME FaultStep
      PROVE  \/ WorkerCrash \/ WorkerShutdown \/ RedisLoss
             \/ \E t \in Task : WatchRaises(t) \/ DeleteRaises(t)
             \/ UNCHANGED worker
  BY <1>3 DEF FaultStep, worker, HandlerCrash, ResultExpire, CancelExpire
<1>4. ASSUME Purge PROVE UNCHANGED worker
  BY <1>4 DEF Purge, worker
<1> QED
  BY <1>1, <1>2, <1>3, <1>4 DEF Next, Run

(* The writers of the requests' local variables.                               *)
LEMMA RequestFrame ==
  ASSUME Next
  PROVE  \/ \E h \in Handler, t \in Task : EnqueueCommit(h, t)
         \/ \E h \in Handler, t \in Task : PollRead(h, t)
         \/ \E h \in Handler, t \in Task : KillRead(h, t)
         \/ \E h \in Handler : EnqueueJob(h)
         \/ \E h \in Handler : PollResultInfo(h)
         \/ \E h \in Handler : PollJobStatus(h)
         \/ \E h \in Handler : PollMarkRunning(h)
         \/ \E h \in Handler : PollAssets(h)
         \/ \E h \in Handler : PollStore(h)
         \/ \E h \in Handler : PollCommit(h)
         \/ \E h \in Handler : KillSet(h)
         \/ \E h \in Handler : KillCommit(h)
         \/ \E h \in Handler : HandlerCrash(h)
         \/ UNCHANGED rq
BY DEF Next, Receives, Handle, Run, FaultStep, WorkerGone, Leave, StartJob,
       FailAtOnce, ProcExit, WatchCancel, CollectExit, KillProc,
       SubprocessTimeout, JobTimeout, DeleteFlag, FinishJob, InProgressExpire,
       ResultExpire, CancelExpire, WorkerStart, WorkerCrash, WorkerShutdown,
       WatchRaises, DeleteRaises, RedisLoss, Purge

(* The writers of what clients know and what was asked.                        *)
LEMMA HistoryFrame ==
  ASSUME Next
  PROVE  /\ (\E h \in Handler : EnqueueJob(h)) \/ UNCHANGED known
         /\ (\E h \in Handler : KillSet(h)) \/ UNCHANGED asked
BY DEF Next, Receives, Handle, Run, FaultStep, WorkerGone, Leave,
       EnqueueCommit, PollRead, KillRead, EnqueueJob, PollResultInfo,
       PollJobStatus, PollMarkRunning, PollAssets, PollStore, PollCommit,
       KillSet, KillCommit, HandlerCrash, StartJob, FailAtOnce, ProcExit,
       WatchCancel, CollectExit, KillProc, SubprocessTimeout, JobTimeout,
       DeleteFlag, FinishJob, InProgressExpire, ResultExpire, CancelExpire,
       WorkerStart, WorkerCrash, WorkerShutdown, WatchRaises, DeleteRaises,
       RedisLoss, Purge

(* The writers of what faults did.                                             *)
LEMMA FaultFrame ==
  ASSUME Next
  PROVE  \/ \E h \in Handler : HandlerCrash(h)
         \/ \E t \in Task : WatchRaises(t) \/ ResultExpire(t)
         \/ RedisLoss
         \/ UNCHANGED hurt
<1>1. ASSUME NEW h \in Handler, Receives(h) \/ Handle(h) PROVE UNCHANGED hurt
  BY <1>1 DEF Receives, Handle, history, EnqueueCommit, PollRead, KillRead, EnqueueJob,
              PollResultInfo, PollJobStatus, PollMarkRunning, PollAssets, PollStore,
              PollCommit, KillSet, KillCommit
<1>2. ASSUME NEW t \in Task, Run(t) PROVE UNCHANGED hurt
  BY <1>2 DEF Run, history, Leave, StartJob, FailAtOnce, ProcExit, WatchCancel, CollectExit,
              KillProc, SubprocessTimeout, JobTimeout, DeleteFlag, FinishJob, InProgressExpire
<1>3. ASSUME WorkerStart \/ Purge PROVE UNCHANGED hurt
  BY <1>3 DEF WorkerStart, Purge, history
<1>4. ASSUME WorkerCrash \/ WorkerShutdown PROVE UNCHANGED hurt
  BY <1>4 DEF WorkerCrash, WorkerShutdown, WorkerGone
<1>5. ASSUME NEW t \in Task, DeleteRaises(t) \/ CancelExpire(t) PROVE UNCHANGED hurt
  BY <1>5 DEF DeleteRaises, CancelExpire
<1> QED
  BY <1>1, <1>2, <1>3, <1>4, <1>5 DEF Next, FaultStep

-------------------------------------------------------------------------------
(* A request past its first read works on a task with a committed row, unless a *)
(* purge came while all it had left was to tell arq.                           *)
LEMMA RequestFacts ==
  ASSUME IInv, NEW h \in Handler, rq[h].pc # "idle"
  PROVE  /\ rq[h] \in Request
         /\ rq[h].task \in Task
         /\ row[rq[h].task].status # "none" \/ (purged /\ rq[h].pc = "enqueue")
         /\ "task.enqueue" \in audit[rq[h].task]
         /\ rq[h].pc \in {"assets", "store", "commit"} => rq[h].out \in Outcome
BY DEF IInv, TypeOK, Provenance, RequestsGrounded

(* Audit entries, files, the history of attempts and of faults never go away,   *)
(* and rows only with a purge.                                                 *)
Grows ==
  /\ \A t \in Task :
       /\ row[t].status # "none" => row'[t].status # "none" \/ Purge
       /\ audit[t] \subseteq audit'[t]
       /\ ran[t] \subseteq ran'[t]
       /\ hurt[t] \subseteq hurt'[t]
  /\ vault \subseteq vault' /\ asked \subseteq asked'
  /\ purged' = purged \/ Purge

(* What faults did is of its type and only grows.                              *)
LEMMA HurtStep ==
  ASSUME IInv, Next
  PROVE  /\ hurt' \in [Task -> SUBSET Harm]
         /\ \A t \in Task : hurt[t] \subseteq hurt'[t]
<1> DEFINE Goal == /\ hurt' \in [Task -> SUBSET Harm]
                   /\ \A t \in Task : hurt[t] \subseteq hurt'[t]
<1>1. hurt \in [Task -> SUBSET Harm]
  BY DEF IInv, TypeOK
<1>2. ASSUME NEW ts, NEW harm \in Harm, Hurts(ts, harm) PROVE Goal
  BY <1>1, <1>2 DEF Hurts
<1>3. ASSUME RedisLoss PROVE Goal
  <2>1. PICK broken \in SUBSET Task :
          hurt' = [t \in Task |-> hurt[t] \cup {harm \in Harm :
                     \/ harm = "lost" /\ job[t] # "not_found"
                     \/ harm = "watch" /\ t \in broken}]
    BY <1>3 DEF RedisLoss
  <2> QED
    BY <1>1, <2>1
<1>4. ASSUME UNCHANGED hurt PROVE Goal
  BY <1>1, <1>4
<1>5. "kill" \in Harm /\ "watch" \in Harm /\ "lost" \in Harm
  BY DEF Harm
<1> HIDE DEF Goal
<1>6. ASSUME NEW h \in Handler, HandlerCrash(h) PROVE Goal
  BY <1>2, <1>5, <1>6 DEF HandlerCrash
<1>7. ASSUME NEW t \in Task, WatchRaises(t) \/ ResultExpire(t) PROVE Goal
  BY <1>2, <1>5, <1>7 DEF WatchRaises, ResultExpire
<1> QED
  BY <1>3, <1>4, <1>6, <1>7, FaultFrame DEF Goal

(* Every step keeps them.                                                      *)
LEMMA NothingGoesAway ==
  ASSUME IInv, Next
  PROVE  Grows
<1>1. \A t \in Task :
        /\ row[t].status # "none" => row'[t].status # "none" \/ Purge
        /\ audit[t] \subseteq audit'[t]
  <2>1. ASSUME NEW h \in Handler, NEW t \in Task, EnqueueCommit(h, t) PROVE <1>1
    BY <2>1 DEF EnqueueCommit, IInv, TypeOK, DbType
  <2>2. ASSUME NEW h \in Handler, PollMarkRunning(h) PROVE <1>1
    BY <2>2 DEF PollMarkRunning, IInv, TypeOK, DbType
  <2>3. ASSUME NEW h \in Handler, PollCommit(h) PROVE <1>1
    <3>1. rq[h].out \in Outcome
      BY <2>3, RequestFacts DEF PollCommit, At
    <3> QED
      BY <2>3, <3>1 DEF PollCommit, IInv, TypeOK, DbType, Outcome, Final, StatusOf
  <2>4. ASSUME NEW h \in Handler, PollStore(h) \/ KillCommit(h) PROVE <1>1
    BY <2>4 DEF PollStore, KillCommit, IInv, TypeOK, DbType
  <2>5. CASE UNCHANGED db
    BY <2>5 DEF db
  <2>6. CASE Purge
    BY <2>6 DEF Purge
  <2> QED
    BY <2>1, <2>2, <2>3, <2>4, <2>5, <2>6, DbFrame
<1>2. vault \subseteq vault' /\ (purged' = purged \/ Purge)
  BY DbFrame DEF db, EnqueueCommit, PollMarkRunning, PollStore, PollCommit, KillCommit, Purge
<1>3. \A t \in Task : ran[t] \subseteq ran'[t]
  <2>1. ASSUME NEW t \in Task,
               CollectExit(t) \/ KillProc(t) \/ SubprocessTimeout(t) \/ JobTimeout(t)
        PROVE  <1>3
    BY <2>1 DEF CollectExit, KillProc, SubprocessTimeout, JobTimeout, Leave,
                IInv, TypeOK, WorkerType
  <2>2. CASE UNCHANGED ran
    BY <2>2
  <2> QED
    BY <2>1, <2>2, WorkerFrame
       DEF worker, StartJob, ProcExit, WatchCancel, DeleteFlag, FinishJob, WorkerStart,
           WorkerCrash, WorkerShutdown, WorkerGone, WatchRaises, DeleteRaises, RedisLoss
<1>4. asked \subseteq asked'
  BY HistoryFrame DEF KillSet
<1> QED
  BY <1>1, <1>2, <1>3, <1>4, HurtStep DEF Grows

-------------------------------------------------------------------------------
(* Types.  The rows, assets, entries and files a handler writes are typed.     *)
LEMMA DbTypeStep ==
  ASSUME IInv, Next
  PROVE  DbType'
<1> USE DEF Open, Final, Outcome
<1>1. ASSUME NEW h \in Handler, NEW t \in Task, EnqueueCommit(h, t) PROVE DbType'
  BY <1>1 DEF EnqueueCommit, IInv, TypeOK, DbType
<1>2. ASSUME NEW h \in Handler, PollMarkRunning(h) PROVE DbType'
  BY <1>2 DEF PollMarkRunning, IInv, TypeOK, DbType
<1>3. ASSUME NEW h \in Handler, PollStore(h) PROVE DbType'
  BY <1>3, RequestFacts DEF PollStore, At, IInv, TypeOK, DbType
<1>4. ASSUME NEW h \in Handler, PollCommit(h) PROVE DbType'
  BY <1>4, RequestFacts DEF PollCommit, At, StatusOf, IInv, TypeOK, DbType
<1>5. ASSUME NEW h \in Handler, KillCommit(h) PROVE DbType'
  BY <1>5 DEF KillCommit, IInv, TypeOK, DbType
<1>6. CASE Purge
  BY <1>6 DEF Purge, IInv, TypeOK, DbType
<1>7. CASE UNCHANGED db
  BY <1>7 DEF db, IInv, TypeOK, DbType
<1> QED
  BY <1>1, <1>2, <1>3, <1>4, <1>5, <1>6, <1>7, DbFrame

(* What a step leaves in Redis is typed.                                       *)
LEMMA RedisTypeStep ==
  ASSUME IInv, Next
  PROVE  RedisType'
<1> USE DEF IInv, TypeOK, RedisType
<1>1. ASSUME NEW h \in Handler, EnqueueJob(h) \/ KillSet(h) PROVE RedisType'
  BY <1>1 DEF EnqueueJob, KillSet
<1>2. ASSUME NEW t \in Task, StartJob(t) PROVE RedisType'
  BY <1>2 DEF StartJob
<1>3. ASSUME NEW t \in Task, FailAtOnce(t) PROVE RedisType'
  BY <1>3 DEF FailAtOnce, Final
<1>4. ASSUME NEW t \in Task, DeleteFlag(t) PROVE RedisType'
  BY <1>4 DEF DeleteFlag
<1>5. ASSUME NEW t \in Task, FinishJob(t) PROVE RedisType'
  BY <1>5 DEF FinishJob, Final, WorkerType
<1>6. ASSUME NEW t \in Task, InProgressExpire(t) PROVE RedisType'
  BY <1>6 DEF InProgressExpire
<1>7. CASE WorkerCrash
  BY <1>7 DEF WorkerCrash, WorkerGone, Active
<1>8. CASE WorkerShutdown
  BY <1>8 DEF WorkerShutdown, WorkerGone, Active
<1>9. CASE RedisLoss
  BY <1>9 DEF RedisLoss
<1>10. ASSUME NEW t \in Task, ResultExpire(t) PROVE RedisType'
  BY <1>10 DEF ResultExpire
<1>11. ASSUME NEW t \in Task, CancelExpire(t) PROVE RedisType'
  BY <1>11 DEF CancelExpire
<1>12. ASSUME NEW t \in Task, DeleteRaises(t) PROVE RedisType'
  BY <1>12 DEF DeleteRaises
<1>13. CASE UNCHANGED redis
  BY <1>13 DEF redis
<1> QED
  BY <1>1, <1>2, <1>3, <1>4, <1>5, <1>6, <1>7, <1>8, <1>9, <1>10, <1>11,
     <1>12, <1>13, RedisFrame

(* What a step leaves in the worker is typed.                                  *)
LEMMA WorkerTypeStep ==
  ASSUME IInv, Next
  PROVE  WorkerType'
<1> USE DEF IInv, TypeOK, WorkerType
<1>1. ASSUME NEW t \in Task, StartJob(t) PROVE WorkerType'
  BY <1>1 DEF StartJob
<1>2. ASSUME NEW t \in Task, ProcExit(t) PROVE WorkerType'
  BY <1>2 DEF ProcExit
<1>3. ASSUME NEW t \in Task, WatchCancel(t) PROVE WorkerType'
  BY <1>3 DEF WatchCancel
<1>4. ASSUME NEW t \in Task, CollectExit(t) PROVE WorkerType'
  BY <1>4 DEF CollectExit, Leave, Final
<1>5. ASSUME NEW t \in Task, KillProc(t) PROVE WorkerType'
  BY <1>5 DEF KillProc, Leave, Final
<1>6. ASSUME NEW t \in Task, SubprocessTimeout(t) PROVE WorkerType'
  BY <1>6 DEF SubprocessTimeout, Leave, Final
<1>7. ASSUME NEW t \in Task, JobTimeout(t) PROVE WorkerType'
  BY <1>7 DEF JobTimeout, Final
<1>8. ASSUME NEW t \in Task, DeleteFlag(t) PROVE WorkerType'
  BY <1>8 DEF DeleteFlag
<1>9. ASSUME NEW t \in Task, FinishJob(t) PROVE WorkerType'
  BY <1>9 DEF FinishJob
<1>10. CASE WorkerStart
  BY <1>10 DEF WorkerStart
<1>11. CASE WorkerCrash
  BY <1>11 DEF WorkerCrash, WorkerGone
<1>12. CASE WorkerShutdown
  BY <1>12 DEF WorkerShutdown, WorkerGone
<1>13. ASSUME NEW t \in Task, WatchRaises(t) PROVE WorkerType'
  BY <1>13 DEF WatchRaises
<1>14. ASSUME NEW t \in Task, DeleteRaises(t) PROVE WorkerType'
  BY <1>14 DEF DeleteRaises, Final
<1>15. CASE RedisLoss
  BY <1>15 DEF RedisLoss
<1>16. CASE UNCHANGED worker
  BY <1>16 DEF worker
<1> QED
  BY <1>1, <1>2, <1>3, <1>4, <1>5, <1>6, <1>7, <1>8, <1>9, <1>10, <1>11,
     <1>12, <1>13, <1>14, <1>15, <1>16, WorkerFrame

(* Every label the handlers go to makes a request record of the right type.    *)
LEMMA RequestTypeStep ==
  ASSUME IInv, Next
  PROVE  rq' \in [Handler -> Request]
<1> DEFINE Typed == rq' \in [Handler -> Request]
<1>1. rq \in [Handler -> Request]
  BY DEF IInv, TypeOK
<1>2. ASSUME NEW h \in Handler, NEW l \in Request, rq' = [rq EXCEPT ![h] = l]
      PROVE  Typed
  BY <1>1, <1>2
<1>3. Idle \in Request
  BY DEF Idle, Local, Request, Label
<1>4. ASSUME NEW h \in Handler, NEW label \in Label, NEW t \in Task, Receive(h, t, label)
      PROVE  Typed
  <2>1. row[t].status \in Open \cup Final \cup {"none"}
    BY DEF IInv, TypeOK, DbType
  <2>2. Local(label, t, row[t].status, "none", {}) \in Request
    BY <2>1 DEF Local, Request
  <2> QED
    BY <1>2, <1>4, <2>2 DEF Receive
<1>5. ASSUME NEW h \in Handler, rq[h].pc # "idle", NEW label \in Label,
             NEW o \in Outcome \cup {"none"}, NEW values \in SUBSET Asset,
             Continue(h, label, o, values)
      PROVE  Typed
  <2>1. Local(label, rq[h].task, rq[h].status, o, values) \in Request
    BY <1>5, RequestFacts DEF Local, Request
  <2> QED
    BY <1>2, <1>5, <2>1 DEF Continue
<1>6. ASSUME NEW h \in Handler, rq[h].pc # "idle", NEW label \in Label, Goto(h, label)
      PROVE  Typed
  <2>1. rq[h].out \in Outcome \cup {"none"} /\ rq[h].have \in SUBSET Asset
    BY <1>6, RequestFacts DEF Request
  <2> QED
    BY <1>5, <1>6, <2>1 DEF Goto
<1>7. ASSUME NEW h \in Handler, Return(h) PROVE Typed
  BY <1>2, <1>3, <1>7 DEF Return
<1>8. \A label \in {"enqueue", "result_info", "status", "mark", "assets", "store",
                    "commit", "kill_set", "kill_commit"} : label \in Label
  BY DEF Label
<1> HIDE DEF Typed
<1>9. ASSUME NEW h \in Handler, NEW t \in Task,
             EnqueueCommit(h, t) \/ PollRead(h, t) \/ KillRead(h, t)
      PROVE  Typed
  BY <1>4, <1>8, <1>9 DEF EnqueueCommit, PollRead, KillRead
<1>10. ASSUME NEW h \in Handler,
              \/ EnqueueJob(h) \/ PollMarkRunning(h) \/ PollCommit(h)
              \/ KillCommit(h) \/ HandlerCrash(h)
       PROVE  Typed
  BY <1>7, <1>10 DEF EnqueueJob, PollMarkRunning, PollCommit, KillCommit, HandlerCrash
<1>11. ASSUME NEW h \in Handler, PollResultInfo(h) PROVE Typed
  <2>1. rq[h].task \in Task /\ rq[h].pc # "idle"
    BY <1>11, RequestFacts DEF PollResultInfo, At
  <2>2. result[rq[h].task] \in Outcome \cup {"none"}
    BY <2>1 DEF IInv, TypeOK, RedisType, Outcome
  <2> QED
    BY <1>5, <1>6, <1>8, <1>11, <2>1, <2>2 DEF PollResultInfo
<1>12. ASSUME NEW h \in Handler, PollJobStatus(h) PROVE Typed
  <2>1. rq[h].pc # "idle" /\ "orphaned" \in Outcome
    BY <1>12 DEF PollJobStatus, At, Outcome
  <2> QED
    BY <1>5, <1>6, <1>7, <1>8, <1>12, <2>1 DEF PollJobStatus
<1>13. ASSUME NEW h \in Handler, PollAssets(h) PROVE Typed
  <2>1. rq[h].pc # "idle" /\ rq[h].out \in Outcome
    BY <1>13, RequestFacts DEF PollAssets, At
  <2>2. {a \in Found(rq[h].task, rq[h].out) : assets[a] > 0} \in SUBSET Asset
    BY DEF Found
  <2> QED
    BY <1>5, <1>8, <1>13, <2>1, <2>2 DEF PollAssets
<1>14. ASSUME NEW h \in Handler, PollStore(h) \/ KillSet(h) PROVE Typed
  BY <1>6, <1>8, <1>14 DEF PollStore, KillSet, At
<1>15. CASE UNCHANGED rq
  BY <1>1, <1>15 DEF Typed
<1> QED
  BY <1>9, <1>10, <1>11, <1>12, <1>13, <1>14, <1>15, RequestFrame DEF Typed

(* The types are inductive.                                                    *)
LEMMA TypeStep ==
  ASSUME IInv, Next
  PROVE  TypeOK'
<1>1. known' \subseteq Task
  BY HistoryFrame, RequestFacts DEF EnqueueJob, At, IInv, TypeOK
<1>2. asked' \subseteq Task
  BY HistoryFrame, RequestFacts DEF KillSet, At, IInv, TypeOK
<1>3. faults' \in Nat
  <2>1. faults' = faults \/ faults' = faults + 1
    <3>1. ASSUME FaultStep PROVE <2>1
      BY <3>1 DEF FaultStep, FaultIs, HandlerCrash, WorkerCrash, WorkerShutdown, RedisLoss,
                  WatchRaises, DeleteRaises, ResultExpire, CancelExpire
    <3>2. ASSUME NEW h \in Handler, Receives(h) \/ Handle(h) PROVE <2>1
      BY <3>2 DEF Receives, Handle, history, EnqueueCommit, PollRead, KillRead, EnqueueJob,
                  PollResultInfo, PollJobStatus, PollMarkRunning, PollAssets, PollStore,
                  PollCommit, KillSet, KillCommit
    <3>3. ASSUME NEW t \in Task, Run(t) PROVE <2>1
      BY <3>3 DEF Run, history, Leave, StartJob, FailAtOnce, ProcExit, WatchCancel,
                  CollectExit, KillProc, SubprocessTimeout, JobTimeout, DeleteFlag, FinishJob,
                  InProgressExpire
    <3>4. ASSUME WorkerStart \/ Purge PROVE <2>1
      BY <3>4 DEF WorkerStart, Purge, history
    <3> QED
      BY <3>1, <3>2, <3>3, <3>4 DEF Next
  <2> QED
    BY <2>1 DEF IInv, TypeOK
<1> QED
  BY <1>1, <1>2, <1>3, HurtStep, DbTypeStep, RedisTypeStep, WorkerTypeStep, RequestTypeStep
     DEF TypeOK

-------------------------------------------------------------------------------
(* Nothing runs unrecorded: only EnqueueJob brings a job to Redis, KillSet a     *)
(* flag, and both hold a committed row, or a purge took it; the worker takes    *)
(* what Redis has.                                                             *)
Present(t) ==
  \/ job[t] # "not_found" \/ coro[t] # "none" \/ proc[t] # "none"
  \/ t \in known \/ cancel[t] \/ ran[t] # {}

(* What is present was before, or its record is there.                         *)
LEMMA JobIsRecordedStep ==
  ASSUME IInv, Next
  PROVE  JobIsRecorded'
<1> DEFINE Backed(t) == "task.enqueue" \in audit[t] /\ (row[t].status # "none" \/ purged)
<1>1. \A t \in Task : Present(t) => Backed(t)
  BY DEF IInv, JobIsRecorded, Present
<1>2. \A t \in Task : Backed(t) => Backed(t)'
  BY NothingGoesAway DEF Grows, Purge
<1>3. \A t \in Task : Present(t)' => Present(t) \/ Backed(t)
  <2> HIDE DEF Backed
  <2> USE DEF IInv, TypeOK, RedisType, WorkerType
  <2>1. ASSUME NEW h \in Handler, EnqueueJob(h) \/ KillSet(h) PROVE <1>3
    <3>1. rq[h].task \in Task /\ Backed(rq[h].task)
      BY <2>1, RequestFacts DEF EnqueueJob, KillSet, At, Backed
    <3>2. \A t \in Task \ {rq[h].task} : Present(t)' => Present(t)
      BY <2>1, <3>1 DEF EnqueueJob, KillSet, Present, worker
    <3> QED
      BY <3>1, <3>2
  <2>2. ASSUME NEW t \in Task, StartJob(t) PROVE <1>3
    BY <2>2 DEF StartJob, Present, redis, worker
  <2>3. ASSUME NEW t \in Task, FailAtOnce(t) PROVE <1>3
    BY <2>3 DEF FailAtOnce, Present, redis, worker
  <2>4. ASSUME NEW t \in Task, ProcExit(t) PROVE <1>3
    BY <2>4 DEF ProcExit, Present, redis, worker
  <2>5. ASSUME NEW t \in Task, WatchCancel(t) PROVE <1>3
    BY <2>5 DEF WatchCancel, Present, redis, worker
  <2>6. ASSUME NEW t \in Task, CollectExit(t) PROVE <1>3
    BY <2>6 DEF CollectExit, Leave, Present, redis, worker
  <2>7. ASSUME NEW t \in Task, KillProc(t) PROVE <1>3
    BY <2>7 DEF KillProc, Leave, Present, redis, worker
  <2>8. ASSUME NEW t \in Task, SubprocessTimeout(t) PROVE <1>3
    BY <2>8 DEF SubprocessTimeout, Leave, Present, redis, worker
  <2>9. ASSUME NEW t \in Task, JobTimeout(t) PROVE <1>3
    BY <2>9 DEF JobTimeout, Present, redis, worker
  <2>10. ASSUME NEW t \in Task, DeleteFlag(t) PROVE <1>3
    BY <2>10 DEF DeleteFlag, Present, redis, worker
  <2>11. ASSUME NEW t \in Task, FinishJob(t) PROVE <1>3
    BY <2>11 DEF FinishJob, Present, redis, worker
  <2>12. ASSUME NEW t \in Task, InProgressExpire(t) PROVE <1>3
    BY <2>12 DEF InProgressExpire, Present, redis, worker
  <2>13. ASSUME NEW t \in Task, ResultExpire(t) PROVE <1>3
    BY <2>13 DEF ResultExpire, Present, redis, worker
  <2>14. ASSUME NEW t \in Task, CancelExpire(t) PROVE <1>3
    BY <2>14 DEF CancelExpire, Present, redis, worker
  <2>15. CASE WorkerStart
    BY <2>15 DEF WorkerStart, Present, redis, worker
  <2>16. CASE WorkerCrash
    BY <2>16 DEF WorkerCrash, WorkerGone, Active, Present, redis, worker
  <2>17. CASE WorkerShutdown
    BY <2>17 DEF WorkerShutdown, WorkerGone, Active, Present, redis, worker
  <2>18. CASE RedisLoss
    BY <2>18 DEF RedisLoss, Present, redis, worker
  <2>19. CASE UNCHANGED <<redis, worker, known>>
    BY <2>19 DEF Present, redis, worker
  <2>20. ASSUME NEW t \in Task, WatchRaises(t) PROVE <1>3
    BY <2>20 DEF WatchRaises, Present, redis, worker
  <2>21. ASSUME NEW t \in Task, DeleteRaises(t) PROVE <1>3
    BY <2>21 DEF DeleteRaises, Present, redis, worker
  <2>22. ASSUME Purge PROVE <1>3
    BY <2>22 DEF Purge, Present, redis, worker
  <2> QED
    BY <2>1, <2>2, <2>3, <2>4, <2>5, <2>6, <2>7, <2>8, <2>9, <2>10, <2>11,
       <2>12, <2>13, <2>14, <2>15, <2>16, <2>17, <2>18, <2>19,
       <2>20, <2>21, <2>22
       DEF Next, Receives, Handle, Run, FaultStep, EnqueueCommit, PollRead,
           KillRead, PollResultInfo, PollJobStatus, PollMarkRunning,
           PollAssets, PollStore, PollCommit, KillCommit, HandlerCrash
<1> QED
  BY <1>1, <1>2, <1>3 DEF JobIsRecorded, Present

(* A closed row keeps its evidence: only a poll's commit closes one, with the   *)
(* file it stored and the entry it writes; marking it running opens it again.   *)
LEMMA EvidenceStep ==
  ASSUME IInv, Next
  PROVE  ClosedRowHasEvidence'
<1> USE DEF IInv, TypeOK, DbType, ClosedRowHasEvidence
<1>1. ASSUME NEW h \in Handler, NEW t \in Task, EnqueueCommit(h, t)
      PROVE  ClosedRowHasEvidence'
  BY <1>1 DEF EnqueueCommit, Final
<1>2. ASSUME NEW h \in Handler, PollMarkRunning(h) PROVE ClosedRowHasEvidence'
  BY <1>2 DEF PollMarkRunning, Final
<1>3. ASSUME NEW h \in Handler, PollStore(h) PROVE ClosedRowHasEvidence'
  BY <1>3 DEF PollStore
<1>4. ASSUME NEW h \in Handler, PollCommit(h) PROVE ClosedRowHasEvidence'
  <2>1. /\ rq[h].task \in Task /\ rq[h].out \in Outcome
        /\ <<rq[h].task, rq[h].out>> \in vault
    BY <1>4, RequestFacts DEF PollCommit, At, Provenance, RequestsGrounded
  <2> QED
    BY <1>4, <2>1 DEF PollCommit
<1>5. ASSUME NEW h \in Handler, KillCommit(h) PROVE ClosedRowHasEvidence'
  BY <1>5 DEF KillCommit
<1>6. CASE Purge
  BY <1>6 DEF Purge, Final
<1>7. CASE UNCHANGED db
  BY <1>7 DEF db
<1> QED
  BY <1>1, <1>2, <1>3, <1>4, <1>5, <1>6, <1>7, DbFrame

(* A row closed as done or killed takes the status from a grounded request.     *)
LEMMA OutcomeStep ==
  ASSUME IInv, Next, AnswersEarned'
  PROVE  OutcomeIsReal'
<1> DEFINE Real(t) == row[t].status \in {"done", "killed"} => row[t].status \in ran[t]
<1>1. \A t \in Task : Real(t) /\ ran[t] \subseteq ran'[t]
  BY NothingGoesAway DEF IInv, OutcomeIsReal, Grows
<1>2. \A t \in Task : Real(t)'
  <2>1. ASSUME NEW h \in Handler, NEW t \in Task, EnqueueCommit(h, t) PROVE <1>2
    BY <1>1, <2>1 DEF EnqueueCommit, IInv, TypeOK, DbType
  <2>2. ASSUME NEW h \in Handler, PollMarkRunning(h) PROVE <1>2
    BY <1>1, <2>2 DEF PollMarkRunning, IInv, TypeOK, DbType
  <2>3. ASSUME NEW h \in Handler, PollCommit(h) PROVE <1>2
    <3>1. /\ rq[h].task \in Task
          /\ rq[h].out \in {"done", "killed"} => rq[h].out \in ran[rq[h].task]
      BY <2>3, RequestFacts DEF PollCommit, At, IInv, Provenance, RequestsGrounded
    <3> QED
      BY <1>1, <2>3, <3>1 DEF PollCommit, StatusOf, IInv, TypeOK, DbType
  <2>4. CASE UNCHANGED row
    BY <1>1, <2>4
  <2>5. CASE Purge
    BY <2>5 DEF Purge
  <2> QED
    BY <2>1, <2>2, <2>3, <2>4, <2>5, DbFrame DEF db, PollStore, KillCommit
<1>3. \A t \in Task : "killed" \in ran'[t] => t \in asked' \/ "watch" \in hurt'[t]
  BY DEF AnswersEarned
<1> QED
  BY <1>2, <1>3 DEF OutcomeIsReal

(* A watch that is done after Redis was lost had been, or raised.               *)
LEMMA WatchesBreak ==
  ASSUME RedisLoss
  PROVE  \A t \in Task : seen'[t] => seen[t] \/ "watch" \in hurt'[t]
<1>1. PICK broken \in SUBSET Task :
        /\ seen' = [t \in Task |-> seen[t] \/ t \in broken]
        /\ hurt' = [t \in Task |-> hurt[t] \cup {harm \in Harm :
                   \/ harm = "lost" /\ job[t] # "not_found"
                   \/ harm = "watch" /\ t \in broken}]
  BY DEF RedisLoss
<1> QED
  BY <1>1 DEF Harm

(* What is about to be returned, or is in Redis, comes from an attempt.         *)
LEMMA EarnedStep ==
  ASSUME IInv, Next
  PROVE  AnswersEarned'
<1> USE DEF IInv, TypeOK, RedisType, WorkerType, Provenance, AnswersEarned
<1>1. ASSUME NEW h \in Handler, EnqueueJob(h) \/ KillSet(h) PROVE AnswersEarned'
  BY <1>1, RequestFacts DEF EnqueueJob, KillSet, At, worker, history
<1>2. ASSUME NEW t \in Task, StartJob(t) PROVE AnswersEarned'
  BY <1>2 DEF StartJob, redis, worker, history
<1>3. ASSUME NEW t \in Task, FailAtOnce(t) PROVE AnswersEarned'
  BY <1>3 DEF FailAtOnce, redis, worker, history
<1>4. ASSUME NEW t \in Task, ProcExit(t) PROVE AnswersEarned'
  BY <1>4 DEF ProcExit, redis, worker, history
<1>5. ASSUME NEW t \in Task, WatchCancel(t) PROVE AnswersEarned'
  BY <1>5 DEF WatchCancel, redis, worker, history
<1>6. ASSUME NEW t \in Task, CollectExit(t) PROVE AnswersEarned'
  BY <1>6 DEF CollectExit, Leave, redis, worker, history
<1>7. ASSUME NEW t \in Task, KillProc(t) PROVE AnswersEarned'
  BY <1>7 DEF KillProc, Leave, redis, worker, history
<1>8. ASSUME NEW t \in Task, SubprocessTimeout(t) PROVE AnswersEarned'
  BY <1>8 DEF SubprocessTimeout, Leave, redis, worker, history
<1>9. ASSUME NEW t \in Task, JobTimeout(t) PROVE AnswersEarned'
  BY <1>9 DEF JobTimeout, redis, worker, history
<1>10. ASSUME NEW t \in Task, DeleteFlag(t) PROVE AnswersEarned'
  BY <1>10 DEF DeleteFlag, redis, worker, history
<1>11. ASSUME NEW t \in Task, FinishJob(t) PROVE AnswersEarned'
  BY <1>11 DEF FinishJob, redis, worker, history
<1>12. ASSUME NEW t \in Task, InProgressExpire(t) PROVE AnswersEarned'
  BY <1>12 DEF InProgressExpire, redis, worker, history
<1>13. ASSUME NEW t \in Task, ResultExpire(t) PROVE AnswersEarned'
  BY <1>13 DEF ResultExpire, Hurts, redis, worker
<1>14. ASSUME NEW t \in Task, CancelExpire(t) PROVE AnswersEarned'
  BY <1>14 DEF CancelExpire, redis, worker, history
<1>15. CASE WorkerStart
  BY <1>15 DEF WorkerStart, redis, worker, history
<1>16. CASE WorkerCrash
  BY <1>16 DEF WorkerCrash, WorkerGone, Active, redis, worker, history
<1>17. CASE WorkerShutdown
  BY <1>17 DEF WorkerShutdown, WorkerGone, Active, redis, worker, history
<1>18. CASE RedisLoss
  <2>2. \A t \in Task : seen'[t] => seen[t] \/ "watch" \in hurt'[t]
    BY <1>18, WatchesBreak
  <2>3. /\ \A t \in Task : hurt[t] \subseteq hurt'[t]
        /\ \A t \in Task : ~cancel'[t] /\ job'[t] = "not_found" /\ result'[t] = "none"
        /\ UNCHANGED <<coro, out, ran, asked>>
    BY <1>18, HurtStep DEF RedisLoss
  <2> QED
    BY <2>2, <2>3
<1>19. ASSUME UNCHANGED <<redis, worker, asked>> PROVE AnswersEarned'
  BY <1>19, HurtStep DEF redis, worker
<1>20. ASSUME NEW t \in Task, WatchRaises(t) PROVE AnswersEarned'
  BY <1>20 DEF WatchRaises, Hurts, redis, worker, Harm
<1>21. ASSUME NEW t \in Task, DeleteRaises(t) PROVE AnswersEarned'
  BY <1>21 DEF DeleteRaises, redis, worker, history
<1> QED
  BY <1>1, <1>2, <1>3, <1>4, <1>5, <1>6, <1>7, <1>8, <1>9, <1>10, <1>11,
     <1>12, <1>13, <1>14, <1>15, <1>16, <1>17, <1>18, <1>19, <1>20, <1>21
     DEF Next, Receives, Handle, Run, FaultStep, EnqueueCommit, PollRead,
         KillRead, PollResultInfo, PollJobStatus, PollMarkRunning, PollAssets,
         PollStore, PollCommit, KillCommit, HandlerCrash, Purge

(* RequestsGrounded of one request, over the state it depends on.               *)
Grounded(l, gone, rows, entries, attempts, files) ==
  l.pc # "idle" =>
    /\ l.task \in Task
    /\ rows[l.task].status # "none" \/ (gone /\ l.pc = "enqueue")
    /\ "task.enqueue" \in entries[l.task]
    /\ l.pc \in {"assets", "store", "commit"} => l.out \in Outcome
    /\ l.out \in {"done", "killed"} => l.out \in attempts[l.task]
    /\ l.pc = "mark" => l.status = "queued"
    /\ l.pc = "commit" => <<l.task, l.out>> \in files

(* A request stays grounded while others act, because nothing goes away; and    *)
(* each of its own steps grounds the next.                                      *)
LEMMA GroundedStep ==
  ASSUME IInv, Next
  PROVE  RequestsGrounded'
<1> DEFINE Now(l) == Grounded(l, purged, row, audit, ran, vault)
           Then(l) == Grounded(l, purged', row', audit', ran', vault')
<1>1. \A h \in Handler : Now(rq[h])
  BY DEF IInv, Provenance, RequestsGrounded, Grounded
<1>0. CASE Purge
  <2>1. /\ \A h \in Handler : rq[h].pc # "idle" => rq[h].pc = "enqueue"
        /\ UNCHANGED <<rq, audit, ran, vault>> /\ purged'
    BY <1>0 DEF Purge, worker
  <2>2. \A h \in Handler : Then(rq'[h])
    BY <1>1, <2>1 DEF Grounded
  <2> QED
    BY <2>2 DEF RequestsGrounded, Grounded
<1> SUFFICES ASSUME ~Purge PROVE RequestsGrounded'
  BY <1>0
<1>2. \A l \in Request : Now(l) => Then(l)
  BY NothingGoesAway DEF Grows, Grounded
<1>3. rq \in [Handler -> Request]
  BY DEF IInv, TypeOK
<1>4. ASSUME NEW h \in Handler, NEW l, rq' = [rq EXCEPT ![h] = l], Then(l)
      PROVE  RequestsGrounded'
  <2>1. \A g \in Handler \ {h} : Then(rq'[g])
    BY <1>1, <1>2, <1>3, <1>4
  <2>2. Then(rq'[h])
    BY <1>3, <1>4
  <2> QED
    BY <2>1, <2>2 DEF RequestsGrounded, Grounded
<1>5. Then(Idle)
  BY DEF Grounded, Idle, Local
<1>6. ASSUME NEW h \in Handler, NEW t \in Task, EnqueueCommit(h, t)
      PROVE  RequestsGrounded'
  <2>1. Then(Local("enqueue", t, row[t].status, "none", {}))
    BY <1>6 DEF EnqueueCommit, Grounded, Local, IInv, TypeOK, DbType
  <2> QED
    BY <1>4, <1>6, <2>1 DEF EnqueueCommit, Receive
<1>7. ASSUME NEW h \in Handler, NEW t \in Task, PollRead(h, t) \/ KillRead(h, t)
      PROVE  RequestsGrounded'
  <2>1. row[t].status # "none" /\ "task.enqueue" \in audit[t] /\ UNCHANGED <<row, audit>>
    BY <1>7 DEF PollRead, KillRead, IInv, JobIsRecorded, db, Open
  <2>2. \A label \in {"result_info", "kill_set"} :
          Then(Local(label, t, row[t].status, "none", {}))
    BY <2>1 DEF Grounded, Local
  <2> QED
    BY <1>4, <1>7, <2>2 DEF PollRead, KillRead, Receive
<1>8. ASSUME NEW h \in Handler, rq[h].pc \notin {"idle", "enqueue"},
             NEW label \in {"status", "mark", "kill_commit"}, Goto(h, label),
             label = "mark" => rq[h].status = "queued"
      PROVE  RequestsGrounded'
  <2>1. Then(rq[h])
    BY <1>1, <1>2, <1>3
  <2>2. Then(Local(label, rq[h].task, rq[h].status, rq[h].out, rq[h].have))
    BY <1>8, <2>1 DEF Grounded, Local
  <2> QED
    BY <1>4, <1>8, <2>2 DEF Goto, Continue
<1>9. ASSUME NEW h \in Handler, Return(h) PROVE RequestsGrounded'
  BY <1>4, <1>5, <1>9 DEF Return
<1>10. ASSUME NEW h \in Handler,
              \/ EnqueueJob(h) \/ PollMarkRunning(h) \/ PollCommit(h)
              \/ KillCommit(h) \/ HandlerCrash(h)
       PROVE  RequestsGrounded'
  BY <1>9, <1>10 DEF EnqueueJob, PollMarkRunning, PollCommit, KillCommit, HandlerCrash
<1>11. ASSUME NEW h \in Handler, PollResultInfo(h) PROVE RequestsGrounded'
  <2> DEFINE t == rq[h].task
             l == Local("assets", t, rq[h].status, result[t], {})
  <2>1. rq[h].pc = "result_info" /\ t \in Task /\ Then(rq[h])
    BY <1>1, <1>2, <1>3, <1>11, RequestFacts DEF PollResultInfo, At
  <2>2. CASE job[t] = "complete" /\ Continue(h, "assets", result[t], {})
    <3>1. /\ result[t] \in Outcome
          /\ result[t] \in {"done", "killed"} => result[t] \in ran[t]
      BY <2>1, <2>2 DEF IInv, TypeOK, RedisType, Provenance, AnswersEarned, Outcome
    <3>2. Then(l)
      BY <1>11, <2>1, <3>1 DEF PollResultInfo, Grounded, Local, db, worker
    <3> QED
      BY <1>4, <2>2, <3>2 DEF Continue
  <2>3. CASE Goto(h, "status")
    BY <1>8, <2>1, <2>3
  <2> QED
    BY <1>11, <2>2, <2>3 DEF PollResultInfo
<1>12. ASSUME NEW h \in Handler, PollJobStatus(h) PROVE RequestsGrounded'
  <2>1. rq[h].pc = "status" /\ Then(rq[h])
    BY <1>1, <1>2, <1>3, <1>12 DEF PollJobStatus, At
  <2>2. Then(Local("store", rq[h].task, rq[h].status, "orphaned", {}))
    BY <2>1 DEF Grounded, Local, Outcome
  <2>3. CASE Continue(h, "store", "orphaned", {})
    BY <1>4, <2>2, <2>3 DEF Continue
  <2> QED
    BY <1>8, <1>9, <1>12, <2>1, <2>3 DEF PollJobStatus
<1>13. ASSUME NEW h \in Handler, PollAssets(h) PROVE RequestsGrounded'
  <2>1. rq[h].pc = "assets" /\ Then(rq[h])
    BY <1>1, <1>2, <1>3, <1>13 DEF PollAssets, At
  <2>2. \A values : Then(Local("store", rq[h].task, rq[h].status, rq[h].out, values))
    BY <2>1 DEF Grounded, Local
  <2> QED
    BY <1>4, <1>13, <2>2 DEF PollAssets, Continue
<1>14. ASSUME NEW h \in Handler, PollStore(h) PROVE RequestsGrounded'
  <2>1. rq[h].pc = "store" /\ Then(rq[h])
    BY <1>1, <1>2, <1>3, <1>14 DEF PollStore, At
  <2>2. <<rq[h].task, rq[h].out>> \in vault'
    BY <1>14 DEF PollStore
  <2>3. Then(Local("commit", rq[h].task, rq[h].status, rq[h].out, rq[h].have))
    BY <2>1, <2>2 DEF Grounded, Local
  <2> QED
    BY <1>4, <1>14, <2>3 DEF PollStore, Goto, Continue
<1>15. ASSUME NEW h \in Handler, KillSet(h) PROVE RequestsGrounded'
  BY <1>8, <1>15 DEF KillSet, At
<1>16. CASE UNCHANGED rq
  BY <1>1, <1>2, <1>3, <1>16 DEF RequestsGrounded, Grounded
<1> QED
  BY <1>6, <1>7, <1>10, <1>11, <1>12, <1>13, <1>14, <1>15, <1>16, RequestFrame

(* A purge leaves no row, and none comes after it.                             *)
LEMMA GoneStep ==
  ASSUME IInv, Next
  PROVE  PurgedIsGone'
<1> USE DEF IInv, PurgedIsGone
<1>1. CASE Purge
  BY <1>1 DEF Purge
<1>2. ASSUME NEW h \in Handler, PollMarkRunning(h) \/ PollCommit(h) PROVE ~purged
  BY <1>2, RequestFacts DEF PollMarkRunning, PollCommit, At
<1>3. ASSUME UNCHANGED <<purged, row>> PROVE PurgedIsGone'
  BY <1>3
<1>4. ASSUME ~purged, UNCHANGED purged PROVE PurgedIsGone'
  BY <1>4
<1> HIDE DEF PurgedIsGone
<1> QED
  BY <1>1, <1>2, <1>3, <1>4, DbFrame
     DEF EnqueueCommit, PollMarkRunning, PollStore, PollCommit, KillCommit, db

-------------------------------------------------------------------------------
(* The first states satisfy the inductive invariant.                           *)
LEMMA InitIInv == Init => IInv
<1>1. Init => DbType
  <2>1. Init => row \in [Task -> [status : Open \cup Final \cup {"none"},
                                 output_ref : Outcome \cup {NoRef}]]
    BY DEF Init
  <2>2. Init => assets \in [Asset -> Nat]
    BY DEF Init
  <2>3. Init => audit \in [Task -> SUBSET (Outcome \cup {"task.enqueue", "task.kill"})]
    BY DEF Init
  <2> QED
    BY <2>1, <2>2, <2>3 DEF Init, DbType
<1>2. Init => RedisType /\ WorkerType
  BY DEF Init, RedisType, WorkerType, Final
<1>3. Idle \in Request
  BY DEF Idle, Local, Request, Label
<1>4. Init => TypeOK
  BY <1>1, <1>2, <1>3 DEF Init, TypeOK
<1>5. Init => JobIsRecorded /\ ClosedRowHasEvidence /\ OutcomeIsReal /\ PurgedIsGone
  BY DEF Init, JobIsRecorded, ClosedRowHasEvidence, OutcomeIsReal, PurgedIsGone, Final
<1>6. Init => Provenance
  BY DEF Init, Provenance, AnswersEarned, RequestsGrounded, Idle, Local
<1> QED
  BY <1>4, <1>5, <1>6 DEF IInv

(* The inductive invariant holds in every reachable state.                     *)
THEOREM Invariance == Spec => []IInv
<1>1. IInv /\ [Next]_vars => IInv'
  <2>1. ASSUME IInv, Next PROVE IInv'
    BY <2>1, TypeStep, JobIsRecordedStep, EvidenceStep, EarnedStep, OutcomeStep,
       GroundedStep, GoneStep
       DEF IInv, Provenance
  <2>2. ASSUME IInv, UNCHANGED vars PROVE IInv'
    BY <2>2 DEF vars, db, redis, worker, history, IInv, TypeOK, DbType, RedisType,
                WorkerType, PurgedIsGone, JobIsRecorded, ClosedRowHasEvidence, OutcomeIsReal,
                Provenance, AnswersEarned, RequestsGrounded
  <2> QED
    BY <2>1, <2>2
<1> QED
  BY <1>1, InitIInv, PTL DEF Spec

(* Every variable keeps its type.                                              *)
THEOREM TypeCorrect == Spec => []TypeOK
BY Invariance, PTL DEF IInv

(* No subprocess, job, flag or known id but of an audited request, whose row     *)
(* only a purge takes.                                                         *)
THEOREM NothingRunsUnrecorded == Spec => []JobIsRecorded
BY Invariance, PTL DEF IInv

(* Every closed row has its file and its audit entry, whatever polls raced or   *)
(* crashed.                                                                     *)
THEOREM ClosedRowsAreBacked == Spec => []ClosedRowHasEvidence
BY Invariance, PTL DEF IInv

(* A row says done or killed only if an attempt ended so, and killed only if     *)
(* asked, or if the watch of that job raised.                                  *)
THEOREM OutcomesAreReal == Spec => []OutcomeIsReal
BY Invariance, PTL DEF IInv

-------------------------------------------------------------------------------
(* What a fault did to a task, no other explains: the entry of a kill and the    *)
(* jobs that Redis forgot.                                                      *)

(* The entry of a kill is written, or its handler is about to write it.         *)
Announced(t) ==
  "task.kill" \in audit[t] \/ \E h \in Handler : rq[h].task = t /\ rq[h].pc = "kill_commit"

(* A kill that was asked is announced, or its handler died at that point; a      *)
(* task that clients know has a job, or Redis lost it, and only such a task is  *)
(* taken for an orphan.                                                         *)
Losses ==
  /\ \A t \in asked : Announced(t) \/ "kill" \in hurt[t]
  /\ \A t \in known : job[t] # "not_found" \/ "lost" \in hurt[t]
  /\ \A t \in Task : row[t].output_ref = "orphaned" => "lost" \in hurt[t]
  /\ \A h \in Handler :
       /\ rq[h].pc \in {"result_info", "status"} => rq[h].task \in known
       /\ rq[h].pc # "idle" /\ rq[h].out = "orphaned" => "lost" \in hurt[rq[h].task]

(* A handler that set a flag goes on to the entry of its kill; only writing it   *)
(* or dying takes it away from there.                                           *)
LEMMA AnnouncedStep ==
  ASSUME IInv, Next, Losses
  PROVE  \A t \in asked' : Announced(t)' \/ "kill" \in hurt'[t]
<1> DEFINE Goal == \A t \in asked' : Announced(t)' \/ "kill" \in hurt'[t]
<1>1. /\ rq \in [Handler -> Request] /\ asked \subseteq Task
      /\ audit \in [Task -> SUBSET (Outcome \cup {"task.enqueue", "task.kill"})]
  BY DEF IInv, TypeOK, DbType
<1>2. \A t \in asked : Announced(t) \/ "kill" \in hurt[t]
  BY DEF Losses
<1>3. \A t \in Task : /\ "task.kill" \in audit[t] => "task.kill" \in audit'[t]
                      /\ "kill" \in hurt[t] => "kill" \in hurt'[t]
  BY NothingGoesAway DEF Grows
<1>4. ASSUME NEW h \in Handler, KillSet(h) PROVE Goal
  <2>1. rq'[h].task = rq[h].task /\ rq'[h].pc = "kill_commit"
    BY <1>1, <1>4 DEF KillSet, Goto, Continue, Local
  <2>2. \A g \in Handler : rq[g].pc = "kill_commit" => rq'[g] = rq[g]
    BY <1>1, <1>4 DEF KillSet, At, Goto, Continue, Local
  <2>3. asked' = asked \cup {rq[h].task}
    BY <1>4 DEF KillSet
  <2> QED
    BY <1>1, <1>2, <1>3, <2>1, <2>2, <2>3 DEF Announced
<1>5. ASSUME asked' = asked,
             \A g \in Handler : rq[g].pc = "kill_commit" => rq'[g] = rq[g]
      PROVE  Goal
  BY <1>1, <1>2, <1>3, <1>5 DEF Announced
<1>6. ASSUME NEW h \in Handler, asked' = asked, \A g \in Handler \ {h} : rq'[g] = rq[g],
             "task.kill" \in audit'[rq[h].task] \/ "kill" \in hurt'[rq[h].task]
      PROVE  Goal
  BY <1>1, <1>2, <1>3, <1>6 DEF Announced
<1> HIDE DEF Goal
<1>7. ASSUME NEW h \in Handler, KillCommit(h) PROVE Goal
  <2>1. rq[h].task \in Task
    BY <1>7, RequestFacts DEF KillCommit, At
  <2>2. "task.kill" \in audit'[rq[h].task]
    BY <1>1, <1>7, <2>1 DEF KillCommit
  <2>3. asked' = asked /\ \A g \in Handler \ {h} : rq'[g] = rq[g]
    BY <1>1, <1>7 DEF KillCommit, Return
  <2> QED
    BY <1>6, <2>2, <2>3
<1>8. ASSUME NEW h \in Handler, NEW l, rq' = [rq EXCEPT ![h] = l], ~At(h, "kill_commit"),
             asked' = asked
      PROVE  Goal
  BY <1>1, <1>5, <1>8 DEF At
<1>9. ASSUME NEW h \in Handler, HandlerCrash(h) PROVE Goal
  <2>1. CASE At(h, "kill_commit")
    <3>1. rq[h].task \in Task /\ hurt \in [Task -> SUBSET Harm]
      BY <2>1, RequestFacts DEF At, IInv, TypeOK
    <3>2. "kill" \in hurt'[rq[h].task]
      BY <1>9, <2>1, <3>1 DEF HandlerCrash, Hurts
    <3>3. asked' = asked /\ \A g \in Handler \ {h} : rq'[g] = rq[g]
      BY <1>1, <1>9 DEF HandlerCrash, Return
    <3> QED
      BY <1>6, <3>2, <3>3
  <2>2. CASE ~At(h, "kill_commit")
    BY <1>8, <1>9, <2>2 DEF HandlerCrash, Return
  <2> QED
    BY <2>1, <2>2
<1>10. ASSUME NEW h \in Handler,
              (\E t \in Task : EnqueueCommit(h, t) \/ PollRead(h, t) \/ KillRead(h, t))
       PROVE  Goal
  BY <1>8, <1>10 DEF EnqueueCommit, PollRead, KillRead, Receive, At
<1>11. ASSUME NEW h \in Handler,
              \/ EnqueueJob(h) \/ PollResultInfo(h) \/ PollJobStatus(h)
              \/ PollMarkRunning(h) \/ PollAssets(h) \/ PollStore(h) \/ PollCommit(h)
       PROVE  Goal
  BY <1>8, <1>11
     DEF At, EnqueueJob, PollResultInfo, PollJobStatus, PollMarkRunning, PollAssets,
         PollStore, PollCommit, Return, Goto, Continue
<1>12. ASSUME UNCHANGED rq PROVE Goal
  <2>1. ~\E h \in Handler : KillSet(h)
    BY <1>1, <1>12 DEF KillSet, At, Goto, Continue, Local
  <2> QED
    BY <1>5, <1>12, <2>1, HistoryFrame
<1> QED
  BY <1>4, <1>7, <1>9, <1>10, <1>11, <1>12, RequestFrame DEF Goal

(* Redis forgets a job that a client knows only by losing it.                   *)
LEMMA KnownStep ==
  ASSUME IInv, Next, Losses
  PROVE  \A t \in known' : job'[t] # "not_found" \/ "lost" \in hurt'[t]
<1> DEFINE Goal == \A t \in known' : job'[t] # "not_found" \/ "lost" \in hurt'[t]
<1>1. /\ known \subseteq Task
      /\ \A t \in known : job[t] # "not_found" \/ "lost" \in hurt[t]
  BY DEF Losses, IInv, TypeOK
<1>2. /\ job \in [Task -> {"not_found", "queued", "in_progress", "complete"}]
      /\ hurt \in [Task -> SUBSET Harm]
  BY DEF IInv, TypeOK, RedisType
<1>3. \A t \in Task : hurt[t] \subseteq hurt'[t]
  BY HurtStep
<1>4. ASSUME NEW h \in Handler, EnqueueJob(h) PROVE Goal
  <2>1. rq[h].task \in Task
    BY <1>4, RequestFacts DEF EnqueueJob, At
  <2> QED
    BY <1>1, <1>2, <1>3, <1>4, <2>1 DEF EnqueueJob
<1>5. ASSUME NEW t \in Task, NEW s \in {"queued", "in_progress", "complete"},
             job' = [job EXCEPT ![t] = s], known' = known
      PROVE  Goal
  BY <1>1, <1>2, <1>3, <1>5
<1>6. ASSUME UNCHANGED <<job, known>> PROVE Goal
  BY <1>1, <1>3, <1>6
<1>7. ASSUME known' = known,
             \A t \in Task : job'[t] = "not_found" /\ job[t] # "not_found"
                             => "lost" \in hurt'[t]
      PROVE  Goal
  BY <1>1, <1>3, <1>7
<1> HIDE DEF Goal
<1>8. ASSUME NEW t \in Task,
             StartJob(t) \/ FailAtOnce(t) \/ FinishJob(t) \/ InProgressExpire(t)
      PROVE  Goal
  BY <1>5, <1>8 DEF StartJob, FailAtOnce, FinishJob, InProgressExpire
<1>9. ASSUME NEW t \in Task, ResultExpire(t) PROVE Goal
  <2>1. "lost" \in hurt'[t] /\ \A u \in Task \ {t} : job'[u] = job[u]
    BY <1>2, <1>9 DEF ResultExpire, Hurts
  <2> QED
    BY <1>7, <1>9, <2>1 DEF ResultExpire
<1>10. ASSUME RedisLoss PROVE Goal
  <2>1. PICK broken \in SUBSET Task :
          hurt' = [t \in Task |-> hurt[t] \cup {harm \in Harm :
                     \/ harm = "lost" /\ job[t] # "not_found"
                     \/ harm = "watch" /\ t \in broken}]
    BY <1>10 DEF RedisLoss
  <2>2. \A t \in Task : job[t] # "not_found" => "lost" \in hurt'[t]
    BY <2>1 DEF Harm
  <2> QED
    BY <1>7, <1>10, <2>2 DEF RedisLoss
<1>11. ASSUME WorkerCrash \/ WorkerShutdown PROVE Goal
  <2>1. known' = known /\ \A t \in Task : job'[t] = "not_found" => job[t] = "not_found"
    BY <1>2, <1>11 DEF WorkerCrash, WorkerShutdown, WorkerGone
  <2> QED
    BY <1>7, <2>1
<1>12. ASSUME NEW h \in Handler, KillSet(h) PROVE UNCHANGED <<job, known>>
  BY <1>12 DEF KillSet
<1>13. ASSUME NEW t \in Task, DeleteFlag(t) \/ DeleteRaises(t) \/ CancelExpire(t)
       PROVE  UNCHANGED <<job, known>>
  BY <1>13 DEF DeleteFlag, DeleteRaises, CancelExpire
<1>14. UNCHANGED redis => UNCHANGED job
  BY DEF redis
<1>15. CASE ~\E h \in Handler : EnqueueJob(h)
  <2>1. known' = known
    BY <1>15, HistoryFrame
  <2> QED
    BY <1>6, <1>8, <1>9, <1>10, <1>11, <1>12, <1>13, <1>14, <1>15, <2>1, RedisFrame DEF Goal
<1> QED
  BY <1>4, <1>15 DEF Goal

(* A row is closed as an orphan's only by a request that took it for one.       *)
LEMMA OrphanStep ==
  ASSUME IInv, Next, Losses
  PROVE  \A t \in Task : row'[t].output_ref = "orphaned" => "lost" \in hurt'[t]
<1> DEFINE Goal == \A t \in Task : row'[t].output_ref = "orphaned" => "lost" \in hurt'[t]
<1>1. \A t \in Task : row[t].output_ref = "orphaned" => "lost" \in hurt'[t]
  BY HurtStep DEF Losses
<1>2. row \in [Task -> [status : Open \cup Final \cup {"none"},
                        output_ref : Outcome \cup {NoRef}]]
  BY DEF IInv, TypeOK, DbType
<1>3. ASSUME NEW h \in Handler, NEW t \in Task, EnqueueCommit(h, t) PROVE Goal
  BY <1>1, <1>2, <1>3, TaskAssumption DEF EnqueueCommit
<1>4. ASSUME NEW h \in Handler, PollMarkRunning(h) PROVE Goal
  BY <1>1, <1>2, <1>4 DEF PollMarkRunning
<1>5. ASSUME NEW h \in Handler, PollCommit(h) PROVE Goal
  <2>1. rq[h].task \in Task /\ (rq[h].out = "orphaned" => "lost" \in hurt'[rq[h].task])
    BY <1>5, HurtStep, RequestFacts DEF PollCommit, At, Losses
  <2> QED
    BY <1>1, <1>2, <1>5, <2>1 DEF PollCommit
<1>6. ASSUME Purge PROVE Goal
  BY <1>6, TaskAssumption DEF Purge
<1>7. ASSUME row' = row PROVE Goal
  BY <1>1, <1>7
<1> QED
  BY <1>3, <1>4, <1>5, <1>6, <1>7, DbFrame DEF PollStore, KillCommit, db

(* What Losses says of one request, over the state it depends on.               *)
Asking(l, ids, harms) ==
  /\ l.pc \in {"result_info", "status"} => l.task \in ids
  /\ l.pc # "idle" /\ l.out = "orphaned" => "lost" \in harms[l.task]

(* A request asks Redis about a task clients know, and takes for an orphan only   *)
(* one that Redis lost.                                                         *)
LEMMA AskingStep ==
  ASSUME IInv, Next, Losses
  PROVE  \A h \in Handler : Asking(rq'[h], known', hurt')
<1> DEFINE Fine(l) == Asking(l, known', hurt')
           Goal == \A h \in Handler : Fine(rq'[h])
<1>1. rq \in [Handler -> Request] /\ known \subseteq known'
  BY HistoryFrame DEF IInv, TypeOK, EnqueueJob
<1>2. \A h \in Handler : Fine(rq[h])
  <2>1. \A t \in Task : hurt[t] \subseteq hurt'[t]
    BY HurtStep
  <2> QED
    BY <1>1, <2>1, RequestFacts DEF Losses, Asking
<1>3. ASSUME NEW h \in Handler, NEW l, rq' = [rq EXCEPT ![h] = l], Fine(l) PROVE Goal
  <2>1. \A g \in Handler \ {h} : rq'[g] = rq[g]
    BY <1>1, <1>3
  <2>2. rq'[h] = l
    BY <1>1, <1>3
  <2> QED
    BY <1>2, <1>3, <2>1, <2>2
<1>4. Fine(Idle)
  BY DEF Idle, Local, Asking
<1>5. ASSUME NEW h \in Handler, NEW t \in known, NEW label \in Label, Receive(h, t, label)
      PROVE  Goal
  <2>1. Fine(Local(label, t, row[t].status, "none", {}))
    BY <1>1 DEF Local, Asking
  <2> QED
    BY <1>3, <1>5, <2>1 DEF Receive
<1>6. ASSUME NEW h \in Handler, NEW t \in Task, EnqueueCommit(h, t) PROVE Goal
  <2>1. Fine(Local("enqueue", t, row[t].status, "none", {}))
    BY DEF Local, Asking
  <2> QED
    BY <1>3, <1>6, <2>1 DEF EnqueueCommit, Receive
<1>7. ASSUME NEW h \in Handler, NEW label \in Label \ {"result_info", "status"},
             NEW o, o = "orphaned" => "lost" \in hurt'[rq[h].task], NEW values,
             Continue(h, label, o, values)
      PROVE  Goal
  <2>1. Fine(Local(label, rq[h].task, rq[h].status, o, values))
    BY <1>7 DEF Local, Asking
  <2> QED
    BY <1>3, <1>7, <2>1 DEF Continue
<1>8. ASSUME NEW h \in Handler, rq[h].pc # "idle", NEW label \in Label, Goto(h, label),
             label \in {"result_info", "status"} => rq[h].pc = "result_info"
      PROVE  Goal
  <2>1. Fine(rq[h])
    BY <1>2
  <2>2. Fine(Local(label, rq[h].task, rq[h].status, rq[h].out, rq[h].have))
    BY <1>8, <2>1 DEF Local, Asking
  <2> QED
    BY <1>3, <1>8, <2>2 DEF Goto, Continue
<1>9. ASSUME NEW h \in Handler, Return(h) PROVE Goal
  BY <1>3, <1>4, <1>9 DEF Return
<1>10. ASSUME UNCHANGED rq PROVE Goal
  BY <1>2, <1>10
<1>11. \A label \in {"result_info", "status", "mark", "assets", "store", "commit",
                     "kill_set", "kill_commit"} : label \in Label
  BY DEF Label
<1> HIDE DEF Goal, Fine
<1>12. ASSUME NEW h \in Handler, NEW t \in Task, PollRead(h, t) \/ KillRead(h, t) PROVE Goal
  BY <1>5, <1>11, <1>12 DEF PollRead, KillRead
<1>13. ASSUME NEW h \in Handler,
              \/ EnqueueJob(h) \/ PollMarkRunning(h) \/ PollCommit(h) \/ KillCommit(h)
              \/ HandlerCrash(h)
      PROVE  Goal
  BY <1>9, <1>13 DEF EnqueueJob, PollMarkRunning, PollCommit, KillCommit, HandlerCrash
<1>14. ASSUME NEW h \in Handler, PollResultInfo(h) PROVE Goal
  <2>1. rq[h].pc = "result_info" /\ rq[h].task \in Task
    BY <1>14, RequestFacts DEF PollResultInfo, At
  <2>2. result[rq[h].task] # "orphaned"
    BY <2>1 DEF IInv, TypeOK, RedisType, Final
  <2> QED
    BY <1>7, <1>8, <1>11, <1>14, <2>1, <2>2 DEF PollResultInfo
<1>15. ASSUME NEW h \in Handler, PollJobStatus(h) PROVE Goal
  <2>1. rq[h].pc = "status" /\ rq[h].task \in Task /\ rq[h].task \in known
    BY <1>15, RequestFacts DEF PollJobStatus, At, Losses
  <2>2. job[rq[h].task] = "not_found" => "lost" \in hurt'[rq[h].task]
    BY <2>1, HurtStep DEF Losses
  <2>3. CASE job[rq[h].task] = "not_found" /\ Continue(h, "store", "orphaned", {})
    BY <1>7, <1>11, <2>2, <2>3
  <2> QED
    BY <1>8, <1>9, <1>11, <1>15, <2>1, <2>3 DEF PollJobStatus
<1>16. ASSUME NEW h \in Handler, PollAssets(h) PROVE Goal
  <2>1. rq[h].pc = "assets"
    BY <1>16 DEF PollAssets, At
  <2>2. rq[h].out = "orphaned" => "lost" \in hurt'[rq[h].task]
    BY <1>2, <2>1 DEF Fine, Asking
  <2> QED
    BY <1>7, <1>11, <1>16, <2>2 DEF PollAssets
<1>17. ASSUME NEW h \in Handler, PollStore(h) \/ KillSet(h) PROVE Goal
  BY <1>8, <1>11, <1>17 DEF PollStore, KillSet, At
<1> QED
  BY <1>6, <1>10, <1>12, <1>13, <1>14, <1>15, <1>16, <1>17, RequestFrame DEF Goal, Fine

(* Every absence has its fault in every reachable state.                        *)
THEOREM LossesHold == Spec => []Losses
<1>1. Init => Losses
  BY TaskAssumption DEF Init, Losses, Idle, Local
<1>2. IInv /\ Losses /\ [Next]_vars => Losses'
  <2>1. ASSUME IInv, Losses, Next PROVE Losses'
    BY <2>1, AnnouncedStep, KnownStep, OrphanStep, AskingStep DEF Losses, Asking
  <2>2. ASSUME Losses, UNCHANGED vars PROVE Losses'
    BY <2>2 DEF vars, db, redis, worker, history, Losses, Announced
  <2> QED
    BY <2>1, <2>2
<1> QED
  BY <1>1, <1>2, Invariance, PTL DEF Spec

(* A process killed is a kill audited: `task.kill` is in the log of every task   *)
(* an attempt of which ended as killed, or its handler is at the commit, unless  *)
(* the handler of a kill of that task died there or the watch of its job raised. *)
THEOREM KillsAreAudited == Spec => []KillIsAudited
<1>1. IInv /\ Losses => KillIsAudited
  <2> SUFFICES ASSUME IInv, Losses, NEW t \in Task, "killed" \in ran[t],
                      "watch" \notin hurt[t]
               PROVE  Announced(t) \/ "kill" \in hurt[t]
    BY DEF KillIsAudited, Announced
  <2>1. t \in asked
    BY DEF IInv, Provenance, AnswersEarned
  <2> QED
    BY <2>1 DEF Losses
<1> QED
  BY <1>1, Invariance, LossesHold, PTL

(* A task is closed as an orphan's only if Redis lost its job or its result,      *)
(* whatever polls asked and however their two questions to Redis were cut by    *)
(* the worker's steps.                                                          *)
THEOREM OrphansAreForgotten == Spec => []OrphanWasForgotten
<1>1. Losses => OrphanWasForgotten
  BY DEF Losses, OrphanWasForgotten
<1> QED
  BY <1>1, LossesHold, PTL

-------------------------------------------------------------------------------
(* arq's slots.  A coroutine holds one from its start to finish_job; a process   *)
(* that is not left behind by job_timeout belongs to a coroutine that waits.    *)
Slots ==
  /\ IsFiniteSet(Active) /\ Cardinality(Active) <= MaxJobs
  /\ \A t \in Task \ LongTask : proc[t] = "alive" => coro[t] = "wait"

(* Coroutines start only where a slot is free.                                  *)
LEMMA ActiveStep ==
  ASSUME IInv, Next, Slots
  PROVE  IsFiniteSet(Active') /\ Cardinality(Active') <= MaxJobs
<1> DEFINE Goal == IsFiniteSet(Active') /\ Cardinality(Active') <= MaxJobs
<1>1. IsFiniteSet(Active) /\ Cardinality(Active) \in Nat /\ Cardinality(Active) <= MaxJobs
  BY FS_CardinalityType DEF Slots
<1>2. MaxJobs \in Nat /\ coro \in [Task -> {"none", "wait", "finally", "return"}]
  BY BoundAssumption DEF IInv, TypeOK, WorkerType
<1>3. ASSUME Active' \subseteq Active PROVE Goal
  <2>1. /\ IsFiniteSet(Active') /\ Cardinality(Active') \in Nat
        /\ Cardinality(Active') <= Cardinality(Active)
    BY <1>1, <1>3, FS_Subset, FS_CardinalityType
  <2> QED
    BY <1>1, <1>2, <2>1
<1>4. ASSUME NEW t \in Task, StartJob(t) PROVE Goal
  <2>1. Active' = Active \cup {t} /\ t \notin Active
    BY <1>2, <1>4 DEF StartJob, Active
  <2>2. IsFiniteSet(Active') /\ Cardinality(Active') = Cardinality(Active) + 1
    BY <1>1, <2>1, FS_AddElement
  <2>3. Cardinality(Active) < MaxJobs
    BY <1>4 DEF StartJob
  <2> QED
    BY <1>1, <1>2, <2>2, <2>3
<1>5. ASSUME NEW t \in Task, coro' = [coro EXCEPT ![t] = "none"] PROVE Goal
  BY <1>2, <1>3, <1>5 DEF Active
<1>6. ASSUME NEW t \in Task, coro[t] # "none", NEW s, coro' = [coro EXCEPT ![t] = s]
      PROVE  Goal
  BY <1>2, <1>3, <1>6 DEF Active
<1>7. ASSUME coro' = coro \/ coro' = [t \in Task |-> "none"] PROVE Goal
  BY <1>3, <1>7 DEF Active
<1> HIDE DEF Goal
<1>8. ASSUME NEW t \in Task,
             \/ CollectExit(t) \/ KillProc(t) \/ SubprocessTimeout(t) \/ JobTimeout(t)
             \/ DeleteFlag(t) \/ FinishJob(t) \/ DeleteRaises(t)
      PROVE  Goal
  BY <1>5, <1>6, <1>8
     DEF CollectExit, KillProc, SubprocessTimeout, JobTimeout, Leave, DeleteFlag, FinishJob,
         DeleteRaises
<1>9. ASSUME NEW t \in Task, ProcExit(t) \/ WatchCancel(t) \/ WatchRaises(t) PROVE Goal
  BY <1>7, <1>9 DEF ProcExit, WatchCancel, WatchRaises
<1>10. ASSUME \/ WorkerStart \/ WorkerCrash \/ WorkerShutdown \/ RedisLoss
              \/ UNCHANGED worker
       PROVE  Goal
  BY <1>7, <1>10 DEF WorkerStart, WorkerCrash, WorkerShutdown, WorkerGone, RedisLoss, worker
<1> QED
  BY <1>4, <1>8, <1>9, <1>10, WorkerFrame DEF Goal

(* A process that its own timeout bounds is reaped before its coroutine leaves.  *)
LEMMA ReapedStep ==
  ASSUME IInv, Next, Slots
  PROVE  \A t \in Task \ LongTask : proc'[t] = "alive" => coro'[t] = "wait"
<1> DEFINE Goal == \A t \in Task \ LongTask : proc'[t] = "alive" => coro'[t] = "wait"
<1> USE DEF IInv, TypeOK, WorkerType, Slots
<1>1. ASSUME NEW t \in Task, StartJob(t) PROVE Goal
  BY <1>1 DEF StartJob
<1>2. ASSUME NEW t \in Task, ProcExit(t) PROVE Goal
  BY <1>2 DEF ProcExit
<1>3. ASSUME NEW t \in Task, CollectExit(t) \/ KillProc(t) \/ SubprocessTimeout(t) PROVE Goal
  BY <1>3 DEF CollectExit, KillProc, SubprocessTimeout, Leave
<1>4. ASSUME NEW t \in Task, JobTimeout(t) PROVE Goal
  BY <1>4 DEF JobTimeout
<1>5. ASSUME NEW t \in Task, DeleteFlag(t) \/ FinishJob(t) \/ DeleteRaises(t) PROVE Goal
  BY <1>5 DEF DeleteFlag, FinishJob, DeleteRaises
<1>6. ASSUME WorkerCrash \/ WorkerShutdown PROVE Goal
  BY <1>6 DEF WorkerCrash, WorkerShutdown, WorkerGone
<1>7. ASSUME UNCHANGED <<coro, proc>> PROVE Goal
  BY <1>7
<1>8. ASSUME NEW t \in Task, WatchCancel(t) \/ WatchRaises(t) PROVE UNCHANGED <<coro, proc>>
  BY <1>8 DEF WatchCancel, WatchRaises
<1>9. ASSUME WorkerStart \/ RedisLoss \/ UNCHANGED worker PROVE UNCHANGED <<coro, proc>>
  BY <1>9 DEF WorkerStart, RedisLoss, worker
<1> HIDE DEF Goal
<1> QED
  BY <1>1, <1>2, <1>3, <1>4, <1>5, <1>6, <1>7, <1>8, <1>9, WorkerFrame DEF Goal

(* The slots bound the coroutines in every reachable state.                     *)
THEOREM SlotsHold == Spec => []Slots
<1>1. Init => Slots
  <2> SUFFICES ASSUME Init PROVE Slots
    OBVIOUS
  <2>1. Active = {}
    BY DEF Init, Active
  <2>2. IsFiniteSet(Active) /\ Cardinality(Active) = 0
    BY <2>1, FS_EmptySet
  <2> QED
    BY <2>2, BoundAssumption DEF Init, Slots
<1>2. IInv /\ Slots /\ [Next]_vars => Slots'
  <2>1. ASSUME IInv, Slots, Next PROVE Slots'
    BY <2>1, ActiveStep, ReapedStep DEF Slots
  <2>2. ASSUME Slots, UNCHANGED vars PROVE Slots'
    BY <2>2 DEF vars, worker, Slots, Active
  <2> QED
    BY <2>1, <2>2
<1> QED
  BY <1>1, <1>2, Invariance, PTL DEF Spec

(* However many requests, retries and faults, and whatever timeouts were asked:   *)
(* but for what job_timeout left behind, no more than max_jobs live processes.  *)
THEOREM SlotsBoundSubprocesses == Spec => []SubprocessesFitSlots
<1>1. Slots => SubprocessesFitSlots
  <2> SUFFICES ASSUME Slots PROVE SubprocessesFitSlots
    OBVIOUS
  <2> DEFINE Held == {t \in Task : proc[t] = "alive" /\ ~LeftBehind(t)}
  <2>1. Held \subseteq Active
    BY DEF Slots, Active, LeftBehind
  <2>2. /\ Cardinality(Held) <= Cardinality(Active)
        /\ Cardinality(Held) \in Nat /\ Cardinality(Active) \in Nat
    BY <2>1, FS_Subset, FS_CardinalityType DEF Slots
  <2> QED
    BY <2>2, BoundAssumption DEF Slots, SubprocessesFitSlots
<1> QED
  BY <1>1, SlotsHold, PTL

-------------------------------------------------------------------------------
(* Copies of an asset.  A poll inserts it only if its SELECT found none, so the   *)
(* copies that are there and those that polls under way will add were all       *)
(* prepared while there was none.                                               *)
Inserting(a) ==
  {h \in Handler : /\ rq[h].pc \in {"store", "commit"}
                   /\ a \in Found(rq[h].task, rq[h].out) \ rq[h].have}

CopiesFit ==
  \A a \in Asset : assets[a] + Cardinality(Inserting(a)) <= Cardinality(Handler)

(* The polls about to insert are some of the finitely many handlers.            *)
LEMMA InsertingFinite ==
  ASSUME IsFiniteSet(Handler), NEW S, S \subseteq Handler
  PROVE  /\ IsFiniteSet(S) /\ Cardinality(S) \in Nat /\ Cardinality(Handler) \in Nat
         /\ Cardinality(S) <= Cardinality(Handler)
BY FS_Subset, FS_CardinalityType

(* A poll that leaves the assets alone, and does not join those about to insert, *)
(* makes room at most.                                                          *)
LEMMA CopiesStay ==
  ASSUME IsFiniteSet(Handler), IInv, CopiesFit, assets' = assets,
         \A a \in Asset : Inserting(a)' \subseteq Inserting(a)
  PROVE  CopiesFit'
<1> SUFFICES ASSUME NEW a \in Asset
             PROVE  assets[a] + Cardinality(Inserting(a)') <= Cardinality(Handler)
  BY DEF CopiesFit
<1>1. IsFiniteSet(Inserting(a)) /\ Cardinality(Inserting(a)) \in Nat
  BY InsertingFinite DEF Inserting
<1>2. /\ Cardinality(Inserting(a)') \in Nat
      /\ Cardinality(Inserting(a)') <= Cardinality(Inserting(a))
  BY <1>1, FS_Subset, FS_CardinalityType
<1>3. assets[a] \in Nat /\ Cardinality(Handler) \in Nat
  BY FS_CardinalityType DEF IInv, TypeOK, DbType
<1> QED
  BY <1>1, <1>2, <1>3 DEF CopiesFit

(* A commit moves its own copy from those about to come to those that are there. *)
LEMMA CopiesCommit ==
  ASSUME IsFiniteSet(Handler), IInv, CopiesFit, NEW h \in Handler, PollCommit(h)
  PROVE  CopiesFit'
<1>1. /\ rq[h].pc = "commit" /\ rq \in [Handler -> Request] /\ assets \in [Asset -> Nat]
      /\ rq' = [rq EXCEPT ![h] = Idle] /\ Idle.pc = "idle"
  BY DEF PollCommit, At, Return, Idle, Local, IInv, TypeOK, DbType
<1>2. \A a \in Asset : Inserting(a)' = Inserting(a) \ {h}
  BY <1>1 DEF Inserting
<1>3. \A a \in Asset : assets'[a] = IF h \in Inserting(a) THEN assets[a] + 1 ELSE assets[a]
  BY <1>1 DEF PollCommit, Inserting
<1> SUFFICES ASSUME NEW a \in Asset
             PROVE  assets'[a] + Cardinality(Inserting(a)') <= Cardinality(Handler)
  BY DEF CopiesFit
<1>4. /\ IsFiniteSet(Inserting(a)) /\ Cardinality(Inserting(a)) \in Nat
      /\ assets[a] + Cardinality(Inserting(a)) <= Cardinality(Handler)
      /\ assets[a] \in Nat /\ Cardinality(Handler) \in Nat
  BY <1>1, InsertingFinite DEF Inserting, CopiesFit
<1>5. CASE h \in Inserting(a)
  <2>1. Cardinality(Inserting(a) \ {h}) = Cardinality(Inserting(a)) - 1
    BY <1>4, <1>5, FS_RemoveElement
  <2> QED
    BY <1>2, <1>3, <1>4, <1>5, <2>1
<1>6. CASE h \notin Inserting(a)
  <2>1. Inserting(a) \ {h} = Inserting(a)
    BY <1>6
  <2> QED
    BY <1>2, <1>3, <1>4, <1>6, <2>1
<1> QED
  BY <1>5, <1>6

(* The SELECT lets a poll insert only what is not there at all.                 *)
LEMMA CopiesSelect ==
  ASSUME IsFiniteSet(Handler), IInv, CopiesFit, NEW h \in Handler, PollAssets(h)
  PROVE  CopiesFit'
<1>1. /\ rq[h].pc = "assets" /\ rq \in [Handler -> Request]
      /\ assets \in [Asset -> Nat] /\ assets' = assets
      /\ rq' = [rq EXCEPT ![h] = Local("store", rq[h].task, rq[h].status, rq[h].out,
                  {a \in Found(rq[h].task, rq[h].out) : assets[a] > 0})]
  BY DEF PollAssets, At, Continue, IInv, TypeOK, DbType, db
<1>2. \A a \in Asset : assets[a] > 0 => Inserting(a)' \subseteq Inserting(a)
  BY <1>1 DEF Inserting, Local
<1> SUFFICES ASSUME NEW a \in Asset
             PROVE  assets[a] + Cardinality(Inserting(a)') <= Cardinality(Handler)
  BY <1>1 DEF CopiesFit
<1>3. /\ Cardinality(Inserting(a)') \in Nat /\ Cardinality(Handler) \in Nat
      /\ Cardinality(Inserting(a)') <= Cardinality(Handler)
  BY InsertingFinite DEF Inserting
<1>4. CASE assets[a] = 0
  BY <1>3, <1>4
<1>5. CASE assets[a] > 0
  <2>1. IsFiniteSet(Inserting(a)) /\ Cardinality(Inserting(a)) \in Nat
    BY InsertingFinite DEF Inserting
  <2>2. Cardinality(Inserting(a)') <= Cardinality(Inserting(a))
    BY <1>2, <1>5, <2>1, FS_Subset
  <2> QED
    BY <1>1, <1>3, <2>1, <2>2 DEF CopiesFit
<1> QED
  BY <1>1, <1>4, <1>5

(* No other step adds a copy or a poll that will.                               *)
LEMMA CopiesStep ==
  ASSUME IsFiniteSet(Handler), IInv, CopiesFit, Next
  PROVE  CopiesFit'
<1> DEFINE Same == \A a \in Asset : Inserting(a)' \subseteq Inserting(a)
<1>1. rq \in [Handler -> Request]
  BY DEF IInv, TypeOK
<1>2. ASSUME NEW h \in Handler, NEW l, rq' = [rq EXCEPT ![h] = l],
             \/ l.pc \notin {"store", "commit"}
             \/ l.out = "orphaned"
             \/ /\ rq[h].pc = "store" /\ l.task = rq[h].task
                /\ l.out = rq[h].out /\ l.have = rq[h].have
      PROVE  Same
  <2>1. \A g \in Handler \ {h} : rq'[g] = rq[g]
    BY <1>1, <1>2
  <2>2. rq'[h] = l
    BY <1>1, <1>2
  <2>3. \A a \in Asset : h \in Inserting(a)' => h \in Inserting(a)
    BY <1>2, <2>2 DEF Inserting, Found
  <2> QED
    BY <2>1, <2>3 DEF Inserting
<1>3. ASSUME UNCHANGED rq PROVE Same
  BY <1>3 DEF Inserting
<1> HIDE DEF Same
<1>4. ASSUME NEW h \in Handler, NEW t \in Task,
             EnqueueCommit(h, t) \/ PollRead(h, t) \/ KillRead(h, t)
      PROVE  Same
  BY <1>2, <1>4 DEF EnqueueCommit, PollRead, KillRead, Receive, Local
<1>5. ASSUME NEW h \in Handler,
             \/ EnqueueJob(h) \/ PollMarkRunning(h) \/ KillCommit(h) \/ HandlerCrash(h)
      PROVE  Same
  BY <1>2, <1>5
     DEF EnqueueJob, PollMarkRunning, KillCommit, HandlerCrash, Return, Idle, Local
<1>6. ASSUME NEW h \in Handler, PollResultInfo(h) \/ KillSet(h) PROVE Same
  BY <1>2, <1>6 DEF PollResultInfo, KillSet, Goto, Continue, Local
<1>7. ASSUME NEW h \in Handler, PollJobStatus(h) PROVE Same
  BY <1>2, <1>7 DEF PollJobStatus, Goto, Continue, Return, Idle, Local
<1>8. ASSUME NEW h \in Handler, PollStore(h) PROVE Same
  BY <1>2, <1>8 DEF PollStore, At, Goto, Continue, Local
<1>9. CASE Purge
  <2>1. \A a \in Asset : assets'[a] = 0 /\ Inserting(a)' = {}
    BY <1>9 DEF Purge, Inserting
  <2>2. Cardinality({}) = 0 /\ Cardinality(Handler) \in Nat
    BY FS_EmptySet, FS_CardinalityType
  <2> QED
    BY <2>1, <2>2 DEF CopiesFit
<1>10. CASE \E h \in Handler : PollCommit(h) \/ PollAssets(h)
  BY <1>10, CopiesCommit, CopiesSelect
<1>11. CASE ~Purge /\ ~\E h \in Handler : PollCommit(h) \/ PollAssets(h)
  <2>1. assets' = assets
    BY <1>11, DbFrame DEF EnqueueCommit, PollMarkRunning, PollStore, KillCommit, db
  <2>2. Same
    BY <1>3, <1>4, <1>5, <1>6, <1>7, <1>8, <1>11, RequestFrame
  <2> QED
    BY <2>1, <2>2, CopiesStay DEF Same
<1> QED
  BY <1>9, <1>10, <1>11

(* However many polls race, whatever crashes between a SELECT and its commit and  *)
(* whichever task found it: no asset has more copies than there were requests   *)
(* at one time.                                                                 *)
THEOREM AssetCopies ==
  ASSUME IsFiniteSet(Handler)
  PROVE  Spec => []AssetCopiesBounded
<1>1. Init => CopiesFit
  <2> SUFFICES ASSUME Init PROVE CopiesFit
    OBVIOUS
  <2>1. \A a \in Asset : assets[a] = 0 /\ Inserting(a) = {}
    BY DEF Init, Inserting, Idle, Local
  <2>2. Cardinality({}) = 0 /\ Cardinality(Handler) \in Nat
    BY FS_EmptySet, FS_CardinalityType
  <2> QED
    BY <2>1, <2>2 DEF CopiesFit
<1>2. IInv /\ CopiesFit /\ [Next]_vars => CopiesFit'
  <2>1. ASSUME CopiesFit, UNCHANGED vars PROVE CopiesFit'
    BY <2>1 DEF vars, db, CopiesFit, Inserting
  <2> QED
    BY <2>1, CopiesStep
<1>3. IInv /\ CopiesFit => AssetCopiesBounded
  <2> SUFFICES ASSUME IInv, CopiesFit, NEW a \in Asset
               PROVE  assets[a] <= Cardinality(Handler)
    BY DEF AssetCopiesBounded
  <2>1. Cardinality(Inserting(a)) \in Nat /\ Cardinality(Handler) \in Nat
    BY InsertingFinite DEF Inserting
  <2>2. assets[a] \in Nat
    BY DEF IInv, TypeOK, DbType
  <2> QED
    BY <2>1, <2>2 DEF CopiesFit
<1> QED
  BY <1>1, <1>2, <1>3, Invariance, PTL DEF Spec

-------------------------------------------------------------------------------
(* The life of a task.  What a client is told of it through its row and the       *)
(* audit log, and what a request past its first read has been told.             *)
ToldStatus == [t \in Task |-> IF purged THEN "purged" ELSE row[t].status]
ToldVerdicts == [t \in Task |-> audit[t] \cap Outcome]

TellsOf(l) ==
  IF l.pc \in Polling THEN [task |-> l.task, status |-> l.status]
                      ELSE [task |-> NoTask, status |-> "none"]

Told == [h \in Handler |-> TellsOf(rq[h])]

(* A step that moves one request changes what that one was told.                *)
LEMMA ToldStep ==
  ASSUME IInv, NEW h \in Handler, NEW l, rq' = [rq EXCEPT ![h] = l]
  PROVE  Told' = [Told EXCEPT ![h] = TellsOf(l)]
BY DEF Told, TellsOf, IInv, TypeOK

(* A request that polls was told of a task, and no purge comes under it.         *)
LEMMA PollingFacts ==
  ASSUME IInv, NEW h \in Handler, rq[h].pc \in Polling
  PROVE  /\ rq[h].task \in Task /\ ~purged
         /\ Told[h] = [task |-> rq[h].task, status |-> rq[h].status]
         /\ Told[h] # Life!NoRead
<1>1. rq[h].pc \notin {"idle", "enqueue"}
  BY DEF Polling
<1>2. rq[h].task \in Task /\ ~purged
  BY <1>1, RequestFacts DEF IInv, PurgedIsGone
<1>3. Told[h] = [task |-> rq[h].task, status |-> rq[h].status]
  BY DEF Told, TellsOf
<1>4. Told[h].task # Life!NoRead.task
  BY <1>2, <1>3, TaskAssumption DEF Life!NoRead
<1> QED
  BY <1>2, <1>3, <1>4

(* A step that moves no row and no verdict is a client's, or nobody's.           *)
LEMMA QuietStep ==
  ASSUME IInv, Next, UNCHANGED <<ToldStatus, ToldVerdicts>>,
         ~\E h \in Handler, t \in Task : EnqueueCommit(h, t),
         ~\E h \in Handler : PollMarkRunning(h) \/ PollCommit(h)
  PROVE  Life!Next \/ UNCHANGED Told
<1> DEFINE Goal == Life!Next \/ UNCHANGED Told
<1>1. rq \in [Handler -> Request]
  BY DEF IInv, TypeOK
<1>2. ASSUME NEW h \in Handler, NEW l, rq' = [rq EXCEPT ![h] = l],
             l.pc \in Polling <=> rq[h].pc \in Polling,
             l.pc \in Polling => l.task = rq[h].task /\ l.status = rq[h].status
      PROVE  Goal
  <2>1. TellsOf(l) = TellsOf(rq[h])
    BY <1>2 DEF TellsOf
  <2>2. Told' = [Told EXCEPT ![h] = TellsOf(l)]
    BY <1>2, ToldStep
  <2>3. TellsOf(rq[h]) = Told[h] /\ Told = [g \in Handler |-> Told[g]]
    BY DEF Told
  <2> QED
    BY <2>1, <2>2, <2>3
<1>3. TellsOf(Idle) = Life!NoRead
  BY DEF TellsOf, Idle, Local, Life!NoRead, Polling
<1>4. ASSUME NEW h \in Handler, Return(h) PROVE Goal
  <2>1. Told' = [Told EXCEPT ![h] = Life!NoRead]
    BY <1>3, <1>4, ToldStep DEF Return
  <2>2. Life!LearnNothing(h)
    BY <2>1 DEF Life!LearnNothing, Life!Leave, Told, TellsOf, ToldStatus, ToldVerdicts
  <2> QED
    BY <2>2 DEF Life!Next
<1>5. ASSUME UNCHANGED rq PROVE Goal
  BY <1>5 DEF Told
<1>6. ASSUME NEW h \in Handler, NEW t \in Task, PollRead(h, t) PROVE Goal
  <2>1. /\ Told' = [Told EXCEPT ![h] = TellsOf(Local("result_info", t, row[t].status,
                                                     "none", {}))]
        /\ rq[h].pc = "idle" /\ row[t].status \in Open
    BY <1>6, ToldStep DEF PollRead, Receive, At
  <2>2. Told' = [Told EXCEPT ![h] = [task |-> t, status |-> row[t].status]]
    BY <2>1 DEF TellsOf, Local, Polling
  <2>3. Told[h] = Life!NoRead
    BY <2>1 DEF Told, TellsOf, Polling, Life!NoRead
  <2>4. ~purged
    BY <2>1 DEF Open, IInv, PurgedIsGone
  <2>5. ToldStatus[t] = row[t].status
    BY <2>4 DEF ToldStatus
  <2>6. Life!Read(h, t)
    BY <2>1, <2>2, <2>3, <2>5
       DEF Life!Read, Open, Told, TellsOf, ToldStatus, ToldVerdicts
  <2> QED
    BY <2>6 DEF Life!Next
<1> HIDE DEF Goal
<1>7. ASSUME NEW h \in Handler, NEW t \in Task, KillRead(h, t) PROVE Goal
  BY <1>2, <1>7 DEF KillRead, At, Receive, Local, Polling
<1>8. ASSUME NEW h \in Handler, EnqueueJob(h) \/ KillCommit(h) \/ HandlerCrash(h) PROVE Goal
  BY <1>4, <1>8 DEF EnqueueJob, KillCommit, HandlerCrash
<1>9. ASSUME NEW h \in Handler, KillSet(h) PROVE Goal
  BY <1>2, <1>9 DEF KillSet, At, Goto, Continue, Local, Polling
<1>10. ASSUME NEW h \in Handler, NEW label \in Polling, NEW o, NEW values,
              rq[h].pc \in Polling, Continue(h, label, o, values)
       PROVE  Goal
  BY <1>2, <1>10 DEF Continue, Local
<1>11. \A label \in {"result_info", "status", "mark", "assets", "store", "commit"} :
         label \in Polling
  BY DEF Polling
<1>12. ASSUME NEW h \in Handler, PollResultInfo(h) \/ PollAssets(h) \/ PollStore(h)
       PROVE  Goal
  BY <1>10, <1>11, <1>12 DEF PollResultInfo, PollAssets, PollStore, At, Goto
<1>13. ASSUME NEW h \in Handler, PollJobStatus(h) PROVE Goal
  BY <1>4, <1>10, <1>11, <1>13 DEF PollJobStatus, At, Goto
<1> QED
  BY <1>5, <1>6, <1>7, <1>8, <1>9, <1>12, <1>13, RequestFrame DEF Goal

(* Every step is a step of the life of a task, or none.                         *)
LEMMA LifeStep ==
  ASSUME IInv, Next
  PROVE  Life!Next \/ UNCHANGED <<ToldStatus, ToldVerdicts, Told>>
<1> DEFINE Goal == Life!Next \/ UNCHANGED <<ToldStatus, ToldVerdicts, Told>>
<1>0. /\ row \in [Task -> [status : Open \cup Final \cup {"none"},
                           output_ref : Outcome \cup {NoRef}]]
      /\ audit \in [Task -> SUBSET (Outcome \cup {"task.enqueue", "task.kill"})]
      /\ rq \in [Handler -> Request]
  BY DEF IInv, TypeOK, DbType
<1>1. TellsOf(Idle) = Life!NoRead
  BY DEF TellsOf, Idle, Local, Life!NoRead, Polling
<1>2. ASSUME NEW h \in Handler, NEW t \in Task, EnqueueCommit(h, t) PROVE Goal
  <2>1. Told' = [Told EXCEPT ![h] = TellsOf(Local("enqueue", t, row[t].status, "none", {}))]
    BY <1>2, ToldStep DEF EnqueueCommit, Receive
  <2>2. TellsOf(Local("enqueue", t, row[t].status, "none", {})) = Told[h]
    BY <1>2 DEF TellsOf, Local, Told, EnqueueCommit, At, Polling
  <2>3. Told' = Told
    BY <2>1, <2>2 DEF Told
  <2>4. ToldStatus' = [ToldStatus EXCEPT ![t] = "queued"] /\ ToldStatus[t] = "none"
    BY <1>0, <1>2 DEF EnqueueCommit, ToldStatus
  <2>5. ToldVerdicts' = ToldVerdicts
    BY <1>0, <1>2 DEF EnqueueCommit, ToldVerdicts, Outcome, Final
  <2>6. Life!Create(t)
    BY <2>3, <2>4, <2>5 DEF Life!Create, Told, TellsOf, ToldStatus, ToldVerdicts
  <2> QED
    BY <2>6 DEF Life!Next
<1>3. ASSUME NEW h \in Handler, PollMarkRunning(h) PROVE Goal
  <2>1. rq[h].pc = "mark" /\ rq[h].pc \in Polling
    BY <1>3 DEF PollMarkRunning, At, Polling
  <2>2. rq[h].status = "queued"
    BY <2>1 DEF IInv, Provenance, RequestsGrounded
  <2>3. PICK t \in Task : t = rq[h].task
    BY <2>1, PollingFacts
  <2>4. Told[h] = [task |-> t, status |-> "queued"] /\ ~purged
    BY <2>1, <2>2, <2>3, PollingFacts
  <2>5. ToldStatus' = [ToldStatus EXCEPT ![t] = "running"]
    BY <1>0, <1>3, <2>3, <2>4 DEF PollMarkRunning, ToldStatus
  <2>6. Told' = [Told EXCEPT ![h] = Life!NoRead]
    BY <1>1, <1>3, ToldStep DEF PollMarkRunning, Return
  <2>7. ToldVerdicts' = ToldVerdicts
    BY <1>3 DEF PollMarkRunning, ToldVerdicts
  <2>8. Life!SeenRunning(h)
    BY <2>4, <2>5, <2>6, <2>7
       DEF Life!SeenRunning, Life!Leave, Told, TellsOf, ToldStatus, ToldVerdicts
  <2> QED
    BY <2>8 DEF Life!Next
<1>4. ASSUME NEW h \in Handler, PollCommit(h) PROVE Goal
  <2>1. rq[h].pc = "commit" /\ rq[h].pc \in Polling
    BY <1>4 DEF PollCommit, At, Polling
  <2>2. PICK t \in Task, o \in Outcome : t = rq[h].task /\ o = rq[h].out
    BY <2>1, PollingFacts, RequestFacts
  <2>3. Told[h].task = t /\ Told[h] # Life!NoRead /\ ~purged
    <3>1. Told[h] = [task |-> rq[h].task, status |-> rq[h].status]
      BY <2>1, PollingFacts
    <3> QED
      BY <2>1, <2>2, <3>1, PollingFacts
  <2>4. ToldStatus' = [ToldStatus EXCEPT ![t] = IF o = "orphaned" THEN "failed" ELSE o]
    BY <1>0, <1>4, <2>2, <2>3 DEF PollCommit, ToldStatus, StatusOf
  <2>5. /\ audit'[t] = audit[t] \cup {o}
        /\ \A u \in Task \ {t} : audit'[u] = audit[u]
    BY <1>0, <1>4, <2>2 DEF PollCommit
  <2>6. \A u \in Task :
          audit'[u] \cap Outcome = IF u = t THEN (audit[t] \cap Outcome) \cup {o}
                                            ELSE audit[u] \cap Outcome
    BY <2>5
  <2>7. ToldVerdicts' = [ToldVerdicts EXCEPT ![t] = @ \cup {o}]
    BY <2>6 DEF ToldVerdicts
  <2>8. Told' = [Told EXCEPT ![h] = Life!NoRead]
    BY <1>1, <1>4, ToldStep DEF PollCommit, Return
  <2>9. Life!Close(h, o)
    BY <2>3, <2>4, <2>7, <2>8
       DEF Life!Close, Life!Leave, Told, TellsOf, ToldStatus, ToldVerdicts
  <2> QED
    BY <2>9 DEF Life!Next
<1>5. ASSUME Purge PROVE Goal
  <2>1. Told = [h \in Handler |-> Life!NoRead] /\ Told' = Told
    BY <1>5 DEF Purge, Told, TellsOf, Polling, Life!NoRead
  <2>2. ToldStatus' = [t \in Task |-> "purged"] /\ ToldVerdicts' = ToldVerdicts
    BY <1>5 DEF Purge, ToldStatus, ToldVerdicts
  <2>3. Life!Purge
    BY <2>1, <2>2 DEF Life!Purge, Told, TellsOf, ToldStatus, ToldVerdicts
  <2> QED
    BY <2>3 DEF Life!Next
<1>6. CASE ~(\E h \in Handler, t \in Task : EnqueueCommit(h, t)) /\ ~Purge
           /\ ~\E h \in Handler : PollMarkRunning(h) \/ PollCommit(h)
  <2>1. ASSUME NEW h \in Handler, KillCommit(h) PROVE UNCHANGED <<ToldStatus, ToldVerdicts>>
    BY <1>0, <2>1 DEF KillCommit, ToldStatus, ToldVerdicts, Outcome, Final
  <2>2. ASSUME UNCHANGED <<purged, row, audit>> PROVE UNCHANGED <<ToldStatus, ToldVerdicts>>
    BY <2>2 DEF ToldStatus, ToldVerdicts
  <2>3. UNCHANGED <<ToldStatus, ToldVerdicts>>
    BY <1>6, <2>1, <2>2, DbFrame DEF PollStore, db
  <2> QED
    BY <1>6, <2>3, QuietStep
<1> HIDE DEF Goal
<1> QED
  BY <1>2, <1>3, <1>4, <1>5, <1>6 DEF Goal

(* Handlers, queue, worker and vault together implement the life of a task:      *)
(* TaskLife is what clients see, for any number of requests, tasks, attempts    *)
(* and faults, and whenever the purge comes.                                    *)
THEOREM ImplementsTaskLife == Spec => ImplementsLife
<1>1. Init => Life!Init
  BY DEF Init, Life!Init, Life!NoRead, Idle, Local, Polling
<1>2. IInv /\ [Next]_vars => [Life!Next]_(Life!vars)
  <2>1. ASSUME IInv, Next PROVE Life!Next \/ UNCHANGED Life!vars
    BY <2>1, LifeStep DEF Life!vars, ToldStatus, ToldVerdicts, Told, TellsOf
  <2>2. ASSUME UNCHANGED vars PROVE UNCHANGED Life!vars
    BY <2>2 DEF vars, db, Life!vars
  <2> QED
    BY <2>1, <2>2
<1> QED
  BY <1>1, <1>2, Invariance, PTL DEF Spec, ImplementsLife, Life!Spec
================================================================================
