-------------------------------- MODULE TaskLife -------------------------------
(* What clients are told of tasks.  A task is queued, perhaps seen running, and  *)
(* closed with a verdict that is in the audit log from that moment on.  Clients *)
(* ask at the same time: whoever read a task open may close it, so a second     *)
(* verdict may follow the first, but only from one who read before it.  A purge *)
(* takes all tasks, once nobody is reading.                                    *)
CONSTANTS Task, Verdict, Reader, NoTask

VARIABLES status, verdicts, reading

vars == <<status, verdicts, reading>>

NoRead == [task |-> NoTask, status |-> "none"]

Init ==
  /\ status = [t \in Task |-> "none"]
  /\ verdicts = [t \in Task |-> {}]
  /\ reading = [r \in Reader |-> NoRead]

Leave(r) == reading' = [reading EXCEPT ![r] = NoRead]

Create(t) ==
  /\ status[t] = "none"
  /\ status' = [status EXCEPT ![t] = "queued"]
  /\ UNCHANGED <<verdicts, reading>>

Read(r, t) ==
  /\ reading[r] = NoRead /\ status[t] \in {"queued", "running"}
  /\ reading' = [reading EXCEPT ![r] = [task |-> t, status |-> status[t]]]
  /\ UNCHANGED <<status, verdicts>>

LearnNothing(r) == Leave(r) /\ UNCHANGED <<status, verdicts>>

SeenRunning(r) ==
  /\ reading[r].status = "queued"
  /\ status' = [status EXCEPT ![reading[r].task] = "running"]
  /\ Leave(r) /\ UNCHANGED verdicts

Close(r, v) ==
  /\ reading[r] # NoRead
  /\ status' = [status EXCEPT ![reading[r].task] = IF v = "orphaned" THEN "failed" ELSE v]
  /\ verdicts' = [verdicts EXCEPT ![reading[r].task] = @ \cup {v}]
  /\ Leave(r)

Purge ==
  /\ \A r \in Reader : reading[r] = NoRead
  /\ status' = [t \in Task |-> "purged"]
  /\ UNCHANGED <<verdicts, reading>>

Next ==
  \/ \E t \in Task : Create(t) \/ \E r \in Reader : Read(r, t)
  \/ \E r \in Reader : LearnNothing(r) \/ SeenRunning(r) \/ \E v \in Verdict : Close(r, v)
  \/ Purge

Spec == Init /\ [][Next]_vars
================================================================================
