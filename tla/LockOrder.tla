------------------------------- MODULE LockOrder -------------------------------
(* The locks that the handlers of one engagement hold together until they        *)
(* commit: the tables of its schema, a task's row, the audit lock, the          *)
(* engagement's row, the unique index of its authorization, the catalog entry   *)
(* of its schema.  PostgreSQL grants a lock in the order of the requests, and    *)
(* ends a transaction that it finds in a cycle of waits.                        *)
EXTENDS Sequences, SequencesExt

CONSTANT Session

VARIABLES
  handler,   \* what each session runs: a purge, another handler, or none
  rest,      \* the locks it has still to ask for
  held,      \* those it holds
  queue      \* the sessions that wait, in the order of their requests

vars == <<handler, rest, held, queue>>

L(object, mode) == [object |-> object, mode |-> mode]
Use(table) == L(table, "shared")       \* SELECT, INSERT, UPDATE: compatible
Lock(object) == L(object, "exclusive")

-------------------------------------------------------------------------------
(* The handlers, each a sequence of locks (or several, for a choice).          *)
Enqueue == {<<Use("tasks"), Lock("audit")>>}
Kill == {<<Use("tasks"), Lock("audit")>>}

(* get_task_status: with and without assets (no audit lock: it just finishes).  *)
Poll ==
  {<<Use("tasks"), Lock("row"), Lock("audit")>>,
   <<Use("tasks"), Use("assets"), Lock("row"), Lock("audit")>>}

(* Mutant: the status is flushed before the audit entry, as upload does.       *)
CloseRowFirst == {<<Lock("engagement"), Lock("audit")>>}

(* The new status is flushed by the query under the audit lock.                *)
Close == {<<Lock("audit"), Lock("engagement")>>}

Activate == {<<Lock("schema"), Lock("audit"), Lock("engagement")>>}
Upload == {<<Lock("authorization"), Lock("audit")>>}

(* DROP SCHEMA CASCADE takes the tables in an order of its own.                *)
Purge ==
  {<<Lock("schema"), Lock("tasks"), Lock("assets"), Lock("audit")>>,
   <<Lock("schema"), Lock("assets"), Lock("tasks"), Lock("audit")>>}

Others == Enqueue \cup Kill \cup Poll \cup Close \cup Activate \cup Upload

-------------------------------------------------------------------------------
Conflict(l, k) == l.object = k.object /\ "exclusive" \in {l.mode, k.mode}

Waiting(s) == s \in ToSet(queue)
Place(s) == CHOOSE i \in DOMAIN queue : queue[i] = s
Ahead(t, s) == Waiting(t) /\ (Waiting(s) => Place(t) < Place(s))

(* The queue once s waits no more.                                             *)
Without(s) == IF Waiting(s) THEN RemoveAt(queue, Place(s)) ELSE queue

(* s waits for t: t holds the lock, or asked before s did (unless it waits for  *)
(* s itself on that object).                                                   *)
Blocks(t, s) ==
  /\ t # s
  /\ \/ \E k \in held[t] : Conflict(k, rest[s][1])
     \/ /\ Ahead(t, s) /\ Conflict(rest[t][1], rest[s][1])
        /\ ~ \E k \in held[s] : Conflict(k, rest[t][1])

Blocked(s) == \E t \in Session : Blocks(t, s)

Init ==
  /\ handler = [s \in Session |-> "idle"]
  /\ rest = [s \in Session |-> <<>>] /\ held = [s \in Session |-> {}]
  /\ queue = <<>>

Begin(s, h, p) ==
  /\ handler[s] = "idle"
  /\ handler' = [handler EXCEPT ![s] = h] /\ rest' = [rest EXCEPT ![s] = p]
  /\ UNCHANGED <<held, queue>>

Ask(s) ==
  /\ rest[s] # <<>> /\ ~Waiting(s) /\ Blocked(s)
  /\ queue' = Append(queue, s)
  /\ UNCHANGED <<handler, rest, held>>

Take(s) ==
  /\ rest[s] # <<>> /\ ~Blocked(s)
  /\ held' = [held EXCEPT ![s] = @ \cup {rest[s][1]}]
  /\ rest' = [rest EXCEPT ![s] = Tail(@)]
  /\ queue' = Without(s)
  /\ UNCHANGED handler

(* Mutant: a session that is left open.                                        *)
LeaveOpen(s) ==
  /\ handler[s] # "idle" /\ ~Waiting(s)
  /\ handler' = [handler EXCEPT ![s] = "idle"] /\ rest' = [rest EXCEPT ![s] = <<>>]
  /\ UNCHANGED <<held, queue>>

(* commit, or get_session closes the session when the handler returned early.  *)
Finish(s) ==
  /\ handler[s] # "idle" /\ ~Waiting(s)
  /\ handler' = [handler EXCEPT ![s] = "idle"] /\ rest' = [rest EXCEPT ![s] = <<>>]
  /\ held' = [held EXCEPT ![s] = {}]
  /\ UNCHANGED queue

(* A set of sessions that all wait for one another.                            *)
Stuck(S) == S # {} /\ \A s \in S : Waiting(s) /\ \E t \in S : Blocks(t, s)

(* deadlock_timeout: the transaction fails, and the request with it.           *)
Detected(s) ==
  /\ \E S \in SUBSET Session : s \in S /\ Stuck(S)
  /\ handler' = [handler EXCEPT ![s] = "idle"] /\ rest' = [rest EXCEPT ![s] = <<>>]
  /\ held' = [held EXCEPT ![s] = {}]
  /\ queue' = Without(s)

Step(s) == Take(s) \/ Ask(s) \/ Finish(s)

Next ==
  \E s \in Session :
    \/ \E p \in Purge : Begin(s, "purge", p)
    \/ \E p \in Others : Begin(s, "other", p)
    \/ Take(s) \/ Ask(s) \/ Finish(s) \/ Detected(s)

(* Handlers go on, and PostgreSQL looks for deadlocks; clients owe nothing.    *)
Spec ==
  /\ Init /\ [][Next]_vars
  /\ \A s \in Session : WF_vars(Step(s)) /\ WF_vars(Detected(s))

-------------------------------------------------------------------------------
(* Every variable has its type; an idle session holds nothing.                 *)
TypeOK ==
  /\ handler \in [Session -> {"idle", "purge", "other"}]
  /\ \A s \in Session : handler[s] = "idle" => rest[s] = <<>> /\ held[s] = {}
  /\ ToSet(queue) \subseteq {s \in Session : rest[s] # <<>>} /\ IsInjective(queue)

(* Every cycle of waits has a purge in it: the other handlers take their locks  *)
(* in one order, the audit lock last but for the engagement's row.             *)
OnlyPurgesDeadlock ==
  ~ \E S \in SUBSET {s \in Session : handler[s] # "purge"} : Stuck(S)

(* No request waits for ever, deadlocked or overtaken.                         *)
RequestsEnd == \A s \in Session : handler[s] # "idle" ~> handler[s] = "idle"
================================================================================
