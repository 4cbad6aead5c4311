------------------------------ MODULE AuditChain -------------------------------
(* The hash-chained audit log: gateway/app/security/audit.py, on the table    *)
(* and the trigger of gateway/alembic/versions (v001).                        *)
(*                                                                            *)
(* Every HTTP handler owns one database session (api/deps.py, get_session)    *)
(* and calls append_audit inside its open transaction, up to MaxBatch times   *)
(* (activate_engagement calls it twice).  PostgreSQL runs READ COMMITTED: a   *)
(* statement sees the committed rows and those of its own transaction.        *)
(* A row's content stands for (ts, actor_id, action, target, params_json),    *)
(* the fields compute_entry_hash covers.                                      *)
EXTENDS Naturals, FiniteSets

CONSTANTS Session,         \* database sessions of concurrent handlers
          Content,         \* values of the fields the hash of an entry covers
          Joined,          \* Joined[c]: the text those fields make, joined by '|'
          Engagement,      \* values of audit_log.engagement_id
          GENESIS_HASH,
          NoSession,
          TriggerDisabled, \* TRUE: somebody may run test_tampering_breaks_chain's UPDATE
          MaxBatch,        \* bound: entries per transaction
          MaxId            \* bound: BIGSERIAL values used

ASSUME JoinedAssumption == Content \subseteq DOMAIN Joined
ASSUME NoSessionAssumption == NoSession \notin Session
ASSUME BoundAssumption == MaxBatch \in Nat /\ MaxId \in Nat

VARIABLES log,      \* committed rows of audit_log
          pending,  \* rows a session inserted and has not committed
          nextId,   \* the BIGSERIAL sequence: never rolled back
          lock,     \* holder of pg_advisory_xact_lock(_AUDIT_LOCK_KEY)
          pc,       \* where a session is in append_audit
          prev      \* append_audit's local prev_hash

vars == <<log, pending, nextId, lock, pc, prev>>

-------------------------------------------------------------------------------
(* Mutant: the content is left out of the hash.                                *)
HashesOnlyPrev(prev_hash, content) == <<prev_hash>>

(* The fields are joined unescaped and an absent one reads as an empty one, so  *)
(* Joined may send several contents to one text.  prev_hash is always 64       *)
(* characters, so the joined text is told from it; SHA-256 stands as a pairing. *)
compute_entry_hash(prev_hash, content) == <<prev_hash, Joined[content]>>

(* A row; `written` is a history field: what append_audit wrote.              *)
AuditRow(i, prev_hash, c, e) ==
  [id |-> i, content |-> c, engagement_id |-> e, prev_hash |-> prev_hash,
   entry_hash |-> compute_entry_hash(prev_hash, c), written |-> <<c, e>>]

IsLast(rows, r) == r \in rows /\ \A q \in rows : q.id <= r.id

LastHash(rows) ==
  IF rows = {} THEN GENESIS_HASH
  ELSE (CHOOSE r \in rows : IsLast(rows, r)).entry_hash

Before(rows, r) == {q \in rows : q.id < r.id}

(* The hash that verify_chain's loop holds in expected_prev on reaching r.    *)
ExpectedPrev(rows, r) ==
  IF Before(rows, r) = {} THEN r.prev_hash = GENESIS_HASH
  ELSE \E q \in Before(rows, r) :
         IsLast(Before(rows, r), q) /\ r.prev_hash = q.entry_hash

verify_chain(rows) ==
  \A r \in rows :
    /\ ExpectedPrev(rows, r)
    /\ compute_entry_hash(r.prev_hash, r.content) = r.entry_hash

Visible(s) == log \cup pending[s]

-------------------------------------------------------------------------------
Init ==
  /\ log = {}
  /\ pending = [s \in Session |-> {}]
  /\ nextId = 1
  /\ lock = NoSession
  /\ pc = [s \in Session |-> "handler"]
  /\ prev = [s \in Session |-> GENESIS_HASH]

(* Appends begun and not yet inserted: with nextId, what MaxId bounds.        *)
InAppend == {s \in Session : pc[s] # "handler"}

(* The handler calls append_audit, whose first statement asks for the lock.   *)
CallAppend(s) ==
  /\ pc[s] = "handler"
  /\ Cardinality(pending[s]) < MaxBatch
  /\ nextId + Cardinality(InAppend) <= MaxId
  /\ pc' = [pc EXCEPT ![s] = "lock"]
  /\ UNCHANGED <<log, pending, nextId, lock, prev>>

(* Mutant: the lock excludes nobody.                                           *)
AcquireUnlocked(s) ==
  /\ pc[s] = "lock"
  /\ lock' = s
  /\ pc' = [pc EXCEPT ![s] = "select"]
  /\ UNCHANGED <<log, pending, nextId, prev>>

(* pg_advisory_xact_lock returns: the lock is free, or already this session's. *)
AcquireLock(s) ==
  /\ pc[s] = "lock"
  /\ lock \in {NoSession, s}
  /\ lock' = s
  /\ pc' = [pc EXCEPT ![s] = "select"]
  /\ UNCHANGED <<log, pending, nextId, prev>>

(* Mutant: the last hash is read outside the transaction.                      *)
SelectCommitted(s) ==
  /\ pc[s] = "select"
  /\ prev' = [prev EXCEPT ![s] = LastHash(log)]
  /\ pc' = [pc EXCEPT ![s] = "insert"]
  /\ UNCHANGED <<log, pending, nextId, lock>>

(* SELECT entry_hash ORDER BY id DESC LIMIT 1.                                *)
SelectPrev(s) ==
  /\ pc[s] = "select"
  /\ prev' = [prev EXCEPT ![s] = LastHash(Visible(s))]
  /\ pc' = [pc EXCEPT ![s] = "insert"]
  /\ UNCHANGED <<log, pending, nextId, lock>>

(* Mutant: the lock is given back after the INSERT, before the commit.         *)
InsertUnlocks(s) ==
  /\ pc[s] = "insert"
  /\ \E c \in Content, e \in Engagement :
       pending' = [pending EXCEPT ![s] = @ \cup {AuditRow(nextId, prev[s], c, e)}]
  /\ nextId' = nextId + 1
  /\ lock' = NoSession
  /\ pc' = [pc EXCEPT ![s] = "handler"]
  /\ UNCHANGED <<log, prev>>

(* session.add(row); flush(): the INSERT draws the id.                        *)
InsertRow(s) ==
  /\ pc[s] = "insert"
  /\ \E c \in Content, e \in Engagement :
       pending' = [pending EXCEPT ![s] = @ \cup {AuditRow(nextId, prev[s], c, e)}]
  /\ nextId' = nextId + 1
  /\ pc' = [pc EXCEPT ![s] = "handler"]
  /\ UNCHANGED <<log, lock, prev>>

(* Mutant: the end of a transaction keeps the lock.                            *)
ReleasesNothing(s) == lock

ReleasedBy(s) == IF lock = s THEN NoSession ELSE lock

(* session.commit() publishes the rows and frees the transaction's lock.      *)
Commit(s) ==
  /\ pc[s] = "handler"
  /\ pending[s] # {}
  /\ log' = log \cup pending[s]
  /\ pending' = [pending EXCEPT ![s] = {}]
  /\ lock' = ReleasedBy(s)
  /\ UNCHANGED <<nextId, pc, prev>>

(* An exception, a lost connection or a crash of the gateway: the rows go, the *)
(* ids they drew do not come back.                                            *)
Rollback(s) ==
  /\ pc[s] # "handler" \/ pending[s] # {}
  /\ pending' = [pending EXCEPT ![s] = {}]
  /\ pc' = [pc EXCEPT ![s] = "handler"]
  /\ lock' = ReleasedBy(s)
  /\ UNCHANGED <<log, nextId, prev>>

AlteredRow(r, c, e) ==
  [id |-> r.id, content |-> c, engagement_id |-> e, prev_hash |-> r.prev_hash,
   entry_hash |-> r.entry_hash, written |-> r.written]

(* test_audit.py's UPDATE, with the append-only trigger disabled: one of the    *)
(* columns that say something, the two hashes left as they were.              *)
Alter ==
  /\ TriggerDisabled
  /\ \E r \in log, c \in Content, e \in Engagement :
       /\ (c = r.content) # (e = r.engagement_id)
       /\ log' = (log \ {r}) \cup {AlteredRow(r, c, e)}
  /\ UNCHANGED <<pending, nextId, lock, pc, prev>>

Step(s) == \/ CallAppend(s)
           \/ AcquireLock(s)
           \/ SelectPrev(s)
           \/ InsertRow(s)
           \/ Commit(s)
           \/ Rollback(s)

Next == Alter \/ \E s \in Session : Step(s)

Spec == Init /\ [][Next]_vars

(* The event loop and PostgreSQL run every statement a handler has issued; a   *)
(* handler ends its transaction (get_session closes it at the latest); the     *)
(* lock manager's queue is first come first served.                           *)
Fairness ==
  \A s \in Session :
    /\ SF_vars(AcquireLock(s))
    /\ WF_vars(SelectPrev(s))
    /\ WF_vars(InsertRow(s))
    /\ WF_vars(pc[s] = "handler" /\ (Commit(s) \/ Rollback(s)))

FairSpec == Spec /\ Fairness

-------------------------------------------------------------------------------
IsRow(r) ==
  /\ r = AlteredRow(r, r.content, r.engagement_id)
  /\ r.id \in Nat \ {0}
  /\ r.content \in Content /\ r.engagement_id \in Engagement
  /\ r.written \in Content \X Engagement

(* Every variable has its type; hashes are untyped.                           *)
TypeOK ==
  /\ \A r \in log : IsRow(r)
  /\ \A s \in Session : \A r \in pending[s] : IsRow(r)
  /\ DOMAIN pending = Session /\ DOMAIN prev = Session
  /\ nextId \in Nat \ {0}
  /\ lock \in Session \cup {NoSession}
  /\ pc \in [Session -> {"handler", "lock", "select", "insert"}]

(* verify_chain accepts the committed log exactly when every row's fields,     *)
(* joined, read as those that append_audit wrote, whatever appends raced,      *)
(* rolled back or left gaps in the ids.  It never refuses a log that nobody    *)
(* altered, and what it does not see is an alteration of engagement_id or one  *)
(* that moves a '|' or swaps an absent field for an empty one.                 *)
VerifyExact ==
  verify_chain(log) <=> \A r \in log : Joined[r.content] = Joined[r.written[1]]

(* Rows become visible in the order of their ids: a reader who has seen up to  *)
(* some id never finds a smaller one appear later, nor a row disappear.        *)
CommitsInIdOrder ==
  [][ /\ \A r \in log : \E q \in log' : q.id = r.id /\ q.entry_hash = r.entry_hash
      /\ \A q \in log' : \A r \in log :
           q.id <= r.id => \E o \in log : o.id = q.id ]_vars

(* The rows of one snapshot, as append_audit leaves them: ids below the        *)
(* sequence, no id twice, one row last, every row hashed over its predecessor. *)
Chained(rows, n) ==
  /\ \A r \in rows : r.id < n
  /\ \A q, r \in rows : q.id = r.id => q = r
  /\ rows # {} => \E r \in rows : IsLast(rows, r)
  /\ \A r \in rows :
       /\ ExpectedPrev(rows, r)
       /\ r.entry_hash = compute_entry_hash(r.prev_hash, r.written[1])

(* The lock keeps the audit log single-writer: only its holder reads the last  *)
(* hash or has uncommitted rows, so what it read is still last when it inserts. *)
SingleWriter ==
  /\ \A s \in Session :
       pc[s] \in {"select", "insert"} \/ pending[s] # {} => lock = s
  /\ Chained(log, nextId)
  /\ \A s \in Session : Chained(Visible(s), nextId)
  /\ \A s \in Session : \A q \in log, r \in pending[s] : q.id < r.id
  /\ \A s \in Session : pc[s] = "insert" => prev[s] = LastHash(Visible(s))

(* A session waiting for the audit lock gets past it: no holder keeps it for   *)
(* ever, and no cycle of waits involves it.                                   *)
LockIsGranted ==
  \A s \in Session : pc[s] = "lock" ~> pc[s] # "lock"

(* What a reader sees: what was written, at its id.                            *)
Ledger == INSTANCE AuditLedger
            WITH Entry <- Content \X Engagement,
                 ledger <- {<<r.id, r.written>> : r \in log}

(* Through the ids, the committed log is a ledger: it only grows at its end,   *)
(* by the whole batch of one transaction, and what was written stays.          *)
ImplementsLedger == Ledger!Spec
================================================================================
