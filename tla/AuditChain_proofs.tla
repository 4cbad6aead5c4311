--------------------------- MODULE AuditChain_proofs ---------------------------
(* What holds of the audit chain for any number of sessions, entries and      *)
(* transactions.  The inductive invariant is TypeOK /\ SingleWriter.          *)
EXTENDS AuditChain, FiniteSetTheorems, TLAPS

(* In a chained set the last row is one, and LastHash is its hash.            *)
LEMMA LastHashIsLast ==
  ASSUME NEW rows, NEW n, Chained(rows, n), NEW q, IsLast(rows, q),
         \A r \in rows : r.id \in Nat
  PROVE  LastHash(rows) = q.entry_hash
<1> DEFINE m == CHOOSE r \in rows : IsLast(rows, r)
<1>1. q \in rows
  BY DEF IsLast
<1>2. m \in rows /\ IsLast(rows, m)
  BY <1>1
<1>3. m.id = q.id
  BY <1>1, <1>2 DEF IsLast
<1>4. m = q
  BY <1>1, <1>2, <1>3 DEF Chained
<1> QED
  BY <1>1, <1>4 DEF LastHash

(* A row hashed over the last one, with the sequence's next id, extends it.   *)
LEMMA ExtendChained ==
  ASSUME NEW rows, NEW n \in Nat, Chained(rows, n),
         \A r \in rows : r.id \in Nat,
         NEW new, new.id = n, new.prev_hash = LastHash(rows),
         new.entry_hash = compute_entry_hash(new.prev_hash, new.written[1])
  PROVE  Chained(rows \cup {new}, n + 1)
<1> DEFINE all == rows \cup {new}
<1>1. \A r \in rows : r.id < n
  BY DEF Chained
<1>2. \A r \in all : r.id < n + 1
  BY <1>1
<1>3. \A q, r \in all : q.id = r.id => q = r
  BY <1>1 DEF Chained
<1>4. IsLast(all, new)
  BY <1>1 DEF IsLast
<1>5. Before(all, new) = rows
  BY <1>1 DEF Before
<1>6. ExpectedPrev(all, new)
  <2>1. CASE rows = {}
    BY <2>1, <1>5 DEF ExpectedPrev, LastHash
  <2>2. CASE rows # {}
    <3>1. PICK q \in rows : IsLast(rows, q)
      BY <2>2 DEF Chained
    <3>2. new.prev_hash = q.entry_hash
      BY <3>1, LastHashIsLast
    <3> QED
      BY <2>2, <3>1, <3>2, <1>5 DEF ExpectedPrev
  <2> QED
    BY <2>1, <2>2
<1>7. \A r \in rows : ExpectedPrev(all, r)
  <2> SUFFICES ASSUME NEW r \in rows PROVE ExpectedPrev(all, r)
    OBVIOUS
  <2>1. Before(all, r) = Before(rows, r)
    BY <1>1 DEF Before
  <2>2. ExpectedPrev(rows, r)
    BY DEF Chained
  <2> QED
    BY <2>1, <2>2 DEF ExpectedPrev
<1> QED
  BY <1>2, <1>3, <1>4, <1>6, <1>7 DEF Chained

(* Replacing a row by one with its id, hashes and written content: an Alter.  *)
LEMMA AlterChained ==
  ASSUME NEW rows, NEW n, Chained(rows, n),
         \A q \in rows : q.id \in Nat,
         NEW r \in rows, NEW new,
         new.id = r.id, new.prev_hash = r.prev_hash,
         new.entry_hash = r.entry_hash, new.written = r.written
  PROVE  /\ Chained((rows \ {r}) \cup {new}, n)
         /\ LastHash((rows \ {r}) \cup {new}) = LastHash(rows)
<1> DEFINE alt == (rows \ {r}) \cup {new}
           Image(q) == IF q = r THEN new ELSE q
<1>1. \A q \in rows : /\ Image(q) \in alt
                      /\ Image(q).id = q.id
                      /\ Image(q).prev_hash = q.prev_hash
                      /\ Image(q).entry_hash = q.entry_hash
                      /\ Image(q).written = q.written
  OBVIOUS
<1>2. \A a \in alt : \E q \in rows : a = Image(q)
  OBVIOUS
<1> HIDE DEF alt, Image
<1>3. \A q \in rows : IsLast(rows, q) => IsLast(alt, Image(q))
  BY <1>1, <1>2 DEF IsLast
<1>4. \A q \in rows : ExpectedPrev(alt, Image(q))
  <2> SUFFICES ASSUME NEW q \in rows PROVE ExpectedPrev(alt, Image(q))
    OBVIOUS
  <2>1. ExpectedPrev(rows, q)
    BY DEF Chained
  <2>2. \A p \in rows : p \in Before(rows, q) <=> Image(p) \in Before(alt, Image(q))
    BY <1>1 DEF Before
  <2>3. Before(alt, Image(q)) = {Image(p) : p \in Before(rows, q)}
    BY <1>1, <1>2 DEF Before
  <2>4. CASE Before(rows, q) = {}
    BY <2>1, <2>3, <2>4, <1>1 DEF ExpectedPrev
  <2>5. CASE Before(rows, q) # {}
    <3>1. PICK p \in Before(rows, q) :
            IsLast(Before(rows, q), p) /\ q.prev_hash = p.entry_hash
      BY <2>1, <2>5 DEF ExpectedPrev
    <3>2. p \in rows /\ \A o \in Before(rows, q) : o \in rows
      BY DEF Before
    <3>3. IsLast(Before(alt, Image(q)), Image(p))
      BY <3>1, <3>2, <2>3, <1>1 DEF IsLast
    <3>4. Image(q).prev_hash = Image(p).entry_hash
      BY <3>1, <3>2, <1>1
    <3>5. Image(p) \in Before(alt, Image(q))
      BY <2>2, <3>2
    <3> QED
      BY <3>3, <3>4, <3>5 DEF ExpectedPrev
  <2> QED
    BY <2>4, <2>5
<1>5. Chained(alt, n)
  <2>1. \A a \in alt : a.id < n
    BY <1>1, <1>2 DEF Chained
  <2>2. \A a, b \in alt : a.id = b.id => a = b
    BY <1>1, <1>2 DEF Chained
  <2>3. alt # {} => \E a \in alt : IsLast(alt, a)
    BY <1>1, <1>2, <1>3 DEF Chained
  <2>4. \A a \in alt : a.entry_hash = compute_entry_hash(a.prev_hash, a.written[1])
    BY <1>1, <1>2 DEF Chained
  <2> QED
    BY <2>1, <2>2, <2>3, <2>4, <1>2, <1>4 DEF Chained
<1>6. LastHash(alt) = LastHash(rows)
  <2>1. PICK q \in rows : IsLast(rows, q)
    BY DEF Chained
  <2>2. LastHash(rows) = q.entry_hash
    BY <2>1, LastHashIsLast
  <2>3. \A a \in alt : a.id \in Nat
    BY <1>1, <1>2
  <2>4. LastHash(alt) = Image(q).entry_hash
    BY <2>1, <2>3, <1>3, <1>5, LastHashIsLast
  <2> QED
    BY <2>2, <2>4, <1>1
<1> QED
  BY <1>5, <1>6 DEF alt

-------------------------------------------------------------------------------
IInv == TypeOK /\ SingleWriter

(* The empty log is chained.                                                   *)
LEMMA InitIInv == Init => IInv
BY NoSessionAssumption
   DEF Init, IInv, TypeOK, SingleWriter, Chained, Visible

(* A session that does not touch the table keeps what it and the others see.  *)
LEMMA QuietStep ==
  ASSUME IInv, NEW s \in Session,
         CallAppend(s) \/ AcquireLock(s) \/ SelectPrev(s)
  PROVE  IInv'
<1> USE DEF IInv
<1>1. UNCHANGED <<log, pending, nextId>>
  BY DEF CallAppend, AcquireLock, SelectPrev
<1>2. \A t \in Session : Visible(t)' = Visible(t)
  BY <1>1 DEF Visible
<1>3. TypeOK'
  BY DEF TypeOK, CallAppend, AcquireLock, SelectPrev
<1>4. /\ Chained(log, nextId)'
      /\ \A t \in Session : Chained(Visible(t), nextId)'
      /\ \A t \in Session : \A q \in log', r \in pending'[t] : q.id < r.id
  BY <1>1, <1>2 DEF SingleWriter
<1>5. \A t \in Session :
        pc'[t] \in {"select", "insert"} \/ pending'[t] # {} => lock' = t
  BY NoSessionAssumption
     DEF SingleWriter, TypeOK, CallAppend, AcquireLock, SelectPrev
<1>6. \A t \in Session : pc'[t] = "insert" => prev'[t] = LastHash(Visible(t)')
  BY <1>2 DEF SingleWriter, TypeOK, CallAppend, AcquireLock, SelectPrev
<1> QED
  BY <1>3, <1>4, <1>5, <1>6 DEF SingleWriter

(* An insertion extends what its session sees; every other has nothing pending. *)
LEMMA InsertStep ==
  ASSUME IInv, NEW s \in Session, InsertRow(s)
  PROVE  IInv'
<1> USE DEF IInv
<1>1. PICK c \in Content, e \in Engagement :
        pending' = [pending EXCEPT ![s] = @ \cup {AuditRow(nextId, prev[s], c, e)}]
  BY DEF InsertRow
<1> DEFINE new == AuditRow(nextId, prev[s], c, e)
<1>2. /\ nextId' = nextId + 1 /\ nextId \in Nat /\ UNCHANGED <<log, lock, prev>>
      /\ pc[s] = "insert" /\ pc' = [pc EXCEPT ![s] = "handler"]
  BY DEF InsertRow, TypeOK
<1>3. lock = s /\ \A t \in Session \ {s} :
                    pending[t] = {} /\ pc[t] \notin {"select", "insert"}
  BY <1>2 DEF SingleWriter
<1>4. /\ new.id = nextId /\ new.prev_hash = LastHash(Visible(s))
      /\ new.entry_hash = compute_entry_hash(new.prev_hash, new.written[1])
      /\ IsRow(new)
  BY <1>2 DEF AuditRow, AlteredRow, SingleWriter, IsRow, TypeOK
<1> HIDE DEF new
<1>5. pending'[s] = pending[s] \cup {new}
      /\ \A t \in Session \ {s} : pending'[t] = {}
  BY <1>1, <1>3 DEF TypeOK, new
<1>6. Visible(s)' = Visible(s) \cup {new}
      /\ \A t \in Session \ {s} : Visible(t)' = log
  BY <1>2, <1>5 DEF Visible
<1>7. \A t \in Session : \A r \in Visible(t) : r.id \in Nat
  BY DEF TypeOK, IsRow, Visible
<1>8. TypeOK'
  <2>1. \A t \in Session : \A r \in pending'[t] : IsRow(r)
    BY <1>4, <1>5 DEF TypeOK
  <2> QED
    BY <2>1, <1>1, <1>2 DEF TypeOK
<1>9. Chained(Visible(s), nextId)'
  <2>1. Chained(Visible(s), nextId)
    BY DEF SingleWriter
  <2> QED
    BY <2>1, <1>2, <1>4, <1>6, <1>7, ExtendChained
<1>10. Chained(log, nextId)'
  <2>1. Chained(log, nextId) /\ \A r \in log : r.id \in Nat
    BY DEF SingleWriter, TypeOK, IsRow
  <2> QED
    BY <2>1, <1>2 DEF Chained
<1>11. \A t \in Session : \A q \in log', r \in pending'[t] : q.id < r.id
  <2>1. \A q \in log : q.id < nextId
    BY DEF SingleWriter, Chained
  <2> QED
    BY <2>1, <1>2, <1>4, <1>5 DEF SingleWriter
<1>12. \A t \in Session : pc'[t] \notin {"select", "insert"}
  BY <1>2, <1>3 DEF TypeOK
<1>13. \A t \in Session : Chained(Visible(t), nextId)'
  BY <1>2, <1>6, <1>9, <1>10
<1> QED
  BY <1>2, <1>3, <1>5, <1>8, <1>10, <1>11, <1>12, <1>13 DEF SingleWriter

(* The end of a transaction: everybody then sees the committed rows only.     *)
LEMMA EndStep ==
  ASSUME IInv, NEW s \in Session, Commit(s) \/ Rollback(s)
  PROVE  IInv'
<1> USE DEF IInv
<1>1. /\ pending' = [pending EXCEPT ![s] = {}] /\ UNCHANGED <<nextId, prev>>
      /\ lock' = ReleasedBy(s) /\ pc'[s] = "handler"
      /\ \A t \in Session \ {s} : pc'[t] = pc[t]
      /\ log' = log \/ (log' = Visible(s) /\ pending[s] # {})
  BY DEF Commit, Rollback, TypeOK, Visible
<1>2. TypeOK'
  <2>1. \A r \in log' : IsRow(r)
    BY <1>1 DEF Visible, TypeOK
  <2>2. \A t \in Session : \A r \in pending'[t] : IsRow(r)
    BY <1>1 DEF TypeOK
  <2>3. pc' \in [Session -> {"handler", "lock", "select", "insert"}]
    BY DEF TypeOK, Commit, Rollback
  <2> QED
    BY <2>1, <2>2, <2>3, <1>1 DEF TypeOK, ReleasedBy
<1>3. Chained(log, nextId)'
  BY <1>1 DEF SingleWriter
<1>4. CASE log' = Visible(s) /\ pending[s] # {}
  <2>1. lock = s /\ \A t \in Session \ {s} :
                      pending[t] = {} /\ pc[t] \notin {"select", "insert"}
    BY <1>4 DEF SingleWriter
  <2>2. \A t \in Session : pending'[t] = {} /\ pc'[t] \notin {"select", "insert"}
    BY <2>1, <1>1 DEF TypeOK
  <2>3. \A t \in Session : Visible(t)' = log'
    BY <2>2 DEF Visible
  <2> QED
    BY <2>2, <2>3, <1>1, <1>2, <1>3 DEF SingleWriter
<1>5. CASE log' = log
  <2>1. Visible(s)' = log /\ pending'[s] = {}
        /\ \A t \in Session \ {s} :
             Visible(t)' = Visible(t) /\ pending'[t] = pending[t]
    BY <1>1, <1>5 DEF Visible, TypeOK
  <2>2. \A t \in Session :
          pc'[t] \in {"select", "insert"} \/ pending'[t] # {} => lock' = t
    BY <2>1, <1>1 DEF SingleWriter, ReleasedBy
  <2> QED
    BY <2>1, <2>2, <1>1, <1>2, <1>3, <1>5 DEF SingleWriter
<1> QED
  BY <1>1, <1>4, <1>5

(* An alteration by hand changes no id and no hash, in any snapshot.           *)
LEMMA AlterStep ==
  ASSUME IInv, Alter
  PROVE  IInv'
<1> USE DEF IInv
<1>1. PICK r \in log, c \in Content, e \in Engagement :
        log' = (log \ {r}) \cup {AlteredRow(r, c, e)}
  BY DEF Alter
<1> DEFINE new == AlteredRow(r, c, e)
<1>2. UNCHANGED <<pending, nextId, lock, pc, prev>>
  BY DEF Alter
<1>3. IsRow(r)
  BY DEF TypeOK
<1>4. /\ new.id = r.id /\ new.prev_hash = r.prev_hash
      /\ new.entry_hash = r.entry_hash /\ new.written = r.written
      /\ new.content = c /\ new.engagement_id = e
      /\ new = AlteredRow(new, c, e)
  BY DEF AlteredRow
<1>5. IsRow(new)
  BY <1>3, <1>4 DEF IsRow
<1> HIDE DEF new
<1>6. \A t \in Session : r \notin pending[t]
  BY <1>3 DEF SingleWriter, IsRow
<1>7. \A t \in Session : Visible(t)' = (Visible(t) \ {r}) \cup {new}
  BY <1>1, <1>2, <1>6 DEF Visible, new
<1>8. \A t \in Session : Chained(Visible(t)', nextId)
                         /\ LastHash(Visible(t)') = LastHash(Visible(t))
  <2> SUFFICES ASSUME NEW t \in Session
               PROVE  Chained(Visible(t)', nextId)
                      /\ LastHash(Visible(t)') = LastHash(Visible(t))
    OBVIOUS
  <2>1. Chained(Visible(t), nextId) /\ r \in Visible(t)
        /\ \A q \in Visible(t) : q.id \in Nat
    BY DEF SingleWriter, Visible, TypeOK, IsRow
  <2> QED
    BY <2>1, <1>4, <1>7, AlterChained
<1>9. Chained(log', nextId)
  <2>1. Chained(log, nextId) /\ \A q \in log : q.id \in Nat
    BY DEF SingleWriter, TypeOK, IsRow
  <2> QED
    BY <2>1, <1>1, <1>4, AlterChained DEF new
<1>10. TypeOK'
  <2>1. \A q \in log' : IsRow(q)
    BY <1>1, <1>5 DEF TypeOK, new
  <2> QED
    BY <2>1, <1>2 DEF TypeOK
<1>11. \A t \in Session : \A q \in log', p \in pending'[t] : q.id < p.id
  BY <1>1, <1>2, <1>4 DEF SingleWriter, new
<1> QED
  BY <1>2, <1>8, <1>9, <1>10, <1>11 DEF SingleWriter

(* The audit log is single-writer and chained in every reachable state.       *)
THEOREM Invariance == Spec => []IInv
<1>1. Init => IInv
  BY InitIInv
<1>2. IInv /\ [Next]_vars => IInv'
  <2> SUFFICES ASSUME IInv, [Next]_vars PROVE IInv'
    OBVIOUS
  <2>1. CASE Alter
    BY <2>1, AlterStep
  <2>2. ASSUME NEW s \in Session, Step(s) PROVE IInv'
    BY <2>2, QuietStep, InsertStep, EndStep DEF Step
  <2>3. CASE UNCHANGED vars
    BY <2>3 DEF vars, IInv, TypeOK, SingleWriter, Visible
  <2> QED
    BY <2>1, <2>2, <2>3 DEF Next
<1> QED
  BY <1>1, <1>2, PTL DEF Spec

(* Two appends never chain to one row: between its SELECT and its commit a      *)
(* session is alone with the log (audit.py:64-84).                             *)
THEOREM OneWriter == Spec => []SingleWriter
BY Invariance, PTL DEF IInv

(* The chain verifies exactly when every row's joined fields read as written,   *)
(* whatever the fields and the way they join, the number of sessions and the   *)
(* order of their appends, commits and rollbacks.                             *)
THEOREM ChainVerifies == Spec => []VerifyExact
<1>1. IInv => VerifyExact
  <2> SUFFICES ASSUME IInv PROVE VerifyExact
    OBVIOUS
  <2>1. \A r \in log : ExpectedPrev(log, r)
          /\ r.entry_hash = compute_entry_hash(r.prev_hash, r.written[1])
    BY DEF IInv, SingleWriter, Chained
  <2>2. \A r \in log : compute_entry_hash(r.prev_hash, r.content) = r.entry_hash
                        <=> Joined[r.content] = Joined[r.written[1]]
    BY <2>1 DEF compute_entry_hash
  <2> QED
    BY <2>1, <2>2 DEF VerifyExact, verify_chain
<1> QED
  BY <1>1, Invariance, PTL

(* Ids become visible in order, and no committed row leaves the table.        *)
THEOREM CommitOrder == Spec => CommitsInIdOrder
<1> DEFINE Ordered ==
      /\ \A r \in log : \E q \in log' : q.id = r.id /\ q.entry_hash = r.entry_hash
      /\ \A q \in log' : \A r \in log :
           q.id <= r.id => \E o \in log : o.id = q.id
<1>1. IInv /\ [Next]_vars => [Ordered]_vars
  <2> SUFFICES ASSUME IInv, Next PROVE Ordered
    BY DEF vars
  <2>0. \A r \in log : r.id \in Nat
    BY DEF IInv, TypeOK, IsRow
  <2>1. CASE log' = log
    BY <2>1
  <2>2. ASSUME NEW s \in Session, Commit(s) PROVE Ordered
    <3>1. log' = log \cup pending[s]
      BY <2>2 DEF Commit
    <3>2. \A q \in log, r \in pending[s] : q.id < r.id /\ r.id \in Nat
      BY DEF IInv, SingleWriter, TypeOK, IsRow
    <3> QED
      BY <2>0, <3>1, <3>2
  <2>3. CASE Alter
    <3>1. PICK r \in log, c \in Content, e \in Engagement :
            log' = (log \ {r}) \cup {AlteredRow(r, c, e)}
      BY <2>3 DEF Alter
    <3>2. AlteredRow(r, c, e).id = r.id /\ AlteredRow(r, c, e).entry_hash = r.entry_hash
      BY DEF AlteredRow
    <3> QED
      BY <3>1, <3>2
  <2> QED
    BY <2>1, <2>2, <2>3
       DEF Next, Step, CallAppend, AcquireLock, SelectPrev, InsertRow, Rollback
<1> QED
  BY <1>1, Invariance, PTL DEF Spec, CommitsInIdOrder

-------------------------------------------------------------------------------
(* A transaction appends at most MaxBatch entries.                              *)
Batched ==
  \A s \in Session :
    /\ IsFiniteSet(pending[s]) /\ Cardinality(pending[s]) <= MaxBatch
    /\ pc[s] # "handler" => Cardinality(pending[s]) < MaxBatch

(* Each step leaves one session a little closer to the bound, or at its start.  *)
LEMMA BatchedStep == TypeOK /\ Batched /\ [Next]_vars => Batched'
<1> SUFFICES ASSUME TypeOK, Batched, [Next]_vars PROVE Batched'
  OBVIOUS
<1>1. /\ DOMAIN pending = Session
      /\ pc \in [Session -> {"handler", "lock", "select", "insert"}]
      /\ \A s \in Session : /\ IsFiniteSet(pending[s]) /\ Cardinality(pending[s]) <= MaxBatch
                            /\ Cardinality(pending[s]) \in Nat
                            /\ pc[s] # "handler" => Cardinality(pending[s]) < MaxBatch
  BY FS_CardinalityType DEF TypeOK, Batched
<1>2. CASE UNCHANGED <<pending, pc>>
  BY <1>2 DEF Batched
<1>3. ASSUME NEW s \in Session, CallAppend(s) \/ AcquireLock(s) \/ SelectPrev(s) PROVE Batched'
  <2>1. pending' = pending /\ \A t \in Session \ {s} : pc'[t] = pc[t]
    BY <1>1, <1>3 DEF CallAppend, AcquireLock, SelectPrev
  <2>2. Cardinality(pending[s]) < MaxBatch
    BY <1>1, <1>3 DEF CallAppend, AcquireLock, SelectPrev
  <2> QED
    BY <1>1, <2>1, <2>2 DEF Batched
<1>4. ASSUME NEW s \in Session, InsertRow(s) PROVE Batched'
  <2>1. PICK row : pending' = [pending EXCEPT ![s] = pending[s] \cup {row}]
    BY <1>4 DEF InsertRow
  <2>2. /\ IsFiniteSet(pending[s] \cup {row})
        /\ Cardinality(pending[s] \cup {row}) <= Cardinality(pending[s]) + 1
    BY <1>1, FS_AddElement
  <2>3. Cardinality(pending[s]) < MaxBatch /\ pc'[s] = "handler"
    BY <1>1, <1>4 DEF InsertRow
  <2>4. Cardinality(pending[s] \cup {row}) <= MaxBatch
    BY <2>2, <2>3, <1>1, BoundAssumption, FS_CardinalityType
  <2>5. \A t \in Session \ {s} : pc'[t] = pc[t] /\ pending'[t] = pending[t]
    BY <1>1, <1>4, <2>1 DEF InsertRow
  <2>6. pending'[s] = pending[s] \cup {row}
    BY <1>1, <2>1
  <2> QED
    BY <1>1, <2>2, <2>3, <2>4, <2>5, <2>6 DEF Batched
<1>5. ASSUME NEW s \in Session, Commit(s) \/ Rollback(s) PROVE Batched'
  <2>1. /\ pending'[s] = {} /\ pc'[s] = "handler"
        /\ \A t \in Session \ {s} : pc'[t] = pc[t] /\ pending'[t] = pending[t]
    BY <1>1, <1>5 DEF Commit, Rollback
  <2>2. IsFiniteSet({}) /\ Cardinality({}) <= MaxBatch
    BY FS_EmptySet, BoundAssumption
  <2> QED
    BY <1>1, <2>1, <2>2 DEF Batched
<1> QED
  BY <1>2, <1>3, <1>4, <1>5 DEF Next, Step, Alter, vars

(* What a reader sees of as many rows as fit a transaction fits a batch.        *)
LEMMA PairsAreRows ==
  ASSUME NEW rows, rows # {}, IsFiniteSet(rows), Cardinality(rows) <= MaxBatch
  PROVE  \E n \in 1 .. MaxBatch : Ledger!AtMost(n, {<<r.id, r.written>> : r \in rows})
<1> DEFINE pairs == {<<r.id, r.written>> : r \in rows}
           n == Cardinality(rows)
<1>1. n \in Nat /\ ExistsBijection(1 .. n, rows)
  BY FS_CardinalityType
<1>2. n \in 1 .. MaxBatch
  BY <1>1, FS_EmptySet, BoundAssumption
<1>3. PICK f \in [1 .. n -> rows] : \A r \in rows : \E i \in 1 .. n : f[i] = r
  BY <1>1 DEF ExistsBijection, Bijection, Surjection
<1> HIDE DEF n
<1> DEFINE b == [i \in 1 .. n |-> <<f[i].id, f[i].written>>]
<1>4. b \in [1 .. n -> pairs]
  OBVIOUS
<1>5. pairs = {b[i] : i \in 1 .. n}
  BY <1>3
<1>6. Ledger!AtMost(n, pairs)
  BY <1>4, <1>5 DEF Ledger!AtMost
<1> QED
  BY <1>2, <1>6

(* What a commit publishes is one batch beyond the ledger.                      *)
LEMMA CommitAppends ==
  ASSUME IInv, Batched, NEW s \in Session, Commit(s)
  PROVE  Ledger!Append
<1> DEFINE led(rows) == {<<r.id, r.written>> : r \in rows}
           new == led(log') \ led(log)
<1>1. log' = log \cup pending[s] /\ pending[s] # {}
  BY DEF Commit
<1>2. /\ \A r \in log \cup pending[s] : r.id \in Nat /\ r.written \in Content \X Engagement
      /\ \A q \in log, r \in pending[s] : q.id < r.id
      /\ \A q, r \in pending[s] : q.id = r.id => q = r
  BY DEF IInv, TypeOK, IsRow, SingleWriter, Chained, Visible
<1>3. new = led(pending[s])
  <2>1. led(log') = led(log) \cup led(pending[s])
    BY <1>1
  <2>2. led(log) \cap led(pending[s]) = {}
    BY <1>2
  <2> QED
    BY <2>1, <2>2
<1>4. led(log) \subseteq led(log')
  BY <1>1
<1>5. Ledger!IsBatch(led(pending[s]))
  <2>1. led(pending[s]) # {} /\ led(pending[s]) \subseteq Nat \X (Content \X Engagement)
    <3>1. PICK r \in pending[s] : TRUE
      BY <1>1
    <3>2. <<r.id, r.written>> \in led(pending[s])
      OBVIOUS
    <3>3. \A q \in pending[s] : <<q.id, q.written>> \in Nat \X (Content \X Engagement)
      BY <1>2
    <3> QED
      BY <3>2, <3>3
  <2>2. \E n \in 1 .. MaxBatch : Ledger!AtMost(n, led(pending[s]))
    BY <1>1, PairsAreRows DEF Batched
  <2>3. \A o, p \in led(pending[s]) : o[1] = p[1] => o = p
    BY <1>2
  <2> HIDE DEF led
  <2> QED
    BY <2>1, <2>2, <2>3 DEF Ledger!IsBatch
<1>6. Ledger!Beyond(led(pending[s]), led(log))
  BY <1>2 DEF Ledger!Beyond
<1> HIDE DEF led
<1>7. led(log) \subseteq led(log') /\ Ledger!IsBatch(new) /\ Ledger!Beyond(new, led(log))
  BY <1>3, <1>4, <1>5, <1>6
<1> QED
  BY <1>7 DEF Ledger!Append, led

(* An alteration behind the trigger changes no id and not what was written.     *)
LEMMA AlterationIsUnseen ==
  ASSUME Alter
  PROVE  UNCHANGED {<<r.id, r.written>> : r \in log}
<1>1. PICK r \in log, c \in Content, e \in Engagement :
        log' = (log \ {r}) \cup {AlteredRow(r, c, e)}
  BY DEF Alter
<1>2. AlteredRow(r, c, e).id = r.id /\ AlteredRow(r, c, e).written = r.written
  BY DEF AlteredRow
<1> QED
  BY <1>1, <1>2

(* The audit log implements the ledger: readers by id see entries that stay as   *)
(* they were written, and new ones only after all those they saw, a whole        *)
(* transaction at a time, for any sessions, batches, rollbacks and alterations.   *)
THEOREM ImplementsTheLedger == Spec => ImplementsLedger
<1>1. Init => Ledger!Init
  BY DEF Init, Ledger!Init
<1>2. IInv /\ Batched /\ [Next]_vars => [Ledger!Append]_({<<r.id, r.written>> : r \in log})
  <2> SUFFICES ASSUME IInv, Batched, [Next]_vars
               PROVE  Ledger!Append \/ UNCHANGED {<<r.id, r.written>> : r \in log}
    OBVIOUS
  <2>1. CASE log' = log
    BY <2>1
  <2>2. CASE Alter
    BY <2>2, AlterationIsUnseen
  <2>3. CASE \E s \in Session : Commit(s)
    BY <2>3, CommitAppends
  <2> QED
    BY <2>1, <2>2, <2>3
       DEF Next, Step, CallAppend, AcquireLock, SelectPrev, InsertRow, Rollback, vars
<1>3. Init => Batched
  BY FS_EmptySet, BoundAssumption DEF Init, Batched
<1>4. IInv => TypeOK
  BY DEF IInv
<1>5. Spec => []Batched
  BY <1>3, <1>4, BatchedStep, Invariance, PTL DEF Spec
<1> QED
  BY <1>1, <1>2, <1>5, Invariance, PTL DEF Spec, ImplementsLedger, Ledger!Spec
================================================================================
