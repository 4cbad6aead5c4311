---------------------------- MODULE LockOrder_proofs -----------------------------
(* What holds of the locks for any number of sessions: only purges deadlock.    *)
(*                                                                            *)
(* The argument: the handlers other than purges ask for their locks in one      *)
(* order (Rank).  In a set of them that all wait for one another, take one that  *)
(* waits for a lock of the highest rank, and of those the first in the queue:    *)
(* whoever blocks it waits for a lock of a higher rank, or is ahead of it.       *)
EXTENDS LockOrder, SequenceTheorems, WellFoundedInduction, TLAPS

Objects == {"tasks", "assets", "row", "schema", "authorization", "audit", "engagement"}
Locks == [object : Objects, mode : {"shared", "exclusive"}]

(* The one order.                                                              *)
RankOf == [o \in Objects |-> CASE o = "tasks" -> 1 [] o = "assets" -> 2
                               [] o \in {"row", "schema", "authorization"} -> 3
                               [] o = "audit" -> 4 [] o = "engagement" -> 5]
Rank(l) == RankOf[l.object]

(* A handler asks in that order, and holds only what it asked for before.       *)
InOrder(p, taken) ==
  /\ \A i, j \in DOMAIN p : i < j => Rank(p[i]) < Rank(p[j])
  /\ \A k \in taken, i \in DOMAIN p : Rank(k) < Rank(p[i])

Typed ==
  /\ handler \in [Session -> {"idle", "purge", "other"}]
  /\ rest \in [Session -> Seq(Locks)]
  /\ held \in [Session -> SUBSET Locks]
  /\ queue \in Seq(Session)

IInv ==
  /\ Typed /\ TypeOK
  /\ \A s \in Session : handler[s] = "other" => InOrder(rest[s], held[s])

-------------------------------------------------------------------------------
(* Every handler but the purge follows the order.                              *)
LEMMA OthersAreOrdered ==
  \A p \in Others : p \in Seq(Locks) /\ p # <<>> /\ InOrder(p, {})
<1>1. \A o \in Objects : Use(o) \in Locks /\ Lock(o) \in Locks
                          /\ Rank(Use(o)) = RankOf[o] /\ Rank(Lock(o)) = RankOf[o]
  BY DEF Use, Lock, L, Locks, Rank
<1>2. /\ RankOf["tasks"] = 1 /\ RankOf["assets"] = 2 /\ RankOf["row"] = 3
      /\ RankOf["schema"] = 3 /\ RankOf["authorization"] = 3 /\ RankOf["audit"] = 4
      /\ RankOf["engagement"] = 5
  BY DEF RankOf, Objects
<1>3. \A o \in {"tasks", "assets", "row", "schema", "authorization", "audit", "engagement"} :
        o \in Objects
  BY DEF Objects
<1>4. ASSUME NEW a \in Locks, NEW b \in Locks, Rank(a) < Rank(b)
      PROVE  <<a, b>> \in Seq(Locks) /\ <<a, b>> # <<>> /\ InOrder(<<a, b>>, {})
  BY <1>4 DEF InOrder
<1>5. ASSUME NEW a \in Locks, NEW b \in Locks, NEW c \in Locks,
             Rank(a) < Rank(b), Rank(b) < Rank(c), Rank(a) < Rank(c)
      PROVE  <<a, b, c>> \in Seq(Locks) /\ <<a, b, c>> # <<>> /\ InOrder(<<a, b, c>>, {})
  BY <1>5 DEF InOrder
<1>6. ASSUME NEW a \in Locks, NEW b \in Locks, NEW c \in Locks, NEW d \in Locks,
             Rank(a) < Rank(b), Rank(b) < Rank(c), Rank(c) < Rank(d),
             Rank(a) < Rank(c), Rank(a) < Rank(d), Rank(b) < Rank(d)
      PROVE  /\ <<a, b, c, d>> \in Seq(Locks) /\ <<a, b, c, d>> # <<>>
             /\ InOrder(<<a, b, c, d>>, {})
  BY <1>6 DEF InOrder
<1> DEFINE Good(p) == p \in Seq(Locks) /\ p # <<>> /\ InOrder(p, {})
<1> HIDE DEF Good
<1>7. Good(<<Use("tasks"), Lock("audit")>>)
  BY <1>1, <1>2, <1>3, <1>4 DEF Good
<1>9. Good(<<Lock("audit"), Lock("engagement")>>) /\ Good(<<Lock("authorization"), Lock("audit")>>)
  BY <1>1, <1>2, <1>3, <1>4 DEF Good
<1>10. Good(<<Use("tasks"), Lock("row"), Lock("audit")>>)
  BY <1>1, <1>2, <1>3, <1>5 DEF Good
<1>11. Good(<<Lock("schema"), Lock("audit"), Lock("engagement")>>)
  BY <1>1, <1>2, <1>3, <1>5 DEF Good
<1>12. Good(<<Use("tasks"), Use("assets"), Lock("row"), Lock("audit")>>)
  BY <1>1, <1>2, <1>3, <1>6 DEF Good
<1>13. \A p \in Others : Good(p)
  BY <1>7, <1>9, <1>10, <1>11, <1>12
     DEF Others, Enqueue, Kill, Poll, Close, Activate, Upload
<1> QED
  BY <1>13 DEF Good

(* A purge asks for known locks.                                               *)
LEMMA PurgesAreTyped == \A p \in Purge : p \in Seq(Locks) /\ p # <<>>
<1>1. \A o \in {"schema", "tasks", "assets", "audit"} : Lock(o) \in Locks
  BY DEF Lock, L, Locks, Objects
<1>2. ASSUME NEW a \in Locks, NEW b \in Locks, NEW c \in Locks, NEW d \in Locks
      PROVE  <<a, b, c, d>> \in Seq(Locks) /\ <<a, b, c, d>> # <<>>
  OBVIOUS
<1>3. /\ Lock("schema") \in Locks /\ Lock("tasks") \in Locks
      /\ Lock("assets") \in Locks /\ Lock("audit") \in Locks
  BY <1>1
<1> QED
  BY <1>2, <1>3 DEF Purge

(* Ranks are small naturals, the same for locks of one object.                 *)
LEMMA RankType ==
  /\ \A l \in Locks : Rank(l) \in 1 .. 5
  /\ \A l, k \in Locks : Conflict(l, k) => Rank(l) = Rank(k)
BY DEF Rank, RankOf, Locks, Objects, Conflict

(* A set of naturals that is not empty has a least element.                     *)
LEMMA Least ==
  ASSUME NEW T \in SUBSET Nat, T # {}
  PROVE  \E x \in T : \A y \in T : x <= y
<1> DEFINE R == {r \in Nat \X Nat : r[1] < r[2]}
<1>1. IsWellFoundedOn(R, Nat)
  BY NatLessThanWellFounded DEF OpToRel
<1>2. PICK x \in T : \A y \in T : ~ (<<y, x>> \in R)
  BY <1>1, WFMin
<1>3. \A y \in T : y \in Nat /\ x \in Nat /\ ~ (y < x)
  BY <1>2
<1>4. \A y \in T : x <= y
  BY <1>3
<1> QED
  BY <1>4

-------------------------------------------------------------------------------
(* A session taken out of the queue is there no more, and the others stay.      *)
LEMMA Removal ==
  ASSUME NEW S, NEW q \in Seq(S), IsInjective(q), NEW n \in DOMAIN q
  PROVE  /\ RemoveAt(q, n) \in Seq(S) /\ IsInjective(RemoveAt(q, n))
         /\ ToSet(RemoveAt(q, n)) \subseteq ToSet(q) \ {q[n]}
<1> DEFINE a == SubSeq(q, 1, n - 1)
           b == SubSeq(q, n + 1, Len(q))
           r == a \o b
<1>1. Len(q) \in Nat /\ n \in 1 .. Len(q) /\ DOMAIN q = 1 .. Len(q)
  BY LenProperties
<1>2. /\ a \in Seq(S) /\ Len(a) = n - 1
      /\ \A i \in 1 .. n - 1 : a[i] = q[i]
  <2>1. 1 \in Int /\ n - 1 \in Int /\ \A i \in 1 .. n - 1 : q[i] \in S
    BY <1>1, ElementOfSeq
  <2>2. /\ a \in Seq(S) /\ Len(a) = IF 1 <= n - 1 THEN (n - 1) - 1 + 1 ELSE 0
        /\ \A i \in 1 .. (n - 1) - 1 + 1 : a[i] = q[1 + i - 1]
    BY ONLY <2>1, SubSeqProperties
  <2> HIDE DEF a
  <2> QED
    BY <2>2, <1>1
<1>3. /\ b \in Seq(S) /\ Len(b) = Len(q) - n
      /\ \A i \in 1 .. Len(q) - n : b[i] = q[n + i]
  <2>1. n + 1 \in Int /\ Len(q) \in Int /\ \A i \in n + 1 .. Len(q) : q[i] \in S
    BY <1>1, ElementOfSeq
  <2>2. /\ b \in Seq(S) /\ Len(b) = IF n + 1 <= Len(q) THEN Len(q) - (n + 1) + 1 ELSE 0
        /\ \A i \in 1 .. Len(q) - (n + 1) + 1 : b[i] = q[n + 1 + i - 1]
    BY ONLY <2>1, SubSeqProperties
  <2> HIDE DEF b
  <2>3. Len(b) = Len(q) - n
    BY <2>2, <1>1
  <2>4. Len(q) - (n + 1) + 1 = Len(q) - n /\ \A i \in Int : n + 1 + i - 1 = n + i
    BY <1>1
  <2>5. ASSUME NEW i \in 1 .. Len(q) - n PROVE b[i] = q[n + i]
    <3>1. i \in 1 .. Len(q) - (n + 1) + 1 /\ i \in Int
      BY <2>4
    <3> QED
      BY <3>1, <2>2, <2>4
  <2> QED
    BY <2>2, <2>3, <2>5
<1> HIDE DEF a, b
<1>4. /\ r \in Seq(S) /\ DOMAIN r = 1 .. Len(q) - 1
      /\ \A i \in 1 .. Len(q) - 1 : r[i] = IF i < n THEN q[i] ELSE q[i + 1]
  <2>1. /\ r \in Seq(S) /\ Len(r) = Len(q) - 1
        /\ \A i \in 1 .. Len(q) - 1 : r[i] = IF i <= n - 1 THEN a[i] ELSE b[i - (n - 1)]
    <3>1. Len(a) + Len(b) = Len(q) - 1 /\ Len(a) = n - 1
      BY <1>1, <1>2, <1>3
    <3>2. /\ r \in Seq(S) /\ Len(r) = Len(a) + Len(b)
          /\ \A i \in 1 .. Len(a) + Len(b) : r[i] = IF i <= Len(a) THEN a[i] ELSE b[i - Len(a)]
      BY <1>2, <1>3, ConcatProperties
    <3> QED
      BY <3>1, <3>2
  <2>2. DOMAIN r = 1 .. Len(q) - 1
    BY <2>1, LenProperties
  <2> HIDE DEF r
  <2>3. ASSUME NEW i \in 1 .. Len(q) - 1, i < n PROVE r[i] = q[i]
    <3>1. i <= n - 1 /\ i \in 1 .. n - 1
      BY <2>3, <1>1
    <3> QED
      BY <3>1, <2>1, <1>2
  <2>4. ASSUME NEW i \in 1 .. Len(q) - 1, ~ (i < n) PROVE r[i] = q[i + 1]
    <3>1. ~ (i <= n - 1) /\ i - (n - 1) \in 1 .. Len(q) - n /\ n + (i - (n - 1)) = i + 1
      BY <2>4, <1>1
    <3>2. r[i] = b[i - (n - 1)]
      BY <3>1, <2>1
    <3>3. b[i - (n - 1)] = q[n + (i - (n - 1))]
      BY <3>1, <1>3
    <3> QED
      BY <3>1, <3>2, <3>3
  <2> QED
    BY <2>1, <2>2, <2>3, <2>4
<1>5. RemoveAt(q, n) = r
  BY DEF RemoveAt, a, b
<1> HIDE DEF r
<1>6. IsInjective(r)
  <2> SUFFICES ASSUME NEW i \in DOMAIN r, NEW j \in DOMAIN r, r[i] = r[j]
               PROVE  i = j
    BY DEF IsInjective
  <2>1. \A k, l \in 1 .. Len(q) : q[k] = q[l] => k = l
    BY <1>1 DEF IsInjective
  <2>2. /\ i < n => r[i] = q[i] /\ i \in 1 .. Len(q)
        /\ ~ (i < n) => r[i] = q[i + 1] /\ i + 1 \in 1 .. Len(q)
        /\ j < n => r[j] = q[j] /\ j \in 1 .. Len(q)
        /\ ~ (j < n) => r[j] = q[j + 1] /\ j + 1 \in 1 .. Len(q)
    BY <1>1, <1>4
  <2> QED
    BY <2>1, <2>2, <1>1, <1>4
<1>7. ASSUME NEW i \in DOMAIN r PROVE r[i] \in ToSet(q) \ {q[n]}
  <2>1. r[i] \in ToSet(q)
    BY <1>1, <1>4 DEF ToSet
  <2>2. r[i] # q[n]
    BY <1>1, <1>4 DEF IsInjective
  <2> QED
    BY <2>1, <2>2
<1> QED
  BY <1>4, <1>5, <1>6, <1>7 DEF ToSet

-------------------------------------------------------------------------------
(* What the queue is without s.                                                *)
LEMMA Leaves ==
  ASSUME Typed, TypeOK, NEW s \in Session
  PROVE  /\ Without(s) \in Seq(Session) /\ IsInjective(Without(s))
         /\ ToSet(Without(s)) \subseteq ToSet(queue) \ {s}
<1>1. queue \in Seq(Session) /\ IsInjective(queue)
  BY DEF Typed, TypeOK
<1>2. ASSUME Waiting(s) PROVE Place(s) \in DOMAIN queue /\ queue[Place(s)] = s
  BY <1>2 DEF Waiting, Place, ToSet
<1>3. CASE Waiting(s)
  BY <1>1, <1>2, <1>3, Removal DEF Without
<1>4. CASE ~Waiting(s)
  BY <1>1, <1>4 DEF Without, Waiting
<1> QED
  BY <1>3, <1>4

(* A step that changes one session, and the queue for no other, keeps IInv.     *)
LEMMA OneSession ==
  ASSUME IInv, NEW s \in Session,
         NEW h \in {"idle", "purge", "other"}, NEW p \in Seq(Locks), NEW k \in SUBSET Locks,
         handler' = [handler EXCEPT ![s] = h], rest' = [rest EXCEPT ![s] = p],
         held' = [held EXCEPT ![s] = k],
         queue' \in Seq(Session), IsInjective(queue'),
         ToSet(queue') \subseteq ToSet(queue) \cup {s}, s \in ToSet(queue') => p # <<>>,
         h = "idle" => p = <<>> /\ k = {}, h = "other" => InOrder(p, k)
  PROVE  IInv'
<1>1. /\ handler \in [Session -> {"idle", "purge", "other"}] /\ rest \in [Session -> Seq(Locks)]
      /\ held \in [Session -> SUBSET Locks]
      /\ \A t \in Session : handler[t] = "idle" => rest[t] = <<>> /\ held[t] = {}
      /\ ToSet(queue) \subseteq {t \in Session : rest[t] # <<>>}
      /\ \A t \in Session : handler[t] = "other" => InOrder(rest[t], held[t])
  BY DEF IInv, Typed, TypeOK
<1>2. /\ handler' \in [Session -> {"idle", "purge", "other"}]
      /\ rest' \in [Session -> Seq(Locks)] /\ held' \in [Session -> SUBSET Locks]
  BY <1>1
<1>3. \A t \in Session : /\ handler'[t] = IF t = s THEN h ELSE handler[t]
                         /\ rest'[t] = IF t = s THEN p ELSE rest[t]
                         /\ held'[t] = IF t = s THEN k ELSE held[t]
  BY <1>1
<1>4. \A t \in Session : handler'[t] = "idle" => rest'[t] = <<>> /\ held'[t] = {}
  BY <1>1, <1>3
<1>5. \A t \in Session : handler'[t] = "other" => InOrder(rest'[t], held'[t])
  BY <1>1, <1>3
<1>6. ToSet(queue') \subseteq {t \in Session : rest'[t] # <<>>}
  BY <1>1, <1>3
<1> QED
  BY <1>2, <1>4, <1>5, <1>6 DEF IInv, Typed, TypeOK, InOrder, Rank

(* Every step of a session keeps IInv.                                         *)
LEMMA Inductive == IInv /\ [Next]_vars => IInv'
<1> SUFFICES ASSUME IInv, [Next]_vars PROVE IInv'
  OBVIOUS
<1>1. /\ handler \in [Session -> {"idle", "purge", "other"}] /\ rest \in [Session -> Seq(Locks)]
      /\ held \in [Session -> SUBSET Locks] /\ queue \in Seq(Session) /\ IsInjective(queue)
      /\ \A t \in Session : handler[t] = "idle" => rest[t] = <<>> /\ held[t] = {}
      /\ ToSet(queue) \subseteq {t \in Session : rest[t] # <<>>}
      /\ \A t \in Session : handler[t] = "other" => InOrder(rest[t], held[t])
  BY DEF IInv, Typed, TypeOK
<1>2. ASSUME NEW s \in Session, NEW h \in {"purge", "other"}, NEW p, Begin(s, h, p),
             p \in Seq(Locks), p # <<>>, h = "other" => InOrder(p, {})
      PROVE  IInv'
  <2>1. /\ held[s] = {} /\ held' = [held EXCEPT ![s] = {}]
        /\ handler' = [handler EXCEPT ![s] = h] /\ rest' = [rest EXCEPT ![s] = p]
        /\ queue' = queue
    BY <1>1, <1>2 DEF Begin
  <2> QED
    BY <2>1, <1>1, <1>2, OneSession
<1>3. ASSUME NEW s \in Session, Ask(s) PROVE IInv'
  <2>1. /\ handler' = [handler EXCEPT ![s] = handler[s]] /\ rest' = [rest EXCEPT ![s] = rest[s]]
        /\ held' = [held EXCEPT ![s] = held[s]]
        /\ queue' = Append(queue, s) /\ rest[s] # <<>> /\ s \notin ToSet(queue)
    BY <1>1, <1>3 DEF Ask, Waiting
  <2>2. /\ queue' \in Seq(Session) /\ DOMAIN queue = 1 .. Len(queue) /\ Len(queue) \in Nat
        /\ DOMAIN queue' = 1 .. Len(queue) + 1
        /\ \A i \in 1 .. Len(queue) : queue'[i] = queue[i]
        /\ queue'[Len(queue) + 1] = s
    BY <2>1, <1>1, AppendProperties, LenProperties
  <2>3. ToSet(queue') \subseteq ToSet(queue) \cup {s}
    BY <2>2 DEF ToSet
  <2>4. \A i \in 1 .. Len(queue) : queue[i] # s
    BY <2>1, <2>2 DEF ToSet
  <2>5. IsInjective(queue')
    <3>1. \A i, j \in 1 .. Len(queue) : queue[i] = queue[j] => i = j
      BY <1>1, <2>2 DEF IsInjective
    <3> QED
      BY <3>1, <2>2, <2>4 DEF IsInjective
  <2>6. handler[s] # "idle"
    BY <1>1, <2>1
  <2>7. /\ rest[s] \in Seq(Locks) /\ held[s] \in SUBSET Locks
        /\ handler[s] \in {"idle", "purge", "other"}
        /\ handler[s] = "other" => InOrder(rest[s], held[s])
    BY <1>1
  <2> QED
    BY <2>1, <2>2, <2>3, <2>5, <2>6, <2>7, OneSession
<1>4. ASSUME NEW s \in Session, Take(s) PROVE IInv'
  <2>1. /\ handler' = [handler EXCEPT ![s] = handler[s]]
        /\ rest' = [rest EXCEPT ![s] = Tail(rest[s])]
        /\ held' = [held EXCEPT ![s] = held[s] \cup {rest[s][1]}]
        /\ queue' = Without(s) /\ rest[s] # <<>>
    BY <1>1, <1>4 DEF Take
  <2>2. queue' \in Seq(Session) /\ IsInjective(queue') /\ ToSet(queue') \subseteq ToSet(queue) \ {s}
    BY <2>1, Leaves DEF IInv
  <2>3. handler[s] # "idle"
    BY <1>1, <2>1
  <2> DEFINE p == rest[s]
  <2>4. /\ p \in Seq(Locks) /\ p # <<>> /\ Tail(p) \in Seq(Locks)
        /\ Len(p) \in Nat \ {0} /\ DOMAIN p = 1 .. Len(p)
        /\ DOMAIN Tail(p) = 1 .. Len(p) - 1
        /\ \A i \in 1 .. Len(p) - 1 : Tail(p)[i] = p[i + 1]
    BY <1>1, <2>1, HeadTailProperties, LenProperties, EmptySeq
  <2>5. held[s] \cup {p[1]} \in SUBSET Locks
    BY <1>1, <2>4, ElementOfSeq
  <2>6. InOrder(p, held[s]) => InOrder(Tail(p), held[s] \cup {p[1]})
    <3> SUFFICES ASSUME InOrder(p, held[s]) PROVE InOrder(Tail(p), held[s] \cup {p[1]})
      OBVIOUS
    <3> HIDE DEF p
    <3>1. /\ \A i, j \in 1 .. Len(p) : i < j => Rank(p[i]) < Rank(p[j])
          /\ \A k \in held[s], i \in 1 .. Len(p) : Rank(k) < Rank(p[i])
      BY <2>4 DEF InOrder
    <3>2. \A i \in 1 .. Len(p) - 1 : i + 1 \in 1 .. Len(p) /\ 1 < i + 1 /\ 1 \in 1 .. Len(p)
      BY <2>4
    <3>3. \A i, j \in 1 .. Len(p) - 1 : i < j => Rank(Tail(p)[i]) < Rank(Tail(p)[j])
      BY <3>1, <3>2, <2>4
    <3>4. \A k \in held[s] \cup {p[1]}, i \in 1 .. Len(p) - 1 : Rank(k) < Rank(Tail(p)[i])
      BY <3>1, <3>2, <2>4
    <3> QED
      BY <3>3, <3>4, <2>4 DEF InOrder
  <2> QED
    BY <2>1, <2>2, <2>3, <2>4, <2>5, <2>6, <1>1, OneSession
<1>5. ASSUME NEW s \in Session, Finish(s) PROVE IInv'
  <2>1. /\ handler' = [handler EXCEPT ![s] = "idle"] /\ rest' = [rest EXCEPT ![s] = <<>>]
        /\ held' = [held EXCEPT ![s] = {}] /\ queue' = queue /\ s \notin ToSet(queue)
    BY <1>5 DEF Finish, Waiting
  <2> QED
    BY <2>1, <1>1, EmptySeq, OneSession
<1>6. ASSUME NEW s \in Session, Detected(s) PROVE IInv'
  <2>1. /\ handler' = [handler EXCEPT ![s] = "idle"] /\ rest' = [rest EXCEPT ![s] = <<>>]
        /\ held' = [held EXCEPT ![s] = {}] /\ queue' = Without(s)
    BY <1>6 DEF Detected
  <2>2. queue' \in Seq(Session) /\ IsInjective(queue') /\ ToSet(queue') \subseteq ToSet(queue) \ {s}
    BY <2>1, Leaves DEF IInv
  <2> QED
    BY <2>1, <2>2, EmptySeq, OneSession
<1>7. CASE UNCHANGED vars
  BY <1>7 DEF vars, IInv, Typed, TypeOK, InOrder, Rank
<1> QED
  BY <1>2, <1>3, <1>4, <1>5, <1>6, <1>7, OthersAreOrdered, PurgesAreTyped DEF Next

(* No session runs, and none waits.                                            *)
LEMMA Starts == Init => IInv
<1> SUFFICES ASSUME Init PROVE IInv
  OBVIOUS
<1>1. Typed /\ TypeOK
  BY EmptySeq DEF Init, Typed, TypeOK, ToSet, IsInjective
<1> QED
  BY <1>1 DEF Init, IInv

(* Every variable has its type, and handlers other than purges hold their locks *)
(* in one order.                                                               *)
THEOREM TypeCorrect == Spec => []TypeOK
<1>1. IInv => TypeOK
  BY DEF IInv
<1> QED
  BY <1>1, Starts, Inductive, PTL DEF Spec

-------------------------------------------------------------------------------
(* The argument of the head of this module.                                    *)
LEMMA NoCycleOfOthers == IInv => OnlyPurgesDeadlock
<1> SUFFICES ASSUME IInv, NEW S \in SUBSET {s \in Session : handler[s] # "purge"}, Stuck(S)
             PROVE  FALSE
  BY DEF OnlyPurgesDeadlock
<1> DEFINE W(s) == rest[s][1]
           height(s) == 5 - Rank(W(s))
<1>1. ASSUME NEW s \in S
      PROVE  /\ s \in Session /\ Waiting(s) /\ W(s) \in Locks
             /\ \A k \in held[s] : k \in Locks /\ Rank(k) < Rank(W(s))
             /\ Rank(W(s)) \in 1 .. 5 /\ Place(s) \in Nat
  <2>1. s \in Session /\ handler[s] # "purge" /\ Waiting(s)
    BY DEF Stuck
  <2>2. rest[s] # <<>>
    BY <2>1 DEF IInv, TypeOK, Waiting
  <2>3. handler[s] = "other" /\ rest[s] \in Seq(Locks) /\ held[s] \subseteq Locks
    BY <2>1, <2>2 DEF IInv, TypeOK, Typed
  <2>4. InOrder(rest[s], held[s])
    BY <2>1, <2>3 DEF IInv
  <2>5. 1 \in DOMAIN rest[s] /\ W(s) \in Locks
    BY <2>2, <2>3, EmptySeq, LenProperties, ElementOfSeq
  <2>6. Place(s) \in Nat
    <3>1. queue \in Seq(Session)
      BY DEF IInv, Typed
    <3>2. Place(s) \in DOMAIN queue
      BY <2>1 DEF Waiting, Place, ToSet
    <3> QED
      BY <3>1, <3>2, LenProperties
  <2> QED
    BY <2>1, <2>3, <2>4, <2>5, <2>6, RankType DEF InOrder
<1> HIDE DEF W
<1>2. PICK m \in {height(s) : s \in S} : \A n \in {height(s) : s \in S} : m <= n
  <2>1. {height(s) : s \in S} \in SUBSET Nat /\ {height(s) : s \in S} # {}
    BY <1>1 DEF Stuck
  <2> HIDE DEF height
  <2> QED
    BY <2>1, Least
<1> DEFINE M == {s \in S : height(s) = m}
<1>3. PICK first \in {Place(s) : s \in M} : \A n \in {Place(s) : s \in M} : first <= n
  <2>1. {Place(s) : s \in M} \in SUBSET Nat /\ {Place(s) : s \in M} # {}
    BY <1>1, <1>2
  <2> HIDE DEF M
  <2> QED
    BY <2>1, Least
<1>4. PICK s \in M : Place(s) = first
  BY <1>3
<1>5. PICK t \in S : Blocks(t, s)
  BY DEF Stuck
<1>6. /\ s \in S /\ Rank(W(s)) \in 1 .. 5 /\ Rank(W(t)) \in 1 .. 5
      /\ height(s) = m /\ m <= height(t) /\ Waiting(s)
      /\ Place(s) \in Nat /\ Place(t) \in Nat
  BY <1>1, <1>2, <1>4
<1>7. Rank(W(t)) <= Rank(W(s))
  BY <1>6
<1>8. ~ \E k \in held[t] : Conflict(k, W(s))
  <2> SUFFICES ASSUME NEW k \in held[t], Conflict(k, W(s)) PROVE FALSE
    OBVIOUS
  <2>1. k \in Locks /\ Rank(k) = Rank(W(s)) /\ Rank(k) < Rank(W(t))
    BY <1>1, <1>6, RankType
  <2> QED
    BY <2>1, <1>6, <1>7
<1>9. ~ (Ahead(t, s) /\ Conflict(W(t), W(s)))
  <2> SUFFICES ASSUME Ahead(t, s), Conflict(W(t), W(s)) PROVE FALSE
    OBVIOUS
  <2>1. Rank(W(t)) = Rank(W(s))
    BY <1>1, <1>6, RankType
  <2>2. t \in M
    BY <2>1, <1>6
  <2>3. Place(t) < Place(s)
    BY <1>6 DEF Ahead
  <2>4. first <= Place(t)
    BY <2>2, <1>3
  <2> QED
    BY <2>3, <2>4, <1>4, <1>6
<1> QED
  BY <1>5, <1>8, <1>9 DEF Blocks, W

(* Every cycle of waits has a purge in it, for any number of sessions.          *)
THEOREM DeadlocksNeedAPurge == Spec => []OnlyPurgesDeadlock
BY Starts, Inductive, NoCycleOfOthers, PTL DEF Spec

-------------------------------------------------------------------------------
(* Nobody waits for a session that does nothing: what a session waits for is     *)
(* held or asked for by one that waits itself or is at work.                    *)
LEMMA BlockersAct ==
  ASSUME IInv, NEW s \in Session, NEW t \in Session, Blocks(t, s)
  PROVE  Waiting(t) \/ handler[t] # "idle"
<1>1. handler[t] = "idle" => held[t] = {}
  BY DEF IInv, TypeOK
<1> QED
  BY <1>1 DEF Blocks, Ahead

(* No wait is lost: as long as a session waits, one of the waiting can take its  *)
(* lock, or some session is at work, or all that wait are a set that PostgreSQL  *)
(* detects (the part of RequestsEnd that is no liveness).                       *)
THEOREM NoLostWait ==
  Spec => [](\A s \in Session : Waiting(s) =>
               \/ \E t \in Session : Waiting(t) /\ ~Blocked(t)
               \/ \E t \in Session : handler[t] # "idle" /\ ~Waiting(t)
               \/ Stuck({t \in Session : Waiting(t)}))
<1>1. ASSUME IInv, NEW s \in Session, Waiting(s),
             \A t \in Session : Waiting(t) => Blocked(t),
             \A t \in Session : handler[t] # "idle" => Waiting(t)
      PROVE  Stuck({t \in Session : Waiting(t)})
  <2>1. ASSUME NEW t \in Session, Waiting(t)
        PROVE  \E u \in {v \in Session : Waiting(v)} : Blocks(u, t)
    BY <1>1, <2>1, BlockersAct DEF Blocked
  <2> QED
    BY <1>1, <2>1 DEF Stuck
<1> DEFINE P == \A s \in Session : Waiting(s) =>
                 \/ \E t \in Session : Waiting(t) /\ ~Blocked(t)
                 \/ \E t \in Session : handler[t] # "idle" /\ ~Waiting(t)
                 \/ Stuck({t \in Session : Waiting(t)})
<1>2. IInv => P
  BY <1>1
<1> QED
  BY <1>2, Starts, Inductive, PTL DEF Spec
================================================================================
