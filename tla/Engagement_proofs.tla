--------------------------- MODULE Engagement_proofs ---------------------------
(* What holds of engagements for any number of requests, engagements, targets   *)
(* and scope entries.                                                          *)
(*                                                                            *)
(* The argument: authorizations, validations, scope entries, audit entries and  *)
(* files never go away (Grows), so what a request read of them still holds when *)
(* it writes; the schema does go away, but a drop excludes whoever uses it.    *)
EXTENDS Engagement, TLAPS

(* A committed authorization was audited, and its file stored.                 *)
DocumentKept ==
  \A e \in Engagement :
    doc[e] # NoArg =>
      /\ <<"authorization.upload", doc[e]>> \in audit[e]
      /\ doc[e] \in UrlDoc \/ <<e, doc[e]>> \in vault

(* Only an authorized engagement is active or has a schema.                    *)
OnlyAuthorized ==
  \A e \in Engagement :
    /\ status[e] = "active" \/ schema[e] => Authorized(e)
    /\ valid[e] => doc[e] # NoArg

IInv ==
  /\ TypeOK /\ DocumentKept /\ OnlyAuthorized
  /\ TaskIsAccountable /\ ReadsStillHold /\ RefusalIsAudited

(* What never goes away.                                                       *)
Grows ==
  /\ vault \subseteq vault'
  /\ \A e \in Engagement :
       /\ doc[e] # NoArg => doc'[e] = doc[e]
       /\ valid[e] => valid'[e]
       /\ scope[e] \subseteq scope'[e]
       /\ audit[e] \subseteq audit'[e]

-------------------------------------------------------------------------------
(* A request past its first read carries an engagement and a known argument.    *)
LEMMA RequestFacts ==
  ASSUME TypeOK, NEW h \in Handler, ~At(h, "idle")
  PROVE  /\ rq[h].eng \in Engagement
         /\ At(h, "upload_store") \/ At(h, "upload_commit") => rq[h].arg \in Doc
         /\ rq[h].pc \in Gated => rq[h].arg \in Job
         /\ At(h, "purge_commit") => rq[h].arg \in BOOLEAN
BY DEF TypeOK, LocalOK, At

(* Which actions write the public tables, the audit log and the vault.          *)
LEMMA PublicFrame ==
  ASSUME Next
  PROVE  \/ \E e \in Engagement : CreateEngagement(e)
         \/ \E e \in Engagement, r \in Rule : AddScope(e, r)
         \/ \E h \in Handler : \/ UploadStore(h) \/ UploadCommit(h) \/ ActivateCommit(h)
                               \/ ViolationCommit(h) \/ ViolationRaise(h) \/ EnqueueCommit(h)
                               \/ PollStore(h) \/ PollCommit(h)
                               \/ CloseCommit(h) \/ PurgeCommit(h)
         \/ UNCHANGED <<public, schema, tasks, audit, vault, refused, purged, overtaken>>
<1>1. ASSUME NEW h \in Handler, NEW e \in Engagement, Receives(h, e)
      PROVE  UNCHANGED <<public, schema, tasks, audit, vault, refused, purged, overtaken>>
  BY <1>1 DEF Receives, UploadRead, GateRead, ActivateRead, PollRead, CloseRead, PurgeRead
<1>2. ASSUME NEW h \in Handler,
             \/ ActivateAuth(h) \/ Provision(h) \/ EnforceScope(h) \/ ViolationAppend(h)
             \/ InsertTask(h) \/ PurgeDrop(h) \/ HandlerCrash(h)
      PROVE  UNCHANGED <<public, schema, tasks, audit, vault, refused, purged, overtaken>>
  BY <1>2 DEF ActivateAuth, Provision, EnforceScope, ViolationAppend, InsertTask, PurgeDrop,
              HandlerCrash
<1> QED
  BY <1>1, <1>2 DEF Next, Handle

(* Every step keeps what never goes away.                                      *)
LEMMA NothingGoesAway ==
  ASSUME TypeOK, Next
  PROVE  Grows
<1> USE DEF Grows, TypeOK, public, append_audit
<1>1. ASSUME NEW e \in Engagement, CreateEngagement(e) PROVE Grows
  BY <1>1 DEF CreateEngagement
<1>2. ASSUME NEW e \in Engagement, NEW r \in Rule, AddScope(e, r) PROVE Grows
  BY <1>2 DEF AddScope
<1>3. ASSUME NEW h \in Handler, UploadStore(h) PROVE Grows
  BY <1>3 DEF UploadStore
<1>4. ASSUME NEW h \in Handler, UploadCommit(h) PROVE Grows
  BY <1>4, RequestFacts DEF UploadCommit, At
<1>5. ASSUME NEW h \in Handler, ActivateCommit(h) PROVE Grows
  BY <1>5, RequestFacts DEF ActivateCommit, At
<1>6. ASSUME NEW h \in Handler, ViolationCommit(h) \/ ViolationRaise(h) PROVE Grows
  BY <1>6, RequestFacts DEF ViolationCommit, ViolationRaise, At
<1>7. ASSUME NEW h \in Handler, EnqueueCommit(h) PROVE Grows
  BY <1>7, RequestFacts DEF EnqueueCommit, At
<1>8. ASSUME NEW h \in Handler, PollStore(h) \/ PollCommit(h) PROVE Grows
  BY <1>8, RequestFacts DEF PollStore, PollCommit, At
<1>9. ASSUME NEW h \in Handler, CloseCommit(h) PROVE Grows
  BY <1>9, RequestFacts DEF CloseCommit, At
<1>10. ASSUME NEW h \in Handler, PurgeCommit(h) PROVE Grows
  BY <1>10, RequestFacts DEF PurgeCommit, At
<1>11. CASE UNCHANGED <<public, schema, tasks, audit, vault, refused, purged, overtaken>>
  BY <1>11
<1> QED
  BY <1>1, <1>2, <1>3, <1>4, <1>5, <1>6, <1>7, <1>8, <1>9, <1>10, <1>11, PublicFrame

-------------------------------------------------------------------------------
(* Types of everything but the requests.                                       *)
DataOK ==
  /\ status \in [Engagement -> Status]
  /\ doc \in [Engagement -> Doc \cup {NoArg}]
  /\ valid \in [Engagement -> BOOLEAN]
  /\ scope \in [Engagement -> SUBSET Rule]
  /\ schema \in [Engagement -> BOOLEAN]
  /\ tasks \in [Engagement -> SUBSET Job]
  /\ DOMAIN audit = Engagement
  /\ vault \subseteq Engagement \X (Doc \cup {"output"})
  /\ refused \subseteq Engagement \X Target
  /\ purged \subseteq Engagement /\ overtaken \subseteq Engagement

(* Every write is typed.                                                       *)
LEMMA DataStep ==
  ASSUME TypeOK, Next
  PROVE  DataOK'
<1>0. DataOK
  BY DEF TypeOK, DataOK
<1> USE DEF DataOK, public, append_audit
<1>1. ASSUME NEW e \in Engagement, CreateEngagement(e) PROVE DataOK'
  BY <1>0, <1>1 DEF CreateEngagement, Status
<1>2. ASSUME NEW e \in Engagement, NEW r \in Rule, AddScope(e, r) PROVE DataOK'
  BY <1>0, <1>2 DEF AddScope
<1>3. ASSUME NEW h \in Handler, UploadStore(h) PROVE DataOK'
  BY <1>0, <1>3, RequestFacts DEF UploadStore, At
<1>4. ASSUME NEW h \in Handler, UploadCommit(h) PROVE DataOK'
  BY <1>0, <1>4, RequestFacts DEF UploadCommit, At
<1>5. ASSUME NEW h \in Handler, ActivateCommit(h) PROVE DataOK'
  BY <1>0, <1>5, RequestFacts DEF ActivateCommit, At, Status
<1>6. ASSUME NEW h \in Handler, ViolationCommit(h) \/ ViolationRaise(h) PROVE DataOK'
  BY <1>0, <1>6, RequestFacts DEF ViolationCommit, ViolationRaise, At, Gated, Job
<1>7. ASSUME NEW h \in Handler, EnqueueCommit(h) PROVE DataOK'
  BY <1>0, <1>7, RequestFacts DEF EnqueueCommit, At, Gated
<1>8. ASSUME NEW h \in Handler, PollStore(h) \/ PollCommit(h) PROVE DataOK'
  BY <1>0, <1>8, RequestFacts DEF PollStore, PollCommit, At
<1>9. ASSUME NEW h \in Handler, CloseCommit(h) PROVE DataOK'
  BY <1>0, <1>9, RequestFacts DEF CloseCommit, At, Status
<1>10. ASSUME NEW h \in Handler, PurgeCommit(h) PROVE DataOK'
  BY <1>0, <1>10, RequestFacts DEF PurgeCommit, At
<1>11. CASE UNCHANGED <<public, schema, tasks, audit, vault, refused, purged, overtaken>>
  BY <1>0, <1>11
<1> QED
  BY <1>1, <1>2, <1>3, <1>4, <1>5, <1>6, <1>7, <1>8, <1>9, <1>10, <1>11, PublicFrame

-------------------------------------------------------------------------------
(* A request is typed, and what it relies on is true.                          *)
RequestsOK == DOMAIN rq = Handler /\ \A h \in Handler : LocalOK(rq[h]) /\ StillTrue(rq[h])

(* A request keeps what it read while others act; each step of its own gives    *)
(* the next label what it relies on.                                           *)
LEMMA RequestStep ==
  ASSUME IInv, Next
  PROVE  RequestsOK'
<1>1. \A l : LocalOK(l) /\ StillTrue(l) => StillTrue(l)'
  <2>1. Grows
    BY NothingGoesAway DEF IInv
  <2> QED
    BY <2>1 DEF Grows, LocalOK, StillTrue, Gated, Authorized, Covered
<1>2. RequestsOK
  BY DEF IInv, TypeOK, ReadsStillHold, RequestsOK
<1>3. ASSUME NEW h \in Handler, NEW l, rq' = [rq EXCEPT ![h] = l], LocalOK(l), StillTrue(l)'
      PROVE  RequestsOK'
  <2>1. DOMAIN rq' = Handler /\ rq'[h] = l /\ \A g \in Handler \ {h} : rq'[g] = rq[g]
    BY <1>2, <1>3 DEF RequestsOK
  <2> QED
    BY <1>1, <1>2, <1>3, <2>1 DEF RequestsOK, StillTrue, Authorized, Covered
<1>4. ASSUME NEW h \in Handler, Return(h) PROVE RequestsOK'
  <2>1. LocalOK(Idle) /\ StillTrue(Idle)'
    BY DEF LocalOK, StillTrue, Idle, Local, Label, Gated
  <2> QED
    BY <1>3, <1>4, <2>1 DEF Return
<1>5. ASSUME NEW h \in Handler, NEW e \in Engagement, Receives(h, e) PROVE RequestsOK'
  <2> DEFINE Reads(label, x) == LocalOK(Local(label, e, x)) /\ StillTrue(Local(label, e, x))'
  <2>1. ASSUME NEW label, NEW x, Receive(h, label, e, x), Reads(label, x)
        PROVE  RequestsOK'
    BY <1>3, <2>1 DEF Receive
  <2>2. ASSUME NEW d \in Doc, UploadRead(h, e, d) PROVE RequestsOK'
    BY <2>1, <2>2 DEF UploadRead, LocalOK, StillTrue, Local, Label, Gated
  <2>3. ASSUME NEW j \in Job, GateRead(h, e, j) PROVE RequestsOK'
    <3>1. Authorized(e)' /\ (IF j.tool = "noop" THEN "insert" ELSE "scope") \in Label
      BY <2>3 DEF GateRead, IInv, OnlyAuthorized, Authorized, public, Label
    <3> QED
      BY <2>1, <2>3, <3>1 DEF GateRead, LocalOK, StillTrue, Local
  <2>4. ASSUME ActivateRead(h, e) \/ PollRead(h, e) \/ CloseRead(h, e) \/ PurgeRead(h, e)
        PROVE  RequestsOK'
    <3>1. \A label \in {"activate_auth", "store", "close_commit", "drop"} : Reads(label, NoArg)
      BY DEF LocalOK, StillTrue, Local, Label, Gated
    <3> HIDE DEF Reads
    <3> QED
      BY <2>1, <2>4, <3>1 DEF ActivateRead, PollRead, CloseRead, PurgeRead
  <2> QED
    BY <1>5, <2>2, <2>3, <2>4 DEF Receives
<1>6. ASSUME NEW h \in Handler, NEW label, NEW e, NEW x, e = rq[h].eng,
             Continue(h, label, x), LocalOK(Local(label, e, x)), StillTrue(Local(label, e, x))'
      PROVE  RequestsOK'
  BY <1>3, <1>6 DEF Continue
<1>7. ASSUME NEW h \in Handler, UploadStore(h), NEW e, e = rq[h].eng, NEW j, j = rq[h].arg
      PROVE  RequestsOK'
  <2>1. e \in Engagement /\ j \in Doc
    BY <1>7, RequestFacts DEF UploadStore, At, IInv
  <2>2. LocalOK(Local("upload_commit", e, j))
    BY <2>1 DEF LocalOK, Local, Label, Gated
  <2>3. StillTrue(Local("upload_commit", e, j))'
    BY <1>7, <2>1 DEF UploadStore, StillTrue, Local, Gated
  <2> QED
    BY <1>6, <1>7, <2>2, <2>3 DEF UploadStore, Goto
<1>8. ASSUME NEW h \in Handler, ActivateAuth(h), NEW e, e = rq[h].eng, NEW j, j = rq[h].arg
      PROVE  RequestsOK'
  <2>1. e \in Engagement
    BY <1>8, RequestFacts DEF ActivateAuth, At, IInv
  <2>2. LocalOK(Local("provision", e, j))
    BY <2>1 DEF LocalOK, Local, Label, Gated
  <2>3. doc[e] # NoArg => StillTrue(Local("provision", e, j))'
    BY <1>8 DEF ActivateAuth, StillTrue, Local, Gated, public
  <2> QED
    BY <1>4, <1>6, <1>8, <2>2, <2>3 DEF ActivateAuth, Goto
<1>9. ASSUME NEW h \in Handler, Provision(h), NEW e, e = rq[h].eng, NEW j, j = rq[h].arg
      PROVE  RequestsOK'
  <2>1. e \in Engagement /\ doc[e] # NoArg
    BY <1>2, <1>9, RequestFacts DEF Provision, At, IInv, RequestsOK, StillTrue
  <2>2. LocalOK(Local("activate_commit", e, j))
    BY <2>1 DEF LocalOK, Local, Label, Gated
  <2>3. StillTrue(Local("activate_commit", e, j))'
    BY <1>9, <2>1 DEF Provision, StillTrue, Local, Gated, public
  <2> QED
    BY <1>4, <1>6, <1>9, <2>2, <2>3 DEF Provision, Goto
<1>10. ASSUME NEW h \in Handler, EnforceScope(h), NEW e, e = rq[h].eng, NEW j, j = rq[h].arg
      PROVE  RequestsOK'
  <2>1. e \in Engagement /\ j \in Job /\ Authorized(e)
    BY <1>2, <1>10, RequestFacts DEF EnforceScope, At, IInv, RequestsOK, StillTrue, Gated
  <2>2. LocalOK(Local("violation", e, j)) /\ LocalOK(Local("insert", e, j))
    BY <2>1 DEF LocalOK, Local, Label, Gated
  <2>3. StillTrue(Local("violation", e, j))'
    BY <1>10, <2>1 DEF EnforceScope, StillTrue, Local, Authorized, public
  <2>4. evaluate(j.target, scope[e]) /\ j.tool = "recon" => StillTrue(Local("insert", e, j))'
    BY <1>10, <2>1 DEF EnforceScope, evaluate, StillTrue, Local, Authorized, Covered, public
  <2> QED
    BY <1>4, <1>6, <1>10, <2>2, <2>3, <2>4 DEF EnforceScope, Goto
<1>11. ASSUME NEW h \in Handler, InsertTask(h), NEW e, e = rq[h].eng, NEW j, j = rq[h].arg
      PROVE  RequestsOK'
  <2>1. e \in Engagement /\ j \in Job /\ StillTrue(rq[h]) /\ rq[h].pc = "insert"
    BY <1>2, <1>11, RequestFacts DEF InsertTask, At, IInv, RequestsOK, Gated
  <2>2. LocalOK(Local("enqueue_commit", e, j))
    BY <2>1 DEF LocalOK, Local, Label, Gated
  <2>3. StillTrue(Local("enqueue_commit", e, j))'
    BY <1>11, <2>1 DEF InsertTask, StillTrue, Local, Gated, Authorized, Covered, public
  <2> QED
    BY <1>4, <1>6, <1>11, <2>2, <2>3 DEF InsertTask, Goto
<1>12. ASSUME NEW h \in Handler, PollStore(h), NEW e, e = rq[h].eng, NEW j, j = rq[h].arg
      PROVE  RequestsOK'
  <2>1. LocalOK(Local("finalize", e, j))
    BY <1>12, RequestFacts DEF PollStore, At, IInv, LocalOK, Local, Label, Gated
  <2>2. StillTrue(Local("finalize", e, j))'
    BY DEF StillTrue, Local, Gated
  <2> QED
    BY <1>6, <1>12, <2>1, <2>2 DEF PollStore, Goto
<1>13. ASSUME NEW h \in Handler, PurgeDrop(h), NEW e, e = rq[h].eng, NEW b, b = schema[e]
      PROVE  RequestsOK'
  <2>1. e \in Engagement /\ b \in BOOLEAN
    BY <1>13, RequestFacts DEF PurgeDrop, At, IInv, TypeOK
  <2>2. LocalOK(Local("purge_commit", e, b))
    BY <2>1 DEF LocalOK, Local, Label, Gated
  <2>3. StillTrue(Local("purge_commit", e, b))'
    BY DEF StillTrue, Local, Gated
  <2> QED
    BY <1>6, <1>13, <2>2, <2>3 DEF PurgeDrop
<1>14. ASSUME NEW h \in Handler,
              \/ UploadCommit(h) \/ ActivateCommit(h) \/ ViolationRaise(h) \/ EnqueueCommit(h)
              \/ PollCommit(h) \/ CloseCommit(h) \/ PurgeCommit(h) \/ HandlerCrash(h)
       PROVE  RequestsOK'
  BY <1>4, <1>14 DEF UploadCommit, ActivateCommit, ViolationRaise, EnqueueCommit, PollCommit,
                     CloseCommit, PurgeCommit, HandlerCrash
<1>15. CASE UNCHANGED rq
  BY <1>1, <1>2, <1>15 DEF RequestsOK, StillTrue, Authorized, Covered
<1>16. ASSUME NEW h \in Handler, ViolationAppend(h) \/ ViolationCommit(h),
              NEW e, e = rq[h].eng, NEW j, j = rq[h].arg
       PROVE  RequestsOK'
  <2>1. e \in Engagement /\ j \in Job /\ Authorized(e) /\ Authorized(e)'
    BY <1>1, <1>2, <1>16, RequestFacts, NothingGoesAway
       DEF ViolationAppend, ViolationCommit, At, IInv, RequestsOK, StillTrue, Gated,
           Grows, Authorized
  <2>2. LocalOK(Local("violation_commit", e, j)) /\ LocalOK(Local("raise", e, j))
    BY <2>1 DEF LocalOK, Local, Label, Gated
  <2>3. StillTrue(Local("violation_commit", e, j))'
    BY <2>1 DEF StillTrue, Local, Authorized
  <2>4. ViolationCommit(h) => StillTrue(Local("raise", e, j))'
    BY <1>16, <2>1 DEF ViolationCommit, append_audit, StillTrue, Local, Authorized, IInv, TypeOK
  <2> QED
    BY <1>6, <1>16, <2>2, <2>3, <2>4 DEF ViolationAppend, ViolationCommit, Goto
<1> QED
  BY <1>5, <1>7, <1>8, <1>9, <1>10, <1>11, <1>12, <1>13, <1>14, <1>15, <1>16
     DEF Next, Handle, CreateEngagement, AddScope

-------------------------------------------------------------------------------
(* A drop and an insertion exclude each other.                                 *)
LEMMA DropStep ==
  ASSUME IInv, Next
  PROVE  DropExcludes'
<1>0. DropExcludes /\ DOMAIN rq = Handler
  BY DEF IInv, ReadsStillHold, TypeOK
<1> USE DEF DropExcludes, Dropping, At
<1>1. ASSUME NEW h \in Handler, NEW l, rq' = [rq EXCEPT ![h] = l], UNCHANGED schema,
             l.pc \notin {"enqueue_commit", "purge_commit"}
      PROVE  DropExcludes'
  BY <1>0, <1>1
<1>2. ASSUME NEW h \in Handler, NEW e \in Engagement, Receives(h, e) PROVE DropExcludes'
  <2>1. ASSUME NEW label, NEW x, Receive(h, label, e, x), UNCHANGED schema,
               label \notin {"enqueue_commit", "purge_commit"}
        PROVE  DropExcludes'
    BY <1>1, <2>1 DEF Receive, Local
  <2> QED
    BY <1>2, <2>1 DEF Receives, UploadRead, GateRead, ActivateRead, PollRead, CloseRead, PurgeRead
<1>3. ASSUME NEW h \in Handler, Return(h), UNCHANGED schema PROVE DropExcludes'
  BY <1>1, <1>3 DEF Return, Idle, Local
<1>4. ASSUME NEW h \in Handler, NEW label, Goto(h, label), UNCHANGED schema,
             label \notin {"enqueue_commit", "purge_commit"}
      PROVE  DropExcludes'
  BY <1>1, <1>4 DEF Goto, Continue, Local
<1>5. ASSUME NEW h \in Handler,
             \/ UploadStore(h) \/ UploadCommit(h) \/ ActivateAuth(h) \/ Provision(h)
             \/ EnforceScope(h) \/ ViolationAppend(h) \/ ViolationCommit(h)
             \/ ViolationRaise(h) \/ EnqueueCommit(h) \/ PollStore(h)
             \/ PollCommit(h) \/ CloseCommit(h) \/ HandlerCrash(h)
      PROVE  DropExcludes'
  BY <1>3, <1>4, <1>5 DEF UploadStore, UploadCommit, ActivateAuth, Provision, EnforceScope,
     ViolationAppend, ViolationCommit, ViolationRaise, EnqueueCommit, PollStore, PollCommit,
     CloseCommit, HandlerCrash
<1>6. ASSUME NEW h \in Handler, ActivateCommit(h) PROVE DropExcludes'
  BY <1>0, <1>6, RequestFacts DEF ActivateCommit, Return, Idle, Local, IInv, TypeOK
<1>7. ASSUME NEW h \in Handler, InsertTask(h) PROVE DropExcludes'
  <2>1. CASE Return(h)
    BY <1>3, <1>7, <2>1 DEF InsertTask
  <2>2. CASE schema[rq[h].eng] /\ Goto(h, "enqueue_commit")
    BY <1>0, <1>7, <2>2 DEF InsertTask, Goto, Continue, Local
  <2> QED
    BY <1>7, <2>1, <2>2 DEF InsertTask
<1>8. ASSUME NEW h \in Handler, PurgeDrop(h) PROVE DropExcludes'
  <2>1. rq[h].eng \in Engagement /\ schema[rq[h].eng] \in BOOLEAN
    BY <1>8, RequestFacts DEF PurgeDrop, IInv, TypeOK
  <2> QED
    BY <1>0, <1>8, <2>1 DEF PurgeDrop, Using, Continue, Local
<1>9. ASSUME NEW h \in Handler, PurgeCommit(h) PROVE DropExcludes'
  <2>1. rq[h].eng \in Engagement /\ rq[h].arg \in BOOLEAN
    BY <1>9, RequestFacts DEF PurgeCommit, IInv
  <2>2. \A e \in Engagement : schema'[e] # schema[e] => e = rq[h].eng /\ h \in Dropping(e)
    BY <1>9, <2>1 DEF PurgeCommit, IInv, TypeOK
  <2>3. \A g \in Handler : rq'[g].pc = "enqueue_commit" =>
          /\ rq'[g] = rq[g] /\ rq[g].eng \in Engagement
          /\ Dropping(rq[g].eng)' \subseteq Dropping(rq[g].eng)
    BY <1>0, <1>9, RequestFacts DEF PurgeCommit, Return, Idle, Local, IInv
  <2> QED
    BY <1>0, <2>2, <2>3
<1>10. CASE UNCHANGED <<rq, schema>>
  BY <1>0, <1>10
<1> QED
  BY <1>2, <1>5, <1>6, <1>7, <1>8, <1>9, <1>10 DEF Next, Handle, CreateEngagement, AddScope

(* A committed authorization keeps its entry and its file.                     *)
LEMMA DocumentStep ==
  ASSUME IInv, Next
  PROVE  DocumentKept'
<1>1. Grows
  BY NothingGoesAway DEF IInv
<1>2. ASSUME NEW h \in Handler, UploadCommit(h) PROVE DocumentKept'
  <2>1. /\ rq[h].eng \in Engagement /\ rq[h].arg \in Doc
        /\ rq[h].arg \in UrlDoc \/ <<rq[h].eng, rq[h].arg>> \in vault
    BY <1>2, RequestFacts DEF UploadCommit, At, IInv, ReadsStillHold, StillTrue
  <2> QED
    BY <1>2, <2>1 DEF UploadCommit, append_audit, DocumentKept, IInv, TypeOK
<1>3. CASE UNCHANGED doc
  BY <1>1, <1>3 DEF Grows, DocumentKept, IInv
<1> QED
  BY <1>2, <1>3, PublicFrame
     DEF public, CreateEngagement, AddScope, UploadStore, ActivateCommit, ViolationCommit,
         ViolationRaise, EnqueueCommit, PollStore, PollCommit, CloseCommit, PurgeCommit

(* Only activate_engagement makes an engagement active, or its schema exist.    *)
LEMMA AuthorizedStep ==
  ASSUME IInv, Next
  PROVE  OnlyAuthorized'
<1>1. \A e \in Engagement : Authorized(e) => Authorized(e)'
  BY NothingGoesAway DEF IInv, Grows, Authorized
<1>2. ASSUME NEW h \in Handler, ActivateCommit(h) PROVE OnlyAuthorized'
  <2>1. rq[h].eng \in Engagement /\ doc[rq[h].eng] # NoArg
    BY <1>2, RequestFacts DEF ActivateCommit, At, IInv, ReadsStillHold, StillTrue
  <2>2. \A e \in Engagement : e = rq[h].eng => Authorized(e)'
    BY <1>2, <2>1 DEF ActivateCommit, append_audit, Authorized, IInv, TypeOK
  <2> QED
    BY <1>1, <1>2, <2>1, <2>2 DEF ActivateCommit, OnlyAuthorized, IInv, TypeOK
<1>3. ASSUME \A e \in Engagement :
               /\ status'[e] = "active" => status[e] = "active"
               /\ schema'[e] => schema[e]
               /\ valid'[e] = valid[e]
      PROVE  OnlyAuthorized'
  BY <1>1, <1>3, NothingGoesAway DEF OnlyAuthorized, IInv, Grows
<1>4. ASSUME NEW e \in Engagement, CreateEngagement(e) PROVE OnlyAuthorized'
  BY <1>3, <1>4 DEF CreateEngagement, IInv, TypeOK
<1>5. ASSUME NEW h \in Handler, CloseCommit(h) PROVE OnlyAuthorized'
  BY <1>3, <1>5 DEF CloseCommit, IInv, TypeOK
<1>6. ASSUME NEW h \in Handler, PurgeCommit(h) PROVE OnlyAuthorized'
  BY <1>3, <1>6 DEF PurgeCommit, public, IInv, TypeOK
<1>7. CASE UNCHANGED <<status, schema, valid>>
  BY <1>3, <1>7
<1> QED
  BY <1>2, <1>4, <1>5, <1>6, <1>7, PublicFrame
     DEF public, AddScope, UploadStore, UploadCommit, ViolationCommit, ViolationRaise,
         EnqueueCommit, PollStore, PollCommit

(* A task is inserted in a table that exists, for a target that was covered;    *)
(* it goes with its table.                                                     *)
LEMMA TaskStep ==
  ASSUME IInv, Next
  PROVE  TaskIsAccountable'
<1>1. \A e \in Engagement, j \in Job :
        /\ Covered(e, j.target) => Covered(e, j.target)'
        /\ audit[e] \subseteq audit'[e]
  BY NothingGoesAway DEF IInv, Grows, Covered
<1>2. ASSUME NEW h \in Handler, EnqueueCommit(h) PROVE TaskIsAccountable'
  <2>1. /\ rq[h].eng \in Engagement /\ rq[h].arg \in Job /\ schema[rq[h].eng]
        /\ \/ rq[h].arg.tool = "noop"
           \/ rq[h].arg.tool = "recon" /\ Covered(rq[h].eng, rq[h].arg.target)
    BY <1>2, RequestFacts
       DEF EnqueueCommit, At, IInv, ReadsStillHold, StillTrue, DropExcludes, Gated
  <2>2. /\ \A e \in Engagement :
             tasks'[e] = IF e = rq[h].eng THEN tasks[e] \cup {rq[h].arg} ELSE tasks[e]
        /\ <<"task.enqueue", rq[h].arg.target>> \in audit'[rq[h].eng]
        /\ schema' = schema
    BY <1>2, <2>1 DEF EnqueueCommit, append_audit, IInv, TypeOK
  <2> SUFFICES ASSUME NEW e \in Engagement, NEW j \in Job, j \in tasks'[e]
               PROVE  /\ schema[e] /\ <<"task.enqueue", j.target>> \in audit'[e]
                      /\ j.tool = "noop" \/ (j.tool = "recon" /\ Covered(e, j.target)')
    BY <2>2 DEF TaskIsAccountable
  <2>3. CASE j \in tasks[e]
    BY <1>1, <2>3 DEF TaskIsAccountable, IInv
  <2>4. CASE e = rq[h].eng /\ j = rq[h].arg
    BY <1>1, <2>1, <2>2, <2>4
  <2> QED
    BY <2>2, <2>3, <2>4
<1>3. ASSUME NEW h \in Handler, PurgeCommit(h) PROVE TaskIsAccountable'
  <2>1. rq[h].eng \in Engagement /\ rq[h].arg \in BOOLEAN
    BY <1>3, RequestFacts DEF PurgeCommit, At, IInv
  <2>2. \A e \in Engagement :
          tasks'[e] = {} \/ (tasks'[e] = tasks[e] /\ schema'[e] = schema[e])
    BY <1>3, <2>1 DEF PurgeCommit, IInv, TypeOK
  <2> QED
    BY <1>1, <2>2 DEF TaskIsAccountable, IInv
<1>4. ASSUME NEW h \in Handler, ActivateCommit(h) PROVE TaskIsAccountable'
  BY <1>1, <1>4 DEF ActivateCommit, TaskIsAccountable, IInv, TypeOK
<1>5. CASE UNCHANGED <<tasks, schema>>
  BY <1>1, <1>5 DEF TaskIsAccountable, IInv
<1> QED
  BY <1>2, <1>3, <1>4, <1>5, PublicFrame
     DEF public, CreateEngagement, AddScope, UploadStore, UploadCommit, ViolationCommit,
         ViolationRaise, PollStore, PollCommit, CloseCommit

(* A refusal is answered by a request whose entry is committed.                *)
LEMMA RefusalStep ==
  ASSUME IInv, Next
  PROVE  RefusalIsAudited'
<1>1. \A e \in Engagement : audit[e] \subseteq audit'[e]
  BY NothingGoesAway DEF IInv, Grows
<1>2. ASSUME NEW h \in Handler, ViolationRaise(h) PROVE RefusalIsAudited'
  <2>1. <<"scope.violation", rq[h].arg.target>> \in audit[rq[h].eng]
    BY <1>2 DEF ViolationRaise, At, IInv, ReadsStillHold, StillTrue
  <2> QED
    BY <1>1, <1>2, <2>1 DEF ViolationRaise, RefusalIsAudited, IInv
<1>3. CASE UNCHANGED refused
  BY <1>1, <1>3 DEF RefusalIsAudited, IInv
<1> QED
  BY <1>2, <1>3, PublicFrame
     DEF CreateEngagement, AddScope, UploadStore, UploadCommit, ActivateCommit,
         ViolationCommit, EnqueueCommit, PollStore, PollCommit, CloseCommit, PurgeCommit

-------------------------------------------------------------------------------
(* The first states satisfy the inductive invariant.                           *)
LEMMA InitIInv == Init => IInv
BY DEF Init, IInv, TypeOK, Status, LocalOK, Label, Idle, Local, DocumentKept, OnlyAuthorized,
       Authorized, TaskIsAccountable, ReadsStillHold, DropExcludes, StillTrue, At, Gated,
       RefusalIsAudited

(* The inductive invariant holds in every reachable state.                     *)
THEOREM Invariance == Spec => []IInv
<1>1. IInv /\ [Next]_vars => IInv'
  <2>1. ASSUME IInv, Next PROVE IInv'
    <3>1. TypeOK'
      BY <2>1, DataStep, RequestStep DEF IInv, DataOK, RequestsOK, TypeOK
    <3>2. ReadsStillHold'
      BY <2>1, DropStep, RequestStep DEF RequestsOK, ReadsStillHold
    <3> QED
      BY <2>1, <3>1, <3>2, DocumentStep, AuthorizedStep, TaskStep, RefusalStep DEF IInv
  <2>2. ASSUME IInv, UNCHANGED vars PROVE IInv'
    BY <2>2 DEF vars, public, IInv, TypeOK, LocalOK, DocumentKept, OnlyAuthorized, Authorized,
                TaskIsAccountable, Covered, ReadsStillHold, DropExcludes, Dropping, StillTrue,
                At, RefusalIsAudited
  <2> QED
    BY <2>1, <2>2
<1> QED
  BY <1>1, InitIInv, PTL DEF Spec

(* Every variable keeps its type.                                              *)
THEOREM TypeCorrect == Spec => []TypeOK
BY Invariance, PTL DEF IInv

(* "Pas d'activation sans autorisation", for any number of racing requests: no  *)
(* active engagement, no schema and no task without a validated, audited and    *)
(* stored authorization.                                                       *)
THEOREM AuthorizationFirst == Spec => []NoActionWithoutAuthorization
<1>1. IInv => NoActionWithoutAuthorization
  <2> SUFFICES ASSUME IInv, NEW e \in Engagement,
                      status[e] = "active" \/ schema[e] \/ tasks[e] # {}
               PROVE  Authorized(e)
    BY DEF IInv, NoActionWithoutAuthorization, DocumentKept, Authorized
  <2>1. tasks[e] # {} => schema[e]
    BY DEF IInv, TypeOK, TaskIsAccountable
  <2> QED
    BY <2>1 DEF IInv, OnlyAuthorized
<1> QED
  BY <1>1, Invariance, PTL

(* Every task row is covered by an in_scope rule, audited, and in a schema that *)
(* exists.                                                                     *)
THEOREM TasksAreAccountable == Spec => []TaskIsAccountable
BY Invariance, PTL DEF IInv

(* What a request read still holds when it commits, the status excepted.       *)
THEOREM ReadsHold == Spec => []ReadsStillHold
BY Invariance, PTL DEF IInv

(* Every 403 for a target has its entry in the audit log.                      *)
THEOREM RefusalsAreAudited == Spec => []RefusalIsAudited
BY Invariance, PTL DEF IInv

(* An authorization is never replaced, nor its validation withdrawn.            *)
THEOREM AuthorizationsAreFinal == Spec => AuthorizationIsFinal
<1> DEFINE Final == \A e \in Engagement :
                      /\ doc[e] # NoArg => doc'[e] = doc[e]
                      /\ valid[e] => valid'[e] /\ doc[e] # NoArg
<1>1. IInv /\ [Next]_vars => [Final]_vars
  BY NothingGoesAway DEF IInv, OnlyAuthorized, Grows
<1> QED
  BY <1>1, Invariance, PTL DEF Spec, AuthorizationIsFinal

-------------------------------------------------------------------------------
(* The life cycle under racing requests: a closing overtakes an activation, or   *)
(* the status an activation or a purge read still bears out what it does.       *)
OnCourse(l) ==
  l.eng \notin overtaken =>
    /\ l.pc \in Activating => status[l.eng] \in {"draft", "active"}
    /\ l.pc \in {"drop", "purge_commit"} => status[l.eng] = "closed"
    /\ l.pc = "purge_commit" /\ schema[l.eng] => l.arg = TRUE

Course == \A h \in Handler : OnCourse(rq[h])

LifeInv == ActiveHasSchema /\ PurgeIsFinal /\ Course

(* An activation does not bring an engagement back that was closed before it     *)
(* read: status and schema of a closed engagement stay as they are, or go.      *)
LEMMA ClosedStays ==
  ASSUME IInv, LifeInv, Next
  PROVE  /\ overtaken \subseteq overtaken'
         /\ \A e \in Engagement \ overtaken :
              status[e] = "closed" => status'[e] = "closed" /\ (schema'[e] => schema[e])
<1> DEFINE Goal == /\ overtaken \subseteq overtaken'
                   /\ \A e \in Engagement \ overtaken : status[e] = "closed" =>
                        status'[e] = "closed" /\ (schema'[e] => schema[e])
<1>1. /\ status \in [Engagement -> Status] /\ schema \in [Engagement -> BOOLEAN]
      /\ \A h \in Handler : OnCourse(rq[h]) /\ (rq[h].pc # "idle" => rq[h].eng \in Engagement)
  BY RequestFacts DEF IInv, TypeOK, LifeInv, Course, At
<1>2. ASSUME NEW e \in Engagement, CreateEngagement(e) PROVE Goal
  BY <1>1, <1>2 DEF CreateEngagement
<1>3. ASSUME NEW h \in Handler, ActivateCommit(h) PROVE Goal
  BY <1>1, <1>3 DEF ActivateCommit, At, OnCourse, Activating
<1>4. ASSUME NEW h \in Handler, CloseCommit(h) PROVE Goal
  BY <1>1, <1>4 DEF CloseCommit, At
<1>5. ASSUME NEW h \in Handler, PurgeCommit(h) PROVE Goal
  BY <1>1, <1>5 DEF PurgeCommit, At, public
<1>6. ASSUME UNCHANGED <<status, schema, overtaken>> PROVE Goal
  BY <1>6
<1> HIDE DEF Goal
<1>7. ASSUME NEW h \in Handler,
             \/ UploadStore(h) \/ UploadCommit(h) \/ ViolationCommit(h) \/ ViolationRaise(h)
             \/ EnqueueCommit(h) \/ PollStore(h) \/ PollCommit(h)
      PROVE  Goal
  BY <1>6, <1>7 DEF UploadStore, UploadCommit, ViolationCommit, ViolationRaise, EnqueueCommit,
                    PollStore, PollCommit, public
<1>8. ASSUME NEW e \in Engagement, NEW r \in Rule, AddScope(e, r) PROVE Goal
  BY <1>6, <1>8 DEF AddScope
<1>9. CASE UNCHANGED <<public, schema, tasks, audit, vault, refused, purged, overtaken>>
  BY <1>6, <1>9 DEF public
<1> QED
  BY <1>2, <1>3, <1>4, <1>5, <1>7, <1>8, <1>9, PublicFrame DEF Goal

(* An engagement becomes active with its schema; a purge drops the schema of a   *)
(* closed one.                                                                 *)
LEMMA ActiveStep ==
  ASSUME IInv, LifeInv, Next
  PROVE  ActiveHasSchema'
<1>1. /\ status \in [Engagement -> Status] /\ schema \in [Engagement -> BOOLEAN]
      /\ ActiveHasSchema /\ overtaken \subseteq overtaken'
      /\ \A h \in Handler : OnCourse(rq[h]) /\ (rq[h].pc # "idle" => rq[h].eng \in Engagement)
  BY RequestFacts, ClosedStays DEF IInv, TypeOK, LifeInv, Course, At
<1>2. ASSUME NEW e \in Engagement, CreateEngagement(e) PROVE ActiveHasSchema'
  BY <1>1, <1>2 DEF CreateEngagement, ActiveHasSchema
<1>3. ASSUME NEW h \in Handler, ActivateCommit(h) PROVE ActiveHasSchema'
  BY <1>1, <1>3 DEF ActivateCommit, At, ActiveHasSchema
<1>4. ASSUME NEW h \in Handler, CloseCommit(h) PROVE ActiveHasSchema'
  BY <1>1, <1>4 DEF CloseCommit, At, ActiveHasSchema
<1>5. ASSUME NEW h \in Handler, PurgeCommit(h) PROVE ActiveHasSchema'
  BY <1>1, <1>5 DEF PurgeCommit, At, public, OnCourse, ActiveHasSchema
<1>6. CASE UNCHANGED <<status, schema>>
  BY <1>1, <1>6 DEF ActiveHasSchema
<1> QED
  BY <1>2, <1>3, <1>4, <1>5, <1>6, PublicFrame
     DEF public, AddScope, UploadStore, UploadCommit, ViolationCommit, ViolationRaise,
         EnqueueCommit, PollStore, PollCommit

(* A purge confirmed leaves no schema; a closed engagement gets none.           *)
LEMMA PurgeStep ==
  ASSUME IInv, LifeInv, Next, TaskIsAccountable'
  PROVE  PurgeIsFinal'
<1> DEFINE Gone == \A e \in purged' \ overtaken' :
                     e \in Engagement /\ status'[e] = "closed" /\ ~schema'[e]
<1>1. /\ overtaken \subseteq overtaken'
      /\ \A e \in purged \ overtaken : e \in Engagement /\ status'[e] = "closed" /\ ~schema'[e]
  BY ClosedStays DEF IInv, TypeOK, LifeInv, PurgeIsFinal
<1>2. ASSUME NEW h \in Handler, PurgeCommit(h) PROVE Gone
  <2>1. rq[h].eng \in Engagement /\ OnCourse(rq[h]) /\ rq[h].arg \in BOOLEAN
    BY <1>2, RequestFacts DEF PurgeCommit, At, IInv, LifeInv, Course
  <2>2. rq[h].eng \notin overtaken => status'[rq[h].eng] = "closed" /\ ~schema'[rq[h].eng]
    BY <1>2, <2>1 DEF PurgeCommit, public, At, OnCourse, IInv, TypeOK
  <2> QED
    BY <1>1, <1>2, <2>1, <2>2 DEF PurgeCommit
<1>3. ASSUME UNCHANGED purged PROVE Gone
  BY <1>1, <1>3
<1>4. Gone
  BY <1>2, <1>3, PublicFrame
     DEF CreateEngagement, AddScope, UploadStore, UploadCommit, ActivateCommit,
         ViolationCommit, ViolationRaise, EnqueueCommit, PollStore, PollCommit, CloseCommit
<1>5. \A e \in Engagement : tasks'[e] \subseteq Job
  BY DataStep DEF IInv, DataOK
<1> QED
  BY <1>4, <1>5 DEF PurgeIsFinal, TaskIsAccountable

(* Whatever the others do, what a request read of the status stays right; so it  *)
(* is with the steps that write the status or the schema.                       *)
LEMMA CourseStep ==
  ASSUME IInv, LifeInv, Next
  PROVE  Course'
<1>0. /\ DOMAIN rq = Handler /\ status \in [Engagement -> Status]
      /\ schema \in [Engagement -> BOOLEAN] /\ overtaken \subseteq overtaken'
      /\ \A h \in Handler : OnCourse(rq[h]) /\ (rq[h].pc # "idle" => rq[h].eng \in Engagement)
  BY RequestFacts, ClosedStays DEF IInv, TypeOK, LifeInv, Course, At
<1>1. ASSUME NEW h \in Handler, NEW l, rq' = [rq EXCEPT ![h] = l], OnCourse(l),
             UNCHANGED <<status, schema, overtaken>>
      PROVE  Course'
  BY <1>0, <1>1 DEF Course, OnCourse
<1>2. ASSUME NEW h \in Handler, Return(h), UNCHANGED <<status, schema, overtaken>> PROVE Course'
  BY <1>1, <1>2 DEF Return, OnCourse, Idle, Local, Activating
<1>3. ASSUME NEW h \in Handler, NEW e \in Engagement, Receives(h, e) PROVE Course'
  <2>1. ASSUME NEW label, NEW x, Receive(h, label, e, x), UNCHANGED <<status, schema, overtaken>>,
               OnCourse(Local(label, e, x))
        PROVE  Course'
    BY <1>1, <2>1 DEF Receive
  <2>2. ASSUME NEW d \in Doc, UploadRead(h, e, d) PROVE Course'
    BY <2>1, <2>2 DEF UploadRead, OnCourse, Local, Activating, public
  <2>3. ASSUME NEW j \in Job, GateRead(h, e, j) PROVE Course'
    BY <2>1, <2>3 DEF GateRead, OnCourse, Local, Activating, public
  <2>4. ASSUME ActivateRead(h, e) \/ PollRead(h, e) \/ CloseRead(h, e) \/ PurgeRead(h, e)
        PROVE  Course'
    BY <2>1, <2>4
       DEF ActivateRead, PollRead, CloseRead, PurgeRead, OnCourse, Local, Activating, public
  <2> QED
    BY <1>3, <2>2, <2>3, <2>4 DEF Receives
<1>4. ASSUME NEW h \in Handler, NEW label, NEW e, e = rq[h].eng, NEW x, Continue(h, label, x),
             UNCHANGED <<status, schema, overtaken>>, OnCourse(Local(label, e, x))
      PROVE  Course'
  BY <1>1, <1>4 DEF Continue
<1>5. ASSUME NEW h \in Handler, NEW e, e = rq[h].eng, NEW x, x = rq[h].arg,
             \/ UploadStore(h) \/ ActivateAuth(h) \/ Provision(h) \/ EnforceScope(h)
             \/ ViolationAppend(h) \/ ViolationCommit(h) \/ InsertTask(h) \/ PollStore(h)
      PROVE  Course'
  BY <1>0, <1>2, <1>4, <1>5
     DEF UploadStore, ActivateAuth, Provision, EnforceScope, ViolationAppend, ViolationCommit,
         InsertTask, PollStore, At, Goto, OnCourse, Local, Activating, public
<1>6. ASSUME NEW h \in Handler, NEW e, e = rq[h].eng, NEW b, b = schema[e], PurgeDrop(h)
      PROVE  Course'
  BY <1>0, <1>4, <1>6 DEF PurgeDrop, At, OnCourse, Local, Activating, public
<1>7. ASSUME NEW h \in Handler,
             \/ UploadCommit(h) \/ ViolationRaise(h) \/ EnqueueCommit(h)
             \/ PollCommit(h) \/ HandlerCrash(h)
      PROVE  Course'
  BY <1>2, <1>7 DEF UploadCommit, ViolationRaise, EnqueueCommit, PollCommit, HandlerCrash, public
<1>8. ASSUME NEW h \in Handler, NEW e \in Engagement, e = rq[h].eng,
             ActivateCommit(h) \/ CloseCommit(h) \/ PurgeCommit(h)
      PROVE  Course'
  <2>1. /\ \A g \in Handler \ {h} : rq'[g] = rq[g]
        /\ rq'[h].pc = "idle"
        /\ \A f \in Engagement \ {e} : status'[f] = status[f] /\ schema'[f] = schema[f]
    BY <1>0, <1>8 DEF ActivateCommit, CloseCommit, PurgeCommit, Return, Idle, Local, public
  <2>2. ActivateCommit(h) => status[e] # "closed" \/ e \in overtaken
    BY <1>0, <1>8 DEF ActivateCommit, At, OnCourse, Activating
  <2>3. ActivateCommit(h) => status'[e] = "active"
    BY <1>0, <1>8 DEF ActivateCommit
  <2>4. CloseCommit(h) =>
          /\ status'[e] = "closed" /\ schema' = schema
          /\ (\E g \in Handler : rq[g].eng = e /\ rq[g].pc \in Activating) => e \in overtaken'
    BY <1>0, <1>8 DEF CloseCommit
  <2>5. PurgeCommit(h) => status' = status /\ (schema'[e] => schema[e])
    BY <1>0, <1>8 DEF PurgeCommit, public
  <2>6. ASSUME NEW g \in Handler PROVE OnCourse(rq[g])'
    <3>1. CASE g = h
      BY <2>1, <3>1 DEF OnCourse, Activating
    <3>2. CASE g # h /\ rq[g].eng # e
      BY <1>0, <2>1, <3>2 DEF OnCourse, Activating
    <3>3. CASE g # h /\ rq[g].eng = e
      BY <1>0, <1>8, <2>1, <2>2, <2>3, <2>4, <2>5, <3>3 DEF OnCourse, Activating
    <3> QED
      BY <3>1, <3>2, <3>3
  <2> QED
    BY <2>6 DEF Course
<1>9. ASSUME NEW e \in Engagement, CreateEngagement(e) \/ \E r \in Rule : AddScope(e, r)
      PROVE  Course'
  <2>1. rq' = rq /\ schema' = schema /\ overtaken' = overtaken
        /\ \A f \in Engagement : status[f] # "none" => status'[f] = status[f]
    BY <1>0, <1>9 DEF CreateEngagement, AddScope
  <2> QED
    BY <1>0, <2>1 DEF Course, OnCourse, Activating
<1>10. \A h \in Handler : ActivateCommit(h) \/ CloseCommit(h) \/ PurgeCommit(h) =>
         rq[h].eng \in Engagement
  BY <1>0 DEF ActivateCommit, CloseCommit, PurgeCommit, At
<1> QED
  BY <1>3, <1>5, <1>6, <1>7, <1>8, <1>9, <1>10 DEF Next, Handle

(* The life-cycle invariant holds in every reachable state.                     *)
THEOREM LifeCycle == Spec => []LifeInv
<1>1. Init => LifeInv
  <2> SUFFICES ASSUME Init PROVE LifeInv
    OBVIOUS
  <2>1. ActiveHasSchema /\ PurgeIsFinal
    BY DEF Init, ActiveHasSchema, PurgeIsFinal
  <2>2. \A h \in Handler : rq[h].pc = "idle"
    BY DEF Init, Idle, Local
  <2> QED
    BY <2>1, <2>2 DEF LifeInv, Course, OnCourse, Activating
<1>2. IInv /\ IInv' /\ LifeInv /\ [Next]_vars => LifeInv'
  <2>1. ASSUME IInv, IInv', LifeInv, Next PROVE LifeInv'
    BY <2>1, ActiveStep, PurgeStep, CourseStep DEF LifeInv, IInv
  <2>2. ASSUME LifeInv, UNCHANGED vars PROVE LifeInv'
    BY <2>2 DEF vars, public, LifeInv, ActiveHasSchema, PurgeIsFinal, Course, OnCourse
  <2> QED
    BY <2>1, <2>2
<1> QED
  BY <1>1, <1>2, Invariance, PTL DEF Spec

(* An active engagement has its schema, unless a closing overtook its            *)
(* activation.                                                                 *)
THEOREM ActiveHasItsSchema == Spec => []ActiveHasSchema
BY LifeCycle, PTL DEF LifeInv

(* What was purged stays closed, without schema and tasks, with that exception.  *)
THEOREM PurgesAreFinal == Spec => []PurgeIsFinal
BY LifeCycle, PTL DEF LifeInv
================================================================================
