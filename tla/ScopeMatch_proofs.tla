---------------------------- MODULE ScopeMatch_proofs -----------------------------
(* What holds of the scope for every rule a lead may write, every text a client  *)
(* may send and every name, address and network.                               *)
(*                                                                            *)
(* The argument: on a host without marks, a rule matches only what it covers,    *)
(* and all of it if it is plainly written; so the decision of evaluate is that   *)
(* of the reference.  The rows are right because what a request computed from    *)
(* the rules it read (rq) is right, and scope entries are only added.           *)
EXTENDS ScopeMatch, TLAPS

RuleType ==
  [disposition : {"in_scope", "out_of_scope", "exclusion"},
   kind : {"domain", "ip", "cidr", "contract"},
   value : [host : Host, marks : SUBSET (Mark \cup {"*."})],
   chain : BOOLEAN]

(* A sequence ends with itself.                                                *)
LEMMA SuffixOfItself == ASSUME NEW s \in Seq(STRING) PROVE IsSuffix(s, s)
<1>1. Reverse(s) \in Seq(STRING)
  BY DEF Reverse
<1>2. Len(Reverse(s)) \in Nat
  BY <1>1
<1> QED
  BY <1>2 DEF IsSuffix, IsPrefix

(* The class of a host without marks.                                          *)
LEMMA Classes ==
  ASSUME NEW host
  PROVE  /\ Text(host, {}).host = host /\ Text(host, {}).marks = {}
         /\ ~(IsContract(host) /\ IsAddress(host))
         /\ classify(Text(host, {})) = "contract" <=> IsContract(host)
         /\ classify(Text(host, {})) = "ip" <=> IsAddress(host)
         /\ classify(Text(host, {})) = "domain" <=> ~IsAddress(host) /\ ~IsContract(host)
<1>1. Text(host, {}).host = host /\ Text(host, {}).marks = {}
  BY DEF Text
<1>2. ~(IsContract(host) /\ IsAddress(host))
  BY AddressAssumption DEF IsContract, IsAddress, Label
<1>3. classify(Text(host, {})) =
        IF IsContract(host) THEN "contract" ELSE IF IsAddress(host) THEN "ip" ELSE "domain"
  <2>1. /\ IsAddress(Text(host, {}).host) <=> IsAddress(host)
        /\ IsContract(Text(host, {}).host) <=> IsContract(host)
    BY <1>1
  <2> QED
    BY <1>1, <1>2, <2>1 DEF classify
<1> QED
  BY <1>1, <1>2, <1>3

(* A domain rule matches whole labels, and its own host unless it is a wildcard. *)
LEMMA DomainRule ==
  ASSUME NEW v \in [host : Host, marks : SUBSET (Mark \cup {"*."})], NEW host
  PROVE  /\ domain_matches(v, Text(host, {})) =>
              IsSuffix(v.host, host) /\ ("*." \in v.marks => host # v.host)
         /\ v.marks \subseteq {"*.", "dot", "case"} =>
              (domain_matches(v, Text(host, {})) <=>
                 IsSuffix(v.host, host) /\ ("*." \in v.marks => host # v.host))
<1> DEFINE m == v.marks \ {"dot", "case"}
           below == IsSuffix(v.host, host) /\ v.host # host
<1>1. domain_matches(v, Text(host, {})) <=>
        IF m = {"*."} THEN below ELSE IF m = {} THEN below \/ host = v.host ELSE FALSE
  <2>1. Text(host, {}).host = host /\ (Text(host, {}) = Text(v.host, {}) <=> host = v.host)
    BY DEF Text
  <2>2. {"*."} # {}
    OBVIOUS
  <2> QED
    BY <2>1, <2>2 DEF domain_matches
<1>2. IsSuffix(v.host, v.host)
  BY SuffixOfItself DEF Host
<1>3. /\ m = {"*."} => "*." \in v.marks
      /\ m = {} => "*." \notin v.marks
      /\ v.marks \subseteq {"*.", "dot", "case"} => m = {"*."} \/ m = {}
  OBVIOUS
<1> HIDE DEF m
<1> QED
  BY <1>1, <1>2, <1>3

(* A rule matches a host without marks only if it covers it.                    *)
LEMMA RulesAreSound ==
  ASSUME NEW r \in Rule, NEW host, rule_matches(r, Text(host, {}))
  PROVE  Covers(r, host)
<1> DEFINE h == Text(host, {})
<1>1. r \in RuleType
  BY RuleAssumption DEF RuleType
<1>2. CASE r.kind = "domain"
  <2>1. classify(h) = "domain" /\ domain_matches(r.value, h)
    BY <1>2 DEF rule_matches
  <2> QED
    BY <1>1, <1>2, <2>1, Classes, DomainRule DEF Covers, RuleType
<1>3. CASE r.kind = "ip"
  <2>1. classify(h) = "ip" /\ r.value = h
    BY <1>3 DEF rule_matches
  <2>2. IsAddress(host) /\ r.value.host = host
    BY <2>1, Classes
  <2> QED
    BY <1>3, <2>2 DEF Covers
<1>4. CASE r.kind = "cidr"
  <2>1. classify(h) = "ip" /\ InNetwork(h.host, r.value)
    BY <1>4 DEF rule_matches
  <2> QED
    BY <1>4, <2>1, Classes DEF Covers
<1>5. CASE r.kind = "contract"
  <2>1. classify(h) = "contract" /\ Text(r.value.host, r.value.marks \ {"case"}) = h
    BY <1>5 DEF rule_matches, same_addr
  <2>2. r.value.host = host
    BY <2>1 DEF Text
  <2> QED
    BY <1>5, <2>1, <2>2, Classes DEF Covers
<1> QED
  BY <1>1, <1>2, <1>3, <1>4, <1>5 DEF RuleType

(* A plainly written rule matches all that it covers of the hosts in normal form. *)
LEMMA PlainRulesAreComplete ==
  ASSUME NEW r \in Rule, Plain(r), NEW host \in Host, Normal(host), Covers(r, host)
  PROVE  rule_matches(r, Text(host, {}))
<1> DEFINE h == Text(host, {})
<1>1. r \in RuleType
  BY RuleAssumption DEF RuleType
<1>2. CASE r.kind = "domain"
  <2>1. r.value.marks \subseteq {"*.", "dot", "case"}
    BY <1>2 DEF Plain
  <2>2. /\ ~IsAddress(host) /\ ~IsContract(host) /\ IsSuffix(r.value.host, host)
        /\ "*." \in r.value.marks => host # r.value.host
    BY <1>2 DEF Covers
  <2>3. classify(h) = "domain"
    BY <2>2, Classes
  <2>4. domain_matches(r.value, h)
    BY <1>1, <2>1, <2>2, DomainRule DEF RuleType
  <2> QED
    BY <1>2, <2>3, <2>4 DEF rule_matches
<1>3. CASE r.kind = "ip"
  <2>1. /\ IsAddress(host) /\ IsAddress(r.value.host) /\ r.value.marks = {}
        /\ Address[host[1]] = Address[r.value.host[1]]
    BY <1>3 DEF Covers, Plain
  <2>2. host[1] = r.value.host[1]
    BY <1>3, <2>1, CanonicalAssumption DEF Plain, Normal, IsAddress, Label
  <2>3. r.value.host \in Seq(STRING) /\ Len(r.value.host) = 1
    BY <1>1, <2>1 DEF RuleType, Host, IsAddress, Label
  <2>4. host = r.value.host
    <3>1. host \in Seq(STRING) /\ Len(host) = 1
      BY <2>1 DEF Host, IsAddress, Label
    <3> QED
      BY <2>2, <2>3, <3>1
  <2>5. r.value = h
    BY <1>1, <2>1, <2>4 DEF Text, RuleType
  <2>6. classify(h) = "ip"
    BY <2>1, Classes
  <2> QED
    BY <1>3, <2>5, <2>6 DEF rule_matches
<1>4. CASE r.kind = "cidr"
  <2>1. IsAddress(host) /\ InNetwork(host, r.value) /\ r.value.marks \subseteq {"case"}
    BY <1>4 DEF Covers, Plain
  <2>2. classify(h) = "ip" /\ h.host = host
    BY <2>1, Classes
  <2> QED
    BY <1>4, <2>1, <2>2 DEF rule_matches
<1>5. CASE r.kind = "contract"
  <2>1. IsContract(host) /\ host = r.value.host /\ r.value.marks = {} /\ ~r.chain
    BY <1>5 DEF Covers, Plain
  <2>2. classify(h) = "contract"
    BY <2>1, Classes
  <2>3. same_addr(r.value, h)
    BY <2>1 DEF same_addr, Text
  <2> QED
    BY <1>5, <2>1, <2>2, <2>3 DEF rule_matches
<1> QED
  BY <1>1, <1>2, <1>3, <1>4, <1>5 DEF RuleType

-------------------------------------------------------------------------------
(* The decision of the code on a text that it reads as a host without marks.    *)
LEMMA Decision ==
  ASSUME NEW t, extract_host(t) = Text(t.host, {}), t.host \in Host, Normal(t.host),
         NEW R \in SUBSET Rule
  PROVE  /\ evaluate(t, R) =>
              /\ \E r \in R : Allows(r) /\ Covers(r, t.host)
              /\ \A r \in R : ~Allows(r) /\ Covers(r, t.host) => ~Plain(r)
         /\ (\A r \in R : Plain(r)) => (evaluate(t, R) <=> Allowed(t.host, R))
<1>1. \A r \in R : rule_matches(r, extract_host(t)) => Covers(r, t.host)
  BY RulesAreSound
<1>2. \A r \in R : Plain(r) /\ Covers(r, t.host) => rule_matches(r, extract_host(t))
  BY PlainRulesAreComplete
<1>3. extract_host(t).host # <<>>
  BY Classes DEF Host
<1> QED
  BY <1>1, <1>2, <1>3 DEF evaluate, Allowed

(* A readable target, the values of a line, and what build_args accepts, lose    *)
(* their marks.                                                                *)
LEMMA Readings ==
  /\ \A t \in Target : Readable(t) =>
       extract_host(t) = Text(t.host, {}) /\ t.host \in Host /\ Normal(t.host)
  /\ \A l \in Line : /\ extract_host(l.value) = Text(l.value.host, {})
                     /\ l.value.host \in Name
  /\ \A t \in Target : build_args(t) => t.host \in Name /\ extract_host(t) = Text(t.host, {})
  /\ \A n \in Name : n \in Host /\ Normal(n)
<1>1. ASSUME NEW t \in Target
      PROVE  /\ t.marks \subseteq {"spaces", "case", "dot", "port", "path", "user", "url", "inner"}
             /\ t.host \in Host
  BY TargetAssumption DEF Mark
<1>2. ASSUME NEW t \in Target, Readable(t) PROVE extract_host(t) = Text(t.host, {})
  <2>1. CASE "url" \in t.marks
    <3>1. t.marks \ Mark = {}
      BY <1>1 DEF Mark
    <3> QED
      BY <2>1, <3>1 DEF extract_host
  <2>2. CASE "url" \notin t.marks
    <3>1. /\ "user" \notin t.marks /\ "inner" \notin t.marks
          /\ ~("port" \in t.marks /\ t.host[1] \in V6)
      BY <1>2, <2>2 DEF Readable
    <3>2. t.marks \ ({"spaces", "path", "dot", "case"} \cup
                     (IF t.host[1] \in V6 THEN {} ELSE {"port"})) = {}
      BY <3>1, <1>1, <2>2
    <3> QED
      BY <2>2, <3>1, <3>2 DEF extract_host
  <2> QED
    BY <2>1, <2>2
<1>3. ASSUME NEW l \in Line
      PROVE  extract_host(l.value) = Text(l.value.host, {}) /\ l.value.host \in Name
  <2>1. PICK n \in Name, m \in {{}, {"url", "port"}} : l.value = Text(n, m)
    BY DEF Line
  <2>2. l.value.host = n /\ l.value.marks = m
    BY <2>1 DEF Text
  <2>3. CASE m = {}
    <3>1. {} \ ({"spaces", "path", "dot", "case"} \cup
                (IF n[1] \in V6 THEN {} ELSE {"port"})) = {}
      OBVIOUS
    <3>2. "url" \notin {} /\ "inner" \notin {}
      OBVIOUS
    <3> QED
      BY <2>2, <2>3, <3>1, <3>2 DEF extract_host
  <2>4. CASE m = {"url", "port"}
    <3>1. m \ Mark = {} /\ "url" \in m
      BY <2>4 DEF Mark
    <3> QED
      BY <2>2, <3>1 DEF extract_host
  <2> QED
    BY <2>2, <2>3, <2>4
<1>4. ASSUME NEW n \in Name PROVE n \in Host /\ Normal(n)
  <2>1. n \in Host /\ Len(n) > 1 /\ Len(n) \in Nat
    BY NameAssumption DEF Host
  <2>2. Len(n) # 1
    <3>1. \A k \in Nat : k > 1 => k # 1
      OBVIOUS
    <3> QED
      BY <2>1, <3>1
  <2> QED
    BY <2>1, <2>2 DEF Normal, IsAddress, Label
<1>5. ASSUME NEW t \in Target, build_args(t)
      PROVE  t.host \in Name /\ extract_host(t) = Text(t.host, {})
  <2>1. t.host \in Name /\ t.marks \subseteq {"spaces", "case"}
    BY <1>5 DEF build_args
  <2>2. Readable(t)
    BY <2>1, <1>4 DEF Readable
  <2> QED
    BY <2>1, <2>2, <1>2
<1> QED
  BY <1>1, <1>2, <1>3, <1>4, <1>5 DEF Readable

-------------------------------------------------------------------------------
(* What a request has computed from the rules it read, and what it commits, is  *)
(* right, the entries of the engagement being R.                               *)
TaskRight(x, R) ==
  /\ x.kind = "task" /\ x.host \in Name /\ x.saw \subseteq R
  /\ \E r \in x.saw : Allows(r) /\ Covers(r, x.host)
  /\ \A r \in x.saw : ~Allows(r) /\ Covers(r, x.host) => ~Plain(r)

AssetRight(x, R) ==
  /\ x.kind = "asset" /\ x.value.host \in Name /\ x.saw \subseteq R
  /\ x.in_scope \in BOOLEAN
  /\ (\A r \in x.saw : Plain(r)) => (x.in_scope <=> Allowed(x.value.host, x.saw))

Right(x, R) == x = None \/ TaskRight(x, R) \/ AssetRight(x, R)

IInv ==
  /\ rules \subseteq Rule
  /\ rq = [s \in Session |-> rq[s]]
  /\ \A s \in Session : Right(rq[s], rules)
  /\ \A x \in tasks : TaskRight(x, rules)
  /\ \A x \in assets : AssetRight(x, rules)

(* A request that passed both the Scope Enforcer and the wrapper is right.      *)
LEMMA EnqueuedIsRight ==
  ASSUME NEW R \in SUBSET Rule, NEW t \in Target, evaluate(t, R), build_args(t)
  PROVE  TaskRight([kind |-> "task", host |-> t.host, saw |-> R], R)
<1>1. /\ t.host \in Name /\ extract_host(t) = Text(t.host, {})
      /\ t.host \in Host /\ Normal(t.host)
  BY Readings
<1>2. /\ \E r \in R : Allows(r) /\ Covers(r, t.host)
      /\ \A r \in R : ~Allows(r) /\ Covers(r, t.host) => ~Plain(r)
  BY <1>1, Decision
<1> QED
  BY <1>1, <1>2 DEF TaskRight

(* A line of a tool makes an asset that is right.                               *)
LEMMA CollectedIsRight ==
  ASSUME NEW R \in SUBSET Rule, NEW l \in Line
  PROVE  AssetRight([kind |-> "asset", tool |-> l.tool, value |-> l.value,
                     in_scope |-> evaluate(l.value, R), saw |-> R], R)
<1> DEFINE flag == evaluate(l.value, R)
<1>1. /\ l.value.host \in Name /\ extract_host(l.value) = Text(l.value.host, {})
      /\ l.value.host \in Host /\ Normal(l.value.host)
  BY Readings
<1>3. (\A r \in R : Plain(r)) => (flag <=> Allowed(l.value.host, R))
  BY <1>1, Decision
<1>4. flag \in BOOLEAN
  BY DEF evaluate
<1>5. ASSUME NEW f \in BOOLEAN, (\A r \in R : Plain(r)) => (f <=> Allowed(l.value.host, R))
      PROVE  AssetRight([kind |-> "asset", tool |-> l.tool, value |-> l.value,
                         in_scope |-> f, saw |-> R], R)
  <2> DEFINE x == [kind |-> "asset", tool |-> l.tool, value |-> l.value,
                   in_scope |-> f, saw |-> R]
  <2>1. x.kind = "asset" /\ x.value = l.value /\ x.in_scope = f /\ x.saw = R
    OBVIOUS
  <2> HIDE DEF x
  <2>2. AssetRight(x, R)
    BY <1>1, <1>5, <2>1 DEF AssetRight
  <2> QED
    BY <2>2 DEF x
<1> HIDE DEF flag
<1>6. AssetRight([kind |-> "asset", tool |-> l.tool, value |-> l.value,
                  in_scope |-> flag, saw |-> R], R)
  BY <1>3, <1>4, <1>5
<1> QED
  BY <1>6 DEF flag

(* Every step keeps IInv.                                                      *)
LEMMA Inductive == IInv /\ [Next]_vars => IInv'
<1> SUFFICES ASSUME IInv, [Next]_vars PROVE IInv'
  OBVIOUS
<1>1. ASSUME NEW r \in Rule, AddScope(r) PROVE IInv'
  <2>1. /\ rules \subseteq rules' /\ rules' \subseteq Rule
        /\ rq' = rq /\ tasks' = tasks /\ assets' = assets
    BY <1>1 DEF AddScope, IInv
  <2>2. ASSUME NEW x
        PROVE  /\ TaskRight(x, rules) => TaskRight(x, rules')
               /\ AssetRight(x, rules) => AssetRight(x, rules')
               /\ Right(x, rules) => Right(x, rules')
    BY <2>1 DEF TaskRight, AssetRight, Right
  <2>3. rq' = [s \in Session |-> rq'[s]]
    BY <2>1 DEF IInv
  <2>4. ASSUME NEW s \in Session PROVE Right(rq'[s], rules')
    <3>1. Right(rq[s], rules) /\ rq'[s] = rq[s]
      BY <2>1 DEF IInv
    <3> QED
      BY <3>1, <2>2
  <2>5. ASSUME NEW x \in tasks PROVE TaskRight(x, rules')
    BY <2>2 DEF IInv
  <2>6. ASSUME NEW x \in assets PROVE AssetRight(x, rules')
    BY <2>2 DEF IInv
  <2> QED
    BY <2>1, <2>3, <2>4, <2>5, <2>6 DEF IInv
<1>2. ASSUME NEW s \in Session, NEW x, rq' = [rq EXCEPT ![s] = x], Right(x, rules),
             UNCHANGED <<rules, tasks, assets>>
      PROVE  IInv'
  <2>1. \A u \in Session : rq'[u] = IF u = s THEN x ELSE rq[u]
    BY <1>2 DEF IInv
  <2>2. rq' = [u \in Session |-> rq'[u]]
    BY <1>2 DEF IInv
  <2> QED
    BY <1>2, <2>1, <2>2 DEF IInv
<1>3. ASSUME NEW s \in Session, NEW t \in Target, Enqueue(s, t) PROVE IInv'
  <2>1. TaskRight([kind |-> "task", host |-> t.host, saw |-> rules], rules)
    BY <1>3, EnqueuedIsRight DEF Enqueue, IInv
  <2> QED
    BY <1>2, <1>3, <2>1 DEF Enqueue, Right
<1>4. ASSUME NEW s \in Session, NEW l \in Line, Collect(s, l) PROVE IInv'
  <2> DEFINE x == [kind |-> "asset", tool |-> l.tool, value |-> l.value,
                   in_scope |-> evaluate(l.value, rules), saw |-> rules]
  <2>1. AssetRight(x, rules)
    BY <1>4, CollectedIsRight DEF Collect, IInv
  <2>2. rq' = [rq EXCEPT ![s] = x] /\ UNCHANGED <<rules, tasks, assets>>
    BY <1>4 DEF Collect
  <2> HIDE DEF x
  <2> QED
    BY <1>2, <2>1, <2>2 DEF Right
<1>5. ASSUME NEW s \in Session, Commit(s) PROVE IInv'
  <2>1. PICK x : x = rq[s]
    OBVIOUS
  <2>2. /\ Right(x, rules) /\ x # None
        /\ tasks' = tasks \cup {y \in {x} : y.kind = "task"}
        /\ assets' = assets \cup {y \in {x} : y.kind = "asset"}
        /\ rq' = [rq EXCEPT ![s] = None] /\ rules' = rules
    BY <1>5, <2>1 DEF Commit, IInv
  <2>3. /\ x.kind = "task" => TaskRight(x, rules)
        /\ x.kind = "asset" => AssetRight(x, rules)
    BY <2>2 DEF Right, TaskRight, AssetRight
  <2>4. \A y \in tasks' : TaskRight(y, rules')
    BY <2>2, <2>3 DEF IInv
  <2>5. \A y \in assets' : AssetRight(y, rules')
    BY <2>2, <2>3 DEF IInv
  <2>6. \A u \in Session : rq'[u] = IF u = s THEN None ELSE rq[u]
    BY <2>2 DEF IInv
  <2>7. rq' = [u \in Session |-> rq'[u]]
    BY <2>2 DEF IInv
  <2> QED
    BY <2>2, <2>4, <2>5, <2>6, <2>7 DEF IInv, Right
<1>6. CASE UNCHANGED vars
  BY <1>6 DEF vars, IInv
<1> QED
  BY <1>1, <1>3, <1>4, <1>5, <1>6 DEF Next

(* Nothing is there at first.                                                  *)
LEMMA Starts == Init => IInv
BY DEF Init, IInv, Right

(* What a request read and computed stays true to the rules it read.            *)
LEMMA Invariance == Spec => []IInv
BY Starts, Inductive, PTL DEF Spec

-------------------------------------------------------------------------------
(* Every variable has its type.                                                *)
THEOREM TypeCorrect == Spec => []TypeOK
<1>1. IInv => TypeOK
  BY DEF IInv, TypeOK, TaskRight, AssetRight
<1> QED
  BY <1>1, Invariance, PTL

(* security/scope.py: of plainly written rules, however many, the decision on a  *)
(* readable text is the decision on its host: deny wins, default deny.          *)
THEOREM EnforcerDecides == Spec => []EnforcerIsExact
<1>1. IInv => EnforcerIsExact
  <2> SUFFICES ASSUME IInv, \A r \in rules : Plain(r), NEW t \in Target, Readable(t)
               PROVE  evaluate(t, rules) <=> Allowed(t.host, rules)
    BY DEF EnforcerIsExact
  <2>1. /\ extract_host(t) = Text(t.host, {}) /\ rules \in SUBSET Rule
        /\ t.host \in Host /\ Normal(t.host)
    BY Readings DEF IInv
  <2> QED
    BY <2>1, Decision
<1> QED
  BY <1>1, Invariance, PTL

(* The host in the arguments of a committed task was let in by a rule, and by    *)
(* no plain exclusion refused, when its request read the rules.                 *)
THEOREM ToolsAreInScope == Spec => []ToolsStayInScope
<1>1. IInv => ToolsStayInScope
  <2> SUFFICES ASSUME IInv, NEW x \in tasks
               PROVE  /\ \E r \in rules : Allows(r) /\ Covers(r, x.host)
                      /\ \A r \in rules : ~Allows(r) /\ Covers(r, x.host) =>
                                         r \notin x.saw \/ ~Plain(r)
    BY DEF ToolsStayInScope
  <2>1. TaskRight(x, rules)
    BY DEF IInv
  <2> QED
    BY <2>1 DEF TaskRight
<1> QED
  BY <1>1, Invariance, PTL

(* The in_scope flag of an asset is true to the plain rules that its poll read.  *)
THEOREM FlagsAreRight == Spec => []FlagWasRight
<1>1. IInv => FlagWasRight
  <2> SUFFICES ASSUME IInv, NEW a \in assets, \A r \in a.saw : Plain(r)
               PROVE  a.in_scope = Allowed(a.value.host, a.saw)
    BY DEF FlagWasRight
  <2>1. a.in_scope \in BOOLEAN /\ (a.in_scope <=> Allowed(a.value.host, a.saw))
    BY DEF IInv, AssetRight
  <2>2. Allowed(a.value.host, a.saw) \in BOOLEAN
    BY DEF Allowed
  <2>3. \A p, q \in BOOLEAN : (p <=> q) => p = q
    OBVIOUS
  <2> QED
    BY <2>1, <2>2, <2>3
<1> QED
  BY <1>1, Invariance, PTL
================================================================================
