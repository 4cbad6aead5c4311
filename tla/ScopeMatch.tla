------------------------------ MODULE ScopeMatch -------------------------------
(* Which hosts a tool may be given: the Scope Enforcer (security/scope.py), the *)
(* arguments the wrappers build and the lines they keep (wrappers/), and the    *)
(* scope flag of the assets found (services/assets.py), while leads add rules.  *)
(*                                                                            *)
(* The code works on texts.  Here a text is the host it writes (a sequence of   *)
(* labels; an IP address or a contract is one label) and the marks it carries: *)
(* what is written around the host, which the code removes or trips over.      *)
EXTENDS Naturals, Sequences, SequencesExt, FiniteSets

CONSTANTS
  Session,    \* database sessions of enqueue and poll requests
  Name,       \* domain names, as sequences of labels
  Contract,   \* contract addresses
  Address,    \* what each written IP address denotes
  Canonical,  \* of several ways to write an address, the one of RFC 5952
  V6,         \* the written addresses with colons
  Network,    \* the addresses of each written network
  Rule,       \* the entries that a lead may add
  Target,     \* the texts that a client may send
  MaxRules,   \* bound: scope entries of the engagement
  MaxRows     \* bound: tasks and assets of the engagement

VARIABLES
  rules,   \* the engagement's scope_entries
  rq,      \* what each session has computed and not committed
  tasks,   \* the tasks committed: the host in their args, the rules they read
  assets   \* rows of eng_<uuid>.assets: tool, value, flag, the rules they read

vars == <<rules, rq, tasks, assets>>

(* "inner" is a "://" further on in the text, in its path or query.            *)
Mark == {"spaces", "case", "dot", "port", "path", "user", "url", "inner"}
Label(host, S) == Len(host) = 1 /\ host[1] \in S
IsAddress(host) == Label(host, DOMAIN Address)
IsContract(host) == Label(host, Contract)
Text(host, marks) == [host |-> host, marks |-> marks]
NoHost == Text(<<>>, {})
None == [kind |-> "none"]

(* A lead may store any text as the value of any kind of rule, and a client may *)
(* send any text.  Left out: the values "." and "*.", which match nothing.     *)
Host == Seq(STRING) \ {<<>>}
ASSUME RuleAssumption ==
  Rule \subseteq [disposition : {"in_scope", "out_of_scope", "exclusion"},
                  kind : {"domain", "ip", "cidr", "contract"},
                  value : [host : Host, marks : SUBSET (Mark \cup {"*."})],
                  chain : BOOLEAN]
ASSUME TargetAssumption == Target \subseteq [host : Host, marks : SUBSET Mark]
ASSUME NameAssumption == Name \subseteq {n \in Host : Len(n) > 1}
ASSUME AddressAssumption == Contract \cap DOMAIN Address = {}
ASSUME CanonicalAssumption ==
  \A a, b \in Canonical \cap DOMAIN Address : Address[a] = Address[b] => a = b

-------------------------------------------------------------------------------
(* Without a scheme in front, an inner "://" still sends the text to urlparse,  *)
(* which finds no host in it.  A port is cut where the text has one colon; a    *)
(* user is cut in a URL only.                                                  *)
extract_host(t) ==
  CASE "url" \in t.marks -> Text(t.host, t.marks \ Mark)
    [] "url" \notin t.marks /\ "inner" \in t.marks -> NoHost
    [] OTHER -> Text(t.host, t.marks \ ({"spaces", "path", "dot", "case"} \cup
                                       (IF t.host[1] \in V6 THEN {} ELSE {"port"})))

classify(h) ==
  CASE h.marks = {} /\ IsContract(h.host) -> "contract"
    [] h.marks = {} /\ IsAddress(h.host) -> "ip"
    [] OTHER -> "domain"

(* host.endswith("." + ...): whole labels, and one more.  A user written before *)
(* the host is part of the first label, so it only spoils an equality.         *)
domain_matches(value, h) ==
  LET below == IsSuffix(value.host, h.host) /\ value.host # h.host
  IN CASE value.marks \ {"dot", "case"} = {"*."} -> below
       [] value.marks \ {"dot", "case"} = {}     -> below \/ h = Text(value.host, {})
       [] OTHER -> FALSE

(* A value that is no network has no address in it.                            *)
InNetwork(host, value) ==
  value.host[1] \in DOMAIN Network /\ Address[host[1]] \in Network[value.host[1]]

(* Mutant: the address is not compared.                                        *)
AnyContract(value, h) == value.marks \subseteq {"case"}

(* rule.value.lower() == host.lower().                                         *)
same_addr(value, h) == Text(value.host, value.marks \ {"case"}) = h

(* No request for a tool gives a chain (check-target may): a contract rule with  *)
(* one never matches.                                                          *)
rule_matches(r, h) ==
  CASE r.kind = "domain" /\ classify(h) = "domain" -> domain_matches(r.value, h)
    [] r.kind = "ip" /\ classify(h) = "ip" -> r.value = h
    [] r.kind = "cidr" /\ classify(h) = "ip" ->
         r.value.marks \subseteq {"case"} /\ InNetwork(h.host, r.value)
    [] r.kind = "contract" /\ classify(h) = "contract" ->
         same_addr(r.value, h) /\ ~r.chain
    [] OTHER -> FALSE

Allows(r) == r.disposition = "in_scope"

(* Mutant: an exclusion gives way to an in_scope rule.                         *)
AllowWins(t, R) == \E r \in R : Allows(r) /\ rule_matches(r, extract_host(t))

(* A text without a host is refused; then deny wins, then default deny.        *)
evaluate(t, R) ==
  /\ extract_host(t).host # <<>>
  /\ ~ \E r \in R : ~Allows(r) /\ rule_matches(r, extract_host(t))
  /\ \E r \in R : Allows(r) /\ rule_matches(r, extract_host(t))

(* Mutant: the pattern is not checked.                                         *)
ArgsUnchecked(t) == t.host \in Name

(* _DOMAIN_RE on the stripped, lowercased text; else InvalidTargetError.       *)
build_args(t) == t.host \in Name /\ t.marks \subseteq {"spaces", "case"}

(* A JSON line of a tool: a host, in a URL where httpx gives one, and whatever   *)
(* traces of a refusal by the egress gateway it carries.                       *)
Line == [tool : {"subfinder", "httpx"},
         value : {Text(n, m) : n \in Name, m \in {{}, {"url", "port"}}},
         header : BOOLEAN, signature : BOOLEAN]

is_sas_denial(l) == l.header \/ l.signature

(* Only httpx's parse looks for refusals.                                      *)
Kept(l) == l.tool = "httpx" => ~is_sas_denial(l)

-------------------------------------------------------------------------------
Init ==
  /\ rules = {} /\ tasks = {} /\ assets = {}
  /\ rq = [s \in Session |-> None]

(* Mutant: the new list replaces the old one.                                  *)
ReplaceScope(r) == rules' = {r} /\ UNCHANGED <<rq, tasks, assets>>

(* add_scope: the value is stored as it was sent; no entry is ever removed.    *)
AddScope(r) ==
  /\ Cardinality(rules) < MaxRules
  /\ rules' = rules \cup {r}
  /\ UNCHANGED <<rq, tasks, assets>>

(* enqueue_subfinder_task, enqueue_httpx_task, up to the flush of the row.     *)
Enqueue(s, t) ==
  /\ rq[s] = None
  /\ evaluate(t, rules) /\ build_args(t)
  /\ rq' = [rq EXCEPT ![s] = [kind |-> "task", host |-> t.host, saw |-> rules]]
  /\ UNCHANGED <<rules, tasks, assets>>

(* parse and insert_discovered_assets, in a poll, for one line kept.           *)
Collect(s, l) ==
  /\ rq[s] = None
  /\ Kept(l) /\ \A a \in assets : <<a.tool, a.value>> # <<l.tool, l.value>>
  /\ rq' = [rq EXCEPT ![s] = [kind |-> "asset", tool |-> l.tool, value |-> l.value,
                              in_scope |-> evaluate(l.value, rules), saw |-> rules]]
  /\ UNCHANGED <<rules, tasks, assets>>

(* The audit entry awaited, the request commits.                               *)
Commit(s) ==
  /\ rq[s] # None /\ Cardinality(tasks \cup assets) < MaxRows
  /\ tasks' = tasks \cup {x \in {rq[s]} : x.kind = "task"}
  /\ assets' = assets \cup {x \in {rq[s]} : x.kind = "asset"}
  /\ rq' = [rq EXCEPT ![s] = None]
  /\ UNCHANGED rules

Next ==
  \/ \E r \in Rule : AddScope(r)
  \/ \E s \in Session : \/ \E t \in Target : Enqueue(s, t)
                        \/ \E l \in Line : Collect(s, l)
                        \/ Commit(s)

Spec == Init /\ [][Next]_vars

-------------------------------------------------------------------------------
(* The reference, on hosts: what a rule means, and what the rules R allow.  An  *)
(* ip rule means the address it denotes, however it is written.                *)
Covers(r, host) ==
  CASE r.kind = "domain" -> /\ ~IsAddress(host) /\ ~IsContract(host)
                            /\ IsSuffix(r.value.host, host)
                            /\ "*." \in r.value.marks => host # r.value.host
    [] r.kind = "ip"     -> /\ IsAddress(host) /\ IsAddress(r.value.host)
                            /\ Address[host[1]] = Address[r.value.host[1]]
    [] r.kind = "cidr"   -> IsAddress(host) /\ InNetwork(host, r.value)
    [] r.kind = "contract" -> IsContract(host) /\ host = r.value.host

Allowed(host, R) ==
  /\ \E r \in R : Allows(r) /\ Covers(r, host)
  /\ ~ \E r \in R : ~Allows(r) /\ Covers(r, host)

(* A host in the one notation that comparing texts is right for; a rule written *)
(* so that the code reads it, and a target likewise.                           *)
Normal(host) == IsAddress(host) => host[1] \in Canonical
Plain(r) ==
  /\ r.value.marks \subseteq (IF r.kind = "domain" THEN {"*.", "dot", "case"} ELSE {})
  /\ r.kind = "ip" => Normal(r.value.host)
  /\ ~r.chain
Readable(t) ==
  /\ Normal(t.host)
  /\ \/ "url" \in t.marks
     \/ /\ {"user", "inner"} \cap t.marks = {}
        /\ ~("port" \in t.marks /\ t.host[1] \in V6)

(* Every variable has its type.                                                *)
TypeOK ==
  /\ rules \subseteq Rule
  /\ \A x \in tasks : x.kind = "task" /\ x.host \in Name
  /\ \A x \in assets : x.kind = "asset" /\ x.value.host \in Name /\ x.in_scope \in BOOLEAN
  /\ \A x \in tasks \cup assets : x.saw \subseteq rules

(* scope.py:5, "deny wins", then in_scope, then "default deny": of rules that   *)
(* are plainly written, the decision on a text is the decision on its host: for *)
(* a URL whatever else is in it, for a text without a scheme unless it has a    *)
(* user, a "://" further on, or a port after an IPv6 address.                  *)
EnforcerIsExact ==
  (\A r \in rules : Plain(r)) =>
    \A t \in Target : Readable(t) => (evaluate(t, rules) <=> Allowed(t.host, rules))

(* The host given to a tool was inside the scope its request read: a rule lets  *)
(* it in, and an exclusion of it came later or cannot be read by the code.     *)
(* What the enforcer misreads, build_args refuses.                             *)
ToolsStayInScope ==
  \A x \in tasks :
    /\ \E r \in rules : Allows(r) /\ Covers(r, x.host)
    /\ \A r \in rules : ~Allows(r) /\ Covers(r, x.host) => r \notin x.saw \/ ~Plain(r)

(* The flag of an asset is true to the plain rules its poll read.              *)
FlagWasRight ==
  \A a \in assets :
    (\A r \in a.saw : Plain(r)) => a.in_scope = Allowed(a.value.host, a.saw)
================================================================================
