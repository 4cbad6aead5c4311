----------------------------- MODULE MCScopeMatch ------------------------------
(* ScopeMatch for TLC: a domain, one below it and one beside it; an IPv4        *)
(* address, an IPv6 one written in two ways, and their network; two contracts;  *)
(* a host that no tool takes; rules plainly and oddly written.                 *)
EXTENDS ScopeMatch

root == <<"a", "t">>
below == <<"b", "a", "t">>
MCName == {root, below, <<"c", "t">>}
MCAddress == [i |-> 1, v |-> 2, w |-> 2]
MCNetwork == [n |-> {1, 2}]

R(d, k, h, m, c) == [disposition |-> d, kind |-> k, value |-> [host |-> h, marks |-> m],
                     chain |-> c]
MCRule ==
  {R(d, "domain", root, m, FALSE) : d \in {"in_scope", "exclusion"},
                                    m \in {{}, {"*.", "case"}}}
  \cup {R("exclusion", "domain", below, {"dot"}, FALSE),
        R("out_of_scope", "domain", below, {"spaces"}, FALSE),
        R("in_scope", "cidr", <<"n">>, {}, FALSE),
        R("exclusion", "ip", <<"i">>, {}, FALSE), R("exclusion", "ip", <<"w">>, {}, FALSE),
        R("in_scope", "contract", <<"0xc">>, {}, FALSE),
        R("out_of_scope", "contract", <<"0xc">>, {}, TRUE)}

MCTarget ==
  {[host |-> h, marks |-> m] :
     h \in MCName \cup {<<"_", "a", "t">>, <<"i">>, <<"v">>, <<"w">>, <<"0xc">>, <<"0xd">>},
     m \in {{}, {"spaces", "case"}, {"port", "path", "dot"}, {"user"}, {"path", "inner"},
            {"url", "user", "port", "path", "inner"}}}

================================================================================
