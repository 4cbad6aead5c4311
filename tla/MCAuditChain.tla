----------------------------- MODULE MCAuditChain ------------------------------
(* AuditChain for TLC.  A content is an action and a target: of the three, two   *)
(* read alike once joined, for the bar may be of either.                        *)
EXTENDS AuditChain

plain == <<"x", "y">>
MCContent == {plain, <<"x", "y|z">>, <<"x|y", "z">>}
MCJoined == [c \in MCContent |-> IF c = plain THEN "x|y" ELSE "x|y|z"]
================================================================================
