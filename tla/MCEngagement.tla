----------------------------- MODULE MCEngagement ------------------------------
(* Engagement for TLC: one target, a rule that covers it and one that excludes  *)
(* it.                                                                         *)
EXTENDS Engagement

CONSTANT t1

MCRule == {[disposition |-> "in_scope", matches |-> {t1}],
           [disposition |-> "exclusion", matches |-> {t1}]}
================================================================================
