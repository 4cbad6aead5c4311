------------------------------ MODULE AuditLedger ------------------------------
(* What the audit log promises its readers: entries at positions that never   *)
(* change, and new ones only beyond the last, the whole batch of entries of    *)
(* one transaction at a time.  AuditChain implements it.                      *)
EXTENDS Naturals

CONSTANTS Entry,      \* what one audit entry says
          MaxBatch    \* most entries one transaction appends

VARIABLE ledger       \* pairs of a position and an entry

AtMost(n, new) == \E b \in [1 .. n -> new] : new = {b[i] : i \in 1 .. n}

IsBatch(new) ==
  /\ new \subseteq Nat \X Entry
  /\ \A o, p \in new : o[1] = p[1] => o = p
  /\ \E n \in 1 .. MaxBatch : AtMost(n, new)

Beyond(new, old) == \A o \in old, p \in new : o[1] < p[1]

Init == ledger = {}

Append == LET new == ledger' \ ledger
          IN ledger \subseteq ledger' /\ IsBatch(new) /\ Beyond(new, ledger)

Spec == Init /\ [][Append]_ledger
================================================================================
