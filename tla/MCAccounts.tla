------------------------------ MODULE MCAccounts -------------------------------
(* Requests and emails are interchangeable; the run states no liveness.        *)
EXTENDS Accounts, TLC

Symmetry == Permutations(Request) \cup Permutations(Email)
================================================================================
