------------------------------- MODULE RateLimit -------------------------------
(* The token bucket of one engagement (security/ratelimit.py).  A caller reads  *)
(* its own clock, then awaits a script that Redis runs alone: the scripts come  *)
(* in any order, with times of several clocks.  Amounts and times are integers  *)
(* (of whatever unit makes them so).                                           *)
EXTENDS Integers

CONSTANTS Caller, Rate, Capacity,
          TTL,       \* EXPIRE: Redis forgets a bucket that long unused
          MaxTime,   \* bound: the time at which a run of the checker stops
          MaxLate,   \* bound: how late the scripts get, all together, before it stops
          Skew       \* bound: how far a caller's clock is behind

(* The default capacity is max(rate, 1), and the expiry 3600 s.                *)
ASSUME RateAssumption ==
  /\ Rate \in Nat /\ Capacity \in Nat /\ TTL \in Nat /\ MaxTime \in Nat
  /\ MaxLate \in Nat /\ Skew \in Nat
  /\ Capacity <= Rate * TTL

VARIABLES
  clock,     \* real time
  now,       \* what each caller's script is given, or -1
  tokens,    \* the bucket: -1 when Redis has none
  ts,
  granted,   \* history: scripts that returned 1
  late       \* history: how far the times given went back, all together

vars == <<clock, now, tokens, ts, granted, late>>

Least(a, b) == IF a <= b THEN a ELSE b

Init ==
  /\ clock = 0 /\ now = [c \in Caller |-> -1]
  /\ tokens = -1 /\ ts = -TTL /\ granted = 0 /\ late = 0

Tick ==
  /\ clock < MaxTime /\ clock' = clock + 1
  /\ UNCHANGED <<now, tokens, ts, granted, late>>

(* allow, to the await.                                                        *)
Call(c) ==
  /\ now[c] = -1 /\ late < MaxLate
  /\ \E t \in (clock - Skew)..clock : t >= 0 /\ now' = [now EXCEPT ![c] = t]
  /\ UNCHANGED <<clock, tokens, ts, granted, late>>

(* Mutant: a time that goes back is taken for its distance.                    *)
Unclamped(t) ==
  IF tokens = -1 THEN Capacity
  ELSE Least(Capacity, tokens + (IF t >= ts THEN t - ts ELSE ts - t) * Rate)

(* What the bucket holds when a script runs at the time it was given.          *)
Refilled(t) ==
  IF tokens = -1 THEN Capacity
  ELSE Least(Capacity, tokens + (IF t >= ts THEN t - ts ELSE 0) * Rate)

(* The times are expected to go on from the last one, and by TTL from a bucket  *)
(* that expired.                                                               *)
Script(c) ==
  LET t == now[c]
      full == Refilled(t)
      due == IF tokens = -1 THEN ts + TTL ELSE ts
  IN /\ t # -1
     /\ tokens' = IF full >= 1 THEN full - 1 ELSE full
     /\ granted' = IF full >= 1 THEN granted + 1 ELSE granted
     /\ ts' = t
     /\ late' = IF t < due THEN late + (due - t) ELSE late
     /\ now' = [now EXCEPT ![c] = -1]
     /\ UNCHANGED clock

(* TTL after the last script, so no sooner than this; ts stays as history.      *)
Expire ==
  /\ tokens # -1 /\ clock >= ts + TTL
  /\ tokens' = -1
  /\ UNCHANGED <<clock, now, ts, granted, late>>

Next == Tick \/ (\E c \in Caller : Call(c) \/ Script(c)) \/ Expire

Spec == Init /\ [][Next]_vars

-------------------------------------------------------------------------------
(* Every variable has its type.                                                *)
TypeOK ==
  /\ clock \in Nat /\ now \in [Caller -> -1..clock]
  /\ tokens \in -1..Capacity /\ ts \in -TTL..clock /\ granted \in Nat /\ late \in Nat

(* ratelimit.py:3-4: never more than a full bucket and what the rate has added  *)
(* by now, beyond what the times given went back: each unit that a clock goes   *)
(* back, or that a script is overtaken by, is refilled twice.                  *)
RateBound == granted <= Capacity + Rate * (clock + late)
================================================================================
