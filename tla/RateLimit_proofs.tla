---------------------------- MODULE RateLimit_proofs ---------------------------
(* What the rate limiter promises, for every rate, capacity and set of callers. *)
EXTENDS RateLimit, TLAPS

(* What has been granted and what the bucket still holds, against the time of   *)
(* the last script; an expired bucket counts as full, TTL later.               *)
Budget ==
  /\ tokens # -1 => granted + tokens <= Capacity + Rate * (ts + late)
  /\ tokens = -1 => granted <= Rate * (ts + TTL + late) /\ ts + TTL <= clock

IInv == TypeOK /\ Budget

(* Multiplying by the rate keeps an order.                                     *)
LEMMA Monotone ==
  ASSUME NEW a \in Int, NEW b \in Int, a <= b
  PROVE  Rate * a \in Int /\ Rate * b \in Int /\ Rate * a <= Rate * b
<1>1. Rate \in Nat  BY RateAssumption
<1> QED  BY <1>1, Z3

(* The rate distributes over a sum.                                            *)
LEMMA Sum ==
  ASSUME NEW a \in Int, NEW b \in Int
  PROVE  /\ Rate * a \in Int /\ Rate * b \in Int /\ b * Rate = Rate * b
         /\ Rate * (a + b) = Rate * a + Rate * b
<1>1. Rate \in Nat  BY RateAssumption
<1> QED  BY <1>1, Z3

(* An expired bucket that was never used is in its budget.                     *)
LEMMA InitIInv == Init => IInv
<1> SUFFICES ASSUME Init PROVE IInv  OBVIOUS
<1>1. TypeOK  BY RateAssumption DEF Init, TypeOK
<1>2. ts + TTL + late = 0 /\ ts + TTL = 0  BY RateAssumption DEF Init
<1>3. Rate * 0 = 0  BY RateAssumption
<1> QED  BY <1>1, <1>2, <1>3 DEF Init, IInv, Budget

(* Every step stays in budget; Script is the one that spends.                  *)
LEMMA StepIInv == IInv /\ [Next]_vars => IInv'
<1> SUFFICES ASSUME IInv, [Next]_vars PROVE IInv'  OBVIOUS
<1> USE RateAssumption
<1>1. CASE Tick  BY <1>1 DEF Tick, IInv, TypeOK, Budget
<1>2. ASSUME NEW c \in Caller, Call(c) PROVE IInv'
  BY <1>2 DEF Call, IInv, TypeOK, Budget
<1>3. ASSUME NEW c \in Caller, Script(c) PROVE IInv'
  <2> DEFINE t == now[c]
             full == Refilled(t)
             due == IF tokens = -1 THEN ts + TTL ELSE ts
  <2>1. t \in Nat /\ t <= clock  BY <1>3 DEF Script, IInv, TypeOK
  <2>2. full \in 0..Capacity
    <3>1. CASE tokens = -1  BY <3>1 DEF Refilled
    <3>2. CASE tokens # -1 /\ t >= ts
      <4>1. (t - ts) \in Nat /\ tokens \in Nat  BY <2>1, <3>2 DEF IInv, TypeOK
      <4>2. (t - ts) * Rate \in Nat  BY <4>1, Z3
      <4> QED  BY <3>2, <4>1, <4>2 DEF Refilled, Least
    <3>3. CASE tokens # -1 /\ ~(t >= ts)
      BY <3>3 DEF Refilled, Least, IInv, TypeOK
    <3> QED  BY <3>1, <3>2, <3>3
  <2>3. TypeOK'
    <3>1. (tokens \in -1..Capacity /\ granted \in Nat)'
      BY <1>3, <2>2 DEF Script, IInv, TypeOK
    <3>2. (late \in Nat)'
      <4>1. due \in Int /\ t \in Int /\ late \in Nat  BY <2>1 DEF IInv, TypeOK
      <4> QED  BY <1>3, <4>1 DEF Script
    <3>3. (ts \in -TTL..clock)'  BY <1>3, <2>1 DEF Script
    <3> QED  BY <1>3, <3>1, <3>2, <3>3 DEF Script, IInv, TypeOK
  <2>4. granted + full <= Capacity + Rate * (t + late')
    <3>0. late \in Nat /\ late' \in Nat /\ ts \in Int /\ granted \in Nat /\ tokens \in Int
      BY <2>3 DEF IInv, TypeOK
    <3>1. CASE tokens = -1
      <4>1. ts + TTL + late <= t + late'  BY <1>3, <2>1, <3>0, <3>1 DEF Script
      <4>2. Rate * (ts + TTL + late) <= Rate * (t + late')
        BY <2>1, <3>0, <4>1, Monotone
      <4>3. full = Capacity  BY <3>1 DEF Refilled
      <4>4. Rate * (ts + TTL + late) \in Int /\ Rate * (t + late') \in Int
        BY <2>1, <3>0, <4>1, Monotone
      <4> QED  BY <3>0, <3>1, <4>2, <4>3, <4>4 DEF IInv, Budget
    <3>2. CASE tokens # -1 /\ t >= ts
      <4>1. late' = late  BY <1>3, <2>1, <3>0, <3>2 DEF Script
      <4>2. /\ Rate * (t + late) = Rate * (ts + late) + (t - ts) * Rate
            /\ Rate * (ts + late) \in Int /\ (t - ts) * Rate \in Int
        <5>1. (ts + late) + (t - ts) = t + late  BY <2>1, <3>0
        <5>2. ts + late \in Int /\ t - ts \in Int  BY <2>1, <3>0
        <5> QED  BY <5>1, <5>2, Sum
      <4>3. full <= tokens + (t - ts) * Rate
        BY <2>1, <3>0, <3>2, <4>2 DEF Refilled, Least
      <4>4. granted + tokens <= Capacity + Rate * (ts + late)
        BY <3>2 DEF IInv, Budget
      <4> HIDE DEF t, full
      <4> QED  BY <2>2, <3>0, <4>1, <4>2, <4>3, <4>4
    <3>3. CASE tokens # -1 /\ ~(t >= ts)
      <4>1. t + late' = ts + late  BY <1>3, <2>1, <3>0, <3>3 DEF Script
      <4>2. full <= tokens  BY <3>0, <3>3 DEF Refilled, Least
      <4>3. granted + tokens <= Capacity + Rate * (ts + late)
        BY <3>3 DEF IInv, Budget
      <4>4. Rate * (ts + late) \in Int  BY <3>0, Sum
      <4> HIDE DEF t, full
      <4> QED  BY <2>2, <3>0, <4>1, <4>2, <4>3, <4>4
    <3> QED  BY <3>1, <3>2, <3>3
  <2>5. Budget'
    <3>1. granted' + tokens' = granted + full /\ tokens' # -1 /\ ts' = t
      BY <1>3, <2>2 DEF Script, IInv, TypeOK
    <3> HIDE DEF t, full
    <3> QED  BY <2>4, <3>1 DEF Budget
  <2> QED  BY <2>3, <2>5 DEF IInv
<1>4. CASE Expire
  <2>1. TypeOK'  BY <1>4 DEF Expire, IInv, TypeOK
  <2>2. Budget'
    <3>0. late \in Nat /\ ts \in Int /\ granted \in Nat /\ tokens \in Nat
      BY <1>4 DEF Expire, IInv, TypeOK
    <3>1. Rate * (ts + TTL + late) = Rate * (ts + late) + Rate * TTL
      <4>1. (ts + late) + TTL = ts + TTL + late /\ ts + late \in Int  BY <3>0
      <4> QED  BY <4>1, Sum
    <3>2. granted + tokens <= Capacity + Rate * (ts + late)
      BY <1>4 DEF Expire, IInv, Budget
    <3>3. Rate * (ts + late) \in Int /\ Rate * TTL \in Int  BY <3>0, Sum
    <3>4. granted <= Rate * (ts + TTL + late)  BY <3>0, <3>1, <3>2, <3>3
    <3> QED  BY <1>4, <3>0, <3>4 DEF Expire, Budget
  <2> QED  BY <2>1, <2>2 DEF IInv
<1>5. CASE UNCHANGED vars  BY <1>5 DEF vars, IInv, TypeOK, Budget
<1> QED  BY <1>1, <1>2, <1>3, <1>4, <1>5 DEF Next

(* The budget implies the bound, since no script is in the future.             *)
LEMMA BudgetBound == IInv => RateBound
<1> SUFFICES ASSUME IInv PROVE RateBound  OBVIOUS
<1> USE RateAssumption
<1>0. late \in Nat /\ ts \in Int /\ clock \in Nat /\ ts <= clock /\ granted \in Nat
      /\ tokens \in -1..Capacity
  BY DEF IInv, TypeOK
<1>1. CASE tokens = -1
  <2>1. Rate * (ts + TTL + late) <= Rate * (clock + late) /\ Rate * (clock + late) \in Int
        /\ Rate * (ts + TTL + late) \in Int
    BY <1>0, <1>1, Monotone DEF IInv, Budget
  <2> QED  BY <1>0, <1>1, <2>1 DEF IInv, Budget, RateBound
<1>2. CASE tokens # -1
  <2>1. Rate * (ts + late) <= Rate * (clock + late) /\ Rate * (clock + late) \in Int
        /\ Rate * (ts + late) \in Int
    BY <1>0, Monotone
  <2> QED  BY <1>0, <1>2, <2>1 DEF IInv, Budget, RateBound
<1> QED  BY <1>1, <1>2

(* Every variable keeps its type.                                              *)
THEOREM RateTypes == Spec => []TypeOK
<1>1. IInv => TypeOK  BY DEF IInv
<1> QED  BY <1>1, InitIInv, StepIInv, PTL DEF Spec

(* However many callers, in whatever order their scripts run: no more is        *)
(* granted than a full bucket and the rate since the start, beyond what the     *)
(* times given went back (ratelimit.py:17-39).                                 *)
THEOREM RateIsBounded == Spec => []RateBound
<1> QED  BY InitIInv, StepIInv, BudgetBound, PTL DEF Spec
================================================================================
