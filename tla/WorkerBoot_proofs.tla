---------------------------- MODULE WorkerBoot_proofs -----------------------------
(* What holds of the worker's start for any number of daemons, looks at the     *)
(* route and commands of the operator.                                         *)
EXTENDS WorkerBoot, TLAPS

IInv == TypeOK /\ ArqHasRoute

(* At first nothing has been started.                                           *)
LEMMA Starts == Init => IInv
<1>1. 0 \in 0..MaxWait /\ 0 \in 0..MaxOrders
  BY MaxWaitAssumption, MaxOrdersAssumption
<1> QED
  BY <1>1 DEF Init, IInv, TypeOK, ArqHasRoute, Up

(* What compose and the operator do keeps IInv: only a start touches the route,  *)
(* and the worker then waits.                                                   *)
LEMMA ComposeKeeps ==
  ASSUME IInv,
         \/ \E s \in {{"gateway", "worker", "netinit"}, {"gateway", "worker"}, {"netinit"}} :
              UpWith(s)
         \/ WorkerStarts \/ GatewayStarts \/ NetinitStarts \/ LeaveAlone \/ ComposeFails
  PROVE  IInv'
<1> USE DEF IInv, TypeOK, ArqHasRoute, compose, boot, sas
<1>1. ASSUME NEW s \in {{"gateway", "worker", "netinit"}, {"gateway", "worker"}, {"netinit"}},
             UpWith(s)
      PROVE  IInv'
  <2>1. orders' \in 0..MaxOrders
    BY <1>1, MaxOrdersAssumption DEF UpWith
  <2>2. order' \subseteq {"gateway", "worker", "netinit"}
    BY <1>1 DEF UpWith
  <2> QED
    BY <1>1, <2>1, <2>2 DEF UpWith
<1>2. CASE WorkerStarts
  <2>1. 0 \in 0..MaxWait
    BY MaxWaitAssumption
  <2>2. /\ order' \subseteq {"gateway", "worker", "netinit"} /\ orders' = orders
        /\ worker' = "waiting" /\ waited' = 0 /\ route' = FALSE
        /\ netinit' \in {"none", "running", "lost", "ended"}
        /\ gateway' = gateway /\ daemons' = daemons /\ termed' = termed
    BY <1>2 DEF WorkerStarts
  <2> QED
    BY <2>1, <2>2 DEF Up
<1>3. CASE GatewayStarts
  BY <1>3 DEF GatewayStarts
<1>4. CASE NetinitStarts
  BY <1>4 DEF NetinitStarts
<1>5. CASE LeaveAlone
  BY <1>5 DEF LeaveAlone
<1>6. CASE ComposeFails
  BY <1>6 DEF ComposeFails
<1> QED
  BY <1>1, <1>2, <1>3, <1>4, <1>5, <1>6

(* The worker's side keeps IInv: arq starts where a look saw the route, and the  *)
(* route goes only with the worker.                                            *)
LEMMA WorkerKeeps ==
  ASSUME IInv, NetinitEnds \/ Look \/ GiveUp \/ WorkerDies
  PROVE  IInv'
<1> USE DEF IInv, TypeOK, ArqHasRoute, compose, sas
<1>1. CASE NetinitEnds
  BY <1>1 DEF NetinitEnds
<1>2. CASE Look
  <2>1. waited' \in 0..MaxWait
    BY <1>2, MaxWaitAssumption DEF Look
  <2> QED
    BY <1>2, <2>1 DEF Look, Up
<1>3. CASE GiveUp
  BY <1>3 DEF GiveUp
<1>4. CASE WorkerDies
  BY <1>4 DEF WorkerDies
<1> QED
  BY <1>1, <1>2, <1>3, <1>4

(* The gateway's side keeps IInv: its daemons come all at once and go one by     *)
(* one, and only those that were there are told to.                            *)
LEMMA GatewayKeeps ==
  ASSUME IInv, \/ Entrypoint \/ \E d \in Daemon : DaemonDies(d)
               \/ WaitReturns \/ KillOthers \/ WaitAll
  PROVE  IInv'
<1> USE DEF IInv, TypeOK, ArqHasRoute, compose, boot, Healthy
<1>1. CASE Entrypoint
  BY <1>1 DEF Entrypoint
<1>2. ASSUME NEW d \in Daemon, DaemonDies(d) PROVE IInv'
  BY <1>2 DEF DaemonDies
<1>3. CASE WaitReturns
  BY <1>3 DEF WaitReturns, ContainerEnds
<1>4. CASE KillOthers
  BY <1>4 DEF KillOthers
<1>5. CASE WaitAll
  BY <1>5 DEF WaitAll, ContainerEnds
<1> QED
  BY <1>1, <1>2, <1>3, <1>4, <1>5

(* The invariant, and with it what follows.                                     *)
LEMMA Invariance == Spec => []IInv
<1>1. IInv /\ [Next]_vars => IInv'
  <2>1. IInv /\ UNCHANGED vars => IInv'
    BY DEF IInv, TypeOK, ArqHasRoute, vars
  <2> QED
    BY <2>1, ComposeKeeps, WorkerKeeps, GatewayKeeps DEF Next
<1> QED
  BY <1>1, Starts, PTL DEF Spec

-------------------------------------------------------------------------------
(* Every variable has its type.                                                *)
THEOREM TypeCorrect == Spec => []TypeOK
<1>1. IInv => TypeOK
  BY DEF IInv
<1> QED
  BY <1>1, Invariance, PTL

(* wait_for_egress_route.py: arq never runs in a network namespace without a     *)
(* default route, whatever the worker that had it before.                       *)
THEOREM RoutesPrecedeJobs == Spec => []ArqHasRoute
<1>1. IInv => ArqHasRoute
  BY DEF IInv
<1> QED
  BY <1>1, Invariance, PTL
================================================================================
