------------------------------ MODULE WorkerBoot -------------------------------
(* How the worker comes to run arq behind the egress gateway: docker compose    *)
(* starts the gateway, then the worker, which waits for a default route         *)
(* (wait_for_egress_route.py), then worker-netinit, which sets that route once, *)
(* in the network namespace the worker has at that moment.  Containers stop and *)
(* the operator recreates some of them; no service has a restart policy.        *)
EXTENDS Naturals

CONSTANTS
  Daemon,     \* dnsmasq, nginx and ulogd, in the gateway's container
  MaxWait,    \* looks at the route before the deadline of 60 s
  MaxOrders   \* bound: commands of the operator

ASSUME MaxWaitAssumption == MaxWait \in Nat
ASSUME MaxOrdersAssumption == MaxOrders \in Nat

VARIABLES
  order,    \* the services that the running "docker compose up" has to start
  orders,   \* commands given so far (bound only)
  worker,   \* none | waiting | arq | stopped
  waited,   \* the looks it has taken
  route,    \* its network namespace has a default route
  netinit,  \* none | running (in the worker's present namespace) | lost | ended
  gateway,  \* none | starting | serving | returned | ending | stopped: its script
  daemons,  \* those running
  termed    \* those the script has sent SIGTERM

compose == <<order, orders>>
boot == <<worker, waited, route, netinit>>
sas == <<gateway, daemons, termed>>
vars == <<order, orders, worker, waited, route, netinit, gateway, daemons, termed>>

Up == {"waiting", "arq"}

(* The health check looks at the ruleset only: it passes until the script ends. *)
Healthy == {"serving", "returned", "ending"}

Init ==
  /\ order = {} /\ orders = 0
  /\ worker = "none" /\ waited = 0 /\ route = FALSE /\ netinit = "none"
  /\ gateway = "none" /\ daemons = {} /\ termed = {}

-------------------------------------------------------------------------------
(* docker compose up -d: the stack, or some services of it.                    *)
UpWith(services) ==
  /\ order = {} /\ orders < MaxOrders
  /\ order' = services /\ orders' = orders + 1
  /\ UNCHANGED <<boot, sas>>

(* Started, or recreated (a rebuilt image): a new network namespace.  A netinit *)
(* that still runs stays in the old one.                                       *)
WorkerStarts ==
  /\ "worker" \in order /\ gateway \in Healthy
  /\ order' = order \ {"worker"}
  /\ worker' = "waiting" /\ waited' = 0 /\ route' = FALSE
  /\ netinit' = IF netinit = "running" THEN "lost" ELSE netinit
  /\ UNCHANGED <<orders, sas>>

GatewayStarts ==
  /\ "gateway" \in order /\ gateway \in {"none", "stopped"}
  /\ order' = order \ {"gateway"}
  /\ gateway' = "starting"
  /\ UNCHANGED <<orders, boot, daemons, termed>>

NetinitStarts ==
  /\ "netinit" \in order /\ worker \in Up /\ gateway \in Healthy
  /\ netinit \notin {"running", "lost"}
  /\ order' = order \ {"netinit"}
  /\ netinit' = "running"
  /\ UNCHANGED <<orders, worker, waited, route, sas>>

(* A container that runs, and has not changed, is left alone.                  *)
LeaveAlone ==
  /\ order' = order \ ((IF gateway \in Healthy THEN {"gateway"} ELSE {}) \cup
                       (IF worker \in Up THEN {"worker"} ELSE {}))
  /\ order' # order
  /\ UNCHANGED <<orders, boot, sas>>

(* A dependency that failed ends the command.                                  *)
ComposeFails ==
  /\ order # {}
  /\ \/ gateway = "stopped" /\ "gateway" \notin order
     \/ worker = "stopped" /\ "worker" \notin order
  /\ order' = {}
  /\ UNCHANGED <<orders, boot, sas>>

-------------------------------------------------------------------------------
(* ip route replace default: in the namespace it was started in, or it fails.  *)
NetinitEnds ==
  /\ netinit \in {"running", "lost"}
  /\ netinit' = "ended"
  /\ route' \in (IF netinit = "running" THEN {route, TRUE} ELSE {route})
  /\ UNCHANGED <<compose, worker, waited, sas>>

(* Mutant: one look more, after the deadline.                                  *)
LookLate ==
  /\ worker = "waiting" /\ waited <= MaxWait
  /\ IF route THEN worker' = "arq" /\ waited' = waited
     ELSE worker' = worker /\ waited' = waited + 1
  /\ UNCHANGED <<compose, route, netinit, sas>>

(* main: look, and sleep 0.2 s; found, "&& exec arq".                          *)
Look ==
  /\ worker = "waiting" /\ waited < MaxWait
  /\ IF route THEN worker' = "arq" /\ waited' = waited
     ELSE worker' = worker /\ waited' = waited + 1
  /\ UNCHANGED <<compose, route, netinit, sas>>

(* Mutant: "wait_for_egress_route.py; exec arq".                               *)
StartAnyway ==
  /\ worker = "waiting" /\ waited = MaxWait
  /\ worker' = "arq"
  /\ UNCHANGED <<compose, waited, route, netinit, sas>>

(* Mutant: the loop has no deadline.                                           *)
WaitOn ==
  /\ worker = "waiting" /\ waited = MaxWait
  /\ waited' = 0
  /\ UNCHANGED <<compose, worker, route, netinit, sas>>

(* The deadline has passed: exit 1, so the container stops.                    *)
GiveUp ==
  /\ worker = "waiting" /\ waited = MaxWait
  /\ worker' = "stopped"
  /\ UNCHANGED <<compose, waited, route, netinit, sas>>

(* Killed (memory limit), or stopped by hand.                                  *)
WorkerDies ==
  /\ worker \in Up
  /\ worker' = "stopped" /\ route' = FALSE
  /\ netinit' = IF netinit = "running" THEN "lost" ELSE netinit
  /\ UNCHANGED <<compose, waited, sas>>

-------------------------------------------------------------------------------
(* entrypoint.sh: maps, ruleset, then the daemons in the background; set -e: any *)
(* failure on the way is the end of it.                                        *)
Entrypoint ==
  /\ gateway = "starting"
  /\ \/ gateway' = "serving" /\ daemons' = Daemon
     \/ gateway' = "stopped" /\ daemons' = daemons
  /\ termed' = {}
  /\ UNCHANGED <<compose, boot>>

DaemonDies(d) ==
  /\ d \in daemons
  /\ daemons' = daemons \ {d}
  /\ UNCHANGED <<compose, boot, gateway, termed>>

(* The script ends, and the container with whatever is left in it.             *)
ContainerEnds == gateway' = "stopped" /\ daemons' = {} /\ termed' = termed

(* wait -n returns the exit status of the first daemon that is gone: under      *)
(* set -e a failure ends the script there.                                     *)
WaitReturns ==
  /\ gateway = "serving" /\ daemons # Daemon
  /\ \/ ContainerEnds
     \/ gateway' = "returned" /\ UNCHANGED <<daemons, termed>>
  /\ UNCHANGED <<compose, boot>>

(* Mutant: the others are not told.                                            *)
KillNobody ==
  /\ gateway = "returned"
  /\ gateway' = "ending"
  /\ UNCHANGED <<compose, boot, daemons, termed>>

(* kill -TERM, to all of them.                                                 *)
KillOthers ==
  /\ gateway = "returned"
  /\ gateway' = "ending" /\ termed' = daemons
  /\ UNCHANGED <<compose, boot, daemons>>

(* A daemon obeys SIGTERM.                                                     *)
DaemonEnds(d) == d \in termed /\ DaemonDies(d)

(* wait: for all of them.                                                      *)
WaitAll ==
  /\ gateway = "ending" /\ daemons = {}
  /\ ContainerEnds
  /\ UNCHANGED <<compose, boot>>

Next ==
  \/ \E s \in {{"gateway", "worker", "netinit"}, {"gateway", "worker"}, {"netinit"}} : UpWith(s)
  \/ WorkerStarts \/ GatewayStarts \/ NetinitStarts
  \/ LeaveAlone \/ ComposeFails
  \/ NetinitEnds \/ Look \/ GiveUp \/ WorkerDies
  \/ Entrypoint \/ \E d \in Daemon : DaemonDies(d)
  \/ WaitReturns \/ KillOthers \/ WaitAll

(* The processes of the containers run; the operator, compose and the failures  *)
(* owe nothing.                                                                *)
Fairness ==
  /\ WF_vars(Look) /\ WF_vars(GiveUp)
  /\ WF_vars(WaitReturns) /\ WF_vars(KillOthers) /\ WF_vars(WaitAll)
  /\ \A d \in Daemon : WF_vars(DaemonEnds(d))

Spec == Init /\ [][Next]_vars /\ Fairness

-------------------------------------------------------------------------------
(* Every variable has its type.                                                *)
TypeOK ==
  /\ order \subseteq {"gateway", "worker", "netinit"} /\ orders \in 0..MaxOrders
  /\ worker \in {"none", "stopped"} \cup Up /\ waited \in 0..MaxWait /\ route \in BOOLEAN
  /\ netinit \in {"none", "running", "lost", "ended"}
  /\ gateway \in {"none", "starting", "stopped"} \cup Healthy
  /\ daemons \subseteq Daemon /\ termed \subseteq Daemon

(* wait_for_egress_route.py:13-15: arq never runs in a namespace without a      *)
(* route, whatever netinit did for an earlier worker; such jobs would end       *)
(* "done" with nothing found.                                                  *)
ArqHasRoute == worker = "arq" => route

(* The same lines, "doit s'arrêter, pas continuer en silence": a worker that    *)
(* waits, recreated without its netinit for instance, gets to arq or stops.    *)
WaitIsDecided == worker = "waiting" ~> worker # "waiting"

(* entrypoint.sh:72-75, "un service critique s'est arrete, extinction": from     *)
(* whichever daemon is gone, however it ended and whoever follows while the     *)
(* script takes the others down, the container comes to an end; it neither goes *)
(* on with half a filter nor hangs in its last wait.                           *)
GatewayFallsWhole == (gateway \in Healthy /\ daemons # Daemon) ~> gateway = "stopped"
================================================================================
