----------------------------- MODULE MCPlugins -----------------------------
(***************************************************************************)
(* What belongs to one plugin, in one model: its processes, the instance,  *)
(* its breaker, its scheduled jobs, its open transactions, and how an      *)
(* example plugin uses them.  They share no state, so a behaviour          *)
(* exercises one of them.                                                  *)
(***************************************************************************)
EXTENDS Instance, Breaker, Scheduler, TxRegistry, Stock, Process, TLC

CONSTANTS
  j1, j2,     \* the jobs
  q1, q2, q3  \* the requests for stock

VARIABLE part  \* the component this behaviour exercises

pluginsVars == <<part, vars, breakerVars, schedulerVars, txVars, stockVars, processVars>>

\* A job of the first minute, and one whose later claim forgets it.
SmallFiresIn == (j1 :> {0}) @@ (j2 :> {0, 2})

SmallQty == (q1 :> 1) @@ (q2 :> 2) @@ (q3 :> 1)
SmallItems == {[onHand |-> 2, reserved |-> 0], [onHand |-> 1, reserved |-> 0]}

\* One replica that two deliveries reach, two of them for one, and two consumers.
OneReplica == [callbacks |-> {"OnConfigChanged", "OnReady", "OnShutdown"}, replicas |-> 1, settings |-> 2]
TwoReplicas == [callbacks |-> {"OnConfigChanged"}, replicas |-> 2, settings |-> 1]
TwoConsumers == [callbacks |-> {"OnReady"}, replicas |-> 2, settings |-> 0]
SmallPackages == {OneReplica, TwoReplicas, TwoConsumers}

PluginsInit ==
  /\ part \in {"instance", "breaker", "scheduler", "tx", "stock", "process"}
  /\ Init /\ BreakerInit /\ SchedulerInit /\ TxInit /\ StockInit
  /\ ProcessInit /\ (part # "process" => pkg = OneReplica)

\* A step of the component p is a step of the model when p is exercised.
InstanceOnly ==
  part = "instance" /\ UNCHANGED <<part, breakerVars, schedulerVars, txVars, stockVars, processVars>>
BreakerOnly ==
  part = "breaker" /\ UNCHANGED <<part, vars, schedulerVars, txVars, stockVars, processVars>>
SchedulerOnly ==
  part = "scheduler" /\ UNCHANGED <<part, vars, breakerVars, txVars, stockVars, processVars>>
TxOnly ==
  part = "tx" /\ UNCHANGED <<part, vars, breakerVars, schedulerVars, stockVars, processVars>>
StockOnly ==
  part = "stock" /\ UNCHANGED <<part, vars, breakerVars, schedulerVars, txVars, processVars>>
ProcessOnly ==
  part = "process" /\ UNCHANGED <<part, vars, breakerVars, schedulerVars, txVars, stockVars>>

PluginsNext ==
  \/ InstanceOnly /\ Next
  \/ BreakerOnly /\ BreakerNext
  \/ SchedulerOnly /\ SchedulerNext
  \/ TxOnly /\ TxNext
  \/ StockOnly /\ StockNext
  \/ ProcessOnly /\ ProcessNext

\* The goroutine that stops an instance is always runnable: Shutdown and the
\* wait are bounded by the drain timeout.  Nothing is assumed of the requests.
\* Time passes for the breaker and its callers go on; the handlers that reserve
\* and restock run, and so does the reaper of transactions (StartReaper); calls
\* on transactions that have begun go on.
PluginsFairness ==
  /\ WF_pluginsVars(InstanceOnly /\ Stop)
  /\ WF_pluginsVars(BreakerOnly /\ BreakerTick)
  /\ \A c \in Callers : WF_pluginsVars(BreakerOnly /\ CallerStep(c))
  /\ \A c \in Calls : WF_pluginsVars(TxOnly /\ TxCallStep(c))
  /\ WF_pluginsVars(TxOnly /\ \E id \in TxIds : Expire(id))
  /\ WF_pluginsVars(TxOnly /\ ~closed /\ ReapExpired)
  /\ WF_pluginsVars(StockOnly /\ \E r \in StockRequests : StockStep(r))
  /\ WF_pluginsVars(StockOnly /\ \E r \in StockRequests : Reaps(r))

PluginsSpec == PluginsInit /\ [][PluginsNext]_pluginsVars /\ PluginsFairness

\* The variables of every component have their types.
PluginsTypeOK ==
  TypeOK /\ BreakerTypeOK /\ SchedulerTypeOK /\ TxTypeOK /\ StockTypeOK /\ ProcessTypeOK
=============================================================================
