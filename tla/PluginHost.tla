----------------------------- MODULE PluginHost -----------------------------
(***************************************************************************)
(* The lifecycle of one plugin: the admin operations of the manager, the   *)
(* registry that publishes its instances and the supervisor's watchers.    *)
(* The registry keeps plugins apart by key, so one key is modelled.  A     *)
(* step is what happens under one lock, or between two of them: the long   *)
(* operations of the code are several steps that interleave with each      *)
(* other.  What an instance does while it drains is the module Instance.   *)
(* Source: core/pluginhost/{manager,registry,supervisor}.go.               *)
(***************************************************************************)
EXTENDS Integers, FiniteSets

CONSTANTS
  Admins,          \* admin requests that can be in progress at once
  AdminOps,        \* the operations they may call
  Replicas,        \* manifest.ReplicaCount
  CrashThreshold,  \* SupervisorConfig.CrashThreshold
  WindowElapses,   \* whether the crash window may pass between two crashes
  MaxInstances,    \* bound: processes launched in a behaviour
  MaxVersion       \* bound: package versions delivered

ASSUME HostAssumption ==
  /\ AdminOps \subseteq {"enable", "disable", "upgrade", "rescan"}
  /\ Replicas \in Nat \ {0}
  /\ CrashThreshold \in Nat \ {0}
  /\ WindowElapses \in BOOLEAN
  /\ MaxInstances \in Nat /\ MaxVersion \in Nat \ {0}

Instances == 1 .. MaxInstances

Versions == 1 .. MaxVersion

VARIABLES
  launched,    \* how many processes have been launched: ids 1 .. launched
  inst,        \* inst[i]: state, process and version of instance i
  reg,         \* the registration: its instances and whether it has filters
  pkg,         \* Manager.packages[key]: its version, 0 when it did not load
  disk,        \* the version in the plugin directory (external)
  enabled,     \* key \in Manager.enabled
  crashes,     \* Supervisor.crashes[key].count, 0 when there is no record
  quarantined, \* key \in Supervisor.quarantined
  op,          \* op[a]: the admin operation a is in, with what it holds
  drains,      \* instances that a goroutine started by Swap is draining
  sup          \* sup[i]: the watcher of i and the recovery it runs

hostVars == <<launched, inst, reg, pkg, disk, enabled, crashes, quarantined, op,
          drains, sup>>

manager == <<pkg, disk, enabled>>
crashing == <<crashes, quarantined>>

Idle == [pc |-> "idle", ver |-> 0, insts |-> {}]
Watching == [pc |-> "watch", ver |-> 0, fresh |-> 0]
NoInstance == [state |-> "none", alive |-> FALSE, version |-> 0]
NoPlugin == [insts |-> {}, filters |-> FALSE]

Live(i) == i \in Instances /\ inst[i].alive

HostInit ==
  /\ launched = 0
  /\ inst = [i \in Instances |-> NoInstance]
  /\ reg = NoPlugin
  /\ pkg = 1
  /\ disk = 1
  /\ enabled = FALSE
  /\ crashes = 0
  /\ quarantined = FALSE
  /\ op = [a \in Admins |-> Idle]
  /\ drains = {}
  /\ sup = [i \in Instances |-> [Watching EXCEPT !.pc = "none"]]

-----------------------------------------------------------------------------
(* Parts of several operations.                                            *)

\* The next n processes, launched from version v and marked ready.
Fresh(n) == (launched + 1) .. (launched + n)

LaunchSome(n, v) ==
  /\ launched + n <= MaxInstances
  /\ launched' = launched + n
  /\ inst' = [i \in Instances |->
                IF i \in Fresh(n)
                THEN [state |-> "ready", alive |-> TRUE, version |-> v]
                ELSE inst[i]]

\* InstallPlugin: the registration is replaced as a whole.
InstallPlugin(is, withFilters) ==
  reg' = IF is = {} THEN NoPlugin ELSE [insts |-> is, filters |-> withFilters]

\* Watch starts a goroutine for each instance.
StartWatch(is) == sup' = [i \in Instances |-> IF i \in is THEN Watching ELSE sup[i]]

\* The end of a drain: the process is killed and the instance stopped.
Stopped(is) ==
  inst' = [i \in Instances |->
             IF i \in is THEN [inst[i] EXCEPT !.state = "stopped", !.alive = FALSE]
             ELSE inst[i]]

ClearCrashes ==
  /\ crashes' = 0
  /\ quarantined' = FALSE

Goto(a, pc, ver, is) == op' = [op EXCEPT ![a] = [pc |-> pc, ver |-> ver, insts |-> is]]

Finish(a) == op' = [op EXCEPT ![a] = Idle]

-----------------------------------------------------------------------------
(* Enable.                                                                 *)

EnableBegin(a) ==
  /\ "enable" \in AdminOps
  /\ op[a].pc = "idle"
  /\ pkg # 0
  /\ Goto(a, "enableLaunch", pkg, {})
  /\ UNCHANGED <<launched, inst, reg, manager, crashing, drains, sup>>

EnableLaunch(a) ==
  /\ op[a].pc = "enableLaunch"
  /\ LaunchSome(Replicas, op[a].ver)
  /\ Goto(a, "enableInstall", op[a].ver, Fresh(Replicas))
  /\ UNCHANGED <<reg, manager, crashing, drains, sup>>

\* launchAll failed: what it had started is killed, nothing was published.
LaunchFails(a) ==
  /\ op[a].pc \in {"enableLaunch", "upgradeLaunch"}
  /\ Finish(a)
  /\ UNCHANGED <<launched, inst, reg, manager, crashing, drains, sup>>

\* What InstallPlugin displaced is not looked at.
EnableInstall(a) ==
  /\ op[a].pc = "enableInstall"
  /\ InstallPlugin(op[a].insts, TRUE)
  /\ StartWatch(op[a].insts)
  /\ Goto(a, "enableMark", 0, op[a].insts)
  /\ UNCHANGED <<launched, inst, manager, crashing, drains>>

EnableMark(a) ==
  /\ op[a].pc = "enableMark"
  /\ enabled' = TRUE
  /\ Goto(a, "clear", 0, op[a].insts)
  /\ UNCHANGED <<launched, inst, reg, pkg, disk, crashing, drains, sup>>

\* The last step of Enable, Disable and Upgrade.
AdminClear(a) ==
  /\ op[a].pc = "clear"
  /\ ClearCrashes
  /\ Finish(a)
  /\ UNCHANGED <<launched, inst, reg, manager, drains, sup>>

-----------------------------------------------------------------------------
(* Disable.                                                                *)

DisableMark(a) ==
  /\ "disable" \in AdminOps
  /\ op[a].pc = "idle"
  /\ enabled' = FALSE
  /\ Goto(a, "disableRemove", 0, {})
  /\ UNCHANGED <<launched, inst, reg, pkg, disk, crashing, drains, sup>>

\* Mutant: the instances are left in the snapshot while they are drained.
DisableRemoveLate(a) ==
  /\ op[a].pc = "disableRemove"
  /\ IF reg.insts = {} THEN Finish(a) ELSE Goto(a, "disableDrain", 0, reg.insts)
  /\ UNCHANGED <<reg, launched, inst, manager, crashing, drains, sup>>

\* When nothing was registered Disable returns here.
DisableRemove(a) ==
  /\ op[a].pc = "disableRemove"
  /\ InstallPlugin({}, FALSE)
  /\ IF reg.insts = {} THEN Finish(a) ELSE Goto(a, "disableDrain", 0, reg.insts)
  /\ UNCHANGED <<launched, inst, manager, crashing, drains, sup>>

DisableDrain(a) ==
  /\ op[a].pc = "disableDrain"
  /\ Stopped(op[a].insts)
  /\ Goto(a, "clear", 0, {})
  /\ UNCHANGED <<launched, reg, manager, crashing, drains, sup>>

-----------------------------------------------------------------------------
(* Upgrade, and the packages it reads.                                     *)

\* A new package is moved into the plugin directory (external).
DeliverPackage ==
  /\ disk < MaxVersion
  /\ disk' = disk + 1
  /\ UNCHANGED <<launched, inst, reg, pkg, enabled, crashing, op, drains, sup>>

\* Scan reloads every package; one that fails to load is no longer known.
Rescan(a) ==
  /\ "rescan" \in AdminOps
  /\ op[a].pc = "idle"
  /\ pkg' \in {disk, 0}
  /\ UNCHANGED <<launched, inst, reg, disk, enabled, crashing, op, drains, sup>>

UpgradeBegin(a) ==
  /\ "upgrade" \in AdminOps
  /\ op[a].pc = "idle"
  /\ Goto(a, "upgradeLaunch", disk, {})
  /\ UNCHANGED <<launched, inst, reg, manager, crashing, drains, sup>>

UpgradeLaunch(a) ==
  /\ op[a].pc = "upgradeLaunch"
  /\ LaunchSome(Replicas, op[a].ver)
  /\ Goto(a, "upgradeMark", op[a].ver, Fresh(Replicas))
  /\ UNCHANGED <<reg, manager, crashing, drains, sup>>

\* Mutant: the old instances leave the snapshot before the new ones enter it.
UpgradeMarkRemoves(a) ==
  /\ op[a].pc = "upgradeMark"
  /\ pkg' = op[a].ver
  /\ enabled' = TRUE
  /\ InstallPlugin({}, FALSE)
  /\ drains' = drains \cup reg.insts
  /\ Goto(a, "upgradeSwap", op[a].ver, op[a].insts)
  /\ UNCHANGED <<launched, inst, disk, crashing, sup>>

UpgradeMark(a) ==
  /\ op[a].pc = "upgradeMark"
  /\ pkg' = op[a].ver
  /\ enabled' = TRUE
  /\ Goto(a, "upgradeSwap", op[a].ver, op[a].insts)
  /\ UNCHANGED <<launched, inst, reg, disk, crashing, drains, sup>>

\* Swap hands every displaced instance to a draining goroutine.
UpgradeSwap(a) ==
  /\ op[a].pc = "upgradeSwap"
  /\ InstallPlugin(op[a].insts, TRUE)
  /\ drains' = drains \cup reg.insts
  /\ StartWatch(op[a].insts)
  /\ Goto(a, "clear", 0, op[a].insts)
  /\ UNCHANGED <<launched, inst, manager, crashing>>

DrainDone(i) ==
  /\ i \in drains
  /\ Stopped({i})
  /\ drains' = drains \ {i}
  /\ UNCHANGED <<launched, reg, manager, crashing, op, sup>>

-----------------------------------------------------------------------------
(* The supervisor.                                                         *)

\* A process dies on its own (external).
ProcessDies(i) ==
  /\ Live(i)
  /\ inst' = [inst EXCEPT ![i].alive = FALSE]
  /\ UNCHANGED <<launched, reg, manager, crashing, op, drains, sup>>

SupGoto(i, pc) == sup' = [sup EXCEPT ![i] = [Watching EXCEPT !.pc = pc]]

\* watchLoop finds the process gone; isUnexpected decides what that means.
WatchExit(i) ==
  /\ sup[i].pc = "watch"
  /\ ~inst[i].alive
  /\ IF inst[i].state \notin {"stopped", "quarantined"} /\ i \in reg.insts
     THEN /\ inst' = [inst EXCEPT ![i].state = "failed"]
          /\ SupGoto(i, "crashed")
     ELSE /\ SupGoto(i, "done")
          /\ UNCHANGED inst
  /\ UNCHANGED <<launched, reg, manager, crashing, op, drains>>

\* Mutant: a failed restart never counts towards the threshold.
CountCrashNever(i) ==
  /\ sup[i].pc = "crashed"
  /\ crashes' = IF crashes = 0 THEN 1 ELSE crashes
  /\ SupGoto(i, "backoff")
  /\ UNCHANGED <<launched, inst, reg, manager, quarantined, op, drains>>

\* tooManyCrashes: a first crash, or one after the window, starts a record.
CountCrash(i) ==
  /\ sup[i].pc = "crashed"
  /\ \/ /\ crashes = 0 \/ WindowElapses
        /\ crashes' = 1
        /\ SupGoto(i, "backoff")
     \/ /\ crashes > 0
        /\ crashes' = crashes + 1
        /\ SupGoto(i, IF crashes + 1 >= CrashThreshold THEN "isolate" ELSE "backoff")
  /\ UNCHANGED <<launched, inst, reg, manager, quarantined, op, drains>>

MarkIsolated(i) ==
  /\ sup[i].pc = "isolate"
  /\ quarantined' = TRUE
  /\ SupGoto(i, "remove")
  /\ UNCHANGED <<launched, inst, reg, manager, crashes, op, drains>>

\* Mutant: the isolated instances go back to the zero state.
IsolateResets(i) ==
  /\ sup[i].pc = "remove"
  /\ InstallPlugin({}, FALSE)
  /\ inst' = [j \in Instances |->
                IF j \in reg.insts THEN [inst[j] EXCEPT !.state = "starting"]
                ELSE inst[j]]
  /\ SupGoto(i, "done")
  /\ UNCHANGED <<launched, manager, crashing, op, drains>>

\* Everything registered is removed, marked quarantined and killed.
Isolate(i) ==
  /\ sup[i].pc = "remove"
  /\ InstallPlugin({}, FALSE)
  /\ inst' = [j \in Instances |->
                IF j \in reg.insts
                THEN [inst[j] EXCEPT !.state = "quarantined", !.alive = FALSE]
                ELSE inst[j]]
  /\ SupGoto(i, "done")
  /\ UNCHANGED <<launched, manager, crashing, op, drains>>

\* The backoff is over and the plugin is looked up in the registry.  Enable and
\* Upgrade do no I/O after they have started a watcher, and that watcher polls
\* and then backs off for a second each: it gets here after they have ended.
BackoffEnds(i) ==
  /\ sup[i].pc = "backoff"
  /\ \A a \in Admins : op[a].pc \in {"enableMark", "clear"} => i \notin op[a].insts
  /\ SupGoto(i, IF reg.insts = {} THEN "done" ELSE "relaunch")
  /\ UNCHANGED <<launched, inst, reg, manager, crashing, op, drains>>

\* relaunch looks the package and enabled up, and then launches.
RelaunchRead(i) ==
  /\ sup[i].pc = "relaunch"
  /\ IF pkg # 0 /\ enabled
     THEN sup' = [sup EXCEPT ![i].pc = "launch", ![i].ver = pkg]
     ELSE SupGoto(i, "done")
  /\ UNCHANGED <<launched, inst, reg, manager, crashing, op, drains>>

RelaunchOk(i) ==
  /\ sup[i].pc = "launch"
  /\ LaunchSome(1, sup[i].ver)
  /\ sup' = [sup EXCEPT ![i] = [pc |-> "install", ver |-> 0, fresh |-> launched + 1]]
  /\ UNCHANGED <<reg, manager, crashing, op, drains>>

RelaunchFails(i) ==
  /\ sup[i].pc = "launch"
  /\ SupGoto(i, "crashed")
  /\ UNCHANGED <<launched, inst, reg, manager, crashing, op, drains>>

\* Mutant: the restarted instance is published but not watched.
RestartUnwatched(i) ==
  /\ sup[i].pc = "install"
  /\ InstallPlugin({sup[i].fresh}, FALSE)
  /\ SupGoto(i, "done")
  /\ UNCHANGED <<launched, inst, manager, crashing, op, drains>>

\* Install registers the fresh instance alone, without filters, and does not
\* look at what it displaced.
Restart(i) ==
  /\ sup[i].pc = "install"
  /\ InstallPlugin({sup[i].fresh}, FALSE)
  /\ sup' = [sup EXCEPT ![i] = [Watching EXCEPT !.pc = "done"],
                        ![sup[i].fresh] = Watching]
  /\ UNCHANGED <<launched, inst, manager, crashing, op, drains>>

-----------------------------------------------------------------------------
\* The steps an admin operation takes once it has begun.
AdminStep(a) ==
  \/ EnableLaunch(a) \/ LaunchFails(a) \/ EnableInstall(a) \/ EnableMark(a)
  \/ DisableRemove(a) \/ DisableDrain(a)
  \/ UpgradeLaunch(a) \/ UpgradeMark(a) \/ UpgradeSwap(a) \/ AdminClear(a)

SupStep(i) ==
  \/ WatchExit(i) \/ CountCrash(i) \/ MarkIsolated(i) \/ Isolate(i)
  \/ BackoffEnds(i) \/ RelaunchRead(i) \/ RelaunchOk(i) \/ RelaunchFails(i)
  \/ Restart(i)

HostNext ==
  \/ \E a \in Admins :
       \/ EnableBegin(a) \/ DisableMark(a) \/ UpgradeBegin(a) \/ Rescan(a)
       \/ AdminStep(a)
  \/ DeliverPackage
  \/ \E i \in Instances : SupStep(i) \/ DrainDone(i) \/ ProcessDies(i)

HostSpec == HostInit /\ [][HostNext]_hostVars

-----------------------------------------------------------------------------
(* Properties.                                                             *)

\* The variables have their types.
HostTypeOK ==
  /\ launched \in 0 .. MaxInstances
  /\ inst \in [Instances ->
       [state : {"none", "ready", "failed", "stopped", "quarantined"},
        alive : BOOLEAN, version : 0 .. MaxVersion]]
  /\ reg \in [insts : SUBSET Instances, filters : BOOLEAN]
  /\ pkg \in 0 .. MaxVersion /\ disk \in Versions
  /\ enabled \in BOOLEAN /\ quarantined \in BOOLEAN
  /\ crashes \in Nat
  /\ op \in [Admins ->
       [pc : {"idle", "enableLaunch", "enableInstall", "enableMark", "clear",
              "disableRemove", "disableDrain", "upgradeLaunch", "upgradeMark",
              "upgradeSwap"},
        ver : 0 .. MaxVersion, insts : SUBSET Instances]]
  /\ drains \subseteq Instances
  /\ sup \in [Instances ->
       [pc : {"none", "watch", "crashed", "isolate", "remove", "backoff",
              "relaunch", "launch", "install", "done"},
        ver : 0 .. MaxVersion, fresh : 0 .. MaxInstances]]

AdminsIdle == \A a \in Admins : op[a].pc = "idle"

\* Who is responsible for instance i: the registry, a background drain, an
\* admin operation or a recovery about to install it.
Owners(i) ==
  {<<"registry">> : x \in reg.insts \cap {i}}
    \cup {<<"drain">> : x \in drains \cap {i}}
    \cup {<<"admin", a>> :
            a \in {b \in Admins : op[b].pc \notin {"enableMark", "clear"}
                                   /\ i \in op[b].insts}}
    \cup {<<"recovery", j>> :
            j \in {k \in Instances : sup[k].pc = "install" /\ sup[k].fresh = i}}

\* No instance is published and stopped at once, stopped by two goroutines, or
\* published by two.
OneOwner == \A i \in Instances : Cardinality(Owners(i)) <= 1

\* A process that runs on keeps an owner, with two exceptions in which the code
\* falls short of "the caller owns draining them" (registry.go:263): the enable of a
\* plugin that serves (manager.go:198) and a restart (supervisor.go:213) drop what
\* InstallPlugin returns, and what they displaced runs on with nobody to stop it.
StaysOwned ==
  \A i \in Instances : Live(i) /\ inst'[i].alive /\ Owners(i) # {} /\ Owners(i)' = {} =>
    /\ i \in reg.insts
    /\ \/ \E a \in Admins : op[a].pc = "enableInstall" /\ op'[a].pc = "enableMark"
       \/ \E j \in Instances : sup[j].pc = "install" /\ sup'[j].pc = "done"

\* A plugin that serves stops being routable only through a disable or a
\* quarantine: an enable, an upgrade, a failed launch and a restart replace the
\* registration in one step ("a failed launch never disturbs live traffic",
\* registry.go:266).
ServesUntilRemoved ==
  reg.insts # {} /\ reg'.insts = {} =>
    \/ \E a \in Admins : op[a].pc = "disableRemove"
    \/ \E i \in Instances : sup[i].pc = "remove"

\* What the registry says of a plugin stays sound while admins and recoveries
\* race: an instance has one owner, from its launch until its process ends save for
\* the two operations that forget what they displace, and a plugin that serves goes
\* on serving (registry.go:262-280).
RegistrationIsSound ==
  [][OneOwner' /\ StaysOwned /\ ServesUntilRemoved]_hostVars

\* A published instance that died does not stay published: it is replaced by a
\* restart, an upgrade or an enable, or removed by a quarantine
\* (supervisor.go:162-216).  Without rescans and disables: a recovery is given up
\* when the package is gone or the plugin disabled at the time it looks.
CrashIsHandled ==
  \A i \in Instances :
    (i \in reg.insts /\ ~inst[i].alive) ~> i \notin reg.insts

\* A plugin all of whose processes crash ends quarantined instead of being
\* restarted for ever (supervisor.go:39-41).
CrashLoopEnds ==
  (\A i \in Instances : WF_hostVars(ProcessDies(i))) => (enabled ~> quarantined)

-----------------------------------------------------------------------------
(* What comments of the code say and its interleavings refute.             *)

\* A restart does not bring back a plugin an admin has disabled
\* (supervisor.go:190-196).
DisabledStaysDown == AdminsIdle /\ ~enabled => reg.insts = {}

\* A plugin that declares filters is registered with them: Install is for "a
\* plugin that declares no filters" (registry.go:282).
RegisteredWithFilters == reg.insts # {} => reg.filters
=============================================================================
