------------------------------ MODULE Process ------------------------------
(***************************************************************************)
(* The life of a plugin's processes: launched one after the other, each    *)
(* with a handshake, a connection back to Core and a first configuration;  *)
(* working in the background and taking new settings while they run; asked *)
(* to wind down and killed.  Core's side and the SDK's are both here, and  *)
(* the messages between them have a greatest size on each side.            *)
(* Source: core/pluginhost/launch.go, manager.go and instance.go,          *)
(* pluginapi/grpcplugin.go, serve.go and client.go, sdk/plugin/sdk.go,     *)
(* bridge.go and host.go.                                                  *)
(***************************************************************************)
EXTENDS Integers, FiniteSets

CONSTANTS
  Packages,      \* packages: the callbacks the author's Config has, the replicas the manifest
                 \* asks for, and a bound on the calls of SetConfig
  Sizes,         \* sizes of a configuration on the wire
  CoreMax, PluginMax, DefaultMaxMessageBytes,  \* MaxMessageBytes of either side; 0 for the default
  MaxMessages    \* bound: messages a consumer is handed

VARIABLES
  pkg,       \* the package that is launched
  launch,    \* launchAll: the replica it is at, and the step of its Launch
  replicas,  \* the replicas' processes
  setting,   \* SetConfig: the replica a call is at, 0 before the first and one more after the last
  deliver    \* OnConfigChanged in a plugin: not there, stored or done

processVars == <<pkg, launch, replicas, setting, deliver>>

\* The callbacks of the SDK's Config that a process makes outside requests.
Callbacks == {"OnConfigChanged", "OnReady", "OnShutdown"}

Replicas == 1..pkg.replicas
Settings == 1..pkg.settings

\* No settings have been stored, or applied; 0 is what the process was launched with.
NoSettings == -1

\* A process before it is started.  Its Shutdown is late when the time it was
\* given is over; alone is whether the last delivery of settings had no other beside it.
NotStarted ==
  [proc |-> "none", dialled |-> "no", configure |-> "no", stored |-> NoSettings, applied |-> NoSettings,
   alone |-> TRUE, ready |-> "no", got |-> 0, cancelled |-> FALSE,
   drain |-> "no", shutdown |-> "no", late |-> FALSE]

ProcessInit ==
  /\ pkg \in Packages
  /\ launch = [at |-> 1, step |-> "prepare"]
  /\ replicas = [i \in Replicas |-> NotStarted]
  /\ setting = [s \in Settings |-> 0]
  /\ deliver = [s \in Settings |-> [i \in Replicas |-> "no"]]

Running(i) == replicas[i].proc = "running"

-----------------------------------------------------------------------------
(* Sizes on the wire: either side checks what it sends and what it takes.  *)

maxMsg(given) == IF given > 0 THEN given ELSE DefaultMaxMessageBytes

callOpts(size) == size <= maxMsg(CoreMax)
Serve(size) == size <= maxMsg(PluginMax)

\* A call of Core arrives at the plugin.
Arrives(size) == callOpts(size) /\ Serve(size)

-----------------------------------------------------------------------------
(* Launching.                                                              *)

\* Launch fails: its process is killed, if there is one, and no other is begun.
LaunchFails(i) ==
  /\ launch' = [launch EXCEPT !.step = "failing"]
  /\ replicas' = [replicas EXCEPT ![i].proc = IF @ = "running" THEN "killed" ELSE @]
  /\ UNCHANGED <<pkg, setting, deliver>>

\* The data directory is made, and the environment put together.
Prepare(i) ==
  /\ launch = [at |-> i, step |-> "prepare"]
  /\ \/ LaunchFails(i)
     \/ launch' = [launch EXCEPT !.step = "start"] /\ UNCHANGED <<pkg, replicas, setting, deliver>>

\* The process is started, unless its checksum is another, and the handshake read.
Start(i) ==
  /\ launch = [at |-> i, step |-> "start"]
  /\ \/ LaunchFails(i)
     \/ /\ replicas' = [replicas EXCEPT ![i].proc = "running"]
        /\ launch' = [launch EXCEPT !.step = "dispense"]
        /\ UNCHANGED <<pkg, setting, deliver>>

\* Core serves HostServices for the process, and keeps the place to dial.
GRPCClient(i) ==
  /\ launch = [at |-> i, step |-> "dispense"]
  /\ \/ LaunchFails(i)
     \/ /\ Running(i)
        /\ launch' = [launch EXCEPT !.step = "configure"]
        /\ UNCHANGED <<pkg, replicas, setting, deliver>>

CallConfigure(i, size) ==
  /\ launch = [at |-> i, step |-> "configure"]
  /\ IF Arrives(size) /\ Running(i)
     THEN /\ launch' = [launch EXCEPT !.step = "waiting"]
          /\ replicas' = [replicas EXCEPT ![i].configure = "arrived"]
          /\ UNCHANGED <<pkg, setting, deliver>>
     ELSE LaunchFails(i)

\* The host clients get the way back to Core.
bindHost(i) == replicas' = [replicas EXCEPT ![i].dialled = "bound", ![i].configure = "dialled"]

\* dialOnce: Core is dialled, or cannot be.
DialBack(i) ==
  /\ Running(i) /\ replicas[i].configure = "arrived"
  /\ \/ bindHost(i)
     \/ replicas' = [replicas EXCEPT ![i].dialled = "failed", ![i].configure = "refused"]
  /\ UNCHANGED <<pkg, launch, setting, deliver>>

\* What the author's code reads.
GetConfig(i) == replicas[i].stored

\* The settings are stored, then handed to the author's callback.
Configure(i) ==
  /\ Running(i)
  /\ \/ /\ replicas[i].configure = "dialled"
        /\ replicas' = [replicas EXCEPT ![i].stored = 0, ![i].configure = "stored"]
     \/ /\ replicas[i].configure = "stored"
        /\ replicas' = [replicas EXCEPT
             ![i].applied = IF "OnConfigChanged" \in pkg.callbacks THEN GetConfig(i) ELSE @,
             ![i].configure = "applied"]
  /\ UNCHANGED <<pkg, launch, setting, deliver>>

\* readyOnce: background work starts, and the call is answered.
StartReady(i) ==
  /\ Running(i) /\ replicas[i].configure = "applied"
  /\ replicas' = [replicas EXCEPT
       ![i].ready = IF "OnReady" \in pkg.callbacks THEN "receiving" ELSE @,
       ![i].configure = "answered"]
  /\ UNCHANGED <<pkg, launch, setting, deliver>>

\* The answer comes, and the next replica is launched; or it does not come in time,
\* or is a refusal.
ConfigureReturns(i) ==
  /\ launch = [at |-> i, step |-> "waiting"]
  /\ \/ LaunchFails(i)
     \/ /\ Running(i) /\ replicas[i].configure = "answered"
        /\ launch' = IF i = pkg.replicas THEN [launch EXCEPT !.step = "up"]
                     ELSE [at |-> i + 1, step |-> "prepare"]
        /\ UNCHANGED <<pkg, replicas, setting, deliver>>

\* Those that were started before the one that failed are killed.
launchAll ==
  /\ launch.step = "failing"
  /\ launch' = [launch EXCEPT !.step = "failed"]
  /\ replicas' = [i \in Replicas |-> [replicas[i] EXCEPT !.proc = IF @ = "running" THEN "killed" ELSE @]]
  /\ UNCHANGED <<pkg, setting, deliver>>

\* A process ends by itself.
Exits(i) ==
  /\ Running(i)
  /\ replicas' = [replicas EXCEPT ![i].proc = "crashed"]
  /\ UNCHANGED <<pkg, launch, setting, deliver>>

-----------------------------------------------------------------------------
(* Settings while it runs.                                                 *)

\* SetConfig goes on to its next replica, or begins.  Where a call cannot be made
\* it fails, and SetConfig goes on.
SetConfig(s, size) ==
  LET next == setting[s] + 1
  IN /\ launch.step = "up" /\ setting[s] <= pkg.replicas
     /\ \A i \in Replicas : setting[s] = i => deliver[s][i] \in {"no", "done"} \/ ~Running(i)
     /\ setting' = [setting EXCEPT ![s] = next]
     /\ deliver' = IF next \in Replicas /\ Arrives(size) /\ Running(next)
                   THEN [deliver EXCEPT ![s][next] = "arrived"] ELSE deliver
     /\ UNCHANGED <<pkg, launch, replicas>>

\* The context of SetConfig ends: it waits no longer, and its later calls fail.
SettingGivenUp(s) ==
  /\ setting[s] \in Replicas
  /\ setting' = [setting EXCEPT ![s] = pkg.replicas + 1]
  /\ UNCHANGED <<pkg, launch, replicas, deliver>>

\* OnConfigChanged stores the settings under the lock ...
StoreSettings(s, i) ==
  /\ Running(i) /\ deliver[s][i] = "arrived"
  /\ deliver' = [deliver EXCEPT ![s][i] = "stored"]
  /\ replicas' = [replicas EXCEPT
       ![i].stored = s, ![i].alone = \A t \in Settings : deliver[t][i] # "stored"]
  /\ UNCHANGED <<pkg, launch, setting>>

\* ... and calls the author's callback outside it.
ApplySettings(s, i) ==
  /\ Running(i) /\ deliver[s][i] = "stored"
  /\ deliver' = [deliver EXCEPT ![s][i] = "done"]
  /\ replicas' = [replicas EXCEPT ![i].applied = IF "OnConfigChanged" \in pkg.callbacks THEN s ELSE @]
  /\ UNCHANGED <<pkg, launch, setting>>

-----------------------------------------------------------------------------
(* Background work: OnReady consumes a queue.                              *)

Works(i, from, to) ==
  /\ Running(i) /\ replicas[i].ready = from
  /\ replicas' = [replicas EXCEPT ![i].ready = to,
                                  ![i].got = IF to = "holding" THEN @ + 1 ELSE @]
  /\ UNCHANGED <<pkg, launch, setting, deliver>>

\* Recv, the handler, and the report of its outcome on a context of its own; the
\* stream ends when the context is cancelled, or by itself.  An Ack that fails
\* ends Consume, a Nack that fails does not.
Consume(i) ==
  \/ ~replicas[i].cancelled /\ replicas[i].got < MaxMessages /\ Works(i, "receiving", "holding")
  \/ Works(i, "receiving", "returned")
  \/ Works(i, "holding", "reporting")
  \/ Works(i, "reporting", "receiving")
  \/ Works(i, "reporting", "returned")

-----------------------------------------------------------------------------
(* Winding down.                                                           *)

\* Drain asks the process to wind down, whose Shutdown first cancels OnReady's context.
Drain(i) ==
  /\ launch.step = "up" /\ replicas[i].drain = "no"
  /\ replicas' = [replicas EXCEPT
       ![i].drain = "asked",
       ![i].shutdown = IF Running(i) THEN "waiting" ELSE @,
       ![i].cancelled = Running(i)]
  /\ UNCHANGED <<pkg, launch, setting, deliver>>

\* The time of the drain, or of the budget the process was told, is over.
TimeIsUp(i) ==
  /\ replicas[i].shutdown \in {"waiting", "closing"} /\ ~replicas[i].late
  /\ replicas' = [replicas EXCEPT ![i].late = TRUE]
  /\ UNCHANGED <<pkg, launch, setting, deliver>>

\* Mutant: Shutdown cancels and does not wait.
ShutdownAtOnce(i) ==
  /\ Running(i) /\ replicas[i].shutdown = "waiting"
  /\ replicas' = [replicas EXCEPT ![i].shutdown = "closing"]
  /\ UNCHANGED <<pkg, launch, setting, deliver>>

\* Shutdown waits for OnReady to return, as long as it has time.
Shutdown(i) ==
  /\ Running(i) /\ replicas[i].shutdown = "waiting"
  /\ "OnReady" \in pkg.callbacks => replicas[i].ready = "returned" \/ replicas[i].late
  /\ replicas' = [replicas EXCEPT ![i].shutdown = "closing"]
  /\ UNCHANGED <<pkg, launch, setting, deliver>>

\* OnShutdown runs, if there is one, and the call returns.
ShutdownReturns(i) ==
  /\ Running(i) /\ replicas[i].shutdown = "closing"
  /\ replicas' = [replicas EXCEPT ![i].shutdown = "returned"]
  /\ UNCHANGED <<pkg, launch, setting, deliver>>

\* The call has returned, or failed, and requests in flight are over or waited for
\* long enough: the process is killed.
terminate(i) ==
  /\ replicas[i].drain = "asked"
  /\ replicas[i].shutdown = "returned" \/ replicas[i].late \/ ~Running(i)
  /\ replicas' = [replicas EXCEPT
       ![i].drain = "done", ![i].proc = IF @ = "running" THEN "killed" ELSE @]
  /\ UNCHANGED <<pkg, launch, setting, deliver>>

-----------------------------------------------------------------------------
ReplicaStep(i) ==
  \/ Prepare(i) \/ Start(i) \/ GRPCClient(i) \/ (\E size \in Sizes : CallConfigure(i, size))
  \/ DialBack(i) \/ Configure(i) \/ StartReady(i) \/ ConfigureReturns(i) \/ Exits(i)
  \/ Consume(i) \/ Drain(i) \/ TimeIsUp(i) \/ Shutdown(i) \/ ShutdownReturns(i) \/ terminate(i)

ProcessNext ==
  \/ launchAll
  \/ \E i \in Replicas : ReplicaStep(i)
  \/ \E s \in Settings :
       \/ SettingGivenUp(s)
       \/ \E size \in Sizes : SetConfig(s, size)
       \/ \E i \in Replicas : StoreSettings(s, i) \/ ApplySettings(s, i)

ProcessSpec == ProcessInit /\ [][ProcessNext]_processVars

-----------------------------------------------------------------------------
(* Properties.                                                             *)

\* The variables have their types.
ProcessTypeOK ==
  /\ pkg \in Packages /\ pkg.callbacks \subseteq Callbacks
  /\ launch.at \in Replicas
  /\ launch.step \in {"prepare", "start", "dispense", "configure", "waiting", "up", "failing", "failed"}
  /\ \A i \in Replicas :
       /\ replicas[i].proc \in {"none", "running", "crashed", "killed"}
       /\ replicas[i].ready \in {"no", "receiving", "holding", "reporting", "returned"}
       /\ {replicas[i].stored, replicas[i].applied} \subseteq Settings \cup {0, NoSettings}
  /\ setting \in [Settings -> 0..(pkg.replicas + 1)]
  /\ deliver \in [Settings -> [Replicas -> {"no", "arrived", "stored", "done"}]]

\* When launchAll has given up, none of its processes is left: "a partially started
\* plugin never leaks" (launch.go:81-82, manager.go:452-453).
FailedLaunchLeavesNothing == launch.step = "failed" => \A i \in Replicas : ~Running(i)

\* Background work runs only when the host clients are bound and the first settings
\* were applied (sdk.go:97-99), and OnShutdown only when that work has returned or
\* its time is over (bridge.go:314-315).
CallbacksAreInOrder == \A i \in Replicas : LET r == replicas[i] IN
  /\ r.ready # "no" => r.dialled = "bound" /\ ("OnConfigChanged" \in pkg.callbacks => r.applied # NoSettings)
  /\ r.shutdown \in {"closing", "returned"} /\ "OnReady" \in pkg.callbacks => r.ready = "returned" \/ r.late

\* A process that is killed before its time is over has reported the message its
\* consumer held (bridge.go:318-324).
KilledEmptyHanded == \A i \in Replicas : LET r == replicas[i] IN
  r.drain = "done" /\ r.proc = "killed" /\ ~r.late => r.ready \notin {"holding", "reporting"}

\* When no delivery of settings is under way the author has applied the settings
\* that GetConfig returns, unless the last two deliveries overlapped.
AppliedAsStored == \A i \in Replicas : LET r == replicas[i] IN
  ("OnConfigChanged" \in pkg.callbacks /\ r.configure = "answered" /\ r.alone
     /\ \A s \in Settings : deliver[s][i] # "stored")
  => r.applied = GetConfig(i)

\* A plugin's processes are launched, worked and wound down in order.
ProcessIsOrderly ==
  FailedLaunchLeavesNothing /\ CallbacksAreInOrder /\ KilledEmptyHanded /\ AppliedAsStored
=============================================================================
