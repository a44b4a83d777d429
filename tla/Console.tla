------------------------------ MODULE Console ------------------------------
(***************************************************************************)
(* The menu entry of one plugin in an open console: Core signals that      *)
(* something changed, and the console fetches what Core serves then.  The  *)
(* console is not the one an operation was started from: that one fetches  *)
(* when its call returns.  Source: core/gateway/{ui_events,apps_handler}.go,*)
(* core/pluginhost/{manager,registry,supervisor}.go,                       *)
(* core/frontend/src/{pluginRegistry.js,components/Layout.vue}.            *)
(***************************************************************************)
EXTENDS Naturals, Sequences, SequencesExt

CONSTANTS
  Buffer,    \* capacity of a subscriber's channel
  MaxFlight  \* bound: signals and fetches a console has under way

ASSUME ConsoleAssumption == Buffer \in Nat /\ MaxFlight \in Nat \ {0}

VARIABLES
  plugin,      \* its registration: "out", "ready", or "dead" (a failed process)
  marked,      \* key \in Manager.enabled
  admin,       \* the operation in progress
  recovering,  \* the supervisor is restarting it
  stream,      \* the console's page and its event stream
  buffered,    \* signals in the channel of the subscriber
  wire,        \* signals on their way to the browser
  asked,       \* fetches Core has not answered
  answers,     \* answers on their way, in the order they were read
  shown,       \* the console shows the menu entry
  excuses      \* what the console was not told since Core last read for it

coreVars == <<plugin, marked, admin, recovering>>
pageVars == <<wire, asked, answers, shown>>
consoleVars == <<coreVars, stream, buffered, pageVars, excuses>>

\* appsFromPlugins: enabled, and with a ready replica.
Menu == marked /\ plugin = "ready"

ConsoleInit ==
  /\ marked \in BOOLEAN
  /\ plugin = IF marked THEN "ready" ELSE "out"
  /\ admin = "idle" /\ recovering = FALSE
  /\ stream = "mount" /\ asked = 1
  /\ buffered = 0 /\ wire = 0 /\ answers = <<>>
  /\ shown = FALSE /\ excuses = {}

-----------------------------------------------------------------------------
(* Core.                                                                   *)

\* Mutant: a channel without a buffer, which drops whatever finds nobody waiting.
PublishUnbuffered ==
  /\ buffered' = buffered
  /\ excuses' = IF stream = "registered" THEN excuses ELSE excuses \cup {"missed"}

\* A signal to whoever is subscribed; it is dropped when the channel is full.
Publish ==
  /\ buffered' = IF stream = "registered" /\ buffered < Buffer
                   THEN buffered + 1 ELSE buffered
  /\ excuses' = IF stream = "registered" THEN excuses ELSE excuses \cup {"missed"}

\* Every change of the registry publishes, with the registry's lock held.
Registers(p) == plugin' = p /\ Publish /\ UNCHANGED <<stream, pageVars>>

\* A change of what Core serves that nobody is told of.
Silently(why) ==
  /\ excuses' = excuses \cup {IF stream = "registered" THEN why ELSE "missed"}
  /\ UNCHANGED <<stream, buffered, pageVars>>

EnableInstall ==
  /\ admin = "idle" /\ admin' = "enable"
  /\ Registers("ready")
  /\ UNCHANGED <<marked, recovering>>

EnableMark ==
  /\ admin = "enable" /\ admin' = "idle"
  /\ marked' = TRUE
  /\ Silently("early")
  /\ UNCHANGED <<plugin, recovering>>

UpgradeMark ==
  /\ admin = "idle" /\ admin' = "upgrade"
  /\ marked' = TRUE
  /\ UNCHANGED <<plugin, recovering, stream, buffered, pageVars, excuses>>

UpgradeSwap ==
  /\ admin = "upgrade" /\ admin' = "idle"
  /\ Registers("ready")
  /\ UNCHANGED <<marked, recovering>>

DisableMark ==
  /\ admin = "idle" /\ admin' = "disable"
  /\ marked' = FALSE
  /\ UNCHANGED <<plugin, recovering, stream, buffered, pageVars, excuses>>

DisableRemove ==
  /\ admin = "disable" /\ admin' = "idle"
  /\ Registers("out")
  /\ UNCHANGED <<marked, recovering>>

\* watchLoop: the instance is marked failed and stays registered.
ProcessFails ==
  /\ plugin = "ready" /\ ~recovering
  /\ plugin' = "dead" /\ recovering' = TRUE
  /\ Silently("crash")
  /\ UNCHANGED <<marked, admin>>

\* recover: a new process, or quarantine.  Whether the plugin is still enabled
\* was read before the launch (PluginHost has the steps).
Recovers ==
  /\ recovering /\ recovering' = FALSE
  /\ Registers("ready") \/ Registers("out")
  /\ UNCHANGED <<marked, admin>>

Abandons ==
  /\ recovering /\ recovering' = FALSE
  /\ plugin = "out" \/ ~marked
  /\ UNCHANGED <<plugin, marked, admin, stream, buffered, pageVars, excuses>>

\* Handler: the headers are flushed before the channel is subscribed.
Subscribe ==
  /\ stream = "open" /\ stream' = "registered"
  /\ UNCHANGED <<coreVars, buffered, pageVars, excuses>>

\* A full connection holds the handler up, and signals gather in the channel.
Forward ==
  /\ buffered > 0 /\ wire + asked + Len(answers) < MaxFlight
  /\ buffered' = buffered - 1 /\ wire' = wire + 1
  /\ UNCHANGED <<coreVars, stream, asked, answers, shown, excuses>>

\* AppsHandler: the answer is what Core serves now.
AnswerApps ==
  /\ asked > 0 /\ asked' = asked - 1
  /\ answers' = Append(answers, [menu |-> Menu, overtaken |-> FALSE])
  /\ excuses' = {}
  /\ UNCHANGED <<coreVars, stream, buffered, wire, shown>>

-----------------------------------------------------------------------------
(* The console.                                                            *)

\* registry.changed: refresh.
SignalArrives ==
  /\ wire > 0 /\ wire' = wire - 1
  /\ asked' = asked + 1
  /\ UNCHANGED <<coreVars, stream, buffered, answers, shown, excuses>>

\* refresh applies answers as they arrive, which need not be the order in which
\* they were read; the page subscribes after its first fetch.
Applies(i) ==
  /\ shown' = answers[i].menu
  /\ answers' = [j \in 1 .. Len(answers) - 1 |->
                   IF j < i THEN [answers[j] EXCEPT !.overtaken = TRUE]
                            ELSE answers[j + 1]]
  /\ excuses' = IF answers[i].overtaken THEN excuses \cup {"overtaken"} ELSE excuses
  /\ stream' = IF stream = "mount" THEN "connecting" ELSE stream
  /\ UNCHANGED <<coreVars, buffered, wire, asked>>

\* The first fetch failing leaves the page without a stream, a later one leaves
\* it as it is.
FetchFails ==
  /\ \/ asked > 0 /\ asked' = asked - 1 /\ UNCHANGED answers
     \/ \E i \in 1 .. Len(answers) : answers' = RemoveAt(answers, i) /\ UNCHANGED asked
  /\ stream' = IF stream = "mount" THEN "failed" ELSE stream
  /\ excuses' = excuses \cup {"failed"}
  /\ UNCHANGED <<coreVars, buffered, wire, shown>>

Opens ==
  /\ stream = "connecting" /\ stream' = "open"
  /\ UNCHANGED <<coreVars, buffered, pageVars, excuses>>

\* onerror: what was under way on the stream is lost.
StreamBreaks ==
  /\ stream \in {"connecting", "open", "registered"} /\ stream' = "waiting"
  /\ buffered' = 0 /\ wire' = 0
  /\ excuses' = IF buffered + wire > 0 THEN excuses \cup {"missed"} ELSE excuses
  /\ UNCHANGED <<coreVars, asked, answers, shown>>

\* onopen only notes the connection: nothing is fetched.
Reopens ==
  /\ stream = "waiting" /\ stream' = "connecting"
  /\ UNCHANGED <<coreVars, buffered, pageVars, excuses>>

ConsoleNext ==
  \/ EnableInstall \/ EnableMark \/ UpgradeMark \/ UpgradeSwap
  \/ DisableMark \/ DisableRemove \/ ProcessFails \/ Recovers \/ Abandons
  \/ Subscribe \/ Forward \/ AnswerApps
  \/ SignalArrives \/ FetchFails \/ Opens \/ StreamBreaks \/ Reopens
  \/ \E i \in 1 .. Len(answers) : Applies(i)

ConsoleSpec == ConsoleInit /\ [][ConsoleNext]_consoleVars

-----------------------------------------------------------------------------
(* Properties.                                                             *)

\* The variables have their types: a channel holds what it was made for.
ConsoleTypeOK ==
  /\ plugin \in {"out", "ready", "dead"} /\ {marked, recovering, shown} \subseteq BOOLEAN
  /\ admin \in {"idle", "enable", "upgrade", "disable"}
  /\ stream \in {"mount", "failed", "connecting", "open", "registered", "waiting"}
  /\ buffered \in 0 .. Buffer
  /\ wire + asked + Len(answers) \in 0 .. MaxFlight
  /\ \A i \in 1 .. Len(answers) : answers[i] \in [menu : BOOLEAN, overtaken : BOOLEAN]
  /\ excuses \subseteq {"missed", "early", "crash", "overtaken", "failed"}

\* No operation and no signal or fetch is under way.
Quiet ==
  /\ admin = "idle" /\ buffered + wire + asked = 0 /\ answers = <<>>

\* A signal that is dropped because the channel is full is harmless
\* (ui_events.go:37-39): a console at rest shows what Core serves, unless it was
\* not subscribed, or one of four other things happened since its last fetch.
StaleOnlyIfExcused == Quiet /\ excuses = {} => shown = Menu

\* "This is what makes a plugin's menu appear the moment it is enabled"
\* (ui_events.go:18): a console at rest that was subscribed when the plugin became
\* enabled, and whose fetches arrived in order, shows its menu.
EnabledMenuAppears ==
  Quiet /\ stream = "registered" /\ excuses \subseteq {"early"} => shown = Menu
=============================================================================
