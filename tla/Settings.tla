------------------------------ MODULE Settings ------------------------------
(***************************************************************************)
(* The settings of one plugin: operators save them through the console's   *)
(* API, Core stores them, pushes them to the replicas it routes to, and    *)
(* hands them to every process it launches.  A plain and a secret setting. *)
(* Source: core/gateway/plugins_handler.go (serveConfig, resolveConfig),   *)
(* core/hostsvc/config.go, core/pluginhost/manager.go (SetConfig,          *)
(* ConfigFor), manifest/manifest.go (MergeConfig), sdk/plugin/bridge.go.   *)
(***************************************************************************)
EXTENDS Naturals

CONSTANTS
  Savers,    \* requests that save, one form each
  Processes, \* processes of the plugin, in a behaviour
  Forms,     \* what operators submit: [plain, secret]
  Defaults,  \* the manifest's defaults
  Unset,     \* no value; in a form, a setting left out
  Mask       \* SecretPlaceholder

VARIABLES
  stored,    \* the rows of plugin_config
  save,      \* save[s]: how far the request of s is
  process,   \* process[i]: [at, runs], its life and the settings it runs with
  given,     \* what was stored first, and what each save that committed was given
  mixed,     \* rows of two saves have been stored beside each other
  last,      \* the save that was stored last, when it was stored as given
  late       \* processes that may run with settings that are not the stored

settingsVars == <<stored, save, process, given, mixed, last, late>>

SettingNames == {"plain", "secret"}
NoSettings == [k \in SettingNames |-> Unset]

At(what) == {i \in Processes : process[i].at = what}

\* Mutant: what is stored is handed over as it is.
MergedNot(set) == set

\* MergeConfig: defaults for what is not set.
Merged(set) == [k \in SettingNames |-> IF set[k] = Unset THEN Defaults[k] ELSE set[k]]

SettingsInit ==
  /\ stored \in {NoSettings, [NoSettings EXCEPT !.secret = 1]}
  /\ save = [s \in Savers |->
       [at |-> "idle", form |-> NoSettings, values |-> NoSettings,
        others |-> {}, alone |-> TRUE, todo |-> {}]]
  /\ process = [i \in Processes |-> [at |-> "unborn", runs |-> NoSettings]]
  /\ given = {stored} /\ mixed = FALSE /\ last = "none" /\ late = {}

-----------------------------------------------------------------------------
(* Saving.                                                                 *)

\* Mutants: the mask is stored; the mask clears the secret.
ResolvedRaw(form) == form
ResolvedDrops(form) == [form EXCEPT !.secret = IF @ = Mask THEN Unset ELSE @]

\* resolveConfig: the mask stands for what is stored.
Resolved(form) == [form EXCEPT !.secret = IF @ = Mask THEN stored.secret ELSE @]

SaveGet(s, form) ==
  /\ save[s].at = "idle"
  /\ save' = [save EXCEPT ![s].at = "delete", ![s].form = form,
                          ![s].values = Resolved(form), ![s].alone = TRUE]
  /\ UNCHANGED <<stored, process, given, mixed, last, late>>

\* The DELETE of Set: it takes the rows that are there when it starts.
SetDelete(s) ==
  /\ save[s].at = "delete"
  /\ save' = [save EXCEPT ![s].at = "insert"]
  /\ UNCHANGED <<stored, process, given, mixed, last, late>>

\* Rows that others inserted since conflict with rows of the same settings, and
\* stay beside the others.
Conflicts(s) == \E k \in save[s].others : save[s].values[k] # Unset
Inserted(s) ==
  [k \in SettingNames |->
     IF k \in save[s].others THEN stored[k] ELSE save[s].values[k]]

\* The transaction commits.  The others see its rows, or do not.
Commits(s, next) ==
  /\ save[s].at = "insert" /\ ~Conflicts(s)
  /\ stored' = Inserted(s)
  /\ given' = given \cup {save[s].values}
  /\ mixed' = (mixed \/ Inserted(s) # save[s].values)
  /\ save' = [t \in Savers |->
       IF t = s THEN [save[t] EXCEPT !.at = next]
       ELSE [save[t] EXCEPT
               !.alone = FALSE,
               !.others = IF save[t].at = "insert"
                            THEN @ \cup {k \in SettingNames : save[s].values[k] # Unset}
                            ELSE @]]
  /\ last' = IF Inserted(s) = save[s].values THEN s ELSE "none"

SetCommit(s) ==
  /\ Commits(s, "push")
  /\ late' = late \cup At("launching")
  /\ UNCHANGED process

\* The answer to the commit is lost, and nothing is pushed.
SetCommitLost(s) ==
  /\ Commits(s, "done")
  /\ late' = late \cup At("launching") \cup At("routed")
  /\ UNCHANGED process

\* Mutant: what could not be stored is pushed.
SetFailsPushed(s) ==
  /\ save[s].at \in {"delete", "insert"}
  /\ save' = [save EXCEPT ![s].at = "push"]
  /\ UNCHANGED <<stored, process, given, mixed, last, late>>

SetFails(s) ==
  /\ save[s].at \in {"delete", "insert"}
  /\ save' = [save EXCEPT ![s].at = "done"]
  /\ UNCHANGED <<stored, process, given, mixed, last, late>>

-----------------------------------------------------------------------------
(* Delivering.                                                             *)

\* SetConfig reads the replicas once.
PushList(s) ==
  /\ save[s].at = "push"
  /\ save' = [save EXCEPT ![s].at = "pushing", ![s].todo = At("routed")]
  /\ UNCHANGED <<stored, process, given, mixed, last, late>>

\* OnConfigChanged in the process.
PushOne(s, i) ==
  /\ i \in save[s].todo /\ process[i].at = "routed"
  /\ save' = [save EXCEPT ![s].todo = @ \ {i}]
  /\ process' = [process EXCEPT ![i].runs = Merged(save[s].values)]
  /\ late' = IF last = s THEN late \ {i} ELSE late \cup {i}
  /\ UNCHANGED <<stored, given, mixed, last>>

\* Mutant: the first failure ends the delivery.
PushFailsEnds(s, i) ==
  /\ i \in save[s].todo
  /\ save' = [save EXCEPT ![s].todo = {}]
  /\ late' = late \cup {i}
  /\ UNCHANGED <<stored, process, given, mixed, last>>

PushFails(s, i) ==
  /\ i \in save[s].todo
  /\ save' = [save EXCEPT ![s].todo = @ \ {i}]
  /\ late' = late \cup {i}
  /\ UNCHANGED <<stored, process, given, mixed, last>>

Saved(s) ==
  /\ save[s].at = "pushing" /\ save[s].todo = {}
  /\ save' = [save EXCEPT ![s].at = "done"]
  /\ UNCHANGED <<stored, process, given, mixed, last, late>>

\* launchOne: the settings are read, and given to Configure.
LaunchConfigured(i) ==
  /\ process[i].at = "unborn"
  /\ process' = [process EXCEPT ![i] = [at |-> "launching", runs |-> Merged(stored)]]
  /\ UNCHANGED <<stored, save, given, mixed, last, late>>

LaunchPublished(i) ==
  /\ process[i].at = "launching"
  /\ process' = [process EXCEPT ![i].at = "routed"]
  /\ UNCHANGED <<stored, save, given, mixed, last, late>>

ProcessEnds(i) ==
  /\ process[i].at \in {"launching", "routed"}
  /\ process' = [process EXCEPT ![i] = [at |-> "gone", runs |-> NoSettings]]
  /\ late' = late \ {i}
  /\ UNCHANGED <<stored, save, given, mixed, last>>

SettingsNext ==
  \/ \E s \in Savers :
       \/ \E form \in Forms : SaveGet(s, form)
       \/ SetDelete(s) \/ SetCommit(s) \/ SetCommitLost(s) \/ SetFails(s)
       \/ PushList(s) \/ Saved(s)
       \/ \E i \in Processes : PushOne(s, i) \/ PushFails(s, i)
  \/ \E i \in Processes : LaunchConfigured(i) \/ LaunchPublished(i) \/ ProcessEnds(i)

SettingsSpec == SettingsInit /\ [][SettingsNext]_settingsVars

-----------------------------------------------------------------------------
(* Properties.                                                             *)

Values == {0, 1, 2}

\* The variables have their types: a process always has a value for a setting
\* that has a default (manifest.go:115-119).
SettingsTypeOK ==
  /\ stored \in [SettingNames -> Values \cup {Unset, Mask}]
  /\ \A s \in Savers : save[s].at \in {"idle", "delete", "insert", "push", "pushing", "done"}
  /\ \A i \in Processes :
       process[i].at \in {"launching", "routed"} =>
         \A k \in SettingNames : Defaults[k] # Unset => process[i].runs[k] # Unset
  /\ late \subseteq Processes /\ last \in Savers \cup {"none"}

\* Saving the mask back never makes it a secret (plugins_handler.go:51-56).
MaskIsNeverStored ==
  /\ stored.secret # Mask
  /\ \A i \in Processes : process[i].runs.secret # Mask

\* A save "replaces a plugin's settings with exactly what is given" (config.go:42), and
\* a form with the mask leaves the secret alone (plugins_handler.go:254-261), when no
\* other save was stored between its read and its commit.
SavedAsGiven ==
  [][\A s \in Savers :
       save[s].at = "insert" /\ (save'[s].at = "push" \/ (save'[s].at = "done" /\ stored' # stored)) /\ save[s].alone =>
         /\ stored' = save[s].values
         /\ save[s].form.secret = Mask => stored'.secret = stored.secret]_settingsVars

\* Every setting that is stored or runs was stored first or was given in a save that
\* was stored: what could not be stored is not delivered, since it would revert at the
\* next start (plugins_handler.go:202-205).  All of them are of one save, "a whole-map
\* replace" (config.go:44), unless two saves overlapped: then a save deletes the rows
\* it sees, the rows another inserted meanwhile stay beside its own, and neither
\* operator gave what is stored.
GivenByOperators ==
  LET runs == {process[i].runs : i \in At("launching") \cup At("routed")}
  IN /\ \A k \in SettingNames :
          /\ \E v \in given : stored[k] = v[k]
          /\ \A r \in runs : \E v \in given : r[k] = Merged(v)[k]
     /\ ~mixed =>
          /\ stored \in given
          /\ \A r \in runs : \E v \in given : r = Merged(v)

\* When the saves are over, a replica runs with what is stored, unless its own
\* push failed, it was being launched while the settings were stored, the save
\* ended in doubt, its rows were mixed with another's, or an older save was pushed
\* after it (manager.go:388-395).
StaleOnlyIfLate ==
  (\A s \in Savers : save[s].at \in {"idle", "done"}) =>
    \A i \in At("routed") \ late : process[i].runs = Merged(stored)

\* What an operator saves is what is stored and what replicas run with, and the mask
\* stands for the secret it hides, however launches and failures interleave with it
\* (manager.go:388-395, plugins_handler.go:51-56, :202-205, :254-261).  Of saves that
\* overlap only each single setting is: config.go:42-46 and
\* docs/plugin-development.md:1044, that a save replaces the whole, leave them out.
SettingsAreTrue ==
  [](MaskIsNeverStored /\ GivenByOperators /\ StaleOnlyIfLate) /\ SavedAsGiven
=============================================================================
