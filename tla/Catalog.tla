------------------------------ MODULE Catalog ------------------------------
(***************************************************************************)
(* Plugin packages: files that are replaced one by one on disk, what a     *)
(* manifest must declare to be accepted, the packages that Core has loaded *)
(* and the errors it keeps, and the bytes that are run.  How processes are *)
(* launched and exchanged is the subject of Process and PluginHost: here a *)
(* launch succeeds or fails.                                               *)
(* Source: core/pluginhost/package.go and manager.go, manifest/plugin.go   *)
(* and manifest.go.                                                        *)
(***************************************************************************)
EXTENDS Integers, FiniteSets, Sequences, SequencesExt

CONSTANTS
  Entries,       \* directories of packages, each named by a key, in their order
  Declares,      \* what each manifest declares
  Declarations,  \* manifests that are put there
  Binaries,      \* contents of executables
  Installed,     \* what the directories hold at boot
  Admins,        \* callers of the manager
  MaxFilters, MaxCollections, MaxJobs, MaxConfigKeys, MaxMenuDepth, MaxMenuNodes,
  MaxDeploys     \* bound: files replaced

VARIABLES
  disk,      \* the files of each directory
  deploys,   \* files replaced so far
  packages,  \* Manager.packages
  errors,    \* Manager.errors: the keys with one
  executed,  \* what runs for each key
  ongoing,   \* what each caller is doing
  boot,      \* how far Core has come with its first Scan and its EnableAll
  scanned    \* what the last Scan found, if no file was replaced and no key upgraded since it began

Directories == ToSet(Entries)

catalogVars == <<disk, deploys, packages, errors, executed, ongoing, boot, scanned>>

NotThere == "not there"
Unreadable == "unreadable"
NoPackage == [loaded |-> FALSE]
Nothing == [runs |-> FALSE]
Unsure == [sure |-> FALSE]
NotBusy == [op |-> "idle"]

CatalogInit ==
  /\ disk \in Installed
  /\ deploys = 0
  /\ packages = [k \in Directories |-> NoPackage] /\ errors = {}
  /\ executed = [k \in Directories |-> Nothing]
  /\ ongoing = [a \in Admins |-> NotBusy]
  /\ boot = "scan" /\ scanned = Unsure

-----------------------------------------------------------------------------
(* Manifests.  A menu is a sequence of nodes with a path and children.     *)

knownPermissions ==
  {"db", "db:tx", "queue", "cache", "lock", "cron", "events", "files:read", "files:write",
   "http:egress", "filter:authenticate"}
knownPhases ==
  {"pre_route", "authenticate", "authorize", "pre_handler", "post_handler", "on_error", "log"}
ConfigTypes == {"string", "int", "bool", "duration", "text"}

NoRepeats(s) == \A i, j \in DOMAIN s : s[i] = s[j] => i = j
Field(s, f) == [i \in DOMAIN s |-> s[i][f]]

\* The paths of a menu, from the top.
RECURSIVE MenuPaths(_)
MenuPaths(nodes) ==
  FlattenSeq([i \in DOMAIN nodes |-> <<nodes[i].path>> \o MenuPaths(nodes[i].children)])

validateMenus(nodes) == LET at == MenuPaths(nodes) IN NoRepeats(at) /\ \A i \in DOMAIN at : at[i] # ""

\* The walk compares the depth of children that are not there as well.
RECURSIVE Walk(_, _)
Walk(nodes, depth) ==
  depth <= MaxMenuDepth /\ \A i \in DOMAIN nodes : Walk(nodes[i].children, depth + 1)

checkMenuSize(nodes) == Walk(nodes, 1) /\ Len(MenuPaths(nodes)) <= MaxMenuNodes

\* "x/y" stands for the keys with a separator, a dot or a space.
KeyIsName(key) == key \notin {"", "x/y"}

HasPermission(m, perm) == perm \in m.permissions

\* "a" stands for the patterns that do not compile; see the module PathMatch.
CompileSet(paths) == \A i \in DOMAIN paths : paths[i] # "a"

ValidateFilters(m) ==
  /\ \A i \in DOMAIN m.filters : LET f == m.filters[i] IN
       /\ f.phase \in knownPhases
       /\ f.paths # <<>> /\ CompileSet(f.paths)
       /\ f.phase = "authenticate" => HasPermission(m, "filter:authenticate")
       /\ f.timeout >= 0 /\ f.maxBody >= 0
       /\ f.maxBody > 0 => f.needsBody
  /\ NoRepeats(SelectSeq(Field(m.filters, "name"), LAMBDA n : n # ""))

\* "never" stands for the expressions that are not schedules; see the module Cron.
ValidateJobs(m) ==
  /\ \A i \in DOMAIN m.jobs : m.jobs[i].name # "" /\ m.jobs[i].cron \notin {"", "never"}
  /\ NoRepeats(Field(m.jobs, "name"))
  /\ m.jobs # <<>> => HasPermission(m, "cron")

ValidateConfig(m) ==
  /\ \A i \in DOMAIN m.config : m.config[i].key # "" /\ m.config[i].type \in ConfigTypes \cup {""}
  /\ NoRepeats(Field(m.config, "key"))

Validate(m) ==
  /\ KeyIsName(m.key) /\ m.version # ""
  /\ m.permissions \subseteq knownPermissions
  /\ ValidateFilters(m) /\ ValidateJobs(m) /\ ValidateConfig(m)
  /\ m.egress # {} => HasPermission(m, "http:egress")
  /\ m.replicas >= 0
  /\ Len(m.filters) <= MaxFilters /\ m.collections <= MaxCollections
  /\ Len(m.jobs) <= MaxJobs /\ Len(m.config) <= MaxConfigKeys
  /\ checkMenuSize(m.menus)

\* Methods are read in upper case; a "*" or an empty one among them means all.
ToUpper(method) == IF method = "get" THEN "GET" ELSE method
AllMethods == {"*"}
normalizeMethods(methods) ==
  LET read == {ToUpper(methods[i]) : i \in DOMAIN methods}
  IN IF read = {} \/ read \cap {"*", ""} # {} THEN AllMethods ELSE read

CompileFilters(m) ==
  [i \in DOMAIN m.filters |-> [phase |-> m.filters[i].phase, methods |-> normalizeMethods(m.filters[i].methods)]]

MatchesMethod(f, method) == f.methods = AllMethods \/ method \in f.methods

ReplicaCount(m) == IF m.replicas <= 0 THEN 1 ELSE m.replicas

-----------------------------------------------------------------------------
(* Loading.                                                                *)

\* What a caller is sure of ends when a file is replaced: what a Scan finds, and that
\* the file a launch is about to start is the one it has verified.
Doubts(doing, k, file) ==
  IF doing.op = "scan" \/ (doing.op = "start" /\ doing.at = k /\ file = "binary")
    THEN [doing EXCEPT !.sure = FALSE] ELSE doing

\* A new file takes the place of the old one.
Replaced(k, file, value) ==
  /\ deploys < MaxDeploys /\ deploys' = deploys + 1
  /\ disk[k][file] # value /\ disk' = [disk EXCEPT ![k][file] = value]
  /\ ongoing' = [a \in Admins |-> Doubts(ongoing[a], k, file)]
  /\ scanned' = Unsure
  /\ UNCHANGED <<packages, errors, executed, boot>>

Deploy(k) ==
  \/ \E m \in Declarations \cup {NotThere} : Replaced(k, "manifest", m)
  \/ \E b \in Binaries : Replaced(k, "binary", b)

\* The first half of LoadPackage: the manifest is read and validated.  A file
\* that is too large, or has a field that is not known, cannot be read.
Load(k) ==
  LET m == disk[k].manifest
  IN IF m \in {NotThere, Unreadable} THEN NotThere
     ELSE IF validateMenus(Declares[m].menus) /\ Validate(Declares[m]) /\ Declares[m].entrypoint # "" THEN m
     ELSE NotThere

fileChecksum(k) == disk[k].binary

\* The second half: the executable is looked at and its bytes are hashed.
LoadPackage(k, m) ==
  IF disk[k].binary = "missing" THEN NoPackage
  ELSE [loaded |-> TRUE, manifest |-> m, checksum |-> fileChecksum(k), filters |-> CompileFilters(Declares[m])]

\* The goroutine that boots Core, which is one of the callers.
main == CHOOSE a \in Admins : TRUE

Does(a, doing) == ongoing' = [ongoing EXCEPT ![a] = doing]

\* Scan lists the directories in order; it is sure of what it finds until a file is replaced.
Scan(a) ==
  /\ ongoing[a].op = "idle" /\ (boot = "up" \/ (boot = "scan" /\ a = main))
  /\ Does(a, [op |-> "scan", todo |-> Entries, found |-> [k \in Directories |-> NoPackage],
              failures |-> {}, at |-> "", manifest |-> NotThere, sure |-> TRUE])
  /\ UNCHANGED <<disk, deploys, packages, errors, executed, boot, scanned>>

\* A directory without a manifest is not a package; one that cannot be loaded is a failure.
ScanManifest(a) ==
  /\ ongoing[a].op = "scan" /\ ongoing[a].at = "" /\ ongoing[a].todo # <<>>
  /\ LET k == Head(ongoing[a].todo)
         rest == [ongoing[a] EXCEPT !.todo = Tail(@)]
         m == Load(k)
     IN Does(a, IF disk[k].manifest = NotThere THEN rest
                ELSE IF m = NotThere THEN [rest EXCEPT !.failures = @ \cup {k}]
                ELSE [rest EXCEPT !.at = k, !.manifest = m])
  /\ UNCHANGED <<disk, deploys, packages, errors, executed, boot, scanned>>

\* The rest of its load; then its key must be the directory's name.
ScanBinary(a) ==
  /\ ongoing[a].op = "scan" /\ ongoing[a].at # ""
  /\ LET k == ongoing[a].at
         p == LoadPackage(k, ongoing[a].manifest)
         next == [ongoing[a] EXCEPT !.at = ""]
     IN Does(a, IF p.loaded /\ Declares[p.manifest].key = k THEN [next EXCEPT !.found[k] = p]
                ELSE [next EXCEPT !.failures = @ \cup {k}])
  /\ UNCHANGED <<disk, deploys, packages, errors, executed, boot, scanned>>

\* Packages and errors are exchanged as a whole.
ScanEnds(a) ==
  /\ ongoing[a].op = "scan" /\ ongoing[a].at = "" /\ ongoing[a].todo = <<>>
  /\ packages' = ongoing[a].found /\ errors' = ongoing[a].failures
  /\ scanned' = IF ongoing[a].sure THEN [sure |-> TRUE] ELSE Unsure
  /\ boot' = IF boot = "scan" THEN "enable" ELSE boot
  /\ Does(a, NotBusy)
  /\ UNCHANGED <<disk, deploys, executed>>

-----------------------------------------------------------------------------
(* Running.                                                                *)

\* Mutant: no checksum is given to the launch.
Unverified(k, p) == p.loaded

\* The file is hashed again before it is run.
Verified(k, p) == p.loaded /\ disk[k].binary = p.checksum

Launching(k, p, todo, why) == [op |-> "launch", at |-> k, of |-> p, todo |-> todo, why |-> why, sure |-> TRUE]

\* Enable takes the package that is loaded, and launches it.
Enable(a, k) ==
  /\ boot = "up" /\ ongoing[a].op = "idle" /\ packages[k].loaded
  /\ Does(a, Launching(k, packages[k], <<>>, "enable"))
  /\ UNCHANGED <<disk, deploys, packages, errors, executed, boot, scanned>>

\* EnableAll, at boot, goes on to the next of the packages in order, or is done.
EnableNext(a, todo) ==
  IF todo = <<>> THEN Does(a, NotBusy) /\ boot' = "up"
  ELSE /\ Does(a, Launching(Head(todo), packages[Head(todo)], Tail(todo), "boot"))
       /\ boot' = "enabling"

EnableAll(a) ==
  /\ boot = "enable" /\ a = main
  /\ EnableNext(a, SelectSeq(Entries, LAMBDA k : packages[k].loaded))
  /\ UNCHANGED <<disk, deploys, packages, errors, executed, scanned>>

\* Upgrade loads the package from its directory, whatever its key.
Upgrade(a, k) ==
  /\ boot = "up" /\ ongoing[a].op = "idle"
  /\ LET m == Load(k) IN m # NotThere /\ Does(a, [op |-> "upgrade", at |-> k, manifest |-> m])
  /\ UNCHANGED <<disk, deploys, packages, errors, executed, boot, scanned>>

UpgradeBinary(a) ==
  /\ ongoing[a].op = "upgrade"
  /\ LET k == ongoing[a].at
         p == LoadPackage(k, ongoing[a].manifest)
     IN Does(a, IF p.loaded THEN Launching(k, p, <<>>, "upgrade") ELSE NotBusy)
  /\ UNCHANGED <<disk, deploys, packages, errors, executed, boot, scanned>>

Proceeds(a) ==
  IF ongoing[a].why = "boot" THEN EnableNext(a, ongoing[a].todo) ELSE Does(a, NotBusy) /\ UNCHANGED boot

LaunchVerifies(a) ==
  /\ ongoing[a].op = "launch" /\ Verified(ongoing[a].at, ongoing[a].of)
  /\ Does(a, [ongoing[a] EXCEPT !.op = "start"])
  /\ UNCHANGED <<disk, deploys, packages, errors, executed, boot, scanned>>

\* What runs is the file that is there by then.
LaunchSucceeds(a) ==
  /\ ongoing[a].op = "start"
  /\ LET k == ongoing[a].at
     IN executed' = [executed EXCEPT ![k] =
          [runs |-> TRUE, of |-> ongoing[a].of, bytes |-> disk[k].binary, sure |-> ongoing[a].sure]]
  /\ packages' = IF ongoing[a].why = "upgrade" THEN [packages EXCEPT ![ongoing[a].at] = ongoing[a].of] ELSE packages
  /\ scanned' = IF ongoing[a].why = "upgrade" THEN Unsure ELSE scanned
  /\ Proceeds(a)
  /\ UNCHANGED <<disk, deploys, errors>>

\* A failure is kept only by EnableAll.
LaunchIsRefused(a) ==
  /\ ongoing[a].op \in {"launch", "start"}
  /\ errors' = IF ongoing[a].why = "boot" THEN errors \cup {ongoing[a].at} ELSE errors
  /\ Proceeds(a)
  /\ UNCHANGED <<disk, deploys, packages, executed, scanned>>

Disable(k) ==
  /\ boot = "up" /\ executed[k].runs /\ executed' = [executed EXCEPT ![k] = Nothing]
  /\ UNCHANGED <<disk, deploys, packages, errors, ongoing, boot, scanned>>

\* What the console shows: the packages, and the errors of keys without one.
List == {k \in Directories : packages[k].loaded} \cup errors

-----------------------------------------------------------------------------
CatalogNext ==
  \/ \E k \in Directories : Deploy(k) \/ Disable(k)
  \/ \E a \in Admins :
       \/ Scan(a) \/ ScanManifest(a) \/ ScanBinary(a) \/ ScanEnds(a)
       \/ EnableAll(a) \/ UpgradeBinary(a) \/ LaunchVerifies(a) \/ LaunchSucceeds(a) \/ LaunchIsRefused(a)
       \/ \E k \in Directories : Enable(a, k) \/ Upgrade(a, k)

CatalogSpec == CatalogInit /\ [][CatalogNext]_catalogVars

-----------------------------------------------------------------------------
(* Properties.                                                             *)

\* The variables have their types.
CatalogTypeOK ==
  /\ deploys \in 0..MaxDeploys /\ errors \subseteq Directories
  /\ \A k \in Directories : executed[k].runs \in BOOLEAN /\ packages[k].loaded \in BOOLEAN
  /\ boot \in {"scan", "enable", "enabling", "up"}
  /\ \A a \in Admins : ongoing[a].op \in {"idle", "scan", "upgrade", "launch", "start"}

\* The bytes that run for a key are those that were hashed when its package was
\* loaded, whatever was put in their place between the load and the launch, at boot,
\* by an enable or by an upgrade: "the bytes that run are the bytes that were checked"
\* (package.go:29-31).  "Immediately before exec" is not at it: a file that is replaced
\* after it was verified and before it is started runs unchecked, and is left out.
RunsWhatWasLoaded == \A k \in Directories :
  executed[k].runs /\ executed[k].sure => executed[k].bytes = executed[k].of.checksum

\* The levels of a menu.
RECURSIVE MenuDepth(_)
MenuDepth(nodes) ==
  IF nodes = <<>> THEN 0 ELSE 1 + Max({MenuDepth(nodes[i].children) : i \in DOMAIN nodes})

\* What runs declares nothing that Core would not do for it: each of its filters
\* has a phase and a path and takes the methods it names, the identity is set only
\* with the permission, each of its jobs has its own name and may be scheduled, and
\* its menus have no path twice and no more levels than the limit (plugin.go:344,
\* docs/plugin-development.md:212).  The converse is not so: a menu that has as many
\* levels as the limit is refused too, as "deeper" than it, since the walk goes on to
\* the children it has not.
RunsWhatIsDeclared == \A k \in Directories : executed[k].runs =>
  LET m == Declares[executed[k].of.manifest] IN
  /\ m.permissions \subseteq knownPermissions
  /\ \A i \in DOMAIN m.filters :
       LET f == m.filters[i]
           takes(method) == \E j \in DOMAIN f.methods : f.methods[j] \in {"*", "", method} \/ ToUpper(f.methods[j]) = method
       IN /\ f.phase = "authenticate" => "filter:authenticate" \in m.permissions
          /\ f.paths # <<>>
          /\ \A method \in {"GET", "POST"} :
               MatchesMethod(executed[k].of.filters[i], method) <=> (f.methods = <<>> \/ takes(method))
  /\ Cardinality({m.jobs[i].name : i \in DOMAIN m.jobs}) = Len(m.jobs)
  /\ m.jobs # <<>> => "cron" \in m.permissions
  /\ ReplicaCount(m) > 0
  /\ Cardinality(ToSet(MenuPaths(m.menus))) = Len(MenuPaths(m.menus))
  /\ MenuDepth(m.menus) <= MaxMenuDepth

\* A Scan that no replaced file and no upgrade ran into accounts for every
\* directory with a manifest: as a package with the files that are there and the
\* directory's key, or as an error: "a broken plugin is visible in the console
\* instead of silently missing" (manager.go:367-368).
ScanIsComplete == scanned.sure => \A k \in Directories :
  /\ disk[k].manifest # NotThere <=> k \in List
  /\ packages[k].loaded =>
       /\ packages[k].manifest = disk[k].manifest /\ packages[k].checksum = disk[k].binary
       /\ Declares[packages[k].manifest].key = k

\* The packages that are listed, and those that run, are what they say.
CatalogIsTrue == RunsWhatWasLoaded /\ RunsWhatIsDeclared /\ ScanIsComplete
=============================================================================
