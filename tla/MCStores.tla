------------------------------ MODULE MCStores ------------------------------
(***************************************************************************)
(* What Core keeps and does for others, in one model: locks, the cache,    *)
(* pages of documents, settings and what a console shows; accounts, files, *)
(* events, outbound requests and documents with their schema; three        *)
(* example plugins that keep state over time; the texts by which manifests *)
(* name paths and minutes, the packages they are part of, and what a       *)
(* request carries.  They share no state, so a behaviour exercises one.    *)
(***************************************************************************)
EXTENDS Locks, Cache, Documents, Pages, Console, Settings,
        Users, Files, Events, Egress, Limiter, ApiKeys, Syncer, PathMatch, Cron,
        Exchange, Schema, Catalog

VARIABLE part  \* the component this behaviour exercises

dataVars == <<lockVars, cacheVars, pagesVars, consoleVars, settingsVars>>
serviceVars == <<usersVars, filesVars, eventsVars, egressVars, docVars, schemaVars>>
pluginVars == <<limiterVars, keysVars, syncerVars>>
textVars == <<pathVars, cronVars, exchangeVars, catalogVars>>
storesVars == <<part, dataVars, serviceVars, pluginVars, textVars>>

SmallTtl == [c \in Clients |-> IF c = CHOOSE d \in Clients : TRUE THEN 2 ELSE 3]

SmallForms == {[plain |-> 1, secret |-> 2], [plain |-> Unset, secret |-> Mask]}
SmallDefaults == [plain |-> 0, secret |-> Unset]

SmallSubscriber == [s \in Streams |-> IF s = 3 THEN "other" ELSE "busy"]
SmallLimits == {[rate |-> 1, burst |-> 4], [rate |-> 2, burst |-> 2]}
SmallLookAt == [l \in Lookups |-> l]

SmallLowest == <<0, 0, 1, 1, 0>>
SmallHighest == <<3, 1, 4, 1, 3>>

\* "*", numbers and ranges with steps, some of them out of bounds, backwards or
\* so long that they wrap around, and a text that is no number.
Part(base, lo, hi, step) == [Star EXCEPT !.base = base, !.lo = lo, !.hi = hi, !.step = step]
SmallParts ==
  {[Star EXCEPT !.junk = TRUE]} \cup {Part("*", 0, 0, step) : step \in {0, 2, 15}}
    \cup {Part("value", n, n, 0) : n \in {0, 3}}
    \cup {Part("range", lo, hi, step) : lo \in {0, 2}, hi \in {1, 3, 5}, step \in {-1, 0, 2, 15}}
SmallFields ==
  {<<p>> : p \in SmallParts}
    \cup {<<p, q>> : p, q \in {Star, Part("value", 1, 1, 0), Part("range", 2, 3, 15)}}
SmallFieldTexts ==
  <<{<<p>> : p \in SmallParts}, {<<Star>>}, SmallFields, {<<Star>>}, SmallFields>>

\* Versions of a plugin: an index goes and one comes; two collections make one
\* name; names of an index and of a table are too long; and a field has none.
Collection(name, declared) == [name |-> name, indexes |-> declared]
Index(fields, unique) == [fields |-> fields, unique |-> unique]
SmallExtKey == <<"k">>
SmallManifests ==
  {<<Collection(<<"b", "c">>, <<Index(<<<<"d">>>>, TRUE), Index(<<<<"g">>>>, TRUE)>>),
     Collection(<<"b">>, <<Index(<<<<"e">>>>, FALSE), Index(<<>>, FALSE),
                            Index(<<<<"h", "h">>, <<"h", "h">>>>, TRUE)>>)>>,
   <<Collection(<<"b">>, <<Index(<<<<"c", "d">>>>, FALSE), Index(<<<<"e">>, <<"f">>>>, TRUE)>>)>>,
   <<Collection(<<"b", "b", "b", "b", "b">>, <<Index(<<<<"-">>>>, FALSE)>>)>>}

\* A manifest that is accepted in directory "a", one for "b", one whose filter lacks
\* its permission, two whose menus have as many levels as the limit and one more, and
\* one with a job that is never due.
MenuNode(at, children) == [path |-> at, children |-> children]
FilterOf(name, phase, methods) ==
  [name |-> name, phase |-> phase, paths |-> <<"/">>, methods |-> methods,
   timeout |-> 0, maxBody |-> 0, needsBody |-> FALSE]
Accepted ==
  [key |-> "a", version |-> "1", entrypoint |-> "run", permissions |-> {"filter:authenticate", "cron"},
   filters |-> <<FilterOf("f", "authenticate", <<"get">>), FilterOf("", "log", <<"POST", "*">>)>>,
   jobs |-> <<[name |-> "i", cron |-> "*"], [name |-> "j", cron |-> "*"]>>,
   config |-> <<[key |-> "s", type |-> ""]>>, egress |-> {}, replicas |-> 0, collections |-> 1,
   menus |-> <<MenuNode("/a", <<MenuNode("/b", <<>>)>>)>>]
SmallDeclares ==
  [accepted |-> Accepted,
   other |-> [Accepted EXCEPT !.key = "b", !.version = "2"],
   unpermitted |-> [Accepted EXCEPT !.permissions = {"cron"}],
   full |-> [Accepted EXCEPT !.key = "b", !.menus[1].children[1].children = <<MenuNode("/c", <<>>)>>],
   deep |-> [Accepted EXCEPT !.menus[1].children[1].children = <<MenuNode("/c", <<MenuNode("/d", <<>>)>>)>>],
   never |-> [Accepted EXCEPT !.jobs[2].cron = "never"]]
SmallEntries == <<"a", "b">>
SmallInstalled ==
  LET files(m, b) == [manifest |-> m, binary |-> b]
      both(x, y) == [k \in Directories |-> IF k = "a" THEN x ELSE y]
  IN {both(files("accepted", "x"), files(Unreadable, "x")),
      both(files("deep", "x"), files("other", "x")),
      both(files("never", "x"), files("other", "missing")),
      both(files("unpermitted", "x"), files("full", "x"))}

\* A component that is not exercised has one initial state.
StoresInit ==
  /\ part \in {"locks", "cache", "pages", "console", "settings",
              "users", "files", "events", "egress", "limiter", "keys",
              "syncer", "paths", "cron", "documents",
              "exchange", "schema", "catalog"}
  /\ LockInit
  /\ part = "locks" \/ lease = [c \in Clients |-> NoLease(CHOOSE n \in Names : TRUE)]
  /\ PagesInit
  /\ part = "pages" \/ (~descending /\ Stored = {})
  /\ ConsoleInit
  /\ part = "console" \/ ~marked
  /\ SettingsInit
  /\ part = "settings" \/ stored = NoSettings
  /\ UsersInit
  /\ part = "users" \/ Cardinality(Administrators) = 1
  /\ LimiterInit
  /\ part = "limiter" \/ limit = CHOOSE settings \in LimitSettings : TRUE
  /\ KeysInit
  /\ part = "keys" \/ revoke.replica = CHOOSE r \in KeyReplicas : TRUE
  /\ PathInit
  /\ part = "paths" \/ glob = <<>>
  /\ DocumentsInit
  /\ part = "documents" \/ (grants = {} /\ ~configured /\ documents["doc"] = NoDoc)
  /\ ExchangeInit
  /\ part = "exchange" \/ rc.header = NoHeader
  /\ SchemaInit
  /\ part = "schema" \/ tables = {}
  /\ CatalogInit
  /\ part = "catalog" \/ disk = CHOOSE files \in Installed : TRUE
  /\ CacheInit /\ FilesInit /\ EventsInit /\ EgressInit /\ SyncerInit /\ CronInit

\* A step of one component, in a behaviour that exercises it.
DataNext ==
  /\ \/ /\ part = "locks" /\ LockNext
        /\ UNCHANGED <<cacheVars, pagesVars, consoleVars, settingsVars>>
     \/ /\ part = "cache" /\ CacheNext
        /\ UNCHANGED <<lockVars, pagesVars, consoleVars, settingsVars>>
     \/ /\ part = "pages" /\ PagesNext
        /\ UNCHANGED <<lockVars, cacheVars, consoleVars, settingsVars>>
     \/ /\ part = "console" /\ ConsoleNext
        /\ UNCHANGED <<lockVars, cacheVars, pagesVars, settingsVars>>
     \/ /\ part = "settings" /\ SettingsNext
        /\ UNCHANGED <<lockVars, cacheVars, pagesVars, consoleVars>>
  /\ UNCHANGED <<part, serviceVars, pluginVars, textVars>>

ServiceNext ==
  /\ \/ part = "users" /\ UsersNext /\ UNCHANGED <<filesVars, eventsVars, egressVars, docVars, schemaVars>>
     \/ part = "files" /\ FilesNext /\ UNCHANGED <<usersVars, eventsVars, egressVars, docVars, schemaVars>>
     \/ part = "events" /\ EventsNext /\ UNCHANGED <<usersVars, filesVars, egressVars, docVars, schemaVars>>
     \/ part = "egress" /\ EgressNext /\ UNCHANGED <<usersVars, filesVars, eventsVars, docVars, schemaVars>>
     \/ part = "documents" /\ DocumentsNext /\ UNCHANGED <<usersVars, filesVars, eventsVars, egressVars, schemaVars>>
     \/ part = "schema" /\ SchemaNext /\ UNCHANGED <<usersVars, filesVars, eventsVars, egressVars, docVars>>
  /\ UNCHANGED <<part, dataVars, pluginVars, textVars>>

PluginNext ==
  /\ \/ part = "limiter" /\ LimiterNext /\ UNCHANGED <<keysVars, syncerVars>>
     \/ part = "keys" /\ KeysNext /\ UNCHANGED <<limiterVars, syncerVars>>
     \/ part = "syncer" /\ SyncerNext /\ UNCHANGED <<limiterVars, keysVars>>
  /\ UNCHANGED <<part, dataVars, serviceVars, textVars>>

TextNext ==
  /\ \/ part = "paths" /\ PathNext /\ UNCHANGED <<cronVars, exchangeVars, catalogVars>>
     \/ part = "cron" /\ CronNext /\ UNCHANGED <<pathVars, exchangeVars, catalogVars>>
     \/ part = "exchange" /\ ExchangeNext /\ UNCHANGED <<pathVars, cronVars, catalogVars>>
     \/ part = "catalog" /\ CatalogNext /\ UNCHANGED <<pathVars, cronVars, exchangeVars>>
  /\ UNCHANGED <<part, dataVars, serviceVars, pluginVars>>

StoresNext == DataNext \/ ServiceNext \/ PluginNext \/ TextNext

StoresSpec == StoresInit /\ [][StoresNext]_storesVars

\* The variables of every component have their types; those of the components that
\* are not exercised do not change.
StoresTypeOK ==
  /\ (part = "locks" => LockTypeOK) /\ (part = "cache" => CacheTypeOK)
  /\ (part = "pages" => PagesTypeOK) /\ (part = "console" => ConsoleTypeOK)
  /\ (part = "settings" => SettingsTypeOK) /\ (part = "documents" => DocumentsTypeOK)
  /\ (part = "users" => UsersTypeOK) /\ (part = "files" => FilesTypeOK)
  /\ (part = "events" => EventsTypeOK) /\ (part = "egress" => EgressTypeOK)
  /\ (part = "limiter" => LimiterTypeOK) /\ (part = "keys" => KeysTypeOK)
  /\ (part = "syncer" => SyncerTypeOK) /\ (part = "paths" => PathTypeOK)
  /\ (part = "cron" => CronTypeOK) /\ (part = "exchange" => ExchangeTypeOK)
  /\ (part = "schema" => SchemaTypeOK) /\ (part = "catalog" => CatalogTypeOK)

\* What the example plugins promise their callers, as far as they keep it: a limit
\* that forgetting does not change (ratelimit/main.go:167-177), a withdrawal that
\* takes effect, later than apikey/main.go:331-334 says, and work that is not lost,
\* nor done by two at once as long as leases last (syncer/main.go:180-185, :276-278).
ExamplesAreSafe ==
  (part = "limiter" => LimiterIsFair) /\ (part = "keys" => WithdrawalHolds) /\ (part = "syncer" => SyncerIsSafe)

\* Globs and schedules of a manifest mean what they say: compiled or parsed, they
\* give the answers that reading them gives (pathmatch.go:28-35, cron.go:25-28).
TextsAreRead == (part = "paths" => MatchIsDenoted) /\ (part = "cron" => FiresWhenNamed)
=============================================================================
