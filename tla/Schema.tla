------------------------------- MODULE Schema -------------------------------
(***************************************************************************)
(* Tables and indexes of one plugin's collections, brought into line with  *)
(* its manifest before each of its processes is launched.  Statements run  *)
(* one by one, outside a transaction; a relaunch of one version may run    *)
(* beside the upgrade to another; a failure is logged and the launch goes  *)
(* on.  A name is its words, which "_" joins, so that different lists of   *)
(* words may make one name, and the server cuts what is longer than a name *)
(* may be, wherever a statement has it.                                    *)
(* Source: core/db/cmds.go, core/hostsvc/data.go and core/main.go.         *)
(***************************************************************************)
EXTENDS Integers, FiniteSets, Sequences, SequencesExt

CONSTANTS
  ExtKey,        \* the plugin's key
  Manifests,     \* the collections that versions of the plugin declare
  NameLength,    \* words of a name that the server keeps
  Launchers,     \* goroutines that launch the plugin's processes
  MaxProvisions  \* bound: launches

VARIABLES
  tables,     \* tables, each with whether it has a version column
  indexes,    \* indexes of the tables
  provision,  \* ReconcileSchema, as far as each launcher has come
  provisions, \* launches so far
  upToDate    \* the manifest that is in place, if no launch of another was begun since

schemaVars == <<tables, indexes, provision, provisions, upToDate>>

NoManifest == <<>>
NotReconciling == [of |-> NoManifest, todo |-> <<>>, stale |-> {}, agreed |-> FALSE]

Fits(name) == Len(name) <= NameLength
Cut(name) == IF Fits(name) THEN name ELSE SubSeq(name, 1, NameLength)

\* The index of a table's key, which has a name the server finds for it.
PrimaryKey(t) ==
  [name |-> Append(t, "pkey"), table |-> t, fields |-> <<>>, unique |-> TRUE, primary |-> TRUE]

\* Tables of before optimistic locking may be there.
SchemaInit ==
  /\ tables \in SUBSET {[name |-> Cut(<<"ext">> \o ExtKey \o m[1].name), version |-> FALSE] : m \in Manifests}
  /\ Cardinality(tables) <= 1
  /\ indexes = {PrimaryKey(t.name) : t \in tables}
  /\ provision = [l \in Launchers |-> NotReconciling]
  /\ provisions = 0 /\ upToDate = NoManifest

-----------------------------------------------------------------------------
(* Names.                                                                  *)

\* The word "-" stands for what an identifier must not have.
ValidateIdentifier(name) == name # <<>> /\ \A i \in DOMAIN name : name[i] # "-"

tableName(collection) == <<"ext">> \o ExtKey \o collection
tableIsNamed(collection) == ValidateIdentifier(ExtKey) /\ ValidateIdentifier(collection)

indexPrefix(collection) == <<"idx">> \o ExtKey \o collection
indexName(collection, fields) == indexPrefix(collection) \o FlattenSeq(fields)

jsonPathIsNamed(fields) == \A i \in DOMAIN fields : ValidateIdentifier(fields[i])

-----------------------------------------------------------------------------
(* Statements.                                                             *)

\* An index without fields is passed over.
Declared(c) == SelectSeq(c.indexes, LAMBDA x : x.fields # <<>>)
desired(c) == {indexName(c.name, Declared(c)[i].fields) : i \in DOMAIN Declared(c)}

\* The index that a declaration makes.
Made(c, x) ==
  [name |-> Cut(indexName(c.name, x.fields)), table |-> Cut(tableName(c.name)),
   fields |-> x.fields, unique |-> x.unique, primary |-> FALSE]

SqlStep(op, c) == [op |-> op, of |-> c, index |-> 0]

\* What ReconcileSchema does for a collection, in order.
Statements(c) ==
  <<SqlStep("table", c), SqlStep("version", c)>>
  \o [i \in DOMAIN Declared(c) |-> [SqlStep("index", c) EXCEPT !.index = i]]
  \o <<SqlStep("list", c), SqlStep("drop", c)>>

\* hostFor, before a launch: the launcher reads its package's collections, of
\* which there are some.
ProvisionSchema(l, m) ==
  /\ provision[l].of = NoManifest /\ provisions < MaxProvisions
  /\ LET agreed == \A k \in Launchers : provision[k].of \in {NoManifest, m}
     IN provision' = [k \in Launchers |->
          IF k = l THEN [of |-> m, todo |-> FlattenSeq([i \in DOMAIN m |-> Statements(m[i])]),
                         stale |-> {}, agreed |-> agreed]
          ELSE [provision[k] EXCEPT !.agreed = @ /\ provision[k].of = m]]
  /\ provisions' = provisions + 1
  /\ upToDate' = IF m = upToDate THEN m ELSE NoManifest
  /\ UNCHANGED <<tables, indexes>>

Doing(l, op) == provision[l].todo # <<>> /\ Head(provision[l].todo).op = op
On(l) == Head(provision[l].todo).of.name
Done(l) == provision' = [provision EXCEPT ![l].todo = Tail(@)] /\ UNCHANGED <<provisions, upToDate>>

\* A statement fails, or a name is refused: the rest is left, and the launch goes on.
Fails(l) ==
  /\ provision[l].todo # <<>>
  /\ provision' = [provision EXCEPT ![l] = NotReconciling]
  /\ UNCHANGED <<tables, indexes, provisions, upToDate>>

CreateTable(l) ==
  /\ Doing(l, "table") /\ tableIsNamed(On(l))
  /\ LET t == Cut(tableName(On(l)))
     IN IF \E u \in tables : u.name = t THEN UNCHANGED <<tables, indexes>>
        ELSE /\ tables' = tables \cup {[name |-> t, version |-> TRUE]}
             /\ indexes' = indexes \cup {PrimaryKey(t)}
  /\ Done(l)

AddVersion(l) ==
  /\ Doing(l, "version")
  /\ tables' = {IF t.name = Cut(tableName(On(l))) THEN [t EXCEPT !.version = TRUE] ELSE t : t \in tables}
  /\ Done(l) /\ UNCHANGED indexes

\* IF NOT EXISTS: an index of the name is left as it is, whatever it is of.
CreateIndex(l) ==
  /\ Doing(l, "index")
  /\ LET s == Head(provision[l].todo)
         x == Declared(s.of)[s.index]
     IN /\ jsonPathIsNamed(x.fields)
        /\ indexes' = IF \E y \in indexes : y.name = Made(s.of, x).name THEN indexes
                      ELSE indexes \cup {Made(s.of, x)}
  /\ Done(l) /\ UNCHANGED tables


\* The indexes of the table with a name of ours, without the declared ones.  Here
\* the names of the table and of the declared ones are compared as they are, uncut.
listStale(l) ==
  /\ Doing(l, "list")
  /\ LET c == Head(provision[l].todo).of
         found == {y.name : y \in {z \in indexes : z.table = tableName(c.name) /\ IsPrefix(indexPrefix(c.name), z.name)}}
     IN provision' = [provision EXCEPT ![l].todo = Tail(@), ![l].stale = found \ desired(c)]
  /\ UNCHANGED <<tables, indexes, provisions, upToDate>>

\* IF EXISTS: dropped by name, one after the other.
dropStaleIndexes(l) ==
  /\ Doing(l, "drop")
  /\ IF provision[l].stale = {} THEN Done(l) /\ UNCHANGED indexes
     ELSE \E name \in provision[l].stale :
            /\ indexes' = {y \in indexes : y.name # name}
            /\ provision' = [provision EXCEPT ![l].stale = @ \ {name}]
            /\ UNCHANGED <<provisions, upToDate>>
  /\ UNCHANGED tables

\* ReconcileSchema returns.
Reconciled(l) ==
  /\ provision[l].of # NoManifest /\ provision[l].todo = <<>>
  /\ upToDate' = IF provision[l].agreed THEN provision[l].of ELSE upToDate
  /\ provision' = [provision EXCEPT ![l] = NotReconciling]
  /\ UNCHANGED <<tables, indexes, provisions>>

ReconcileSchema(l) ==
  CreateTable(l) \/ AddVersion(l) \/ CreateIndex(l) \/ listStale(l) \/ dropStaleIndexes(l)
    \/ Reconciled(l) \/ Fails(l)

-----------------------------------------------------------------------------
SchemaNext == \E l \in Launchers : ReconcileSchema(l) \/ \E m \in Manifests : ProvisionSchema(l, m)

SchemaSpec == SchemaInit /\ [][SchemaNext]_schemaVars

-----------------------------------------------------------------------------
(* Properties.                                                             *)

\* The variables have their types.
SchemaTypeOK ==
  /\ \A t \in tables : t.version \in BOOLEAN
  /\ \A x \in indexes : x.unique \in BOOLEAN /\ \E t \in tables : t.name = x.table
  /\ \A l \in Launchers : provision[l].of \in Manifests \cup {NoManifest}
  /\ provisions \in 0..MaxProvisions /\ upToDate \in Manifests \cup {NoManifest}

\* What the versions of the plugin declare under a name.
Makers(name) ==
  UNION {UNION {{x \in {Made(m[i], Declared(m[i])[j]) : j \in DOMAIN Declared(m[i])} : x.name = name}
                : i \in DOMAIN m} : m \in Manifests}

\* A launch that met no failure, and no launch of another version meanwhile, leaves
\* every collection of its manifest with a table that has versions, with the declared
\* indexes and with no other of ours: "creates declared indexes and drops stale
\* ones" (cmds.go:75-76), whatever launches that overlapped or failed left behind;
\* and launches of the same version, beside it or later, however they end, change
\* nothing of that.  It does drop, unlike "only adds ... never drops" (migrations.go:13-14).
\* The code falls short of its comment in three ways, which are left out: a name that
\* is longer than the server's is created cut, not found in desired and dropped again
\* by the same launch (:119, :160-171); of two collections that make one name the
\* second gets no index; and an index that is there is not made again, so that a
\* version which declares its name otherwise (unique or not, or of fields that make
\* the same name) does not get what it declares.
DeclaredIsInPlace == \A i \in DOMAIN upToDate :
  LET c == upToDate[i]
      t == tableName(c.name)
      ours == {x \in indexes : x.table = t /\ ~x.primary}
  IN Fits(t) =>
     /\ [name |-> t, version |-> TRUE] \in tables
     /\ {x.name : x \in ours} \subseteq {Cut(name) : name \in desired(c)}
     /\ \A name \in {d \in desired(c) : Fits(d)} :
          /\ (\A x \in Makers(name) : x.table = t) => name \in {x.name : x \in ours}
          /\ Cardinality(Makers(name)) = 1 => Makers(name) \subseteq ours

\* No launch, however it ends, drops the primary key of a table.
KeysAreKept == \A t \in tables : \E x \in indexes : x.table = t.name /\ x.primary

=============================================================================
