------------------------------- MODULE Pages -------------------------------
(***************************************************************************)
(* Reading a collection page by page while it is written: a sort field, the *)
(* id as the last key, and a cursor that carries both as text.  A document *)
(* that does not match the filter is absent.  Several sort fields are one   *)
(* key here, in the order of their tuples.  Source: core/db/query.go,      *)
(* core/hostsvc/data.go (Query), sdk/plugin/host.go (Query.All).           *)
(***************************************************************************)
EXTENDS Integers, FiniteSets

CONSTANTS
  Ids,        \* document ids, numbers in the order of their text
  SortKeys,   \* values of the sort field, numbers in the order of their text
  Inexact,    \* those that a float64 does not print as ->> does
  Missing,    \* no value: SQL's NULL
  Absent,     \* no document
  PageLimit

ASSUME PagesAssumption ==
  /\ IsFiniteSet(Ids) /\ Ids \subseteq Nat
  /\ SortKeys \subseteq Nat \ {0} /\ Inexact \subseteq SortKeys
  /\ Missing \notin Nat /\ Absent \notin Nat /\ Missing # Absent
  /\ PageLimit \in Nat \ {0}

VARIABLES
  docs,        \* docs[i]: the sort key of document i
  descending,  \* the direction the reader asked for
  cursor,      \* where the reader is: [key, id], or Start
  reading,     \* "no", "yes", "done"
  returned,    \* returned[i]: how often document i has been returned, up to twice
  touched,     \* documents written since the first page
  faithful     \* history: every cursor so far has the key of the row it is from

pagesVars == <<docs, descending, cursor, reading, returned, touched, faithful>>

Start == [key |-> -1, id |-> -1]

Stored == {i \in Ids : docs[i] # Absent}

PagesInit ==
  /\ docs \in [Ids -> SortKeys \cup {Missing, Absent}]
  /\ descending \in BOOLEAN
  /\ cursor = Start
  /\ reading = "no"
  /\ returned = [i \in Ids |-> 0]
  /\ touched = {}
  /\ faithful = TRUE

\* ORDER BY key, id: a missing key comes last, and first when descending.
Ascends(i, j) ==
  CASE docs[i] = docs[j]  -> i < j
    [] docs[i] = Missing  -> FALSE
    [] docs[j] = Missing  -> TRUE
    [] OTHER              -> docs[i] < docs[j]

Before(i, j) == IF descending THEN Ascends(j, i) ELSE Ascends(i, j)

\* Mutant: the cursor's own row qualifies again.
AfterOrAt(c, i) ==
  \/ c = Start
  \/ /\ docs[i] # Missing
     /\ IF descending THEN docs[i] < c.key \/ (docs[i] = c.key /\ i <= c.id)
                      ELSE docs[i] > c.key \/ (docs[i] = c.key /\ i >= c.id)

\* Mutant: the sort field alone is compared.
AfterKey(c, i) ==
  \/ c = Start
  \/ docs[i] # Missing /\ IF descending THEN docs[i] < c.key ELSE docs[i] > c.key

\* (key, id) > (cursor's key, cursor's id).  The comparison of a row without a
\* key is neither true nor false, and WHERE drops the row.
After(c, i) ==
  \/ c = Start
  \/ /\ docs[i] # Missing
     /\ IF descending THEN docs[i] < c.key \/ (docs[i] = c.key /\ i < c.id)
                      ELSE docs[i] > c.key \/ (docs[i] = c.key /\ i > c.id)

Matching == {i \in Stored : After(cursor, i)}

\* The first PageLimit rows; one more is fetched to learn that there are more.
Page == {i \in Matching : Cardinality({j \in Matching : Before(j, i)}) < PageLimit}
HasMore == Cardinality(Matching) > PageLimit
LastRow == CHOOSE i \in Page : \A j \in Page \ {i} : Before(j, i)

\* Mutant: a missing key stays missing.
RenderedRaw(key) == key

\* lookupPath: the key as text again, from a document decoded by json.Unmarshal, and
\* the empty text for none.  Numbers have become float64: 1.50 is printed 1.5, and
\* an integer above 2^53 as one near it, which is the text below it here.
Rendered(key) ==
  IF key = Missing THEN 0 ELSE IF key \in Inexact THEN key - 1 ELSE key

\* All: one statement reads one state of the table.
QueryPage ==
  /\ reading # "done"
  /\ returned' = [i \in Ids |->
                     IF i \in Page /\ returned[i] < 2 THEN returned[i] + 1 ELSE returned[i]]
  /\ \/ HasMore /\ reading' = "yes"
        /\ cursor' = [key |-> Rendered(docs[LastRow]), id |-> LastRow]
        /\ faithful' = (faithful /\ cursor'.key = docs[LastRow])
     \/ ~HasMore /\ reading' = "done" /\ UNCHANGED <<cursor, faithful>>
  /\ UNCHANGED <<docs, descending, touched>>

\* A Put or a Delete by whoever else works on the collection.
WriteDoc(i, key) ==
  /\ reading = "yes" /\ docs[i] # key
  /\ docs' = [docs EXCEPT ![i] = key]
  /\ touched' = touched \cup {i}
  /\ UNCHANGED <<descending, cursor, reading, returned, faithful>>

PagesNext ==
  \/ QueryPage
  \/ \E i \in Ids, key \in SortKeys \cup {Missing, Absent} : WriteDoc(i, key)

PagesSpec == PagesInit /\ [][PagesNext]_pagesVars

-----------------------------------------------------------------------------
(* Properties.                                                             *)

\* The variables have their types: a cursor carries text.
PagesTypeOK ==
  /\ docs \in [Ids -> SortKeys \cup {Missing, Absent}]
  /\ cursor = Start \/ (cursor.key \in Nat /\ cursor.id \in Ids)
  /\ reading \in {"no", "yes", "done"}
  /\ returned \in [Ids -> 0..2]
  /\ touched \subseteq Ids /\ {faithful, descending} \subseteq BOOLEAN

\* Document i has been returned once when the reader is done, and not more before.
Once(i) == returned[i] <= 1 /\ (reading = "done" => returned[i] = 1)

\* The claim of host.go:135-137, "rows shifting underneath do not cause duplicates
\* or gaps": a document nobody writes is returned once, whatever is written
\* around it.  Documents without the sort field refute it: their key is rendered
\* as the empty text, and NULL is not compared with it.
EveryRowOnce == \A i \in Stored \ touched : Once(i)

\* What holds of that claim: documents that have the sort field are returned once,
\* with writes in between and keys that tie across pages, as long as each cursor
\* has the key of the row it was taken from (query.go:199-201).  It has not where
\* the last row of a page has no key, or one that lookupPath does not render "the
\* same way PostgreSQL's ->> operator would" (query.go:347-348), as its comment
\* says: a number that a float64 does not hold or prints differently, or a nested
\* value.  Pages then repeat rows, or leave rows out.
NoDuplicatesNoGaps ==
  faithful => \A i \in Stored \ touched : docs[i] # Missing => Once(i)
=============================================================================
