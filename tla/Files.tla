------------------------------- MODULE Files -------------------------------
(***************************************************************************)
(* Files of plugins and users: an object in the store, a record in the     *)
(* database, and links by which browsers download.                         *)
(* Source: core/hostsvc/files.go, core/hostsvc/rpc_files.go,               *)
(* core/gateway/file_handler.go, core/storage/rustfs.go.                   *)
(***************************************************************************)
EXTENDS Naturals

CONSTANTS
  FileIds,    \* ids, each given once
  FileCalls,  \* calls and requests
  FileOwners, \* plugins
  User,       \* the owner of what a browser uploads: no plugin
  MaxUpload,  \* MaxUploadBytes
  Sizes       \* sizes of what is sent

VARIABLES
  object,     \* object[f]: the bytes in the store, 0 when there are none
  row,        \* row[f]: the record in system_files, and how much was sent
  link,       \* link[f]: a token for f was never minted, is valid, or expired
  fileCall,   \* fileCall[c]: what c does, and how far it is
  told,       \* the ids that were answered to those who sent the file
  removed,    \* files whose deletion was answered
  served      \* calls that got the content of a file that was deleted before they began

filesVars == <<object, row, link, fileCall, told, removed, served>>

NoFile == [owner |-> User, size |-> 0, sent |-> 0]
NoFileCall == [at |-> "idle", file |-> CHOOSE f \in FileIds : TRUE, owner |-> User,
               sent |-> 0, size |-> 0, late |-> FALSE]

\* A new id is that of no object, no record and no call.
Unused ==
  {f \in FileIds \ removed :
     /\ row[f] = NoFile /\ object[f] = 0
     /\ \A c \in FileCalls : fileCall[c].at = "idle" \/ fileCall[c].file # f}

FilesInit ==
  /\ object = [f \in FileIds |-> 0] /\ row = [f \in FileIds |-> NoFile]
  /\ link = [f \in FileIds |-> "none"]
  /\ fileCall = [c \in FileCalls |-> NoFileCall]
  /\ told = {} /\ removed = {} /\ served = {}

CallGoes(c, where) == fileCall' = [fileCall EXCEPT ![c].at = where]
CallEnds(c) == fileCall' = [fileCall EXCEPT ![c] = NoFileCall]

-----------------------------------------------------------------------------
(* Writing.                                                                *)

\* Mutant: the limit of the reader is the ceiling itself.
ReceivedShort(size) == IF size > MaxUpload THEN MaxUpload ELSE size

\* Put reads up to one byte over the ceiling.
Received(size) == IF size > MaxUpload + 1 THEN MaxUpload + 1 ELSE size

\* A new file is on its way to the store.
Storing(c, owner, sent, size) ==
  /\ fileCall[c].at = "idle"
  /\ \E f \in Unused :
       fileCall' = [fileCall EXCEPT ![c] = [at |-> "store", file |-> f, owner |-> owner,
                                            sent |-> sent, size |-> size, late |-> FALSE]]
  /\ UNCHANGED <<object, row, link, told, removed, served>>

\* Mutant: no ceiling.
PutReadsAny(c, owner, size) == Storing(c, owner, size, Received(size))

\* Put, once the stream is collected: a file over the ceiling is refused.
PutReads(c, owner, size) ==
  /\ Received(size) <= MaxUpload
  /\ Storing(c, owner, size, Received(size))

\* Upload, of a browser: MaxBytesReader breaks off a form over the ceiling.
UploadReads(c, size) ==
  /\ size <= MaxUpload
  /\ Storing(c, User, size, size)

PutStores(c) ==
  /\ fileCall[c].at = "store"
  /\ object' = [object EXCEPT ![fileCall[c].file] = fileCall[c].size]
  /\ CallGoes(c, "record")
  /\ UNCHANGED <<row, link, told, removed, served>>

\* The store answers with an error, after the object was written or before.
PutStoreFails(c) ==
  /\ fileCall[c].at = "store"
  /\ object' \in {object, [object EXCEPT ![fileCall[c].file] = fileCall[c].size]}
  /\ CallEnds(c)
  /\ UNCHANGED <<row, link, told, removed, served>>

Recorded(c) ==
  [row EXCEPT ![fileCall[c].file] =
     [owner |-> fileCall[c].owner, size |-> fileCall[c].size, sent |-> fileCall[c].sent]]

PutRecords(c) ==
  /\ fileCall[c].at = "record"
  /\ row' = Recorded(c)
  /\ told' = told \cup {fileCall[c].file}
  /\ CallEnds(c)
  /\ UNCHANGED <<object, link, removed, served>>

\* Mutant: the id is answered all the same.
PutRecordFailsTold(c) ==
  /\ fileCall[c].at = "record"
  /\ row' \in {row, Recorded(c)}
  /\ told' = told \cup {fileCall[c].file}
  /\ CallEnds(c)
  /\ UNCHANGED <<object, link, removed, served>>

\* The object is left behind; the record may be there nevertheless.
PutRecordFails(c) ==
  /\ fileCall[c].at = "record"
  /\ row' \in {row, Recorded(c)}
  /\ CallEnds(c)
  /\ UNCHANGED <<object, link, told, removed, served>>

-----------------------------------------------------------------------------
(* Deleting, linking, downloading.                                         *)

\* checkOwnership: a file of another plugin is not found.
Owned(owner, f) == row[f] # NoFile /\ row[f].owner \in {User, owner}

Begins(c, owner, f, where) ==
  /\ fileCall[c].at = "idle" /\ Owned(owner, f)
  /\ fileCall' = [fileCall EXCEPT ![c] = [NoFileCall EXCEPT !.at = where, !.file = f, !.owner = owner]]
  /\ UNCHANGED <<object, row, link, told, removed, served>>

DeleteChecks(c, owner, f) == Begins(c, owner, f, "find")
LinkChecks(c, owner, f) == Begins(c, owner, f, "link")

\* Delete looks for the record once more.
DeleteFinds(c) ==
  /\ fileCall[c].at = "find"
  /\ IF row[fileCall[c].file] = NoFile THEN CallEnds(c) ELSE CallGoes(c, "delete")
  /\ UNCHANGED <<object, row, link, told, removed, served>>

\* The object stays.
DeleteDeletes(c) ==
  /\ fileCall[c].at = "delete"
  /\ row' = [row EXCEPT ![fileCall[c].file] = NoFile]
  /\ removed' = removed \cup {fileCall[c].file}
  /\ CallEnds(c)
  /\ UNCHANGED <<object, link, told, served>>

\* The file may be gone by now: the table of tokens does not refer to it.
LinkMints(c) ==
  /\ fileCall[c].at = "link"
  /\ link' = [link EXCEPT ![fileCall[c].file] = "valid"]
  /\ CallEnds(c)
  /\ UNCHANGED <<object, row, told, removed, served>>

LinkExpires(f) ==
  /\ link[f] = "valid"
  /\ link' = [link EXCEPT ![f] = "expired"]
  /\ UNCHANGED <<object, row, fileCall, told, removed, served>>

\* A statement, or the store, fails.
StepFails(c) ==
  /\ fileCall[c].at \in {"find", "delete", "link", "load", "stream"}
  /\ CallEnds(c)
  /\ UNCHANGED <<object, row, link, told, removed, served>>

\* A valid token is not used up.
DownloadVerifies(c, f) ==
  /\ fileCall[c].at = "idle" /\ link[f] = "valid"
  /\ fileCall' = [fileCall EXCEPT ![c] = [NoFileCall EXCEPT !.at = "load", !.file = f, !.late = f \in removed]]
  /\ UNCHANGED <<object, row, link, told, removed, served>>

\* Mutant: the store is asked without a look at the record.
DownloadLoadsBlindly(c) ==
  /\ fileCall[c].at = "load"
  /\ CallGoes(c, "stream")
  /\ UNCHANGED <<object, row, link, told, removed, served>>

DownloadLoads(c) ==
  /\ fileCall[c].at = "load"
  /\ IF row[fileCall[c].file] = NoFile THEN CallEnds(c) ELSE CallGoes(c, "stream")
  /\ UNCHANGED <<object, row, link, told, removed, served>>

DownloadStreams(c) ==
  /\ fileCall[c].at = "stream"
  /\ served' = IF fileCall[c].late THEN served \cup {c} ELSE served
  /\ CallEnds(c)
  /\ UNCHANGED <<object, row, link, told, removed>>

FilesNext ==
  \/ \E c \in FileCalls :
       \/ PutStores(c) \/ PutStoreFails(c) \/ PutRecords(c) \/ PutRecordFails(c)
       \/ DeleteFinds(c) \/ DeleteDeletes(c) \/ LinkMints(c) \/ StepFails(c)
       \/ DownloadLoads(c) \/ DownloadStreams(c)
       \/ \E size \in Sizes :
            UploadReads(c, size) \/ \E owner \in FileOwners : PutReads(c, owner, size)
       \/ \E f \in FileIds :
            \/ DownloadVerifies(c, f)
            \/ \E owner \in FileOwners : DeleteChecks(c, owner, f) \/ LinkChecks(c, owner, f)
  \/ \E f \in FileIds : LinkExpires(f)

FilesSpec == FilesInit /\ [][FilesNext]_filesVars

-----------------------------------------------------------------------------
(* Properties.                                                             *)

\* The variables have their types.
FilesTypeOK ==
  /\ object \in [FileIds -> 0..MaxUpload]
  /\ row \in [FileIds -> [owner : FileOwners \cup {User}, size : 0..MaxUpload, sent : Nat]]
  /\ link \in [FileIds -> {"none", "valid", "expired"}]
  /\ \A c \in FileCalls :
       fileCall[c].at \in {"idle", "store", "record", "find", "delete", "link", "load", "stream"}
  /\ told \subseteq FileIds /\ removed \subseteq FileIds

\* A recorded file is in the store, with every byte that was sent: never
\* truncated at the ceiling (files.go:103-113) and never a record without an
\* object, whichever step fails (:133-136).
RecordIsWhole ==
  \A f \in FileIds : row[f] # NoFile => object[f] = row[f].size /\ row[f].size = row[f].sent

\* An id that was answered is that of a recorded file, until it is deleted
\* (files.go:133-135, "a phantom file id").
ToldIsThere == \A f \in told : row[f] # NoFile \/ f \in removed

\* A link does not outlive its file: a download that begins after the deletion
\* was answered gets nothing, though object and token stay (files.go:141-145).
DeletedIsNotServed == served = {}

\* Object, record and link of a file agree, whichever step fails (files.go:103-113,
\* :133-136, :141-145).  How often a link is used is not part of it: a download leaves
\* it as it is, although files.go:165 calls it single-use.
FilesAreWhole == RecordIsWhole /\ ToldIsThere /\ DeletedIsNotServed
=============================================================================
