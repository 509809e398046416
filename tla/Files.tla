--------------------------------- MODULE Files ---------------------------------
(***************************************************************************)
(* The files of one owner: uploads and the imports made from them          *)
(* (imports/service.py), exports of a resume (exports/service.py), the     *)
(* export of the owner's data and the deletion of the account              *)
(* (privacy/worker.py), and the object storage behind them                 *)
(* (integrations/storage.py).                                              *)
(*                                                                         *)
(* Rows and objects cannot be changed together.  An operation reads rows   *)
(* in one transaction, reads or changes objects, and records what it did   *)
(* in another, and none of these operations is fenced by the claim of its  *)
(* task (TaskService): a worker that lost its lease goes on.  Each one is a *)
(* process here, and each action one transaction or one call of the        *)
(* storage.                                                                *)
(***************************************************************************)
EXTENDS Naturals, FiniteSets

CONSTANTS
  Uploads, Exports, DataExports,  \* the ids of files of each purpose; also their object keys
  Contents,    \* what may be uploaded
  Processes,   \* requests and workers that run at the same time
  None,
  MaxRuns      \* bound on the operations that are begun, and on the processes that die

Signed == CHOOSE c \in Contents : TRUE   \* the content the upload token was signed for

ASSUME FilesAssumption ==
  /\ Uploads \cap Exports = {} /\ (Uploads \cup Exports) \cap DataExports = {}
  /\ Contents # {} /\ None \notin Contents \cup Uploads \cup Exports \cup DataExports
  /\ MaxRuns \in Nat

VARIABLES
  urls,       \* the uploads whose signed URL has not expired
  files,      \* File rows: [status, expired, deleted]; status "none" where there is none
  objects,    \* the stored content of each key, or None
  imports,    \* the ResumeImport row of each upload: [status, text, resumes]
  exports,    \* the status of the Export row of each export file
  account,    \* the status of the User row
  candidates, \* whether the owner has FactCandidate rows
  procs,      \* the operations that run: [job, file, pc, data], data being what was read
  runs,       \* how many were begun, or died
  unsettled   \* objects whose row may miss them: removed on purpose, or stored by a
              \* process that died or met a deletion of the account

fileVars == <<urls, files, objects, imports, exports, account, candidates, procs, runs, unsettled>>

Keys == Uploads \cup Exports \cup DataExports

\* File; ResumeImport, whose content is what was parsed; and the status of an Export.
FileRow ==
  [status : {"none", "pending_upload", "pending_generation", "confirmed", "expired_cleanup",
            "deleted"},
   expired : BOOLEAN, deleted : BOOLEAN]
ImportRow ==
  [status : {"none", "queued", "parsed", "needs_paste", "confirmed"},
   text : Contents \cup {None}, resumes : 0..1]
ExportStatuses == {"none", "queued", "succeeded"}

NoRow   == [status |-> "none", expired |-> FALSE, deleted |-> FALSE]
NoDraft == [status |-> "none", text |-> None, resumes |-> 0]
Free    == [job |-> None, file |-> None, pc |-> "idle", data |-> None]

-------------------------------------------------------------------------------
HasRow(k) == files[k].status # "none"

\* deleted_at IS NULL
Present(k) == HasRow(k) /\ ~files[k].deleted

At(p, job, pc) == procs[p].job = job /\ procs[p].pc = pc

Start(p, job, k, pc, data) ==
  /\ procs[p].pc = "idle"
  /\ procs' = [procs EXCEPT ![p] =
       [job |-> job, file |-> k, pc |-> pc, data |-> data]]

Count == runs < MaxRuns /\ runs' = runs + 1

Begin(p, job, k, pc, data) == Start(p, job, k, pc, data) /\ Count

Step(p, pc) == procs' = [procs EXCEPT ![p].pc = pc] /\ UNCHANGED runs
End(p)      == procs' = [procs EXCEPT ![p] = Free] /\ UNCHANGED runs

\* The account is being deleted: its objects are listed, its rows are still there.
Deleting == \E p \in Processes : procs[p].job = "delete" /\ procs[p].pc # "idle"

Store(k, content) ==
  /\ objects' = [objects EXCEPT ![k] = content]
  /\ unsettled' = IF Deleting THEN unsettled \cup {k} ELSE unsettled \ {k}

Remove(keys) ==
  /\ objects' = [k \in Keys |-> IF k \in keys THEN None ELSE objects[k]]
  /\ unsettled' = unsettled \cup keys

-------------------------------------------------------------------------------
(* Uploads *)

\* create_upload_token
CreateUploadToken(f) ==
  /\ account = "active"
  /\ ~HasRow(f)
  /\ files' = [files EXCEPT ![f] = [NoRow EXCEPT !.status = "pending_upload"]]
  /\ urls' = urls \cup {f}
  /\ UNCHANGED <<objects, imports, exports, account, candidates, procs, runs, unsettled>>

\* The URL works for 10 minutes, whatever becomes of the row and of the account.
UrlExpires(f) ==
  /\ f \in urls
  /\ urls' = urls \ {f}
  /\ UNCHANGED <<files, objects, imports, exports, account, candidates, procs, runs, unsettled>>

\* The client uploads with the signed URL, again if it likes, until the URL expires.
Upload(f, content) ==
  /\ f \in urls
  /\ Store(f, content)
  /\ UNCHANGED <<urls, files, imports, exports, account, candidates, procs, runs>>

\* confirm_upload reads the row,
FindUpload(p, f) ==
  /\ account = "active"
  /\ Present(f)
  /\ Begin(p, "confirm", f, "found", None)
  /\ UNCHANGED <<urls, files, objects, imports, exports, account, candidates, unsettled>>

\* then the object: there may be none, and one that is not what was signed, or is of a
\* format that cannot be parsed, is refused,
ReadUpload(p) ==
  LET f == procs[p].file IN
  /\ At(p, "confirm", "found")
  /\ \/ objects[f] = None /\ End(p)
     \/ objects[f] = Signed /\ Step(p, "checked")
     \/ objects[f] # None /\ Step(p, "mismatch")
  /\ UNCHANGED <<urls, files, objects, imports, exports, account, candidates, unsettled>>

\* and deleted, whatever is there by then.
RemoveMismatch(p) ==
  /\ At(p, "confirm", "mismatch")
  /\ Remove({procs[p].file})
  /\ End(p)
  /\ UNCHANGED <<urls, files, imports, exports, account, candidates>>

\* Its transaction locks the row and sets its status, whatever it was, for 24 hours.
ConfirmUpload(p) ==
  LET f == procs[p].file IN
  /\ At(p, "confirm", "checked")
  /\ files' = IF Present(f)
              THEN [files EXCEPT ![f].status = "confirmed", ![f].expired = FALSE] ELSE files
  /\ End(p)
  /\ UNCHANGED <<urls, objects, imports, exports, account, candidates, unsettled>>

-------------------------------------------------------------------------------
(* Imports *)

\* create_import
CreateImport(f) ==
  /\ account = "active"
  /\ Present(f) /\ files[f].status = "confirmed"
  /\ imports[f].status = "none"
  /\ imports' = [imports EXCEPT ![f].status = "queued"]
  /\ UNCHANGED <<urls, files, objects, exports, account, candidates, procs, runs, unsettled>>

\* process_import reads the row, the file row and the object, and parses what it read.
ReadImport(p, f) ==
  /\ imports[f].status = "queued"
  /\ Present(f) /\ objects[f] # None
  /\ Begin(p, "import", f, "parsed", objects[f])
  /\ UNCHANGED <<urls, files, objects, imports, exports, account, candidates, unsettled>>

\* Fault: the result is recorded whatever became of the import.
AnyImport(f) == imports[f].status # "none"

StillQueued(f) == imports[f].status = "queued"

\* The transaction of process_import; a scan or a broken file needs its text pasted.
RecordImport(p, status) ==
  LET f == procs[p].file IN
  /\ At(p, "import", "parsed")
  /\ imports' = IF StillQueued(f)
                THEN [imports EXCEPT ![f].status = status,
                        ![f].text = IF status = "parsed" THEN procs[p].data ELSE None]
                ELSE imports
  /\ End(p)
  /\ UNCHANGED <<urls, files, objects, exports, account, candidates, unsettled>>

\* IMPORT_NOT_READY and IMPORT_ALREADY_FINALIZED
Confirmable(f) == imports[f].status \in {"parsed", "needs_paste"}

\* confirm_import: facts, a base resume and its version, and the end of the import.
ConfirmImport(f) ==
  /\ account = "active"
  /\ Confirmable(f)
  /\ imports' = [imports EXCEPT ![f].status = "confirmed", ![f].resumes = @ + 1]
  /\ UNCHANGED <<urls, files, objects, exports, account, candidates, procs, runs, unsettled>>

-------------------------------------------------------------------------------
(* Exports *)

\* create: the file row and the export row.
CreateExport(x) ==
  /\ account = "active"
  /\ exports[x] = "none" /\ ~HasRow(x)
  /\ exports' = [exports EXCEPT ![x] = "queued"]
  /\ files' = [files EXCEPT ![x] = [NoRow EXCEPT !.status = "pending_generation"]]
  /\ UNCHANGED <<urls, objects, imports, account, candidates, procs, runs, unsettled>>

\* process_export reads its rows, checks the facts and renders.
ReadExport(p, x) ==
  /\ exports[x] = "queued"
  /\ Present(x)
  /\ Begin(p, "export", x, "rendered", None)
  /\ UNCHANGED <<urls, files, objects, imports, exports, account, candidates, unsettled>>

StoreExport(p) ==
  /\ At(p, "export", "rendered")
  /\ Store(procs[p].file, Signed)
  /\ Step(p, "stored")
  /\ UNCHANGED <<urls, files, imports, exports, account, candidates>>

\* Fault: the object is left behind when the rows are gone.
LeaveObject(x) == UNCHANGED <<objects, unsettled>>

TakeBack(x) == objects' = [objects EXCEPT ![x] = None] /\ UNCHANGED unsettled

\* Fault: a worker that comes late takes its object back.
OnlyTheFirst(x) == exports[x] = "queued" /\ HasRow(x)

RowsAreThere(x) == exports[x] # "none" /\ HasRow(x)

\* The last transaction of process_export: without its rows the object is deleted again.
RecordExport(p) ==
  LET x == procs[p].file IN
  /\ At(p, "export", "stored")
  /\ IF RowsAreThere(x)
     THEN /\ exports' = [exports EXCEPT ![x] = "succeeded"]
          /\ files' = IF exports[x] = "succeeded" THEN files
                      ELSE [files EXCEPT ![x].status = "confirmed"]
          /\ UNCHANGED <<objects, unsettled>>
     ELSE TakeBack(x) /\ UNCHANGED <<exports, files>>
  /\ End(p)
  /\ UNCHANGED <<urls, imports, account, candidates>>

-------------------------------------------------------------------------------
(* Deletion of a file and cleanup *)

\* delete_file deletes the object first.
DeleteObject(p, f) ==
  /\ account = "active"
  /\ HasRow(f)
  /\ Begin(p, "delete_file", f, "removed", None)
  /\ IF files[f].deleted THEN UNCHANGED <<objects, unsettled>> ELSE Remove({f})
  /\ UNCHANGED <<urls, files, imports, exports, account, candidates>>

DeleteFile(p) ==
  LET f == procs[p].file IN
  /\ At(p, "delete_file", "removed")
  /\ files' = IF HasRow(f) THEN [files EXCEPT ![f].status = "deleted", ![f].deleted = TRUE]
              ELSE files
  /\ End(p)
  /\ UNCHANGED <<urls, objects, imports, exports, account, candidates, unsettled>>

\* expires_at passes.
Expire(f) ==
  /\ Present(f) /\ ~files[f].expired
  /\ files' = [files EXCEPT ![f].expired = TRUE]
  /\ UNCHANGED <<urls, objects, imports, exports, account, candidates, procs, runs, unsettled>>

\* cleanup_expired_files marks what expired,
MarkExpired(p) ==
  LET due == {f \in Keys : Present(f) /\ files[f].expired} IN
  /\ due # {}
  /\ Begin(p, "cleanup", None, "marked", due)
  /\ files' = [f \in Keys |->
       IF f \in due THEN [files[f] EXCEPT !.status = "expired_cleanup"] ELSE files[f]]
  /\ UNCHANGED <<urls, objects, imports, exports, account, candidates, unsettled>>

\* deletes the objects,
RemoveExpired(p) ==
  /\ At(p, "cleanup", "marked")
  /\ Remove(procs[p].data)
  /\ Step(p, "removed")
  /\ UNCHANGED <<urls, files, imports, exports, account, candidates>>

\* Fault: what was marked is deleted, confirmed again or not.
EveryMarked(f) == Present(f)

\* and in a second transaction looks again at each row before it is deleted.
StillExpired(f) == Present(f) /\ files[f].expired /\ files[f].status = "expired_cleanup"

FinishCleanup(p) ==
  /\ At(p, "cleanup", "removed")
  /\ files' = [f \in Keys |->
       IF f \in procs[p].data /\ StillExpired(f) THEN [files[f] EXCEPT !.status = "deleted", !.deleted = TRUE]
       ELSE files[f]]
  /\ End(p)
  /\ UNCHANGED <<urls, objects, imports, exports, account, candidates, unsettled>>

-------------------------------------------------------------------------------
(* The export of the owner's data *)

\* export_data, unless its file is there already; it looks neither at the account nor at
\* the claim of its task, so a worker may come at any time.
ReadData(p, k) ==
  /\ ~(Present(k) /\ objects[k] # None)
  /\ Begin(p, "data", k, "rendered", None)
  /\ UNCHANGED <<urls, files, objects, imports, exports, account, candidates, unsettled>>

StoreData(p) ==
  /\ At(p, "data", "rendered")
  /\ Store(procs[p].file, Signed)
  /\ Step(p, "stored")
  /\ UNCHANGED <<urls, files, imports, exports, account, candidates>>

\* A new row or the one of an earlier attempt, also after the account was deleted.  If the
\* transaction fails, the object is deleted again, also one an earlier row refers to.
RecordData(p) ==
  LET k == procs[p].file IN
  /\ At(p, "data", "stored")
  /\ \/ /\ files' = [files EXCEPT ![k] = [NoRow EXCEPT !.status = "confirmed"]]
        /\ UNCHANGED <<objects, unsettled>>
     \/ Remove({k}) /\ UNCHANGED files
  /\ End(p)
  /\ UNCHANGED <<urls, imports, exports, account, candidates>>

-------------------------------------------------------------------------------
(* The deletion of the account *)

\* accept_deletion (Accounts)
AcceptDeletion ==
  /\ account = "active"
  /\ account' = "pending_deletion"
  /\ UNCHANGED <<urls, files, objects, imports, exports, candidates, procs, runs, unsettled>>

\* An analysis finds fact candidates (Intake); they are never deleted.
FindCandidates ==
  /\ account = "active" /\ ~candidates
  /\ candidates' = TRUE
  /\ UNCHANGED <<urls, files, objects, imports, exports, account, procs, runs, unsettled>>

\* The keys of every file row, deleted or not.
ListedKeys == {k \in Keys : HasRow(k)}

\* delete_account lists the objects; its task has one lease at a time here.
ListObjects(p) ==
  /\ account = "pending_deletion"
  /\ ~Deleting
  /\ Start(p, "delete", None, "listed", ListedKeys)
  /\ UNCHANGED <<urls, files, objects, imports, exports, account, candidates, runs, unsettled>>

RemoveObjects(p) ==
  /\ At(p, "delete", "listed")
  /\ Remove(procs[p].data)
  /\ Step(p, "removed")
  /\ UNCHANGED <<urls, files, imports, exports, account, candidates>>

\* All rows go in one transaction.  The foreign keys of fact_candidates
\* (db/models.py:357), which it leaves out, refuse it.
DeleteRows(p) ==
  /\ At(p, "delete", "removed")
  /\ IF candidates
     THEN UNCHANGED <<files, imports, exports, account>>
     ELSE /\ files' = [k \in Keys |-> NoRow]
          /\ imports' = [f \in Uploads |-> NoDraft]
          /\ exports' = [x \in Exports |-> "none"]
          /\ account' = "deleted"
  /\ End(p)
  /\ UNCHANGED <<urls, objects, candidates, unsettled>>

-------------------------------------------------------------------------------
\* A process dies between two of its transactions; its task is delivered again.
Die(p) ==
  /\ procs[p].pc # "idle"
  /\ Count
  /\ procs' = [procs EXCEPT ![p] = Free]
  /\ unsettled' = IF procs[p].pc = "stored" THEN unsettled \cup {procs[p].file} ELSE unsettled
  /\ UNCHANGED <<urls, files, objects, imports, exports, account, candidates>>

FilesInit ==
  /\ urls = {}
  /\ files = [k \in Keys |-> NoRow]
  /\ objects = [k \in Keys |-> None]
  /\ imports = [f \in Uploads |-> NoDraft]
  /\ exports = [x \in Exports |-> "none"]
  /\ account = "active"
  /\ candidates = FALSE
  /\ procs = [p \in Processes |-> Free]
  /\ runs = 0
  /\ unsettled = {}

UploadSteps ==
  \E f \in Uploads :
    \/ CreateUploadToken(f) \/ UrlExpires(f)
    \/ \E content \in Contents : Upload(f, content)
    \/ CreateImport(f) \/ ConfirmImport(f)
    \/ \E p \in Processes : FindUpload(p, f) \/ ReadImport(p, f)

DeletionSteps(p) == ListObjects(p) \/ RemoveObjects(p) \/ DeleteRows(p)

ProcessSteps(p) ==
  \/ ReadUpload(p) \/ RemoveMismatch(p) \/ ConfirmUpload(p)
  \/ \E status \in {"parsed", "needs_paste"} : RecordImport(p, status)
  \/ StoreExport(p) \/ RecordExport(p)
  \/ StoreData(p) \/ RecordData(p)
  \/ DeleteFile(p)
  \/ RemoveExpired(p) \/ FinishCleanup(p)

FilesNext ==
  \/ UploadSteps
  \/ \E x \in Exports : CreateExport(x) \/ \E p \in Processes : ReadExport(p, x)
  \/ \E f \in Keys : Expire(f) \/ \E p \in Processes : DeleteObject(p, f)
  \/ \E p \in Processes :
       \/ MarkExpired(p) \/ Die(p)
       \/ \E k \in DataExports : ReadData(p, k)
       \/ ProcessSteps(p) \/ DeletionSteps(p)
  \/ AcceptDeletion \/ FindCandidates

FilesSpec == FilesInit /\ [][FilesNext]_fileVars

\* The worker of the deletion goes on, and its task is delivered until it succeeds.
FilesFairSpec == FilesSpec /\ \A p \in Processes : WF_fileVars(ProcessSteps(p) \/ DeletionSteps(p))

-------------------------------------------------------------------------------
(* Properties *)

\* The rows have their types, and a row that refers to a file is not left without it.
FilesTypeOK ==
  /\ files \in [Keys -> FileRow]
  /\ imports \in [Uploads -> ImportRow]
  /\ exports \in [Exports -> ExportStatuses]
  /\ \A k \in Keys : files[k].deleted => files[k].status \in {"deleted", "confirmed"}
  /\ \A f \in Uploads : imports[f].status # "none" => HasRow(f)
  /\ \A x \in Exports : exports[x] # "none" <=> HasRow(x)
  /\ account \in {"active", "pending_deletion", "deleted"}

\* What was parsed stays as the owner saw it: a second worker that read the object before,
\* or after it was uploaded again, changes neither the text nor the status of an import
\* that is settled (imports/service.py:345).
ImportsSettle ==
  [][\A f \in Uploads :
       imports[f].status \in {"parsed", "needs_paste", "confirmed"} /\ HasRow(f)' =>
         /\ imports'[f].text = imports[f].text
         /\ imports'[f].status \in {imports[f].status, "confirmed"}]_fileVars

\* An import is confirmed into one resume.
OneResumePerImport ==
  \A f \in Uploads : imports[f].resumes = IF imports[f].status = "confirmed" THEN 1 ELSE 0

\* A confirmed upload and a finished export have their object, unless somebody set out to
\* remove it or the account was being deleted: no worker that comes late, retries or
\* loses its lease takes the object of another away (exports/service.py:226).
ObjectsAreThere ==
  \A k \in Uploads \cup Exports :
    files[k].status = "confirmed" /\ objects[k] = None => k \in unsettled

\* The rows of files, imports and exports and the stored objects agree.
FilesConsistent == FilesTypeOK /\ OneResumePerImport /\ ObjectsAreThere

\* An account that was deleted has no exported resume left, whenever the worker that made it
\* stored it, except while the account was being deleted (privacy/worker.py:133).  Exports
\* of its data are not meant: one that runs late stores its object and its row (ReadData).
ExportsAreErased ==
  account = "deleted" =>
    \A x \in Exports :
      objects[x] # None => x \in unsettled \/ \E p \in Processes : procs[p].file = x

\* A file is only marked deleted when its owner asked for it or it is expired, also when
\* it is confirmed again while the cleanup is at it (imports/service.py:758).
DeletedWhenDue ==
  [][\A k \in Keys :
       ~files[k].deleted /\ files'[k].deleted =>
         \/ files[k].expired /\ files[k].status = "expired_cleanup"
         \/ \E p \in Processes : At(p, "delete_file", "removed") /\ procs[p].file = k]_fileVars

\* A deletion that is accepted comes to its end (07-fastapi-business-backend.md:198).
DeletionCompletes == account = "pending_deletion" ~> account = "deleted"
==============================================================================
