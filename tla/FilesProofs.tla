------------------------------ MODULE FilesProofs ------------------------------
(***************************************************************************)
(* What holds of Files for every set of files, contents and processes.     *)
(* Each property relates what some process read in an earlier transaction  *)
(* to the rows and objects of now, so the invariant says for each process  *)
(* what it may still rely on (ProcFits), and the proof first shows which   *)
(* steps leave that alone (StepKeeps).                                     *)
(***************************************************************************)
EXTENDS Files, TLAPS

-------------------------------------------------------------------------------
(* The inductive invariant *)

\* The states of a process, by its job.
ProcRows ==
  {Free}
  \cup [job : {"confirm"}, file : Uploads, pc : {"found", "checked", "mismatch"}, data : {None}]
  \cup [job : {"import"}, file : Uploads, pc : {"parsed"}, data : Contents]
  \cup [job : {"export"}, file : Exports, pc : {"rendered", "stored"}, data : {None}]
  \cup [job : {"data"}, file : DataExports, pc : {"rendered", "stored"}, data : {None}]
  \cup [job : {"delete_file"}, file : Keys, pc : {"removed"}, data : {None}]
  \cup [job : {"cleanup"}, file : {None}, pc : {"marked", "removed"}, data : SUBSET Keys]
  \cup [job : {"delete"}, file : {None}, pc : {"listed", "removed"}, data : SUBSET Keys]

Typed ==
  /\ FilesTypeOK
  /\ objects \in [Keys -> Contents \cup {None}]
  /\ procs \in [Processes -> ProcRows]

\* A row of key k would have no object, and nobody set out to remove it.
Missing(k) == objects[k] = None /\ k \notin unsettled

\* An object that nobody set out to remove is there.
Loose(k) == objects[k] # None /\ k \notin unsettled

Does(row, job) == row.job = job /\ row.pc # "idle"

\* What the process may rely on: an export has its row until the account is deleted, an
\* upload that was looked at and an export that was stored have their objects, and
\* whatever the deletion of the account did not list, it finds settled.
ProcFits(row) ==
  /\ Does(row, "export") => HasRow(row.file) \/ account = "deleted"
  /\ Does(row, "confirm") /\ row.pc = "checked" => ~Missing(row.file)
  /\ Does(row, "export") /\ row.pc = "stored" => ~Missing(row.file) \/ account = "deleted"
  /\ Does(row, "delete") =>
       /\ account = "pending_deletion"
       /\ \A x \in Exports : Loose(x) => x \in row.data /\ row.pc = "listed"

OneDeletion ==
  \A p, q \in Processes : Does(procs[p], "delete") /\ Does(procs[q], "delete") => p = q

\* An account that was deleted has no rows of uploads and exports any more.
RowsAreGone == account = "deleted" => \A k \in Uploads \cup Exports : ~HasRow(k)

\* The object of an export belongs to its row, or to a process that comes too late and
\* will take it back.
ExportsAreAccounted ==
  \A x \in Exports :
    Loose(x) =>
      \/ HasRow(x)
      \/ account = "deleted" /\ \E p \in Processes : At(p, "export", "stored") /\ procs[p].file = x

FilesInv ==
  /\ Typed
  /\ OneResumePerImport
  /\ ObjectsAreThere
  /\ \A p \in Processes : ProcFits(procs[p])
  /\ OneDeletion
  /\ RowsAreGone
  /\ ExportsAreAccounted

LEMMA KeysAre ==
  /\ Uploads \subseteq Keys /\ Exports \subseteq Keys /\ DataExports \subseteq Keys
  /\ None \notin Keys /\ None \notin Contents
  /\ \A k \in DataExports : k \notin Uploads \cup Exports
  /\ \A f \in Uploads : f \notin Exports
  /\ Signed \in Contents
BY FilesAssumption DEF Keys, Signed

LEMMA RowTypes ==
  ASSUME FilesInv
  PROVE  /\ files \in [Keys -> FileRow] /\ imports \in [Uploads -> ImportRow]
         /\ exports \in [Exports -> ExportStatuses]
         /\ objects \in [Keys -> Contents \cup {None}] /\ procs \in [Processes -> ProcRows]
         /\ account \in {"active", "pending_deletion", "deleted"}
         /\ \A p \in Processes : procs[p] \in ProcRows /\ ProcFits(procs[p])
         /\ \A x \in Exports : exports[x] # "none" <=> HasRow(x)
BY DEF FilesInv, Typed, FilesTypeOK

\* What a process works on, by its job.
LEMMA JobOf ==
  ASSUME FilesInv, NEW p \in Processes
  PROVE  /\ At(p, "confirm", "found") \/ At(p, "confirm", "checked") \/ At(p, "confirm", "mismatch")
              => procs[p].file \in Uploads /\ Does(procs[p], "confirm")
         /\ At(p, "import", "parsed")
              => procs[p].file \in Uploads /\ procs[p].data \in Contents
         /\ At(p, "export", "rendered") \/ At(p, "export", "stored")
              => procs[p].file \in Exports /\ Does(procs[p], "export")
         /\ At(p, "data", "rendered") \/ At(p, "data", "stored") => procs[p].file \in DataExports
         /\ At(p, "delete_file", "removed") => procs[p].file \in Keys
         /\ At(p, "cleanup", "marked") \/ At(p, "cleanup", "removed") => procs[p].data \subseteq Keys
         /\ At(p, "delete", "listed") \/ At(p, "delete", "removed")
              => procs[p].data \subseteq Keys /\ Does(procs[p], "delete")
<1>1. procs[p] \in ProcRows
  BY RowTypes
<1> QED  BY <1>1 DEF ProcRows, At, Does, Free

-------------------------------------------------------------------------------
(* Objects *)

\* What a step does to the objects: it loses none without a reason, and adds none that a
\* deletion of the account would not know of.
ObjectsKept ==
  /\ objects' \in [Keys -> Contents \cup {None}]
  /\ \A k \in Keys : Missing(k)' => Missing(k)
  /\ Deleting => \A k \in Keys : Loose(k)' => Loose(k)

LEMMA NoObjectChanges ==
  ASSUME FilesInv, UNCHANGED <<objects, unsettled>>
  PROVE  ObjectsKept /\ \A k \in Keys : Loose(k)' => Loose(k)
BY RowTypes DEF ObjectsKept, Missing, Loose

LEMMA StoreKeeps ==
  ASSUME FilesInv, NEW k \in Keys, NEW content \in Contents, Store(k, content)
  PROVE  ObjectsKept /\ ~Missing(k)' /\ \A j \in Keys \ {k} : Loose(j)' => Loose(j)
<1>1. objects \in [Keys -> Contents \cup {None}] /\ None \notin Contents
  BY RowTypes, KeysAre
<1>2. objects' = [objects EXCEPT ![k] = content]
      /\ unsettled' = IF Deleting THEN unsettled \cup {k} ELSE unsettled \ {k}
  BY DEF Store
<1>3. objects'[k] = content /\ \A j \in Keys \ {k} : objects'[j] = objects[j]
  BY <1>1, <1>2
<1> QED  BY <1>1, <1>2, <1>3 DEF ObjectsKept, Missing, Loose

LEMMA RemoveKeeps ==
  ASSUME FilesInv, NEW keys, Remove(keys)
  PROVE  ObjectsKept /\ \A k \in Keys : Loose(k)' => Loose(k) /\ k \notin keys
<1>1. objects \in [Keys -> Contents \cup {None}]
  BY RowTypes
<1>2. objects' = [k \in Keys |-> IF k \in keys THEN None ELSE objects[k]]
      /\ unsettled' = unsettled \cup keys
  BY DEF Remove
<1>3. \A k \in Keys : objects'[k] = IF k \in keys THEN None ELSE objects[k]
  BY <1>2
<1>4. objects' \in [Keys -> Contents \cup {None}]
  BY <1>1, <1>2
<1> QED  BY <1>2, <1>3, <1>4 DEF ObjectsKept, Missing, Loose

-------------------------------------------------------------------------------
(* Processes *)

\* What every step leaves alone of what processes rely on.
Keeps ==
  /\ account = "deleted" => account' = "deleted"
  /\ account # "active" => account' # "active"
  /\ \A x \in Exports : HasRow(x) => HasRow(x)' \/ account' = "deleted"
  /\ \A k \in Uploads \cup Exports :
       Missing(k)' => Missing(k) \/ (k \in Exports /\ account' = "deleted")
  /\ Deleting => \A x \in Exports : Loose(x)' => Loose(x)

LEMMA DoesIsDeleting ==
  ASSUME FilesInv, NEW p \in Processes, Does(procs[p], "delete")
  PROVE  Deleting
BY DEF Deleting, Does

\* A process that a step leaves alone relies on what it did before.
LEMMA ProcKept ==
  ASSUME FilesInv, Keeps, account' \in {"active", "pending_deletion", "deleted"},
         NEW p \in Processes, procs'[p] = procs[p],
         Does(procs[p], "delete") => account' = "pending_deletion"
  PROVE  ProcFits(procs[p])'
<1>1. procs[p] \in ProcRows /\ ProcFits(procs[p])
  BY RowTypes
<1>2. /\ Does(procs[p], "export") => procs[p].file \in Exports
      /\ Does(procs[p], "confirm") => procs[p].file \in Uploads
  BY <1>1 DEF ProcRows, Does, Free
<1>3. Does(procs[p], "delete") => Deleting
  BY DoesIsDeleting
<1>4. Does(procs[p], "export") => HasRow(procs[p].file)' \/ account' = "deleted"
  BY <1>1, <1>2 DEF ProcFits, Keeps
<1>5. Does(procs[p], "confirm") /\ procs[p].pc = "checked" => ~Missing(procs[p].file)'
  <2> SUFFICES ASSUME Does(procs[p], "confirm"), procs[p].pc = "checked"
               PROVE  ~Missing(procs[p].file)'
    OBVIOUS
  <2> DEFINE f == procs[p].file
  <2>1. ~Missing(f) /\ f \in Uploads /\ f \notin Exports
    BY <1>1, <1>2, KeysAre DEF ProcFits
  <2> QED  BY <2>1 DEF Keeps, Missing
<1>6. Does(procs[p], "export") /\ procs[p].pc = "stored"
        => ~Missing(procs[p].file)' \/ account' = "deleted"
  BY <1>1, <1>2 DEF ProcFits, Keeps, Missing
<1>7. Does(procs[p], "delete")
        => \A x \in Exports : Loose(x)' => x \in procs[p].data /\ procs[p].pc = "listed"
  BY <1>1, <1>3 DEF ProcFits, Keeps
<1> QED
  BY <1>4, <1>5, <1>6, <1>7 DEF ProcFits, Does, Missing, Loose, HasRow

\* A step of one process, which is then in state row.
Becomes(p, row) == procs' = [procs EXCEPT ![p] = row]

\* At most one process deletes the account: another one begins when there is none.
LEMMA ProcStep ==
  ASSUME FilesInv, Keeps, account' \in {"active", "pending_deletion", "deleted"},
         NEW p \in Processes, NEW row \in ProcRows, Becomes(p, row),
         ProcFits(procs[p])',
         Does(row, "delete") => Does(procs[p], "delete") \/ ~Deleting,
         account' = account \/ Does(procs[p], "delete") \/ account = "active"
  PROVE  /\ procs' \in [Processes -> ProcRows]
         /\ \A q \in Processes : ProcFits(procs[q])'
         /\ OneDeletion'
<1>1. procs \in [Processes -> ProcRows] /\ \A q \in Processes : ProcFits(procs[q])
  BY RowTypes
<1>2. procs' \in [Processes -> ProcRows]
      /\ \A q \in Processes : procs'[q] = IF q = p THEN row ELSE procs[q]
  BY <1>1 DEF Becomes
<1>3. OneDeletion /\ \A q \in Processes : Does(procs[q], "delete") => Deleting
  BY DoesIsDeleting DEF FilesInv
<1>4. ASSUME NEW q \in Processes \ {p}
      PROVE  ProcFits(procs[q])'
  <2>1. procs'[q] = procs[q]
    BY <1>2
  <2>2. Does(procs[q], "delete") => account = "pending_deletion"
    BY <1>1 DEF ProcFits
  <2>3. Does(procs[q], "delete") => ~Does(procs[p], "delete")
    BY <1>3 DEF OneDeletion
  <2>4. Does(procs[q], "delete") => account' = "pending_deletion"
    BY <2>2, <2>3
  <2> QED  BY <2>1, <2>4, ProcKept
<1>5. OneDeletion'
  BY <1>2, <1>3 DEF OneDeletion, Does
<1> QED  BY <1>2, <1>4, <1>5

\* A step of the owner, who is no process.
LEMMA OwnerStep ==
  ASSUME FilesInv, Keeps, account' \in {"active", "pending_deletion", "deleted"},
         UNCHANGED procs, account' = account \/ account = "active"
  PROVE  /\ procs' \in [Processes -> ProcRows]
         /\ \A q \in Processes : ProcFits(procs[q])'
         /\ OneDeletion'
<1>1. procs \in [Processes -> ProcRows] /\ \A q \in Processes : ProcFits(procs[q])
  BY RowTypes
<1>2. ASSUME NEW q \in Processes
      PROVE  ProcFits(procs[q])'
  <2>1. Does(procs[q], "delete") => account' = "pending_deletion"
    BY <1>1 DEF ProcFits
  <2> QED  BY <2>1, ProcKept
<1>3. OneDeletion'
  BY DEF FilesInv, OneDeletion, Does
<1> QED  BY <1>1, <1>2, <1>3

LEMMA StartIs ==
  ASSUME FilesInv, NEW p \in Processes, NEW job, NEW k, NEW pc, NEW data,
         Start(p, job, k, pc, data)
  PROVE  /\ Becomes(p, [job |-> job, file |-> k, pc |-> pc, data |-> data])
         /\ procs'[p] = [job |-> job, file |-> k, pc |-> pc, data |-> data]
         /\ ~\E name : Does(procs[p], name)
BY RowTypes DEF Start, Becomes, Does

LEMMA EndIs ==
  ASSUME FilesInv, NEW p \in Processes, procs' = [procs EXCEPT ![p] = Free]
  PROVE  /\ Becomes(p, Free) /\ procs'[p] = Free /\ Free \in ProcRows
         /\ ~\E name : Does(Free, name)
         /\ ProcFits(procs[p])'
<1>1. procs'[p] = Free
  BY RowTypes
<1> QED  BY <1>1 DEF Becomes, Does, Free, ProcFits, ProcRows

LEMMA StepIs ==
  ASSUME FilesInv, NEW p \in Processes, NEW pc, Step(p, pc)
  PROVE  /\ Becomes(p, [procs[p] EXCEPT !.pc = pc])
         /\ procs'[p] = [procs[p] EXCEPT !.pc = pc]
BY RowTypes DEF Step, Becomes

-------------------------------------------------------------------------------
(* Rows *)

\* The rows of files, when only these change: they keep their types, none comes or goes,
\* and one that becomes confirmed has its object.
FilesKept ==
  /\ files' \in [Keys -> FileRow]
  /\ \A k \in Keys : HasRow(k)' <=> HasRow(k)
  /\ \A k \in Keys : files'[k].deleted => files'[k].status \in {"deleted", "confirmed"}
  /\ \A k \in Uploads \cup Exports :
       files'[k].status = "confirmed" => files[k].status = "confirmed" \/ ~Missing(k)'

RowsFit == FilesTypeOK /\ OneResumePerImport /\ ObjectsAreThere /\ RowsAreGone

LEMMA FilesKeptStep ==
  ASSUME FilesInv, FilesKept, UNCHANGED <<imports, account>>,
         exports' \in [Exports -> ExportStatuses],
         \A x \in Exports : exports'[x] # "none" <=> exports[x] # "none",
         \A k \in Uploads \cup Exports : Missing(k)' => Missing(k)
  PROVE  RowsFit'
<1>1. /\ FilesTypeOK /\ OneResumePerImport /\ RowsAreGone
      /\ \A k \in Uploads \cup Exports : files[k].status = "confirmed" => ~Missing(k)
  BY DEF FilesInv, Typed, ObjectsAreThere, Missing
<1>2. FilesTypeOK'
  BY <1>1, KeysAre DEF FilesTypeOK, FilesKept, HasRow
<1>3. OneResumePerImport'
  BY <1>1 DEF OneResumePerImport
<1>4. RowsAreGone'
  BY <1>1, KeysAre DEF RowsAreGone, FilesKept, HasRow
<1>5. \A k \in Uploads \cup Exports : files'[k].status = "confirmed" => ~Missing(k)'
  BY <1>1 DEF FilesKept
<1>6. ObjectsAreThere'
  BY <1>5 DEF ObjectsAreThere, Missing
<1> QED  BY <1>2, <1>3, <1>4, <1>6 DEF RowsFit

\* The imports, when only these change.
LEMMA ImportsStep ==
  ASSUME FilesInv, UNCHANGED <<files, exports, account, objects, unsettled>>,
         imports' \in [Uploads -> ImportRow],
         \A f \in Uploads : imports'[f].status # "none" => HasRow(f),
         \A f \in Uploads : imports'[f].resumes = IF imports'[f].status = "confirmed" THEN 1 ELSE 0
  PROVE  RowsFit'
BY DEF FilesInv, Typed, FilesTypeOK, OneResumePerImport, ObjectsAreThere, RowsAreGone, HasRow,
       RowsFit

\* No row changes.
LEMMA NoRowStep ==
  ASSUME FilesInv, UNCHANGED <<files, imports, exports>>,
         account' \in {account, "pending_deletion"},
         \A k \in Uploads \cup Exports :
           Missing(k)' => Missing(k) \/ (account = "deleted" /\ k \in Exports)
  PROVE  RowsFit'
<1>1. /\ FilesTypeOK /\ OneResumePerImport /\ RowsAreGone
      /\ \A k \in Uploads \cup Exports : files[k].status = "confirmed" => ~Missing(k)
  BY DEF FilesInv, Typed, ObjectsAreThere, Missing
<1>2. FilesTypeOK' /\ OneResumePerImport' /\ RowsAreGone'
  BY <1>1 DEF FilesTypeOK, OneResumePerImport, RowsAreGone, HasRow
<1>3. \A k \in Uploads \cup Exports : files'[k].status = "confirmed" => ~Missing(k)'
  BY <1>1 DEF RowsAreGone, HasRow
<1>4. ObjectsAreThere'
  BY <1>3 DEF ObjectsAreThere, Missing
<1> QED  BY <1>2, <1>4 DEF RowsFit

LEMMA KeepsWhen ==
  ASSUME ObjectsKept, account' = account \/ account = "active",
         \A x \in Exports : HasRow(x) => HasRow(x)'
  PROVE  Keeps
BY KeysAre DEF Keeps, ObjectsKept

-------------------------------------------------------------------------------
(* The invariant, put together *)

LEMMA AccountIs ==
  ASSUME RowsFit'
  PROVE  account' \in {"active", "pending_deletion", "deleted"}
BY DEF RowsFit, FilesTypeOK

\* A step of the owner.
LEMMA OwnerKeepsInv ==
  ASSUME FilesInv, UNCHANGED procs, ObjectsKept, RowsFit',
         account' = account \/ account = "active",
         \A x \in Exports : HasRow(x) => HasRow(x)',
         \A x \in Exports : Loose(x)' => Loose(x)
  PROVE  FilesInv'
<1>1. Keeps
  BY KeepsWhen
<1>2. /\ procs' \in [Processes -> ProcRows]
      /\ \A q \in Processes : ProcFits(procs[q])'
      /\ OneDeletion'
  BY <1>1, AccountIs, OwnerStep
<1>3. objects' \in [Keys -> Contents \cup {None}]
  BY DEF ObjectsKept
<1>4. ExportsAreAccounted'
  <2> SUFFICES ASSUME NEW x \in Exports, Loose(x)', ~HasRow(x)'
               PROVE  account' = "deleted"
                      /\ \E p \in Processes : At(p, "export", "stored")' /\ procs'[p].file = x
    BY DEF ExportsAreAccounted
  <2>1. Loose(x) /\ ~HasRow(x)
    OBVIOUS
  <2>2. account = "deleted" /\ \E p \in Processes : At(p, "export", "stored") /\ procs[p].file = x
    BY <2>1 DEF FilesInv, ExportsAreAccounted
  <2> QED  BY <2>2 DEF At
<1> QED  BY <1>2, <1>3, <1>4 DEF RowsFit, FilesInv, Typed

\* A step of a process, unless it is the one that deletes the rows.  An export that it ends
\* was not left behind.
LEMMA ProcessKeepsInv ==
  ASSUME FilesInv, NEW p \in Processes, NEW row \in ProcRows, Becomes(p, row),
         ProcFits(procs[p])', RowsFit', UNCHANGED account,
         Does(row, "delete") => Does(procs[p], "delete") \/ ~Deleting,
         Keeps, objects' \in [Keys -> Contents \cup {None}],
         \A x \in Exports : HasRow(x) => HasRow(x)',
         \A x \in Exports :
           Loose(x)' => \/ Loose(x) \/ HasRow(x)
                        \/ account = "deleted" /\ row.job = "export" /\ row.pc = "stored"
                           /\ row.file = x,
         \A x \in Exports :
           At(p, "export", "stored") /\ procs[p].file = x => HasRow(x)' \/ ~Loose(x)'
  PROVE  FilesInv'
<1>1. /\ procs' \in [Processes -> ProcRows]
      /\ \A q \in Processes : ProcFits(procs[q])'
      /\ OneDeletion'
  BY AccountIs, ProcStep
<1>2. \A q \in Processes \ {p} : procs'[q] = procs[q]
  BY RowTypes DEF Becomes
<1>3. ExportsAreAccounted'
  <2> SUFFICES ASSUME NEW x \in Exports, Loose(x)', ~HasRow(x)'
               PROVE  account' = "deleted"
                      /\ \E q \in Processes : At(q, "export", "stored")' /\ procs'[q].file = x
    BY DEF ExportsAreAccounted
  <2>1. ~HasRow(x)
    OBVIOUS
  <2>2. CASE Loose(x)
    <3>1. PICK q \in Processes :
            account = "deleted" /\ At(q, "export", "stored") /\ procs[q].file = x
      BY <2>1, <2>2 DEF FilesInv, ExportsAreAccounted
    <3>2. q # p
      BY <3>1
    <3>3. procs'[q] = procs[q]
      BY <1>2, <3>2
    <3> QED  BY <3>1, <3>3 DEF At
  <2>3. CASE account = "deleted" /\ row.job = "export" /\ row.pc = "stored" /\ row.file = x
    <3>1. procs'[p] = row
      BY RowTypes DEF Becomes
    <3> QED  BY <2>3, <3>1 DEF At
  <2> QED  BY <2>1, <2>2, <2>3
<1> QED  BY <1>1, <1>3 DEF RowsFit, FilesInv, Typed

-------------------------------------------------------------------------------
(* The steps of the owner *)

LEMMA NewRow ==
  NoRow \in FileRow /\ \A st \in {"pending_upload", "pending_generation", "confirmed"} :
    LET row == [NoRow EXCEPT !.status = st] IN
    row \in FileRow /\ row.status = st /\ ~row.deleted
BY DEF NoRow, FileRow

LEMMA CreateUploadTokenKeeps ==
  ASSUME FilesInv, NEW f \in Uploads, CreateUploadToken(f)
  PROVE  FilesInv'
<1> DEFINE row == [NoRow EXCEPT !.status = "pending_upload"]
<1>1. row \in FileRow /\ row.status = "pending_upload" /\ ~row.deleted
  BY NewRow
<1>2. files' = [files EXCEPT ![f] = row] /\ account = "active"
      /\ UNCHANGED <<objects, imports, exports, account, procs, unsettled>>
  BY DEF CreateUploadToken
<1> HIDE DEF row
<1>3. f \in Keys /\ f \notin Exports
  BY KeysAre
<1>4. files' \in [Keys -> FileRow] /\ \A k \in Keys : files'[k] = IF k = f THEN row ELSE files[k]
  BY <1>1, <1>2, <1>3, RowTypes
<1>5. RowsFit'
  <2>1. /\ FilesTypeOK /\ OneResumePerImport /\ ObjectsAreThere
    BY DEF FilesInv, Typed
  <2>2. FilesTypeOK'
    BY <1>1, <1>2, <1>3, <1>4, <2>1, KeysAre DEF FilesTypeOK, HasRow
  <2>3. OneResumePerImport' /\ RowsAreGone'
    BY <1>2, <2>1 DEF OneResumePerImport, RowsAreGone
  <2>4. ObjectsAreThere'
    BY <1>1, <1>2, <1>4, <2>1, KeysAre DEF ObjectsAreThere
  <2> QED  BY <2>2, <2>3, <2>4 DEF RowsFit
<1>6. \A x \in Exports : HasRow(x) => HasRow(x)'
  BY <1>3, <1>4, KeysAre DEF HasRow
<1> QED  BY <1>2, <1>5, <1>6, NoObjectChanges, OwnerKeepsInv, KeysAre

LEMMA CreateExportKeeps ==
  ASSUME FilesInv, NEW x \in Exports, CreateExport(x)
  PROVE  FilesInv'
<1> DEFINE row == [NoRow EXCEPT !.status = "pending_generation"]
<1>1. row \in FileRow /\ row.status = "pending_generation" /\ ~row.deleted
  BY NewRow
<1>2. files' = [files EXCEPT ![x] = row] /\ account = "active"
      /\ exports' = [exports EXCEPT ![x] = "queued"]
      /\ UNCHANGED <<objects, imports, account, procs, unsettled>>
  BY DEF CreateExport
<1> HIDE DEF row
<1>3. x \in Keys /\ x \notin Uploads
  BY KeysAre
<1>4. files' \in [Keys -> FileRow] /\ \A k \in Keys : files'[k] = IF k = x THEN row ELSE files[k]
  BY <1>1, <1>2, <1>3, RowTypes
<1>5. exports' \in [Exports -> ExportStatuses]
      /\ \A y \in Exports : exports'[y] = IF y = x THEN "queued" ELSE exports[y]
  BY <1>2, RowTypes DEF ExportStatuses
<1>6. RowsFit'
  <2>1. FilesTypeOK /\ OneResumePerImport /\ ObjectsAreThere
    BY DEF FilesInv, Typed
  <2>2. FilesTypeOK'
    BY <1>1, <1>2, <1>3, <1>4, <1>5, <2>1, KeysAre DEF FilesTypeOK, HasRow
  <2>3. OneResumePerImport' /\ RowsAreGone'
    BY <1>2, <2>1 DEF OneResumePerImport, RowsAreGone
  <2>4. ObjectsAreThere'
    BY <1>1, <1>2, <1>4, <2>1, KeysAre DEF ObjectsAreThere
  <2> QED  BY <2>2, <2>3, <2>4 DEF RowsFit
<1>7. \A y \in Exports : HasRow(y) => HasRow(y)'
  BY <1>1, <1>4, KeysAre DEF HasRow
<1> QED  BY <1>2, <1>6, <1>7, NoObjectChanges, OwnerKeepsInv, KeysAre

LEMMA UrlExpiresKeeps ==
  ASSUME FilesInv, NEW f \in Uploads, UrlExpires(f)
  PROVE  FilesInv'
<1>1. UNCHANGED <<files, objects, imports, exports, account, procs, unsettled>>
  BY DEF UrlExpires
<1>2. RowsFit'
  BY <1>1, NoRowStep, NoObjectChanges, KeysAre DEF ObjectsKept
<1> QED  BY <1>1, <1>2, NoObjectChanges, OwnerKeepsInv, KeysAre DEF HasRow

LEMMA UploadKeeps ==
  ASSUME FilesInv, NEW f \in Uploads, NEW content \in Contents, Upload(f, content)
  PROVE  FilesInv'
<1>1. f \in Keys /\ f \notin Exports /\ Store(f, content)
      /\ UNCHANGED <<files, imports, exports, account, procs>>
  BY KeysAre DEF Upload
<1>2. ObjectsKept /\ \A j \in Keys \ {f} : Loose(j)' => Loose(j)
  BY <1>1, StoreKeeps
<1>3. RowsFit'
  BY <1>1, <1>2, NoRowStep, KeysAre DEF ObjectsKept
<1>4. \A x \in Exports : (HasRow(x) => HasRow(x)') /\ (Loose(x)' => Loose(x))
  BY <1>1, <1>2, KeysAre DEF HasRow
<1> QED  BY <1>1, <1>2, <1>3, <1>4, OwnerKeepsInv

LEMMA ImportKeeps ==
  ASSUME FilesInv, NEW f \in Uploads, CreateImport(f) \/ ConfirmImport(f)
  PROVE  FilesInv'
<1>1. imports \in [Uploads -> ImportRow] /\ OneResumePerImport
      /\ \A g \in Uploads : imports[g].status # "none" => HasRow(g)
  BY DEF FilesInv, Typed, FilesTypeOK
<1>2. UNCHANGED <<files, objects, exports, account, procs, unsettled>>
  BY DEF CreateImport, ConfirmImport
<1>3. \A g \in Uploads : imports[g] \in ImportRow
        /\ imports[g].resumes = IF imports[g].status = "confirmed" THEN 1 ELSE 0
  BY <1>1 DEF OneResumePerImport
<1>4. RowsFit'
  <2>1. CASE CreateImport(f)
    <3> DEFINE row == [imports[f] EXCEPT !.status = "queued"]
    <3>1. imports' = [imports EXCEPT ![f] = row] /\ HasRow(f) /\ imports[f].status = "none"
      BY <2>1 DEF CreateImport, Present
    <3>2. row \in ImportRow /\ row.status = "queued" /\ row.resumes = 0
      BY <1>3, <3>1 DEF ImportRow
    <3> HIDE DEF row
    <3> QED  BY <1>1, <1>2, <1>3, <3>1, <3>2, ImportsStep
  <2>2. CASE ConfirmImport(f)
    <3> DEFINE row == [imports[f] EXCEPT !.status = "confirmed", !.resumes = 1]
    <3>1. imports[f].status \in {"parsed", "needs_paste"} /\ HasRow(f)
      BY <1>1, <2>2 DEF ConfirmImport, Confirmable
    <3>2. imports[f].resumes = 0
      BY <1>3, <3>1
    <3>3. imports' = [imports EXCEPT ![f] =
                        [imports[f] EXCEPT !.status = "confirmed", !.resumes = 0 + 1]]
      BY <1>1, <2>2, <3>2 DEF ConfirmImport
    <3>4. imports' = [imports EXCEPT ![f] = row]
          /\ imports[f].status \in {"parsed", "needs_paste"} /\ HasRow(f)
      BY <3>1, <3>3
    <3>5. imports[f] \in ImportRow /\ 1 \in 0..1
      BY <1>3
    <3>6. row \in ImportRow /\ row.status = "confirmed" /\ row.resumes = 1
      BY <3>5 DEF ImportRow
    <3> HIDE DEF row
    <3> QED  BY <1>1, <1>2, <1>3, <3>4, <3>6, ImportsStep
  <2> QED  BY <2>1, <2>2
<1>5. \A x \in Exports : HasRow(x) => HasRow(x)'
  BY <1>2 DEF HasRow
<1> QED  BY <1>2, <1>4, <1>5, NoObjectChanges, OwnerKeepsInv, KeysAre

LEMMA ExpireKeeps ==
  ASSUME FilesInv, NEW f \in Keys, Expire(f)
  PROVE  FilesInv'
<1>1. FilesTypeOK /\ files \in [Keys -> FileRow]
  BY DEF FilesInv, Typed, FilesTypeOK
<1>2. files' = [files EXCEPT ![f] = [files[f] EXCEPT !.expired = TRUE]]
      /\ UNCHANGED <<objects, imports, exports, account, procs, unsettled>>
  BY DEF Expire
<1>3. files' \in [Keys -> FileRow]
      /\ \A k \in Keys : files'[k].status = files[k].status /\ files'[k].deleted = files[k].deleted
  BY <1>1, <1>2 DEF FileRow
<1>4. FilesKept
  BY <1>1, <1>3, KeysAre DEF FilesKept, FilesTypeOK, HasRow
<1>5. RowsFit'
  BY <1>2, <1>4, FilesKeptStep, NoObjectChanges, RowTypes, KeysAre DEF ObjectsKept
<1> QED  BY <1>2, <1>4, <1>5, NoObjectChanges, OwnerKeepsInv, KeysAre DEF FilesKept

LEMMA AccountKeeps ==
  ASSUME FilesInv, AcceptDeletion \/ FindCandidates
  PROVE  FilesInv'
<1>1. UNCHANGED <<files, objects, imports, exports, procs, unsettled>>
      /\ account' \in {account, "pending_deletion"}
      /\ (account' = account \/ account = "active")
  BY DEF AcceptDeletion, FindCandidates
<1>2. RowsFit'
  BY <1>1, NoRowStep, NoObjectChanges, KeysAre DEF ObjectsKept
<1> QED  BY <1>1, <1>2, NoObjectChanges, OwnerKeepsInv, KeysAre DEF HasRow

-------------------------------------------------------------------------------
(* The steps of the processes *)

\* A process that reads and touches nothing else.
LEMMA ReaderKeeps ==
  ASSUME FilesInv, NEW p \in Processes, NEW row \in ProcRows, Becomes(p, row),
         UNCHANGED <<files, objects, imports, exports, account, unsettled>>,
         ProcFits(procs[p])', ~At(p, "export", "stored"),
         Does(row, "delete") => Does(procs[p], "delete") \/ ~Deleting
  PROVE  FilesInv'
<1>1. RowsFit' /\ ObjectsKept /\ \A k \in Keys : Loose(k)' => Loose(k)
  BY NoRowStep, NoObjectChanges, KeysAre DEF ObjectsKept
<1>2. \A x \in Exports : HasRow(x) => HasRow(x)'
  BY DEF HasRow
<1> QED  BY <1>1, <1>2, KeepsWhen, ProcessKeepsInv, KeysAre DEF ObjectsKept

\* confirm_upload begins with its row; what it then finds, it may rely on if it is checked.
LEMMA FindUploadKeeps ==
  ASSUME FilesInv, NEW p \in Processes, NEW f \in Uploads, FindUpload(p, f)
  PROVE  FilesInv'
<1> DEFINE row == [job |-> "confirm", file |-> f, pc |-> "found", data |-> None]
<1>1. Start(p, "confirm", f, "found", None)
      /\ UNCHANGED <<files, objects, imports, exports, account, unsettled>>
  BY DEF FindUpload, Begin
<1>2. row \in ProcRows /\ ~Does(row, "delete")
  BY DEF ProcRows, Does
<1>3. Becomes(p, row) /\ procs'[p] = row /\ ~At(p, "export", "stored")
  BY <1>1, StartIs DEF At, Does
<1>4. ProcFits(procs[p])'
  BY <1>3 DEF ProcFits, Does
<1> HIDE DEF row
<1> QED  BY <1>1, <1>2, <1>3, <1>4, ReaderKeeps

LEMMA ReadUploadKeeps ==
  ASSUME FilesInv, NEW p \in Processes, ReadUpload(p)
  PROVE  FilesInv'
<1>1. PICK f \in Uploads :
        /\ f = procs[p].file
        /\ At(p, "confirm", "found") /\ ~At(p, "export", "stored")
        /\ UNCHANGED <<files, objects, imports, exports, account, unsettled>>
  BY JobOf DEF ReadUpload, At
<1>2. /\ procs[p] \in ProcRows /\ procs[p].job = "confirm" /\ procs[p].pc = "found"
      /\ f \in Keys
  BY <1>1, RowTypes, KeysAre DEF At
<1>3. CASE End(p)
  <2>1. Becomes(p, Free) /\ Free \in ProcRows /\ ~Does(Free, "delete") /\ ProcFits(procs[p])'
    BY <1>3, EndIs DEF End
  <2> QED  BY <1>1, <2>1, ReaderKeeps
<1>4. ASSUME NEW pc \in {"checked", "mismatch"}, Step(p, pc), pc = "checked" => objects[f] = Signed
      PROVE  FilesInv'
  <2> DEFINE row == [procs[p] EXCEPT !.pc = pc]
  <2>1. row \in ProcRows /\ row.job = "confirm" /\ row.pc = pc /\ row.file = f
    BY <1>1, <1>2 DEF ProcRows, Free
  <2>2. Becomes(p, row) /\ procs'[p] = row
    BY <1>4, StepIs
  <2>3. pc = "checked" => ~Missing(f)'
    BY <1>1, <1>2, <1>4, KeysAre DEF Missing
  <2> HIDE DEF row
  <2>4. ProcFits(procs[p])' /\ ~Does(row, "delete")
    BY <2>1, <2>2, <2>3 DEF ProcFits, Does, Missing
  <2> QED  BY <1>1, <2>1, <2>2, <2>4, ReaderKeeps
<1> QED  BY <1>1, <1>3, <1>4 DEF ReadUpload

LEMMA ReadImportKeeps ==
  ASSUME FilesInv, NEW p \in Processes, NEW f \in Uploads, ReadImport(p, f)
  PROVE  FilesInv'
<1> DEFINE row == [job |-> "import", file |-> f, pc |-> "parsed", data |-> objects[f]]
<1>1. Start(p, "import", f, "parsed", objects[f]) /\ objects[f] \in Contents
      /\ UNCHANGED <<files, objects, imports, exports, account, unsettled>>
  BY RowTypes, KeysAre DEF ReadImport, Begin
<1>2. row \in ProcRows /\ ~Does(row, "delete")
  BY <1>1 DEF ProcRows, Does
<1>3. Becomes(p, row) /\ procs'[p] = row /\ ~At(p, "export", "stored")
  BY <1>1, StartIs DEF At, Does
<1>4. ProcFits(procs[p])'
  BY <1>3 DEF ProcFits, Does
<1> HIDE DEF row
<1> QED  BY <1>1, <1>2, <1>3, <1>4, ReaderKeeps

LEMMA ReadExportKeeps ==
  ASSUME FilesInv, NEW p \in Processes, NEW x \in Exports, ReadExport(p, x)
  PROVE  FilesInv'
<1> DEFINE row == [job |-> "export", file |-> x, pc |-> "rendered", data |-> None]
<1>1. Start(p, "export", x, "rendered", None) /\ HasRow(x)
      /\ UNCHANGED <<files, objects, imports, exports, account, unsettled>>
  BY DEF ReadExport, Begin, Present
<1>2. row \in ProcRows /\ ~Does(row, "delete")
  BY DEF ProcRows, Does
<1>3. Becomes(p, row) /\ procs'[p] = row /\ ~At(p, "export", "stored")
  BY <1>1, StartIs DEF At, Does
<1>4. ProcFits(procs[p])'
  BY <1>1, <1>3 DEF ProcFits, Does, HasRow
<1> HIDE DEF row
<1> QED  BY <1>1, <1>2, <1>3, <1>4, ReaderKeeps

LEMMA ReadDataKeeps ==
  ASSUME FilesInv, NEW p \in Processes, NEW k \in DataExports, ReadData(p, k)
  PROVE  FilesInv'
<1> DEFINE row == [job |-> "data", file |-> k, pc |-> "rendered", data |-> None]
<1>1. Start(p, "data", k, "rendered", None)
      /\ UNCHANGED <<files, objects, imports, exports, account, unsettled>>
  BY DEF ReadData, Begin
<1>2. row \in ProcRows /\ ~Does(row, "delete")
  BY DEF ProcRows, Does
<1>3. Becomes(p, row) /\ procs'[p] = row /\ ~At(p, "export", "stored")
  BY <1>1, StartIs DEF At, Does
<1>4. ProcFits(procs[p])'
  BY <1>3 DEF ProcFits, Does
<1> HIDE DEF row
<1> QED  BY <1>1, <1>2, <1>3, <1>4, ReaderKeeps

\* delete_account lists every key of a row: an export that is loose has one.
LEMMA ListObjectsKeeps ==
  ASSUME FilesInv, NEW p \in Processes, ListObjects(p)
  PROVE  FilesInv'
<1> DEFINE row == [job |-> "delete", file |-> None, pc |-> "listed", data |-> ListedKeys]
<1>1. Start(p, "delete", None, "listed", ListedKeys) /\ ~Deleting /\ account = "pending_deletion"
      /\ UNCHANGED <<files, objects, imports, exports, account, unsettled>>
  BY DEF ListObjects
<1>2. ListedKeys \in SUBSET Keys
  BY DEF ListedKeys
<1>3. row \in ProcRows
  BY <1>2 DEF ProcRows
<1>4. Becomes(p, row) /\ procs'[p] = row /\ ~At(p, "export", "stored")
  BY <1>1, StartIs DEF At, Does
<1>5. \A x \in Exports : Loose(x) => x \in ListedKeys
  BY <1>1, KeysAre DEF FilesInv, ExportsAreAccounted, ListedKeys
<1> HIDE DEF row
<1>6. row.job = "delete" /\ row.pc = "listed" /\ row.data = ListedKeys
  BY DEF row
<1>7. \A x \in Exports : Loose(x)' => x \in ListedKeys
  BY <1>1, <1>5 DEF Loose
<1>8. ProcFits(procs[p])'
  BY <1>1, <1>4, <1>6, <1>7 DEF ProcFits, Does, Loose
<1> QED  BY <1>1, <1>3, <1>4, <1>8, ReaderKeeps

\* A process that ends, and leaves the objects alone.
LEMMA EndKeeps ==
  ASSUME FilesInv, NEW p \in Processes, End(p), RowsFit', UNCHANGED <<account, objects, unsettled>>,
         \A x \in Exports : HasRow(x) => HasRow(x)',
         At(p, "export", "stored") => HasRow(procs[p].file)
  PROVE  FilesInv'
<1>1. /\ Becomes(p, Free) /\ Free \in ProcRows /\ ~Does(Free, "delete")
      /\ ProcFits(procs[p])'
  BY EndIs DEF End
<1>2. ObjectsKept /\ \A k \in Keys : Loose(k)' => Loose(k)
  BY NoObjectChanges
<1> HIDE DEF End
<1> QED  BY <1>1, <1>2, KeepsWhen, ProcessKeepsInv, KeysAre DEF ObjectsKept

LEMMA FilesChangeKeeps ==
  ASSUME FilesInv, NEW p \in Processes, End(p), ~At(p, "export", "stored"),
         FilesKept, UNCHANGED <<objects, imports, exports, account, unsettled>>
  PROVE  FilesInv'
<1>1. RowsFit'
  BY FilesKeptStep, NoObjectChanges, RowTypes, KeysAre DEF ObjectsKept
<1> QED  BY <1>1, EndKeeps, KeysAre DEF FilesKept

\* confirm_upload saw the object, and who removed it since then has set out to.
LEMMA ConfirmUploadKeeps ==
  ASSUME FilesInv, NEW p \in Processes, ConfirmUpload(p)
  PROVE  FilesInv'
<1> DEFINE f == procs[p].file
           row == [files[f] EXCEPT !.status = "confirmed", !.expired = FALSE]
<1>1. f \in Uploads /\ f \in Keys /\ Does(procs[p], "confirm") /\ End(p)
      /\ procs[p].pc = "checked"
      /\ UNCHANGED <<objects, imports, exports, account, unsettled>>
      /\ ~At(p, "export", "stored")
  BY JobOf, KeysAre DEF ConfirmUpload, At
<1>2. ~Missing(f)
  BY <1>1, RowTypes DEF ProcFits
<1>3. FilesTypeOK /\ files \in [Keys -> FileRow] /\ files[f] \in FileRow
  BY <1>1 DEF FilesInv, Typed, FilesTypeOK
<1>4. files' = files \/ (Present(f) /\ files' = [files EXCEPT ![f] = row])
  BY <1>1, <1>3 DEF ConfirmUpload
<1>5. row \in FileRow /\ row.status = "confirmed" /\ row.deleted = files[f].deleted
  BY <1>3 DEF FileRow
<1> HIDE DEF f, row
<1>6. FilesKept
  <2>1. CASE files' = files
    BY <1>3, <2>1, KeysAre DEF FilesKept, FilesTypeOK, HasRow
  <2>2. CASE Present(f) /\ files' = [files EXCEPT ![f] = row]
    <3>1. files' \in [Keys -> FileRow] /\ \A k \in Keys : files'[k] = IF k = f THEN row ELSE files[k]
      BY <1>3, <1>5, <2>2
    <3>2. \A k \in Keys : HasRow(k)' <=> HasRow(k)
      BY <1>5, <2>2, <3>1 DEF HasRow, Present
    <3>3. \A k \in Keys : files'[k].deleted => files'[k].status \in {"deleted", "confirmed"}
      BY <1>3, <1>5, <3>1 DEF FilesTypeOK
    <3>4. ~(objects'[f] = None /\ f \notin unsettled')
      BY <1>1, <1>2 DEF Missing
    <3>5. \A k \in Keys : files'[k].status = "confirmed"
            => files[k].status = "confirmed" \/ ~(objects'[k] = None /\ k \notin unsettled')
      BY <3>1, <3>4
    <3> QED  BY <3>1, <3>2, <3>3, <3>5, KeysAre DEF FilesKept, Missing
  <2> QED  BY <1>4, <2>1, <2>2
<1> QED  BY <1>1, <1>6, FilesChangeKeeps

\* The result is recorded of an import that is still queued.
LEMMA RecordImportKeeps ==
  ASSUME FilesInv, NEW p \in Processes, NEW status \in {"parsed", "needs_paste"},
         RecordImport(p, status)
  PROVE  FilesInv'
<1> DEFINE f == procs[p].file
           text == IF status = "parsed" THEN procs[p].data ELSE None
           row == [imports[f] EXCEPT !.status = status, !.text = text]
<1>1. f \in Uploads /\ procs[p].data \in Contents /\ End(p)
      /\ UNCHANGED <<files, objects, exports, account, unsettled>>
      /\ ~At(p, "export", "stored")
  BY JobOf DEF RecordImport, At
<1>2. imports \in [Uploads -> ImportRow] /\ OneResumePerImport
      /\ \A g \in Uploads : imports[g].status # "none" => HasRow(g)
  BY DEF FilesInv, Typed, FilesTypeOK
<1>3. \A g \in Uploads : imports[g] \in ImportRow
        /\ imports[g].resumes = IF imports[g].status = "confirmed" THEN 1 ELSE 0
  BY <1>2 DEF OneResumePerImport
<1>4. imports' = imports \/ (imports[f].status = "queued" /\ imports' = [imports EXCEPT ![f] = row])
  BY <1>1, <1>2 DEF RecordImport, StillQueued
<1>5. text \in Contents \cup {None}
  BY <1>1
<1> HIDE DEF f, text
<1>6. imports[f].status = "queued" => row \in ImportRow /\ row.status = status /\ row.resumes = 0
  <2>1. imports[f] \in ImportRow
    BY <1>1, <1>3
  <2>2. row \in ImportRow /\ row.status = status /\ row.resumes = imports[f].resumes
    BY <1>5, <2>1 DEF ImportRow
  <2>3. imports[f].status = "queued" => imports[f].resumes = 0
    BY <1>1, <1>3
  <2> QED  BY <2>2, <2>3
<1> HIDE DEF row
<1>7. RowsFit'
  <2>1. CASE imports' = imports
    BY <1>1, <1>2, <1>3, <2>1, ImportsStep
  <2>2. CASE imports[f].status = "queued" /\ imports' = [imports EXCEPT ![f] = row]
    BY <1>1, <1>2, <1>3, <1>6, <2>2, ImportsStep
  <2> QED  BY <1>4, <2>1, <2>2
<1> QED  BY <1>1, <1>7, EndKeeps DEF HasRow

LEMMA DeleteFileKeeps ==
  ASSUME FilesInv, NEW p \in Processes, DeleteFile(p)
  PROVE  FilesInv'
<1> DEFINE f == procs[p].file
           row == [files[f] EXCEPT !.status = "deleted", !.deleted = TRUE]
<1>1. f \in Keys /\ End(p) /\ ~At(p, "export", "stored")
      /\ UNCHANGED <<objects, imports, exports, account, unsettled>>
  BY JobOf DEF DeleteFile, At
<1>2. FilesTypeOK /\ files \in [Keys -> FileRow] /\ files[f] \in FileRow
  BY <1>1 DEF FilesInv, Typed, FilesTypeOK
<1>3. files' = files \/ (HasRow(f) /\ files' = [files EXCEPT ![f] = row])
  BY <1>1, <1>2 DEF DeleteFile
<1>4. row \in FileRow /\ row.status = "deleted"
  BY <1>2 DEF FileRow
<1> HIDE DEF f, row
<1>5. FilesKept
  BY <1>1, <1>2, <1>3, <1>4, KeysAre DEF FilesKept, FilesTypeOK, HasRow
<1> QED  BY <1>1, <1>5, FilesChangeKeeps

\* The second transaction of the cleanup.
LEMMA FinishCleanupKeeps ==
  ASSUME FilesInv, NEW p \in Processes, FinishCleanup(p)
  PROVE  FilesInv'
<1> DEFINE row(k) == [files[k] EXCEPT !.status = "deleted", !.deleted = TRUE]
           Due(k) == k \in procs[p].data /\ StillExpired(k)
<1>1. FilesTypeOK /\ files \in [Keys -> FileRow]
  BY DEF FilesInv, Typed, FilesTypeOK
<1>2. End(p) /\ ~At(p, "export", "stored")
      /\ UNCHANGED <<objects, imports, exports, account, unsettled>>
      /\ files' = [k \in Keys |-> IF Due(k) THEN row(k) ELSE files[k]]
  BY DEF FinishCleanup, At
<1>3. \A k \in Keys : row(k) \in FileRow /\ row(k).status = "deleted"
  BY <1>1 DEF FileRow
<1>4. \A k \in Keys : Due(k) => HasRow(k)
  BY DEF StillExpired, Present
<1> HIDE DEF row, Due
<1>5. FilesKept
  BY <1>1, <1>2, <1>3, <1>4, KeysAre DEF FilesKept, FilesTypeOK, HasRow
<1> QED  BY <1>2, <1>5, FilesChangeKeeps

\* The object that is stored has its row, or the account was deleted.
LEMMA StoreExportKeeps ==
  ASSUME FilesInv, NEW p \in Processes, StoreExport(p)
  PROVE  FilesInv'
<1> DEFINE row == [procs[p] EXCEPT !.pc = "stored"]
<1>0. PICK x \in Exports : x = procs[p].file
  BY JobOf DEF StoreExport
<1>1. /\ x \in Keys /\ Does(procs[p], "export") /\ At(p, "export", "rendered")
      /\ Store(x, Signed) /\ Step(p, "stored") /\ UNCHANGED <<files, imports, exports, account>>
  BY <1>0, JobOf, KeysAre DEF StoreExport
<1>2. procs[p] \in ProcRows /\ ProcFits(procs[p]) /\ procs[p].job = "export" /\ procs[p].pc = "rendered"
  BY <1>1, RowTypes DEF At
<1>3. row \in ProcRows /\ row.job = "export" /\ row.pc = "stored" /\ row.file = x
  BY <1>0, <1>2 DEF ProcRows, Free
<1>4. Becomes(p, row) /\ procs'[p] = row
  BY <1>1, StepIs
<1>5. HasRow(x) \/ account = "deleted"
  BY <1>0, <1>1, <1>2 DEF ProcFits
<1> HIDE DEF row
<1>6. ObjectsKept /\ ~Missing(x)' /\ \A j \in Keys \ {x} : Loose(j)' => Loose(j)
  BY <1>1, StoreKeeps, KeysAre
<1>7. ProcFits(procs[p])'
  <2>1. ~Does(row, "delete") /\ ~Does(row, "confirm")
    BY <1>3 DEF Does
  <2>2. files'[row.file].status # "none" \/ account' = "deleted"
    BY <1>1, <1>3, <1>5 DEF HasRow
  <2> QED  BY <1>3, <1>4, <2>1, <2>2, <1>6 DEF ProcFits, HasRow, Missing
<1>8. RowsFit' /\ \A y \in Exports : HasRow(y) => HasRow(y)'
  BY <1>1, <1>6, NoRowStep, KeysAre DEF ObjectsKept, HasRow
<1>9. ~Does(row, "delete") /\ ~At(p, "export", "stored")
  BY <1>1, <1>3 DEF Does, At
<1>10. \A y \in Exports : Loose(y)' => Loose(y) \/ HasRow(y) \/ (account = "deleted" /\ row.file = y)
  BY <1>3, <1>5, <1>6, KeysAre
<1> QED
  BY <1>1, <1>3, <1>4, <1>6, <1>7, <1>8, <1>9, <1>10, KeepsWhen, ProcessKeepsInv DEF ObjectsKept

LEMMA StoreDataKeeps ==
  ASSUME FilesInv, NEW p \in Processes, StoreData(p)
  PROVE  FilesInv'
<1> DEFINE k == procs[p].file
           row == [procs[p] EXCEPT !.pc = "stored"]
<1>1. /\ k \in DataExports /\ k \in Keys /\ k \notin Exports /\ At(p, "data", "rendered")
      /\ Store(k, Signed) /\ Step(p, "stored") /\ UNCHANGED <<files, imports, exports, account>>
  BY JobOf, KeysAre DEF StoreData
<1>2. procs[p] \in ProcRows /\ procs[p].job = "data" /\ procs[p].pc = "rendered"
  BY <1>1, RowTypes DEF At
<1>3. row \in ProcRows /\ row.job = "data"
  BY <1>2 DEF ProcRows, Free
<1>4. Becomes(p, row) /\ procs'[p] = row
  BY <1>1, StepIs
<1> HIDE DEF row, k
<1>5. ObjectsKept /\ \A j \in Keys \ {k} : Loose(j)' => Loose(j)
  BY <1>1, StoreKeeps, KeysAre
<1>6. ProcFits(procs[p])'
  BY <1>3, <1>4 DEF ProcFits, Does
<1>7. RowsFit' /\ \A y \in Exports : HasRow(y) => HasRow(y)'
  BY <1>1, <1>5, NoRowStep, KeysAre DEF ObjectsKept, HasRow
<1>8. ~Does(row, "delete") /\ ~At(p, "export", "stored") /\ \A y \in Exports : Loose(y)' => Loose(y)
  BY <1>1, <1>3, <1>5, KeysAre DEF Does, At
<1> QED
  BY <1>1, <1>3, <1>4, <1>5, <1>6, <1>7, <1>8, KeepsWhen, ProcessKeepsInv DEF ObjectsKept

\* An object is removed by a process that ends.
LEMMA RemoveAndEndKeeps ==
  ASSUME FilesInv, NEW p \in Processes, NEW keys, Remove(keys), End(p),
         ~At(p, "export", "stored"), UNCHANGED <<files, imports, exports, account>>
  PROVE  FilesInv'
<1>1. /\ Becomes(p, Free) /\ Free \in ProcRows /\ ~Does(Free, "delete")
      /\ ProcFits(procs[p])'
  BY EndIs DEF End
<1>2. ObjectsKept /\ \A k \in Keys : Loose(k)' => Loose(k)
  BY RemoveKeeps
<1>3. RowsFit' /\ \A x \in Exports : HasRow(x) => HasRow(x)'
  BY <1>2, NoRowStep, KeysAre DEF ObjectsKept, HasRow
<1> QED  BY <1>1, <1>2, <1>3, KeepsWhen, ProcessKeepsInv, KeysAre DEF ObjectsKept

LEMMA RemoveMismatchKeeps ==
  ASSUME FilesInv, NEW p \in Processes, RemoveMismatch(p)
  PROVE  FilesInv'
<1>1. /\ Remove({procs[p].file}) /\ End(p) /\ ~At(p, "export", "stored")
      /\ UNCHANGED <<files, imports, exports, account>>
  BY DEF RemoveMismatch, At
<1> QED  BY <1>1, RemoveAndEndKeeps

\* The row of a data export, also after the account was deleted; or its object is removed.
LEMMA RecordDataKeeps ==
  ASSUME FilesInv, NEW p \in Processes, RecordData(p)
  PROVE  FilesInv'
<1> DEFINE k == procs[p].file
           row == [NoRow EXCEPT !.status = "confirmed"]
<1>1. /\ k \in DataExports /\ k \in Keys /\ k \notin Uploads \cup Exports
      /\ End(p) /\ ~At(p, "export", "stored")
      /\ UNCHANGED <<imports, exports, account>>
      /\ \/ files' = [files EXCEPT ![k] = row] /\ UNCHANGED <<objects, unsettled>>
         \/ Remove({k}) /\ UNCHANGED files
  BY JobOf, KeysAre DEF RecordData, At
<1>2. row \in FileRow /\ row.status = "confirmed" /\ ~row.deleted
  BY NewRow
<1> HIDE DEF k, row
<1>3. CASE files' = [files EXCEPT ![k] = row] /\ UNCHANGED <<objects, unsettled>>
  <2>1. files' \in [Keys -> FileRow] /\ \A j \in Keys : files'[j] = IF j = k THEN row ELSE files[j]
    BY <1>1, <1>2, <1>3, RowTypes
  <2>2. FilesTypeOK /\ OneResumePerImport /\ ObjectsAreThere /\ RowsAreGone
    BY DEF FilesInv, Typed
  <2>3. FilesTypeOK'
    BY <1>1, <1>2, <2>1, <2>2, KeysAre DEF FilesTypeOK, HasRow
  <2>4. OneResumePerImport' /\ RowsAreGone' /\ ObjectsAreThere'
    BY <1>1, <1>3, <2>1, <2>2, KeysAre DEF OneResumePerImport, RowsAreGone, ObjectsAreThere, HasRow
  <2>5. \A x \in Exports : HasRow(x) => HasRow(x)'
    BY <1>1, <2>1, KeysAre DEF HasRow
  <2> QED  BY <1>1, <1>3, <2>3, <2>4, <2>5, EndKeeps DEF RowsFit
<1>4. CASE Remove({k}) /\ UNCHANGED files
  BY <1>1, <1>4, RemoveAndEndKeeps
<1> QED  BY <1>1, <1>3, <1>4

\* The export is finished, or it is found without its rows and its object is taken back.
LEMMA RecordExportKeeps ==
  ASSUME FilesInv, NEW p \in Processes, RecordExport(p)
  PROVE  FilesInv'
<1> DEFINE x == procs[p].file
<1>1. /\ x \in Exports /\ x \in Keys /\ Does(procs[p], "export") /\ End(p) /\ At(p, "export", "stored")
      /\ UNCHANGED <<imports, account>>
  BY JobOf, KeysAre DEF RecordExport
<1>2. ProcFits(procs[p]) /\ (exports[x] # "none" <=> HasRow(x))
  BY <1>1, RowTypes
<1>3. CASE HasRow(x)
  <2> DEFINE row == [files[x] EXCEPT !.status = "confirmed"]
  <2>1. FilesTypeOK /\ RowsAreGone /\ files \in [Keys -> FileRow] /\ files[x] \in FileRow
    BY <1>1 DEF FilesInv, Typed, FilesTypeOK
  <2>2. ~Missing(x)
    BY <1>1, <1>2, <1>3, <2>1 DEF ProcFits, At, RowsAreGone
  <2>3. /\ exports' = [exports EXCEPT ![x] = "succeeded"] /\ UNCHANGED <<objects, unsettled>>
        /\ files' = files \/ files' = [files EXCEPT ![x] = row]
    BY <1>2, <1>3, <2>1 DEF RecordExport, RowsAreThere
  <2>4. row \in FileRow /\ row.status = "confirmed" /\ row.deleted = files[x].deleted
    BY <2>1 DEF FileRow
  <2> HIDE DEF row, x
  <2>5. exports' \in [Exports -> ExportStatuses]
        /\ \A y \in Exports : exports'[y] # "none" <=> exports[y] # "none"
    BY <1>2, <1>3, <2>3, RowTypes DEF ExportStatuses
  <2>6. FilesKept
    <3>1. CASE files' = files
      BY <2>1, <3>1, KeysAre DEF FilesKept, FilesTypeOK, HasRow
    <3>2. CASE files' = [files EXCEPT ![x] = row]
      <4>1. files' \in [Keys -> FileRow] /\ \A k \in Keys : files'[k] = IF k = x THEN row ELSE files[k]
        BY <2>1, <2>4, <3>2
      <4>2. \A k \in Keys : HasRow(k)' <=> HasRow(k)
        BY <1>3, <2>4, <4>1 DEF HasRow
      <4>3. \A k \in Keys : files'[k].deleted => files'[k].status \in {"deleted", "confirmed"}
        BY <2>1, <2>4, <4>1 DEF FilesTypeOK
      <4>4. ~(objects'[x] = None /\ x \notin unsettled')
        BY <2>2, <2>3 DEF Missing
      <4>5. \A k \in Keys : files'[k].status = "confirmed"
              => files[k].status = "confirmed" \/ ~(objects'[k] = None /\ k \notin unsettled')
        BY <4>1, <4>4
      <4> QED  BY <4>1, <4>2, <4>3, <4>5, KeysAre DEF FilesKept, Missing
    <3> QED  BY <2>3, <3>1, <3>2
  <2>7. RowsFit'
    BY <1>1, <2>3, <2>5, <2>6, FilesKeptStep, NoObjectChanges, KeysAre DEF ObjectsKept
  <2> QED  BY <1>1, <1>3, <2>3, <2>6, <2>7, EndKeeps, KeysAre DEF FilesKept, x
<1>4. CASE ~HasRow(x)
  <2>1. account = "deleted"
    BY <1>1, <1>2, <1>4 DEF ProcFits
  <2>2. objects' = [objects EXCEPT ![x] = None] /\ UNCHANGED <<unsettled, files, exports>>
    BY <1>4 DEF RecordExport, RowsAreThere, TakeBack
  <2> HIDE DEF x
  <2>3. objects' \in [Keys -> Contents \cup {None}]
        /\ \A k \in Keys : objects'[k] = IF k = x THEN None ELSE objects[k]
    BY <1>1, <2>2, RowTypes
  <2>4. /\ \A k \in Keys : Missing(k)' => Missing(k) \/ k = x
        /\ \A k \in Keys : Loose(k)' => Loose(k) /\ k # x
    BY <2>2, <2>3 DEF Missing, Loose
  <2>5. RowsFit'
    BY <1>1, <2>1, <2>2, <2>4, NoRowStep, KeysAre
  <2>6. Keeps
    BY <1>1, <2>1, <2>2, <2>4, KeysAre DEF Keeps, HasRow
  <2>7. /\ Becomes(p, Free) /\ Free \in ProcRows /\ ~Does(Free, "delete") /\ ProcFits(procs[p])'
    BY <1>1, EndIs DEF End
  <2> QED  BY <1>1, <2>2, <2>3, <2>4, <2>5, <2>6, <2>7, ProcessKeepsInv, KeysAre DEF HasRow, x
<1> QED  BY <1>3, <1>4

\* delete_file begins with the object.
LEMMA DeleteObjectKeeps ==
  ASSUME FilesInv, NEW p \in Processes, NEW f \in Keys, DeleteObject(p, f)
  PROVE  FilesInv'
<1> DEFINE row == [job |-> "delete_file", file |-> f, pc |-> "removed", data |-> None]
<1>1. Start(p, "delete_file", f, "removed", None) /\ UNCHANGED <<files, imports, exports, account>>
  BY DEF DeleteObject, Begin
<1>2. row \in ProcRows /\ ~Does(row, "delete")
  BY DEF ProcRows, Does
<1>3. Becomes(p, row) /\ procs'[p] = row /\ ~At(p, "export", "stored")
  BY <1>1, StartIs DEF At, Does
<1>4. ProcFits(procs[p])'
  BY <1>3 DEF ProcFits, Does
<1> HIDE DEF row
<1>5. ObjectsKept /\ \A k \in Keys : Loose(k)' => Loose(k)
  BY NoObjectChanges, RemoveKeeps DEF DeleteObject
<1>6. RowsFit' /\ \A x \in Exports : HasRow(x) => HasRow(x)'
  BY <1>1, <1>5, NoRowStep, KeysAre DEF ObjectsKept, HasRow
<1> QED
  BY <1>1, <1>2, <1>3, <1>4, <1>5, <1>6, KeepsWhen, ProcessKeepsInv, KeysAre DEF ObjectsKept

\* The first transaction of the cleanup.
LEMMA MarkExpiredKeeps ==
  ASSUME FilesInv, NEW p \in Processes, MarkExpired(p)
  PROVE  FilesInv'
<1> DEFINE due == {f \in Keys : Present(f) /\ files[f].expired}
           row == [job |-> "cleanup", file |-> None, pc |-> "marked", data |-> due]
           marked(f) == [files[f] EXCEPT !.status = "expired_cleanup"]
<1>1. FilesTypeOK /\ files \in [Keys -> FileRow]
  BY DEF FilesInv, Typed, FilesTypeOK
<1>2. /\ Start(p, "cleanup", None, "marked", due)
      /\ files' = [f \in Keys |-> IF f \in due THEN marked(f) ELSE files[f]]
      /\ UNCHANGED <<objects, imports, exports, account, unsettled>>
  BY DEF MarkExpired, Begin
<1>3. \A f \in Keys : /\ marked(f) \in FileRow /\ marked(f).status = "expired_cleanup"
                      /\ marked(f).deleted = files[f].deleted
  BY <1>1 DEF FileRow
<1>4. due \in SUBSET Keys /\ \A f \in due : HasRow(f) /\ ~files[f].deleted
  BY DEF Present
<1> HIDE DEF due, marked
<1>5. row \in ProcRows /\ ~Does(row, "delete")
  BY <1>4 DEF ProcRows, Does
<1>6. Becomes(p, row) /\ procs'[p] = row /\ ~At(p, "export", "stored")
  BY <1>2, StartIs DEF At, Does
<1>7. ProcFits(procs[p])'
  BY <1>6 DEF ProcFits, Does
<1> HIDE DEF row
<1>8. FilesKept
  BY <1>1, <1>2, <1>3, <1>4, KeysAre DEF FilesKept, FilesTypeOK, HasRow
<1>9. ObjectsKept /\ \A k \in Keys : Loose(k)' => Loose(k)
  BY <1>2, NoObjectChanges
<1>10. RowsFit'
  BY <1>2, <1>8, <1>9, FilesKeptStep, RowTypes, KeysAre DEF ObjectsKept
<1>11. \A x \in Exports : HasRow(x) => HasRow(x)'
  BY <1>8, KeysAre DEF FilesKept
<1> QED
  BY <1>2, <1>5, <1>6, <1>7, <1>9, <1>10, <1>11, KeepsWhen, ProcessKeepsInv, KeysAre
  DEF ObjectsKept

\* A process that removes what it found, and goes on.
LEMMA RemoverKeeps ==
  ASSUME FilesInv, NEW p \in Processes, Remove(procs[p].data), Step(p, "removed"),
         At(p, "cleanup", "marked") \/ At(p, "delete", "listed"),
         UNCHANGED <<files, imports, exports, account>>
  PROVE  FilesInv'
<1> DEFINE row == [procs[p] EXCEPT !.pc = "removed"]
<1>1. procs[p] \in ProcRows /\ ProcFits(procs[p])
  BY RowTypes
<1>2. row \in ProcRows /\ row.job = procs[p].job /\ row.pc = "removed" /\ row.data = procs[p].data
  BY <1>1 DEF ProcRows, Free, At
<1>3. Becomes(p, row) /\ procs'[p] = row
  BY StepIs
<1>4. ObjectsKept /\ \A k \in Keys : Loose(k)' => Loose(k) /\ k \notin procs[p].data
  BY RemoveKeeps
<1>5. ~Does(row, "export") /\ ~Does(row, "confirm") /\ ~At(p, "export", "stored")
      /\ (Does(row, "delete") => Does(procs[p], "delete"))
  BY <1>2 DEF At, Does
<1> HIDE DEF row
<1>6. ASSUME Does(row, "delete")
      PROVE  account' = "pending_deletion" /\ \A x \in Exports : ~Loose(x)'
  BY <1>1, <1>4, <1>5, <1>6, KeysAre DEF ProcFits
<1>7. ProcFits(procs[p])'
  BY <1>3, <1>5, <1>6 DEF ProcFits, Does, Loose
<1>8. RowsFit' /\ \A x \in Exports : HasRow(x) => HasRow(x)'
  BY <1>4, NoRowStep, KeysAre DEF ObjectsKept, HasRow
<1> QED
  BY <1>2, <1>3, <1>4, <1>5, <1>7, <1>8, KeepsWhen, ProcessKeepsInv, KeysAre DEF ObjectsKept

\* The rows go when every object that was listed has been removed, and what was stored
\* since then is settled.
LEMMA DeleteRowsKeeps ==
  ASSUME FilesInv, NEW p \in Processes, DeleteRows(p)
  PROVE  FilesInv'
<1>1. Does(procs[p], "delete") /\ At(p, "delete", "removed") /\ End(p) /\ ~At(p, "export", "stored")
      /\ UNCHANGED <<objects, unsettled>>
  BY JobOf DEF DeleteRows, At
<1>2. CASE candidates
  <2>1. UNCHANGED <<files, imports, exports, account>>
    BY <1>2 DEF DeleteRows
  <2>2. RowsFit'
    BY <1>1, <2>1, NoRowStep, NoObjectChanges, KeysAre DEF ObjectsKept
  <2> QED  BY <1>1, <2>1, <2>2, EndKeeps DEF HasRow
<1>3. CASE ~candidates
  <2>1. /\ files' = [k \in Keys |-> NoRow] /\ imports' = [f \in Uploads |-> NoDraft]
        /\ exports' = [x \in Exports |-> "none"] /\ account' = "deleted"
    BY <1>3 DEF DeleteRows
  <2>2. NoRow \in FileRow /\ NoRow.status = "none" /\ ~NoRow.deleted
        /\ NoDraft \in ImportRow /\ NoDraft.status = "none" /\ NoDraft.resumes = 0
    BY DEF NoRow, FileRow, NoDraft, ImportRow
  <2>3. \A k \in Keys : ~HasRow(k)'
    BY <2>1, <2>2 DEF HasRow
  <2>4. FilesTypeOK'
    BY <2>1, <2>2, <2>3, KeysAre DEF FilesTypeOK, ExportStatuses
  <2>5. OneResumePerImport' /\ ObjectsAreThere' /\ RowsAreGone'
    BY <2>1, <2>2, <2>3, KeysAre DEF OneResumePerImport, ObjectsAreThere, RowsAreGone
  <2>6. Keeps
    BY <1>1, <2>1, KeysAre DEF Keeps, Missing, Loose
  <2>7. Becomes(p, Free) /\ Free \in ProcRows /\ ~Does(Free, "delete") /\ ProcFits(procs[p])'
    BY <1>1, EndIs DEF End
  <2>8. /\ procs' \in [Processes -> ProcRows]
        /\ \A q \in Processes : ProcFits(procs[q])'
        /\ OneDeletion'
    BY <1>1, <2>1, <2>6, <2>7, ProcStep
  <2>9. \A x \in Exports : ~Loose(x)'
    <3>1. \A x \in Exports : ~Loose(x)
      BY <1>1, RowTypes DEF ProcFits, At
    <3> QED  BY <1>1, <3>1 DEF Loose
  <2>10. objects' \in [Keys -> Contents \cup {None}]
    BY <1>1, RowTypes
  <2> QED  BY <2>4, <2>5, <2>8, <2>9, <2>10 DEF FilesInv, Typed, ExportsAreAccounted
<1> QED  BY <1>2, <1>3

\* A process that dies after it stored an object leaves that unsettled.
LEMMA DieKeeps ==
  ASSUME FilesInv, NEW p \in Processes, Die(p)
  PROVE  FilesInv'
<1>1. /\ Becomes(p, Free) /\ Free \in ProcRows /\ ~Does(Free, "delete") /\ ProcFits(procs[p])'
  BY EndIs DEF Die
<1>2. UNCHANGED <<files, objects, imports, exports, account>>
      /\ unsettled \subseteq unsettled'
      /\ \A x \in Exports : At(p, "export", "stored") /\ procs[p].file = x => x \in unsettled'
  BY DEF Die, At
<1>3. ObjectsKept /\ \A k \in Keys : Loose(k)' => Loose(k)
  BY <1>2, RowTypes DEF ObjectsKept, Missing, Loose
<1>4. RowsFit' /\ \A x \in Exports : HasRow(x) => HasRow(x)'
  BY <1>2, <1>3, NoRowStep, KeysAre DEF ObjectsKept, HasRow
<1>5. \A x \in Exports : At(p, "export", "stored") /\ procs[p].file = x => ~Loose(x)'
  BY <1>2 DEF Loose
<1> QED
  BY <1>1, <1>2, <1>3, <1>4, <1>5, KeepsWhen, ProcessKeepsInv, KeysAre DEF ObjectsKept

LEMMA FilesInvStep ==
  ASSUME FilesInv, [FilesNext]_fileVars
  PROVE  FilesInv'
<1>1. CASE UNCHANGED fileVars
  BY <1>1
  DEF fileVars, FilesInv, Typed, FilesTypeOK, OneResumePerImport, ObjectsAreThere, ProcFits,
      OneDeletion, RowsAreGone, ExportsAreAccounted, Does, Missing, Loose, At, HasRow
<1>2. CASE UploadSteps
  BY <1>2, CreateUploadTokenKeeps, UrlExpiresKeeps, UploadKeeps, ImportKeeps, FindUploadKeeps,
     ReadImportKeeps
  DEF UploadSteps
<1>3. ASSUME NEW p \in Processes, ProcessSteps(p)
      PROVE  FilesInv'
  <2>1. CASE RemoveExpired(p)
    BY <2>1, RemoverKeeps DEF RemoveExpired
  <2> QED
    BY <1>3, <2>1, ReadUploadKeeps, RemoveMismatchKeeps, ConfirmUploadKeeps, RecordImportKeeps, StoreExportKeeps, RecordExportKeeps,
       StoreDataKeeps, RecordDataKeeps, DeleteFileKeeps, FinishCleanupKeeps
    DEF ProcessSteps
<1>4. ASSUME NEW p \in Processes, DeletionSteps(p)
      PROVE  FilesInv'
  <2>1. CASE RemoveObjects(p)
    BY <2>1, RemoverKeeps DEF RemoveObjects
  <2> QED  BY <1>4, <2>1, ListObjectsKeeps, DeleteRowsKeeps DEF DeletionSteps
<1>5. CASE FilesNext
  BY <1>2, <1>3, <1>4, <1>5, CreateExportKeeps, ReadExportKeeps, ExpireKeeps, DeleteObjectKeeps,
     MarkExpiredKeeps, DieKeeps, ReadDataKeeps, AccountKeeps
  DEF FilesNext
<1> QED  BY <1>1, <1>5

LEMMA FilesInitially == FilesInit => FilesInv
<1> SUFFICES ASSUME FilesInit PROVE FilesInv
  OBVIOUS
<1>1. NoRow \in FileRow /\ NoRow.status = "none" /\ ~NoRow.deleted
      /\ NoDraft \in ImportRow /\ NoDraft.status = "none" /\ NoDraft.resumes = 0
      /\ Free \in ProcRows /\ ~\E job : Does(Free, job)
  BY DEF NoRow, FileRow, NoDraft, ImportRow, Free, ProcRows, Does
<1>2. \A k \in Keys : ~HasRow(k) /\ ~Loose(k)
  BY <1>1 DEF FilesInit, HasRow, Loose
<1>3. Typed
  BY <1>1, <1>2, KeysAre DEF FilesInit, Typed, FilesTypeOK, ExportStatuses
<1>4. OneResumePerImport /\ ObjectsAreThere /\ RowsAreGone /\ ExportsAreAccounted
  BY <1>1, <1>2, KeysAre
  DEF FilesInit, OneResumePerImport, ObjectsAreThere, RowsAreGone, ExportsAreAccounted
<1>5. OneDeletion /\ \A p \in Processes : ProcFits(procs[p])
  BY <1>1 DEF FilesInit, OneDeletion, ProcFits
<1> QED  BY <1>3, <1>4, <1>5 DEF FilesInv

\* Rows, objects and what the processes rely on fit together.
THEOREM FilesCorrect == FilesSpec => []FilesInv
BY FilesInitially, FilesInvStep, PTL DEF FilesSpec

-------------------------------------------------------------------------------
(* The properties *)

\* A confirmed upload and a finished export keep their object unless somebody set out to
\* remove it, an import makes one resume, and no row is left without the row it refers to:
\* whatever requests, retried workers, cleanups and deletions run at once
\* (imports/service.py, exports/service.py, privacy/worker.py).
THEOREM ObjectsCorrect == FilesSpec => []FilesConsistent
<1>1. FilesInv => FilesConsistent
  BY DEF FilesInv, FilesConsistent, Typed
<1> QED  BY <1>1, FilesCorrect, PTL

\* delete_account leaves no exported resume of the owner behind: one whose worker comes too late is
\* taken back by process_export.
THEOREM ErasureCorrect == FilesSpec => []ExportsAreErased
<1>1. FilesInv => ExportsAreErased
  BY DEF FilesInv, ExportsAreErased, ExportsAreAccounted, RowsAreGone, Loose
<1> QED  BY <1>1, FilesCorrect, PTL

Settled == {"parsed", "needs_paste", "confirmed"}

\* A step changes the imports in one of these ways.
ImportsMove ==
  \/ UNCHANGED imports
  \/ \E f \in Uploads :
       /\ imports[f].status \notin Settled
       /\ \A g \in Uploads \ {f} : imports'[g] = imports[g]
  \/ \E f \in Uploads :
       /\ imports'[f].status = "confirmed" /\ imports'[f].text = imports[f].text
       /\ \A g \in Uploads \ {f} : imports'[g] = imports[g]
  \/ \A k \in Keys : ~HasRow(k)'

LEMMA ImportsMoveIs ==
  ASSUME FilesInv, FilesNext
  PROVE  ImportsMove
<1>1. imports \in [Uploads -> ImportRow]
  BY RowTypes
<1>2. ASSUME NEW f \in Uploads, CreateImport(f)
      PROVE  ImportsMove
  BY <1>1, <1>2 DEF CreateImport, ImportsMove, Settled
<1>3. ASSUME NEW f \in Uploads, ConfirmImport(f)
      PROVE  ImportsMove
  <2>1. imports[f] \in ImportRow
    BY <1>1
  <2>2. imports' = [imports EXCEPT ![f] =
                      [imports[f] EXCEPT !.status = "confirmed", !.resumes = imports[f].resumes + 1]]
    BY <1>1, <1>3 DEF ConfirmImport
  <2>3. imports'[f].status = "confirmed" /\ imports'[f].text = imports[f].text
        /\ \A g \in Uploads \ {f} : imports'[g] = imports[g]
    BY <1>1, <2>1, <2>2 DEF ImportRow
  <2> QED  BY <2>3 DEF ImportsMove
<1>4. ASSUME NEW p \in Processes, NEW status \in {"parsed", "needs_paste"}, RecordImport(p, status)
      PROVE  ImportsMove
  <2>1. procs[p].file \in Uploads
    BY <1>4, JobOf DEF RecordImport
  <2>2. CASE imports[procs[p].file].status = "queued"
    <3>1. PICK f \in Uploads : f = procs[p].file
      BY <2>1
    <3>2. \A g \in Uploads \ {f} : imports'[g] = imports[g]
      BY <1>1, <1>4, <3>1 DEF RecordImport
    <3> QED  BY <2>2, <3>1, <3>2 DEF ImportsMove, Settled
  <2>3. CASE imports[procs[p].file].status # "queued"
    BY <1>4, <2>3 DEF RecordImport, StillQueued, ImportsMove
  <2> QED  BY <2>2, <2>3
<1>5. ASSUME NEW p \in Processes, DeleteRows(p)
      PROVE  ImportsMove
  <2>1. CASE candidates
    BY <1>5, <2>1 DEF DeleteRows, ImportsMove
  <2>2. CASE ~candidates
    BY <1>5, <2>2 DEF DeleteRows, ImportsMove, HasRow, NoRow
  <2> QED  BY <2>1, <2>2
<1>6. \/ UNCHANGED imports
      \/ \E f \in Uploads : CreateImport(f) \/ ConfirmImport(f)
      \/ \E p \in Processes :
           \/ \E status \in {"parsed", "needs_paste"} : RecordImport(p, status)
           \/ DeleteRows(p)
  BY DEF FilesNext, UploadSteps, ProcessSteps, DeletionSteps, CreateUploadToken, UrlExpires, Upload,
     FindUpload, ReadUpload, RemoveMismatch,
     ReadImport, CreateExport, ReadExport, Expire, DeleteObject, MarkExpired, Die, ReadData,
     ConfirmUpload, StoreExport, RecordExport, StoreData, RecordData, DeleteFile, RemoveExpired,
     FinishCleanup, ListObjects, RemoveObjects, AcceptDeletion, FindCandidates
<1> QED  BY <1>2, <1>3, <1>4, <1>5, <1>6 DEF ImportsMove

\* The result of process_import is recorded once, while the import is queued: a second
\* worker changes nothing of an import that is settled (imports/service.py:345).
THEOREM ImportsSettleCorrect == FilesSpec => ImportsSettle
<1> DEFINE SettledStay ==
      \A f \in Uploads :
        imports[f].status \in {"parsed", "needs_paste", "confirmed"} /\ HasRow(f)' =>
          /\ imports'[f].text = imports[f].text
          /\ imports'[f].status \in {imports[f].status, "confirmed"}
<1>1. FilesInv /\ [FilesNext]_fileVars => [SettledStay]_fileVars
  <2> SUFFICES ASSUME FilesInv, FilesNext PROVE SettledStay
    BY DEF fileVars
  <2>1. ImportsMove
    BY ImportsMoveIs
  <2> QED  BY <2>1, KeysAre DEF ImportsMove, Settled
<1> QED  BY <1>1, FilesCorrect, PTL DEF FilesSpec, ImportsSettle

LEMMA DeletionIsDue ==
  ASSUME FilesInv, FilesNext, NEW k \in Keys, ~files[k].deleted, files'[k].deleted
  PROVE  \/ files[k].expired /\ files[k].status = "expired_cleanup"
         \/ \E p \in Processes : At(p, "delete_file", "removed") /\ procs[p].file = k
<1> DEFINE Due == \/ files[k].expired /\ files[k].status = "expired_cleanup"
                  \/ \E p \in Processes : At(p, "delete_file", "removed") /\ procs[p].file = k
<1>1. files \in [Keys -> FileRow] /\ files[k] \in FileRow
  BY RowTypes
<1>2. ASSUME NEW p \in Processes, DeleteFile(p)
      PROVE  Due
  <2>1. procs[p].file = k
    BY <1>1, <1>2 DEF DeleteFile
  <2> QED  BY <1>2, <2>1 DEF DeleteFile
<1>3. ASSUME NEW p \in Processes, FinishCleanup(p)
      PROVE  Due
  BY <1>1, <1>3 DEF FinishCleanup, StillExpired
<1>4. ~\E p \in Processes : DeleteRows(p)
  BY <1>1 DEF DeleteRows, NoRow
<1>5. ASSUME NEW p \in Processes
      PROVE  ~(RecordData(p) \/ RecordExport(p) \/ ConfirmUpload(p) \/ MarkExpired(p))
  <2>1. ~RecordData(p)
    BY <1>1 DEF RecordData, NoRow
  <2>2. ~RecordExport(p)
    BY <1>1 DEF RecordExport, FileRow
  <2>3. ~ConfirmUpload(p)
    BY <1>1 DEF ConfirmUpload, FileRow
  <2>4. ~MarkExpired(p)
    <3>1. [files[k] EXCEPT !.status = "expired_cleanup"].deleted = files[k].deleted
      BY <1>1 DEF FileRow
    <3> QED  BY <3>1 DEF MarkExpired
  <2> QED  BY <2>1, <2>2, <2>3, <2>4
<1>6. ~\E f \in Keys : CreateUploadToken(f) \/ CreateExport(f) \/ Expire(f)
  BY <1>1 DEF CreateUploadToken, CreateExport, Expire, NoRow, FileRow
<1>7. \/ UNCHANGED files
      \/ \E p \in Processes : DeleteFile(p) \/ FinishCleanup(p)
  BY <1>4, <1>5, <1>6, KeysAre
  DEF FilesNext, UploadSteps, ProcessSteps, DeletionSteps, UrlExpires, Upload, FindUpload,
     ReadUpload, RemoveMismatch, CreateImport,
     ConfirmImport, ReadImport, ReadExport, DeleteObject, Die, ReadData, RecordImport, StoreExport,
     StoreData, RemoveExpired, ListObjects, RemoveObjects, AcceptDeletion, FindCandidates
<1> QED  BY <1>2, <1>3, <1>7

\* A file is deleted because its owner asked for it, or because it is still expired when the
\* cleanup looks again: one that was confirmed again meanwhile is kept
\* (imports/service.py:758).
THEOREM DeletedWhenDueCorrect == FilesSpec => DeletedWhenDue
<1> DEFINE DeletedIsDue ==
      \A k \in Keys :
        ~files[k].deleted /\ files'[k].deleted =>
          \/ files[k].expired /\ files[k].status = "expired_cleanup"
          \/ \E p \in Processes : At(p, "delete_file", "removed") /\ procs[p].file = k
<1>1. FilesInv /\ [FilesNext]_fileVars => [DeletedIsDue]_fileVars
  <2> SUFFICES ASSUME FilesInv, FilesNext PROVE DeletedIsDue
    BY DEF fileVars
  <2> QED  BY DeletionIsDue
<1> QED  BY <1>1, FilesCorrect, PTL DEF FilesSpec, DeletedWhenDue
===============================================================================
