-------------------------- MODULE DocumentCleanup --------------------------
(***************************************************************************)
(* How the objects of a document's versions leave the object store.        *)
(*                                                                         *)
(* A database trigger writes a document.cleanup row in the transaction     *)
(* that replaces or deletes a version; the row names the retired keys.  A  *)
(* worker that runs such a row absorbs its due siblings, waits for writers *)
(* of the extracted-text cache, and deletes every key that no live version *)
(* references.  document.precompute_text jobs write that cache, replacement *)
(* uploads write new files, all at the same time and without a lock that   *)
(* spans the database and the object store.                                *)
(*                                                                         *)
(* The files of one upload (source and rendition) are one object whose key *)
(* is the upload; the cache slot of a version has the version as its key.  *)
(* The job rows behave as JobQueue says; backoff is left to the choice of  *)
(* when a pending row is claimed.  `holder' stands for the fencing token   *)
(* (attempts, claimed_at): a slot works on one claim at a time.            *)
(***************************************************************************)
EXTENDS Integers, FiniteSets, Sequences

CONSTANTS
  Version,     \* the document_versions rows of a document
  Upload,      \* uploaded files, each with storage keys of its own
  NoFile,      \* no object, and no storage path
  Original,    \* Original[v]: the file version v was created with
  Target,      \* Target[u]: the version replacement u is destined for
  MaxRows,     \* bound: db_jobs rows inserted by requests and uploads
  Runner,      \* worker slots
  NoRunner,
  Attempts,    \* maxAttempts of document.precompute_text
  Faults,      \* which of "crash", "throw", "zombie", "retry" may happen
  MaxFaults    \* bound: how many faults happen altogether

Replacement == Upload \ {Original[v] : v \in Version}
Key == Upload \cup Version

ASSUME ConstAssumption ==
  /\ IsFiniteSet(Version) /\ Upload \cap Version = {}
  /\ NoFile \notin Key
  /\ Original \in [Version -> Upload]
  /\ Target \in [Replacement -> Version]
  /\ MaxRows \in Nat
  /\ NoRunner \notin Runner
  /\ Attempts \in Nat \ {0}
  /\ Faults \subseteq {"crash", "throw", "zombie", "retry"}
  /\ MaxFaults \in Nat

VARIABLES
  version,   \* the document_versions table
  object,    \* the object store: whose bytes a key holds
  uploads,   \* progress of the upload job of each replacement
  reading,   \* reading[v]: the path a read_document call of v has loaded
  rows,      \* the db_jobs rows of the two kinds, in order of insertion
  runs,      \* what each worker slot is doing
  faults

vars == <<version, object, uploads, reading, rows, runs, faults>>

VersionRow == [status : {"live", "deleted", "gone"}, file : Upload \cup {NoFile}]

JobRow == [kind : {"cleanup", "precompute"},
           status : {"pending", "running", "done", "failed"},
           keys : SUBSET Key,                   \* cleanup payload
           of : Version \cup {NoFile},          \* precompute payload
           file : Upload \cup {NoFile},
           attempts : 0..Attempts,
           holder : Runner \cup {NoRunner}]

CleanupPc    == {"coalesce", "guard", "lookup", "delete", "settle", "release"}
PrecomputePc == {"check", "load", "write", "recheck", "retire", "finish", "fail"}

Run == [row : Nat, pc : {"idle"} \cup CleanupPc \cup PrecomputePc,
        batch : SUBSET (Nat \ {0}),  \* sibling rows the run has yet to settle
        todo : SUBSET Key,           \* keys to delete
        failed : SUBSET Key]         \* keys whose delete failed

UploadPc == {"queued", "copy", "commit", "record", "completed", "failed"}

TypeOK ==
  /\ version \in [Version -> VersionRow]
  /\ object \in [Key -> Upload \cup {NoFile}]
  /\ uploads \in [Replacement -> UploadPc]
  /\ reading \in [Version -> Upload \cup {NoFile}]
  /\ rows \in Seq(JobRow)
  /\ runs \in [Runner -> Run]
  /\ faults \in Nat

Doing(row, pc, batch, todo, failed) ==
  [row |-> row, pc |-> pc, batch |-> batch, todo |-> todo, failed |-> failed]

Idle == Doing(0, "idle", {}, {}, {})

Init ==
  /\ version = [v \in Version |-> [status |-> "live", file |-> Original[v]]]
  /\ object = [k \in Key |-> IF \E v \in Version : Original[v] = k
                             THEN k ELSE NoFile]
  /\ uploads = [u \in Replacement |-> "queued"]
  /\ reading = [v \in Version |-> NoFile]
  /\ rows = <<>>
  /\ runs = [r \in Runner |-> Idle]
  /\ faults = 0

Fault(kind) == kind \in Faults /\ faults < MaxFaults /\ faults' = faults + 1

LiveVersion(v) == version[v].status = "live"

(* document_cleanup_referenced_keys: what live versions point at.          *)
Referenced == {version[v].file : v \in {w \in Version : LiveVersion(w)}}

-----------------------------------------------------------------------------
(* Job rows.                                                               *)

Row == DOMAIN rows

Pending(kind, keys, of, file) ==
  [kind |-> kind, status |-> "pending", keys |-> keys, of |-> of, file |-> file,
   attempts |-> 0, holder |-> NoRunner]

CleanupRow(keys) == Pending("cleanup", keys, NoFile, NoFile)
PrecomputeRow(v, u) == Pending("precompute", {}, v, u)

(* A job's row after an update; kind and payload never change.             *)
With(row, status, holder, attempts) ==
  [kind |-> row.kind, status |-> status, keys |-> row.keys, of |-> row.of,
   file |-> row.file, attempts |-> attempts, holder |-> holder]

Put(j, status) ==
  [rows EXCEPT ![j] = With(rows[j], status, NoRunner, rows[j].attempts)]

(* Requests and uploads stay within the bound; jobs that follow up on      *)
(* other jobs are bounded by the attempts of those.                        *)
Room(n) == Len(rows) + n <= MaxRows

(* A cleanup intent naming key k that has not been carried out.            *)
Owed(k) == \E j \in Row : /\ rows[j].kind = "cleanup" /\ k \in rows[j].keys
                          /\ rows[j].status # "done"

-----------------------------------------------------------------------------
(* Versions: the trigger queue_document_version_cleanup and the statements *)
(* that fire it.                                                           *)

(* Mutation: the trigger forgets the file a deleted version pointed at.    *)
RetiredKeysCacheOnly(v) == {v}

(* The keys a deleted version retires: its files and its cache slot.       *)
RetiredKeys(v) == ({version[v].file} \ {NoFile}) \cup {v}

(* delete_document_version: never the only live version.                   *)
DeleteVersion(v) ==
  /\ LiveVersion(v)
  /\ \E w \in Version \ {v} : LiveVersion(w)
  /\ Room(1)
  /\ rows' = Append(rows, CleanupRow(RetiredKeys(v)))
  /\ version' = [version EXCEPT ![v] = [status |-> "deleted", file |-> NoFile]]
  /\ UNCHANGED <<object, uploads, reading, runs, faults>>

(* The rows of a set of versions in some order.                            *)
Listed(S) == CHOOSE list \in [1..Cardinality(S) -> S] :
               \A v \in S : \E i \in 1..Cardinality(S) : list[i] = v

(* The document goes (deleteCollectionDocuments, project and account       *)
(* deletion): the cascade deletes every version row, each with its intent. *)
DeleteDocument ==
  LET S == {v \in Version : version[v].status # "gone"} IN
  /\ S # {} /\ Room(Cardinality(S))
  /\ rows' = rows \o [i \in 1..Cardinality(S) |->
                         CleanupRow(RetiredKeys(Listed(S)[i]))]
  /\ version' = [v \in Version |-> [status |-> "gone", file |-> NoFile]]
  /\ UNCHANGED <<object, uploads, reading, runs, faults>>

-----------------------------------------------------------------------------
(* Replacement uploads: processReplacementDocumentVersion.                 *)

StartUpload(u) ==
  /\ uploads[u] = "queued"
  /\ uploads' = [uploads EXCEPT ![u] =
                   IF LiveVersion(Target[u]) THEN "copy" ELSE "failed"]
  /\ UNCHANGED <<version, object, reading, rows, runs, faults>>

CopyFile(u) ==
  /\ uploads[u] = "copy"
  /\ object' = [object EXCEPT ![u] = u]
  /\ uploads' = [uploads EXCEPT ![u] = "commit"]
  /\ UNCHANGED <<version, reading, rows, runs, faults>>

(* updateDocumentVersion: matches a live version only.  The trigger names  *)
(* the replaced file and the cache slot, if the path changes at all.       *)
CommitUpload(u) ==
  LET v == Target[u] IN
  /\ uploads[u] = "commit"
  /\ \/ /\ LiveVersion(v)
        /\ version' = [version EXCEPT ![v].file = u]
        /\ IF version[v].file # u
           THEN Room(1) /\ rows' = Append(rows, CleanupRow(RetiredKeys(v)))
           ELSE UNCHANGED rows
        /\ uploads' = [uploads EXCEPT ![u] = "record"]
     \/ /\ ~LiveVersion(v)
        /\ uploads' = [uploads EXCEPT ![u] = "failed"]
        /\ UNCHANGED <<version, rows>>
  /\ UNCHANGED <<object, reading, runs, faults>>

(* The upload file row is marked completed; no later attempt repeats it.   *)
RecordUpload(u) ==
  /\ uploads[u] = "record"
  /\ uploads' = [uploads EXCEPT ![u] = "completed"]
  /\ UNCHANGED <<version, object, reading, rows, runs, faults>>

(* The worker dies or loses its lease: another attempt starts over.        *)
RetryUpload(u) ==
  /\ uploads[u] \in {"copy", "commit", "record"}
  /\ uploads' = [uploads EXCEPT ![u] = "queued"]
  /\ Fault("retry")
  /\ UNCHANGED <<version, object, reading, rows, runs>>

-----------------------------------------------------------------------------
(* Readers: read_document of a legacy Office version.                      *)

StartRead(v) ==
  /\ LiveVersion(v) /\ reading[v] = NoFile
  /\ reading' = [reading EXCEPT ![v] = version[v].file]
  /\ UNCHANGED <<version, object, uploads, rows, runs, faults>>

(* On a cache miss the read asks for the text to be computed; the dedupe   *)
(* key precompute:<version> keeps one live row of a version.               *)
EndRead(v) ==
  /\ reading[v] # NoFile
  /\ reading' = [reading EXCEPT ![v] = NoFile]
  /\ \/ /\ object[v] = NoFile
        /\ ~\E j \in Row : /\ rows[j].kind = "precompute" /\ rows[j].of = v
                           /\ rows[j].status \in {"pending", "running"}
        /\ Room(1)
        /\ rows' = Append(rows, PrecomputeRow(v, reading[v]))
     \/ UNCHANGED rows
  /\ UNCHANGED <<version, object, uploads, runs, faults>>

-----------------------------------------------------------------------------
(* Claims: claim_db_jobs and claim_db_job.                                 *)

(* Mutation: the attempt limit is off by one.                              *)
HasBudgetInclusive(j) == rows[j].kind = "cleanup" \/ rows[j].attempts <= Attempts

HasBudget(j) == rows[j].kind = "cleanup" \/ rows[j].attempts < Attempts

(* Pending, or running for a process that is gone.                         *)
Claimable(j) ==
  /\ HasBudget(j)
  /\ \/ rows[j].status = "pending"
     \/ rows[j].status = "running" /\ rows[j].holder = NoRunner

(* A claim older than 600 s whose process is still at work.                *)
Hung(j) == /\ rows[j].status = "running" /\ rows[j].holder # NoRunner
           /\ HasBudget(j)

(* A spent row whose process is gone (or hangs) fails when anyone claims.  *)
Abandonable(j) == /\ rows[j].kind = "precompute" /\ rows[j].status = "running"
                  /\ rows[j].attempts = Attempts

TakenBy(r, j) ==
  With(rows[j], "running", r,
       IF rows[j].kind = "precompute" THEN rows[j].attempts + 1 ELSE rows[j].attempts)

Claim(r, j) ==
  /\ runs[r] = Idle
  /\ \/ Claimable(j) /\ UNCHANGED faults
     \/ Hung(j) /\ Fault("zombie")
  /\ rows' = [rows EXCEPT ![j] = TakenBy(r, j)]
  /\ runs' = [runs EXCEPT ![r] =
       Doing(j, IF rows[j].kind = "cleanup" THEN "coalesce" ELSE "check", {}, {}, {})]
  /\ UNCHANGED <<version, object, uploads, reading>>

Abandon(j) ==
  /\ Abandonable(j)
  /\ \/ rows[j].holder = NoRunner /\ UNCHANGED faults
     \/ rows[j].holder # NoRunner /\ Fault("zombie")
  /\ rows' = Put(j, "failed")
  /\ UNCHANGED <<version, object, uploads, reading, runs>>

At(r, pc) == runs[r].pc = pc
Goto(r, pc) == runs' = [runs EXCEPT ![r].pc = pc]

(* The (id, running, attempts, claimed_at) fence of slot r on row j.       *)
Fence(r, j) == rows[j].status = "running" /\ rows[j].holder = r

-----------------------------------------------------------------------------
(* document.cleanup: handleDocumentCleanup and deleteCleanupKeys.          *)

(* Claim the due siblings.  A claim of the run's own row (it went stale at *)
(* once) hands it to nobody: the handler skips its own id.                 *)
Coalesce(r) ==
  LET own == runs[r].row IN
  /\ At(r, "coalesce")
  /\ \E S \in SUBSET {j \in Row : rows[j].kind = "cleanup"
                                  /\ (Claimable(j) \/ Hung(j))} :
       /\ IF \E j \in S : Hung(j) THEN Fault("zombie") ELSE UNCHANGED faults
       /\ rows' = [j \in Row |->
            IF j \notin S THEN rows[j]
            ELSE TakenBy(IF j = own THEN NoRunner ELSE r, j)]
       /\ runs' = [runs EXCEPT ![r] = Doing(own, "guard", S \ {own}, {}, {})]
  /\ UNCHANGED <<version, object, uploads, reading>>

KeysOf(r) == UNION {rows[j].keys : j \in runs[r].batch \cup {runs[r].row}}

(* Mutation: the claim of a writer that threw after its upload is enough.  *)
WriterPending(v) ==
  \E j \in Row : /\ rows[j].kind = "precompute" /\ rows[j].of = v
                 /\ rows[j].status = "pending"

(* document_cache_writer_active.                                           *)
WriterActive(v) ==
  \E j \in Row : /\ rows[j].kind = "precompute" /\ rows[j].of = v
                 /\ rows[j].status = "running"

(* A running writer defers the whole batch.                                *)
Guard(r) ==
  /\ At(r, "guard")
  /\ IF \E v \in KeysOf(r) \cap Version : WriterActive(v)
     THEN Goto(r, "release")
     ELSE Goto(r, "lookup")
  /\ UNCHANGED <<version, object, uploads, reading, rows, faults>>

(* Mutation: the reference check is skipped.                               *)
DeletableAll(keys) == keys

Deletable(keys) == keys \ Referenced

(* One reference check for the whole batch; the deletes come later.        *)
Lookup(r) ==
  /\ At(r, "lookup")
  /\ runs' = [runs EXCEPT ![r] =
       Doing(runs[r].row, "delete", runs[r].batch, Deletable(KeysOf(r)), {})]
  /\ UNCHANGED <<version, object, uploads, reading, rows, faults>>

Delete(r) ==
  /\ At(r, "delete")
  /\ \/ \E k \in runs[r].todo :
          \/ /\ object' = [object EXCEPT ![k] = NoFile]
             /\ runs' = [runs EXCEPT ![r].todo = @ \ {k}]
             /\ UNCHANGED faults
          \/ /\ runs' = [runs EXCEPT ![r] =
                  Doing(runs[r].row, "delete", runs[r].batch, runs[r].todo \ {k},
                        runs[r].failed \cup {k})]
             /\ Fault("throw")
             /\ UNCHANGED object
     \/ /\ runs[r].todo = {}
        /\ Goto(r, "settle")
        /\ UNCHANGED <<object, faults>>
  /\ UNCHANGED <<version, uploads, reading, rows>>

(* Mutation: a row is settled by the run's outcome, not by its own keys.   *)
OutcomeOfRun(r, j) ==
  IF At(r, "release") \/ rows[runs[r].row].keys \cap runs[r].failed # {}
  THEN "pending" ELSE "done"

(* Each row has the outcome of its own keys.                               *)
OutcomeOf(r, j) ==
  IF At(r, "release") \/ rows[j].keys \cap runs[r].failed # {}
  THEN "pending" ELSE "done"

(* settleCoalescedJob for a sibling, then the runner's own update; a write *)
(* that errs is only logged.                                               *)
SettleRow(r, j) ==
  \/ Fence(r, j) /\ rows' = Put(j, OutcomeOf(r, j)) /\ UNCHANGED faults
  \/ ~Fence(r, j) /\ UNCHANGED <<rows, faults>>
  \/ /\ Fence(r, j) /\ Fault("throw")
     /\ rows' = Put(j, "running")

Settle(r) ==
  /\ At(r, "settle") \/ At(r, "release")
  /\ \/ \E j \in runs[r].batch :
          SettleRow(r, j) /\ runs' = [runs EXCEPT ![r].batch = @ \ {j}]
     \/ /\ runs[r].batch = {}
        /\ SettleRow(r, runs[r].row)
        /\ runs' = [runs EXCEPT ![r] = Idle]
  /\ UNCHANGED <<version, object, uploads, reading>>

(* A lookup that errs: the siblings are handed back and the row retried.   *)
CleanupThrows(r) ==
  /\ At(r, "guard") \/ At(r, "lookup")
  /\ Goto(r, "release")
  /\ Fault("throw")
  /\ UNCHANGED <<version, object, uploads, reading, rows>>

-----------------------------------------------------------------------------
(* document.precompute_text: handleDocumentPrecomputeText.                 *)

IsCurrent(j) ==
  /\ LiveVersion(rows[j].of)
  /\ version[rows[j].of].file = rows[j].file

Check(r) ==
  /\ At(r, "check")
  /\ Goto(r, IF IsCurrent(runs[r].row) THEN "load" ELSE "retire")
  /\ UNCHANGED <<version, object, uploads, reading, rows, faults>>

(* downloadFile; a missing source is retried until the budget is spent.    *)
Load(r) ==
  /\ At(r, "load")
  /\ Goto(r, IF object[rows[runs[r].row].file] = NoFile THEN "fail" ELSE "write")
  /\ UNCHANGED <<version, object, uploads, reading, rows, faults>>

Write(r) ==
  LET job == rows[runs[r].row] IN
  /\ At(r, "write")
  /\ object' = [object EXCEPT ![job.of] = job.file]
  /\ Goto(r, "recheck")
  /\ UNCHANGED <<version, uploads, reading, rows, faults>>

Recheck(r) ==
  /\ At(r, "recheck")
  /\ Goto(r, IF IsCurrent(runs[r].row) THEN "finish" ELSE "retire")
  /\ UNCHANGED <<version, object, uploads, reading, rows, faults>>

(* retireCache: a cleanup row for the cache slot of the version.           *)
Retire(r) ==
  LET v == rows[runs[r].row].of IN
  /\ At(r, "retire")
  /\ rows' = Append(rows, CleanupRow({v}))
  /\ Goto(r, "finish")
  /\ UNCHANGED <<version, object, uploads, reading, faults>>

PrecomputeThrows(r) ==
  /\ runs[r].pc \in {"check", "load", "write", "recheck", "retire"}
  /\ Goto(r, "fail")
  /\ Fault("throw")
  /\ UNCHANGED <<version, object, uploads, reading, rows>>

(* The runner records the outcome: done, another attempt, or failed.       *)
EndPrecompute(r) ==
  LET j == runs[r].row IN
  /\ At(r, "finish") \/ At(r, "fail")
  /\ IF Fence(r, j)
     THEN rows' = Put(j, IF At(r, "finish") THEN "done"
                         ELSE IF rows[j].attempts < Attempts THEN "pending"
                         ELSE "failed")
     ELSE UNCHANGED rows
  /\ runs' = [runs EXCEPT ![r] = Idle]
  /\ UNCHANGED <<version, object, uploads, reading, faults>>

-----------------------------------------------------------------------------

Crash(r) ==
  /\ runs[r] # Idle
  /\ runs' = [runs EXCEPT ![r] = Idle]
  /\ rows' = [j \in Row |-> IF rows[j].holder = r
                            THEN With(rows[j], rows[j].status, NoRunner,
                                      rows[j].attempts)
                            ELSE rows[j]]
  /\ Fault("crash")
  /\ UNCHANGED <<version, object, uploads, reading>>

RunStep(r) ==
  \/ Coalesce(r) \/ Guard(r) \/ Lookup(r) \/ Delete(r) \/ Settle(r)
  \/ CleanupThrows(r)
  \/ Check(r) \/ Load(r) \/ Write(r) \/ Recheck(r) \/ Retire(r)
  \/ PrecomputeThrows(r) \/ EndPrecompute(r)

Next ==
  \/ \E v \in Version : DeleteVersion(v) \/ StartRead(v) \/ EndRead(v)
  \/ DeleteDocument
  \/ \E u \in Replacement : \/ StartUpload(u) \/ CopyFile(u) \/ CommitUpload(u)
                             \/ RecordUpload(u) \/ RetryUpload(u)
  \/ \E r \in Runner : RunStep(r) \/ Crash(r) \/ \E j \in Row : Claim(r, j)
  \/ \E j \in Row : Abandon(j)

Spec == Init /\ [][Next]_vars

(* The rows there can ever be: an attempt at a precompute row adds one.     *)
RowBound == MaxRows * (Attempts + 1)

(* A started run goes on, and due rows are claimed oldest first, so none   *)
(* is passed over for ever.                                                *)
Fairness ==
  /\ \A r \in Runner : WF_vars(RunStep(r))
  /\ \A j \in 1..RowBound : SF_vars(j \in Row /\ \E r \in Runner : Claim(r, j))
  /\ WF_vars(\E j \in Row : Abandon(j))

FairSpec == Spec /\ Fairness

-----------------------------------------------------------------------------
(* Properties.                                                             *)

(* "Never delete bytes a surviving version still references": the file a   *)
(* live version points at is in the object store, whatever cleanup runs    *)
(* are at work on rows that name it.                                       *)
LiveFilesExist ==
  \A v \in Version : LiveVersion(v) => object[version[v].file] # NoFile

(* The upload of u has been committed to a version at some time.           *)
Committed(u) == u \in Replacement => uploads[u] \in {"record", "completed"}

(* No retired file is forgotten: bytes that some version once pointed at   *)
(* and none does any more are named by a cleanup row that is still owed,   *)
(* however rows are coalesced, settled, lost and claimed again.            *)
RetiredFilesOwed ==
  \A u \in Upload :
    object[u] # NoFile /\ Committed(u) /\ u \notin Referenced => Owed(u)

(* No stale cache is forgotten: text of a file its version no longer has,  *)
(* or of a deleted version, is named by a cleanup row that is still owed;  *)
(* a writer overtaken by the deletion cannot bring it back.                *)
StaleCacheOwed ==
  \A v \in Version :
    /\ object[v] # NoFile
    /\ ~LiveVersion(v) \/ version[v].file # object[v]
    => Owed(v)

(* Erasure completes: bytes no live version points at do not stay.         *)
RetiredFilesErased ==
  \A u \in Upload :
    Committed(u) /\ u \notin Referenced ~> object[u] = NoFile
=============================================================================
