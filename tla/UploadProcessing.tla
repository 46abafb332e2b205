-------------------------- MODULE UploadProcessing --------------------------
(***************************************************************************)
(* One upload session that creates documents.                              *)
(*                                                                         *)
(* The client puts each file under a staging key and reports it; the       *)
(* request seals the object under a key of its own and queues a job.  The  *)
(* worker loops claim jobs under a lease of 30 minutes, copy the sealed    *)
(* object to the document's key, create the document and its first version,*)
(* and delete the sealed object.  The user may cancel the session or delete *)
(* the document at any time; a sweep expires sessions and deletes their    *)
(* objects; another one flips stale documents.  Postgres, the object store *)
(* and the workers fail separately.                                        *)
(*                                                                         *)
(* A best-effort delete is taken to succeed.  Backoff, the order of claims *)
(* and the cap per user only delay a claim.  The purposes that add or      *)
(* replace a version of an existing document are in DocumentCleanup.       *)
(***************************************************************************)
EXTENDS Integers, FiniteSets

CONSTANTS
  File,         \* upload_session_files, each with the id of its document
  Worker,       \* claim loops
  NoWorker,     \* a null locked_by
  MaxAttempts,  \* UPLOAD_JOB_MAX_ATTEMPTS
  MaxRequests,  \* bound: completion requests under way at once
  MaxFaults     \* bound: crashes, hangs and failed calls

ASSUME ConstAssumption ==
  /\ NoWorker \notin Worker
  /\ MaxAttempts \in Nat \ {0}
  /\ MaxRequests \in Nat
  /\ MaxFaults \in Nat

VARIABLES
  session,  \* status and cleaned_at of the upload_sessions row
  files,    \* status, error_code and document_created_at of each file
  jobs,     \* upload_processing_jobs
  docs,     \* documents and whether the first version is stored
  removed,  \* history: how the user deleted each document: with its job
            \* at work on it, or quietly, long after it was created
  store,    \* the objects: staging, sealed and document copy of each file
  owed,     \* live cleanup jobs for the document copy: storage.cleanup deletes
            \* blindly, document.cleanup only what no live version references
  requests, \* completion requests under way
  execs,    \* what each worker loop is doing
  eraser,   \* a cancellation or sweep that deletes the session's objects
  faults    \* faults spent, and whether a step outlasted a lease or a backoff

vars == <<session, files, jobs, docs, removed, store, owed, requests, execs,
          eraser, faults>>

Object  == {"staging", "sealed", "source"} \X File
Sources == {"sealed", "staging"}

FileRow == [status : {"pending_upload", "verifying", "uploaded", "processing",
                      "completed", "error"},
            code : {"none", "processing_failed", "document_deleted", "rejected"},
            created : BOOLEAN]      \* document_created_at is set

JobRow == [status : {"none", "queued", "running", "completed", "error"},
           attempts : 0..MaxAttempts, locked_by : Worker \cup {NoWorker},
           stale : BOOLEAN]         \* locked_at is older than the lease

DocRow == [status : {"none", "processing", "ready", "error"}, version : BOOLEAN]

Request == [file : File, pc : {"drop", "copy", "write", "found", "queue", "refresh"}]

Idle == [pc |-> "idle"]
Exec == {Idle} \cup
  [pc : {"begin", "check", "upsert", "mark", "copy", "version", "ready",
         "fail", "owe", "publish", "unseal", "settle", "reset", "remove",
         "drop", "finish", "refresh"},
   file : File,
   created : BOOLEAN,      \* document_created_at as read at the start
   try : 1..MaxAttempts,
   failed : BOOLEAN, deleted : BOOLEAN]   \* failed, documentDeleted

Eraser == [pc : {"rest", "mark", "delete"}, todo : SUBSET Object]

TypeOK ==
  /\ session \in [status : {"pending_upload", "processing", "completed",
                            "cancelled", "expired", "error"}, cleaned : BOOLEAN]
  /\ files \in [File -> FileRow]
  /\ jobs \in [File -> JobRow]
  /\ docs \in [File -> DocRow]
  /\ removed \in [File -> {"no", "racing", "quiet"}]
  /\ store \subseteq Object
  /\ owed \subseteq {"blind", "checked"} \X File
  /\ requests \subseteq Request
  /\ execs \in [Worker -> Exec]
  /\ eraser \in Eraser
  /\ faults \in [spent : 0..MaxFaults, late : BOOLEAN]

NoJob == [status |-> "none", attempts |-> 0, locked_by |-> NoWorker,
          stale |-> FALSE]
NoDoc == [status |-> "none", version |-> FALSE]
Resting == [pc |-> "rest", todo |-> {}]

Init ==
  /\ session = [status |-> "pending_upload", cleaned |-> FALSE]
  /\ files = [f \in File |-> [status |-> "pending_upload", code |-> "none",
                              created |-> FALSE]]
  /\ jobs = [f \in File |-> NoJob]
  /\ docs = [f \in File |-> NoDoc]
  /\ removed = [f \in File |-> "no"]
  /\ store = {} /\ owed = {} /\ requests = {}
  /\ execs = [w \in Worker |-> Idle]
  /\ eraser = Resting
  /\ faults = [spent |-> 0, late |-> FALSE]

CanFail == faults.spent < MaxFaults
Fault   == CanFail /\ faults' = [faults EXCEPT !.spent = @ + 1]
Late    == CanFail /\ faults' = [spent |-> faults.spent + 1, late |-> TRUE]
NoFault == UNCHANGED faults

-----------------------------------------------------------------------------
(* Statements that several parts use.                                      *)

SetFile(f, status, code) ==
  files' = [files EXCEPT ![f].status = status, ![f].code = code]

(* refresh_upload_session_status, from the file statuses fs.               *)
StatusFrom(fs) ==
  LET has(S) == \E f \in File : fs[f].status \in S IN
  IF has({"pending_upload", "verifying"}) THEN "pending_upload"
  ELSE IF has({"uploaded", "processing"}) THEN "processing"
  ELSE IF has({"completed"}) THEN "completed" ELSE "error"

RefreshFrom(fs) ==
  session' = IF session.status \in {"cancelled", "expired"} THEN session
             ELSE [status |-> StatusFrom(fs),
                   cleaned |-> session.cleaned \/ StatusFrom(fs) = "completed"]
Refresh == RefreshFrom(files)

HandedOver == {"uploaded", "processing", "completed"}

-----------------------------------------------------------------------------
(* The client and its completion requests.                                 *)

(* The client puts the object under the signed URL.                        *)
PutObject(f) ==
  /\ files[f].status = "pending_upload"
  /\ session.status \notin {"cancelled", "expired"}
  /\ store' = store \cup {<<"staging", f>>}
  /\ UNCHANGED <<session, files, jobs, docs, removed, owed, requests, execs,
                 eraser, faults>>

(* A verification claim is free, or 5 minutes old: its request has died,   *)
(* or it hangs.                                                            *)
VerifyFree(f) ==
  \/ files[f].status = "pending_upload" /\ NoFault
  \/ /\ files[f].status = "verifying"
     /\ IF \E r \in requests : r.file = f /\ r.pc \in {"copy", "write", "found"}
        THEN Late ELSE NoFault

Accepts ==
  /\ session.status \notin {"cancelled", "expired"}
  /\ Cardinality(requests) < MaxRequests

(* completeUploadSessionFile: the file is claimed for verification; one    *)
(* already sealed goes to the queue, and a settled one refreshes the       *)
(* session.                                                                *)
Complete(f) ==
  /\ Accepts
  /\ \/ /\ VerifyFree(f)
        /\ SetFile(f, "verifying", "none")
        /\ requests' = requests \cup {[file |-> f, pc |-> "copy"]}
     \/ /\ files[f].status \in HandedOver \cup {"error"}
        /\ requests' = requests \cup {[file |-> f,
             pc |-> IF files[f].status = "uploaded" THEN "queue" ELSE "refresh"]}
        /\ NoFault /\ UNCHANGED files
  /\ UNCHANGED <<session, jobs, docs, removed, store, owed, execs, eraser>>

(* The client reports that the direct upload failed; the report of a file  *)
(* that is further on only refreshes the session.                          *)
ReportFailed(f) ==
  /\ Accepts
  /\ \/ /\ VerifyFree(f)
        /\ SetFile(f, "pending_upload", "none")
        /\ requests' = requests \cup {[file |-> f, pc |-> "drop"]}
     \/ /\ files[f].status \in HandedOver \cup {"error"}
        /\ requests' = requests \cup {[file |-> f, pc |-> "refresh"]}
        /\ NoFault /\ UNCHANGED files
  /\ UNCHANGED <<session, jobs, docs, removed, store, owed, execs, eraser>>

(* refreshUploadUrls reclaims an old verification claim.                   *)
RefreshUrls(f) ==
  /\ session.status = "pending_upload"
  /\ files[f].status = "verifying" /\ VerifyFree(f)
  /\ SetFile(f, "pending_upload", "none")
  /\ UNCHANGED <<session, jobs, docs, removed, store, owed, requests, execs,
                 eraser>>

Advance(r, pc) == requests' = (requests \ {r}) \cup {[r EXCEPT !.pc = pc]}
Over(r)        == requests' = requests \ {r}

(* The update that ends a verification matches only its status.            *)
Verdict(f, status, code) ==
  IF files[f].status = "verifying" THEN SetFile(f, status, code)
                                   ELSE UNCHANGED files

DropObjects(r) ==
  LET f == r.file IN
  /\ r.pc = "drop"
  /\ store' = store \ (Sources \X {f})
  /\ IF files[f].status \in {"pending_upload", "verifying"}
     THEN SetFile(f, "error", "rejected") ELSE UNCHANGED files
  /\ Advance(r, "refresh")
  /\ UNCHANGED <<session, jobs, docs, removed, owed, execs, eraser, faults>>

(* verifyAndSealSessionFiles: an object already sealed, none staged, one   *)
(* of the wrong size or type, or one to copy.                              *)
Seal(r) ==
  LET f == r.file IN
  /\ r.pc = "copy"
  /\ \/ /\ <<"sealed", f>> \in store
        /\ Advance(r, "found")
        /\ UNCHANGED <<store, files>>
     \/ /\ store \cap (Sources \X {f}) = {}
        /\ Verdict(f, "pending_upload", "none")
        /\ Advance(r, "refresh") /\ UNCHANGED store
     \/ /\ store \cap (Sources \X {f}) = {<<"staging", f>>}
        /\ \/ /\ store' = store \ {<<"staging", f>>}
              /\ Verdict(f, "error", "rejected")
              /\ Advance(r, "refresh")
           \/ /\ store' = store \cup {<<"sealed", f>>}
              /\ Advance(r, "write") /\ UNCHANGED files
  /\ UNCHANGED <<session, jobs, docs, removed, owed, execs, eraser, faults>>

(* A fresh copy is looked at once more, and the staged object is deleted.  *)
WriteSeal(r) ==
  LET f == r.file IN
  /\ r.pc \in {"write", "found"}
  /\ IF r.pc = "found" \/ <<"sealed", f>> \in store
     THEN /\ store' = IF r.pc = "found" THEN store ELSE store \ {<<"staging", f>>}
          /\ Verdict(f, "uploaded", "none")
          /\ Advance(r, IF files[f].status = "verifying" THEN "queue" ELSE "refresh")
     ELSE Over(r) /\ UNCHANGED <<store, files>>
  /\ UNCHANGED <<session, jobs, docs, removed, owed, execs, eraser, faults>>

(* queue_upload_session_file_processing raises, or inserts the job once.   *)
QueueJob(r) ==
  LET f == r.file
      ready == /\ session.status \notin {"cancelled", "expired"}
               /\ files[f].status \in HandedOver IN
  /\ r.pc = "queue"
  /\ IF ready
     THEN /\ jobs' = IF jobs[f].status = "none"
                     THEN [jobs EXCEPT ![f].status = "queued"] ELSE jobs
          /\ Advance(r, "refresh")
     ELSE Over(r) /\ UNCHANGED jobs
  /\ UNCHANGED <<session, files, docs, removed, store, owed, execs, eraser, faults>>

RefreshRequest(r) ==
  /\ r.pc = "refresh"
  /\ Refresh /\ Over(r)
  /\ UNCHANGED <<files, jobs, docs, removed, store, owed, execs, eraser, faults>>

RequestStep(r) ==
  DropObjects(r) \/ Seal(r) \/ WriteSeal(r) \/ QueueJob(r) \/ RefreshRequest(r)

CrashRequest(r) ==
  /\ Fault /\ Over(r)
  /\ UNCHANGED <<session, files, jobs, docs, removed, store, owed, execs, eraser>>

-----------------------------------------------------------------------------
(* Cancellation, expiry and the sweep of session objects.                  *)

(* cancelUploadSession looks at the session and its files first ...        *)
BeginCancel ==
  /\ eraser.pc = "rest"
  /\ session.status = "pending_upload"
  /\ \A f \in File : files[f].status \notin HandedOver
  /\ eraser' = [pc |-> "mark", todo |-> {}]
  /\ UNCHANGED <<session, files, jobs, docs, removed, store, owed, requests,
                 execs, faults>>

(* ... and then matches only the status of the session.                    *)
MarkCancelled ==
  /\ eraser.pc = "mark"
  /\ IF session.status = "pending_upload"
     THEN /\ session' = [session EXCEPT !.status = "cancelled"]
          /\ eraser' = [pc |-> "delete", todo |-> Sources \X File]
     ELSE eraser' = Resting /\ UNCHANGED session
  /\ UNCHANGED <<files, jobs, docs, removed, store, owed, requests, execs, faults>>

(* The deadline passes; a request or the sweep notices.                    *)
Expire ==
  /\ session.status = "pending_upload"
  /\ session' = [session EXCEPT !.status = "expired"]
  /\ UNCHANGED <<files, jobs, docs, removed, store, owed, requests, execs,
                 eraser, faults>>

(* cleanupUploadSessions spares the objects of files handed over.          *)
BeginErase ==
  /\ eraser.pc = "rest"
  /\ session.status \in {"expired", "cancelled", "error"} /\ ~session.cleaned
  /\ eraser' = [pc |-> "delete", todo |->
       Sources \X {f \in File : files[f].status \notin HandedOver}]
  /\ UNCHANGED <<session, files, jobs, docs, removed, store, owed, requests,
                 execs, faults>>

EraseObject(o) ==
  /\ eraser.pc = "delete" /\ o \in eraser.todo
  /\ store' = store \ {o}
  /\ eraser' = [eraser EXCEPT !.todo = @ \ {o}]
  /\ UNCHANGED <<session, files, jobs, docs, removed, owed, requests, execs, faults>>

FinishErase ==
  /\ eraser.pc = "delete" /\ eraser.todo = {}
  /\ session' = [session EXCEPT !.cleaned = TRUE]
  /\ eraser' = Resting
  /\ UNCHANGED <<files, jobs, docs, removed, store, owed, requests, execs, faults>>

CrashErase ==
  /\ eraser.pc # "rest" /\ Fault
  /\ eraser' = Resting
  /\ UNCHANGED <<session, files, jobs, docs, removed, store, owed, requests, execs>>

EraseStep ==
  BeginErase \/ MarkCancelled \/ FinishErase \/ \E o \in Object : EraseObject(o)

-----------------------------------------------------------------------------
(* The lease of a job.                                                     *)

(* Mutation: one attempt too many.                                         *)
HasBudgetInclusive(f) == jobs[f].attempts <= MaxAttempts

HasBudget(f) == jobs[f].attempts < MaxAttempts

(* Mutation: the lease of a dead worker is not looked at.                  *)
QueuedOnly(f) == HasBudget(f) /\ jobs[f].status = "queued"

Claimable(f) ==
  /\ HasBudget(f)
  /\ jobs[f].status = "queued" \/ (jobs[f].status = "running" /\ jobs[f].stale)

(* The loop that requeued the job is still about to reset its file: the    *)
(* backoff, at least 5 s, is over first only if that loop is late.         *)
Resets(v, f) == execs[v] # Idle /\ execs[v].file = f /\ execs[v].pc = "reset"

(* claim_upload_processing_job; processUploadJob then reads the file once. *)
Claim(w, f) ==
  LET row == files[f]
      taken == row.status = "uploaded" \/ row.code = "processing_failed"
      fs == IF taken THEN [files EXCEPT ![f].status = "processing", ![f].code = "none"]
                     ELSE files IN
  /\ execs[w] = Idle /\ Claimable(f)
  /\ jobs' = [jobs EXCEPT ![f] = [status |-> "running", attempts |-> @.attempts + 1,
                                  locked_by |-> w, stale |-> FALSE]]
  /\ files' = fs /\ RefreshFrom(fs)
  /\ execs' = [execs EXCEPT ![w] =
       [pc |-> IF fs[f].status \in {"completed", "error"} THEN "settle" ELSE "begin",
        file |-> f, created |-> row.created, try |-> jobs[f].attempts + 1,
        failed |-> FALSE, deleted |-> FALSE]]
  /\ IF \E v \in Worker : Resets(v, f) THEN Late ELSE NoFault
  /\ UNCHANGED <<docs, removed, store, owed, requests, eraser>>

(* Mutation: a heartbeat does not ask whose lease it renews.               *)
Unowned(w) == TRUE

(* heartbeatJob and the last updates of a job match its owner.             *)
Owns(w) == jobs[execs[w].file].locked_by = w

Works(f) == \E w \in Worker : execs[w] # Idle /\ execs[w].file = f /\ Owns(w)

(* Nobody renews the lease: the owner is dead, or past its wall clock.     *)
LeaseLapses(f) ==
  /\ jobs[f].status = "running" /\ ~jobs[f].stale
  /\ jobs' = [jobs EXCEPT ![f].stale = TRUE]
  /\ IF Works(f) THEN Late ELSE NoFault
  /\ UNCHANGED <<session, files, docs, removed, store, owed, requests, execs,
                 eraser>>

(* cleanupUploadSessions ends a job that died on its last attempt.         *)
EndExhausted(f) ==
  LET fs == IF files[f].status = "processing"
            THEN [files EXCEPT ![f].status = "error", ![f].code = "processing_failed"]
            ELSE files IN
  /\ jobs[f].status = "running" /\ jobs[f].stale /\ ~HasBudget(f)
  /\ jobs' = [jobs EXCEPT ![f].status = "error", ![f].locked_by = NoWorker,
                          ![f].stale = FALSE]
  /\ files' = fs /\ RefreshFrom(fs)
  /\ UNCHANGED <<docs, removed, store, owed, requests, execs, eraser, faults>>

-----------------------------------------------------------------------------
(* processUploadJob.                                                       *)

Renew(f) == jobs' = [jobs EXCEPT ![f].stale = FALSE]
At(w, pc) == execs[w].pc = pc
Goto(w, pc) == execs' = [execs EXCEPT ![w].pc = pc]
Leave(w) == execs' = [execs EXCEPT ![w] = Idle]
GiveUp(w, gone) == execs' = [execs EXCEPT ![w].pc = "fail", ![w].deleted = gone]

(* A failed attempt is retried, unless the document was deleted.           *)
Retries(e) == e.failed /\ ~e.deleted /\ e.try < MaxAttempts

(* The lease was taken over or ended: the update matches nothing, and the  *)
(* loop drops the job.                                                     *)
LoseLease(w) ==
  /\ \/ execs[w].pc \in {"begin", "fail", "publish", "finish"}
     \/ At(w, "settle") /\ Retries(execs[w])
  /\ ~Owns(w)
  /\ Leave(w)
  /\ UNCHANGED <<session, files, jobs, docs, removed, store, owed, requests,
                 eraser, faults>>

(* A heartbeat that follows the writes of a step.                          *)
Heartbeat(w, pc) ==
  IF Owns(w) THEN Renew(execs[w].file) /\ Goto(w, pc)
             ELSE Leave(w) /\ UNCHANGED jobs

BeginFile(w) ==
  LET f == execs[w].file IN
  /\ At(w, "begin") /\ Owns(w)
  /\ Renew(f)
  /\ SetFile(f, "processing", "none")
  /\ IF <<"sealed", f>> \in store THEN Goto(w, "check") ELSE GiveUp(w, FALSE)
  /\ UNCHANGED <<session, docs, removed, store, owed, requests, eraser, faults>>

(* Mutation: the upsert is left to put the row back.                       *)
NeverGone(w) == FALSE

Vanished(w) == execs[w].created /\ docs[execs[w].file].status = "none"

(* processCreatedDocument: a document once created must still exist.       *)
CheckDocument(w) ==
  /\ At(w, "check")
  /\ IF Vanished(w) THEN GiveUp(w, TRUE) ELSE Goto(w, "upsert")
  /\ UNCHANGED <<session, files, jobs, docs, removed, store, owed, requests,
                 eraser, faults>>

UpsertDocument(w) ==
  /\ At(w, "upsert")
  /\ docs' = [docs EXCEPT ![execs[w].file].status = "processing"]
  /\ Goto(w, IF execs[w].created THEN "copy" ELSE "mark")
  /\ UNCHANGED <<session, files, jobs, removed, store, owed, requests, eraser,
                 faults>>

MarkCreated(w) ==
  /\ At(w, "mark")
  /\ files' = [files EXCEPT ![execs[w].file].created = TRUE]
  /\ Goto(w, "copy")
  /\ UNCHANGED <<session, jobs, docs, removed, store, owed, requests, eraser,
                 faults>>

(* copyFile; the rendition is uploaded with it.                            *)
CopySource(w) ==
  LET f == execs[w].file IN
  /\ At(w, "copy")
  /\ IF <<"sealed", f>> \in store
     THEN store' = store \cup {<<"source", f>>} /\ Goto(w, "version")
     ELSE GiveUp(w, FALSE) /\ UNCHANGED store
  /\ UNCHANGED <<session, files, jobs, docs, removed, owed, requests, eraser,
                 faults>>

(* create_document_version, with a stable id, returns the row it finds.    *)
CreateVersion(w) ==
  LET f == execs[w].file IN
  /\ At(w, "version")
  /\ IF docs[f].status = "none"
     THEN GiveUp(w, TRUE) /\ UNCHANGED docs
     ELSE docs' = [docs EXCEPT ![f].version = TRUE] /\ Goto(w, "ready")
  /\ UNCHANGED <<session, files, jobs, removed, store, owed, requests, eraser,
                 faults>>

PublishDocument(w) ==
  LET f == execs[w].file IN
  /\ At(w, "ready")
  /\ IF docs[f].status = "none"
     THEN GiveUp(w, FALSE) /\ UNCHANGED docs
     ELSE docs' = [docs EXCEPT ![f].status = "ready"] /\ Goto(w, "publish")
  /\ UNCHANGED <<session, files, jobs, removed, store, owed, requests, eraser,
                 faults>>

(* A storage or database call of the attempt fails.                        *)
CallFails(w) ==
  /\ execs[w].pc \in {"check", "upsert", "mark", "copy", "version", "ready"}
  /\ Fault /\ GiveUp(w, FALSE)
  /\ UNCHANGED <<session, files, jobs, docs, removed, store, owed, requests, eraser>>

RecordFailure(w) ==
  LET f == execs[w].file IN
  /\ At(w, "fail") /\ Owns(w)
  /\ Renew(f)
  /\ SetFile(f, "error", IF execs[w].deleted THEN "document_deleted"
                                            ELSE "processing_failed")
  /\ execs' = [execs EXCEPT ![w].pc = "owe", ![w].failed = TRUE]
  /\ UNCHANGED <<session, docs, removed, store, owed, requests, eraser, faults>>

(* enqueueStorageCleanup and markCreatedDocumentFailed.                    *)
OweCleanup(w) ==
  LET f == execs[w].file IN
  /\ At(w, "owe")
  /\ owed' = IF execs[w].deleted THEN owed \cup {<<"blind", f>>} ELSE owed
  /\ docs' = IF docs[f].status = "processing"
             THEN [docs EXCEPT ![f].status = "error"] ELSE docs
  /\ Heartbeat(w, "settle")
  /\ UNCHANGED <<session, files, removed, store, requests, eraser, faults>>

CompleteFile(w) ==
  /\ At(w, "publish") /\ Owns(w)
  /\ Renew(execs[w].file)
  /\ SetFile(execs[w].file, "completed", "none")
  /\ Goto(w, "unseal")
  /\ UNCHANGED <<session, docs, removed, store, owed, requests, eraser, faults>>

DropSealed(w) ==
  /\ At(w, "unseal")
  /\ store' = store \ {<<"sealed", execs[w].file>>}
  /\ Heartbeat(w, "settle")
  /\ UNCHANGED <<session, files, docs, removed, owed, requests, eraser, faults>>

EndJob(w, status) ==
  jobs' = [jobs EXCEPT ![execs[w].file].status = status,
                       ![execs[w].file].locked_by = NoWorker,
                       ![execs[w].file].stale = FALSE]

Requeue(w) ==
  /\ At(w, "settle") /\ Retries(execs[w]) /\ Owns(w)
  /\ EndJob(w, "queued") /\ Goto(w, "reset")
  /\ UNCHANGED <<session, files, docs, removed, store, owed, requests, eraser,
                 faults>>

ResetFile(w) ==
  LET f == execs[w].file IN
  /\ At(w, "reset")
  /\ IF files[f].status = "error" /\ files[f].code = "processing_failed"
     THEN SetFile(f, "uploaded", "none") ELSE UNCHANGED files
  /\ Goto(w, "refresh")
  /\ UNCHANGED <<session, jobs, docs, removed, store, owed, requests, eraser,
                 faults>>

(* Mutation: whatever the attempt came to.                                 *)
AnyAttempt(e) == TRUE

RemovesDocument(e) == e.failed

(* removeFailedCreatedDocument: the bytes, then the row if it has failed   *)
(* and holds no version.                                                   *)
RemoveDocument(w) ==
  LET f == execs[w].file IN
  /\ At(w, "settle") /\ ~Retries(execs[w])
  /\ IF RemovesDocument(execs[w])
     THEN /\ store' = store \ {<<"source", f>>}
          /\ docs' = IF docs[f] = [status |-> "error", version |-> FALSE]
                     THEN [docs EXCEPT ![f] = NoDoc] ELSE docs
     ELSE UNCHANGED <<store, docs>>
  /\ Goto(w, "drop")
  /\ UNCHANGED <<session, files, jobs, removed, owed, requests, eraser, faults>>

(* After a failure the sealed objects of all failed files of the session   *)
(* are deleted.                                                            *)
DropFailed(w) ==
  /\ At(w, "drop")
  /\ store' = IF execs[w].failed \/ files[execs[w].file].status = "error"
              THEN store \ ({"sealed"} \X {f \in File : files[f].status = "error"})
              ELSE store
  /\ Goto(w, "finish")
  /\ UNCHANGED <<session, files, jobs, docs, removed, owed, requests, eraser,
                 faults>>

FinishJob(w) ==
  /\ At(w, "finish") /\ Owns(w)
  /\ EndJob(w, "completed") /\ Goto(w, "refresh")
  /\ UNCHANGED <<session, files, docs, removed, store, owed, requests, eraser,
                 faults>>

RefreshSession(w) ==
  /\ At(w, "refresh")
  /\ Refresh /\ Leave(w)
  /\ UNCHANGED <<files, jobs, docs, removed, store, owed, requests, eraser, faults>>

WorkerStep(w) ==
  \/ BeginFile(w) \/ CheckDocument(w) \/ UpsertDocument(w) \/ MarkCreated(w)
  \/ CopySource(w) \/ CreateVersion(w) \/ PublishDocument(w) \/ RecordFailure(w)
  \/ OweCleanup(w) \/ CompleteFile(w) \/ DropSealed(w) \/ Requeue(w)
  \/ ResetFile(w) \/ RemoveDocument(w) \/ DropFailed(w) \/ FinishJob(w)
  \/ RefreshSession(w) \/ LoseLease(w)

CrashWorker(w) ==
  /\ execs[w] # Idle /\ Fault
  /\ Leave(w)
  /\ UNCHANGED <<session, files, jobs, docs, removed, store, owed, requests, eraser>>

-----------------------------------------------------------------------------
(* The user, the stale sweep, and the cleanup jobs.                        *)

Attempted(f) == \E w \in Worker : execs[w] # Idle /\ execs[w].file = f

(* The trigger on document_versions queues the cleanup of the bytes.       *)
DeleteDocument(f) ==
  /\ docs[f].status # "none"
  /\ docs' = [docs EXCEPT ![f] = NoDoc]
  /\ owed' = IF docs[f].version THEN owed \cup {<<"checked", f>>} ELSE owed
  /\ removed' = [removed EXCEPT ![f] =
       IF files[f].created /\ ~Attempted(f) THEN "quiet" ELSE "racing"]
  /\ UNCHANGED <<session, files, jobs, store, requests, execs, eraser, faults>>

(* Mutation: only documents with a conversion to wait for.                 *)
StaleWithVersion(f) == docs[f].status = "processing" /\ docs[f].version

StaleProcessing(f) == docs[f].status = "processing"

(* sweepStaleProcessingDocuments, which knows nothing of upload jobs.      *)
SweepDocument(f) ==
  /\ StaleProcessing(f)
  /\ docs' = [docs EXCEPT ![f].status = "error"]
  /\ UNCHANGED <<session, files, jobs, removed, store, owed, requests, execs,
                 eraser, faults>>

RunCleanup(kind, f) ==
  /\ <<kind, f>> \in owed
  /\ owed' = owed \ {<<kind, f>>}
  /\ store' = IF kind = "checked" /\ docs[f].version THEN store
              ELSE store \ {<<"source", f>>}
  /\ UNCHANGED <<session, files, jobs, docs, removed, requests, execs, eraser,
                 faults>>

-----------------------------------------------------------------------------
Next ==
  \/ \E f \in File : \/ PutObject(f) \/ Complete(f) \/ ReportFailed(f)
                     \/ RefreshUrls(f) \/ LeaseLapses(f) \/ EndExhausted(f)
                     \/ DeleteDocument(f) \/ SweepDocument(f)
                     \/ RunCleanup("blind", f) \/ RunCleanup("checked", f)
  \/ \E r \in requests : RequestStep(r) \/ CrashRequest(r)
  \/ BeginCancel \/ Expire \/ EraseStep \/ CrashErase
  \/ \E w \in Worker : \/ \E f \in File : Claim(w, f)
                       \/ WorkerStep(w) \/ CallFails(w) \/ CrashWorker(w)

Spec == Init /\ [][Next]_vars

(* Worker loops poll and go on, leases of the dead lapse, and both sweeps  *)
(* are on timers.  The client owes nothing, and nothing has to fail.       *)
Fairness ==
  /\ \A w \in Worker : WF_vars(WorkerStep(w)) /\ WF_vars(\E f \in File : Claim(w, f))
  /\ \A f \in File : /\ WF_vars(LeaseLapses(f)) /\ WF_vars(EndExhausted(f))
                     /\ WF_vars(SweepDocument(f))

FairSpec == Spec /\ Fairness

-----------------------------------------------------------------------------
(* Properties.                                                             *)

(* A file reported as completed has its document with its bytes stored,    *)
(* unless the user has deleted it since: through crashes after any write,  *)
(* stolen leases and workers that act on an old read of the file.          *)
CompletedHasBytes ==
  \A f \in File :
    removed[f] = "no" /\ files[f].status = "completed" => docs[f].version /\ <<"source", f>> \in store

(* A result that was published stands: no attempt that lost its lease, no  *)
(* retry and no sweep takes a completed file or an ended job back.         *)
ResultsStand ==
  [][\A f \in File :
       /\ files[f].status = "completed" => files'[f].status = "completed"
       /\ jobs[f].status \in {"completed", "error"} => jobs'[f] = jobs[f]]_vars

(* A job that is queued comes to an end, and the client then sees an       *)
(* outcome for its file, although workers may die at any step; unless some *)
(* step outlasted a lease or a backoff.                                    *)
QueuedFilesEnd ==
  \A f \in File :
    jobs[f].status \in {"queued", "running"} ~>
      \/ faults.late
      \/ /\ jobs[f].status \in {"completed", "error"}
         /\ files[f].status \in {"completed", "error"}

(* No document shows "processing" for ever, whoever died with it.          *)
NoEternalProcessing ==
  \A f \in File : docs[f].status = "processing" ~> docs[f].status # "processing"

(* A document the user deleted between two attempts stays deleted: the     *)
(* marker tells the next attempt, however the last one ended.              *)
StaysDeleted ==
  \A f \in File : removed[f] = "quiet" => docs[f].status = "none"
=============================================================================
