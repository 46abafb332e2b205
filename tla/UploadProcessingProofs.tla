------------------------ MODULE UploadProcessingProofs ------------------------
(***************************************************************************)
(* The safety of an upload session, proved for any number of files,        *)
(* workers, requests, attempts and faults, late workers included: the      *)
(* types, that a completed file has its bytes, that published results      *)
(* stand, and that a document deleted between two attempts stays deleted.  *)
(***************************************************************************)
EXTENDS UploadProcessing, TLAPS

-----------------------------------------------------------------------------
(* The inductive invariants.                                               *)

On(w, f)  == execs[w].pc # "idle" /\ execs[w].file = f
Holds(w, f) == jobs[f].locked_by = w

(* The stages of an attempt before its outcome is recorded.                *)
Working  == {"begin", "check", "upsert", "mark", "copy", "version", "ready", "publish"}
Open     == Working \cup {"fail"}
Unsealed == {"pending_upload", "verifying"}

(* A lease is on a running job, and its holder is the last attempt.        *)
Leases ==
  /\ \A f \in File : jobs[f].locked_by # NoWorker => jobs[f].status = "running"
  /\ \A w \in Worker, f \in File : On(w, f) =>
       /\ execs[w].try <= jobs[f].attempts
       /\ Holds(w, f) => execs[w].try = jobs[f].attempts
  /\ \A v \in Worker, w \in Worker, f \in File :
       On(v, f) /\ On(w, f) /\ execs[v].try = execs[w].try => v = w

(* Only an error has a code, and only a sealed file has a job.             *)
Sealed(f) == files[f].status \notin Unsealed

Codes ==
  /\ \A f \in File : files[f].code # "none" => files[f].status = "error"
  /\ \A f \in File : jobs[f].status # "none" => Sealed(f)
  /\ \A w \in Worker, f \in File : On(w, f) => Sealed(f)

Deleted(f) == files[f].status = "error" /\ files[f].code = "document_deleted"

(* A file follows the attempt that holds its lease, and a failed attempt   *)
(* with no retry left means that the file is never completed.              *)
Stage(w, f) ==
  /\ execs[w].pc \in Open => ~execs[w].failed
  /\ execs[w].pc = "owe" => execs[w].failed
  /\ execs[w].pc \in Open /\ Holds(w, f) => files[f].status = "processing"
  /\ execs[w].failed /\ execs[w].deleted => Deleted(f)
  /\ execs[w].failed /\ execs[w].try = MaxAttempts => files[f].status # "completed"

Stages == \A w \in Worker, f \in File : On(w, f) => Stage(w, f)

(* The bytes of a document, from the copy by the holder of the lease.      *)
Stored(f) == <<"source", f>> \in store

Copied(w, f) ==
  /\ execs[w].pc \in {"version", "ready", "publish"} => Stored(f)
  /\ execs[w].pc \in {"ready", "publish"} => docs[f].version

Kept(f) ==
  /\ <<"checked", f>> \notin owed
  /\ files[f].status = "completed" => docs[f].version /\ Stored(f)
  /\ \A w \in Worker : On(w, f) /\ Holds(w, f) => Copied(w, f)

Bytes ==
  /\ \A f \in File : removed[f] = "no" => Kept(f)
  /\ \A f \in File : <<"blind", f>> \in owed => Deleted(f)

(* What was deleted quietly is known to every attempt.                     *)
Warned(w) == execs[w].created /\ execs[w].pc # "upsert"

Gone ==
  \A f \in File : removed[f] = "quiet" =>
    /\ docs[f].status = "none" /\ files[f].created
    /\ \A w \in Worker : On(w, f) => Warned(w)

Inv == TypeOK /\ Leases /\ Codes /\ Stages

-----------------------------------------------------------------------------
(* Records.                                                                *)

FileStatus == {"pending_upload", "verifying", "uploaded", "processing", "completed",
               "error"}
FileCode   == {"none", "processing_failed", "document_deleted", "rejected"}
JobStatus  == {"none", "queued", "running", "completed", "error"}
DocStatus  == {"none", "processing", "ready", "error"}
RequestPc  == {"drop", "copy", "write", "found", "queue", "refresh"}
ExecPc     == {"begin", "check", "upsert", "mark", "copy", "version", "ready", "fail",
               "owe", "publish", "unseal", "settle", "reset", "remove", "drop",
               "finish", "refresh"}

LEMMA FileFacts ==
  ASSUME NEW r \in FileRow
  PROVE  /\ r.status \in FileStatus /\ r.code \in FileCode /\ r.created \in BOOLEAN
         /\ \A x \in FileStatus : [r EXCEPT !.status = x] \in FileRow
         /\ \A x \in FileCode : [r EXCEPT !.code = x] \in FileRow
         /\ \A x \in BOOLEAN : [r EXCEPT !.created = x] \in FileRow
<1>1. r.status \in FileStatus /\ r.code \in FileCode /\ r.created \in BOOLEAN
  BY SMT DEF FileRow, FileStatus, FileCode
<1>2. \A x \in FileStatus : [r EXCEPT !.status = x] \in FileRow
  BY SMT DEF FileRow, FileStatus
<1>3. \A x \in FileCode : [r EXCEPT !.code = x] \in FileRow
  BY SMT DEF FileRow, FileCode
<1>4. \A x \in BOOLEAN : [r EXCEPT !.created = x] \in FileRow
  BY SMT DEF FileRow
<1>. QED
  BY <1>1, <1>2, <1>3, <1>4

LEMMA JobFacts ==
  ASSUME NEW r \in JobRow
  PROVE  /\ r.status \in JobStatus /\ r.attempts \in 0..MaxAttempts
         /\ r.locked_by \in Worker \cup {NoWorker} /\ r.stale \in BOOLEAN
         /\ \A x \in JobStatus : [r EXCEPT !.status = x] \in JobRow
         /\ \A x \in Worker \cup {NoWorker} : [r EXCEPT !.locked_by = x] \in JobRow
         /\ \A x \in BOOLEAN : [r EXCEPT !.stale = x] \in JobRow
<1>1. /\ r.status \in JobStatus /\ r.attempts \in 0..MaxAttempts
      /\ r.locked_by \in Worker \cup {NoWorker} /\ r.stale \in BOOLEAN
  BY SMT DEF JobRow, JobStatus
<1>2. \A x \in JobStatus : [r EXCEPT !.status = x] \in JobRow
  BY SMT DEF JobRow, JobStatus
<1>3. \A x \in Worker \cup {NoWorker} : [r EXCEPT !.locked_by = x] \in JobRow
  BY SMT DEF JobRow
<1>4. \A x \in BOOLEAN : [r EXCEPT !.stale = x] \in JobRow
  BY SMT DEF JobRow
<1>. QED
  BY <1>1, <1>2, <1>3, <1>4

LEMMA DocFacts ==
  ASSUME NEW r \in DocRow
  PROVE  /\ r.status \in DocStatus /\ r.version \in BOOLEAN
         /\ \A x \in DocStatus : [r EXCEPT !.status = x] \in DocRow
         /\ \A x \in BOOLEAN : [r EXCEPT !.version = x] \in DocRow
<1>1. r.status \in DocStatus /\ r.version \in BOOLEAN
  BY SMT DEF DocRow, DocStatus
<1>2. \A x \in DocStatus : [r EXCEPT !.status = x] \in DocRow
  BY SMT DEF DocRow, DocStatus
<1>3. \A x \in BOOLEAN : [r EXCEPT !.version = x] \in DocRow
  BY SMT DEF DocRow
<1>. QED
  BY <1>1, <1>2, <1>3

Attempt == [pc : ExecPc, file : File, created : BOOLEAN, try : 1..MaxAttempts,
            failed : BOOLEAN, deleted : BOOLEAN]

LEMMA IdleFacts == Exec = {Idle} \cup Attempt /\ Idle.pc = "idle" /\ "idle" \notin ExecPc
<1>1. Exec = {Idle} \cup Attempt
  BY Zenon DEF Exec, Attempt, ExecPc
<1>2. Idle.pc = "idle"
  BY DEF Idle
<1>3. "idle" \notin ExecPc
  BY DEF ExecPc
<1>. QED
  BY <1>1, <1>2, <1>3

LEMMA AttemptFields ==
  ASSUME NEW e \in Attempt
  PROVE  /\ e.pc \in ExecPc /\ e.file \in File /\ e.created \in BOOLEAN
         /\ e.try \in 1..MaxAttempts /\ e.failed \in BOOLEAN /\ e.deleted \in BOOLEAN
BY SMT DEF Attempt

LEMMA AttemptFacts ==
  ASSUME NEW e \in Exec
  PROVE  /\ e # Idle <=> e.pc # "idle"
         /\ e.pc # "idle" => e \in Attempt
<1>1. e = Idle \/ e \in Attempt
  BY IdleFacts
<1>2. e \in Attempt => e.pc # "idle"
  BY IdleFacts, AttemptFields
<1>. QED
  BY <1>1, <1>2, IdleFacts

LEMMA AttemptSet ==
  ASSUME NEW e \in Attempt
  PROVE  /\ \A x \in ExecPc : [e EXCEPT !.pc = x] \in Attempt
         /\ \A x \in BOOLEAN : [e EXCEPT !.failed = x] \in Attempt
         /\ \A x \in BOOLEAN : [e EXCEPT !.deleted = x] \in Attempt
<1>1. \A x \in ExecPc : [e EXCEPT !.pc = x] \in Attempt
  BY SMT DEF Attempt
<1>2. \A x \in BOOLEAN : [e EXCEPT !.failed = x] \in Attempt
  BY SMT DEF Attempt
<1>3. \A x \in BOOLEAN : [e EXCEPT !.deleted = x] \in Attempt
  BY SMT DEF Attempt
<1>. QED
  BY <1>1, <1>2, <1>3

-----------------------------------------------------------------------------
(* What updates do.                                                        *)

Files1(f) == /\ files' \in [File -> FileRow]
             /\ \A g \in File \ {f} : files'[g] = files[g]

LEMMA FileTo ==
  ASSUME TypeOK, NEW f \in File, NEW x \in FileRow, files' = [files EXCEPT ![f] = x]
  PROVE  Files1(f) /\ files'[f] = x
BY SMT DEF TypeOK, Files1

LEMMA PairFacts ==
  ASSUME TypeOK, NEW f \in File, NEW status \in FileStatus, NEW code \in FileCode,
         files' = [files EXCEPT ![f].status = status, ![f].code = code]
  PROVE  /\ Files1(f) /\ files'[f].status = status /\ files'[f].code = code
         /\ files'[f].created = files[f].created
<1>. DEFINE r == files[f]
            x1 == [r EXCEPT !.status = status]
            x == [x1 EXCEPT !.code = code]
<1>1. r \in FileRow
  BY DEF TypeOK
<1>2. x1 \in FileRow
  BY <1>1, FileFacts
<1>3. x \in FileRow
  BY <1>2, FileFacts
<1>4. files' = [files EXCEPT ![f] = x]
  BY Zenon
<1>5. x.status = status /\ x.code = code /\ x.created = files[f].created
  BY <1>1, SMT DEF FileRow
<1>. HIDE DEF x
<1>. QED
  BY <1>3, <1>4, <1>5, FileTo

LEMMA SetFileFacts ==
  ASSUME TypeOK, NEW f \in File, NEW status \in FileStatus, NEW code \in FileCode,
         SetFile(f, status, code)
  PROVE  /\ Files1(f) /\ files'[f].status = status /\ files'[f].code = code
         /\ files'[f].created = files[f].created
BY PairFacts DEF SetFile

LEMMA CreatedFacts ==
  ASSUME TypeOK, NEW f \in File, files' = [files EXCEPT ![f].created = TRUE]
  PROVE  /\ Files1(f) /\ files'[f].status = files[f].status
         /\ files'[f].code = files[f].code /\ files'[f].created
<1>. DEFINE r == files[f]
            x == [r EXCEPT !.created = TRUE]
<1>1. r \in FileRow
  BY DEF TypeOK
<1>2. x \in FileRow
  BY <1>1, FileFacts
<1>3. files' = [files EXCEPT ![f] = x]
  BY Zenon
<1>4. x.status = r.status /\ x.code = r.code /\ x.created
  BY <1>1, SMT DEF FileRow
<1>. HIDE DEF x
<1>. QED
  BY <1>2, <1>3, <1>4, FileTo

Jobs1(f) == /\ jobs' \in [File -> JobRow]
            /\ \A g \in File \ {f} : jobs'[g] = jobs[g]

LEMMA JobTo ==
  ASSUME TypeOK, NEW f \in File, NEW x \in JobRow, jobs' = [jobs EXCEPT ![f] = x]
  PROVE  Jobs1(f) /\ jobs'[f] = x
BY SMT DEF TypeOK, Jobs1

(* A lease or its age is set; and a job ends, or goes back to the queue.   *)
LEMMA StaleFacts ==
  ASSUME TypeOK, NEW f \in File, NEW stale \in BOOLEAN,
         jobs' = [jobs EXCEPT ![f].stale = stale]
  PROVE  /\ Jobs1(f) /\ jobs'[f].status = jobs[f].status
         /\ jobs'[f].attempts = jobs[f].attempts
         /\ jobs'[f].locked_by = jobs[f].locked_by
<1>. DEFINE r == jobs[f]
            x == [r EXCEPT !.stale = stale]
<1>1. r \in JobRow
  BY DEF TypeOK
<1>2. x \in JobRow
  BY <1>1, JobFacts
<1>3. jobs' = [jobs EXCEPT ![f] = x]
  BY Zenon
<1>4. x.status = r.status /\ x.attempts = r.attempts /\ x.locked_by = r.locked_by
  BY <1>1, SMT DEF JobRow
<1>. HIDE DEF x
<1>. QED
  BY <1>2, <1>3, <1>4, JobTo

LEMMA EndFacts ==
  ASSUME TypeOK, NEW f \in File, NEW status \in JobStatus,
         jobs' = [jobs EXCEPT ![f].status = status, ![f].locked_by = NoWorker,
                              ![f].stale = FALSE]
  PROVE  /\ Jobs1(f) /\ jobs'[f].status = status /\ jobs'[f].locked_by = NoWorker
         /\ jobs'[f].attempts = jobs[f].attempts
<1>. DEFINE r == jobs[f]
            x1 == [r EXCEPT !.status = status]
            x2 == [x1 EXCEPT !.locked_by = NoWorker]
            x == [x2 EXCEPT !.stale = FALSE]
<1>1. r \in JobRow
  BY DEF TypeOK
<1>2. x1 \in JobRow
  BY <1>1, JobFacts
<1>3. x2 \in JobRow
  BY <1>2, JobFacts
<1>4. x \in JobRow
  BY <1>3, JobFacts
<1>5. jobs' = [jobs EXCEPT ![f] = x]
  BY Zenon
<1>6. x.status = status /\ x.attempts = r.attempts /\ x.locked_by = NoWorker
  BY <1>1, SMT DEF JobRow
<1>. HIDE DEF x
<1>. QED
  BY <1>4, <1>5, <1>6, JobTo

Docs1(f) == /\ docs' \in [File -> DocRow]
            /\ \A g \in File \ {f} : docs'[g] = docs[g]

LEMMA DocTo ==
  ASSUME TypeOK, NEW f \in File, NEW x \in DocRow, docs' = [docs EXCEPT ![f] = x]
  PROVE  Docs1(f) /\ docs'[f] = x
BY SMT DEF TypeOK, Docs1

LEMMA DocStatusFacts ==
  ASSUME TypeOK, NEW f \in File, NEW status \in DocStatus,
         docs' = [docs EXCEPT ![f].status = status]
  PROVE  Docs1(f) /\ docs'[f].status = status /\ docs'[f].version = docs[f].version
<1>. DEFINE r == docs[f]
            x == [r EXCEPT !.status = status]
<1>1. r \in DocRow
  BY DEF TypeOK
<1>2. x \in DocRow
  BY <1>1, DocFacts
<1>3. docs' = [docs EXCEPT ![f] = x]
  BY Zenon
<1>4. x.status = status /\ x.version = r.version
  BY <1>1, SMT DEF DocRow
<1>. HIDE DEF x
<1>. QED
  BY <1>2, <1>3, <1>4, DocTo

LEMMA DocVersionFacts ==
  ASSUME TypeOK, NEW f \in File, docs' = [docs EXCEPT ![f].version = TRUE]
  PROVE  Docs1(f) /\ docs'[f].status = docs[f].status /\ docs'[f].version
<1>. DEFINE r == docs[f]
            x == [r EXCEPT !.version = TRUE]
<1>1. r \in DocRow
  BY DEF TypeOK
<1>2. x \in DocRow
  BY <1>1, DocFacts
<1>3. docs' = [docs EXCEPT ![f] = x]
  BY Zenon
<1>4. x.version /\ x.status = r.status
  BY <1>1, SMT DEF DocRow
<1>. HIDE DEF x
<1>. QED
  BY <1>2, <1>3, <1>4, DocTo

-----------------------------------------------------------------------------
(* How worker loops move on.                                               *)

Execs1(w) == /\ execs' \in [Worker -> Exec]
             /\ \A v \in Worker \ {w} : execs'[v] = execs[v]

LEMMA ExecTo ==
  ASSUME TypeOK, NEW w \in Worker, NEW x \in Exec, execs' = [execs EXCEPT ![w] = x]
  PROVE  Execs1(w) /\ execs'[w] = x
<1>1. execs \in [Worker -> Exec]
  BY DEF TypeOK
<1>. QED
  BY <1>1, Zenon DEF Execs1

LEMMA Active ==
  ASSUME TypeOK, NEW w \in Worker
  PROVE  /\ execs[w] \in Exec
         /\ execs[w] # Idle <=> execs[w].pc # "idle"
         /\ execs[w].pc # "idle" => execs[w] \in Attempt
<1>1. execs[w] \in Exec
  BY DEF TypeOK
<1>. QED
  BY <1>1, AttemptFacts

(* The same attempt on the same file.                                      *)
Same(e, x) ==
  /\ e \in Attempt /\ x \in Attempt
  /\ x.file = e.file /\ x.try = e.try /\ x.created = e.created

LEMMA GotoFacts ==
  ASSUME TypeOK, NEW w \in Worker, execs[w].pc # "idle", NEW pc \in ExecPc, Goto(w, pc)
  PROVE  /\ Execs1(w) /\ Same(execs[w], execs'[w]) /\ execs'[w].pc = pc
         /\ execs'[w].failed = execs[w].failed
         /\ execs'[w].deleted = execs[w].deleted
<1>. DEFINE e == execs[w]
            x == [e EXCEPT !.pc = pc]
<1>1. e \in Attempt
  BY Active
<1>2. x \in Attempt
  BY <1>1, AttemptSet
<1>3. x \in Exec
  BY <1>2, IdleFacts
<1>4. execs' = [execs EXCEPT ![w] = x]
  BY Zenon DEF Goto
<1>5. /\ x.file = e.file /\ x.try = e.try /\ x.created = e.created /\ x.pc = pc
      /\ x.failed = e.failed /\ x.deleted = e.deleted
  BY <1>1, SMT DEF Attempt
<1>. HIDE DEF x
<1>6. Execs1(w) /\ execs'[w] = x
  BY <1>3, <1>4, ExecTo
<1>. QED
  BY <1>1, <1>2, <1>5, <1>6 DEF Same

LEMMA GiveUpFacts ==
  ASSUME TypeOK, NEW w \in Worker, execs[w].pc # "idle", NEW gone \in BOOLEAN,
         GiveUp(w, gone)
  PROVE  /\ Execs1(w) /\ Same(execs[w], execs'[w]) /\ execs'[w].pc = "fail"
         /\ execs'[w].failed = execs[w].failed
<1>. DEFINE e == execs[w]
            x1 == [e EXCEPT !.pc = "fail"]
            x == [x1 EXCEPT !.deleted = gone]
<1>1. e \in Attempt /\ "fail" \in ExecPc
  BY Active DEF ExecPc
<1>2. x1 \in Attempt
  BY <1>1, AttemptSet
<1>3. x \in Attempt
  BY <1>2, AttemptSet
<1>4. x \in Exec
  BY <1>3, IdleFacts
<1>5. execs' = [execs EXCEPT ![w] = x]
  BY Zenon DEF GiveUp
<1>6. /\ x.file = e.file /\ x.try = e.try /\ x.created = e.created /\ x.pc = "fail"
      /\ x.failed = e.failed
  BY <1>1, SMT DEF Attempt
<1>. HIDE DEF x
<1>7. Execs1(w) /\ execs'[w] = x
  BY <1>4, <1>5, ExecTo
<1>. QED
  BY <1>1, <1>3, <1>6, <1>7 DEF Same

LEMMA LeaveFacts ==
  ASSUME TypeOK, NEW w \in Worker, Leave(w)
  PROVE  Execs1(w) /\ execs'[w].pc = "idle"
<1>1. Idle \in Exec /\ Idle.pc = "idle"
  BY IdleFacts
<1>2. Execs1(w) /\ execs'[w] = Idle
  BY <1>1, ExecTo DEF Leave
<1>. QED
  BY <1>1, <1>2

-----------------------------------------------------------------------------
(* Which actions change which variable.                                    *)

Client(f)  == Complete(f) \/ ReportFailed(f) \/ RefreshUrls(f)
Verify(r)  == DropObjects(r) \/ Seal(r) \/ WriteSeal(r)
Erase      == BeginErase \/ MarkCancelled \/ FinishErase \/ BeginCancel \/ CrashErase
                \/ \E o \in Object : EraseObject(o)
Asked(r)   == RequestStep(r) \/ CrashRequest(r)
Works1(w)  == WorkerStep(w) \/ CallFails(w) \/ CrashWorker(w)
Claims     == \E w \in Worker, f \in File : Claim(w, f)
Ends       == \E f \in File : EndExhausted(f)

FilesMove == \/ \E f \in File : Client(f)
             \/ \E r \in requests : Verify(r)
             \/ Ends \/ Claims
             \/ \E w \in Worker : \/ BeginFile(w) \/ MarkCreated(w) \/ RecordFailure(w)
                                  \/ CompleteFile(w) \/ ResetFile(w)

JobsMove == \/ \E r \in requests : QueueJob(r)
            \/ \E f \in File : LeaseLapses(f)
            \/ Ends \/ Claims
            \/ \E w \in Worker : \/ BeginFile(w) \/ RecordFailure(w) \/ OweCleanup(w)
                                 \/ CompleteFile(w) \/ DropSealed(w) \/ Requeue(w)
                                 \/ FinishJob(w)

DocsMove == \/ \E f \in File : DeleteDocument(f) \/ SweepDocument(f)
            \/ \E w \in Worker : \/ UpsertDocument(w) \/ CreateVersion(w)
                                 \/ PublishDocument(w) \/ OweCleanup(w)
                                 \/ RemoveDocument(w)

StoreMove == \/ \E f \in File : PutObject(f) \/ RunCleanup("blind", f)
                                \/ RunCleanup("checked", f)
             \/ \E r \in requests : Verify(r)
             \/ \E o \in Object : EraseObject(o)
             \/ \E w \in Worker : \/ CopySource(w) \/ DropSealed(w)
                                  \/ RemoveDocument(w) \/ DropFailed(w)

OwedMove == \/ \E f \in File : DeleteDocument(f) \/ RunCleanup("blind", f)
                               \/ RunCleanup("checked", f)
            \/ \E w \in Worker : OweCleanup(w)

RequestsMove == \/ \E f \in File : Client(f)
                \/ \E r \in requests : Asked(r)

SessionMove == \/ \E r \in requests : RefreshRequest(r)
               \/ Erase \/ Expire \/ Ends \/ Claims
               \/ \E w \in Worker : RefreshSession(w)

(* Each kind of step.                                                      *)
LEMMA Kinds ==
  ASSUME Next
  PROVE  \/ \E f \in File : Client(f) \/ PutObject(f)
         \/ \E f \in File : \/ DeleteDocument(f) \/ SweepDocument(f)
                            \/ RunCleanup("blind", f) \/ RunCleanup("checked", f)
         \/ \E f \in File : LeaseLapses(f)
         \/ \E r \in requests : Asked(r)
         \/ Erase \/ Expire \/ Ends \/ Claims
         \/ \E w \in Worker : Works1(w)
BY Zenon DEF Next, Client, Asked, Erase, EraseStep, Ends, Claims, Works1

LEMMA UserFrame ==
  ASSUME NEW f \in File, \/ DeleteDocument(f) \/ SweepDocument(f)
                         \/ RunCleanup("blind", f) \/ RunCleanup("checked", f)
  PROVE  UNCHANGED <<session, files, jobs, requests, execs, eraser, faults>>
BY Zenon DEF DeleteDocument, SweepDocument, RunCleanup

LEMMA ClientFrame ==
  ASSUME NEW f \in File, Client(f) \/ PutObject(f)
  PROVE  UNCHANGED <<session, jobs, docs, removed, owed, execs, eraser>>
BY Zenon DEF Client, PutObject, Complete, ReportFailed, RefreshUrls

LEMMA AskedFrame ==
  ASSUME NEW r \in requests, Asked(r)
  PROVE  UNCHANGED <<docs, removed, owed, execs, eraser>>
BY Zenon DEF Asked, RequestStep, DropObjects, Seal, WriteSeal, QueueJob, RefreshRequest,
             CrashRequest

LEMMA EraseFrame ==
  ASSUME Erase \/ Expire
  PROVE  UNCHANGED <<files, jobs, docs, removed, owed, requests, execs>>
BY Zenon DEF Erase, Expire, BeginErase, MarkCancelled, FinishErase, BeginCancel,
             CrashErase, EraseObject

LEMMA LeaseFrame ==
  ASSUME Ends \/ Claims \/ \E f \in File : LeaseLapses(f)
  PROVE  UNCHANGED <<docs, removed, store, owed, requests, eraser>>
BY Zenon DEF Ends, Claims, LeaseLapses, EndExhausted, Claim

LEMMA WorkFrame ==
  ASSUME NEW w \in Worker, Works1(w)
  PROVE  UNCHANGED <<removed, requests, eraser>>
<1>1. ASSUME WorkerStep(w)
      PROVE  UNCHANGED <<removed, requests, eraser>>
  BY <1>1, Zenon DEF WorkerStep, BeginFile, CheckDocument, UpsertDocument, MarkCreated,
     CopySource, CreateVersion, PublishDocument, RecordFailure, OweCleanup, CompleteFile,
     DropSealed, Requeue, ResetFile, RemoveDocument, DropFailed, FinishJob,
     RefreshSession, LoseLease
<1>2. ASSUME CallFails(w) \/ CrashWorker(w)
      PROVE  UNCHANGED <<removed, requests, eraser>>
  BY <1>2, Zenon DEF CallFails, CrashWorker
<1>. QED
  BY <1>1, <1>2 DEF Works1

LEMMA WorkMoves ==
  ASSUME NEW w \in Worker, Works1(w)
  PROVE  /\ session' = session \/ RefreshSession(w)
         /\ files' = files \/ BeginFile(w) \/ MarkCreated(w) \/ RecordFailure(w) \/
            CompleteFile(w) \/ ResetFile(w)
         /\ jobs' = jobs \/ BeginFile(w) \/ RecordFailure(w) \/ OweCleanup(w) \/
            CompleteFile(w) \/ DropSealed(w) \/ Requeue(w) \/ FinishJob(w)
         /\ docs' = docs \/ UpsertDocument(w) \/ CreateVersion(w) \/
            PublishDocument(w) \/ OweCleanup(w) \/ RemoveDocument(w)
         /\ store' = store \/ CopySource(w) \/ DropSealed(w) \/ RemoveDocument(w) \/
            DropFailed(w)
         /\ owed' = owed \/ OweCleanup(w)
<1>1. session' = session \/ RefreshSession(w)
  BY Zenon DEF Works1, WorkerStep, CallFails, CrashWorker, BeginFile,
     CheckDocument, UpsertDocument, MarkCreated, CopySource, CreateVersion,
     PublishDocument, RecordFailure, OweCleanup, CompleteFile, DropSealed,
     Requeue, ResetFile, RemoveDocument, DropFailed, FinishJob, LoseLease
<1>2. files' = files \/ BeginFile(w) \/ MarkCreated(w) \/ RecordFailure(w) \/
     CompleteFile(w) \/ ResetFile(w)
  BY Zenon DEF Works1, WorkerStep, CallFails, CrashWorker, CheckDocument,
     UpsertDocument, CopySource, CreateVersion, PublishDocument, OweCleanup,
     DropSealed, Requeue, RemoveDocument, DropFailed, FinishJob, RefreshSession,
     LoseLease
<1>3. jobs' = jobs \/ BeginFile(w) \/ RecordFailure(w) \/ OweCleanup(w) \/
     CompleteFile(w) \/ DropSealed(w) \/ Requeue(w) \/ FinishJob(w)
  BY Zenon DEF Works1, WorkerStep, CallFails, CrashWorker, CheckDocument,
     UpsertDocument, MarkCreated, CopySource, CreateVersion, PublishDocument,
     ResetFile, RemoveDocument, DropFailed, RefreshSession, LoseLease
<1>4. docs' = docs \/ UpsertDocument(w) \/ CreateVersion(w) \/ PublishDocument(w) \/
     OweCleanup(w) \/ RemoveDocument(w)
  BY Zenon DEF Works1, WorkerStep, CallFails, CrashWorker, BeginFile,
     CheckDocument, MarkCreated, CopySource, RecordFailure, CompleteFile,
     DropSealed, Requeue, ResetFile, DropFailed, FinishJob, RefreshSession,
     LoseLease
<1>5. store' = store \/ CopySource(w) \/ DropSealed(w) \/ RemoveDocument(w) \/
     DropFailed(w)
  BY Zenon DEF Works1, WorkerStep, CallFails, CrashWorker, BeginFile,
     CheckDocument, UpsertDocument, MarkCreated, CreateVersion, PublishDocument,
     RecordFailure, OweCleanup, CompleteFile, Requeue, ResetFile, FinishJob,
     RefreshSession, LoseLease
<1>6. owed' = owed \/ OweCleanup(w)
  BY Zenon DEF Works1, WorkerStep, CallFails, CrashWorker, BeginFile,
     CheckDocument, UpsertDocument, MarkCreated, CopySource, CreateVersion,
     PublishDocument, RecordFailure, CompleteFile, DropSealed, Requeue,
     ResetFile, RemoveDocument, DropFailed, FinishJob, RefreshSession, LoseLease
<1>. QED
  BY <1>1, <1>2, <1>3, <1>4, <1>5, <1>6

Framed ==
  /\ (files' = files) \/ FilesMove
  /\ (jobs' = jobs) \/ JobsMove
  /\ (docs' = docs) \/ DocsMove
  /\ (removed' = removed) \/ (\E f \in File : DeleteDocument(f))
  /\ (store' = store) \/ StoreMove
  /\ (owed' = owed) \/ OwedMove
  /\ (requests' = requests) \/ RequestsMove
  /\ (session' = session) \/ SessionMove
  /\ (eraser' = eraser) \/ Erase
  /\ (execs' = execs) \/ Claims \/ (\E w \in Worker : Works1(w))

LEMMA Frames == Next => Framed
<1>. SUFFICES ASSUME Next PROVE Framed
  OBVIOUS
<1>1. ASSUME NEW f \in File, Client(f) \/ PutObject(f)
      PROVE  Framed
  <2>1. store' = store \/ StoreMove
    BY <1>1, Zenon DEF StoreMove, Client, Complete, ReportFailed, RefreshUrls
  <2>2. files' = files \/ FilesMove
    BY <1>1, Zenon DEF FilesMove, PutObject
  <2>3. requests' = requests \/ RequestsMove
    BY <1>1, Zenon DEF RequestsMove, PutObject
  <2>. QED
    BY <1>1, <2>1, <2>2, <2>3, ClientFrame, Zenon DEF Framed
<1>2. ASSUME NEW f \in File, \/ DeleteDocument(f) \/ SweepDocument(f)
                             \/ RunCleanup("blind", f) \/ RunCleanup("checked", f)
      PROVE  Framed
  <2>1. store' = store \/ StoreMove
    BY <1>2, Zenon DEF StoreMove, DeleteDocument, SweepDocument
  <2>2. docs' = docs \/ DocsMove
    BY <1>2, Zenon DEF DocsMove, RunCleanup
  <2>3. owed' = owed \/ OwedMove
    BY <1>2, Zenon DEF OwedMove, SweepDocument
  <2>4. removed' = removed \/ \E g \in File : DeleteDocument(g)
    BY <1>2, Zenon DEF SweepDocument, RunCleanup
  <2>. QED
    BY <1>2, <2>1, <2>2, <2>3, <2>4, UserFrame, Zenon DEF Framed
<1>3. ASSUME NEW f \in File, LeaseLapses(f)
      PROVE  Framed
  BY <1>3, Zenon DEF LeaseLapses, JobsMove, Framed
<1>4. ASSUME NEW r \in requests, Asked(r)
      PROVE  Framed
  <2>1. store' = store \/ StoreMove
    BY <1>4, Zenon DEF StoreMove, Asked, RequestStep, Verify, QueueJob, RefreshRequest,
       CrashRequest
  <2>2. files' = files \/ FilesMove
    BY <1>4, Zenon DEF FilesMove, Asked, RequestStep, Verify, QueueJob, RefreshRequest,
       CrashRequest
  <2>3. jobs' = jobs \/ JobsMove
    BY <1>4, Zenon DEF JobsMove, Asked, RequestStep, DropObjects, Seal, WriteSeal,
       RefreshRequest, CrashRequest
  <2>4. session' = session \/ SessionMove
    BY <1>4, Zenon DEF SessionMove, Asked, RequestStep, DropObjects, Seal, WriteSeal,
       QueueJob, CrashRequest
  <2>5. requests' = requests \/ RequestsMove
    BY <1>4 DEF RequestsMove
  <2>. QED
    BY <1>4, <2>1, <2>2, <2>3, <2>4, <2>5, AskedFrame, Zenon DEF Framed
<1>5. ASSUME Erase \/ Expire
      PROVE  Framed
  <2>1. store' = store \/ StoreMove
    BY <1>5, Zenon DEF StoreMove, Erase, Expire, BeginErase, MarkCancelled, FinishErase,
       BeginCancel, CrashErase
  <2>2. eraser' = eraser \/ Erase
    BY <1>5, Zenon DEF Expire
  <2>3. session' = session \/ SessionMove
    BY <1>5, Zenon DEF SessionMove
  <2>. QED
    BY <1>5, <2>1, <2>2, <2>3, EraseFrame, Zenon DEF Framed
<1>6. ASSUME Ends \/ Claims
      PROVE  Framed
  <2>1. execs' = execs \/ Claims
    BY <1>6, Zenon DEF Ends, EndExhausted
  <2>. QED
    BY <1>6, <2>1, LeaseFrame, Zenon DEF FilesMove, JobsMove, SessionMove, Framed
<1>7. ASSUME NEW w \in Worker, Works1(w)
      PROVE  Framed
  <2>1. (files' = files \/ FilesMove) /\ (jobs' = jobs \/ JobsMove)
    BY <1>7, WorkMoves, Zenon DEF FilesMove, JobsMove
  <2>2. (docs' = docs \/ DocsMove) /\ (store' = store \/ StoreMove)
    BY <1>7, WorkMoves, Zenon DEF DocsMove, StoreMove
  <2>3. (owed' = owed \/ OwedMove) /\ (session' = session \/ SessionMove)
    BY <1>7, WorkMoves, Zenon DEF OwedMove, SessionMove
  <2>. QED
    BY <1>7, <2>1, <2>2, <2>3, WorkFrame, Zenon DEF Framed
<1>. QED
  BY <1>1, <1>2, <1>3, <1>4, <1>5, <1>6, <1>7, Kinds, Zenon

-----------------------------------------------------------------------------
(* What a step that claims no job does to a file.                          *)

Untouched(f) == files'[f].status = files[f].status /\ files'[f].code = files[f].code

ByClient(f) == /\ files[f].status \in Unsealed /\ files'[f].status \notin {"completed"}
               /\ files'[f].code # "none" => files'[f].status = "error"

Outcome(e) == IF e.deleted THEN "document_deleted" ELSE "processing_failed"

Begun(w, f) == /\ execs[w].pc = "begin" /\ execs'[w].pc \in {"check", "fail"}
               /\ files'[f].status = "processing" /\ files'[f].code = "none"
Failed(w, f) == /\ execs[w].pc = "fail" /\ execs'[w].pc = "owe"
                /\ files'[f].status = "error" /\ files'[f].code = Outcome(execs[w])
Published(w, f) == /\ execs[w].pc = "publish" /\ execs'[w].pc = "unseal"
                   /\ files'[f].status = "completed" /\ files'[f].code = "none"

ByOwner(w, f) == /\ On(w, f) /\ Holds(w, f)
                 /\ Begun(w, f) \/ Failed(w, f) \/ Published(w, f)

ByEnd(f) == /\ files[f].status = "processing" /\ jobs'[f].locked_by = NoWorker
            /\ files'[f].status = "error" /\ files'[f].code = "processing_failed"

ByReset(f) == /\ files[f].status = "error" /\ files[f].code = "processing_failed"
              /\ files'[f].status = "uploaded" /\ files'[f].code = "none"

FileMove(f) == \/ Untouched(f) \/ ByClient(f) \/ ByEnd(f) \/ ByReset(f)
               \/ \E w \in Worker : ByOwner(w, f)

FileSteps == /\ files' \in [File -> FileRow]
             /\ \A f \in File : /\ FileMove(f)
                                /\ files[f].created => files'[f].created

LEMMA OneFile ==
  ASSUME TypeOK, NEW f \in File, Files1(f), FileMove(f),
         files[f].created => files'[f].created
  PROVE  FileSteps
<1>1. ASSUME NEW g \in File
      PROVE  FileMove(g) /\ (files[g].created => files'[g].created)
  <2>1. CASE g = f
    BY <2>1
  <2>2. CASE g # f
    <3>1. files'[g] = files[g]
      BY <2>2 DEF Files1
    <3>. QED
      BY <3>1 DEF FileMove, Untouched
  <2>. QED
    BY <2>1, <2>2
<1>. QED
  BY <1>1 DEF FileSteps, Files1

LEMMA SameFiles ==
  ASSUME TypeOK, files' = files
  PROVE  FileSteps
BY DEF TypeOK, FileSteps, FileMove, Untouched

(* A client sets the status of a file that is not sealed yet.              *)
LEMMA ClientSets ==
  ASSUME TypeOK, NEW f \in File, NEW status \in FileStatus \ {"completed"},
         NEW code \in FileCode, code # "none" => status = "error",
         files[f].status \in Unsealed, SetFile(f, status, code)
  PROVE  FileSteps
<1>1. /\ Files1(f) /\ files'[f].status = status /\ files'[f].code = code
      /\ files'[f].created = files[f].created
  BY SetFileFacts
<1>2. ByClient(f)
  BY <1>1 DEF ByClient
<1>. QED
  BY <1>1, <1>2, OneFile DEF FileMove

LEMMA Words ==
  /\ {"verifying", "pending_upload", "error", "uploaded", "processing"}
       \subseteq FileStatus \ {"completed"}
  /\ "completed" \in FileStatus
  /\ {"none", "rejected", "processing_failed", "document_deleted"} \subseteq FileCode
  /\ {"pending_upload", "verifying"} = Unsealed
BY DEF FileStatus, FileCode, Unsealed

LEMMA ClientFiles ==
  ASSUME TypeOK, NEW f \in File, Client(f)
  PROVE  FileSteps
<1>1. VerifyFree(f) => files[f].status \in Unsealed
  BY DEF VerifyFree, Unsealed
<1>2. \/ UNCHANGED files
      \/ /\ files[f].status \in Unsealed
         /\ SetFile(f, "verifying", "none") \/ SetFile(f, "pending_upload", "none")
  BY <1>1, Zenon DEF Client, Complete, ReportFailed, RefreshUrls
<1>. QED
  BY <1>2, SameFiles, ClientSets, Words

LEMMA RequestFile ==
  ASSUME TypeOK, NEW r \in requests
  PROVE  r \in Request /\ r.file \in File /\ r.pc \in RequestPc
<1>1. r \in Request
  BY DEF TypeOK
<1>. QED
  BY <1>1, SMT DEF Request, RequestPc

LEMMA VerifyFiles ==
  ASSUME TypeOK, NEW r \in requests, Verify(r)
  PROVE  FileSteps
<1>. DEFINE f == r.file
<1>1. f \in File
  BY RequestFile
<1>2. \/ UNCHANGED files
      \/ /\ files[f].status \in Unsealed
         /\ \/ SetFile(f, "error", "rejected") \/ SetFile(f, "uploaded", "none")
            \/ SetFile(f, "pending_upload", "none")
  <2>1. DropObjects(r) => \/ UNCHANGED files
                          \/ files[f].status \in Unsealed /\ SetFile(f, "error", "rejected")
    BY Words, Zenon DEF DropObjects
  <2>2. "verifying" \in Unsealed
    BY DEF Unsealed
  <2>3. Seal(r) => \/ UNCHANGED files
                   \/ /\ files[f].status \in Unsealed
                      /\ \/ SetFile(f, "error", "rejected")
                         \/ SetFile(f, "pending_upload", "none")
    BY <2>2, Zenon DEF Seal, Verdict
  <2>4. WriteSeal(r) => \/ UNCHANGED files
                        \/ files[f].status \in Unsealed /\ SetFile(f, "uploaded", "none")
    BY <2>2, Zenon DEF WriteSeal, Verdict
  <2>. QED
    BY <2>1, <2>3, <2>4, Zenon DEF Verify
<1>. HIDE DEF f
<1>. QED
  BY <1>1, <1>2, SameFiles, ClientSets, Words

LEMMA EndFiles ==
  ASSUME TypeOK, NEW f \in File, EndExhausted(f)
  PROVE  FileSteps
<1>1. jobs'[f].locked_by = NoWorker
  <2>1. jobs' = [jobs EXCEPT ![f].status = "error", ![f].locked_by = NoWorker,
                             ![f].stale = FALSE]
    BY Zenon DEF EndExhausted
  <2>. QED
    BY <2>1, EndFacts DEF JobStatus
<1>2. CASE files[f].status = "processing"
  <2>1. SetFile(f, "error", "processing_failed")
    BY <1>2, Zenon DEF EndExhausted, SetFile
  <2>2. /\ Files1(f) /\ files'[f].status = "error" /\ files'[f].code = "processing_failed"
        /\ files'[f].created = files[f].created
    BY <2>1, SetFileFacts, Words
  <2>3. ByEnd(f)
    BY <1>1, <1>2, <2>2 DEF ByEnd
  <2>. QED
    BY <2>2, <2>3, OneFile DEF FileMove
<1>3. CASE files[f].status # "processing"
  <2>1. files' = files
    BY <1>3, Zenon DEF EndExhausted
  <2>. QED
    BY <2>1, SameFiles
<1>. QED
  BY <1>2, <1>3

(* The attempt of a worker that is at a stage.                             *)
LEMMA AtFacts ==
  ASSUME TypeOK, NEW w \in Worker, NEW pc \in ExecPc, At(w, pc)
  PROVE  /\ execs[w].pc = pc /\ execs[w].pc # "idle" /\ execs[w] \in Attempt
         /\ execs[w].file \in File /\ On(w, execs[w].file)
         /\ execs[w].deleted \in BOOLEAN
<1>1. execs[w].pc = pc /\ execs[w].pc # "idle"
  BY IdleFacts DEF At
<1>2. execs[w] \in Attempt
  BY <1>1, Active
<1>. QED
  BY <1>1, <1>2, AttemptFields DEF On

LEMMA BeginFiles ==
  ASSUME TypeOK, NEW w \in Worker, BeginFile(w)
  PROVE  FileSteps
<1>. DEFINE f == execs[w].file
<1>0. At(w, "begin") /\ "begin" \in ExecPc /\ "check" \in ExecPc
  BY DEF BeginFile, ExecPc
<1>1. execs[w].pc = "begin" /\ execs[w].pc # "idle" /\ f \in File /\ On(w, f)
  BY <1>0, AtFacts
<1>2. Holds(w, f) /\ SetFile(f, "processing", "none")
  BY Zenon DEF BeginFile, Owns, Holds
<1>3. Goto(w, "check") \/ GiveUp(w, FALSE)
  BY Zenon DEF BeginFile
<1>4. execs'[w].pc \in {"check", "fail"}
  BY <1>0, <1>1, <1>3, GotoFacts, GiveUpFacts
<1>. HIDE DEF f
<1>5. /\ Files1(f) /\ files'[f].status = "processing" /\ files'[f].code = "none"
      /\ files'[f].created = files[f].created
  BY <1>1, <1>2, SetFileFacts, Words
<1>6. ByOwner(w, f)
  BY <1>1, <1>2, <1>4, <1>5 DEF ByOwner, Begun
<1>. QED
  BY <1>1, <1>5, <1>6, OneFile DEF FileMove

(* The attempt is recorded as failed.                                      *)
LEMMA RecordFacts ==
  ASSUME TypeOK, NEW w \in Worker, execs[w].pc # "idle",
         execs' = [execs EXCEPT ![w].pc = "owe", ![w].failed = TRUE]
  PROVE  /\ Execs1(w) /\ Same(execs[w], execs'[w]) /\ execs'[w].pc = "owe"
         /\ execs'[w].failed /\ execs'[w].deleted = execs[w].deleted
<1>. DEFINE e == execs[w]
            x1 == [e EXCEPT !.pc = "owe"]
            x == [x1 EXCEPT !.failed = TRUE]
<1>1. e \in Attempt /\ "owe" \in ExecPc
  BY Active DEF ExecPc
<1>2. x1 \in Attempt
  BY <1>1, AttemptSet
<1>3. x \in Attempt
  BY <1>2, AttemptSet
<1>4. x \in Exec
  BY <1>3, IdleFacts
<1>5. execs' = [execs EXCEPT ![w] = x]
  BY Zenon
<1>6. /\ x.file = e.file /\ x.try = e.try /\ x.created = e.created /\ x.pc = "owe"
      /\ x.failed /\ x.deleted = e.deleted
  BY <1>1, SMT DEF Attempt
<1>. HIDE DEF x
<1>7. Execs1(w) /\ execs'[w] = x
  BY <1>4, <1>5, ExecTo
<1>. QED
  BY <1>1, <1>3, <1>6, <1>7 DEF Same

LEMMA FailFiles ==
  ASSUME TypeOK, NEW w \in Worker, RecordFailure(w)
  PROVE  FileSteps /\ Failed(w, execs[w].file) /\ Holds(w, execs[w].file)
<1>. DEFINE f == execs[w].file
<1>0. At(w, "fail") /\ "fail" \in ExecPc
  BY DEF RecordFailure, ExecPc
<1>1. execs[w].pc = "fail" /\ execs[w].pc # "idle" /\ f \in File /\ On(w, f)
  BY <1>0, AtFacts
<1>2. Holds(w, f) /\ SetFile(f, "error", Outcome(execs[w]))
  BY Zenon DEF RecordFailure, Owns, Holds, Outcome
<1>3. execs'[w].pc = "owe"
  <2>1. execs' = [execs EXCEPT ![w].pc = "owe", ![w].failed = TRUE]
    BY Zenon DEF RecordFailure
  <2>. QED
    BY <1>1, <2>1, RecordFacts
<1>4. Outcome(execs[w]) \in FileCode
  BY Words DEF Outcome
<1>. HIDE DEF f
<1>5. /\ Files1(f) /\ files'[f].status = "error" /\ files'[f].code = Outcome(execs[w])
      /\ files'[f].created = files[f].created
  BY <1>1, <1>2, <1>4, SetFileFacts, Words
<1>6. Failed(w, f) /\ ByOwner(w, f)
  BY <1>1, <1>2, <1>3, <1>5 DEF ByOwner, Failed
<1>7. FileSteps
  BY <1>1, <1>5, <1>6, OneFile DEF FileMove
<1>. QED
  BY <1>2, <1>6, <1>7 DEF f

LEMMA CompleteFiles ==
  ASSUME TypeOK, NEW w \in Worker, CompleteFile(w)
  PROVE  FileSteps
<1>. DEFINE f == execs[w].file
<1>0. At(w, "publish") /\ "publish" \in ExecPc /\ "unseal" \in ExecPc
  BY DEF CompleteFile, ExecPc
<1>1. execs[w].pc = "publish" /\ execs[w].pc # "idle" /\ f \in File /\ On(w, f)
  BY <1>0, AtFacts
<1>2. Holds(w, f) /\ SetFile(f, "completed", "none") /\ Goto(w, "unseal")
  BY Zenon DEF CompleteFile, Owns, Holds
<1>3. execs'[w].pc = "unseal"
  BY <1>0, <1>1, <1>2, GotoFacts
<1>. HIDE DEF f
<1>4. /\ Files1(f) /\ files'[f].status = "completed" /\ files'[f].code = "none"
      /\ files'[f].created = files[f].created
  BY <1>1, <1>2, SetFileFacts, Words
<1>5. ByOwner(w, f)
  BY <1>1, <1>2, <1>3, <1>4 DEF ByOwner, Published
<1>. QED
  BY <1>1, <1>4, <1>5, OneFile DEF FileMove

LEMMA ResetFiles ==
  ASSUME TypeOK, NEW w \in Worker, ResetFile(w)
  PROVE  FileSteps
<1>. DEFINE f == execs[w].file
<1>0. At(w, "reset") /\ "reset" \in ExecPc
  BY DEF ResetFile, ExecPc
<1>1. f \in File
  BY <1>0, AtFacts
<1>2. \/ UNCHANGED files
      \/ /\ files[f].status = "error" /\ files[f].code = "processing_failed"
         /\ SetFile(f, "uploaded", "none")
  BY Zenon DEF ResetFile
<1>. HIDE DEF f
<1>3. ASSUME files[f].status = "error", files[f].code = "processing_failed",
             SetFile(f, "uploaded", "none")
      PROVE  FileSteps
  <2>1. /\ Files1(f) /\ files'[f].status = "uploaded" /\ files'[f].code = "none"
        /\ files'[f].created = files[f].created
    BY <1>1, <1>3, SetFileFacts, Words
  <2>2. ByReset(f)
    BY <1>3, <2>1 DEF ByReset
  <2>. QED
    BY <1>1, <2>1, <2>2, OneFile DEF FileMove
<1>. QED
  BY <1>2, <1>3, SameFiles

LEMMA MarkFiles ==
  ASSUME TypeOK, NEW w \in Worker, MarkCreated(w)
  PROVE  FileSteps
<1>. DEFINE f == execs[w].file
<1>0. At(w, "mark") /\ "mark" \in ExecPc
  BY DEF MarkCreated, ExecPc
<1>1. f \in File
  BY <1>0, AtFacts
<1>2. files' = [files EXCEPT ![f].created = TRUE]
  BY Zenon DEF MarkCreated
<1>. HIDE DEF f
<1>3. /\ Files1(f) /\ files'[f].status = files[f].status
      /\ files'[f].code = files[f].code /\ files'[f].created
  BY <1>1, <1>2, CreatedFacts
<1>. QED
  BY <1>1, <1>3, OneFile DEF FileMove, Untouched

LEMMA FilesSteady ==
  ASSUME TypeOK, Next, ~Claims
  PROVE  FileSteps
<1>1. UNCHANGED files \/ FilesMove
  BY Frames DEF Framed
<1>. QED
  BY <1>1, SameFiles, ClientFiles, VerifyFiles, EndFiles, BeginFiles, MarkFiles,
     FailFiles, CompleteFiles, ResetFiles, Zenon DEF FilesMove, Ends

-----------------------------------------------------------------------------
(* What a step that claims no job does to a job.                           *)

JobMove(f) ==
  /\ jobs'[f].attempts = jobs[f].attempts
  /\ \/ jobs'[f].locked_by = NoWorker
     \/ jobs'[f].locked_by = jobs[f].locked_by /\ jobs'[f].status = jobs[f].status
  /\ jobs'[f].status # "none" => jobs[f].status # "none" \/ Sealed(f)
  /\ jobs[f].status \in {"completed", "error"} => jobs'[f] = jobs[f]

JobSteps == jobs' \in [File -> JobRow] /\ \A f \in File : JobMove(f)

LEMMA SameJobs ==
  ASSUME TypeOK, jobs' = jobs
  PROVE  JobSteps
BY DEF TypeOK, JobSteps, JobMove

LEMMA OneJob ==
  ASSUME TypeOK, NEW f \in File, Jobs1(f), JobMove(f)
  PROVE  JobSteps
<1>1. ASSUME NEW g \in File
      PROVE  JobMove(g)
  <2>1. CASE g = f
    BY <2>1
  <2>2. CASE g # f
    <3>1. jobs'[g] = jobs[g]
      BY <2>2 DEF Jobs1
    <3>. QED
      BY <3>1 DEF JobMove
  <2>. QED
    BY <2>1, <2>2
<1>. QED
  BY <1>1 DEF JobSteps, Jobs1

(* A running job is renewed or grows old, or ends.                         *)
LEMMA StaleJobs ==
  ASSUME TypeOK, NEW f \in File, NEW stale \in BOOLEAN, jobs[f].status = "running",
         jobs' = [jobs EXCEPT ![f].stale = stale]
  PROVE  JobSteps
<1>1. /\ Jobs1(f) /\ jobs'[f].status = jobs[f].status
      /\ jobs'[f].attempts = jobs[f].attempts
      /\ jobs'[f].locked_by = jobs[f].locked_by
  BY StaleFacts
<1>2. JobMove(f)
  BY <1>1 DEF JobMove
<1>. QED
  BY <1>1, <1>2, OneJob

LEMMA EndJobs ==
  ASSUME TypeOK, NEW f \in File, NEW status \in JobStatus, jobs[f].status = "running",
         jobs' = [jobs EXCEPT ![f].status = status, ![f].locked_by = NoWorker,
                              ![f].stale = FALSE]
  PROVE  JobSteps
<1>1. /\ Jobs1(f) /\ jobs'[f].locked_by = NoWorker
      /\ jobs'[f].attempts = jobs[f].attempts
  BY EndFacts
<1>2. JobMove(f)
  BY <1>1 DEF JobMove
<1>. QED
  BY <1>1, <1>2, OneJob

(* A lease is held on a running job.                                       *)
LEMMA HeldRuns ==
  ASSUME Leases, NEW w \in Worker, NEW f \in File, Holds(w, f)
  PROVE  jobs[f].status = "running"
<1>1. jobs[f].locked_by # NoWorker
  BY ConstAssumption DEF Holds
<1>. QED
  BY <1>1 DEF Leases

LEMMA QueueJobs ==
  ASSUME TypeOK, Leases, NEW r \in requests, QueueJob(r)
  PROVE  JobSteps
<1>. DEFINE f == r.file
<1>1. f \in File
  BY RequestFile
<1>2. \/ UNCHANGED jobs
      \/ /\ files[f].status \in HandedOver /\ jobs[f].status = "none"
         /\ jobs' = [jobs EXCEPT ![f].status = "queued"]
  BY Zenon DEF QueueJob
<1>. HIDE DEF f
<1>3. ASSUME files[f].status \in HandedOver, jobs[f].status = "none",
             jobs' = [jobs EXCEPT ![f].status = "queued"]
      PROVE  JobSteps
  <2>. DEFINE j == jobs[f]
              x == [j EXCEPT !.status = "queued"]
  <2>1. j \in JobRow
    BY <1>1 DEF TypeOK
  <2>2. x \in JobRow
    BY <2>1, JobFacts DEF JobStatus
  <2>3. jobs' = [jobs EXCEPT ![f] = x]
    BY <1>3, Zenon
  <2>4. x.status = "queued" /\ x.attempts = j.attempts /\ x.locked_by = j.locked_by
    BY <2>1, SMT DEF JobRow
  <2>. HIDE DEF x
  <2>5. Jobs1(f) /\ jobs'[f] = x
    BY <1>1, <2>2, <2>3, JobTo
  <2>6. j.locked_by = NoWorker
    BY <1>1, <1>3 DEF Leases
  <2>7. Sealed(f)
    BY <1>3 DEF Sealed, HandedOver, Unsealed
  <2>8. JobMove(f)
    BY <1>3, <2>4, <2>5, <2>6, <2>7 DEF JobMove
  <2>. QED
    BY <1>1, <2>5, <2>8, OneJob
<1>. QED
  BY <1>2, <1>3, SameJobs

LEMMA LapseJobs ==
  ASSUME TypeOK, NEW f \in File, LeaseLapses(f)
  PROVE  JobSteps
<1>1. jobs[f].status = "running" /\ jobs' = [jobs EXCEPT ![f].stale = TRUE]
  BY Zenon DEF LeaseLapses
<1>. QED
  BY <1>1, StaleJobs

LEMMA ExhaustedJobs ==
  ASSUME TypeOK, NEW f \in File, EndExhausted(f)
  PROVE  JobSteps
<1>1. /\ jobs[f].status = "running"
      /\ jobs' = [jobs EXCEPT ![f].status = "error", ![f].locked_by = NoWorker,
                              ![f].stale = FALSE]
  BY Zenon DEF EndExhausted
<1>. QED
  BY <1>1, EndJobs DEF JobStatus

LEMMA BeginJobs ==
  ASSUME TypeOK, Leases, NEW w \in Worker, BeginFile(w)
  PROVE  JobSteps
<1>. DEFINE f == execs[w].file
<1>0. At(w, "begin") /\ "begin" \in ExecPc
  BY DEF BeginFile, ExecPc
<1>1. f \in File
  BY <1>0, AtFacts
<1>2. Holds(w, f) /\ jobs' = [jobs EXCEPT ![f].stale = FALSE]
  BY Zenon DEF BeginFile, Owns, Holds, Renew
<1>. HIDE DEF f
<1>. QED
  BY <1>1, <1>2, HeldRuns, StaleJobs

LEMMA RecordJobs ==
  ASSUME TypeOK, Leases, NEW w \in Worker, RecordFailure(w)
  PROVE  JobSteps
<1>. DEFINE f == execs[w].file
<1>0. At(w, "fail") /\ "fail" \in ExecPc
  BY DEF RecordFailure, ExecPc
<1>1. f \in File
  BY <1>0, AtFacts
<1>2. Holds(w, f) /\ jobs' = [jobs EXCEPT ![f].stale = FALSE]
  BY Zenon DEF RecordFailure, Owns, Holds, Renew
<1>. HIDE DEF f
<1>. QED
  BY <1>1, <1>2, HeldRuns, StaleJobs

LEMMA CompleteJobs ==
  ASSUME TypeOK, Leases, NEW w \in Worker, CompleteFile(w)
  PROVE  JobSteps
<1>. DEFINE f == execs[w].file
<1>0. At(w, "publish") /\ "publish" \in ExecPc
  BY DEF CompleteFile, ExecPc
<1>1. f \in File
  BY <1>0, AtFacts
<1>2. Holds(w, f) /\ jobs' = [jobs EXCEPT ![f].stale = FALSE]
  BY Zenon DEF CompleteFile, Owns, Holds, Renew
<1>. HIDE DEF f
<1>. QED
  BY <1>1, <1>2, HeldRuns, StaleJobs

LEMMA OweJobs ==
  ASSUME TypeOK, Leases, NEW w \in Worker, OweCleanup(w)
  PROVE  JobSteps
<1>. DEFINE f == execs[w].file
<1>0. At(w, "owe") /\ "owe" \in ExecPc
  BY DEF OweCleanup, ExecPc
<1>1. f \in File
  BY <1>0, AtFacts
<1>2. \/ UNCHANGED jobs
      \/ Holds(w, f) /\ jobs' = [jobs EXCEPT ![f].stale = FALSE]
  BY Zenon DEF OweCleanup, Heartbeat, Owns, Holds, Renew
<1>. HIDE DEF f
<1>. QED
  BY <1>1, <1>2, HeldRuns, StaleJobs, SameJobs

LEMMA DropSealedJobs ==
  ASSUME TypeOK, Leases, NEW w \in Worker, DropSealed(w)
  PROVE  JobSteps
<1>. DEFINE f == execs[w].file
<1>0. At(w, "unseal") /\ "unseal" \in ExecPc
  BY DEF DropSealed, ExecPc
<1>1. f \in File
  BY <1>0, AtFacts
<1>2. \/ UNCHANGED jobs
      \/ Holds(w, f) /\ jobs' = [jobs EXCEPT ![f].stale = FALSE]
  BY Zenon DEF DropSealed, Heartbeat, Owns, Holds, Renew
<1>. HIDE DEF f
<1>. QED
  BY <1>1, <1>2, HeldRuns, StaleJobs, SameJobs

LEMMA RequeueJobs ==
  ASSUME TypeOK, Leases, NEW w \in Worker, Requeue(w)
  PROVE  JobSteps
<1>. DEFINE f == execs[w].file
<1>0. At(w, "settle") /\ "settle" \in ExecPc
  BY DEF Requeue, ExecPc
<1>1. f \in File
  BY <1>0, AtFacts
<1>2. /\ Holds(w, f)
      /\ jobs' = [jobs EXCEPT ![f].status = "queued", ![f].locked_by = NoWorker,
                              ![f].stale = FALSE]
  BY Zenon DEF Requeue, Owns, Holds, EndJob
<1>. HIDE DEF f
<1>. QED
  BY <1>1, <1>2, HeldRuns, EndJobs DEF JobStatus

LEMMA FinishJobs ==
  ASSUME TypeOK, Leases, NEW w \in Worker, FinishJob(w)
  PROVE  JobSteps
<1>. DEFINE f == execs[w].file
<1>0. At(w, "finish") /\ "finish" \in ExecPc
  BY DEF FinishJob, ExecPc
<1>1. f \in File
  BY <1>0, AtFacts
<1>2. /\ Holds(w, f)
      /\ jobs' = [jobs EXCEPT ![f].status = "completed", ![f].locked_by = NoWorker,
                              ![f].stale = FALSE]
  BY Zenon DEF FinishJob, Owns, Holds, EndJob
<1>. HIDE DEF f
<1>. QED
  BY <1>1, <1>2, HeldRuns, EndJobs DEF JobStatus

LEMMA JobsSteady ==
  ASSUME TypeOK, Leases, Next, ~Claims
  PROVE  JobSteps
<1>1. UNCHANGED jobs \/ JobsMove
  BY Frames DEF Framed
<1>. QED
  BY <1>1, SameJobs, QueueJobs, LapseJobs, ExhaustedJobs, BeginJobs, RecordJobs,
     CompleteJobs, OweJobs, DropSealedJobs, RequeueJobs, FinishJobs, Zenon
     DEF JobsMove, Ends

-----------------------------------------------------------------------------
(* What a step that claims no job does to an attempt.                      *)

Tail == {"owe", "unseal", "settle", "reset", "remove", "drop", "finish", "refresh"}

StoredNext(f) == <<"source", f>> \in store'

(* From one stage of the work to another, or to giving up.                 *)
Forward(w, f) ==
  /\ execs[w].pc \in Working \ {"publish"} /\ execs'[w].pc \in Open
  /\ execs'[w].failed = execs[w].failed
  /\ execs'[w].pc = "upsert" => ~Vanished(w)
  /\ execs'[w].pc = "version" => StoredNext(f)
  /\ execs'[w].pc = "ready" => execs[w].pc = "version" /\ docs'[f].version
  /\ execs'[w].pc = "publish" => execs[w].pc = "ready"

AsBefore(w) == /\ execs'[w].failed = execs[w].failed
               /\ execs'[w].deleted = execs[w].deleted

Recorded(w, f) == /\ Holds(w, f) /\ Failed(w, f)
                  /\ execs'[w].failed /\ execs'[w].deleted = execs[w].deleted

Sealing(w) == execs[w].pc = "publish" /\ execs'[w].pc = "unseal" /\ AsBefore(w)

Closing(w) == execs[w].pc \in Tail /\ execs'[w].pc \in Tail \ {"owe"} /\ AsBefore(w)

Goes(w, f) == /\ On(w, f) /\ Same(execs[w], execs'[w])
              /\ Forward(w, f) \/ Recorded(w, f) \/ Sealing(w) \/ Closing(w)

ExecMove(w) == \/ execs'[w] = execs[w]
               \/ execs'[w].pc = "idle"
               \/ Goes(w, execs[w].file)

ExecSteps == execs' \in [Worker -> Exec] /\ \A w \in Worker : ExecMove(w)

LEMMA SameExecs ==
  ASSUME TypeOK, execs' = execs
  PROVE  ExecSteps
BY DEF TypeOK, ExecSteps, ExecMove

LEMMA OneExec ==
  ASSUME NEW w \in Worker, Execs1(w), ExecMove(w)
  PROVE  ExecSteps
BY Zenon DEF Execs1, ExecSteps, ExecMove

LEMMA LeaveExecs ==
  ASSUME TypeOK, NEW w \in Worker, Leave(w)
  PROVE  ExecSteps
BY LeaveFacts, OneExec DEF ExecMove

LEMMA Stages1 ==
  /\ Working \subseteq ExecPc /\ Open \subseteq ExecPc /\ Tail \subseteq ExecPc
  /\ "fail" \in Open /\ "fail" \notin Working /\ "publish" \in Working
BY DEF Working, Open, Tail, ExecPc

(* The work is given up at some stage before it is published.              *)
LEMMA GiveUpExecs ==
  ASSUME TypeOK, NEW w \in Worker, execs[w].pc \in Working \ {"publish"},
         NEW gone \in BOOLEAN, GiveUp(w, gone)
  PROVE  ExecSteps
<1>1. execs[w].pc # "idle"
  BY IdleFacts, Stages1
<1>2. /\ Execs1(w) /\ Same(execs[w], execs'[w]) /\ execs'[w].pc = "fail"
      /\ execs'[w].failed = execs[w].failed
  BY <1>1, GiveUpFacts
<1>3. On(w, execs[w].file)
  BY <1>1 DEF On
<1>4. Forward(w, execs[w].file)
  BY <1>2, Stages1 DEF Forward
<1>. QED
  BY <1>2, <1>3, <1>4, OneExec DEF ExecMove, Goes

(* The work goes on to a stage with nothing to show for it.                *)
LEMMA ForwardExecs ==
  ASSUME TypeOK, NEW w \in Worker, execs[w].pc \in Working \ {"publish"},
         NEW pc \in Working, Goto(w, pc),
         pc = "upsert" => ~Vanished(w),
         pc = "version" => StoredNext(execs[w].file),
         pc = "ready" => execs[w].pc = "version" /\ docs'[execs[w].file].version,
         pc = "publish" => execs[w].pc = "ready"
  PROVE  ExecSteps
<1>1. execs[w].pc # "idle" /\ pc \in ExecPc /\ pc \in Open
  BY IdleFacts, Stages1 DEF Open
<1>2. /\ Execs1(w) /\ Same(execs[w], execs'[w]) /\ execs'[w].pc = pc
      /\ execs'[w].failed = execs[w].failed
  BY <1>1, GotoFacts
<1>3. On(w, execs[w].file)
  BY <1>1 DEF On
<1>4. Forward(w, execs[w].file)
  BY <1>1, <1>2 DEF Forward
<1>. QED
  BY <1>2, <1>3, <1>4, OneExec DEF ExecMove, Goes

LEMMA CloseExecs ==
  ASSUME TypeOK, NEW w \in Worker, execs[w].pc \in Tail,
         NEW pc \in Tail \ {"owe"}, Goto(w, pc)
  PROVE  ExecSteps
<1>1. execs[w].pc # "idle" /\ pc \in ExecPc
  BY IdleFacts, Stages1
<1>2. /\ Execs1(w) /\ Same(execs[w], execs'[w]) /\ execs'[w].pc = pc /\ AsBefore(w)
  BY <1>1, GotoFacts DEF AsBefore
<1>3. On(w, execs[w].file)
  BY <1>1 DEF On
<1>4. Closing(w)
  BY <1>2 DEF Closing
<1>. QED
  BY <1>2, <1>3, <1>4, OneExec DEF ExecMove, Goes

LEMMA BeginExecs ==
  ASSUME TypeOK, NEW w \in Worker, BeginFile(w)
  PROVE  ExecSteps
<1>1. execs[w].pc \in Working \ {"publish"} /\ "check" \in Working
  BY DEF BeginFile, At, Working
<1>2. Goto(w, "check") \/ GiveUp(w, FALSE)
  BY Zenon DEF BeginFile
<1>. QED
  BY <1>1, <1>2, ForwardExecs, GiveUpExecs

LEMMA CheckExecs ==
  ASSUME TypeOK, NEW w \in Worker, CheckDocument(w)
  PROVE  ExecSteps
<1>1. execs[w].pc \in Working \ {"publish"} /\ "upsert" \in Working
  BY DEF CheckDocument, At, Working
<1>2. \/ ~Vanished(w) /\ Goto(w, "upsert")
      \/ GiveUp(w, TRUE)
  BY Zenon DEF CheckDocument
<1>. QED
  BY <1>1, <1>2, ForwardExecs, GiveUpExecs

LEMMA UpsertExecs ==
  ASSUME TypeOK, NEW w \in Worker, UpsertDocument(w)
  PROVE  ExecSteps
<1>1. execs[w].pc \in Working \ {"publish"} /\ "copy" \in Working /\ "mark" \in Working
  BY DEF UpsertDocument, At, Working
<1>2. Goto(w, "copy") \/ Goto(w, "mark")
  BY Zenon DEF UpsertDocument
<1>. QED
  BY <1>1, <1>2, ForwardExecs

LEMMA MarkExecs ==
  ASSUME TypeOK, NEW w \in Worker, MarkCreated(w)
  PROVE  ExecSteps
<1>1. execs[w].pc \in Working \ {"publish"} /\ "copy" \in Working
  BY DEF MarkCreated, At, Working
<1>2. Goto(w, "copy")
  BY Zenon DEF MarkCreated
<1>. QED
  BY <1>1, <1>2, ForwardExecs

LEMMA CopyExecs ==
  ASSUME TypeOK, NEW w \in Worker, CopySource(w)
  PROVE  ExecSteps
<1>1. execs[w].pc \in Working \ {"publish"} /\ "version" \in Working
  BY DEF CopySource, At, Working
<1>2. \/ store' = store \cup {<<"source", execs[w].file>>} /\ Goto(w, "version")
      \/ GiveUp(w, FALSE)
  BY Zenon DEF CopySource
<1>3. store' = store \cup {<<"source", execs[w].file>>} => StoredNext(execs[w].file)
  BY DEF StoredNext
<1>. QED
  BY <1>1, <1>2, <1>3, ForwardExecs, GiveUpExecs

LEMMA VersionExecs ==
  ASSUME TypeOK, NEW w \in Worker, CreateVersion(w)
  PROVE  ExecSteps
<1>. DEFINE f == execs[w].file
<1>1. execs[w].pc = "version" /\ "ready" \in Working /\ "version" \in ExecPc
      /\ execs[w].pc \in Working \ {"publish"}
  BY DEF CreateVersion, At, Working, ExecPc
<1>2. \/ docs' = [docs EXCEPT ![f].version = TRUE] /\ Goto(w, "ready")
      \/ GiveUp(w, TRUE)
  BY Zenon DEF CreateVersion
<1>3. f \in File
  BY <1>1, AtFacts DEF At
<1>4. docs' = [docs EXCEPT ![f].version = TRUE] => docs'[f].version
  BY <1>3, DocVersionFacts
<1>. QED
  BY <1>1, <1>2, <1>4, ForwardExecs, GiveUpExecs

LEMMA ReadyExecs ==
  ASSUME TypeOK, NEW w \in Worker, PublishDocument(w)
  PROVE  ExecSteps
<1>1. execs[w].pc = "ready" /\ "publish" \in Working /\ execs[w].pc \in Working \ {"publish"}
  BY DEF PublishDocument, At, Working
<1>2. Goto(w, "publish") \/ GiveUp(w, FALSE)
  BY Zenon DEF PublishDocument
<1>. QED
  BY <1>1, <1>2, ForwardExecs, GiveUpExecs

LEMMA CallExecs ==
  ASSUME TypeOK, NEW w \in Worker, CallFails(w)
  PROVE  ExecSteps
<1>1. execs[w].pc \in Working \ {"publish"} /\ GiveUp(w, FALSE)
  BY DEF CallFails, Working
<1>. QED
  BY <1>1, GiveUpExecs

LEMMA RecordExecs ==
  ASSUME TypeOK, NEW w \in Worker, RecordFailure(w)
  PROVE  ExecSteps
<1>1. At(w, "fail") /\ "fail" \in ExecPc
  BY DEF RecordFailure, ExecPc
<1>2. execs[w].pc # "idle" /\ On(w, execs[w].file)
  BY <1>1, AtFacts
<1>3. execs' = [execs EXCEPT ![w].pc = "owe", ![w].failed = TRUE]
  BY Zenon DEF RecordFailure
<1>4. /\ Execs1(w) /\ Same(execs[w], execs'[w])
      /\ execs'[w].failed /\ execs'[w].deleted = execs[w].deleted
  BY <1>2, <1>3, RecordFacts
<1>5. Recorded(w, execs[w].file)
  BY <1>4, FailFiles DEF Recorded
<1>. QED
  BY <1>2, <1>4, <1>5, OneExec DEF ExecMove, Goes

LEMMA CompleteExecs ==
  ASSUME TypeOK, NEW w \in Worker, CompleteFile(w)
  PROVE  ExecSteps
<1>1. At(w, "publish") /\ "publish" \in ExecPc /\ "unseal" \in ExecPc /\ Goto(w, "unseal")
  BY DEF CompleteFile, ExecPc
<1>2. execs[w].pc = "publish" /\ execs[w].pc # "idle" /\ On(w, execs[w].file)
  BY <1>1, AtFacts
<1>3. Execs1(w) /\ Same(execs[w], execs'[w]) /\ Sealing(w)
  BY <1>1, <1>2, GotoFacts DEF Sealing, AsBefore
<1>. QED
  BY <1>2, <1>3, OneExec DEF ExecMove, Goes

LEMMA OweExecs ==
  ASSUME TypeOK, NEW w \in Worker, OweCleanup(w)
  PROVE  ExecSteps
<1>1. execs[w].pc \in Tail /\ "settle" \in Tail \ {"owe"}
  BY DEF OweCleanup, At, Tail
<1>2. Goto(w, "settle") \/ Leave(w)
  BY Zenon DEF OweCleanup, Heartbeat
<1>. QED
  BY <1>1, <1>2, CloseExecs, LeaveExecs

LEMMA DropSealedExecs ==
  ASSUME TypeOK, NEW w \in Worker, DropSealed(w)
  PROVE  ExecSteps
<1>1. execs[w].pc \in Tail /\ "settle" \in Tail \ {"owe"}
  BY DEF DropSealed, At, Tail
<1>2. Goto(w, "settle") \/ Leave(w)
  BY Zenon DEF DropSealed, Heartbeat
<1>. QED
  BY <1>1, <1>2, CloseExecs, LeaveExecs

LEMMA RequeueExecs ==
  ASSUME TypeOK, NEW w \in Worker, Requeue(w)
  PROVE  ExecSteps
<1>1. execs[w].pc \in Tail /\ "reset" \in Tail \ {"owe"}
  BY DEF Requeue, At, Tail
<1>2. Goto(w, "reset")
  BY Zenon DEF Requeue
<1>. QED
  BY <1>1, <1>2, CloseExecs

LEMMA ResetExecs ==
  ASSUME TypeOK, NEW w \in Worker, ResetFile(w)
  PROVE  ExecSteps
<1>1. execs[w].pc \in Tail /\ "refresh" \in Tail \ {"owe"}
  BY DEF ResetFile, At, Tail
<1>2. Goto(w, "refresh")
  BY Zenon DEF ResetFile
<1>. QED
  BY <1>1, <1>2, CloseExecs

LEMMA RemoveExecs ==
  ASSUME TypeOK, NEW w \in Worker, RemoveDocument(w)
  PROVE  ExecSteps
<1>1. execs[w].pc \in Tail /\ "drop" \in Tail \ {"owe"}
  BY DEF RemoveDocument, At, Tail
<1>2. Goto(w, "drop")
  BY Zenon DEF RemoveDocument
<1>. QED
  BY <1>1, <1>2, CloseExecs

LEMMA DropExecs ==
  ASSUME TypeOK, NEW w \in Worker, DropFailed(w)
  PROVE  ExecSteps
<1>1. execs[w].pc \in Tail /\ "finish" \in Tail \ {"owe"}
  BY DEF DropFailed, At, Tail
<1>2. Goto(w, "finish")
  BY Zenon DEF DropFailed
<1>. QED
  BY <1>1, <1>2, CloseExecs

LEMMA FinishExecs ==
  ASSUME TypeOK, NEW w \in Worker, FinishJob(w)
  PROVE  ExecSteps
<1>1. execs[w].pc \in Tail /\ "refresh" \in Tail \ {"owe"}
  BY DEF FinishJob, At, Tail
<1>2. Goto(w, "refresh")
  BY Zenon DEF FinishJob
<1>. QED
  BY <1>1, <1>2, CloseExecs

LEMMA ExecsSteady ==
  ASSUME TypeOK, Next, ~Claims
  PROVE  ExecSteps
<1>1. UNCHANGED execs \/ \E w \in Worker : Works1(w)
  BY Frames DEF Framed
<1>2. ASSUME NEW w \in Worker, Works1(w)
      PROVE  ExecSteps
  <2>1. LoseLease(w) \/ CrashWorker(w) \/ RefreshSession(w) => Leave(w)
    BY Zenon DEF LoseLease, CrashWorker, RefreshSession
  <2>. QED
    BY <1>2, <2>1, LeaveExecs, BeginExecs, CheckExecs, UpsertExecs, MarkExecs, CopyExecs,
       VersionExecs, ReadyExecs, CallExecs, RecordExecs, CompleteExecs, OweExecs,
       DropSealedExecs, RequeueExecs, ResetExecs, RemoveExecs, DropExecs, FinishExecs,
       Zenon DEF Works1, WorkerStep
<1>. QED
  BY <1>1, <1>2, SameExecs

-----------------------------------------------------------------------------
(* What a step does to a document.                                         *)

(* Only an upsert puts a row back, and only a deletion takes a version.    *)
DocMove(f) ==
  /\ \/ docs[f].status # "none" \/ docs'[f].status = "none"
     \/ \E w \in Worker : On(w, f) /\ execs[w].pc = "upsert"
  /\ docs[f].version => docs'[f].version \/ removed'[f] # "no"

DocSteps == docs' \in [File -> DocRow] /\ \A f \in File : DocMove(f)

LEMMA SameDocs ==
  ASSUME TypeOK, docs' = docs
  PROVE  DocSteps
BY DEF TypeOK, DocSteps, DocMove

LEMMA OneDoc ==
  ASSUME TypeOK, NEW f \in File, Docs1(f), DocMove(f)
  PROVE  DocSteps
<1>1. ASSUME NEW g \in File
      PROVE  DocMove(g)
  <2>1. CASE g = f
    BY <2>1
  <2>2. CASE g # f
    <3>1. docs'[g] = docs[g]
      BY <2>2 DEF Docs1
    <3>. QED
      BY <3>1 DEF DocMove
  <2>. QED
    BY <2>1, <2>2
<1>. QED
  BY <1>1 DEF DocSteps, Docs1

(* The status of a document that is there, or is put back, is set.         *)
LEMMA StatusDocs ==
  ASSUME TypeOK, NEW f \in File, NEW status \in DocStatus,
         docs' = [docs EXCEPT ![f].status = status],
         \/ docs[f].status # "none"
         \/ \E w \in Worker : On(w, f) /\ execs[w].pc = "upsert"
  PROVE  DocSteps
<1>1. Docs1(f) /\ docs'[f].version = docs[f].version
  BY DocStatusFacts
<1>2. DocMove(f)
  BY <1>1 DEF DocMove
<1>. QED
  BY <1>1, <1>2, OneDoc

LEMMA NoDocFacts == NoDoc \in DocRow /\ NoDoc.status = "none"
BY DEF NoDoc, DocRow

LEMMA DeleteDocs ==
  ASSUME TypeOK, NEW f \in File, DeleteDocument(f)
  PROVE  DocSteps
<1>1. docs' = [docs EXCEPT ![f] = NoDoc] /\ docs[f].status # "none"
  BY Zenon DEF DeleteDocument
<1>2. Docs1(f)
  BY <1>1, NoDocFacts, DocTo
<1>3. removed'[f] # "no"
  <2>1. removed' = [removed EXCEPT ![f] = removed'[f]] /\ removed'[f] \in {"quiet", "racing"}
    BY SMT DEF DeleteDocument, TypeOK
  <2>. QED
    BY <2>1
<1>4. DocMove(f)
  BY <1>1, <1>3 DEF DocMove
<1>. QED
  BY <1>2, <1>4, OneDoc

LEMMA SweepDocs ==
  ASSUME TypeOK, NEW f \in File, SweepDocument(f)
  PROVE  DocSteps
<1>1. docs[f].status = "processing" /\ docs' = [docs EXCEPT ![f].status = "error"]
  BY Zenon DEF SweepDocument, StaleProcessing
<1>. QED
  BY <1>1, StatusDocs DEF DocStatus

LEMMA UpsertDocs ==
  ASSUME TypeOK, NEW w \in Worker, UpsertDocument(w)
  PROVE  DocSteps
<1>. DEFINE f == execs[w].file
<1>0. At(w, "upsert") /\ "upsert" \in ExecPc
  BY DEF UpsertDocument, ExecPc
<1>1. f \in File /\ On(w, f) /\ execs[w].pc = "upsert"
  BY <1>0, AtFacts
<1>2. docs' = [docs EXCEPT ![f].status = "processing"]
  BY Zenon DEF UpsertDocument
<1>. HIDE DEF f
<1>. QED
  BY <1>1, <1>2, StatusDocs DEF DocStatus

LEMMA VersionDocs ==
  ASSUME TypeOK, NEW w \in Worker, CreateVersion(w)
  PROVE  DocSteps
<1>. DEFINE f == execs[w].file
<1>0. At(w, "version") /\ "version" \in ExecPc
  BY DEF CreateVersion, ExecPc
<1>1. f \in File
  BY <1>0, AtFacts
<1>2. \/ UNCHANGED docs
      \/ docs[f].status # "none" /\ docs' = [docs EXCEPT ![f].version = TRUE]
  BY Zenon DEF CreateVersion
<1>. HIDE DEF f
<1>3. ASSUME docs[f].status # "none", docs' = [docs EXCEPT ![f].version = TRUE]
      PROVE  DocSteps
  <2>1. Docs1(f) /\ docs'[f].version
    BY <1>1, <1>3, DocVersionFacts
  <2>2. DocMove(f)
    BY <1>3, <2>1 DEF DocMove
  <2>. QED
    BY <1>1, <2>1, <2>2, OneDoc
<1>. QED
  BY <1>2, <1>3, SameDocs

LEMMA ReadyDocs ==
  ASSUME TypeOK, NEW w \in Worker, PublishDocument(w)
  PROVE  DocSteps
<1>. DEFINE f == execs[w].file
<1>0. At(w, "ready") /\ "ready" \in ExecPc
  BY DEF PublishDocument, ExecPc
<1>1. f \in File
  BY <1>0, AtFacts
<1>2. \/ UNCHANGED docs
      \/ docs[f].status # "none" /\ docs' = [docs EXCEPT ![f].status = "ready"]
  BY Zenon DEF PublishDocument
<1>. HIDE DEF f
<1>. QED
  BY <1>1, <1>2, StatusDocs, SameDocs DEF DocStatus

LEMMA OweDocs ==
  ASSUME TypeOK, NEW w \in Worker, OweCleanup(w)
  PROVE  DocSteps
<1>. DEFINE f == execs[w].file
<1>0. At(w, "owe") /\ "owe" \in ExecPc
  BY DEF OweCleanup, ExecPc
<1>1. f \in File
  BY <1>0, AtFacts
<1>2. \/ UNCHANGED docs
      \/ docs[f].status = "processing" /\ docs' = [docs EXCEPT ![f].status = "error"]
  BY Zenon DEF OweCleanup
<1>. HIDE DEF f
<1>. QED
  BY <1>1, <1>2, StatusDocs, SameDocs DEF DocStatus

LEMMA RemoveDocs ==
  ASSUME TypeOK, NEW w \in Worker, RemoveDocument(w)
  PROVE  DocSteps
<1>. DEFINE f == execs[w].file
<1>0. At(w, "settle") /\ "settle" \in ExecPc
  BY DEF RemoveDocument, ExecPc
<1>1. f \in File
  BY <1>0, AtFacts
<1>2. \/ UNCHANGED docs
      \/ /\ docs[f] = [status |-> "error", version |-> FALSE]
         /\ docs' = [docs EXCEPT ![f] = NoDoc]
  BY Zenon DEF RemoveDocument
<1>. HIDE DEF f
<1>3. ASSUME docs[f] = [status |-> "error", version |-> FALSE],
             docs' = [docs EXCEPT ![f] = NoDoc]
      PROVE  DocSteps
  <2>1. Docs1(f)
    BY <1>1, <1>3, NoDocFacts, DocTo
  <2>2. docs[f].status # "none" /\ ~docs[f].version
    BY <1>3
  <2>3. DocMove(f)
    BY <2>2 DEF DocMove
  <2>. QED
    BY <1>1, <2>1, <2>3, OneDoc
<1>. QED
  BY <1>2, <1>3, SameDocs

LEMMA DocsSteady ==
  ASSUME TypeOK, Next
  PROVE  DocSteps
<1>1. UNCHANGED docs \/ DocsMove
  BY Frames DEF Framed
<1>. QED
  BY <1>1, SameDocs, DeleteDocs, SweepDocs, UpsertDocs, VersionDocs, ReadyDocs, OweDocs,
     RemoveDocs, Zenon DEF DocsMove

-----------------------------------------------------------------------------
(* Deletions by the user, and what is owed.                                *)

Unattempted(f) == \A w \in Worker : ~On(w, f)

RemovedMove(f) ==
  \/ removed'[f] = removed[f]
  \/ /\ removed'[f] = "racing" \/ (files[f].created /\ Unattempted(f))
     /\ removed'[f] # "no" /\ docs'[f].status = "none"
     /\ execs' = execs /\ files' = files

RemovedSteps == /\ removed' \in [File -> {"no", "racing", "quiet"}]
                /\ \A f \in File : RemovedMove(f)

LEMMA DeleteRemoves ==
  ASSUME TypeOK, NEW f \in File, DeleteDocument(f)
  PROVE  RemovedSteps
<1>. DEFINE x == IF files[f].created /\ ~Attempted(f) THEN "quiet" ELSE "racing"
<1>1. removed' = [removed EXCEPT ![f] = x]
  BY Zenon DEF DeleteDocument
<1>2. x \in {"quiet", "racing"} /\ (x = "quiet" => files[f].created /\ ~Attempted(f))
  OBVIOUS
<1>. HIDE DEF x
<1>3. /\ removed' \in [File -> {"no", "racing", "quiet"}] /\ removed'[f] = x
      /\ \A g \in File \ {f} : removed'[g] = removed[g]
  BY <1>1, <1>2, SMT DEF TypeOK
<1>4. ~Attempted(f) => Unattempted(f)
  BY Active, Zenon DEF Attempted, Unattempted, On
<1>5. docs'[f].status = "none" /\ execs' = execs /\ files' = files
  <2>1. docs' = [docs EXCEPT ![f] = NoDoc] /\ execs' = execs /\ files' = files
    BY Zenon DEF DeleteDocument
  <2>2. docs'[f] = NoDoc
    BY <2>1, NoDocFacts, DocTo
  <2>. QED
    BY <2>1, <2>2, NoDocFacts
<1>6. RemovedMove(f)
  BY <1>2, <1>3, <1>4, <1>5 DEF RemovedMove
<1>7. \A g \in File : RemovedMove(g)
  BY <1>3, <1>6 DEF RemovedMove
<1>. QED
  BY <1>3, <1>7 DEF RemovedSteps

LEMMA RemovedSteady ==
  ASSUME TypeOK, Next
  PROVE  RemovedSteps
<1>1. UNCHANGED removed \/ \E f \in File : DeleteDocument(f)
  BY Frames DEF Framed
<1>2. UNCHANGED removed => RemovedSteps
  BY DEF TypeOK, RemovedSteps, RemovedMove
<1>. QED
  BY <1>1, <1>2, DeleteRemoves

Kinds2 == {"blind", "checked"}

OwedSteps ==
  /\ owed' \subseteq Kinds2 \X File
  /\ \A f \in File :
       /\ <<"checked", f>> \in owed' => <<"checked", f>> \in owed \/ removed'[f] # "no"
       /\ <<"blind", f>> \in owed' =>
            \/ <<"blind", f>> \in owed
            \/ \E w \in Worker : On(w, f) /\ execs[w].pc = "owe" /\ execs[w].deleted

LEMMA OwedSteady ==
  ASSUME TypeOK, Next
  PROVE  OwedSteps
<1>0. owed \subseteq Kinds2 \X File
  BY DEF TypeOK, Kinds2
<1>1. owed' \subseteq owed => OwedSteps
  BY <1>0, Zenon DEF OwedSteps
<1>2. ASSUME NEW f \in File, DeleteDocument(f)
      PROVE  OwedSteps
  <2>1. owed' \subseteq owed \cup {<<"checked", f>>}
    BY <1>2, SMT DEF DeleteDocument
  <2>2. removed'[f] # "no"
    BY <1>2, SMT DEF DeleteDocument, TypeOK
  <2>3. <<"checked", f>> \in Kinds2 \X File
    BY DEF Kinds2
  <2>4. \A g \in File : /\ <<"checked", g>> = <<"checked", f>> => g = f
                        /\ <<"blind", g>> # <<"checked", f>>
    BY SMT
  <2>. QED
    BY <1>0, <2>1, <2>2, <2>3, <2>4, Zenon DEF OwedSteps
<1>3. ASSUME NEW w \in Worker, OweCleanup(w)
      PROVE  OwedSteps
  <2>. DEFINE f == execs[w].file
  <2>0. At(w, "owe") /\ "owe" \in ExecPc
    BY <1>3 DEF OweCleanup, ExecPc
  <2>1. f \in File /\ On(w, f) /\ execs[w].pc = "owe"
    BY <2>0, AtFacts
  <2>2. owed' = owed \/ (owed' = owed \cup {<<"blind", f>>} /\ execs[w].deleted)
    BY <1>3, Zenon DEF OweCleanup
  <2>. HIDE DEF f
  <2>3. <<"blind", f>> \in Kinds2 \X File
    BY <2>1 DEF Kinds2
  <2>4. \A g \in File : /\ <<"blind", g>> = <<"blind", f>> => g = f
                        /\ <<"checked", g>> # <<"blind", f>>
    BY SMT
  <2>5. ASSUME owed' = owed \cup {<<"blind", f>>}, execs[w].deleted
        PROVE  OwedSteps
    <3>1. owed' \subseteq Kinds2 \X File
      BY <1>0, <2>3, <2>5, SMT
    <3>2. ASSUME NEW g \in File, <<"checked", g>> \in owed'
          PROVE  <<"checked", g>> \in owed
      BY <2>4, <2>5, <3>2, SMT
    <3>3. ASSUME NEW g \in File, <<"blind", g>> \in owed', <<"blind", g>> \notin owed
          PROVE  g = f
      BY <2>4, <2>5, <3>3, SMT
    <3>. QED
      BY <2>1, <2>5, <3>1, <3>2, <3>3, Zenon DEF OwedSteps
  <2>. QED
    BY <1>1, <2>2, <2>5, SMT
<1>4. ASSUME NEW f \in File, RunCleanup("blind", f) \/ RunCleanup("checked", f)
      PROVE  OwedSteps
  <2>1. owed' \subseteq owed
    BY <1>4, SMT DEF RunCleanup
  <2>. QED
    BY <1>1, <2>1
<1>5. owed' = owed \/ OwedMove
  BY Frames DEF Framed
<1>. QED
  BY <1>1, <1>2, <1>3, <1>4, <1>5, Zenon DEF OwedMove

-----------------------------------------------------------------------------
(* Deleted objects.                                                        *)

(* An eraser is after staged and sealed objects alone.                     *)
Aimed == eraser.todo \subseteq Sources \X File

EraserSteps == eraser' \in Eraser /\ (Aimed => eraser'.todo \subseteq Sources \X File)

LEMMA Places ==
  /\ Sources \X File \subseteq Object
  /\ \A f \in File : /\ <<"source", f>> \in Object
                     /\ \A o \in Sources \X File : o # <<"source", f>>
                     /\ \A g : <<"source", g>> = <<"source", f>> <=> g = f
BY SMT DEF Sources, Object

LEMMA EraserSet ==
  ASSUME NEW pc \in {"rest", "mark", "delete"}, NEW todo \in SUBSET Object,
         eraser' = [pc |-> pc, todo |-> todo]
  PROVE  eraser' \in Eraser /\ eraser'.todo = todo
<1>1. [pc |-> pc, todo |-> todo] \in Eraser
  BY SMT DEF Eraser
<1>. QED
  BY <1>1

LEMMA EraserSteady ==
  ASSUME TypeOK, Next
  PROVE  EraserSteps
<1>1. CASE eraser' = eraser
  BY <1>1 DEF TypeOK, EraserSteps, Aimed
<1>2. ASSUME NEW pc \in {"rest", "mark", "delete"},
             NEW todo \in SUBSET (Sources \X File),
             eraser' = [pc |-> pc, todo |-> todo]
      PROVE  EraserSteps
  <2>1. todo \in SUBSET Object
    BY Places
  <2>. QED
    BY <1>2, <2>1, EraserSet DEF EraserSteps
<1>3. ASSUME NEW o \in Object, EraseObject(o)
      PROVE  EraserSteps
  <2>. DEFINE todo == eraser.todo \ {o}
  <2>1. eraser' = [eraser EXCEPT !.todo = todo]
    BY <1>3, Zenon DEF EraseObject
  <2>2. eraser \in Eraser /\ eraser.todo \subseteq Object
    BY SMT DEF TypeOK, Eraser
  <2>3. todo \subseteq Object /\ (Aimed => todo \subseteq Sources \X File)
    BY <2>2, SMT DEF Aimed
  <2>. HIDE DEF todo
  <2>4. eraser' \in Eraser /\ eraser'.todo = todo
    BY <2>1, <2>2, <2>3, SMT DEF Eraser
  <2>. QED
    BY <2>3, <2>4 DEF EraserSteps
<1>4. BeginErase \/ MarkCancelled \/ FinishErase \/ BeginCancel \/ CrashErase => EraserSteps
  <2>. DEFINE rest == [pc |-> "rest", todo |-> {}]
              spared == Sources \X {f \in File : files[f].status \notin HandedOver}
  <2>1. BeginErase => eraser' = [pc |-> "delete", todo |-> spared]
    BY Zenon DEF BeginErase
  <2>2. MarkCancelled => \/ eraser' = [pc |-> "delete", todo |-> Sources \X File]
                         \/ eraser' = rest
    BY Zenon DEF MarkCancelled, Resting
  <2>3. FinishErase \/ CrashErase => eraser' = rest
    BY Zenon DEF FinishErase, CrashErase, Resting
  <2>4. BeginCancel => eraser' = [pc |-> "mark", todo |-> {}]
    BY Zenon DEF BeginCancel
  <2>5. spared \in SUBSET (Sources \X File) /\ {} \in SUBSET (Sources \X File)
        /\ Sources \X File \in SUBSET (Sources \X File)
    BY SMT
  <2>. HIDE DEF spared
  <2>. QED
    BY <1>2, <2>1, <2>2, <2>3, <2>4, <2>5
<1>5. eraser' = eraser \/ Erase
  BY Frames DEF Framed
<1>. QED
  BY <1>1, <1>3, <1>4, <1>5, Zenon DEF Erase

(* Who deletes the document's copy.                                        *)
Discards(v, f) == /\ On(v, f) /\ execs[v].pc = "settle" /\ execs[v].failed
                  /\ execs[v].deleted \/ execs[v].try = MaxAttempts

Lost(f) == \/ <<"blind", f>> \in owed \/ <<"checked", f>> \in owed
           \/ \E v \in Worker : Discards(v, f)

StoreSteps == /\ store' \subseteq Object
              /\ \A f \in File : Stored(f) => StoredNext(f) \/ Lost(f)

LEMMA Grow ==
  ASSUME TypeOK, NEW o \in Object, store' \subseteq store \cup {o}, store \subseteq store'
  PROVE  StoreSteps
BY SMT DEF TypeOK, StoreSteps, Stored, StoredNext

LEMMA Shrink ==
  ASSUME TypeOK, store' \subseteq store, store \subseteq store' \cup (Sources \X File)
  PROVE  StoreSteps
<1>1. store' \subseteq Object
  BY SMT DEF TypeOK
<1>2. \A f \in File : Stored(f) => StoredNext(f)
  BY Places, Zenon DEF Stored, StoredNext
<1>. QED
  BY <1>1, <1>2 DEF StoreSteps

(* Only the copy of one file is deleted.                                   *)
LEMMA Discarded ==
  ASSUME TypeOK, NEW f \in File, store' = store \ {<<"source", f>>}, Lost(f)
  PROVE  StoreSteps
<1>1. store' \subseteq Object
  BY SMT DEF TypeOK
<1>2. ASSUME NEW g \in File, Stored(g)
      PROVE  StoredNext(g) \/ Lost(g)
  <2>1. CASE g = f
    BY <2>1
  <2>2. CASE g # f
    BY <1>2, <2>2, Places, SMT DEF Stored, StoredNext
  <2>. QED
    BY <2>1, <2>2
<1>. QED
  BY <1>1, <1>2 DEF StoreSteps

LEMMA VerifyStore ==
  ASSUME TypeOK, NEW r \in requests, Verify(r)
  PROVE  StoreSteps
<1>. DEFINE f == r.file
<1>1. f \in File
  BY RequestFile
<1>2. \/ store' = store \/ store' = store \ (Sources \X {f})
      \/ store' = store \ {<<"staging", f>>} \/ store' = store \cup {<<"sealed", f>>}
  <2>1. DropObjects(r) => store' = store \ (Sources \X {f})
    BY Zenon DEF DropObjects
  <2>2. Seal(r) => \/ store' = store \/ store' = store \ {<<"staging", f>>}
                   \/ store' = store \cup {<<"sealed", f>>}
    BY Zenon DEF Seal
  <2>3. WriteSeal(r) => store' = store \/ store' = store \ {<<"staging", f>>}
    BY Zenon DEF WriteSeal
  <2>. QED
    BY <2>1, <2>2, <2>3, Zenon DEF Verify
<1>. HIDE DEF f
<1>3. /\ <<"staging", f>> \in Sources \X File /\ <<"sealed", f>> \in Sources \X File
      /\ Sources \X {f} \subseteq Sources \X File
  BY <1>1, SMT DEF Sources
<1>4. <<"sealed", f>> \in Object
  BY <1>3, Places
<1>5. store' = store \/ store' = store \ (Sources \X {f})
        \/ store' = store \ {<<"staging", f>>} => StoreSteps
  BY <1>3, Shrink, SMT
<1>6. store' = store \cup {<<"sealed", f>>} => StoreSteps
  BY <1>4, Grow, SMT
<1>. QED
  BY <1>2, <1>5, <1>6

LEMMA RemoveStore ==
  ASSUME TypeOK, NEW w \in Worker, RemoveDocument(w)
  PROVE  StoreSteps
<1>. DEFINE e == execs[w]
            f == e.file
<1>0. At(w, "settle") /\ "settle" \in ExecPc
  BY DEF RemoveDocument, ExecPc
<1>1. f \in File /\ On(w, f) /\ e.pc = "settle" /\ e \in Attempt
  BY <1>0, AtFacts
<1>2. \/ store' = store
      \/ store' = store \ {<<"source", f>>} /\ e.failed
  BY Zenon DEF RemoveDocument, RemovesDocument
<1>3. e.failed => e.deleted \/ e.try = MaxAttempts
  <2>1. ~Retries(e)
    BY Zenon DEF RemoveDocument
  <2>2. e.try \in 1..MaxAttempts
    BY <1>1, AttemptFields
  <2>. HIDE DEF e
  <2>. QED
    BY <2>1, <2>2, ConstAssumption, SMT DEF Retries
<1>4. e.failed => Lost(f)
  BY <1>1, <1>3 DEF Lost, Discards
<1>. HIDE DEF f, e
<1>5. store' = store => StoreSteps
  BY Shrink, SMT
<1>. QED
  BY <1>1, <1>2, <1>4, <1>5, Discarded

LEMMA WorkerStore ==
  ASSUME TypeOK, NEW w \in Worker, CopySource(w) \/ DropSealed(w) \/ DropFailed(w)
  PROVE  StoreSteps
<1>. DEFINE f == execs[w].file
            bad == {"sealed"} \X {g \in File : files[g].status = "error"}
<1>0. \E pc \in ExecPc : At(w, pc)
  BY DEF CopySource, DropSealed, DropFailed, ExecPc
<1>1. f \in File
  BY <1>0, AtFacts
<1>2. \/ store' = store \/ store' = store \cup {<<"source", f>>}
      \/ store' = store \ {<<"sealed", f>>} \/ store' = store \ bad
  <2>1. CopySource(w) => store' = store \/ store' = store \cup {<<"source", f>>}
    BY Zenon DEF CopySource
  <2>2. DropSealed(w) => store' = store \ {<<"sealed", f>>}
    BY Zenon DEF DropSealed
  <2>3. DropFailed(w) => store' = store \/ store' = store \ bad
    BY Zenon DEF DropFailed
  <2>. QED
    BY <2>1, <2>2, <2>3
<1>3. bad \subseteq Sources \X File
  BY SMT DEF Sources
<1>. HIDE DEF f, bad
<1>4. <<"source", f>> \in Object /\ <<"sealed", f>> \in Sources \X File
  BY <1>1, Places, SMT DEF Sources
<1>5. store' = store \/ store' = store \ {<<"sealed", f>>} \/ store' = store \ bad
        => StoreSteps
  BY <1>3, <1>4, Shrink, SMT
<1>6. store' = store \cup {<<"source", f>>} => StoreSteps
  BY <1>4, Grow, SMT
<1>. QED
  BY <1>2, <1>5, <1>6

LEMMA StoreSteady ==
  ASSUME TypeOK, Aimed, Next
  PROVE  StoreSteps
<1>1. store' = store => StoreSteps
  BY Shrink, SMT
<1>2. ASSUME NEW f \in File, PutObject(f)
      PROVE  StoreSteps
  <2>1. store' = store \cup {<<"staging", f>>}
    BY <1>2, Zenon DEF PutObject
  <2>2. <<"staging", f>> \in Object
    BY SMT DEF Object
  <2>. QED
    BY <2>1, <2>2, Grow, SMT
<1>3. ASSUME NEW f \in File, NEW kind \in Kinds2, RunCleanup(kind, f)
      PROVE  StoreSteps
  <2>1. store' = store \/ store' = store \ {<<"source", f>>}
    BY <1>3, Zenon DEF RunCleanup
  <2>2. Lost(f)
    BY <1>3, Zenon DEF RunCleanup, Lost, Kinds2
  <2>. QED
    BY <1>1, <2>1, <2>2, Discarded
<1>4. ASSUME NEW o \in Object, EraseObject(o)
      PROVE  StoreSteps
  <2>1. o \in eraser.todo /\ store' = store \ {o}
    BY <1>4, Zenon DEF EraseObject
  <2>2. o \in Sources \X File
    BY <2>1 DEF Aimed
  <2>. QED
    BY <2>1, <2>2, Shrink, SMT
<1>5. store' = store \/ StoreMove
  BY Frames DEF Framed
<1>6. "blind" \in Kinds2 /\ "checked" \in Kinds2
  BY DEF Kinds2
<1>. QED
  BY <1>1, <1>2, <1>3, <1>4, <1>5, <1>6, VerifyStore, RemoveStore, WorkerStore, Zenon
     DEF StoreMove

-----------------------------------------------------------------------------
(* The session, the requests and the faults.                               *)

SessionStatus == {"pending_upload", "processing", "completed", "cancelled", "expired",
                  "error"}
SessionRow == [status : SessionStatus, cleaned : BOOLEAN]

LEMMA SessionSet ==
  ASSUME NEW r \in SessionRow
  PROVE  /\ [r EXCEPT !.status = "cancelled"] \in SessionRow
         /\ [r EXCEPT !.status = "expired"] \in SessionRow
         /\ [r EXCEPT !.cleaned = TRUE] \in SessionRow
<1>1. \A x \in SessionStatus : [r EXCEPT !.status = x] \in SessionRow
  BY SMT DEF SessionRow
<1>2. \A x \in BOOLEAN : [r EXCEPT !.cleaned = x] \in SessionRow
  BY SMT DEF SessionRow
<1>3. "cancelled" \in SessionStatus /\ "expired" \in SessionStatus
  BY DEF SessionStatus
<1>. QED
  BY <1>1, <1>2, <1>3

LEMMA RefreshType ==
  ASSUME TypeOK, NEW fs, RefreshFrom(fs)
  PROVE  session' \in SessionRow
<1>. DEFINE status == StatusFrom(fs)
            cleaned == session.cleaned \/ status = "completed"
<1>1. status \in {"pending_upload", "processing", "completed", "error"}
  BY Zenon DEF StatusFrom
<1>2. session \in SessionRow
  BY DEF TypeOK, SessionRow, SessionStatus
<1>3. session' = session \/ session' = [status |-> status, cleaned |-> cleaned]
  BY Zenon DEF RefreshFrom
<1>. HIDE DEF status
<1>4. cleaned \in BOOLEAN
  OBVIOUS
<1>. HIDE DEF cleaned
<1>5. [status |-> status, cleaned |-> cleaned] \in SessionRow
  BY <1>1, <1>4, SMT DEF SessionRow, SessionStatus
<1>. QED
  BY <1>2, <1>3, <1>5

LEMMA SessionSteady ==
  ASSUME TypeOK, Next
  PROVE  session' \in SessionRow
<1>0. session \in SessionRow
  BY DEF TypeOK, SessionRow, SessionStatus
<1>1. (\E r \in requests : RefreshRequest(r)) \/ (\E w \in Worker : RefreshSession(w))
        => RefreshFrom(files)
  BY Zenon DEF RefreshRequest, RefreshSession, Refresh
<1>2. ASSUME Ends \/ Claims
      PROVE  \E fs : RefreshFrom(fs)
  BY <1>2, Zenon DEF Ends, Claims, EndExhausted, Claim
<1>3. Erase \/ Expire => \/ session' = session
                         \/ session' = [session EXCEPT !.status = "cancelled"]
                         \/ session' = [session EXCEPT !.status = "expired"]
                         \/ session' = [session EXCEPT !.cleaned = TRUE]
  BY Zenon DEF Erase, Expire, BeginErase, MarkCancelled, FinishErase, BeginCancel,
     CrashErase, EraseObject
<1>4. Erase \/ Expire => session' \in SessionRow
  BY <1>0, <1>3, SessionSet
<1>5. session' = session \/ SessionMove
  BY Frames DEF Framed
<1>. QED
  BY <1>0, <1>1, <1>2, <1>4, <1>5, RefreshType, Zenon DEF SessionMove

LEMMA RequestSet ==
  ASSUME NEW r \in Request, NEW pc \in RequestPc
  PROVE  [r EXCEPT !.pc = pc] \in Request
BY SMT DEF Request, RequestPc

LEMMA RequestsSteady ==
  ASSUME TypeOK, Next
  PROVE  requests' \subseteq Request
<1>0. requests \subseteq Request
  BY DEF TypeOK
<1>1. ASSUME NEW f \in File, Client(f)
      PROVE  requests' \subseteq Request
  <2>1. \/ requests' = requests
        \/ \E pc \in RequestPc : requests' = requests \cup {[file |-> f, pc |-> pc]}
    <3>1. {"copy", "queue", "refresh", "drop"} \subseteq RequestPc
      BY DEF RequestPc
    <3>2. RefreshUrls(f) => requests' = requests
      BY Zenon DEF RefreshUrls
    <3>3. ReportFailed(f) => \/ requests' = requests \cup {[file |-> f, pc |-> "drop"]}
                             \/ requests' = requests \cup {[file |-> f, pc |-> "refresh"]}
      BY Zenon DEF ReportFailed
    <3>4. Complete(f) => \/ requests' = requests \cup {[file |-> f, pc |-> "copy"]}
                         \/ requests' = requests \cup {[file |-> f, pc |-> "queue"]}
                         \/ requests' = requests \cup {[file |-> f, pc |-> "refresh"]}
      BY Zenon DEF Complete
    <3>. QED
      BY <1>1, <3>1, <3>2, <3>3, <3>4 DEF Client
  <2>2. \A pc \in RequestPc : [file |-> f, pc |-> pc] \in Request
    BY SMT DEF Request, RequestPc
  <2>. QED
    BY <1>0, <2>1, <2>2
<1>2. ASSUME NEW r \in requests, Asked(r)
      PROVE  requests' \subseteq Request
  <2>0. {"found", "refresh", "write", "queue"} \subseteq RequestPc
    BY DEF RequestPc
  <2>1. Over(r) \/ (\E pc \in RequestPc : Advance(r, pc))
    <3>1. DropObjects(r) \/ Seal(r) \/ WriteSeal(r) =>
            \/ Over(r) \/ Advance(r, "found") \/ Advance(r, "refresh")
            \/ Advance(r, "write") \/ Advance(r, "queue")
      BY Zenon DEF DropObjects, Seal, WriteSeal
    <3>2. QueueJob(r) \/ RefreshRequest(r) \/ CrashRequest(r) =>
            Over(r) \/ Advance(r, "refresh")
      BY Zenon DEF QueueJob, RefreshRequest, CrashRequest
    <3>. QED
      BY <1>2, <2>0, <3>1, <3>2 DEF Asked, RequestStep
  <2>2. r \in Request
    BY <1>0
  <2>3. Over(r) => requests' \subseteq Request
    BY <1>0 DEF Over
  <2>4. ASSUME NEW pc \in RequestPc, Advance(r, pc)
        PROVE  requests' \subseteq Request
    <3>1. requests' = (requests \ {r}) \cup {[r EXCEPT !.pc = pc]}
      BY <2>4, Zenon DEF Advance
    <3>. QED
      BY <1>0, <2>2, <3>1, RequestSet
  <2>. QED
    BY <2>1, <2>3, <2>4
<1>3. requests' = requests \/ RequestsMove
  BY Frames DEF Framed
<1>. QED
  BY <1>0, <1>1, <1>2, <1>3, Zenon DEF RequestsMove

FaultType == [spent : 0..MaxFaults, late : BOOLEAN]

LEMMA FaultsSteady ==
  ASSUME TypeOK, Next
  PROVE  faults' \in FaultType
<1>0. faults \in FaultType
  BY DEF TypeOK, FaultType
<1>1. CanFail => \A late \in BOOLEAN : [spent |-> faults.spent + 1, late |-> late] \in FaultType
  BY <1>0, ConstAssumption, SMT DEF FaultType, CanFail
<1>2. Fault => faults' = [spent |-> faults.spent + 1, late |-> faults.late]
  BY <1>0, SMT DEF Fault, FaultType
<1>3. faults.late \in BOOLEAN
  BY <1>0, SMT DEF FaultType
<1>4. Fault => faults' \in FaultType
  BY <1>1, <1>2, <1>3 DEF Fault
<1>5. Late => faults' \in FaultType
  BY <1>1 DEF Late
<1>6. NoFault => faults' \in FaultType
  BY <1>0 DEF NoFault
<1>7. NoFault \/ Fault \/ Late
  <2>1. ASSUME NEW f \in File, Client(f) \/ PutObject(f)
        PROVE  NoFault \/ Fault \/ Late
    BY <2>1, Zenon DEF Client, PutObject, Complete, ReportFailed, RefreshUrls, VerifyFree,
       NoFault
  <2>2. ASSUME NEW f \in File, \/ DeleteDocument(f) \/ SweepDocument(f)
                               \/ RunCleanup("blind", f) \/ RunCleanup("checked", f)
        PROVE  NoFault
    BY <2>2, UserFrame, Zenon DEF NoFault
  <2>3. ASSUME Ends \/ Claims \/ \E f \in File : LeaseLapses(f)
        PROVE  NoFault \/ Late
    BY <2>3, Zenon DEF Ends, Claims, LeaseLapses, EndExhausted, Claim, NoFault
  <2>4. ASSUME NEW r \in requests, Asked(r)
        PROVE  NoFault \/ Fault
    BY <2>4, Zenon DEF Asked, RequestStep, DropObjects, Seal, WriteSeal, QueueJob,
       RefreshRequest, CrashRequest, NoFault
  <2>5. ASSUME Erase \/ Expire
        PROVE  NoFault \/ Fault
    BY <2>5, Zenon DEF Erase, Expire, BeginErase, MarkCancelled, FinishErase, BeginCancel,
       CrashErase, EraseObject, NoFault
  <2>6. ASSUME NEW w \in Worker, Works1(w)
        PROVE  NoFault \/ Fault
    <3>1. CallFails(w) \/ CrashWorker(w) => Fault
      BY Zenon DEF CallFails, CrashWorker
    <3>2. WorkerStep(w) => NoFault
      BY Zenon DEF WorkerStep, NoFault, BeginFile, CheckDocument, UpsertDocument,
         MarkCreated, CopySource, CreateVersion, PublishDocument, RecordFailure,
         OweCleanup, CompleteFile, DropSealed, Requeue, ResetFile, RemoveDocument,
         DropFailed, FinishJob, RefreshSession, LoseLease
    <3>. QED
      BY <2>6, <3>1, <3>2 DEF Works1
  <2>. QED
    BY <2>1, <2>2, <2>3, <2>4, <2>5, <2>6, Kinds, Zenon
<1>. QED
  BY <1>4, <1>5, <1>6, <1>7

-----------------------------------------------------------------------------
(* The claim of a job.                                                     *)

Fresh(w, f) ==
  /\ execs[w].pc = "idle" /\ Execs1(w) /\ execs'[w] \in Attempt
  /\ execs'[w].pc \in {"begin", "settle"} /\ execs'[w].file = f
  /\ execs'[w].created = files[f].created /\ ~execs'[w].failed
  /\ execs'[w].try = jobs[f].attempts + 1

Leased(w, f) ==
  /\ Jobs1(f) /\ jobs[f].status \in {"queued", "running"}
  /\ jobs'[f].status = "running" /\ jobs'[f].locked_by = w
  /\ jobs'[f].attempts = jobs[f].attempts + 1

(* A file that is ready, or failed for good, is left as it is.             *)
Taken(w, f) ==
  /\ Files1(f) /\ files'[f].created = files[f].created
  /\ \/ files'[f] = files[f]
     \/ /\ files[f].status = "uploaded" \/ files[f].code = "processing_failed"
        /\ files'[f].status = "processing" /\ files'[f].code = "none"
  /\ execs'[w].pc = "begin" => files'[f].status \notin {"uploaded", "completed", "error"}

LEMMA ClaimFacts ==
  ASSUME TypeOK, NEW w \in Worker, NEW f \in File, Claim(w, f)
  PROVE  Fresh(w, f) /\ Leased(w, f) /\ Taken(w, f)
<1>. DEFINE fs == IF files[f].status = "uploaded" \/ files[f].code = "processing_failed"
                  THEN [files EXCEPT ![f].status = "processing", ![f].code = "none"]
                  ELSE files
            pc == IF fs[f].status \in {"completed", "error"} THEN "settle" ELSE "begin"
            j == [status |-> "running", attempts |-> jobs[f].attempts + 1,
                  locked_by |-> w, stale |-> FALSE]
            x == [pc |-> pc, file |-> f, created |-> files[f].created,
                  try |-> jobs[f].attempts + 1, failed |-> FALSE, deleted |-> FALSE]
<1>1. jobs[f] \in JobRow /\ files[f] \in FileRow
  BY DEF TypeOK
<1>2. jobs[f].attempts + 1 \in 1..MaxAttempts /\ jobs[f].attempts + 1 \in 0..MaxAttempts
  <2>1. jobs[f].attempts \in 0..MaxAttempts
    BY <1>1, JobFacts
  <2>2. jobs[f].attempts < MaxAttempts
    BY Zenon DEF Claim, Claimable, HasBudget
  <2>. QED
    BY <2>1, <2>2, ConstAssumption
<1>3. files' = fs
  BY Zenon DEF Claim
<1>4. execs' = [execs EXCEPT ![w] = x]
  BY Zenon DEF Claim
<1>5. jobs' = [jobs EXCEPT ![f] = j]
  <2>1. jobs' = [jobs EXCEPT ![f] = [status |-> "running", attempts |-> @.attempts + 1,
                                     locked_by |-> w, stale |-> FALSE]]
    BY Zenon DEF Claim
  <2>. QED
    BY <2>1, Zenon
<1>6. execs[w] = Idle /\ jobs[f].status \in {"queued", "running"}
  BY Zenon DEF Claim, Claimable
<1>7. Leased(w, f)
  <2>1. j \in JobRow
    BY <1>2, SMT DEF JobRow
  <2>2. j.status = "running" /\ j.locked_by = w /\ j.attempts = jobs[f].attempts + 1
    OBVIOUS
  <2>. HIDE DEF j
  <2>3. Jobs1(f) /\ jobs'[f] = j
    BY <1>5, <2>1, JobTo
  <2>. QED
    BY <1>6, <2>2, <2>3 DEF Leased
<1>8. Fresh(w, f)
  <2>1. pc \in {"begin", "settle"} /\ {"begin", "settle"} \subseteq ExecPc
    BY DEF ExecPc
  <2>2. files[f].created \in BOOLEAN
    BY <1>1, FileFacts
  <2>. HIDE DEF pc
  <2>3. x \in Attempt
    BY <1>2, <2>1, <2>2, SMT DEF Attempt
  <2>4. /\ x.pc = pc /\ x.file = f /\ x.created = files[f].created /\ ~x.failed
        /\ x.try = jobs[f].attempts + 1
    OBVIOUS
  <2>. HIDE DEF x
  <2>5. Execs1(w) /\ execs'[w] = x
    BY <1>4, <2>3, IdleFacts, ExecTo
  <2>. QED
    BY <1>6, <2>1, <2>3, <2>4, <2>5, IdleFacts DEF Fresh
<1>9. Taken(w, f)
  <2>1. execs'[w].pc = pc
    <3>1. x.pc = pc
      OBVIOUS
    <3>2. execs'[w] = x
      <4>. HIDE DEF x
      <4>. QED
        BY <1>4, Zenon DEF TypeOK
    <3>. QED
      BY <3>1, <3>2
  <2>2. CASE files[f].status = "uploaded" \/ files[f].code = "processing_failed"
    <3>1. files' = [files EXCEPT ![f].status = "processing", ![f].code = "none"]
      BY <1>3, <2>2, Zenon
    <3>2. /\ Files1(f) /\ files'[f].status = "processing" /\ files'[f].code = "none"
          /\ files'[f].created = files[f].created
      BY <3>1, PairFacts, Words
    <3>. QED
      BY <2>2, <3>2 DEF Taken
  <2>3. CASE ~(files[f].status = "uploaded" \/ files[f].code = "processing_failed")
    <3>1. files' = files /\ fs = files
      BY <1>3, <2>3, Zenon
    <3>2. Files1(f)
      BY <3>1 DEF Files1, TypeOK
    <3>3. pc = "begin" => files[f].status \notin {"completed", "error"}
      BY <3>1
    <3>. HIDE DEF pc
    <3>. QED
      BY <2>1, <2>3, <3>1, <3>2, <3>3 DEF Taken
  <2>. QED
    BY <2>2, <2>3
<1>. QED
  BY <1>7, <1>8, <1>9

-----------------------------------------------------------------------------
(* Types, leases and codes.                                                *)

LEMMA TypesKept ==
  ASSUME TypeOK, Leases, Aimed, Next
  PROVE  TypeOK'
<1>1. /\ files' \in [File -> FileRow] /\ jobs' \in [File -> JobRow]
      /\ execs' \in [Worker -> Exec]
  <2>1. CASE Claims
    BY <2>1, ClaimFacts DEF Claims, Fresh, Leased, Taken, Execs1, Jobs1, Files1
  <2>2. CASE ~Claims
    BY <2>2, FilesSteady, JobsSteady, ExecsSteady DEF FileSteps, JobSteps, ExecSteps
  <2>. QED
    BY <2>1, <2>2
<1>2. /\ docs' \in [File -> DocRow] /\ removed' \in [File -> {"no", "racing", "quiet"}]
      /\ owed' \subseteq {"blind", "checked"} \X File
  BY DocsSteady, RemovedSteady, OwedSteady DEF DocSteps, RemovedSteps, OwedSteps, Kinds2
<1>3. store' \subseteq Object /\ eraser' \in Eraser
  BY StoreSteady, EraserSteady DEF StoreSteps, EraserSteps
<1>4. session' \in [status : {"pending_upload", "processing", "completed",
                              "cancelled", "expired", "error"}, cleaned : BOOLEAN]
  BY SessionSteady DEF SessionRow, SessionStatus
<1>5. requests' \subseteq Request /\ faults' \in [spent : 0..MaxFaults, late : BOOLEAN]
  BY RequestsSteady, FaultsSteady DEF FaultType
<1>. QED
  BY <1>1, <1>2, <1>3, <1>4, <1>5, Zenon DEF TypeOK

(* The attempts of a state that follows one without a claim.               *)
OnNext(w, f)    == execs'[w].pc # "idle" /\ execs'[w].file = f
HoldsNext(w, f) == jobs'[f].locked_by = w

LEMMA StillOn ==
  ASSUME NEW w \in Worker, NEW f \in File, ExecMove(w), OnNext(w, f)
  PROVE  /\ On(w, f)
         /\ execs'[w].try = execs[w].try /\ execs'[w].created = execs[w].created
         /\ execs'[w] = execs[w] \/ Goes(w, f)
BY DEF ExecMove, OnNext, On, Goes, Same

LEMMA StillHeld ==
  ASSUME NEW w \in Worker, NEW f \in File, JobMove(f), HoldsNext(w, f)
  PROVE  Holds(w, f) /\ jobs'[f].status = jobs[f].status
BY ConstAssumption DEF JobMove, HoldsNext, Holds

LEMMA Numbers ==
  ASSUME TypeOK, NEW w \in Worker, NEW f \in File, On(w, f)
  PROVE  execs[w].try \in Nat /\ execs[w].try <= MaxAttempts /\ jobs[f].attempts \in Nat
<1>1. execs[w].try \in 1..MaxAttempts
  BY Active, AttemptFields DEF On
<1>2. jobs[f] \in JobRow
  BY DEF TypeOK
<1>. QED
  BY <1>1, <1>2, JobFacts, ConstAssumption, SMT

LeasesNext ==
  /\ \A f \in File : jobs'[f].locked_by # NoWorker => jobs'[f].status = "running"
  /\ \A w \in Worker, f \in File : OnNext(w, f) =>
       /\ execs'[w].try <= jobs'[f].attempts
       /\ HoldsNext(w, f) => execs'[w].try = jobs'[f].attempts
  /\ \A v \in Worker, w \in Worker, f \in File :
       OnNext(v, f) /\ OnNext(w, f) /\ execs'[v].try = execs'[w].try => v = w

LEMMA LeasesSteady ==
  ASSUME Leases, ExecSteps, JobSteps
  PROVE  LeasesNext
<1>1. ASSUME NEW f \in File, jobs'[f].locked_by # NoWorker
      PROVE  jobs'[f].status = "running"
  BY <1>1 DEF Leases, JobSteps, JobMove
<1>2. ASSUME NEW w \in Worker, NEW f \in File, OnNext(w, f)
      PROVE  On(w, f) /\ execs'[w].try = execs[w].try
  BY <1>2, StillOn DEF ExecSteps
<1>3. ASSUME NEW w \in Worker, NEW f \in File, HoldsNext(w, f)
      PROVE  Holds(w, f)
  BY <1>3, StillHeld DEF JobSteps
<1>4. \A f \in File : jobs'[f].attempts = jobs[f].attempts
  BY DEF JobSteps, JobMove
<1>5. ASSUME NEW w \in Worker, NEW f \in File, OnNext(w, f)
      PROVE  /\ execs'[w].try <= jobs'[f].attempts
             /\ HoldsNext(w, f) => execs'[w].try = jobs'[f].attempts
  <2>1. /\ execs[w].try <= jobs[f].attempts
        /\ Holds(w, f) => execs[w].try = jobs[f].attempts
    BY <1>2, <1>5 DEF Leases
  <2>2. execs'[w].try = execs[w].try /\ jobs'[f].attempts = jobs[f].attempts
    BY <1>2, <1>4, <1>5
  <2>. QED
    BY <1>3, <2>1, <2>2
<1>6. ASSUME NEW v \in Worker, NEW w \in Worker, NEW f \in File, OnNext(v, f), OnNext(w, f),
             execs'[v].try = execs'[w].try
      PROVE  v = w
  <2>1. On(v, f) /\ On(w, f) /\ execs[v].try = execs[w].try
    BY <1>2, <1>6
  <2>. QED
    BY <2>1 DEF Leases
<1>. QED
  BY <1>1, <1>5, <1>6 DEF LeasesNext

(* Who works on what after a claim.                                        *)
LEMMA ClaimOn ==
  ASSUME NEW w \in Worker, NEW f \in File, Fresh(w, f),
         NEW v \in Worker, NEW g \in File, OnNext(v, g)
  PROVE  \/ v = w /\ g = f
         \/ v # w /\ execs'[v] = execs[v] /\ On(v, g)
<1>1. v = w => g = f
  BY DEF Fresh, OnNext
<1>2. v # w => execs'[v] = execs[v]
  BY DEF Fresh, Execs1
<1>. QED
  BY <1>1, <1>2 DEF OnNext, On

LEMMA LeasesClaimed ==
  ASSUME TypeOK, Leases, NEW w \in Worker, NEW f \in File, Fresh(w, f), Leased(w, f)
  PROVE  LeasesNext
<1>0. \A g \in File : g = f \/ jobs'[g] = jobs[g]
  BY DEF Leased, Jobs1
<1>1. ASSUME NEW g \in File, jobs'[g].locked_by # NoWorker
      PROVE  jobs'[g].status = "running"
  BY <1>0, <1>1 DEF Leases, Leased
<1>2. execs'[w].try = jobs'[f].attempts /\ jobs'[f].attempts = jobs[f].attempts + 1
  BY DEF Fresh, Leased
<1>3. ASSUME NEW v \in Worker, NEW g \in File, OnNext(v, g)
      PROVE  /\ execs'[v].try <= jobs'[g].attempts
             /\ HoldsNext(v, g) => execs'[v].try = jobs'[g].attempts
  <2>0. jobs[f].attempts \in Nat
    <3>1. jobs[f] \in JobRow
      BY DEF TypeOK
    <3>. QED
      BY <3>1, JobFacts, SMT
  <2>1. CASE v = w /\ g = f
    BY <1>2, <2>0, <2>1
  <2>2. CASE v # w /\ execs'[v] = execs[v] /\ On(v, g)
    <3>1. /\ execs[v].try <= jobs[g].attempts
          /\ Holds(v, g) => execs[v].try = jobs[g].attempts
          /\ execs[v].try \in Nat
      BY <2>2, Numbers DEF Leases
    <3>2. CASE g = f
      <4>1. ~HoldsNext(v, g)
        BY <2>2, <3>2 DEF HoldsNext, Leased
      <4>. QED
        BY <1>2, <2>0, <2>2, <3>1, <3>2, <4>1
    <3>3. CASE g # f
      BY <1>0, <2>2, <3>1, <3>3 DEF HoldsNext, Holds
    <3>. QED
      BY <3>2, <3>3
  <2>. QED
    BY <1>3, <2>1, <2>2, ClaimOn
<1>4. ASSUME NEW v \in Worker, NEW u \in Worker, NEW g \in File, OnNext(v, g), OnNext(u, g),
             execs'[v].try = execs'[u].try
      PROVE  v = u
  <2>1. ASSUME NEW x \in Worker, x # w, OnNext(x, g)
        PROVE  On(x, g) /\ execs'[x] = execs[x] /\ (g = f => execs'[x].try # execs'[w].try)
    <3>1. On(x, g) /\ execs'[x] = execs[x]
      BY <2>1, ClaimOn
    <3>2. /\ execs[x].try \in Nat /\ jobs[g].attempts \in Nat
          /\ execs[x].try <= jobs[g].attempts
      BY <3>1, Numbers DEF Leases
    <3>. QED
      BY <1>2, <3>1, <3>2
  <2>2. OnNext(w, g) => g = f
    BY DEF OnNext, Fresh
  <2>3. CASE v = w \/ u = w
    BY <1>4, <2>1, <2>2, <2>3
  <2>4. CASE v # w /\ u # w
    BY <1>4, <2>1, <2>4 DEF Leases
  <2>. QED
    BY <2>3, <2>4
<1>. QED
  BY <1>1, <1>3, <1>4 DEF LeasesNext

LEMMA LeasesKept ==
  ASSUME TypeOK, Leases, Next
  PROVE  Leases'
<1>1. LeasesNext
  BY LeasesSteady, LeasesClaimed, JobsSteady, ExecsSteady, ClaimFacts DEF Claims
<1>. QED
  BY <1>1, Zenon DEF LeasesNext, Leases, OnNext, On, HoldsNext, Holds

SealedNext(f) == files'[f].status \notin Unsealed

LEMMA SealStays ==
  ASSUME NEW f \in File, FileMove(f), Sealed(f)
  PROVE  SealedNext(f)
BY DEF FileMove, Sealed, SealedNext, Untouched, ByClient, ByEnd, ByReset, ByOwner, Begun,
       Failed, Published, Unsealed

CodesNext ==
  /\ \A f \in File : files'[f].code # "none" => files'[f].status = "error"
  /\ \A f \in File : jobs'[f].status # "none" => SealedNext(f)
  /\ \A w \in Worker, f \in File : OnNext(w, f) => SealedNext(f)

LEMMA CodesSteady ==
  ASSUME Codes, FileSteps, JobSteps, ExecSteps
  PROVE  CodesNext
<1>1. ASSUME NEW f \in File, files'[f].code # "none"
      PROVE  files'[f].status = "error"
  <2>1. FileMove(f) /\ (files[f].code # "none" => files[f].status = "error")
    BY DEF FileSteps, Codes
  <2>. QED
    BY <1>1, <2>1 DEF FileMove, Untouched, ByClient, ByEnd, ByReset, ByOwner, Begun,
       Failed, Published
<1>2. ASSUME NEW f \in File, jobs'[f].status # "none"
      PROVE  SealedNext(f)
  <2>1. Sealed(f)
    BY <1>2 DEF JobSteps, JobMove, Codes
  <2>. QED
    BY <2>1, SealStays DEF FileSteps
<1>3. ASSUME NEW w \in Worker, NEW f \in File, OnNext(w, f)
      PROVE  SealedNext(f)
  <2>1. Sealed(f)
    BY <1>3, StillOn DEF ExecSteps, Codes
  <2>. QED
    BY <2>1, SealStays DEF FileSteps
<1>. QED
  BY <1>1, <1>2, <1>3 DEF CodesNext

LEMMA CodesClaimed ==
  ASSUME Codes, NEW w \in Worker, NEW f \in File, Fresh(w, f), Leased(w, f), Taken(w, f)
  PROVE  CodesNext
<1>1. \A g \in File : g = f \/ (files'[g] = files[g] /\ jobs'[g] = jobs[g])
  BY DEF Leased, Taken, Jobs1, Files1
<1>2. Sealed(f)
  BY DEF Leased, Codes
<1>3. SealedNext(f) /\ (files'[f].code # "none" => files'[f].status = "error")
  BY <1>2 DEF Taken, Sealed, SealedNext, Codes, Unsealed
<1>4. \A g \in File : Sealed(g) => SealedNext(g)
  BY <1>1, <1>3 DEF Sealed, SealedNext
<1>5. ASSUME NEW v \in Worker, NEW g \in File, OnNext(v, g)
      PROVE  SealedNext(g)
  BY <1>3, <1>4, <1>5, ClaimOn DEF Codes
<1>6. ASSUME NEW g \in File
      PROVE  /\ files'[g].code # "none" => files'[g].status = "error"
             /\ jobs'[g].status # "none" => SealedNext(g)
  BY <1>1, <1>3, <1>4 DEF Codes
<1>. QED
  BY <1>5, <1>6 DEF CodesNext

LEMMA CodesKept ==
  ASSUME TypeOK, Leases, Codes, Next
  PROVE  Codes'
<1>1. CodesNext
  BY CodesSteady, CodesClaimed, FilesSteady, JobsSteady, ExecsSteady, ClaimFacts
     DEF Claims
<1>. QED
  BY <1>1, Zenon DEF CodesNext, Codes, OnNext, On, SealedNext, Sealed

-----------------------------------------------------------------------------
(* The stages of the attempts.                                             *)

DeletedNext(f) == files'[f].status = "error" /\ files'[f].code = "document_deleted"

StageNext(w, f) ==
  /\ execs'[w].pc \in Open => ~execs'[w].failed
  /\ execs'[w].pc = "owe" => execs'[w].failed
  /\ execs'[w].pc \in Open /\ HoldsNext(w, f) => files'[f].status = "processing"
  /\ execs'[w].failed /\ execs'[w].deleted => DeletedNext(f)
  /\ execs'[w].failed /\ execs'[w].try = MaxAttempts => files'[f].status # "completed"

StagesNext == \A w \in Worker, f \in File : OnNext(w, f) => StageNext(w, f)

(* The holder of a lease moves the file only from "processing".            *)
LEMMA OwnerStage ==
  ASSUME Stages, NEW w \in Worker, NEW f \in File, ByOwner(w, f)
  PROVE  files[f].status = "processing" /\ ~execs[w].failed /\ execs[w].pc \in Open
<1>1. execs[w].pc \in Open
  BY DEF ByOwner, Begun, Failed, Published, Open, Working
<1>2. On(w, f) /\ Holds(w, f)
  BY DEF ByOwner
<1>. QED
  BY <1>1, <1>2 DEF Stages, Stage

(* The deletion of the document is the last word on its file.              *)
LEMMA DeletedStays ==
  ASSUME Stages, NEW f \in File, FileMove(f), Deleted(f)
  PROVE  DeletedNext(f)
<1>1. Untouched(f)
  BY OwnerStage DEF FileMove, Deleted, ByClient, ByEnd, ByReset, Unsealed
<1>. QED
  BY <1>1 DEF Untouched, Deleted, DeletedNext

(* After the last attempt has failed, nobody completes the file.           *)
LEMMA NeverCompleted ==
  ASSUME TypeOK, Leases, Stages, NEW f \in File, FileMove(f),
         NEW v \in Worker, On(v, f), execs[v].failed, execs[v].try = MaxAttempts
  PROVE  files'[f].status # "completed"
<1>1. files[f].status # "completed"
  BY DEF Stages, Stage
<1>2. ASSUME NEW w \in Worker, ByOwner(w, f), files'[f].status = "completed"
      PROVE  FALSE
  <2>1. ~execs[w].failed /\ On(w, f) /\ Holds(w, f)
    BY <1>2, OwnerStage DEF ByOwner
  <2>2. execs[w].try = jobs[f].attempts /\ execs[v].try <= jobs[f].attempts
    BY <2>1 DEF Leases
  <2>3. execs[w].try = MaxAttempts
    BY <2>1, <2>2, Numbers, ConstAssumption
  <2>4. v = w
    BY <2>1, <2>3 DEF Leases
  <2>. QED
    BY <2>1, <2>4
<1>. QED
  BY <1>1, <1>2 DEF FileMove, Untouched, ByClient, ByEnd, ByReset

LEMMA StagesSteady ==
  ASSUME TypeOK, Leases, Stages, FileSteps, JobSteps, ExecSteps
  PROVE  StagesNext
<1>. SUFFICES ASSUME NEW w \in Worker, NEW f \in File, OnNext(w, f)
              PROVE  StageNext(w, f)
  BY DEF StagesNext
<1>. DEFINE e == execs[w]
            x == execs'[w]
<1>0. FileMove(f) /\ JobMove(f) /\ ExecMove(w)
  BY DEF FileSteps, JobSteps, ExecSteps
<1>1. /\ On(w, f) /\ x.try = e.try
      /\ x = e \/ Goes(w, f)
  BY <1>0, StillOn
<1>2. Stage(w, f)
  BY <1>1 DEF Stages
<1>3. x = e \/ Forward(w, f) \/ Recorded(w, f) \/ Sealing(w) \/ Closing(w)
  BY <1>1 DEF Goes
<1>4. x.pc \in Open => ~x.failed
  <2>1. /\ Tail \cap Open = {} /\ "unseal" \notin Open /\ "owe" \notin Open
        /\ Working \subseteq Open
    BY DEF Tail, Open, Working
  <2>. QED
    BY <1>2, <1>3, <2>1 DEF Stage, Forward, Recorded, Failed, Sealing, Closing
<1>5. x.pc = "owe" => x.failed
  BY <1>2, <1>3 DEF Stage, Forward, Recorded, Sealing, Closing, Open, Working
<1>6. ASSUME x.pc \in Open, HoldsNext(w, f)
      PROVE  files'[f].status = "processing"
  <2>1. e.pc \in Open
    <3>1. /\ Tail \cap Open = {} /\ "unseal" \notin Open /\ "owe" \notin Open
          /\ Working \subseteq Open
      BY DEF Tail, Open, Working
    <3>. QED
      BY <1>3, <1>6, <3>1 DEF Forward, Recorded, Failed, Sealing, Closing
  <2>2. Holds(w, f)
    BY <1>0, <1>6, StillHeld
  <2>3. files[f].status = "processing"
    BY <1>2, <2>1, <2>2 DEF Stage
  <2>4. ~ByEnd(f)
    BY <1>6, ConstAssumption DEF ByEnd, HoldsNext
  <2>5. ASSUME NEW v \in Worker, ByOwner(v, f)
        PROVE  files'[f].status = "processing"
    <3>1. v = w
      BY <2>2, <2>5 DEF ByOwner, Holds
    <3>2. ~Failed(w, f) /\ ~Published(w, f)
      BY <1>6 DEF Failed, Published, Open, Working
    <3>. QED
      BY <2>5, <3>1, <3>2 DEF ByOwner, Begun
  <2>. QED
    BY <1>0, <2>3, <2>4, <2>5 DEF FileMove, Untouched, ByClient, ByReset, Unsealed
<1>7. ASSUME x.failed, x.deleted
      PROVE  DeletedNext(f)
  <2>1. CASE Recorded(w, f)
    BY <1>7, <2>1 DEF Recorded, Failed, Outcome, DeletedNext
  <2>2. CASE ~Recorded(w, f)
    <3>1. ~Forward(w, f)
      BY <1>2, <1>7, Stages1 DEF Forward, Stage, Open
    <3>2. e.failed /\ e.deleted
      BY <1>3, <1>7, <2>2, <3>1 DEF Sealing, Closing, AsBefore
    <3>. QED
      BY <1>0, <1>2, <3>2, DeletedStays DEF Stage
  <2>. QED
    BY <2>1, <2>2
<1>8. ASSUME x.failed, x.try = MaxAttempts
      PROVE  files'[f].status # "completed"
  <2>1. CASE Recorded(w, f)
    BY <2>1 DEF Recorded, Failed
  <2>2. CASE ~Recorded(w, f)
    <3>1. ~Forward(w, f)
      BY <1>2, <1>8, Stages1 DEF Forward, Stage, Open
    <3>2. e.failed
      BY <1>3, <1>8, <2>2, <3>1 DEF Sealing, Closing, AsBefore
    <3>. QED
      BY <1>0, <1>1, <1>8, <3>2, NeverCompleted
  <2>. QED
    BY <2>1, <2>2
<1>. QED
  BY <1>4, <1>5, <1>6, <1>7, <1>8 DEF StageNext

LEMMA StagesClaimed ==
  ASSUME TypeOK, Codes, Stages, CodesNext, NEW w \in Worker, NEW f \in File, Fresh(w, f),
         Leased(w, f), Taken(w, f)
  PROVE  StagesNext
<1>. SUFFICES ASSUME NEW v \in Worker, NEW g \in File, OnNext(v, g)
              PROVE  StageNext(v, g)
  BY DEF StagesNext
<1>1. CASE v = w /\ g = f
  <2>1. execs'[v].pc \in {"begin", "settle"} /\ ~execs'[v].failed
    BY <1>1 DEF Fresh
  <2>2. execs'[v].pc = "begin" => files'[g].status = "processing"
    <3>1. files'[f] \in FileRow
      BY DEF Taken, Files1
    <3>2. files'[f].status \in FileStatus /\ SealedNext(f)
      BY <1>1, <3>1, FileFacts DEF CodesNext
    <3>. QED
      BY <1>1, <3>2 DEF Taken, SealedNext, FileStatus, Unsealed
  <2>. QED
    BY <2>1, <2>2 DEF StageNext, Open, Working
<1>2. CASE v # w /\ execs'[v] = execs[v] /\ On(v, g)
  <2>1. Stage(v, g)
    BY <1>2 DEF Stages
  <2>2. CASE g = f
    <3>1. ~HoldsNext(v, g)
      BY <1>2, <2>2 DEF HoldsNext, Leased
    <3>2. Deleted(f) => DeletedNext(f)
      BY DEF Taken, Deleted, DeletedNext
    <3>3. files[f].status # "completed" => files'[f].status # "completed"
      BY DEF Taken
    <3>. QED
      BY <1>2, <2>1, <2>2, <3>1, <3>2, <3>3 DEF Stage, StageNext
  <2>3. CASE g # f
    <3>1. files'[g] = files[g] /\ jobs'[g] = jobs[g]
      BY <2>3 DEF Taken, Leased, Files1, Jobs1
    <3>. QED
      BY <1>2, <2>1, <3>1 DEF Stage, StageNext, HoldsNext, Holds, Deleted, DeletedNext
  <2>. QED
    BY <2>2, <2>3
<1>. QED
  BY <1>1, <1>2, ClaimOn

LEMMA StagesKept ==
  ASSUME Inv, Next
  PROVE  Stages'
<1>0. TypeOK /\ Leases /\ Codes /\ Stages
  BY DEF Inv
<1>1. CASE Claims
  <2>1. PICK w \in Worker, f \in File : Claim(w, f)
    BY <1>1 DEF Claims
  <2>2. Fresh(w, f) /\ Leased(w, f) /\ Taken(w, f)
    BY <1>0, <2>1, ClaimFacts
  <2>. QED
    BY <1>0, <2>2, CodesClaimed, StagesClaimed, Zenon
       DEF StagesNext, Stages, OnNext, On, StageNext, Stage, HoldsNext, Holds,
           DeletedNext, Deleted
<1>2. CASE ~Claims
  <2>1. StagesNext
    BY <1>0, <1>2, FilesSteady, JobsSteady, ExecsSteady, StagesSteady
  <2>. QED
    BY <2>1, Zenon DEF StagesNext, Stages, OnNext, On, StageNext, Stage, HoldsNext,
       Holds, DeletedNext, Deleted
<1>. QED
  BY <1>1, <1>2

(* The invariant holds at first and in every state after it.               *)
LEMMA InvInit == Init => Inv /\ Aimed
<1>. SUFFICES ASSUME Init PROVE Inv /\ Aimed
  OBVIOUS
<1>1. \A f \in File : /\ files[f] = [status |-> "pending_upload", code |-> "none",
                                     created |-> FALSE]
                      /\ jobs[f] = NoJob
  BY DEF Init
<1>2. \A w \in Worker : execs[w].pc = "idle"
  BY IdleFacts DEF Init
<1>3. TypeOK
  <2>1. session \in SessionRow
    BY SMT DEF Init, SessionRow, SessionStatus
  <2>2. files \in [File -> FileRow]
    BY SMT DEF Init, FileRow
  <2>3. jobs \in [File -> JobRow]
    BY ConstAssumption, SMT DEF Init, JobRow, NoJob
  <2>4. docs \in [File -> DocRow]
    BY NoDocFacts DEF Init
  <2>5. execs \in [Worker -> Exec]
    BY IdleFacts DEF Init
  <2>6. eraser \in Eraser
    BY SMT DEF Init, Eraser, Resting
  <2>7. faults \in FaultType
    BY ConstAssumption, SMT DEF Init, FaultType
  <2>8. /\ removed \in [File -> {"no", "racing", "quiet"}]
        /\ store \subseteq Object /\ owed \subseteq {"blind", "checked"} \X File
        /\ requests \subseteq Request
    BY DEF Init
  <2>. QED
    BY <2>1, <2>2, <2>3, <2>4, <2>5, <2>6, <2>7, <2>8, Zenon
       DEF TypeOK, SessionRow, SessionStatus, FaultType
<1>4. Leases
  BY <1>1, <1>2 DEF Leases, NoJob, On
<1>5. Codes
  BY <1>1, <1>2 DEF Codes, NoJob, On
<1>6. Stages
  BY <1>2 DEF Stages, On
<1>7. Aimed
  BY DEF Init, Resting, Aimed
<1>. QED
  BY <1>3, <1>4, <1>5, <1>6, <1>7 DEF Inv

LEMMA InvKept == Inv /\ Aimed /\ [Next]_vars => Inv' /\ Aimed'
<1>. SUFFICES ASSUME Inv, Aimed, [Next]_vars PROVE Inv' /\ Aimed'
  OBVIOUS
<1>1. CASE Next
  <2>1. TypeOK' /\ Leases' /\ Codes' /\ Stages'
    BY <1>1, TypesKept, LeasesKept, CodesKept, StagesKept DEF Inv
  <2>2. Aimed'
    BY <1>1, EraserSteady DEF EraserSteps, Aimed, Inv
  <2>. QED
    BY <2>1, <2>2 DEF Inv
<1>2. CASE UNCHANGED vars
  <2>1. TypeOK'
    BY <1>2, Zenon DEF vars, Inv, TypeOK
  <2>2. Leases' /\ Codes'
    BY <1>2, Zenon DEF vars, Inv, Leases, Codes, On, Holds, Sealed
  <2>3. Stages'
    BY <1>2, Zenon DEF vars, Inv, Stages, Stage, On, Holds, Deleted
  <2>4. Aimed'
    BY <1>2, Zenon DEF vars, Aimed
  <2>. QED
    BY <2>1, <2>2, <2>3, <2>4 DEF Inv
<1>. QED
  BY <1>1, <1>2

LEMMA InvAlways == Spec => [](Inv /\ Aimed)
BY InvInit, InvKept, PTL DEF Spec

(* Every state of a session is one of its rows, for any number of files,   *)
(* workers, requests, attempts and faults.                                 *)
THEOREM TypeCorrect == Spec => []TypeOK
<1>1. Inv => TypeOK
  BY DEF Inv
<1>. QED
  BY <1>1, InvAlways, PTL

-----------------------------------------------------------------------------
(* The bytes of a completed file.                                          *)

CopiedNext(w, f) ==
  /\ execs'[w].pc \in {"version", "ready", "publish"} => StoredNext(f)
  /\ execs'[w].pc \in {"ready", "publish"} => docs'[f].version

KeptNext(f) ==
  /\ <<"checked", f>> \notin owed'
  /\ files'[f].status = "completed" => docs'[f].version /\ StoredNext(f)
  /\ \A w \in Worker : OnNext(w, f) /\ HoldsNext(w, f) => CopiedNext(w, f)

BytesNext ==
  /\ \A f \in File : removed'[f] = "no" => KeptNext(f)
  /\ \A f \in File : <<"blind", f>> \in owed' => DeletedNext(f)

(* Nobody discards the copy of a completed file, or of one that the holder *)
(* of its lease is at work on.                                             *)
LEMMA Spared ==
  ASSUME TypeOK, Leases, Stages, Bytes, NEW f \in File, removed[f] = "no",
         \/ files[f].status = "completed"
         \/ \E w \in Worker : On(w, f) /\ Holds(w, f) /\ execs[w].pc \in Open
  PROVE  ~Lost(f)
<1>1. ~Deleted(f)
  BY DEF Stages, Stage, Deleted
<1>2. <<"blind", f>> \notin owed /\ <<"checked", f>> \notin owed
  BY <1>1 DEF Bytes, Kept
<1>3. ASSUME NEW v \in Worker, Discards(v, f)
      PROVE  FALSE
  <2>1. /\ On(v, f) /\ execs[v].failed /\ execs[v].pc = "settle"
        /\ execs[v].deleted \/ execs[v].try = MaxAttempts
    BY <1>3 DEF Discards
  <2>2. ~execs[v].deleted
    BY <1>1, <2>1 DEF Stages, Stage
  <2>3. execs[v].try = MaxAttempts /\ files[f].status # "completed"
    BY <2>1, <2>2 DEF Stages, Stage
  <2>4. PICK w \in Worker : On(w, f) /\ Holds(w, f) /\ execs[w].pc \in Open
    BY <2>3
  <2>5. execs[w].try = jobs[f].attempts /\ execs[v].try <= jobs[f].attempts
    BY <2>1, <2>4 DEF Leases
  <2>6. execs[w].try = MaxAttempts
    BY <2>3, <2>4, <2>5, Numbers, ConstAssumption
  <2>7. v = w
    BY <2>1, <2>3, <2>4, <2>6 DEF Leases
  <2>. QED
    BY <2>1, <2>4, <2>7, Stages1 DEF Open, Working
<1>. QED
  BY <1>2, <1>3 DEF Lost

(* The copy, once made by the holder of the lease, stays.                  *)
LEMMA CopyStays ==
  ASSUME TypeOK, Leases, Stages, Bytes, StoreSteps, DocSteps, NEW f \in File,
         removed'[f] = "no", removed[f] = "no",
         \/ files[f].status = "completed"
         \/ \E w \in Worker : On(w, f) /\ Holds(w, f) /\ execs[w].pc \in Open
  PROVE  /\ Stored(f) => StoredNext(f)
         /\ docs[f].version => docs'[f].version
<1>1. ~Lost(f)
  BY Spared
<1>. QED
  BY <1>1 DEF StoreSteps, DocSteps, DocMove

LEMMA KeptSteady ==
  ASSUME TypeOK, Leases, Stages, Bytes, FileSteps, JobSteps, ExecSteps, DocSteps,
         StoreSteps, OwedSteps, NEW f \in File, removed'[f] = "no", removed[f] = "no"
  PROVE  KeptNext(f)
<1>0. Kept(f) /\ FileMove(f) /\ JobMove(f)
  BY DEF Bytes, FileSteps, JobSteps
<1>1. <<"checked", f>> \notin owed'
  BY <1>0 DEF Kept, OwedSteps
<1>2. ASSUME files'[f].status = "completed"
      PROVE  docs'[f].version /\ StoredNext(f)
  <2>1. CASE files[f].status = "completed"
    BY <1>0, <2>1, CopyStays DEF Kept
  <2>2. CASE files[f].status # "completed"
    <3>1. PICK w \in Worker : ByOwner(w, f)
      BY <1>0, <1>2, <2>2 DEF FileMove, Untouched, ByClient, ByEnd, ByReset
    <3>2. execs[w].pc = "publish" /\ On(w, f) /\ Holds(w, f)
      BY <1>2, <3>1 DEF ByOwner, Begun, Failed, Published
    <3>3. Copied(w, f) /\ execs[w].pc \in Open
      BY <1>0, <3>2, Stages1 DEF Kept, Open
    <3>. QED
      BY <3>2, <3>3, CopyStays DEF Copied
  <2>. QED
    BY <2>1, <2>2
<1>3. ASSUME NEW w \in Worker, OnNext(w, f), HoldsNext(w, f)
      PROVE  CopiedNext(w, f)
  <2>1. /\ On(w, f) /\ Holds(w, f)
        /\ execs'[w] = execs[w] \/ Goes(w, f)
    BY <1>0, <1>3, StillOn, StillHeld DEF ExecSteps
  <2>2. Copied(w, f)
    BY <1>0, <2>1 DEF Kept
  <2>3. CASE execs'[w] = execs[w]
    <3>1. CASE execs[w].pc \in {"version", "ready", "publish"}
      <4>1. execs[w].pc \in Open
        BY <3>1 DEF Open, Working
      <4>. QED
        BY <2>1, <2>2, <2>3, <4>1, CopyStays DEF Copied, CopiedNext
    <3>2. CASE execs[w].pc \notin {"version", "ready", "publish"}
      BY <2>3, <3>2 DEF CopiedNext
    <3>. QED
      BY <3>1, <3>2
  <2>4. CASE Forward(w, f)
    <3>1. execs[w].pc \in Open
      BY <2>4 DEF Forward, Open
    <3>2. /\ Stored(f) => StoredNext(f)
          /\ docs[f].version => docs'[f].version
      BY <2>1, <3>1, CopyStays
    <3>. QED
      BY <2>2, <2>4, <3>2 DEF Forward, Copied, CopiedNext
  <2>5. CASE Recorded(w, f) \/ Sealing(w) \/ Closing(w)
    BY <2>5 DEF Recorded, Failed, Sealing, Closing, Tail, CopiedNext
  <2>. QED
    BY <2>1, <2>3, <2>4, <2>5 DEF Goes
<1>. QED
  BY <1>1, <1>2, <1>3 DEF KeptNext

LEMMA BlindSteady ==
  ASSUME Stages, Bytes, FileSteps, OwedSteps, NEW f \in File, <<"blind", f>> \in owed'
  PROVE  DeletedNext(f)
<1>1. Deleted(f)
  <2>1. CASE <<"blind", f>> \in owed
    BY <2>1 DEF Bytes
  <2>2. ASSUME NEW w \in Worker, On(w, f), execs[w].pc = "owe", execs[w].deleted
        PROVE  Deleted(f)
    BY <2>2 DEF Stages, Stage
  <2>. QED
    BY <2>1, <2>2 DEF OwedSteps
<1>. QED
  BY <1>1, DeletedStays DEF FileSteps

(* A claim touches neither the objects nor the documents.                  *)
LEMMA BytesClaimed ==
  ASSUME Bytes, NEW w \in Worker, NEW f \in File, Fresh(w, f), Leased(w, f), Taken(w, f),
         UNCHANGED <<docs, removed, store, owed>>
  PROVE  BytesNext
<1>0. \A g \in File : g = f \/ (files'[g] = files[g] /\ jobs'[g] = jobs[g])
  BY DEF Leased, Taken, Jobs1, Files1
<1>1. \A g \in File : /\ files'[g].status = "completed" => files[g].status = "completed"
                      /\ Deleted(g) => DeletedNext(g)
  BY <1>0 DEF Taken, Deleted, DeletedNext
<1>2. \A g \in File : StoredNext(g) = Stored(g) /\ docs'[g] = docs[g]
  BY DEF StoredNext, Stored
<1>3. ASSUME NEW g \in File, removed'[g] = "no"
      PROVE  KeptNext(g)
  <2>1. Kept(g)
    BY <1>3 DEF Bytes
  <2>2. ASSUME NEW v \in Worker, OnNext(v, g), HoldsNext(v, g)
        PROVE  CopiedNext(v, g)
    <3>1. CASE v = w /\ g = f
      BY <3>1 DEF CopiedNext, Fresh
    <3>2. CASE v # w /\ execs'[v] = execs[v] /\ On(v, g)
      <4>1. g # f
        BY <2>2, <3>2 DEF HoldsNext, Leased
      <4>2. Holds(v, g)
        BY <1>0, <2>2, <4>1 DEF HoldsNext, Holds
      <4>. QED
        BY <1>2, <2>1, <3>2, <4>2 DEF Kept, Copied, CopiedNext
    <3>. QED
      BY <2>2, <3>1, <3>2, ClaimOn
  <2>. QED
    BY <1>1, <1>2, <2>1, <2>2 DEF Kept, KeptNext
<1>. QED
  BY <1>1, <1>3 DEF Bytes, BytesNext

LEMMA BytesKept ==
  ASSUME Inv, Aimed, Bytes, Next
  PROVE  Bytes'
<1>0. TypeOK /\ Leases /\ Codes /\ Stages
  BY DEF Inv
<1>1. BytesNext
  <2>1. CASE Claims
    <3>1. PICK w \in Worker, f \in File : Claim(w, f)
      BY <2>1 DEF Claims
    <3>2. UNCHANGED <<docs, removed, store, owed>>
      BY <2>1, LeaseFrame
    <3>. QED
      BY <1>0, <3>1, <3>2, ClaimFacts, BytesClaimed
  <2>2. CASE ~Claims
    <3>1. /\ FileSteps /\ JobSteps /\ ExecSteps /\ DocSteps /\ StoreSteps /\ OwedSteps
          /\ RemovedSteps
      BY <1>0, <2>2, FilesSteady, JobsSteady, ExecsSteady, DocsSteady, StoreSteady,
         OwedSteady, RemovedSteady
    <3>2. \A f \in File : removed'[f] = "no" => removed[f] = "no"
      BY <3>1 DEF RemovedSteps, RemovedMove
    <3>. QED
      BY <1>0, <3>1, <3>2, KeptSteady, BlindSteady DEF BytesNext
  <2>. QED
    BY <2>1, <2>2
<1>. QED
  BY <1>1, Zenon DEF BytesNext, KeptNext, CopiedNext, DeletedNext, StoredNext, OnNext,
     HoldsNext, Bytes, Kept, Copied, Deleted, Stored, On, Holds

LEMMA BytesAlways == Spec => []Bytes
<1>1. Init => Bytes
  <2>1. Init => \A f \in File : files[f].status = "pending_upload"
    BY DEF Init
  <2>2. Init => \A w \in Worker : execs[w].pc = "idle"
    BY IdleFacts DEF Init
  <2>. QED
    BY <2>1, <2>2 DEF Init, Bytes, Kept, On
<1>2. Inv /\ Aimed /\ Bytes /\ [Next]_vars => Bytes'
  <2>1. ASSUME UNCHANGED vars, Bytes
        PROVE  Bytes'
    BY <2>1, Zenon DEF vars, Bytes, Kept, Copied, Deleted, Stored, On, Holds
  <2>. QED
    BY <2>1, BytesKept
<1>. QED
  BY <1>1, <1>2, InvAlways, PTL DEF Spec

(* A file reported as completed has its version and its bytes, unless the  *)
(* user has deleted the document: whatever crashes, hangs or comes late.   *)
THEOREM CompletedKeepsBytes == Spec => []CompletedHasBytes
<1>1. Bytes => CompletedHasBytes
  BY DEF Bytes, Kept, Stored, CompletedHasBytes
<1>. QED
  BY <1>1, BytesAlways, PTL

-----------------------------------------------------------------------------
(* What stands, and what stays deleted.                                    *)

Stands ==
  \A f \in File :
    /\ files[f].status = "completed" => files'[f].status = "completed"
    /\ jobs[f].status \in {"completed", "error"} => jobs'[f] = jobs[f]

LEMMA StepStands ==
  ASSUME Inv, Next
  PROVE  Stands
<1>0. TypeOK /\ Leases /\ Codes /\ Stages
  BY DEF Inv
<1>1. CASE Claims
  <2>1. PICK w \in Worker, f \in File : Claim(w, f)
    BY <1>1 DEF Claims
  <2>2. Leased(w, f) /\ Taken(w, f)
    BY <1>0, <2>1, ClaimFacts
  <2>3. files[f].code = "processing_failed" => files[f].status = "error"
    BY <1>0 DEF Codes
  <2>4. files[f].status = "completed" => files'[f].status = "completed"
    BY <2>2, <2>3 DEF Taken
  <2>5. \A g \in File : g = f \/ (files'[g] = files[g] /\ jobs'[g] = jobs[g])
    BY <2>2 DEF Leased, Taken, Jobs1, Files1
  <2>. QED
    BY <2>2, <2>4, <2>5 DEF Stands, Leased
<1>2. CASE ~Claims
  <2>1. FileSteps /\ JobSteps
    BY <1>0, <1>2, FilesSteady, JobsSteady
  <2>2. ASSUME NEW f \in File, files[f].status = "completed"
        PROVE  files'[f].status = "completed"
    BY <1>0, <2>1, <2>2, OwnerStage DEF FileSteps, FileMove, Untouched, ByClient, ByEnd,
       ByReset, Unsealed
  <2>. QED
    BY <2>1, <2>2 DEF Stands, JobSteps, JobMove
<1>. QED
  BY <1>1, <1>2

(* A completed file and an ended job are never taken back, by any attempt  *)
(* however late, any retry or any sweep.                                   *)
THEOREM ResultsStay == Spec => ResultsStand
<1>1. Inv /\ [Next]_vars => [Stands]_vars
  BY StepStands
<1>2. [][Stands]_vars => ResultsStand
  BY PTL DEF ResultsStand, Stands
<1>. QED
  BY <1>1, <1>2, InvAlways, PTL DEF Spec

LEMMA GoneKept ==
  ASSUME Inv, Gone, Next
  PROVE  Gone'
<1>0. TypeOK /\ Leases /\ Codes /\ Stages
  BY DEF Inv
<1>1. DocSteps /\ RemovedSteps
  BY <1>0, DocsSteady, RemovedSteady
<1>. SUFFICES ASSUME NEW f \in File, removed'[f] = "quiet"
              PROVE  /\ docs'[f].status = "none" /\ files'[f].created
                     /\ \A w \in Worker : OnNext(w, f) =>
                          execs'[w].created /\ execs'[w].pc # "upsert"
  BY Zenon DEF Gone, Warned, On, OnNext
<1>2. CASE removed'[f] # removed[f]
  <2>1. /\ files[f].created /\ Unattempted(f) /\ docs'[f].status = "none"
        /\ execs' = execs /\ files' = files
    BY <1>1, <1>2 DEF RemovedSteps, RemovedMove
  <2>. QED
    BY <2>1, Zenon DEF Unattempted, On, OnNext
<1>3. CASE removed'[f] = removed[f]
  <2>1. /\ docs[f].status = "none" /\ files[f].created
        /\ \A w \in Worker : On(w, f) => execs[w].created /\ execs[w].pc # "upsert"
    BY <1>3 DEF Gone, Warned
  <2>2. docs'[f].status = "none"
    BY <1>1, <2>1 DEF DocSteps, DocMove
  <2>3. CASE Claims
    <3>1. PICK v \in Worker, g \in File : Claim(v, g)
      BY <2>3 DEF Claims
    <3>2. Fresh(v, g) /\ Taken(v, g)
      BY <1>0, <3>1, ClaimFacts
    <3>3. files'[f].created
      BY <2>1, <3>2 DEF Taken, Files1
    <3>4. ASSUME NEW w \in Worker, OnNext(w, f)
          PROVE  execs'[w].created /\ execs'[w].pc # "upsert"
      BY <2>1, <3>2, <3>4, ClaimOn DEF Fresh
    <3>. QED
      BY <2>2, <3>3, <3>4
  <2>4. CASE ~Claims
    <3>1. FileSteps /\ ExecSteps
      BY <1>0, <2>4, FilesSteady, ExecsSteady
    <3>2. files'[f].created
      BY <2>1, <3>1 DEF FileSteps
    <3>3. ASSUME NEW w \in Worker, OnNext(w, f)
          PROVE  execs'[w].created /\ execs'[w].pc # "upsert"
      <4>1. /\ On(w, f) /\ execs'[w].created = execs[w].created
            /\ execs'[w] = execs[w] \/ Goes(w, f)
        BY <3>1, <3>3, StillOn DEF ExecSteps
      <4>2. execs[w].created /\ execs[w].pc # "upsert"
        BY <2>1, <4>1
      <4>3. Vanished(w)
        BY <2>1, <4>1, <4>2 DEF Vanished, On
      <4>. QED
        BY <4>1, <4>2, <4>3 DEF Goes, Forward, Recorded, Failed, Sealing, Closing, Tail
    <3>. QED
      BY <2>2, <3>2, <3>3
  <2>. QED
    BY <2>3, <2>4
<1>. QED
  BY <1>2, <1>3

(* A document that the user deleted between two attempts is never put      *)
(* back, however the last attempt ended and whatever it still held.        *)
THEOREM StaysGone == Spec => []StaysDeleted
<1>1. Init => Gone
  BY DEF Init, Gone
<1>2. Inv /\ Gone /\ [Next]_vars => Gone'
  <2>1. ASSUME UNCHANGED vars, Gone
        PROVE  Gone'
    BY <2>1, Zenon DEF vars, Gone, Warned, On
  <2>. QED
    BY <2>1, GoneKept
<1>3. Gone => StaysDeleted
  BY DEF Gone, StaysDeleted
<1>. QED
  BY <1>1, <1>2, <1>3, InvAlways, PTL DEF Spec
=============================================================================
