--------------------------- MODULE AccountErasure ---------------------------
(***************************************************************************)
(* The erasure of one account against the work that is still under way     *)
(* for it.                                                                 *)
(*                                                                         *)
(* Exports are jobs that store a copy of the user's data under             *)
(* exports/<user>/ and name it in the result of their row.  Uploads store  *)
(* bytes under documents/<user>/ before the version row that names them.   *)
(* The account.delete job removes documents, objects, rows and, last, the  *)
(* auth user, and keeps what belongs to an organization.  Jobs are         *)
(* delivered at least once: JobQueue has the details that are left out     *)
(* here (backoff, delivery, cancellation), UploadProcessing those of       *)
(* uploads, DocumentCleanup the jobs that the deletion of a version queues.*)
(*                                                                         *)
(* A best-effort delete of one object is taken to succeed.                 *)
(***************************************************************************)
EXTENDS Integers

CONSTANTS
  Export,     \* export.build rows
  Account,    \* the account.delete row
  Doc,        \* documents the user uploads, with the bytes of one version
  OrgDoc,     \* those that belong to an organization
  Worker,     \* processes that run queued jobs
  Nothing,    \* no job, no worker
  ExportTries, EraseTries, \* maxAttempts
  MaxFaults   \* bound: crashes, hangs and failed calls

Job == Export \cup {Account}
PersonalDoc == Doc \ OrgDoc

ASSUME ConstAssumption ==
  /\ Account \notin Export /\ Job \cap Doc = {}
  /\ OrgDoc \subseteq Doc
  /\ Nothing \notin Worker \cup Job
  /\ ExportTries \in Nat \ {0} /\ EraseTries \in Nat \ {0}
  /\ MaxFaults \in Nat

Tries(j) == IF j = Account THEN EraseTries ELSE ExportTries

VARIABLES
  gone,      \* the auth user has been deleted
  blocked,   \* the user is the sole admin of an organization in use
  rows,      \* db_jobs; a row is done with its result
  docs,      \* the rows of a document: none, its own, and its version's
  objects,   \* what is stored: artifacts, and the bytes of documents
  uploads,   \* how far the upload of each document is
  execs,     \* what each worker is doing
  overlap,   \* history: work that an erasure found under way, or met, and
             \* bytes that its best-effort sweep did not come to
  expiring,  \* exports whose artifact a retention sweep has just deleted
  faults     \* faults so far

vars == <<gone, blocked, rows, docs, objects, uploads, execs, overlap, expiring,
          faults>>

RowOf == [status : {"none", "pending", "running", "done", "failed",
                    "gone", "forgotten"},
          attempts : 0..(ExportTries + EraseTries),
          holder : Worker \cup {Nothing},
          age : {"fresh", "stale"}]  \* stale: claimed STALE_SECONDS ago

Idle == [pc |-> "idle", job |-> Nothing, todo |-> {}]
ExportPcs  == {"store", "settle"}
ErasePcs   == {"check", "purge", "documents", "list", "orphans", "sweep",
               "orgs", "artifacts", "rows", "auth", "settle"}
Exec == [pc : {"idle"} \cup ExportPcs \cup ErasePcs, job : Job \cup {Nothing},
         todo : SUBSET Doc]

TypeOK ==
  /\ gone \in BOOLEAN /\ blocked \in BOOLEAN
  /\ rows \in [Job -> RowOf]
  /\ \A j \in Job : rows[j].attempts <= Tries(j)
  /\ docs \in [Doc -> {"none", "row", "version"}]
  /\ objects \subseteq Export \cup Doc
  /\ uploads \in [Doc -> {"new", "copy", "version", "cleanup", "over"}]
  /\ execs \in [Worker -> Exec]
  /\ overlap \subseteq Export \cup Doc
  /\ expiring \subseteq Export
  /\ faults \in 0..MaxFaults

Row(status, attempts) ==
  [status |-> status, attempts |-> attempts, holder |-> Nothing, age |-> "fresh"]

NoRow   == Row("none", 0)
Pending == Row("pending", 0)

(* The row of job j gets another status and no longer belongs to a claim.  *)
Put(j, status) == [rows EXCEPT ![j] = Row(status, rows[j].attempts)]

Init ==
  /\ gone = FALSE /\ blocked \in BOOLEAN
  /\ rows = [j \in Job |-> NoRow]
  /\ docs = [d \in Doc |-> "none"]
  /\ objects = {}
  /\ uploads = [d \in Doc |-> "new"]
  /\ execs = [w \in Worker |-> Idle]
  /\ overlap = {} /\ expiring = {}
  /\ faults = 0

Fault == faults < MaxFaults /\ faults' = faults + 1

-----------------------------------------------------------------------------
(* What an erasure meets: work of the account that is in somebody's hands. *)

EraserAt(pcs) == \E w \in Worker : execs[w].job = Account /\ execs[w].pc \in pcs

Erasing == EraserAt(ErasePcs \ {"check"})

UnderWay == {j \in Export : \E w \in Worker : execs[w].job = j}
       \cup {d \in Doc : uploads[d] \in {"copy", "version", "cleanup"}}

Meets(x) == overlap' = IF Erasing THEN overlap \cup {x} ELSE overlap

-----------------------------------------------------------------------------
(* The user, and the organizations the user is in.                         *)

(* A sign-in is possible as long as the auth user exists.  An export       *)
(* requested between the purge of the rows and that moment escapes.        *)
RequestExport(e) ==
  /\ ~gone /\ rows[e].status = "none"
  /\ rows' = [rows EXCEPT ![e] = Pending]
  /\ overlap' = IF EraserAt({"auth"}) THEN overlap \cup {e} ELSE overlap
  /\ UNCHANGED <<gone, blocked, docs, objects, uploads, execs, expiring,
                 faults>>

(* deleteUserAccount: refused at once, or queued under a dedupe key.       *)
RequestErasure ==
  /\ ~gone /\ ~blocked /\ rows[Account].status \in {"none", "failed"}
  /\ rows' = [rows EXCEPT ![Account] = Pending]
  /\ UNCHANGED <<gone, blocked, docs, objects, uploads, execs, overlap,
                 expiring, faults>>

(* Admins come and go, content is created and deleted.                     *)
OrgChanges ==
  /\ ~gone
  /\ blocked' = ~blocked
  /\ UNCHANGED <<gone, rows, docs, objects, uploads, execs, overlap, expiring,
                 faults>>

-----------------------------------------------------------------------------
(* An upload: the document row, which references the auth user, the bytes, *)
(* the version row, which needs the document row.                          *)

StartUpload(d) ==
  /\ ~gone /\ uploads[d] = "new"
  /\ docs' = [docs EXCEPT ![d] = "row"]
  /\ uploads' = [uploads EXCEPT ![d] = "copy"]
  /\ Meets(d)
  /\ UNCHANGED <<gone, blocked, rows, objects, execs, expiring, faults>>

CopyBytes(d) ==
  /\ uploads[d] = "copy"
  /\ objects' = objects \cup {d}
  /\ uploads' = [uploads EXCEPT ![d] = "version"]
  /\ UNCHANGED <<gone, blocked, rows, docs, execs, overlap, expiring, faults>>

CreateVersion(d) ==
  /\ uploads[d] = "version"
  /\ IF docs[d] = "none"
     THEN uploads' = [uploads EXCEPT ![d] = "cleanup"] /\ UNCHANGED docs
     ELSE /\ docs' = [docs EXCEPT ![d] = "version"]
          /\ uploads' = [uploads EXCEPT ![d] = "over"]
  /\ UNCHANGED <<gone, blocked, rows, objects, execs, overlap, expiring,
                 faults>>

(* The storage.cleanup job of an upload whose document was deleted.        *)
CleanUpload(d) ==
  /\ uploads[d] = "cleanup"
  /\ objects' = objects \ {d}
  /\ uploads' = [uploads EXCEPT ![d] = "over"]
  /\ UNCHANGED <<gone, blocked, rows, docs, execs, overlap, expiring, faults>>

(* The last attempt dies: its row and its bytes stay.                      *)
CrashUpload(d) ==
  /\ uploads[d] \in {"copy", "version"} /\ Fault
  /\ uploads' = [uploads EXCEPT ![d] = "over"]
  /\ UNCHANGED <<gone, blocked, rows, docs, objects, execs, overlap,
                 expiring>>

-----------------------------------------------------------------------------
(* The queue.                                                              *)

(* Mutation: one attempt too many.                                         *)
HasBudgetInclusive(j) == rows[j].attempts <= Tries(j)

HasBudget(j) == rows[j].attempts < Tries(j)

Claimable(j) ==
  /\ \/ rows[j].status = "pending"
     \/ rows[j].status = "running" /\ rows[j].age = "stale"
  /\ HasBudget(j)

Claim(w, j) ==
  /\ execs[w].pc = "idle" /\ Claimable(j)
  /\ rows' = [rows EXCEPT ![j] = [status |-> "running",
                                  attempts |-> rows[j].attempts + 1,
                                  holder |-> w, age |-> "fresh"]]
  /\ execs' = [execs EXCEPT ![w] =
       [pc |-> IF j = Account THEN "check" ELSE "store", job |-> j, todo |-> {}]]
  /\ IF j \in Export THEN Meets(j) ELSE UNCHANGED overlap
  /\ UNCHANGED <<gone, blocked, docs, objects, uploads, expiring, faults>>

(* claim_db_jobs fails a stale row that is out of attempts.                *)
Abandon(j) ==
  /\ rows[j].status = "running" /\ rows[j].age = "stale" /\ ~HasBudget(j)
  /\ rows' = Put(j, "failed")
  /\ UNCHANGED <<gone, blocked, docs, objects, uploads, execs, overlap,
                 expiring, faults>>

Owns(w) == rows[execs[w].job].status = "running" /\ rows[execs[w].job].holder = w

Works(j) == \E w \in Worker : execs[w].job = j /\ Owns(w)

ClaimAges(j) ==
  /\ rows[j].status = "running" /\ rows[j].age = "fresh"
  /\ rows' = [rows EXCEPT ![j].age = "stale"]
  /\ IF Works(j) THEN Fault ELSE UNCHANGED faults
  /\ UNCHANGED <<gone, blocked, docs, objects, uploads, execs, overlap,
                 expiring>>

Goto(w, pc, todo) ==
  execs' = [execs EXCEPT ![w] = [pc |-> pc, job |-> execs[w].job, todo |-> todo]]

(* The fenced update of processClaimedJob.                                 *)
Record(w, status) ==
  /\ rows' = IF Owns(w) THEN Put(execs[w].job, status) ELSE rows
  /\ execs' = [execs EXCEPT ![w] = Idle]

(* A call of the handler fails; what it had to do may be half done.        *)
Throw(w) ==
  /\ execs[w].pc \notin {"idle", "settle"}
  /\ Fault
  /\ Record(w, IF HasBudget(execs[w].job) THEN "pending" ELSE "failed")
  /\ UNCHANGED <<gone, blocked, docs, objects, uploads, overlap, expiring>>

CrashWorker(w) ==
  /\ execs[w].pc # "idle" /\ Fault
  /\ execs' = [execs EXCEPT ![w] = Idle]
  /\ UNCHANGED <<gone, blocked, rows, docs, objects, uploads, overlap,
                 expiring>>

Settle(w) ==
  /\ execs[w].pc = "settle"
  /\ Record(w, "done")
  /\ UNCHANGED <<gone, blocked, docs, objects, uploads, overlap, expiring,
                 faults>>

(* handleExportBuild: the artifact first, its name with the outcome.       *)
StoreArtifact(w) ==
  /\ execs[w].pc = "store"
  /\ objects' = objects \cup {execs[w].job}
  /\ Goto(w, "settle", {})
  /\ UNCHANGED <<gone, blocked, rows, docs, uploads, overlap, expiring,
                 faults>>

(* runDbJobRetentionSweep: a day after the export is done its artifact     *)
(* goes, then the row.  No handler of the row is left by then.  When the   *)
(* delete of the artifact fails, the row is kept and nothing changes.      *)

(* Mutation: the sweep goes on to the row although that delete has failed. *)
ExpireRegardless(e) ==
  /\ rows[e].status = "done" /\ e \notin UnderWay
  /\ expiring' = expiring \cup {e}
  /\ UNCHANGED <<gone, blocked, rows, docs, objects, uploads, execs, overlap,
                 faults>>

ExpireArtifact(e) ==
  /\ rows[e].status = "done" /\ e \notin UnderWay
  /\ objects' = objects \ {e}
  /\ expiring' = expiring \cup {e}
  /\ UNCHANGED <<gone, blocked, rows, docs, uploads, execs, overlap, faults>>

(* By id: an erasure may have deleted the row in between.                  *)
ExpireRow(e) ==
  /\ e \in expiring
  /\ rows' = Put(e, "gone")
  /\ expiring' = expiring \ {e}
  /\ UNCHANGED <<gone, blocked, docs, objects, uploads, execs, overlap, faults>>

(* The process stops in between, or the delete of the row errs, which the  *)
(* sweep does not look at: the next sweep finds the row and starts again.  *)
CrashSweep(e) ==
  /\ e \in expiring /\ Fault
  /\ expiring' = expiring \ {e}
  /\ UNCHANGED <<gone, blocked, rows, docs, objects, uploads, execs, overlap>>

(* A month after it has failed, the row goes.                              *)
ForgetFailed(e) ==
  /\ rows[e].status = "failed" /\ e \notin UnderWay
  /\ rows' = Put(e, "forgotten")
  /\ UNCHANGED <<gone, blocked, docs, objects, uploads, execs, overlap,
                 expiring, faults>>

-----------------------------------------------------------------------------
(* handleAccountDelete.                                                    *)

Refuse(w) == Record(w, "failed") /\ UNCHANGED overlap

(* Refusal before destruction; then the documents to delete are read.      *)
CheckBlockers(w) ==
  /\ execs[w].pc = "check"
  /\ IF blocked THEN Refuse(w)
     ELSE /\ Goto(w, "purge", {d \in PersonalDoc : docs[d] # "none"})
          /\ overlap' = overlap \cup UnderWay
          /\ UNCHANGED rows
  /\ UNCHANGED <<gone, blocked, docs, objects, uploads, expiring, faults>>

(* Mutation: the failures of this purge are swallowed, like those of the   *)
(* sweep of the documents.                                                 *)
SwallowsFailure == TRUE

PurgeGoesOn == FALSE

(* deleteUserExportArtifacts.                                              *)
PurgeArtifacts(w) ==
  /\ execs[w].pc = "purge"
  /\ \/ objects' = objects \ Export /\ UNCHANGED faults
     \/ PurgeGoesOn /\ Fault /\ UNCHANGED objects
  /\ Goto(w, "documents", execs[w].todo)
  /\ UNCHANGED <<gone, blocked, rows, docs, uploads, overlap, expiring>>

DeleteDocuments(w) ==
  /\ execs[w].pc = "documents"
  /\ docs' = [d \in Doc |-> IF d \in execs[w].todo THEN "none" ELSE docs[d]]
  /\ Goto(w, "list", {})
  /\ UNCHANGED <<gone, blocked, rows, objects, uploads, overlap, expiring,
                 faults>>

(* deleteOrphanedUserStorage lists the objects of the user, ...            *)
ListStorage(w) ==
  /\ execs[w].pc = "list"
  /\ Goto(w, "orphans", objects \cap Doc)
  /\ UNCHANGED <<gone, blocked, rows, docs, objects, uploads, overlap,
                 expiring, faults>>

(* ... its failure is swallowed: what jobs the deleted versions have queued *)
(* do not name stays behind, ...                                           *)
SkipSweep(w) ==
  /\ execs[w].pc \in {"list", "orphans"} /\ Fault
  /\ Goto(w, "orgs", {})
  /\ overlap' = overlap \cup {d \in Doc \cap objects : docs[d] # "version"}
  /\ UNCHANGED <<gone, blocked, rows, docs, objects, uploads, expiring>>

(* Mutation: the prefix is deleted wholesale.                              *)
Everything(d) == TRUE

Orphan(d) == docs[d] # "version"

(* ... asks which of them a version row claims, ...                        *)
FindOrphans(w) ==
  /\ execs[w].pc = "orphans"
  /\ Goto(w, "sweep", {d \in execs[w].todo : Orphan(d)})
  /\ UNCHANGED <<gone, blocked, rows, docs, objects, uploads, overlap,
                 expiring, faults>>

(* ... and deletes the others.                                             *)
SweepStorage(w) ==
  /\ execs[w].pc = "sweep"
  /\ objects' = objects \ execs[w].todo
  /\ Goto(w, "orgs", {})
  /\ UNCHANGED <<gone, blocked, rows, docs, uploads, overlap, expiring,
                 faults>>

(* deleteUserOrganizations asks again, after the destruction.              *)
LeaveOrgs(w) ==
  /\ execs[w].pc = "orgs"
  /\ IF blocked THEN Refuse(w) ELSE Goto(w, "artifacts", {}) /\ UNCHANGED <<rows, overlap>>
  /\ UNCHANGED <<gone, blocked, docs, objects, uploads, expiring, faults>>

(* The artifacts that rows name, for what the listing has missed.          *)
DeleteArtifacts(w) ==
  /\ execs[w].pc = "artifacts"
  /\ objects' = objects \ {e \in Export : rows[e].status = "done"}
  /\ Goto(w, "rows", {})
  /\ UNCHANGED <<gone, blocked, rows, docs, uploads, overlap, expiring,
                 faults>>

PurgeRows(w) ==
  /\ execs[w].pc = "rows"
  /\ rows' = [j \in Job |-> IF j \in Export /\ rows[j].status # "none"
                            THEN Row("gone", 0) ELSE rows[j]]
  /\ Goto(w, "auth", {})
  /\ UNCHANGED <<gone, blocked, docs, objects, uploads, overlap, expiring,
                 faults>>

DeleteUser(w) ==
  /\ execs[w].pc = "auth"
  /\ gone' = TRUE /\ Goto(w, "settle", {})
  /\ UNCHANGED <<blocked, rows, docs, objects, uploads, overlap, expiring,
                 faults>>

-----------------------------------------------------------------------------
Step(w) ==
  \/ Settle(w) \/ StoreArtifact(w) \/ CheckBlockers(w) \/ PurgeArtifacts(w)
  \/ DeleteDocuments(w) \/ ListStorage(w) \/ SkipSweep(w) \/ FindOrphans(w)
  \/ SweepStorage(w) \/ LeaveOrgs(w) \/ DeleteArtifacts(w) \/ PurgeRows(w)
  \/ DeleteUser(w)

Next ==
  \/ \E e \in Export : \/ RequestExport(e) \/ ForgetFailed(e)
                       \/ ExpireArtifact(e) \/ ExpireRow(e) \/ CrashSweep(e)
  \/ RequestErasure \/ OrgChanges
  \/ \E d \in Doc : \/ StartUpload(d) \/ CopyBytes(d) \/ CreateVersion(d)
                    \/ CleanUpload(d) \/ CrashUpload(d)
  \/ \E j \in Job : Abandon(j) \/ ClaimAges(j)
  \/ \E w \in Worker : \/ \E j \in Job : Claim(w, j)
                       \/ Step(w) \/ Throw(w) \/ CrashWorker(w)

Spec == Init /\ [][Next]_vars

-----------------------------------------------------------------------------
(* Properties.                                                             *)

(* Whatever is left once the auth user is gone was under way during the    *)
(* erasure, or its best-effort sweep of the uploads failed: no retry of it, *)
(* crash in it or failed delete, and no artifact that an earlier attempt of *)
(* an export stored without a name, leaves anything else.                  *)
ErasureLeavesNothing ==
  gone => /\ objects \cap (Export \cup PersonalDoc) \subseteq overlap
          /\ {d \in PersonalDoc : docs[d] # "none"} \subseteq overlap

(* A version that an organization keeps keeps its bytes, although they lie *)
(* under the prefix of the erased user; unless its upload was under way.   *)
OrgBytesKept ==
  \A d \in OrgDoc \ overlap : docs[d] = "version" => d \in objects

(* No row is removed before the artifact it names: neither by a retention  *)
(* sweep, whatever fails or stops between its two deletes, nor by the      *)
(* erasure that runs beside it, unless the export was under way in that.   *)
ArtifactsKeepTheirName ==
  \A e \in Export \ overlap : e \in objects => rows[e].status # "gone"
=============================================================================
