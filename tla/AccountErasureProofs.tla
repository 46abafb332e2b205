------------------------ MODULE AccountErasureProofs ------------------------
(***************************************************************************)
(* What erasure_safe shows on a small instance, proved for any number of   *)
(* exports, documents, workers, attempts and faults.                       *)
(***************************************************************************)
EXTENDS AccountErasure, TLAPS

-----------------------------------------------------------------------------
(* The inductive invariant.                                                *)

(* Which job a worker at a step has.                                       *)
Jobs ==
  \A w \in Worker :
    /\ execs[w].pc = "idle" <=> execs[w].job = Nothing
    /\ execs[w].pc = "store" => execs[w].job \in Export
    /\ execs[w].pc \in ErasePcs \ {"settle"} => execs[w].job = Account

TypeInv == TypeOK /\ Jobs

(* What is under way during an erasure is known to have met it.            *)
Meeting == Erasing => UnderWay \subseteq overlap

(* A document has no version before its upload creates one.                *)
Uploading ==
  \A d \in Doc : uploads[d] \in {"new", "copy", "version", "cleanup"} =>
    docs[d] # "version"

(* The bytes of what an organization keeps, from their copy on; a sweep is *)
(* not after them.                                                         *)
Kept ==
  \A d \in OrgDoc \ overlap :
    /\ uploads[d] = "version" => d \in objects
    /\ docs[d] = "version" => d \in objects
    /\ \A w \in Worker : execs[w].pc = "sweep" /\ d \in execs[w].todo =>
         docs[d] # "version"

(* Between the two deletes of a retention sweep the artifact is gone, and  *)
(* no claim will store it again: its row is done, or deleted.              *)
Expiring ==
  \A e \in expiring :
    /\ rows[e].status \in {"done", "gone"} /\ e \notin objects
    /\ \A w \in Worker : execs[w].job # e

(* Erasures that have purged the artifacts.                                *)
Purged == ErasePcs \ {"check", "purge"}

(* Without a meeting, an artifact is gone when its row is or a purge was,  *)
(* and nobody stores it again.                                             *)
Artifacts ==
  \A e \in Export \ overlap :
    /\ rows[e].status = "gone" => e \notin UnderWay /\ e \notin objects
    /\ EraserAt(Purged) => e \notin objects

(* Without a meeting, no row of an export is left from their purge on.     *)
Unrequested ==
  \A e \in Export \ overlap :
    /\ gone \/ EraserAt({"auth"}) => rows[e].status \in {"none", "gone"}
    /\ gone => e \notin UnderWay /\ e \notin objects

(* How far an erasure is with a document that it did not meet.             *)
Erased(d, x) ==
  /\ x.pc \in {"purge", "documents"} => docs[d] = "none" \/ d \in x.todo
  /\ x.pc \in {"list", "orphans", "sweep", "orgs", "artifacts", "rows", "auth"} =>
       docs[d] = "none"
  /\ x.pc \in {"orphans", "sweep"} => d \notin objects \/ d \in x.todo
  /\ x.pc \in {"orgs", "artifacts", "rows", "auth"} => d \notin objects

Forgotten ==
  \A d \in PersonalDoc \ overlap :
    /\ gone => docs[d] = "none" /\ d \notin objects /\ d \notin UnderWay
    /\ \A w \in Worker : Erased(d, execs[w])

Outcome ==
  Meeting /\ Uploading /\ Kept /\ Artifacts /\ Unrequested /\ Forgotten

ErasureInv == TypeInv /\ Expiring /\ Outcome

-----------------------------------------------------------------------------
(* Rows and workers.                                                       *)

Statuses == {"none", "pending", "running", "done", "failed", "gone", "forgotten"}

LEMMA Constants ==
  /\ Account \notin Export /\ Account \in Job /\ Export \subseteq Job
  /\ \A x \in Job : x \notin Doc
  /\ Nothing \notin Worker /\ Nothing \notin Job /\ Account # Nothing
  /\ ExportTries \in Nat \ {0} /\ EraseTries \in Nat \ {0} /\ MaxFaults \in Nat
  /\ \A j \in Job : Tries(j) \in Nat /\ Tries(j) <= ExportTries + EraseTries
BY ConstAssumption, SMT DEF Job, Tries

LEMMA RowFacts ==
  ASSUME NEW status \in Statuses, NEW n \in 0..(ExportTries + EraseTries)
  PROVE  /\ Row(status, n) \in RowOf
         /\ Row(status, n).status = status /\ Row(status, n).attempts = n
BY SMT DEF Row, RowOf, Statuses

LEMMA PutFacts ==
  ASSUME TypeOK, NEW j \in Job, NEW status \in Statuses, rows' = Put(j, status)
  PROVE  /\ rows' \in [Job -> RowOf]
         /\ \A i \in Job : rows'[i].attempts <= Tries(i)
         /\ rows'[j].status = status
         /\ \A i \in Job \ {j} : rows'[i] = rows[i]
<1>1. rows \in [Job -> RowOf] /\ \A i \in Job : rows[i].attempts <= Tries(i)
  BY Zenon DEF TypeOK
<1>2. rows[j].attempts \in 0..(ExportTries + EraseTries)
  BY <1>1, SMT DEF RowOf
<1>. DEFINE r == Row(status, rows[j].attempts)
<1>3. r \in RowOf /\ r.status = status /\ r.attempts = rows[j].attempts
  BY <1>2, RowFacts
<1>4. rows' = [rows EXCEPT ![j] = r]
  BY DEF Put
<1>. HIDE DEF r
<1>. QED
  BY <1>1, <1>3, <1>4, SMT

LEMMA NewRowFacts ==
  ASSUME TypeOK, NEW j \in Job, NEW status \in Statuses,
         rows' = [rows EXCEPT ![j] = Row(status, 0)]
  PROVE  /\ rows' \in [Job -> RowOf]
         /\ \A i \in Job : rows'[i].attempts <= Tries(i)
         /\ rows'[j].status = status
         /\ \A i \in Job \ {j} : rows'[i] = rows[i]
<1>1. rows \in [Job -> RowOf] /\ \A i \in Job : rows[i].attempts <= Tries(i)
  BY Zenon DEF TypeOK
<1>2. Row(status, 0) \in RowOf /\ Row(status, 0).status = status
      /\ Row(status, 0).attempts = 0
  BY Constants, RowFacts, SMT
<1>. QED
  BY <1>1, <1>2, Constants, SMT

LEMMA GotoFacts ==
  ASSUME TypeOK, NEW w \in Worker, NEW pc \in ExportPcs \cup ErasePcs,
         NEW todo \in SUBSET Doc, Goto(w, pc, todo)
  PROVE  /\ execs' \in [Worker -> Exec]
         /\ execs'[w].pc = pc /\ execs'[w].job = execs[w].job /\ execs'[w].todo = todo
         /\ \A v \in Worker \ {w} : execs'[v] = execs[v]
BY SMT DEF Goto, TypeOK, Exec

LEMMA IdleFacts ==
  ASSUME TypeOK, NEW w \in Worker, execs' = [execs EXCEPT ![w] = Idle]
  PROVE  /\ execs' \in [Worker -> Exec]
         /\ execs'[w].pc = "idle" /\ execs'[w].job = Nothing
         /\ \A v \in Worker \ {w} : execs'[v] = execs[v]
BY SMT DEF Idle, TypeOK, Exec

(* A claim ends: its row, if it still is its, gets the status.             *)
LEMMA RecordFacts ==
  ASSUME TypeInv, NEW w \in Worker, execs[w].pc # "idle",
         NEW status \in Statuses, Record(w, status)
  PROVE  /\ rows' \in [Job -> RowOf]
         /\ \A i \in Job : rows'[i].attempts <= Tries(i)
         /\ \A i \in Job : rows'[i] # rows[i] =>
           i = execs[w].job /\ rows'[i].status = status
         /\ execs' \in [Worker -> Exec]
         /\ execs'[w].pc = "idle" /\ execs'[w].job = Nothing
         /\ \A v \in Worker \ {w} : execs'[v] = execs[v]
<1>1. execs[w].job \in Job
  BY SMT DEF TypeInv, TypeOK, Jobs, Exec
<1>2. rows' = rows \/ rows' = Put(execs[w].job, status)
  BY Zenon DEF Record
<1>3. /\ rows' \in [Job -> RowOf]
      /\ \A i \in Job : rows'[i].attempts <= Tries(i)
      /\ \A i \in Job : rows'[i] # rows[i] =>
           i = execs[w].job /\ rows'[i].status = status
  <2>1. CASE rows' = rows
    BY <2>1, Zenon DEF TypeInv, TypeOK
  <2>2. CASE rows' = Put(execs[w].job, status)
    BY <1>1, <2>2, PutFacts DEF TypeInv
  <2>. QED
    BY <1>2, <2>1, <2>2
<1>4. execs' = [execs EXCEPT ![w] = Idle]
  BY DEF Record
<1>. QED
  BY <1>3, <1>4, IdleFacts DEF TypeInv

LEMMA JobsGoto ==
  ASSUME TypeInv, NEW w \in Worker, NEW pc \in ExportPcs \cup ErasePcs,
         NEW todo \in SUBSET Doc, Goto(w, pc, todo), execs[w].pc # "idle",
         pc # "store", pc # "settle" => execs[w].job = Account
  PROVE  Jobs' /\ execs' \in [Worker -> Exec]
<1>1. /\ execs' \in [Worker -> Exec]
      /\ execs'[w].pc = pc /\ execs'[w].job = execs[w].job
      /\ \A v \in Worker \ {w} : execs'[v] = execs[v]
  BY GotoFacts DEF TypeInv
<1>2. execs[w].job # Nothing /\ pc # "idle"
  BY SMT DEF TypeInv, Jobs, ExportPcs, ErasePcs
<1>. QED
  BY <1>1, <1>2, SMT DEF TypeInv, Jobs, ErasePcs

LEMMA JobsIdle ==
  ASSUME TypeInv, NEW w \in Worker, execs' \in [Worker -> Exec],
         execs'[w].pc = "idle", execs'[w].job = Nothing,
         \A v \in Worker \ {w} : execs'[v] = execs[v]
  PROVE  Jobs'
BY SMT DEF TypeInv, Jobs, ErasePcs

LEMMA FaultType ==
  ASSUME TypeOK, Fault
  PROVE  faults' \in 0..MaxFaults
BY Constants, SMT DEF TypeOK, Fault

-----------------------------------------------------------------------------
(* Types.                                                                  *)

LEMMA TypeRequests ==
  ASSUME TypeInv,
         RequestErasure \/ OrgChanges \/
         \E e \in Export : RequestExport(e) \/ ForgetFailed(e)
  PROVE  TypeInv'
<1>1. ASSUME execs' = execs
      PROVE  Jobs'
  BY <1>1, Zenon DEF TypeInv, Jobs
<1>2. ASSUME NEW e \in Export, RequestExport(e)
      PROVE  TypeInv'
  <2>1. rows' = [rows EXCEPT ![e] = Row("pending", 0)] /\ e \in Job
    BY <1>2, Constants, Zenon DEF RequestExport, Pending
  <2>2. /\ rows' \in [Job -> RowOf]
        /\ \A i \in Job : rows'[i].attempts <= Tries(i)
    BY <2>1, NewRowFacts DEF TypeInv, Statuses
  <2>3. overlap' \subseteq Export \cup Doc
    BY <1>2, SMT DEF RequestExport, TypeInv, TypeOK
  <2>. QED
    BY <1>1, <1>2, <2>2, <2>3, Zenon DEF RequestExport, TypeInv, TypeOK
<1>3. CASE RequestErasure
  <2>1. rows' = [rows EXCEPT ![Account] = Row("pending", 0)] /\ Account \in Job
    BY <1>3, Constants, Zenon DEF RequestErasure, Pending
  <2>2. /\ rows' \in [Job -> RowOf]
        /\ \A i \in Job : rows'[i].attempts <= Tries(i)
    BY <2>1, NewRowFacts DEF TypeInv, Statuses
  <2>. QED
    BY <1>1, <1>3, <2>2, Zenon DEF RequestErasure, TypeInv, TypeOK
<1>4. CASE OrgChanges
  BY <1>1, <1>4, Zenon DEF OrgChanges, TypeInv, TypeOK
<1>5. ASSUME NEW e \in Export, ForgetFailed(e)
      PROVE  TypeInv'
  <2>1. rows' = Put(e, "forgotten") /\ e \in Job
    BY <1>5, Constants, Zenon DEF ForgetFailed
  <2>2. /\ rows' \in [Job -> RowOf]
        /\ \A i \in Job : rows'[i].attempts <= Tries(i)
    BY <2>1, PutFacts DEF TypeInv, Statuses
  <2>. QED
    BY <1>1, <1>5, <2>2, Zenon DEF ForgetFailed, TypeInv, TypeOK
<1>. QED
  BY <1>2, <1>3, <1>4, <1>5

LEMMA TypeRetention ==
  ASSUME TypeInv, NEW e \in Export,
         ExpireArtifact(e) \/ ExpireRow(e) \/ CrashSweep(e)
  PROVE  TypeInv'
<1>1. Jobs'
  BY Zenon DEF ExpireArtifact, ExpireRow, CrashSweep, TypeInv, Jobs
<1>2. /\ rows' \in [Job -> RowOf]
      /\ \A i \in Job : rows'[i].attempts <= Tries(i)
  <2>1. CASE rows' = rows
    BY <2>1, Zenon DEF TypeInv, TypeOK
  <2>2. CASE rows' = Put(e, "gone")
    <3>1. e \in Job /\ "gone" \in Statuses
      BY Constants, SMT DEF Statuses
    <3>. QED
      BY <2>2, <3>1, PutFacts DEF TypeInv
  <2>. QED
    BY <2>1, <2>2, Zenon DEF ExpireArtifact, ExpireRow, CrashSweep
<1>3. objects' \subseteq Export \cup Doc /\ expiring' \subseteq Export
  BY SMT DEF ExpireArtifact, ExpireRow, CrashSweep, TypeInv, TypeOK
<1>4. faults' \in 0..MaxFaults
  BY FaultType, Zenon DEF ExpireArtifact, ExpireRow, CrashSweep, TypeInv, TypeOK
<1>. QED
  BY <1>1, <1>2, <1>3, <1>4, Zenon DEF ExpireArtifact, ExpireRow, CrashSweep, TypeInv,
     TypeOK

LEMMA TypeUploads ==
  ASSUME TypeInv, NEW d \in Doc,
         StartUpload(d) \/ CopyBytes(d) \/ CreateVersion(d) \/ CleanUpload(d)
           \/ CrashUpload(d)
  PROVE  TypeInv'
<1>1. Jobs'
  BY Zenon DEF StartUpload, CopyBytes, CreateVersion, CleanUpload, CrashUpload, TypeInv,
     Jobs
<1>2. /\ rows' = rows /\ execs' = execs /\ gone' = gone /\ blocked' = blocked
      /\ expiring' = expiring
  BY Zenon DEF StartUpload, CopyBytes, CreateVersion, CleanUpload, CrashUpload
<1>3. docs' \in [Doc -> {"none", "row", "version"}]
  BY SMT DEF StartUpload, CopyBytes, CreateVersion, CleanUpload, CrashUpload, TypeInv,
     TypeOK
<1>4. uploads' \in [Doc -> {"new", "copy", "version", "cleanup", "over"}]
  BY SMT DEF StartUpload, CopyBytes, CreateVersion, CleanUpload, CrashUpload, TypeInv,
     TypeOK
<1>5. objects' \subseteq Export \cup Doc /\ overlap' \subseteq Export \cup Doc
  BY SMT DEF StartUpload, CopyBytes, CreateVersion, CleanUpload, CrashUpload, Meets,
     TypeInv, TypeOK
<1>6. faults' \in 0..MaxFaults
  BY FaultType, Zenon DEF StartUpload, CopyBytes, CreateVersion, CleanUpload, CrashUpload,
     TypeInv, TypeOK
<1>. QED
  BY <1>1, <1>2, <1>3, <1>4, <1>5, <1>6, Zenon DEF TypeInv, TypeOK

LEMMA TypeQueue ==
  ASSUME TypeInv, NEW j \in Job,
         Abandon(j) \/ ClaimAges(j) \/ \E w \in Worker : Claim(w, j)
  PROVE  TypeInv'
<1>1. CASE Abandon(j)
  <2>1. Jobs'
    BY <1>1, Zenon DEF Abandon, TypeInv, Jobs
  <2>2. rows' = Put(j, "failed")
    BY <1>1 DEF Abandon
  <2>3. /\ rows' \in [Job -> RowOf]
        /\ \A i \in Job : rows'[i].attempts <= Tries(i)
    BY <2>2, PutFacts DEF TypeInv, Statuses
  <2>. QED
    BY <1>1, <2>1, <2>3, Zenon DEF Abandon, TypeInv, TypeOK
<1>2. CASE ClaimAges(j)
  <2>1. Jobs'
    BY <1>2, Zenon DEF ClaimAges, TypeInv, Jobs
  <2>2. /\ rows' \in [Job -> RowOf]
        /\ \A i \in Job : rows'[i].attempts <= Tries(i)
    BY <1>2, SMT DEF ClaimAges, TypeInv, TypeOK, RowOf
  <2>3. faults' \in 0..MaxFaults
    BY <1>2, FaultType, Zenon DEF ClaimAges, TypeInv, TypeOK
  <2>. QED
    BY <1>2, <2>1, <2>2, <2>3, Zenon DEF ClaimAges, TypeInv, TypeOK
<1>3. ASSUME NEW w \in Worker, Claim(w, j)
      PROVE  TypeInv'
  <2>. DEFINE r == [status |-> "running", attempts |-> rows[j].attempts + 1,
                    holder |-> w, age |-> "fresh"]
              x == [pc |-> IF j = Account THEN "check" ELSE "store", job |-> j,
                    todo |-> {}]
  <2>1. rows' = [rows EXCEPT ![j] = r] /\ execs' = [execs EXCEPT ![w] = x]
    BY <1>3, Zenon DEF Claim
  <2>2. /\ rows \in [Job -> RowOf] /\ \A i \in Job : rows[i].attempts <= Tries(i)
        /\ execs \in [Worker -> Exec]
    BY Zenon DEF TypeInv, TypeOK
  <2>3. r \in RowOf /\ r.attempts <= Tries(j)
    BY <1>3, <2>2, Constants, SMT DEF Claim, Claimable, HasBudget, RowOf
  <2>4. x \in Exec /\ x.pc = (IF j = Account THEN "check" ELSE "store") /\ x.job = j
    BY SMT DEF Exec, ErasePcs, ExportPcs
  <2>5. /\ rows' \in [Job -> RowOf] /\ \A i \in Job : rows'[i].attempts <= Tries(i)
        /\ execs' \in [Worker -> Exec] /\ execs'[w] = x
        /\ \A v \in Worker \ {w} : execs'[v] = execs[v]
    <3>. HIDE DEF r, x
    <3>. QED
      BY <2>1, <2>2, <2>3, <2>4, SMT
  <2>6. Jobs'
    <3>1. x.pc # "idle" /\ x.job # Nothing /\ (x.pc = "store" => x.job \in Export)
          /\ (x.pc # "store" => x.job = Account)
      BY <2>4, Constants, SMT DEF Job
    <3>. HIDE DEF x
    <3>. QED
      BY <2>5, <3>1, SMT DEF TypeInv, Jobs, ErasePcs
  <2>7. overlap' \subseteq Export \cup Doc
    BY <1>3, SMT DEF Claim, Meets, TypeInv, TypeOK
  <2>. QED
    BY <1>3, <2>5, <2>6, <2>7, Zenon DEF Claim, TypeInv, TypeOK
<1>. QED
  BY <1>1, <1>2, <1>3

LEMMA TypeWorker ==
  ASSUME TypeInv, NEW w \in Worker, Step(w) \/ Throw(w) \/ CrashWorker(w)
  PROVE  TypeInv'
<1>1. ASSUME NEW status \in Statuses, Record(w, status), execs[w].pc # "idle",
             gone' = gone, blocked' = blocked, docs' = docs, objects' = objects,
             uploads' = uploads, overlap' = overlap, expiring' = expiring,
             faults' \in 0..MaxFaults
      PROVE  TypeInv'
  <2>1. /\ rows' \in [Job -> RowOf] /\ \A i \in Job : rows'[i].attempts <= Tries(i)
        /\ execs' \in [Worker -> Exec]
    BY <1>1, RecordFacts
  <2>2. Jobs'
    BY <1>1, RecordFacts, JobsIdle
  <2>. QED
    BY <1>1, <2>1, <2>2, Zenon DEF TypeInv, TypeOK
<1>2. CASE Throw(w)
  <2>1. faults' \in 0..MaxFaults
    BY <1>2, FaultType DEF Throw, TypeInv
  <2>2. \E status \in Statuses : Record(w, status)
    BY <1>2, SMT DEF Throw, Statuses
  <2>. QED
    BY <1>1, <1>2, <2>1, <2>2, SMT DEF Throw
<1>3. CASE Settle(w)
  <2>1. Record(w, "done") /\ execs[w].pc # "idle" /\ "done" \in Statuses
    BY <1>3, SMT DEF Settle, Statuses
  <2>. QED
    BY <1>1, <1>3, <2>1, Zenon DEF Settle, TypeInv, TypeOK
<1>4. CASE CrashWorker(w)
  <2>1. faults' \in 0..MaxFaults
    BY <1>4, FaultType DEF CrashWorker, TypeInv
  <2>2. /\ execs' \in [Worker -> Exec]
        /\ execs'[w].pc = "idle" /\ execs'[w].job = Nothing
        /\ \A v \in Worker \ {w} : execs'[v] = execs[v]
    BY <1>4, IdleFacts DEF CrashWorker, TypeInv
  <2>3. Jobs'
    BY <2>2, JobsIdle
  <2>. QED
    BY <1>4, <2>1, <2>2, <2>3, Zenon DEF CrashWorker, TypeInv, TypeOK
<1>5. ASSUME NEW pc \in ExportPcs \cup ErasePcs, NEW todo \in SUBSET Doc,
             Goto(w, pc, todo), execs[w].pc # "idle",
             pc # "store", pc # "settle" => execs[w].job = Account,
             gone' \in BOOLEAN, blocked' = blocked,
             rows' \in [Job -> RowOf], \A i \in Job : rows'[i].attempts <= Tries(i),
             docs' \in [Doc -> {"none", "row", "version"}],
             objects' \subseteq Export \cup Doc, uploads' = uploads,
             overlap' \subseteq Export \cup Doc, expiring' = expiring,
             faults' \in 0..MaxFaults
      PROVE  TypeInv'
  <2>1. Jobs' /\ execs' \in [Worker -> Exec]
    BY <1>5, JobsGoto
  <2>. QED
    BY <1>5, <2>1, Zenon DEF TypeInv, TypeOK
<1>6. /\ gone \in BOOLEAN /\ rows \in [Job -> RowOf]
      /\ \A i \in Job : rows[i].attempts <= Tries(i)
      /\ docs \in [Doc -> {"none", "row", "version"}]
      /\ objects \subseteq Export \cup Doc /\ overlap \subseteq Export \cup Doc
      /\ faults \in 0..MaxFaults
  BY Zenon DEF TypeInv, TypeOK
<1>7. execs[w].todo \subseteq Doc /\ execs[w].job \in Job \cup {Nothing}
  BY SMT DEF TypeInv, TypeOK, Exec
<1>8. execs[w].pc \in ErasePcs \ {"settle"} => execs[w].job = Account
  BY Zenon DEF TypeInv, Jobs
<1>9. CASE StoreArtifact(w)
  <2>1. objects' \subseteq Export \cup Doc
    BY <1>6, <1>9, SMT DEF StoreArtifact, TypeInv, Jobs
  <2>2. "settle" \in ExportPcs \cup ErasePcs /\ {} \in SUBSET Doc
    BY SMT DEF ExportPcs
  <2>3. execs[w].pc # "idle" /\ "settle" # "store"
    BY <1>9, SMT DEF StoreArtifact
  <2>. QED
    BY <1>5, <1>6, <1>9, <2>1, <2>2, <2>3, SMT DEF StoreArtifact
<1>10. CASE CheckBlockers(w)
  <2>1. execs[w].pc # "idle" /\ execs[w].job = Account
    BY <1>8, <1>10, SMT DEF CheckBlockers, ErasePcs
  <2>2. CASE blocked
    <3>1. Record(w, "failed") /\ "failed" \in Statuses
      BY <1>10, <2>2, SMT DEF CheckBlockers, Refuse, Statuses
    <3>. QED
      BY <1>1, <1>6, <1>10, <2>1, <2>2, <3>1, Zenon DEF CheckBlockers, Refuse
  <2>3. CASE ~blocked
    <3>1. Goto(w, "purge", {d \in PersonalDoc : docs[d] # "none"})
      BY <1>10, <2>3, Zenon DEF CheckBlockers
    <3>2. {d \in PersonalDoc : docs[d] # "none"} \in SUBSET Doc
      BY SMT DEF PersonalDoc
    <3>3. overlap' \subseteq Export \cup Doc
      BY <1>6, <1>10, <2>3, SMT DEF CheckBlockers, UnderWay
    <3>4. "purge" \in ExportPcs \cup ErasePcs
      BY SMT DEF ErasePcs
    <3>. QED
      BY <1>5, <1>6, <1>10, <2>1, <2>3, <3>1, <3>2, <3>3, <3>4, SMT DEF CheckBlockers
  <2>. QED
    BY <2>2, <2>3
<1>11. CASE LeaveOrgs(w)
  <2>1. execs[w].pc # "idle" /\ execs[w].job = Account
    BY <1>8, <1>11, SMT DEF LeaveOrgs, ErasePcs
  <2>2. CASE blocked
    <3>1. Record(w, "failed") /\ "failed" \in Statuses
      BY <1>11, <2>2, SMT DEF LeaveOrgs, Refuse, Statuses
    <3>. QED
      BY <1>1, <1>6, <1>11, <2>1, <2>2, <3>1, Zenon DEF LeaveOrgs, Refuse
  <2>3. CASE ~blocked
    <3>1. Goto(w, "artifacts", {}) /\ "artifacts" \in ExportPcs \cup ErasePcs
      BY <1>11, <2>3, SMT DEF LeaveOrgs, ErasePcs
    <3>. QED
      BY <1>5, <1>6, <1>11, <2>1, <2>3, <3>1, SMT DEF LeaveOrgs
  <2>. QED
    BY <2>2, <2>3
<1>12. CASE PurgeArtifacts(w) \/ DeleteDocuments(w) \/ ListStorage(w) \/ SkipSweep(w)
              \/ FindOrphans(w) \/ SweepStorage(w) \/ DeleteArtifacts(w) \/ DeleteUser(w)
  <2>1. /\ execs[w].pc # "idle" /\ execs[w].job = Account
        /\ \E pc \in (ExportPcs \cup ErasePcs) \ {"store"}, todo \in SUBSET Doc :
             Goto(w, pc, todo)
    <3>1. execs[w].pc \in ErasePcs \ {"settle"} /\ execs[w].pc # "idle"
      BY <1>12, SMT DEF PurgeArtifacts, DeleteDocuments, ListStorage, SkipSweep,
         FindOrphans, SweepStorage, DeleteArtifacts, DeleteUser, ErasePcs
    <3>2. /\ {"documents", "list", "orphans", "sweep", "orgs", "rows", "settle"}
               \subseteq (ExportPcs \cup ErasePcs) \ {"store"}
          /\ {} \in SUBSET Doc /\ objects \cap Doc \in SUBSET Doc
          /\ {d \in execs[w].todo : Orphan(d)} \in SUBSET Doc
      BY <1>7, SMT DEF ErasePcs, ExportPcs
    <3>3. \/ Goto(w, "documents", execs[w].todo) \/ Goto(w, "list", {})
          \/ Goto(w, "orphans", objects \cap Doc) \/ Goto(w, "orgs", {})
          \/ Goto(w, "sweep", {d \in execs[w].todo : Orphan(d)})
          \/ Goto(w, "rows", {}) \/ Goto(w, "settle", {})
      BY <1>12, Zenon DEF PurgeArtifacts, DeleteDocuments, ListStorage, SkipSweep,
         FindOrphans, SweepStorage, DeleteArtifacts, DeleteUser
    <3>. QED
      BY <1>7, <1>8, <3>1, <3>2, <3>3, SMT
  <2>2. /\ gone' \in BOOLEAN /\ blocked' = blocked /\ rows' = rows /\ uploads' = uploads
        /\ expiring' = expiring
    BY <1>6, <1>12, Zenon DEF PurgeArtifacts, DeleteDocuments, ListStorage, SkipSweep,
       FindOrphans, SweepStorage, DeleteArtifacts, DeleteUser
  <2>3. objects' \subseteq Export \cup Doc /\ overlap' \subseteq Export \cup Doc
    BY <1>6, <1>12, SMT DEF PurgeArtifacts, DeleteDocuments, ListStorage, SkipSweep,
       FindOrphans, SweepStorage, DeleteArtifacts, DeleteUser
  <2>4. docs' \in [Doc -> {"none", "row", "version"}]
    BY <1>6, <1>12, SMT DEF PurgeArtifacts, DeleteDocuments, ListStorage, SkipSweep,
       FindOrphans, SweepStorage, DeleteArtifacts, DeleteUser
  <2>5. faults' \in 0..MaxFaults
    BY <1>6, <1>12, FaultType, Zenon DEF PurgeArtifacts, DeleteDocuments, ListStorage,
       SkipSweep, FindOrphans, SweepStorage, DeleteArtifacts, DeleteUser, TypeInv
  <2>. QED
    BY <1>5, <1>6, <2>1, <2>2, <2>3, <2>4, <2>5, SMT
<1>13. CASE PurgeRows(w)
  <2>1. execs[w].pc # "idle" /\ execs[w].job = Account
    BY <1>8, <1>13, SMT DEF PurgeRows, ErasePcs
  <2>2. /\ rows' \in [Job -> RowOf] /\ \A i \in Job : rows'[i].attempts <= Tries(i)
    <3>1. /\ Row("gone", 0) \in RowOf /\ Row("gone", 0).attempts = 0
      BY Constants, RowFacts, SMT DEF Statuses
    <3>. QED
      BY <1>6, <1>13, <3>1, Constants, SMT DEF PurgeRows
  <2>3. Goto(w, "auth", {}) /\ "auth" \in ExportPcs \cup ErasePcs
    BY <1>13, SMT DEF PurgeRows, ErasePcs
  <2>. QED
    BY <1>5, <1>6, <1>13, <2>1, <2>2, <2>3, SMT DEF PurgeRows
<1>. QED
  BY <1>2, <1>3, <1>4, <1>9, <1>10, <1>11, <1>12, <1>13, Zenon DEF Step

LEMMA TypeInit == Init => TypeInv
<1>. SUFFICES ASSUME Init
              PROVE  TypeInv
  OBVIOUS
<1>1. NoRow \in RowOf /\ NoRow.attempts = 0
  BY Constants, RowFacts, SMT DEF NoRow, Statuses
<1>2. rows \in [Job -> RowOf] /\ \A i \in Job : rows[i].attempts <= Tries(i)
  BY <1>1, Constants, SMT DEF Init
<1>3. execs \in [Worker -> Exec] /\ Jobs
  BY SMT DEF Init, Idle, Exec, Jobs, ErasePcs
<1>4. faults \in 0..MaxFaults
  BY Constants, SMT DEF Init
<1>5. /\ docs \in [Doc -> {"none", "row", "version"}]
      /\ uploads \in [Doc -> {"new", "copy", "version", "cleanup", "over"}]
      /\ objects \subseteq Export \cup Doc /\ overlap \subseteq Export \cup Doc
      /\ expiring \subseteq Export
  BY SMT DEF Init
<1>6. gone \in BOOLEAN /\ blocked \in BOOLEAN
  BY Zenon DEF Init
<1>. QED
  BY <1>2, <1>3, <1>4, <1>5, <1>6, Zenon DEF TypeInv, TypeOK

LEMMA TypeStep ==
  ASSUME TypeInv, [Next]_vars
  PROVE  TypeInv'
<1>1. CASE UNCHANGED vars
  BY <1>1, Zenon DEF vars, TypeInv, TypeOK, Jobs
<1>. QED
  BY <1>1, TypeRequests, TypeRetention, TypeUploads, TypeQueue, TypeWorker, Zenon DEF Next

(* Every state is of the right types; no row is claimed more often than    *)
(* its attempts allow.                                                     *)
THEOREM TypeCorrect == Spec => []TypeOK
<1>1. Init => TypeInv
  BY TypeInit
<1>2. TypeInv /\ [Next]_vars => TypeInv'
  BY TypeStep
<1>. QED
  BY <1>1, <1>2, PTL DEF Spec, TypeInv

-----------------------------------------------------------------------------
(* What the steps keep.                                                    *)

(* Who is under way, and who erases.                                       *)
LEMMA UnderWayFacts ==
  /\ \A e \in Export : e \in UnderWay <=> \E w \in Worker : execs[w].job = e
  /\ \A d \in Doc : d \in UnderWay <=> uploads[d] \in {"copy", "version", "cleanup"}
  /\ \A e \in Export : e \in UnderWay' <=> \E w \in Worker : execs'[w].job = e
  /\ \A d \in Doc : d \in UnderWay' <=> uploads'[d] \in {"copy", "version", "cleanup"}
  /\ UnderWay' \subseteq Export \cup Doc
BY Constants, SMT DEF UnderWay

LEMMA ErasingFacts ==
  ASSUME TypeInv, Meeting, NEW w \in Worker,
         execs[w].pc \in ErasePcs \ {"check", "settle"}
  PROVE  /\ execs[w].job = Account /\ Erasing /\ UnderWay \subseteq overlap
         /\ execs[w].pc \in Purged => EraserAt(Purged)
         /\ execs[w].pc = "auth" => EraserAt({"auth"})
<1>1. execs[w].job = Account
  BY Zenon DEF TypeInv, Jobs
<1>2. Erasing
  BY <1>1, SMT DEF Erasing, EraserAt
<1>. QED
  BY <1>1, <1>2, SMT DEF Meeting, EraserAt

(* Purges and later steps are part of an erasure that has begun.           *)
LEMMA EraserFacts ==
  ASSUME TypeInv, Meeting
  PROVE  /\ EraserAt(Purged) => Erasing /\ UnderWay \subseteq overlap
         /\ EraserAt({"auth"}) => EraserAt(Purged)
<1>1. Purged \subseteq ErasePcs \ {"check"} /\ "auth" \in Purged
  BY SMT DEF Purged, ErasePcs
<1>. QED
  BY <1>1, SMT DEF Meeting, EraserAt, Erasing

(* Steps that touch only rows, artifacts and the history.                  *)
RowsMove ==
  /\ docs' = docs /\ uploads' = uploads /\ execs' = execs /\ gone' = gone
  /\ overlap \subseteq overlap' /\ objects' \subseteq objects
  /\ objects \cap Doc \subseteq objects'
  /\ \A e \in Export \ overlap' :
       /\ rows'[e].status = "gone" =>
            rows[e].status = "gone" \/ (e \notin UnderWay /\ e \notin objects')
       /\ (gone \/ EraserAt({"auth"})) /\ rows[e].status \in {"none", "gone"} =>
            rows'[e].status \in {"none", "gone"}

LEMMA RowsKeep ==
  ASSUME ErasureInv, RowsMove
  PROVE  Outcome'
<1>1. /\ UnderWay' = UnderWay /\ Erasing' = Erasing
      /\ EraserAt({"auth"})' = EraserAt({"auth"}) /\ EraserAt(Purged)' = EraserAt(Purged)
  BY Zenon DEF RowsMove, UnderWay, Erasing, EraserAt
<1>2. OrgDoc \subseteq Doc
  BY ConstAssumption
<1>3. Meeting' /\ Uploading'
  BY <1>1, SMT DEF RowsMove, ErasureInv, Outcome, Meeting, Uploading
<1>4. Kept'
  BY <1>2, SMT DEF RowsMove, ErasureInv, Outcome, Kept
<1>5. Artifacts'
  BY <1>1, SMT DEF RowsMove, ErasureInv, Outcome, Artifacts
<1>6. Unrequested'
  BY <1>1, SMT DEF RowsMove, ErasureInv, Outcome, Unrequested
<1>7. Forgotten'
  BY <1>1, SMT DEF RowsMove, ErasureInv, Outcome, Forgotten, Erased
<1>. QED
  BY <1>3, <1>4, <1>5, <1>6, <1>7 DEF Outcome

LEMMA KeepRequests ==
  ASSUME ErasureInv,
         RequestErasure \/ OrgChanges \/
         \E e \in Export : RequestExport(e) \/ ForgetFailed(e)
  PROVE  Outcome'
<1>1. TypeOK
  BY DEF ErasureInv, TypeInv
<1>2. ASSUME NEW e \in Export, RequestExport(e)
      PROVE  Outcome'
  <2>1. rows' = [rows EXCEPT ![e] = Row("pending", 0)] /\ e \in Job
    BY <1>2, Constants, Zenon DEF RequestExport, Pending
  <2>2. rows'[e].status = "pending" /\ \A i \in Job \ {e} : rows'[i] = rows[i]
    BY <1>1, <2>1, NewRowFacts DEF Statuses
  <2>3. /\ docs' = docs /\ uploads' = uploads /\ execs' = execs /\ gone' = gone
        /\ objects' = objects /\ ~gone
        /\ overlap' = IF EraserAt({"auth"}) THEN overlap \cup {e} ELSE overlap
    BY <1>2, Zenon DEF RequestExport
  <2>4. RowsMove
    BY <2>2, <2>3, Constants, SMT DEF RowsMove
  <2>. QED
    BY <2>4, RowsKeep
<1>3. CASE RequestErasure
  <2>1. rows' = [rows EXCEPT ![Account] = Row("pending", 0)] /\ Account \in Job
    BY <1>3, Constants, Zenon DEF RequestErasure, Pending
  <2>2. \A i \in Job \ {Account} : rows'[i] = rows[i]
    BY <1>1, <2>1, NewRowFacts DEF Statuses
  <2>3. \A e \in Export : rows'[e] = rows[e]
    BY <2>2, Constants
  <2>4. /\ docs' = docs /\ uploads' = uploads /\ execs' = execs /\ gone' = gone
        /\ objects' = objects /\ overlap' = overlap
    BY <1>3, Zenon DEF RequestErasure
  <2>5. RowsMove
    BY <2>3, <2>4, SMT DEF RowsMove
  <2>. QED
    BY <2>5, RowsKeep
<1>4. CASE OrgChanges
  <2>1. /\ docs' = docs /\ uploads' = uploads /\ execs' = execs /\ gone' = gone
        /\ objects' = objects /\ overlap' = overlap /\ rows' = rows
    BY <1>4, Zenon DEF OrgChanges
  <2>2. RowsMove
    BY <2>1, SMT DEF RowsMove
  <2>. QED
    BY <2>2, RowsKeep
<1>5. ASSUME NEW e \in Export, ForgetFailed(e)
      PROVE  Outcome'
  <2>1. rows' = Put(e, "forgotten") /\ e \in Job /\ rows[e].status = "failed"
    BY <1>5, Constants, Zenon DEF ForgetFailed
  <2>2. rows'[e].status = "forgotten" /\ \A i \in Job \ {e} : rows'[i] = rows[i]
    BY <1>1, <2>1, PutFacts DEF Statuses
  <2>3. /\ docs' = docs /\ uploads' = uploads /\ execs' = execs /\ gone' = gone
        /\ overlap' = overlap /\ objects' = objects
    BY <1>5, Zenon DEF ForgetFailed
  <2>4. RowsMove
    BY <2>1, <2>2, <2>3, Constants, SMT DEF RowsMove
  <2>. QED
    BY <2>4, RowsKeep
<1>. QED
  BY <1>2, <1>3, <1>4, <1>5

LEMMA KeepRetention ==
  ASSUME ErasureInv, NEW e \in Export,
         ExpireArtifact(e) \/ ExpireRow(e) \/ CrashSweep(e)
  PROVE  Outcome'
<1>1. TypeOK /\ Expiring /\ e \in Job /\ e \notin Doc
  BY Constants DEF ErasureInv, TypeInv
<1>2. /\ docs' = docs /\ uploads' = uploads /\ execs' = execs /\ gone' = gone
      /\ overlap' = overlap
  BY Zenon DEF ExpireArtifact, ExpireRow, CrashSweep
<1>3. objects' = objects \/ objects' = objects \ {e}
  BY Zenon DEF ExpireArtifact, ExpireRow, CrashSweep
<1>4. CASE ExpireArtifact(e) \/ CrashSweep(e)
  <2>1. rows' = rows
    BY <1>4, Zenon DEF ExpireArtifact, CrashSweep
  <2>2. RowsMove
    BY <1>1, <1>2, <1>3, <2>1, SMT DEF RowsMove
  <2>. QED
    BY <2>2, RowsKeep
<1>5. CASE ExpireRow(e)
  <2>1. rows' = Put(e, "gone") /\ e \in expiring /\ objects' = objects
    BY <1>5, Zenon DEF ExpireRow
  <2>2. rows'[e].status = "gone" /\ \A i \in Job \ {e} : rows'[i] = rows[i]
    BY <1>1, <2>1, PutFacts DEF Statuses
  <2>3. e \notin objects /\ e \notin UnderWay
    BY <1>1, <2>1, UnderWayFacts, SMT DEF Expiring
  <2>4. RowsMove
    BY <1>2, <2>1, <2>2, <2>3, Constants, SMT DEF RowsMove
  <2>. QED
    BY <2>4, RowsKeep
<1>. QED
  BY <1>4, <1>5

LEMMA KeepUploads ==
  ASSUME ErasureInv, NEW d \in Doc,
         StartUpload(d) \/ CopyBytes(d) \/ CreateVersion(d) \/ CleanUpload(d)
           \/ CrashUpload(d)
  PROVE  Outcome'
<1>1. /\ TypeInv /\ Meeting /\ Uploading /\ Kept /\ Artifacts /\ Unrequested /\ Forgotten
  BY DEF ErasureInv, Outcome
<1>2. /\ docs \in [Doc -> {"none", "row", "version"}]
      /\ uploads \in [Doc -> {"new", "copy", "version", "cleanup", "over"}]
  BY <1>1, Zenon DEF TypeInv, TypeOK
<1>3. /\ \A x \in Export : x \notin Doc
      /\ OrgDoc \subseteq Doc /\ PersonalDoc \subseteq Doc
  BY Constants, ConstAssumption, SMT DEF PersonalDoc
<1>4. rows' = rows /\ execs' = execs /\ gone' = gone
  BY Zenon DEF StartUpload, CopyBytes, CreateVersion, CleanUpload, CrashUpload
<1>5. overlap \subseteq overlap'
  BY SMT DEF StartUpload, CopyBytes, CreateVersion, CleanUpload, CrashUpload, Meets
<1>6. /\ Erasing' = Erasing
      /\ EraserAt({"auth"})' = EraserAt({"auth"}) /\ EraserAt(Purged)' = EraserAt(Purged)
  BY <1>4, Zenon DEF Erasing, EraserAt
<1>7. \A c \in Doc \ {d} : uploads'[c] = uploads[c] /\ docs'[c] = docs[c]
  BY <1>2, SMT DEF StartUpload, CopyBytes, CreateVersion, CleanUpload, CrashUpload
<1>8. /\ \A c \in Doc \ {d} : c \in UnderWay' <=> c \in UnderWay
      /\ \A e \in Export : e \in UnderWay' <=> e \in UnderWay
      /\ d \in UnderWay => uploads[d] \in {"copy", "version", "cleanup"}
      /\ uploads[d] \in {"copy", "version", "cleanup"} => d \in UnderWay
      /\ d \in UnderWay' => uploads'[d] \in {"copy", "version", "cleanup"}
  BY <1>4, <1>7, UnderWayFacts, SMT
<1>9. objects' \ {d} = objects \ {d}
  BY SMT DEF StartUpload, CopyBytes, CreateVersion, CleanUpload, CrashUpload
<1>10. d \in UnderWay' /\ Erasing => d \in overlap'
  <2>1. CASE StartUpload(d)
    BY <2>1, SMT DEF StartUpload, Meets
  <2>2. CASE CopyBytes(d) \/ CreateVersion(d) \/ CleanUpload(d) \/ CrashUpload(d)
    <3>1. uploads[d] \in {"copy", "version", "cleanup"}
      BY <2>2, SMT DEF CopyBytes, CreateVersion, CleanUpload, CrashUpload
    <3>. QED
      BY <1>1, <1>5, <1>8, <3>1, SMT DEF Meeting
  <2>. QED
    BY <2>1, <2>2
<1>11. Meeting'
  BY <1>1, <1>5, <1>6, <1>8, <1>10, UnderWayFacts, SMT DEF Meeting
<1>12. Uploading'
  BY <1>1, <1>2, <1>7, SMT DEF Uploading, StartUpload, CopyBytes, CreateVersion,
     CleanUpload, CrashUpload
<1>13. Artifacts'
  BY <1>1, <1>3, <1>4, <1>5, <1>6, <1>8, <1>9, SMT DEF Artifacts
<1>14. Unrequested'
  BY <1>1, <1>3, <1>4, <1>5, <1>6, <1>8, <1>9, SMT DEF Unrequested
(* An erasure that is after the bytes of d has met it.                     *)
<1>15. \A w \in Worker : execs[w].pc \in ErasePcs \ {"check", "settle"} =>
         Erasing /\ UnderWay \subseteq overlap
  BY <1>1, ErasingFacts
<1>16. Kept'
  <2>1. ASSUME NEW c \in OrgDoc \ overlap', c # d
        PROVE  /\ uploads'[c] = "version" => c \in objects'
               /\ docs'[c] = "version" => c \in objects'
               /\ \A w \in Worker : execs'[w].pc = "sweep" /\ c \in execs'[w].todo =>
                    docs'[c] # "version"
    BY <1>1, <1>3, <1>4, <1>5, <1>7, <1>9, <2>1, SMT DEF Kept
  <2>2. ASSUME d \in OrgDoc \ overlap'
        PROVE  /\ uploads'[d] = "version" => d \in objects'
               /\ docs'[d] = "version" => d \in objects'
    <3>1. /\ uploads[d] = "version" => d \in objects
          /\ docs[d] = "version" => d \in objects
          /\ uploads[d] = "cleanup" => docs[d] # "version"
      BY <1>1, <1>3, <1>5, <2>2, SMT DEF Kept, Uploading
    <3>. QED
      BY <1>2, <3>1, SMT DEF StartUpload, CopyBytes, CreateVersion, CleanUpload,
         CrashUpload
  <2>3. ASSUME d \in OrgDoc \ overlap', NEW w \in Worker, execs'[w].pc = "sweep",
               d \in execs'[w].todo
        PROVE  docs'[d] # "version"
    <3>1. docs[d] # "version"
      BY <1>1, <1>4, <1>5, <2>3, SMT DEF Kept
    <3>2. d \notin UnderWay
      BY <1>4, <1>5, <1>15, <2>3, SMT DEF ErasePcs
    <3>. QED
      BY <1>2, <1>8, <3>1, <3>2, SMT DEF StartUpload, CopyBytes, CreateVersion, CleanUpload,
         CrashUpload
  <2>. QED
    BY <2>1, <2>2, <2>3, Zenon DEF Kept
<1>17. Forgotten'
  <2>1. ASSUME NEW c \in PersonalDoc \ overlap', c # d
        PROVE  /\ gone' => docs'[c] = "none" /\ c \notin objects' /\ c \notin UnderWay'
               /\ \A w \in Worker : Erased(c, execs[w])'
    BY <1>1, <1>3, <1>4, <1>5, <1>7, <1>8, <1>9, <2>1, SMT DEF Forgotten, Erased
  <2>2. ASSUME d \in PersonalDoc \ overlap', gone'
        PROVE  docs'[d] = "none" /\ d \notin objects' /\ d \notin UnderWay'
    <3>1. /\ docs[d] = "none" /\ d \notin objects /\ d \notin UnderWay
      BY <1>1, <1>4, <1>5, <2>2, SMT DEF Forgotten
    <3>2. FALSE
      BY <1>4, <1>8, <2>2, <3>1, SMT DEF StartUpload, CopyBytes, CreateVersion,
         CleanUpload, CrashUpload
    <3>. QED
      BY <3>2
  <2>3. ASSUME d \in PersonalDoc \ overlap', NEW w \in Worker
        PROVE  Erased(d, execs[w])'
    <3>1. CASE execs[w].pc \in ErasePcs \ {"check", "settle"}
      <4>1. Erasing /\ d \notin UnderWay /\ d \notin UnderWay'
        BY <1>5, <1>10, <1>15, <2>3, <3>1, SMT
      <4>2. FALSE
        BY <1>8, <2>3, <4>1, SMT DEF StartUpload, CopyBytes, CreateVersion,
           CleanUpload, CrashUpload, Meets
      <4>. QED
        BY <4>2
    <3>2. CASE execs[w].pc \notin ErasePcs \ {"check", "settle"}
      BY <1>4, <3>2, SMT DEF Erased, ErasePcs
    <3>. QED
      BY <3>1, <3>2
  <2>. QED
    BY <2>1, <2>2, <2>3, Zenon DEF Forgotten
<1>. QED
  BY <1>11, <1>12, <1>13, <1>14, <1>16, <1>17 DEF Outcome

LEMMA KeepRowAges ==
  ASSUME ErasureInv, NEW j \in Job, Abandon(j) \/ ClaimAges(j)
  PROVE  Outcome'
<1>1. TypeOK /\ rows \in [Job -> RowOf]
  BY DEF ErasureInv, TypeInv, TypeOK
<1>2. CASE Abandon(j)
  <2>1. rows' = Put(j, "failed") /\ rows[j].status = "running"
    BY <1>2, Zenon DEF Abandon
  <2>2. rows'[j].status = "failed" /\ \A i \in Job \ {j} : rows'[i] = rows[i]
    BY <1>1, <2>1, PutFacts DEF Statuses
  <2>3. /\ docs' = docs /\ uploads' = uploads /\ execs' = execs /\ gone' = gone
        /\ overlap' = overlap /\ objects' = objects
    BY <1>2, Zenon DEF Abandon
  <2>4. RowsMove
    BY <2>1, <2>2, <2>3, Constants, SMT DEF RowsMove
  <2>. QED
    BY <2>4, RowsKeep
<1>3. CASE ClaimAges(j)
  <2>1. \A i \in Job : rows'[i].status = rows[i].status
    BY <1>1, <1>3, SMT DEF ClaimAges, RowOf
  <2>2. /\ docs' = docs /\ uploads' = uploads /\ execs' = execs /\ gone' = gone
        /\ overlap' = overlap /\ objects' = objects
    BY <1>3, Zenon DEF ClaimAges
  <2>3. RowsMove
    BY <2>1, <2>2, Constants, SMT DEF RowsMove
  <2>. QED
    BY <2>3, RowsKeep
<1>. QED
  BY <1>2, <1>3

(* What a claim does.                                                      *)
LEMMA ClaimFacts ==
  ASSUME TypeInv, NEW w \in Worker, NEW j \in Job, Claim(w, j)
  PROVE  /\ rows'[j].status = "running" /\ \A i \in Job \ {j} : rows'[i] = rows[i]
         /\ rows[j].status \in {"pending", "running"}
         /\ execs[w].pc = "idle" /\ execs'[w].job = j
         /\ execs'[w].pc \in {"check", "store"}
         /\ \A v \in Worker \ {w} : execs'[v] = execs[v]
<1>. DEFINE r == [status |-> "running", attempts |-> rows[j].attempts + 1,
                  holder |-> w, age |-> "fresh"]
            x == [pc |-> IF j = Account THEN "check" ELSE "store", job |-> j,
                  todo |-> {}]
<1>1. /\ rows' = [rows EXCEPT ![j] = r] /\ execs' = [execs EXCEPT ![w] = x]
      /\ execs[w].pc = "idle"
  BY Zenon DEF Claim
<1>2. rows \in [Job -> RowOf] /\ execs \in [Worker -> Exec]
  BY Zenon DEF TypeInv, TypeOK
<1>3. r.status = "running" /\ x.job = j /\ x.pc \in {"check", "store"}
  BY SMT
<1>4. rows[j].status \in {"pending", "running"}
  BY SMT DEF Claim, Claimable
<1>. HIDE DEF r, x
<1>. QED
  BY <1>1, <1>2, <1>3, <1>4, SMT

LEMMA KeepClaim ==
  ASSUME ErasureInv, NEW w \in Worker, NEW j \in Job, Claim(w, j)
  PROVE  Outcome'
<1>1. /\ TypeInv /\ Meeting /\ Uploading /\ Kept /\ Artifacts /\ Unrequested /\ Forgotten
  BY DEF ErasureInv, Outcome
<1>2. /\ rows'[j].status = "running" /\ \A i \in Job \ {j} : rows'[i] = rows[i]
      /\ rows[j].status \in {"pending", "running"}
      /\ execs[w].pc = "idle" /\ execs'[w].job = j
      /\ execs'[w].pc \in {"check", "store"}
      /\ \A v \in Worker \ {w} : execs'[v] = execs[v]
  BY <1>1, ClaimFacts
<1>3. /\ docs' = docs /\ uploads' = uploads /\ objects' = objects /\ gone' = gone
  BY Zenon DEF Claim
<1>4. /\ overlap \subseteq overlap'
      /\ j \in Export /\ Erasing => j \in overlap'
  BY SMT DEF Claim, Meets
<1>5. /\ Erasing' => Erasing
      /\ EraserAt({"auth"})' => EraserAt({"auth"})
      /\ EraserAt(Purged)' => EraserAt(Purged)
  BY <1>2, SMT DEF Erasing, EraserAt, Purged, ErasePcs
<1>6. /\ \A e \in Export \ {j} : e \in UnderWay' => e \in UnderWay
      /\ \A d \in Doc : d \in UnderWay' => d \in UnderWay
  BY <1>2, <1>3, UnderWayFacts, SMT
<1>7. \A x \in Export : x \in Job
  BY Constants
<1>8. Meeting'
  BY <1>1, <1>4, <1>5, <1>6, UnderWayFacts, SMT DEF Meeting
<1>9. Uploading'
  BY <1>1, <1>3, Zenon DEF Uploading
<1>10. Kept'
  BY <1>1, <1>2, <1>3, <1>4, SMT DEF Kept
<1>11. Artifacts'
  BY <1>1, <1>2, <1>3, <1>4, <1>5, <1>6, <1>7, SMT DEF Artifacts
<1>12. Unrequested'
  BY <1>1, <1>2, <1>3, <1>4, <1>5, <1>6, <1>7, SMT DEF Unrequested
<1>13. Forgotten'
  <2>1. PersonalDoc \subseteq Doc
    BY SMT DEF PersonalDoc
  <2>. QED
    BY <1>1, <1>2, <1>3, <1>4, <1>6, <2>1, SMT DEF Forgotten, Erased
<1>. QED
  BY <1>8, <1>9, <1>10, <1>11, <1>12, <1>13 DEF Outcome

(* A worker gives its job up, or is done with it.                          *)
Leaves(w) ==
  /\ execs'[w].pc = "idle" /\ execs'[w].job = Nothing
  /\ \A v \in Worker \ {w} : execs'[v] = execs[v]
  /\ \A i \in Job : rows'[i] # rows[i] =>
       i = execs[w].job /\ rows'[i].status \in {"pending", "failed", "done"}
  /\ docs' = docs /\ uploads' = uploads /\ objects' = objects /\ gone' = gone
  /\ overlap' = overlap

LEMMA LeaveKeeps ==
  ASSUME ErasureInv, NEW w \in Worker, Leaves(w)
  PROVE  Outcome'
<1>1. /\ TypeInv /\ Meeting /\ Uploading /\ Kept /\ Artifacts /\ Unrequested /\ Forgotten
  BY DEF ErasureInv, Outcome
<1>2. /\ execs'[w].pc = "idle" /\ execs'[w].job = Nothing
      /\ \A v \in Worker \ {w} : execs'[v] = execs[v]
      /\ docs' = docs /\ uploads' = uploads /\ objects' = objects /\ gone' = gone
      /\ overlap' = overlap
      /\ \A i \in Job : rows'[i] # rows[i] =>
           i = execs[w].job /\ rows'[i].status \in {"pending", "failed", "done"}
  BY DEF Leaves
<1>3. /\ Erasing' => Erasing
      /\ EraserAt({"auth"})' => EraserAt({"auth"})
      /\ EraserAt(Purged)' => EraserAt(Purged)
  BY <1>2, Constants, SMT DEF Erasing, EraserAt
<1>4. \A x \in UnderWay' : x \in UnderWay
  BY <1>2, Constants, UnderWayFacts, SMT
<1>5. \A e \in Export : rows'[e] # rows[e] => e \in UnderWay
  BY <1>2, Constants, UnderWayFacts, SMT
<1>6. \A x \in Export : x \in Job
  BY Constants
<1>7. Meeting'
  BY <1>1, <1>2, <1>3, <1>4, SMT DEF Meeting
<1>8. Uploading'
  BY <1>1, <1>2, Zenon DEF Uploading
<1>9. Kept'
  BY <1>1, <1>2, SMT DEF Kept
<1>10. Artifacts'
  BY <1>1, <1>2, <1>3, <1>4, <1>6, SMT DEF Artifacts
<1>11. Unrequested'
  <2>1. EraserAt({"auth"}) => UnderWay \subseteq overlap
    BY <1>1, EraserFacts
  <2>. QED
    BY <1>1, <1>2, <1>3, <1>4, <1>5, <2>1, SMT DEF Unrequested
<1>12. Forgotten'
  <2>1. PersonalDoc \subseteq Doc
    BY SMT DEF PersonalDoc
  <2>. QED
    BY <1>1, <1>2, <1>4, <2>1, SMT DEF Forgotten, Erased
<1>. QED
  BY <1>7, <1>8, <1>9, <1>10, <1>11, <1>12 DEF Outcome

(* A claim on an export that stores its artifact.                          *)
LEMMA KeepStore ==
  ASSUME ErasureInv, NEW w \in Worker, StoreArtifact(w)
  PROVE  Outcome'
<1>1. /\ TypeInv /\ Meeting /\ Uploading /\ Kept /\ Artifacts /\ Unrequested /\ Forgotten
  BY DEF ErasureInv, Outcome
<1>2. "settle" \in ExportPcs \cup ErasePcs /\ {} \in SUBSET Doc
  BY SMT DEF ExportPcs
<1>3. /\ execs'[w].pc = "settle" /\ execs'[w].job = execs[w].job
      /\ \A v \in Worker \ {w} : execs'[v] = execs[v]
  BY <1>1, <1>2, GotoFacts DEF StoreArtifact, TypeInv
<1>4. execs[w].job \in Export
  BY <1>1, Zenon DEF StoreArtifact, TypeInv, Jobs
<1>5. /\ docs' = docs /\ uploads' = uploads /\ rows' = rows /\ gone' = gone
      /\ overlap' = overlap /\ objects' = objects \cup {execs[w].job}
  BY Zenon DEF StoreArtifact
<1>6. execs[w].job # Account /\ \A d \in Doc : d # execs[w].job
  BY <1>4, Constants, SMT
<1>7. /\ Erasing' => Erasing
      /\ EraserAt({"auth"})' => EraserAt({"auth"})
      /\ EraserAt(Purged)' => EraserAt(Purged)
  BY <1>3, <1>6, SMT DEF Erasing, EraserAt
<1>8. (\A x \in UnderWay' : x \in UnderWay) /\ execs[w].job \in UnderWay
  BY <1>3, <1>4, <1>5, UnderWayFacts, SMT
<1>9. EraserAt(Purged) => UnderWay \subseteq overlap
  BY <1>1, EraserFacts
<1>10. Meeting'
  BY <1>1, <1>5, <1>7, <1>8, SMT DEF Meeting
<1>11. Uploading'
  BY <1>1, <1>5, Zenon DEF Uploading
<1>12. Kept'
  BY <1>1, <1>3, <1>5, SMT DEF Kept
<1>13. Artifacts'
  BY <1>1, <1>5, <1>7, <1>8, <1>9, SMT DEF Artifacts
<1>14. Unrequested'
  BY <1>1, <1>5, <1>7, <1>8, SMT DEF Unrequested
<1>15. Forgotten'
  <2>1. PersonalDoc \subseteq Doc
    BY SMT DEF PersonalDoc
  <2>. QED
    BY <1>1, <1>3, <1>5, <1>6, <1>8, <2>1, SMT DEF Forgotten, Erased
<1>. QED
  BY <1>10, <1>11, <1>12, <1>13, <1>14, <1>15 DEF Outcome

(* One part of an erasure, which goes on to pc with todo.                  *)
Part(w, pc, todo) ==
  /\ Goto(w, pc, todo) /\ uploads' = uploads
  /\ gone' => gone \/ execs[w].pc = "auth"
  /\ overlap \subseteq overlap' /\ UnderWay \subseteq overlap'
  /\ objects' \subseteq objects
  /\ \A d \in Doc : docs'[d] = docs[d] \/ docs'[d] = "none"
  /\ \A d \in OrgDoc \ overlap' : docs[d] = "version" =>
       /\ d \in objects => d \in objects'
       /\ ~(pc = "sweep" /\ d \in todo)
  /\ pc \in Purged => execs[w].pc \in Purged \/ objects' \cap Export = {}
  /\ \A e \in Export :
       \/ rows'[e] = rows[e]
       \/ execs[w].pc = "rows" /\ rows'[e].status = "gone"
  /\ pc = "auth" => \A e \in Export : rows'[e].status \in {"none", "gone"}
  /\ \A d \in PersonalDoc \ overlap' : Erased(d, execs[w])'

LEMMA PartKeeps ==
  ASSUME ErasureInv, NEW w \in Worker, execs[w].pc \in ErasePcs \ {"settle"},
         NEW pc \in ErasePcs \ {"check"}, NEW todo \in SUBSET Doc, Part(w, pc, todo)
  PROVE  Outcome'
<1>1. /\ TypeInv /\ Meeting /\ Uploading /\ Kept /\ Artifacts /\ Unrequested /\ Forgotten
  BY DEF ErasureInv, Outcome
<1>2. /\ execs'[w].pc = pc /\ execs'[w].job = Account /\ execs[w].job = Account
      /\ execs'[w].todo = todo
      /\ \A v \in Worker \ {w} : execs'[v] = execs[v]
  <2>1. Goto(w, pc, todo) /\ pc \in ExportPcs \cup ErasePcs
    BY Zenon DEF Part
  <2>2. execs[w].job = Account
    BY <1>1, Zenon DEF TypeInv, Jobs
  <2>. QED
    BY <1>1, <2>1, <2>2, GotoFacts DEF TypeInv
<1>3. /\ uploads' = uploads /\ overlap \subseteq overlap' /\ UnderWay \subseteq overlap'
      /\ objects' \subseteq objects
      /\ \A d \in Doc : docs'[d] = docs[d] \/ docs'[d] = "none"
      /\ \A e \in Export :
           \/ rows'[e] = rows[e]
           \/ execs[w].pc = "rows" /\ rows'[e].status = "gone"
      /\ gone' => gone \/ execs[w].pc = "auth"
  BY DEF Part
<1>4. \A x \in UnderWay' : x \in UnderWay
  BY <1>2, <1>3, UnderWayFacts, SMT
<1>5. EraserAt(Purged)' => EraserAt(Purged) \/ objects' \cap Export = {}
  BY <1>2, SMT DEF EraserAt, Part
<1>6. EraserAt({"auth"})' => EraserAt({"auth"}) \/ pc = "auth"
  BY <1>2, SMT DEF EraserAt
<1>7. /\ execs[w].pc \in {"rows", "auth"} => EraserAt(Purged)
      /\ execs[w].pc = "auth" => EraserAt({"auth"})
  BY <1>2, SMT DEF EraserAt, Purged, ErasePcs
<1>8. Meeting'
  BY <1>3, <1>4, SMT DEF Meeting
<1>9. Uploading'
  BY <1>1, <1>3, SMT DEF Uploading
<1>10. Kept'
  <2>1. OrgDoc \subseteq Doc
    BY ConstAssumption
  <2>2. \A d \in OrgDoc \ overlap' : docs[d] = "version" =>
          /\ d \in objects => d \in objects'
          /\ ~(pc = "sweep" /\ d \in todo)
    BY DEF Part
  <2>3. ASSUME NEW d \in OrgDoc \ overlap'
        PROVE  uploads'[d] # "version" /\ (docs'[d] = "version" => d \in objects')
    BY <1>1, <1>3, <2>1, <2>2, UnderWayFacts, SMT DEF Kept
  <2>4. ASSUME NEW d \in OrgDoc \ overlap', NEW v \in Worker, execs'[v].pc = "sweep",
               d \in execs'[v].todo
        PROVE  docs'[d] # "version"
    BY <1>1, <1>2, <1>3, <2>1, <2>2, <2>4, SMT DEF Kept
  <2>. QED
    BY <2>3, <2>4, SMT DEF Kept
<1>11. Artifacts'
  BY <1>1, <1>3, <1>4, <1>5, <1>7, SMT DEF Artifacts
<1>12. Unrequested'
  <2>1. pc = "auth" => \A e \in Export : rows'[e].status \in {"none", "gone"}
    BY DEF Part
  <2>. QED
    BY <1>1, <1>3, <1>4, <1>6, <1>7, <2>1, SMT DEF Unrequested, Artifacts
<1>13. Forgotten'
  <2>1. PersonalDoc \subseteq Doc
    BY SMT DEF PersonalDoc
  <2>2. \A d \in PersonalDoc \ overlap' : Erased(d, execs[w])'
    BY DEF Part
  <2>3. ASSUME NEW d \in PersonalDoc \ overlap', NEW v \in Worker \ {w}
        PROVE  Erased(d, execs[v])'
    BY <1>1, <1>2, <1>3, <2>1, SMT DEF Forgotten, Erased
  <2>4. ASSUME NEW d \in PersonalDoc \ overlap', gone'
        PROVE  docs'[d] = "none" /\ d \notin objects' /\ d \notin UnderWay'
    BY <1>1, <1>3, <1>4, <2>1, <2>4, SMT DEF Forgotten, Erased
  <2>. QED
    BY <2>2, <2>3, <2>4, SMT DEF Forgotten
<1>. QED
  BY <1>8, <1>9, <1>10, <1>11, <1>12, <1>13 DEF Outcome

LEMMA KeepLeave ==
  ASSUME ErasureInv, NEW w \in Worker,
         \/ Throw(w) \/ CrashWorker(w) \/ Settle(w)
         \/ blocked /\ (CheckBlockers(w) \/ LeaveOrgs(w))
  PROVE  Outcome'
<1>1. TypeInv /\ TypeOK
  BY DEF ErasureInv, TypeInv
<1>2. /\ docs' = docs /\ uploads' = uploads /\ objects' = objects /\ gone' = gone
      /\ overlap' = overlap
  BY Zenon DEF Throw, CrashWorker, Settle, CheckBlockers, LeaveOrgs, Refuse
<1>3. CASE CrashWorker(w)
  <2>1. execs' = [execs EXCEPT ![w] = Idle] /\ rows' = rows
    BY <1>3, Zenon DEF CrashWorker
  <2>2. /\ execs'[w].pc = "idle" /\ execs'[w].job = Nothing
        /\ \A v \in Worker \ {w} : execs'[v] = execs[v]
    BY <1>1, <2>1, IdleFacts
  <2>3. Leaves(w)
    BY <1>2, <2>1, <2>2, Zenon DEF Leaves
  <2>. QED
    BY <2>3, LeaveKeeps
<1>4. CASE Throw(w) \/ Settle(w) \/ (blocked /\ (CheckBlockers(w) \/ LeaveOrgs(w)))
  <2>1. execs[w].pc # "idle"
    BY <1>4, SMT DEF Throw, Settle, CheckBlockers, LeaveOrgs
  <2>2. Record(w, "pending") \/ Record(w, "failed") \/ Record(w, "done")
    BY <1>4, Zenon DEF Throw, Settle, CheckBlockers, LeaveOrgs, Refuse
  <2>3. PICK status \in {"pending", "failed", "done"} : Record(w, status)
    BY <2>2
  <2>4. status \in Statuses
    BY SMT DEF Statuses
  <2>5. /\ \A i \in Job : rows'[i] # rows[i] =>
             i = execs[w].job /\ rows'[i].status = status
        /\ execs'[w].pc = "idle" /\ execs'[w].job = Nothing
        /\ \A v \in Worker \ {w} : execs'[v] = execs[v]
    BY <1>1, <2>1, <2>3, <2>4, RecordFacts
  <2>6. Leaves(w)
    BY <1>2, <2>5, SMT DEF Leaves
  <2>. QED
    BY <2>6, LeaveKeeps
<1>. QED
  BY <1>3, <1>4

LEMMA KeepErasure ==
  ASSUME ErasureInv, NEW w \in Worker,
         \/ ~blocked /\ (CheckBlockers(w) \/ LeaveOrgs(w))
         \/ PurgeArtifacts(w) \/ DeleteDocuments(w) \/ ListStorage(w) \/ SkipSweep(w)
         \/ FindOrphans(w) \/ SweepStorage(w) \/ DeleteArtifacts(w) \/ PurgeRows(w)
         \/ DeleteUser(w)
  PROVE  Outcome'
<1>1. TypeInv /\ TypeOK /\ Meeting /\ Kept /\ Artifacts /\ Forgotten
  BY DEF ErasureInv, TypeInv, Outcome
<1>2. execs[w].pc \in ErasePcs \ {"settle"}
  BY SMT DEF CheckBlockers, LeaveOrgs, PurgeArtifacts, DeleteDocuments, ListStorage,
     SkipSweep, FindOrphans, SweepStorage, DeleteArtifacts, PurgeRows, DeleteUser, ErasePcs
<1>3. execs[w].pc # "check" => UnderWay \subseteq overlap
  BY <1>1, <1>2, ErasingFacts
<1>4. /\ \A e \in Export : e \notin Doc
      /\ PersonalDoc \subseteq Doc /\ OrgDoc \subseteq Doc
      /\ objects \subseteq Export \cup Doc /\ execs[w].todo \subseteq Doc
  BY <1>1, Constants, ConstAssumption, SMT DEF PersonalDoc, TypeOK, Exec
<1>5. \A d \in PersonalDoc \ overlap : Erased(d, execs[w])
  BY <1>1 DEF Forgotten
<1>6. \A d \in OrgDoc \ overlap :
        /\ uploads[d] = "version" => d \in objects
        /\ execs[w].pc = "sweep" /\ d \in execs[w].todo => docs[d] # "version"
  BY <1>1, Zenon DEF Kept
<1>7. /\ {"purge", "documents", "list", "orphans", "sweep", "orgs", "artifacts", "rows",
          "auth", "settle"} = ErasePcs \ {"check"}
      /\ {"documents", "list", "orphans", "sweep", "orgs", "artifacts", "rows", "auth",
          "settle"} = Purged
      /\ {} \in SUBSET Doc
  BY SMT DEF ErasePcs, Purged
<1>8. ASSUME NEW pc \in ExportPcs \cup ErasePcs, NEW todo \in SUBSET Doc,
             Goto(w, pc, todo)
      PROVE  execs'[w].pc = pc /\ execs'[w].todo = todo
  BY <1>1, <1>8, GotoFacts
<1>9. CASE ~blocked /\ CheckBlockers(w)
  <2>. DEFINE todo == {d \in PersonalDoc : docs[d] # "none"}
  <2>1. /\ Goto(w, "purge", todo) /\ overlap' = overlap \cup UnderWay /\ gone' = gone
        /\ rows' = rows /\ docs' = docs /\ objects' = objects /\ uploads' = uploads
        /\ execs[w].pc = "check"
    BY <1>9, Zenon DEF CheckBlockers
  <2>2. todo \in SUBSET Doc /\ "purge" \in ErasePcs \ {"check"}
    BY <1>4, <1>7, SMT
  <2>3. execs'[w].pc = "purge" /\ execs'[w].todo = todo
    BY <1>8, <2>1, <2>2
  <2>4. Part(w, "purge", todo)
    BY <1>4, <1>7, <2>1, <2>3, SMT DEF Part, Erased
  <2>. HIDE DEF todo
  <2>. QED
    BY <1>2, <2>2, <2>4, PartKeeps
<1>10. CASE ~blocked /\ LeaveOrgs(w)
  <2>1. /\ Goto(w, "artifacts", {}) /\ overlap' = overlap /\ gone' = gone
        /\ rows' = rows /\ docs' = docs /\ objects' = objects /\ uploads' = uploads
        /\ execs[w].pc = "orgs"
    BY <1>10, Zenon DEF LeaveOrgs
  <2>2. "artifacts" \in ErasePcs \ {"check"}
    BY <1>7, SMT
  <2>3. execs'[w].pc = "artifacts" /\ execs'[w].todo = {}
    BY <1>7, <1>8, <2>1, <2>2
  <2>4. Part(w, "artifacts", {})
    BY <1>3, <1>4, <1>5, <1>7, <2>1, <2>3, SMT DEF Part, Erased
  <2>. QED
    BY <1>2, <1>7, <2>2, <2>4, PartKeeps
<1>11. CASE PurgeArtifacts(w)
  <2>1. /\ Goto(w, "documents", execs[w].todo) /\ overlap' = overlap /\ gone' = gone
        /\ rows' = rows /\ docs' = docs /\ objects' = objects \ Export
        /\ uploads' = uploads /\ execs[w].pc = "purge"
    BY <1>11, Zenon DEF PurgeArtifacts, PurgeGoesOn
  <2>2. "documents" \in ErasePcs \ {"check"} /\ execs[w].todo \in SUBSET Doc
    BY <1>4, <1>7, SMT
  <2>3. execs'[w].pc = "documents" /\ execs'[w].todo = execs[w].todo
    BY <1>8, <2>1, <2>2
  <2>4. Part(w, "documents", execs[w].todo)
    BY <1>3, <1>4, <1>5, <1>7, <2>1, <2>3, SMT DEF Part, Erased
  <2>. QED
    BY <1>2, <2>2, <2>4, PartKeeps
<1>12. CASE DeleteDocuments(w)
  <2>1. /\ Goto(w, "list", {}) /\ overlap' = overlap /\ gone' = gone
        /\ rows' = rows /\ objects' = objects /\ uploads' = uploads
        /\ docs' = [d \in Doc |-> IF d \in execs[w].todo THEN "none" ELSE docs[d]]
        /\ execs[w].pc = "documents"
    BY <1>12, Zenon DEF DeleteDocuments
  <2>2. "list" \in ErasePcs \ {"check"}
    BY <1>7, SMT
  <2>3. execs'[w].pc = "list" /\ execs'[w].todo = {}
    BY <1>7, <1>8, <2>1, <2>2
  <2>4. Part(w, "list", {})
    BY <1>3, <1>4, <1>5, <1>7, <2>1, <2>3, SMT DEF Part, Erased
  <2>. QED
    BY <1>2, <1>7, <2>2, <2>4, PartKeeps
<1>13. CASE ListStorage(w)
  <2>1. /\ Goto(w, "orphans", objects \cap Doc) /\ overlap' = overlap /\ gone' = gone
        /\ rows' = rows /\ docs' = docs /\ objects' = objects /\ uploads' = uploads
        /\ execs[w].pc = "list"
    BY <1>13, Zenon DEF ListStorage
  <2>2. "orphans" \in ErasePcs \ {"check"} /\ objects \cap Doc \in SUBSET Doc
    BY <1>7, SMT
  <2>3. execs'[w].pc = "orphans" /\ execs'[w].todo = objects \cap Doc
    BY <1>8, <2>1, <2>2
  <2>4. Part(w, "orphans", objects \cap Doc)
    BY <1>3, <1>4, <1>5, <1>7, <2>1, <2>3, SMT DEF Part, Erased
  <2>. QED
    BY <1>2, <2>2, <2>4, PartKeeps
<1>14. CASE SkipSweep(w)
  <2>1. /\ Goto(w, "orgs", {}) /\ gone' = gone
        /\ overlap' = overlap \cup {d \in Doc \cap objects : docs[d] # "version"}
        /\ rows' = rows /\ docs' = docs /\ objects' = objects /\ uploads' = uploads
        /\ execs[w].pc \in {"list", "orphans"}
    BY <1>14, Zenon DEF SkipSweep
  <2>2. "orgs" \in ErasePcs \ {"check"}
    BY <1>7, SMT
  <2>3. execs'[w].pc = "orgs" /\ execs'[w].todo = {}
    BY <1>7, <1>8, <2>1, <2>2
  <2>4. Part(w, "orgs", {})
    BY <1>3, <1>4, <1>5, <1>7, <2>1, <2>3, SMT DEF Part, Erased
  <2>. QED
    BY <1>2, <1>7, <2>2, <2>4, PartKeeps
<1>15. CASE FindOrphans(w)
  <2>. DEFINE todo == {d \in execs[w].todo : Orphan(d)}
  <2>1. /\ Goto(w, "sweep", todo) /\ overlap' = overlap /\ gone' = gone
        /\ rows' = rows /\ docs' = docs /\ objects' = objects /\ uploads' = uploads
        /\ execs[w].pc = "orphans"
    BY <1>15, Zenon DEF FindOrphans
  <2>2. "sweep" \in ErasePcs \ {"check"} /\ todo \in SUBSET Doc
    BY <1>4, <1>7, SMT
  <2>3. execs'[w].pc = "sweep" /\ execs'[w].todo = todo
    BY <1>8, <2>1, <2>2
  <2>4. Part(w, "sweep", todo)
    BY <1>3, <1>4, <1>5, <1>7, <2>1, <2>3, SMT DEF Part, Erased, Orphan
  <2>. HIDE DEF todo
  <2>. QED
    BY <1>2, <2>2, <2>4, PartKeeps
<1>16. CASE SweepStorage(w)
  <2>1. /\ Goto(w, "orgs", {}) /\ overlap' = overlap /\ gone' = gone
        /\ rows' = rows /\ docs' = docs /\ objects' = objects \ execs[w].todo
        /\ uploads' = uploads /\ execs[w].pc = "sweep"
    BY <1>16, Zenon DEF SweepStorage
  <2>2. "orgs" \in ErasePcs \ {"check"}
    BY <1>7, SMT
  <2>3. execs'[w].pc = "orgs" /\ execs'[w].todo = {}
    BY <1>7, <1>8, <2>1, <2>2
  <2>4. Part(w, "orgs", {})
    BY <1>3, <1>4, <1>5, <1>6, <1>7, <2>1, <2>3, SMT DEF Part, Erased
  <2>. QED
    BY <1>2, <1>7, <2>2, <2>4, PartKeeps
<1>17. CASE DeleteArtifacts(w)
  <2>1. /\ Goto(w, "rows", {}) /\ overlap' = overlap /\ gone' = gone
        /\ rows' = rows /\ docs' = docs
        /\ objects' = objects \ {e \in Export : rows[e].status = "done"}
        /\ uploads' = uploads /\ execs[w].pc = "artifacts"
    BY <1>17, Zenon DEF DeleteArtifacts
  <2>2. "rows" \in ErasePcs \ {"check"}
    BY <1>7, SMT
  <2>3. execs'[w].pc = "rows" /\ execs'[w].todo = {}
    BY <1>7, <1>8, <2>1, <2>2
  <2>4. Part(w, "rows", {})
    BY <1>3, <1>4, <1>5, <1>7, <2>1, <2>3, SMT DEF Part, Erased
  <2>. QED
    BY <1>2, <1>7, <2>2, <2>4, PartKeeps
<1>18. CASE PurgeRows(w)
  <2>1. /\ Goto(w, "auth", {}) /\ overlap' = overlap /\ gone' = gone
        /\ docs' = docs /\ objects' = objects /\ uploads' = uploads
        /\ rows' = [j \in Job |-> IF j \in Export /\ rows[j].status # "none"
                                  THEN Row("gone", 0) ELSE rows[j]]
        /\ execs[w].pc = "rows"
    BY <1>18, Zenon DEF PurgeRows
  <2>2. "auth" \in ErasePcs \ {"check"}
    BY <1>7, SMT
  <2>3. execs'[w].pc = "auth" /\ execs'[w].todo = {}
    BY <1>7, <1>8, <2>1, <2>2
  <2>4. Row("gone", 0).status = "gone"
    BY Constants, RowFacts, SMT DEF Statuses
  <2>5. \A e \in Export : /\ rows'[e] = rows[e] \/ rows'[e].status = "gone"
                          /\ rows'[e].status \in {"none", "gone"}
    BY <2>1, <2>4, Constants, SMT
  <2>6. Part(w, "auth", {})
    BY <1>3, <1>4, <1>5, <1>7, <2>1, <2>3, <2>5, SMT DEF Part, Erased
  <2>. QED
    BY <1>2, <1>7, <2>2, <2>6, PartKeeps
<1>19. CASE DeleteUser(w)
  <2>1. /\ Goto(w, "settle", {}) /\ overlap' = overlap
        /\ rows' = rows /\ docs' = docs /\ objects' = objects /\ uploads' = uploads
        /\ execs[w].pc = "auth"
    BY <1>19, Zenon DEF DeleteUser
  <2>2. "settle" \in ErasePcs \ {"check"}
    BY <1>7, SMT
  <2>3. execs'[w].pc = "settle" /\ execs'[w].todo = {}
    BY <1>7, <1>8, <2>1, <2>2
  <2>4. Part(w, "settle", {})
    BY <1>3, <1>4, <1>5, <1>7, <2>1, <2>3, SMT DEF Part, Erased
  <2>. QED
    BY <1>2, <1>7, <2>2, <2>4, PartKeeps
<1>. QED
  BY <1>9, <1>10, <1>11, <1>12, <1>13, <1>14, <1>15, <1>16, <1>17, <1>18, <1>19

(* A step on other rows, or an erasure of this one, leaves the sweep be.   *)
LEMMA ExpiringStays ==
  ASSUME TypeInv, Expiring, expiring' \subseteq expiring,
         \A e \in expiring : rows'[e] = rows[e] \/ rows'[e].status = "gone",
         \A e \in expiring : e \in objects' => e \in objects,
         \A e \in expiring : \A w \in Worker : execs'[w].job # e
  PROVE  Expiring'
BY SMT DEF Expiring

LEMMA ExpiringStep ==
  ASSUME TypeInv, Expiring, [Next]_vars
  PROVE  Expiring'
<1>1. /\ TypeOK /\ expiring \subseteq Export /\ Export \subseteq Job
      /\ Account \notin Export /\ Nothing \notin Export /\ \A e \in Export : e \notin Doc
  BY Constants, SMT DEF TypeInv, TypeOK
<1>2. /\ \A e \in expiring : rows[e].status \in {"done", "gone"}
      /\ \A e \in expiring : \A w \in Worker : execs[w].job # e
  BY DEF Expiring
<1>3. CASE UNCHANGED vars
  BY <1>3, Zenon DEF vars, Expiring
<1>4. ASSUME RequestErasure \/ OrgChanges
             \/ \E e \in Export : RequestExport(e) \/ ForgetFailed(e)
      PROVE  Expiring'
  <2>1. execs' = execs /\ objects' = objects /\ expiring' = expiring
    BY <1>4, Zenon DEF RequestErasure, OrgChanges, RequestExport, ForgetFailed
  <2>2. rows \in [Job -> RowOf]
    BY <1>1 DEF TypeOK
  <2>3. \A e \in expiring : rows'[e] = rows[e]
    BY <1>1, <1>2, <1>4, <2>2, SMT DEF RequestErasure, OrgChanges, RequestExport,
       ForgetFailed, Put
  <2>. QED
    BY <1>2, <2>1, <2>3, ExpiringStays
<1>5. ASSUME NEW e \in Export, ExpireArtifact(e)
      PROVE  Expiring'
  <2>1. /\ execs' = execs /\ rows' = rows /\ objects' = objects \ {e}
        /\ expiring' = expiring \cup {e} /\ rows[e].status = "done" /\ e \notin UnderWay
    BY <1>5, Zenon DEF ExpireArtifact
  <2>2. \A w \in Worker : execs[w].job # e
    BY <2>1, UnderWayFacts
  <2>. QED
    BY <2>1, <2>2, SMT DEF Expiring
<1>6. ASSUME NEW e \in Export, ExpireRow(e) \/ CrashSweep(e)
      PROVE  Expiring'
  <2>1. /\ execs' = execs /\ objects' = objects /\ expiring' = expiring \ {e}
        /\ rows' = rows \/ rows' = Put(e, "gone")
    BY <1>6, Zenon DEF ExpireRow, CrashSweep
  <2>2. \A x \in expiring : rows'[x] = rows[x] \/ rows'[x].status = "gone"
    <3>1. CASE rows' = Put(e, "gone")
      <4>1. e \in Job /\ "gone" \in Statuses
        BY <1>1, SMT DEF Statuses
      <4>2. rows'[e].status = "gone" /\ \A i \in Job \ {e} : rows'[i] = rows[i]
        BY <1>1, <3>1, <4>1, PutFacts
      <4>. QED
        BY <1>1, <4>2, SMT
    <3>. QED
      BY <2>1, <3>1
  <2>3. expiring' \subseteq expiring
    BY <2>1, SMT
  <2>. QED
    BY <1>2, <2>1, <2>2, <2>3, ExpiringStays
<1>7. ASSUME NEW d \in Doc,
             StartUpload(d) \/ CopyBytes(d) \/ CreateVersion(d) \/ CleanUpload(d)
               \/ CrashUpload(d)
      PROVE  Expiring'
  <2>1. execs' = execs /\ rows' = rows /\ expiring' = expiring
    BY <1>7, Zenon DEF StartUpload, CopyBytes, CreateVersion, CleanUpload, CrashUpload
  <2>2. \A e \in expiring : e \in objects' => e \in objects
    BY <1>1, <1>7, SMT DEF StartUpload, CopyBytes, CreateVersion, CleanUpload, CrashUpload
  <2>. QED
    BY <1>2, <2>1, <2>2, ExpiringStays
<1>8. ASSUME NEW j \in Job, Abandon(j) \/ ClaimAges(j)
      PROVE  Expiring'
  <2>1. /\ execs' = execs /\ objects' = objects /\ expiring' = expiring
        /\ rows[j].status = "running"
    BY <1>8, Zenon DEF Abandon, ClaimAges
  <2>2. rows \in [Job -> RowOf]
    BY <1>1 DEF TypeOK
  <2>3. \A e \in expiring : rows'[e] = rows[e]
    BY <1>1, <1>2, <1>8, <2>1, <2>2, SMT DEF Abandon, ClaimAges, Put
  <2>. QED
    BY <1>2, <2>1, <2>3, ExpiringStays
<1>9. ASSUME NEW w \in Worker, NEW j \in Job, Claim(w, j)
      PROVE  Expiring'
  <2>1. /\ \A i \in Job \ {j} : rows'[i] = rows[i]
        /\ rows[j].status \in {"pending", "running"} /\ execs'[w].job = j
        /\ \A v \in Worker \ {w} : execs'[v] = execs[v]
    BY <1>9, ClaimFacts
  <2>2. j \notin expiring
    BY <1>2, <2>1
  <2>3. objects' = objects /\ expiring' = expiring
    BY <1>9, Zenon DEF Claim
  <2>4. \A e \in expiring : rows'[e] = rows[e]
    BY <1>1, <2>1, <2>2
  <2>5. \A e \in expiring : \A v \in Worker : execs'[v].job # e
    BY <1>2, <2>1, <2>2
  <2>. QED
    BY <2>3, <2>4, <2>5, ExpiringStays
<1>10. ASSUME NEW w \in Worker, Step(w) \/ Throw(w) \/ CrashWorker(w)
       PROVE  Expiring'
  <2>1. expiring' = expiring
    BY <1>10, Zenon DEF Step, Throw, CrashWorker, Settle, StoreArtifact, CheckBlockers,
       PurgeArtifacts, DeleteDocuments, ListStorage, SkipSweep, FindOrphans, SweepStorage,
       LeaveOrgs, DeleteArtifacts, PurgeRows, DeleteUser
  <2>2. execs \in [Worker -> Exec] /\ rows \in [Job -> RowOf]
    BY <1>1 DEF TypeOK
  <2>3. \A v \in Worker : execs'[v].job \in {execs[v].job, Nothing}
    BY <1>10, <2>2, SMT DEF Step, Throw, CrashWorker, Settle, StoreArtifact, CheckBlockers,
       PurgeArtifacts, DeleteDocuments, ListStorage, SkipSweep, FindOrphans, SweepStorage,
       LeaveOrgs, DeleteArtifacts, PurgeRows, DeleteUser, Goto, Record, Refuse, Idle
  <2>4. \A e \in expiring : \A v \in Worker : execs'[v].job # e
    BY <1>1, <1>2, <2>3
  <2>5. objects' \subseteq objects \cup {execs[w].job}
    BY <1>10, SMT DEF Step, Throw, CrashWorker, Settle, StoreArtifact, CheckBlockers,
       PurgeArtifacts, DeleteDocuments, ListStorage, SkipSweep, FindOrphans, SweepStorage,
       LeaveOrgs, DeleteArtifacts, PurgeRows, DeleteUser
  <2>6. \A e \in expiring : e \in objects' => e \in objects
    BY <1>2, <2>5
  <2>7. \/ rows' = rows \/ PurgeRows(w)
        \/ \E status \in Statuses : rows' = Put(execs[w].job, status)
    <3>1. {"pending", "failed", "done"} \subseteq Statuses
      BY SMT DEF Statuses
    <3>. QED
      BY <1>10, <3>1, SMT DEF Step, Throw, CrashWorker, Settle, StoreArtifact,
         CheckBlockers, PurgeArtifacts, DeleteDocuments, ListStorage, SkipSweep,
         FindOrphans, SweepStorage, LeaveOrgs, DeleteArtifacts, DeleteUser, Record, Refuse
  <2>8. \A e \in expiring : rows'[e] = rows[e] \/ rows'[e].status = "gone"
    <3>1. CASE PurgeRows(w)
      <4>1. Row("gone", 0).status = "gone"
        BY Constants, RowFacts, SMT DEF Statuses
      <4>. QED
        BY <1>1, <3>1, <4>1, SMT DEF PurgeRows
    <3>2. ASSUME NEW status \in Statuses, rows' = Put(execs[w].job, status)
          PROVE  \A e \in expiring : rows'[e] = rows[e]
      BY <1>1, <1>2, <2>2, <3>2, SMT DEF Put
    <3>. QED
      BY <2>7, <3>1, <3>2
  <2>. QED
    BY <2>1, <2>4, <2>6, <2>8, ExpiringStays
<1>. QED
  BY <1>3, <1>4, <1>5, <1>6, <1>7, <1>8, <1>9, <1>10, Zenon DEF Next

LEMMA ErasureStep ==
  ASSUME ErasureInv, [Next]_vars
  PROVE  ErasureInv'
<1>1. TypeInv' /\ Expiring'
  BY TypeStep, ExpiringStep DEF ErasureInv
<1>2. CASE UNCHANGED vars
  <2>1. RowsMove
    BY <1>2, SMT DEF vars, RowsMove
  <2>. QED
    BY <1>1, <2>1, RowsKeep DEF ErasureInv
<1>3. ASSUME NEW w \in Worker, Step(w) \/ Throw(w) \/ CrashWorker(w)
      PROVE  Outcome'
  BY <1>3, KeepLeave, KeepStore, KeepErasure, Zenon DEF Step
<1>4. CASE Next
  <2>1. Outcome'
    BY <1>3, <1>4, KeepRequests, KeepRetention, KeepUploads, KeepRowAges, KeepClaim,
       Zenon DEF Next
  <2>. QED
    BY <1>1, <2>1 DEF ErasureInv
<1>. QED
  BY <1>2, <1>4

LEMMA ErasureInit == Init => ErasureInv
<1>. SUFFICES ASSUME Init
              PROVE  ErasureInv
  OBVIOUS
<1>1. \A w \in Worker : execs[w].pc = "idle" /\ execs[w].job = Nothing
  BY SMT DEF Init, Idle
<1>2. /\ \A S : EraserAt(S) = FALSE
      /\ Erasing = FALSE
  BY <1>1, Constants, SMT DEF EraserAt, Erasing
<1>3. OrgDoc \subseteq Doc /\ PersonalDoc \subseteq Doc
  BY ConstAssumption, SMT DEF PersonalDoc
<1>4. gone = FALSE /\ objects = {} /\ \A d \in Doc : docs[d] = "none" /\ uploads[d] = "new"
  BY SMT DEF Init
<1>5. \A e \in Export : rows[e].status = "none"
  BY Constants, RowFacts, SMT DEF Init, NoRow, Statuses
<1>6. Meeting /\ Uploading
  BY <1>2, <1>4, SMT DEF Meeting, Uploading
<1>7. Kept
  BY <1>1, <1>3, <1>4, SMT DEF Kept
<1>8. Artifacts /\ Unrequested
  BY <1>2, <1>4, <1>5, SMT DEF Artifacts, Unrequested
<1>9. Forgotten
  BY <1>1, <1>4, SMT DEF Forgotten, Erased
<1>10. Expiring
  BY SMT DEF Init, Expiring
<1>. QED
  BY <1>6, <1>7, <1>8, <1>9, <1>10, TypeInit DEF ErasureInv, Outcome

LEMMA ErasureInvariant == Spec => []ErasureInv
<1>1. Init => ErasureInv
  BY ErasureInit
<1>2. ErasureInv /\ [Next]_vars => ErasureInv'
  BY ErasureStep
<1>. QED
  BY <1>1, <1>2, PTL DEF Spec

(* What is left of an erased account was under way during the erasure, or  *)
(* its best-effort sweep failed, whatever was retried, crashed or claimed  *)
(* twice on the way.                                                       *)
THEOREM ErasedAccountLeavesNothing == Spec => []ErasureLeavesNothing
<1>1. ErasureInv => ErasureLeavesNothing
  BY SMT DEF ErasureInv, Outcome, Unrequested, Forgotten, ErasureLeavesNothing
<1>. QED
  BY <1>1, ErasureInvariant, PTL

(* An erasure takes no bytes of a version that an organization keeps.      *)
THEOREM OrgKeepsItsBytes == Spec => []OrgBytesKept
<1>1. ErasureInv => OrgBytesKept
  BY Zenon DEF ErasureInv, Outcome, Kept, OrgBytesKept
<1>. QED
  BY <1>1, ErasureInvariant, PTL

(* No artifact outlives the row that names it.                             *)
THEOREM NoArtifactLosesItsName == Spec => []ArtifactsKeepTheirName
<1>1. ErasureInv => ArtifactsKeepTheirName
  BY SMT DEF ErasureInv, Outcome, Artifacts, ArtifactsKeepTheirName
<1>. QED
  BY <1>1, ErasureInvariant, PTL
=============================================================================
