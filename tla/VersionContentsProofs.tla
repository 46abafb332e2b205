----------------------- MODULE VersionContentsProofs -----------------------
(***************************************************************************)
(* What the runs of VersionContents show on a small instance, proved for   *)
(* any number of changes, requests, workers, replacements and faults.      *)
(***************************************************************************)
EXTENDS VersionContents, TLAPS

-----------------------------------------------------------------------------
(* The inductive invariant.                                                *)

(* What a request and an attempt hold while they need it.                  *)
Holdings ==
  /\ \A q \in Request :
       /\ Rewriting(q) => /\ request[q].edit \in Edit
                          /\ request[q].file \in File
                          /\ request[q].base \in Content
       /\ request[q].pc = "mark" => request[q].edit \in Edit
  /\ \A w \in Worker : worker[w].pc = "converted" => worker[w].held \in Content
  /\ job.status = "running" => job.holder \in Worker

TypeInv == TypeOK /\ Holdings

(* A live version names bytes that are there and that no cleanup is after, *)
(* and no rendition but that of its file.                                  *)
LiveFile ==
  live => /\ object[Source(file)] # Nothing
          /\ Source(file) \notin owed
          /\ cleaner # Source(file)
          /\ pdf \in {Nothing, Rendition(file)}

(* As long as no two rewrites met: there is at most one, it works on the   *)
(* file the version names, and knows what its bytes are.                   *)
Solo ==
  live /\ "bytes" \notin crossed =>
    /\ \A p, q \in Request : Rewriting(p) /\ Rewriting(q) => p = q
    /\ \A q \in Request : Rewriting(q) =>
         /\ request[q].file = file
         /\ request[q].pc = "written" => Bytes = Resolved(q)
         /\ request[q].pc # "written" => Bytes = request[q].base
         /\ request[q].pc # "read" => hash = Nothing
    /\ hash \in {Nothing, Bytes}

(* A change that is marked, or about to be, is resolved in the bytes.      *)
Marked ==
  live /\ "bytes" \notin crossed /\ file = Initial =>
    /\ marked \subseteq Bytes.resolved
    /\ \A q \in Request :
         request[q].pc = "mark" => request[q].edit \in Bytes.resolved

RecordInv == TypeInv /\ LiveFile /\ Solo /\ Marked

(* As long as no rewrite met a conversion: none does, a rendition is gone  *)
(* before the bytes change, and a conversion has the bytes of the file.    *)
Apart ==
  live /\ crossed = {} =>
    /\ \A q \in Request, w \in Worker : ~(Rewriting(q) /\ Converting(w))
    /\ \A q \in Request : request[q].pc \in {"cleared", "written"} => pdf = Nothing
    /\ file = Initial => \A w \in Worker :
         /\ worker[w].pc = "converted" => worker[w].held = Bytes
         /\ worker[w].pc = "uploaded" =>
              object[Rendition(Initial)] \in {Nothing, Bytes}

RenditionInv == RecordInv /\ Apart /\ RenditionMatchesBytes

-----------------------------------------------------------------------------
(* Keys and contents.                                                      *)

LEMMA KeyFacts ==
  /\ Initial \in File
  /\ Nothing \notin Key \cup Content \cup Edit \cup Worker \cup File
  /\ \A f \in File : /\ Source(f) \in Key /\ Rendition(f) \in Key
                     /\ Fresh(f) \in Content
  /\ \A f, g \in File : /\ Source(f) # Rendition(g)
                        /\ Source(f) = Source(g) => f = g
                        /\ Rendition(f) = Rendition(g) => f = g
<1>1. Nothing \notin Key \cup Content \cup Edit \cup Worker \cup File
  BY ConstAssumption, Zenon
<1>2. Initial \in File
  BY DEF File
<1>3. ASSUME NEW f \in File
      PROVE  /\ Source(f) \in Key /\ Rendition(f) \in Key
             /\ Fresh(f) \in Content
  BY <1>3, SMT DEF Source, Rendition, Key, Fresh, Content
<1>4. ASSUME NEW f \in File, NEW g \in File
      PROVE  /\ Source(f) # Rendition(g)
             /\ Source(f) = Source(g) => f = g
             /\ Rendition(f) = Rendition(g) => f = g
  BY SMT DEF Source, Rendition
<1>. QED
  BY <1>1, <1>2, <1>3, <1>4, Zenon

LEMMA ResolvedContent ==
  ASSUME NEW q \in Request, request[q].base \in Content, request[q].edit \in Edit
  PROVE  /\ Resolved(q) \in Content
         /\ Resolved(q).resolved = request[q].base.resolved \cup {request[q].edit}
         /\ Resolved(q).file = request[q].base.file
  BY SMT DEF Resolved, Content

LEMMA GotoRequest ==
  ASSUME TypeOK, NEW q \in Request, NEW pc \in RequestPc, Goto(q, pc)
  PROVE  /\ request' \in [Request -> [pc : RequestPc, edit : Edit \cup {Nothing},
                              file : File \cup {Nothing},
                              base : Content \cup {Nothing}]]
         /\ request'[q].pc = pc /\ request'[q].edit = request[q].edit
         /\ request'[q].file = request[q].file /\ request'[q].base = request[q].base
         /\ \A p \in Request \ {q} : request'[p] = request[p]
BY SMT DEF Goto, TypeOK

LEMMA AtWorker ==
  ASSUME TypeOK, NEW w \in Worker, NEW pc \in WorkerPc, At(w, pc)
  PROVE  /\ worker' \in [Worker -> [pc : WorkerPc, held : Content \cup {Nothing}]]
         /\ worker'[w].pc = pc /\ worker'[w].held = worker[w].held
         /\ \A v \in Worker \ {w} : worker'[v] = worker[v]
BY SMT DEF At, TypeOK

-----------------------------------------------------------------------------
(* Types.                                                                  *)

(* What a request slot may hold.                                           *)
RequestRow == [pc : RequestPc, edit : Edit \cup {Nothing},
               file : File \cup {Nothing}, base : Content \cup {Nothing}]

LEMMA RequestSlot ==
  ASSUME TypeInv, NEW q \in Request, NEW r \in RequestRow,
         request' = [request EXCEPT ![q] = r],
         r.pc \in {"read", "cleared", "written"} =>
           r.edit \in Edit /\ r.file \in File /\ r.base \in Content,
         r.pc = "mark" => r.edit \in Edit,
         worker' = worker, job' = job
  PROVE  request' \in [Request -> RequestRow] /\ Holdings'
BY SMT DEF RequestRow, TypeInv, TypeOK, Holdings, Rewriting

LEMMA MarkingRow ==
  ASSUME NEW e \in Edit
  PROVE  /\ Marking(e) \in RequestRow
         /\ Marking(e).pc = "mark" /\ Marking(e).edit = e
BY SMT DEF Marking, RequestRow, RequestPc

LEMMA NoRequestRow == NoRequest \in RequestRow /\ NoRequest.pc = "idle"
BY SMT DEF NoRequest, RequestRow, RequestPc

LEMMA TypeResolving ==
  ASSUME TypeInv, Resolving
  PROVE  TypeInv'
<1>1. ASSUME NEW q \in Request, NEW e \in Edit, Read(q, e)
      PROVE  TypeInv'
  <2>1. worker' = worker /\ job' = job
    BY <1>1 DEF Read
  <2>2. request' \in [Request -> RequestRow] /\ Holdings'
    <3>1. CASE e \in object[Source(file)].resolved
      <4>1. request' = [request EXCEPT ![q] = Marking(e)]
        BY <1>1, <3>1, Zenon DEF Read
      <4>. QED
        BY <2>1, <4>1, MarkingRow, RequestSlot
    <3>2. CASE e \notin object[Source(file)].resolved
      <4>. DEFINE r == [pc |-> "read", edit |-> e, file |-> file,
                        base |-> object[Source(file)]]
      <4>1. file \in File /\ object[Source(file)] \in Content
        BY <1>1, KeyFacts, SMT DEF Read, TypeInv, TypeOK
      <4>2. /\ r \in RequestRow /\ r.pc = "read" /\ r.edit \in Edit
            /\ r.file \in File /\ r.base \in Content
        BY <4>1, SMT DEF RequestRow, RequestPc
      <4>3. request' = [request EXCEPT ![q] = r]
        BY <1>1, <3>2, Zenon DEF Read
      <4>. HIDE DEF r
      <4>. QED
        BY <2>1, <4>2, <4>3, RequestSlot
    <3>. QED
      BY <3>1, <3>2
  <2>3. requests' \in 0..MaxRequests
    BY <1>1, ConstAssumption, SMT DEF Read, TypeInv, TypeOK
  <2>4. crossed' \subseteq {"bytes", "rendition"}
    BY <1>1, SMT DEF Read, TypeInv, TypeOK, Meets
  <2>. QED
    BY <1>1, <2>2, <2>3, <2>4, Zenon DEF Read, TypeInv, TypeOK, RequestRow, version
<1>2. ASSUME NEW q \in Request, Clear(q)
      PROVE  TypeInv'
  <2>1. request' \in [Request -> RequestRow] /\ Holdings'
    BY <1>2, GotoRequest, SMT DEF Clear, RequestPc, TypeInv, Holdings, Rewriting, RequestRow
  <2>2. pdf' \in Key \cup {Nothing} /\ hash' \in Content \cup {Nothing}
    BY <1>2, Zenon DEF Clear, TypeInv, TypeOK
  <2>3. owed' \subseteq Key
    BY <1>2, SMT DEF Clear, Keys, TypeInv, TypeOK
  <2>. QED
    BY <1>2, <2>1, <2>2, <2>3, Zenon DEF Clear, TypeInv, TypeOK, RequestRow
<1>3. ASSUME NEW q \in Request, Overwrite(q)
      PROVE  TypeInv'
  <2>1. request' \in [Request -> RequestRow] /\ Holdings'
    BY <1>3, GotoRequest, SMT DEF Overwrite, RequestPc, TypeInv, Holdings, Rewriting, RequestRow
  <2>2. Resolved(q) \in Content /\ Source(request[q].file) \in Key
    BY <1>3, ResolvedContent, KeyFacts, SMT DEF Overwrite, TypeInv, Holdings, Rewriting
  <2>3. object' \in [Key -> Content \cup {Nothing}] /\ adrift' \subseteq Key
    BY <1>3, <2>2, SMT DEF Overwrite, TypeInv, TypeOK
  <2>. QED
    BY <1>3, <2>1, <2>3, Zenon DEF Overwrite, TypeInv, TypeOK, RequestRow, version
<1>4. ASSUME NEW q \in Request, Rehash(q)
      PROVE  TypeInv'
  <2>1. request[q].edit \in Edit /\ Resolved(q) \in Content
    BY <1>4, ResolvedContent, SMT DEF Rehash, TypeInv, Holdings, Rewriting
  <2>2. request' = [request EXCEPT ![q] = Marking(request[q].edit)]
    BY <1>4 DEF Rehash
  <2>3. worker' = worker /\ job' = job
    BY <1>4 DEF Rehash
  <2>4. request' \in [Request -> RequestRow] /\ Holdings'
    BY <2>1, <2>2, <2>3, MarkingRow, RequestSlot
  <2>. QED
    BY <1>4, <2>1, <2>4, Zenon DEF Rehash, TypeInv, TypeOK, RequestRow
<1>5. ASSUME NEW q \in Request, Mark(q)
      PROVE  TypeInv'
  <2>1. request[q].edit \in Edit /\ worker' = worker /\ job' = job
    BY <1>5, SMT DEF Mark, TypeInv, Holdings
  <2>2. request' = [request EXCEPT ![q] = NoRequest]
    BY <1>5 DEF Mark
  <2>3. request' \in [Request -> RequestRow] /\ Holdings'
    BY <2>1, <2>2, NoRequestRow, RequestSlot
  <2>. QED
    BY <1>5, <2>1, <2>3, Zenon DEF Mark, TypeInv, TypeOK, RequestRow, version
<1>6. ASSUME NEW q \in Request, Quit(q)
      PROVE  TypeInv'
  <2>1. worker' = worker /\ job' = job
    BY <1>6 DEF Quit
  <2>2. request' = [request EXCEPT ![q] = NoRequest]
    BY <1>6 DEF Quit
  <2>3. request' \in [Request -> RequestRow] /\ Holdings'
    BY <2>1, <2>2, NoRequestRow, RequestSlot
  <2>4. faults' \in 0..MaxFaults
    BY <1>6, ConstAssumption, SMT DEF Quit, Fault, TypeInv, TypeOK
  <2>. QED
    BY <1>6, <2>3, <2>4, Zenon DEF Quit, TypeInv, TypeOK, RequestRow, version
<1>. QED
  BY <1>1, <1>2, <1>3, <1>4, <1>5, <1>6, Zenon DEF Resolving

(* What a worker slot and the job row may hold.                            *)
WorkerRow == [pc : WorkerPc, held : Content \cup {Nothing}]
JobRow    == [status : {"pending", "running", "done", "failed"},
              attempts : 0..MaxAttempts, holder : Worker \cup {Nothing}]

LEMMA WorkerSlot ==
  ASSUME TypeInv, NEW w \in Worker, NEW r \in WorkerRow,
         worker' = [worker EXCEPT ![w] = r],
         r.pc = "converted" => r.held \in Content,
         request' = request, job' \in JobRow,
         job'.status = "running" => job'.holder \in Worker
  PROVE  worker' \in [Worker -> WorkerRow] /\ Holdings'
BY SMT DEF WorkerRow, JobRow, TypeInv, TypeOK, Holdings, Rewriting

LEMMA NoRunRow == NoRun \in WorkerRow /\ NoRun.pc = "idle"
BY SMT DEF NoRun, WorkerRow, WorkerPc

LEMMA ClosedRow ==
  ASSUME NEW status \in {"pending", "done", "failed"}, NEW n \in 0..MaxAttempts
  PROVE  Closed(status, n) \in JobRow /\ Closed(status, n).status = status
BY SMT DEF Closed, JobRow

LEMMA SettledRow ==
  ASSUME TypeInv, NEW w \in Worker, NEW status \in {"pending", "done", "failed"}
  PROVE  /\ Settled(w, status) \in JobRow
         /\ Settled(w, status).status = "running" =>
              Settled(w, status).holder \in Worker
<1>1. /\ job \in JobRow /\ job.attempts \in 0..MaxAttempts
      /\ job.status = "running" => job.holder \in Worker
  BY SMT DEF TypeInv, TypeOK, JobRow, Holdings
<1>2. CASE job.status = "running" /\ job.holder = w
  BY <1>1, <1>2, ClosedRow DEF Settled
<1>3. CASE ~(job.status = "running" /\ job.holder = w)
  BY <1>1, <1>3, Zenon DEF Settled
<1>. QED
  BY <1>2, <1>3

(* An attempt that ends leaves slots and rows of the right kind.           *)
LEMMA FinishTypes ==
  ASSUME TypeInv, NEW w \in Worker, Finish(w), request' = request
  PROVE  /\ worker' \in [Worker -> WorkerRow] /\ Holdings' /\ job' \in JobRow
         /\ faults' \in 0..MaxFaults
<1>1. job' \in JobRow /\ (job'.status = "running" => job'.holder \in Worker)
  <2>1. /\ job \in JobRow
        /\ job.status = "running" => job.holder \in Worker
    BY SMT DEF TypeInv, TypeOK, JobRow, Holdings
  <2>2. job' = job \/ job' = Settled(w, "done")
    BY DEF Finish
  <2>. QED
    BY <2>1, <2>2, SettledRow
<1>2. faults' \in 0..MaxFaults
  BY ConstAssumption, SMT DEF Finish, Fault, TypeInv, TypeOK
<1>3. worker' = [worker EXCEPT ![w] = NoRun]
  BY DEF Finish
<1>. QED
  BY <1>1, <1>2, <1>3, NoRunRow, WorkerSlot

LEMMA ThrowTypes ==
  ASSUME TypeInv, NEW w \in Worker, Throw(w), request' = request
  PROVE  worker' \in [Worker -> WorkerRow] /\ Holdings' /\ job' \in JobRow
<1>1. job' = Settled(w, "pending") \/ job' = Settled(w, "failed")
  BY DEF Throw
<1>2. job' \in JobRow /\ (job'.status = "running" => job'.holder \in Worker)
  BY <1>1, SettledRow
<1>3. worker' = [worker EXCEPT ![w] = NoRun]
  BY DEF Throw
<1>. QED
  BY <1>2, <1>3, NoRunRow, WorkerSlot

LEMMA TypeConversion ==
  ASSUME TypeInv, Conversion
  PROVE  TypeInv'
<1>. USE DEF version
<1>1. ASSUME Abandon
      PROVE  TypeInv'
  <2>1. job.attempts \in 0..MaxAttempts
    BY SMT DEF TypeInv, TypeOK
  <2>2. job' \in JobRow /\ job'.status = "failed"
    BY <1>1, <2>1, ClosedRow DEF Abandon
  <2>3. worker' = worker /\ request' = request
    BY <1>1 DEF Abandon
  <2>4. Holdings'
    BY <2>2, <2>3, SMT DEF TypeInv, Holdings, Rewriting
  <2>5. faults' \in 0..MaxFaults
    BY <1>1, ConstAssumption, SMT DEF Abandon, Claimable, Fault, TypeInv, TypeOK
  <2>. QED
    BY <1>1, <2>2, <2>4, <2>5, Zenon DEF Abandon, TypeInv, TypeOK, JobRow
<1>2. ASSUME NEW w \in Worker, Claim(w)
      PROVE  TypeInv'
  <2>1. job.attempts + 1 \in 0..MaxAttempts
    BY <1>2, ConstAssumption, SMT DEF Claim, HasBudget, TypeInv, TypeOK
  <2>2. request' = request
    BY <1>2 DEF Claim
  <2>3. faults' \in 0..MaxFaults
    BY <1>2, ConstAssumption, SMT DEF Claim, Claimable, Fault, TypeInv, TypeOK
  <2>4. /\ job' \in JobRow /\ worker' \in [Worker -> WorkerRow] /\ Holdings'
        /\ crossed' \subseteq {"bytes", "rendition"}
    <3>1. CASE object[Source(Initial)] = Nothing
      <4>1. job' = Closed("pending", job.attempts + 1)
              \/ job' = Closed("failed", job.attempts + 1)
        BY <1>2, <3>1, Zenon DEF Claim
      <4>2. worker' = worker /\ crossed' = crossed
        BY <1>2, <3>1, Zenon DEF Claim
      <4>3. job' \in JobRow /\ job'.status # "running"
        BY <2>1, <4>1, ClosedRow
      <4>. QED
        BY <2>2, <4>2, <4>3, SMT DEF TypeInv, TypeOK, Holdings, Rewriting, WorkerRow
    <3>2. CASE object[Source(Initial)] # Nothing
      <4>. DEFINE j == [status |-> "running", attempts |-> job.attempts + 1,
                        holder |-> w]
                  r == [pc |-> "converted", held |-> object[Source(Initial)]]
      <4>1. job' = j /\ worker' = [worker EXCEPT ![w] = r]
        BY <1>2, <3>2, Zenon DEF Claim
      <4>2. object[Source(Initial)] \in Content
        BY <3>2, KeyFacts, SMT DEF TypeInv, TypeOK
      <4>3. j \in JobRow /\ j.holder \in Worker
        BY <2>1, SMT DEF JobRow
      <4>4. r \in WorkerRow /\ r.held \in Content
        BY <4>2, SMT DEF WorkerRow, WorkerPc
      <4>5. crossed' \subseteq {"bytes", "rendition"}
        <5>1. crossed' = crossed \cup Meets(Rewriters, "rendition")
          BY <1>2, <3>2, Zenon DEF Claim
        <5>. QED
          BY <5>1, SMT DEF TypeInv, TypeOK, Meets
      <4>. HIDE DEF j, r
      <4>. QED
        BY <2>2, <4>1, <4>3, <4>4, <4>5, WorkerSlot
    <3>. QED
      BY <3>1, <3>2
  <2>. QED
    BY <1>2, <2>3, <2>4, Zenon DEF Claim, TypeInv, TypeOK, JobRow, WorkerRow
<1>3. ASSUME NEW w \in Worker, ConvertFails(w)
      PROVE  TypeInv'
  <2>1. Finish(w) /\ request' = request
    BY <1>3 DEF ConvertFails
  <2>. QED
    BY <1>3, <2>1, FinishTypes, Zenon DEF ConvertFails, TypeInv, TypeOK, JobRow, WorkerRow
<1>4. ASSUME NEW w \in Worker, UploadRendition(w)
      PROVE  TypeInv'
  <2>. DEFINE r == [pc |-> "uploaded", held |-> Nothing]
  <2>1. /\ worker' = [worker EXCEPT ![w] = r]
        /\ request' = request /\ job' = job
    BY <1>4, Zenon DEF UploadRendition
  <2>2. r \in WorkerRow /\ r.pc # "converted"
    BY SMT DEF WorkerRow, WorkerPc
  <2>3. job \in JobRow /\ (job.status = "running" => job.holder \in Worker)
    BY SMT DEF TypeInv, TypeOK, JobRow, Holdings
  <2>4. worker' \in [Worker -> WorkerRow] /\ Holdings'
    <3>. HIDE DEF r
    <3>. QED
      BY <2>1, <2>2, <2>3, WorkerSlot
  <2>5. object' \in [Key -> Content \cup {Nothing}]
    BY <1>4, KeyFacts, SMT DEF UploadRendition, TypeInv, TypeOK, Holdings
  <2>. QED
    BY <1>4, <2>4, <2>5, Zenon DEF UploadRendition, TypeInv, TypeOK, WorkerRow
<1>5. ASSUME NEW w \in Worker, Attach(w)
      PROVE  TypeInv'
  <2>1. pdf' \in Key \cup {Nothing} /\ adrift' \subseteq Key
    BY <1>5, KeyFacts, SMT DEF Attach, TypeInv, TypeOK
  <2>2. /\ worker' \in [Worker -> WorkerRow] /\ Holdings' /\ job' \in JobRow
        /\ faults' \in 0..MaxFaults
    <3>1. CASE Finish(w)
      BY <1>5, <3>1, FinishTypes DEF Attach
    <3>2. CASE job' = job /\ (At(w, "reject") \/ At(w, "report"))
      <4>1. faults' \in 0..MaxFaults
        BY <1>5, <3>2, ConstAssumption, SMT DEF Attach, Finish, Fault, TypeInv, TypeOK
      <4>2. request' = request
        BY <1>5 DEF Attach
      <4>. QED
        BY <3>2, <4>1, <4>2, AtWorker, SMT
           DEF WorkerPc, WorkerRow, JobRow, TypeInv, TypeOK, Holdings, Rewriting
    <3>. QED
      BY <1>5, <3>1, <3>2, Zenon DEF Attach
  <2>. QED
    BY <1>5, <2>1, <2>2, Zenon DEF Attach, TypeInv, TypeOK, JobRow, WorkerRow
<1>6. ASSUME NEW w \in Worker, Report(w)
      PROVE  TypeInv'
  <2>1. request' = request
    BY <1>6 DEF Report
  <2>2. /\ worker' \in [Worker -> WorkerRow] /\ Holdings' /\ job' \in JobRow
        /\ faults' \in 0..MaxFaults
    <3>1. CASE Finish(w)
      BY <2>1, <3>1, FinishTypes
    <3>2. CASE Throw(w) /\ faults' = faults
      BY <2>1, <3>2, ThrowTypes, Zenon DEF TypeInv, TypeOK
    <3>. QED
      BY <1>6, <3>1, <3>2, Zenon DEF Report
  <2>3. owed' \subseteq Key /\ adrift' \subseteq Key
    BY <1>6, KeyFacts, SMT DEF Report, TypeInv, TypeOK
  <2>. QED
    BY <1>6, <2>2, <2>3, Zenon DEF Report, TypeInv, TypeOK, JobRow, WorkerRow
<1>7. ASSUME NEW w \in Worker, Fail(w)
      PROVE  TypeInv'
  <2>1. request' = request /\ Throw(w)
    BY <1>7 DEF Fail
  <2>2. adrift' \subseteq Key
    BY <1>7, KeyFacts, SMT DEF Fail, Dropped, TypeInv, TypeOK
  <2>3. faults' \in 0..MaxFaults
    BY <1>7, ConstAssumption, SMT DEF Fail, Fault, TypeInv, TypeOK
  <2>. QED
    BY <1>7, <2>1, <2>2, <2>3, ThrowTypes, Zenon DEF Fail, TypeInv, TypeOK, JobRow, WorkerRow
<1>8. ASSUME NEW w \in Worker, Die(w)
      PROVE  TypeInv'
  <2>1. request' = request /\ job' = job /\ worker' = [worker EXCEPT ![w] = NoRun]
    BY <1>8 DEF Die
  <2>2. job \in JobRow /\ (job.status = "running" => job.holder \in Worker)
    BY SMT DEF TypeInv, TypeOK, JobRow, Holdings
  <2>3. worker' \in [Worker -> WorkerRow] /\ Holdings'
    BY <2>1, <2>2, NoRunRow, WorkerSlot
  <2>4. adrift' \subseteq Key
    BY <1>8, KeyFacts, SMT DEF Die, Dropped, TypeInv, TypeOK
  <2>5. faults' \in 0..MaxFaults
    BY <1>8, ConstAssumption, SMT DEF Die, Fault, TypeInv, TypeOK
  <2>. QED
    BY <1>8, <2>3, <2>4, <2>5, Zenon DEF Die, TypeInv, TypeOK, WorkerRow
<1>. QED
  BY <1>1, <1>2, <1>3, <1>4, <1>5, <1>6, <1>7, <1>8, Zenon DEF Conversion

LEMMA TypeOthers ==
  ASSUME TypeInv,
         Cleanup \/ Delete \/ \E f \in Replacement, c \in BOOLEAN : Replace(f, c)
  PROVE  TypeInv'
<1>. USE DEF version
<1>1. ASSUME request' = request, worker' = worker, job' = job
      PROVE  Holdings'
  BY <1>1, SMT DEF TypeInv, Holdings, Rewriting
<1>2. ASSUME NEW k \in Key, Lookup(k)
      PROVE  TypeInv'
  <2>1. owed' \subseteq Key /\ cleaner' \in Key \cup {Nothing}
    BY <1>2, SMT DEF Lookup, TypeInv, TypeOK
  <2>. QED
    BY <1>1, <1>2, <2>1, Zenon DEF Lookup, TypeInv, TypeOK
<1>3. ASSUME EraseObject
      PROVE  TypeInv'
  <2>1. object' \in [Key -> Content \cup {Nothing}] /\ cleaner' \in Key \cup {Nothing}
    BY <1>3, SMT DEF EraseObject, TypeInv, TypeOK
  <2>. QED
    BY <1>1, <1>3, <2>1, Zenon DEF EraseObject, TypeInv, TypeOK
<1>4. ASSUME CleanupRetry
      PROVE  TypeInv'
  <2>1. owed' \subseteq Key /\ cleaner' \in Key \cup {Nothing}
    BY <1>4, SMT DEF CleanupRetry, TypeInv, TypeOK
  <2>. QED
    BY <1>1, <1>4, <2>1, Zenon DEF CleanupRetry, TypeInv, TypeOK
<1>5. ASSUME Delete
      PROVE  TypeInv'
  <2>1. owed' \subseteq Key
    BY <1>5, KeyFacts, SMT DEF Delete, Keys, TypeInv, TypeOK
  <2>2. live' \in BOOLEAN
    BY <1>5, Zenon DEF Delete
  <2>. QED
    BY <1>1, <1>5, <2>1, <2>2, Zenon DEF Delete, TypeInv, TypeOK
<1>6. ASSUME NEW f \in Replacement, NEW c \in BOOLEAN, Replace(f, c)
      PROVE  TypeInv'
  <2>1. f \in File
    BY DEF File
  <2>2. owed' \subseteq Key /\ pdf' \in Key \cup {Nothing} /\ file' \in File
    BY <1>6, <2>1, KeyFacts, SMT DEF Replace, Keys, TypeInv, TypeOK
  <2>3. hash' \in Content \cup {Nothing}
    BY <1>6, <2>1, KeyFacts, SMT DEF Replace
  <2>4. object' \in [Key -> Content \cup {Nothing}]
    BY <1>6, <2>1, KeyFacts, SMT DEF Replace, TypeInv, TypeOK
  <2>5. crossed' \subseteq {"bytes", "rendition"}
    BY <1>6, SMT DEF Replace, Meets
  <2>. QED
    BY <1>1, <1>6, <2>2, <2>3, <2>4, <2>5, Zenon DEF Replace, TypeInv, TypeOK
<1>. QED
  BY <1>2, <1>3, <1>4, <1>5, <1>6, Zenon DEF Cleanup

LEMMA TypeInit == Init => TypeInv
<1>. SUFFICES ASSUME Init
              PROVE  TypeInv
  OBVIOUS
<1>1. object \in [Key -> Content \cup {Nothing}]
  BY KeyFacts, SMT DEF Init
<1>2. /\ worker \in [Worker -> WorkerRow]
      /\ request \in [Request -> RequestRow]
      /\ job \in JobRow /\ Holdings
  BY ConstAssumption, SMT DEF Init, NoRun, NoRequest, WorkerRow, WorkerPc, RequestRow,
     RequestPc, JobRow, Holdings, Rewriting
<1>3. /\ live \in BOOLEAN /\ file \in File /\ pdf \in Key \cup {Nothing}
      /\ hash \in Content \cup {Nothing} /\ cleaner \in Key \cup {Nothing}
      /\ owed \subseteq Key /\ marked \subseteq Edit /\ adrift \subseteq Key
      /\ crossed \subseteq {"bytes", "rendition"}
  BY KeyFacts, Zenon DEF Init
<1>4. requests \in 0..MaxRequests /\ faults \in 0..MaxFaults
  BY ConstAssumption, SMT DEF Init
<1>. QED
  BY <1>1, <1>2, <1>3, <1>4, Zenon DEF TypeInv, TypeOK, WorkerRow, RequestRow, JobRow

LEMMA TypeStep ==
  ASSUME TypeInv, [Next]_vars
  PROVE  TypeInv'
<1>1. CASE UNCHANGED vars
  BY <1>1, Zenon DEF vars, version, TypeInv, TypeOK, Holdings, Rewriting
<1>. QED
  BY <1>1, TypeResolving, TypeConversion, TypeOthers, Zenon DEF Next

(* Every state is of the right types.                                      *)
THEOREM TypeCorrect == Spec => []TypeOK
<1>1. Init => TypeInv
  BY TypeInit
<1>2. TypeInv /\ [Next]_vars => TypeInv'
  BY TypeStep
<1>. QED
  BY <1>1, <1>2, PTL DEF Spec, TypeInv

-----------------------------------------------------------------------------
(* The file a live version names.                                          *)

(* Steps that leave the version, its bytes and the cleanup alone.          *)
LEMMA LiveFileFrame ==
  ASSUME LiveFile, version' = version, object' = object, owed' = owed,
         cleaner' = cleaner
  PROVE  LiveFile'
BY SMT DEF LiveFile, version

LEMMA LiveFileResolving ==
  ASSUME TypeInv, LiveFile, Resolving
  PROVE  LiveFile'
<1>1. ASSUME NEW q \in Request, NEW e \in Edit, Read(q, e)
      PROVE  LiveFile'
  BY <1>1, LiveFileFrame, Zenon DEF Read
<1>2. ASSUME NEW q \in Request, Clear(q)
      PROVE  LiveFile'
  <2>1. Source(file) # Rendition(file)
    BY KeyFacts, Zenon DEF TypeInv, TypeOK
  <2>. QED
    BY <1>2, <2>1, SMT DEF Clear, Keys, LiveFile
<1>3. ASSUME NEW q \in Request, Overwrite(q)
      PROVE  LiveFile'
  <2>1. Resolved(q) # Nothing
    BY <1>3, ResolvedContent, KeyFacts, SMT DEF Overwrite, TypeInv, Holdings, Rewriting
  <2>2. object'[Source(file)] \in {object[Source(file)], Resolved(q)}
    BY <1>3, KeyFacts, SMT DEF Overwrite, TypeInv, TypeOK
  <2>. QED
    BY <1>3, <2>1, <2>2, SMT DEF Overwrite, LiveFile, version
<1>4. ASSUME NEW q \in Request, Rehash(q)
      PROVE  LiveFile'
  BY <1>4, Zenon DEF Rehash, LiveFile
<1>5. ASSUME NEW q \in Request, Mark(q) \/ Quit(q)
      PROVE  LiveFile'
  BY <1>5, LiveFileFrame, Zenon DEF Mark, Quit
<1>. QED
  BY <1>1, <1>2, <1>3, <1>4, <1>5, Zenon DEF Resolving

LEMMA LiveFileConversion ==
  ASSUME TypeInv, LiveFile, Conversion
  PROVE  LiveFile'
<1>1. ASSUME NEW w \in Worker,
             Abandon \/ Claim(w) \/ ConvertFails(w) \/ Fail(w) \/ Die(w)
      PROVE  LiveFile'
  BY <1>1, LiveFileFrame, Zenon DEF Abandon, Claim, ConvertFails, Fail, Die
<1>2. Source(file) # Rendition(Initial)
  BY KeyFacts, Zenon DEF TypeInv, TypeOK
<1>3. ASSUME NEW w \in Worker, UploadRendition(w)
      PROVE  LiveFile'
  <2>1. object'[Source(file)] = object[Source(file)]
    BY <1>2, <1>3, KeyFacts, SMT DEF UploadRendition, TypeInv, TypeOK
  <2>. QED
    BY <1>3, <2>1, Zenon DEF UploadRendition, LiveFile, version
<1>4. ASSUME NEW w \in Worker, Attach(w)
      PROVE  LiveFile'
  <2>1. pdf' = pdf \/ (file = Initial /\ pdf' = Rendition(Initial))
    BY <1>4, Zenon DEF Attach, Current
  <2>. QED
    BY <1>4, <2>1, SMT DEF Attach, LiveFile
<1>5. ASSUME NEW w \in Worker, Report(w)
      PROVE  LiveFile'
  BY <1>2, <1>5, SMT DEF Report, LiveFile, version
<1>6. CASE Abandon
  BY <1>6, LiveFileFrame, Zenon DEF Abandon
<1>. QED
  BY <1>1, <1>3, <1>4, <1>5, <1>6, Zenon DEF Conversion

LEMMA LiveFileOthers ==
  ASSUME TypeInv, LiveFile,
         Cleanup \/ Delete \/ \E f \in Replacement, c \in BOOLEAN : Replace(f, c)
  PROVE  LiveFile'
<1>1. ASSUME NEW k \in Key, Lookup(k)
      PROVE  LiveFile'
  BY <1>1, SMT DEF Lookup, Referenced, LiveFile, version
<1>2. ASSUME EraseObject
      PROVE  LiveFile'
  <2>1. ASSUME live
        PROVE  object'[Source(file)] = object[Source(file)] /\ cleaner' # Source(file)
    BY <1>2, <2>1, KeyFacts, SMT DEF EraseObject, LiveFile, TypeInv, TypeOK
  <2>. QED
    BY <1>2, <2>1, Zenon DEF EraseObject, LiveFile, version
<1>3. ASSUME CleanupRetry
      PROVE  LiveFile'
  <2>1. Source(file) # Nothing
    BY KeyFacts, Zenon DEF TypeInv, TypeOK
  <2>. QED
    BY <1>3, <2>1, SMT DEF CleanupRetry, LiveFile, version
<1>4. ASSUME Delete
      PROVE  LiveFile'
  BY <1>4, Zenon DEF Delete, LiveFile
<1>5. ASSUME NEW f \in Replacement, NEW c \in BOOLEAN, Replace(f, c)
      PROVE  LiveFile'
  <2>1. f \in File /\ file \in File /\ Source(f) \in Key
    BY KeyFacts, Zenon DEF File, TypeInv, TypeOK
  <2>2. object'[Source(f)] # Nothing
    BY <1>5, <2>1, KeyFacts, SMT DEF Replace
  <2>3. pdf' \in {Nothing, Rendition(f)} /\ file' = f
    BY <1>5, Zenon DEF Replace
  <2>4. Source(f) \notin owed' /\ cleaner' # Source(f)
    <3>1. Source(f) # Source(file) /\ Source(f) # pdf
      BY <1>5, <2>1, KeyFacts, SMT DEF Replace, LiveFile
    <3>. QED
      BY <1>5, <3>1, SMT DEF Replace, Keys
  <2>. QED
    BY <2>2, <2>3, <2>4, Zenon DEF LiveFile
<1>. QED
  BY <1>1, <1>2, <1>3, <1>4, <1>5, Zenon DEF Cleanup

LEMMA LiveFileStep ==
  ASSUME TypeInv, LiveFile, [Next]_vars
  PROVE  LiveFile'
<1>1. CASE UNCHANGED vars
  BY <1>1, Zenon DEF vars, version, LiveFile
<1>. QED
  BY <1>1, LiveFileResolving, LiveFileConversion, LiveFileOthers, Zenon DEF Next

-----------------------------------------------------------------------------
(* The hash and the resolved changes.                                      *)

(* Steps that no rewrite takes and that leave the file and its bytes.      *)
LEMMA RecordFrame ==
  ASSUME Solo, Marked, live' = live, file' = file, hash' = hash,
         request' = request, marked' = marked, live => Bytes' = Bytes,
         "bytes" \in crossed => "bytes" \in crossed'
  PROVE  Solo' /\ Marked'
BY Zenon DEF Solo, Marked, Rewriting, Resolved

(* While no two rewrites met, the others are not at the file.              *)
LEMMA OneRewriter ==
  ASSUME Solo, live, "bytes" \notin crossed,
         NEW q \in Request, Rewriting(q), NEW p \in Request \ {q}
  PROVE  ~Rewriting(p)
BY Zenon DEF Solo

LEMMA RecordRead ==
  ASSUME RecordInv, NEW q \in Request, NEW e \in Edit, Read(q, e)
  PROVE  Solo' /\ Marked'
<1>. DEFINE c == object[Source(file)]
<1>1. /\ live' = live /\ file' = file /\ hash' = hash /\ Bytes' = Bytes
      /\ marked' = marked /\ Bytes = c
  BY Zenon DEF Read, version, Bytes
<1>2. request \in [Request -> RequestRow]
  BY Zenon DEF RecordInv, TypeInv, TypeOK, RequestRow
<1>3. \A p \in Request \ {q} : request'[p] = request[p]
  BY <1>2, SMT DEF Read
<1>4. CASE e \in c.resolved
  <2>1. request'[q] = Marking(e) /\ crossed' = crossed
    BY <1>2, <1>4, SMT DEF Read
  <2>2. ~Rewriting(q)' /\ request'[q].edit = e
    BY <2>1, MarkingRow, SMT DEF Rewriting
  <2>3. \A p \in Request \ {q} : /\ Rewriting(p)' <=> Rewriting(p)
                                 /\ Resolved(p)' = Resolved(p)
    BY <1>3, Zenon DEF Rewriting, Resolved
  <2>4. Solo'
    BY <1>1, <1>3, <2>1, <2>2, <2>3, SMT DEF RecordInv, Solo
  <2>5. Marked'
    BY <1>1, <1>3, <1>4, <2>1, <2>2, SMT DEF RecordInv, Marked
  <2>. QED
    BY <2>4, <2>5
<1>5. CASE e \notin c.resolved
  <2>. DEFINE r == [pc |-> "read", edit |-> e, file |-> file, base |-> c]
  <2>1. request'[q] = r
    BY <1>2, <1>5, SMT DEF Read
  <2>2. crossed' = crossed \cup Meets(Rewriters, "bytes")
                           \cup Meets(Converters, "rendition")
    BY <1>5, Zenon DEF Read
  <2>3. r.pc = "read" /\ r.file = file /\ r.base = c
    BY SMT
  <2>. HIDE DEF r
  <2>4. ASSUME "bytes" \notin crossed'
        PROVE  /\ "bytes" \notin crossed
               /\ \A p \in Request : ~Rewriting(p)
    BY <2>2, <2>4, SMT DEF Meets, Rewriters
  <2>5. \A p \in Request \ {q} : Rewriting(p)' <=> Rewriting(p)
    BY <1>3, Zenon DEF Rewriting
  <2>6. Solo'
    BY <1>1, <2>1, <2>3, <2>4, <2>5, SMT DEF RecordInv, Solo
  <2>7. Marked'
    BY <1>1, <1>3, <2>1, <2>3, <2>4, SMT DEF RecordInv, Marked
  <2>. QED
    BY <2>6, <2>7
<1>. QED
  BY <1>4, <1>5

LEMMA RecordClear ==
  ASSUME RecordInv, NEW q \in Request, Clear(q)
  PROVE  Solo' /\ Marked'
<1>1. /\ request'[q].pc = "cleared" /\ request'[q].edit = request[q].edit
      /\ request'[q].file = request[q].file /\ request'[q].base = request[q].base
      /\ \A p \in Request \ {q} : request'[p] = request[p]
  BY GotoRequest, Zenon DEF Clear, RecordInv, TypeInv, RequestPc
<1>2. Rewriting(q) /\ request[q].pc = "read" /\ Rewriting(q)'
  BY <1>1, Zenon DEF Clear, Rewriting
<1>3. /\ live' = live /\ file' = file /\ Bytes' = Bytes /\ marked' = marked
      /\ crossed' = crossed /\ (live => hash' = Nothing)
  BY Zenon DEF Clear, Bytes
<1>4. \A p \in Request \ {q} : Rewriting(p)' <=> Rewriting(p)
  BY <1>1, Zenon DEF Rewriting
<1>5. Solo'
  BY <1>1, <1>2, <1>3, <1>4, OneRewriter, SMT DEF RecordInv, Solo
<1>6. Marked'
  BY <1>1, <1>3, SMT DEF RecordInv, Marked
<1>. QED
  BY <1>5, <1>6

LEMMA RecordOverwrite ==
  ASSUME RecordInv, NEW q \in Request, Overwrite(q)
  PROVE  Solo' /\ Marked'
<1>1. /\ request'[q].pc = "written" /\ request'[q].edit = request[q].edit
      /\ request'[q].file = request[q].file /\ request'[q].base = request[q].base
      /\ \A p \in Request \ {q} : request'[p] = request[p]
  BY GotoRequest, Zenon DEF Overwrite, RecordInv, TypeInv, RequestPc
<1>2. Rewriting(q) /\ request[q].pc = "cleared" /\ Rewriting(q)'
  BY <1>1, Zenon DEF Overwrite, Rewriting
<1>3. /\ live' = live /\ file' = file /\ hash' = hash /\ marked' = marked
      /\ crossed' = crossed
  BY Zenon DEF Overwrite, version
<1>4. /\ Resolved(q)' = Resolved(q)
      /\ \A p \in Request \ {q} : Rewriting(p)' <=> Rewriting(p)
  BY <1>1, Zenon DEF Rewriting, Resolved
<1>5. Resolved(q).resolved = request[q].base.resolved \cup {request[q].edit}
  BY <1>2, ResolvedContent, Zenon DEF RecordInv, TypeInv, Holdings
<1>6. ASSUME live, "bytes" \notin crossed
      PROVE  /\ Bytes' = Resolved(q) /\ Bytes = request[q].base /\ hash = Nothing
             /\ request[q].file = file
  <2>1. request[q].file = file /\ Bytes = request[q].base /\ hash = Nothing
    BY <1>2, <1>6, SMT DEF RecordInv, Solo
  <2>2. object' = [object EXCEPT ![Source(file)] = Resolved(q)] /\ file' = file
    BY <2>1, Zenon DEF Overwrite, version
  <2>3. Source(file) \in Key /\ object \in [Key -> Content \cup {Nothing}]
    BY KeyFacts, Zenon DEF RecordInv, TypeInv, TypeOK
  <2>4. Bytes' = object'[Source(file)]
    BY <2>2, Zenon DEF Bytes
  <2>. QED
    BY <2>1, <2>2, <2>3, <2>4, SMT
<1>7. Solo'
  BY <1>1, <1>2, <1>3, <1>4, <1>6, OneRewriter, SMT DEF RecordInv, Solo
<1>8. Marked'
  BY <1>1, <1>3, <1>5, <1>6, SMT DEF RecordInv, Marked
<1>. QED
  BY <1>7, <1>8

LEMMA RecordRehash ==
  ASSUME RecordInv, NEW q \in Request, Rehash(q)
  PROVE  Solo' /\ Marked'
<1>1. Rewriting(q) /\ request[q].pc = "written" /\ request[q].edit \in Edit
  BY SMT DEF Rehash, Rewriting, RecordInv, TypeInv, Holdings
<1>2. request \in [Request -> RequestRow]
  BY Zenon DEF RecordInv, TypeInv, TypeOK, RequestRow
<1>3. /\ request'[q] = Marking(request[q].edit)
      /\ \A p \in Request \ {q} : request'[p] = request[p]
  BY <1>2, SMT DEF Rehash
<1>4. request'[q].pc = "mark" /\ request'[q].edit = request[q].edit /\ ~Rewriting(q)'
  BY <1>1, <1>3, MarkingRow, SMT DEF Rewriting
<1>5. /\ live' = live /\ file' = file /\ marked' = marked /\ crossed' = crossed
      /\ Bytes' = Bytes /\ hash' \in {hash, Resolved(q)}
  BY SMT DEF Rehash, Bytes
<1>6. \A p \in Request \ {q} : Rewriting(p)' <=> Rewriting(p)
  BY <1>3, Zenon DEF Rewriting
<1>7. ASSUME live, "bytes" \notin crossed
      PROVE  /\ Bytes = Resolved(q) /\ request[q].edit \in Bytes.resolved
  <2>1. Bytes = Resolved(q)
    BY <1>1, <1>7, SMT DEF RecordInv, Solo
  <2>2. Resolved(q).resolved = request[q].base.resolved \cup {request[q].edit}
    BY <1>1, ResolvedContent, Zenon DEF RecordInv, TypeInv, Holdings
  <2>. QED
    BY <2>1, <2>2, SMT
<1>8. Solo'
  BY <1>1, <1>4, <1>5, <1>6, <1>7, OneRewriter, SMT DEF RecordInv, Solo
<1>9. Marked'
  BY <1>3, <1>4, <1>5, <1>7, SMT DEF RecordInv, Marked
<1>. QED
  BY <1>8, <1>9

(* A request that ends, having marked its change or not.                   *)
LEMMA RecordEnd ==
  ASSUME RecordInv, NEW q \in Request, Mark(q) \/ Quit(q)
  PROVE  Solo' /\ Marked'
<1>1. request \in [Request -> RequestRow]
  BY Zenon DEF RecordInv, TypeInv, TypeOK, RequestRow
<1>2. /\ request'[q] = NoRequest
      /\ \A p \in Request \ {q} : request'[p] = request[p]
  BY <1>1, SMT DEF Mark, Quit
<1>3. request'[q].pc = "idle" /\ ~Rewriting(q)'
  BY <1>2, NoRequestRow, SMT DEF Rewriting
<1>4. /\ live' = live /\ file' = file /\ hash' = hash /\ crossed' = crossed
      /\ Bytes' = Bytes
  BY Zenon DEF Mark, Quit, version, Bytes
<1>5. marked' = marked \/ (request[q].pc = "mark" /\ marked' = marked \cup {request[q].edit})
  BY Zenon DEF Mark, Quit
<1>6. \A p \in Request \ {q} : /\ Rewriting(p)' <=> Rewriting(p)
                               /\ Resolved(p)' = Resolved(p)
  BY <1>2, Zenon DEF Rewriting, Resolved
<1>7. Solo'
  BY <1>2, <1>3, <1>4, <1>6, SMT DEF RecordInv, Solo
<1>8. Marked'
  BY <1>2, <1>3, <1>4, <1>5, SMT DEF RecordInv, Marked
<1>. QED
  BY <1>7, <1>8

LEMMA RecordConversion ==
  ASSUME RecordInv, Conversion
  PROVE  Solo' /\ Marked'
<1>1. /\ live' = live /\ file' = file /\ hash' = hash /\ request' = request
      /\ marked' = marked
  BY Zenon DEF Conversion, Abandon, Claim, ConvertFails, UploadRendition, Attach, Report,
     Fail, Die, version
<1>2. "bytes" \in crossed => "bytes" \in crossed'
  <2>1. crossed' = crossed \/ \E s : crossed' = crossed \cup s
    BY Zenon DEF Conversion, Abandon, Claim, ConvertFails, UploadRendition, Attach,
       Report, Fail, Die
  <2>. QED
    BY <2>1, Zenon
<1>3. Bytes' = Bytes
  <2>1. ASSUME NEW w \in Worker, UploadRendition(w)
        PROVE  object'[Source(file)] = object[Source(file)]
    <3>1. Source(file) # Rendition(Initial) /\ Source(file) \in Key
      BY KeyFacts, Zenon DEF RecordInv, TypeInv, TypeOK
    <3>. QED
      BY <2>1, <3>1, SMT DEF UploadRendition, RecordInv, TypeInv, TypeOK
  <2>2. object' = object \/ \E w \in Worker : UploadRendition(w)
    BY Zenon DEF Conversion, Abandon, Claim, ConvertFails, Attach, Report, Fail, Die
  <2>. QED
    BY <1>1, <2>1, <2>2, Zenon DEF Bytes
<1>. QED
  BY <1>1, <1>2, <1>3, RecordFrame DEF RecordInv

LEMMA RecordCleanup ==
  ASSUME RecordInv, Cleanup
  PROVE  Solo' /\ Marked'
<1>1. /\ live' = live /\ file' = file /\ hash' = hash /\ request' = request
      /\ marked' = marked /\ crossed' = crossed
  BY Zenon DEF Cleanup, Lookup, EraseObject, CleanupRetry, version
<1>2. ASSUME live
      PROVE  Bytes' = Bytes
  <2>1. ASSUME EraseObject
        PROVE  object'[Source(file)] = object[Source(file)]
    <3>1. Source(file) # cleaner /\ Source(file) \in Key
      BY <1>2, KeyFacts, Zenon DEF RecordInv, LiveFile, TypeInv, TypeOK
    <3>. QED
      BY <2>1, <3>1, SMT DEF EraseObject, RecordInv, TypeInv, TypeOK
  <2>2. object' = object \/ EraseObject
    BY Zenon DEF Cleanup, Lookup, CleanupRetry
  <2>. QED
    BY <1>1, <2>1, <2>2, Zenon DEF Bytes
<1>. QED
  BY <1>1, <1>2, RecordFrame DEF RecordInv

LEMMA RecordReplace ==
  ASSUME RecordInv, NEW f \in Replacement, NEW c \in BOOLEAN, Replace(f, c)
  PROVE  Solo' /\ Marked'
<1>1. f \in File /\ f # Initial /\ file' = f /\ hash' = Fresh(f) /\ request' = request
  BY ConstAssumption, Zenon DEF Replace, File
<1>2. Bytes' = Fresh(f)
  BY <1>1, KeyFacts, SMT DEF Replace, Bytes
<1>3. ASSUME "bytes" \notin crossed'
      PROVE  \A p \in Request : ~Rewriting(p)'
  BY <1>1, <1>3, SMT DEF Replace, Meets, Rewriters, Rewriting
<1>4. Solo'
  BY <1>1, <1>2, <1>3, SMT DEF Solo
<1>5. Marked'
  BY <1>1, Zenon DEF Marked
<1>. QED
  BY <1>4, <1>5

LEMMA RecordStep ==
  ASSUME RecordInv, [Next]_vars
  PROVE  RecordInv'
<1>1. TypeInv' /\ LiveFile'
  BY TypeStep, LiveFileStep, Zenon DEF RecordInv
<1>2. CASE UNCHANGED vars
  BY <1>1, <1>2, RecordFrame, Zenon DEF vars, version, RecordInv, Bytes
<1>3. CASE Resolving
  BY <1>1, <1>3, RecordRead, RecordClear, RecordOverwrite, RecordRehash, RecordEnd, Zenon
     DEF Resolving, RecordInv
<1>4. CASE Conversion
  BY <1>1, <1>4, RecordConversion, Zenon DEF RecordInv
<1>5. CASE Cleanup
  BY <1>1, <1>5, RecordCleanup, Zenon DEF RecordInv
<1>6. CASE \E f \in Replacement, c \in BOOLEAN : Replace(f, c)
  BY <1>1, <1>6, RecordReplace, Zenon DEF RecordInv
<1>7. CASE Delete
  BY <1>1, <1>7, Zenon DEF Delete, RecordInv, Solo, Marked
<1>. QED
  BY <1>2, <1>3, <1>4, <1>5, <1>6, <1>7, Zenon DEF Next

LEMMA RecordInit == Init => RecordInv
<1>. SUFFICES ASSUME Init
              PROVE  RecordInv
  OBVIOUS
<1>1. TypeInv
  BY TypeInit
<1>2. Source(file) \in Key /\ Bytes = Fresh(Initial) /\ Fresh(Initial) # Nothing
  BY KeyFacts, SMT DEF Init, Bytes
<1>3. Source(file) # Nothing
  BY KeyFacts, Zenon DEF Init
<1>4. LiveFile
  BY <1>2, <1>3, SMT DEF Init, Bytes, LiveFile
<1>5. \A q \in Request : ~Rewriting(q) /\ request[q].pc # "mark"
  BY SMT DEF Init, Rewriting, NoRequest
<1>6. Solo /\ Marked
  BY <1>2, <1>5, SMT DEF Init, Solo, Marked
<1>. QED
  BY <1>1, <1>4, <1>6 DEF RecordInv

(* As long as no two writers met at the file, the hash of a live version   *)
(* is the hash of the bytes it names and every change marked as resolved   *)
(* is resolved in them, whatever stops, fails, is deleted or is cleaned up *)
(* on the way.                                                             *)
THEOREM RecordTrue == Spec => []RecordMatchesBytes
<1>1. Init => RecordInv
  BY RecordInit
<1>2. RecordInv /\ [Next]_vars => RecordInv'
  BY RecordStep
<1>3. RecordInv => RecordMatchesBytes
  BY Zenon DEF RecordInv, Solo, Marked, RecordMatchesBytes
<1>. QED
  BY <1>1, <1>2, <1>3, PTL DEF Spec

-----------------------------------------------------------------------------
(* Bytes that no live version names.                                       *)

OwedInv == TypeInv /\ LiveFile /\ DeadBytesOwed

(* Attempts that have a rendition to attach or to report.                  *)
Holders == {w \in Worker : worker[w].pc \in {"uploaded", "reject", "report"}}

LEMMA Hands ==
  ASSUME NEW k \in Key
  PROVE  InHand(k) <=> cleaner = k \/ (k = Rendition(Initial) /\ Holders # {})
BY SMT DEF InHand, Holders

(* Steps that create no bytes and give up no reference, row or holder.     *)
LEMMA OwedFrame ==
  ASSUME DeadBytesOwed,
         \A k \in Key : Referenced(k) => Referenced(k)',
         object' = object, owed \subseteq owed', cleaner' = cleaner,
         adrift \subseteq adrift', Holders \subseteq Holders'
  PROVE  DeadBytesOwed'
<1>1. \A k \in Key : InHand(k) => InHand(k)'
  BY SMT DEF InHand, Holders
<1>. QED
  BY <1>1, SMT DEF DeadBytesOwed

LEMMA OwedResolving ==
  ASSUME OwedInv, Resolving
  PROVE  DeadBytesOwed'
<1>1. Holders' = Holders /\ cleaner' = cleaner /\ owed \subseteq owed'
  BY SMT DEF Resolving, Read, Clear, Overwrite, Rehash, Mark, Quit, Holders
<1>2. \A k \in Key : InHand(k)' <=> InHand(k)
  BY <1>1, Hands, SMT DEF InHand, Holders
<1>3. ASSUME NEW q \in Request,
             (\E e \in Edit : Read(q, e)) \/ Rehash(q) \/ Mark(q) \/ Quit(q)
      PROVE  DeadBytesOwed'
  <2>1. /\ live' = live /\ file' = file /\ pdf' = pdf /\ object' = object
        /\ adrift' = adrift
    BY <1>3, Zenon DEF Read, Rehash, Mark, Quit, version
  <2>2. \A k \in Key : Referenced(k)' <=> Referenced(k)
    BY <2>1, Zenon DEF Referenced
  <2>. QED
    BY <1>1, <1>2, <2>1, <2>2, SMT DEF OwedInv, DeadBytesOwed
<1>4. ASSUME NEW q \in Request, Clear(q)
      PROVE  DeadBytesOwed'
  <2>1. /\ live' = live /\ file' = file /\ object' = object /\ adrift' = adrift
        /\ (pdf' = pdf \/ owed' = owed \cup Keys(pdf))
    BY <1>4, Zenon DEF Clear
  <2>2. ASSUME NEW k \in Key, ~Referenced(k)', Referenced(k)
        PROVE  k \in owed'
    BY <2>1, <2>2, KeyFacts, SMT DEF Referenced, Keys, OwedInv, TypeInv, TypeOK
  <2>. QED
    BY <1>1, <1>2, <2>1, <2>2, SMT DEF OwedInv, DeadBytesOwed
<1>5. ASSUME NEW q \in Request, Overwrite(q)
      PROVE  DeadBytesOwed'
  <2>1. \A k \in Key : Referenced(k)' <=> Referenced(k)
    BY <1>5, Zenon DEF Overwrite, Referenced, version
  <2>2. ASSUME NEW k \in Key, k # Source(request[q].file)
        PROVE  object'[k] = object[k]
    BY <1>5, <2>2, SMT DEF Overwrite, OwedInv, TypeInv, TypeOK
  <2>3. /\ adrift \subseteq adrift'
        /\ ~Referenced(Source(request[q].file)) => Source(request[q].file) \in adrift'
    BY <1>5, SMT DEF Overwrite
  <2>. QED
    BY <1>1, <1>2, <2>1, <2>2, <2>3, SMT DEF OwedInv, DeadBytesOwed
<1>. QED
  BY <1>3, <1>4, <1>5, Zenon DEF Resolving

LEMMA OwedConversion ==
  ASSUME OwedInv, Conversion
  PROVE  DeadBytesOwed'
<1>. DEFINE R == Rendition(Initial)
<1>1. /\ live' = live /\ file' = file /\ owed \subseteq owed' /\ cleaner' = cleaner
  BY SMT DEF Conversion, Abandon, Claim, ConvertFails, UploadRendition, Attach, Report,
     Fail, Die, version
<1>2. R \in Key /\ worker \in [Worker -> WorkerRow]
  BY KeyFacts, Zenon DEF OwedInv, TypeInv, TypeOK, WorkerRow
<1>3. CASE Abandon
  BY <1>3, OwedFrame, Zenon DEF Abandon, version, OwedInv, Referenced, Holders
<1>4. ASSUME NEW w \in Worker, Claim(w) \/ ConvertFails(w)
      PROVE  DeadBytesOwed'
  <2>1. /\ pdf' = pdf /\ object' = object /\ adrift' = adrift /\ owed' = owed
    BY <1>4, Zenon DEF Claim, ConvertFails, version
  <2>2. worker[w].pc \in {"idle", "converted"}
    BY <1>4, Zenon DEF Claim, ConvertFails
  <2>3. \A v \in Worker \ {w} : worker'[v] = worker[v]
    BY <1>2, <1>4, SMT DEF Claim, ConvertFails, Finish
  <2>4. Holders \subseteq Holders'
    BY <2>2, <2>3, SMT DEF Holders
  <2>5. \A k \in Key : Referenced(k) => Referenced(k)'
    BY <1>1, <2>1, Zenon DEF Referenced
  <2>. QED
    BY <1>1, <2>1, <2>4, <2>5, OwedFrame, Zenon DEF OwedInv
<1>5. ASSUME NEW w \in Worker, UploadRendition(w)
      PROVE  DeadBytesOwed'
  <2>1. /\ pdf' = pdf /\ adrift' = adrift /\ owed' = owed
        /\ \A k \in Key \ {R} : object'[k] = object[k]
    BY <1>2, <1>5, SMT DEF UploadRendition, version, OwedInv, TypeInv, TypeOK
  <2>2. InHand(R)'
    <3>1. worker'[w].pc = "uploaded"
      BY <1>2, <1>5, SMT DEF UploadRendition
    <3>. QED
      BY <3>1, Zenon DEF InHand
  <2>3. \A k \in Key \ {R} : InHand(k) => InHand(k)'
    BY <1>1, Zenon DEF InHand
  <2>4. \A k \in Key : Referenced(k)' <=> Referenced(k)
    BY <1>1, <2>1, Zenon DEF Referenced
  <2>. QED
    BY <2>1, <2>2, <2>3, <2>4, SMT DEF OwedInv, DeadBytesOwed
<1>6. ASSUME NEW w \in Worker, Attach(w)
      PROVE  DeadBytesOwed'
  <2>1. object' = object /\ owed' = owed
    BY <1>6, Zenon DEF Attach
  <2>2. \A k \in Key : Referenced(k) => Referenced(k)'
    <3>1. pdf' = pdf \/ (live /\ file = Initial /\ pdf' = R)
      BY <1>6, Zenon DEF Attach, Current
    <3>. QED
      BY <1>1, <3>1, KeyFacts, SMT DEF Referenced, OwedInv, LiveFile
  <2>3. \A k \in Key \ {R} : InHand(k) => InHand(k)'
    BY <1>1, Zenon DEF InHand
  <2>4. \A k \in Key \ {R} : k \in adrift => k \in adrift'
    BY <1>6, SMT DEF Attach
  <2>5. InHand(R)' \/ Referenced(R)'
    <3>1. CASE At(w, "reject") \/ At(w, "report")
      <4>1. worker'[w].pc \in {"reject", "report"}
        BY <3>1, AtWorker, Zenon DEF OwedInv, TypeInv, WorkerPc
      <4>. QED
        BY <4>1, SMT DEF InHand
    <3>2. CASE Current /\ pdf' = R
      BY <1>1, <3>2, Zenon DEF Current, Referenced
    <3>. QED
      BY <1>6, <3>1, <3>2, Zenon DEF Attach
  <2>. QED
    BY <2>1, <2>2, <2>3, <2>4, <2>5, SMT DEF OwedInv, DeadBytesOwed
<1>7. ASSUME NEW w \in Worker, Report(w)
      PROVE  DeadBytesOwed'
  <2>1. /\ pdf' = pdf /\ object' = object /\ R \in owed'
        /\ \A k \in Key \ {R} : k \in adrift => k \in adrift'
    BY <1>7, SMT DEF Report, version
  <2>2. \A k \in Key \ {R} : InHand(k) => InHand(k)'
    BY <1>1, Zenon DEF InHand
  <2>3. \A k \in Key : Referenced(k)' <=> Referenced(k)
    BY <1>1, <2>1, Zenon DEF Referenced
  <2>. QED
    BY <1>1, <2>1, <2>2, <2>3, SMT DEF OwedInv, DeadBytesOwed
<1>8. ASSUME NEW w \in Worker, Fail(w) \/ Die(w)
      PROVE  DeadBytesOwed'
  <2>1. /\ pdf' = pdf /\ object' = object /\ owed' = owed
        /\ adrift' = adrift \cup Dropped(w)
    BY <1>8, Zenon DEF Fail, Die, version
  <2>2. \A v \in Worker \ {w} : worker'[v] = worker[v]
    BY <1>2, <1>8, SMT DEF Fail, Throw, Die
  <2>3. \A k \in Key : InHand(k) => InHand(k)' \/ k \in adrift'
    BY <1>1, <2>1, <2>2, SMT DEF InHand, Dropped
  <2>4. \A k \in Key : Referenced(k)' <=> Referenced(k)
    BY <1>1, <2>1, Zenon DEF Referenced
  <2>. QED
    BY <2>1, <2>3, <2>4, SMT DEF OwedInv, DeadBytesOwed
<1>. QED
  BY <1>3, <1>4, <1>5, <1>6, <1>7, <1>8, Zenon DEF Conversion

LEMMA OwedOthers ==
  ASSUME OwedInv,
         Cleanup \/ Delete \/ \E f \in Replacement, c \in BOOLEAN : Replace(f, c)
  PROVE  DeadBytesOwed'
<1>1. ASSUME NEW k \in Key, Lookup(k)
      PROVE  DeadBytesOwed'
  <2>1. /\ object' = object /\ adrift' = adrift /\ worker' = worker
        /\ owed' = owed \ {k} /\ cleaner = Nothing
        /\ cleaner' = IF Referenced(k) THEN Nothing ELSE k
    BY <1>1, Zenon DEF Lookup
  <2>2. \A j \in Key : Referenced(j)' <=> Referenced(j)
    BY <1>1, Zenon DEF Lookup, Referenced, version
  <2>3. \A j \in Key : InHand(j) => InHand(j)'
    BY <2>1, KeyFacts, SMT DEF InHand
  <2>4. ~Referenced(k) => InHand(k)'
    BY <2>1, Zenon DEF InHand
  <2>. QED
    BY <2>1, <2>2, <2>3, <2>4, SMT DEF OwedInv, DeadBytesOwed
<1>2. ASSUME EraseObject
      PROVE  DeadBytesOwed'
  <2>1. /\ adrift' = adrift /\ worker' = worker /\ owed' = owed
    BY <1>2, Zenon DEF EraseObject
  <2>2. \A j \in Key : Referenced(j)' <=> Referenced(j)
    BY <1>2, Zenon DEF EraseObject, Referenced, version
  <2>3. \A j \in Key : j # cleaner =>
          /\ object'[j] = object[j]
          /\ InHand(j) => InHand(j)'
    BY <1>2, SMT DEF EraseObject, InHand, OwedInv, TypeInv, TypeOK
  <2>4. \A j \in Key : j = cleaner => object'[j] = Nothing
    BY <1>2, SMT DEF EraseObject, OwedInv, TypeInv, TypeOK
  <2>5. ASSUME NEW j \in Key, j \notin adrift', object'[j] # Nothing, ~Referenced(j)'
        PROVE  j \in owed' \/ InHand(j)'
    <3>1. j # cleaner
      BY <2>4, <2>5
    <3>2. object[j] # Nothing /\ ~Referenced(j) /\ j \notin adrift
      BY <2>1, <2>2, <2>3, <2>5, <3>1
    <3>. QED
      BY <2>1, <2>3, <3>1, <3>2, Zenon DEF OwedInv, DeadBytesOwed
  <2>. QED
    BY <2>5, SMT DEF DeadBytesOwed
<1>3. ASSUME CleanupRetry
      PROVE  DeadBytesOwed'
  <2>1. /\ object' = object /\ adrift' = adrift /\ worker' = worker
        /\ \A j \in Key : j \in owed \/ j = cleaner => j \in owed'
    BY <1>3, SMT DEF CleanupRetry
  <2>2. \A j \in Key : Referenced(j)' <=> Referenced(j)
    BY <1>3, Zenon DEF CleanupRetry, Referenced, version
  <2>3. \A j \in Key : InHand(j) => InHand(j)' \/ j = cleaner
    BY <2>1, SMT DEF InHand
  <2>. QED
    BY <2>1, <2>2, <2>3, SMT DEF OwedInv, DeadBytesOwed
<1>4. ASSUME Delete
      PROVE  DeadBytesOwed'
  <2>1. /\ object' = object /\ adrift' = adrift /\ worker' = worker
        /\ cleaner' = cleaner /\ owed' = owed \cup {Source(file)} \cup Keys(pdf)
    BY <1>4, Zenon DEF Delete
  <2>2. \A j \in Key : Referenced(j) => j \in owed'
    BY <2>1, KeyFacts, SMT DEF Referenced, Keys
  <2>3. \A j \in Key : InHand(j) => InHand(j)'
    BY <2>1, SMT DEF InHand
  <2>. QED
    BY <2>1, <2>2, <2>3, SMT DEF OwedInv, DeadBytesOwed
<1>5. ASSUME NEW f \in Replacement, NEW c \in BOOLEAN, Replace(f, c)
      PROVE  DeadBytesOwed'
  <2>1. /\ adrift' = adrift /\ worker' = worker /\ live /\ live' = live
        /\ cleaner' = cleaner /\ owed' = owed \cup {Source(file)} \cup Keys(pdf)
        /\ file' = f /\ pdf' = IF c THEN Rendition(f) ELSE Nothing
        /\ object[Rendition(f)] = Nothing
    BY <1>5, Zenon DEF Replace
  <2>2. \A j \in Key : Referenced(j) => j \in owed'
    BY <2>1, KeyFacts, SMT DEF Referenced, Keys
  <2>3. \A j \in Key : InHand(j) => InHand(j)'
    BY <2>1, SMT DEF InHand
  <2>4. \A j \in Key : ~Referenced(j)' => object'[j] = object[j]
    BY <1>5, <2>1, SMT DEF Replace, Referenced
  <2>. QED
    BY <2>1, <2>2, <2>3, <2>4, SMT DEF OwedInv, DeadBytesOwed
<1>. QED
  BY <1>1, <1>2, <1>3, <1>4, <1>5, Zenon DEF Cleanup

(* Bytes that no live version names are owed to a cleanup row or in the    *)
(* hands of an attempt that will attach or report them, unless they are    *)
(* adrift.                                                                 *)
THEOREM DeadOwed == Spec => []DeadBytesOwed
<1>1. Init => OwedInv
  <2>. SUFFICES ASSUME Init
                PROVE  OwedInv
    OBVIOUS
  <2>1. TypeInv /\ LiveFile
    BY RecordInit DEF RecordInv
  <2>2. DeadBytesOwed
    BY SMT DEF Init, DeadBytesOwed, Referenced
  <2>. QED
    BY <2>1, <2>2 DEF OwedInv
<1>2. OwedInv /\ [Next]_vars => OwedInv'
  <2>. SUFFICES ASSUME OwedInv, [Next]_vars
                PROVE  OwedInv'
    OBVIOUS
  <2>1. TypeInv' /\ LiveFile'
    BY TypeStep, LiveFileStep, Zenon DEF OwedInv
  <2>2. ASSUME UNCHANGED vars
        PROVE  DeadBytesOwed'
    BY <2>2, Zenon DEF vars, version, Referenced, InHand, DeadBytesOwed, OwedInv
  <2>3. ASSUME Next
        PROVE  DeadBytesOwed'
    BY <2>3, OwedResolving, OwedConversion, OwedOthers, Zenon DEF Next
  <2>. QED
    BY <2>1, <2>2, <2>3, Zenon DEF OwedInv
<1>3. OwedInv => DeadBytesOwed
  BY DEF OwedInv
<1>. QED
  BY <1>1, <1>2, <1>3, PTL DEF Spec

-----------------------------------------------------------------------------
(* The rendition.                                                          *)

(* Steps that leave the version and the store alone, after which no        *)
(* request or attempt is further than it was.                              *)
LEMMA RenditionFrame ==
  ASSUME RenditionInv, live' = live, file' = file, pdf' = pdf, object' = object,
         crossed' = {} => crossed = {},
         \A q \in Request :
           /\ Rewriting(q)' => Rewriting(q)
           /\ request'[q].pc \in {"cleared", "written"} =>
                request[q].pc \in {"cleared", "written"},
         \A w \in Worker : Converting(w)' => worker'[w] = worker[w]
  PROVE  Apart' /\ RenditionMatchesBytes'
<1>1. Bytes' = Bytes
  BY Zenon DEF Bytes
<1>2. \A w \in Worker : Converting(w)' => Converting(w)
  BY Zenon DEF Converting
<1>3. \A w \in Worker : worker'[w].pc \in {"converted", "uploaded"} => Converting(w)'
  BY Zenon DEF Converting
<1>. QED
  BY <1>1, <1>2, <1>3, SMT DEF RenditionInv, Apart, RenditionMatchesBytes

LEMMA RenditionResolving ==
  ASSUME RenditionInv, Resolving
  PROVE  Apart' /\ RenditionMatchesBytes'
<1>1. /\ live' = live /\ file' = file /\ worker' = worker
      /\ \A w \in Worker : Converting(w)' <=> Converting(w)
  BY Zenon DEF Resolving, Read, Clear, Overwrite, Rehash, Mark, Quit, version, Converting
<1>2. request \in [Request -> RequestRow]
  BY Zenon DEF RenditionInv, RecordInv, TypeInv, TypeOK, RequestRow
<1>3. ASSUME NEW q \in Request, NEW e \in Edit, Read(q, e)
      PROVE  Apart' /\ RenditionMatchesBytes'
  <2>1. pdf' = pdf /\ object' = object /\ Bytes' = Bytes
    BY <1>3, Zenon DEF Read, version, Bytes
  <2>2. \A p \in Request \ {q} : request'[p] = request[p]
    BY <1>2, <1>3, SMT DEF Read
  <2>3. CASE e \in object[Source(file)].resolved
    <3>1. request'[q] = Marking(e) /\ crossed' = crossed
      BY <1>2, <1>3, <2>3, SMT DEF Read
    <3>2. request'[q].pc = "mark"
      BY <3>1, MarkingRow
    <3>3. \A p \in Request :
            /\ Rewriting(p)' => Rewriting(p)
            /\ request'[p].pc \in {"cleared", "written"} =>
                 request[p].pc \in {"cleared", "written"}
      BY <2>2, <3>2, SMT DEF Rewriting
    <3>. QED
      BY <1>1, <2>1, <3>1, <3>3, RenditionFrame
  <2>4. CASE e \notin object[Source(file)].resolved
    <3>. DEFINE r == [pc |-> "read", edit |-> e, file |-> file,
                      base |-> object[Source(file)]]
    <3>1. request'[q] = r /\ r.pc = "read"
      BY <1>2, <1>3, <2>4, SMT DEF Read
    <3>. HIDE DEF r
    <3>2. crossed' = crossed \cup Meets(Rewriters, "bytes")
                             \cup Meets(Converters, "rendition")
      BY <1>3, <2>4, Zenon DEF Read
    <3>3. crossed' = {} => crossed = {} /\ \A w \in Worker : ~Converting(w)
      BY <3>2, SMT DEF Meets, Converters
    <3>4. \A p \in Request : request'[p].pc \in {"cleared", "written"} =>
            request[p].pc \in {"cleared", "written"}
      BY <2>2, <3>1, SMT
    <3>5. Apart'
      <4>1. ASSUME live', crossed' = {}
            PROVE  \A w \in Worker : /\ ~Converting(w)'
                                     /\ worker'[w].pc \notin {"converted", "uploaded"}
        BY <1>1, <3>3, <4>1, Zenon DEF Converting
      <4>. QED
        BY <1>1, <2>1, <3>3, <3>4, <4>1, SMT DEF RenditionInv, Apart
    <3>6. RenditionMatchesBytes'
      BY <1>1, <2>1, <3>3, SMT DEF RenditionInv, RenditionMatchesBytes
    <3>. QED
      BY <3>5, <3>6
  <2>. QED
    BY <2>3, <2>4
<1>4. ASSUME NEW q \in Request, Clear(q)
      PROVE  Apart' /\ RenditionMatchesBytes'
  <2>1. /\ request'[q].pc = "cleared"
        /\ \A p \in Request \ {q} : request'[p] = request[p]
    BY <1>4, GotoRequest, Zenon DEF Clear, RenditionInv, RecordInv, TypeInv, RequestPc
  <2>2. \A p \in Request : Rewriting(p)' => Rewriting(p)
    BY <1>4, <2>1, SMT DEF Clear, Rewriting
  <2>3. /\ object' = object /\ Bytes' = Bytes /\ crossed' = crossed
        /\ (live => pdf' = Nothing)
    BY <1>4, Zenon DEF Clear, Bytes
  <2>. QED
    BY <1>1, <2>2, <2>3, SMT DEF RenditionInv, Apart, RenditionMatchesBytes
<1>5. ASSUME NEW q \in Request, Overwrite(q)
      PROVE  Apart' /\ RenditionMatchesBytes'
  <2>1. /\ request'[q].pc = "written"
        /\ \A p \in Request \ {q} : request'[p] = request[p]
    BY <1>5, GotoRequest, Zenon DEF Overwrite, RenditionInv, RecordInv, TypeInv, RequestPc
  <2>2. Rewriting(q) /\ request[q].pc = "cleared"
    BY <1>5, Zenon DEF Overwrite, Rewriting
  <2>3. pdf' = pdf /\ crossed' = crossed
    BY <1>5, Zenon DEF Overwrite, version
  <2>4. ASSUME live, crossed = {}
        PROVE  /\ pdf = Nothing
               /\ \A w \in Worker : /\ ~Converting(w)
                                    /\ worker[w].pc \notin {"converted", "uploaded"}
    <3>1. pdf = Nothing
      BY <2>2, <2>4, SMT DEF RenditionInv, Apart
    <3>2. \A w \in Worker : ~Converting(w)
      BY <2>2, <2>4, Zenon DEF RenditionInv, Apart
    <3>. QED
      BY <3>1, <3>2, Zenon DEF Converting
  <2>. QED
    BY <1>1, <2>3, <2>4, SMT DEF Apart, RenditionMatchesBytes
<1>6. ASSUME NEW q \in Request, Rehash(q) \/ Mark(q) \/ Quit(q)
      PROVE  Apart' /\ RenditionMatchesBytes'
  <2>1. /\ pdf' = pdf /\ object' = object /\ crossed' = crossed
        /\ \A p \in Request \ {q} : request'[p] = request[p]
    BY <1>2, <1>6, SMT DEF Rehash, Mark, Quit, version
  <2>2. request'[q].pc \in {"mark", "idle"}
    <3>1. CASE Rehash(q)
      <4>1. request[q].edit \in Edit
        BY <3>1, SMT DEF Rehash, Rewriting, RenditionInv, RecordInv, TypeInv, Holdings
      <4>2. request'[q] = Marking(request[q].edit)
        BY <1>2, <3>1, SMT DEF Rehash
      <4>. QED
        BY <4>1, <4>2, MarkingRow
    <3>2. CASE Mark(q) \/ Quit(q)
      <4>1. request'[q] = NoRequest
        BY <1>2, <3>2, SMT DEF Mark, Quit
      <4>. QED
        BY <4>1, NoRequestRow
    <3>. QED
      BY <1>6, <3>1, <3>2
  <2>3. \A p \in Request :
          /\ Rewriting(p)' => Rewriting(p)
          /\ request'[p].pc \in {"cleared", "written"} =>
               request[p].pc \in {"cleared", "written"}
    BY <2>1, <2>2, SMT DEF Rewriting
  <2>. QED
    BY <1>1, <2>1, <2>3, RenditionFrame
<1>. QED
  BY <1>3, <1>4, <1>5, <1>6, Zenon DEF Resolving

LEMMA RenditionConversion ==
  ASSUME RenditionInv, Conversion
  PROVE  Apart' /\ RenditionMatchesBytes'
<1>. DEFINE R == Rendition(Initial)
<1>1. /\ live' = live /\ file' = file /\ request' = request
      /\ \A q \in Request : Rewriting(q)' <=> Rewriting(q)
  BY Zenon DEF Conversion, Abandon, Claim, ConvertFails, UploadRendition, Attach, Report,
     Fail, Die, version, Rewriting
<1>2. /\ R \in Key /\ Source(file) \in Key /\ Source(file) # R
      /\ worker \in [Worker -> WorkerRow]
      /\ object \in [Key -> Content \cup {Nothing}]
  BY KeyFacts, Zenon DEF RenditionInv, RecordInv, TypeInv, TypeOK, WorkerRow
<1>3. \A w \in Worker : Converting(w) <=> worker[w].pc \in {"converted", "uploaded"}
  BY Zenon DEF Converting
<1>4. \A w \in Worker : Converting(w)' <=> worker'[w].pc \in {"converted", "uploaded"}
  BY Zenon DEF Converting
<1>5. CASE Abandon
  BY <1>1, <1>5, RenditionFrame, Zenon DEF Abandon, version
<1>6. ASSUME NEW w \in Worker, Claim(w)
      PROVE  Apart' /\ RenditionMatchesBytes'
  <2>1. pdf' = pdf /\ object' = object /\ Bytes' = Bytes
    BY <1>1, <1>6, Zenon DEF Claim, version, Bytes
  <2>2. CASE object[Source(Initial)] = Nothing
    <3>1. worker' = worker /\ crossed' = crossed
      BY <1>6, <2>2, Zenon DEF Claim
    <3>. QED
      BY <1>1, <2>1, <3>1, RenditionFrame, Zenon
  <2>3. CASE object[Source(Initial)] # Nothing
    <3>. DEFINE r == [pc |-> "converted", held |-> object[Source(Initial)]]
    <3>1. /\ worker'[w] = r /\ r.pc = "converted" /\ r.held = object[Source(Initial)]
          /\ \A v \in Worker \ {w} : worker'[v] = worker[v]
      BY <1>2, <1>6, <2>3, SMT DEF Claim
    <3>. HIDE DEF r
    <3>2. crossed' = {} => crossed = {} /\ \A q \in Request : ~Rewriting(q)
      <4>1. crossed' = crossed \cup Meets(Rewriters, "rendition")
        BY <1>6, <2>3, Zenon DEF Claim
      <4>. QED
        BY <4>1, SMT DEF Meets, Rewriters
    <3>3. Apart'
      <4>1. file = Initial => Bytes = object[Source(Initial)]
        BY Zenon DEF Bytes
      <4>. QED
        BY <1>1, <2>1, <3>1, <3>2, <4>1, SMT DEF RenditionInv, Apart
    <3>4. RenditionMatchesBytes'
      BY <1>1, <2>1, <3>2, SMT DEF RenditionInv, RenditionMatchesBytes
    <3>. QED
      BY <3>3, <3>4
  <2>. QED
    BY <2>2, <2>3
<1>7. ASSUME NEW w \in Worker, UploadRendition(w)
      PROVE  Apart' /\ RenditionMatchesBytes'
  <2>1. pdf' = pdf /\ crossed' = crossed
    BY <1>7, Zenon DEF UploadRendition, version
  <2>2. /\ object'[R] = worker[w].held /\ worker[w].pc = "converted"
        /\ \A k \in Key \ {R} : object'[k] = object[k]
    BY <1>2, <1>7, SMT DEF UploadRendition
  <2>3. /\ worker'[w].pc = "uploaded"
        /\ \A v \in Worker \ {w} : worker'[v] = worker[v]
    BY <1>2, <1>7, SMT DEF UploadRendition
  <2>4. Bytes' = Bytes
    BY <1>1, <1>2, <2>2, Zenon DEF Bytes
  <2>5. \A v \in Worker : Converting(v)' <=> Converting(v)
    BY <1>3, <1>4, <2>2, <2>3, SMT
  <2>6. ASSUME live, crossed = {}, file = Initial
        PROVE  object'[R] = Bytes
    BY <2>2, <2>6, SMT DEF RenditionInv, Apart
  <2>7. Apart'
    BY <1>1, <2>1, <2>2, <2>3, <2>4, <2>5, <2>6, SMT DEF RenditionInv, Apart
  <2>8. RenditionMatchesBytes'
    <3>1. ASSUME live, pdf # Nothing
          PROVE  pdf = Rendition(file) /\ pdf \in Key /\ (pdf = R => file = Initial)
      BY <3>1, KeyFacts, SMT DEF RenditionInv, RecordInv, LiveFile, TypeInv, TypeOK
    <3>. QED
      BY <1>1, <2>1, <2>2, <2>4, <2>6, <3>1, SMT DEF RenditionInv, RenditionMatchesBytes
  <2>. QED
    BY <2>7, <2>8
<1>8. ASSUME NEW w \in Worker, Attach(w)
      PROVE  Apart' /\ RenditionMatchesBytes'
  <2>1. object' = object /\ crossed' = crossed /\ Bytes' = Bytes
    BY <1>1, <1>8, Zenon DEF Attach, Bytes
  <2>2. worker[w].pc = "uploaded" /\ Converting(w)
    BY <1>8, Zenon DEF Attach, Converting
  <2>3. /\ worker'[w].pc \notin {"converted", "uploaded"}
        /\ \A v \in Worker \ {w} : worker'[v] = worker[v]
    <3>1. CASE Finish(w)
      <4>1. worker' = [worker EXCEPT ![w] = NoRun]
        BY <3>1 DEF Finish
      <4>. QED
        BY <1>2, <4>1, NoRunRow, SMT
    <3>2. CASE At(w, "reject") \/ At(w, "report")
      BY <3>2, AtWorker, SMT DEF WorkerPc, RenditionInv, RecordInv, TypeInv
    <3>. QED
      BY <1>8, <3>1, <3>2, Zenon DEF Attach
  <2>4. \A v \in Worker : Converting(v)' => worker'[v] = worker[v]
    BY <1>4, <2>3, Zenon
  <2>5. CASE pdf' = pdf
    BY <1>1, <2>1, <2>4, <2>5, RenditionFrame, Zenon
  <2>6. CASE Current /\ pdf' = R
    <3>1. ASSUME live, crossed = {}
          PROVE  object[R] \in {Nothing, Bytes}
      BY <2>2, <2>6, <3>1, SMT DEF Current, RenditionInv, Apart
    <3>2. ASSUME live, crossed = {}
          PROVE  \A q \in Request : /\ ~Rewriting(q)
                                    /\ request[q].pc \notin {"cleared", "written"}
      BY <2>2, <3>2, Zenon DEF RenditionInv, Apart, Rewriting
    <3>3. Apart'
      BY <1>1, <2>1, <2>3, <3>2, SMT DEF RenditionInv, Apart
    <3>4. RenditionMatchesBytes'
      BY <1>1, <2>1, <2>6, <3>1, SMT DEF RenditionMatchesBytes
    <3>. QED
      BY <3>3, <3>4
  <2>. QED
    BY <1>8, <2>5, <2>6, Zenon DEF Attach
<1>9. ASSUME NEW w \in Worker, ConvertFails(w) \/ Report(w) \/ Fail(w) \/ Die(w)
      PROVE  Apart' /\ RenditionMatchesBytes'
  <2>1. /\ pdf' = pdf /\ object' = object /\ crossed' = crossed
        /\ worker' = [worker EXCEPT ![w] = NoRun]
    BY <1>9, Zenon DEF ConvertFails, Report, Fail, Die, Finish, Throw, version
  <2>2. \A v \in Worker : Converting(v)' => worker'[v] = worker[v]
    BY <1>2, <1>4, <2>1, NoRunRow, SMT
  <2>. QED
    BY <1>1, <2>1, <2>2, RenditionFrame, Zenon
<1>. QED
  BY <1>5, <1>6, <1>7, <1>8, <1>9, Zenon DEF Conversion

LEMMA RenditionOthers ==
  ASSUME RenditionInv,
         Cleanup \/ Delete \/ \E f \in Replacement, c \in BOOLEAN : Replace(f, c)
  PROVE  Apart' /\ RenditionMatchesBytes'
<1>1. /\ request' = request /\ worker' = worker
      /\ \A q \in Request : Rewriting(q)' <=> Rewriting(q)
      /\ \A w \in Worker : Converting(w)' <=> Converting(w)
  BY Zenon DEF Cleanup, Lookup, EraseObject, CleanupRetry, Delete, Replace, Rewriting,
     Converting
<1>2. ASSUME (\E k \in Key : Lookup(k)) \/ CleanupRetry
      PROVE  Apart' /\ RenditionMatchesBytes'
  <2>1. /\ live' = live /\ file' = file /\ pdf' = pdf /\ object' = object
        /\ crossed' = crossed
    BY <1>2, Zenon DEF Lookup, CleanupRetry, version
  <2>. QED
    BY <1>1, <2>1, RenditionFrame, Zenon
<1>3. ASSUME EraseObject
      PROVE  Apart' /\ RenditionMatchesBytes'
  <2>1. /\ live' = live /\ file' = file /\ pdf' = pdf /\ crossed' = crossed
    BY <1>3, Zenon DEF EraseObject, version
  <2>2. \A k \in Key : object'[k] \in {object[k], Nothing}
    BY <1>3, SMT DEF EraseObject, RenditionInv, RecordInv, TypeInv, TypeOK
  <2>3. ASSUME live
        PROVE  Bytes' = Bytes
    <3>1. Source(file) # cleaner /\ Source(file) \in Key
      BY <2>3, KeyFacts, Zenon DEF RenditionInv, RecordInv, LiveFile, TypeInv, TypeOK
    <3>2. object'[Source(file)] = object[Source(file)]
      BY <1>3, <3>1, SMT DEF EraseObject, RenditionInv, RecordInv, TypeInv, TypeOK
    <3>. QED
      BY <2>1, <3>2, Zenon DEF Bytes
  <2>4. Rendition(Initial) \in Key /\ pdf \in Key \cup {Nothing}
    BY KeyFacts, Zenon DEF RenditionInv, RecordInv, TypeInv, TypeOK
  <2>5. Apart'
    BY <1>1, <2>1, <2>2, <2>3, <2>4, SMT DEF RenditionInv, Apart
  <2>6. RenditionMatchesBytes'
    BY <2>1, <2>2, <2>3, <2>4, SMT DEF RenditionInv, RenditionMatchesBytes
  <2>. QED
    BY <2>5, <2>6
<1>4. ASSUME Delete
      PROVE  Apart' /\ RenditionMatchesBytes'
  BY <1>4, Zenon DEF Delete, Apart, RenditionMatchesBytes
<1>5. ASSUME NEW f \in Replacement, NEW c \in BOOLEAN, Replace(f, c)
      PROVE  Apart' /\ RenditionMatchesBytes'
  <2>1. /\ f \in File /\ f # Initial /\ file' = f
        /\ pdf' = IF c THEN Rendition(f) ELSE Nothing
    BY <1>5, ConstAssumption, Zenon DEF Replace, File
  <2>2. Bytes' = Fresh(f) /\ (c => object'[Rendition(f)] = Fresh(f))
    BY <1>5, <2>1, KeyFacts, SMT DEF Replace, Bytes
  <2>3. ASSUME crossed' = {}
        PROVE  \A q \in Request : /\ ~Rewriting(q)
                                  /\ request[q].pc \notin {"cleared", "written"}
    BY <1>5, <2>3, SMT DEF Replace, Meets, Rewriters, Rewriting
  <2>4. Apart'
    BY <1>1, <2>1, <2>3, SMT DEF Apart
  <2>5. RenditionMatchesBytes'
    BY <2>1, <2>2, SMT DEF RenditionMatchesBytes
  <2>. QED
    BY <2>4, <2>5
<1>. QED
  BY <1>2, <1>3, <1>4, <1>5, Zenon DEF Cleanup

(* As long as no rewrite crossed the reading or the publishing of a        *)
(* conversion, the rendition a live version names is that of its bytes: a  *)
(* conversion that ends after a replacement attaches nothing, and none     *)
(* outlives a rewrite.                                                     *)
THEOREM RenditionTrue == Spec => []RenditionMatchesBytes
<1>1. Init => RenditionInv
  <2>. SUFFICES ASSUME Init
                PROVE  RenditionInv
    OBVIOUS
  <2>1. RecordInv
    BY RecordInit
  <2>2. /\ \A q \in Request : ~Rewriting(q) /\ request[q].pc = "idle"
        /\ \A w \in Worker : worker[w].pc = "idle"
    BY SMT DEF Init, Rewriting, NoRequest, NoRun
  <2>3. Apart
    BY <2>2, SMT DEF Apart
  <2>4. RenditionMatchesBytes
    BY Zenon DEF Init, RenditionMatchesBytes
  <2>. QED
    BY <2>1, <2>3, <2>4 DEF RenditionInv
<1>2. RenditionInv /\ [Next]_vars => RenditionInv'
  <2>. SUFFICES ASSUME RenditionInv, [Next]_vars
                PROVE  RenditionInv'
    OBVIOUS
  <2>1. RecordInv'
    BY RecordStep, Zenon DEF RenditionInv
  <2>2. ASSUME UNCHANGED vars
        PROVE  Apart' /\ RenditionMatchesBytes'
    BY <2>2, RenditionFrame, Zenon DEF vars, version, Rewriting, Converting
  <2>3. ASSUME Next
        PROVE  Apart' /\ RenditionMatchesBytes'
    BY <2>3, RenditionResolving, RenditionConversion, RenditionOthers, Zenon DEF Next
  <2>. QED
    BY <2>1, <2>2, <2>3, Zenon DEF RenditionInv
<1>3. RenditionInv => RenditionMatchesBytes
  BY DEF RenditionInv
<1>. QED
  BY <1>1, <1>2, <1>3, PTL DEF Spec
=============================================================================
