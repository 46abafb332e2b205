--------------------------- MODULE GenerationLease ---------------------------
(***************************************************************************)
(* The generation lease of one tabular review and the cells it protects.   *)
(*                                                                         *)
(* Three requests write cells: generate, regenerate-cell and clear-cells.  *)
(* Each takes the lease of the review first.  Without the queue the request *)
(* extracts inline and releases the lease itself.  With the queue it hands *)
(* the lease over: jobs extract, and the job that finds no cell stamped    *)
(* with its generation releases the lease.  The lease lapses when nobody   *)
(* renews it for 300 s; then a later request, the jobs of the earlier one  *)
(* and the sweep of stale cells all work on the same cells, kept apart     *)
(* only by the generation stamp that cell updates are guarded with.        *)
(*                                                                         *)
(* Generations are numbered in the order in which their leases begin.      *)
(* Columns and rows of the review do not change, and every cell exists.    *)
(* Jobs follow the Postgres driver (JobQueue); backoff is left to the      *)
(* choice of when a pending job is claimed.                                *)
(***************************************************************************)
EXTENDS Integers, FiniteSets

CONSTANTS
  Row, Column,     \* tabular_review_rows, and the columns of the review
  AllColumns,      \* the column of a job that extracts a whole row
  Kinds,           \* which requests clients make
  Sweeping,        \* whether the sweep, every 10 minutes, comes at all
  MaxGen,          \* bound: requests that obtain the lease
  MaxTries,        \* maxAttempts of extraction.extract
  PromptRequests,  \* TRUE: the lease of a request does not lapse between its
                   \* begin and its first write of cells
  MaxFaults        \* bound: crashes, hangs, failed calls and model failures

ASSUME ConstAssumption ==
  /\ AllColumns \notin Column
  /\ Kinds \subseteq {"generate", "regenerate", "clear"}
  /\ Sweeping \in BOOLEAN
  /\ MaxGen \in Nat
  /\ MaxTries \in Nat \ {0}
  /\ PromptRequests \in BOOLEAN
  /\ MaxFaults \in Nat

VARIABLES
  async,    \* ASYNC_TABULAR_EXTRACTION, fixed for a deployment
  lease,    \* active_generation_id, and whether generation_lease_expires_at > now()
  cells,    \* tabular_cells
  requests, \* the requests that hold or have held the lease
  jobs,     \* the live db_jobs row of each dedupe key
  execs,    \* row extractions under way, in workers or inline in a request
  sweep,    \* progress of sweepStaleGeneratingCells
  faults

vars == <<async, lease, cells, requests, jobs, execs, sweep, faults>>

Gen   == 1..MaxGen
NoGen == 0            \* a null generation_id, and the author of no content
Cell  == Row \X Column
JobKey == Row \X (Column \cup {AllColumns})   \* extractionJobId

KeyCells(k) == {c \in Cell : c[1] = k[1] /\ k[2] \in {AllColumns, c[2]}}

CellRow == [status : {"pending", "generating", "done", "error"},
            content : Gen \cup {NoGen},    \* which generation's result it is
            stamp : Gen \cup {NoGen}]      \* generation_id

Request == [kind : {"generate", "regenerate", "clear"},
            pc : {"none", "begun", "loaded", "queue", "undo", "inline", "handed",
                  "finish", "over"},
            target : SUBSET Cell,    \* the cells it stamps or blanks
            todo : SUBSET JobKey,    \* jobs it has yet to enqueue
            queued : BOOLEAN,        \* some enqueue succeeded
            wrote : BOOLEAN,         \* it has stamped or blanked its cells
            aborted : BOOLEAN]

Job == [gen : Gen \cup {NoGen}, status : {"none", "pending", "running"},
        tries : 0..MaxTries, canceled : BOOLEAN]

Exec == [key : JobKey, gen : Gen, try : 0..MaxTries,   \* 0: inline
         canceled : BOOLEAN,
         pc : {"start", "mark", "ask", "flip", "clear", "idle", "release",
               "settle", "hook"},
         want : SUBSET Cell,     \* the outstanding cells it found
         left : SUBSET Cell,     \* those the present stage has yet to treat
         outcome : {"none", "done", "retry", "spent", "hooked"}]

Sweep == [pc : {"rest", "lease", "look", "flip", "release"},
          todo : SUBSET (Cell \X (Gen \cup {NoGen})),   \* cells with stamps as read
          at : SUBSET (Cell \X (Gen \cup {NoGen})),     \* the one in hand
          touched : SUBSET Gen,    \* generations with flipped cells
          idle : Gen \cup {NoGen}] \* one of them that was found idle

TypeOK ==
  /\ async \in BOOLEAN
  /\ lease \in [holder : Gen \cup {NoGen}, live : BOOLEAN]
  /\ cells \in [Cell -> CellRow]
  /\ requests \in [Gen -> Request]
  /\ jobs \in [JobKey -> Job]
  /\ execs \subseteq Exec
  /\ sweep \in Sweep
  /\ faults \in 0..MaxFaults

NoLease == [holder |-> NoGen, live |-> FALSE]
NoJob   == [gen |-> NoGen, status |-> "none", tries |-> 0, canceled |-> FALSE]
AtRest  == [pc |-> "rest", todo |-> {}, at |-> {}, touched |-> {},
            idle |-> NoGen]

Cleared(status, g) == [status |-> status, content |-> NoGen, stamp |-> g]

Init ==
  /\ async \in BOOLEAN
  /\ lease = NoLease
  /\ cells = [c \in Cell |-> Cleared("pending", NoGen)]
  /\ requests = [g \in Gen |->
       [kind |-> "generate", pc |-> "none", target |-> {}, todo |-> {},
        queued |-> FALSE, wrote |-> FALSE, aborted |-> FALSE]]
  /\ jobs = [k \in JobKey |-> NoJob]
  /\ execs = {}
  /\ sweep = AtRest
  /\ faults = 0

Fault   == faults < MaxFaults /\ faults' = faults + 1
NoFault == UNCHANGED faults

-----------------------------------------------------------------------------
(* Cells and lease: the statements every part uses.                        *)

Done(c) == cells[c].status = "done" /\ cells[c].content # NoGen

(* An update guarded by generation_id = g: the cells S that match.         *)
Owned(S, g) == {c \in S : cells[c].stamp = g}
Put(S, value) == cells' = [c \in Cell |-> IF c \in S THEN value ELSE cells[c]]

Unstamp(S) ==
  cells' = [c \in Cell |-> IF c \in S THEN [cells[c] EXCEPT !.stamp = NoGen]
                                     ELSE cells[c]]

Stamp(S, g) ==
  cells' = [c \in Cell |-> IF c \in S THEN [cells[c] EXCEPT !.stamp = g]
                                     ELSE cells[c]]

(* Mutation: a lease does not expire.                                      *)
LeaseNamed == lease.holder # NoGen

LeaseHeld == lease.holder # NoGen /\ lease.live

(* begin_tabular_review_generation grants the lease.                       *)
CanBegin == ~LeaseHeld

(* finish_tabular_review_generation.                                       *)
FinishLease(g) == lease' = IF lease.holder = g THEN NoLease ELSE lease

(* finishGenerationIfIdle looks for a cell that still carries the stamp.   *)
(* Mutation: it looks at spinners, and overlooks rows that wait in a queue. *)
IdleSpinners(g) == \A c \in Owned(Cell, g) : cells[c].status # "generating"

IdleGen(g) == Owned(Cell, g) = {}

-----------------------------------------------------------------------------
(* Requests up to their first write.                                       *)

Begin(g, kind, target) ==
  /\ kind \in Kinds
  /\ requests[g].pc = "none"
  /\ \A h \in 1..(g - 1) : requests[h].pc # "none"
  /\ CanBegin
  /\ lease' = [holder |-> g, live |-> TRUE]
  /\ requests' = [requests EXCEPT ![g].kind = kind, ![g].target = target,
                                  ![g].pc = "begun"]
  /\ UNCHANGED <<async, cells, jobs, execs, sweep, faults>>

BeginGenerate(g)   == Begin(g, "generate", {})
BeginRegenerate(g) == \E c \in Cell : Begin(g, "regenerate", {c})
BeginClear(g)      == \E R \in SUBSET Row \ {{}} :
                        Begin(g, "clear", {c \in Cell : c[1] \in R})

(* loadTabularGenerateWork reads the cells after the lease is claimed.     *)
Load(g) ==
  /\ requests[g].pc = "begun" /\ requests[g].kind = "generate"
  /\ LET outstanding == {c \in Cell : ~Done(c)} IN
       requests' = [requests EXCEPT
         ![g].target = outstanding,
         ![g].pc = IF outstanding = {} THEN "finish" ELSE "loaded"]
  /\ UNCHANGED <<async, lease, cells, jobs, execs, sweep, faults>>

(* The request ends before it has written cells, and releases the lease.   *)
GiveUp(g) ==
  /\ requests[g].pc \in {"begun", "loaded"}
  /\ Fault
  /\ requests' = [requests EXCEPT ![g].pc = "finish", ![g].target = {}]
  /\ UNCHANGED <<async, lease, cells, jobs, execs, sweep>>

NewExec(k, g, try, canceled) ==
  [key |-> k, gen |-> g, try |-> try, canceled |-> canceled, pc |-> "start",
   want |-> {}, left |-> {}, outcome |-> "none"]

(* claimCellsForGeneration, by the ids of the snapshot; then the rows are  *)
(* queued, or extracted inline.                                            *)
ClaimCells(g) ==
  LET r == requests[g]
      rowKeys == {<<c[1], AllColumns>> : c \in r.target} IN
  /\ r.pc = "loaded" /\ r.kind = "generate"
  /\ Stamp(r.target, g)
  /\ requests' = [requests EXCEPT
       ![g].wrote = TRUE,
       ![g].pc = IF async THEN "queue" ELSE "inline",
       ![g].todo = IF async THEN rowKeys ELSE {}]
  /\ execs' = IF async THEN execs
              ELSE execs \cup {NewExec(k, g, 0, FALSE) : k \in rowKeys}
  /\ UNCHANGED <<async, lease, jobs, sweep, faults>>

(* regenerateTabularCell stamps and blanks its cell; inline it then asks   *)
(* the model at once.                                                      *)
StampCell(g) ==
  LET r == requests[g] IN
  /\ r.pc = "begun" /\ r.kind = "regenerate"
  /\ Put(r.target, Cleared("generating", g))
  /\ requests' = [requests EXCEPT
       ![g].wrote = TRUE,
       ![g].pc = IF async THEN "queue" ELSE "inline",
       ![g].todo = IF async THEN r.target ELSE {}]
  /\ execs' = IF async THEN execs
              ELSE execs \cup {[NewExec(c, g, 0, FALSE) EXCEPT
                     !.pc = "ask", !.want = {c}, !.left = {c}] : c \in r.target}
  /\ UNCHANGED <<async, lease, jobs, sweep, faults>>

(* removeQueuedExtractionJobs: pending jobs of the rows are deleted,       *)
(* running ones are marked.  It is best effort.                            *)
CancelJobs(g) ==
  LET r == requests[g]
      hit == {k \in JobKey : KeyCells(k) \cap r.target # {}}
      canceled(k) == IF jobs[k].status = "running"
                     THEN [jobs[k] EXCEPT !.canceled = TRUE] ELSE NoJob IN
  /\ r.pc = "begun" /\ r.kind = "clear" /\ async
  /\ \/ /\ jobs' = [k \in JobKey |-> IF k \in hit THEN canceled(k) ELSE jobs[k]]
        /\ NoFault
     \/ Fault /\ UNCHANGED jobs
  /\ requests' = [requests EXCEPT ![g].pc = "loaded"]
  /\ UNCHANGED <<async, lease, cells, execs, sweep>>

(* clearTabularReviewCells blanks the cells and revokes their stamps.      *)
BlankCells(g) ==
  LET r == requests[g] IN
  /\ r.kind = "clear"
  /\ r.pc = IF async THEN "loaded" ELSE "begun"
  /\ Put(r.target, Cleared("pending", NoGen))
  /\ requests' = [requests EXCEPT ![g].wrote = TRUE, ![g].pc = "finish"]
  /\ UNCHANGED <<async, lease, jobs, execs, sweep, faults>>

-----------------------------------------------------------------------------
(* Requests from their first write to the end.                             *)

(* enqueueExtraction: a key with a live job takes no second one, and the   *)
(* caller counts that as success.                                          *)
Enqueue(g, k) ==
  LET r == requests[g]
      sent == [requests EXCEPT ![g].todo = @ \ {k}, ![g].queued = TRUE] IN
  /\ r.pc = "queue" /\ k \in r.todo
  /\ \/ /\ jobs[k].status = "none"
        /\ jobs' = [jobs EXCEPT ![k] =
             [gen |-> g, status |-> "pending", tries |-> 0, canceled |-> FALSE]]
        /\ requests' = sent
        /\ NoFault
     \/ /\ jobs[k].status # "none"
        /\ requests' = sent
        /\ NoFault /\ UNCHANGED jobs
     \/ /\ requests' = [requests EXCEPT ![g].todo = @ \ {k}]
        /\ Fault /\ UNCHANGED jobs
  /\ UNCHANGED <<async, lease, cells, execs, sweep>>

(* The lease is handed to the workers, unless nothing was queued: then a   *)
(* generate releases it, and a regenerate first fails its cell.            *)
HandOver(g) ==
  LET r == requests[g] IN
  /\ r.pc = "queue" /\ r.todo = {}
  /\ requests' = [requests EXCEPT
       ![g].queued = FALSE,
       ![g].pc = IF r.queued THEN "handed"
                 ELSE IF r.kind = "generate" THEN "finish" ELSE "undo"]
  /\ UNCHANGED <<async, lease, cells, jobs, execs, sweep, faults>>

UndoCell(g) ==
  /\ requests[g].pc = "undo"
  /\ Put(Owned(requests[g].target, g), Cleared("error", NoGen))
  /\ requests' = [requests EXCEPT ![g].pc = "finish"]
  /\ UNCHANGED <<async, lease, jobs, execs, sweep, faults>>

(* The client of an inline generate leaves, or its renewal fails.          *)
Abort(g) ==
  /\ requests[g].pc = "inline" /\ requests[g].kind = "generate"
  /\ ~requests[g].aborted
  /\ Fault
  /\ requests' = [requests EXCEPT ![g].aborted = TRUE]
  /\ UNCHANGED <<async, lease, cells, jobs, execs, sweep>>

Inline(e) == e.try = 0

InlineOver(g) ==
  /\ requests[g].pc = "inline"
  /\ ~\E e \in execs : e.gen = g
  /\ requests' = [requests EXCEPT ![g].pc = "finish", ![g].aborted = FALSE]
  /\ UNCHANGED <<async, lease, cells, jobs, execs, sweep, faults>>

(* An inline row of a generate throws before it marks a cell: Promise.all  *)
(* rejects and the request goes to its `finally', while the other rows go  *)
(* on writing, without a heartbeat and without being aborted.              *)
RowFails(g) ==
  /\ requests[g].kind = "generate" /\ ~requests[g].aborted
  /\ Fault
  /\ \E e \in execs : /\ Inline(e) /\ e.gen = g /\ e.pc = "start"
                     /\ execs' = execs \ {e}
  /\ requests' = [requests EXCEPT ![g].pc = IF @ = "inline" THEN "finish" ELSE @]
  /\ UNCHANGED <<async, lease, cells, jobs, sweep>>

(* The `finally' of the three requests.  A failed release is only logged.  *)
FinishRequest(g) ==
  /\ requests[g].pc = "finish"
  /\ \/ FinishLease(g) /\ NoFault
     \/ Fault /\ UNCHANGED lease
  /\ requests' = [requests EXCEPT ![g].pc = "over"]
  /\ UNCHANGED <<async, cells, jobs, execs, sweep>>

(* The process that serves the request dies, with the rows it still works  *)
(* on.                                                                     *)
CrashRequest(g) ==
  LET r == requests[g] IN
  /\ \/ r.pc \notin {"none", "handed", "over"}
     \/ \E e \in execs : Inline(e) /\ e.gen = g
  /\ Fault
  /\ requests' = [requests EXCEPT
       ![g] = [r EXCEPT !.pc = "over", !.todo = {}, !.queued = FALSE,
                        !.aborted = FALSE,
                        !.target = IF r.wrote THEN r.target ELSE {}]]
  /\ execs' = {e \in execs : ~(Inline(e) /\ e.gen = g)}
  /\ UNCHANGED <<async, lease, cells, jobs, sweep>>

-----------------------------------------------------------------------------
(* The lease in time.                                                      *)

(* Who renews generation g every 60 s: a worker on one of its jobs, and    *)
(* the request until it turns to the queue.  clear-cells does not.         *)
Renews(g) ==
  \/ \E e \in execs : e.gen = g /\ ~Inline(e) /\ e.pc \in {"start", "mark", "ask"}
  \/ /\ requests[g].pc \in IF async THEN {"begun"} ELSE {"begun", "loaded", "inline"}
     /\ requests[g].kind # "clear"
     /\ ~requests[g].aborted

MayLapse ==
  /\ LeaseHeld
  /\ PromptRequests => requests[lease.holder].wrote
                       \/ requests[lease.holder].pc \notin {"begun", "loaded"}

(* 300 s without a renewal pass.                                           *)
Lapse ==
  /\ MayLapse /\ ~Renews(lease.holder)
  /\ lease' = [lease EXCEPT !.live = FALSE]
  /\ UNCHANGED <<async, cells, requests, jobs, execs, sweep, faults>>

(* They pass although a process should have renewed: it hangs.             *)
LapseHung ==
  /\ MayLapse /\ Renews(lease.holder)
  /\ Fault
  /\ lease' = [lease EXCEPT !.live = FALSE]
  /\ UNCHANGED <<async, cells, requests, jobs, execs, sweep>>

(* renew_tabular_review_generation, which also revives a lapsed lease.     *)
Renew ==
  /\ lease.holder # NoGen /\ ~lease.live
  /\ Renews(lease.holder)
  /\ lease' = [lease EXCEPT !.live = TRUE]
  /\ UNCHANGED <<async, cells, requests, jobs, execs, sweep, faults>>

-----------------------------------------------------------------------------
(* Jobs and their claims.                                                  *)

StartJob(k) ==
  LET j == [jobs[k] EXCEPT !.status = "running", !.tries = @ + 1] IN
  /\ jobs' = [jobs EXCEPT ![k] = j]
  /\ execs' = execs \cup {NewExec(k, j.gen, j.tries, j.canceled)}

Claim(k) ==
  /\ jobs[k].status = "pending"
  /\ StartJob(k)
  /\ UNCHANGED <<async, lease, cells, requests, sweep, faults>>

Current(e) ==
  LET j == jobs[e.key] IN
  ~Inline(e) /\ j.status = "running" /\ j.gen = e.gen /\ j.tries = e.try

Attended(k) == \E e \in execs : e.key = k /\ Current(e)

(* A running job whose worker died is claimed again after 600 s while its  *)
(* budget lasts; after that it is failed, without its hook.                *)
Reclaim(k) ==
  /\ jobs[k].status = "running" /\ ~Attended(k)
  /\ \/ jobs[k].tries < MaxTries /\ StartJob(k)
     \/ /\ jobs[k].tries >= MaxTries
        /\ jobs' = [jobs EXCEPT ![k] = NoJob]
        /\ UNCHANGED execs
  /\ UNCHANGED <<async, lease, cells, requests, sweep, faults>>

(* The worker only hangs, and goes on later; its last attempt is failed    *)
(* like that of a dead one.                                                *)
ReclaimHung(k) ==
  /\ jobs[k].status = "running" /\ Attended(k)
  /\ Fault
  /\ \/ jobs[k].tries < MaxTries /\ StartJob(k)
     \/ /\ jobs[k].tries >= MaxTries
        /\ jobs' = [jobs EXCEPT ![k] = NoJob]
        /\ UNCHANGED execs
  /\ UNCHANGED <<async, lease, cells, requests, sweep>>

CrashWorker(e) ==
  /\ ~Inline(e)
  /\ Fault
  /\ execs' = execs \ {e}
  /\ UNCHANGED <<async, lease, cells, requests, jobs, sweep>>

-----------------------------------------------------------------------------
(* runExtractionJob and extractRowColumns.                                 *)

Become(e, f) == execs' = (execs \ {e}) \cup {f}
End(e) == execs' = execs \ {e}

Leaving(e, pc, outcome) ==
  [e EXCEPT !.pc = pc, !.want = {}, !.left = {}, !.canceled = FALSE,
            !.outcome = outcome]
(* Mutation: a job that has nothing left to do is handed back.             *)
HandedBack(e) == Leaving(e, "clear", "retry")

Settled(e) == Leaving(e, "clear", "done")
Throwing(e) == Leaving(e, "idle", IF e.try < MaxTries THEN "retry" ELSE "spent")

(* A worker reads the cells now; an inline run uses the snapshot of the    *)
(* request.  Inline, an abort leaves the row as it was found.              *)
Start(e) ==
  LET found == IF Inline(e) THEN KeyCells(e.key) \cap requests[e.gen].target
               ELSE {c \in KeyCells(e.key) : ~Done(c)} IN
  /\ e.pc = "start"
  /\ \/ /\ Inline(e) /\ requests[e.gen].aborted
        /\ End(e)
     \/ /\ ~Inline(e) /\ (e.canceled \/ found = {})
        /\ Become(e, Settled(e))
     \/ /\ IF Inline(e) THEN ~requests[e.gen].aborted ELSE ~e.canceled
        /\ found # {}
        /\ Become(e, [e EXCEPT !.pc = "mark", !.want = found, !.left = found])
  /\ UNCHANGED <<async, lease, cells, requests, jobs, sweep, faults>>

(* Mutation: the update goes by the id of the cell alone.                  *)
AnyHolder(c, g) == {c}

(* The cells an extraction marks, and those it writes a result to.         *)
Markable(c, g) == Owned({c}, g)
Writable(c, g) == Owned({c}, g)

Mark(e) ==
  /\ e.pc = "mark"
  /\ \E c \in e.left :
       /\ Put(Markable(c, e.gen), Cleared("generating", e.gen))
       /\ IF e.left = {c} THEN Become(e, [e EXCEPT !.pc = "ask", !.left = e.want])
          ELSE Become(e, [e EXCEPT !.left = @ \ {c}])
  /\ UNCHANGED <<async, lease, requests, jobs, sweep, faults>>

(* The model returns one column.                                           *)
Answer(e) ==
  /\ e.pc = "ask"
  /\ \E c \in e.left :
       /\ Put(Writable(c, e.gen),
              [status |-> "done", content |-> e.gen, stamp |-> NoGen])
       /\ Become(e, [e EXCEPT !.left = @ \ {c}])
  /\ UNCHANGED <<async, lease, requests, jobs, sweep, faults>>

(* The answer ends.  Missing columns make a worker throw; an inline run    *)
(* finalizes them.                                                         *)
EndAnswer(e) ==
  /\ e.pc = "ask"
  /\ \/ e.left = {} /\ NoFault
     \/ /\ e.left # {}
        /\ IF Inline(e) /\ requests[e.gen].aborted THEN NoFault ELSE Fault
  /\ IF Inline(e) THEN Become(e, [e EXCEPT !.pc = "flip", !.want = {}])
     ELSE Become(e, IF e.left = {} THEN Settled(e) ELSE Throwing(e))
  /\ UNCHANGED <<async, lease, cells, requests, jobs, sweep>>

(* The model or the documents of the row cannot be used.  (Inline this is  *)
(* RowFails.)                                                              *)
Throw(e) ==
  /\ e.pc = "start" /\ ~Inline(e) /\ ~e.canceled
  /\ Fault
  /\ Become(e, Throwing(e))
  /\ UNCHANGED <<async, lease, cells, requests, jobs, sweep>>

(* finalizeCell, one cell at a time: missing columns of an inline run, and *)
(* the unfinished cells of a job that has failed for good.                 *)
Flip(e) ==
  LET status == IF Inline(e) /\ requests[e.gen].aborted THEN "pending" ELSE "error" IN
  /\ e.pc = "flip"
  /\ \/ \E c \in e.left :
          /\ Put(Owned({c}, e.gen), Cleared(status, NoGen))
          /\ Become(e, [e EXCEPT !.left = @ \ {c}])
     \/ /\ e.left = {}
        /\ IF Inline(e) THEN End(e) ELSE Become(e, [e EXCEPT !.pc = "clear"])
        /\ UNCHANGED cells
  /\ UNCHANGED <<async, lease, requests, jobs, sweep, faults>>

(* clearRowGenerationStamp.                                                *)
ClearStamps(e) ==
  /\ e.pc = "clear"
  /\ Unstamp(Owned(KeyCells(e.key), e.gen))
  /\ Become(e, [e EXCEPT !.pc = "idle"])
  /\ UNCHANGED <<async, lease, requests, jobs, sweep, faults>>

AfterRelease(e) ==
  IF e.outcome = "hooked" THEN End(e) ELSE Become(e, [e EXCEPT !.pc = "settle"])

(* finishGenerationIfIdle reads, then releases.                            *)
CheckIdle(e) ==
  /\ e.pc = "idle"
  /\ IF IdleGen(e.gen) THEN Become(e, [e EXCEPT !.pc = "release"]) ELSE AfterRelease(e)
  /\ UNCHANGED <<async, lease, cells, requests, jobs, sweep, faults>>

Release(e) ==
  /\ e.pc = "release"
  /\ FinishLease(e.gen)
  /\ AfterRelease(e)
  /\ UNCHANGED <<async, cells, requests, jobs, sweep, faults>>

(* processClaimedJob: the fenced update, then the hook of a spent job.     *)
Settle(e) ==
  /\ e.pc = "settle"
  /\ jobs' = IF ~Current(e) THEN jobs
             ELSE [jobs EXCEPT ![e.key] =
                     IF e.outcome = "retry" THEN [@ EXCEPT !.status = "pending"]
                                            ELSE NoJob]
  /\ IF e.outcome = "spent"
     THEN Become(e, [e EXCEPT !.pc = "hook", !.outcome = "hooked"])
     ELSE End(e)
  /\ UNCHANGED <<async, lease, cells, requests, sweep, faults>>

(* markExtractionFailed reads the row and keeps the cells it still owns.   *)
Hook(e) ==
  /\ e.pc = "hook"
  /\ Become(e, [e EXCEPT !.pc = "flip",
       !.left = {c \in Owned(KeyCells(e.key), e.gen) : ~Done(c)}])
  /\ UNCHANGED <<async, lease, cells, requests, jobs, sweep, faults>>

-----------------------------------------------------------------------------
(* sweepStaleGeneratingCells: one pass, cell by cell.                      *)

LiveJob(k) == jobs[k].status # "none"

SweepRead ==
  LET stale == {c \in Cell : cells[c].status = "generating"} IN
  /\ Sweeping /\ async /\ sweep.pc = "rest" /\ stale # {}
  /\ sweep' = [sweep EXCEPT !.pc = "lease",
                            !.todo = {<<c, cells[c].stamp>> : c \in stale}]
  /\ UNCHANGED <<async, lease, cells, requests, jobs, execs, faults>>

(* hasActiveGenerationLease, looked up once for the review.                *)
SweepLease ==
  /\ sweep.pc = "lease"
  /\ sweep' = IF LeaseHeld THEN AtRest ELSE [sweep EXCEPT !.pc = "look"]
  /\ UNCHANGED <<async, lease, cells, requests, jobs, execs, faults>>

(* Is there a job for the next cell or its row?  (The two lookups are one  *)
(* step, and the one for the row is not cached.)                           *)
SweepLook ==
  /\ sweep.pc = "look"
  /\ \E i \in sweep.todo :
       LET row == <<i[1][1], AllColumns>> IN
       sweep' = IF LiveJob(row) \/ LiveJob(i[1])
                THEN [sweep EXCEPT !.todo = @ \ {i}]
                ELSE [sweep EXCEPT !.pc = "flip", !.todo = @ \ {i}, !.at = {i}]
  /\ UNCHANGED <<async, lease, cells, requests, jobs, execs, faults>>

(* finalizeCell: guarded by the stamp that was read, if there was one.  A  *)
(* canceled job can leave a cell "generating" without a stamp; such a cell *)
(* is overwritten whatever has become of it since it was read.             *)
Swept(c, g) == IF g = NoGen THEN {c} ELSE Owned({c}, g)

SweepFlip ==
  /\ sweep.pc = "flip"
  /\ \E i \in sweep.at :
       /\ Put(Swept(i[1], i[2]), Cleared("error", NoGen))
       /\ sweep' = [sweep EXCEPT !.pc = "look", !.at = {},
                                 !.touched = @ \cup ({i[2]} \ {NoGen})]
  /\ UNCHANGED <<async, lease, requests, jobs, execs, faults>>

(* The generations of flipped cells, finished one by one.                  *)
SweepIdle ==
  /\ sweep.pc = "look" /\ sweep.todo = {}
  /\ \/ sweep.touched = {} /\ sweep' = AtRest
     \/ \E g \in sweep.touched :
          sweep' = IF IdleGen(g)
                   THEN [sweep EXCEPT !.pc = "release", !.idle = g]
                   ELSE [sweep EXCEPT !.touched = @ \ {g}]
  /\ UNCHANGED <<async, lease, cells, requests, jobs, execs, faults>>

SweepRelease ==
  /\ sweep.pc = "release"
  /\ FinishLease(sweep.idle)
  /\ sweep' = [sweep EXCEPT !.pc = "look", !.touched = @ \ {sweep.idle},
                            !.idle = NoGen]
  /\ UNCHANGED <<async, cells, requests, jobs, execs, faults>>

-----------------------------------------------------------------------------
RequestStep(g) ==
  \/ Load(g) \/ ClaimCells(g) \/ StampCell(g) \/ CancelJobs(g) \/ BlankCells(g)
  \/ \E k \in JobKey : Enqueue(g, k)
  \/ HandOver(g) \/ UndoCell(g) \/ InlineOver(g) \/ FinishRequest(g)

ExecStep(e) ==
  \/ Start(e) \/ Mark(e) \/ Answer(e) \/ EndAnswer(e) \/ Flip(e)
  \/ ClearStamps(e) \/ CheckIdle(e) \/ Release(e) \/ Settle(e) \/ Hook(e)

SweepStep ==
  \/ SweepRead \/ SweepLease \/ SweepLook \/ SweepFlip
  \/ SweepIdle \/ SweepRelease

Next ==
  \/ \E g \in Gen : \/ BeginGenerate(g) \/ BeginRegenerate(g) \/ BeginClear(g)
                    \/ RequestStep(g) \/ GiveUp(g) \/ Abort(g) \/ RowFails(g)
                    \/ CrashRequest(g)
  \/ Lapse \/ LapseHung \/ Renew
  \/ \E k \in JobKey : Claim(k) \/ Reclaim(k) \/ ReclaimHung(k)
  \/ \E e \in execs : ExecStep(e) \/ Throw(e) \/ CrashWorker(e)
  \/ SweepStep

Spec == Init /\ [][Next]_vars

(* Requests and claimed jobs go on, pending jobs are polled for, claims of *)
(* dead workers go stale, time passes, and the sweep is on a timer.  No    *)
(* request has to come, and no process has to hang or fail.                *)
Fairness ==
  /\ \A g \in Gen : WF_vars(RequestStep(g))
  /\ \A k \in JobKey : WF_vars(Claim(k)) /\ WF_vars(Reclaim(k))
  /\ \A k \in JobKey, g \in Gen, try \in 0..MaxTries :
       WF_vars(\E e \in execs : e.key = k /\ e.gen = g /\ e.try = try /\ ExecStep(e))
  /\ WF_vars(Lapse)
  /\ WF_vars(SweepStep)

FairSpec == Spec /\ Fairness

-----------------------------------------------------------------------------
(* Properties.                                                             *)

(* A result enters a cell only if no later request has stamped or blanked  *)
(* that cell: a superseded run, its retries and its zombies never write    *)
(* over the winner, and never refill a cell the user cleared.              *)
OnlyLatestWrites ==
  [][\A c \in Cell :
       cells'[c].content \notin {cells[c].content, NoGen} =>
         \A g \in Gen : requests[g].wrote /\ c \in requests[g].target
                          => cells'[c].content >= g]_vars

(* With the queue, requests and jobs take the result of a finished cell    *)
(* away only where a request asks for that: regenerate-cell or clear-cells *)
(* on this cell.  (For the sweep this does not hold, see Swept.)           *)
FinishedCellsKept ==
  [][async /\ UNCHANGED sweep => \A c \in Cell :
       Done(c) /\ cells'[c].content = NoGen =>
         \E g \in Gen : /\ requests[g].kind \in {"regenerate", "clear"}
                        /\ c \in requests[g].target
                        /\ ~requests[g].wrote /\ requests'[g].wrote]_vars

(* Once it is handed to the workers, the lease of a generation is released *)
(* only when no cell carries the stamp any more, whoever looks last.       *)
LeaseOutlastsWork ==
  [][\A g \in Gen :
       requests[g].pc = "handed" /\ lease.holder = g /\ lease'.holder = NoGen
         => \A c \in Cell : cells[c].stamp # g]_vars

(* With the queue no cell shows "generating" for ever.                     *)
NoEternalSpinner ==
  \A c \in Cell :
    async /\ cells[c].status = "generating" ~> cells[c].status # "generating"

(* tabular.shared.ts: the cells of a queued row "stay stamped until a      *)
(* worker finishes them".  So what a generation stamped and handed to the  *)
(* queue is finished some time, by it or by a successor.                   *)
HandedRunEnds ==
  \A g \in Gen :
    requests[g].pc = "handed" ~> \A c \in Cell : cells[c].stamp = g => Done(c)
=============================================================================
