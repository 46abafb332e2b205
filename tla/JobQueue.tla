------------------------------ MODULE JobQueue ------------------------------
(***************************************************************************)
(* The durable background-job queue of the backend: the db_jobs table, the *)
(* SQL claim functions, the poll loop (lib/dbq/runner.ts), the BullMQ      *)
(* delivery path that only carries row ids (lib/queue/appJobsQueue.ts,     *)
(* workers/appJobsWorker.ts) and the retention sweep.                      *)
(*                                                                         *)
(* Time is abstracted to what the guards read: `due' is run_at <= now(),   *)
(* `stale' is claimed_at < now() - 600 s.  `claimed_at' itself is a        *)
(* coarse clock value: a stale reclaim is strictly later than the claim it *)
(* replaces, a claim of a pending row may even share its timestamp.        *)
(***************************************************************************)
EXTENDS Integers, FiniteSets

CONSTANTS
  Job,          \* ids of the db_jobs rows that are ever inserted
  Runner,       \* processes that run the poll loop and the delivery worker
  LegacyRunner, \* processes of an older release, which reject unknown kinds
  Handles,      \* Handles[r]: the rows whose kind has a handler in r's build
  CleanupJob,   \* rows of the kinds storage.cleanup and document.cleanup
  HookedJob,    \* rows of kinds with a failure hook in DB_JOB_FAILURE_HOOKS
  RefusableJob, \* rows whose handler may throw NonRetryableJobError
  DeferringJob, \* rows whose handler may throw DbJobDeferredError
  Key, NoKey,   \* dedupe keys, and the null key
  KeyOf,        \* KeyOf[j]: the dedupe key the row is inserted with
  CancelKey,    \* keys clear-cells passes to cancel_db_jobs
  MaxAttempts,  \* MaxAttempts[j]: the retry budget the row is inserted with
  ClaimBatch,   \* CLAIM_BATCH: rows one poll tick claims at most
  RedisEnabled, \* TRUE when BullMQ delivers row ids
  NoRunner,     \* no process
  MaxFaults     \* bound on what the environment may do wrong

MaxInt == 2147483647   \* the budget of the retry-until-success kinds

ASSUME ConstAssumption ==
  /\ LegacyRunner \subseteq Runner
  /\ Handles \in [Runner -> SUBSET Job]
  /\ CleanupJob \subseteq Job
  /\ HookedJob \subseteq Job \ CleanupJob
  /\ RefusableJob \subseteq Job \ (CleanupJob \cup HookedJob)
  /\ DeferringJob \subseteq Job
  /\ NoKey \notin Key
  /\ KeyOf \in [Job -> Key \cup {NoKey}]
  /\ \A j \in CleanupJob : KeyOf[j] = NoKey
  /\ CancelKey \subseteq Key
  /\ MaxAttempts \in [Job -> 1..MaxInt]
  /\ ClaimBatch \in Nat \ {0}
  /\ RedisEnabled \in BOOLEAN
  /\ NoRunner \notin Runner
  /\ MaxFaults \in Nat

VARIABLES
  rows,        \* the db_jobs table
  claims,      \* claims in flight: one per job object a process works on
  deliveries,  \* the BullMQ app-jobs queue, keyed by (job, n)
  ran,         \* rows whose handler has applied its effect at least once
  hooked,      \* rows whose failure hook has run
  faults       \* how many environment faults have been spent

vars == <<rows, claims, deliveries, ran, hooked, faults>>

Status == {"absent", "pending", "running", "done", "failed", "deleted"}
Live   == {"pending", "running"}

Row == [status : Status, attempts : 0..MaxInt, max_attempts : 1..MaxInt,
        due : BOOLEAN, stale : BOOLEAN, claimed_at : Nat,
        canceled : BOOLEAN, dedupe_key : Key \cup {NoKey}]

Poll == -1   \* `via' of a claim the poll loop made; otherwise the delivery's n

PreSettle == {"handler", "settle"}
Outcome   == {"none", "done", "retry", "defer", "spent", "unknown"}

Claim == [job : Job, runner : Runner, via : {Poll} \cup Nat,
          attempts : 0..MaxInt, max_attempts : 1..MaxInt, claimed_at : Nat,
          canceled : BOOLEAN,
          pc : PreSettle \cup {"hook", "redeliver"}, outcome : Outcome]

Delivery == [job : Job, n : Nat, holder : Runner \cup {NoRunner}]

TypeOK ==
  /\ rows \in [Job -> Row]
  /\ claims \subseteq Claim
  /\ deliveries \subseteq Delivery
  /\ ran \subseteq Job
  /\ hooked \subseteq Job
  /\ faults \in Nat

(* A row as it is inserted; `absent' before that.                          *)
Fresh(j, status, due) ==
  [status |-> status, attempts |-> 0, max_attempts |-> MaxAttempts[j],
   due |-> due, stale |-> FALSE, claimed_at |-> 0, canceled |-> FALSE,
   dedupe_key |-> KeyOf[j]]

Init ==
  /\ rows = [j \in Job |-> Fresh(j, "absent", FALSE)]
  /\ claims = {}
  /\ deliveries = {}
  /\ ran = {}
  /\ hooked = {}
  /\ faults = 0

Fault == faults < MaxFaults /\ faults' = faults + 1

-----------------------------------------------------------------------------
(* Enqueue, cancel and delivery requests: lib/dbq/enqueue.ts, SQL cancel.  *)

(* BullMQ's add() is a no-op while a job with the same id exists.          *)
WithDelivery(D, j, n) ==
  IF \E d \in D : d.job = j /\ d.n = n
  THEN D
  ELSE D \cup {[job |-> j, n |-> n, holder |-> NoRunner]}

(* A delivery is best effort: it is added, or Redis fails and it is not.   *)
MayDeliver(D, j, n) ==
  IF RedisEnabled THEN deliveries' \in {D, WithDelivery(D, j, n)}
                  ELSE deliveries' = D

(* Mutation: the partial index covers pending rows only.                   *)
LiveKeyPendingOnly(k) ==
  \E j \in Job : rows[j].status = "pending" /\ rows[j].dedupe_key = k

LiveKey(k) ==
  \E j \in Job : rows[j].status \in Live /\ rows[j].dedupe_key = k

(* enqueueDbJob: db_jobs_dedupe_live_idx refuses a second live row of a    *)
(* key (the caller then reports the live one: no state changes).           *)
Enqueue(j) ==
  /\ rows[j].status = "absent"
  /\ KeyOf[j] # NoKey => ~LiveKey(KeyOf[j])
  /\ \E due \in BOOLEAN :
       rows' = [rows EXCEPT ![j] = Fresh(j, "pending", due)]
  /\ MayDeliver(deliveries, j, 0)
  /\ UNCHANGED <<claims, ran, hooked, faults>>

(* requestDocumentCleanupDelivery: hand pending cleanup rows to BullMQ.    *)
RequestCleanupDelivery(j) ==
  /\ RedisEnabled
  /\ j \in CleanupJob
  /\ rows[j].status = "pending"
  /\ deliveries' = WithDelivery(deliveries, j, 0)
  /\ UNCHANGED <<rows, claims, ran, hooked, faults>>

(* cancel_db_jobs: pending rows of the key are deleted, running rows get   *)
(* the persisted payload.canceled flag.                                    *)
Cancel(k) ==
  /\ k \in CancelKey
  /\ LiveKey(k)
  /\ LET hit(s) == {j \in Job : rows[j].dedupe_key = k /\ rows[j].status = s}
     IN rows' = [j \in Job |->
          IF j \in hit("pending") THEN [rows[j] EXCEPT !.status = "deleted"]
          ELSE IF j \in hit("running") THEN [rows[j] EXCEPT !.canceled = TRUE]
          ELSE rows[j]]
  /\ UNCHANGED <<claims, deliveries, ran, hooked, faults>>

-----------------------------------------------------------------------------
(* Claiming: claim_db_jobs (batch) and claim_db_job (one id).              *)

(* Mutation: the stale branch forgets the attempt budget.                  *)
ClaimableNoBudget(j) ==
  LET r == rows[j] IN
  \/ r.status = "pending" /\ r.due
  \/ r.status = "failed" /\ j \in CleanupJob /\ r.due
  \/ r.status = "running" /\ r.stale

(* Mutation: no recovery of rows whose worker died.                        *)
ClaimableNoStale(j) ==
  LET r == rows[j] IN
  \/ r.status = "pending" /\ r.due
  \/ r.status = "failed" /\ j \in CleanupJob /\ r.due

(* Mutation: a failed cleanup intent is not revived.                       *)
ClaimableNoRevival(j) ==
  LET r == rows[j] IN
  \/ r.status = "pending" /\ r.due
  \/ /\ r.status = "running" /\ r.stale
     /\ r.attempts < r.max_attempts \/ j \in CleanupJob

Claimable(j) ==
  LET r == rows[j] IN
  \/ r.status = "pending" /\ r.due
  \/ r.status = "failed" /\ j \in CleanupJob /\ r.due
  \/ /\ r.status = "running" /\ r.stale
     /\ r.attempts < r.max_attempts \/ j \in CleanupJob

(* The `abandoned' CTE: a spent row whose worker died fails terminally.    *)
Abandoned(j) ==
  /\ rows[j].status = "running" /\ rows[j].stale
  /\ rows[j].attempts >= rows[j].max_attempts
  /\ j \notin CleanupJob

(* The row as a claim at clock value t leaves it.  Reviving a failed row   *)
(* pushes its run_at forward and drops its dedupe key.                     *)
Claimed(j, t) ==
  LET r == rows[j]
      revived == r.status = "failed"
      cleanup == j \in CleanupJob
  IN [status       |-> "running",
      attempts     |-> IF cleanup /\ r.attempts = MaxInt THEN MaxInt
                                                        ELSE r.attempts + 1,
      max_attempts |-> IF cleanup THEN MaxInt ELSE r.max_attempts,
      due          |-> IF revived THEN FALSE ELSE r.due,
      stale        |-> FALSE,
      claimed_at   |-> t,
      canceled     |-> r.canceled,
      dedupe_key   |-> IF revived THEN NoKey ELSE r.dedupe_key]

(* The clock value of a claim: a stale reclaim is strictly later.          *)
ClaimTime(j, same) ==
  IF j \in same /\ rows[j].status # "running" THEN rows[j].claimed_at
                                              ELSE rows[j].claimed_at + 1

(* Mutation: the payload is taken from the enqueue, not from the row.      *)
ClaimOfStalePayload(r, j, via, t) ==
  [job |-> j, runner |-> r, via |-> via,
   attempts |-> Claimed(j, t).attempts,
   max_attempts |-> Claimed(j, t).max_attempts,
   claimed_at |-> t, canceled |-> FALSE,
   pc |-> "handler", outcome |-> "none"]

(* The job object the claim statement returns to process r.                *)
ClaimOf(r, j, via, t) ==
  [job |-> j, runner |-> r, via |-> via,
   attempts |-> Claimed(j, t).attempts,
   max_attempts |-> Claimed(j, t).max_attempts,
   claimed_at |-> t, canceled |-> rows[j].canceled,
   pc |-> "handler", outcome |-> "none"]

(* A rolling deployment ends: an older process claims only while the       *)
(* environment still has faults to spend.                                  *)
Deployed(r) == r \in LegacyRunner => faults < MaxFaults

(* runDbJobTick: ticks of one process never overlap (inFlight); one tick   *)
(* fails the abandoned rows and claims at most ClaimBatch candidates.      *)
Tick(r) ==
  LET candidates == {j \in Job : Claimable(j)} IN
  /\ Deployed(r)
  /\ \A c \in claims : ~(c.runner = r /\ c.via = Poll)
  /\ \E j \in Job : Claimable(j) \/ Abandoned(j)
  /\ \E S \in SUBSET candidates :
       /\ S # candidates => Cardinality(S) = ClaimBatch
       /\ Cardinality(S) <= ClaimBatch
       /\ \E same \in SUBSET S :
            /\ rows' = [j \in Job |->
                 IF j \in S THEN Claimed(j, ClaimTime(j, same))
                 ELSE IF Abandoned(j) THEN [rows[j] EXCEPT !.status = "failed"]
                 ELSE rows[j]]
            /\ claims' = claims \cup
                 {ClaimOf(r, j, Poll, ClaimTime(j, same)) : j \in S}
  /\ UNCHANGED <<deliveries, ran, hooked, faults>>

(* runAppJobDelivery: claim the delivered id; a row that is taken,         *)
(* finished or not yet due matches nothing and the delivery completes.     *)
Deliver(r, d) ==
  /\ d.holder = NoRunner /\ Deployed(r)
  /\ \/ /\ Claimable(d.job)
        /\ \E same \in SUBSET {d.job} :
             LET t == ClaimTime(d.job, same) IN
             /\ rows' = [rows EXCEPT ![d.job] = Claimed(d.job, t)]
             /\ claims' = claims \cup {ClaimOf(r, d.job, d.n, t)}
        /\ deliveries' = (deliveries \ {d}) \cup {[d EXCEPT !.holder = r]}
     \/ /\ ~Claimable(d.job)
        /\ deliveries' = deliveries \ {d}
        /\ UNCHANGED <<rows, claims>>
  /\ UNCHANGED <<ran, hooked, faults>>

-----------------------------------------------------------------------------
(* Running one claimed job: processClaimedJob.                             *)

Advance(c, d) == claims' = (claims \ {c}) \cup {d}

(* The handler of claim c is over, with outcome o yet to be recorded.      *)
Ended(c, o) ==
  Advance(c, [job |-> c.job, runner |-> c.runner, via |-> c.via,
              attempts |-> c.attempts, max_attempts |-> c.max_attempts,
              claimed_at |-> c.claimed_at, canceled |-> c.canceled,
              pc |-> "settle", outcome |-> o])

(* The handler's effect; a canceled claim returns without applying it.     *)
Applied(c) == IF c.canceled THEN ran ELSE ran \cup {c.job}

HandlerReturns(c) ==
  /\ c.pc = "handler" /\ c.job \in Handles[c.runner]
  /\ Ended(c, "done")
  /\ ran' = Applied(c)
  /\ UNCHANGED <<rows, deliveries, hooked, faults>>

(* Mutation: the last attempt is taken for one too many.                   *)
SpentEarly(c) ==
  c.attempts + 1 >= c.max_attempts /\ c.job \notin CleanupJob

(* The retry budget is used up; cleanup kinds have none.                   *)
Spent(c) == c.attempts >= c.max_attempts /\ c.job \notin CleanupJob

(* A transient failure, before or after the effect was applied.  Also the  *)
(* cleanup kind this build has no handler for.                             *)
HandlerThrows(c) ==
  /\ c.pc = "handler"
  /\ c.job \in Handles[c.runner] \/ c.job \in CleanupJob
  /\ c.runner \in LegacyRunner => c.job \in Handles[c.runner]
  /\ Ended(c, IF Spent(c) THEN "spent" ELSE "retry")
  /\ ran' \in {ran} \cup
        {IF c.job \in Handles[c.runner] THEN Applied(c) ELSE ran}
  /\ Fault
  /\ UNCHANGED <<rows, deliveries, hooked>>

HandlerRefuses(c) ==
  /\ c.pc = "handler" /\ c.job \in Handles[c.runner] \cap RefusableJob
  /\ Ended(c, "spent")
  /\ UNCHANGED <<rows, deliveries, ran, hooked, faults>>

HandlerDefers(c) ==
  /\ c.pc = "handler" /\ c.job \in Handles[c.runner] \cap DeferringJob
  /\ Ended(c, "defer")
  /\ Fault
  /\ UNCHANGED <<rows, deliveries, ran, hooked>>

(* An unknown kind fails at once.  Cleanup kinds are exempt in this        *)
(* release; a process of an older one rejects them too.                    *)
RejectUnknown(c) ==
  /\ c.pc = "handler" /\ c.job \notin Handles[c.runner]
  /\ c.job \in CleanupJob => c.runner \in LegacyRunner
  /\ IF c.job \in CleanupJob /\ faults < MaxFaults THEN Fault
                                                   ELSE UNCHANGED faults
  /\ Ended(c, "unknown")
  /\ UNCHANGED <<rows, deliveries, ran, hooked>>

(* Mutation: the update is addressed to the row id alone.                  *)
FenceIdOnly(c) == rows[c.job].status # "deleted"

(* Mutation: the fence checks the claim but not the attempt and timestamp. *)
FenceNoToken(c) == rows[c.job].status = "running"

(* FENCING TOKEN: a write lands only on the row as this claim left it.     *)
Fence(c) ==
  /\ rows[c.job].status = "running"
  /\ rows[c.job].attempts = c.attempts
  /\ rows[c.job].claimed_at = c.claimed_at

(* The row of claim c back in the queue.                                   *)
Requeued(c, attempts, due) ==
  LET r == rows[c.job] IN
  [status |-> "pending", attempts |-> attempts,
   max_attempts |-> IF c.job \in CleanupJob THEN MaxInt ELSE r.max_attempts,
   due |-> due, stale |-> FALSE, claimed_at |-> r.claimed_at,
   canceled |-> r.canceled, dedupe_key |-> r.dedupe_key]

(* Mutation: a deferral refunds two attempts.                              *)
RefundTwice(c) == c.attempts - 2

(* A deferral costs no attempt.                                            *)
Refund(c) == IF c.attempts > 0 THEN c.attempts - 1 ELSE 0

(* What the settling update of claim c writes.  A retry waits for its      *)
(* backoff, a deferral until a time of its own choice.                     *)
Settled(c) ==
  \/ /\ c.outcome = "done"
     /\ rows' = [rows EXCEPT ![c.job].status = "done"]
  \/ /\ c.outcome \in {"spent", "unknown"}
     /\ rows' = [rows EXCEPT ![c.job].status = "failed"]
  \/ /\ c.outcome = "retry"
     /\ rows' = [rows EXCEPT ![c.job] =
                    Requeued(c, rows[c.job].attempts, FALSE)]
  \/ /\ c.outcome = "defer"
     /\ \E due \in BOOLEAN :
          rows' = [rows EXCEPT ![c.job] = Requeued(c, Refund(c), due)]

(* Claim c is over: its process forgets it and its delivery completes.     *)
Finished(c, D) ==
  /\ claims' = claims \ {c}
  /\ deliveries' = D \ {[job |-> c.job, n |-> c.via, holder |-> c.runner]}

Hooked(c) == c.outcome = "spent" /\ c.job \in HookedJob
Redelivered(c) == c.outcome \in {"retry", "defer"} /\ RedisEnabled

(* What follows the settling update, whether or not it matched the row.    *)
AfterSettle(c) ==
  \/ /\ Hooked(c)
     /\ Advance(c, [c EXCEPT !.pc = "hook"])
     /\ UNCHANGED deliveries
  \/ /\ Redelivered(c)
     /\ Advance(c, [c EXCEPT !.pc = "redeliver"])
     /\ UNCHANGED deliveries
  \/ /\ ~Hooked(c) /\ ~Redelivered(c)
     /\ Finished(c, deliveries)

(* The fenced update; an error it returns is not looked at (Fault).        *)
Settle(c) ==
  /\ c.pc = "settle"
  /\ \/ Fence(c) /\ Settled(c) /\ UNCHANGED faults
     \/ ~Fence(c) /\ UNCHANGED <<rows, faults>>
     \/ Fence(c) /\ Fault /\ UNCHANGED rows
  /\ AfterSettle(c)
  /\ UNCHANGED <<ran, hooked>>

RunHook(c) ==
  /\ c.pc = "hook"
  /\ hooked' = hooked \cup {c.job}
  /\ Finished(c, deliveries)
  /\ UNCHANGED <<rows, ran, faults>>

(* The retry's delivery is added while this one is still active.           *)
Redeliver(c) ==
  /\ c.pc = "redeliver"
  /\ \E D \in {deliveries, WithDelivery(deliveries, c.job, c.attempts)} :
       Finished(c, D)
  /\ UNCHANGED <<rows, ran, hooked, faults>>

ClaimStep(c) ==
  \/ HandlerReturns(c) \/ HandlerThrows(c) \/ HandlerRefuses(c)
  \/ HandlerDefers(c) \/ RejectUnknown(c)
  \/ Settle(c) \/ RunHook(c) \/ Redeliver(c)

-----------------------------------------------------------------------------
(* Time, faults and retention.                                             *)

BackoffElapses(j) ==
  /\ rows[j].status \in {"pending", "failed"} /\ ~rows[j].due
  /\ rows' = [rows EXCEPT ![j].due = TRUE]
  /\ UNCHANGED <<claims, deliveries, ran, hooked, faults>>

HeldLive(j) == \E c \in claims : c.job = j /\ c.pc \in PreSettle /\ Fence(c)

(* 600 s pass: the claim of a dead process, or of one that hangs, is stale *)
(* from then on.                                                           *)
GoesStale(j) ==
  /\ rows[j].status = "running" /\ ~rows[j].stale
  /\ rows' = [rows EXCEPT ![j].stale = TRUE]
  /\ UNCHANGED <<claims, deliveries, ran, hooked>>

DeadClaimGoesStale(j) == ~HeldLive(j) /\ GoesStale(j) /\ UNCHANGED faults
HungClaimGoesStale(j) == HeldLive(j) /\ GoesStale(j) /\ Fault

(* A process dies and restarts: its claims vanish, BullMQ re-queues the    *)
(* stalled deliveries or, past maxStalledCount, drops them.                *)
Crash(r) ==
  /\ \E c \in claims : c.runner = r
  /\ claims' = {c \in claims : c.runner # r}
  /\ \E lost \in SUBSET {d \in deliveries : d.holder = r} :
       deliveries' = {d \in deliveries : d.holder # r} \cup
         {[d EXCEPT !.holder = NoRunner] :
            d \in {e \in deliveries : e.holder = r} \ lost}
  /\ Fault
  /\ UNCHANGED <<rows, ran, hooked>>

(* Redis loses a waiting delivery, or takes a live worker for stalled.     *)
DeliveryFault(d) ==
  /\ \/ d.holder = NoRunner /\ deliveries' = deliveries \ {d}
     \/ /\ d.holder # NoRunner
        /\ deliveries' = (deliveries \ {d}) \cup {[d EXCEPT !.holder = NoRunner]}
  /\ Fault
  /\ UNCHANGED <<rows, claims, ran, hooked>>

(* Mutation: the failed purge does not spare the cleanup kinds.            *)
ExpiredAnyFailed(j) == rows[j].status \in {"done", "failed"}

(* runDbJobRetentionSweep, step 2: old finished rows, never a failed       *)
(* cleanup intent.                                                         *)
Expired(j) ==
  \/ rows[j].status = "done"
  \/ rows[j].status = "failed" /\ j \notin CleanupJob

Sweep(j) ==
  /\ Expired(j)
  /\ rows' = [rows EXCEPT ![j].status = "deleted"]
  /\ UNCHANGED <<claims, deliveries, ran, hooked, faults>>

-----------------------------------------------------------------------------

Next ==
  \/ \E j \in Job : \/ Enqueue(j) \/ RequestCleanupDelivery(j)
                     \/ BackoffElapses(j) \/ Sweep(j)
                     \/ DeadClaimGoesStale(j) \/ HungClaimGoesStale(j)
  \/ \E k \in Key : Cancel(k)
  \/ \E r \in Runner : \/ Tick(r) \/ Crash(r)
                        \/ \E d \in deliveries : Deliver(r, d)
  \/ \E c \in claims : ClaimStep(c)
  \/ \E d \in deliveries : DeliveryFault(d)

Spec == Init /\ [][Next]_vars

(* Processes keep polling, a started handler and its update end, and time  *)
(* passes.  Nothing is assumed of enqueues, Redis, faults or retention.    *)
Fairness ==
  /\ \A r \in Runner : WF_vars(Tick(r))
  /\ \A j \in Job :
       /\ WF_vars(\E c \in claims : c.job = j /\ ClaimStep(c))
       /\ WF_vars(BackoffElapses(j))
       /\ WF_vars(DeadClaimGoesStale(j))

FairSpec == Spec /\ Fairness

-----------------------------------------------------------------------------
(* Properties.                                                             *)

(* The fence of processClaimedJob names one claim: however many processes  *)
(* still hold a row, at most one of them can settle it.                    *)
SingleFinalizer ==
  \A c, d \in claims :
    /\ c.job = d.job /\ c.pc \in PreSettle /\ d.pc \in PreSettle
    /\ Fence(c) /\ Fence(d)
    => c = d

(* A row of finite budget that some claim can still reach has an attempt   *)
(* left, whatever crashes, reclaims and refunded deferrals happened.       *)
AttemptBudget ==
  \A j \in Job \ CleanupJob :
    /\ rows[j].attempts <= rows[j].max_attempts
    /\ rows[j].status \in {"absent", "pending"} =>
         rows[j].attempts < rows[j].max_attempts

(* The failure hook runs even when the fence was lost; it may: its row can *)
(* never be claimed again, so no later run contradicts the error it marks. *)
HookMeansOver ==
  \A c \in claims : c.pc = "hook" =>
    \/ rows[c.job].status \in {"failed", "deleted"}
    \/ /\ rows[c.job].status = "running"
       /\ rows[c.job].attempts >= rows[c.job].max_attempts

(* db_jobs_dedupe_live_idx: at most one live row of a dedupe key, through  *)
(* retries, reclaims and the revival of failed rows.                       *)
OneLivePerKey ==
  \A i, j \in Job :
    /\ i # j /\ rows[i].status \in Live /\ rows[j].status \in Live
    /\ rows[i].dedupe_key # NoKey
    => rows[i].dedupe_key # rows[j].dedupe_key

(* No late writer brings a finished row back: done is left only by the     *)
(* retention sweep, and so is failed for every kind but cleanup.           *)
FinishedIsFinal ==
  [][\A j \in Job :
       (\/ rows[j].status = "done"
        \/ rows[j].status = "failed" /\ j \notin CleanupJob)
       => rows'[j].status \in {rows[j].status, "deleted"}]_vars

(* A cleanup row is the last pointer to an object: it leaves the table     *)
(* only after a claim of it was settled as done.                           *)
CleanupIntentKept ==
  [][\A j \in CleanupJob :
       rows[j].status \in {"pending", "running", "failed"} =>
         rows'[j].status # "deleted"]_vars

(* clear-cells: a running row that is canceled may still finish; but once  *)
(* no claim of it is in flight and its effect has not happened, no retry   *)
(* and no reclaim ever applies it.                                         *)
CancelSticks ==
  \A j \in Job :
    [](/\ rows[j].canceled /\ j \notin ran
       /\ ~\E c \in claims : c.job = j
       => [](j \notin ran))

(* Every accepted job is eventually finished: done, failed, or deleted by  *)
(* a cancellation or the retention sweep.                                  *)
JobsFinish ==
  \A j \in Job : rows[j].status = "pending" ~>
                 rows[j].status \in {"done", "failed", "deleted"}

(* A cleanup intent is eventually carried out, whichever process took it   *)
(* first.                                                                  *)
CleanupHappens ==
  \A j \in CleanupJob : rows[j].status = "pending" ~> j \in ran

-----------------------------------------------------------------------------
(* The queue implements the abstract durable-job service.                  *)

Phase(j) ==
  IF rows[j].status = "absent" THEN "none"
  ELSE IF rows[j].status \in Live THEN "owed"
  ELSE IF rows[j].status = "failed"
       THEN IF j \in CleanupJob THEN "owed" ELSE "refused"
  ELSE IF rows[j].status = "done" THEN "settled" ELSE "gone"

Durable == INSTANCE DurableJobs
  WITH Persistent <- CleanupJob,
       Revocable  <- {j \in Job : KeyOf[j] \in CancelKey},
       phase      <- [j \in Job |-> Phase(j)],
       applied    <- ran,
       revoked    <- {j \in Job : rows[j].canceled}

(* Every step of the queue is a step of DurableJobs or leaves it alone.    *)
ImplementsDurableJobs == Durable!Spec
=============================================================================
