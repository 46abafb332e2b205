---------------------- MODULE JobQueueRefinementProofs ----------------------
(***************************************************************************)
(* The queue implements the durable-job service it promises its callers,   *)
(* and a canceled job that nobody works on is never applied: for every     *)
(* instance.                                                               *)
(***************************************************************************)
EXTENDS JobQueueOutcomeProofs

-----------------------------------------------------------------------------
(* What a step may do to the rows, the claims and the applied effects.     *)

Unmoved(j) == Phase(j)' = Phase(j) /\ rows'[j].canceled = rows[j].canceled

(* A row is inserted without the flag, and loses it never.                 *)
FlagKept(j) ==
  /\ rows'[j].status = "absent" => rows[j].status = "absent"
  /\ \/ rows'[j].canceled = rows[j].canceled
     \/ rows[j].status = "absent" /\ ~rows'[j].canceled
     \/ rows[j].status = "running" /\ rows'[j].canceled

LEMMA UnmovedFlag ==
  ASSUME NEW j \in Job, Unmoved(j)
  PROVE  FlagKept(j)
<1>1. rows'[j].status = "absent" <=> Phase(j)' = "none"
  BY DEF Phase, Live
<1>2. rows[j].status = "absent" <=> Phase(j) = "none"
  BY DEF Phase, Live
<1>. QED
  BY <1>1, <1>2 DEF Unmoved, FlagKept

LEMMA SameRow ==
  ASSUME NEW j \in Job, rows'[j] = rows[j]
  PROVE  Unmoved(j)
BY DEF Unmoved, Phase

(* A claim, a requeue and the passing of time keep the promise as it is.   *)
LEMMA StillOwed ==
  ASSUME NEW j \in Job,
         rows[j].status \in Live \/ (rows[j].status = "failed" /\ j \in CleanupJob),
         rows'[j].status \in Live \/ (rows'[j].status = "failed" /\ j \in CleanupJob),
         rows'[j].canceled = rows[j].canceled
  PROVE  Unmoved(j)
BY DEF Unmoved, Phase, Live

(* No row moves.                                                           *)
LEMMA Stutters ==
  ASSUME \A j \in Job : Unmoved(j), ran' = ran
  PROVE  UNCHANGED Durable!dvars
<1>1. [j \in Job |-> Phase(j)]' = [j \in Job |-> Phase(j)]
  BY DEF Unmoved
<1>2. {j \in Job : rows[j].canceled}' = {j \in Job : rows[j].canceled}
  BY DEF Unmoved
<1>. QED
  BY <1>1, <1>2 DEF Durable!dvars

(* The rows of S move from one phase to another.                           *)
LEMMA Moves ==
  ASSUME NEW S \in SUBSET Job, NEW from, NEW to,
         \A j \in S : Phase(j) \in from /\ Phase(j)' = to,
         \A j \in Job \ S : Phase(j)' = Phase(j)
  PROVE  Durable!Move(S, from, to)
BY DEF Durable!Move

-----------------------------------------------------------------------------
(* The invariants the mapping needs.                                       *)

(* Only accepted rows are flagged; a claim made of a flagged row knows it, *)
(* and one that reports success has applied its effect or was canceled.    *)
Accounted ==
  /\ \A j \in Job : rows[j].status = "absent" => ~rows[j].canceled
  /\ \A c \in claims :
       /\ c.canceled => rows[c.job].canceled
       /\ c.outcome = "done" => c.canceled \/ c.job \in ran

RefInv == TypeInv /\ KeyOrigin /\ FenceInv /\ Accounted

Implemented == Durable!DNext \/ UNCHANGED Durable!dvars

RowFacts == \A j \in Job : FlagKept(j)

-----------------------------------------------------------------------------
(* Insertion, cancellation, retention and time.                            *)

LEMMA OneRow ==
  ASSUME TypeInv, NEW i \in Job, NEW x, rows' = [rows EXCEPT ![i] = x]
  PROVE  rows'[i] = x /\ \A j \in Job \ {i} : rows'[j] = rows[j] /\ Unmoved(j)
<1>1. rows'[i] = x /\ \A j \in Job \ {i} : rows'[j] = rows[j]
  BY Zenon DEF TypeInv, TypeOK
<1>. QED
  BY <1>1, SameRow

LEMMA ImplEnqueue ==
  ASSUME RefInv, NEW i \in Job, Enqueue(i)
  PROVE  Implemented /\ RowFacts
<1>1. rows[i].status = "absent" /\ ran' = ran
  BY Zenon DEF Enqueue
<1>2. PICK due \in BOOLEAN : rows' = [rows EXCEPT ![i] = Fresh(i, "pending", due)]
  BY Zenon DEF Enqueue
<1>3. /\ rows'[i] = Fresh(i, "pending", due)
      /\ \A j \in Job \ {i} : Unmoved(j)
  BY <1>2, OneRow DEF RefInv
<1>4. rows'[i].status = "pending" /\ ~rows'[i].canceled
  BY <1>3, SMT DEF Fresh
<1>5. ~rows[i].canceled
  BY <1>1 DEF RefInv, Accounted
<1>6. Phase(i) = "none" /\ Phase(i)' = "owed"
  BY <1>1, <1>4 DEF Phase, Live
<1>7. Durable!Move({i}, {"none"}, "owed")
  BY <1>3, <1>6, Moves DEF Unmoved
<1>8. {j \in Job : rows[j].canceled}' = {j \in Job : rows[j].canceled}
  BY <1>3, <1>4, <1>5 DEF Unmoved
<1>9. Durable!Accept(i)
  BY <1>1, <1>7, <1>8 DEF Durable!Accept
<1>10. FlagKept(i)
  BY <1>1, <1>4 DEF FlagKept
<1>. QED
  BY <1>3, <1>9, <1>10, UnmovedFlag DEF Implemented, RowFacts, Durable!DNext

(* The rows that a cancellation hits were inserted with its key.           *)
LEMMA ImplCancel ==
  ASSUME RefInv, NEW k \in Key, Cancel(k)
  PROVE  Implemented /\ RowFacts
<1>a. PICK S \in SUBSET Job :
        S = {j \in Job : rows[j].dedupe_key = k /\ rows[j].status = "pending"}
  OBVIOUS
<1>b. PICK T \in SUBSET Job :
        T = {j \in Job : rows[j].dedupe_key = k /\ rows[j].status = "running"}
  OBVIOUS
<1>0. rows \in [Job -> Row] /\ k \in CancelKey /\ k # NoKey
  BY ConstAssumption DEF RefInv, TypeInv, TypeOK, Cancel
<1>1. /\ rows' = [j \in Job |->
            IF j \in S THEN [rows[j] EXCEPT !.status = "deleted"]
            ELSE IF j \in T THEN [rows[j] EXCEPT !.canceled = TRUE]
            ELSE rows[j]]
      /\ ran' = ran
  BY <1>a, <1>b, Zenon DEF Cancel
<1>2. S \subseteq Job /\ T \subseteq Job /\ S \cap T = {}
  BY <1>a, <1>b
<1>3. S \cup T \subseteq {j \in Job : KeyOf[j] \in CancelKey}
  BY <1>0, <1>a, <1>b DEF RefInv, KeyOrigin
<1>4. \A j \in S : Phase(j) = "owed"
  BY <1>a DEF Phase, Live
<1>5. \A j \in T : Phase(j) = "owed" /\ rows[j].status = "running"
  BY <1>b DEF Phase, Live
<1>6. ASSUME NEW j \in S
      PROVE  rows'[j].status = "deleted" /\ rows'[j].canceled = rows[j].canceled
  <2>1. rows'[j] = [rows[j] EXCEPT !.status = "deleted"] /\ rows[j] \in Row
    BY <1>0, <1>1, <1>2, Zenon
  <2>. QED
    BY <2>1, SMT DEF Row
<1>7. ASSUME NEW j \in T
      PROVE  rows'[j].status = rows[j].status /\ rows'[j].canceled
  <2>1. rows'[j] = [rows[j] EXCEPT !.canceled = TRUE] /\ rows[j] \in Row
    <3>1. j \in Job /\ j \notin S
      BY <1>2
    <3>. QED
      BY <1>0, <1>1, <3>1, Zenon
  <2>. QED
    BY <2>1, SMT DEF Row
<1>8. \A j \in Job \ (S \cup T) : rows'[j] = rows[j] /\ Unmoved(j)
  <2>1. \A j \in Job \ (S \cup T) : rows'[j] = rows[j]
    BY <1>1, Zenon
  <2>. QED
    BY <2>1, SameRow
<1>9. \A j \in Job \ S : Phase(j)' = Phase(j)
  BY <1>7, <1>8 DEF Phase, Unmoved
<1>10. \A j \in S : Phase(j)' = "gone"
  BY <1>6 DEF Phase, Live
<1>11. Durable!Move(S, {"owed"}, "gone")
  BY <1>2, <1>4, <1>9, <1>10, Moves
<1>12. {j \in Job : rows[j].canceled}' = {j \in Job : rows[j].canceled} \cup T
  BY <1>2, <1>6, <1>7, <1>8 DEF Unmoved
<1>13. \A j \in T : [i \in Job |-> Phase(i)][j] = "owed"
  BY <1>2, <1>5
<1>14. Durable!Revoke(S, T)
  BY <1>1, <1>3, <1>11, <1>12, <1>13 DEF Durable!Revoke
<1>15. Implemented
  BY <1>14, Zenon DEF Implemented, Durable!DNext
<1>16. \A j \in Job : FlagKept(j)
  <2>1. \A j \in S : FlagKept(j)
    BY <1>6 DEF FlagKept
  <2>2. \A j \in T : FlagKept(j)
    BY <1>5, <1>7 DEF FlagKept
  <2>. QED
    BY <1>8, <2>1, <2>2, UnmovedFlag
<1>. QED
  BY <1>15, <1>16 DEF RowFacts

LEMMA ImplSweep ==
  ASSUME RefInv, NEW i \in Job, Sweep(i)
  PROVE  Implemented /\ RowFacts
<1>. DEFINE r == rows[i]
            x == [r EXCEPT !.status = "deleted"]
<1>1. r \in Row
  BY DEF RefInv, TypeInv, TypeOK
<1>2. rows' = [rows EXCEPT ![i] = x] /\ ran' = ran /\ Expired(i)
  BY Zenon DEF Sweep
<1>3. x.status = "deleted" /\ x.canceled = r.canceled
  BY <1>1, SMT DEF Row
<1>. HIDE DEF x
<1>4. rows'[i] = x /\ \A j \in Job \ {i} : Unmoved(j)
  BY <1>2, OneRow DEF RefInv
<1>5. Phase(i) \in {"settled", "refused"} /\ Phase(i)' = "gone"
  BY <1>2, <1>3, <1>4 DEF Phase, Live, Expired
<1>6. Durable!Move({i}, {"settled", "refused"}, "gone")
  BY <1>4, <1>5, Moves DEF Unmoved
<1>7. {j \in Job : rows[j].canceled}' = {j \in Job : rows[j].canceled}
  BY <1>3, <1>4 DEF Unmoved
<1>8. Durable!Forget(i)
  BY <1>2, <1>6, <1>7 DEF Durable!Forget
<1>9. FlagKept(i)
  BY <1>3, <1>4 DEF FlagKept
<1>. QED
  BY <1>4, <1>8, <1>9, UnmovedFlag DEF Implemented, RowFacts, Durable!DNext

LEMMA ImplStutter ==
  ASSUME \A j \in Job : Unmoved(j), ran' = ran
  PROVE  Implemented /\ RowFacts
BY Stutters, UnmovedFlag DEF Implemented, RowFacts

LEMMA ImplTime ==
  ASSUME RefInv, NEW i \in Job, BackoffElapses(i) \/ GoesStale(i)
  PROVE  Implemented /\ RowFacts
<1>. DEFINE r == rows[i]
            x == [r EXCEPT !.due = TRUE]
            y == [r EXCEPT !.stale = TRUE]
<1>1. r \in Row
  BY DEF RefInv, TypeInv, TypeOK
<1>2. /\ rows' = [rows EXCEPT ![i] = x] \/ rows' = [rows EXCEPT ![i] = y]
      /\ ran' = ran
  BY Zenon DEF BackoffElapses, GoesStale
<1>3. /\ x.status = r.status /\ x.canceled = r.canceled
      /\ y.status = r.status /\ y.canceled = r.canceled
  BY <1>1, SMT DEF Row
<1>. HIDE DEF x, y
<1>4. ASSUME NEW z, rows' = [rows EXCEPT ![i] = z], z.status = r.status,
             z.canceled = r.canceled
      PROVE  \A j \in Job : Unmoved(j)
  <2>1. rows'[i] = z /\ \A j \in Job \ {i} : Unmoved(j)
    BY <1>4, OneRow DEF RefInv
  <2>2. Unmoved(i)
    BY <1>4, <2>1 DEF Unmoved, Phase
  <2>. QED
    BY <2>1, <2>2
<1>. QED
  BY <1>2, <1>3, <1>4, ImplStutter

-----------------------------------------------------------------------------
(* Claims, outcomes and handlers.                                          *)

LEMMA ClaimKeeps ==
  ASSUME NEW j \in Job, Claimable(j), NEW t, rows'[j] = Claimed(j, t)
  PROVE  Unmoved(j)
<1>1. rows'[j].status = "running" /\ rows'[j].canceled = rows[j].canceled
  BY SMT DEF Claimed
<1>2. rows[j].status \in Live \/ (rows[j].status = "failed" /\ j \in CleanupJob)
  BY Zenon DEF Claimable, Live
<1>. QED
  BY <1>1, <1>2, StillOwed DEF Live

(* A tick hands rows out and refuses the abandoned ones at once.           *)
LEMMA ImplTick ==
  ASSUME RefInv, NEW r \in Runner, Tick(r)
  PROVE  Implemented /\ RowFacts
<1>1. PICK S \in SUBSET {j \in Job : Claimable(j)}, same \in SUBSET Job :
        rows' = [j \in Job |->
             IF j \in S THEN Claimed(j, ClaimTime(j, same))
             ELSE IF Abandoned(j) THEN [rows[j] EXCEPT !.status = "failed"]
             ELSE rows[j]]
  BY Zenon DEF Tick
<1>2. ran' = ran
  BY Zenon DEF Tick
<1>3. PICK A \in SUBSET Job : A = {j \in Job \ S : Abandoned(j)}
  OBVIOUS
<1>4. \A j \in S : Unmoved(j)
  <2>1. \A j \in S : j \in Job /\ Claimable(j) /\ rows'[j] = Claimed(j, ClaimTime(j, same))
    BY <1>1, Zenon
  <2>. QED
    BY <2>1, ClaimKeeps
<1>5. ASSUME NEW j \in A
      PROVE  /\ rows[j].status = "running" /\ j \notin CleanupJob
             /\ rows'[j].status = "failed" /\ rows'[j].canceled = rows[j].canceled
  <2>1. j \in Job /\ j \notin S /\ Abandoned(j)
    BY <1>3
  <2>2. rows'[j] = [rows[j] EXCEPT !.status = "failed"]
    BY <1>1, <2>1, Zenon
  <2>3. rows[j] \in Row
    BY <2>1 DEF RefInv, TypeInv, TypeOK
  <2>. QED
    BY <2>1, <2>2, <2>3, SMT DEF Row, Abandoned
<1>6. \A j \in Job \ (S \cup A) : Unmoved(j)
  <2>1. \A j \in Job \ (S \cup A) : rows'[j] = rows[j]
    BY <1>1, <1>3, Zenon
  <2>. QED
    BY <2>1, SameRow
<1>7. \A j \in A : Phase(j) = "owed" /\ Phase(j)' = "refused"
  BY <1>5 DEF Phase, Live
<1>8. Durable!Move(A, {"owed"}, "refused")
  BY <1>4, <1>6, <1>7, Moves DEF Unmoved
<1>9. {j \in Job : rows[j].canceled}' = {j \in Job : rows[j].canceled}
  BY <1>4, <1>5, <1>6 DEF Unmoved
<1>10. Durable!Refuse(A)
  BY <1>2, <1>5, <1>8, <1>9 DEF Durable!Refuse
<1>11. \A j \in A : FlagKept(j)
  BY <1>5 DEF FlagKept
<1>12. RowFacts
  BY <1>4, <1>6, <1>11, UnmovedFlag DEF RowFacts
<1>. QED
  BY <1>10, <1>12, Zenon DEF Implemented, Durable!DNext

LEMMA ImplDeliver ==
  ASSUME RefInv, NEW r \in Runner, NEW d \in deliveries, Deliver(r, d)
  PROVE  Implemented /\ RowFacts
<1>1. ran' = ran
  BY Zenon DEF Deliver
<1>2. CASE Claimable(d.job)
  <2>1. d.job \in Job
    BY DEF RefInv, TypeInv, TypeOK, Delivery
  <2>2. PICK t : rows' = [rows EXCEPT ![d.job] = Claimed(d.job, t)]
    BY <1>2, Zenon DEF Deliver
  <2>3. /\ rows'[d.job] = Claimed(d.job, t)
        /\ \A j \in Job \ {d.job} : Unmoved(j)
    BY <2>1, <2>2, OneRow DEF RefInv
  <2>4. Unmoved(d.job)
    BY <1>2, <2>1, <2>3, ClaimKeeps
  <2>. QED
    BY <1>1, <2>3, <2>4, ImplStutter
<1>3. CASE ~Claimable(d.job)
  <2>1. rows' = rows
    BY <1>3, Zenon DEF Deliver
  <2>. QED
    BY <1>1, <2>1, SameRow, ImplStutter
<1>. QED
  BY <1>2, <1>3

(* An answer: success needs the effect, or a cancellation; and a persistent *)
(* job is never refused.                                                   *)
LEMMA ImplAnswer ==
  ASSUME RefInv, NEW c \in claims, Fence(c), ran' = ran, NEW s \in {"done", "failed"},
         s = "done" => c.outcome = "done", rows' = [rows EXCEPT ![c.job].status = s]
  PROVE  Implemented /\ RowFacts
<1>. DEFINE i == c.job
            r == rows[i]
            x == [r EXCEPT !.status = s]
<1>1. i \in Job /\ r \in Row /\ r.status = "running"
  BY DEF RefInv, TypeInv, TypeOK, Claim, Fence
<1>2. rows' = [rows EXCEPT ![i] = x]
  BY Zenon
<1>3. x.status = s /\ x.canceled = r.canceled
  BY <1>1, SMT DEF Row
<1>. HIDE DEF i, x
<1>4. rows'[i] = x /\ \A j \in Job \ {i} : Unmoved(j)
  BY <1>1, <1>2, OneRow DEF RefInv
<1>5. {j \in Job : rows[j].canceled}' = {j \in Job : rows[j].canceled}
  BY <1>3, <1>4 DEF Unmoved
<1>6. FlagKept(i)
  BY <1>1, <1>3, <1>4 DEF FlagKept
<1>7. Phase(i) = "owed"
  BY <1>1 DEF Phase, Live
<1>8. CASE s = "done"
  <2>1. Phase(i)' = "settled"
    BY <1>3, <1>4, <1>8 DEF Phase, Live
  <2>2. Durable!Move({i}, {"owed"}, "settled")
    BY <1>1, <1>4, <1>7, <2>1, Moves DEF Unmoved
  <2>3. i \in ran \cup {j \in Job : rows[j].canceled}
    BY <1>1, <1>8 DEF RefInv, Accounted, i
  <2>4. Durable!Complete(i)
    BY <1>5, <2>2, <2>3 DEF Durable!Complete
  <2>. QED
    BY <1>1, <1>4, <1>6, <2>4, UnmovedFlag DEF Implemented, RowFacts, Durable!DNext
<1>9. CASE s = "failed" /\ i \in CleanupJob
  <2>1. Unmoved(i)
    BY <1>1, <1>3, <1>4, <1>9, StillOwed DEF Live
  <2>. QED
    BY <1>4, <2>1, ImplStutter
<1>10. CASE s = "failed" /\ i \notin CleanupJob
  <2>1. Phase(i)' = "refused"
    BY <1>3, <1>4, <1>10 DEF Phase, Live
  <2>2. Durable!Move({i}, {"owed"}, "refused")
    BY <1>1, <1>4, <1>7, <2>1, Moves DEF Unmoved
  <2>3. Durable!Refuse({i})
    BY <1>5, <1>10, <2>2 DEF Durable!Refuse
  <2>4. {i} \in SUBSET Job
    BY <1>1
  <2>5. Implemented
    BY <2>3, <2>4, Zenon DEF Implemented, Durable!DNext
  <2>. QED
    BY <1>4, <1>6, <2>5, UnmovedFlag DEF RowFacts
<1>. QED
  BY <1>8, <1>9, <1>10

LEMMA ImplSettle ==
  ASSUME RefInv, NEW c \in claims, Settle(c)
  PROVE  Implemented /\ RowFacts
<1>0. ran' = ran
  BY Zenon DEF Settle
<1>1. CASE rows' = rows
  BY <1>0, <1>1, SameRow, ImplStutter
<1>2. ASSUME Fence(c), NEW a, NEW due, rows' = [rows EXCEPT ![c.job] = Requeued(c, a, due)]
      PROVE  Implemented /\ RowFacts
  <2>1. c.job \in Job /\ rows[c.job].status = "running"
    BY <1>2 DEF RefInv, TypeInv, TypeOK, Claim, Fence
  <2>2. /\ rows'[c.job] = Requeued(c, a, due)
        /\ \A j \in Job \ {c.job} : Unmoved(j)
    BY <1>2, <2>1, OneRow DEF RefInv
  <2>3. rows'[c.job].status = "pending" /\ rows'[c.job].canceled = rows[c.job].canceled
    BY <2>2, SMT DEF Requeued
  <2>4. Unmoved(c.job)
    BY <2>1, <2>3, StillOwed DEF Live
  <2>. QED
    BY <1>0, <2>2, <2>4, ImplStutter
<1>3. CASE Fence(c) /\ Settled(c)
  <2>1. \/ c.outcome = "done" /\ rows' = [rows EXCEPT ![c.job].status = "done"]
        \/ rows' = [rows EXCEPT ![c.job].status = "failed"]
        \/ \E a, due : rows' = [rows EXCEPT ![c.job] = Requeued(c, a, due)]
    BY <1>3, Zenon DEF Settled
  <2>. QED
    BY <1>0, <1>2, <1>3, <2>1, ImplAnswer
<1>. QED
  BY <1>1, <1>3, Zenon DEF Settle

(* A handler may apply its effect; the job has been accepted.              *)
LEMMA ImplHandler ==
  ASSUME RefInv, NEW c \in claims, rows' = rows, ran' \in {ran, Applied(c)}
  PROVE  Implemented /\ RowFacts
<1>1. \A j \in Job : Unmoved(j)
  BY SameRow
<1>2. CASE ran' = ran
  BY <1>1, <1>2, ImplStutter
<1>3. CASE ran' = ran \cup {c.job}
  <2>1. c.job \in Job /\ rows[c.job].status # "absent"
    BY DEF RefInv, TypeInv, TypeOK, Claim, FenceInv
  <2>2. Phase(c.job) # "none"
    BY <2>1 DEF Phase
  <2>3. /\ [j \in Job |-> Phase(j)]' = [j \in Job |-> Phase(j)]
        /\ {j \in Job : rows[j].canceled}' = {j \in Job : rows[j].canceled}
    BY <1>1 DEF Unmoved
  <2>4. Durable!Apply(c.job)
    BY <1>3, <2>1, <2>2, <2>3 DEF Durable!Apply
  <2>. QED
    BY <1>1, <2>1, <2>4, UnmovedFlag DEF Implemented, RowFacts, Durable!DNext
<1>. QED
  BY <1>2, <1>3 DEF Applied

LEMMA ImplClaimStep ==
  ASSUME RefInv, NEW c \in claims, ClaimStep(c)
  PROVE  Implemented /\ RowFacts
<1>1. CASE Settle(c)
  BY <1>1, ImplSettle
<1>2. CASE ~Settle(c)
  <2>1. rows' = rows
    BY <1>2, Zenon DEF ClaimStep, HandlerReturns, HandlerThrows, HandlerRefuses,
       HandlerDefers, RejectUnknown, RunHook, Redeliver
  <2>2. ran' \in {ran, Applied(c)}
    <3>1. HandlerReturns(c) => ran' = Applied(c)
      BY Zenon DEF HandlerReturns
    <3>2. HandlerThrows(c) => ran' \in {ran, Applied(c)}
      BY DEF HandlerThrows
    <3>3. HandlerRefuses(c) \/ HandlerDefers(c) \/ RejectUnknown(c) \/ RunHook(c)
            \/ Redeliver(c) => ran' = ran
      BY Zenon DEF HandlerRefuses, HandlerDefers, RejectUnknown, RunHook, Redeliver
    <3>. QED
      BY <1>2, <3>1, <3>2, <3>3, Zenon DEF ClaimStep
  <2>. QED
    BY <2>1, <2>2, ImplHandler
<1>. QED
  BY <1>1, <1>2

(* Steps that neither move a row nor apply an effect.                      *)
Idle ==
  \/ UNCHANGED vars
  \/ \E j \in Job : RequestCleanupDelivery(j)
  \/ \E r \in Runner : Crash(r)
  \/ \E d \in deliveries : DeliveryFault(d)

LEMMA ImplIdle ==
  ASSUME Idle
  PROVE  Implemented /\ RowFacts
<1>1. rows' = rows /\ ran' = ran
  BY Zenon DEF Idle, vars, RequestCleanupDelivery, Crash, DeliveryFault
<1>. QED
  BY <1>1, SameRow, ImplStutter

LEMMA ImplNext ==
  ASSUME RefInv, [Next]_vars
  PROVE  Implemented /\ RowFacts
<1>1. CASE Idle
  BY <1>1, ImplIdle
<1>2. CASE \E j \in Job : Enqueue(j)
  BY <1>2, ImplEnqueue
<1>3. CASE \E j \in Job : BackoffElapses(j) \/ GoesStale(j)
  BY <1>3, ImplTime
<1>4. CASE \E j \in Job : Sweep(j)
  BY <1>4, ImplSweep
<1>5. CASE \E k \in Key : Cancel(k)
  BY <1>5, ImplCancel
<1>6. CASE \E r \in Runner : Tick(r)
  BY <1>6, ImplTick
<1>7. CASE \E r \in Runner : \E d \in deliveries : Deliver(r, d)
  BY <1>7, ImplDeliver
<1>8. CASE \E c \in claims : ClaimStep(c)
  BY <1>8, ImplClaimStep
<1>. QED
  BY <1>1, <1>2, <1>3, <1>4, <1>5, <1>6, <1>7, <1>8, Zenon
     DEF Idle, Next, DeadClaimGoesStale, HungClaimGoesStale

-----------------------------------------------------------------------------
(* Where claims and applied effects come from.                             *)

(* Claim x goes back to claim e with the same answer to "canceled?", or it *)
(* was just handed out and read the flag of its row.                       *)
Kin(x, e) ==
  /\ x.job = e.job /\ x.canceled = e.canceled
  /\ x.outcome = "done" => e.outcome = "done" \/ e.canceled \/ e.job \in ran'

Handed(x) ==
  /\ x.job \in Job /\ x.outcome = "none"
  /\ x.canceled = rows[x.job].canceled /\ rows[x.job].status # "absent"

ClaimFacts == \A x \in claims' : Handed(x) \/ \E e \in claims : Kin(x, e)

(* An effect is never undone, and only a claim that is not canceled has    *)
(* one.                                                                    *)
RanFacts ==
  /\ ran \subseteq ran'
  /\ \A j \in ran' : j \in ran \/ \E c \in claims : c.job = j /\ ~c.canceled

LEMMA FewerClaims ==
  ASSUME claims' \subseteq claims, ran' = ran
  PROVE  ClaimFacts /\ RanFacts
<1>1. \A x \in claims' : x \in claims /\ Kin(x, x)
  BY Zenon DEF Kin
<1>. QED
  BY <1>1, Zenon DEF ClaimFacts, RanFacts

LEMMA OneFollows ==
  ASSUME NEW c \in claims, NEW d, claims' \subseteq (claims \ {c}) \cup {d},
         Kin(d, c)
  PROVE  ClaimFacts
<1>1. \A x \in claims : Kin(x, x)
  BY Zenon DEF Kin
<1>2. \A x \in claims' : x = d \/ x \in claims
  BY Zenon
<1>. QED
  BY <1>1, <1>2, Zenon DEF ClaimFacts

LEMMA HandedClaims ==
  ASSUME NEW S \in SUBSET Job, NEW same, NEW r, NEW via,
         Hands(r, via, S, same), ran' = ran
  PROVE  ClaimFacts /\ RanFacts
<1>1. ASSUME NEW x \in claims', x \notin claims PROVE Handed(x)
  <2>1. PICK j \in S : x = ClaimOf(r, j, via, ClaimTime(j, same))
    BY <1>1, Zenon DEF Hands
  <2>2. x.job = j /\ x.outcome = "none" /\ x.canceled = rows[j].canceled
    BY <2>1, SMT DEF ClaimOf
  <2>3. Claimable(j)
    BY Zenon DEF Hands
  <2>4. rows[j].status # "absent"
    BY <2>3, Zenon DEF Claimable
  <2>5. j \in Job
    OBVIOUS
  <2>. QED
    BY <2>2, <2>4, <2>5, Zenon DEF Handed
<1>2. \A x \in claims : Kin(x, x)
  BY Zenon DEF Kin
<1>. QED
  BY <1>1, <1>2, Zenon DEF ClaimFacts, RanFacts

(* A handler of claim c ends with outcome o.                               *)
LEMMA EndedClaims ==
  ASSUME NEW c \in claims, NEW o, Ended(c, o), o = "done" => ran' = Applied(c)
  PROVE  ClaimFacts
<1>. DEFINE d == [job |-> c.job, runner |-> c.runner, via |-> c.via,
                  attempts |-> c.attempts, max_attempts |-> c.max_attempts,
                  claimed_at |-> c.claimed_at, canceled |-> c.canceled,
                  pc |-> "settle", outcome |-> o]
<1>1. claims' = (claims \ {c}) \cup {d}
  BY Zenon DEF Ended, Advance
<1>2. d.job = c.job /\ d.canceled = c.canceled /\ d.outcome = o
  OBVIOUS
<1>. HIDE DEF d
<1>3. o = "done" => c.canceled \/ c.job \in ran'
  BY DEF Applied
<1>4. Kin(d, c)
  BY <1>2, <1>3, Zenon DEF Kin
<1>. QED
  BY <1>1, <1>4, OneFollows, Zenon

LEMMA AppliedFacts ==
  ASSUME NEW c \in claims, ran' \in {ran, Applied(c)}
  PROVE  RanFacts
<1>1. CASE ran' = ran
  BY <1>1, Zenon DEF RanFacts
<1>2. CASE ran' = ran \cup {c.job} /\ ~c.canceled
  BY <1>2, Zenon DEF RanFacts
<1>. QED
  BY <1>1, <1>2 DEF Applied

LEMMA SettledClaims ==
  ASSUME TypeInv, NEW c \in claims, AfterSettle(c)
  PROVE  ClaimFacts
<1>1. c \in Claim
  BY DEF TypeInv, TypeOK
<1>2. ASSUME NEW pc, Advance(c, [c EXCEPT !.pc = pc])
      PROVE  ClaimFacts
  <2>. DEFINE d == [c EXCEPT !.pc = pc]
  <2>1. d.job = c.job /\ d.canceled = c.canceled /\ d.outcome = c.outcome
    BY <1>1, SMT DEF Claim
  <2>2. claims' = (claims \ {c}) \cup {d}
    BY <1>2, Zenon DEF Advance
  <2>. HIDE DEF d
  <2>3. Kin(d, c)
    BY <2>1, Zenon DEF Kin
  <2>. QED
    BY <2>2, <2>3, OneFollows, Zenon
<1>3. CASE Finished(c, deliveries)
  <2>1. \A x \in claims' : x \in claims /\ Kin(x, x)
    BY <1>3, Zenon DEF Finished, Kin
  <2>. QED
    BY <2>1, Zenon DEF ClaimFacts
<1>. QED
  BY <1>2, <1>3, Zenon DEF AfterSettle

LEMMA ClaimStepClaims ==
  ASSUME TypeInv, NEW c \in claims, ClaimStep(c)
  PROVE  ClaimFacts /\ RanFacts
<1>1. CASE Settle(c)
  <2>1. AfterSettle(c) /\ ran' = ran
    BY <1>1, Zenon DEF Settle
  <2>. QED
    BY <2>1, SettledClaims, Zenon DEF RanFacts
<1>2. CASE RunHook(c) \/ Redeliver(c)
  <2>1. claims' = claims \ {c} /\ ran' = ran
    BY <1>2, Zenon DEF RunHook, Redeliver, Finished
  <2>. QED
    BY <2>1, FewerClaims
<1>3. CASE HandlerReturns(c)
  <2>1. Ended(c, "done") /\ ran' = Applied(c)
    BY <1>3, Zenon DEF HandlerReturns
  <2>. QED
    BY <2>1, EndedClaims, AppliedFacts
<1>4. CASE HandlerThrows(c)
  <2>1. ran' \in {ran, Applied(c)}
    BY <1>4 DEF HandlerThrows
  <2>2. Ended(c, IF Spent(c) THEN "spent" ELSE "retry")
    BY <1>4, Zenon DEF HandlerThrows
  <2>3. (IF Spent(c) THEN "spent" ELSE "retry") # "done"
    OBVIOUS
  <2>4. ClaimFacts
    BY <2>2, <2>3, EndedClaims
  <2>. QED
    BY <2>1, <2>4, AppliedFacts
<1>5. CASE HandlerRefuses(c) \/ HandlerDefers(c) \/ RejectUnknown(c)
  <2>1. ran' = ran /\ (Ended(c, "spent") \/ Ended(c, "defer") \/ Ended(c, "unknown"))
    BY <1>5, Zenon DEF HandlerRefuses, HandlerDefers, RejectUnknown
  <2>. QED
    BY <2>1, EndedClaims, AppliedFacts
<1>. QED
  BY <1>1, <1>2, <1>3, <1>4, <1>5, Zenon DEF ClaimStep

LEMMA ClaimsNext ==
  ASSUME TypeInv, [Next]_vars
  PROVE  ClaimFacts /\ RanFacts
<1>1. CASE \/ Idle
           \/ \E j \in Job : \/ Enqueue(j) \/ BackoffElapses(j) \/ Sweep(j)
                             \/ GoesStale(j)
           \/ \E k \in Key : Cancel(k)
  <2>1. claims' \subseteq claims /\ ran' = ran
    BY <1>1 DEF Idle, vars, RequestCleanupDelivery, Crash, DeliveryFault, Enqueue,
       BackoffElapses, Sweep, GoesStale, Cancel
  <2>. QED
    BY <2>1, FewerClaims
<1>2. CASE \E r \in Runner : Tick(r)
  <2>1. PICK r \in Runner : Tick(r)
    BY <1>2
  <2>2. ran' = ran
    BY <2>1, Zenon DEF Tick
  <2>. QED
    BY <2>1, <2>2, TickRows, HandedClaims
<1>3. CASE \E r \in Runner : \E d \in deliveries : Deliver(r, d)
  <2>1. PICK r \in Runner, d \in deliveries : Deliver(r, d)
    BY <1>3
  <2>2. ran' = ran
    BY <2>1, Zenon DEF Deliver
  <2>3. CASE Claimable(d.job)
    BY <2>1, <2>2, <2>3, DeliverRows, HandedClaims
  <2>4. CASE ~Claimable(d.job)
    <3>1. claims' = claims
      BY <2>1, <2>4, Zenon DEF Deliver
    <3>. QED
      BY <2>2, <3>1, FewerClaims
  <2>. QED
    BY <2>3, <2>4
<1>4. CASE \E c \in claims : ClaimStep(c)
  BY <1>4, ClaimStepClaims
<1>. QED
  BY <1>1, <1>2, <1>3, <1>4, Zenon
     DEF Idle, Next, DeadClaimGoesStale, HungClaimGoesStale

-----------------------------------------------------------------------------
(* The invariant, and the theorems.                                        *)

LEMMA AccountedNext ==
  ASSUME RefInv, [Next]_vars
  PROVE  Accounted'
<1>1. RowFacts /\ ClaimFacts /\ RanFacts
  BY ImplNext, ClaimsNext DEF RefInv
<1>2. ASSUME NEW j \in Job, rows'[j].status = "absent" PROVE ~rows'[j].canceled
  <2>1. FlagKept(j)
    BY <1>1 DEF RowFacts
  <2>2. rows[j].status = "absent" => ~rows[j].canceled
    BY DEF RefInv, Accounted
  <2>. QED
    BY <1>2, <2>1, <2>2 DEF FlagKept
<1>3. ASSUME NEW j \in Job, rows[j].status # "absent", rows[j].canceled
      PROVE  rows'[j].canceled
  <2>1. FlagKept(j)
    BY <1>1 DEF RowFacts
  <2>. QED
    BY <1>3, <2>1, Zenon DEF FlagKept
<1>4. ASSUME NEW x \in claims'
      PROVE  /\ x.canceled => rows'[x.job].canceled
             /\ x.outcome = "done" => x.canceled \/ x.job \in ran'
  <2>1. CASE Handed(x)
    BY <1>3, <2>1 DEF Handed
  <2>2. CASE \E e \in claims : Kin(x, e)
    <3>1. PICK e \in claims : Kin(x, e)
      BY <2>2
    <3>2. /\ e.canceled => rows[e.job].canceled
          /\ e.outcome = "done" => e.canceled \/ e.job \in ran
      BY Zenon DEF RefInv, Accounted
    <3>3. e.job \in Job /\ rows[e.job].status # "absent"
      BY DEF RefInv, TypeInv, TypeOK, Claim, FenceInv
    <3>4. x.job = e.job /\ x.canceled = e.canceled
      BY <3>1, Zenon DEF Kin
    <3>5. x.canceled => rows'[x.job].canceled
      BY <1>3, <3>2, <3>3, <3>4, Zenon
    <3>6. x.outcome = "done" => x.canceled \/ x.job \in ran'
      BY <1>1, <3>1, <3>2, <3>4, Zenon DEF Kin, RanFacts
    <3>. QED
      BY <3>5, <3>6
  <2>. QED
    BY <1>1, <2>1, <2>2, Zenon DEF ClaimFacts
<1>. QED
  BY <1>2, <1>4, Zenon DEF Accounted

LEMMA InitFacts == Init => KeyOrigin /\ Accounted /\ Durable!DInit
<1>. SUFFICES ASSUME Init
              PROVE  KeyOrigin /\ Accounted /\ Durable!DInit
  OBVIOUS
<1>1. ASSUME NEW j \in Job
      PROVE  /\ rows[j].dedupe_key = KeyOf[j]
             /\ rows[j].status = "absent" /\ ~rows[j].canceled
  <2>1. rows[j] = Fresh(j, "absent", FALSE)
    BY Zenon DEF Init
  <2>. QED
    BY <2>1, SMT DEF Fresh
<1>2. claims = {} /\ ran = {}
  BY Zenon DEF Init
<1>3. \A j \in Job : Phase(j) = "none"
  BY <1>1 DEF Phase
<1>4. {j \in Job : rows[j].canceled} = {}
  BY <1>1
<1>5. Durable!DInit
  BY <1>2, <1>3, <1>4 DEF Durable!DInit
<1>6. KeyOrigin
  BY <1>1 DEF KeyOrigin
<1>7. Accounted
  BY <1>1, <1>2 DEF Accounted
<1>. QED
  BY <1>5, <1>6, <1>7

(* What the mapping needs holds throughout.                                *)
THEOREM RefInvariant == Spec => []RefInv
<1>1. Init => KeyOrigin /\ Accounted
  BY InitFacts
<1>2. TypeInv /\ FenceInv /\ KeyOrigin /\ Accounted /\ [Next]_vars
        => KeyOrigin' /\ Accounted'
  BY OriginNext, AccountedNext DEF RefInv
<1>3. TypeInv /\ FenceInv /\ KeyOrigin /\ Accounted => RefInv
  BY DEF RefInv
<1>. QED
  BY <1>1, <1>2, <1>3, TypeInvariant, FenceInvariant, PTL DEF Spec

(* The queue keeps what it promises its callers: an accepted job stays     *)
(* owed until its effect has been applied or it was taken back, the        *)
(* promise of a cleanup job is neither refused nor dropped, and an answer  *)
(* stands, whatever crashes, hung claims, reclaims and lost or duplicated  *)
(* deliveries lie between.                                                 *)
THEOREM ImplementsDurable == Spec => ImplementsDurableJobs
<1>1. Init => Durable!DInit
  BY InitFacts
<1>2. RefInv /\ [Next]_vars => [Durable!DNext]_(Durable!dvars)
  BY ImplNext DEF Implemented
<1>. QED
  BY <1>1, <1>2, RefInvariant, PTL DEF Spec, ImplementsDurableJobs, Durable!Spec

(* The row is canceled, and so is everyone who works on it.                *)
Dropped(j) ==
  /\ rows[j].canceled /\ rows[j].status # "absent" /\ j \notin ran
  /\ \A c \in claims : c.job = j => c.canceled

LEMMA DroppedNext ==
  ASSUME RefInv, NEW j \in Job, Dropped(j), [Next]_vars
  PROVE  Dropped(j)'
<1>1. FlagKept(j) /\ ClaimFacts /\ RanFacts
  BY ImplNext, ClaimsNext DEF RefInv, RowFacts
<1>2. rows'[j].canceled /\ rows'[j].status # "absent"
  BY <1>1, Zenon DEF FlagKept, Dropped
<1>3. j \notin ran'
  BY <1>1, Zenon DEF RanFacts, Dropped
<1>4. \A x \in claims' : x.job = j => x.canceled
  <2>1. ASSUME NEW x \in claims', x.job = j, Handed(x) PROVE x.canceled
    BY <2>1, Zenon DEF Handed, Dropped
  <2>2. ASSUME NEW x \in claims', x.job = j, NEW e \in claims, Kin(x, e)
        PROVE  x.canceled
    BY <2>2, Zenon DEF Kin, Dropped
  <2>. QED
    BY <1>1, <2>1, <2>2, Zenon DEF ClaimFacts
<1>. QED
  BY <1>2, <1>3, <1>4, Zenon DEF Dropped

(* clear-cells: once a canceled row has no claim in flight and no effect,  *)
(* no retry, reclaim or delivery ever applies it: every later claim reads  *)
(* the flag from the row.                                                  *)
THEOREM CanceledStays == Spec => CancelSticks
<1>1. ASSUME NEW j \in Job
      PROVE  Spec => [](/\ rows[j].canceled /\ j \notin ran
                        /\ ~\E c \in claims : c.job = j
                        => [](j \notin ran))
  <2>1. RefInv /\ rows[j].canceled /\ j \notin ran /\ ~(\E c \in claims : c.job = j)
          => Dropped(j)
    BY DEF RefInv, Accounted, Dropped
  <2>2. RefInv /\ Dropped(j) /\ [Next]_vars => Dropped(j)'
    BY DroppedNext
  <2>3. Dropped(j) => j \notin ran
    BY DEF Dropped
  <2>. QED
    BY <2>1, <2>2, <2>3, RefInvariant, PTL DEF Spec
<1>. QED
  BY <1>1 DEF CancelSticks
=============================================================================
