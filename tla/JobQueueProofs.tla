--------------------------- MODULE JobQueueProofs ---------------------------
(***************************************************************************)
(* TLAPS proofs about JobQueue, for every set of rows and processes, every *)
(* budget and every number of faults.                                      *)
(***************************************************************************)
EXTENDS JobQueue, TLAPS

LEMMA MaxIntFact == MaxInt \in Nat /\ MaxInt >= 1
  BY SMT DEF MaxInt

(* The row a claim leaves is well-typed.                                   *)
LEMMA ClaimedType ==
  ASSUME TypeOK, NEW j \in Job, NEW t \in Nat,
         j \in CleanupJob \/ rows[j].attempts < MaxInt
  PROVE  Claimed(j, t) \in Row
<1>. DEFINE r   == rows[j]
            a   == IF j \in CleanupJob /\ r.attempts = MaxInt
                   THEN MaxInt ELSE r.attempts + 1
            m   == IF j \in CleanupJob THEN MaxInt ELSE r.max_attempts
            due == IF r.status = "failed" THEN FALSE ELSE r.due
            key == IF r.status = "failed" THEN NoKey ELSE r.dedupe_key
<1>1. r \in Row
  BY DEF TypeOK
<1>2. a \in 0..MaxInt /\ m \in 1..MaxInt
  BY <1>1, MaxIntFact, SMT DEF Row
<1>3. due \in BOOLEAN
  BY <1>1, Zenon DEF Row
<1>4. key \in Key \cup {NoKey} /\ r.canceled \in BOOLEAN
  BY <1>1, SMT DEF Row
<1>5. Claimed(j, t) =
        [status |-> "running", attempts |-> a, max_attempts |-> m,
         due |-> due, stale |-> FALSE, claimed_at |-> t,
         canceled |-> r.canceled, dedupe_key |-> key]
  BY Zenon DEF Claimed
<1>. HIDE DEF a, m, due, key
<1>. QED
  BY <1>2, <1>3, <1>4, <1>5, SMT DEF Row, Status

LEMMA SettledType ==
  ASSUME TypeOK, NEW c \in claims, Settled(c)
  PROVE  rows' \in [Job -> Row]
<1>1. /\ rows \in [Job -> Row] /\ c \in Claim
      /\ c.job \in Job /\ rows[c.job] \in Row
      /\ c.attempts \in 0..MaxInt
  BY DEF TypeOK, Claim
<1>2. CASE c.outcome = "done"
  <2>1. rows' = [rows EXCEPT ![c.job].status = "done"]
    BY <1>2, Zenon DEF Settled
  <2>. QED
    BY <1>1, <2>1, SMT DEF Row, Status
<1>3. CASE c.outcome \in {"spent", "unknown"}
  <2>1. rows' = [rows EXCEPT ![c.job].status = "failed"]
    BY <1>3, Zenon DEF Settled
  <2>. QED
    BY <1>1, <2>1, SMT DEF Row, Status
<1>4. CASE c.outcome = "retry"
  <2>1. rows' = [rows EXCEPT ![c.job] =
                   Requeued(c, rows[c.job].attempts, FALSE)]
    BY <1>4, Zenon DEF Settled
  <2>2. Requeued(c, rows[c.job].attempts, FALSE) \in Row
    BY <1>1, MaxIntFact, SMT DEF Requeued, Row, Status
  <2>. QED
    BY <1>1, <2>1, <2>2
<1>5. CASE c.outcome \in {"none", "defer"}
  <2>1. PICK due \in BOOLEAN :
          rows' = [rows EXCEPT ![c.job] = Requeued(c, Refund(c), due)]
    BY <1>5, Zenon DEF Settled
  <2>2. Refund(c) \in 0..MaxInt
    BY <1>1, MaxIntFact, SMT DEF Refund
  <2>3. Requeued(c, Refund(c), due) \in Row
    BY <1>1, <2>2, MaxIntFact, SMT DEF Requeued, Row, Status
  <2>. QED
    BY <1>1, <2>1, <2>3
<1>. QED
  BY <1>1, <1>2, <1>3, <1>4, <1>5 DEF Claim, Outcome

-----------------------------------------------------------------------------
(* Types and attempt budgets.                                              *)

(* The budget of an ordinary row never changes, and a claim that will be   *)
(* retried has an attempt left.                                            *)
BudgetKept ==
  /\ \A j \in Job \ CleanupJob : rows[j].max_attempts = MaxAttempts[j]
  /\ \A c \in claims : c.job \notin CleanupJob =>
       /\ c.max_attempts = MaxAttempts[c.job]
       /\ c.outcome = "retry" => c.attempts < c.max_attempts

TypeInv == TypeOK /\ AttemptBudget /\ BudgetKept

(* A claimable row can count one more attempt.                             *)
LEMMA ClaimableBudget ==
  ASSUME TypeInv, NEW j \in Job, Claimable(j), j \notin CleanupJob
  PROVE  rows[j].attempts < rows[j].max_attempts
  BY SMT DEF TypeInv, AttemptBudget, Claimable

(* What one claim statement writes for row j.                              *)
LEMMA ClaimEffect ==
  ASSUME TypeInv, NEW j \in Job, Claimable(j), NEW r \in Runner,
         NEW via \in {Poll} \cup Nat, NEW t \in Nat
  PROVE  /\ Claimed(j, t) \in Row
         /\ ClaimOf(r, j, via, t) \in Claim
         /\ j \notin CleanupJob =>
              /\ Claimed(j, t).attempts = rows[j].attempts + 1
              /\ Claimed(j, t).attempts <= Claimed(j, t).max_attempts
              /\ Claimed(j, t).max_attempts = MaxAttempts[j]
         /\ Claimed(j, t).status = "running"
         /\ Claimed(j, t).claimed_at = t
<1>1. rows[j] \in Row /\ rows[j].max_attempts \in 1..MaxInt
  BY DEF TypeInv, TypeOK, Row
<1>2. j \in CleanupJob \/ rows[j].attempts < MaxInt
  BY <1>1, ClaimableBudget, MaxIntFact, SMT DEF Row
<1>3. Claimed(j, t) \in Row
  BY <1>2, ClaimedType DEF TypeInv
<1>4. ClaimOf(r, j, via, t) \in Claim
  <2>1. /\ Claimed(j, t).attempts \in 0..MaxInt
        /\ Claimed(j, t).max_attempts \in 1..MaxInt
        /\ rows[j].canceled \in BOOLEAN
    BY <1>1, <1>3 DEF Row
  <2>. HIDE DEF Poll
  <2>. QED
    BY <2>1, SMT DEF ClaimOf, Claim, PreSettle, Outcome
<1>5. /\ Claimed(j, t).status = "running"
      /\ Claimed(j, t).claimed_at = t
  BY SMT DEF Claimed
<1>6. ASSUME j \notin CleanupJob
      PROVE  /\ Claimed(j, t).attempts = rows[j].attempts + 1
             /\ Claimed(j, t).max_attempts = rows[j].max_attempts
  BY <1>6, SMT DEF Claimed
<1>7. ASSUME j \notin CleanupJob
      PROVE  /\ rows[j].max_attempts = MaxAttempts[j]
             /\ rows[j].attempts + 1 <= rows[j].max_attempts
  BY <1>1, <1>7, ClaimableBudget, SMT DEF TypeInv, BudgetKept, Row
<1>. QED
  BY <1>3, <1>4, <1>5, <1>6, <1>7

LEMMA DeliveryType ==
  ASSUME NEW D, D \subseteq Delivery, NEW j \in Job, NEW n \in Nat
  PROVE  WithDelivery(D, j, n) \subseteq Delivery
  BY DEF WithDelivery, Delivery

LEMMA MayDeliverType ==
  ASSUME TypeOK, NEW j \in Job, NEW n \in Nat, MayDeliver(deliveries, j, n)
  PROVE  deliveries' \subseteq Delivery
  BY DeliveryType DEF MayDeliver, TypeOK

LEMMA FaultType ==
  ASSUME TypeOK, Fault \/ UNCHANGED faults
  PROVE  faults' \in Nat
  BY SMT DEF TypeOK, Fault

(* Steps that leave the counters of every row alone.                       *)
LEMMA CountersKept ==
  ASSUME TypeInv, TypeOK',
         \A j \in Job : /\ rows'[j].attempts = rows[j].attempts
                        /\ rows'[j].max_attempts = rows[j].max_attempts
                        /\ rows'[j].status \in {"absent", "pending"} =>
                             rows[j].status \in {"absent", "pending"},
         claims' \subseteq claims
  PROVE  TypeInv'
  BY SMT DEF TypeInv, AttemptBudget, BudgetKept, TypeOK, Claim

(* Claim c becomes d: the same claim at a later point of its run.          *)
LEMMA AdvanceKept ==
  ASSUME TypeInv, TypeOK', rows' = rows, NEW c \in claims, NEW d \in Claim,
         d.job = c.job, d.attempts = c.attempts,
         d.max_attempts = c.max_attempts,
         d.outcome = "retry" =>
           c.job \in CleanupJob \/ c.attempts < c.max_attempts,
         claims' = (claims \ {c}) \cup {d}
  PROVE  TypeInv'
<1>1. AttemptBudget'
  BY SMT DEF TypeInv, AttemptBudget
<1>2. BudgetKept'
  BY SMT DEF TypeInv, BudgetKept
<1>. QED
  BY <1>1, <1>2 DEF TypeInv

LEMMA FreshType ==
  ASSUME ConstAssumption, NEW j \in Job, NEW s \in Status, NEW due \in BOOLEAN
  PROVE  Fresh(j, s, due) \in Row
<1>1. MaxAttempts[j] \in 1..MaxInt /\ KeyOf[j] \in Key \cup {NoKey}
  BY DEF ConstAssumption
<1>2. 0 \in 0..MaxInt
  BY MaxIntFact, SMT
<1>. QED
  BY <1>1, <1>2, SMT DEF Fresh, Row

LEMMA TypeInvInit == Init => TypeInv
<1>. SUFFICES ASSUME Init PROVE TypeInv
  OBVIOUS
<1>1. \A j \in Job : rows[j] = Fresh(j, "absent", FALSE)
  BY Zenon DEF Init
<1>2. \A j \in Job : Fresh(j, "absent", FALSE) \in Row
  BY ConstAssumption, FreshType DEF Status
<1>3. TypeOK
  <2>1. rows \in [Job -> Row]
    BY <1>2, Zenon DEF Init
  <2>2. 0 \in Nat
    OBVIOUS
  <2>. QED
    BY <2>1, <2>2, Zenon DEF Init, TypeOK
<1>4. ASSUME NEW j \in Job
      PROVE  /\ rows[j].attempts = 0
             /\ rows[j].max_attempts = MaxAttempts[j]
             /\ MaxAttempts[j] \in 1..MaxInt
  <2>1. MaxAttempts[j] \in 1..MaxInt
    BY ConstAssumption DEF ConstAssumption
  <2>2. rows[j] = Fresh(j, "absent", FALSE)
    BY <1>1
  <2>3. /\ Fresh(j, "absent", FALSE).attempts = 0
        /\ Fresh(j, "absent", FALSE).max_attempts = MaxAttempts[j]
    BY DEF Fresh
  <2>. QED
    BY <2>1, <2>2, <2>3, Zenon
<1>5. AttemptBudget
  BY <1>4, SMT DEF AttemptBudget
<1>6. BudgetKept
  <2>1. claims = {}
    BY Zenon DEF Init
  <2>. QED
    BY <1>4, <2>1, SMT DEF BudgetKept
<1>. QED
  BY <1>3, <1>5, <1>6 DEF TypeInv

-----------------------------------------------------------------------------
(* TypeInv is preserved by every step.                                     *)

LEMMA TypeInvEnqueue ==
  ASSUME TypeInv, NEW j \in Job, Enqueue(j)
  PROVE  TypeInv'
<1>1. PICK due \in BOOLEAN :
        rows' = [rows EXCEPT ![j] = Fresh(j, "pending", due)]
  BY DEF Enqueue
<1>2. Fresh(j, "pending", due) \in Row
  BY ConstAssumption, FreshType DEF Status
<1>3. TypeOK'
  BY <1>1, <1>2, MayDeliverType, 0 \in Nat DEF Enqueue, TypeInv, TypeOK
<1>4. /\ Fresh(j, "pending", due).attempts = 0
      /\ Fresh(j, "pending", due).max_attempts = MaxAttempts[j]
      /\ MaxAttempts[j] \in 1..MaxInt
  BY ConstAssumption, SMT DEF Fresh, ConstAssumption
<1>5. \A i \in Job : rows'[i] = IF i = j THEN Fresh(j, "pending", due)
                                         ELSE rows[i]
  BY <1>1 DEF TypeInv, TypeOK
<1>6. AttemptBudget'
  BY <1>4, <1>5, MaxIntFact, SMT DEF TypeInv, AttemptBudget
<1>7. BudgetKept'
  BY <1>4, <1>5, SMT DEF TypeInv, BudgetKept, Enqueue
<1>. QED
  BY <1>3, <1>6, <1>7 DEF TypeInv

LEMMA TypeInvTime ==
  ASSUME TypeInv, NEW j \in Job,
         \/ BackoffElapses(j)
         \/ GoesStale(j) /\ (Fault \/ UNCHANGED faults)
  PROVE  TypeInv'
<1>1. /\ rows' = [rows EXCEPT ![j].due = TRUE]
         \/ rows' = [rows EXCEPT ![j].stale = TRUE]
      /\ UNCHANGED <<claims, deliveries, ran, hooked>>
  BY DEF BackoffElapses, GoesStale
<1>2. faults' \in Nat
  BY FaultType, Zenon DEF TypeInv, BackoffElapses
<1>3. rows' \in [Job -> Row]
  <2>1. rows \in [Job -> Row] /\ rows[j] \in Row
    BY DEF TypeInv, TypeOK
  <2>2. CASE rows' = [rows EXCEPT ![j].due = TRUE]
    BY <2>1, <2>2, Zenon DEF Row
  <2>3. CASE rows' = [rows EXCEPT ![j].stale = TRUE]
    BY <2>1, <2>3, Zenon DEF Row
  <2>. QED
    BY <1>1, <2>2, <2>3
<1>4. TypeOK'
  BY <1>1, <1>2, <1>3, SMT DEF TypeInv, TypeOK
<1>5. \A i \in Job : /\ rows'[i].attempts = rows[i].attempts
                     /\ rows'[i].max_attempts = rows[i].max_attempts
                     /\ rows'[i].status = rows[i].status
  BY <1>1, SMT DEF TypeInv, TypeOK, Row
<1>. QED
  BY <1>1, <1>4, <1>5, CountersKept

(* A step that changes no row and no claim.                                *)
LEMMA SameRowsAndClaims ==
  ASSUME TypeInv, rows' = rows, claims' \subseteq claims,
         deliveries' \subseteq Delivery, ran' \subseteq Job,
         hooked' \subseteq Job, faults' \in Nat
  PROVE  TypeInv'
<1>1. TypeOK'
  BY DEF TypeInv, TypeOK
<1>. QED
  BY <1>1, CountersKept, Zenon

(* Statuses that move to one of terminal status leave the counters alone.  *)
LEMMA TypeInvStatus ==
  ASSUME TypeInv, NEW S \in SUBSET Job, NEW s \in {"failed", "deleted", "done"},
         rows' = [j \in Job |-> IF j \in S THEN [rows[j] EXCEPT !.status = s]
                                          ELSE rows[j]],
         claims' \subseteq claims, UNCHANGED <<deliveries, ran, hooked, faults>>
  PROVE  TypeInv'
<1>1. rows' \in [Job -> Row]
  BY SMT DEF TypeInv, TypeOK, Row, Status
<1>2. TypeOK'
  BY <1>1 DEF TypeInv, TypeOK
<1>3. \A j \in Job : /\ rows'[j].attempts = rows[j].attempts
                     /\ rows'[j].max_attempts = rows[j].max_attempts
                     /\ rows'[j].status \in {"absent", "pending"} =>
                          rows[j].status \in {"absent", "pending"}
  BY SMT DEF TypeInv, TypeOK, Row
<1>. QED
  BY <1>2, <1>3, CountersKept

LEMMA TypeInvSweep ==
  ASSUME TypeInv, NEW j \in Job, Sweep(j)
  PROVE  TypeInv'
<1>1. rows' = [i \in Job |-> IF i \in {j} THEN [rows[i] EXCEPT !.status = "deleted"]
                                         ELSE rows[i]]
  <2>1. rows' = [rows EXCEPT ![j].status = "deleted"]
    BY DEF Sweep
  <2>2. rows \in [Job -> Row]
    BY DEF TypeInv, TypeOK
  <2>. QED
    BY <2>1, <2>2, Zenon
<1>. QED
  BY <1>1, TypeInvStatus DEF Sweep

LEMMA TypeInvCancel ==
  ASSUME TypeInv, NEW k \in Key, Cancel(k)
  PROVE  TypeInv'
<1>. DEFINE P == {j \in Job : rows[j].dedupe_key = k /\ rows[j].status = "pending"}
            R == {j \in Job : rows[j].dedupe_key = k /\ rows[j].status = "running"}
<1>1. rows' = [j \in Job |->
         IF j \in P THEN [rows[j] EXCEPT !.status = "deleted"]
         ELSE IF j \in R THEN [rows[j] EXCEPT !.canceled = TRUE]
         ELSE rows[j]]
  BY Zenon DEF Cancel
<1>2. ASSUME NEW j \in Job
      PROVE  /\ rows'[j] \in Row
             /\ rows'[j].attempts = rows[j].attempts
             /\ rows'[j].max_attempts = rows[j].max_attempts
             /\ rows'[j].status \in {"absent", "pending"} =>
                  rows[j].status \in {"absent", "pending"}
  <2>1. rows[j] \in Row
    BY DEF TypeInv, TypeOK
  <2>2. CASE j \in P
    <3>1. rows'[j] = [rows[j] EXCEPT !.status = "deleted"]
      BY <1>1, <2>2
    <3>. QED
      BY <2>1, <3>1, SMT DEF Row, Status
  <2>3. CASE j \in R /\ j \notin P
    <3>1. rows'[j] = [rows[j] EXCEPT !.canceled = TRUE]
      BY <1>1, <2>3, Zenon
    <3>2. rows'[j] \in Row
      BY <2>1, <3>1, Zenon DEF Row
    <3>3. /\ rows'[j].attempts = rows[j].attempts
          /\ rows'[j].max_attempts = rows[j].max_attempts
          /\ rows'[j].status = rows[j].status
      BY <2>1, <3>1, SMT DEF Row
    <3>. QED
      BY <3>2, <3>3
  <2>4. CASE j \notin R /\ j \notin P
    <3>1. rows'[j] = rows[j]
      BY <1>1, <2>4, Zenon
    <3>. QED
      BY <2>1, <3>1
  <2>. QED
    BY <2>2, <2>3, <2>4
<1>3. rows' \in [Job -> Row]
  <2>1. rows' = [j \in Job |-> rows'[j]]
    BY <1>1
  <2>. QED
    BY <1>2, <2>1
<1>4. TypeOK'
  BY <1>3 DEF TypeInv, TypeOK, Cancel
<1>. QED
  BY <1>2, <1>4, CountersKept DEF Cancel

(* Rows S were claimed within their budget, the others kept their counters. *)
LEMMA AttemptsKept ==
  ASSUME AttemptBudget, NEW S \in SUBSET Job,
         \A j \in S : /\ rows'[j].status = "running"
                      /\ j \notin CleanupJob =>
                           rows'[j].attempts <= rows'[j].max_attempts,
         \A j \in Job \ S :
           /\ rows'[j].attempts = rows[j].attempts
           /\ rows'[j].max_attempts = rows[j].max_attempts
           /\ rows'[j].status \in {"absent", "pending"} =>
                rows[j].status \in {"absent", "pending"}
  PROVE  AttemptBudget'
  BY SMT DEF AttemptBudget

(* What the claim statement does: process r is handed the rows S, and the  *)
(* rows A fail.                                                            *)
ClaimStatement(S, A, r, via, same) ==
  /\ rows' = [j \in Job |->
       IF j \in S THEN Claimed(j, ClaimTime(j, same))
       ELSE IF j \in A THEN [rows[j] EXCEPT !.status = "failed"]
       ELSE rows[j]]
  /\ claims' = claims \cup {ClaimOf(r, j, via, ClaimTime(j, same)) : j \in S}

LEMMA TypeInvClaim ==
  ASSUME TypeInv, NEW S \in SUBSET Job, NEW A,
         NEW r \in Runner, NEW via \in {Poll} \cup Nat, NEW same,
         \A j \in S : Claimable(j), ClaimStatement(S, A, r, via, same),
         deliveries' \subseteq Delivery, UNCHANGED <<ran, hooked, faults>>
  PROVE  TypeInv'
<1>. USE DEF ClaimStatement
<1>1. \A j \in Job : ClaimTime(j, same) \in Nat
  BY SMT DEF ClaimTime, TypeInv, TypeOK, Row
<1>2. ASSUME NEW j \in S
      PROVE  /\ rows'[j] \in Row
             /\ rows'[j].status = "running"
             /\ j \notin CleanupJob =>
                  /\ rows'[j].attempts <= rows'[j].max_attempts
                  /\ rows'[j].max_attempts = MaxAttempts[j]
             /\ ClaimOf(r, j, via, ClaimTime(j, same)) \in Claim
             /\ ClaimOf(r, j, via, ClaimTime(j, same)).job = j
             /\ ClaimOf(r, j, via, ClaimTime(j, same)).outcome = "none"
             /\ ClaimOf(r, j, via, ClaimTime(j, same)).max_attempts
                  = rows'[j].max_attempts
  <2>. DEFINE t == ClaimTime(j, same)
  <2>1. t \in Nat
    BY <1>1
  <2>2. rows'[j] = Claimed(j, t)
    OBVIOUS
  <2>3. /\ ClaimOf(r, j, via, t).job = j
        /\ ClaimOf(r, j, via, t).outcome = "none"
        /\ ClaimOf(r, j, via, t).max_attempts = Claimed(j, t).max_attempts
    BY Zenon DEF ClaimOf
  <2>. HIDE DEF t
  <2>4. /\ Claimed(j, t) \in Row
        /\ ClaimOf(r, j, via, t) \in Claim
        /\ j \notin CleanupJob =>
             /\ Claimed(j, t).attempts <= Claimed(j, t).max_attempts
             /\ Claimed(j, t).max_attempts = MaxAttempts[j]
        /\ Claimed(j, t).status = "running"
    BY <2>1, ClaimEffect
  <2>. QED
    BY <2>2, <2>3, <2>4 DEF t
<1>3. ASSUME NEW j \in Job, j \notin S
      PROVE  /\ rows'[j] \in Row
             /\ rows'[j].attempts = rows[j].attempts
             /\ rows'[j].max_attempts = rows[j].max_attempts
             /\ rows'[j].status \in {"absent", "pending"} =>
                  rows[j].status \in {"absent", "pending"}
  <2>1. rows[j] \in Row /\ (rows'[j] = [rows[j] EXCEPT !.status = "failed"]
                            \/ rows'[j] = rows[j])
    BY <1>3 DEF TypeInv, TypeOK
  <2>. QED
    BY <2>1, SMT DEF Row, Status
<1>4. rows' \in [Job -> Row]
  <2>1. rows' = [j \in Job |-> rows'[j]]
    OBVIOUS
  <2>. QED
    BY <1>2, <1>3, <2>1, Zenon
<1>5. TypeOK'
  BY <1>2, <1>4 DEF TypeInv, TypeOK
<1>6. AttemptBudget'
  <2>1. /\ \A j \in S : /\ rows'[j].status = "running"
                        /\ j \notin CleanupJob =>
                             rows'[j].attempts <= rows'[j].max_attempts
        /\ \A j \in Job \ S :
             /\ rows'[j].attempts = rows[j].attempts
             /\ rows'[j].max_attempts = rows[j].max_attempts
             /\ rows'[j].status \in {"absent", "pending"} =>
                  rows[j].status \in {"absent", "pending"}
    BY <1>2, <1>3, Zenon
  <2>. QED
    BY <2>1, AttemptsKept, Zenon DEF TypeInv
<1>7. BudgetKept'
  <2>1. \A j \in Job \ CleanupJob : rows'[j].max_attempts = MaxAttempts[j]
    <3>1. \A j \in Job \ CleanupJob : rows[j].max_attempts = MaxAttempts[j]
      BY Zenon DEF TypeInv, BudgetKept
    <3>2. SUFFICES ASSUME NEW j \in Job, j \notin CleanupJob
                   PROVE  rows'[j].max_attempts = MaxAttempts[j]
      BY Zenon
    <3>3. CASE j \in S
      BY <1>2, <3>2, <3>3, Zenon
    <3>4. CASE j \notin S
      BY <1>3, <3>1, <3>2, <3>4, Zenon
    <3>. QED
      BY <3>3, <3>4
  <2>2. ASSUME NEW c \in claims', c.job \notin CleanupJob
        PROVE  /\ c.max_attempts = MaxAttempts[c.job]
               /\ c.outcome = "retry" => c.attempts < c.max_attempts
    <3>1. CASE c \in claims
      BY <2>2, <3>1 DEF TypeInv, BudgetKept
    <3>2. CASE c \notin claims
      <4>1. PICK j \in S : c = ClaimOf(r, j, via, ClaimTime(j, same))
        BY <3>2
      <4>. QED
        BY <1>2, <2>2, <4>1
    <3>. QED
      BY <3>1, <3>2
  <2>. QED
    BY <2>1, <2>2 DEF BudgetKept
<1>. QED
  BY <1>5, <1>6, <1>7 DEF TypeInv

LEMMA TypeInvTick ==
  ASSUME TypeInv, NEW r \in Runner, Tick(r)
  PROVE  TypeInv'
<1>1. PICK S \in SUBSET {j \in Job : Claimable(j)}, same \in SUBSET Job :
        /\ rows' = [j \in Job |->
             IF j \in S THEN Claimed(j, ClaimTime(j, same))
             ELSE IF Abandoned(j) THEN [rows[j] EXCEPT !.status = "failed"]
             ELSE rows[j]]
        /\ claims' = claims \cup
             {ClaimOf(r, j, Poll, ClaimTime(j, same)) : j \in S}
  BY Zenon DEF Tick
<1>. DEFINE A == {j \in Job : Abandoned(j)}
<1>2. ClaimStatement(S, A, r, Poll, same)
  BY <1>1, Zenon DEF ClaimStatement
<1>3. /\ deliveries' \subseteq Delivery
      /\ UNCHANGED <<ran, hooked, faults>>
  BY DEF Tick, TypeInv, TypeOK
<1>4. S \in SUBSET Job /\ \A j \in S : Claimable(j)
  OBVIOUS
<1>5. Poll \in {Poll} \cup Nat
  OBVIOUS
<1>. HIDE DEF A
<1>. QED
  BY <1>2, <1>3, <1>4, <1>5, TypeInvClaim, Zenon

LEMMA TypeInvDeliver ==
  ASSUME TypeInv, NEW r \in Runner, NEW d \in deliveries, Deliver(r, d)
  PROVE  TypeInv'
<1>1. d \in Delivery /\ deliveries \subseteq Delivery
  BY DEF TypeInv, TypeOK
<1>2. d.job \in Job /\ d.n \in {Poll} \cup Nat
  BY <1>1, Zenon DEF Delivery
<1>3. [d EXCEPT !.holder = r] \in Delivery
  BY <1>1, Zenon DEF Delivery
<1>4. deliveries' \subseteq Delivery
  BY <1>1, <1>3, Zenon DEF Deliver
<1>5. CASE Claimable(d.job)
  <2>1. PICK same \in SUBSET {d.job} :
          /\ rows' = [rows EXCEPT ![d.job] = Claimed(d.job, ClaimTime(d.job, same))]
          /\ claims' = claims \cup {ClaimOf(r, d.job, d.n, ClaimTime(d.job, same))}
    BY <1>5, Zenon DEF Deliver
  <2>. DEFINE S == {d.job}
  <2>2. ClaimStatement(S, {}, r, d.n, same)
    <3>1. rows \in [Job -> Row]
      BY DEF TypeInv, TypeOK
    <3>2. rows' = [j \in Job |->
             IF j \in S THEN Claimed(j, ClaimTime(j, same))
             ELSE IF j \in {} THEN [rows[j] EXCEPT !.status = "failed"]
             ELSE rows[j]]
      BY <1>2, <2>1, <3>1, Zenon
    <3>3. claims' = claims \cup
            {ClaimOf(r, j, d.n, ClaimTime(j, same)) : j \in S}
      BY <2>1, Zenon
    <3>. QED
      BY <3>2, <3>3, Zenon DEF ClaimStatement
  <2>4. S \in SUBSET Job /\ \A j \in S : Claimable(j)
    BY <1>2, <1>5
  <2>5. UNCHANGED <<ran, hooked, faults>>
    BY Zenon DEF Deliver
  <2>. HIDE DEF S
  <2>. QED
    BY <1>2, <1>4, <2>2, <2>4, <2>5, TypeInvClaim, Zenon
<1>6. CASE ~Claimable(d.job)
  <2>1. UNCHANGED <<rows, claims, ran, hooked, faults>>
    BY <1>6, Zenon DEF Deliver
  <2>. QED
    BY <1>4, <2>1, SameRowsAndClaims DEF TypeInv, TypeOK
<1>. QED
  BY <1>5, <1>6

LEMMA TypeInvEnvironment ==
  ASSUME TypeInv,
         \/ \E j \in Job : RequestCleanupDelivery(j)
         \/ \E r \in Runner : Crash(r)
         \/ \E d \in deliveries : DeliveryFault(d)
  PROVE  TypeInv'
<1>1. deliveries \subseteq Delivery /\ NoRunner \in Runner \cup {NoRunner}
  BY DEF TypeInv, TypeOK
<1>2. \A d \in deliveries : [d EXCEPT !.holder = NoRunner] \in Delivery
  BY <1>1, Zenon DEF Delivery
<1>3. ran \subseteq Job /\ hooked \subseteq Job /\ faults \in Nat
  BY DEF TypeInv, TypeOK
<1>4. CASE \E j \in Job : RequestCleanupDelivery(j)
  <2>1. PICK j \in Job : RequestCleanupDelivery(j)
    BY <1>4
  <2>2. 0 \in Nat
    OBVIOUS
  <2>3. deliveries' \subseteq Delivery
    BY <1>1, <2>1, <2>2, DeliveryType DEF RequestCleanupDelivery
  <2>. QED
    BY <1>3, <2>1, <2>3, SameRowsAndClaims DEF RequestCleanupDelivery
<1>5. CASE \E r \in Runner : Crash(r)
  <2>1. PICK r \in Runner : Crash(r)
    BY <1>5
  <2>2. deliveries' \subseteq Delivery
    BY <1>1, <1>2, <2>1, Zenon DEF Crash
  <2>3. faults' \in Nat
    BY <1>3, <2>1, SMT DEF Crash, Fault
  <2>4. claims' \subseteq claims /\ UNCHANGED <<rows, ran, hooked>>
    BY <2>1 DEF Crash
  <2>. QED
    BY <1>3, <2>2, <2>3, <2>4, SameRowsAndClaims
<1>6. CASE \E d \in deliveries : DeliveryFault(d)
  <2>1. PICK d \in deliveries : DeliveryFault(d)
    BY <1>6
  <2>2. deliveries' \subseteq Delivery
    BY <1>1, <1>2, <2>1, Zenon DEF DeliveryFault
  <2>3. faults' \in Nat
    BY <1>3, <2>1, SMT DEF DeliveryFault, Fault
  <2>4. UNCHANGED <<rows, claims, ran, hooked>>
    BY <2>1 DEF DeliveryFault
  <2>. QED
    BY <1>3, <2>2, <2>3, <2>4, SameRowsAndClaims
<1>. QED
  BY <1>4, <1>5, <1>6

(* The end of a handler, whatever it is.                                   *)
LEMMA TypeInvEnded ==
  ASSUME TypeInv, NEW c \in claims, NEW o \in Outcome, Ended(c, o),
         o = "retry" => ~Spent(c),
         ran' \subseteq Job, faults' \in Nat, UNCHANGED <<rows, deliveries, hooked>>
  PROVE  TypeInv'
<1>. DEFINE d == [job |-> c.job, runner |-> c.runner, via |-> c.via,
                  attempts |-> c.attempts, max_attempts |-> c.max_attempts,
                  claimed_at |-> c.claimed_at, canceled |-> c.canceled,
                  pc |-> "settle", outcome |-> o]
<1>1. c \in Claim
  BY DEF TypeInv, TypeOK
<1>2. d \in Claim
  BY <1>1, SMT DEF Claim, PreSettle
<1>3. claims' = (claims \ {c}) \cup {d}
  BY Zenon DEF Ended, Advance
<1>4. TypeOK'
  BY <1>2, <1>3 DEF TypeInv, TypeOK
<1>5. /\ d.job = c.job /\ d.attempts = c.attempts
      /\ d.max_attempts = c.max_attempts /\ d.outcome = o
  BY Zenon
<1>6. o = "retry" => c.job \in CleanupJob \/ c.attempts < c.max_attempts
  BY <1>1, MaxIntFact, SMT DEF Spent, Claim
<1>. HIDE DEF d
<1>. QED
  BY <1>2, <1>3, <1>4, <1>5, <1>6, AdvanceKept

LEMMA TypeInvHandler ==
  ASSUME TypeInv, NEW c \in claims,
         \/ HandlerReturns(c) \/ HandlerThrows(c) \/ HandlerRefuses(c)
         \/ HandlerDefers(c) \/ RejectUnknown(c)
  PROVE  TypeInv'
<1>1. c.job \in Job /\ ran \subseteq Job /\ faults \in Nat
  BY DEF TypeInv, TypeOK, Claim
<1>2. Applied(c) \subseteq Job
  BY <1>1 DEF Applied
<1>3. {"done", "retry", "defer", "spent", "unknown"} \subseteq Outcome
  BY DEF Outcome
<1>4. Fault \/ UNCHANGED faults => faults' \in Nat
  BY <1>1, SMT DEF Fault
<1>5. CASE HandlerReturns(c)
  <2>1. /\ Ended(c, "done") /\ ran' \subseteq Job /\ faults' \in Nat
        /\ UNCHANGED <<rows, deliveries, hooked>>
    BY <1>1, <1>2, <1>5, Zenon DEF HandlerReturns
  <2>. QED
    BY <1>3, <2>1, TypeInvEnded
<1>6. CASE HandlerThrows(c)
  <2>1. /\ Ended(c, IF Spent(c) THEN "spent" ELSE "retry")
        /\ UNCHANGED <<rows, deliveries, hooked>>
    BY <1>6, Zenon DEF HandlerThrows
  <2>2. ran' \subseteq Job /\ faults' \in Nat
    BY <1>1, <1>2, <1>4, <1>6, Zenon DEF HandlerThrows
  <2>3. CASE Spent(c)
    <3>1. Ended(c, "spent")
      BY <2>1, <2>3, Zenon
    <3>. QED
      BY <1>3, <2>1, <2>2, <3>1, TypeInvEnded
  <2>4. CASE ~Spent(c)
    <3>1. Ended(c, "retry")
      BY <2>1, <2>4, Zenon
    <3>. QED
      BY <1>3, <2>1, <2>2, <2>4, <3>1, TypeInvEnded
  <2>. QED
    BY <2>3, <2>4
<1>7. CASE HandlerRefuses(c)
  <2>1. /\ Ended(c, "spent") /\ ran' \subseteq Job /\ faults' \in Nat
        /\ UNCHANGED <<rows, deliveries, hooked>>
    BY <1>1, <1>7, Zenon DEF HandlerRefuses
  <2>. QED
    BY <1>3, <2>1, TypeInvEnded
<1>8. CASE HandlerDefers(c)
  <2>1. /\ Ended(c, "defer") /\ ran' \subseteq Job /\ faults' \in Nat
        /\ UNCHANGED <<rows, deliveries, hooked>>
    BY <1>1, <1>4, <1>8, Zenon DEF HandlerDefers
  <2>. QED
    BY <1>3, <2>1, TypeInvEnded
<1>9. CASE RejectUnknown(c)
  <2>1. /\ Ended(c, "unknown") /\ ran' \subseteq Job /\ faults' \in Nat
        /\ UNCHANGED <<rows, deliveries, hooked>>
    BY <1>1, <1>4, <1>9, Zenon DEF RejectUnknown
  <2>. QED
    BY <1>3, <2>1, TypeInvEnded
<1>. QED
  BY <1>5, <1>6, <1>7, <1>8, <1>9

(* The settling update leaves every row within its budget.                 *)
LEMMA SettledBudget ==
  ASSUME TypeInv, NEW c \in claims, Fence(c), Settled(c)
  PROVE  \A j \in Job \ CleanupJob :
           /\ rows'[j].max_attempts = rows[j].max_attempts
           /\ rows'[j].attempts <= rows'[j].max_attempts
           /\ rows'[j].status \in {"absent", "pending"} =>
                rows'[j].attempts < rows'[j].max_attempts
<1>. SUFFICES ASSUME NEW j \in Job, j \notin CleanupJob
              PROVE  /\ rows'[j].max_attempts = rows[j].max_attempts
                     /\ rows'[j].attempts <= rows'[j].max_attempts
                     /\ rows'[j].status \in {"absent", "pending"} =>
                          rows'[j].attempts < rows'[j].max_attempts
  OBVIOUS
<1>1. /\ rows \in [Job -> Row] /\ c \in Claim
      /\ c.job \in Job /\ rows[c.job] \in Row /\ rows[j] \in Row
      /\ c.attempts \in 0..MaxInt /\ c.max_attempts \in 1..MaxInt
  BY DEF TypeInv, TypeOK, Claim
<1>2. /\ rows[j].max_attempts = MaxAttempts[j]
      /\ rows[j].attempts <= rows[j].max_attempts
      /\ rows[j].status \in {"absent", "pending"} =>
           rows[j].attempts < rows[j].max_attempts
  BY DEF TypeInv, AttemptBudget, BudgetKept
<1>3. CASE j # c.job
  <2>1. rows'[j] = rows[j]
    BY <1>1, <1>3, Zenon DEF Settled
  <2>. QED
    BY <1>2, <2>1
<1>4. CASE j = c.job /\ c.outcome \in {"done", "spent", "unknown"}
  <2>1. \/ rows' = [rows EXCEPT ![c.job].status = "done"]
        \/ rows' = [rows EXCEPT ![c.job].status = "failed"]
    BY <1>4, Zenon DEF Settled
  <2>2. /\ rows'[j].attempts = rows[j].attempts
        /\ rows'[j].max_attempts = rows[j].max_attempts
        /\ rows'[j].status \in {"done", "failed"}
    BY <1>1, <1>4, <2>1, SMT DEF Row
  <2>. QED
    BY <1>2, <2>2
<1>5. CASE j = c.job /\ c.outcome \in {"retry", "defer"}
  <2>1. PICK a, due : /\ rows' = [rows EXCEPT ![c.job] = Requeued(c, a, due)]
                      /\ c.outcome = "retry" => a = rows[c.job].attempts
                      /\ c.outcome = "defer" => a = Refund(c)
    BY <1>5, Zenon DEF Settled
  <2>2. rows'[j] = Requeued(c, a, due)
    BY <1>1, <1>5, <2>1, Zenon
  <2>3. rows'[j].attempts = a /\ rows'[j].max_attempts = rows[j].max_attempts
    <3>1. /\ Requeued(c, a, due).attempts = a
          /\ c.job \notin CleanupJob =>
               Requeued(c, a, due).max_attempts = rows[c.job].max_attempts
      BY SMT DEF Requeued
    <3>. QED
      BY <1>5, <2>2, <3>1, Zenon
  <2>4. c.attempts = rows[j].attempts /\ c.max_attempts = rows[j].max_attempts
    BY <1>2, <1>5 DEF Fence, TypeInv, BudgetKept
  <2>5. CASE c.outcome = "retry"
    <3>1. c.attempts < c.max_attempts
      BY <1>5, <2>5 DEF TypeInv, BudgetKept
    <3>. QED
      BY <1>2, <1>5, <2>1, <2>3, <2>4, <2>5, <3>1
  <2>6. CASE c.outcome = "defer"
    <3>1. a = Refund(c) /\ Refund(c) < c.max_attempts
      BY <1>1, <1>2, <2>1, <2>4, <2>6, MaxIntFact, SMT DEF Refund
    <3>2. Refund(c) \in Int /\ c.max_attempts \in Int
      BY <1>1, MaxIntFact, SMT DEF Refund
    <3>. QED
      BY <2>3, <2>4, <3>1, <3>2, SMT
  <2>. QED
    BY <1>5, <2>5, <2>6
<1>. QED
  BY <1>3, <1>4, <1>5, Zenon DEF Settled

LEMMA FinishedType ==
  ASSUME TypeOK, NEW c \in claims, NEW D, D \subseteq Delivery, Finished(c, D)
  PROVE  deliveries' \subseteq Delivery /\ claims' \subseteq claims
  BY DEF Finished

(* After the update the claim is gone or at a later point of its run.      *)
LEMMA AfterSettleKept ==
  ASSUME TypeInv, NEW c \in claims, AfterSettle(c)
  PROVE  /\ claims' \subseteq Claim /\ deliveries' \subseteq Delivery
         /\ \A d \in claims' : \E e \in claims :
              /\ d.job = e.job /\ d.attempts = e.attempts
              /\ d.max_attempts = e.max_attempts /\ d.outcome = e.outcome
<1>1. c \in Claim /\ claims \subseteq Claim /\ deliveries \subseteq Delivery
  BY DEF TypeInv, TypeOK
<1>2. ASSUME NEW pc \in {"hook", "redeliver"}, Advance(c, [c EXCEPT !.pc = pc]),
             UNCHANGED deliveries
      PROVE  /\ claims' \subseteq Claim /\ deliveries' \subseteq Delivery
             /\ \A d \in claims' : \E e \in claims :
                  /\ d.job = e.job /\ d.attempts = e.attempts
                  /\ d.max_attempts = e.max_attempts /\ d.outcome = e.outcome
  <2>. DEFINE d == [c EXCEPT !.pc = pc]
  <2>1. d \in Claim
    BY <1>1, SMT DEF Claim
  <2>2. /\ d.job = c.job /\ d.attempts = c.attempts
        /\ d.max_attempts = c.max_attempts /\ d.outcome = c.outcome
    BY <1>1, SMT DEF Claim
  <2>3. claims' = (claims \ {c}) \cup {d}
    BY <1>2, Zenon DEF Advance
  <2>. HIDE DEF d
  <2>. QED
    BY <1>1, <1>2, <2>1, <2>2, <2>3, Zenon
<1>3. CASE Finished(c, deliveries)
  <2>1. deliveries' \subseteq Delivery /\ claims' \subseteq claims
    BY <1>1, <1>3, FinishedType DEF TypeInv
  <2>. QED
    BY <1>1, <2>1
<1>4. \/ Advance(c, [c EXCEPT !.pc = "hook"]) /\ UNCHANGED deliveries
      \/ Advance(c, [c EXCEPT !.pc = "redeliver"]) /\ UNCHANGED deliveries
      \/ Finished(c, deliveries)
  BY Zenon DEF AfterSettle
<1>5. CASE Advance(c, [c EXCEPT !.pc = "hook"]) /\ UNCHANGED deliveries
  BY <1>2, <1>5
<1>6. CASE Advance(c, [c EXCEPT !.pc = "redeliver"]) /\ UNCHANGED deliveries
  BY <1>2, <1>6
<1>. QED
  BY <1>3, <1>4, <1>5, <1>6

LEMMA TypeInvSettle ==
  ASSUME TypeInv, NEW c \in claims, Settle(c)
  PROVE  TypeInv'
<1>1. AfterSettle(c) /\ UNCHANGED <<ran, hooked>>
  BY Zenon DEF Settle
<1>2. \/ Fence(c) /\ Settled(c) /\ UNCHANGED faults
      \/ UNCHANGED rows /\ (Fault \/ UNCHANGED faults)
  BY Zenon DEF Settle
<1>3. rows' \in [Job -> Row]
  BY <1>2, SettledType DEF TypeInv, TypeOK
<1>4. faults' \in Nat
  BY <1>2, FaultType DEF TypeInv
<1>5. TypeOK'
  BY <1>1, <1>3, <1>4, AfterSettleKept DEF TypeInv, TypeOK
<1>6. \A j \in Job \ CleanupJob :
        /\ rows'[j].max_attempts = rows[j].max_attempts
        /\ rows'[j].attempts <= rows'[j].max_attempts
        /\ rows'[j].status \in {"absent", "pending"} =>
             rows'[j].attempts < rows'[j].max_attempts
  <2>1. CASE Fence(c) /\ Settled(c)
    BY <2>1, SettledBudget
  <2>2. CASE UNCHANGED rows
    BY <2>2 DEF TypeInv, AttemptBudget
  <2>. QED
    BY <1>2, <2>1, <2>2
<1>7. AttemptBudget'
  BY <1>6, Zenon DEF AttemptBudget
<1>8. BudgetKept'
  <2>1. \A j \in Job \ CleanupJob : rows'[j].max_attempts = MaxAttempts[j]
    BY <1>6 DEF TypeInv, BudgetKept
  <2>2. \A d \in claims' : \E e \in claims :
          /\ d.job = e.job /\ d.attempts = e.attempts
          /\ d.max_attempts = e.max_attempts /\ d.outcome = e.outcome
    BY <1>1, AfterSettleKept
  <2>. QED
    BY <2>1, <2>2 DEF TypeInv, BudgetKept
<1>. QED
  BY <1>5, <1>7, <1>8 DEF TypeInv

LEMMA TypeInvFinish ==
  ASSUME TypeInv, NEW c \in claims, RunHook(c) \/ Redeliver(c)
  PROVE  TypeInv'
<1>1. /\ c.job \in Job /\ c.attempts \in Nat /\ ran \subseteq Job
      /\ hooked \subseteq Job /\ faults \in Nat /\ deliveries \subseteq Delivery
  BY MaxIntFact, SMT DEF TypeInv, TypeOK, Claim
<1>2. WithDelivery(deliveries, c.job, c.attempts) \subseteq Delivery
  BY <1>1, DeliveryType
<1>3. PICK D : D \subseteq Delivery /\ Finished(c, D)
  BY <1>1, <1>2, Zenon DEF RunHook, Redeliver
<1>4. deliveries' \subseteq Delivery /\ claims' \subseteq claims
  BY <1>3, FinishedType DEF TypeInv
<1>5. ran' \subseteq Job /\ hooked' \subseteq Job /\ UNCHANGED <<rows, faults>>
  BY <1>1, Zenon DEF RunHook, Redeliver
<1>. QED
  BY <1>1, <1>4, <1>5, SameRowsAndClaims

LEMMA TypeInvNext == ASSUME TypeInv, [Next]_vars PROVE TypeInv'
<1>1. CASE UNCHANGED vars
  <2>1. /\ UNCHANGED <<rows, claims>> /\ deliveries' \subseteq Delivery
        /\ ran' \subseteq Job /\ hooked' \subseteq Job /\ faults' \in Nat
    BY <1>1, SMT DEF vars, TypeInv, TypeOK
  <2>. QED
    BY <2>1, SameRowsAndClaims
<1>2. CASE \E j \in Job : Enqueue(j)
  BY <1>2, TypeInvEnqueue
<1>3. CASE \E j \in Job : \/ BackoffElapses(j) \/ DeadClaimGoesStale(j)
                          \/ HungClaimGoesStale(j)
  <2>1. PICK j \in Job :
          \/ BackoffElapses(j)
          \/ GoesStale(j) /\ (Fault \/ UNCHANGED faults)
    BY <1>3, Zenon DEF DeadClaimGoesStale, HungClaimGoesStale
  <2>. QED
    BY <2>1, TypeInvTime
<1>4. CASE \E j \in Job : Sweep(j)
  BY <1>4, TypeInvSweep
<1>5. CASE \E k \in Key : Cancel(k)
  BY <1>5, TypeInvCancel
<1>6. CASE \E r \in Runner : Tick(r)
  BY <1>6, TypeInvTick
<1>7. CASE \E r \in Runner : \E d \in deliveries : Deliver(r, d)
  BY <1>7, TypeInvDeliver
<1>8. CASE \/ \E j \in Job : RequestCleanupDelivery(j)
           \/ \E r \in Runner : Crash(r)
           \/ \E d \in deliveries : DeliveryFault(d)
  BY <1>8, TypeInvEnvironment
<1>9. CASE \E c \in claims : ClaimStep(c)
  <2>1. PICK c \in claims : ClaimStep(c)
    BY <1>9
  <2>2. CASE \/ HandlerReturns(c) \/ HandlerThrows(c) \/ HandlerRefuses(c)
             \/ HandlerDefers(c) \/ RejectUnknown(c)
    BY <2>2, TypeInvHandler
  <2>3. CASE Settle(c)
    BY <2>3, TypeInvSettle
  <2>4. CASE RunHook(c) \/ Redeliver(c)
    BY <2>4, TypeInvFinish
  <2>. QED
    BY <2>1, <2>2, <2>3, <2>4 DEF ClaimStep
<1>. QED
  BY <1>1, <1>2, <1>3, <1>4, <1>5, <1>6, <1>7, <1>8, <1>9, Zenon DEF Next

(* Types and budgets together are inductive: no handler of the code breaks *)
(* them from any state that satisfies them.                                *)
THEOREM TypeInvariant == Spec => []TypeInv
<1>1. Init => TypeInv
  BY TypeInvInit
<1>2. TypeInv /\ [Next]_vars => TypeInv'
  BY TypeInvNext
<1>. QED
  BY <1>1, <1>2, PTL DEF Spec

(* The rows, claims and deliveries of every reachable state are those the  *)
(* table, the job objects and BullMQ can hold.                             *)
THEOREM TypeCorrect == Spec => []TypeOK
<1>1. TypeInv => TypeOK
  BY DEF TypeInv
<1>. QED
  BY <1>1, TypeInvariant, PTL

(* No crash, stale reclaim, cancellation, refund or late writer ever lets  *)
(* an ordinary row be attempted more often than it was inserted for: the   *)
(* budget checks of the two SQL claim functions and of processClaimedJob   *)
(* agree.                                                                  *)
THEOREM BudgetCorrect == Spec => []AttemptBudget
<1>1. TypeInv => AttemptBudget
  BY DEF TypeInv
<1>. QED
  BY <1>1, TypeInvariant, PTL

-----------------------------------------------------------------------------
(* How a step moves a row.                                                 *)

(* Row j may be deleted: by retention, or by the cancellation of its key.  *)
Deletable(j) ==
  \/ j \notin CleanupJob
  \/ rows[j].status = "done"
  \/ rows[j].dedupe_key \in CancelKey

(* Row j is left alone, flagged, deleted, or failed as abandoned.          *)
RowQuiet(j) ==
  /\ rows'[j].dedupe_key = rows[j].dedupe_key
  /\ rows'[j].claimed_at = rows[j].claimed_at
  /\ rows'[j].attempts = rows[j].attempts
  /\ rows'[j].max_attempts = rows[j].max_attempts
  /\ \/ rows'[j].status = rows[j].status
     \/ rows'[j].status = "deleted" /\ Deletable(j)
     \/ /\ rows'[j].status = "failed"
        /\ rows[j].status = "running" /\ j \notin CleanupJob

LEMMA QuietTick ==
  ASSUME TypeInv, NEW j \in Job,
         \/ rows'[j] = rows[j]
         \/ Abandoned(j) /\ rows'[j] = [rows[j] EXCEPT !.status = "failed"]
         \/ Deletable(j) /\ rows'[j] = [rows[j] EXCEPT !.status = "deleted"]
         \/ \E b \in BOOLEAN : \/ rows'[j] = [rows[j] EXCEPT !.due = b]
                              \/ rows'[j] = [rows[j] EXCEPT !.stale = b]
                              \/ rows'[j] = [rows[j] EXCEPT !.canceled = b]
  PROVE  RowQuiet(j)
<1>1. rows[j] \in Row
  BY DEF TypeInv, TypeOK
<1>2. CASE rows'[j] = rows[j]
  BY <1>2 DEF RowQuiet
<1>3. CASE Abandoned(j) /\ rows'[j] = [rows[j] EXCEPT !.status = "failed"]
  BY <1>1, <1>3, SMT DEF RowQuiet, Row, Abandoned
<1>4. CASE Deletable(j) /\ rows'[j] = [rows[j] EXCEPT !.status = "deleted"]
  BY <1>1, <1>4, SMT DEF RowQuiet, Row
<1>5. ASSUME NEW b \in BOOLEAN,
             \/ rows'[j] = [rows[j] EXCEPT !.due = b]
             \/ rows'[j] = [rows[j] EXCEPT !.stale = b]
             \/ rows'[j] = [rows[j] EXCEPT !.canceled = b]
      PROVE  RowQuiet(j)
  BY <1>1, <1>5, SMT DEF RowQuiet, Row
<1>. QED
  BY <1>2, <1>3, <1>4, <1>5

(* The steps that neither insert, claim nor settle a row.                  *)
LEMMA QuietSteps ==
  ASSUME TypeInv,
         \/ UNCHANGED rows
         \/ \E j \in Job : BackoffElapses(j) \/ GoesStale(j) \/ Sweep(j)
         \/ \E k \in Key : Cancel(k)
  PROVE  \A j \in Job : RowQuiet(j)
<1>. SUFFICES ASSUME NEW j \in Job PROVE RowQuiet(j)
  OBVIOUS
<1>1. rows \in [Job -> Row]
  BY DEF TypeInv, TypeOK
<1>2. TRUE \in BOOLEAN
  OBVIOUS
<1>3. CASE UNCHANGED rows
  BY <1>3, QuietTick
<1>4. CASE \E i \in Job : BackoffElapses(i) \/ GoesStale(i) \/ Sweep(i)
  <2>1. PICK i \in Job : BackoffElapses(i) \/ GoesStale(i) \/ Sweep(i)
    BY <1>4
  <2>2. \/ rows'[j] = rows[j]
        \/ Deletable(j) /\ rows'[j] = [rows[j] EXCEPT !.status = "deleted"]
        \/ rows'[j] = [rows[j] EXCEPT !.due = TRUE]
        \/ rows'[j] = [rows[j] EXCEPT !.stale = TRUE]
    BY <1>1, <2>1, Zenon
       DEF BackoffElapses, GoesStale, Sweep, Expired, Deletable
  <2>. QED
    BY <1>2, <2>2, QuietTick, Zenon
<1>5. CASE \E k \in Key : Cancel(k)
  <2>1. \/ rows'[j] = rows[j]
        \/ Deletable(j) /\ rows'[j] = [rows[j] EXCEPT !.status = "deleted"]
        \/ rows'[j] = [rows[j] EXCEPT !.canceled = TRUE]
    BY <1>5, Zenon DEF Cancel, Deletable
  <2>. QED
    BY <1>2, <2>1, QuietTick, Zenon
<1>. QED
  BY <1>3, <1>4, <1>5

(* The settling update ends row c.job or puts it back in the queue; it     *)
(* leaves its key and its timestamp, and every other row, alone.           *)
LEMMA SettledRow ==
  ASSUME TypeInv, NEW c \in claims, Settled(c), NEW j \in Job
  PROVE  /\ rows'[j].dedupe_key = rows[j].dedupe_key
         /\ rows'[j].claimed_at = rows[j].claimed_at
         /\ j # c.job => rows'[j] = rows[j]
         /\ j = c.job => rows'[j].status \in {"done", "failed", "pending"}
<1>1. /\ rows \in [Job -> Row] /\ c.job \in Job /\ rows[j] \in Row
      /\ rows[c.job] \in Row
  BY DEF TypeInv, TypeOK, Claim
<1>2. \/ rows' = [rows EXCEPT ![c.job].status = "done"]
      \/ rows' = [rows EXCEPT ![c.job].status = "failed"]
      \/ \E a, due : rows' = [rows EXCEPT ![c.job] = Requeued(c, a, due)]
  BY Zenon DEF Settled
<1>3. ASSUME NEW s \in {"done", "failed"}, rows' = [rows EXCEPT ![c.job].status = s]
      PROVE  /\ rows'[j].dedupe_key = rows[j].dedupe_key
             /\ rows'[j].claimed_at = rows[j].claimed_at
             /\ j # c.job => rows'[j] = rows[j]
             /\ j = c.job => rows'[j].status \in {"done", "failed", "pending"}
  BY <1>1, <1>3, SMT DEF Row
<1>4. ASSUME NEW a, NEW due, rows' = [rows EXCEPT ![c.job] = Requeued(c, a, due)]
      PROVE  /\ rows'[j].dedupe_key = rows[j].dedupe_key
             /\ rows'[j].claimed_at = rows[j].claimed_at
             /\ j # c.job => rows'[j] = rows[j]
             /\ j = c.job => rows'[j].status \in {"done", "failed", "pending"}
  <2>1. rows'[j] = IF j = c.job THEN Requeued(c, a, due) ELSE rows[j]
    BY <1>1, <1>4, Zenon
  <2>2. /\ Requeued(c, a, due).status = "pending"
        /\ Requeued(c, a, due).dedupe_key = rows[c.job].dedupe_key
        /\ Requeued(c, a, due).claimed_at = rows[c.job].claimed_at
    BY SMT DEF Requeued
  <2>. QED
    BY <2>1, <2>2, Zenon
<1>5. CASE rows' = [rows EXCEPT ![c.job].status = "done"]
  BY <1>3, <1>5
<1>6. CASE rows' = [rows EXCEPT ![c.job].status = "failed"]
  BY <1>3, <1>6
<1>. QED
  BY <1>2, <1>4, <1>5, <1>6

(* A handler ends; a hooked row is "spent" only when its budget is.        *)
HandlerOver(c, o) ==
  /\ c.pc = "handler" /\ Ended(c, o)
  /\ o = "spent" /\ c.job \in HookedJob => Spent(c)

(* Every step is an insertion, a claim, a settlement or a quiet one.       *)
LEMMA StepKinds ==
  ASSUME TypeInv, [Next]_vars
  PROVE  \/ \E j \in Job : Enqueue(j)
         \/ \E r \in Runner : Tick(r)
         \/ \E r \in Runner : \E d \in deliveries :
              Claimable(d.job) /\ Deliver(r, d)
         \/ \E c \in claims : Settle(c)
         \/ /\ \A j \in Job : RowQuiet(j)
            /\ \/ claims' \subseteq claims
               \/ \E c \in claims : \E o : HandlerOver(c, o)
<1>1. CASE UNCHANGED vars
  <2>1. UNCHANGED rows /\ claims' \subseteq claims
    BY <1>1, SMT DEF vars
  <2>. QED
    BY <2>1, QuietSteps, Zenon
<1>2. CASE \E j \in Job :
             \/ BackoffElapses(j) \/ GoesStale(j) \/ Sweep(j)
             \/ RequestCleanupDelivery(j)
  <2>1. claims' \subseteq claims
    BY <1>2, Zenon DEF BackoffElapses, GoesStale, Sweep, RequestCleanupDelivery
  <2>2. \/ UNCHANGED rows
        \/ \E j \in Job : BackoffElapses(j) \/ GoesStale(j) \/ Sweep(j)
    BY <1>2, Zenon DEF RequestCleanupDelivery
  <2>. QED
    BY <2>1, <2>2, QuietSteps, Zenon
<1>3. CASE \E k \in Key : Cancel(k)
  <2>1. claims' \subseteq claims
    BY <1>3, Zenon DEF Cancel
  <2>. QED
    BY <1>3, <2>1, QuietSteps, Zenon
<1>4. CASE \/ \E r \in Runner : Crash(r)
           \/ \E d \in deliveries : DeliveryFault(d)
           \/ \E r \in Runner : \E d \in deliveries :
                ~Claimable(d.job) /\ Deliver(r, d)
  <2>1. claims' \subseteq claims /\ UNCHANGED rows
    BY <1>4, Zenon DEF Crash, DeliveryFault, Deliver
  <2>. QED
    BY <2>1, QuietSteps, Zenon
<1>5. CASE \E c \in claims : ClaimStep(c) /\ ~Settle(c)
  <2>1. PICK c \in claims : ClaimStep(c) /\ ~Settle(c)
    BY <1>5
  <2>2. UNCHANGED rows
    BY <2>1, Zenon DEF ClaimStep, HandlerReturns, HandlerThrows, HandlerRefuses,
                       HandlerDefers, RejectUnknown, RunHook, Redeliver
  <2>3. CASE RunHook(c) \/ Redeliver(c)
    BY <2>2, <2>3, QuietSteps, Zenon DEF RunHook, Redeliver, Finished
  <2>4. CASE HandlerThrows(c)
    <3>1. \/ Ended(c, "spent") /\ Spent(c)
          \/ Ended(c, "retry")
      BY <2>4, Zenon DEF HandlerThrows
    <3>2. HandlerOver(c, "spent") \/ HandlerOver(c, "retry")
      BY <2>4, <3>1, SMT DEF HandlerThrows, HandlerOver
    <3>. QED
      BY <2>1, <2>2, <3>2, QuietSteps, Zenon
  <2>5. CASE HandlerRefuses(c)
    <3>1. HandlerOver(c, "spent")
      BY <2>5, ConstAssumption, SMT DEF HandlerRefuses, HandlerOver
    <3>. QED
      BY <2>1, <2>2, <3>1, QuietSteps, Zenon
  <2>6. CASE HandlerReturns(c) \/ HandlerDefers(c) \/ RejectUnknown(c)
    <3>1. \E o \in {"done", "defer", "unknown"} : c.pc = "handler" /\ Ended(c, o)
      BY <2>6, Zenon DEF HandlerReturns, HandlerDefers, RejectUnknown
    <3>2. PICK o \in {"done", "defer", "unknown"} : c.pc = "handler" /\ Ended(c, o)
      BY <3>1
    <3>3. HandlerOver(c, o)
      BY <3>2, SMT DEF HandlerOver
    <3>. QED
      BY <2>1, <2>2, <3>3, QuietSteps, Zenon
  <2>. QED
    BY <2>1, <2>3, <2>4, <2>5, <2>6, Zenon DEF ClaimStep
<1>. QED
  BY <1>1, <1>2, <1>3, <1>4, <1>5, Zenon
     DEF Next, DeadClaimGoesStale, HungClaimGoesStale

-----------------------------------------------------------------------------
(* One live row of a dedupe key.                                           *)

(* Row j is not newly live under a key.                                    *)
NotNewlyLive(j) ==
  rows'[j].status \in Live =>
    \/ rows'[j].dedupe_key = NoKey
    \/ rows[j].status \in Live /\ rows'[j].dedupe_key = rows[j].dedupe_key

LEMMA KeysKept ==
  ASSUME OneLivePerKey, \A j \in Job : NotNewlyLive(j)
  PROVE  OneLivePerKey'
  BY Zenon DEF OneLivePerKey, NotNewlyLive

LEMMA QuietKey == ASSUME NEW j \in Job, RowQuiet(j) PROVE NotNewlyLive(j)
  BY DEF RowQuiet, NotNewlyLive, Live

(* A claim revives no key: the failed row it takes loses its key.          *)
LEMMA ClaimedKey ==
  ASSUME NEW j \in Job, NEW t, Claimable(j), rows'[j] = Claimed(j, t)
  PROVE  NotNewlyLive(j)
<1>1. rows'[j].dedupe_key = IF rows[j].status = "failed" THEN NoKey
                                                         ELSE rows[j].dedupe_key
  BY SMT DEF Claimed
<1>2. rows[j].status \in Live \cup {"failed"}
  BY Zenon DEF Claimable, Live
<1>. QED
  BY <1>1, <1>2, Zenon DEF NotNewlyLive

(* Process r is handed the rows S, one by one; the others stay quiet.      *)
Hands(r, via, S, same) ==
  /\ \A j \in S : /\ Claimable(j)
                  /\ rows'[j] = Claimed(j, ClaimTime(j, same))
  /\ \A j \in Job \ S : RowQuiet(j)
  /\ claims' = claims \cup {ClaimOf(r, j, via, ClaimTime(j, same)) : j \in S}

LEMMA TickRows ==
  ASSUME TypeInv, NEW r \in Runner, Tick(r)
  PROVE  \E S, same \in SUBSET Job : Hands(r, Poll, S, same)
<1>1. PICK S \in SUBSET {j \in Job : Claimable(j)}, same \in SUBSET Job :
        /\ rows' = [j \in Job |->
             IF j \in S THEN Claimed(j, ClaimTime(j, same))
             ELSE IF Abandoned(j) THEN [rows[j] EXCEPT !.status = "failed"]
             ELSE rows[j]]
        /\ claims' = claims \cup
             {ClaimOf(r, j, Poll, ClaimTime(j, same)) : j \in S}
  BY Zenon DEF Tick
<1>2. \A j \in S : Claimable(j) /\ rows'[j] = Claimed(j, ClaimTime(j, same))
  BY <1>1, Zenon
<1>3. ASSUME NEW j \in Job \ S PROVE RowQuiet(j)
  <2>1. \/ rows'[j] = rows[j]
        \/ Abandoned(j) /\ rows'[j] = [rows[j] EXCEPT !.status = "failed"]
    BY <1>1, <1>3, Zenon
  <2>. QED
    BY <2>1, QuietTick, Zenon
<1>4. S \in SUBSET Job
  OBVIOUS
<1>. QED
  BY <1>1, <1>2, <1>3, <1>4, Zenon DEF Hands

LEMMA DeliverRows ==
  ASSUME TypeInv, NEW r \in Runner, NEW d \in deliveries, Claimable(d.job),
         Deliver(r, d)
  PROVE  \E S, same \in SUBSET Job : Hands(r, d.n, S, same)
<1>1. d.job \in Job /\ rows \in [Job -> Row]
  BY DEF TypeInv, TypeOK, Delivery
<1>2. PICK same \in SUBSET {d.job} :
        /\ rows' = [rows EXCEPT ![d.job] = Claimed(d.job, ClaimTime(d.job, same))]
        /\ claims' = claims \cup {ClaimOf(r, d.job, d.n, ClaimTime(d.job, same))}
  BY Zenon DEF Deliver
<1>. DEFINE S == {d.job}
<1>3. \A j \in S : Claimable(j) /\ rows'[j] = Claimed(j, ClaimTime(j, same))
  BY <1>1, <1>2, Zenon
<1>4. ASSUME NEW j \in Job \ S PROVE RowQuiet(j)
  <2>1. rows'[j] = rows[j]
    BY <1>1, <1>2, <1>4, Zenon
  <2>. QED
    BY <2>1, QuietTick, Zenon
<1>5. claims' = claims \cup {ClaimOf(r, j, d.n, ClaimTime(j, same)) : j \in S}
  BY <1>2, Zenon
<1>6. S \in SUBSET Job /\ same \in SUBSET Job
  BY <1>1
<1>. HIDE DEF S
<1>. QED
  BY <1>3, <1>4, <1>5, <1>6, Zenon DEF Hands

LEMMA KeysEnqueue ==
  ASSUME TypeInv, OneLivePerKey, NEW j \in Job, Enqueue(j)
  PROVE  OneLivePerKey'
<1>1. PICK due \in BOOLEAN :
        rows' = [rows EXCEPT ![j] = Fresh(j, "pending", due)]
  BY Zenon DEF Enqueue
<1>2. Fresh(j, "pending", due).dedupe_key = KeyOf[j]
  BY SMT DEF Fresh
<1>3. \A i \in Job : rows'[i] = IF i = j THEN Fresh(j, "pending", due) ELSE rows[i]
  BY <1>1, Zenon DEF TypeInv, TypeOK
<1>4. KeyOf[j] # NoKey => \A i \in Job :
        rows[i].status \in Live => rows[i].dedupe_key # KeyOf[j]
  BY Zenon DEF Enqueue, LiveKey
<1>5. SUFFICES ASSUME NEW a \in Job, NEW b \in Job, a # b,
                      rows'[a].status \in Live, rows'[b].status \in Live,
                      rows'[a].dedupe_key # NoKey
               PROVE  rows'[a].dedupe_key # rows'[b].dedupe_key
  BY Zenon DEF OneLivePerKey
<1>6. CASE a # j /\ b # j
  BY <1>3, <1>5, <1>6, Zenon DEF OneLivePerKey
<1>7. CASE a = j
  <2>1. rows'[a].dedupe_key = KeyOf[j] /\ rows'[b] = rows[b]
    BY <1>2, <1>3, <1>5, <1>7, Zenon
  <2>. QED
    BY <1>4, <1>5, <2>1, Zenon
<1>8. CASE b = j
  <2>1. rows'[b].dedupe_key = KeyOf[j] /\ rows'[a] = rows[a]
    BY <1>2, <1>3, <1>5, <1>8, Zenon
  <2>. QED
    BY <1>4, <1>5, <2>1, Zenon
<1>. QED
  BY <1>6, <1>7, <1>8

LEMMA KeysClaim ==
  ASSUME NEW S \in SUBSET Job, NEW same, NEW r, NEW via,
         Hands(r, via, S, same), OneLivePerKey
  PROVE  OneLivePerKey'
<1>1. \A j \in S : NotNewlyLive(j)
  BY ClaimedKey DEF Hands
<1>2. \A j \in Job \ S : NotNewlyLive(j)
  BY QuietKey DEF Hands
<1>. QED
  BY <1>1, <1>2, KeysKept

LEMMA KeysNext ==
  ASSUME TypeInv, OneLivePerKey, [Next]_vars
  PROVE  OneLivePerKey'
<1>1. CASE \E j \in Job : Enqueue(j)
  BY <1>1, KeysEnqueue
<1>2. CASE \E r \in Runner : Tick(r)
  <2>1. PICK r \in Runner : Tick(r)
    BY <1>2
  <2>2. PICK S, same \in SUBSET Job : Hands(r, Poll, S, same)
    BY <2>1, TickRows, Zenon
  <2>. QED
    BY <2>2, KeysClaim, Zenon
<1>3. CASE \E r \in Runner : \E d \in deliveries :
             Claimable(d.job) /\ Deliver(r, d)
  <2>1. PICK r \in Runner, d \in deliveries : Claimable(d.job) /\ Deliver(r, d)
    BY <1>3
  <2>2. PICK S, same \in SUBSET Job : Hands(r, d.n, S, same)
    BY <2>1, DeliverRows, Zenon
  <2>. QED
    BY <2>2, KeysClaim, Zenon
<1>4. CASE \E c \in claims : Settle(c)
  <2>1. PICK c \in claims : Settle(c)
    BY <1>4
  <2>2. CASE UNCHANGED rows
    BY <2>2, KeysKept DEF NotNewlyLive
  <2>3. CASE Fence(c) /\ Settled(c)
    <3>1. \A j \in Job : NotNewlyLive(j)
      BY <2>3, SettledRow DEF NotNewlyLive, Fence, Live
    <3>. QED
      BY <3>1, KeysKept
  <2>. QED
    BY <2>1, <2>2, <2>3, Zenon DEF Settle
<1>5. CASE \A j \in Job : RowQuiet(j)
  BY <1>5, QuietKey, KeysKept
<1>. QED
  BY <1>1, <1>2, <1>3, <1>4, <1>5, StepKinds

(* Enqueue, retries, stale reclaims, revivals and late writers of any      *)
(* number of processes leave at most one live row of a dedupe key.         *)
THEOREM KeysCorrect == Spec => []OneLivePerKey
<1>1. Init => OneLivePerKey
  <2>1. ASSUME Init PROVE \A j \in Job : rows[j].status = "absent"
    <3>1. \A j \in Job : rows[j] = Fresh(j, "absent", FALSE)
      BY <2>1, Zenon DEF Init
    <3>2. \A j \in Job : Fresh(j, "absent", FALSE).status = "absent"
      BY SMT DEF Fresh
    <3>. QED
      BY <3>1, <3>2
  <2>. QED
    BY <2>1 DEF OneLivePerKey, Live
<1>2. TypeInv /\ OneLivePerKey /\ [Next]_vars => OneLivePerKey'
  BY KeysNext
<1>. QED
  BY <1>1, <1>2, TypeInvariant, PTL DEF Spec

-----------------------------------------------------------------------------
(* The fence names one claim.                                              *)

(* Claim c may still write, and its timestamp is the one of its row.       *)
Current(c) ==
  c.pc \in PreSettle /\ c.claimed_at = rows[c.job].claimed_at

(* No claim is younger than its row; a row that can be claimed without     *)
(* moving its timestamp has no current claim; and no row has two.          *)
FenceInv ==
  /\ \A c \in claims :
       /\ rows[c.job].status # "absent"
       /\ c.pc \in PreSettle => c.claimed_at <= rows[c.job].claimed_at
       /\ Current(c) =>
            /\ rows[c.job].status # "pending"
            /\ rows[c.job].status = "failed" => c.job \notin CleanupJob
  /\ \A c, d \in claims : c.job = d.job /\ Current(c) /\ Current(d) => c = d

(* Claim x goes back to claim e of the state before.                       *)
Origin(x, e) ==
  /\ x.job = e.job /\ x.claimed_at = e.claimed_at
  /\ x.attempts = e.attempts /\ x.max_attempts = e.max_attempts
  /\ x.pc \in PreSettle => e.pc \in PreSettle
  /\ x.pc # "redeliver" => e.pc # "redeliver"

(* Every claim goes back to one of its own.                                *)
Descended ==
  \A x, y \in claims' : \E e, g \in claims :
    Origin(x, e) /\ Origin(y, g) /\ (e = g => x = y)

(* Claims were dropped, and c alone may have become d.                     *)
LEMMA OneAdvances ==
  ASSUME NEW c \in claims, NEW d, Origin(d, c),
         claims' \subseteq (claims \ {c}) \cup {d}
  PROVE  Descended
<1>1. \A x \in claims \ {c} : Origin(x, x)
  BY Zenon DEF Origin
<1>2. \A x \in claims' : IF x = d THEN Origin(x, c)
                                ELSE x \in claims \ {c} /\ Origin(x, x)
  BY <1>1, Zenon
<1>3. ASSUME NEW x \in claims', NEW y \in claims'
      PROVE  \E e, g \in claims :
               Origin(x, e) /\ Origin(y, g) /\ (e = g => x = y)
  <2>1. CASE x = d /\ y = d
    BY <2>1
  <2>2. CASE x = d /\ y # d
    BY <1>2, <2>2, Zenon
  <2>3. CASE x # d /\ y = d
    BY <1>2, <2>3, Zenon
  <2>4. CASE x # d /\ y # d
    BY <1>2, <2>4, Zenon
  <2>. QED
    BY <2>1, <2>2, <2>3, <2>4
<1>. QED
  BY <1>3, Zenon DEF Descended

LEMMA NoneAdvances == ASSUME claims' \subseteq claims PROVE Descended
<1>1. \A x \in claims' : x \in claims /\ Origin(x, x)
  BY Zenon DEF Origin
<1>. QED
  BY <1>1 DEF Descended

LEMMA QuietClaims ==
  ASSUME \/ claims' \subseteq claims
         \/ \E c \in claims : \E o : HandlerOver(c, o)
  PROVE  Descended
<1>1. CASE \E c \in claims : \E o : HandlerOver(c, o)
  <2>1. PICK c \in claims : \E o : HandlerOver(c, o)
    BY <1>1
  <2>2. PICK o : HandlerOver(c, o)
    BY <2>1
  <2>. DEFINE d == [job |-> c.job, runner |-> c.runner, via |-> c.via,
                    attempts |-> c.attempts, max_attempts |-> c.max_attempts,
                    claimed_at |-> c.claimed_at, canceled |-> c.canceled,
                    pc |-> "settle", outcome |-> o]
  <2>3. claims' = (claims \ {c}) \cup {d}
    BY <2>2, Zenon DEF HandlerOver, Ended, Advance
  <2>4. c.pc = "handler"
    BY <2>2, Zenon DEF HandlerOver
  <2>5. c.pc \in PreSettle /\ c.pc # "redeliver"
    BY <2>4 DEF PreSettle
  <2>6. Origin(d, c)
    BY <2>5, Zenon DEF Origin
  <2>. HIDE DEF d
  <2>. QED
    BY <2>3, <2>6, OneAdvances, Zenon
<1>. QED
  BY <1>1, NoneAdvances

LEMMA FenceDescends ==
  ASSUME FenceInv, TypeOK, \A j \in Job : RowQuiet(j), Descended
  PROVE  FenceInv'
<1>1. ASSUME NEW x \in claims', NEW e \in claims, Origin(x, e)
      PROVE  /\ x.job \in Job /\ x.job = e.job
             /\ Current(x)' => Current(e)
             /\ rows'[x.job].status # "absent"
             /\ x.pc \in PreSettle => x.claimed_at <= rows'[x.job].claimed_at
             /\ Current(x)' =>
                  /\ rows'[x.job].status # "pending"
                  /\ rows'[x.job].status = "failed" => x.job \notin CleanupJob
  <2>1. x.job \in Job /\ x.job = e.job
    BY <1>1 DEF TypeOK, Claim, Origin
  <2>2. RowQuiet(x.job)
    BY <2>1
  <2>3. Current(x)' => Current(e)
    BY <1>1, <2>1, <2>2, Zenon DEF Current, Origin, RowQuiet
  <2>4. rows'[x.job].status # "absent"
    BY <2>1, <2>2 DEF FenceInv, RowQuiet
  <2>5. x.pc \in PreSettle => x.claimed_at <= rows'[x.job].claimed_at
    BY <1>1, <2>1, <2>2, Zenon DEF FenceInv, RowQuiet, Origin
  <2>6. Current(e) => /\ rows[x.job].status # "pending"
                      /\ rows[x.job].status = "failed" => x.job \notin CleanupJob
    BY <2>1 DEF FenceInv
  <2>. QED
    BY <2>1, <2>2, <2>3, <2>4, <2>5, <2>6 DEF RowQuiet
<1>2. \A x \in claims' : \E e \in claims : Origin(x, e)
  BY Zenon DEF Descended
<1>3. \A x, y \in claims' : x.job = y.job /\ Current(x)' /\ Current(y)' => x = y
  <2>1. SUFFICES ASSUME NEW x \in claims', NEW y \in claims', x.job = y.job,
                        Current(x)', Current(y)'
                 PROVE  x = y
    BY Zenon
  <2>2. PICK e \in claims, g \in claims :
          Origin(x, e) /\ Origin(y, g) /\ (e = g => x = y)
    BY Zenon DEF Descended
  <2>3. e.job = g.job /\ Current(e) /\ Current(g)
    BY <1>1, <2>1, <2>2, Zenon
  <2>. QED
    BY <2>2, <2>3, Zenon DEF FenceInv
<1>. QED
  BY <1>1, <1>2, <1>3, Zenon DEF FenceInv

LEMMA FenceEnqueue ==
  ASSUME FenceInv, TypeOK, NEW j \in Job, Enqueue(j)
  PROVE  FenceInv'
<1>1. \A c \in claims : c.job # j
  BY DEF FenceInv, Enqueue
<1>2. claims' = claims
  BY DEF Enqueue
<1>3. PICK due \in BOOLEAN :
        rows' = [rows EXCEPT ![j] = Fresh(j, "pending", due)]
  BY Zenon DEF Enqueue
<1>4. \A c \in claims : rows'[c.job] = rows[c.job]
  <2>1. rows \in [Job -> Row] /\ \A c \in claims : c.job \in Job
    BY DEF TypeOK, Claim
  <2>. QED
    BY <1>1, <1>3, <2>1, Zenon
<1>5. \A c \in claims : Current(c)' <=> Current(c)
  BY <1>4 DEF Current
<1>. QED
  BY <1>2, <1>4, <1>5, Zenon DEF FenceInv

(* The claim of row j gets a timestamp no claim that may write carries.    *)
LEMMA ClaimIsNewest ==
  ASSUME FenceInv, TypeOK, NEW j \in Job, Claimable(j), NEW same,
         NEW c \in claims, c.job = j, c.pc \in PreSettle
  PROVE  c.claimed_at < ClaimTime(j, same)
<1>1. c.claimed_at \in Nat /\ rows[j].claimed_at \in Nat
  BY DEF TypeOK, Claim, Row
<1>2. c.claimed_at <= rows[j].claimed_at
  BY DEF FenceInv
<1>3. rows[j].status # "running" => c.claimed_at # rows[j].claimed_at
  BY DEF Claimable, FenceInv, Current
<1>. QED
  BY <1>1, <1>2, <1>3, SMT DEF ClaimTime

LEMMA FenceClaim ==
  ASSUME FenceInv, TypeInv, NEW S \in SUBSET Job, NEW same, NEW r, NEW via,
         Hands(r, via, S, same)
  PROVE  FenceInv'
<1>. USE DEF Hands
<1>. DEFINE new(j) == ClaimOf(r, j, via, ClaimTime(j, same))
<1>1. ASSUME NEW j \in S
      PROVE  /\ rows'[j].status = "running"
             /\ rows'[j].claimed_at = ClaimTime(j, same)
             /\ ClaimTime(j, same) \in Nat
             /\ new(j).job = j
             /\ new(j).claimed_at = ClaimTime(j, same)
  <2>1. /\ Claimed(j, ClaimTime(j, same)).status = "running"
        /\ Claimed(j, ClaimTime(j, same)).claimed_at = ClaimTime(j, same)
    BY SMT DEF Claimed
  <2>2. rows[j].claimed_at \in Nat
    BY DEF TypeInv, TypeOK, Row
  <2>3. ClaimTime(j, same) \in Nat
    BY <2>2, SMT DEF ClaimTime
  <2>. QED
    BY <2>1, <2>3, Zenon DEF ClaimOf
<1>2. ASSUME NEW c \in claims
      PROVE  /\ c.job \in Job
             /\ c.job \in S /\ c.pc \in PreSettle =>
                  c.claimed_at < rows'[c.job].claimed_at
             /\ c.job \notin S => RowQuiet(c.job)
  <2>1. c.job \in Job
    BY DEF TypeInv, TypeOK, Claim
  <2>2. c.job \in S /\ c.pc \in PreSettle =>
          c.claimed_at < ClaimTime(c.job, same)
    BY <2>1, ClaimIsNewest, Zenon DEF TypeInv
  <2>. QED
    BY <1>1, <2>1, <2>2, Zenon
<1>. HIDE DEF new
<1>3. \A c \in claims' : c \in claims \/ \E j \in S : c = new(j)
  BY DEF new
<1>4. ASSUME NEW c \in claims
      PROVE  /\ rows'[c.job].status # "absent"
             /\ c.pc \in PreSettle => c.claimed_at <= rows'[c.job].claimed_at
             /\ Current(c)' =>
                  /\ c.job \notin S /\ Current(c)
                  /\ rows'[c.job].status # "pending"
                  /\ rows'[c.job].status = "failed" => c.job \notin CleanupJob
  <2>1. c.claimed_at \in Nat
    BY DEF TypeInv, TypeOK, Claim
  <2>2. CASE c.job \in S
    <3>1. /\ rows'[c.job].status = "running" /\ rows'[c.job].claimed_at \in Nat
          /\ c.pc \in PreSettle => c.claimed_at < rows'[c.job].claimed_at
      BY <1>1, <1>2, <2>2, Zenon
    <3>2. c.pc \in PreSettle => /\ c.claimed_at <= rows'[c.job].claimed_at
                               /\ c.claimed_at # rows'[c.job].claimed_at
      BY <2>1, <3>1
    <3>. QED
      BY <3>1, <3>2, Zenon DEF Current
  <2>3. CASE c.job \notin S
    <3>1. RowQuiet(c.job)
      BY <1>2, <2>3, Zenon
    <3>2. Current(c)' => Current(c)
      BY <3>1, Zenon DEF Current, RowQuiet
    <3>. QED
      BY <2>3, <3>1, <3>2 DEF FenceInv, RowQuiet
  <2>. QED
    BY <2>2, <2>3
<1>5. ASSUME NEW j \in S
      PROVE  /\ rows'[new(j).job].status = "running"
             /\ new(j).claimed_at <= rows'[new(j).job].claimed_at
  BY <1>1 DEF new
<1>6. ASSUME NEW c \in claims', NEW d \in claims', c.job = d.job,
             Current(c)', Current(d)'
      PROVE  c = d
  <2>1. CASE c \in claims /\ d \in claims
    <3>1. Current(c) /\ Current(d)
      BY <1>4, <1>6, <2>1
    <3>. QED
      BY <1>6, <2>1, <3>1 DEF FenceInv
  <2>2. CASE c \in claims /\ d \notin claims
    <3>1. d.job \in S
      BY <1>1, <1>3, <2>2 DEF new
    <3>. QED
      BY <1>4, <1>6, <2>2, <3>1
  <2>3. CASE c \notin claims /\ d \in claims
    <3>1. c.job \in S
      BY <1>1, <1>3, <2>3 DEF new
    <3>. QED
      BY <1>4, <1>6, <2>3, <3>1
  <2>4. CASE c \notin claims /\ d \notin claims
    <3>1. PICK i \in S, j \in S : c = new(i) /\ d = new(j)
      BY <1>3, <2>4
    <3>2. i = c.job /\ j = d.job
      BY <1>1, <3>1 DEF new
    <3>. QED
      BY <1>6, <3>1, <3>2
  <2>. QED
    BY <2>1, <2>2, <2>3, <2>4
<1>7. ASSUME NEW c \in claims'
      PROVE  /\ rows'[c.job].status # "absent"
             /\ c.pc \in PreSettle => c.claimed_at <= rows'[c.job].claimed_at
             /\ Current(c)' =>
                  /\ rows'[c.job].status # "pending"
                  /\ rows'[c.job].status = "failed" => c.job \notin CleanupJob
  <2>1. CASE c \in claims
    BY <1>4, <2>1
  <2>2. CASE \E j \in S : c = new(j)
    BY <1>5, <2>2
  <2>. QED
    BY <1>3, <2>1, <2>2
<1>. QED
  BY <1>6, <1>7, Zenon DEF FenceInv

LEMMA FenceSettle ==
  ASSUME FenceInv, TypeInv, NEW c \in claims, Settle(c)
  PROVE  FenceInv'
<1>1. PICK d : claims' \subseteq (claims \ {c}) \cup {d} /\ d.job = c.job
                 /\ d.pc \notin PreSettle
  <2>1. c \in Claim
    BY DEF TypeInv, TypeOK
  <2>2. ASSUME NEW pc \in {"hook", "redeliver"}
        PROVE  /\ [c EXCEPT !.pc = pc].job = c.job
               /\ [c EXCEPT !.pc = pc].pc \notin PreSettle
    BY <2>1, SMT DEF Claim, PreSettle
  <2>3. CASE Advance(c, [c EXCEPT !.pc = "hook"])
    BY <2>2, <2>3, Zenon DEF Advance
  <2>4. CASE Advance(c, [c EXCEPT !.pc = "redeliver"])
    BY <2>2, <2>4, Zenon DEF Advance
  <2>5. CASE Finished(c, deliveries)
    <3>1. claims' \subseteq (claims \ {c}) \cup {[c EXCEPT !.pc = "hook"]}
      BY <2>5, Zenon DEF Finished
    <3>. QED
      BY <2>2, <3>1, Zenon
  <2>. QED
    BY <2>3, <2>4, <2>5, Zenon DEF Settle, AfterSettle
<1>2. \A x \in claims' : x.job \in Job /\ (x \in claims \ {c} \/ x = d)
  BY <1>1, Zenon DEF TypeInv, TypeOK, Claim
<1>3. \A j \in Job : /\ rows'[j].claimed_at = rows[j].claimed_at
                     /\ j # c.job => rows'[j] = rows[j]
                     /\ rows'[j] = rows[j] \/ Current(c)
                     /\ rows'[j].status = "absent" => rows[j].status = "absent"
  <2>1. CASE Fence(c) /\ Settled(c)
    <3>1. Current(c)
      BY <2>1, Zenon DEF Fence, Current, Settle, PreSettle
    <3>. QED
      BY <2>1, <3>1, SettledRow DEF Fence
  <2>2. CASE UNCHANGED rows
    BY <2>2
  <2>. QED
    BY <2>1, <2>2, Zenon DEF Settle
<1>4. ASSUME NEW x \in claims', Current(x)'
      PROVE  x \in claims /\ x # c /\ Current(x) /\ rows'[x.job] = rows[x.job]
  <2>1. x \in claims /\ x # c
    BY <1>1, <1>2, <1>4 DEF Current
  <2>2. Current(x)
    BY <1>2, <1>3, <1>4, Zenon DEF Current
  <2>3. x.job # c.job \/ ~Current(c)
    BY <2>1, <2>2, Zenon DEF FenceInv
  <2>. QED
    BY <1>2, <1>3, <2>1, <2>2, <2>3, Zenon
<1>5. ASSUME NEW x \in claims'
      PROVE  /\ rows'[x.job].status # "absent"
             /\ x.pc \in PreSettle => x.claimed_at <= rows'[x.job].claimed_at
  <2>1. rows[x.job].status # "absent"
    BY <1>1, <1>2 DEF FenceInv
  <2>2. x.pc \in PreSettle => x.claimed_at <= rows[x.job].claimed_at
    BY <1>1, <1>2 DEF FenceInv
  <2>. QED
    BY <1>2, <1>3, <2>1, <2>2, Zenon
<1>6. ASSUME NEW x \in claims', Current(x)'
      PROVE  /\ rows'[x.job].status # "pending"
             /\ rows'[x.job].status = "failed" => x.job \notin CleanupJob
  BY <1>4, <1>6 DEF FenceInv
<1>7. \A x, y \in claims' : x.job = y.job /\ Current(x)' /\ Current(y)' => x = y
  BY <1>4, Zenon DEF FenceInv
<1>. QED
  BY <1>5, <1>6, <1>7, Zenon DEF FenceInv

LEMMA FenceNext ==
  ASSUME FenceInv, TypeInv, [Next]_vars
  PROVE  FenceInv'
<1>1. CASE \E j \in Job : Enqueue(j)
  BY <1>1, FenceEnqueue DEF TypeInv
<1>2. CASE \E r \in Runner : Tick(r)
  <2>1. PICK r \in Runner : Tick(r)
    BY <1>2
  <2>2. PICK S, same \in SUBSET Job : Hands(r, Poll, S, same)
    BY <2>1, TickRows, Zenon
  <2>. QED
    BY <2>2, FenceClaim, Zenon
<1>3. CASE \E r \in Runner : \E d \in deliveries :
             Claimable(d.job) /\ Deliver(r, d)
  <2>1. PICK r \in Runner, d \in deliveries : Claimable(d.job) /\ Deliver(r, d)
    BY <1>3
  <2>2. PICK S, same \in SUBSET Job : Hands(r, d.n, S, same)
    BY <2>1, DeliverRows, Zenon
  <2>. QED
    BY <2>2, FenceClaim, Zenon
<1>4. CASE \E c \in claims : Settle(c)
  BY <1>4, FenceSettle
<1>5. CASE /\ \A j \in Job : RowQuiet(j)
           /\ \/ claims' \subseteq claims
              \/ \E c \in claims : \E o : HandlerOver(c, o)
  BY <1>5, QuietClaims, FenceDescends, Zenon DEF TypeInv
<1>. QED
  BY <1>1, <1>2, <1>3, <1>4, <1>5, StepKinds, Zenon

(* Every claim statement moves the timestamp past the claims that may      *)
(* still write, so a row never has two current ones.                       *)
THEOREM FenceInvariant == Spec => []FenceInv
<1>1. Init => FenceInv
  BY Zenon DEF Init, FenceInv
<1>2. FenceInv /\ TypeInv /\ [Next]_vars => FenceInv'
  BY FenceNext
<1>. QED
  BY <1>1, <1>2, TypeInvariant, PTL DEF Spec

(* However many processes still work on a row, after crashes, hangs, stale *)
(* reclaims and duplicated deliveries, the fence of processClaimedJob lets *)
(* at most one of them settle it.                                          *)
THEOREM FenceCorrect == Spec => []SingleFinalizer
<1>1. FenceInv => SingleFinalizer
  BY DEF FenceInv, SingleFinalizer, Fence, Current
<1>. QED
  BY <1>1, FenceInvariant, PTL
=============================================================================
