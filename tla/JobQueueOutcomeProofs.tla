----------------------- MODULE JobQueueOutcomeProofs -----------------------
(***************************************************************************)
(* What an outcome of a db_jobs row is worth, for every instance: finished *)
(* rows stay finished, cleanup intents are kept until they are done, and a *)
(* failure hook runs only for a row that no claim can take again.          *)
(***************************************************************************)
EXTENDS JobQueueProofs

(* Finished rows stay finished.                                            *)

Final(j) ==
  \/ rows[j].status = "done"
  \/ rows[j].status = "failed" /\ j \notin CleanupJob

FinalKept(j) == Final(j) => rows'[j].status \in {rows[j].status, "deleted"}

LEMMA FinalClaim ==
  ASSUME NEW S \in SUBSET Job, NEW same, NEW r, NEW via, Hands(r, via, S, same)
  PROVE  \A j \in Job : FinalKept(j)
<1>1. \A j \in S : FinalKept(j)
  BY Zenon DEF Hands, Claimable, Final, FinalKept
<1>2. \A j \in Job \ S : FinalKept(j)
  BY SMT DEF Hands, RowQuiet, Final, FinalKept
<1>. QED
  BY <1>1, <1>2

LEMMA FinalEnqueue ==
  ASSUME TypeInv, NEW i \in Job, Enqueue(i)
  PROVE  \A j \in Job : FinalKept(j)
<1>1. rows[i].status = "absent"
  BY DEF Enqueue
<1>2. \A j \in Job : j # i => rows'[j] = rows[j]
  BY Zenon DEF Enqueue, TypeInv, TypeOK
<1>. QED
  BY <1>1, <1>2, SMT DEF Final, FinalKept

LEMMA FinalSettle ==
  ASSUME TypeInv, NEW c \in claims, Settle(c)
  PROVE  \A j \in Job : FinalKept(j)
<1>1. CASE UNCHANGED rows
  BY <1>1 DEF FinalKept
<1>2. CASE Fence(c) /\ Settled(c)
  BY <1>2, SettledRow, SMT DEF FinalKept, Final, Fence
<1>. QED
  BY <1>1, <1>2, Zenon DEF Settle

LEMMA FinalNext ==
  ASSUME TypeInv, [Next]_vars
  PROVE  \A j \in Job : FinalKept(j)
<1>1. CASE \E i \in Job : Enqueue(i)
  BY <1>1, FinalEnqueue
<1>2. CASE \E r \in Runner : Tick(r)
  BY <1>2, TickRows, FinalClaim, Zenon
<1>3. CASE \E r \in Runner : \E d \in deliveries :
             Claimable(d.job) /\ Deliver(r, d)
  BY <1>3, DeliverRows, FinalClaim, Zenon
<1>4. CASE \E c \in claims : Settle(c)
  BY <1>4, FinalSettle
<1>5. CASE \A j \in Job : RowQuiet(j)
  BY <1>5, SMT DEF RowQuiet, Final, FinalKept
<1>. QED
  BY <1>1, <1>2, <1>3, <1>4, <1>5, StepKinds, Zenon

(* A late writer, a reclaim or a cancellation never brings back a row that *)
(* is done, or failed for good: processClaimedJob's updates meet running   *)
(* rows only, and the claim statement revives cleanup rows only.           *)
THEOREM FinalCorrect == Spec => FinishedIsFinal
<1>1. TypeInv /\ [Next]_vars =>
        [\A j \in Job :
           (\/ rows[j].status = "done"
            \/ rows[j].status = "failed" /\ j \notin CleanupJob)
           => rows'[j].status \in {rows[j].status, "deleted"}]_vars
  BY FinalNext DEF Final, FinalKept
<1>. QED
  BY <1>1, TypeInvariant, PTL DEF Spec, FinishedIsFinal

-----------------------------------------------------------------------------
(* Cleanup intents.                                                        *)

(* A row has the key it was inserted with, or has lost it.                 *)
KeyOrigin == \A j \in Job : rows[j].dedupe_key \in {KeyOf[j], NoKey}

LEMMA OriginClaim ==
  ASSUME KeyOrigin, NEW S \in SUBSET Job, NEW same, NEW r, NEW via,
         Hands(r, via, S, same)
  PROVE  KeyOrigin'
<1>1. ASSUME NEW j \in S
      PROVE  rows'[j].dedupe_key \in {rows[j].dedupe_key, NoKey}
  <2>1. rows'[j] = Claimed(j, ClaimTime(j, same))
    BY DEF Hands
  <2>2. Claimed(j, ClaimTime(j, same)).dedupe_key \in {rows[j].dedupe_key, NoKey}
    BY SMT DEF Claimed
  <2>. QED
    BY <2>1, <2>2, Zenon
<1>2. \A j \in Job \ S : rows'[j].dedupe_key = rows[j].dedupe_key
  BY DEF Hands, RowQuiet
<1>. QED
  BY <1>1, <1>2, SMT DEF KeyOrigin

LEMMA OriginNext ==
  ASSUME TypeInv, KeyOrigin, [Next]_vars
  PROVE  KeyOrigin'
<1>1. CASE \E i \in Job : Enqueue(i)
  <2>1. PICK i \in Job : Enqueue(i)
    BY <1>1
  <2>2. PICK due \in BOOLEAN :
          rows' = [rows EXCEPT ![i] = Fresh(i, "pending", due)]
    BY <2>1, Zenon DEF Enqueue
  <2>3. Fresh(i, "pending", due).dedupe_key = KeyOf[i]
    BY SMT DEF Fresh
  <2>4. \A j \in Job : rows'[j] = IF j = i THEN Fresh(i, "pending", due) ELSE rows[j]
    BY <2>2, Zenon DEF TypeInv, TypeOK
  <2>. QED
    BY <2>3, <2>4, Zenon DEF KeyOrigin
<1>2. CASE \E r \in Runner : Tick(r)
  BY <1>2, TickRows, OriginClaim, Zenon
<1>3. CASE \E r \in Runner : \E d \in deliveries :
             Claimable(d.job) /\ Deliver(r, d)
  BY <1>3, DeliverRows, OriginClaim, Zenon
<1>4. CASE \E c \in claims : Settle(c)
  <2>1. \/ UNCHANGED rows
        \/ \E c \in claims : Settled(c)
    BY <1>4, Zenon DEF Settle
  <2>. QED
    BY <2>1, SettledRow DEF KeyOrigin
<1>5. CASE \A j \in Job : RowQuiet(j)
  BY <1>5 DEF RowQuiet, KeyOrigin
<1>. QED
  BY <1>1, <1>2, <1>3, <1>4, <1>5, StepKinds, Zenon

IntentKept(j) ==
  rows[j].status \in {"pending", "running", "failed"} =>
    rows'[j].status # "deleted"

(* Retention spares the row while it is not done, and no cancellation has  *)
(* its key, which is null.                                                 *)
LEMMA IntentQuiet ==
  ASSUME KeyOrigin, NEW j \in CleanupJob, RowQuiet(j)
  PROVE  IntentKept(j)
<1>1. j \in Job /\ KeyOf[j] = NoKey /\ NoKey \notin CancelKey
  BY ConstAssumption
<1>2. rows[j].dedupe_key \notin CancelKey
  BY <1>1 DEF KeyOrigin
<1>. QED
  BY <1>2 DEF RowQuiet, Deletable, IntentKept

LEMMA IntentClaim ==
  ASSUME KeyOrigin, NEW S \in SUBSET Job, NEW same, NEW r, NEW via,
         Hands(r, via, S, same)
  PROVE  \A j \in CleanupJob : IntentKept(j)
<1>1. ASSUME NEW j \in S PROVE rows'[j].status = "running"
  <2>1. Claimed(j, ClaimTime(j, same)).status = "running"
    BY SMT DEF Claimed
  <2>. QED
    BY <2>1, Zenon DEF Hands
<1>2. \A j \in CleanupJob : j \in S \/ RowQuiet(j)
  BY ConstAssumption DEF Hands
<1>. QED
  BY <1>1, <1>2, IntentQuiet DEF IntentKept

LEMMA IntentNext ==
  ASSUME TypeInv, KeyOrigin, [Next]_vars
  PROVE  \A j \in CleanupJob : IntentKept(j)
<1>1. CASE \E i \in Job : Enqueue(i)
  <2>1. PICK i \in Job : Enqueue(i)
    BY <1>1
  <2>2. rows[i].status = "absent"
    BY <2>1 DEF Enqueue
  <2>3. \A j \in Job : j # i => rows'[j] = rows[j]
    BY <2>1, Zenon DEF Enqueue, TypeInv, TypeOK
  <2>. QED
    BY <2>2, <2>3, ConstAssumption DEF IntentKept
<1>2. CASE \E r \in Runner : Tick(r)
  BY <1>2, TickRows, IntentClaim, Zenon
<1>3. CASE \E r \in Runner : \E d \in deliveries :
             Claimable(d.job) /\ Deliver(r, d)
  BY <1>3, DeliverRows, IntentClaim, Zenon
<1>4. CASE \E c \in claims : Settle(c)
  <2>1. \/ UNCHANGED rows
        \/ \E c \in claims : Settled(c)
    BY <1>4, Zenon DEF Settle
  <2>. QED
    BY <2>1, SettledRow, ConstAssumption DEF IntentKept
<1>5. CASE \A j \in Job : RowQuiet(j)
  BY <1>5, IntentQuiet, ConstAssumption
<1>. QED
  BY <1>1, <1>2, <1>3, <1>4, <1>5, StepKinds, Zenon

(* The row that is the last pointer to an object is not deleted while it   *)
(* is pending, running or failed, whoever rejects it and however often.    *)
THEOREM IntentCorrect == Spec => CleanupIntentKept
<1>1. Init => KeyOrigin
  <2>1. ASSUME Init, NEW j \in Job PROVE rows[j].dedupe_key = KeyOf[j]
    <3>1. rows[j] = Fresh(j, "absent", FALSE)
      BY <2>1, Zenon DEF Init
    <3>. QED
      BY <3>1, SMT DEF Fresh
  <2>. QED
    BY <2>1 DEF KeyOrigin
<1>2. TypeInv /\ KeyOrigin /\ [Next]_vars => KeyOrigin'
  BY OriginNext
<1>3. TypeInv /\ KeyOrigin /\ [Next]_vars =>
        [\A j \in CleanupJob :
           rows[j].status \in {"pending", "running", "failed"} =>
             rows'[j].status # "deleted"]_vars
  BY IntentNext DEF IntentKept
<1>. QED
  BY <1>1, <1>2, <1>3, TypeInvariant, PTL DEF Spec, CleanupIntentKept

-----------------------------------------------------------------------------
(* The failure hook.                                                       *)

(* No claim can take the row of c again: it is over, or out of attempts    *)
(* with nobody but c allowed to settle it.                                 *)
Over(c) ==
  \/ rows[c.job].status \in {"failed", "deleted"}
  \/ /\ rows[c.job].status = "running"
     /\ rows[c.job].attempts >= rows[c.job].max_attempts
     /\ \A d \in claims : d.job = c.job /\ Current(d) => d = c

(* The claim of the last attempt is the last claim of its row.             *)
LastIsOver ==
  \A c \in claims : Spent(c) /\ c.pc # "redeliver" => Over(c)

(* A hooked row that failed was out of attempts.                           *)
HookOutcome ==
  \A c \in claims :
    /\ c.outcome = "spent" /\ c.job \in HookedJob => Spent(c)
    /\ c.pc = "hook" => c.outcome = "spent" /\ c.job \in HookedJob

LEMMA OutcomeAdvances ==
  ASSUME HookOutcome, NEW c, NEW d, claims' \subseteq (claims \ {c}) \cup {d},
         d \in claims' =>
           /\ d.outcome = "spent" /\ d.job \in HookedJob => Spent(d)
           /\ d.pc = "hook" => d.outcome = "spent" /\ d.job \in HookedJob
  PROVE  HookOutcome'
  BY Zenon DEF HookOutcome, Spent

LEMMA OutcomeQuiet ==
  ASSUME HookOutcome,
         \/ claims' \subseteq claims
         \/ \E c \in claims : \E o : HandlerOver(c, o)
  PROVE  HookOutcome'
<1>1. CASE claims' \subseteq claims
  BY <1>1, Zenon DEF HookOutcome, Spent
<1>2. CASE \E c \in claims : \E o : HandlerOver(c, o)
  <2>1. PICK c \in claims : \E o : HandlerOver(c, o)
    BY <1>2
  <2>2. PICK o : HandlerOver(c, o)
    BY <2>1
  <2>. DEFINE d == [job |-> c.job, runner |-> c.runner, via |-> c.via,
                    attempts |-> c.attempts, max_attempts |-> c.max_attempts,
                    claimed_at |-> c.claimed_at, canceled |-> c.canceled,
                    pc |-> "settle", outcome |-> o]
  <2>3. claims' = (claims \ {c}) \cup {d}
    BY <2>2, Zenon DEF HandlerOver, Ended, Advance
  <2>4. d.job = c.job /\ d.outcome = o /\ d.pc = "settle" /\ (Spent(d) <=> Spent(c))
    BY Zenon DEF Spent
  <2>. HIDE DEF d
  <2>5. d.outcome = "spent" /\ d.job \in HookedJob => Spent(d)
    BY <2>2, <2>4, Zenon DEF HandlerOver
  <2>6. d.pc # "hook"
    BY <2>4
  <2>. QED
    BY <2>3, <2>5, <2>6, OutcomeAdvances, Zenon
<1>. QED
  BY <1>1, <1>2

(* A row nobody inserts, claims or settles is still over for its claim.    *)
LEMMA OverDescends ==
  ASSUME LastIsOver, Descended, NEW x \in claims', RowQuiet(x.job),
         Spent(x), x.pc # "redeliver"
  PROVE  Over(x)'
<1>1. ASSUME NEW e \in claims, Origin(x, e)
      PROVE  Over(e) /\ e.job = x.job
  <2>1. Spent(e) /\ e.pc # "redeliver" /\ e.job = x.job
    BY <1>1, Zenon DEF Origin, Spent
  <2>. QED
    BY <2>1 DEF LastIsOver
<1>2. PICK e0 \in claims : Origin(x, e0)
  BY Zenon DEF Descended
<1>3. CASE rows'[x.job].status \in {"failed", "deleted"}
  BY <1>3, Zenon DEF Over
<1>4. CASE rows'[x.job].status \notin {"failed", "deleted"}
  <2>1. rows'[x.job].status = rows[x.job].status
    BY <1>4 DEF RowQuiet
  <2>2. /\ rows'[x.job].status = "running"
        /\ rows'[x.job].attempts >= rows'[x.job].max_attempts
    BY <1>1, <1>2, <1>4, <2>1, Zenon DEF Over, RowQuiet
  <2>3. ASSUME NEW y \in claims', y.job = x.job, Current(y)'
        PROVE  y = x
    <3>1. PICK e \in claims, g \in claims :
            Origin(x, e) /\ Origin(y, g) /\ (e = g => x = y)
      BY Zenon DEF Descended
    <3>2. g.job = e.job /\ Current(g)
      BY <2>3, <3>1, Zenon DEF Origin, Current, RowQuiet
    <3>3. Over(e) /\ e.job = x.job
      BY <1>1, <3>1
    <3>4. g = e
      BY <1>4, <2>1, <3>2, <3>3, Zenon DEF Over
    <3>. QED
      BY <3>1, <3>4
  <2>. QED
    BY <2>2, <2>3, Zenon DEF Over
<1>. QED
  BY <1>3, <1>4

(* No row that is over for the claim of its last attempt is claimed.       *)
LEMMA OverNotClaimable ==
  ASSUME TypeInv, NEW c \in claims, Over(c), c.job \notin CleanupJob
  PROVE  ~Claimable(c.job)
<1>1. /\ rows[c.job].attempts \in Int /\ rows[c.job].max_attempts \in Int
      /\ rows[c.job].status = "running" \/ rows[c.job].status \in {"failed", "deleted"}
  BY MaxIntFact, SMT DEF TypeInv, TypeOK, Claim, Row, Over
<1>2. CASE rows[c.job].status \in {"failed", "deleted"}
  BY <1>2, SMT DEF Claimable
<1>3. CASE /\ rows[c.job].status = "running"
           /\ rows[c.job].attempts >= rows[c.job].max_attempts
  BY <1>1, <1>3, SMT DEF Claimable
<1>. QED
  BY <1>2, <1>3, Zenon DEF Over

(* Claim x is what a claim statement hands out for row j.                  *)
HandedAs(x, j) ==
  /\ x.job = j /\ x.pc = "handler" /\ x.outcome = "none"
  /\ rows'[j].status = "running"
  /\ rows'[j].attempts = x.attempts
  /\ rows'[j].max_attempts = x.max_attempts
  /\ rows'[j].claimed_at = x.claimed_at

LEMMA HandedRow ==
  ASSUME NEW S \in SUBSET Job, NEW same, NEW r, NEW via,
         Hands(r, via, S, same), NEW x \in claims', x \notin claims
  PROVE  \E j \in S : HandedAs(x, j)
<1>0. PICK j \in S : x = ClaimOf(r, j, via, ClaimTime(j, same))
  BY Zenon DEF Hands
<1>1. rows'[j] = Claimed(j, ClaimTime(j, same))
  BY Zenon DEF Hands
<1>2. /\ Claimed(j, ClaimTime(j, same)).status = "running"
      /\ Claimed(j, ClaimTime(j, same)).claimed_at = ClaimTime(j, same)
  BY SMT DEF Claimed
<1>3. /\ x.job = j /\ x.pc = "handler" /\ x.outcome = "none"
      /\ x.attempts = Claimed(j, ClaimTime(j, same)).attempts
      /\ x.max_attempts = Claimed(j, ClaimTime(j, same)).max_attempts
      /\ x.claimed_at = ClaimTime(j, same)
  BY <1>0, Zenon DEF ClaimOf
<1>. QED
  BY <1>1, <1>2, <1>3, Zenon DEF HandedAs

LEMMA HookClaim ==
  ASSUME TypeInv, FenceInv, FenceInv', LastIsOver, HookOutcome,
         NEW S \in SUBSET Job, NEW same, NEW r, NEW via, Hands(r, via, S, same)
  PROVE  LastIsOver' /\ HookOutcome'
<1>1. ASSUME NEW x \in claims', x \notin claims
      PROVE  \E j \in S : HandedAs(x, j)
  BY <1>1, HandedRow
<1>2. HookOutcome'
  <2>1. ASSUME NEW x \in claims', x \notin claims
        PROVE  x.outcome # "spent" /\ x.pc # "hook"
    <3>1. x.outcome = "none" /\ x.pc = "handler"
      BY <1>1, <2>1, Zenon DEF HandedAs
    <3>. QED
      BY <3>1
  <2>. QED
    BY <2>1, Zenon DEF HookOutcome, Spent
<1>3. ASSUME NEW x \in claims', Spent(x), x.pc # "redeliver"
      PROVE  Over(x)'
  <2>1. CASE x \in claims
    <3>1. Over(x) /\ x.job \in Job /\ x.job \notin CleanupJob
      BY <1>3, <2>1 DEF LastIsOver, Spent, TypeInv, TypeOK, Claim
    <3>2. x.job \notin S
      BY <2>1, <3>1, OverNotClaimable, Zenon DEF Hands
    <3>3. RowQuiet(x.job)
      BY <3>1, <3>2, Zenon DEF Hands
    <3>4. ASSUME NEW y \in claims', y.job = x.job, Current(y)'
          PROVE  y \in claims /\ Current(y)
      <4>1. y \in claims
        BY <1>1, <3>2, <3>4, Zenon DEF HandedAs
      <4>2. Current(y)
        BY <3>3, <3>4, Zenon DEF Current, RowQuiet
      <4>. QED
        BY <4>1, <4>2
    <3>5. CASE rows'[x.job].status \in {"failed", "deleted"}
      BY <3>5, Zenon DEF Over
    <3>6. CASE rows'[x.job].status \notin {"failed", "deleted"}
      <4>1. rows'[x.job].status = rows[x.job].status
        BY <3>3, <3>6 DEF RowQuiet
      <4>2. /\ rows'[x.job].status = "running"
            /\ rows'[x.job].attempts >= rows'[x.job].max_attempts
        BY <3>1, <3>3, <3>6, <4>1, Zenon DEF Over, RowQuiet
      <4>3. \A d \in claims : d.job = x.job /\ Current(d) => d = x
        BY <3>1, <3>6, <4>1, Zenon DEF Over
      <4>. QED
        BY <3>4, <4>2, <4>3, Zenon DEF Over
    <3>. QED
      BY <3>5, <3>6
  <2>2. CASE x \notin claims
    <3>1. PICK j \in S : HandedAs(x, j)
      BY <1>1, <2>2
    <3>2. /\ x.job = j /\ x.pc = "handler" /\ rows'[j].status = "running"
          /\ rows'[j].attempts = x.attempts
          /\ rows'[j].max_attempts = x.max_attempts
          /\ rows'[j].claimed_at = x.claimed_at
      BY <3>1, Zenon DEF HandedAs
    <3>3. x.pc \in PreSettle
      BY <3>2 DEF PreSettle
    <3>4. Current(x)'
      BY <3>2, <3>3, Zenon DEF Current
    <3>5. \A d \in claims' : d.job = x.job /\ Current(d)' => d = x
      BY <3>4, Zenon DEF FenceInv
    <3>6. /\ rows'[x.job].status = "running"
          /\ rows'[x.job].attempts >= rows'[x.job].max_attempts
      BY <1>3, <3>2, Zenon DEF Spent
    <3>. QED
      BY <3>5, <3>6, Zenon DEF Over
  <2>. QED
    BY <2>1, <2>2
<1>. QED
  BY <1>2, <1>3, Zenon DEF LastIsOver, Spent

(* What is left of claim c after its settling update.                      *)
LEMMA SettleClaims ==
  ASSUME TypeInv, NEW c \in claims, c.pc = "settle", AfterSettle(c)
  PROVE  \/ claims' = claims \ {c}
         \/ \E d : /\ claims' = (claims \ {c}) \cup {d}
                   /\ Origin(d, c) /\ d.outcome = c.outcome
                   /\ \/ d.pc = "hook" /\ Hooked(c)
                      \/ d.pc = "redeliver"
<1>1. c \in Claim
  BY DEF TypeInv, TypeOK
<1>2. ASSUME NEW pc \in {"hook", "redeliver"}, Advance(c, [c EXCEPT !.pc = pc])
      PROVE  \E d : /\ claims' = (claims \ {c}) \cup {d}
                    /\ Origin(d, c) /\ d.outcome = c.outcome /\ d.pc = pc
  <2>. DEFINE d == [c EXCEPT !.pc = pc]
  <2>1. /\ d.job = c.job /\ d.claimed_at = c.claimed_at
        /\ d.attempts = c.attempts /\ d.max_attempts = c.max_attempts
        /\ d.outcome = c.outcome /\ d.pc = pc
    BY <1>1, SMT DEF Claim
  <2>2. claims' = (claims \ {c}) \cup {d}
    BY <1>2, Zenon DEF Advance
  <2>3. pc \notin PreSettle
    BY DEF PreSettle
  <2>. HIDE DEF d
  <2>4. c.pc # "redeliver"
    OBVIOUS
  <2>5. Origin(d, c)
    BY <2>1, <2>3, <2>4, Zenon DEF Origin
  <2>. QED
    BY <2>1, <2>2, <2>5
<1>3. CASE Finished(c, deliveries)
  BY <1>3, Zenon DEF Finished
<1>4. CASE Hooked(c) /\ Advance(c, [c EXCEPT !.pc = "hook"])
  <2>1. \E d : /\ claims' = (claims \ {c}) \cup {d}
               /\ Origin(d, c) /\ d.outcome = c.outcome /\ d.pc = "hook"
    BY <1>2, <1>4
  <2>. QED
    BY <1>4, <2>1
<1>5. CASE Advance(c, [c EXCEPT !.pc = "redeliver"])
  <2>1. \E d : /\ claims' = (claims \ {c}) \cup {d}
               /\ Origin(d, c) /\ d.outcome = c.outcome /\ d.pc = "redeliver"
    BY <1>2, <1>5
  <2>. QED
    BY <2>1
<1>. QED
  BY <1>3, <1>4, <1>5, Zenon DEF AfterSettle

(* A settling update fails the row of a hooked claim, or gives the row to  *)
(* nobody but its current claim.                                           *)
LEMMA HookSettle ==
  ASSUME TypeInv, LastIsOver, HookOutcome, NEW c \in claims, Settle(c)
  PROVE  LastIsOver' /\ HookOutcome'
<1>1. c.pc = "settle" /\ AfterSettle(c) /\ c \in Claim /\ c.job \in Job
  BY DEF Settle, TypeInv, TypeOK, Claim
<1>2. \/ claims' = claims \ {c}
      \/ \E d : /\ claims' = (claims \ {c}) \cup {d}
                /\ Origin(d, c) /\ d.outcome = c.outcome
                /\ \/ d.pc = "hook" /\ Hooked(c)
                   \/ d.pc = "redeliver"
  BY <1>1, SettleClaims
<1>3. PICK d : /\ claims' \subseteq (claims \ {c}) \cup {d}
               /\ d \in claims' => /\ Origin(d, c) /\ d.outcome = c.outcome
                                   /\ \/ d.pc = "hook" /\ Hooked(c)
                                      \/ d.pc = "redeliver"
               /\ Descended
  <2>1. CASE claims' = claims \ {c}
    <3>1. Descended
      BY <2>1, NoneAdvances
    <3>2. claims' \subseteq (claims \ {c}) \cup {c} /\ c \notin claims'
      BY <2>1
    <3>. QED
      BY <3>1, <3>2
  <2>2. ASSUME NEW d, claims' = (claims \ {c}) \cup {d}, Origin(d, c),
               d.outcome = c.outcome,
               (d.pc = "hook" /\ Hooked(c)) \/ d.pc = "redeliver"
        PROVE  claims' \subseteq (claims \ {c}) \cup {d} /\ Descended
    BY <2>2, OneAdvances, Zenon
  <2>. QED
    BY <1>2, <2>1, <2>2, Zenon
<1>4. HookOutcome'
  <2>1. ASSUME d \in claims'
        PROVE  /\ d.outcome = "spent" /\ d.job \in HookedJob => Spent(d)
               /\ d.pc = "hook" => d.outcome = "spent" /\ d.job \in HookedJob
    <3>1. d.job = c.job /\ d.outcome = c.outcome /\ (Spent(d) <=> Spent(c))
      BY <1>3, <2>1, Zenon DEF Origin, Spent
    <3>2. d.pc = "hook" => Hooked(c)
      BY <1>3, <2>1
    <3>. QED
      BY <3>1, <3>2, Zenon DEF HookOutcome, Hooked
  <2>. QED
    BY <1>3, <2>1, OutcomeAdvances, Zenon
<1>5. ASSUME NEW x \in claims', Spent(x), x.pc # "redeliver"
      PROVE  Over(x)'
  <2>1. x.job \in Job /\ (x \in claims \ {c} \/ x = d)
    <3>1. d \in claims' => d.job = c.job
      BY <1>3, Zenon DEF Origin
    <3>. QED
      BY <1>1, <1>3, <3>1 DEF TypeInv, TypeOK, Claim
  <2>2. CASE rows'[x.job] = rows[x.job]
    <3>1. RowQuiet(x.job)
      BY <2>1, <2>2, QuietTick, Zenon
    <3>. QED
      BY <1>3, <1>5, <3>1, OverDescends, Zenon
  <2>3. CASE Fence(c) /\ Settled(c) /\ x.job = c.job
    <3>1. Current(c) /\ rows[c.job].status = "running"
      BY <1>1, <2>3, Zenon DEF Current, Fence, PreSettle
    <3>2. CASE x \in claims \ {c}
      <4>1. Over(x)
        BY <1>5, <3>2 DEF LastIsOver
      <4>. QED
        BY <2>3, <3>1, <3>2, <4>1 DEF Over
    <3>3. CASE x = d
      <4>1. c.outcome = "spent"
        BY <1>3, <1>5, <3>3, Zenon DEF Hooked
      <4>2. rows' = [rows EXCEPT ![c.job].status = "failed"]
        BY <2>3, <4>1, Zenon DEF Settled
      <4>3. rows \in [Job -> Row] /\ rows[c.job] \in Row
        BY <1>1 DEF TypeInv, TypeOK
      <4>4. rows'[x.job].status = "failed"
        BY <1>1, <2>3, <4>2, <4>3, SMT DEF Row
      <4>. QED
        BY <4>4, Zenon DEF Over
    <3>. QED
      BY <2>1, <3>2, <3>3
  <2>4. \/ UNCHANGED rows
        \/ Fence(c) /\ Settled(c)
    BY Zenon DEF Settle
  <2>5. Settled(c) /\ x.job # c.job => rows'[x.job] = rows[x.job]
    BY <2>1, SettledRow
  <2>. QED
    BY <2>2, <2>3, <2>4, <2>5
<1>. QED
  BY <1>4, <1>5, Zenon DEF LastIsOver, Spent

LEMMA HookEnqueue ==
  ASSUME TypeInv, FenceInv, LastIsOver, HookOutcome, NEW j \in Job, Enqueue(j)
  PROVE  LastIsOver' /\ HookOutcome'
<1>1. claims' = claims /\ rows[j].status = "absent"
  BY DEF Enqueue
<1>2. \A c \in claims : c.job \in Job /\ c.job # j
  BY <1>1 DEF FenceInv, TypeInv, TypeOK, Claim
<1>3. \A i \in Job : i # j => rows'[i] = rows[i]
  BY Zenon DEF Enqueue, TypeInv, TypeOK
<1>4. \A c \in claims' : RowQuiet(c.job)
  BY <1>1, <1>2, <1>3, QuietTick, Zenon
<1>5. Descended
  BY <1>1, NoneAdvances
<1>6. LastIsOver'
  BY <1>4, <1>5, OverDescends, Zenon DEF LastIsOver, Spent
<1>. QED
  BY <1>1, <1>6, OutcomeQuiet

LEMMA HookNext ==
  ASSUME TypeInv, TypeInv', FenceInv, FenceInv', LastIsOver, HookOutcome,
         [Next]_vars
  PROVE  LastIsOver' /\ HookOutcome'
<1>1. CASE \E j \in Job : Enqueue(j)
  BY <1>1, HookEnqueue
<1>2. CASE \E r \in Runner : Tick(r)
  BY <1>2, TickRows, HookClaim, Zenon
<1>3. CASE \E r \in Runner : \E d \in deliveries :
             Claimable(d.job) /\ Deliver(r, d)
  BY <1>3, DeliverRows, HookClaim, Zenon
<1>4. CASE \E c \in claims : Settle(c)
  BY <1>4, HookSettle
<1>5. CASE /\ \A j \in Job : RowQuiet(j)
           /\ \/ claims' \subseteq claims
              \/ \E c \in claims : \E o : HandlerOver(c, o)
  <2>1. Descended /\ HookOutcome'
    BY <1>5, QuietClaims, OutcomeQuiet
  <2>2. \A c \in claims' : RowQuiet(c.job)
    BY <1>5 DEF TypeInv, TypeOK, Claim
  <2>3. LastIsOver'
    BY <2>1, <2>2, OverDescends, Zenon DEF LastIsOver, Spent
  <2>. QED
    BY <2>1, <2>3
<1>. QED
  BY <1>1, <1>2, <1>3, <1>4, <1>5, StepKinds, Zenon

(* The failure hook of processClaimedJob runs without looking whether its  *)
(* fenced update hit the row.  It is right to: the row has failed, or will *)
(* never be handed out again, even when the update was lost or raced.      *)
THEOREM HookCorrect == Spec => []HookMeansOver
<1>1. Init => LastIsOver /\ HookOutcome
  BY Zenon DEF Init, LastIsOver, HookOutcome
<1>2. /\ TypeInv /\ TypeInv' /\ FenceInv /\ FenceInv'
      /\ LastIsOver /\ HookOutcome /\ [Next]_vars
      => LastIsOver' /\ HookOutcome'
  BY HookNext
<1>3. LastIsOver /\ HookOutcome => HookMeansOver
  BY Zenon DEF LastIsOver, HookOutcome, HookMeansOver, Over
<1>. QED
  BY <1>1, <1>2, <1>3, TypeInvariant, FenceInvariant, PTL DEF Spec
=============================================================================
