----------------------- MODULE DocumentCleanupProofs -----------------------
(***************************************************************************)
(* What cleanup_safe shows on a small instance, proved for any number of   *)
(* versions, uploads, rows, attempts, worker slots and faults.  That the   *)
(* files of live versions exist is proved without the repetition of a      *)
(* committed upload (cleanup_retry refutes it with one), that no stale     *)
(* cache is forgotten without a process that goes on after its claim.      *)
(***************************************************************************)
EXTENDS DocumentCleanup, FiniteSetTheorems, SequenceTheorems, TLAPS

-----------------------------------------------------------------------------
(* The inductive invariants.                                               *)

(* The rows a run has claimed and not settled.                             *)
Held(r) == runs[r].batch \cup {runs[r].row}

Working ==
  \A r \in Runner :
    /\ runs[r].pc \in CleanupPc =>
         \A j \in Held(r) : j \in Row /\ rows[j].kind = "cleanup"
    /\ runs[r].pc \in PrecomputePc =>
         runs[r].row \in Row /\ rows[runs[r].row].kind = "precompute"
    /\ runs[r].pc = "settle" => runs[r].todo = {}

Payloads ==
  \A j \in Row : rows[j].kind = "precompute" =>
    rows[j].of \in Version /\ rows[j].file \in Upload

Files == \A v \in Version : LiveVersion(v) <=> version[v].file \in Upload

TypeInv == TypeOK /\ Working /\ Payloads /\ Files

(* Without a repeated upload: what cleanup rows name and runs delete has   *)
(* been committed once, and no later commit brings it back.                *)
Kept ==
  /\ \A v \in Version : version[v].file \in Upload => Committed(version[v].file)
  /\ \A u \in Replacement : uploads[u] = "commit" => object[u] # NoFile
  /\ \A j \in Row : \A u \in rows[j].keys \cap Upload : Committed(u)
  /\ \A r \in Runner : runs[r].pc = "delete" =>
       \A u \in runs[r].todo \cap Upload : Committed(u) /\ u \notin Referenced

KeptInv == TypeInv /\ Kept /\ LiveFilesExist

(* Row j will not be done before key k is gone: a run that is past its     *)
(* reference check with row j has yet to delete k, or failed to.           *)
Ahead(r, j, k) ==
  runs[r].pc \in {"delete", "settle"} /\ j \in Held(r) =>
    k \in runs[r].todo \cup runs[r].failed

Names(j, k) == rows[j].kind = "cleanup" /\ k \in rows[j].keys /\ rows[j].status # "done"

Witness(k) == \E j \in Row : Names(j, k) /\ \A r \in Runner : Ahead(r, j, k)

RetiredInv ==
  TypeInv /\
  \A u \in Upload :
    object[u] # NoFile /\ Committed(u) /\ u \notin Referenced => Witness(u)

(* No run that has seen no writer is at work on row j.                     *)
Unseen(r, j) == j \in Held(r) => runs[r].pc \notin {"lookup", "delete", "settle"}

Fresh(k) == \E j \in Row : Names(j, k) /\ \A r \in Runner : Unseen(r, j)

Stale(v) == ~LiveVersion(v) \/ version[v].file # object[v]

(* Without zombies: a writer holds its claim, and if the version changes   *)
(* under it, a cleanup that has yet to look for writers is owed.           *)
Writers ==
  \A r \in Runner :
    /\ runs[r].pc \in PrecomputePc => Fence(r, runs[r].row)
    /\ runs[r].pc \in {"load", "write"} /\ ~IsCurrent(runs[r].row) =>
         Fresh(rows[runs[r].row].of)

StaleInv ==
  /\ TypeInv /\ Writers
  /\ \A v \in Version : object[v] # NoFile /\ Stale(v) => Witness(v)

-----------------------------------------------------------------------------
(* Rows and runs.                                                          *)

Statuses == {"pending", "running", "done", "failed"}
Kinds    == {"cleanup", "precompute"}
RunPc    == {"idle"} \cup CleanupPc \cup PrecomputePc

LEMMA Constants ==
  /\ NoFile \notin Upload /\ NoFile \notin Version
  /\ \A v \in Version : v \notin Upload /\ v \in Key /\ Original[v] \in Upload
  /\ \A u \in Upload : u \notin Version /\ u \in Key
  /\ \A u \in Replacement : u \in Upload /\ Target[u] \in Version
  /\ NoRunner \notin Runner /\ Attempts \in Nat \ {0} /\ IsFiniteSet(Version)
BY ConstAssumption, SMT DEF Key, Replacement

LEMMA RowFacts ==
  ASSUME TypeOK
  PROVE  /\ Len(rows) \in Nat /\ Row = 1..Len(rows) /\ rows \in [Row -> JobRow]
         /\ \A j \in Row : rows[j] \in JobRow
BY LenProperties, SMT DEF TypeOK, Row

LEMMA FieldFacts ==
  ASSUME NEW row \in JobRow
  PROVE  /\ row.kind \in Kinds /\ row.status \in Statuses /\ row.keys \in SUBSET Key
         /\ row.of \in Version \cup {NoFile} /\ row.file \in Upload \cup {NoFile}
         /\ row.attempts \in 0..Attempts /\ row.holder \in Runner \cup {NoRunner}
BY SMT DEF JobRow, Kinds, Statuses

LEMMA NewRowFacts ==
  ASSUME NEW kind \in Kinds, NEW keys \in SUBSET Key,
         NEW of \in Version \cup {NoFile}, NEW file \in Upload \cup {NoFile}
  PROVE  LET row == Pending(kind, keys, of, file) IN
         /\ row \in JobRow
         /\ row.kind = kind /\ row.keys = keys /\ row.of = of /\ row.file = file
         /\ row.status = "pending"
BY Constants, SMT DEF Pending, JobRow, Kinds

LEMMA WithFacts ==
  ASSUME NEW row \in JobRow, NEW status \in Statuses,
         NEW holder \in Runner \cup {NoRunner}, NEW attempts \in 0..Attempts
  PROVE  LET new == With(row, status, holder, attempts) IN
         /\ new \in JobRow
         /\ new.kind = row.kind /\ new.keys = row.keys /\ new.of = row.of
         /\ new.file = row.file
         /\ new.status = status /\ new.holder = holder /\ new.attempts = attempts
BY SMT DEF With, JobRow, Statuses

(* No step changes what a row asks for, or removes it.                     *)
Grows ==
  /\ rows' \in Seq(JobRow) /\ Row \subseteq Row'
  /\ \A j \in Row : /\ rows'[j].kind = rows[j].kind /\ rows'[j].keys = rows[j].keys
                    /\ rows'[j].of = rows[j].of /\ rows'[j].file = rows[j].file

LEMMA SameRows ==
  ASSUME TypeOK, rows' = rows
  PROVE  Grows /\ Row' = Row
<1>1. Row' = Row
  BY Zenon DEF Row
<1>. QED
  BY <1>1, SMT DEF Grows, TypeOK

LEMMA RewriteFacts ==
  ASSUME TypeOK, rows' \in [Row -> JobRow]
  PROVE  rows' \in Seq(JobRow) /\ Row' = Row
<1>1. Len(rows) \in Nat /\ Row = 1..Len(rows)
  BY RowFacts
<1>2. rows' \in [1..Len(rows) -> JobRow]
  BY <1>1
<1>3. rows' \in Seq(JobRow)
  BY <1>1, <1>2, SeqDef, Zenon
<1>. QED
  BY <1>1, <1>2, <1>3, SMT DEF Row

LEMMA AppendFacts ==
  ASSUME TypeOK, NEW row \in JobRow, rows' = Append(rows, row)
  PROVE  /\ Grows /\ Row' = Row \cup {Len(rows) + 1}
         /\ Len(rows) + 1 \notin Row /\ rows'[Len(rows) + 1] = row
         /\ \A j \in Row : rows'[j] = rows[j]
<1>1. rows \in Seq(JobRow) /\ Len(rows) \in Nat /\ Row = 1..Len(rows)
  BY RowFacts DEF TypeOK
<1>2. /\ rows' \in Seq(JobRow) /\ Len(rows') = Len(rows) + 1
      /\ \A j \in 1..Len(rows) : rows'[j] = rows[j]
      /\ rows'[Len(rows) + 1] = row
  BY <1>1, AppendProperties, SMT
<1>3. Row' = 1..Len(rows')
  BY <1>2, LenProperties DEF Row
<1>. QED
  BY <1>1, <1>2, <1>3, SMT DEF Grows

LEMMA RewriteOne ==
  ASSUME TypeOK, NEW j \in Row, NEW status \in Statuses,
         NEW holder \in Runner \cup {NoRunner}, NEW attempts \in 0..Attempts,
         rows' = [rows EXCEPT ![j] = With(rows[j], status, holder, attempts)]
  PROVE  /\ Grows /\ Row' = Row
         /\ rows'[j].status = status /\ rows'[j].holder = holder
         /\ \A i \in Row \ {j} : rows'[i] = rows[i]
<1>. DEFINE new == With(rows[j], status, holder, attempts)
<1>1. rows \in [Row -> JobRow] /\ rows[j] \in JobRow
  BY RowFacts
<1>2. /\ new \in JobRow
      /\ new.kind = rows[j].kind /\ new.keys = rows[j].keys /\ new.of = rows[j].of
      /\ new.file = rows[j].file /\ new.status = status /\ new.holder = holder
  BY <1>1, WithFacts
<1>3. rows' = [rows EXCEPT ![j] = new]
  OBVIOUS
<1>. HIDE DEF new
<1>4. rows' \in [Row -> JobRow] /\ rows'[j] = new /\ \A i \in Row \ {j} : rows'[i] = rows[i]
  BY <1>1, <1>2, <1>3, SMT
<1>. QED
  BY <1>2, <1>4, RewriteFacts, SMT DEF Grows

LEMMA PutFacts ==
  ASSUME TypeOK, NEW j \in Row, NEW status \in Statuses, rows' = Put(j, status)
  PROVE  /\ Grows /\ Row' = Row
         /\ rows'[j].status = status
         /\ \A i \in Row \ {j} : rows'[i] = rows[i]
<1>1. rows[j].attempts \in 0..Attempts /\ NoRunner \in Runner \cup {NoRunner}
  BY RowFacts, FieldFacts
<1>. QED
  BY <1>1, RewriteOne DEF Put

LEMMA TakeFacts ==
  ASSUME TypeOK, NEW j \in Row, NEW r \in Runner \cup {NoRunner}, HasBudget(j)
  PROVE  /\ TakenBy(r, j) \in JobRow
         /\ TakenBy(r, j).status = "running" /\ TakenBy(r, j).holder = r
         /\ TakenBy(r, j).kind = rows[j].kind /\ TakenBy(r, j).keys = rows[j].keys
         /\ TakenBy(r, j).of = rows[j].of /\ TakenBy(r, j).file = rows[j].file
<1>. DEFINE n == IF rows[j].kind = "precompute" THEN rows[j].attempts + 1
                 ELSE rows[j].attempts
<1>1. rows[j] \in JobRow
  BY RowFacts
<1>2. rows[j].attempts \in 0..Attempts
  BY <1>1, FieldFacts
<1>3. n \in 0..Attempts
  BY <1>2, Constants, SMT DEF HasBudget
<1>4. TakenBy(r, j) = With(rows[j], "running", r, n) /\ "running" \in Statuses
  BY SMT DEF TakenBy, Statuses
<1>. HIDE DEF n
<1>. QED
  BY <1>1, <1>3, <1>4, WithFacts

LEMMA RunFacts ==
  ASSUME NEW x \in Run
  PROVE  /\ x.row \in Nat /\ x.pc \in RunPc /\ x.batch \in SUBSET (Nat \ {0})
         /\ x.todo \in SUBSET Key /\ x.failed \in SUBSET Key
BY SMT DEF Run, RunPc

LEMMA DoingFacts ==
  ASSUME NEW row \in Nat, NEW pc \in RunPc, NEW batch \in SUBSET (Nat \ {0}),
         NEW todo \in SUBSET Key, NEW failed \in SUBSET Key
  PROVE  LET x == Doing(row, pc, batch, todo, failed) IN
         /\ x \in Run /\ x.row = row /\ x.pc = pc /\ x.batch = batch
         /\ x.todo = todo /\ x.failed = failed
BY SMT DEF Doing, Run, RunPc

LEMMA IdleFacts ==
  /\ Idle \in Run /\ Idle.pc = "idle" /\ Idle.row = 0
  /\ Idle.batch = {} /\ Idle.todo = {} /\ Idle.failed = {}
BY SMT DEF Idle, Doing, Run

LEMMA GotoFacts ==
  ASSUME TypeOK, NEW r \in Runner, NEW pc \in RunPc, Goto(r, pc)
  PROVE  /\ runs' \in [Runner -> Run]
         /\ runs'[r].pc = pc /\ runs'[r].row = runs[r].row
         /\ runs'[r].batch = runs[r].batch /\ runs'[r].todo = runs[r].todo
         /\ runs'[r].failed = runs[r].failed
         /\ \A q \in Runner \ {r} : runs'[q] = runs[q]
<1>1. runs \in [Runner -> Run] /\ runs[r] \in Run
  BY Zenon DEF TypeOK
<1>. DEFINE x == [runs[r] EXCEPT !.pc = pc]
<1>2. runs' = [runs EXCEPT ![r] = x]
  BY DEF Goto
<1>3. /\ x \in Run /\ x.pc = pc /\ x.row = runs[r].row /\ x.batch = runs[r].batch
      /\ x.todo = runs[r].todo /\ x.failed = runs[r].failed
  BY <1>1, SMT DEF Run, RunPc
<1>. HIDE DEF x
<1>. QED
  BY <1>1, <1>2, <1>3, SMT

LEMMA SetFacts ==
  ASSUME TypeOK, NEW r \in Runner, NEW x \in Run, runs' = [runs EXCEPT ![r] = x]
  PROVE  /\ runs' \in [Runner -> Run] /\ runs'[r] = x
         /\ \A q \in Runner \ {r} : runs'[q] = runs[q]
BY SMT DEF TypeOK

-----------------------------------------------------------------------------
(* Steps that add rows, and the versions they change.                      *)

(* The files that are named belong to versions.                            *)
NamesFiles(keys) ==
  \A u \in keys \cap Upload : \E v \in Version : version[v].file = u

Adds ==
  /\ Grows /\ \A j \in Row : rows'[j] = rows[j]
  /\ \A j \in Row' \ Row : rows'[j].kind = "precompute" =>
       rows'[j].of \in Version /\ rows'[j].file \in Upload
  /\ \A j \in Row' \ Row : NamesFiles(rows'[j].keys)

(* A version that changes retires its keys.                                *)
Retires ==
  \A v \in Version : version'[v] # version[v] =>
    \E j \in Row' \ Row : rows'[j] = CleanupRow(RetiredKeys(v))

LEMMA CleanupRowFacts ==
  ASSUME NEW keys \in SUBSET Key
  PROVE  /\ CleanupRow(keys) \in JobRow /\ CleanupRow(keys).kind = "cleanup"
         /\ CleanupRow(keys).keys = keys /\ CleanupRow(keys).status = "pending"
<1>1. "cleanup" \in Kinds /\ NoFile \in Version \cup {NoFile}
      /\ NoFile \in Upload \cup {NoFile}
  BY SMT DEF Kinds
<1>. QED
  BY <1>1, NewRowFacts DEF CleanupRow

LEMMA PrecomputeRowFacts ==
  ASSUME NEW v \in Version, NEW u \in Upload
  PROVE  /\ PrecomputeRow(v, u) \in JobRow
         /\ PrecomputeRow(v, u).of = v /\ PrecomputeRow(v, u).file = u
         /\ PrecomputeRow(v, u).keys = {}
<1>1. "precompute" \in Kinds /\ {} \in SUBSET Key /\ v \in Version \cup {NoFile}
      /\ u \in Upload \cup {NoFile}
  BY SMT DEF Kinds
<1>. QED
  BY <1>1, NewRowFacts DEF PrecomputeRow

LEMMA RetiredKeysType ==
  ASSUME TypeOK, NEW v \in Version
  PROVE  /\ RetiredKeys(v) \in SUBSET Key /\ v \in RetiredKeys(v)
         /\ version[v].file \in Upload => version[v].file \in RetiredKeys(v)
         /\ NamesFiles(RetiredKeys(v))
<1>1. version[v].file \in Upload \cup {NoFile}
  BY SMT DEF TypeOK, VersionRow
<1>. QED
  BY <1>1, Constants, SMT DEF RetiredKeys, Key, NamesFiles

LEMMA AddCleanup ==
  ASSUME TypeOK, NEW keys \in SUBSET Key, NamesFiles(keys),
         rows' = Append(rows, CleanupRow(keys))
  PROVE  /\ Adds
         /\ \E j \in Row' \ Row : rows'[j] = CleanupRow(keys)
<1>1. /\ CleanupRow(keys) \in JobRow /\ CleanupRow(keys).kind = "cleanup"
      /\ CleanupRow(keys).keys = keys
  BY CleanupRowFacts
<1>2. /\ Grows /\ Row' = Row \cup {Len(rows) + 1}
      /\ Len(rows) + 1 \notin Row /\ rows'[Len(rows) + 1] = CleanupRow(keys)
      /\ \A j \in Row : rows'[j] = rows[j]
  BY <1>1, AppendFacts
<1>3. \A j \in Row' \ Row : rows'[j].kind = "cleanup" /\ rows'[j].keys = keys
  BY <1>1, <1>2
<1>4. Len(rows) + 1 \in Row' \ Row
  BY <1>2
<1>. QED
  BY <1>2, <1>3, <1>4, Zenon DEF Adds

LEMMA ListedFacts ==
  ASSUME NEW S \in SUBSET Version
  PROVE  /\ Cardinality(S) \in Nat
         /\ Listed(S) \in [1..Cardinality(S) -> S]
         /\ \A v \in S : \E i \in 1..Cardinality(S) : Listed(S)[i] = v
<1>1. IsFiniteSet(S)
  BY Constants, FS_Subset
<1>2. /\ Cardinality(S) \in Nat
      /\ \E f \in [1..Cardinality(S) -> S] :
           \A v \in S : \E i \in 1..Cardinality(S) : f[i] = v
  BY <1>1, FS_CardinalityType DEF ExistsBijection, Bijection, Injection, Surjection
<1>. QED
  BY <1>2, Zenon DEF Listed

LEMMA DeleteDocumentFacts ==
  ASSUME TypeInv, DeleteDocument
  PROVE  /\ Adds /\ Retires
         /\ \A v \in Version :
              version'[v].status = "gone" /\ version'[v].file = NoFile
<1>. DEFINE S == {v \in Version : version[v].status # "gone"}
            n == Cardinality(S)
            t == [i \in 1..n |-> CleanupRow(RetiredKeys(Listed(S)[i]))]
<1>1. /\ rows' = rows \o t
      /\ version' = [v \in Version |-> [status |-> "gone", file |-> NoFile]]
  BY Zenon DEF DeleteDocument
<1>2. /\ n \in Nat /\ Listed(S) \in [1..n -> S]
      /\ \A v \in S : \E i \in 1..n : Listed(S)[i] = v
  <2>1. S \in SUBSET Version
    OBVIOUS
  <2>. HIDE DEF S
  <2>. QED
    BY <2>1, ListedFacts
<1>3. \A i \in 1..n : t[i] = CleanupRow(RetiredKeys(Listed(S)[i])) /\ Listed(S)[i] \in S
                      /\ Listed(S)[i] \in Version
  BY <1>2
<1>4. \A i \in 1..n : t[i] \in JobRow /\ t[i].kind = "cleanup" /\ NamesFiles(t[i].keys)
  <2>1. ASSUME NEW v \in Version
        PROVE  CleanupRow(RetiredKeys(v)) \in JobRow
               /\ CleanupRow(RetiredKeys(v)).kind = "cleanup"
               /\ NamesFiles(CleanupRow(RetiredKeys(v)).keys)
    BY CleanupRowFacts, RetiredKeysType DEF TypeInv
  <2>. QED
    BY <1>3, <2>1
<1>5. t \in Seq(JobRow) /\ Len(t) = n
  <2>1. t \in [1..n -> JobRow]
    BY <1>4
  <2>. HIDE DEF t, n
  <2>2. t \in Seq(JobRow)
    BY <1>2, <2>1, SeqDef, Zenon
  <2>. QED
    BY <1>2, <2>1, <2>2, LenProperties, SMT
<1>. HIDE DEF t
<1>6. rows \in Seq(JobRow) /\ Len(rows) \in Nat /\ Row = 1..Len(rows)
  BY RowFacts DEF TypeInv, TypeOK
<1>7. /\ rows' \in Seq(JobRow) /\ Len(rows') = Len(rows) + n
      /\ \A i \in 1..(Len(rows) + n) :
           rows'[i] = IF i <= Len(rows) THEN rows[i] ELSE t[i - Len(rows)]
  BY <1>1, <1>5, <1>6, ConcatProperties
<1>8. Row' = 1..(Len(rows) + n)
  BY <1>7, LenProperties DEF Row
<1>9. \A j \in Row : j \in Row' /\ rows'[j] = rows[j]
  BY <1>2, <1>6, <1>7, <1>8, SMT
<1>10. \A i \in 1..n : Len(rows) + i \in Row' \ Row /\ rows'[Len(rows) + i] = t[i]
  BY <1>2, <1>6, <1>7, <1>8, SMT
<1>11. \A j \in Row' \ Row : \E i \in 1..n : rows'[j] = t[i]
  <2>1. \A j \in Row' \ Row : j - Len(rows) \in 1..n /\ rows'[j] = t[j - Len(rows)]
    BY <1>2, <1>6, <1>7, <1>8, SMT
  <2>. QED
    BY <2>1
<1>12. Adds
  <2>1. \A j \in Row' \ Row : rows'[j].kind = "cleanup" /\ NamesFiles(rows'[j].keys)
    BY <1>4, <1>11
  <2>. QED
    <3>1. Grows
      BY <1>7, <1>9, Zenon DEF Grows
    <3>2. "cleanup" # "precompute"
      OBVIOUS
    <3>. QED
      BY <1>9, <2>1, <3>1, <3>2, Zenon DEF Adds
<1>13. ASSUME NEW v \in Version
       PROVE  version'[v] = [status |-> "gone", file |-> NoFile]
  BY <1>1
<1>14. Retires
  <2>. SUFFICES ASSUME NEW v \in Version, version'[v] # version[v]
                PROVE  \E j \in Row' \ Row : rows'[j] = CleanupRow(RetiredKeys(v))
    BY DEF Retires
  <2>1. v \in S
    <3>. SUFFICES ASSUME version[v].status = "gone"
                  PROVE  version'[v] = version[v]
      OBVIOUS
    <3>1. version[v] \in VersionRow /\ version[v].file \notin Upload
      BY SMT DEF TypeInv, TypeOK, Files, LiveVersion
    <3>2. version[v] = [status |-> "gone", file |-> NoFile]
      BY <3>1, SMT DEF VersionRow
    <3>. QED
      BY <1>13, <3>2
  <2>2. PICK i \in 1..n : Listed(S)[i] = v
    BY <1>2, <2>1
  <2>. QED
    BY <1>3, <1>10, <2>2
<1>. QED
  BY <1>12, <1>13, <1>14, SMT

LEMMA AddPrecompute ==
  ASSUME TypeOK, NEW v \in Version, NEW u \in Upload,
         rows' = Append(rows, PrecomputeRow(v, u))
  PROVE  Adds
<1>1. PrecomputeRow(v, u) \in JobRow
  BY PrecomputeRowFacts
<1>2. /\ Grows /\ Row' = Row \cup {Len(rows) + 1}
      /\ rows'[Len(rows) + 1] = PrecomputeRow(v, u)
      /\ \A j \in Row : rows'[j] = rows[j]
  BY <1>1, AppendFacts
<1>3. \A j \in Row' \ Row : /\ rows'[j].of \in Version /\ rows'[j].file \in Upload
                            /\ rows'[j].keys = {}
  BY <1>2, PrecomputeRowFacts
<1>. QED
  BY <1>2, <1>3, Zenon DEF Adds, NamesFiles

LEMMA NoneAdded ==
  ASSUME TypeOK, rows' = rows
  PROVE  Adds
BY SameRows, Zenon DEF Adds

Lifecycle ==
  \/ \E v \in Version : DeleteVersion(v) \/ StartRead(v) \/ EndRead(v)
  \/ DeleteDocument
  \/ \E u \in Replacement : \/ StartUpload(u) \/ CopyFile(u) \/ CommitUpload(u)
                             \/ RecordUpload(u) \/ RetryUpload(u)

LEMMA FaultType ==
  ASSUME TypeOK, NEW kind, Fault(kind)
  PROVE  faults' \in Nat
BY SMT DEF TypeOK, Fault

LEMMA CommitFacts ==
  ASSUME TypeInv, NEW u \in Replacement, CommitUpload(u), LiveVersion(Target[u])
  PROVE  /\ version' \in [Version -> VersionRow]
         /\ version'[Target[u]].file = u /\ version'[Target[u]].status = "live"
         /\ \A v \in Version \ {Target[u]} : version'[v] = version[v]
         /\ uploads' = [uploads EXCEPT ![u] = "record"]
         /\ Adds /\ Retires
<1>. DEFINE t == Target[u]
<1>1. /\ version \in [Version -> VersionRow] /\ t \in Version /\ u \in Upload
      /\ version[t] \in VersionRow /\ version[t].status = "live"
  BY Constants, SMT DEF TypeInv, TypeOK, LiveVersion
<1>2. /\ version' = [version EXCEPT ![t].file = u]
      /\ uploads' = [uploads EXCEPT ![u] = "record"]
      /\ version[t].file # u => rows' = Append(rows, CleanupRow(RetiredKeys(t)))
      /\ version[t].file = u => rows' = rows
  BY SMT DEF CommitUpload
<1>. HIDE DEF t
<1>. DEFINE x == [version[t] EXCEPT !.file = u]
<1>3. version' = [version EXCEPT ![t] = x]
  BY <1>2
<1>4. /\ x \in VersionRow /\ x.file = u /\ x.status = "live"
      /\ version[t].file = u => x = version[t]
  BY <1>1, SMT DEF VersionRow
<1>. HIDE DEF x
<1>5. /\ version' \in [Version -> VersionRow] /\ version'[t] = x
      /\ \A v \in Version \ {t} : version'[v] = version[v]
  BY <1>1, <1>3, <1>4, SMT
<1>6. Adds /\ Retires
  <2>1. CASE version[t].file = u
    <3>1. \A v \in Version : version'[v] = version[v]
      BY <1>4, <1>5, <2>1
    <3>. QED
      BY <1>2, <2>1, <3>1, NoneAdded DEF TypeInv, Retires
  <2>2. CASE version[t].file # u
    <3>1. RetiredKeys(t) \in SUBSET Key /\ NamesFiles(RetiredKeys(t))
      BY <1>1, RetiredKeysType DEF TypeInv
    <3>2. Adds /\ \E j \in Row' \ Row : rows'[j] = CleanupRow(RetiredKeys(t))
      BY <1>2, <2>2, <3>1, AddCleanup DEF TypeInv
    <3>. QED
      BY <1>5, <3>2, Zenon DEF Retires
  <2>. QED
    BY <2>1, <2>2
<1>. QED
  BY <1>2, <1>4, <1>5, <1>6 DEF t

LEMMA DeleteVersionFacts ==
  ASSUME TypeInv, NEW v \in Version, DeleteVersion(v)
  PROVE  /\ version' \in [Version -> VersionRow]
         /\ version'[v].status = "deleted" /\ version'[v].file = NoFile
         /\ \A w \in Version \ {v} : version'[w] = version[w]
         /\ Adds /\ Retires
<1>1. /\ version \in [Version -> VersionRow]
      /\ version' = [version EXCEPT ![v] = [status |-> "deleted", file |-> NoFile]]
      /\ rows' = Append(rows, CleanupRow(RetiredKeys(v)))
  BY Zenon DEF DeleteVersion, TypeInv, TypeOK
<1>2. /\ version' \in [Version -> VersionRow]
      /\ version'[v].status = "deleted" /\ version'[v].file = NoFile
      /\ \A w \in Version \ {v} : version'[w] = version[w]
  BY <1>1, SMT DEF VersionRow
<1>3. RetiredKeys(v) \in SUBSET Key /\ NamesFiles(RetiredKeys(v))
  BY RetiredKeysType DEF TypeInv
<1>4. Adds /\ \E j \in Row' \ Row : rows'[j] = CleanupRow(RetiredKeys(v))
  BY <1>1, <1>3, AddCleanup DEF TypeInv
<1>. QED
  BY <1>2, <1>4, Zenon DEF Retires

LEMMA LifecycleFacts ==
  ASSUME TypeInv, Lifecycle
  PROVE  /\ runs' = runs /\ Adds /\ Retires
         /\ version' \in [Version -> VersionRow] /\ Files'
         /\ object' \in [Key -> Upload \cup {NoFile}]
         /\ uploads' \in [Replacement -> UploadPc]
         /\ reading' \in [Version -> Upload \cup {NoFile}]
         /\ faults' \in Nat
<1>1. /\ version \in [Version -> VersionRow] /\ object \in [Key -> Upload \cup {NoFile}]
      /\ uploads \in [Replacement -> UploadPc]
      /\ reading \in [Version -> Upload \cup {NoFile}] /\ faults \in Nat
  BY Zenon DEF TypeInv, TypeOK
<1>2. ASSUME version' = version
      PROVE  Retires /\ Files' /\ version' \in [Version -> VersionRow]
  BY <1>1, <1>2, Zenon DEF Retires, Files, LiveVersion, TypeInv
<1>3. ASSUME rows' = rows
      PROVE  Adds
  BY <1>3, NoneAdded DEF TypeInv
<1>. DEFINE Goal == /\ runs' = runs /\ Adds /\ Retires
                    /\ version' \in [Version -> VersionRow] /\ Files'
                    /\ object' \in [Key -> Upload \cup {NoFile}]
                    /\ uploads' \in [Replacement -> UploadPc]
                    /\ reading' \in [Version -> Upload \cup {NoFile}]
                    /\ faults' \in Nat
<1>4. ASSUME NEW v \in Version, DeleteVersion(v)
      PROVE  Goal
  <2>1. Files'
    BY <1>4, DeleteVersionFacts, Constants, SMT DEF Files, LiveVersion, TypeInv
  <2>. QED
    BY <1>1, <1>4, <2>1, DeleteVersionFacts, Zenon DEF DeleteVersion
<1>5. ASSUME NEW v \in Version, StartRead(v)
      PROVE  Goal
  <2>1. reading' \in [Version -> Upload \cup {NoFile}]
    BY <1>1, <1>5, SMT DEF StartRead, VersionRow
  <2>. QED
    BY <1>1, <1>2, <1>3, <1>5, <2>1, Zenon DEF StartRead
<1>6. ASSUME NEW v \in Version, EndRead(v)
      PROVE  Goal
  <2>1. reading' \in [Version -> Upload \cup {NoFile}] /\ reading[v] \in Upload
    BY <1>1, <1>6, SMT DEF EndRead
  <2>2. Adds
    BY <1>3, <1>6, <2>1, AddPrecompute DEF EndRead, TypeInv
  <2>. QED
    BY <1>1, <1>2, <1>6, <2>1, <2>2, Zenon DEF EndRead
<1>7. CASE DeleteDocument
  <2>1. Files'
    BY <1>7, DeleteDocumentFacts, Constants, SMT DEF Files, LiveVersion
  <2>2. version' \in [Version -> VersionRow]
    BY <1>7, SMT DEF DeleteDocument, VersionRow
  <2>. QED
    BY <1>1, <1>7, <2>1, <2>2, DeleteDocumentFacts, Zenon DEF DeleteDocument
<1>8. ASSUME NEW u \in Replacement,
             StartUpload(u) \/ CopyFile(u) \/ RecordUpload(u) \/ RetryUpload(u)
      PROVE  Goal
  <2>1. uploads' \in [Replacement -> UploadPc]
    BY <1>1, <1>8, SMT DEF StartUpload, CopyFile, RecordUpload, RetryUpload, UploadPc
  <2>2. object' \in [Key -> Upload \cup {NoFile}]
    BY <1>1, <1>8, Constants, SMT DEF StartUpload, CopyFile, RecordUpload, RetryUpload
  <2>3. faults' \in Nat
    BY <1>1, <1>8, FaultType, Zenon DEF StartUpload, CopyFile, RecordUpload, RetryUpload,
       TypeInv
  <2>4. version' = version /\ rows' = rows /\ reading' = reading /\ runs' = runs
    BY <1>8, Zenon DEF StartUpload, CopyFile, RecordUpload, RetryUpload
  <2>. QED
    BY <1>1, <1>2, <1>3, <2>1, <2>2, <2>3, <2>4, Zenon
<1>9. ASSUME NEW u \in Replacement, CommitUpload(u)
      PROVE  Goal
  <2>1. object' = object /\ reading' = reading /\ runs' = runs /\ faults' = faults
    BY <1>9, Zenon DEF CommitUpload
  <2>2. uploads' \in [Replacement -> UploadPc]
    BY <1>1, <1>9, SMT DEF CommitUpload, UploadPc
  <2>3. CASE LiveVersion(Target[u])
    <3>1. Files'
      BY <1>9, <2>3, CommitFacts, Constants, SMT DEF Files, LiveVersion, TypeInv
    <3>. QED
      BY <1>1, <1>9, <2>1, <2>2, <2>3, <3>1, CommitFacts, Zenon
  <2>4. CASE ~LiveVersion(Target[u])
    <3>1. version' = version /\ rows' = rows
      BY <1>9, <2>4, Zenon DEF CommitUpload
    <3>. QED
      BY <1>1, <1>2, <1>3, <2>1, <2>2, <3>1, Zenon
  <2>. QED
    BY <2>3, <2>4
<1>. QED
  BY <1>4, <1>5, <1>6, <1>7, <1>8, <1>9, Zenon DEF Lifecycle

-----------------------------------------------------------------------------
(* What the steps of a worker slot do.                                     *)

Frame    == version' = version /\ uploads' = uploads /\ reading' = reading
Moved(r) == /\ runs' \in [Runner -> Run]
            /\ \A q \in Runner \ {r} : runs'[q] = runs[q]

LEMMA ClaimFacts ==
  ASSUME TypeInv, NEW r \in Runner, NEW j \in Row, Claim(r, j)
  PROVE  /\ Frame /\ object' = object /\ faults' \in Nat
         /\ Moved(r) /\ Grows /\ Row' = Row
         /\ rows'[j].status = "running" /\ rows'[j].holder = r
         /\ \A i \in Row \ {j} : rows'[i] = rows[i]
         /\ runs'[r].row = j /\ runs'[r].batch = {} /\ runs'[r].todo = {}
         /\ runs'[r].pc = (IF rows[j].kind = "cleanup" THEN "coalesce" ELSE "check")
         /\ runs[r].pc = "idle"
         /\ "zombie" \in Faults \/ rows[j].status = "pending" \/ rows[j].holder = NoRunner
<1>. DEFINE pc == IF rows[j].kind = "cleanup" THEN "coalesce" ELSE "check"
            x == Doing(j, pc, {}, {}, {})
            new == TakenBy(r, j)
<1>1. /\ runs[r] = Idle /\ rows' = [rows EXCEPT ![j] = new]
      /\ runs' = [runs EXCEPT ![r] = x]
      /\ (Claimable(j) /\ UNCHANGED faults) \/ (Hung(j) /\ Fault("zombie"))
  BY Zenon DEF Claim
<1>2. Frame /\ object' = object
  BY Zenon DEF Claim, Frame
<1>3. HasBudget(j) /\ faults' \in Nat
  BY <1>1, FaultType, Zenon DEF Claimable, Hung, TypeInv, TypeOK
<1>4. /\ new \in JobRow /\ new.status = "running" /\ new.holder = r
      /\ new.kind = rows[j].kind /\ new.keys = rows[j].keys
      /\ new.of = rows[j].of /\ new.file = rows[j].file
  BY <1>3, TakeFacts DEF TypeInv
<1>5. x \in Run /\ x.row = j /\ x.pc = pc /\ x.batch = {} /\ x.todo = {}
  <2>1. j \in Nat /\ pc \in RunPc /\ {} \in SUBSET (Nat \ {0}) /\ {} \in SUBSET Key
    BY RowFacts, SMT DEF RunPc, CleanupPc, PrecomputePc, TypeInv
  <2>. HIDE DEF pc
  <2>. QED
    BY <2>1, DoingFacts
<1>. HIDE DEF x, new
<1>6. Moved(r) /\ runs'[r] = x
  BY <1>1, <1>5, SetFacts DEF Moved, TypeInv
<1>7. rows \in [Row -> JobRow]
  BY RowFacts DEF TypeInv
<1>8. rows' \in [Row -> JobRow] /\ rows'[j] = new /\ \A i \in Row \ {j} : rows'[i] = rows[i]
  BY <1>1, <1>4, <1>7, SMT
<1>9. Grows /\ Row' = Row
  BY <1>4, <1>8, RewriteFacts, SMT DEF Grows, TypeInv
<1>10. "zombie" \in Faults \/ rows[j].status = "pending" \/ rows[j].holder = NoRunner
  BY <1>1, Zenon DEF Claimable, Fault
<1>11. runs[r].pc = "idle"
  BY <1>1, IdleFacts
<1>. QED
  BY <1>2, <1>3, <1>4, <1>5, <1>6, <1>8, <1>9, <1>10, <1>11

LEMMA CoalesceFacts ==
  ASSUME TypeInv, NEW r \in Runner, Coalesce(r)
  PROVE  /\ Frame /\ object' = object /\ faults' \in Nat
         /\ Moved(r) /\ Grows /\ Row' = Row
         /\ \A j \in Row : \/ rows'[j] = rows[j]
                           \/ rows'[j].status = "running" /\ rows[j].kind = "cleanup"
         /\ runs'[r].row = runs[r].row /\ runs'[r].pc = "guard" /\ runs'[r].todo = {}
         /\ \A j \in runs'[r].batch : j \in Row /\ rows[j].kind = "cleanup"
         /\ runs[r].pc = "coalesce"
<1>. DEFINE own == runs[r].row
<1>1. PICK S \in SUBSET {j \in Row : rows[j].kind = "cleanup"
                                     /\ (Claimable(j) \/ Hung(j))} :
        /\ IF \E j \in S : Hung(j) THEN Fault("zombie") ELSE UNCHANGED faults
        /\ rows' = [j \in Row |->
             IF j \notin S THEN rows[j]
             ELSE TakenBy(IF j = own THEN NoRunner ELSE r, j)]
        /\ runs' = [runs EXCEPT ![r] = Doing(own, "guard", S \ {own}, {}, {})]
  BY Zenon DEF Coalesce
<1>. DEFINE x == Doing(own, "guard", S \ {own}, {}, {})
<1>2. Frame /\ object' = object /\ runs[r].pc = "coalesce"
  BY Zenon DEF Coalesce, Frame, At
<1>3. faults' \in Nat
  BY <1>1, FaultType, Zenon DEF TypeInv, TypeOK
<1>4. \A j \in S : j \in Row /\ rows[j].kind = "cleanup" /\ HasBudget(j)
  BY Zenon DEF Claimable, Hung
<1>5. x \in Run /\ x.row = own /\ x.pc = "guard" /\ x.batch = S \ {own} /\ x.todo = {}
  <2>1. own \in Nat
    BY SMT DEF TypeInv, TypeOK, Run
  <2>2. "guard" \in RunPc /\ S \ {own} \in SUBSET (Nat \ {0}) /\ {} \in SUBSET Key
    BY <1>4, RowFacts, SMT DEF RunPc, CleanupPc, TypeInv
  <2>. QED
    BY <2>1, <2>2, DoingFacts
<1>6. Moved(r) /\ runs'[r] = x
  <2>. HIDE DEF x
  <2>. QED
    BY <1>1, <1>5, SetFacts DEF Moved, TypeInv, x
<1>7. ASSUME NEW j \in Row
      PROVE  /\ rows'[j] \in JobRow
             /\ rows'[j].kind = rows[j].kind /\ rows'[j].keys = rows[j].keys
             /\ rows'[j].of = rows[j].of /\ rows'[j].file = rows[j].file
             /\ \/ rows'[j] = rows[j]
                \/ rows'[j].status = "running" /\ rows[j].kind = "cleanup"
  <2>1. CASE j \notin S
    <3>1. rows'[j] = rows[j]
      BY <1>1, <2>1
    <3>. QED
      BY <3>1, RowFacts DEF TypeInv
  <2>2. CASE j \in S
    <3>. DEFINE q == IF j = own THEN NoRunner ELSE r
    <3>1. rows'[j] = TakenBy(q, j) /\ q \in Runner \cup {NoRunner}
      BY <1>1, <2>2
    <3>. HIDE DEF q
    <3>2. rows'[j] \in JobRow /\ rows'[j].status = "running"
          /\ rows'[j].kind = rows[j].kind /\ rows'[j].keys = rows[j].keys
          /\ rows'[j].of = rows[j].of /\ rows'[j].file = rows[j].file
      BY <1>4, <2>2, <3>1, TakeFacts DEF TypeInv
    <3>. QED
      BY <1>4, <2>2, <3>2
  <2>. QED
    BY <2>1, <2>2
<1>8. rows' \in [Row -> JobRow]
  <2>1. rows' = [j \in Row |-> rows'[j]]
    BY <1>1
  <2>. QED
    BY <1>7, <2>1
<1>9. Grows /\ Row' = Row
  BY <1>7, <1>8, RewriteFacts, Zenon DEF Grows, TypeInv
<1>. QED
  BY <1>2, <1>3, <1>4, <1>5, <1>6, <1>7, <1>9

(* Steps that only move on.                                                *)
Moves(r) ==
  Guard(r) \/ CleanupThrows(r) \/ Check(r) \/ Load(r) \/ Recheck(r) \/ PrecomputeThrows(r)

LEMMA MoveFacts ==
  ASSUME TypeInv, NEW r \in Runner, Moves(r)
  PROVE  /\ Frame /\ object' = object /\ rows' = rows /\ faults' \in Nat
         /\ Moved(r) /\ Grows /\ Row' = Row
         /\ runs'[r].row = runs[r].row /\ runs'[r].batch = runs[r].batch
         /\ \/ runs[r].pc \in {"guard", "lookup"} /\ runs'[r].pc \in {"lookup", "release"}
            \/ /\ runs[r].pc \in PrecomputePc
               /\ runs'[r].pc \in {"load", "write", "retire", "finish", "fail"}
<1>1. Frame /\ object' = object /\ rows' = rows
  BY Zenon DEF Moves, Guard, CleanupThrows, Check, Load, Recheck, PrecomputeThrows, Frame
<1>2. faults' \in Nat
  BY FaultType, Zenon DEF Moves, Guard, CleanupThrows, Check, Load, Recheck,
     PrecomputeThrows, TypeInv, TypeOK
<1>3. \E pc \in RunPc :
        /\ Goto(r, pc)
        /\ \/ runs[r].pc \in {"guard", "lookup"} /\ pc \in {"lookup", "release"}
           \/ /\ runs[r].pc \in PrecomputePc
              /\ pc \in {"load", "write", "retire", "finish", "fail"}
  <2>1. {"lookup", "release", "load", "write", "retire", "finish", "fail"} \subseteq RunPc
        /\ {"check", "load", "write", "recheck", "retire"} \subseteq PrecomputePc
    BY SMT DEF RunPc, CleanupPc, PrecomputePc
  <2>2. CASE Guard(r) \/ CleanupThrows(r)
    <3>1. /\ runs[r].pc \in {"guard", "lookup"}
          /\ Goto(r, "release") \/ Goto(r, "lookup")
      BY <2>2, SMT DEF Guard, CleanupThrows, At
    <3>. QED
      BY <2>1, <3>1
  <2>3. CASE Check(r) \/ Load(r) \/ Recheck(r) \/ PrecomputeThrows(r)
    <3>1. /\ runs[r].pc \in {"check", "load", "write", "recheck", "retire"}
          /\ \/ Goto(r, "load") \/ Goto(r, "write") \/ Goto(r, "retire")
             \/ Goto(r, "finish") \/ Goto(r, "fail")
      BY <2>3, SMT DEF Check, Load, Recheck, PrecomputeThrows, At
    <3>. QED
      BY <2>1, <3>1
  <2>. QED
    BY <2>2, <2>3 DEF Moves
<1>4. PICK pc \in RunPc :
        /\ Goto(r, pc)
        /\ \/ runs[r].pc \in {"guard", "lookup"} /\ pc \in {"lookup", "release"}
           \/ /\ runs[r].pc \in PrecomputePc
              /\ pc \in {"load", "write", "retire", "finish", "fail"}
  BY <1>3
<1>5. /\ Moved(r) /\ runs'[r].pc = pc /\ runs'[r].row = runs[r].row
      /\ runs'[r].batch = runs[r].batch
  BY <1>4, GotoFacts DEF Moved, TypeInv
<1>. QED
  BY <1>1, <1>2, <1>4, <1>5, SameRows DEF TypeInv

LEMMA KeysOfFacts ==
  ASSUME TypeInv, NEW r \in Runner, runs[r].pc \in CleanupPc
  PROVE  /\ KeysOf(r) \in SUBSET Key
         /\ \A j \in Held(r) : j \in Row /\ rows[j].keys \subseteq KeysOf(r)
<1>1. \A j \in Held(r) : j \in Row
  BY DEF TypeInv, Working
<1>2. \A j \in Row : rows[j].keys \in SUBSET Key
  BY RowFacts, FieldFacts DEF TypeInv
<1>. QED
  BY <1>1, <1>2, SMT DEF KeysOf, Held

LEMMA LookupFacts ==
  ASSUME TypeInv, NEW r \in Runner, Lookup(r)
  PROVE  /\ Frame /\ object' = object /\ rows' = rows /\ faults' \in Nat
         /\ Moved(r) /\ Grows /\ Row' = Row
         /\ runs[r].pc = "lookup" /\ runs'[r].pc = "delete"
         /\ runs'[r].row = runs[r].row /\ runs'[r].batch = runs[r].batch
         /\ runs'[r].todo = KeysOf(r) \ Referenced
<1>1. /\ Frame /\ object' = object /\ rows' = rows /\ faults' \in Nat
      /\ runs[r].pc = "lookup"
  BY Zenon DEF Lookup, Frame, At, TypeInv, TypeOK
<1>. DEFINE x == Doing(runs[r].row, "delete", runs[r].batch, Deletable(KeysOf(r)), {})
<1>2. runs' = [runs EXCEPT ![r] = x]
  BY DEF Lookup
<1>3. /\ x \in Run /\ x.row = runs[r].row /\ x.pc = "delete" /\ x.batch = runs[r].batch
      /\ x.todo = KeysOf(r) \ Referenced
  <2>1. KeysOf(r) \in SUBSET Key
    BY <1>1, KeysOfFacts, SMT DEF CleanupPc
  <2>2. /\ Deletable(KeysOf(r)) \in SUBSET Key /\ {} \in SUBSET Key
        /\ Deletable(KeysOf(r)) = KeysOf(r) \ Referenced
    BY <2>1, SMT DEF Deletable
  <2>3. runs[r].row \in Nat /\ runs[r].batch \in SUBSET (Nat \ {0})
    BY RunFacts DEF TypeInv, TypeOK
  <2>4. "delete" \in RunPc
    BY SMT DEF RunPc, CleanupPc
  <2>. QED
    BY <2>2, <2>3, <2>4, DoingFacts
<1>. HIDE DEF x
<1>4. Moved(r) /\ runs'[r] = x
  BY <1>2, <1>3, SetFacts DEF Moved, TypeInv
<1>. QED
  BY <1>1, <1>3, <1>4, SameRows DEF TypeInv

LEMMA DeleteFacts ==
  ASSUME TypeInv, NEW r \in Runner, Delete(r)
  PROVE  /\ Frame /\ rows' = rows /\ faults' \in Nat
         /\ object' \in [Key -> Upload \cup {NoFile}]
         /\ Moved(r) /\ Grows /\ Row' = Row
         /\ runs[r].pc = "delete" /\ runs'[r].pc \in {"delete", "settle"}
         /\ runs'[r].row = runs[r].row /\ runs'[r].batch = runs[r].batch
         /\ runs'[r].todo \subseteq runs[r].todo
         /\ \A k \in Key : object'[k] = object[k] \/ k \in runs[r].todo
         /\ \A k \in Key : object'[k] # NoFile =>
              /\ object'[k] = object[k]
              /\ k \in runs[r].todo \cup runs[r].failed =>
                   k \in runs'[r].todo \cup runs'[r].failed
         /\ runs'[r].pc = "settle" => runs'[r].todo = {}
<1>1. Frame /\ rows' = rows /\ runs[r].pc = "delete"
  BY Zenon DEF Delete, Frame, At
<1>2. /\ runs[r].row \in Nat /\ runs[r].batch \in SUBSET (Nat \ {0})
      /\ runs[r].todo \in SUBSET Key /\ runs[r].failed \in SUBSET Key
      /\ runs \in [Runner -> Run] /\ object \in [Key -> Upload \cup {NoFile}]
      /\ faults \in Nat
  BY RunFacts DEF TypeInv, TypeOK
<1>3. "delete" \in RunPc /\ "settle" \in RunPc
  BY SMT DEF RunPc, CleanupPc
<1>4. Grows /\ Row' = Row
  BY <1>1, SameRows DEF TypeInv
<1>5. ASSUME NEW k \in runs[r].todo, object' = [object EXCEPT ![k] = NoFile],
             runs' = [runs EXCEPT ![r].todo = @ \ {k}], UNCHANGED faults
      PROVE  /\ faults' \in Nat /\ object' \in [Key -> Upload \cup {NoFile}] /\ Moved(r)
             /\ runs'[r].pc = "delete"
             /\ runs'[r].row = runs[r].row /\ runs'[r].batch = runs[r].batch
             /\ runs'[r].todo = runs[r].todo \ {k} /\ runs'[r].failed = runs[r].failed
             /\ object'[k] = NoFile /\ \A i \in Key \ {k} : object'[i] = object[i]
  <2>. DEFINE x == [runs[r] EXCEPT !.todo = runs[r].todo \ {k}]
  <2>1. runs' = [runs EXCEPT ![r] = x]
    BY <1>5
  <2>2. /\ x \in Run /\ x.pc = runs[r].pc /\ x.row = runs[r].row /\ x.batch = runs[r].batch
        /\ x.todo = runs[r].todo \ {k} /\ x.failed = runs[r].failed
    BY <1>2, SMT DEF Run
  <2>. HIDE DEF x
  <2>3. Moved(r) /\ runs'[r] = x
    BY <2>1, <2>2, SetFacts DEF Moved, TypeInv
  <2>4. /\ object' \in [Key -> Upload \cup {NoFile}]
        /\ object'[k] = NoFile /\ \A i \in Key \ {k} : object'[i] = object[i]
    BY <1>2, <1>5, SMT
  <2>. QED
    BY <1>1, <1>2, <1>5, <2>2, <2>3, <2>4
<1>6. ASSUME NEW k \in runs[r].todo, Fault("throw"), UNCHANGED object,
             runs' = [runs EXCEPT ![r] =
               Doing(runs[r].row, "delete", runs[r].batch, runs[r].todo \ {k},
                     runs[r].failed \cup {k})]
      PROVE  /\ faults' \in Nat /\ Moved(r) /\ object' = object
             /\ runs'[r].pc = "delete"
             /\ runs'[r].row = runs[r].row /\ runs'[r].batch = runs[r].batch
             /\ runs'[r].todo = runs[r].todo \ {k}
             /\ runs'[r].failed = runs[r].failed \cup {k}
  <2>. DEFINE x == Doing(runs[r].row, "delete", runs[r].batch, runs[r].todo \ {k},
                         runs[r].failed \cup {k})
  <2>1. runs[r].todo \ {k} \in SUBSET Key /\ runs[r].failed \cup {k} \in SUBSET Key
    BY <1>2
  <2>2. /\ x \in Run /\ x.pc = "delete" /\ x.row = runs[r].row /\ x.batch = runs[r].batch
        /\ x.todo = runs[r].todo \ {k} /\ x.failed = runs[r].failed \cup {k}
    BY <1>2, <1>3, <2>1, DoingFacts
  <2>3. runs' = [runs EXCEPT ![r] = x]
    BY <1>6
  <2>. HIDE DEF x
  <2>4. Moved(r) /\ runs'[r] = x
    BY <2>2, <2>3, SetFacts DEF Moved, TypeInv
  <2>5. faults' \in Nat
    BY <1>6, FaultType DEF TypeInv
  <2>. QED
    BY <1>6, <2>2, <2>4, <2>5
<1>7. ASSUME runs[r].todo = {}, Goto(r, "settle"), UNCHANGED <<object, faults>>
      PROVE  /\ faults' \in Nat /\ Moved(r) /\ object' = object
             /\ runs'[r].pc = "settle"
             /\ runs'[r].row = runs[r].row /\ runs'[r].batch = runs[r].batch
             /\ runs'[r].todo = {} /\ runs'[r].failed = runs[r].failed
  BY <1>2, <1>3, <1>7, GotoFacts DEF Moved, TypeInv
<1>8. \/ \E k \in runs[r].todo :
           /\ object' = [object EXCEPT ![k] = NoFile]
           /\ runs' = [runs EXCEPT ![r].todo = @ \ {k}]
           /\ UNCHANGED faults
      \/ \E k \in runs[r].todo :
           /\ Fault("throw") /\ UNCHANGED object
           /\ runs' = [runs EXCEPT ![r] =
                Doing(runs[r].row, "delete", runs[r].batch, runs[r].todo \ {k},
                      runs[r].failed \cup {k})]
      \/ runs[r].todo = {} /\ Goto(r, "settle") /\ UNCHANGED <<object, faults>>
  BY Zenon DEF Delete
<1>9. CASE \E k \in runs[r].todo :
             /\ object' = [object EXCEPT ![k] = NoFile]
             /\ runs' = [runs EXCEPT ![r].todo = @ \ {k}]
             /\ UNCHANGED faults
  <2>1. PICK k \in runs[r].todo :
          /\ object' = [object EXCEPT ![k] = NoFile]
          /\ runs' = [runs EXCEPT ![r].todo = @ \ {k}]
          /\ UNCHANGED faults
    BY <1>9
  <2>2. /\ faults' \in Nat /\ object' \in [Key -> Upload \cup {NoFile}] /\ Moved(r)
        /\ runs'[r].pc = "delete"
        /\ runs'[r].row = runs[r].row /\ runs'[r].batch = runs[r].batch
        /\ runs'[r].todo = runs[r].todo \ {k} /\ runs'[r].failed = runs[r].failed
        /\ object'[k] = NoFile /\ \A i \in Key \ {k} : object'[i] = object[i]
    BY <1>5, <2>1
  <2>. QED
    BY <1>1, <1>4, <2>2, SMT
<1>10. CASE \E k \in runs[r].todo :
              /\ Fault("throw") /\ UNCHANGED object
              /\ runs' = [runs EXCEPT ![r] =
                   Doing(runs[r].row, "delete", runs[r].batch, runs[r].todo \ {k},
                         runs[r].failed \cup {k})]
  <2>1. \E k \in runs[r].todo :
          /\ faults' \in Nat /\ Moved(r) /\ object' = object
          /\ runs'[r].pc = "delete"
          /\ runs'[r].row = runs[r].row /\ runs'[r].batch = runs[r].batch
          /\ runs'[r].todo = runs[r].todo \ {k}
          /\ runs'[r].failed = runs[r].failed \cup {k}
    BY <1>6, <1>10
  <2>. QED
    BY <1>1, <1>2, <1>4, <2>1, SMT
<1>11. CASE runs[r].todo = {} /\ Goto(r, "settle") /\ UNCHANGED <<object, faults>>
  BY <1>1, <1>2, <1>4, <1>7, <1>11, SMT
<1>. QED
  BY <1>8, <1>9, <1>10, <1>11

LEMMA OutcomeStatus ==
  ASSUME NEW r \in Runner, NEW j \in Row
  PROVE  OutcomeOf(r, j) \in Statuses
BY SMT DEF OutcomeOf, Statuses

LEMMA SettleRowFacts ==
  ASSUME TypeInv, NEW r \in Runner, NEW j \in Row, SettleRow(r, j)
  PROVE  /\ faults' \in Nat /\ Grows /\ Row' = Row
         /\ \A i \in Row \ {j} : rows'[i] = rows[i]
         /\ rows'[j] = rows[j] \/ rows'[j].status \in {OutcomeOf(r, j), "running"}
<1>1. faults' \in Nat
  BY FaultType, Zenon DEF SettleRow, TypeInv, TypeOK
<1>2. rows' = rows \/ rows' = Put(j, OutcomeOf(r, j)) \/ rows' = Put(j, "running")
  BY Zenon DEF SettleRow
<1>3. CASE rows' = rows
  BY <1>1, <1>3, SameRows DEF TypeInv
<1>4. CASE rows' = Put(j, OutcomeOf(r, j))
  BY <1>1, <1>4, OutcomeStatus, PutFacts DEF TypeInv
<1>5. CASE rows' = Put(j, "running")
  <2>1. "running" \in Statuses
    BY SMT DEF Statuses
  <2>. QED
    BY <1>1, <1>5, <2>1, PutFacts DEF TypeInv
<1>. QED
  BY <1>2, <1>3, <1>4, <1>5

LEMMA LeaveFacts ==
  ASSUME TypeInv, NEW r \in Runner, runs' = [runs EXCEPT ![r] = Idle]
  PROVE  Moved(r) /\ runs'[r].pc = "idle" /\ runs'[r].todo = {}
BY IdleFacts, SetFacts DEF Moved, TypeInv

LEMMA SettleFacts ==
  ASSUME TypeInv, NEW r \in Runner, Settle(r)
  PROVE  /\ Frame /\ object' = object /\ faults' \in Nat
         /\ Moved(r) /\ Grows /\ Row' = Row
         /\ runs[r].pc \in {"settle", "release"}
         /\ \A j \in Row :
              \/ rows'[j] = rows[j]
              \/ j \in Held(r) /\ rows'[j].status \in {OutcomeOf(r, j), "running"}
         /\ \/ runs'[r].pc = "idle"
            \/ /\ runs'[r].pc = runs[r].pc /\ runs'[r].row = runs[r].row
               /\ runs'[r].batch \subseteq runs[r].batch
               /\ runs'[r].todo = runs[r].todo /\ runs'[r].failed = runs[r].failed
<1>1. Frame /\ object' = object /\ runs[r].pc \in {"settle", "release"}
  BY Zenon DEF Settle, Frame, At
<1>2. /\ \A j \in Held(r) : j \in Row
      /\ runs \in [Runner -> Run] /\ runs[r] \in Run
  <2>1. runs[r].pc \in CleanupPc
    BY <1>1, SMT DEF CleanupPc
  <2>. QED
    BY <2>1, Zenon DEF TypeInv, TypeOK, Working
<1>3. \/ \E j \in runs[r].batch :
           SettleRow(r, j) /\ runs' = [runs EXCEPT ![r].batch = @ \ {j}]
      \/ SettleRow(r, runs[r].row) /\ runs' = [runs EXCEPT ![r] = Idle]
  BY Zenon DEF Settle
<1>4. CASE SettleRow(r, runs[r].row) /\ runs' = [runs EXCEPT ![r] = Idle]
  <2>1. runs[r].row \in Held(r) /\ runs[r].row \in Row
    BY <1>2 DEF Held
  <2>2. Moved(r) /\ runs'[r].pc = "idle"
    BY <1>4, LeaveFacts
  <2>3. /\ faults' \in Nat /\ Grows /\ Row' = Row
        /\ \A i \in Row \ {runs[r].row} : rows'[i] = rows[i]
        /\ \/ rows'[runs[r].row] = rows[runs[r].row]
           \/ rows'[runs[r].row].status \in {OutcomeOf(r, runs[r].row), "running"}
    BY <1>4, <2>1, SettleRowFacts
  <2>. QED
    BY <1>1, <2>1, <2>2, <2>3
<1>5. ASSUME NEW j \in runs[r].batch, SettleRow(r, j),
             runs' = [runs EXCEPT ![r].batch = @ \ {j}]
      PROVE  /\ Moved(r) /\ runs'[r].pc = runs[r].pc /\ runs'[r].row = runs[r].row
             /\ runs'[r].batch \subseteq runs[r].batch
             /\ runs'[r].todo = runs[r].todo /\ runs'[r].failed = runs[r].failed
             /\ faults' \in Nat /\ Grows /\ Row' = Row
             /\ \A i \in Row :
                  \/ rows'[i] = rows[i]
                  \/ i \in Held(r) /\ rows'[i].status \in {OutcomeOf(r, i), "running"}
  <2>. DEFINE x == [runs[r] EXCEPT !.batch = runs[r].batch \ {j}]
  <2>1. runs' = [runs EXCEPT ![r] = x]
    BY <1>5
  <2>2. /\ x \in Run /\ x.pc = runs[r].pc /\ x.row = runs[r].row
        /\ x.batch \subseteq runs[r].batch
        /\ x.todo = runs[r].todo /\ x.failed = runs[r].failed
    BY <1>2, SMT DEF Run
  <2>. HIDE DEF x
  <2>3. Moved(r) /\ runs'[r] = x
    BY <2>1, <2>2, SetFacts DEF Moved, TypeInv
  <2>4. j \in Held(r) /\ j \in Row
    BY <1>2 DEF Held
  <2>5. /\ faults' \in Nat /\ Grows /\ Row' = Row
        /\ \A i \in Row \ {j} : rows'[i] = rows[i]
        /\ rows'[j] = rows[j] \/ rows'[j].status \in {OutcomeOf(r, j), "running"}
    BY <1>5, <2>4, SettleRowFacts
  <2>. QED
    BY <2>2, <2>3, <2>4, <2>5
<1>. QED
  BY <1>1, <1>3, <1>4, <1>5

LEMMA WriterFacts ==
  ASSUME TypeInv, NEW r \in Runner, runs[r].pc \in PrecomputePc
  PROVE  /\ runs[r].row \in Row /\ rows[runs[r].row].kind = "precompute"
         /\ rows[runs[r].row].of \in Version /\ rows[runs[r].row].file \in Upload
BY Zenon DEF TypeInv, Working, Payloads

LEMMA WriteFacts ==
  ASSUME TypeInv, NEW r \in Runner, Write(r)
  PROVE  LET job == rows[runs[r].row] IN
         /\ Frame /\ rows' = rows /\ faults' \in Nat /\ Moved(r) /\ Grows /\ Row' = Row
         /\ object' \in [Key -> Upload \cup {NoFile}]
         /\ object'[job.of] = job.file /\ \A k \in Key \ {job.of} : object'[k] = object[k]
         /\ runs[r].pc = "write" /\ runs'[r].pc = "recheck" /\ runs'[r].row = runs[r].row
<1>1. /\ Frame /\ rows' = rows /\ faults' \in Nat /\ runs[r].pc = "write"
      /\ Goto(r, "recheck")
      /\ object' = [object EXCEPT ![rows[runs[r].row].of] = rows[runs[r].row].file]
      /\ object \in [Key -> Upload \cup {NoFile}]
  BY Zenon DEF Write, Frame, At, TypeInv, TypeOK
<1>2. "recheck" \in RunPc /\ "write" \in PrecomputePc
  BY SMT DEF RunPc, PrecomputePc
<1>3. /\ Moved(r) /\ runs'[r].pc = "recheck" /\ runs'[r].row = runs[r].row
  BY <1>1, <1>2, GotoFacts DEF Moved, TypeInv
<1>4. rows[runs[r].row].of \in Version /\ rows[runs[r].row].file \in Upload
  BY <1>1, <1>2, WriterFacts
<1>5. rows[runs[r].row].of \in Key
  BY <1>4, Constants
<1>6. Grows /\ Row' = Row
  BY <1>1, SameRows DEF TypeInv
<1>. QED
  BY <1>1, <1>3, <1>4, <1>5, <1>6, SMT

LEMMA RetireFacts ==
  ASSUME TypeInv, NEW r \in Runner, Retire(r)
  PROVE  /\ Frame /\ object' = object /\ faults' \in Nat /\ Moved(r) /\ Adds
         /\ runs[r].pc = "retire" /\ runs'[r].pc = "finish" /\ runs'[r].row = runs[r].row
<1>1. /\ Frame /\ object' = object /\ faults' \in Nat /\ runs[r].pc = "retire"
      /\ Goto(r, "finish")
      /\ rows' = Append(rows, CleanupRow({rows[runs[r].row].of}))
  BY Zenon DEF Retire, Frame, At, TypeInv, TypeOK
<1>2. "finish" \in RunPc /\ "retire" \in PrecomputePc
  BY SMT DEF RunPc, PrecomputePc
<1>3. /\ Moved(r) /\ runs'[r].pc = "finish" /\ runs'[r].row = runs[r].row
  BY <1>1, <1>2, GotoFacts DEF Moved, TypeInv
<1>4. rows[runs[r].row].of \in Key /\ rows[runs[r].row].of \notin Upload
  BY <1>1, <1>2, WriterFacts, Constants
<1>5. /\ {rows[runs[r].row].of} \in SUBSET Key
      /\ NamesFiles({rows[runs[r].row].of})
  BY <1>4 DEF NamesFiles
<1>. QED
  BY <1>1, <1>3, <1>5, AddCleanup DEF TypeInv

LEMMA EndFacts ==
  ASSUME TypeInv, NEW r \in Runner, EndPrecompute(r)
  PROVE  /\ Frame /\ object' = object /\ faults' \in Nat /\ Moved(r) /\ Grows /\ Row' = Row
         /\ runs[r].pc \in PrecomputePc /\ runs'[r].pc = "idle"
         /\ \A i \in Row \ {runs[r].row} : rows'[i] = rows[i]
<1>1. /\ Frame /\ object' = object /\ faults' \in Nat /\ runs[r].pc \in {"finish", "fail"}
      /\ runs' = [runs EXCEPT ![r] = Idle]
  BY Zenon DEF EndPrecompute, Frame, At, TypeInv, TypeOK
<1>2. runs[r].pc \in PrecomputePc
  BY <1>1, SMT DEF PrecomputePc
<1>3. runs[r].row \in Row
  BY <1>2, WriterFacts
<1>4. \E status \in Statuses : rows' = rows \/ rows' = Put(runs[r].row, status)
  BY SMT DEF EndPrecompute, Statuses
<1>5. Grows /\ Row' = Row /\ \A i \in Row \ {runs[r].row} : rows'[i] = rows[i]
  <2>1. CASE rows' = rows
    BY <2>1, SameRows DEF TypeInv
  <2>2. ASSUME NEW status \in Statuses, rows' = Put(runs[r].row, status)
        PROVE  Grows /\ Row' = Row /\ \A i \in Row \ {runs[r].row} : rows'[i] = rows[i]
    BY <1>3, <2>2, PutFacts DEF TypeInv
  <2>. QED
    BY <1>4, <2>1, <2>2
<1>. QED
  BY <1>1, <1>2, <1>5, LeaveFacts

LEMMA CrashFacts ==
  ASSUME TypeInv, NEW r \in Runner, Crash(r)
  PROVE  /\ Frame /\ object' = object /\ faults' \in Nat /\ Moved(r) /\ Grows /\ Row' = Row
         /\ runs'[r].pc = "idle"
         /\ \A j \in Row : /\ rows'[j].status = rows[j].status
                           /\ rows[j].holder # r => rows'[j] = rows[j]
<1>1. /\ Frame /\ object' = object /\ runs' = [runs EXCEPT ![r] = Idle]
      /\ rows' = [j \in Row |-> IF rows[j].holder = r
                                THEN With(rows[j], rows[j].status, NoRunner,
                                          rows[j].attempts)
                                ELSE rows[j]]
  BY Zenon DEF Crash, Frame
<1>2. faults' \in Nat
  BY FaultType DEF Crash, TypeInv
<1>3. ASSUME NEW j \in Row
      PROVE  /\ rows'[j] \in JobRow
             /\ rows'[j].kind = rows[j].kind /\ rows'[j].keys = rows[j].keys
             /\ rows'[j].of = rows[j].of /\ rows'[j].file = rows[j].file
             /\ rows'[j].status = rows[j].status
             /\ rows[j].holder # r => rows'[j] = rows[j]
  <2>1. /\ rows[j] \in JobRow /\ rows[j].status \in Statuses
        /\ rows[j].attempts \in 0..Attempts /\ NoRunner \in Runner \cup {NoRunner}
    BY RowFacts, FieldFacts DEF TypeInv
  <2>2. CASE rows[j].holder = r
    <3>. DEFINE new == With(rows[j], rows[j].status, NoRunner, rows[j].attempts)
    <3>1. rows'[j] = new
      BY <1>1, <2>2
    <3>2. /\ new \in JobRow
          /\ new.kind = rows[j].kind /\ new.keys = rows[j].keys
          /\ new.of = rows[j].of /\ new.file = rows[j].file
          /\ new.status = rows[j].status
      BY <2>1, SMT DEF With, JobRow, Statuses
    <3>. HIDE DEF new
    <3>. QED
      BY <2>2, <3>1, <3>2
  <2>3. CASE rows[j].holder # r
    <3>1. rows'[j] = rows[j]
      BY <1>1, <2>3
    <3>. QED
      BY <2>1, <2>3, <3>1
  <2>. QED
    BY <2>2, <2>3
<1>4. rows' \in [Row -> JobRow]
  <2>1. rows' = [j \in Row |-> rows'[j]]
    BY <1>1
  <2>. QED
    BY <1>3, <2>1
<1>5. Grows /\ Row' = Row
  BY <1>3, <1>4, RewriteFacts, Zenon DEF Grows, TypeInv
<1>. QED
  BY <1>1, <1>2, <1>3, <1>5, LeaveFacts

LEMMA AbandonFacts ==
  ASSUME TypeInv, NEW j \in Row, Abandon(j)
  PROVE  /\ Frame /\ object' = object /\ faults' \in Nat /\ runs' = runs
         /\ Grows /\ Row' = Row
         /\ rows[j].kind = "precompute" /\ \A i \in Row \ {j} : rows'[i] = rows[i]
         /\ "zombie" \in Faults \/ rows[j].holder = NoRunner
<1>1. /\ Frame /\ object' = object /\ runs' = runs /\ rows' = Put(j, "failed")
      /\ rows[j].kind = "precompute"
      /\ "zombie" \in Faults \/ rows[j].holder = NoRunner
  BY Zenon DEF Abandon, Frame, Abandonable, Fault
<1>2. faults' \in Nat
  BY FaultType, Zenon DEF Abandon, TypeInv, TypeOK
<1>3. "failed" \in Statuses
  BY SMT DEF Statuses
<1>. QED
  BY <1>1, <1>2, <1>3, PutFacts DEF TypeInv

-----------------------------------------------------------------------------
(* Types.                                                                  *)

(* What the run of slot r holds after a step.                              *)
Holds(r) ==
  /\ runs'[r].pc \in CleanupPc =>
       \A j \in runs'[r].batch \cup {runs'[r].row} : j \in Row /\ rows[j].kind = "cleanup"
  /\ runs'[r].pc \in PrecomputePc =>
       runs'[r].row \in Row /\ rows[runs'[r].row].kind = "precompute"
  /\ runs'[r].pc = "settle" => runs'[r].todo = {}

LEMMA PcFacts ==
  /\ "idle" \notin CleanupPc \cup PrecomputePc
  /\ {"coalesce", "guard", "lookup", "delete", "settle", "release"} = CleanupPc
  /\ {"check", "load", "write", "recheck", "retire", "finish", "fail"} = PrecomputePc
  /\ CleanupPc \cap PrecomputePc = {}
BY SMT DEF CleanupPc, PrecomputePc

LEMMA PayloadsKept ==
  ASSUME TypeInv, Grows, Row' = Row
  PROVE  Payloads'
BY SMT DEF TypeInv, Payloads, Grows

LEMMA PayloadsAdded ==
  ASSUME TypeInv, Adds
  PROVE  Payloads'
BY SMT DEF TypeInv, Payloads, Adds

LEMMA SlotType ==
  ASSUME TypeInv, NEW r \in Runner, Frame, Grows, Payloads', Moved(r), Holds(r),
         object' \in [Key -> Upload \cup {NoFile}], faults' \in Nat
  PROVE  TypeInv'
<1>1. TypeOK'
  BY Zenon DEF TypeInv, TypeOK, Frame, Grows, Moved
<1>2. Files'
  BY Zenon DEF TypeInv, Files, LiveVersion, Frame
<1>3. Working'
  <2>. SUFFICES ASSUME NEW q \in Runner
                PROVE  /\ runs'[q].pc \in CleanupPc =>
                            \A j \in runs'[q].batch \cup {runs'[q].row} :
                              j \in Row' /\ rows'[j].kind = "cleanup"
                       /\ runs'[q].pc \in PrecomputePc =>
                            /\ runs'[q].row \in Row'
                            /\ rows'[runs'[q].row].kind = "precompute"
                       /\ runs'[q].pc = "settle" => runs'[q].todo = {}
    BY Zenon DEF Working, Held
  <2>1. \A j \in Row : j \in Row' /\ rows'[j].kind = rows[j].kind
    BY SMT DEF Grows
  <2>2. CASE q = r
    BY <2>1, <2>2, Zenon DEF Holds
  <2>3. CASE q # r
    <3>1. runs'[q] = runs[q]
      BY <2>3 DEF Moved
    <3>. QED
      BY <2>1, <3>1, Zenon DEF TypeInv, Working, Held
  <2>. QED
    BY <2>2, <2>3
<1>. QED
  BY <1>1, <1>2, <1>3 DEF TypeInv

LEMMA TypeLifecycle ==
  ASSUME TypeInv, Lifecycle
  PROVE  TypeInv'
<1>1. /\ runs' = runs /\ Adds /\ Files'
      /\ version' \in [Version -> VersionRow]
      /\ object' \in [Key -> Upload \cup {NoFile}]
      /\ uploads' \in [Replacement -> UploadPc]
      /\ reading' \in [Version -> Upload \cup {NoFile}]
      /\ faults' \in Nat
  BY LifecycleFacts
<1>2. TypeOK'
  BY <1>1, Zenon DEF TypeInv, TypeOK, Adds, Grows
<1>3. Working'
  <2>1. \A j \in Row : j \in Row' /\ rows'[j].kind = rows[j].kind
    BY <1>1, SMT DEF Adds, Grows
  <2>2. \A r \in Runner : Held(r)' = Held(r)
    BY <1>1, Zenon DEF Held
  <2>. QED
    BY <1>1, <2>1, <2>2, SMT DEF TypeInv, Working
<1>. QED
  BY <1>1, <1>2, <1>3, PayloadsAdded DEF TypeInv

LEMMA TypeRun ==
  ASSUME TypeInv, NEW r \in Runner, RunStep(r) \/ Crash(r)
  PROVE  TypeInv'
<1>1. object \in [Key -> Upload \cup {NoFile}]
  BY Zenon DEF TypeInv, TypeOK
<1>2. ASSUME runs'[r].pc = "idle"
      PROVE  Holds(r)
  BY <1>2, PcFacts, SMT DEF Holds
<1>3. CASE Coalesce(r)
  <2>1. Holds(r)
    <3>1. /\ runs'[r].row = runs[r].row /\ runs'[r].pc = "guard"
          /\ \A j \in runs'[r].batch : j \in Row /\ rows[j].kind = "cleanup"
          /\ runs[r].pc = "coalesce"
      BY <1>3, CoalesceFacts
    <3>2. runs[r].row \in Row /\ rows[runs[r].row].kind = "cleanup"
      BY <3>1, PcFacts, SMT DEF TypeInv, Working, Held
    <3>. QED
      BY <3>1, <3>2, PcFacts, SMT DEF Holds
  <2>. QED
    BY <1>1, <1>3, <2>1, CoalesceFacts, PayloadsKept, SlotType
<1>4. CASE Moves(r)
  <2>1. Holds(r)
    BY <1>4, MoveFacts, PcFacts, SMT DEF Holds, TypeInv, Working, Held
  <2>. QED
    BY <1>1, <1>4, <2>1, MoveFacts, PayloadsKept, SlotType
<1>5. CASE Lookup(r)
  <2>1. Holds(r)
    BY <1>5, LookupFacts, PcFacts, SMT DEF Holds, TypeInv, Working, Held
  <2>. QED
    BY <1>1, <1>5, <2>1, LookupFacts, PayloadsKept, SlotType
<1>6. CASE Delete(r)
  <2>1. Holds(r)
    BY <1>6, DeleteFacts, PcFacts, SMT DEF Holds, TypeInv, Working, Held
  <2>. QED
    BY <1>6, <2>1, DeleteFacts, PayloadsKept, SlotType
<1>7. CASE Settle(r)
  <2>1. Holds(r)
    BY <1>2, <1>7, SettleFacts, PcFacts, SMT DEF Holds, TypeInv, Working, Held
  <2>. QED
    BY <1>1, <1>7, <2>1, SettleFacts, PayloadsKept, SlotType
<1>8. CASE Write(r)
  <2>1. /\ Frame /\ faults' \in Nat /\ Moved(r) /\ Grows /\ Row' = Row
        /\ object' \in [Key -> Upload \cup {NoFile}]
        /\ runs[r].pc = "write" /\ runs'[r].pc = "recheck" /\ runs'[r].row = runs[r].row
    BY <1>8, WriteFacts
  <2>2. Holds(r)
    BY <2>1, PcFacts, SMT DEF Holds, TypeInv, Working
  <2>. QED
    BY <2>1, <2>2, PayloadsKept, SlotType
<1>9. CASE Retire(r)
  <2>1. Holds(r)
    BY <1>9, RetireFacts, PcFacts, SMT DEF Holds, TypeInv, Working
  <2>2. Grows
    BY <1>9, RetireFacts DEF Adds
  <2>. QED
    BY <1>1, <1>9, <2>1, <2>2, RetireFacts, PayloadsAdded, SlotType
<1>10. CASE EndPrecompute(r)
  BY <1>1, <1>2, <1>10, EndFacts, PayloadsKept, SlotType
<1>11. CASE Crash(r)
  BY <1>1, <1>2, <1>11, CrashFacts, PayloadsKept, SlotType
<1>. QED
  BY <1>3, <1>4, <1>5, <1>6, <1>7, <1>8, <1>9, <1>10, <1>11, Zenon DEF RunStep, Moves

LEMMA TypeClaim ==
  ASSUME TypeInv, NEW r \in Runner, NEW j \in Row, Claim(r, j)
  PROVE  TypeInv'
<1>1. rows[j].kind \in Kinds
  BY RowFacts, FieldFacts DEF TypeInv
<1>2. Holds(r)
  BY <1>1, ClaimFacts, PcFacts, SMT DEF Holds, Kinds
<1>3. object \in [Key -> Upload \cup {NoFile}]
  BY Zenon DEF TypeInv, TypeOK
<1>. QED
  BY <1>2, <1>3, ClaimFacts, PayloadsKept, SlotType

LEMMA TypeAbandon ==
  ASSUME TypeInv, NEW j \in Row, Abandon(j)
  PROVE  TypeInv'
<1>1. /\ Frame /\ object' = object /\ faults' \in Nat /\ runs' = runs
      /\ Grows /\ Row' = Row
  BY AbandonFacts
<1>2. TypeOK'
  BY <1>1, Zenon DEF TypeInv, TypeOK, Frame, Grows
<1>3. Files'
  BY <1>1, Zenon DEF TypeInv, Files, LiveVersion, Frame
<1>4. Working'
  <2>1. \A r \in Runner : Held(r)' = Held(r)
    BY <1>1, Zenon DEF Held
  <2>. QED
    BY <1>1, <2>1, SMT DEF TypeInv, Working, Grows
<1>. QED
  BY <1>1, <1>2, <1>3, <1>4, PayloadsKept DEF TypeInv

LEMMA TypeInit == Init => TypeInv
<1>. SUFFICES ASSUME Init
              PROVE  TypeInv
  OBVIOUS
<1>1. rows = <<>> /\ Row = {}
  BY SMT DEF Init, Row
<1>2. rows \in Seq(JobRow)
  BY <1>1, EmptySeq
<1>3. version \in [Version -> VersionRow] /\ Files
  BY Constants, SMT DEF Init, VersionRow, Files, LiveVersion
<1>4. object \in [Key -> Upload \cup {NoFile}]
  <2>1. \A k \in Key : (\E v \in Version : Original[v] = k) => k \in Upload
    BY Constants
  <2>. QED
    BY <2>1, SMT DEF Init
<1>5. runs \in [Runner -> Run] /\ \A r \in Runner : runs[r] = Idle
  BY IdleFacts, SMT DEF Init
<1>6. /\ uploads \in [Replacement -> UploadPc]
      /\ reading \in [Version -> Upload \cup {NoFile}] /\ faults \in Nat
  BY SMT DEF Init, UploadPc
<1>7. Working
  BY <1>5, IdleFacts, PcFacts, SMT DEF Working
<1>8. Payloads
  BY <1>1 DEF Payloads
<1>. QED
  BY <1>2, <1>3, <1>4, <1>5, <1>6, <1>7, <1>8, Zenon DEF TypeInv, TypeOK

LEMMA TypeStep ==
  ASSUME TypeInv, [Next]_vars
  PROVE  TypeInv'
<1>1. CASE UNCHANGED vars
  BY <1>1, Zenon DEF vars, TypeInv, TypeOK, Working, Payloads, Files, LiveVersion, Held, Row
<1>2. CASE Next
  <2>1. \/ Lifecycle
        \/ \E r \in Runner : RunStep(r) \/ Crash(r) \/ \E j \in Row : Claim(r, j)
        \/ \E j \in Row : Abandon(j)
    BY <1>2, Zenon DEF Next, Lifecycle
  <2>. QED
    BY <2>1, TypeLifecycle, TypeRun, TypeClaim, TypeAbandon
<1>. QED
  BY <1>1, <1>2

(* Every state is of the right types; no row of a cache writer is claimed  *)
(* more often than its attempts allow.                                     *)
THEOREM TypeCorrect == Spec => []TypeOK
<1>1. Init => TypeInv
  BY TypeInit
<1>2. TypeInv /\ [Next]_vars => TypeInv'
  BY TypeStep
<1>. QED
  BY <1>1, <1>2, PTL DEF Spec, TypeInv

-----------------------------------------------------------------------------
(* What is owed stays owed.                                                *)

LEMMA WitnessKept ==
  ASSUME NEW k, NEW j \in Row, Names(j, k), Grows, rows'[j].status # "done",
         \A q \in Runner : Ahead(q, j, k)'
  PROVE  Witness(k)'
<1>1. j \in Row' /\ Names(j, k)'
  BY SMT DEF Grows, Names
<1>. QED
  BY <1>1, Zenon DEF Witness

LEMMA AheadSlot ==
  ASSUME NEW k, NEW j, NEW r \in Runner, Moved(r), \A q \in Runner : Ahead(q, j, k),
         Ahead(r, j, k)'
  PROVE  \A q \in Runner : Ahead(q, j, k)'
<1>1. ASSUME NEW q \in Runner, q # r
      PROVE  Ahead(q, j, k)'
  <2>1. runs'[q] = runs[q]
    BY <1>1 DEF Moved
  <2>. QED
    BY <2>1, Zenon DEF Ahead, Held
<1>. QED
  BY <1>1

(* A step that only adds rows.                                             *)
LEMMA OwedAdded ==
  ASSUME NEW k, Witness(k), Adds, runs' = runs
  PROVE  Witness(k)'
<1>1. PICK j \in Row : Names(j, k) /\ \A q \in Runner : Ahead(q, j, k)
  BY DEF Witness
<1>2. \A q \in Runner : Ahead(q, j, k)'
  BY <1>1, Zenon DEF Ahead, Held
<1>3. Grows /\ rows'[j].status # "done"
  BY <1>1 DEF Adds, Names
<1>. QED
  BY <1>1, <1>2, <1>3, WitnessKept

(* Only the outcome of a run that got key k out of the way settles a row   *)
(* that names it; only a reference to k lets a run pass k by.              *)
LEMMA OwedRun ==
  ASSUME TypeInv, NEW r \in Runner, RunStep(r) \/ Crash(r),
         NEW k \in Key, Witness(k), k \notin Referenced, object'[k] # NoFile
  PROVE  Witness(k)'
<1>1. PICK j \in Row : Names(j, k) /\ \A q \in Runner : Ahead(q, j, k)
  BY DEF Witness
<1>2. rows[j].status # "done" /\ k \in rows[j].keys /\ rows[j].kind = "cleanup"
  BY <1>1 DEF Names
<1>3. ASSUME Moved(r), Grows, rows'[j].status # "done", Ahead(r, j, k)'
      PROVE  Witness(k)'
  BY <1>1, <1>3, AheadSlot, WitnessKept
<1>4. ASSUME runs'[r].pc \notin {"delete", "settle"}
      PROVE  Ahead(r, j, k)'
  BY <1>4, SMT DEF Ahead
<1>5. CASE Coalesce(r)
  <2>1. rows'[j].status # "done"
    BY <1>2, <1>5, CoalesceFacts
  <2>2. Moved(r) /\ Grows /\ runs'[r].pc \notin {"delete", "settle"}
    BY <1>5, CoalesceFacts
  <2>. QED
    BY <1>3, <1>4, <2>1, <2>2
<1>6. CASE Moves(r)
  <2>1. Moved(r) /\ Grows /\ rows' = rows /\ runs'[r].pc \notin {"delete", "settle"}
    BY <1>6, MoveFacts
  <2>. QED
    BY <1>2, <1>3, <1>4, <2>1
<1>7. CASE Lookup(r)
  <2>1. /\ Moved(r) /\ Grows /\ rows' = rows
        /\ runs[r].pc = "lookup" /\ runs'[r].row = runs[r].row
        /\ runs'[r].batch = runs[r].batch /\ runs'[r].todo = KeysOf(r) \ Referenced
    BY <1>7, LookupFacts
  <2>2. \A i \in Held(r) : rows[i].keys \subseteq KeysOf(r)
    BY <2>1, PcFacts, KeysOfFacts
  <2>3. Held(r)' = Held(r)
    BY <2>1 DEF Held
  <2>4. Ahead(r, j, k)'
    BY <1>2, <2>1, <2>2, <2>3, Zenon DEF Ahead
  <2>. QED
    BY <1>2, <1>3, <2>1, <2>4
<1>8. CASE Delete(r)
  <2>1. /\ Moved(r) /\ Grows /\ rows' = rows
        /\ runs[r].pc = "delete" /\ runs'[r].row = runs[r].row
        /\ runs'[r].batch = runs[r].batch
        /\ k \in runs[r].todo \cup runs[r].failed =>
             k \in runs'[r].todo \cup runs'[r].failed
    BY <1>8, DeleteFacts
  <2>2. Held(r)' = Held(r)
    BY <2>1 DEF Held
  <2>3. Ahead(r, j, k)'
    BY <1>1, <2>1, <2>2, SMT DEF Ahead
  <2>. QED
    BY <1>2, <1>3, <2>1, <2>3
<1>9. CASE Settle(r)
  <2>1. /\ Moved(r) /\ Grows /\ runs[r].pc \in {"settle", "release"}
        /\ \/ rows'[j] = rows[j]
           \/ j \in Held(r) /\ rows'[j].status \in {OutcomeOf(r, j), "running"}
        /\ \/ runs'[r].pc = "idle"
           \/ /\ runs'[r].pc = runs[r].pc /\ runs'[r].row = runs[r].row
              /\ runs'[r].batch \subseteq runs[r].batch
              /\ runs'[r].todo = runs[r].todo /\ runs'[r].failed = runs[r].failed
    BY <1>9, SettleFacts
  <2>2. runs[r].pc = "settle" => runs[r].todo = {}
    BY DEF TypeInv, Working
  <2>3. j \in Held(r) => OutcomeOf(r, j) = "pending"
    <3>1. CASE runs[r].pc = "release"
      BY <3>1, SMT DEF OutcomeOf, At
    <3>2. CASE runs[r].pc = "settle" /\ j \in Held(r)
      <4>1. k \in runs[r].failed
        BY <1>1, <2>2, <3>2, SMT DEF Ahead
      <4>. QED
        BY <1>2, <4>1, SMT DEF OutcomeOf
    <3>. QED
      BY <2>1, <3>1, <3>2, SMT
  <2>4. rows'[j].status # "done"
    BY <1>2, <2>1, <2>3, SMT
  <2>5. Ahead(r, j, k)'
    <3>1. runs'[r].pc # "idle" => Held(r)' \subseteq Held(r)
      BY <2>1, SMT DEF Held
    <3>. QED
      BY <1>1, <2>1, <3>1, SMT DEF Ahead
  <2>. QED
    BY <1>3, <2>1, <2>4, <2>5
<1>10. CASE Write(r)
  <2>1. Moved(r) /\ Grows /\ rows' = rows /\ runs'[r].pc = "recheck"
    BY <1>10, WriteFacts
  <2>. QED
    BY <1>2, <1>3, <1>4, <2>1
<1>11. CASE Retire(r)
  <2>1. Moved(r) /\ Adds /\ runs'[r].pc = "finish"
    BY <1>11, RetireFacts
  <2>2. Grows /\ rows'[j] = rows[j]
    BY <2>1 DEF Adds
  <2>. QED
    BY <1>2, <1>3, <1>4, <2>1, <2>2
<1>12. CASE EndPrecompute(r)
  <2>1. /\ Moved(r) /\ Grows /\ runs[r].pc \in PrecomputePc /\ runs'[r].pc = "idle"
        /\ \A i \in Row \ {runs[r].row} : rows'[i] = rows[i]
    BY <1>12, EndFacts
  <2>2. rows[runs[r].row].kind = "precompute"
    BY <2>1, WriterFacts
  <2>3. j # runs[r].row
    BY <1>2, <2>2
  <2>. QED
    BY <1>2, <1>3, <1>4, <2>1, <2>3
<1>13. CASE Crash(r)
  <2>1. Moved(r) /\ Grows /\ rows'[j].status = rows[j].status /\ runs'[r].pc = "idle"
    BY <1>13, CrashFacts
  <2>. QED
    BY <1>2, <1>3, <1>4, <2>1
<1>. QED
  BY <1>5, <1>6, <1>7, <1>8, <1>9, <1>10, <1>11, <1>12, <1>13, Zenon DEF RunStep, Moves

LEMMA OwedClaim ==
  ASSUME TypeInv, NEW r \in Runner, NEW i \in Row, Claim(r, i), NEW k, Witness(k)
  PROVE  Witness(k)'
<1>1. PICK j \in Row : Names(j, k) /\ \A q \in Runner : Ahead(q, j, k)
  BY DEF Witness
<1>2. /\ Moved(r) /\ Grows /\ rows'[i].status = "running"
      /\ \A n \in Row \ {i} : rows'[n] = rows[n]
      /\ runs'[r].pc \in {"coalesce", "check"}
  BY ClaimFacts
<1>3. rows'[j].status # "done"
  BY <1>1, <1>2 DEF Names
<1>4. Ahead(r, j, k)'
  BY <1>2, SMT DEF Ahead
<1>. QED
  BY <1>1, <1>2, <1>3, <1>4, AheadSlot, WitnessKept

LEMMA OwedAbandon ==
  ASSUME TypeInv, NEW i \in Row, Abandon(i), NEW k, Witness(k)
  PROVE  Witness(k)'
<1>1. PICK j \in Row : Names(j, k) /\ \A q \in Runner : Ahead(q, j, k)
  BY DEF Witness
<1>2. /\ runs' = runs /\ Grows /\ rows[i].kind = "precompute"
      /\ \A n \in Row \ {i} : rows'[n] = rows[n]
  BY AbandonFacts
<1>3. rows'[j].status # "done"
  BY <1>1, <1>2, SMT DEF Names
<1>4. \A q \in Runner : Ahead(q, j, k)'
  BY <1>1, <1>2, Zenon DEF Ahead, Held
<1>. QED
  BY <1>1, <1>2, <1>3, <1>4, WitnessKept

LEMMA OwedStep ==
  ASSUME TypeInv, Next, NEW k \in Key, Witness(k), k \notin Referenced,
         object'[k] # NoFile
  PROVE  Witness(k)'
<1>1. \/ Lifecycle
      \/ \E r \in Runner : RunStep(r) \/ Crash(r) \/ \E j \in Row : Claim(r, j)
      \/ \E j \in Row : Abandon(j)
  BY Zenon DEF Next, Lifecycle
<1>2. ASSUME Lifecycle
      PROVE  Witness(k)'
  BY <1>2, LifecycleFacts, OwedAdded
<1>. QED
  BY <1>1, <1>2, OwedRun, OwedClaim, OwedAbandon

(* A row that was just written is owed, and no run is at work on it.       *)
LEMMA NewlyOwed ==
  ASSUME TypeInv, Grows, runs' = runs, NEW k, NEW keys \in SUBSET Key, k \in keys,
         \E j \in Row' \ Row : rows'[j] = CleanupRow(keys)
  PROVE  Witness(k)' /\ Fresh(k)'
<1>1. PICK j \in Row' \ Row : rows'[j] = CleanupRow(keys)
  OBVIOUS
<1>2. Names(j, k)'
  BY <1>1, CleanupRowFacts, SMT DEF Names
<1>3. ASSUME NEW q \in Runner
      PROVE  Ahead(q, j, k)' /\ Unseen(q, j)'
  <2>1. runs[q].pc \in CleanupPc => j \notin Held(q)
    BY <1>1, SMT DEF TypeInv, Working
  <2>2. Held(q)' = Held(q) /\ runs'[q] = runs[q]
    BY Zenon DEF Held
  <2>. QED
    BY <2>1, <2>2, PcFacts, SMT DEF Ahead, Unseen
<1>. QED
  BY <1>2, <1>3, Zenon DEF Witness, Fresh

-----------------------------------------------------------------------------
(* Retired files.                                                          *)

LEMMA ReferencedFacts ==
  ASSUME NEW u
  PROVE  /\ u \in Referenced <=>
              \E v \in Version : LiveVersion(v) /\ version[v].file = u
         /\ u \in Referenced' <=>
              \E v \in Version : LiveVersion(v)' /\ version'[v].file = u
BY SMT DEF Referenced

LEMMA VersionKeyFacts ==
  ASSUME TypeInv, NEW v \in Version
  PROVE  v \notin Referenced
<1>1. ASSUME NEW w \in Version, LiveVersion(w)
      PROVE  version[w].file \in Upload
  BY <1>1 DEF TypeInv, Files
<1>. QED
  BY <1>1, Constants, ReferencedFacts

(* A worker slot leaves versions and uploads alone, and writes no file.    *)
LEMMA SlotObjects ==
  ASSUME TypeInv, NEW r \in Runner,
         RunStep(r) \/ Crash(r) \/ \E j \in Row : Claim(r, j)
  PROVE  /\ Frame
         /\ \A k \in Key : object'[k] # NoFile /\ object'[k] # object[k] =>
              /\ Write(r) /\ k = rows[runs[r].row].of
              /\ object'[k] = rows[runs[r].row].file
<1>1. CASE Write(r)
  BY <1>1, WriteFacts
<1>2. CASE Delete(r)
  BY <1>2, DeleteFacts
<1>3. CASE Coalesce(r) \/ Moves(r) \/ Lookup(r) \/ Settle(r)
  BY <1>3, CoalesceFacts, MoveFacts, LookupFacts, SettleFacts
<1>4. CASE Retire(r) \/ EndPrecompute(r) \/ Crash(r) \/ \E j \in Row : Claim(r, j)
  BY <1>4, RetireFacts, EndFacts, CrashFacts, ClaimFacts
<1>. QED
  BY <1>1, <1>2, <1>3, <1>4, Zenon DEF RunStep, Moves

LEMMA LifecycleObjects ==
  ASSUME TypeInv, Lifecycle
  PROVE  /\ \A u \in Upload : Committed(u)' => object'[u] = object[u]
         /\ \A v \in Version : object'[v] = object[v]
         /\ \A u \in Upload : Committed(u)' /\ u \notin Referenced' => Committed(u)
<1>1. /\ object \in [Key -> Upload \cup {NoFile}] /\ uploads \in [Replacement -> UploadPc]
      /\ version \in [Version -> VersionRow]
  BY Zenon DEF TypeInv, TypeOK
<1>2. CASE DeleteDocument \/ \E v \in Version : DeleteVersion(v) \/ StartRead(v) \/ EndRead(v)
  <2>1. object' = object /\ uploads' = uploads
    BY <1>2, Zenon DEF DeleteDocument, DeleteVersion, StartRead, EndRead
  <2>. QED
    BY <2>1, Zenon DEF Committed
<1>3. ASSUME NEW u \in Replacement, CopyFile(u)
      PROVE  /\ \A x \in Upload : Committed(x)' => object'[x] = object[x]
             /\ \A v \in Version : object'[v] = object[v]
             /\ \A x \in Upload : Committed(x)' => Committed(x)
  <2>1. object' = [object EXCEPT ![u] = u] /\ uploads' = [uploads EXCEPT ![u] = "commit"]
    BY <1>3, Zenon DEF CopyFile
  <2>2. u \in Upload /\ u \in Key
    BY Constants
  <2>3. /\ \A x \in Key \ {u} : object'[x] = object[x]
        /\ uploads'[u] = "commit" /\ \A x \in Replacement \ {u} : uploads'[x] = uploads[x]
    BY <1>1, <2>1, <2>2, SMT
  <2>. QED
    BY <2>2, <2>3, Constants, SMT DEF Committed
<1>4. ASSUME NEW u \in Replacement, StartUpload(u) \/ RecordUpload(u) \/ RetryUpload(u)
      PROVE  /\ object' = object
             /\ \A x \in Upload : Committed(x)' => Committed(x)
  <2>1. /\ object' = object
        /\ \A x \in Replacement \ {u} : uploads'[x] = uploads[x]
        /\ uploads'[u] \in {"record", "completed"} => uploads[u] \in {"record", "completed"}
    BY <1>1, <1>4, SMT DEF StartUpload, RecordUpload, RetryUpload
  <2>. QED
    BY <2>1, SMT DEF Committed
<1>5. ASSUME NEW u \in Replacement, CommitUpload(u)
      PROVE  /\ object' = object
             /\ \A x \in Upload : Committed(x)' /\ x \notin Referenced' => Committed(x)
  <2>1. object' = object
    BY <1>5, Zenon DEF CommitUpload
  <2>2. CASE LiveVersion(Target[u])
    <3>1. /\ Target[u] \in Version /\ version'[Target[u]].file = u
          /\ LiveVersion(Target[u])' /\ uploads' = [uploads EXCEPT ![u] = "record"]
      BY <1>5, <2>2, CommitFacts, Constants DEF LiveVersion
    <3>2. u \in Referenced'
      BY <3>1, ReferencedFacts
    <3>3. \A x \in Replacement \ {u} : uploads'[x] = uploads[x]
      BY <1>1, <3>1, SMT
    <3>. QED
      BY <2>1, <3>2, <3>3, SMT DEF Committed
  <2>3. CASE ~LiveVersion(Target[u])
    <3>1. uploads' = [uploads EXCEPT ![u] = "failed"]
      BY <1>5, <2>3, Zenon DEF CommitUpload
    <3>2. uploads'[u] = "failed" /\ \A x \in Replacement \ {u} : uploads'[x] = uploads[x]
      BY <1>1, <3>1, SMT
    <3>. QED
      BY <2>1, <3>2, SMT DEF Committed
  <2>. QED
    BY <2>2, <2>3
<1>. QED
  BY <1>2, <1>3, <1>4, <1>5, Zenon DEF Lifecycle

(* What a version no longer points at is owed.                             *)
LEMMA RetiredNow ==
  ASSUME TypeInv, Lifecycle, NEW v \in Version, version'[v] # version[v],
         NEW k, k \in RetiredKeys(v)
  PROVE  Witness(k)' /\ Fresh(k)'
<1>1. runs' = runs /\ Grows /\ \E j \in Row' \ Row : rows'[j] = CleanupRow(RetiredKeys(v))
  BY LifecycleFacts DEF Adds, Retires
<1>2. RetiredKeys(v) \in SUBSET Key
  BY RetiredKeysType DEF TypeInv
<1>. QED
  BY <1>1, <1>2, NewlyOwed

LEMMA RetiredStep ==
  ASSUME RetiredInv, [Next]_vars
  PROVE  RetiredInv'
<1>1. TypeInv /\ TypeInv'
  BY TypeStep DEF RetiredInv
<1>2. CASE UNCHANGED vars
  <2>1. \A u \in Upload : Witness(u)' <=> Witness(u)
    BY <1>2, Zenon DEF vars, Witness, Names, Ahead, Held, Row
  <2>2. \A u \in Upload : /\ object'[u] = object[u] /\ (Committed(u)' <=> Committed(u))
                          /\ (u \in Referenced' <=> u \in Referenced)
    BY <1>2, Zenon DEF vars, Committed, Referenced, LiveVersion
  <2>. QED
    BY <1>1, <2>1, <2>2, Zenon DEF RetiredInv
<1>3. CASE Next
  <2>. SUFFICES ASSUME NEW u \in Upload,
                       object'[u] # NoFile, Committed(u)', u \notin Referenced'
                PROVE  Witness(u)'
    BY <1>1, Zenon DEF RetiredInv
  <2>1. u \in Key
    BY Constants
  <2>2. CASE object[u] # NoFile /\ Committed(u) /\ u \notin Referenced
    BY <1>1, <1>3, <2>1, <2>2, OwedStep DEF RetiredInv
  <2>3. CASE Lifecycle /\ u \in Referenced
    <3>1. PICK v \in Version : LiveVersion(v) /\ version[v].file = u
      BY <2>3, ReferencedFacts
    <3>2. version'[v] # version[v]
      BY <3>1, ReferencedFacts DEF LiveVersion
    <3>3. u \in RetiredKeys(v)
      BY <1>1, <3>1, RetiredKeysType DEF TypeInv
    <3>. QED
      BY <1>1, <2>3, <3>2, <3>3, RetiredNow
  <2>4. CASE Lifecycle /\ u \notin Referenced
    <3>1. object[u] # NoFile /\ Committed(u)
      BY <1>1, <2>4, LifecycleObjects
    <3>. QED
      BY <2>2, <2>4, <3>1
  <2>5. CASE ~Lifecycle
    <3>1. /\ Frame
          /\ object'[u] # object[u] =>
               \E r \in Runner : Write(r) /\ u = rows[runs[r].row].of
      BY <1>1, <1>3, <2>1, <2>5, SlotObjects, AbandonFacts, Zenon DEF Next, Lifecycle
    <3>2. object'[u] = object[u]
      <4>1. ASSUME NEW r \in Runner, Write(r)
            PROVE  rows[runs[r].row].of \in Version
        <5>1. runs[r].pc \in PrecomputePc
          BY <4>1, PcFacts, SMT DEF Write, At
        <5>. QED
          BY <1>1, <5>1, WriterFacts
      <4>. QED
        BY <3>1, <4>1, Constants
    <3>3. Committed(u) /\ u \notin Referenced
      BY <3>1, Zenon DEF Frame, Committed, Referenced, LiveVersion
    <3>. QED
      BY <2>2, <3>2, <3>3
  <2>. QED
    BY <2>3, <2>4, <2>5
<1>. QED
  BY <1>2, <1>3

LEMMA WitnessOwed ==
  ASSUME NEW k, Witness(k)
  PROVE  Owed(k)
BY Zenon DEF Witness, Names, Owed

(* However rows are coalesced, settled, lost and claimed again, and        *)
(* whatever fails in between: bytes that no version points at any more are *)
(* named by a cleanup row that is not done.  The bytes of an upload that   *)
(* is repeated are in progress again until it commits.                     *)
THEOREM RetiredFilesStayOwed == Spec => []RetiredFilesOwed
<1>1. Init => RetiredInv
  <2>. SUFFICES ASSUME Init
                PROVE  RetiredInv
    OBVIOUS
  <2>1. ASSUME NEW u \in Upload, object[u] # NoFile
        PROVE  u \in Referenced
    <3>1. u \in Key
      BY Constants
    <3>2. \E v \in Version : Original[v] = u
      BY <2>1, <3>1, Zenon DEF Init
    <3>3. \A v \in Version : LiveVersion(v) /\ version[v].file = Original[v]
      BY SMT DEF Init, LiveVersion
    <3>. QED
      BY <3>2, <3>3, ReferencedFacts
  <2>. QED
    BY <2>1, TypeInit, Zenon DEF RetiredInv
<1>2. RetiredInv /\ [Next]_vars => RetiredInv'
  BY RetiredStep
<1>3. RetiredInv => RetiredFilesOwed
  BY WitnessOwed, Zenon DEF RetiredInv, RetiredFilesOwed
<1>. QED
  BY <1>1, <1>2, <1>3, PTL DEF Spec

-----------------------------------------------------------------------------
(* Stale caches.                                                           *)

LEMMA FreshKept ==
  ASSUME NEW k, NEW j \in Row, Names(j, k), Grows, rows'[j].status # "done",
         \A q \in Runner : Unseen(q, j)'
  PROVE  Fresh(k)'
<1>1. j \in Row' /\ Names(j, k)'
  BY SMT DEF Grows, Names
<1>. QED
  BY <1>1, Zenon DEF Fresh

LEMMA UnseenSlot ==
  ASSUME NEW j, NEW r \in Runner, Moved(r), \A q \in Runner : Unseen(q, j),
         Unseen(r, j)'
  PROVE  \A q \in Runner : Unseen(q, j)'
<1>1. ASSUME NEW q \in Runner, q # r
      PROVE  Unseen(q, j)'
  <2>1. runs'[q] = runs[q]
    BY <1>1 DEF Moved
  <2>. QED
    BY <2>1, Zenon DEF Unseen, Held
<1>. QED
  BY <1>1

LEMMA FreshWitness ==
  ASSUME NEW k, Fresh(k)
  PROVE  Witness(k)
BY SMT DEF Fresh, Witness, Unseen, Ahead

(* A cleanup passes its guard only when no writer is at work.              *)
LEMMA GuardPasses ==
  ASSUME TypeInv, NEW r \in Runner, Moves(r), runs'[r].pc = "lookup",
         NEW v \in Version, WriterActive(v)
  PROVE  runs[r].pc \in CleanupPc /\ v \notin KeysOf(r)
<1>1. runs \in [Runner -> Run]
  BY Zenon DEF TypeInv, TypeOK
<1>2. ASSUME NEW pc \in RunPc, Goto(r, pc), pc # "lookup"
      PROVE  FALSE
  BY <1>2, GotoFacts DEF TypeInv
<1>3. {"release", "load", "write", "retire", "finish", "fail"} \subseteq RunPc
  BY SMT DEF RunPc, CleanupPc, PrecomputePc
<1>4. Guard(r) /\ ~\E w \in KeysOf(r) \cap Version : WriterActive(w)
  <2>1. CASE Guard(r)
    BY <1>2, <1>3, <2>1, SMT DEF Guard
  <2>2. CASE CleanupThrows(r) \/ PrecomputeThrows(r)
    BY <1>2, <1>3, <2>2, SMT DEF CleanupThrows, PrecomputeThrows
  <2>3. CASE Check(r) \/ Load(r) \/ Recheck(r)
    BY <1>2, <1>3, <2>3, SMT DEF Check, Load, Recheck
  <2>. QED
    BY <2>1, <2>2, <2>3 DEF Moves
<1>. QED
  BY <1>4, PcFacts, SMT DEF Guard, At

(* While a writer is at work, no cleanup of its cache gets to its lookup.  *)
LEMMA FreshRun ==
  ASSUME TypeInv, NEW r \in Runner, RunStep(r) \/ Crash(r),
         NEW v \in Version, Fresh(v), WriterActive(v)
  PROVE  Fresh(v)'
<1>1. PICK j \in Row : Names(j, v) /\ \A q \in Runner : Unseen(q, j)
  BY DEF Fresh
<1>2. rows[j].status # "done" /\ v \in rows[j].keys /\ rows[j].kind = "cleanup"
  BY <1>1 DEF Names
<1>3. ASSUME Moved(r), Grows, rows'[j].status # "done", Unseen(r, j)'
      PROVE  Fresh(v)'
  BY <1>1, <1>3, UnseenSlot, FreshKept
<1>4. ASSUME runs'[r].pc \notin {"lookup", "delete", "settle"}
      PROVE  Unseen(r, j)'
  BY <1>4, SMT DEF Unseen
<1>5. CASE Coalesce(r)
  <2>1. rows'[j].status # "done"
    BY <1>2, <1>5, CoalesceFacts
  <2>2. Moved(r) /\ Grows /\ runs'[r].pc \notin {"lookup", "delete", "settle"}
    BY <1>5, CoalesceFacts
  <2>. QED
    BY <1>3, <1>4, <2>1, <2>2
<1>6. CASE Moves(r)
  <2>1. /\ Moved(r) /\ Grows /\ rows' = rows
        /\ runs'[r].row = runs[r].row /\ runs'[r].batch = runs[r].batch
        /\ runs'[r].pc \notin {"delete", "settle"}
    BY <1>6, MoveFacts
  <2>2. CASE runs'[r].pc = "lookup"
    <3>1. runs[r].pc \in CleanupPc /\ v \notin KeysOf(r)
      BY <1>6, <2>2, GuardPasses
    <3>2. j \notin Held(r)
      BY <1>2, <3>1, KeysOfFacts
    <3>3. Unseen(r, j)'
      BY <2>1, <3>2, Zenon DEF Unseen, Held
    <3>. QED
      BY <1>2, <1>3, <2>1, <3>3
  <2>3. CASE runs'[r].pc # "lookup"
    BY <1>2, <1>3, <1>4, <2>1, <2>3
  <2>. QED
    BY <2>2, <2>3
<1>7. CASE Lookup(r)
  <2>1. /\ Moved(r) /\ Grows /\ rows' = rows
        /\ runs[r].pc = "lookup" /\ runs'[r].row = runs[r].row
        /\ runs'[r].batch = runs[r].batch
    BY <1>7, LookupFacts
  <2>2. Unseen(r, j)'
    BY <1>1, <2>1, SMT DEF Unseen, Held
  <2>. QED
    BY <1>2, <1>3, <2>1, <2>2
<1>8. CASE Delete(r)
  <2>1. /\ Moved(r) /\ Grows /\ rows' = rows
        /\ runs[r].pc = "delete" /\ runs'[r].row = runs[r].row
        /\ runs'[r].batch = runs[r].batch
    BY <1>8, DeleteFacts
  <2>2. Unseen(r, j)'
    BY <1>1, <2>1, SMT DEF Unseen, Held
  <2>. QED
    BY <1>2, <1>3, <2>1, <2>2
<1>9. CASE Settle(r)
  <2>1. /\ Moved(r) /\ Grows /\ runs[r].pc \in {"settle", "release"}
        /\ \/ rows'[j] = rows[j]
           \/ j \in Held(r) /\ rows'[j].status \in {OutcomeOf(r, j), "running"}
        /\ \/ runs'[r].pc = "idle"
           \/ /\ runs'[r].pc = runs[r].pc /\ runs'[r].row = runs[r].row
              /\ runs'[r].batch \subseteq runs[r].batch
    BY <1>9, SettleFacts
  <2>2. j \in Held(r) => OutcomeOf(r, j) = "pending"
    BY <1>1, <2>1, SMT DEF OutcomeOf, At, Unseen
  <2>3. rows'[j].status # "done"
    BY <1>2, <2>1, <2>2, SMT
  <2>4. Unseen(r, j)'
    <3>1. runs'[r].pc # "idle" => Held(r)' \subseteq Held(r)
      BY <2>1, SMT DEF Held
    <3>. QED
      BY <1>1, <2>1, <3>1, SMT DEF Unseen
  <2>. QED
    BY <1>3, <2>1, <2>3, <2>4
<1>10. CASE Write(r)
  <2>1. Moved(r) /\ Grows /\ rows' = rows /\ runs'[r].pc = "recheck"
    BY <1>10, WriteFacts
  <2>. QED
    BY <1>2, <1>3, <1>4, <2>1
<1>11. CASE Retire(r)
  <2>1. Moved(r) /\ Adds /\ runs'[r].pc = "finish"
    BY <1>11, RetireFacts
  <2>2. Grows /\ rows'[j] = rows[j]
    BY <2>1 DEF Adds
  <2>. QED
    BY <1>2, <1>3, <1>4, <2>1, <2>2
<1>12. CASE EndPrecompute(r)
  <2>1. /\ Moved(r) /\ Grows /\ runs[r].pc \in PrecomputePc /\ runs'[r].pc = "idle"
        /\ \A i \in Row \ {runs[r].row} : rows'[i] = rows[i]
    BY <1>12, EndFacts
  <2>2. rows[runs[r].row].kind = "precompute"
    BY <2>1, WriterFacts
  <2>3. j # runs[r].row
    BY <1>2, <2>2
  <2>. QED
    BY <1>2, <1>3, <1>4, <2>1, <2>3
<1>13. CASE Crash(r)
  <2>1. Moved(r) /\ Grows /\ rows'[j].status = rows[j].status /\ runs'[r].pc = "idle"
    BY <1>13, CrashFacts
  <2>. QED
    BY <1>2, <1>3, <1>4, <2>1
<1>. QED
  BY <1>5, <1>6, <1>7, <1>8, <1>9, <1>10, <1>11, <1>12, <1>13, Zenon DEF RunStep, Moves

LEMMA FreshStep ==
  ASSUME TypeInv, Next, NEW v \in Version, Fresh(v), WriterActive(v)
  PROVE  Fresh(v)'
<1>1. PICK j \in Row : Names(j, v) /\ \A q \in Runner : Unseen(q, j)
  BY DEF Fresh
<1>2. CASE Lifecycle
  <2>1. runs' = runs /\ Adds
    BY <1>2, LifecycleFacts
  <2>2. \A q \in Runner : Unseen(q, j)'
    BY <1>1, <2>1, Zenon DEF Unseen, Held
  <2>3. Grows /\ rows'[j].status # "done"
    BY <1>1, <2>1 DEF Adds, Names
  <2>. QED
    BY <1>1, <2>2, <2>3, FreshKept
<1>3. ASSUME NEW i \in Row, Abandon(i)
      PROVE  Fresh(v)'
  <2>1. /\ runs' = runs /\ Grows /\ rows[i].kind = "precompute"
        /\ \A n \in Row \ {i} : rows'[n] = rows[n]
    BY <1>3, AbandonFacts
  <2>2. rows'[j].status # "done"
    BY <1>1, <2>1, SMT DEF Names
  <2>3. \A q \in Runner : Unseen(q, j)'
    BY <1>1, <2>1, Zenon DEF Unseen, Held
  <2>. QED
    BY <1>1, <2>1, <2>2, <2>3, FreshKept
<1>4. ASSUME NEW r \in Runner, NEW i \in Row, Claim(r, i)
      PROVE  Fresh(v)'
  <2>1. /\ Moved(r) /\ Grows /\ rows'[i].status = "running"
        /\ \A n \in Row \ {i} : rows'[n] = rows[n]
        /\ runs'[r].pc \in {"coalesce", "check"}
    BY <1>4, ClaimFacts
  <2>2. rows'[j].status # "done"
    BY <1>1, <2>1 DEF Names
  <2>3. Unseen(r, j)'
    BY <2>1, SMT DEF Unseen
  <2>. QED
    BY <1>1, <2>1, <2>2, <2>3, UnseenSlot, FreshKept
<1>. QED
  BY <1>2, <1>3, <1>4, FreshRun, Zenon DEF Next, Lifecycle

(* Without zombies, nobody touches the row a writer has claimed.           *)
LEMMA WriterRow ==
  ASSUME TypeInv, Writers, "zombie" \notin Faults, Next, NEW q \in Runner,
         runs[q].pc \in PrecomputePc, runs'[q] = runs[q]
  PROVE  rows'[runs[q].row] = rows[runs[q].row]
<1>. DEFINE j == runs[q].row
<1>1. j \in Row /\ rows[j].kind = "precompute" /\ rows[j].status = "running"
      /\ rows[j].holder = q /\ q # NoRunner
  BY WriterFacts, Constants DEF Writers, Fence
<1>. HIDE DEF j
<1>2. ASSUME Lifecycle
      PROVE  rows'[j] = rows[j]
  BY <1>1, <1>2, LifecycleFacts DEF Adds
<1>3. ASSUME NEW i \in Row, Abandon(i)
      PROVE  rows'[j] = rows[j]
  BY <1>1, <1>3, AbandonFacts
<1>4. ASSUME NEW r \in Runner, NEW i \in Row, Claim(r, i)
      PROVE  rows'[j] = rows[j]
  BY <1>1, <1>4, ClaimFacts
<1>5. ASSUME NEW r \in Runner, RunStep(r) \/ Crash(r)
      PROVE  rows'[j] = rows[j]
  <2>1. CASE Coalesce(r)
    BY <1>1, <2>1, CoalesceFacts
  <2>2. CASE Moves(r) \/ Lookup(r) \/ Delete(r) \/ Write(r)
    BY <2>2, MoveFacts, LookupFacts, DeleteFacts, WriteFacts
  <2>3. CASE Settle(r)
    <3>1. runs[r].pc \in CleanupPc
      BY <2>3, SettleFacts, PcFacts
    <3>2. j \notin Held(r)
      BY <1>1, <3>1 DEF TypeInv, Working
    <3>. QED
      BY <1>1, <2>3, <3>2, SettleFacts
  <2>4. CASE Retire(r)
    BY <1>1, <2>4, RetireFacts DEF Adds
  <2>5. CASE EndPrecompute(r)
    <3>1. /\ runs[r].pc \in PrecomputePc /\ runs'[r].pc = "idle"
          /\ \A i \in Row \ {runs[r].row} : rows'[i] = rows[i]
      BY <2>5, EndFacts
    <3>2. r # q
      BY <3>1, PcFacts
    <3>3. rows[runs[r].row].holder = r
      BY <3>1 DEF Writers, Fence
    <3>. QED
      BY <1>1, <3>1, <3>2, <3>3
  <2>6. CASE Crash(r)
    <3>1. r # q
      BY <2>6, CrashFacts, PcFacts
    <3>. QED
      BY <1>1, <2>6, <3>1, CrashFacts
  <2>. QED
    BY <1>5, <2>1, <2>2, <2>3, <2>4, <2>5, <2>6, Zenon DEF RunStep, Moves
<1>. QED
  BY <1>2, <1>3, <1>4, <1>5, Zenon DEF Next, Lifecycle, j

(* How a run gets to a step of a writer.                                   *)
LEMMA WriterSteps ==
  ASSUME TypeInv, Next, NEW q \in Runner, runs'[q].pc \in PrecomputePc,
         runs'[q] # runs[q]
  PROVE  /\ RunStep(q) \/ \E j \in Row : Claim(q, j)
         /\ RunStep(q) => Moves(q) \/ Write(q) \/ Retire(q)
         /\ RunStep(q) => runs[q].pc \in PrecomputePc /\ runs'[q].row = runs[q].row
<1>1. RunStep(q) \/ Crash(q) \/ \E j \in Row : Claim(q, j)
  <2>1. CASE Lifecycle
    BY <2>1, LifecycleFacts
  <2>2. ASSUME NEW j \in Row, Abandon(j)
        PROVE  FALSE
    BY <2>2, AbandonFacts
  <2>3. ASSUME NEW r \in Runner, r # q, RunStep(r) \/ Crash(r) \/ \E j \in Row : Claim(r, j)
        PROVE  FALSE
    <3>1. Moved(r)
      <4>1. CASE Coalesce(r) \/ Moves(r) \/ Lookup(r) \/ Delete(r)
        BY <4>1, CoalesceFacts, MoveFacts, LookupFacts, DeleteFacts
      <4>2. CASE Settle(r) \/ Write(r) \/ Retire(r) \/ EndPrecompute(r)
        BY <4>2, SettleFacts, WriteFacts, RetireFacts, EndFacts
      <4>3. CASE Crash(r) \/ \E j \in Row : Claim(r, j)
        BY <4>3, CrashFacts, ClaimFacts
      <4>. QED
        BY <2>3, <4>1, <4>2, <4>3, Zenon DEF RunStep, Moves
    <3>. QED
      BY <2>3, <3>1 DEF Moved
  <2>. QED
    BY <2>1, <2>2, <2>3, Zenon DEF Next, Lifecycle
<1>2. ~Crash(q) /\ ~EndPrecompute(q)
  BY CrashFacts, EndFacts, PcFacts
<1>3. ~Coalesce(q) /\ ~Lookup(q) /\ ~Delete(q)
  BY CoalesceFacts, LookupFacts, DeleteFacts, PcFacts, SMT
<1>4. ~Settle(q)
  BY SettleFacts, PcFacts, SMT
<1>5. RunStep(q) => Moves(q) \/ Write(q) \/ Retire(q)
  BY <1>2, <1>3, <1>4, Zenon DEF RunStep, Moves
<1>6. CASE Moves(q)
  BY <1>1, <1>2, <1>5, <1>6, MoveFacts, PcFacts, SMT
<1>7. CASE Write(q) \/ Retire(q)
  BY <1>1, <1>2, <1>5, <1>7, WriteFacts, RetireFacts, PcFacts, SMT
<1>8. CASE ~RunStep(q)
  BY <1>1, <1>2, <1>8
<1>. QED
  BY <1>5, <1>6, <1>7, <1>8

(* A writer gets to its download with a version that is current.           *)
LEMMA WriterChecked ==
  ASSUME TypeInv, NEW r \in Runner, Moves(r), runs'[r].pc \in {"load", "write"}
  PROVE  runs[r].pc = "load" \/ IsCurrent(runs[r].row)
<1>1. ASSUME NEW pc \in RunPc, Goto(r, pc), pc \notin {"load", "write"}
      PROVE  FALSE
  BY <1>1, GotoFacts DEF TypeInv
<1>2. {"release", "lookup", "retire", "finish", "fail"} \subseteq RunPc
  BY SMT DEF RunPc, CleanupPc, PrecomputePc
<1>3. ~(Guard(r) \/ CleanupThrows(r) \/ Recheck(r) \/ PrecomputeThrows(r))
  BY <1>1, <1>2, SMT DEF Guard, CleanupThrows, Recheck, PrecomputeThrows
<1>4. CASE Load(r)
  BY <1>4, Zenon DEF Load, At
<1>5. CASE Check(r)
  BY <1>1, <1>2, <1>5, SMT DEF Check
<1>. QED
  BY <1>3, <1>4, <1>5, Zenon DEF Moves

LEMMA NotLifecycle ==
  ASSUME TypeInv, Next, ~Lifecycle
  PROVE  /\ Frame
         /\ \A k \in Key : object'[k] # NoFile /\ object'[k] # object[k] =>
              \E r \in Runner : /\ Write(r) /\ k = rows[runs[r].row].of
                                /\ object'[k] = rows[runs[r].row].file
BY SlotObjects, AbandonFacts, Zenon DEF Next, Lifecycle

LEMMA SameCurrent ==
  ASSUME NEW j, version' = version, rows'[j] = rows[j]
  PROVE  IsCurrent(j)' <=> IsCurrent(j)
BY Zenon DEF IsCurrent, LiveVersion

LEMMA WriterStep ==
  ASSUME TypeInv, Writers, "zombie" \notin Faults, Next,
         NEW q \in Runner, runs'[q].pc \in PrecomputePc,
         NEW j, j = runs'[q].row, NEW v, v = rows'[j].of
  PROVE  /\ Fence(q, j)'
         /\ runs'[q].pc \in {"load", "write"} /\ ~IsCurrent(j)' => Fresh(v)'
<1>1. ASSUME runs[q].pc \in PrecomputePc, j = runs[q].row, rows'[j] = rows[j]
      PROVE  /\ Fence(q, j)' /\ j \in Row /\ v = rows[j].of /\ v \in Version
             /\ WriterActive(v)
  <2>1. Fence(q, j) /\ j \in Row /\ rows[j].kind = "precompute" /\ rows[j].of \in Version
    BY <1>1, WriterFacts DEF Writers
  <2>. QED
    BY <1>1, <2>1 DEF WriterActive, Fence
<1>2. CASE runs'[q] = runs[q]
  <2>1. rows'[j] = rows[j] /\ runs[q].pc \in PrecomputePc /\ j = runs[q].row
    BY <1>2, WriterRow
  <2>2. ASSUME runs'[q].pc \in {"load", "write"}, ~IsCurrent(j)'
        PROVE  Fresh(v)'
    <3>1. CASE ~IsCurrent(j)
      <4>1. Fresh(v)
        BY <1>1, <1>2, <2>1, <2>2, <3>1 DEF Writers
      <4>. QED
        BY <1>1, <2>1, <4>1, FreshStep
    <3>2. CASE IsCurrent(j)
      <4>1. version'[v] # version[v]
        BY <1>1, <2>1, <2>2, <3>2 DEF IsCurrent, LiveVersion
      <4>2. Lifecycle
        BY <4>1, NotLifecycle DEF Frame
      <4>3. v \in Version /\ v \in RetiredKeys(v)
        BY <1>1, <2>1, RetiredKeysType DEF TypeInv
      <4>. QED
        BY <4>1, <4>2, <4>3, RetiredNow
    <3>. QED
      BY <3>1, <3>2
  <2>. QED
    BY <1>1, <2>1, <2>2
<1>3. CASE runs'[q] # runs[q] /\ RunStep(q)
  <2>1. /\ Moves(q) \/ Write(q) \/ Retire(q)
        /\ runs[q].pc \in PrecomputePc /\ j = runs[q].row
    BY <1>3, WriterSteps
  <2>2. rows'[j] = rows[j]
    <3>1. CASE Moves(q) \/ Write(q)
      BY <3>1, MoveFacts, WriteFacts
    <3>2. CASE Retire(q)
      BY <2>1, <3>2, WriterFacts, RetireFacts DEF Adds
    <3>. QED
      BY <2>1, <3>1, <3>2
  <2>3. ASSUME runs'[q].pc \in {"load", "write"}, ~IsCurrent(j)'
        PROVE  Fresh(v)'
    <3>1. Moves(q)
      BY <2>1, <2>3, WriteFacts, RetireFacts
    <3>2. version' = version
      BY <3>1, MoveFacts DEF Frame
    <3>3. ~IsCurrent(j)
      BY <2>2, <2>3, <3>2, SameCurrent
    <3>4. runs[q].pc = "load"
      BY <2>1, <2>3, <3>1, <3>3, WriterChecked
    <3>5. Fresh(v)
      BY <1>1, <2>1, <2>2, <3>3, <3>4 DEF Writers
    <3>. QED
      BY <1>1, <1>3, <2>1, <2>2, <3>5, FreshRun
  <2>. QED
    BY <1>1, <2>1, <2>2, <2>3
<1>4. CASE runs'[q] # runs[q] /\ ~RunStep(q)
  <2>1. PICK i \in Row : Claim(q, i)
    BY <1>4, WriterSteps
  <2>2. /\ rows'[i].status = "running" /\ rows'[i].holder = q /\ runs'[q].row = i
        /\ runs'[q].pc = "coalesce" \/ runs'[q].pc = "check"
    BY <2>1, ClaimFacts
  <2>. QED
    BY <2>2 DEF Fence
<1>. QED
  BY <1>2, <1>3, <1>4

LEMMA WritersStep ==
  ASSUME TypeInv, Writers, "zombie" \notin Faults, Next
  PROVE  Writers'
<1>1. ASSUME NEW q \in Runner, runs'[q].pc \in PrecomputePc
      PROVE  /\ Fence(q, runs[q].row)'
             /\ runs'[q].pc \in {"load", "write"} /\ ~IsCurrent(runs[q].row)' =>
                  Fresh(rows[runs[q].row].of)'
  <2>1. PICK j : j = runs'[q].row
    OBVIOUS
  <2>2. PICK v : v = rows'[j].of
    OBVIOUS
  <2>3. /\ Fence(q, j)'
        /\ runs'[q].pc \in {"load", "write"} /\ ~IsCurrent(j)' => Fresh(v)'
    BY <1>1, <2>1, <2>2, WriterStep
  <2>4. Fence(q, runs[q].row)' <=> Fence(q, j)'
    BY <2>1, Zenon DEF Fence
  <2>5. IsCurrent(runs[q].row)' <=> IsCurrent(j)'
    BY <2>1, Zenon DEF IsCurrent, LiveVersion
  <2>6. Fresh(rows[runs[q].row].of)' <=> Fresh(v)'
    BY <2>1, <2>2, Zenon DEF Fresh, Names
  <2>. QED
    BY <2>3, <2>4, <2>5, <2>6
<1>2. {"load", "write"} \subseteq PrecomputePc
  BY PcFacts
<1>. QED
  BY <1>1, <1>2, Zenon DEF Writers

LEMMA StaleStep ==
  ASSUME StaleInv, "zombie" \notin Faults, [Next]_vars
  PROVE  StaleInv'
<1>1. TypeInv /\ Writers /\ TypeInv'
  BY TypeStep DEF StaleInv
<1>2. CASE UNCHANGED vars
  <2>1. \A v \in Version : (Witness(v)' <=> Witness(v)) /\ (Stale(v)' <=> Stale(v))
    BY <1>2, Zenon DEF vars, Witness, Names, Ahead, Held, Row, Stale, LiveVersion
  <2>2. Writers'
    BY <1>1, <1>2, Zenon DEF vars, Writers, Fresh, Names, Unseen, Held, Row, Fence,
                             IsCurrent, LiveVersion
  <2>3. object' = object
    BY <1>2, Zenon DEF vars
  <2>. QED
    BY <1>1, <2>1, <2>2, <2>3, Zenon DEF StaleInv
<1>3. CASE Next
  <2>1. Writers'
    BY <1>1, <1>3, WritersStep
  <2>. SUFFICES ASSUME NEW v \in Version, object'[v] # NoFile, Stale(v)'
                PROVE  Witness(v)'
    BY <1>1, <2>1, Zenon DEF StaleInv
  <2>2. v \in Key /\ v \notin Referenced
    BY <1>1, Constants, VersionKeyFacts
  <2>3. ASSUME Witness(v)
        PROVE  Witness(v)'
    BY <1>1, <1>3, <2>2, <2>3, OwedStep
  <2>4. CASE object[v] # NoFile /\ Stale(v)
    BY <2>3, <2>4 DEF StaleInv
  <2>5. CASE Lifecycle /\ ~(object[v] # NoFile /\ Stale(v))
    <3>1. object'[v] = object[v]
      BY <1>1, <2>5, LifecycleObjects
    <3>2. version'[v] # version[v]
      BY <2>5, <3>1 DEF Stale, LiveVersion
    <3>3. v \in RetiredKeys(v)
      BY <1>1, RetiredKeysType DEF TypeInv
    <3>. QED
      BY <1>1, <2>5, <3>2, <3>3, RetiredNow
  <2>6. CASE ~Lifecycle
    <3>1. Frame
      BY <1>1, <1>3, <2>6, NotLifecycle
    <3>2. CASE object'[v] = object[v]
      <4>1. Stale(v)
        BY <3>1, <3>2 DEF Frame, Stale, LiveVersion
      <4>. QED
        BY <2>4, <3>2, <4>1
    <3>3. CASE object'[v] # object[v]
      <4>1. PICK r \in Runner : /\ Write(r) /\ v = rows[runs[r].row].of
                                /\ object'[v] = rows[runs[r].row].file
        BY <1>1, <1>3, <2>2, <2>6, <3>3, NotLifecycle
      <4>2. ~IsCurrent(runs[r].row)
        BY <3>1, <4>1 DEF Frame, Stale, LiveVersion, IsCurrent
      <4>3. runs[r].pc = "write" /\ runs[r].pc \in PrecomputePc
        BY <4>1, PcFacts, SMT DEF Write, At
      <4>4. Fresh(v)
        BY <1>1, <4>1, <4>2, <4>3 DEF Writers
      <4>. QED
        BY <2>3, <4>4, FreshWitness
    <3>. QED
      BY <3>2, <3>3
  <2>. QED
    BY <2>4, <2>5, <2>6
<1>. QED
  BY <1>2, <1>3

(* When no process goes on after its claim was taken over: text of a file  *)
(* its version no longer has is named by a cleanup row that is not done; a *)
(* writer overtaken by the deletion cannot bring it back for good.         *)
THEOREM StaleCachesStayOwed ==
  ASSUME "zombie" \notin Faults
  PROVE  Spec => []StaleCacheOwed
<1>1. Init => StaleInv
  <2>. SUFFICES ASSUME Init
                PROVE  StaleInv
    OBVIOUS
  <2>1. \A v \in Version : object[v] = NoFile
    <3>1. \A v \in Version : v \in Key /\ ~\E w \in Version : Original[w] = v
      BY Constants
    <3>. QED
      BY <3>1, Zenon DEF Init
  <2>2. \A r \in Runner : runs[r].pc = "idle"
    BY IdleFacts, Zenon DEF Init
  <2>3. Writers
    BY <2>2, PcFacts, SMT DEF Writers
  <2>. QED
    BY <2>1, <2>3, TypeInit, Zenon DEF StaleInv
<1>2. StaleInv /\ [Next]_vars => StaleInv'
  BY StaleStep
<1>3. StaleInv => StaleCacheOwed
  BY WitnessOwed, Zenon DEF StaleInv, Stale, StaleCacheOwed
<1>. QED
  BY <1>1, <1>2, <1>3, PTL DEF Spec

-----------------------------------------------------------------------------
(* Live files.                                                             *)

(* Without retries a committed upload stays committed, and a version gets  *)
(* a new file only from an upload that was not.                            *)
LEMMA CommittedOnce ==
  ASSUME TypeInv, Lifecycle, "retry" \notin Faults
  PROVE  /\ \A u \in Upload : Committed(u) => Committed(u)'
         /\ \A u \in Replacement : uploads'[u] = "commit" =>
              (uploads[u] = "commit" /\ object'[u] = object[u]) \/ object'[u] # NoFile
         /\ \A v \in Version : version'[v].file \in Upload =>
              \/ version'[v].file = version[v].file
              \/ \E u \in Replacement : /\ version'[v].file = u /\ Committed(u)'
                                        /\ uploads[u] = "commit"
<1>1. /\ object \in [Key -> Upload \cup {NoFile}] /\ uploads \in [Replacement -> UploadPc]
      /\ version \in [Version -> VersionRow]
  BY Zenon DEF TypeInv, TypeOK
<1>2. CASE DeleteDocument \/ \E v \in Version : DeleteVersion(v) \/ StartRead(v) \/ EndRead(v)
  <2>1. object' = object /\ uploads' = uploads
    BY <1>2, Zenon DEF DeleteDocument, DeleteVersion, StartRead, EndRead
  <2>2. ASSUME NEW v \in Version
        PROVE  version'[v].file = version[v].file \/ version'[v].file = NoFile
    <3>1. CASE DeleteDocument
      BY <3>1, DeleteDocumentFacts
    <3>2. ASSUME NEW w \in Version, DeleteVersion(w)
          PROVE  version'[v].file = version[v].file \/ version'[v].file = NoFile
      BY <3>2, DeleteVersionFacts
    <3>3. CASE \E w \in Version : StartRead(w) \/ EndRead(w)
      <4>1. version' = version
        BY <3>3, Zenon DEF StartRead, EndRead
      <4>. QED
        BY <4>1
    <3>. QED
      BY <1>2, <3>1, <3>2, <3>3
  <2>. QED
    BY <2>1, <2>2, Constants, Zenon DEF Committed
<1>3. ASSUME NEW u \in Replacement, CopyFile(u)
      PROVE  /\ version' = version /\ \A x \in Upload : Committed(x) => Committed(x)'
             /\ \A x \in Replacement : uploads'[x] = "commit" =>
                  \/ uploads[x] = "commit" /\ object'[x] = object[x]
                  \/ object'[x] # NoFile
  <2>1. /\ uploads[u] = "copy" /\ version' = version
        /\ object' = [object EXCEPT ![u] = u] /\ uploads' = [uploads EXCEPT ![u] = "commit"]
    BY <1>3, Zenon DEF CopyFile
  <2>2. u \in Upload /\ u \in Key /\ u # NoFile /\ Replacement \subseteq Key
    BY Constants
  <2>3. /\ \A x \in Key \ {u} : object'[x] = object[x]
        /\ object'[u] = u /\ \A x \in Replacement \ {u} : uploads'[x] = uploads[x]
    BY <1>1, <2>1, <2>2, SMT
  <2>. QED
    BY <2>1, <2>2, <2>3, SMT DEF Committed
<1>4. ASSUME NEW u \in Replacement, StartUpload(u) \/ RecordUpload(u) \/ RetryUpload(u)
      PROVE  /\ version' = version /\ object' = object
             /\ \A x \in Upload : Committed(x) => Committed(x)'
             /\ \A x \in Replacement : uploads'[x] = "commit" => uploads[x] = "commit"
  <2>1. ~RetryUpload(u)
    BY Zenon DEF RetryUpload, Fault
  <2>2. /\ version' = version /\ object' = object
        /\ \A x \in Replacement \ {u} : uploads'[x] = uploads[x]
        /\ uploads[u] \in {"record", "completed"} => uploads'[u] \in {"record", "completed"}
        /\ uploads'[u] # "commit"
    BY <1>1, <1>4, <2>1, SMT DEF StartUpload, RecordUpload
  <2>. QED
    BY <2>2, SMT DEF Committed
<1>5. ASSUME NEW u \in Replacement, CommitUpload(u)
      PROVE  /\ object' = object
             /\ \A x \in Upload : Committed(x) => Committed(x)'
             /\ \A x \in Replacement : uploads'[x] = "commit" => uploads[x] = "commit"
             /\ \A v \in Version : \/ version'[v] = version[v]
                                   \/ /\ version'[v].file = u /\ Committed(u)'
                                      /\ uploads[u] = "commit"
  <2>1. object' = object /\ uploads[u] = "commit"
    BY <1>5, Zenon DEF CommitUpload
  <2>2. CASE LiveVersion(Target[u])
    <3>1. /\ version'[Target[u]].file = u /\ uploads' = [uploads EXCEPT ![u] = "record"]
          /\ \A v \in Version \ {Target[u]} : version'[v] = version[v]
      BY <1>5, <2>2, CommitFacts
    <3>2. uploads'[u] = "record" /\ \A x \in Replacement \ {u} : uploads'[x] = uploads[x]
      BY <1>1, <3>1, SMT
    <3>. QED
      BY <2>1, <3>1, <3>2, SMT DEF Committed
  <2>3. CASE ~LiveVersion(Target[u])
    <3>1. version' = version /\ uploads' = [uploads EXCEPT ![u] = "failed"]
      BY <1>5, <2>3, Zenon DEF CommitUpload
    <3>2. uploads'[u] = "failed" /\ \A x \in Replacement \ {u} : uploads'[x] = uploads[x]
      BY <1>1, <3>1, SMT
    <3>. QED
      BY <2>1, <3>1, <3>2, SMT DEF Committed
  <2>. QED
    BY <2>2, <2>3
<1>6. ASSUME NEW u \in Replacement,
             StartUpload(u) \/ CopyFile(u) \/ CommitUpload(u) \/ RecordUpload(u)
               \/ RetryUpload(u)
      PROVE  /\ \A x \in Upload : Committed(x) => Committed(x)'
             /\ \A x \in Replacement : uploads'[x] = "commit" =>
                  (uploads[x] = "commit" /\ object'[x] = object[x]) \/ object'[x] # NoFile
             /\ \A v \in Version : version'[v].file \in Upload =>
                  \/ version'[v].file = version[v].file
                  \/ \E x \in Replacement : /\ version'[v].file = x /\ Committed(x)'
                                            /\ uploads[x] = "commit"
  BY <1>3, <1>4, <1>5, <1>6
<1>. QED
  BY <1>2, <1>6, Zenon DEF Lifecycle

LEMMA KeptLifecycle ==
  ASSUME KeptInv, Lifecycle, "retry" \notin Faults, TypeInv'
  PROVE  Kept' /\ LiveFilesExist'
<1>1. TypeInv /\ Kept /\ LiveFilesExist
  BY DEF KeptInv
<1>2. runs' = runs /\ Adds
  BY <1>1, LifecycleFacts
<1>3. \A u \in Upload : Committed(u) => Committed(u)'
  BY <1>1, CommittedOnce
<1>4. ASSUME NEW v \in Version, version'[v].file \in Upload
      PROVE  /\ Committed(version[v].file)'
             /\ object'[version'[v].file] # NoFile
             /\ \/ version'[v].file = version[v].file /\ LiveVersion(v)
                \/ ~Committed(version'[v].file)
  <2>1. PICK u : u = version'[v].file
    OBVIOUS
  <2>2. CASE u = version[v].file
    <3>1. LiveVersion(v) /\ u \in Upload
      BY <1>1, <1>4, <2>1, <2>2 DEF TypeInv, Files
    <3>2. Committed(u) /\ object[u] # NoFile
      BY <1>1, <2>2, <3>1, Zenon DEF Kept, LiveFilesExist
    <3>3. Committed(u)' /\ object'[u] = object[u]
      BY <1>1, <1>3, <3>1, <3>2, LifecycleObjects
    <3>. QED
      BY <2>1, <2>2, <3>1, <3>2, <3>3, Zenon DEF Committed
  <2>3. CASE u # version[v].file
    <3>1. u \in Replacement /\ Committed(u)' /\ uploads[u] = "commit" /\ u \in Upload
      BY <1>1, <1>4, <2>1, <2>3, CommittedOnce
    <3>2. ~Committed(u) /\ object[u] # NoFile
      BY <1>1, <3>1, SMT DEF Kept, Committed
    <3>3. object'[u] = object[u]
      BY <1>1, <3>1, LifecycleObjects
    <3>. QED
      BY <2>1, <3>1, <3>2, <3>3, Zenon DEF Committed
  <2>. QED
    BY <2>2, <2>3
<1>5. LiveFilesExist'
  BY <1>4, Zenon DEF LiveFilesExist, TypeInv, Files
<1>6. \A u \in Upload : Committed(u) /\ u \in Referenced' => u \in Referenced
  <2>. SUFFICES ASSUME NEW u \in Upload, Committed(u), u \in Referenced'
                PROVE  u \in Referenced
    OBVIOUS
  <2>1. PICK v \in Version : version'[v].file = u
    BY ReferencedFacts
  <2>. QED
    BY <1>4, <2>1, ReferencedFacts
<1>7. \A u \in Replacement : uploads'[u] = "commit" => object'[u] # NoFile
  BY <1>1, CommittedOnce, Zenon DEF Kept
<1>8. ASSUME NEW j \in Row', NEW u \in rows'[j].keys \cap Upload
      PROVE  Committed(u)'
  <2>1. CASE j \in Row
    BY <1>1, <1>2, <1>3, <1>8, <2>1 DEF Adds, Kept
  <2>2. CASE j \notin Row
    <3>1. PICK v \in Version : version[v].file = u
      BY <1>2, <1>8, <2>2 DEF Adds, NamesFiles
    <3>2. Committed(u)
      BY <1>1, <1>8, <3>1 DEF Kept
    <3>. QED
      BY <1>3, <1>8, <3>2
  <2>. QED
    BY <2>1, <2>2
<1>9. \A r \in Runner : runs'[r].pc = "delete" =>
        \A u \in runs'[r].todo \cap Upload : Committed(u)' /\ u \notin Referenced'
  BY <1>1, <1>2, <1>3, <1>6 DEF Kept
<1>. QED
  BY <1>4, <1>5, <1>7, <1>8, <1>9, Zenon DEF Kept

(* A worker slot removes only files a run means to delete; it means to     *)
(* delete what one of its rows names and no version referenced when it     *)
(* looked.                                                                 *)
LEMMA SlotFiles ==
  ASSUME TypeInv, NEW r \in Runner,
         RunStep(r) \/ Crash(r) \/ \E j \in Row : Claim(r, j), NEW u \in Upload
  PROVE  /\ object'[u] = object[u] \/ (runs[r].pc = "delete" /\ u \in runs[r].todo)
         /\ Moved(r)
         /\ runs'[r].pc = "delete" /\ u \in runs'[r].todo =>
              \/ runs[r].pc = "delete" /\ u \in runs[r].todo
              \/ u \notin Referenced /\ \E j \in Row : u \in rows[j].keys
<1>1. u \in Key
  BY Constants
<1>2. CASE Write(r)
  <2>1. rows[runs[r].row].of \in Version
    <3>1. runs[r].pc \in PrecomputePc
      BY <1>2, WriteFacts, PcFacts
    <3>. QED
      BY <3>1, WriterFacts
  <2>2. /\ Moved(r) /\ runs'[r].pc = "recheck"
        /\ \A k \in Key \ {rows[runs[r].row].of} : object'[k] = object[k]
    BY <1>2, WriteFacts
  <2>. QED
    BY <1>1, <2>1, <2>2, Constants
<1>3. CASE Delete(r)
  BY <1>1, <1>3, DeleteFacts
<1>4. CASE Lookup(r)
  <2>1. /\ Moved(r) /\ object' = object /\ runs[r].pc = "lookup"
        /\ runs'[r].todo = KeysOf(r) \ Referenced
    BY <1>4, LookupFacts
  <2>2. \A j \in Held(r) : j \in Row
    BY <2>1, PcFacts, KeysOfFacts
  <2>3. u \in KeysOf(r) => \E j \in Row : u \in rows[j].keys
    BY <2>2 DEF KeysOf, Held
  <2>. QED
    BY <2>1, <2>3
<1>5. CASE Settle(r)
  BY <1>5, SettleFacts
<1>6. CASE Coalesce(r) \/ Moves(r)
  <2>1. runs'[r].pc # "delete" /\ object' = object /\ Moved(r)
    BY <1>6, CoalesceFacts, MoveFacts, SMT
  <2>. QED
    BY <2>1
<1>7. CASE Retire(r) \/ EndPrecompute(r) \/ Crash(r) \/ \E j \in Row : Claim(r, j)
  <2>1. runs'[r].pc # "delete" /\ object' = object /\ Moved(r)
    <3>1. CASE Retire(r) \/ EndPrecompute(r) \/ Crash(r)
      BY <3>1, RetireFacts, EndFacts, CrashFacts
    <3>2. ASSUME NEW j \in Row, Claim(r, j)
          PROVE  runs'[r].pc # "delete" /\ object' = object /\ Moved(r)
      BY <3>2, ClaimFacts
    <3>. QED
      BY <1>7, <3>1, <3>2
  <2>. QED
    BY <2>1
<1>. QED
  BY <1>2, <1>3, <1>4, <1>5, <1>6, <1>7, Zenon DEF RunStep, Moves

(* The rows after a step of a worker slot name no file for the first time. *)
LEMMA SlotRows ==
  ASSUME TypeInv, NEW r \in Runner,
         RunStep(r) \/ Crash(r) \/ \E j \in Row : Claim(r, j)
  PROVE  Grows /\ \A j \in Row' \ Row : NamesFiles(rows'[j].keys)
<1>1. CASE Retire(r)
  BY <1>1, RetireFacts DEF Adds
<1>2. CASE ~Retire(r)
  <2>1. Grows /\ Row' = Row
    <3>1. CASE Coalesce(r) \/ Moves(r) \/ Lookup(r) \/ Delete(r)
      BY <3>1, CoalesceFacts, MoveFacts, LookupFacts, DeleteFacts
    <3>2. CASE Settle(r) \/ Write(r) \/ EndPrecompute(r)
      BY <3>2, SettleFacts, WriteFacts, EndFacts
    <3>3. CASE Crash(r) \/ \E j \in Row : Claim(r, j)
      BY <3>3, CrashFacts, ClaimFacts
    <3>. QED
      BY <1>2, <3>1, <3>2, <3>3, Zenon DEF RunStep, Moves
  <2>. QED
    BY <2>1
<1>. QED
  BY <1>1, <1>2

LEMMA KeptSlot ==
  ASSUME KeptInv, NEW r \in Runner,
         RunStep(r) \/ Crash(r) \/ \E j \in Row : Claim(r, j)
  PROVE  Kept' /\ LiveFilesExist'
<1>1. TypeInv /\ Kept /\ LiveFilesExist
  BY DEF KeptInv
<1>2. version' = version /\ uploads' = uploads
  BY <1>1, SlotObjects DEF Frame
<1>3. /\ \A u \in Upload : Committed(u)' <=> Committed(u)
      /\ \A u \in Upload : u \in Referenced' <=> u \in Referenced
      /\ \A v \in Version : LiveVersion(v)' <=> LiveVersion(v)
  BY <1>2, Zenon DEF Committed, Referenced, LiveVersion
<1>4. ASSUME NEW u \in Upload, ~Committed(u) \/ u \in Referenced
      PROVE  object'[u] = object[u]
  BY <1>1, <1>4, SlotFiles DEF Kept
<1>5. LiveFilesExist'
  <2>. SUFFICES ASSUME NEW v \in Version, LiveVersion(v)
                PROVE  object'[version[v].file] # NoFile
    BY <1>2, <1>3, Zenon DEF LiveFilesExist
  <2>1. version[v].file \in Upload /\ version[v].file \in Referenced
    BY <1>1, ReferencedFacts DEF TypeInv, Files
  <2>. QED
    BY <1>1, <1>4, <2>1 DEF LiveFilesExist
<1>6. \A v \in Version : version'[v].file \in Upload => Committed(version[v].file)'
  BY <1>1, <1>2, Zenon DEF Kept, Committed
<1>7. ASSUME NEW u \in Replacement, uploads'[u] = "commit"
      PROVE  object'[u] # NoFile
  <2>1. u \in Upload /\ ~Committed(u) /\ object[u] # NoFile
    BY <1>1, <1>2, <1>7, Constants, SMT DEF Kept, Committed
  <2>. QED
    BY <1>4, <2>1
<1>8. ASSUME NEW j \in Row', NEW u \in rows'[j].keys \cap Upload
      PROVE  Committed(u)
  <2>1. CASE j \in Row
    BY <1>1, <1>8, <2>1, SlotRows DEF Grows, Kept
  <2>2. CASE j \notin Row
    <3>1. PICK v \in Version : version[v].file = u
      BY <1>1, <1>8, <2>2, SlotRows DEF NamesFiles
    <3>. QED
      BY <1>1, <1>8, <3>1 DEF Kept
  <2>. QED
    BY <2>1, <2>2
<1>9. ASSUME NEW q \in Runner, runs'[q].pc = "delete", NEW u \in runs'[q].todo \cap Upload
      PROVE  Committed(u) /\ u \notin Referenced
  <2>1. CASE q = r
    BY <1>1, <1>9, <2>1, SlotFiles DEF Kept
  <2>2. CASE q # r
    <3>1. runs'[q] = runs[q]
      BY <1>1, <1>9, <2>2, SlotFiles DEF Moved
    <3>. QED
      BY <1>1, <1>9, <3>1 DEF Kept
  <2>. QED
    BY <2>1, <2>2
<1>. QED
  BY <1>3, <1>5, <1>6, <1>7, <1>8, <1>9, Zenon DEF Kept

LEMMA KeptStep ==
  ASSUME KeptInv, "retry" \notin Faults, [Next]_vars
  PROVE  KeptInv'
<1>1. TypeInv /\ Kept /\ LiveFilesExist /\ TypeInv'
  BY TypeStep DEF KeptInv
<1>2. CASE UNCHANGED vars
  <2>1. Kept' /\ LiveFilesExist'
    BY <1>1, <1>2, Zenon DEF vars, Kept, LiveFilesExist, Committed, Referenced,
                             LiveVersion, Row
  <2>. QED
    BY <1>1, <2>1 DEF KeptInv
<1>3. CASE Lifecycle
  BY <1>1, <1>3, KeptLifecycle DEF KeptInv
<1>4. ASSUME NEW r \in Runner, RunStep(r) \/ Crash(r) \/ \E j \in Row : Claim(r, j)
      PROVE  KeptInv'
  BY <1>1, <1>4, KeptSlot DEF KeptInv
<1>5. ASSUME NEW j \in Row, Abandon(j)
      PROVE  KeptInv'
  <2>1. /\ Frame /\ object' = object /\ runs' = runs /\ Grows /\ Row' = Row
    BY <1>1, <1>5, AbandonFacts
  <2>2. \A i \in Row : rows'[i].keys = rows[i].keys
    BY <2>1 DEF Grows
  <2>3. Kept' /\ LiveFilesExist'
    BY <1>1, <2>1, <2>2, Zenon DEF Frame, Kept, LiveFilesExist, Committed, Referenced,
                                   LiveVersion
  <2>. QED
    BY <1>1, <2>3 DEF KeptInv
<1>. QED
  BY <1>2, <1>3, <1>4, <1>5, Zenon DEF Next, Lifecycle

(* When no committed upload is repeated, the file a live version points at *)
(* is in the object store, whatever cleanup runs are at work on rows that  *)
(* name it.                                                                *)
THEOREM LiveFilesStay ==
  ASSUME "retry" \notin Faults
  PROVE  Spec => []LiveFilesExist
<1>1. Init => KeptInv
  <2>. SUFFICES ASSUME Init
                PROVE  KeptInv
    OBVIOUS
  <2>1. \A v \in Version : /\ version[v].file = Original[v] /\ Original[v] \in Upload
                           /\ Original[v] \notin Replacement
    BY Constants, SMT DEF Init, Replacement
  <2>2. \A v \in Version : object[Original[v]] = Original[v]
    BY <2>1, Constants, Zenon DEF Init
  <2>3. LiveFilesExist
    BY <2>1, <2>2, Constants, Zenon DEF LiveFilesExist
  <2>4. Row = {}
    BY SMT DEF Init, Row
  <2>5. \A r \in Runner : runs[r].pc = "idle"
    BY IdleFacts, Zenon DEF Init
  <2>6. \A u \in Replacement : uploads[u] = "queued"
    BY Zenon DEF Init
  <2>7. Kept
    BY <2>1, <2>4, <2>5, <2>6, SMT DEF Kept, Committed
  <2>. QED
    BY <2>3, <2>7, TypeInit DEF KeptInv
<1>2. KeptInv /\ [Next]_vars => KeptInv'
  BY KeptStep
<1>3. KeptInv => LiveFilesExist
  BY DEF KeptInv
<1>. QED
  BY <1>1, <1>2, <1>3, PTL DEF Spec
=============================================================================
