------------------------ MODULE GenerationLeaseProofs ------------------------
(***************************************************************************)
(* What lease_safe shows on a small instance, proved for any number of     *)
(* rows, columns, generations, tries and faults, with and without the      *)
(* queue and the sweep.  Only that the latest request wins is proved for   *)
(* requests that reach their first write under their lease                 *)
(* (PromptRequests).                                                       *)
(***************************************************************************)
EXTENDS GenerationLease, TLAPS

-----------------------------------------------------------------------------
(* The inductive invariants.                                               *)

(* The generations whose request has stamped or blanked its cells.         *)
Written == {g \in Gen : requests[g].wrote}

(* How far a request is says whether it has written its cells.             *)
Placed(r) ==
  /\ r.pc \in {"none", "begun", "loaded"} => ~r.wrote
  /\ r.pc \in {"queue", "undo", "inline", "handed"} => r.wrote
  /\ r.pc = "undo" => r.kind # "generate"

Progress == \A g \in Gen : Placed(requests[g])

(* Whatever acts for a generation does so after its request has written.   *)
Authors ==
  /\ \A c \in Cell : cells[c].stamp # NoGen => cells[c].stamp \in Written
  /\ \A k \in JobKey : jobs[k].status # "none" => jobs[k].gen \in Written
  /\ \A e \in execs : e.gen \in Written
  /\ \A i \in sweep.todo \cup sweep.at : i[2] # NoGen => i[2] \in Written
  /\ \A g \in sweep.touched : g \in Written
  /\ sweep.pc = "release" => sweep.idle \in Written

Budget ==
  /\ \A k \in JobKey : jobs[k].status = "pending" => jobs[k].tries < MaxTries
  /\ \A e \in execs : e.outcome = "retry" => e.try < MaxTries

TypeInv == TypeOK /\ Progress /\ Authors /\ Budget

(* A generation found idle has no stamp and never gets one again.          *)
Released ==
  /\ \A e \in execs : e.pc = "release" => IdleGen(e.gen)
  /\ sweep.pc = "release" => IdleGen(sweep.idle)

(* A request that has yet to write is the last one and holds the lease.    *)
Prompt ==
  \A g \in Gen :
    /\ requests[g].pc \in {"begun", "loaded"} => lease = [holder |-> g, live |-> TRUE]
    /\ requests[g].pc \in {"none", "begun", "loaded"} =>
         \A h \in Gen : h > g => requests[h].pc = "none"

(* A stamp on a cell is that of the last request that wrote the cell.      *)
Latest ==
  \A c \in Cell : \A g \in Gen :
    /\ requests[g].wrote /\ c \in requests[g].target
    /\ cells[c].stamp # NoGen
    => g <= cells[c].stamp

(* With the queue: what a run works on under its own stamp is not finished. *)
Unfinished ==
  async =>
    /\ \A e \in execs :
         /\ ~Inline(e)
         /\ \A c \in e.want \cup e.left : cells[c].stamp = e.gen => ~Done(c)
    /\ \A g \in Gen : requests[g].kind # "generate" =>
         \A c \in Cell : cells[c].stamp = g => ~Done(c)

-----------------------------------------------------------------------------
(* Numbers and records.                                                    *)

RequestPc == {"none", "begun", "loaded", "queue", "undo", "inline", "handed",
              "finish", "over"}
RequestKinds == {"generate", "regenerate", "clear"}
ExecPc    == {"start", "mark", "ask", "flip", "clear", "idle", "release", "settle",
              "hook"}
Outcomes  == {"none", "done", "retry", "spent", "hooked"}
CellStatus == {"pending", "generating", "done", "error"}
Stamps    == Gen \cup {NoGen}

LEMMA GenFacts ==
  /\ NoGen \notin Gen /\ Gen \subseteq Nat /\ MaxTries \in Nat /\ 0 < MaxTries
BY ConstAssumption, SMT DEF Gen, NoGen

LEMMA KeyFacts ==
  ASSUME NEW k \in JobKey
  PROVE  KeyCells(k) \subseteq Cell
BY DEF KeyCells

LEMMA CellKeys ==
  ASSUME NEW c \in Cell
  PROVE  c \in JobKey /\ <<c[1], AllColumns>> \in JobKey
BY SMT DEF Cell, JobKey

LEMMA RequestFacts ==
  ASSUME NEW r \in Request
  PROVE  /\ r.kind \in RequestKinds /\ r.pc \in RequestPc /\ r.target \in SUBSET Cell
         /\ r.todo \in SUBSET JobKey /\ r.queued \in BOOLEAN /\ r.wrote \in BOOLEAN
         /\ r.aborted \in BOOLEAN
BY SMT DEF Request, RequestKinds, RequestPc

LEMMA RequestSet ==
  ASSUME NEW r \in Request
  PROVE  /\ \A x \in RequestKinds : [r EXCEPT !.kind = x] \in Request
         /\ \A x \in RequestPc : [r EXCEPT !.pc = x] \in Request
         /\ \A x \in SUBSET Cell : [r EXCEPT !.target = x] \in Request
         /\ \A x \in SUBSET JobKey : [r EXCEPT !.todo = x] \in Request
         /\ \A x \in BOOLEAN : [r EXCEPT !.queued = x] \in Request
         /\ \A x \in BOOLEAN : [r EXCEPT !.wrote = x] \in Request
         /\ \A x \in BOOLEAN : [r EXCEPT !.aborted = x] \in Request
<1>1. \A x \in RequestKinds : [r EXCEPT !.kind = x] \in Request
  BY SMT DEF Request, RequestKinds
<1>2. \A x \in RequestPc : [r EXCEPT !.pc = x] \in Request
  BY SMT DEF Request, RequestPc
<1>3. \A x \in SUBSET Cell : [r EXCEPT !.target = x] \in Request
  BY SMT DEF Request
<1>4. \A x \in SUBSET JobKey : [r EXCEPT !.todo = x] \in Request
  BY SMT DEF Request
<1>5. \A x \in BOOLEAN : [r EXCEPT !.queued = x] \in Request
  BY SMT DEF Request
<1>6. \A x \in BOOLEAN : [r EXCEPT !.wrote = x] \in Request
  BY SMT DEF Request
<1>7. \A x \in BOOLEAN : [r EXCEPT !.aborted = x] \in Request
  BY SMT DEF Request
<1>. QED
  BY <1>1, <1>2, <1>3, <1>4, <1>5, <1>6, <1>7

LEMMA ExecFacts ==
  ASSUME NEW e \in Exec
  PROVE  /\ e.key \in JobKey /\ e.gen \in Gen /\ e.try \in 0..MaxTries
         /\ e.canceled \in BOOLEAN /\ e.pc \in ExecPc /\ e.want \in SUBSET Cell
         /\ e.left \in SUBSET Cell /\ e.outcome \in Outcomes
BY SMT DEF Exec, ExecPc, Outcomes

LEMMA ExecSet ==
  ASSUME NEW e \in Exec
  PROVE  /\ \A x \in ExecPc : [e EXCEPT !.pc = x] \in Exec
         /\ \A x \in SUBSET Cell : [e EXCEPT !.want = x] \in Exec
         /\ \A x \in SUBSET Cell : [e EXCEPT !.left = x] \in Exec
         /\ \A x \in BOOLEAN : [e EXCEPT !.canceled = x] \in Exec
         /\ \A x \in Outcomes : [e EXCEPT !.outcome = x] \in Exec
<1>1. \A x \in ExecPc : [e EXCEPT !.pc = x] \in Exec
  BY SMT DEF Exec, ExecPc
<1>2. \A x \in SUBSET Cell : [e EXCEPT !.want = x] \in Exec
  BY SMT DEF Exec
<1>3. \A x \in SUBSET Cell : [e EXCEPT !.left = x] \in Exec
  BY SMT DEF Exec
<1>4. \A x \in BOOLEAN : [e EXCEPT !.canceled = x] \in Exec
  BY SMT DEF Exec
<1>5. \A x \in Outcomes : [e EXCEPT !.outcome = x] \in Exec
  BY SMT DEF Exec, Outcomes
<1>. QED
  BY <1>1, <1>2, <1>3, <1>4, <1>5

LEMMA RowFacts ==
  /\ \A row \in CellRow : row.status \in CellStatus /\ row.content \in Stamps
                          /\ row.stamp \in Stamps
  /\ \A status \in CellStatus, g \in Stamps :
       /\ Cleared(status, g) \in CellRow /\ Cleared(status, g).status = status
       /\ Cleared(status, g).content = NoGen /\ Cleared(status, g).stamp = g
  /\ \A row \in CellRow, g \in Stamps :
       /\ [row EXCEPT !.stamp = g] \in CellRow
       /\ [row EXCEPT !.stamp = g].stamp = g
       /\ [row EXCEPT !.stamp = g].status = row.status
       /\ [row EXCEPT !.stamp = g].content = row.content
BY SMT DEF CellRow, CellStatus, Stamps, Cleared

LEMMA PutFacts ==
  ASSUME cells \in [Cell -> CellRow], NEW S, NEW value \in CellRow, Put(S, value)
  PROVE  /\ cells' \in [Cell -> CellRow]
         /\ \A c \in Cell : /\ c \in S => cells'[c] = value
                            /\ c \notin S => cells'[c] = cells[c]
BY SMT DEF Put

LEMMA StampFacts ==
  ASSUME cells \in [Cell -> CellRow], NEW S, NEW g \in Stamps,
         Stamp(S, g) \/ (g = NoGen /\ Unstamp(S))
  PROVE  /\ cells' \in [Cell -> CellRow]
         /\ \A c \in Cell : /\ c \in S => cells'[c] = [cells[c] EXCEPT !.stamp = g]
                            /\ c \notin S => cells'[c] = cells[c]
         /\ \A c \in Cell : /\ cells'[c].stamp = IF c \in S THEN g ELSE cells[c].stamp
                            /\ cells'[c].status = cells[c].status
                            /\ cells'[c].content = cells[c].content
<1>1. cells' = [c \in Cell |-> IF c \in S THEN [cells[c] EXCEPT !.stamp = g]
                                         ELSE cells[c]]
  BY Zenon DEF Stamp, Unstamp
<1>2. \A c \in Cell : /\ cells[c] \in CellRow
                      /\ [cells[c] EXCEPT !.stamp = g] \in CellRow
                      /\ [cells[c] EXCEPT !.stamp = g].stamp = g
                      /\ [cells[c] EXCEPT !.stamp = g].status = cells[c].status
                      /\ [cells[c] EXCEPT !.stamp = g].content = cells[c].content
  BY RowFacts
<1>. QED
  BY <1>1, <1>2

-----------------------------------------------------------------------------
(* What the steps of requests do.                                          *)

Request1(g) == /\ requests' \in [Gen -> Request]
               /\ \A h \in Gen \ {g} : requests'[h] = requests[h]

LEMMA RequestTo ==
  ASSUME TypeOK, NEW g \in Gen, NEW x \in Request, requests' = [requests EXCEPT ![g] = x]
  PROVE  Request1(g) /\ requests'[g] = x
BY SMT DEF TypeOK, Request1

LEMMA BeginFacts ==
  ASSUME TypeOK, NEW g \in Gen, NEW kind, NEW target \in SUBSET Cell,
         Begin(g, kind, target)
  PROVE  /\ Request1(g) /\ requests'[g].kind = kind /\ requests'[g].pc = "begun"
         /\ requests'[g].target = target /\ requests'[g].wrote = requests[g].wrote
         /\ requests[g].pc = "none" /\ kind \in Kinds
         /\ \A h \in 1..(g - 1) : requests[h].pc # "none"
         /\ ~LeaseHeld /\ lease' = [holder |-> g, live |-> TRUE]
<1>. DEFINE x1 == [requests[g] EXCEPT !.kind = kind]
            x2 == [x1 EXCEPT !.target = target]
            x == [x2 EXCEPT !.pc = "begun"]
<1>1. requests[g] \in Request /\ requests \in [Gen -> Request]
  BY SMT DEF TypeOK
<1>2. kind \in RequestKinds /\ "begun" \in RequestPc
  BY ConstAssumption, SMT DEF Begin, RequestKinds, RequestPc
<1>3. x1 \in Request
  BY <1>1, <1>2, RequestSet
<1>4. x2 \in Request
  BY <1>3, RequestSet
<1>5. x \in Request
  BY <1>2, <1>4, RequestSet
<1>6. requests' = [requests EXCEPT ![g] = x]
  BY Zenon DEF Begin
<1>7. /\ x.kind = kind /\ x.pc = "begun" /\ x.target = target
      /\ x.wrote = requests[g].wrote
  BY <1>1, SMT DEF Request
<1>. HIDE DEF x
<1>. QED
  BY <1>5, <1>6, <1>7, RequestTo, Zenon DEF Begin, CanBegin

LEMMA CrashRequestFacts ==
  ASSUME TypeOK, NEW g \in Gen, CrashRequest(g)
  PROVE  /\ Request1(g) /\ requests'[g].kind = requests[g].kind
         /\ requests'[g].pc = "over" /\ requests'[g].wrote = requests[g].wrote
         /\ requests[g].wrote => requests'[g].target = requests[g].target
<1>. DEFINE x1 == [requests[g] EXCEPT !.pc = "over"]
            x2 == [x1 EXCEPT !.todo = {}]
            x3 == [x2 EXCEPT !.queued = FALSE]
            x4 == [x3 EXCEPT !.aborted = FALSE]
            t == IF requests[g].wrote THEN requests[g].target ELSE {}
            x == [x4 EXCEPT !.target = t]
<1>1. requests[g] \in Request /\ requests \in [Gen -> Request]
  BY SMT DEF TypeOK
<1>2. "over" \in RequestPc /\ {} \in SUBSET JobKey
  BY SMT DEF RequestPc
<1>3. x1 \in Request
  BY <1>1, <1>2, RequestSet
<1>4. x2 \in Request
  BY <1>3, RequestSet
<1>5. x3 \in Request
  BY <1>4, RequestSet
<1>6. x4 \in Request
  BY <1>5, RequestSet
<1>7. x \in Request
  BY <1>1, <1>6, RequestFacts, RequestSet
<1>8. requests' = [requests EXCEPT ![g] = x]
  BY Zenon DEF CrashRequest
<1>9. /\ x.kind = requests[g].kind /\ x.pc = "over"
      /\ requests[g].wrote => x.target = requests[g].target
      /\ x.wrote = requests[g].wrote
  BY <1>1, SMT DEF Request
<1>. HIDE DEF x
<1>. QED
  BY <1>7, <1>8, <1>9, RequestTo

(* One row of an inline request fails, and its rejection ends the request. *)
LEMMA RowFailsFacts ==
  ASSUME TypeOK, NEW g \in Gen, RowFails(g)
  PROVE  /\ Request1(g) /\ requests'[g].kind = requests[g].kind
         /\ requests'[g].target = requests[g].target
         /\ requests'[g].wrote = requests[g].wrote
         /\ requests'[g].pc = IF requests[g].pc = "inline" THEN "finish"
                              ELSE requests[g].pc
<1>. DEFINE pc == IF requests[g].pc = "inline" THEN "finish" ELSE requests[g].pc
            x == [requests[g] EXCEPT !.pc = pc]
<1>1. requests[g] \in Request /\ requests \in [Gen -> Request]
  BY SMT DEF TypeOK
<1>2. pc \in RequestPc
  BY <1>1, SMT DEF Request, RequestPc
<1>3. requests' = [requests EXCEPT ![g] = x]
  BY Zenon DEF RowFails
<1>. HIDE DEF pc
<1>4. x \in Request
  BY <1>1, <1>2, RequestSet
<1>5. /\ x.kind = requests[g].kind /\ x.pc = pc /\ x.target = requests[g].target
      /\ x.wrote = requests[g].wrote
  BY <1>1, SMT DEF Request
<1>. HIDE DEF x
<1>. QED
  BY <1>3, <1>4, <1>5, RequestTo DEF pc

(* A request, or one of its rows, dies.                                    *)
Dies(g) == CrashRequest(g) \/ RowFails(g)

LEMMA DiesFacts ==
  ASSUME TypeOK, NEW g \in Gen, Dies(g)
  PROVE  /\ Request1(g) /\ requests'[g].kind = requests[g].kind
         /\ requests'[g].wrote = requests[g].wrote
         /\ requests[g].wrote => requests'[g].target = requests[g].target
         /\ \/ requests'[g].pc \in {"finish", "over"}
            \/ requests'[g].pc = requests[g].pc
<1>1. CASE CrashRequest(g)
  BY <1>1, CrashRequestFacts
<1>2. CASE RowFails(g)
  BY <1>2, RowFailsFacts
<1>. QED
  BY <1>1, <1>2 DEF Dies

(* A request that has not yet written moves on, and may choose its cells.  *)
LEMMA ChooseFacts ==
  ASSUME TypeOK, NEW g \in Gen, Load(g) \/ GiveUp(g)
  PROVE  /\ Request1(g) /\ requests'[g].kind = requests[g].kind
         /\ requests'[g].pc \in {"finish", "loaded"}
         /\ requests'[g].wrote = requests[g].wrote
         /\ requests[g].pc \in {"begun", "loaded"}
<1>1. requests[g] \in Request /\ requests \in [Gen -> Request]
  BY SMT DEF TypeOK
<1>2. ASSUME NEW pc \in {"finish", "loaded"}, NEW target \in SUBSET Cell,
             \/ requests' = [requests EXCEPT ![g].target = target, ![g].pc = pc]
             \/ requests' = [requests EXCEPT ![g].pc = pc, ![g].target = target]
      PROVE  /\ Request1(g) /\ requests'[g].kind = requests[g].kind
             /\ requests'[g].pc = pc /\ requests'[g].wrote = requests[g].wrote
  <2>. DEFINE x1 == [requests[g] EXCEPT !.target = target]
              x == [x1 EXCEPT !.pc = pc]
              y1 == [requests[g] EXCEPT !.pc = pc]
              y == [y1 EXCEPT !.target = target]
  <2>1. pc \in RequestPc
    BY SMT DEF RequestPc
  <2>2. x1 \in Request /\ y1 \in Request
    BY <1>1, <2>1, RequestSet
  <2>3. x \in Request /\ y \in Request
    BY <2>1, <2>2, RequestSet
  <2>4. requests' = [requests EXCEPT ![g] = x] \/ requests' = [requests EXCEPT ![g] = y]
    BY <1>2, Zenon
  <2>5. /\ x.kind = requests[g].kind /\ x.pc = pc /\ x.wrote = requests[g].wrote
        /\ y.kind = requests[g].kind /\ y.pc = pc /\ y.wrote = requests[g].wrote
    BY <1>1, SMT DEF Request
  <2>. HIDE DEF x, y
  <2>. QED
    BY <2>3, <2>4, <2>5, RequestTo
<1>3. CASE Load(g)
  <2>. DEFINE outstanding == {c \in Cell : ~Done(c)}
              pc == IF outstanding = {} THEN "finish" ELSE "loaded"
  <2>1. /\ requests[g].pc = "begun"
        /\ requests' = [requests EXCEPT ![g].target = outstanding, ![g].pc = pc]
    BY <1>3, Zenon DEF Load
  <2>2. pc \in {"finish", "loaded"} /\ outstanding \in SUBSET Cell
    OBVIOUS
  <2>. HIDE DEF pc, outstanding
  <2>. QED
    BY <1>2, <2>1, <2>2
<1>4. CASE GiveUp(g)
  <2>1. /\ requests[g].pc \in {"begun", "loaded"}
        /\ requests' = [requests EXCEPT ![g].pc = "finish", ![g].target = {}]
    BY <1>4, Zenon DEF GiveUp
  <2>2. "finish" \in {"finish", "loaded"} /\ {} \in SUBSET Cell
    OBVIOUS
  <2>. QED
    BY <1>2, <2>1, <2>2
<1>. QED
  BY <1>3, <1>4

(* A request only moves on.                                                *)
RequestMoves(g) ==
  \/ CancelJobs(g) \/ UndoCell(g) \/ FinishRequest(g) \/ HandOver(g)
  \/ Abort(g) \/ InlineOver(g) \/ \E k \in JobKey : Enqueue(g, k)

(* Where it comes from and gets to.                                        *)
Route(p, kind, q) ==
  \/ p = "begun" /\ q = "loaded"
  \/ p \in {"queue", "inline", "undo", "finish"} /\ q \in {"finish", "over", "handed"}
     /\ (q = "handed" => p = "queue")
  \/ p = "queue" /\ q = "undo" /\ kind # "generate"
  \/ p = q /\ p \in {"queue", "inline"}

LEMMA RequestMoveFacts ==
  ASSUME TypeOK, NEW g \in Gen, RequestMoves(g)
  PROVE  /\ Request1(g) /\ requests'[g].kind = requests[g].kind
         /\ requests'[g].target = requests[g].target
         /\ requests'[g].wrote = requests[g].wrote
         /\ Route(requests[g].pc, requests[g].kind, requests'[g].pc)
<1>. DEFINE r == requests[g]
<1>1. r \in Request /\ requests \in [Gen -> Request]
  BY SMT DEF TypeOK
<1>. HIDE DEF r
<1>2. ASSUME NEW pc \in RequestPc, requests' = [requests EXCEPT ![g].pc = pc],
             Route(r.pc, r.kind, pc)
      PROVE  /\ Request1(g) /\ requests'[g].kind = r.kind
             /\ requests'[g].target = r.target /\ requests'[g].wrote = r.wrote
             /\ Route(r.pc, r.kind, requests'[g].pc)
  <2>. DEFINE x == [r EXCEPT !.pc = pc]
  <2>1. x \in Request
    BY <1>1, RequestSet
  <2>2. requests' = [requests EXCEPT ![g] = x]
    BY <1>2, Zenon DEF r
  <2>3. x.kind = r.kind /\ x.pc = pc /\ x.target = r.target /\ x.wrote = r.wrote
    BY <1>1, SMT DEF Request
  <2>. HIDE DEF x
  <2>. QED
    BY <1>2, <2>1, <2>2, <2>3, RequestTo
<1>. DEFINE Goal == /\ Request1(g) /\ requests'[g].kind = r.kind
                    /\ requests'[g].target = r.target /\ requests'[g].wrote = r.wrote
                    /\ Route(r.pc, r.kind, requests'[g].pc)
<1>3. CASE CancelJobs(g)
  <2>1. r.pc = "begun" /\ requests' = [requests EXCEPT ![g].pc = "loaded"]
    BY <1>3, Zenon DEF CancelJobs, r
  <2>. QED
    BY <1>2, <2>1, SMT DEF Route, RequestPc, r
<1>4. CASE UndoCell(g)
  <2>1. r.pc = "undo" /\ requests' = [requests EXCEPT ![g].pc = "finish"]
    BY <1>4, Zenon DEF UndoCell, r
  <2>. QED
    BY <1>2, <2>1, SMT DEF Route, RequestPc, r
<1>5. CASE FinishRequest(g)
  <2>1. r.pc = "finish" /\ requests' = [requests EXCEPT ![g].pc = "over"]
    BY <1>5, Zenon DEF FinishRequest, r
  <2>. QED
    BY <1>2, <2>1, SMT DEF Route, RequestPc, r
<1>6. CASE HandOver(g)
  <2>. DEFINE pc == IF r.queued THEN "handed"
                    ELSE IF r.kind = "generate" THEN "finish" ELSE "undo"
              x1 == [r EXCEPT !.queued = FALSE]
              x == [x1 EXCEPT !.pc = pc]
  <2>1. r.pc = "queue" /\ requests' = [requests EXCEPT ![g] = x]
    BY <1>6, Zenon DEF HandOver, r
  <2>2. pc \in RequestPc /\ Route("queue", r.kind, pc)
    BY SMT DEF Route, RequestPc
  <2>. HIDE DEF pc
  <2>3. x1 \in Request
    BY <1>1, RequestSet
  <2>4. x \in Request
    BY <2>2, <2>3, RequestSet
  <2>5. x.kind = r.kind /\ x.pc = pc /\ x.target = r.target /\ x.wrote = r.wrote
    BY <1>1, SMT DEF Request
  <2>. HIDE DEF x
  <2>. QED
    BY <2>1, <2>2, <2>4, <2>5, RequestTo DEF r
<1>7. CASE InlineOver(g)
  <2>. DEFINE x1 == [r EXCEPT !.pc = "finish"]
              x == [x1 EXCEPT !.aborted = FALSE]
  <2>1. r.pc = "inline" /\ requests' = [requests EXCEPT ![g] = x]
    BY <1>7, Zenon DEF InlineOver, r
  <2>2. "finish" \in RequestPc /\ Route("inline", r.kind, "finish")
    BY SMT DEF Route, RequestPc
  <2>3. x1 \in Request
    BY <1>1, <2>2, RequestSet
  <2>4. x \in Request
    BY <2>3, RequestSet
  <2>5. x.kind = r.kind /\ x.pc = "finish" /\ x.target = r.target /\ x.wrote = r.wrote
    BY <1>1, SMT DEF Request
  <2>. HIDE DEF x
  <2>. QED
    BY <2>1, <2>2, <2>4, <2>5, RequestTo DEF r
<1>8. CASE Abort(g)
  <2>. DEFINE x == [r EXCEPT !.aborted = TRUE]
  <2>1. r.pc = "inline" /\ requests' = [requests EXCEPT ![g] = x]
    BY <1>8, Zenon DEF Abort, r
  <2>2. Route("inline", r.kind, "inline")
    BY SMT DEF Route
  <2>3. x \in Request
    BY <1>1, RequestSet
  <2>4. x.kind = r.kind /\ x.pc = r.pc /\ x.target = r.target /\ x.wrote = r.wrote
    BY <1>1, SMT DEF Request
  <2>. HIDE DEF x
  <2>. QED
    BY <2>1, <2>2, <2>3, <2>4, RequestTo DEF r
<1>9. ASSUME NEW k \in JobKey, Enqueue(g, k)
      PROVE  Goal
  <2>. DEFINE x == [r EXCEPT !.todo = r.todo \ {k}]
              y == [x EXCEPT !.queued = TRUE]
  <2>1. r.pc = "queue"
        /\ (requests' = [requests EXCEPT ![g] = x] \/ requests' = [requests EXCEPT ![g] = y])
    BY <1>9, Zenon DEF Enqueue, r
  <2>2. Route("queue", r.kind, "queue")
    BY SMT DEF Route
  <2>3. x \in Request
    BY <1>1, RequestFacts, RequestSet
  <2>4. y \in Request
    BY <2>3, RequestSet
  <2>5. /\ x.kind = r.kind /\ x.pc = r.pc /\ x.target = r.target /\ x.wrote = r.wrote
        /\ y.kind = r.kind /\ y.pc = r.pc /\ y.target = r.target /\ y.wrote = r.wrote
    BY <1>1, SMT DEF Request
  <2>. HIDE DEF x, y
  <2>. QED
    BY <2>1, <2>2, <2>3, <2>4, <2>5, RequestTo DEF r
<1>. QED
  BY <1>3, <1>4, <1>5, <1>6, <1>7, <1>8, <1>9, Zenon DEF RequestMoves, r

(* A request writes its cells.                                             *)
LEMMA WriteFacts ==
  ASSUME TypeOK, NEW g \in Gen, ClaimCells(g) \/ StampCell(g) \/ BlankCells(g)
  PROVE  /\ Request1(g) /\ requests'[g].kind = requests[g].kind
         /\ requests'[g].target = requests[g].target /\ requests'[g].wrote
         /\ requests[g].pc \in {"begun", "loaded"}
         /\ requests'[g].pc \in {"queue", "inline", "finish"}
<1>. DEFINE r == requests[g]
<1>1. r \in Request /\ requests \in [Gen -> Request]
  BY SMT DEF TypeOK
<1>. HIDE DEF r
<1>. DEFINE pc == IF async THEN "queue" ELSE "inline"
            x1 == [r EXCEPT !.wrote = TRUE]
<1>2. x1 \in Request /\ pc \in RequestPc /\ "finish" \in RequestPc
  <2>1. x1 \in Request
    BY <1>1, RequestSet
  <2>. QED
    BY <2>1, SMT DEF RequestPc
<1>3. ASSUME NEW todo \in SUBSET JobKey,
             requests' = [requests EXCEPT ![g].wrote = TRUE, ![g].pc = pc, ![g].todo = todo]
      PROVE  /\ Request1(g) /\ requests'[g].kind = r.kind /\ requests'[g].target = r.target
             /\ requests'[g].wrote /\ requests'[g].pc = pc
  <2>. DEFINE x2 == [x1 EXCEPT !.pc = pc]
              x == [x2 EXCEPT !.todo = todo]
  <2>1. x2 \in Request
    BY <1>2, RequestSet
  <2>2. x \in Request
    BY <2>1, RequestSet
  <2>3. requests' = [requests EXCEPT ![g] = x]
    BY <1>3, Zenon DEF r
  <2>4. x.kind = r.kind /\ x.pc = pc /\ x.target = r.target /\ x.wrote
    BY <1>1, SMT DEF Request
  <2>. HIDE DEF x
  <2>. QED
    BY <2>2, <2>3, <2>4, RequestTo
<1>4. CASE ClaimCells(g)
  <2>. DEFINE keys == {<<c[1], AllColumns>> : c \in r.target}
              todo == IF async THEN keys ELSE {}
  <2>1. /\ r.pc = "loaded"
        /\ requests' = [requests EXCEPT ![g].wrote = TRUE, ![g].pc = pc, ![g].todo = todo]
    BY <1>4, Zenon DEF ClaimCells, r
  <2>2. todo \in SUBSET JobKey
    BY <1>1, RequestFacts, CellKeys
  <2>. HIDE DEF todo
  <2>. QED
    BY <1>3, <2>1, <2>2 DEF r
<1>5. CASE StampCell(g)
  <2>. DEFINE todo == IF async THEN r.target ELSE {}
  <2>1. /\ r.pc = "begun"
        /\ requests' = [requests EXCEPT ![g].wrote = TRUE, ![g].pc = pc, ![g].todo = todo]
    BY <1>5, Zenon DEF StampCell, r
  <2>2. todo \in SUBSET JobKey
    BY <1>1, RequestFacts, CellKeys
  <2>. HIDE DEF todo
  <2>. QED
    BY <1>3, <2>1, <2>2 DEF r
<1>6. CASE BlankCells(g)
  <2>. DEFINE x == [x1 EXCEPT !.pc = "finish"]
  <2>1. r.pc \in {"begun", "loaded"} /\ requests' = [requests EXCEPT ![g] = x]
    BY <1>6, Zenon DEF BlankCells, r
  <2>2. x \in Request
    BY <1>2, RequestSet
  <2>3. x.kind = r.kind /\ x.pc = "finish" /\ x.target = r.target /\ x.wrote
    BY <1>1, SMT DEF Request
  <2>. HIDE DEF x
  <2>. QED
    BY <2>1, <2>2, <2>3, RequestTo DEF r
<1>. QED
  BY <1>4, <1>5, <1>6

-----------------------------------------------------------------------------
(* What steps do to cells.                                                 *)

(* Stamps are only removed, and what is written carries the name of the    *)
(* stamp it replaces.                                                      *)
Shrinks ==
  /\ cells' \in [Cell -> CellRow]
  /\ \A c \in Cell :
       /\ cells'[c].stamp = cells[c].stamp \/ cells'[c].stamp = NoGen
       /\ Done(c)' /\ cells'[c].stamp # NoGen => Done(c)
       /\ \/ cells'[c].content = cells[c].content \/ cells'[c].content = NoGen
          \/ cells'[c].content = cells[c].stamp

(* Results are lost only in cells of S stamped with g.                     *)
Loses(S, g) ==
  \A c \in Cell : Done(c) /\ cells'[c].content = NoGen => c \in S /\ cells[c].stamp = g

LEMMA SameCells ==
  ASSUME TypeOK, cells' = cells
  PROVE  Shrinks /\ \A S, g : Loses(S, g)
<1>1. \A c \in Cell : Done(c)' <=> Done(c)
  BY Zenon DEF Done
<1>2. \A c \in Cell : Done(c) => cells[c].content # NoGen
  BY Zenon DEF Done
<1>. QED
  BY <1>1, <1>2, Zenon DEF TypeOK, Shrinks, Loses

LEMMA PutShrinks ==
  ASSUME TypeOK, NEW S \in SUBSET Cell, NEW value \in CellRow, Put(S, value),
         NEW g, \/ value.stamp = NoGen
                \/ value.stamp = g /\ \A c \in S : cells[c].stamp = g,
         \/ value.content = NoGen
         \/ value.content = g /\ value.stamp = NoGen /\ \A c \in S : cells[c].stamp = g
  PROVE  Shrinks
<1>1. cells \in [Cell -> CellRow]
  BY DEF TypeOK
<1>2. /\ cells' \in [Cell -> CellRow]
      /\ \A c \in Cell : /\ c \in S => cells'[c] = value
                         /\ c \notin S => cells'[c] = cells[c]
  BY <1>1, PutFacts
<1>3. ASSUME NEW c \in Cell, c \notin S
      PROVE  Done(c)' <=> Done(c)
  BY <1>2, <1>3, Zenon DEF Done
<1>4. ASSUME NEW c \in S, Done(c)'
      PROVE  value.content # NoGen
  BY <1>2, <1>4, Zenon DEF Done
<1>. QED
  BY <1>2, <1>3, <1>4, Zenon DEF Shrinks

LEMMA OwnedFacts ==
  ASSUME NEW S \in SUBSET Cell, NEW g
  PROVE  Owned(S, g) \in SUBSET Cell /\ \A c \in Owned(S, g) : c \in S /\ cells[c].stamp = g
BY DEF Owned

LEMMA PutLoses ==
  ASSUME TypeOK, NEW S \in SUBSET Cell, NEW value \in CellRow, NEW g,
         Put(Owned(S, g), value)
  PROVE  Loses(S, g)
<1>1. cells \in [Cell -> CellRow]
  BY DEF TypeOK
<1>2. \A c \in Cell : c \notin Owned(S, g) => cells'[c] = cells[c]
  BY <1>1, PutFacts
<1>3. \A c \in Cell : Done(c) => cells[c].content # NoGen
  BY Zenon DEF Done
<1>. QED
  BY <1>2, <1>3, OwnedFacts, Zenon DEF Loses

(* A request stamps the cells it is about.                                 *)
StampsOwn(g) ==
  /\ cells' \in [Cell -> CellRow]
  /\ \A c \in Cell :
       /\ c \notin requests[g].target => cells'[c] = cells[c]
       /\ c \in requests[g].target =>
            /\ cells'[c].stamp = g
            /\ cells'[c].content = cells[c].content \/ cells'[c].content = NoGen
            /\ requests[g].kind # "generate" => ~Done(c)'
  /\ requests[g].kind = "generate" => \A c \in Cell : cells'[c].content = cells[c].content

LEMMA StampingFacts ==
  ASSUME TypeOK, NEW g \in Gen, ClaimCells(g) \/ StampCell(g)
  PROVE  StampsOwn(g)
<1>1. cells \in [Cell -> CellRow] /\ g \in Stamps
  BY Zenon DEF TypeOK, Stamps
<1>2. CASE ClaimCells(g)
  <2>1. Stamp(requests[g].target, g) /\ requests[g].kind = "generate"
    BY <1>2, Zenon DEF ClaimCells
  <2>2. ASSUME NEW S, Stamp(S, g)
        PROVE  /\ cells' \in [Cell -> CellRow]
               /\ \A c \in Cell :
                    /\ c \notin S => cells'[c] = cells[c]
                    /\ c \in S => cells'[c].stamp = g
                    /\ cells'[c].content = cells[c].content
    <3>1. /\ cells' \in [Cell -> CellRow]
          /\ \A c \in Cell : /\ c \in S => cells'[c] = [cells[c] EXCEPT !.stamp = g]
                             /\ c \notin S => cells'[c] = cells[c]
          /\ \A c \in Cell : /\ cells'[c].stamp = IF c \in S THEN g ELSE cells[c].stamp
                             /\ cells'[c].status = cells[c].status
                             /\ cells'[c].content = cells[c].content
      BY <1>1, <2>2, StampFacts, Zenon
    <3>. QED
      BY <3>1, Zenon
  <2>. QED
    BY <2>1, <2>2, Zenon DEF StampsOwn
<1>3. CASE StampCell(g)
  <2>1. Put(requests[g].target, Cleared("generating", g)) /\ requests[g].kind = "regenerate"
    BY <1>3, Zenon DEF StampCell
  <2>2. /\ Cleared("generating", g) \in CellRow
        /\ Cleared("generating", g).stamp = g
        /\ Cleared("generating", g).content = NoGen
    BY <1>1, RowFacts, SMT DEF CellStatus
  <2>3. /\ cells' \in [Cell -> CellRow]
        /\ \A c \in Cell :
             /\ c \in requests[g].target => cells'[c] = Cleared("generating", g)
             /\ c \notin requests[g].target => cells'[c] = cells[c]
    BY <1>1, <2>1, <2>2, PutFacts
  <2>4. \A c \in Cell : cells'[c].content = NoGen => ~Done(c)'
    BY Zenon DEF Done
  <2>5. requests[g].kind # "generate"
    BY <2>1
  <2>. QED
    BY <2>2, <2>3, <2>4, <2>5, Zenon DEF StampsOwn
<1>. QED
  BY <1>2, <1>3

LEMMA BlankFacts ==
  ASSUME TypeOK, NEW g \in Gen, BlankCells(g)
  PROVE  /\ Shrinks /\ requests[g].kind = "clear"
         /\ \A c \in Cell : IF c \in requests[g].target THEN cells'[c].stamp = NoGen
                                                        ELSE cells'[c] = cells[c]
<1>1. cells \in [Cell -> CellRow] /\ requests[g].target \in SUBSET Cell
  BY RequestFacts, SMT DEF TypeOK
<1>2. Put(requests[g].target, Cleared("pending", NoGen)) /\ requests[g].kind = "clear"
  BY Zenon DEF BlankCells
<1>3. /\ Cleared("pending", NoGen) \in CellRow /\ Cleared("pending", NoGen).stamp = NoGen
      /\ Cleared("pending", NoGen).content = NoGen
  BY RowFacts, SMT DEF CellStatus, Stamps
<1>4. \A c \in Cell :
        /\ c \in requests[g].target => cells'[c] = Cleared("pending", NoGen)
        /\ c \notin requests[g].target => cells'[c] = cells[c]
  BY <1>1, <1>2, <1>3, PutFacts
<1>5. Shrinks
  BY <1>1, <1>2, <1>3, PutShrinks
<1>. QED
  BY <1>2, <1>3, <1>4, <1>5

LEMMA UndoFacts ==
  ASSUME TypeOK, NEW g \in Gen, UndoCell(g)
  PROVE  Shrinks /\ Loses(requests[g].target, g) /\ requests[g].pc = "undo"
<1>1. requests[g].target \in SUBSET Cell
  BY RequestFacts, SMT DEF TypeOK
<1>2. Put(Owned(requests[g].target, g), Cleared("error", NoGen)) /\ requests[g].pc = "undo"
  BY Zenon DEF UndoCell
<1>3. /\ Cleared("error", NoGen) \in CellRow /\ Cleared("error", NoGen).stamp = NoGen
      /\ Cleared("error", NoGen).content = NoGen
  BY RowFacts, SMT DEF CellStatus, Stamps
<1>4. Owned(requests[g].target, g) \in SUBSET Cell
  BY <1>1, OwnedFacts
<1>. QED
  BY <1>1, <1>2, <1>3, <1>4, PutShrinks, PutLoses

LEMMA SweepFlipFacts ==
  ASSUME TypeOK, SweepFlip
  PROVE  Shrinks
<1>1. PICK i \in sweep.at : Put(Swept(i[1], i[2]), Cleared("error", NoGen))
  BY Zenon DEF SweepFlip
<1>2. i[1] \in Cell
  BY SMT DEF TypeOK, Sweep
<1>3. Swept(i[1], i[2]) \in SUBSET Cell
  BY <1>2 DEF Swept, Owned
<1>4. /\ Cleared("error", NoGen) \in CellRow /\ Cleared("error", NoGen).stamp = NoGen
      /\ Cleared("error", NoGen).content = NoGen
  BY RowFacts, SMT DEF CellStatus, Stamps
<1>. QED
  BY <1>1, <1>3, <1>4, PutShrinks

-----------------------------------------------------------------------------
(* What row extractions do.                                                *)

(* An extraction becomes another stage of the same attempt; what it works  *)
(* on in a worker it had before, or finds unfinished now.                  *)
Successor(e, x) ==
  /\ x \in Exec /\ x.gen = e.gen /\ x.try = e.try
  /\ x.outcome = "retry" => e.outcome = "retry" \/ e.try < MaxTries
  /\ x.pc = "release" => IdleGen(e.gen)
  /\ ~Inline(e) => \A c \in x.want \cup x.left : c \in e.want \cup e.left \/ ~Done(c)

Continues(e) == \A x \in execs' : x \in execs \/ Successor(e, x)

LEMMA BecomeContinues ==
  ASSUME NEW e, End(e) \/ \E x : Successor(e, x) /\ Become(e, x)
  PROVE  Continues(e)
BY Zenon DEF End, Become, Continues

LEMMA LeavingFacts ==
  ASSUME NEW e \in Exec, NEW pc \in {"clear", "idle"}, NEW outcome \in Outcomes,
         outcome = "retry" => e.try < MaxTries
  PROVE  Successor(e, Leaving(e, pc, outcome))
<1>. DEFINE x1 == [e EXCEPT !.pc = pc]
            x2 == [x1 EXCEPT !.want = {}]
            x3 == [x2 EXCEPT !.left = {}]
            x4 == [x3 EXCEPT !.canceled = FALSE]
            x == [x4 EXCEPT !.outcome = outcome]
<1>1. pc \in ExecPc /\ {} \in SUBSET Cell
  BY SMT DEF ExecPc
<1>2. x1 \in Exec
  BY <1>1, ExecSet
<1>3. x2 \in Exec
  BY <1>2, <1>1, ExecSet
<1>4. x3 \in Exec
  BY <1>3, <1>1, ExecSet
<1>5. x4 \in Exec
  BY <1>4, ExecSet
<1>6. x \in Exec
  BY <1>5, ExecSet
<1>7. /\ x.gen = e.gen /\ x.try = e.try /\ x.pc = pc /\ x.want = {} /\ x.left = {}
      /\ x.outcome = outcome
  BY SMT DEF Exec
<1>8. x = Leaving(e, pc, outcome)
  BY Zenon DEF Leaving
<1>9. pc # "release"
  OBVIOUS
<1>. HIDE DEF x
<1>. QED
  BY <1>6, <1>7, <1>8, <1>9 DEF Successor

(* An extraction only moves on to a stage that is not a release.           *)
LEMMA MovedFacts ==
  ASSUME NEW e \in Exec, NEW pc \in ExecPc, pc # "release" \/ IdleGen(e.gen)
  PROVE  Successor(e, [e EXCEPT !.pc = pc])
<1>. DEFINE x == [e EXCEPT !.pc = pc]
<1>1. x \in Exec
  BY ExecSet
<1>2. /\ x.gen = e.gen /\ x.try = e.try /\ x.pc = pc /\ x.want = e.want
      /\ x.left = e.left /\ x.outcome = e.outcome
  BY SMT DEF Exec
<1>. HIDE DEF x
<1>3. Successor(e, x)
  BY <1>1, <1>2 DEF Successor
<1>. QED
  BY <1>3 DEF x

(* One cell of the present stage is treated.                               *)
LEMMA TreatedFacts ==
  ASSUME NEW e \in Exec, NEW c, e.pc # "release"
  PROVE  Successor(e, [e EXCEPT !.left = e.left \ {c}])
<1>. DEFINE x == [e EXCEPT !.left = e.left \ {c}]
<1>1. x \in Exec
  BY ExecFacts, ExecSet
<1>2. /\ x.gen = e.gen /\ x.try = e.try /\ x.pc = e.pc /\ x.want = e.want
      /\ x.left = e.left \ {c} /\ x.outcome = e.outcome
  BY SMT DEF Exec
<1>. HIDE DEF x
<1>3. Successor(e, x)
  BY <1>1, <1>2 DEF Successor
<1>. QED
  BY <1>3 DEF x

LEMMA AfterReleaseFacts ==
  ASSUME NEW e \in Exec, AfterRelease(e)
  PROVE  Continues(e)
<1>1. "settle" \in ExecPc /\ "settle" # "release"
  BY SMT DEF ExecPc
<1>2. Successor(e, [e EXCEPT !.pc = "settle"])
  BY <1>1, MovedFacts
<1>. QED
  BY <1>2, BecomeContinues, Zenon DEF AfterRelease

LEMMA StartFacts ==
  ASSUME TypeOK, NEW e \in execs, Start(e)
  PROVE  Continues(e)
<1>. DEFINE found == IF Inline(e) THEN KeyCells(e.key) \cap requests[e.gen].target
                     ELSE {c \in KeyCells(e.key) : ~Done(c)}
<1>1. e \in Exec /\ KeyCells(e.key) \in SUBSET Cell
  BY ExecFacts, KeyFacts DEF TypeOK
<1>2. found \in SUBSET Cell /\ (~Inline(e) => \A c \in found : ~Done(c))
  BY <1>1
<1>3. \/ End(e) \/ Become(e, Settled(e))
      \/ Become(e, [e EXCEPT !.pc = "mark", !.want = found, !.left = found])
  BY Zenon DEF Start
<1>. HIDE DEF found
<1>. DEFINE x1 == [e EXCEPT !.pc = "mark"]
            x2 == [x1 EXCEPT !.want = found]
            x == [x2 EXCEPT !.left = found]
<1>4. "mark" \in ExecPc /\ "done" \in Outcomes /\ "clear" \in {"clear", "idle"}
  BY SMT DEF ExecPc, Outcomes
<1>5. x1 \in Exec
  BY <1>1, <1>4, ExecSet
<1>6. x2 \in Exec
  BY <1>2, <1>5, ExecSet
<1>7. x \in Exec
  BY <1>2, <1>6, ExecSet
<1>8. /\ x.gen = e.gen /\ x.try = e.try /\ x.pc = "mark" /\ x.want = found
      /\ x.left = found /\ x.outcome = e.outcome
  BY <1>1, SMT DEF Exec
<1>9. End(e) \/ Become(e, Settled(e)) \/ Become(e, x)
  BY <1>3, Zenon
<1>. HIDE DEF x
<1>10. Successor(e, x)
  BY <1>2, <1>7, <1>8 DEF Successor
<1>11. Successor(e, Settled(e))
  BY <1>1, <1>4, LeavingFacts DEF Settled
<1>. QED
  BY <1>9, <1>10, <1>11, BecomeContinues, Zenon

LEMMA MarkFacts ==
  ASSUME TypeOK, NEW e \in execs, Mark(e)
  PROVE  Continues(e) /\ Shrinks /\ Loses(e.left, e.gen)
<1>1. e \in Exec /\ e.left \in SUBSET Cell /\ e.gen \in Stamps
  BY ExecFacts, SMT DEF TypeOK, Stamps
<1>. DEFINE x1 == [e EXCEPT !.pc = "ask"]
            x == [x1 EXCEPT !.left = e.want]
<1>2. PICK c \in e.left :
        /\ Put(Owned({c}, e.gen), Cleared("generating", e.gen))
        /\ Become(e, x) \/ Become(e, [e EXCEPT !.left = e.left \ {c}])
  BY Zenon DEF Mark, Markable
<1>3. e.pc = "mark" /\ "ask" \in ExecPc
  BY SMT DEF Mark, ExecPc
<1>4. x1 \in Exec
  BY <1>1, <1>3, ExecSet
<1>5. x \in Exec
  BY <1>1, <1>4, ExecFacts, ExecSet
<1>6. /\ x.gen = e.gen /\ x.try = e.try /\ x.pc = "ask" /\ x.want = e.want
      /\ x.left = e.want /\ x.outcome = e.outcome
  BY <1>1, SMT DEF Exec
<1>. HIDE DEF x
<1>7. Successor(e, x)
  BY <1>5, <1>6 DEF Successor
<1>8. Successor(e, [e EXCEPT !.left = e.left \ {c}])
  BY <1>1, <1>3, TreatedFacts
<1>9. Continues(e)
  BY <1>2, <1>7, <1>8, BecomeContinues, Zenon
<1>10. /\ Cleared("generating", e.gen) \in CellRow
       /\ Cleared("generating", e.gen).stamp = e.gen
       /\ Cleared("generating", e.gen).content = NoGen
  BY <1>1, RowFacts, SMT DEF CellStatus
<1>11. {c} \in SUBSET Cell /\ Owned({c}, e.gen) \in SUBSET Cell
       /\ \A d \in Owned({c}, e.gen) : cells[d].stamp = e.gen
  BY <1>1, OwnedFacts
<1>12. Shrinks
  BY <1>2, <1>10, <1>11, PutShrinks
<1>13. Loses({c}, e.gen)
  BY <1>2, <1>10, <1>11, PutLoses
<1>. QED
  BY <1>9, <1>12, <1>13 DEF Loses

LEMMA AnswerFacts ==
  ASSUME TypeOK, NEW e \in execs, Answer(e)
  PROVE  Continues(e) /\ Shrinks /\ Loses(e.left, e.gen)
<1>. DEFINE value == [status |-> "done", content |-> e.gen, stamp |-> NoGen]
<1>1. e \in Exec /\ e.left \in SUBSET Cell /\ e.gen \in Stamps
  BY ExecFacts, SMT DEF TypeOK, Stamps
<1>2. PICK c \in e.left :
        /\ Put(Owned({c}, e.gen), value)
        /\ Become(e, [e EXCEPT !.left = e.left \ {c}])
  BY Zenon DEF Answer, Writable
<1>3. e.pc # "release"
  BY Zenon DEF Answer
<1>4. Continues(e)
  BY <1>1, <1>2, <1>3, TreatedFacts, BecomeContinues
<1>5. value \in CellRow /\ value.stamp = NoGen /\ value.content = e.gen
  BY <1>1, SMT DEF CellRow, Stamps
<1>. HIDE DEF value
<1>6. {c} \in SUBSET Cell /\ Owned({c}, e.gen) \in SUBSET Cell
      /\ \A d \in Owned({c}, e.gen) : cells[d].stamp = e.gen
  BY <1>1, OwnedFacts
<1>7. Shrinks
  BY <1>2, <1>5, <1>6, PutShrinks
<1>8. Loses({c}, e.gen)
  BY <1>2, <1>5, <1>6, PutLoses
<1>. QED
  BY <1>4, <1>7, <1>8 DEF Loses

LEMMA ThrowingFacts ==
  ASSUME NEW e \in Exec
  PROVE  Successor(e, Throwing(e))
<1>. DEFINE outcome == IF e.try < MaxTries THEN "retry" ELSE "spent"
<1>1. outcome \in Outcomes /\ (outcome = "retry" => e.try < MaxTries)
      /\ "idle" \in {"clear", "idle"}
  BY SMT DEF Outcomes
<1>2. Throwing(e) = Leaving(e, "idle", outcome)
  BY Zenon DEF Throwing
<1>. HIDE DEF outcome
<1>. QED
  BY <1>1, <1>2, LeavingFacts

LEMMA SettledFacts ==
  ASSUME NEW e \in Exec
  PROVE  Successor(e, Settled(e))
<1>1. "done" \in Outcomes /\ "clear" \in {"clear", "idle"}
  BY SMT DEF Outcomes
<1>. QED
  BY <1>1, LeavingFacts DEF Settled

LEMMA EndAnswerFacts ==
  ASSUME TypeOK, NEW e \in execs, EndAnswer(e)
  PROVE  Continues(e)
<1>. DEFINE x1 == [e EXCEPT !.pc = "flip"]
            x == [x1 EXCEPT !.want = {}]
<1>1. e \in Exec /\ "flip" \in ExecPc /\ {} \in SUBSET Cell
  BY SMT DEF TypeOK, ExecPc
<1>2. Become(e, x) \/ Become(e, Settled(e)) \/ Become(e, Throwing(e))
  BY Zenon DEF EndAnswer
<1>3. x1 \in Exec
  BY <1>1, ExecSet
<1>4. x \in Exec
  BY <1>1, <1>3, ExecSet
<1>5. /\ x.gen = e.gen /\ x.try = e.try /\ x.pc = "flip" /\ x.want = {}
      /\ x.left = e.left /\ x.outcome = e.outcome
  BY <1>1, SMT DEF Exec
<1>. HIDE DEF x
<1>6. Successor(e, x)
  BY <1>4, <1>5 DEF Successor
<1>. QED
  BY <1>1, <1>2, <1>6, SettledFacts, ThrowingFacts, BecomeContinues, Zenon

LEMMA FlipFacts ==
  ASSUME TypeOK, NEW e \in execs, Flip(e)
  PROVE  Continues(e) /\ Shrinks /\ Loses(e.left, e.gen)
<1>. DEFINE status == IF Inline(e) /\ requests[e.gen].aborted THEN "pending" ELSE "error"
<1>1. e \in Exec /\ e.left \in SUBSET Cell /\ e.gen \in Stamps
  BY ExecFacts, SMT DEF TypeOK, Stamps
<1>2. e.pc = "flip" /\ "clear" \in ExecPc
  BY SMT DEF Flip, ExecPc
<1>3. status \in CellStatus
  BY SMT DEF CellStatus
<1>4. \/ \E c \in e.left :
           /\ Put(Owned({c}, e.gen), Cleared(status, NoGen))
           /\ Become(e, [e EXCEPT !.left = e.left \ {c}])
      \/ /\ End(e) \/ Become(e, [e EXCEPT !.pc = "clear"])
         /\ cells' = cells
  BY Zenon DEF Flip
<1>. HIDE DEF status
<1>5. /\ Cleared(status, NoGen) \in CellRow /\ Cleared(status, NoGen).stamp = NoGen
      /\ Cleared(status, NoGen).content = NoGen
  BY <1>3, RowFacts, SMT DEF Stamps
<1>6. ASSUME NEW c \in e.left, Put(Owned({c}, e.gen), Cleared(status, NoGen)),
             Become(e, [e EXCEPT !.left = e.left \ {c}])
      PROVE  Continues(e) /\ Shrinks /\ Loses(e.left, e.gen)
  <2>1. Continues(e)
    BY <1>1, <1>2, <1>6, TreatedFacts, BecomeContinues
  <2>2. {c} \in SUBSET Cell /\ Owned({c}, e.gen) \in SUBSET Cell
    BY <1>1, OwnedFacts
  <2>3. Shrinks
    BY <1>5, <1>6, <2>2, PutShrinks
  <2>4. Loses({c}, e.gen)
    BY <1>5, <1>6, <2>2, PutLoses
  <2>. QED
    BY <2>1, <2>3, <2>4 DEF Loses
<1>7. ASSUME End(e) \/ Become(e, [e EXCEPT !.pc = "clear"]), cells' = cells
      PROVE  Continues(e) /\ Shrinks /\ Loses(e.left, e.gen)
  <2>1. Successor(e, [e EXCEPT !.pc = "clear"])
    BY <1>1, <1>2, MovedFacts
  <2>2. Continues(e)
    BY <1>7, <2>1, BecomeContinues, Zenon
  <2>. QED
    BY <1>7, <2>2, SameCells
<1>. QED
  BY <1>4, <1>6, <1>7, Zenon

LEMMA ClearStampsFacts ==
  ASSUME TypeOK, NEW e \in execs, ClearStamps(e)
  PROVE  Continues(e) /\ Shrinks /\ Loses(e.left, e.gen)
<1>1. e \in Exec /\ cells \in [Cell -> CellRow] /\ NoGen \in Stamps /\ "idle" \in ExecPc
  BY SMT DEF TypeOK, Stamps, ExecPc
<1>2. Become(e, [e EXCEPT !.pc = "idle"])
  BY Zenon DEF ClearStamps
<1>3. Successor(e, [e EXCEPT !.pc = "idle"])
  BY <1>1, MovedFacts
<1>4. Continues(e)
  BY <1>2, <1>3, BecomeContinues, Zenon
<1>5. PICK S : Unstamp(S)
  BY Zenon DEF ClearStamps
<1>6. /\ cells' \in [Cell -> CellRow]
      /\ \A c \in Cell : /\ c \in S => cells'[c] = [cells[c] EXCEPT !.stamp = NoGen]
                         /\ c \notin S => cells'[c] = cells[c]
      /\ \A c \in Cell : /\ cells'[c].stamp = IF c \in S THEN NoGen ELSE cells[c].stamp
                         /\ cells'[c].status = cells[c].status
                         /\ cells'[c].content = cells[c].content
  BY <1>1, <1>5, StampFacts, Zenon
<1>7. \A c \in Cell : (Done(c)' <=> Done(c)) /\ (Done(c) => cells'[c].content # NoGen)
  BY <1>6, Zenon DEF Done
<1>8. \A c \in Cell : cells'[c].stamp = cells[c].stamp \/ cells'[c].stamp = NoGen
  BY <1>6
<1>. QED
  BY <1>4, <1>6, <1>7, <1>8, Zenon DEF Shrinks, Loses

LEMMA LookFacts ==
  ASSUME TypeOK, NEW e \in execs, CheckIdle(e) \/ Release(e) \/ Settle(e) \/ Hook(e)
  PROVE  Continues(e)
<1>1. e \in Exec /\ "release" \in ExecPc /\ "hook" \in ExecPc /\ "flip" \in ExecPc
      /\ "hooked" \in Outcomes
  BY SMT DEF TypeOK, ExecPc, Outcomes
<1>2. CASE CheckIdle(e)
  <2>1. (IdleGen(e.gen) /\ Become(e, [e EXCEPT !.pc = "release"])) \/ AfterRelease(e)
    BY <1>2, Zenon DEF CheckIdle
  <2>2. IdleGen(e.gen) => Successor(e, [e EXCEPT !.pc = "release"])
    BY <1>1, MovedFacts
  <2>. QED
    BY <1>1, <2>1, <2>2, AfterReleaseFacts, BecomeContinues, Zenon
<1>3. CASE Release(e)
  BY <1>1, <1>3, AfterReleaseFacts, Zenon DEF Release
<1>4. CASE Settle(e)
  <2>. DEFINE x1 == [e EXCEPT !.pc = "hook"]
              x == [x1 EXCEPT !.outcome = "hooked"]
  <2>1. End(e) \/ Become(e, x)
    BY <1>4, Zenon DEF Settle
  <2>2. x1 \in Exec
    BY <1>1, ExecSet
  <2>3. x \in Exec
    BY <1>1, <2>2, ExecSet
  <2>4. /\ x.gen = e.gen /\ x.try = e.try /\ x.pc = "hook" /\ x.want = e.want
        /\ x.left = e.left /\ x.outcome = "hooked"
    BY <1>1, SMT DEF Exec
  <2>. HIDE DEF x
  <2>5. Successor(e, x)
    BY <2>3, <2>4 DEF Successor
  <2>. QED
    BY <2>1, <2>5, BecomeContinues, Zenon
<1>5. CASE Hook(e)
  <2>. DEFINE unfinished == {c \in Owned(KeyCells(e.key), e.gen) : ~Done(c)}
              x1 == [e EXCEPT !.pc = "flip"]
              x == [x1 EXCEPT !.left = unfinished]
  <2>1. Become(e, x)
    BY <1>5, Zenon DEF Hook
  <2>2. unfinished \in SUBSET Cell /\ \A c \in unfinished : ~Done(c)
    BY <1>1, ExecFacts, KeyFacts, OwnedFacts
  <2>. HIDE DEF unfinished
  <2>3. x1 \in Exec
    BY <1>1, ExecSet
  <2>4. x \in Exec
    BY <2>2, <2>3, ExecSet
  <2>5. /\ x.gen = e.gen /\ x.try = e.try /\ x.pc = "flip" /\ x.want = e.want
        /\ x.left = unfinished /\ x.outcome = e.outcome
    BY <1>1, SMT DEF Exec
  <2>. HIDE DEF x
  <2>6. Successor(e, x)
    BY <2>2, <2>4, <2>5 DEF Successor
  <2>. QED
    BY <2>1, <2>6, BecomeContinues, Zenon
<1>. QED
  BY <1>2, <1>3, <1>4, <1>5

(* A step of a row extraction, in a worker or inline.                      *)
Extracts(e) == ExecStep(e) \/ Throw(e)

LEMMA ExtractFacts ==
  ASSUME TypeOK, NEW e \in execs, Extracts(e)
  PROVE  /\ Continues(e) /\ Shrinks /\ Loses(e.left, e.gen)
         /\ UNCHANGED <<async, requests, sweep>>
         /\ lease' = lease \/ (e.pc = "release" /\ FinishLease(e.gen))
         /\ jobs' = jobs \/ Settle(e)
<1>. DEFINE Goal == Continues(e) /\ Shrinks /\ Loses(e.left, e.gen)
            Frame == /\ UNCHANGED <<async, requests, sweep>>
                     /\ lease' = lease \/ (e.pc = "release" /\ FinishLease(e.gen))
                     /\ jobs' = jobs \/ Settle(e)
<1>1. CASE Start(e)
  <2>1. Frame /\ cells' = cells
    BY <1>1, Zenon DEF Start
  <2>. QED
    BY <1>1, <2>1, StartFacts, SameCells
<1>2. CASE Mark(e)
  <2>1. Frame
    BY <1>2, Zenon DEF Mark
  <2>. QED
    BY <1>2, <2>1, MarkFacts
<1>3. CASE Answer(e)
  <2>1. Frame
    BY <1>3, Zenon DEF Answer
  <2>. QED
    BY <1>3, <2>1, AnswerFacts
<1>4. CASE EndAnswer(e)
  <2>1. Frame /\ cells' = cells
    BY <1>4, Zenon DEF EndAnswer
  <2>. QED
    BY <1>4, <2>1, EndAnswerFacts, SameCells
<1>5. CASE Flip(e)
  <2>1. Frame
    BY <1>5, Zenon DEF Flip
  <2>. QED
    BY <1>5, <2>1, FlipFacts
<1>6. CASE ClearStamps(e)
  <2>1. Frame
    BY <1>6, Zenon DEF ClearStamps
  <2>. QED
    BY <1>6, <2>1, ClearStampsFacts
<1>7. CASE CheckIdle(e)
  <2>1. Frame /\ cells' = cells
    BY <1>7, Zenon DEF CheckIdle
  <2>. QED
    BY <1>7, <2>1, LookFacts, SameCells
<1>8. CASE Release(e)
  <2>1. Frame /\ cells' = cells
    BY <1>8, Zenon DEF Release
  <2>. QED
    BY <1>8, <2>1, LookFacts, SameCells
<1>9. CASE Settle(e)
  <2>1. Frame /\ cells' = cells
    BY <1>9, Zenon DEF Settle
  <2>. QED
    BY <1>9, <2>1, LookFacts, SameCells
<1>10. CASE Hook(e)
  <2>1. Frame /\ cells' = cells
    BY <1>10, Zenon DEF Hook
  <2>. QED
    BY <1>10, <2>1, LookFacts, SameCells
<1>11. CASE Throw(e)
  <2>1. Frame /\ cells' = cells /\ Become(e, Throwing(e))
    BY <1>11, Zenon DEF Throw
  <2>2. e \in Exec
    BY DEF TypeOK
  <2>3. Continues(e)
    BY <2>1, <2>2, ThrowingFacts, BecomeContinues
  <2>. QED
    BY <2>1, <2>3, SameCells
<1>. QED
  BY <1>1, <1>2, <1>3, <1>4, <1>5, <1>6, <1>7, <1>8, <1>9, <1>10, <1>11,
     Zenon DEF Extracts, ExecStep

-----------------------------------------------------------------------------
(* The steps in groups, and what each group leaves alone.                  *)

Begins(g)   == BeginGenerate(g) \/ BeginRegenerate(g) \/ BeginClear(g)
Chooses(g)  == Load(g) \/ GiveUp(g)
Stamping(g) == ClaimCells(g) \/ StampCell(g)
Times       == Lapse \/ LapseHung \/ Renew
Starts(k)   == Claim(k) \/ Reclaim(k) \/ ReclaimHung(k)

Requests(g) ==
  \/ Begins(g) \/ Chooses(g) \/ Stamping(g) \/ BlankCells(g)
  \/ RequestMoves(g) \/ Dies(g)

LEMMA Groups ==
  ASSUME [Next]_vars
  PROVE  \/ \E g \in Gen : Requests(g)
         \/ Times
         \/ \E k \in JobKey : Starts(k)
         \/ \E e \in execs : Extracts(e) \/ CrashWorker(e)
         \/ SweepStep
         \/ vars' = vars
<1>1. \A g : RequestStep(g) => Requests(g)
  BY Zenon DEF RequestStep, Requests, Chooses, Stamping, RequestMoves
<1>2. \A g : BeginGenerate(g) \/ BeginRegenerate(g) \/ BeginClear(g) \/ GiveUp(g)
             \/ Abort(g) \/ RowFails(g) \/ CrashRequest(g) => Requests(g)
  BY Zenon DEF Requests, Begins, Chooses, RequestMoves, Dies
<1>. QED
  BY <1>1, <1>2, Zenon DEF Next, Times, Starts, Extracts

LEMMA BeginsFacts ==
  ASSUME NEW g \in Gen, Begins(g)
  PROVE  /\ UNCHANGED <<async, cells, jobs, execs, sweep>>
         /\ \E kind : \E target \in SUBSET Cell : Begin(g, kind, target)
<1>1. \E kind : \E target \in SUBSET Cell : Begin(g, kind, target)
  <2>1. CASE BeginGenerate(g)
    BY <2>1 DEF BeginGenerate
  <2>2. CASE BeginRegenerate(g)
    BY <2>2 DEF BeginRegenerate
  <2>3. CASE BeginClear(g)
    <3>1. PICK R : Begin(g, "clear", {c \in Cell : c[1] \in R})
      BY <2>3, Zenon DEF BeginClear
    <3>2. {c \in Cell : c[1] \in R} \in SUBSET Cell
      OBVIOUS
    <3>. QED
      BY <3>1, <3>2
  <2>. QED
    BY <2>1, <2>2, <2>3, Zenon DEF Begins
<1>2. \A kind, target : Begin(g, kind, target) =>
        UNCHANGED <<async, cells, jobs, execs, sweep>>
  BY Zenon DEF Begin
<1>. QED
  BY <1>1, <1>2

LEMMA WriteFrame ==
  ASSUME NEW g
  PROVE  /\ Chooses(g) => UNCHANGED <<async, lease, cells, jobs, execs, sweep>>
         /\ Stamping(g) => UNCHANGED <<async, lease, jobs, sweep>>
         /\ BlankCells(g) => UNCHANGED <<async, lease, jobs, execs, sweep>>
         /\ Dies(g) => /\ UNCHANGED <<async, lease, cells, jobs, sweep>>
                       /\ execs' \subseteq execs
<1>1. Chooses(g) => UNCHANGED <<async, lease, cells, jobs, execs, sweep>>
  BY Zenon DEF Chooses, Load, GiveUp
<1>2. Stamping(g) => UNCHANGED <<async, lease, jobs, sweep>>
  BY Zenon DEF Stamping, ClaimCells, StampCell
<1>3. BlankCells(g) => UNCHANGED <<async, lease, jobs, execs, sweep>>
  BY Zenon DEF BlankCells
<1>4. CrashRequest(g) => /\ UNCHANGED <<async, lease, cells, jobs, sweep>>
                         /\ execs' = {e \in execs : ~(Inline(e) /\ e.gen = g)}
  BY Zenon DEF CrashRequest
<1>5. RowFails(g) => /\ UNCHANGED <<async, lease, cells, jobs, sweep>>
                     /\ \E e \in execs : execs' = execs \ {e}
  BY Zenon DEF RowFails
<1>6. {e \in execs : ~(Inline(e) /\ e.gen = g)} \subseteq execs
      /\ \A e : execs \ {e} \subseteq execs
  OBVIOUS
<1>. QED
  BY <1>1, <1>2, <1>3, <1>4, <1>5, <1>6, Zenon DEF Dies

LEMMA MoveFrame ==
  ASSUME NEW g, RequestMoves(g)
  PROVE  /\ UNCHANGED <<async, execs, sweep>>
         /\ cells' = cells \/ UndoCell(g)
         /\ lease' = lease \/ (requests[g].pc = "finish" /\ FinishLease(g))
         /\ jobs' = jobs \/ CancelJobs(g) \/ \E k \in JobKey : Enqueue(g, k)
<1>1. CASE CancelJobs(g)
  BY <1>1, Zenon DEF CancelJobs
<1>2. CASE UndoCell(g)
  BY <1>2, Zenon DEF UndoCell
<1>3. CASE FinishRequest(g)
  BY <1>3, Zenon DEF FinishRequest
<1>4. CASE HandOver(g)
  BY <1>4, Zenon DEF HandOver
<1>5. CASE Abort(g)
  BY <1>5, Zenon DEF Abort
<1>6. CASE InlineOver(g)
  BY <1>6, Zenon DEF InlineOver
<1>7. ASSUME NEW k \in JobKey, Enqueue(g, k)
      PROVE  UNCHANGED <<async, execs, sweep, cells, lease>>
  BY <1>7, Zenon DEF Enqueue
<1>. QED
  BY <1>1, <1>2, <1>3, <1>4, <1>5, <1>6, <1>7, Zenon DEF RequestMoves

LEMMA OtherFrame ==
  /\ Times => UNCHANGED <<async, cells, requests, jobs, execs, sweep>>
  /\ \A k : Starts(k) => UNCHANGED <<async, lease, cells, requests, sweep>>
  /\ \A e : CrashWorker(e) => /\ UNCHANGED <<async, lease, cells, requests, jobs, sweep>>
                              /\ execs' \subseteq execs
  /\ SweepStep => /\ UNCHANGED <<async, requests, jobs, execs>>
                  /\ cells' = cells \/ SweepFlip
                  /\ lease' = lease \/ SweepRelease
<1>1. Times => UNCHANGED <<async, cells, requests, jobs, execs, sweep>>
  BY Zenon DEF Times, Lapse, LapseHung, Renew
<1>2. \A k : Starts(k) => UNCHANGED <<async, lease, cells, requests, sweep>>
  BY Zenon DEF Starts, Claim, Reclaim, ReclaimHung
<1>3. \A e : CrashWorker(e) => /\ UNCHANGED <<async, lease, cells, requests, jobs, sweep>>
                               /\ execs' = execs \ {e}
  BY Zenon DEF CrashWorker
<1>4. SweepStep => /\ UNCHANGED <<async, requests, jobs, execs>>
                   /\ cells' = cells \/ SweepFlip
                   /\ lease' = lease \/ SweepRelease
  BY Zenon DEF SweepStep, SweepRead, SweepLease, SweepLook, SweepFlip, SweepIdle,
               SweepRelease
<1>. QED
  BY <1>1, <1>2, <1>3, <1>4

LEMMA FaultsStep ==
  ASSUME TypeOK, [Next]_vars
  PROVE  faults' \in 0..MaxFaults
<1>1. faults \in 0..MaxFaults /\ MaxFaults \in Nat
  BY ConstAssumption DEF TypeOK
<1>2. Fault => faults' \in 0..MaxFaults
  BY <1>1, SMT DEF Fault
<1>3. ASSUME NEW g \in Gen, Requests(g)
      PROVE  Fault \/ faults' = faults
  <2>1. Begins(g) => faults' = faults
    BY Zenon DEF Begins, BeginGenerate, BeginRegenerate, BeginClear, Begin
  <2>2. Chooses(g) \/ Stamping(g) \/ BlankCells(g) \/ Dies(g)
        => Fault \/ faults' = faults
    BY Zenon DEF Chooses, Load, GiveUp, Stamping, ClaimCells, StampCell, BlankCells,
                 Dies, CrashRequest, RowFails
  <2>3. RequestMoves(g) => Fault \/ faults' = faults
    BY Zenon DEF RequestMoves, CancelJobs, UndoCell, FinishRequest, HandOver, Abort,
                 InlineOver, Enqueue, NoFault
  <2>. QED
    BY <1>3, <2>1, <2>2, <2>3, Zenon DEF Requests
<1>4. Times => Fault \/ faults' = faults
  BY Zenon DEF Times, Lapse, LapseHung, Renew
<1>5. \A k : Starts(k) => Fault \/ faults' = faults
  BY Zenon DEF Starts, Claim, Reclaim, ReclaimHung
<1>6. ASSUME NEW e \in execs, Extracts(e) \/ CrashWorker(e)
      PROVE  Fault \/ faults' = faults
  <2>1. Start(e) \/ Mark(e) \/ Answer(e) \/ Flip(e) \/ ClearStamps(e) => faults' = faults
    BY Zenon DEF Start, Mark, Answer, Flip, ClearStamps
  <2>2. CheckIdle(e) \/ Release(e) \/ Settle(e) \/ Hook(e) => faults' = faults
    BY Zenon DEF CheckIdle, Release, Settle, Hook
  <2>3. EndAnswer(e) \/ Throw(e) \/ CrashWorker(e) => Fault \/ faults' = faults
    BY Zenon DEF EndAnswer, Throw, CrashWorker, NoFault
  <2>. QED
    BY <1>6, <2>1, <2>2, <2>3, Zenon DEF Extracts, ExecStep
<1>7. SweepStep => faults' = faults
  BY Zenon DEF SweepStep, SweepRead, SweepLease, SweepLook, SweepFlip, SweepIdle,
               SweepRelease
<1>8. vars' = vars => faults' = faults
  BY Zenon DEF vars
<1>. QED
  BY <1>1, <1>2, <1>3, <1>4, <1>5, <1>6, <1>7, <1>8, Groups, Zenon

-----------------------------------------------------------------------------
(* What every step does to each variable.                                  *)

(* What a request has written, and as which kind, is settled.              *)
Frozen ==
  \A g \in Gen : requests[g].wrote =>
    /\ requests'[g].wrote /\ requests'[g].target = requests[g].target
    /\ requests'[g].kind = requests[g].kind

Advances(r, s) ==
  /\ Placed(s)
  /\ r.wrote => s.wrote /\ s.target = r.target /\ s.kind = r.kind

LEMMA RequestStepFacts ==
  ASSUME TypeOK, Progress, NEW g \in Gen, Requests(g)
  PROVE  Request1(g) /\ Advances(requests[g], requests'[g])
<1>1. Placed(requests[g])
  BY DEF Progress
<1>2. CASE Begins(g)
  <2>1. PICK kind : \E target \in SUBSET Cell : Begin(g, kind, target)
    BY <1>2, BeginsFacts
  <2>2. PICK target \in SUBSET Cell : Begin(g, kind, target)
    BY <2>1
  <2>3. /\ Request1(g) /\ requests'[g].pc = "begun" /\ requests[g].pc = "none"
        /\ requests'[g].wrote = requests[g].wrote
    BY <2>2, BeginFacts
  <2>. QED
    BY <1>1, <2>3, SMT DEF Placed, Advances
<1>3. CASE Chooses(g)
  <2>1. /\ Request1(g) /\ requests'[g].kind = requests[g].kind
        /\ requests'[g].pc \in {"finish", "loaded"}
        /\ requests'[g].wrote = requests[g].wrote
        /\ requests[g].pc \in {"begun", "loaded"}
    BY <1>3, ChooseFacts DEF Chooses
  <2>. QED
    BY <1>1, <2>1, SMT DEF Placed, Advances
<1>4. CASE Stamping(g) \/ BlankCells(g)
  <2>1. /\ Request1(g) /\ requests'[g].kind = requests[g].kind
        /\ requests'[g].target = requests[g].target /\ requests'[g].wrote
        /\ requests[g].pc \in {"begun", "loaded"}
        /\ requests'[g].pc \in {"queue", "inline", "finish"}
    BY <1>4, WriteFacts DEF Stamping
  <2>. QED
    BY <1>1, <2>1, SMT DEF Placed, Advances
<1>5. CASE RequestMoves(g)
  <2>1. /\ Request1(g) /\ requests'[g].kind = requests[g].kind
        /\ requests'[g].target = requests[g].target
        /\ requests'[g].wrote = requests[g].wrote
        /\ Route(requests[g].pc, requests[g].kind, requests'[g].pc)
    BY <1>5, RequestMoveFacts
  <2>. QED
    BY <1>1, <2>1, SMT DEF Placed, Advances, Route
<1>6. CASE Dies(g)
  <2>1. /\ Request1(g) /\ requests'[g].kind = requests[g].kind
        /\ requests'[g].wrote = requests[g].wrote
        /\ requests[g].wrote => requests'[g].target = requests[g].target
        /\ \/ requests'[g].pc \in {"finish", "over"}
           \/ requests'[g].pc = requests[g].pc
    BY <1>6, DiesFacts
  <2>. QED
    BY <1>1, <2>1, SMT DEF Placed, Advances
<1>. QED
  BY <1>2, <1>3, <1>4, <1>5, <1>6, Zenon DEF Requests

LEMMA OnlyRequests ==
  ASSUME [Next]_vars
  PROVE  (\E g \in Gen : Requests(g)) \/ requests' = requests
<1>1. ASSUME NEW e \in execs, Extracts(e)
      PROVE  requests' = requests
  BY <1>1, Zenon DEF Extracts, ExecStep, Start, Mark, Answer, EndAnswer, Flip,
                     ClearStamps, CheckIdle, Release, Settle, Hook, Throw
<1>2. vars' = vars => requests' = requests
  BY Zenon DEF vars
<1>. QED
  BY <1>1, <1>2, Groups, OtherFrame, Zenon

LEMMA RequestsStep ==
  ASSUME TypeOK, Progress, [Next]_vars
  PROVE  requests' \in [Gen -> Request] /\ Progress' /\ Frozen
<1>1. CASE requests' = requests
  BY <1>1, Zenon DEF TypeOK, Progress, Frozen
<1>2. ASSUME NEW g \in Gen, Requests(g)
      PROVE  requests' \in [Gen -> Request] /\ Progress' /\ Frozen
  <2>1. Request1(g) /\ Advances(requests[g], requests'[g])
    BY <1>2, RequestStepFacts
  <2>2. \A h \in Gen : h = g \/ requests'[h] = requests[h]
    BY <2>1 DEF Request1
  <2>. QED
    BY <2>1, <2>2, Zenon DEF Request1, Advances, Progress, Frozen
<1>. QED
  BY <1>1, <1>2, OnlyRequests

LEMMA StaysWritten ==
  ASSUME Frozen
  PROVE  Written \subseteq Written'
BY Zenon DEF Frozen, Written

(* The lease is released by who names its holder, or moves in time.        *)
LEMMA LeaseStep ==
  ASSUME TypeOK, Authors, [Next]_vars
  PROVE  lease' \in [holder : Gen \cup {NoGen}, live : BOOLEAN]
<1>. DEFINE Lease == [holder : Gen \cup {NoGen}, live : BOOLEAN]
<1>1. lease \in Lease
  BY DEF TypeOK
<1>2. \A g : FinishLease(g) => lease' \in Lease
  <2>1. NoLease \in Lease
    BY DEF NoLease
  <2>. QED
    BY <1>1, <2>1, Zenon DEF FinishLease
<1>3. ASSUME NEW g \in Gen, Requests(g)
      PROVE  lease' \in Lease
  <2>1. CASE Begins(g)
    <3>1. PICK kind : \E target \in SUBSET Cell : Begin(g, kind, target)
      BY <2>1, BeginsFacts
    <3>2. lease' = [holder |-> g, live |-> TRUE]
      BY <3>1, Zenon DEF Begin
    <3>. QED
      BY <3>2
  <2>2. CASE RequestMoves(g)
    BY <1>1, <1>2, <2>2, MoveFrame, Zenon
  <2>. QED
    BY <1>1, <1>3, <2>1, <2>2, WriteFrame, Zenon DEF Requests
<1>4. CASE Times
  <2>1. lease' = [lease EXCEPT !.live = FALSE] \/ lease' = [lease EXCEPT !.live = TRUE]
    BY <1>4, Zenon DEF Times, Lapse, LapseHung, Renew
  <2>2. [lease EXCEPT !.live = FALSE] \in Lease
    BY <1>1
  <2>3. [lease EXCEPT !.live = TRUE] \in Lease
    BY <1>1
  <2>. QED
    BY <2>1, <2>2, <2>3, Zenon
<1>5. ASSUME NEW e \in execs, Extracts(e)
      PROVE  lease' \in Lease
  BY <1>1, <1>2, <1>5, ExtractFacts, Zenon
<1>6. CASE SweepStep
  BY <1>1, <1>2, <1>6, OtherFrame, Zenon DEF SweepRelease
<1>7. vars' = vars => lease' = lease
  BY Zenon DEF vars
<1>. QED
  BY <1>1, <1>3, <1>4, <1>5, <1>6, <1>7, Groups, OtherFrame, Zenon

(* A job row that is there belongs to a generation that has written, and   *)
(* has a try left while it waits.                                          *)
Owed(j) ==
  /\ j \in Job
  /\ j.status # "none" => j.gen \in Written
  /\ j.status = "pending" => j.tries < MaxTries

LEMMA OwedFacts ==
  ASSUME TypeInv
  PROVE  /\ \A k \in JobKey : Owed(jobs[k])
         /\ Owed(NoJob)
         /\ jobs \in [JobKey -> Job]
<1>1. NoJob \in Job /\ NoJob.status = "none"
  BY GenFacts, SMT DEF NoJob, Job, NoGen
<1>. QED
  BY <1>1 DEF TypeInv, TypeOK, Authors, Budget, Owed

LEMMA JobFacts ==
  ASSUME NEW j \in Job
  PROVE  /\ j.gen \in Stamps /\ j.tries \in 0..MaxTries
         /\ j.status \in {"none", "pending", "running"} /\ j.canceled \in BOOLEAN
         /\ \A x \in {"none", "pending", "running"} :
              /\ [j EXCEPT !.status = x] \in Job /\ [j EXCEPT !.status = x].status = x
              /\ [j EXCEPT !.status = x].gen = j.gen
              /\ [j EXCEPT !.status = x].tries = j.tries
         /\ [j EXCEPT !.canceled = TRUE] \in Job
         /\ [j EXCEPT !.canceled = TRUE].status = j.status
         /\ [j EXCEPT !.canceled = TRUE].gen = j.gen
         /\ [j EXCEPT !.canceled = TRUE].tries = j.tries
         /\ \A x \in 0..MaxTries :
              /\ [j EXCEPT !.tries = x] \in Job /\ [j EXCEPT !.tries = x].tries = x
              /\ [j EXCEPT !.tries = x].gen = j.gen
              /\ [j EXCEPT !.tries = x].status = j.status
              /\ [j EXCEPT !.tries = x].canceled = j.canceled
<1>1. \A x \in {"none", "pending", "running"} :
        /\ [j EXCEPT !.status = x] \in Job /\ [j EXCEPT !.status = x].status = x
        /\ [j EXCEPT !.status = x].gen = j.gen
        /\ [j EXCEPT !.status = x].tries = j.tries
  <2>1. \A x \in {"none", "pending", "running"} : [j EXCEPT !.status = x] \in Job
    BY SMT DEF Job
  <2>2. \A x : /\ [j EXCEPT !.status = x].status = x
               /\ [j EXCEPT !.status = x].gen = j.gen
               /\ [j EXCEPT !.status = x].tries = j.tries
    BY SMT DEF Job
  <2>. QED
    BY <2>1, <2>2, Zenon
<1>2. /\ [j EXCEPT !.canceled = TRUE] \in Job
      /\ [j EXCEPT !.canceled = TRUE].status = j.status
      /\ [j EXCEPT !.canceled = TRUE].gen = j.gen
      /\ [j EXCEPT !.canceled = TRUE].tries = j.tries
  <2>1. \A x \in BOOLEAN : [j EXCEPT !.canceled = x] \in Job
    BY SMT DEF Job
  <2>2. \A x : /\ [j EXCEPT !.canceled = x].status = j.status
               /\ [j EXCEPT !.canceled = x].gen = j.gen
               /\ [j EXCEPT !.canceled = x].tries = j.tries
    BY SMT DEF Job
  <2>3. TRUE \in BOOLEAN
    OBVIOUS
  <2>. QED
    BY <2>1, <2>2, <2>3, Zenon
<1>3. \A x \in 0..MaxTries :
        /\ [j EXCEPT !.tries = x] \in Job /\ [j EXCEPT !.tries = x].tries = x
        /\ [j EXCEPT !.tries = x].gen = j.gen
        /\ [j EXCEPT !.tries = x].status = j.status
        /\ [j EXCEPT !.tries = x].canceled = j.canceled
  <2>1. \A x \in 0..MaxTries : [j EXCEPT !.tries = x] \in Job
    BY SMT DEF Job
  <2>2. \A x : /\ [j EXCEPT !.tries = x].tries = x
               /\ [j EXCEPT !.tries = x].gen = j.gen
               /\ [j EXCEPT !.tries = x].status = j.status
               /\ [j EXCEPT !.tries = x].canceled = j.canceled
    BY SMT DEF Job
  <2>. QED
    BY <2>1, <2>2, Zenon
<1>4. /\ j.gen \in Stamps /\ j.tries \in 0..MaxTries
      /\ j.status \in {"none", "pending", "running"} /\ j.canceled \in BOOLEAN
  BY SMT DEF Job, Stamps
<1>. QED
  BY <1>1, <1>2, <1>3, <1>4

LEMMA RunFacts ==
  ASSUME NEW j \in Job, NEW n \in 0..MaxTries
  PROVE  LET r == [[j EXCEPT !.status = "running"] EXCEPT !.tries = n] IN
         r \in Job /\ r.status = "running" /\ r.gen = j.gen /\ r.tries = n
<1>. DEFINE i == [j EXCEPT !.status = "running"]
            r == [i EXCEPT !.tries = n]
<1>1. "running" \in {"none", "pending", "running"}
  OBVIOUS
<1>2. i \in Job
  BY <1>1, JobFacts, Zenon
<1>3. r \in Job
  <2>. HIDE DEF i
  <2>1. \A x \in 0..MaxTries : [i EXCEPT !.tries = x] \in Job
    BY <1>2, SMT DEF Job
  <2>. QED
    BY <2>1, Zenon
<1>4. r.status = "running" /\ r.gen = j.gen /\ r.tries = n
  BY SMT DEF Job
<1>. QED
  BY <1>3, <1>4, Zenon

JobsOwed == jobs' \in [JobKey -> Job] /\ \A k \in JobKey : Owed(jobs'[k])

LEMMA JobTo ==
  ASSUME TypeInv, NEW k \in JobKey, NEW j, Owed(j), jobs' = [jobs EXCEPT ![k] = j]
  PROVE  JobsOwed
<1>1. j \in Job /\ jobs \in [JobKey -> Job] /\ \A l \in JobKey : Owed(jobs[l])
  BY OwedFacts DEF Owed
<1>2. /\ jobs' \in [JobKey -> Job]
      /\ \A l \in JobKey : jobs'[l] = IF l = k THEN j ELSE jobs[l]
  BY <1>1
<1>. QED
  BY <1>1, <1>2, Zenon DEF JobsOwed

LEMMA CancelFacts ==
  ASSUME TypeInv, NEW g \in Gen, CancelJobs(g)
  PROVE  JobsOwed
<1>. DEFINE hit == {k \in JobKey : KeyCells(k) \cap requests[g].target # {}}
            canceled(k) == IF jobs[k].status = "running"
                           THEN [jobs[k] EXCEPT !.canceled = TRUE] ELSE NoJob
<1>1. \/ jobs' = [k \in JobKey |-> IF k \in hit THEN canceled(k) ELSE jobs[k]]
      \/ jobs' = jobs
  BY Zenon DEF CancelJobs
<1>2. /\ \A k \in JobKey : Owed(jobs[k])
      /\ Owed(NoJob)
      /\ jobs \in [JobKey -> Job]
  BY OwedFacts
<1>3. ASSUME NEW k \in JobKey
      PROVE  Owed(canceled(k))
  <2>1. Owed([jobs[k] EXCEPT !.canceled = TRUE])
    <3>. DEFINE j == jobs[k]
                x == [j EXCEPT !.canceled = TRUE]
    <3>1. j \in Job /\ Owed(j)
      BY <1>2 DEF Owed
    <3>. HIDE DEF j
    <3>2. x \in Job /\ x.status = j.status /\ x.gen = j.gen /\ x.tries = j.tries
      BY <3>1, JobFacts, Zenon
    <3>. HIDE DEF x
    <3>3. Owed(x)
      BY <3>1, <3>2 DEF Owed
    <3>. QED
      BY <3>3 DEF x, j
  <2>. QED
    BY <1>2, <2>1, Zenon
<1>. HIDE DEF hit, canceled
<1>4. \A k \in JobKey : Owed(canceled(k)) /\ Owed(jobs[k])
                        /\ canceled(k) \in Job /\ jobs[k] \in Job
  BY <1>2, <1>3 DEF Owed
<1>5. CASE jobs' = jobs
  BY <1>2, <1>5, Zenon DEF JobsOwed
<1>6. CASE jobs' = [k \in JobKey |-> IF k \in hit THEN canceled(k) ELSE jobs[k]]
  <2>1. jobs' \in [JobKey -> Job]
    BY <1>4, <1>6
  <2>2. \A k \in JobKey : jobs'[k] = canceled(k) \/ jobs'[k] = jobs[k]
    BY <1>6
  <2>. QED
    BY <1>4, <2>1, <2>2, Zenon DEF JobsOwed
<1>. QED
  BY <1>1, <1>5, <1>6

LEMMA EnqueueFacts ==
  ASSUME TypeInv, NEW g \in Gen, NEW k \in JobKey, Enqueue(g, k)
  PROVE  JobsOwed
<1>. DEFINE j == [gen |-> g, status |-> "pending", tries |-> 0, canceled |-> FALSE]
<1>1. requests[g].pc = "queue" /\ (jobs' = [jobs EXCEPT ![k] = j] \/ jobs' = jobs)
  BY Zenon DEF Enqueue
<1>2. g \in Written
  BY <1>1 DEF TypeInv, Progress, Placed, Written
<1>3. j \in Job /\ j.gen = g /\ j.tries < MaxTries
  BY GenFacts, ConstAssumption, SMT DEF Job
<1>. HIDE DEF j
<1>4. Owed(j)
  BY <1>2, <1>3 DEF Owed
<1>5. jobs' = jobs => JobsOwed
  BY OwedFacts, Zenon DEF JobsOwed
<1>. QED
  BY <1>1, <1>4, <1>5, JobTo

LEMMA SettleFacts ==
  ASSUME TypeInv, NEW e \in execs, Settle(e)
  PROVE  JobsOwed
<1>1. e \in Exec /\ e.key \in JobKey /\ \A k \in JobKey : Owed(jobs[k])
  BY ExecFacts, OwedFacts DEF TypeInv, TypeOK
<1>2. \/ jobs' = jobs
      \/ /\ Current(e) /\ e.outcome = "retry"
         /\ jobs' = [jobs EXCEPT ![e.key] = [jobs[e.key] EXCEPT !.status = "pending"]]
      \/ jobs' = [jobs EXCEPT ![e.key] = NoJob]
  BY Zenon DEF Settle
<1>3. jobs' = jobs => JobsOwed
  BY OwedFacts, Zenon DEF JobsOwed
<1>4. jobs' = [jobs EXCEPT ![e.key] = NoJob] => JobsOwed
  BY <1>1, OwedFacts, JobTo
<1>5. ASSUME Current(e), e.outcome = "retry"
      PROVE  Owed([jobs[e.key] EXCEPT !.status = "pending"])
  <2>1. jobs[e.key].status = "running" /\ jobs[e.key].tries = e.try
    BY <1>5, Zenon DEF Current
  <2>2. e.try < MaxTries
    BY <1>5 DEF TypeInv, Budget
  <2>3. jobs[e.key].gen \in Written
    BY <1>1, <2>1, SMT DEF Owed
  <2>4. jobs[e.key] \in Job /\ "pending" \in {"none", "pending", "running"}
    BY <1>1 DEF Owed
  <2>. DEFINE j == jobs[e.key]
              x == [j EXCEPT !.status = "pending"]
  <2>5. x \in Job /\ x.status = "pending" /\ x.gen = j.gen /\ x.tries = j.tries
    BY <2>4, JobFacts, Zenon
  <2>. HIDE DEF x
  <2>6. Owed(x)
    BY <2>1, <2>2, <2>3, <2>5 DEF Owed
  <2>. QED
    BY <2>6 DEF x
<1>. QED
  BY <1>1, <1>2, <1>3, <1>4, <1>5, JobTo

(* A claimed job runs for a generation that has written.                   *)
Claimed(x) ==
  /\ x \in Exec /\ x.gen \in Written /\ ~Inline(x) /\ x.pc = "start"
  /\ x.outcome = "none" /\ x.want = {} /\ x.left = {}

LEMMA StartsFacts ==
  ASSUME TypeInv, NEW k \in JobKey, Starts(k)
  PROVE  JobsOwed /\ \A x \in execs' : x \in execs \/ Claimed(x)
<1>. DEFINE j1 == [jobs[k] EXCEPT !.status = "running"]
            j == [j1 EXCEPT !.tries = jobs[k].tries + 1]
            x == NewExec(k, j.gen, j.tries, j.canceled)
<1>1. /\ jobs[k] \in Job /\ Owed(jobs[k]) /\ Owed(NoJob)
      /\ "running" \in {"none", "pending", "running"}
  BY OwedFacts DEF Owed
<1>2. jobs[k].status \in {"pending", "running"}
  BY Zenon DEF Starts, Claim, Reclaim, ReclaimHung
<1>3. jobs[k].gen \in Written /\ jobs[k].gen \in Gen
  BY <1>1, <1>2, SMT DEF Owed, Written
<1>4. \/ /\ jobs[k].tries < MaxTries
         /\ StartJob(k)
      \/ jobs' = [jobs EXCEPT ![k] = NoJob] /\ execs' = execs
  <2>1. CASE Claim(k)
    BY <1>1, <2>1, SMT DEF Claim, Owed
  <2>2. CASE Reclaim(k) \/ ReclaimHung(k)
    BY <2>2, Zenon DEF Reclaim, ReclaimHung
  <2>. QED
    BY <2>1, <2>2, Zenon DEF Starts
<1>5. ASSUME jobs[k].tries < MaxTries, StartJob(k)
      PROVE  JobsOwed /\ \A y \in execs' : y \in execs \/ Claimed(y)
  <2>1. jobs' = [jobs EXCEPT ![k] = j] /\ execs' = execs \cup {x}
    BY <1>5, Zenon DEF StartJob
  <2>2. jobs[k].tries \in 0..MaxTries
    BY <1>1, JobFacts
  <2>3. jobs[k].tries + 1 \in 0..MaxTries /\ jobs[k].tries + 1 # 0
    BY <1>5, <2>2, GenFacts
  <2>4. jobs[k].tries + 1 \in 0..MaxTries
    BY <2>3
  <2>5. /\ j \in Job /\ j.status = "running" /\ j.gen = jobs[k].gen
        /\ j.tries = jobs[k].tries + 1
    BY <1>1, <2>4, RunFacts
  <2>6. j.canceled \in BOOLEAN
    BY <2>5, JobFacts
  <2>. HIDE DEF j
  <2>7. Owed(j)
    BY <1>3, <2>5 DEF Owed
  <2>8. x \in Exec
    BY <1>3, <2>3, <2>5, <2>6, SMT DEF NewExec, Exec
  <2>9. /\ x.gen = jobs[k].gen /\ x.try # 0 /\ x.pc = "start" /\ x.outcome = "none"
        /\ x.want = {} /\ x.left = {}
    BY <2>3, <2>5, SMT DEF NewExec
  <2>. HIDE DEF x
  <2>10. Claimed(x)
    BY <1>3, <2>8, <2>9, Zenon DEF Claimed, Inline
  <2>11. JobsOwed
    BY <2>1, <2>7, JobTo
  <2>. QED
    BY <2>1, <2>10, <2>11
<1>6. CASE jobs' = [jobs EXCEPT ![k] = NoJob] /\ execs' = execs
  <2>1. JobsOwed
    BY <1>1, <1>6, JobTo
  <2>. QED
    BY <1>6, <2>1
<1>. QED
  BY <1>4, <1>5, <1>6

LEMMA JobsStep ==
  ASSUME TypeInv, [Next]_vars
  PROVE  JobsOwed
<1>1. jobs' = jobs => JobsOwed
  BY OwedFacts, Zenon DEF JobsOwed
<1>2. ASSUME NEW g \in Gen, Requests(g)
      PROVE  JobsOwed
  <2>1. CASE Begins(g)
    BY <1>1, <2>1, BeginsFacts
  <2>2. CASE RequestMoves(g)
    BY <1>1, <2>2, MoveFrame, CancelFacts, EnqueueFacts
  <2>. QED
    BY <1>1, <1>2, <2>1, <2>2, WriteFrame, Zenon DEF Requests
<1>3. ASSUME NEW e \in execs, Extracts(e)
      PROVE  JobsOwed
  <2>1. TypeOK
    BY DEF TypeInv
  <2>. QED
    BY <1>1, <1>3, <2>1, ExtractFacts, SettleFacts
<1>4. vars' = vars => jobs' = jobs
  BY Zenon DEF vars
<1>. QED
  BY <1>1, <1>2, <1>3, <1>4, Groups, OtherFrame, StartsFacts, Zenon

(* Inline, a request starts the extractions itself when it stamps its cells. *)
Inlined(x, g) ==
  ~async /\ x \in Exec /\ x.gen = g /\ x.outcome = "none" /\ x.pc # "release"

LEMMA StampingExecs ==
  ASSUME TypeOK, NEW g \in Gen, Stamping(g)
  PROVE  \A x \in execs' : x \in execs \/ Inlined(x, g)
<1>1. requests[g].target \in SUBSET Cell /\ 0 \in 0..MaxTries
  BY RequestFacts, GenFacts, SMT DEF TypeOK
<1>2. ASSUME NEW k \in JobKey
      PROVE  /\ NewExec(k, g, 0, FALSE) \in Exec
             /\ NewExec(k, g, 0, FALSE).gen = g
             /\ NewExec(k, g, 0, FALSE).outcome = "none"
             /\ NewExec(k, g, 0, FALSE).pc = "start"
  BY <1>1, SMT DEF NewExec, Exec
<1>3. CASE ClaimCells(g)
  <2>1. execs' = IF async THEN execs
                 ELSE execs \cup {NewExec(k, g, 0, FALSE) :
                                    k \in {<<c[1], AllColumns>> : c \in requests[g].target}}
    BY <1>3, Zenon DEF ClaimCells
  <2>2. ASSUME NEW x \in execs', x \notin execs
        PROVE  Inlined(x, g)
    <3>1. ~async /\ \E c \in requests[g].target : x = NewExec(<<c[1], AllColumns>>, g, 0, FALSE)
      BY <2>1, <2>2
    <3>2. PICK c \in requests[g].target : x = NewExec(<<c[1], AllColumns>>, g, 0, FALSE)
      BY <3>1
    <3>3. <<c[1], AllColumns>> \in JobKey
      BY <1>1, CellKeys
    <3>4. "start" # "release"
      OBVIOUS
    <3>. QED
      BY <1>2, <3>1, <3>2, <3>3, <3>4, Zenon DEF Inlined
  <2>. QED
    BY <2>2
<1>4. CASE StampCell(g)
  <2>1. execs' = IF async THEN execs
                 ELSE execs \cup {[NewExec(c, g, 0, FALSE) EXCEPT
                        !.pc = "ask", !.want = {c}, !.left = {c}] : c \in requests[g].target}
    BY <1>4, Zenon DEF StampCell
  <2>2. ASSUME NEW x \in execs', x \notin execs
        PROVE  Inlined(x, g)
    <3>1. ~async /\ \E c \in requests[g].target :
            x = [NewExec(c, g, 0, FALSE) EXCEPT !.pc = "ask", !.want = {c}, !.left = {c}]
      BY <2>1, <2>2, Zenon
    <3>2. PICK c \in requests[g].target :
            x = [NewExec(c, g, 0, FALSE) EXCEPT !.pc = "ask", !.want = {c}, !.left = {c}]
      BY <3>1, Zenon
    <3>. DEFINE y == NewExec(c, g, 0, FALSE)
                y1 == [y EXCEPT !.pc = "ask"]
                y2 == [y1 EXCEPT !.want = {c}]
                y3 == [y2 EXCEPT !.left = {c}]
    <3>3. y \in Exec /\ y.gen = g /\ y.outcome = "none"
      BY <1>1, <1>2, CellKeys
    <3>4. x = y3
      BY <3>2, Zenon
    <3>. HIDE DEF y
    <3>5. "ask" \in ExecPc /\ {c} \in SUBSET Cell
      BY <1>1, SMT DEF ExecPc
    <3>6. y1 \in Exec
      BY <3>3, <3>5, ExecSet
    <3>7. y2 \in Exec
      BY <3>5, <3>6, ExecSet
    <3>8. y3 \in Exec
      BY <3>5, <3>7, ExecSet
    <3>9. y3.gen = g /\ y3.outcome = "none" /\ y3.pc = "ask"
      BY <3>3, SMT DEF Exec
    <3>10. "ask" # "release"
      OBVIOUS
    <3>. HIDE DEF y3
    <3>. QED
      BY <3>1, <3>4, <3>8, <3>9, <3>10, Zenon DEF Inlined
  <2>. QED
    BY <2>2
<1>. QED
  BY <1>3, <1>4, Zenon DEF Stamping

(* An extraction acts for a generation that has written.                   *)
Acts(x) == x \in Exec /\ x.gen \in Written /\ (x.outcome = "retry" => x.try < MaxTries)

LEMMA ActsFacts ==
  ASSUME TypeInv
  PROVE  \A e \in execs : Acts(e)
BY DEF TypeInv, TypeOK, Authors, Budget, Acts

(* Where the extractions after a step come from.                           *)
Origins ==
  \A x \in execs' :
    \/ x \in execs \/ Claimed(x)
    \/ \E e \in execs : Extracts(e) /\ Successor(e, x)
    \/ \E g \in Gen : Stamping(g) /\ Inlined(x, g)

LEMMA ExecOrigins ==
  ASSUME TypeInv, [Next]_vars
  PROVE  Origins
<1>1. execs' \subseteq execs => Origins
  BY DEF Origins
<1>2. TypeOK
  BY DEF TypeInv
<1>3. ASSUME NEW g \in Gen, Requests(g)
      PROVE  Origins
  <2>1. Begins(g) \/ Chooses(g) \/ BlankCells(g) \/ RequestMoves(g) => execs' = execs
    BY BeginsFacts, WriteFrame, MoveFrame, Zenon
  <2>2. Dies(g) => execs' \subseteq execs
    BY WriteFrame
  <2>3. CASE Stamping(g)
    BY <1>2, <2>3, StampingExecs, Zenon DEF Origins
  <2>. QED
    BY <1>1, <1>3, <2>1, <2>2, <2>3 DEF Requests
<1>4. ASSUME NEW e \in execs, Extracts(e)
      PROVE  Origins
  BY <1>2, <1>4, ExtractFacts, Zenon DEF Continues, Origins
<1>5. ASSUME NEW k \in JobKey, Starts(k)
      PROVE  Origins
  BY <1>5, StartsFacts, Zenon DEF Origins
<1>6. (Times \/ SweepStep \/ (\E e \in execs : CrashWorker(e)) \/ vars' = vars)
      => execs' \subseteq execs
  <2>1. vars' = vars => execs' = execs
    BY Zenon DEF vars
  <2>. QED
    BY <2>1, OtherFrame
<1>. QED
  BY <1>1, <1>3, <1>4, <1>5, <1>6, Groups, Zenon

LEMMA ExecsStep ==
  ASSUME TypeInv, [Next]_vars, Frozen
  PROVE  \A x \in execs' : Acts(x)'
<1>1. TypeOK /\ \A e \in execs : Acts(e)
  BY ActsFacts DEF TypeInv
<1>2. \A x : x \in Written => x \in Written'
  BY StaysWritten, Zenon
<1>3. "none" # "retry"
  OBVIOUS
<1>4. ASSUME NEW x \in execs'
      PROVE  x \in Exec /\ x.gen \in Written' /\ (x.outcome = "retry" => x.try < MaxTries)
  <2>1. x \in execs => Acts(x)
    BY <1>1
  <2>2. Claimed(x) => Acts(x)
    BY <1>3, Zenon DEF Claimed, Acts
  <2>3. ASSUME NEW e \in execs, Successor(e, x)
        PROVE  Acts(x)
    BY <1>1, <2>3, Zenon DEF Successor, Acts
  <2>4. Acts(x) => x \in Exec /\ x.gen \in Written' /\ (x.outcome = "retry" => x.try < MaxTries)
    BY <1>2, Zenon DEF Acts
  <2>5. ASSUME NEW g \in Gen, Stamping(g), Inlined(x, g)
        PROVE  x \in Exec /\ x.gen \in Written' /\ (x.outcome = "retry" => x.try < MaxTries)
    <3>1. requests'[g].wrote
      BY <1>1, <2>5, WriteFacts DEF Stamping
    <3>2. g \in Written'
      BY <3>1, Zenon DEF Written
    <3>. QED
      BY <1>3, <2>5, <3>2, Zenon DEF Inlined
  <2>. QED
    BY <2>1, <2>2, <2>3, <2>4, <2>5, ExecOrigins, Zenon DEF Origins
<1>. QED
  BY <1>4, Zenon DEF Acts

(* What the sweep remembers it read from stamps.                           *)
Items  == Cell \X Stamps
Backed(s) ==
  /\ s \in Sweep
  /\ \A i \in s.todo \cup s.at : i[2] # NoGen => i[2] \in Written
  /\ \A g \in s.touched : g \in Written
  /\ s.pc = "release" => s.idle \in Written

LEMMA BackedFacts ==
  ASSUME TypeInv
  PROVE  Backed(sweep)
BY DEF TypeInv, TypeOK, Authors, Backed

SweepPc == {"rest", "lease", "look", "flip", "release"}

LEMMA SweepSet ==
  ASSUME NEW s \in Sweep
  PROVE  /\ s.todo \in SUBSET Items /\ s.at \in SUBSET Items /\ s.touched \in SUBSET Gen
         /\ \A x \in SweepPc : [s EXCEPT !.pc = x] \in Sweep
         /\ \A x \in SUBSET Items : [s EXCEPT !.todo = x] \in Sweep
         /\ \A x \in SUBSET Items : [s EXCEPT !.at = x] \in Sweep
         /\ \A x \in SUBSET Gen : [s EXCEPT !.touched = x] \in Sweep
         /\ \A x \in Stamps : [s EXCEPT !.idle = x] \in Sweep
<1>1. \A x \in SweepPc : [s EXCEPT !.pc = x] \in Sweep
  BY SMT DEF Sweep, SweepPc
<1>2. \A x \in SUBSET Items : [s EXCEPT !.todo = x] \in Sweep
  BY SMT DEF Sweep, Items, Stamps
<1>3. \A x \in SUBSET Items : [s EXCEPT !.at = x] \in Sweep
  BY SMT DEF Sweep, Items, Stamps
<1>4. \A x \in SUBSET Gen : [s EXCEPT !.touched = x] \in Sweep
  BY SMT DEF Sweep
<1>5. \A x \in Stamps : [s EXCEPT !.idle = x] \in Sweep
  BY SMT DEF Sweep, Stamps
<1>6. s.todo \in SUBSET Items /\ s.at \in SUBSET Items /\ s.touched \in SUBSET Gen
  BY SMT DEF Sweep, Items, Stamps
<1>. QED
  BY <1>1, <1>2, <1>3, <1>4, <1>5, <1>6

LEMMA AtRestFacts == Backed(AtRest) /\ AtRest.pc = "rest"
<1>1. AtRest \in Sweep
  BY SMT DEF AtRest, Sweep, NoGen
<1>2. /\ AtRest.pc = "rest" /\ AtRest.todo = {} /\ AtRest.at = {} /\ AtRest.touched = {}
  BY DEF AtRest
<1>. HIDE DEF AtRest
<1>. QED
  BY <1>1, <1>2 DEF Backed

(* What a step of the sweep leaves behind: a release only of a generation  *)
(* found idle.                                                             *)
Sound == Backed(sweep') /\ (sweep'.pc = "release" => sweep' = sweep \/ IdleGen(sweep'.idle))

LEMMA SweepReadFacts ==
  ASSUME TypeInv, SweepRead
  PROVE  Sound
<1>. DEFINE found == {<<c, cells[c].stamp>> : c \in {c \in Cell : cells[c].status = "generating"}}
            s1 == [sweep EXCEPT !.pc = "lease"]
            s == [s1 EXCEPT !.todo = found]
<1>1. sweep' = s
  BY Zenon DEF SweepRead
<1>2. Backed(sweep) /\ sweep \in Sweep /\ "lease" \in SweepPc
  BY BackedFacts, SMT DEF Backed, SweepPc
<1>3. ASSUME NEW c \in Cell
      PROVE  /\ <<c, cells[c].stamp>> \in Items
             /\ cells[c].stamp # NoGen => cells[c].stamp \in Written
  <2>1. cells[c] \in CellRow
    BY DEF TypeInv, TypeOK
  <2>2. cells[c].stamp \in Stamps
    BY <2>1, RowFacts
  <2>. QED
    BY <2>2 DEF TypeInv, Authors, Items
<1>4. found \in SUBSET Items /\ \A i \in found : i[2] # NoGen => i[2] \in Written
  BY <1>3
<1>. HIDE DEF found
<1>5. s1 \in Sweep
  BY <1>2, SweepSet
<1>6. s \in Sweep
  BY <1>4, <1>5, SweepSet
<1>7. /\ s.pc = "lease" /\ s.todo = found /\ s.at = sweep.at
      /\ s.touched = sweep.touched
  BY <1>2, SMT DEF Sweep
<1>. HIDE DEF s
<1>8. Backed(s)
  BY <1>2, <1>4, <1>6, <1>7 DEF Backed
<1>. QED
  BY <1>1, <1>7, <1>8 DEF Sound

LEMMA SweepLeaseFacts ==
  ASSUME TypeInv, SweepLease
  PROVE  Sound
<1>. DEFINE s == [sweep EXCEPT !.pc = "look"]
<1>1. sweep' = AtRest \/ sweep' = s
  BY Zenon DEF SweepLease
<1>2. Backed(sweep) /\ sweep \in Sweep /\ "look" \in SweepPc
  BY BackedFacts, SMT DEF Backed, SweepPc
<1>3. s \in Sweep
  BY <1>2, SweepSet
<1>4. s.pc = "look" /\ s.todo = sweep.todo /\ s.at = sweep.at /\ s.touched = sweep.touched
  BY <1>2, SMT DEF Sweep
<1>. HIDE DEF s
<1>5. Backed(s)
  BY <1>2, <1>3, <1>4 DEF Backed
<1>. QED
  BY <1>1, <1>4, <1>5, AtRestFacts DEF Sound

LEMMA SweepLookFacts ==
  ASSUME TypeInv, SweepLook
  PROVE  Sound
<1>1. Backed(sweep) /\ sweep \in Sweep /\ "flip" \in SweepPc
  BY BackedFacts, SMT DEF Backed, SweepPc
<1>2. PICK i \in sweep.todo :
        \/ sweep' = [sweep EXCEPT !.todo = sweep.todo \ {i}]
        \/ sweep' = [sweep EXCEPT !.pc = "flip", !.todo = sweep.todo \ {i}, !.at = {i}]
  BY Zenon DEF SweepLook
<1>. DEFINE a == [sweep EXCEPT !.todo = sweep.todo \ {i}]
            s1 == [sweep EXCEPT !.pc = "flip"]
            s2 == [s1 EXCEPT !.todo = sweep.todo \ {i}]
            s == [s2 EXCEPT !.at = {i}]
<1>3. sweep.pc = "look" /\ (sweep' = a \/ sweep' = s)
  BY <1>2, Zenon DEF SweepLook
<1>4. sweep.todo \ {i} \in SUBSET Items /\ {i} \in SUBSET Items
  BY <1>1, SweepSet
<1>5. a \in Sweep
  BY <1>1, <1>4, SweepSet
<1>6. s1 \in Sweep
  BY <1>1, SweepSet
<1>7. s2 \in Sweep
  BY <1>4, <1>6, SweepSet
<1>8. s \in Sweep
  BY <1>4, <1>7, SweepSet
<1>9. /\ a.pc = sweep.pc /\ a.todo = sweep.todo \ {i} /\ a.at = sweep.at
      /\ a.touched = sweep.touched
      /\ s.pc = "flip" /\ s.todo = sweep.todo \ {i} /\ s.at = {i}
      /\ s.touched = sweep.touched
  BY <1>1, SMT DEF Sweep
<1>. HIDE DEF a, s
<1>10. Backed(a)
  BY <1>1, <1>3, <1>5, <1>9 DEF Backed
<1>11. Backed(s)
  BY <1>1, <1>8, <1>9 DEF Backed
<1>. QED
  BY <1>3, <1>9, <1>10, <1>11 DEF Sound

LEMMA SweepFlipMoves ==
  ASSUME TypeInv, SweepFlip
  PROVE  Sound
<1>1. Backed(sweep) /\ sweep \in Sweep /\ "look" \in SweepPc /\ {} \in SUBSET Items
  BY BackedFacts, SMT DEF Backed, SweepPc
<1>2. PICK i \in sweep.at :
        sweep' = [sweep EXCEPT !.pc = "look", !.at = {},
                               !.touched = sweep.touched \cup ({i[2]} \ {NoGen})]
  BY Zenon DEF SweepFlip
<1>. DEFINE touched == sweep.touched \cup ({i[2]} \ {NoGen})
            s1 == [sweep EXCEPT !.pc = "look"]
            s2 == [s1 EXCEPT !.at = {}]
            s == [s2 EXCEPT !.touched = touched]
<1>3. sweep' = s
  BY <1>2, Zenon
<1>4. \A g \in touched : g \in Written
  BY <1>1 DEF Backed
<1>5. touched \in SUBSET Gen
  BY <1>4 DEF Written
<1>. HIDE DEF touched
<1>6. s1 \in Sweep
  BY <1>1, SweepSet
<1>7. s2 \in Sweep
  BY <1>1, <1>6, SweepSet
<1>8. s \in Sweep
  BY <1>5, <1>7, SweepSet
<1>9. s.pc = "look" /\ s.todo = sweep.todo /\ s.at = {} /\ s.touched = touched
  BY <1>1, SMT DEF Sweep
<1>. HIDE DEF s
<1>10. Backed(s)
  BY <1>1, <1>4, <1>8, <1>9 DEF Backed
<1>. QED
  BY <1>3, <1>9, <1>10 DEF Sound

LEMMA SweepIdleFacts ==
  ASSUME TypeInv, SweepIdle
  PROVE  Sound
<1>1. Backed(sweep) /\ sweep \in Sweep /\ "release" \in SweepPc
  BY BackedFacts, SMT DEF Backed, SweepPc
<1>2. \/ sweep' = AtRest
      \/ \E g \in sweep.touched :
           \/ IdleGen(g) /\ sweep' = [sweep EXCEPT !.pc = "release", !.idle = g]
           \/ sweep' = [sweep EXCEPT !.touched = sweep.touched \ {g}]
  BY Zenon DEF SweepIdle
<1>3. ASSUME NEW g \in sweep.touched,
             \/ IdleGen(g) /\ sweep' = [sweep EXCEPT !.pc = "release", !.idle = g]
             \/ sweep' = [sweep EXCEPT !.touched = sweep.touched \ {g}]
      PROVE  Sound
  <2>. DEFINE a == [sweep EXCEPT !.touched = sweep.touched \ {g}]
              s1 == [sweep EXCEPT !.pc = "release"]
              s == [s1 EXCEPT !.idle = g]
  <2>1. sweep.pc = "look" /\ (sweep' = a \/ (IdleGen(g) /\ sweep' = s))
    BY <1>3, Zenon DEF SweepIdle
  <2>2. sweep.touched \ {g} \in SUBSET Gen /\ g \in Stamps /\ g \in Written
    BY <1>1, SweepSet DEF Backed, Stamps
  <2>3. a \in Sweep
    BY <1>1, <2>2, SweepSet
  <2>4. s1 \in Sweep
    BY <1>1, SweepSet
  <2>5. s \in Sweep
    BY <2>2, <2>4, SweepSet
  <2>6. /\ a.pc = sweep.pc /\ a.todo = sweep.todo /\ a.at = sweep.at
        /\ a.touched = sweep.touched \ {g}
        /\ s.pc = "release" /\ s.todo = sweep.todo /\ s.at = sweep.at
        /\ s.touched = sweep.touched /\ s.idle = g
    BY <1>1, SMT DEF Sweep
  <2>. HIDE DEF a, s
  <2>7. Backed(a)
    BY <1>1, <2>1, <2>3, <2>6 DEF Backed
  <2>8. Backed(s)
    BY <1>1, <2>2, <2>5, <2>6 DEF Backed
  <2>. QED
    BY <2>1, <2>6, <2>7, <2>8, Zenon DEF Sound
<1>. QED
  BY <1>2, <1>3, AtRestFacts DEF Sound

LEMMA SweepReleaseFacts ==
  ASSUME TypeInv, SweepRelease
  PROVE  Sound
<1>1. /\ Backed(sweep) /\ sweep \in Sweep /\ "look" \in SweepPc /\ NoGen \in Stamps
      /\ sweep.touched \ {sweep.idle} \in SUBSET Gen
  <2>1. Backed(sweep) /\ sweep \in Sweep
    BY BackedFacts DEF Backed
  <2>2. sweep.touched \in SUBSET Gen
    BY <2>1, SweepSet
  <2>. QED
    BY <2>1, <2>2, SMT DEF SweepPc, Stamps
<1>. DEFINE s1 == [sweep EXCEPT !.pc = "look"]
            s2 == [s1 EXCEPT !.touched = sweep.touched \ {sweep.idle}]
            s == [s2 EXCEPT !.idle = NoGen]
<1>2. sweep' = s
  BY Zenon DEF SweepRelease
<1>3. s1 \in Sweep
  BY <1>1, SweepSet
<1>4. s2 \in Sweep
  BY <1>1, <1>3, SweepSet
<1>5. s \in Sweep
  BY <1>1, <1>4, SweepSet
<1>6. /\ s.pc = "look" /\ s.todo = sweep.todo /\ s.at = sweep.at
      /\ s.touched = sweep.touched \ {sweep.idle}
  BY <1>1, SMT DEF Sweep
<1>. HIDE DEF s
<1>7. Backed(s)
  BY <1>1, <1>5, <1>6 DEF Backed
<1>. QED
  BY <1>2, <1>6, <1>7 DEF Sound

LEMMA SweepVarStep ==
  ASSUME TypeInv, [Next]_vars
  PROVE  Sound
<1>1. sweep' = sweep => Sound
  BY BackedFacts, Zenon DEF Sound
<1>2. ASSUME NEW g \in Gen, Requests(g)
      PROVE  sweep' = sweep
  BY <1>2, BeginsFacts, WriteFrame, MoveFrame, Zenon DEF Requests
<1>3. ASSUME NEW e \in execs, Extracts(e)
      PROVE  sweep' = sweep
  BY <1>3, ExtractFacts DEF TypeInv
<1>4. SweepStep => Sound
  BY SweepReadFacts, SweepLeaseFacts, SweepLookFacts, SweepFlipMoves, SweepIdleFacts,
     SweepReleaseFacts, Zenon DEF SweepStep
<1>5. vars' = vars => sweep' = sweep
  BY Zenon DEF vars
<1>. QED
  BY <1>1, <1>2, <1>3, <1>4, <1>5, Groups, OtherFrame, Zenon

(* A step only removes stamps, or it is a request that stamps its cells.   *)
LEMMA CellsStep ==
  ASSUME TypeInv, [Next]_vars
  PROVE  Shrinks \/ \E g \in Gen : Stamping(g) /\ StampsOwn(g)
<1>1. TypeOK
  BY DEF TypeInv
<1>2. cells' = cells => Shrinks
  BY <1>1, SameCells
<1>3. ASSUME NEW g \in Gen, Requests(g)
      PROVE  Shrinks \/ (Stamping(g) /\ StampsOwn(g))
  <2>1. Begins(g) \/ Chooses(g) \/ Dies(g) => cells' = cells
    BY BeginsFacts, WriteFrame, Zenon
  <2>2. RequestMoves(g) => Shrinks
    BY <1>1, <1>2, MoveFrame, UndoFacts
  <2>3. Stamping(g) => StampsOwn(g)
    BY <1>1, StampingFacts DEF Stamping
  <2>4. BlankCells(g) => Shrinks
    BY <1>1, BlankFacts
  <2>. QED
    BY <1>2, <1>3, <2>1, <2>2, <2>3, <2>4, Zenon DEF Requests
<1>4. ASSUME NEW e \in execs, Extracts(e)
      PROVE  Shrinks
  BY <1>1, <1>4, ExtractFacts
<1>5. SweepStep => Shrinks
  BY <1>1, <1>2, OtherFrame, SweepFlipFacts
<1>6. vars' = vars => cells' = cells
  BY Zenon DEF vars
<1>. QED
  BY <1>2, <1>3, <1>4, <1>5, <1>6, Groups, OtherFrame, Zenon

LEMMA AsyncStep ==
  ASSUME TypeOK, [Next]_vars
  PROVE  async' = async
<1>1. ASSUME NEW g \in Gen, Requests(g)
      PROVE  async' = async
  BY <1>1, BeginsFacts, WriteFrame, MoveFrame, Zenon DEF Requests
<1>2. ASSUME NEW e \in execs, Extracts(e)
      PROVE  async' = async
  BY <1>2, ExtractFacts
<1>3. vars' = vars => async' = async
  BY Zenon DEF vars
<1>. QED
  BY <1>1, <1>2, <1>3, Groups, OtherFrame, Zenon

-----------------------------------------------------------------------------
(* Types, and who acts for which generation.                               *)

LEMMA InitTyped ==
  ASSUME Init
  PROVE  TypeInv
<1>1. requests \in [Gen -> Request] /\ Progress
  <2>. DEFINE r == [kind |-> "generate", pc |-> "none", target |-> {}, todo |-> {},
                    queued |-> FALSE, wrote |-> FALSE, aborted |-> FALSE]
  <2>1. r \in Request /\ Placed(r)
    BY SMT DEF Request, Placed
  <2>2. requests = [g \in Gen |-> r]
    BY Zenon DEF Init
  <2>. HIDE DEF r
  <2>. QED
    BY <2>1, <2>2 DEF Progress
<1>2. /\ cells \in [Cell -> CellRow] /\ \A c \in Cell : cells[c].stamp = NoGen
  <2>1. Cleared("pending", NoGen) \in CellRow /\ Cleared("pending", NoGen).stamp = NoGen
    BY RowFacts, SMT DEF CellStatus, Stamps
  <2>2. cells = [c \in Cell |-> Cleared("pending", NoGen)]
    BY Zenon DEF Init
  <2>. QED
    BY <2>1, <2>2
<1>3. jobs \in [JobKey -> Job] /\ \A k \in JobKey : jobs[k].status = "none"
  <2>1. NoJob \in Job /\ NoJob.status = "none"
    BY GenFacts, SMT DEF NoJob, Job, NoGen
  <2>2. jobs = [k \in JobKey |-> NoJob]
    BY Zenon DEF Init
  <2>. QED
    BY <2>1, <2>2
<1>4. /\ sweep \in Sweep /\ sweep.pc = "rest" /\ sweep.todo = {} /\ sweep.at = {}
      /\ sweep.touched = {}
  <2>1. sweep = AtRest
    BY Zenon DEF Init
  <2>. QED
    BY <2>1, AtRestFacts, SMT DEF Backed, AtRest
<1>5. /\ async \in BOOLEAN /\ execs = {} /\ faults \in 0..MaxFaults
      /\ lease \in [holder : Gen \cup {NoGen}, live : BOOLEAN]
  BY ConstAssumption, SMT DEF Init, NoLease
<1>6. TypeOK
  BY <1>1, <1>2, <1>3, <1>4, <1>5 DEF TypeOK
<1>7. Authors
  BY <1>2, <1>3, <1>4, <1>5 DEF Authors
<1>8. Budget
  BY <1>3, <1>5 DEF Budget
<1>. QED
  BY <1>1, <1>6, <1>7, <1>8 DEF TypeInv

LEMMA TypeStep ==
  ASSUME TypeInv, [Next]_vars
  PROVE  TypeInv' /\ Frozen
<1>1. TypeOK /\ Progress /\ Authors
  BY DEF TypeInv
<1>2. requests' \in [Gen -> Request] /\ Progress' /\ Frozen
  BY <1>1, RequestsStep
<1>3. \A g : g \in Written => g \in Written'
  BY <1>2, StaysWritten
<1>4. jobs' \in [JobKey -> Job] /\ \A k \in JobKey : Owed(jobs'[k])
  BY JobsStep DEF JobsOwed
<1>5. \A x \in execs' : Acts(x)'
  BY <1>2, ExecsStep
<1>6. Backed(sweep')
  BY SweepVarStep DEF Sound
<1>7. /\ cells' \in [Cell -> CellRow]
      /\ \A c \in Cell : cells'[c].stamp # NoGen => cells'[c].stamp \in Written'
  <2>1. \A c \in Cell : cells[c].stamp # NoGen => cells[c].stamp \in Written
    BY <1>1, Zenon DEF Authors
  <2>2. CASE Shrinks
    <3>1. /\ cells' \in [Cell -> CellRow]
          /\ \A c \in Cell : cells'[c].stamp = cells[c].stamp \/ cells'[c].stamp = NoGen
      BY <2>2, Zenon DEF Shrinks
    <3>2. ASSUME NEW c \in Cell, cells'[c].stamp # NoGen
          PROVE  cells'[c].stamp \in Written'
      BY <1>3, <2>1, <3>1, <3>2
    <3>. QED
      BY <3>1, <3>2
  <2>3. ASSUME NEW g \in Gen, Stamping(g), StampsOwn(g)
        PROVE  /\ cells' \in [Cell -> CellRow]
               /\ \A c \in Cell : cells'[c].stamp # NoGen => cells'[c].stamp \in Written'
    <3>1. requests'[g].wrote
      BY <1>1, <2>3, WriteFacts DEF Stamping
    <3>2. \A c \in Cell : cells'[c].stamp = g \/ cells'[c] = cells[c]
      BY <2>3, Zenon DEF StampsOwn
    <3>3. ASSUME NEW c \in Cell, cells'[c].stamp # NoGen
          PROVE  cells'[c].stamp \in Written'
      <4>1. g \in Written'
        BY <3>1, Zenon DEF Written
      <4>. QED
        BY <1>3, <2>1, <3>2, <3>3, <4>1
    <3>. QED
      BY <2>3, <3>3, Zenon DEF StampsOwn
  <2>. QED
    BY <2>2, <2>3, CellsStep, Zenon
<1>8. async' = async /\ faults' \in 0..MaxFaults
      /\ lease' \in [holder : Gen \cup {NoGen}, live : BOOLEAN]
  BY <1>1, AsyncStep, FaultsStep, LeaseStep
<1>9. execs' \subseteq Exec /\ sweep' \in Sweep
  BY <1>5, <1>6, Zenon DEF Acts, Backed
<1>10. TypeOK'
  BY <1>1, <1>2, <1>4, <1>7, <1>8, <1>9, Zenon DEF TypeOK
<1>11. Authors'
  <2>1. \A k \in JobKey : jobs'[k].status # "none" => jobs'[k].gen \in Written'
    BY <1>3, <1>4 DEF Owed
  <2>3. \A i \in sweep'.todo \cup sweep'.at : i[2] # NoGen => i[2] \in Written'
    BY <1>3, <1>6 DEF Backed
  <2>4. \A g \in sweep'.touched : g \in Written'
    BY <1>3, <1>6, Zenon DEF Backed
  <2>5. sweep'.pc = "release" => sweep'.idle \in Written'
    BY <1>3, <1>6 DEF Backed
  <2>6. \A e \in execs' : e.gen \in Written'
    BY <1>5, Zenon DEF Acts
  <2>. QED
    BY <1>7, <2>1, <2>3, <2>4, <2>5, <2>6, Zenon DEF Authors
<1>12. Budget'
  BY <1>4, <1>5, Zenon DEF Owed, Acts, Budget
<1>. QED
  BY <1>2, <1>10, <1>11, <1>12 DEF TypeInv

(* The types of the model.                                                 *)
THEOREM TypeCorrect == Spec => []TypeOK
<1>1. Init => TypeInv
  BY InitTyped
<1>2. TypeInv /\ [Next]_vars => TypeInv'
  BY TypeStep
<1>3. TypeInv => TypeOK
  BY DEF TypeInv
<1>. QED
  BY <1>1, <1>2, <1>3, PTL DEF Spec

-----------------------------------------------------------------------------
(* The lease outlasts the work.                                            *)

LEMMA IdleFacts ==
  ASSUME NEW g
  PROVE  IdleGen(g) <=> \A c \in Cell : cells[c].stamp # g
BY DEF IdleGen, Owned

LEMMA IdleFactsNext ==
  ASSUME NEW g
  PROVE  IdleGen(g)' <=> \A c \in Cell : cells'[c].stamp # g
BY DEF IdleGen, Owned

LEMMA StaysIdle ==
  ASSUME TypeInv, [Next]_vars, NEW g \in Written, IdleGen(g)
  PROVE  IdleGen(g)'
<1>1. \A c \in Cell : cells[c].stamp # g
  BY IdleFacts
<1>2. g # NoGen /\ TypeOK
  BY GenFacts DEF Written, TypeInv
<1>3. CASE Shrinks
  <2>1. \A c \in Cell : cells'[c].stamp # g
    BY <1>1, <1>2, <1>3, Zenon DEF Shrinks
  <2>. QED
    BY <2>1, IdleFactsNext
<1>4. ASSUME NEW h \in Gen, Stamping(h), StampsOwn(h)
      PROVE  IdleGen(g)'
  <2>1. requests[h].pc \in {"begun", "loaded"}
    BY <1>2, <1>4, WriteFacts DEF Stamping
  <2>2. ~requests[h].wrote
    BY <2>1 DEF TypeInv, Progress, Placed
  <2>3. h # g
    BY <2>2 DEF Written
  <2>4. \A c \in Cell : cells'[c].stamp = h \/ cells'[c] = cells[c]
    BY <1>4, Zenon DEF StampsOwn
  <2>5. \A c \in Cell : cells'[c].stamp # g
    BY <1>1, <2>3, <2>4, Zenon
  <2>. QED
    BY <2>5, IdleFactsNext
<1>. QED
  BY <1>3, <1>4, CellsStep

LEMMA ReleasedStep ==
  ASSUME TypeInv, Released, [Next]_vars
  PROVE  Released'
<1>1. \A e \in execs : e.gen \in Written
  BY DEF TypeInv, Authors
<1>2. \A g \in Written : IdleGen(g) => IdleGen(g)'
  BY StaysIdle
<1>3. ASSUME NEW x \in execs', x.pc = "release"
      PROVE  IdleGen(x.gen)'
  <2>1. CASE x \in execs
    BY <1>1, <1>2, <1>3, <2>1, Zenon DEF Released
  <2>2. ASSUME NEW e \in execs, Successor(e, x)
        PROVE  IdleGen(x.gen)'
    BY <1>1, <1>2, <1>3, <2>2, Zenon DEF Successor
  <2>3. ~Claimed(x) /\ \A g : ~Inlined(x, g)
    BY <1>3 DEF Claimed, Inlined
  <2>. QED
    BY <2>1, <2>2, <2>3, ExecOrigins, Zenon DEF Origins
<1>4. ASSUME sweep'.pc = "release"
      PROVE  IdleGen(sweep.idle)'
  <2>1. sweep' = sweep \/ IdleGen(sweep'.idle)
    BY <1>4, SweepVarStep DEF Sound
  <2>2. sweep'.idle \in Written
    BY <1>4, SweepVarStep DEF Sound, Backed
  <2>3. PICK g : g = sweep'.idle
    OBVIOUS
  <2>4. g \in Written /\ IdleGen(g)
    BY <1>4, <2>1, <2>2, <2>3 DEF Released
  <2>5. IdleGen(g)'
    BY <1>2, <2>4
  <2>6. \A c \in Cell : cells'[c].stamp # sweep'.idle
    BY <2>3, <2>5, IdleFactsNext
  <2>. QED
    BY <2>6 DEF IdleGen, Owned
<1>. QED
  BY <1>3, <1>4, Zenon DEF Released

LEMMA ReleaseStep ==
  ASSUME TypeInv, Released, [Next]_vars, NEW g \in Gen,
         requests[g].pc = "handed", lease.holder = g, lease'.holder = NoGen
  PROVE  \A c \in Cell : cells[c].stamp # g
<1>1. TypeOK /\ g # NoGen
  BY GenFacts DEF TypeInv
<1>2. lease' # lease
  BY <1>1
<1>3. ASSUME NEW h, FinishLease(h)
      PROVE  h = g
  BY <1>2, <1>3, Zenon DEF FinishLease
<1>4. ASSUME NEW h \in Gen, Requests(h)
      PROVE  FALSE
  <2>1. CASE Begins(h)
    <3>1. PICK kind : \E target \in SUBSET Cell : Begin(h, kind, target)
      BY <2>1, BeginsFacts
    <3>2. lease' = [holder |-> h, live |-> TRUE]
      BY <3>1, Zenon DEF Begin
    <3>. QED
      BY <3>2, GenFacts
  <2>2. CASE RequestMoves(h)
    BY <1>2, <1>3, <2>2, MoveFrame
  <2>. QED
    BY <1>2, <1>4, <2>1, <2>2, WriteFrame, Zenon DEF Requests
<1>5. ~Times
  <2>1. Times => lease' = [lease EXCEPT !.live = FALSE] \/ lease' = [lease EXCEPT !.live = TRUE]
    BY Zenon DEF Times, Lapse, LapseHung, Renew
  <2>2. lease \in [holder : Gen \cup {NoGen}, live : BOOLEAN]
    BY <1>1 DEF TypeOK
  <2>3. Times => lease'.holder = lease.holder
    BY <2>1, <2>2
  <2>. QED
    BY <1>1, <2>3
<1>6. ASSUME NEW e \in execs, Extracts(e)
      PROVE  IdleGen(g)
  <2>1. e.pc = "release" /\ FinishLease(e.gen)
    BY <1>1, <1>2, <1>6, ExtractFacts
  <2>. QED
    BY <1>3, <2>1 DEF Released
<1>7. SweepStep => IdleGen(g)
  <2>1. SweepStep => SweepRelease
    BY <1>2, OtherFrame
  <2>2. SweepRelease => sweep.pc = "release" /\ FinishLease(sweep.idle)
    BY Zenon DEF SweepRelease
  <2>. QED
    BY <1>3, <2>1, <2>2 DEF Released
<1>8. vars' = vars => lease' = lease
  BY Zenon DEF vars
<1>9. IdleGen(g)
  BY <1>2, <1>4, <1>5, <1>6, <1>7, <1>8, Groups, OtherFrame, Zenon
<1>. QED
  BY <1>9, IdleFacts

LEMMA InitReleased ==
  ASSUME Init
  PROVE  Released
<1>1. execs = {} /\ sweep.pc = "rest"
  BY SMT DEF Init, AtRest
<1>. QED
  BY <1>1 DEF Released

(* Once a request has handed its lease to the workers, whichever job or    *)
(* sweep releases it does so when no cell carries the stamp any more.      *)
THEOREM LeaseHeldWhileWorked == Spec => LeaseOutlastsWork
<1>1. Init => TypeInv /\ Released
  BY InitTyped, InitReleased
<1>2. TypeInv /\ Released /\ [Next]_vars => (TypeInv /\ Released)'
  BY TypeStep, ReleasedStep
<1>3. TypeInv /\ Released /\ [Next]_vars =>
        [\A g \in Gen :
           requests[g].pc = "handed" /\ lease.holder = g /\ lease'.holder = NoGen
             => \A c \in Cell : cells[c].stamp # g]_vars
  BY ReleaseStep
<1>. QED
  BY <1>1, <1>2, <1>3, PTL DEF Spec, LeaseOutlastsWork

-----------------------------------------------------------------------------
(* Finished cells are kept.                                                *)

LEMMA InitUnfinished ==
  ASSUME Init
  PROVE  Unfinished
<1>1. execs = {} /\ TypeInv
  BY InitTyped, Zenon DEF Init
<1>2. cells = [c \in Cell |-> Cleared("pending", NoGen)]
  BY Zenon DEF Init
<1>3. \A c \in Cell : cells[c].content = NoGen
  BY <1>2, RowFacts, SMT DEF CellStatus, Stamps
<1>4. \A c \in Cell : ~Done(c)
  BY <1>3 DEF Done
<1>. QED
  BY <1>1, <1>4, Zenon DEF Unfinished

(* A step finishes no cell that keeps its stamp, and a cell only gets the  *)
(* stamp of a request that has just written it.                            *)
LEMMA StampedStep ==
  ASSUME TypeInv, [Next]_vars, NEW c \in Cell, cells'[c].stamp \in Written, Done(c)'
  PROVE  Done(c) /\ cells[c].stamp = cells'[c].stamp
<1>1. cells'[c].stamp # NoGen /\ TypeOK
  BY GenFacts DEF Written, TypeInv
<1>2. CASE Shrinks
  BY <1>1, <1>2, Zenon DEF Shrinks
<1>3. ASSUME NEW h \in Gen, Stamping(h), StampsOwn(h)
      PROVE  Done(c) /\ cells[c].stamp = cells'[c].stamp
  <2>1. requests[h].pc \in {"begun", "loaded"}
    BY <1>1, <1>3, WriteFacts DEF Stamping
  <2>2. h \notin Written
    BY <2>1 DEF TypeInv, Progress, Placed, Written
  <2>3. cells'[c] = cells[c]
    BY <1>3, <2>2, Zenon DEF StampsOwn
  <2>. QED
    BY <2>3, Zenon DEF Done
<1>. QED
  BY <1>2, <1>3, CellsStep

LEMMA UnfinishedStep ==
  ASSUME TypeInv, Unfinished, [Next]_vars
  PROVE  Unfinished'
<1>. SUFFICES ASSUME async'
              PROVE  /\ \A e \in execs' :
                          /\ ~Inline(e)'
                          /\ \A c \in e.want \cup e.left : cells'[c].stamp = e.gen => ~Done(c)'
                     /\ \A g \in Gen : requests'[g].kind # "generate" =>
                          \A c \in Cell : cells'[c].stamp = g => ~Done(c)'
  BY Zenon DEF Unfinished, Inline
<1>1. TypeOK /\ async /\ Frozen /\ TypeInv'
  BY AsyncStep, TypeStep DEF TypeInv
<1>2. /\ \A e \in execs :
           /\ ~Inline(e)
           /\ \A c \in e.want \cup e.left : cells[c].stamp = e.gen => ~Done(c)
      /\ \A g \in Gen : requests[g].kind # "generate" =>
           \A c \in Cell : cells[c].stamp = g => ~Done(c)
  BY <1>1, Zenon DEF Unfinished
<1>3. \A e \in execs : e.gen \in Written /\ e \in Exec
  BY <1>1 DEF TypeInv, Authors, TypeOK
<1>4. ASSUME NEW x \in execs'
      PROVE  /\ ~Inline(x)
             /\ \A c \in x.want \cup x.left : cells'[c].stamp = x.gen => ~Done(c)'
  <2>1. ASSUME ~Inline(x), x.gen \in Written, x \in Exec,
               \A c \in x.want \cup x.left : cells[c].stamp = x.gen => ~Done(c)
        PROVE  \A c \in x.want \cup x.left : cells'[c].stamp = x.gen => ~Done(c)'
    <3>1. x.want \cup x.left \subseteq Cell
      BY <2>1, ExecFacts
    <3>. QED
      BY <2>1, <3>1, StampedStep
  <2>2. CASE x \in execs
    BY <1>2, <1>3, <2>1, <2>2, Zenon
  <2>3. CASE Claimed(x)
    BY <2>3 DEF Claimed
  <2>4. ASSUME NEW e \in execs, Successor(e, x)
        PROVE  /\ ~Inline(x)
               /\ \A c \in x.want \cup x.left : cells'[c].stamp = x.gen => ~Done(c)'
    <3>1. ~Inline(e) /\ x.gen = e.gen /\ x \in Exec /\ x.gen \in Written
      BY <1>2, <1>3, <2>4, Zenon DEF Successor
    <3>2. ~Inline(x)
      BY <2>4, <3>1, Zenon DEF Inline, Successor
    <3>3. \A c \in x.want \cup x.left : c \in e.want \cup e.left \/ ~Done(c)
      BY <2>4, <3>1, Zenon DEF Successor
    <3>4. \A c \in x.want \cup x.left : cells[c].stamp = x.gen => ~Done(c)
      BY <1>2, <3>1, <3>3, Zenon
    <3>. QED
      BY <2>1, <3>1, <3>2, <3>4
  <2>5. \A g : ~Inlined(x, g)
    BY <1>1 DEF Inlined
  <2>. QED
    BY <2>2, <2>3, <2>4, <2>5, ExecOrigins, Zenon DEF Origins
<1>5. ASSUME NEW c \in Cell, NEW g \in Gen, requests'[g].kind # "generate",
             cells'[c].stamp = g
      PROVE  ~Done(c)'
  <2>1. CASE g \in Written
    <3>1. requests[g].kind = requests'[g].kind
      BY <1>1, <2>1, Zenon DEF Frozen, Written
    <3>. QED
      BY <1>2, <1>5, <2>1, <3>1, StampedStep
  <2>2. CASE g \notin Written
    <3>1. cells[c].stamp # g
      BY <2>2, GenFacts DEF TypeInv, Authors
    <3>2. ~Shrinks
      BY <1>5, <3>1, GenFacts, Zenon DEF Shrinks
    <3>3. PICK h \in Gen : Stamping(h) /\ StampsOwn(h)
      BY <3>2, CellsStep
    <3>4. h = g /\ c \in requests[g].target
      BY <1>5, <3>1, <3>3, Zenon DEF StampsOwn
    <3>5. requests'[h].kind = requests[h].kind
      BY <1>1, <3>3, WriteFacts DEF Stamping
    <3>. QED
      BY <1>5, <3>3, <3>4, <3>5, Zenon DEF StampsOwn
  <2>. QED
    BY <2>1, <2>2
<1>. QED
  BY <1>4, <1>5, Zenon DEF Inline

LEMMA KeptStep ==
  ASSUME TypeInv, Unfinished, [Next]_vars, async, sweep' = sweep,
         NEW c \in Cell, Done(c), cells'[c].content = NoGen
  PROVE  \E g \in Gen : /\ requests[g].kind \in {"regenerate", "clear"}
                        /\ c \in requests[g].target
                        /\ ~requests[g].wrote /\ requests'[g].wrote
<1>1. TypeOK /\ cells' # cells
  BY Zenon DEF TypeInv, Done
<1>2. cells[c].content # NoGen
  BY Zenon DEF Done
<1>3. ASSUME NEW g \in Gen, Stamping(g) \/ BlankCells(g), requests[g].kind # "generate",
             c \in requests[g].target
      PROVE  /\ requests[g].kind \in {"regenerate", "clear"}
             /\ ~requests[g].wrote /\ requests'[g].wrote
  <2>1. requests[g].pc \in {"begun", "loaded"} /\ requests'[g].wrote
    BY <1>1, <1>3, WriteFacts DEF Stamping
  <2>2. ~requests[g].wrote
    BY <2>1 DEF TypeInv, Progress, Placed
  <2>3. requests[g].kind \in RequestKinds
    BY <1>1, RequestFacts DEF TypeOK
  <2>. QED
    BY <1>3, <2>1, <2>2, <2>3 DEF RequestKinds
<1>4. ASSUME NEW g \in Gen, Requests(g)
      PROVE  /\ Stamping(g) \/ BlankCells(g)
             /\ requests[g].kind # "generate" /\ c \in requests[g].target
  <2>1. ~Begins(g) /\ ~Chooses(g) /\ ~Dies(g)
    BY <1>1, BeginsFacts, WriteFrame, Zenon
  <2>2. ~RequestMoves(g)
    <3>1. SUFFICES ASSUME UndoCell(g)
                   PROVE  FALSE
      BY <1>1, MoveFrame
    <3>2. Loses(requests[g].target, g) /\ requests[g].pc = "undo"
      BY <1>1, <3>1, UndoFacts
    <3>3. requests[g].kind # "generate"
      BY <3>2 DEF TypeInv, Progress, Placed
    <3>4. cells[c].stamp = g
      BY <3>2, Zenon DEF Loses
    <3>. QED
      BY <3>3, <3>4, Zenon DEF Unfinished
  <2>3. CASE Stamping(g)
    <3>1. StampsOwn(g)
      BY <1>1, <2>3, StampingFacts DEF Stamping
    <3>. QED
      BY <1>2, <2>3, <3>1, Zenon DEF StampsOwn
  <2>4. CASE BlankCells(g)
    <3>1. requests[g].kind = "clear" /\ (c \notin requests[g].target => cells'[c] = cells[c])
      BY <1>1, <2>4, BlankFacts
    <3>. QED
      BY <1>2, <2>4, <3>1
  <2>. QED
    BY <1>4, <2>1, <2>2, <2>3, <2>4, Zenon DEF Requests
<1>5. ASSUME NEW e \in execs, Extracts(e)
      PROVE  FALSE
  <2>1. Loses(e.left, e.gen)
    BY <1>1, <1>5, ExtractFacts
  <2>2. c \in e.left /\ cells[c].stamp = e.gen
    BY <2>1, Zenon DEF Loses
  <2>3. c \in e.want \cup e.left
    BY <2>2
  <2>. QED
    BY <2>2, <2>3, Zenon DEF Unfinished
<1>6. ~SweepStep
  <2>1. SUFFICES ASSUME SweepFlip
                 PROVE  FALSE
    BY <1>1, OtherFrame
  <2>2. sweep \in Sweep
    BY <1>1 DEF TypeOK
  <2>3. PICK i : /\ sweep.pc = "flip"
                 /\ sweep' = [sweep EXCEPT !.pc = "look", !.at = {},
                                           !.touched = sweep.touched \cup ({i[2]} \ {NoGen})]
    BY <2>1, Zenon DEF SweepFlip
  <2>4. \A touched : [sweep EXCEPT !.pc = "look", !.at = {}, !.touched = touched].pc = "look"
    BY <2>2, SMT DEF Sweep
  <2>5. sweep'.pc = "look"
    BY <2>3, <2>4, Zenon
  <2>. QED
    BY <2>3, <2>5
<1>7. vars' = vars => cells' = cells
  BY Zenon DEF vars
<1>8. \E g \in Gen : Requests(g)
  BY <1>1, <1>5, <1>6, <1>7, Groups, OtherFrame, Zenon
<1>. QED
  BY <1>3, <1>4, <1>8, Zenon

(* With the queue, requests and jobs take the result of a finished cell    *)
(* away only where a regenerate-cell or clear-cells asks for that.         *)
THEOREM FinishedCellsStay == Spec => FinishedCellsKept
<1>1. Init => TypeInv /\ Unfinished
  BY InitTyped, InitUnfinished
<1>2. TypeInv /\ Unfinished /\ [Next]_vars => (TypeInv /\ Unfinished)'
  BY TypeStep, UnfinishedStep
<1>3. TypeInv /\ Unfinished /\ [Next]_vars =>
        [async /\ UNCHANGED sweep => \A c \in Cell :
           Done(c) /\ cells'[c].content = NoGen =>
             \E g \in Gen : /\ requests[g].kind \in {"regenerate", "clear"}
                            /\ c \in requests[g].target
                            /\ ~requests[g].wrote /\ requests'[g].wrote]_vars
  BY KeptStep
<1>. QED
  BY <1>1, <1>2, <1>3, PTL DEF Spec, FinishedCellsKept

-----------------------------------------------------------------------------
(* The latest request wins.                                                *)

Early == {"begun", "loaded"}

(* Only what has begun can die.                                            *)
LEMMA DiesStarted ==
  ASSUME TypeInv, NEW g \in Gen, Dies(g)
  PROVE  requests[g].pc # "none"
<1>1. requests[g].pc # "none" \/ \E e \in execs : e.gen = g
  BY Zenon DEF Dies, CrashRequest, RowFails
<1>2. (\E e \in execs : e.gen = g) => requests[g].wrote
  BY DEF TypeInv, Authors, Written
<1>3. requests[g].wrote => requests[g].pc # "none"
  BY DEF TypeInv, Progress, Placed
<1>. QED
  BY <1>1, <1>2, <1>3

(* How a request leaves its first stages, and that none returns there.     *)
LEMMA EarlyStep ==
  ASSUME TypeInv, NEW g \in Gen, Requests(g)
  PROVE  /\ Request1(g)
         /\ \/ Begins(g) /\ requests[g].pc = "none"
            \/ /\ requests[g].pc # "none" /\ requests'[g].pc # "none"
               /\ requests'[g].pc \in Early => requests[g].pc \in Early
         /\ \/ Stamping(g) \/ BlankCells(g)
            \/ requests'[g].wrote = requests[g].wrote
<1>1. TypeOK
  BY DEF TypeInv
<1>2. CASE Begins(g)
  <2>1. PICK kind : \E target \in SUBSET Cell : Begin(g, kind, target)
    BY <1>2, BeginsFacts
  <2>2. PICK target \in SUBSET Cell : Begin(g, kind, target)
    BY <2>1
  <2>. QED
    BY <1>1, <1>2, <2>2, BeginFacts
<1>3. CASE Chooses(g)
  <2>1. /\ Request1(g) /\ requests'[g].pc \in {"finish", "loaded"}
        /\ requests'[g].wrote = requests[g].wrote
        /\ requests[g].pc \in {"begun", "loaded"}
    BY <1>1, <1>3, ChooseFacts DEF Chooses
  <2>. QED
    BY <2>1, SMT DEF Early
<1>4. CASE Stamping(g) \/ BlankCells(g)
  <2>1. /\ Request1(g) /\ requests[g].pc \in {"begun", "loaded"}
        /\ requests'[g].pc \in {"queue", "inline", "finish"}
    BY <1>1, <1>4, WriteFacts DEF Stamping
  <2>. QED
    BY <1>4, <2>1, SMT DEF Early
<1>5. CASE RequestMoves(g)
  <2>1. /\ Request1(g) /\ requests'[g].wrote = requests[g].wrote
        /\ Route(requests[g].pc, requests[g].kind, requests'[g].pc)
    BY <1>1, <1>5, RequestMoveFacts
  <2>. QED
    BY <2>1, SMT DEF Early, Route
<1>6. CASE Dies(g)
  <2>1. /\ Request1(g) /\ requests'[g].wrote = requests[g].wrote
        /\ \/ requests'[g].pc \in {"finish", "over"}
           \/ requests'[g].pc = requests[g].pc
    BY <1>1, <1>6, DiesFacts
  <2>2. requests[g].pc # "none"
    BY <1>6, DiesStarted
  <2>. QED
    BY <2>1, <2>2, SMT DEF Early
<1>. QED
  BY <1>2, <1>3, <1>4, <1>5, <1>6, Zenon DEF Requests

(* While a request has yet to write, nobody touches the lease it holds.    *)
LEMMA LeaseKept ==
  ASSUME PromptRequests, TypeInv, Prompt, [Next]_vars,
         NEW g \in Gen, requests[g].pc \in Early
  PROVE  lease' = lease
<1>1. lease = [holder |-> g, live |-> TRUE]
  BY Zenon DEF Prompt, Early
<1>2. lease.holder = g /\ lease.live /\ g # NoGen
  BY <1>1, GenFacts
<1>3. g \notin Written /\ TypeOK
  BY DEF TypeInv, Progress, Placed, Written, Early
<1>4. \A h \in Written : FinishLease(h) => lease' = lease
  BY <1>2, <1>3, Zenon DEF FinishLease
<1>5. ASSUME NEW h \in Gen, Requests(h)
      PROVE  lease' = lease
  <2>1. ~Begins(h)
    <3>1. ~\E kind : \E target \in SUBSET Cell : Begin(h, kind, target)
      BY <1>2, Zenon DEF Begin, CanBegin, LeaseHeld
    <3>. QED
      BY <3>1, BeginsFacts
  <2>2. CASE RequestMoves(h)
    <3>1. lease' = lease \/ (requests[h].pc = "finish" /\ FinishLease(h))
      BY <2>2, MoveFrame
    <3>2. requests[h].pc = "finish" => h # g
      BY SMT DEF Early
    <3>. QED
      BY <1>2, <3>1, <3>2, Zenon DEF FinishLease
  <2>. QED
    BY <1>5, <2>1, <2>2, WriteFrame, Zenon DEF Requests
<1>6. ~Times
  <2>1. ~MayLapse
    BY <1>2, <1>3, Zenon DEF MayLapse, Written, Early
  <2>2. ~Renew
    BY <1>2, Zenon DEF Renew
  <2>. QED
    BY <2>1, <2>2, Zenon DEF Times, Lapse, LapseHung
<1>7. ASSUME NEW e \in execs, Extracts(e)
      PROVE  lease' = lease
  <2>1. e.gen \in Written
    BY DEF TypeInv, Authors
  <2>. QED
    BY <1>3, <1>4, <1>7, <2>1, ExtractFacts
<1>8. SweepStep => lease' = lease
  <2>1. SweepRelease => sweep.pc = "release" /\ FinishLease(sweep.idle)
    BY Zenon DEF SweepRelease
  <2>2. sweep.pc = "release" => sweep.idle \in Written
    BY DEF TypeInv, Authors
  <2>. QED
    BY <1>4, <2>1, <2>2, OtherFrame, Zenon
<1>9. vars' = vars => lease' = lease
  BY Zenon DEF vars
<1>. QED
  BY <1>5, <1>6, <1>7, <1>8, <1>9, Groups, OtherFrame, Zenon

LEMMA PromptStep ==
  ASSUME PromptRequests, TypeInv, Prompt, [Next]_vars
  PROVE  Prompt'
<1>1. CASE requests' = requests
  <2>1. ASSUME NEW g \in Gen, requests[g].pc \in {"begun", "loaded"}
        PROVE  lease' = [holder |-> g, live |-> TRUE]
    BY <2>1, LeaseKept, Zenon DEF Prompt, Early
  <2>. QED
    BY <1>1, <2>1, Zenon DEF Prompt
<1>2. ASSUME NEW g \in Gen, Requests(g)
      PROVE  Prompt'
  <2>1. /\ Request1(g)
        /\ \/ Begins(g) /\ requests[g].pc = "none"
           \/ /\ requests[g].pc # "none" /\ requests'[g].pc # "none"
              /\ requests'[g].pc \in Early => requests[g].pc \in Early
    BY <1>2, EarlyStep
  <2>2. \A h \in Gen : h # g => requests'[h] = requests[h]
    BY <2>1 DEF Request1
  <2>3. CASE Begins(g) /\ requests[g].pc = "none"
    <3>1. PICK kind : \E target \in SUBSET Cell : Begin(g, kind, target)
      BY <2>3, BeginsFacts
    <3>2. PICK target \in SUBSET Cell : Begin(g, kind, target)
      BY <3>1
    <3>3. /\ requests'[g].pc = "begun" /\ lease' = [holder |-> g, live |-> TRUE]
          /\ \A h \in 1..(g - 1) : requests[h].pc # "none"
          /\ ~LeaseHeld
      BY <3>2, BeginFacts DEF TypeInv
    <3>4. \A h \in Gen : requests[h].pc \notin Early
      <4>1. SUFFICES ASSUME NEW h \in Gen, requests[h].pc \in Early
                     PROVE  FALSE
        OBVIOUS
      <4>2. lease = [holder |-> h, live |-> TRUE]
        BY <4>1, Zenon DEF Prompt, Early
      <4>3. lease.holder # NoGen /\ lease.live
        BY <4>2, GenFacts
      <4>. QED
        BY <3>3, <4>3, Zenon DEF LeaseHeld
    <3>5. \A h \in Gen : h < g => requests[h].pc # "none"
      BY <3>3, SMT DEF Gen
    <3>6. \A h \in Gen : h > g => requests[h].pc = "none"
      BY <2>3, Zenon DEF Prompt
    <3>7. ASSUME NEW h \in Gen
          PROVE  /\ requests'[h].pc \in Early => h = g
                 /\ requests'[h].pc \in Early \cup {"none"} => h >= g
      BY <2>2, <3>4, <3>5, SMT DEF Gen
    <3>8. ASSUME NEW h \in Gen, NEW i \in Gen, h >= g, i > h
          PROVE  requests'[i].pc = "none"
      <4>1. i > g /\ i # g
        BY <3>8, SMT DEF Gen
      <4>. QED
        BY <2>2, <3>6, <4>1
    <3>. QED
      BY <3>3, <3>7, <3>8, Zenon DEF Prompt, Early
  <2>4. CASE /\ requests[g].pc # "none" /\ requests'[g].pc # "none"
             /\ requests'[g].pc \in Early => requests[g].pc \in Early
    <3>1. ASSUME NEW h \in Gen, requests'[h].pc \in Early
          PROVE  requests[h].pc \in Early /\ lease' = [holder |-> h, live |-> TRUE]
      <4>1. requests[h].pc \in Early
        BY <2>2, <2>4, <3>1
      <4>. QED
        BY <4>1, LeaseKept, Zenon DEF Prompt, Early
    <3>2. \A h \in Gen : requests'[h].pc = "none" => requests[h].pc = "none"
      BY <2>2, <2>4
    <3>3. \A h \in Gen : requests[h].pc = "none" => requests'[h].pc = "none"
      BY <2>2, <2>4
    <3>4. ASSUME NEW h \in Gen, requests'[h].pc \in Early \cup {"none"}
          PROVE  \A i \in Gen : i > h => requests'[i].pc = "none"
      <4>1. requests[h].pc \in {"none", "begun", "loaded"}
        BY <3>1, <3>2, <3>4 DEF Early
      <4>. QED
        BY <3>3, <4>1, Zenon DEF Prompt
    <3>. QED
      BY <3>1, <3>4 DEF Prompt, Early
  <2>. QED
    BY <2>1, <2>3, <2>4
<1>. QED
  BY <1>1, <1>2, OnlyRequests

LEMMA LatestStep ==
  ASSUME TypeInv, Prompt, Latest, [Next]_vars
  PROVE  Latest'
<1>1. TypeOK /\ Frozen /\ Gen \subseteq Nat /\ NoGen \notin Gen
  BY TypeStep, GenFacts DEF TypeInv
<1>2. \A c \in Cell : cells[c].stamp # NoGen => cells[c].stamp \in Gen
  BY DEF TypeInv, Authors, Written
<1>3. ASSUME NEW c \in Cell, NEW g \in Written, c \in requests[g].target,
             cells'[c].stamp # NoGen
      PROVE  g <= cells'[c].stamp
  <2>1. g \in Gen /\ requests[g].wrote
    BY DEF Written
  <2>2. ASSUME cells[c].stamp = cells'[c].stamp
        PROVE  g <= cells'[c].stamp
    BY <1>3, <2>1, <2>2 DEF Latest
  <2>3. CASE Shrinks
    BY <1>3, <2>2, <2>3, Zenon DEF Shrinks
  <2>4. ASSUME NEW h \in Gen, Stamping(h), StampsOwn(h)
        PROVE  g <= cells'[c].stamp
    <3>1. cells'[c].stamp = h \/ cells'[c].stamp = cells[c].stamp
      BY <2>4, Zenon DEF StampsOwn
    <3>2. requests[h].pc \in {"begun", "loaded"}
      BY <1>1, <2>4, WriteFacts DEF Stamping
    <3>3. requests[g].pc # "none"
      BY <2>1 DEF TypeInv, Progress, Placed
    <3>4. ~(g > h)
      BY <2>1, <3>2, <3>3, Zenon DEF Prompt
    <3>5. g <= h
      BY <2>1, <3>4, SMT DEF Gen
    <3>. QED
      BY <2>2, <3>1, <3>5
  <2>. QED
    BY <2>3, <2>4, CellsStep
<1>4. ASSUME NEW g \in Gen, g \notin Written, requests'[g].wrote,
             NEW c \in requests'[g].target, cells'[c].stamp # NoGen
      PROVE  g <= cells'[c].stamp
  <2>1. ~requests[g].wrote /\ requests' # requests
    BY <1>4, Zenon DEF Written
  <2>2. PICK h \in Gen : Requests(h)
    BY <2>1, OnlyRequests
  <2>3. h = g
    BY <1>4, <2>1, <2>2, EarlyStep DEF Request1
  <2>4. Stamping(g) \/ BlankCells(g)
    BY <1>4, <2>1, <2>2, <2>3, EarlyStep
  <2>5. requests'[g].target = requests[g].target
    BY <1>1, <2>4, WriteFacts DEF Stamping
  <2>6. c \in Cell
    BY <1>1, <1>4, <2>5, RequestFacts DEF TypeOK
  <2>7. CASE Stamping(g)
    <3>1. StampsOwn(g)
      BY <1>1, <2>7, StampingFacts DEF Stamping
    <3>2. cells'[c].stamp = g
      BY <1>4, <2>5, <2>6, <3>1, Zenon DEF StampsOwn
    <3>. QED
      BY <1>1, <3>2
  <2>8. ~BlankCells(g)
    BY <1>1, <1>4, <2>5, <2>6, BlankFacts
  <2>. QED
    BY <2>4, <2>7, <2>8
<1>5. ASSUME NEW c \in Cell, NEW g \in Gen, requests'[g].wrote, c \in requests'[g].target,
             cells'[c].stamp # NoGen
      PROVE  g <= cells'[c].stamp
  <2>1. CASE g \in Written
    <3>1. c \in requests[g].target
      BY <1>1, <1>5, <2>1, Zenon DEF Frozen, Written
    <3>. QED
      BY <1>3, <1>5, <2>1, <3>1
  <2>2. CASE g \notin Written
    BY <1>4, <1>5, <2>2
  <2>. QED
    BY <2>1, <2>2
<1>. QED
  BY <1>5, Zenon DEF Latest

LEMMA WinnerStep ==
  ASSUME TypeInv, Latest, [Next]_vars, NEW c \in Cell,
         cells'[c].content \notin {cells[c].content, NoGen},
         NEW g \in Gen, requests[g].wrote, c \in requests[g].target
  PROVE  cells'[c].content >= g
<1>1. CASE Shrinks
  <2>1. cells'[c].content = cells[c].stamp /\ cells[c].stamp # NoGen
    BY <1>1, Zenon DEF Shrinks
  <2>2. g <= cells[c].stamp /\ cells[c].stamp \in Gen
    BY <2>1 DEF Latest, TypeInv, Authors, Written
  <2>. QED
    BY <2>1, <2>2, SMT DEF Gen
<1>2. ASSUME NEW h \in Gen, StampsOwn(h)
      PROVE  FALSE
  BY <1>2, Zenon DEF StampsOwn
<1>. QED
  BY <1>1, <1>2, CellsStep

LEMMA InitPrompt ==
  ASSUME Init
  PROVE  Prompt /\ Latest
<1>. DEFINE r == [kind |-> "generate", pc |-> "none", target |-> {}, todo |-> {},
                  queued |-> FALSE, wrote |-> FALSE, aborted |-> FALSE]
<1>1. requests = [g \in Gen |-> r]
  BY Zenon DEF Init
<1>2. \A g \in Gen : requests[g].pc = "none" /\ ~requests[g].wrote
  BY <1>1
<1>. QED
  BY <1>2 DEF Prompt, Latest

(* The latest request wins: a superseded run, its retries and its zombies  *)
(* write no result into a cell a later request has stamped or blanked.     *)
THEOREM LatestRequestWins ==
  ASSUME PromptRequests
  PROVE  Spec => OnlyLatestWrites
<1>. DEFINE Inv == TypeInv /\ Prompt /\ Latest
<1>1. Init => Inv
  BY InitTyped, InitPrompt
<1>2. Inv /\ [Next]_vars => Inv'
  BY TypeStep, PromptStep, LatestStep
<1>3. Inv /\ [Next]_vars =>
        [\A c \in Cell :
           cells'[c].content \notin {cells[c].content, NoGen} =>
             \A g \in Gen : requests[g].wrote /\ c \in requests[g].target
                              => cells'[c].content >= g]_vars
  BY WinnerStep
<1>. HIDE DEF Inv
<1>. QED
  BY <1>1, <1>2, <1>3, PTL DEF Spec, OnlyLatestWrites
=============================================================================
