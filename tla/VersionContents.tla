-------------------------- MODULE VersionContents --------------------------
(***************************************************************************)
(* What one row of document_versions says about the bytes in storage.      *)
(*                                                                         *)
(* A version names a source file, may name a PDF rendition of it, and may  *)
(* carry the SHA-256 of the file, which the export manifest prints.  Three *)
(* kinds of writers work on it without a common lock: requests that accept *)
(* or reject a tracked change rewrite the file in place (resolveEdit), a   *)
(* conversion job renders the file the version was created with and        *)
(* attaches the result (runConversionJob), an upload replaces the file     *)
(* under a new key.  The version may be deleted at any time, and a cleanup *)
(* job deletes the keys that the trigger and the conversion give up.       *)
(*                                                                         *)
(* A content is the file it came from and the tracked changes resolved in  *)
(* it; a hash is the content it was computed from; a rendition is the      *)
(* content it was rendered from.  DocumentCleanup has the life of cleanup  *)
(* rows and the uploads in detail; here a cleanup row is the key it names. *)
(***************************************************************************)
EXTENDS Naturals

CONSTANTS
  Initial,      \* the file the version was created with
  Replacement,  \* the files that uploads put in its place
  Edit,         \* tracked changes of the document, document_edits
  Request,      \* slots for requests that resolve a change
  Worker,       \* slots for workers that run the conversion
  Nothing,      \* no content, key, change or worker
  MaxAttempts,  \* maxAttempts of conversion.convert
  MaxRequests,  \* bound: requests that reach a file
  MaxFaults     \* bound: faults of workers, database and queue

File    == {Initial} \cup Replacement
Key     == {"file", "pdf"} \X File
Content == [file : File, resolved : SUBSET Edit]

ASSUME ConstAssumption ==
  /\ Initial \notin Replacement
  /\ Nothing \notin Content \cup Key \cup Edit \cup Worker \cup File
  /\ MaxAttempts \in Nat \ {0}
  /\ MaxRequests \in Nat
  /\ MaxFaults \in Nat

VARIABLES
  live,      \* the row of the version is there and not deleted
  file,      \* its storage_path
  pdf,       \* its pdf_storage_path
  hash,      \* its content_sha256, as the content it is the hash of
  object,    \* the object store
  owed,      \* keys named by document.cleanup rows yet to run
  cleaner,   \* the key a cleanup run has found unreferenced
  job,       \* the conversion.convert row
  worker,    \* what each conversion worker is doing
  request,   \* what each resolving request is doing
  marked,    \* changes whose row says accepted or rejected
  requests,  \* how many requests have reached a file
  faults,    \* how many faults have happened
  crossed,   \* history: "bytes", two writers were at the file at once;
             \* "rendition", a rewrite and a conversion were
  adrift     \* history: keys written by someone who could no longer, or
             \* did not live to, have them named or cleaned up

version == <<live, file, pdf, hash>>

vars == <<live, file, pdf, hash, object, owed, cleaner, job, worker, request, marked,
          requests, faults, crossed, adrift>>

Source(f)    == <<"file", f>>
Rendition(f) == <<"pdf", f>>
Fresh(f)     == [file |-> f, resolved |-> {}]

WorkerPc  == {"idle", "converted", "uploaded", "reject", "report"}
RequestPc == {"idle", "read", "cleared", "written", "mark"}

TypeOK ==
  /\ live \in BOOLEAN
  /\ file \in File
  /\ pdf \in Key \cup {Nothing}
  /\ hash \in Content \cup {Nothing}
  /\ object \in [Key -> Content \cup {Nothing}]
  /\ owed \subseteq Key
  /\ cleaner \in Key \cup {Nothing}
  /\ job \in [status : {"pending", "running", "done", "failed"},
              attempts : 0..MaxAttempts, holder : Worker \cup {Nothing}]
  /\ worker \in [Worker -> [pc : WorkerPc, held : Content \cup {Nothing}]]
  /\ request \in [Request -> [pc : RequestPc, edit : Edit \cup {Nothing},
                              file : File \cup {Nothing},
                              base : Content \cup {Nothing}]]
  /\ marked \subseteq Edit
  /\ requests \in 0..MaxRequests
  /\ faults \in 0..MaxFaults
  /\ crossed \subseteq {"bytes", "rendition"}
  /\ adrift \subseteq Key

NoRun     == [pc |-> "idle", held |-> Nothing]
NoRequest == [pc |-> "idle", edit |-> Nothing, file |-> Nothing,
              base |-> Nothing]

(* A version as copyVersion leaves it: the file is there and hashed, its   *)
(* rendition is left to the queue.                                         *)
Init ==
  /\ live = TRUE
  /\ file = Initial
  /\ pdf = Nothing
  /\ hash = Fresh(Initial)
  /\ object = [k \in Key |-> IF k = Source(Initial) THEN Fresh(Initial)
                             ELSE Nothing]
  /\ owed = {}
  /\ cleaner = Nothing
  /\ job = [status |-> "pending", attempts |-> 0, holder |-> Nothing]
  /\ worker = [w \in Worker |-> NoRun]
  /\ request = [q \in Request |-> NoRequest]
  /\ marked = {}
  /\ requests = 0
  /\ faults = 0
  /\ crossed = {}
  /\ adrift = {}

Fault == faults < MaxFaults /\ faults' = faults + 1

(* What document_cleanup_referenced_keys returns.                          *)
Referenced(k) ==
  live /\ (k = Source(file) \/ k = pdf)

Keys(k) == {k} \ {Nothing}

Rewriting(q)  == request[q].pc \in {"read", "cleared", "written"}
Rewriters     == {q \in Request : Rewriting(q)}
Converting(w) == worker[w].pc \in {"converted", "uploaded"}
Converters    == {w \in Worker : Converting(w)}

(* The file is in two hands: a writer arrives while others are at it.      *)
Meets(others, what) == IF others = {} THEN {} ELSE {what}

-----------------------------------------------------------------------------
(* Requests that accept or reject a tracked change.                        *)

Goto(q, pc) == request' = [request EXCEPT ![q].pc = pc]

(* What is left of a request once the bytes are written.                   *)
Marking(e) == [pc |-> "mark", edit |-> e, file |-> Nothing, base |-> Nothing]

(* The change is pending; the active version and its bytes are read.  A    *)
(* change that the bytes no longer show is only marked.                    *)
Read(q, e) ==
  LET c == object[Source(file)] IN
  /\ request[q].pc = "idle"
  /\ e \notin marked
  /\ live
  /\ c # Nothing
  /\ requests < MaxRequests
  /\ requests' = requests + 1
  /\ request' = [request EXCEPT ![q] =
       IF e \in c.resolved THEN Marking(e)
       ELSE [pc |-> "read", edit |-> e, file |-> file, base |-> c]]
  /\ crossed' = IF e \in c.resolved THEN crossed
                ELSE crossed \cup Meets(Rewriters, "bytes")
                             \cup Meets(Converters, "rendition")
  /\ UNCHANGED <<version, object, owed, cleaner, job, worker, marked, faults,
                 adrift>>

(* Mutation: the hash stays while the bytes change.                        *)
ClearRenditionOnly(q) ==
  /\ request[q].pc = "read"
  /\ Goto(q, "cleared")
  /\ \/ live /\ pdf' = Nothing /\ owed' = owed \cup Keys(pdf)
     \/ ~live /\ UNCHANGED <<pdf, owed>>
  /\ UNCHANGED <<live, file, hash, object, cleaner, job, worker, marked,
                 requests, faults, crossed, adrift>>

(* Hash and rendition are given up before the bytes change; the trigger    *)
(* retires the rendition.  A version that is gone matches no row, which    *)
(* the caller does not notice.                                             *)
Clear(q) ==
  /\ request[q].pc = "read"
  /\ Goto(q, "cleared")
  /\ \/ live /\ hash' = Nothing /\ pdf' = Nothing /\ owed' = owed \cup Keys(pdf)
     \/ ~live /\ UNCHANGED <<hash, pdf, owed>>
  /\ UNCHANGED <<live, file, object, cleaner, job, worker, marked, requests,
                 faults, crossed, adrift>>

Resolved(q) ==
  [file |-> request[q].base.file,
   resolved |-> request[q].base.resolved \cup {request[q].edit}]

(* The resolved bytes go to the path that was read, whoever names it now.  *)
Overwrite(q) ==
  LET k == Source(request[q].file) IN
  /\ request[q].pc = "cleared"
  /\ Goto(q, "written")
  /\ object' = [object EXCEPT ![k] = Resolved(q)]
  /\ adrift' = IF Referenced(k) THEN adrift ELSE adrift \cup {k}
  /\ UNCHANGED <<version, owed, cleaner, job, worker, marked, requests, faults,
                 crossed>>

(* The hash of the request's own bytes goes to the version, whatever file  *)
(* it names now; if the update fails the version stays unhashed.           *)
Rehash(q) ==
  /\ request[q].pc = "written"
  /\ request' = [request EXCEPT ![q] = Marking(request[q].edit)]
  /\ (live /\ hash' = Resolved(q)) \/ UNCHANGED hash
  /\ UNCHANGED <<live, file, pdf, object, owed, cleaner, job, worker, marked,
                 requests, faults, crossed, adrift>>

Mark(q) ==
  /\ request[q].pc = "mark"
  /\ marked' = marked \cup {request[q].edit}
  /\ request' = [request EXCEPT ![q] = NoRequest]
  /\ UNCHANGED <<version, object, owed, cleaner, job, worker, requests, faults,
                 crossed, adrift>>

(* A storage or database call fails, or the process stops.                 *)
Quit(q) ==
  /\ request[q].pc # "idle"
  /\ Fault
  /\ request' = [request EXCEPT ![q] = NoRequest]
  /\ UNCHANGED <<version, object, owed, cleaner, job, worker, marked, requests,
                 crossed, adrift>>

-----------------------------------------------------------------------------
(* Replacement and deletion.                                               *)

(* An upload has stored file f under fresh keys, and a rendition unless    *)
(* converting failed; the version now names them and the trigger retires   *)
(* what it named.  The new file is in nobody's hands unless a rewrite of   *)
(* the old one is still under way.                                         *)
Replace(f, converted) ==
  /\ live
  /\ file # f
  /\ \A k \in {Source(f), Rendition(f)} :
       object[k] = Nothing /\ k \notin owed /\ k # cleaner
  /\ object' = [k \in Key |-> IF k = Source(f) \/ (converted /\ k = Rendition(f))
                              THEN Fresh(f) ELSE object[k]]
  /\ file' = f
  /\ pdf' = IF converted THEN Rendition(f) ELSE Nothing
  /\ hash' = Fresh(f)
  /\ owed' = owed \cup {Source(file)} \cup Keys(pdf)
  /\ crossed' = Meets(Rewriters, "bytes") \cup Meets(Rewriters, "rendition")
  /\ UNCHANGED <<live, cleaner, job, worker, request, marked, requests, faults,
                 adrift>>

(* The version, or its document, is deleted.                               *)
Delete ==
  /\ live
  /\ live' = FALSE
  /\ owed' = owed \cup {Source(file)} \cup Keys(pdf)
  /\ UNCHANGED <<file, pdf, hash, object, cleaner, job, worker, request, marked,
                 requests, faults, crossed, adrift>>

-----------------------------------------------------------------------------
(* The conversion job.                                                     *)

At(w, pc) == worker' = [worker EXCEPT ![w].pc = pc]

(* A claim may follow one whose worker died, and after 600 seconds also    *)
(* one whose worker still runs.                                            *)
Claimable ==
  \/ job.status = "pending" /\ UNCHANGED faults
  \/ /\ job.status = "running"
     /\ IF worker[job.holder].pc = "idle" THEN UNCHANGED faults ELSE Fault

Closed(status, attempts) ==
  [status |-> status, attempts |-> attempts, holder |-> Nothing]

(* The runner settles the row, unless it was claimed again.                *)
Settled(w, status) ==
  IF job.status = "running" /\ job.holder = w THEN Closed(status, job.attempts)
  ELSE job

(* The attempt succeeds; the worker may stop before the row is settled.    *)
Finish(w) ==
  /\ worker' = [worker EXCEPT ![w] = NoRun]
  /\ \/ job' = Settled(w, "done") /\ UNCHANGED faults
     \/ UNCHANGED job /\ Fault

(* The attempt throws.                                                     *)
Throw(w) ==
  /\ worker' = [worker EXCEPT ![w] = NoRun]
  /\ job' = Settled(w, IF job.attempts < MaxAttempts THEN "pending" ELSE "failed")

(* Mutation: one attempt too many.                                         *)
HasOneMore == job.attempts <= MaxAttempts

(* claim_db_jobs takes no row that has spent its attempts.                 *)
HasBudget == job.attempts < MaxAttempts

(* The row is claimed, the original is downloaded; the attempt throws      *)
(* when it is not there.                                                   *)
Claim(w) ==
  LET c == object[Source(Initial)] IN
  /\ worker[w].pc = "idle"
  /\ Claimable
  /\ HasBudget
  /\ IF c = Nothing
     THEN /\ job' = Closed(IF job.attempts + 1 < MaxAttempts
                           THEN "pending" ELSE "failed", job.attempts + 1)
          /\ UNCHANGED <<worker, crossed>>
     ELSE /\ job' = [status |-> "running", attempts |-> job.attempts + 1,
                     holder |-> w]
          /\ worker' = [worker EXCEPT ![w] = [pc |-> "converted", held |-> c]]
          /\ crossed' = crossed \cup Meets(Rewriters, "rendition")
  /\ UNCHANGED <<version, object, owed, cleaner, request, marked, requests,
                 adrift>>

(* A row whose last attempt died or hangs is failed.                       *)
Abandon ==
  /\ Claimable /\ job.status = "running" /\ ~HasBudget
  /\ job' = Closed("failed", job.attempts)
  /\ UNCHANGED <<version, object, owed, cleaner, worker, request, marked,
                 requests, crossed, adrift>>

(* LibreOffice fails: the version stays without a rendition.               *)
ConvertFails(w) ==
  /\ worker[w].pc = "converted"
  /\ Finish(w)
  /\ UNCHANGED <<version, object, owed, cleaner, request, marked, requests,
                 crossed, adrift>>

UploadRendition(w) ==
  /\ worker[w].pc = "converted"
  /\ worker' = [worker EXCEPT ![w] = [pc |-> "uploaded", held |-> Nothing]]
  /\ object' = [object EXCEPT ![Rendition(Initial)] = worker[w].held]
  /\ UNCHANGED <<version, owed, cleaner, job, request, marked, requests,
                 faults, crossed, adrift>>

(* Mutation: the update is addressed by the version alone.                 *)
CurrentByVersion == live

(* The fence of the update: a live version that names the converted file.  *)
Current == live /\ file = Initial

(* The rendition is attached, is refused, or the update fails, with or     *)
(* without having been carried out.                                        *)
Attach(w) ==
  /\ worker[w].pc = "uploaded"
  /\ \/ /\ Current
        /\ pdf' = Rendition(Initial)
        /\ adrift' = adrift \ {Rendition(Initial)}
        /\ Finish(w)
     \/ /\ ~Current
        /\ At(w, "reject")
        /\ UNCHANGED <<pdf, job, faults, adrift>>
     \/ /\ Fault
        /\ (Current /\ pdf' = Rendition(Initial)) \/ UNCHANGED pdf
        /\ At(w, "report")
        /\ UNCHANGED <<job, adrift>>
  /\ UNCHANGED <<live, file, hash, object, owed, cleaner, request, marked,
                 requests, crossed>>

(* Mutation: only a failed update leads to a cleanup row.                  *)
ReportErrorsOnly(w) ==
  /\ \/ worker[w].pc = "reject" /\ Finish(w) /\ UNCHANGED owed
     \/ /\ worker[w].pc = "report" /\ Throw(w) /\ UNCHANGED faults
        /\ owed' = owed \cup {Rendition(Initial)}
  /\ adrift' = adrift \ {Rendition(Initial)}
  /\ UNCHANGED <<version, object, cleaner, request, marked, requests, crossed>>

(* A cleanup row is written for a rendition that could not be attached; an *)
(* attempt whose update failed throws after that.                          *)
Report(w) ==
  /\ \/ worker[w].pc = "reject" /\ Finish(w)
     \/ worker[w].pc = "report" /\ Throw(w) /\ UNCHANGED faults
  /\ owed' = owed \cup {Rendition(Initial)}
  /\ adrift' = adrift \ {Rendition(Initial)}
  /\ UNCHANGED <<version, object, cleaner, request, marked, requests, crossed>>

(* A rendition in the hands of an attempt that ends here.                  *)
Dropped(w) ==
  IF worker[w].pc \in {"uploaded", "reject", "report"}
  THEN {Rendition(Initial)} ELSE {}

(* A storage call fails or the cleanup row cannot be written.              *)
Fail(w) ==
  /\ worker[w].pc \in {"converted", "reject", "report"}
  /\ Fault
  /\ Throw(w)
  /\ adrift' = adrift \cup Dropped(w)
  /\ UNCHANGED <<version, object, owed, cleaner, request, marked, requests,
                 crossed>>

(* The worker process stops; its claim stays.                              *)
Die(w) ==
  /\ worker[w].pc # "idle"
  /\ Fault
  /\ worker' = [worker EXCEPT ![w] = NoRun]
  /\ adrift' = adrift \cup Dropped(w)
  /\ UNCHANGED <<version, object, owed, cleaner, job, request, marked,
                 requests, crossed>>

-----------------------------------------------------------------------------
(* The cleanup job.                                                        *)

(* A row is claimed and its key looked up: a referenced key is kept.       *)
Lookup(k) ==
  /\ cleaner = Nothing
  /\ k \in owed
  /\ owed' = owed \ {k}
  /\ cleaner' = IF Referenced(k) THEN Nothing ELSE k
  /\ UNCHANGED <<version, object, job, worker, request, marked, requests,
                 faults, crossed, adrift>>

EraseObject ==
  /\ cleaner # Nothing
  /\ object' = [object EXCEPT ![cleaner] = Nothing]
  /\ cleaner' = Nothing
  /\ UNCHANGED <<version, owed, job, worker, request, marked, requests, faults,
                 crossed, adrift>>

(* The delete fails or the run dies: the row comes back.                   *)
CleanupRetry ==
  /\ cleaner # Nothing
  /\ owed' = owed \cup {cleaner}
  /\ cleaner' = Nothing
  /\ UNCHANGED <<version, object, job, worker, request, marked, requests,
                 faults, crossed, adrift>>

-----------------------------------------------------------------------------
Resolving ==
  \/ \E q \in Request, e \in Edit : Read(q, e)
  \/ \E q \in Request : \/ Clear(q) \/ Overwrite(q) \/ Rehash(q) \/ Mark(q)
                        \/ Quit(q)

Conversion ==
  \/ Abandon
  \/ \E w \in Worker :
       \/ Claim(w) \/ ConvertFails(w) \/ UploadRendition(w)
       \/ Attach(w) \/ Report(w) \/ Fail(w) \/ Die(w)

Cleanup == (\E k \in Key : Lookup(k)) \/ EraseObject \/ CleanupRetry

Next ==
  \/ Resolving
  \/ Conversion
  \/ Cleanup
  \/ \E f \in Replacement, converted \in BOOLEAN : Replace(f, converted)
  \/ Delete

Spec == Init /\ [][Next]_vars

-----------------------------------------------------------------------------
(* Properties.                                                             *)

Bytes == object[Source(file)]

(* The comment of resolveEdit: the stored hash never attests to content    *)
(* the version no longer holds.                                            *)
HashNamesTheBytes ==
  live /\ hash # Nothing => Bytes = hash

(* As long as one writer at a time is at the file, and wherever writers    *)
(* and workers stop or fail, the hash of a live version is that of its     *)
(* bytes, and a change that is marked as resolved is resolved in them.     *)
RecordMatchesBytes ==
  live /\ "bytes" \notin crossed =>
    /\ hash \in {Nothing, Bytes}
    /\ file = Initial => marked \subseteq Bytes.resolved

(* The rendition a live version names was rendered from the bytes it       *)
(* holds: no rewrite leaves an older rendition attached, and a conversion  *)
(* that finishes late never attaches one of a file that was replaced,      *)
(* unless a rewrite and the reading or publishing of a conversion cross.   *)
RenditionMatchesBytes ==
  live /\ pdf # Nothing /\ crossed = {} =>
    object[pdf] \in {Nothing, Bytes}

InHand(k) ==
  \/ cleaner = k
  \/ k = Rendition(Initial) /\ \E w \in Worker :
       worker[w].pc \in {"uploaded", "reject", "report"}

(* Bytes that no live version names are named by a cleanup row or are in   *)
(* the hands of the attempt that will attach or report them, unless an     *)
(* attempt stopped in between or a rewrite came after the retirement.      *)
DeadBytesOwed ==
  \A k \in Key \ adrift :
    object[k] # Nothing /\ ~Referenced(k) => k \in owed \/ InHand(k)
=============================================================================
