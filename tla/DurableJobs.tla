---------------------------- MODULE DurableJobs ----------------------------
(***************************************************************************)
(* What the job queue promises its callers (lib/dbq/types.ts, the header   *)
(* of lib/dbq/enqueue.ts): an accepted job is owed until its effect has    *)
(* been applied at least once, the promise of a persistent job can neither *)
(* be refused nor dropped, and an answer, once given, stands.              *)
(***************************************************************************)
CONSTANTS
  Job,         \* jobs callers may submit
  Persistent,  \* jobs that are retried until they succeed
  Revocable    \* jobs a caller may take back

VARIABLES
  phase,       \* phase[j]: where the promise stands
  applied,     \* jobs whose effect has happened at least once
  revoked      \* jobs taken back after their work may have begun

dvars == <<phase, applied, revoked>>

DInit ==
  /\ phase = [j \in Job |-> "none"]
  /\ applied = {}
  /\ revoked = {}

Move(S, from, to) ==
  /\ \A j \in S : phase[j] \in from
  /\ phase' = [j \in Job |-> IF j \in S THEN to ELSE phase[j]]

Accept(j) == Move({j}, {"none"}, "owed") /\ UNCHANGED <<applied, revoked>>

(* At-least-once: the effect may be repeated, even after the answer.       *)
Apply(j) ==
  /\ phase[j] # "none"
  /\ applied' = applied \cup {j}
  /\ UNCHANGED <<phase, revoked>>

Complete(j) ==
  /\ j \in applied \cup revoked
  /\ Move({j}, {"owed"}, "settled")
  /\ UNCHANGED <<applied, revoked>>

Refuse(S) ==
  /\ S \cap Persistent = {}
  /\ Move(S, {"owed"}, "refused")
  /\ UNCHANGED <<applied, revoked>>

(* Jobs of S that have not begun are dropped, those of T are flagged.      *)
Revoke(S, T) ==
  /\ S \cup T \subseteq Revocable
  /\ Move(S, {"owed"}, "gone")
  /\ \A j \in T : phase[j] = "owed"
  /\ revoked' = revoked \cup T
  /\ UNCHANGED applied

Forget(j) ==
  /\ Move({j}, {"settled", "refused"}, "gone")
  /\ UNCHANGED <<applied, revoked>>

DNext ==
  \/ \E j \in Job : Accept(j) \/ Apply(j) \/ Complete(j) \/ Forget(j)
  \/ \E S \in SUBSET Job : Refuse(S) \/ \E T \in SUBSET Job : Revoke(S, T)

Spec == DInit /\ [][DNext]_dvars
=============================================================================
