----------------------------- MODULE MCJobQueue -----------------------------
(* Instances of JobQueue for TLC.  `ext' rows stand for extraction.extract *)
(* (deduped, cancelable, hooked, deferring), `acc' for account.delete      *)
(* (refusable) and `cln' for the cleanup kinds.                            *)
EXTENDS JobQueue, TLC

CONSTANTS ext1, ext2, mem, acc, cln, r1, r2, old, k1

(* Two extraction rows of one key on the Postgres driver. *)
PollJobs      == {ext1, ext2}
PollRunners   == {r1, r2}
PollHandles   == [r \in PollRunners |-> PollJobs]
PollKeyOf     == [j \in PollJobs |-> k1]
PollAttempts  == [j \in PollJobs |-> 2]
PollKeys      == {k1}

(* A rolling deployment, with or without Redis deliveries: `old' does not  *)
(* know the cleanup kind.                                                 *)
RollJobs      == {acc, cln}
RollRunners   == {r1, old}
RollHandles   == [r \in RollRunners |-> IF r = old THEN {acc} ELSE RollJobs]
RollKeyOf     == [j \in RollJobs |-> IF j = acc THEN k1 ELSE NoKey]
RollAttempts  == [j \in RollJobs |-> 2]
=============================================================================
