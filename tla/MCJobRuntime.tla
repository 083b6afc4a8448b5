---------------------------- MODULE MCJobRuntime ----------------------------
(* Instances of the job runtime for TLC: "fetch", and "report" which         *)
(* depends on it; fetch may be retried once.                                 *)
EXTENDS JobProperties, TLC

CONSTANTS fetch, report

ChainDeps  == (fetch :> {}) @@ (report :> {fetch})
ChainRetry == (fetch :> 1) @@ (report :> 0)
Tokens     == 1..8

WorkerSymmetry == Permutations(WorkerThread)
=============================================================================
