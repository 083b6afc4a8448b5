-------------------------- MODULE MCScopedExecution -------------------------
(* Scoped execution, with interchangeable workers and savers; and the        *)
(* reports of what it stored, once with all the records there is room for,   *)
(* once with a single record while the tables are dropped.  The three parts  *)
(* share no variable (so that a client may have the name of a worker): which *)
(* one moves is chosen at the start.                                         *)
EXTENDS ScopedExecution, Reports, TLC

VARIABLE part

ExecutionInit ==
  /\ Init /\ ReportsInit
  /\ part \in {"execution", "reports", "drops"}
  /\ part # "execution" => \A j \in Job : row[j] = NewRow

Small ==
  /\ part = "reports" => drops = 0
  /\ part = "drops" => artifactCount + findingCount <= 1

ExecutionNext ==
  \/ part = "execution" /\ Next /\ UNCHANGED <<reportVars, part>>
  \/ part # "execution" /\ ReportsNext /\ UNCHANGED <<vars, part>> /\ Small'

ExecutionSpec == ExecutionInit /\ [][ExecutionNext]_<<vars, reportVars, part>>

Symmetry == Permutations(Worker) \cup Permutations(Saver)
=============================================================================
