--------------------------- MODULE MCControlTasks ---------------------------
(* Tasks of the control centre, in three instances that differ in which      *)
(* tasks there are and how many are cancelled; which one it is, is chosen at *)
(* the start.  A pair of a scan and a turn, with cancellations and restarts; *)
(* two scans for one thread, with cancellations; and two scans and two turns *)
(* for one thread each, where the turns run scans inline besides.            *)
EXTENDS ControlTasks

CONSTANT Pair  \* a scan task and an agent task

VARIABLE size

Present   == [pair |-> Pair, scans |-> Scan, all |-> Task]
Requests  == [pair |-> 2, scans |-> 2, all |-> 0]
Restarted == [pair |-> MaxRestarts, scans |-> 0, all |-> 0]

\* Tasks that somebody has asked to cancel.
Asked ==
  {t \in Task : caught[t] # "never" \/ (loop.op = "cancel" /\ loop.task = t)}

Small ==
  /\ \A t \in Task \ Present[size] : row[t].status = "absent"
  /\ Cardinality(Asked) <= Requests[size]
  /\ restarts <= Restarted[size]

TasksInit == Init /\ size \in DOMAIN Present
TasksNext == Next /\ UNCHANGED size /\ Small'
TasksSpec == TasksInit /\ [][TasksNext]_<<vars, size>> /\ Fairness
=============================================================================
