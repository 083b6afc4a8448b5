----------------------------- MODULE MCProcesses ------------------------------
(* Two terminals, of which one may be opened after the other was closed and   *)
(* take its descriptor number; a scanner process; and two processes of the    *)
(* program that start.  The parts share no variable: which one moves is       *)
(* chosen at the start.                                                       *)
EXTENDS Terminals, ProcessRun, Checkpoints

CONSTANTS first, second, p1, p2

VARIABLE part

allVars == <<vars, runVars, checkpointVars, part>>

ProcessesInit ==
  /\ Init /\ RunInit /\ CheckpointsInit /\ part \in {"terminals", "scanner", "start"}
  /\ part # "start" => ~folder

ProcessesNext ==
  \/ part = "terminals" /\ Next /\ UNCHANGED <<runVars, checkpointVars, part>>
  \/ part = "scanner" /\ RunNext /\ UNCHANGED <<vars, checkpointVars, part>>
  \/ part = "start" /\ CheckpointsNext /\ UNCHANGED <<vars, runVars, part>>

\* Nothing that is fair is enabled in a part that has not moved.
ProcessesSpec ==
  ProcessesInit /\ [][ProcessesNext]_allVars /\ Fair /\ RunFair /\ CheckpointsFair
=============================================================================
