------------------------------ MODULE MCProject ------------------------------
(* The targets, the records and the rows of a project.  The three parts share *)
(* no variable, so that what is true of each is checked of each alone; which  *)
(* part moves is chosen at the start.                                         *)
EXTENDS MCTargetPool, Records, Projects

CONSTANTS s1, s2, t1

MCOrder == <<s1, s2>>

VARIABLE part

Parts == {"targets", "records", "rows"}

ProjectInit == Init /\ RecordsInit /\ ProjectsInit /\ part \in Parts

ProjectNext ==
  \/ part = "targets" /\ Next /\ UNCHANGED <<recordVars, projectVars, part>>
  \/ part = "records" /\ RecordsNext /\ UNCHANGED <<vars, projectVars, part>>
  \/ part = "rows" /\ ProjectsNext /\ UNCHANGED <<vars, recordVars, part>>

ProjectSpec == ProjectInit /\ [][ProjectNext]_<<vars, recordVars, projectVars, part>>
=============================================================================
