--------------------------- MODULE DependencyOrder --------------------------
(***************************************************************************)
(* What the job runtime promises about dependencies, with rows, leases,    *)
(* threads and retries forgotten: a job starts executing only when every   *)
(* job it depends on has succeeded, and succeeds only after it started.    *)
(***************************************************************************)
CONSTANTS Job, Deps

VARIABLES started, done

TypeOK == started \subseteq Job /\ done \subseteq Job

Init == started = {} /\ done = {}

Start(j) == /\ Deps[j] \subseteq done
            /\ started' = started \cup {j}
            /\ UNCHANGED done

Complete(j) == /\ j \in started
               /\ done' = done \cup {j}
               /\ UNCHANGED started

Next == \E j \in Job : Start(j) \/ Complete(j)

Spec == Init /\ [][Next]_<<started, done>>
=============================================================================
