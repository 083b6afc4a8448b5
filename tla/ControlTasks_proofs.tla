------------------------ MODULE ControlTasks_proofs ------------------------
(***************************************************************************)
(* The promises about a cancelled scan, for any number of scans, turns,    *)
(* threads and restarts.                                                   *)
(*                                                                         *)
(* A cancellation is remembered by the stage at which it was saved (the    *)
(* history variable caught).  CancelKept is not inductive: it needs to     *)
(* know that a scan whose cancellation came early enough never reaches the *)
(* save of RUNNING (KeptRow), and that its executor, when about to settle, *)
(* has seen it.  NoEvidenceOnceStopped needs, beyond that, that the        *)
(* executor of such a scan holds no good result once its tool has ended    *)
(* (CleanHand), and that a scan whose tool is not over has no evidence yet *)
(* (NothingYet).  EventsAgree needs to know which events are still to come *)
(* (Told): of the handler, of the executor, or of both in either order.    *)
(***************************************************************************)
EXTENDS ControlTasks, TLAPS

\* Stages only a scan goes through.
ScanOnly == {"admitted", "ended", "closing", "persisting"}

\* The stages at which a cancellation keeps the scan from leaving evidence.
InTime == (Arriving \cup Working) \ {"starting"}

TypeInv ==
  /\ TypeOK
  /\ \A t \in Task : stage[t] \in ScanOnly => t \in Scan

\* The row of a scan cancelled at any stage but the two that lose it.
KeptRow(s) ==
  caught[s] \notin {"never", "starting", "settling"} =>
    /\ Cancelled(s)
    /\ stage[s] # "starting"
    /\ stage[s] = "settling" => hand[s].stop

\* What is left of a scan cancelled before its tool had ended.
CleanHand(s) ==
  caught[s] \in InTime =>
    /\ s \notin evidence
    /\ stage[s] # "persisting"
    /\ stage[s] \in {"closing", "settling"} => ~hand[s].good

\* A scan has no evidence while its tool is not over.
NothingYet(s) ==
  /\ stage[s] \in Arriving \cup Working \cup {"none"} => s \notin evidence
  /\ row[s].status = "absent" => stage[s] = "none"

\* The stages at which a cancellation may go unreported.
Late == {"starting", "settling", "persisting", "reporting"}

\* What the events of a scan tell while no server has ended.  A scan nobody
\* cancelled is told of by its executor; one that was cancelled in good time is
\* told of by the handler, and once more by an executor that saw it.
Told(s) ==
  restarts = 0 =>
    /\ row[s].status = "absent" => caught[s] = "never"
    /\ loop.task = s =>
         /\ loop.op \in {"announce", "submit"} => stage[s] = "created" /\ caught[s] = "never"
         /\ loop.op \in {"cancelled", "drop"} => caught[s] # "never"
         /\ loop.op = "cancel" => row[s].status # "absent"
    /\ caught[s] = "never" =>
         /\ stage[s] \in Arriving => row[s].status = "pending"
         /\ stage[s] \in {"persisting", "reporting"} => row[s].status = Verdict(s)
         /\ stage[s] = "over" => event[s] = row[s].status
         /\ stage[s] # "dropped"
    /\ caught[s] \notin {"never"} \cup Late =>
         /\ stage[s] \in {"none", "created", "queued", "taken", "admitted", "over", "dropped"}
              => event[s] = "cancelled" \/ (loop.task = s /\ loop.op = "cancelled")
         /\ stage[s] \in {"settling", "persisting", "reporting"} => hand[s].stop

Kept  == \A s \in Scan : KeptRow(s)
Clean == \A s \in Scan : CleanHand(s)
Early == \A s \in Scan : NothingYet(s)

IInv == TypeInv /\ Kept /\ Clean /\ Early

\* The names of the stages, unfolded at once in the steps below.
USE DEF Arriving, Working, Leaving, Held, Stage

-----------------------------------------------------------------------------
\* The initial states satisfy the invariant: no task exists.
LEMMA InitInv == Init => IInv
<1>1. Init => TypeInv
  BY TaskAssumption
  DEF Init, TypeInv, TypeOK, Row, Event, Settled, Idle, ScanOnly, Task
<1>2. Init => Kept /\ Clean /\ Early
  BY DEF Init, Kept, Clean, Early, KeptRow, CleanHand, NothingYet, InTime, Task,
         Idle
<1>. QED
  BY <1>1, <1>2 DEF IInv

\* An executor stays typed when a part of it is replaced.
LEMMA HandTyped ==
  ASSUME NEW T, NEW t \in T, NEW b \in BOOLEAN,
         NEW h \in [T -> [good : BOOLEAN, stop : BOOLEAN]]
  PROVE  /\ [h EXCEPT ![t].good = b] \in [T -> [good : BOOLEAN, stop : BOOLEAN]]
         /\ [h EXCEPT ![t].stop = b] \in [T -> [good : BOOLEAN, stop : BOOLEAN]]
<1>1. /\ [h[t] EXCEPT !.good = b] \in [good : BOOLEAN, stop : BOOLEAN]
      /\ [h[t] EXCEPT !.stop = b] \in [good : BOOLEAN, stop : BOOLEAN]
  OBVIOUS
<1>. QED
  BY <1>1

\* Every action keeps the types: a status comes from the table or from the
\* executor's verdict, a handler has a task in hand while it works.
LEMMA TypeStep == TypeInv /\ [Next]_vars => TypeInv'
<1>. SUFFICES ASSUME TypeInv, [Next]_vars PROVE TypeInv'
  OBVIOUS
<1>. USE TaskAssumption
     DEF TypeInv, TypeOK, Row, Event, Settled, ScanOnly, stored, thread, Task
<1>1. ASSUME NEW t \in Task, Execute(t) PROVE TypeInv'
  <2>1. CASE Take(t)
    BY <2>1 DEF Take, Move
  <2>2. CASE FirstLook(t)
    BY <2>2 DEF FirstLook, Move
  <2>3. CASE SecondLook(t)
    BY <2>3 DEF SecondLook, Move
  <2>4. CASE SaveRunning(t)
    BY <2>4 DEF SaveRunning, Move
  <2>5. CASE LogStarted(t)
    BY <2>5 DEF LogStarted, Move
  <2>6. CASE EndTool(t)
    <3>1. PICK good \in BOOLEAN : hand' = [hand EXCEPT ![t].good = good]
      BY <2>6 DEF EndTool
    <3>2. hand' \in [Task -> [good : BOOLEAN, stop : BOOLEAN]]
      BY <3>1, HandTyped
    <3>. QED
      BY <2>6, <3>2 DEF EndTool, Move
  <2>7. CASE StopTool(t)
    <3>1. hand' = [hand EXCEPT ![t].good = FALSE]
      BY <2>7 DEF StopTool
    <3>2. hand' \in [Task -> [good : BOOLEAN, stop : BOOLEAN]]
      BY <3>1, HandTyped
    <3>. QED
      BY <2>7, <3>2 DEF StopTool, Move
  <2>8. CASE CloseTool(t)
    <3>. DEFINE g == hand[t].good /\ StillWanted(t)
    <3>1. g \in BOOLEAN
      BY DEF StillWanted, Cancelled
    <3>2. hand' = [hand EXCEPT ![t].good = g]
      BY <2>8 DEF CloseTool
    <3>3. hand' \in [Task -> [good : BOOLEAN, stop : BOOLEAN]]
      BY <3>1, <3>2, HandTyped
    <3>4. /\ Move(t, "ended", "closing")
          /\ UNCHANGED <<stored, caller, loop, caught, restarts>>
      BY <2>8 DEF CloseTool
    <3>. QED
      BY <3>3, <3>4 DEF Move
  <2>9. CASE LookAgain(t)
    <3>. DEFINE b == SawCancel(t)
    <3>1. b \in BOOLEAN
      BY DEF SawCancel, Cancelled
    <3>2. hand' = [hand EXCEPT ![t].stop = b]
      BY <2>9 DEF LookAgain
    <3>3. hand' \in [Task -> [good : BOOLEAN, stop : BOOLEAN]]
      BY <3>1, <3>2, HandTyped
    <3>4. /\ Move(t, "closing", "settling")
          /\ UNCHANGED <<stored, caller, loop, caught, restarts>>
      BY <2>9 DEF LookAgain
    <3>. QED
      BY <3>3, <3>4 DEF Move
  <2>10. CASE EndTurn(t)
    BY <2>10 DEF EndTurn, Move
  <2>11. CASE SaveSettled(t)
    BY <2>11 DEF SaveSettled, Move, Verdict
  <2>12. CASE Persist(t)
    BY <2>12 DEF Persist, Move
  <2>13. CASE LogSettled(t)
    BY <2>13 DEF LogSettled, Move, Reported, Verdict
  <2>. QED
    BY <1>1, <2>1, <2>2, <2>3, <2>4, <2>5, <2>6, <2>7, <2>8, <2>9, <2>10,
       <2>11, <2>12, <2>13 DEF Execute
<1>2. ASSUME NEW t \in Task, CreateTask(t) PROVE TypeInv'
  BY <1>2 DEF CreateTask, Idle
<1>3. ASSUME NEW t \in Task, ReadForCancel(t) PROVE TypeInv'
  BY <1>3 DEF ReadForCancel
<1>4. ASSUME NEW a \in Agent, NEW s \in Scan, RunInline(a, s) PROVE TypeInv'
  BY <1>4 DEF RunInline
<1>5. ASSUME Handler PROVE TypeInv'
  <2>1. CASE Announce
    BY <2>1 DEF Announce, Handle
  <2>2. CASE Submit
    BY <2>2 DEF Submit, Finish, Move, Idle
  <2>3. CASE SaveCancel
    BY <2>3 DEF SaveCancel, Handle
  <2>4. CASE LogCancelled
    BY <2>4 DEF LogCancelled, Handle
  <2>5. CASE DropFuture
    BY <2>5 DEF DropFuture, Finish, Idle
  <2>. QED
    BY <1>5, <2>1, <2>2, <2>3, <2>4, <2>5 DEF Handler
<1>6. CASE Stop
  BY <1>6 DEF Stop, Restart, Idle
<1>7. CASE Kill
  BY <1>7 DEF Kill, Restart, Idle
<1>8. CASE UNCHANGED vars
  BY <1>8 DEF vars
<1>. QED
  BY <1>1, <1>2, <1>3, <1>4, <1>5, <1>6, <1>7, <1>8 DEF Next

-----------------------------------------------------------------------------
(* The executor's steps.                                                   *)

\* A step of one task's executor disturbs no other task.
LEMMA OtherTasks ==
  ASSUME TypeInv, NEW t \in Task, Execute(t), NEW u \in Task \ {t}
  PROVE  /\ stage'[u] = stage[u] /\ row'[u] = row[u] /\ hand'[u] = hand[u]
         /\ caught'[u] = caught[u] /\ (u \in evidence' <=> u \in evidence)
         /\ event'[u] = event[u] /\ loop' = loop /\ restarts' = restarts
<1>. USE DEF TypeInv, TypeOK, Move, stored, thread
<1>1. CASE Take(t) \/ FirstLook(t) \/ SecondLook(t) \/ SaveRunning(t)
  BY <1>1 DEF Take, FirstLook, SecondLook, SaveRunning
<1>2. CASE LogStarted(t) \/ LookAgain(t) \/ SaveSettled(t) \/ LogSettled(t)
  BY <1>2 DEF LogStarted, LookAgain, SaveSettled, LogSettled
<1>3. CASE EndTool(t) \/ StopTool(t) \/ EndTurn(t)
  BY <1>3 DEF EndTool, StopTool, EndTurn
<1>4. CASE CloseTool(t)
  BY <1>4 DEF CloseTool
<1>5. CASE Persist(t)
  BY <1>5 DEF Persist
<1>. QED
  BY <1>1, <1>2, <1>3, <1>4, <1>5 DEF Execute

\* A step of a scan's executor keeps what holds of that scan.
LEMMA ExecuteStep ==
  ASSUME IInv, NEW s \in Scan, Execute(s)
  PROVE  KeptRow(s)' /\ CleanHand(s)' /\ NothingYet(s)'
<1>. USE DEF Task, stored, thread
<1>1. TypeInv /\ KeptRow(s) /\ CleanHand(s) /\ NothingYet(s) /\ s \in Task
  BY DEF IInv, Kept, Clean, Early
<1>2. /\ stage \in [Task -> Stage] /\ evidence \subseteq Scan
      /\ row \in [Task -> Row]
      /\ hand \in [Task -> [good : BOOLEAN, stop : BOOLEAN]]
  BY <1>1 DEF TypeInv, TypeOK
<1>3. caught' = caught
  BY DEF Execute, Take, FirstLook, SecondLook, SaveRunning, LogStarted, EndTool,
         StopTool, CloseTool, LookAgain, EndTurn, SaveSettled, Persist, LogSettled
<1>. USE DEF KeptRow, CleanHand, NothingYet, InTime, Move, Cancelled
<1>4. CASE Take(s)
  BY <1>1, <1>2, <1>3, <1>4 DEF Take
<1>5. CASE FirstLook(s)
  BY <1>1, <1>2, <1>3, <1>5 DEF FirstLook
<1>6. CASE SecondLook(s)
  BY <1>1, <1>2, <1>3, <1>6 DEF SecondLook
<1>7. CASE SaveRunning(s)
  BY <1>1, <1>2, <1>3, <1>7 DEF SaveRunning
<1>8. CASE LogStarted(s)
  BY <1>1, <1>2, <1>3, <1>8 DEF LogStarted
<1>9. CASE EndTool(s)
  BY <1>1, <1>2, <1>3, <1>9 DEF EndTool
<1>10. CASE StopTool(s)
  BY <1>1, <1>2, <1>3, <1>10 DEF StopTool
<1>11. CASE CloseTool(s)
  BY <1>1, <1>2, <1>3, <1>11 DEF CloseTool, StillWanted
<1>12. CASE LookAgain(s)
  BY <1>1, <1>2, <1>3, <1>12 DEF LookAgain, SawCancel
<1>13. CASE EndTurn(s)
  BY <1>13, TaskAssumption DEF EndTurn
<1>14. CASE SaveSettled(s)
  BY <1>1, <1>2, <1>3, <1>14 DEF SaveSettled, Verdict
<1>15. CASE Persist(s)
  BY <1>1, <1>2, <1>3, <1>15 DEF Persist
<1>16. CASE LogSettled(s)
  BY <1>1, <1>2, <1>3, <1>16 DEF LogSettled
<1>. QED
  BY <1>4, <1>5, <1>6, <1>7, <1>8, <1>9, <1>10, <1>11, <1>12, <1>13, <1>14,
     <1>15, <1>16 DEF Execute

-----------------------------------------------------------------------------
(* The steps of the handlers and of the server.                            *)

\* Creating, submitting and cancelling tasks keeps what holds of every scan:
\* a cancellation is saved only over a row that exists, and what it finds at
\* its stage is what CleanHand asks for.
LEMMA HandlerStep ==
  ASSUME IInv, NEW s \in Scan,
         \/ \E t \in Task : CreateTask(t) \/ ReadForCancel(t)
         \/ \E a \in Agent, u \in Scan : RunInline(a, u)
         \/ Handler \/ Stop \/ Kill \/ UNCHANGED vars
  PROVE  KeptRow(s)' /\ CleanHand(s)' /\ NothingYet(s)'
<1>. USE DEF Task, stored, thread
<1>1. TypeInv /\ KeptRow(s) /\ CleanHand(s) /\ NothingYet(s) /\ s \in Task
  BY DEF IInv, Kept, Clean, Early
<1>2. /\ stage \in [Task -> Stage] /\ evidence \subseteq Scan
      /\ row \in [Task -> Row] /\ caught \in [Task -> Stage \cup {"never"}]
      /\ loop.op # "idle" => loop.task \in Task
  BY <1>1 DEF TypeInv, TypeOK
<1>. USE DEF KeptRow, CleanHand, NothingYet, InTime, Move, Cancelled
<1>3. ASSUME NEW t \in Task, CreateTask(t) \/ ReadForCancel(t)
      PROVE  KeptRow(s)' /\ CleanHand(s)' /\ NothingYet(s)'
  <2>1. CASE CreateTask(t) /\ t = s
    <3>1. caught[s] \in {"never", "starting", "settling"}
      BY <1>1, <2>1 DEF CreateTask
    <3>2. row'[s].status = "pending" /\ s \notin evidence
      BY <1>1, <1>2, <2>1 DEF CreateTask
    <3>. QED
      BY <1>1, <2>1, <3>1, <3>2 DEF CreateTask
  <2>2. CASE CreateTask(t) /\ t # s
    BY <1>1, <1>2, <2>2 DEF CreateTask
  <2>3. CASE ReadForCancel(t)
    BY <1>1, <2>3 DEF ReadForCancel
  <2>. QED
    BY <1>3, <2>1, <2>2, <2>3
<1>4. ASSUME NEW a \in Agent, NEW u \in Scan, RunInline(a, u)
      PROVE  KeptRow(s)' /\ CleanHand(s)' /\ NothingYet(s)'
  BY <1>1, <1>2, <1>4 DEF RunInline
<1>5. CASE Announce \/ LogCancelled
  BY <1>1, <1>2, <1>5 DEF Announce, LogCancelled, Handle
<1>6. CASE Submit
  BY <1>1, <1>2, <1>6 DEF Submit, Finish
<1>7. CASE SaveCancel
  BY <1>1, <1>2, <1>7 DEF SaveCancel, Handle
<1>8. CASE DropFuture
  BY <1>1, <1>2, <1>8 DEF DropFuture, Finish, Droppable
<1>9. CASE Stop \/ Kill
  BY <1>1, <1>2, <1>9 DEF Stop, Kill, Restart
<1>10. CASE UNCHANGED vars
  BY <1>1, <1>10 DEF vars
<1>. QED
  BY <1>3, <1>4, <1>5, <1>6, <1>7, <1>8, <1>9, <1>10 DEF Handler

-----------------------------------------------------------------------------
(* The theorems.                                                           *)

\* Every step keeps the invariant.
LEMMA NextInv == IInv /\ [Next]_vars => IInv'
<1>. SUFFICES ASSUME IInv, [Next]_vars PROVE IInv'
  OBVIOUS
<1>1. TypeInv'
  BY TypeStep DEF IInv
<1>2. ASSUME NEW s \in Scan PROVE KeptRow(s)' /\ CleanHand(s)' /\ NothingYet(s)'
  <2>1. CASE Execute(s)
    BY <2>1, ExecuteStep
  <2>2. ASSUME NEW t \in Task \ {s}, Execute(t)
        PROVE  KeptRow(s)' /\ CleanHand(s)' /\ NothingYet(s)'
    <3>1. /\ stage'[s] = stage[s] /\ row'[s] = row[s] /\ hand'[s] = hand[s]
          /\ caught'[s] = caught[s] /\ (s \in evidence' <=> s \in evidence)
      BY <2>2, OtherTasks DEF IInv, Task
    <3>2. KeptRow(s) /\ CleanHand(s) /\ NothingYet(s)
      BY DEF IInv, Kept, Clean, Early
    <3>. QED
      BY <3>1, <3>2 DEF KeptRow, CleanHand, NothingYet, Cancelled
  <2>3. ASSUME \/ \E t \in Task : CreateTask(t) \/ ReadForCancel(t)
               \/ \E a \in Agent, u \in Scan : RunInline(a, u)
               \/ Handler \/ Stop \/ Kill \/ UNCHANGED vars
        PROVE  KeptRow(s)' /\ CleanHand(s)' /\ NothingYet(s)'
    BY <2>3, HandlerStep
  <2>. QED
    BY <2>1, <2>2, <2>3 DEF Next, Task
<1>. QED
  BY <1>1, <1>2 DEF IInv, Kept, Clean, Early

\* The invariant holds in every reachable state.
THEOREM TasksInvariant == Spec => []IInv
<1>. QED
  BY InitInv, NextInv, PTL DEF Spec

\* TypeOK, the run's type invariant: rows, events and the executors' and the
\* handler's state are what the code can store.
THEOREM TasksTyped == Spec => []TypeOK
<1>1. IInv => TypeOK
  BY DEF IInv, TypeInv
<1>. QED
  BY <1>1, TasksInvariant, PTL

\* CancelKept: only a cancellation saved between the executor's last look at
\* the row and its save (scanner_service.py:302-307 and 325-332) is lost.
THEOREM CancelOutlastsScan == Spec => []CancelKept
<1>1. IInv => CancelKept
  BY DEF IInv, Kept, KeptRow, CancelKept
<1>. QED
  BY <1>1, TasksInvariant, PTL

\* NoEvidenceOnceStopped: a scan cancelled before its tool had ended leaves
\* no evidence, unless the cancellation met the save of RUNNING.
THEOREM CancelledLeavesNothing == Spec => []NoEvidenceOnceStopped
<1>1. IInv => NoEvidenceOnceStopped
  BY DEF IInv, TypeInv, TypeOK, Clean, CleanHand, InTime, NoEvidenceOnceStopped
<1>. QED
  BY <1>1, TasksInvariant, PTL

-----------------------------------------------------------------------------
(* The events of a scan.                                                   *)

TellInv == IInv /\ \A s \in Scan : Told(s)

\* No task exists at first.
LEMMA InitTold == Init => TellInv
<1>1. Init => \A s \in Scan : Told(s)
  BY TaskAssumption DEF Init, Told, Idle, Task, Late
<1>. QED
  BY <1>1, InitInv DEF TellInv

\* What the executor of a scan does to its events.
LEMMA ExecuteTold ==
  ASSUME TellInv, NEW s \in Scan, Execute(s)
  PROVE  Told(s)'
<1>. USE DEF Task, stored, thread
<1>1. TypeInv /\ KeptRow(s) /\ NothingYet(s) /\ Told(s) /\ s \in Task
  BY DEF TellInv, IInv, Kept, Early
<1>2. /\ stage \in [Task -> Stage] /\ row \in [Task -> Row] /\ event \in [Task -> Event]
      /\ hand \in [Task -> [good : BOOLEAN, stop : BOOLEAN]]
  BY <1>1 DEF TypeInv, TypeOK
<1>3. UNCHANGED <<caught, loop, restarts>>
  BY DEF Execute, Take, FirstLook, SecondLook, SaveRunning, LogStarted, EndTool,
         StopTool, CloseTool, LookAgain, EndTurn, SaveSettled, Persist, LogSettled
<1>. USE DEF Told, Move, Cancelled, Late
<1>4. CASE Take(s)
  BY <1>1, <1>2, <1>3, <1>4 DEF Take, Verdict
<1>5. CASE FirstLook(s)
  BY <1>1, <1>2, <1>3, <1>5 DEF FirstLook, Verdict, KeptRow
<1>6. CASE SecondLook(s)
  BY <1>1, <1>2, <1>3, <1>6 DEF SecondLook, Verdict, KeptRow
<1>7. CASE SaveRunning(s)
  BY <1>1, <1>2, <1>3, <1>7 DEF SaveRunning, NothingYet, Row
<1>8. CASE LogStarted(s)
  BY <1>1, <1>2, <1>3, <1>8 DEF LogStarted
<1>9. CASE EndTool(s)
  BY <1>1, <1>2, <1>3, <1>9 DEF EndTool
<1>10. CASE StopTool(s)
  BY <1>1, <1>2, <1>3, <1>10 DEF StopTool
<1>11. CASE CloseTool(s)
  BY <1>1, <1>2, <1>3, <1>11 DEF CloseTool
<1>12. CASE LookAgain(s)
  BY <1>1, <1>2, <1>3, <1>12 DEF LookAgain, SawCancel, KeptRow
<1>13. CASE EndTurn(s)
  BY <1>13, TaskAssumption DEF EndTurn
<1>14. CASE SaveSettled(s)
  BY <1>1, <1>2, <1>3, <1>14 DEF SaveSettled, Verdict, KeptRow
<1>15. CASE Persist(s)
  BY <1>1, <1>2, <1>3, <1>15 DEF Persist, Verdict
<1>16. CASE LogSettled(s)
  BY <1>1, <1>2, <1>3, <1>16 DEF LogSettled, Reported, Verdict
<1>. QED
  BY <1>4, <1>5, <1>6, <1>7, <1>8, <1>9, <1>10, <1>11, <1>12, <1>13, <1>14,
     <1>15, <1>16 DEF Execute

\* What the handlers and the ends of the server do to them.
LEMMA HandlerTold ==
  ASSUME TellInv, NEW s \in Scan,
         \/ \E t \in Task : CreateTask(t) \/ ReadForCancel(t)
         \/ \E a \in Agent, u \in Scan : RunInline(a, u)
         \/ Handler \/ Stop \/ Kill \/ UNCHANGED vars
  PROVE  Told(s)'
<1>. USE DEF Task, stored, thread
<1>1. TypeInv /\ KeptRow(s) /\ NothingYet(s) /\ Told(s) /\ s \in Task
  BY DEF TellInv, IInv, Kept, Early
<1>2. /\ stage \in [Task -> Stage] /\ row \in [Task -> Row] /\ event \in [Task -> Event]
      /\ caught \in [Task -> Stage \cup {"never"}] /\ restarts \in Nat
      /\ loop.op # "idle" => loop.task \in Task
      /\ loop \in [op : {"idle", "announce", "submit", "cancel", "cancelled", "drop"},
                   task : Task \cup {NoTask}, row : Row]
  BY <1>1, TaskAssumption DEF TypeInv, TypeOK
<1>. USE DEF Told, Move, Cancelled, Late, Verdict
<1>3. ASSUME NEW t \in Task, CreateTask(t) PROVE Told(s)'
  <2>1. CASE t = s
    BY <1>1, <1>2, <1>3, <2>1 DEF CreateTask, Idle, KeptRow, NothingYet
  <2>2. CASE t # s
    BY <1>1, <1>2, <1>3, <2>2 DEF CreateTask, Idle
  <2>. QED
    BY <2>1, <2>2
<1>4. ASSUME NEW t \in Task, ReadForCancel(t) PROVE Told(s)'
  BY <1>1, <1>2, <1>4 DEF ReadForCancel
<1>5. ASSUME NEW a \in Agent, NEW u \in Scan, RunInline(a, u) PROVE Told(s)'
  BY <1>1, <1>2, <1>5 DEF RunInline, NothingYet, KeptRow
<1>6. CASE Announce
  BY <1>1, <1>2, <1>6 DEF Announce, Handle
<1>7. CASE Submit
  BY <1>1, <1>2, <1>7, TaskAssumption DEF Submit, Finish, Idle
<1>8. CASE SaveCancel
  BY <1>1, <1>2, <1>8 DEF SaveCancel, Handle, Row
<1>9. CASE LogCancelled
  BY <1>1, <1>2, <1>9 DEF LogCancelled, Handle
<1>10. CASE DropFuture
  BY <1>1, <1>2, <1>10, TaskAssumption DEF DropFuture, Finish, Droppable, Idle
<1>11. CASE Stop \/ Kill
  BY <1>1, <1>2, <1>11 DEF Stop, Kill, Restart
<1>12. CASE UNCHANGED vars
  BY <1>1, <1>12 DEF vars
<1>. QED
  BY <1>3, <1>4, <1>5, <1>6, <1>7, <1>8, <1>9, <1>10, <1>11, <1>12 DEF Handler

\* Every step keeps what the events tell.
LEMMA NextTold == TellInv /\ [Next]_vars => TellInv'
<1>. SUFFICES ASSUME TellInv, [Next]_vars PROVE TellInv'
  OBVIOUS
<1>1. IInv'
  BY NextInv DEF TellInv
<1>2. ASSUME NEW s \in Scan PROVE Told(s)'
  <2>1. CASE Execute(s)
    BY <2>1, ExecuteTold
  <2>2. ASSUME NEW t \in Task \ {s}, Execute(t) PROVE Told(s)'
    <3>1. /\ stage'[s] = stage[s] /\ row'[s] = row[s] /\ hand'[s] = hand[s]
          /\ caught'[s] = caught[s] /\ event'[s] = event[s] /\ loop' = loop
          /\ restarts' = restarts
      BY <2>2, OtherTasks DEF TellInv, IInv, Task
    <3>2. Told(s)
      BY DEF TellInv
    <3>. QED
      BY <3>1, <3>2 DEF Told, Verdict
  <2>3. ASSUME \/ \E t \in Task : CreateTask(t) \/ ReadForCancel(t)
               \/ \E a \in Agent, u \in Scan : RunInline(a, u)
               \/ Handler \/ Stop \/ Kill \/ UNCHANGED vars
        PROVE  Told(s)'
    BY <2>3, HandlerTold
  <2>. QED
    BY <2>1, <2>2, <2>3 DEF Next, Task
<1>. QED
  BY <1>1, <1>2 DEF TellInv

\* EventsAgree: the last event of a scan that is over tells the status of its
\* row, unless a cancellation came when the executor was about to save or to
\* report (scanner_service.py:302 and 325-366).
THEOREM EventsTellStatus == Spec => []EventsAgree
<1>1. TellInv => EventsAgree
  <2>. SUFFICES ASSUME TellInv, NEW s \in Scan, stage[s] \in {"over", "dropped"},
                       loop.task # s, restarts = 0, caught[s] \notin Late
                PROVE  event[s] = row[s].status
    BY DEF EventsAgree, Late
  <2>1. Told(s) /\ KeptRow(s)
    BY DEF TellInv, IInv, Kept
  <2>2. CASE caught[s] = "never"
    BY <2>1, <2>2 DEF Told
  <2>3. CASE caught[s] # "never"
    BY <2>1, <2>3 DEF Told, KeptRow, Cancelled, Late
  <2>. QED
    BY <2>2, <2>3
<1>. QED
  BY <1>1, InitTold, NextTold, PTL DEF Spec
=============================================================================
