----------------------------- MODULE Checkpoints ------------------------------
(***************************************************************************)
(* The checkpoints of a session: rows of a table, each with a blob in a    *)
(* file of its own.  Earlier versions kept the blobs elsewhere, so that    *)
(* every process that starts moves those it finds, one by one, and records *)
(* the new places in one transaction.  Processes share table and files;    *)
(* one may die at any step, and start again.                               *)
(*                                                                         *)
(* Checkpoints are numbered in the order of created_at.  Left out: what is *)
(* in a blob, which is as it was saved or something else; other sessions;  *)
(* temporary files, which are renamed when they are complete.              *)
(***************************************************************************)
EXTENDS Naturals, FiniteSets

CONSTANTS
  Process,
  NoProcess,
  Old,             \* how many are left from an earlier version
  MaxCheckpoints,  \* bound: checkpoints, with those that are saved
  MaxCrashes,      \* bound
  Keep             \* keep_last of a prune

ASSUME CheckpointsAssumption ==
  /\ NoProcess \notin Process /\ Old \in 0..MaxCheckpoints
  /\ {MaxCheckpoints, MaxCrashes, Keep} \subseteq Nat

Id    == 1..MaxCheckpoints
Place == {"earlier", "own"}

VARIABLES
  row,      \* where the row says the blob is; "none", and what became of it
  file,     \* what is in each place: the blob, something else, or nothing
  folder,   \* the folder of the session exists
  made,     \* how many ids were handed out
  writer,   \* who is inside the transaction of a migration
  work,     \* what each process is in the middle of
  crashes,
  left      \* history: ids whose saving or deleting was cut short

checkpointVars == <<row, file, folder, made, writer, work, crashes, left>>

Stored  == {i \in Id : row[i] \in Place}
Working(pc, todo, id, seen) == [pc |-> pc, todo |-> todo, id |-> id, seen |-> seen]
Down    == Working("down", {}, 0, {})
Again   == Working("again", {}, 0, {})
Up      == Working("up", {}, 0, {})

\* An earlier migration may have been cut short, a blob may have been copied,
\* and another file may be in its way.
CheckpointsInit ==
  /\ row = [i \in Id |-> IF i <= Old THEN "earlier" ELSE "none"]
  /\ file \in [Id -> [Place -> {"nothing", "blob", "other"}]]
  /\ \A i \in Id :
       IF i > Old THEN file[i] = [p \in Place |-> "nothing"]
       ELSE /\ "blob" \in {file[i][p] : p \in Place}
            /\ file[i]["earlier"] # "other"
  /\ folder = (\E i \in Id : file[i]["own"] # "nothing")
  /\ made = Old /\ writer = NoProcess /\ crashes = 0 /\ left = {}
  /\ work = [c \in Process |-> Down]

-----------------------------------------------------------------------------
(* Plausible slips, for the mutant runs.                                   *)

\* Two files are not compared before one is removed.
UsableMutant(f, seen) == seen # {} /\ \A p \in seen : f[p] # "nothing"
\* A blob that is in its new place already is not expected.
SeenMutant(i) == {p \in {"earlier"} : file[i][p] # "nothing"}

-----------------------------------------------------------------------------
Same == UNCHANGED <<made, crashes, left>>

(* CheckpointRepository._ensure_schema.                                    *)

\* The rows are listed before the transaction.
Start(c) ==
  /\ work[c] \in {Down, Again}
  /\ work' = [work EXCEPT ![c] = Working("look", {i \in Id : row[i] = "earlier"}, 0, {})]
  /\ UNCHANGED <<row, file, folder, writer>> /\ Same

Seen(i) == {p \in Place : file[i][p] # "nothing"}

\* They are listed in no order.
Look(c) ==
  /\ work[c].pc = "look"
  /\ \E i \in work[c].todo :
       work' = [work EXCEPT ![c] = Working("move", work[c].todo \ {i}, i, Seen(i))]
  /\ UNCHANGED <<row, file, folder, writer>> /\ Same

\* What was seen is still there and is the blob of the row.
Usable(f, seen) == seen # {} /\ \A p \in seen : f[p] = "blob"

\* One of two equal files is removed, one in the earlier place is moved.
Moved(f, seen) ==
  IF seen = Place THEN [f EXCEPT !["earlier"] = "nothing"]
  ELSE IF "earlier" \in seen THEN [f EXCEPT !["earlier"] = "nothing", !["own"] = f["earlier"]]
  ELSE f

Move(c) ==
  LET w == work[c]
      f == file[w.id]
  IN
  /\ w.pc = "move" /\ Usable(f, w.seen)
  /\ file' = [file EXCEPT ![w.id] = Moved(f, w.seen)]
  /\ folder' = (folder \/ "earlier" \in w.seen)
  /\ work' = [work EXCEPT ![c].pc = "record"]
  /\ UNCHANGED <<row, writer>> /\ Same

\* The first update begins the transaction, and waits for another's.
Record(c) ==
  /\ work[c].pc = "record" /\ writer \in {c, NoProcess} /\ writer' = c
  /\ work' = [work EXCEPT ![c].pc = "look", ![c].seen = {}]
  /\ UNCHANGED <<row, file, folder>> /\ Same

\* What a migration records: rows that were deleted meanwhile stay so.
Recorded(c) == [i \in Id |-> IF writer = c /\ row[i] = "earlier" THEN "own" ELSE row[i]]

Ready(c) ==
  /\ work[c].pc = "look" /\ work[c].todo = {}
  /\ row' = Recorded(c)
  /\ writer' = IF writer = c THEN NoProcess ELSE writer
  /\ work' = [work EXCEPT ![c] = Up]
  /\ UNCHANGED <<file, folder>> /\ Same

\* A file that is not as expected, or a transaction of another that takes five
\* seconds: the process does not start.
Refuse(c) ==
  LET w == work[c] IN
  /\ \/ w.pc = "move" /\ ~Usable(file[w.id], w.seen)
     \/ w.pc = "record" /\ writer \notin {c, NoProcess}
  /\ writer' = IF writer = c THEN NoProcess ELSE writer
  /\ work' = [work EXCEPT ![c] = Again]
  /\ UNCHANGED <<row, file, folder>> /\ Same

-----------------------------------------------------------------------------
(* CheckpointService.                                                      *)

\* save_checkpoint: the folder, the blob, the row.
MakeFolder(c) ==
  /\ work[c] = Up /\ made < MaxCheckpoints
  /\ made' = made + 1 /\ folder' = TRUE
  /\ work' = [work EXCEPT ![c] = Working("write", {}, made', {})]
  /\ UNCHANGED <<row, file, writer, crashes, left>>

\* Another process may have removed the folder, which was empty.
WriteBlob(c) ==
  LET w == work[c] IN
  /\ w.pc = "write"
  /\ IF folder
     THEN /\ file' = [file EXCEPT ![w.id]["own"] = "blob"]
          /\ work' = [work EXCEPT ![c].pc = "insert"]
     ELSE /\ work' = [work EXCEPT ![c] = Up] /\ UNCHANGED file
  /\ UNCHANGED <<row, folder, writer>> /\ Same

\* A transaction of another that takes too long leaves the blob alone.
InsertRow(c) ==
  LET w == work[c] IN
  /\ w.pc = "insert"
  /\ IF writer = NoProcess THEN row' = [row EXCEPT ![w.id] = "own"] /\ UNCHANGED left
     ELSE left' = left \cup {w.id} /\ UNCHANGED row
  /\ work' = [work EXCEPT ![c] = Up]
  /\ UNCHANGED <<file, folder, made, writer, crashes>>

Delete(c, i) ==
  /\ work[c] = Up /\ row[i] = "own"
  /\ work' = [work EXCEPT ![c] = Working("deleted", {}, i, {})]
  /\ UNCHANGED <<row, file, folder, writer>> /\ Same

\* All but the latest, as they are listed.
Superfluous == {i \in Stored : Cardinality({j \in Stored : j > i}) >= Keep}

Prune(c) ==
  /\ work[c] = Up /\ Superfluous # {}
  /\ work' = [work EXCEPT ![c] = Working("pruned", Superfluous, 0, {})]
  /\ UNCHANGED <<row, file, folder, writer>> /\ Same

TakeNext(c) ==
  /\ work[c].pc = "pruned" /\ work[c].id = 0
  /\ LET todo == work[c].todo IN
     \/ todo = {} /\ work' = [work EXCEPT ![c] = Up]
     \/ \E i \in todo :
          /\ \A j \in todo : j <= i
          /\ work' = [work EXCEPT ![c] = Working("pruned", todo \ {i}, i, {})]
  /\ UNCHANGED <<row, file, folder, writer>> /\ Same

\* The blob is next.
Dropped(w) == [w EXCEPT !.seen = {"own"}]

\* A row that is gone already is an error, which ends a prune, and so is a
\* transaction of another that takes too long.
DeleteRow(c) ==
  LET w == work[c] IN
  /\ w.pc \in {"deleted", "pruned"} /\ w.id > 0 /\ w.seen = {}
  /\ IF row[w.id] = "own" /\ writer = NoProcess
     THEN row' = [row EXCEPT ![w.id] = w.pc] /\ work' = [work EXCEPT ![c] = Dropped(w)]
     ELSE work' = [work EXCEPT ![c] = Up] /\ UNCHANGED row
  /\ UNCHANGED <<file, folder, writer>> /\ Same

Unlink(c) ==
  LET w == work[c] IN
  /\ w.pc \in {"deleted", "pruned"} /\ w.seen = {"own"}
  /\ file' = [file EXCEPT ![w.id]["own"] = "nothing"]
  /\ work' = [work EXCEPT ![c].seen = Place]
  /\ UNCHANGED <<row, folder, writer>> /\ Same

RemoveFolder(c) ==
  LET w == work[c] IN
  /\ w.pc \in {"deleted", "pruned"} /\ w.seen = Place
  /\ folder' = (\E i \in Id : file[i]["own"] # "nothing")
  /\ work' = [work EXCEPT ![c] = IF w.pc = "deleted" THEN Up ELSE [w EXCEPT !.id = 0, !.seen = {}]]
  /\ UNCHANGED <<row, file, writer>> /\ Same

Crash(c) ==
  LET w == work[c] IN
  /\ w \notin {Down, Again} /\ crashes < MaxCrashes /\ crashes' = crashes + 1
  /\ left' = IF w.pc = "insert" \/ (w.pc \in {"deleted", "pruned"} /\ w.seen = {"own"})
             THEN left \cup {w.id} ELSE left
  /\ writer' = IF writer = c THEN NoProcess ELSE writer
  /\ work' = [work EXCEPT ![c] = Again]
  /\ UNCHANGED <<row, file, folder, made>>

Migrate(c) == Start(c) \/ Look(c) \/ Move(c) \/ Record(c) \/ Ready(c) \/ Refuse(c)

Serve(c) ==
  \/ MakeFolder(c) \/ WriteBlob(c) \/ InsertRow(c) \/ \E i \in Id : Delete(c, i)
  \/ Prune(c) \/ TakeNext(c) \/ DeleteRow(c) \/ Unlink(c) \/ RemoveFolder(c)

CheckpointsNext == \E c \in Process : Migrate(c) \/ Serve(c) \/ Crash(c)

CheckpointsSpec == CheckpointsInit /\ [][CheckpointsNext]_checkpointVars

\* A process that was refused, or died, is started again.
CheckpointsFair == \A c \in Process : WF_checkpointVars(work[c] # Down /\ Migrate(c))
-----------------------------------------------------------------------------
\* checkpoints.py:228: the blob of a row is where the row says it is, or
\* where the next migration looks for it, whoever moves, deletes or dies.
BlobKept ==
  \A i \in Stored : \/ file[i][row[i]] = "blob"
                    \/ row[i] = "earlier" /\ file[i]["own"] = "blob"

\* checkpoint_service.py:74: a blob without a row is one that is being saved or
\* deleted, or was when that was cut short.
OrphansExplained ==
  \A i \in Id \ Stored : file[i]["own"] # "nothing" =>
    \/ i \in left
    \/ \E c \in Process : work[c].id = i /\ (work[c].pc = "insert" \/ work[c].seen = {"own"})

\* checkpoint_service.py:121: what a prune takes was older than keep_last others
\* that were stored.
PruneKeepsLatest ==
  \A i \in Id : row[i] = "pruned" =>
    Cardinality({j \in Id : j > i /\ row[j] # "none"}) >= Keep

BlobsKept == BlobKept /\ OrphansExplained /\ PruneKeepsLatest

Starting(c) == work[c].pc \in {"again", "look", "move", "record"}

\* checkpoints.py:200: migrations that were cut short, and others at the same
\* time, keep no process from starting in the end; only a file in the way does.
EveryStartSucceeds ==
  \A c \in Process :
    []<>(~Starting(c) \/ \E i \in Id : file[i]["own"] = "other")
=============================================================================
