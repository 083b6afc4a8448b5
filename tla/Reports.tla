------------------------------- MODULE Reports --------------------------------
(***************************************************************************)
(* The reports of a session of the runtime.  Clients (consoles, handlers   *)
(* of requests) ask for reports and export the session, while workers      *)
(* store artifacts and findings.                                           *)
(*                                                                         *)
(* A report is put together from lists that are read one after another.    *)
(* Its row, its links and its output file are then made inside one         *)
(* transaction of the database.  The first statement of it reads, so that  *)
(* a second transaction is refused at its first write, and a commit waits  *)
(* for those that have only read; single saves wait.                       *)
(*                                                                         *)
(* The repositories of the control centre use the same database.  Whenever *)
(* one of them is constructed it drops the links and then the reports, in  *)
(* transactions of their own; the output files stay.  The repositories of  *)
(* the reports create a missing table when they are constructed.  The      *)
(* links to artifacts and those to findings are one table here.            *)
(*                                                                         *)
(* Left out: wording, other sessions, and records whose instants are equal *)
(* or not in the order they were stored.                                   *)
(***************************************************************************)
EXTENDS Naturals, Sequences, FiniteSets, SequencesExt, FiniteSetsExt

CONSTANTS
  Client,
  Nobody,
  Recent,        \* the length of a list that is cut to the latest
  MaxRecords,    \* bounds: artifacts and findings, reports that are begun
  MaxReports,
  MaxDrops       \* bound: constructions of repositories of the control centre

ASSUME ReportsAssumption ==
  /\ Nobody \notin Client /\ Recent \in Nat \ {0}
  /\ {MaxRecords, MaxReports, MaxDrops} \subseteq Nat

Flow     == {"session_summary", "findings_summary", "operator_report"}
Tables   == {"reports", "links"}
Exported == <<"session_summary", "findings", "artifact_index">>

VARIABLES
  artifactCount,  \* how many are stored
  findingCount,
  links,          \* of findings to artifacts
  reports,        \* rows with their links, in the order of their numbers
  output,         \* the reports, by id, whose output file exists
  begun,          \* ids that were handed out
  writer,         \* who holds the write lock
  work,           \* what each client is in the middle of
  tables,         \* those that exist
  drops,          \* constructions that dropped the links so far
  halfway,        \* those of them that have not come to the reports yet
  died,           \* history: ids of reports whose client died
  dropped         \* history: ids of reports that lost links or row to a drop

records    == <<artifactCount, findingCount, links>>
schema     == <<tables, drops, halfway>>
reportVars == <<records, reports, output, begun, writer, work, schema, died, dropped>>

Free == [pc |-> "idle", kinds |-> <<>>, flow |-> FALSE, read |-> 0, before |-> {}, tally |-> 0,
         artifacts |-> {}, findings |-> {}, named |-> {}, linked |-> FALSE, id |-> 0]

ReportsInit ==
  /\ artifactCount = 0 /\ findingCount = 0 /\ links = {}
  /\ reports = <<>> /\ output = {} /\ begun = 0 /\ writer = Nobody
  /\ work = [c \in Client |-> Free]
  /\ tables = Tables /\ drops = 0 /\ halfway = 0
  /\ died = {} /\ dropped = {}

-----------------------------------------------------------------------------
(* Plausible slips, for the mutant runs.                                   *)

\* What is counted is read last.
PlanMutant ==
  [session_summary  |-> <<"recent", "artifacts", "findings", "count">>,
   findings_summary |-> <<"findings", "artifacts", "links">>,
   operator_report  |-> <<"count", "findings", "artifacts">>]

-----------------------------------------------------------------------------
(* The lock of the database.  What is saved waits for a transaction that   *)
(* writes, and for those that have read.                                   *)

NobodyReads == \A c \in Client : work[c].pc # "begun"

\* Workers.
Saves ==
  /\ writer = Nobody /\ NobodyReads
  /\ UNCHANGED <<reports, output, begun, writer, schema, died, dropped>>

StoreArtifact ==
  /\ artifactCount + findingCount < MaxRecords /\ artifactCount' = artifactCount + 1
  /\ Saves /\ UNCHANGED <<findingCount, links, work>>

StoreFinding ==
  /\ artifactCount + findingCount < MaxRecords /\ findingCount' = findingCount + 1
  /\ Saves /\ UNCHANGED <<artifactCount, links, work>>

LinkFinding ==
  /\ \E f \in 1..findingCount, a \in 1..artifactCount : links' = links \cup {<<f, a>>}
  /\ Saves /\ UNCHANGED <<artifactCount, findingCount, work>>

-----------------------------------------------------------------------------
(* Putting a report together.                                              *)

\* The lists of each kind, in the order they are read.
Plan ==
  [session_summary  |-> <<"count", "recent", "artifacts", "findings">>,
   findings_summary |-> <<"findings", "artifacts", "links">>,
   operator_report  |-> <<"count", "findings", "artifacts">>]

ExportPlan == <<"artifacts", "findings", "links">>

PlanOf(w) == IF w.flow THEN Plan[Head(w.kinds)] ELSE ExportPlan

\* The reports that would be reused: any of the kind, however old.
Reusable(kind) == {n \in DOMAIN reports : reports[n].kind = kind}

\* Whoever asks looks at the reports that are stored.
Ids == {reports[n].id : n \in DOMAIN reports}

\* What a client does before it writes.
Stays        == UNCHANGED <<records, schema, begun, died, dropped>>
MakesNothing == Stays /\ UNCHANGED <<reports, output, writer>>

\* The bound: reports that were begun, or that somebody is about to begin.
Due(w)  == Len(w.kinds) - (IF w.id = 0 THEN 0 ELSE 1)
Room(n) == begun + n + MapThenSumSet(LAMBDA c : Due(work[c]), Client) <= MaxReports

Reading(kinds, flow) == [Free EXCEPT !.pc = "reading", !.kinds = kinds, !.flow = flow,
                                     !.before = Ids]

\* A report that exists is reused.
AskFor(c, kind) ==
  /\ work[c] = Free /\ Room(1) /\ "reports" \in tables /\ Reusable(kind) = {}
  /\ work' = [work EXCEPT ![c] = Reading(<<kind>>, TRUE)]
  /\ MakesNothing

\* An export makes three reports of the same lists, and reuses none.
Export(c) ==
  /\ work[c] = Free /\ Room(Len(Exported))
  /\ work' = [work EXCEPT ![c] = Reading(Exported, FALSE)]
  /\ MakesNothing

Latest(n) == {i \in 1..n : i > n - Recent}
Cut(w, n) == IF Head(w.kinds) = "operator_report" THEN Latest(n) ELSE 1..n

\* A text names the artifacts of the findings that were listed themselves.
Traced(w) == {a \in w.artifacts : \E f \in w.findings : <<f, a>> \in links}

AfterRead(w, list) ==
  [w EXCEPT !.read = @ + 1,
            !.tally = IF list = "count" THEN artifactCount ELSE @,
            !.artifacts = IF list = "artifacts" THEN Cut(w, artifactCount) ELSE @,
            !.findings = IF list = "findings" THEN Cut(w, findingCount) ELSE @,
            !.named = IF list = "recent" THEN Latest(artifactCount)
                      ELSE IF list = "links" THEN Traced(w) ELSE @]

AllRead(w) == w.read = Len(PlanOf(w))

\* The counts and the recent records of a session include its reports.
Readable(list) == list \in {"count", "recent"} => "reports" \in tables

ReadList(c) ==
  LET w == work[c]  list == PlanOf(w)[w.read + 1] IN
  /\ w.pc = "reading" /\ ~AllRead(w)
  /\ work' = [work EXCEPT ![c] = IF Readable(list) THEN AfterRead(w, list) ELSE Free]
  /\ MakesNothing

-----------------------------------------------------------------------------
(* create_report.                                                          *)

\* BEGIN, and the number is read.  (Of what was listed of findings it only
\* matters whether there is something to link.)
Begun(w) == [w EXCEPT !.pc = "begun", !.id = begun', !.findings = {},
                      !.linked = @ \/ w.artifacts # {} \/ w.findings # {}]

Begin(c) ==
  /\ work[c].pc = "reading" /\ AllRead(work[c])
  /\ begun' = begun + 1
  /\ work' = [work EXCEPT ![c] = IF "reports" \in tables THEN Begun(@) ELSE Free]
  /\ UNCHANGED <<records, schema, reports, output, writer, died, dropped>>

\* The row and its links; "database is locked" if somebody else writes or waits
\* to, an error too if there is no table for the links.
Insert(c) ==
  /\ work[c].pc = "begun"
  /\ \/ /\ writer = Nobody /\ (work[c].linked => "links" \in tables)
        /\ writer' = c /\ work' = [work EXCEPT ![c].pc = "inserted"]
     \/ work' = [work EXCEPT ![c] = Free] /\ UNCHANGED writer
  /\ Stays /\ UNCHANGED <<reports, output>>

WriteOutput(c) ==
  /\ work[c].pc = "inserted"
  /\ output' = output \cup {work[c].id}
  /\ work' = [work EXCEPT ![c].pc = "written"]
  /\ Stays /\ UNCHANGED <<reports, writer>>

ReportRow(w) == [id |-> w.id, kind |-> Head(w.kinds), flow |-> w.flow, before |-> w.before,
                 tally |-> w.tally, named |-> w.named, artifacts |-> w.artifacts,
                 linked |-> w.linked]

Commit(c) ==
  LET w == work[c] IN
  /\ w.pc = "written" /\ NobodyReads
  /\ reports' = Append(reports, ReportRow(w)) /\ writer' = Nobody
  /\ work' = [work EXCEPT ![c] =
       IF Len(w.kinds) = 1 THEN Free ELSE [w EXCEPT !.pc = "reading", !.kinds = Tail(@), !.id = 0]]
  /\ Stays /\ UNCHANGED output

\* The output files after a failure.
Cleaned(id) == output \ {id}

Fail(c) ==
  /\ work[c].pc \in {"inserted", "written"}
  /\ output' = Cleaned(work[c].id) /\ writer' = Nobody
  /\ work' = [work EXCEPT ![c] = Free]
  /\ Stays /\ UNCHANGED reports

\* The client dies; the database takes its transaction back.
Vanish(c) ==
  /\ work[c].pc \in {"inserted", "written"}
  /\ writer' = Nobody /\ died' = died \cup {work[c].id}
  /\ work' = [work EXCEPT ![c] = Free]
  /\ UNCHANGED <<records, schema, reports, output, begun, dropped>>

-----------------------------------------------------------------------------
(* The tables, dropped by the repositories of the control centre and       *)
(* created by those of the reports.                                        *)

Alone ==
  /\ writer = Nobody /\ NobodyReads
  /\ UNCHANGED <<records, output, begun, writer, work, died>>

Linked == {n \in DOMAIN reports : reports[n].linked}

DropLinks ==
  /\ drops < MaxDrops /\ drops' = drops + 1 /\ halfway' = halfway + 1
  /\ tables' = tables \ {"links"}
  /\ reports' = [n \in DOMAIN reports |->
       [reports[n] EXCEPT !.artifacts = {}, !.linked = FALSE]]
  /\ dropped' = dropped \cup {reports[n].id : n \in Linked}
  /\ Alone

\* Refused while a link made meanwhile refers to a report.
DropRows ==
  /\ halfway > 0 /\ halfway' = halfway - 1 /\ UNCHANGED drops
  /\ IF Linked = {}
     THEN /\ tables' = tables \ {"reports"} /\ reports' = <<>>
          /\ dropped' = dropped \cup Ids
     ELSE UNCHANGED <<tables, reports, dropped>>
  /\ Alone

CreateTable(table) ==
  /\ table \notin tables /\ tables' = tables \cup {table}
  /\ Alone /\ UNCHANGED <<reports, drops, halfway, dropped>>

ReportsNext ==
  \/ StoreArtifact \/ StoreFinding \/ LinkFinding
  \/ \E c \in Client :
       \/ \E kind \in Flow : AskFor(c, kind)
       \/ Export(c) \/ ReadList(c)
       \/ Begin(c) \/ Insert(c) \/ WriteOutput(c) \/ Commit(c) \/ Fail(c) \/ Vanish(c)
  \/ DropLinks \/ DropRows
  \/ \E table \in Tables : CreateTable(table)

ReportsSpec == ReportsInit /\ [][ReportsNext]_reportVars
-----------------------------------------------------------------------------
\* report_service.py:143: a report that is stored has its output, and an output
\* without a report is being made, or was when its client died, or is what a
\* drop of the tables left behind (control_center.py:289).
NothingPartial ==
  /\ \A n \in DOMAIN reports : reports[n].id \in output
  /\ \A id \in output :
       \/ \E n \in DOMAIN reports : reports[n].id = id
       \/ \E c \in Client : writer = c /\ work[c].id = id
       \/ id \in died \cup dropped

\* report_flow_service.py:151: although lists are read at different moments, a
\* report links every artifact its text names, and as many as its text counts,
\* unless its links were dropped.
TextMatchesLinks ==
  \A n \in DOMAIN reports :
    LET r == reports[n] IN
    r.id \notin dropped =>
      /\ r.named \subseteq r.artifacts
      /\ Cardinality(r.artifacts) >=
           IF r.kind = "operator_report" THEN Min({r.tally, Recent}) ELSE r.tally

\* report_flow_service.py:274: a report of a kind that is stored already was
\* made by a client that looked before the other was stored.
RemadeOnlyByRace ==
  \A m, n \in DOMAIN reports :
    m < n /\ reports[n].flow /\ reports[m].kind = reports[n].kind
      => reports[m].id \notin reports[n].before

ReportKept == NothingPartial /\ TextMatchesLinks /\ RemadeOnlyByRace

\* README.md:22, "keep persistent session history, logs, checkpoints, and
\* reports": no step takes a stored report away.
ReportsPersist ==
  [][\A n \in DOMAIN reports :
       \E m \in DOMAIN reports' : reports'[m].id = reports[n].id]_reportVars
=============================================================================
