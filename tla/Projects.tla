------------------------------- MODULE Projects -------------------------------
(***************************************************************************)
(* A project and its sessions: their rows and their directories.  Only the *)
(* event loop works on them, one handler after another.  A handler changes *)
(* rows in a transaction, then the files, and commits; an exception takes  *)
(* rows back, and the directory of what was being created.  The process    *)
(* may die at any moment.  Left out: names and texts.                      *)
(***************************************************************************)
CONSTANTS
  Member,   \* the sessions of the project
  Project

ProjectStatus == {"active", "archived"}
SessionStatus == {"active", "paused", "completed", "archived"}
Owner         == Member \cup {Project}

ASSUME ProjectsAssumption == Project \notin Member

VARIABLES
  saved,    \* rows that are committed: status of the project and of each session
  draft,    \* rows as the open transaction sees them
  disk,     \* what has a directory
  manifest, \* the status in project.json
  handler,  \* what the handler does next
  opened,   \* history: sessions whose status was patched since the last archiving
  broken    \* history: the last handler that wrote the manifest did not commit

projectVars == <<saved, draft, disk, manifest, handler, opened, broken>>

Waiting == [next |-> "wait", of |-> Project]

ProjectsInit ==
  /\ saved = [o \in Owner |-> "none"] /\ draft = saved
  /\ disk = {} /\ manifest = "none"
  /\ handler = Waiting
  /\ opened = {} /\ broken = FALSE

-----------------------------------------------------------------------------
(* Plausible slips, for the mutant runs.                                   *)

\* Only sessions that are active are archived with their project.
ArchivedMutant(r) ==
  [o \in Owner |-> IF o = Project \/ r[o] = "active" THEN "archived" ELSE r[o]]

-----------------------------------------------------------------------------
InTable == {o \in Owner : saved[o] # "none"}

\* The row of a new project, and of a new session.
WithProject(t)   == [t EXCEPT ![Project] = "active"]
WithMember(t, s) == [t EXCEPT ![s] = "active"]

\* The rows after an update of the project or of a session.
ProjectSet(t, status)   == [t EXCEPT ![Project] = status]
MemberSet(t, s, status) == [t EXCEPT ![s] = status]

\* A handler opens its transaction and executes its statements.
Open(table, step, o) ==
  /\ handler = Waiting
  /\ draft' = table /\ handler' = [next |-> step, of |-> o]
  /\ UNCHANGED <<saved, disk, manifest>>

CreateProject ==
  /\ Project \notin InTable
  /\ Open(WithProject(saved), "directories", Project)
  /\ UNCHANGED <<opened, broken>>

\* An archived project takes no new session.
CreateMember(s) ==
  /\ Project \in InTable /\ s \notin InTable /\ saved[Project] # "archived"
  /\ Open(WithMember(saved, s), "directories", s)
  /\ UNCHANGED <<opened, broken>>

\* The sessions that are stored are archived with their project.
Archived(r) == [o \in Owner |-> IF o \in InTable THEN "archived" ELSE r[o]]

UpdateProject(status) ==
  /\ Project \in InTable
  /\ Open(IF status = "archived" THEN Archived(saved) ELSE ProjectSet(saved, status),
          "manifest", Project)
  /\ UNCHANGED <<opened, broken>>

\* update_session looks at no project.
UpdateMember(s, status) ==
  /\ handler = Waiting /\ s \in InTable
  /\ saved' = MemberSet(saved, s, status) /\ draft' = saved'
  /\ opened' = opened \cup {s}
  /\ UNCHANGED <<disk, manifest, handler, broken>>

MakeDirectories ==
  /\ handler.next = "directories"
  /\ disk' = disk \cup {handler.of}
  /\ handler' = [handler EXCEPT !.next = IF handler.of = Project THEN "manifest" ELSE "commit"]
  /\ UNCHANGED <<saved, draft, manifest, opened, broken>>

WriteManifest ==
  /\ handler.next = "manifest"
  /\ manifest' = draft[Project] /\ broken' = TRUE
  /\ handler' = [handler EXCEPT !.next = "commit"]
  /\ UNCHANGED <<saved, draft, disk, opened>>

Commit ==
  /\ handler.next = "commit"
  /\ saved' = draft /\ handler' = Waiting
  /\ opened' = IF draft[Project] = "archived" /\ handler.of = Project THEN {} ELSE opened
  /\ broken' = IF handler.of = Project THEN FALSE ELSE broken
  /\ UNCHANGED <<draft, disk, manifest>>

\* An exception: what was being created is removed; a manifest that was being
\* written is lost.
Fail ==
  /\ handler.next \in {"directories", "manifest"}
  /\ \/ /\ handler.of \notin InTable
        /\ disk' = disk \ {handler.of}
        /\ manifest' = IF handler.of = Project THEN "none" ELSE manifest
        /\ broken' = broken
     \/ /\ handler.of \in InTable
        /\ manifest' \in {manifest, "none"} /\ broken' = (broken \/ manifest' # manifest)
        /\ UNCHANGED disk
  /\ draft' = saved /\ handler' = Waiting
  /\ UNCHANGED <<saved, opened>>

Crash ==
  /\ handler # Waiting
  /\ draft' = saved /\ handler' = Waiting
  /\ UNCHANGED <<saved, disk, manifest, opened, broken>>

ProjectsNext ==
  \/ CreateProject \/ MakeDirectories \/ WriteManifest \/ Commit \/ Fail \/ Crash
  \/ \E s \in Member : CreateMember(s) \/ \E status \in SessionStatus : UpdateMember(s, status)
  \/ \E status \in ProjectStatus : UpdateProject(status)

ProjectsSpec == ProjectsInit /\ [][ProjectsNext]_projectVars

-----------------------------------------------------------------------------
\* project_service.py:58: whatever has a row has its directory, and the manifest
\* tells the status of the project unless an update of it was cut short.
FilesBehindRows ==
  /\ InTable \subseteq disk
  /\ Project \in InTable /\ ~broken => manifest = saved[Project]

\* project_service.py:106: no session of an archived project is open, but for
\* those that were patched after it was archived.
ArchivedTogether ==
  saved[Project] = "archived" => \A s \in InTable \ opened : saved[s] = "archived"

ProjectKept == FilesBehindRows /\ ArchivedTogether

=============================================================================
