--------------------------- MODULE Project_proofs ----------------------------
(***************************************************************************)
(* The promises about the rows and the files of a project, for any number  *)
(* of sessions, updates, failures and crashes.                             *)
(*                                                                         *)
(* ProjectKept speaks of what is committed; it is not inductive without    *)
(* what the handler that is at work has done so far: what it may have put  *)
(* into its transaction (Drafted), that the directory of what it commits   *)
(* exists and that the manifest is the one of its transaction (Prepared).  *)
(*                                                                         *)
(* Proofs about the targets of a project and its policy, for any hosts,    *)
(* domains, ranges, targets, patches and bounds.                           *)
(***************************************************************************)
EXTENDS Projects, Records, TargetPool, TLAPS

RowStatus == SessionStatus \cup {"none"}
Steps  == {"wait", "directories", "manifest", "commit"}

ProjectTyped ==
  /\ saved \in [Owner -> RowStatus] /\ draft \in [Owner -> RowStatus]
  /\ disk \subseteq Owner /\ manifest \in RowStatus
  /\ handler \in [next : Steps, of : Owner]
  /\ opened \subseteq Member /\ broken \in BOOLEAN

\* A transaction differs from what is committed by the row of its owner, unless
\* it archives a project with all its sessions; and no session is created in an
\* archived project.
Drafted ==
  /\ handler.next = "wait" => handler = Waiting /\ draft = saved
  /\ handler.of # Project => /\ saved[Project] # "archived"
                             /\ draft[Project] = saved[Project]
  /\ \A o \in Owner \ {handler.of} : draft[o] # "none" => saved[o] # "none"
  /\ handler.next # "wait" /\ handler.of = Project /\ draft[Project] = "archived" =>
       \A s \in Member : draft[s] \in {"none", "archived"}

\* What is on disk when a handler commits.
Prepared ==
  /\ handler.next \in {"manifest", "commit"} => handler.of \in disk
  /\ handler.next = "commit" /\ handler.of = Project => manifest = draft[Project] /\ broken

ProjectInv == ProjectTyped /\ Drafted /\ Prepared /\ ProjectKept

USE DEF Owner, RowStatus, SessionStatus, ProjectStatus, Steps

-----------------------------------------------------------------------------
\* Nothing is stored at first.
LEMMA ProjectInvInit == ProjectsInit => ProjectInv
<1>. SUFFICES ASSUME ProjectsInit PROVE ProjectInv
  OBVIOUS
<1>. USE ProjectsAssumption DEF ProjectsInit, Waiting
<1>1. ProjectTyped
  BY DEF ProjectTyped
<1>2. \A o \in Owner : saved[o] = "none" /\ draft[o] = "none"
  OBVIOUS
<1>. QED
  BY <1>1, <1>2
  DEF ProjectInv, Drafted, Prepared, ProjectKept, FilesBehindRows, ArchivedTogether, InTable

\* Every handler leaves what it has begun in order, whether it commits or not.
LEMMA ProjectInvStep == ProjectInv /\ [ProjectsNext]_projectVars => ProjectInv'
<1>. SUFFICES ASSUME ProjectInv, [ProjectsNext]_projectVars PROVE ProjectInv'
  OBVIOUS
<1>. USE ProjectsAssumption
     DEF ProjectInv, ProjectTyped, Drafted, Prepared, ProjectKept, FilesBehindRows,
         ArchivedTogether, InTable, Waiting
<1>1. CASE CreateProject
  BY <1>1 DEF CreateProject, Open, WithProject
<1>2. CASE MakeDirectories
  BY <1>2 DEF MakeDirectories
<1>3. CASE WriteManifest
  BY <1>3 DEF WriteManifest
<1>4. CASE Commit
  BY <1>4 DEF Commit
<1>5. CASE Fail
  <2>1. saved' = saved /\ draft' = saved /\ handler' = Waiting /\ opened' = opened
    BY <1>5 DEF Fail
  <2>2. CASE handler.of \notin InTable
    <3>1. disk' = disk \ {handler.of} /\ broken' = broken
          /\ manifest' = IF handler.of = Project THEN "none" ELSE manifest
      BY <1>5, <2>2 DEF Fail
    <3>. QED
      BY <2>1, <2>2, <3>1
  <2>3. CASE handler.of \in InTable
    <3>1. disk' = disk /\ manifest' \in {manifest, "none"}
          /\ broken' = (broken \/ manifest' # manifest)
      BY <1>5, <2>3 DEF Fail
    <3>2. broken' \in BOOLEAN /\ (~broken' => ~broken /\ manifest' = manifest)
      BY <3>1
    <3>. QED
      BY <2>1, <2>3, <3>1, <3>2
  <2>. QED
    BY <2>2, <2>3
<1>6. CASE Crash
  BY <1>6 DEF Crash
<1>7. ASSUME NEW s \in Member, CreateMember(s) PROVE ProjectInv'
  BY <1>7 DEF CreateMember, Open, WithMember
<1>8. ASSUME NEW s \in Member, NEW status \in SessionStatus, UpdateMember(s, status)
      PROVE  ProjectInv'
  BY <1>8 DEF UpdateMember, MemberSet
<1>9. ASSUME NEW status \in ProjectStatus, UpdateProject(status) PROVE ProjectInv'
  BY <1>9 DEF UpdateProject, Open, Archived, ProjectSet
<1>10. CASE UNCHANGED projectVars
  BY <1>10 DEF projectVars
<1>. QED
  BY <1>1, <1>2, <1>3, <1>4, <1>5, <1>6, <1>7, <1>8, <1>9, <1>10 DEF ProjectsNext

\* project_service.py:58 and :106: whatever has a row has its directory, the
\* manifest tells the status of the project unless an update of it was cut
\* short, and the sessions of an archived project are archived.
THEOREM ProjectHolds == ProjectsSpec => []ProjectKept
<1>1. ProjectInv => ProjectKept
  BY DEF ProjectInv
<1>. QED
  BY <1>1, ProjectInvInit, ProjectInvStep, PTL DEF ProjectsSpec

-----------------------------------------------------------------------------
(* Records: tables.                                                        *)

AnyId == Kind \X Nat
Rec   == [session : Session \cup {Whole}, refs : SUBSET AnyId]

\* What is stored in a table, of all kinds.
KnownIn(t) == UNION {{<<k, n>> : n \in 1..Len(t[k])} : k \in Kind}
At(t, id)  == t[id[1]][id[2]]
OfSession(t, s) == {e \in KnownIn(t) : e[1] = "EVID" /\ At(t, e).session = s}

\* A record is of a session and refers to records of that session, a finding to
\* evidence only; a writeup may be of the project.
Fits(t, k, r) ==
  /\ r.refs \subseteq KnownIn(t)
  /\ k # "RPT" => r.session \in Session
  /\ \A e \in r.refs : At(t, e).session = r.session \/ (k = "RPT" /\ r.session = Whole)
  /\ k = "FIND" => \A e \in r.refs : e[1] = "EVID"

TableSound(t) ==
  /\ t \in [Kind -> Seq(Rec)]
  /\ \A id \in KnownIn(t) : Fits(t, id[1], At(t, id))

\* A table that grew out of another: records stay, of the session they are of,
\* and a node loses no evidence.
Grown(t, u) ==
  \A id \in KnownIn(t) :
    /\ id \in KnownIn(u) /\ At(u, id).session = At(t, id).session
    /\ id[1] = "AP" => At(t, id).refs \subseteq At(u, id).refs

\* What is known in a table is numbered from one to its length.
LEMMA KnownIs ==
  ASSUME NEW t, NEW k \in Kind, NEW n
  PROVE  <<k, n>> \in KnownIn(t) <=> n \in 1..Len(t[k])
  BY DEF KnownIn

\* The words of the model for these.
LEMMA EvidenceIs ==
  /\ \A k \in Kind : Ids(k) = {id \in KnownIn(rows) : id[1] = k}
  /\ \A s : EvidenceOf(s) = OfSession(rows, s)
  /\ \A id : Row(id) = At(rows, id)
  /\ \A s, id : InSession(s, id) <=> At(rows, id).session = s
  BY DEF Ids, KnownIn, EvidenceOf, OfSession, InSession, Row, At, Kind

\* A public id is a kind and a number.
LEMMA KnownPair ==
  ASSUME NEW t \in [Kind -> Seq(Rec)], NEW id \in KnownIn(t)
  PROVE  /\ id = <<id[1], id[2]>> /\ id[1] \in Kind /\ id[2] \in 1..Len(t[id[1]])
         /\ id \in AnyId /\ At(t, id) \in Rec
  BY DEF KnownIn, At, AnyId

\* A record that fits is stored after those that are there.
LEMMA AppendSound ==
  ASSUME NEW t, TableSound(t), NEW k \in Kind, NEW r \in Rec, Fits(t, k, r),
         NEW u, u = Extended(t, k, r),
         NEW new, new = <<k, Len(t[k]) + 1>>
  PROVE  /\ TableSound(u) /\ Grown(t, u)
         /\ KnownIn(u) = KnownIn(t) \cup {new} /\ At(u, new) = r
         /\ \A id \in KnownIn(t) : At(u, id) = At(t, id)
<1>1. t \in [Kind -> Seq(Rec)] /\ t[k] \in Seq(Rec) /\ Len(t[k]) \in Nat
  BY DEF TableSound
<1>2. /\ u \in [Kind -> Seq(Rec)]
      /\ \A l \in Kind \ {k} : u[l] = t[l]
      /\ u[k] = Append(t[k], r)
  BY <1>1 DEF Extended
<1>3. /\ Len(u[k]) = Len(t[k]) + 1 /\ u[k][Len(t[k]) + 1] = r
      /\ \A n \in 1..Len(t[k]) : u[k][n] = t[k][n]
  BY <1>1, <1>2
<1>4. \A l \in Kind : \A n \in 1..Len(t[l]) : n \in 1..Len(u[l]) /\ u[l][n] = t[l][n]
  <2>1. ASSUME NEW l \in Kind, NEW n \in 1..Len(t[l])
        PROVE  n \in 1..Len(u[l]) /\ u[l][n] = t[l][n]
    <3>1. CASE l = k
      BY <1>1, <1>3, <3>1
    <3>2. CASE l # k
      BY <1>2, <3>2
    <3>. QED
      BY <3>1, <3>2
  <2>. QED
    BY <2>1
<1>5. \A id \in KnownIn(t) : id \in KnownIn(u) /\ At(u, id) = At(t, id)
  BY <1>1, <1>4, KnownPair DEF KnownIn, At
<1>6. new \in KnownIn(u) /\ At(u, new) = r
  BY <1>1, <1>3 DEF KnownIn, At
<1>7. ASSUME NEW id \in KnownIn(u) PROVE id \in KnownIn(t) \cup {new}
  <2>0. PICK l \in Kind : \E n \in 1..Len(u[l]) : id = <<l, n>>
    BY DEF KnownIn
  <2>1. PICK n \in 1..Len(u[l]) : id = <<l, n>>
    BY <2>0
  <2>2. CASE l = k
    <3>1. n \in 1..Len(t[k]) \/ n = Len(t[k]) + 1
      BY <1>1, <1>3, <2>1, <2>2
    <3>. QED
      BY <2>1, <2>2, <3>1, KnownIs
  <2>3. CASE l # k
    BY <1>2, <2>1, <2>3, KnownIs
  <2>. QED
    BY <2>2, <2>3
<1>8. KnownIn(u) = KnownIn(t) \cup {new}
  BY <1>5, <1>6, <1>7
<1>9. ASSUME NEW id \in KnownIn(u) PROVE Fits(u, id[1], At(u, id))
  <2>1. CASE id \in KnownIn(t)
    <3>1. Fits(t, id[1], At(t, id)) /\ At(u, id) = At(t, id)
      BY <1>5, <2>1 DEF TableSound
    <3>. QED
      BY <1>5, <3>1 DEF Fits
  <2>2. CASE id = new
    <3>1. At(u, id) = r /\ id[1] = k
      BY <1>6, <2>2
    <3>. QED
      BY <1>5, <3>1 DEF Fits
  <2>. QED
    BY <1>7, <2>1, <2>2
<1>10. TableSound(u) /\ Grown(t, u)
  BY <1>2, <1>5, <1>9 DEF TableSound, Grown
<1>. QED
  BY <1>5, <1>6, <1>8, <1>10

\* The references of a record are replaced by others that fit.
LEMMA ReferSound ==
  ASSUME NEW t, TableSound(t), NEW id \in KnownIn(t), NEW r \in Rec,
         Fits(t, id[1], r), r.session = At(t, id).session,
         id[1] = "AP" => At(t, id).refs \subseteq r.refs,
         NEW u, u = Replaced(t, id, r)
  PROVE  /\ TableSound(u) /\ Grown(t, u)
         /\ KnownIn(u) = KnownIn(t)
         /\ \A x \in KnownIn(t) : At(u, x) = IF x = id THEN r ELSE At(t, x)
<1>. DEFINE k == id[1]
            n == id[2]
            old == t[k]
            seq == [old EXCEPT ![n] = r]
<1>1. /\ t \in [Kind -> Seq(Rec)] /\ k \in Kind /\ n \in 1..Len(old) /\ id = <<k, n>>
      /\ old \in Seq(Rec) /\ Len(old) \in Nat
  BY KnownPair DEF TableSound
<1>2. u = [t EXCEPT ![k] = seq]
  BY DEF Replaced
<1>. HIDE DEF k, n, old
<1>3. /\ seq \in Seq(Rec) /\ Len(seq) = Len(old)
      /\ \A m \in 1..Len(old) : seq[m] = IF m = n THEN r ELSE old[m]
  BY <1>1
<1>. HIDE DEF seq
<1>4. /\ u \in [Kind -> Seq(Rec)] /\ u[k] = seq
      /\ \A l \in Kind : l # k => u[l] = t[l]
  BY <1>1, <1>2, <1>3
<1>5. \A l \in Kind : 1..Len(u[l]) = 1..Len(t[l])
  BY <1>3, <1>4 DEF old
<1>6. KnownIn(u) = KnownIn(t)
  <2>1. \A l \in Kind : {<<l, m>> : m \in 1..Len(u[l])} = {<<l, m>> : m \in 1..Len(t[l])}
    BY <1>5
  <2>. QED
    BY <2>1 DEF KnownIn
<1>7. ASSUME NEW x \in KnownIn(t)
      PROVE  /\ At(u, x) = IF x = id THEN r ELSE At(t, x)
             /\ At(u, x).session = At(t, x).session
  <2>1. x = <<x[1], x[2]>> /\ x[1] \in Kind /\ x[2] \in 1..Len(t[x[1]])
    BY <1>1, KnownPair
  <2>2. x = id <=> x[1] = k /\ x[2] = n
    BY <1>1, <2>1
  <2>3. CASE x = id
    BY <1>1, <1>3, <1>4, <2>2, <2>3 DEF At
  <2>4. CASE x[1] = k /\ x # id
    <3>1. x[2] \in 1..Len(old) /\ x[2] # n
      BY <2>1, <2>2, <2>4 DEF old
    <3>2. seq[x[2]] = old[x[2]]
      BY <1>3, <3>1
    <3>. QED
      BY <1>4, <2>4, <3>2 DEF At, old
  <2>5. CASE x[1] # k
    BY <1>4, <2>1, <2>2, <2>5 DEF At
  <2>. QED
    BY <2>3, <2>4, <2>5
<1>8. ASSUME NEW x \in KnownIn(u) PROVE Fits(u, x[1], At(u, x))
  <2>1. CASE x = id
    BY <1>6, <1>7, <2>1 DEF Fits
  <2>2. CASE x # id
    <3>1. Fits(t, x[1], At(t, x)) /\ At(u, x) = At(t, x)
      BY <1>6, <1>7, <2>2 DEF TableSound
    <3>. QED
      BY <1>6, <1>7, <3>1 DEF Fits
  <2>. QED
    BY <2>1, <2>2
<1>9. \A x \in KnownIn(t) : x[1] = "AP" => At(t, x).refs \subseteq At(u, x).refs
  BY <1>7
<1>10. TableSound(u)
  BY <1>4, <1>8 DEF TableSound
<1>11. Grown(t, u)
  BY <1>6, <1>7, <1>9 DEF Grown
<1>. QED
  BY <1>6, <1>7, <1>10, <1>11

-----------------------------------------------------------------------------
(* Records: what the writers are in the middle of.                         *)

InHand == [doing : {"nothing", "reading", "storing"}, scope : Session \cup {Whole},
        left : Seq(Kind) \cup Seq(Session \X Kind), number : Nat,
        made : AnyId \cup {NoRecord}, node : AnyId \cup {NoRecord}, refs : SUBSET AnyId]

Has(left, k) == \E i \in 1..Len(left) : left[i] = k

\* What has been read is of the scope; and with a finding all evidence of its
\* session was read, or is to be read before it, or was stored meanwhile.
Reads(w, t, l) ==
  /\ w.left \in Seq(Session \X Kind)
  /\ w.made = NoRecord /\ w.node = NoRecord /\ w.number = 0
  /\ \A r \in w.refs : w.scope = Whole \/ At(t, r).session = w.scope
  /\ w.scope # Whole => \A i \in 1..Len(w.left) : w.left[i][1] = w.scope
  /\ \A f \in w.refs : f[1] = "FIND" => OfSession(t, At(t, f).session) \subseteq w.refs \cup l
  /\ \A i \in 1..Len(w.left) : w.left[i][2] = "FIND" =>
       \/ OfSession(t, w.left[i][1]) \subseteq w.refs \cup l
       \/ \E j \in 1..(i - 1) : w.left[j] = <<w.left[i][1], "EVID">>

\* What is to be stored: a writeup of what was read and nothing else, or evidence
\* first and then what refers to it; what a person clips gets a node.
Stores(a, w, t) ==
  /\ w.left \in Seq(Kind) /\ ~Has(w.left, "FLAG")
  /\ w.left # <<>> /\ w.node # NoRecord => w.node[1] = "AP"
  /\ Has(w.left, "RPT") =>
       /\ Len(w.left) = 1 /\ w.made = NoRecord
       /\ \A r \in w.refs : w.scope = Whole \/ At(t, r).session = w.scope
  /\ w.left # <<>> /\ ~Has(w.left, "RPT") =>
       w.scope \in Session /\ w.refs \subseteq OfSession(t, w.scope)
  /\ \A i \in 1..Len(w.left) : w.left[i] = "EVID" => i = 1 /\ w.made = NoRecord
  /\ a = Desk /\ (w.made # NoRecord \/ Has(w.left, "EVID")) =>
       w.node # NoRecord \/ Has(w.left, "AP")
  /\ w.number > 0 => w.left # <<>>

WorkFits(a, w, t, l) ==
  /\ w \in InHand /\ w.refs \subseteq KnownIn(t)
  /\ w.made # NoRecord => w.made \in OfSession(t, w.scope)
  /\ w.node # NoRecord => w.node \in KnownIn(t)
  /\ w.made # NoRecord /\ w.node # NoRecord => w.node[1] = "AP"
  /\ w.doing = "nothing" => w = NoWork
  /\ w.doing = "reading" => Reads(w, t, l)
  /\ w.doing = "storing" => Stores(a, w, t)

OnPath(e, t) == \E n \in KnownIn(t) : n[1] = "AP" /\ e \in At(t, n).refs

RecordsInv ==
  /\ TableSound(rows)
  /\ work \in [Writer -> InHand]
  /\ \A a \in Writer : WorkFits(a, work[a], rows, late)
  /\ \A e \in personal : e \in cut \/ e = work[Desk].made \/ OnPath(e, rows)
  /\ NoRecord \notin personal

\* What a writer is in the middle of fits a table that grew, if what it reads
\* knows of the evidence that is new.
LEMMA WorkKept ==
  ASSUME NEW t, NEW u, NEW l, NEW l2, NEW a, NEW w,
         TableSound(t), Grown(t, u), l \subseteq l2, WorkFits(a, w, t, l),
         w.doing = "reading" => \A e \in KnownIn(u) : e[1] = "EVID" => e \in KnownIn(t) \cup l2
  PROVE  WorkFits(a, w, u, l2)
<1>1. \A s : OfSession(t, s) \subseteq OfSession(u, s)
  BY DEF Grown, OfSession
<1>2. \A r \in w.refs : r \in KnownIn(u) /\ At(u, r).session = At(t, r).session
  BY DEF Grown, WorkFits
<1>3. ASSUME w.doing = "storing" PROVE Stores(a, w, u)
  BY <1>1, <1>2, <1>3 DEF WorkFits, Stores
<1>4. ASSUME w.doing = "reading" PROVE Reads(w, u, l2)
  <2>1. ASSUME NEW s, OfSession(t, s) \subseteq w.refs \cup l
        PROVE  OfSession(u, s) \subseteq w.refs \cup l2
    BY <1>4, <2>1 DEF OfSession, Grown
  <2>2. Reads(w, t, l)
    BY <1>4 DEF WorkFits
  <2>. QED
    BY <1>2, <2>1, <2>2 DEF Reads
<1>. QED
  BY <1>1, <1>2, <1>3, <1>4 DEF WorkFits, Grown

\* An idle writer fits any table.
LEMMA NoWorkFits ==
  ASSUME NEW a, NEW t, NEW l
  PROVE  WorkFits(a, NoWork, t, l) /\ NoWork \in InHand /\ NoWork.made = NoRecord
  BY RecordsAssumption DEF WorkFits, NoWork, InHand, AnyId

\* The initial tables are empty.
LEMMA RecordsInvInit == RecordsInit => RecordsInv
<1>. SUFFICES ASSUME RecordsInit PROVE RecordsInv
  OBVIOUS
<1>1. rows \in [Kind -> Seq(Rec)] /\ \A k \in Kind : Len(rows[k]) = 0
  BY DEF RecordsInit
<1>2. KnownIn(rows) = {}
  BY <1>1 DEF KnownIn
<1>3. work \in [Writer -> InHand] /\ \A a \in Writer : work[a] = NoWork
  BY NoWorkFits DEF RecordsInit
<1>4. personal = {}
  BY DEF RecordsInit
<1>. QED
  BY <1>1, <1>2, <1>3, <1>4, NoWorkFits DEF RecordsInv, TableSound

\* Nobody reads the new evidence of a table, or it is known to be late.
Noticed(t, u, l) ==
  \/ \A a \in Writer : work[a].doing # "reading"
  \/ \A e \in KnownIn(u) : e[1] = "EVID" => e \in KnownIn(t) \cup l

\* A step of one writer keeps the invariant if what it does to the tables and to
\* its own work fits.
LEMMA WriterStep ==
  ASSUME RecordsInv, NEW a \in Writer, NEW w,
         work' = [work EXCEPT ![a] = w],
         TableSound(rows'), Grown(rows, rows'), late \subseteq late',
         Noticed(rows, rows', late'), WorkFits(a, w, rows', late'),
         \A e \in personal' : e # NoRecord /\
           (e \in cut' \/ (a = Desk /\ e = w.made) \/ (a # Desk /\ e = work[Desk].made)
            \/ OnPath(e, rows'))
  PROVE  RecordsInv'
<1>1. w \in InHand /\ work \in [Writer -> InHand] /\ Desk \in Writer
  BY DEF WorkFits, RecordsInv, Writer
<1>2. /\ work' \in [Writer -> InHand] /\ work'[a] = w
      /\ \A b \in Writer \ {a} : work'[b] = work[b]
  BY <1>1
<1>3. ASSUME NEW b \in Writer PROVE WorkFits(b, work'[b], rows', late')
  <2>1. CASE b = a
    BY <1>2, <2>1
  <2>2. CASE b # a
    BY <1>2, <2>2, WorkKept DEF RecordsInv, Noticed
  <2>. QED
    BY <2>1, <2>2
<1>4. \A e \in personal' : e \in cut' \/ e = work'[Desk].made \/ OnPath(e, rows')
  BY <1>1, <1>2
<1>. QED
  BY <1>2, <1>3, <1>4 DEF RecordsInv

\* Evidence on the path stays on it.
LEMMA PathKept ==
  ASSUME NEW t, NEW u, Grown(t, u), NEW e, OnPath(e, t)
  PROVE  OnPath(e, u)
  BY DEF Grown, OnPath

\* A transaction keeps the invariant if what a person stored is on the path.
LEMMA TransactionStep ==
  ASSUME RecordsInv, UNCHANGED <<work, cut>>, TableSound(rows'), Grown(rows, rows'),
         late \subseteq late', Noticed(rows, rows', late'),
         \A e \in personal' : e \in personal \/ (e # NoRecord /\ OnPath(e, rows'))
  PROVE  RecordsInv'
<1>1. \A b \in Writer : WorkFits(b, work[b], rows', late')
  BY WorkKept DEF RecordsInv, Noticed
<1>2. \A e \in personal' : e \in cut \/ e = work[Desk].made \/ OnPath(e, rows')
  BY PathKept DEF RecordsInv
<1>. QED
  BY <1>1, <1>2 DEF RecordsInv

\* What a writer that is idle begins to store.
LEMMA BeginStep ==
  ASSUME RecordsInv, NEW a \in Writer, NEW s \in Session, NEW left \in Seq(Kind) \ {<<>>},
         NEW node \in AnyId \cup {NoRecord}, NEW refs \in SUBSET OfSession(rows, s),
         Begin(a, s, left, node, refs), ~Has(left, "RPT"), ~Has(left, "FLAG"),
         node = NoRecord \/ (node \in KnownIn(rows) /\ node[1] = "AP"),
         \A i \in 1..Len(left) : left[i] = "EVID" => i = 1,
         a = Desk /\ Has(left, "EVID") => node # NoRecord \/ Has(left, "AP")
  PROVE  RecordsInv'
<1>. DEFINE w == [NoWork EXCEPT !.doing = "storing", !.scope = s, !.left = left,
                                !.node = node, !.refs = refs]
<1>0. NoWork.number = 0
  BY DEF NoWork
<1>1. /\ w.doing = "storing" /\ w.scope = s /\ w.left = left /\ w.node = node /\ w.refs = refs
      /\ w.made = NoRecord /\ w.number = 0
  BY <1>0, NoWorkFits DEF InHand
<1>2. w \in InHand
  <2>1. refs \in SUBSET AnyId
    BY KnownPair DEF OfSession, RecordsInv, TableSound
  <2>. QED
    BY <2>1, NoWorkFits DEF InHand
<1>3. work' = [work EXCEPT ![a] = w]
  BY DEF Begin
<1>. HIDE DEF w
<1>4. WorkFits(a, w, rows, late)
  <2>1. refs \subseteq KnownIn(rows)
    BY DEF OfSession
  <2>. QED
    BY <1>1, <1>2, <2>1 DEF WorkFits, Stores
<1>5. UNCHANGED <<rows, personal, cut, late>> /\ work[a] = NoWork
  BY DEF Begin, Unoccupied
<1>6. \A e \in personal : e # NoRecord /\
           (e \in cut \/ (a = Desk /\ e = w.made) \/ (a # Desk /\ e = work[Desk].made)
            \/ OnPath(e, rows))
  BY <1>5, NoWorkFits DEF RecordsInv
<1>7. Grown(rows, rows) /\ TableSound(rows) /\ Noticed(rows, rows, late)
  BY DEF Grown, Noticed, RecordsInv
<1>. QED
  BY <1>3, <1>4, <1>5, <1>6, <1>7, WriterStep

\* The steps of PersistScan, Clip and Analyse that begin something.
LEMMA BeginsStep ==
  ASSUME RecordsInv, NEW s \in Session,
         Clip(s) \/ Analyse(s) \/ \E a \in Writer : PersistScan(a, s)
  PROVE  RecordsInv'
<1>0. /\ NoRecord \in AnyId \cup {NoRecord} /\ {} \in SUBSET OfSession(rows, s)
      /\ Desk \in Writer /\ Turn \in Writer /\ Turn # Desk
  BY RecordsAssumption DEF Writer
<1>1. CASE Clip(s)
  <2>1. CASE Begin(Desk, s, <<"EVID", "AP">>, NoRecord, {})
    <3>. DEFINE l == <<"EVID", "AP">>
    <3>1. /\ l \in Seq(Kind) \ {<<>>} /\ ~Has(l, "RPT") /\ ~Has(l, "FLAG")
          /\ \A i \in 1..Len(l) : l[i] = "EVID" => i = 1
          /\ Has(l, "AP")
      BY DEF Has, Kind
    <3>. HIDE DEF l
    <3>. QED
      BY <1>0, <2>1, <3>1, BeginStep DEF l
  <2>2. ASSUME NEW n \in Ids("AP"), Begin(Desk, s, <<"EVID">>, n, {}) PROVE RecordsInv'
    <3>. DEFINE l == <<"EVID">>
    <3>1. /\ l \in Seq(Kind) \ {<<>>} /\ ~Has(l, "RPT") /\ ~Has(l, "FLAG")
          /\ \A i \in 1..Len(l) : l[i] = "EVID" => i = 1
      BY DEF Has, Kind
    <3>2. n \in KnownIn(rows) /\ n[1] = "AP" /\ n \in AnyId /\ n # NoRecord
      BY RecordsAssumption DEF Ids, KnownIn, Kind, AnyId
    <3>. HIDE DEF l
    <3>. QED
      BY <1>0, <2>2, <3>1, <3>2, BeginStep DEF l
  <2>. QED
    BY <1>1, <2>1, <2>2 DEF Clip
<1>2. CASE Analyse(s)
  <2>1. ASSUME NEW k \in {"AP", "FIND"}, NEW E \in SUBSET OfSession(rows, s),
               Begin(Turn, s, <<k>>, NoRecord, E)
        PROVE  RecordsInv'
    <3>. DEFINE l == <<k>>
    <3>1. /\ l \in Seq(Kind) \ {<<>>} /\ ~Has(l, "RPT") /\ ~Has(l, "FLAG")
          /\ \A i \in 1..Len(l) : l[i] = "EVID" => i = 1
      BY DEF Has, Kind
    <3>. HIDE DEF l
    <3>. QED
      BY <1>0, <2>1, <3>1, BeginStep DEF l
  <2>2. EvidenceOf(s) = OfSession(rows, s)
    BY EvidenceIs
  <2>. QED
    BY <1>0, <1>2, <2>1, <2>2 DEF Analyse
<1>3. ASSUME NEW a \in Writer, PersistScan(a, s) PROVE RecordsInv'
  <2>1. PICK finding \in {<<>>, <<"FIND">>}, path \in {<<>>, <<"AP">>} :
          a # Desk /\ Begin(a, s, <<"EVID">> \o finding \o path, NoRecord, {})
    BY <1>3 DEF PersistScan
  <2>. DEFINE l == <<"EVID">> \o finding \o path
  <2>2. /\ l \in Seq(Kind) \ {<<>>} /\ ~Has(l, "RPT") /\ ~Has(l, "FLAG")
        /\ \A i \in 1..Len(l) : l[i] = "EVID" => i = 1
    <3>1. finding \in Seq(Kind) /\ path \in Seq(Kind) /\ <<"EVID">> \in Seq(Kind)
      <4>1. /\ <<>> \in Seq(Kind) /\ <<"FIND">> \in Seq(Kind) /\ <<"AP">> \in Seq(Kind)
            /\ <<"EVID">> \in Seq(Kind)
        BY DEF Kind
      <4>. QED
        BY <4>1
    <3>2. l \in Seq(Kind) /\ Len(l) = 1 + Len(finding) + Len(path) /\ l[1] = "EVID"
      BY <3>1
    <3>3. \A i \in 2..Len(l) : l[i] \in {"FIND", "AP"}
      BY <3>1, <3>2
    <3>. QED
      BY <3>2, <3>3 DEF Has
  <2>. HIDE DEF l
  <2>. QED
    BY <1>0, <2>1, <2>2, BeginStep DEF l
<1>. QED
  BY <1>1, <1>2, <1>3

\* A number is taken for the next row.
LEMMA AllocateStep ==
  ASSUME RecordsInv, NEW a \in Writer, Allocate(a) PROVE RecordsInv'
<1>. DEFINE k == Head(work[a].left)
            w == [work[a] EXCEPT !.number = NextNumber(k)]
<1>1. /\ work[a].doing = "storing" /\ work[a].left # <<>> /\ work[a] \in InHand
      /\ work' = [work EXCEPT ![a].number = NextNumber(k)]
      /\ UNCHANGED <<rows, personal, cut, late>>
  BY DEF Allocate, RecordsInv
<1>2. WorkFits(a, work[a], rows, late)
  BY DEF RecordsInv
<1>3. work[a].left \in Seq(Kind) /\ k \in Kind
  BY <1>1, <1>2 DEF WorkFits, Stores
<1>4. NextNumber(k) \in Nat \ {0}
  BY <1>3 DEF NextNumber, RecordsInv, TableSound
<1>5. /\ w \in InHand /\ w.doing = "storing" /\ w.scope = work[a].scope /\ w.left = work[a].left
      /\ w.made = work[a].made /\ w.node = work[a].node /\ w.refs = work[a].refs
  BY <1>1, <1>4 DEF InHand
<1>6. work' = [work EXCEPT ![a] = w]
  BY <1>1
<1>. HIDE DEF w
<1>7. WorkFits(a, w, rows, late)
  BY <1>1, <1>2, <1>5 DEF WorkFits, Stores
<1>8. Grown(rows, rows) /\ TableSound(rows) /\ Noticed(rows, rows, late)
  BY DEF Grown, Noticed, RecordsInv
<1>. QED
  BY <1>1, <1>5, <1>6, <1>7, <1>8, WriterStep DEF RecordsInv

\* What is left of a list of kinds when its first is stored.
LEMMA TailKinds ==
  ASSUME NEW l \in Seq(Kind), l # <<>>
  PROVE  /\ Head(l) \in Kind /\ Head(l) = l[1] /\ Len(l) \in Nat \ {0}
         /\ Tail(l) \in Seq(Kind) /\ Len(Tail(l)) = Len(l) - 1
         /\ \A i \in 1..Len(Tail(l)) : Tail(l)[i] = l[i + 1] /\ i + 1 \in 1..Len(l)
         /\ \A k : Has(l, k) => Head(l) = k \/ Has(Tail(l), k)
         /\ \A k : Has(Tail(l), k) => Has(l, k)
<1>1. /\ Head(l) \in Kind /\ Head(l) = l[1] /\ Len(l) \in Nat \ {0}
      /\ Tail(l) \in Seq(Kind) /\ Len(Tail(l)) = Len(l) - 1
      /\ \A i \in 1..Len(Tail(l)) : Tail(l)[i] = l[i + 1] /\ i + 1 \in 1..Len(l)
  OBVIOUS
<1>2. ASSUME NEW k, Has(l, k) PROVE Head(l) = k \/ Has(Tail(l), k)
  <2>1. PICK i \in 1..Len(l) : l[i] = k
    BY <1>2 DEF Has
  <2>2. CASE i = 1
    BY <1>1, <2>1, <2>2
  <2>3. CASE i # 1
    <3>1. i - 1 \in 1..Len(Tail(l)) /\ Tail(l)[i - 1] = l[i]
      BY <1>1, <2>3
    <3>. QED
      BY <2>1, <3>1 DEF Has
  <2>. QED
    BY <2>2, <2>3
<1>3. \A k : Has(Tail(l), k) => Has(l, k)
  BY <1>1 DEF Has
<1>. QED
  BY <1>1, <1>2, <1>3

\* A row is stored under the number that was taken.
LEMMA StoreStep ==
  ASSUME RecordsInv, NEW a \in Writer, Store(a) PROVE RecordsInv'
<1>. DEFINE w == work[a]
            k == Head(w.left)
            id == <<k, w.number>>
            r == NewRow(w, k)
            n == Stored(w, k)
<1>1. /\ w.number > 0 /\ w.number = NextNumber(k)
      /\ rows' = Extended(rows, k, r)
      /\ work' = [work EXCEPT ![a] = n]
      /\ late' = IF k = "EVID" /\ Reading THEN late \cup {id} ELSE late
      /\ personal' = IF k = "EVID" /\ a = Desk THEN personal \cup {id} ELSE personal
      /\ cut' = cut
  BY DEF Store
<1>2. WorkFits(a, w, rows, late) /\ w \in InHand /\ TableSound(rows)
  BY DEF RecordsInv, WorkFits
<1>3. w.doing = "storing" /\ Stores(a, w, rows)
  <2>1. NoWork.number = 0
    BY DEF NoWork
  <2>. QED
    BY <1>1, <1>2, <2>1 DEF WorkFits, Reads, InHand
<1>4. w.left \in Seq(Kind) /\ w.left # <<>>
  BY <1>1, <1>3 DEF Stores
<1>5. /\ k \in Kind /\ k = w.left[1] /\ Len(w.left) \in Nat \ {0} /\ Tail(w.left) \in Seq(Kind)
      /\ Len(Tail(w.left)) = Len(w.left) - 1
      /\ \A i \in 1..Len(Tail(w.left)) : Tail(w.left)[i] = w.left[i + 1] /\ i + 1 \in 1..Len(w.left)
      /\ \A x : Has(w.left, x) => k = x \/ Has(Tail(w.left), x)
      /\ \A x : Has(Tail(w.left), x) => Has(w.left, x)
  BY <1>4, TailKinds
<1>6. k = "RPT" <=> Has(w.left, "RPT")
  <2>1. Has(w.left, "RPT") => Len(w.left) = 1
    BY <1>3 DEF Stores
  <2>. QED
    BY <1>5, <2>1 DEF Has
<1>7. /\ k # "RPT" => w.scope \in Session /\ w.refs \subseteq OfSession(rows, w.scope)
      /\ k = "RPT" => \A e \in w.refs : w.scope = Whole \/ At(rows, e).session = w.scope
  BY <1>3, <1>4, <1>6 DEF Stores
<1>8. /\ r \in Rec /\ r.session = w.scope /\ r.refs \subseteq w.refs
      /\ k # "EVID" \/ r.refs = {}
  <2>1. k # "FLAG"
    BY <1>3, <1>5 DEF Stores, Has
  <2>. QED
    BY <1>2, <1>5, <2>1 DEF NewRow, Evidence, Finding, Node, Report, Rec, InHand, Kind
<1>. HIDE DEF r
<1>9. Fits(rows, k, r)
  BY <1>2, <1>7, <1>8 DEF Fits, WorkFits, OfSession
<1>10. /\ TableSound(rows') /\ Grown(rows, rows')
       /\ KnownIn(rows') = KnownIn(rows) \cup {id} /\ At(rows', id) = r
       /\ \A x \in KnownIn(rows) : At(rows', x) = At(rows, x)
  <2>1. id = <<k, Len(rows[k]) + 1>>
    BY <1>1 DEF NextNumber
  <2>2. TableSound(rows) /\ k \in Kind /\ r \in Rec /\ Fits(rows, k, r)
    BY <1>2, <1>5, <1>8, <1>9
  <2>3. rows' = Extended(rows, k, r)
    BY <1>1 DEF Extended
  <2>. HIDE DEF w, k, id
  <2>. QED
    BY <2>1, <2>2, <2>3, AppendSound
<1>11. id \in AnyId /\ id # NoRecord /\ id[1] = k
  BY <1>2, <1>5, RecordsAssumption DEF AnyId, InHand
<1>12. /\ n.doing = "storing" /\ n.scope = w.scope /\ n.left = Tail(w.left) /\ n.number = 0
       /\ n.made = IF k = "EVID" THEN id ELSE w.made
       /\ n.refs = IF k = "EVID" THEN {id} ELSE w.refs
       /\ n.node = IF k \in {"AP", "RPT"} THEN id ELSE w.node
       /\ n \in InHand
  BY <1>2, <1>3, <1>5, <1>11 DEF Stored, InHand
<1>. HIDE DEF n
<1>13. k = "EVID" => id \in OfSession(rows', w.scope)
  BY <1>8, <1>10 DEF OfSession
<1>14. OfSession(rows, w.scope) \subseteq OfSession(rows', w.scope)
  BY <1>10 DEF OfSession
<1>15. Stores(a, n, rows')
  <2>1. k = "EVID" => w.made = NoRecord /\ ~Has(Tail(w.left), "EVID")
    BY <1>3, <1>5 DEF Stores, Has
  <2>2. Has(Tail(w.left), "RPT") => FALSE
    BY <1>3, <1>5 DEF Stores, Has
  <2>3. ~Has(Tail(w.left), "EVID")
    BY <1>3, <1>5 DEF Stores, Has
  <2>4. Tail(w.left) # <<>> => n.scope \in Session /\ n.refs \subseteq OfSession(rows', n.scope)
    <3>1. Tail(w.left) # <<>> => k # "RPT"
      BY <1>3, <1>5, <1>6 DEF Stores
    <3>. QED
      BY <1>7, <1>12, <1>13, <1>14, <3>1
  <2>5. a = Desk /\ n.made # NoRecord => n.node # NoRecord \/ Has(Tail(w.left), "AP")
    BY <1>3, <1>5, <1>11, <1>12 DEF Stores, Has
  <2>6. Tail(w.left) # <<>> /\ n.node # NoRecord => n.node[1] = "AP"
    <3>1. Tail(w.left) # <<>> => k # "RPT"
      BY <1>3, <1>5, <1>6 DEF Stores
    <3>. QED
      BY <1>3, <1>4, <1>11, <1>12, <3>1 DEF Stores
  <2>7. ~Has(Tail(w.left), "FLAG")
    BY <1>3, <1>5 DEF Stores
  <2>. QED
    BY <1>5, <1>12, <2>2, <2>3, <2>4, <2>5, <2>6, <2>7 DEF Stores, Has
<1>16. WorkFits(a, n, rows', late')
  <2>1. n.refs \subseteq KnownIn(rows')
    BY <1>2, <1>10, <1>12 DEF WorkFits
  <2>2. n.made # NoRecord => n.made \in OfSession(rows', n.scope)
    BY <1>2, <1>12, <1>13, <1>14 DEF WorkFits
  <2>3. n.node # NoRecord => n.node \in KnownIn(rows')
    BY <1>2, <1>10, <1>12 DEF WorkFits
  <2>4. n.made # NoRecord /\ n.node # NoRecord => n.node[1] = "AP"
    <3>1. k = "RPT" => w.made = NoRecord
      BY <1>3, <1>6 DEF Stores
    <3>2. w.node # NoRecord => w.node[1] = "AP"
      BY <1>3, <1>4 DEF Stores
    <3>. QED
      BY <1>11, <1>12, <3>1, <3>2
  <2>. QED
    BY <1>12, <1>15, <2>1, <2>2, <2>3, <2>4 DEF WorkFits
<1>17. Noticed(rows, rows', late') /\ late \subseteq late'
  BY <1>1, <1>10, <1>11 DEF Noticed, Reading
<1>18. \A e \in personal' : e # NoRecord /\
           (e \in cut' \/ (a = Desk /\ e = n.made) \/ (a # Desk /\ e = work[Desk].made)
            \/ OnPath(e, rows'))
  BY <1>1, <1>3, <1>5, <1>10, <1>11, <1>12, PathKept DEF RecordsInv, Stores
<1>. QED
  BY <1>1, <1>10, <1>16, <1>17, <1>18, WriterStep

\* Evidence is linked to a node of its session.
LEMMA LinkedSound ==
  ASSUME NEW t, TableSound(t), NEW node \in KnownIn(t), node[1] = "AP",
         NEW e \in KnownIn(t), At(t, e).session = At(t, node).session,
         NEW u, u = Linked(t, node, e)
  PROVE  TableSound(u) /\ Grown(t, u) /\ KnownIn(u) = KnownIn(t) /\ OnPath(e, u)
<1>. DEFINE q == At(t, node)
            r == Node(q.session, q.refs \cup {e})
<1>1. t \in [Kind -> Seq(Rec)] /\ q \in Rec /\ e \in AnyId
  BY KnownPair DEF TableSound
<1>2. Fits(t, "AP", q)
  BY DEF TableSound
<1>3. r \in Rec /\ r.session = q.session /\ r.refs = q.refs \cup {e}
  BY <1>1 DEF Node, Rec
<1>4. u = Replaced(t, node, r)
  BY <1>1 DEF Linked, At
<1>. HIDE DEF r
<1>5. Fits(t, "AP", r)
  BY <1>1, <1>2, <1>3 DEF Fits
<1>6. /\ TableSound(u) /\ Grown(t, u) /\ KnownIn(u) = KnownIn(t)
      /\ At(u, node) = r
  BY <1>1, <1>3, <1>4, <1>5, ReferSound
<1>7. OnPath(e, u)
  BY <1>3, <1>6 DEF OnPath
<1>. QED
  BY <1>6, <1>7

\* A number that was taken meanwhile ends what the writer was doing.
LEMMA RefusedStep ==
  ASSUME RecordsInv, NEW a \in Writer, Refused(a) PROVE RecordsInv'
<1>1. /\ work' = [work EXCEPT ![a] = NoWork]
      /\ cut' = cut \cup ({work[a].made} \ {NoRecord})
      /\ UNCHANGED <<rows, personal, late>>
  BY DEF Refused
<1>2. \A e \in personal' : e # NoRecord /\
        (e \in cut' \/ (a # Desk /\ e = work[Desk].made) \/ OnPath(e, rows'))
  BY <1>1 DEF RecordsInv
<1>3. Grown(rows, rows) /\ TableSound(rows) /\ Noticed(rows, rows, late)
  BY DEF Grown, Noticed, RecordsInv
<1>. QED
  BY <1>1, <1>2, <1>3, NoWorkFits, WriterStep

\* The last step of plain creates links the evidence to the node.
LEMMA FinishStep ==
  ASSUME RecordsInv, NEW a \in Writer, Finish(a) PROVE RecordsInv'
<1>. DEFINE w == work[a]
<1>1. /\ work' = [work EXCEPT ![a] = NoWork] /\ UNCHANGED <<personal, late>>
      /\ w.doing = "storing" /\ w.left = <<>>
  BY DEF Finish
<1>2. WorkFits(a, w, rows, late) /\ TableSound(rows) /\ Stores(a, w, rows)
  BY <1>1 DEF RecordsInv, WorkFits
<1>3. ~Has(w.left, "AP")
  BY <1>1 DEF Has
<1>4. a = Desk /\ w.made # NoRecord => w.node # NoRecord
  BY <1>2, <1>3 DEF Stores
<1>5. CASE w.made # NoRecord /\ w.node # NoRecord /\ InSession(w.scope, w.node)
  <2>1. rows' = Linked(rows, w.node, w.made) /\ UNCHANGED cut
    BY <1>5 DEF Finish
  <2>2. /\ w.made \in KnownIn(rows) /\ w.made[1] = "EVID" /\ At(rows, w.made).session = w.scope
        /\ w.node \in KnownIn(rows) /\ w.node[1] = "AP" /\ At(rows, w.node).session = w.scope
    BY <1>2, <1>5, EvidenceIs DEF WorkFits, OfSession
  <2>3. /\ TableSound(rows') /\ Grown(rows, rows') /\ KnownIn(rows') = KnownIn(rows)
        /\ OnPath(w.made, rows')
    BY <1>2, <2>1, <2>2, LinkedSound
  <2>4. Noticed(rows, rows', late')
    BY <2>3 DEF Noticed
  <2>5. \A e \in personal' : e # NoRecord /\
          (e \in cut' \/ (a # Desk /\ e = work[Desk].made) \/ OnPath(e, rows'))
    BY <1>1, <2>1, <2>3, PathKept DEF RecordsInv
  <2>. QED
    BY <1>1, <2>3, <2>4, <2>5, NoWorkFits, WriterStep
<1>6. CASE ~(w.made # NoRecord /\ w.node # NoRecord /\ InSession(w.scope, w.node))
  <2>1. /\ UNCHANGED rows
        /\ \/ w.made # NoRecord /\ cut' = cut \cup {w.made}
           \/ NoRecord \in {w.made, w.node} /\ UNCHANGED cut
    BY <1>6 DEF Finish
  <2>2. \A e \in personal' : e # NoRecord /\
          (e \in cut' \/ (a # Desk /\ e = work[Desk].made) \/ OnPath(e, rows'))
    BY <1>1, <1>4, <2>1 DEF RecordsInv
  <2>3. Grown(rows, rows) /\ TableSound(rows) /\ Noticed(rows, rows, late)
    BY DEF Grown, Noticed, RecordsInv
  <2>. QED
    BY <1>1, <2>1, <2>2, <2>3, NoWorkFits, WriterStep
<1>. QED
  BY <1>5, <1>6

\* A node of the attack path on its own.
LEMMA AddNodeStep ==
  ASSUME RecordsInv, NEW a \in Writer, NEW s \in Session, NEW E, AddNode(a, s, E)
  PROVE  RecordsInv'
<1>. DEFINE r == Node(s, E)
<1>1. /\ E \subseteq OfSession(rows, s) /\ rows' = Extended(rows, "AP", r)
      /\ UNCHANGED <<work, cut, personal, late>>
  BY EvidenceIs DEF AddNode, Transaction, Extended
<1>2. /\ r \in Rec /\ Fits(rows, "AP", r) /\ TableSound(rows) /\ "AP" \in Kind
  BY <1>1, KnownPair DEF Node, Rec, Fits, OfSession, RecordsInv, TableSound, Kind
<1>. HIDE DEF r
<1>. DEFINE new == <<"AP", Len(rows["AP"]) + 1>>
<1>3. new = <<"AP", Len(rows["AP"]) + 1>> /\ new[1] = "AP"
  OBVIOUS
<1>. HIDE DEF new
<1>4. TableSound(rows') /\ Grown(rows, rows') /\ KnownIn(rows') = KnownIn(rows) \cup {new}
  BY <1>1, <1>2, <1>3, AppendSound
<1>5. Noticed(rows, rows', late')
  BY <1>3, <1>4 DEF Noticed
<1>. QED
  BY <1>1, <1>4, <1>5, TransactionStep

\* A finding is changed.
LEMMA UpdateFindingStep ==
  ASSUME RecordsInv, NEW f \in Ids("FIND"), NEW E, UpdateFinding(f, E)
  PROVE  RecordsInv'
<1>. DEFINE q == At(rows, f)
            r == Finding(q.session, E)
<1>1. /\ E \subseteq OfSession(rows, q.session) /\ UNCHANGED <<work, cut, personal, late>>
      /\ rows' = Replaced(rows, f, r)
  BY EvidenceIs DEF UpdateFinding, Transaction
<1>2. f \in KnownIn(rows) /\ f[1] = "FIND"
  BY DEF Ids, KnownIn, Kind
<1>3. TableSound(rows) /\ rows \in [Kind -> Seq(Rec)] /\ q \in Rec /\ Fits(rows, "FIND", q)
  BY <1>2, KnownPair DEF RecordsInv, TableSound
<1>4. E \subseteq KnownIn(rows) /\ E \subseteq AnyId
  BY <1>1, <1>3, KnownPair DEF OfSession
<1>5. r \in Rec /\ r.session = q.session /\ r.refs = E
  BY <1>3, <1>4 DEF Finding, Rec
<1>. HIDE DEF r
<1>6. Fits(rows, "FIND", r)
  BY <1>1, <1>3, <1>4, <1>5 DEF Fits, OfSession
<1>7. TableSound(rows') /\ Grown(rows, rows') /\ KnownIn(rows') = KnownIn(rows)
  BY <1>1, <1>2, <1>3, <1>5, <1>6, ReferSound
<1>8. Noticed(rows, rows', late')
  BY <1>7 DEF Noticed
<1>. QED
  BY <1>1, <1>7, <1>8, TransactionStep

\* What grew out of what grew out of a table grew out of it.
LEMMA GrownTwice ==
  ASSUME NEW t, NEW u, NEW v, Grown(t, u), Grown(u, v)
  PROVE  Grown(t, v)
<1>1. ASSUME NEW id \in KnownIn(t)
      PROVE  /\ id \in KnownIn(v) /\ At(v, id).session = At(t, id).session
             /\ id[1] = "AP" => At(t, id).refs \subseteq At(v, id).refs
  <2>1. /\ id \in KnownIn(u) /\ At(u, id).session = At(t, id).session
        /\ id[1] = "AP" => At(t, id).refs \subseteq At(u, id).refs
    BY DEF Grown
  <2>2. /\ id \in KnownIn(v) /\ At(v, id).session = At(u, id).session
        /\ id[1] = "AP" => At(u, id).refs \subseteq At(v, id).refs
    BY <2>1 DEF Grown
  <2>. QED
    BY <2>1, <2>2
<1>. QED
  BY <1>1 DEF Grown

\* Evidence is added with a node of its own or on one that is there.
LEMMA AddEvidenceStep ==
  ASSUME RecordsInv, NEW s \in Session, AddEvidence(s)
  PROVE  RecordsInv'
<1>. DEFINE e == <<"EVID", NextNumber("EVID")>>
            r == Evidence(s)
            t == Extended(rows, "EVID", r)
            q == Node(s, {e})
<1>1. /\ UNCHANGED <<work, cut>>
      /\ \/ rows' = Extended(t, "AP", q)
         \/ \E n \in Ids("AP") : InSession(s, n) /\ rows' = Linked(t, n, e)
      /\ personal' = personal \cup {e} /\ late' = IF Reading THEN late \cup {e} ELSE late
  BY DEF AddEvidence, Transaction
<1>2. /\ TableSound(rows) /\ r \in Rec /\ r.session = s /\ r.refs = {} /\ Fits(rows, "EVID", r)
      /\ "EVID" \in Kind /\ "AP" \in Kind
  BY DEF RecordsInv, Evidence, Rec, Fits, Kind
<1>3. e = <<"EVID", Len(rows["EVID"]) + 1>> /\ e[1] = "EVID"
  BY DEF NextNumber
<1>4. e \in AnyId /\ e # NoRecord
  BY <1>2, <1>3, RecordsAssumption DEF AnyId, TableSound
<1>5. t = Extended(rows, "EVID", r)
  OBVIOUS
<1>6. q \in Rec /\ q.session = s /\ q.refs = {e}
  BY <1>4 DEF Node, Rec
<1>. HIDE DEF e, r, t, q
<1>7. /\ TableSound(t) /\ Grown(rows, t) /\ KnownIn(t) = KnownIn(rows) \cup {e} /\ At(t, e) = r
      /\ \A id \in KnownIn(rows) : At(t, id) = At(rows, id)
  BY <1>2, <1>3, <1>5, AppendSound
<1>8. /\ TableSound(rows') /\ Grown(t, rows') /\ OnPath(e, rows')
      /\ \A x \in KnownIn(rows') : x \in KnownIn(t) \/ x[1] = "AP"
  <2>1. CASE rows' = Extended(t, "AP", q)
    <3>1. Fits(t, "AP", q)
      BY <1>2, <1>6, <1>7 DEF Fits
    <3>. DEFINE new == <<"AP", Len(t["AP"]) + 1>>
    <3>2. new = <<"AP", Len(t["AP"]) + 1>> /\ new[1] = "AP"
      OBVIOUS
    <3>. HIDE DEF new
    <3>3. /\ TableSound(rows') /\ Grown(t, rows') /\ KnownIn(rows') = KnownIn(t) \cup {new}
          /\ At(rows', new) = q
      BY <1>2, <1>6, <1>7, <2>1, <3>1, <3>2, AppendSound
    <3>. QED
      BY <1>6, <3>2, <3>3 DEF OnPath
  <2>2. ASSUME NEW n \in Ids("AP"), InSession(s, n), rows' = Linked(t, n, e)
        PROVE  /\ TableSound(rows') /\ Grown(t, rows') /\ OnPath(e, rows')
               /\ KnownIn(rows') = KnownIn(t)
    <3>1. n \in KnownIn(rows) /\ n[1] = "AP" /\ At(rows, n).session = s
      BY <2>2, EvidenceIs, <1>2
    <3>2. n \in KnownIn(t) /\ e \in KnownIn(t) /\ At(t, e).session = At(t, n).session
      BY <1>2, <1>7, <3>1
    <3>. QED
      BY <1>7, <2>2, <3>1, <3>2, LinkedSound
  <2>. QED
    BY <1>1, <2>1, <2>2
<1>9. Grown(rows, rows')
  BY <1>7, <1>8, GrownTwice
<1>10. Noticed(rows, rows', late') /\ late \subseteq late'
  <2>1. ASSUME NEW x \in KnownIn(rows'), x[1] = "EVID" PROVE x \in KnownIn(rows) \cup {e}
    BY <1>7, <1>8, <2>1
  <2>. QED
    BY <1>1, <2>1 DEF Noticed, Reading
<1>. QED
  BY <1>1, <1>4, <1>8, <1>9, <1>10, TransactionStep

\* A flag is added with its node.
LEMMA AddFlagStep ==
  ASSUME RecordsInv, NEW s \in Session, NEW E, AddFlag(s, E)
  PROVE  RecordsInv'
<1>. DEFINE r == Flag(s, E)
            t == Extended(rows, "FLAG", r)
            q == Node(s, E)
            f == <<"FLAG", Len(rows["FLAG"]) + 1>>
            n == <<"AP", Len(t["AP"]) + 1>>
<1>1. /\ UNCHANGED <<work, cut, personal, late>> /\ E \subseteq OfSession(rows, s)
      /\ rows' = Extended(t, "AP", q)
  BY EvidenceIs DEF AddFlag, Transaction
<1>2. TableSound(rows) /\ "FLAG" \in Kind /\ "AP" \in Kind /\ E \subseteq AnyId
  BY <1>1, KnownPair DEF RecordsInv, OfSession, TableSound, Kind
<1>3. /\ r \in Rec /\ r.session = s /\ r.refs = E /\ q \in Rec /\ q.session = s /\ q.refs = E
  BY <1>2 DEF Flag, Node, Rec
<1>4. t = Extended(rows, "FLAG", r) /\ f = <<"FLAG", Len(rows["FLAG"]) + 1>> /\ f[1] = "FLAG"
      /\ n = <<"AP", Len(t["AP"]) + 1>> /\ n[1] = "AP"
  OBVIOUS
<1>. HIDE DEF r, t, q, f, n
<1>5. Fits(rows, "FLAG", r)
  BY <1>1, <1>3 DEF Fits, OfSession
<1>6. /\ TableSound(t) /\ Grown(rows, t) /\ KnownIn(t) = KnownIn(rows) \cup {f}
  BY <1>2, <1>3, <1>4, <1>5, AppendSound
<1>7. Fits(t, "AP", q)
  BY <1>1, <1>3, <1>6 DEF Fits, OfSession, Grown
<1>8. /\ TableSound(rows') /\ Grown(t, rows') /\ KnownIn(rows') = KnownIn(t) \cup {n}
  BY <1>1, <1>2, <1>3, <1>4, <1>6, <1>7, AppendSound
<1>9. Grown(rows, rows')
  BY <1>6, <1>8, GrownTwice
<1>10. Noticed(rows, rows', late')
  BY <1>4, <1>6, <1>8 DEF Noticed
<1>. QED
  BY <1>1, <1>8, <1>9, <1>10, TransactionStep

-----------------------------------------------------------------------------
(* Records: writeups.                                                      *)

\* The lists of sessions: findings of a session are listed after its evidence.
LEMMA ListsFit ==
  ASSUME NEW o \in Seq(Session)
  PROVE  /\ Lists(o) \in Seq(Session \X Kind)
         /\ \A i \in 1..Len(Lists(o)) :
              /\ \E j \in DOMAIN o : Lists(o)[i][1] = o[j]
              /\ Lists(o)[i][2] = "FIND" =>
                   \E j \in 1..(i - 1) : Lists(o)[j] = <<Lists(o)[i][1], "EVID">>
<1>. DEFINE q(i) == ((i - 1) \div 4) + 1
            m(i) == ((i - 1) % 4) + 1
            top  == 4 * Len(o)
<1>1. Len(o) \in Nat /\ top \in Nat
  OBVIOUS
<1>2. \A i \in 1..top : q(i) \in 1..Len(o) /\ m(i) \in 1..4
  BY <1>1
<1>3. \A i \in 1..4 : ReadOrder[i] \in Kind
  BY DEF ReadOrder, Kind
<1>4. /\ Len(Lists(o)) = top
      /\ \A i \in 1..top : Lists(o)[i] = <<o[q(i)], ReadOrder[m(i)]>>
  BY <1>1 DEF Lists
<1>5. \A i \in 1..top : Lists(o)[i] \in Session \X Kind
  <2>1. ASSUME NEW i \in 1..top PROVE o[q(i)] \in Session /\ ReadOrder[m(i)] \in Kind
    <3>1. q(i) \in 1..Len(o) /\ m(i) \in 1..4
      BY <1>2
    <3>. HIDE DEF q, m
    <3>. QED
      BY <1>3, <3>1
  <2>2. ASSUME NEW i \in 1..top PROVE Lists(o)[i] \in Session \X Kind
    <3>. DEFINE x == o[q(i)]
                y == ReadOrder[m(i)]
    <3>1. Lists(o)[i] = <<x, y>>
      BY <1>4
    <3>2. x \in Session /\ y \in Kind
      BY <2>1
    <3>. HIDE DEF x, y
    <3>. QED
      BY <3>1, <3>2
  <2>. QED
    BY <2>2
<1>6. Lists(o) \in Seq(Session \X Kind)
  <2>1. Lists(o) = [i \in 1..top |-> Lists(o)[i]]
    BY <1>4 DEF Lists
  <2>. QED
    BY <1>1, <1>5, <2>1
<1>7. ASSUME NEW i \in 1..top, Lists(o)[i][2] = "FIND"
      PROVE  \E j \in 1..(i - 1) : Lists(o)[j] = <<Lists(o)[i][1], "EVID">>
  <2>1. ReadOrder[m(i)] = "FIND"
    BY <1>4, <1>7
  <2>2. m(i) = 2
    BY <1>2, <2>1 DEF ReadOrder
  <2>3. i - 1 \in 1..(i - 1) /\ i - 1 \in 1..top /\ q(i - 1) = q(i) /\ m(i - 1) = 1
    BY <1>1, <2>2
  <2>. DEFINE p == i - 1
  <2>4. p \in 1..(i - 1) /\ p \in 1..top /\ q(p) = q(i) /\ m(p) = 1
    BY <2>3
  <2>. HIDE DEF q, m, p
  <2>5. Lists(o)[p] = <<o[q(i)], "EVID">> /\ Lists(o)[i][1] = o[q(i)]
    BY <1>4, <2>4 DEF ReadOrder
  <2>. QED
    BY <2>4, <2>5
<1>8. \A i \in 1..top : \E j \in DOMAIN o : Lists(o)[i][1] = o[j]
  BY <1>2, <1>4
<1>. QED
  BY <1>4, <1>6, <1>7, <1>8

\* A step of a writer that has stored no evidence and changes no table.
LEMMA ReaderStep ==
  ASSUME RecordsInv, NEW a \in Writer, NEW w, work' = [work EXCEPT ![a] = w],
         UNCHANGED <<rows, personal, cut, late>>, work[a].made = NoRecord,
         WorkFits(a, w, rows, late)
  PROVE  RecordsInv'
<1>1. Grown(rows, rows) /\ TableSound(rows) /\ Noticed(rows, rows, late)
  BY DEF Grown, Noticed, RecordsInv
<1>2. \A e \in personal' : e # NoRecord /\
        (e \in cut' \/ (a # Desk /\ e = work[Desk].made) \/ OnPath(e, rows'))
  BY DEF RecordsInv
<1>. QED
  BY <1>1, <1>2, WriterStep

\* A writeup is begun.
LEMMA StartWriteupStep ==
  ASSUME RecordsInv, NEW a \in Writer, NEW scope \in Session \cup {Whole},
         StartWriteup(a, scope)
  PROVE  RecordsInv'
<1>. DEFINE o == IF scope = Whole THEN Order ELSE <<scope>>
            l == Lists(o)
            w == [NoWork EXCEPT !.doing = "reading", !.scope = scope, !.left = l]
<1>1. o \in Seq(Session) /\ (scope # Whole => \A j \in DOMAIN o : o[j] = scope)
  BY RecordsAssumption
<1>2. work' = [work EXCEPT ![a] = w] /\ UNCHANGED <<rows, personal, cut, late>>
  BY DEF StartWriteup
<1>3. work[a].made = NoRecord
  BY NoWorkFits DEF StartWriteup, Unoccupied
<1>. HIDE DEF o
<1>4. /\ l \in Seq(Session \X Kind) /\ (scope # Whole => \A i \in 1..Len(l) : l[i][1] = scope)
      /\ \A i \in 1..Len(l) : l[i][2] = "FIND" => \E j \in 1..(i - 1) : l[j] = <<l[i][1], "EVID">>
  <2>1. /\ Lists(o) \in Seq(Session \X Kind)
        /\ \A i \in 1..Len(Lists(o)) :
              /\ \E j \in DOMAIN o : Lists(o)[i][1] = o[j]
              /\ Lists(o)[i][2] = "FIND" =>
                   \E j \in 1..(i - 1) : Lists(o)[j] = <<Lists(o)[i][1], "EVID">>
    BY <1>1, ListsFit
  <2>. QED
    BY <1>1, <2>1
<1>. HIDE DEF l
<1>5. NoWork.number = 0 /\ NoWork.refs = {} /\ NoWork.node = NoRecord
  BY DEF NoWork
<1>6. /\ w.doing = "reading" /\ w.scope = scope /\ w.left = l /\ w.made = NoRecord
      /\ w.node = NoRecord /\ w.number = 0 /\ w.refs = {} /\ w \in InHand
  BY <1>4, <1>5, NoWorkFits DEF InHand
<1>. HIDE DEF w
<1>7. WorkFits(a, w, rows, late)
  BY <1>4, <1>6 DEF WorkFits, Reads
<1>. QED
  BY <1>2, <1>3, <1>7, ReaderStep

\* A list is read.
LEMMA ReadListStep ==
  ASSUME RecordsInv, NEW a \in Writer, ReadList(a) PROVE RecordsInv'
<1>. DEFINE v == work[a]
            l == v.left
            s == Head(l)[1]
            k == Head(l)[2]
            new == {id \in KnownIn(rows) : id[1] = k /\ At(rows, id).session = s}
            w == [v EXCEPT !.left = Tail(l), !.refs = v.refs \cup new]
<1>1. v.doing = "reading" /\ l # <<>> /\ UNCHANGED <<rows, personal, cut, late>>
  BY DEF ReadList
<1>2. v \in InHand /\ WorkFits(a, v, rows, late) /\ Reads(v, rows, late) /\ TableSound(rows)
  BY <1>1 DEF RecordsInv, WorkFits
<1>3. /\ l \in Seq(Session \X Kind) /\ Len(l) \in Nat \ {0}
      /\ Head(l) = l[1] /\ Head(l) = <<s, k>> /\ s \in Session /\ k \in Kind
      /\ Tail(l) \in Seq(Session \X Kind) /\ Len(Tail(l)) = Len(l) - 1
      /\ \A i \in 1..Len(Tail(l)) : Tail(l)[i] = l[i + 1] /\ i + 1 \in 1..Len(l)
  BY <1>1, <1>2 DEF Reads
<1>4. {id \in Ids(k) : InSession(s, id)} = new
  BY <1>3, EvidenceIs
<1>5. work' = [work EXCEPT ![a] = w]
  BY <1>4 DEF ReadList
<1>6. new \subseteq KnownIn(rows) /\ new \subseteq AnyId
  BY <1>2, KnownPair DEF TableSound
<1>7. /\ w.doing = "reading" /\ w.scope = v.scope /\ w.left = Tail(l) /\ w.made = NoRecord
      /\ w.node = NoRecord /\ w.number = 0 /\ w.refs = v.refs \cup new /\ w \in InHand
  BY <1>1, <1>2, <1>3, <1>6 DEF InHand, Reads
<1>. HIDE DEF w
<1>8. k = "FIND" => OfSession(rows, s) \subseteq v.refs \cup late
  <2>1. 1 \in 1..Len(l) /\ l[1] = <<s, k>>
    BY <1>3
  <2>2. \A i \in 1..Len(l) : l[i][2] = "FIND" =>
          \/ OfSession(rows, l[i][1]) \subseteq v.refs \cup late
          \/ \E j \in 1..(i - 1) : l[j] = <<l[i][1], "EVID">>
    BY <1>2 DEF Reads
  <2>. QED
    BY <2>1, <2>2
<1>9. k = "EVID" => OfSession(rows, s) \subseteq new
  BY DEF OfSession
<1>10. ASSUME NEW i \in 1..Len(Tail(l)), Tail(l)[i][2] = "FIND"
       PROVE  \/ OfSession(rows, Tail(l)[i][1]) \subseteq w.refs \cup late
              \/ \E j \in 1..(i - 1) : Tail(l)[j] = <<Tail(l)[i][1], "EVID">>
  <2>. DEFINE z == Tail(l)[i][1]
  <2>1. Tail(l)[i] = l[i + 1] /\ i + 1 \in 1..Len(l) /\ i \in Nat
    BY <1>3
  <2>2. \/ OfSession(rows, z) \subseteq v.refs \cup late
        \/ \E j \in 1..i : l[j] = <<z, "EVID">>
    BY <1>2, <1>10, <2>1 DEF Reads
  <2>3. ASSUME NEW j \in 1..i, l[j] = <<z, "EVID">>
        PROVE  \/ OfSession(rows, z) \subseteq w.refs
               \/ \E x \in 1..(i - 1) : Tail(l)[x] = <<z, "EVID">>
    <3>1. CASE j = 1
      <4>1. s = z /\ k = "EVID"
        BY <1>3, <2>3, <3>1
      <4>. QED
        BY <1>7, <1>9, <4>1
    <3>2. CASE j # 1
      <4>1. j - 1 \in 1..(i - 1) /\ j - 1 \in 1..Len(Tail(l)) /\ (j - 1) + 1 = j
        BY <1>3, <2>1, <3>2
      <4>2. Tail(l)[j - 1] = l[j]
        BY <1>3, <4>1
      <4>. QED
        BY <2>3, <4>1, <4>2
    <3>. QED
      BY <3>1, <3>2
  <2>. QED
    BY <1>7, <2>2, <2>3
<1>11. ASSUME NEW f \in w.refs, f[1] = "FIND"
       PROVE  OfSession(rows, At(rows, f).session) \subseteq w.refs \cup late
  <2>1. CASE f \in v.refs
    BY <1>2, <1>7, <1>11, <2>1 DEF Reads
  <2>2. CASE f \in new
    BY <1>7, <1>8, <1>11, <2>2
  <2>. QED
    BY <1>7, <2>1, <2>2
<1>12. \A r \in w.refs : w.scope = Whole \/ At(rows, r).session = w.scope
  <2>1. v.scope # Whole => s = v.scope
    BY <1>2, <1>3 DEF Reads
  <2>. QED
    BY <1>2, <1>7, <2>1 DEF Reads
<1>13. w.scope # Whole => \A i \in 1..Len(w.left) : w.left[i][1] = w.scope
  BY <1>2, <1>3, <1>7 DEF Reads
<1>14. Reads(w, rows, late)
  <2>1. /\ w.left \in Seq(Session \X Kind)
        /\ w.made = NoRecord /\ w.node = NoRecord /\ w.number = 0
    BY <1>3, <1>7
  <2>2. \A i \in 1..Len(w.left) : w.left[i][2] = "FIND" =>
          \/ OfSession(rows, w.left[i][1]) \subseteq w.refs \cup late
          \/ \E j \in 1..(i - 1) : w.left[j] = <<w.left[i][1], "EVID">>
    <3>. DEFINE t == Tail(l)
    <3>1. w.left = t
      BY <1>7
    <3>2. \A i \in 1..Len(t) : t[i][2] = "FIND" =>
            \/ OfSession(rows, t[i][1]) \subseteq w.refs \cup late
            \/ \E j \in 1..(i - 1) : t[j] = <<t[i][1], "EVID">>
      BY <1>10
    <3>. HIDE DEF t
    <3>. QED
      BY <3>1, <3>2
  <2>. QED
    BY <1>11, <1>12, <1>13, <2>1, <2>2 DEF Reads
<1>15. WorkFits(a, w, rows, late)
  BY <1>2, <1>6, <1>7, <1>14 DEF WorkFits
<1>16. work[a].made = NoRecord
  BY <1>2 DEF Reads
<1>. QED
  BY <1>1, <1>5, <1>15, <1>16, ReaderStep

\* What the model wrote is checked against what was read.
LEMMA ValidateStep ==
  ASSUME RecordsInv, NEW a \in Writer, Validate(a) PROVE RecordsInv'
<1>. DEFINE v == work[a]
            w(C) == [v EXCEPT !.doing = "storing", !.left = <<"RPT">>, !.refs = C]
<1>1. v.doing = "reading" /\ UNCHANGED <<rows, personal, cut, late>>
  BY DEF Validate
<1>2. v \in InHand /\ WorkFits(a, v, rows, late) /\ Reads(v, rows, late) /\ v.made = NoRecord
  BY <1>1 DEF RecordsInv, WorkFits, Reads
<1>3. PICK C : work' = [work EXCEPT ![a] = IF C \subseteq v.refs THEN w(C) ELSE NoWork]
  BY DEF Validate, Citable
<1>4. CASE ~(C \subseteq v.refs)
  BY <1>1, <1>2, <1>3, <1>4, NoWorkFits, ReaderStep
<1>5. CASE C \subseteq v.refs
  <2>1. work' = [work EXCEPT ![a] = w(C)]
    BY <1>3, <1>5
  <2>2. <<"RPT">> \in Seq(Kind) /\ Len(<<"RPT">>) = 1 /\ <<"RPT">>[1] = "RPT" /\ <<"RPT">> # <<>>
    BY DEF Kind
  <2>. DEFINE l == <<"RPT">>
  <2>3. l \in Seq(Kind) /\ Len(l) = 1 /\ l[1] = "RPT" /\ l # <<>>
    BY <2>2
  <2>4. C \subseteq AnyId
    BY <1>2, <1>5 DEF InHand
  <2>. DEFINE u == [v EXCEPT !.doing = "storing", !.left = l, !.refs = C]
  <2>5. work' = [work EXCEPT ![a] = u]
    BY <2>1
  <2>. HIDE DEF l
  <2>6. /\ u.doing = "storing" /\ u.scope = v.scope /\ u.left = l /\ u.made = NoRecord
        /\ u.node = NoRecord /\ u.number = 0 /\ u.refs = C /\ u \in InHand
    BY <1>2, <2>3, <2>4 DEF InHand, Reads
  <2>. HIDE DEF u
  <2>7. Has(l, "RPT") /\ ~Has(l, "FLAG") /\ ~Has(l, "EVID")
    BY <2>3 DEF Has
  <2>8. Stores(a, u, rows)
    BY <1>2, <1>5, <2>3, <2>6, <2>7 DEF Stores, Reads, Has
  <2>9. WorkFits(a, u, rows, late)
    BY <1>2, <1>5, <2>6, <2>8 DEF WorkFits
  <2>. QED
    BY <1>1, <1>2, <2>5, <2>9, ReaderStep
<1>. QED
  BY <1>4, <1>5

\* Every step keeps the invariant.
LEMMA RecordsInvStep == RecordsInv /\ [RecordsNext]_recordVars => RecordsInv'
<1>. SUFFICES ASSUME RecordsInv, [RecordsNext]_recordVars PROVE RecordsInv'
  OBVIOUS
<1>1. ASSUME NEW a \in Writer,
             Allocate(a) \/ Store(a) \/ Refused(a) \/ Finish(a) \/ ReadList(a) \/ Validate(a)
      PROVE  RecordsInv'
  BY <1>1, AllocateStep, StoreStep, RefusedStep, FinishStep, ReadListStep, ValidateStep
<1>2. ASSUME NEW s \in Session, Clip(s) \/ Analyse(s) \/ AddEvidence(s) PROVE RecordsInv'
  BY <1>2, BeginsStep, AddEvidenceStep
<1>3. ASSUME NEW s \in Session, NEW a \in Writer, PersistScan(a, s) PROVE RecordsInv'
  BY <1>3, BeginsStep
<1>4. ASSUME NEW s \in Session, NEW E \in SUBSET Ids("EVID"),
             AddFlag(s, E) \/ \E a \in Writer : AddNode(a, s, E)
      PROVE  RecordsInv'
  BY <1>4, AddFlagStep, AddNodeStep
<1>5. ASSUME NEW f \in Ids("FIND"), NEW E \in SUBSET Ids("EVID"), UpdateFinding(f, E)
      PROVE  RecordsInv'
  BY <1>5, UpdateFindingStep
<1>6. ASSUME NEW a \in Writer, NEW scope \in Session \cup {Whole}, StartWriteup(a, scope)
      PROVE  RecordsInv'
  BY <1>6, StartWriteupStep
<1>7. CASE UNCHANGED recordVars
  BY <1>7, TransactionStep DEF recordVars, RecordsInv, Grown, Noticed
<1>. QED
  BY <1>1, <1>2, <1>3, <1>4, <1>5, <1>6, <1>7 DEF RecordsNext

\* attack_path_service.py:111 and terminal_service.py:177: whatever a record
\* refers to is of its own session, and evidence a person stored is on the
\* attack path unless its node was refused.
THEOREM PathHolds == RecordsSpec => []PathSound
<1>1. RecordsInv => PathSound
  <2>. SUFFICES ASSUME RecordsInv PROVE PathSound
    OBVIOUS
  <2>1. ASSUME NEW k \in Kind \ {"RPT"}, NEW id \in Ids(k), NEW r \in Row(id).refs
        PROVE  Row(r).session = Row(id).session
    <3>1. id \in KnownIn(rows) /\ id[1] # "RPT"
      BY EvidenceIs
    <3>2. Fits(rows, id[1], At(rows, id)) /\ Row(id) = At(rows, id) /\ Row(r) = At(rows, r)
      BY <3>1, EvidenceIs DEF RecordsInv, TableSound
    <3>. QED
      BY <2>1, <3>1, <3>2 DEF Fits
  <2>2. RefsInSession
    BY <2>1 DEF RefsInSession
  <2>3. EvidenceOnPath
    <3>1. "AP" \in Kind
      BY DEF Kind
    <3>. QED
      BY <3>1, EvidenceIs DEF EvidenceOnPath, RecordsInv, OnPath
  <2>. QED
    BY <2>2, <2>3 DEF PathSound
<1>. QED
  BY <1>1, RecordsInvInit, RecordsInvStep, PTL DEF RecordsSpec

\* writeup_service.py:379: a stored writeup cites records of its own scope only,
\* and what it is made from names no evidence that is not part of it, but for
\* evidence stored while it was put together.
THEOREM WriteupsHold == RecordsSpec => []WriteupsGrounded
<1>1. RecordsInv => WriteupsGrounded
  <2>. SUFFICES ASSUME RecordsInv PROVE WriteupsGrounded
    OBVIOUS
  <2>1. ASSUME NEW r \in Ids("RPT"), NEW c \in Row(r).refs
        PROVE  Row(r).session = Whole \/ InSession(Row(r).session, c)
    <3>1. r \in KnownIn(rows) /\ r[1] = "RPT" /\ Row(r) = At(rows, r) /\ Row(c) = At(rows, c)
      BY EvidenceIs DEF Kind
    <3>2. Fits(rows, "RPT", At(rows, r))
      BY <3>1 DEF RecordsInv, TableSound
    <3>. QED
      BY <2>1, <3>1, <3>2, EvidenceIs DEF Fits
  <2>2. ASSUME NEW a \in Writer, work[a].doing = "reading",
               NEW f \in work[a].refs, f[1] = "FIND"
        PROVE  Row(f).refs \subseteq work[a].refs \cup late
    <3>1. /\ f \in KnownIn(rows) /\ Row(f) = At(rows, f)
          /\ OfSession(rows, At(rows, f).session) \subseteq work[a].refs \cup late
      BY <2>2, EvidenceIs DEF RecordsInv, WorkFits, Reads
    <3>2. Fits(rows, "FIND", At(rows, f))
      BY <2>2, <3>1 DEF RecordsInv, TableSound
    <3>3. At(rows, f).refs \subseteq OfSession(rows, At(rows, f).session)
      BY <3>2 DEF Fits, OfSession
    <3>. QED
      BY <3>1, <3>3
  <2>. QED
    BY <2>1, <2>2 DEF WriteupsGrounded
<1>. QED
  BY <1>1, RecordsInvInit, RecordsInvStep, PTL DEF RecordsSpec

-----------------------------------------------------------------------------
(* The targets.                                                            *)

Pc == {"idle", "key", "policy", "create", "number", "insert", "event",
       "activate", "deny", "decided", "gate", "task"}

Entry == [value : Value, status : Status]

EventKind == {"none", "accepted", "approved", "rejected", "review_required"}

Step == [pc : Pc, id : Nat, value : Value \cup Scanned \cup {Malformed},
         status : Status \cup {"none"}, seen : Nat, barred : BOOLEAN, banned : SUBSET Host]

IsPolicy(p) == DOMAIN p = DOMAIN EmptyPolicy

\* A host that is denied stays denied.
DeniedIn(p, h) == IsPolicy(p) /\ Plain(h) \in p.denied

\* A target of the key is rejected.
BarredIn(t, v) ==
  \E i \in 1..Len(t) : t[i].status = "rejected" /\ KeyOf[t[i].value.host] = KeyOf[v.host]

\* What an actor has in hand fits the policy and the pool: what is about to be
\* inserted has found a policy, what was barred when it began is still barred
\* or is rejected by now, and whoever remembers that a host is banned scans
\* another.
StepFits(a, w, p, t) ==
  /\ w \in Step
  /\ w.pc \in {"key", "policy", "create", "number", "insert"} => w.value \in Value
  /\ w.pc \in {"number", "insert", "event"} => w.status \in Status
  /\ w.pc \in {"gate", "task", "event", "activate", "deny", "decided"} => w.id \in 1..Len(t)
  /\ w.pc \in {"gate", "task"} => w.value \in Scanned
  /\ w.pc \in {"activate", "deny", "decided"} => a = Loop
  /\ w.pc \in {"number", "insert"} => IsPolicy(p)
  /\ w.barred => /\ w.pc \notin {"policy", "create"}
                 /\ w.pc = "key" => BarredIn(t, w.value)
                 /\ w.pc \in {"number", "insert"} => w.status = "rejected"
  /\ \A h \in w.banned : DeniedIn(p, h)
  /\ w.pc = "task" => w.value.host \notin w.banned

\* Approved is the last word on active targets, or a decision is on its way.
Reported(l, t, w) ==
  \A i \in 1..Len(t) : l[i] = "approved" =>
    t[i].status = "active" \/ (w.id = i /\ w.pc \in {"deny", "decided"})

\* A task is for a target of the pool and reaches no host that was banned.
TaskFits(s, t) ==
  /\ DOMAIN s = {"n", "id", "value", "state", "banned"}
  /\ s.id \in 1..Len(t) /\ s.value \in Scanned /\ s.value.host \notin s.banned

PoolInv ==
  /\ policy = NoPolicy \/ IsPolicy(policy)
  /\ pool \in Seq(Entry) /\ (pool # <<>> => IsPolicy(policy))
  /\ last \in Seq(EventKind) /\ Len(last) = Len(pool)
  /\ \A s \in scans : TaskFits(s, pool)
  /\ act \in [Actor -> Step]
  /\ \A a \in Actor : StepFits(a, act[a], policy, pool)
  /\ approved \subseteq Id
  /\ \A id \in approved : Listed(policy, pool[id].value.host)
  /\ banned \subseteq Host /\ \A h \in banned : DeniedIn(policy, h)
  /\ Reported(last, pool, act[Loop])

\* The two that call the service are different.
LEMMA Actors == Loop \in Actor /\ Agent \in Actor /\ Loop # Agent
  BY PoolAssumption DEF Actor

\* A policy has its fields; no policy has none.
LEMMA PolicyFields ==
  /\ DOMAIN EmptyPolicy = {"hosts", "domains", "cidrs", "ports", "protocols", "denied",
                           "categories", "confirm"}
  /\ IsPolicy(EmptyPolicy) /\ ~IsPolicy(NoPolicy)
<1>1. DOMAIN EmptyPolicy = {"hosts", "domains", "cidrs", "ports", "protocols", "denied",
                           "categories", "confirm"}
  BY DEF EmptyPolicy
<1>2. DOMAIN NoPolicy = {}
  BY DEF NoPolicy
<1>. QED
  BY <1>1, <1>2 DEF IsPolicy

\* An idle actor fits any policy and pool.
LEMMA IdleFits ==
  ASSUME NEW a, NEW p, NEW t
  PROVE  StepFits(a, Idle, p, t) /\ Idle \in Step /\ Idle.pc = "idle"
<1>1. Idle \in Step /\ Idle.pc = "idle" /\ Idle.barred = FALSE /\ Idle.banned = {}
  BY DEF Idle, Step, Pc
<1>. QED
  BY <1>1 DEF StepFits

\* The tables are empty at first.
LEMMA PoolInvInit == Init => PoolInv
<1>. SUFFICES ASSUME Init PROVE PoolInv
  OBVIOUS
<1>1. act \in [Actor -> Step] /\ \A a \in Actor : act[a] = Idle
  BY IdleFits DEF Init
<1>2. pool = <<>> /\ last = <<>> /\ policy = NoPolicy
  BY DEF Init
<1>3. pool \in Seq(Entry) /\ last \in Seq(EventKind) /\ Len(last) = Len(pool) /\ Len(pool) = 0
  BY <1>2
<1>. QED
  BY <1>1, <1>2, <1>3, IdleFits DEF Init, PoolInv, Reported

\* A step in which one actor goes on and the tables stay as they are.
LEMMA ActorStep ==
  ASSUME PoolInv, NEW a \in Actor, NEW w, act' = [act EXCEPT ![a] = w],
         UNCHANGED <<policy, pool, last, approved, banned>>,
         StepFits(a, w, policy, pool), act[a].pc \notin {"deny", "decided"},
         \A s \in scans' : TaskFits(s, pool)
  PROVE  PoolInv'
<1>1. w \in Step /\ act' \in [Actor -> Step] /\ act'[a] = w
      /\ \A b \in Actor \ {a} : act'[b] = act[b]
  BY DEF StepFits, PoolInv
<1>2. \A b \in Actor : StepFits(b, act'[b], policy', pool')
  BY <1>1 DEF PoolInv
<1>3. Reported(last', pool', act'[Loop])
  BY <1>1, Actors DEF PoolInv, Reported
<1>4. Id' = Id
  BY DEF Id
<1>. QED
  BY <1>1, <1>2, <1>3, <1>4 DEF PoolInv

\* The first step of a proposal.
LEMMA ProposeStep ==
  ASSUME PoolInv, NEW a \in Actor, NEW v \in Value, Propose(a, v)
  PROVE  PoolInv'
<1>. DEFINE w == [Idle EXCEPT !.pc = "key", !.value = v, !.barred = Barred(v)]
<1>1. /\ act' = [act EXCEPT ![a] = w] /\ act[a].pc = "idle"
      /\ UNCHANGED <<policy, pool, last, scans, approved, banned>>
  BY DEF Propose, Set
<1>2. Barred(v) \in BOOLEAN /\ Barred(v) = BarredIn(pool, v)
  BY DEF Barred, BarredIn, Id
<1>3. /\ w.pc = "key" /\ w.value = v /\ w.barred = BarredIn(pool, v) /\ w.banned = {}
      /\ w \in Step
  BY <1>2 DEF Idle, Step, Pc
<1>. HIDE DEF w
<1>4. StepFits(a, w, policy, pool)
  BY <1>3 DEF StepFits
<1>. QED
  BY <1>1, <1>4, ActorStep DEF PoolInv

\* What barred a proposal decides it.
LEMMA MatchKeyStep ==
  ASSUME PoolInv, NEW a \in Actor, MatchKey(a)
  PROVE  PoolInv'
<1>. DEFINE v == act[a]
            w == IF RejectedKey(v.value) THEN [v EXCEPT !.pc = "number", !.status = "rejected"]
                                         ELSE [v EXCEPT !.pc = "policy"]
<1>1. /\ act' = [act EXCEPT ![a] = w] /\ v.pc = "key"
      /\ UNCHANGED <<policy, pool, last, scans, approved, banned>>
  BY DEF MatchKey, Set
<1>2. v \in Step /\ StepFits(a, v, policy, pool)
  BY DEF PoolInv
<1>3. RejectedKey(v.value) <=> BarredIn(pool, v.value)
  BY DEF RejectedKey, BarredIn, SameKey, Id
<1>4. BarredIn(pool, v.value) => IsPolicy(policy)
  BY DEF BarredIn, PoolInv
<1>5. /\ w.value = v.value /\ w.barred = v.barred /\ w.banned = v.banned /\ w \in Step
      /\ \/ BarredIn(pool, v.value) /\ w.pc = "number" /\ w.status = "rejected"
         \/ ~BarredIn(pool, v.value) /\ w.pc = "policy"
  BY <1>2, <1>3 DEF Step, Status, Pc
<1>. HIDE DEF w
<1>6. StepFits(a, w, policy, pool)
  BY <1>1, <1>2, <1>4, <1>5 DEF StepFits, Status
<1>. QED
  BY <1>1, <1>6, ActorStep DEF PoolInv

\* The verdict on a proposal is a status.
LEMMA ProposedIs ==
  ASSUME NEW p, NEW v PROVE ProposedStatus(p, v) \in Status
  BY DEF ProposedStatus, Status

\* The policy is looked up.
LEMMA ReadPolicyStep ==
  ASSUME PoolInv, NEW a \in Actor, ReadPolicy(a)
  PROVE  PoolInv'
<1>. DEFINE v == act[a]
            s == ProposedStatus(policy, v.value)
            w == IF policy = NoPolicy THEN [v EXCEPT !.pc = "create"]
                 ELSE [v EXCEPT !.pc = "number", !.status = s]
<1>1. /\ act' = [act EXCEPT ![a] = w] /\ v.pc = "policy"
      /\ UNCHANGED <<policy, pool, last, scans, approved, banned>>
  BY DEF ReadPolicy, Set
<1>2. v \in Step /\ StepFits(a, v, policy, pool) /\ ~v.barred
  BY <1>1 DEF PoolInv, StepFits
<1>3. s \in Status
  BY ProposedIs
<1>. HIDE DEF s
<1>5. /\ w.value = v.value /\ w.barred = v.barred /\ w.banned = v.banned /\ w \in Step
      /\ \/ w.pc = "create"
         \/ policy # NoPolicy /\ w.pc = "number" /\ w.status = s
  BY <1>2, <1>3 DEF Step, Status, Pc
<1>. HIDE DEF w
<1>6. StepFits(a, w, policy, pool)
  BY <1>1, <1>2, <1>3, <1>5 DEF StepFits, PoolInv
<1>. QED
  BY <1>1, <1>6, ActorStep DEF PoolInv

\* A number is taken for the row.
LEMMA NumberStep ==
  ASSUME PoolInv, NEW a \in Actor, Number(a)
  PROVE  PoolInv'
<1>. DEFINE v == act[a]
            n == Len(pool)
            w == [v EXCEPT !.pc = "insert", !.seen = n]
<1>1. /\ act' = [act EXCEPT ![a] = w] /\ v.pc = "number"
      /\ UNCHANGED <<policy, pool, last, scans, approved, banned>>
  BY DEF Number, Set
<1>2. v \in Step /\ StepFits(a, v, policy, pool) /\ n \in Nat
  BY <1>1 DEF PoolInv
<1>. HIDE DEF n
<1>5. /\ w.value = v.value /\ w.barred = v.barred /\ w.banned = v.banned /\ w \in Step
      /\ w.pc = "insert" /\ w.status = v.status
  BY <1>2 DEF Step, Pc
<1>. HIDE DEF w
<1>6. StepFits(a, w, policy, pool)
  BY <1>1, <1>2, <1>5 DEF StepFits
<1>. QED
  BY <1>1, <1>6, ActorStep DEF PoolInv

\* A scan is asked for and remembers which hosts are banned.
LEMMA RequestScanStep ==
  ASSUME PoolInv, NEW a \in Actor, NEW id \in Id, NEW v \in Scanned, RequestScan(a, id, v)
  PROVE  PoolInv'
<1>. DEFINE w == [Idle EXCEPT !.pc = "gate", !.id = id, !.value = v, !.banned = banned]
<1>1. /\ act' = [act EXCEPT ![a] = w] /\ act[a].pc = "idle"
      /\ UNCHANGED <<policy, pool, last, scans, approved, banned>>
  BY DEF RequestScan, Set
<1>2. id \in Nat /\ id \in 1..Len(pool) /\ banned \in SUBSET Host
  BY DEF Id, PoolInv
<1>3. /\ w.pc = "gate" /\ w.value = v /\ w.barred = FALSE /\ w.banned = banned /\ w.id = id
      /\ w \in Step
  BY <1>2 DEF Idle, Step, Pc
<1>. HIDE DEF w
<1>4. StepFits(a, w, policy, pool)
  BY <1>2, <1>3 DEF StepFits, PoolInv
<1>. QED
  BY <1>1, <1>4, ActorStep DEF PoolInv

\* A scan of a host that is denied is refused: the host of what is scanned is
\* one of its spellings.
LEMMA GateDenies ==
  ASSUME NEW p, NEW v \in Scanned, Plain(v.host) \in p.denied
  PROVE  Evaluate(p, ScanRequest(v)) # "allowed"
<1>. DEFINE r == ScanRequest(v)
            d == Describe(Asked(v))
            x == TargetVerdict(p, r.ports, Asked(v))
<1>1. r.targets = <<Asked(v)>> /\ Asked(v).text = v /\ Asked(v).protocol = Unknown
      /\ Asked(v).port = Unknown
  BY DEF ScanRequest, Asked
<1>2. d = Malformed \/ d.host = v.host
  BY <1>1, PoolAssumption DEF Describe
<1>3. d # Malformed => Denied(p, v, d)
  BY <1>2 DEF Denied, Spellings
<1>4. x # "allowed"
  BY <1>1, <1>3 DEF TargetVerdict
<1>. DEFINE verdict == [i \in DOMAIN r.targets |-> TargetVerdict(p, r.ports, r.targets[i])]
            failing == {i \in DOMAIN verdict : verdict[i] # "allowed"}
<1>5. DOMAIN verdict = {1} /\ verdict[1] = x
  BY <1>1
<1>6. failing = {1}
  BY <1>4, <1>5
<1>7. Min(failing) = 1
  BY <1>6 DEF Min
<1>8. Evaluate(p, r) = verdict[Min(failing)]
  BY <1>6 DEF Evaluate
<1>. QED
  BY <1>4, <1>5, <1>7, <1>8

\* The gate lets no scan through that reaches a banned host.
LEMMA GateStep ==
  ASSUME PoolInv, NEW a \in Actor, Gate(a)
  PROVE  PoolInv'
<1>. DEFINE v == act[a]
            go == Evaluate(policy, ScanRequest(v.value)) = "allowed"
            w == IF go THEN [v EXCEPT !.pc = "task"] ELSE Idle
<1>1. /\ act' = [act EXCEPT ![a] = w] /\ v.pc = "gate"
      /\ UNCHANGED <<policy, pool, last, scans, approved, banned>>
  BY DEF Gate, Set
<1>2. v \in Step /\ StepFits(a, v, policy, pool)
  BY DEF PoolInv
<1>3. go => v.value.host \notin v.banned
  BY <1>1, <1>2, GateDenies DEF StepFits, DeniedIn
<1>. HIDE DEF go
<1>4. CASE go
  <2>1. /\ w.value = v.value /\ w.barred = v.barred /\ w.banned = v.banned /\ w \in Step
        /\ w.pc = "task" /\ w.status = v.status /\ w.id = v.id
    BY <1>2, <1>4 DEF Step, Pc
  <2>. HIDE DEF w
  <2>2. StepFits(a, w, policy, pool)
    BY <1>1, <1>2, <1>3, <1>4, <2>1 DEF StepFits
  <2>. QED
    BY <1>1, <2>2, ActorStep DEF PoolInv
<1>5. CASE ~go
  BY <1>1, <1>5, IdleFits, ActorStep DEF PoolInv
<1>. QED
  BY <1>4, <1>5

\* The task of a scan is stored.
LEMMA CreateTaskStep ==
  ASSUME PoolInv, NEW a \in Actor, CreateTask(a)
  PROVE  PoolInv'
<1>1. /\ act' = [act EXCEPT ![a] = Idle] /\ act[a].pc = "task"
      /\ UNCHANGED <<policy, pool, last, approved, banned>>
      /\ scans' = scans \cup {[n |-> Cardinality(scans) + 1, id |-> act[a].id,
                               value |-> act[a].value, state |-> "queued",
                               banned |-> act[a].banned]}
  BY DEF CreateTask, Set
<1>2. StepFits(a, act[a], policy, pool)
  BY DEF PoolInv
<1>3. \A s \in scans' : TaskFits(s, pool)
  BY <1>1, <1>2 DEF PoolInv, StepFits, TaskFits
<1>. QED
  BY <1>1, <1>3, IdleFits, ActorStep

\* A scan is started.
LEMMA StartScanStep ==
  ASSUME PoolInv, NEW s \in scans, StartScan(s)
  PROVE  PoolInv'
<1>1. /\ UNCHANGED <<policy, pool, last, act, approved, banned>>
      /\ scans' = (scans \ {s}) \cup {[s EXCEPT !.state = "started"]}
  BY DEF StartScan
<1>2. TaskFits([s EXCEPT !.state = "started"], pool)
  BY DEF PoolInv, TaskFits
<1>3. \A x \in scans' : TaskFits(x, pool')
  BY <1>1, <1>2 DEF PoolInv
<1>. QED
  BY <1>1, <1>3 DEF PoolInv, Id

-----------------------------------------------------------------------------
(* Steps that change the policy, the pool or the events.                   *)

\* What an actor has in hand fits a policy that denies as much and a pool that
\* grew and in which whatever was rejected still is.
LEMMA FitsKept ==
  ASSUME NEW a, NEW w, NEW p, NEW q, NEW t, NEW u, StepFits(a, w, p, t),
         Len(t) \in Nat, Len(u) \in Nat, Len(t) <= Len(u),
         IsPolicy(p) => IsPolicy(q) /\ \A h : Plain(h) \in p.denied => Plain(h) \in q.denied,
         \A i \in 1..Len(t) : u[i].value = t[i].value,
         w.barred => \A i \in 1..Len(t) : t[i].status = "rejected" => u[i].status = "rejected"
  PROVE  StepFits(a, w, q, u)
<1>1. \A h : DeniedIn(p, h) => DeniedIn(q, h)
  BY DEF DeniedIn
<1>2. \A v : w.barred /\ BarredIn(t, v) => BarredIn(u, v)
  BY DEF BarredIn
<1>3. w.id \in 1..Len(t) => w.id \in 1..Len(u)
  OBVIOUS
<1>. QED
  BY <1>1, <1>2, <1>3 DEF StepFits

\* An empty policy is created where there is none.
LEMMA CreatePolicyStep ==
  ASSUME PoolInv, NEW a \in Actor, CreatePolicy(a)
  PROVE  PoolInv'
<1>. DEFINE v == act[a]
            s == ProposedStatus(EmptyPolicy, v.value)
            w == [v EXCEPT !.pc = "number", !.status = s]
<1>1. v.pc = "create" /\ UNCHANGED <<pool, last, scans, approved, banned>>
  BY DEF CreatePolicy
<1>2. v \in Step /\ StepFits(a, v, policy, pool) /\ ~v.barred
  BY <1>1 DEF PoolInv, StepFits
<1>3. CASE policy = NoPolicy
  <2>1. policy' = EmptyPolicy /\ act' = [act EXCEPT ![a] = w]
    BY <1>3 DEF CreatePolicy, Created, Set
  <2>2. s \in Status
    BY ProposedIs
  <2>. HIDE DEF s
  <2>3. /\ w.value = v.value /\ w.barred = v.barred /\ w.banned = v.banned /\ w \in Step
        /\ w.pc = "number" /\ w.status = s
    BY <1>2, <2>2 DEF Step, Status, Pc
  <2>. HIDE DEF w
  <2>4. ~IsPolicy(policy) /\ IsPolicy(policy')
    BY <1>3, <2>1, PolicyFields
  <2>5. pool = <<>> /\ Len(pool) = 0 /\ banned = {} /\ approved = {} /\ v.banned = {}
    BY <1>2, <2>4 DEF PoolInv, DeniedIn, StepFits, Id
  <2>6. StepFits(a, w, policy', pool)
    BY <1>1, <1>2, <2>2, <2>3, <2>4, <2>5 DEF StepFits
  <2>7. ASSUME NEW b \in Actor \ {a} PROVE StepFits(b, act[b], policy', pool)
    BY <2>4, <2>5, FitsKept DEF PoolInv
  <2>8. act' \in [Actor -> Step] /\ act'[a] = w /\ \A b \in Actor \ {a} : act'[b] = act[b]
    BY <2>1, <2>3 DEF PoolInv
  <2>9. Reported(last', pool', act'[Loop])
    BY <1>1, <2>5 DEF Reported
  <2>. QED
    BY <1>1, <2>4, <2>5, <2>6, <2>7, <2>8, <2>9 DEF PoolInv, Id
<1>4. CASE policy # NoPolicy
  <2>1. act' = [act EXCEPT ![a] = Idle] /\ UNCHANGED policy
    BY <1>4 DEF CreatePolicy, Set
  <2>. QED
    BY <1>1, <2>1, IdleFits, ActorStep DEF PoolInv
<1>. QED
  BY <1>3, <1>4

\* A row of the pool is inserted.
LEMMA InsertStep ==
  ASSUME PoolInv, NEW a \in Actor, Insert(a)
  PROVE  PoolInv'
<1>. DEFINE v == act[a]
            n == Len(pool) + 1
            e == NewTarget(v.value, v.status)
            w == [v EXCEPT !.pc = "event", !.id = n]
<1>1. v.pc = "insert" /\ UNCHANGED <<policy, scans, approved, banned>>
  BY DEF Insert
<1>2. v \in Step /\ StepFits(a, v, policy, pool) /\ Len(pool) \in Nat
  BY DEF PoolInv
<1>3. CASE v.seen = Len(pool)
  <2>1. /\ pool' = Append(pool, e) /\ last' = Append(last, "none")
        /\ act' = [act EXCEPT ![a] = w]
    BY <1>3 DEF Insert, Set
  <2>2. e \in Entry
    BY <1>1, <1>2 DEF NewTarget, Entry, StepFits
  <2>3. n \in Nat
    BY <1>2
  <2>. HIDE DEF n, e
  <2>4. /\ w.value = v.value /\ w.barred = v.barred /\ w.banned = v.banned /\ w \in Step
        /\ w.pc = "event" /\ w.status = v.status /\ w.id = n
    BY <1>2, <2>3 DEF Step, Pc
  <2>. HIDE DEF w
  <2>5. /\ pool' \in Seq(Entry) /\ Len(pool') = Len(pool) + 1 /\ pool' # <<>>
        /\ last' \in Seq(EventKind) /\ Len(last') = Len(last) + 1
        /\ \A i \in 1..Len(pool) : pool'[i] = pool[i] /\ last'[i] = last[i]
        /\ last'[Len(pool) + 1] = "none"
    BY <1>2, <2>1, <2>2 DEF PoolInv, EventKind
  <2>6. IsPolicy(policy)
    BY <1>1, <1>2 DEF StepFits
  <2>7. StepFits(a, w, policy', pool')
    <3>1. n \in 1..Len(pool')
      BY <1>2, <2>5 DEF n
    <3>2. policy' = policy
      BY <1>1
    <3>. QED
      BY <1>1, <1>2, <2>4, <3>1, <3>2 DEF StepFits
  <2>8. ASSUME NEW b \in Actor \ {a} PROVE StepFits(b, act[b], policy', pool')
    <3>1. policy' = policy /\ StepFits(b, act[b], policy, pool)
      BY <1>1 DEF PoolInv
    <3>2. Len(pool') \in Nat /\ Len(pool) <= Len(pool')
      BY <1>2, <2>5
    <3>. QED
      BY <1>2, <2>5, <3>1, <3>2, FitsKept
  <2>9. act' \in [Actor -> Step] /\ act'[a] = w /\ \A b \in Actor \ {a} : act'[b] = act[b]
    BY <2>1, <2>4 DEF PoolInv
  <2>10. Reported(last', pool', act'[Loop])
    <3>1. ASSUME NEW i \in 1..Len(pool'), last'[i] = "approved"
          PROVE  pool'[i].status = "active"
                 \/ (act'[Loop].id = i /\ act'[Loop].pc \in {"deny", "decided"})
      <4>1. i \in 1..Len(pool) /\ last[i] = "approved"
        BY <1>2, <2>5, <3>1
      <4>. QED
        BY <1>1, <2>5, <2>9, <4>1, Actors DEF PoolInv, Reported
    <3>. QED
      BY <3>1 DEF Reported
  <2>11. \A s \in scans' : TaskFits(s, pool')
    BY <1>1, <1>2, <2>5 DEF PoolInv, TaskFits
  <2>12. approved' \subseteq Id' /\ \A id \in approved' : Listed(policy', pool'[id].value.host)
    BY <1>1, <1>2, <2>5 DEF PoolInv, Id
  <2>. QED
    BY <1>1, <2>5, <2>6, <2>7, <2>8, <2>9, <2>10, <2>11, <2>12 DEF PoolInv
<1>4. CASE v.seen # Len(pool)
  <2>1. act' = [act EXCEPT ![a] = Idle] /\ UNCHANGED <<pool, last>>
    BY <1>4 DEF Insert, Set
  <2>. QED
    BY <1>1, <2>1, IdleFits, ActorStep DEF PoolInv
<1>. QED
  BY <1>3, <1>4

\* The event of a proposal says what its row was created as.
LEMMA RecordProposalStep ==
  ASSUME PoolInv, NEW a \in Actor, RecordProposal(a)
  PROVE  PoolInv'
<1>. DEFINE v == act[a]
            k == CreationEvent(v.status)
<1>1. /\ v.pc = "event" /\ UNCHANGED <<policy, pool, scans, approved, banned>>
      /\ last' = [last EXCEPT ![v.id] = k] /\ act' = [act EXCEPT ![a] = Idle]
  BY DEF RecordProposal, Set
<1>2. StepFits(a, v, policy, pool)
  BY DEF PoolInv
<1>3. k \in EventKind \ {"approved"}
  BY <1>1, <1>2 DEF StepFits, CreationEvent, Status, EventKind
<1>. HIDE DEF k
<1>4. last' \in Seq(EventKind) /\ Len(last') = Len(pool)
      /\ \A i \in 1..Len(pool) : last'[i] = IF i = v.id THEN k ELSE last[i]
  <2>1. last \in Seq(EventKind) /\ Len(last) = Len(pool) /\ v.id \in 1..Len(last)
        /\ k \in EventKind
    BY <1>1, <1>2, <1>3 DEF PoolInv, StepFits
  <2>2. last' = [last EXCEPT ![v.id] = k]
    BY <1>1
  <2>. HIDE DEF v
  <2>. QED
    BY <2>1, <2>2
<1>5. act' \in [Actor -> Step] /\ act'[a] = Idle /\ \A b \in Actor \ {a} : act'[b] = act[b]
  BY <1>1, IdleFits DEF PoolInv
<1>6. \A b \in Actor : StepFits(b, act'[b], policy', pool')
  BY <1>1, <1>5, IdleFits DEF PoolInv
<1>7. Reported(last', pool', act'[Loop])
  BY <1>1, <1>3, <1>4, <1>5, Actors DEF PoolInv, Reported
<1>. QED
  BY <1>1, <1>4, <1>5, <1>6, <1>7 DEF PoolInv, Id

\* What a target that is approved adds to the policy: nothing is taken away and
\* its host is listed.
LEMMA WithTargetLists ==
  ASSUME NEW p, IsPolicy(p), NEW t, t.host \in Host
  PROVE  LET q == WithTarget(p, t) IN
         /\ IsPolicy(q) /\ q.denied = p.denied
         /\ \A h : Listed(p, h) => Listed(q, h)
         /\ Listed(q, t.host)
<1>. DEFINE q == WithTarget(p, t)
<1>1. /\ IsPolicy(q) /\ q.denied = p.denied /\ q.cidrs = p.cidrs
      /\ IF IsDomainTarget(t) THEN q.domains = p.domains \cup {t.host} /\ q.hosts = p.hosts
                              ELSE q.hosts = p.hosts \cup {t.host} /\ q.domains = p.domains
  BY PolicyFields DEF WithTarget, IsPolicy
<1>2. IsDomainTarget(t) => t.host \in DomainsOf[t.host]
  BY ScopeAssumption DEF IsDomainTarget
<1>. HIDE DEF q
<1>3. \A h : Listed(p, h) => Listed(q, h)
  BY <1>1 DEF Listed
<1>4. Listed(q, t.host)
  BY <1>1, <1>2 DEF Listed
<1>. QED
  BY <1>1, <1>3, <1>4 DEF q

\* A target of the pool has a host.
LEMMA EntryHosts ==
  ASSUME PoolInv, NEW id \in Id
  PROVE  /\ pool[id] \in Entry /\ pool[id].value.host \in Host /\ IsPolicy(policy)
         /\ id \in Nat /\ pool # <<>>
<1>1. pool \in Seq(Entry) /\ id \in 1..Len(pool) /\ Len(pool) \in Nat
  BY DEF PoolInv, Id
<1>2. pool[id] \in Entry /\ id \in Nat /\ pool # <<>>
  BY <1>1
<1>3. pool[id].value \in Value
  BY <1>2 DEF Entry
<1>. QED
  BY <1>2, <1>3, PoolAssumption DEF PoolInv

\* A decision moves the loop from where it rests.
LEMMA ApproveStep ==
  ASSUME PoolInv, NEW id \in Id, Approve(id)
  PROVE  PoolInv'
<1>. DEFINE w == [Idle EXCEPT !.pc = "activate", !.id = id]
            q == WithTarget(policy, pool[id].value)
<1>1. /\ act' = [act EXCEPT ![Loop] = w] /\ act[Loop].pc = "idle"
      /\ policy' = q /\ approved' = approved \cup {id}
      /\ UNCHANGED <<pool, last, scans, banned>>
  BY DEF Approve, Decide, Set
<1>2. /\ w.pc = "activate" /\ w.id = id /\ w.barred = FALSE /\ w.banned = {} /\ w \in Step
  BY EntryHosts DEF Idle, Step, Pc
<1>3. IsPolicy(policy) /\ pool[id].value.host \in Host
  BY EntryHosts
<1>4. /\ IsPolicy(q) /\ q.denied = policy.denied
      /\ \A h : Listed(policy, h) => Listed(q, h)
      /\ Listed(q, pool[id].value.host)
  BY <1>3, WithTargetLists
<1>. HIDE DEF w, q
<1>5. act' \in [Actor -> Step] /\ act'[Loop] = w /\ \A b \in Actor \ {Loop} : act'[b] = act[b]
  BY <1>1, <1>2, Actors DEF PoolInv
<1>6. StepFits(Loop, w, policy', pool')
  BY <1>1, <1>2 DEF StepFits, Id
<1>7. \A b \in Actor \ {Loop} : StepFits(b, act[b], policy', pool')
  <2>1. Len(pool) \in Nat
    BY DEF PoolInv
  <2>. QED
    BY <1>1, <1>4, <2>1, FitsKept DEF PoolInv
<1>8. Reported(last', pool', act'[Loop])
  BY <1>1, <1>5 DEF PoolInv, Reported
<1>9. approved' \subseteq Id' /\ \A i \in approved' : Listed(policy', pool'[i].value.host)
  BY <1>1, <1>4 DEF PoolInv, Id
<1>10. banned' \subseteq Host /\ \A h \in banned' : DeniedIn(policy', h)
  BY <1>1, <1>4 DEF PoolInv, DeniedIn
<1>. QED
  BY <1>1, <1>4, <1>5, <1>6, <1>7, <1>8, <1>9, <1>10 DEF PoolInv

\* The pool after a decision: the values stay and one status changes.
LEMMA DecidedIs ==
  ASSUME PoolInv, NEW id \in Id, NEW s \in Status
  PROVE  LET t == Decided(id, s) IN
         /\ t \in Seq(Entry) /\ Len(t) = Len(pool) /\ Len(pool) \in Nat
         /\ \A i \in 1..Len(pool) : /\ t[i].value = pool[i].value
                                    /\ t[i].status = IF i = id THEN s ELSE pool[i].status
<1>. DEFINE e == [pool[id] EXCEPT !.status = s]
            t == Decided(id, s)
<1>1. pool \in Seq(Entry) /\ id \in 1..Len(pool) /\ Len(pool) \in Nat /\ pool[id] \in Entry
  BY DEF PoolInv, Id
<1>2. e \in Entry /\ e.value = pool[id].value /\ e.status = s
  BY <1>1 DEF Entry
<1>3. t = [pool EXCEPT ![id] = e]
  BY DEF Decided
<1>. HIDE DEF e
<1>4. t \in Seq(Entry) /\ Len(t) = Len(pool)
      /\ \A i \in 1..Len(pool) : t[i] = IF i = id THEN e ELSE pool[i]
  BY <1>1, <1>2, <1>3
<1>. HIDE DEF t
<1>. QED
  BY <1>1, <1>2, <1>4 DEF t

\* The target that is approved becomes active; what was barred may pass now.
LEMMA ActivateStep ==
  ASSUME PoolInv, Activate
  PROVE  PoolInv'
<1>. DEFINE v == act[Loop]
            t == Decided(v.id, "active")
            w(b) == IF b = Loop THEN [act[b] EXCEPT !.pc = "decided"]
                                ELSE [act[b] EXCEPT !.barred = FALSE]
<1>1. /\ v.pc = "activate" /\ pool' = t /\ act' = [b \in Actor |-> w(b)]
      /\ UNCHANGED <<policy, last, scans, approved, banned>>
  BY DEF Activate
<1>2. v \in Step /\ StepFits(Loop, v, policy, pool) /\ v.id \in Id
  BY <1>1, Actors DEF PoolInv, StepFits, Id
<1>3. /\ t \in Seq(Entry) /\ Len(t) = Len(pool) /\ Len(pool) \in Nat
      /\ \A i \in 1..Len(pool) : /\ t[i].value = pool[i].value
                                 /\ t[i].status = IF i = v.id THEN "active" ELSE pool[i].status
  <2>1. "active" \in Status
    BY DEF Status
  <2>. QED
    BY <1>2, <2>1, DecidedIs
<1>. HIDE DEF t
<1>4. ASSUME NEW b \in Actor PROVE w(b) \in Step /\ StepFits(b, w(b), policy, t)
  <2>1. act[b] \in Step /\ StepFits(b, act[b], policy, pool)
    BY DEF PoolInv
  <2>2. CASE b = Loop
    <3>. DEFINE u == [act[b] EXCEPT !.pc = "decided"]
    <3>1. u \in Step /\ u.pc = "decided" /\ u.id = v.id /\ u.barred = v.barred /\ u.banned = v.banned
      BY <2>1, <2>2 DEF Step, Pc
    <3>2. w(b) = u
      BY <2>2
    <3>. HIDE DEF u
    <3>3. StepFits(b, u, policy, t)
      BY <1>2, <1>3, <2>2, <3>1 DEF StepFits, Id
    <3>. QED
      BY <3>1, <3>2, <3>3
  <2>3. CASE b # Loop
    <3>. DEFINE u == [act[b] EXCEPT !.barred = FALSE]
    <3>1. /\ u \in Step /\ u.pc = act[b].pc /\ u.id = act[b].id /\ u.barred = FALSE
          /\ u.value = act[b].value /\ u.status = act[b].status /\ u.banned = act[b].banned
      BY <2>1 DEF Step
    <3>2. w(b) = u
      BY <2>3
    <3>. HIDE DEF u
    <3>3. StepFits(b, u, policy, t)
      BY <1>3, <2>1, <3>1 DEF StepFits
    <3>. QED
      BY <3>1, <3>2, <3>3
  <2>. QED
    BY <2>2, <2>3
<1>5. act'[Loop].pc = "decided" /\ act'[Loop].id = v.id
  BY <1>1, <1>2, Actors DEF Step
<1>. HIDE DEF w
<1>6. act' \in [Actor -> Step] /\ \A b \in Actor : StepFits(b, act'[b], policy', pool')
  BY <1>1, <1>4
<1>7. Reported(last', pool', act'[Loop])
  BY <1>1, <1>3 DEF PoolInv, Reported
<1>8. \A s \in scans' : TaskFits(s, pool')
  BY <1>1, <1>3 DEF PoolInv, TaskFits
<1>9. approved' \subseteq Id' /\ \A i \in approved' : Listed(policy', pool'[i].value.host)
  BY <1>1, <1>3 DEF PoolInv, Id
<1>10. pool' # <<>> => pool # <<>>
  BY <1>1, <1>3 DEF PoolInv
<1>. QED
  BY <1>1, <1>3, <1>6, <1>7, <1>8, <1>9, <1>10 DEF PoolInv

\* The target that is rejected bars its key from now on.
LEMMA RejectStep ==
  ASSUME PoolInv, NEW id \in Id, Reject(id)
  PROVE  PoolInv'
<1>. DEFINE w == [Idle EXCEPT !.pc = "deny", !.id = id]
            t == Decided(id, "rejected")
<1>1. /\ act' = [act EXCEPT ![Loop] = w] /\ act[Loop].pc = "idle" /\ pool' = t
      /\ UNCHANGED <<policy, last, scans, approved, banned>>
  BY DEF Reject, Decide, Set
<1>2. /\ w.pc = "deny" /\ w.id = id /\ w.barred = FALSE /\ w.banned = {} /\ w \in Step
  BY EntryHosts DEF Idle, Step, Pc
<1>3. /\ t \in Seq(Entry) /\ Len(t) = Len(pool) /\ Len(pool) \in Nat
      /\ \A i \in 1..Len(pool) : /\ t[i].value = pool[i].value
                                 /\ t[i].status = IF i = id THEN "rejected" ELSE pool[i].status
  <2>1. "rejected" \in Status
    BY DEF Status
  <2>. QED
    BY <2>1, DecidedIs
<1>. HIDE DEF w, t
<1>4. act' \in [Actor -> Step] /\ act'[Loop] = w /\ \A b \in Actor \ {Loop} : act'[b] = act[b]
  BY <1>1, <1>2, Actors DEF PoolInv
<1>5. StepFits(Loop, w, policy', pool')
  BY <1>1, <1>2, <1>3 DEF StepFits, Id
<1>6. ASSUME NEW b \in Actor \ {Loop} PROVE StepFits(b, act[b], policy', pool')
  <2>1. policy' = policy /\ StepFits(b, act[b], policy, pool)
    BY <1>1 DEF PoolInv
  <2>2. /\ Len(pool') \in Nat /\ Len(pool) <= Len(pool')
        /\ \A i \in 1..Len(pool) : pool'[i].value = pool[i].value
        /\ \A i \in 1..Len(pool) : pool[i].status = "rejected" => pool'[i].status = "rejected"
    BY <1>1, <1>3
  <2>. QED
    BY <1>3, <2>1, <2>2, FitsKept
<1>7. Reported(last', pool', act'[Loop])
  BY <1>1, <1>2, <1>3, <1>4 DEF PoolInv, Reported
<1>8. \A s \in scans' : TaskFits(s, pool')
  BY <1>1, <1>3 DEF PoolInv, TaskFits
<1>9. approved' \subseteq Id' /\ \A i \in approved' : Listed(policy', pool'[i].value.host)
  BY <1>1, <1>3 DEF PoolInv, Id
<1>10. pool' # <<>> => pool # <<>>
  BY EntryHosts
<1>. QED
  BY <1>1, <1>3, <1>4, <1>5, <1>6, <1>7, <1>8, <1>9, <1>10 DEF PoolInv

\* The policy denies the target that was rejected.
LEMMA DenyStep ==
  ASSUME PoolInv, Deny
  PROVE  PoolInv'
<1>. DEFINE v == act[Loop]
            x == pool[v.id].value
            w == [v EXCEPT !.pc = "decided"]
            q == WithDenial(policy, x)
<1>1. /\ act' = [act EXCEPT ![Loop] = w] /\ v.pc = "deny" /\ policy' = q
      /\ banned' = IF x = Plain(x.host) THEN banned \cup {x.host} ELSE banned
      /\ UNCHANGED <<pool, last, scans, approved>>
  BY DEF Deny, Set
<1>2. v \in Step /\ StepFits(Loop, v, policy, pool) /\ v.id \in Id /\ Len(pool) \in Nat
  BY <1>1, Actors DEF PoolInv, StepFits, Id
<1>3. w \in Step /\ w.pc = "decided" /\ w.id = v.id /\ w.barred = v.barred /\ w.banned = v.banned
  BY <1>2 DEF Step, Pc
<1>4. IsPolicy(policy) /\ x.host \in Host
  BY <1>2, EntryHosts
<1>5. /\ IsPolicy(q) /\ q.denied = policy.denied \cup {x}
      /\ q.hosts = policy.hosts /\ q.domains = policy.domains /\ q.cidrs = policy.cidrs
  BY <1>4, PolicyFields DEF WithDenial, IsPolicy
<1>. HIDE DEF w, q
<1>6. act' \in [Actor -> Step] /\ act'[Loop] = w /\ \A b \in Actor \ {Loop} : act'[b] = act[b]
  BY <1>1, <1>3, Actors DEF PoolInv
<1>7. StepFits(Loop, w, policy', pool')
  BY <1>1, <1>2, <1>3, <1>5 DEF StepFits, DeniedIn
<1>8. \A b \in Actor \ {Loop} : StepFits(b, act[b], policy', pool')
  BY <1>1, <1>2, <1>5, FitsKept DEF PoolInv
<1>9. Reported(last', pool', act'[Loop])
  BY <1>1, <1>3, <1>6 DEF PoolInv, Reported
<1>10. banned' \subseteq Host /\ \A h \in banned' : DeniedIn(policy', h)
  <2>. HIDE DEF x
  <2>1. \A h \in banned : DeniedIn(policy', h)
    BY <1>1, <1>5 DEF PoolInv, DeniedIn
  <2>2. x = Plain(x.host) => DeniedIn(policy', x.host)
    BY <1>1, <1>5 DEF DeniedIn
  <2>. QED
    BY <1>1, <1>4, <2>1, <2>2 DEF PoolInv
<1>11. \A i \in approved' : Listed(policy', pool'[i].value.host)
  BY <1>1, <1>5 DEF PoolInv, Listed
<1>. QED
  BY <1>1, <1>5, <1>6, <1>7, <1>8, <1>9, <1>10, <1>11 DEF PoolInv, Id

\* The event says approved only of a target that is active.
LEMMA RecordDecisionStep ==
  ASSUME PoolInv, RecordDecision
  PROVE  PoolInv'
<1>. DEFINE v == act[Loop]
            k == EventOf(pool[v.id].status)
<1>1. /\ v.pc = "decided" /\ UNCHANGED <<policy, pool, scans, approved, banned>>
      /\ last' = [last EXCEPT ![v.id] = k] /\ act' = [act EXCEPT ![Loop] = Idle]
  BY DEF RecordDecision, Set
<1>2. v.id \in 1..Len(pool)
  BY <1>1, Actors DEF PoolInv, StepFits
<1>3. k \in EventKind /\ (k = "approved" => pool[v.id].status = "active")
  BY DEF EventOf, EventKind
<1>. HIDE DEF k
<1>4. last' \in Seq(EventKind) /\ Len(last') = Len(pool)
      /\ \A i \in 1..Len(pool) : last'[i] = IF i = v.id THEN k ELSE last[i]
  <2>1. last \in Seq(EventKind) /\ Len(last) = Len(pool) /\ v.id \in 1..Len(last)
        /\ k \in EventKind
    BY <1>1, <1>2, <1>3 DEF PoolInv, StepFits
  <2>2. last' = [last EXCEPT ![v.id] = k]
    BY <1>1
  <2>. HIDE DEF v
  <2>. QED
    BY <2>1, <2>2
<1>5. act' \in [Actor -> Step] /\ act'[Loop] = Idle /\ \A b \in Actor \ {Loop} : act'[b] = act[b]
  BY <1>1, IdleFits, Actors DEF PoolInv
<1>6. \A b \in Actor : StepFits(b, act'[b], policy', pool')
  BY <1>1, <1>5, IdleFits DEF PoolInv
<1>7. Reported(last', pool', act'[Loop])
  BY <1>1, <1>3, <1>4 DEF PoolInv, Reported
<1>. QED
  BY <1>1, <1>4, <1>5, <1>6, <1>7 DEF PoolInv, Id

\* A change of the policy forgets what was approved and who was banned.
LEMMA PatchStep ==
  ASSUME PoolInv, NEW change, Patch(change)
  PROVE  PoolInv'
<1>. DEFINE q == Patched(IF policy = NoPolicy THEN EmptyPolicy ELSE policy, change)
            w(b) == [act[b] EXCEPT !.banned = {}]
<1>1. /\ policy' = q /\ approved' = {} /\ banned' = {} /\ act[Loop].pc = "idle"
      /\ act' = [b \in Actor |-> w(b)] /\ UNCHANGED <<pool, last, scans>>
  BY DEF Patch, Decide
<1>2. IsPolicy(q)
  BY PolicyFields DEF Patched, IsPolicy, PoolInv
<1>. HIDE DEF q
<1>3. ASSUME NEW b \in Actor
      PROVE  w(b) \in Step /\ StepFits(b, w(b), policy', pool') /\ w(b).pc = act[b].pc
  <2>1. act[b] \in Step /\ StepFits(b, act[b], policy, pool)
    BY DEF PoolInv
  <2>2. /\ w(b) \in Step /\ w(b).pc = act[b].pc /\ w(b).id = act[b].id
        /\ w(b).barred = act[b].barred /\ w(b).value = act[b].value
        /\ w(b).status = act[b].status /\ w(b).banned = {}
    BY <2>1 DEF Step
  <2>. HIDE DEF w
  <2>. QED
    BY <1>1, <1>2, <2>1, <2>2 DEF StepFits
<1>. HIDE DEF w
<1>4. act' \in [Actor -> Step] /\ \A b \in Actor : StepFits(b, act'[b], policy', pool')
  BY <1>1, <1>3
<1>5. Reported(last', pool', act'[Loop])
  BY <1>1 DEF PoolInv, Reported
<1>. QED
  BY <1>1, <1>2, <1>4, <1>5 DEF PoolInv

-----------------------------------------------------------------------------
\* Every step keeps the invariant.
LEMMA PoolInvStep == PoolInv /\ [Next]_vars => PoolInv'
<1>. SUFFICES ASSUME PoolInv, [Next]_vars PROVE PoolInv'
  OBVIOUS
<1>1. ASSUME NEW a \in Actor, Proposal(a) PROVE PoolInv'
  BY <1>1, ProposeStep, MatchKeyStep, ReadPolicyStep, CreatePolicyStep, NumberStep, InsertStep,
     RecordProposalStep DEF Proposal
<1>2. ASSUME NEW a \in Actor, Scan(a) PROVE PoolInv'
  BY <1>2, RequestScanStep, GateStep, CreateTaskStep DEF Scan
<1>3. CASE Decision
  BY <1>3, ApproveStep, RejectStep, ActivateStep, DenyStep, RecordDecisionStep, PatchStep
     DEF Decision
<1>4. ASSUME NEW s \in scans, StartScan(s) PROVE PoolInv'
  BY <1>4, StartScanStep
<1>5. CASE UNCHANGED vars
  BY <1>5 DEF vars, PoolInv, Id
<1>. QED
  BY <1>1, <1>2, <1>3, <1>4, <1>5 DEF Next

\* The invariant holds throughout.
LEMMA PoolInvariance == Spec => []PoolInv
  BY PoolInvInit, PoolInvStep, PTL DEF Spec

\* target_admission_service.py:59: a project with targets has a policy.
THEOREM PolicyFirst == Spec => []PolicyBeforeTargets
<1>1. PoolInv => PolicyBeforeTargets
  BY PolicyFields DEF PoolInv, PolicyBeforeTargets
<1>. QED
  BY <1>1, PoolInvariance, PTL

\* target_admission_service.py:215: what was approved stays in scope until the
\* policy is changed by hand.
THEOREM ApprovedHolds == Spec => []ApprovedStaysInScope
<1>1. PoolInv => ApprovedStaysInScope
  BY DEF PoolInv, ApprovedStaysInScope, InScope
<1>. QED
  BY <1>1, PoolInvariance, PTL

\* target_admission_service.py:231: no scan that is asked for later reaches a
\* host that was rejected.
THEOREM DenialHolds == Spec => []DenialBinds
<1>1. PoolInv => DenialBinds
  BY DEF PoolInv, TaskFits, DenialBinds
<1>. QED
  BY <1>1, PoolInvariance, PTL

\* target_admission_service.py:221: approved is the last word only on targets
\* that are active or being decided on.
THEOREM ReportHolds == Spec => []ApprovalReportedTrue
<1>1. PoolInv => ApprovalReportedTrue
  BY DEF PoolInv, Reported, ApprovalReportedTrue, Id
<1>. QED
  BY <1>1, PoolInvariance, PTL

\* The tables and the actors are typed throughout.
THEOREM PoolTyped == Spec => []TypeOK
<1>1. PoolInv => TypeOK
  BY DEF PoolInv, TypeOK, IsPolicy, StepFits, TaskFits, Entry, Id
<1>. QED
  BY <1>1, PoolInvariance, PTL

\* target_admission_service.py:131: a proposal whose key was rejected when it
\* began ends as a rejected target.
THEOREM RejectedBars == Spec => RejectedKeyBars
<1>1. PoolInv /\ [Next]_vars =>
        \A a \in Actor :
          act[a].pc = "insert" /\ act[a].barred /\ pool' # pool /\ act'[a].pc = "event"
            => pool'[Len(pool')].status = "rejected"
  <2>. SUFFICES ASSUME PoolInv, [Next]_vars, NEW a \in Actor, act[a].pc = "insert",
                       act[a].barred, pool' # pool, act'[a].pc = "event"
                PROVE  pool'[Len(pool')].status = "rejected"
    OBVIOUS
  <2>1. act \in [Actor -> Step] /\ act[a].status = "rejected" /\ Len(pool) \in Nat
        /\ pool \in Seq(Entry)
    BY DEF PoolInv, StepFits
  <2>2. ASSUME NEW b \in Actor, Insert(b), b # a PROVE FALSE
    BY <2>1, <2>2 DEF Insert, Set
  <2>3. CASE Insert(a)
    <3>1. pool' = Append(pool, NewTarget(act[a].value, act[a].status))
      BY <2>3 DEF Insert
    <3>. DEFINE e == NewTarget(act[a].value, act[a].status)
    <3>2. e.status = "rejected"
      BY <2>1 DEF NewTarget
    <3>. HIDE DEF e
    <3>3. pool' = Append(pool, e)
      BY <3>1 DEF e
    <3>4. pool'[Len(pool')] = e
      BY <2>1, <3>3
    <3>. QED
      BY <3>2, <3>4
  <2>4. ASSUME NEW b \in Actor, Proposal(b), ~Insert(b) PROVE FALSE
    BY <2>4 DEF Proposal, Propose, MatchKey, ReadPolicy, CreatePolicy, Number, RecordProposal
  <2>5. ASSUME NEW b \in Actor, Scan(b) PROVE FALSE
    BY <2>5 DEF Scan, RequestScan, Gate, CreateTask
  <2>6. CASE Decision
    <3>1. ASSUME NEW id \in Id, Reject(id) PROVE FALSE
      BY <2>1, <3>1, Actors DEF Reject, Decide, Set, Idle
    <3>2. CASE Activate
      <4>1. act'[a].pc = IF a = Loop THEN "decided" ELSE act[a].pc
        BY <2>1, <3>2 DEF Activate, Step
      <4>. QED
        BY <4>1
    <3>. QED
      BY <2>6, <3>1, <3>2 DEF Decision, Approve, Deny, RecordDecision, Patch
  <2>7. ASSUME NEW s \in scans, StartScan(s) PROVE FALSE
    BY <2>7 DEF StartScan
  <2>. QED
    BY <2>2, <2>3, <2>4, <2>5, <2>6, <2>7 DEF Next, vars
<1>. QED
  BY <1>1, PoolInvariance, PTL DEF Spec, RejectedKeyBars
=============================================================================
