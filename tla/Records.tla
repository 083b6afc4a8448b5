-------------------------------- MODULE Records --------------------------------
(***************************************************************************)
(* The evidence, findings, attack path nodes, flags and writeups of the    *)
(* sessions of a project.  The event loop, the threads of scans and the    *)
(* thread of the agent store them.  Rows are never deleted and public ids  *)
(* are counted up, so that a record is known by its kind and the number of *)
(* its public id.                                                          *)
(*                                                                         *)
(* A plain create reads the highest number before it takes the lock of the *)
(* database: a number that was taken meanwhile is refused as not unique.   *)
(* AttackPathService takes the lock first.  Left out: texts, the tasks and *)
(* commands a writeup quotes, events, and transactions that fail.          *)
(***************************************************************************)
EXTENDS Naturals, Sequences, FiniteSets, SequencesExt

CONSTANTS
  Session,
  Order,     \* the sessions in the order in which a project lists them
  Scanner,   \* threads of the scan pool
  Turn,      \* the thread of agent turns
  Desk,      \* the event loop
  Whole,     \* the scope of a project writeup
  NoRecord,
  MaxRows    \* bound: rows of all kinds, stored or begun

Kind     == {"EVID", "FIND", "AP", "FLAG", "RPT"}
Writer   == Scanner \cup {Turn, Desk}
RecordId == Kind \X (1..MaxRows)

ASSUME RecordsAssumption ==
  /\ MaxRows \in Nat \ {0}
  /\ Order \in Seq(Session) /\ \A s \in Session : \E i \in DOMAIN Order : Order[i] = s
  /\ Turn # Desk /\ {Turn, Desk} \cap Scanner = {}
  /\ Whole \notin Session /\ NoRecord \notin Kind \X Nat

VARIABLES
  rows,      \* of each kind, in the order of their numbers
  work,      \* what each writer is in the middle of
  personal,  \* history: evidence a person stored
  cut,       \* history: evidence whose storing was cut short
  late       \* history: evidence stored while a writeup was reading

recordVars == <<rows, work, personal, cut, late>>

NoWork == [doing |-> "nothing", scope |-> Whole, left |-> <<>>, number |-> 0,
           made |-> NoRecord, node |-> NoRecord, refs |-> {}]

RecordsInit ==
  /\ rows = [k \in Kind |-> <<>>]
  /\ work = [a \in Writer |-> NoWork]
  /\ personal = {} /\ cut = {} /\ late = {}

-----------------------------------------------------------------------------
(* Plausible slips, for the mutant runs.                                   *)

\* Evidence and node are taken from any session.
InSessionMutant(s, id) == TRUE
\* Whatever is in the database may be cited.
CitableMutant(w) == {id \in RecordId : id[2] <= Len(rows[id[1]])}

-----------------------------------------------------------------------------
Unoccupied(a) == work[a] = NoWork

Ids(k) == {<<k, n>> : n \in 1..Len(rows[k])}
Row(id) == rows[id[1]][id[2]]
InSession(s, id) == Row(id).session = s
EvidenceOf(s) == {e \in Ids("EVID") : InSession(s, e)}

\* The number allocate_public_id finds.
NextNumber(k) == Len(rows[k]) + 1

\* The bound: rows that are stored, or that somebody is about to store.
Due(w)  == CASE w.doing = "storing" -> Len(w.left) [] w.doing = "reading" -> 1 [] OTHER -> 0
Room(n) == n + MapThenSumSet(LAMBDA k : Len(rows[k]), Kind)
             + MapThenSumSet(LAMBDA a : Due(work[a]), Writer) <= MaxRows

\* A record and the records it refers to: a finding the evidence for it, a node
\* what is linked to it, a flag where it was found, a writeup what it cites.
Evidence(s)      == [session |-> s, refs |-> {}]
Finding(s, refs) == [session |-> s, refs |-> refs]
Node(s, refs)    == [session |-> s, refs |-> refs]
Flag(s, refs)    == [session |-> s, refs |-> refs]
Report(s, refs)  == [session |-> s, refs |-> refs]

Extended(t, k, r)  == [t EXCEPT ![k] = Append(@, r)]
Replaced(t, id, r) == [t EXCEPT ![id[1]] = [@ EXCEPT ![id[2]] = r]]

Linked(t, id, e) ==
  LET n == t["AP"][id[2]] IN Replaced(t, id, Node(n.session, n.refs \cup {e}))

-----------------------------------------------------------------------------
(* Plain creates, one after another.                                       *)

Begin(a, s, left, node, refs) ==
  /\ Unoccupied(a) /\ Room(Len(left))
  /\ work' = [work EXCEPT ![a] = [NoWork EXCEPT !.doing = "storing", !.scope = s, !.left = left,
                                                 !.node = node, !.refs = refs]]
  /\ UNCHANGED <<rows, personal, cut, late>>

\* _persist_candidates, of one piece of evidence that is a finding or not, and
\* that is on the attack path or not; the agent runs its scans itself.
PersistScan(a, s) ==
  /\ a # Desk
  /\ \E finding \in {<<>>, <<"FIND">>}, path \in {<<>>, <<"AP">>} :
       Begin(a, s, <<"EVID">> \o finding \o path, NoRecord, {})

\* create_evidence_from_command, on a node of the session or one of its own.
Clip(s) ==
  \/ Begin(Desk, s, <<"EVID", "AP">>, NoRecord, {})
  \/ \E n \in Ids("AP") : Begin(Desk, s, <<"EVID">>, n, {})

\* The tool create_finding, and the node of an analysis.
Analyse(s) ==
  \/ Begin(Turn, s, <<"AP">>, NoRecord, {})
  \/ \E E \in SUBSET EvidenceOf(s) : Begin(Turn, s, <<"FIND">>, NoRecord, E)

Allocate(a) ==
  LET w == work[a] IN
  /\ w.doing = "storing" /\ w.left # <<>> /\ w.number = 0
  /\ work' = [work EXCEPT ![a].number = NextNumber(Head(w.left))]
  /\ UNCHANGED <<rows, personal, cut, late>>

NewRow(w, k) ==
  CASE k = "EVID" -> Evidence(w.scope)
    [] k = "FIND" -> Finding(w.scope, w.refs)
    [] k = "AP"   -> Node(w.scope, {})
    [] k = "RPT"  -> Report(w.scope, w.refs)

Stored(w, k) ==
  LET id == <<k, w.number>> IN
  [w EXCEPT !.left = Tail(@), !.number = 0,
            !.made = IF k = "EVID" THEN id ELSE @,
            !.refs = IF k = "EVID" THEN {id} ELSE @,
            !.node = IF k \in {"AP", "RPT"} THEN id ELSE @]

Reading == \E a \in Writer : work[a].doing = "reading"

Store(a) ==
  LET w == work[a]
      k == Head(w.left)
  IN
  /\ w.number > 0 /\ w.number = NextNumber(k)
  /\ rows' = Extended(rows, k, NewRow(w, k))
  /\ work' = [work EXCEPT ![a] = Stored(w, k)]
  /\ late' = IF k = "EVID" /\ Reading THEN late \cup {<<k, w.number>>} ELSE late
  /\ personal' = IF k = "EVID" /\ a = Desk THEN personal \cup {<<k, w.number>>} ELSE personal
  /\ UNCHANGED cut

\* UNIQUE constraint failed: nothing that was stored before is taken back.
Refused(a) ==
  LET w == work[a] IN
  /\ w.number > 0 /\ w.number # NextNumber(Head(w.left))
  /\ cut' = cut \cup ({w.made} \ {NoRecord})
  /\ work' = [work EXCEPT ![a] = NoWork]
  /\ UNCHANGED <<rows, personal, late>>

\* The evidence is linked to the node, unless that was given and is of another
\* session, which is found out only now.
Finish(a) ==
  LET w == work[a] IN
  /\ w.doing = "storing" /\ w.left = <<>>
  /\ \/ /\ w.made # NoRecord /\ w.node # NoRecord /\ InSession(w.scope, w.node)
        /\ rows' = Linked(rows, w.node, w.made) /\ UNCHANGED cut
     \/ /\ w.made # NoRecord /\ w.node # NoRecord /\ ~InSession(w.scope, w.node)
        /\ cut' = cut \cup {w.made} /\ UNCHANGED rows
     \/ NoRecord \in {w.made, w.node} /\ UNCHANGED <<rows, cut>>
  /\ work' = [work EXCEPT ![a] = NoWork]
  /\ UNCHANGED <<personal, late>>

-----------------------------------------------------------------------------
(* Transactions of AttackPathService.                                      *)

Transaction(a, t) == Unoccupied(a) /\ rows' = t /\ UNCHANGED <<work, cut>>

AddNode(a, s, E) ==
  /\ a \in {Desk, Turn} /\ E \subseteq EvidenceOf(s) /\ Room(1)
  /\ Transaction(a, Extended(rows, "AP", Node(s, E)))
  /\ UNCHANGED <<personal, late>>

\* create_evidence, on a node of the session or one of its own.
AddEvidence(s) ==
  LET e == <<"EVID", NextNumber("EVID")>>
      t == Extended(rows, "EVID", Evidence(s))
  IN
  /\ Room(1)
  /\ \/ Room(2) /\ Transaction(Desk, Extended(t, "AP", Node(s, {e})))
     \/ \E n \in Ids("AP") : InSession(s, n) /\ Transaction(Desk, Linked(t, n, e))
  /\ personal' = personal \cup {e} /\ late' = IF Reading THEN late \cup {e} ELSE late

\* create_flag, with the evidence it was found in or without.
AddFlag(s, E) ==
  /\ E \subseteq EvidenceOf(s) /\ Cardinality(E) <= 1 /\ Room(2)
  /\ Transaction(Desk, Extended(Extended(rows, "FLAG", Flag(s, E)), "AP", Node(s, E)))
  /\ UNCHANGED <<personal, late>>

\* update_finding.
UpdateFinding(f, E) ==
  /\ E \subseteq EvidenceOf(Row(f).session)
  /\ Transaction(Desk, Replaced(rows, f, Finding(Row(f).session, E)))
  /\ UNCHANGED <<personal, late>>

-----------------------------------------------------------------------------
(* Writeups.  The lists of a session are read one after another.           *)

ReadOrder == <<"EVID", "FIND", "AP", "FLAG">>

\* The lists of sessions, of one after another.
Lists(sessions) ==
  [i \in 1..(4 * Len(sessions)) |->
     <<sessions[((i - 1) \div 4) + 1], ReadOrder[((i - 1) % 4) + 1]>>]

StartWriteup(a, scope) ==
  /\ Unoccupied(a) /\ Room(1) /\ a \in {Desk, Turn} /\ (a = Desk \/ scope # Whole)
  /\ work' = [work EXCEPT ![a] =
       [NoWork EXCEPT !.doing = "reading", !.scope = scope,
                      !.left = Lists(IF scope = Whole THEN Order ELSE <<scope>>)]]
  /\ UNCHANGED <<rows, personal, cut, late>>

ReadList(a) ==
  LET w == work[a]
      l == Head(w.left)
  IN
  /\ w.doing = "reading" /\ w.left # <<>>
  /\ work' = [work EXCEPT ![a].left = Tail(@),
                          ![a].refs = @ \cup {id \in Ids(l[2]) : InSession(l[1], id)}]
  /\ UNCHANGED <<rows, personal, cut, late>>

\* The ids a writeup may cite.
Citable(w) == w.refs

\* The model cites what it likes; one record that was not read is an error.
Validate(a) ==
  LET w == work[a] IN
  /\ w.doing = "reading" /\ w.left = <<>>
  /\ \E C \in {{}} \cup {{id} : id \in RecordId} :
       work' = [work EXCEPT ![a] =
         IF C \subseteq Citable(w) THEN [w EXCEPT !.doing = "storing", !.left = <<"RPT">>, !.refs = C]
         ELSE NoWork]
  /\ UNCHANGED <<rows, personal, cut, late>>

RecordsNext ==
  \/ \E a \in Writer : Allocate(a) \/ Store(a) \/ Refused(a) \/ Finish(a) \/ ReadList(a) \/ Validate(a)
  \/ \E s \in Session : Clip(s) \/ Analyse(s) \/ AddEvidence(s)
  \/ \E s \in Session, a \in Writer : PersistScan(a, s)
  \/ \E s \in Session, E \in SUBSET Ids("EVID") : AddFlag(s, E) \/ \E a \in Writer : AddNode(a, s, E)
  \/ \E f \in Ids("FIND"), E \in SUBSET Ids("EVID") : UpdateFinding(f, E)
  \/ \E a \in Writer, scope \in Session \cup {Whole} : StartWriteup(a, scope)

RecordsSpec == RecordsInit /\ [][RecordsNext]_recordVars

-----------------------------------------------------------------------------
\* attack_path_service.py:111: what a record refers to is of its own session.
RefsInSession ==
  \A id \in UNION {Ids(k) : k \in Kind \ {"RPT"}} :
    \A r \in Row(id).refs : Row(r).session = Row(id).session

\* terminal_service.py:177: evidence a person stored is on the attack path,
\* unless its node was refused when it was stored already.
EvidenceOnPath ==
  \A e \in personal :
    \/ e \in cut \/ e = work[Desk].made
    \/ \E n \in Ids("AP") : e \in Row(n).refs

PathSound == RefsInSession /\ EvidenceOnPath

\* writeup_service.py:379: a writeup that is stored cites records of its own
\* scope only; and what it is made from names no evidence that is not part of
\* it, but for evidence stored while it was put together.
WriteupsGrounded ==
  /\ \A r \in Ids("RPT") : \A c \in Row(r).refs :
       Row(r).session = Whole \/ InSession(Row(r).session, c)
  /\ \A a \in Writer : work[a].doing = "reading" =>
       \A f \in work[a].refs : f[1] = "FIND" => Row(f).refs \subseteq work[a].refs \cup late

=============================================================================
