-------------------------- MODULE Processes_proofs ---------------------------
(***************************************************************************)
(* Proofs about the terminals and the checkpoints, for any terminals,      *)
(* descriptor numbers, commands and close requests, and for any number of  *)
(* processes, checkpoints and crashes.                                     *)
(***************************************************************************)
EXTENDS Terminals, Checkpoints, FiniteSetTheorems, TLAPS

-----------------------------------------------------------------------------
(* The invariant of the terminals.                                         *)

CommandRow == [status : {"absent", "running", "ended"}, tagged : BOOLEAN]

Opened(t) == shell[t] # "none"

Typed ==
  /\ at \in {"idle", "registering", "retiring", "saving", "creating", "activating", "closing",
             "tagging"}
  /\ subject \in Terminal \cup {Nobody} /\ (at # "idle" => subject \in Terminal)
  /\ command \in Command \cup {NoCommand}
  /\ at \in {"saving", "activating", "tagging"} => command \in Command
  /\ copy \in CommandRow /\ rows \in [Command -> CommandRow]
  /\ context \subseteq Terminal /\ sessions \subseteq Terminal
  /\ number \in [Terminal -> Nat] /\ closes \in [Terminal -> Nat]
  /\ table \in [Number -> Terminal \cup {Nobody}]
  /\ shell \in [Terminal -> {"none", "running", "hungup", "dead"}]
  /\ reader \in [Terminal -> {"none", "polling", "selecting", "reading", "leaving", "exiting",
                              "finalizing", "ending", "telling", "done"}]
  /\ held \in [Terminal -> Command \cup {NoCommand}]
  /\ active \in [Terminal -> Command \cup {NoCommand}]

\* Nothing is known of a terminal before it is opened.
Fresh ==
  \A t \in Terminal : ~Opened(t) =>
    /\ closes[t] = 0 /\ t \notin context \cup sessions
    /\ reader[t] = "none" /\ active[t] = NoCommand

\* A number is its owner's; a terminal that has lost its own was closed, and
\* that is over, or another that had the number was closed twice.
Numbers ==
  /\ \A t \in Terminal : Opened(t) => number[t] \in Number
  /\ \A n \in Number : table[n] \in Terminal => Opened(table[n]) /\ number[table[n]] = n
  /\ \A t \in Terminal : Does("closing", t) => Opened(t) /\ closes[t] > 0
  /\ \A t \in Terminal : Opened(t) /\ Owner(t) # t =>
       \/ closes[t] > 0 /\ ~(Does("closing", t) /\ closes[t] = 1)
       \/ \E u \in Terminal \ {t} : Opened(u) /\ number[u] = number[t] /\ closes[u] > 1

Running(c) == rows[c].status = "running" /\ ~rows[c].tagged

\* Commands are their terminal's; one that runs is somebody's to end.
Commands ==
  /\ \A t \in Terminal : active[t] # NoCommand => Of(active[t]) = t
  /\ \A t \in Terminal : held[t] # NoCommand => Of(held[t]) = t
  /\ \A t \in Terminal : reader[t] = "ending" <=> held[t] # NoCommand
  /\ \A t \in Terminal : /\ active[t] # NoCommand => rows[active[t]] # Absent
                         /\ held[t] # NoCommand => rows[held[t]] # Absent
  /\ at \in {"saving", "activating"} => Of(command) = subject /\ rows[command] # Absent
  /\ at \in {"saving", "creating", "activating"} => active[subject] = NoCommand
  /\ at \in {"retiring", "saving", "creating"} => Unused(subject) # {}
  /\ \A c \in Command : Running(c) =>
       \/ c = active[Of(c)] \/ c = held[Of(c)]
       \/ c = command /\ at \in {"saving", "activating"}

\* A terminal is registered and exits once each, in either order; when it has
\* exited, and no input of it was being handled, it has no active command.
Lifecycle ==
  /\ \A t \in Terminal : /\ Opened(t) /\ t \notin context
                         /\ reader[t] \in {"polling", "selecting", "reading", "leaving", "exiting"}
                         => Does("registering", t)
  /\ \A t \in Terminal : Does("registering", t) => Opened(t) /\ active[t] = NoCommand
  /\ \A t \in Terminal : Typing(t) => Opened(t) /\ t \in context \cup overlapped
  /\ \A t \in Terminal : reader[t] \in {"ending", "telling", "done"} =>
       t \in context \cup overlapped \/ active[t] = NoCommand

TerminalsInv == Typed /\ Fresh /\ Numbers /\ Commands /\ Lifecycle

-----------------------------------------------------------------------------
(* The terminals.                                                           *)

\* The command of a row is of a terminal.
LEMMA CommandOf ==
  /\ \A c \in Command : Of(c) \in Busy /\ Of(c) \in Terminal /\ c # NoCommand
  /\ Busy \subseteq Terminal /\ Nobody \notin Terminal
  /\ Absent \in CommandRow /\ Ended \in CommandRow /\ [Absent EXCEPT !.status = "running"] \in CommandRow
  /\ \A r \in CommandRow : [r EXCEPT !.tagged = TRUE] \in CommandRow
                           /\ [r EXCEPT !.tagged = TRUE].tagged
  /\ Absent.status = "absent" /\ Ended.status = "ended"
  /\ Ended # Absent /\ [Absent EXCEPT !.status = "running"] # Absent
BY TerminalsAssumption DEF Command, Of, CommandRow, Absent, Ended

\* Every step of the terminals keeps the types.
LEMMA TerminalTypes ==
  ASSUME Typed, Fresh, Commands, [Next]_vars
  PROVE  Typed'
<1>. USE CommandOf DEF Typed
<1>1. CASE UNCHANGED vars
  BY <1>1 DEF vars, loop, kernel, log
<1>2. ASSUME NEW t \in Terminal, Spawn(t) PROVE Typed'
  BY <1>2, TerminalsAssumption DEF Spawn, log, Least, Free
<1>3. ASSUME NEW t \in Terminal, Register(t) \/ Release(t) PROVE Typed'
  BY <1>3 DEF Register, Release, Idle, Does, kernel, log, Hup, Owner
<1>4. ASSUME NEW t \in Terminal, Input(t) PROVE Typed'
  BY <1>4 DEF Input, kernel, log
<1>5. ASSUME NEW t \in Terminal, Retire(t) PROVE Typed'
  BY <1>5 DEF Retire, Retired, Turn, Does, kernel
<1>6. ASSUME NEW t \in Terminal, SaveEnd(t) PROVE Typed'
  BY <1>6 DEF SaveEnd, Turn, Does, kernel
<1>7. ASSUME NEW t \in Terminal, Create(t) PROVE Typed'
  BY <1>7 DEF Create, Turn, Does, kernel, Least, Unused
<1>8. ASSUME NEW t \in Terminal, Activate(t) PROVE Typed'
  BY <1>8 DEF Activate, Turn, Does, kernel, Idle
<1>9. ASSUME NEW t \in Terminal, Close(t) PROVE Typed'
  BY <1>9 DEF Close, Hup, log
<1>10. ASSUME NEW c \in Command, ReadRow(c) PROVE Typed'
  BY <1>10 DEF ReadRow, kernel, log
<1>11. CASE SaveTags
  BY <1>11 DEF SaveTags, Idle, kernel
<1>12. ASSUME NEW t \in Terminal, Reader(t) PROVE Typed'
  BY <1>12 DEF Reader, Poll, Select, Read, Leave, Exit, Finalize, SaveExit, Tell, Step, loop, kernel,
    log, LeftBehind
<1>13. ASSUME NEW t \in Terminal, Emit(t) \/ Die(t) PROVE Typed'
  BY <1>13 DEF Emit, Die, loop, log
<1>. QED BY <1>1, <1>2, <1>3, <1>4, <1>5, <1>6, <1>7, <1>8, <1>9, <1>10, <1>11, <1>12, <1>13
  DEF Next, EventLoop, Request

\* A terminal that was not opened before, or is no more than it was.
LEMMA TerminalFresh ==
  ASSUME Typed, Fresh, Numbers, Commands, Lifecycle, [Next]_vars
  PROVE  Fresh'
<1>. USE CommandOf DEF Typed, Fresh, Opened
<1>1. CASE UNCHANGED vars
  BY <1>1 DEF vars, loop, kernel, log
<1>2. ASSUME NEW t \in Terminal, Spawn(t) PROVE Fresh'
  BY <1>2 DEF Spawn, log
<1>3. ASSUME NEW t \in Terminal, Register(t) PROVE Fresh'
  BY <1>3 DEF Register, Idle, Does, kernel, log, Lifecycle
<1>4. ASSUME NEW t \in Terminal, Release(t) PROVE Fresh'
  <2>1. \A u \in Terminal : shell'[u] = "none" <=> shell[u] = "none"
    BY <1>4 DEF Release, Hup, Owner
  <2>. QED BY <1>4, <2>1 DEF Release, log
<1>5. ASSUME NEW t \in Terminal, Input(t) \/ Retire(t) \/ SaveEnd(t) \/ Create(t) PROVE Fresh'
  BY <1>5 DEF Input, Retire, SaveEnd, Create, kernel, log
<1>6. ASSUME NEW t \in Terminal, Activate(t) PROVE Fresh'
  BY <1>6 DEF Activate, kernel, Lifecycle, Typing
<1>7. ASSUME NEW t \in Terminal, Close(t) PROVE Fresh'
  BY <1>7 DEF Close, Hup, log
<1>8. ASSUME SaveTags \/ \E c \in Command : ReadRow(c) PROVE Fresh'
  BY <1>8 DEF ReadRow, SaveTags, kernel, log
<1>9. ASSUME NEW t \in Terminal, Reader(t) PROVE Fresh'
  BY <1>9 DEF Reader, Poll, Select, Read, Leave, Exit, Finalize, SaveExit, Tell, Step, loop, kernel, log
<1>10. ASSUME NEW t \in Terminal, Emit(t) \/ Die(t) PROVE Fresh'
  BY <1>10 DEF Emit, Die, loop, log
<1>. QED BY <1>1, <1>2, <1>3, <1>4, <1>5, <1>6, <1>7, <1>8, <1>9, <1>10 DEF Next, EventLoop, Request

\* Steps that touch neither the descriptors nor the close requests.
LEMMA NumbersKept ==
  ASSUME Numbers, UNCHANGED <<number, closes, table>>,
         \A t \in Terminal : Opened(t) <=> Opened(t)',
         \A t \in Terminal : Does("closing", t)' => Does("closing", t)
  PROVE  Numbers'
BY DEF Numbers, Owner

\* A terminal loses its number only when it is closed, or when another that
\* had it before is closed a second time.
LEMMA TerminalNumbers ==
  ASSUME Typed, Fresh, Numbers, Lifecycle, [Next]_vars
  PROVE  Numbers'
<1>. USE CommandOf DEF Typed
<1>1. CASE UNCHANGED vars
  BY <1>1, NumbersKept DEF vars, loop, kernel, Opened, Does
<1>2. ASSUME NEW t \in Terminal, Spawn(t) PROVE Numbers'
  <2>1. PICK n \in Least(Free) : table' = [table EXCEPT ![n] = t] /\ number' = [number EXCEPT ![t] = n]
    BY <1>2 DEF Spawn
  <2>2. /\ n \in Number /\ table[n] = Nobody /\ ~Opened(t) /\ closes[t] = 0
        /\ UNCHANGED closes /\ at' = "registering" /\ at = "idle"
        /\ \A u \in Terminal : Opened(u)' <=> Opened(u) \/ u = t
    BY <1>2, <2>1 DEF Spawn, Least, Free, Opened, Fresh
  <2>3. \A u \in Terminal : Opened(u) => number'[u] = number[u] /\ u # t
    BY <2>1, <2>2
  <2>4. table'[n] = t /\ \A m \in Number : m # n => table'[m] = table[m]
    BY <2>1, <2>2
  <2>5. number'[t] = n
    BY <2>1, TerminalsAssumption
  <2>6. \A u \in Terminal : Opened(u)' => number'[u] \in Number
    BY <2>2, <2>3, <2>5 DEF Numbers
  <2>7. \A m \in Number : table'[m] \in Terminal => Opened(table[m])' /\ number'[table'[m]] = m
    <3>. SUFFICES ASSUME NEW m \in Number, table'[m] \in Terminal
                  PROVE  Opened(table[m])' /\ number'[table'[m]] = m
      OBVIOUS
    <3>1. CASE m = n
      BY <1>2, <2>2, <2>4, <2>5, <3>1 DEF Spawn, Opened
    <3>2. CASE m # n
      <4>1. table'[m] = table[m] /\ Opened(table[m]) /\ number[table[m]] = m
        BY <2>4, <3>2 DEF Numbers
      <4>2. shell'[table[m]] = shell[table[m]]
        BY <1>2, <2>3, <4>1 DEF Spawn
      <4>. QED BY <2>3, <4>1, <4>2 DEF Opened
    <3>. QED BY <3>1, <3>2
  <2>8. \A u \in Terminal : Opened(u)' /\ Owner(u)' # u =>
          \/ closes'[u] > 0
          \/ \E v \in Terminal \ {u} : Opened(v)' /\ number'[v] = number'[u] /\ closes'[v] > 1
    <3>. SUFFICES ASSUME NEW u \in Terminal, Opened(u)', Owner(u)' # u
                  PROVE  \/ closes[u] > 0
                         \/ \E v \in Terminal \ {u} : Opened(v)' /\ number'[v] = number'[u] /\ closes[v] > 1
      BY <2>2
    <3>1. u # t
      BY <2>4, <2>5 DEF Owner
    <3>2. Opened(u) /\ number'[u] = number[u] /\ number[u] \in Number
      BY <2>2, <2>3, <3>1 DEF Numbers
    <3>3. Owner(u) # u
      BY <2>2, <2>4, <3>2 DEF Owner
    <3>. QED BY <2>2, <2>3, <3>2, <3>3 DEF Numbers
  <2>. QED BY <2>2, <2>6, <2>7, <2>8 DEF Numbers, Does
<1>3. ASSUME NEW t \in Terminal, Close(t) PROVE Numbers'
  <2>1. /\ UNCHANGED <<number, table>> /\ closes' = [closes EXCEPT ![t] = @ + 1]
        /\ at = "idle" /\ at' = "closing" /\ subject' = t /\ Opened(t)
        /\ \A u \in Terminal : Opened(u)' <=> Opened(u)
    BY <1>3 DEF Close, Hup, Opened, Fresh
  <2>2. \A u \in Terminal : closes'[u] >= closes[u] /\ closes'[t] = closes[t] + 1
    BY <2>1
  <2>3. \A u \in Terminal : closes[u] \in Nat /\ closes'[u] \in Nat
    BY <2>1
  <2>4. ASSUME NEW u \in Terminal, Opened(u)', Owner(u)' # u
        PROVE  \/ closes'[u] > 0 /\ ~(Does("closing", u)' /\ closes'[u] = 1)
               \/ \E v \in Terminal \ {u} : Opened(v)' /\ number'[v] = number'[u] /\ closes'[v] > 1
    <3>1. Opened(u) /\ Owner(u) # u
      BY <2>1, <2>4 DEF Owner
    <3>2. \/ closes[u] > 0
          \/ \E v \in Terminal \ {u} : Opened(v) /\ number[v] = number[u] /\ closes[v] > 1
      BY <3>1 DEF Numbers
    <3>3. CASE closes[u] > 0
      <4>1. closes'[u] > 0 /\ (u = t => closes'[u] > 1)
        BY <2>2, <2>3, <3>3
      <4>. QED BY <2>1, <2>3, <4>1 DEF Does
    <3>4. ASSUME NEW v \in Terminal \ {u}, Opened(v) /\ number[v] = number[u] /\ closes[v] > 1
          PROVE  Opened(v)' /\ number'[v] = number'[u] /\ closes'[v] > 1
      BY <2>1, <2>2, <2>3, <3>4
    <3>. QED BY <3>2, <3>3, <3>4
  <2>5. \A u \in Terminal : Does("closing", u)' => Opened(u)' /\ closes'[u] > 0
    BY <2>1, <2>2, <2>3 DEF Does
  <2>6. /\ \A u \in Terminal : Opened(u)' => number'[u] \in Number
        /\ \A n \in Number : table'[n] \in Terminal => Opened(table[n])' /\ number'[table'[n]] = n
    BY <2>1 DEF Numbers
  <2>. QED BY <2>4, <2>5, <2>6 DEF Numbers
<1>4. ASSUME NEW t \in Terminal, Release(t) PROVE Numbers'
  <2>1. /\ UNCHANGED <<number, closes>> /\ table' = [table EXCEPT ![number[t]] = Nobody]
        /\ Does("closing", t) /\ at' = "idle" /\ Opened(t) /\ closes[t] > 0 /\ number[t] \in Number
        /\ \A u \in Terminal : Opened(u)' <=> Opened(u)
    BY <1>4 DEF Release, Idle, Hup, Opened, Numbers, Owner
  <2>2. /\ \A n \in Number : table'[n] \in Terminal => n # number[t] /\ table'[n] = table[n]
        /\ \A n \in Number : n # number[t] => table'[n] = table[n]
    BY <2>1
  <2>3. \A n \in Number : table'[n] \in Terminal => Opened(table[n])' /\ number'[table'[n]] = n
    <3>. SUFFICES ASSUME NEW n \in Number, table'[n] \in Terminal
                  PROVE  Opened(table[n])' /\ number'[table'[n]] = n
      OBVIOUS
    <3>1. table'[n] = table[n] /\ Opened(table[n]) /\ number[table[n]] = n
      BY <2>2 DEF Numbers
    <3>2. Opened(table[n])' <=> shell'[table[n]] # "none"
      BY <3>1 DEF Opened
    <3>3. shell'[table[n]] # "none"
      BY <2>1, <3>1 DEF Opened
    <3>. QED BY <2>1, <3>1, <3>2, <3>3
  <2>4. ASSUME NEW u \in Terminal, Opened(u)', Owner(u)' # u
        PROVE  \/ closes[u] > 0
               \/ \E v \in Terminal \ {u} : Opened(v) /\ number[v] = number[u] /\ closes[v] > 1
    <3>1. Opened(u) /\ number[u] \in Number
      BY <2>1, <2>4 DEF Numbers
    <3>2. CASE Owner(u) # u
      BY <3>1, <3>2 DEF Numbers
    <3>3. CASE Owner(u) = u
      <4>1. number[u] = number[t]
        BY <2>1, <2>2, <2>4, <3>1, <3>3 DEF Owner
      <4>2. CASE u = t
        BY <2>1, <4>2
      <4>3. CASE u # t
        <5>1. Owner(t) # t
          BY <3>3, <4>1, <4>3 DEF Owner
        <5>2. \/ closes[t] > 0 /\ closes[t] # 1
              \/ \E v \in Terminal \ {t} : Opened(v) /\ number[v] = number[t] /\ closes[v] > 1
          BY <2>1, <5>1 DEF Numbers
        <5>3. closes[t] \in Nat /\ (closes[t] > 0 /\ closes[t] # 1 => closes[t] > 1)
          OBVIOUS
        <5>4. \A v \in Terminal : closes[v] \in Nat /\ (closes[v] > 1 => closes[v] > 0)
          OBVIOUS
        <5>. QED BY <2>1, <4>1, <4>3, <5>2, <5>3, <5>4
      <4>. QED BY <4>2, <4>3
    <3>. QED BY <3>2, <3>3
  <2>. QED BY <2>1, <2>3, <2>4 DEF Numbers, Does
<1>5. ASSUME NEW t \in Terminal,
             Register(t) \/ Input(t) \/ Retire(t) \/ SaveEnd(t) \/ Create(t) \/ Activate(t)
      PROVE  Numbers'
  <2>1. UNCHANGED <<number, closes, table, shell>> /\ at' # "closing"
    BY <1>5 DEF Register, Input, Retire, SaveEnd, Create, Activate, Idle, Turn, kernel
  <2>. QED BY <2>1, NumbersKept DEF Opened, Does
<1>6. ASSUME SaveTags \/ \E c \in Command : ReadRow(c) PROVE Numbers'
  <2>1. UNCHANGED <<number, closes, table, shell>> /\ at' # "closing"
    BY <1>6 DEF ReadRow, SaveTags, Idle, kernel
  <2>. QED BY <2>1, NumbersKept DEF Opened, Does
<1>7. ASSUME NEW t \in Terminal, Reader(t) PROVE Numbers'
  <2>1. UNCHANGED <<number, closes, table, shell, at, subject>>
    BY <1>7 DEF Reader, Poll, Select, Read, Leave, LeftBehind, Exit, Finalize, SaveExit, Tell, loop, kernel
  <2>. QED BY <2>1, NumbersKept DEF Opened, Does
<1>8. ASSUME NEW t \in Terminal, Emit(t) \/ Die(t) PROVE Numbers'
  <2>1. UNCHANGED <<number, closes, table, at, subject>>
        /\ \A u \in Terminal : shell'[u] = "none" <=> shell[u] = "none"
    BY <1>8 DEF Emit, Die, loop
  <2>. QED BY <2>1, NumbersKept DEF Opened, Does
<1>. QED BY <1>1, <1>2, <1>3, <1>4, <1>5, <1>6, <1>7, <1>8 DEF Next, EventLoop, Request

\* Steps that begin or end no command and type nothing in.
LEMMA CommandsKept ==
  ASSUME Commands, UNCHANGED <<active, held, rows>>,
         \A t \in Terminal : reader'[t] = "ending" <=> reader[t] = "ending",
         \/ UNCHANGED <<at, subject, command>>
         \/ /\ at \notin {"saving", "activating"}
            /\ at' \notin {"retiring", "saving", "creating", "activating"}
  PROVE  Commands'
BY DEF Commands, Unused, Running

\* A command that runs passes from the hands of the event loop to the active
\* ones, and from these to the event loop or to the thread of the terminal.
LEMMA TerminalCommands ==
  ASSUME Typed, Fresh, Commands, [Next]_vars
  PROVE  Commands'
<1>. USE CommandOf DEF Typed
<1>1. CASE UNCHANGED vars
  <2>1. UNCHANGED <<active, held, rows, reader, at, subject, command>>
    BY <1>1 DEF vars, loop, log
  <2>. QED BY <2>1, CommandsKept
<1>2. ASSUME NEW t \in Terminal, Spawn(t) PROVE Commands'
  <2>1. /\ UNCHANGED <<active, held, rows>> /\ at = "idle" /\ at' = "registering"
        /\ \A u \in Terminal : reader'[u] = "ending" <=> reader[u] = "ending"
    BY <1>2 DEF Spawn, log, Fresh, Opened
  <2>. QED BY <2>1, CommandsKept
<1>3. ASSUME \/ \E t \in Terminal : Register(t) \/ Close(t) \/ Release(t)
             \/ \E c \in Command : ReadRow(c)
      PROVE  Commands'
  <2>1. /\ UNCHANGED <<active, held, rows, reader>> /\ at \in {"idle", "registering", "closing"}
        /\ at' \in {"idle", "closing", "tagging"}
    BY <1>3 DEF Register, Close, Release, ReadRow, Does, Idle, log
  <2>. QED BY <2>1, CommandsKept
<1>4. ASSUME NEW t \in Terminal, Input(t) PROVE Commands'
  <2>1. /\ UNCHANGED <<active, held, rows, reader, command>> /\ at = "idle"
        /\ at' = "retiring" /\ subject' = t /\ Unused(t) # {}
    BY <1>4 DEF Input, log
  <2>. QED BY <2>1 DEF Commands, Unused, Running
<1>5. ASSUME NEW t \in Terminal, Retire(t) PROVE Commands'
  <2>1. /\ UNCHANGED <<held, rows, reader, subject>> /\ at = "retiring" /\ subject = t
        /\ command' = active[t] /\ active' = [active EXCEPT ![t] = NoCommand]
        /\ at' \in {"saving", "creating"} /\ (active[t] # NoCommand => at' = "saving")
        /\ (at' = "saving" => active[t] # NoCommand)
    BY <1>5 DEF Retire, Retired, Turn, Does
  <2>2. active'[t] = NoCommand /\ \A u \in Terminal : u # t => active'[u] = active[u]
    BY <2>1
  <2>3. Unused(t)' # {}
    BY <2>1 DEF Commands, Unused
  <2>4. \A c \in Command : Running(c) =>
          \/ c = active[Of(c)] \/ c = held[Of(c)]
          \/ c = command /\ at \in {"saving", "activating"}
    BY DEF Commands
  <2>5. \A c \in Command : Running(c)' =>
          \/ c = active'[Of(c)] \/ c = held'[Of(c)]
          \/ c = command' /\ at' \in {"saving", "activating"}
    BY <2>1, <2>2, <2>4 DEF Running
  <2>. QED BY <2>1, <2>2, <2>3, <2>5 DEF Commands
<1>6. ASSUME NEW t \in Terminal, SaveEnd(t) PROVE Commands'
  <2>1. /\ UNCHANGED <<held, active, reader, subject, command>> /\ at = "saving" /\ subject = t
        /\ at' = "creating" /\ rows' = [rows EXCEPT ![command] = Ended]
    BY <1>6 DEF SaveEnd, Turn, Does
  <2>2. /\ rows[command] # Absent /\ rows'[command] = Ended
        /\ \A c \in Command : c # command => rows'[c] = rows[c]
    BY <2>1 DEF Commands
  <2>3. Unused(t)' # {}
    <3>1. PICK n \in 1..MaxCommands : <<t, n>> \in Command /\ rows[<<t, n>>] = Absent
      BY <2>1 DEF Commands, Unused
    <3>. QED BY <2>2, <3>1 DEF Unused
  <2>4. \A c \in Command : Running(c)' =>
          c = active'[Of(c)] \/ c = held'[Of(c)]
    BY <2>1, <2>2 DEF Commands, Running
  <2>. QED BY <2>1, <2>2, <2>3, <2>4 DEF Commands
<1>7. ASSUME NEW t \in Terminal, Create(t) PROVE Commands'
  <2>1. /\ UNCHANGED <<held, active, reader, subject>> /\ at = "creating" /\ subject = t
        /\ at' = "activating" /\ command' \in Command /\ Of(command') = t
        /\ rows[command'] = Absent
        /\ rows' = [rows EXCEPT ![command'] = [Absent EXCEPT !.status = "running"]]
    BY <1>7 DEF Create, Turn, Does, Least, Unused, Of
  <2>2. /\ rows'[command'] # Absent
        /\ \A c \in Command : c # command' => rows'[c] = rows[c]
    BY <2>1
  <2>3. \A c \in Command : Running(c)' =>
          c = active'[Of(c)] \/ c = held'[Of(c)] \/ c = command'
    BY <2>1, <2>2 DEF Commands, Running
  <2>4. \A u \in Terminal : /\ active'[u] # NoCommand => rows'[active'[u]] # Absent
                            /\ held'[u] # NoCommand => rows'[held'[u]] # Absent
    BY <2>1, <2>2 DEF Commands, Running
  <2>. QED BY <2>1, <2>2, <2>3, <2>4 DEF Commands
<1>8. ASSUME NEW t \in Terminal, Activate(t) PROVE Commands'
  <2>1. /\ UNCHANGED <<held, rows, reader>> /\ at = "activating" /\ subject = t
        /\ active' = [active EXCEPT ![t] = command] /\ Of(command) = t /\ command \in Command
        /\ rows[command] # Absent
        /\ at' # "idle" => at' = "retiring" /\ subject' = t /\ Unused(t) # {}
    BY <1>8 DEF Activate, Turn, Does, Idle, Commands
  <2>2. active'[t] = command /\ \A u \in Terminal : u # t => active'[u] = active[u]
    BY <2>1
  <2>3. at' = "retiring" => Unused(subject)' # {}
    BY <2>1 DEF Unused
  <2>4. \A c \in Command : Running(c)' =>
          c = active'[Of(c)] \/ c = held'[Of(c)]
    BY <2>1, <2>2 DEF Commands, Running
  <2>. QED BY <2>1, <2>2, <2>3, <2>4 DEF Commands
<1>9. CASE SaveTags
  <2>1. /\ UNCHANGED <<held, active, reader>> /\ at = "tagging" /\ at' = "idle" /\ command \in Command
        /\ rows' = [rows EXCEPT ![command] = [copy EXCEPT !.tagged = TRUE]]
    BY <1>9 DEF SaveTags, Idle
  <2>2. /\ rows'[command].tagged /\ rows'[command] # Absent
        /\ \A c \in Command : c # command => rows'[c] = rows[c]
    BY <2>1 DEF Absent
  <2>. QED BY <2>1, <2>2 DEF Commands, Running
<1>10. ASSUME NEW t \in Terminal, Poll(t) \/ Select(t) \/ Read(t) \/ Leave(t) \/ Exit(t) \/ Tell(t)
       PROVE  Commands'
  <2>1. /\ UNCHANGED <<active, held, rows, at, subject, command>>
        /\ \A u \in Terminal : reader'[u] = "ending" <=> reader[u] = "ending"
    BY <1>10 DEF Poll, Select, Read, Leave, Exit, Tell, Step, loop, log
  <2>. QED BY <2>1, CommandsKept
<1>11. ASSUME NEW t \in Terminal, Finalize(t) PROVE Commands'
  <2>1. /\ UNCHANGED <<rows, at, subject, command>> /\ reader[t] = "finalizing"
        /\ held' = [held EXCEPT ![t] = active[t]] /\ active' = [active EXCEPT ![t] = NoCommand]
        /\ \A u \in Terminal : u # t => reader'[u] = reader[u]
        /\ reader'[t] = "ending" <=> active[t] # NoCommand
    BY <1>11 DEF Finalize, Step, loop
  <2>2. /\ held'[t] = active[t] /\ active'[t] = NoCommand /\ held[t] = NoCommand
        /\ \A u \in Terminal : u # t => active'[u] = active[u] /\ held'[u] = held[u]
    BY <2>1 DEF Commands
  <2>3. at \in {"retiring", "saving", "creating"} => Unused(subject)' # {}
    BY <2>1 DEF Commands, Unused
  <2>4. \A c \in Command : Running(c) =>
          \/ c = active[Of(c)] \/ c = held[Of(c)]
          \/ c = command /\ at \in {"saving", "activating"}
    BY DEF Commands
  <2>5. \A c \in Command : Running(c)' =>
          \/ c = active'[Of(c)] \/ c = held'[Of(c)]
          \/ c = command' /\ at' \in {"saving", "activating"}
    BY <2>1, <2>2, <2>4 DEF Running
  <2>. QED BY <2>1, <2>2, <2>3, <2>5 DEF Commands
<1>12. ASSUME NEW t \in Terminal, SaveExit(t) PROVE Commands'
  <2>1. /\ UNCHANGED <<active, at, subject, command>> /\ reader[t] = "ending"
        /\ rows' = [rows EXCEPT ![held[t]] = Ended] /\ held' = [held EXCEPT ![t] = NoCommand]
        /\ reader'[t] = "telling" /\ \A u \in Terminal : u # t => reader'[u] = reader[u]
    BY <1>12 DEF SaveExit, Step, loop
  <2>2. /\ held[t] \in Command /\ Of(held[t]) = t /\ rows[held[t]] # Absent
        /\ rows'[held[t]] = Ended /\ held'[t] = NoCommand
        /\ \A c \in Command : c # held[t] => rows'[c] = rows[c]
        /\ \A u \in Terminal : u # t => held'[u] = held[u]
    BY <2>1 DEF Commands
  <2>3. ASSUME at \in {"retiring", "saving", "creating"} PROVE Unused(subject)' # {}
    <3>0. Unused(subject) # {}
      BY <2>3 DEF Commands
    <3>1. PICK n \in 1..MaxCommands : <<subject, n>> \in Command /\ rows[<<subject, n>>] = Absent
      BY <3>0 DEF Unused
    <3>. QED BY <2>1, <2>2, <3>1 DEF Unused
  <2>4. \A c \in Command : Running(c) =>
          \/ c = active[Of(c)] \/ c = held[Of(c)]
          \/ c = command /\ at \in {"saving", "activating"}
    BY DEF Commands
  <2>5. \A c \in Command : Running(c)' =>
          \/ c = active'[Of(c)] \/ c = held'[Of(c)]
          \/ c = command' /\ at' \in {"saving", "activating"}
    BY <2>1, <2>2, <2>4 DEF Running
  <2>. QED BY <2>1, <2>2, <2>3, <2>5 DEF Commands
<1>13. ASSUME NEW t \in Terminal, Emit(t) \/ Die(t) PROVE Commands'
  <2>1. UNCHANGED <<active, held, rows, reader, at, subject, command>>
    BY <1>13 DEF Emit, Die, loop, log
  <2>. QED BY <2>1, CommandsKept
<1>. QED BY <1>1, <1>2, <1>3, <1>4, <1>5, <1>6, <1>7, <1>8, <1>9, <1>10, <1>11, <1>12, <1>13
  DEF Next, EventLoop, Request, Reader

\* Steps that register no terminal, type nothing in and end no thread.
LEMMA LifecycleKept ==
  ASSUME Lifecycle, UNCHANGED <<context, overlapped>>,
         \A t \in Terminal : Opened(t) <=> Opened(t)',
         \A t \in Terminal : /\ Does("registering", t)' <=> Does("registering", t)
                             /\ Typing(t)' => Typing(t),
         \A t \in Terminal : active'[t] \in {active[t], NoCommand},
         \A t \in Terminal : \/ reader'[t] = reader[t]
                             \/ reader'[t] \in {"polling", "selecting", "reading", "leaving", "exiting"}
                                /\ reader[t] \in {"polling", "selecting", "reading", "leaving", "exiting"}
                             \/ reader[t] \in {"ending", "telling", "done"}
                                /\ reader'[t] \in {"ending", "telling", "done"}
  PROVE  Lifecycle'
BY DEF Lifecycle

\* A thread that ends before its terminal is registered finds no command, and
\* one that ends while an input is handled is remembered.
LEMMA TerminalLifecycle ==
  ASSUME Typed, Fresh, Commands, Lifecycle, [Next]_vars
  PROVE  Lifecycle'
<1>. USE CommandOf DEF Typed
<1>1. CASE UNCHANGED vars
  <2>1. UNCHANGED <<context, overlapped, shell, at, subject, active, reader>>
    BY <1>1 DEF vars, loop, kernel, log
  <2>. QED BY <2>1, LifecycleKept DEF Opened, Does, Typing
<1>2. ASSUME NEW t \in Terminal, Spawn(t) PROVE Lifecycle'
  <2>1. /\ UNCHANGED <<context, overlapped, active>> /\ at = "idle" /\ at' = "registering" /\ subject' = t
        /\ ~Opened(t) /\ Opened(t)' /\ reader'[t] = "polling"
        /\ \A u \in Terminal : u # t => reader'[u] = reader[u] /\ (Opened(u)' <=> Opened(u))
    BY <1>2 DEF Spawn, log, Opened
  <2>2. active[t] = NoCommand
    BY <2>1 DEF Fresh
  <2>. QED BY <2>1, <2>2 DEF Lifecycle, Does, Typing
<1>3. ASSUME NEW t \in Terminal, Register(t) PROVE Lifecycle'
  <2>1. /\ UNCHANGED <<overlapped, active, reader, shell>> /\ context' = context \cup {t}
        /\ Does("registering", t) /\ at' = "idle"
    BY <1>3 DEF Register, Idle, kernel, log
  <2>. QED BY <2>1 DEF Lifecycle, Does, Typing, Opened
<1>4. ASSUME NEW t \in Terminal, Input(t) PROVE Lifecycle'
  <2>1. /\ UNCHANGED <<context, overlapped, active, reader, shell>>
        /\ at = "idle" /\ at' = "retiring" /\ subject' = t /\ t \in context
    BY <1>4 DEF Input, kernel, log
  <2>2. Opened(t)
    BY <2>1 DEF Fresh
  <2>. QED BY <2>1, <2>2 DEF Lifecycle, Does, Typing, Opened
<1>5. ASSUME NEW t \in Terminal, Retire(t) \/ SaveEnd(t) \/ Create(t) PROVE Lifecycle'
  <2>1. /\ UNCHANGED <<context, overlapped, reader, shell, subject>> /\ subject = t
        /\ at \in {"retiring", "saving", "creating"} /\ at' \in {"saving", "creating", "activating"}
        /\ active' = active \/ active' = [active EXCEPT ![t] = NoCommand]
    BY <1>5 DEF Retire, SaveEnd, Create, Does, Turn, kernel
  <2>2. \A u \in Terminal : active'[u] \in {active[u], NoCommand}
    BY <2>1
  <2>. QED BY <2>1, <2>2, LifecycleKept DEF Opened, Does, Typing
<1>6. ASSUME NEW t \in Terminal, Activate(t) PROVE Lifecycle'
  <2>1. /\ UNCHANGED <<context, overlapped, reader, shell>> /\ Typing(t) /\ subject = t
        /\ at = "activating" /\ (at' # "idle" => at' = "retiring" /\ subject' = t)
        /\ active' = [active EXCEPT ![t] = command]
    BY <1>6 DEF Activate, Idle, Turn, Typing, Does, kernel
  <2>2. Opened(t) /\ t \in context \cup overlapped /\ \A u \in Terminal : u # t => active'[u] = active[u]
    BY <2>1 DEF Lifecycle
  <2>. QED BY <2>1, <2>2 DEF Lifecycle, Does, Typing, Opened
<1>7. ASSUME NEW t \in Terminal, Close(t) \/ Release(t) PROVE Lifecycle'
  <2>1. /\ UNCHANGED <<context, overlapped, active, reader>>
        /\ at \in {"idle", "closing"} /\ at' \in {"idle", "closing"}
    BY <1>7 DEF Close, Release, Does, Idle, log
  <2>2. \A u \in Terminal : Opened(u) <=> Opened(u)'
    BY <1>7 DEF Close, Release, Hup, Owner, Opened
  <2>. QED BY <2>1, <2>2, LifecycleKept DEF Does, Typing
<1>8. ASSUME SaveTags \/ \E c \in Command : ReadRow(c) PROVE Lifecycle'
  <2>1. /\ UNCHANGED <<context, overlapped, active, reader, shell>>
        /\ at \in {"idle", "tagging"} /\ at' \in {"idle", "tagging"}
    BY <1>8 DEF SaveTags, ReadRow, Idle, kernel, log
  <2>. QED BY <2>1, LifecycleKept DEF Does, Typing, Opened
<1>9. ASSUME NEW t \in Terminal, Poll(t) \/ Select(t) \/ Read(t) \/ Leave(t) PROVE Lifecycle'
  <2>1. /\ UNCHANGED <<context, overlapped, active, shell, at, subject>>
        /\ \E place \in {"polling", "selecting", "reading", "leaving", "exiting"} :
             reader' = [reader EXCEPT ![t] = place]
        /\ reader[t] \in {"polling", "selecting", "reading", "leaving", "exiting"}
    BY <1>9 DEF Poll, Select, Read, Leave, Step, loop, kernel, log
  <2>. QED BY <2>1, LifecycleKept DEF Does, Typing, Opened
<1>10. ASSUME NEW t \in Terminal, Exit(t) PROVE Lifecycle'
  <2>1. /\ UNCHANGED <<active, shell, at, subject>> /\ context' = context \ {t}
        /\ overlapped' = (IF Typing(t) THEN overlapped \cup {t} ELSE overlapped)
        /\ reader[t] = "exiting" /\ (reader'[t] = "done" => t \notin context)
        /\ reader'[t] \in {"finalizing", "done"} /\ \A u \in Terminal : u # t => reader'[u] = reader[u]
    BY <1>10 DEF Exit, Step, loop, kernel, log
  <2>2. Opened(t)
    BY <2>1 DEF Fresh
  <2>3. reader'[t] = "done" => active[t] = NoCommand
    BY <2>1, <2>2 DEF Lifecycle
  <2>4. \A u \in Terminal : /\ u # t => (u \in context <=> u \in context')
                            /\ u \in overlapped => u \in overlapped'
                            /\ Opened(u) <=> Opened(u)'
                            /\ Does("registering", u)' <=> Does("registering", u)
                            /\ Typing(u)' <=> Typing(u)
                            /\ u = t /\ Typing(u) => u \in overlapped'
    BY <2>1 DEF Opened, Does, Typing
  <2>. QED BY <2>1, <2>3, <2>4 DEF Lifecycle
<1>11. ASSUME NEW t \in Terminal, Finalize(t) PROVE Lifecycle'
  <2>1. /\ UNCHANGED <<context, overlapped, shell, at, subject>>
        /\ active' = [active EXCEPT ![t] = NoCommand]
        /\ reader[t] = "finalizing" /\ reader'[t] \in {"telling", "ending"}
        /\ \A u \in Terminal : u # t => reader'[u] = reader[u]
    BY <1>11 DEF Finalize, Step, loop, kernel
  <2>2. active'[t] = NoCommand /\ \A u \in Terminal : u # t => active'[u] = active[u]
    BY <2>1
  <2>. QED BY <2>1, <2>2 DEF Lifecycle, Does, Typing, Opened
<1>12. ASSUME NEW t \in Terminal, SaveExit(t) \/ Tell(t) PROVE Lifecycle'
  <2>1. /\ UNCHANGED <<context, overlapped, active, shell, at, subject>>
        /\ \E place \in {"telling", "done"} : reader' = [reader EXCEPT ![t] = place]
        /\ reader[t] \in {"ending", "telling", "done"}
    BY <1>12 DEF SaveExit, Tell, Step, loop, kernel, log
  <2>. QED BY <2>1, LifecycleKept DEF Does, Typing, Opened
<1>13. ASSUME NEW t \in Terminal, Emit(t) \/ Die(t) PROVE Lifecycle'
  <2>1. UNCHANGED <<context, overlapped, active, reader, at, subject>>
        /\ \A u \in Terminal : Opened(u) <=> Opened(u)'
    BY <1>13 DEF Emit, Die, Opened, loop, log
  <2>. QED BY <2>1, LifecycleKept DEF Does, Typing
<1>. QED BY <1>1, <1>2, <1>3, <1>4, <1>5, <1>6, <1>7, <1>8, <1>9, <1>10, <1>11, <1>12, <1>13
  DEF Next, EventLoop, Request, Reader

\* The invariant holds at the start.
LEMMA TerminalsStart == Init => TerminalsInv
<1>. SUFFICES ASSUME Init PROVE TerminalsInv
  OBVIOUS
<1>1. Typed
  BY CommandOf DEF Init, Typed
<1>2. \A t \in Terminal : ~Opened(t) /\ ~Does("closing", t) /\ ~Does("registering", t) /\ ~Typing(t)
  BY DEF Init, Opened, Does, Typing
<1>3. Fresh /\ Lifecycle
  BY <1>2 DEF Init, Fresh, Lifecycle
<1>4. Numbers
  BY <1>2, TerminalsAssumption DEF Init, Numbers
<1>5. Commands
  BY CommandOf DEF Init, Commands, Running
<1>. QED BY <1>1, <1>3, <1>4, <1>5 DEF TerminalsInv

\* The invariant of the terminals holds always.
LEMMA TerminalsInvariance == Spec => []TerminalsInv
<1>1. TerminalsInv /\ [Next]_vars => TerminalsInv'
  BY TerminalTypes, TerminalFresh, TerminalNumbers, TerminalCommands, TerminalLifecycle DEF TerminalsInv
<1>. QED BY <1>1, TerminalsStart, PTL DEF Spec

\* pty_manager.py:120: what is typed into a terminal, and what its thread reads,
\* are those of its own shell until it is closed, unless the terminal that had
\* its descriptor number before is closed a second time.
THEOREM DescriptorHolds == Spec => []DescriptorKept
<1>1. TerminalsInv => DescriptorKept
  BY DEF TerminalsInv, Typed, Fresh, Numbers, DescriptorKept
<1>. QED BY <1>1, TerminalsInvariance, PTL

\* command_log.py:77: a command that runs between two requests is the active one
\* of its terminal or about to be saved, or its terminal exited before it was
\* registered or during an input, or tags were saved over its end.
THEOREM CommandsEnded == Spec => []CommandsEnd
<1>1. ASSUME TerminalsInv PROVE CommandsEnd
  <2>. SUFFICES ASSUME at = "idle", NEW c \in Command, rows[c].status = "running", ~rows[c].tagged
                PROVE  \/ c = active[Of(c)] /\ (reader[Of(c)] # "done" \/ Of(c) \in overlapped \cup context)
                       \/ c = held[Of(c)]
    BY DEF CommandsEnd
  <2>1. c = active[Of(c)] \/ c = held[Of(c)]
    BY <1>1 DEF TerminalsInv, Commands, Running
  <2>. QED BY <1>1, <2>1, CommandOf DEF TerminalsInv, Lifecycle
<1>. QED BY <1>1, TerminalsInvariance, PTL
-----------------------------------------------------------------------------
(* The invariant of the checkpoints.                                       *)

Status == {"none", "earlier", "own", "deleted", "pruned"}
Work   == [pc : {"down", "again", "up", "look", "move", "record", "write", "insert",
                 "deleted", "pruned"},
           todo : SUBSET Id, id : 0..MaxCheckpoints, seen : SUBSET Place]

CheckpointsTyped ==
  /\ row \in [Id -> Status] /\ file \in [Id -> [Place -> {"nothing", "blob", "other"}]]
  /\ made \in 0..MaxCheckpoints /\ work \in [Process -> Work]

Passing(c)  == work[c].pc \in {"look", "move", "record"}
Saving(c)   == work[c].pc \in {"write", "insert"}
Deleting(c) == work[c].pc \in {"deleted", "pruned"}

\* The blob of the row has been moved.
Settled(i) == file[i]["own"] = "blob" /\ file[i]["earlier"] = "nothing"

\* What is next to each prune of a checkpoint: those that were stored later.
Later(i) == {j \in Id : j > i /\ row[j] # "none"}

\* Of a row that is not to be moved the earlier place is empty for ever.
RowsInOrder ==
  /\ \A i \in Id : row[i] # "earlier" => file[i]["earlier"] = "nothing"
  /\ \A i \in Id : i > made => row[i] = "none"
  /\ PruneKeepsLatest
  /\ BlobKept

\* A migration has still to move, or has moved, what it will record.
Moves(c) ==
  /\ Passing(c) =>
       /\ \A i \in Id : row[i] = "earlier" =>
            \/ i \in work[c].todo \/ Settled(i)
            \/ work[c].pc = "move" /\ i = work[c].id
       /\ \A i \in work[c].todo : row[i] # "none"
  /\ work[c].pc = "move" =>
       /\ work[c].id \in Id /\ row[work[c].id] # "none"
       /\ "earlier" \notin work[c].seen => file[work[c].id]["earlier"] = "nothing"

\* A new id has no row, and the blob is there before it has one.
Saves(c) ==
  /\ Saving(c) => /\ work[c].id \in Id /\ work[c].id <= made /\ row[work[c].id] = "none"
  /\ work[c].pc = "insert" => file[work[c].id]["own"] = "blob"

\* The row goes before the blob; what a prune has still to take is superfluous.
Deletes(c) ==
  /\ work[c].pc = "deleted" => work[c].id \in Id
  /\ Deleting(c) /\ work[c].seen # {} =>
       work[c].id \in Id /\ row[work[c].id] \in {"deleted", "pruned"}
  /\ work[c].pc = "pruned" =>
       \A i \in Id : i \in work[c].todo \/ i = work[c].id => Cardinality(Later(i)) >= Keep

Sound(c) == Moves(c) /\ Saves(c) /\ Deletes(c)

IdsDiffer == \A c, d \in Process : c # d /\ Saving(c) /\ Saving(d) => work[c].id # work[d].id

\* A process has the blob in its hands.
Holds(c) == work[c].pc = "insert" \/ (Deleting(c) /\ work[c].seen = {"own"})

Orphans ==
  \A i \in Id : row[i] \notin Place /\ file[i]["own"] # "nothing" =>
    i \in left \/ \E c \in Process : work[c].id = i /\ Holds(c)

CheckpointsInv ==
  /\ CheckpointsTyped /\ RowsInOrder /\ IdsDiffer /\ Orphans
  /\ \A c \in Process : Sound(c)

-----------------------------------------------------------------------------
(* The checkpoints.                                                        *)

\* There are finitely many checkpoints.
LEMMA IdsFinite ==
  /\ IsFiniteSet(Id) /\ Id \subseteq Nat /\ 0 \notin Id /\ \A i \in Id : i \in 0..MaxCheckpoints
  /\ MaxCheckpoints \in Nat /\ Keep \in Nat
  /\ 0 \in 0..MaxCheckpoints /\ {} \in SUBSET Id /\ {} \in SUBSET Place
<1>1. MaxCheckpoints \in Nat /\ Keep \in Nat
  BY CheckpointsAssumption
<1>2. IsFiniteSet(1..MaxCheckpoints)
  BY <1>1, FS_Interval
<1>. QED BY <1>1, <1>2 DEF Id

\* The checkpoints that were stored later are never fewer than they were.
LEMMA LaterGrows ==
  ASSUME \A j \in Id : row[j] # "none" => row'[j] # "none", NEW i \in Id, Cardinality(Later(i)) >= Keep
  PROVE  Cardinality(Later(i)') >= Keep
<1>1. Later(i) \subseteq Later(i)' /\ Later(i)' \subseteq Id
  BY DEF Later
<1>2. IsFiniteSet(Later(i)') /\ IsFiniteSet(Later(i))
  BY <1>1, IdsFinite, FS_Subset DEF Later
<1>3. Cardinality(Later(i)) <= Cardinality(Later(i)')
  BY <1>1, <1>2, FS_Subset
<1>4. Cardinality(Later(i)) \in Nat /\ Cardinality(Later(i)') \in Nat
  BY <1>2, FS_CardinalityType
<1>. QED BY <1>3, <1>4, IdsFinite

Others(c) == \A d \in Process : d # c => work'[d] = work[d]

\* A step of one process that touches neither rows nor files.
LEMMA QuietStep ==
  ASSUME CheckpointsInv, NEW c \in Process, Others(c), UNCHANGED <<row, file, made>>,
         work' \in [Process -> Work], left \subseteq left', Sound(c)',
         Saving(c)' => Saving(c) /\ work'[c].id = work[c].id,
         Holds(c) => work[c].id \in left' \/ (Holds(c)' /\ work'[c].id = work[c].id)
  PROVE  CheckpointsInv'
<1>1. CheckpointsTyped' /\ RowsInOrder'
  BY DEF CheckpointsInv, CheckpointsTyped, RowsInOrder, PruneKeepsLatest, BlobKept, Stored
<1>2. \A d \in Process : Sound(d)'
  <2>. SUFFICES ASSUME NEW d \in Process, d # c PROVE Sound(d)'
    OBVIOUS
  <2>1. Sound(d) /\ work'[d] = work[d]
    BY DEF CheckpointsInv, Others
  <2>. QED BY <2>1 DEF Sound, Moves, Saves, Deletes, Passing, Saving, Deleting, Settled, Later
<1>3. IdsDiffer'
  BY DEF CheckpointsInv, IdsDiffer, Others, Saving
<1>4. Orphans'
  <2>. SUFFICES ASSUME NEW i \in Id, row[i] \notin Place, file[i]["own"] # "nothing", i \notin left'
                PROVE  \E d \in Process : work'[d].id = i /\ Holds(d)'
    BY DEF Orphans
  <2>1. PICK d \in Process : work[d].id = i /\ Holds(d)
    BY DEF CheckpointsInv, Orphans
  <2>2. d # c => Holds(d)' /\ work'[d].id = i
    BY <2>1 DEF Others, Holds, Deleting
  <2>. QED BY <2>1, <2>2
<1>. QED BY <1>1, <1>2, <1>3, <1>4 DEF CheckpointsInv

\* A record that is written out is what it says.
LEMMA WorkingIs ==
  ASSUME NEW c \in Process, work \in [Process -> Work], NEW todo \in SUBSET Id,
         NEW i \in 0..MaxCheckpoints, NEW s \in SUBSET Place,
         NEW p \in {"down", "again", "up", "look", "move", "record", "write", "insert", "deleted",
                    "pruned"},
         work' = [work EXCEPT ![c] = Working(p, todo, i, s)]
  PROVE  /\ Others(c) /\ work' \in [Process -> Work]
         /\ work'[c].pc = p /\ work'[c].todo = todo /\ work'[c].id = i /\ work'[c].seen = s
<1>. DEFINE r == Working(p, todo, i, s)
<1>1. r \in Work /\ r.pc = p /\ r.todo = todo /\ r.id = i /\ r.seen = s
  BY DEF Work, Working
<1>2. work'[c] = r /\ Others(c) /\ work' \in [Process -> Work]
  BY <1>1 DEF Others
<1>. QED BY <1>1, <1>2

\* A process that starts, or starts again, or is up, has nothing in its hands.
LEMMA Resting ==
  ASSUME NEW c \in Process, CheckpointsInv, UNCHANGED <<row, file, made>>, left \subseteq left',
         work' \in {[work EXCEPT ![c] = Up], [work EXCEPT ![c] = Again]},
         Holds(c) => work[c].id \in left'
  PROVE  CheckpointsInv'
<1>1. PICK p \in {"up", "again"} : work' = [work EXCEPT ![c] = Working(p, {}, 0, {})]
  BY DEF Up, Again
<1>2. /\ Others(c) /\ work' \in [Process -> Work] /\ work'[c].pc = p
  BY <1>1, WorkingIs, IdsFinite DEF CheckpointsInv, CheckpointsTyped
<1>3. Sound(c)' /\ ~Saving(c)'
  BY <1>2 DEF Sound, Moves, Saves, Deletes, Passing, Saving, Deleting
<1>. QED BY <1>2, <1>3, QuietStep

\* Starting up moves no checkpoint out of reach.
LEMMA MigrationsKeep ==
  ASSUME NEW c \in Process, CheckpointsInv, Migrate(c)
  PROVE  CheckpointsInv'
<1>. USE IdsFinite
<1>0. /\ work \in [Process -> Work] /\ work[c] \in Work /\ Sound(c) /\ made \in Nat
      /\ row \in [Id -> Status] /\ file \in [Id -> [Place -> {"nothing", "blob", "other"}]]
      /\ \A d \in Process : /\ work[d].id \in 0..MaxCheckpoints /\ work[d].todo \subseteq Id
                            /\ work[d].seen \subseteq Place
  BY DEF CheckpointsInv, CheckpointsTyped, Work
<1>1. CASE Start(c)
  <2>. DEFINE todo == {i \in Id : row[i] = "earlier"}
  <2>1. /\ work' = [work EXCEPT ![c] = Working("look", todo, 0, {})]
        /\ UNCHANGED <<row, file, made, left>> /\ work[c].pc \in {"down", "again"}
    BY <1>1 DEF Start, Same, Down, Again, Working
  <2>2. todo \in SUBSET Id
    OBVIOUS
  <2>. HIDE DEF todo
  <2>3. /\ Others(c) /\ work' \in [Process -> Work]
        /\ work'[c].pc = "look" /\ work'[c].todo = todo /\ work'[c].id = 0 /\ work'[c].seen = {}
    BY <1>0, <2>1, <2>2, WorkingIs
  <2>4. Sound(c)' /\ ~Saving(c)' /\ ~Holds(c)
    BY <2>1, <2>3 DEF Sound, Moves, Saves, Deletes, Passing, Saving, Deleting, Holds, todo
  <2>. QED BY <2>1, <2>3, <2>4, QuietStep
<1>2. CASE Look(c)
  <2>1. PICK i \in work[c].todo : work' = [work EXCEPT ![c] = Working("move", work[c].todo \ {i}, i, Seen(i))]
    BY <1>2 DEF Look
  <2>. DEFINE todo == work[c].todo \ {i}
  <2>2. /\ UNCHANGED <<row, file, made, left>> /\ work[c].pc = "look" /\ i \in Id /\ row[i] # "none"
        /\ \A j \in Id : row[j] = "earlier" => j \in work[c].todo \/ Settled(j)
        /\ \A j \in work[c].todo : row[j] # "none"
    BY <1>0, <1>2 DEF Look, Same, Sound, Moves, Passing
  <2>3. todo \in SUBSET Id /\ Seen(i) \in SUBSET Place
    BY <1>0 DEF Seen
  <2>4. /\ Others(c) /\ work' \in [Process -> Work]
        /\ work'[c].pc = "move" /\ work'[c].todo = todo /\ work'[c].id = i /\ work'[c].seen = Seen(i)
    BY <1>0, <2>1, <2>2, <2>3, WorkingIs
  <2>5. "earlier" \notin Seen(i) => file[i]["earlier"] = "nothing"
    BY DEF Seen, Place
  <2>6. Moves(c)'
    BY <2>2, <2>4, <2>5 DEF Moves, Passing, Settled
  <2>7. Sound(c)' /\ ~Saving(c)' /\ ~Holds(c)
    BY <2>2, <2>4, <2>6 DEF Sound, Saves, Deletes, Saving, Deleting, Holds
  <2>. QED BY <2>2, <2>4, <2>7, QuietStep
<1>4. CASE Record(c)
  <2>1. /\ work' = [work EXCEPT ![c].pc = "look", ![c].seen = {}] /\ work[c].pc = "record"
        /\ UNCHANGED <<row, file, made, left>>
    BY <1>4 DEF Record, Same
  <2>2. /\ Others(c) /\ work' \in [Process -> Work]
        /\ work'[c].pc = "look" /\ work'[c].todo = work[c].todo /\ work'[c].id = work[c].id
    BY <1>0, <2>1 DEF Others, Work
  <2>3. Sound(c)' /\ ~Saving(c)' /\ ~Holds(c)
    BY <1>0, <2>1, <2>2 DEF Sound, Moves, Saves, Deletes, Passing, Saving, Deleting, Holds, Settled
  <2>. QED BY <2>1, <2>2, <2>3, QuietStep
<1>6. CASE Refuse(c)
  <2>1. /\ work' = [work EXCEPT ![c] = Again] /\ UNCHANGED <<row, file, made, left>>
        /\ work[c].pc \in {"move", "record"}
    BY <1>6 DEF Refuse, Same
  <2>2. ~Holds(c)
    BY <2>1 DEF Holds, Deleting
  <2>. QED BY <2>1, <2>2, Resting
<1>3. CASE Move(c)
  <2>0. PICK i \in Id : i = work[c].id
    BY <1>0, <1>3 DEF Move, Sound, Moves
  <2>. DEFINE f == file[i]
              s == work[c].seen
  <2>1. /\ work[c].pc = "move" /\ Usable(f, s) /\ file' = [file EXCEPT ![i] = Moved(f, s)]
        /\ work' = [work EXCEPT ![c].pc = "record"] /\ UNCHANGED <<row, made, left>>
    BY <1>3, <2>0 DEF Move, Same
  <2>2. /\ i \in Id /\ row[i] # "none" /\ s \subseteq Place
        /\ f \in [Place -> {"nothing", "blob", "other"}]
        /\ "earlier" \notin s => f["earlier"] = "nothing"
    BY <1>0, <2>0, <2>1 DEF Sound, Moves
  <2>3. /\ Moved(f, s) \in [Place -> {"nothing", "blob", "other"}]
        /\ Moved(f, s)["own"] = "blob" /\ Moved(f, s)["earlier"] = "nothing"
    BY <2>1, <2>2 DEF Usable, Moved, Place
  <2>4. row[i] # "earlier" => f["own"] = "blob"
    BY <2>1, <2>2 DEF CheckpointsInv, RowsInOrder, Usable, Place
  <2>5. /\ Others(c) /\ work' \in [Process -> Work]
        /\ work'[c].pc = "record" /\ work'[c].todo = work[c].todo /\ work'[c].id = i
    BY <1>0, <2>0, <2>1 DEF Others, Work
  <2>6. file' \in [Id -> [Place -> {"nothing", "blob", "other"}]] /\ Settled(i)'
        /\ \A j \in Id : j # i => file'[j] = file[j]
    BY <1>0, <2>1, <2>2, <2>3 DEF Settled
  <2>. HIDE DEF f, s
  <2>7. CheckpointsTyped' /\ RowsInOrder'
    <3>1. CheckpointsTyped'
      BY <2>1, <2>5, <2>6 DEF CheckpointsInv, CheckpointsTyped
    <3>2. BlobKept'
      BY <2>1, <2>6 DEF CheckpointsInv, RowsInOrder, BlobKept, Stored, Settled, Place
    <3>3. PruneKeepsLatest'
      BY <2>1 DEF CheckpointsInv, RowsInOrder, PruneKeepsLatest
    <3>. QED BY <2>1, <2>6, <3>1, <3>2, <3>3 DEF CheckpointsInv, RowsInOrder, Settled
  <2>8. \A d \in Process : Sound(d)'
    <3>. SUFFICES ASSUME NEW d \in Process PROVE Sound(d)'
      OBVIOUS
    <3>1. \A j \in Id : Settled(j) => Settled(j)'
      BY <2>6 DEF Settled
    <3>2. CASE d = c
      BY <1>0, <2>0, <2>1, <2>5, <2>6, <3>1, <3>2
        DEF Sound, Moves, Saves, Deletes, Passing, Saving, Deleting
    <3>3. CASE d # c
      <4>1. Sound(d) /\ work'[d] = work[d] /\ (Saving(d) => work[d].id # i)
        BY <2>2, <2>5, <3>3 DEF CheckpointsInv, Others, Sound, Saves
      <4>2. Moves(d)'
        <5>1. \A j \in Id : file[j]["earlier"] = "nothing" => file'[j]["earlier"] = "nothing"
          BY <2>6 DEF Settled
        <5>2. \A j \in work[d].todo : j \in Id
          BY <1>0
        <5>. QED BY <2>1, <3>1, <4>1, <5>1, <5>2 DEF Sound, Moves, Passing
      <4>. QED BY <2>1, <2>6, <4>1, <4>2 DEF Sound, Saves, Deletes, Saving, Deleting, Later
    <3>. QED BY <3>2, <3>3
  <2>9. IdsDiffer' /\ Orphans'
    <3>1. IdsDiffer'
      BY <2>5 DEF CheckpointsInv, IdsDiffer, Others, Saving
    <3>2. \A j \in Id : /\ row'[j] \notin Place /\ file'[j]["own"] # "nothing"
                        => row[j] \notin Place /\ file[j]["own"] # "nothing"
      BY <2>1, <2>4, <2>6 DEF f, Place
    <3>3. ~Holds(c) /\ \A d \in Process : Holds(d) => d # c /\ Holds(d)' /\ work'[d].id = work[d].id
      BY <2>1, <2>5 DEF Holds, Deleting, Others
    <3>. QED BY <2>1, <3>1, <3>2, <3>3 DEF CheckpointsInv, Orphans
  <2>. QED BY <2>7, <2>8, <2>9 DEF CheckpointsInv
<1>5. CASE Ready(c)
  <2>1. /\ work' = [work EXCEPT ![c] = Up] /\ UNCHANGED <<file, made, left>>
        /\ work[c].pc = "look" /\ work[c].todo = {} /\ row' = Recorded(c)
    BY <1>5 DEF Ready, Same
  <2>2. \A j \in Id : row[j] = "earlier" => Settled(j)
    BY <1>0, <2>1 DEF Sound, Moves, Passing
  <2>3. /\ row' \in [Id -> Status]
        /\ \A j \in Id : row'[j] # row[j] => row[j] = "earlier" /\ row'[j] = "own" /\ Settled(j)
    BY <1>0, <2>1, <2>2 DEF Recorded, Status
  <2>4. /\ Others(c) /\ work' \in [Process -> Work] /\ work'[c].pc = "up"
    BY <1>0, <2>1, WorkingIs DEF Up
  <2>5. /\ \A j \in Id : row'[j] # "none" <=> row[j] # "none"
        /\ \A j \in Id : row'[j] = "earlier" => row[j] = "earlier"
        /\ \A j \in Id : row'[j] \in {"deleted", "pruned"} <=> row[j] \in {"deleted", "pruned"}
        /\ \A j \in Id : row'[j] = "pruned" <=> row[j] = "pruned"
        /\ \A j \in Id : row'[j] \in Place <=> row[j] \in Place
    BY <2>3 DEF Place
  <2>6. \A j \in Id : Later(j)' = Later(j)
    BY <2>5 DEF Later
  <2>7. CheckpointsTyped'
    BY <2>1, <2>3, <2>4 DEF CheckpointsInv, CheckpointsTyped
  <2>8. RowsInOrder'
    <3>1. BlobKept'
      <4>1. BlobKept
        BY DEF CheckpointsInv, RowsInOrder
      <4>. SUFFICES ASSUME NEW i \in Id, row'[i] \in Place
                    PROVE  \/ file[i][row'[i]] = "blob"
                           \/ row'[i] = "earlier" /\ file[i]["own"] = "blob"
        BY <2>1 DEF BlobKept, Stored
      <4>2. CASE row'[i] = row[i]
        BY <4>1, <4>2 DEF BlobKept, Stored
      <4>3. CASE row'[i] # row[i]
        BY <2>3, <4>3 DEF Settled
      <4>. QED BY <4>2, <4>3
    <3>2. PruneKeepsLatest'
      BY <2>5, <2>6 DEF CheckpointsInv, RowsInOrder, PruneKeepsLatest, Later
    <3>. QED BY <2>1, <2>3, <2>5, <3>1, <3>2 DEF CheckpointsInv, RowsInOrder, Settled
  <2>9. ASSUME NEW d \in Process PROVE Sound(d)'
    <3>1. CASE d = c
      BY <2>4, <3>1 DEF Sound, Moves, Saves, Deletes, Passing, Saving, Deleting
    <3>2. CASE d # c
      <4>1. Sound(d) /\ work'[d] = work[d]
        BY <2>4, <3>2 DEF CheckpointsInv, Others
      <4>2. Moves(d)'
        BY <1>0, <2>1, <2>5, <4>1 DEF Sound, Moves, Passing, Settled
      <4>3. Saves(d)' /\ Deletes(d)'
        BY <2>1, <2>5, <2>6, <4>1 DEF Sound, Saves, Deletes, Saving, Deleting
      <4>. QED BY <4>2, <4>3 DEF Sound
    <3>. QED BY <3>1, <3>2
  <2>10. IdsDiffer' /\ Orphans'
    <3>1. ~Holds(c) /\ \A d \in Process : Holds(d) => d # c /\ Holds(d)' /\ work'[d].id = work[d].id
      BY <2>1, <2>4 DEF Holds, Deleting, Others
    <3>. QED BY <2>1, <2>4, <2>5, <3>1 DEF CheckpointsInv, IdsDiffer, Orphans, Others, Saving
  <2>. QED BY <2>7, <2>8, <2>9, <2>10 DEF CheckpointsInv
<1>. QED BY <1>1, <1>2, <1>3, <1>4, <1>5, <1>6 DEF Migrate

\* Saving, deleting and pruning checkpoints.
LEMMA ServicesKeep ==
  ASSUME NEW c \in Process, CheckpointsInv, Serve(c)
  PROVE  CheckpointsInv'
<1>. USE IdsFinite
<1>0. /\ work \in [Process -> Work] /\ work[c] \in Work /\ Sound(c) /\ made \in Nat /\ made <= MaxCheckpoints
      /\ row \in [Id -> Status] /\ file \in [Id -> [Place -> {"nothing", "blob", "other"}]]
      /\ \A d \in Process : /\ work[d].id \in 0..MaxCheckpoints /\ work[d].todo \subseteq Id
                            /\ work[d].seen \subseteq Place
  BY DEF CheckpointsInv, CheckpointsTyped, Work
<1>1. CASE MakeFolder(c)
  <2>1. /\ made' = made + 1 /\ made < MaxCheckpoints /\ UNCHANGED <<row, file, left>>
        /\ work' = [work EXCEPT ![c] = Working("write", {}, made', {})] /\ work[c].pc = "up"
    BY <1>1 DEF MakeFolder, Up, Working
  <2>2. made' \in Id /\ made' \in 0..MaxCheckpoints /\ made < made'
    BY <1>0, <2>1 DEF Id
  <2>3. /\ Others(c) /\ work' \in [Process -> Work] /\ work'[c].pc = "write" /\ work'[c].id = made'
    BY <1>0, <2>1, <2>2, WorkingIs
  <2>4. row[made'] = "none"
    BY <2>2 DEF CheckpointsInv, RowsInOrder
  <2>5. \A j \in Id : /\ j <= made => j <= made' /\ j # made'
                      /\ j > made' => j > made
    BY <1>0, <2>1, <2>2
  <2>6. CheckpointsTyped' /\ RowsInOrder'
    BY <2>1, <2>2, <2>3, <2>5
      DEF CheckpointsInv, CheckpointsTyped, RowsInOrder, PruneKeepsLatest, BlobKept, Stored
  <2>7. ASSUME NEW d \in Process PROVE Sound(d)'
    <3>1. CASE d = c
      BY <1>0, <2>1, <2>2, <2>3, <2>4, <3>1 DEF Sound, Moves, Saves, Deletes, Passing, Saving, Deleting
    <3>2. CASE d # c
      <4>1. Sound(d) /\ work'[d] = work[d]
        BY <2>3, <3>2 DEF CheckpointsInv, Others
      <4>. QED BY <2>1, <2>5, <4>1
        DEF Sound, Moves, Saves, Deletes, Passing, Saving, Deleting, Settled, Later
    <3>. QED BY <3>1, <3>2
  <2>8. IdsDiffer'
    <3>1. \A d \in Process : d # c /\ Saving(d)' => work'[d].id = work[d].id /\ work[d].id # made' /\ Saving(d)
      BY <2>3, <2>5 DEF CheckpointsInv, Sound, Saves, Saving, Others
    <3>. QED BY <2>3, <3>1 DEF CheckpointsInv, IdsDiffer
  <2>9. Orphans'
    <3>1. ~Holds(c) /\ \A d \in Process : Holds(d) => d # c /\ Holds(d)' /\ work'[d].id = work[d].id
      BY <2>1, <2>3 DEF Holds, Deleting, Others
    <3>. QED BY <2>1, <3>1 DEF CheckpointsInv, Orphans
  <2>. QED BY <2>6, <2>7, <2>8, <2>9 DEF CheckpointsInv
<1>2. CASE WriteBlob(c) /\ ~folder
  <2>1. work[c].pc = "write" /\ work' = [work EXCEPT ![c] = Up] /\ UNCHANGED <<row, file, made, left>>
    BY <1>2 DEF WriteBlob, Same
  <2>2. ~Holds(c)
    BY <2>1 DEF Holds, Deleting
  <2>. QED BY <2>1, <2>2, Resting
<1>3. CASE WriteBlob(c) /\ folder
  <2>1. PICK i \in Id : i = work[c].id
    BY <1>0, <1>3 DEF WriteBlob, Sound, Saves, Saving
  <2>2. /\ work[c].pc = "write" /\ file' = [file EXCEPT ![i]["own"] = "blob"]
        /\ work' = [work EXCEPT ![c].pc = "insert"] /\ UNCHANGED <<row, made, left>>
    BY <1>3, <2>1 DEF WriteBlob, Same
  <2>3. row[i] = "none" /\ i <= made
    BY <1>0, <2>1, <2>2 DEF Sound, Saves, Saving
  <2>4. /\ Others(c) /\ work' \in [Process -> Work] /\ work'[c].pc = "insert" /\ work'[c].id = i
    BY <1>0, <2>1, <2>2 DEF Others, Work
  <2>5. /\ file' \in [Id -> [Place -> {"nothing", "blob", "other"}]] /\ file'[i]["own"] = "blob"
        /\ \A j \in Id : file'[j]["earlier"] = file[j]["earlier"]
        /\ \A j \in Id : j # i => file'[j] = file[j]
    BY <1>0, <2>2 DEF Place
  <2>6. \A j \in Id : Settled(j) => Settled(j)'
    BY <2>5 DEF Settled
  <2>7. CheckpointsTyped'
    BY <2>2, <2>4, <2>5 DEF CheckpointsInv, CheckpointsTyped
  <2>8. RowsInOrder'
    <3>1. BlobKept' /\ PruneKeepsLatest'
      BY <2>2, <2>3, <2>5 DEF CheckpointsInv, RowsInOrder, BlobKept, PruneKeepsLatest, Stored, Place
    <3>. QED BY <2>2, <2>5, <3>1 DEF CheckpointsInv, RowsInOrder
  <2>9. ASSUME NEW d \in Process PROVE Sound(d)'
    <3>1. CASE d = c
      BY <2>2, <2>3, <2>4, <2>5, <3>1 DEF Sound, Moves, Saves, Deletes, Passing, Saving, Deleting
    <3>2. CASE d # c
      <4>1. Sound(d) /\ work'[d] = work[d]
        BY <2>4, <3>2 DEF CheckpointsInv, Others
      <4>2. Moves(d)'
        BY <1>0, <2>2, <2>5, <2>6, <4>1 DEF Sound, Moves, Passing
      <4>3. Saves(d)'
        BY <1>0, <2>2, <2>5, <4>1 DEF Sound, Saves, Saving
      <4>4. Deletes(d)'
        BY <2>2, <4>1 DEF Sound, Deletes, Deleting, Later
      <4>. QED BY <4>2, <4>3, <4>4 DEF Sound
    <3>. QED BY <3>1, <3>2
  <2>10. IdsDiffer' /\ Orphans'
    <3>1. IdsDiffer'
      BY <2>1, <2>2, <2>4 DEF CheckpointsInv, IdsDiffer, Others, Saving
    <3>2. ~Holds(c) /\ \A d \in Process : Holds(d) => d # c /\ Holds(d)' /\ work'[d].id = work[d].id
      BY <2>2, <2>4 DEF Holds, Deleting, Others
    <3>3. Holds(c)' /\ work'[c].id = i
      BY <2>4 DEF Holds
    <3>. QED BY <2>2, <2>5, <3>1, <3>2, <3>3 DEF CheckpointsInv, Orphans
  <2>. QED BY <2>7, <2>8, <2>9, <2>10 DEF CheckpointsInv
<1>4. CASE InsertRow(c) /\ writer # NoProcess
  <2>1. work' = [work EXCEPT ![c] = Up] /\ UNCHANGED <<row, file, made>> /\ left' = left \cup {work[c].id}
    BY <1>4 DEF InsertRow
  <2>. QED BY <2>1, Resting
<1>5. CASE InsertRow(c) /\ writer = NoProcess
  <2>1. PICK i \in Id : i = work[c].id
    BY <1>0, <1>5 DEF InsertRow, Sound, Saves, Saving
  <2>2. /\ work[c].pc = "insert" /\ row' = [row EXCEPT ![i] = "own"]
        /\ work' = [work EXCEPT ![c] = Up] /\ UNCHANGED <<file, made, left>>
    BY <1>5, <2>1 DEF InsertRow
  <2>3. row[i] = "none" /\ i <= made /\ made \in Nat /\ file[i]["own"] = "blob" /\ file[i]["earlier"] = "nothing"
    BY <1>0, <2>1, <2>2 DEF CheckpointsInv, RowsInOrder, Sound, Saves, Saving
  <2>4. /\ Others(c) /\ work' \in [Process -> Work] /\ work'[c].pc = "up"
    BY <1>0, <2>2, WorkingIs DEF Up
  <2>5. row' \in [Id -> Status] /\ row'[i] = "own" /\ \A j \in Id : j # i => row'[j] = row[j]
    BY <1>0, <2>2 DEF Status
  <2>6. \A j \in Id : row[j] # "none" => row'[j] # "none"
    BY <2>5
  <2>7. CheckpointsTyped'
    BY <2>2, <2>4, <2>5 DEF CheckpointsInv, CheckpointsTyped
  <2>8. RowsInOrder'
    <3>1. BlobKept'
      BY <2>2, <2>3, <2>5 DEF CheckpointsInv, RowsInOrder, BlobKept, Stored, Place
    <3>2. PruneKeepsLatest'
      BY <2>5, <2>6, LaterGrows DEF CheckpointsInv, RowsInOrder, PruneKeepsLatest, Later
    <3>3. \A j \in Id : j > made => j # i
      BY <2>3
    <3>. QED BY <2>2, <2>3, <2>5, <3>1, <3>2, <3>3 DEF CheckpointsInv, RowsInOrder
  <2>9. ASSUME NEW d \in Process PROVE Sound(d)'
    <3>1. CASE d = c
      BY <2>4, <3>1 DEF Sound, Moves, Saves, Deletes, Passing, Saving, Deleting
    <3>2. CASE d # c
      <4>1. Sound(d) /\ work'[d] = work[d] /\ (Saving(d) => work[d].id # i)
        BY <2>1, <2>2, <2>4, <3>2 DEF CheckpointsInv, IdsDiffer, Others, Saving
      <4>2. Moves(d)'
        BY <1>0, <2>2, <2>3, <2>5, <2>6, <4>1 DEF Sound, Moves, Passing, Settled
      <4>3. Saves(d)'
        BY <2>2, <2>5, <4>1 DEF Sound, Saves, Saving
      <4>4. Deletes(d)'
        BY <2>3, <2>5, <2>6, <4>1, LaterGrows DEF Sound, Deletes, Deleting
      <4>. QED BY <4>2, <4>3, <4>4 DEF Sound
    <3>. QED BY <3>1, <3>2
  <2>10. IdsDiffer'
    BY <2>4 DEF CheckpointsInv, IdsDiffer, Others, Saving
  <2>11. Orphans'
    <3>1. \A d \in Process : Holds(d) /\ work[d].id # i => Holds(d)' /\ work'[d].id = work[d].id
      BY <2>1, <2>4 DEF Holds, Deleting, Others
    <3>2. \A j \in Id : row'[j] \notin Place => j # i /\ row[j] \notin Place
      BY <2>5 DEF Place
    <3>. QED BY <2>2, <3>1, <3>2 DEF CheckpointsInv, Orphans
  <2>. QED BY <2>7, <2>8, <2>9, <2>10, <2>11 DEF CheckpointsInv
<1>6. ASSUME NEW i \in Id, Delete(c, i) PROVE CheckpointsInv'
  <2>1. /\ work' = [work EXCEPT ![c] = Working("deleted", {}, i, {})] /\ work[c].pc = "up"
        /\ UNCHANGED <<row, file, made, left>>
    BY <1>6 DEF Delete, Same, Up, Working
  <2>2. /\ Others(c) /\ work' \in [Process -> Work]
        /\ work'[c].pc = "deleted" /\ work'[c].id = i /\ work'[c].seen = {}
    BY <1>0, <2>1, WorkingIs
  <2>3. Sound(c)' /\ ~Saving(c)' /\ ~Holds(c)
    BY <2>1, <2>2 DEF Sound, Moves, Saves, Deletes, Passing, Saving, Deleting, Holds
  <2>. QED BY <2>1, <2>2, <2>3, QuietStep
<1>7. CASE Prune(c)
  <2>1. /\ work' = [work EXCEPT ![c] = Working("pruned", Superfluous, 0, {})] /\ work[c].pc = "up"
        /\ UNCHANGED <<row, file, made, left>>
    BY <1>7 DEF Prune, Same, Up, Working
  <2>2. Superfluous \in SUBSET Id
    BY DEF Superfluous, Stored
  <2>3. \A i \in Superfluous : Cardinality(Later(i)) >= Keep
    <3>. SUFFICES ASSUME NEW i \in Superfluous PROVE Cardinality(Later(i)) >= Keep
      OBVIOUS
    <3>. DEFINE S == {j \in Stored : j > i}
    <3>1. Cardinality(S) >= Keep
      BY DEF Superfluous
    <3>2. S \subseteq Later(i) /\ Later(i) \subseteq Id
      BY DEF Later, Stored, Place
    <3>3. IsFiniteSet(S) /\ IsFiniteSet(Later(i)) /\ Cardinality(S) <= Cardinality(Later(i))
      BY <3>2, FS_Subset
    <3>4. Cardinality(S) \in Nat /\ Cardinality(Later(i)) \in Nat
      BY <3>3, FS_CardinalityType
    <3>. HIDE DEF S
    <3>. QED BY <3>1, <3>3, <3>4
  <2>4. /\ Others(c) /\ work' \in [Process -> Work] /\ work'[c].pc = "pruned"
        /\ work'[c].todo = Superfluous /\ work'[c].id = 0 /\ work'[c].seen = {}
    BY <1>0, <2>1, <2>2, WorkingIs
  <2>5. Deletes(c)'
    BY <2>1, <2>3, <2>4 DEF Deletes, Deleting, Later
  <2>6. Sound(c)' /\ ~Saving(c)' /\ ~Holds(c)
    BY <2>1, <2>4, <2>5 DEF Sound, Moves, Saves, Passing, Saving, Deleting, Holds
  <2>. QED BY <2>1, <2>4, <2>6, QuietStep
<1>8. CASE TakeNext(c)
  <2>1. work[c].pc = "pruned" /\ work[c].id = 0 /\ UNCHANGED <<row, file, made, left>>
    BY <1>8 DEF TakeNext, Same
  <2>2. work[c].seen = {} /\ ~Holds(c)
    BY <1>0, <2>1 DEF Sound, Deletes, Deleting, Holds
  <2>3. CASE work' = [work EXCEPT ![c] = Up]
    BY <2>1, <2>2, <2>3, Resting
  <2>4. ASSUME NEW i \in work[c].todo, work' = [work EXCEPT ![c] = Working("pruned", work[c].todo \ {i}, i, {})]
        PROVE  CheckpointsInv'
    <3>1. PICK todo \in SUBSET Id : /\ todo \subseteq work[c].todo
                                   /\ work' = [work EXCEPT ![c] = Working("pruned", todo, i, {})]
      BY <1>0, <2>4
    <3>. i \in Id /\ i \in 0..MaxCheckpoints
      BY <1>0
    <3>2. /\ Others(c) /\ work' \in [Process -> Work] /\ work'[c].pc = "pruned"
          /\ work'[c].todo = todo /\ work'[c].id = i /\ work'[c].seen = {}
      BY <1>0, <3>1, WorkingIs
    <3>3. Deletes(c)'
      <4>1. \A j \in work[c].todo : j \in Id /\ Cardinality(Later(j)) >= Keep
        BY <1>0, <2>1 DEF Sound, Deletes
      <4>2. \A j \in Id : Later(j)' = Later(j)
        BY <2>1 DEF Later
      <4>3. \A j \in Id : j \in work'[c].todo \/ j = work'[c].id => Cardinality(Later(j)) >= Keep
        BY <2>4, <3>1, <3>2, <4>1
      <4>. QED BY <3>2, <4>2, <4>3 DEF Deletes, Deleting
    <3>4. Sound(c)' /\ ~Saving(c)'
      BY <3>2, <3>3 DEF Sound, Moves, Saves, Passing, Saving
    <3>. QED BY <2>1, <2>2, <3>2, <3>4, QuietStep
  <2>. QED BY <1>8, <2>3, <2>4 DEF TakeNext
<1>9. CASE DeleteRow(c) /\ UNCHANGED row
  <2>1. /\ UNCHANGED <<row, file, made, left>> /\ work[c].seen = {} /\ Deleting(c)
        /\ work[c].id \in Id
        /\ \/ work' = [work EXCEPT ![c] = Up]
           \/ row[work[c].id] = "own" /\ row' = [row EXCEPT ![work[c].id] = work[c].pc]
    BY <1>0, <1>9 DEF DeleteRow, Same, Deleting, Id
  <2>2. work' = [work EXCEPT ![c] = Up] /\ ~Holds(c)
    BY <1>0, <2>1 DEF Holds, Deleting
  <2>. QED BY <2>1, <2>2, Resting
<1>10. CASE DeleteRow(c) /\ row' # row
  <2>1. PICK i \in Id : i = work[c].id
    BY <1>0, <1>10 DEF DeleteRow, Id
  <2>2. /\ Deleting(c) /\ work[c].seen = {} /\ row[i] = "own" /\ row' = [row EXCEPT ![i] = work[c].pc]
        /\ work' = [work EXCEPT ![c] = Dropped(work[c])] /\ UNCHANGED <<file, made, left>>
    BY <1>10, <2>1 DEF DeleteRow, Deleting, Same
  <2>3. /\ Others(c) /\ work' \in [Process -> Work] /\ work'[c].pc = work[c].pc /\ work'[c].id = i
        /\ work'[c].todo = work[c].todo /\ work'[c].seen = {"own"}
    BY <1>0, <2>1, <2>2 DEF Others, Work, Dropped, Place
  <2>4. /\ row' \in [Id -> Status] /\ row'[i] \in {"deleted", "pruned"} /\ row'[i] = work[c].pc
        /\ \A j \in Id : j # i => row'[j] = row[j]
    BY <1>0, <2>2 DEF Status, Deleting
  <2>5. /\ \A j \in Id : row'[j] # "none" <=> row[j] # "none"
        /\ \A j \in Id : row'[j] = "earlier" <=> row[j] = "earlier"
        /\ \A j \in Id : row[j] \in {"deleted", "pruned"} => row'[j] \in {"deleted", "pruned"}
        /\ \A j \in Id : row'[j] \in Place => row'[j] = row[j]
    BY <2>2, <2>4 DEF Place
  <2>6. \A j \in Id : Later(j)' = Later(j)
    BY <2>5 DEF Later
  <2>7. CheckpointsTyped'
    BY <2>2, <2>3, <2>4 DEF CheckpointsInv, CheckpointsTyped
  <2>8. RowsInOrder'
    <3>1. BlobKept'
      BY <2>2, <2>5 DEF CheckpointsInv, RowsInOrder, BlobKept, Stored
    <3>2. \A j \in Id : row'[j] = "pruned" => Cardinality(Later(j)) >= Keep
      BY <1>0, <2>1, <2>2, <2>4 DEF CheckpointsInv, RowsInOrder, PruneKeepsLatest, Later, Sound, Deletes
    <3>3. PruneKeepsLatest'
      BY <2>6, <3>2 DEF PruneKeepsLatest, Later
    <3>. QED BY <2>2, <2>5, <3>1, <3>3 DEF CheckpointsInv, RowsInOrder
  <2>9. ASSUME NEW d \in Process PROVE Sound(d)'
    <3>1. CASE d = c
      <4>1. Deletes(c)'
        <5>1. row'[work'[c].id] \in {"deleted", "pruned"} /\ work'[c].id \in Id
          BY <2>3, <2>4
        <5>2. work'[c].pc = "pruned" =>
                \A j \in Id : j \in work'[c].todo \/ j = work'[c].id => Cardinality(Later(j)) >= Keep
          BY <1>0, <2>1, <2>3 DEF Sound, Deletes
        <5>. QED BY <2>6, <5>1, <5>2 DEF Deletes
      <4>. QED BY <2>2, <2>3, <3>1, <4>1 DEF Sound, Moves, Saves, Passing, Saving, Deleting
    <3>2. CASE d # c
      <4>1. Sound(d) /\ work'[d] = work[d]
        BY <2>3, <3>2 DEF CheckpointsInv, Others
      <4>2. Moves(d)'
        BY <1>0, <2>2, <2>5, <4>1 DEF Sound, Moves, Passing, Settled
      <4>3. Saves(d)'
        BY <1>0, <2>2, <2>5, <4>1 DEF Sound, Saves, Saving
      <4>4. Deletes(d)'
        BY <2>5, <2>6, <4>1 DEF Sound, Deletes, Deleting
      <4>. QED BY <4>2, <4>3, <4>4 DEF Sound
    <3>. QED BY <3>1, <3>2
  <2>10. IdsDiffer'
    BY <2>2, <2>3 DEF CheckpointsInv, IdsDiffer, Others, Saving, Deleting
  <2>11. Orphans'
    <3>1. \A d \in Process : Holds(d) => Holds(d)' /\ work'[d].id = work[d].id
      BY <2>2, <2>3 DEF Holds, Deleting, Others
    <3>2. Holds(c)' /\ work'[c].id = i
      BY <2>2, <2>3 DEF Holds, Deleting
    <3>. QED BY <2>2, <2>4, <3>1, <3>2 DEF CheckpointsInv, Orphans
  <2>. QED BY <2>7, <2>8, <2>9, <2>10, <2>11 DEF CheckpointsInv
<1>11. CASE Unlink(c)
  <2>1. PICK i \in Id : i = work[c].id
    BY <1>0, <1>11 DEF Unlink, Sound, Deletes, Deleting
  <2>2. /\ Deleting(c) /\ work[c].seen = {"own"} /\ file' = [file EXCEPT ![i]["own"] = "nothing"]
        /\ work' = [work EXCEPT ![c].seen = Place] /\ UNCHANGED <<row, made, left>>
    BY <1>11, <2>1 DEF Unlink, Deleting, Same
  <2>3. row[i] \in {"deleted", "pruned"}
    BY <1>0, <2>1, <2>2 DEF Sound, Deletes
  <2>4. /\ Others(c) /\ work' \in [Process -> Work] /\ work'[c].pc = work[c].pc /\ work'[c].id = i
        /\ work'[c].todo = work[c].todo /\ work'[c].seen = Place
    BY <1>0, <2>1, <2>2 DEF Others, Work
  <2>5. /\ file' \in [Id -> [Place -> {"nothing", "blob", "other"}]] /\ file'[i]["own"] = "nothing"
        /\ \A j \in Id : file'[j]["earlier"] = file[j]["earlier"]
        /\ \A j \in Id : j # i => file'[j] = file[j]
    BY <1>0, <2>2 DEF Place
  <2>6. \A j \in Id : row[j] \notin {"deleted", "pruned"} => file'[j] = file[j] /\ (Settled(j) => Settled(j)')
    BY <2>3, <2>5 DEF Settled
  <2>7. CheckpointsTyped'
    BY <2>2, <2>4, <2>5 DEF CheckpointsInv, CheckpointsTyped
  <2>8. RowsInOrder'
    <3>1. BlobKept' /\ PruneKeepsLatest'
      BY <2>2, <2>6 DEF CheckpointsInv, RowsInOrder, BlobKept, PruneKeepsLatest, Stored, Place
    <3>. QED BY <2>2, <2>5, <3>1 DEF CheckpointsInv, RowsInOrder
  <2>9. ASSUME NEW d \in Process PROVE Sound(d)'
    <3>1. CASE d = c
      <4>1. Deletes(c)'
        BY <1>0, <2>1, <2>2, <2>3, <2>4 DEF Sound, Deletes, Deleting, Later
      <4>. QED BY <2>2, <2>4, <3>1, <4>1 DEF Sound, Moves, Saves, Passing, Saving, Deleting
    <3>2. CASE d # c
      <4>1. Sound(d) /\ work'[d] = work[d]
        BY <2>4, <3>2 DEF CheckpointsInv, Others
      <4>2. Moves(d)'
        BY <1>0, <2>2, <2>5, <2>6, <4>1 DEF Sound, Moves, Passing
      <4>3. Saves(d)'
        BY <1>0, <2>2, <2>6, <4>1 DEF Sound, Saves, Saving
      <4>4. Deletes(d)'
        BY <2>2, <4>1 DEF Sound, Deletes, Deleting, Later
      <4>. QED BY <4>2, <4>3, <4>4 DEF Sound
    <3>. QED BY <3>1, <3>2
  <2>10. IdsDiffer'
    BY <2>2, <2>4 DEF CheckpointsInv, IdsDiffer, Others, Saving, Deleting
  <2>11. Orphans'
    <3>1. \A d \in Process : Holds(d) /\ work[d].id # i => Holds(d)' /\ work'[d].id = work[d].id
      BY <2>1, <2>4 DEF Holds, Deleting, Others
    <3>2. \A j \in Id : file'[j]["own"] # "nothing" => j # i /\ file[j]["own"] # "nothing"
      BY <2>5
    <3>. QED BY <2>2, <3>1, <3>2 DEF CheckpointsInv, Orphans
  <2>. QED BY <2>7, <2>8, <2>9, <2>10, <2>11 DEF CheckpointsInv
<1>12. CASE RemoveFolder(c)
  <2>1. /\ Deleting(c) /\ work[c].seen = Place /\ UNCHANGED <<row, file, made, left>>
        /\ work' = [work EXCEPT ![c] = IF work[c].pc = "deleted" THEN Up
                                       ELSE [work[c] EXCEPT !.id = 0, !.seen = {}]]
    BY <1>12 DEF RemoveFolder, Deleting, Same
  <2>2. ~Holds(c)
    BY <2>1 DEF Holds, Deleting, Place
  <2>3. CASE work[c].pc = "deleted"
    BY <2>1, <2>2, <2>3, Resting
  <2>4. CASE work[c].pc = "pruned"
    <3>1. /\ Others(c) /\ work' \in [Process -> Work] /\ work'[c].pc = "pruned" /\ work'[c].id = 0
          /\ work'[c].todo = work[c].todo /\ work'[c].seen = {}
      BY <1>0, <2>1, <2>4 DEF Others, Work
    <3>2. Deletes(c)'
      BY <1>0, <2>1, <2>4, <3>1 DEF Sound, Deletes, Deleting, Later
    <3>3. Sound(c)' /\ ~Saving(c)'
      BY <3>1, <3>2 DEF Sound, Moves, Saves, Passing, Saving
    <3>. QED BY <2>1, <2>2, <3>1, <3>3, QuietStep
  <2>. QED BY <2>1, <2>3, <2>4 DEF Deleting
<1>. QED BY <1>1, <1>2, <1>3, <1>4, <1>5, <1>6, <1>7, <1>8, <1>9, <1>10, <1>11, <1>12 DEF Serve

\* A crash leaves what was in the hands of the process.
LEMMA CrashesKeep ==
  ASSUME NEW c \in Process, CheckpointsInv, Crash(c)
  PROVE  CheckpointsInv'
<1>1. work' = [work EXCEPT ![c] = Again] /\ UNCHANGED <<row, file, made>> /\ left \subseteq left'
  BY DEF Crash
<1>2. Holds(c) => work[c].id \in left'
  BY DEF Crash, Holds, Deleting
<1>. QED BY <1>1, <1>2, Resting

\* The invariant holds at the start.
LEMMA CheckpointsStart == CheckpointsInit => CheckpointsInv
<1>. USE IdsFinite
<1>. SUFFICES ASSUME CheckpointsInit PROVE CheckpointsInv
  OBVIOUS
<1>1. /\ row = [i \in Id |-> IF i <= Old THEN "earlier" ELSE "none"]
      /\ file \in [Id -> [Place -> {"nothing", "blob", "other"}]] /\ made = Old /\ Old \in 0..MaxCheckpoints
      /\ \A c \in Process : work[c] = Down
  BY CheckpointsAssumption DEF CheckpointsInit
<1>2. /\ \A i \in Id : row[i] = IF i <= Old THEN "earlier" ELSE "none"
      /\ \A i \in Id : ~(i <= Old) => file[i]["own"] = "nothing" /\ file[i]["earlier"] = "nothing"
      /\ \A i \in Id : i <= Old => file[i]["own"] = "blob" \/ file[i]["earlier"] = "blob"
  BY <1>1 DEF CheckpointsInit, Place
<1>3. Down \in Work /\ Down.pc = "down"
  BY DEF Down, Working, Work
<1>4. CheckpointsTyped
  BY <1>1, <1>2, <1>3 DEF CheckpointsInit, CheckpointsTyped, Status
<1>5. RowsInOrder /\ Orphans
  <2>1. \A i \in Id : i > Old => ~(i <= Old)
    BY <1>1
  <2>. QED BY <1>1, <1>2, <2>1 DEF RowsInOrder, Orphans, PruneKeepsLatest, BlobKept, Stored, Place
<1>6. IdsDiffer /\ \A c \in Process : Sound(c)
  BY <1>1, <1>3 DEF IdsDiffer, Sound, Moves, Saves, Deletes, Passing, Saving, Deleting
<1>. QED BY <1>4, <1>5, <1>6 DEF CheckpointsInv

\* checkpoints.py:228: whoever moves, deletes or dies, the blob of a row is where
\* the row says or where the next migration looks; a blob without a row is one
\* that is being saved or deleted, or was when that was cut short; and what is
\* pruned was older than as many others as a prune keeps.
THEOREM BlobsHold == CheckpointsSpec => []BlobsKept
<1>1. CheckpointsInv /\ [CheckpointsNext]_checkpointVars => CheckpointsInv'
  <2>. SUFFICES ASSUME CheckpointsInv, [CheckpointsNext]_checkpointVars PROVE CheckpointsInv'
    OBVIOUS
  <2>1. CASE UNCHANGED checkpointVars
    <3>1. UNCHANGED <<row, file, made, work, left>>
      BY <2>1 DEF checkpointVars
    <3>2. CheckpointsTyped' /\ RowsInOrder'
      BY <3>1 DEF CheckpointsInv, CheckpointsTyped, RowsInOrder, PruneKeepsLatest, BlobKept, Stored
    <3>3. IdsDiffer' /\ Orphans'
      BY <3>1 DEF CheckpointsInv, IdsDiffer, Orphans, Saving, Holds, Deleting
    <3>4. ASSUME NEW c \in Process PROVE Sound(c)'
      <4>1. Sound(c)
        BY DEF CheckpointsInv
      <4>. QED BY <3>1, <4>1 DEF Sound, Moves, Saves, Deletes, Passing, Saving, Deleting, Settled, Later
    <3>. QED BY <3>2, <3>3, <3>4 DEF CheckpointsInv
  <2>. QED BY <2>1, MigrationsKeep, ServicesKeep, CrashesKeep DEF CheckpointsNext
<1>2. CheckpointsInv => BlobsKept
  <2>. SUFFICES ASSUME CheckpointsInv PROVE BlobsKept
    OBVIOUS
  <2>1. OrphansExplained
    BY DEF CheckpointsInv, Orphans, OrphansExplained, Holds, Stored
  <2>. QED BY <2>1 DEF CheckpointsInv, RowsInOrder, BlobsKept
<1>. QED BY <1>1, <1>2, CheckpointsStart, PTL DEF CheckpointsSpec
=============================================================================
