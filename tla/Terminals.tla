------------------------------ MODULE Terminals -------------------------------
(***************************************************************************)
(* Terminals of the control centre.  The event loop opens them, passes     *)
(* input on, closes them and makes evidence of their commands, one request *)
(* at a time; each terminal has a thread that reads what its shell writes  *)
(* and cleans up when the shell has ended.  They share the contexts of the *)
(* service, the sessions of the manager, the active command of each        *)
(* terminal, the rows of commands, and the descriptors of the process.     *)
(*                                                                         *)
(* A descriptor is known by its number: closed, the number is given to     *)
(* whatever is opened next.  Only terminals open files here.  Left out:    *)
(* the text of input and output, sizes, working directories, the evidence  *)
(* and attack path rows, and repositories that raise.                      *)
(***************************************************************************)
EXTENDS Naturals

CONSTANTS
  Terminal,
  Number,       \* descriptor numbers
  Busy,         \* bound: terminals that complete lines are typed into
  MaxCommands,  \* bound: such lines for each
  MaxCloses,    \* bound: close requests for each terminal
  Nobody,
  NoCommand

Command == Busy \X (1..MaxCommands)
Of(c) == c[1]

ASSUME TerminalsAssumption ==
  /\ Busy \subseteq Terminal /\ Number \subseteq Nat
  /\ MaxCommands \in Nat \ {0} /\ MaxCloses \in Nat \ {0}
  /\ Nobody \notin Terminal /\ NoCommand \notin Command

VARIABLES
  at,         \* what the event loop does next
  subject,    \* the terminal it does it for
  command,    \* the command in its hands
  copy,       \* the row of it that was read to add tags
  context,    \* TerminalService._terminal_contexts
  sessions,   \* PtyManager._sessions
  number,     \* _PtySession.master_fd
  closes,     \* close requests that found the session
  table,      \* the terminal each descriptor is the master of
  shell,      \* the process of each terminal
  unread,     \* terminals whose shell has written something
  reader,     \* what each reader thread does next
  held,       \* the command in its hands
  active,     \* TerminalCommandLogger._active
  rows,       \* the rows of commands: status, and whether they carry tags
  told,       \* the terminals that have an event terminal.exited
  overlapped  \* history: terminals that exited while an input was handled

loop   == <<at, subject, command, copy>>
kernel == <<table, shell, unread>>
log    == <<active, rows>>
vars   == <<loop, context, sessions, number, closes, kernel, reader, held, log, told, overlapped>>

Absent == [status |-> "absent", tagged |-> FALSE]
Ended  == [status |-> "ended", tagged |-> FALSE]

Init ==
  /\ at = "idle" /\ subject = Nobody /\ command = NoCommand /\ copy = Absent
  /\ context = {} /\ sessions = {}
  /\ number = [t \in Terminal |-> 0] /\ closes = [t \in Terminal |-> 0]
  /\ table = [n \in Number |-> Nobody]
  /\ shell = [t \in Terminal |-> "none"] /\ unread = {}
  /\ reader = [t \in Terminal |-> "none"]
  /\ held = [t \in Terminal |-> NoCommand] /\ active = [t \in Terminal |-> NoCommand]
  /\ rows = [c \in Command |-> Absent]
  /\ told = {}
  /\ overlapped = {}

-----------------------------------------------------------------------------
(* Plausible slips, for the mutant runs.                                   *)

\* The reader closes the descriptor of a shell that has ended.
LeftBehindMutant(t) == [table EXCEPT ![number[t]] = Nobody]
\* The next command takes the place of the one before.
RetiredMutant(t) == NoCommand
\* The reader goes by the end of the output alone.
GoneMutant(t) == FALSE

-----------------------------------------------------------------------------
Does(place, t) == at = place /\ subject = t

Turn(place) == at' = place /\ UNCHANGED subject

Idle == at' = "idle" /\ subject' = Nobody /\ command' = NoCommand /\ copy' = Absent

Free == {n \in Number : table[n] = Nobody}

\* The lowest is the number open() is given; commands are numbered in order.
Least(S) == {n \in S : \A m \in S : n <= m}

Owner(t) == table[number[t]]

-----------------------------------------------------------------------------
(* open_terminal.                                                          *)

Spawn(t) ==
  /\ at = "idle" /\ shell[t] = "none"
  /\ \E n \in Least(Free) : table' = [table EXCEPT ![n] = t] /\ number' = [number EXCEPT ![t] = n]
  /\ shell' = [shell EXCEPT ![t] = "running"]
  /\ sessions' = sessions \cup {t}
  /\ reader' = [reader EXCEPT ![t] = "polling"]
  /\ at' = "registering" /\ subject' = t
  /\ UNCHANGED <<command, copy, context, closes, unread, held, log, told, overlapped>>

\* The event terminal.opened comes after it.
Register(t) ==
  /\ Does("registering", t)
  /\ context' = context \cup {t}
  /\ Idle
  /\ UNCHANGED <<sessions, number, closes, kernel, reader, held, log, told, overlapped>>

-----------------------------------------------------------------------------
(* handle_input, of text with complete lines.  At the end all of it is      *)
(* written to the descriptor; a session that is gone is an error.          *)

Unused(t) == {n \in 1..MaxCommands : <<t, n>> \in Command /\ rows[<<t, n>>] = Absent}

Input(t) ==
  /\ at = "idle" /\ t \in context /\ Unused(t) # {}
  /\ at' = "retiring" /\ subject' = t
  /\ UNCHANGED <<command, copy, context, sessions, number, closes, kernel, reader, held, log,
                 told, overlapped>>

\* finalize_active takes the command, and then saves its row.
Retired(t) == active[t]

Retire(t) ==
  /\ Does("retiring", t)
  /\ command' = Retired(t)
  /\ active' = [active EXCEPT ![t] = NoCommand]
  /\ Turn(IF command' = NoCommand THEN "creating" ELSE "saving")
  /\ UNCHANGED <<copy, context, sessions, number, closes, kernel, reader, held, rows, told, overlapped>>

\* The object that is saved was made when the command was: it has no tags.
SaveEnd(t) ==
  /\ Does("saving", t)
  /\ rows' = [rows EXCEPT ![command] = Ended]
  /\ Turn("creating")
  /\ UNCHANGED <<command, copy, context, sessions, number, closes, kernel, reader, held, active,
                 told, overlapped>>

Create(t) ==
  /\ Does("creating", t)
  /\ \E n \in Least(Unused(t)) : command' = <<t, n>>
  /\ rows' = [rows EXCEPT ![command'] = [Absent EXCEPT !.status = "running"]]
  /\ Turn("activating")
  /\ UNCHANGED <<copy, context, sessions, number, closes, kernel, reader, held, active, told, overlapped>>

\* There may be another line.
Activate(t) ==
  /\ Does("activating", t)
  /\ active' = [active EXCEPT ![t] = command]
  /\ \/ Idle
     \/ Unused(t) # {} /\ Turn("retiring") /\ UNCHANGED <<command, copy>>
  /\ UNCHANGED <<context, sessions, number, closes, kernel, reader, held, rows, told, overlapped>>

\* An input of the terminal is being handled.
Typing(t) == \E place \in {"retiring", "saving", "creating", "activating"} : Does(place, t)

-----------------------------------------------------------------------------
(* close_terminal: the flag closed is set and never looked at.             *)

Hup(t) == IF shell[t] = "running" THEN [shell EXCEPT ![t] = "hungup"] ELSE shell

Close(t) ==
  /\ at = "idle" /\ t \in context /\ t \in sessions /\ closes[t] < MaxCloses
  /\ closes' = [closes EXCEPT ![t] = @ + 1]
  /\ shell' = Hup(t)
  /\ at' = "closing" /\ subject' = t
  /\ UNCHANGED <<command, copy, context, sessions, number, table, unread, reader, held, log, told, overlapped>>

\* Whoever has the number by now loses it, and its shell is hung up.
Release(t) ==
  /\ Does("closing", t)
  /\ table' = [table EXCEPT ![number[t]] = Nobody]
  /\ unread' = unread \ {Owner(t)}
  /\ shell' = IF Owner(t) = Nobody THEN shell ELSE Hup(Owner(t))
  /\ Idle
  /\ UNCHANGED <<context, sessions, number, closes, reader, held, log, told, overlapped>>

-----------------------------------------------------------------------------
(* create_evidence_from_command, with tags.  Bound: of one command at a     *)
(* time.                                                                   *)

ReadRow(c) ==
  /\ at = "idle" /\ rows[c] # Absent /\ \A d \in Command : ~rows[d].tagged
  /\ at' = "tagging" /\ subject' = Of(c) /\ command' = c /\ copy' = rows[c]
  /\ UNCHANGED <<context, sessions, number, closes, kernel, reader, held, log, told, overlapped>>

SaveTags ==
  /\ at = "tagging"
  /\ rows' = [rows EXCEPT ![command] = [copy EXCEPT !.tagged = TRUE]]
  /\ Idle
  /\ UNCHANGED <<context, sessions, number, closes, kernel, reader, held, active, told, overlapped>>

-----------------------------------------------------------------------------
(* _read_loop, and the callbacks of the service it calls.                  *)

Step(t, place) == reader' = [reader EXCEPT ![t] = place]

Gone(t) == shell[t] = "dead"

Poll(t) ==
  /\ reader[t] = "polling"
  /\ Step(t, IF Gone(t) THEN "leaving" ELSE "selecting")
  /\ UNCHANGED <<loop, context, sessions, number, closes, kernel, held, log, told, overlapped>>

\* The master of a shell that has ended can be read as well, and fails.
Readable(t) == \E u \in Terminal : u = Owner(t) /\ (u \in unread \/ shell[u] = "dead")

\* A number that was closed before select fails; closed during it, it times out.
Select(t) ==
  /\ reader[t] = "selecting"
  /\ \/ Readable(t) /\ Step(t, "reading")
     \/ ~Readable(t) /\ Step(t, "polling")
     \/ Owner(t) = Nobody /\ Step(t, "leaving")
  /\ UNCHANGED <<loop, context, sessions, number, closes, kernel, held, log, told, overlapped>>

\* read waits if the number was given to a terminal that has nothing to say.
\* What it returns is appended to the file of the active command, and told; it
\* is dropped while the terminal has no context.
Read(t) ==
  /\ reader[t] = "reading"
  /\ \/ /\ Owner(t) \in unread
        /\ unread' = unread \ {Owner(t)} /\ Step(t, "polling")
     \/ /\ Owner(t) \notin unread /\ (Owner(t) \in Terminal => shell[Owner(t)] = "dead")
        /\ Step(t, "leaving") /\ UNCHANGED unread
  /\ UNCHANGED <<loop, context, sessions, number, closes, table, shell, held, log, told, overlapped>>

\* Nobody closes the descriptor of a shell that ended by itself.
LeftBehind(t) == table

Leave(t) ==
  /\ reader[t] = "leaving"
  /\ sessions' = sessions \ {t} /\ table' = LeftBehind(t)
  /\ Step(t, "exiting")
  /\ UNCHANGED <<loop, context, number, closes, shell, unread, held, log, told, overlapped>>

\* _handle_terminal_exit: without a context there is nothing to do.
Exit(t) ==
  /\ reader[t] = "exiting"
  /\ context' = context \ {t}
  /\ Step(t, IF t \in context THEN "finalizing" ELSE "done")
  /\ overlapped' = IF Typing(t) THEN overlapped \cup {t} ELSE overlapped
  /\ UNCHANGED <<loop, sessions, number, closes, kernel, held, log, told>>

Finalize(t) ==
  /\ reader[t] = "finalizing"
  /\ held' = [held EXCEPT ![t] = active[t]]
  /\ active' = [active EXCEPT ![t] = NoCommand]
  /\ Step(t, IF active[t] = NoCommand THEN "telling" ELSE "ending")
  /\ UNCHANGED <<loop, context, sessions, number, closes, kernel, rows, told, overlapped>>

SaveExit(t) ==
  /\ reader[t] = "ending"
  /\ rows' = [rows EXCEPT ![held[t]] = Ended]
  /\ held' = [held EXCEPT ![t] = NoCommand]
  /\ Step(t, "telling")
  /\ UNCHANGED <<loop, context, sessions, number, closes, kernel, active, told, overlapped>>

Tell(t) ==
  /\ reader[t] = "telling"
  /\ told' = told \cup {t}
  /\ Step(t, "done")
  /\ UNCHANGED <<loop, context, sessions, number, closes, kernel, held, log, overlapped>>

-----------------------------------------------------------------------------
(* The shells.                                                             *)

\* Without its terminal a shell cannot write.
Emit(t) ==
  /\ shell[t] = "running" /\ \E n \in Number : table[n] = t
  /\ unread' = unread \cup {t}
  /\ UNCHANGED <<loop, context, sessions, number, closes, table, shell, reader, held, log, told, overlapped>>

Die(t) ==
  /\ shell[t] \in {"running", "hungup"} /\ shell' = [shell EXCEPT ![t] = "dead"]
  /\ UNCHANGED <<loop, context, sessions, number, closes, table, unread, reader, held, log, told, overlapped>>

-----------------------------------------------------------------------------
Request(t) == Spawn(t) \/ Input(t) \/ Close(t)

EventLoop ==
  \/ \E t \in Terminal :
       \/ Register(t) \/ Release(t)
       \/ Retire(t) \/ SaveEnd(t) \/ Create(t) \/ Activate(t)
  \/ SaveTags

Reader(t) ==
  \/ Poll(t) \/ Select(t) \/ Read(t)
  \/ Leave(t) \/ Exit(t) \/ Finalize(t) \/ SaveExit(t) \/ Tell(t)

Next ==
  \/ EventLoop
  \/ \E t \in Terminal : Request(t) \/ Reader(t) \/ Emit(t) \/ Die(t)
  \/ \E c \in Command : ReadRow(c)

Spec == Init /\ [][Next]_vars

\* The event loop and the threads go on, and a shell that was hung up ends.
Fair ==
  /\ WF_vars(EventLoop)
  /\ \A t \in Terminal : WF_vars(Reader(t)) /\ WF_vars(shell[t] = "hungup" /\ Die(t))

-----------------------------------------------------------------------------
\* pty_manager.py:120: what is typed into a terminal, and what its thread
\* reads, are those of its own shell until it is closed; unless the terminal
\* that had its number before is closed a second time.
DescriptorKept ==
  \A t \in sessions :
    Owner(t) # t => \/ closes[t] > 0
                    \/ \E u \in Terminal \ {t} : number[u] = number[t] /\ closes[u] > 1

\* command_log.py:77, terminal_service.py:207: between two requests a command
\* that is neither the active one nor about to be saved is ended.  Left without
\* an end are only the command of a terminal that exited while its input was
\* handled, or before it was registered, and one with tags saved over its end.
CommandsEnd ==
  at = "idle" =>
    \A c \in {d \in Command : rows[d].status = "running"} :
      \/ c = active[Of(c)] /\ (reader[Of(c)] # "done" \/ Of(c) \in overlapped \cup context)
      \/ c = held[Of(c)]
      \/ rows[c].tagged

\* The thread waits for the output of another terminal's shell.
Astray(t) == reader[t] = "reading" /\ Owner(t) \notin {t, Nobody}

\* The end of every shell is told at last, unless its thread was done before
\* the terminal was registered (then it stays open for ever) or its number was
\* given away under it.
EveryExitTold ==
  \A t \in Terminal :
    []<>(shell[t] = "dead" =>
           \/ t \in told
           \/ reader[t] = "done" /\ t \in context
           \/ Astray(t))
=============================================================================
