------------------------------ MODULE EventFeed -------------------------------
(***************************************************************************)
(* What the event stream promises, with sockets, pages, cursors and        *)
(* replays forgotten: events are logged, and the view of the session that  *)
(* is shown takes them over one by one in the order of the log, none left  *)
(* out and none twice, until another session is shown.                     *)
(***************************************************************************)
EXTENDS Naturals, Sequences, SequencesExt

CONSTANTS
  Session,
  Event,     \* events, each of a turn
  BelongsTo  \* the session of a turn

VARIABLES log, shown, view

Init == log = <<>> /\ shown \in Session /\ view = <<>>

LogEvent == /\ \E event \in Event : log' = Append(log, event)
            /\ UNCHANGED <<shown, view>>

Of(s) == {n \in DOMAIN log : BelongsTo[log[n].turn] = s}

TakeNext == /\ \E n \in Of(shown) \ ToSet(view) :
                 /\ \A m \in Of(shown) \ ToSet(view) : n <= m
                 /\ view' = Append(view, n)
            /\ UNCHANGED <<log, shown>>

Show == /\ shown' \in Session \ {shown}
        /\ view' = <<>>
        /\ UNCHANGED log

Next == LogEvent \/ TakeNext \/ Show

Spec == Init /\ [][Next]_<<log, shown, view>>
=============================================================================
