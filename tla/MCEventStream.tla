---------------------------- MODULE MCEventStream ----------------------------
(* The event stream for TLC: a turn in each of two sessions.               *)
EXTENDS EventStream

CONSTANTS hereTurn, elsewhereTurn, here, elsewhere

TurnSessions == (hereTurn :> here) @@ (elsewhereTurn :> elsewhere)
=============================================================================
