----------------------------- MODULE EventStream -----------------------------
(***************************************************************************)
(* The control centre's event stream.  Agent turns append events to one    *)
(* table, whose sequence numbers are global; /ws/events replays and then   *)
(* polls the rows of a session, in pages, and answers the client's own     *)
(* messages in between; the desktop client folds what it gets into a chat, *)
(* and connects again, with the address it had, whenever a socket closes.  *)
(* A socket that was replaced may still hold messages the client has not   *)
(* dispatched, and its handler may still be running.                       *)
(***************************************************************************)
EXTENDS Naturals, Sequences, FiniteSets, SequencesExt

CONSTANTS
  Session,      \* target sessions
  Turn,         \* agent turns (tasks)
  SessionOf,    \* the session a turn belongs to
  First,        \* the session the client shows first
  NoSocket,     \* the client has no socket: it waits to connect again
  ReplayLimit,  \* rows of the replay
  PageLimit,    \* rows of one poll
  WireLimit,    \* bound: envelopes under way on a socket
  MaxSockets,   \* bound: sockets opened
  MaxEvents,    \* bound: rows of ctf_events
  MaxMessages   \* bound: messages the client sends

ASSUME StreamAssumption ==
  /\ SessionOf \in [Turn -> Session] /\ First \in Session
  /\ {ReplayLimit, PageLimit, WireLimit} \subseteq Nat \ {0}
  /\ {MaxSockets, MaxEvents, MaxMessages} \subseteq Nat
  /\ NoSocket \notin Nat

VARIABLES
  events,   \* table ctf_events in the order of its sequence numbers
  link,     \* the sockets so far, each with its handler in the server
  socket,   \* the socket the client listens to
  session,  \* the session the client shows
  taken,    \* events the client has taken since it shows this session
  chat,     \* the steps of each turn that the client shows
  sent      \* number of messages the client has sent

vars == <<events, link, socket, session, taken, chat, sent>>

Socket == 1..Len(link)

(* A turn's events, in the order its thread records them: the text of each *)
(* step that calls tools is a delta, and the answer of the last step       *)
(* completes the conversation; a step that fails leaves only the summary.  *)
Kind == {"workflow.started", "conversation.delta", "conversation.completed",
         "agent.summary", "workflow.completed"}

\* What a turn may record after the kinds it has recorded.
Follows(recorded) ==
  {kind \in Kind :
    \/ kind = "workflow.started" /\ recorded = {}
    \/ /\ kind \in {"conversation.delta", "conversation.completed", "agent.summary"}
       /\ recorded # {} /\ recorded \subseteq {"workflow.started", "conversation.delta"}
    \/ kind = "agent.summary" /\ "conversation.completed" \in recorded
         /\ "agent.summary" \notin recorded /\ "workflow.completed" \notin recorded
    \/ kind = "workflow.completed" /\ "workflow.completed" \notin recorded
         /\ recorded \cap {"conversation.completed", "agent.summary"} # {}}

\* Event.create; the sequence number is the place in the table.
NewEvent(t, kind) == [turn |-> t, kind |-> kind]

Recorded(t) == {events[n].kind : n \in {m \in DOMAIN events : events[m].turn = t}}

OfSession(s) == {n \in DOMAIN events : SessionOf[events[n].turn] = s}

\* A slip for the mutant runs: the newest rows, as list() orders by default.
RowsMutant(s, since, limit) ==
  LET fits == {n \in OfSession(s) : n > since}
  IN  {n \in fits : Cardinality({m \in fits : m >= n}) <= limit}

(* EventRepository.list, oldest first.                                     *)
Rows(s, since, limit) ==
  LET fits == {n \in OfSession(s) : n > since}
  IN  {n \in fits : Cardinality({m \in fits : m <= n}) <= limit}

(* An envelope carries a row of the table, or (row 0) a reply.             *)
Persisted(n) == [row |-> n, sequence |-> n]
Reply(seq) == [row |-> 0, sequence |-> seq]

Opened(s) ==
  [session |-> s, pc |-> "accept", last |-> 0, sequence |-> 0, todo |-> {},
   inbox |-> <<>>, wire |-> <<>>]

(* A handler that has ended: what it sent may still arrive.                *)
Ended(l) == [Opened(l.session) EXCEPT !.pc = "closed", !.wire = l.wire]

Init ==
  /\ events = <<>>
  /\ session = First
  /\ link = <<Opened(session)>> /\ socket = 1
  /\ taken = <<>> /\ chat = [t \in Turn |-> {}]
  /\ sent = 0
-----------------------------------------------------------------------------
(* Plausible slips, for the mutant runs.                                   *)

\* The poll starts after the last number given to anything, replies included.
PollFromMutant(k) == link[k].sequence

\* Events are not told apart by their ids.
IsNewMutant(n) == TRUE

-----------------------------------------------------------------------------
(* The server.                                                             *)

(* EventRepository.create: the number is chosen under the write lock.      *)
Record(t) ==
  /\ Len(events) < MaxEvents
  /\ \E kind \in Follows(Recorded(t)) :
       events' = Append(events, NewEvent(t, kind))
  /\ UNCHANGED <<link, socket, session, taken, chat, sent>>

CanSend(k) == Len(link[k].wire) < WireLimit

Sent(l, envelope) == [l EXCEPT !.wire = Append(@, envelope)]

(* With nothing left of a page, the handler waits for the client.          *)
Paged(l, pc) == [l EXCEPT !.pc = IF l.todo = {} THEN "loop" ELSE pc]

(* The connection is accepted, its scope resolved and announced, and the   *)
(* rows to replay are read.                                                *)
Accept(k) ==
  /\ link[k].pc = "accept"
  /\ link' = [link EXCEPT ![k] =
       Paged([Sent(@, Reply(0)) EXCEPT !.todo = Rows(link[k].session, 0, ReplayLimit)],
             "replaying")]
  /\ UNCHANGED <<events, socket, session, taken, chat, sent>>

(* A token the server no longer knows, or a session it cannot find: one    *)
(* error, and the socket is closed.                                        *)
Refuse(k) ==
  /\ link[k].pc = "accept"
  /\ link' = [link EXCEPT ![k] = Ended(Sent(@, Reply(1)))]
  /\ UNCHANGED <<events, socket, session, taken, chat, sent>>

Greater(a, b) == IF a > b THEN a ELSE b

\* The counters after row n; only the replay moves the one of the replies.
Advanced(l, n) ==
  [l EXCEPT !.last = Greater(@, n),
            !.sequence = IF l.pc = "replaying" THEN Greater(@, n) ELSE @]

Oldest(rows) == {n \in rows : \A m \in rows : n <= m}

(* One envelope of the page goes out.                                      *)
SendRow(k) ==
  /\ CanSend(k)
  /\ \E n \in Oldest(link[k].todo) :
       LET l == Advanced(Sent(link[k], Persisted(n)), n)
       IN  link' = [link EXCEPT ![k] = Paged([l EXCEPT !.todo = @ \ {n}], l.pc)]
  /\ UNCHANGED <<events, socket, session, taken, chat, sent>>

PollFrom(k) == link[k].last

(* A quarter of a second without a message: the rows recorded meanwhile.   *)
Poll(k) ==
  /\ link[k].pc = "loop" /\ link[k].inbox = <<>>
  /\ LET rows == Rows(link[k].session, PollFrom(k), PageLimit)
     IN  /\ rows # {}
         /\ link' = [link EXCEPT ![k].todo = rows, ![k].pc = "polling"]
  /\ UNCHANGED <<events, socket, session, taken, chat, sent>>

(* A message of the client: what the server answers takes the next number  *)
(* of the socket; terminal.input and its like answer nothing; one that is  *)
(* no JSON is answered and ends the handler.                               *)
Receive(k) ==
  LET l == [link[k] EXCEPT !.inbox = Tail(@)]
      answered == [Sent(l, Reply(l.sequence + 1)) EXCEPT !.sequence = @ + 1]
      kind == Head(link[k].inbox)
  IN  /\ link[k].pc = "loop" /\ link[k].inbox # <<>> /\ CanSend(k)
      /\ \/ kind \in {"ping", "terminal"} /\ link' = [link EXCEPT ![k] = answered]
         \/ kind = "terminal" /\ link' = [link EXCEPT ![k] = l]
         \/ kind = "broken" /\ link' = [link EXCEPT ![k] = Ended(answered)]
      /\ UNCHANGED <<events, socket, session, taken, chat, sent>>
-----------------------------------------------------------------------------
(* The client.                                                             *)

(* connectEventSocket: the client listens to one socket at a time.         *)
Open(s) == link' = Append(link, Opened(s)) /\ socket' = Len(link) + 1

Listening(k) == k = socket

IsNew(n) == n \notin ToSet(taken)

Shown(t, kind) == {n \in chat[t] : events[n].kind = kind}

(* appendExecutionMessage: a draft replaces the one before, the answer all  *)
(* drafts, and a summary that repeats the answer is dropped.               *)
WithStep(t, n) ==
  LET kind  == events[n].kind
      stale == IF kind \in {"conversation.delta", "conversation.completed"}
                 THEN Shown(t, "conversation.delta") ELSE {}
  IN  IF kind = "agent.summary" /\ Shown(t, "conversation.completed") # {}
        THEN chat[t] ELSE (chat[t] \ stale) \cup {n}

(* A message event: dropped unless its socket is the current one and its   *)
(* id has not been seen (a reply leaves no trace in the chat here).        *)
Dispatch(k) ==
  LET n == Head(link[k].wire).row
      t == events[n].turn
  IN  /\ link[k].wire # <<>>
      /\ link' = [link EXCEPT ![k].wire = Tail(@)]
      /\ IF Listening(k) /\ n # 0 /\ IsNew(n)
           THEN taken' = Append(taken, n) /\ chat' = [chat EXCEPT ![t] = WithStep(t, n)]
           ELSE UNCHANGED <<taken, chat>>
      /\ UNCHANGED <<events, socket, session, sent>>

Send(kind) ==
  /\ socket # NoSocket /\ sent < MaxMessages
  /\ link[socket].pc # "closed"
  /\ kind = "broken" => Len(link) < MaxSockets
  /\ link' = [link EXCEPT ![socket].inbox = Append(@, kind)]
  /\ sent' = sent + 1
  /\ UNCHANGED <<events, socket, session, taken, chat>>

(* The connection breaks, or the server has closed it and the client has   *)
(* read what was sent before.                                              *)
Closes(k) ==
  /\ \/ Len(link) < MaxSockets /\ link' = [link EXCEPT ![k] = Ended([@ EXCEPT !.wire = <<>>])]
     \/ link[k].pc = "closed" /\ link[k].wire = <<>> /\ UNCHANGED link
  /\ k = socket
  /\ socket' = NoSocket
  /\ UNCHANGED <<events, session, taken, chat, sent>>

Reconnect ==
  /\ socket = NoSocket
  /\ Open(session)
  /\ UNCHANGED <<events, session, taken, chat, sent>>

(* A socket that was replaced: its handler ends when it next waits for the *)
(* client or sends to it.                                                  *)
HangUp(k) ==
  /\ k # socket /\ link[k].pc # "closed"
  /\ link' = [link EXCEPT ![k] = Ended(@)]
  /\ UNCHANGED <<events, socket, session, taken, chat, sent>>

(* The effects of App.tsx run again: for the same session the chat stays,  *)
(* for another one it starts empty.                                        *)
Show(s) ==
  /\ Len(link) < MaxSockets
  /\ Open(s)
  /\ session' = s
  /\ IF s = session THEN UNCHANGED <<taken, chat>>
     ELSE taken' = <<>> /\ chat' = [t \in Turn |-> {}]
  /\ UNCHANGED <<events, sent>>
-----------------------------------------------------------------------------
Server(k) == Accept(k) \/ SendRow(k) \/ Poll(k) \/ Receive(k)

Next ==
  \/ \E t \in Turn : Record(t)
  \/ \E k \in Socket : Server(k) \/ Dispatch(k) \/ Closes(k) \/ HangUp(k)
  \/ \E k \in Socket : Len(link) < MaxSockets /\ Refuse(k)
  \/ \E kind \in {"ping", "terminal", "broken"} : Send(kind)
  \/ Reconnect
  \/ \E s \in Session : Show(s)

Spec == Init /\ [][Next]_vars

(* The event loop runs every handler and the network delivers, the timer   *)
(* of a closed socket fires; nothing else must happen.                     *)
FairSpec ==
  /\ Spec
  /\ \A k \in 1..(MaxSockets + 1) :
       /\ WF_vars(k \in Socket /\ Server(k))
       /\ WF_vars(k \in Socket /\ Dispatch(k))
       /\ WF_vars(k \in Socket /\ link[k].pc = "closed" /\ Closes(k))
  /\ WF_vars(Reconnect)
-----------------------------------------------------------------------------
(* The rows, sockets and cursors have their types; no cursor is ahead of   *)
(* the table.                                                              *)
Envelope == [row : Nat, sequence : Nat]

Link == [session : Session, pc : {"accept", "replaying", "polling", "loop", "closed"},
         last : Nat, sequence : Nat, todo : SUBSET Nat,
         inbox : Seq({"ping", "terminal", "broken"}), wire : Seq(Envelope)]

TypeOK ==
  /\ events \in Seq([turn : Turn, kind : Kind])
  /\ link \in Seq(Link)
  /\ \A k \in Socket :
       /\ link[k].last <= Len(events)
       /\ link[k].todo \subseteq DOMAIN events
       /\ \A i \in DOMAIN link[k].wire : link[k].wire[i].row <= Len(events)
  /\ socket \in Socket \cup {NoSocket}
  /\ session \in Session
  /\ taken \in Seq(DOMAIN events)
  /\ chat \in [Turn -> SUBSET DOMAIN events]
  /\ sent \in 0..MaxMessages

(* What the client takes of a session implements the feed of its events: no *)
(* event is skipped, repeated or overtaken, although replies use up numbers *)
(* on the socket, pages end early, every new socket replays from the start, *)
(* and a socket that was replaced may still deliver (ws.py's two cursors,   *)
(* ws.ts and the ids of agentEvents.ts).                                    *)
Feed == INSTANCE EventFeed
          WITH Event <- [turn : Turn, kind : Kind], BelongsTo <- SessionOf,
               log <- events, shown <- session, view <- taken

FeedSpec == Feed!Spec

(* A turn whose answer has arrived shows that answer alone: no draft and   *)
(* no summary beside it (agentEvents.test.ts, keeps one visible agent      *)
(* answer), however often the rows were replayed.                          *)
OneVisibleAnswer ==
  \A t \in Turn : Shown(t, "conversation.completed") # {} =>
    Cardinality({n \in chat[t] : events[n].kind \in
      {"conversation.completed", "conversation.delta", "agent.summary"}}) = 1

(* An event of the session shown reaches the chat, unless the operator     *)
(* turns to another session: drops, refusals and the client's own messages *)
(* only delay it.                                                          *)
EveryEventArrives ==
  \A n \in 1..MaxEvents :
    LET shown == n <= Len(events) /\ SessionOf[events[n].turn] = session
    IN  shown ~> (Contains(taken, n) \/ ~shown)
=============================================================================
