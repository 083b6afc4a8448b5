-------------------------- MODULE EventStream_proofs --------------------------
(***************************************************************************)
(* Proofs about the event stream, for any sessions and turns, any limits   *)
(* of pages and replays and any number of events, sockets and messages:    *)
(* what the client takes implements the feed of a session's events, and a  *)
(* turn that was answered shows its answer alone.                          *)
(*                                                                         *)
(* Nothing is skipped because of what is on its way: an event before one   *)
(* that is on the wire of the current socket was taken or comes earlier on *)
(* that wire, one before a row of the page still to send may also be in    *)
(* the page, and those up to the cursor of the poll are no longer in it.   *)
(* The other sockets may have anything on their wires.                     *)
(***************************************************************************)
EXTENDS EventStream, FiniteSetTheorems, SequenceTheorems, TLAPS

-----------------------------------------------------------------------------
(* The invariant.                                                          *)

\* A turn records its answer once, after its drafts, and its summary after that.
Answered ==
  \A m, n \in DOMAIN events :
    m < n /\ events[m].turn = events[n].turn =>
      /\ events[m].kind = "conversation.completed" =>
           events[n].kind \in {"agent.summary", "workflow.completed"}
      /\ events[m].kind = "agent.summary" => events[n].kind = "workflow.completed"

\* The client has taken the first events of the session it shows, in order.
Prefix ==
  /\ ToSet(taken) \subseteq OfSession(session)
  /\ \A n \in ToSet(taken), m \in OfSession(session) : m < n => m \in ToSet(taken)

\* The first of the rows that are on the wire of l at place i or before.
Before(l, i) == {l.wire[j].row : j \in {h \in DOMAIN l.wire : h < i}}
OnWire(l) == {l.wire[j].row : j \in DOMAIN l.wire}

Gapless(l) ==
  /\ l.session = session
  /\ \A i \in DOMAIN l.wire : l.wire[i].row # 0 =>
       /\ l.wire[i].row \in OfSession(session)
       /\ \A m \in OfSession(session) :
            m < l.wire[i].row => m \in ToSet(taken) \cup Before(l, i)
  /\ \A n \in l.todo :
       /\ n \in OfSession(session)
       /\ \A m \in OfSession(session) : m < n => m \in ToSet(taken) \cup OnWire(l) \cup l.todo
  /\ \A m \in OfSession(session) :
       m <= l.last => m \in ToSet(taken) \cup OnWire(l)

Delivered ==
  \A l \in Link : socket # NoSocket /\ l = link[socket] => Gapless(l)

\* A turn that shows its answer shows no draft and no summary.
Answer(n) ==
  events[n].kind \in {"conversation.completed", "conversation.delta", "agent.summary"}

Alone ==
  \A t \in Turn :
    /\ \A n \in chat[t] : n \in ToSet(taken) /\ events[n].turn = t
    /\ \A c \in Shown(t, "conversation.completed"), n \in chat[t] : Answer(n) => n = c

StreamInv == TypeOK /\ Answered /\ Prefix /\ Delivered /\ Alone

-----------------------------------------------------------------------------
(* What is done to a link.                                                 *)

\* A socket as it is opened has nothing on its wire.
LEMMA OpenedIs ==
  ASSUME NEW s \in Session
  PROVE  /\ Opened(s) \in Link /\ Opened(s).session = s /\ Opened(s).last = 0
         /\ Opened(s).todo = {} /\ Opened(s).wire = <<>>
  BY DEF Opened, Link

\* A handler that ends leaves what it sent.
LEMMA EndedIs ==
  ASSUME NEW l \in Link
  PROVE  /\ Ended(l) \in Link /\ Ended(l).session = l.session /\ Ended(l).last = 0
         /\ Ended(l).todo = {} /\ Ended(l).wire = l.wire
<1>. l.session \in Session /\ l.wire \in Seq(Envelope)
  BY DEF Link
<1>1. /\ Opened(l.session) \in Link /\ Opened(l.session).session = l.session
      /\ Opened(l.session).last = 0 /\ Opened(l.session).todo = {}
  BY OpenedIs
<1>. QED BY <1>1 DEF Ended, Link

\* Sending adds one envelope to the wire.
LEMMA SentIs ==
  ASSUME NEW l \in Link, NEW e \in Envelope
  PROVE  /\ Sent(l, e) \in Link /\ Sent(l, e).session = l.session
         /\ Sent(l, e).last = l.last /\ Sent(l, e).todo = l.todo
         /\ Sent(l, e).sequence = l.sequence
         /\ Sent(l, e).pc = l.pc
         /\ Len(Sent(l, e).wire) = Len(l.wire) + 1
         /\ \A i \in 1..Len(l.wire) : Sent(l, e).wire[i] = l.wire[i]
         /\ Sent(l, e).wire[Len(l.wire) + 1] = e
<1>. l.wire \in Seq(Envelope)
  BY DEF Link
<1>1. Sent(l, e).wire = Append(l.wire, e)
  BY DEF Sent, Link
<1>2. Append(l.wire, e) \in Seq(Envelope)
  OBVIOUS
<1>3. /\ Len(Append(l.wire, e)) = Len(l.wire) + 1
      /\ \A i \in 1..Len(l.wire) : Append(l.wire, e)[i] = l.wire[i]
      /\ Append(l.wire, e)[Len(l.wire) + 1] = e
  OBVIOUS
<1>4. Sent(l, e) \in Link
  BY <1>2 DEF Sent, Link
<1>. QED BY <1>1, <1>3, <1>4 DEF Sent, Link

\* Where a handler goes on says nothing of its rows.
LEMMA PagedIs ==
  ASSUME NEW l \in Link, NEW pc \in {"replaying", "polling", "loop"}
  PROVE  /\ Paged(l, pc) \in Link /\ Paged(l, pc).session = l.session
         /\ Paged(l, pc).last = l.last /\ Paged(l, pc).todo = l.todo
         /\ Paged(l, pc).wire = l.wire
  BY DEF Paged, Link

\* Envelopes are envelopes.
LEMMA EnvelopeIs ==
  ASSUME NEW n \in Nat
  PROVE  /\ Persisted(n) \in Envelope /\ Persisted(n).row = n
         /\ Reply(n) \in Envelope /\ Reply(n).row = 0
  BY DEF Persisted, Reply, Envelope

\* The cursor of the poll is moved to the row that is sent.
LEMMA AdvancedIs ==
  ASSUME NEW l \in Link, NEW n \in Nat
  PROVE  /\ Advanced(l, n) \in Link /\ Advanced(l, n).session = l.session
         /\ Advanced(l, n).last = IF l.last > n THEN l.last ELSE n
         /\ Advanced(l, n).todo = l.todo /\ Advanced(l, n).wire = l.wire
         /\ Advanced(l, n).pc = l.pc
  BY DEF Advanced, Greater, Link
-----------------------------------------------------------------------------
(* No gaps.                                                                *)

\* A row of a page has all earlier rows of its session in the page, but for
\* those up to the cursor.
LEMMA RowsInOrder ==
  ASSUME events \in Seq([turn : Turn, kind : Kind]), NEW s, NEW since \in Nat, NEW limit \in Nat
  PROVE  /\ Rows(s, since, limit) \subseteq OfSession(s)
         /\ Rows(s, since, limit) \subseteq DOMAIN events
         /\ \A n \in Rows(s, since, limit), m \in OfSession(s) :
              m < n /\ m > since => m \in Rows(s, since, limit)
<1> DEFINE Fits == {n \in OfSession(s) : n > since}
           UpTo(n) == {m \in Fits : m <= n}
<1>1. /\ DOMAIN events = 1..Len(events) /\ Len(events) \in Nat
      /\ OfSession(s) \subseteq DOMAIN events
  BY DEF OfSession
<1>2. IsFiniteSet(Fits)
  <2>1. IsFiniteSet(1..Len(events))
    BY <1>1, FS_Interval
  <2>. QED BY <2>1, <1>1, FS_Subset
<1>3. Rows(s, since, limit) = {n \in Fits : Cardinality(UpTo(n)) <= limit}
  BY DEF Rows
<1>4. SUFFICES ASSUME NEW n \in Rows(s, since, limit), NEW m \in OfSession(s), m < n, m > since
               PROVE  m \in Rows(s, since, limit)
  BY <1>1, <1>3
<1>5. n \in Fits /\ m \in Fits /\ Cardinality(UpTo(n)) <= limit
  BY <1>3, <1>4
<1>6. UpTo(m) \subseteq UpTo(n) /\ UpTo(n) \subseteq Fits
  BY <1>1, <1>4, <1>5
<1>7. IsFiniteSet(UpTo(n))
  BY <1>2, <1>6, FS_Subset
<1>8. Cardinality(UpTo(m)) <= Cardinality(UpTo(n)) /\ IsFiniteSet(UpTo(m))
  BY <1>6, <1>7, FS_Subset
<1>9. Cardinality(UpTo(m)) \in Nat /\ Cardinality(UpTo(n)) \in Nat
  BY <1>7, <1>8, FS_CardinalityType
<1>10. Cardinality(UpTo(m)) <= limit
  BY <1>5, <1>8, <1>9
<1>. QED BY <1>3, <1>5, <1>10

\* Only session, wire, page and cursor matter.
LEMMA SameWire ==
  ASSUME TypeOK, NEW l \in Link, NEW k \in Link, Gapless(l), k.session = l.session, k.wire = l.wire,
         k.last = l.last \/ k.last = 0,
         \A n \in k.todo :
           /\ n \in OfSession(session)
           /\ \A m \in OfSession(session) :
                m < n => m \in ToSet(taken) \cup OnWire(l) \cup k.todo
  PROVE  Gapless(k)
<1>1. OnWire(k) = OnWire(l) /\ \A i \in DOMAIN k.wire : Before(k, i) = Before(l, i)
  BY DEF OnWire, Before
<1>2. \A m \in OfSession(session) : m \in Nat \ {0}
  BY DEF OfSession, TypeOK
<1>. QED BY <1>1, <1>2 DEF Gapless

\* What a longer wire holds.
LEMMA SentHolds ==
  ASSUME NEW l \in Link, NEW e \in Envelope
  PROVE  /\ DOMAIN l.wire = 1..Len(l.wire) /\ Len(l.wire) \in Nat
         /\ DOMAIN Sent(l, e).wire = 1..(Len(l.wire) + 1)
         /\ OnWire(Sent(l, e)) = OnWire(l) \cup {e.row}
         /\ \A i \in 1..Len(l.wire) : Before(Sent(l, e), i) = Before(l, i)
         /\ Before(Sent(l, e), Len(l.wire) + 1) = OnWire(l)
<1>1. DOMAIN l.wire = 1..Len(l.wire) /\ Len(l.wire) \in Nat
  BY DEF Link
<1>2. Sent(l, e).wire \in Seq(Envelope) /\ Len(Sent(l, e).wire) = Len(l.wire) + 1
  BY SentIs DEF Link
<1>3. DOMAIN Sent(l, e).wire = 1..(Len(l.wire) + 1)
  BY <1>1, <1>2
<1>4. /\ \A i \in 1..Len(l.wire) : Sent(l, e).wire[i] = l.wire[i]
      /\ Sent(l, e).wire[Len(l.wire) + 1] = e
  BY SentIs
<1>5. OnWire(Sent(l, e)) = OnWire(l) \cup {e.row}
  BY <1>1, <1>3, <1>4 DEF OnWire
<1>6. \A i \in 1..Len(l.wire) : Before(Sent(l, e), i) = Before(l, i)
  <2>. SUFFICES ASSUME NEW i \in 1..Len(l.wire)
                PROVE  Before(Sent(l, e), i) = Before(l, i)
    OBVIOUS
  <2>1. {h \in DOMAIN Sent(l, e).wire : h < i} = {h \in DOMAIN l.wire : h < i}
    BY <1>1, <1>3
  <2>2. \A h \in {j \in DOMAIN l.wire : j < i} : Sent(l, e).wire[h] = l.wire[h]
    BY <1>1, <1>4
  <2>. QED BY <2>1, <2>2 DEF Before
<1>7. Before(Sent(l, e), Len(l.wire) + 1) = OnWire(l)
  BY <1>1, <1>3, <1>4 DEF Before, OnWire
<1>. QED BY <1>1, <1>3, <1>5, <1>6, <1>7

\* A reply is no row.
LEMMA ReplyGapless ==
  ASSUME TypeOK, NEW l \in Link, Gapless(l), NEW n \in Nat
  PROVE  Gapless(Sent(l, Reply(n)))
<1>1. Reply(n) \in Envelope /\ Reply(n).row = 0
  BY EnvelopeIs
<1> DEFINE k == Sent(l, Reply(n))
<1>2. k \in Link /\ k.session = l.session /\ k.last = l.last /\ k.todo = l.todo
  BY <1>1, SentIs
<1>3. /\ \A i \in 1..Len(l.wire) : k.wire[i] = l.wire[i]
      /\ k.wire[Len(l.wire) + 1].row = 0
  BY <1>1, SentIs
<1>4. /\ DOMAIN l.wire = 1..Len(l.wire) /\ Len(l.wire) \in Nat
      /\ DOMAIN k.wire = 1..(Len(l.wire) + 1)
      /\ OnWire(k) = OnWire(l) \cup {0}
      /\ \A i \in 1..Len(l.wire) : Before(k, i) = Before(l, i)
  BY <1>1, SentHolds
<1> HIDE DEF k
<1>5. ASSUME NEW i \in DOMAIN k.wire, k.wire[i].row # 0
      PROVE  /\ k.wire[i].row \in OfSession(session)
             /\ \A m \in OfSession(session) :
                  m < k.wire[i].row => m \in ToSet(taken) \cup Before(k, i)
  <2>1. i \in 1..Len(l.wire)
    BY <1>3, <1>4, <1>5
  <2>. QED BY <1>3, <1>4, <1>5, <2>1 DEF Gapless
<1>6. ASSUME NEW m \in k.todo
      PROVE  /\ m \in OfSession(session)
             /\ \A h \in OfSession(session) :
                  h < m => h \in ToSet(taken) \cup OnWire(k) \cup k.todo
  BY <1>2, <1>4, <1>6 DEF Gapless
<1>7. ASSUME NEW m \in OfSession(session), m <= k.last
      PROVE  m \in ToSet(taken) \cup OnWire(k)
  BY <1>2, <1>4, <1>7 DEF Gapless
<1>8. k.session = session
  BY <1>2 DEF Gapless
<1>9. Gapless(k)
  BY <1>5, <1>6, <1>7, <1>8 DEF Gapless
<1>. QED BY <1>9 DEF k

\* The oldest row of a page goes out after everything before it.
LEMMA RowGapless ==
  ASSUME TypeOK, NEW l \in Link, Gapless(l), NEW n \in Oldest(l.todo), NEW k \in Link,
         k.session = l.session, k.todo = l.todo \ {n},
         k.last = (IF l.last > n THEN l.last ELSE n),
         k.wire = Sent(l, Persisted(n)).wire
  PROVE  Gapless(k)
<1>1. /\ n \in l.todo /\ n \in OfSession(session) /\ n \in Nat \ {0}
      /\ \A m \in l.todo : n <= m
      /\ \A m \in OfSession(session) : m \in Nat
      /\ l.last \in Nat
  BY DEF Oldest, Gapless, OfSession, TypeOK, Link
<1>2. Persisted(n) \in Envelope /\ Persisted(n).row = n
  BY <1>1, EnvelopeIs
<1>3. /\ \A i \in 1..Len(l.wire) : k.wire[i] = l.wire[i]
      /\ k.wire[Len(l.wire) + 1].row = n
  BY <1>2, SentIs
<1>4. /\ DOMAIN l.wire = 1..Len(l.wire) /\ Len(l.wire) \in Nat
      /\ DOMAIN k.wire = 1..(Len(l.wire) + 1)
      /\ OnWire(k) = OnWire(l) \cup {n}
      /\ \A i \in 1..Len(l.wire) : Before(k, i) = Before(l, i)
      /\ Before(k, Len(l.wire) + 1) = OnWire(l)
  <2>1. /\ OnWire(k) = OnWire(Sent(l, Persisted(n)))
        /\ \A i : Before(k, i) = Before(Sent(l, Persisted(n)), i)
    BY DEF OnWire, Before
  <2>. QED BY <1>2, <2>1, SentHolds
<1>5. \A m \in OfSession(session) : m < n => m \in ToSet(taken) \cup OnWire(l)
  <2>. SUFFICES ASSUME NEW m \in OfSession(session), m < n
                PROVE  m \in ToSet(taken) \cup OnWire(l)
    OBVIOUS
  <2>1. m \in ToSet(taken) \cup OnWire(l) \cup l.todo
    BY <1>1 DEF Gapless
  <2>2. m \notin l.todo
    <3>1. m \in Nat /\ n \in Nat /\ (m \in l.todo => n <= m)
      BY <1>1
    <3>. QED BY <3>1
  <2>. QED BY <2>1, <2>2
<1>6. ASSUME NEW i \in DOMAIN k.wire, k.wire[i].row # 0
      PROVE  /\ k.wire[i].row \in OfSession(session)
             /\ \A m \in OfSession(session) :
                  m < k.wire[i].row => m \in ToSet(taken) \cup Before(k, i)
  <2>1. CASE i \in 1..Len(l.wire)
    BY <1>3, <1>4, <1>6, <2>1 DEF Gapless
  <2>2. CASE i = Len(l.wire) + 1
    BY <1>1, <1>3, <1>4, <1>5, <2>2
  <2>. QED BY <1>4, <2>1, <2>2
<1>7. ASSUME NEW m \in k.todo
      PROVE  /\ m \in OfSession(session)
             /\ \A h \in OfSession(session) :
                  h < m => h \in ToSet(taken) \cup OnWire(k) \cup k.todo
  BY <1>4, <1>7 DEF Gapless
<1>8. ASSUME NEW m \in OfSession(session), m <= k.last
      PROVE  m \in ToSet(taken) \cup OnWire(k)
  <2>1. CASE m <= l.last
    BY <1>4, <2>1 DEF Gapless
  <2>2. CASE m = n
    BY <1>4, <2>2
  <2>3. CASE m < n
    BY <1>4, <1>5, <2>3
  <2>. QED BY <1>1, <1>8, <2>1, <2>2, <2>3
<1>9. k.session = session
  BY DEF Gapless
<1>. QED BY <1>6, <1>7, <1>8, <1>9 DEF Gapless
-----------------------------------------------------------------------------
(* Steps of one socket.                                                    *)

\* What a link may hold.
Fits(l) ==
  /\ l \in Link /\ l.last <= Len(events) /\ l.todo \subseteq DOMAIN events
  /\ \A i \in DOMAIN l.wire : l.wire[i].row <= Len(events)

\* The types of the table and of the sockets.
LEMMA SocketTypes ==
  ASSUME TypeOK
  PROVE  /\ DOMAIN events = 1..Len(events) /\ Len(events) \in Nat
         /\ DOMAIN link = Socket /\ Len(link) \in Nat /\ NoSocket \notin Socket
         /\ \A k \in Socket : Fits(link[k])
         /\ \A k \in Socket : /\ DOMAIN link[k].wire = 1..Len(link[k].wire)
                              /\ link[k].wire \in Seq(Envelope)
                              /\ link[k].inbox \in Seq({"ping", "terminal", "broken"})
                              /\ link[k].sequence \in Nat /\ link[k].last \in Nat
                              /\ link[k].session \in Session
<1>1. /\ DOMAIN events = 1..Len(events) /\ Len(events) \in Nat
      /\ DOMAIN link = Socket /\ Len(link) \in Nat /\ NoSocket \notin Socket
  BY StreamAssumption DEF TypeOK, Socket
<1>2. \A k \in Socket : link[k] \in Link
  BY <1>1 DEF TypeOK, Socket
<1>3. \A k \in Socket : Fits(link[k])
  BY <1>2 DEF TypeOK, Fits
<1>. QED BY <1>1, <1>2, <1>3 DEF Link

\* What the client sees depends on the table, the session and what it has taken.
LEMMA SameView ==
  ASSUME UNCHANGED <<events, session, taken, chat>>
  PROVE  /\ Answered => Answered'
         /\ Prefix => Prefix'
         /\ Alone => Alone'
         /\ \A l : Gapless(l) => Gapless(l)'
<1>1. \A s : OfSession(s)' = OfSession(s)
  BY DEF OfSession
<1>2. \A t, kind : Shown(t, kind)' = Shown(t, kind)
  BY DEF Shown
<1>3. Prefix => Prefix'
  BY <1>1 DEF Prefix
<1>4. Alone => Alone'
  BY <1>2 DEF Alone, Answer
<1>5. \A l : Gapless(l) => Gapless(l)'
  <2>. SUFFICES ASSUME NEW l, Gapless(l) PROVE Gapless(l)'
    OBVIOUS
  <2>1. OnWire(l)' = OnWire(l) /\ \A i : Before(l, i)' = Before(l, i)
    BY DEF OnWire, Before
  <2>. QED BY <1>1, <2>1 DEF Gapless
<1>6. Answered => Answered'
  BY DEF Answered
<1>. QED BY <1>3, <1>4, <1>5, <1>6

\* A step that gives one socket another link.
LEMMA LinkStep ==
  ASSUME StreamInv, NEW k \in Socket, NEW l, Fits(l), link' = [link EXCEPT ![k] = l],
         UNCHANGED <<events, session, taken, chat>>,
         socket' \in {socket, NoSocket}, sent' \in 0..MaxMessages,
         k = socket' /\ Gapless(link[k]) => Gapless(l)
  PROVE  StreamInv'
<1>1. l \in Link /\ link \in Seq(Link) /\ k \in 1..Len(link)
  BY DEF StreamInv, TypeOK, Fits, Socket
<1>2. /\ link' \in Seq(Link) /\ Len(link') = Len(link)
      /\ \A h \in 1..Len(link) : link'[h] = IF h = k THEN l ELSE link[h]
  BY <1>1, ExceptSeq
<1>3. Socket' = Socket
  BY <1>2 DEF Socket
<1>4. \A h \in Socket : link'[h] = IF h = k THEN l ELSE link[h]
  BY <1>2 DEF Socket
<1>5. TypeOK'
  <2>1. \A h \in Socket : Fits(link'[h])
    BY <1>4, SocketTypes DEF StreamInv
  <2>2. \A h \in Socket' :
          /\ link'[h].last <= Len(events)
          /\ link'[h].todo \subseteq DOMAIN events
          /\ \A i \in DOMAIN link'[h].wire : link'[h].wire[i].row <= Len(events)
    BY <1>3, <2>1 DEF Fits
  <2>3. socket' \in Socket' \cup {NoSocket}
    BY <1>3 DEF StreamInv, TypeOK
  <2>. QED BY <1>2, <2>2, <2>3 DEF StreamInv, TypeOK
<1>6. Delivered'
  <2>. SUFFICES ASSUME NEW m \in Link, socket' # NoSocket, m = link'[socket'] PROVE Gapless(m)'
    BY DEF Delivered
  <2>1. socket' = socket /\ socket \in Socket /\ link[socket] \in Link
    BY SocketTypes DEF StreamInv, TypeOK, Fits
  <2>2. Gapless(link[socket])
    BY <2>1 DEF StreamInv, Delivered
  <2>3. Gapless(m)
    BY <1>4, <2>1, <2>2
  <2>. QED BY <2>3, SameView
<1>7. Answered' /\ Prefix' /\ Alone'
  BY SameView DEF StreamInv
<1>. QED BY <1>5, <1>6, <1>7 DEF StreamInv

\* What Accept, Refuse, SendRow, Poll, Receive and HangUp keep.
Quiet == UNCHANGED <<events, session, taken, chat>>

\* A connection is accepted, and the rows to replay are read.
LEMMA AcceptStep ==
  ASSUME StreamInv, NEW k \in Socket, Accept(k)
  PROVE  StreamInv' /\ Quiet
<1> DEFINE rows == Rows(link[k].session, 0, ReplayLimit)
           sent0 == Sent(link[k], Reply(0))
           paged == [sent0 EXCEPT !.todo = rows]
           l == Paged(paged, "replaying")
<1>0. TypeOK /\ Fits(link[k]) /\ ReplayLimit \in Nat
  BY SocketTypes, StreamAssumption DEF StreamInv
<1>1. link' = [link EXCEPT ![k] = l]
  BY DEF Accept
<1>2. /\ rows \subseteq OfSession(link[k].session) /\ rows \subseteq DOMAIN events
      /\ \A n \in rows, m \in OfSession(link[k].session) : m < n /\ m > 0 => m \in rows
  BY <1>0, RowsInOrder DEF TypeOK
<1>3. Reply(0) \in Envelope /\ Reply(0).row = 0
  BY EnvelopeIs
<1>4. link[k] \in Link /\ sent0 \in Link /\ sent0.session = link[k].session
      /\ sent0.last = link[k].last /\ sent0.todo = link[k].todo
  BY <1>0, <1>3, SentIs DEF Fits
<1>5. /\ DOMAIN sent0.wire = 1..(Len(link[k].wire) + 1) /\ Len(link[k].wire) \in Nat
      /\ \A i \in 1..Len(link[k].wire) : sent0.wire[i] = link[k].wire[i]
      /\ sent0.wire[Len(link[k].wire) + 1].row = 0
      /\ DOMAIN link[k].wire = 1..Len(link[k].wire)
  BY <1>3, <1>4, SentIs, SentHolds
<1>6. DOMAIN events \subseteq Nat /\ Len(events) \in Nat
  BY <1>0, SocketTypes
<1>7. /\ paged \in Link /\ paged.session = link[k].session /\ paged.last = link[k].last
      /\ paged.todo = rows /\ paged.wire = sent0.wire
  BY <1>2, <1>4, <1>6 DEF Link
<1> HIDE DEF rows, sent0, paged
<1>8. /\ l \in Link /\ l.session = link[k].session /\ l.last = link[k].last
      /\ l.todo = rows /\ l.wire = sent0.wire
  BY <1>7, PagedIs
<1>9. Fits(l)
  <2>1. \A i \in DOMAIN l.wire : l.wire[i].row <= Len(events)
    <3>. SUFFICES ASSUME NEW i \in DOMAIN l.wire PROVE sent0.wire[i].row <= Len(events)
      BY <1>8
    <3>1. CASE i \in 1..Len(link[k].wire)
      BY <1>0, <1>5, <3>1 DEF Fits
    <3>2. CASE i = Len(link[k].wire) + 1
      BY <1>5, <1>6, <3>2
    <3>. QED BY <1>5, <1>8, <3>1, <3>2
  <2>. QED BY <1>0, <1>2, <1>8, <2>1 DEF Fits
<1>10. Gapless(link[k]) => Gapless(l)
  <2>. SUFFICES ASSUME Gapless(link[k]) PROVE Gapless(l)
    OBVIOUS
  <2>1. Gapless(sent0)
    BY <1>0, <1>4, ReplyGapless DEF sent0
  <2>2. link[k].session = session /\ \A m \in OfSession(session) : m > 0
    BY <1>0 DEF Gapless, OfSession, TypeOK
  <2>3. \A n \in l.todo :
          /\ n \in OfSession(session)
          /\ \A m \in OfSession(session) :
               m < n => m \in ToSet(taken) \cup OnWire(sent0) \cup l.todo
    BY <1>2, <1>8, <2>2
  <2>. QED BY <1>0, <1>4, <1>8, <2>1, <2>3, SameWire
<1> HIDE DEF l
<1>. QED BY <1>1, <1>9, <1>10, LinkStep DEF Accept, Quiet, StreamInv, TypeOK

\* What a longer wire fits.
LEMMA SentFits ==
  ASSUME TypeOK, NEW l, Fits(l), NEW e \in Envelope, e.row <= Len(events)
  PROVE  Fits(Sent(l, e))
<1>1. l \in Link /\ DOMAIN l.wire = 1..Len(l.wire) /\ Len(l.wire) \in Nat
  BY DEF Fits, Link
<1> DEFINE k == Sent(l, e)
<1>2. /\ k \in Link /\ k.last = l.last /\ k.todo = l.todo
      /\ \A i \in 1..Len(l.wire) : k.wire[i] = l.wire[i]
      /\ k.wire[Len(l.wire) + 1] = e
      /\ DOMAIN k.wire = 1..(Len(l.wire) + 1)
  BY <1>1, SentIs, SentHolds
<1> HIDE DEF k
<1>3. \A i \in DOMAIN k.wire : k.wire[i].row <= Len(events)
  <2>. SUFFICES ASSUME NEW i \in DOMAIN k.wire PROVE k.wire[i].row <= Len(events)
    OBVIOUS
  <2>1. CASE i \in 1..Len(l.wire)
    BY <1>1, <1>2, <2>1 DEF Fits
  <2>2. CASE i = Len(l.wire) + 1
    BY <1>2, <2>2
  <2>. QED BY <1>1, <1>2, <2>1, <2>2
<1>4. Fits(k)
  BY <1>2, <1>3 DEF Fits
<1>. QED BY <1>4 DEF k

\* A handler that ends.
LEMMA EndedFits ==
  ASSUME TypeOK, NEW l, Fits(l)
  PROVE  Fits(Ended(l)) /\ (Gapless(l) => Gapless(Ended(l)))
<1>1. l \in Link /\ Len(events) \in Nat
  BY DEF Fits, TypeOK
<1>2. /\ Ended(l) \in Link /\ Ended(l).session = l.session /\ Ended(l).last = 0
      /\ Ended(l).todo = {} /\ Ended(l).wire = l.wire
  BY <1>1, EndedIs
<1>3. Fits(Ended(l))
  BY <1>1, <1>2 DEF Fits
<1>4. Gapless(l) => Gapless(Ended(l))
  BY <1>1, <1>2, SameWire
<1>. QED BY <1>3, <1>4

\* The number of messages does not change with the others.
LEMMA SameSent ==
  ASSUME TypeOK, UNCHANGED sent
  PROVE  sent' \in 0..MaxMessages
  BY DEF TypeOK

\* A connection that is refused gets one reply.
LEMMA RefuseStep ==
  ASSUME StreamInv, NEW k \in Socket, Refuse(k)
  PROVE  StreamInv' /\ Quiet
<1> DEFINE said == Sent(link[k], Reply(1))
<1>1. TypeOK /\ Fits(link[k]) /\ link[k] \in Link
  BY SocketTypes DEF StreamInv, Fits
<1>2. Reply(1) \in Envelope /\ Reply(1).row = 0 /\ 0 <= Len(events)
  BY <1>1, EnvelopeIs, SocketTypes
<1>3. Fits(said)
  BY <1>1, <1>2, SentFits
<1>4. Gapless(link[k]) => Gapless(said)
  BY <1>1, ReplyGapless
<1> HIDE DEF said
<1>5. Fits(Ended(said)) /\ (Gapless(link[k]) => Gapless(Ended(said)))
  BY <1>1, <1>3, <1>4, EndedFits
<1>6. link' = [link EXCEPT ![k] = Ended(said)] /\ Quiet /\ UNCHANGED <<socket, sent>>
  BY DEF Refuse, said, Quiet
<1>. QED BY <1>1, <1>5, <1>6, SameSent, LinkStep DEF Quiet

\* The handler of a socket that was replaced ends.
LEMMA HangUpStep ==
  ASSUME StreamInv, NEW k \in Socket, HangUp(k)
  PROVE  StreamInv' /\ Quiet
<1>1. TypeOK /\ Fits(link[k])
  BY SocketTypes DEF StreamInv
<1>2. Fits(Ended(link[k])) /\ (Gapless(link[k]) => Gapless(Ended(link[k])))
  BY <1>1, EndedFits
<1>3. link' = [link EXCEPT ![k] = Ended(link[k])] /\ Quiet /\ UNCHANGED <<socket, sent>>
  BY DEF HangUp, Quiet
<1>. QED BY <1>1, <1>2, <1>3, SameSent, LinkStep DEF Quiet

\* A row of the page goes out.
LEMMA SendRowStep ==
  ASSUME StreamInv, NEW k \in Socket, SendRow(k)
  PROVE  StreamInv' /\ Quiet
<1>1. TypeOK /\ Fits(link[k]) /\ link[k] \in Link
  BY SocketTypes DEF StreamInv, Fits
<1>2. PICK n \in Oldest(link[k].todo) :
        LET l == Advanced(Sent(link[k], Persisted(n)), n)
        IN  link' = [link EXCEPT ![k] = Paged([l EXCEPT !.todo = @ \ {n}], l.pc)]
  BY DEF SendRow
<1>3. n \in link[k].todo /\ n \in Nat /\ n <= Len(events)
  BY <1>1, <1>2, SocketTypes DEF Oldest, Fits
<1>4. Persisted(n) \in Envelope /\ Persisted(n).row = n
  BY <1>3, EnvelopeIs
<1> DEFINE said == Sent(link[k], Persisted(n))
           moved == Advanced(said, n)
           shorter == [moved EXCEPT !.todo = @ \ {n}]
           l == Paged(shorter, moved.pc)
<1>5. link' = [link EXCEPT ![k] = l]
  BY <1>2
<1>6. Fits(said)
  BY <1>1, <1>3, <1>4, SentFits
<1>7. /\ said \in Link /\ said.session = link[k].session /\ said.last = link[k].last
      /\ said.todo = link[k].todo /\ said.pc = link[k].pc
  BY <1>1, <1>4, SentIs
<1>8. /\ moved \in Link /\ moved.session = link[k].session
      /\ moved.last = IF link[k].last > n THEN link[k].last ELSE n
      /\ moved.todo = link[k].todo /\ moved.wire = said.wire /\ moved.pc = link[k].pc
  BY <1>3, <1>7, AdvancedIs
<1> HIDE DEF said, moved
<1>9. /\ shorter \in Link /\ shorter.session = link[k].session /\ shorter.last = moved.last
      /\ shorter.todo = link[k].todo \ {n} /\ shorter.wire = said.wire
  BY <1>8 DEF Link
<1> HIDE DEF shorter
<1>10. /\ l \in Link /\ l.session = link[k].session /\ l.last = moved.last
      /\ l.todo = link[k].todo \ {n} /\ l.wire = said.wire
  <2>1. l.session = shorter.session /\ l.last = shorter.last /\ l.todo = shorter.todo
        /\ l.wire = shorter.wire /\ l \in Link
    BY <1>1, <1>8, <1>9 DEF Paged, Link
  <2>. QED BY <1>9, <2>1
<1> HIDE DEF l
<1>11. Fits(l)
  <2>1. l.last <= Len(events)
    BY <1>1, <1>3, <1>8, <1>10 DEF Fits
  <2>2. l.todo \subseteq DOMAIN events
    BY <1>1, <1>10 DEF Fits
  <2>3. \A i \in DOMAIN l.wire : l.wire[i].row <= Len(events)
    BY <1>6, <1>10 DEF Fits
  <2>. QED BY <1>10, <2>1, <2>2, <2>3 DEF Fits
<1>12. Gapless(link[k]) => Gapless(l)
  BY <1>1, <1>2, <1>8, <1>10, RowGapless DEF said
<1>13. Quiet /\ UNCHANGED <<socket, sent>>
  BY DEF SendRow, Quiet
<1>. QED BY <1>1, <1>11, <1>12, <1>5, <1>13, SameSent, LinkStep DEF Quiet

\* The next page is read.
LEMMA PollStep ==
  ASSUME StreamInv, NEW k \in Socket, Poll(k)
  PROVE  StreamInv' /\ Quiet
<1> DEFINE rows == Rows(link[k].session, link[k].last, PageLimit)
           l == [link[k] EXCEPT !.todo = rows, !.pc = "polling"]
<1>1. /\ TypeOK /\ Fits(link[k]) /\ link[k] \in Link /\ link[k].last \in Nat
      /\ PageLimit \in Nat
  BY SocketTypes, StreamAssumption DEF StreamInv, Fits
<1>2. link' = [link EXCEPT ![k] = l] /\ Quiet /\ UNCHANGED <<socket, sent>>
  BY DEF Poll, PollFrom, Quiet
<1>3. /\ rows \subseteq OfSession(link[k].session) /\ rows \subseteq DOMAIN events
      /\ \A n \in rows, m \in OfSession(link[k].session) :
           m < n /\ m > link[k].last => m \in rows
  BY <1>1, RowsInOrder DEF TypeOK
<1>4. DOMAIN events \subseteq Nat
  BY <1>1, SocketTypes
<1> HIDE DEF rows
<1>5. /\ l \in Link /\ l.session = link[k].session /\ l.last = link[k].last
      /\ l.todo = rows /\ l.wire = link[k].wire
  BY <1>1, <1>3, <1>4 DEF Link
<1> HIDE DEF l
<1>6. Fits(l)
  BY <1>1, <1>3, <1>5 DEF Fits
<1>7. Gapless(link[k]) => Gapless(l)
  <2>. SUFFICES ASSUME Gapless(link[k]) PROVE Gapless(l)
    OBVIOUS
  <2>1. link[k].session = session /\ \A m \in OfSession(session) : m \in Nat
    BY <1>1, <1>4 DEF Gapless, OfSession
  <2>2. ASSUME NEW n \in l.todo
        PROVE  /\ n \in OfSession(session)
               /\ \A m \in OfSession(session) :
                    m < n => m \in ToSet(taken) \cup OnWire(link[k]) \cup l.todo
    <3>. SUFFICES ASSUME NEW m \in OfSession(session), m < n
                  PROVE  m \in ToSet(taken) \cup OnWire(link[k]) \cup l.todo
      BY <1>3, <1>5, <2>1, <2>2
    <3>1. CASE m <= link[k].last
      BY <3>1 DEF Gapless
    <3>2. CASE m > link[k].last
      BY <1>3, <1>5, <2>1, <2>2, <3>2
    <3>. QED BY <1>1, <2>1, <3>1, <3>2
  <2>. QED BY <1>1, <1>5, <2>2, SameWire
<1>. QED BY <1>1, <1>2, <1>6, <1>7, SameSent, LinkStep DEF Quiet

\* A message of the client, answered or not.
LEMMA ReceiveStep ==
  ASSUME StreamInv, NEW k \in Socket, Receive(k)
  PROVE  StreamInv' /\ Quiet
<1> DEFINE l == [link[k] EXCEPT !.inbox = Tail(@)]
           said == Sent(l, Reply(l.sequence + 1))
           answered == [said EXCEPT !.sequence = @ + 1]
<1>1. TypeOK /\ Fits(link[k]) /\ link[k] \in Link /\ link[k].inbox # <<>>
  BY SocketTypes DEF StreamInv, Fits, Receive
<1>2. Tail(link[k].inbox) \in Seq({"ping", "terminal", "broken"})
  BY <1>1 DEF Link
<1>3. /\ l \in Link /\ l.session = link[k].session /\ l.last = link[k].last
      /\ l.todo = link[k].todo /\ l.wire = link[k].wire /\ l.sequence \in Nat
  BY <1>1, <1>2 DEF Link
<1> HIDE DEF l
<1>4. Fits(l) /\ (Gapless(link[k]) => Gapless(l))
  <2>1. Fits(l)
    BY <1>1, <1>3 DEF Fits
  <2>2. Gapless(link[k]) => \A n \in l.todo :
           /\ n \in OfSession(session)
           /\ \A m \in OfSession(session) :
                m < n => m \in ToSet(taken) \cup OnWire(link[k]) \cup l.todo
    BY <1>3 DEF Gapless
  <2>. QED BY <1>1, <1>3, <2>1, <2>2, SameWire
<1>5. l.sequence + 1 \in Nat /\ 0 <= Len(events)
  BY <1>1, <1>3, SocketTypes
<1>6. Reply(l.sequence + 1) \in Envelope /\ Reply(l.sequence + 1).row = 0
  BY <1>5, EnvelopeIs
<1>7. Fits(said) /\ (Gapless(link[k]) => Gapless(said))
  <2>1. Fits(said)
    BY <1>1, <1>4, <1>5, <1>6, SentFits
  <2>. QED BY <1>1, <1>3, <1>4, <1>5, <2>1, ReplyGapless
<1>8. said \in Link
  BY <1>7 DEF Fits
<1> HIDE DEF said
<1>9. /\ answered \in Link /\ answered.session = said.session /\ answered.last = said.last
      /\ answered.todo = said.todo /\ answered.wire = said.wire
  BY <1>8 DEF Link
<1> HIDE DEF answered
<1>10. Fits(answered) /\ (Gapless(link[k]) => Gapless(answered))
  <2>1. Fits(answered)
    BY <1>7, <1>9 DEF Fits
  <2>2. Gapless(said) => \A n \in answered.todo :
           /\ n \in OfSession(session)
           /\ \A m \in OfSession(session) :
                m < n => m \in ToSet(taken) \cup OnWire(said) \cup answered.todo
    BY <1>9 DEF Gapless
  <2>. QED BY <1>1, <1>7, <1>8, <1>9, <2>1, <2>2, SameWire
<1>11. Fits(Ended(answered)) /\ (Gapless(link[k]) => Gapless(Ended(answered)))
  BY <1>1, <1>10, EndedFits
<1>12. /\ \/ link' = [link EXCEPT ![k] = answered]
          \/ link' = [link EXCEPT ![k] = l]
          \/ link' = [link EXCEPT ![k] = Ended(answered)]
       /\ Quiet /\ UNCHANGED <<socket, sent>>
  BY DEF Receive, Quiet, l, said, answered
<1>. QED BY <1>1, <1>4, <1>10, <1>11, <1>12, SameSent, LinkStep DEF Quiet

\* The client sends a message.
LEMMA SendStep ==
  ASSUME StreamInv, NEW kind \in {"ping", "terminal", "broken"}, Send(kind)
  PROVE  StreamInv' /\ Quiet
<1> DEFINE l == [link[socket] EXCEPT !.inbox = Append(@, kind)]
<1>1. TypeOK /\ socket \in Socket /\ Fits(link[socket]) /\ link[socket] \in Link
  BY SocketTypes DEF StreamInv, Fits, TypeOK, Send
<1>2. Append(link[socket].inbox, kind) \in Seq({"ping", "terminal", "broken"})
  BY <1>1 DEF Link
<1>3. /\ l \in Link /\ l.session = link[socket].session /\ l.last = link[socket].last
      /\ l.todo = link[socket].todo /\ l.wire = link[socket].wire
  BY <1>1, <1>2 DEF Link
<1>4. link' = [link EXCEPT ![socket] = l] /\ Quiet /\ UNCHANGED socket
  BY DEF Send, Quiet
<1>5. sent' \in 0..MaxMessages
  BY <1>1, StreamAssumption DEF Send, TypeOK
<1> HIDE DEF l
<1>6. Fits(l)
  BY <1>1, <1>3 DEF Fits
<1>7. Gapless(link[socket]) => \A n \in l.todo :
        /\ n \in OfSession(session)
        /\ \A m \in OfSession(session) :
             m < n => m \in ToSet(taken) \cup OnWire(link[socket]) \cup l.todo
  BY <1>3 DEF Gapless
<1>8. Gapless(link[socket]) => Gapless(l)
  BY <1>1, <1>3, <1>7, SameWire
<1>. QED BY <1>1, <1>4, <1>5, <1>6, <1>8, LinkStep DEF Quiet

\* A socket breaks, or the client has read all of a closed one.
LEMMA ClosesStep ==
  ASSUME StreamInv, NEW k \in Socket, Closes(k)
  PROVE  StreamInv' /\ Quiet
<1> DEFINE cut == [link[k] EXCEPT !.wire = <<>>]
<1>1. /\ TypeOK /\ Fits(link[k]) /\ link[k] \in Link /\ NoSocket \notin Socket
      /\ link \in Seq(Link) /\ DOMAIN link = Socket
  BY SocketTypes DEF StreamInv, Fits, TypeOK
<1>2. Quiet /\ socket' = NoSocket /\ UNCHANGED sent
  BY DEF Closes, Quiet
<1>3. CASE link' = [link EXCEPT ![k] = Ended(cut)]
  <2>1. cut \in Link /\ cut.last = link[k].last /\ cut.todo = link[k].todo /\ cut.wire = <<>>
    <3>1. <<>> \in Seq(Envelope)
      OBVIOUS
    <3>. QED BY <1>1, <3>1 DEF Link
  <2> HIDE DEF cut
  <2>2. Fits(cut)
    BY <1>1, <2>1 DEF Fits
  <2>3. Fits(Ended(cut))
    BY <1>1, <2>2, EndedFits
  <2>. QED BY <1>1, <1>2, <1>3, <2>3, SameSent, LinkStep DEF Quiet
<1>4. CASE UNCHANGED link
  <2>1. link' = [link EXCEPT ![k] = link[k]]
    BY <1>1, <1>4
  <2>. QED BY <1>1, <1>2, <2>1, SameSent, LinkStep DEF Quiet
<1>. QED BY <1>3, <1>4 DEF Closes
-----------------------------------------------------------------------------
(* The client takes a message.                                             *)

\* What is left of a wire whose first envelope was taken.
LEMMA TailHolds ==
  ASSUME NEW l \in Link, l.wire # <<>>, NEW k \in Link, k.wire = Tail(l.wire)
  PROVE  /\ DOMAIN l.wire = 1..Len(l.wire) /\ Len(l.wire) \in Nat \ {0}
         /\ DOMAIN k.wire = 1..(Len(l.wire) - 1)
         /\ \A i \in DOMAIN k.wire : k.wire[i] = l.wire[i + 1]
         /\ l.wire[1] = Head(l.wire) /\ l.wire[1] \in Envelope
         /\ Before(l, 1) = {}
         /\ OnWire(l) = {l.wire[1].row} \cup OnWire(k)
         /\ \A i \in DOMAIN k.wire : Before(l, i + 1) = {l.wire[1].row} \cup Before(k, i)
<1>1. l.wire \in Seq(Envelope) /\ k.wire \in Seq(Envelope)
  BY DEF Link
<1>2. /\ DOMAIN l.wire = 1..Len(l.wire) /\ Len(l.wire) \in Nat \ {0}
      /\ DOMAIN k.wire = 1..(Len(l.wire) - 1)
      /\ \A i \in DOMAIN k.wire : k.wire[i] = l.wire[i + 1]
      /\ l.wire[1] = Head(l.wire) /\ l.wire[1] \in Envelope
  BY <1>1
<1>3. Before(l, 1) = {}
  BY <1>2 DEF Before
<1>4. \A i \in DOMAIN k.wire : Before(l, i + 1) = {l.wire[1].row} \cup Before(k, i)
  <2>. SUFFICES ASSUME NEW i \in DOMAIN k.wire
                PROVE  Before(l, i + 1) = {l.wire[1].row} \cup Before(k, i)
    OBVIOUS
  <2>1. ASSUME NEW row PROVE row \in Before(l, i + 1) => row \in {l.wire[1].row} \cup Before(k, i)
    <3>. SUFFICES ASSUME NEW j \in DOMAIN l.wire, j < i + 1, row = l.wire[j].row
                  PROVE  row \in {l.wire[1].row} \cup Before(k, i)
      BY DEF Before
    <3>1. CASE j = 1
      BY <3>1
    <3>2. CASE j # 1
      <4>1. j - 1 \in DOMAIN k.wire /\ j - 1 < i /\ k.wire[j - 1] = l.wire[j]
        BY <1>2, <3>2
      <4>. QED BY <4>1 DEF Before
    <3>. QED BY <3>1, <3>2
  <2>2. ASSUME NEW row PROVE row \in {l.wire[1].row} \cup Before(k, i) => row \in Before(l, i + 1)
    <3>1. l.wire[1].row \in Before(l, i + 1)
      <4>1. 1 \in DOMAIN l.wire /\ 1 < i + 1
        BY <1>2
      <4>. QED BY <4>1 DEF Before
    <3>2. ASSUME NEW j \in DOMAIN k.wire, j < i, row = k.wire[j].row
          PROVE  row \in Before(l, i + 1)
      <4>1. j + 1 \in DOMAIN l.wire /\ j + 1 < i + 1 /\ l.wire[j + 1] = k.wire[j]
        BY <1>2, <3>2
      <4>. QED BY <3>2, <4>1 DEF Before
    <3>. QED BY <3>1, <3>2 DEF Before
  <2>. QED BY <2>1, <2>2
<1>5. OnWire(l) = {l.wire[1].row} \cup OnWire(k)
  <2>1. ASSUME NEW j \in DOMAIN l.wire PROVE l.wire[j].row \in {l.wire[1].row} \cup OnWire(k)
    <3>1. CASE j = 1
      BY <3>1
    <3>2. CASE j # 1
      <4>1. j - 1 \in DOMAIN k.wire /\ k.wire[j - 1] = l.wire[j]
        BY <1>2, <3>2
      <4>. QED BY <4>1 DEF OnWire
    <3>. QED BY <3>1, <3>2
  <2>2. ASSUME NEW j \in DOMAIN k.wire PROVE k.wire[j].row \in OnWire(l)
    <3>1. j + 1 \in DOMAIN l.wire /\ l.wire[j + 1] = k.wire[j]
      BY <1>2
    <3>. QED BY <3>1 DEF OnWire
  <2>3. l.wire[1].row \in OnWire(l)
    BY <1>2 DEF OnWire
  <2>. QED BY <2>1, <2>2, <2>3 DEF OnWire
<1>. QED BY <1>2, <1>3, <1>4, <1>5

\* Without its first envelope a link fits as well.
LEMMA TailFits ==
  ASSUME TypeOK, NEW l, Fits(l), l.wire # <<>>
  PROVE  LET k == [l EXCEPT !.wire = Tail(@)]
         IN  /\ Fits(k) /\ k \in Link /\ k.wire = Tail(l.wire)
             /\ k.session = l.session /\ k.last = l.last /\ k.todo = l.todo
<1> DEFINE k == [l EXCEPT !.wire = Tail(@)]
<1>1. l \in Link /\ Tail(l.wire) \in Seq(Envelope)
  BY DEF Fits, Link
<1>2. /\ k \in Link /\ k.wire = Tail(l.wire) /\ k.session = l.session /\ k.last = l.last
      /\ k.todo = l.todo
  BY <1>1 DEF Link
<1> HIDE DEF k
<1>3. \A i \in DOMAIN k.wire : k.wire[i].row <= Len(events)
  <2>. SUFFICES ASSUME NEW i \in DOMAIN k.wire PROVE k.wire[i].row <= Len(events)
    OBVIOUS
  <2>1. k.wire[i] = l.wire[i + 1] /\ i + 1 \in DOMAIN l.wire
    BY <1>1, <1>2, TailHolds
  <2>. QED BY <2>1 DEF Fits
<1>4. Fits(k)
  BY <1>2, <1>3 DEF Fits
<1>5. /\ Fits(k) /\ k \in Link /\ k.wire = Tail(l.wire)
      /\ k.session = l.session /\ k.last = l.last /\ k.todo = l.todo
  BY <1>2, <1>4
<1>. QED BY <1>5 DEF k

\* An envelope that is dropped was a reply or had been taken.
LEMMA DroppedGapless ==
  ASSUME TypeOK, NEW l \in Link, Gapless(l), l.wire # <<>>, NEW k \in Link, k.wire = Tail(l.wire),
         k.session = l.session, k.last = l.last, k.todo = l.todo,
         l.wire[1].row \in ToSet(taken) \cup {0}
  PROVE  Gapless(k)
<1>1. /\ \A i \in DOMAIN k.wire : i + 1 \in DOMAIN l.wire /\ k.wire[i] = l.wire[i + 1]
      /\ OnWire(l) = {l.wire[1].row} \cup OnWire(k)
      /\ \A i \in DOMAIN k.wire : Before(l, i + 1) = {l.wire[1].row} \cup Before(k, i)
  BY TailHolds
<1>2. \A m \in OfSession(session) : m # 0
  BY DEF OfSession, TypeOK
<1>3. ASSUME NEW i \in DOMAIN k.wire, k.wire[i].row # 0
      PROVE  /\ k.wire[i].row \in OfSession(session)
             /\ \A m \in OfSession(session) :
                  m < k.wire[i].row => m \in ToSet(taken) \cup Before(k, i)
  <2>1. /\ l.wire[i + 1].row \in OfSession(session)
        /\ \A m \in OfSession(session) :
             m < l.wire[i + 1].row => m \in ToSet(taken) \cup Before(l, i + 1)
    BY <1>1, <1>3 DEF Gapless
  <2>. QED BY <1>1, <1>2, <2>1
<1>4. ASSUME NEW n \in k.todo
      PROVE  /\ n \in OfSession(session)
             /\ \A m \in OfSession(session) :
                  m < n => m \in ToSet(taken) \cup OnWire(k) \cup k.todo
  <2>1. /\ n \in OfSession(session)
        /\ \A m \in OfSession(session) :
             m < n => m \in ToSet(taken) \cup OnWire(l) \cup l.todo
    BY <1>4 DEF Gapless
  <2>. QED BY <1>1, <1>2, <2>1
<1>5. \A m \in OfSession(session) : m <= k.last => m \in ToSet(taken) \cup OnWire(k)
  <2>1. \A m \in OfSession(session) : m <= l.last => m \in ToSet(taken) \cup OnWire(l)
    BY DEF Gapless
  <2>. QED BY <1>1, <1>2, <2>1
<1>6. k.session = session
  BY DEF Gapless
<1>. QED BY <1>3, <1>4, <1>5, <1>6 DEF Gapless

\* The same, when the row is taken by this step.
LEMMA TakenGapless ==
  ASSUME TypeOK, NEW l \in Link, Gapless(l), l.wire # <<>>, NEW k \in Link, k.wire = Tail(l.wire),
         k.session = l.session, k.last = l.last, k.todo = l.todo,
         UNCHANGED <<events, session>>,
         ToSet(taken') = ToSet(taken) \cup {l.wire[1].row}
  PROVE  Gapless(k)'
<1>1. /\ \A i \in DOMAIN k.wire : i + 1 \in DOMAIN l.wire /\ k.wire[i] = l.wire[i + 1]
      /\ OnWire(l) = {l.wire[1].row} \cup OnWire(k)
      /\ \A i \in DOMAIN k.wire : Before(l, i + 1) = {l.wire[1].row} \cup Before(k, i)
  BY TailHolds
<1>2. /\ OfSession(session)' = OfSession(session) /\ OnWire(k)' = OnWire(k)
      /\ \A i : Before(k, i)' = Before(k, i)
      /\ ToSet(taken)' = ToSet(taken')
  BY DEF OfSession, OnWire, Before, ToSet
<1>3. ASSUME NEW i \in DOMAIN k.wire, k.wire[i].row # 0
      PROVE  /\ k.wire[i].row \in OfSession(session)
             /\ \A m \in OfSession(session) :
                  m < k.wire[i].row => m \in ToSet(taken') \cup Before(k, i)
  <2>1. /\ l.wire[i + 1].row \in OfSession(session)
        /\ \A m \in OfSession(session) :
             m < l.wire[i + 1].row => m \in ToSet(taken) \cup Before(l, i + 1)
    BY <1>1, <1>3 DEF Gapless
  <2>. QED BY <1>1, <2>1
<1>4. ASSUME NEW n \in k.todo
      PROVE  /\ n \in OfSession(session)
             /\ \A m \in OfSession(session) :
                  m < n => m \in ToSet(taken') \cup OnWire(k) \cup k.todo
  <2>1. /\ n \in OfSession(session)
        /\ \A m \in OfSession(session) :
             m < n => m \in ToSet(taken) \cup OnWire(l) \cup l.todo
    BY <1>4 DEF Gapless
  <2>. QED BY <1>1, <2>1
<1>5. \A m \in OfSession(session) : m <= k.last => m \in ToSet(taken') \cup OnWire(k)
  <2>1. \A m \in OfSession(session) : m <= l.last => m \in ToSet(taken) \cup OnWire(l)
    BY DEF Gapless
  <2>. QED BY <1>1, <2>1
<1>6. k.session = session'
  BY DEF Gapless
<1>. QED BY <1>2, <1>3, <1>4, <1>5, <1>6 DEF Gapless

\* A row of the table is an event of a turn.
LEMMA EventIs ==
  ASSUME TypeOK, NEW n \in DOMAIN events
  PROVE  events[n].turn \in Turn /\ n \in Nat
<1>1. events \in Seq([turn : Turn, kind : Kind]) /\ n \in 1..Len(events)
  BY DEF TypeOK
<1>2. events[n] \in [turn : Turn, kind : Kind]
  BY <1>1, ElementOfSeq
<1>. QED BY <1>1, <1>2

\* Appending to what the client has taken.
LEMMA AppendTaken ==
  ASSUME NEW S, taken \in Seq(S), NEW n \in S
  PROVE  /\ Append(taken, n) \in Seq(S)
         /\ ToSet(Append(taken, n)) = ToSet(taken) \cup {n}
<1>1. /\ Append(taken, n) \in Seq(S) /\ Len(taken) \in Nat
      /\ DOMAIN taken = 1..Len(taken)
      /\ DOMAIN Append(taken, n) = 1..(Len(taken) + 1)
      /\ \A i \in 1..Len(taken) : Append(taken, n)[i] = taken[i]
      /\ Append(taken, n)[Len(taken) + 1] = n
  OBVIOUS
<1>2. ToSet(Append(taken, n)) = ToSet(taken) \cup {n}
  BY <1>1 DEF ToSet
<1>. QED BY <1>1, <1>2

\* The next event of the session, as it comes to the head of the wire.
LEMMA NextIs ==
  ASSUME StreamInv, NEW k \in Socket, k = socket, link[k].wire # <<>>,
         link[k].wire[1].row # 0, IsNew(link[k].wire[1].row)
  PROVE  LET n == link[k].wire[1].row
         IN  /\ n \in OfSession(session) /\ n \in DOMAIN events /\ n \notin ToSet(taken)
             /\ \A m \in OfSession(session) \ ToSet(taken) : n <= m
             /\ \A m \in ToSet(taken) : m < n
<1> DEFINE n == link[k].wire[1].row
<1>1. /\ TypeOK /\ link[k] \in Link /\ Fits(link[k]) /\ socket # NoSocket
      /\ DOMAIN events \subseteq Nat
  BY SocketTypes DEF StreamInv, Fits
<1>2. Gapless(link[k])
  BY <1>1 DEF StreamInv, Delivered
<1>3. /\ 1 \in DOMAIN link[k].wire /\ Before(link[k], 1) = {}
  <2>1. [link[k] EXCEPT !.wire = Tail(@)] \in Link
        /\ [link[k] EXCEPT !.wire = Tail(@)].wire = Tail(link[k].wire)
    BY <1>1, TailFits
  <2>2. /\ DOMAIN link[k].wire = 1..Len(link[k].wire) /\ Len(link[k].wire) \in Nat \ {0}
        /\ Before(link[k], 1) = {}
    BY <1>1, <2>1, TailHolds
  <2>. QED BY <2>2
<1>4. n \in OfSession(session) /\ \A m \in OfSession(session) : m < n => m \in ToSet(taken)
  BY <1>2, <1>3 DEF Gapless
<1>5. n \in DOMAIN events /\ n \notin ToSet(taken)
  BY <1>4 DEF OfSession, IsNew
<1> HIDE DEF n
<1>6. ASSUME NEW m \in OfSession(session) \ ToSet(taken) PROVE n <= m
  BY <1>1, <1>4, <1>5 DEF OfSession
<1>7. ASSUME NEW m \in ToSet(taken) PROVE m < n
  <2>1. m \in OfSession(session) /\ (n < m => n \in ToSet(taken))
    BY <1>4 DEF StreamInv, Prefix
  <2>. QED BY <1>1, <1>5, <2>1 DEF OfSession
<1>8. /\ n \in OfSession(session) /\ n \in DOMAIN events /\ n \notin ToSet(taken)
      /\ \A m \in OfSession(session) \ ToSet(taken) : n <= m
      /\ \A m \in ToSet(taken) : m < n
  BY <1>4, <1>5, <1>6, <1>7
<1>. QED BY <1>8 DEF n

\* A turn still shows its answer alone with one more of its steps.
LEMMA StillAlone ==
  ASSUME StreamInv, NEW n \in DOMAIN events, \A m \in ToSet(taken) : m < n,
         NEW c \in WithStep(events[n].turn, n), events[c].kind = "conversation.completed",
         NEW x \in WithStep(events[n].turn, n), Answer(x)
  PROVE  x = c
<1> DEFINE t == events[n].turn
<1>0. t \in Turn /\ TypeOK /\ Alone /\ Answered /\ DOMAIN events \subseteq Nat
  BY EventIs DEF StreamInv
<1> HIDE DEF t
<1>1. WithStep(t, n) \subseteq chat[t] \cup {n}
  BY DEF WithStep
<1>2. ASSUME NEW m \in chat[t]
      PROVE  m \in DOMAIN events /\ m < n /\ events[m].turn = events[n].turn
  BY <1>0, <1>2 DEF Alone, StreamInv, TypeOK, t
<1>3. ASSUME NEW m \in chat[t], events[m].kind = "conversation.completed"
      PROVE  /\ events[n].kind \in {"agent.summary", "workflow.completed"}
             /\ m \in Shown(t, "conversation.completed")
  BY <1>0, <1>2, <1>3 DEF Answered, Shown
<1>4. ASSUME NEW m \in chat[t], events[m].kind = "agent.summary"
      PROVE  events[n].kind = "workflow.completed"
  BY <1>0, <1>2, <1>4 DEF Answered
<1>5. CASE c # n
  <2>1. c \in chat[t]
    BY <1>1, <1>5 DEF t
  <2>2. c \in Shown(t, "conversation.completed")
        /\ events[n].kind \in {"agent.summary", "workflow.completed"}
    BY <1>3, <2>1
  <2>3. x \in chat[t]
    <3>1. CASE events[n].kind = "agent.summary"
      BY <2>2, <3>1 DEF WithStep, t
    <3>2. CASE events[n].kind = "workflow.completed"
      BY <1>1, <3>2 DEF Answer, t
    <3>. QED BY <2>2, <3>1, <3>2
  <2>. QED BY <1>0, <2>2, <2>3 DEF Alone
<1>6. CASE c = n
  <2>1. events[n].kind = "conversation.completed"
    BY <1>6
  <2>2. WithStep(t, n) = (chat[t] \ Shown(t, "conversation.delta")) \cup {n}
    BY <2>1 DEF WithStep
  <2>3. CASE x # n
    <3>1. x \in chat[t] /\ events[x].kind # "conversation.delta"
      BY <2>2, <2>3 DEF Shown, t
    <3>. QED BY <1>3, <1>4, <2>1, <3>1 DEF Answer
  <2>. QED BY <1>6, <2>3
<1>. QED BY <1>5, <1>6

\* The client takes the next event.
LEMMA TakenStep ==
  ASSUME StreamInv, NEW k \in Socket, k = socket, Dispatch(k), link[k].wire # <<>>,
         link[k].wire[1].row # 0, IsNew(link[k].wire[1].row)
  PROVE  StreamInv' /\ Feed!TakeNext
<1> DEFINE n == link[k].wire[1].row
           t == events[n].turn
           l == [link[k] EXCEPT !.wire = Tail(@)]
<1>1. /\ TypeOK /\ link[k] \in Link /\ Fits(link[k]) /\ socket # NoSocket
      /\ DOMAIN events \subseteq Nat /\ link \in Seq(Link)
  BY SocketTypes DEF StreamInv, Fits, TypeOK
<1>2. /\ Fits(l) /\ l \in Link /\ l.wire = Tail(link[k].wire)
      /\ l.session = link[k].session /\ l.last = link[k].last /\ l.todo = link[k].todo
  BY <1>1, TailFits
<1>3. Head(link[k].wire) = link[k].wire[1]
  BY <1>1, <1>2, TailHolds
<1>4. /\ link' = [link EXCEPT ![k] = l]
      /\ taken' = Append(taken, n) /\ chat' = [chat EXCEPT ![t] = WithStep(t, n)]
      /\ UNCHANGED <<events, socket, session, sent>>
  <2>1. Listening(k)
    BY DEF Listening
  <2>. QED BY <1>3, <2>1 DEF Dispatch
<1>5. /\ n \in OfSession(session) /\ n \in DOMAIN events /\ n \notin ToSet(taken)
      /\ \A m \in OfSession(session) \ ToSet(taken) : n <= m
      /\ \A m \in ToSet(taken) : m < n
  BY NextIs
<1>6. t \in Turn
  BY <1>1, <1>5, EventIs
<1>7. /\ taken' \in Seq(DOMAIN events) /\ ToSet(taken') = ToSet(taken) \cup {n}
  BY <1>1, <1>4, <1>5, AppendTaken DEF TypeOK
<1>8. WithStep(t, n) \subseteq chat[t] \cup {n}
  BY DEF WithStep
<1>9. \A u \in Turn : chat'[u] = IF u = t THEN WithStep(t, n) ELSE chat[u]
  BY <1>1, <1>4, <1>6 DEF TypeOK
<1>10. /\ link' \in Seq(Link) /\ Socket' = Socket
       /\ \A h \in Socket : link'[h] = IF h = k THEN l ELSE link[h]
  BY <1>1, <1>2, <1>4, ExceptSeq DEF Socket
<1>11. TypeOK'
  <2>1. \A h \in Socket : Fits(link'[h])
    BY <1>1, <1>2, <1>10, SocketTypes
  <2>2. \A h \in Socket' :
          /\ link'[h].last <= Len(events)
          /\ link'[h].todo \subseteq DOMAIN events
          /\ \A i \in DOMAIN link'[h].wire : link'[h].wire[i].row <= Len(events)
    BY <1>10, <2>1 DEF Fits
  <2>3. chat' \in [Turn -> SUBSET DOMAIN events]
    BY <1>1, <1>4, <1>5, <1>6, <1>8 DEF TypeOK
  <2>. QED BY <1>1, <1>4, <1>7, <1>10, <2>2, <2>3 DEF TypeOK
<1>12. OfSession(session)' = OfSession(session) /\ ToSet(taken)' = ToSet(taken')
  BY <1>4 DEF OfSession, ToSet
<1>13. Answered'
  BY <1>4 DEF StreamInv, Answered
<1>14. Prefix'
  <2>1. ToSet(taken') \subseteq OfSession(session)
    BY <1>5, <1>7 DEF StreamInv, Prefix
  <2>2. ASSUME NEW p \in ToSet(taken'), NEW m \in OfSession(session), m < p
        PROVE  m \in ToSet(taken')
    <3>1. CASE p \in ToSet(taken)
      BY <1>7, <2>2, <3>1 DEF StreamInv, Prefix
    <3>2. CASE p = n
      <4>1. m \in Nat /\ n \in Nat /\ (m \notin ToSet(taken) => n <= m)
        BY <1>1, <1>5 DEF OfSession
      <4>. QED BY <1>7, <2>2, <3>2, <4>1
    <3>. QED BY <1>7, <3>1, <3>2
  <2>. QED BY <1>12, <2>1, <2>2 DEF Prefix
<1>15. Delivered'
  <2>. SUFFICES ASSUME NEW m \in Link, socket' # NoSocket, m = link'[socket'] PROVE Gapless(m)'
    BY DEF Delivered
  <2>1. m = l
    BY <1>4, <1>10
  <2>2. Gapless(link[k])
    BY <1>1 DEF StreamInv, Delivered
  <2>3. /\ m.wire = Tail(link[k].wire) /\ m.session = link[k].session
        /\ m.last = link[k].last /\ m.todo = link[k].todo
    BY <1>2, <2>1
  <2>4. UNCHANGED <<events, session>>
    BY <1>4
  <2>. QED BY <1>1, <1>7, <2>2, <2>3, <2>4, TakenGapless
<1>16. Alone'
  <2>1. \A u \in Turn : \A m \in chat'[u] : m \in ToSet(taken') /\ events[m].turn = u
    <3>. SUFFICES ASSUME NEW u \in Turn, NEW m \in chat'[u]
                  PROVE  m \in ToSet(taken') /\ events[m].turn = u
      OBVIOUS
    <3>1. m \in chat[u] \/ (u = t /\ m = n)
      BY <1>8, <1>9
    <3>2. m \in chat[u] => m \in ToSet(taken) /\ events[m].turn = u
      BY DEF StreamInv, Alone
    <3>. QED BY <1>7, <3>1, <3>2
  <2>2. ASSUME NEW u \in Turn, NEW c \in chat'[u], NEW x \in chat'[u],
               events[c].kind = "conversation.completed", Answer(x)
        PROVE  x = c
    <3>1. CASE u = t
      BY <1>5, <1>9, <2>2, <3>1, StillAlone
    <3>2. CASE u # t
      <4>1. c \in Shown(u, "conversation.completed") /\ x \in chat[u]
        BY <1>9, <2>2, <3>2 DEF Shown
      <4>. QED BY <2>2, <4>1 DEF StreamInv, Alone
    <3>. QED BY <3>1, <3>2
  <2>3. /\ \A u \in Turn : Shown(u, "conversation.completed")' =
             {c \in chat'[u] : events[c].kind = "conversation.completed"}
        /\ \A x : Answer(x)' = Answer(x)
    BY <1>4 DEF Shown, Answer
  <2>4. ASSUME NEW u \in Turn
        PROVE  /\ \A m \in chat'[u] : m \in ToSet(taken)' /\ events'[m].turn = u
               /\ \A c \in Shown(u, "conversation.completed")', x \in chat'[u] :
                    Answer(x)' => x = c
    <3>1. \A m \in chat'[u] : m \in ToSet(taken)' /\ events'[m].turn = u
      BY <1>4, <1>12, <2>1
    <3>2. \A c \in Shown(u, "conversation.completed")', x \in chat'[u] :
            Answer(x)' => x = c
      BY <2>2, <2>3
    <3>. QED BY <3>1, <3>2
  <2>. QED BY <2>4 DEF Alone
<1>17. Feed!TakeNext
  <2>1. Feed!Of(session) = OfSession(session)
    BY DEF Feed!Of, OfSession
  <2>2. Feed!ToSet(taken) = ToSet(taken)
    BY DEF Feed!ToSet, ToSet
  <2>. QED BY <1>4, <1>5, <2>1, <2>2 DEF Feed!TakeNext
<1>. QED BY <1>11, <1>13, <1>14, <1>15, <1>16, <1>17 DEF StreamInv

\* The client takes a message, or drops it.
LEMMA DispatchStep ==
  ASSUME StreamInv, NEW k \in Socket, Dispatch(k)
  PROVE  StreamInv' /\ (Quiet \/ Feed!TakeNext)
<1> DEFINE l == [link[k] EXCEPT !.wire = Tail(@)]
<1>1. /\ TypeOK /\ link[k] \in Link /\ Fits(link[k]) /\ link[k].wire # <<>>
  BY SocketTypes DEF StreamInv, Fits, Dispatch
<1>2. /\ Fits(l) /\ l \in Link /\ l.wire = Tail(link[k].wire)
      /\ l.session = link[k].session /\ l.last = link[k].last /\ l.todo = link[k].todo
  BY <1>1, TailFits
<1>3. Head(link[k].wire) = link[k].wire[1]
  BY <1>1, <1>2, TailHolds
<1>4. CASE k = socket /\ link[k].wire[1].row # 0 /\ IsNew(link[k].wire[1].row)
  BY <1>1, <1>4, TakenStep
<1>5. CASE ~(k = socket /\ link[k].wire[1].row # 0 /\ IsNew(link[k].wire[1].row))
  <2>1. Quiet /\ link' = [link EXCEPT ![k] = l] /\ UNCHANGED <<socket, sent>>
    BY <1>3, <1>5 DEF Dispatch, Listening, Quiet
  <2>2. k = socket' /\ Gapless(link[k]) => Gapless(l)
    <3>. SUFFICES ASSUME k = socket', Gapless(link[k]) PROVE Gapless(l)
      OBVIOUS
    <3>1. link[k].wire[1].row \in ToSet(taken) \cup {0}
      BY <1>5, <2>1 DEF IsNew
    <3> HIDE DEF l
    <3>. QED BY <1>1, <1>2, <3>1, DroppedGapless
  <2> HIDE DEF l
  <2>. QED BY <1>1, <1>2, <2>1, <2>2, SameSent, LinkStep DEF Quiet
<1>. QED BY <1>4, <1>5
-----------------------------------------------------------------------------
(* An event is recorded.                                                   *)

\* The table grows by one row, whose kind may follow those of its turn.
LEMMA RecordIs ==
  ASSUME TypeOK, NEW t \in Turn, Record(t)
  PROVE  LET last == Len(events) + 1
         IN  /\ events' \in Seq([turn : Turn, kind : Kind])
             /\ DOMAIN events = 1..Len(events) /\ DOMAIN events' = 1..last
             /\ Len(events) \in Nat /\ Len(events') = last
             /\ \A n \in DOMAIN events : events'[n] = events[n]
             /\ events'[last].turn = t /\ events'[last].kind \in Follows(Recorded(t))
<1>1. PICK kind \in Follows(Recorded(t)) : events' = Append(events, NewEvent(t, kind))
  BY DEF Record
<1>2. kind \in Kind
  BY DEF Follows
<1>3. /\ NewEvent(t, kind) \in [turn : Turn, kind : Kind]
      /\ NewEvent(t, kind).turn = t /\ NewEvent(t, kind).kind = kind
  BY <1>2 DEF NewEvent
<1>4. events \in Seq([turn : Turn, kind : Kind])
  BY DEF TypeOK
<1> DEFINE e == NewEvent(t, kind)
<1> HIDE DEF e
<1>5. /\ Append(events, e) \in Seq([turn : Turn, kind : Kind])
      /\ DOMAIN events = 1..Len(events) /\ Len(events) \in Nat
      /\ DOMAIN Append(events, e) = 1..(Len(events) + 1)
      /\ Len(Append(events, e)) = Len(events) + 1
      /\ \A n \in 1..Len(events) : Append(events, e)[n] = events[n]
      /\ Append(events, e)[Len(events) + 1] = e
  BY <1>3, <1>4 DEF e
<1>. QED BY <1>1, <1>3, <1>5 DEF e

\* What a turn records keeps its answer last of its steps, but for its summary.
LEMMA FollowsIs ==
  ASSUME NEW recorded, NEW kind \in Follows(recorded)
  PROVE  /\ kind \in Kind
         /\ "conversation.completed" \in recorded => kind \in {"agent.summary", "workflow.completed"}
         /\ "agent.summary" \in recorded => kind = "workflow.completed"
  BY DEF Follows

\* A row more makes no gap: it comes after everything taken or under way.
LEMMA RecordStep ==
  ASSUME StreamInv, NEW t \in Turn, Record(t)
  PROVE  StreamInv' /\ Feed!LogEvent
<1> DEFINE last == Len(events) + 1
<1>1. /\ TypeOK /\ UNCHANGED <<link, socket, session, taken, chat, sent>>
  BY DEF StreamInv, Record
<1>2. /\ events' \in Seq([turn : Turn, kind : Kind])
      /\ DOMAIN events = 1..Len(events) /\ DOMAIN events' = 1..last
      /\ Len(events) \in Nat /\ Len(events') = last
      /\ \A n \in DOMAIN events : events'[n] = events[n]
      /\ events'[last].turn = t /\ events'[last].kind \in Follows(Recorded(t))
  BY <1>1, RecordIs
<1>3. /\ DOMAIN events \subseteq DOMAIN events'
      /\ \A n \in DOMAIN events' : n \in DOMAIN events \/ n = last
      /\ \A n \in DOMAIN events : n < last /\ n \in Nat
      /\ last \in Nat
  BY <1>2
<1> HIDE DEF last
<1>4. TypeOK'
  <2>1. taken \in Seq(DOMAIN events')
    <3>1. taken \in Seq(DOMAIN events)
      BY <1>1 DEF TypeOK
    <3>. QED BY <1>3, <3>1, SeqMonotonic
  <2>2. chat \in [Turn -> SUBSET DOMAIN events']
    BY <1>1, <1>3 DEF TypeOK
  <2>3. \A k \in Socket : Fits(link[k])
    BY <1>1, SocketTypes
  <2>4. ASSUME NEW k \in Socket
        PROVE  /\ link[k].last <= Len(events')
               /\ link[k].todo \subseteq DOMAIN events'
               /\ \A i \in DOMAIN link[k].wire : link[k].wire[i].row <= Len(events')
    <3>1. Fits(link[k]) /\ link[k] \in Link
      BY <2>3 DEF Fits
    <3>2. link[k].last \in Nat /\ \A i \in DOMAIN link[k].wire : link[k].wire[i].row \in Nat
      <4>1. link[k].wire \in Seq(Envelope) /\ link[k].last \in Nat
        BY <3>1 DEF Link
      <4>2. \A i \in DOMAIN link[k].wire : link[k].wire[i] \in Envelope
        BY <4>1
      <4>. QED BY <4>1, <4>2 DEF Envelope
    <3>. QED BY <1>2, <1>3, <3>1, <3>2 DEF Fits, last
  <2>5. Socket' = Socket
    BY <1>1 DEF Socket
  <2>. QED BY <1>1, <1>2, <2>1, <2>2, <2>4, <2>5 DEF TypeOK
<1>5. /\ OfSession(session) \subseteq OfSession(session)'
      /\ \A n \in OfSession(session)' : n \in OfSession(session) \/ n = last
      /\ OfSession(session) \subseteq DOMAIN events
  BY <1>1, <1>2, <1>3 DEF OfSession
<1>6. Answered'
  <2>. SUFFICES ASSUME NEW m \in DOMAIN events', NEW n \in DOMAIN events',
                       m < n, events'[m].turn = events'[n].turn
                PROVE  /\ events'[m].kind = "conversation.completed" =>
                            events'[n].kind \in {"agent.summary", "workflow.completed"}
                       /\ events'[m].kind = "agent.summary" =>
                            events'[n].kind = "workflow.completed"
    BY DEF Answered
  <2>1. m \in DOMAIN events
    BY <1>3
  <2>2. CASE n \in DOMAIN events
    BY <1>2, <2>1, <2>2 DEF StreamInv, Answered
  <2>3. CASE n = last
    <3>1. events'[m].kind \in Recorded(t)
      BY <1>2, <2>1, <2>3 DEF Recorded
    <3>. QED BY <1>2, <2>3, <3>1, FollowsIs
  <2>. QED BY <1>3, <2>2, <2>3
<1>7. ToSet(taken)' = ToSet(taken) /\ ToSet(taken) \subseteq OfSession(session)
  BY <1>1 DEF ToSet, StreamInv, Prefix
<1>8. Prefix'
  <2>1. ToSet(taken) \subseteq OfSession(session)'
    BY <1>5, <1>7
  <2>2. ASSUME NEW n \in ToSet(taken), NEW m \in OfSession(session)', m < n
        PROVE  m \in ToSet(taken)
    <3>1. m \in OfSession(session)
      BY <1>3, <1>5, <1>7, <2>2
    <3>. QED BY <2>2, <3>1 DEF StreamInv, Prefix
  <2>. QED BY <1>7, <2>1, <2>2 DEF Prefix
<1>9. Delivered'
  <2>. SUFFICES ASSUME NEW l \in Link, socket' # NoSocket, l = link'[socket'] PROVE Gapless(l)'
    BY DEF Delivered
  <2>1. socket \in Socket /\ l = link[socket] /\ Fits(l) /\ l.last \in Nat
    BY <1>1, SocketTypes DEF TypeOK
  <2>2. Gapless(l)
    BY <1>1, <2>1 DEF StreamInv, Delivered
  <2>3. OnWire(l)' = OnWire(l) /\ \A i : Before(l, i)' = Before(l, i)
    BY DEF OnWire, Before
  <2>4. l.session = session'
    BY <1>1, <2>2 DEF Gapless
  <2>5. ASSUME NEW i \in DOMAIN l.wire, l.wire[i].row # 0
        PROVE  /\ l.wire[i].row \in OfSession(session)'
               /\ \A m \in OfSession(session)' :
                    m < l.wire[i].row => m \in ToSet(taken) \cup Before(l, i)
    <3>1. /\ l.wire[i].row \in OfSession(session)
          /\ \A m \in OfSession(session) :
               m < l.wire[i].row => m \in ToSet(taken) \cup Before(l, i)
      BY <2>2, <2>5 DEF Gapless
    <3>2. \A m \in OfSession(session)' : m < l.wire[i].row => m \in OfSession(session)
      BY <1>3, <1>5, <3>1
    <3>. QED BY <1>5, <3>1, <3>2
  <2>6. ASSUME NEW n \in l.todo
        PROVE  /\ n \in OfSession(session)'
               /\ \A m \in OfSession(session)' :
                    m < n => m \in ToSet(taken) \cup OnWire(l) \cup l.todo
    <3>1. /\ n \in OfSession(session)
          /\ \A m \in OfSession(session) :
               m < n => m \in ToSet(taken) \cup OnWire(l) \cup l.todo
      BY <2>2, <2>6 DEF Gapless
    <3>2. \A m \in OfSession(session)' : m < n => m \in OfSession(session)
      BY <1>3, <1>5, <3>1
    <3>. QED BY <1>5, <3>1, <3>2
  <2>7. ASSUME NEW m \in OfSession(session)', m <= l.last
        PROVE  m \in ToSet(taken) \cup OnWire(l)
    <3>1. m \in OfSession(session)
      BY <1>2, <1>3, <1>5, <2>1, <2>7 DEF Fits, last
    <3>. QED BY <2>2, <2>7, <3>1 DEF Gapless
  <2>. QED BY <1>7, <2>3, <2>4, <2>5, <2>6, <2>7 DEF Gapless
<1>10. Alone'
  <2>. SUFFICES ASSUME NEW u \in Turn
                PROVE  /\ \A n \in chat'[u] : n \in ToSet(taken)' /\ events'[n].turn = u
                       /\ \A c \in Shown(u, "conversation.completed")', n \in chat'[u] :
                            Answer(n)' => n = c
    BY DEF Alone
  <2>1. chat'[u] = chat[u] /\ \A n \in chat[u] : events'[n] = events[n]
    BY <1>1, <1>2 DEF TypeOK
  <2>2. /\ Shown(u, "conversation.completed")' = Shown(u, "conversation.completed")
        /\ \A n \in chat[u] : Answer(n)' = Answer(n)
    BY <2>1 DEF Shown, Answer
  <2>3. /\ \A n \in chat[u] : n \in ToSet(taken) /\ events[n].turn = u
        /\ \A c \in Shown(u, "conversation.completed"), n \in chat[u] : Answer(n) => n = c
    BY DEF StreamInv, Alone
  <2>. QED BY <1>7, <2>1, <2>2, <2>3
<1>11. Feed!LogEvent
  <2>1. PICK kind \in Follows(Recorded(t)) : events' = Append(events, NewEvent(t, kind))
    BY DEF Record
  <2>2. NewEvent(t, kind) \in [turn : Turn, kind : Kind]
    BY FollowsIs DEF NewEvent
  <2>. QED BY <1>1, <2>1, <2>2 DEF Feed!LogEvent
<1>. QED BY <1>4, <1>6, <1>8, <1>9, <1>10, <1>11 DEF StreamInv
-----------------------------------------------------------------------------
(* The client connects.                                                    *)

\* A socket is opened for a session, whose chat is kept or starts empty.
LEMMA OpenStep ==
  ASSUME StreamInv, NEW s \in Session, Open(s), session' = s, UNCHANGED <<events, sent>>,
         \/ s = session /\ UNCHANGED <<taken, chat>>
         \/ taken' = <<>> /\ chat' = [t \in Turn |-> {}]
  PROVE  StreamInv'
<1>1. /\ TypeOK /\ link \in Seq(Link) /\ Len(link) \in Nat /\ DOMAIN events \subseteq Nat \ {0}
      /\ Len(events) \in Nat
  BY DEF StreamInv, TypeOK
<1> DEFINE l == Opened(s)
<1>2. /\ l \in Link /\ l.session = s /\ l.last = 0 /\ l.todo = {} /\ l.wire = <<>>
  BY OpenedIs
<1>3. DOMAIN l.wire = {}
  BY <1>2
<1>4. link' = Append(link, l) /\ socket' = Len(link) + 1
  BY DEF Open
<1> HIDE DEF l
<1>5. /\ link' \in Seq(Link) /\ Len(link') = Len(link) + 1
      /\ \A k \in 1..Len(link) : link'[k] = link[k]
      /\ link'[Len(link) + 1] = l
  BY <1>1, <1>2, <1>4
<1>6. Socket' = 1..(Len(link) + 1) /\ Socket = 1..Len(link)
  BY <1>5 DEF Socket
<1>7. TypeOK'
  <2>1. \A k \in Socket' : Fits(link'[k])
    <3>. SUFFICES ASSUME NEW k \in Socket' PROVE Fits(link'[k])
      OBVIOUS
    <3>1. CASE k \in Socket
      BY <1>1, <1>5, <1>6, <3>1, SocketTypes
    <3>2. CASE k = Len(link) + 1
      <4>1. Fits(l)
        BY <1>1, <1>2, <1>3 DEF Fits
      <4>. QED BY <1>5, <3>2, <4>1
    <3>. QED BY <1>1, <1>6, <3>1, <3>2
  <2>2. \A k \in Socket' :
          /\ link'[k].last <= Len(events)
          /\ link'[k].todo \subseteq DOMAIN events
          /\ \A i \in DOMAIN link'[k].wire : link'[k].wire[i].row <= Len(events)
    BY <2>1 DEF Fits
  <2>3. socket' \in Socket'
    BY <1>1, <1>4, <1>6
  <2>4. taken' \in Seq(DOMAIN events) /\ chat' \in [Turn -> SUBSET DOMAIN events]
    <3>1. /\ <<>> \in Seq(DOMAIN events) /\ taken \in Seq(DOMAIN events)
          /\ chat \in [Turn -> SUBSET DOMAIN events]
      BY <1>1 DEF TypeOK
    <3>2. [t \in Turn |-> {}] \in [Turn -> SUBSET DOMAIN events]
      OBVIOUS
    <3>. QED BY <3>1, <3>2
  <2>. QED BY <1>1, <1>5, <2>2, <2>3, <2>4 DEF TypeOK
<1>8. \A r : OfSession(r)' = OfSession(r)
  BY DEF OfSession
<1>9. Answered'
  BY DEF StreamInv, Answered
<1>10. ASSUME s = session, UNCHANGED <<taken, chat>> PROVE Prefix' /\ Alone'
  <2>1. Prefix' /\ Alone'
    BY <1>10, SameView DEF StreamInv
  <2>. QED BY <2>1
<1>11. ASSUME taken' = <<>>, chat' = [t \in Turn |-> {}] PROVE Prefix' /\ Alone'
  <2>1. ToSet(taken)' = {}
    BY <1>11 DEF ToSet
  <2>2. Prefix'
    BY <2>1 DEF Prefix
  <2>3. Alone'
    BY <1>11 DEF Alone, Shown
  <2>. QED BY <2>2, <2>3
<1>12. Delivered'
  <2>. SUFFICES ASSUME NEW m \in Link, socket' # NoSocket, m = link'[socket'] PROVE Gapless(m)'
    BY DEF Delivered
  <2>1. m.session = session' /\ m.last = 0 /\ m.todo = {} /\ DOMAIN m.wire = {}
    BY <1>2, <1>3, <1>4, <1>5
  <2>2. \A r \in OfSession(session)' : ~(r <= 0)
    BY <1>1 DEF OfSession
  <2>. QED BY <2>1, <2>2 DEF Gapless
<1>. QED BY <1>7, <1>9, <1>10, <1>11, <1>12 DEF StreamInv
-----------------------------------------------------------------------------
(* The theorems.                                                           *)

\* The client starts with one socket that has sent nothing.
LEMMA InitHolds == Init => StreamInv /\ Feed!Init
<1>. SUFFICES ASSUME Init PROVE StreamInv /\ Feed!Init
  OBVIOUS
<1> DEFINE l == Opened(First)
<1>1. /\ events = <<>> /\ session = First /\ First \in Session /\ link = <<l>> /\ socket = 1
      /\ taken = <<>> /\ chat = [t \in Turn |-> {}] /\ sent = 0
  BY StreamAssumption DEF Init
<1>2. /\ l \in Link /\ l.session = First /\ l.last = 0 /\ l.todo = {} /\ l.wire = <<>>
  BY <1>1, OpenedIs
<1> HIDE DEF l
<1>3. /\ Socket = {1} /\ link \in Seq(Link) /\ link[1] = l /\ Len(events) = 0
      /\ DOMAIN events = {} /\ DOMAIN l.wire = {}
  BY <1>1, <1>2 DEF Socket
<1>4. TypeOK
  <2>1. sent \in 0..MaxMessages
    BY <1>1, StreamAssumption
  <2>2. /\ events \in Seq([turn : Turn, kind : Kind]) /\ taken \in Seq(DOMAIN events)
        /\ chat \in [Turn -> SUBSET DOMAIN events]
    BY <1>1
  <2>. QED BY <1>1, <1>2, <1>3, <2>1, <2>2 DEF TypeOK
<1>5. OfSession(session) = {} /\ ToSet(taken) = {}
  BY <1>1, <1>3 DEF OfSession, ToSet
<1>6. Answered /\ Prefix
  BY <1>3, <1>5 DEF Answered, Prefix
<1>7. Delivered
  BY <1>1, <1>2, <1>3, <1>5 DEF Delivered, Gapless
<1>8. Alone
  BY <1>1 DEF Alone, Shown
<1>9. Feed!Init
  BY <1>1 DEF Feed!Init
<1>. QED BY <1>4, <1>6, <1>7, <1>8, <1>9 DEF StreamInv

\* Every step keeps the invariant and is a step of the feed or none of it.
LEMMA StepHolds ==
  ASSUME StreamInv, [Next]_vars
  PROVE  StreamInv' /\ [Feed!Next]_<<events, session, taken>>
<1>1. Quiet => [Feed!Next]_<<events, session, taken>>
  BY DEF Quiet
<1>2. ASSUME NEW t \in Turn, Record(t)
      PROVE  StreamInv' /\ [Feed!Next]_<<events, session, taken>>
  BY <1>2, RecordStep DEF Feed!Next
<1>3. ASSUME NEW k \in Socket, Server(k)
      PROVE  StreamInv' /\ [Feed!Next]_<<events, session, taken>>
  BY <1>1, <1>3, AcceptStep, SendRowStep, PollStep, ReceiveStep DEF Server
<1>4. ASSUME NEW k \in Socket, Dispatch(k)
      PROVE  StreamInv' /\ [Feed!Next]_<<events, session, taken>>
  BY <1>1, <1>4, DispatchStep DEF Feed!Next
<1>5. ASSUME NEW k \in Socket, Closes(k) \/ HangUp(k) \/ Refuse(k)
      PROVE  StreamInv' /\ [Feed!Next]_<<events, session, taken>>
  BY <1>1, <1>5, ClosesStep, HangUpStep, RefuseStep
<1>6. ASSUME NEW kind \in {"ping", "terminal", "broken"}, Send(kind)
      PROVE  StreamInv' /\ [Feed!Next]_<<events, session, taken>>
  BY <1>1, <1>6, SendStep
<1>7. CASE Reconnect
  <2>1. session \in Session
    BY DEF StreamInv, TypeOK
  <2>2. Open(session) /\ session' = session /\ UNCHANGED <<events, sent, taken, chat>>
    BY <1>7 DEF Reconnect
  <2>3. StreamInv'
    BY <2>1, <2>2, OpenStep
  <2>. QED BY <1>1, <2>2, <2>3 DEF Quiet
<1>8. ASSUME NEW s \in Session, Show(s)
      PROVE  StreamInv' /\ [Feed!Next]_<<events, session, taken>>
  <2>1. /\ Open(s) /\ session' = s /\ UNCHANGED <<events, sent>>
        /\ \/ s = session /\ UNCHANGED <<taken, chat>>
           \/ s # session /\ taken' = <<>> /\ chat' = [t \in Turn |-> {}]
    BY <1>8 DEF Show
  <2>2. StreamInv'
    BY <2>1, OpenStep
  <2>3. Quiet \/ Feed!Show
    BY <2>1 DEF Quiet, Feed!Show
  <2>. QED BY <1>1, <2>2, <2>3 DEF Feed!Next
<1>9. CASE UNCHANGED vars
  <2>1. UNCHANGED <<events, link, socket, session, taken, chat, sent>>
    BY <1>9 DEF vars
  <2>2. Answered' /\ Prefix' /\ Alone'
    BY <2>1, SameView DEF StreamInv
  <2>3. TypeOK'
    BY <2>1 DEF StreamInv, TypeOK, Socket
  <2>4. Delivered'
    <3>. SUFFICES ASSUME NEW l \in Link, socket' # NoSocket, l = link'[socket'] PROVE Gapless(l)'
      BY DEF Delivered
    <3>1. Gapless(l)
      BY <2>1 DEF StreamInv, Delivered
    <3>. QED BY <2>1, <3>1, SameView
  <2>. QED BY <1>1, <2>1, <2>2, <2>3, <2>4 DEF StreamInv, Quiet
<1>. QED BY <1>2, <1>3, <1>4, <1>5, <1>6, <1>7, <1>8, <1>9 DEF Next

\* The invariant holds.
THEOREM Invariance == Spec => []StreamInv
<1>. QED BY InitHolds, StepHolds, PTL DEF Spec

\* The rows, sockets and cursors have their types, and no cursor, page or
\* envelope is ahead of the table.
THEOREM StreamTyped == Spec => []TypeOK
<1>1. StreamInv => TypeOK
  BY DEF StreamInv
<1>. QED BY <1>1, Invariance, PTL

\* What the client takes implements the feed of the session's events: none is
\* skipped, repeated or overtaken (ws.py's two cursors, the rows that
\* EventRepository.list gives, and the ids of agentEvents.ts).
THEOREM FeedImplemented == Spec => FeedSpec
<1>1. Init => Feed!Init
  BY InitHolds
<1>2. StreamInv /\ [Next]_vars => [Feed!Next]_<<events, session, taken>>
  BY StepHolds
<1>. QED BY <1>1, <1>2, Invariance, PTL DEF Spec, FeedSpec, Feed!Spec

\* A turn whose answer has arrived shows that answer alone
\* (appendExecutionMessage), however often its rows were replayed.
THEOREM AnswerAlone == Spec => []OneVisibleAnswer
<1>1. StreamInv => OneVisibleAnswer
  <2>. SUFFICES ASSUME StreamInv, NEW t \in Turn, NEW c \in Shown(t, "conversation.completed")
                PROVE  Cardinality({n \in chat[t] : events[n].kind \in
                         {"conversation.completed", "conversation.delta", "agent.summary"}}) = 1
    BY DEF OneVisibleAnswer
  <2>1. /\ c \in chat[t] /\ events[c].kind = "conversation.completed"
        /\ \A n \in chat[t] : Answer(n) => n = c
    BY DEF StreamInv, Alone, Shown
  <2>2. {n \in chat[t] : events[n].kind \in
           {"conversation.completed", "conversation.delta", "agent.summary"}} = {c}
    BY <2>1 DEF Answer
  <2>. QED BY <2>2, FS_Singleton
<1>. QED BY <1>1, Invariance, PTL
=============================================================================
