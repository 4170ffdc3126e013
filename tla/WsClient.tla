------------------------------ MODULE WsClient ------------------------------
(***************************************************************************)
(* The browser's WebSocket query client, web/src/lib/ws.ts: one module     *)
(* variable `client`, replaced whenever a query is for another connection; *)
(* a map of pending handlers for each socket; queries and cancels sent on   *)
(* it.                                                                     *)
(*                                                                         *)
(* A step is one macrotask of the page: a call of query() or cancel() up   *)
(* to its first real wait, an event of a socket with the continuation      *)
(* that it resolves, or a message.  A caller is one call of query().  The  *)
(* server is the environment: it answers what it received, and may drop a  *)
(* socket whenever it likes.  Whether it answers a cancelled query before  *)
(* the statement ends depends on the server: the Rust one does, if the     *)
(* driver awaits its database; a driver that blocks keeps the loop that    *)
(* polls statement and cancel from both, and the Go one runs the query in  *)
(* the loop that would read the cancel.                                    *)
(***************************************************************************)
EXTENDS Naturals, FiniteSets

CONSTANTS
    Queries,    \* calls of query(), each with its own query id
    Sockets,    \* names for the WebSocket objects the page makes
    Conns,      \* connection ids
    None

\* What the constants have to satisfy.
WsAssumption == None \notin Queries \cup Sockets \cup Conns

VARIABLES
    client,     \* the module variable: a socket or None
    ready,      \* [Sockets -> "unused", "connecting", "open", "closing", "closed"]
    closedFlag, \* [Sockets -> BOOLEAN], Client.closed
    connOf,     \* [Sockets -> Conns or None], Client.connId
    prevOf,     \* [Sockets -> Sockets or None], the local `prev` of connect
    pending,    \* [Sockets -> SUBSET Queries], Client.pending
    hello,      \* [Sockets -> BOOLEAN], hello has been sent
    pc,         \* [Queries -> state of the call]
    target,     \* [Queries -> the socket the call works with, or None]
    answers,    \* [Queries -> 0..2], terminal callbacks made so far
    received,   \* [Sockets -> SUBSET Queries], what the server has to answer
    asked,      \* SUBSET Queries, those whose cancel has been sent
    stops       \* the server answers a cancel before the statement ends

vars == <<client, ready, closedFlag, connOf, prevOf, pending, hello, pc,
          target, answers, received, asked, stops>>

\* "void" is a query given to a socket that was closing or closed: send()
\* on such a socket drops the bytes without an error.
States == {"idle", "connecting", "sent", "void", "rejected", "answered"}

Init ==
    /\ client = None
    /\ ready = [s \in Sockets |-> "unused"]
    /\ closedFlag = [s \in Sockets |-> FALSE]
    /\ connOf = [s \in Sockets |-> None]
    /\ prevOf = [s \in Sockets |-> None]
    /\ pending = [s \in Sockets |-> {}]
    /\ hello = [s \in Sockets |-> FALSE]
    /\ pc = [q \in Queries |-> "idle"]
    /\ target = [q \in Queries |-> None]
    /\ answers = [q \in Queries |-> 0]
    /\ received = [s \in Sockets |-> {}]
    /\ asked = {}
    /\ stops \in BOOLEAN

-----------------------------------------------------------------------------
(* query(): connect, then put the handler in the map and send.             *)

\* The continuation of query() with an open, closing or closed socket s.
Send(q, s, open) ==
    /\ pending' = [pending EXCEPT ![s] = @ \cup {q}]
    /\ pc' = [pc EXCEPT ![q] = IF open THEN "sent" ELSE "void"]
    /\ received' = [received EXCEPT ![s] = IF open THEN @ \cup {q} ELSE @]

\* connect finds a client of this connection that nobody has closed and
\* returns it, whatever its socket has become.  send() throws only while the
\* socket is still connecting, and then the handler is already in the map.
Reuse(q, c) ==
    /\ pc[q] = "idle"
    /\ client # None /\ ~closedFlag[client] /\ connOf[client] = c
    /\ target' = [target EXCEPT ![q] = client]
    /\ IF ready[client] = "connecting"
         THEN /\ pending' = [pending EXCEPT ![client] = @ \cup {q}]
              /\ pc' = [pc EXCEPT ![q] = "rejected"]
              /\ UNCHANGED received
         ELSE Send(q, client, ready[client] = "open")
    /\ UNCHANGED <<client, ready, closedFlag, connOf, prevOf, hello, answers, asked>>

\* Sockets are told apart by name only: a new one gets the next free name.
NextSocket == CHOOSE s \in Sockets : ready[s] = "unused"

\* Otherwise a new socket becomes the client at once, before it is open.
Open(q, c) ==
    /\ pc[q] = "idle"
    /\ ~(client # None /\ ~closedFlag[client] /\ connOf[client] = c)
    /\ \E s \in Sockets :
        /\ ready[s] = "unused" /\ s = NextSocket
        /\ ready' = [ready EXCEPT ![s] = "connecting"]
        /\ connOf' = [connOf EXCEPT ![s] = c]
        /\ prevOf' = [prevOf EXCEPT ![s] = client]
        /\ client' = s
        /\ target' = [target EXCEPT ![q] = s]
        /\ pc' = [pc EXCEPT ![q] = "connecting"]
    /\ UNCHANGED <<closedFlag, pending, hello, answers, received, asked>>

\* The finally block of connect: the socket it replaced is closed, once.
ClosesPrev(s) == prevOf[s] # None /\ ~closedFlag[prevOf[s]]

MarkPrev(s) ==
    IF ClosesPrev(s) THEN [closedFlag EXCEPT ![prevOf[s]] = TRUE] ELSE closedFlag

\* WebSocket.close(): a socket that is closed already stays so.
ClosePrev(s, r) ==
    IF ClosesPrev(s) /\ r[prevOf[s]] \in {"connecting", "open"}
    THEN [r EXCEPT ![prevOf[s]] = "closing"] ELSE r

\* The open event, and the rest of connect and query with it.
Opened(q) ==
    LET s == target[q] IN
    /\ pc[q] = "connecting" /\ ready[s] = "connecting"
    /\ ready' = ClosePrev(s, [ready EXCEPT ![s] = "open"])
    /\ closedFlag' = MarkPrev(s)
    /\ hello' = [hello EXCEPT ![s] = TRUE]
    /\ Send(q, s, TRUE)
    /\ UNCHANGED <<client, connOf, prevOf, target, answers, asked>>

\* The error event before the socket was open (also after a close() on a
\* connecting socket): connect puts the previous client back and throws.
OpenFails(q) ==
    LET s == target[q] IN
    /\ pc[q] = "connecting" /\ ready[s] \in {"connecting", "closing"}
    /\ client' = IF prevOf[s] # None THEN prevOf[s] ELSE client
    /\ ready' = ClosePrev(s, [ready EXCEPT ![s] = "closing"])
    /\ closedFlag' = MarkPrev(s)
    /\ pc' = [pc EXCEPT ![q] = "rejected"]
    /\ UNCHANGED <<connOf, prevOf, pending, hello, target, answers, received,
                   asked>>

-----------------------------------------------------------------------------
(* Events of a socket.                                                     *)

\* The server drops the connection.  No handler changes Client.closed.
ServerDrops(s) ==
    /\ ready[s] = "open"
    /\ ready' = [ready EXCEPT ![s] = "closing"]
    /\ UNCHANGED <<client, closedFlag, connOf, prevOf, pending, hello, pc,
                   target, answers, received, asked>>

\* Every handler still in the map gets an error, those whose query() was
\* rejected too.
Count(qs) == [q \in Queries |-> IF q \in qs THEN answers[q] + 1 ELSE answers[q]]
Answered(qs) == [q \in Queries |->
                    IF q \in qs /\ pc[q] # "rejected" THEN "answered" ELSE pc[q]]

\* Mutant of CloseEvent: nobody tells the handlers.
CloseSilently(s) ==
    /\ ready[s] = "closing"
    /\ \A q \in Queries : ~(pc[q] = "connecting" /\ target[q] = s)
    /\ ready' = [ready EXCEPT ![s] = "closed"]
    /\ pending' = [pending EXCEPT ![s] = {}]
    /\ received' = [received EXCEPT ![s] = {}]
    /\ UNCHANGED <<client, closedFlag, connOf, prevOf, hello, pc, target,
                   answers, asked>>

CloseEvent(s) ==
    /\ ready[s] = "closing"
    /\ \A q \in Queries : ~(pc[q] = "connecting" /\ target[q] = s)
    /\ ready' = [ready EXCEPT ![s] = "closed"]
    /\ answers' = Count(pending[s])
    /\ pc' = Answered(pending[s])
    /\ pending' = [pending EXCEPT ![s] = {}]
    /\ received' = [received EXCEPT ![s] = {}]
    /\ UNCHANGED <<client, closedFlag, connOf, prevOf, hello, target,
                   asked>>

\* Mutant of Message: the handler stays in the map.
MessageKeepsHandler(s, q) ==
    /\ ready[s] = "open" /\ q \in received[s]
    /\ received' = [received EXCEPT ![s] = @ \ {q}]
    /\ answers' = Count({q} \cap pending[s])
    /\ pc' = Answered({q} \cap pending[s])
    /\ UNCHANGED <<client, ready, closedFlag, connOf, prevOf, pending, hello,
                   target, asked>>

\* A terminal message: the handler leaves the map and is called.  A message
\* whose id is not in the map is dropped.
Message(s, q) ==
    /\ ready[s] = "open" /\ q \in received[s]
    /\ received' = [received EXCEPT ![s] = @ \ {q}]
    /\ IF q \in pending[s]
         THEN /\ pending' = [pending EXCEPT ![s] = @ \ {q}]
              /\ answers' = Count({q})
              /\ pc' = Answered({q})
         ELSE UNCHANGED <<pending, answers, pc>>
    /\ UNCHANGED <<client, ready, closedFlag, connOf, prevOf, hello, target,
                   asked>>

\* cancel() looks only at the current client, and does nothing for a query
\* that is not in its map.
Cancel(q) ==
    /\ client # None /\ q \in pending[client]
    /\ ready[client] = "open" /\ q \in received[client]
    /\ asked' = asked \cup {q}
    /\ UNCHANGED <<client, ready, closedFlag, connOf, prevOf, pending, hello, pc,
                   target, answers, received>>

-----------------------------------------------------------------------------
Steps ==
    \/ \E q \in Queries, c \in Conns : Reuse(q, c) \/ Open(q, c)
    \/ \E q \in Queries : Opened(q) \/ OpenFails(q) \/ Cancel(q)
    \/ \E s \in Sockets : ServerDrops(s) \/ CloseEvent(s)
    \/ \E s \in Sockets, q \in Queries : Message(s, q)

Next == Steps /\ UNCHANGED stops

\* A socket opens or fails, a closing socket ends, and a server that can
\* answers a query it was asked to cancel.  Any other statement may run for
\* ever.
Fairness ==
    /\ \A q \in Queries : WF_vars((Opened(q) \/ OpenFails(q)) /\ UNCHANGED stops)
    /\ \A s \in Sockets : WF_vars(CloseEvent(s) /\ UNCHANGED stops)
    /\ \A s \in Sockets, q \in Queries : WF_vars(stops /\ q \in asked /\ Message(s, q) /\ UNCHANGED stops)

Spec == Init /\ [][Next]_vars /\ Fairness

-----------------------------------------------------------------------------
TypeOK ==
    /\ client \in Sockets \cup {None}
    /\ ready \in [Sockets -> {"unused", "connecting", "open", "closing", "closed"}]
    /\ closedFlag \in [Sockets -> BOOLEAN]
    /\ connOf \in [Sockets -> Conns \cup {None}]
    /\ prevOf \in [Sockets -> Sockets \cup {None}]
    /\ pending \in [Sockets -> SUBSET Queries]
    /\ hello \in [Sockets -> BOOLEAN]
    /\ pc \in [Queries -> States]
    /\ target \in [Queries -> Sockets \cup {None}]
    /\ answers \in [Queries -> Nat]
    /\ received \in [Sockets -> SUBSET Queries]
    /\ asked \subseteq Queries
    /\ stops \in BOOLEAN

\* A query's handler gets at most one terminal callback (result, error or
\* cancelled), however sockets are replaced, dropped and closed.
OneAnswer == \A q \in Queries : answers[q] <= 1

\* A query whose cancel was sent gets its terminal callback, also if its
\* socket is replaced or dropped before the answer comes: again and again
\* nobody who asked is left waiting, except on an open socket of a server that
\* does not answer before the statement ends.
NobodyWaits ==
    \A q \in asked : answers[q] = 1 \/ (~stops /\ ready[target[q]] = "open")
CancelledIsAnswered == []<>NobodyWaits
=============================================================================
