--------------------------- MODULE WebQueryProofs ---------------------------
(***************************************************************************)
(* What TLAPS proves of the machines of WebQueries, for any connections,   *)
(* sockets, queries, statements and tabs: each has an invariant, from      *)
(* which WebProofs gets the properties of Web.                             *)
(***************************************************************************)
EXTENDS WebQueries, Sequences, FiniteSetTheorems, SequenceTheorems, TLAPS

-----------------------------------------------------------------------------
(* The socket.                                                             *)

\* The variables the argument is about have their types.
HandlersTyped ==
    /\ client \in Sockets \cup {None}
    /\ prevOf \in [Sockets -> Sockets \cup {None}]
    /\ pending \in [Sockets -> SUBSET Queries]
    /\ pc \in [Queries -> WS!States]
    /\ target \in [Queries -> Sockets \cup {None}]
    /\ answers \in [Queries -> Nat]

\* A handler waits on the one socket its call works with, and only before
\* its callback; a call that has not sent anything has no handler anywhere.
HandlerIsOne ==
    \A q \in Queries :
        /\ \A s \in Sockets : q \in pending[s] => target[q] = s /\ answers[q] = 0
        /\ pc[q] \in {"idle", "connecting"} =>
             answers[q] = 0 /\ \A s \in Sockets : q \notin pending[s]
        /\ pc[q] = "connecting" => target[q] \in Sockets

SocketInv == HandlersTyped /\ HandlerIsOne /\ WS!OneAnswer

LEMMA SocketInit == WS!Init => SocketInv
BY DEF WS!Init, SocketInv, HandlersTyped, HandlerIsOne, WS!OneAnswer, WS!States

\* Putting a handler in the map and sending, from a state in which the call
\* has no handler, with the socket that the call works with from now on.
LEMMA SendKeeps ==
    ASSUME SocketInv, NEW q \in Queries, NEW s \in Sockets, NEW up \in BOOLEAN,
           pc[q] \in {"idle", "connecting"},
           target' = [target EXCEPT ![q] = s], UNCHANGED <<client, prevOf, answers>>,
           WS!Send(q, s, up)
    PROVE  SocketInv'
BY DEF SocketInv, HandlersTyped, HandlerIsOne, WS!OneAnswer, WS!States, WS!Send

LEMMA SocketSteps ==
    ASSUME WS!WsAssumption, SocketInv, [WS!Next]_(WS!vars)
    PROVE  SocketInv'
<1> USE WS!WsAssumption DEF SocketInv, HandlersTyped, HandlerIsOne, WS!OneAnswer, WS!States, WS!WsAssumption
<1>1. ASSUME NEW q \in Queries, NEW c \in Conns, WS!Reuse(q, c)
      PROVE  SocketInv'
  <2>1. client \in Sockets /\ UNCHANGED <<client, prevOf, answers>>
        /\ target' = [target EXCEPT ![q] = client] /\ pc[q] = "idle"
    BY <1>1 DEF WS!Reuse
  <2>2. CASE ready[client] = "connecting"
    BY <1>1, <2>1, <2>2 DEF WS!Reuse
  <2>3. CASE ready[client] # "connecting"
    <3>1. WS!Send(q, client, ready[client] = "open")
      BY <1>1, <2>3 DEF WS!Reuse
    <3>2. QED
      BY <2>1, <3>1, SendKeeps
  <2>4. QED
    BY <2>2, <2>3
<1>2. ASSUME NEW q \in Queries, NEW c \in Conns, WS!Open(q, c)
      PROVE  SocketInv'
  BY <1>2 DEF WS!Open
<1>3. ASSUME NEW q \in Queries, WS!Opened(q)
      PROVE  SocketInv'
  <2>1. target[q] \in Sockets /\ pc[q] = "connecting"
        /\ WS!Send(q, target[q], TRUE) /\ UNCHANGED <<client, prevOf, target, answers>>
    BY <1>3 DEF WS!Opened
  <2>2. target' = [target EXCEPT ![q] = target[q]]
    BY <2>1
  <2>3. QED
    BY <2>1, <2>2, SendKeeps
<1>4. ASSUME NEW q \in Queries, WS!OpenFails(q)
      PROVE  SocketInv'
  BY <1>4 DEF WS!OpenFails
<1>5. ASSUME NEW q \in Queries, WS!Cancel(q)
      PROVE  SocketInv'
  BY <1>5 DEF WS!Cancel
<1>6. ASSUME NEW s \in Sockets, WS!ServerDrops(s)
      PROVE  SocketInv'
  BY <1>6 DEF WS!ServerDrops
<1>7. ASSUME NEW s \in Sockets, WS!CloseEvent(s)
      PROVE  SocketInv'
  BY <1>7 DEF WS!CloseEvent, WS!Count, WS!Answered
<1>8. ASSUME NEW s \in Sockets, NEW q \in Queries, WS!Message(s, q)
      PROVE  SocketInv'
  <2>1. CASE q \in pending[s]
    BY <1>8, <2>1 DEF WS!Message, WS!Count, WS!Answered
  <2>2. CASE q \notin pending[s]
    BY <1>8, <2>2 DEF WS!Message
  <2>3. QED
    BY <2>1, <2>2
<1>9. CASE UNCHANGED WS!vars
  BY <1>9 DEF WS!vars
<1>10. QED
  BY <1>1, <1>2, <1>3, <1>4, <1>5, <1>6, <1>7, <1>8, <1>9 DEF WS!Next, WS!Steps

-----------------------------------------------------------------------------
(* The runs of the query workspace.                                        *)

Settled(es) == \A i \in DOMAIN es : es[i] \in QR!Outcomes \cup {"skipped"}

\* What holds of the statements that a run does not have to do any more, and
\* of those a rerun is for.
Ready(r) ==
    /\ r.kind = "single" => r.todo \subseteq {1}
    /\ r.kind # "single" => r.todo \subseteq DOMAIN r.own
    /\ r.kind = "rerun" =>
         /\ DOMAIN r.from = DOMAIN r.own /\ \A j \in r.todo : r.from[j] = "err"
         /\ \A j \in DOMAIN r.from : r.from[j] = "ok" => r.own[j] = "ok"

InFlight ==
    /\ run.at = last.stmt /\ run.conn = last.conn /\ \A j \in run.todo : j > run.at
    /\ run.kind = "single" => run.todo = {} /\ entries = << >>
    /\ run.kind # "single" =>
         /\ run.at \in DOMAIN run.own
         /\ \A j \in DOMAIN run.own \ ({run.at} \cup run.todo) :
              run.own[j] \in QR!Outcomes \cup {"skipped"}
    /\ run.kind = "rerun" => run.from[run.at] = "err"
    /\ Ready(run)

QueryInv ==
    /\ conn \in Conns /\ transport \in QR!Channels
    /\ held \in [QR!Handlers -> [conn : Conns, chan : QR!Channels]]
    /\ entries \in Seq(QR!Statuses) /\ sends \in Nat
    /\ run \in QR!RunRecord \cup {None}
    /\ run = None => Settled(entries)
    /\ run # None => InFlight

LEMMA QueryStarts == QR!Init => QueryInv
BY DEF QR!Init, QueryInv, Settled, QR!Channels, QR!Handlers

\* Rewriting the status of entries gives a list of statuses again.
LEMMA StillEntries ==
    ASSUME NEW es \in Seq(QR!Statuses), NEW f, DOMAIN f = DOMAIN es,
           f \in [DOMAIN f -> QR!Statuses]
    PROVE  f \in Seq(QR!Statuses)
<1>1. DOMAIN f = 1..Len(es) /\ Len(es) \in Nat
  BY LenProperties
<1> HIDE DEF QR!Statuses
<1>2. QED
  BY <1>1

LEMMA OneRewritten ==
    ASSUME NEW es \in Seq(QR!Statuses), NEW i, NEW out \in QR!Statuses
    PROVE  /\ [es EXCEPT ![i] = out] \in Seq(QR!Statuses)
           /\ DOMAIN [es EXCEPT ![i] = out] = DOMAIN es
           /\ i \in DOMAIN es => [es EXCEPT ![i] = out][i] = out
           /\ \A j \in DOMAIN es : j # i => [es EXCEPT ![i] = out][j] = es[j]
<1> DEFINE f == [es EXCEPT ![i] = out]
<1>1. \A j \in DOMAIN es : es[j] \in QR!Statuses
  BY ElementOfSeq, LenProperties
<1>2. DOMAIN f = DOMAIN es /\ f \in [DOMAIN f -> QR!Statuses]
  BY <1>1
<1> HIDE DEF f
<1>3. f \in Seq(QR!Statuses)
  BY <1>2, StillEntries
<1>4. QED
  BY <1>2, <1>3 DEF f

\* Sending puts the least of the statements to do in flight.
LEMMA SendGoes ==
    ASSUME QR!RunAssumption, sends \in Nat, NEW r \in QR!RunRecord, Ready(r), QR!Send(r),
           r.kind # "single" =>
             \A j \in (DOMAIN r.own) \ r.todo : r.own[j] \in QR!Outcomes \cup {"skipped"}
    PROVE  /\ run' \in QR!RunRecord /\ run' # None /\ InFlight' /\ entries' \in Seq(QR!Statuses)
           /\ sends' \in Nat
           /\ run'.kind = r.kind /\ run'.from = r.from /\ last'.stmt \in r.todo /\ last'.conn = r.conn
           /\ r.kind # "single" => \A j \in DOMAIN r.own : j # last'.stmt => run'.own[j] = r.own[j]
           /\ DOMAIN run'.own = DOMAIN r.own \/ r.kind = "single"
<1>1. PICK i \in r.todo, phase \in {"connecting", "sent"} :
        LET own == IF r.kind = "single" THEN << >> ELSE [r.own EXCEPT ![i] = "running"]
        IN  /\ \A j \in r.todo : i <= j
            /\ run' = [r EXCEPT !.at = i, !.todo = r.todo \ {i}, !.phase = phase, !.own = own]
            /\ entries' = own /\ sends' = sends + 1
            /\ last' = [stmt |-> i, conn |-> r.conn, on |-> conn']
  BY DEF QR!Send
<1> DEFINE now == IF r.kind = "single" THEN << >> ELSE [r.own EXCEPT ![i] = "running"]
<1>2. /\ now \in Seq(QR!Statuses)
      /\ r.kind = "single" => now = << >>
      /\ r.kind # "single" =>
           /\ DOMAIN now = DOMAIN r.own /\ \A j \in DOMAIN r.own : j # i => now[j] = r.own[j]
  BY OneRewritten DEF QR!RunRecord, QR!Statuses
<1>3. /\ run' = [r EXCEPT !.at = i, !.todo = r.todo \ {i}, !.phase = phase, !.own = now]
      /\ entries' = now /\ sends' = sends + 1
      /\ last' = [stmt |-> i, conn |-> r.conn, on |-> conn']
      /\ \A j \in r.todo : i <= j
  BY <1>1
<1> HIDE DEF now
<1>4. /\ run'.kind = r.kind /\ run'.conn = r.conn /\ run'.from = r.from /\ run'.own = now
      /\ run'.at = i /\ run'.todo = r.todo \ {i} /\ last'.stmt = i /\ last'.conn = r.conn
      /\ run' \in QR!RunRecord /\ i \in Nat /\ r.todo \subseteq Nat
  BY <1>2, <1>3 DEF QR!RunRecord
<1>5. run' # None
  BY <1>4 DEF QR!RunAssumption
<1>6. \A j \in run'.todo : j > run'.at
  BY <1>3, <1>4
<1>7. r.kind = "rerun" => r.from[i] # "ok"
  BY DEF Ready
<1>8. Ready(run')
  BY <1>2, <1>4, <1>7 DEF Ready
<1>9. /\ r.kind = "single" => run'.todo = {} /\ entries' = << >>
      /\ r.kind # "single" =>
           /\ run'.at \in DOMAIN run'.own
           /\ \A j \in DOMAIN run'.own \ ({run'.at} \cup run'.todo) :
                run'.own[j] \in QR!Outcomes \cup {"skipped"}
      /\ r.kind = "rerun" => run'.from[run'.at] = "err"
  BY <1>2, <1>3, <1>4 DEF Ready
<1>10. InFlight'
  BY <1>4, <1>6, <1>8, <1>9 DEF InFlight
<1>11. QED
  BY <1>2, <1>3, <1>4, <1>5, <1>10


\* The closures that are kept have seen a connection and a channel.
LEMMA HeldTyped ==
    ASSUME QueryInv, QR!Reregister, conn' \in Conns, transport' \in QR!Channels
    PROVE  held' \in [QR!Handlers -> [conn : Conns, chan : QR!Channels]]
BY DEF QueryInv, QR!Reregister, QR!Handlers

LEMMA StartKeeps ==
    ASSUME QR!RunAssumption, QueryInv, run = None,
           conn' \in Conns, transport' \in QR!Channels,
           held' \in [QR!Handlers -> [conn : Conns, chan : QR!Channels]],
           NEW kind \in {"single", "multi", "rerun"}, NEW c \in Conns, NEW chan \in QR!Channels,
           NEW todo \in SUBSET Nat, NEW es \in Seq(QR!Statuses),
           QR!Send(QR!NewRun(kind, c, chan, todo, es)),
           kind = "single" => todo \subseteq {1},
           kind # "single" =>
             /\ todo \subseteq DOMAIN es
             /\ \A j \in (DOMAIN es) \ todo : es[j] \in QR!Outcomes \cup {"skipped"},
           kind = "rerun" => es = entries /\ \A j \in todo : es[j] = "err"
    PROVE  QueryInv' /\ QR!SendsInOrderStep /\ QR!OkIsNotRepeatedStep
<1> DEFINE r == QR!NewRun(kind, c, chan, todo, es)
<1>1. /\ r.kind = kind /\ r.todo = todo /\ r.own = es /\ (kind = "rerun" => r.from = entries)
      /\ r.conn = c
  BY DEF QR!NewRun
<1>2. r \in QR!RunRecord
  <2>1. (IF kind = "rerun" THEN entries ELSE << >>) \in Seq(QR!Statuses)
    BY DEF QueryInv
  <2>2. QED
    BY <2>1 DEF QR!NewRun, QR!RunRecord, QR!Channels
<1> HIDE DEF r
<1>3. Ready(r)
  BY <1>1 DEF Ready
<1>4. QR!Send(r) /\ sends \in Nat
  BY DEF r, QueryInv
<1>5. r.kind # "single" => \A j \in (DOMAIN r.own) \ r.todo : r.own[j] \in QR!Outcomes \cup {"skipped"}
  BY <1>1
<1>6. /\ run' \in QR!RunRecord /\ run' # None /\ InFlight' /\ entries' \in Seq(QR!Statuses)
      /\ sends' \in Nat /\ run'.kind = r.kind /\ run'.from = r.from /\ last'.stmt \in r.todo
      /\ r.kind # "single" => \A j \in DOMAIN r.own : j # last'.stmt => run'.own[j] = r.own[j]
  BY <1>2, <1>3, <1>4, <1>5, SendGoes
<1>7. QueryInv'
  BY <1>6 DEF QueryInv
<1>8. QR!SendsInOrderStep
  BY DEF QR!SendsInOrderStep, QR!busy
<1>9. QR!OkIsNotRepeatedStep
  BY <1>1, <1>6 DEF QR!OkIsNotRepeatedStep
<1>10. QED
  BY <1>7, <1>8, <1>9

LEMMA StartsKeep ==
    ASSUME QR!RunAssumption, QueryInv, run = None, conn' \in Conns, transport' = transport, QR!Reregister,
           NEW c \in Conns, NEW chan \in QR!Channels, NEW k \in Nat, QR!Start(c, chan, k)
    PROVE  QueryInv' /\ QR!SendsInOrderStep /\ QR!OkIsNotRepeatedStep
<1>1. transport' \in QR!Channels /\ held' \in [QR!Handlers -> [conn : Conns, chan : QR!Channels]]
  BY HeldTyped DEF QueryInv
<1>2. CASE QR!StartSingle(c, chan)
  <2> DEFINE es == << >>
             todo == {1}
  <2>1. QR!Send(QR!NewRun("single", c, chan, todo, es))
    BY <1>2 DEF QR!StartSingle
  <2>2. es \in Seq(QR!Statuses) /\ todo \in SUBSET Nat /\ todo \subseteq {1}
    <3> HIDE DEF QR!Statuses
    <3>1. QED
      BY EmptySeq
  <2> HIDE DEF es, todo
  <2>3. QED
    BY <1>1, <2>1, <2>2, StartKeeps
<1>3. CASE QR!StartMulti(c, chan, k)
  <2> DEFINE es == [i \in 1..k |-> "pending"]
  <2>1. QR!Send(QR!NewRun("multi", c, chan, 1..k, es))
    BY <1>3 DEF QR!StartMulti
  <2>2. es \in [1..k -> QR!Statuses] /\ DOMAIN es = 1..k
    BY DEF QR!Statuses
  <2> HIDE DEF es
  <2>3. es \in Seq(QR!Statuses)
    <3> HIDE DEF QR!Statuses
    <3>1. QED
      BY <2>2
  <2>4. QED
    BY <1>1, <2>1, <2>2, <2>3, StartKeeps
<1>4. QED
  BY <1>2, <1>3 DEF QR!Start

\* A step that sends nothing leaves the run alone.
LEMMA NothingSent ==
    ASSUME QueryInv, UNCHANGED <<run, last, sends>>, entries' = entries \/ entries' = << >>,
           conn' \in Conns, transport' \in QR!Channels,
           held' \in [QR!Handlers -> [conn : Conns, chan : QR!Channels]]
    PROVE  QueryInv' /\ QR!SendsInOrderStep /\ QR!OkIsNotRepeatedStep
<1>1. entries' \in Seq(QR!Statuses) /\ (Settled(entries) => Settled(entries'))
  <2> HIDE DEF QR!Statuses
  <2>1. CASE entries' = entries
    BY <2>1 DEF QueryInv, Settled
  <2>2. CASE entries' = << >>
    BY <2>2, EmptySeq DEF Settled
  <2>3. QED
    BY <2>1, <2>2
<1>2. InFlight => InFlight'
  BY DEF InFlight, Ready
<1>3. QED
  BY <1>1, <1>2 DEF QueryInv, QR!SendsInOrderStep, QR!OkIsNotRepeatedStep

LEMMA SettleKeeps ==
    ASSUME QR!RunAssumption, QueryInv, run # None, NEW out \in QR!Outcomes, QR!Settle(out)
    PROVE  QueryInv' /\ QR!SendsInOrderStep /\ QR!OkIsNotRepeatedStep
<1> DEFINE now == [run.own EXCEPT ![run.at] = out]
           r == [run EXCEPT !.own = now]
<1>1. /\ UNCHANGED <<conn, transport, cancelled>>
      /\ \/ /\ run.kind = "single" /\ run' = None /\ UNCHANGED <<entries, sends>>
         \/ /\ run.kind # "single" /\ QR!GoesOn(run.todo) /\ QR!Send(r)
         \/ /\ run.kind # "single" /\ entries' = QR!Skipped(now, run.todo) /\ run' = None
            /\ UNCHANGED sends
      /\ QR!Reregister
  BY DEF QR!Settle
<1>2. /\ conn' \in Conns /\ transport' \in QR!Channels
      /\ held' \in [QR!Handlers -> [conn : Conns, chan : QR!Channels]]
  BY <1>1, HeldTyped DEF QueryInv
<1>3. run \in QR!RunRecord /\ InFlight /\ out \in QR!Statuses /\ sends \in Nat
  BY DEF QueryInv, QR!Statuses
<1>4. /\ now \in Seq(QR!Statuses) /\ DOMAIN now = DOMAIN run.own
      /\ run.at \in DOMAIN run.own => now[run.at] = out
      /\ \A j \in DOMAIN run.own : j # run.at => now[j] = run.own[j]
  BY <1>3, OneRewritten DEF QR!RunRecord
<1> HIDE DEF now
<1>5. CASE run.kind = "single" /\ run' = None /\ UNCHANGED <<entries, sends>>
  <2>1. entries = << >>
    BY <1>3, <1>5 DEF InFlight
  <2>2. QED
    BY <1>2, <1>5, <2>1 DEF QueryInv, Settled, QR!SendsInOrderStep, QR!OkIsNotRepeatedStep
<1>6. CASE /\ run.kind # "single" /\ entries' = QR!Skipped(now, run.todo) /\ run' = None
           /\ UNCHANGED sends
  <2>1. /\ entries' = [j \in DOMAIN now |-> IF j \in run.todo THEN "skipped" ELSE now[j]]
    BY <1>6 DEF QR!Skipped
  <2>2. \A j \in DOMAIN entries' : entries'[j] \in QR!Outcomes \cup {"skipped"}
    BY <1>3, <1>4, <1>6, <2>1 DEF InFlight
  <2>3. DOMAIN entries' = DOMAIN now /\ entries' \in [DOMAIN entries' -> QR!Statuses]
    BY <2>1, <2>2 DEF QR!Statuses
  <2>4. entries' \in Seq(QR!Statuses)
    BY <1>4, <2>3, StillEntries
  <2>5. QED
    BY <1>2, <1>3, <1>6, <2>2, <2>4 DEF QueryInv, Settled, QR!SendsInOrderStep, QR!OkIsNotRepeatedStep
<1>7. CASE run.kind # "single" /\ QR!GoesOn(run.todo) /\ QR!Send(r)
  <2>1. /\ r.kind = run.kind /\ r.todo = run.todo /\ r.own = now /\ r.from = run.from
        /\ r.conn = run.conn /\ r \in QR!RunRecord
    BY <1>3, <1>4 DEF QR!RunRecord
  <2> HIDE DEF r
  <2>2. Ready(r)
    <3>1. run.kind = "rerun" => run.from[run.at] # "ok"
      BY <1>3 DEF InFlight
    <3>2. QED
      BY <1>3, <1>4, <1>7, <2>1, <3>1 DEF InFlight, Ready
  <2>3. \A j \in (DOMAIN r.own) \ r.todo : r.own[j] \in QR!Outcomes \cup {"skipped"}
    BY <1>3, <1>4, <1>7, <2>1 DEF InFlight
  <2>4. /\ run' \in QR!RunRecord /\ run' # None /\ InFlight' /\ entries' \in Seq(QR!Statuses)
        /\ sends' \in Nat
        /\ run'.kind = r.kind /\ run'.from = r.from /\ last'.stmt \in r.todo /\ last'.conn = r.conn
        /\ \A j \in DOMAIN r.own : j # last'.stmt => run'.own[j] = r.own[j]
    BY <1>3, <1>7, <2>1, <2>2, <2>3, SendGoes
  <2>5. QueryInv'
    BY <1>2, <2>4 DEF QueryInv
  <2>6. last'.stmt > last.stmt /\ last'.conn = last.conn /\ run.at = last.stmt
    BY <1>3, <2>1, <2>4 DEF InFlight
  <2>7. run'.own[last.stmt] \in QR!Outcomes
    <3>1. last.stmt \in DOMAIN r.own /\ r.own[last.stmt] = out /\ last.stmt \in Nat
      BY <1>3, <1>4, <1>7, <2>1, <2>6 DEF InFlight, QR!RunRecord
    <3>2. last'.stmt # last.stmt
      BY <1>3, <2>1, <2>4, <2>6 DEF QR!RunRecord
    <3>3. QED
      BY <2>4, <3>1, <3>2
  <2>8. QR!SendsInOrderStep
    BY <1>7, <2>6, <2>7 DEF QR!SendsInOrderStep, QR!GoesOn
  <2>9. QR!OkIsNotRepeatedStep
    BY <2>1, <2>2, <2>4 DEF QR!OkIsNotRepeatedStep, Ready
  <2>10. QED
    BY <2>5, <2>8, <2>9
<1>8. QED
  BY <1>1, <1>5, <1>6, <1>7

LEMMA QuerySteps ==
    ASSUME QR!RunAssumption, QueryInv, [QR!Next]_(QR!vars)
    PROVE  QueryInv' /\ QR!SendsInOrderStep /\ QR!OkIsNotRepeatedStep
<1>1. conn \in Conns /\ transport \in QR!Channels
  BY DEF QueryInv
<1>2. ASSUME NEW k \in 1..MaxStatements,
             QR!Run(k) \/ \E h \in QR!Handlers : QR!RunHeld(h, k)
      PROVE  QueryInv' /\ QR!SendsInOrderStep /\ QR!OkIsNotRepeatedStep
  <2>1. PICK c \in Conns, chan \in QR!Channels : QR!Start(c, chan, k)
    BY <1>1, <1>2 DEF QR!Run, QR!RunHeld, QueryInv
  <2>2. run = None /\ conn' \in Conns /\ transport' = transport /\ QR!Reregister /\ k \in Nat
    BY <1>1, <1>2 DEF QR!Run, QR!RunHeld, QR!MayStart, QR!busy, QR!RunAssumption
  <2>3. QED
    BY <2>1, <2>2, StartsKeep
<1>3. CASE QR!RunPreview \/ \E c \in Conns, listed_ \in BOOLEAN : QR!LogPick(c, listed_)
  <2>1. /\ run = None /\ conn' \in Conns /\ transport' = transport /\ QR!Reregister
        /\ "http" \in QR!Channels
    BY <1>1, <1>3 DEF QR!RunPreview, QR!LogPick, QR!MayStart, QR!busy, QR!Channels
  <2>2. PICK c \in Conns : QR!StartSingle(c, "http")
    BY <1>1, <1>3, <2>1 DEF QR!RunPreview, QR!LogPick
  <2>3. QR!Start(c, "http", 1)
    BY <2>2 DEF QR!Start
  <2>4. QED
    BY <2>1, <2>3, StartsKeep
<1>4. CASE QR!RerunFailed
  <2>1. /\ run = None /\ UNCHANGED <<conn, transport, held>>
        /\ QR!Send(QR!NewRun("rerun", conn, transport, QR!Failed, entries))
    BY <1>4 DEF QR!RerunFailed, QR!MayStart, QR!busy
  <2>2. entries \in Seq(QR!Statuses) /\ Settled(entries)
    BY <2>1 DEF QueryInv
  <2>3. QR!Failed \in SUBSET Nat
    BY <2>2, LenProperties DEF QR!Failed
  <2>4. /\ QR!Failed \subseteq DOMAIN entries /\ \A j \in QR!Failed : entries[j] = "err"
        /\ \A j \in (DOMAIN entries) \ QR!Failed : entries[j] \in QR!Outcomes \cup {"skipped"}
    BY <2>2 DEF QR!Failed, Settled
  <2>5. held' \in [QR!Handlers -> [conn : Conns, chan : QR!Channels]]
    BY <2>1 DEF QueryInv
  <2>6. QED
    BY <1>1, <2>1, <2>2, <2>3, <2>4, <2>5, StartKeeps
<1>5. CASE QR!Connected
  <2>1. /\ run # None /\ run' = [run EXCEPT !.phase = "sent"] /\ QR!Reregister
        /\ UNCHANGED <<conn, transport, entries, sends, last>>
    BY <1>5 DEF QR!Connected, QR!busy
  <2>2. /\ run \in QR!RunRecord /\ run' \in QR!RunRecord /\ InFlight
        /\ run'.kind = run.kind /\ run'.todo = run.todo /\ run'.own = run.own /\ run'.from = run.from
        /\ run'.at = run.at /\ run'.conn = run.conn
    BY <2>1 DEF QueryInv, QR!RunRecord
  <2>3. InFlight' /\ run' # None
    BY <2>1, <2>2 DEF InFlight, Ready, QR!RunAssumption
  <2>4. held' \in [QR!Handlers -> [conn : Conns, chan : QR!Channels]]
    BY <1>1, <2>1, HeldTyped
  <2>5. QED
    BY <2>1, <2>2, <2>3, <2>4 DEF QueryInv, QR!SendsInOrderStep, QR!OkIsNotRepeatedStep
<1>6. CASE QR!Poll \/ \E out \in QR!Outcomes : QR!Answer(out)
  <2>1. PICK out \in QR!Outcomes : QR!Settle(out) /\ run # None
    BY <1>6 DEF QR!Poll, QR!Answer, QR!busy, QR!Outcomes
  <2>2. QED
    BY <2>1, SettleKeeps
<1>7. CASE \/ QR!CancelButton \/ QR!CancelKey \/ QR!HandleCancel \/ QR!ClearResult \/ UNCHANGED QR!vars
           \/ \E i \in 1..MaxStatements : QR!ShowEntry(i)
           \/ \E t \in QR!Channels : QR!SetTransport(t)
           \/ \E c \in Conns : QR!SwitchConn(c)
  <2>1. /\ UNCHANGED <<run, last, sends>> /\ (entries' = entries \/ entries' = << >>)
        /\ conn' \in Conns /\ transport' \in QR!Channels
        /\ held' = held \/ QR!Reregister
    BY <1>1, <1>7 DEF QR!CancelButton, QR!CancelKey, QR!CancelMulti, QR!HandleCancel, QR!ClearResult,
       QR!ShowEntry, QR!SetTransport, QR!SwitchConn, QR!vars
  <2>2. held' \in [QR!Handlers -> [conn : Conns, chan : QR!Channels]]
    BY <2>1, HeldTyped DEF QueryInv
  <2>3. QED
    BY <2>1, <2>2, NothingSent
<1>8. QED
  BY <1>2, <1>3, <1>4, <1>5, <1>6, <1>7 DEF QR!Next

-----------------------------------------------------------------------------
(* The tabs of the editor.                                                 *)

\* A list of tabs with different ids up to n, of which id is one.
TabsOK(ts, id, n) ==
    /\ ts \in Seq([id : Nat, text : TabTexts])
    /\ \A i, j \in DOMAIN ts : ts[i].id = ts[j].id => i = j
    /\ \A i \in DOMAIN ts : ts[i].id \in 1..n
    /\ \E i \in DOMAIN ts : ts[i].id = id

\* When no save is due, the active new holds the text and the list is stored.
EditorInv ==
    /\ conn \in Conns /\ DOMAIN store = Conns /\ made \in Nat
    /\ text \in TabTexts /\ coming \in TabTexts \cup {None}
    /\ TabsOK(tabs, active, made)
    /\ \A c \in Conns : store[c] # None => TabsOK(store[c].tabs, store[c].active, made)
    /\ ~armed /\ coming = None =>
         ET!TextOf(tabs, active) = text /\ store[conn] = ET!Saved(tabs, active)

\* Whatever is stored, it is stored under the connection then on display.
StoresCurrent == store' = store \/ \E s : store' = [store EXCEPT ![conn'] = s]

LEMMA Elements ==
    ASSUME NEW S, NEW s \in Seq(S)
    PROVE  Len(s) \in Nat /\ DOMAIN s = 1..Len(s) /\ \A i \in DOMAIN s : s[i] \in S
BY LenProperties, ElementOfSeq

LEMMA TabIsThere ==
    ASSUME NEW ts, NEW id, NEW n, TabsOK(ts, id, n)
    PROVE  /\ ET!IndexOf(ts, id) \in DOMAIN ts /\ ts[ET!IndexOf(ts, id)].id = id
           /\ ET!TextOf(ts, id) \in TabTexts
           /\ \A i \in DOMAIN ts : ts[i].id = id => ET!TextOf(ts, id) = ts[i].text
<1>1. ET!IndexOf(ts, id) \in DOMAIN ts /\ ts[ET!IndexOf(ts, id)].id = id
  BY DEF TabsOK, ET!IndexOf
<1>2. \A i \in DOMAIN ts : ts[i] \in [id : Nat, text : TabTexts]
  BY Elements DEF TabsOK
<1>3. QED
  BY <1>1, <1>2 DEF TabsOK, ET!TextOf

\* Writing a text into a tab leaves the list as it is but for that text.
LEMMA TextIsWritten ==
    ASSUME NEW ts, NEW id, NEW n, TabsOK(ts, id, n), NEW t \in TabTexts
    PROVE  /\ TabsOK(ET!WithText(ts, id, t), id, n)
           /\ ET!TextOf(ET!WithText(ts, id, t), id) = t
           /\ ET!TextOf(ts, id) = t => ET!WithText(ts, id, t) = ts
<1> DEFINE k == ET!IndexOf(ts, id)
           w == ET!WithText(ts, id, t)
<1>1. k \in DOMAIN ts /\ ts[k].id = id
  BY TabIsThere
<1>2. /\ ts \in Seq([id : Nat, text : TabTexts]) /\ Len(ts) \in Nat /\ DOMAIN ts = 1..Len(ts)
      /\ \A i \in DOMAIN ts : ts[i] \in [id : Nat, text : TabTexts]
  BY Elements DEF TabsOK
<1>3. w = [ts EXCEPT ![k] = [ts[k] EXCEPT !.text = t]]
  BY DEF ET!WithText
<1> HIDE DEF k, w
<1>4. [ts[k] EXCEPT !.text = t] \in [id : Nat, text : TabTexts]
      /\ [ts[k] EXCEPT !.text = t].id = ts[k].id /\ [ts[k] EXCEPT !.text = t].text = t
  BY <1>1, <1>2
<1>5. /\ DOMAIN w = DOMAIN ts /\ \A i \in DOMAIN ts : w[i].id = ts[i].id
      /\ w[k].text = t
  BY <1>1, <1>2, <1>3, <1>4
<1>6. w \in Seq([id : Nat, text : TabTexts])
  BY <1>1, <1>2, <1>3, <1>4
<1>7. TabsOK(w, id, n)
  BY <1>5, <1>6 DEF TabsOK
<1>8. ET!TextOf(w, id) = t
  BY <1>1, <1>5, <1>7, TabIsThere
<1>9. ASSUME ET!TextOf(ts, id) = t
      PROVE  w = ts
  <2>1. ts[k].text = t
    BY <1>9 DEF ET!TextOf, k
  <2>2. [ts[k] EXCEPT !.text = t] = ts[k]
    BY <1>1, <1>2, <2>1
  <2>3. QED
    BY <1>1, <1>2, <1>3, <2>2
<1>10. QED
  BY <1>7, <1>8, <1>9 DEF w

LEMMA MoreIds ==
    ASSUME NEW ts, NEW id, NEW n \in Nat, NEW m \in Nat, n <= m, TabsOK(ts, id, n)
    PROVE  TabsOK(ts, id, m)
BY DEF TabsOK

LEMMA OneTab ==
    ASSUME NEW n \in Nat, NEW t \in TabTexts
    PROVE  TabsOK(<<[id |-> n + 1, text |-> t]>>, n + 1, n + 1)
<1> DEFINE new == [id |-> n + 1, text |-> t]
           ts == <<new>>
<1>1. new \in [id : Nat, text : TabTexts] /\ new.id = n + 1
  OBVIOUS
<1> HIDE DEF new
<1>2. ts \in Seq([id : Nat, text : TabTexts]) /\ DOMAIN ts = {1} /\ ts[1] = new
  BY <1>1
<1> HIDE DEF ts
<1>3. TabsOK(ts, n + 1, n + 1)
  BY <1>1, <1>2 DEF TabsOK
<1>4. QED
  BY <1>3 DEF ts, new

LEMMA TabIsAdded ==
    ASSUME NEW ts, NEW id, NEW n \in Nat, TabsOK(ts, id, n), NEW t \in TabTexts
    PROVE  TabsOK(Append(ts, [id |-> n + 1, text |-> t]), n + 1, n + 1) /\ id # n + 1
<1> DEFINE new == [id |-> n + 1, text |-> t]
           as == Append(ts, new)
<1>1. new \in [id : Nat, text : TabTexts] /\ new.id = n + 1
  OBVIOUS
<1> HIDE DEF new
<1>2. /\ ts \in Seq([id : Nat, text : TabTexts]) /\ Len(ts) \in Nat /\ DOMAIN ts = 1..Len(ts)
  BY DEF TabsOK
<1>3. /\ as \in Seq([id : Nat, text : TabTexts]) /\ DOMAIN as = 1..(Len(ts) + 1)
      /\ as[Len(ts) + 1] = new /\ \A i \in 1..Len(ts) : as[i] = ts[i]
  BY <1>1, <1>2
<1> HIDE DEF as
<1>4. \A i \in 1..Len(ts) : ts[i].id \in 1..n /\ ts[i].id # n + 1
  BY <1>2 DEF TabsOK
<1>5. \A i \in DOMAIN as : i \in 1..Len(ts) \/ i = Len(ts) + 1
  BY <1>2, <1>3
<1>6. \A i, j \in DOMAIN as : as[i].id = as[j].id => i = j
  <2> SUFFICES ASSUME NEW i \in DOMAIN as, NEW j \in DOMAIN as, as[i].id = as[j].id
               PROVE  i = j
    OBVIOUS
  <2>1. CASE i \in 1..Len(ts) /\ j \in 1..Len(ts)
    BY <1>2, <1>3, <2>1 DEF TabsOK
  <2>2. CASE i = Len(ts) + 1 \/ j = Len(ts) + 1
    BY <1>1, <1>3, <1>4, <1>5, <2>2
  <2>3. QED
    BY <1>5, <2>1, <2>2
<1>7. ASSUME NEW i \in DOMAIN as
      PROVE  as[i].id \in 1..(n + 1)
  <2>1. n + 1 \in 1..(n + 1) /\ \A x \in 1..n : x \in 1..(n + 1)
    OBVIOUS
  <2>2. CASE i \in 1..Len(ts)
    BY <1>3, <1>4, <2>1, <2>2
  <2>3. CASE i = Len(ts) + 1
    BY <1>1, <1>3, <2>1, <2>3
  <2>4. QED
    BY <1>5, <2>2, <2>3
<1>8. Len(ts) + 1 \in DOMAIN as
  BY <1>2, <1>3
<1>9. TabsOK(as, n + 1, n + 1)
  BY <1>1, <1>3, <1>6, <1>7, <1>8 DEF TabsOK
<1>10. id # n + 1
  BY <1>2, <1>4 DEF TabsOK
<1>11. QED
  BY <1>9, <1>10 DEF as, new

\* Without the tab at i the list still has all the others.
LEMMA TabIsGone ==
    ASSUME NEW ts, NEW id, NEW n, TabsOK(ts, id, n), NEW i \in DOMAIN ts
    PROVE  /\ ET!RemoveAt(ts, i) \in Seq([id : Nat, text : TabTexts])
           /\ Len(ET!RemoveAt(ts, i)) = Len(ts) - 1
           /\ \A j \in 1..(Len(ts) - 1) :
                ET!RemoveAt(ts, i)[j] = IF j < i THEN ts[j] ELSE ts[j + 1]
<1> DEFINE S == [id : Nat, text : TabTexts]
           a == SubSeq(ts, 1, i - 1)
           b == SubSeq(ts, i + 1, Len(ts))
<1>1. ts \in Seq(S) /\ Len(ts) \in Nat /\ i \in 1..Len(ts)
  BY DEF TabsOK
<1> HIDE DEF S
<1>2. a \in Seq(S) /\ Len(a) = i - 1 /\ \A j \in 1..(i - 1) : a[j] = ts[j]
  BY <1>1
<1>3. b \in Seq(S) /\ Len(b) = Len(ts) - i /\ \A j \in 1..(Len(ts) - i) : b[j] = ts[i + j]
  BY <1>1
<1> HIDE DEF a, b
<1>4. /\ a \o b \in Seq(S) /\ Len(a \o b) = Len(a) + Len(b)
      /\ \A j \in 1..(Len(a) + Len(b)) : (a \o b)[j] = IF j <= Len(a) THEN a[j] ELSE b[j - Len(a)]
  BY <1>2, <1>3, ConcatProperties
<1>5. Len(a) + Len(b) = Len(ts) - 1
  BY <1>1, <1>2, <1>3
<1>6. ASSUME NEW j \in 1..(Len(ts) - 1)
      PROVE  (a \o b)[j] = IF j < i THEN ts[j] ELSE ts[j + 1]
  <2>1. CASE j < i
    BY <1>1, <1>2, <1>4, <1>5, <2>1
  <2>2. CASE ~(j < i)
    <3>1. ~(j <= Len(a)) /\ j - Len(a) \in 1..(Len(ts) - i) /\ i + (j - Len(a)) = j + 1
      BY <1>1, <1>2, <2>2
    <3>2. QED
      BY <1>3, <1>4, <1>5, <2>2, <3>1
  <2>3. QED
    BY <2>1, <2>2
<1>7. ET!RemoveAt(ts, i) = a \o b
  BY DEF ET!RemoveAt, a, b
<1>8. QED
  BY <1>4, <1>5, <1>6, <1>7 DEF S

LEMMA RestIsOK ==
    ASSUME NEW ts, NEW id, NEW n, TabsOK(ts, id, n), NEW i \in DOMAIN ts, Len(ts) > 1,
           NEW jd, \E j \in DOMAIN ts : j # i /\ ts[j].id = jd
    PROVE  /\ TabsOK(ET!RemoveAt(ts, i), jd, n)
           /\ ET!TextOf(ET!RemoveAt(ts, i), jd) = ET!TextOf(ts, jd)
<1> DEFINE rs == ET!RemoveAt(ts, i)
           Old(j) == IF j < i THEN j ELSE j + 1
<1>1. ts \in Seq([id : Nat, text : TabTexts]) /\ Len(ts) \in Nat /\ DOMAIN ts = 1..Len(ts)
  BY DEF TabsOK
<1>2. /\ rs \in Seq([id : Nat, text : TabTexts]) /\ DOMAIN rs = 1..(Len(ts) - 1)
      /\ \A j \in DOMAIN rs : rs[j] = ts[Old(j)] /\ Old(j) \in DOMAIN ts
  <2>1. DOMAIN rs = 1..(Len(ts) - 1) /\ rs \in Seq([id : Nat, text : TabTexts])
    BY <1>1, TabIsGone
  <2>2. \A j \in 1..(Len(ts) - 1) : Old(j) \in 1..Len(ts)
    BY <1>1
  <2>3. \A j \in 1..(Len(ts) - 1) : rs[j] = ts[Old(j)]
    BY TabIsGone
  <2>4. QED
    BY <1>1, <2>1, <2>2, <2>3
<1>3. \A j, k \in DOMAIN rs : Old(j) = Old(k) => j = k
  <2>1. DOMAIN rs \subseteq Int /\ i \in Int
    BY <1>1, <1>2
  <2>2. \A j, k \in Int : Old(j) = Old(k) => j = k
    BY <2>1
  <2> HIDE DEF Old, rs
  <2>3. QED
    BY <2>1, <2>2
<1>4. PICK m \in DOMAIN ts : m # i /\ ts[m].id = jd
  OBVIOUS
<1>5. PICK k \in DOMAIN rs : Old(k) = m
  <2>1. CASE m < i
    BY <1>1, <1>2, <2>1
  <2>2. CASE m > i
    <3>1. m - 1 \in DOMAIN rs /\ ~(m - 1 < i) /\ m - 1 + 1 = m
      BY <1>1, <1>2, <2>2
    <3>2. QED
      BY <3>1
  <2>3. QED
    BY <1>1, <1>4, <2>1, <2>2
<1> HIDE DEF rs, Old
<1>6. \A j \in DOMAIN rs : rs[j].id = ts[Old(j)].id
  BY <1>2
<1>7. \A j, l \in DOMAIN rs : rs[j].id = rs[l].id => j = l
  <2> SUFFICES ASSUME NEW j \in DOMAIN rs, NEW l \in DOMAIN rs, rs[j].id = rs[l].id
               PROVE  j = l
    OBVIOUS
  <2>1. ts[Old(j)].id = ts[Old(l)].id /\ Old(j) \in DOMAIN ts /\ Old(l) \in DOMAIN ts
    BY <1>2, <1>6
  <2>2. Old(j) = Old(l)
    BY <2>1 DEF TabsOK
  <2>3. QED
    BY <1>3, <2>2
<1>8. TabsOK(rs, jd, n)
  <2>1. \A j \in DOMAIN rs : rs[j].id \in 1..n
    BY <1>2 DEF TabsOK
  <2>2. rs[k].id = jd
    BY <1>4, <1>5, <1>6
  <2>3. QED
    BY <1>2, <1>5, <1>7, <2>1, <2>2 DEF TabsOK
<1>9. TabsOK(ts, jd, n)
  BY <1>4 DEF TabsOK
<1>10. ET!TextOf(rs, jd) = rs[k].text
  BY <1>4, <1>5, <1>6, <1>8, TabIsThere
<1>11. ET!TextOf(ts, jd) = ts[m].text
  BY <1>4, <1>9, TabIsThere
<1>12. QED
  BY <1>2, <1>5, <1>8, <1>10, <1>11 DEF rs

LEMMA EditorStarts == ET!TabsAssumption /\ ET!Init => EditorInv
<1> SUFFICES ASSUME ET!TabsAssumption, ET!Init
             PROVE  EditorInv
  OBVIOUS
<1>1. TabsOK(<<[id |-> 0 + 1, text |-> Default]>>, 0 + 1, 0 + 1) /\ 0 + 1 = 1
  BY OneTab DEF ET!TabsAssumption
<1>2. /\ conn \in Conns /\ DOMAIN store = Conns /\ made = 1 /\ text = Default /\ coming = None
      /\ armed /\ tabs = <<[id |-> 1, text |-> Default]>> /\ active = 1
      /\ \A c \in Conns : store[c] = IF c = conn THEN ET!Saved(tabs, 1) ELSE None
  BY DEF ET!Init
<1>3. TabsOK(tabs, active, made) /\ made \in Nat
  BY <1>1, <1>2
<1>4. \A c \in Conns : store[c] # None => TabsOK(store[c].tabs, store[c].active, made)
  BY <1>2, <1>3 DEF ET!Saved
<1>5. QED
  BY <1>2, <1>3, <1>4 DEF EditorInv, ET!TabsAssumption

\* Storing well-formed tabs under the connection on display.
LEMMA StoredOK ==
    ASSUME EditorInv, NEW c \in Conns, NEW ts, NEW id, NEW m \in Nat, made <= m, TabsOK(ts, id, m),
           store' = [store EXCEPT ![c] = ET!Saved(ts, id)]
    PROVE  /\ DOMAIN store' = Conns /\ store'[c] = ET!Saved(ts, id)
           /\ \A d \in Conns : store'[d] # None => TabsOK(store'[d].tabs, store'[d].active, m)
<1>1. DOMAIN store' = Conns /\ store'[c] = ET!Saved(ts, id)
  BY DEF EditorInv
<1>2. ASSUME NEW d \in Conns, store'[d] # None
      PROVE  TabsOK(store'[d].tabs, store'[d].active, m)
  <2>1. CASE d = c
    BY <1>1, <2>1 DEF ET!Saved
  <2>2. CASE d # c
    <3>1. store'[d] = store[d]
      BY <2>2 DEF EditorInv
    <3>2. QED
      BY <1>2, <3>1, MoreIds DEF EditorInv
  <2>3. QED
    BY <2>1, <2>2
<1>3. QED
  BY <1>1, <1>2

LEMMA LoadedOK ==
    ASSUME EditorInv, NEW c \in Conns, ET!Loaded(c), ET!TabsAssumption
    PROVE  /\ coming' \in TabTexts /\ coming' # None /\ made' \in Nat /\ DOMAIN store' = Conns
           /\ TabsOK(tabs', active', made')
           /\ \A d \in Conns : store'[d] # None => TabsOK(store'[d].tabs, store'[d].active, made')
           /\ store' = store \/ \E s : store' = [store EXCEPT ![c] = s]
<1>1. CASE store[c] # None
  <2>1. /\ tabs' = store[c].tabs /\ active' = store[c].active
        /\ coming' = ET!TextOf(tabs', active') /\ UNCHANGED <<made, store>>
    BY <1>1 DEF ET!Loaded
  <2>2. TabsOK(tabs', active', made')
    BY <1>1, <2>1 DEF EditorInv
  <2>3. QED
    BY <2>1, <2>2, TabIsThere DEF EditorInv, ET!TabsAssumption
<1>2. CASE store[c] = None
  <2>1. /\ made' = made + 1 /\ coming' \in TabTexts /\ active' = made' /\ made \in Nat
        /\ tabs' = <<[id |-> made', text |-> coming']>>
        /\ store' = [store EXCEPT ![c] = ET!Saved(tabs', active')]
    BY <1>2 DEF ET!Loaded, EditorInv
  <2>2. TabsOK(tabs', active', made') /\ made' \in Nat /\ made <= made'
    BY <2>1, OneTab
  <2>3. QED
    BY <2>1, <2>2, StoredOK DEF ET!TabsAssumption
<1>3. QED
  BY <1>1, <1>2

\* Showing another new, or the same, of a list that is stored with it.
LEMMA ActivateOK ==
    ASSUME EditorInv, NEW ts, NEW id, made' \in Nat, made <= made', TabsOK(ts, id, made'),
           ET!Activate(ts, id), id = active => ET!TextOf(ts, id) = ET!TextOf(tabs, active)
    PROVE  EditorInv'
<1>1. /\ tabs' = ts /\ active' = id /\ UNCHANGED <<conn, coming>>
      /\ text' = (IF id = active THEN text ELSE ET!TextOf(ts, id))
      /\ armed' = (armed \/ id # active) /\ conn \in Conns
      /\ store' = [store EXCEPT ![conn] = ET!Saved(ts, id)]
  BY DEF ET!Activate, ET!SaveTabState, EditorInv
<1>2. /\ DOMAIN store' = Conns /\ store'[conn] = ET!Saved(ts, id)
      /\ \A d \in Conns : store'[d] # None => TabsOK(store'[d].tabs, store'[d].active, made')
  BY <1>1, StoredOK
<1>3. text' \in TabTexts
  BY <1>1, TabIsThere DEF EditorInv
<1>4. ~armed' /\ coming' = None => ET!TextOf(ts, id) = text'
  BY <1>1 DEF EditorInv
<1>5. QED
  BY <1>1, <1>2, <1>3, <1>4 DEF EditorInv

LEMMA EditorSteps ==
    ASSUME ET!TabsAssumption, EditorInv, [ET!Next]_(ET!vars)
    PROVE  EditorInv' /\ StoresCurrent /\ conn' \in Conns
<1> USE DEF StoresCurrent
<1>0. /\ conn \in Conns /\ DOMAIN store = Conns /\ made \in Nat /\ TabsOK(tabs, active, made)
      /\ text \in TabTexts /\ coming \in TabTexts \cup {None} /\ None \notin TabTexts
      /\ Default \in TabTexts
  BY DEF EditorInv, ET!TabsAssumption
<1>1. ASSUME NEW c \in Conns, ET!SwitchConn(c) \/ ET!Reload(c)
      PROVE  EditorInv' /\ StoresCurrent /\ conn' \in Conns
  <2>1. conn' = c /\ ET!Loaded(c) /\ text' \in TabTexts
    BY <1>0, <1>1 DEF ET!SwitchConn, ET!Reload
  <2>2. QED
    BY <2>1, LoadedOK DEF EditorInv
<1>2. CASE ET!Rendered
  BY <1>0, <1>2 DEF ET!Rendered, EditorInv
<1>3. CASE ET!Save
  <2>0. made <= made
    BY <1>0
  <2>1. /\ tabs' = ET!WithText(tabs, active, text) /\ UNCHANGED <<conn, active, text, coming, made>>
        /\ store' = [store EXCEPT ![conn] = ET!Saved(tabs', active)]
    BY <1>3 DEF ET!Save, ET!SaveTabState
  <2>2. TabsOK(tabs', active, made) /\ ET!TextOf(tabs', active) = text
    BY <1>0, <2>1, TextIsWritten
  <2>3. /\ DOMAIN store' = Conns /\ store'[conn] = ET!Saved(tabs', active)
        /\ \A d \in Conns : store'[d] # None => TabsOK(store'[d].tabs, store'[d].active, made)
    BY <1>0, <2>0, <2>1, <2>2, StoredOK
  <2>4. QED
    BY <1>0, <2>1, <2>2, <2>3 DEF EditorInv
<1>4. ASSUME NEW t \in TabTexts, ET!Type(t)
      PROVE  EditorInv' /\ StoresCurrent /\ conn' \in Conns
  BY <1>0, <1>4 DEF ET!Type, EditorInv
<1>5. ASSUME NEW i \in DOMAIN tabs, ET!SwitchToTab(tabs[i].id)
      PROVE  EditorInv'
  <2>1. TabsOK(tabs, tabs[i].id, made)
    BY <1>0 DEF TabsOK
  <2>2. QED
    BY <1>0, <1>5, <2>1, ActivateOK DEF ET!SwitchToTab
<1>6. ASSUME ET!AddTab
      PROVE  EditorInv'
  <2> DEFINE more == Append(tabs, [id |-> made + 1, text |-> Default])
             m == made + 1
  <2>1. made' = m /\ ET!Activate(more, m)
    BY <1>6 DEF ET!AddTab
  <2>2. TabsOK(more, m, m) /\ active # m /\ m \in Nat /\ made <= m
    BY <1>0, TabIsAdded
  <2> HIDE DEF more, m
  <2>3. m = active => ET!TextOf(more, m) = ET!TextOf(tabs, active)
    BY <2>2
  <2>4. QED
    BY <2>1, <2>2, <2>3, ActivateOK
<1>7. ASSUME NEW i \in DOMAIN tabs, ET!CloseTab(i)
      PROVE  EditorInv'
  <2> DEFINE next == ET!RemoveAt(tabs, i)
             place == IF i <= Len(next) THEN i ELSE Len(next)
             id == IF tabs[i].id = active THEN next[place].id ELSE active
  <2>1. Len(tabs) > 1 /\ made' = made /\ ET!Activate(next, id)
    BY <1>7 DEF ET!CloseTab
  <2>2. tabs \in Seq([id : Nat, text : TabTexts]) /\ Len(tabs) \in Nat /\ DOMAIN tabs = 1..Len(tabs)
    BY <1>0 DEF TabsOK
  <2>3. Len(next) = Len(tabs) - 1 /\ place \in 1..Len(next)
        /\ next[place] = IF place < i THEN tabs[place] ELSE tabs[place + 1]
    <3>1. /\ Len(next) = Len(tabs) - 1
          /\ \A j \in 1..(Len(tabs) - 1) : next[j] = IF j < i THEN tabs[j] ELSE tabs[j + 1]
      BY <1>0, TabIsGone
    <3> HIDE DEF next
    <3>2. place \in 1..(Len(tabs) - 1)
      BY <2>1, <2>2, <3>1
    <3>3. QED
      BY <3>1, <3>2
  <2>4. \E j \in DOMAIN tabs : j # i /\ tabs[j].id = id
    <3>1. CASE tabs[i].id = active
      <4>1. PICK j \in DOMAIN tabs : j # i /\ next[place] = tabs[j]
        <5> HIDE DEF place, next
        <5>1. place \in DOMAIN tabs /\ place + 1 \in DOMAIN tabs
          BY <2>2, <2>3
        <5>2. CASE place < i
          BY <2>2, <2>3, <5>1, <5>2
        <5>3. CASE ~(place < i)
          <6>1. place + 1 # i
            BY <2>2, <5>1, <5>3
          <6>2. next[place] = tabs[place + 1]
            BY <2>3, <5>3
          <6>3. QED
            BY <5>1, <6>1, <6>2
        <5>4. QED
          BY <5>2, <5>3
      <4>2. QED
        BY <3>1, <4>1
    <3>2. CASE tabs[i].id # active
      BY <1>0, <3>2 DEF TabsOK
    <3>3. QED
      BY <3>1, <3>2
  <2> HIDE DEF id, next
  <2>5. TabsOK(next, id, made) /\ ET!TextOf(next, id) = ET!TextOf(tabs, id)
    BY <1>0, <2>1, <2>4, RestIsOK DEF next
  <2>6. QED
    BY <1>0, <2>1, <2>5, ActivateOK
<1>8. CASE ET!RenameTab
  <2>0. made <= made
    BY <1>0
  <2>1. /\ UNCHANGED <<conn, tabs, active, text, armed, coming, made>>
        /\ store' = [store EXCEPT ![conn] = ET!Saved(tabs, active)]
    BY <1>8 DEF ET!RenameTab, ET!SaveTabState
  <2>2. /\ DOMAIN store' = Conns /\ store'[conn] = ET!Saved(tabs, active)
        /\ \A d \in Conns : store'[d] # None => TabsOK(store'[d].tabs, store'[d].active, made)
    BY <1>0, <2>0, <2>1, StoredOK
  <2>3. QED
    BY <1>0, <2>1, <2>2 DEF EditorInv
<1>9. CASE ET!CycleTab
  <2> DEFINE k == (ET!IndexOf(tabs, active) % Len(tabs)) + 1
  <2>1. /\ active' = tabs[k].id /\ text' = ET!TextOf(tabs, active') /\ armed' = TRUE
        /\ UNCHANGED <<conn, tabs, coming, made, store>> /\ Len(tabs) > 1
    BY <1>9 DEF ET!CycleTab
  <2>2. k \in DOMAIN tabs
    <3>0. Len(tabs) \in Nat /\ DOMAIN tabs = 1..Len(tabs) /\ ET!IndexOf(tabs, active) \in DOMAIN tabs
      BY <1>0, Elements, TabIsThere DEF TabsOK
    <3>1. ET!IndexOf(tabs, active) \in Nat
      BY <3>0
    <3>2. \A a, b \in Nat : b > 1 => a % b \in 0..(b - 1)
      OBVIOUS
    <3>3. ET!IndexOf(tabs, active) % Len(tabs) \in 0..(Len(tabs) - 1)
      BY <2>1, <3>0, <3>1, <3>2
    <3>4. QED
      BY <2>1, <3>0, <3>3
  <2> HIDE DEF k
  <2>3. TabsOK(tabs, tabs[k].id, made)
    BY <1>0, <2>2 DEF TabsOK
  <2>4. ET!TextOf(tabs, tabs[k].id) \in TabTexts
    BY <2>3, TabIsThere
  <2>5. QED
    BY <1>0, <2>1, <2>3, <2>4 DEF EditorInv
<1>10. CASE UNCHANGED ET!vars
  BY <1>0, <1>10 DEF ET!vars, EditorInv
<1>11. ASSUME NEW ts, NEW id, ET!Activate(ts, id)
       PROVE  StoresCurrent /\ conn' \in Conns
  BY <1>0, <1>11 DEF ET!Activate, ET!SaveTabState
<1>12. CASE ET!Save \/ ET!RenameTab
  BY <1>0, <1>3, <1>8, <1>12 DEF ET!Save, ET!RenameTab, ET!SaveTabState
<1>13. CASE ET!AddTab \/ \E i \in DOMAIN tabs : ET!SwitchToTab(tabs[i].id) \/ ET!CloseTab(i)
  BY <1>5, <1>6, <1>7, <1>11, <1>13 DEF ET!AddTab, ET!SwitchToTab, ET!CloseTab
<1>14. QED
  BY <1>1, <1>2, <1>4, <1>9, <1>10, <1>12, <1>13 DEF ET!Next

\* What is stored is what is shown, and no other connection is touched.
LEMMA QuietEditor == EditorInv => ET!QuietIsSaved
BY TextIsWritten DEF EditorInv, ET!QuietIsSaved

LEMMA EditorLeavesOthers ==
    ASSUME EditorInv, StoresCurrent, conn' \in Conns
    PROVE  ET!OthersUntouchedStep
BY DEF EditorInv, StoresCurrent, ET!OthersUntouchedStep

-----------------------------------------------------------------------------
(* The tabs of objects.                                                    *)

ObjectsInv == conn \in Conns /\ DOMAIN store = Conns /\ OT!ShownIsStored

LEMMA ObjectsStart == OT!Init => ObjectsInv
BY DEF OT!Init, ObjectsInv, OT!ShownIsStored

LEMMA ObjectsSteps ==
    ASSUME ObjectsInv, [OT!Next]_(OT!vars)
    PROVE  ObjectsInv' /\ OT!OthersUntouchedStep
<1> USE DEF ObjectsInv, OT!ShownIsStored, OT!OthersUntouchedStep
<1>1. ASSUME NEW s, OT!Mutate(s)
      PROVE  ObjectsInv' /\ OT!OthersUntouchedStep
  BY <1>1 DEF OT!Mutate
<1>2. CASE OT!Rendered
  BY <1>2 DEF OT!Rendered
<1>3. ASSUME NEW c \in Conns, NEW s, OT!SwitchConn(c, s)
      PROVE  ObjectsInv' /\ OT!OthersUntouchedStep
  BY <1>3 DEF OT!SwitchConn
<1>4. ASSUME NEW c \in Conns, OT!Switch(c)
      PROVE  ObjectsInv' /\ OT!OthersUntouchedStep
  BY <1>3, <1>4 DEF OT!Switch
<1>5. ASSUME NEW ks, NEW to, OT!Keep(ks, to)
      PROVE  ObjectsInv' /\ OT!OthersUntouchedStep
  BY <1>1, <1>5 DEF OT!Keep
<1>6. ASSUME NEW i \in DOMAIN open.tabs, OT!SelectTab(i) \/ OT!CloseOpenTab(i) \/ OT!CloseOthers(i)
      PROVE  ObjectsInv' /\ OT!OthersUntouchedStep
  BY <1>1, <1>5, <1>6 DEF OT!SelectTab, OT!CloseOpenTab, OT!CloseOthers
<1>7. CASE OT!PresetConsumed \/ OT!CloseAllTables \/ OT!OpenInQuery
           \/ \E t \in ObjectTables, b \in BOOLEAN : OT!OpenTableTab(t, b)
  BY <1>1, <1>5, <1>7 DEF OT!PresetConsumed, OT!CloseAllTables, OT!OpenInQuery, OT!OpenTableTab
<1>8. CASE UNCHANGED OT!vars
  BY <1>8 DEF OT!vars
<1>9. QED
  BY <1>2, <1>4, <1>6, <1>7, <1>8 DEF OT!Next

-----------------------------------------------------------------------------
(* The whitelist.                                                          *)

WhiteInv ==
    /\ list \in [RiskKeys -> WL!Ages \cup {None}] /\ stored \in [RiskKeys -> WL!Ages \cup {None}]
    /\ WL!ShownIsStored

LEMMA WhiteStarts == WL!Init => WhiteInv
BY DEF WL!Init, WL!Empty, WhiteInv, WL!ShownIsStored

LEMMA WhiteSteps ==
    ASSUME WL!WhitelistAssumption, WhiteInv, [WL!Next]_(WL!vars)
    PROVE  WhiteInv'
<1> DEFINE Lists == [RiskKeys -> WL!Ages \cup {None}]
<1>0. /\ TTL \in Nat /\ WL!Ages \subseteq Nat /\ 0 \in WL!Ages /\ None \notin Nat
      /\ \A a \in 0..TTL : a + 1 \in WL!Ages
      /\ \A a \in WL!Ages : a \in 0..TTL \/ a > TTL
  BY DEF WL!WhitelistAssumption, WL!Ages
<1>1. ASSUME NEW m \in Lists, WL!Saved(m)
      PROVE  WhiteInv'
  BY <1>1 DEF WL!Saved, WL!Persisted, WhiteInv, WL!ShownIsStored
<1>2. ASSUME NEW m \in Lists, NEW ks
      PROVE  WL!Less(m, ks) \in Lists
  BY DEF WL!Less
<1>3. ASSUME UNCHANGED <<list, stored>>
      PROVE  WhiteInv'
  BY <1>3 DEF WhiteInv, WL!ShownIsStored
<1>4. list \in Lists /\ stored \in Lists /\ WL!Empty \in Lists
  BY DEF WhiteInv, WL!Empty
<1>5. ASSUME NEW ks \in SUBSET RiskKeys, WL!Add(ks)
      PROVE  WhiteInv'
  <2>1. [k \in RiskKeys |-> IF k \in ks THEN 0 ELSE list[k]] \in Lists
    BY <1>0, <1>4
  <2>2. QED
    BY <1>1, <1>5, <2>1 DEF WL!Add
<1>6. ASSUME NEW m \in Lists, NEW b \in BOOLEAN, WL!Import(m, b)
      PROVE  WhiteInv'
  <2>1. [k \in RiskKeys |-> IF m[k] # None THEN m[k] ELSE IF b THEN None ELSE list[k]] \in Lists
    BY <1>4
  <2>2. QED
    BY <1>1, <1>6, <2>1 DEF WL!Import
<1>7. ASSUME NEW m \in Lists, WL!ApplyEmbedded(m)
      PROVE  WhiteInv'
  <2>1. [k \in RiskKeys |-> IF m[k] = None \/ (list[k] # None /\ list[k] >= m[k])
                            THEN list[k] ELSE m[k]] \in Lists
    BY <1>4
  <2>2. QED
    BY <1>1, <1>7, <2>1 DEF WL!ApplyEmbedded
<1>8. CASE WL!RemoveSelected \/ WL!Clear \/ WL!CleanExpired \/ \E k \in RiskKeys : WL!Remove(k)
  BY <1>1, <1>2, <1>4, <1>8 DEF WL!RemoveSelected, WL!Clear, WL!CleanExpired, WL!Remove
<1>9. CASE WL!LoadRiskWhitelist
  <2>1. list' = WL!Less(stored, WL!Expired(stored)) /\ stored' = stored
    BY <1>9 DEF WL!LoadRiskWhitelist
  <2>2. \A k \in RiskKeys : list'[k] = stored'[k] \/ (list'[k] = None /\ stored'[k] > TTL)
    BY <2>1 DEF WL!Less, WL!Expired
  <2>3. QED
    BY <1>2, <1>4, <2>1, <2>2 DEF WhiteInv, WL!ShownIsStored
<1>10. CASE WL!TimePasses
  <2>1. list' = WL!Older(list) /\ stored' = WL!Older(stored)
    BY <1>10 DEF WL!TimePasses
  <2>2. ASSUME NEW m \in Lists
        PROVE  WL!Older(m) \in Lists
    BY <1>0 DEF WL!Older
  <2>3. ASSUME NEW k \in RiskKeys
        PROVE  list'[k] = stored'[k] \/ (list'[k] = None /\ stored'[k] > TTL)
    <3>1. list[k] = stored[k] \/ (list[k] = None /\ stored[k] > TTL /\ stored[k] \in WL!Ages \cup {None})
      BY <1>4 DEF WhiteInv, WL!ShownIsStored
    <3>2. /\ list'[k] = (IF list[k] \in 0..TTL THEN list[k] + 1 ELSE list[k])
          /\ stored'[k] = (IF stored[k] \in 0..TTL THEN stored[k] + 1 ELSE stored[k])
      BY <2>1 DEF WL!Older
    <3>3. QED
      BY <1>0, <3>1, <3>2
  <2>4. QED
    BY <1>4, <2>1, <2>2, <2>3 DEF WhiteInv, WL!ShownIsStored
<1>11. CASE \/ WL!OpenPanel \/ WL!SortBy \/ WL!SelectShown
            \/ \E ks \in SUBSET RiskKeys : WL!Search(ks)
            \/ \E k \in RiskKeys : WL!Toggle(k) \/ WL!SelectRange(k)
            \/ UNCHANGED WL!vars
  BY <1>3, <1>11 DEF WL!OpenPanel, WL!SortBy, WL!SelectShown, WL!Search, WL!Toggle, WL!SelectRange,
     WL!vars
<1>12. QED
  BY <1>5, <1>6, <1>7, <1>8, <1>9, <1>10, <1>11 DEF WL!Next
-----------------------------------------------------------------------------
(* The workbench and the log.                                              *)

Pick == [sql : SH!Texts, conn : ShellConns, known : BOOLEAN]

BenchTyped ==
    /\ picks \in Seq(Pick) /\ token = Len(picks)
    /\ fired = None <=> ~SH!HasBench(conn)
    /\ fired # None => fired \in 0..token
    /\ \A c \in fetching : SH!HasBench(c)

\* Without a workbench the text that waits is that of the last pick, which
\* has not run and whose connection was not known.
WaitingIsPicked ==
    context # None /\ ~SH!HasBench(conn) =>
        /\ token \in DOMAIN picks /\ context = picks[token].sql /\ ~picks[token].known
        /\ \A r \in runs : r.token # token

BenchInv == BenchTyped /\ WaitingIsPicked /\ SH!RunsWhatWasPicked

LEMMA BenchStarts == SH!ShellAssumption /\ SH!Init => BenchInv
BY DEF SH!Init, BenchInv, BenchTyped, WaitingIsPicked, SH!RunsWhatWasPicked, SH!HasBench

\* The steps that leave the workbench and its inputs alone.
LEMMA BenchAside ==
    ASSUME BenchInv, UNCHANGED <<picks, token, conn, fired, runs>>, fetching' \subseteq fetching,
           SH!HasBench(conn) \/ context' \in {context, None}
    PROVE  BenchInv'
BY
         DEF BenchInv, BenchTyped, WaitingIsPicked, SH!RunsWhatWasPicked, SH!HasBench

\* Selecting runs nothing, since the text is taken away with it.
LEMMA SelectKeeps ==
    ASSUME SH!ShellAssumption, BenchInv, NEW c, SH!SelectConn(c)
    PROVE  BenchInv'
<1> USE DEF BenchInv, BenchTyped, WaitingIsPicked, SH!RunsWhatWasPicked, SH!ShellAssumption
<1>1. conn' = c /\ context' = None /\ UNCHANGED <<token, picks, fetching>> /\ SH!Renders(c, None, token)
  BY DEF SH!SelectConn, SH!ChangeTo
<1>2. UNCHANGED runs /\ (fired' = None <=> ~SH!HasBench(c)) /\ (fired' # None => fired' \in 0..token)
  <2>1. CASE ~SH!HasBench(c)
    BY <1>1, <2>1 DEF SH!Renders
  <2>2. CASE SH!HasBench(c) /\ fired = None
    <3>1. fired' = 0 /\ UNCHANGED runs
      BY <1>1, <2>2 DEF SH!Renders, SH!AutoRun
    <3>2. token \in Nat
      OBVIOUS
    <3>3. QED
      BY <2>2, <3>1, <3>2
  <2>3. CASE SH!HasBench(c) /\ fired # None
    BY <1>1, <2>3 DEF SH!Renders, SH!benchVars
  <2>4. QED
    BY <2>1, <2>2, <2>3
<1>3. QED
  BY <1>1, <1>2 DEF SH!HasBench

\* A pick runs at most here, on the connection it names if that was known.
LEMMA PickKeeps ==
    ASSUME SH!ShellAssumption, BenchInv, NEW txt \in SH!Texts, NEW c \in ShellConns, SH!LogPick(txt, c)
    PROVE  BenchInv'
<1> DEFINE known == c \in listed \union {conn}
           next == IF known THEN c ELSE conn
           pick == [sql |-> txt, conn |-> c, known |-> known]
<1>1. /\ token' = token + 1 /\ picks' = Append(picks, pick) /\ context' = txt
      /\ conn' = next /\ SH!HasBench(c) /\ SH!Renders(next, txt, token')
      /\ fetching' \subseteq fetching \union {c}
  BY DEF SH!LogPick, SH!ChangeTo
<1>2. /\ token \in Nat /\ pick \in Pick /\ picks' \in Seq(Pick) /\ token' = Len(picks')
      /\ picks'[token'] = pick /\ token' \in DOMAIN picks' /\ token' # token
      /\ \A i \in DOMAIN picks : i \in DOMAIN picks' /\ picks'[i] = picks[i] /\ i # token'
  BY <1>1 DEF BenchInv, BenchTyped, Pick
<1>3. /\ \A r \in runs : r.token \in DOMAIN picks
      /\ \A d \in fetching' : SH!HasBench(d)
  BY <1>1 DEF BenchInv, BenchTyped, SH!RunsWhatWasPicked
<1>4. CASE ~SH!HasBench(next)
  <2>1. UNCHANGED runs /\ fired' = None /\ ~known
    BY <1>1, <1>4 DEF SH!Renders
  <2>2. SH!RunsWhatWasPicked'
    BY <1>2, <1>3, <2>1 DEF BenchInv, SH!RunsWhatWasPicked
  <2>3. WaitingIsPicked'
    <3>1. picks'[token'].sql = txt /\ ~picks'[token'].known
      <4>1. pick.sql = txt /\ pick.known = known
        OBVIOUS
      <4> HIDE DEF known, pick
      <4>2. QED
        BY <1>2, <2>1, <4>1
    <3>2. \A r \in runs' : r.token # token'
      BY <1>2, <1>3, <2>1
    <3>3. QED
      BY <1>1, <1>2, <3>1, <3>2 DEF WaitingIsPicked
  <2>4. BenchTyped'
    BY <1>1, <1>2, <1>3, <1>4, <2>1 DEF BenchTyped, SH!HasBench
  <2>5. QED
    BY <2>2, <2>3, <2>4 DEF BenchInv
<1>5. CASE SH!HasBench(next)
  <2>1. PICK latest \in 0..token : \E now : SH!AutoRun(next, txt, token', latest, now)
    <3>1. CASE fired = None
      BY <1>1, <1>2, <1>5, <3>1 DEF SH!Renders
    <3>2. CASE fired # None
      BY <1>1, <1>2, <1>5, <3>2 DEF SH!Renders, BenchInv, BenchTyped
    <3>3. QED
      BY <3>1, <3>2
  <2>2. \/ fired' = latest /\ UNCHANGED runs
        \/ fired' = token' /\ runs' = runs \union {[token |-> token', sql |-> txt, conn |-> next]}
    BY <2>1 DEF SH!AutoRun
  <2>3. fired' \in 0..token' /\ fired' # None
    BY <1>1, <1>2, <2>2 DEF SH!ShellAssumption
  <2>4. BenchTyped' /\ WaitingIsPicked'
    BY <1>1, <1>2, <1>3, <1>5, <2>3 DEF BenchTyped, WaitingIsPicked, SH!HasBench
  <2>5. SH!RunsWhatWasPicked'
    <3>1. CASE UNCHANGED runs
      BY <1>2, <1>3, <3>1 DEF BenchInv, SH!RunsWhatWasPicked
    <3>2. CASE runs' = runs \union {[token |-> token', sql |-> txt, conn |-> next]}
      <4> DEFINE new == [token |-> token', sql |-> txt, conn |-> next]
      <4>1. ASSUME NEW r \in runs'
            PROVE  /\ r.token \in DOMAIN picks' /\ r.sql = picks'[r.token].sql
                   /\ picks'[r.token].known => r.conn = picks'[r.token].conn
        <5>1. CASE r \in runs
          BY <1>2, <1>3, <5>1 DEF BenchInv, SH!RunsWhatWasPicked
        <5>2. CASE r = new
          <6>1. r.token = token' /\ r.sql = txt /\ r.conn = next
            BY <5>2
          <6>2. pick.sql = txt /\ pick.known = known /\ pick.conn = c
            OBVIOUS
          <6>3. known => next = c
            OBVIOUS
          <6> HIDE DEF known, next, pick, new
          <6>4. QED
            BY <1>2, <6>1, <6>2, <6>3
        <5>3. QED
          BY <3>2, <5>1, <5>2
      <4>2. ASSUME NEW r \in runs', NEW q \in runs', r.token = q.token
            PROVE  r = q
        BY <1>2, <1>3, <3>2, <4>2 DEF BenchInv, SH!RunsWhatWasPicked
      <4>3. QED
        BY <4>1, <4>2 DEF SH!RunsWhatWasPicked
    <3>3. QED
      BY <2>2, <3>1, <3>2
  <2>6. QED
    BY <2>4, <2>5 DEF BenchInv
<1>6. QED
  BY <1>4, <1>5

\* The connection that was asked for: a new workbench runs what waits for it.
LEMMA FetchedKeeps ==
    ASSUME SH!ShellAssumption, BenchInv, NEW c \in fetching, SH!Fetched(c)
    PROVE  BenchInv'
<1>1. UNCHANGED <<token, picks, context>> /\ token \in Nat
  BY DEF SH!Fetched, BenchInv, BenchTyped
<1>2. CASE c \notin stored
  BY <1>2, <1>1, BenchAside DEF SH!Fetched, SH!benchVars
<1>3. CASE c \in stored
  <2>1. conn' = c /\ SH!Renders(c, context, token)
    BY <1>3 DEF SH!Fetched, SH!ChangeTo
  <2>2. SH!HasBench(c) /\ fetching' \subseteq fetching
    BY DEF SH!Fetched, BenchInv, BenchTyped
  <2>3. CASE fired # None
    <3>1. UNCHANGED <<fired, runs>>
      BY <2>1, <2>2, <2>3 DEF SH!Renders, SH!benchVars
    <3>2. QED
      BY <1>1, <2>1, <2>2, <2>3, <3>1
         DEF BenchInv, BenchTyped, WaitingIsPicked, SH!RunsWhatWasPicked, SH!HasBench
  <2>4. CASE fired = None
    <3>1. SH!AutoRun(c, context, token, 0, None)
      BY <2>1, <2>2, <2>4 DEF SH!Renders
    <3>2. CASE token > 0 /\ context # None
      <4>1. fired' = token /\ runs' = runs \union {[token |-> token, sql |-> context, conn |-> c]}
        BY <3>1, <3>2 DEF SH!AutoRun
      <4>2. /\ token \in DOMAIN picks /\ context = picks[token].sql /\ ~picks[token].known
            /\ \A r \in runs : r.token # token
        BY <2>4, <3>2 DEF BenchInv, BenchTyped, WaitingIsPicked
      <4>3. SH!RunsWhatWasPicked'
        BY <1>1, <4>1, <4>2 DEF BenchInv, SH!RunsWhatWasPicked
      <4>4. QED
        BY <1>1, <2>1, <2>2, <2>4, <4>1, <4>3
           DEF BenchInv, BenchTyped, WaitingIsPicked, SH!ShellAssumption, SH!HasBench
    <3>3. CASE ~(token > 0 /\ context # None)
      <4>1. fired' = 0 /\ UNCHANGED runs
        BY <3>1, <3>3 DEF SH!AutoRun
      <4>2. QED
        BY <1>1, <2>1, <2>2, <2>4, <4>1 DEF BenchInv, BenchTyped, WaitingIsPicked, SH!RunsWhatWasPicked,
           SH!ShellAssumption, SH!HasBench
    <3>4. QED
      BY <3>2, <3>3
  <2>5. QED
    BY <2>3, <2>4
<1>4. QED
  BY <1>2, <1>3

LEMMA BenchSteps ==
    ASSUME SH!ShellAssumption, BenchInv, [SH!Next]_(SH!shellVars)
    PROVE  BenchInv'
<1>1. ASSUME UNCHANGED <<conn, SH!pickVars, SH!benchVars>>
      PROVE  BenchInv'
  BY <1>1, BenchAside DEF SH!pickVars, SH!benchVars
<1>2. CASE SH!RefreshConnections \/ SH!PingAgain \/ UNCHANGED SH!shellVars
           \/ (\E ok \in BOOLEAN : SH!CheckHealth(ok)) \/ (\E c \in ShellConns : SH!Remove(c))
           \/ \E p \in pings, ok \in BOOLEAN : SH!PingAnswer(p, ok)
  BY <1>1, <1>2 DEF SH!RefreshConnections, SH!PingAgain, SH!CheckHealth, SH!Remove,
     SH!PingAnswer, SH!shellVars, SH!pickVars, SH!benchVars
<1>3. CASE SH!ClearContext \/ \E txt \in SH!Texts : SH!OpenInQuery(txt)
  BY <1>3, BenchAside DEF SH!ClearContext, SH!OpenInQuery, SH!benchVars
<1>4. CASE SH!RunEnds
  BY <1>4, BenchAside DEF SH!RunEnds, SH!pickVars
<1>5. ASSUME NEW c \in ShellConns, SH!ClickRow(c) \/ SH!PickFromPalette(c) \/ SH!Create(c)
      PROVE  BenchInv'
  BY <1>5, SelectKeeps DEF SH!ClickRow, SH!PickFromPalette, SH!Create
<1>6. ASSUME NEW r \in removing, SH!Removed(r)
      PROVE  BenchInv'
  BY <1>1, <1>6, SelectKeeps DEF SH!Removed
<1>7. ASSUME NEW txt \in SH!Texts, NEW c \in ShellConns, SH!LogPick(txt, c)
      PROVE  BenchInv'
  BY <1>7, PickKeeps
<1>8. ASSUME NEW c \in fetching, SH!Fetched(c)
      PROVE  BenchInv'
  BY <1>8, FetchedKeeps
<1>9. QED
  BY <1>2, <1>3, <1>4, <1>5, <1>6, <1>7, <1>8 DEF SH!Next

-----------------------------------------------------------------------------
(* The light.                                                              *)

Ping == [n : Nat, conn : ShellConns, alive : BOOLEAN]

BeatsTyped ==
    /\ pings \subseteq Ping /\ pinged \in Nat
    /\ conn \in ShellConns \union {None} /\ fetching \subseteq ShellConns
    /\ listed \subseteq ShellConns /\ sidebar \subseteq ShellConns /\ stored \subseteq ShellConns

\* An answer that will be believed is about the connection that is selected.
AliveIsCurrent == \A p \in pings : p.alive => p.conn = conn /\ serverOk = TRUE

BeatInv == BeatsTyped /\ AliveIsCurrent /\ SH!HealthIsOfConnection

LEMMA BeatStarts == SH!Init => BeatInv
BY DEF SH!Init, BeatInv, BeatsTyped, AliveIsCurrent, SH!HealthIsOfConnection, Ping

\* After a restart of the heartbeat only the new one can be believed.
LEMMA BeatsKeep ==
    ASSUME BeatsTyped, NEW c \in ShellConns \union {None}, NEW ok, SH!Beats(c, ok)
    PROVE  /\ pings' \subseteq Ping /\ pinged' \in Nat /\ health' = None
           /\ \A p \in pings' : p.alive => p.conn = c /\ ok = TRUE
<1> DEFINE old == {[p EXCEPT !.alive = FALSE] : p \in pings}
<1>1. old \subseteq Ping /\ \A p \in old : ~p.alive
  BY DEF BeatsTyped, Ping
<1>2. CASE c # None /\ ok = TRUE /\ pinged < MaxPings
  <2>1. pings' = old \union {[n |-> pinged, conn |-> c, alive |-> TRUE]}
        /\ pinged' = pinged + 1 /\ health' = None
    BY <1>2 DEF SH!Beats
  <2>2. [n |-> pinged, conn |-> c, alive |-> TRUE] \in Ping
    BY <1>2 DEF BeatsTyped, Ping
  <2>3. ASSUME NEW p \in pings', p.alive
        PROVE  p.conn = c /\ ok = TRUE
    BY <1>1, <1>2, <2>1, <2>3
  <2>4. pinged' \in Nat /\ health' = None
    BY <2>1 DEF BeatsTyped
  <2>5. pings' \subseteq Ping
    <3> HIDE DEF old
    <3>1. QED
      BY <1>1, <2>1, <2>2
  <2>6. QED
    BY <2>3, <2>4, <2>5
<1>3. CASE ~(c # None /\ ok = TRUE /\ pinged < MaxPings)
  <2>1. pings' = old /\ pinged' = pinged /\ health' = None
    BY <1>3 DEF SH!Beats
  <2>2. QED
    BY <1>1, <2>1 DEF BeatsTyped
<1>4. QED
  BY <1>2, <1>3

\* Selecting keeps the light right, whichever connection is selected.
LEMMA ChangeKeeps ==
    ASSUME BeatInv, NEW c \in ShellConns \union {None}, SH!ChangeTo(c), UNCHANGED serverOk,
           fetching' \subseteq ShellConns, listed' \subseteq ShellConns,
           sidebar' \subseteq ShellConns, stored' \subseteq ShellConns
    PROVE  BeatInv'
<1>1. CASE c = conn
  BY <1>1 DEF BeatInv, BeatsTyped, AliveIsCurrent, SH!HealthIsOfConnection, SH!ChangeTo, SH!beatVars
<1>2. CASE c # conn
  <2>1. SH!Beats(c, serverOk) /\ conn' = c
    BY <1>2 DEF SH!ChangeTo
  <2>2. /\ pings' \subseteq Ping /\ pinged' \in Nat /\ health' = None
        /\ \A p \in pings' : p.alive => p.conn = c /\ serverOk = TRUE
    BY <2>1, BeatsKeep DEF BeatInv
  <2>3. QED
    BY <2>1, <2>2 DEF BeatInv, BeatsTyped, AliveIsCurrent, SH!HealthIsOfConnection
<1>3. QED
  BY <1>1, <1>2

LEMMA BeatSteps ==
    ASSUME SH!ShellAssumption, BeatInv, [SH!Next]_(SH!shellVars)
    PROVE  BeatInv'
<1> USE DEF BeatInv, BeatsTyped
<1>1. ASSUME UNCHANGED <<SH!beatVars, conn, serverOk>>,
             fetching' \subseteq ShellConns, listed' \subseteq ShellConns,
             sidebar' \subseteq ShellConns, stored' \subseteq ShellConns
      PROVE  BeatInv'
  BY <1>1 DEF AliveIsCurrent, SH!HealthIsOfConnection, SH!beatVars
<1>2. CASE SH!RefreshConnections \/ SH!ClearContext \/ SH!RunEnds
           \/ (\E c \in ShellConns : SH!Remove(c)) \/ \E txt \in SH!Texts : SH!OpenInQuery(txt)
  BY <1>1, <1>2 DEF SH!RefreshConnections, SH!ClearContext, SH!RunEnds, SH!Remove,
       SH!OpenInQuery, SH!pickVars, SH!listVars
<1>3. CASE SH!PingAgain
  <2> DEFINE new == [n |-> pinged, conn |-> conn, alive |-> TRUE]
  <2>1. \A p \in pings' : p \in Ping /\ (p.alive => p.conn = conn /\ serverOk = TRUE)
    <3>1. conn \in ShellConns /\ serverOk = TRUE
      BY <1>3 DEF SH!PingAgain, SH!HasBench, SH!ShellAssumption
    <3>2. new \in Ping /\ new.conn = conn
      BY <3>1 DEF Ping
    <3>3. pings' = pings \union {new}
      BY <1>3 DEF SH!PingAgain
    <3> HIDE DEF new
    <3>4. ASSUME NEW p \in pings'
          PROVE  p \in Ping /\ (p.alive => p.conn = conn /\ serverOk = TRUE)
      <4>1. CASE p \in pings
        BY <4>1 DEF AliveIsCurrent
      <4>2. CASE p = new
        BY <3>1, <3>2, <4>2
      <4>3. QED
        BY <3>3, <4>1, <4>2
    <3>5. QED
      BY <3>4
  <2>2. QED
    BY <1>3, <2>1 DEF SH!PingAgain, AliveIsCurrent, SH!HealthIsOfConnection, SH!listVars, SH!pickVars
<1>4. ASSUME NEW ok \in BOOLEAN, SH!CheckHealth(ok)
      PROVE  BeatInv'
  <2>1. SH!Beats(conn, ok) /\ serverOk' = ok /\ conn' = conn
    BY <1>4 DEF SH!CheckHealth
  <2>2. /\ pings' \subseteq Ping /\ pinged' \in Nat /\ health' = None
        /\ \A p \in pings' : p.alive => p.conn = conn /\ ok = TRUE
    BY <2>1, BeatsKeep
  <2>3. QED
    BY <1>4, <2>1, <2>2 DEF SH!CheckHealth, AliveIsCurrent, SH!HealthIsOfConnection, SH!pickVars
<1>5. ASSUME NEW c \in ShellConns, SH!ClickRow(c) \/ SH!PickFromPalette(c) \/ SH!Create(c)
      PROVE  BeatInv'
  <2>1. PICK d \in ShellConns \union {None} : SH!ChangeTo(d)
    BY <1>5 DEF SH!ClickRow, SH!PickFromPalette, SH!Create, SH!SelectConn
  <2>2. UNCHANGED <<serverOk, fetching>> /\ listed' \subseteq ShellConns
        /\ sidebar' \subseteq ShellConns /\ stored' \subseteq ShellConns
    BY <1>5 DEF SH!ClickRow, SH!PickFromPalette, SH!Create, SH!SelectConn, SH!listVars
  <2>3. QED
    BY <2>1, <2>2, ChangeKeeps
<1>6. ASSUME NEW r \in removing, SH!Removed(r)
      PROVE  BeatInv'
  <2>1. /\ UNCHANGED <<serverOk, fetching, listed>>
        /\ stored' \subseteq ShellConns /\ sidebar' \subseteq ShellConns
    BY <1>6 DEF SH!Removed, SH!SelectConn, SH!pickVars
  <2>2. CASE r.selected
    BY <1>6, <2>1, <2>2, ChangeKeeps DEF SH!Removed, SH!SelectConn
  <2>3. CASE ~r.selected
    BY <1>1, <1>6, <2>1, <2>3 DEF SH!Removed
  <2>4. QED
    BY <2>2, <2>3
<1>7. ASSUME NEW p \in pings, NEW ok \in BOOLEAN, SH!PingAnswer(p, ok)
      PROVE  BeatInv'
  BY <1>7 DEF SH!PingAnswer, AliveIsCurrent, SH!HealthIsOfConnection, SH!listVars, SH!pickVars
<1>8. ASSUME NEW txt \in SH!Texts, NEW c \in ShellConns, SH!LogPick(txt, c)
      PROVE  BeatInv'
  <2>1. PICK d \in ShellConns \union {None} : SH!ChangeTo(d)
    BY <1>8 DEF SH!LogPick
  <2>2. UNCHANGED serverOk /\ fetching' \subseteq ShellConns /\ listed' \subseteq ShellConns
        /\ sidebar' \subseteq ShellConns /\ stored' \subseteq ShellConns
    BY <1>8 DEF SH!LogPick, SH!listVars
  <2>3. QED
    BY <2>1, <2>2, ChangeKeeps
<1>9. ASSUME NEW c \in fetching, SH!Fetched(c)
      PROVE  BeatInv'
  <2>1. UNCHANGED serverOk /\ fetching' \subseteq ShellConns /\ listed' \subseteq ShellConns
        /\ sidebar' \subseteq ShellConns /\ stored' \subseteq ShellConns
    BY <1>9 DEF SH!Fetched, SH!listVars
  <2>2. CASE c \in stored
    BY <1>9, <2>1, <2>2, ChangeKeeps DEF SH!Fetched
  <2>3. CASE c \notin stored
    BY <1>1, <1>9, <2>1, <2>3 DEF SH!Fetched
  <2>4. QED
    BY <2>2, <2>3
<1>10. CASE UNCHANGED SH!shellVars
  BY <1>1, <1>10 DEF SH!shellVars, SH!beatVars
<1>11. QED
  BY <1>2, <1>3, <1>4, <1>5, <1>6, <1>7, <1>8, <1>9, <1>10 DEF SH!Next

-----------------------------------------------------------------------------
(* The types of the machines.                                               *)

\* The sockets and queries keep their types.
LEMMA SocketIsTyped ==
    ASSUME WS!WsAssumption, SocketInv, SocketInv', WS!TypeOK, [WS!Next]_(WS!vars)
    PROVE  WS!TypeOK'
<1>0. stops' = stops
  BY DEF WS!Next, WS!vars
<1> USE DEF SocketInv, HandlersTyped, WS!TypeOK
<1>f. stops' \in BOOLEAN
  BY <1>0
<1>1. ASSUME NEW q \in Queries, NEW s \in Sockets, NEW up \in BOOLEAN, WS!Send(q, s, up),
             UNCHANGED <<ready, closedFlag, connOf, hello, asked>>
      PROVE  WS!TypeOK'
  BY <1>f, <1>1 DEF WS!Send
<1>2. ASSUME NEW q \in Queries, NEW c \in Conns, WS!Reuse(q, c)
      PROVE  WS!TypeOK'
  <2>1. client \in Sockets
    BY <1>2 DEF WS!Reuse
  <2>2. CASE ready[client] = "connecting"
    BY <1>f, <1>2, <2>1, <2>2 DEF WS!Reuse
  <2>3. CASE ready[client] # "connecting"
    BY <1>1, <1>2, <2>1, <2>3 DEF WS!Reuse
  <2>4. QED
    BY <2>2, <2>3
<1>3. ASSUME NEW q \in Queries, NEW c \in Conns, WS!Open(q, c)
      PROVE  WS!TypeOK'
  BY <1>f, <1>3 DEF WS!Open
<1>4. ASSUME NEW q \in Queries, WS!Opened(q)
      PROVE  WS!TypeOK'
  <2>1. target[q] \in Sockets
    BY <1>4 DEF WS!Opened, HandlerIsOne
  <2>2. /\ ready' \in [Sockets -> {"unused", "connecting", "open", "closing", "closed"}]
        /\ closedFlag' \in [Sockets -> BOOLEAN] /\ hello' \in [Sockets -> BOOLEAN]
    BY <1>4, <2>1 DEF WS!Opened, WS!ClosePrev, WS!MarkPrev
  <2>3. received' \in [Sockets -> SUBSET Queries] /\ UNCHANGED <<connOf, asked>>
    BY <1>4, <2>1 DEF WS!Opened, WS!Send
  <2>4. QED
    BY <1>f, <2>2, <2>3
<1>5. ASSUME NEW q \in Queries, WS!OpenFails(q)
      PROVE  WS!TypeOK'
  BY <1>f, <1>5 DEF WS!OpenFails, WS!ClosePrev, WS!MarkPrev
<1>6. ASSUME NEW q \in Queries, NEW s \in Sockets,
             WS!Cancel(q) \/ WS!ServerDrops(s) \/ WS!CloseEvent(s) \/ WS!Message(s, q)
      PROVE  WS!TypeOK'
  BY <1>f, <1>6 DEF WS!Cancel, WS!ServerDrops, WS!CloseEvent, WS!Message
<1>7. CASE UNCHANGED WS!vars
  BY <1>f, <1>7 DEF WS!vars
<1>8. ASSUME NEW s \in Sockets, WS!ServerDrops(s) \/ WS!CloseEvent(s)
      PROVE  WS!TypeOK'
  BY <1>f, <1>8 DEF WS!ServerDrops, WS!CloseEvent
<1>9. ASSUME NEW q \in Queries, WS!Cancel(q)
      PROVE  WS!TypeOK'
  BY <1>f, <1>9 DEF WS!Cancel
<1>10. QED
  BY <1>2, <1>3, <1>4, <1>5, <1>6, <1>7, <1>8, <1>9 DEF WS!Next, WS!Steps

\* The flags, and what a run still has to do.
QueryFlags == cancelled \in BOOLEAN /\ liveId \in BOOLEAN /\ queryId \in BOOLEAN /\ asked \in BOOLEAN
RunGoesOn == run # None => run.at \in run.stmts /\ run.todo \subseteq run.stmts \ {run.at}

\* The statements to do and the one under way are of the run.
LEMMA RunIsTyped ==
    ASSUME QR!RunAssumption, QueryInv, QueryInv', QR!TypeOK, [QR!Next]_(QR!vars)
    PROVE  QR!TypeOK'
<1>1. QueryFlags /\ RunGoesOn /\ (run # None => run \in QR!RunRecord)
  BY DEF QR!TypeOK, QR!busy, QueryFlags, RunGoesOn
<1>2. SUFFICES (QueryFlags /\ RunGoesOn)'
  BY DEF QueryInv, QR!TypeOK, QR!busy, QueryFlags, RunGoesOn
<1>3. ASSUME NEW r, DOMAIN r = {"kind", "conn", "chan", "stmts", "todo", "at", "phase", "own", "from"},
             r = [f \in DOMAIN r |-> r[f]], r.todo \subseteq r.stmts, QR!Send(r), cancelled' \in BOOLEAN
      PROVE  (QueryFlags /\ RunGoesOn)'
  <2>1. PICK i \in r.todo, phase \in {"connecting", "sent"} : 
          LET own == IF r.kind = "single" THEN << >> ELSE [r.own EXCEPT ![i] = "running"]
          IN  /\ run' = [r EXCEPT !.at = i, !.todo = r.todo \ {i}, !.phase = phase, !.own = own]
              /\ liveId' = (r.kind # "single")
              /\ queryId' = (IF r.kind = "single" /\ r.chan = "ws" /\ phase = "sent"
                             THEN TRUE ELSE queryId)
              /\ asked' = FALSE
    BY <1>3 DEF QR!Send
  <2>2. run'.at = i /\ run'.todo = r.todo \ {i} /\ run'.stmts = r.stmts
    BY <1>3, <2>1
  <2>3. RunGoesOn'
    BY <1>3, <2>2 DEF RunGoesOn
  <2>4. QueryFlags'
    BY <1>1, <1>3, <2>1 DEF QueryFlags
  <2>5. QED
    BY <2>3, <2>4
<1>4. ASSUME NEW kind, NEW c, NEW chan, NEW todo, NEW own, cancelled' \in BOOLEAN,
             QR!Send(QR!NewRun(kind, c, chan, todo, own))
      PROVE  (QueryFlags /\ RunGoesOn)'
  <2> DEFINE r == QR!NewRun(kind, c, chan, todo, own)
  <2>1. /\ DOMAIN r = {"kind", "conn", "chan", "stmts", "todo", "at", "phase", "own", "from"}
        /\ r = [f \in DOMAIN r |-> r[f]] /\ r.todo \subseteq r.stmts
    BY DEF QR!NewRun
  <2> HIDE DEF r
  <2>2. QED
    BY <1>3, <1>4, <2>1 DEF r
<1>5. cancelled \in BOOLEAN
  BY <1>1 DEF QueryFlags
<1>6. ASSUME NEW c, NEW chan, NEW k, QR!Start(c, chan, k)
      PROVE  (QueryFlags /\ RunGoesOn)'
  <2>1. CASE QR!StartSingle(c, chan)
    <3>1. QR!Send(QR!NewRun("single", c, chan, {1}, << >>)) /\ cancelled' = cancelled
      BY <2>1 DEF QR!StartSingle
    <3>2. cancelled' \in BOOLEAN
      BY <1>5, <3>1
    <3>3. QED
      BY <1>4, <3>1, <3>2
  <2>2. CASE QR!StartMulti(c, chan, k)
    <3>1. QR!Send(QR!NewRun("multi", c, chan, 1..k, [i \in 1..k |-> "pending"])) /\ cancelled' = FALSE
      BY <2>2 DEF QR!StartMulti
    <3>2. cancelled' \in BOOLEAN
      BY <3>1
    <3>3. QED
      BY <1>4, <3>1, <3>2
  <2>3. QED
    BY <1>6, <2>1, <2>2 DEF QR!Start
<1>7. ASSUME NEW k, NEW h, QR!Run(k) \/ QR!RunHeld(h, k)
      PROVE  (QueryFlags /\ RunGoesOn)'
  BY <1>6, <1>7 DEF QR!Run, QR!RunHeld
<1>8. ASSUME NEW c, NEW b, QR!RunPreview \/ QR!LogPick(c, b) \/ QR!RerunFailed
      PROVE  (QueryFlags /\ RunGoesOn)'
  <2>1. PICK kind, d, chan, todo, own :
          QR!Send(QR!NewRun(kind, d, chan, todo, own)) /\ cancelled' \in {FALSE, cancelled}
    BY <1>8 DEF QR!RunPreview, QR!LogPick, QR!StartSingle, QR!RerunFailed
  <2>2. cancelled' \in BOOLEAN
    BY <1>5, <2>1
  <2>3. QED
    BY <1>4, <2>1, <2>2
<1>9. ASSUME NEW out, run # None, QR!Settle(out)
      PROVE  (QueryFlags /\ RunGoesOn)'
  <2>1. cancelled' \in BOOLEAN
    BY <1>5, <1>9 DEF QR!Settle
  <2>2. CASE run.kind # "single" /\ QR!GoesOn(run.todo)
    <3> DEFINE r == [run EXCEPT !.own = [run.own EXCEPT ![run.at] = out]]
    <3>1. QR!Send(r)
      BY <1>9, <2>2 DEF QR!Settle
    <3>2. /\ DOMAIN r = {"kind", "conn", "chan", "stmts", "todo", "at", "phase", "own", "from"}
          /\ r = [f \in DOMAIN r |-> r[f]] /\ r.todo \subseteq r.stmts
      BY <1>1, <1>9 DEF QR!RunRecord, RunGoesOn
    <3> HIDE DEF r
    <3>3. QED
      BY <1>3, <2>1, <3>1, <3>2
  <2>3. CASE ~(run.kind # "single" /\ QR!GoesOn(run.todo))
    <3>1. /\ run' = None /\ cancelled' = cancelled /\ asked' = asked
          /\ liveId' \in {liveId, FALSE} /\ queryId' \in {queryId, FALSE}
      BY <1>9, <2>3 DEF QR!Settle
    <3>2. QED
      BY <1>1, <3>1 DEF QueryFlags, RunGoesOn
  <2>4. QED
    BY <2>2, <2>3
<1>10. CASE QR!Poll \/ \E out \in QR!Outcomes : QR!Answer(out)
  <2>1. run # None /\ \E out : QR!Settle(out)
    <3>1. CASE QR!Poll
      BY <3>1 DEF QR!Poll, QR!busy
    <3>2. ASSUME NEW out, QR!Answer(out)
          PROVE  run # None /\ \E o : QR!Settle(o)
      BY Zenon, <3>2 DEF QR!Answer, QR!busy
    <3>3. QED
      BY Zenon, <1>10, <3>1, <3>2
  <2>2. QED
    BY Zenon, <1>9, <2>1
<1>11. CASE QR!Connected
  <2>1. run # None /\ run \in QR!RunRecord /\ run' = [run EXCEPT !.phase = "sent"]
        /\ cancelled' = cancelled /\ asked' = asked
        /\ liveId' \in BOOLEAN /\ queryId' \in {TRUE, queryId}
    BY <1>1, <1>11 DEF QR!Connected, QR!busy
  <2>2. run'.at = run.at /\ run'.todo = run.todo /\ run'.stmts = run.stmts
    BY <2>1 DEF QR!RunRecord
  <2>3. QED
    <3>1. RunGoesOn'
      BY <1>1, <2>1, <2>2 DEF RunGoesOn
    <3>2. QueryFlags'
      BY <1>1, <2>1 DEF QueryFlags
    <3>3. QED
      BY <3>1, <3>2
<1>12. ASSUME NEW chan, QR!CancelMulti(chan)
      PROVE  (QueryFlags /\ RunGoesOn)'
  <2>1. asked' \in BOOLEAN /\ UNCHANGED <<run, queryId>> /\ cancelled' = TRUE /\ liveId' = FALSE
    BY <1>12 DEF QR!CancelMulti
  <2>2. QED
    BY <1>1, <2>1 DEF QueryFlags, RunGoesOn
<1>13. CASE QR!CancelButton \/ QR!CancelKey \/ QR!HandleCancel
  <2>1. CASE QR!HandleCancel
    <3>1. asked' = TRUE /\ UNCHANGED <<run, cancelled, liveId, queryId>>
      BY <2>1 DEF QR!HandleCancel
    <3>2. RunGoesOn'
      BY <1>1, <3>1 DEF RunGoesOn
    <3>3. QueryFlags'
      BY <1>1, <3>1 DEF QueryFlags
    <3>4. QED
      BY <3>2, <3>3
  <2>2. QED
    BY Zenon, <1>12, <1>13, <2>1 DEF QR!CancelButton, QR!CancelKey
<1>14. ASSUME NEW c, NEW t, NEW i,
              QR!SwitchConn(c) \/ QR!SetTransport(t) \/ QR!ShowEntry(i) \/ QR!ClearResult
      PROVE  (QueryFlags /\ RunGoesOn)'
  <2>1. queryId' \in {queryId, FALSE} /\ UNCHANGED <<run, cancelled, liveId, asked>>
    BY <1>14 DEF QR!SwitchConn, QR!SetTransport, QR!ShowEntry, QR!ClearResult
  <2>2. QED
    BY <1>1, <2>1 DEF QueryFlags, RunGoesOn
<1>15. CASE UNCHANGED QR!vars
  <2>1. UNCHANGED <<run, cancelled, liveId, queryId, asked>>
    BY <1>15 DEF QR!vars
  <2>2. QED
    BY <1>1, <2>1 DEF QueryFlags, RunGoesOn
<1>16. QED
  BY <1>7, <1>8, <1>10, <1>11, <1>13, <1>14, <1>15 DEF QR!Next

\* A list of tabs of the editor is well formed, when n tabs have been made.
TabsShape(s, n) ==
    /\ s.tabs # << >> /\ ET!IsInjective([i \in DOMAIN s.tabs |-> s.tabs[i].id])
    /\ \A i \in DOMAIN s.tabs : s.tabs[i].id \in 1..n /\ s.tabs[i].text \in TabTexts
    /\ \E i \in DOMAIN s.tabs : s.tabs[i].id = s.active

LEMMA TabsAreShaped ==
    ASSUME NEW s, NEW n, TabsOK(s.tabs, s.active, n)
    PROVE  TabsShape(s, n)
<1>1. s.tabs # << >>
  BY DEF TabsOK
<1>2. \A i \in DOMAIN s.tabs : s.tabs[i].id \in 1..n /\ s.tabs[i].text \in TabTexts
  <2>1. \A i \in DOMAIN s.tabs : s.tabs[i] \in [id : Nat, text : TabTexts]
    BY Elements DEF TabsOK
  <2>2. QED
    BY <2>1 DEF TabsOK
<1>3. ET!IsInjective([i \in DOMAIN s.tabs |-> s.tabs[i].id])
  BY DEF TabsOK, ET!IsInjective
<1>4. \E i \in DOMAIN s.tabs : s.tabs[i].id = s.active
  BY DEF TabsOK
<1>5. QED
  BY <1>1, <1>2, <1>3, <1>4 DEF TabsShape

\* The timer of the editor is armed or not.
LEMMA TimerIsArmed ==
    ASSUME armed \in BOOLEAN, [ET!Next]_(ET!vars)
    PROVE  armed' \in BOOLEAN
<1>1. ASSUME NEW ts, NEW id, ET!Activate(ts, id)
      PROVE  armed' \in BOOLEAN
  BY <1>1 DEF ET!Activate
<1>2. CASE ET!AddTab \/ \E i \in DOMAIN tabs : ET!SwitchToTab(tabs[i].id) \/ ET!CloseTab(i)
  BY <1>1, <1>2 DEF ET!AddTab, ET!SwitchToTab, ET!CloseTab
<1>3. ASSUME NEW c, NEW t,
             \/ ET!Rendered \/ ET!Save \/ ET!RenameTab \/ ET!CycleTab
             \/ ET!SwitchConn(c) \/ ET!Reload(c) \/ ET!Type(t)
      PROVE  armed' \in BOOLEAN
  <2>1. armed' \in {TRUE, FALSE, armed}
    BY <1>3 DEF ET!Rendered, ET!Save, ET!RenameTab, ET!CycleTab, ET!SwitchConn, ET!Reload, ET!Type
  <2>2. QED
    BY <2>1
<1>4. CASE UNCHANGED ET!vars
  BY <1>4 DEF ET!vars
<1>5. QED
  BY <1>2, <1>3, <1>4 DEF ET!Next

LEMMA EditorIsTyped ==
    ASSUME EditorInv', ET!TypeOK, [ET!Next]_(ET!vars)
    PROVE  ET!TypeOK'
<1>1. armed' \in BOOLEAN
  BY TimerIsArmed DEF ET!TypeOK
<1>2. /\ TabsOK(tabs', active', made')
      /\ \A c \in Conns : store'[c] # None => TabsOK(store'[c].tabs, store'[c].active, made')
  BY DEF EditorInv
<1>3. ET!WellFormed(ET!Saved(tabs, active))'
  <2> DEFINE s == [tabs |-> tabs', active |-> active']
  <2>1. TabsOK(s.tabs, s.active, made')
    BY <1>2
  <2> HIDE DEF s
  <2>2. TabsShape(s, made')
    BY <2>1, TabsAreShaped
  <2>3. QED
    BY <2>2 DEF TabsShape, ET!WellFormed, ET!Saved, s
<1>4. \A c \in Conns : store'[c] # None => TabsShape(store'[c], made')
  BY <1>2, TabsAreShaped
<1>5. \A c \in Conns : store'[c] # None => ET!WellFormed(store[c])'
  BY <1>4 DEF TabsShape, ET!WellFormed
<1>6. QED
  BY <1>1, <1>3, <1>5 DEF EditorInv, ET!TypeOK

\* The rest of the whitelist's panel: what is matched and ticked are keys, and
\* the last click was on a row.
LEMMA WhiteIsTyped ==
    ASSUME WL!WhitelistAssumption, WhiteInv', WL!TypeOK, [WL!Next]_(WL!vars)
    PROVE  WL!TypeOK'
<1>0. /\ \A S : WL!Cardinality(S) = Cardinality(S)
      /\ \A S : WL!IsFiniteSet(S) <=> IsFiniteSet(S)
  BY Zenon DEF WL!Cardinality, WL!IsFiniteSet, Cardinality, IsFiniteSet
<1> DEFINE Panel ==
             /\ panel \in BOOLEAN /\ byAge \in BOOLEAN /\ found \subseteq RiskKeys /\ sel \subseteq RiskKeys
             /\ anchor \in 0..Cardinality(RiskKeys) /\ days \in 0..MaxDays
<1>1. Panel /\ WL!Entries \subseteq RiskKeys
  BY <1>0 DEF WL!TypeOK, WL!Entries, WL!In
<1>2. SUFFICES Panel'
  BY <1>0 DEF WhiteInv, WL!TypeOK
<1>3. IsFiniteSet(RiskKeys) /\ Cardinality(RiskKeys) \in Nat /\ 0 \in 0..Cardinality(RiskKeys)
  BY <1>0, FS_CardinalityType DEF WL!WhitelistAssumption
<1>4. ASSUME NEW k \in WL!Entries
      PROVE  WL!Place(k) \in 0..Cardinality(RiskKeys)
  <2> DEFINE above == {l \in WL!Entries : WL!Before(l, k)}
  <2>1. k \notin above
    <3>1. k \in RiskKeys /\ k \in Nat /\ list[k] \in Nat
      BY <1>1, <1>4 DEF WL!Entries, WL!In, WL!TypeOK, WL!Ages, WL!WhitelistAssumption
    <3>2. ~WL!Before(k, k)
      BY <3>1 DEF WL!Before
    <3>3. QED
      BY <3>2
  <2>2. above \subseteq RiskKeys \ {k} /\ k \in RiskKeys
    BY <1>1, <2>1
  <2> HIDE DEF above
  <2>3. IsFiniteSet(RiskKeys) /\ IsFiniteSet(RiskKeys \ {k})
    BY <1>3, FS_Subset
  <2>4. Cardinality(above) <= Cardinality(RiskKeys \ {k}) /\ Cardinality(above) \in Nat
    BY <2>2, <2>3, FS_Subset, FS_CardinalityType
  <2>5. Cardinality(RiskKeys \ {k}) = Cardinality(RiskKeys) - 1 /\ Cardinality(RiskKeys) \in Nat
    BY <2>2, <2>3, FS_RemoveElement, FS_CardinalityType
  <2>6. WL!Place(k) = Cardinality(above) + 1
    BY Zenon, <1>0 DEF WL!Place, above
  <2>7. QED
    BY <2>4, <2>5, <2>6
<1>5. ASSUME NEW ks, ks \subseteq RiskKeys, NEW k, NEW m, NEW b,
             \/ WL!Add(ks) \/ WL!Search(ks) \/ WL!Remove(k) \/ WL!RemoveSelected \/ WL!Clear
             \/ WL!CleanExpired \/ WL!LoadRiskWhitelist \/ WL!OpenPanel \/ WL!SortBy
             \/ WL!SelectShown \/ WL!ApplyEmbedded(m) \/ WL!Import(m, b)
      PROVE  Panel'
  <2>1. /\ panel' \in {panel, FALSE, ~panel} /\ byAge' \in {byAge, TRUE, ~byAge}
        /\ found' \in {found, RiskKeys, ks}
        /\ anchor' \in {anchor, 0} /\ days' = days
    BY <1>5 DEF WL!Add, WL!Search, WL!Remove, WL!RemoveSelected, WL!Clear, WL!CleanExpired,
                WL!LoadRiskWhitelist, WL!OpenPanel, WL!SortBy, WL!SelectShown, WL!ApplyEmbedded, WL!Import
  <2>2. sel' \in {sel, {}, sel \ {k}, WL!Entries}
    BY <1>5 DEF WL!Add, WL!Search, WL!Remove, WL!RemoveSelected, WL!Clear, WL!CleanExpired,
                WL!LoadRiskWhitelist, WL!OpenPanel, WL!SortBy, WL!SelectShown, WL!ApplyEmbedded, WL!Import
  <2> HIDE DEF WL!Entries
  <2>3. ks \subseteq RiskKeys
    BY <1>5
  <2>4. panel' \in BOOLEAN /\ byAge' \in BOOLEAN
    BY <1>1, <2>1
  <2>5. QED
    BY <1>1, <1>3, <2>1, <2>2, <2>3, <2>4
<1>6. ASSUME NEW k, WL!Toggle(k) \/ WL!SelectRange(k)
      PROVE  Panel'
  <2>1. k \in WL!Entries /\ UNCHANGED <<panel, found, byAge, days>>
        /\ anchor' \in {anchor, WL!Place(k)} /\ sel' \subseteq sel \union {k} \union WL!Entries
    BY <1>6 DEF WL!Toggle, WL!SelectRange, WL!Rows
  <2>2. QED
    BY <1>1, <1>4, <2>1
<1>7. CASE WL!TimePasses
  BY <1>1, <1>7 DEF WL!TimePasses, WL!WhitelistAssumption
<1>8. CASE UNCHANGED WL!vars
  BY <1>1, <1>8 DEF WL!vars
<1>9. ASSUME NEW ks \in SUBSET RiskKeys, WL!Add(ks) \/ WL!Search(ks)
      PROVE  Panel'
  BY <1>5, <1>9
<1>10. ASSUME NEW k, NEW m, NEW b,
              WL!Remove(k) \/ WL!ApplyEmbedded(m) \/ WL!Import(m, b)
       PROVE  Panel'
  BY <1>5, <1>10
<1>11. CASE \/ WL!RemoveSelected \/ WL!Clear \/ WL!CleanExpired \/ WL!LoadRiskWhitelist
            \/ WL!OpenPanel \/ WL!SortBy \/ WL!SelectShown
  BY <1>5, <1>11
<1> HIDE DEF Panel
<1>12. QED
  BY <1>6, <1>7, <1>8, <1>9, <1>10, <1>11 DEF WL!Next

\* The rest of the shell: the health and the text that waits.
LEMMA ShellIsTyped ==
    ASSUME SH!ShellAssumption, BenchInv, BenchInv', BeatInv, BeatInv', SH!TypeOK, [SH!Next]_(SH!shellVars)
    PROVE  SH!TypeOK'
<1> DEFINE Texted == context \in SH!Texts \union {None} /\ busy \in SH!Texts \union {None}
           Server == serverOk \in BOOLEAN \union {None}
           Health == health = None \/ health \in [of : ShellConns, ok : BOOLEAN]
           Steps == steps \in 0..ShellSteps
<1>1. Texted /\ Server /\ Health /\ Steps
  BY DEF SH!TypeOK
<1>2. SUFFICES (Texted /\ Server /\ Health /\ Steps)'
  <2>1. /\ (\A p \in pings : p.conn \in ShellConns /\ p.alive \in BOOLEAN)'
        /\ (fired \in (0..token) \union {None})' /\ (token = Len(picks))'
    BY DEF BeatInv, BeatsTyped, Ping, BenchInv, BenchTyped
  <2>2. QED
    BY <2>1 DEF BeatInv, BeatsTyped, SH!TypeOK
<1>3. ASSUME NEW c, NEW sql \in SH!Texts \union {None}, NEW t, SH!Renders(c, sql, t)
      PROVE  busy' \in SH!Texts \union {None}
  BY <1>1, <1>3 DEF SH!Renders, SH!AutoRun, SH!benchVars
<1>4. ASSUME NEW c, SH!ChangeTo(c)
      PROVE  Health'
  <2>1. health' \in {health, None}
    BY <1>4 DEF SH!ChangeTo, SH!Beats, SH!beatVars
  <2>2. QED
    BY <1>1, <2>1
<1>5. ASSUME NEW c, SH!SelectConn(c)
      PROVE  (Texted /\ Health)'
  <2>1. context' = None /\ SH!Renders(c, None, token) /\ SH!ChangeTo(c)
    BY <1>5 DEF SH!SelectConn
  <2>2. None \in SH!Texts \union {None}
    OBVIOUS
  <2>3. busy' \in SH!Texts \union {None}
    BY <1>3, <2>1, <2>2
  <2>4. Health'
    BY <1>4, <2>1
  <2>5. QED
    BY <2>1, <2>3, <2>4
<1>6. SH!Acts \/ steps' = steps => Steps'
  BY <1>1 DEF SH!Acts, SH!ShellAssumption
<1>7. ASSUME NEW c, SH!ClickRow(c) \/ SH!PickFromPalette(c) \/ SH!Create(c)
      PROVE  (Texted /\ Server /\ Health /\ Steps)'
  <2>1. SH!Acts /\ serverOk' = serverOk /\ \E d : SH!SelectConn(d)
    BY <1>7 DEF SH!ClickRow, SH!PickFromPalette, SH!Create
  <2>2. Server'
    BY <1>1, <2>1
  <2> HIDE DEF Texted, Server, Health, Steps
  <2>3. QED
    BY <1>5, <1>6, <2>1, <2>2
<1>8. ASSUME NEW r, SH!Removed(r)
      PROVE  (Texted /\ Server /\ Health /\ Steps)'
  <2>1. serverOk' = serverOk /\ steps' = steps
        /\ (SH!SelectConn(None) \/ UNCHANGED <<health, context, busy>>)
    BY <1>8 DEF SH!Removed, SH!beatVars, SH!pickVars, SH!benchVars
  <2>2. (Server /\ Steps)'
    BY <1>1, <2>1
  <2>3. UNCHANGED <<health, context, busy>> => (Texted /\ Health)'
    BY <1>1
  <2> HIDE DEF Texted, Server, Health, Steps
  <2>4. QED
    BY <1>5, <2>1, <2>2, <2>3
<1>9. ASSUME NEW sql \in SH!Texts, NEW c, SH!LogPick(sql, c)
      PROVE  (Texted /\ Server /\ Health /\ Steps)'
  <2>1. SH!Acts /\ serverOk' = serverOk /\ context' = sql
        /\ \E d : SH!ChangeTo(d) /\ SH!Renders(d, sql, token')
    BY <1>9 DEF SH!LogPick
  <2>2. Texted' /\ Server'
    BY <1>1, <1>3, <2>1
  <2>3. Steps'
    BY <1>6, <2>1
  <2>4. Health'
    BY <1>4, <2>1
  <2>5. QED
    BY <2>2, <2>3, <2>4
<1>10. ASSUME NEW c, SH!Fetched(c)
       PROVE  (Texted /\ Server /\ Health /\ Steps)'
  <2>1. serverOk' = serverOk /\ steps' = steps /\ context' = context
    BY <1>10 DEF SH!Fetched
  <2>2. \/ SH!ChangeTo(c) /\ SH!Renders(c, context, token)
        \/ UNCHANGED <<health, busy>>
    BY <1>10 DEF SH!Fetched, SH!beatVars, SH!benchVars
  <2>3. Texted'
    BY <1>1, <1>3, <2>1, <2>2
  <2>4. Health'
    BY <1>1, <1>4, <2>2
  <2>5. QED
    BY <1>1, <2>1, <2>3, <2>4
<1>11. ASSUME NEW ok \in BOOLEAN, SH!CheckHealth(ok)
       PROVE  (Texted /\ Server /\ Health /\ Steps)'
  <2>1. SH!Acts /\ serverOk' = ok /\ health' = None /\ UNCHANGED <<context, busy>>
    BY <1>11 DEF SH!CheckHealth, SH!Beats, SH!pickVars, SH!benchVars
  <2>2. QED
    BY <1>1, <1>6, <2>1
<1>12. ASSUME NEW p \in pings, NEW ok \in BOOLEAN, SH!PingAnswer(p, ok)
       PROVE  (Texted /\ Server /\ Health /\ Steps)'
  <2>1. health' \in {health, [of |-> p.conn, ok |-> ok]} /\ UNCHANGED <<serverOk, steps, context, busy>>
    BY <1>12 DEF SH!PingAnswer, SH!pickVars, SH!benchVars
  <2>2. p.conn \in ShellConns
    BY DEF BeatInv, BeatsTyped, Ping
  <2>3. QED
    BY <1>1, <2>1, <2>2
<1>13. ASSUME NEW sql \in SH!Texts, SH!OpenInQuery(sql)
       PROVE  (Texted /\ Server /\ Health /\ Steps)'
  <2>1. SH!Acts /\ UNCHANGED <<serverOk, health, busy>> /\ context' \in {context, sql}
    BY <1>13 DEF SH!OpenInQuery, SH!pickVars, SH!beatVars, SH!benchVars
  <2>2. QED
    BY <1>1, <1>6, <2>1
<1>14. CASE \/ SH!RefreshConnections \/ SH!PingAgain \/ SH!RunEnds \/ SH!ClearContext
            \/ \E c \in ShellConns : SH!Remove(c)
  <2>1. (SH!Acts \/ steps' = steps) /\ UNCHANGED <<serverOk, health>>
        /\ context' \in {context, None} /\ busy' \in {busy, None}
    BY <1>14 DEF SH!RefreshConnections, SH!PingAgain, SH!RunEnds, SH!ClearContext, SH!Remove,
                 SH!pickVars, SH!beatVars, SH!benchVars
  <2>2. QED
    BY <1>1, <1>6, <2>1
<1>15. CASE UNCHANGED SH!shellVars
  <2>1. UNCHANGED <<serverOk, health, steps, context, busy>>
    BY <1>15 DEF SH!shellVars
  <2>2. QED
    BY <1>1, <2>1
<1> HIDE DEF Texted, Server, Health, Steps
<1>16. QED
  BY <1>7, <1>8, <1>9, <1>10, <1>11, <1>12, <1>13, <1>14, <1>15 DEF SH!Next

\* The machines start with the types of their variables.
LEMMA SocketStartsTyped == WS!WsAssumption /\ WS!Init => WS!TypeOK
<1> SUFFICES ASSUME WS!Init
             PROVE  WS!TypeOK
  OBVIOUS
<1>1. client \in Sockets \cup {None} /\ asked \subseteq Queries
  BY DEF WS!Init
<1>2. ready \in [Sockets -> {"unused", "connecting", "open", "closing", "closed"}]
  BY DEF WS!Init
<1>3. closedFlag \in [Sockets -> BOOLEAN] /\ hello \in [Sockets -> BOOLEAN]
  BY DEF WS!Init
<1>4. connOf \in [Sockets -> Conns \cup {None}] /\ prevOf \in [Sockets -> Sockets \cup {None}]
  BY DEF WS!Init
<1>5. pending \in [Sockets -> SUBSET Queries] /\ received \in [Sockets -> SUBSET Queries]
  BY DEF WS!Init
<1>6. pc \in [Queries -> WS!States]
  BY DEF WS!Init, WS!States
<1>7. target \in [Queries -> Sockets \cup {None}] /\ answers \in [Queries -> Nat]
  BY DEF WS!Init
<1>8. stops \in BOOLEAN
  BY DEF WS!Init
<1>9. QED
  BY <1>1, <1>2, <1>3, <1>4, <1>5, <1>6, <1>7, <1>8 DEF WS!TypeOK

LEMMA RunStartsTyped == QR!RunAssumption /\ QR!Init => QR!TypeOK
<1> SUFFICES ASSUME QR!RunAssumption, QR!Init
             PROVE  QR!TypeOK
  OBVIOUS
<1>1. conn \in Conns /\ transport \in QR!Channels /\ run = None /\ entries = << >>
  BY DEF QR!Init
<1>2. held \in [QR!Handlers -> [conn : Conns, chan : QR!Channels]]
  BY DEF QR!Init
<1>3. {cancelled, liveId, queryId, asked} \subseteq BOOLEAN
  BY DEF QR!Init
<1>4. entries \in Seq(QR!Statuses)
  BY <1>1
<1>5. QED
  BY <1>1, <1>2, <1>3, <1>4 DEF QR!TypeOK, QR!busy

LEMMA EditorStartsTyped == ET!TabsAssumption /\ ET!Init => ET!TypeOK
<1> SUFFICES ASSUME ET!TabsAssumption, ET!Init
             PROVE  ET!TypeOK
  OBVIOUS
<1>0. EditorInv
  BY EditorStarts
<1>1. armed \in BOOLEAN
  BY DEF ET!Init
<1>2. /\ TabsOK(tabs, active, made)
      /\ \A c \in Conns : store[c] # None => TabsOK(store[c].tabs, store[c].active, made)
  BY <1>0 DEF EditorInv
<1>3. ET!WellFormed(ET!Saved(tabs, active))
  <2> DEFINE s == [tabs |-> tabs, active |-> active]
  <2>1. TabsOK(s.tabs, s.active, made)
    BY <1>2
  <2> HIDE DEF s
  <2>2. TabsShape(s, made)
    BY <2>1, TabsAreShaped
  <2>3. QED
    BY <2>2 DEF TabsShape, ET!WellFormed, ET!Saved, s
<1>4. \A c \in Conns : store[c] # None => TabsShape(store[c], made)
  BY <1>2, TabsAreShaped
<1>5. \A c \in Conns : store[c] # None => ET!WellFormed(store[c])
  BY <1>4 DEF TabsShape, ET!WellFormed
<1>6. QED
  BY <1>0, <1>1, <1>3, <1>5 DEF EditorInv, ET!TypeOK

LEMMA WhiteStartsTyped == WL!WhitelistAssumption /\ WL!Init => WL!TypeOK
<1> SUFFICES ASSUME WL!WhitelistAssumption, WL!Init
             PROVE  WL!TypeOK
  OBVIOUS
<1>1. /\ \A S : WL!Cardinality(S) = Cardinality(S)
      /\ \A S : WL!IsFiniteSet(S) <=> IsFiniteSet(S)
  BY Zenon DEF WL!Cardinality, WL!IsFiniteSet, Cardinality, IsFiniteSet
<1>2. IsFiniteSet(RiskKeys) /\ MaxDays \in Nat
  BY <1>1 DEF WL!WhitelistAssumption
<1>3. WL!Cardinality(RiskKeys) \in Nat
  BY <1>1, <1>2, FS_CardinalityType
<1>4. list \in [RiskKeys -> WL!Ages \cup {None}] /\ stored \in [RiskKeys -> WL!Ages \cup {None}]
  BY DEF WL!Init, WL!Empty
<1>5. anchor \in 0..WL!Cardinality(RiskKeys) /\ days \in 0..MaxDays
  BY <1>2, <1>3 DEF WL!Init
<1>6. panel \in BOOLEAN
  BY DEF WL!Init
<1>7. byAge \in BOOLEAN
  BY DEF WL!Init
<1>8. found \subseteq RiskKeys /\ sel \subseteq RiskKeys
  BY DEF WL!Init
<1>9. QED
  BY <1>4, <1>5, <1>6, <1>7, <1>8 DEF WL!TypeOK
=============================================================================
