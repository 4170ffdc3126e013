----------------------------- MODULE RedisPanel -----------------------------
(***************************************************************************)
(* The Redis panel (RedisBrowser.tsx): the list of keys, the value of one    *)
(* key with its editor, and the console.  Every call is a request whose      *)
(* answer may come at any time, in any order, or fail; none is dropped when  *)
(* the panel has moved on.  What a console command does to the database is   *)
(* not followed.                                                            *)
(*                                                                         *)
(* A key that is listed or a value that is shown is the place it was read    *)
(* from: a record [conn, db, key].                                          *)
(***************************************************************************)
EXTENDS Naturals, Sequences, FiniteSets, Functions

CONSTANTS
    Conns, Dbs,     \* the connections, and the databases of each
    Pages,          \* [pattern -> the pages of keys a scan returns]
    Strings,        \* the keys that hold a string
    ReadOnly,       \* the connections marked read only
    None,
    MaxActs         \* bound: steps of the user

Patterns == DOMAIN Pages
AllKeys == UNION {UNION {Range(Pages[p][n]) : n \in DOMAIN Pages[p]} : p \in Patterns}

\* What the constants have to satisfy: a connection that may be written, a
\* first database, and a scan of more than one page.
PanelAssumption ==
    /\ \E c \in Conns : c \notin ReadOnly
    /\ \E d \in Dbs : \A e \in Dbs : d <= e
    /\ \E p \in Patterns : Len(Pages[p]) > 1
    /\ \A p \in Patterns : Pages[p] \in Seq(Seq(AllKeys))
    /\ MaxActs \in Nat

VARIABLES
    conn,       \* the property connId
    db, pattern, keys, cursor,
    selKey, value, editing, draft, saving,
    error,      \* error is shown, above the list
    failed,     \* valueError or saveError is shown
    entries,    \* consoleEntries: [cmd, reply], the reply None or a command
    session,    \* [Conns -> the database that the session of the server is on]
    stored,     \* [Conns -> [Dbs -> [keys -> what the panel wrote, or None]]]
    calls,      \* the requests on their way
    done,       \* the answers on their way back
    calm,       \* no request overlapped another, no reading back has failed
    acts

redisVars == <<conn, db, pattern, keys, cursor, selKey, value, editing, draft, saving,
               error, failed, entries, session, stored, calls, done, calm, acts>>
listVars == <<db, keys, cursor>>
valueVars == <<selKey, value, editing, draft, saving>>
serverVars == <<session, stored>>

Place(c, d, k) == [conn |-> c, db |-> d, key |-> k]

Init ==
    /\ conn = (CHOOSE c \in Conns : c \notin ReadOnly) /\ db = (CHOOSE d \in Dbs : \A e \in Dbs : d <= e)
    /\ pattern = (CHOOSE p \in Patterns : Len(Pages[p]) > 1)
    /\ keys = <<>> /\ cursor = 0 /\ selKey = None /\ value = None /\ editing = FALSE
    /\ draft = None /\ saving = FALSE /\ error = FALSE /\ failed = FALSE
    /\ entries = <<>>
    /\ session = [c \in Conns |-> db]
    /\ stored = [c \in Conns |-> [d \in Dbs |-> [k \in AllKeys |-> None]]]
    /\ calls = {[id |-> 0, kind |-> "scan", conn |-> conn, arg |-> <<pattern, 1>>]}
    /\ done = {} /\ calm = TRUE /\ acts = 0

-----------------------------------------------------------------------------
(* Requests.                                                                *)

Call(kind, c, arg) == [id |-> acts', kind |-> kind, conn |-> c, arg |-> arg]
Waiting == calls # {} \/ done # {}
Loading == \E r \in calls \union done : r.kind = "scan"

Ask(call) == calls' = calls \union {call} /\ calm' = (calm /\ ~Waiting)

Acts == acts < MaxActs /\ acts' = acts + 1

\* What the server sends back, at the moment it handles the request.
Read(c) ==
    [place |-> Place(c.conn, session[c.conn], c.arg),
     text |-> stored[c.conn][session[c.conn]][c.arg]]

\* A cursor of another pattern may lie behind the last page.
Scanned(c) ==
    LET pages == Pages[c.arg[1]]
        page == IF c.arg[2] \in DOMAIN pages THEN pages[c.arg[2]] ELSE <<>>
    IN  [db |-> session[c.conn],
         next |-> IF c.arg[2] < Len(pages) THEN c.arg[2] + 1 ELSE 0,
         keys |-> [i \in DOMAIN page |-> Place(c.conn, session[c.conn], page[i])]]

Serve(c) ==
    /\ calls' = calls \ {c}
    /\ done' = done \union
         {[id |-> c.id, kind |-> c.kind, conn |-> c.conn, arg |-> c.arg, ok |-> TRUE, out |->
            CASE c.kind = "scan" -> Scanned(c)
              [] c.kind \in {"get", "readback"} -> Read(c)
              [] OTHER -> c.arg]}
    /\ session' = IF c.kind = "select" THEN [session EXCEPT ![c.conn] = c.arg] ELSE session
    /\ stored' = IF c.kind = "set"
                 THEN [stored EXCEPT ![c.conn][session[c.conn]][c.arg.key] = c.arg.text]
                 ELSE stored
    /\ UNCHANGED <<conn, pattern, listVars, valueVars, error, failed, entries, calm, acts>>

Refuse(c) ==
    /\ calls' = calls \ {c}
    /\ done' = done \union {[id |-> c.id, kind |-> c.kind, conn |-> c.conn, arg |-> c.arg,
                             ok |-> FALSE, out |-> None]}
    /\ UNCHANGED <<conn, pattern, listVars, valueVars, error, failed, entries, serverVars, calm, acts>>

-----------------------------------------------------------------------------
(* The list of keys.                                                        *)

Rescans(c, p) == Ask(Call("scan", c, <<p, 1>>)) /\ error' = FALSE

\* loadKeys with a page of its own: the button is off while one is awaited.
Scan ==
    /\ Acts /\ Rescans(conn, pattern)
    /\ UNCHANGED <<conn, pattern, listVars, valueVars, failed, entries, serverVars, done>>

LoadMore ==
    /\ Acts /\ cursor # 0 /\ ~Loading
    /\ Ask(Call("scan", conn, <<pattern, cursor>>)) /\ error' = FALSE
    /\ UNCHANGED <<conn, pattern, listVars, valueVars, failed, entries, serverVars, done>>

\* The effect on connId and loadKeys, which is a new one for a new pattern.
Reset(c, p) ==
    /\ conn' = c /\ pattern' = p
    /\ keys' = <<>> /\ selKey' = None /\ value' = None
    /\ Rescans(c, p)
    /\ UNCHANGED <<db, cursor, editing, draft, saving, failed, entries, serverVars, done>>

TypePattern(p) == Acts /\ p # pattern /\ Reset(conn, p)
SwitchConnection(c) == Acts /\ c # conn /\ Reset(c, pattern)

ChangeDb(d) ==
    /\ Acts /\ d # db /\ db' = d /\ Ask(Call("select", conn, d))
    /\ UNCHANGED <<conn, pattern, keys, cursor, valueVars, error, failed, entries, serverVars, done>>

Ok(kind) == {r \in done : r.kind = kind /\ r.ok}

\* Mutant of KeysArrive: the list keeps the database that was chosen.
KeysArriveSilently(r) ==
    /\ done' = done \ {r} /\ cursor' = r.out.next
    /\ keys' = IF r.arg[2] = 1 THEN r.out.keys ELSE keys \o r.out.keys
    /\ UNCHANGED <<conn, db, pattern, valueVars, error, failed, entries, serverVars, calls, calm, acts>>

KeysArrive(r) ==
    /\ done' = done \ {r} /\ db' = r.out.db /\ cursor' = r.out.next
    /\ keys' = IF r.arg[2] = 1 THEN r.out.keys ELSE keys \o r.out.keys
    /\ UNCHANGED <<conn, pattern, valueVars, error, failed, entries, serverVars, calls, calm, acts>>

\* The loadKeys of the render in which the database was chosen.
DbSelected(r) ==
    /\ done' = done \ {r} /\ keys' = <<>> /\ selKey' = None /\ value' = None
    /\ calls' = calls \union {[id |-> r.id, kind |-> "scan", conn |-> r.conn,
                               arg |-> <<pattern, 1>>]}
    /\ error' = FALSE
    /\ UNCHANGED <<conn, db, cursor, pattern, editing, draft, saving, failed, entries, serverVars,
                   calm, acts>>

-----------------------------------------------------------------------------
(* The value of one key.                                                    *)

OpenKey(k) ==
    /\ Acts /\ selKey' = k /\ value' = None /\ editing' = FALSE /\ failed' = FALSE
    /\ Ask(Call("get", conn, k))
    /\ UNCHANGED <<conn, pattern, listVars, draft, saving, error, entries, serverVars, done>>

ValueArrives(r) ==
    /\ done' = done \ {r} /\ value' = r.out
    /\ saving' = (saving /\ r.kind # "readback")
    /\ UNCHANGED <<conn, pattern, listVars, selKey, editing, draft, error, failed, entries, serverVars,
                   calls, calm, acts>>

\* redisWriteBlock: a value, of a string, on a connection that may be written.
StartEdit ==
    /\ Acts /\ value # None /\ ~editing
    /\ conn \notin ReadOnly /\ value.place.key \in Strings
    /\ editing' = TRUE /\ draft' = <<value.place, acts'>> /\ failed' = FALSE
    /\ UNCHANGED <<conn, pattern, listVars, selKey, value, saving, error, entries, serverVars, calls,
                   done, calm>>

CancelEdit ==
    /\ Acts /\ editing /\ editing' = FALSE /\ failed' = FALSE
    /\ UNCHANGED <<conn, pattern, listVars, selKey, value, draft, saving, error, entries, serverVars,
                   calls, done, calm>>

CommitEdit ==
    /\ Acts /\ editing /\ value # None /\ selKey # None /\ ~saving
    /\ saving' = TRUE /\ failed' = FALSE
    /\ Ask(Call("set", conn, [key |-> selKey, text |-> draft]))
    /\ UNCHANGED <<conn, pattern, listVars, selKey, value, editing, draft, error, entries, serverVars,
                   done>>

Written(r) ==
    /\ done' = done \ {r} /\ editing' = FALSE
    /\ calls' = calls \union {[id |-> r.id, kind |-> "readback", conn |-> r.conn,
                               arg |-> r.arg.key]}
    /\ UNCHANGED <<conn, pattern, listVars, selKey, value, draft, saving, error, failed, entries,
                   serverVars, calm, acts>>

-----------------------------------------------------------------------------
(* The console, and failures.                                               *)

RunCommand ==
    /\ Acts /\ entries' = Append(entries, [cmd |-> acts', reply |-> None])
    /\ Ask(Call("exec", conn, acts'))
    /\ UNCHANGED <<conn, pattern, listVars, valueVars, error, failed, serverVars, done>>

\* The answer, or the error, goes to the entry that is last by then.
Replied(r) ==
    /\ done' = done \ {r}
    /\ entries' = [entries EXCEPT ![Len(entries)].reply = r.arg]
    /\ UNCHANGED <<conn, pattern, listVars, valueVars, error, failed, serverVars, calls, calm, acts>>

Failed(r) ==
    /\ done' = done \ {r}
    /\ error' = (error \/ r.kind \in {"scan", "select"})
    /\ failed' = (failed \/ r.kind \notin {"scan", "select"})
    /\ saving' = (saving /\ r.kind \notin {"set", "readback"})
    /\ calm' = (calm /\ r.kind # "readback")
    /\ UNCHANGED <<conn, pattern, listVars, selKey, value, editing, draft, entries, serverVars,
                   calls, acts>>

-----------------------------------------------------------------------------

Next ==
    \/ Scan \/ LoadMore \/ StartEdit \/ CancelEdit \/ CommitEdit \/ RunCommand
    \/ \E p \in Patterns : TypePattern(p)
    \/ \E c \in Conns : SwitchConnection(c)
    \/ \E d \in Dbs : ChangeDb(d)
    \/ \E k \in {keys[i].key : i \in DOMAIN keys} : OpenKey(k)
    \/ \E c \in calls : Serve(c) \/ Refuse(c)
    \/ \E r \in Ok("scan") : KeysArrive(r)
    \/ \E r \in Ok("select") : DbSelected(r)
    \/ \E r \in Ok("get") \union Ok("readback") : ValueArrives(r)
    \/ \E r \in Ok("set") : Written(r)
    \/ \E r \in {x \in done : x.kind = "exec"} : Replied(r)
    \/ \E r \in {x \in done : ~x.ok /\ x.kind # "exec"} : Failed(r)

Spec == Init /\ [][Next]_redisVars

-----------------------------------------------------------------------------

TypeOK ==
    /\ conn \in Conns /\ db \in Dbs /\ pattern \in Patterns
    /\ \A i \in DOMAIN keys : keys[i] \in [conn : Conns, db : Dbs, key : AllKeys]
    /\ cursor \in Nat /\ selKey \in AllKeys \union {None}
    /\ editing \in BOOLEAN /\ saving \in BOOLEAN /\ error \in BOOLEAN /\ failed \in BOOLEAN
    /\ calm \in BOOLEAN
    /\ session \in [Conns -> Dbs] /\ acts \in 0..MaxActs
    /\ \A r \in calls \union done : r.kind \in {"scan", "select", "get", "set", "readback", "exec"}

\* Whoever waits for each answer, and no save is left unread, sees the truth: the
\* database that is chosen, the keys and the value are those of the session,
\* a text is written where it was read, what is shown after a save is what
\* the server stores, and each reply stands under its command.
RightWhenUnhurried ==
    calm =>
        /\ ~Waiting /\ ~error /\ ~failed =>
             /\ db = session[conn]
             /\ \A i \in DOMAIN keys : keys[i].conn = conn /\ keys[i].db = db
             /\ value # None => /\ value.place = Place(conn, db, selKey)
                                /\ value.text = stored[conn][db][selKey]
        /\ \A c \in Conns, d \in Dbs, k \in AllKeys :
             stored[c][d][k] # None => stored[c][d][k][1] = Place(c, d, k)
        /\ \A i \in DOMAIN entries : entries[i].reply \in {entries[i].cmd, None}
=============================================================================
