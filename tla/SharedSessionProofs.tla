------------------------ MODULE SharedSessionProofs ------------------------
(***************************************************************************)
(* What TLAPS proves about SharedSession: for any number of transactions   *)
(* and writes, sqlite's one session keeps the promises of behavior.md 10.2 *)
(* because it refuses a second BEGIN.                                      *)
(***************************************************************************)
EXTENDS SharedSession, TLAPS

\* There is at most one transaction, and the session is in it.
OneTransaction ==
  /\ depth \in {0, 1}
  /\ \A t, u \in Txns : status[t] = "active" /\ status[u] = "active" => t = u
  /\ \A t \in Txns : status[t] = "active" => depth = 1

\* Where a write is shows what became of the transaction it belongs to.
WritesFollow ==
  \A w \in Writes :
    /\ author[w] = Nobody => w \notin durable \cup pending
    /\ author[w] \in Txns /\ status[author[w]] = "active" => w \notin durable
    /\ author[w] \in Txns /\ status[author[w]] = "active" => w \in pending
    /\ author[w] \in Txns => status[author[w]] # "unborn"
    /\ w \in pending => \A t \in Txns : status[t] = "active" =>
                          author[w] \in {t, Plain}

\* An entry is in the map or with the request that took it.
TakenIsOut == \A t \in Txns : taken[t] # "no" => t \notin txs

IInv == TypeOK /\ TakenIsOut /\ OneTransaction /\ WritesFollow
        /\ CommittedIsDurable /\ RolledBackIsGone

LEMMA Initially == Init => IInv
BY AuthorAssumption
   DEF Init, IInv, TypeOK, TakenIsOut, OneTransaction, WritesFollow,
       CommittedIsDurable, RolledBackIsGone, Jobs, Statuses

LEMMA Inductive ==
  ASSUME Dialect = "sqlite", IInv, [Next]_vars
  PROVE  IInv'
<1> USE AuthorAssumption
    DEF IInv, TypeOK, TakenIsOut, OneTransaction, WritesFollow,
        CommittedIsDurable, RolledBackIsGone, Jobs, Statuses, session
<1>1. ASSUME NEW t \in Txns, Begin(t)
      PROVE  IInv'
  BY <1>1 DEF Begin, CanBegin, BeginSession
<1>2. ASSUME NEW t \in Txns, Commit(t)
      PROVE  IInv'
  <2>1. CASE depth = 1 /\ MakeDurable /\ Ended(t, "committed")
    <3>1. TypeOK' /\ TakenIsOut' /\ OneTransaction' /\ WritesFollow'
      BY <1>2, <2>1 DEF Commit, MakeDurable, Ended
    <3>2. CommittedIsDurable' /\ RolledBackIsGone'
      BY <1>2, <2>1 DEF Commit, MakeDurable, Ended
    <3>3. QED
      BY <3>1, <3>2
  <2>2. CASE UNCHANGED session /\ Ended(t, "failed")
    BY <1>2, <2>2 DEF Commit, Ended
  <2>3. QED
    BY <1>2, <2>1, <2>2 DEF Commit, InTransaction, CommitSession
<1>3. ASSUME NEW t \in Txns, Rollback(t)
      PROVE  IInv'
  <2>1. CASE depth = 1 /\ Discard /\ Ended(t, "rolled_back")
    <3>1. TypeOK' /\ TakenIsOut' /\ OneTransaction' /\ WritesFollow'
      BY <1>3, <2>1 DEF Rollback, Discard, Ended
    <3>2. CommittedIsDurable' /\ RolledBackIsGone'
      BY <1>3, <2>1 DEF Rollback, Discard, Ended
    <3>3. QED
      BY <3>1, <3>2
  <2>2. CASE UNCHANGED session /\ Ended(t, "failed")
    BY <1>3, <2>2 DEF Rollback, Ended
  <2>3. QED
    BY <1>3, <2>1, <2>2 DEF Rollback, InTransaction
<1>4. ASSUME NEW t \in Txns, NEW job \in Jobs, Take(t, job)
      PROVE  IInv'
  BY <1>4 DEF Take
<1>5. ASSUME NEW t \in Txns, NEW w \in Writes, ExecuteInTx(t, w)
      PROVE  IInv'
  BY <1>5 DEF ExecuteInTx, RunStatement
<1>6. ASSUME NEW w \in Writes, Execute(w)
      PROVE  IInv'
  <2>1. /\ author' = [author EXCEPT ![w] = Plain]
        /\ status' = status /\ depth' = depth
        /\ \/ pending' = pending \cup {w} /\ durable' = durable
           \/ durable' = durable \cup {w} /\ pending' = pending /\ depth = 0
    BY <1>6 DEF Execute, RunStatement
  <2>2. TypeOK' /\ TakenIsOut' /\ OneTransaction'
    BY <1>6, <2>1 DEF Execute, RunStatement
  <2>3. author'[w] = Plain /\ Plain \notin Txns /\ Plain # Nobody
    <3>1. author'[w] = Plain
      BY <2>1
    <3>2. Plain \notin Txns /\ Plain # Nobody
      BY DEF Plain, Nobody
    <3>3. QED
      BY <3>1, <3>2
  <2>4. \A v \in Writes \ {w} : /\ author'[v] = author[v]
                                /\ v \in durable' <=> v \in durable
                                /\ v \in pending' <=> v \in pending
    BY <2>1
  <2>5. WritesFollow'
    <3>1. ASSUME NEW v \in Writes, v # w
          PROVE  /\ author'[v] = Nobody => v \notin durable' \cup pending'
                 /\ author'[v] \in Txns /\ status'[author'[v]] = "active" =>
                      v \notin durable' /\ v \in pending'
                 /\ author'[v] \in Txns => status'[author'[v]] # "unborn"
                 /\ v \in pending' => \A t \in Txns : status'[t] = "active" =>
                                        author'[v] \in {t, Plain}
      BY <3>1, <2>1, <2>3, <2>4
    <3>2. QED
      BY <2>3, <3>1
  <2>6. CommittedIsDurable' /\ RolledBackIsGone'
    BY <2>1, <2>3, <2>4
  <2>7. QED
    BY <2>2, <2>5, <2>6
<1>7. CASE Disconnect
  <2>1. TypeOK' /\ TakenIsOut'
    BY <1>7 DEF Disconnect, Discard
  <2>2. \A t \in Txns : /\ status'[t] # "active"
                        /\ status'[t] = "unborn" => status[t] = "unborn"
    BY <1>7 DEF Disconnect
  <2>3. OneTransaction' /\ WritesFollow'
    BY <1>7, <2>2 DEF Disconnect, Discard
  <2>4. \A t \in Txns : status'[t] \in {"committed", "rolled_back"} =>
                        status'[t] = status[t]
    BY <1>7 DEF Disconnect
  <2>5. CommittedIsDurable' /\ RolledBackIsGone'
    BY <1>7, <2>4 DEF Disconnect, Discard
  <2>6. QED
    BY <2>1, <2>3, <2>5
<1>8. CASE UNCHANGED vars
  BY <1>8 DEF vars
<1> HIDE DEF IInv
<1>9. QED
  BY <1>1, <1>2, <1>3, <1>4, <1>5, <1>6, <1>7, <1>8 DEF Next

LEMMA Invariance == ASSUME Dialect = "sqlite" PROVE Spec => []IInv
<1>1. IInv /\ [Next]_vars => IInv'
  BY Inductive
<1>2. QED
  BY <1>1, Initially, PTL DEF Spec

\* With sqlite, what was acknowledged in a committed transaction is in the
\* database.
THEOREM SqliteCommitIsDurable ==
  ASSUME Dialect = "sqlite" PROVE Spec => []CommittedIsDurable
<1>1. IInv => CommittedIsDurable
  BY DEF IInv
<1>2. QED
  BY <1>1, Invariance, PTL

\* With sqlite, nothing of a rolled back transaction is left.
THEOREM SqliteRollbackIsGone ==
  ASSUME Dialect = "sqlite" PROVE Spec => []RolledBackIsGone
<1>1. IInv => RolledBackIsGone
  BY DEF IInv
<1>2. QED
  BY <1>1, Invariance, PTL

LEMMA OwnCommitStep ==
  ASSUME Dialect = "sqlite", IInv, Next, NEW w \in Writes,
         author[w] \in Txns, w \in durable' \ durable
  PROVE  taken[author[w]] = "commit" /\ status'[author[w]] = "committed"
<1> USE AuthorAssumption
    DEF IInv, TypeOK, TakenIsOut, OneTransaction, WritesFollow, session
<1>1. ASSUME NEW t \in Txns, Commit(t)
      PROVE  t = author[w] /\ taken[t] = "commit" /\ status'[t] = "committed"
  <2>1. depth = 1 /\ durable' = durable \cup pending /\ Ended(t, "committed")
    BY <1>1 DEF Commit, InTransaction, CommitSession, MakeDurable
  <2>2. w \in pending /\ taken[t] = "commit"
    BY <1>1, <2>1 DEF Commit
  <2>3. status[t] = "active" /\ t \in DOMAIN status
    BY <1>1, <2>2
  <2>4. author[w] \in {t, Plain}
    BY <2>2, <2>3
  <2>5. author[w] = t
    BY <2>4 DEF Plain
  <2> QED
    BY <2>1, <2>2, <2>3, <2>5 DEF Ended
<1>2. ASSUME NEW t \in Txns, NEW v \in Writes, ExecuteInTx(t, v)
      PROVE  FALSE
  BY <1>2 DEF ExecuteInTx, RunStatement
<1>3. ASSUME NEW v \in Writes, Execute(v)
      PROVE  FALSE
  BY <1>3 DEF Execute, RunStatement
<1>4. QED
  BY <1>1, <1>2, <1>3
     DEF Next, Begin, BeginSession, Rollback, Discard, Take, Disconnect

\* With sqlite, a write of a transaction becomes permanent only when this
\* transaction is committed.
THEOREM SqliteOwnCommitOnly ==
  ASSUME Dialect = "sqlite" PROVE Spec => OwnCommitOnly
<1>1. IInv /\ [Next]_vars =>
        [\A w \in Writes :
           author[w] \in Txns /\ w \in durable' \ durable =>
             taken[author[w]] = "commit" /\ status'[author[w]] = "committed"
        ]_vars
  BY OwnCommitStep
<1>2. QED
  BY <1>1, Invariance, PTL DEF Spec, OwnCommitOnly

-----------------------------------------------------------------------------
(* Types, in every dialect.                                                *)

\* A statement that has not been executed has no effect yet, so none is both
\* pending and durable.
NotYet == \A w \in Writes : author[w] = Nobody => w \notin durable \cup pending

TypeInv == TypeOK /\ TakenIsOut /\ NotYet

LEMMA TypeInductive == ASSUME TypeInv, [Next]_vars PROVE TypeInv'
<1> USE AuthorAssumption, DialectAssumption
    DEF TypeInv, TypeOK, TakenIsOut, NotYet, Jobs, Statuses, session
<1>1. ASSUME NEW t \in Txns, Begin(t)
      PROVE  TypeInv'
  BY <1>1 DEF Begin, CanBegin, BeginSession
<1>2. ASSUME NEW t \in Txns, NEW job \in Jobs, Take(t, job)
      PROVE  TypeInv'
  BY <1>2 DEF Take
<1>3. ASSUME NEW t \in Txns, NEW w \in Writes, ExecuteInTx(t, w)
      PROVE  TypeInv'
  BY <1>3 DEF ExecuteInTx, RunStatement
<1>4. ASSUME NEW w \in Writes, Execute(w)
      PROVE  TypeInv'
  <2>1. /\ w \notin durable \cup pending
        /\ author' = [author EXCEPT ![w] = Plain]
        /\ UNCHANGED <<txs, taken, status, depth>>
    BY <1>4 DEF Execute, RunStatement
  <2>0. Plain # Nobody
    BY Zenon DEF Plain, Nobody
  <2>2. CASE pending' = pending \cup {w} /\ durable' = durable
             /\ (Dialect = "oracle" \/ depth > 0)
    BY <2>0, <2>1, <2>2
  <2>3. CASE durable' = durable \cup {w} /\ pending' = pending
    BY <2>0, <2>1, <2>3
  <2>4. QED
    BY <1>4, <2>2, <2>3 DEF Execute, RunStatement
<1>5. ASSUME NEW t \in Txns, Commit(t)
      PROVE  TypeInv'
  BY <1>5 DEF Commit, CommitSession, MakeDurable, Ended
<1>6. ASSUME NEW t \in Txns, Rollback(t)
      PROVE  TypeInv'
  BY <1>6 DEF Rollback, Discard, Ended
<1>7. CASE Disconnect
  BY <1>7 DEF Disconnect, Discard
<1>8. CASE UNCHANGED vars
  BY <1>8 DEF vars
<1> HIDE DEF TypeInv
<1>9. QED
  BY <1>1, <1>2, <1>3, <1>4, <1>5, <1>6, <1>7, <1>8 DEF Next

\* In each of the three dialects the entries, the session and the writes keep
\* their types: a transaction is active as long as its entry is registered or
\* taken, and outside oracle a session in no transaction has nothing pending.
THEOREM TypeCorrect == Spec => []TypeOK
<1>1. Init => TypeInv
  BY AuthorAssumption DEF Init, TypeInv, TypeOK, TakenIsOut, NotYet, Jobs, Statuses
<1>2. TypeInv => TypeOK
  BY DEF TypeInv
<1>3. QED
  BY <1>1, <1>2, TypeInductive, PTL DEF Spec

=============================================================================
