------------------------- MODULE RustAppCoreProofs -------------------------
(***************************************************************************)
(* What TLAPS proves about RustAppCore, for every set of requests,         *)
(* connections, drivers, transaction ids and configurations.               *)
(***************************************************************************)
EXTENDS RustAppCore, TLAPS

\* The three are inductive together: an entry can only be put back because
\* nobody else has it (OwnedOnce), a new id can only be fresh because every
\* transaction that can be reached is open (OpenIsReachable), and which
\* requests hold an entry shows in their label and kind (Stack in TypeOK).
IInv == TypeOK /\ OwnedOnce /\ OpenIsReachable

\* The sets an invariant speaks about.
USE NoneAssumption DEF Labels, Kinds, Request, TxKinds, Outcomes, Connecting,
    Checking, Dropping

\* No request is being served and no transaction exists at start.
LEMMA Initially == Init => IInv
BY ConfigsAssumption
   DEF Init, IInv, TypeOK, Stack, OwnedOnce, OpenIsReachable

-----------------------------------------------------------------------------
(* Every step preserves TypeOK.  What the other requests have on their     *)
(* stacks is not touched, so the work is the stack of the one that moves.  *)

LEMMA TypeInductive == IInv /\ [Next]_vars => TypeOK'
<1> SUFFICES ASSUME IInv, [Next]_vars PROVE TypeOK'
  OBVIOUS
<1> USE DEF IInv, TypeOK, Stack, CanBeAt, shared, registry, Goto, Return, Leave
<1>1. ASSUME NEW p \in Callers, NEW k \in Kinds, NEW c \in Conns, NEW w \in
             BOOLEAN, Ask(p, k, c, w)
      PROVE  TypeOK'
  BY <1>1
     DEF Ask
<1>2. ASSUME NEW p \in Callers, NEW t \in Txns, NEW w \in BOOLEAN,
             ExecuteInTransaction(p, t, w)
      PROVE  TypeOK'
  <2>0. owner[t] \in Conns
    BY <1>2 DEF ExecuteInTransaction, TakeTx, OpenIsReachable
  <2>1. Stack(p)'
    BY <1>2, <2>0
       DEF ExecuteInTransaction, TakeTx
  <2>2. \A q \in Callers \ {p} : Stack(q)'
    BY <1>2
       DEF ExecuteInTransaction, TakeTx
  <2> HIDE DEF Stack
  <2> QED
    BY <1>2, <2>0, <2>1, <2>2
       DEF ExecuteInTransaction, TakeTx
<1>3. ASSUME NEW p \in Callers, NEW t \in Txns, NEW k \in Kinds,
             FinalizeTransaction(p, t, k)
      PROVE  TypeOK'
  <2>0. owner[t] \in Conns
    BY <1>3 DEF FinalizeTransaction, TakeTx, OpenIsReachable
  <2>1. Stack(p)'
    <3>1. /\ pc'[p] = "finalize"
          /\ op'[p] = [kind |-> k, write |-> FALSE, conn |-> owner[t]]
          /\ held'[p] = t
          /\ todo'[p] = todo[p] /\ owner' = owner
      BY <1>3 DEF FinalizeTransaction, TakeTx
    <3>0. op'[p] \in Request /\ op'[p].kind = k
      BY <2>0, <3>1
    <3>3. todo[p] = {}
      BY <1>3 DEF FinalizeTransaction, TakeTx
    <3>2. k = "commit" \/ k = "rollback"
      BY <1>3 DEF FinalizeTransaction, TakeTx
    <3> QED
      BY <3>1, <3>0, <3>2, <3>3
  <2>2. \A q \in Callers \ {p} : Stack(q)'
    BY <1>3
       DEF FinalizeTransaction, TakeTx
  <2> HIDE DEF Stack
  <2> QED
    BY <1>3, <2>0, <2>1, <2>2
       DEF FinalizeTransaction, TakeTx
<1>4. ASSUME NEW c \in Conns, NEW cfg \in Configs, UpdateConnection(c, cfg)
      PROVE  TypeOK'
  BY <1>4
     DEF UpdateConnection
<1>5. ASSUME NEW p \in Callers, ReadOnlySnapshot(p)
      PROVE  TypeOK'
  <2>1. Stack(p)'
    BY <1>5
       DEF ReadOnlySnapshot, Verdict, Permit, Reject, DropGuard
  <2>2. \A q \in Callers \ {p} : Stack(q)'
    BY <1>5
       DEF ReadOnlySnapshot, Verdict, Permit, Reject, DropGuard
  <2> HIDE DEF Stack
  <2> QED
    BY <1>5, <2>1, <2>2
       DEF ReadOnlySnapshot, Verdict, Permit, Reject, DropGuard
<1>6. ASSUME NEW p \in Callers, ReadOnlyConnected(p)
      PROVE  TypeOK'
  <2>1. Stack(p)'
    BY <1>6
       DEF ReadOnlyConnected, Verdict, Permit, Reject, DropGuard
  <2>2. \A q \in Callers \ {p} : Stack(q)'
    BY <1>6
       DEF ReadOnlyConnected, Verdict, Permit, Reject, DropGuard
  <2> HIDE DEF Stack
  <2> QED
    BY <1>6, <2>1, <2>2
       DEF ReadOnlyConnected, Verdict, Permit, Reject, DropGuard
<1>7. ASSUME NEW p \in Callers, ReadOnlyStorage(p)
      PROVE  TypeOK'
  <2>1. Stack(p)'
    BY <1>7
       DEF ReadOnlyStorage, Verdict, Permit, Reject, DropGuard
  <2>2. \A q \in Callers \ {p} : Stack(q)'
    BY <1>7
       DEF ReadOnlyStorage, Verdict, Permit, Reject, DropGuard
  <2> HIDE DEF Stack
  <2> QED
    BY <1>7, <2>1, <2>2
       DEF ReadOnlyStorage, Verdict, Permit, Reject, DropGuard
<1>8. ASSUME NEW p \in Callers, EnsureConnected(p)
      PROVE  TypeOK'
  BY <1>8
     DEF EnsureConnected
<1>9. ASSUME NEW p \in Callers, LoadRow(p)
      PROVE  TypeOK'
  <2>0. opened' \in [Drivers -> Configs \cup {None}] 
    <3>1. CASE storage[op[p].conn] = None \/ ~\E d \in Drivers : Unused(d)
      BY <1>9, <3>1 DEF LoadRow
    <3>2. CASE storage[op[p].conn] \in Configs
      BY <1>9, <3>2 DEF LoadRow
    <3> QED
      BY <1>9, <3>1, <3>2 DEF LoadRow
  <2>1. Stack(p)'
    BY <1>9, <2>0
       DEF LoadRow
  <2>2. \A q \in Callers \ {p} : Stack(q)'
    BY <1>9
       DEF LoadRow
  <2> HIDE DEF Stack
  <2> QED
    BY <1>9, <2>0, <2>1, <2>2
       DEF LoadRow
<1>10. ASSUME NEW p \in Callers, OpenDriver(p)
      PROVE  TypeOK'
  <2>1. Stack(p)'
    BY <1>10
       DEF OpenDriver
  <2>2. \A q \in Callers \ {p} : Stack(q)'
    BY <1>10
       DEF OpenDriver
  <2> HIDE DEF Stack
  <2> QED
    BY <1>10, <2>1, <2>2
       DEF OpenDriver
<1>11. ASSUME NEW p \in Callers, Publish(p)
      PROVE  TypeOK'
  BY <1>11
     DEF Publish
<1>12. ASSUME NEW p \in Callers, PublishReadOnly(p)
      PROVE  TypeOK'
  <2>1. Stack(p)'
    BY <1>12
       DEF PublishReadOnly, Published
  <2>2. \A q \in Callers \ {p} : Stack(q)'
    BY <1>12
       DEF PublishReadOnly, Published
  <2>3. /\ op' \in [Callers -> Request \cup {None}]
        /\ drv' \in [Callers -> Drivers \cup {None}]
        /\ held' \in [Callers -> Txns \cup {None}]
        /\ pc' \in [Callers -> Labels]
        /\ read_only' \subseteq Conns
    <3>1. op[p] \in Request /\ op[p].conn \in Conns
      BY <1>12 DEF PublishReadOnly
    <3>2. read_only' \subseteq Conns
      BY <1>12, <3>1 DEF PublishReadOnly
    <3>3. pc' \in [Callers -> Labels]
      BY <1>12 DEF PublishReadOnly, Published
    <3>4. op' \in [Callers -> Request \cup {None}]
      BY <1>12 DEF PublishReadOnly, Published
    <3>5. drv' \in [Callers -> Drivers \cup {None}]
      BY <1>12 DEF PublishReadOnly, Published
    <3>6. held' \in [Callers -> Txns \cup {None}]
      BY <1>12 DEF PublishReadOnly, Published
    <3> QED
      BY <3>2, <3>3, <3>4, <3>5, <3>6
  <2> HIDE DEF Stack
  <2> QED
    BY <1>12, <2>1, <2>2, <2>3
       DEF PublishReadOnly, Published
<1>13. ASSUME NEW p \in Callers, PublishTunnel(p)
      PROVE  TypeOK'
  <2>1. Stack(p)'
    BY <1>13
       DEF PublishTunnel, Published
  <2>2. \A q \in Callers \ {p} : Stack(q)'
    BY <1>13
       DEF PublishTunnel, Published
  <2>3. /\ op' \in [Callers -> Request \cup {None}]
        /\ drv' \in [Callers -> Drivers \cup {None}]
        /\ held' \in [Callers -> Txns \cup {None}]
        /\ pc' \in [Callers -> Labels]
    <3>1. pc' \in [Callers -> Labels]
      BY <1>13 DEF PublishTunnel, Published
    <3>2. op' \in [Callers -> Request \cup {None}]
      BY <1>13 DEF PublishTunnel, Published
    <3>3. drv' \in [Callers -> Drivers \cup {None}]
      BY <1>13 DEF PublishTunnel, Published
    <3>4. held' \in [Callers -> Txns \cup {None}]
      BY <1>13 DEF PublishTunnel, Published
    <3> QED
      BY <3>1, <3>2, <3>3, <3>4
  <2>4. tunnels' \in [Conns -> Drivers \cup {None}]
    BY <1>13 DEF PublishTunnel
  <2> HIDE DEF Stack
  <2> QED
    BY <1>13, <2>1, <2>2, <2>3, <2>4
       DEF PublishTunnel
<1>14. ASSUME NEW p \in Callers, GetConn(p)
      PROVE  TypeOK'
  <2>1. Stack(p)'
    BY <1>14
       DEF GetConn
  <2>2. \A q \in Callers \ {p} : Stack(q)'
    BY <1>14
       DEF GetConn
  <2>3. /\ op' \in [Callers -> Request \cup {None}]
        /\ drv' \in [Callers -> Drivers \cup {None}]
        /\ held' \in [Callers -> Txns \cup {None}]
        /\ pc' \in [Callers -> Labels]
    <3>1. CASE connections[op[p].conn] = None
      <4>1. CASE op[p].kind = "ping"
        BY <1>14, <3>1, <4>1 DEF GetConn
      <4>2. CASE op[p].kind # "ping"
        BY <1>14, <3>1, <4>2 DEF GetConn
      <4> QED
        BY <4>1, <4>2
    <3>2. CASE connections[op[p].conn] # None
      <4>1. op[p] \in Request
        BY <1>14 DEF GetConn
      <4>2. connections[op[p].conn] \in Drivers
        BY <4>1, <3>2
      <4>3. /\ drv' = [drv EXCEPT ![p] = connections[op[p].conn]]
            /\ \E l \in Labels : pc' = [pc EXCEPT ![p] = l]
            /\ UNCHANGED <<op, held>>
        BY <1>14, <3>2 DEF GetConn
      <4> QED
        BY <4>2, <4>3
    <3> QED
      BY <3>1, <3>2
  <2>4. UNCHANGED <<shared, registry, opened, todo>>
    BY <1>14 DEF GetConn
  <2> HIDE DEF Stack
  <2> QED
    BY <2>4, <2>1, <2>2, <2>3
<1>15. ASSUME NEW p \in Callers, NEW t \in Txns, BeginTx(p, t)
      PROVE  TypeOK'
  BY <1>15
     DEF BeginTx
<1>16. ASSUME NEW p \in Callers, BeginTxFails(p)
      PROVE  TypeOK'
  BY <1>16
     DEF BeginTxFails
<1>17. ASSUME NEW p \in Callers, Executed(p)
      PROVE  TypeOK'
  <2>1. Stack(p)'
    BY <1>17
       DEF Executed
  <2>2. \A q \in Callers \ {p} : Stack(q)'
    BY <1>17
       DEF Executed
  <2> HIDE DEF Stack
  <2> QED
    BY <1>17, <2>1, <2>2
       DEF Executed
<1>18. ASSUME NEW p \in Callers, ExecutedInTx(p)
      PROVE  TypeOK'
  BY <1>18
     DEF ExecutedInTx, DropGuard
<1>19. ASSUME NEW p \in Callers, Abandon(p)
      PROVE  TypeOK'
  BY <1>19
     DEF Abandon, DropGuard
<1>20. ASSUME NEW p \in Callers, Finalized(p)
      PROVE  TypeOK'
  <2>0. held[p] \in Txns /\ dbtx[held[p]] = "open"
    BY <1>20 DEF Finalized, OpenIsReachable
  <2>1. Stack(p)'
    BY <1>20, <2>0
       DEF Finalized
  <2>2. \A q \in Callers \ {p} : Stack(q)'
    BY <1>20
       DEF Finalized
  <2> HIDE DEF Stack
  <2> QED
    BY <1>20, <2>0, <2>1, <2>2
       DEF Finalized
<1>21. ASSUME NEW p \in Callers, Collect(p)
      PROVE  TypeOK'
  BY <1>21
     DEF Collect
<1>22. ASSUME NEW p \in Callers, NEW t \in Txns, DropTx(p, t)
      PROVE  TypeOK'
  BY <1>22
     DEF DropTx
<1>23. ASSUME NEW p \in Callers, DropConn(p)
      PROVE  TypeOK'
  BY <1>23
     DEF DropConn
<1>24. ASSUME NEW p \in Callers, DropReadOnly(p)
      PROVE  TypeOK'
  BY <1>24
     DEF DropReadOnly
<1>25. ASSUME NEW p \in Callers, DropTunnel(p)
      PROVE  TypeOK'
  <2>1. Stack(p)'
    BY <1>25
       DEF DropTunnel
  <2>2. \A q \in Callers \ {p} : Stack(q)'
    BY <1>25
       DEF DropTunnel
  <2> HIDE DEF Stack
  <2> QED
    BY <1>25, <2>1, <2>2
       DEF DropTunnel
<1>26. ASSUME NEW p \in Callers, DeleteRow(p)
      PROVE  TypeOK'
  BY <1>26
     DEF DeleteRow
<1>27. CASE UNCHANGED vars
  BY <1>27 DEF vars
<1> HIDE DEF TypeOK, IInv
<1>28. QED
  BY <1>1, <1>2, <1>3, <1>4, <1>5, <1>6, <1>7, <1>8, <1>9, <1>10, <1>11,
     <1>12, <1>13, <1>14, <1>15, <1>16, <1>17, <1>18, <1>19, <1>20, <1>21,
     <1>22, <1>23, <1>24, <1>25, <1>26, <1>27
     DEF Next, Arrive, Serve

-----------------------------------------------------------------------------
(* Every step preserves who owns which entry, and which transactions are   *)
(* open.                                                                   *)

LEMMA OwnershipInductive ==
  IInv /\ [Next]_vars => OwnedOnce' /\ OpenIsReachable'
<1> SUFFICES ASSUME IInv, [Next]_vars PROVE OwnedOnce' /\ OpenIsReachable'
  OBVIOUS
<1> USE DEF IInv, TypeOK, Stack, CanBeAt, OwnedOnce, OpenIsReachable, shared,
        registry, Goto, Return, Leave
<1>1. ASSUME NEW p \in Callers, NEW k \in Kinds, NEW c \in Conns, NEW w \in
             BOOLEAN, Ask(p, k, c, w)
      PROVE  OwnedOnce' /\ OpenIsReachable'
  BY <1>1
     DEF Ask
<1>2. ASSUME NEW p \in Callers, NEW t \in Txns, NEW w \in BOOLEAN,
             ExecuteInTransaction(p, t, w)
      PROVE  OwnedOnce' /\ OpenIsReachable'
  BY <1>2
     DEF ExecuteInTransaction, TakeTx
<1>3. ASSUME NEW p \in Callers, NEW t \in Txns, NEW k \in Kinds,
             FinalizeTransaction(p, t, k)
      PROVE  OwnedOnce' /\ OpenIsReachable'
  BY <1>3
     DEF FinalizeTransaction, TakeTx
<1>4. ASSUME NEW c \in Conns, NEW cfg \in Configs, UpdateConnection(c, cfg)
      PROVE  OwnedOnce' /\ OpenIsReachable'
  BY <1>4
     DEF UpdateConnection
<1>5. ASSUME NEW p \in Callers, ReadOnlySnapshot(p)
      PROVE  OwnedOnce' /\ OpenIsReachable'
  <2>1. OwnedOnce'
    BY <1>5 DEF ReadOnlySnapshot, Verdict, Permit, Reject, DropGuard
  <2>2. OpenIsReachable'
    BY <1>5 DEF ReadOnlySnapshot, Verdict, Permit, Reject, DropGuard
  <2> QED
    BY <2>1, <2>2
<1>6. ASSUME NEW p \in Callers, ReadOnlyConnected(p)
      PROVE  OwnedOnce' /\ OpenIsReachable'
  <2>1. OwnedOnce'
    BY <1>6 DEF ReadOnlyConnected, Verdict, Permit, Reject, DropGuard
  <2>2. OpenIsReachable'
    BY <1>6 DEF ReadOnlyConnected, Verdict, Permit, Reject, DropGuard
  <2> QED
    BY <2>1, <2>2
<1>7. ASSUME NEW p \in Callers, ReadOnlyStorage(p)
      PROVE  OwnedOnce' /\ OpenIsReachable'
  <2>1. OwnedOnce'
    BY <1>7 DEF ReadOnlyStorage, Verdict, Permit, Reject, DropGuard
  <2>2. OpenIsReachable'
    BY <1>7 DEF ReadOnlyStorage, Verdict, Permit, Reject, DropGuard
  <2> QED
    BY <2>1, <2>2
<1>8. ASSUME NEW p \in Callers, EnsureConnected(p)
      PROVE  OwnedOnce' /\ OpenIsReachable'
  BY <1>8
     DEF EnsureConnected
<1>9. ASSUME NEW p \in Callers, LoadRow(p)
      PROVE  OwnedOnce' /\ OpenIsReachable'
  BY <1>9
     DEF LoadRow
<1>10. ASSUME NEW p \in Callers, OpenDriver(p)
      PROVE  OwnedOnce' /\ OpenIsReachable'
  BY <1>10
     DEF OpenDriver
<1>11. ASSUME NEW p \in Callers, Publish(p)
      PROVE  OwnedOnce' /\ OpenIsReachable'
  BY <1>11
     DEF Publish
<1>12. ASSUME NEW p \in Callers, PublishReadOnly(p)
      PROVE  OwnedOnce' /\ OpenIsReachable'
  BY <1>12
     DEF PublishReadOnly, Published
<1>13. ASSUME NEW p \in Callers, PublishTunnel(p)
      PROVE  OwnedOnce' /\ OpenIsReachable'
  BY <1>13
     DEF PublishTunnel, Published
<1>14. ASSUME NEW p \in Callers, GetConn(p)
      PROVE  OwnedOnce' /\ OpenIsReachable'
  BY <1>14
     DEF GetConn
<1>15. ASSUME NEW p \in Callers, NEW t \in Txns, BeginTx(p, t)
      PROVE  OwnedOnce' /\ OpenIsReachable'
  BY <1>15
     DEF BeginTx
<1>16. ASSUME NEW p \in Callers, BeginTxFails(p)
      PROVE  OwnedOnce' /\ OpenIsReachable'
  BY <1>16
     DEF BeginTxFails
<1>17. ASSUME NEW p \in Callers, Executed(p)
      PROVE  OwnedOnce' /\ OpenIsReachable'
  BY <1>17
     DEF Executed
<1>18. ASSUME NEW p \in Callers, ExecutedInTx(p)
      PROVE  OwnedOnce' /\ OpenIsReachable'
  BY <1>18
     DEF ExecutedInTx, DropGuard
<1>19. ASSUME NEW p \in Callers, Abandon(p)
      PROVE  OwnedOnce' /\ OpenIsReachable'
  BY <1>19
     DEF Abandon, DropGuard
<1>20. ASSUME NEW p \in Callers, Finalized(p)
      PROVE  OwnedOnce' /\ OpenIsReachable'
  BY <1>20
     DEF Finalized
<1>21. ASSUME NEW p \in Callers, Collect(p)
      PROVE  OwnedOnce' /\ OpenIsReachable'
  BY <1>21
     DEF Collect
<1>22. ASSUME NEW p \in Callers, NEW t \in Txns, DropTx(p, t)
      PROVE  OwnedOnce' /\ OpenIsReachable'
  BY <1>22
     DEF DropTx
<1>23. ASSUME NEW p \in Callers, DropConn(p)
      PROVE  OwnedOnce' /\ OpenIsReachable'
  BY <1>23
     DEF DropConn
<1>24. ASSUME NEW p \in Callers, DropReadOnly(p)
      PROVE  OwnedOnce' /\ OpenIsReachable'
  BY <1>24
     DEF DropReadOnly
<1>25. ASSUME NEW p \in Callers, DropTunnel(p)
      PROVE  OwnedOnce' /\ OpenIsReachable'
  BY <1>25
     DEF DropTunnel
<1>26. ASSUME NEW p \in Callers, DeleteRow(p)
      PROVE  OwnedOnce' /\ OpenIsReachable'
  BY <1>26
     DEF DeleteRow
<1>27. CASE UNCHANGED vars
  BY <1>27 DEF vars
<1> HIDE DEF OwnedOnce, OpenIsReachable, IInv
<1>28. QED
  BY <1>1, <1>2, <1>3, <1>4, <1>5, <1>6, <1>7, <1>8, <1>9, <1>10, <1>11,
     <1>12, <1>13, <1>14, <1>15, <1>16, <1>17, <1>18, <1>19, <1>20, <1>21,
     <1>22, <1>23, <1>24, <1>25, <1>26, <1>27
     DEF Next, Arrive, Serve

LEMMA Inductive == IInv /\ [Next]_vars => IInv'
BY TypeInductive, OwnershipInductive DEF IInv

\* The inductive invariant holds in every reachable state.
THEOREM Invariance == Spec => []IInv
BY Initially, Inductive, PTL DEF Spec

\* Every variable has its type, and every request has on its stack what the
\* await it is suspended at leaves there.
THEOREM TypeCorrect == Spec => []TypeOK
<1>1. IInv => TypeOK
  BY DEF IInv
<1>2. QED
  BY <1>1, Invariance, PTL

\* TxEntryGuard: an entry is in the registry or with one borrower.
THEOREM OwnedOnceAlways == Spec => []OwnedOnce
<1>1. IInv => OwnedOnce
  BY DEF IInv
<1>2. QED
  BY <1>1, Invariance, PTL

\* No path of the registry forgets an open transaction or keeps a finished
\* one.
THEOREM OpenIsReachableAlways == Spec => []OpenIsReachable
<1>1. IInv => OpenIsReachable
  BY DEF IInv
<1>2. QED
  BY <1>1, Invariance, PTL

-----------------------------------------------------------------------------
(* Steps: what may end a transaction, and the refinement of TxSpec.        *)

\* Only BeginTx, Finalized and DropTx write dbtx.  What DropTx drops is in
\* todo, which Stack says is of the connection being disconnected.
LEMMA DiscardStep == IInv /\ [Next]_vars => [EndedProperly]_vars
<1> SUFFICES ASSUME IInv, Next PROVE EndedProperly
  OBVIOUS
<1> USE DEF IInv, TypeOK, EndedProperly, registry
<1>1. ASSUME NEW p \in Callers, NEW t \in Txns, BeginTx(p, t)
      PROVE  EndedProperly
  BY <1>1 DEF BeginTx
<1>2. ASSUME NEW p \in Callers, Finalized(p)
      PROVE  EndedProperly
  BY <1>2 DEF Finalized
<1>3. ASSUME NEW p \in Callers, NEW t \in Txns, DropTx(p, t)
      PROVE  EndedProperly
  BY <1>3 DEF DropTx, Stack, CanBeAt
<1>4. CASE UNCHANGED dbtx
  BY <1>4
<1> HIDE DEF IInv, TypeOK, EndedProperly
<1>5. ASSUME NEW p \in Callers, Arrive(p)
      PROVE  UNCHANGED dbtx
  BY <1>5 DEF Arrive, Ask, ExecuteInTransaction, FinalizeTransaction
<1>6. ASSUME NEW c \in Conns, NEW cfg \in Configs, UpdateConnection(c, cfg)
      PROVE  UNCHANGED dbtx
  BY <1>6 DEF UpdateConnection
<1>7. ASSUME NEW p \in Callers, Serve(p)
      PROVE  \/ UNCHANGED dbtx
             \/ \E t \in Txns : BeginTx(p, t) \/ DropTx(p, t)
             \/ Finalized(p)
  BY <1>7
     DEF Serve, ReadOnlySnapshot, ReadOnlyConnected, ReadOnlyStorage,
         EnsureConnected, LoadRow, OpenDriver, Publish, PublishReadOnly,
         PublishTunnel, GetConn, BeginTxFails, Executed, ExecutedInTx,
         Abandon, Collect, DropConn, DropReadOnly, DropTunnel, DeleteRow
<1>8. QED
  BY <1>1, <1>2, <1>3, <1>4, <1>5, <1>6, <1>7 DEF Next

\* A transaction nobody asked to finalize is discarded by a disconnect of
\* its own connection and by nothing else.
THEOREM DiscardsByDisconnectOnly == Spec => OnlyDisconnectDiscards
<1>1. Spec => [][EndedProperly]_vars
  BY Invariance, DiscardStep, PTL DEF Spec
<1>2. QED
  BY <1>1 DEF OnlyDisconnectDiscards

-----------------------------------------------------------------------------
(* RustAppCore implements TxSpec.  status and running depend on dbtx, held *)
(* and on which requests are at "finalize"; a step that changes none of    *)
(* the three is a stutter, and every other step is one step of TxSpec.     *)

TxVars == <<status, running>>

LEMMA Quiet ==
  ASSUME dbtx' = dbtx, held' = held,
         \A q \in Callers : pc'[q] = "finalize" <=> pc[q] = "finalize"
  PROVE  UNCHANGED TxVars
BY DEF TxVars, status, running, Finalizing

\* A request that borrowed t for a statement puts it back.
LEMMA Release ==
  ASSUME IInv, NEW p \in Callers, held[p] # None, pc[p] # "finalize",
         Return(p), dbtx' = dbtx
  PROVE  Tx!EndExecute(held[p])
<1> USE DEF IInv, TypeOK, Return
<1>1. \A q \in Callers \ {p} : held'[q] = held[q] /\ pc'[q] = pc[q]
  OBVIOUS
<1>2. held'[p] = None /\ pc'[p] = "idle"
  OBVIOUS
<1>3. held[p] \in Txns /\ \A q \in Callers \ {p} : held[q] # held[p]
  BY DEF OwnedOnce
<1> HIDE DEF IInv, TypeOK, Return
<1>4. held[p] \in running
  BY <1>3 DEF running
<1>5. running' = running \ {held[p]}
  BY <1>1, <1>2, <1>3 DEF running
<1>6. \A t \in Txns : Finalizing(t)' <=> Finalizing(t)
  BY <1>1, <1>2 DEF Finalizing
<1>7. status' = status
  BY <1>6 DEF status
<1>8. QED
  BY <1>4, <1>5, <1>7 DEF Tx!EndExecute

\* What every other step of a request does to the three: it moves on, or it
\* returns, and puts back what it borrowed.
Plain(p) ==
  /\ pc[p] # "finalize"
  /\ dbtx' = dbtx
  /\ \/ Return(p)
     \/ held' = held /\ \E l \in Labels \ {"finalize"} : Goto(p, l)

LEMMA PlainStep ==
  ASSUME IInv, NEW p \in Callers, Plain(p)
  PROVE  [Tx!Next]_TxVars
<1>1. CASE Return(p) /\ held[p] # None
  <2>1. Tx!EndExecute(held[p]) /\ held[p] \in Txns
    BY <1>1, Release DEF Plain, IInv, TypeOK
  <2> QED
    BY <2>1 DEF Tx!Next
<1>2. CASE Return(p) /\ held[p] = None
  <2>1. /\ held' = held
        /\ \A q \in Callers : pc'[q] = "finalize" <=> pc[q] = "finalize"
    BY <1>2 DEF Plain, IInv, TypeOK, Return
  <2> QED
    BY <2>1, Quiet DEF Plain
<1>3. CASE held' = held /\ \E l \in Labels \ {"finalize"} : Goto(p, l)
  <2>1. \A q \in Callers : pc'[q] = "finalize" <=> pc[q] = "finalize"
    BY <1>3 DEF Plain, IInv, TypeOK, Goto
  <2> QED
    BY <1>3, <2>1, Quiet DEF Plain
<1>4. QED
  BY <1>1, <1>2, <1>3 DEF Plain

\* The steps that are Plain.
LEMMA PlainSteps ==
  ASSUME IInv, NEW p \in Callers, Serve(p)
  PROVE  \/ Plain(p)
         \/ \E t \in Txns : BeginTx(p, t) \/ DropTx(p, t)
         \/ Finalized(p)
<1> USE DEF Plain, registry, Leave
<1>1. CASE ReadOnlySnapshot(p) \/ ReadOnlyConnected(p) \/ ReadOnlyStorage(p)
  BY <1>1 DEF ReadOnlySnapshot, ReadOnlyConnected, ReadOnlyStorage, Verdict,
              Permit, Reject
<1>2. CASE EnsureConnected(p) \/ LoadRow(p) \/ OpenDriver(p) \/ GetConn(p)
  BY <1>2 DEF EnsureConnected, LoadRow, OpenDriver, GetConn
<1>3. CASE Publish(p) \/ PublishReadOnly(p) \/ PublishTunnel(p)
  BY <1>3 DEF Publish, PublishReadOnly, PublishTunnel, Published
<1>4. CASE BeginTxFails(p) \/ Executed(p) \/ ExecutedInTx(p) \/ Abandon(p)
  BY <1>4 DEF BeginTxFails, Executed, ExecutedInTx, Abandon
<1>5. CASE Collect(p) \/ DropConn(p) \/ DropReadOnly(p) \/ DropTunnel(p)
           \/ DeleteRow(p)
  BY <1>5 DEF Collect, DropConn, DropReadOnly, DropTunnel, DeleteRow
<1>6. QED
  BY <1>1, <1>2, <1>3, <1>4, <1>5 DEF Serve

\* A begun transaction is active: its id was unborn, and nobody holds it.
LEMMA BeginStep ==
  ASSUME IInv, NEW p \in Callers, NEW t \in Txns, BeginTx(p, t)
  PROVE  Tx!Begin(t)
<1>1. /\ \A q \in Callers : held[q] # t
      /\ held' = held
      /\ pc[p] # "finalize" /\ pc'[p] # "finalize"
      /\ \A q \in Callers \ {p} : pc'[q] = pc[q]
      /\ dbtx[t] = "unborn" /\ dbtx' = [dbtx EXCEPT ![t] = "open"]
  BY DEF IInv, TypeOK, OpenIsReachable, BeginTx, Return, Stack, CanBeAt
<1>2. running' = running
  BY <1>1 DEF running
<1>3. \A u \in Txns : Finalizing(u)' <=> Finalizing(u)
  BY <1>1 DEF Finalizing
<1>4. ~Finalizing(t)
  BY <1>1 DEF Finalizing
<1>5. status' = [status EXCEPT ![t] = "active"]
  BY <1>1, <1>3, <1>4 DEF status, IInv, TypeOK
<1>6. status[t] = "unborn"
  BY <1>1 DEF status
<1>7. QED
  BY <1>2, <1>5, <1>6 DEF Tx!Begin

\* Taking an entry out for a statement starts the statement.
LEMMA ExecuteStep ==
  ASSUME IInv, NEW p \in Callers, NEW t \in Txns, NEW w \in BOOLEAN,
         ExecuteInTransaction(p, t, w)
  PROVE  Tx!StartExecute(t)
<1>1. /\ \A q \in Callers : held[q] # t
      /\ held[p] = None
      /\ held' = [held EXCEPT ![p] = t]
      /\ pc[p] # "finalize" /\ pc'[p] # "finalize"
      /\ \A q \in Callers \ {p} : pc'[q] = pc[q]
      /\ dbtx[t] = "open" /\ dbtx' = dbtx
  BY DEF IInv, TypeOK, OwnedOnce, OpenIsReachable, ExecuteInTransaction,
         TakeTx, Goto, Stack
<1>2. running' = running \cup {t}
  BY <1>1 DEF running, IInv, TypeOK
<1>3. t \notin running /\ ~Finalizing(t)
  BY <1>1 DEF running, Finalizing
<1>4. \A u \in Txns : Finalizing(u)' <=> Finalizing(u)
  BY <1>1 DEF Finalizing, IInv, TypeOK
<1>5. status' = status /\ status[t] = "active"
  BY <1>1, <1>3, <1>4 DEF status
<1>6. QED
  BY <1>2, <1>3, <1>5 DEF Tx!StartExecute

\* Taking it out to finalize it starts its end.
LEMMA FinalizeStep ==
  ASSUME IInv, NEW p \in Callers, NEW t \in Txns, NEW k \in Kinds,
         FinalizeTransaction(p, t, k)
  PROVE  Tx!StartFinalize(t)
<1>1. /\ \A q \in Callers : held[q] # t
      /\ held[p] = None
      /\ held' = [held EXCEPT ![p] = t]
      /\ pc[p] # "finalize" /\ pc'[p] = "finalize"
      /\ \A q \in Callers \ {p} : pc'[q] = pc[q]
      /\ dbtx[t] = "open" /\ dbtx' = dbtx
  BY DEF IInv, TypeOK, OwnedOnce, OpenIsReachable, FinalizeTransaction,
         TakeTx, Goto, Stack
<1>2. running' = running
  BY <1>1 DEF running, IInv, TypeOK
<1>3. t \notin running /\ ~Finalizing(t)
  BY <1>1 DEF running, Finalizing
<1>4. \A u \in Txns : Finalizing(u)' <=> Finalizing(u) \/ u = t
  BY <1>1 DEF Finalizing, IInv, TypeOK
<1>5. status' = [status EXCEPT ![t] = "finalizing"] /\ status[t] = "active"
  BY <1>1, <1>3, <1>4 DEF status
<1>6. QED
  BY <1>2, <1>3, <1>5 DEF Tx!StartFinalize

\* The driver's answer ends it; nobody else was finalizing the same one.
LEMMA FinalizedStep ==
  ASSUME IInv, NEW p \in Callers, Finalized(p)
  PROVE  held[p] \in Txns /\ Tx!EndFinalize(held[p])
<1> DEFINE t == held[p]
<1>1. /\ t \in Txns
      /\ pc[p] = "finalize" /\ pc'[p] # "finalize" /\ held'[p] = None
      /\ \A q \in Callers \ {p} : pc'[q] = pc[q] /\ held'[q] = held[q]
      /\ \A q \in Callers \ {p} : held[q] # t
      /\ dbtx[t] = "open"
  BY DEF IInv, TypeOK, OwnedOnce, OpenIsReachable, Finalized, Return, Stack,
         CanBeAt
<1>2. PICK o \in Tx!Final : dbtx' = [dbtx EXCEPT ![t] = o]
  BY DEF Finalized, Tx!Final
<1> HIDE DEF t
<1>3. running' = running
  BY <1>1 DEF running
<1>4. Finalizing(t)
  BY <1>1 DEF Finalizing, t
<1>5. \A u \in Txns \ {t} : Finalizing(u)' <=> Finalizing(u)
  BY <1>1 DEF Finalizing, t
<1>6. status[t] = "finalizing" /\ status' = [status EXCEPT ![t] = o]
  BY <1>1, <1>2, <1>4, <1>5 DEF status, IInv, TypeOK, Tx!Final
<1>7. QED
  BY <1>1, <1>2, <1>3, <1>6 DEF Tx!EndFinalize, t

\* A disconnect drops what is still in the registry, which nobody borrowed.
LEMMA DropStep ==
  ASSUME IInv, NEW p \in Callers, NEW t \in Txns, DropTx(p, t)
  PROVE  Tx!Discard(t) \/ UNCHANGED TxVars
<1>1. held' = held /\ pc' = pc
  BY DEF DropTx
<1>2. CASE t \notin txs
  BY <1>1, <1>2, Quiet DEF DropTx
<1>3. CASE t \in txs
  <2>1. /\ dbtx[t] = "open" /\ dbtx' = [dbtx EXCEPT ![t] = "rolled_back"]
        /\ \A q \in Callers : held[q] # t
    BY <1>3 DEF IInv, TypeOK, OwnedOnce, OpenIsReachable, DropTx
  <2>2. running' = running /\ \A u \in Txns : Finalizing(u)' <=> Finalizing(u)
    BY <1>1 DEF running, Finalizing
  <2>3. t \notin running /\ ~Finalizing(t)
    BY <2>1 DEF running, Finalizing
  <2>4. status[t] = "active" /\ status' = [status EXCEPT ![t] = "rolled_back"]
    BY <2>1, <2>2, <2>3 DEF status, IInv, TypeOK
  <2> QED
    BY <2>2, <2>3, <2>4 DEF Tx!Discard
<1>4. QED
  BY <1>2, <1>3

\* Every step of the core is a step of TxSpec or a stutter.
LEMMA RefinementStep == IInv /\ [Next]_vars => [Tx!Next]_TxVars
<1> SUFFICES ASSUME IInv, [Next]_vars PROVE [Tx!Next]_TxVars
  OBVIOUS
<1>1. CASE UNCHANGED vars
  BY <1>1, Quiet DEF vars, registry
<1>2. ASSUME NEW c \in Conns, NEW cfg \in Configs, UpdateConnection(c, cfg)
      PROVE  UNCHANGED TxVars
  BY <1>2, Quiet DEF UpdateConnection, registry
<1>3. ASSUME NEW p \in Callers, Arrive(p)
      PROVE  [Tx!Next]_TxVars
  <2>1. ASSUME NEW k \in Kinds, NEW c \in Conns, NEW w \in BOOLEAN,
               Ask(p, k, c, w)
        PROVE  Plain(p)
    BY <2>1 DEF Ask, Plain, registry
  <2>2. QED
    BY <1>3, <2>1, PlainStep, ExecuteStep, FinalizeStep DEF Arrive, Tx!Next
<1>4. ASSUME NEW p \in Callers, Serve(p)
      PROVE  [Tx!Next]_TxVars
  BY <1>4, PlainSteps, PlainStep, BeginStep, DropStep, FinalizedStep
     DEF Tx!Next
<1>5. QED
  BY <1>1, <1>2, <1>3, <1>4 DEF Next

LEMMA RefinementInit == Init => Tx!Init
BY DEF Init, Tx!Init, status, running, Finalizing

\* What the registry shows a client is a behaviour of TxSpec.
THEOREM Refinement == Spec => TxRefinement
<1>1. Spec => Tx!Init /\ [][Tx!Next]_TxVars
  BY Invariance, RefinementInit, RefinementStep, PTL DEF Spec
<1>2. QED
  BY <1>1 DEF TxRefinement, Tx!Spec, Tx!vars, TxVars

=============================================================================
