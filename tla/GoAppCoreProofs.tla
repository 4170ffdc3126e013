--------------------------- MODULE GoAppCoreProofs ---------------------------
(***************************************************************************)
(* What TLAPS proves about GoAppCore, for every set of requests,           *)
(* connections, drivers, managers, transaction ids and configurations.     *)
(***************************************************************************)
EXTENDS GoAppCore, TLAPS

\* The variables have their types.
Typed ==
  /\ repo \in [Conns -> Configs \cup {None}]
  /\ connections \in [Conns -> Drivers \cup {None}]
  /\ readOnly \in [Conns -> BOOLEAN \cup {None}]
  /\ tunnels \in [Conns -> Drivers \cup {None}]
  /\ txManagers \in [Conns -> Managers \cup {None}]
  /\ txMeta \in [Txns -> Conns \cup {None}]
  /\ flight \in [Conns -> Callers \cup {None}]
  /\ live \subseteq Drivers
  /\ opened \in [Drivers -> Configs \cup {None}]
  /\ bound \in [Managers -> Drivers \cup {None}]
  /\ entries \in [Txns -> Managers \cup {None}]
  /\ dbtx \in [Txns -> Outcomes]
  /\ pc \in [Callers -> Labels]
  /\ op \in [Callers -> Request \cup {None}]
  /\ drv \in [Callers -> Drivers \cup {None}]
  /\ mgr \in [Callers -> Managers \cup {None}]
  /\ tx \in [Callers -> Txns \cup {None}]

\* What request p has in hand.  TypeOK says all but the last three: a driver
\* being opened has its configuration, a write in a transaction that is still
\* being checked has its manager and its transaction already, and only lazy
\* connects join a flight.
Carries(p) ==
  /\ pc[p] = "idle" <=> op[p] = None
  /\ pc[p] \in HasDriver => drv[p] # None
  /\ pc[p] \in HasManager => mgr[p] # None
  /\ pc[p] \in HasTx => tx[p] # None
  /\ pc[p] = "wait" => flight[op[p].conn] # None
  /\ pc[p] \in {"open", "publish"} => drv[p] # None /\ opened[drv[p]] # None
  /\ pc[p] = "check" /\ op[p].kind # "execute" => mgr[p] # None /\ tx[p] # None
  /\ pc[p] \in {"ensure", "flight"} => op[p].kind \in {"execute", "begin"}

\* Who connects connection c for others is on the way, and is a lazy connect
\* (TypeOK does not say so); an open driver has its configuration.
Served(c) ==
  /\ flight[c] # None =>
       /\ pc[flight[c]] \in {"recheck", "load", "open", "publish"}
       /\ op[flight[c]].conn = c
       /\ op[flight[c]].kind \in {"execute", "begin"}
  /\ connections[c] # None => opened[connections[c]] # None

TypeInv ==
  /\ Typed
  /\ \A p \in Callers : Carries(p)
  /\ \A c \in Conns : Served(c)

LEMMA TypeInvIsType == TypeInv => TypeOK
BY DEF TypeInv, Typed, Carries, Served, TypeOK

\* The types of what the requests have in hand, and of the rest.
StackTyped ==
  /\ pc \in [Callers -> Labels]
  /\ op \in [Callers -> Request \cup {None}]
  /\ drv \in [Callers -> Drivers \cup {None}]
  /\ mgr \in [Callers -> Managers \cup {None}]
  /\ tx \in [Callers -> Txns \cup {None}]

RestTyped ==
  /\ repo \in [Conns -> Configs \cup {None}]
  /\ connections \in [Conns -> Drivers \cup {None}]
  /\ readOnly \in [Conns -> BOOLEAN \cup {None}]
  /\ tunnels \in [Conns -> Drivers \cup {None}]
  /\ txManagers \in [Conns -> Managers \cup {None}]
  /\ txMeta \in [Txns -> Conns \cup {None}]
  /\ flight \in [Conns -> Callers \cup {None}]
  /\ live \subseteq Drivers
  /\ opened \in [Drivers -> Configs \cup {None}]
  /\ bound \in [Managers -> Drivers \cup {None}]
  /\ entries \in [Txns -> Managers \cup {None}]
  /\ dbtx \in [Txns -> Outcomes]

LEMMA MoveTyped ==
  ASSUME Typed, NEW p \in Callers, NEW l \in Labels, Move(p, l)
  PROVE  StackTyped'
<1>1. pc \in [Callers -> Labels] /\ pc' = [pc EXCEPT ![p] = l]
  BY DEF Typed, Move, Goto
<1>2. pc' \in [Callers -> Labels]
  BY Zenon, <1>1
<1>3. UNCHANGED <<op, drv, mgr, tx>>
  BY DEF Move
<1> QED
  BY <1>2, <1>3 DEF Typed, StackTyped

LEMMA ReturnTyped ==
  ASSUME Typed, NEW S, ReturnAll(S)
  PROVE  StackTyped'
<1>1. pc' \in [Callers -> Labels]
  BY DEF Typed, ReturnAll, Labels
<1>2. op' \in [Callers -> Request \cup {None}]
  BY DEF Typed, ReturnAll
<1>3. drv' \in [Callers -> Drivers \cup {None}]
  BY DEF Typed, ReturnAll
<1>4. mgr' \in [Callers -> Managers \cup {None}] /\ tx' \in [Callers -> Txns \cup {None}]
  BY DEF Typed, ReturnAll
<1> QED
  BY <1>1, <1>2, <1>3, <1>4 DEF StackTyped

LEMMA UseTyped ==
  ASSUME Typed, NEW p \in Callers, NEW d \in Drivers, UseDriver(p, d)
  PROVE  StackTyped'
<1>1. pc' \in [Callers -> Labels]
  BY DEF Typed, UseDriver, Goto, Labels
<1>2. drv' \in [Callers -> Drivers \cup {None}]
  BY DEF Typed, UseDriver
<1>3. UNCHANGED <<op, mgr, tx>>
  BY DEF UseDriver
<1> QED
  BY <1>1, <1>2, <1>3 DEF Typed, StackTyped

LEMMA CheckTyped ==
  ASSUME Typed, NEW p \in Callers, Check(p)
  PROVE  StackTyped'
<1>1. ReturnAll({p}) \/ Move(p, "ensure") \/ Move(p, "take")
  BY DEF Check, Return
<1>2. {"ensure", "take"} \subseteq Labels
  BY DEF Labels
<1> QED
  BY <1>1, <1>2, MoveTyped, ReturnTyped

LEMMA EnsureTyped ==
  ASSUME Typed, NEW p \in Callers, op[p].conn \in Conns, Ensure(p)
  PROVE  StackTyped'
<1>1. connections[op[p].conn] \in Drivers \cup {None}
  BY DEF Typed
<1>2. (\E d \in Drivers : UseDriver(p, d)) \/ Move(p, "flight")
  BY <1>1 DEF Ensure
<1>3. "flight" \in Labels
  BY DEF Labels
<1> QED
  BY <1>2, <1>3, MoveTyped, UseTyped

LEMMA FlyTyped ==
  ASSUME Typed, NEW p \in Callers, Fly(p)
  PROVE  StackTyped'
<1>1. Move(p, "wait") \/ Move(p, "recheck")
  BY DEF Fly
<1>2. {"wait", "recheck"} \subseteq Labels
  BY DEF Labels
<1> QED
  BY <1>1, <1>2, MoveTyped

LEMMA DisconnectTyped ==
  ASSUME Typed, NEW p \in Callers, op[p].conn \in Conns, Disconnect(p)
  PROVE  StackTyped'
<1>1. {"delete_row", "rollback_all"} \subseteq Labels
  BY DEF Labels
<1>2. CASE txManagers[op[p].conn] = None
  <2>1. ReturnAll({p}) \/ Move(p, "delete_row")
    BY <1>2 DEF Disconnect, Disconnected, Return
  <2> QED
    BY <1>1, <2>1, MoveTyped, ReturnTyped
<1>3. CASE txManagers[op[p].conn] # None
  <2>1. txManagers[op[p].conn] \in Managers
    BY <1>3 DEF Typed
  <2>2. mgr' \in [Callers -> Managers \cup {None}]
    BY <1>3, <2>1 DEF Disconnect, Typed
  <2>3. pc' \in [Callers -> Labels]
    BY <1>1, <1>3 DEF Disconnect, Typed, Goto
  <2>4. UNCHANGED <<op, drv, tx>>
    BY <1>3 DEF Disconnect
  <2> QED
    BY <2>2, <2>3, <2>4 DEF StackTyped, Typed
<1> QED
  BY <1>2, <1>3

USE NoneAssumption DEF Labels, Kinds, Request, Outcomes

LEMMA TypeInit == Init => TypeInv
BY ConfigsAssumption
   DEF Init, TypeInv, Typed, Carries, Served, HasDriver, HasManager, HasTx

LEMMA TypeInductive == TypeInv /\ [Next]_vars => TypeInv'
<1> SUFFICES ASSUME TypeInv, [Next]_vars PROVE TypeInv'
  OBVIOUS
<1> USE DEF TypeInv, Typed, Carries, Served, HasDriver, HasManager, HasTx,
    core, drivers, kernel, stack, Goto, Move, Return, ReturnAll
<1>1. ASSUME NEW p \in Callers, NEW k \in Kinds, NEW c \in Conns, NEW w \in BOOLEAN,
             Ask(p, k, c, w)
      PROVE  TypeInv'
  BY <1>1 DEF Ask
<1>2. ASSUME NEW p \in Callers, NEW t \in Txns, NEW k \in Kinds, NEW w \in BOOLEAN,
             TxContext(p, t, k, w)
      PROVE  TypeInv'
  BY <1>2 DEF TxContext
<1>3. ASSUME NEW c \in Conns, NEW cfg \in Configs, UpdateConnection(c, cfg)
      PROVE  TypeInv'
  BY <1>3 DEF UpdateConnection
<1>4. ASSUME NEW p \in Callers, Check(p)
      PROVE  TypeInv'
  <2>2. StackTyped'
    BY <1>4, CheckTyped
  <2>3. RestTyped'
    BY <1>4 DEF Check, RestTyped
  <2>4. Typed'
    BY <2>2, <2>3 DEF StackTyped, RestTyped
  <2>5. ASSUME NEW q \in Callers PROVE Carries(q)'
    <3>1. CASE q = p
      BY <1>4, <3>1 DEF Check
    <3>2. CASE q # p
      BY <1>4, <3>2 DEF Check
    <3> QED
      BY <3>1, <3>2
  <2>6. ASSUME NEW c \in Conns PROVE Served(c)'
    BY <1>4 DEF Check
  <2> QED
    BY <2>4, <2>5, <2>6
<1>5. ASSUME NEW p \in Callers, Ensure(p)
      PROVE  TypeInv'
  <2>0. op[p].conn \in Conns
    BY <1>5 DEF Ensure
  <2>1. Typed'
    <3>2. StackTyped'
      BY <1>5, <2>0, EnsureTyped
    <3>3. RestTyped'
      BY <1>5 DEF Ensure, RestTyped, UseDriver
    <3> QED
      BY <3>2, <3>3 DEF StackTyped, RestTyped
  <2>2. \A q \in Callers : Carries(q)'
    BY <1>5 DEF Ensure, UseDriver
  <2>3. \A c \in Conns : Served(c)'
    BY <1>5 DEF Ensure, UseDriver
  <2> QED
    BY <2>1, <2>2, <2>3
<1>6. ASSUME NEW p \in Callers, Fly(p)
      PROVE  TypeInv'
  <2>1. Typed'
    <3>2. StackTyped'
      BY <1>6, FlyTyped
    <3>3. flight' \in [Conns -> Callers \cup {None}]
      BY <1>6 DEF Fly
    <3>4. UNCHANGED <<repo, core, drivers, kernel>>
      BY <1>6 DEF Fly
    <3>5. RestTyped'
      BY <3>3, <3>4 DEF RestTyped
    <3> QED
      BY <3>2, <3>5 DEF StackTyped, RestTyped
  <2>2. \A q \in Callers : Carries(q)'
    BY <1>6 DEF Fly
  <2>0. op[p] \in Request /\ op[p].kind \in {"execute", "begin"}
    BY <1>6 DEF Fly
  <2>3. ASSUME NEW c \in Conns PROVE Served(c)'
    <3>1. CASE flight[c] = None /\ op[p].conn = c
      BY <1>6, <2>0, <3>1 DEF Fly
    <3>2. CASE flight[c] # None \/ op[p].conn # c
      BY <1>6, <3>2 DEF Fly
    <3> QED
      BY <3>1, <3>2
  <2> QED
    BY <2>1, <2>2, <2>3
<1>7. ASSUME NEW p \in Callers, Recheck(p)
      PROVE  TypeInv'
  <2>1. Typed'
    BY <1>7 DEF Recheck, Land, Aboard
  <2>2. \A q \in Callers : Carries(q)'
    BY <1>7 DEF Recheck, Land, Aboard
  <2>3. \A c \in Conns : Served(c)'
    BY <1>7 DEF Recheck, Land, Aboard
  <2> QED
    BY <2>1, <2>2, <2>3
<1>8. ASSUME NEW p \in Callers, LoadRow(p)
      PROVE  TypeInv'
  <2>1. Typed'
    <3>1. UNCHANGED <<repo, core, live, kernel>>
      BY <1>8 DEF LoadRow
    <3>2. flight' \in [Conns -> Callers \cup {None}]
      BY <1>8 DEF LoadRow, Connected, Land
    <3>3. opened' \in [Drivers -> Configs \cup {None}]
      <4>1. repo[op[p].conn] \in Configs \cup {None}
        BY <1>8 DEF LoadRow
      <4>2. opened' = opened \/ \E d \in Drivers :
              repo[op[p].conn] # None /\ opened' = [opened EXCEPT ![d] = repo[op[p].conn]]
        BY <1>8 DEF LoadRow
      <4> QED
        BY <4>1, <4>2
    <3>4. /\ pc' \in [Callers -> Labels]
          /\ op' \in [Callers -> Request \cup {None}]
          /\ drv' \in [Callers -> Drivers \cup {None}]
          /\ mgr' \in [Callers -> Managers \cup {None}]
          /\ tx' \in [Callers -> Txns \cup {None}]
      BY <1>8 DEF LoadRow, Connected, Land
    <3> QED
      BY <3>1, <3>2, <3>3, <3>4
  <2>2. \A q \in Callers : Carries(q)'
    BY <1>8 DEF LoadRow, Connected, Land, Aboard, Unused
  <2>3. \A c \in Conns : Served(c)'
    BY <1>8 DEF LoadRow, Connected, Land, Aboard, Unused
  <2> QED
    BY <2>1, <2>2, <2>3
<1>9. ASSUME NEW p \in Callers, Open(p)
      PROVE  TypeInv'
  <2>1. Typed'
    BY <1>9 DEF Open, Connected, Land, Aboard
  <2>2. \A q \in Callers : Carries(q)'
    BY <1>9 DEF Open, Connected, Land, Aboard
  <2>3. ASSUME NEW c \in Conns PROVE Served(c)'
    <3>1. CASE Move(p, "publish") /\ UNCHANGED flight
      BY <1>9, <3>1 DEF Open
    <3>2. CASE Connected(p, FALSE)
      BY <1>9, <3>2 DEF Open, Connected, Land, Aboard
    <3> QED
      BY <1>9, <3>1, <3>2 DEF Open
  <2> QED
    BY <2>1, <2>2, <2>3
<1>10. ASSUME NEW p \in Callers, Publish(p)
      PROVE  TypeInv'
  <2>1. Typed'
    <3>1. UNCHANGED <<repo, txManagers, txMeta, opened, kernel>>
      BY <1>10 DEF Publish
    <3>2. flight' \in [Conns -> Callers \cup {None}]
      BY <1>10 DEF Publish, Connected, Land
    <3>3. /\ pc' \in [Callers -> Labels]
          /\ op' \in [Callers -> Request \cup {None}]
          /\ drv' \in [Callers -> Drivers \cup {None}]
          /\ mgr' \in [Callers -> Managers \cup {None}]
          /\ tx' \in [Callers -> Txns \cup {None}]
      BY <1>10 DEF Publish, Connected, Land
    <3>4. drv[p] \in Drivers /\ opened[drv[p]] \in Configs
      BY <1>10 DEF Publish
    <3>5. opened[drv[p]].read_only \in BOOLEAN
      BY <3>4, ConfigsAssumption
    <3>6. /\ live' \subseteq Drivers
          /\ connections' \in [Conns -> Drivers \cup {None}]
          /\ readOnly' \in [Conns -> BOOLEAN \cup {None}]
          /\ tunnels' \in [Conns -> Drivers \cup {None}]
      BY <1>10, <3>4, <3>5 DEF Publish
    <3> QED
      BY <3>1, <3>2, <3>3, <3>6
  <2>2. \A q \in Callers : Carries(q)'
    BY <1>10 DEF Publish, Connected, Land, Aboard
  <2>3. \A c \in Conns : Served(c)'
    BY <1>10 DEF Publish, Connected, Land, Aboard
  <2> QED
    BY <2>1, <2>2, <2>3
<1>11. ASSUME NEW p \in Callers, Get(p)
      PROVE  TypeInv'
  <2>1. Typed'
    BY <1>11 DEF Get, UseDriver
  <2>2. \A q \in Callers : Carries(q)'
    BY <1>11 DEF Get, UseDriver
  <2>3. \A c \in Conns : Served(c)'
    BY <1>11 DEF Get, UseDriver
  <2> QED
    BY <2>1, <2>2, <2>3
<1>12. ASSUME NEW p \in Callers, Executed(p)
      PROVE  TypeInv'
  BY <1>12 DEF Executed
<1>13. ASSUME NEW p \in Callers, ManagerFor(p)
      PROVE  TypeInv'
  <2>1. Typed'
    <3>1. op[p].conn \in Conns /\ drv[p] \in Drivers
      BY <1>13 DEF ManagerFor
    <3>2. txManagers' \in [Conns -> Managers \cup {None}]
      BY <1>13, <3>1 DEF ManagerFor
    <3>3. bound' \in [Managers -> Drivers \cup {None}]
      BY <1>13, <3>1 DEF ManagerFor
    <3>4. mgr' \in [Callers -> Managers \cup {None}]
      <4>0. txManagers[op[p].conn] # None => txManagers[op[p].conn] \in Managers
        BY <3>1
      <4>1. CASE txManagers[op[p].conn] # None
        BY <1>13, <4>0, <4>1 DEF ManagerFor
      <4>2. CASE txManagers[op[p].conn] = None
        BY <1>13, <4>2 DEF ManagerFor
      <4> QED
        BY <4>1, <4>2
    <3>5. /\ pc' \in [Callers -> Labels]
          /\ op' \in [Callers -> Request \cup {None}]
          /\ drv' \in [Callers -> Drivers \cup {None}]
          /\ tx' \in [Callers -> Txns \cup {None}]
      BY <1>13 DEF ManagerFor
    <3>6. UNCHANGED <<repo, connections, readOnly, tunnels, txMeta, flight, drivers,
                      entries, dbtx>>
      BY <1>13 DEF ManagerFor
    <3> QED
      BY <3>2, <3>3, <3>4, <3>5, <3>6
  <2>2. \A q \in Callers : Carries(q)'
    BY <1>13 DEF ManagerFor
  <2>3. \A c \in Conns : Served(c)'
    BY <1>13 DEF ManagerFor
  <2> QED
    BY <2>1, <2>2, <2>3
<1>14. ASSUME NEW p \in Callers, BeginDb(p)
      PROVE  TypeInv'
  <2>1. Typed'
    BY <1>14 DEF BeginDb
  <2>2. \A q \in Callers : Carries(q)'
    BY <1>14 DEF BeginDb
  <2>3. \A c \in Conns : Served(c)'
    BY <1>14 DEF BeginDb
  <2> QED
    BY <2>1, <2>2, <2>3
<1>15. ASSUME NEW p \in Callers, Insert(p)
      PROVE  TypeInv'
  BY <1>15 DEF Insert
<1>16. ASSUME NEW p \in Callers, Meta(p)
      PROVE  TypeInv'
  BY <1>16 DEF Meta
<1>17. ASSUME NEW p \in Callers, Take(p)
      PROVE  TypeInv'
  <2>1. Typed'
    BY <1>17 DEF Take
  <2>2. \A q \in Callers : Carries(q)'
    BY <1>17 DEF Take
  <2>3. \A c \in Conns : Served(c)'
    BY <1>17 DEF Take
  <2> QED
    BY <2>1, <2>2, <2>3
<1>18. ASSUME NEW p \in Callers, ExecutedInTx(p)
      PROVE  TypeInv'
  BY <1>18 DEF ExecutedInTx
<1>19. ASSUME NEW p \in Callers, Finalize(p)
      PROVE  TypeInv'
  BY <1>19 DEF Finalize
<1>20. ASSUME NEW p \in Callers, Forget(p)
      PROVE  TypeInv'
  BY <1>20 DEF Forget
<1>21. ASSUME NEW p \in Callers, Disconnect(p)
      PROVE  TypeInv'
  <2>0. op[p].conn \in Conns
    BY <1>21 DEF Disconnect
  <2>4. RestTyped'
    <3>1. live' \subseteq Drivers
      BY <1>21 DEF Disconnect
    <3>2. /\ connections' \in [Conns -> Drivers \cup {None}]
          /\ readOnly' \in [Conns -> BOOLEAN \cup {None}]
          /\ tunnels' \in [Conns -> Drivers \cup {None}]
          /\ txManagers' \in [Conns -> Managers \cup {None}]
      BY <1>21, <2>0 DEF Disconnect
    <3>3. txMeta' \in [Txns -> Conns \cup {None}]
      BY <1>21 DEF Disconnect
    <3>4. UNCHANGED <<repo, flight, opened, kernel>>
      BY <1>21 DEF Disconnect
    <3> QED
      BY <3>1, <3>2, <3>3, <3>4 DEF RestTyped
  <2>1. Typed'
    <3>1. StackTyped'
      BY <1>21, <2>0, DisconnectTyped
    <3> QED
      BY <2>4, <3>1 DEF StackTyped, RestTyped
  <2>2. \A q \in Callers : Carries(q)'
    BY <1>21 DEF Disconnect, Disconnected
  <2>3. \A c \in Conns : Served(c)'
    BY <1>21 DEF Disconnect, Disconnected
  <2> QED
    BY <2>1, <2>2, <2>3
<1>22. ASSUME NEW p \in Callers, RolledBack(p)
      PROVE  TypeInv'
  BY <1>22 DEF RolledBack, Disconnected
<1>23. ASSUME NEW p \in Callers, DeleteRow(p)
      PROVE  TypeInv'
  BY <1>23 DEF DeleteRow
<1>24. ASSUME NEW p \in Callers, NEW t \in Txns, RollbackOne(p, t)
      PROVE  TypeInv'
  BY <1>24 DEF RollbackOne, Reclaim
<1>25. ASSUME NEW t \in Txns, Sweep(t)
      PROVE  TypeInv'
  BY <1>25 DEF Sweep, Reclaim
<1>26. CASE UNCHANGED vars
  BY <1>26 DEF vars
<1> HIDE DEF TypeInv
<1>27. QED
  BY <1>1, <1>2, <1>3, <1>4, <1>5, <1>6, <1>7, <1>8, <1>9, <1>10, <1>11, <1>12, <1>13, <1>14, <1>15,
     <1>16, <1>17, <1>18, <1>19, <1>20, <1>21, <1>22, <1>23, <1>24, <1>25, <1>26
     DEF Next, Arrive, Serve

\* The invariant the theorems follow from.
IInv == TypeInv /\ DriverNotLeaked /\ TunnelPaired /\ HandleNotLost

LEMMA Initially == Init => IInv
<1>1. Init => DriverNotLeaked /\ TunnelPaired /\ HandleNotLost
  BY DEF Init, DriverNotLeaked, TunnelPaired, HandleNotLost
<1>2. QED
  BY <1>1, TypeInit DEF IInv

-----------------------------------------------------------------------------
(* Drivers and tunnels.  A step that opens, closes and replaces none, and  *)
(* leaves who is about to publish one where they are, keeps both           *)
(* invariants.                                                             *)

DriversStay ==
  /\ UNCHANGED <<live, connections, tunnels, opened>>
  /\ \A q \in Callers : pc[q] = "publish" => pc'[q] = "publish" /\ drv'[q] = drv[q]

LEMMA DriversStayKeeps ==
  ASSUME DriverNotLeaked, TunnelPaired, DriversStay
  PROVE  DriverNotLeaked' /\ TunnelPaired'
BY DEF DriverNotLeaked, TunnelPaired, DriversStay

\* Where a request that connects ends up, with those who wait for it.
LEMMA ConnectedMoves ==
  ASSUME TypeInv, NEW p \in Callers, NEW ok \in BOOLEAN, Connected(p, ok),
         pc[p] \in {"load", "open", "publish"}
  PROVE  /\ \A q \in Callers \ {p} :
              \/ pc'[q] = pc[q] /\ drv'[q] = drv[q] /\ tx'[q] = tx[q]
              \/ pc[q] = "wait" /\ pc'[q] \in {"idle", "get"}
         /\ pc'[p] \in {"idle", "get", "disconnect"}
BY DEF TypeInv, Typed, Connected, Land, Aboard, Return, ReturnAll, Move, Goto

\* A driver that is being opened gets its configuration; it is nobody's yet.
LEMMA LoadRowDrivers ==
  ASSUME TypeInv, DriverNotLeaked, TunnelPaired, NEW p \in Callers, LoadRow(p)
  PROVE  DriverNotLeaked' /\ TunnelPaired'
<1>1. CASE Connected(p, FALSE) /\ UNCHANGED opened
  BY <1>1, ConnectedMoves, DriversStayKeeps DEF DriversStay, LoadRow, core
<1>2. ASSUME NEW d \in Drivers, Unused(d), drv' = [drv EXCEPT ![p] = d],
             opened' = [opened EXCEPT ![d] = repo[op[p].conn]], Goto(p, "open")
      PROVE  DriverNotLeaked' /\ TunnelPaired'
  <2>1. UNCHANGED <<live, connections, tunnels>> /\ pc[p] = "load"
    BY DEF LoadRow, core
  <2>2. \A c \in Conns : connections[c] # d
    BY <1>2 DEF Unused
  <2>3. TunnelPaired'
    BY <1>2, <2>1, <2>2 DEF TunnelPaired, TypeInv, Typed
  <2>4. DriverNotLeaked'
    BY <1>2, <2>1 DEF DriverNotLeaked, TypeInv, Typed, Goto
  <2> QED
    BY <2>3, <2>4
<1>3. QED
  BY <1>1, <1>2 DEF LoadRow

LEMMA OpenDrivers ==
  ASSUME TypeInv, DriverNotLeaked, TunnelPaired, NEW p \in Callers, Open(p)
  PROVE  DriverNotLeaked' /\ TunnelPaired'
<1>1. CASE Connected(p, FALSE) /\ UNCHANGED live
  BY <1>1, ConnectedMoves, DriversStayKeeps DEF DriversStay, Open, core
<1>2. CASE live' = live \cup {drv[p]} /\ Move(p, "publish")
  BY <1>2 DEF Open, core, DriverNotLeaked, TunnelPaired, TypeInv, Typed, Move, Goto
<1>3. QED
  BY <1>1, <1>2 DEF Open

\* What was open is closed in the step that replaces it, and its tunnel with
\* it.
LEMMA PublishDrivers ==
  ASSUME TypeInv, DriverNotLeaked, TunnelPaired, NEW p \in Callers, Publish(p)
  PROVE  DriverNotLeaked' /\ TunnelPaired'
<1> DEFINE c == op[p].conn
<1>1. /\ c \in Conns /\ drv[p] \in Drivers
      /\ live' = live \ {connections[c]}
      /\ connections' = [connections EXCEPT ![c] = drv[p]]
      /\ tunnels' = [tunnels EXCEPT ![c] = IF opened[drv[p]].ssh THEN drv[p] ELSE None]
      /\ opened' = opened
  BY DEF Publish, TypeInv, Typed, Carries
<1>2. \A q \in Callers \ {p} : pc[q] = "publish" => pc'[q] = "publish" /\ drv'[q] = drv[q]
  BY ConnectedMoves DEF Publish
<1> HIDE DEF c
<1>3. TunnelPaired'
  BY <1>1 DEF TunnelPaired, TypeInv, Typed
<1>4. DriverNotLeaked'
  BY <1>1, <1>2 DEF DriverNotLeaked, TypeInv, Typed
<1>5. QED
  BY <1>3, <1>4

LEMMA DisconnectDrivers ==
  ASSUME TypeInv, DriverNotLeaked, TunnelPaired, NEW p \in Callers, Disconnect(p)
  PROVE  DriverNotLeaked' /\ TunnelPaired'
<1> DEFINE c == op[p].conn
<1>1. /\ c \in Conns
      /\ live' = live \ {connections[c]}
      /\ connections' = [connections EXCEPT ![c] = None]
      /\ tunnels' = [tunnels EXCEPT ![c] = None]
      /\ opened' = opened
  BY DEF Disconnect, TypeInv, Typed, Carries
<1>2. \A q \in Callers : pc[q] = "publish" => pc'[q] = "publish" /\ drv'[q] = drv[q]
  BY DEF Disconnect, Disconnected, TypeInv, Typed, Return, ReturnAll, Move, Goto
<1> HIDE DEF c
<1>3. TunnelPaired'
  BY <1>1 DEF TunnelPaired, TypeInv, Typed
<1>4. DriverNotLeaked'
  BY <1>1, <1>2 DEF DriverNotLeaked, TypeInv, Typed
<1>5. QED
  BY <1>3, <1>4

-----------------------------------------------------------------------------
(* Transactions.  A step that leaves the registry, the database and who    *)
(* uses a transaction alone is one that no client can see.                 *)

Using == {"insert", "run_tx", "finalize"}

TxsStay ==
  /\ UNCHANGED <<entries, dbtx>>
  /\ \A q \in Callers : pc[q] \in Using \/ pc'[q] \in Using
       => pc'[q] = pc[q] /\ tx'[q] = tx[q]

TxVars == <<status, running>>

LEMMA TxsStayKeeps ==
  ASSUME HandleNotLost, TxsStay
  PROVE  HandleNotLost' /\ UNCHANGED TxVars
<1>1. \A t \in Txns, q \in Callers :
        /\ tx'[q] = t /\ pc'[q] \in Using <=> tx[q] = t /\ pc[q] \in Using
        /\ tx'[q] = t /\ pc'[q] = "run_tx" <=> tx[q] = t /\ pc[q] = "run_tx"
        /\ tx'[q] = t /\ pc'[q] = "finalize" <=> tx[q] = t /\ pc[q] = "finalize"
  BY DEF TxsStay, Using
<1>2. UNCHANGED <<entries, dbtx>>
  BY DEF TxsStay
<1>3. HandleNotLost'
  BY <1>1, <1>2 DEF HandleNotLost, Using
<1>4. UNCHANGED TxVars
  BY <1>1, <1>2 DEF TxVars, status, running, Finalizing
<1>5. QED
  BY <1>3, <1>4

\* The requests that use transaction t.
Users(t) == {q \in Callers : tx[q] = t /\ pc[q] \in Using}

Handled(t) ==
  /\ dbtx[t] = "open" <=> entries[t] # None \/ Users(t) # {}
  /\ entries[t] # None => Users(t) = {}
  /\ \A p, q \in Users(t) : p = q

LEMMA HandledFacts ==
  /\ HandleNotLost <=> \A t \in Txns : Handled(t)
  /\ HandleNotLost' <=> \A t \in Txns : Handled(t)'
BY DEF HandleNotLost, Handled, Users, Using

\* status and running after a step that concerns transaction t only.
LEMMA OnlyOne ==
  ASSUME NEW t \in Txns, NEW s \in Tx!Status, NEW r \in BOOLEAN,
         \A u \in Txns \ {t} : dbtx'[u] = dbtx[u]
           /\ (Finalizing(u)' <=> Finalizing(u)) /\ (u \in running' <=> u \in running),
         s = IF dbtx'[t] # "open" THEN dbtx'[t]
             ELSE IF Finalizing(t)' THEN "finalizing" ELSE "active"
  PROVE  /\ status' = [status EXCEPT ![t] = s]
         /\ t \in running' => running' = running \cup {t}
         /\ t \notin running' => running' = running \ {t}
<1>1. status' = [status EXCEPT ![t] = s]
  BY DEF status
<1>2. QED
  BY <1>1 DEF running

\* Only one request is at a new place, and only in its own transaction.
Moves(p, t, label) ==
  /\ pc[p] \notin Using \/ tx[p] = t
  /\ pc' = [pc EXCEPT ![p] = label]
  /\ label \in Using => tx'[p] = t
  /\ \A q \in Callers \ {p} : tx'[q] = tx[q]

LEMMA MovesFacts ==
  ASSUME Typed, NEW p \in Callers, NEW t \in Txns, NEW label \in Labels, Moves(p, t, label)
  PROVE  /\ \A u \in Txns \ {t} :
              /\ Users(u)' = Users(u)
              /\ Finalizing(u)' <=> Finalizing(u)
              /\ u \in running' <=> u \in running
         /\ Users(t)' = IF label \in Using THEN Users(t) \cup {p} ELSE Users(t) \ {p}
<1>1. /\ pc'[p] = label /\ \A q \in Callers \ {p} : pc'[q] = pc[q] /\ tx'[q] = tx[q]
      /\ pc[p] \in Using => tx[p] = t
      /\ label \in Using => tx'[p] = t
  BY DEF Moves, Typed
<1>2. ASSUME NEW u \in Txns \ {t}
      PROVE  /\ \A q \in Callers : q \in Users(u)' <=> q \in Users(u)
             /\ Finalizing(u)' <=> Finalizing(u)
             /\ u \in running' <=> u \in running
  BY <1>1 DEF Users, Using, Finalizing, running
<1>3. \A q \in Callers :
        q \in Users(t)' <=> IF q = p THEN label \in Using ELSE q \in Users(t)
  BY <1>1 DEF Users
<1>4. \A u : Users(u) \subseteq Callers /\ Users(u)' \subseteq Callers
  BY DEF Users
<1>5. QED
  BY <1>2, <1>3, <1>4

\* A new transaction is in the hands of the request that began it.
LEMMA BeginStep ==
  ASSUME TypeInv, HandleNotLost, NEW p \in Callers, NEW t \in Txns,
         pc[p] = "begin_db", dbtx[t] = "unborn",
         dbtx' = [dbtx EXCEPT ![t] = "open"], tx' = [tx EXCEPT ![p] = t],
         Goto(p, "insert"), UNCHANGED entries
  PROVE  HandleNotLost' /\ Tx!Begin(t)
<1>1. Moves(p, t, "insert") /\ Typed
  BY DEF Moves, Goto, Using, TypeInv, Typed
<1>2. Users(t) = {} /\ entries[t] = None
  BY HandledFacts DEF Handled
<1>3. /\ dbtx'[t] = "open" /\ \A u \in Txns \ {t} : dbtx'[u] = dbtx[u]
      /\ Users(t)' = {p}
      /\ \A u \in Txns \ {t} : Users(u)' = Users(u)
  BY <1>1, <1>2, MovesFacts DEF Typed, Using
<1>4. HandleNotLost'
  BY <1>2, <1>3, HandledFacts DEF Handled
<1>5. ~Finalizing(t)' /\ t \notin running' /\ t \notin running
  BY <1>1, <1>2, <1>3 DEF Finalizing, running, Users, Using, Moves, Typed
<1>6. status' = [status EXCEPT ![t] = "active"] /\ running' = running \ {t}
  BY <1>1, <1>3, <1>5, MovesFacts, OnlyOne DEF Tx!Status
<1>7. status[t] = "unborn" 
  BY DEF status
<1>8. QED
  BY <1>4, <1>5, <1>6, <1>7 DEF Tx!Begin


\* In the registry of its manager it stays active.
LEMMA InsertStep ==
  ASSUME TypeInv, HandleNotLost, NEW p \in Callers, NEW t \in Txns, t = tx[p],
         Insert(p)
  PROVE  HandleNotLost' /\ UNCHANGED TxVars
<1>1. mgr[p] # None /\ p \in Users(t)
  BY DEF Insert, TypeInv, Typed, Carries, HasManager, HasTx, Users, Using
<1>2. Moves(p, t, "meta") /\ Typed
  BY DEF Insert, Move, Moves, Goto, Using, TypeInv
<1>3. /\ Users(t) = {p} /\ dbtx[t] = "open" /\ dbtx' = dbtx
      /\ entries' = [entries EXCEPT ![t] = mgr[p]]
  BY <1>1, HandledFacts DEF Handled, Insert
<1>4. /\ Users(t)' = {} /\ entries'[t] # None
      /\ \A u \in Txns \ {t} : Users(u)' = Users(u) /\ entries'[u] = entries[u]
  BY <1>1, <1>2, <1>3, MovesFacts DEF Typed, Using
<1>5. HandleNotLost'
  BY <1>3, <1>4, HandledFacts DEF Handled
<1>6. /\ ~Finalizing(t) /\ ~Finalizing(t)' /\ t \notin running /\ t \notin running'
  BY <1>1, <1>2, <1>3 DEF Finalizing, running, Users, Using, Moves, Insert, Typed
<1>7. \A u \in Txns : (Finalizing(u)' <=> Finalizing(u)) /\ (u \in running' <=> u \in running)
  BY <1>1, <1>2, <1>6, MovesFacts
<1>8. status' = status
  BY <1>3, <1>7 DEF status
<1>9. running' = running
  BY <1>7 DEF running
<1>10. QED
  BY <1>5, <1>8, <1>9 DEF TxVars

\* Taking an entry out starts a statement, or the end.
LEMMA TakeStep ==
  ASSUME TypeInv, HandleNotLost, NEW p \in Callers, NEW t \in Txns, t = tx[p],
         Take(p), entries[tx[p]] = mgr[p]
  PROVE  HandleNotLost' /\ (Tx!StartExecute(t) \/ Tx!StartFinalize(t))
<1> DEFINE label == IF op[p].kind = "execute_in_tx" THEN "run_tx" ELSE "finalize"
<1>1. entries[t] # None /\ pc[p] = "take"
  BY DEF Take, TypeInv, Typed, Carries, HasManager, HasTx
<1>2. Moves(p, t, label) /\ Typed /\ label \in {"run_tx", "finalize"}
  BY DEF Take, Move, Moves, Goto, Using, TypeInv
<1>3. /\ Users(t) = {} /\ dbtx[t] = "open" /\ dbtx' = dbtx
      /\ entries' = [entries EXCEPT ![t] = None]
  BY <1>1, HandledFacts DEF Handled, Take
<1> HIDE DEF label
<1>4. /\ Users(t)' = {p} /\ entries'[t] = None
      /\ \A u \in Txns \ {t} : Users(u)' = Users(u) /\ entries'[u] = entries[u]
  BY <1>1, <1>2, <1>3, MovesFacts DEF Typed, Using
<1>5. HandleNotLost'
  BY <1>3, <1>4, HandledFacts DEF Handled
<1>6. ~Finalizing(t) /\ t \notin running /\ status[t] = "active"
  BY <1>1, <1>3 DEF Finalizing, running, Users, Using, status
<1>7. (Finalizing(t)' <=> label = "finalize") /\ (t \in running' <=> label = "run_tx")
  BY <1>1, <1>2, <1>4 DEF Finalizing, running, Users, Using, Moves, Typed
<1>8. CASE label = "run_tx"
  <2>1. status' = [status EXCEPT ![t] = "active"] /\ running' = running \cup {t}
    BY <1>1, <1>2, <1>3, <1>7, <1>8, MovesFacts, OnlyOne DEF Tx!Status
  <2>2. status' = status
    BY <1>6, <2>1 DEF status
  <2> QED
    BY <1>5, <1>6, <2>1, <2>2 DEF Tx!StartExecute
<1>9. CASE label = "finalize"
  <2>1. status' = [status EXCEPT ![t] = "finalizing"] /\ running' = running \ {t}
    BY <1>1, <1>2, <1>3, <1>7, <1>9, MovesFacts, OnlyOne DEF Tx!Status
  <2> QED
    BY <1>5, <1>6, <2>1 DEF Tx!StartFinalize
<1>10. QED
  BY <1>2, <1>8, <1>9

\* A statement ends with the entry in the registry again.
LEMMA ExecutedInTxStep ==
  ASSUME TypeInv, HandleNotLost, NEW p \in Callers, NEW t \in Txns, t = tx[p],
         ExecutedInTx(p)
  PROVE  HandleNotLost' /\ Tx!EndExecute(t)
<1>1. mgr[p] # None /\ p \in Users(t)
  BY DEF ExecutedInTx, TypeInv, Typed, Carries, HasManager, HasTx, Users, Using
<1>2. Moves(p, t, "idle") /\ Typed
  BY DEF ExecutedInTx, Return, ReturnAll, Moves, Using, TypeInv, Typed
<1>3. /\ Users(t) = {p} /\ dbtx[t] = "open" /\ dbtx' = dbtx
      /\ entries' = [entries EXCEPT ![t] = mgr[p]]
  BY <1>1, HandledFacts DEF Handled, ExecutedInTx
<1>4. pc[p] = "run_tx"
  BY DEF ExecutedInTx
<1>5. /\ Users(t)' = {} /\ entries'[t] # None
      /\ \A u \in Txns \ {t} : Users(u)' = Users(u) /\ entries'[u] = entries[u]
  BY <1>1, <1>2, <1>3, MovesFacts DEF Typed, Using
<1>6. HandleNotLost'
  BY <1>3, <1>5, HandledFacts DEF Handled
<1>7. ~Finalizing(t) /\ ~Finalizing(t)' /\ t \in running /\ t \notin running'
  BY <1>1, <1>3, <1>4, <1>5 DEF Finalizing, running, Users, Using
<1>8. status' = [status EXCEPT ![t] = "active"] /\ running' = running \ {t}
  BY <1>1, <1>2, <1>3, <1>7, MovesFacts, OnlyOne DEF Tx!Status
<1>9. status' = status
  BY <1>1, <1>3, <1>7, <1>8 DEF status
<1>10. QED
  BY <1>6, <1>7, <1>8, <1>9 DEF Tx!EndExecute

\* The driver's commit or rollback ends the transaction.
LEMMA FinalizeStep ==
  ASSUME TypeInv, HandleNotLost, NEW p \in Callers, NEW t \in Txns, t = tx[p],
         Finalize(p)
  PROVE  HandleNotLost' /\ Tx!EndFinalize(t)
<1>1. p \in Users(t)
  BY DEF Finalize, TypeInv, Typed, Carries, HasTx, Users, Using
<1>2. Moves(p, t, "forget") /\ Typed
  BY DEF Finalize, Move, Moves, Goto, Using, TypeInv
<1>3. PICK o \in Tx!Final : dbtx' = [dbtx EXCEPT ![t] = o]
  BY DEF Finalize, Tx!Final
<1>4. Users(t) = {p} /\ dbtx[t] = "open" /\ entries' = entries /\ entries[t] = None
  BY <1>1, HandledFacts DEF Handled, Finalize
<1>5. pc[p] = "finalize"
  BY DEF Finalize
<1>6. /\ Users(t)' = {} /\ dbtx'[t] = o
      /\ \A u \in Txns \ {t} : Users(u)' = Users(u) /\ dbtx'[u] = dbtx[u]
  BY <1>1, <1>2, <1>3, <1>4, MovesFacts DEF Typed, Using
<1>7. HandleNotLost'
  BY <1>3, <1>4, <1>6, HandledFacts DEF Handled, Tx!Final
<1>8. Finalizing(t) /\ t \notin running /\ t \notin running' /\ status[t] = "finalizing"
  BY <1>1, <1>4, <1>5, <1>6 DEF Finalizing, running, Users, Using, status
<1>9. status' = [status EXCEPT ![t] = o] /\ running' = running \ {t}
  <2>1. o \in Tx!Status
    BY DEF Tx!Status, Tx!Final
  <2>2. \A u \in Txns \ {t} : dbtx'[u] = dbtx[u] /\ (Finalizing(u)' <=> Finalizing(u))
                               /\ (u \in running' <=> u \in running)
    <3>1. "forget" \in Labels
      OBVIOUS
    <3> HIDE DEF Labels, Finalizing, Moves, Typed, running
    <3> QED
      BY <1>2, <1>6, <3>1, MovesFacts
  <2>3. o # "open" /\ dbtx'[t] = o
    BY <1>6 DEF Tx!Final
  <2>4. o = IF dbtx'[t] # "open" THEN dbtx'[t]
            ELSE IF Finalizing(t)' THEN "finalizing" ELSE "active"
    BY <2>3
  <2> HIDE DEF Finalizing, running, status, Tx!Status
  <2> QED
    BY <1>8, <2>1, <2>2, <2>4, OnlyOne
<1>10. QED
  BY <1>7, <1>8, <1>9 DEF Tx!EndFinalize

\* What is still in the registry nobody uses, so it can be rolled back.
LEMMA ReclaimStep ==
  ASSUME TypeInv, HandleNotLost, NEW t \in Txns, Reclaim(t), entries[t] # None,
         UNCHANGED <<pc, tx>>
  PROVE  HandleNotLost' /\ Tx!Discard(t)
<1>0. Typed /\ running' = running
  BY DEF running, TypeInv
<1>1. \A u \in Txns : Users(u)' = Users(u) /\ (Finalizing(u)' <=> Finalizing(u))
  BY DEF Users, Finalizing
<1>2. /\ Users(t) = {} /\ dbtx[t] = "open" /\ dbtx'[t] = "rolled_back" /\ entries'[t] = None
      /\ \A u \in Txns \ {t} : dbtx'[u] = dbtx[u] /\ entries'[u] = entries[u]
  BY <1>0, HandledFacts DEF Handled, Reclaim, Typed
<1>3. HandleNotLost'
  BY <1>1, <1>2, HandledFacts DEF Handled
<1>4. ~Finalizing(t) /\ t \notin running /\ status[t] = "active"
  BY <1>2 DEF Finalizing, running, Users, Using, status
<1>5. status' = [status EXCEPT ![t] = "rolled_back"] /\ running' = running \ {t}
  BY <1>0, <1>1, <1>2, <1>4, OnlyOne DEF Tx!Status, Tx!Final
<1>6. QED
  BY <1>3, <1>4, <1>5 DEF Tx!Discard

-----------------------------------------------------------------------------
(* Every step of the core.                                                 *)

Kept ==
  /\ DriverNotLeaked' /\ TunnelPaired' /\ HandleNotLost'
  /\ [Tx!Next]_TxVars

LEMMA Aside ==
  ASSUME IInv, DriversStay, TxsStay
  PROVE  Kept
BY DriversStayKeeps, TxsStayKeeps DEF Kept, IInv

\* The other steps of requests, which neither open or close a driver nor use
\* a transaction.
LEMMA ArriveAside ==
  ASSUME TypeInv, NEW p \in Callers, Arrive(p)
  PROVE  DriversStay /\ TxsStay
<1> USE DEF TypeInv, Typed, DriversStay, TxsStay, Using, core, drivers, kernel, Goto
<1>1. ASSUME NEW k \in Kinds, NEW c \in Conns, NEW w \in BOOLEAN, Ask(p, k, c, w)
      PROVE  DriversStay /\ TxsStay
  BY <1>1 DEF Ask
<1>2. ASSUME NEW t \in Txns, NEW k \in Kinds, NEW w \in BOOLEAN, TxContext(p, t, k, w)
      PROVE  DriversStay /\ TxsStay
  BY <1>2 DEF TxContext
<1>3. QED
  BY <1>1, <1>2 DEF Arrive

LEMMA ServeAside ==
  ASSUME TypeInv, NEW p \in Callers,
         \/ Check(p) \/ Ensure(p) \/ Fly(p) \/ Recheck(p) \/ Get(p) \/ Executed(p)
         \/ ManagerFor(p) \/ Meta(p) \/ Forget(p) \/ RolledBack(p) \/ DeleteRow(p)
         \/ BeginDb(p) /\ Return(p) /\ UNCHANGED dbtx
         \/ Take(p) /\ Return(p) /\ UNCHANGED entries
  PROVE  DriversStay /\ TxsStay
<1> USE DEF TypeInv, Typed, DriversStay, TxsStay, Using, core, drivers, kernel, Goto,
    Move, Return, ReturnAll
<1>1. CASE Check(p)
  BY <1>1 DEF Check
<1>2. CASE Ensure(p)
  BY <1>2 DEF Ensure, UseDriver
<1>3. CASE Fly(p)
  BY <1>3 DEF Fly
<1>4. CASE Recheck(p)
  BY <1>4 DEF Recheck, Land, Aboard
<1>5. CASE Get(p)
  BY <1>5 DEF Get, UseDriver
<1>6. CASE Executed(p)
  BY <1>6 DEF Executed
<1>7. CASE ManagerFor(p)
  BY <1>7 DEF ManagerFor
<1>8. CASE Meta(p)
  BY <1>8 DEF Meta
<1>9. CASE Forget(p)
  BY <1>9 DEF Forget
<1>10. CASE RolledBack(p)
  BY <1>10 DEF RolledBack, Disconnected
<1>11. CASE DeleteRow(p)
  BY <1>11 DEF DeleteRow
<1>12. CASE BeginDb(p) /\ Return(p) /\ UNCHANGED dbtx
  BY <1>12 DEF BeginDb
<1>13. CASE Take(p) /\ Return(p) /\ UNCHANGED entries
  BY <1>13 DEF Take
<1> HIDE DEF DriversStay, TxsStay
<1>14. QED
  BY <1>1, <1>2, <1>3, <1>4, <1>5, <1>6, <1>7, <1>8, <1>9, <1>10, <1>11, <1>12, <1>13

\* Connecting and disconnecting use no transaction.
LEMMA ConnectTxs ==
  ASSUME TypeInv, NEW p \in Callers, LoadRow(p) \/ Open(p) \/ Publish(p) \/ Disconnect(p)
  PROVE  TxsStay
<1> USE DEF TypeInv, Typed, TxsStay, Using, core, drivers, kernel, Goto, Move, Return,
    ReturnAll
<1>1. CASE LoadRow(p)
  BY <1>1 DEF LoadRow, Connected, Land, Aboard
<1>2. CASE Open(p)
  BY <1>2 DEF Open, Connected, Land, Aboard
<1>3. CASE Publish(p)
  BY <1>3 DEF Publish, Connected, Land, Aboard
<1>4. CASE Disconnect(p)
  BY <1>4 DEF Disconnect, Disconnected
<1>5. QED
  BY <1>1, <1>2, <1>3, <1>4

\* The steps of transactions open, close and publish no driver.
LEMMA TxDrivers ==
  ASSUME TypeInv, NEW p \in Callers,
         BeginDb(p) \/ Insert(p) \/ Take(p) \/ ExecutedInTx(p) \/ Finalize(p)
  PROVE  DriversStay
BY DEF TypeInv, Typed, DriversStay, core, drivers, kernel, Goto, Move, Return, ReturnAll,
       BeginDb, Insert, Take, ExecutedInTx, Finalize

LEMMA ServeKept == ASSUME IInv, NEW p \in Callers, Serve(p) PROVE Kept
<1> USE DEF IInv
<1>0. TypeInv /\ Typed
  BY DEF TypeInv
<1>1. CASE \/ Check(p) \/ Ensure(p) \/ Fly(p) \/ Recheck(p) \/ Get(p) \/ Executed(p)
           \/ ManagerFor(p) \/ Meta(p) \/ Forget(p) \/ RolledBack(p) \/ DeleteRow(p)
  BY <1>1, ServeAside, Aside
<1>2. CASE LoadRow(p)
  BY <1>2, LoadRowDrivers, ConnectTxs, TxsStayKeeps DEF Kept
<1>3. CASE Open(p)
  BY <1>3, OpenDrivers, ConnectTxs, TxsStayKeeps DEF Kept
<1>4. CASE Publish(p)
  BY <1>4, PublishDrivers, ConnectTxs, TxsStayKeeps DEF Kept
<1>5. CASE Disconnect(p)
  BY <1>5, DisconnectDrivers, ConnectTxs, TxsStayKeeps DEF Kept
<1>6. CASE BeginDb(p)
  <2>1. DriverNotLeaked' /\ TunnelPaired'
    BY <1>6, TxDrivers, DriversStayKeeps
  <2>2. ASSUME NEW t \in Txns, dbtx[t] = "unborn", dbtx' = [dbtx EXCEPT ![t] = "open"],
               tx' = [tx EXCEPT ![p] = t], Goto(p, "insert")
        PROVE  Kept
    BY <1>6, <2>1, <2>2, BeginStep DEF BeginDb, Kept, Tx!Next
  <2>3. CASE Return(p) /\ UNCHANGED dbtx
    BY <1>6, <2>3, ServeAside, Aside
  <2>4. QED
    BY <1>6, <2>2, <2>3 DEF BeginDb
<1>7. CASE Insert(p)
  <2>1. PICK t \in Txns : t = tx[p]
    BY <1>7, <1>0 DEF TypeInv, Typed, Carries, HasTx, Insert
  <2> QED
    BY <1>7, <2>1, TxDrivers, DriversStayKeeps, InsertStep DEF Kept
<1>8. CASE Take(p)
  <2>1. PICK t \in Txns : t = tx[p]
    BY <1>8, <1>0 DEF TypeInv, Typed, Carries, HasTx, Take
  <2>2. CASE entries[tx[p]] = mgr[p]
    BY <1>8, <2>1, <2>2, TxDrivers, DriversStayKeeps, TakeStep DEF Kept, Tx!Next
  <2>3. CASE entries[tx[p]] # mgr[p]
    BY <1>8, <2>3, ServeAside, Aside DEF Take
  <2> QED
    BY <2>2, <2>3
<1>9. CASE ExecutedInTx(p)
  <2>1. PICK t \in Txns : t = tx[p]
    BY <1>9, <1>0 DEF TypeInv, Typed, Carries, HasTx, ExecutedInTx
  <2> QED
    BY <1>9, <2>1, TxDrivers, DriversStayKeeps, ExecutedInTxStep DEF Kept, Tx!Next
<1>10. CASE Finalize(p)
  <2>1. PICK t \in Txns : t = tx[p]
    BY <1>10, <1>0 DEF TypeInv, Typed, Carries, HasTx, Finalize
  <2> QED
    BY <1>10, <2>1, TxDrivers, DriversStayKeeps, FinalizeStep DEF Kept, Tx!Next
<1>11. ASSUME NEW t \in Txns, RollbackOne(p, t)
       PROVE  Kept
  <2>1. DriversStay /\ Reclaim(t) /\ UNCHANGED <<pc, tx>>
    BY <1>11 DEF RollbackOne, DriversStay, core, drivers, stack
  <2>2. entries[t] # None
    BY <1>11 DEF RollbackOne, TypeInv, Typed, Carries, HasManager
  <2> QED
    BY <2>1, <2>2, DriversStayKeeps, ReclaimStep DEF Kept, Tx!Next
<1> HIDE DEF IInv
<1>12. QED
  BY <1>1, <1>2, <1>3, <1>4, <1>5, <1>6, <1>7, <1>8, <1>9, <1>10, <1>11 DEF Serve

LEMMA StepKept == ASSUME IInv, [Next]_vars PROVE IInv' /\ [Tx!Next]_TxVars
<1>1. TypeInv'
  BY TypeInductive DEF IInv
<1>2. ASSUME NEW p \in Callers, Arrive(p)
      PROVE  Kept
  BY <1>2, ArriveAside, Aside DEF IInv
<1>3. ASSUME NEW c \in Conns, NEW cfg \in Configs, UpdateConnection(c, cfg)
      PROVE  Kept
  BY <1>3, Aside
     DEF UpdateConnection, DriversStay, TxsStay, core, drivers, kernel, stack
<1>4. ASSUME NEW t \in Txns, Sweep(t)
      PROVE  Kept
  <2>1. DriversStay /\ Reclaim(t) /\ UNCHANGED <<pc, tx>> /\ entries[t] # None
    BY <1>4 DEF Sweep, DriversStay, core, drivers, stack
  <2> QED
    BY <2>1, DriversStayKeeps, ReclaimStep DEF Kept, Tx!Next, IInv
<1>5. ASSUME UNCHANGED vars
      PROVE  Kept
  <2>1. DriversStay /\ TxsStay
    BY <1>5 DEF vars, DriversStay, TxsStay, core, drivers, kernel, stack
  <2> QED
    BY <2>1, Aside
<1>6. Kept
  BY <1>2, <1>3, <1>4, <1>5, ServeKept DEF Next
<1>7. QED
  BY <1>1, <1>6 DEF IInv, Kept

LEMMA Invariance == Spec => []IInv
BY Initially, StepKept, PTL DEF Spec

-----------------------------------------------------------------------------
\* Every map of the core and the stack of every request keep their types, and
\* whoever waits for a flight waits for a request that is on the way.
THEOREM TypeCorrect == Spec => []TypeOK
<1>1. IInv => TypeOK
  BY TypeInvIsType DEF IInv
<1>2. QED
  BY <1>1, Invariance, PTL

\* Connect: a driver that is open is published or about to be, whatever
\* connects, tests and disconnects interleave.
THEOREM NoDriverLeaks == Spec => []DriverNotLeaked
<1>1. IInv => DriverNotLeaked
  BY DEF IInv
<1>2. QED
  BY <1>1, Invariance, PTL

\* Connect and Disconnect: the tunnel in the map is the one the open driver
\* goes through.
THEOREM TunnelsArePaired == Spec => []TunnelPaired
<1>1. IInv => TunnelPaired
  BY DEF IInv
<1>2. QED
  BY <1>1, Invariance, PTL

\* dbcore.TxManager: a transaction that is open is in a registry or with
\* exactly one request.
THEOREM NoHandleIsLost == Spec => []HandleNotLost
<1>1. IInv => HandleNotLost
  BY DEF IInv
<1>2. QED
  BY <1>1, Invariance, PTL

LEMMA RefinementInit == Init => Tx!Init
BY DEF Init, Tx!Init, status, running, Finalizing

\* What the Go core shows a client of its transactions is a behaviour of
\* TxSpec: serial statements, one end, and nothing after it.
THEOREM Refinement == Spec => TxRefinement
<1>1. Spec => Tx!Init /\ [][Tx!Next]_TxVars
  BY Invariance, RefinementInit, StepKept, PTL DEF Spec
<1>2. QED
  BY <1>1 DEF TxRefinement, Tx!Spec, Tx!vars, TxVars

=============================================================================
