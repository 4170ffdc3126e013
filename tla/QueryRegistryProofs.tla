------------------------- MODULE QueryRegistryProofs -------------------------
(***************************************************************************)
(* What TLAPS proves about QueryRegistry, for every set of requests and    *)
(* query ids, any number of threads and both servers.  That a query with a *)
(* deadline ends is liveness and stays with TLC.                           *)
(***************************************************************************)
EXTENDS QueryRegistry, TLAPS

\* The entry of a request goes at the latest when it is answered, so no
\* cancel is delivered to it afterwards.
EntriesAreLive ==
  \A q \in QueryIds : registry[q] # None => pc[registry[q]] # "done"

\* Until a handler has returned its permit or context is only touched by a
\* cancel (the Go handler cancels its own context as it returns).
CancelledByCancel ==
  \A r \in Requests : cancelled[r] /\ pc[r] # "done" => acked[r]

IInv ==
  /\ TypeOK
  /\ EntriesAreLive
  /\ Cancellable
  /\ CancelledByCancel
  /\ CancelledWasAsked

USE BackendsAssumption, NoneAssumption DEF Labels, Outcomes, WorkerStates

LEMMA Initially == Init => IInv
BY DEF Init, IInv, TypeOK, EntriesAreLive, Cancellable, CancelledByCancel, CancelledWasAsked

\* Types: what a handler has done shows in its label.
LEMMA TypeInductive == TypeOK /\ [Next]_vars => TypeOK'
<1> SUFFICES ASSUME TypeOK, [Next]_vars PROVE TypeOK'
  OBVIOUS
<1> USE DEF TypeOK, Goto
<1>1. ASSUME NEW r \in Requests, NEW q \in QueryIds, NEW d \in {"none", "ahead"},
             Register(r, q, d)
      PROVE  TypeOK'
  BY <1>1 DEF Register
<1>2. ASSUME NEW r \in Requests, Spawn(r)
      PROVE  TypeOK'
  BY <1>2 DEF Spawn
<1>3. ASSUME NEW r \in Requests, WorkerEnds(r)
      PROVE  TypeOK'
  BY <1>3 DEF WorkerEnds
<1>4. ASSUME NEW r \in Requests, Expire(r)
      PROVE  TypeOK'
  BY <1>4 DEF Expire
<1>5. ASSUME NEW r \in Requests, Select(r)
      PROVE  TypeOK'
  BY <1>5 DEF Select, Ready, Answer
<1>6. ASSUME NEW r \in Requests, Unregister(r)
      PROVE  TypeOK'
  BY <1>6 DEF Unregister
<1>7. ASSUME NEW r \in Requests, HangUp(r)
      PROVE  TypeOK'
  BY <1>7 DEF HangUp
<1>8. ASSUME NEW q \in QueryIds, Cancel(q)
      PROVE  TypeOK'
  BY <1>8 DEF Cancel
<1>9. ASSUME NEW r \in Requests, Begin(r)
      PROVE  TypeOK'
  BY <1>9 DEF Begin
<1>10. CASE UNCHANGED vars
  BY <1>10 DEF vars
<1> HIDE DEF TypeOK
<1>11. QED
  BY <1>1, <1>2, <1>3, <1>4, <1>5, <1>6, <1>7, <1>8, <1>9, <1>10 DEF Next

\* Entries: registering, unregistering and cancelling each move one entry.
LEMMA EntriesInductive ==
  ASSUME TypeOK, EntriesAreLive, Cancellable, [Next]_vars
  PROVE  EntriesAreLive' /\ Cancellable'
<1> USE DEF TypeOK, EntriesAreLive, Cancellable, Goto
<1>1. ASSUME NEW r \in Requests, NEW q \in QueryIds, NEW d \in {"none", "ahead"},
             Register(r, q, d)
      PROVE  EntriesAreLive' /\ Cancellable'
  BY <1>1 DEF Register
<1>2. ASSUME NEW r \in Requests, Spawn(r)
      PROVE  EntriesAreLive' /\ Cancellable'
  BY <1>2 DEF Spawn
<1>3. ASSUME NEW r \in Requests, WorkerEnds(r)
      PROVE  EntriesAreLive' /\ Cancellable'
  BY <1>3 DEF WorkerEnds
<1>4. ASSUME NEW r \in Requests, Expire(r)
      PROVE  EntriesAreLive' /\ Cancellable'
  BY <1>4 DEF Expire
<1>5. ASSUME NEW r \in Requests, Select(r)
      PROVE  EntriesAreLive' /\ Cancellable'
  BY <1>5 DEF Select, Ready, Answer
<1>6. ASSUME NEW r \in Requests, Unregister(r)
      PROVE  EntriesAreLive' /\ Cancellable'
  BY <1>6 DEF Unregister
<1>7. ASSUME NEW r \in Requests, HangUp(r)
      PROVE  EntriesAreLive' /\ Cancellable'
  BY <1>7 DEF HangUp
<1>8. ASSUME NEW q \in QueryIds, Cancel(q)
      PROVE  EntriesAreLive' /\ Cancellable'
  BY <1>8 DEF Cancel
<1>9. ASSUME NEW r \in Requests, Begin(r)
      PROVE  EntriesAreLive' /\ Cancellable'
  BY <1>9 DEF Begin
<1>10. CASE UNCHANGED vars
  BY <1>10 DEF vars
<1>11. QED
  BY <1>1, <1>2, <1>3, <1>4, <1>5, <1>6, <1>7, <1>8, <1>9, <1>10 DEF Next

\* Cancellations: nobody is told of one that was not acknowledged.
LEMMA CancelledInductive ==
  ASSUME TypeOK, CancelledByCancel, CancelledWasAsked, [Next]_vars
  PROVE  CancelledByCancel' /\ CancelledWasAsked'
<1> USE DEF TypeOK, CancelledByCancel, CancelledWasAsked, Goto
<1>1. ASSUME NEW r \in Requests, NEW q \in QueryIds, NEW d \in {"none", "ahead"},
             Register(r, q, d)
      PROVE  CancelledByCancel' /\ CancelledWasAsked'
  BY <1>1 DEF Register
<1>2. ASSUME NEW r \in Requests, Spawn(r)
      PROVE  CancelledByCancel' /\ CancelledWasAsked'
  BY <1>2 DEF Spawn
<1>3. ASSUME NEW r \in Requests, WorkerEnds(r)
      PROVE  CancelledByCancel' /\ CancelledWasAsked'
  BY <1>3 DEF WorkerEnds
<1>4. ASSUME NEW r \in Requests, Expire(r)
      PROVE  CancelledByCancel' /\ CancelledWasAsked'
  BY <1>4 DEF Expire
<1>5. ASSUME NEW r \in Requests, Select(r)
      PROVE  CancelledByCancel' /\ CancelledWasAsked'
  BY <1>5 DEF Select, Ready, Answer
<1>6. ASSUME NEW r \in Requests, Unregister(r)
      PROVE  CancelledByCancel' /\ CancelledWasAsked'
  BY <1>6 DEF Unregister
<1>7. ASSUME NEW r \in Requests, HangUp(r)
      PROVE  CancelledByCancel' /\ CancelledWasAsked'
  BY <1>7 DEF HangUp
<1>8. ASSUME NEW q \in QueryIds, Cancel(q)
      PROVE  CancelledByCancel' /\ CancelledWasAsked'
  BY <1>8 DEF Cancel
<1>9. ASSUME NEW r \in Requests, Begin(r)
      PROVE  CancelledByCancel' /\ CancelledWasAsked'
  BY <1>9 DEF Begin
<1>10. CASE UNCHANGED vars
  BY <1>10 DEF vars
<1>11. QED
  BY <1>1, <1>2, <1>3, <1>4, <1>5, <1>6, <1>7, <1>8, <1>9, <1>10 DEF Next

LEMMA Invariance == Spec => []IInv
<1>1. IInv /\ [Next]_vars => IInv'
  BY TypeInductive, EntriesInductive, CancelledInductive DEF IInv
<1>2. QED
  BY <1>1, Initially, PTL DEF Spec

\* The handlers and the registry keep their types; the entry of an id is that
\* of a request with this id.
THEOREM TypeCorrect == Spec => []TypeOK
<1>1. IInv => TypeOK
  BY DEF IInv
<1>2. QED
  BY <1>1, Invariance, PTL

\* cancelQuery: while a query with an id of its own executes, a cancel of the
\* id reaches it or it has been told already.
THEOREM CanBeCancelled == Spec => []Cancellable
<1>1. IInv => Cancellable
  BY DEF IInv
<1>2. QED
  BY <1>1, Invariance, PTL

\* executeQuery: only an acknowledged cancel is answered as one.
THEOREM CancelsWereAsked == Spec => []CancelledWasAsked
<1>1. IInv => CancelledWasAsked
  BY DEF IInv
<1>2. QED
  BY <1>1, Invariance, PTL

\* A step after which acked of an answered query differs would be a cancel
\* that finds its entry.
LEMMA AnsweredStep ==
  ASSUME TypeOK, EntriesAreLive, Next
  PROVE  \A r \in Requests : pc[r] = "done" => acked'[r] = acked[r]
<1> USE DEF TypeOK
<1>1. ASSUME NEW q \in QueryIds, Cancel(q)
      PROVE  \A r \in Requests : pc[r] = "done" => acked'[r] = acked[r]
  BY <1>1 DEF Cancel, EntriesAreLive
<1>2. CASE UNCHANGED acked
  BY <1>2
<1> HIDE DEF TypeOK
<1>3. QED
  BY <1>1, <1>2
     DEF Next, Register, Spawn, Begin, WorkerEnds, Expire, Select, Unregister, HangUp

\* cancelQuery: a cancel of a query that has been answered is a 404.
THEOREM AnsweredStaysAnswered == Spec => NoCancelAfterAnswer
<1>1. IInv /\ [Next]_vars =>
        [\A r \in Requests : pc[r] = "done" => acked'[r] = acked[r]]_vars
  BY AnsweredStep DEF IInv
<1>2. QED
  BY <1>1, Invariance, PTL DEF Spec, NoCancelAfterAnswer

=============================================================================
