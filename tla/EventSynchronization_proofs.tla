--------------------- MODULE EventSynchronization_proofs ---------------------
(***************************************************************************)
(* What a synchronisation stores was completed by requiredApproval guards, *)
(* and the event is never ahead of its payment: for every number of        *)
(* events, payments, guards, calls and crashes.                            *)
(***************************************************************************)
EXTENDS EventSynchronization, FiniteSetTheorems, TLAPS

-----------------------------------------------------------------------------
(* Types.                                                                  *)

LEMMA TypeInit == Init => TypeOK
<1> SUFFICES ASSUME Init PROVE TypeOK
  OBVIOUS
<1>1. job \in JobState
  BY DEF Init, JobState, At
<1>2. handler \in [Handler -> Running \cup {Idle}]
  BY DEF Init
<1>3. completed \in [Peer -> [Event -> Payment \cup {NoTx}]]
  BY DEF Init
<1>4. responses \in [Event -> [Peer -> Payment \cup {NoTx}]]
  BY DEF Init, NoResponse
<1> QED
  BY <1>1, <1>2, <1>3, <1>4 DEF Init, TypeOK, EventStatus, RowStatus

LEMMA GotoType ==
  ASSUME handler \in [Handler -> Running \cup {Idle}],
         NEW h \in Handler, handler[h] \in Running,
         NEW pc \in {"verify", "lookUp", "insert", "status"}, Goto(h, pc)
  PROVE  handler' \in [Handler -> Running \cup {Idle}]
<1>1. [handler[h] EXCEPT !.pc = pc] \in Running
  BY DEF Running
<1>2. handler' = [handler EXCEPT ![h] = [handler[h] EXCEPT !.pc = pc]]
  BY DEF Goto
<1> QED
  BY <1>1, <1>2

LEMMA ReturnType ==
  ASSUME handler \in [Handler -> Running \cup {Idle}], NEW h \in Handler, Return(h)
  PROVE  handler' \in [Handler -> Running \cup {Idle}]
  BY DEF Return

LEMMA TypeStep == TypeOK /\ [Next]_vars => TypeOK'
<1> SUFFICES ASSUME TypeOK, [Next]_vars PROVE TypeOK'
  OBVIOUS
<1> USE DEF TypeOK, EventStatus, RowStatus, history, net, table, work, sync
<1>1. CASE JobStep
  <2>1. CASE ActivateSync
    BY <2>1 DEF ActivateSync, JobState, At, NoResponse
  <2>2. CASE SkipEvent
    BY <2>2 DEF SkipEvent, JobState, At
  <2>3. CASE RejectEvent
    BY <2>3 DEF RejectEvent, JobState, At
  <2>4. CASE EndSyncQueue
    BY <2>4 DEF EndSyncQueue, JobState, At
  <2>5. CASE SendSyncBatch
    BY <2>5 DEF SendSyncBatch, JobState, At
  <2> QED
    BY <1>1, <2>1, <2>2, <2>3, <2>4, <2>5 DEF JobStep
<1>2. ASSUME NEW e \in Event, AddEventToQueue(e) \/ PopEvent(e) \/ TimeoutActiveSync(e)
      PROVE  TypeOK'
  <2>1. CASE AddEventToQueue(e)
    BY <2>1 DEF AddEventToQueue
  <2>2. CASE PopEvent(e)
    BY <2>2 DEF PopEvent, JobState, At
  <2>3. CASE TimeoutActiveSync(e)
    BY <2>3 DEF TimeoutActiveSync
  <2> QED
    BY <1>2, <2>1, <2>2, <2>3
<1>3. ASSUME NEW h \in Handler, NEW p \in Peer, NEW t \in Payment, HandleResponse(h, p, t)
      PROVE  TypeOK'
  BY <1>3 DEF HandleResponse, Running, Idle
<1>4. ASSUME NEW h \in Handler, RejectResponse(h) \/ CountResponse(h) \/ Settle(h)
      PROVE  TypeOK'
  <2>1. CASE RejectResponse(h)
    BY <2>1 DEF RejectResponse, Return
  <2>2. CASE CountResponse(h)
    <3>1. handler[h] \in Running
      BY <2>2 DEF CountResponse, Idle
    <3>2. handler' \in [Handler -> Running \cup {Idle}]
      BY <2>2, <3>1, GotoType, ReturnType DEF CountResponse
    <3>3. responses' \in [Event -> [Peer -> Payment \cup {NoTx}]]
      <4> DEFINE e == EventOf[handler[h].tx]
                 answered == [responses[e] EXCEPT ![handler[h].from] = handler[h].tx]
      <4>1. e \in Event /\ handler[h].from \in Peer /\ handler[h].tx \in Payment
        BY <3>1, SynchronizationAssumption DEF Running, SynchronizationAssumption
      <4>2. answered \in [Peer -> Payment \cup {NoTx}]
        BY <4>1
      <4>3. responses' = responses \/ responses' = [responses EXCEPT ![e] = answered]
        BY <2>2 DEF CountResponse
      <4> HIDE DEF e, answered
      <4> QED
        BY <4>1, <4>2, <4>3
    <3> QED
      BY <2>2, <3>2, <3>3 DEF CountResponse
  <2>3. CASE Settle(h)
    <3>1. handler[h] \in Running
      BY <2>3 DEF Settle, LookUpTx, InsertCompletedTx, FinishSync, Idle
    <3>2. EventOf[handler[h].tx] \in Event
      BY <3>1, SynchronizationAssumption DEF Running, SynchronizationAssumption
    <3>3. CASE LookUpTx(h)
      <4>1. handler' \in [Handler -> Running \cup {Idle}]
        BY <3>1, <3>3, GotoType, ReturnType DEF LookUpTx
      <4>2. sem' \in Handler \cup {NoHandler}
        BY <3>3 DEF LookUpTx
      <4> QED
        BY <3>3, <4>1, <4>2 DEF LookUpTx
    <3>4. CASE InsertCompletedTx(h)
      <4>1. handler' \in [Handler -> Running \cup {Idle}]
        BY <3>1, <3>4, GotoType, ReturnType DEF InsertCompletedTx
      <4>2. sem' \in Handler \cup {NoHandler}
        BY <3>4 DEF InsertCompletedTx
      <4>3. row' \in [Payment -> RowStatus] /\ synced' \in SUBSET Payment
        BY <3>1, <3>4 DEF InsertCompletedTx, Running
      <4> QED
        BY <3>4, <4>1, <4>2, <4>3 DEF InsertCompletedTx
    <3>5. CASE FinishSync(h)
      BY <3>1, <3>2, <3>5 DEF FinishSync, Return
    <3> QED
      BY <2>3, <3>3, <3>4, <3>5 DEF Settle
  <2> QED
    BY <1>4, <2>1, <2>2, <2>3
<1>5. ASSUME NEW p \in Peer, NEW t \in Payment, PeerCompletes(p, t)
      PROVE  TypeOK'
  BY <1>5, SynchronizationAssumption DEF PeerCompletes, SynchronizationAssumption
<1>6. ASSUME NEW p \in Peer, NEW e \in Event, ProcessSyncRequest(p, e)
      PROVE  TypeOK'
  BY <1>6 DEF ProcessSyncRequest
<1>7. ASSUME LoseMemory, status' = status, row' \in [Payment -> RowStatus]
      PROVE  TypeOK'
  BY <1>7 DEF LoseMemory, NoResponse, JobState, At
<1>8. ASSUME NEW t \in Payment, Approve(t) \/ Complete(t) \/ Invalidate(t) \/ CrashInApproval(t)
      PROVE  TypeOK'
  <2>1. EventOf[t] \in Event
    BY SynchronizationAssumption DEF SynchronizationAssumption
  <2>2. CASE Approve(t)
    BY <2>1, <2>2 DEF Approve
  <2>3. CASE Complete(t)
    BY <2>1, <2>3 DEF Complete
  <2>4. CASE Invalidate(t)
    BY <2>1, <2>4 DEF Invalidate
  <2>5. CASE CrashInApproval(t)
    BY <2>5, <1>7 DEF CrashInApproval
  <2> QED
    BY <1>8, <2>2, <2>3, <2>4, <2>5
<1>9. ASSUME NEW e \in Event, LeavePending(e) \/ Requeue(e) \/ BeginPayment(e) \/ Reward(e)
      PROVE  TypeOK'
  BY <1>9 DEF LeavePending, Requeue, BeginPayment, Reward
<1>10. CASE EndPayment
  BY <1>10 DEF EndPayment
<1>11. CASE FailPayment
  BY <1>11 DEF FailPayment
<1>12. CASE Crash
  BY <1>7, <1>12 DEF Crash
<1>13. CASE UNCHANGED vars
  BY <1>13 DEF vars
<1> QED
  BY <1>1, <1>2, <1>3, <1>4, <1>5, <1>6, <1>8, <1>9, <1>10, <1>11, <1>12, <1>13 DEF Next

\* Every variable keeps its type.
THEOREM TypeCorrect == Spec => []TypeOK
<1>1. QED
  BY TypeInit, TypeStep, PTL DEF Spec

-----------------------------------------------------------------------------
(* Which actions write what.                                               *)

LEMMA WritesCompleted ==
  [Next]_vars => \/ UNCHANGED completed
                 \/ \E p \in Peer, t \in Payment : PeerCompletes(p, t)
  BY DEF Next, JobStep, Settle, ActivateSync, SkipEvent, RejectEvent, EndSyncQueue,
         SendSyncBatch, AddEventToQueue, PopEvent, TimeoutActiveSync, HandleResponse,
         RejectResponse, CountResponse, LookUpTx, InsertCompletedTx, FinishSync,
         ProcessSyncRequest, Approve, Complete, Invalidate, CrashInApproval,
         LeavePending, Requeue, BeginPayment, Reward, EndPayment, FailPayment, Crash,
         LoseMemory, vars, net

LEMMA WritesAnswers ==
  [Next]_vars => \/ UNCHANGED answers
                 \/ \E p \in Peer, e \in Event : ProcessSyncRequest(p, e)
  BY DEF Next, JobStep, Settle, ActivateSync, SkipEvent, RejectEvent, EndSyncQueue,
         SendSyncBatch, AddEventToQueue, PopEvent, TimeoutActiveSync, HandleResponse,
         RejectResponse, CountResponse, LookUpTx, InsertCompletedTx, FinishSync,
         PeerCompletes, Approve, Complete, Invalidate, CrashInApproval,
         LeavePending, Requeue, BeginPayment, Reward, EndPayment, FailPayment, Crash,
         LoseMemory, vars, net

LEMMA WritesResponses ==
  [Next]_vars => \/ UNCHANGED responses
                 \/ ActivateSync \/ LoseMemory
                 \/ \E h \in Handler : CountResponse(h)
  BY DEF Next, JobStep, Settle, SkipEvent, RejectEvent, EndSyncQueue,
         SendSyncBatch, AddEventToQueue, PopEvent, TimeoutActiveSync, HandleResponse,
         RejectResponse, LookUpTx, InsertCompletedTx, FinishSync, PeerCompletes,
         ProcessSyncRequest, Approve, Complete, Invalidate, CrashInApproval,
         LeavePending, Requeue, BeginPayment, Reward, EndPayment, FailPayment, Crash,
         vars, sync

LEMMA WritesHandler ==
  [Next]_vars =>
    \/ UNCHANGED handler \/ LoseMemory
    \/ \E h \in Handler : \/ \E p \in Peer, t \in Payment : HandleResponse(h, p, t)
                          \/ RejectResponse(h) \/ CountResponse(h) \/ LookUpTx(h)
                          \/ InsertCompletedTx(h) \/ FinishSync(h)
  BY DEF Next, JobStep, Settle, ActivateSync, SkipEvent, RejectEvent, EndSyncQueue,
         SendSyncBatch, AddEventToQueue, PopEvent, TimeoutActiveSync,
         PeerCompletes, ProcessSyncRequest, Approve, Complete, Invalidate,
         CrashInApproval, LeavePending, Requeue, BeginPayment, Reward, EndPayment,
         FailPayment, Crash, vars, work

LEMMA WritesSynced ==
  [Next]_vars => \/ UNCHANGED synced
                 \/ \E h \in Handler : InsertCompletedTx(h)
  BY DEF Next, JobStep, Settle, ActivateSync, SkipEvent, RejectEvent, EndSyncQueue,
         SendSyncBatch, AddEventToQueue, PopEvent, TimeoutActiveSync, HandleResponse,
         RejectResponse, CountResponse, LookUpTx, FinishSync, PeerCompletes,
         ProcessSyncRequest, Approve, Complete, Invalidate, CrashInApproval,
         LeavePending, Requeue, BeginPayment, Reward, EndPayment, FailPayment, Crash,
         LoseMemory, vars, history

-----------------------------------------------------------------------------
(* SyncedByPeers.  Whatever is on its way, an answer, a response, a call,   *)
(* says what the peer's table says; tables of peers only grow.              *)

Approved(t) == Cardinality(Approvers(t)) >= RequiredApproval

PeersTrue == \A p \in Peer, e \in Event : completed[p][e] # NoTx =>
  completed[p][e] \in OnChain /\ EventOf[completed[p][e]] = e

AnswersTrue == \A p \in Peer, t \in Payment : <<p, t>> \in answers =>
  completed[p][EventOf[t]] = t

ResponsesTrue == \A p \in Peer, e \in Event : responses[e][p] # NoTx =>
  completed[p][e] = responses[e][p]

CallsTrue == \A h \in Handler : handler[h] # Idle =>
  completed[handler[h].from][EventOf[handler[h].tx]] = handler[h].tx

CallsApproved == \A h \in Handler : handler[h].pc \in Storing => Approved(handler[h].tx)

PeerInv ==
  /\ PeersTrue /\ AnswersTrue /\ ResponsesTrue /\ CallsTrue /\ CallsApproved
  /\ SyncedByPeers

\* a running call has its payment and its peer
LEMMA CallFacts ==
  ASSUME TypeOK, NEW h \in Handler, handler[h].pc # "idle"
  PROVE  /\ handler[h].tx \in Payment /\ handler[h].from \in Peer
         /\ EventOf[handler[h].tx] \in Event /\ handler[h] # Idle
  BY SynchronizationAssumption DEF SynchronizationAssumption, TypeOK, Running, Idle

LEMMA IdleOrRunning ==
  ASSUME TypeOK, NEW h \in Handler, handler[h] # Idle
  PROVE  handler[h].pc # "idle"
  BY DEF TypeOK, Running, Idle

\* what a peer has completed, it has completed
LEMMA PeersKeep ==
  ASSUME TypeOK, [Next]_vars, NEW p \in Peer, NEW e \in Event, completed[p][e] # NoTx
  PROVE  completed'[p][e] = completed[p][e]
<1>1. CASE UNCHANGED completed
  BY <1>1
<1>2. ASSUME NEW q \in Peer, NEW t \in Payment, PeerCompletes(q, t)
      PROVE  completed'[p][e] = completed[p][e]
  BY <1>2, SynchronizationAssumption DEF PeerCompletes, TypeOK, SynchronizationAssumption
<1> QED
  BY <1>1, <1>2, WritesCompleted

LEMMA ApprovedKept ==
  ASSUME TypeOK, [Next]_vars, NEW t \in Payment, Approved(t)
  PROVE  Approved(t)'
<1>1. EventOf[t] \in Event /\ t # NoTx
  BY SynchronizationAssumption DEF SynchronizationAssumption
<1>2. Approvers(t) \subseteq Approvers(t)'
  BY <1>1, PeersKeep DEF Approvers
<1>3. IsFiniteSet(Approvers(t)')
  BY FS_Subset, SynchronizationAssumption DEF Approvers, SynchronizationAssumption
<1>4. IsFiniteSet(Approvers(t))
  BY FS_Subset, SynchronizationAssumption DEF Approvers, SynchronizationAssumption
<1>5. Cardinality(Approvers(t)) <= Cardinality(Approvers(t)')
  BY <1>2, <1>3, FS_Subset
<1>6. Cardinality(Approvers(t)) \in Nat /\ Cardinality(Approvers(t)') \in Nat
  BY <1>3, <1>4, FS_CardinalityType
<1> QED
  BY <1>5, <1>6, SynchronizationAssumption DEF Approved, SynchronizationAssumption

\* With one payment on the chain, counting responses counts approvals.
LEMMA CountIsApproval ==
  ASSUME OneOnChain, TypeOK, PeersTrue, ResponsesTrue, CallsTrue,
         NEW h \in Handler, CountResponse(h), handler'[h].pc \in Storing
  PROVE  /\ Approved(handler[h].tx)
         /\ handler'[h].tx = handler[h].tx
<1> DEFINE t == handler[h].tx
           e == EventOf[t]
           answered == [responses[e] EXCEPT ![handler[h].from] = t]
<1>1. /\ t \in Payment /\ handler[h].from \in Peer /\ e \in Event /\ handler[h] # Idle
      /\ handler[h].pc = "verify"
  BY CallFacts DEF CountResponse
<1>2. /\ Occurrences(answered) >= RequiredApproval
      /\ Goto(h, "lookUp")
  BY <1>1 DEF CountResponse, Return, Storing, Idle, TypeOK
<1>3. completed[handler[h].from][e] = t
  BY <1>1 DEF CallsTrue
<1>4. t \in OnChain
  BY <1>1, <1>3, SynchronizationAssumption DEF PeersTrue, SynchronizationAssumption
<1>5. ASSUME NEW p \in Peer, answered[p] # NoTx PROVE completed[p][e] = t
  <2>1. completed[p][e] = answered[p]
    BY <1>1, <1>3, <1>5 DEF ResponsesTrue, TypeOK
  <2>2. completed[p][e] \in OnChain /\ EventOf[completed[p][e]] = e
    BY <1>1, <1>5, <2>1 DEF PeersTrue
  <2> QED
    BY <1>4, <2>2 DEF OneOnChain
<1>6. {p \in Peer : answered[p] # NoTx} \subseteq Approvers(t)
  BY <1>5 DEF Approvers
<1>7. IsFiniteSet(Approvers(t)) /\ IsFiniteSet({p \in Peer : answered[p] # NoTx})
  BY FS_Subset, SynchronizationAssumption DEF Approvers, SynchronizationAssumption
<1>8. /\ Cardinality({p \in Peer : answered[p] # NoTx}) <= Cardinality(Approvers(t))
      /\ Cardinality({p \in Peer : answered[p] # NoTx}) \in Nat
      /\ Cardinality(Approvers(t)) \in Nat
  BY <1>6, <1>7, FS_Subset, FS_CardinalityType
<1>9. Approved(t)
  <2> HIDE DEF answered, t
  <2> QED
    BY <1>2, <1>8, SynchronizationAssumption DEF Approved, Occurrences, SynchronizationAssumption
<1>10. handler'[h].tx = t
  BY <1>1, <1>2 DEF Goto, TypeOK, Running
<1> QED
  BY <1>9, <1>10

LEMMA PeerInit == Init => PeerInv
  BY DEF Init, PeerInv, PeersTrue, AnswersTrue, ResponsesTrue, CallsTrue, CallsApproved,
         SyncedByPeers, NoResponse, Idle, Storing

LEMMA PeersStep == TypeOK /\ PeersTrue /\ [Next]_vars => PeersTrue'
<1> SUFFICES ASSUME TypeOK, PeersTrue, [Next]_vars PROVE PeersTrue'
  OBVIOUS
<1>1. CASE UNCHANGED completed
  BY <1>1 DEF PeersTrue
<1>2. ASSUME NEW p \in Peer, NEW t \in Payment, PeerCompletes(p, t)
      PROVE  PeersTrue'
  BY <1>2, SynchronizationAssumption
  DEF PeersTrue, PeerCompletes, TypeOK, SynchronizationAssumption
<1> QED
  BY <1>1, <1>2, WritesCompleted

LEMMA AnswersStep == TypeOK /\ PeersTrue /\ AnswersTrue /\ [Next]_vars => AnswersTrue'
<1> SUFFICES ASSUME TypeOK, PeersTrue, AnswersTrue, [Next]_vars,
                    NEW p \in Peer, NEW t \in Payment, <<p, t>> \in answers'
             PROVE  completed'[p][EventOf[t]] = t
  BY DEF AnswersTrue
<1>1. EventOf[t] \in Event /\ t # NoTx
  BY SynchronizationAssumption DEF SynchronizationAssumption
<1>2. CASE <<p, t>> \in answers
  BY <1>1, <1>2, PeersKeep DEF AnswersTrue
<1>3. ASSUME NEW q \in Peer, NEW e \in Event, ProcessSyncRequest(q, e), <<p, t>> \notin answers
      PROVE  completed'[p][EventOf[t]] = t
  <2>1. p = q /\ t = completed[q][e] /\ completed[q][e] # NoTx
    BY <1>3 DEF ProcessSyncRequest
  <2>2. EventOf[t] = e
    BY <2>1 DEF PeersTrue
  <2> QED
    BY <1>1, <2>1, <2>2, PeersKeep
<1> QED
  BY <1>2, <1>3, WritesAnswers

LEMMA ResponsesStep ==
  TypeOK /\ ResponsesTrue /\ CallsTrue /\ [Next]_vars => ResponsesTrue'
<1> SUFFICES ASSUME TypeOK, ResponsesTrue, CallsTrue, [Next]_vars,
                    NEW p \in Peer, NEW e \in Event, responses'[e][p] # NoTx
             PROVE  completed'[p][e] = responses'[e][p]
  BY DEF ResponsesTrue
<1>1. CASE responses'[e][p] = responses[e][p]
  BY <1>1, PeersKeep DEF ResponsesTrue
<1>2. CASE ActivateSync
  BY <1>1, <1>2 DEF ActivateSync, NoResponse, TypeOK
<1>3. CASE LoseMemory
  BY <1>3 DEF LoseMemory, NoResponse
<1>4. ASSUME NEW h \in Handler, CountResponse(h)
      PROVE  completed'[p][e] = responses'[e][p]
  <2>1. /\ handler[h].tx \in Payment /\ handler[h].from \in Peer
        /\ EventOf[handler[h].tx] \in Event /\ handler[h] # Idle
    BY <1>4, CallFacts DEF CountResponse
  <2>2. \/ responses'[e][p] = responses[e][p]
        \/ /\ e = EventOf[handler[h].tx] /\ p = handler[h].from
           /\ responses'[e][p] = handler[h].tx
    BY <1>4, <2>1 DEF CountResponse, TypeOK
  <2>3. completed[handler[h].from][EventOf[handler[h].tx]] = handler[h].tx
    BY <2>1 DEF CallsTrue
  <2> QED
    BY <1>1, <2>1, <2>2, <2>3, PeersKeep
<1> QED
  BY <1>1, <1>2, <1>3, <1>4, WritesResponses

LEMMA CallsStep == TypeOK /\ AnswersTrue /\ CallsTrue /\ [Next]_vars => CallsTrue'
<1> SUFFICES ASSUME TypeOK, AnswersTrue, CallsTrue, [Next]_vars,
                    NEW g \in Handler, handler'[g] # Idle
             PROVE  completed'[handler'[g].from][EventOf[handler'[g].tx]] = handler'[g].tx
  BY DEF CallsTrue
<1>1. ASSUME handler[g] # Idle, handler'[g].tx = handler[g].tx,
             handler'[g].from = handler[g].from
      PROVE  completed'[handler'[g].from][EventOf[handler'[g].tx]] = handler'[g].tx
  <2>1. /\ handler[g].tx \in Payment /\ handler[g].from \in Peer
        /\ EventOf[handler[g].tx] \in Event /\ handler[g].tx # NoTx
    BY <1>1, IdleOrRunning, CallFacts, SynchronizationAssumption DEF SynchronizationAssumption
  <2> QED
    BY <1>1, <2>1, PeersKeep DEF CallsTrue
<1>2. CASE UNCHANGED handler
  BY <1>1, <1>2
<1>3. CASE LoseMemory
  BY <1>3 DEF LoseMemory
<1>4. ASSUME NEW h \in Handler, NEW p \in Peer, NEW t \in Payment, HandleResponse(h, p, t)
      PROVE  completed'[handler'[g].from][EventOf[handler'[g].tx]] = handler'[g].tx
  <2>1. CASE g = h
    <3>1. handler'[g].tx = t /\ handler'[g].from = p /\ <<p, t>> \in answers
      BY <1>4, <2>1 DEF HandleResponse, TypeOK
    <3>2. completed[p][EventOf[t]] = t /\ t # NoTx /\ EventOf[t] \in Event
      BY <3>1, SynchronizationAssumption DEF AnswersTrue, SynchronizationAssumption
    <3> QED
      BY <3>1, <3>2, PeersKeep
  <2>2. CASE g # h
    BY <1>1, <1>4, <2>2 DEF HandleResponse, TypeOK
  <2> QED
    BY <2>1, <2>2
<1>5. ASSUME NEW h \in Handler, handler[h] \in Running, NEW pc, Goto(h, pc) \/ Return(h)
      PROVE  completed'[handler'[g].from][EventOf[handler'[g].tx]] = handler'[g].tx
  <2>1. handler[g] # Idle
    BY <1>5 DEF Goto, Return, TypeOK, Running, Idle
  <2>2. handler'[g].tx = handler[g].tx /\ handler'[g].from = handler[g].from
    BY <1>5 DEF Goto, Return, TypeOK, Running
  <2> QED
    BY <1>1, <2>1, <2>2
<1>6. ASSUME NEW h \in Handler, RejectResponse(h) \/ CountResponse(h) \/ LookUpTx(h)
                                \/ InsertCompletedTx(h) \/ FinishSync(h)
      PROVE  /\ handler[h] \in Running
             /\ \E pc : Goto(h, pc) \/ Return(h)
  <2>1. handler[h].pc # "idle"
    BY <1>6 DEF RejectResponse, CountResponse, LookUpTx, InsertCompletedTx, FinishSync
  <2>2. handler[h] \in Running
    BY <2>1 DEF TypeOK, Idle
  <2> QED
    BY <1>6, <2>2 DEF RejectResponse, CountResponse, LookUpTx, InsertCompletedTx, FinishSync
<1> QED
  BY <1>2, <1>3, <1>4, <1>5, <1>6, WritesHandler

LEMMA CallsApprovedStep ==
  ASSUME OneOnChain
  PROVE  TypeOK /\ PeersTrue /\ ResponsesTrue /\ CallsTrue /\ CallsApproved /\ [Next]_vars
           => CallsApproved'
<1> SUFFICES ASSUME TypeOK, PeersTrue, ResponsesTrue, CallsTrue, CallsApproved, [Next]_vars,
                    NEW g \in Handler, handler'[g].pc \in Storing,
                    NEW t, t = handler'[g].tx
             PROVE  Approved(t)'
  BY DEF CallsApproved, Approved, Approvers
<1>1. ASSUME handler[g].pc \in Storing, handler'[g].tx = handler[g].tx
      PROVE  Approved(t)'
  <2>1. handler[g].tx \in Payment
    BY <1>1, CallFacts DEF Storing
  <2>2. Approved(handler[g].tx)
    BY <1>1 DEF CallsApproved
  <2> QED
    BY <1>1, <2>1, <2>2, ApprovedKept
<1>2. CASE UNCHANGED handler
  BY <1>1, <1>2
<1>3. CASE LoseMemory
  BY <1>3 DEF LoseMemory, Idle, Storing
<1>4. ASSUME NEW h \in Handler, NEW p \in Peer, NEW u \in Payment, HandleResponse(h, p, u)
      PROVE  Approved(t)'
  BY <1>1, <1>4 DEF HandleResponse, TypeOK, Storing
<1>5. ASSUME NEW h \in Handler, RejectResponse(h)
      PROVE  Approved(t)'
  BY <1>1, <1>5 DEF RejectResponse, Return, TypeOK, Idle, Storing
<1>6. ASSUME NEW h \in Handler, CountResponse(h)
      PROVE  Approved(t)'
  <2>1. CASE g = h
    <3>1. Approved(handler[h].tx) /\ handler'[h].tx = handler[h].tx
      BY <1>6, <2>1, CountIsApproval
    <3>2. handler[h].tx \in Payment
      BY <1>6, CallFacts DEF CountResponse
    <3> QED
      BY <2>1, <3>1, <3>2, ApprovedKept
  <2>2. CASE g # h
    BY <1>1, <1>6, <2>2 DEF CountResponse, Goto, Return, TypeOK
  <2> QED
    BY <2>1, <2>2
<1>7. ASSUME NEW h \in Handler, LookUpTx(h) \/ InsertCompletedTx(h) \/ FinishSync(h)
      PROVE  Approved(t)'
  <2>1. handler[h].pc \in Storing
    BY <1>7 DEF LookUpTx, InsertCompletedTx, FinishSync, Storing
  <2>2. \/ Return(h)
        \/ Goto(h, "insert") \/ Goto(h, "status")
    BY <1>7 DEF LookUpTx, InsertCompletedTx, FinishSync
  <2>3. handler[g].pc \in Storing /\ handler'[g].tx = handler[g].tx
    BY <2>1, <2>2 DEF Goto, Return, TypeOK, Idle, Storing, Running
  <2> QED
    BY <1>1, <2>3
<1> QED
  BY <1>2, <1>3, <1>4, <1>5, <1>6, <1>7, WritesHandler

LEMMA SyncedStep == TypeOK /\ CallsApproved /\ SyncedByPeers /\ [Next]_vars => SyncedByPeers'
<1> SUFFICES ASSUME TypeOK, CallsApproved, SyncedByPeers, [Next]_vars, NEW t \in synced'
             PROVE  Approved(t)'
  BY DEF SyncedByPeers, Approved
<1>1. ASSUME t \in synced PROVE Approved(t)'
  <2>1. t \in Payment
    BY <1>1 DEF TypeOK
  <2> QED
    BY <1>1, <2>1, ApprovedKept DEF SyncedByPeers, Approved
<1>2. ASSUME NEW h \in Handler, InsertCompletedTx(h), t \notin synced PROVE Approved(t)'
  <2>1. t = handler[h].tx /\ handler[h].pc \in Storing
    BY <1>2 DEF InsertCompletedTx, Storing
  <2>2. t \in Payment
    BY <2>1, CallFacts DEF Storing
  <2> QED
    BY <2>1, <2>2, ApprovedKept DEF CallsApproved
<1> QED
  BY <1>1, <1>2, WritesSynced

\* As long as the chain confirms one payment of an event, a payment that is
\* stored by synchronisation was completed by requiredApproval guards.
THEOREM SyncedByQuorum ==
  ASSUME OneOnChain
  PROVE  Spec => []SyncedByPeers
<1>1. Init => PeerInv
  BY PeerInit
<1>2. TypeOK /\ PeerInv /\ [Next]_vars => PeerInv'
  BY PeersStep, AnswersStep, ResponsesStep, CallsStep, CallsApprovedStep, SyncedStep DEF PeerInv
<1>3. PeerInv => SyncedByPeers
  BY DEF PeerInv
<1> QED
  BY <1>1, <1>2, <1>3, TypeCorrect, PTL DEF Spec

-----------------------------------------------------------------------------
(* PaidBeforeReward.  Completed payments stay, and a call that is about to  *)
(* move the event on has stored one.                                        *)

LEMMA WritesRow ==
  [Next]_vars =>
    \/ UNCHANGED row
    \/ \E h \in Handler : InsertCompletedTx(h)
    \/ \E t \in Payment : Approve(t) \/ Complete(t) \/ Invalidate(t) \/ CrashInApproval(t)
  BY DEF Next, JobStep, Settle, ActivateSync, SkipEvent, RejectEvent, EndSyncQueue,
         SendSyncBatch, AddEventToQueue, PopEvent, TimeoutActiveSync, HandleResponse,
         RejectResponse, CountResponse, LookUpTx, FinishSync, PeerCompletes,
         ProcessSyncRequest, LeavePending, Requeue, BeginPayment, Reward, EndPayment,
         FailPayment, Crash, LoseMemory, vars, table

LEMMA WritesStatus ==
  [Next]_vars =>
    \/ UNCHANGED status \/ RejectEvent \/ FailPayment
    \/ \E h \in Handler : FinishSync(h)
    \/ \E t \in Payment : Approve(t) \/ Complete(t) \/ Invalidate(t)
    \/ \E e \in Event : LeavePending(e) \/ Requeue(e) \/ Reward(e)
  BY DEF Next, JobStep, Settle, ActivateSync, SkipEvent, EndSyncQueue,
         SendSyncBatch, AddEventToQueue, PopEvent, TimeoutActiveSync, HandleResponse,
         RejectResponse, CountResponse, LookUpTx, InsertCompletedTx, PeerCompletes,
         ProcessSyncRequest, CrashInApproval, BeginPayment, EndPayment,
         Crash, LoseMemory, vars, table

LEMMA CompletedKept ==
  ASSUME TypeOK, [Next]_vars, NEW t \in Payment, row[t] = "completed"
  PROVE  row'[t] = "completed"
<1>1. CASE UNCHANGED row
  BY <1>1
<1>2. ASSUME NEW h \in Handler, InsertCompletedTx(h) PROVE row'[t] = "completed"
  BY <1>2 DEF InsertCompletedTx, TypeOK
<1>3. ASSUME NEW u \in Payment,
             Approve(u) \/ Complete(u) \/ Invalidate(u) \/ CrashInApproval(u)
      PROVE  row'[t] = "completed"
  BY <1>3 DEF Approve, Complete, Invalidate, CrashInApproval, Approvable, TypeOK
<1> QED
  BY <1>1, <1>2, <1>3, WritesRow

StatusPaid == \A h \in Handler : handler[h].pc = "status" => row[handler[h].tx] = "completed"

LEMMA StatusPaidStep == TypeOK /\ StatusPaid /\ [Next]_vars => StatusPaid'
<1> SUFFICES ASSUME TypeOK, StatusPaid, [Next]_vars,
                    NEW g \in Handler, handler'[g].pc = "status"
             PROVE  row'[handler'[g].tx] = "completed"
  BY DEF StatusPaid
<1>1. ASSUME handler[g].pc = "status", handler'[g].tx = handler[g].tx
      PROVE  row'[handler'[g].tx] = "completed"
  BY <1>1, CallFacts, CompletedKept DEF StatusPaid
<1>2. CASE UNCHANGED handler
  BY <1>1, <1>2
<1>3. CASE LoseMemory
  BY <1>3 DEF LoseMemory, Idle
<1>4. ASSUME NEW h \in Handler,
             \/ \E p \in Peer, t \in Payment : HandleResponse(h, p, t)
             \/ RejectResponse(h) \/ CountResponse(h) \/ LookUpTx(h) \/ FinishSync(h)
      PROVE  row'[handler'[g].tx] = "completed"
  <2>1. CASE \E p \in Peer, t \in Payment : HandleResponse(h, p, t)
    BY <1>1, <2>1 DEF HandleResponse, TypeOK
  <2>2. CASE Return(h)
    BY <1>1, <2>2 DEF Return, TypeOK, Idle
  <2>3. ASSUME handler[h].pc # "idle", NEW pc \in {"lookUp", "insert"}, Goto(h, pc)
        PROVE  row'[handler'[g].tx] = "completed"
    <3>1. handler[h] \in Running
      BY <2>3 DEF TypeOK, Idle
    <3>2. g # h
      BY <2>3, <3>1 DEF Goto, TypeOK, Running
    <3> QED
      BY <1>1, <2>3, <3>2 DEF Goto, TypeOK
  <2>4. \/ \E p \in Peer, t \in Payment : HandleResponse(h, p, t)
        \/ Return(h)
        \/ handler[h].pc # "idle" /\ (Goto(h, "lookUp") \/ Goto(h, "insert"))
    BY <1>4 DEF RejectResponse, CountResponse, LookUpTx, FinishSync
  <2> QED
    BY <2>1, <2>2, <2>3, <2>4
<1>5. ASSUME NEW h \in Handler, InsertCompletedTx(h)
      PROVE  row'[handler'[g].tx] = "completed"
  <2>1. CASE g = h
    <3>1. handler[h].tx \in Payment /\ handler[h] \in Running
      BY <1>5, CallFacts DEF InsertCompletedTx, TypeOK
    <3>2. /\ row' = [row EXCEPT ![handler[h].tx] = "completed"]
          /\ Goto(h, "status")
      BY <1>5, <2>1 DEF InsertCompletedTx, Return, TypeOK, Idle
    <3>3. handler'[h].tx = handler[h].tx
      BY <3>1, <3>2 DEF Goto, TypeOK, Running
    <3> QED
      BY <2>1, <3>1, <3>2, <3>3 DEF TypeOK
  <2>2. CASE g # h
    BY <1>1, <1>5, <2>2 DEF InsertCompletedTx, Goto, Return, TypeOK
  <2> QED
    BY <2>1, <2>2
<1> QED
  BY <1>2, <1>3, <1>4, <1>5, WritesHandler

LEMMA PaidStep == TypeOK /\ StatusPaid /\ PaidBeforeReward /\ [Next]_vars => PaidBeforeReward'
<1> SUFFICES ASSUME TypeOK, StatusPaid, PaidBeforeReward, [Next]_vars,
                    NEW e \in Event, status'[e] \in RewardStage
             PROVE  \E t \in PaymentsOf(e) : row'[t] = "completed"
  BY DEF PaidBeforeReward, PaymentsOf
<1> USE DEF PaymentsOf
<1>1. CASE status[e] \in RewardStage
  BY <1>1, CompletedKept DEF PaidBeforeReward
<1>2. ASSUME NEW h \in Handler, FinishSync(h), status[e] \notin RewardStage
      PROVE  \E t \in PaymentsOf(e) : row'[t] = "completed"
  <2>1. handler[h].tx \in Payment /\ row[handler[h].tx] = "completed"
    BY <1>2, CallFacts DEF FinishSync, StatusPaid
  <2>2. EventOf[handler[h].tx] = e
    BY <1>2 DEF FinishSync, TypeOK
  <2> QED
    BY <2>1, <2>2, CompletedKept
<1>3. ASSUME NEW t \in Payment, Complete(t), status[e] \notin RewardStage
      PROVE  \E u \in PaymentsOf(e) : row'[u] = "completed"
  BY <1>3 DEF Complete, TypeOK
<1>4. ASSUME \/ UNCHANGED status \/ RejectEvent \/ FailPayment
             \/ \E t \in Payment : Approve(t) \/ Invalidate(t)
             \/ \E d \in Event : LeavePending(d) \/ Requeue(d) \/ Reward(d)
      PROVE  status[e] \in RewardStage
  BY <1>4 DEF RejectEvent, FailPayment, Approve, Invalidate, LeavePending, Requeue, Reward,
              TypeOK, RewardStage
<1> QED
  BY <1>1, <1>2, <1>3, <1>4, WritesStatus

\* An event is in its reward stage only with a completed payment.
THEOREM PaidFirst == Spec => []PaidBeforeReward
<1>1. Init => StatusPaid /\ PaidBeforeReward
  BY DEF Init, StatusPaid, PaidBeforeReward, Idle, RewardStage
<1> QED
  BY <1>1, StatusPaidStep, PaidStep, TypeCorrect, PTL DEF Spec

-----------------------------------------------------------------------------
(* OneHeldPayment, SyncedGoesOn, FinishedStays: as long as nothing crashed,  *)
(* synchronisation and the rest of the guard stay out of each other's way.   *)

\* synchronisation has to do with the event
Busy(e) ==
  \/ queue[e] > 0 \/ e \in active \/ job.event = e
  \/ \E h \in Handler : handler[h] # Idle /\ EventOf[handler[h].tx] = e

\* it begins when a peer has the payment and this guard works on none, and
\* then this guard agrees to none any more
BusyPaid == \A e \in Event : Busy(e) =>
  Paid(e) /\ \A t \in PaymentsOf(e) : row[t] # "valid"

Exclusive == \A h \in Handler : handler[h].pc \in Storing => sem = h

ValidInPayment == \A t \in Payment : row[t] = "valid" => status[EventOf[t]] = "inPayment"

CompletedOnChain == \A t \in Payment : row[t] = "completed" => t \in OnChain

ProcessingPending == processing # NoEvent =>
  status[processing] \in {"pendingPayment", "aside"}

\* the event waits for a call that has stored its payment
StoredWaits == \A h \in Handler : handler[h].pc = "status" =>
  status[EventOf[handler[h].tx]] \notin RewardStage

CleanInv == crashes = 0 =>
  /\ BusyPaid /\ Exclusive /\ ValidInPayment /\ CompletedOnChain
  /\ ProcessingPending /\ StoredWaits
  /\ OneHeldPayment /\ SyncedGoesOn

LEMMA WritesQueue ==
  [Next]_vars =>
    UNCHANGED queue \/ LoseMemory \/ \E e \in Event : AddEventToQueue(e) \/ PopEvent(e)
  BY DEF Next, JobStep, Settle, ActivateSync, SkipEvent, RejectEvent, EndSyncQueue,
         SendSyncBatch, TimeoutActiveSync, HandleResponse, RejectResponse, CountResponse,
         LookUpTx, InsertCompletedTx, FinishSync, PeerCompletes, ProcessSyncRequest,
         Approve, Complete, Invalidate, CrashInApproval, LeavePending, Requeue,
         BeginPayment, Reward, EndPayment, FailPayment, Crash, vars, sync

LEMMA WritesActive ==
  [Next]_vars =>
    \/ UNCHANGED active \/ LoseMemory \/ ActivateSync
    \/ \E h \in Handler : FinishSync(h)
    \/ \E e \in Event : TimeoutActiveSync(e)
  BY DEF Next, JobStep, Settle, SkipEvent, RejectEvent, EndSyncQueue, SendSyncBatch,
         AddEventToQueue, PopEvent, HandleResponse, RejectResponse, CountResponse,
         LookUpTx, InsertCompletedTx, PeerCompletes, ProcessSyncRequest,
         Approve, Complete, Invalidate, CrashInApproval, LeavePending, Requeue,
         BeginPayment, Reward, EndPayment, FailPayment, Crash, vars, sync

LEMMA WritesJob ==
  [Next]_vars =>
    UNCHANGED job \/ LoseMemory \/ JobStep \/ \E e \in Event : PopEvent(e)
  BY DEF Next, Settle, AddEventToQueue, TimeoutActiveSync, HandleResponse,
         RejectResponse, CountResponse, LookUpTx, InsertCompletedTx, FinishSync,
         PeerCompletes, ProcessSyncRequest, Approve, Complete, Invalidate,
         CrashInApproval, LeavePending, Requeue, BeginPayment, Reward, EndPayment,
         FailPayment, Crash, vars, work

LEMMA WritesSem ==
  [Next]_vars =>
    \/ UNCHANGED sem \/ LoseMemory
    \/ \E h \in Handler : CountResponse(h) \/ LookUpTx(h) \/ InsertCompletedTx(h) \/ FinishSync(h)
  BY DEF Next, JobStep, Settle, ActivateSync, SkipEvent, RejectEvent, EndSyncQueue,
         SendSyncBatch, AddEventToQueue, PopEvent, TimeoutActiveSync, HandleResponse,
         RejectResponse, PeerCompletes, ProcessSyncRequest, Approve, Complete, Invalidate,
         CrashInApproval, LeavePending, Requeue, BeginPayment, Reward, EndPayment,
         FailPayment, Crash, vars, work

LEMMA WritesProcessing ==
  [Next]_vars =>
    \/ UNCHANGED processing \/ LoseMemory \/ EndPayment \/ FailPayment
    \/ \E e \in Event : BeginPayment(e)
  BY DEF Next, JobStep, Settle, ActivateSync, SkipEvent, RejectEvent, EndSyncQueue,
         SendSyncBatch, AddEventToQueue, PopEvent, TimeoutActiveSync, HandleResponse,
         RejectResponse, CountResponse, LookUpTx, InsertCompletedTx, FinishSync,
         PeerCompletes, ProcessSyncRequest, Approve, Complete, Invalidate,
         CrashInApproval, LeavePending, Requeue, Reward, Crash, vars

LEMMA NoCrashStep ==
  ASSUME TypeOK, [Next]_vars, crashes' = 0
  PROVE  crashes = 0 /\ ~LoseMemory
<1>1. ~LoseMemory
  BY DEF LoseMemory, TypeOK
<1>2. UNCHANGED crashes \/ LoseMemory
  BY DEF Next, JobStep, Settle, ActivateSync, SkipEvent, RejectEvent, EndSyncQueue,
         SendSyncBatch, AddEventToQueue, PopEvent, TimeoutActiveSync, HandleResponse,
         RejectResponse, CountResponse, LookUpTx, InsertCompletedTx, FinishSync,
         PeerCompletes, ProcessSyncRequest, Approve, Complete, Invalidate,
         CrashInApproval, LeavePending, Requeue, BeginPayment, Reward, EndPayment,
         FailPayment, Crash, vars, history
<1> QED
  BY <1>1, <1>2

\* Where a call comes from.
LEMMA CallOrigin ==
  ASSUME TypeOK, [Next]_vars, ~LoseMemory, NEW g \in Handler, handler'[g] # Idle
  PROVE  \/ /\ handler[g] # Idle /\ handler'[g].tx = handler[g].tx
            /\ \/ handler'[g] = handler[g]
               \/ handler[g].pc = "verify" /\ handler'[g].pc = "lookUp" /\ sem' = g
               \/ handler[g].pc = "lookUp" /\ handler'[g].pc = "insert" /\ UNCHANGED sem
               \/ /\ handler[g].pc = "insert" /\ handler'[g].pc = "status" /\ UNCHANGED sem
                  /\ InsertCompletedTx(g) /\ row[handler[g].tx] = "none"
         \/ handler'[g].pc = "verify" /\ EventOf[handler'[g].tx] \in active
<1>1. ASSUME NEW h \in Handler, NEW p \in Peer, NEW t \in Payment, HandleResponse(h, p, t)
      PROVE  \/ handler'[g] = handler[g]
             \/ handler'[g].pc = "verify" /\ EventOf[handler'[g].tx] \in active
  BY <1>1 DEF HandleResponse, TypeOK
<1>2. ASSUME NEW h \in Handler, Return(h) PROVE handler'[g] = handler[g]
  BY <1>2 DEF Return, TypeOK
<1>3. ASSUME NEW h \in Handler, handler[h].pc # "idle", NEW pc, Goto(h, pc), g = h
      PROVE  handler[g] # Idle /\ handler'[g].tx = handler[g].tx /\ handler'[g].pc = pc
  <2>1. handler[h] \in Running /\ handler[g] # Idle
    BY <1>3 DEF TypeOK, Idle
  <2> QED
    BY <1>3, <2>1 DEF Goto, TypeOK, Running
<1>4. ASSUME NEW h \in Handler, NEW pc, Goto(h, pc), g # h
      PROVE  handler'[g] = handler[g]
  BY <1>4 DEF Goto, TypeOK
<1>5. ASSUME NEW h \in Handler,
             RejectResponse(h) \/ CountResponse(h) \/ LookUpTx(h) \/ InsertCompletedTx(h)
               \/ FinishSync(h)
      PROVE  /\ handler[h].pc # "idle"
             /\ \/ Return(h)
                \/ handler[h].pc = "verify" /\ Goto(h, "lookUp") /\ sem' = h
                \/ handler[h].pc = "lookUp" /\ Goto(h, "insert") /\ UNCHANGED sem
                \/ /\ handler[h].pc = "insert" /\ Goto(h, "status") /\ UNCHANGED sem
                   /\ InsertCompletedTx(h) /\ row[handler[h].tx] = "none"
  BY <1>5 DEF RejectResponse, CountResponse, LookUpTx, InsertCompletedTx, FinishSync
<1>6. ASSUME NEW h \in Handler,
             RejectResponse(h) \/ CountResponse(h) \/ LookUpTx(h) \/ InsertCompletedTx(h)
               \/ FinishSync(h)
      PROVE  \/ handler'[g] = handler[g]
             \/ /\ handler[g] # Idle /\ handler'[g].tx = handler[g].tx
                /\ \/ handler[g].pc = "verify" /\ handler'[g].pc = "lookUp" /\ sem' = g
                   \/ handler[g].pc = "lookUp" /\ handler'[g].pc = "insert" /\ UNCHANGED sem
                   \/ /\ handler[g].pc = "insert" /\ handler'[g].pc = "status"
                      /\ UNCHANGED sem
                      /\ InsertCompletedTx(g) /\ row[handler[g].tx] = "none"
  <2>1. CASE g # h
    BY <1>2, <1>4, <1>5, <1>6, <2>1
  <2>2. CASE g = h
    BY <1>2, <1>3, <1>5, <1>6, <2>2
  <2> QED
    BY <2>1, <2>2
<1> QED
  BY <1>1, <1>6, WritesHandler

LEMMA BusyOrigin ==
  ASSUME TypeOK, [Next]_vars, ~LoseMemory, NEW e \in Event, Busy(e)'
  PROVE  Busy(e) \/ AddEventToQueue(e)
<1>1. ASSUME queue'[e] > 0 PROVE Busy(e) \/ AddEventToQueue(e)
  <2>1. ASSUME NEW d \in Event, AddEventToQueue(d) PROVE queue[e] > 0 \/ AddEventToQueue(e)
    BY <1>1, <2>1 DEF AddEventToQueue, TypeOK
  <2>2. ASSUME NEW d \in Event, PopEvent(d) PROVE queue[e] > 0
    BY <1>1, <2>2 DEF PopEvent, TypeOK
  <2> QED
    BY <1>1, <2>1, <2>2, WritesQueue DEF Busy
<1>2. ASSUME e \in active' PROVE Busy(e)
  <2>1. CASE ActivateSync
    BY <1>2, <2>1 DEF ActivateSync, Busy
  <2> QED
    BY <1>2, <2>1, WritesActive DEF FinishSync, TimeoutActiveSync, Busy
<1>3. ASSUME job'.event = e PROVE Busy(e)
  <2>1. NoEvent # e
    BY SynchronizationAssumption DEF SynchronizationAssumption
  <2>2. CASE JobStep
    BY <1>3, <2>1, <2>2
    DEF JobStep, ActivateSync, SkipEvent, RejectEvent, EndSyncQueue, SendSyncBatch, At
  <2>3. ASSUME NEW d \in Event, PopEvent(d) PROVE Busy(e)
    BY <1>3, <2>1, <2>3 DEF PopEvent, At, Busy
  <2> QED
    BY <1>3, <2>2, <2>3, WritesJob DEF Busy
<1>4. ASSUME NEW h \in Handler, handler'[h] # Idle, EventOf[handler'[h].tx] = e
      PROVE  Busy(e)
  BY <1>4, CallOrigin DEF Busy
<1> QED
  BY <1>1, <1>2, <1>3, <1>4 DEF Busy

LEMMA BusyPaidStep ==
  ASSUME TypeOK, BusyPaid, ValidInPayment, [Next]_vars, crashes' = 0
  PROVE  BusyPaid'
<1> SUFFICES ASSUME NEW e \in Event, Busy(e)'
             PROVE  Paid(e)' /\ \A t \in PaymentsOf(e) : row'[t] # "valid"
  BY DEF BusyPaid, PaymentsOf
<1>1. Paid(e) /\ \A t \in PaymentsOf(e) : row[t] # "valid"
  <2>1. CASE Busy(e)
    BY <2>1 DEF BusyPaid
  <2>2. CASE AddEventToQueue(e)
    BY <2>2 DEF AddEventToQueue, ValidInPayment, PaymentsOf
  <2> QED
    BY <2>1, <2>2, BusyOrigin, NoCrashStep
<1>2. Paid(e)'
  BY <1>1, PeersKeep DEF Paid
<1>3. ASSUME NEW t \in PaymentsOf(e), row'[t] = "valid" PROVE FALSE
  <2>1. row[t] # "valid" /\ t \in Payment /\ EventOf[t] = e
    BY <1>1, <1>3 DEF PaymentsOf
  <2>2. ASSUME NEW u \in Payment,
               Approve(u) \/ Complete(u) \/ Invalidate(u) \/ CrashInApproval(u)
        PROVE  FALSE
    <3>1. ~CrashInApproval(u)
      BY NoCrashStep DEF CrashInApproval
    <3>2. CASE Approve(u)
      BY <1>1, <1>3, <2>1, <3>2 DEF Approve, Approvable, TypeOK
    <3>3. CASE Complete(u) \/ Invalidate(u)
      BY <1>3, <2>1, <3>3 DEF Complete, Invalidate, TypeOK
    <3> QED
      BY <2>2, <3>1, <3>2, <3>3
  <2>3. ASSUME NEW h \in Handler, InsertCompletedTx(h) PROVE FALSE
    BY <1>3, <2>1, <2>3 DEF InsertCompletedTx, TypeOK
  <2> QED
    BY <1>3, <2>1, <2>2, <2>3, WritesRow
<1> QED
  BY <1>2, <1>3

LEMMA ExclusiveStep ==
  ASSUME TypeOK, Exclusive, [Next]_vars, ~LoseMemory
  PROVE  Exclusive'
<1> SUFFICES ASSUME NEW g \in Handler, handler'[g].pc \in Storing PROVE sem' = g
  BY DEF Exclusive
<1>1. handler'[g] # Idle /\ handler'[g].pc # "verify"
  BY DEF Storing, Idle
<1>2. CASE sem' = sem /\ handler[g].pc \in Storing
  BY <1>2 DEF Exclusive
<1>3. ASSUME handler'[g] = handler[g], NEW h \in Handler,
             CountResponse(h) \/ LookUpTx(h) \/ InsertCompletedTx(h) \/ FinishSync(h)
      PROVE  sem' = g
  <2>1. sem = g /\ g \in Handler /\ g # NoHandler
    BY <1>3, SynchronizationAssumption DEF Exclusive, SynchronizationAssumption
  <2>2. ~CountResponse(h)
    BY <2>1 DEF CountResponse
  <2>3. handler[h].pc \in Storing
    BY <1>3, <2>2 DEF LookUpTx, InsertCompletedTx, FinishSync, Storing
  <2>4. h = g
    BY <2>1, <2>3 DEF Exclusive
  <2>5. handler'[g] # handler[g]
    <3>1. handler[h].pc # "idle" /\ handler[h] \in Running
      BY <2>3 DEF Storing, TypeOK, Idle
    <3>2. \/ Return(h)
          \/ handler[h].pc = "lookUp" /\ Goto(h, "insert")
          \/ handler[h].pc = "insert" /\ Goto(h, "status")
      BY <1>3, <2>2 DEF LookUpTx, InsertCompletedTx, FinishSync
    <3> QED
      BY <2>4, <3>1, <3>2 DEF Return, Goto, TypeOK, Idle, Running
  <2> QED
    BY <1>3, <2>5
<1>4. CASE handler'[g] = handler[g]
  BY <1>2, <1>3, <1>4, WritesSem
<1>5. CASE handler'[g].pc = "lookUp" /\ sem' = g
  BY <1>5
<1> QED
  BY <1>1, <1>2, <1>4, <1>5, CallOrigin DEF Storing

\* what a running call knows of its event
LEMMA CallKnows ==
  ASSUME TypeOK, PeersTrue, CallsTrue, BusyPaid, NEW h \in Handler, handler[h].pc # "idle"
  PROVE  /\ handler[h].tx \in OnChain
         /\ \A t \in PaymentsOf(EventOf[handler[h].tx]) : row[t] # "valid"
<1>1. /\ handler[h].tx \in Payment /\ handler[h].from \in Peer
      /\ EventOf[handler[h].tx] \in Event /\ handler[h] # Idle
  BY CallFacts
<1>2. completed[handler[h].from][EventOf[handler[h].tx]] = handler[h].tx
  BY <1>1 DEF CallsTrue
<1>3. handler[h].tx \in OnChain
  BY <1>1, <1>2, SynchronizationAssumption DEF PeersTrue, SynchronizationAssumption
<1> QED
  BY <1>1, <1>3 DEF BusyPaid, Busy

LEMMA ValidInPaymentStep ==
  ASSUME PromptPayment, TypeOK, PeersTrue, CallsTrue, BusyPaid, ValidInPayment,
         ProcessingPending, OneHeldPayment, [Next]_vars, crashes' = 0
  PROVE  ValidInPayment'
<1> SUFFICES ASSUME NEW t \in Payment, row'[t] = "valid"
             PROVE  status'[EventOf[t]] = "inPayment"
  BY DEF ValidInPayment
<1> DEFINE e == EventOf[t]
<1>0. e \in Event /\ crashes = 0 /\ ~LoseMemory
  BY NoCrashStep, SynchronizationAssumption DEF SynchronizationAssumption
<1>1. CASE row[t] = "valid"
  <2>1. status[e] = "inPayment"
    BY <1>1 DEF ValidInPayment
  <2>2. CASE RejectEvent
    BY <1>0, <1>1, <2>1, <2>2 DEF RejectEvent, TypeOK, PaymentsOf, Held
  <2>3. CASE FailPayment
    BY <1>0, <2>1, <2>3 DEF FailPayment, TypeOK, ProcessingPending
  <2>4. ASSUME NEW h \in Handler, FinishSync(h) PROVE status'[e] = "inPayment"
    <3>1. EventOf[handler[h].tx] # e
      BY <1>1, <2>4, CallKnows DEF FinishSync, PaymentsOf
    <3> QED
      BY <1>0, <2>1, <2>4, <3>1 DEF FinishSync, TypeOK
  <2>5. ASSUME NEW u \in Payment, Approve(u) PROVE status'[e] = "inPayment"
    BY <1>0, <2>1, <2>5 DEF Approve, TypeOK
  <2>6. ASSUME NEW u \in Payment, Complete(u) \/ Invalidate(u) PROVE status'[e] = "inPayment"
    <3>1. u # t /\ row[u] = "valid"
      BY <2>6 DEF Complete, Invalidate, TypeOK
    <3>2. EventOf[u] # e
      BY <1>0, <1>1, <3>1 DEF OneHeldPayment, Held
    <3> QED
      BY <1>0, <2>1, <2>6, <3>2 DEF Complete, Invalidate, TypeOK
  <2>7. ASSUME NEW d \in Event, LeavePending(d) \/ Requeue(d) \/ Reward(d)
        PROVE  status'[e] = "inPayment"
    BY <1>0, <2>1, <2>7 DEF LeavePending, Requeue, Reward, TypeOK
  <2> QED
    BY <2>1, <2>2, <2>3, <2>4, <2>5, <2>6, <2>7, WritesStatus
<1>2. CASE row[t] # "valid"
  <2>1. Approve(t)
    <3>1. ASSUME NEW h \in Handler, InsertCompletedTx(h) PROVE FALSE
      BY <1>2, <3>1 DEF InsertCompletedTx, TypeOK
    <3>2. ASSUME NEW u \in Payment,
                 Approve(u) \/ Complete(u) \/ Invalidate(u) \/ CrashInApproval(u)
          PROVE  Approve(t)
      BY <1>0, <1>2, <3>2 DEF Approve, Complete, Invalidate, CrashInApproval, TypeOK
    <3> QED
      BY <1>2, <3>1, <3>2, WritesRow
  <2> QED
    BY <1>0, <2>1 DEF Approve, TypeOK
<1> QED
  BY <1>1, <1>2

LEMMA CompletedOnChainStep ==
  ASSUME TypeOK, PeersTrue, CallsTrue, BusyPaid, CompletedOnChain, [Next]_vars
  PROVE  CompletedOnChain'
<1> SUFFICES ASSUME NEW t \in Payment, row'[t] = "completed", row[t] # "completed"
             PROVE  t \in OnChain
  BY DEF CompletedOnChain
<1>1. ASSUME NEW h \in Handler, InsertCompletedTx(h) PROVE t \in OnChain
  BY <1>1, CallKnows DEF InsertCompletedTx, TypeOK
<1>2. ASSUME NEW u \in Payment,
             Approve(u) \/ Complete(u) \/ Invalidate(u) \/ CrashInApproval(u)
      PROVE  t \in OnChain
  BY <1>2 DEF Approve, Complete, Invalidate, CrashInApproval, TypeOK
<1> QED
  BY <1>1, <1>2, WritesRow

LEMMA ProcessingPendingStep ==
  ASSUME PromptPayment, TypeOK, ValidInPayment, ProcessingPending, [Next]_vars, ~LoseMemory
  PROVE  ProcessingPending'
<1> SUFFICES ASSUME processing' # NoEvent
             PROVE  status'[processing'] \in {"pendingPayment", "aside"}
  BY DEF ProcessingPending
<1>1. ASSUME NEW e \in Event, BeginPayment(e)
      PROVE  status'[processing'] \in {"pendingPayment", "aside"}
  BY <1>1 DEF BeginPayment, table
<1>2. CASE UNCHANGED processing
  <2>1. status[processing] \in {"pendingPayment", "aside"} /\ processing \in Event
    BY <1>2 DEF ProcessingPending, TypeOK
  <2>2. ASSUME NEW h \in Handler, FinishSync(h)
        PROVE  status'[processing] \in {"pendingPayment", "aside"}
    BY <2>1, <2>2 DEF FinishSync, Undisturbed, TypeOK
  <2>3. ASSUME NEW t \in Payment, Approve(t) \/ Complete(t)
        PROVE  status'[processing] \in {"pendingPayment", "aside"}
    BY <2>1, <2>3 DEF Approve, Complete, Undisturbed, TypeOK
  <2>4. ASSUME NEW t \in Payment, Invalidate(t)
        PROVE  status'[processing] \in {"pendingPayment", "aside"}
    BY <2>1, <2>4 DEF Invalidate, TypeOK
  <2>5. ASSUME NEW e \in Event, LeavePending(e) \/ Requeue(e) \/ Reward(e)
        PROVE  status'[processing] \in {"pendingPayment", "aside"}
    BY <2>1, <2>5 DEF LeavePending, Requeue, Reward, TypeOK
  <2>6. CASE RejectEvent
    BY <2>1, <2>6 DEF RejectEvent, TypeOK
  <2>7. ~FailPayment
    BY <1>2, <2>1, SynchronizationAssumption DEF FailPayment, SynchronizationAssumption
  <2> QED
    BY <1>2, <2>1, <2>2, <2>3, <2>4, <2>5, <2>6, <2>7, WritesStatus
<1>3. CASE EndPayment \/ FailPayment
  BY <1>3 DEF EndPayment, FailPayment
<1> QED
  BY <1>1, <1>2, <1>3, WritesProcessing

LEMMA StoredWaitsStep ==
  ASSUME OneOnChain, PromptPayment, TypeOK, PeersTrue, CallsTrue, PaidBeforeReward,
         BusyPaid, Exclusive, CompletedOnChain, StoredWaits, [Next]_vars, ~LoseMemory
  PROVE  StoredWaits'
<1> SUFFICES ASSUME NEW g \in Handler, handler'[g].pc = "status"
             PROVE  status'[EventOf[handler'[g].tx]] \notin RewardStage
  BY DEF StoredWaits
<1> DEFINE t == handler'[g].tx
           e == EventOf[t]
<1>1. /\ handler[g].pc # "idle" /\ handler[g].tx = t
      /\ \/ handler[g].pc = "status"
         \/ handler[g].pc = "insert" /\ InsertCompletedTx(g) /\ row[t] = "none"
  BY CallOrigin, IdleOrRunning DEF Idle
<1>2. /\ t \in OnChain /\ t \in Payment /\ e \in Event
      /\ \A u \in PaymentsOf(e) : row[u] # "valid"
  BY <1>1, CallKnows, CallFacts
<1>3. CASE handler[g].pc = "insert" /\ InsertCompletedTx(g) /\ row[t] = "none"
  <2>1. status' = status
    BY <1>3 DEF InsertCompletedTx
  <2>2. ASSUME status[e] \in RewardStage PROVE FALSE
    <3>1. PICK u \in PaymentsOf(e) : row[u] = "completed"
      BY <1>2, <2>2 DEF PaidBeforeReward
    <3>2. u \in OnChain /\ EventOf[u] = e
      BY <3>1 DEF CompletedOnChain, PaymentsOf
    <3>3. u = t
      BY <1>2, <3>2 DEF OneOnChain
    <3> QED
      BY <1>3, <3>1, <3>3
  <2> QED
    BY <2>1, <2>2
<1>4. CASE handler[g].pc = "status"
  <2>1. status[e] \notin RewardStage /\ sem = g
    BY <1>1, <1>4 DEF StoredWaits, Exclusive, Storing
  <2>2. ASSUME NEW h \in Handler, FinishSync(h) PROVE FALSE
    <3>1. h = g
      BY <2>1, <2>2 DEF FinishSync, Exclusive, Storing
    <3> QED
      BY <2>2, <3>1 DEF FinishSync, Return, TypeOK, Idle
  <2>3. ASSUME NEW u \in Payment, Approve(u) \/ Complete(u) \/ Invalidate(u)
        PROVE  status'[e] \notin RewardStage
    BY <1>2, <2>1, <2>3 DEF Approve, Complete, Invalidate, TypeOK, PaymentsOf, RewardStage
  <2>4. ASSUME NEW d \in Event, LeavePending(d) \/ Requeue(d) \/ Reward(d)
        PROVE  status'[e] \notin RewardStage
    BY <1>2, <2>1, <2>4 DEF LeavePending, Requeue, Reward, TypeOK, RewardStage
  <2>5. CASE RejectEvent \/ FailPayment
    BY <1>2, <2>1, <2>5 DEF RejectEvent, FailPayment, TypeOK, RewardStage
  <2> QED
    BY <2>1, <2>2, <2>3, <2>4, <2>5, WritesStatus
<1> QED
  BY <1>1, <1>3, <1>4

LEMMA OneHeldStep ==
  ASSUME OneOnChain, TypeOK, PeersTrue, CallsTrue, BusyPaid, CompletedOnChain,
         OneHeldPayment, [Next]_vars, crashes' = 0
  PROVE  OneHeldPayment'
<1> SUFFICES ASSUME NEW t \in Payment, NEW u \in Payment, EventOf[t] = EventOf[u],
                    row'[t] \in Held, row'[u] \in Held
             PROVE  t = u
  BY DEF OneHeldPayment
<1>0. crashes = 0 /\ ~LoseMemory
  BY NoCrashStep
<1>1. CASE row[t] \in Held /\ row[u] \in Held
  BY <1>0, <1>1 DEF OneHeldPayment
<1>2. ASSUME NEW h \in Handler, InsertCompletedTx(h),
             NEW x \in Payment, NEW y \in Payment, EventOf[x] = EventOf[y],
             row[x] \notin Held, row'[x] \in Held, row[y] \in Held
      PROVE  FALSE
  <2>1. handler[h].tx = x /\ handler[h].pc # "idle"
    BY <1>2 DEF InsertCompletedTx, TypeOK
  <2>2. x \in OnChain /\ row[y] = "completed"
    BY <1>2, <2>1, CallKnows DEF PaymentsOf, Held
  <2>3. x = y
    BY <1>2, <2>2 DEF CompletedOnChain, OneOnChain
  <2> QED
    BY <1>2, <2>3
<1>3. ASSUME NEW h \in Handler, InsertCompletedTx(h), t # u,
             row[t] \notin Held, row[u] \notin Held
      PROVE  FALSE
  BY <1>3 DEF InsertCompletedTx, TypeOK
<1>4. ASSUME NEW v \in Payment, Approve(v) PROVE t = u
  BY <1>1, <1>4 DEF Approve, Approvable, TypeOK, PaymentsOf, Held
<1>5. ASSUME NEW v \in Payment, Complete(v) \/ Invalidate(v) PROVE t = u
  <2>1. row[t] \in Held /\ row[u] \in Held
    BY <1>5 DEF Complete, Invalidate, TypeOK, Held
  <2> QED
    BY <1>1, <2>1
<1>6. ASSUME NEW v \in Payment, CrashInApproval(v) PROVE FALSE
  BY <1>0, <1>6 DEF CrashInApproval
<1> QED
  BY <1>1, <1>2, <1>3, <1>4, <1>5, <1>6, WritesRow

LEMMA SyncedGoesOnStep ==
  ASSUME TypeOK, ValidInPayment, ProcessingPending, OneHeldPayment, SyncedGoesOn,
         [Next]_vars, crashes' = 0
  PROVE  SyncedGoesOn'
<1> SUFFICES ASSUME NEW t \in Payment, row'[t] = "completed",
                    status'[EventOf[t]] \notin RewardStage
             PROVE  \E h \in Handler : handler'[h].pc = "status" /\ handler'[h].tx = t
  BY DEF SyncedGoesOn
<1> DEFINE e == EventOf[t]
<1>0. e \in Event /\ crashes = 0 /\ ~LoseMemory
  BY NoCrashStep, SynchronizationAssumption DEF SynchronizationAssumption
<1>1. CASE row[t] # "completed"
  <2>1. ASSUME NEW h \in Handler, InsertCompletedTx(h)
        PROVE  handler'[h].pc = "status" /\ handler'[h].tx = t
    <3>1. handler[h].tx = t /\ Goto(h, "status") /\ handler[h] \in Running
      BY <1>1, <2>1 DEF InsertCompletedTx, TypeOK, Idle
    <3> QED
      BY <3>1 DEF Goto, TypeOK, Running
  <2>2. ASSUME NEW u \in Payment,
               Approve(u) \/ Complete(u) \/ Invalidate(u) \/ CrashInApproval(u)
        PROVE  FALSE
    BY <1>0, <1>1, <2>2
    DEF Approve, Complete, Invalidate, CrashInApproval, TypeOK, RewardStage
  <2> QED
    BY <1>1, <2>1, <2>2, WritesRow
<1>2. CASE row[t] = "completed" /\ status[e] \in RewardStage
  <2>1. ASSUME NEW u \in Payment, Approve(u) \/ Complete(u) \/ Invalidate(u) PROVE FALSE
    <3>1. EventOf[u] = e
      BY <1>0, <1>2, <2>1 DEF Approve, Complete, Invalidate, TypeOK
    <3>2. row[u] \notin Held
      BY <1>0, <1>2, <2>1, <3>1
      DEF Approve, Approvable, Complete, Invalidate, OneHeldPayment, PaymentsOf, Held
    <3>3. status[e] = "pendingPayment"
      BY <2>1, <3>1, <3>2 DEF Approve, Approvable, Complete, Invalidate, Held
    <3> QED
      BY <1>2, <3>3 DEF RewardStage
  <2>2. CASE RejectEvent
    BY <1>0, <1>2, <2>2 DEF RejectEvent, TypeOK, PaymentsOf, Held
  <2>3. CASE FailPayment
    BY <1>0, <1>2, <2>3 DEF FailPayment, TypeOK, ProcessingPending, RewardStage
  <2>4. ASSUME NEW h \in Handler, FinishSync(h) PROVE FALSE
    BY <1>0, <1>2, <2>4 DEF FinishSync, TypeOK, RewardStage
  <2>5. ASSUME NEW d \in Event, LeavePending(d) \/ Requeue(d) \/ Reward(d) PROVE FALSE
    BY <1>0, <1>2, <2>5 DEF LeavePending, Requeue, Reward, TypeOK, RewardStage
  <2> QED
    BY <1>2, <2>1, <2>2, <2>3, <2>4, <2>5, WritesStatus
<1>3. ASSUME NEW g \in Handler, handler[g].pc = "status", handler[g].tx = t
      PROVE  \E h \in Handler : handler'[h].pc = "status" /\ handler'[h].tx = t
  <2>1. ASSUME NEW h \in Handler, FinishSync(h), h = g PROVE FALSE
    BY <1>0, <1>3, <2>1 DEF FinishSync, TypeOK, RewardStage
  <2>2. ASSUME NEW h \in Handler,
               \/ \E p \in Peer, u \in Payment : HandleResponse(h, p, u)
               \/ RejectResponse(h) \/ CountResponse(h) \/ LookUpTx(h)
               \/ InsertCompletedTx(h) \/ FinishSync(h)
        PROVE  handler'[g] = handler[g]
    <3>0. handler[h].pc # "status" \/ FinishSync(h)
      <4>1. CASE \E p \in Peer, u \in Payment : HandleResponse(h, p, u)
        BY <4>1 DEF HandleResponse, Idle
      <4> QED
        BY <2>2, <4>1 DEF RejectResponse, CountResponse, LookUpTx, InsertCompletedTx
    <3>1. h # g
      BY <1>3, <2>1, <3>0
    <3>2. CASE \E p \in Peer, u \in Payment : HandleResponse(h, p, u)
      BY <3>1, <3>2 DEF HandleResponse, TypeOK
    <3>3. ASSUME NEW pc, Goto(h, pc) PROVE handler'[g] = handler[g]
      BY <3>1, <3>3 DEF Goto, TypeOK
    <3>4. CASE Return(h)
      BY <3>1, <3>4 DEF Return, TypeOK
    <3> QED
      BY <2>2, <3>2, <3>3, <3>4
      DEF RejectResponse, CountResponse, LookUpTx, InsertCompletedTx, FinishSync
  <2>3. handler'[g] = handler[g]
    BY <1>0, <2>2, WritesHandler
  <2> QED
    BY <1>3, <2>3
<1> QED
  BY <1>0, <1>1, <1>2, <1>3 DEF SyncedGoesOn

LEMMA CleanInit == Init => CleanInv
  BY SynchronizationAssumption
  DEF Init, CleanInv, BusyPaid, Busy, Exclusive, ValidInPayment, CompletedOnChain,
      ProcessingPending, StoredWaits, OneHeldPayment, SyncedGoesOn, At, Idle, Storing,
      Held, RewardStage, SynchronizationAssumption

LEMMA CleanStep ==
  ASSUME OneOnChain, PromptPayment
  PROVE  TypeOK /\ PeerInv /\ PaidBeforeReward /\ CleanInv /\ [Next]_vars => CleanInv'
<1> SUFFICES ASSUME TypeOK, PeerInv, PaidBeforeReward, CleanInv, [Next]_vars, crashes' = 0
             PROVE  /\ BusyPaid' /\ Exclusive' /\ ValidInPayment' /\ CompletedOnChain'
                    /\ ProcessingPending' /\ StoredWaits'
                    /\ OneHeldPayment' /\ SyncedGoesOn'
  BY DEF CleanInv
<1>1. crashes = 0 /\ ~LoseMemory
  BY NoCrashStep
<1>2. /\ BusyPaid /\ Exclusive /\ ValidInPayment /\ CompletedOnChain
      /\ ProcessingPending /\ StoredWaits
      /\ OneHeldPayment /\ SyncedGoesOn
  BY <1>1 DEF CleanInv
<1>3. PeersTrue /\ CallsTrue
  BY DEF PeerInv
<1>4. BusyPaid' /\ Exclusive'
  BY <1>1, <1>2, BusyPaidStep, ExclusiveStep
<1>5. ValidInPayment' /\ CompletedOnChain' /\ ProcessingPending'
  BY <1>1, <1>2, <1>3, ValidInPaymentStep, CompletedOnChainStep, ProcessingPendingStep
<1>6. StoredWaits' /\ OneHeldPayment' /\ SyncedGoesOn'
  BY <1>1, <1>2, <1>3, StoredWaitsStep, OneHeldStep, SyncedGoesOnStep
<1> QED
  BY <1>4, <1>5, <1>6

LEMMA FinishedStep ==
  ASSUME TypeOK, PaidBeforeReward, CleanInv, [Next]_vars, crashes = 0, ~LoseMemory,
         NEW e \in Event, status[e] = "completed"
  PROVE  status'[e] = "completed"
<1>1. ProcessingPending /\ StoredWaits /\ ValidInPayment
  BY DEF CleanInv
<1>2. CASE RejectEvent
  BY <1>2 DEF RejectEvent, PaidBeforeReward, RewardStage, Held, TypeOK
<1>3. CASE FailPayment
  BY <1>1, <1>3 DEF FailPayment, ProcessingPending, TypeOK
<1>4. ASSUME NEW h \in Handler, FinishSync(h) PROVE status'[e] = "completed"
  BY <1>1, <1>4 DEF FinishSync, StoredWaits, RewardStage, TypeOK
<1>5. ASSUME NEW t \in Payment, Approve(t) \/ Complete(t) \/ Invalidate(t)
      PROVE  status'[e] = "completed"
  BY <1>1, <1>5 DEF Approve, Approvable, Complete, Invalidate, ValidInPayment, TypeOK
<1>6. ASSUME NEW d \in Event, LeavePending(d) \/ Requeue(d) \/ Reward(d)
      PROVE  status'[e] = "completed"
  BY <1>6 DEF LeavePending, Requeue, Reward, TypeOK
<1> QED
  BY <1>2, <1>3, <1>4, <1>5, <1>6, WritesStatus

\* Until something crashes, and if the round does not write over what happened
\* while it worked on an event: an event has one payment that counts, goes on
\* when it is completed, and stays finished.
THEOREM SynchronisedConsistently ==
  ASSUME OneOnChain, PromptPayment
  PROVE  Spec => [](OneHeldPayment /\ SyncedGoesOn) /\ FinishedStays
<1>1. Init => TypeOK /\ PeerInv /\ StatusPaid /\ PaidBeforeReward /\ CleanInv
  <2>1. Init => StatusPaid /\ PaidBeforeReward
    BY DEF Init, StatusPaid, PaidBeforeReward, Idle, RewardStage
  <2> QED
    BY <2>1, TypeInit, PeerInit, CleanInit
<1>2. TypeOK /\ PeerInv /\ StatusPaid /\ PaidBeforeReward /\ CleanInv /\ [Next]_vars
        => TypeOK' /\ PeerInv' /\ StatusPaid' /\ PaidBeforeReward' /\ CleanInv'
  BY TypeStep, PeersStep, AnswersStep, ResponsesStep, CallsStep, CallsApprovedStep,
     SyncedStep, StatusPaidStep, PaidStep, CleanStep DEF PeerInv
<1>3. TypeOK /\ CleanInv => OneHeldPayment /\ SyncedGoesOn
  BY DEF CleanInv, OneHeldPayment, SyncedGoesOn
<1>4. TypeOK /\ PaidBeforeReward /\ CleanInv /\ [Next]_vars
        => [crashes = 0 => \A e \in Event : status[e] = "completed" => status'[e] = "completed"]_status
  <2> SUFFICES ASSUME TypeOK, PaidBeforeReward, CleanInv, [Next]_vars, crashes = 0,
                      status' # status, NEW e \in Event, status[e] = "completed"
               PROVE  status'[e] = "completed"
    OBVIOUS
  <2>1. CASE LoseMemory
    <3>1. status' = status
      BY <2>1, WritesStatus
      DEF LoseMemory, RejectEvent, FailPayment, FinishSync, Approve, Complete, Invalidate,
          LeavePending, Requeue, Reward, history, TypeOK
    <3> QED
      BY <3>1
  <2> QED
    BY <2>1, FinishedStep
<1> QED
  BY <1>1, <1>2, <1>3, <1>4, PTL DEF Spec, FinishedStays
\* Until something crashes, an event with a completed payment is in its reward
\* stage, or the call that inserted the payment is about to write it so.
THEOREM SyncedGoOn ==
  ASSUME OneOnChain, PromptPayment
  PROVE  Spec => []SyncedGoesOn
  BY SynchronisedConsistently, PTL

\* Until something crashes, an event that is completed is never opened again:
\* neither copies of it in the queue nor responses that come late write over
\* its status.
THEOREM FinishedForGood ==
  ASSUME OneOnChain, PromptPayment
  PROVE  Spec => FinishedStays
  BY SynchronisedConsistently, PTL

=============================================================================
