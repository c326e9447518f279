------------------------ MODULE EventSynchronization ------------------------
(***************************************************************************)
(* How a guard catches up with a payment that it missed.  A request for    *)
(* the reward of an event that is still pending for payment puts the event *)
(* into a queue; eventSyncJob takes events from it while fewer than        *)
(* parallelSyncLimit are being synchronised, and asks the other guards for *)
(* the payment.  When enough of them answered it is inserted as completed  *)
(* and the event goes on to its reward.                                    *)
(*                                                                         *)
(* The module is about one guard.  Its peers are the tables they answer    *)
(* from; requests and responses are growing sets, so that any of them may  *)
(* be lost, late or repeated.  The rest of the guard (agreement,           *)
(* TransactionProcessor, EventProcessor) is abstracted to what it does to  *)
(* the event and its payments meanwhile.                                   *)
(***************************************************************************)
EXTENDS Naturals, FiniteSets

CONSTANTS
  Event,
  Payment,              \* payment transactions
  EventOf,              \* the event that a payment pays
  OnChain,              \* the payments that the chain confirms in the end
  Peer,                 \* the other guards
  Handler,              \* calls of processSyncResponse that may overlap
  RequiredApproval,     \* requiredApproval: requiredSign - 1
  ParallelSyncLimit, ParallelRequestCount,
  PromptPayment,        \* assume that an event is not approved, paid or
                        \* synchronised while the round works on it
  NoTx, NoEvent, NoHandler,
  MaxQueue,             \* bound on the copies of an event in the queue
  MaxCrashes            \* bound on the crashes of a behaviour

ASSUME SynchronizationAssumption ==
  /\ EventOf \in [Payment -> Event] /\ OnChain \subseteq Payment
  /\ IsFiniteSet(Peer)
  /\ RequiredApproval \in Nat \ {0}
  /\ ParallelSyncLimit \in Nat \ {0} /\ ParallelRequestCount \in Nat
  /\ PromptPayment \in BOOLEAN
  /\ NoTx \notin Payment /\ NoEvent \notin Event /\ NoHandler \notin Handler
  /\ MaxQueue \in Nat /\ MaxCrashes \in Nat

\* What the agreement of the guards is for: an event is paid once.
OneOnChain == \A t, u \in OnChain : EventOf[t] = EventOf[u] => t = u

VARIABLES
  queue,      \* eventQueue: shuffled before use, so only the copies count
  active,     \* the keys of activeSyncMap
  responses,  \* and the responses of each
  job,        \* eventSyncJob between two awaits
  handler,    \* running calls of processSyncResponse
  sem,        \* who holds approvalSemaphore
  processing, \* the event that processPaymentEvent of this guard's round works on
  status,     \* the event in this guard's ConfirmedEvent table
  row,        \* the payment in this guard's Transaction table
  completed,  \* the completed payment of an event in a peer's table
  requests, answers,
  synced,     \* history: the payments inserted by synchronisation
  crashes

sync == <<queue, active, responses>>
work == <<job, handler, sem>>
table == <<status, row>>
net == <<completed, requests, answers>>
history == <<synced, crashes>>
vars == <<sync, work, processing, table, net, history>>

-----------------------------------------------------------------------------
\* "aside" is rejected, timeout or payment-waiting: no pending event, but
\* one that RequeueWaitingEvents or a reprocess request makes pending again;
\* "pendingReward" also stands for what follows it before completion
EventStatus == {"pendingPayment", "inPayment", "aside", "pendingReward", "completed"}
RewardStage == {"pendingReward", "completed"}

\* "valid" is every valid status but completed
RowStatus == {"none", "valid", "completed", "invalid"}
Held == {"valid", "completed"}
PaymentsOf(e) == {t \in Payment : EventOf[t] = e}

\* mutant: Array(n) that nobody fills
Unfilled == [p \in {} |-> NoTx]

NoResponse == [p \in Peer |-> NoTx]
Idle == [pc |-> "idle", tx |-> NoTx, from |-> NoTx]
Running == [pc : {"verify", "lookUp", "insert", "status"}, tx : Payment, from : Peer]
Storing == {"lookUp", "insert", "status"}
At(pc) == [pc |-> pc, event |-> NoEvent]
JobState == {At("idle"), At("next"), At("batch")} \cup [pc : {"verify"}, event : Event]

TypeOK ==
  /\ queue \in [Event -> Nat]
  /\ active \in SUBSET Event
  /\ responses \in [Event -> [Peer -> Payment \cup {NoTx}]]
  /\ job \in JobState
  /\ handler \in [Handler -> Running \cup {Idle}]
  /\ sem \in Handler \cup {NoHandler}
  /\ processing \in Event \cup {NoEvent}
  /\ status \in [Event -> EventStatus]
  /\ row \in [Payment -> RowStatus]
  /\ completed \in [Peer -> [Event -> Payment \cup {NoTx}]]
  /\ requests \in SUBSET (Event \X Peer)
  /\ answers \in SUBSET (Peer \X Payment)
  /\ synced \in SUBSET Payment
  /\ crashes \in Nat

Init ==
  /\ queue = [e \in Event |-> 0]
  /\ active = {}
  /\ responses = [e \in Event |-> NoResponse]
  /\ job = At("idle")
  /\ handler = [h \in Handler |-> Idle]
  /\ sem = NoHandler
  /\ processing = NoEvent
  /\ status = [e \in Event |-> "pendingPayment"]
  /\ row = [t \in Payment |-> "none"]
  /\ completed = [p \in Peer |-> [e \in Event |-> NoTx]]
  /\ requests = {} /\ answers = {}
  /\ synced = {}
  /\ crashes = 0

-----------------------------------------------------------------------------
(* The job: processSyncQueue, then sendSyncBatch.                          *)

Paid(e) == \E p \in Peer : completed[p][e] # NoTx

\* mutant: whatever the status of the event
AddAnyEventToQueue(e) ==
  /\ Paid(e)
  /\ queue[e] < MaxQueue
  /\ queue' = [queue EXCEPT ![e] = @ + 1]
  /\ UNCHANGED <<active, responses, work, processing, table, net, history>>

\* isEventPendingToType, for the reward that a guard proposes after it saw
\* the payment completed; the request is resent, and may add the event again
AddEventToQueue(e) ==
  /\ status[e] = "pendingPayment" /\ Paid(e)
  /\ queue[e] < MaxQueue
  /\ queue' = [queue EXCEPT ![e] = @ + 1]
  /\ UNCHANGED <<active, responses, work, processing, table, net, history>>

SlotFree == Cardinality(active) < ParallelSyncLimit
InLoop == job.pc \in {"idle", "next"}

PopEvent(e) ==
  /\ InLoop /\ SlotFree /\ queue[e] > 0
  /\ queue' = [queue EXCEPT ![e] = @ - 1]
  /\ job' = IF e \in active THEN At("next") ELSE [pc |-> "verify", event |-> e]
  /\ UNCHANGED <<active, responses, handler, sem, processing, table, net, history>>

ActivateSync ==
  /\ job.pc = "verify"
  /\ active' = active \cup {job.event}
  /\ responses' = [responses EXCEPT ![job.event] = NoResponse]
  /\ job' = At("next")
  /\ UNCHANGED <<queue, handler, sem, processing, table, net, history>>

\* the event is not found or not confirmed enough
SkipEvent ==
  /\ job.pc = "verify"
  /\ job' = At("next")
  /\ UNCHANGED <<sync, handler, sem, processing, table, net, history>>

\* verifyEvent says no, which it does not of an event this guard has verified
\* for a payment it holds
RejectEvent ==
  /\ job.pc = "verify"
  /\ \A t \in PaymentsOf(job.event) : row[t] \notin Held
  /\ status' = [status EXCEPT ![job.event] = "aside"]
  /\ job' = At("next")
  /\ UNCHANGED <<sync, handler, sem, processing, row, net, history>>

EndSyncQueue ==
  /\ InLoop /\ (SlotFree => \A e \in Event : queue[e] = 0)
  /\ job' = At("batch")
  /\ UNCHANGED <<sync, handler, sem, processing, table, net, history>>

\* whom a batch may ask: peers that have not answered, not too many at once
Askable(e, asked) ==
  /\ Cardinality(asked) <= ParallelRequestCount
  /\ \A p \in asked : responses[e][p] = NoTx

SendSyncBatch ==
  /\ job.pc = "batch"
  /\ \E asked \in [active -> SUBSET Peer] :
       /\ \A e \in active : Askable(e, asked[e])
       /\ requests' = requests \cup UNION {{e} \X asked[e] : e \in active}
  /\ job' = At("idle")
  /\ UNCHANGED <<sync, handler, sem, processing, table, completed, answers, history>>

-----------------------------------------------------------------------------
(* Responses: verifySynchronizationResponse outside the semaphore, the     *)
(* count and setTxAsApproved under it.                                     *)

Goto(h, pc) == handler' = [handler EXCEPT ![h].pc = pc]
Return(h) == handler' = [handler EXCEPT ![h] = Idle]

HandleResponse(h, p, t) ==
  /\ handler[h] = Idle
  /\ <<p, t>> \in answers
  /\ EventOf[t] \in active
  /\ handler' = [handler EXCEPT ![h] = [pc |-> "verify", tx |-> t, from |-> p]]
  /\ UNCHANGED <<sync, job, sem, processing, table, net, history>>

\* its order differs, or this guard does not see it confirmed enough
RejectResponse(h) ==
  /\ handler[h].pc = "verify"
  /\ Return(h)
  /\ UNCHANGED <<sync, job, sem, processing, table, net, history>>

\* mutant: this guard counts as one that approves
OccurrencesAndOwn(answered) == Cardinality({p \in Peer : answered[p] # NoTx}) + 1

\* countBy tells its values apart by their string, which is the same for all
\* transactions: it counts responses, whatever they say
Occurrences(answered) == Cardinality({p \in Peer : answered[p] # NoTx})

\* the map is read again: the sync may have ended or restarted meanwhile
CountResponse(h) ==
  /\ handler[h].pc = "verify" /\ sem = NoHandler
  /\ LET e == EventOf[handler[h].tx]
         answered == [responses[e] EXCEPT ![handler[h].from] = handler[h].tx]
         approved == e \in active /\ Occurrences(answered) >= RequiredApproval
     IN /\ responses' = IF e \in active THEN [responses EXCEPT ![e] = answered]
                        ELSE responses
        /\ sem' = IF approved THEN h ELSE NoHandler
        /\ IF approved THEN Goto(h, "lookUp") ELSE Return(h)
  /\ UNCHANGED <<queue, active, job, processing, table, net, history>>

\* mutant: what is in the table already is skipped, and its event set all the same
SkipKnownTx(h) ==
  /\ handler[h].pc = "lookUp"
  /\ Goto(h, IF row[handler[h].tx] = "none" THEN "insert" ELSE "status")
  /\ UNCHANGED <<sync, job, sem, processing, table, net, history>>

\* mutant: release() is missing where the error is caught
LookUpTxNoRelease(h) ==
  /\ handler[h].pc = "lookUp"
  /\ IF row[handler[h].tx] = "none" THEN Goto(h, "insert") ELSE Return(h)
  /\ UNCHANGED <<sync, job, sem, processing, table, net, history>>

\* setTxAsApproved: what is already in the table is an error, which is logged
LookUpTx(h) ==
  /\ handler[h].pc = "lookUp"
  /\ IF row[handler[h].tx] = "none"
     THEN Goto(h, "insert") /\ UNCHANGED sem
     ELSE Return(h) /\ sem' = NoHandler
  /\ UNCHANGED <<sync, job, processing, table, net, history>>

\* the id is a key
InsertCompletedTx(h) ==
  /\ handler[h].pc = "insert"
  /\ LET t == handler[h].tx
     IN IF row[t] = "none"
        THEN /\ row' = [row EXCEPT ![t] = "completed"]
             /\ synced' = synced \cup {t}
             /\ Goto(h, "status") /\ UNCHANGED sem
        ELSE Return(h) /\ sem' = NoHandler /\ UNCHANGED <<row, synced>>
  /\ UNCHANGED <<sync, job, processing, status, net, crashes>>

Undisturbed(e) == PromptPayment => processing # e

\* mutant: only an event that is still pending goes on to its reward
FinishPendingSync(h) ==
  /\ handler[h].pc = "status"
  /\ LET e == EventOf[handler[h].tx]
     IN /\ Undisturbed(e)
        /\ status' = [status EXCEPT ![e] = IF @ = "pendingPayment" THEN "pendingReward" ELSE @]
        /\ active' = active \ {e}
  /\ Return(h)
  /\ sem' = NoHandler
  /\ UNCHANGED <<queue, responses, job, processing, row, net, history>>

FinishSync(h) ==
  /\ handler[h].pc = "status"
  /\ LET e == EventOf[handler[h].tx]
     IN /\ Undisturbed(e)
        /\ status' = [status EXCEPT ![e] = "pendingReward"]
        /\ active' = active \ {e}
  /\ Return(h)
  /\ sem' = NoHandler
  /\ UNCHANGED <<queue, responses, job, processing, row, net, history>>

\* timeoutActiveSyncs; the clock is the choice of when
TimeoutActiveSync(e) ==
  /\ sem = NoHandler /\ e \in active
  /\ active' = active \ {e}
  /\ UNCHANGED <<queue, responses, work, processing, table, net, history>>

-----------------------------------------------------------------------------
(* The peers.                                                              *)

PeerCompletes(p, t) ==
  /\ t \in OnChain /\ completed[p][EventOf[t]] = NoTx
  /\ completed' = [completed EXCEPT ![p][EventOf[t]] = t]
  /\ UNCHANGED <<sync, work, processing, table, requests, answers, history>>

ProcessSyncRequest(p, e) ==
  /\ <<e, p>> \in requests /\ completed[p][e] # NoTx
  /\ answers' = answers \cup {<<p, completed[p][e]>>}
  /\ UNCHANGED <<sync, work, processing, table, completed, requests, history>>

-----------------------------------------------------------------------------
(* The rest of this guard.                                                 *)

\* insertEventOrOderTx; proposals of an event's payment are minutes older
\* than any peer's knowledge that a payment of it is confirmed
Approvable(t) ==
  /\ status[EventOf[t]] = "pendingPayment" /\ ~Paid(EventOf[t])
  /\ row[t] = "none" /\ \A u \in PaymentsOf(EventOf[t]) : row[u] \notin Held

Approve(t) ==
  /\ Approvable(t) /\ Undisturbed(EventOf[t])
  /\ row' = [row EXCEPT ![t] = "valid"]
  /\ status' = [status EXCEPT ![EventOf[t]] = "inPayment"]
  /\ UNCHANGED <<sync, work, processing, net, history>>

Complete(t) ==
  /\ row[t] = "valid" /\ t \in OnChain /\ Undisturbed(EventOf[t])
  /\ row' = [row EXCEPT ![t] = "completed"]
  /\ status' = [status EXCEPT ![EventOf[t]] = "pendingReward"]
  /\ UNCHANGED <<sync, work, processing, net, history>>

\* setTransactionAsInvalid, which may be wrong about the chain
Invalidate(t) ==
  /\ row[t] = "valid"
  /\ row' = [row EXCEPT ![t] = "invalid"]
  /\ status' = [status EXCEPT ![EventOf[t]] = "pendingPayment"]
  /\ UNCHANGED <<sync, work, processing, net, history>>

\* TimeoutLeftoverEvents, and a rejection by RequestVerifier
LeavePending(e) ==
  /\ status[e] = "pendingPayment"
  /\ status' = [status EXCEPT ![e] = "aside"]
  /\ UNCHANGED <<sync, work, processing, row, net, history>>

\* RequeueWaitingEvents, processReprocessRequest
Requeue(e) ==
  /\ status[e] = "aside"
  /\ status' = [status EXCEPT ![e] = "pendingPayment"]
  /\ UNCHANGED <<sync, work, processing, row, net, history>>

\* processPaymentEvent: verification and generation await the chain
BeginPayment(e) ==
  /\ status[e] = "pendingPayment" /\ processing = NoEvent
  /\ processing' = e
  /\ UNCHANGED <<sync, work, table, net, history>>

\* the generated payment is queued, or refused by everybody
EndPayment ==
  /\ processing # NoEvent
  /\ processing' = NoEvent
  /\ UNCHANGED <<sync, work, table, net, history>>

\* not verified, or not enough assets: written over whatever is there
FailPayment ==
  /\ processing # NoEvent
  /\ status' = [status EXCEPT ![processing] = "aside"]
  /\ processing' = NoEvent
  /\ UNCHANGED <<sync, work, row, net, history>>

\* the reward is paid
Reward(e) ==
  /\ status[e] = "pendingReward"
  /\ status' = [status EXCEPT ![e] = "completed"]
  /\ UNCHANGED <<sync, work, processing, row, net, history>>

\* An exception in eventSyncJob ends the process as well.
LoseMemory ==
  /\ crashes < MaxCrashes
  /\ crashes' = crashes + 1
  /\ queue' = [e \in Event |-> 0] /\ active' = {}
  /\ responses' = [e \in Event |-> NoResponse]
  /\ job' = At("idle") /\ handler' = [h \in Handler |-> Idle] /\ sem' = NoHandler
  /\ processing' = NoEvent
  /\ UNCHANGED <<net, synced>>

Crash == LoseMemory /\ UNCHANGED table

\* between the two writes of an approval
CrashInApproval(t) ==
  /\ LoseMemory
  /\ Approvable(t)
  /\ row' = [row EXCEPT ![t] = "valid"]
  /\ UNCHANGED status

-----------------------------------------------------------------------------
JobStep == ActivateSync \/ SkipEvent \/ RejectEvent \/ EndSyncQueue \/ SendSyncBatch
Settle(h) == LookUpTx(h) \/ InsertCompletedTx(h) \/ FinishSync(h)

Next ==
  \/ JobStep
  \/ \E e \in Event : AddEventToQueue(e) \/ PopEvent(e) \/ TimeoutActiveSync(e)
  \/ \E h \in Handler :
       \/ \E p \in Peer, t \in Payment : HandleResponse(h, p, t)
       \/ RejectResponse(h) \/ CountResponse(h) \/ Settle(h)
  \/ \E p \in Peer :
       \/ \E t \in Payment : PeerCompletes(p, t)
       \/ \E e \in Event : ProcessSyncRequest(p, e)
  \/ \E t \in Payment : Approve(t) \/ Complete(t) \/ Invalidate(t) \/ CrashInApproval(t)
  \/ \E e \in Event : LeavePending(e) \/ Requeue(e) \/ BeginPayment(e) \/ Reward(e)
  \/ EndPayment \/ FailPayment
  \/ Crash

Spec == Init /\ [][Next]_vars

\* The timers repeat and awaited calls return; the semaphore serves in order,
\* and the round leaves every event in the end.
FairSpec ==
  /\ Spec
  /\ WF_vars(EndPayment \/ FailPayment)
  /\ \A e \in Event : SF_vars(TimeoutActiveSync(e))
  /\ \A h \in Handler : SF_vars(Settle(h))

-----------------------------------------------------------------------------
(* Properties.                                                             *)

Approvers(t) == {p \in Peer : completed[p][EventOf[t]] = t}

\* A payment enters the table by synchronisation only if requiredApproval
\* different guards completed that very payment.
SyncedByPeers == \A t \in synced : Cardinality(Approvers(t)) >= RequiredApproval

\* The event is in its reward stage only with a completed payment in the
\* table, whichever of synchronisation, agreement, timeouts and the round
\* wrote what.
PaidBeforeReward ==
  \A e \in Event : status[e] \in RewardStage => \E t \in PaymentsOf(e) : row[t] = "completed"

\* An event with a completed payment is in its reward stage or about to be
\* written so; a crash between two writes may leave it behind.
SyncedGoesOn ==
  crashes = 0 =>
    \A t \in Payment : row[t] = "completed" =>
      \/ status[EventOf[t]] \in RewardStage
      \/ \E h \in Handler : handler[h].pc = "status" /\ handler[h].tx = t

\* What processRewardEvent and processSyncRequest rely on: an event has at
\* most one payment that is not invalid, a synchronised one included.  A
\* crash may leave an approved one in a pending event.
OneHeldPayment ==
  crashes = 0 =>
    \A t, u \in Payment :
      EventOf[t] = EventOf[u] /\ row[t] \in Held /\ row[u] \in Held => t = u

\* A finished event is finished: copies of it in the queue and late responses
\* do not set it back to its reward.
FinishedStays ==
  [][crashes = 0 =>
       \A e \in Event : status[e] = "completed" => status'[e] = "completed"]_status

\* A synchronisation ends, by its payment or by the timeout, and gives its
\* slot back, whatever becomes of the responses: too few, late, repeated, or
\* one that cannot be stored.
SyncEnds == \A e \in Event : e \in active ~> e \notin active
=============================================================================
