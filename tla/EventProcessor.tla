--------------------------- MODULE EventProcessor ---------------------------
(***************************************************************************)
(* One guard's tables of confirmed events and arbitrary orders and the     *)
(* jobs that move a row through them: EventProcessor, ArbitraryProcessor,  *)
(* the verification of other guards' requests (RequestVerifier) and what   *)
(* TransactionProcessor writes when a transaction of the row is approved,  *)
(* confirmed or found invalid.  Each job reads its rows once and writes    *)
(* them one by one, some after long waits on the chains, without a         *)
(* condition on what the row has become.                                   *)
(*                                                                         *)
(* A transaction is reduced to what the row depends on: whether the row    *)
(* has a valid transaction of a type, and whether it is completed.         *)
(***************************************************************************)
EXTENDS Naturals, FiniteSets

CONSTANTS
  Event,        \* event triggers
  Order,        \* arbitrary orders
  ToErgo,       \* the events whose target chain is Ergo
  Genuine,      \* the events that verifyEvent confirms whenever it is asked
  NoRow,
  Verifier,     \* verifyEventTransactionRequest calls that may be running
  FailLimit,    \* EventUnexpectedFailsLimit / OrderUnexpectedFailsLimit
  PromptWork,   \* assume no work on a row spans the confirmation of its payment
  MaxWork       \* bound on the jobs and verifications that overlap

Row == Event \cup Order

ASSUME EventAssumption ==
  /\ Event \cap Order = {} /\ NoRow \notin Row
  /\ ToErgo \subseteq Event /\ Genuine \subseteq Event
  /\ FailLimit \in [Row -> Nat \ {0}]
  /\ PromptWork \in BOOLEAN
  /\ MaxWork \in Nat \ {0}

VARIABLES
  status,      \* ConfirmedEventEntity.status / ArbitraryEntity.status
  expired,     \* the rows whose firstTry lies more than the timeout back
  fails,       \* unexpectedFails, counted up to the limit
  spent,       \* the events whose eventData.spendHeight is set
  valid,       \* <<row, type>> of the valid transactions
  paid,        \* those of them that are completed
  candidates,  \* <<row, type>> of the transactions in TxAgreement
  list,        \* what the running processing job read of the rows still to come
  task,        \* the row it works on, between two awaits
  overdue,     \* what the timeout job read of the rows still to come
  waiting,     \* what the requeue job read of the rows still to come
  verifier,    \* the running request verifications
  pass,        \* a transaction's result, still to be written to its row
  cut          \* the rows whose confirmation was half written when the guard died

table == <<status, expired, fails>>
txs == <<valid, paid>>
round == <<list, task>>
jobs == <<round, overdue, waiting, verifier, pass>>
vars == <<table, spent, txs, candidates, jobs, cut>>

TxType == {"payment", "reward", "arbitrary"}

EventStatus == {"pendingPayment", "pendingReward", "inPayment", "inReward",
                "completed", "spent", "rejected", "timeout", "reachedLimit",
                "paymentWaiting", "rewardWaiting"}
OrderStatus == {"pending", "inProcess", "completed", "timeout", "waiting",
                "reachedLimit"}
RowStatus == EventStatus \cup OrderStatus \cup {"absent"}

TypesOf(r) == IF r \in Order THEN {"arbitrary"}
              ELSE IF r \in ToErgo THEN {"payment"} ELSE {"payment", "reward"}

PendingStatus == [payment |-> "pendingPayment", reward |-> "pendingReward",
                  arbitrary |-> "pending"]
InProgressStatus == [payment |-> "inPayment", reward |-> "inReward",
                     arbitrary |-> "inProcess"]
WaitingStatus == [payment |-> "paymentWaiting", reward |-> "rewardWaiting",
                  arbitrary |-> "waiting"]

\* the type of transaction a row of this status waits for
TypeFor(s) == CHOOSE type \in TxType :
  s \in {PendingStatus[type], WaitingStatus[type]}

\* what processConfirmedEvents reads of a row; "none" when it is not in the list
NoRead == [status |-> "none", spent |-> FALSE, fails |-> 0]
Read == [status : RowStatus \cup {"none"}, spent : BOOLEAN, fails : Nat]

IdleTask == [pc |-> "idle", row |-> NoRow, type |-> "payment"]
Task == [pc : {"idle", "verify", "generate"}, row : Row \cup {NoRow}, type : TxType]

IdleVerifier == [pc |-> "idle", row |-> NoRow, type |-> "payment", status |-> "absent"]
Verification == [pc : {"idle", "verify"}, row : Row \cup {NoRow},
                 type : TxType, status : RowStatus]

NoPass == [pc |-> "idle", row |-> NoRow, type |-> "payment", unexpected |-> FALSE]
Pass == [pc : {"idle", "advance", "reopen"}, row : Row \cup {NoRow},
         type : TxType, unexpected : BOOLEAN]

TypeOK ==
  /\ status \in [Row -> RowStatus]
  /\ expired \in SUBSET Row
  /\ fails \in [Row -> Nat]
  /\ spent \in SUBSET Event
  /\ valid \in SUBSET (Row \X TxType)
  /\ paid \in SUBSET valid
  /\ candidates \in SUBSET (Row \X TxType)
  /\ list \in [Row -> Read]
  /\ task \in Task
  /\ overdue \in [Row -> {"none", "young", "old"}]
  /\ waiting \in [Row -> RowStatus \cup {"none"}]
  /\ verifier \in [Verifier -> Verification]
  /\ pass \in Pass
  /\ cut \in SUBSET Row

Init ==
  /\ status = [r \in Row |-> "absent"]
  /\ expired = {}
  /\ fails = [r \in Row |-> 0]
  /\ spent = {}
  /\ valid = {} /\ paid = {}
  /\ candidates = {}
  /\ list = [r \in Row |-> NoRead]
  /\ task = IdleTask
  /\ overdue = [r \in Row |-> "none"]
  /\ waiting = [r \in Row |-> "none"]
  /\ verifier = [v \in Verifier |-> IdleVerifier]
  /\ pass = NoPass
  /\ cut = {}

-----------------------------------------------------------------------------
(* Writing a row.                                                          *)

\* setEventStatus, and setOrderStatus without its flags: firstTry is not touched
SetStatus(r, s) ==
  status' = IF status[r] = "absent" THEN status ELSE [status EXCEPT ![r] = s]

\* setEventStatusToPending, and setOrderStatus with updateFirstTry
SetPending(r, s) ==
  /\ SetStatus(r, s)
  /\ expired' = expired \ {r}

\* insertConfirmedEvent, insertNewOrder
InsertRow(r, type) ==
  /\ status[r] = "absent"
  /\ status' = [status EXCEPT ![r] = PendingStatus[type]]
  /\ UNCHANGED <<expired, fails, spent, txs, candidates, jobs, cut>>

\* The work that read row r and has not finished with it
AtWork(r) ==
  \/ list[r] # NoRead \/ task.row = r
  \/ overdue[r] # "none" \/ waiting[r] # "none"
  \/ \E v \in Verifier : verifier[v].row = r

RoundIdle == list = [r \in Row |-> NoRead] /\ task = IdleTask
TimeoutIdle == overdue = [r \in Row |-> "none"]
RequeueIdle == waiting = [r \in Row |-> "none"]

\* the jobs and verifications that are under way, and the bound on them
Work ==
  LET jobsAtWork == {idle \in {<<"round", RoundIdle>>, <<"timeout", TimeoutIdle>>,
                                <<"requeue", RequeueIdle>>} : ~idle[2]}
      verifiers == {v \in Verifier : verifier[v] # IdleVerifier}
  IN Cardinality(jobsAtWork) + Cardinality(verifiers)

Room == Work < MaxWork

\* The timing the guard relies on but does not enforce
Settled(r) == PromptWork => pass.row # r

-----------------------------------------------------------------------------
(* roundJob: processConfirmedEvents, then processArbitraryOrders.          *)

\* processScannedEvents, for an event with enough confirmations
InsertConfirmedEvent(e) == InsertRow(e, "payment")

\* the order API
InsertOrder(o) == InsertRow(o, "arbitrary")

\* the list is read once, by one of the two jobs
ReadList(rows, types) ==
  /\ RoundIdle /\ Room
  /\ LET found == {r \in rows : \E type \in types : status[r] = PendingStatus[type]} IN
     /\ found # {}
     /\ \A r \in found : Settled(r)
     /\ list' = [r \in Row |-> IF r \in found
          THEN [status |-> status[r], spent |-> r \in spent, fails |-> fails[r]]
          ELSE NoRead]
  /\ UNCHANGED <<table, spent, txs, candidates, task, overdue, waiting,
                 verifier, pass, cut>>

ReadConfirmedEvents == ReadList(Event, {"payment", "reward"})
ReadPendingOrders == ReadList(Order, {"arbitrary"})

\* guardTurn() is no longer this guard: the rest of the list is left
AbortRound ==
  /\ task = IdleTask
  /\ list # [r \in Row |-> NoRead]
  /\ list' = [r \in Row |-> NoRead]
  /\ UNCHANGED <<table, spent, txs, candidates, task, overdue, waiting,
                 verifier, pass, cut>>

\* the next row of the list
Take(r) ==
  /\ task = IdleTask
  /\ list[r] # NoRead
  /\ list' = [list EXCEPT ![r] = NoRead]
  /\ UNCHANGED <<expired, fails, spent, txs, candidates, overdue, waiting,
                 verifier, pass, cut>>

SkipSpentEvent(e) ==
  /\ Take(e)
  /\ list[e].spent
  /\ SetStatus(e, "spent")
  /\ UNCHANGED task

ReachLimit(r) ==
  /\ Take(r)
  /\ ~list[r].spent /\ list[r].fails >= FailLimit[r]
  /\ SetStatus(r, "reachedLimit")
  /\ UNCHANGED task

\* the guards of processRewardEvent: not on Ergo, and exactly one valid payment
RewardAllowed(e) == e \notin ToErgo /\ <<e, "payment">> \in valid

StartProcessing(r) ==
  LET type == TypeFor(list[r].status) IN
  /\ Take(r)
  /\ ~list[r].spent /\ list[r].fails < FailLimit[r]
  /\ task' = IF type = "reward" /\ ~RewardAllowed(r) THEN IdleTask
             ELSE [pc |-> IF type = "payment" THEN "verify" ELSE "generate",
                   row |-> r, type |-> type]
  /\ UNCHANGED status

Finish ==
  /\ task' = IdleTask
  /\ UNCHANGED <<expired, fails, spent, txs, list, overdue, waiting, verifier,
                 pass, cut>>

\* processPaymentEvent after verifyEvent
VerifiedEvent ==
  /\ task.pc = "verify"
  /\ task' = [task EXCEPT !.pc = "generate"]
  /\ UNCHANGED <<table, spent, txs, candidates, list, overdue, waiting,
                 verifier, pass, cut>>

RejectEvent ==
  /\ task.pc = "verify" /\ task.row \notin Genuine
  /\ SetStatus(task.row, "rejected")
  /\ Finish /\ UNCHANGED candidates

\* addTransactionToQueue, in this guard's turn
Propose ==
  /\ task.pc = "generate"
  /\ candidates' = candidates \cup {<<task.row, task.type>>}
  /\ Finish /\ UNCHANGED status

\* NotEnoughAssetsError, after the notification
WaitForAssets ==
  /\ task.pc = "generate"
  /\ SetStatus(task.row, WaitingStatus[task.type])
  /\ Finish /\ UNCHANGED candidates

\* the turn is over, or a call threw
GiveUp ==
  /\ task # IdleTask
  /\ Finish /\ UNCHANGED <<status, candidates>>

-----------------------------------------------------------------------------
(* timeoutProcessorJob and requeueWaitingEventsJob                         *)

\* mutant: whatever is pending is timed out
AnyPending(rows) == {r \in rows : \E type \in TypesOf(r) : status[r] = PendingStatus[type]}

\* a pending reward is never timed out
Leftover(rows) == {r \in rows : status[r] \in {"pendingPayment", "pending"}}

ReadLeftover(rows) ==
  /\ TimeoutIdle /\ Room
  /\ Leftover(rows) # {}
  /\ \A r \in Leftover(rows) : Settled(r)
  /\ overdue' = [r \in Row |-> IF r \notin Leftover(rows) THEN "none"
                               ELSE IF r \in expired THEN "old" ELSE "young"]
  /\ UNCHANGED <<table, spent, txs, candidates, round, waiting, verifier, pass, cut>>

ReadLeftoverEvents == ReadLeftover(Event)
ReadLeftoverOrders == ReadLeftover(Order)

\* the firstTry that was read lies more than the timeout back
TimeoutRow(r) ==
  /\ overdue[r] = "old"
  /\ overdue' = [overdue EXCEPT ![r] = "none"]
  /\ SetStatus(r, "timeout")
  /\ UNCHANGED <<expired, fails, spent, txs, candidates, round, waiting,
                 verifier, pass, cut>>

LeaveYoung(r) ==
  /\ overdue[r] = "young"
  /\ overdue' = [overdue EXCEPT ![r] = "none"]
  /\ UNCHANGED <<table, spent, txs, candidates, round, waiting, verifier, pass, cut>>

Waiting(rows) == {r \in rows : \E type \in TxType : status[r] = WaitingStatus[type]}

ReadWaiting(rows) ==
  /\ RequeueIdle /\ Room
  /\ Waiting(rows) # {}
  /\ \A r \in Waiting(rows) : Settled(r)
  /\ waiting' = [r \in Row |-> IF r \in Waiting(rows) THEN status[r] ELSE "none"]
  /\ UNCHANGED <<table, spent, txs, candidates, round, overdue, verifier, pass, cut>>

ReadWaitingEvents == ReadWaiting(Event)
ReadWaitingOrders == ReadWaiting(Order)

RequeueRow(r) ==
  /\ waiting[r] # "none"
  /\ waiting' = [waiting EXCEPT ![r] = "none"]
  /\ SetPending(r, PendingStatus[TypeFor(waiting[r])])
  /\ UNCHANGED <<fails, spent, txs, candidates, round, overdue, verifier, pass, cut>>

-----------------------------------------------------------------------------
(* RequestVerifier: another guard asks for an agreement.                   *)

\* getEventById: the status is read here and compared after verifyEvent
ReadRequested(v, e, type) ==
  /\ verifier[v] = IdleVerifier /\ Room
  /\ status[e] # "absent" /\ Settled(e)
  /\ type \in TypesOf(e)
  /\ verifier' = [verifier EXCEPT ![v] =
       [pc |-> "verify", row |-> e, type |-> type, status |-> status[e]]]
  /\ UNCHANGED <<table, spent, txs, candidates, round, overdue, waiting, pass, cut>>

RejectRequested(v) ==
  LET e == verifier[v].row IN
  /\ verifier[v].pc = "verify" /\ e \notin Genuine
  /\ SetStatus(e, "rejected")
  /\ verifier' = [verifier EXCEPT ![v] = IdleVerifier]
  /\ UNCHANGED <<expired, fails, spent, txs, candidates, round, overdue,
                 waiting, pass, cut>>

\* isEventPendingToType
IsPendingToType(s, type) == s = PendingStatus[type]

\* The event has no valid transaction of the type and waits for one.  A request
\* for the valid transaction itself passes, too, but its approval writes no row.
CheckRequested(v) ==
  LET e == verifier[v].row  type == verifier[v].type IN
  /\ verifier[v].pc = "verify"
  /\ IF <<e, type>> \notin valid /\ IsPendingToType(verifier[v].status, type)
     THEN candidates' = candidates \cup {<<e, type>>}
     ELSE UNCHANGED candidates
  /\ verifier' = [verifier EXCEPT ![v] = IdleVerifier]
  /\ UNCHANGED <<table, spent, txs, round, overdue, waiting, pass, cut>>

\* the event is not confirmed enough, or the transaction does not verify
RefuseRequested(v) ==
  /\ verifier[v].pc = "verify"
  /\ verifier' = [verifier EXCEPT ![v] = IdleVerifier]
  /\ UNCHANGED <<table, spent, txs, candidates, round, overdue, waiting, pass, cut>>

\* verifyArbitraryTransactionRequest
AgreeToOrder(o) ==
  /\ status[o] = "pending" /\ <<o, "arbitrary">> \notin valid
  /\ candidates' = candidates \cup {<<o, "arbitrary">>}
  /\ UNCHANGED <<table, spent, txs, jobs, cut>>

\* clearTransactions and clearAgreedTransactions
ForgetCandidates ==
  /\ candidates # {}
  /\ candidates' = {}
  /\ UNCHANGED <<table, spent, txs, jobs, cut>>

-----------------------------------------------------------------------------
(* What becomes of the transactions, as TransactionProcessor has it.       *)

\* setTxAsApproved: insertTx leaves an older valid transaction of the row in
\* place; the row is set in progress all the same
Approve(r, type) ==
  /\ <<r, type>> \in candidates
  /\ candidates' = candidates \ {<<r, type>>}
  /\ valid' = valid \cup {<<r, type>>}
  /\ SetStatus(r, InProgressStatus[type])
  /\ UNCHANGED <<expired, fails, spent, paid, jobs, cut>>

\* processSentTx, up to the write of the transaction
Complete(r, type) ==
  /\ pass = NoPass
  /\ <<r, type>> \in valid \ paid
  /\ PromptWork => ~AtWork(r) /\ <<r, type>> \notin candidates
  /\ paid' = paid \cup {<<r, type>>}
  /\ pass' = [pc |-> "advance", row |-> r, type |-> type, unexpected |-> FALSE]
  /\ UNCHANGED <<table, spent, valid, candidates, round, overdue, waiting,
                 verifier, cut>>

\* mutant: the event is given a status of the Transaction table
ConfirmedTxStatus(r, type) ==
  IF type = "payment" /\ r \notin ToErgo THEN "sent" ELSE "completed"

\* what a confirmed transaction makes of its row
ConfirmedStatus(r, type) ==
  IF type = "payment" /\ r \notin ToErgo THEN "pendingReward" ELSE "completed"

AdvanceRow ==
  /\ pass.pc = "advance"
  /\ SetStatus(pass.row, ConfirmedStatus(pass.row, pass.type))
  /\ pass' = NoPass
  /\ UNCHANGED <<expired, fails, spent, txs, candidates, round, overdue,
                 waiting, verifier, cut>>

\* setTransactionAsInvalid, up to the write of the transaction
Invalidate(r, type) ==
  /\ pass = NoPass
  /\ <<r, type>> \in valid \ paid
  /\ valid' = valid \ {<<r, type>>}
  /\ \E unexpected \in BOOLEAN :
       pass' = [pc |-> "reopen", row |-> r, type |-> type, unexpected |-> unexpected]
  /\ UNCHANGED <<table, spent, paid, candidates, round, overdue, waiting,
                 verifier, cut>>

ReopenRow ==
  LET r == pass.row IN
  /\ pass.pc = "reopen"
  /\ SetStatus(r, PendingStatus[pass.type])
  /\ fails' = IF pass.unexpected /\ fails[r] < FailLimit[r]
              THEN [fails EXCEPT ![r] = @ + 1] ELSE fails
  /\ pass' = NoPass
  /\ UNCHANGED <<expired, spent, txs, candidates, round, overdue, waiting,
                 verifier, cut>>

-----------------------------------------------------------------------------
(* Time, the chain and the process.                                        *)

\* the timeout of a row passes, also for the job that has read it
Expire(r) ==
  /\ status[r] # "absent" /\ r \notin expired
  /\ expired' = expired \cup {r}
  /\ overdue' = [overdue EXCEPT ![r] = IF @ = "young" THEN "old" ELSE @]
  /\ UNCHANGED <<status, fails, spent, txs, candidates, round, waiting,
                 verifier, pass, cut>>

\* the extractor finds the event's box spent
SpendEvent(e) ==
  /\ e \notin spent
  /\ spent' = spent \cup {e}
  /\ UNCHANGED <<table, txs, candidates, jobs, cut>>

\* the tables stay, everything else is gone
Crash ==
  /\ cut' = IF pass.pc = "advance" THEN cut \cup {pass.row} ELSE cut
  /\ candidates' = {}
  /\ list' = [r \in Row |-> NoRead]
  /\ task' = IdleTask
  /\ overdue' = [r \in Row |-> "none"]
  /\ waiting' = [r \in Row |-> "none"]
  /\ verifier' = [v \in Verifier |-> IdleVerifier]
  /\ pass' = NoPass
  /\ UNCHANGED <<table, spent, txs>>

-----------------------------------------------------------------------------
Jobs ==
  \/ ReadConfirmedEvents \/ ReadPendingOrders \/ AbortRound
  \/ \E e \in Event : SkipSpentEvent(e)
  \/ \E r \in Row : ReachLimit(r) \/ StartProcessing(r)
  \/ VerifiedEvent \/ RejectEvent \/ Propose \/ WaitForAssets \/ GiveUp
  \/ ReadLeftoverEvents \/ ReadLeftoverOrders
  \/ ReadWaitingEvents \/ ReadWaitingOrders
  \/ \E r \in Row : TimeoutRow(r) \/ LeaveYoung(r) \/ RequeueRow(r)

Agreement ==
  \/ \E v \in Verifier : \/ \E e \in Event, type \in TxType : ReadRequested(v, e, type)
                         \/ RejectRequested(v) \/ CheckRequested(v) \/ RefuseRequested(v)
  \/ \E o \in Order : AgreeToOrder(o)
  \/ \E r \in Row, type \in TxType : Approve(r, type)
  \/ ForgetCandidates

Transactions ==
  \/ \E r \in Row, type \in TxType : Invalidate(r, type)
  \/ AdvanceRow \/ ReopenRow

Environment ==
  \/ \E e \in Event : InsertConfirmedEvent(e) \/ SpendEvent(e)
  \/ \E o \in Order : InsertOrder(o)
  \/ \E r \in Row : Expire(r)

-----------------------------------------------------------------------------
(* Properties.                                                             *)

\* a row of this status is behind a confirmed payment
RewardStatus == {"pendingReward", "rewardWaiting", "inReward"}

(***************************************************************************)
(* No job brings an event to the distribution of its reward that has no    *)
(* confirmed payment, whatever stale rows the jobs write and wherever the  *)
(* guard dies: each of them writes a status of the reward only for an      *)
(* event that it read behind its payment.                                  *)
(***************************************************************************)
RewardBehindPayment == \A e \in Event :
  /\ status[e] \in RewardStatus => e \notin ToErgo /\ <<e, "payment">> \in paid
  /\ status[e] = "completed" => <<e, "payment">> \in paid

(***************************************************************************)
(* An event whose payment is confirmed goes on to its reward: it is never  *)
(* again rejected or timed out, and this guard neither proposes nor agrees *)
(* to another payment of it, although a job that read it pending may       *)
(* overwrite its status after the payment was approved.  It is             *)
(* so of an event that this guard verifies whenever it is asked and whose  *)
(* confirmation no crash cuts between the two writes of processSentTx, if  *)
(* no work on a row spans the confirmation of its payment.                 *)
(***************************************************************************)
PaidGoesOn == \A e \in (Event \cap Genuine) \ cut :
  <<e, "payment">> \in paid =>
    /\ <<e, "payment">> \notin candidates
    /\ \/ status[e] \in RewardStatus \cup {"completed", "spent", "reachedLimit"}
       \/ pass.pc = "advance" /\ pass.row = e
=============================================================================
