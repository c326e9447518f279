----------------------- MODULE TransactionProcessor -----------------------
(***************************************************************************)
(* One guard's Transaction table and everything that writes to it:         *)
(* transactions enter it when the agreement approves them (setTxAsApproved *)
(* and DatabaseHandler.insertTx), and TransactionProcessor drives them     *)
(* through signing, submission and confirmation.  The passes of            *)
(* processTransactions, the signer's callbacks and the approval handlers   *)
(* interleave at every await; the guard may crash between any two writes.  *)
(*                                                                         *)
(* The blockchains are external: what the calls on AbstractChain return is *)
(* read from "chain", which moves as a chain with reorganisations may.     *)
(***************************************************************************)
EXTENDS TxTypes, FiniteSets

CONSTANTS
  FailLimit,     \* EventUnexpectedFailsLimit / OrderUnexpectedFailsLimit
  RequiredConf,  \* getTxRequiredConfirmation
  Handler,       \* setTxAsApproved calls that may be running at once
  NoHandler, NoTx,
  PromptSigner,  \* assume a signing request settles before its tx is touched again
  PromptWrites,  \* assume no pass starts while an approval is being written
  MaxHeight,     \* bound on the blocks of a behaviour
  MaxJobs,       \* bound on the signing requests of a tx that are outstanding
  MaxCrashes     \* bound on the crashes of a behaviour

ASSUME ProcessorAssumption ==
  /\ IsFiniteSet(Tx)
  /\ FailLimit \in [Owner -> Nat \ {0}]
  /\ RequiredConf \in Nat \ {0}
  /\ NoHandler \notin Handler
  /\ NoTx \notin Tx
  /\ PromptSigner \in BOOLEAN
  /\ PromptWrites \in BOOLEAN
  /\ MaxHeight \in Nat /\ MaxHeight >= RequiredConf
  /\ MaxJobs \in Nat \ {0}
  /\ MaxCrashes \in Nat

VARIABLES
  status,         \* TransactionEntity.status, "none" when there is no row
  lastCheck,      \* TransactionEntity.lastCheck
  failedInSign,   \* TransactionEntity.failedInSign
  ownerStatus,    \* ConfirmedEventEntity.status / ArbitraryEntity.status
  unexpectedFails,\* their unexpectedFails, counted up to the limit
  snap,           \* what processTransactions read of the rows still to come
  task,           \* the transaction it is working on, between two awaits
  jobs,           \* signTransaction promises that have not settled
  candidates,     \* TxAgreement.transactions
  handler,        \* the running setTxAsApproved calls
  sem,            \* who holds txSignSemaphore
  chain,          \* what the chain knows of each transaction
  height,         \* its height
  crashes

table == <<status, lastCheck, failedInSign>>
owners == <<ownerStatus, unexpectedFails>>
pass == <<snap, task>>
agreement == <<candidates, handler, sem>>
network == <<chain, height>>
vars == <<table, owners, pass, jobs, agreement, network, crashes>>

NoSnap == [status |-> "none", lastCheck |-> 0]
IdleTask == [pc |-> "idle", tx |-> NoTx, from |-> "none",
             lastCheck |-> 0, unexpected |-> FALSE]
IdleHandler == [pc |-> "idle", tx |-> NoTx, fresh |-> FALSE,
                op |-> "skip", old |-> NoTx]

\* what processTransactions read of a row
Snapshot == [status : ActiveStatus \cup {"none"}, lastCheck : Nat]

\* where it stands between two awaits: the transaction, the status it was read
\* with, its lastCheck, and whether TxUnexpectedError is to be counted
TaskPC == {"idle", "mempool", "validity", "touch", "sign", "markSent",
           "markCompleted", "advance", "markInvalid", "reopen"}
Task == [pc : TaskPC, tx : Tx \cup {NoTx},
         from : {"none", "signFailed", "signed", "sent"},
         lastCheck : Nat, unexpected : BOOLEAN]

\* a running setTxAsApproved: whether the id had no row, and insertTx's decision
InsertOp == {"skip", "insert", "replace", "reset"}
Call == [pc : {"idle", "read", "write", "owner"}, tx : Tx \cup {NoTx},
         fresh : BOOLEAN, op : InsertOp, old : Tx \cup {NoTx}]

\* where the chain has a transaction, or the block that spent its inputs
Place == [loc : {"absent", "mempool", "mined", "spent"}, since : Nat]

TypeOK ==
  /\ status \in [Tx -> RowStatus]
  /\ lastCheck \in [Tx -> Nat]
  /\ failedInSign \in [Tx -> BOOLEAN]
  /\ ownerStatus \in [Owner -> OwnerStatus]
  /\ unexpectedFails \in [Owner -> Nat]
  /\ snap \in [Tx -> Snapshot]
  /\ task \in Task
  /\ jobs \in [Tx -> Nat]
  /\ candidates \in SUBSET Tx
  /\ handler \in [Handler -> Call]
  /\ sem \in Handler \cup {NoHandler}
  /\ chain \in [Tx -> Place]
  /\ height \in Nat
  /\ crashes \in Nat

(***************************************************************************)
(* At start the chain is older than any confirmation requirement, so a     *)
(* lastCheck of 0 is always far in the past.                               *)
(***************************************************************************)
Init ==
  /\ status = [t \in Tx |-> "none"]
  /\ lastCheck = [t \in Tx |-> 0]
  /\ failedInSign = [t \in Tx |-> FALSE]
  /\ ownerStatus = [o \in Owner |->
       IF \E t \in Tx : OwnerOf[t] = o /\ TypeOf[t] = "arbitrary"
       THEN "pending" ELSE "pendingPayment"]
  /\ unexpectedFails = [o \in Owner |-> 0]
  /\ snap = [t \in Tx |-> NoSnap]
  /\ task = IdleTask
  /\ jobs = [t \in Tx |-> 0]
  /\ candidates = {}
  /\ handler = [h \in Handler |-> IdleHandler]
  /\ sem = NoHandler
  /\ chain = [t \in Tx |-> [loc |-> "absent", since |-> 0]]
  /\ height = RequiredConf
  /\ crashes = 0

-----------------------------------------------------------------------------
(* Reading and writing the table.  An UPDATE of a row that is gone changes *)
(* nothing.                                                                *)

\* mutant: a completed transaction is no longer looked for
ActiveAlike(t) == {u \in Tx : Alike(t, u) /\ status[u] \in ActiveStatus}

ValidAlike(t) == {u \in Tx : Alike(t, u) /\ status[u] \in ValidStatus}

SetTxStatus(t, s) ==
  status' = IF status[t] = "none" THEN status ELSE [status EXCEPT ![t] = s]

\* mutant: the timeout overwrites whatever the row has become
SetTxAsSignFailedAlways(t) ==
  /\ SetTxStatus(t, "signFailed")
  /\ failedInSign' = [failedInSign EXCEPT ![t] = TRUE]

\* setTxAsSignFailed: only a row that is still in sign
SetTxAsSignFailed(t) ==
  IF status[t] = "inSign"
  THEN /\ status' = [status EXCEPT ![t] = "signFailed"]
       /\ failedInSign' = [failedInSign EXCEPT ![t] = TRUE]
  ELSE UNCHANGED <<status, failedInSign>>

SetOwnerStatus(t, s) == ownerStatus' = [ownerStatus EXCEPT ![OwnerOf[t]] = s]

\* mutant: nobody waits for txSignSemaphore
SemaphoreIgnored == TRUE

SemaphoreFree == sem = NoHandler

\* The timing the guard relies on but does not enforce
Settled(t) == PromptSigner => jobs[t] = 0

-----------------------------------------------------------------------------
(* processTransactions: read the active rows once, then work on each of    *)
(* them with what was read, whatever became of the row meanwhile.          *)

StartPass ==
  /\ task = IdleTask
  /\ \A t \in Tx : snap[t] = NoSnap
  /\ \E t \in Tx : status[t] \in ActiveStatus
  /\ PromptWrites => \A h \in Handler : handler[h] = IdleHandler
  /\ snap' = [t \in Tx |-> IF status[t] \in ActiveStatus
                           THEN [status |-> status[t], lastCheck |-> lastCheck[t]]
                           ELSE NoSnap]
  /\ UNCHANGED <<table, owners, task, jobs, agreement, network, crashes>>

\* the next transaction of the list, by the status it was read with
Begin(t, s) ==
  /\ task = IdleTask
  /\ snap[t].status = s
  /\ snap' = [snap EXCEPT ![t] = NoSnap]

Enter(t, pc) ==
  task' = [pc |-> pc, tx |-> t, from |-> snap[t].status,
           lastCheck |-> snap[t].lastCheck, unexpected |-> FALSE]

At(pc) == task.pc = pc
Goto(pc) == task' = [task EXCEPT !.pc = pc]
Done == task' = IdleTask

\* processApprovedTx, whose body runs under txSignSemaphore
RequestSign(t) ==
  /\ SemaphoreFree
  /\ Settled(t)
  /\ jobs[t] < MaxJobs
  /\ SetTxStatus(t, "inSign")
  /\ jobs' = [jobs EXCEPT ![t] = @ + 1]

ProcessApprovedTx(t) ==
  /\ Begin(t, "approved")
  /\ RequestSign(t)
  /\ UNCHANGED <<lastCheck, failedInSign, owners, task, agreement, network, crashes>>

\* mutant: only a transaction that the signer rejected before is taken back
TimeoutFailedTx(t) ==
  /\ Begin(t, "inSign")
  /\ failedInSign[t]
  /\ SetTxAsSignFailed(t)
  /\ UNCHANGED <<lastCheck, owners, task, jobs, agreement, network, crashes>>

\* processInSignTx when txSignTimeout has passed since the request
TimeoutInSignTx(t) ==
  /\ Begin(t, "inSign")
  /\ Settled(t)
  /\ SetTxAsSignFailed(t)
  /\ UNCHANGED <<lastCheck, owners, task, jobs, agreement, network, crashes>>

\* the time has not passed, or a call on the chain throws
SkipTx(t) ==
  /\ \E s \in {"inSign", "signFailed", "signed", "sent"} : Begin(t, s)
  /\ UNCHANGED <<table, owners, task, jobs, agreement, network, crashes>>

ProcessSignFailedTx(t) ==
  /\ Begin(t, "signFailed")
  /\ Settled(t)
  /\ Enter(t, IF chain[t].loc = "mined" THEN "markSent" ELSE "mempool")
  /\ UNCHANGED <<table, owners, jobs, agreement, network, crashes>>

\* submitTransaction: the network may or may not accept it
Submit(t) ==
  \/ UNCHANGED chain
  \/ chain[t].loc = "absent" /\ chain' = [chain EXCEPT ![t].loc = "mempool"]

ProcessSignedTx(t) ==
  /\ Begin(t, "signed")
  /\ Submit(t)
  /\ Enter(t, "markSent")
  /\ UNCHANGED <<table, owners, jobs, agreement, height, crashes>>

Deep(t) == height - chain[t].since >= RequiredConf
ConfirmedEnough(t) == chain[t].loc = "mined" /\ Deep(t)

ProcessSentTx(t) ==
  /\ Begin(t, "sent")
  /\ Enter(t, IF ConfirmedEnough(t) THEN "markCompleted"
              ELSE IF chain[t].loc = "mined" THEN "touch" ELSE "mempool")
  /\ UNCHANGED <<table, owners, jobs, agreement, network, crashes>>

\* isTxInMempool, asked after the transaction was not found in a block
CheckMempool ==
  /\ At("mempool")
  /\ Goto(IF chain[task.tx].loc # "mempool" THEN "validity"
          ELSE IF task.from = "signFailed" THEN "markSent" ELSE "touch")
  /\ UNCHANGED <<table, owners, snap, jobs, agreement, network, crashes>>

\* isTxValid: are its inputs unspent?  They are spent too once it is mined itself.
IsTxValid(t) == chain[t].loc \in {"absent", "mempool"}

ValidTx ==
  /\ At("validity")
  /\ IsTxValid(task.tx)
  /\ IF task.from = "signFailed"
     THEN Goto("sign") /\ UNCHANGED chain
     ELSE Done /\ Submit(task.tx)
  /\ UNCHANGED <<table, owners, snap, jobs, agreement, height, crashes>>

\* setTransactionAsInvalid, up to its decision
InvalidTx ==
  /\ At("validity")
  /\ ~IsTxValid(task.tx)
  /\ IF height - task.lastCheck >= RequiredConf
     THEN \E unexpected \in BOOLEAN :
            task' = [task EXCEPT !.pc = "markInvalid", !.unexpected = unexpected]
     ELSE Done
  /\ UNCHANGED <<table, owners, snap, jobs, agreement, network, crashes>>

\* a call on the chain throws: the transaction is left for the next pass
ChainCallFails ==
  /\ task.pc \in {"mempool", "validity", "touch"}
  /\ Done
  /\ UNCHANGED <<table, owners, snap, jobs, agreement, network, crashes>>

SignAgain ==
  /\ At("sign")
  /\ RequestSign(task.tx)
  /\ Done
  /\ UNCHANGED <<lastCheck, failedInSign, owners, snap, agreement, network, crashes>>

MarkSent ==
  /\ At("markSent")
  /\ SetTxStatus(task.tx, "sent")
  /\ Done
  /\ UNCHANGED <<lastCheck, failedInSign, owners, snap, jobs, agreement, network, crashes>>

UpdateTxLastCheck ==
  /\ At("touch")
  /\ lastCheck' = IF status[task.tx] = "none" THEN lastCheck
                  ELSE [lastCheck EXCEPT ![task.tx] = height]
  /\ Done
  /\ UNCHANGED <<status, failedInSign, owners, snap, jobs, agreement, network, crashes>>

MarkCompleted ==
  /\ At("markCompleted")
  /\ SetTxStatus(task.tx, "completed")
  /\ IF Owned(task.tx) THEN Goto("advance") ELSE Done
  /\ UNCHANGED <<lastCheck, failedInSign, owners, snap, jobs, agreement, network, crashes>>

AdvanceOwner ==
  /\ At("advance")
  /\ SetOwnerStatus(task.tx, ConfirmedOwnerStatus(task.tx))
  /\ Done
  /\ UNCHANGED <<table, unexpectedFails, snap, jobs, agreement, network, crashes>>

\* mutant: the event of an invalid reward transaction is not reopened
MarkInvalidReopenPayment ==
  /\ At("markInvalid")
  /\ SetTxStatus(task.tx, "invalid")
  /\ IF TypeOf[task.tx] = "payment" THEN Goto("reopen") ELSE Done
  /\ UNCHANGED <<lastCheck, failedInSign, owners, snap, jobs, agreement, network, crashes>>

MarkInvalid ==
  /\ At("markInvalid")
  /\ SetTxStatus(task.tx, "invalid")
  /\ IF Owned(task.tx) THEN Goto("reopen") ELSE Done
  /\ UNCHANGED <<lastCheck, failedInSign, owners, snap, jobs, agreement, network, crashes>>

ReopenOwner ==
  LET o == OwnerOf[task.tx] IN
  /\ At("reopen")
  /\ SetOwnerStatus(task.tx, PendingStatus[TypeOf[task.tx]])
  /\ unexpectedFails' =
       IF task.unexpected /\ unexpectedFails[o] < FailLimit[o]
       THEN [unexpectedFails EXCEPT ![o] = @ + 1] ELSE unexpectedFails
  /\ Done
  /\ UNCHANGED <<table, snap, jobs, agreement, network, crashes>>

-----------------------------------------------------------------------------
(* The signer's answers: handleSuccessfulSign and handleFailedSign.        *)

HandleSuccessfulSign(t) ==
  /\ jobs[t] > 0
  /\ jobs' = [jobs EXCEPT ![t] = @ - 1]
  /\ SetTxStatus(t, "signed")
  /\ lastCheck' = IF status[t] = "none" THEN lastCheck
                  ELSE [lastCheck EXCEPT ![t] = height]
  /\ UNCHANGED <<failedInSign, owners, pass, agreement, network, crashes>>

HandleFailedSign(t) ==
  /\ jobs[t] > 0
  /\ jobs' = [jobs EXCEPT ![t] = @ - 1]
  /\ SetTxAsSignFailed(t)
  /\ UNCHANGED <<lastCheck, owners, pass, agreement, network, crashes>>

-----------------------------------------------------------------------------
(* How a transaction becomes a candidate of the agreement.                 *)

\* mutant: any pending status admits any type
PendingToAnyType(t) ==
  ownerStatus[OwnerOf[t]] \in {"pendingPayment", "pendingReward", "pending"}

\* isEventPendingToType
PendingToType(t) == ownerStatus[OwnerOf[t]] = PendingStatus[TypeOf[t]]

\* processRewardEvent goes on only with exactly one valid payment
OnePayment(o) ==
  Cardinality({u \in Tx : /\ OwnerOf[u] = o /\ TypeOf[u] = "payment"
                          /\ status[u] \in ValidStatus}) = 1

\* chainColdStorageProcess: no active cold-storage transaction on the chain
NoColdStorage(t) == \A u \in Tx :
  TypeOf[u] = "coldStorage" /\ (u \in OnErgo <=> t \in OnErgo)
    => status[u] \in {"none", "invalid", "completed"}

\* processConfirmedEvents, processArbitraryOrders, chainColdStorageProcess.
\* The code's map gets the transaction later than the owner is read; here it
\* is a candidate from that read on, so a stale one is a candidate too.
GenerateTx(t) ==
  /\ t \notin candidates
  /\ \/ /\ Owned(t)
        /\ PendingToType(t)
        /\ unexpectedFails[OwnerOf[t]] < FailLimit[OwnerOf[t]]
        /\ TypeOf[t] = "reward" => OnePayment(OwnerOf[t])
     \/ TypeOf[t] = "coldStorage" /\ NoColdStorage(t)
  /\ candidates' = candidates \cup {t}
  /\ UNCHANGED <<table, owners, pass, jobs, handler, sem, network, crashes>>

\* the same jobs give up on an owner that failed unexpectedly too often
ReachLimit(o) ==
  /\ ownerStatus[o] \in {"pendingPayment", "pendingReward", "pending"}
  /\ unexpectedFails[o] >= FailLimit[o]
  /\ ownerStatus' = [ownerStatus EXCEPT ![o] = "reachedLimit"]
  /\ UNCHANGED <<table, unexpectedFails, pass, jobs, agreement, network, crashes>>

\* enqueueSignFailedTxs
EnqueueSignFailedTx(t) ==
  /\ t \notin candidates
  /\ TypeOf[t] # "manual"
  /\ status[t] \in {"inSign", "signFailed"}
  /\ failedInSign[t]
  /\ candidates' = candidates \cup {t}
  /\ UNCHANGED <<table, owners, pass, jobs, handler, sem, network, crashes>>

\* a peer's request that RequestVerifier accepts
AgreeToRequest(t) ==
  /\ t \notin candidates
  /\ TypeOf[t] # "manual"
  /\ Owned(t) => \/ t \in ValidAlike(t)
                 \/ ValidAlike(t) = {} /\ PendingToType(t)
  /\ candidates' = candidates \cup {t}
  /\ UNCHANGED <<table, owners, pass, jobs, handler, sem, network, crashes>>

\* clearTransactions and clearAgreedTransactions, when a turn ends
ForgetCandidates ==
  /\ candidates # {}
  /\ candidates' = {}
  /\ UNCHANGED <<table, owners, pass, jobs, handler, sem, network, crashes>>

-----------------------------------------------------------------------------
(* setTxAsApproved, once the quorum's approval of a candidate is known.    *)

\* getTxById, which is read before the semaphore is taken
StartApproval(h, t) ==
  /\ handler[h] = IdleHandler
  /\ t \in candidates
  /\ IF status[t] = "invalid"
     THEN candidates' = candidates \ {t} /\ UNCHANGED handler
     ELSE /\ handler' = [handler EXCEPT ![h] =
               [IdleHandler EXCEPT !.pc = "read", !.tx = t,
                                   !.fresh = (status[t] = "none")]]
          /\ UNCHANGED candidates
  /\ UNCHANGED <<table, owners, pass, jobs, sem, network, crashes>>

\* What insertTx makes of the rows it finds, and the row it replaces
InsertDecision(t) ==
  LET valid == ValidAlike(t) IN
  IF ~Owned(t)
  THEN [op  |-> IF status[t] \in {"none", "invalid", "completed"}
                THEN "insert" ELSE "reset",
        old |-> NoTx]
  ELSE IF valid = {} THEN [op |-> "insert", old |-> NoTx]
  ELSE IF t \in valid THEN [op |-> "reset", old |-> NoTx]
  ELSE LET u == CHOOSE u \in valid : TRUE IN
       IF status[u] = "approved" /\ t < u
       THEN [op |-> "replace", old |-> u]
       ELSE [op |-> "skip", old |-> NoTx]

\* insertTx takes the semaphore and reads the valid rows of the owner
ReadTxs(h) ==
  LET t == handler[h].tx IN
  /\ handler[h].pc = "read"
  /\ SemaphoreFree
  /\ IF Cardinality(ValidAlike(t)) > 1
     THEN \* ImpossibleBehavior, swallowed by setTxAsApproved
          handler' = [handler EXCEPT ![h] = IdleHandler] /\ UNCHANGED sem
     ELSE /\ handler' = [handler EXCEPT ![h] =
               [@ EXCEPT !.pc = "write", !.op = InsertDecision(t).op,
                                         !.old = InsertDecision(t).old]]
          /\ sem' = h
  /\ UNCHANGED <<table, owners, pass, jobs, candidates, network, crashes>>

\* inserting, or renaming to, an id that has a row violates the primary key
KeyViolation(t, op, old) ==
  \/ op = "insert" /\ status[t] # "none"
  \/ op = "replace" /\ status[t] # "none" /\ status[old] # "none"

InsertNewTx(t, op, old) ==
  /\ status' = IF op = "insert" THEN [status EXCEPT ![t] = "approved"]
               ELSE IF op = "replace" /\ status[old] # "none"
               THEN [status EXCEPT ![old] = "none", ![t] = "approved"]
               ELSE status
  /\ lastCheck' = IF op = "insert" \/ (op = "replace" /\ status[old] # "none")
                  THEN [lastCheck EXCEPT ![t] = 0] ELSE lastCheck
  /\ failedInSign' = IF op = "skip" THEN failedInSign
                     ELSE [failedInSign EXCEPT ![t] = FALSE]

\* the write of insertTx, which gives the semaphore back
WriteTx(h) ==
  LET t == handler[h].tx  op == handler[h].op  old == handler[h].old IN
  /\ handler[h].pc = "write"
  /\ op \in {"insert", "replace"} => Settled(t)
  /\ sem' = NoHandler
  /\ IF KeyViolation(t, op, old)
     THEN /\ handler' = [handler EXCEPT ![h] = IdleHandler]
          /\ UNCHANGED <<table, candidates>>
     ELSE /\ InsertNewTx(t, op, old)
          /\ IF handler[h].fresh
             THEN /\ handler' = [handler EXCEPT ![h] =
                       [@ EXCEPT !.pc = "owner", !.op = "skip", !.old = NoTx]]
                  /\ UNCHANGED candidates
             ELSE /\ handler' = [handler EXCEPT ![h] = IdleHandler]
                  /\ candidates' = candidates \ {t}
  /\ UNCHANGED <<owners, pass, jobs, network, crashes>>

\* updateEventOrOrderOfApprovedTx, and the candidate is forgotten
WriteOwner(h) ==
  LET t == handler[h].tx IN
  /\ handler[h].pc = "owner"
  /\ IF Owned(t) THEN SetOwnerStatus(t, InProgressStatus[TypeOf[t]])
     ELSE UNCHANGED ownerStatus
  /\ handler' = [handler EXCEPT ![h] = IdleHandler]
  /\ candidates' = candidates \ {t}
  /\ UNCHANGED <<table, unexpectedFails, pass, jobs, sem, network, crashes>>

\* the sign API: insertManualTx, which runs under the semaphore
InsertManualTx(t) ==
  /\ TypeOf[t] = "manual"
  /\ SemaphoreFree
  /\ status[t] = "none"
  /\ Settled(t)
  /\ InsertNewTx(t, "insert", NoTx)
  /\ UNCHANGED <<owners, pass, jobs, agreement, network, crashes>>

-----------------------------------------------------------------------------
\* The process dies: the tables stay, everything else is gone.
Crash ==
  /\ crashes < MaxCrashes
  /\ crashes' = crashes + 1
  /\ snap' = [t \in Tx |-> NoSnap]
  /\ task' = IdleTask
  /\ jobs' = [t \in Tx |-> 0]
  /\ candidates' = {}
  /\ handler' = [h \in Handler |-> IdleHandler]
  /\ sem' = NoHandler
  /\ UNCHANGED <<table, owners, network>>

-----------------------------------------------------------------------------
(* The chain.  Other guards that collected the quorum's signature submit   *)
(* transactions too, and a conflicting transaction may spend the inputs.   *)
(* A block under RequiredConf others is final.                             *)

Move(t, loc) ==
  chain' = [chain EXCEPT ![t] =
    [loc |-> loc, since |-> IF loc \in {"mined", "spent"} THEN height ELSE 0]]

ChainMoves(t) ==
  /\ \/ chain[t].loc = "absent" /\ Move(t, "mempool")
     \/ chain[t].loc = "mempool" /\ \/ Move(t, "absent") \/ Move(t, "mined")
     \/ chain[t].loc \in {"absent", "mempool"} /\ Move(t, "spent")
     \/ chain[t].loc \in {"mined", "spent"} /\ ~Deep(t) /\ Move(t, "absent")
  /\ UNCHANGED <<table, owners, pass, jobs, agreement, height, crashes>>

NewBlock ==
  /\ height < MaxHeight
  /\ height' = height + 1
  /\ UNCHANGED <<table, owners, pass, jobs, agreement, chain, crashes>>

-----------------------------------------------------------------------------
ProcessTransactions ==
  \/ StartPass
  \/ \E t \in Tx : \/ ProcessApprovedTx(t) \/ TimeoutInSignTx(t) \/ SkipTx(t)
                   \/ ProcessSignFailedTx(t) \/ ProcessSignedTx(t) \/ ProcessSentTx(t)
  \/ CheckMempool \/ ValidTx \/ InvalidTx \/ ChainCallFails
  \/ SignAgain \/ MarkSent \/ UpdateTxLastCheck
  \/ MarkCompleted \/ AdvanceOwner \/ MarkInvalid \/ ReopenOwner

Signer == \E t \in Tx : HandleSuccessfulSign(t) \/ HandleFailedSign(t)

Agreement ==
  \/ \E t \in Tx : \/ GenerateTx(t) \/ EnqueueSignFailedTx(t) \/ AgreeToRequest(t)
                   \/ InsertManualTx(t)
  \/ \E o \in Owner : ReachLimit(o)
  \/ ForgetCandidates
  \/ \E h \in Handler : \/ \E t \in Tx : StartApproval(h, t)
                        \/ ReadTxs(h) \/ WriteTx(h) \/ WriteOwner(h)

Environment == NewBlock \/ \E t \in Tx : ChainMoves(t)

Next == ProcessTransactions \/ Signer \/ Agreement \/ Crash \/ Environment

Spec == Init /\ [][Next]_vars

-----------------------------------------------------------------------------
(* Properties.                                                             *)

\* the detailed table, read as the rows of the abstract one
Lifecycle == INSTANCE TxLifecycle WITH status <- status

\* and as what TxAgreement knows of a row
RowOf(s) == IF s \in {"none", "approved", "invalid"} THEN s ELSE "advanced"
Outline == INSTANCE GuardTable WITH row <- [t \in Tx |-> RowOf(status[t])]

(***************************************************************************)
(* Why OneValidTx and ImplementsLifecycle hold of a prompt signer: what    *)
(* each piece of work in progress still knows of the row it read.          *)
(***************************************************************************)

\* work in progress is about a transaction
WorkOK ==
  /\ task.pc # "idle" => task.tx \in Tx
  /\ task.pc \in {"advance", "reopen"} => Owned(task.tx)
  /\ \A h \in Handler : handler[h].pc # "idle" => handler[h].tx \in Tx

\* a signing request is outstanding only for a row that waits for it, or that is gone
JobInv == \A t \in Tx :
  jobs[t] <= 1 /\ (jobs[t] = 1 => status[t] \in {"inSign", "none"})

\* what a row read with status s may have become before the pass reaches it
MayHaveBecome(s) ==
  CASE s = "approved" -> {"approved", "none"}
    [] s = "inSign" -> {"inSign", "signFailed", "signed"}
    [] OTHER -> {s}

SnapInv == \A t \in Tx :
  snap[t].status # "none" =>
    status[t] \in MayHaveBecome(snap[t].status) /\ task.tx # t

\* the row the pass works on is the row it read, or what the pass made of it
TaskInv ==
  /\ task.pc \in {"mempool", "validity", "markInvalid"}
       => task.from \in {"signFailed", "sent"}
  /\ task.pc = "sign" => task.from = "signFailed"
  /\ task.pc = "markSent" => task.from \in {"signFailed", "signed"}
  /\ task.pc \in {"touch", "markCompleted"} => task.from = "sent"
  /\ task.pc # "idle" =>
       status[task.tx] = CASE task.pc = "advance" -> "completed"
                           [] task.pc = "reopen" -> "invalid"
                           [] OTHER -> task.from

\* the handler inside the semaphore still sees the rows its decision is based on
HandlerInv == \A h \in Handler :
  handler[h].pc = "write" =>
    LET t == handler[h].tx  old == handler[h].old IN
    /\ sem = h
    /\ handler[h].op = "insert" =>
         \A u \in Tx : Alike(t, u) => status[u] \notin ValidStatus
    /\ handler[h].op = "replace" =>
         /\ old \in Tx /\ Alike(t, old) /\ t < old
         /\ status[old] = "approved"
         /\ \A u \in Tx \ {old} : Alike(t, u) => status[u] \notin ValidStatus

(***************************************************************************)
(* The table implements the life of a transaction: a signed transaction is *)
(* never sent back to the signer, a completed or invalid one never         *)
(* revives, only a row that was not handed to the signer is replaced, and  *)
(* a transaction enters only when its owner has no other valid one.        *)
(* The hazards are passes that work from stale rows, signer callbacks that *)
(* write without a condition, and approvals that interleave with both.     *)
(***************************************************************************)
ImplementsLifecycle == Lifecycle!Spec

(***************************************************************************)
(* The table is the one that the agreement of the guards counts on: what   *)
(* was handed to the signer is never replaced, whatever the signer and the *)
(* chain make of it, and a rival enters only when it is given up.          *)
(***************************************************************************)
ImplementsTable == Outline!Spec

(***************************************************************************)
(* The assertion of insertEventOrOderTx: an event or an order never has    *)
(* more than one valid transaction of a type, whatever approvals, passes   *)
(* and signer answers overlap.                                             *)
(***************************************************************************)
OneValidTx == \A t, u \in Tx :
  Alike(t, u) /\ {status[t], status[u]} \subseteq ValidStatus => t = u

\* the inductive invariant behind OneValidTx and ImplementsLifecycle
IInv == /\ TypeOK /\ WorkOK /\ JobInv /\ SnapInv /\ TaskInv /\ HandlerInv
        /\ OneValidTx

\* the payment of o is confirmed
Paid(o) == \E t \in Tx : /\ OwnerOf[t] = o /\ TypeOf[t] = "payment"
                        /\ status[t] = "completed"

(***************************************************************************)
(* Watchers are rewarded, and the event counts as paid, only behind a      *)
(* confirmed payment: processSentTx completes the transaction before it    *)
(* advances the event, and a crash between the two, a re-approval or an    *)
(* invalidated reward never leaves an event ahead of its payment.          *)
(***************************************************************************)
PaidBeforeReward == \A t \in Tx :
  TypeOf[t] \in {"payment", "reward"} =>
    /\ TypeOf[t] = "reward" /\ status[t] # "none" => Paid(OwnerOf[t])
    /\ ownerStatus[OwnerOf[t]] \in {"pendingReward", "inReward", "completed"}
         => Paid(OwnerOf[t])

\* o has one transaction of that type, so no other competes with it
Uncontested(o, type) == \A t, u \in Tx :
  {OwnerOf[t], OwnerOf[u]} = {o} /\ {TypeOf[t], TypeOf[u]} = {type} => t = u

(***************************************************************************)
(* No event or order is left in progress with nothing in progress: while   *)
(* it is in payment, in reward or in process it has a valid transaction of *)
(* that type, or the pass that just invalidated it is about to reopen it.  *)
(* Nothing else in the service would ever pick such an event up again, and *)
(* after a crash between the two writes nothing does.  Nor is it so of two *)
(* transactions that compete: setTxAsApproved writes the status of the     *)
(* owner of a transaction that insertTx ignored for an older one, which a  *)
(* pass may have invalidated, and its owner reopened, in between.          *)
(***************************************************************************)
NoOrphan == crashes = 0 => \A o \in Owner : \A type \in OwnedType :
  ownerStatus[o] = InProgressStatus[type] /\ Uncontested(o, type) =>
    \E t \in Tx : /\ OwnerOf[t] = o /\ TypeOf[t] = type
                 /\ \/ status[t] \in ValidStatus
                    \/ task.pc = "reopen" /\ task.tx = t

(***************************************************************************)
(* A transaction never stays with the signer: a pass that finds it in sign *)
(* after txSignTimeout takes it back, even if the guard crashed and the    *)
(* signer's answer is lost.                                                *)
(***************************************************************************)
SigningEnds == \A t \in Tx : status[t] = "inSign" ~> status[t] # "inSign"

(***************************************************************************)
(* transactionJob reschedules itself for ever, and one pass after another  *)
(* finds the clock further on, so the timeout is eventually found passed.  *)
(***************************************************************************)
PassFairness ==
  /\ WF_vars(StartPass)
  /\ \A t \in Tx : /\ SF_vars(TimeoutInSignTx(t))
                   /\ WF_vars(SkipTx(t) \/ ProcessSignFailedTx(t)
                               \/ ProcessSignedTx(t) \/ ProcessSentTx(t))
                   /\ SF_vars(ProcessApprovedTx(t))
  /\ WF_vars(CheckMempool) /\ WF_vars(ValidTx \/ InvalidTx)
  /\ SF_vars(SignAgain) /\ WF_vars(MarkSent) /\ WF_vars(UpdateTxLastCheck)
  /\ WF_vars(MarkCompleted) /\ WF_vars(AdvanceOwner)
  /\ WF_vars(MarkInvalid) /\ WF_vars(ReopenOwner)

\* the semaphore is given back, and the signer's promises settle
ServiceFairness ==
  /\ PassFairness
  /\ \A h \in Handler : WF_vars(WriteTx(h)) /\ WF_vars(WriteOwner(h))
  /\ \A t \in Tx : WF_vars(HandleSuccessfulSign(t) \/ HandleFailedSign(t))

FairSpec == Spec /\ ServiceFairness
=============================================================================
