-------------------- MODULE TransactionProcessor_proofs --------------------
(***************************************************************************)
(* Proofs about TransactionProcessor, and Generation beside it, for every  *)
(* set of transactions, events, orders and handlers and every bound.       *)
(***************************************************************************)
EXTENDS Generation, FiniteSetTheorems, TLAPS

-----------------------------------------------------------------------------
(* The records the state is built from.                                    *)

LEMMA SnapshotType ==
  /\ NoSnap \in Snapshot
  /\ \A t \in Tx, s \in ActiveStatus, n \in Nat :
       [status |-> s, lastCheck |-> n] \in Snapshot
BY DEF NoSnap, Snapshot

LEMMA TaskType ==
  /\ IdleTask \in Task
  /\ IdleTask.pc = "idle"
  /\ \A k \in Task, pc \in TaskPC :
       /\ [k EXCEPT !.pc = pc] \in Task
       /\ [k EXCEPT !.pc = pc].pc = pc
       /\ [k EXCEPT !.pc = pc].tx = k.tx
       /\ [k EXCEPT !.pc = pc].from = k.from
BY DEF IdleTask, Task, TaskPC

LEMMA CallType ==
  /\ IdleHandler \in Call
  /\ IdleHandler.pc = "idle"
BY DEF IdleHandler, Call, InsertOp

LEMMA TypesOfConstants ==
  /\ PendingStatus \in [OwnedType -> OwnerStatus]
  /\ InProgressStatus \in [OwnedType -> OwnerStatus]
  /\ \A t \in Tx : ConfirmedOwnerStatus(t) \in OwnerStatus
  /\ \A t \in Tx : Owned(t) => TypeOf[t] \in OwnedType /\ OwnerOf[t] \in Owner
BY TxAssumption DEF PendingStatus, InProgressStatus, ConfirmedOwnerStatus,
     OwnedType, OwnerStatus, Owned

-----------------------------------------------------------------------------
(* What the building blocks of the actions preserve.                       *)

LEMMA SetTxStatusType ==
  ASSUME TypeOK, NEW t \in Tx, NEW s \in TransactionStatus, SetTxStatus(t, s)
  PROVE  status' \in [Tx -> RowStatus]
BY DEF TypeOK, SetTxStatus, RowStatus

LEMMA SetTxAsSignFailedType ==
  ASSUME TypeOK, NEW t \in Tx, SetTxAsSignFailed(t)
  PROVE  /\ status' \in [Tx -> RowStatus]
         /\ failedInSign' \in [Tx -> BOOLEAN]
BY DEF TypeOK, SetTxAsSignFailed, RowStatus, TransactionStatus

LEMMA SetOwnerStatusType ==
  ASSUME TypeOK, NEW t \in Tx, NEW s \in OwnerStatus, SetOwnerStatus(t, s)
  PROVE  ownerStatus' \in [Owner -> OwnerStatus]
BY DEF TypeOK, SetOwnerStatus

LEMMA BeginType ==
  ASSUME TypeOK, NEW t \in Tx, NEW s \in ActiveStatus, Begin(t, s)
  PROVE  /\ snap' \in [Tx -> Snapshot]
         /\ snap[t].status = s /\ snap[t].lastCheck \in Nat
         /\ task.pc = "idle"
<1>1. snap \in [Tx -> Snapshot] /\ snap[t] \in Snapshot
  BY DEF TypeOK
<1>2. snap' \in [Tx -> Snapshot]
  BY <1>1, SnapshotType DEF Begin
<1> QED
  BY <1>1, <1>2, TaskType DEF Begin, Snapshot

LEMMA EnterType ==
  ASSUME TypeOK, NEW t \in Tx, NEW s \in {"signFailed", "signed", "sent"},
         NEW pc \in {"mempool", "touch", "markSent", "markCompleted"},
         Begin(t, s), Enter(t, pc)
  PROVE  /\ task' \in Task /\ task'.tx = t /\ task'.pc = pc /\ task'.from = s
<1>1. snap[t].status = s /\ snap[t].lastCheck \in Nat
  BY BeginType DEF ActiveStatus
<1> QED
  BY <1>1 DEF Enter, Task, TaskPC

LEMMA RequestSignType ==
  ASSUME TypeOK, NEW t \in Tx, RequestSign(t)
  PROVE  /\ status' \in [Tx -> RowStatus]
         /\ jobs' \in [Tx -> Nat]
<1>1. status' \in [Tx -> RowStatus]
  BY SetTxStatusType DEF RequestSign, TransactionStatus
<1>2. jobs \in [Tx -> Nat] /\ jobs' = [jobs EXCEPT ![t] = jobs[t] + 1]
  BY DEF RequestSign, TypeOK
<1>3. jobs[t] + 1 \in Nat
  BY <1>2
<1> QED
  BY <1>1, <1>2, <1>3

LEMMA SubmitType ==
  ASSUME TypeOK, NEW t \in Tx, Submit(t)
  PROVE  chain' \in [Tx -> Place]
<1>1. CASE UNCHANGED chain
  BY <1>1 DEF TypeOK
<1>2. CASE chain' = [chain EXCEPT ![t].loc = "mempool"]
  <2>1. [chain[t] EXCEPT !.loc = "mempool"] \in Place
    BY DEF TypeOK, Place
  <2> QED
    BY <1>2, <2>1 DEF TypeOK
<1> QED
  BY <1>1, <1>2 DEF Submit

LEMMA InsertDecisionType ==
  ASSUME NEW t \in Tx
  PROVE  /\ InsertDecision(t).op \in InsertOp
         /\ InsertDecision(t).old \in Tx \cup {NoTx}
<1>1. CASE ~Owned(t)
  BY <1>1 DEF InsertDecision, InsertOp
<1>2. CASE Owned(t) /\ (ValidAlike(t) = {} \/ t \in ValidAlike(t))
  BY <1>2 DEF InsertDecision, InsertOp
<1>3. CASE Owned(t) /\ ~(ValidAlike(t) = {} \/ t \in ValidAlike(t))
  <2> DEFINE u == CHOOSE u \in ValidAlike(t) : TRUE
  <2>1. u \in Tx
    BY <1>3 DEF ValidAlike
  <2> HIDE DEF u
  <2>2. InsertDecision(t) = IF status[u] = "approved" /\ t < u
                            THEN [op |-> "replace", old |-> u]
                            ELSE [op |-> "skip", old |-> NoTx]
    BY <1>3 DEF InsertDecision, u
  <2> QED
    BY <2>1, <2>2 DEF InsertOp
<1> QED
  BY <1>1, <1>2, <1>3

LEMMA InsertNewTxType ==
  ASSUME TypeOK, NEW t \in Tx, NEW op, NEW old, InsertNewTx(t, op, old)
  PROVE  /\ status' \in [Tx -> RowStatus]
         /\ lastCheck' \in [Tx -> Nat]
         /\ failedInSign' \in [Tx -> BOOLEAN]
BY DEF TypeOK, InsertNewTx, RowStatus, TransactionStatus

-----------------------------------------------------------------------------
(* The invariant of the types: TypeOK, and work in progress is about a     *)
(* transaction of Tx.                                                      *)

TypeInv == TypeOK /\ WorkOK

LEMMA InitTypeInv == Init => TypeInv
<1> SUFFICES ASSUME Init PROVE TypeInv
  OBVIOUS
<1>1. TypeOK
  BY TxAssumption, ProcessorAssumption, SnapshotType, TaskType, CallType
     DEF Init, TypeOK, RowStatus, OwnerStatus, Place
<1>2. WorkOK
  BY TaskType, CallType DEF Init, WorkOK
<1> QED
  BY <1>1, <1>2 DEF TypeInv

\* the steps of a pass that take the next transaction of the list
LEMMA BeginStep ==
  ASSUME TypeInv, NEW t \in Tx,
         \/ StartPass \/ ProcessApprovedTx(t) \/ TimeoutInSignTx(t) \/ SkipTx(t)
         \/ ProcessSignFailedTx(t) \/ ProcessSignedTx(t) \/ ProcessSentTx(t)
  PROVE  TypeInv'
<1> USE DEF TypeInv, owners, pass, agreement, network
<1>1. CASE StartPass
  <2>1. snap' \in [Tx -> Snapshot]
    BY <1>1, SnapshotType DEF StartPass, TypeOK
  <2> QED
    BY <1>1, <2>1 DEF StartPass, TypeOK, WorkOK, table
<1>2. CASE ProcessApprovedTx(t)
  <2>1. /\ snap' \in [Tx -> Snapshot]
        /\ status' \in [Tx -> RowStatus]
        /\ jobs' \in [Tx -> Nat]
    BY <1>2, BeginType, RequestSignType DEF ProcessApprovedTx, ActiveStatus
  <2> QED
    BY <1>2, <2>1 DEF ProcessApprovedTx, TypeOK, WorkOK
<1>3. CASE TimeoutInSignTx(t)
  <2>1. /\ snap' \in [Tx -> Snapshot]
        /\ status' \in [Tx -> RowStatus]
        /\ failedInSign' \in [Tx -> BOOLEAN]
    BY <1>3, BeginType, SetTxAsSignFailedType DEF TimeoutInSignTx, ActiveStatus
  <2> QED
    BY <1>3, <2>1 DEF TimeoutInSignTx, TypeOK, WorkOK
<1>4. CASE SkipTx(t)
  <2>1. snap' \in [Tx -> Snapshot]
    BY <1>4, BeginType DEF SkipTx, ActiveStatus
  <2> QED
    BY <1>4, <2>1 DEF SkipTx, TypeOK, WorkOK, table
<1>5. CASE ProcessSignFailedTx(t)
  <2>1. /\ snap' \in [Tx -> Snapshot]
        /\ task' \in Task /\ task'.tx = t
        /\ task'.pc \in {"markSent", "mempool"}
    BY <1>5, BeginType, EnterType DEF ProcessSignFailedTx, ActiveStatus
  <2> QED
    BY <1>5, <2>1 DEF ProcessSignFailedTx, TypeOK, WorkOK, table
<1>6. CASE ProcessSignedTx(t)
  <2>1. /\ snap' \in [Tx -> Snapshot]
        /\ task' \in Task /\ task'.tx = t /\ task'.pc = "markSent"
        /\ chain' \in [Tx -> Place]
    BY <1>6, BeginType, EnterType, SubmitType DEF ProcessSignedTx, ActiveStatus
  <2> QED
    BY <1>6, <2>1 DEF ProcessSignedTx, TypeOK, WorkOK, table
<1>7. CASE ProcessSentTx(t)
  <2>1. /\ snap' \in [Tx -> Snapshot]
        /\ task' \in Task /\ task'.tx = t
        /\ task'.pc \in {"markCompleted", "touch", "mempool"}
    BY <1>7, BeginType, EnterType DEF ProcessSentTx, ActiveStatus
  <2> QED
    BY <1>7, <2>1 DEF ProcessSentTx, TypeOK, WorkOK, table
<1> QED
  BY <1>1, <1>2, <1>3, <1>4, <1>5, <1>6, <1>7

\* the steps of a pass that go on with the transaction it is working on
LEMMA TaskStep ==
  ASSUME TypeInv,
         \/ CheckMempool \/ ValidTx \/ InvalidTx \/ ChainCallFails
         \/ SignAgain \/ MarkSent \/ UpdateTxLastCheck
         \/ MarkCompleted \/ AdvanceOwner \/ MarkInvalid \/ ReopenOwner
  PROVE  TypeInv'
<1> USE DEF TypeInv, owners, pass, agreement, network
<1> DEFINE t == task.tx
<1>a. /\ task \in Task /\ IdleTask \in Task /\ IdleTask.pc = "idle"
      /\ task.pc # "idle" => t \in Tx
  BY TaskType DEF TypeOK, WorkOK
<1>b. ASSUME NEW pc \in TaskPC, Goto(pc)
      PROVE  task' \in Task /\ task'.pc = pc /\ task'.tx = t
  BY <1>a, <1>b, TaskType DEF Goto
<1> HIDE DEF t
<1>1. CASE CheckMempool
  <2>1. t \in Tx /\ task' \in Task /\ task'.tx = t
        /\ task'.pc \in {"validity", "markSent", "touch"}
    BY <1>1, <1>a, <1>b DEF CheckMempool, At, TaskPC
  <2> QED
    BY <1>1, <2>1 DEF CheckMempool, TypeOK, WorkOK, table
<1>2. CASE ValidTx
  <2>1. t \in Tx /\ chain' \in [Tx -> Place]
    BY <1>2, <1>a, SubmitType DEF ValidTx, At, t, TypeOK
  <2>2. task' \in Task /\ task'.pc \in {"sign", "idle"}
        /\ (task'.pc # "idle" => task'.tx = t)
    BY <1>2, <1>a, <1>b DEF ValidTx, Done, TaskPC
  <2> QED
    BY <1>2, <2>1, <2>2 DEF ValidTx, TypeOK, WorkOK, table
<1>3. CASE InvalidTx
  <2>1. t \in Tx
    BY <1>3, <1>a DEF InvalidTx, At
  <2>2. ASSUME NEW b \in BOOLEAN
        PROVE  LET k == [task EXCEPT !.pc = "markInvalid", !.unexpected = b]
               IN  k \in Task /\ k.pc = "markInvalid" /\ k.tx = t
    BY <1>a DEF Task, TaskPC, t
  <2>3. task' \in Task /\ task'.pc \in {"markInvalid", "idle"}
        /\ (task'.pc # "idle" => task'.tx = t)
    BY <1>3, <2>2, <1>a DEF InvalidTx, Done
  <2> QED
    BY <1>3, <2>1, <2>3 DEF InvalidTx, TypeOK, WorkOK, table
<1>4. CASE ChainCallFails
  BY <1>4, <1>a DEF ChainCallFails, Done, TypeOK, WorkOK, table
<1>5. CASE SignAgain
  <2>1. status' \in [Tx -> RowStatus] /\ jobs' \in [Tx -> Nat]
    BY <1>5, <1>a, RequestSignType DEF SignAgain, At, t
  <2> QED
    BY <1>5, <2>1, <1>a DEF SignAgain, Done, TypeOK, WorkOK
<1>6. CASE MarkSent
  <2>1. status' \in [Tx -> RowStatus]
    BY <1>6, <1>a, SetTxStatusType DEF MarkSent, At, t, TransactionStatus
  <2> QED
    BY <1>6, <2>1, <1>a DEF MarkSent, Done, TypeOK, WorkOK
<1>7. CASE UpdateTxLastCheck
  <2>1. lastCheck' \in [Tx -> Nat]
    BY <1>7 DEF UpdateTxLastCheck, TypeOK
  <2> QED
    BY <1>7, <2>1, <1>a DEF UpdateTxLastCheck, Done, TypeOK, WorkOK
<1>8. CASE MarkCompleted
  <2>1. status' \in [Tx -> RowStatus]
    BY <1>8, <1>a, SetTxStatusType DEF MarkCompleted, At, t, TransactionStatus
  <2>2. t \in Tx /\ task' \in Task /\ task'.pc \in {"advance", "idle"}
        /\ (task'.pc # "idle" => task'.tx = t /\ Owned(t))
    BY <1>8, <1>a, <1>b DEF MarkCompleted, At, Done, TaskPC, t
  <2> QED
    BY <1>8, <2>1, <2>2 DEF MarkCompleted, TypeOK, WorkOK
<1>9. CASE AdvanceOwner
  <2>1. ownerStatus' \in [Owner -> OwnerStatus]
    BY <1>9, <1>a, SetOwnerStatusType, TypesOfConstants DEF AdvanceOwner, At, t
  <2> QED
    BY <1>9, <2>1, <1>a DEF AdvanceOwner, Done, TypeOK, WorkOK, table
<1>10. CASE MarkInvalid
  <2>1. status' \in [Tx -> RowStatus]
    BY <1>10, <1>a, SetTxStatusType DEF MarkInvalid, At, t, TransactionStatus
  <2>2. t \in Tx /\ task' \in Task /\ task'.pc \in {"reopen", "idle"}
        /\ (task'.pc # "idle" => task'.tx = t /\ Owned(t))
    BY <1>10, <1>a, <1>b DEF MarkInvalid, At, Done, TaskPC, t
  <2> QED
    BY <1>10, <2>1, <2>2 DEF MarkInvalid, TypeOK, WorkOK
<1>11. CASE ReopenOwner
  <2>1. t \in Tx /\ Owned(t)
    BY <1>11, <1>a DEF ReopenOwner, At, WorkOK, t
  <2>2. ownerStatus' \in [Owner -> OwnerStatus]
    BY <1>11, <2>1, SetOwnerStatusType, TypesOfConstants DEF ReopenOwner, t
  <2>3. unexpectedFails' \in [Owner -> Nat]
    <3>1. unexpectedFails \in [Owner -> Nat] /\ OwnerOf[t] \in Owner
      BY <2>1, TypesOfConstants DEF TypeOK
    <3>2. unexpectedFails[OwnerOf[t]] + 1 \in Nat
      BY <3>1
    <3> QED
      BY <1>11, <3>1, <3>2 DEF ReopenOwner, t
  <2> QED
    BY <1>11, <2>2, <2>3, <1>a DEF ReopenOwner, Done, TypeOK, WorkOK, table
<1> QED
  BY <1>1, <1>2, <1>3, <1>4, <1>5, <1>6, <1>7, <1>8, <1>9, <1>10, <1>11

\* the signer's answers and the jobs that make candidates
LEMMA CandidateStep ==
  ASSUME TypeInv, Signer \/ ForgetCandidates \/ (\E o \in Owner : ReachLimit(o))
                  \/ (\E t \in Tx : GenerateTx(t) \/ EnqueueSignFailedTx(t)
                                    \/ AgreeToRequest(t) \/ InsertManualTx(t))
  PROVE  TypeInv'
<1> USE DEF TypeInv, owners, pass, agreement, network
<1>1. ASSUME NEW t \in Tx, HandleSuccessfulSign(t) PROVE TypeInv'
  <2>1. status' \in [Tx -> RowStatus]
    BY <1>1, SetTxStatusType DEF HandleSuccessfulSign, TransactionStatus
  <2>2. /\ jobs' \in [Tx -> Nat]
        /\ lastCheck' \in [Tx -> Nat]
    BY <1>1 DEF HandleSuccessfulSign, TypeOK
  <2> QED
    BY <1>1, <2>1, <2>2 DEF HandleSuccessfulSign, TypeOK, WorkOK
<1>2. ASSUME NEW t \in Tx, HandleFailedSign(t) PROVE TypeInv'
  <2>1. jobs' \in [Tx -> Nat]
    BY <1>2 DEF HandleFailedSign, TypeOK
  <2> QED
    BY <1>2, <2>1, SetTxAsSignFailedType DEF HandleFailedSign, TypeOK, WorkOK
<1>3. CASE ForgetCandidates
  BY <1>3 DEF ForgetCandidates, TypeOK, WorkOK, table
<1>4. ASSUME NEW o \in Owner, ReachLimit(o) PROVE TypeInv'
  BY <1>4 DEF ReachLimit, TypeOK, WorkOK, OwnerStatus, table
<1>5. ASSUME NEW t \in Tx, GenerateTx(t) PROVE TypeInv'
  BY <1>5 DEF GenerateTx, TypeOK, WorkOK, table
<1>6. ASSUME NEW t \in Tx, EnqueueSignFailedTx(t) PROVE TypeInv'
  BY <1>6 DEF EnqueueSignFailedTx, TypeOK, WorkOK, table
<1>7. ASSUME NEW t \in Tx, AgreeToRequest(t) PROVE TypeInv'
  BY <1>7 DEF AgreeToRequest, TypeOK, WorkOK, table
<1>8. ASSUME NEW t \in Tx, InsertManualTx(t) PROVE TypeInv'
  BY <1>8, InsertNewTxType DEF InsertManualTx, TypeOK, WorkOK
<1> QED
  BY <1>1, <1>2, <1>3, <1>4, <1>5, <1>6, <1>7, <1>8 DEF Signer

\* setTxAsApproved
LEMMA ApprovalStep ==
  ASSUME TypeInv, NEW h \in Handler,
         \/ \E t \in Tx : StartApproval(h, t)
         \/ ReadTxs(h) \/ WriteTx(h) \/ WriteOwner(h)
  PROVE  TypeInv'
<1> USE DEF TypeInv, owners, pass, agreement, network
<1> DEFINE t == handler[h].tx
<1>a. /\ handler \in [Handler -> Call] /\ handler[h] \in Call
      /\ IdleHandler \in Call /\ IdleHandler.pc = "idle"
      /\ handler[h].pc # "idle" => t \in Tx
  BY CallType DEF TypeOK, WorkOK
<1>b. ASSUME NEW c \in Call, c.pc # "idle" => c.tx \in Tx,
             handler' = [handler EXCEPT ![h] = c]
      PROVE  /\ handler' \in [Handler -> Call]
             /\ \A g \in Handler : handler'[g].pc # "idle" => handler'[g].tx \in Tx
  BY <1>a, <1>b DEF WorkOK
<1> HIDE DEF t
<1>1. ASSUME NEW u \in Tx, StartApproval(h, u) PROVE TypeInv'
  <2>1. CASE status[u] = "invalid"
    BY <1>1, <2>1 DEF StartApproval, TypeOK, WorkOK, table
  <2>2. CASE status[u] # "invalid"
    <3> DEFINE c == [IdleHandler EXCEPT !.pc = "read", !.tx = u,
                                        !.fresh = (status[u] = "none")]
    <3>1. c \in Call /\ c.tx \in Tx
      BY DEF IdleHandler, Call, InsertOp
    <3>2. handler' = [handler EXCEPT ![h] = c] /\ UNCHANGED candidates
      BY <1>1, <2>2 DEF StartApproval
    <3> HIDE DEF c
    <3> QED
      BY <1>1, <1>b, <3>1, <3>2 DEF StartApproval, TypeOK, WorkOK, table
  <2> QED
    BY <2>1, <2>2
<1>2. CASE ReadTxs(h)
  <2>1. t \in Tx
    BY <1>2, <1>a DEF ReadTxs
  <2> DEFINE c == [handler[h] EXCEPT !.pc = "write", !.op = InsertDecision(t).op,
                                     !.old = InsertDecision(t).old]
  <2>2. c \in Call /\ c.tx \in Tx
    BY <1>a, <2>1, InsertDecisionType DEF Call, t
  <2>3. \/ handler' = [handler EXCEPT ![h] = IdleHandler] /\ UNCHANGED sem
        \/ handler' = [handler EXCEPT ![h] = c] /\ sem' = h
    BY <1>2, <1>a DEF ReadTxs, t
  <2> HIDE DEF c
  <2> QED
    BY <1>2, <1>a, <1>b, <2>2, <2>3 DEF ReadTxs, TypeOK, WorkOK, table
<1>3. CASE WriteTx(h)
  <2>1. t \in Tx
    BY <1>3, <1>a DEF WriteTx
  <2> DEFINE c == [handler[h] EXCEPT !.pc = "owner", !.op = "skip", !.old = NoTx]
  <2>2. c \in Call /\ c.tx \in Tx
    BY <1>a, <2>1 DEF Call, InsertOp, t
  <2>3. /\ \/ handler' = [handler EXCEPT ![h] = IdleHandler]
           \/ handler' = [handler EXCEPT ![h] = c]
        /\ candidates' \in SUBSET Tx
        /\ UNCHANGED table \/ InsertNewTx(t, handler[h].op, handler[h].old)
    BY <1>3, <1>a DEF WriteTx, TypeOK, t
  <2>4. /\ status' \in [Tx -> RowStatus]
        /\ lastCheck' \in [Tx -> Nat]
        /\ failedInSign' \in [Tx -> BOOLEAN]
    BY <2>1, <2>3, InsertNewTxType DEF TypeOK, table
  <2> HIDE DEF c
  <2>5. /\ handler' \in [Handler -> Call]
        /\ \A g \in Handler : handler'[g].pc # "idle" => handler'[g].tx \in Tx
    BY <1>a, <1>b, <2>2, <2>3
  <2> QED
    BY <1>3, <2>3, <2>4, <2>5 DEF WriteTx, TypeOK, WorkOK
<1>4. CASE WriteOwner(h)
  <2>1. t \in Tx
    BY <1>4, <1>a DEF WriteOwner
  <2>2. ownerStatus' \in [Owner -> OwnerStatus]
    BY <1>4, <2>1, SetOwnerStatusType, TypesOfConstants DEF WriteOwner, TypeOK, t
  <2> QED
    BY <1>4, <1>a, <1>b, <2>2 DEF WriteOwner, TypeOK, WorkOK, table
<1> QED
  BY <1>1, <1>2, <1>3, <1>4

LEMMA EnvironmentStep == TypeInv /\ (Crash \/ Environment) => TypeInv'
<1> USE DEF TypeInv, owners, pass, agreement, network
<1>1. ASSUME TypeInv, Crash PROVE TypeInv'
  BY <1>1, SnapshotType, TaskType, CallType DEF Crash, TypeOK, WorkOK, table
<1>2. ASSUME TypeInv, NewBlock PROVE TypeInv'
  BY <1>2 DEF NewBlock, TypeOK, WorkOK, table
<1>3. ASSUME TypeInv, NEW t \in Tx, ChainMoves(t) PROVE TypeInv'
  <2>1. chain' \in [Tx -> Place]
    BY <1>3 DEF ChainMoves, Move, TypeOK, Place
  <2> QED
    BY <1>3, <2>1 DEF ChainMoves, TypeOK, WorkOK, table
<1> QED
  BY <1>1, <1>2, <1>3 DEF Environment

LEMMA TypeInvStep == TypeInv /\ [Next]_vars => TypeInv'
<1> SUFFICES ASSUME TypeInv, [Next]_vars PROVE TypeInv'
  OBVIOUS
<1>1. CASE UNCHANGED vars
  BY <1>1 DEF vars, table, owners, pass, agreement, network, TypeInv, TypeOK, WorkOK
<1>2. CASE ProcessTransactions
  <2>1. CASE StartPass
    <3>1. PICK t \in Tx : status[t] \in ActiveStatus
      BY <2>1 DEF StartPass
    <3> QED
      BY <2>1, <3>1, BeginStep
  <2> QED
    BY <1>2, <2>1, BeginStep, TaskStep DEF ProcessTransactions
<1>3. CASE Signer \/ Agreement
  BY <1>3, CandidateStep, ApprovalStep DEF Agreement
<1>4. CASE Crash \/ Environment
  BY <1>4, EnvironmentStep
<1> QED
  BY <1>1, <1>2, <1>3, <1>4 DEF Next

LEMMA TypeInvAlways == Spec => []TypeInv
BY InitTypeInv, TypeInvStep, PTL DEF Spec

(***************************************************************************)
(* The table and everything that works on it keep their types, in every    *)
(* behaviour of a guard: an event never gets a status of the Transaction   *)
(* table, and a pass never works on a row outside its list.                *)
(***************************************************************************)
THEOREM TypeCorrect == Spec => []TypeOK
<1>1. TypeInv => TypeOK
  BY DEF TypeInv
<1> QED
  BY <1>1, TypeInvAlways, PTL

-----------------------------------------------------------------------------
(* The invariant of the work in progress, under a prompt signer.  Each     *)
(* lemma covers the actions that disturb the same part of the state.       *)

WorkInv == JobInv /\ SnapInv /\ TaskInv /\ HandlerInv

LEMMA InitIInv == Init => IInv
<1> SUFFICES ASSUME Init PROVE IInv
  OBVIOUS
<1>1. TypeOK /\ WorkOK
  BY InitTypeInv DEF TypeInv
<1>2. JobInv /\ SnapInv
  BY DEF Init, JobInv, SnapInv, NoSnap
<1>3. TaskInv /\ HandlerInv
  BY DEF Init, TaskInv, HandlerInv, IdleTask, IdleHandler
<1>4. OneValidTx
  BY DEF Init, OneValidTx, ValidStatus, TransactionStatus
<1> QED
  BY <1>1, <1>2, <1>3, <1>4 DEF IInv

LEMMA NoSnapOrTx ==
  /\ NoSnap.status = "none"
  /\ IdleTask.tx \notin Tx /\ IdleTask.pc = "idle"
BY ProcessorAssumption DEF NoSnap, IdleTask

\* only the owner of the semaphore approves a row, or takes an approved one away
LEMMA HandlerStays ==
  ASSUME IInv, UNCHANGED <<handler, sem>>,
         sem # NoHandler =>
           \A u \in Tx : /\ status[u] = "approved" => status'[u] = "approved"
                         /\ status[u] \notin ValidStatus => status'[u] \notin ValidStatus
  PROVE  HandlerInv'
BY ProcessorAssumption DEF IInv, HandlerInv

\* a pass that takes the next transaction without writing its row
LEMMA BeginWork ==
  ASSUME IInv, NEW t \in Tx,
         \/ StartPass \/ SkipTx(t) \/ ProcessSignFailedTx(t)
         \/ ProcessSignedTx(t) \/ ProcessSentTx(t)
  PROVE  WorkInv'
<1> USE DEF table, owners, agreement, network
<1>1. UNCHANGED <<status, jobs, handler, sem>>
  BY DEF StartPass, SkipTx, ProcessSignFailedTx, ProcessSignedTx, ProcessSentTx
<1>2. JobInv' /\ HandlerInv'
  BY <1>1, HandlerStays DEF IInv, JobInv
<1>3. SnapInv' /\ TaskInv'
  <2>1. CASE StartPass
    <3>1. TaskInv'
      BY <2>1, NoSnapOrTx DEF StartPass, TaskInv
    <3>2. SnapInv'
      BY <2>1, NoSnapOrTx DEF StartPass, SnapInv, MayHaveBecome
    <3> QED
      BY <3>1, <3>2
  <2>2. CASE SkipTx(t)
    <3>1. UNCHANGED task /\ snap' = [snap EXCEPT ![t] = NoSnap]
      BY <2>2 DEF SkipTx, Begin
    <3>2. SnapInv'
      BY <1>1, <3>1, NoSnapOrTx DEF IInv, TypeOK, SnapInv
    <3> QED
      BY <1>1, <3>1, <3>2 DEF IInv, TaskInv
  <2>3. ASSUME NEW s \in {"signFailed", "signed", "sent"},
               NEW pc \in {"mempool", "touch", "markSent", "markCompleted"},
               Begin(t, s), Enter(t, pc),
               pc = "mempool" => s \in {"signFailed", "sent"},
               pc = "markSent" => s \in {"signFailed", "signed"},
               pc \in {"touch", "markCompleted"} => s = "sent"
        PROVE  SnapInv' /\ TaskInv'
    <3>1. /\ task'.tx = t /\ task'.pc = pc /\ task'.from = s
          /\ snap[t].status = s /\ snap' = [snap EXCEPT ![t] = NoSnap]
      BY <2>3, EnterType DEF Begin, IInv
    <3>2. status[t] = s
      BY <3>1 DEF IInv, SnapInv, MayHaveBecome
    <3>3. SnapInv'
      BY <1>1, <3>1, NoSnapOrTx DEF IInv, TypeOK, SnapInv
    <3>4. TaskInv'
      BY <1>1, <2>3, <3>1, <3>2 DEF TaskInv
    <3> QED
      BY <3>3, <3>4
  <2>4. CASE ProcessSignFailedTx(t)
    BY <2>3, <2>4 DEF ProcessSignFailedTx
  <2>5. CASE ProcessSignedTx(t)
    BY <2>3, <2>5 DEF ProcessSignedTx
  <2>6. CASE ProcessSentTx(t)
    BY <2>3, <2>6 DEF ProcessSentTx
  <2> QED
    BY <2>1, <2>2, <2>4, <2>5, <2>6
<1> QED
  BY <1>2, <1>3 DEF WorkInv

\* a pass that goes on with its transaction without writing its row
LEMMA TaskWork ==
  ASSUME IInv,
         \/ CheckMempool \/ ValidTx \/ InvalidTx \/ ChainCallFails
         \/ UpdateTxLastCheck \/ AdvanceOwner \/ ReopenOwner
  PROVE  WorkInv'
<1> USE DEF table, owners, pass, agreement, network
<1>1. UNCHANGED <<status, jobs, handler, sem, snap>>
  BY DEF CheckMempool, ValidTx, InvalidTx, ChainCallFails, UpdateTxLastCheck,
         AdvanceOwner, ReopenOwner
<1>2. JobInv' /\ HandlerInv'
  BY <1>1, HandlerStays DEF IInv, JobInv
<1>3. task' = IdleTask
      \/ /\ task'.tx = task.tx /\ task'.from = task.from /\ task.pc # "idle"
         /\ \/ task.pc = "mempool" /\ task'.pc \in {"validity", "markSent", "touch"}
            \/ task.pc = "validity" /\ task'.pc \in {"sign", "markInvalid"}
         /\ task'.pc = "sign" => task.from = "signFailed"
         /\ task'.pc = "markSent" => task.from = "signFailed"
         /\ task'.pc = "touch" => task.from # "signFailed"
  <2>1. task \in Task
    BY DEF IInv, TypeOK
  <2>2. CASE CheckMempool
    BY <2>1, <2>2 DEF CheckMempool, At, Goto, Task, TaskPC
  <2>3. CASE ValidTx
    BY <2>1, <2>3 DEF ValidTx, At, Goto, Done, Task, TaskPC
  <2>4. CASE InvalidTx
    BY <2>1, <2>4 DEF InvalidTx, At, Done, Task, TaskPC
  <2>5. CASE ChainCallFails \/ UpdateTxLastCheck \/ AdvanceOwner \/ ReopenOwner
    BY <2>5 DEF ChainCallFails, UpdateTxLastCheck, AdvanceOwner, ReopenOwner, Done
  <2> QED
    BY <2>2, <2>3, <2>4, <2>5
<1>4. SnapInv'
  BY <1>1, <1>3, NoSnapOrTx DEF IInv, SnapInv
<1>5. TaskInv'
  BY <1>1, <1>3, NoSnapOrTx DEF IInv, TaskInv
<1> QED
  BY <1>2, <1>4, <1>5 DEF WorkInv

\* steps that leave the rows and the work in progress alone
LEMMA IdleWork ==
  ASSUME IInv, UNCHANGED <<status, jobs, snap, task, handler, sem>>
  PROVE  WorkInv'
<1>1. HandlerInv'
  BY HandlerStays
<1>2. JobInv' /\ SnapInv' /\ TaskInv'
  BY DEF IInv, JobInv, SnapInv, TaskInv
<1> QED
  BY <1>1, <1>2 DEF WorkInv

\* handing a row to the signer, under the semaphore
LEMMA RequestWork ==
  ASSUME IInv, PromptSigner, SignAgain \/ \E t \in Tx : ProcessApprovedTx(t)
  PROVE  WorkInv'
<1> USE DEF table, owners, pass, agreement, network
<1>1. ASSUME NEW t \in Tx, RequestSign(t), UNCHANGED <<handler, sem>>
      PROVE  /\ HandlerInv' /\ JobInv'
             /\ status' = IF status[t] = "none" THEN status
                          ELSE [status EXCEPT ![t] = "inSign"]
  <2>1. /\ sem = NoHandler
        /\ jobs[t] = 0 /\ jobs' = [jobs EXCEPT ![t] = jobs[t] + 1]
        /\ status' = IF status[t] = "none" THEN status
                      ELSE [status EXCEPT ![t] = "inSign"]
    BY <1>1 DEF RequestSign, SemaphoreFree, Settled, SetTxStatus
  <2>2. HandlerInv'
    BY <1>1, <2>1, HandlerStays
  <2>3. JobInv'
    BY <2>1 DEF IInv, TypeOK, JobInv
  <2> QED
    BY <2>1, <2>2, <2>3
<1>2. ASSUME NEW t \in Tx, ProcessApprovedTx(t) PROVE WorkInv'
  <2>1. /\ RequestSign(t) /\ UNCHANGED <<handler, sem, task>>
        /\ task = IdleTask
        /\ snap' = [snap EXCEPT ![t] = NoSnap]
    BY <1>2 DEF ProcessApprovedTx, Begin
  <2>2. SnapInv'
    BY <1>1, <2>1, NoSnapOrTx DEF IInv, TypeOK, SnapInv
  <2>3. TaskInv'
    BY <2>1, NoSnapOrTx DEF TaskInv
  <2> QED
    BY <1>1, <2>1, <2>2, <2>3 DEF WorkInv
<1>3. CASE SignAgain
  <2> DEFINE t == task.tx
  <2>1. /\ RequestSign(t) /\ UNCHANGED <<handler, sem, snap>>
        /\ task' = IdleTask /\ t \in Tx
    BY <1>3 DEF SignAgain, Done, At, IInv, WorkOK
  <2>2. SnapInv'
    <3>1. snap[t].status = "none"
      BY <2>1 DEF IInv, SnapInv
    <3> QED
      BY <1>1, <2>1, <3>1, NoSnapOrTx DEF IInv, TypeOK, SnapInv
  <2>3. TaskInv'
    BY <2>1, NoSnapOrTx DEF TaskInv
  <2> QED
    BY <1>1, <2>1, <2>2, <2>3 DEF WorkInv
<1> QED
  BY <1>2, <1>3

\* the pass writes what it found out about its transaction
LEMMA MarkWork ==
  ASSUME IInv, MarkSent \/ MarkCompleted \/ MarkInvalid
  PROVE  WorkInv'
<1> USE DEF table, owners, pass, agreement, network
<1> DEFINE t == task.tx
<1>1. /\ UNCHANGED <<handler, sem, jobs, snap>>
      /\ task.pc \in {"markSent", "markCompleted", "markInvalid"}
      /\ t \in Tx /\ status[t] = task.from
      /\ status[t] \in {"signFailed", "signed", "sent"}
  BY DEF MarkSent, MarkCompleted, MarkInvalid, At, IInv, WorkOK, TaskInv
<1>2. PICK s \in {"sent", "completed", "invalid"} :
        /\ status' = [status EXCEPT ![t] = s]
        /\ \/ task' = IdleTask
           \/ /\ task'.tx = t
              /\ \/ task'.pc = "advance" /\ s = "completed"
                 \/ task'.pc = "reopen" /\ s = "invalid"
  <2>1. task \in Task
    BY DEF IInv, TypeOK
  <2>2. CASE MarkSent
    BY <1>1, <2>2 DEF MarkSent, SetTxStatus, Done
  <2>3. CASE MarkCompleted
    BY <1>1, <2>1, <2>3 DEF MarkCompleted, SetTxStatus, Done, Goto, Task, TaskPC
  <2>4. CASE MarkInvalid
    BY <1>1, <2>1, <2>4 DEF MarkInvalid, SetTxStatus, Done, Goto, Task, TaskPC
  <2> QED
    BY <2>2, <2>3, <2>4
<1> HIDE DEF t
<1>3. status \in [Tx -> RowStatus] /\ jobs \in [Tx -> Nat]
  BY DEF IInv, TypeOK
<1>4. HandlerInv'
  <2>1. status[t] \in ValidStatus
    BY <1>1 DEF ValidStatus, TransactionStatus
  <2> QED
    BY <1>1, <1>2, <1>3, <2>1, HandlerStays
<1>5. JobInv'
  BY <1>1, <1>2, <1>3 DEF IInv, JobInv
<1>6. SnapInv'
  <2>1. snap[t].status = "none"
    BY <1>1 DEF IInv, SnapInv, t
  <2> QED
    BY <1>1, <1>2, <1>3, <2>1, NoSnapOrTx DEF IInv, SnapInv, t
<1>7. TaskInv'
  BY <1>1, <1>2, <1>3, NoSnapOrTx DEF TaskInv
<1> QED
  BY <1>4, <1>5, <1>6, <1>7 DEF WorkInv

\* a row in sign leaves the signer: an answer, or the timeout
LEMMA SignerWork ==
  ASSUME IInv, PromptSigner, NEW t \in Tx,
         HandleSuccessfulSign(t) \/ HandleFailedSign(t) \/ TimeoutInSignTx(t)
  PROVE  WorkInv'
<1> USE DEF table, owners, pass, agreement, network
<1>1. /\ UNCHANGED <<handler, sem, task>>
      /\ \/ UNCHANGED snap
         \/ snap' = [snap EXCEPT ![t] = NoSnap]
  BY DEF HandleSuccessfulSign, HandleFailedSign, TimeoutInSignTx, Begin
<1>2. status \in [Tx -> RowStatus] /\ jobs \in [Tx -> Nat] /\ snap \in [Tx -> Snapshot]
  BY DEF IInv, TypeOK
<1>3. /\ \/ UNCHANGED status
         \/ /\ status[t] = "inSign"
            /\ \E s \in {"signed", "signFailed"} : status' = [status EXCEPT ![t] = s]
      /\ \/ jobs' = [jobs EXCEPT ![t] = jobs[t] - 1] /\ jobs[t] = 1
         \/ UNCHANGED jobs /\ jobs[t] = 0
  <2>1. CASE HandleSuccessfulSign(t)
    BY <1>2, <2>1 DEF HandleSuccessfulSign, SetTxStatus, IInv, JobInv
  <2>2. CASE HandleFailedSign(t)
    BY <1>2, <2>2 DEF HandleFailedSign, SetTxAsSignFailed, IInv, JobInv
  <2>3. CASE TimeoutInSignTx(t)
    BY <1>2, <2>3 DEF TimeoutInSignTx, SetTxAsSignFailed, Settled
  <2> QED
    BY <2>1, <2>2, <2>3
<1>4. HandlerInv'
  BY <1>1, <1>2, <1>3, HandlerStays DEF ValidStatus, TransactionStatus
<1>5. JobInv'
  BY <1>2, <1>3 DEF IInv, JobInv
<1>6. SnapInv'
  <2>1. \A u \in Tx : snap'[u].status # "none" => snap'[u] = snap[u]
    BY <1>1, <1>2, NoSnapOrTx
  <2>2. \A u \in Tx : snap[u].status # "none" => status'[u] \in MayHaveBecome(snap[u].status)
    BY <1>2, <1>3 DEF IInv, SnapInv, MayHaveBecome
  <2> QED
    BY <1>1, <2>1, <2>2 DEF IInv, SnapInv
<1>7. TaskInv'
  <2>1. task.pc # "idle" => task.tx \in Tx /\ status[task.tx] # "inSign"
    BY DEF IInv, WorkOK, TaskInv, TypeOK, Task
  <2>2. task.pc # "idle" => status'[task.tx] = status[task.tx]
    BY <1>2, <1>3, <2>1
  <2> QED
    BY <1>1, <2>2 DEF IInv, TaskInv
<1> QED
  BY <1>4, <1>5, <1>6, <1>7 DEF WorkInv

LEMMA AtMostOne ==
  ASSUME NEW S, IsFiniteSet(S), NEW T \in SUBSET S, Cardinality(T) <= 1, NEW x \in T
  PROVE  T = {x}
<1>1. IsFiniteSet(T) /\ IsFiniteSet({x}) /\ Cardinality({x}) = 1
  BY FS_Subset, FS_Singleton
<1>2. Cardinality({x}) <= Cardinality(T) /\ Cardinality(T) \in Nat
  BY <1>1, FS_Subset, FS_CardinalityType
<1>3. Cardinality(T) = Cardinality({x})
  BY <1>1, <1>2
<1> QED
  BY <1>1, <1>3, FS_Subset

\* what insertTx decides on the rows it reads under the semaphore
LEMMA DecisionFacts ==
  ASSUME TypeOK, NEW t \in Tx
  PROVE  LET op == InsertDecision(t).op  old == InsertDecision(t).old IN
         /\ op = "insert" => \A u \in Tx : Alike(t, u) => status[u] \notin ValidStatus
         /\ op = "replace" /\ Cardinality(ValidAlike(t)) <= 1 =>
              /\ old \in Tx /\ Alike(t, old) /\ t < old
              /\ status[old] = "approved"
              /\ \A u \in Tx \ {old} : Alike(t, u) => status[u] \notin ValidStatus
<1> DEFINE op == InsertDecision(t).op
           old == InsertDecision(t).old
<1>1. CASE ~Owned(t)
  BY <1>1 DEF InsertDecision, Alike
<1>2. CASE Owned(t) /\ ValidAlike(t) = {}
  BY <1>2 DEF InsertDecision, ValidAlike
<1>3. CASE Owned(t) /\ t \in ValidAlike(t)
  BY <1>3 DEF InsertDecision
<1>4. CASE Owned(t) /\ ValidAlike(t) # {} /\ t \notin ValidAlike(t)
  <2> DEFINE u == CHOOSE u \in ValidAlike(t) : TRUE
  <2>1. u \in ValidAlike(t)
    BY <1>4
  <2> HIDE DEF u
  <2>2. InsertDecision(t) = IF status[u] = "approved" /\ t < u
                            THEN [op |-> "replace", old |-> u]
                            ELSE [op |-> "skip", old |-> NoTx]
    BY <1>4 DEF InsertDecision, u
  <2>3. u \in Tx /\ Alike(t, u)
    BY <2>1 DEF ValidAlike
  <2>4. ASSUME Cardinality(ValidAlike(t)) <= 1
        PROVE  \A v \in Tx \ {u} : Alike(t, v) => status[v] \notin ValidStatus
    <3>1. ValidAlike(t) \subseteq {u}
      BY <2>1, <2>4, AtMostOne, ProcessorAssumption DEF ValidAlike
    <3> QED
      BY <3>1 DEF ValidAlike
  <2> QED
    BY <2>2, <2>3, <2>4
<1> QED
  BY <1>1, <1>2, <1>3, <1>4

\* one call has changed from its record to c
LEMMA HandlerMoves ==
  ASSUME IInv, NEW h \in Handler, NEW c \in Call, c.pc # "write",
         handler' = [handler EXCEPT ![h] = c],
         \/ UNCHANGED <<status, sem>>
         \/ sem = h
  PROVE  HandlerInv'
<1>1. \A g \in Handler : handler'[g].pc = "write" => g # h /\ handler'[g] = handler[g]
  BY DEF IInv, TypeOK
<1> QED
  BY <1>1 DEF IInv, HandlerInv

LEMMA ApprovalWork ==
  ASSUME IInv, NEW h \in Handler,
         (\E t \in Tx : StartApproval(h, t)) \/ ReadTxs(h) \/ WriteOwner(h)
  PROVE  WorkInv'
<1> USE DEF table, owners, pass, agreement, network
<1>1. UNCHANGED <<status, jobs, snap, task>>
  BY DEF StartApproval, ReadTxs, WriteOwner
<1>2. JobInv' /\ SnapInv' /\ TaskInv'
  BY <1>1 DEF IInv, JobInv, SnapInv, TaskInv
<1>3. HandlerInv'
  <2>1. handler \in [Handler -> Call] /\ IdleHandler \in Call /\ IdleHandler.pc = "idle"
    BY CallType DEF IInv, TypeOK
  <2>2. ASSUME NEW t \in Tx, StartApproval(h, t) PROVE HandlerInv'
    <3>1. CASE status[t] = "invalid"
      BY <1>1, <2>2, <3>1, HandlerStays DEF StartApproval
    <3>2. CASE status[t] # "invalid"
      <4> DEFINE c == [IdleHandler EXCEPT !.pc = "read", !.tx = t,
                                          !.fresh = (status[t] = "none")]
      <4>1. c \in Call /\ c.pc # "write"
        BY DEF IdleHandler, Call, InsertOp
      <4>2. handler' = [handler EXCEPT ![h] = c] /\ UNCHANGED <<status, sem>>
        BY <2>2, <3>2 DEF StartApproval
      <4> HIDE DEF c
      <4> QED
        BY <4>1, <4>2, HandlerMoves
    <3> QED
      BY <3>1, <3>2
  <2>3. CASE WriteOwner(h)
    BY <1>1, <2>1, <2>3, HandlerMoves DEF WriteOwner
  <2>4. CASE ReadTxs(h)
    <3> DEFINE t == handler[h].tx
               op == InsertDecision(t).op
               old == InsertDecision(t).old
    <3>1. t \in Tx
      BY <2>4 DEF ReadTxs, IInv, WorkOK
    <3>2. CASE Cardinality(ValidAlike(t)) > 1
      BY <1>1, <2>1, <2>4, <3>2, HandlerMoves DEF ReadTxs
    <3>3. CASE ~(Cardinality(ValidAlike(t)) > 1)
      <4>1. Cardinality(ValidAlike(t)) <= 1
        <5>1. Cardinality(ValidAlike(t)) \in Nat
          BY ProcessorAssumption, FS_Subset, FS_CardinalityType DEF ValidAlike
        <5> QED
          BY <3>3, <5>1
      <4>2. /\ sem = NoHandler /\ sem' = h
            /\ handler' = [handler EXCEPT ![h] =
                 [handler[h] EXCEPT !.pc = "write", !.op = op, !.old = old]]
        BY <2>4, <3>3 DEF ReadTxs, SemaphoreFree
      <4>3. /\ handler'[h].tx = t /\ handler'[h].op = op /\ handler'[h].old = old
            /\ \A g \in Handler \ {h} : handler'[g].pc # "write"
        BY <2>1, <4>2, ProcessorAssumption DEF IInv, HandlerInv, Call
      <4>4. /\ op = "insert" =>
                 \A u \in Tx : Alike(t, u) => status[u] \notin ValidStatus
            /\ op = "replace" =>
                 /\ old \in Tx /\ Alike(t, old) /\ t < old
                 /\ status[old] = "approved"
                 /\ \A u \in Tx \ {old} : Alike(t, u) => status[u] \notin ValidStatus
        BY <3>1, <4>1, DecisionFacts DEF IInv
      <4> HIDE DEF t, op, old
      <4> QED
        BY <1>1, <4>2, <4>3, <4>4 DEF HandlerInv
    <3> QED
      BY <3>2, <3>3
  <2> QED
    BY <2>2, <2>3, <2>4
<1> QED
  BY <1>2, <1>3 DEF WorkInv

\* what the writes of insertTx and insertManualTx make of the statuses
LEMMA InsertFacts ==
  ASSUME IInv, NEW t \in Tx, NEW op, NEW old,
         ~KeyViolation(t, op, old), InsertNewTx(t, op, old)
  PROVE  \/ UNCHANGED status
         \/ op = "insert" /\ status[t] = "none"
            /\ status' = [status EXCEPT ![t] = "approved"]
         \/ op = "replace" /\ status[t] = "none"
            /\ status' = [status EXCEPT ![old] = "none", ![t] = "approved"]
BY DEF KeyViolation, InsertNewTx

LEMMA InsertWork ==
  ASSUME IInv, PromptSigner,
         (\E h \in Handler : WriteTx(h)) \/ (\E t \in Tx : InsertManualTx(t))
  PROVE  WorkInv'
<1> USE DEF table, owners, pass, agreement, network
<1>0. /\ status \in [Tx -> RowStatus] /\ jobs \in [Tx -> Nat]
      /\ handler \in [Handler -> Call]
  BY DEF IInv, TypeOK
<1>1. ASSUME NEW t \in Tx, status[t] = "none", jobs[t] = 0,
             UNCHANGED <<jobs, snap, task>>,
             \/ status' = [status EXCEPT ![t] = "approved"]
             \/ \E old \in Tx : /\ status[old] = "approved"
                               /\ status' = [status EXCEPT ![old] = "none",
                                                           ![t] = "approved"]
      PROVE  JobInv' /\ SnapInv' /\ TaskInv'
  <2>1. JobInv'
    BY <1>0, <1>1 DEF IInv, JobInv
  <2>2. SnapInv'
    BY <1>0, <1>1 DEF IInv, SnapInv, MayHaveBecome, TypeOK, Snapshot, ActiveStatus
  <2>3. task.pc # "idle" => /\ task.tx \in Tx
                            /\ status[task.tx] \notin {"none", "approved"}
    BY DEF IInv, WorkOK, TaskInv, TypeOK, Task, TaskPC
  <2>4. TaskInv'
    BY <1>0, <1>1, <2>3 DEF IInv, TaskInv
  <2> QED
    BY <2>1, <2>2, <2>4
<1>2. ASSUME NEW t \in Tx, InsertManualTx(t) PROVE WorkInv'
  <2>1. /\ UNCHANGED <<jobs, snap, task, handler, sem>>
        /\ sem = NoHandler /\ status[t] = "none" /\ jobs[t] = 0
        /\ status' = [status EXCEPT ![t] = "approved"]
    BY <1>2 DEF InsertManualTx, InsertNewTx, SemaphoreFree, Settled
  <2>2. HandlerInv'
    BY <2>1, HandlerStays
  <2> QED
    BY <1>1, <2>1, <2>2 DEF WorkInv
<1>3. ASSUME NEW h \in Handler, WriteTx(h) PROVE WorkInv'
  <2> DEFINE t == handler[h].tx
             op == handler[h].op
             old == handler[h].old
  <2>1. /\ t \in Tx /\ sem = h /\ handler[h].pc = "write"
        /\ handler[h] \in Call
        /\ op \in {"insert", "replace"} => jobs[t] = 0
        /\ op = "replace" => old \in Tx /\ status[old] = "approved"
    BY <1>0, <1>3 DEF WriteTx, Settled, IInv, WorkOK, HandlerInv
  <2>2. UNCHANGED <<jobs, snap, task>>
    BY <1>3 DEF WriteTx
  <2>3. \/ UNCHANGED status
        \/ op = "insert" /\ status[t] = "none"
           /\ status' = [status EXCEPT ![t] = "approved"]
        \/ op = "replace" /\ status[t] = "none"
           /\ status' = [status EXCEPT ![old] = "none", ![t] = "approved"]
    <3>1. \/ UNCHANGED status
          \/ ~KeyViolation(t, op, old) /\ InsertNewTx(t, op, old)
      BY <1>3 DEF WriteTx
    <3> HIDE DEF t, op, old
    <3> QED
      BY <2>1, <3>1, InsertFacts
  <2>4. HandlerInv'
    <3> DEFINE c == [handler[h] EXCEPT !.pc = "owner", !.op = "skip", !.old = NoTx]
    <3>1. c \in Call /\ c.pc # "write"
      BY <2>1 DEF Call, InsertOp
    <3>2. IdleHandler \in Call /\ IdleHandler.pc # "write"
      BY CallType
    <3>3. \/ handler' = [handler EXCEPT ![h] = IdleHandler]
          \/ handler' = [handler EXCEPT ![h] = c]
      BY <1>3 DEF WriteTx
    <3> HIDE DEF c
    <3> QED
      BY <2>1, <3>1, <3>2, <3>3, HandlerMoves
  <2>5. JobInv' /\ SnapInv' /\ TaskInv'
    <3>1. CASE UNCHANGED status
      BY <2>2, <3>1 DEF IInv, JobInv, SnapInv, TaskInv
    <3>2. CASE op = "insert" /\ status[t] = "none"
                 /\ status' = [status EXCEPT ![t] = "approved"]
      <4>1. t \in Tx /\ jobs[t] = 0
        BY <2>1, <3>2
      <4> HIDE DEF t, op, old
      <4> QED
        BY <1>1, <2>2, <3>2, <4>1
    <3>3. CASE op = "replace" /\ status[t] = "none"
                 /\ status' = [status EXCEPT ![old] = "none", ![t] = "approved"]
      <4> HIDE DEF t, op, old
      <4> QED
        BY <1>1, <2>1, <2>2, <3>3
    <3> QED
      BY <2>3, <3>1, <3>2, <3>3
  <2> QED
    BY <2>4, <2>5 DEF WorkInv
<1> QED
  BY <1>2, <1>3

LEMMA CrashWork == IInv /\ Crash => WorkInv'
<1> SUFFICES ASSUME IInv, Crash PROVE WorkInv'
  OBVIOUS
<1>1. JobInv' /\ SnapInv'
  BY NoSnapOrTx DEF Crash, table, JobInv, SnapInv
<1>2. TaskInv' /\ HandlerInv'
  BY NoSnapOrTx, CallType DEF Crash, TaskInv, HandlerInv
<1> QED
  BY <1>1, <1>2 DEF WorkInv

LEMMA WorkInvStep == PromptSigner /\ IInv /\ [Next]_vars => WorkInv'
<1> SUFFICES ASSUME PromptSigner, IInv, [Next]_vars PROVE WorkInv'
  OBVIOUS
<1>1. CASE UNCHANGED vars
  BY <1>1, IdleWork DEF vars, table, pass, agreement
<1>2. CASE ProcessTransactions
  <2>1. CASE StartPass
    <3>1. PICK t \in Tx : status[t] \in ActiveStatus
      BY <2>1 DEF StartPass
    <3> QED
      BY <2>1, <3>1, BeginWork
  <2> QED
    BY <1>2, <2>1, BeginWork, TaskWork, RequestWork, MarkWork, SignerWork
       DEF ProcessTransactions
<1>3. CASE Signer
  BY <1>3, SignerWork DEF Signer
<1>4. CASE Agreement
  <2>1. ASSUME NEW t \in Tx, GenerateTx(t) \/ EnqueueSignFailedTx(t) \/ AgreeToRequest(t)
        PROVE  WorkInv'
    BY <2>1, IdleWork DEF GenerateTx, EnqueueSignFailedTx, AgreeToRequest, table, pass
  <2>2. ASSUME ForgetCandidates \/ \E o \in Owner : ReachLimit(o) PROVE WorkInv'
    BY <2>2, IdleWork DEF ForgetCandidates, ReachLimit, table, pass, agreement
  <2> QED
    BY <1>4, <2>1, <2>2, ApprovalWork, InsertWork DEF Agreement
<1>5. CASE Crash
  BY <1>5, CrashWork
<1>6. CASE Environment
  BY <1>6, IdleWork DEF Environment, NewBlock, ChainMoves, table, pass, agreement
<1> QED
  BY <1>1, <1>2, <1>3, <1>4, <1>5, <1>6 DEF Next

-----------------------------------------------------------------------------
(* Every step is a step of the transaction's life, or leaves the statuses  *)
(* alone.                                                                  *)

LEMMA Simulation == PromptSigner /\ IInv /\ [Next]_vars => [Lifecycle!Next]_status
<1> SUFFICES ASSUME PromptSigner, IInv, [Next]_vars, ~UNCHANGED status
             PROVE  Lifecycle!Next
  OBVIOUS
<1> USE DEF table, owners, pass, agreement, network
<1>0. /\ handler \in [Handler -> Call] /\ task \in Task
  BY DEF IInv, TypeOK
<1>a. ASSUME NEW t \in Tx, RequestSign(t), status[t] \in {"approved", "signFailed", "none"}
      PROVE  Lifecycle!RequestSign(t)
  BY <1>a DEF RequestSign, SetTxStatus, Lifecycle!RequestSign, Lifecycle!HasStatus,
              Lifecycle!Become
<1>b. ASSUME NEW t \in Tx, SetTxAsSignFailed(t) PROVE Lifecycle!FailSign(t)
  BY <1>b DEF SetTxAsSignFailed, Lifecycle!FailSign, Lifecycle!HasStatus, Lifecycle!Become
<1>c. task.pc # "idle" => task.tx \in Tx
  BY DEF IInv, WorkOK
<1>1. ASSUME NEW t \in Tx, ProcessApprovedTx(t) PROVE Lifecycle!Next
  <2>1. status[t] \in {"approved", "none"}
    BY <1>1 DEF ProcessApprovedTx, Begin, IInv, SnapInv, MayHaveBecome
  <2> QED
    BY <1>1, <1>a, <2>1 DEF ProcessApprovedTx, Lifecycle!Next
<1>2. CASE SignAgain
  <2>1. task.tx \in Tx /\ status[task.tx] = "signFailed"
    BY <1>2, <1>c DEF SignAgain, At, IInv, TaskInv
  <2> QED
    BY <1>2, <1>a, <2>1 DEF SignAgain, Lifecycle!Next
<1>3. ASSUME NEW t \in Tx, TimeoutInSignTx(t) \/ HandleFailedSign(t) PROVE Lifecycle!Next
  BY <1>3, <1>b DEF TimeoutInSignTx, HandleFailedSign, Lifecycle!Next
<1>4. ASSUME NEW t \in Tx, HandleSuccessfulSign(t) PROVE Lifecycle!Next
  <2>1. status[t] \in {"inSign", "none"}
    BY <1>4 DEF HandleSuccessfulSign, IInv, TypeOK, JobInv
  <2>2. Lifecycle!Sign(t)
    BY <1>4, <2>1 DEF HandleSuccessfulSign, SetTxStatus, Lifecycle!Sign,
                      Lifecycle!HasStatus, Lifecycle!Become
  <2> QED
    BY <2>2 DEF Lifecycle!Next
<1>5. CASE MarkSent
  <2>1. task.tx \in Tx /\ status[task.tx] \in {"signFailed", "signed"}
    BY <1>5, <1>c DEF MarkSent, At, IInv, TaskInv
  <2>2. Lifecycle!Send(task.tx)
    BY <1>5, <2>1 DEF MarkSent, SetTxStatus, Lifecycle!Send, Lifecycle!HasStatus,
                      Lifecycle!Become
  <2> QED
    BY <2>1, <2>2 DEF Lifecycle!Next
<1>6. CASE MarkCompleted
  <2>1. task.tx \in Tx /\ status[task.tx] = "sent"
    BY <1>6, <1>c DEF MarkCompleted, At, IInv, TaskInv
  <2>2. Lifecycle!Complete(task.tx)
    BY <1>6, <2>1 DEF MarkCompleted, SetTxStatus, Lifecycle!Complete,
                      Lifecycle!HasStatus, Lifecycle!Become
  <2> QED
    BY <2>1, <2>2 DEF Lifecycle!Next
<1>7. CASE MarkInvalid
  <2>1. task.tx \in Tx /\ status[task.tx] \in {"signFailed", "sent"}
    BY <1>7, <1>c DEF MarkInvalid, At, IInv, TaskInv
  <2>2. Lifecycle!Invalidate(task.tx)
    BY <1>7, <2>1 DEF MarkInvalid, SetTxStatus, Lifecycle!Invalidate,
                      Lifecycle!HasStatus, Lifecycle!Become
  <2> QED
    BY <2>1, <2>2 DEF Lifecycle!Next
<1>8. ASSUME NEW t \in Tx, InsertManualTx(t) PROVE Lifecycle!Next
  <2>1. status[t] = "none" /\ status' = [status EXCEPT ![t] = "approved"]
    BY <1>8 DEF InsertManualTx, InsertNewTx
  <2>2. \A u \in Tx : ~Lifecycle!Alike(t, u)
    BY <1>8 DEF InsertManualTx, Lifecycle!Alike, Lifecycle!Owned, Lifecycle!OwnedType
  <2>3. Lifecycle!Approve(t)
    BY <2>1, <2>2 DEF Lifecycle!Approve, Lifecycle!HasStatus, Lifecycle!Become
  <2> QED
    BY <2>3 DEF Lifecycle!Next
<1>9. ASSUME NEW h \in Handler, WriteTx(h) PROVE Lifecycle!Next
  <2> DEFINE t == handler[h].tx
             op == handler[h].op
             old == handler[h].old
  <2>1. /\ t \in Tx
        /\ op = "insert" => \A u \in Tx : Alike(t, u) => status[u] \notin ValidStatus
        /\ op = "replace" => /\ old \in Tx /\ Alike(t, old) /\ t < old
                             /\ status[old] = "approved"
    BY <1>9 DEF WriteTx, IInv, WorkOK, HandlerInv
  <2>2. ~KeyViolation(t, op, old) /\ InsertNewTx(t, op, old)
    BY <1>9 DEF WriteTx
  <2> HIDE DEF t, op, old
  <2>3. CASE op = "insert" /\ status[t] = "none"
             /\ status' = [status EXCEPT ![t] = "approved"]
    <3>1. Lifecycle!Approve(t)
      BY <2>1, <2>3 DEF Lifecycle!Approve, Lifecycle!HasStatus, Lifecycle!Become,
         Lifecycle!Alike, Alike, Lifecycle!Owned, Owned, Lifecycle!OwnedType, OwnedType,
         Lifecycle!ValidStatus, ValidStatus, Lifecycle!TransactionStatus,
         TransactionStatus
    <3> QED
      BY <2>1, <3>1 DEF Lifecycle!Next
  <2>4. CASE op = "replace" /\ status[t] = "none"
             /\ status' = [status EXCEPT ![old] = "none", ![t] = "approved"]
    <3>1. Lifecycle!Replace(old, t)
      BY <2>1, <2>4 DEF Lifecycle!Replace, Lifecycle!HasStatus, Lifecycle!Alike, Alike,
         Lifecycle!Owned, Owned, Lifecycle!OwnedType, OwnedType
    <3> QED
      BY <2>1, <2>4, <3>1 DEF Lifecycle!Next
  <2> QED
    BY <2>1, <2>2, <2>3, <2>4, InsertFacts
<1>10. ProcessTransactions =>
         \/ SignAgain \/ MarkSent \/ MarkCompleted \/ MarkInvalid
         \/ \E t \in Tx : ProcessApprovedTx(t) \/ TimeoutInSignTx(t)
  BY DEF ProcessTransactions, StartPass, SkipTx, ProcessSignFailedTx, ProcessSignedTx,
         ProcessSentTx, CheckMempool, ValidTx, InvalidTx, ChainCallFails,
         UpdateTxLastCheck, AdvanceOwner, ReopenOwner
<1>11. Agreement => \/ \E h \in Handler : WriteTx(h)
                    \/ \E t \in Tx : InsertManualTx(t)
  BY DEF Agreement, GenerateTx, EnqueueSignFailedTx, AgreeToRequest, ReachLimit,
         ForgetCandidates, StartApproval, ReadTxs, WriteOwner
<1>12. ProcessTransactions \/ Signer \/ Agreement
  BY DEF Next, vars, Crash, Environment, NewBlock, ChainMoves
<1> QED
  BY <1>1, <1>2, <1>3, <1>4, <1>5, <1>6, <1>7, <1>8, <1>9, <1>10, <1>11, <1>12
     DEF Signer

\* the life of a transaction keeps one valid transaction of a type
LEMMA LifecycleKeepsOneValid ==
  ASSUME status \in [Tx -> RowStatus], OneValidTx, [Lifecycle!Next]_status
  PROVE  OneValidTx'
<1> USE DEF Lifecycle!HasStatus, Lifecycle!Become, Lifecycle!ValidStatus,
        Lifecycle!TransactionStatus, ValidStatus, TransactionStatus,
        Lifecycle!Alike, Alike, Lifecycle!Owned, Owned, Lifecycle!OwnedType, OwnedType
<1>1. ASSUME NEW t \in Tx, Lifecycle!Approve(t) PROVE OneValidTx'
  BY <1>1 DEF Lifecycle!Approve, OneValidTx
<1>2. ASSUME NEW t \in Tx, NEW s, status[t] \in ValidStatus,
             status' = [status EXCEPT ![t] = s]
      PROVE  OneValidTx'
  BY <1>2 DEF OneValidTx
<1>3. ASSUME NEW t \in Tx, NEW old \in Tx, Lifecycle!Replace(old, t) PROVE OneValidTx'
  BY <1>3 DEF Lifecycle!Replace, OneValidTx
<1>4. CASE UNCHANGED status
  BY <1>4 DEF OneValidTx
<1> QED
  BY <1>1, <1>2, <1>3, <1>4 DEF Lifecycle!Next, Lifecycle!RequestSign,
     Lifecycle!FailSign, Lifecycle!Sign, Lifecycle!Send, Lifecycle!Complete,
     Lifecycle!Invalidate

(***************************************************************************)
(* Under a prompt signer every piece of work in progress still knows the   *)
(* row it read: the invariant that the two theorems below rest on.         *)
(***************************************************************************)
THEOREM InductiveInvariant ==
  ASSUME PromptSigner
  PROVE  Spec => []IInv
<1>1. IInv /\ [Next]_vars => IInv'
  <2> SUFFICES ASSUME IInv, [Next]_vars PROVE IInv'
    OBVIOUS
  <2>1. TypeOK' /\ WorkOK'
    BY TypeInvStep DEF IInv, TypeInv
  <2>2. WorkInv'
    BY WorkInvStep
  <2>3. OneValidTx'
    BY Simulation, LifecycleKeepsOneValid DEF IInv, TypeOK
  <2> QED
    BY <2>1, <2>2, <2>3 DEF IInv, WorkInv
<1> QED
  BY <1>1, InitIInv, PTL DEF Spec

(***************************************************************************)
(* The assertion of insertEventOrOrderTx cannot fail while the signer is   *)
(* prompt: an event or an order never has two valid transactions of a      *)
(* type, however approvals, passes, crashes and signer answers overlap.    *)
(***************************************************************************)
THEOREM OneValid ==
  ASSUME PromptSigner
  PROVE  Spec => []OneValidTx
<1>1. IInv => OneValidTx
  BY DEF IInv
<1> QED
  BY <1>1, InductiveInvariant, PTL

(***************************************************************************)
(* The table implements the life of a transaction while the signer is      *)
(* prompt: initial states are initial, and every step of the processor, of *)
(* the signer, of the agreement or of a crash is a step of that life or    *)
(* leaves the statuses alone.                                              *)
(***************************************************************************)
THEOREM Refinement ==
  ASSUME PromptSigner
  PROVE  Spec => ImplementsLifecycle
<1>1. Init => Lifecycle!Init
  BY DEF Init, Lifecycle!Init
<1> QED
  BY <1>1, InductiveInvariant, Simulation, PTL DEF Spec, ImplementsLifecycle, Lifecycle!Spec

-----------------------------------------------------------------------------
(* What TxAgreement knows of the table.  Of the life of a row it sees that *)
(* it enters, is replaced, taken to the signer and given up.               *)

Rows == [t \in Tx |-> RowOf(status[t])]

\* a row whose outline stays may change its status
LEMMA OutlineStays ==
  ASSUME status \in [Tx -> RowStatus], NEW t \in Tx, NEW s \in RowStatus,
         status' = [status EXCEPT ![t] = s], RowOf(s) = RowOf(status[t])
  PROVE  Rows' = Rows
BY DEF Rows

LEMMA OutlineChanges ==
  ASSUME status \in [Tx -> RowStatus], NEW t \in Tx, NEW s \in RowStatus,
         status' = [status EXCEPT ![t] = s]
  PROVE  Rows' = [Rows EXCEPT ![t] = RowOf(s)]
BY DEF Rows

LEMMA LifeIsOutlined ==
  ASSUME status \in [Tx -> RowStatus], [Lifecycle!Next]_status
  PROVE  [Outline!Next]_Rows
<1> SUFFICES ASSUME Lifecycle!Next, Rows' # Rows PROVE Outline!Next
  BY DEF Rows
<1> USE DEF Lifecycle!HasStatus, Lifecycle!Become
<1>a. {"none", "approved", "inSign", "signFailed", "signed", "sent", "completed", "invalid"}
        = RowStatus
  BY DEF RowStatus, TransactionStatus
<1>1. ASSUME NEW t \in Tx, Lifecycle!Approve(t) PROVE Outline!Insert(t)
  <2>1. status[t] = "none" /\ status' = [status EXCEPT ![t] = "approved"]
    BY <1>1 DEF Lifecycle!Approve
  <2>2. Rows' = [Rows EXCEPT ![t] = "approved"]
    BY <1>a, <2>1, OutlineChanges DEF RowOf
  <2>3. \A u \in Tx : Alike(t, u) => status[u] \in {"none", "invalid"}
    BY <1>1 DEF Lifecycle!Approve, Lifecycle!ValidStatus, Lifecycle!TransactionStatus,
       Lifecycle!Alike, Alike, Lifecycle!Owned, Owned, Lifecycle!OwnedType, OwnedType,
       RowStatus, TransactionStatus
  <2> QED
    BY <2>1, <2>2, <2>3 DEF Outline!Insert, Outline!IsRival, Rows, RowOf,
       Outline!Alike, Alike, Outline!Owned, Owned, Outline!OwnedType, OwnedType
<1>2. ASSUME NEW t \in Tx, NEW old \in Tx, Lifecycle!Replace(old, t)
      PROVE  Outline!Displace(old, t)
  <2>1. /\ status[old] = "approved" /\ status[t] = "none" /\ t < old
        /\ status' = [status EXCEPT ![old] = "none", ![t] = "approved"]
    BY <1>2 DEF Lifecycle!Replace
  <2>2. Rows' = [Rows EXCEPT ![old] = "none", ![t] = "approved"]
    BY <2>1 DEF Rows, RowOf
  <2>3. Outline!Alike(t, old)
    BY <1>2 DEF Lifecycle!Replace, Lifecycle!Alike, Lifecycle!Owned, Lifecycle!OwnedType,
       Outline!Alike, Outline!Owned, Outline!OwnedType
  <2> QED
    BY <2>1, <2>2, <2>3 DEF Outline!Displace, Rows, RowOf
<1>3. ASSUME NEW t \in Tx, Lifecycle!RequestSign(t) PROVE Outline!Take(t)
  <2>1. status[t] \in {"approved", "signFailed"} /\ status' = [status EXCEPT ![t] = "inSign"]
    BY <1>3 DEF Lifecycle!RequestSign
  <2>2. status[t] = "approved"
    BY <1>a, <2>1, OutlineStays DEF RowOf
  <2>3. Rows' = [Rows EXCEPT ![t] = "advanced"]
    BY <1>a, <2>1, OutlineChanges DEF RowOf
  <2> QED
    BY <2>2, <2>3 DEF Outline!Take, Rows, RowOf
<1>4. ASSUME NEW t \in Tx, Lifecycle!Invalidate(t) PROVE Outline!GiveUp(t)
  <2>1. status[t] \in {"sent", "signFailed"} /\ status' = [status EXCEPT ![t] = "invalid"]
    BY <1>4 DEF Lifecycle!Invalidate
  <2>2. Rows' = [Rows EXCEPT ![t] = "invalid"]
    BY <1>a, <2>1, OutlineChanges DEF RowOf
  <2> QED
    BY <2>1, <2>2 DEF Outline!GiveUp, Rows, RowOf
<1>5. ASSUME NEW t \in Tx, \/ Lifecycle!FailSign(t) \/ Lifecycle!Sign(t)
                          \/ Lifecycle!Send(t) \/ Lifecycle!Complete(t)
      PROVE  FALSE
  <2>1. PICK s \in {"signFailed", "signed", "sent", "completed"} :
          /\ status[t] \in {"inSign", "signed", "signFailed", "sent"}
          /\ status' = [status EXCEPT ![t] = s]
    BY <1>5 DEF Lifecycle!FailSign, Lifecycle!Sign, Lifecycle!Send, Lifecycle!Complete
  <2> QED
    BY <1>a, <2>1, OutlineStays DEF RowOf
<1> QED
  BY <1>1, <1>2, <1>3, <1>4, <1>5 DEF Lifecycle!Next, Outline!Next

(***************************************************************************)
(* While the signer is prompt the table of a guard, with all that is going *)
(* on about it, is the table that the agreement of the guards counts on:   *)
(* of each guard TxAgreement has no more than this outline.                *)
(***************************************************************************)
THEOREM TableAsAgreed ==
  ASSUME PromptSigner
  PROVE  Spec => ImplementsTable
<1>1. Init => Outline!Init
  BY DEF Init, Outline!Init, RowOf
<1>2. IInv /\ [Next]_vars => [Outline!Next]_Rows
  BY Simulation, LifeIsOutlined DEF IInv, TypeOK
<1> QED
  BY <1>1, <1>2, InductiveInvariant, PTL
     DEF Spec, ImplementsTable, Outline!Spec, Rows

-----------------------------------------------------------------------------
(* PaidBeforeReward.  A reward transaction is a candidate of the agreement *)
(* or is being approved only behind a confirmed payment, and a confirmed   *)
(* payment stays confirmed.                                                *)

Approving(t) == \E h \in Handler : handler[h].pc # "idle" /\ handler[h].tx = t

\* the table is written, the owner not yet
Approved(t) == \E h \in Handler : handler[h].pc = "owner" /\ handler[h].tx = t

RewardWork == \A t \in Tx :
  TypeOf[t] = "reward" /\ (t \in candidates \/ Approving(t)) => Paid(OwnerOf[t])

LEMMA PaidIsFinal ==
  ASSUME PromptSigner, IInv, [Next]_vars, NEW o, Paid(o)
  PROVE  Paid(o)'
<1>1. PICK t \in Tx : OwnerOf[t] = o /\ TypeOf[t] = "payment" /\ status[t] = "completed"
  BY DEF Paid
<1>2. [Lifecycle!Next]_status
  BY Simulation
<1>3. status'[t] = "completed"
  BY <1>1, <1>2 DEF Lifecycle!Next, Lifecycle!Approve, Lifecycle!Replace,
     Lifecycle!RequestSign, Lifecycle!FailSign, Lifecycle!Sign, Lifecycle!Send,
     Lifecycle!Complete, Lifecycle!Invalidate, Lifecycle!HasStatus, Lifecycle!Become,
     IInv, TypeOK
<1> QED
  BY <1>1, <1>3 DEF Paid

LEMMA NewRow ==
  ASSUME IInv, [Next]_vars, NEW t \in Tx, status[t] = "none", status'[t] # "none"
  PROVE  TypeOf[t] = "manual" \/ Approving(t)
<1> USE DEF table, owners, pass, agreement, network
<1>0. status \in [Tx -> RowStatus]
  BY DEF IInv, TypeOK
<1>1. ASSUME NEW u, NEW s, SetTxStatus(u, s) PROVE FALSE
  BY <1>0, <1>1 DEF SetTxStatus
<1>2. ASSUME NEW u, SetTxAsSignFailed(u) PROVE FALSE
  BY <1>0, <1>2 DEF SetTxAsSignFailed
<1>3. ASSUME NEW h \in Handler, WriteTx(h) PROVE Approving(t)
  <2> DEFINE v == handler[h].tx
  <2>1. v \in Tx /\ handler[h].pc = "write"
    BY <1>3 DEF WriteTx, IInv, WorkOK
  <2>2. InsertNewTx(v, handler[h].op, handler[h].old)
    BY <1>3 DEF WriteTx
  <2>3. t = v
    BY <1>0, <2>1, <2>2 DEF InsertNewTx
  <2> QED
    BY <2>1, <2>3 DEF Approving
<1>4. ASSUME NEW u \in Tx, InsertManualTx(u) PROVE TypeOf[t] = "manual"
  BY <1>0, <1>4 DEF InsertManualTx, InsertNewTx
<1>5. ~ProcessTransactions /\ ~Signer
  <2>1. ProcessTransactions =>
          \/ SignAgain \/ MarkSent \/ MarkCompleted \/ MarkInvalid
          \/ \E u \in Tx : ProcessApprovedTx(u) \/ TimeoutInSignTx(u)
    BY DEF ProcessTransactions, StartPass, SkipTx, ProcessSignFailedTx, ProcessSignedTx,
           ProcessSentTx, CheckMempool, ValidTx, InvalidTx, ChainCallFails,
           UpdateTxLastCheck, AdvanceOwner, ReopenOwner
  <2> QED
    BY <1>1, <1>2, <2>1 DEF Signer, SignAgain, MarkSent, MarkCompleted, MarkInvalid,
       ProcessApprovedTx, TimeoutInSignTx, RequestSign, HandleSuccessfulSign,
       HandleFailedSign
<1>6. Agreement => \/ \E h \in Handler : WriteTx(h)
                   \/ \E u \in Tx : InsertManualTx(u)
  BY DEF Agreement, GenerateTx, EnqueueSignFailedTx, AgreeToRequest, ReachLimit,
         ForgetCandidates, StartApproval, ReadTxs, WriteOwner
<1> QED
  BY <1>3, <1>4, <1>5, <1>6 DEF Next, vars, Crash, Environment, NewBlock, ChainMoves

\* who may change the status of an owner, and to what
LEMMA OwnerMoves ==
  ASSUME IInv, [Next]_vars, NEW o \in Owner, ownerStatus'[o] # ownerStatus[o]
  PROVE  \/ ownerStatus'[o] = "reachedLimit"
         \/ \E t \in Tx : /\ Owned(t) /\ OwnerOf[t] = o
              /\ \/ /\ task.pc = "advance" /\ task.tx = t
                    /\ ownerStatus'[o] = ConfirmedOwnerStatus(t)
                 \/ /\ task.pc = "reopen" /\ task.tx = t
                    /\ ownerStatus'[o] = PendingStatus[TypeOf[t]]
                 \/ /\ Approved(t)
                    /\ ownerStatus'[o] = InProgressStatus[TypeOf[t]]
<1> USE DEF table, owners, pass, agreement, network
<1>0. ownerStatus \in [Owner -> OwnerStatus]
  BY DEF IInv, TypeOK
<1>1. CASE AdvanceOwner
  BY <1>0, <1>1 DEF AdvanceOwner, At, SetOwnerStatus, IInv, WorkOK
<1>2. CASE ReopenOwner
  BY <1>0, <1>2 DEF ReopenOwner, At, SetOwnerStatus, IInv, WorkOK
<1>3. ASSUME NEW h \in Handler, WriteOwner(h)
      PROVE  \E t \in Tx : /\ Owned(t) /\ OwnerOf[t] = o /\ Approved(t)
                           /\ ownerStatus'[o] = InProgressStatus[TypeOf[t]]
  BY <1>0, <1>3 DEF WriteOwner, SetOwnerStatus, Approved, IInv, WorkOK
<1>4. ASSUME NEW p \in Owner, ReachLimit(p) PROVE ownerStatus'[o] = "reachedLimit"
  BY <1>0, <1>4 DEF ReachLimit
<1>5. ProcessTransactions => AdvanceOwner \/ ReopenOwner
  BY DEF ProcessTransactions, StartPass, ProcessApprovedTx, TimeoutInSignTx, SkipTx,
         ProcessSignFailedTx, ProcessSignedTx, ProcessSentTx, CheckMempool, ValidTx,
         InvalidTx, ChainCallFails, SignAgain, MarkSent, UpdateTxLastCheck,
         MarkCompleted, MarkInvalid
<1>6. Agreement => \/ \E h \in Handler : WriteOwner(h)
                   \/ \E p \in Owner : ReachLimit(p)
  BY DEF Agreement, GenerateTx, EnqueueSignFailedTx, AgreeToRequest, ForgetCandidates,
         StartApproval, ReadTxs, WriteTx, InsertManualTx
<1>7. ProcessTransactions \/ Agreement
  BY DEF Next, vars, Signer, HandleSuccessfulSign, HandleFailedSign, Crash,
         Environment, NewBlock, ChainMoves
<1> QED
  BY <1>1, <1>2, <1>3, <1>4, <1>5, <1>6, <1>7

LEMMA NewCandidate ==
  ASSUME IInv, [Next]_vars, NEW t \in Tx, TypeOf[t] = "reward",
         t \in candidates', t \notin candidates
  PROVE  status[t] # "none" \/ ownerStatus[OwnerOf[t]] = "pendingReward"
<1> USE DEF table, owners, pass, agreement, network
<1>1. Agreement
  BY DEF Next, vars, ProcessTransactions, StartPass, ProcessApprovedTx,
     TimeoutInSignTx, SkipTx, ProcessSignFailedTx, ProcessSignedTx, ProcessSentTx,
     CheckMempool, ValidTx, InvalidTx, ChainCallFails, SignAgain, MarkSent,
     UpdateTxLastCheck, MarkCompleted, AdvanceOwner, MarkInvalid, ReopenOwner,
     Signer, HandleSuccessfulSign, HandleFailedSign, Crash, Environment, NewBlock,
     ChainMoves
<1>2. GenerateTx(t) \/ EnqueueSignFailedTx(t) \/ AgreeToRequest(t)
  <2>1. ASSUME NEW h \in Handler,
               \/ \E u \in Tx : StartApproval(h, u)
               \/ ReadTxs(h) \/ WriteTx(h) \/ WriteOwner(h)
        PROVE  candidates' \subseteq candidates
    BY <2>1 DEF StartApproval, ReadTxs, WriteTx, WriteOwner
  <2>2. ASSUME ForgetCandidates \/ \E o \in Owner : ReachLimit(o)
        PROVE  candidates' \subseteq candidates
    BY <2>2 DEF ForgetCandidates, ReachLimit
  <2>3. ASSUME NEW u \in Tx, InsertManualTx(u) PROVE candidates' \subseteq candidates
    BY <2>3 DEF InsertManualTx
  <2>4. ASSUME NEW u \in Tx, GenerateTx(u) \/ EnqueueSignFailedTx(u) \/ AgreeToRequest(u)
        PROVE  candidates' = candidates \cup {u}
    BY <2>4 DEF GenerateTx, EnqueueSignFailedTx, AgreeToRequest
  <2> QED
    BY <1>1, <2>1, <2>2, <2>3, <2>4 DEF Agreement
<1>3. PendingStatus["reward"] = "pendingReward" /\ Owned(t)
  BY DEF PendingStatus, Owned, OwnedType
<1>4. CASE GenerateTx(t)
  BY <1>3, <1>4 DEF GenerateTx, PendingToType
<1>5. CASE EnqueueSignFailedTx(t)
  BY <1>5 DEF EnqueueSignFailedTx
<1>6. CASE AgreeToRequest(t)
  BY <1>3, <1>6 DEF AgreeToRequest, PendingToType, ValidAlike, ValidStatus,
                    TransactionStatus
<1> QED
  BY <1>2, <1>4, <1>5, <1>6

LEMMA NewApproval ==
  ASSUME IInv, [Next]_vars, NEW t \in Tx, Approving(t)', ~Approving(t)
  PROVE  t \in candidates
<1> USE DEF table, owners, pass, agreement, network
<1>0. /\ handler \in [Handler -> Call] /\ IdleHandler.pc = "idle"
  BY CallType DEF IInv, TypeOK
<1>1. CASE UNCHANGED handler
  BY <1>1 DEF Approving
<1>2. CASE Crash
  BY <1>0, <1>2 DEF Crash, Approving
<1>3. ASSUME NEW h \in Handler, NEW u \in Tx, StartApproval(h, u) PROVE t \in candidates
  BY <1>0, <1>3 DEF StartApproval, Approving, IdleHandler
<1>4. ASSUME NEW h \in Handler, ReadTxs(h) \/ WriteTx(h) \/ WriteOwner(h)
      PROVE  FALSE
  <2>1. \A g \in Handler : handler'[g].pc # "idle" =>
          handler[g].pc # "idle" /\ handler'[g].tx = handler[g].tx
    <3>1. ASSUME NEW c \in Call, c.pc # "idle" => c.tx = handler[h].tx,
                 handler[h].pc # "idle", handler' = [handler EXCEPT ![h] = c]
          PROVE  \A g \in Handler : handler'[g].pc # "idle" =>
                   handler[g].pc # "idle" /\ handler'[g].tx = handler[g].tx
      BY <1>0, <3>1
    <3> DEFINE r == [handler[h] EXCEPT !.pc = "write",
                                       !.op = InsertDecision(handler[h].tx).op,
                                       !.old = InsertDecision(handler[h].tx).old]
               w == [handler[h] EXCEPT !.pc = "owner", !.op = "skip", !.old = NoTx]
    <3>2. /\ handler[h].pc # "idle"
          /\ \/ handler' = [handler EXCEPT ![h] = IdleHandler]
             \/ ReadTxs(h) /\ handler' = [handler EXCEPT ![h] = r]
             \/ handler' = [handler EXCEPT ![h] = w]
      <4>1. CASE ReadTxs(h)
        BY <1>0, <4>1 DEF ReadTxs
      <4>2. CASE WriteTx(h)
        BY <1>0, <4>2 DEF WriteTx
      <4>3. CASE WriteOwner(h)
        BY <1>0, <4>3 DEF WriteOwner
      <4> QED
        BY <1>4, <4>1, <4>2, <4>3
    <3>3. handler[h] \in Call /\ IdleHandler \in Call
      BY <1>0, CallType
    <3>4. w \in Call /\ w.tx = handler[h].tx
      BY <3>3 DEF Call, InsertOp
    <3>5. ReadTxs(h) => r \in Call /\ r.tx = handler[h].tx
      BY <3>3, InsertDecisionType DEF ReadTxs, Call, IInv, WorkOK
    <3> HIDE DEF r, w
    <3> QED
      BY <1>0, <3>1, <3>2, <3>3, <3>4, <3>5
  <2> QED
    BY <2>1 DEF Approving
<1>5. ProcessTransactions => UNCHANGED handler
  BY DEF ProcessTransactions, StartPass, ProcessApprovedTx, TimeoutInSignTx, SkipTx,
         ProcessSignFailedTx, ProcessSignedTx, ProcessSentTx, CheckMempool, ValidTx,
         InvalidTx, ChainCallFails, SignAgain, MarkSent, UpdateTxLastCheck,
         MarkCompleted, AdvanceOwner, MarkInvalid, ReopenOwner
<1>6. Agreement => UNCHANGED handler
                   \/ \E h \in Handler : \/ \E u \in Tx : StartApproval(h, u)
                                        \/ ReadTxs(h) \/ WriteTx(h) \/ WriteOwner(h)
  BY DEF Agreement, GenerateTx, EnqueueSignFailedTx, AgreeToRequest, InsertManualTx,
         ReachLimit, ForgetCandidates
<1>7. Crash \/ UNCHANGED handler \/ Agreement
  BY <1>5 DEF Next, vars, Signer, HandleSuccessfulSign, HandleFailedSign, Environment,
     NewBlock, ChainMoves
<1> QED
  BY <1>1, <1>2, <1>3, <1>4, <1>6, <1>7

PaidInv == IInv /\ PaidBeforeReward /\ RewardWork

LEMMA InitPaidInv == Init => PaidInv
<1> SUFFICES ASSUME Init PROVE PaidBeforeReward /\ RewardWork
  BY InitIInv DEF PaidInv
<1>1. \A o \in Owner : ownerStatus[o] \in {"pending", "pendingPayment"}
  BY DEF Init
<1>2. PaidBeforeReward
  BY <1>1, TypesOfConstants DEF Init, PaidBeforeReward, Owned, OwnedType
<1>3. RewardWork
  BY CallType DEF Init, RewardWork, Approving
<1> QED
  BY <1>2, <1>3

LEMMA PaidInvStep ==
  ASSUME PromptSigner, PaidInv, [Next]_vars
  PROVE  PaidBeforeReward' /\ RewardWork'
<1> USE DEF PaidInv
<1>1. ASSUME NEW t \in Tx, TypeOf[t] = "reward", status'[t] # "none"
      PROVE  Paid(OwnerOf[t])'
  <2>1. Paid(OwnerOf[t])
    BY <1>1, NewRow DEF PaidBeforeReward, RewardWork
  <2> QED
    BY <2>1, PaidIsFinal
<1>2. ASSUME NEW t \in Tx, TypeOf[t] \in {"payment", "reward"},
             ownerStatus'[OwnerOf[t]] \in {"pendingReward", "inReward", "completed"}
      PROVE  Paid(OwnerOf[t])'
  <2> DEFINE o == OwnerOf[t]
  <2>1. o \in Owner
    BY <1>2, TypesOfConstants DEF Owned, OwnedType
  <2>2. CASE ownerStatus'[o] = ownerStatus[o]
    BY <1>2, <2>2, PaidIsFinal DEF PaidBeforeReward
  <2>3. CASE ownerStatus'[o] # ownerStatus[o]
    <3>1. PICK u \in Tx :
            /\ Owned(u) /\ OwnerOf[u] = o
            /\ \/ /\ task.pc = "advance" /\ task.tx = u
                  /\ ownerStatus'[o] = ConfirmedOwnerStatus(u)
               \/ /\ task.pc = "reopen" /\ task.tx = u
                  /\ ownerStatus'[o] = PendingStatus[TypeOf[u]]
               \/ /\ Approved(u)
                  /\ ownerStatus'[o] = InProgressStatus[TypeOf[u]]
      BY <1>2, <2>1, <2>3, OwnerMoves
    <3>2. TypeOf[u] \in {"payment", "reward"}
      BY <1>2, <3>1, TxAssumption DEF Owned, OwnedType
    <3>3. CASE task.pc = "advance" /\ task.tx = u
      <4>1. status[u] = "completed"
        BY <3>3 DEF IInv, TaskInv
      <4> QED
        BY <3>1, <3>2, <4>1, PaidIsFinal DEF Paid, PaidBeforeReward
    <3>4. CASE task.pc = "reopen" /\ task.tx = u /\ ownerStatus'[o] = PendingStatus[TypeOf[u]]
      <4>1. status[u] = "invalid"
        BY <3>4 DEF IInv, TaskInv
      <4>2. TypeOf[u] = "reward"
        BY <1>2, <3>2, <3>4 DEF PendingStatus, OwnedType
      <4> QED
        BY <3>1, <4>1, <4>2, PaidIsFinal DEF PaidBeforeReward
    <3>5. CASE Approved(u) /\ ownerStatus'[o] = InProgressStatus[TypeOf[u]]
      <4>1. TypeOf[u] = "reward"
        BY <1>2, <3>2, <3>5 DEF InProgressStatus, OwnedType
      <4> QED
        BY <3>1, <3>5, <4>1, PaidIsFinal DEF RewardWork, Approving, Approved
    <3> QED
      BY <3>1, <3>3, <3>4, <3>5
  <2> QED
    BY <2>2, <2>3
<1>3. ASSUME NEW t \in Tx, TypeOf[t] = "reward", t \in candidates' \/ Approving(t)'
      PROVE  Paid(OwnerOf[t])'
  <2>1. Paid(OwnerOf[t])
    BY <1>3, NewCandidate, NewApproval DEF PaidBeforeReward, RewardWork
  <2> QED
    BY <2>1, PaidIsFinal
<1> QED
  BY <1>1, <1>2, <1>3 DEF PaidBeforeReward, RewardWork

(***************************************************************************)
(* Watchers are rewarded, and an event counts as paid, only behind a       *)
(* confirmed payment, for every set of transactions and any number of      *)
(* crashes, while the signer is prompt.                                    *)
(***************************************************************************)
THEOREM PaidFirst ==
  ASSUME PromptSigner
  PROVE  Spec => []PaidBeforeReward
<1>1. PaidInv /\ IInv' /\ [Next]_vars => PaidInv'
  BY PaidInvStep DEF PaidInv
<1>2. PaidInv => PaidBeforeReward
  BY DEF PaidInv
<1> QED
  BY <1>1, <1>2, InitPaidInv, InductiveInvariant, PTL DEF Spec

-----------------------------------------------------------------------------
(* NoOrphan.  A transaction that no other competes with is never taken out *)
(* of the table, and while a call that found it new is running no pass has *)
(* read it: none started before the call, and none starts during it.       *)

Alone(t) == Owned(t) /\ \A u \in Tx : Alike(t, u) => u = t

\* no pass has it before it or in its hands
Untouched(t) == snap[t].status = "none" /\ (task.pc # "idle" => task.tx # t)

RowsStay == \A t \in Tx :
  Alone(t) /\ snap[t].status # "none" => status[t] # "none"

\* a call that found no row, whose transaction no pass has touched since
FreshCall(c) ==
  /\ Untouched(c.tx)
  /\ c.pc = "write" => c.op \in {"insert", "reset"}
  /\ c.pc = "owner" \/ (c.pc = "write" /\ c.op = "reset")
       => status[c.tx] \in ValidStatus

FreshHandler(h) ==
  /\ handler[h].pc = "owner" => handler[h].fresh
  /\ handler[h].pc # "idle" /\ handler[h].fresh /\ Alone(handler[h].tx)
       => FreshCall(handler[h])

FreshWork == \A h \in Handler : FreshHandler(h)

\* an owner is in progress of a type of which it has a transaction
InProgressOwned == \A o \in Owner, type \in OwnedType :
  ownerStatus[o] = InProgressStatus[type]
    => \E t \in Tx : OwnerOf[t] = o /\ TypeOf[t] = type

Reopening(t) == task.pc = "reopen" /\ task.tx = t

OrphanFree == crashes = 0 => \A t \in Tx :
  Alone(t) /\ ownerStatus[OwnerOf[t]] = InProgressStatus[TypeOf[t]]
    => status[t] \in ValidStatus \/ Reopening(t)

OrphanInv == RowsStay /\ FreshWork /\ InProgressOwned /\ OrphanFree

LEMMA InitOrphanInv == Init => OrphanInv
<1> SUFFICES ASSUME Init PROVE OrphanInv
  OBVIOUS
<1>1. RowsStay /\ FreshWork
  BY CallType, NoSnapOrTx DEF Init, RowsStay, FreshWork, FreshHandler
<1>2. \A o \in Owner, type \in OwnedType : ownerStatus[o] # InProgressStatus[type]
  BY DEF Init, InProgressStatus, OwnedType
<1>3. InProgressOwned
  BY <1>2 DEF InProgressOwned
<1>4. OrphanFree
  BY <1>2, TypesOfConstants DEF OrphanFree, Alone
<1> QED
  BY <1>1, <1>3, <1>4 DEF OrphanInv

\* the rows of a transaction that no other competes with stay
LEMMA AloneStays ==
  ASSUME PromptSigner, IInv, [Next]_vars, NEW t \in Tx, Alone(t), status[t] # "none"
  PROVE  status'[t] # "none"
<1>1. [Lifecycle!Next]_status
  BY Simulation
<1>2. ASSUME NEW old \in Tx, NEW u \in Tx, Lifecycle!Replace(old, u) PROVE status'[t] # "none"
  <2>1. t # old
    BY <1>2, TxAssumption DEF Lifecycle!Replace, Lifecycle!Alike, Lifecycle!Owned,
       Lifecycle!OwnedType, Alone, Alike, Owned, OwnedType
  <2> QED
    BY <1>2, <2>1 DEF Lifecycle!Replace, Lifecycle!HasStatus, IInv, TypeOK
<1> QED
  BY <1>1, <1>2 DEF Lifecycle!Next, Lifecycle!Approve,
     Lifecycle!RequestSign, Lifecycle!FailSign, Lifecycle!Sign, Lifecycle!Send,
     Lifecycle!Complete, Lifecycle!Invalidate, Lifecycle!HasStatus, Lifecycle!Become,
     IInv, TypeOK

\* the steps that write the status of a row
LEMMA StatusWriters ==
  ASSUME [Next]_vars
  PROVE  \/ UNCHANGED status
         \/ SignAgain \/ MarkSent \/ MarkCompleted \/ MarkInvalid
         \/ \E t \in Tx : \/ ProcessApprovedTx(t) \/ TimeoutInSignTx(t)
                          \/ HandleSuccessfulSign(t) \/ HandleFailedSign(t)
                          \/ InsertManualTx(t)
         \/ \E h \in Handler : WriteTx(h)
<1> USE DEF table, owners, pass, agreement, network
<1>1. ASSUME NEW t \in Tx,
             SkipTx(t) \/ ProcessSignFailedTx(t) \/ ProcessSignedTx(t) \/ ProcessSentTx(t)
      PROVE  UNCHANGED status
  BY <1>1 DEF SkipTx, ProcessSignFailedTx, ProcessSignedTx, ProcessSentTx
<1>2. ASSUME \/ StartPass \/ CheckMempool \/ ValidTx \/ InvalidTx \/ ChainCallFails
             \/ UpdateTxLastCheck \/ AdvanceOwner \/ ReopenOwner
      PROVE  UNCHANGED status
  <2>1. StartPass => UNCHANGED status
    BY DEF StartPass
  <2>2. CheckMempool => UNCHANGED status
    BY DEF CheckMempool
  <2>3. ValidTx => UNCHANGED status
    BY DEF ValidTx
  <2>4. InvalidTx => UNCHANGED status
    BY Zenon DEF InvalidTx
  <2>5. ChainCallFails => UNCHANGED status
    BY DEF ChainCallFails
  <2>6. UpdateTxLastCheck => UNCHANGED status
    BY DEF UpdateTxLastCheck
  <2>7. AdvanceOwner \/ ReopenOwner => UNCHANGED status
    BY DEF AdvanceOwner, ReopenOwner
  <2> QED
    BY <1>2, <2>1, <2>2, <2>3, <2>4, <2>5, <2>6, <2>7
<1>3. ASSUME NEW t \in Tx, GenerateTx(t) \/ EnqueueSignFailedTx(t) \/ AgreeToRequest(t)
      PROVE  UNCHANGED status
  BY <1>3 DEF GenerateTx, EnqueueSignFailedTx, AgreeToRequest
<1>4. ASSUME ForgetCandidates \/ \E o \in Owner : ReachLimit(o) PROVE UNCHANGED status
  BY <1>4 DEF ForgetCandidates, ReachLimit
<1>5. ASSUME NEW h \in Handler,
             (\E t \in Tx : StartApproval(h, t)) \/ ReadTxs(h) \/ WriteOwner(h)
      PROVE  UNCHANGED status
  <2>1. ASSUME NEW t \in Tx, StartApproval(h, t) PROVE UNCHANGED status
    BY <2>1, Zenon DEF StartApproval
  <2>2. ReadTxs(h) => UNCHANGED status
    BY Zenon DEF ReadTxs
  <2>3. WriteOwner(h) => UNCHANGED status
    BY DEF WriteOwner
  <2> QED
    BY <1>5, <2>1, <2>2, <2>3
<1>6. ASSUME Crash \/ Environment \/ UNCHANGED vars PROVE UNCHANGED status
  BY <1>6 DEF vars, Crash, Environment, NewBlock, ChainMoves
<1> QED
  BY <1>1, <1>2, <1>3, <1>4, <1>5, <1>6, Zenon
     DEF Next, ProcessTransactions, Signer, Agreement

\* Only the pass that works on a transaction invalidates it, and goes on to
\* reopen its owner.
LEMMA Invalidated ==
  ASSUME IInv, [Next]_vars, NEW t \in Tx, status[t] # "invalid", status'[t] = "invalid"
  PROVE  task.pc # "idle" /\ task.tx = t /\ (Owned(t) => Reopening(t)')
<1> USE DEF table, owners, pass, agreement, network
<1>0. status \in [Tx -> RowStatus] /\ task \in Task
  BY DEF IInv, TypeOK
<1>1. ASSUME NEW u \in Tx, NEW s, s # "invalid", SetTxStatus(u, s) PROVE FALSE
  BY <1>0, <1>1 DEF SetTxStatus
<1>2. ASSUME NEW u \in Tx, SetTxAsSignFailed(u) PROVE FALSE
  BY <1>0, <1>2 DEF SetTxAsSignFailed
<1>3. CASE MarkInvalid
  <2>1. task.pc = "markInvalid" /\ SetTxStatus(task.tx, "invalid")
    BY <1>3 DEF MarkInvalid, At
  <2>2. task.tx = t
    BY <1>0, <2>1 DEF SetTxStatus
  <2>3. Owned(t) => Reopening(t)'
    BY <1>0, <1>3, <2>2 DEF MarkInvalid, Goto, Reopening, Task
  <2> QED
    BY <2>1, <2>2, <2>3
<1>4. ASSUME NEW u, NEW op, NEW old, InsertNewTx(u, op, old) PROVE FALSE
  BY <1>0, <1>4 DEF InsertNewTx
<1>5. status' # status
  OBVIOUS
<1>6. ASSUME SignAgain \/ MarkSent \/ MarkCompleted PROVE FALSE
  <2>1. task.tx \in Tx
    BY <1>6 DEF SignAgain, MarkSent, MarkCompleted, At, IInv, WorkOK
  <2> QED
    BY <1>1, <1>6, <2>1 DEF SignAgain, MarkSent, MarkCompleted, RequestSign
<1>7. ASSUME NEW u \in Tx,
             \/ ProcessApprovedTx(u) \/ TimeoutInSignTx(u)
             \/ HandleSuccessfulSign(u) \/ HandleFailedSign(u) \/ InsertManualTx(u)
      PROVE  FALSE
  BY <1>1, <1>2, <1>4, <1>7 DEF ProcessApprovedTx, TimeoutInSignTx, RequestSign,
     HandleSuccessfulSign, HandleFailedSign, InsertManualTx
<1>8. ASSUME NEW h \in Handler, WriteTx(h) PROVE FALSE
  BY <1>4, <1>5, <1>8 DEF WriteTx
<1> QED
  BY <1>3, <1>5, <1>6, <1>7, <1>8, StatusWriters

\* Only the pass moves the pass.
LEMMA PassAlone ==
  ASSUME [Next]_vars, ~ProcessTransactions, ~Crash
  PROVE  UNCHANGED pass
<1>1. ASSUME NEW u \in Tx,
             \/ GenerateTx(u) \/ EnqueueSignFailedTx(u) \/ AgreeToRequest(u)
             \/ InsertManualTx(u) \/ ChainMoves(u)
             \/ HandleSuccessfulSign(u) \/ HandleFailedSign(u)
      PROVE  UNCHANGED pass
  BY <1>1 DEF GenerateTx, EnqueueSignFailedTx, AgreeToRequest, InsertManualTx,
     ChainMoves, HandleSuccessfulSign, HandleFailedSign
<1>2. ASSUME NEW h \in Handler,
             (\E u \in Tx : StartApproval(h, u)) \/ ReadTxs(h) \/ WriteTx(h) \/ WriteOwner(h)
      PROVE  UNCHANGED pass
  <2>1. ASSUME NEW u \in Tx, StartApproval(h, u) PROVE UNCHANGED pass
    BY <2>1, Zenon DEF StartApproval
  <2>2. ReadTxs(h) \/ WriteTx(h) => UNCHANGED pass
    BY Zenon DEF ReadTxs, WriteTx
  <2>3. WriteOwner(h) => UNCHANGED pass
    BY Zenon DEF WriteOwner
  <2> QED
    BY <1>2, <2>1, <2>2, <2>3
<1>3. ASSUME \/ ForgetCandidates \/ NewBlock \/ UNCHANGED vars
             \/ \E o \in Owner : ReachLimit(o)
      PROVE  UNCHANGED pass
  BY <1>3 DEF ForgetCandidates, NewBlock, ReachLimit, vars
<1> QED
  BY <1>1, <1>2, <1>3, Zenon DEF Next, Signer, Agreement, Environment

\* A pass comes to a transaction only through what it has read.
LEMMA PassMoves ==
  ASSUME IInv, [Next]_vars, ~StartPass, NEW t \in Tx
  PROVE  /\ snap'[t].status # "none" => snap[t].status # "none"
         /\ Untouched(t) => Untouched(t)'
<1> DEFINE Goal == /\ snap'[t].status # "none" => snap[t].status # "none"
                   /\ Untouched(t) => Untouched(t)'
<1>t. snap \in [Tx -> Snapshot] /\ task \in Task
  BY DEF IInv, TypeOK
<1>1. ASSUME UNCHANGED pass PROVE Goal
  BY <1>1 DEF pass, Untouched
<1>2. ASSUME NEW u \in Tx, NEW s \in ActiveStatus, Begin(u, s), UNCHANGED task PROVE Goal
  BY <1>t, <1>2, NoSnapOrTx DEF Begin, Untouched
<1>3. ASSUME NEW u \in Tx, NEW s \in {"signFailed", "signed", "sent"},
             NEW pc \in {"mempool", "touch", "markSent", "markCompleted"},
             Begin(u, s), Enter(u, pc)
      PROVE  Goal
  <2>1. task'.tx = u /\ snap[u].status = s /\ snap' = [snap EXCEPT ![u] = NoSnap]
    BY <1>3, EnterType DEF Begin, IInv
  <2> QED
    BY <1>t, <2>1, NoSnapOrTx DEF Untouched
<1>4. ASSUME UNCHANGED snap, task.pc # "idle",
             task' = IdleTask \/ task'.tx = task.tx
      PROVE  Goal
  BY <1>4, NoSnapOrTx DEF Untouched
<1>5. ASSUME NEW u \in Tx,
             \/ ProcessApprovedTx(u) \/ TimeoutInSignTx(u) \/ SkipTx(u)
             \/ ProcessSignFailedTx(u) \/ ProcessSignedTx(u) \/ ProcessSentTx(u)
      PROVE  Goal
  <2>1. ASSUME ProcessApprovedTx(u) \/ TimeoutInSignTx(u) \/ SkipTx(u)
        PROVE  (\E s \in ActiveStatus : Begin(u, s)) /\ UNCHANGED task
    BY <2>1 DEF ProcessApprovedTx, TimeoutInSignTx, SkipTx, ActiveStatus
  <2>2. CASE ProcessSignFailedTx(u)
    BY <1>3, <2>2 DEF ProcessSignFailedTx
  <2>3. CASE ProcessSignedTx(u)
    BY <1>3, <2>3 DEF ProcessSignedTx
  <2>4. CASE ProcessSentTx(u)
    BY <1>3, <2>4 DEF ProcessSentTx
  <2> HIDE DEF Goal
  <2> QED
    BY <1>2, <1>5, <2>1, <2>2, <2>3, <2>4
<1>6. ASSUME \/ CheckMempool \/ ValidTx \/ InvalidTx \/ ChainCallFails
             \/ SignAgain \/ MarkSent \/ UpdateTxLastCheck
             \/ MarkCompleted \/ AdvanceOwner \/ MarkInvalid \/ ReopenOwner
      PROVE  Goal
  <2>1. \A pc \in TaskPC : [task EXCEPT !.pc = pc].tx = task.tx
    BY <1>t, TaskType
  <2>2. CASE InvalidTx
    <3>1. \A unexpected \in BOOLEAN :
            [task EXCEPT !.pc = "markInvalid", !.unexpected = unexpected].tx = task.tx
      BY <1>t DEF Task
    <3>2. UNCHANGED snap /\ task.pc # "idle"
      BY <2>2, Zenon DEF InvalidTx, At
    <3>3. task' = IdleTask \/ task'.tx = task.tx
      BY <2>2, <3>1, Zenon DEF InvalidTx, Done
    <3> QED
      BY <1>4, <3>2, <3>3
  <2>3. CASE CheckMempool
    BY <1>4, <2>1, <2>3 DEF CheckMempool, At, Goto, TaskPC
  <2>4. CASE ValidTx
    BY <1>4, <2>1, <2>4 DEF ValidTx, At, Goto, Done, TaskPC
  <2>5. CASE ChainCallFails \/ UpdateTxLastCheck \/ AdvanceOwner \/ ReopenOwner
    BY <1>4, <2>5 DEF ChainCallFails, UpdateTxLastCheck, AdvanceOwner, ReopenOwner, At, Done
  <2>6. CASE SignAgain \/ MarkSent
    BY <1>4, <2>6 DEF SignAgain, MarkSent, At, Done
  <2>7. CASE MarkCompleted \/ MarkInvalid
    BY <1>4, <2>1, <2>7 DEF MarkCompleted, MarkInvalid, At, Goto, Done, TaskPC
  <2> HIDE DEF Goal
  <2> QED
    BY <1>6, <2>2, <2>3, <2>4, <2>5, <2>6, <2>7
<1>7. ASSUME Crash PROVE Goal
  BY <1>7, NoSnapOrTx DEF Crash, Untouched
<1> HIDE DEF Goal
<1>8. Goal
  BY <1>1, <1>5, <1>6, <1>7, PassAlone, Zenon DEF ProcessTransactions
<1> QED
  BY <1>8 DEF Goal

\* the owner of an invalidated transaction is reopened next, but for a crash
LEMMA ReopenStays ==
  ASSUME [Next]_vars, task.pc = "reopen", ~ReopenOwner, ~Crash
  PROVE  UNCHANGED task
<1>1. task # IdleTask /\ \A t \in Tx : \A s : ~Begin(t, s)
  BY NoSnapOrTx DEF Begin
<1>2. ~StartPass
  BY <1>1 DEF StartPass
<1>3. ASSUME NEW t \in Tx,
             \/ ProcessApprovedTx(t) \/ TimeoutInSignTx(t) \/ SkipTx(t)
             \/ ProcessSignFailedTx(t) \/ ProcessSignedTx(t) \/ ProcessSentTx(t)
      PROVE  FALSE
  BY <1>1, <1>3 DEF ProcessApprovedTx, TimeoutInSignTx, SkipTx, ProcessSignFailedTx,
     ProcessSignedTx, ProcessSentTx
<1>4. ~(\/ CheckMempool \/ ValidTx \/ InvalidTx \/ ChainCallFails \/ SignAgain
        \/ MarkSent \/ UpdateTxLastCheck \/ MarkCompleted \/ AdvanceOwner \/ MarkInvalid)
  BY DEF CheckMempool, ValidTx, InvalidTx, ChainCallFails, SignAgain, MarkSent,
     UpdateTxLastCheck, MarkCompleted, AdvanceOwner, MarkInvalid, At
<1> QED
  BY <1>2, <1>3, <1>4, PassAlone, Zenon DEF ProcessTransactions, pass

\* What a call that found no row counts on stays, while no pass comes to its
\* transaction.
LEMMA FreshStays ==
  ASSUME PromptSigner, IInv, [Next]_vars, NEW c \in Call, c.tx \in Tx, Alone(c.tx),
         FreshCall(c), Untouched(c.tx)'
  PROVE  FreshCall(c)'
<1>1. ASSUME status[c.tx] \in ValidStatus PROVE status'[c.tx] \in ValidStatus
  <2>1. status'[c.tx] # "none"
    BY <1>1, AloneStays DEF ValidStatus, TransactionStatus
  <2>2. status'[c.tx] # "invalid"
    BY <1>1, Invalidated DEF FreshCall, Untouched, ValidStatus
  <2>3. status'[c.tx] \in RowStatus
    BY TypeInvStep DEF IInv, TypeInv, TypeOK
  <2> QED
    BY <2>1, <2>2, <2>3 DEF ValidStatus, RowStatus
<1> QED
  BY <1>1 DEF FreshCall

LEMMA ValidStays ==
  ASSUME PromptSigner, IInv, [Next]_vars, NEW t \in Tx, Alone(t), status[t] \in ValidStatus
  PROVE  status'[t] \in ValidStatus \/ Reopening(t)'
<1>1. status'[t] # "none"
  BY AloneStays DEF ValidStatus, TransactionStatus
<1>2. status'[t] \in RowStatus
  BY TypeInvStep DEF IInv, TypeInv, TypeOK
<1> QED
  BY <1>1, <1>2, Invalidated DEF ValidStatus, RowStatus, Alone

\* A call that reads finds at most its own transaction, and has it inserted or
\* reset.
LEMMA AloneDecision ==
  ASSUME NEW t \in Tx, Alone(t)
  PROVE  LET op == InsertDecision(t).op IN
         op = "insert" \/ (op = "reset" /\ status[t] \in ValidStatus)
<1>1. CASE ValidAlike(t) = {}
  BY <1>1 DEF InsertDecision, Alone
<1>2. CASE ValidAlike(t) # {}
  <2>1. t \in ValidAlike(t)
    BY <1>2 DEF ValidAlike, Alone
  <2> QED
    BY <1>2, <2>1 DEF InsertDecision, Alone, ValidAlike
<1> QED
  BY <1>1, <1>2

\* No pass starts while an approval is being written.
LEMMA NoPassDuringApproval ==
  ASSUME PromptWrites, StartPass, NEW h \in Handler
  PROVE  handler[h].pc = "idle" /\ UNCHANGED <<handler, status>>
BY CallType DEF StartPass, agreement, table

LEMMA HandlersAlone ==
  ASSUME [Next]_vars, ~Crash
  PROVE  \/ UNCHANGED handler
         \/ \E h \in Handler : \/ \E t \in Tx : StartApproval(h, t)
                              \/ ReadTxs(h) \/ WriteTx(h) \/ WriteOwner(h)
<1> USE DEF agreement
<1>1. ProcessTransactions => UNCHANGED handler
  <2>1. InvalidTx => UNCHANGED handler
    BY Zenon DEF InvalidTx
  <2> QED
    BY <2>1 DEF ProcessTransactions, StartPass, ProcessApprovedTx, TimeoutInSignTx,
       SkipTx, ProcessSignFailedTx, ProcessSignedTx, ProcessSentTx, CheckMempool,
       ValidTx, ChainCallFails, SignAgain, MarkSent, UpdateTxLastCheck, MarkCompleted,
       AdvanceOwner, MarkInvalid, ReopenOwner
<1>2. ASSUME NEW u \in Tx,
             \/ GenerateTx(u) \/ EnqueueSignFailedTx(u) \/ AgreeToRequest(u)
             \/ InsertManualTx(u) \/ ChainMoves(u)
             \/ HandleSuccessfulSign(u) \/ HandleFailedSign(u)
      PROVE  UNCHANGED handler
  BY <1>2 DEF GenerateTx, EnqueueSignFailedTx, AgreeToRequest, InsertManualTx,
     ChainMoves, HandleSuccessfulSign, HandleFailedSign
<1>3. ASSUME \/ ForgetCandidates \/ NewBlock \/ UNCHANGED vars
             \/ \E o \in Owner : ReachLimit(o)
      PROVE  UNCHANGED handler
  BY <1>3 DEF ForgetCandidates, NewBlock, ReachLimit, vars
<1> QED
  BY <1>1, <1>2, <1>3, Zenon DEF Next, Signer, Agreement, Environment

LEMMA FreshThen ==
  ASSUME NEW h \in Handler, NEW c \in Call, handler'[h] = c,
         c.pc = "owner" => c.fresh,
         c.pc # "idle" /\ c.fresh /\ Alone(c.tx) => FreshCall(c)'
  PROVE  FreshHandler(h)'
BY DEF FreshHandler, FreshCall, Untouched

LEMMA FreshStep ==
  ASSUME PromptSigner, PromptWrites, IInv, OrphanInv, [Next]_vars
  PROVE  FreshWork'
<1>t. /\ handler \in [Handler -> Call] /\ IdleHandler \in Call /\ IdleHandler.pc = "idle"
      /\ \A h \in Handler : handler[h].pc # "idle" => handler[h].tx \in Tx
  BY CallType DEF IInv, TypeOK, WorkOK
<1>f. RowsStay /\ \A h \in Handler : FreshHandler(h)
  BY DEF OrphanInv, FreshWork
<1>1. CASE StartPass
  BY <1>1, NoPassDuringApproval DEF FreshWork, FreshHandler
<1>2. CASE Crash
  BY <1>2, <1>t DEF Crash, FreshWork, FreshHandler
\* what the calls that do not move count on
<1>3. ASSUME ~StartPass, NEW h \in Handler, handler'[h] = handler[h]
      PROVE  FreshHandler(h)'
  <2>1. PICK c \in Call : c = handler[h]
    BY <1>t
  <2>2. c.pc = "owner" => c.fresh
    BY <1>f, <2>1 DEF FreshHandler
  <2>3. ASSUME c.pc # "idle", c.fresh, Alone(c.tx) PROVE FreshCall(c)'
    <3>1. c.tx \in Tx /\ FreshCall(c)
      BY <1>t, <1>f, <2>1, <2>3 DEF FreshHandler
    <3>2. Untouched(c.tx)'
      BY <1>3, <3>1, PassMoves DEF FreshCall
    <3> QED
      BY <2>3, <3>1, <3>2, FreshStays
  <2>4. handler'[h] = c
    BY <1>3, <2>1
  <2> QED
    BY <2>2, <2>3, <2>4, FreshThen
\* and the one that moves
<1>4. ASSUME ~StartPass, NEW g \in Handler, NEW c \in Call,
             handler' = [handler EXCEPT ![g] = c],
             c.pc = "owner" => c.fresh,
             c.pc # "idle" /\ c.fresh /\ Alone(c.tx) => FreshCall(c)'
      PROVE  FreshWork'
  <2>1. FreshHandler(g)'
    BY <1>t, <1>4, FreshThen
  <2>2. ASSUME NEW h \in Handler, h # g PROVE FreshHandler(h)'
    BY <1>t, <1>3, <1>4, <2>2
  <2> QED
    BY <2>1, <2>2 DEF FreshWork
<1>5. ASSUME ~StartPass, NEW g \in Handler, handler' = [handler EXCEPT ![g] = IdleHandler]
      PROVE  FreshWork'
  BY <1>t, <1>4, <1>5
<1>6. ASSUME ~StartPass, UNCHANGED handler PROVE FreshWork'
  BY <1>3, <1>6 DEF FreshWork
<1>7. ASSUME ~StartPass, NEW g \in Handler, NEW t \in Tx, StartApproval(g, t) PROVE FreshWork'
  <2>1. UNCHANGED <<status, snap, task>>
    BY <1>7, Zenon DEF StartApproval, table, pass
  <2>2. CASE status[t] = "invalid"
    BY <1>6, <1>7, <2>2, Zenon DEF StartApproval
  <2>3. CASE status[t] # "invalid"
    <3>1. PICK c : c = [IdleHandler EXCEPT !.pc = "read", !.tx = t,
                                           !.fresh = (status[t] = "none")]
      OBVIOUS
    <3>2. handler' = [handler EXCEPT ![g] = c]
      BY <1>7, <2>3, <3>1, Zenon DEF StartApproval
    <3>3. c \in Call /\ c.pc = "read" /\ c.tx = t /\ (c.fresh => status[t] = "none")
      BY <3>1 DEF IdleHandler, Call, InsertOp
    <3>4. ASSUME c.fresh, Alone(c.tx) PROVE FreshCall(c)'
      <4>1. snap[t].status = "none"
        BY <1>f, <3>3, <3>4 DEF RowsStay
      <4>2. task.pc # "idle" => task.tx # t
        BY <3>3, <3>4 DEF IInv, TaskInv, TypeOK, Task, TaskPC
      <4> QED
        BY <2>1, <3>3, <4>1, <4>2 DEF FreshCall, Untouched
    <3> QED
      BY <1>4, <1>7, <3>2, <3>3, <3>4
  <2> QED
    BY <2>2, <2>3
<1>8. ASSUME ~StartPass, NEW g \in Handler, ReadTxs(g) PROVE FreshWork'
  <2>1. PICK t \in Tx : t = handler[g].tx
    BY <1>t, <1>8 DEF ReadTxs
  <2>2. UNCHANGED <<status, snap, task>>
    BY <1>8, Zenon DEF ReadTxs, table, pass
  <2>3. CASE handler' = [handler EXCEPT ![g] = IdleHandler]
    BY <1>5, <1>8, <2>3
  <2>4. CASE handler' # [handler EXCEPT ![g] = IdleHandler]
    <3>1. PICK op, old : op = InsertDecision(t).op /\ old = InsertDecision(t).old
      OBVIOUS
    <3>2. PICK c : c = [handler[g] EXCEPT !.pc = "write", !.op = op, !.old = old]
      OBVIOUS
    <3>3. handler' = [handler EXCEPT ![g] = c]
      BY <1>8, <2>1, <2>4, <3>1, <3>2, Zenon DEF ReadTxs
    <3>4. handler[g] \in Call /\ op \in InsertOp /\ old \in Tx \cup {NoTx}
      BY <1>t, <3>1, InsertDecisionType
    <3>5. c \in Call /\ c.pc = "write" /\ c.tx = t /\ c.op = op /\ c.fresh = handler[g].fresh
      BY <2>1, <3>2, <3>4 DEF Call
    <3>6. ASSUME c.fresh, Alone(c.tx) PROVE FreshCall(c)'
      <4>1. Untouched(t)
        BY <1>f, <1>8, <2>1, <3>5, <3>6 DEF FreshHandler, FreshCall, ReadTxs
      <4>2. op = "insert" \/ (op = "reset" /\ status[t] \in ValidStatus)
        BY <3>1, <3>5, <3>6, AloneDecision
      <4> QED
        BY <2>2, <3>5, <4>1, <4>2 DEF FreshCall, Untouched
    <3> QED
      BY <1>4, <1>8, <3>3, <3>5, <3>6
  <2> QED
    BY <2>3, <2>4
<1>9. ASSUME ~StartPass, NEW g \in Handler, WriteTx(g) PROVE FreshWork'
  <2>1. PICK t, op, old :
          t \in Tx /\ t = handler[g].tx /\ op = handler[g].op /\ old = handler[g].old
    BY <1>t, <1>9 DEF WriteTx
  <2>2. UNCHANGED <<snap, task>> /\ handler[g].pc = "write"
    BY <1>9, Zenon DEF WriteTx, pass
  <2>3. CASE handler' = [handler EXCEPT ![g] = IdleHandler]
    BY <1>5, <1>9, <2>3
  <2>4. CASE handler' # [handler EXCEPT ![g] = IdleHandler]
    <3>1. PICK c : c = [handler[g] EXCEPT !.pc = "owner", !.op = "skip", !.old = NoTx]
      OBVIOUS
    <3>2. /\ handler[g].fresh /\ ~KeyViolation(t, op, old) /\ InsertNewTx(t, op, old)
          /\ handler' = [handler EXCEPT ![g] = c]
      BY <1>9, <2>1, <2>4, <3>1, Zenon DEF WriteTx
    <3>3. handler[g] \in Call
      BY <1>t
    <3>4. c \in Call /\ c.pc = "owner" /\ c.tx = t /\ c.fresh
      BY <2>1, <3>1, <3>2, <3>3 DEF Call, InsertOp
    <3>5. ASSUME Alone(c.tx) PROVE FreshCall(c)'
      <4>1. /\ Untouched(t) /\ op \in {"insert", "reset"}
            /\ op = "reset" => status[t] \in ValidStatus
        BY <1>f, <2>1, <2>2, <3>2, <3>4, <3>5 DEF FreshHandler, FreshCall
      <4>2. status'[t] \in ValidStatus
        BY <2>1, <3>2, <4>1 DEF InsertNewTx, KeyViolation, IInv, TypeOK, ValidStatus,
           TransactionStatus
      <4> QED
        BY <2>2, <3>4, <4>1, <4>2 DEF FreshCall, Untouched
    <3> QED
      BY <1>4, <1>9, <3>2, <3>4, <3>5
  <2> QED
    BY <2>3, <2>4
<1>10. ASSUME ~StartPass, NEW g \in Handler, WriteOwner(g) PROVE FreshWork'
  BY <1>5, <1>10 DEF WriteOwner
<1> QED
  BY <1>1, <1>2, <1>6, <1>7, <1>8, <1>9, <1>10, HandlersAlone

\* the types have statuses of their own for an owner in progress
LEMMA ProgressStatuses ==
  /\ \A a, b \in OwnedType : InProgressStatus[a] = InProgressStatus[b] => a = b
  /\ \A a \in OwnedType :
       /\ InProgressStatus[a] # "reachedLimit"
       /\ \A b \in OwnedType : InProgressStatus[a] # PendingStatus[b]
       /\ \A t \in Tx : InProgressStatus[a] # ConfirmedOwnerStatus(t)
BY DEF InProgressStatus, PendingStatus, ConfirmedOwnerStatus, OwnedType

LEMMA OwnerInProgress ==
  ASSUME IInv, [Next]_vars, NEW o \in Owner, NEW type \in OwnedType,
         ownerStatus'[o] = InProgressStatus[type], ownerStatus'[o] # ownerStatus[o]
  PROVE  \E t \in Tx : OwnerOf[t] = o /\ TypeOf[t] = type /\ Approved(t)
<1>1. PICK t \in Tx : /\ Owned(t) /\ OwnerOf[t] = o /\ Approved(t)
                      /\ ownerStatus'[o] = InProgressStatus[TypeOf[t]]
  BY OwnerMoves, ProgressStatuses DEF Owned
<1>2. TypeOf[t] = type
  BY <1>1, ProgressStatuses DEF Owned
<1> QED
  BY <1>1, <1>2

LEMMA CrashesAlone ==
  ASSUME [Next]_vars, ~Crash
  PROVE  UNCHANGED crashes
<1>1. ProcessTransactions => UNCHANGED crashes
  <2>1. InvalidTx => UNCHANGED crashes
    BY Zenon DEF InvalidTx
  <2> QED
    BY <2>1 DEF ProcessTransactions, StartPass, ProcessApprovedTx, TimeoutInSignTx,
       SkipTx, ProcessSignFailedTx, ProcessSignedTx, ProcessSentTx, CheckMempool,
       ValidTx, ChainCallFails, SignAgain, MarkSent, UpdateTxLastCheck, MarkCompleted,
       AdvanceOwner, MarkInvalid, ReopenOwner
<1>2. ASSUME NEW u \in Tx,
             \/ GenerateTx(u) \/ EnqueueSignFailedTx(u) \/ AgreeToRequest(u)
             \/ InsertManualTx(u) \/ ChainMoves(u)
             \/ HandleSuccessfulSign(u) \/ HandleFailedSign(u)
      PROVE  UNCHANGED crashes
  BY <1>2 DEF GenerateTx, EnqueueSignFailedTx, AgreeToRequest, InsertManualTx,
     ChainMoves, HandleSuccessfulSign, HandleFailedSign
<1>3. ASSUME NEW h \in Handler, ReadTxs(h) \/ WriteTx(h) \/ WriteOwner(h)
      PROVE  UNCHANGED crashes
  BY <1>3, Zenon DEF ReadTxs, WriteTx, WriteOwner
<1>4. ASSUME NEW h \in Handler, NEW t \in Tx, StartApproval(h, t) PROVE UNCHANGED crashes
  BY <1>4, Zenon DEF StartApproval
<1>5. ASSUME \/ ForgetCandidates \/ NewBlock \/ UNCHANGED vars
             \/ \E o \in Owner : ReachLimit(o)
      PROVE  UNCHANGED crashes
  BY <1>5 DEF ForgetCandidates, NewBlock, ReachLimit, vars
<1> QED
  BY <1>1, <1>2, <1>3, <1>4, <1>5, Zenon DEF Next, Signer, Agreement, Environment

LEMMA OrphanInvStep ==
  ASSUME PromptSigner, PromptWrites, IInv, OrphanInv, [Next]_vars
  PROVE  OrphanInv'
<1>1. RowsStay'
  <2> SUFFICES ASSUME NEW t \in Tx, Alone(t), snap'[t].status # "none"
               PROVE  status'[t] # "none"
    BY DEF RowsStay
  <2>1. CASE snap[t].status # "none"
    BY <2>1, AloneStays DEF OrphanInv, RowsStay
  <2>2. CASE snap[t].status = "none"
    <3>1. StartPass
      BY <2>2, PassMoves
    <3> QED
      BY <3>1, NoSnapOrTx DEF StartPass, table, ActiveStatus
  <2> QED
    BY <2>1, <2>2
<1>2. FreshWork'
  BY FreshStep
<1>3. InProgressOwned'
  <2> SUFFICES ASSUME NEW o \in Owner, NEW type \in OwnedType,
                      ownerStatus'[o] = InProgressStatus[type]
               PROVE  \E t \in Tx : OwnerOf[t] = o /\ TypeOf[t] = type
    BY DEF InProgressOwned
  <2>1. CASE ownerStatus'[o] = ownerStatus[o]
    <3>1. InProgressOwned /\ ownerStatus[o] = InProgressStatus[type]
      BY <2>1 DEF OrphanInv
    <3> QED
      BY <3>1 DEF InProgressOwned
  <2>2. CASE ownerStatus'[o] # ownerStatus[o]
    BY <2>2, OwnerInProgress
  <2> QED
    BY <2>1, <2>2
<1>4. OrphanFree'
  <2> SUFFICES ASSUME crashes' = 0, NEW t \in Tx, Alone(t),
                      ownerStatus'[OwnerOf[t]] = InProgressStatus[TypeOf[t]]
               PROVE  status'[t] \in ValidStatus \/ Reopening(t)'
    BY DEF OrphanFree
  <2> DEFINE o == OwnerOf[t]
  <2>1. TypeOf[t] \in OwnedType /\ o \in Owner
    BY TypesOfConstants DEF Alone
  <2>2. ~Crash
    BY DEF Crash, IInv, TypeOK
  <2>3. crashes = 0
    BY <2>2, CrashesAlone
  <2>4. CASE ownerStatus'[o] # ownerStatus[o]
    <3>1. PICK u \in Tx : OwnerOf[u] = o /\ TypeOf[u] = TypeOf[t] /\ Approved(u)
      BY <2>1, <2>4, OwnerInProgress
    <3>2. u = t
      BY <3>1 DEF Alone, Alike
    <3>3. PICK h \in Handler : handler[h].pc = "owner" /\ handler[h].tx = t
      BY <3>1, <3>2 DEF Approved
    <3>4. status[t] \in ValidStatus
      BY <3>3 DEF OrphanInv, FreshWork, FreshHandler, FreshCall
    <3> QED
      BY <3>4, ValidStays
  <2>5. CASE ownerStatus'[o] = ownerStatus[o]
    <3>1. status[t] \in ValidStatus \/ Reopening(t)
      BY <2>3, <2>5 DEF OrphanInv, OrphanFree
    <3>2. CASE status[t] \in ValidStatus
      BY <3>2, ValidStays
    <3>3. CASE Reopening(t)
      <4>1. ~ReopenOwner
        <5>1. ASSUME ReopenOwner PROVE ownerStatus'[o] = PendingStatus[TypeOf[t]]
          BY <2>1, <3>3, <5>1 DEF ReopenOwner, SetOwnerStatus, Reopening, IInv, TypeOK
        <5> QED
          BY <2>1, <5>1, ProgressStatuses
      <4>2. UNCHANGED task
        BY <2>2, <3>3, <4>1, ReopenStays DEF Reopening
      <4> QED
        BY <3>3, <4>2 DEF Reopening
    <3> QED
      BY <3>1, <3>2, <3>3
  <2> QED
    BY <2>4, <2>5
<1> QED
  BY <1>1, <1>2, <1>3, <1>4 DEF OrphanInv

LEMMA OrphanInvImplies == OrphanInv => NoOrphan
<1> SUFFICES ASSUME OrphanInv, crashes = 0, NEW o \in Owner, NEW type \in OwnedType,
                    ownerStatus[o] = InProgressStatus[type], Uncontested(o, type)
             PROVE  \E t \in Tx : /\ OwnerOf[t] = o /\ TypeOf[t] = type
                                  /\ status[t] \in ValidStatus \/ Reopening(t)
  BY DEF NoOrphan, Reopening
<1>1. PICK t \in Tx : OwnerOf[t] = o /\ TypeOf[t] = type
  BY DEF OrphanInv, InProgressOwned
<1>2. Alone(t)
  BY <1>1 DEF Alone, Alike, Uncontested, Owned
<1> QED
  BY <1>1, <1>2 DEF OrphanInv, OrphanFree

(***************************************************************************)
(* No event or order is left in progress with nothing in progress, for     *)
(* every set of transactions of which none of its type competes, any       *)
(* number of approvals at once and any chain, while the signer and the     *)
(* writing of an approval are prompt and no crash comes between two        *)
(* writes (setTxAsApproved, setTransactionAsInvalid).                      *)
(***************************************************************************)
THEOREM NoneOrphaned ==
  ASSUME PromptSigner, PromptWrites
  PROVE  Spec => []NoOrphan
<1>1. IInv /\ OrphanInv /\ [Next]_vars => OrphanInv'
  BY OrphanInvStep
<1> QED
  BY <1>1, InitOrphanInv, OrphanInvImplies, InductiveInvariant, PTL DEF Spec

-----------------------------------------------------------------------------
(* What a generation reads while the rest of the service goes on.          *)

LEMMA StageBounds == \A t \in Tx :
  /\ Stage(t) \in 0 .. 3
  /\ Stage(t) = 3 => t \in Signed
  /\ Stage(t) = 2 => t \in Unsigned
  /\ Stage(t) = 1 => t \in Pending
BY DEF Stage, Signed, Unsigned

LEMMA OnwardOnly == \A t \in Onward :
  t \in there /\ Stage(t)' # 0 /\ Stage(t)' >= Stage(t)
BY DEF Onward

\* the generation and its history, whose steps are few
GenInv == GenTypeOK /\ StillToRead

LEMMA NoGenerationType ==
  /\ NoGeneration \in Generation
  /\ NoGeneration.next = "none" /\ NoGeneration.seen = {}
BY DEF NoGeneration, Generation

\* a step that leaves the generation as it is
LEMMA OthersKeepGenInv ==
  ASSUME GenInv, there' = Onward, gen' = gen, broadcast' \in Tx \cup {NoTx}
  PROVE  GenInv'
<1>1. GenTypeOK'
  BY OnwardOnly DEF GenInv, GenTypeOK
<1>2. SameChain(gen.tx)' = SameChain(gen.tx)
  BY DEF SameChain
<1>3. ASSUME NEW t \in (there \ gen.seen)'
      PROVE  t \in there \ gen.seen /\ t \in Tx /\ Stage(t)' >= Stage(t)
  BY <1>3, OnwardOnly DEF GenInv, GenTypeOK
<1>4. ASSUME NEW t \in (there \ gen.seen)'
      PROVE  Stage(t) \in Nat /\ Stage(t)' \in Nat
  BY <1>3, <1>4, StageBounds DEF Stage
<1>5. ASSUME NEW t \in (there \ gen.seen)'
      PROVE  CASE gen.next = "unsigned" -> Stage(t)' >= 2
               [] gen.next = "signed" -> Stage(t)' >= 3
               [] OTHER -> FALSE
  BY <1>3, <1>4, <1>5 DEF GenInv, StillToRead
<1> QED
  BY <1>1, <1>2, <1>5, OnwardOnly DEF GenInv, StillToRead

\* a step with which no generation is left, or one begins
LEMMA NothingReadYet ==
  ASSUME gen' \in Generation, there' = {}, broadcast' \in Tx \cup {NoTx}
  PROVE  GenInv'
BY DEF GenInv, GenTypeOK, StillToRead

LEMMA ReadKeepsGenInv ==
  ASSUME GenInv, ReadPending \/ ReadUnsigned \/ ReadSigned
  PROVE  GenInv'
<1> USE DEF GenInv
<1>1. PICK list, found :
        /\ list \in {"pending", "unsigned", "signed"}
        /\ Read(list, found)
        /\ list = "pending" => /\ found = Pending
                               /\ there' = {t \in SameChain(gen.tx) : Stage(t) # 0}
        /\ list = "unsigned" => found = Unsigned /\ there' = Onward
        /\ list = "signed" => found = Signed /\ there' = Onward
  BY DEF ReadPending, ReadUnsigned, ReadSigned
<1>2. /\ gen.next = list
      /\ gen'.next = After(list) /\ gen'.tx = gen.tx
      /\ gen'.seen = gen.seen \cup (found \cap SameChain(gen.tx))
      /\ gen' \in Generation
  BY <1>1 DEF Read, After, GenTypeOK, Generation, SameChain
<1>3. \A t : Stage(t)' = Stage(t)
  BY <1>1 DEF Read, Stage, Signed, Unsigned, Pending, vars, table, agreement
<1>4. there' \subseteq SameChain(gen.tx) /\ SameChain(gen.tx) \subseteq Tx
  BY <1>1, OnwardOnly DEF StillToRead, SameChain
<1>5. GenTypeOK'
  BY <1>1, <1>2, <1>4 DEF Read, GenTypeOK
<1>6. SameChain(gen.tx)' = SameChain(gen.tx)
  BY <1>2 DEF SameChain
<1>7. ASSUME NEW t \in (there \ gen.seen)'
      PROVE  CASE (gen.next)' = "unsigned" -> Stage(t)' >= 2
               [] (gen.next)' = "signed" -> Stage(t)' >= 3
               [] OTHER -> FALSE
  <2>1. t \in Tx /\ t \in SameChain(gen.tx) /\ t \notin found /\ t \notin gen.seen
    BY <1>2, <1>4, <1>7
  <2>2. Stage(t) \in 0 .. 3 /\ Stage(t)' = Stage(t)
    BY <1>3, <2>1, StageBounds
  <2>3. CASE list = "pending"
    <3>1. Stage(t) # 0 /\ Stage(t) # 1
      BY <1>1, <1>7, <2>1, <2>3, StageBounds
    <3> QED
      BY <1>2, <2>2, <2>3, <3>1 DEF After
  <2>4. CASE list = "unsigned"
    <3>1. Stage(t) >= 2
      BY <1>1, <1>2, <1>7, <2>1, <2>4, OnwardOnly DEF StillToRead
    <3>2. Stage(t) # 2
      BY <1>1, <2>1, <2>4, StageBounds
    <3> QED
      BY <1>2, <2>2, <2>4, <3>1, <3>2 DEF After
  <2>5. CASE list = "signed"
    <3>1. Stage(t) >= 3
      BY <1>1, <1>2, <1>7, <2>1, <2>5, OnwardOnly DEF StillToRead
    <3>2. Stage(t) # 3
      BY <1>1, <2>1, <2>5, StageBounds
    <3> QED
      BY <2>2, <3>1, <3>2
  <2> QED
    BY <1>1, <2>3, <2>4, <2>5
<1> QED
  BY <1>2, <1>4, <1>5, <1>6, <1>7 DEF StillToRead

LEMMA GenInvInductive == GenInv /\ [GenNext]_allVars => GenInv'
<1> SUFFICES ASSUME GenInv, [GenNext]_allVars
             PROVE  GenInv'
  OBVIOUS
<1>0. GenTypeOK
  BY DEF GenInv
<1>1. CASE ServiceStep
  <2>1. CASE crashes' = crashes
    BY <1>0, <1>1, <2>1, OthersKeepGenInv DEF ServiceStep, GenTypeOK
  <2>2. CASE crashes' # crashes
    BY <1>1, <2>2, NoGenerationType, NothingReadYet DEF ServiceStep
  <2> QED
    BY <2>1, <2>2
<1>2. CASE \E t \in Tx : \/ CreateEventPayment(t) \/ CreateEventRewardDistribution(t)
                         \/ CreateOrderPayment(t) \/ GenerateColdStorageTransaction(t)
  <2>1. PICK t \in Tx : Begins(t)
    BY <1>2 DEF CreateEventPayment, CreateEventRewardDistribution,
                CreateOrderPayment, GenerateColdStorageTransaction
  <2>2. gen' \in Generation
    BY <2>1 DEF Begins, NoGeneration, Generation
  <2>3. there \subseteq {}
    BY <2>1, NoGenerationType DEF Begins, GenInv, StillToRead
  <2> QED
    BY <1>0, <2>1, <2>2, <2>3, NothingReadYet DEF Begins, GenTypeOK
<1>3. CASE ReadPending \/ ReadUnsigned \/ ReadSigned
  BY <1>3, ReadKeepsGenInv
<1>4. CASE QueueTx \/ GiveUp
  BY <1>0, <1>4, NoGenerationType, NothingReadYet DEF QueueTx, GiveUp, GenTypeOK
<1>5. CASE RegisterPopped \/ \E t \in Tx : PopQueue(t)
  BY <1>0, <1>5, OthersKeepGenInv DEF RegisterPopped, PopQueue, GenTypeOK
<1>6. CASE UNCHANGED allVars
  <2>1. \A t : Stage(t)' = Stage(t)
    BY <1>6 DEF allVars, vars, table, agreement, Stage, Signed, Unsigned, Pending
  <2> QED
    BY <1>6, <2>1 DEF allVars, genVars, GenInv, GenTypeOK, StillToRead, SameChain
<1> QED
  BY <1>1, <1>2, <1>3, <1>4, <1>5, <1>6 DEF GenNext, Generate

(***************************************************************************)
(* What was there when a generation began to read, and only went on its    *)
(* way since, is among what the generated transaction must not conflict    *)
(* with, whatever the rest of the service does meanwhile: no assumption    *)
(* about the signer is needed, only that the transaction did not go back.  *)
(***************************************************************************)
THEOREM GenerationMissesNothing == GenSpec => []NothingMissed
<1>1. GenInit => GenInv
  BY NoGenerationType DEF GenInit, GenInv, GenTypeOK, StillToRead
<1>2. GenInv => NothingMissed
  BY DEF GenInv, StillToRead, NothingMissed
<1> QED
  BY <1>1, <1>2, GenInvInductive, PTL DEF GenSpec
=============================================================================
