------------------------ MODULE EventReprocess_proofs ------------------------
(***************************************************************************)
(* That the tables of events and orders stay well-typed and that no event  *)
(* is brought to the distribution of its reward before its payment is      *)
(* confirmed, for any number of events, orders, verifications, requests    *)
(* and peers, with crashes anywhere.                                       *)
(*                                                                         *)
(* RewardBehindPayment speaks of the rows only, but a row is written from  *)
(* what some job read of it long before.  The inductive invariant says of  *)
(* every such copy what the property says of the row: whatever stands for  *)
(* the reward of an event, in a list, a task, a verification, an           *)
(* agreement, a transaction or a request, has the confirmed payment        *)
(* behind it.  Since a confirmed payment is never taken back, the copies   *)
(* cannot become wrong while they wait.                                    *)
(***************************************************************************)
EXTENDS EventReprocess, FiniteSetTheorems, TLAPS

Backed(e) == e \notin ToErgo /\ <<e, "payment">> \in paid

Pendings == {"pendingPayment", "pendingReward", "pending"}
Waitings == {"paymentWaiting", "rewardWaiting", "waiting"}

(* Which copies there can be at all.                                       *)
ListKinds == \A r \in Row :
  list[r] # NoRead => /\ list[r].status \in Pendings
                      /\ r \in Event => list[r].status # "pending"
TaskKind == task.pc # "idle" => /\ task.row \in Row
                                /\ task.row \in Event => task.type # "arbitrary"
WaitingKinds == \A r \in Row : waiting[r] \in Waitings \cup {"none"}
VerifierKinds == \A v \in Verifier :
  verifier[v].pc # "idle" => /\ verifier[v].row \in Event
                             /\ verifier[v].type \in {"payment", "reward"}
TxKinds == \A e \in Event : /\ <<e, "arbitrary">> \notin candidates
                            /\ <<e, "arbitrary">> \notin valid
PassKind == pass.pc # "idle" => pass.row \in Row

Kinds == /\ ListKinds /\ TaskKind /\ WaitingKinds /\ VerifierKinds
         /\ TxKinds /\ PassKind

(* That each has the payment behind it.                                    *)
RowsBacked == \A e \in Event :
  /\ status[e] \in RewardStatus => Backed(e)
  /\ status[e] = "completed" => <<e, "payment">> \in paid
ListBacked == \A e \in Event : list[e].status = "pendingReward" => Backed(e)
TaskBacked == task.pc # "idle" /\ task.row \in Event /\ task.type = "reward"
                => Backed(task.row)
WaitingBacked == \A e \in Event : waiting[e] = "rewardWaiting" => Backed(e)
VerifierBacked == \A v \in Verifier :
  verifier[v].pc # "idle" /\ verifier[v].status = "pendingReward"
    => Backed(verifier[v].row)
TxBacked == \A e \in Event :
  <<e, "reward">> \in candidates \/ <<e, "reward">> \in valid => Backed(e)
PassBacked == pass.pc # "idle" /\ pass.row \in Event =>
  /\ pass.type # "arbitrary"
  /\ pass.type = "reward" => Backed(pass.row)
  /\ pass.pc = "advance" /\ pass.type = "payment" => <<pass.row, "payment">> \in paid
HandlerBacked == \A h \in Handler :
  handler[h].pc # "idle" /\ handler[h].status = "rewardWaiting"
    => Backed(handler[h].row)

AllBacked == /\ RowsBacked /\ ListBacked /\ TaskBacked /\ WaitingBacked
             /\ VerifierBacked /\ TxBacked /\ PassBacked /\ HandlerBacked

Inv == AllTypeOK /\ Kinds /\ AllBacked

(* Whatever has been read of a row, the row is still there.                *)
Present ==
  /\ \A r \in Row : list[r] # NoRead => status[r] # "absent"
  /\ task.pc # "idle" => status[task.row] # "absent"
  /\ \A v \in Verifier : verifier[v].pc # "idle" => status[verifier[v].row] # "absent"
  /\ \A r \in Row, type \in TxType :
       <<r, type>> \in candidates \/ <<r, type>> \in valid => status[r] # "absent"

(* The statuses of an event that goes on to its reward.                    *)
GoingOn == RewardStatus \cup {"completed", "spent", "reachedLimit"}

Paid(e) == e \in Genuine \ cut /\ <<e, "payment">> \in paid

(* Of an event whose payment is confirmed no copy is left that could write *)
(* a status of before the payment, or agree to another payment.            *)
RowsGoOn == \A e \in Event : Paid(e) =>
  \/ status[e] \in GoingOn
  \/ pass.pc = "advance" /\ pass.row = e
NoPaymentAgain == \A e \in Event : Paid(e) => <<e, "payment">> \notin candidates
RoundGoesOn == \A e \in Event : Paid(e) =>
  /\ list[e].status # "pendingPayment"
  /\ task.pc # "idle" /\ task.row = e => task.pc = "generate" /\ task.type = "reward"
JobsGoOn == \A e \in Event : Paid(e) =>
  overdue[e] = "none" /\ waiting[e] \in {"none", "rewardWaiting"}
VerifiersGoOn == \A e \in Event : Paid(e) =>
  \A v \in Verifier : verifier[v].pc # "idle" /\ verifier[v].row = e =>
    verifier[v].status # "pendingPayment"
PassGoesOn == \A e \in Event : Paid(e) =>
  (pass.pc = "reopen" /\ pass.row = e => pass.type = "reward")
HandlersGoOn == \A e \in Event : Paid(e) =>
  \A h \in Handler : handler[h].pc # "idle" /\ handler[h].row = e =>
    handler[h].status \notin {"rejected", "timeout", "paymentWaiting"}

AllGoOn == /\ RowsGoOn /\ NoPaymentAgain /\ RoundGoesOn /\ JobsGoOn
           /\ VerifiersGoOn /\ PassGoesOn /\ HandlersGoOn

(* The requests of a peer that have passed the cooldown and are not yet    *)
(* recorded; and every event queued again has its request recorded, being  *)
(* handled, or lost.                                                       *)
Passed(p) == {h \in Handler : handler[h].pc \in {"write", "insert"} /\ handler[h].from = p}

Cooldown == \A p \in Peer : recent[p] + Cardinality(Passed(p)) <= Cardinality(Handler)

Counted == \A p \in Peer : again[p] = recent[p] + lost[p] + Cardinality(Unrecorded(p))

-----------------------------------------------------------------------------

(* The statuses of the tables, by type of transaction.                     *)
LEMMA Statuses ==
  /\ PendingStatus["payment"] = "pendingPayment"
  /\ PendingStatus["reward"] = "pendingReward"
  /\ PendingStatus["arbitrary"] = "pending"
  /\ InProgressStatus["payment"] = "inPayment"
  /\ InProgressStatus["reward"] = "inReward"
  /\ InProgressStatus["arbitrary"] = "inProcess"
  /\ WaitingStatus["payment"] = "paymentWaiting"
  /\ WaitingStatus["reward"] = "rewardWaiting"
  /\ WaitingStatus["arbitrary"] = "waiting"
  BY DEF PendingStatus, InProgressStatus, WaitingStatus

LEMMA StatusTypes ==
  \A type \in TxType : /\ PendingStatus[type] \in Pendings
                       /\ WaitingStatus[type] \in Waitings
                       /\ PendingStatus[type] \in RowStatus
                       /\ InProgressStatus[type] \in RowStatus
                       /\ WaitingStatus[type] \in RowStatus
  BY Statuses DEF TxType, Pendings, Waitings, RowStatus, EventStatus, OrderStatus

LEMMA TypeForStatus ==
  /\ TypeFor("pendingPayment") = "payment" /\ TypeFor("paymentWaiting") = "payment"
  /\ TypeFor("pendingReward") = "reward" /\ TypeFor("rewardWaiting") = "reward"
  /\ TypeFor("pending") = "arbitrary" /\ TypeFor("waiting") = "arbitrary"
  BY Statuses DEF TypeFor, TxType

LEMMA InsertConfirmedEventStep ==
  ASSUME Inv, NEW e \in Event, InsertConfirmedEvent(e), UNCHANGED reprocess
  PROVE  Inv'
<1>1. AllTypeOK'
  BY Statuses DEF Inv, AllTypeOK, TypeOK, ReprocessTypeOK,
     InsertConfirmedEvent, InsertRow, txs, round, jobs, reprocess, history, RowStatus,
     EventStatus
<1>2. Kinds'
  BY DEF Inv, Kinds, ListKinds, TaskKind, WaitingKinds, VerifierKinds,
     TxKinds, PassKind, InsertConfirmedEvent, InsertRow, txs, round, jobs
<1>3. AllBacked'
  BY Statuses DEF Inv, AllBacked, RowsBacked, ListBacked, TaskBacked,
     WaitingBacked, VerifierBacked, TxBacked, PassBacked, HandlerBacked,
     Backed, InsertConfirmedEvent, InsertRow, txs, round, jobs, reprocess, history,
     RewardStatus
<1> QED
  BY <1>1, <1>2, <1>3 DEF Inv

LEMMA InsertOrderStep ==
  ASSUME Inv, NEW o \in Order, InsertOrder(o), UNCHANGED reprocess
  PROVE  Inv'
<1>1. AllTypeOK'
  BY Statuses DEF Inv, AllTypeOK, TypeOK, ReprocessTypeOK, InsertOrder,
     InsertRow, txs, round, jobs, reprocess, history, RowStatus, OrderStatus
<1>2. Kinds'
  BY DEF Inv, Kinds, ListKinds, TaskKind, WaitingKinds, VerifierKinds,
     TxKinds, PassKind, InsertOrder, InsertRow, txs, round, jobs
<1>3. AllBacked'
  BY EventAssumption DEF Inv, AllBacked, RowsBacked, ListBacked, TaskBacked,
     WaitingBacked, VerifierBacked, TxBacked, PassBacked, HandlerBacked,
     Backed, InsertOrder, InsertRow, txs, round, jobs, reprocess, history
<1> QED
  BY <1>1, <1>2, <1>3 DEF Inv

LEMMA ReadListStep ==
  ASSUME Inv, NEW rows \in SUBSET Row, NEW types \in SUBSET TxType,
         rows \cap Event = {} \/ "arbitrary" \notin types,
         ReadList(rows, types), UNCHANGED reprocess
  PROVE  Inv'
<1>1. AllTypeOK'
  BY DEF Inv, AllTypeOK, TypeOK, ReprocessTypeOK, ReadList, table, txs,
     reprocess, history, Read, NoRead
<1>2. ListKinds'
  <2> SUFFICES ASSUME NEW r \in Row, list'[r] # NoRead
               PROVE  /\ list'[r].status \in Pendings
                      /\ r \in Event => list'[r].status # "pending"
    BY DEF ListKinds
  <2>1. PICK type \in types :
          /\ status[r] = PendingStatus[type] /\ r \in rows
          /\ list'[r].status = status[r]
    BY DEF ReadList
  <2>2. list'[r].status \in Pendings
    BY <2>1, StatusTypes
  <2>3. type # "arbitrary" => PendingStatus[type] # "pending"
    BY Statuses DEF TxType
  <2> QED
    BY <2>1, <2>2, <2>3
<1>3. TaskKind'
  BY DEF Inv, Kinds, TaskKind, ReadList
<1>4. WaitingKinds'
  BY DEF Inv, Kinds, WaitingKinds, ReadList
<1>5. VerifierKinds'
  BY DEF Inv, Kinds, VerifierKinds, ReadList
<1>6. TxKinds'
  BY DEF Inv, Kinds, TxKinds, ReadList, txs
<1>7. PassKind'
  BY DEF Inv, Kinds, PassKind, ReadList
<1>8. AllBacked'
  BY DEF Inv, AllBacked, RowsBacked, ListBacked, TaskBacked, WaitingBacked,
     VerifierBacked, TxBacked, PassBacked, HandlerBacked, Backed, ReadList,
     table, txs, reprocess, history, Row, NoRead, RewardStatus
<1> QED
  BY <1>1, <1>2, <1>3, <1>4, <1>5, <1>6, <1>7, <1>8 DEF Inv, AllTypeOK, Kinds,
     AllBacked

LEMMA AbortRoundStep ==
  ASSUME Inv, AbortRound, UNCHANGED reprocess
  PROVE  Inv'
<1>1. AllTypeOK'
  BY DEF Inv, AllTypeOK, TypeOK, ReprocessTypeOK, AbortRound, table, txs,
     reprocess, history, Read, NoRead
<1>2. Kinds'
  BY DEF Inv, Kinds, ListKinds, TaskKind, WaitingKinds, VerifierKinds,
     TxKinds, PassKind, AbortRound, txs
<1>3. AllBacked'
  BY DEF Inv, AllBacked, RowsBacked, ListBacked, TaskBacked, WaitingBacked,
     VerifierBacked, TxBacked, PassBacked, HandlerBacked, Backed, AbortRound,
     table, txs, reprocess, history, Row, NoRead
<1> QED
  BY <1>1, <1>2, <1>3 DEF Inv

LEMMA SkipSpentEventStep ==
  ASSUME Inv, NEW e \in Event, SkipSpentEvent(e), UNCHANGED reprocess
  PROVE  Inv'
<1>1. AllTypeOK'
  BY DEF Inv, AllTypeOK, TypeOK, ReprocessTypeOK, SkipSpentEvent, Take,
     SetStatus, txs, reprocess, history, RowStatus, EventStatus, Read, NoRead
<1>2. Kinds'
  BY DEF Inv, Kinds, ListKinds, TaskKind, WaitingKinds, VerifierKinds,
     TxKinds, PassKind, SkipSpentEvent, Take, txs
<1>3. AllBacked'
  BY DEF Inv, AllBacked, RowsBacked, ListBacked, TaskBacked, WaitingBacked,
     VerifierBacked, TxBacked, PassBacked, HandlerBacked, Backed,
     SkipSpentEvent, Take, SetStatus, txs, reprocess, history, NoRead, RewardStatus
<1> QED
  BY <1>1, <1>2, <1>3 DEF Inv

LEMMA ReachLimitStep ==
  ASSUME Inv, NEW r \in Row, ReachLimit(r), UNCHANGED reprocess
  PROVE  Inv'
<1>1. AllTypeOK'
  BY DEF Inv, AllTypeOK, TypeOK, ReprocessTypeOK, ReachLimit, Take, SetStatus,
     txs, reprocess, history, RowStatus, OrderStatus, Read, NoRead
<1>2. Kinds'
  BY DEF Inv, Kinds, ListKinds, TaskKind, WaitingKinds, VerifierKinds,
     TxKinds, PassKind, ReachLimit, Take, txs
<1>3. AllBacked'
  BY DEF Inv, AllBacked, RowsBacked, ListBacked, TaskBacked, WaitingBacked,
     VerifierBacked, TxBacked, PassBacked, HandlerBacked, Backed, ReachLimit,
     Take, SetStatus, txs, reprocess, history, NoRead, RewardStatus
<1> QED
  BY <1>1, <1>2, <1>3 DEF Inv

LEMMA StartProcessingStep ==
  ASSUME Inv, NEW r \in Row, StartProcessing(r), UNCHANGED reprocess
  PROVE  Inv'
<1>1. AllTypeOK'
  BY TypeForStatus DEF Inv, AllTypeOK, TypeOK, ReprocessTypeOK, Kinds,
     ListKinds, StartProcessing, Take, txs, reprocess, history, TxType, Read, NoRead,
     Task, Pendings
<1>2. Kinds'
  BY TypeForStatus DEF Inv, Kinds, ListKinds, TaskKind, WaitingKinds,
     VerifierKinds, TxKinds, PassKind, StartProcessing, Take, txs, Pendings
<1>3. AllBacked'
  BY TypeForStatus DEF Inv, Kinds, ListKinds, AllBacked, RowsBacked,
     ListBacked, TaskBacked, WaitingBacked, VerifierBacked, TxBacked,
     PassBacked, HandlerBacked, Backed, StartProcessing, Take, txs, reprocess, history,
     NoRead, Pendings
<1> QED
  BY <1>1, <1>2, <1>3 DEF Inv

LEMMA VerifiedEventStep ==
  ASSUME Inv, VerifiedEvent, UNCHANGED reprocess
  PROVE  Inv'
<1>1. AllTypeOK'
  BY DEF Inv, AllTypeOK, TypeOK, ReprocessTypeOK, VerifiedEvent, table, txs,
     reprocess, history, Task
<1>2. Kinds'
  BY DEF Inv, Kinds, ListKinds, TaskKind, WaitingKinds, VerifierKinds,
     TxKinds, PassKind, VerifiedEvent, txs
<1>3. AllBacked'
  BY DEF Inv, AllBacked, RowsBacked, ListBacked, TaskBacked, WaitingBacked,
     VerifierBacked, TxBacked, PassBacked, HandlerBacked, Backed,
     VerifiedEvent, table, txs, reprocess, history
<1> QED
  BY <1>1, <1>2, <1>3 DEF Inv

LEMMA RejectEventStep ==
  ASSUME Inv, RejectEvent, UNCHANGED reprocess
  PROVE  Inv'
<1>1. AllTypeOK'
  BY DEF Inv, AllTypeOK, TypeOK, ReprocessTypeOK, RejectEvent, Finish,
     SetStatus, txs, reprocess, history, TxType, RowStatus, EventStatus, Task, IdleTask
<1>2. Kinds'
  BY DEF Inv, Kinds, ListKinds, TaskKind, WaitingKinds, VerifierKinds,
     TxKinds, PassKind, RejectEvent, Finish, txs, IdleTask
<1>3. AllBacked'
  BY DEF Inv, AllBacked, RowsBacked, ListBacked, TaskBacked, WaitingBacked,
     VerifierBacked, TxBacked, PassBacked, HandlerBacked, Backed, RejectEvent,
     Finish, SetStatus, txs, reprocess, history, IdleTask, RewardStatus
<1> QED
  BY <1>1, <1>2, <1>3 DEF Inv

LEMMA ProposeStep ==
  ASSUME Inv, Propose, UNCHANGED reprocess
  PROVE  Inv'
<1>1. AllTypeOK'
  BY DEF Inv, AllTypeOK, TypeOK, ReprocessTypeOK, Kinds, TaskKind, Propose,
     Finish, txs, reprocess, history, TxType, Task, IdleTask
<1>2. Kinds'
  BY DEF Inv, Kinds, ListKinds, TaskKind, WaitingKinds, VerifierKinds,
     TxKinds, PassKind, Propose, Finish, txs, IdleTask
<1>3. RowsBacked'
  BY DEF Inv, AllBacked, RowsBacked, Backed, Propose, Finish, txs
<1>4. ListBacked'
  BY DEF Inv, AllBacked, ListBacked, Backed, Propose, Finish, txs
<1>5. TaskBacked'
  BY DEF TaskBacked, Propose, Finish, IdleTask
<1>6. WaitingBacked'
  BY DEF Inv, AllBacked, WaitingBacked, Backed, Propose, Finish, txs
<1>7. VerifierBacked'
  BY DEF Inv, AllBacked, VerifierBacked, Backed, Propose, Finish, txs
<1>8. TxBacked'
  <2> SUFFICES ASSUME NEW e \in Event,
                      <<e, "reward">> \in candidates' \/ <<e, "reward">> \in valid'
               PROVE  Backed(e)'
    BY DEF TxBacked
  <2>1. Backed(e)' <=> Backed(e)
    BY DEF Propose, Finish, txs, Backed
  <2>2. CASE <<e, "reward">> = <<task.row, task.type>>
    <3>1. e = task.row /\ task.type = "reward" /\ task.pc # "idle"
      BY <2>2 DEF Propose
    <3> QED
      BY <2>1, <3>1 DEF Inv, AllBacked, TaskBacked
  <2>3. CASE <<e, "reward">> # <<task.row, task.type>>
    <3>1. <<e, "reward">> \in candidates \/ <<e, "reward">> \in valid
      BY <2>3 DEF Propose, Finish, txs
    <3> QED
      BY <2>1, <3>1 DEF Inv, AllBacked, TxBacked
  <2> QED
    BY <2>2, <2>3
<1>9. PassBacked'
  BY DEF Inv, AllBacked, PassBacked, Backed, Propose, Finish, txs
<1>10. HandlerBacked'
  BY DEF Inv, AllBacked, HandlerBacked, Backed, Propose, Finish, txs,
     reprocess, history
<1> QED
  BY <1>1, <1>2, <1>3, <1>4, <1>5, <1>6, <1>7, <1>8, <1>9, <1>10 DEF Inv,
     AllTypeOK, Kinds, AllBacked

LEMMA WaitForAssetsStep ==
  ASSUME Inv, WaitForAssets, UNCHANGED reprocess
  PROVE  Inv'
<1>1. AllTypeOK'
  BY StatusTypes DEF Inv, AllTypeOK, TypeOK, ReprocessTypeOK, WaitForAssets,
     Finish, SetStatus, txs, reprocess, history, TxType, Task, IdleTask
<1>2. Kinds'
  BY DEF Inv, Kinds, ListKinds, TaskKind, WaitingKinds, VerifierKinds,
     TxKinds, PassKind, WaitForAssets, Finish, txs, IdleTask
<1>3. RowsBacked'
  <2> SUFFICES ASSUME NEW e \in Event
               PROVE  /\ status'[e] \in RewardStatus => Backed(e)'
                      /\ status'[e] = "completed" => <<e, "payment">> \in paid'
    BY DEF RowsBacked
  <2>1. paid' = paid /\ (Backed(e)' <=> Backed(e))
    BY DEF WaitForAssets, Finish, txs, Backed
  <2>2. /\ status[e] \in RewardStatus => Backed(e)
        /\ status[e] = "completed" => <<e, "payment">> \in paid
    BY DEF Inv, AllBacked, RowsBacked
  <2>3. CASE status'[e] = status[e]
    BY <2>1, <2>2, <2>3
  <2>4. CASE status'[e] # status[e]
    <3>1. task.row = e /\ status'[e] = WaitingStatus[task.type] /\ task.pc # "idle"
      BY <2>4 DEF WaitForAssets, SetStatus, Inv, AllTypeOK, TypeOK
    <3>2. task.type \in TxType
      BY <3>1 DEF Inv, AllTypeOK, TypeOK, Task
    <3>3. status'[e] # "completed" /\ (status'[e] \in RewardStatus => task.type = "reward")
      BY <3>1, <3>2, Statuses DEF TxType, RewardStatus
    <3>4. task.type = "reward" => Backed(e)
      BY <3>1 DEF Inv, AllBacked, TaskBacked
    <3> QED
      BY <2>1, <3>3, <3>4
  <2> QED
    BY <2>3, <2>4
<1>4. ListBacked' /\ TaskBacked'
  BY DEF Inv, AllBacked, ListBacked, TaskBacked, Backed, WaitForAssets, Finish,
     txs, IdleTask
<1>5. WaitingBacked' /\ VerifierBacked'
  BY DEF Inv, AllBacked, WaitingBacked, VerifierBacked, Backed, WaitForAssets,
     Finish, txs
<1>6. TxBacked' /\ PassBacked' /\ HandlerBacked'
  BY DEF Inv, AllBacked, TxBacked, PassBacked, HandlerBacked, Backed,
     WaitForAssets, Finish, txs, reprocess, history
<1> QED
  BY <1>1, <1>2, <1>3, <1>4, <1>5, <1>6 DEF Inv, AllBacked

LEMMA GiveUpStep ==
  ASSUME Inv, GiveUp, UNCHANGED reprocess
  PROVE  Inv'
<1>1. AllTypeOK'
  BY DEF Inv, AllTypeOK, TypeOK, ReprocessTypeOK, GiveUp, Finish, txs,
     reprocess, history, TxType, Task, IdleTask
<1>2. Kinds'
  BY DEF Inv, Kinds, ListKinds, TaskKind, WaitingKinds, VerifierKinds,
     TxKinds, PassKind, GiveUp, Finish, txs, IdleTask
<1>3. AllBacked'
  BY DEF Inv, AllBacked, RowsBacked, ListBacked, TaskBacked, WaitingBacked,
     VerifierBacked, TxBacked, PassBacked, HandlerBacked, Backed, GiveUp,
     Finish, txs, reprocess, history, IdleTask
<1> QED
  BY <1>1, <1>2, <1>3 DEF Inv

LEMMA ReadLeftoverStep ==
  ASSUME Inv, NEW rows \in SUBSET Row, ReadLeftover(rows), UNCHANGED reprocess
  PROVE  Inv'
<1>1. AllTypeOK'
  BY DEF Inv, AllTypeOK, TypeOK, ReprocessTypeOK, ReadLeftover, table, txs,
     round, reprocess, history
<1>2. Kinds'
  BY DEF Inv, Kinds, ListKinds, TaskKind, WaitingKinds, VerifierKinds,
     TxKinds, PassKind, ReadLeftover, txs, round
<1>3. AllBacked'
  BY DEF Inv, AllBacked, RowsBacked, ListBacked, TaskBacked, WaitingBacked,
     VerifierBacked, TxBacked, PassBacked, HandlerBacked, Backed,
     ReadLeftover, table, txs, round, reprocess, history
<1> QED
  BY <1>1, <1>2, <1>3 DEF Inv

LEMMA TimeoutRowStep ==
  ASSUME Inv, NEW r \in Row, TimeoutRow(r), UNCHANGED reprocess
  PROVE  Inv'
<1>1. AllTypeOK'
  BY DEF Inv, AllTypeOK, TypeOK, ReprocessTypeOK, TimeoutRow, SetStatus, txs,
     round, reprocess, history, RowStatus, OrderStatus
<1>2. Kinds'
  BY DEF Inv, Kinds, ListKinds, TaskKind, WaitingKinds, VerifierKinds,
     TxKinds, PassKind, TimeoutRow, txs, round
<1>3. AllBacked'
  BY DEF Inv, AllBacked, RowsBacked, ListBacked, TaskBacked, WaitingBacked,
     VerifierBacked, TxBacked, PassBacked, HandlerBacked, Backed, TimeoutRow,
     SetStatus, txs, round, reprocess, history, RewardStatus
<1> QED
  BY <1>1, <1>2, <1>3 DEF Inv

LEMMA LeaveYoungStep ==
  ASSUME Inv, NEW r \in Row, LeaveYoung(r), UNCHANGED reprocess
  PROVE  Inv'
<1>1. AllTypeOK'
  BY DEF Inv, AllTypeOK, TypeOK, ReprocessTypeOK, LeaveYoung, table, txs,
     round, reprocess, history
<1>2. Kinds'
  BY DEF Inv, Kinds, ListKinds, TaskKind, WaitingKinds, VerifierKinds,
     TxKinds, PassKind, LeaveYoung, txs, round
<1>3. AllBacked'
  BY DEF Inv, AllBacked, RowsBacked, ListBacked, TaskBacked, WaitingBacked,
     VerifierBacked, TxBacked, PassBacked, HandlerBacked, Backed, LeaveYoung,
     table, txs, round, reprocess, history
<1> QED
  BY <1>1, <1>2, <1>3 DEF Inv

LEMMA ReadWaitingStep ==
  ASSUME Inv, NEW rows \in SUBSET Row, ReadWaiting(rows), UNCHANGED reprocess
  PROVE  Inv'
<1>1. AllTypeOK'
  BY DEF Inv, AllTypeOK, TypeOK, ReprocessTypeOK, ReadWaiting, table, txs,
     round, reprocess, history
<1>2. Kinds'
  BY StatusTypes DEF Inv, Kinds, ListKinds, TaskKind, WaitingKinds,
     VerifierKinds, TxKinds, PassKind, ReadWaiting, Waiting, txs, round
<1>3. AllBacked'
  BY DEF Inv, AllBacked, RowsBacked, ListBacked, TaskBacked, WaitingBacked,
     VerifierBacked, TxBacked, PassBacked, HandlerBacked, Backed, ReadWaiting,
     table, txs, round, reprocess, history, Row, RewardStatus
<1> QED
  BY <1>1, <1>2, <1>3 DEF Inv

LEMMA RequeueRowStep ==
  ASSUME Inv, NEW r \in Row, RequeueRow(r), UNCHANGED reprocess
  PROVE  Inv'
<1>1. AllTypeOK'
  BY StatusTypes, TypeForStatus DEF Inv, AllTypeOK, TypeOK, ReprocessTypeOK,
     Kinds, WaitingKinds, RequeueRow, SetPending, SetStatus, txs, round,
     reprocess, history, TxType, Waitings
<1>2. Kinds'
  BY DEF Inv, Kinds, ListKinds, TaskKind, WaitingKinds, VerifierKinds,
     TxKinds, PassKind, RequeueRow, txs, round
<1>3. AllBacked'
  BY Statuses, TypeForStatus DEF Inv, Kinds, WaitingKinds, AllBacked,
     RowsBacked, ListBacked, TaskBacked, WaitingBacked, VerifierBacked,
     TxBacked, PassBacked, HandlerBacked, Backed, RequeueRow, SetPending,
     SetStatus, txs, round, reprocess, history, Waitings, RewardStatus
<1> QED
  BY <1>1, <1>2, <1>3 DEF Inv

LEMMA ReadRequestedStep ==
  ASSUME Inv, NEW v \in Verifier, NEW e \in Event, NEW type \in TxType,
         ReadRequested(v, e, type), UNCHANGED reprocess
  PROVE  Inv'
<1>1. AllTypeOK'
  BY DEF Inv, AllTypeOK, TypeOK, ReprocessTypeOK, ReadRequested, table, txs,
     round, reprocess, history, Row, Verification
<1>2. Kinds'
  BY EventAssumption DEF Inv, Kinds, ListKinds, TaskKind, WaitingKinds,
     VerifierKinds, TxKinds, PassKind, ReadRequested, TypesOf, txs, round
<1>3. AllBacked'
  BY DEF Inv, AllBacked, RowsBacked, ListBacked, TaskBacked, WaitingBacked,
     VerifierBacked, TxBacked, PassBacked, HandlerBacked, Backed,
     ReadRequested, table, txs, round, reprocess, history, RewardStatus
<1> QED
  BY <1>1, <1>2, <1>3 DEF Inv

LEMMA RejectRequestedStep ==
  ASSUME Inv, NEW v \in Verifier, RejectRequested(v), UNCHANGED reprocess
  PROVE  Inv'
<1>1. AllTypeOK'
  BY DEF Inv, AllTypeOK, TypeOK, ReprocessTypeOK, RejectRequested, SetStatus,
     txs, round, reprocess, history, TxType, RowStatus, EventStatus, Verification,
     IdleVerifier
<1>2. Kinds'
  BY DEF Inv, Kinds, ListKinds, TaskKind, WaitingKinds, VerifierKinds,
     TxKinds, PassKind, RejectRequested, txs, round, IdleVerifier
<1>3. AllBacked'
  BY DEF Inv, AllBacked, RowsBacked, ListBacked, TaskBacked, WaitingBacked,
     VerifierBacked, TxBacked, PassBacked, HandlerBacked, Backed,
     RejectRequested, SetStatus, txs, round, reprocess, history, IdleVerifier,
     RewardStatus
<1> QED
  BY <1>1, <1>2, <1>3 DEF Inv

LEMMA CheckRequestedStep ==
  ASSUME Inv, NEW v \in Verifier, CheckRequested(v), UNCHANGED reprocess
  PROVE  Inv'
<1>1. AllTypeOK'
  BY DEF Inv, AllTypeOK, TypeOK, ReprocessTypeOK, Kinds, VerifierKinds,
     CheckRequested, table, txs, round, reprocess, history, TxType, Row, RowStatus,
     Verification, IdleVerifier
<1>2. Kinds'
  BY DEF Inv, Kinds, ListKinds, TaskKind, WaitingKinds, VerifierKinds,
     TxKinds, PassKind, CheckRequested, txs, round, IdleVerifier
<1>3. AllBacked'
  BY Statuses DEF Inv, AllBacked, RowsBacked, ListBacked, TaskBacked,
     WaitingBacked, VerifierBacked, TxBacked, PassBacked, HandlerBacked,
     Backed, CheckRequested, IsPendingToType, table, txs, round, reprocess, history,
     IdleVerifier
<1> QED
  BY <1>1, <1>2, <1>3 DEF Inv

LEMMA RefuseRequestedStep ==
  ASSUME Inv, NEW v \in Verifier, RefuseRequested(v), UNCHANGED reprocess
  PROVE  Inv'
<1>1. AllTypeOK'
  BY DEF Inv, AllTypeOK, TypeOK, ReprocessTypeOK, RefuseRequested, table, txs,
     round, reprocess, history, TxType, RowStatus, Verification, IdleVerifier
<1>2. Kinds'
  BY DEF Inv, Kinds, ListKinds, TaskKind, WaitingKinds, VerifierKinds,
     TxKinds, PassKind, RefuseRequested, txs, round, IdleVerifier
<1>3. AllBacked'
  BY DEF Inv, AllBacked, RowsBacked, ListBacked, TaskBacked, WaitingBacked,
     VerifierBacked, TxBacked, PassBacked, HandlerBacked, Backed,
     RefuseRequested, table, txs, round, reprocess, history, IdleVerifier
<1> QED
  BY <1>1, <1>2, <1>3 DEF Inv

LEMMA AgreeToOrderStep ==
  ASSUME Inv, NEW o \in Order, AgreeToOrder(o), UNCHANGED reprocess
  PROVE  Inv'
<1>1. AllTypeOK'
  BY DEF Inv, AllTypeOK, TypeOK, ReprocessTypeOK, AgreeToOrder, table, txs,
     round, jobs, reprocess, history, TxType, Row
<1>2. Kinds'
  BY EventAssumption DEF Inv, Kinds, ListKinds, TaskKind, WaitingKinds,
     VerifierKinds, TxKinds, PassKind, AgreeToOrder, txs, round, jobs
<1>3. AllBacked'
  BY DEF Inv, AllBacked, RowsBacked, ListBacked, TaskBacked, WaitingBacked,
     VerifierBacked, TxBacked, PassBacked, HandlerBacked, Backed,
     AgreeToOrder, table, txs, round, jobs, reprocess, history
<1> QED
  BY <1>1, <1>2, <1>3 DEF Inv

LEMMA ApproveStep ==
  ASSUME Inv, NEW r \in Row, NEW type \in TxType, Approve(r, type),
         UNCHANGED reprocess
  PROVE  Inv'
<1>1. AllTypeOK'
  BY StatusTypes DEF Inv, AllTypeOK, TypeOK, ReprocessTypeOK, Approve,
     SetStatus, round, jobs, reprocess, history
<1>2. Kinds'
  BY DEF Inv, Kinds, ListKinds, TaskKind, WaitingKinds, VerifierKinds,
     TxKinds, PassKind, Approve, round, jobs
<1>3. AllBacked'
  BY Statuses DEF Inv, AllBacked, RowsBacked, ListBacked, TaskBacked,
     WaitingBacked, VerifierBacked, TxBacked, PassBacked, HandlerBacked,
     Backed, Approve, SetStatus, round, jobs, reprocess, history, TxType, RewardStatus
<1> QED
  BY <1>1, <1>2, <1>3 DEF Inv

LEMMA ForgetCandidatesStep ==
  ASSUME Inv, ForgetCandidates, UNCHANGED reprocess
  PROVE  Inv'
<1>1. AllTypeOK'
  BY DEF Inv, AllTypeOK, TypeOK, ReprocessTypeOK, ForgetCandidates, table,
     txs, round, jobs, reprocess, history
<1>2. Kinds'
  BY DEF Inv, Kinds, ListKinds, TaskKind, WaitingKinds, VerifierKinds,
     TxKinds, PassKind, ForgetCandidates, txs, round, jobs
<1>3. AllBacked'
  BY DEF Inv, AllBacked, RowsBacked, ListBacked, TaskBacked, WaitingBacked,
     VerifierBacked, TxBacked, PassBacked, HandlerBacked, Backed,
     ForgetCandidates, table, txs, round, jobs, reprocess, history
<1> QED
  BY <1>1, <1>2, <1>3 DEF Inv

LEMMA InvalidateStep ==
  ASSUME Inv, NEW r \in Row, NEW type \in TxType, Invalidate(r, type),
         UNCHANGED reprocess
  PROVE  Inv'
<1>1. TypeOK'
  <2>1. valid' \in SUBSET (Row \X TxType) /\ paid' \in SUBSET valid'
    BY DEF Inv, AllTypeOK, TypeOK, Invalidate
  <2>2. pass' \in Pass
    BY DEF Invalidate, Pass, Row
  <2> QED
    BY <2>1, <2>2 DEF Inv, AllTypeOK, TypeOK, Invalidate, table, round
<1>2. ReprocessTypeOK'
  BY DEF Inv, AllTypeOK, ReprocessTypeOK, reprocess, history
<1>3. Kinds'
  BY DEF Inv, Kinds, ListKinds, TaskKind, WaitingKinds, VerifierKinds,
     TxKinds, PassKind, Invalidate, round
<1>4. AllBacked'
  BY DEF Inv, Kinds, TxKinds, AllBacked, RowsBacked, ListBacked, TaskBacked,
     WaitingBacked, VerifierBacked, TxBacked, PassBacked, HandlerBacked,
     Backed, Invalidate, table, round, reprocess, history
<1> QED
  BY <1>1, <1>2, <1>3, <1>4 DEF Inv, AllTypeOK, Kinds, AllBacked

LEMMA AdvanceRowStep ==
  ASSUME Inv, AdvanceRow, UNCHANGED reprocess
  PROVE  Inv'
<1>1. AllTypeOK'
  BY DEF Inv, AllTypeOK, TypeOK, ReprocessTypeOK, AdvanceRow, ConfirmedStatus,
     SetStatus, txs, round, reprocess, history, TxType, RowStatus, EventStatus, Pass,
     NoPass
<1>2. Kinds'
  BY DEF Inv, Kinds, ListKinds, TaskKind, WaitingKinds, VerifierKinds,
     TxKinds, PassKind, AdvanceRow, txs, round, NoPass
<1>3. RowsBacked'
  <2> SUFFICES ASSUME NEW e \in Event
               PROVE  /\ status'[e] \in RewardStatus => Backed(e)'
                      /\ status'[e] = "completed" => <<e, "payment">> \in paid'
    BY DEF RowsBacked
  <2>1. paid' = paid
    BY DEF AdvanceRow, txs
  <2>2. CASE e = pass.row
    <3>1. \/ status'[e] = status[e]
          \/ status'[e] = ConfirmedStatus(pass.row, pass.type)
      BY <2>2 DEF AdvanceRow, SetStatus, Inv, AllTypeOK, TypeOK, Row
    <3>2. /\ pass.type \in {"payment", "reward"}
          /\ pass.type = "reward" => Backed(e)
          /\ pass.type = "payment" => <<e, "payment">> \in paid
      BY <2>2 DEF AdvanceRow, Inv, AllTypeOK, TypeOK, Pass, TxType, AllBacked,
                  PassBacked
    <3>3. CASE status'[e] = status[e]
      BY <2>1, <3>3 DEF Inv, AllBacked, RowsBacked, Backed
    <3>4. CASE status'[e] = ConfirmedStatus(pass.row, pass.type)
      BY <2>1, <2>2, <3>2, <3>4 DEF ConfirmedStatus, RewardStatus, Backed
    <3> QED
      BY <3>1, <3>3, <3>4
  <2>3. CASE e # pass.row
    <3>1. status'[e] = status[e]
      BY <2>3 DEF AdvanceRow, SetStatus, Inv, AllTypeOK, TypeOK, Row
    <3> QED
      BY <2>1, <3>1 DEF Inv, AllBacked, RowsBacked, Backed
  <2> QED
    BY <2>2, <2>3
<1>4. ListBacked'
  BY DEF Inv, AllBacked, ListBacked, Backed, AdvanceRow, txs, round
<1>5. TaskBacked'
  BY DEF Inv, AllBacked, TaskBacked, Backed, AdvanceRow, txs, round
<1>6. WaitingBacked'
  BY DEF Inv, AllBacked, WaitingBacked, Backed, AdvanceRow, txs
<1>7. VerifierBacked'
  BY DEF Inv, AllBacked, VerifierBacked, Backed, AdvanceRow, txs
<1>8. TxBacked'
  BY DEF Inv, AllBacked, TxBacked, Backed, AdvanceRow, txs
<1>9. PassBacked'
  BY DEF PassBacked, AdvanceRow, NoPass
<1>10. HandlerBacked'
  BY DEF Inv, AllBacked, HandlerBacked, Backed, AdvanceRow, txs, reprocess, history
<1> QED
  BY <1>1, <1>2, <1>3, <1>4, <1>5, <1>6, <1>7, <1>8, <1>9, <1>10 DEF Inv,
     AllTypeOK, Kinds, AllBacked

LEMMA ReopenRowStep ==
  ASSUME Inv, ReopenRow, UNCHANGED reprocess
  PROVE  Inv'
<1>1. AllTypeOK'
  BY StatusTypes DEF Inv, AllTypeOK, TypeOK, ReprocessTypeOK, Kinds, PassKind,
     ReopenRow, SetStatus, txs, round, reprocess, history, TxType, Pass, NoPass
<1>2. Kinds'
  BY DEF Inv, Kinds, ListKinds, TaskKind, WaitingKinds, VerifierKinds,
     TxKinds, PassKind, ReopenRow, txs, round, NoPass
<1>3. RowsBacked'
  <2> SUFFICES ASSUME NEW e \in Event
               PROVE  /\ status'[e] \in RewardStatus => Backed(e)'
                      /\ status'[e] = "completed" => <<e, "payment">> \in paid'
    BY DEF RowsBacked
  <2>1. paid' = paid
    BY DEF ReopenRow, txs
  <2>2. CASE e = pass.row
    <3>1. \/ status'[e] = status[e]
          \/ status'[e] = PendingStatus[pass.type]
      BY <2>2 DEF ReopenRow, SetStatus, Inv, AllTypeOK, TypeOK, Row
    <3>2. /\ pass.type \in {"payment", "reward"}
          /\ pass.type = "reward" => Backed(e)
      BY <2>2 DEF ReopenRow, Inv, AllTypeOK, TypeOK, Pass, TxType, AllBacked,
                  PassBacked
    <3>3. CASE status'[e] = status[e]
      BY <2>1, <3>3 DEF Inv, AllBacked, RowsBacked, Backed
    <3>4. CASE status'[e] = PendingStatus[pass.type]
      BY <2>1, <3>2, <3>4, Statuses DEF RewardStatus, Backed
    <3> QED
      BY <3>1, <3>3, <3>4
  <2>3. CASE e # pass.row
    <3>1. status'[e] = status[e]
      BY <2>3 DEF ReopenRow, SetStatus, Inv, AllTypeOK, TypeOK, Row
    <3> QED
      BY <2>1, <3>1 DEF Inv, AllBacked, RowsBacked, Backed
  <2> QED
    BY <2>2, <2>3
<1>4. ListBacked'
  BY DEF Inv, AllBacked, ListBacked, Backed, ReopenRow, txs, round
<1>5. TaskBacked'
  BY DEF Inv, AllBacked, TaskBacked, Backed, ReopenRow, txs, round
<1>6. WaitingBacked'
  BY DEF Inv, AllBacked, WaitingBacked, Backed, ReopenRow, txs
<1>7. VerifierBacked'
  BY DEF Inv, AllBacked, VerifierBacked, Backed, ReopenRow, txs
<1>8. TxBacked'
  BY DEF Inv, AllBacked, TxBacked, Backed, ReopenRow, txs
<1>9. PassBacked'
  BY DEF PassBacked, ReopenRow, NoPass
<1>10. HandlerBacked'
  BY DEF Inv, AllBacked, HandlerBacked, Backed, ReopenRow, txs, reprocess, history
<1> QED
  BY <1>1, <1>2, <1>3, <1>4, <1>5, <1>6, <1>7, <1>8, <1>9, <1>10 DEF Inv,
     AllTypeOK, Kinds, AllBacked

LEMMA SpendEventStep ==
  ASSUME Inv, NEW e \in Event, SpendEvent(e), UNCHANGED reprocess
  PROVE  Inv'
<1>1. AllTypeOK'
  BY DEF Inv, AllTypeOK, TypeOK, ReprocessTypeOK, SpendEvent, table, txs,
     round, jobs, reprocess, history
<1>2. Kinds'
  BY DEF Inv, Kinds, ListKinds, TaskKind, WaitingKinds, VerifierKinds,
     TxKinds, PassKind, SpendEvent, txs, round, jobs
<1>3. AllBacked'
  BY DEF Inv, AllBacked, RowsBacked, ListBacked, TaskBacked, WaitingBacked,
     VerifierBacked, TxBacked, PassBacked, HandlerBacked, Backed, SpendEvent,
     table, txs, round, jobs, reprocess, history
<1> QED
  BY <1>1, <1>2, <1>3 DEF Inv

LEMMA ExpireStep ==
  ASSUME Inv, NEW r \in Row, Expire(r), UNCHANGED reprocess
  PROVE  Inv'
<1>1. AllTypeOK'
  BY DEF Inv, AllTypeOK, TypeOK, ReprocessTypeOK, Expire, txs, round,
     reprocess, history
<1>2. Kinds'
  BY DEF Inv, Kinds, ListKinds, TaskKind, WaitingKinds, VerifierKinds,
     TxKinds, PassKind, Expire, txs, round
<1>3. AllBacked'
  BY DEF Inv, AllBacked, RowsBacked, ListBacked, TaskBacked, WaitingBacked,
     VerifierBacked, TxBacked, PassBacked, HandlerBacked, Backed, Expire, txs,
     round, reprocess, history
<1> QED
  BY <1>1, <1>2, <1>3 DEF Inv

LEMMA CompleteUnwatchedStep ==
  ASSUME Inv, NEW r \in Row, NEW type \in TxType, CompleteUnwatched(r, type)
  PROVE  Inv'
<1>1. AllTypeOK'
  BY DEF Inv, AllTypeOK, TypeOK, ReprocessTypeOK, CompleteUnwatched, Complete,
     table, round, reprocess, history, Pass
<1>2. Kinds'
  BY DEF Inv, Kinds, ListKinds, TaskKind, WaitingKinds, VerifierKinds,
     TxKinds, PassKind, CompleteUnwatched, Complete, round
<1>3. AllBacked'
  BY DEF Inv, Kinds, TxKinds, AllBacked, RowsBacked, ListBacked, TaskBacked,
     WaitingBacked, VerifierBacked, TxBacked, PassBacked, HandlerBacked,
     Backed, CompleteUnwatched, Complete, table, round, reprocess, history
<1> QED
  BY <1>1, <1>2, <1>3 DEF Inv

LEMMA HandlersFinite ==
  /\ IsFiniteSet(Handler) /\ Cardinality(Handler) \in Nat
  /\ \A H \in SUBSET Handler : /\ IsFiniteSet(H) /\ Cardinality(H) \in Nat
                               /\ Cardinality(H) <= Cardinality(Handler)
  /\ \A p : Passed(p) \in SUBSET Handler /\ Unrecorded(p) \in SUBSET Handler
<1>1. IsFiniteSet(Handler) /\ Cardinality(Handler) \in Nat
  BY ReprocessAssumption, FS_CardinalityType DEF ReprocessAssumption
<1>2. ASSUME NEW H \in SUBSET Handler
      PROVE  /\ IsFiniteSet(H) /\ Cardinality(H) \in Nat
             /\ Cardinality(H) <= Cardinality(Handler)
  BY <1>1, FS_Subset, FS_CardinalityType
<1> QED
  BY <1>1, <1>2 DEF Passed, Unrecorded

\* one more for a peer
LEMMA CountTypes ==
  ASSUME NEW h, NEW counts \in [Peer -> Nat]
  PROVE  CountFor(counts, h) \in [Peer -> Nat]
BY DEF CountFor

LEMMA CrashAllStep ==
  ASSUME Inv, CrashAll
  PROVE  Inv'
<1>1. TypeOK'
  BY DEF Inv, AllTypeOK, TypeOK, Kinds, PassKind, CrashAll,
     Crash, table, txs, TxType, RowStatus, Read, NoRead, Task, IdleTask,
     Verification, IdleVerifier, Pass, NoPass
<1>2. ReprocessTypeOK'
  <2>1. lost' \in [Peer -> Nat]
    BY HandlersFinite DEF Inv, AllTypeOK, ReprocessTypeOK, CrashAll
  <2> QED
    BY <2>1 DEF Inv, AllTypeOK, ReprocessTypeOK, CrashAll, RowStatus, Request, IdleHandler
<1>3. Kinds'
  BY DEF Inv, Kinds, ListKinds, TaskKind, WaitingKinds, VerifierKinds,
     TxKinds, PassKind, CrashAll, Crash, txs, IdleTask, IdleVerifier, NoPass
<1>4. AllBacked'
  BY DEF Inv, AllBacked, RowsBacked, ListBacked, TaskBacked, WaitingBacked,
     VerifierBacked, TxBacked, PassBacked, HandlerBacked, Backed, CrashAll,
     Crash, table, txs, Row, NoRead, IdleTask, IdleVerifier, NoPass,
     IdleHandler
<1> QED
  BY <1>1, <1>2, <1>3, <1>4 DEF Inv, AllTypeOK

LEMMA ReadReprocessedStep ==
  ASSUME Inv, NEW h \in Handler, NEW from \in Peer \cup {Operator},
         NEW e \in Event, ReadReprocessed(h, from, e)
  PROVE  Inv'
<1>1. AllTypeOK'
  BY DEF Inv, AllTypeOK, TypeOK, ReprocessTypeOK, ReadReprocessed, table, txs,
     round, jobs, vars, Row, Request, history
<1>2. Kinds'
  BY DEF Inv, Kinds, ListKinds, TaskKind, WaitingKinds, VerifierKinds,
     TxKinds, PassKind, ReadReprocessed, txs, round, jobs, vars
<1>3. AllBacked'
  BY DEF Inv, AllBacked, RowsBacked, ListBacked, TaskBacked, WaitingBacked,
     VerifierBacked, TxBacked, PassBacked, HandlerBacked, Backed,
     ReadReprocessed, table, txs, round, jobs, vars, RewardStatus
<1> QED
  BY <1>1, <1>2, <1>3 DEF Inv

LEMMA ReadRecentStep ==
  ASSUME Inv, NEW h \in Handler, ReadRecent(h)
  PROVE  Inv'
<1>1. TypeOK'
  BY DEF Inv, AllTypeOK, TypeOK, ReadRecent, table, txs, round, jobs, vars
<1>2. ReprocessTypeOK'
  BY ReprocessAssumption, TypeForStatus DEF Inv, AllTypeOK, ReprocessTypeOK,
     ReadRecent, history, RowStatus, Request, IdleHandler
<1>3. Kinds'
  BY DEF Inv, Kinds, ListKinds, TaskKind, WaitingKinds, VerifierKinds,
     TxKinds, PassKind, ReadRecent, txs, round, jobs, vars
<1>4. AllBacked'
  BY DEF Inv, AllBacked, RowsBacked, ListBacked, TaskBacked, WaitingBacked,
     VerifierBacked, TxBacked, PassBacked, HandlerBacked, Backed, ReadRecent,
     table, txs, round, jobs, vars, IdleHandler
<1> QED
  BY <1>1, <1>2, <1>3, <1>4 DEF Inv, AllTypeOK, Kinds, AllBacked

LEMMA WriteReprocessedStep ==
  ASSUME Inv, NEW h \in Handler, WriteReprocessed(h)
  PROVE  Inv'
<1>1. TypeOK'
  <2>1. RequeuedAs(handler[h].status) \in RowStatus
    BY DEF RequeuedAs, RowStatus, EventStatus
  <2>2. status' \in [Row -> RowStatus] /\ expired' \in SUBSET Row
    BY <2>1 DEF Inv, AllTypeOK, TypeOK, WriteReprocessed, SetPending, SetStatus
  <2> QED
    BY <2>2 DEF Inv, AllTypeOK, TypeOK, WriteReprocessed, txs, jobs, round
<1>2. ReprocessTypeOK'
  <2>1. handler'[h] \in Request
    BY DEF Inv, AllTypeOK, ReprocessTypeOK, WriteReprocessed, Request
  <2>2. again' \in [Peer -> Nat]
    BY CountTypes DEF Inv, AllTypeOK, ReprocessTypeOK, WriteReprocessed
  <2> QED
    BY <2>1, <2>2 DEF Inv, AllTypeOK, ReprocessTypeOK, WriteReprocessed
<1>3. Kinds'
  BY DEF Inv, Kinds, ListKinds, TaskKind, WaitingKinds, VerifierKinds,
     TxKinds, PassKind, WriteReprocessed, txs, round, jobs
<1>4. AllBacked'
  BY DEF Inv, Kinds, PassKind, AllBacked, RowsBacked, ListBacked, TaskBacked,
     WaitingBacked, VerifierBacked, TxBacked, PassBacked, HandlerBacked,
     Backed, WriteReprocessed, SetPending, SetStatus, RequeuedAs, txs, round,
     jobs, RewardStatus
<1> QED
  BY <1>1, <1>2, <1>3, <1>4 DEF Inv, AllTypeOK, Kinds, AllBacked

LEMMA RefuseReprocessedStep ==
  ASSUME Inv, NEW h \in Handler, RefuseReprocessed(h)
  PROVE  Inv'
<1>1. AllTypeOK'
  BY DEF Inv, AllTypeOK, TypeOK, ReprocessTypeOK, RefuseReprocessed, table,
     txs, round, jobs, vars, history, RowStatus, Request, IdleHandler
<1>2. Kinds'
  BY DEF Inv, Kinds, ListKinds, TaskKind, WaitingKinds, VerifierKinds,
     TxKinds, PassKind, RefuseReprocessed, txs, round, jobs, vars
<1>3. AllBacked'
  BY DEF Inv, AllBacked, RowsBacked, ListBacked, TaskBacked, WaitingBacked,
     VerifierBacked, TxBacked, PassBacked, HandlerBacked, Backed,
     RefuseReprocessed, table, txs, round, jobs, vars, IdleHandler
<1> QED
  BY <1>1, <1>2, <1>3 DEF Inv

LEMMA InsertRequestStep ==
  ASSUME Inv, NEW h \in Handler, InsertRequest(h)
  PROVE  Inv'
<1>1. TypeOK'
  BY DEF Inv, AllTypeOK, TypeOK, InsertRequest, table, txs, round, jobs, vars
<1>2. ReprocessTypeOK'
  <2>1. recent' \in [Peer -> Nat]
    BY CountTypes DEF Inv, AllTypeOK, ReprocessTypeOK, InsertRequest
  <2> QED
    BY <2>1 DEF Inv, AllTypeOK, ReprocessTypeOK, InsertRequest, history, RowStatus,
       Request, IdleHandler
<1>3. Kinds'
  BY DEF Inv, Kinds, ListKinds, TaskKind, WaitingKinds, VerifierKinds,
     TxKinds, PassKind, InsertRequest, txs, round, jobs, vars
<1>4. AllBacked'
  BY DEF Inv, AllBacked, RowsBacked, ListBacked, TaskBacked, WaitingBacked,
     VerifierBacked, TxBacked, PassBacked, HandlerBacked, Backed,
     InsertRequest, table, txs, round, jobs, vars, IdleHandler
<1> QED
  BY <1>1, <1>2, <1>3, <1>4 DEF Inv, AllTypeOK

LEMMA AbandonRequestStep ==
  ASSUME Inv, NEW h \in Handler, AbandonRequest(h)
  PROVE  Inv'
<1>1. TypeOK'
  BY DEF Inv, AllTypeOK, TypeOK, AbandonRequest, table, txs, round, jobs, vars
<1>2. ReprocessTypeOK'
  <2>1. lost' \in [Peer -> Nat]
    BY CountTypes DEF Inv, AllTypeOK, ReprocessTypeOK, AbandonRequest
  <2> QED
    BY <2>1 DEF Inv, AllTypeOK, ReprocessTypeOK, AbandonRequest, RowStatus,
       Request, IdleHandler
<1>3. Kinds'
  BY DEF Inv, Kinds, ListKinds, TaskKind, WaitingKinds, VerifierKinds,
     TxKinds, PassKind, AbandonRequest, txs, round, jobs, vars
<1>4. AllBacked'
  BY DEF Inv, AllBacked, RowsBacked, ListBacked, TaskBacked, WaitingBacked,
     VerifierBacked, TxBacked, PassBacked, HandlerBacked, Backed,
     AbandonRequest, table, txs, round, jobs, vars, IdleHandler
<1> QED
  BY <1>1, <1>2, <1>3, <1>4 DEF Inv, AllTypeOK

LEMMA CooldownPassesStep ==
  ASSUME Inv, NEW p \in Peer, CooldownPasses(p)
  PROVE  Inv'
<1>1. TypeOK'
  BY DEF Inv, AllTypeOK, TypeOK, CooldownPasses, table, txs, round, jobs, vars
<1>2. ReprocessTypeOK'
  <2>1. /\ recent' \in [Peer -> Nat] /\ lost' \in [Peer -> Nat]
        /\ again' \in [Peer -> Nat]
    BY HandlersFinite DEF Inv, AllTypeOK, ReprocessTypeOK, CooldownPasses
  <2> QED
    BY <2>1 DEF Inv, AllTypeOK, ReprocessTypeOK, CooldownPasses
<1>3. Kinds'
  BY DEF Inv, Kinds, ListKinds, TaskKind, WaitingKinds, VerifierKinds,
     TxKinds, PassKind, CooldownPasses, txs, round, jobs, vars
<1>4. AllBacked'
  BY DEF Inv, AllBacked, RowsBacked, ListBacked, TaskBacked, WaitingBacked,
     VerifierBacked, TxBacked, PassBacked, HandlerBacked, Backed,
     CooldownPasses, table, txs, round, jobs, vars
<1> QED
  BY <1>1, <1>2, <1>3, <1>4 DEF Inv, AllTypeOK

-----------------------------------------------------------------------------

LEMMA InsertConfirmedEventGoesOn ==
  ASSUME PromptWork, Inv, Present, AllGoOn, NEW e \in Event,
         InsertConfirmedEvent(e), UNCHANGED reprocess
  PROVE  Present' /\ AllGoOn'
<1>1. Present'
  BY DEF Present, InsertConfirmedEvent, InsertRow, txs, round, jobs
<1>2. AllGoOn'
  BY DEF AllGoOn, RowsGoOn, NoPaymentAgain, RoundGoesOn, JobsGoOn,
     VerifiersGoOn, PassGoesOn, HandlersGoOn, Paid, GoingOn,
     InsertConfirmedEvent, InsertRow, txs, round, jobs, reprocess, history,
     RewardStatus
<1> QED
  BY <1>1, <1>2

LEMMA InsertOrderGoesOn ==
  ASSUME PromptWork, Inv, Present, AllGoOn, NEW o \in Order, InsertOrder(o),
         UNCHANGED reprocess
  PROVE  Present' /\ AllGoOn'
<1>1. Present'
  BY DEF Present, InsertOrder, InsertRow, txs, round, jobs
<1>2. AllGoOn'
  BY DEF Inv, AllTypeOK, TypeOK, Present, AllGoOn, RowsGoOn, NoPaymentAgain,
     RoundGoesOn, JobsGoOn, VerifiersGoOn, PassGoesOn, HandlersGoOn, Paid,
     InsertOrder, InsertRow, txs, round, jobs, reprocess, history
<1> QED
  BY <1>1, <1>2

LEMMA ReadListGoesOn ==
  ASSUME PromptWork, Inv, Present, AllGoOn, NEW rows \in SUBSET Row,
         NEW types \in SUBSET TxType,
         rows \cap Event = {} \/ "arbitrary" \notin types,
         ReadList(rows, types), UNCHANGED reprocess
  PROVE  Present' /\ AllGoOn'
<1>1. Present'
  <2>1. ASSUME NEW r \in Row, list'[r] # NoRead
        PROVE  status[r] # "absent"
    <3>1. PICK type \in types : status[r] = PendingStatus[type]
      BY <2>1 DEF ReadList
    <3> QED
      BY <3>1, StatusTypes DEF Pendings
  <2> QED
    BY <2>1 DEF Inv, Present, ReadList, table, txs
<1>2. RowsGoOn'
  BY DEF AllGoOn, RowsGoOn, Paid, ReadList, table, txs
<1>3. NoPaymentAgain'
  BY DEF AllGoOn, NoPaymentAgain, Paid, ReadList, txs
<1>4. RoundGoesOn'
  BY DEF AllGoOn, RowsGoOn, RoundGoesOn, Paid, GoingOn, ReadList, Settled,
     txs, Row, NoRead, RewardStatus
<1>5. JobsGoOn'
  BY DEF AllGoOn, JobsGoOn, Paid, ReadList, txs
<1>6. VerifiersGoOn'
  BY DEF AllGoOn, VerifiersGoOn, Paid, ReadList, txs
<1>7. PassGoesOn'
  BY DEF AllGoOn, PassGoesOn, Paid, ReadList, txs
<1>8. HandlersGoOn'
  BY DEF AllGoOn, HandlersGoOn, Paid, ReadList, txs, reprocess, history
<1> QED
  BY <1>1, <1>2, <1>3, <1>4, <1>5, <1>6, <1>7, <1>8 DEF AllGoOn

LEMMA AbortRoundGoesOn ==
  ASSUME PromptWork, Inv, Present, AllGoOn, AbortRound, UNCHANGED reprocess
  PROVE  Present' /\ AllGoOn'
<1>1. Present'
  BY DEF Present, AbortRound, table, txs
<1>2. AllGoOn'
  BY DEF AllGoOn, RowsGoOn, NoPaymentAgain, RoundGoesOn, JobsGoOn,
     VerifiersGoOn, PassGoesOn, HandlersGoOn, Paid, AbortRound, table, txs,
     reprocess, history, Row, NoRead
<1> QED
  BY <1>1, <1>2

LEMMA SkipSpentEventGoesOn ==
  ASSUME PromptWork, Inv, Present, AllGoOn, NEW e \in Event, SkipSpentEvent(e),
         UNCHANGED reprocess
  PROVE  Present' /\ AllGoOn'
<1>1. Present'
  BY DEF Present, SkipSpentEvent, Take, SetStatus, txs
<1>2. AllGoOn'
  BY DEF AllGoOn, RowsGoOn, NoPaymentAgain, RoundGoesOn, JobsGoOn,
     VerifiersGoOn, PassGoesOn, HandlersGoOn, Paid, GoingOn, SkipSpentEvent,
     Take, SetStatus, txs, reprocess, history, NoRead
<1> QED
  BY <1>1, <1>2

LEMMA ReachLimitGoesOn ==
  ASSUME PromptWork, Inv, Present, AllGoOn, NEW r \in Row, ReachLimit(r),
         UNCHANGED reprocess
  PROVE  Present' /\ AllGoOn'
<1>1. Present'
  BY DEF Present, ReachLimit, Take, SetStatus, txs
<1>2. AllGoOn'
  BY DEF AllGoOn, RowsGoOn, NoPaymentAgain, RoundGoesOn, JobsGoOn,
     VerifiersGoOn, PassGoesOn, HandlersGoOn, Paid, GoingOn, ReachLimit, Take,
     SetStatus, txs, reprocess, history, NoRead
<1> QED
  BY <1>1, <1>2

LEMMA StartProcessingGoesOn ==
  ASSUME PromptWork, Inv, Present, AllGoOn, NEW r \in Row, StartProcessing(r),
         UNCHANGED reprocess
  PROVE  Present' /\ AllGoOn'
<1>1. Present'
  BY DEF Present, StartProcessing, Take, txs
<1>2. AllGoOn'
  BY TypeForStatus DEF Inv, Kinds, ListKinds, AllGoOn, RowsGoOn,
     NoPaymentAgain, RoundGoesOn, JobsGoOn, VerifiersGoOn, PassGoesOn,
     HandlersGoOn, Paid, StartProcessing, Take, txs, reprocess, history, NoRead,
     Pendings
<1> QED
  BY <1>1, <1>2

LEMMA VerifiedEventGoesOn ==
  ASSUME PromptWork, Inv, Present, AllGoOn, VerifiedEvent, UNCHANGED reprocess
  PROVE  Present' /\ AllGoOn'
<1>1. Present'
  BY DEF Present, VerifiedEvent, table, txs
<1>2. AllGoOn'
  BY DEF AllGoOn, RowsGoOn, NoPaymentAgain, RoundGoesOn, JobsGoOn,
     VerifiersGoOn, PassGoesOn, HandlersGoOn, Paid, VerifiedEvent, table, txs,
     reprocess, history
<1> QED
  BY <1>1, <1>2

LEMMA RejectEventGoesOn ==
  ASSUME PromptWork, Inv, Present, AllGoOn, RejectEvent, UNCHANGED reprocess
  PROVE  Present' /\ AllGoOn'
<1>1. Present'
  BY DEF Present, RejectEvent, Finish, SetStatus, txs, IdleTask
<1>2. AllGoOn'
  BY DEF AllGoOn, RowsGoOn, NoPaymentAgain, RoundGoesOn, JobsGoOn,
     VerifiersGoOn, PassGoesOn, HandlersGoOn, Paid, RejectEvent, Finish,
     SetStatus, txs, reprocess, history, IdleTask
<1> QED
  BY <1>1, <1>2

LEMMA ProposeGoesOn ==
  ASSUME PromptWork, Inv, Present, AllGoOn, Propose, UNCHANGED reprocess
  PROVE  Present' /\ AllGoOn'
<1>1. Present'
  BY DEF Present, Propose, Finish, txs, IdleTask
<1>2. AllGoOn'
  BY DEF AllGoOn, RowsGoOn, NoPaymentAgain, RoundGoesOn, JobsGoOn,
     VerifiersGoOn, PassGoesOn, HandlersGoOn, Paid, Propose, Finish, txs,
     reprocess, history, IdleTask
<1> QED
  BY <1>1, <1>2

LEMMA WaitForAssetsGoesOn ==
  ASSUME PromptWork, Inv, Present, AllGoOn, WaitForAssets, UNCHANGED reprocess
  PROVE  Present' /\ AllGoOn'
<1>1. Present'
  BY StatusTypes DEF Inv, AllTypeOK, TypeOK, Present, WaitForAssets, Finish,
     SetStatus, txs, Task, IdleTask, Waitings
<1>2. AllGoOn'
  BY Statuses DEF AllGoOn, RowsGoOn, NoPaymentAgain, RoundGoesOn, JobsGoOn,
     VerifiersGoOn, PassGoesOn, HandlersGoOn, Paid, GoingOn, WaitForAssets,
     Finish, SetStatus, txs, reprocess, history, IdleTask, RewardStatus
<1> QED
  BY <1>1, <1>2

LEMMA GiveUpGoesOn ==
  ASSUME PromptWork, Inv, Present, AllGoOn, GiveUp, UNCHANGED reprocess
  PROVE  Present' /\ AllGoOn'
<1>1. Present'
  BY DEF Present, GiveUp, Finish, txs, IdleTask
<1>2. AllGoOn'
  BY DEF AllGoOn, RowsGoOn, NoPaymentAgain, RoundGoesOn, JobsGoOn,
     VerifiersGoOn, PassGoesOn, HandlersGoOn, Paid, GiveUp, Finish, txs,
     reprocess, history, IdleTask
<1> QED
  BY <1>1, <1>2

LEMMA ReadLeftoverGoesOn ==
  ASSUME PromptWork, Inv, Present, AllGoOn, NEW rows \in SUBSET Row,
         ReadLeftover(rows), UNCHANGED reprocess
  PROVE  Present' /\ AllGoOn'
<1>1. Present'
  BY DEF Present, ReadLeftover, table, txs, round
<1>2. RowsGoOn'
  BY DEF AllGoOn, RowsGoOn, Paid, ReadLeftover, table, txs
<1>3. NoPaymentAgain'
  BY DEF AllGoOn, NoPaymentAgain, Paid, ReadLeftover, txs
<1>4. RoundGoesOn'
  BY DEF AllGoOn, RoundGoesOn, Paid, ReadLeftover, txs, round
<1>5. JobsGoOn'
  BY DEF AllGoOn, RowsGoOn, JobsGoOn, Paid, GoingOn, ReadLeftover, Settled,
     Leftover, txs, Row, RewardStatus
<1>6. VerifiersGoOn'
  BY DEF AllGoOn, VerifiersGoOn, Paid, ReadLeftover, txs
<1>7. PassGoesOn'
  BY DEF AllGoOn, PassGoesOn, Paid, ReadLeftover, txs
<1>8. HandlersGoOn'
  BY DEF AllGoOn, HandlersGoOn, Paid, ReadLeftover, txs, reprocess, history
<1> QED
  BY <1>1, <1>2, <1>3, <1>4, <1>5, <1>6, <1>7, <1>8 DEF AllGoOn

LEMMA TimeoutRowGoesOn ==
  ASSUME PromptWork, Inv, Present, AllGoOn, NEW r \in Row, TimeoutRow(r),
         UNCHANGED reprocess
  PROVE  Present' /\ AllGoOn'
<1>1. Present'
  BY DEF Present, TimeoutRow, SetStatus, txs, round
<1>2. AllGoOn'
  BY DEF AllGoOn, RowsGoOn, NoPaymentAgain, RoundGoesOn, JobsGoOn,
     VerifiersGoOn, PassGoesOn, HandlersGoOn, Paid, TimeoutRow, SetStatus,
     txs, round, reprocess, history
<1> QED
  BY <1>1, <1>2

LEMMA LeaveYoungGoesOn ==
  ASSUME PromptWork, Inv, Present, AllGoOn, NEW r \in Row, LeaveYoung(r),
         UNCHANGED reprocess
  PROVE  Present' /\ AllGoOn'
<1>1. Present'
  BY DEF Present, LeaveYoung, table, txs, round
<1>2. AllGoOn'
  BY DEF AllGoOn, RowsGoOn, NoPaymentAgain, RoundGoesOn, JobsGoOn,
     VerifiersGoOn, PassGoesOn, HandlersGoOn, Paid, LeaveYoung, table, txs,
     round, reprocess, history
<1> QED
  BY <1>1, <1>2

LEMMA ReadWaitingGoesOn ==
  ASSUME PromptWork, Inv, Present, AllGoOn, NEW rows \in SUBSET Row,
         ReadWaiting(rows), UNCHANGED reprocess
  PROVE  Present' /\ AllGoOn'
<1>1. Present'
  BY DEF Present, ReadWaiting, table, txs, round
<1>2. RowsGoOn'
  BY DEF AllGoOn, RowsGoOn, Paid, ReadWaiting, table, txs
<1>3. NoPaymentAgain'
  BY DEF AllGoOn, NoPaymentAgain, Paid, ReadWaiting, txs
<1>4. RoundGoesOn'
  BY DEF AllGoOn, RoundGoesOn, Paid, ReadWaiting, txs, round
<1>5. JobsGoOn'
  BY StatusTypes DEF Inv, AllTypeOK, TypeOK, AllGoOn, RowsGoOn, JobsGoOn,
     Paid, GoingOn, ReadWaiting, Waiting, Settled, txs, Waitings, RewardStatus
<1>6. VerifiersGoOn'
  BY DEF AllGoOn, VerifiersGoOn, Paid, ReadWaiting, txs
<1>7. PassGoesOn'
  BY DEF AllGoOn, PassGoesOn, Paid, ReadWaiting, txs
<1>8. HandlersGoOn'
  BY DEF AllGoOn, HandlersGoOn, Paid, ReadWaiting, txs, reprocess, history
<1> QED
  BY <1>1, <1>2, <1>3, <1>4, <1>5, <1>6, <1>7, <1>8 DEF AllGoOn

LEMMA RequeueRowGoesOn ==
  ASSUME PromptWork, Inv, Present, AllGoOn, NEW r \in Row, RequeueRow(r),
         UNCHANGED reprocess
  PROVE  Present' /\ AllGoOn'
<1>1. Present'
  <2>1. PendingStatus[TypeFor(waiting[r])] # "absent"
    BY Statuses, TypeForStatus DEF Inv, Kinds, WaitingKinds, Waitings, RequeueRow
  <2>2. \A x : x \in Row /\ status[x] # "absent" => status'[x] # "absent"
    BY <2>1 DEF RequeueRow, SetPending, SetStatus, Inv, AllTypeOK, TypeOK
  <2>3. /\ task.pc # "idle" => task.row \in Row
        /\ \A v \in Verifier : verifier[v].pc # "idle" => verifier[v].row \in Row
    BY DEF Inv, Kinds, TaskKind, VerifierKinds, Row
  <2> QED
    BY <2>2, <2>3 DEF Present, RequeueRow, txs, round
<1>2. RowsGoOn'
  BY Statuses, TypeForStatus DEF AllGoOn, RowsGoOn, JobsGoOn, Paid, GoingOn,
     RequeueRow, SetPending, SetStatus, txs, RewardStatus
<1>3. NoPaymentAgain'
  BY DEF AllGoOn, NoPaymentAgain, Paid, RequeueRow, txs
<1>4. RoundGoesOn'
  BY DEF AllGoOn, RoundGoesOn, Paid, RequeueRow, txs, round
<1>5. JobsGoOn'
  BY DEF AllGoOn, JobsGoOn, Paid, RequeueRow, txs
<1>6. VerifiersGoOn'
  BY DEF AllGoOn, VerifiersGoOn, Paid, RequeueRow, txs
<1>7. PassGoesOn'
  BY DEF AllGoOn, PassGoesOn, Paid, RequeueRow, txs
<1>8. HandlersGoOn'
  BY DEF AllGoOn, HandlersGoOn, Paid, RequeueRow, txs, reprocess, history
<1> QED
  BY <1>1, <1>2, <1>3, <1>4, <1>5, <1>6, <1>7, <1>8 DEF AllGoOn

LEMMA ReadRequestedGoesOn ==
  ASSUME PromptWork, Inv, Present, AllGoOn, NEW v \in Verifier,
         NEW e \in Event, NEW type \in TxType, ReadRequested(v, e, type),
         UNCHANGED reprocess
  PROVE  Present' /\ AllGoOn'
<1>1. Present'
  <2>1. \A w \in Verifier : verifier'[w].pc # "idle" =>
          status[verifier'[w].row] # "absent"
    BY DEF ReadRequested, Present, Inv, AllTypeOK, TypeOK
  <2> QED
    BY <2>1 DEF ReadRequested, Present, table, txs, round
<1>2. VerifiersGoOn'
  <2> SUFFICES ASSUME NEW d \in Event, Paid(d)', NEW w \in Verifier,
                      verifier'[w].pc # "idle", verifier'[w].row = d
               PROVE  verifier'[w].status # "pendingPayment"
    BY DEF VerifiersGoOn
  <2>1. Paid(d) /\ pass' = pass
    BY DEF ReadRequested, Paid, txs
  <2>2. CASE w = v
    <3>1. verifier'[w].status = status[d] /\ d = e
      BY <2>2 DEF ReadRequested, Inv, AllTypeOK, TypeOK
    <3>2. status[d] \in GoingOn
      BY <2>1, <3>1 DEF ReadRequested, Settled, AllGoOn, RowsGoOn
    <3> QED
      BY <3>1, <3>2 DEF GoingOn, RewardStatus
  <2>3. CASE w # v
    BY <2>1, <2>3 DEF ReadRequested, Inv, AllTypeOK, TypeOK, AllGoOn, VerifiersGoOn
  <2> QED
    BY <2>2, <2>3
<1>3. RowsGoOn' /\ NoPaymentAgain' /\ RoundGoesOn' /\ JobsGoOn' /\ PassGoesOn'
      /\ HandlersGoOn'
  BY DEF AllGoOn, RowsGoOn, NoPaymentAgain, RoundGoesOn, JobsGoOn, PassGoesOn,
         HandlersGoOn, Paid, ReadRequested, table, txs, round, reprocess, history
<1> QED
  BY <1>1, <1>2, <1>3 DEF AllGoOn

LEMMA RejectRequestedGoesOn ==
  ASSUME PromptWork, Inv, Present, AllGoOn, NEW v \in Verifier,
         RejectRequested(v), UNCHANGED reprocess
  PROVE  Present' /\ AllGoOn'
<1>1. Present'
  BY DEF Present, RejectRequested, SetStatus, txs, round, IdleVerifier
<1>2. AllGoOn'
  BY DEF AllGoOn, RowsGoOn, NoPaymentAgain, RoundGoesOn, JobsGoOn,
     VerifiersGoOn, PassGoesOn, HandlersGoOn, Paid, RejectRequested,
     SetStatus, txs, round, reprocess, history, IdleVerifier
<1> QED
  BY <1>1, <1>2

LEMMA CheckRequestedGoesOn ==
  ASSUME PromptWork, Inv, Present, AllGoOn, NEW v \in Verifier,
         CheckRequested(v), UNCHANGED reprocess
  PROVE  Present' /\ AllGoOn'
<1>1. Present'
  BY DEF Present, CheckRequested, table, txs, round, IdleVerifier
<1>2. AllGoOn'
  BY DEF Inv, AllTypeOK, TypeOK, AllGoOn, RowsGoOn, NoPaymentAgain,
     RoundGoesOn, JobsGoOn, VerifiersGoOn, PassGoesOn, HandlersGoOn, Paid,
     CheckRequested, table, txs, round, reprocess, history, IdleVerifier
<1> QED
  BY <1>1, <1>2

LEMMA RefuseRequestedGoesOn ==
  ASSUME PromptWork, Inv, Present, AllGoOn, NEW v \in Verifier,
         RefuseRequested(v), UNCHANGED reprocess
  PROVE  Present' /\ AllGoOn'
<1>1. Present'
  BY DEF Present, RefuseRequested, table, txs, round, IdleVerifier
<1>2. AllGoOn'
  BY DEF AllGoOn, RowsGoOn, NoPaymentAgain, RoundGoesOn, JobsGoOn,
     VerifiersGoOn, PassGoesOn, HandlersGoOn, Paid, RefuseRequested, table,
     txs, round, reprocess, history, IdleVerifier
<1> QED
  BY <1>1, <1>2

LEMMA AgreeToOrderGoesOn ==
  ASSUME PromptWork, Inv, Present, AllGoOn, NEW o \in Order, AgreeToOrder(o),
         UNCHANGED reprocess
  PROVE  Present' /\ AllGoOn'
<1>1. Present'
  BY DEF Present, AgreeToOrder, table, txs, round, jobs
<1>2. AllGoOn'
  BY DEF AllGoOn, RowsGoOn, NoPaymentAgain, RoundGoesOn, JobsGoOn,
     VerifiersGoOn, PassGoesOn, HandlersGoOn, Paid, AgreeToOrder, table, txs,
     round, jobs, reprocess, history
<1> QED
  BY <1>1, <1>2

LEMMA ApproveGoesOn ==
  ASSUME PromptWork, Inv, Present, AllGoOn, NEW r \in Row, NEW type \in TxType,
         Approve(r, type), UNCHANGED reprocess
  PROVE  Present' /\ AllGoOn'
<1>1. Present'
  BY Statuses DEF Present, Approve, SetStatus, round, jobs, TxType
<1>2. RowsGoOn'
  <2> SUFFICES ASSUME NEW e \in Event, Paid(e)'
               PROVE  \/ status'[e] \in GoingOn
                      \/ pass'.pc = "advance" /\ pass'.row = e
    BY DEF RowsGoOn
  <2>1. Paid(e) /\ pass' = pass
    BY DEF Approve, Paid, jobs
  <2>2. CASE e = r
    <3>1. type = "reward"
      BY <2>1, <2>2 DEF Approve, AllGoOn, NoPaymentAgain, Inv, Kinds, TxKinds, TxType
    <3>2. status[e] # "absent"
      BY <2>2 DEF Approve, Present
    <3>3. status'[e] = "inReward"
      BY <2>2, <3>1, <3>2, Statuses DEF Approve, SetStatus, Inv, AllTypeOK, TypeOK
    <3> QED
      BY <3>3 DEF GoingOn, RewardStatus
  <2>3. CASE e # r
    <3>1. status'[e] = status[e]
      BY <2>3 DEF Approve, SetStatus, Inv, AllTypeOK, TypeOK, Row
    <3> QED
      BY <2>1, <3>1 DEF AllGoOn, RowsGoOn
  <2> QED
    BY <2>2, <2>3
<1>3. NoPaymentAgain'
  BY DEF AllGoOn, NoPaymentAgain, Paid, Approve
<1>4. RoundGoesOn'
  BY DEF AllGoOn, RoundGoesOn, Paid, Approve, round, jobs
<1>5. JobsGoOn'
  BY DEF AllGoOn, JobsGoOn, Paid, Approve, jobs
<1>6. VerifiersGoOn'
  BY DEF AllGoOn, VerifiersGoOn, Paid, Approve, jobs
<1>7. PassGoesOn'
  BY DEF AllGoOn, PassGoesOn, Paid, Approve, jobs
<1>8. HandlersGoOn'
  BY DEF AllGoOn, HandlersGoOn, Paid, Approve, reprocess, history
<1> QED
  BY <1>1, <1>2, <1>3, <1>4, <1>5, <1>6, <1>7, <1>8 DEF AllGoOn

LEMMA ForgetCandidatesGoesOn ==
  ASSUME PromptWork, Inv, Present, AllGoOn, ForgetCandidates, UNCHANGED reprocess
  PROVE  Present' /\ AllGoOn'
<1>1. Present'
  BY DEF Present, ForgetCandidates, table, txs, round, jobs
<1>2. AllGoOn'
  BY DEF AllGoOn, RowsGoOn, NoPaymentAgain, RoundGoesOn, JobsGoOn,
     VerifiersGoOn, PassGoesOn, HandlersGoOn, Paid, ForgetCandidates, table,
     txs, round, jobs, reprocess, history
<1> QED
  BY <1>1, <1>2

LEMMA InvalidateGoesOn ==
  ASSUME PromptWork, Inv, Present, AllGoOn, NEW r \in Row, NEW type \in TxType,
         Invalidate(r, type), UNCHANGED reprocess
  PROVE  Present' /\ AllGoOn'
<1>1. Present'
  BY DEF Present, Invalidate, table, round
<1>2. RowsGoOn'
  BY DEF AllGoOn, RowsGoOn, Paid, Invalidate, table, NoPass
<1>3. NoPaymentAgain'
  BY DEF AllGoOn, NoPaymentAgain, Paid, Invalidate
<1>4. RoundGoesOn'
  BY DEF AllGoOn, RoundGoesOn, Paid, Invalidate, round
<1>5. JobsGoOn'
  BY DEF AllGoOn, JobsGoOn, Paid, Invalidate
<1>6. VerifiersGoOn'
  BY DEF AllGoOn, VerifiersGoOn, Paid, Invalidate
<1>7. PassGoesOn'
  <2> SUFFICES ASSUME NEW e \in Event, Paid(e)', pass'.row = e
               PROVE  pass'.type = "reward"
    BY DEF PassGoesOn
  <2>1. pass'.row = r /\ pass'.type = type
    BY DEF Invalidate
  <2>2. <<e, type>> \in valid \ paid /\ <<e, "payment">> \in paid
    BY <2>1 DEF Invalidate, Paid
  <2> QED
    BY <2>1, <2>2 DEF Inv, Kinds, TxKinds, TxType
<1>8. HandlersGoOn'
  BY DEF AllGoOn, HandlersGoOn, Paid, Invalidate, reprocess, history
<1> QED
  BY <1>1, <1>2, <1>3, <1>4, <1>5, <1>6, <1>7, <1>8 DEF AllGoOn

LEMMA AdvanceRowGoesOn ==
  ASSUME PromptWork, Inv, Present, AllGoOn, AdvanceRow, UNCHANGED reprocess
  PROVE  Present' /\ AllGoOn'
<1>1. Present'
  BY DEF Present, AdvanceRow, ConfirmedStatus, SetStatus, txs, round
<1>2. RowsGoOn'
  <2> SUFFICES ASSUME NEW e \in Event, Paid(e)'
               PROVE  status'[e] \in GoingOn
    BY DEF RowsGoOn
  <2>1. Paid(e) /\ status[e] # "absent"
    <3>1. Paid(e) /\ <<e, "payment">> \in valid
      BY DEF AdvanceRow, Paid, txs, Inv, AllTypeOK, TypeOK
    <3> QED
      BY <3>1 DEF Present, Row, TxType
  <2>2. CASE e = pass.row
    <3>1. status'[e] = ConfirmedStatus(pass.row, pass.type)
      BY <2>1, <2>2 DEF AdvanceRow, SetStatus, Inv, AllTypeOK, TypeOK, Row
    <3> QED
      BY <3>1 DEF ConfirmedStatus, GoingOn, RewardStatus
  <2>3. CASE e # pass.row
    <3>1. status'[e] = status[e]
      BY <2>3 DEF AdvanceRow, SetStatus, Inv, AllTypeOK, TypeOK, Row
    <3> QED
      BY <2>1, <2>3, <3>1 DEF AllGoOn, RowsGoOn
  <2> QED
    BY <2>2, <2>3
<1>3. NoPaymentAgain'
  BY DEF AllGoOn, NoPaymentAgain, Paid, AdvanceRow, txs
<1>4. RoundGoesOn'
  BY DEF AllGoOn, RoundGoesOn, Paid, AdvanceRow, txs, round
<1>5. JobsGoOn'
  BY DEF AllGoOn, JobsGoOn, Paid, AdvanceRow, txs
<1>6. VerifiersGoOn'
  BY DEF AllGoOn, VerifiersGoOn, Paid, AdvanceRow, txs
<1>7. PassGoesOn'
  BY DEF PassGoesOn, AdvanceRow, NoPass
<1>8. HandlersGoOn'
  BY DEF AllGoOn, HandlersGoOn, Paid, AdvanceRow, txs, reprocess, history
<1> QED
  BY <1>1, <1>2, <1>3, <1>4, <1>5, <1>6, <1>7, <1>8 DEF AllGoOn

LEMMA ReopenRowGoesOn ==
  ASSUME PromptWork, Inv, Present, AllGoOn, ReopenRow, UNCHANGED reprocess
  PROVE  Present' /\ AllGoOn'
<1>1. Present'
  BY Statuses DEF Inv, AllTypeOK, TypeOK, Present, ReopenRow, SetStatus, txs,
     round, TxType, Pass
<1>2. AllGoOn'
  BY Statuses DEF AllGoOn, RowsGoOn, NoPaymentAgain, RoundGoesOn, JobsGoOn,
     VerifiersGoOn, PassGoesOn, HandlersGoOn, Paid, GoingOn, ReopenRow,
     SetStatus, txs, round, reprocess, history, NoPass, RewardStatus
<1> QED
  BY <1>1, <1>2

LEMMA SpendEventGoesOn ==
  ASSUME PromptWork, Inv, Present, AllGoOn, NEW e \in Event, SpendEvent(e),
         UNCHANGED reprocess
  PROVE  Present' /\ AllGoOn'
<1>1. Present'
  BY DEF Present, SpendEvent, table, txs, round, jobs
<1>2. AllGoOn'
  BY DEF AllGoOn, RowsGoOn, NoPaymentAgain, RoundGoesOn, JobsGoOn,
     VerifiersGoOn, PassGoesOn, HandlersGoOn, Paid, SpendEvent, table, txs,
     round, jobs, reprocess, history
<1> QED
  BY <1>1, <1>2

LEMMA ExpireGoesOn ==
  ASSUME PromptWork, Inv, Present, AllGoOn, NEW r \in Row, Expire(r),
         UNCHANGED reprocess
  PROVE  Present' /\ AllGoOn'
<1>1. Present'
  BY DEF Present, Expire, txs, round
<1>2. AllGoOn'
  BY DEF AllGoOn, RowsGoOn, NoPaymentAgain, RoundGoesOn, JobsGoOn,
     VerifiersGoOn, PassGoesOn, HandlersGoOn, Paid, Expire, txs, round,
     reprocess, history
<1> QED
  BY <1>1, <1>2

LEMMA CompleteUnwatchedGoesOn ==
  ASSUME PromptWork, Inv, Present, AllGoOn, NEW r \in Row, NEW type \in TxType,
         CompleteUnwatched(r, type)
  PROVE  Present' /\ AllGoOn'
<1>1. Present'
  BY DEF Present, CompleteUnwatched, Complete, table, round
<1>2. RowsGoOn'
  BY DEF AllGoOn, RowsGoOn, Paid, CompleteUnwatched, Complete, table, NoPass
<1>3. NoPaymentAgain'
  BY DEF AllGoOn, NoPaymentAgain, Paid, CompleteUnwatched, Complete
<1>4. RoundGoesOn'
  BY DEF AllGoOn, RoundGoesOn, Paid, CompleteUnwatched, Complete, AtWork,
     round, NoRead
<1>5. JobsGoOn'
  BY DEF AllGoOn, JobsGoOn, Paid, CompleteUnwatched, Complete, AtWork
<1>6. VerifiersGoOn'
  BY DEF AllGoOn, VerifiersGoOn, Paid, CompleteUnwatched, Complete, AtWork
<1>7. PassGoesOn'
  BY DEF PassGoesOn, CompleteUnwatched, Complete
<1>8. HandlersGoOn'
  BY DEF AllGoOn, HandlersGoOn, Paid, CompleteUnwatched, Complete, reprocess, history
<1> QED
  BY <1>1, <1>2, <1>3, <1>4, <1>5, <1>6, <1>7, <1>8 DEF AllGoOn

LEMMA CrashAllGoesOn ==
  ASSUME PromptWork, Inv, Present, AllGoOn, CrashAll
  PROVE  Present' /\ AllGoOn'
<1>1. Present'
  BY DEF Present, CrashAll, Crash, table, txs, IdleTask, IdleVerifier
<1>2. AllGoOn'
  BY DEF AllGoOn, RowsGoOn, NoPaymentAgain, RoundGoesOn, JobsGoOn,
     VerifiersGoOn, PassGoesOn, HandlersGoOn, Paid, CrashAll, Crash, table,
     txs, Row, NoRead, IdleTask, IdleVerifier, NoPass, IdleHandler
<1> QED
  BY <1>1, <1>2

LEMMA ReadReprocessedGoesOn ==
  ASSUME PromptWork, Inv, Present, AllGoOn, NEW h \in Handler,
         NEW from \in Peer \cup {Operator}, NEW e \in Event,
         ReadReprocessed(h, from, e)
  PROVE  Present' /\ AllGoOn'
<1>1. Present'
  BY DEF Present, ReadReprocessed, table, txs, round, jobs, vars
<1>2. RowsGoOn'
  BY DEF AllGoOn, RowsGoOn, Paid, ReadReprocessed, table, txs, jobs, vars
<1>3. NoPaymentAgain'
  BY DEF AllGoOn, NoPaymentAgain, Paid, ReadReprocessed, txs, vars
<1>4. RoundGoesOn'
  BY DEF AllGoOn, RoundGoesOn, Paid, ReadReprocessed, txs, round, jobs, vars
<1>5. JobsGoOn'
  BY DEF AllGoOn, JobsGoOn, Paid, ReadReprocessed, txs, jobs, vars
<1>6. VerifiersGoOn'
  BY DEF AllGoOn, VerifiersGoOn, Paid, ReadReprocessed, txs, jobs, vars
<1>7. PassGoesOn'
  BY DEF AllGoOn, PassGoesOn, Paid, ReadReprocessed, txs, jobs, vars
<1>8. HandlersGoOn'
  <2> SUFFICES ASSUME NEW d \in Event, Paid(d)', NEW g \in Handler,
                      handler'[g].pc # "idle", handler'[g].row = d
               PROVE  handler'[g].status \notin {"rejected", "timeout", "paymentWaiting"}
    BY DEF HandlersGoOn
  <2>1. Paid(d) /\ pass' = pass
    BY DEF ReadReprocessed, Paid, vars, txs, jobs
  <2>2. CASE g = h
    <3>1. handler'[g].status = status[d] /\ d = e
      BY <2>2 DEF ReadReprocessed, Inv, AllTypeOK, ReprocessTypeOK
    <3>2. status[d] \in GoingOn
      BY <2>1, <3>1 DEF ReadReprocessed, Settled, AllGoOn, RowsGoOn
    <3> QED
      BY <3>1, <3>2 DEF GoingOn, RewardStatus
  <2>3. CASE g # h
    BY <2>1, <2>3 DEF ReadReprocessed, Inv, AllTypeOK, ReprocessTypeOK, AllGoOn,
                      HandlersGoOn
  <2> QED
    BY <2>2, <2>3
<1> QED
  BY <1>1, <1>2, <1>3, <1>4, <1>5, <1>6, <1>7, <1>8 DEF AllGoOn

LEMMA ReadRecentGoesOn ==
  ASSUME PromptWork, Inv, Present, AllGoOn, NEW h \in Handler, ReadRecent(h)
  PROVE  Present' /\ AllGoOn'
<1>1. Present'
  BY DEF Present, ReadRecent, table, txs, round, jobs, vars
<1>2. AllGoOn'
  BY DEF AllGoOn, RowsGoOn, NoPaymentAgain, RoundGoesOn, JobsGoOn,
     VerifiersGoOn, PassGoesOn, HandlersGoOn, Paid, ReadRecent, table, txs,
     round, jobs, vars, IdleHandler
<1> QED
  BY <1>1, <1>2

LEMMA WriteReprocessedGoesOn ==
  ASSUME PromptWork, Inv, Present, AllGoOn, NEW h \in Handler, WriteReprocessed(h)
  PROVE  Present' /\ AllGoOn'
<1>1. Present'
  BY DEF Present, WriteReprocessed, SetPending, SetStatus, RequeuedAs, txs,
     round, jobs
<1>2. AllGoOn'
  BY DEF AllGoOn, RowsGoOn, NoPaymentAgain, RoundGoesOn, JobsGoOn,
     VerifiersGoOn, PassGoesOn, HandlersGoOn, Paid, GoingOn, WriteReprocessed,
     SetPending, SetStatus, RequeuedAs, Reprocessable, txs, round, jobs,
     RewardStatus
<1> QED
  BY <1>1, <1>2

LEMMA RefuseReprocessedGoesOn ==
  ASSUME PromptWork, Inv, Present, AllGoOn, NEW h \in Handler, RefuseReprocessed(h)
  PROVE  Present' /\ AllGoOn'
<1>1. Present'
  BY DEF Present, RefuseReprocessed, table, txs, round, jobs, vars
<1>2. AllGoOn'
  BY DEF AllGoOn, RowsGoOn, NoPaymentAgain, RoundGoesOn, JobsGoOn,
     VerifiersGoOn, PassGoesOn, HandlersGoOn, Paid, RefuseReprocessed, table,
     txs, round, jobs, vars, IdleHandler
<1> QED
  BY <1>1, <1>2

LEMMA InsertRequestGoesOn ==
  ASSUME PromptWork, Inv, Present, AllGoOn, NEW h \in Handler, InsertRequest(h)
  PROVE  Present' /\ AllGoOn'
<1>1. Present'
  BY DEF Present, InsertRequest, table, txs, round, jobs, vars
<1>2. AllGoOn'
  BY DEF AllGoOn, RowsGoOn, NoPaymentAgain, RoundGoesOn, JobsGoOn,
     VerifiersGoOn, PassGoesOn, HandlersGoOn, Paid, InsertRequest, table, txs,
     round, jobs, vars, IdleHandler
<1> QED
  BY <1>1, <1>2

LEMMA AbandonRequestGoesOn ==
  ASSUME PromptWork, Inv, Present, AllGoOn, NEW h \in Handler, AbandonRequest(h)
  PROVE  Present' /\ AllGoOn'
<1>1. Present'
  BY DEF Present, AbandonRequest, table, txs, round, jobs, vars
<1>2. AllGoOn'
  BY DEF AllGoOn, RowsGoOn, NoPaymentAgain, RoundGoesOn, JobsGoOn,
     VerifiersGoOn, PassGoesOn, HandlersGoOn, Paid, AbandonRequest, table, txs,
     round, jobs, vars, IdleHandler
<1> QED
  BY <1>1, <1>2

LEMMA CooldownPassesGoesOn ==
  ASSUME PromptWork, Inv, Present, AllGoOn, NEW p \in Peer, CooldownPasses(p)
  PROVE  Present' /\ AllGoOn'
<1>1. Present'
  BY DEF Present, CooldownPasses, table, txs, round, jobs, vars
<1>2. AllGoOn'
  BY DEF AllGoOn, RowsGoOn, NoPaymentAgain, RoundGoesOn, JobsGoOn,
     VerifiersGoOn, PassGoesOn, HandlersGoOn, Paid, CooldownPasses, table,
     txs, round, jobs, vars
<1> QED
  BY <1>1, <1>2

-----------------------------------------------------------------------------

LEMMA InitInv == ReprocessInit => Inv
<1> SUFFICES ASSUME ReprocessInit PROVE Inv
  OBVIOUS
<1> USE DEF ReprocessInit, Init
<1>1. AllTypeOK
  <2>1. TypeOK
    BY DEF TypeOK, RowStatus, Row, Read, NoRead, Task, IdleTask, TxType,
           Verification, IdleVerifier, Pass, NoPass
  <2>2. ReprocessTypeOK
    BY DEF ReprocessTypeOK, IdleHandler, Request, RowStatus
  <2> QED
    BY <2>1, <2>2 DEF AllTypeOK
<1>2. Kinds
  BY DEF Kinds, ListKinds, TaskKind, IdleTask, WaitingKinds, VerifierKinds,
         IdleVerifier, TxKinds, PassKind, NoPass
<1>3. AllBacked
  BY DEF AllBacked, RowsBacked, ListBacked, NoRead, TaskBacked, IdleTask,
         WaitingBacked, VerifierBacked, IdleVerifier, TxBacked, PassBacked,
         NoPass, HandlerBacked, IdleHandler, RewardStatus, Row
<1> QED
  BY <1>1, <1>2, <1>3 DEF Inv

LEMMA StutterInv == Inv /\ UNCHANGED allVars => Inv'
  BY DEF Inv, allVars, vars, table, txs, jobs, round, reprocess, history, AllTypeOK, TypeOK,
         ReprocessTypeOK, Kinds, ListKinds, TaskKind, WaitingKinds,
         VerifierKinds, TxKinds, PassKind, AllBacked, RowsBacked, ListBacked,
         TaskBacked, WaitingBacked, VerifierBacked, TxBacked, PassBacked,
         HandlerBacked, Backed

LEMMA JobsInv ==
  ASSUME Inv, Jobs, UNCHANGED reprocess
  PROVE  Inv'
<1>1. CASE ReadConfirmedEvents
  BY <1>1, ReadListStep DEF ReadConfirmedEvents, Row, TxType
<1>2. CASE ReadPendingOrders
  BY <1>2, ReadListStep, EventAssumption DEF ReadPendingOrders, Row, TxType
<1>3. CASE AbortRound
  BY <1>3, AbortRoundStep
<1>4. CASE \E e \in Event : SkipSpentEvent(e)
  BY <1>4, SkipSpentEventStep
<1>5. CASE \E r \in Row : ReachLimit(r) \/ StartProcessing(r)
  BY <1>5, ReachLimitStep, StartProcessingStep
<1>6. CASE VerifiedEvent \/ RejectEvent \/ Propose \/ WaitForAssets \/ GiveUp
  BY <1>6, VerifiedEventStep, RejectEventStep, ProposeStep, WaitForAssetsStep,
     GiveUpStep
<1>7. CASE ReadLeftoverEvents \/ ReadLeftoverOrders
  BY <1>7, ReadLeftoverStep DEF ReadLeftoverEvents, ReadLeftoverOrders, Row
<1>8. CASE ReadWaitingEvents \/ ReadWaitingOrders
  BY <1>8, ReadWaitingStep DEF ReadWaitingEvents, ReadWaitingOrders, Row
<1>9. CASE \E r \in Row : TimeoutRow(r) \/ LeaveYoung(r) \/ RequeueRow(r)
  BY <1>9, TimeoutRowStep, LeaveYoungStep, RequeueRowStep
<1> QED
  BY <1>1, <1>2, <1>3, <1>4, <1>5, <1>6, <1>7, <1>8, <1>9 DEF Jobs

LEMMA AgreementInv ==
  ASSUME Inv, Agreement, UNCHANGED reprocess
  PROVE  Inv'
<1>1. CASE \E v \in Verifier :
             \/ \E e \in Event, type \in TxType : ReadRequested(v, e, type)
             \/ RejectRequested(v) \/ CheckRequested(v) \/ RefuseRequested(v)
  BY <1>1, ReadRequestedStep, RejectRequestedStep, CheckRequestedStep,
     RefuseRequestedStep
<1>2. CASE \E o \in Order : AgreeToOrder(o)
  BY <1>2, AgreeToOrderStep
<1>3. CASE \E r \in Row, type \in TxType : Approve(r, type)
  BY <1>3, ApproveStep
<1>4. CASE ForgetCandidates
  BY <1>4, ForgetCandidatesStep
<1> QED
  BY <1>1, <1>2, <1>3, <1>4 DEF Agreement

LEMMA ReprocessingInv ==
  ASSUME Inv, Reprocessing
  PROVE  Inv'
<1>1. CASE \E h \in Handler :
             \/ \E from \in Peer \cup {Operator}, e \in Event :
                  ReadReprocessed(h, from, e)
             \/ ReadRecent(h) \/ WriteReprocessed(h) \/ RefuseReprocessed(h)
             \/ InsertRequest(h) \/ AbandonRequest(h)
  BY <1>1, ReadReprocessedStep, ReadRecentStep, WriteReprocessedStep,
     RefuseReprocessedStep, InsertRequestStep, AbandonRequestStep
<1>2. CASE \E p \in Peer : CooldownPasses(p)
  BY <1>2, CooldownPassesStep
<1> QED
  BY <1>1, <1>2 DEF Reprocessing

LEMMA NextInv == Inv /\ [ReprocessNext]_allVars => Inv'
<1> SUFFICES ASSUME Inv, [ReprocessNext]_allVars PROVE Inv'
  OBVIOUS
<1>1. CASE Jobs /\ UNCHANGED reprocess
  BY <1>1, JobsInv
<1>2. CASE Agreement /\ UNCHANGED reprocess
  BY <1>2, AgreementInv
<1>3. CASE Transactions /\ UNCHANGED reprocess
  BY <1>3, InvalidateStep, AdvanceRowStep, ReopenRowStep DEF Transactions
<1>4. CASE Environment /\ UNCHANGED reprocess
  BY <1>4, InsertConfirmedEventStep, SpendEventStep, InsertOrderStep, ExpireStep
     DEF Environment
<1>5. CASE \E r \in Row, type \in TxType : CompleteUnwatched(r, type)
  BY <1>5, CompleteUnwatchedStep
<1>6. CASE CrashAll
  BY <1>6, CrashAllStep
<1>7. CASE Reprocessing
  BY <1>7, ReprocessingInv
<1>8. CASE UNCHANGED allVars
  BY <1>8, StutterInv
<1> QED
  BY <1>1, <1>2, <1>3, <1>4, <1>5, <1>6, <1>7, <1>8 DEF ReprocessNext

LEMMA SpecInv == Spec => []Inv
  BY InitInv, NextInv, PTL DEF Spec

(* The tables, the jobs' copies of their rows and the requests are         *)
(* well-typed in every reachable state, however many there are.            *)
THEOREM TablesTyped == Spec => []AllTypeOK
<1>1. Inv => AllTypeOK
  BY DEF Inv
<1> QED
  BY <1>1, SpecInv, PTL

(* No stale write of a job, a verification or a reprocess request and no   *)
(* crash between the two writes of a confirmation brings an event to its   *)
(* reward, or to its end, without a confirmed payment.                     *)
THEOREM RewardsBehindPayments == Spec => []RewardBehindPayment
<1>1. Inv => RewardBehindPayment
  BY DEF Inv, AllBacked, RowsBacked, RewardBehindPayment, Backed
<1> QED
  BY <1>1, SpecInv, PTL

LEMMA JobsGoesOn ==
  ASSUME PromptWork, Inv, Present, AllGoOn, Jobs, UNCHANGED reprocess
  PROVE  Present' /\ AllGoOn'
<1>1. CASE ReadConfirmedEvents
  BY <1>1, ReadListGoesOn DEF ReadConfirmedEvents, Row, TxType
<1>2. CASE ReadPendingOrders
  BY <1>2, ReadListGoesOn, EventAssumption DEF ReadPendingOrders, Row, TxType
<1>3. CASE AbortRound
  BY <1>3, AbortRoundGoesOn
<1>4. CASE \E e \in Event : SkipSpentEvent(e)
  BY <1>4, SkipSpentEventGoesOn
<1>5. CASE \E r \in Row : ReachLimit(r) \/ StartProcessing(r)
  BY <1>5, ReachLimitGoesOn, StartProcessingGoesOn
<1>6. CASE VerifiedEvent \/ RejectEvent \/ Propose \/ WaitForAssets \/ GiveUp
  BY <1>6, VerifiedEventGoesOn, RejectEventGoesOn, ProposeGoesOn,
     WaitForAssetsGoesOn,
     GiveUpGoesOn
<1>7. CASE ReadLeftoverEvents \/ ReadLeftoverOrders
  BY <1>7, ReadLeftoverGoesOn DEF ReadLeftoverEvents, ReadLeftoverOrders, Row
<1>8. CASE ReadWaitingEvents \/ ReadWaitingOrders
  BY <1>8, ReadWaitingGoesOn DEF ReadWaitingEvents, ReadWaitingOrders, Row
<1>9. CASE \E r \in Row : TimeoutRow(r) \/ LeaveYoung(r) \/ RequeueRow(r)
  BY <1>9, TimeoutRowGoesOn, LeaveYoungGoesOn, RequeueRowGoesOn
<1> QED
  BY <1>1, <1>2, <1>3, <1>4, <1>5, <1>6, <1>7, <1>8, <1>9 DEF Jobs

LEMMA AgreementGoesOn ==
  ASSUME PromptWork, Inv, Present, AllGoOn, Agreement, UNCHANGED reprocess
  PROVE  Present' /\ AllGoOn'
<1>1. CASE \E v \in Verifier :
             \/ \E e \in Event, type \in TxType : ReadRequested(v, e, type)
             \/ RejectRequested(v) \/ CheckRequested(v) \/ RefuseRequested(v)
  BY <1>1, ReadRequestedGoesOn, RejectRequestedGoesOn, CheckRequestedGoesOn,
     RefuseRequestedGoesOn
<1>2. CASE \E o \in Order : AgreeToOrder(o)
  BY <1>2, AgreeToOrderGoesOn
<1>3. CASE \E r \in Row, type \in TxType : Approve(r, type)
  BY <1>3, ApproveGoesOn
<1>4. CASE ForgetCandidates
  BY <1>4, ForgetCandidatesGoesOn
<1> QED
  BY <1>1, <1>2, <1>3, <1>4 DEF Agreement

LEMMA ReprocessingGoesOn ==
  ASSUME PromptWork, Inv, Present, AllGoOn, Reprocessing
  PROVE  Present' /\ AllGoOn'
<1>1. CASE \E h \in Handler :
             \/ \E from \in Peer \cup {Operator}, e \in Event :
                  ReadReprocessed(h, from, e)
             \/ ReadRecent(h) \/ WriteReprocessed(h) \/ RefuseReprocessed(h)
             \/ InsertRequest(h) \/ AbandonRequest(h)
  BY <1>1, ReadReprocessedGoesOn, ReadRecentGoesOn, WriteReprocessedGoesOn,
     RefuseReprocessedGoesOn, InsertRequestGoesOn, AbandonRequestGoesOn
<1>2. CASE \E p \in Peer : CooldownPasses(p)
  BY <1>2, CooldownPassesGoesOn
<1> QED
  BY <1>1, <1>2 DEF Reprocessing

LEMMA NextGoesOn ==
  ASSUME PromptWork
  PROVE  Inv /\ Present /\ AllGoOn /\ [ReprocessNext]_allVars
           => (Present /\ AllGoOn)'
<1> SUFFICES ASSUME Inv, Present, AllGoOn, [ReprocessNext]_allVars
             PROVE  Present' /\ AllGoOn'
  OBVIOUS
<1>1. CASE Jobs /\ UNCHANGED reprocess
  BY <1>1, JobsGoesOn
<1>2. CASE Agreement /\ UNCHANGED reprocess
  BY <1>2, AgreementGoesOn
<1>3. CASE Transactions /\ UNCHANGED reprocess
  BY <1>3, InvalidateGoesOn, AdvanceRowGoesOn, ReopenRowGoesOn DEF Transactions
<1>4. CASE Environment /\ UNCHANGED reprocess
  BY <1>4, InsertConfirmedEventGoesOn, SpendEventGoesOn, InsertOrderGoesOn,
     ExpireGoesOn
     DEF Environment
<1>5. CASE \E r \in Row, type \in TxType : CompleteUnwatched(r, type)
  BY <1>5, CompleteUnwatchedGoesOn
<1>6. CASE CrashAll
  BY <1>6, CrashAllGoesOn
<1>7. CASE Reprocessing
  BY <1>7, ReprocessingGoesOn
<1>8. CASE UNCHANGED allVars
  BY <1>8 DEF allVars, vars, table, txs, jobs, round, reprocess, history, Present,
           AllGoOn, RowsGoOn, NoPaymentAgain, RoundGoesOn, JobsGoOn,
           VerifiersGoOn, PassGoesOn, HandlersGoOn, Paid
<1> QED
  BY <1>1, <1>2, <1>3, <1>4, <1>5, <1>6, <1>7, <1>8 DEF ReprocessNext

LEMMA InitGoesOn == ReprocessInit => Present /\ AllGoOn
  BY DEF ReprocessInit, Init, Present, IdleTask, IdleVerifier, IdleHandler, NoPass,
         NoRead, AllGoOn, RowsGoOn, NoPaymentAgain, RoundGoesOn, JobsGoOn,
         VerifiersGoOn, PassGoesOn, HandlersGoOn, Paid

(* An event whose payment is confirmed goes on to its reward and is never  *)
(* paid again by this guard's doing, given the timing PromptWork says: no  *)
(* copy of the row made before the confirmation outlives it, and every one *)
(* made later shows an event on its way to the reward.                     *)
THEOREM PaidEventsGoOn ==
  ASSUME PromptWork
  PROVE  Spec => []PaidGoesOn
<1>1. Present /\ AllGoOn => PaidGoesOn
  BY DEF AllGoOn, RowsGoOn, NoPaymentAgain, PaidGoesOn, Paid, GoingOn
<1>2. Inv /\ Present /\ AllGoOn /\ [ReprocessNext]_allVars => (Present /\ AllGoOn)'
  BY NextGoesOn
<1>3. ReprocessInit => Present /\ AllGoOn
  BY InitGoesOn
<1> QED
  BY <1>1, <1>2, <1>3, SpecInv, PTL DEF Spec

-----------------------------------------------------------------------------

(* A request that drops out of a set of them, and one that joins it.       *)
LEMMA SetShrinks ==
  ASSUME NEW H \in SUBSET Handler, NEW G \in SUBSET H
  PROVE  /\ Cardinality(G) \in Nat /\ Cardinality(H) \in Nat
         /\ Cardinality(G) <= Cardinality(H)
         /\ G # H => Cardinality(G) < Cardinality(H)
  BY HandlersFinite, FS_Subset, FS_CardinalityType

LEMMA OneOff ==
  ASSUME NEW H \in SUBSET Handler, NEW h \in H
  PROVE  Cardinality(H \ {h}) + 1 = Cardinality(H)
<1>1. IsFiniteSet(H) /\ Cardinality(H) \in Nat
  BY HandlersFinite
<1>2. Cardinality(H \ {h}) = Cardinality(H) - 1
  BY <1>1, FS_RemoveElement
<1> QED
  BY <1>1, <1>2

LEMMA OneOn ==
  ASSUME NEW H \in SUBSET Handler, NEW h \in Handler, h \notin H
  PROVE  Cardinality(H \cup {h}) = Cardinality(H) + 1
<1>1. IsFiniteSet(H)
  BY HandlersFinite
<1> QED
  BY <1>1, FS_AddElement

LEMMA CooldownNext == Inv /\ Cooldown /\ [ReprocessNext]_allVars => Cooldown'
<1> SUFFICES ASSUME Inv, Cooldown, [ReprocessNext]_allVars, NEW p \in Peer
             PROVE  (recent[p] + Cardinality(Passed(p)) <= Cardinality(Handler))'
  BY DEF Cooldown
<1>1. /\ handler \in [Handler -> Request] /\ recent \in [Peer -> Nat]
      /\ recent[p] \in Nat
      /\ recent[p] + Cardinality(Passed(p)) <= Cardinality(Handler)
      /\ Passed(p) \in SUBSET Handler /\ Passed(p)' \in SUBSET Handler
      /\ Cardinality(Handler) \in Nat /\ Cardinality(Passed(p)) \in Nat
      /\ Cardinality(Passed(p)') \in Nat
      /\ Cardinality(Passed(p)') <= Cardinality(Handler)
  <2>1. Passed(p)' \in SUBSET Handler
    BY DEF Passed
  <2> QED
    BY <2>1, HandlersFinite DEF Inv, AllTypeOK, ReprocessTypeOK, Cooldown
<1>2. ASSUME recent'[p] = recent[p], Passed(p)' \subseteq Passed(p)
      PROVE  (recent[p] + Cardinality(Passed(p)) <= Cardinality(Handler))'
  BY <1>1, <1>2, SetShrinks
<1>3. ASSUME recent'[p] = 0
      PROVE  (recent[p] + Cardinality(Passed(p)) <= Cardinality(Handler))'
  BY <1>1, <1>3
<1>4. CASE UNCHANGED reprocess
  BY <1>2, <1>4 DEF reprocess, history, Passed
<1>5. CASE CrashAll
  BY <1>2, <1>5 DEF CrashAll, Passed, IdleHandler
<1>6. ASSUME NEW h \in Handler, NEW from \in Peer \cup {Operator}, NEW e \in Event,
             ReadReprocessed(h, from, e)
      PROVE  (recent[p] + Cardinality(Passed(p)) <= Cardinality(Handler))'
  <2>1. Passed(p)' = Passed(p)
    BY <1>1, <1>6, ReprocessAssumption DEF ReadReprocessed, Passed, IdleHandler
  <2> QED
    BY <1>2, <1>6, <2>1 DEF ReadReprocessed
<1>7. ASSUME NEW h \in Handler, ReadRecent(h)
      PROVE  (recent[p] + Cardinality(Passed(p)) <= Cardinality(Handler))'
  <2>1. CASE handler[h].from = p /\ CooldownOver(h)
    BY <1>3, <1>7, <2>1 DEF ReadRecent, CooldownOver
  <2>2. CASE ~(handler[h].from = p /\ CooldownOver(h))
    BY <1>1, <1>2, <1>7, <2>2 DEF ReadRecent, Passed, IdleHandler
  <2> QED
    BY <2>1, <2>2
<1>8. ASSUME NEW h \in Handler, WriteReprocessed(h)
      PROVE  (recent[p] + Cardinality(Passed(p)) <= Cardinality(Handler))'
  BY <1>1, <1>2, <1>8 DEF WriteReprocessed, Passed
<1>9. ASSUME NEW h \in Handler, RefuseReprocessed(h)
      PROVE  (recent[p] + Cardinality(Passed(p)) <= Cardinality(Handler))'
  BY <1>1, <1>2, <1>9 DEF RefuseReprocessed, Passed, IdleHandler
<1>10. ASSUME NEW h \in Handler, InsertRequest(h)
       PROVE  (recent[p] + Cardinality(Passed(p)) <= Cardinality(Handler))'
  <2>1. Passed(p)' = Passed(p) \ {h}
    BY <1>1, <1>10 DEF InsertRequest, Passed, IdleHandler
  <2>2. CASE handler[h].from = p
    <3>1. h \in Passed(p) /\ recent'[p] = recent[p] + 1
      BY <1>1, <1>10, <2>2 DEF InsertRequest, CountFor, Passed
    <3>2. Cardinality(Passed(p)') + 1 = Cardinality(Passed(p))
      BY <1>1, <2>1, <3>1, OneOff
    <3> QED
      BY <1>1, <3>1, <3>2
  <2>3. CASE handler[h].from # p
    BY <1>1, <1>2, <1>10, <2>1, <2>3 DEF InsertRequest, CountFor
  <2> QED
    BY <2>2, <2>3
<1>11. ASSUME NEW h \in Handler, AbandonRequest(h)
       PROVE  (recent[p] + Cardinality(Passed(p)) <= Cardinality(Handler))'
  BY <1>1, <1>2, <1>11 DEF AbandonRequest, Passed, IdleHandler
<1>12. ASSUME NEW q \in Peer, CooldownPasses(q)
       PROVE  (recent[p] + Cardinality(Passed(p)) <= Cardinality(Handler))'
  BY <1>1, <1>2, <1>3, <1>12 DEF CooldownPasses, Passed
<1>13. CASE Reprocessing
  BY <1>6, <1>7, <1>8, <1>9, <1>10, <1>11, <1>12, <1>13 DEF Reprocessing
<1>14. CASE UNCHANGED allVars
  BY <1>4, <1>14 DEF allVars
<1> QED
  BY <1>4, <1>5, <1>13, <1>14 DEF ReprocessNext, CompleteUnwatched

(* An event is queued again by a request that is then recorded, lost with  *)
(* the handler or the guard, or still being handled.                       *)
LEMMA CountedNext == Inv /\ Counted /\ [ReprocessNext]_allVars => Counted'
<1> SUFFICES ASSUME Inv, Counted, [ReprocessNext]_allVars, NEW p \in Peer
             PROVE  (again[p] = recent[p] + lost[p] + Cardinality(Unrecorded(p)))'
  BY DEF Counted
<1> DEFINE Goal == (again[p] = recent[p] + lost[p] + Cardinality(Unrecorded(p)))'
<1>1. /\ handler \in [Handler -> Request] /\ recent \in [Peer -> Nat]
      /\ again \in [Peer -> Nat] /\ lost \in [Peer -> Nat]
      /\ recent[p] \in Nat /\ again[p] \in Nat /\ lost[p] \in Nat
      /\ again[p] = recent[p] + lost[p] + Cardinality(Unrecorded(p))
      /\ Unrecorded(p) \in SUBSET Handler /\ Unrecorded(p)' \in SUBSET Handler
      /\ Cardinality(Unrecorded(p)) \in Nat /\ Cardinality(Unrecorded(p)') \in Nat
      /\ Operator \notin Peer
  <2>1. Unrecorded(p)' \in SUBSET Handler
    BY DEF Unrecorded
  <2> QED
    BY <2>1, HandlersFinite, ReprocessAssumption
    DEF Inv, AllTypeOK, ReprocessTypeOK, Counted
<1>2. ASSUME UNCHANGED <<recent, lost, again>>, Unrecorded(p)' = Unrecorded(p)
      PROVE  Goal
  BY <1>1, <1>2
<1>3. CASE UNCHANGED reprocess
  BY <1>2, <1>3 DEF reprocess, history, Unrecorded
<1>4. CASE CrashAll
  <2>1. Unrecorded(p)' = {}
    BY <1>4 DEF CrashAll, Unrecorded, IdleHandler
  <2>2. Cardinality(Unrecorded(p)') = 0
    BY <2>1, FS_EmptySet
  <2> QED
    BY <1>1, <1>4, <2>2 DEF CrashAll
<1>5. ASSUME NEW h \in Handler, NEW from \in Peer \cup {Operator}, NEW e \in Event,
             ReadReprocessed(h, from, e)
      PROVE  Goal
  BY <1>1, <1>2, <1>5 DEF ReadReprocessed, history, Unrecorded, IdleHandler
<1>6. ASSUME NEW h \in Handler, ReadRecent(h) PROVE Goal
  BY <1>1, <1>2, <1>6 DEF ReadRecent, history, Unrecorded, IdleHandler
<1>7. ASSUME NEW h \in Handler, RefuseReprocessed(h) PROVE Goal
  BY <1>1, <1>2, <1>7 DEF RefuseReprocessed, history, Unrecorded, IdleHandler
<1>8. ASSUME NEW h \in Handler, WriteReprocessed(h) PROVE Goal
  <2>1. UNCHANGED <<recent, lost>>
    BY <1>8 DEF WriteReprocessed
  <2>2. CASE handler[h].from = p
    <3>1. Unrecorded(p)' = Unrecorded(p) \cup {h} /\ h \notin Unrecorded(p)
      BY <1>1, <1>8, <2>2 DEF WriteReprocessed, Unrecorded
    <3>2. again'[p] = again[p] + 1
      BY <1>1, <1>8, <2>2 DEF WriteReprocessed, CountFor
    <3>3. Cardinality(Unrecorded(p)') = Cardinality(Unrecorded(p)) + 1
      BY <1>1, <3>1, OneOn
    <3> QED
      BY <1>1, <2>1, <3>2, <3>3
  <2>3. CASE handler[h].from # p
    <3>1. Unrecorded(p)' = Unrecorded(p)
      BY <1>1, <1>8, <2>3 DEF WriteReprocessed, Unrecorded
    <3>2. again'[p] = again[p]
      BY <1>1, <1>8, <2>3 DEF WriteReprocessed, CountFor
    <3> QED
      BY <1>1, <2>1, <3>1, <3>2
  <2> QED
    BY <2>2, <2>3
<1>9. ASSUME NEW h \in Handler, handler[h].pc = "insert",
             handler' = [handler EXCEPT ![h] = IdleHandler], again' = again,
             \/ recent' = CountFor(recent, h) /\ lost' = lost
             \/ lost' = CountFor(lost, h) /\ recent' = recent
      PROVE  Goal
  <2>1. CASE handler[h].from = p
    <3>1. Unrecorded(p)' = Unrecorded(p) \ {h} /\ h \in Unrecorded(p)
      BY <1>1, <1>9, <2>1 DEF Unrecorded, IdleHandler
    <3>2. Cardinality(Unrecorded(p)') + 1 = Cardinality(Unrecorded(p))
      BY <1>1, <3>1, OneOff
    <3>3. recent'[p] + lost'[p] = recent[p] + lost[p] + 1
      BY <1>1, <1>9, <2>1 DEF CountFor
    <3>4. recent'[p] \in Nat /\ lost'[p] \in Nat
      BY <1>1, <1>9, CountTypes
    <3> QED
      BY <1>1, <1>9, <3>2, <3>3, <3>4
  <2>2. CASE handler[h].from # p
    <3>1. Unrecorded(p)' = Unrecorded(p)
      BY <1>1, <1>9, <2>2 DEF Unrecorded, IdleHandler
    <3>2. recent'[p] = recent[p] /\ lost'[p] = lost[p]
      BY <1>1, <1>9, <2>2 DEF CountFor
    <3> QED
      BY <1>1, <1>9, <3>1, <3>2
  <2> QED
    BY <2>1, <2>2
<1>10. ASSUME NEW h \in Handler, InsertRequest(h) PROVE Goal
  BY <1>9, <1>10 DEF InsertRequest, history
<1>11. ASSUME NEW h \in Handler, AbandonRequest(h) PROVE Goal
  <2>1. CASE handler[h].pc = "insert"
    BY <1>9, <1>11, <2>1 DEF AbandonRequest
  <2>2. CASE handler[h].pc # "insert"
    BY <1>1, <1>2, <1>11, <2>2 DEF AbandonRequest, Unrecorded, IdleHandler
  <2> QED
    BY <2>1, <2>2
<1>12. ASSUME NEW q \in Peer, CooldownPasses(q) PROVE Goal
  <2>1. Unrecorded(p)' = Unrecorded(p)
    BY <1>12 DEF CooldownPasses, Unrecorded
  <2>2. CASE q = p
    BY <1>1, <1>12, <2>1, <2>2 DEF CooldownPasses
  <2>3. CASE q # p
    BY <1>1, <1>12, <2>1, <2>3 DEF CooldownPasses
  <2> QED
    BY <2>2, <2>3
<1>13. CASE Reprocessing
  BY <1>5, <1>6, <1>7, <1>8, <1>10, <1>11, <1>12, <1>13 DEF Reprocessing
<1>14. CASE UNCHANGED allVars
  BY <1>3, <1>14 DEF allVars
<1> QED
  BY <1>3, <1>4, <1>13, <1>14 DEF ReprocessNext, CompleteUnwatched

(* Within the cooldown a peer gets no more events queued again than        *)
(* requests of it are handled at the same time, and one more for each      *)
(* request that a crash or a failed insert kept from being recorded: for   *)
(* any number of handlers, peers and crashes.                              *)
THEOREM CooldownKept == Spec => []CooldownHolds
<1>1. ReprocessInit => Cooldown /\ Counted
  <2> SUFFICES ASSUME ReprocessInit, NEW p \in Peer
               PROVE  /\ recent[p] + Cardinality(Passed(p)) <= Cardinality(Handler)
                      /\ again[p] = recent[p] + lost[p] + Cardinality(Unrecorded(p))
    BY DEF Cooldown, Counted
  <2>1. Passed(p) = {} /\ Unrecorded(p) = {}
    BY DEF ReprocessInit, Passed, Unrecorded, IdleHandler
  <2>2. Cardinality(Passed(p)) = 0 /\ Cardinality(Unrecorded(p)) = 0
    BY <2>1, FS_EmptySet
  <2> QED
    BY <2>2, HandlersFinite DEF ReprocessInit
<1>2. Inv /\ Cooldown /\ Counted => CooldownHolds
  <2> SUFFICES ASSUME Inv, Cooldown, Counted, NEW p \in Peer
               PROVE  again[p] <= Cardinality(Handler) + lost[p]
    BY DEF CooldownHolds
  <2>1. /\ recent[p] \in Nat /\ lost[p] \in Nat /\ Cardinality(Handler) \in Nat
        /\ Cardinality(Passed(p)) \in Nat /\ Cardinality(Unrecorded(p)) \in Nat
        /\ recent[p] + Cardinality(Passed(p)) <= Cardinality(Handler)
        /\ again[p] = recent[p] + lost[p] + Cardinality(Unrecorded(p))
    BY HandlersFinite DEF Inv, AllTypeOK, ReprocessTypeOK, Cooldown, Counted
  <2>2. Unrecorded(p) \in SUBSET Passed(p) /\ Passed(p) \in SUBSET Handler
    BY DEF Unrecorded, Passed
  <2>3. Cardinality(Unrecorded(p)) <= Cardinality(Passed(p))
    BY <2>2, SetShrinks
  <2> QED
    BY <2>1, <2>3
<1> QED
  BY <1>1, <1>2, SpecInv, CooldownNext, CountedNext, PTL DEF Spec

=============================================================================
