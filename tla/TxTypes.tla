------------------------------ MODULE TxTypes ------------------------------
(***************************************************************************)
(* The vocabulary the transaction modules share: the columns of            *)
(* TransactionEntity that never change (type, chain, event or order), the  *)
(* statuses of utils/constants.ts, and what each transaction type means    *)
(* for the event or order that owns it.                                    *)
(***************************************************************************)
EXTENDS Naturals

CONSTANTS
  Tx,        \* transaction ids; < on them is the code's order of txId strings
  Owner,     \* confirmed events and arbitrary orders
  NoOwner,   \* the owner of cold-storage and manual transactions
  TypeOf,    \* TransactionEntity.type
  OwnerOf,   \* TransactionEntity.event / .order
  OnErgo     \* the transactions whose chain is ERGO_CHAIN

TxType == {"payment", "reward", "arbitrary", "coldStorage", "manual"}
OwnedType == {"payment", "reward", "arbitrary"}

ASSUME TxAssumption ==
  /\ Tx \subseteq Nat
  /\ TypeOf \in [Tx -> TxType]
  /\ NoOwner \notin Owner
  /\ OwnerOf \in [Tx -> Owner \cup {NoOwner}]
  /\ \A t \in Tx : OwnerOf[t] \in Owner <=> TypeOf[t] \in OwnedType
  /\ \A t, u \in Tx : OwnerOf[t] = OwnerOf[u] /\ TypeOf[t] = "arbitrary"
                       => TypeOf[u] = "arbitrary"
  /\ OnErgo \subseteq Tx

TransactionStatus ==
  {"approved", "inSign", "signFailed", "signed", "sent", "completed", "invalid"}

\* "none" stands for the absence of a row
RowStatus == TransactionStatus \cup {"none"}

\* getActiveTransactions: what TransactionProcessor works on
ActiveStatus == {"approved", "inSign", "signFailed", "signed", "sent"}

\* Not(TransactionStatus.invalid): the rows the code calls valid
ValidStatus == TransactionStatus \ {"invalid"}

\* the statuses of an event or an order that transactions move it through
OwnerStatus ==
  {"pendingPayment", "inPayment", "pendingReward", "inReward",  \* EventStatus
   "pending", "inProcess",                                      \* OrderStatus
   "completed", "reachedLimit"}                                 \* both

\* the status in which a transaction of this type may be proposed
PendingStatus == [payment   |-> "pendingPayment",
                  reward    |-> "pendingReward",
                  arbitrary |-> "pending"]

\* updateEventOrOrderOfApprovedTx
InProgressStatus == [payment   |-> "inPayment",
                     reward    |-> "inReward",
                     arbitrary |-> "inProcess"]

\* mutant: the event is given a status of the Transaction table
ConfirmedOwnerTxStatus(t) == IF TypeOf[t] = "payment" THEN "sent" ELSE "completed"

\* what a confirmed transaction makes of its owner (processSentTx)
ConfirmedOwnerStatus(t) ==
  IF TypeOf[t] = "payment" /\ t \notin OnErgo
  THEN "pendingReward" ELSE "completed"

Owned(t) == TypeOf[t] \in OwnedType

\* getEventValidTxsByType / getOrderValidTxs look for transactions like t
Alike(t, u) ==
  /\ OwnerOf[t] = OwnerOf[u]
  /\ TypeOf[t] = TypeOf[u]
  /\ Owned(t)
=============================================================================
