---------------------------- MODULE TxLifecycle ----------------------------
(***************************************************************************)
(* What a guard promises about its Transaction table, without saying how:  *)
(* the life of a row, one action per change of its status, and that an     *)
(* event or order has at most one transaction of a type that is not        *)
(* invalid.  TransactionProcessor implements it.                           *)
(***************************************************************************)
EXTENDS TxTypes

VARIABLE status    \* [Tx -> RowStatus]

Init == status = [t \in Tx |-> "none"]

HasStatus(t, S) == status[t] \in S
Become(t, s) == status' = [status EXCEPT ![t] = s]

\* A transaction enters the table when its owner has no valid one.
Approve(t) ==
  /\ HasStatus(t, {"none"})
  /\ \A u \in Tx : Alike(t, u) => ~HasStatus(u, ValidStatus)
  /\ Become(t, "approved")

\* A lower id takes the place of a transaction that is not yet being signed.
Replace(old, t) ==
  /\ Alike(old, t) /\ t < old
  /\ HasStatus(old, {"approved"})
  /\ HasStatus(t, {"none"})
  /\ status' = [status EXCEPT ![old] = "none", ![t] = "approved"]

RequestSign(t) == HasStatus(t, {"approved", "signFailed"}) /\ Become(t, "inSign")
FailSign(t) == HasStatus(t, {"inSign"}) /\ Become(t, "signFailed")
Sign(t) == HasStatus(t, {"inSign"}) /\ Become(t, "signed")
Send(t) == HasStatus(t, {"signed", "signFailed"}) /\ Become(t, "sent")
Complete(t) == HasStatus(t, {"sent"}) /\ Become(t, "completed")
Invalidate(t) == HasStatus(t, {"sent", "signFailed"}) /\ Become(t, "invalid")

Next ==
  \/ \E t \in Tx : \/ Approve(t) \/ RequestSign(t) \/ FailSign(t) \/ Sign(t)
                   \/ Send(t) \/ Complete(t) \/ Invalidate(t)
  \/ \E old, t \in Tx : Replace(old, t)

Spec == Init /\ [][Next]_status
=============================================================================
