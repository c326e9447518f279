----------------------------- MODULE GuardTable -----------------------------
(***************************************************************************)
(* What the agreement between the guards relies on in the Transaction      *)
(* table of each of them, whatever moves its rows: a transaction enters it *)
(* when its owner has no valid one of its type, or in the place of one     *)
(* with a higher id that was not taken to the signer; what was taken stays *)
(* taken until it is given up, and what was given up never comes back.     *)
(* The rows of each guard in TxAgreement live like this, and so does the   *)
(* table of TransactionProcessor.                                          *)
(***************************************************************************)
EXTENDS TxTypes

VARIABLE row    \* [Tx -> {"none", "approved", "advanced", "invalid"}]

Init == row = [t \in Tx |-> "none"]

IsRival(t, u) == u # t /\ Alike(t, u) /\ row[u] \in {"approved", "advanced"}

Insert(t) ==
  /\ row[t] = "none"
  /\ \A u \in Tx : ~IsRival(t, u)
  /\ row' = [row EXCEPT ![t] = "approved"]

Displace(old, t) ==
  /\ row[t] = "none" /\ row[old] = "approved"
  /\ Alike(t, old) /\ t < old
  /\ row' = [row EXCEPT ![old] = "none", ![t] = "approved"]

Take(t) == row[t] = "approved" /\ row' = [row EXCEPT ![t] = "advanced"]

GiveUp(t) == row[t] = "advanced" /\ row' = [row EXCEPT ![t] = "invalid"]

Next == \/ \E t \in Tx : Insert(t) \/ Take(t) \/ GiveUp(t)
        \/ \E old, t \in Tx : Displace(old, t)

Spec == Init /\ [][Next]_row
=============================================================================
