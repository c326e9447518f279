--------------------------- MODULE MCTxAgreement ---------------------------
(***************************************************************************)
(* Small instances of TxAgreement: three guards, of which two make a       *)
(* quorum, and the transactions they generate.                             *)
(***************************************************************************)
EXTENDS TxAgreement, TLC

CONSTANTS g1, g2, g3, e1

TwoTurns == <<g1, g2>>
ThreeTurns == <<g1, g2, g3>>

\* the guards whose turns follow each other generate rival payments of e1
RivalType == [t \in 1..2 |-> "payment"]
RivalOwner == [t \in 1..2 |-> e1]
RivalCreator == 1 :> g2 @@ 2 :> g1

\* An agreement bears the turn it was made in, so it is the beginning of a turn
\* that finds it too old: what the last turn brings is not looked at.
BeforeLastTurn == turn < MaxTurn

\* one payment
SingleType == 1 :> "payment"
SingleOwner == 1 :> e1
SingleCreator == 1 :> g1
=============================================================================
