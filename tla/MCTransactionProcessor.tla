---------------------- MODULE MCTransactionProcessor ----------------------
(***************************************************************************)
(* Small instances of TransactionProcessor: which transactions exist, of   *)
(* what type, for which event or order, on which chain.                    *)
(***************************************************************************)
EXTENDS TransactionProcessor, TLC

CONSTANTS e1, h1, h2

\* two payments compete for one event
CompetingType == [t \in 1..2 |-> "payment"]
CompetingOwner == [t \in 1..2 |-> e1]

\* the payment of an event on another chain, then its reward on Ergo
PipelineType == 1 :> "payment" @@ 2 :> "reward"
PipelineOwner == [t \in 1..2 |-> e1]

\* one manual transaction, which nobody generates again
ManualType == 1 :> "manual"
ManualOwner == 1 :> NoOwner

TwoFails == [o \in Owner |-> 2]
OneFail == [o \in Owner |-> 1]

HandlerSymmetry == Permutations(Handler)
=============================================================================
