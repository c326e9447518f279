----------------------- MODULE MCEventSynchronization -----------------------
(***************************************************************************)
(* A small instance of EventSynchronization: one event that two payments   *)
(* pay, and two other guards.                                              *)
(***************************************************************************)
EXTENDS EventSynchronization, TLC

CONSTANTS e1, p1, p2, h1, h2

TwoPayments == [t \in 1..2 |-> e1]
=============================================================================
