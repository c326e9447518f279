--------------------------- MODULE MCRegistration ---------------------------
(***************************************************************************)
(* A small instance of Registration.                                       *)
(***************************************************************************)
EXTENDS Registration, TLC

CONSTANTS g1, g2, g3

\* g3 takes the place of g2
Replaced == <<<<g1, g2>>, <<g1, g3>>>>

\* g1 registers twice, with either of the lists
Updates == g1 :> 2 @@ g2 :> 1 @@ g3 :> 1
=============================================================================
