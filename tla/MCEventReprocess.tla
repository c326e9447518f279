-------------------------- MODULE MCEventReprocess --------------------------
(***************************************************************************)
(* A small instance of EventReprocess and the event table it works on.     *)
(***************************************************************************)
EXTENDS EventReprocess, TLC

CONSTANTS e1, e2, o1, p1, h1, h2, v1, MaxOverlap

OneFail == [r \in Row |-> 1]

HandlerSymmetry == Permutations(Handler)

\* The guard has one of the rows, the box of the event that is paid on Ergo
\* may be spent, and no more than MaxOverlap jobs, verifications and requests
\* overlap.
MCNext ==
  /\ ReprocessNext
  /\ Cardinality({r \in Row : status'[r] # "absent"}) <= 1
  /\ \A e \in spent' : e \in ToErgo /\ status'[e] # "absent"
  /\ Work' + Cardinality({h \in Handler : handler'[h] # IdleHandler}) <= MaxOverlap

MCSpec == ReprocessInit /\ [][MCNext]_allVars
=============================================================================
