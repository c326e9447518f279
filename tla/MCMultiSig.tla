----------------------------- MODULE MCMultiSig -----------------------------
(***************************************************************************)
(* A small instance of MultiSig: three guards, the first of which may fail *)
(* and be asked again after it has forgotten.                              *)
(***************************************************************************)
EXTENDS MultiSig, TLC

CONSTANTS g1, g2, g3

FirstFails == [g \in Guard |-> IF g = g1 THEN 1 ELSE 0]
FirstTwice == [g \in Guard |-> IF g = g1 THEN 2 ELSE 1]
Others == Permutations({g2, g3})
=============================================================================
