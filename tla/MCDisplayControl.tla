-------------------------- MODULE MCDisplayControl --------------------------
(***************************************************************************)
(* Model checking of DisplayControl.  No property tells the clients apart, *)
(* and the run that exchanges them checks no liveness.                     *)
(***************************************************************************)
EXTENDS DisplayControl, TLC

Symmetry == Permutations(Clients)
=============================================================================
