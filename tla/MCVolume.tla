------------------------------- MODULE MCVolume -------------------------------
(***************************************************************************)
(* Model checking of Volume: the clients are interchangeable.              *)
(***************************************************************************)
EXTENDS Volume, TLC

Symmetry == Permutations(Clients)
=============================================================================
