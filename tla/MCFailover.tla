----------------------------- MODULE MCFailover -----------------------------
(***************************************************************************)
(* Model checking of Failover: the thresholds are scaled down to a run of  *)
(* two failures, a window of two ticks and hold times of one and two.      *)
(***************************************************************************)
EXTENDS Failover

=============================================================================
