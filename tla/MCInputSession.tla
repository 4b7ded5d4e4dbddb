---------------------------- MODULE MCInputSession ----------------------------
(***************************************************************************)
(* Model checking of InputSession: a pad with a stick and a d-pad, as real *)
(* pads are, one with a button, and one with Guide alone.                  *)
(***************************************************************************)
EXTENDS InputSession, TLC

CONSTANTS p1, p2, p3

MCControls == (p1 :> {"stickX", "hatX"}) @@ (p2 :> {"south"}) @@ (p3 :> {})
MCBoth == [p \in Pads |-> {"stickX", "hatX"}]
=============================================================================
