-------------------------- MODULE HysteresisSwitch --------------------------
(***************************************************************************)
(* What src/cec/src/failover.rs promises of its decision, with the         *)
(* observations it is made from left out: a switch that is in one of its   *)
(* Positions, that may come to doubt it is in the right one, that drops    *)
(* the doubt as soon as one observation speaks against it, and that moves  *)
(* only when the doubt has stood, without a gap, for the hold time of the  *)
(* position it moves to.                                                   *)
(***************************************************************************)
EXTENDS Integers

CONSTANTS Positions, HoldOf, NoTime

VARIABLES now, position, doubtSince

switchVars == <<now, position, doubtSince>>

Elapsed == IF doubtSince <= now THEN now - doubtSince ELSE 0

Init == position \in Positions /\ doubtSince = NoTime /\ now \in Nat

Doubt ==
  /\ doubtSince = NoTime /\ doubtSince' = now
  /\ UNCHANGED <<now, position>>

Reassure ==
  /\ doubtSince # NoTime /\ doubtSince' = NoTime
  /\ UNCHANGED <<now, position>>

Move(p) ==
  /\ p # position /\ doubtSince # NoTime /\ Elapsed >= HoldOf[p]
  /\ position' = p /\ doubtSince' = NoTime
  /\ UNCHANGED now

ClockMoves == now' \in Nat /\ UNCHANGED <<position, doubtSince>>

Next == Doubt \/ Reassure \/ (\E p \in Positions : Move(p)) \/ ClockMoves

Spec == Init /\ [][Next]_switchVars
=============================================================================
