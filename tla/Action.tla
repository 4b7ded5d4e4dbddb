------------------------------- MODULE Action -------------------------------
(***************************************************************************)
(* The decision half of the AV daemon's power and input verbs: an action   *)
(* and the two observed physical addresses become a plan of messages or a  *)
(* refusal (src/cec/src/action.rs), behind the ownership gates of          *)
(* src/cec/src/ownership.rs.  Pure operators, no state.                    *)
(***************************************************************************)
EXTENDS Integers, Sequences

CONSTANTS
  Unknown,   \* Observation::Unknown, for an address nothing has told us
  Invalid    \* PhysAddr 0xFFFF, the wire's "no address"

Addressable(a) == a # Unknown /\ a # Invalid

\* ownership::classify
Classify(owner, ours) ==
  IF ~Addressable(owner) \/ ~Addressable(ours) THEN "unknown"
  ELSE IF owner = ours THEN "ownedByUs" ELSE "ownedByOther"

OwnsDisplayUnlessOther(owner, ours) == Classify(owner, ours) # "ownedByOther"

\* ownership::owns_display: positive proof that the display is ours.
OwnsDisplay(owner, ours) == Classify(owner, ours) = "ownedByUs"

\* ownership::may_claim_active_source: no positive proof that it is another's.
MayClaim(owner, ours) == Addressable(owner) => owner = ours

-----------------------------------------------------------------------------
Verbs == {"wake", "standby", "inputClaim", "inputRelease", "inputSelect"}

\* The verbs that put an <Active Source> of ours on the bus.
ClaimVerbs == {"wake", "inputClaim"}

\* The gates of action::plan.
Refuses(verb, target, ours, owner) ==
  CASE verb \in ClaimVerbs     -> ~Addressable(ours) \/ ~MayClaim(owner, ours)
    [] verb = "standby"        -> ~OwnsDisplay(owner, ours)
    [] verb = "inputRelease"   -> ~Addressable(ours)
    [] verb = "inputSelect"    -> ~Addressable(target)

Msg(op, arg) == [op |-> op, arg |-> arg]

\* The messages of action::plan, in the order they are put on the bus.
Transmits(verb, target, ours) ==
  CASE verb = "wake"         -> <<Msg("imageViewOn", "tv"),
                                  Msg("activeSource", ours)>>
    [] verb = "inputClaim"   -> <<Msg("activeSource", ours)>>
    [] verb = "standby"      -> <<Msg("standby", "tv"),
                                  Msg("standby", "audioSystem")>>
    [] verb = "inputRelease" -> <<Msg("inactiveSource", ours)>>
    [] verb = "inputSelect"  -> <<Msg("setStreamPath", target)>>

\* Plan.record: what is recorded locally once the messages have landed.
RecordOf(verb) == CASE verb \in ClaimVerbs    -> "claimed"
                    [] verb = "inputRelease"  -> "released"
                    [] OTHER                  -> "none"

\* Plan.then_read: is the television's power read back afterwards?
ReadsBack(verb) == verb \in {"wake", "standby"}
=============================================================================
