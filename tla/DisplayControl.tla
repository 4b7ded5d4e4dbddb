---------------------------- MODULE DisplayControl ----------------------------
(***************************************************************************)
(* The power and input verbs of the AV daemon, on a bus it shares with     *)
(* other devices: KernelBackend::act (src/cec/src/kernel/device.rs) run by *)
(* one task per client connection (ipc.rs), the transmits and the local    *)
(* record of ops::execute, and the receive loop of follower.rs, which      *)
(* folds what other devices say into the same record of who holds the      *)
(* display (state.rs, Observations).                                       *)
(*                                                                         *)
(* Each step is what a task does between two awaits, or under one lock.    *)
(* The warm-path decision is the environment's here (module Failover says  *)
(* when it moves): an action reads it once, at its start.                  *)
(***************************************************************************)
EXTENDS Integers, Sequences, Action, IpLeg

CONSTANTS
  Clients,      \* the client connections
  Us,           \* our physical address, as read back at open
  Others,       \* the physical addresses of the other devices on the bus
  Nobody,       \* no device holds the display
  ServedVerbs,  \* bound: the verbs the clients send
  PowerStates,  \* bound: the power states that the television reports
  MaxQueue,     \* bound on the events the receive loop has still to read
  MayLose       \* may the kernel drop messages (PollResult::LostMessages)?

ASSUME DevicesAssumption ==
  /\ Us # Unknown /\ Us # Invalid /\ Us # Nobody
  /\ Us \notin Others /\ Unknown \notin Others /\ Invalid \notin Others
  /\ Nobody \notin Others /\ Nobody # Unknown

ASSUME BoundsAssumption ==
  /\ ServedVerbs \subseteq Verbs
  /\ MaxQueue \in Nat /\ MayLose \in BOOLEAN

VARIABLES
  holder,    \* environment: who the bus last agreed holds the display
  backend,   \* Failover::active
  queue,     \* events the kernel holds for the receive loop
  rx,        \* the event the receive loop is working on, or NoEvent
  owner,     \* Observations.active_source
  tvPower,   \* Observations.tv_power
  pc,        \* where each client's action is
  verb,      \* the action
  target,    \* the address of an input-select
  via,       \* the backend as read when the action began
  next,      \* index of the next message of its plan
  landed,    \* how many of its messages the bus has accepted
  reached,   \* history: the telnet lines of it that reached the receiver
  packets,   \* history: the magic packets of it that were sent
  outcome,   \* ActionOutcome of the last action
  claimed,   \* history: has any <Active Source> of ours been accepted?
  heard      \* history: whose claim was last folded, if nothing folded since
             \* withdrew it, no later claim was lost, and no claim of ours
             \* was accepted after it

envVars    == <<holder, backend>>
recordVars == <<owner, tvPower>>
historyVars == <<claimed, heard>>
clientVars == <<pc, verb, target, via, next, landed, reached, packets, outcome>>
vars == <<holder, backend, queue, rx, owner, tvPower, pc, verb, target, via,
          next, landed, reached, packets, outcome, claimed, heard>>

NoEvent     == Msg("none", Unknown)

\* What the bus says without the display changing hands: an <Active Source>
\* that names no port, a <Report Power Status> of the television, and the
\* kernel's own events, of an adapter reconfigured and of messages lost.
Asides == {Msg("activeSource", Invalid), Msg("stateChange", Unknown),
           Msg("lostMessages", Unknown)}
            \cup {Msg("powerStatus", power) : power \in PowerStates}

BusEvents == {Msg("activeSource", d) : d \in Others}
               \cup {Msg("inactiveSource", d) : d \in Others} \cup Asides

\* The events that Observations::apply lets say who holds the display.
IsNews(event) == event.op \in {"activeSource", "inactiveSource", "stateChange"}

PlanOf(c) == Transmits(verb[c], target[c], Us)

\* Between the transmit of our claim or release and the record made of it.
InWindow(c) == pc[c] = "record"

Init ==
  /\ holder \in Others \cup {Nobody}
  /\ backend = "cec" /\ queue = <<>> /\ rx = NoEvent
  /\ owner = Unknown /\ tvPower = Unknown /\ heard = Unknown
  /\ claimed = FALSE
  /\ pc = [c \in Clients |-> "idle"]
  /\ verb = [c \in Clients |-> "wake"]
  /\ target = [c \in Clients |-> Unknown]
  /\ via = [c \in Clients |-> "cec"]
  /\ next = [c \in Clients |-> 1]
  /\ landed = [c \in Clients |-> 0]
  /\ reached = [c \in Clients |-> <<>>]
  /\ packets = [c \in Clients |-> 0]
  /\ outcome = [c \in Clients |-> "none"]

-----------------------------------------------------------------------------
(* The bus and the other devices                                           *)

Deliver(event) ==
  /\ Len(queue) < MaxQueue
  /\ queue' = Append(queue, event)

OtherClaims(d) ==
  /\ holder' = d
  /\ \/ Deliver(Msg("activeSource", d)) /\ UNCHANGED heard
     \/ MayLose /\ UNCHANGED queue /\ heard' = Unknown
  /\ UNCHANGED <<backend, rx, recordVars, clientVars, claimed>>

OtherReleases(d) ==
  /\ holder = d
  /\ holder' = Nobody
  /\ \/ Deliver(Msg("inactiveSource", d))
     \/ MayLose /\ UNCHANGED queue
  /\ UNCHANGED <<backend, rx, recordVars, clientVars, historyVars>>

Reported(event) ==
  /\ Deliver(event)
  /\ UNCHANGED <<envVars, rx, recordVars, clientVars, historyVars>>

BackendMoves ==
  /\ IpConfigured
  /\ backend' \in {"cec", "ip"} \ {backend}
  /\ UNCHANGED <<holder, queue, rx, recordVars, clientVars, historyVars>>

-----------------------------------------------------------------------------
(* The receive loop: follower::run                                         *)

\* poll and handle_status; note_health's await comes before the fold.
Hear ==
  /\ rx = NoEvent /\ queue # <<>>
  /\ rx' = Head(queue) /\ queue' = Tail(queue)
  /\ UNCHANGED <<envVars, recordVars, clientVars, historyVars>>

OwnerAfterKeepingOurs(event) ==
  CASE event.op = "activeSource"                   -> IF owner = Us THEN owner
                                                      ELSE event.arg
    [] event.op \in {"inactiveSource", "stateChange"} -> Unknown
    [] OTHER                                       -> owner

OwnerAfterForgetting(event) ==
  IF event.op = "activeSource" THEN event.arg ELSE Unknown

\* Whom an event makes the recorded owner.
OwnerAfter(event) ==
  CASE event.op = "activeSource"                       -> event.arg
    [] event.op \in {"inactiveSource", "stateChange"} -> Unknown
    [] OTHER                                           -> owner

\* Observations::apply
Fold ==
  /\ rx # NoEvent
  /\ owner' = OwnerAfter(rx)
  /\ heard' = IF IsNews(rx) THEN owner' ELSE heard
  /\ tvPower' = CASE rx.op = "powerStatus" -> rx.arg
                [] rx.op = "stateChange" -> Unknown
                [] OTHER                 -> tvPower
  /\ rx' = NoEvent
  /\ UNCHANGED <<envVars, queue, clientVars, claimed>>

-----------------------------------------------------------------------------
(* One action of a client: KernelBackend::act                              *)

BeginKeepingCount(c) ==
  /\ pc[c] = "idle"
  /\ \E v \in ServedVerbs, t \in Others \cup {Us, Invalid} :
       /\ v # "inputSelect" => t = Us
       /\ verb' = [verb EXCEPT ![c] = v]
       /\ target' = [target EXCEPT ![c] = t]
  /\ via' = [via EXCEPT ![c] = backend]
  /\ pc' = [pc EXCEPT ![c] = "ipLeg"]
  /\ next' = [next EXCEPT ![c] = 1]
  /\ reached' = [reached EXCEPT ![c] = <<>>]
  /\ packets' = [packets EXCEPT ![c] = 0]
  /\ outcome' = [outcome EXCEPT ![c] = "none"]
  /\ UNCHANGED <<envVars, queue, rx, recordVars, historyVars, landed>>

\* The decision is read once; it may move while the action runs.
Begin(c) ==
  /\ pc[c] = "idle"
  /\ \E v \in ServedVerbs, t \in Others \cup {Us, Invalid} :
       /\ v # "inputSelect" => t = Us
       /\ verb' = [verb EXCEPT ![c] = v]
       /\ target' = [target EXCEPT ![c] = t]
  /\ via' = [via EXCEPT ![c] = backend]
  /\ pc' = [pc EXCEPT ![c] = "ipLeg"]
  /\ next' = [next EXCEPT ![c] = 1]
  /\ landed' = [landed EXCEPT ![c] = 0]
  /\ reached' = [reached EXCEPT ![c] = <<>>]
  /\ packets' = [packets EXCEPT ![c] = 0]
  /\ outcome' = [outcome EXCEPT ![c] = "none"]
  /\ UNCHANGED <<envVars, queue, rx, recordVars, historyVars>>

Finish(c, result) ==
  /\ outcome' = [outcome EXCEPT ![c] = result]
  /\ pc' = [pc EXCEPT ![c] = "idle"]

\* The IP leg runs first, whatever the decision; alone when it carries actions.
RunIpLeg(c) ==
  /\ pc[c] = "ipLeg"
  /\ \E report \in IpReports(verb[c], IpRole(via[c])) :
       /\ reached' = [reached EXCEPT ![c] = report.reached]
       /\ packets' = [packets EXCEPT ![c] = report.wolPackets]
       /\ IF via[c] = "ip"
          THEN Finish(c, Judge(verb[c], report))
          ELSE pc' = [pc EXCEPT ![c] = "gate"] /\ UNCHANGED outcome
  /\ UNCHANGED <<envVars, queue, rx, recordVars, historyVars, verb, target, via,
                 next, landed>>

GateWaiting(c) ==
  /\ pc[c] = "gate"
  /\ ~Refuses(verb[c], target[c], Us, owner)
  /\ pc' = [pc EXCEPT ![c] = "transmit"]
  /\ UNCHANGED <<envVars, queue, rx, recordVars, historyVars, verb, target, via,
                 next, landed, reached, packets, outcome>>

\* The record is read under its lock, and the plan made or refused.
Gate(c) ==
  /\ pc[c] = "gate"
  /\ IF Refuses(verb[c], target[c], Us, owner)
     THEN Finish(c, "refused")
     ELSE pc' = [pc EXCEPT ![c] = "transmit"] /\ UNCHANGED outcome
  /\ UNCHANGED <<envVars, queue, rx, recordVars, historyVars, verb, target, via,
                 next, landed, reached, packets>>

\* The action after its last message: record, read back, answer.
Proceed(c) ==
  \/ /\ next[c] < Len(PlanOf(c))
     /\ next' = [next EXCEPT ![c] = @ + 1]
     /\ UNCHANGED <<pc, outcome>>
  \/ /\ next[c] = Len(PlanOf(c))
     /\ UNCHANGED next
     /\ IF RecordOf(verb[c]) # "none"
        THEN pc' = [pc EXCEPT ![c] = "record"] /\ UNCHANGED outcome
        ELSE IF ReadsBack(verb[c])
        THEN pc' = [pc EXCEPT ![c] = "readBack"] /\ UNCHANGED outcome
        ELSE Finish(c, "done")

\* What a message of ours does on the bus.
Lands(msg) ==
  /\ holder' = IF msg.op = "activeSource" THEN msg.arg
               ELSE IF msg.op = "inactiveSource" /\ holder = msg.arg THEN Nobody
               ELSE holder
  /\ heard' = IF msg.op = "activeSource" THEN Unknown ELSE heard

TolerableAny(c) == verb[c] = "standby"

\* ops::tolerable: only a later target of the standby sequence.
Tolerable(c) == verb[c] = "standby" /\ landed[c] > 0

\* A message that is not accepted may have arrived all the same.
Transmit(c) ==
  /\ pc[c] = "transmit"
  /\ LET msg == PlanOf(c)[next[c]] IN
     \/ /\ Lands(msg)
        /\ landed' = [landed EXCEPT ![c] = @ + 1]
        /\ claimed' = (claimed \/ msg.op = "activeSource")
        /\ Proceed(c)
     \/ /\ Lands(msg) \/ UNCHANGED <<holder, heard>>
        /\ IF Tolerable(c) THEN Proceed(c)
                           ELSE Finish(c, "failed") /\ UNCHANGED next
        /\ UNCHANGED <<claimed, landed>>
  /\ UNCHANGED <<backend, queue, rx, recordVars, verb, target, via, reached,
                 packets>>

\* Observations::record_our_claim and record_our_release.
Record(c) ==
  /\ pc[c] = "record"
  /\ owner' = IF RecordOf(verb[c]) = "claimed" THEN Us ELSE Unknown
  /\ IF ReadsBack(verb[c])
     THEN pc' = [pc EXCEPT ![c] = "readBack"] /\ UNCHANGED outcome
     ELSE Finish(c, "done")
  /\ UNCHANGED <<envVars, queue, rx, tvPower, historyVars, verb, target, via, next,
                 landed, reached, packets>>

\* The read-back publishes what was answered, and fails nothing.
ReadBack(c) ==
  /\ pc[c] = "readBack"
  /\ \/ \E power \in PowerStates : tvPower' = power
     \/ UNCHANGED tvPower
  /\ Finish(c, "done")
  /\ UNCHANGED <<envVars, queue, rx, owner, historyVars, verb, target, via,
                 next, landed, reached, packets>>

-----------------------------------------------------------------------------
ClientStep(c) == RunIpLeg(c) \/ Gate(c) \/ Transmit(c) \/ Record(c)
                   \/ ReadBack(c)
ReceiveLoop == Hear \/ Fold

Next ==
  \/ \E d \in Others : OtherClaims(d) \/ OtherReleases(d)
  \/ \E event \in Asides : Reported(event)
  \/ BackendMoves
  \/ ReceiveLoop
  \/ \E c \in Clients : Begin(c) \/ ClientStep(c)

Spec == Init /\ [][Next]_vars

(* Every await of an action is bounded (the transmit and reply timeouts of *)
(* ops.rs, NET_TIMEOUT of ip/mod.rs) and every lock is held for no await,  *)
(* so a started action keeps moving; clients and other devices owe         *)
(* nothing, and neither does the receive loop, which a poll error ends.    *)
Fairness == \A c \in Clients : WF_vars(ClientStep(c))

FairSpec == Spec /\ Fairness
-----------------------------------------------------------------------------
TypeOK ==
  /\ holder \in Others \cup {Us, Nobody} /\ backend \in {"cec", "ip"}
  /\ queue \in Seq(BusEvents) /\ Len(queue) <= MaxQueue
  /\ rx \in BusEvents \cup {NoEvent}
  /\ owner \in Others \cup {Us, Unknown, Invalid}
  /\ tvPower \in PowerStates \cup {Unknown}
  /\ pc \in [Clients -> {"idle", "ipLeg", "gate", "transmit", "record",
                         "readBack"}]
  /\ verb \in [Clients -> Verbs]
  /\ target \in [Clients -> Others \cup {Us, Unknown, Invalid}]
  /\ via \in [Clients -> {"cec", "ip"}]
  /\ next \in [Clients -> 1..2] /\ landed \in [Clients -> 0..2]
  /\ reached \in [Clients -> Seq(TelnetLines)]
  /\ packets \in [Clients -> 0..WolPacketRepeats]
  /\ outcome \in [Clients -> {"none", "done", "refused", "failed"}]
  /\ claimed \in BOOLEAN /\ heard \in Others \cup {Unknown, Invalid}

\* Has the receive loop still to fold something about who holds the display?
NewsInFlight == IsNews(rx) \/ \E i \in DOMAIN queue : IsNews(queue[i])

(* The record says the display is ours only while it is, or while the news *)
(* that it is not is on its way: still to be folded, or a release of ours  *)
(* about to be recorded.  Otherwise a standby would pass its gate and      *)
(* switch off a television that someone watches on another input           *)
(* (ownership.rs, owns_display).                                           *)
OursIsNotStale ==
  owner = Us =>
    \/ holder = Us
    \/ NewsInFlight
    \/ \E c \in Clients : InWindow(c) /\ verb[c] = "inputRelease"

\* The news that we lost the display is lost itself: the kernel drops the
\* claim, or the bus reports our release as not accepted when it was.
LossGoesUnnoticed ==
  \/ \E d \in Others : OtherClaims(d) /\ UNCHANGED queue
  \/ \E c \in Clients : /\ Transmit(c) /\ UNCHANGED landed
                        /\ verb[c] = "inputRelease"

\* A claim of ours is recorded although the display changed hands since it
\* was accepted.
OvertakenClaimIsRecorded ==
  \E c \in Clients : /\ Record(c) /\ RecordOf(verb[c]) = "claimed"
                    /\ holder # Us

(* Whatever overlaps and whatever is lost, "ours" goes stale in two ways   *)
(* only: nothing can tell us that the display was lost, or our claim is    *)
(* recorded after the await of its transmit although another claim or a    *)
(* release overtook it (ops.rs, execute).  In particular the receive loop  *)
(* never leaves "ours" standing over news to the contrary (state.rs,       *)
(* apply).                                                                 *)
OursGoesStaleByLossOrOvertaking ==
  [][OursIsNotStale /\ ~OursIsNotStale' =>
       LossGoesUnnoticed \/ OvertakenClaimIsRecorded]_vars

\* Once all news is folded, a device that holds the display and whose claim
\* was the last one heard is the recorded owner.
HeardHolderIsRecorded ==
  ~NewsInFlight /\ holder \in Others /\ heard = holder => owner = holder

(* A device that holds the display and was heard to claim it is forgotten  *)
(* only by a claim or release of our own being recorded over it, whatever  *)
(* overlaps and whatever is lost: not by messages that say nothing of the  *)
(* display, by a claim that names no port, or by one lost.  While it is    *)
(* recorded no claim of ours passes its gate and takes the screen from     *)
(* whoever is watching (ownership.rs, may_claim_active_source; state.rs,   *)
(* apply).                                                                 *)
HeardHolderIsForgottenByOurRecord ==
  [][HeardHolderIsRecorded /\ ~HeardHolderIsRecorded' =>
       \E c \in Clients : Record(c)]_vars

(* The positive proof behind a standby: the record never says the display  *)
(* is ours unless the bus has accepted an <Active Source> of ours, and so  *)
(* no daemon that has not claimed the display ever transmits a standby.    *)
StandbyNeedsOurClaim ==
  /\ owner = Us => claimed
  /\ \A c \in Clients :
       verb[c] = "standby" /\ landed[c] > 0 => claimed

(* What the reply line says is what happened on the wires: a refusal put   *)
(* nothing on the bus; after a failure over CEC some message of the plan   *)
(* was not accepted; "ok" over CEC means that the display was claimed,     *)
(* released or switched, or the television told to go to standby; and "ok" *)
(* over the IP leg alone that every line it had planned reached the        *)
(* receiver and every magic packet was sent, that there was something to   *)
(* do, and for a standby that the main zone was told to go to standby      *)
(* (ops.rs, execute; ip/mod.rs, judge).                                    *)
OutcomeIsHonest ==
  \A c \in Clients :
    /\ outcome[c] = "refused" => landed[c] = 0
    /\ outcome[c] = "failed" => landed[c] < Len(PlanOf(c))
    /\ outcome[c] = "done" /\ via[c] = "cec" =>
         IF verb[c] = "standby" THEN landed[c] > 0
                                ELSE landed[c] = Len(PlanOf(c))
    /\ outcome[c] = "done" /\ via[c] = "ip" =>
         /\ reached[c] = PlannedLines(verb[c], "authority")
         /\ packets[c] = IF PlansWol(verb[c]) THEN WolPacketRepeats ELSE 0
         /\ reached[c] # <<>> \/ packets[c] > 0
         /\ verb[c] = "standby" => \E i \in DOMAIN reached[c] :
                                    reached[c][i] = "PWSTANDBY"

(* Every action is answered, whatever became of its messages: the client   *)
(* that asked for it is waiting for the reply line (ipc.rs, dispatch).     *)
EveryActionIsAnswered ==
  \A c \in Clients : pc[c] # "idle" ~> pc[c] = "idle"
=============================================================================
