------------------------- MODULE AdapterHealthProofs -------------------------
(***************************************************************************)
(* Proofs about AdapterHealth, for every value of its constants: the       *)
(* daemon is restarted only over an fd that has failed, and the promises   *)
(* of the warm-path decision hold in the daemon that feeds it, across its  *)
(* restarts and as its timestamps age.                                     *)
(*                                                                         *)
(* The first needs that every trace of a failed fd, the one an unfinished  *)
(* probe has in hand and the last answer to the watchdog, is of one that   *)
(* failed since the start (DeadFdIsSeen).  The second rests on the lemmas  *)
(* of FailoverProofs about one observation, taken here with no pin and a   *)
(* clock that stands still; P names them.                                  *)
(***************************************************************************)
EXTENDS AdapterHealth, TLAPS

P == INSTANCE FailoverProofs WITH pin <- "auto", MaxNow <- Horizon,
                                  MayStepBack <- FALSE, steppedBack <- FALSE

-----------------------------------------------------------------------------
(* The daemon's own state                                                  *)

AdapterType ==
  /\ fd \in FdStates /\ onBus \in BOOLEAN
  /\ queue \in Seq({"message", "stateChange"}) /\ Len(queue) <= MaxQueue

\* What a task has in hand is an addressing until it has been recorded.
TasksType ==
  /\ rxLoop \in {"poll", "reread", "record", "note", "ended"}
  /\ probe \in {"sleep", "caps", "read", "record", "note"}
  /\ transmit \in {"idle", "sending"}
  /\ rxRead \in Addressings \cup F!HealthStates
  /\ probeRead \in Addressings \cup F!HealthStates
  /\ rxLoop = "record" => rxRead \in Addressings
  /\ probe = "record" /\ probeAlive => probeRead \in Addressings

FactsType ==
  /\ addressed \in Addressings /\ fdAlive \in BOOLEAN
  /\ probeAlive \in BOOLEAN /\ fed \in BOOLEAN /\ fdFailed \in BOOLEAN

\* Every trace of a failed fd is of one that failed since the start.
DeadFdIsSeen == fd # "ok" \/ ~probeAlive \/ ~fed => fdFailed

OwnInv == AdapterType /\ TasksType /\ FactsType /\ DeadFdIsSeen

(* A verdict is one of the health states, and a read of the addressing is  *)
(* an addressing (health.rs, classify; device.rs, read_addressing).        *)
LEMMA VerdictsTyped ==
  /\ \A alive, addressing : Classify(alive, addressing) \in F!HealthStates
  /\ ReadAddressing \in Addressings
BY DEF Classify, F!HealthStates, ReadAddressing, Addressings

(* The queue takes one more event while it is not full, and gives one.     *)
LEMMA QueueTyped ==
  ASSUME AdapterType
  PROVE  /\ \A e \in {"message", "stateChange"} :
              Len(queue) < MaxQueue =>
                /\ Append(queue, e) \in Seq({"message", "stateChange"})
                /\ Len(Append(queue, e)) <= MaxQueue
         /\ queue # <<>> => /\ Tail(queue) \in Seq({"message", "stateChange"})
                            /\ Len(Tail(queue)) <= MaxQueue
BY BoundsAssumption DEF AdapterType

(* So it does when it is new, on an fd that was just opened.               *)
LEMMA FreshTyped ==
  /\ <<>> \in Seq({"message", "stateChange"}) /\ Len(<<>>) <= MaxQueue
  /\ "ok" \in FdStates
<1>1. <<>> \in Seq({"message", "stateChange"}) /\ Len(<<>>) = 0
  OBVIOUS
<1>. QED BY <1>1, BoundsAssumption

(* The daemon starts well typed.                                           *)
LEMMA StartOwn == Init => OwnInv
<1>. SUFFICES ASSUME Init PROVE OwnInv
  OBVIOUS
<1>1. AdapterType
  BY FreshTyped DEF Init, AdapterType
<1>2. TasksType
  BY DEF Init, TasksType, Addressings
<1>3. FactsType /\ DeadFdIsSeen
  BY VerdictsTyped DEF Init, FactsType, DeadFdIsSeen
<1>. QED BY <1>1, <1>2, <1>3 DEF OwnInv

(* Every step keeps it so.                                                 *)
LEMMA OwnStep ==
  ASSUME OwnInv, [Next]_vars
  PROVE  OwnInv'
<1>1. CASE Readdressed \/ Spoken
  <2>1. AdapterType'
    BY <1>1, QueueTyped DEF Readdressed, Spoken, OwnInv, AdapterType
  <2>. QED BY <1>1, <2>1 DEF Readdressed, Spoken, loopVars, probeVars,
             factVars, OwnInv, TasksType, FactsType, DeadFdIsSeen
<1>2. CASE FdChanges
  BY <1>2 DEF FdChanges, loopVars, probeVars, factVars, OwnInv, AdapterType,
    TasksType, FactsType, DeadFdIsSeen
<1>3. CASE RxMessage \/ RxStateChange
  <2>1. AdapterType'
    BY <1>3, QueueTyped DEF RxMessage, RxStateChange, OwnInv, AdapterType
  <2>. QED BY <1>3, <2>1 DEF RxMessage, RxStateChange, loopVars, probeVars,
             factVars, OwnInv, TasksType, FactsType, DeadFdIsSeen, Addressings
<1>4. CASE RxReread
  BY <1>4, VerdictsTyped DEF RxReread, adapterVars, probeVars, factVars, OwnInv,
    AdapterType, TasksType, FactsType, DeadFdIsSeen
<1>5. CASE RxRecord
  BY <1>5, VerdictsTyped DEF RxRecord, adapterVars, probeVars, factVars, OwnInv,
    AdapterType, TasksType, FactsType, DeadFdIsSeen
<1>6. CASE RxNote \/ RxPollFails
  BY <1>6 DEF RxNote, RxPollFails, adapterVars, probeVars, factVars, OwnInv,
    AdapterType, TasksType, FactsType, DeadFdIsSeen, Addressings
<1>7. CASE ProbeWakes \/ ProbeCaps
  BY <1>7 DEF ProbeWakes, ProbeCaps, adapterVars, loopVars, factVars, OwnInv,
    AdapterType, TasksType, FactsType, DeadFdIsSeen
<1>8. CASE ProbeRead
  BY <1>8, VerdictsTyped DEF ProbeRead, adapterVars, loopVars, factVars, OwnInv,
    AdapterType, TasksType, FactsType, DeadFdIsSeen
<1>9. CASE ProbeRecord
  <2>1. /\ probe = "record" /\ probe' = "note"
        /\ fdAlive' = probeAlive /\ fed' = probeAlive
        /\ addressed' = IF probeAlive THEN probeRead ELSE addressed
        /\ probeRead' \in F!HealthStates
        /\ UNCHANGED <<adapterVars, loopVars, probeAlive, transmit, fdFailed>>
    BY <1>9, VerdictsTyped DEF ProbeRecord, ShouldFeed, Verdict
  <2>. QED BY <2>1 DEF adapterVars, loopVars, OwnInv, AdapterType, TasksType,
             FactsType, DeadFdIsSeen
<1>10. CASE ProbeNote
  BY <1>10 DEF ProbeNote, adapterVars, loopVars, factVars, OwnInv,
    AdapterType, TasksType, FactsType, DeadFdIsSeen, Addressings
<1>11. CASE Restart
  <2>1. AdapterType'
    BY <1>11, FreshTyped DEF Restart, OwnInv, AdapterType
  <2>2. TasksType'
    BY <1>11 DEF Restart, TasksType, Addressings
  <2>3. FactsType' /\ DeadFdIsSeen'
    BY <1>11 DEF Restart, FactsType, DeadFdIsSeen, Addressings
  <2>. QED BY <2>1, <2>2, <2>3 DEF OwnInv
<1>12. CASE TransmitBegins \/ TransmitEnds \/ Age
  BY <1>12 DEF TransmitBegins, TransmitEnds, Age, adapterVars, loopVars,
    probeVars, factVars, OwnInv, AdapterType, TasksType, FactsType, DeadFdIsSeen
<1>13. CASE UNCHANGED vars
  BY <1>13 DEF vars, OwnInv, AdapterType, TasksType, FactsType, DeadFdIsSeen
<1>. QED
  BY <1>1, <1>2, <1>3, <1>4, <1>5, <1>6, <1>7, <1>8, <1>9, <1>10, <1>11, <1>12,
     <1>13 DEF Next, ReceiveLoop, Probe

(* The daemon's own state is well typed, and the fd's failures are seen.   *)
LEMMA OwnCorrect == Spec => []OwnInv
BY StartOwn, OwnStep, PTL DEF Spec

(* Only an fd that failed restarts the daemon, never an adapter that lost  *)
(* its address: a television at standby is no restart loop (health.rs,     *)
(* should_feed_watchdog).                                                  *)
THEOREM RestartsCorrect == Spec => OnlyADeadFdRestarts
<1>1. OwnInv => (Restart => fdFailed)
  BY DEF OwnInv, DeadFdIsSeen, Restart
<1>. QED BY <1>1, OwnCorrect, PTL DEF OnlyADeadFdRestarts

-----------------------------------------------------------------------------
(* The decision                                                            *)

DecisionInv ==
  P!TypeOK /\ P!PendingIsCalledFor /\ P!OnlyCec /\ P!EvidenceInv

(* What the daemon observes is an observation of the decision's own        *)
(* module: any other value would be none of Record's (failover.rs, record).*)
LEMMA SameObservation ==
  ASSUME NEW o, F!Observe(o)
  PROVE  o \in P!Observations /\ P!Observe(o)
<1>1. F!Record(o)
  BY DEF F!Observe
<1>2. o \in P!Observations
  BY <1>1 DEF F!Record, F!RecordHealth, F!RecordTxOk, F!RecordRx, F!RecordTxError,
    F!HealthStates, P!Observations, P!HealthStates
<1>3. P!Record(o)
  BY <1>1 DEF F!Record, F!RecordHealth, F!RecordTxOk, F!RecordRx, F!RecordTxError,
    F!FreshRun, F!HeardInWindow, F!Since, F!NoTime, F!HealthStates,
    P!Record, P!RecordHealth, P!RecordTxOk, P!RecordRx, P!RecordTxError,
    P!FreshRun, P!HeardInWindow, P!Since, P!NoTime, P!HealthStates
<1>4. P!Desired(health', deaf') = F!Desired(health', deaf')
  BY DEF F!Desired, P!Desired
<1>5. ASSUME NEW want, F!Decide(want, o) PROVE P!Decide(want, o)
  BY <1>5 DEF F!Decide, F!Agree, F!Start, F!Wait, F!Commit, F!MayCommit, F!Hold,
    F!Since, F!NoPending, F!decisionVars, P!Decide, P!Agree, P!Start, P!Wait,
    P!Commit, P!MayCommit, P!Hold, P!Since, P!NoPending, P!decisionVars
<1>. QED BY <1>2, <1>3, <1>4, <1>5 DEF F!Observe, P!Observe

(* An observation keeps the decision's promises.                           *)
LEMMA ObservedDecision ==
  ASSUME DecisionInv, NEW o, F!Observe(o)
  PROVE  DecisionInv'
<1>. USE ThresholdsAssumption, BoundsAssumption
<1>. DEFINE want == P!Desired(health', deaf')
<1>1. /\ o \in P!Observations /\ P!Observe(o)
      /\ P!Record(o) /\ P!Decide(want, o) /\ UNCHANGED now
  BY SameObservation DEF P!Observe
<1>2. P!TypeOK'
  <2>1. /\ health' \in P!HealthStates /\ deaf' \in BOOLEAN
        /\ windowStart' \in P!Times /\ lastRxAt' \in P!Times
        /\ txErrors' \in 0..MaxErrors /\ silentRun' \in 0..TxErrorThreshold
    BY <1>1, P!RecordTyped DEF DecisionInv
  <2>2. want \in P!Backends
    BY P!DesiredTyped
  <2>3. /\ active' \in P!Backends
        /\ pending' \in [to : P!Backends \cup {"none"}, since : Nat]
    BY <1>1, <2>2, P!DecideTyped DEF DecisionInv
  <2>. QED BY <1>1, <2>1, <2>3 DEF DecisionInv, P!TypeOK
<1>3. P!PendingIsCalledFor'
  BY <1>1, P!ObserveDecides DEF DecisionInv
<1>4. P!OnlyCec'
  <2>. SUFFICES ASSUME ~IpConfigured
                PROVE  active' = "cec" /\ pending' = P!NoPending
    BY DEF P!OnlyCec
  <2>1. P!Decide("cec", o)
    BY <1>1 DEF P!Desired
  <2>. QED BY <2>1 DEF DecisionInv, P!OnlyCec, P!Decide, P!Agree, P!Start,
             P!Wait, P!Commit
<1>5. P!EvidenceInv'
  BY <1>1, P!RecordKeepsEvidence DEF DecisionInv
<1>. QED BY <1>2, <1>3, <1>4, <1>5 DEF DecisionInv

\* The decision of a daemon that has just opened its adapter.
FreshDecision ==
  /\ now = Horizon /\ active = "cec" /\ pending = [to |-> "none", since |-> 0]
  /\ health \in F!HealthStates /\ deaf = FALSE
  /\ windowStart = -1 /\ txErrors = 0 /\ lastRxAt = -1 /\ silentRun = 0

(* It is for CEC, with no evidence seen (failover.rs, Failover::new).      *)
LEMMA FreshDecisionKept == FreshDecision => DecisionInv
<1>. SUFFICES ASSUME FreshDecision PROVE DecisionInv
  OBVIOUS
<1>. USE DEF FreshDecision
<1>1. P!TypeOK
  <2>1. /\ now \in Nat /\ txErrors \in 0..MaxErrors
        /\ silentRun \in 0..TxErrorThreshold
    BY ThresholdsAssumption, BoundsAssumption
  <2>2. windowStart \in P!Times /\ lastRxAt \in P!Times
    BY DEF P!Times, P!NoTime
  <2>3. /\ "auto" \in P!Pins /\ active \in P!Backends
        /\ pending \in [to : P!Backends \cup {"none"}, since : Nat]
    BY DEF P!Pins, P!Backends
  <2>4. health \in P!HealthStates
    BY DEF F!HealthStates, P!HealthStates
  <2>5. deaf \in BOOLEAN
    OBVIOUS
  <2>. QED BY <2>1, <2>2, <2>3, <2>4, <2>5 DEF P!TypeOK
<1>2. P!PendingIsCalledFor /\ P!OnlyCec
  BY DEF P!PendingIsCalledFor, P!OnlyCec, P!NoPending
<1>3. P!EvidenceInv
  BY ThresholdsAssumption, BoundsAssumption DEF P!EvidenceInv, P!RunIsSilent,
    P!DeafOnlyAfterSilentRun, P!NoTime
<1>. QED BY <1>1, <1>2, <1>3 DEF DecisionInv

(* The daemon starts with such a decision, and restarts with one.          *)
LEMMA StartDecision == Init => FreshDecision
BY VerdictsTyped DEF Init, FreshDecision, F!AtOpen, F!NoPending, F!NoTime, Verdict

LEMMA RestartDecision ==
  ASSUME Restart, now = Horizon
  PROVE  FreshDecision'
<1>1. health' \in F!HealthStates
  BY DEF Restart, Verdict, Classify, F!HealthStates
<1>. QED BY <1>1 DEF Restart, FreshDecision, F!NoPending, F!NoTime

(* The timestamps of the evidence age together: none overtakes another.    *)
LEMMA AgedDecision ==
  ASSUME DecisionInv, Age
  PROVE  DecisionInv'
<1>1. /\ windowStart' = Older(windowStart) /\ lastRxAt' = Older(lastRxAt)
      /\ pending' = [pending EXCEPT !.since = Older(@)]
      /\ UNCHANGED <<now, active, health, deaf, txErrors, silentRun>>
  BY DEF Age
<1>2. /\ now \in Nat /\ windowStart \in Nat \cup {-1} /\ lastRxAt \in Nat \cup {-1}
      /\ pending \in [to : P!Backends \cup {"none"}, since : Nat]
  BY DEF DecisionInv, P!TypeOK, P!Times, P!NoTime
<1>3. /\ windowStart' \in Nat \cup {-1} /\ lastRxAt' \in Nat \cup {-1}
      /\ windowStart' <= windowStart /\ lastRxAt' <= lastRxAt
      /\ windowStart' = -1 <=> windowStart = -1
      /\ lastRxAt' < windowStart' => lastRxAt < windowStart
  BY <1>1, <1>2 DEF Older
<1>4. /\ pending' = [to |-> pending.to, since |-> Older(pending.since)]
      /\ pending.since \in Nat /\ Older(pending.since) \in Nat
      /\ pending.since = 0 => Older(pending.since) = 0
  BY <1>1, <1>2 DEF Older
<1>5. P!TypeOK'
  <2>1. pending' \in [to : P!Backends \cup {"none"}, since : Nat]
    BY <1>2, <1>4
  <2>. QED BY <1>1, <1>3, <2>1 DEF DecisionInv, P!TypeOK, P!Times, P!NoTime
<1>6. pending = P!NoPending => pending' = P!NoPending
  BY <1>4 DEF P!NoPending
<1>7. P!PendingIsCalledFor' /\ P!OnlyCec'
  BY <1>1, <1>4, <1>6 DEF DecisionInv, P!PendingIsCalledFor, P!OnlyCec, P!Desired
<1>8. P!EvidenceInv'
  BY <1>1, <1>2, <1>3 DEF DecisionInv, P!EvidenceInv, P!RunIsSilent,
    P!DeafOnlyAfterSilentRun, P!NoTime
<1>. QED BY <1>5, <1>7, <1>8 DEF DecisionInv

(* Every step of the daemon keeps the decision's promises.                 *)
LEMMA DecisionStep ==
  ASSUME now = Horizon, DecisionInv, [Next]_vars
  PROVE  now' = Horizon /\ DecisionInv'
<1>1. ASSUME UNCHANGED failoverVars PROVE now' = Horizon /\ DecisionInv'
  BY <1>1 DEF failoverVars, DecisionInv, P!TypeOK, P!PendingIsCalledFor, P!OnlyCec,
    P!EvidenceInv, P!RunIsSilent, P!DeafOnlyAfterSilentRun, P!Desired
<1>2. ASSUME NEW o, F!Observe(o) PROVE now' = Horizon /\ DecisionInv'
  BY <1>2, ObservedDecision DEF F!Observe
<1>3. CASE Restart
  <2>1. FreshDecision'
    BY <1>3, RestartDecision
  <2>2. (FreshDecision => DecisionInv)'
    BY FreshDecisionKept, PTL
  <2>. QED BY <2>1, <2>2 DEF FreshDecision
<1>4. CASE Age
  BY <1>4, AgedDecision DEF Age
<1>5. CASE Readdressed \/ Spoken \/ FdChanges \/ RxPollFails \/ TransmitBegins
  BY <1>1, <1>5 DEF Readdressed, Spoken, FdChanges, RxPollFails, TransmitBegins
<1>6. CASE ReceiveLoop
  BY <1>1, <1>2, <1>6 DEF ReceiveLoop, RxMessage, RxStateChange, RxReread,
    RxRecord, RxNote
<1>7. CASE Probe
  BY <1>1, <1>2, <1>7 DEF Probe, ProbeWakes, ProbeCaps, ProbeRead, ProbeRecord,
    ProbeNote
<1>8. CASE TransmitEnds
  BY <1>2, <1>8 DEF TransmitEnds
<1>9. CASE UNCHANGED vars
  BY <1>1, <1>9 DEF vars, failoverVars
<1>. QED BY <1>3, <1>4, <1>5, <1>6, <1>7, <1>8, <1>9 DEF Next

(* The decision's promises hold throughout, and the clock stands.          *)
LEMMA DecisionCorrect == Spec => [](now = Horizon /\ DecisionInv)
<1>1. Init => now = Horizon /\ DecisionInv
  BY StartDecision, FreshDecisionKept DEF FreshDecision
<1>2. now = Horizon /\ DecisionInv /\ [Next]_vars => (now = Horizon /\ DecisionInv)'
  BY DecisionStep
<1>. QED BY <1>1, <1>2, PTL DEF Spec

(* Every reachable state is well typed: what a task records as an          *)
(* addressing is one, though the same field later holds a verdict, and a   *)
(* full queue takes no event.                                              *)
THEOREM TypeCorrect == Spec => []TypeOK
<1>1. OwnInv /\ DecisionInv => TypeOK
  <2>. SUFFICES ASSUME OwnInv, DecisionInv PROVE TypeOK
    OBVIOUS
  <2>1. F!TypeOK
    BY DEF DecisionInv, F!TypeOK, F!Pins, F!Backends, F!HealthStates, F!Times,
      F!NoTime, P!TypeOK, P!Pins, P!Backends, P!HealthStates, P!Times, P!NoTime
  <2>2. {probeAlive, fdAlive, fed, fdFailed} \subseteq BOOLEAN
    BY DEF OwnInv, FactsType
  <2>. QED BY <2>1, <2>2 DEF OwnInv, AdapterType, TasksType, FactsType, TypeOK
<1>. QED BY <1>1, OwnCorrect, DecisionCorrect, PTL

\* The promises of module Failover; nothing steps the clock back.
DecisionPromises ==
  F!PendingIsCalledFor /\ F!NoPhantomBackend /\ F!DeafOnlyAfterSilentRun

(* The warm-path decision keeps its promises in the daemon that feeds it:  *)
(* whatever stale verdicts the probe and the receive loop observe, and     *)
(* however often systemd restarts the daemon, a pending change is called   *)
(* for, no backend is announced that does not exist, and the adapter is    *)
(* deaf only on failures that really followed one another (failover.rs,    *)
(* observe; device.rs, note_failover).                                     *)
THEOREM DecisionIsSound == Spec => []DecisionPromises
<1>1. DecisionInv => DecisionPromises
  <2>. SUFFICES ASSUME DecisionInv PROVE DecisionPromises
    OBVIOUS
  <2>1. F!PendingIsCalledFor
    BY DEF DecisionInv, P!PendingIsCalledFor, P!NoPending, P!Desired,
      F!PendingIsCalledFor, F!NoPending, F!Desired
  <2>2. F!NoPhantomBackend
    BY DEF DecisionInv, P!OnlyCec, P!NoPending, F!NoPhantomBackend, F!NoPending, F!Active
  <2>3. F!DeafOnlyAfterSilentRun
    BY DEF DecisionInv, P!EvidenceInv, P!DeafOnlyAfterSilentRun,
      F!DeafOnlyAfterSilentRun
  <2>. QED BY <2>1, <2>2, <2>3 DEF DecisionPromises
<1>. QED BY <1>1, DecisionCorrect, PTL

(* The daemon hands its actions back to CEC only on a healthy verdict, or  *)
(* because it was restarted: never on a heard message, an accepted         *)
(* transmit or the passing of time alone (failover.rs, rule 4).            *)
THEOREM RecoveryIsEarned ==
  Spec => [][active = "ip" /\ active' = "cec" =>
               Restart \/ (F!Observe("healthy") /\ ~deaf')]_vars
<1>. DEFINE Earned == Restart \/ (F!Observe("healthy") /\ ~deaf')
<1>1. ASSUME DecisionInv, [Next]_vars, active = "ip", active' = "cec", ~Restart
      PROVE  F!Observe("healthy") /\ ~deaf'
  <2>1. PICK o : F!Observe(o)
    <3>1. active' # active
      BY <1>1
    <3>2. ~UNCHANGED failoverVars /\ ~Age /\ ~UNCHANGED vars
      BY <3>1 DEF failoverVars, Age, vars
    <3>3. ReceiveLoop \/ Probe \/ TransmitEnds
      BY <1>1, <3>2 DEF Next, Readdressed, Spoken, FdChanges, RxPollFails,
        TransmitBegins
    <3>. QED
      BY <3>2, <3>3 DEF ReceiveLoop, RxMessage, RxStateChange, RxReread, RxRecord,
        RxNote, Probe, ProbeWakes, ProbeCaps, ProbeRead, ProbeRecord, ProbeNote,
        TransmitEnds
  <2>2. F!Commit(F!Desired(health', deaf'), o)
    BY <1>1, <2>1 DEF F!Observe, F!Decide, F!Agree, F!Start, F!Wait, F!decisionVars
  <2>3. F!Desired(health', deaf') = "cec" /\ o = "healthy"
    BY <1>1, <2>2 DEF F!Commit, F!MayCommit
  <2>4. IpConfigured
    BY <1>1 DEF DecisionInv, P!OnlyCec
  <2>5. deaf' \in BOOLEAN
    BY <1>1, <2>1, ObservedDecision DEF DecisionInv, P!TypeOK
  <2>. QED BY <2>1, <2>3, <2>4, <2>5 DEF F!Desired
<1>2. DecisionInv /\ [Next]_vars => (active = "ip" /\ active' = "cec" => Earned)
  BY <1>1
<1>. QED BY <1>2, DecisionCorrect, PTL DEF Spec
=============================================================================
