---------------------------- MODULE AdapterHealth ----------------------------
(***************************************************************************)
(* What the AV daemon knows of its own CEC adapter, and what it does with  *)
(* it: the health facts (src/cec/src/health.rs), the watchdog probe and    *)
(* note_failover (kernel/device.rs, main.rs watchdog_feed), the receive    *)
(* loop's re-read after a StateChange (kernel/follower.rs, note_health),   *)
(* and the warm-path decision they feed (module Failover).                 *)
(*                                                                         *)
(* The probe, the receive loop and a client's transmit run concurrently.   *)
(* Each step is what one of them does between two awaits or under one      *)
(* lock: the health lock and the failover lock are taken one after the     *)
(* other, never together, and no ioctl is awaited under either.            *)
(*                                                                         *)
(* The clock stands at Horizon and the timestamps age instead (Age): only  *)
(* differences matter, and beyond Horizon every threshold has passed.      *)
(***************************************************************************)
EXTENDS Integers, Sequences

CONSTANTS
  TxErrorThreshold, TxErrorWindow, FailAfter, RecoverAfter, IpConfigured,
  MaxErrors,
  Horizon,     \* bound: the oldest age of a timestamp told apart
  MaxQueue,    \* bound on the events the receive loop has still to read
  FdStates,    \* bound: what the ioctls on our fd may do
  MayTransmit  \* does a client transmit?

VARIABLES
  fd,          \* environment: do the ioctls on our fd answer, fail or hang?
  onBus,       \* environment: does the adapter hold an address?
  queue,       \* events the kernel holds for the receive loop
  rxLoop,      \* where the receive loop is
  rxRead,      \* the addressing, then the verdict, it has in hand
  probe,       \* where the watchdog probe is
  probeRead,   \* the addressing, then the verdict, it has in hand
  probeAlive,  \* whether its CEC_ADAP_G_CAPS was answered
  transmit,    \* where a client's transmit is
  fdAlive,     \* Health.fd_alive
  addressed,   \* Health.addressed
  fed,         \* was the watchdog fed by the last probe?
  fdFailed,    \* history: has the fd failed since the daemon was started?
  now, active, health, deaf, pending, windowStart, txErrors, lastRxAt,
  silentRun    \* the state of module Failover, with no operator's pin

F == INSTANCE Failover WITH pin <- "auto", MaxNow <- Horizon,
                            MayStepBack <- FALSE, steppedBack <- FALSE

ASSUME ThresholdsAssumption ==
  /\ TxErrorThreshold \in Nat /\ TxErrorThreshold >= 2
  /\ {TxErrorWindow, FailAfter, RecoverAfter} \subseteq Nat \ {0}
  /\ MaxErrors \in Nat /\ MaxErrors >= TxErrorThreshold
  /\ IpConfigured \in BOOLEAN

ASSUME BoundsAssumption ==
  /\ Horizon \in Nat /\ MaxQueue \in Nat \ {0}
  /\ \A t \in {TxErrorWindow, FailAfter, RecoverAfter} : t < Horizon
  /\ "ok" \in FdStates /\ FdStates \subseteq {"ok", "error", "hung"}
  /\ MayTransmit \in BOOLEAN

adapterVars  == <<fd, onBus, queue>>
loopVars     == <<rxLoop, rxRead>>
probeVars    == <<probe, probeRead, probeAlive, fed>>
factVars     == <<fdAlive, addressed>>
failoverVars == <<now, active, health, deaf, pending, windowStart,
                  txErrors, lastRxAt, silentRun>>
vars == <<fd, onBus, queue, rxLoop, rxRead, probe, probeRead, probeAlive,
          transmit, fdAlive, addressed, fed, fdFailed, now, active,
          health, deaf, pending, windowStart, txErrors, lastRxAt, silentRun>>

Addressings == {"yes", "no", "unknown"}

-----------------------------------------------------------------------------
(* health.rs                                                               *)

\* classify: facts 1 and 2 to a verdict; a quiet bus is no evidence.
Classify(alive, addressing) ==
  CASE ~alive               -> "degraded"
    [] addressing = "yes"   -> "healthy"
    [] addressing = "no"    -> "degraded"
    [] OTHER                -> "unknown"

Verdict == Classify(fdAlive, addressed)

FeedOnVerdict(alive, addressing) == Classify(alive, addressing) = "healthy"

\* should_feed_watchdog: fact 1 and nothing else.
ShouldFeed(alive, addressing) == alive

\* device.rs, read_addressing: two pure gets on our own fd.
ReadAddressing == IF fd = "ok" THEN IF onBus THEN "yes" ELSE "no"
                  ELSE "unknown"

-----------------------------------------------------------------------------
\* The daemon as main's run() starts it: open, at_open, spawn.
Init ==
  /\ onBus \in BOOLEAN
  /\ fd = "ok" /\ queue = <<>>
  /\ rxLoop = "poll" /\ rxRead = "unknown"
  /\ probe = "sleep" /\ probeRead = "unknown" /\ probeAlive = TRUE
  /\ transmit = "idle"
  /\ fdAlive = TRUE /\ addressed = ReadAddressing
  /\ fed = TRUE /\ fdFailed = FALSE
  /\ now = Horizon /\ F!AtOpen(Verdict)

-----------------------------------------------------------------------------
(* The adapter and the bus                                                 *)

\* The adapter loses or regains its address: the kernel says StateChange.
Readdressed ==
  /\ Len(queue) < MaxQueue
  /\ onBus' = ~onBus /\ queue' = Append(queue, "stateChange")
  /\ UNCHANGED <<fd, loopVars, probeVars, transmit, factVars, fdFailed,
                 failoverVars>>

\* Another device says something.
Spoken ==
  /\ Len(queue) < MaxQueue /\ onBus
  /\ queue' = Append(queue, "message")
  /\ UNCHANGED <<fd, onBus, loopVars, probeVars, transmit, factVars, fdFailed,
                 failoverVars>>

FdChanges ==
  /\ fd' \in FdStates \ {fd}
  /\ fdFailed' = TRUE
  /\ UNCHANGED <<onBus, queue, loopVars, probeVars, transmit, factVars,
                 failoverVars>>

-----------------------------------------------------------------------------
(* The receive loop: follower::run                                         *)

\* A message: record_rx, then Observed::Rx.
RxMessage ==
  /\ rxLoop = "poll" /\ fd = "ok" /\ queue # <<>> /\ Head(queue) = "message"
  /\ queue' = Tail(queue)
  /\ F!Observe("rx")
  /\ UNCHANGED <<fd, onBus, loopVars, probeVars, transmit, factVars, fdFailed>>

\* A StateChange marks fact 2 stale, then the addressing is re-read.
RxStateChange ==
  /\ rxLoop = "poll" /\ fd = "ok" /\ queue # <<>>
  /\ Head(queue) = "stateChange"
  /\ queue' = Tail(queue)
  /\ addressed' = "unknown" /\ rxLoop' = "reread"
  /\ UNCHANGED <<fd, onBus, rxRead, probeVars, transmit, fdAlive, fdFailed,
                 failoverVars>>

RxReread ==
  /\ rxLoop = "reread" /\ fd # "hung"
  /\ rxRead' = ReadAddressing /\ rxLoop' = "record"
  /\ UNCHANGED <<adapterVars, probeVars, transmit, factVars, fdFailed,
                 failoverVars>>

RxRecord ==
  /\ rxLoop = "record"
  /\ addressed' = rxRead
  /\ rxRead' = Classify(fdAlive, rxRead) /\ rxLoop' = "note"
  /\ UNCHANGED <<adapterVars, probeVars, transmit, fdAlive, fdFailed,
                 failoverVars>>

RxNote ==
  /\ rxLoop = "note"
  /\ F!Observe(rxRead)
  /\ rxRead' = "unknown" /\ rxLoop' = "poll"
  /\ UNCHANGED <<adapterVars, probeVars, transmit, factVars, fdFailed>>

\* A poll that fails for any reason but a timeout ends the loop.
RxPollFails ==
  /\ rxLoop = "poll" /\ fd = "error"
  /\ rxLoop' = "ended"
  /\ UNCHANGED <<adapterVars, rxRead, probeVars, transmit, factVars, fdFailed,
                 failoverVars>>

ReceiveLoop == RxMessage \/ RxStateChange \/ RxReread \/ RxRecord \/ RxNote

-----------------------------------------------------------------------------
(* The watchdog probe: watchdog_feed and KernelBackend::probe              *)

ProbeWakes ==
  /\ probe = "sleep" /\ probe' = "caps"
  /\ UNCHANGED <<adapterVars, loopVars, probeRead, probeAlive, fed, transmit,
                 factVars, fdFailed, failoverVars>>

\* Fact 1, and fact 2 only when it holds.
ProbeCaps ==
  /\ probe = "caps" /\ fd # "hung"
  /\ probeAlive' = (fd = "ok")
  /\ probe' = IF fd = "ok" THEN "read" ELSE "record"
  /\ UNCHANGED <<adapterVars, loopVars, probeRead, fed, transmit, factVars,
                 fdFailed, failoverVars>>

ProbeRead ==
  /\ probe = "read" /\ fd # "hung"
  /\ probeRead' = ReadAddressing /\ probe' = "record"
  /\ UNCHANGED <<adapterVars, loopVars, probeAlive, fed, transmit, factVars,
                 fdFailed, failoverVars>>

ProbeRecordCaching ==
  /\ probe = "record"
  /\ fdAlive' = probeAlive
  /\ addressed' = IF probeAlive /\ addressed = "unknown" THEN probeRead
                  ELSE addressed
  /\ probeRead' = Verdict' /\ probe' = "note"
  /\ fed' = ShouldFeed(fdAlive', addressed')
  /\ UNCHANGED <<adapterVars, loopVars, probeAlive, transmit, fdFailed,
                 failoverVars>>

\* Both facts are recorded under the health lock, and the verdict and the
\* watchdog's answer taken.
ProbeRecord ==
  /\ probe = "record"
  /\ fdAlive' = probeAlive
  /\ addressed' = IF probeAlive THEN probeRead ELSE addressed
  /\ probeRead' = Verdict' /\ probe' = "note"
  /\ fed' = ShouldFeed(fdAlive', addressed')
  /\ UNCHANGED <<adapterVars, loopVars, probeAlive, transmit, fdFailed,
                 failoverVars>>

\* The decision sees the verdict.
ProbeNote ==
  /\ probe = "note"
  /\ F!Observe(probeRead)
  /\ probe' = "sleep" /\ probeRead' = "unknown" /\ probeAlive' = TRUE
  /\ UNCHANGED <<adapterVars, loopVars, fed, transmit, factVars, fdFailed>>

Probe == ProbeWakes \/ ProbeCaps \/ ProbeRead \/ ProbeRecord \/ ProbeNote

(* systemd restarts the unit when WATCHDOG=1 stops: the last probe did not *)
(* feed, or the probe hangs in an ioctl.  The unit is retried until the    *)
(* adapter opens.                                                          *)
Restart ==
  /\ ~fed \/ (probe \in {"caps", "read"} /\ fd = "hung")
  /\ UNCHANGED <<onBus, now>>
  /\ fd' = "ok" /\ queue' = <<>>
  /\ rxLoop' = "poll" /\ rxRead' = "unknown"
  /\ probe' = "sleep" /\ probeRead' = "unknown" /\ probeAlive' = TRUE
  /\ transmit' = "idle"
  /\ fdAlive' = TRUE /\ addressed' = IF onBus THEN "yes" ELSE "no"
  /\ fed' = TRUE /\ fdFailed' = FALSE
  /\ active' = "cec" /\ pending' = F!NoPending
  /\ health' = Verdict' /\ deaf' = FALSE
  /\ windowStart' = F!NoTime /\ txErrors' = 0 /\ lastRxAt' = F!NoTime
  /\ silentRun' = 0

-----------------------------------------------------------------------------
(* A client's action over CEC: read the decision, transmit, note_tx        *)

TransmitBegins ==
  /\ MayTransmit /\ transmit = "idle" /\ F!Active = "cec"
  /\ transmit' = "sending"
  /\ UNCHANGED <<adapterVars, loopVars, probeVars, factVars, fdFailed,
                 failoverVars>>

\* A refusal is not noted, and is no transmit.
TransmitEnds ==
  /\ transmit = "sending" /\ fd # "hung"
  /\ \/ fd = "ok" /\ onBus /\ F!Observe("txOk")
     \/ F!Observe("txError")
  /\ transmit' = "idle"
  /\ UNCHANGED <<adapterVars, loopVars, probeVars, factVars, fdFailed>>

-----------------------------------------------------------------------------
\* One unit of time passes: every timestamp is one further from now.
Older(t) == IF t > 0 THEN t - 1 ELSE t

Age ==
  /\ windowStart' = Older(windowStart) /\ lastRxAt' = Older(lastRxAt)
  /\ pending' = [pending EXCEPT !.since = Older(@)]
  /\ UNCHANGED <<adapterVars, loopVars, probeVars, transmit, factVars,
                 fdFailed, now, active, health, deaf, txErrors, silentRun>>

Next ==
  \/ Readdressed \/ Spoken \/ FdChanges
  \/ ReceiveLoop \/ RxPollFails
  \/ Probe \/ Restart
  \/ TransmitBegins \/ TransmitEnds
  \/ Age

Spec == Init /\ [][Next]_vars

(* The probe's timer and the receive loop are tasks of a running executor, *)
(* systemd acts on its watchdog, every transmit is bounded by a timeout,   *)
(* and time passes.  The adapter, the bus, the clients and the operator    *)
(* owe nothing.                                                            *)
Fairness ==
  /\ WF_vars(ReceiveLoop) /\ WF_vars(Probe) /\ WF_vars(Restart)
  /\ WF_vars(TransmitEnds) /\ WF_vars(Age)

FairSpec == Spec /\ Fairness

-----------------------------------------------------------------------------
TypeOK ==
  /\ fd \in FdStates /\ onBus \in BOOLEAN
  /\ queue \in Seq({"message", "stateChange"}) /\ Len(queue) <= MaxQueue
  /\ rxLoop \in {"poll", "reread", "record", "note", "ended"}
  /\ probe \in {"sleep", "caps", "read", "record", "note"}
  /\ rxRead \in Addressings \cup F!HealthStates
  /\ probeRead \in Addressings \cup F!HealthStates
  /\ {probeAlive, fdAlive, fed, fdFailed} \subseteq BOOLEAN
  /\ addressed \in Addressings /\ transmit \in {"idle", "sending"}
  /\ F!TypeOK

(* A lost address never restarts the daemon: a television at standby must  *)
(* not become a restart loop.  Only an fd that failed does (health.rs,     *)
(* should_feed_watchdog).                                                  *)
OnlyADeadFdRestarts == [][Restart => fdFailed]_vars

AdapterStays(state) ==
  <>[](fd = "ok" /\ IF state = "healthy" THEN onBus ELSE ~onBus)

(* Whatever stale verdicts raced each other, an adapter that settles is    *)
(* eventually and lastingly reported as what it is.                        *)
VerdictConverges ==
  /\ AdapterStays("healthy")  => <>[](Verdict = "healthy")
  /\ AdapterStays("degraded") => <>[](Verdict = "degraded")

(* An adapter that stays off the bus eventually hands the actions to the   *)
(* IP leg, for good, when there is one (failover.rs, observe).             *)
FailsOver ==
  IpConfigured /\ AdapterStays("degraded") => <>[](active = "ip")

(* An adapter that stays healthy gets its actions back, as long as it is   *)
(* heard from now and then (failover.rs, rules 1 and 4).                   *)
RecoversWhenHeard ==
  AdapterStays("healthy") /\ []<><<RxMessage>>_vars => []<>(active = "cec")
=============================================================================
