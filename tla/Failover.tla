------------------------------ MODULE Failover ------------------------------
(***************************************************************************)
(* The warm-path decision of the AV daemon: which backend, the kernel CEC  *)
(* adapter ("cec") or the IP leg ("ip"), carries out actions.  The state   *)
(* is src/cec/src/failover.rs's struct Failover; one Observe(o) is one     *)
(* call of Failover::observe under the failover mutex.                     *)
(*                                                                         *)
(* Time is the wall clock the callers pass in (state.rs, now_ms).  It only *)
(* moves between calls, and an NTP step may move it backwards when         *)
(* MayStepBack holds; all the differences saturate at zero, as in the code.*)
(***************************************************************************)
EXTENDS Integers

CONSTANTS
  TxErrorThreshold,  \* Thresholds.tx_error_threshold
  TxErrorWindow,     \* Thresholds.tx_error_window_ms
  FailAfter,         \* Thresholds.fail_after_ms
  RecoverAfter,      \* Thresholds.recover_after_ms
  IpConfigured,      \* IpConfig::is_configured
  MaxErrors,         \* u32::MAX, where the error counter saturates
  MaxNow,            \* bound: the last clock reading explored
  MayStepBack        \* may the wall clock be stepped backwards?

ASSUME ThresholdsAssumption ==
  /\ TxErrorThreshold \in Nat /\ TxErrorThreshold >= 2
  /\ TxErrorWindow \in Nat \ {0}
  /\ FailAfter \in Nat \ {0}
  /\ RecoverAfter \in Nat \ {0}

ASSUME BoundsAssumption ==
  /\ IpConfigured \in BOOLEAN
  /\ MaxErrors \in Nat /\ MaxErrors >= TxErrorThreshold
  /\ MaxNow \in Nat
  /\ MayStepBack \in BOOLEAN

Backends     == {"cec", "ip"}
Pins         == {"auto", "cec", "ip"}
HealthStates == {"healthy", "degraded", "unknown"}
Observations == HealthStates \cup {"txOk", "txError", "rx"}

NoTime    == -1
Times     == Nat \cup {NoTime}
NoPending == [to |-> "none", since |-> 0]

VARIABLES
  now,          \* the wall clock
  pin,          \* the operator's override
  active,       \* the committed automatic decision
  health,       \* the last health verdict observed
  deaf,         \* has the transmit-side rule tripped?
  pending,      \* a change observed but not yet held long enough
  windowStart,  \* start of the current run of transmit failures
  txErrors,     \* its length as counted
  lastRxAt,     \* when the bus was last heard
  silentRun,    \* history: failures since the last accepted transmit or
                \* heard message, counted up to TxErrorThreshold
  steppedBack   \* history: has the clock ever been stepped back?

decisionVars == <<active, pending>>
signalVars   == <<health, deaf, windowStart, txErrors, lastRxAt, silentRun>>
vars == <<now, pin, active, health, deaf, pending, windowStart, txErrors,
          lastRxAt, silentRun, steppedBack>>

-----------------------------------------------------------------------------
\* u64::saturating_sub
Since(t) == IF t <= now THEN now - t ELSE 0

\* Failover::active: the override wins over the automatic decision.
Active == IF pin = "auto" THEN active ELSE pin

\* Failover::desired: what the signals call for.
Desired(h, d) ==
  IF IpConfigured /\ (h # "healthy" \/ d) THEN "ip" ELSE "cec"

HoldSwapped(target) == IF target = "ip" THEN RecoverAfter ELSE FailAfter

Hold(target) == IF target = "cec" THEN RecoverAfter ELSE FailAfter

\* Failover::at_open, h being the health the open sequence read.
AtOpen(h) ==
  /\ pin = "auto" /\ active = "cec" /\ pending = NoPending
  /\ health = h /\ deaf = FALSE
  /\ windowStart = NoTime /\ txErrors = 0 /\ lastRxAt = NoTime
  /\ silentRun = 0

-----------------------------------------------------------------------------
(* Failover::record, one action per kind of observation.                   *)

RecordHealth(o) ==
  /\ o \in HealthStates
  /\ health' = o
  /\ UNCHANGED <<deaf, windowStart, txErrors, lastRxAt, silentRun>>

RecordTxOkKeepingRun(o) ==
  /\ o = "txOk" /\ deaf' = FALSE /\ silentRun' = 0
  /\ UNCHANGED <<health, lastRxAt, txErrors, windowStart>>

RecordTxOk(o) ==
  /\ o = "txOk"
  /\ txErrors' = 0 /\ windowStart' = NoTime /\ deaf' = FALSE
  /\ silentRun' = 0
  /\ UNCHANGED <<health, lastRxAt>>

RecordRxKeepingDeaf(o) ==
  /\ o = "rx" /\ lastRxAt' = now /\ silentRun' = 0
  /\ UNCHANGED <<health, windowStart, txErrors, deaf>>

RecordRx(o) ==
  /\ o = "rx"
  /\ lastRxAt' = now /\ deaf' = FALSE
  /\ silentRun' = 0
  /\ UNCHANGED <<health, windowStart, txErrors>>

FreshRun      == windowStart = NoTime \/ Since(windowStart) > TxErrorWindow
HeardInWindow == lastRxAt # NoTime /\ Since(lastRxAt) <= TxErrorWindow

RecordTxErrorWrapping(o) ==
  /\ o = "txError"
  /\ txErrors' = txErrors + 1
  /\ silentRun' = IF silentRun < TxErrorThreshold THEN silentRun + 1
                  ELSE silentRun
  /\ windowStart' = IF FreshRun THEN now ELSE windowStart
  /\ UNCHANGED <<health, lastRxAt, deaf>>

RecordTxError(o) ==
  /\ o = "txError"
  /\ windowStart' = IF FreshRun THEN now ELSE windowStart
  /\ txErrors' = IF FreshRun THEN 1
                 ELSE IF txErrors < MaxErrors THEN txErrors + 1 ELSE txErrors
  /\ deaf' = (deaf \/ (txErrors' >= TxErrorThreshold /\ ~HeardInWindow))
  /\ silentRun' = IF silentRun < TxErrorThreshold THEN silentRun + 1
                  ELSE silentRun
  /\ UNCHANGED <<health, lastRxAt>>

Record(o) ==
  RecordHealth(o) \/ RecordTxOk(o) \/ RecordRx(o) \/ RecordTxError(o)

-----------------------------------------------------------------------------
(* The decision of Failover::observe, on the signals just recorded.        *)

MayCommitOnAnything(want, o) == TRUE

MayCommitOnlyHealthy(want, o) == o = "healthy"

\* Rule 4: a recovery is committed only by a healthy health observation.
MayCommit(want, o) == want = "ip" \/ o = "healthy"

AgreeKeepingPending(want) == want = active /\ UNCHANGED decisionVars

Agree(want) ==
  /\ want = active
  /\ pending' = NoPending /\ UNCHANGED active

Start(want) ==
  /\ want # active /\ pending.to # want
  /\ pending' = [to |-> want, since |-> now] /\ UNCHANGED active

Wait(want, o) ==
  /\ want # active /\ pending.to = want
  /\ ~(MayCommit(want, o) /\ Since(pending.since) >= Hold(want))
  /\ UNCHANGED decisionVars

Commit(want, o) ==
  /\ want # active /\ pending.to = want
  /\ MayCommit(want, o) /\ Since(pending.since) >= Hold(want)
  /\ active' = want /\ pending' = NoPending

Decide(want, o) ==
  Agree(want) \/ Start(want) \/ Wait(want, o) \/ Commit(want, o)

Observe(o) ==
  /\ Record(o)
  /\ Decide(Desired(health', deaf'), o)
  /\ UNCHANGED <<now, pin>> /\ steppedBack' = steppedBack

\* Failover::set_pin: a pin to a backend this box lacks is refused.
SetPin(p) ==
  /\ p = "ip" => IpConfigured
  /\ pin' = p
  /\ UNCHANGED <<now, active, pending, signalVars, steppedBack>>

-----------------------------------------------------------------------------
\* The wall clock between two calls.
Tick ==
  /\ \E t \in 0..MaxNow :
       /\ t > now \/ (MayStepBack /\ t < now)
       /\ now' = t
       /\ steppedBack' = (steppedBack \/ t < now)
  /\ UNCHANGED <<pin, active, pending, signalVars>>

Init ==
  now = 0 /\ steppedBack = FALSE /\ \E h \in HealthStates : AtOpen(h)

Next == \/ \E o \in Observations : Observe(o)
        \/ \E p \in Pins : SetPin(p)
        \/ Tick

Spec == Init /\ [][Next]_vars

-----------------------------------------------------------------------------
TypeOK ==
  /\ now \in Nat
  /\ pin \in Pins /\ active \in Backends
  /\ health \in HealthStates /\ deaf \in BOOLEAN
  /\ pending \in [to : Backends \cup {"none"}, since : Nat]
  /\ windowStart \in Times /\ lastRxAt \in Times
  /\ txErrors \in 0..MaxErrors /\ silentRun \in 0..TxErrorThreshold
  /\ steppedBack \in BOOLEAN

(* A backend that does not exist is never announced, nor waited for, nor   *)
(* pinned: without an IP leg every action goes over CEC, however unhealthy *)
(* or deaf the adapter is (failover.rs, desired and set_pin).              *)
NoPhantomBackend == ~IpConfigured => Active = "cec" /\ pending = NoPending

(* A pending change is never left over from evidence since withdrawn: as   *)
(* long as one is pending, the signals as they stand call for it, and it   *)
(* is a change.  Together with the refinement of HysteresisSwitch: a       *)
(* change of backend is committed only when every observation of the hold  *)
(* period called for it (failover.rs, the pending arms of observe).        *)
PendingIsCalledFor ==
  pending # NoPending => /\ pending.to = Desired(health, deaf)
                         /\ pending.to # active

(* Rule 2: the adapter is judged deaf only on TxErrorThreshold consecutive *)
(* transmit failures with nothing accepted and nothing heard in between;   *)
(* failures alongside live traffic, or spread over several windows, are    *)
(* never evidence against our own adapter (failover.rs, record).  A clock  *)
(* that was stepped back voids the promise: a window that starts in the    *)
(* future neither ages nor hides what was heard.                           *)
DeafOnlyAfterSilentRun ==
  deaf => silentRun = TxErrorThreshold \/ steppedBack

(* Rule 4: the backend comes back to CEC only in the very step that        *)
(* observes a healthy adapter, never on a heard message, an accepted       *)
(* transmit, an operator's pin or the passing of time.                     *)
RecoveryIsObserved ==
  [][active = "ip" /\ active' = "cec" => Observe("healthy") /\ ~deaf']_vars

-----------------------------------------------------------------------------
(* What the decision promises, whatever it is decided from.                *)
Switch == INSTANCE HysteresisSwitch WITH
  position   <- active,
  doubtSince <- IF pending = NoPending THEN NoTime ELSE pending.since,
  Positions  <- Backends,
  HoldOf     <- [cec |-> RecoverAfter, ip |-> FailAfter]

(* The decision implements a two-position switch with hysteresis: it moves *)
(* only after the same doubt has been outstanding, uninterrupted, for the  *)
(* hold time of the position it moves to.                                  *)
SwitchSpec == Switch!Spec
=============================================================================
