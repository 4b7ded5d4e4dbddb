--------------------------- MODULE FailoverProofs ---------------------------
(***************************************************************************)
(* Proofs about Failover, for every value of its constants.                *)
(***************************************************************************)
EXTENDS Failover, TLAPS

USE ThresholdsAssumption, BoundsAssumption

-----------------------------------------------------------------------------
(* Types *)

(* Recording any observation keeps the signals in their types; the error   *)
(* counter saturates where the u32 does.                                   *)
LEMMA RecordTyped ==
  ASSUME TypeOK, NEW o \in Observations, Record(o), UNCHANGED now
  PROVE  /\ health' \in HealthStates /\ deaf' \in BOOLEAN
         /\ windowStart' \in Times /\ lastRxAt' \in Times
         /\ txErrors' \in 0..MaxErrors /\ silentRun' \in 0..TxErrorThreshold
<1> USE DEF TypeOK, Times, NoTime
<1>1. CASE RecordHealth(o)
  BY <1>1 DEF RecordHealth
<1>2. CASE RecordTxOk(o)
  <2>1. /\ txErrors' = 0 /\ windowStart' = NoTime /\ deaf' = FALSE
        /\ silentRun' = 0 /\ health' = health /\ lastRxAt' = lastRxAt
    BY <1>2 DEF RecordTxOk
  <2>2. health' \in HealthStates
    BY <2>1
  <2>3. deaf' \in BOOLEAN
    BY <2>1
  <2>4. windowStart' \in Times
    BY <2>1
  <2>5. lastRxAt' \in Times
    BY <2>1
  <2>6. txErrors' \in 0..MaxErrors
    BY <2>1
  <2>7. silentRun' \in 0..TxErrorThreshold
    BY <2>1
  <2> QED
    BY <2>2, <2>3, <2>4, <2>5, <2>6, <2>7
<1>3. CASE RecordRx(o)
  <2>1. /\ lastRxAt' = now /\ deaf' = FALSE /\ silentRun' = 0
        /\ health' = health /\ windowStart' = windowStart
        /\ txErrors' = txErrors
    BY <1>3 DEF RecordRx
  <2>2. deaf' \in BOOLEAN
    BY <2>1
  <2>3. lastRxAt' \in Times
    BY <2>1
  <2>4. /\ health' \in HealthStates /\ windowStart' \in Times
        /\ txErrors' \in 0..MaxErrors /\ silentRun' \in 0..TxErrorThreshold
    BY <2>1
  <2> QED
    BY <2>2, <2>3, <2>4
<1>4. CASE RecordTxError(o)
  BY <1>4 DEF RecordTxError, FreshRun, HeardInWindow, Since
<1> QED
  BY <1>1, <1>2, <1>3, <1>4 DEF Record

(* What the signals call for is always a backend.                          *)
LEMMA DesiredTyped ==
  ASSUME NEW h, NEW d
  PROVE  Desired(h, d) \in Backends
BY DEF Desired, Backends

(* The decision keeps active a backend and pending a candidate.            *)
LEMMA DecideTyped ==
  ASSUME TypeOK, NEW o, NEW want \in Backends, Decide(want, o)
  PROVE  /\ active' \in Backends
         /\ pending' \in [to : Backends \cup {"none"}, since : Nat]
<1> USE DEF TypeOK
<1>1. CASE Agree(want)
  BY <1>1 DEF Agree, NoPending
<1>2. CASE Start(want)
  BY <1>2 DEF Start
<1>3. CASE Wait(want, o)
  BY <1>3 DEF Wait, decisionVars
<1>4. CASE Commit(want, o)
  BY <1>4 DEF Commit, NoPending
<1> QED
  BY <1>1, <1>2, <1>3, <1>4 DEF Decide

(* Every reachable state is well typed.                                    *)
THEOREM TypeCorrect == Spec => []TypeOK
<1>1. Init => TypeOK
  <2> SUFFICES ASSUME Init PROVE TypeOK
    OBVIOUS
  <2>1. /\ now \in Nat /\ pin \in Pins /\ active \in Backends
        /\ pending \in [to : Backends \cup {"none"}, since : Nat]
    BY DEF Init, AtOpen, Pins, Backends, NoPending
  <2>2. health \in HealthStates
    BY DEF Init, AtOpen
  <2>3. deaf \in BOOLEAN
    BY DEF Init, AtOpen
  <2>4. /\ windowStart \in Times /\ lastRxAt \in Times
        /\ txErrors \in 0..MaxErrors /\ silentRun \in 0..TxErrorThreshold
    BY DEF Init, AtOpen, Times, NoTime
  <2>5. steppedBack \in BOOLEAN
    BY DEF Init
  <2> QED
    BY <2>1, <2>2, <2>3, <2>4, <2>5 DEF TypeOK
<1>2. TypeOK /\ [Next]_vars => TypeOK'
  <2> SUFFICES ASSUME TypeOK, [Next]_vars PROVE TypeOK'
    OBVIOUS
  <2>1. ASSUME NEW o \in Observations, Observe(o) PROVE TypeOK'
    <3>1. Record(o) /\ UNCHANGED <<now, pin, steppedBack>>
      BY <2>1 DEF Observe
    <3>2. PICK want \in Backends : Decide(want, o)
      BY <2>1, DesiredTyped DEF Observe
    <3>3. /\ active' \in Backends
          /\ pending' \in [to : Backends \cup {"none"}, since : Nat]
      BY <3>2, DecideTyped
    <3> QED
      BY <3>1, <3>3, RecordTyped DEF TypeOK
  <2>2. ASSUME NEW p \in Pins, SetPin(p) PROVE TypeOK'
    BY <2>2 DEF SetPin, TypeOK, signalVars
  <2>3. CASE Tick
    <3>1. now' \in 0..MaxNow
      BY <2>3, Zenon DEF Tick
    <3>2. UNCHANGED <<pin, active, pending, signalVars>>
      BY <2>3 DEF Tick
    <3>3. steppedBack' \in BOOLEAN
      <4>1. PICK t \in 0..MaxNow : steppedBack' = (steppedBack \/ t < now)
        BY <2>3, Zenon DEF Tick
      <4> QED
        BY <4>1, Zenon DEF TypeOK
    <3> QED
      BY <3>1, <3>2, <3>3 DEF TypeOK, signalVars
  <2>4. CASE UNCHANGED vars
    BY <2>4 DEF vars, TypeOK
  <2> QED
    BY <2>1, <2>2, <2>3, <2>4 DEF Next
<1> QED
  BY <1>1, <1>2, PTL DEF Spec

-----------------------------------------------------------------------------
(* The decision *)

(* One observation leaves either nothing pending, or a change the signals  *)
(* it recorded call for.                                                   *)
LEMMA ObserveDecides ==
  ASSUME TypeOK, PendingIsCalledFor, NEW o, Observe(o)
  PROVE  PendingIsCalledFor'
<1> DEFINE want == Desired(health', deaf')
<1>1. want \in Backends
  BY DesiredTyped
<1>2. CASE Agree(want)
  BY <1>2 DEF Agree, PendingIsCalledFor, NoPending
<1>3. CASE Start(want)
  BY <1>3 DEF Start, PendingIsCalledFor
<1>4. CASE Wait(want, o)
  BY <1>4 DEF Wait, PendingIsCalledFor, decisionVars
<1>5. CASE Commit(want, o)
  BY <1>5 DEF Commit, PendingIsCalledFor, NoPending
<1> QED
  BY <1>2, <1>3, <1>4, <1>5 DEF Observe, Decide

(* A pending change is always one that the current signals call for.       *)
THEOREM PendingCorrect == Spec => []PendingIsCalledFor
<1>1. Init => PendingIsCalledFor
  BY DEF Init, AtOpen, PendingIsCalledFor
<1>2. TypeOK /\ PendingIsCalledFor /\ [Next]_vars => PendingIsCalledFor'
  <2> SUFFICES ASSUME TypeOK, PendingIsCalledFor, [Next]_vars
               PROVE  PendingIsCalledFor'
    OBVIOUS
  <2>1. ASSUME NEW o \in Observations, Observe(o) PROVE PendingIsCalledFor'
    BY <2>1, ObserveDecides
  <2>2. ASSUME NEW p \in Pins, SetPin(p) PROVE PendingIsCalledFor'
    BY <2>2 DEF SetPin, PendingIsCalledFor, signalVars, Desired
  <2>3. CASE Tick
    BY <2>3 DEF Tick, PendingIsCalledFor, signalVars, Desired
  <2>4. CASE UNCHANGED vars
    BY <2>4 DEF vars, PendingIsCalledFor, Desired
  <2> QED
    BY <2>1, <2>2, <2>3, <2>4 DEF Next
<1> QED
  BY <1>1, <1>2, TypeCorrect, PTL DEF Spec

(* The strengthening of NoPhantomBackend: Active shows only one of the     *)
(* automatic decision and the pin, so each has its own conjunct.           *)
OnlyCec == ~IpConfigured => /\ active = "cec" /\ pin # "ip"
                            /\ pending = NoPending

(* Without an IP leg, OnlyCec holds throughout.                            *)
LEMMA OnlyCecCorrect == Spec => []OnlyCec
<1>1. Init => OnlyCec
  BY DEF Init, AtOpen, OnlyCec
<1>2. TypeOK /\ OnlyCec /\ [Next]_vars => OnlyCec'
  <2> SUFFICES ASSUME TypeOK, OnlyCec, [Next]_vars, ~IpConfigured
               PROVE  active' = "cec" /\ pin' # "ip" /\ pending' = NoPending
    BY DEF OnlyCec
  <2> USE DEF OnlyCec
  <2>1. ASSUME NEW o \in Observations, Observe(o)
        PROVE  active' = "cec" /\ pin' # "ip" /\ pending' = NoPending
    <3>1. Desired(health', deaf') = "cec"
      BY DEF Desired
    <3>2. Decide("cec", o) /\ pin' = pin
      BY <2>1, <3>1 DEF Observe
    <3> QED
      BY <3>2 DEF Decide, Agree, Start, Wait, Commit
  <2>2. ASSUME NEW p \in Pins, SetPin(p)
        PROVE  active' = "cec" /\ pin' # "ip" /\ pending' = NoPending
    BY <2>2 DEF SetPin
  <2>3. CASE Tick
    BY <2>3 DEF Tick
  <2>4. CASE UNCHANGED vars
    BY <2>4 DEF vars
  <2> QED
    BY <2>1, <2>2, <2>3, <2>4 DEF Next
<1> QED
  BY <1>1, <1>2, TypeCorrect, PTL DEF Spec

(* Without an IP leg no phantom backend is active, pending or pinned.      *)
THEOREM NoPhantomCorrect == Spec => []NoPhantomBackend
<1>1. TypeOK /\ OnlyCec => NoPhantomBackend
  <2> SUFFICES ASSUME TypeOK, OnlyCec, ~IpConfigured
               PROVE  Active = "cec" /\ pending = NoPending
    BY DEF NoPhantomBackend
  <2>1. pin \in {"auto", "cec"}
    BY DEF TypeOK, OnlyCec, Pins
  <2> QED
    BY <2>1 DEF OnlyCec, Active
<1> QED
  BY <1>1, TypeCorrect, OnlyCecCorrect, PTL

(* The backend comes back to CEC only when a healthy adapter is observed.  *)
THEOREM RecoveryCorrect == Spec => RecoveryIsObserved
<1> DEFINE Recovers == active = "ip" /\ active' = "cec"
<1>1. TypeOK /\ OnlyCec /\ [Next]_vars
        => (Recovers => Observe("healthy") /\ ~deaf')
  <2> SUFFICES ASSUME TypeOK, OnlyCec, [Next]_vars, Recovers
               PROVE  Observe("healthy") /\ ~deaf'
    OBVIOUS
  <2>1. PICK o \in Observations : Observe(o)
    BY DEF Next, SetPin, Tick, vars
  <2>2. Commit(Desired(health', deaf'), o)
    BY <2>1 DEF Observe, Decide, Agree, Start, Wait, decisionVars
  <2>3. Desired(health', deaf') = "cec"
    BY <2>2 DEF Commit
  <2>4. o = "healthy"
    BY <2>2, <2>3 DEF Commit, MayCommit
  <2>5. health' = "healthy"
    BY <2>1, <2>4 DEF Observe, Record, RecordHealth, RecordTxOk, RecordRx,
                      RecordTxError
  <2>6. IpConfigured
    BY DEF OnlyCec
  <2>7. deaf' = FALSE
    <3>1. deaf' \in BOOLEAN
      BY <2>1, RecordTyped DEF Observe
    <3> QED
      BY <2>3, <2>6, <3>1 DEF Desired
  <2> QED
    BY <2>1, <2>4, <2>7
<1> QED
  BY <1>1, TypeCorrect, OnlyCecCorrect, PTL DEF Spec, RecoveryIsObserved
-----------------------------------------------------------------------------
(* The transmit-side rule *)

(* Why a deaf verdict is evidence: as long as the clock has not stepped,   *)
(* a run of failures that began after the bus was last heard is counted    *)
(* no further than the failures that really followed one another.          *)
RunIsSilent ==
  /\ windowStart <= now
  /\ lastRxAt <= now
  /\ windowStart = NoTime => txErrors = 0
  /\ lastRxAt < windowStart
       => txErrors <= silentRun \/ silentRun = TxErrorThreshold

EvidenceInv == ~steppedBack => RunIsSilent /\ DeafOnlyAfterSilentRun

(* Recording an observation keeps the evidence sound.                      *)
LEMMA RecordKeepsEvidence ==
  ASSUME TypeOK, EvidenceInv, NEW o \in Observations, Record(o),
         UNCHANGED <<now, steppedBack>>
  PROVE  EvidenceInv'
<1> SUFFICES ASSUME ~steppedBack, ~steppedBack' PROVE EvidenceInv'
  BY DEF EvidenceInv, DeafOnlyAfterSilentRun
<1> USE DEF EvidenceInv, RunIsSilent, DeafOnlyAfterSilentRun
<1>0. /\ now \in Nat /\ windowStart \in Nat \cup {-1}
      /\ lastRxAt \in Nat \cup {-1} /\ txErrors \in 0..MaxErrors
      /\ silentRun \in 0..TxErrorThreshold /\ NoTime = -1 /\ now' = now
  BY DEF TypeOK, Times, NoTime
<1>1. CASE RecordHealth(o)
  BY <1>0, <1>1 DEF RecordHealth
<1>2. CASE RecordTxOk(o)
  BY <1>0, <1>2 DEF RecordTxOk
<1>3. CASE RecordRx(o)
  BY <1>0, <1>3 DEF RecordRx
<1>4. CASE RecordTxError(o)
  <2>1. /\ lastRxAt' = lastRxAt
        /\ silentRun' = IF silentRun < TxErrorThreshold THEN silentRun + 1
                        ELSE silentRun
    BY <1>4 DEF RecordTxError
  <2>2. CASE FreshRun
    <3>1. windowStart' = now /\ txErrors' = 1
      BY <1>4, <2>2 DEF RecordTxError
    <3>2. deaf' = deaf
      BY <1>0, <1>4, <3>1 DEF RecordTxError, TypeOK
    <3> QED
      BY <1>0, <2>1, <3>1, <3>2
  <2>3. CASE ~FreshRun
    <3>1. /\ windowStart' = windowStart /\ windowStart # NoTime
          /\ now - windowStart <= TxErrorWindow
      BY <1>0, <1>4, <2>3 DEF RecordTxError, FreshRun, Since
    <3>2. txErrors' = IF txErrors < MaxErrors THEN txErrors + 1 ELSE txErrors
      BY <1>4, <2>3 DEF RecordTxError
    <3>3. RunIsSilent'
      BY <1>0, <2>1, <3>1, <3>2
    <3>4. ASSUME ~deaf, deaf' PROVE silentRun' = TxErrorThreshold
      <4>1. txErrors' >= TxErrorThreshold /\ ~HeardInWindow
        BY <1>4, <3>4 DEF RecordTxError
      <4>2. lastRxAt < windowStart
        BY <1>0, <3>1, <4>1 DEF HeardInWindow, Since
      <4> QED
        BY <1>0, <2>1, <3>1, <3>2, <4>1, <4>2
    <3>5. ASSUME deaf PROVE silentRun' = TxErrorThreshold
      BY <1>0, <2>1, <3>5
    <3> QED
      BY <3>3, <3>4, <3>5
  <2> QED
    BY <2>2, <2>3
<1> QED
  BY <1>1, <1>2, <1>3, <1>4 DEF Record

(* Until the clock is stepped back, the adapter is judged deaf only after  *)
(* TxErrorThreshold failures in a row with nothing accepted or heard in    *)
(* between.                                                                *)
THEOREM DeafCorrect == Spec => []DeafOnlyAfterSilentRun
<1>1. Init => EvidenceInv
  BY DEF Init, AtOpen, EvidenceInv, RunIsSilent, DeafOnlyAfterSilentRun, NoTime
<1>2. TypeOK /\ EvidenceInv /\ [Next]_vars => EvidenceInv'
  <2> SUFFICES ASSUME TypeOK, EvidenceInv, [Next]_vars PROVE EvidenceInv'
    OBVIOUS
  <2>1. ASSUME NEW o \in Observations, Observe(o) PROVE EvidenceInv'
    BY <2>1, RecordKeepsEvidence DEF Observe
  <2>2. ASSUME NEW p \in Pins, SetPin(p) PROVE EvidenceInv'
    BY <2>2 DEF SetPin, signalVars, EvidenceInv, RunIsSilent,
                DeafOnlyAfterSilentRun
  <2>3. CASE Tick
    <3>1. steppedBack' \/ (now' > now /\ ~steppedBack)
      BY <2>3 DEF Tick, TypeOK
    <3>2. UNCHANGED signalVars /\ now' \in Nat
      BY <2>3 DEF Tick
    <3> QED
      BY <3>1, <3>2 DEF signalVars, EvidenceInv, RunIsSilent,
                DeafOnlyAfterSilentRun, TypeOK, Times, NoTime
  <2>4. CASE UNCHANGED vars
    BY <2>4 DEF vars, EvidenceInv, RunIsSilent, DeafOnlyAfterSilentRun
  <2> QED
    BY <2>1, <2>2, <2>3, <2>4 DEF Next
<1>3. EvidenceInv => DeafOnlyAfterSilentRun
  BY DEF EvidenceInv, DeafOnlyAfterSilentRun
<1> QED
  BY <1>1, <1>2, <1>3, TypeCorrect, PTL DEF Spec

-----------------------------------------------------------------------------
(* The refinement *)

(* The decision implements the two-position switch with hysteresis: the    *)
(* initial states map to initial states and every step maps to a step of   *)
(* HysteresisSwitch or to a stutter.                                       *)
THEOREM ImplementsSwitch == Spec => SwitchSpec
<1> DEFINE doubt == IF pending = NoPending THEN NoTime ELSE pending.since
           hold  == [cec |-> RecoverAfter, ip |-> FailAfter]
<1>1. Init => Switch!Init
  BY DEF Init, AtOpen, Switch!Init, Backends
<1>2. TypeOK /\ PendingIsCalledFor /\ TypeOK' /\ [Next]_vars
        => [Switch!Next]_(Switch!switchVars)
  <2> SUFFICES ASSUME TypeOK, PendingIsCalledFor, TypeOK', [Next]_vars
               PROVE  Switch!Next \/ UNCHANGED Switch!switchVars
    BY DEF Switch!switchVars
  <2>1. ASSUME NEW o \in Observations, Observe(o)
        PROVE  Switch!Next \/ UNCHANGED Switch!switchVars
    <3> DEFINE want == Desired(health', deaf')
    <3>0. want \in Backends /\ now' = now
      BY <2>1, DesiredTyped DEF Observe
    <3> HIDE DEF want
    <3>1. CASE Agree(want)
      <4>1. active' = active /\ doubt' = NoTime
        BY <3>1 DEF Agree
      <4> QED
        BY <3>0, <4>1 DEF Switch!Next, Switch!Reassure, Switch!switchVars
    <3>2. CASE Start(want)
      <4>1. pending = NoPending
        BY <3>0, <3>2 DEF Start, PendingIsCalledFor, TypeOK, Backends, Desired
      <4>2. doubt = NoTime /\ doubt' = now /\ active' = active
        BY <3>0, <3>2, <4>1 DEF Start, NoPending, Backends
      <4> QED
        BY <3>0, <4>2 DEF Switch!Next, Switch!Doubt
    <3>3. CASE Wait(want, o)
      BY <3>0, <3>3 DEF Wait, decisionVars, Switch!switchVars
    <3>4. CASE Commit(want, o)
      <4>1. pending # NoPending /\ pending.since \in Nat
        BY <3>0, <3>4 DEF Commit, NoPending, Backends, TypeOK
      <4>2. doubt = pending.since /\ doubt # NoTime /\ doubt' = NoTime
        BY <3>4, <4>1 DEF Commit, NoTime
      <4>3. Since(pending.since) >= hold[want]
        BY <3>0, <3>4 DEF Commit, Hold, Backends
      <4>4. Switch!Move(want)
        BY <3>0, <3>4, <4>2, <4>3 DEF Commit, Switch!Move, Switch!Elapsed, Since
      <4> QED
        BY <3>0, <4>4 DEF Switch!Next
    <3> QED
      BY <2>1, <3>1, <3>2, <3>3, <3>4 DEF Observe, Decide, want
  <2>2. ASSUME NEW p \in Pins, SetPin(p)
        PROVE  Switch!Next \/ UNCHANGED Switch!switchVars
    BY <2>2 DEF SetPin, Switch!switchVars
  <2>3. CASE Tick
    BY <2>3 DEF Tick, TypeOK, Switch!Next, Switch!ClockMoves
  <2>4. CASE UNCHANGED vars
    BY <2>4 DEF vars, Switch!switchVars
  <2> QED
    BY <2>1, <2>2, <2>3, <2>4 DEF Next
<1> QED
  BY <1>1, <1>2, TypeCorrect, PendingCorrect, PTL
     DEF Spec, SwitchSpec, Switch!Spec
=============================================================================
