------------------------ MODULE DisplayControlProofs ------------------------
(***************************************************************************)
(* Proofs about DisplayControl, for any clients, devices and configuration *)
(* of the IP leg, with messages lost and claims in every window.           *)
(***************************************************************************)
EXTENDS DisplayControl, SequenceTheorems, TLAPS

-----------------------------------------------------------------------------
(* Plans *)

(* The plan of each verb, case by case.                                    *)
LEMMA PlanOfVerb ==
  ASSUME NEW t, NEW ours
  PROVE  /\ Transmits("wake", t, ours) =
              <<Msg("imageViewOn", "tv"), Msg("activeSource", ours)>>
         /\ Transmits("inputClaim", t, ours) = <<Msg("activeSource", ours)>>
         /\ Transmits("standby", t, ours) =
              <<Msg("standby", "tv"), Msg("standby", "audioSystem")>>
         /\ Transmits("inputRelease", t, ours) =
              <<Msg("inactiveSource", ours)>>
         /\ Transmits("inputSelect", t, ours) = <<Msg("setStreamPath", t)>>
BY Zenon DEF Transmits

(* Every plan has one message or two.                                      *)
LEMMA PlanLength ==
  ASSUME NEW v \in Verbs, NEW t, NEW ours
  PROVE  Len(Transmits(v, t, ours)) \in 1..2
BY PlanOfVerb DEF Verbs

(* The last message of a claim's plan is the <Active Source>.              *)
LEMMA ClaimEndsInActiveSource ==
  ASSUME NEW v \in ClaimVerbs, NEW t, NEW ours
  PROVE  LET plan == Transmits(v, t, ours)
         IN  plan[Len(plan)].op = "activeSource"
<1>1. CASE v = "wake"
  <2>1. Transmits(v, t, ours) =
          <<Msg("imageViewOn", "tv"), Msg("activeSource", ours)>>
    BY <1>1, PlanOfVerb
  <2>2. Len(Transmits(v, t, ours)) = 2
        /\ Transmits(v, t, ours)[2] = Msg("activeSource", ours)
    BY <2>1
  <2> QED
    BY <2>2 DEF Msg
<1>2. CASE v = "inputClaim"
  <2>1. Transmits(v, t, ours) = <<Msg("activeSource", ours)>>
    BY <1>2, PlanOfVerb
  <2>2. Len(Transmits(v, t, ours)) = 1
        /\ Transmits(v, t, ours)[1] = Msg("activeSource", ours)
    BY <2>1
  <2> QED
    BY <2>2 DEF Msg
<1> QED
  BY <1>1, <1>2 DEF ClaimVerbs

(* No plan of ours claims for anybody else.                                *)
LEMMA PlansClaimForUs ==
  ASSUME NEW v \in Verbs, NEW t, NEW ours,
         NEW i \in 1..Len(Transmits(v, t, ours)),
         Transmits(v, t, ours)[i].op = "activeSource"
  PROVE  Transmits(v, t, ours)[i].arg = ours
<1>1. CASE v = "wake"
  <2>1. Transmits(v, t, ours) =
          <<Msg("imageViewOn", "tv"), Msg("activeSource", ours)>>
    BY <1>1, PlanOfVerb
  <2>2. Transmits(v, t, ours)[i] \in
          {Msg("imageViewOn", "tv"), Msg("activeSource", ours)}
    BY <2>1
  <2> QED
    BY <2>2 DEF Msg
<1>2. CASE v = "standby"
  <2>1. Transmits(v, t, ours) =
          <<Msg("standby", "tv"), Msg("standby", "audioSystem")>>
    BY <1>2, PlanOfVerb
  <2>2. Transmits(v, t, ours)[i] \in
          {Msg("standby", "tv"), Msg("standby", "audioSystem")}
    BY <2>1
  <2> QED
    BY <2>2 DEF Msg
<1>3. CASE v \in {"inputClaim", "inputRelease", "inputSelect"}
  <2>1. PICK m \in {Msg("activeSource", ours), Msg("inactiveSource", ours),
                    Msg("setStreamPath", t)} : Transmits(v, t, ours) = <<m>>
    BY <1>3, PlanOfVerb
  <2>2. Transmits(v, t, ours)[i] = m
    BY <2>1
  <2> QED
    BY <2>1, <2>2 DEF Msg
<1> QED
  BY <1>1, <1>2, <1>3 DEF Verbs

-----------------------------------------------------------------------------
(* The IP leg *)

(* A line that is sent or not is a sequence of lines.                      *)
LEMMA OptionalLineTyped ==
  ASSUME NEW b, NEW l \in TelnetLines
  PROVE  OptionalLine(b, l) \in Seq(TelnetLines) /\ <<l>> \in Seq(TelnetLines)
BY DEF OptionalLine

(* What the leg plans to send is made of its four lines.                   *)
LEMMA LinesTyped ==
  ASSUME NEW v \in Verbs, NEW role
  PROVE  PlannedLines(v, role) \in Seq(TelnetLines)
<1>2. {"PWON", "SI", "Z2OFF", "PWSTANDBY"} \subseteq TelnetLines
  BY DEF TelnetLines
<1>3. WakeCommands(role) \in Seq(TelnetLines)
  <2>1. OptionalLine(MainPower \/ role = "authority", "PWON") \in Seq(TelnetLines)
    BY <1>2, OptionalLineTyped
  <2>2. OptionalLine(AvrInput, "SI") \in Seq(TelnetLines)
    BY <1>2, OptionalLineTyped
  <2> QED
    BY <2>1, <2>2 DEF WakeCommands
<1>4. StandbyCommands \in Seq(TelnetLines)
  <2>1. OptionalLine(Zone2Off, "Z2OFF") \in Seq(TelnetLines)
    BY <1>2, OptionalLineTyped
  <2>2. OptionalLine(MainPower, "PWSTANDBY") \in Seq(TelnetLines)
    BY <1>2, OptionalLineTyped
  <2> QED
    BY <2>1, <2>2 DEF StandbyCommands
<1>5. << >> \in Seq(TelnetLines)
  OBVIOUS
<1>6. PlannedLines(v, role) \in {<< >>, WakeCommands(role), StandbyCommands}
  BY Zenon DEF PlannedLines
<1> QED
  BY <1>3, <1>4, <1>5, <1>6

(* What reaches the receiver is a prefix of what was planned, and all of   *)
(* it when the report says that the leg did its work.                      *)
LEMMA ReportsTyped ==
  ASSUME NEW v \in Verbs, NEW role, NEW report \in IpReports(v, role)
  PROVE  /\ report.reached \in Seq(TelnetLines)
         /\ report.ok => /\ report.commands = PlannedLines(v, role)
                         /\ report.reached = PlannedLines(v, role)
         /\ report.wolPackets \in 0..WolPacketRepeats
         /\ report.ok => report.wolPackets = IF PlansWol(v) THEN WolPacketRepeats
                                                            ELSE 0
         /\ ~PlansWol(v) => report.wolPackets = 0
<1> DEFINE lines == PlannedLines(v, role)
           wols == IF PlansWol(v) THEN 0..WolPacketRepeats ELSE {0}
<1>1. lines \in Seq(TelnetLines)
  BY LinesTyped
<1> HIDE DEF lines
<1>0. wols \subseteq 0..WolPacketRepeats /\ (~PlansWol(v) => wols = {0})
  BY DEF WolPacketRepeats
<1>2. CASE \E n \in wols :
             report = [wolPackets |-> n, commands |-> lines, reached |-> lines,
                       ok |-> ~(PlansWol(v) /\ n < WolPacketRepeats)]
  <2>1. PICK n \in wols :
          report = [wolPackets |-> n, commands |-> lines, reached |-> lines,
                    ok |-> ~(PlansWol(v) /\ n < WolPacketRepeats)]
    BY <1>2
  <2>2. n \in 0..WolPacketRepeats /\ (~PlansWol(v) => n = 0)
    BY <1>0
  <2>3. ~(PlansWol(v) /\ n < WolPacketRepeats)
          => n = IF PlansWol(v) THEN WolPacketRepeats ELSE 0
    BY <2>2 DEF WolPacketRepeats
  <2> QED
    BY <1>1, <2>1, <2>2, <2>3 DEF lines
<1>3. CASE \E n \in wols, k \in 0..Len(lines) :
             report = [wolPackets |-> n, commands |-> << >>,
                       reached |-> SubSeq(lines, 1, k), ok |-> FALSE]
  <2>1. PICK n \in wols, k \in 0..Len(lines) :
          report = [wolPackets |-> n, commands |-> << >>,
                    reached |-> SubSeq(lines, 1, k), ok |-> FALSE]
    BY <1>3
  <2>2. SubSeq(lines, 1, k) \in Seq(TelnetLines)
    <3>1. Len(lines) \in Nat
      BY <1>1
    <3>2. k \in Int /\ \A i \in 1..k : lines[i] \in TelnetLines
      BY <1>1, <3>1
    <3> QED
      BY <3>2, SubSeqProperties
  <2>3. n \in 0..WolPacketRepeats /\ (~PlansWol(v) => n = 0)
    BY <1>0
  <2> QED
    BY <2>1, <2>2, <2>3
<1> QED
  BY <1>2, <1>3 DEF IpReports, lines

-----------------------------------------------------------------------------
(* Events *)

(* Only a release puts an <Inactive Source> on the bus.                    *)
LEMMA ReleasesAreReleases ==
  ASSUME NEW v \in Verbs, NEW t, NEW ours,
         NEW i \in 1..Len(Transmits(v, t, ours)),
         Transmits(v, t, ours)[i].op = "inactiveSource"
  PROVE  v = "inputRelease"
<1>1. CASE v = "wake"
  <2>1. Transmits(v, t, ours) =
          <<Msg("imageViewOn", "tv"), Msg("activeSource", ours)>>
    BY <1>1, PlanOfVerb
  <2>2. Transmits(v, t, ours)[i] \in
          {Msg("imageViewOn", "tv"), Msg("activeSource", ours)}
    BY <2>1
  <2> QED
    BY <2>2 DEF Msg
<1>2. CASE v = "standby"
  <2>1. Transmits(v, t, ours) =
          <<Msg("standby", "tv"), Msg("standby", "audioSystem")>>
    BY <1>2, PlanOfVerb
  <2>2. Transmits(v, t, ours)[i] \in
          {Msg("standby", "tv"), Msg("standby", "audioSystem")}
    BY <2>1
  <2> QED
    BY <2>2 DEF Msg
<1>3. CASE v \in {"inputClaim", "inputSelect"}
  <2>1. PICK m \in {Msg("activeSource", ours), Msg("setStreamPath", t)} :
          Transmits(v, t, ours) = <<m>>
    BY <1>3, PlanOfVerb
  <2>2. Transmits(v, t, ours)[i] = m
    BY <2>1
  <2> QED
    BY <2>2 DEF Msg
<1> QED
  BY <1>1, <1>2, <1>3 DEF Verbs

(* What an event says of another device is never said of us.               *)
LEMMA EventsNameOthers ==
  ASSUME NEW e \in BusEvents \cup {NoEvent}
  PROVE  /\ e.op = "activeSource" => e.arg \in Others \cup {Invalid}
         /\ e.op = "powerStatus" => e.arg \in PowerStates
BY DEF BusEvents, Asides, NoEvent, Msg

(* So an event leaves the owner where it was, or names another device, an  *)
(* invalid address or nobody.                                              *)
LEMMA OwnerAfterTyped ==
  ASSUME NEW e \in BusEvents \cup {NoEvent}
  PROVE  /\ IsNews(e) => OwnerAfter(e) \in Others \cup {Unknown, Invalid}
         /\ ~IsNews(e) => OwnerAfter(e) = owner
<1>1. /\ e.op = "activeSource" => OwnerAfter(e) = e.arg
      /\ e.op \in {"inactiveSource", "stateChange"} => OwnerAfter(e) = Unknown
      /\ ~IsNews(e) => OwnerAfter(e) = owner
  BY Zenon DEF OwnerAfter, IsNews
<1> QED
  BY <1>1, EventsNameOthers DEF IsNews

\* The steps that are not a client's.
Outside ==
  \/ \E d \in Others : OtherClaims(d) \/ OtherReleases(d)
  \/ \E event \in Asides : Reported(event)
  \/ BackendMoves \/ ReceiveLoop

-----------------------------------------------------------------------------
(* Types *)

\* A client has had fewer messages accepted than it has come to.
ProgressOf(c) ==
  /\ pc[c] \in {"ipLeg", "gate"} => next[c] = 1 /\ landed[c] = 0
  /\ pc[c] = "transmit" =>
       next[c] \in 1..Len(PlanOf(c)) /\ landed[c] < next[c]

Progress == \A c \in Clients : ProgressOf(c)

\* A step of client c leaves the others where they are.
OthersStay(c) ==
  \A x \in Clients \ {c} :
    /\ pc'[x] = pc[x] /\ next'[x] = next[x] /\ landed'[x] = landed[x]
    /\ verb'[x] = verb[x] /\ target'[x] = target[x]

(* A step that keeps its own client's progress keeps everybody's.          *)
LEMMA ProgressOfOthers ==
  ASSUME Progress, NEW c \in Clients, OthersStay(c), ProgressOf(c)'
  PROVE  Progress'
<1> SUFFICES ASSUME NEW x \in Clients, x # c PROVE ProgressOf(x)'
  BY DEF Progress
<1> QED
  BY DEF Progress, ProgressOf, OthersStay, PlanOf

(* The steps of the environment and of the receive loop keep the types.    *)
LEMMA OutsideTyped ==
  ASSUME TypeOK,
         Outside
  PROVE  /\ holder' \in Others \cup {Us, Nobody} /\ backend' \in {"cec", "ip"}
         /\ queue' \in Seq(BusEvents) /\ Len(queue') <= MaxQueue
         /\ rx' \in BusEvents \cup {NoEvent}
         /\ owner' \in Others \cup {Us, Unknown, Invalid}
         /\ tvPower' \in PowerStates \cup {Unknown}
         /\ heard' \in Others \cup {Unknown, Invalid}
         /\ UNCHANGED <<clientVars, claimed>>
<1> USE DEF TypeOK, envVars, recordVars, historyVars
<1>0. /\ \A d \in Others : /\ Msg("activeSource", d) \in BusEvents
                            /\ Msg("inactiveSource", d) \in BusEvents
      /\ Asides \subseteq BusEvents
  BY DEF BusEvents
<1>1. ASSUME NEW e \in BusEvents, Deliver(e)
      PROVE  queue' \in Seq(BusEvents) /\ Len(queue') <= MaxQueue
  BY <1>1, BoundsAssumption DEF Deliver
<1>2. CASE \E d \in Others : OtherClaims(d)
  BY <1>0, <1>1, <1>2 DEF OtherClaims
<1>3. CASE \E d \in Others : OtherReleases(d)
  BY <1>0, <1>1, <1>3 DEF OtherReleases
<1>4. CASE \E event \in Asides : Reported(event)
  BY <1>0, <1>1, <1>4 DEF Reported
<1>5. CASE BackendMoves
  BY <1>5 DEF BackendMoves
<1>6. CASE Hear
  BY <1>6, BoundsAssumption DEF Hear
<1>7. CASE Fold
  <2>1. rx \in BusEvents \cup {NoEvent} /\ rx' = NoEvent
    BY <1>7 DEF Fold
  <2>2. owner' \in Others \cup {Us, Unknown, Invalid}
    BY <1>7, <2>1, OwnerAfterTyped DEF Fold
  <2>3. heard' \in Others \cup {Unknown, Invalid}
    BY <1>7, <2>1, OwnerAfterTyped DEF Fold
  <2>4. tvPower' \in PowerStates \cup {Unknown}
    <3>1. tvPower' \in {rx.arg, Unknown, tvPower}
          /\ (tvPower' = rx.arg => rx.op = "powerStatus" \/ tvPower' \in {Unknown, tvPower})
      BY <1>7, Zenon DEF Fold
    <3> QED
      BY <2>1, <3>1, EventsNameOthers
  <2> QED
    BY <1>7, <2>1, <2>2, <2>3, <2>4 DEF Fold
<1> QED
  BY <1>2, <1>3, <1>4, <1>5, <1>6, <1>7 DEF Outside, ReceiveLoop

(* Starting an action keeps the types and resets its count of messages.    *)
LEMMA BeginTyped ==
  ASSUME TypeOK, Progress, NEW c \in Clients, Begin(c)
  PROVE  TypeOK' /\ Progress'
<1> USE DEF TypeOK, envVars, recordVars, historyVars
<1>1. PICK v \in Verbs, t \in Others \cup {Us, Invalid} :
        /\ verb' = [verb EXCEPT ![c] = v]
        /\ target' = [target EXCEPT ![c] = t]
  BY BoundsAssumption DEF Begin
<1>2. TypeOK'
  BY <1>1 DEF Begin, WolPacketRepeats
<1>3. OthersStay(c) /\ ProgressOf(c)'
  BY <1>1 DEF Begin, ProgressOf, OthersStay
<1> QED
  BY <1>2, <1>3, ProgressOfOthers

(* So do the IP leg and the gate, which ends before the first message.     *)
LEMMA RunIpLegTyped ==
  ASSUME TypeOK, Progress, NEW c \in Clients, RunIpLeg(c)
  PROVE  TypeOK' /\ Progress'
<1> USE DEF TypeOK, envVars, recordVars, historyVars
<1>1. PICK report \in IpReports(verb[c], IpRole(via[c])) :
        /\ reached' = [reached EXCEPT ![c] = report.reached]
        /\ packets' = [packets EXCEPT ![c] = report.wolPackets]
        /\ IF via[c] = "ip"
           THEN Finish(c, Judge(verb[c], report))
           ELSE pc' = [pc EXCEPT ![c] = "gate"] /\ UNCHANGED outcome
  BY DEF RunIpLeg
<1>2. Judge(verb[c], report) \in {"done", "failed"}
  BY DEF Judge
<1>3. /\ UNCHANGED <<envVars, queue, rx, recordVars, historyVars, verb, target,
                     via, next, landed>>
  BY DEF RunIpLeg
<1>4. /\ pc' \in [Clients -> {"idle", "ipLeg", "gate", "transmit", "record",
                              "readBack"}]
      /\ outcome' \in [Clients -> {"none", "done", "refused", "failed"}]
      /\ reached' \in [Clients -> Seq(TelnetLines)]
      /\ packets' \in [Clients -> 0..WolPacketRepeats]
  <2>1. /\ report.reached \in Seq(TelnetLines)
        /\ report.wolPackets \in 0..WolPacketRepeats
    BY ReportsTyped
  <2>2. /\ pc \in [Clients -> {"idle", "ipLeg", "gate", "transmit", "record",
                               "readBack"}]
        /\ outcome \in [Clients -> {"none", "done", "refused", "failed"}]
        /\ reached \in [Clients -> Seq(TelnetLines)]
    OBVIOUS
  <2>3. reached' \in [Clients -> Seq(TelnetLines)]
    BY <1>1, <2>1, <2>2, Zenon
  <2>4. /\ pc' \in [Clients -> {"idle", "ipLeg", "gate", "transmit", "record",
                                "readBack"}]
        /\ outcome' \in [Clients -> {"none", "done", "refused", "failed"}]
    BY <1>1, <1>2, <2>2 DEF Finish
  <2>5. packets' \in [Clients -> 0..WolPacketRepeats]
    BY <1>1, <2>1
  <2> QED
    BY <2>3, <2>4, <2>5
<1>5. TypeOK'
  BY <1>3, <1>4
<1>6. pc[c] = "ipLeg"
  BY DEF RunIpLeg
<1>7. OthersStay(c) /\ ProgressOf(c)'
  BY <1>1, <1>3, <1>6 DEF Finish, OthersStay, ProgressOf, Progress
<1> QED
  BY <1>5, <1>7, ProgressOfOthers

(* The gate refuses, which ends the action, or starts its plan.            *)
LEMMA GateTyped ==
  ASSUME TypeOK, Progress, NEW c \in Clients, Gate(c)
  PROVE  TypeOK' /\ Progress'
<1> USE DEF envVars, recordVars, historyVars
<1>1. /\ pc[c] = "gate"
      /\ \/ Finish(c, "refused")
         \/ pc' = [pc EXCEPT ![c] = "transmit"] /\ UNCHANGED outcome
  BY DEF Gate
<1>2. UNCHANGED <<envVars, queue, rx, recordVars, historyVars, verb, target,
                  via, next, landed, reached, packets>>
  BY DEF Gate
<1>3. TypeOK'
  BY <1>1, <1>2 DEF Finish, TypeOK
<1>4. Len(PlanOf(c))' \in 1..2
  BY <1>2, PlanLength DEF PlanOf, TypeOK
<1>5. OthersStay(c)
  BY <1>1, <1>2 DEF Finish, OthersStay, TypeOK
<1>6. /\ pc'[c] \in {"idle", "transmit"} /\ next'[c] = 1 /\ landed'[c] = 0
      /\ next' \in [Clients -> 1..2] /\ landed' \in [Clients -> 0..2]
  BY <1>1, <1>2 DEF Finish, ProgressOf, Progress, TypeOK
<1>7. ProgressOf(c)'
  BY <1>4, <1>6 DEF ProgressOf
<1> QED
  BY <1>3, <1>5, <1>7, ProgressOfOthers

\* What Proceed may make of the program counter, by where it leaves the plan.
Proceeds(c) ==
  \/ /\ next[c] < Len(PlanOf(c)) /\ next' = [next EXCEPT ![c] = @ + 1]
     /\ UNCHANGED <<pc, outcome>>
  \/ /\ next[c] = Len(PlanOf(c)) /\ UNCHANGED next
     /\ \E p \in {"record", "readBack", "idle"} :
          pc' = [pc EXCEPT ![c] = p]
     /\ \/ UNCHANGED outcome
        \/ outcome' = [outcome EXCEPT ![c] = "done"]

(* Proceed only moves to the next message, or ends the plan.               *)
LEMMA ProceedIsProceeds ==
  ASSUME NEW c \in Clients, Proceed(c) PROVE Proceeds(c)
BY DEF Proceed, Proceeds, Finish

(* What a transmit does: a message is accepted, or one of a standby after  *)
(* an accepted one is passed over, or the action fails; a message that is  *)
(* not accepted may have arrived.                                          *)
LEMMA TransmitParts ==
  ASSUME NEW c \in Clients, Transmit(c)
  PROVE  /\ pc[c] = "transmit"
         /\ UNCHANGED <<backend, queue, rx, recordVars, verb, target, via,
                        reached, packets>>
         /\ Lands(PlanOf(c)[next[c]]) \/ UNCHANGED <<holder, heard>>
         /\ \/ /\ Lands(PlanOf(c)[next[c]])
               /\ landed' = [landed EXCEPT ![c] = @ + 1]
               /\ claimed' = (claimed \/ PlanOf(c)[next[c]].op = "activeSource")
               /\ Proceed(c)
            \/ /\ verb[c] = "standby" /\ landed[c] > 0 /\ Proceed(c)
               /\ UNCHANGED <<claimed, landed>>
            \/ /\ verb[c] = "standby" => ~(landed[c] > 0)
               /\ Finish(c, "failed")
               /\ UNCHANGED <<claimed, landed, next>>
BY DEF Transmit, Tolerable

(* Transmitting keeps the types: an accepted message is counted, a         *)
(* tolerated one is passed over, and any other ends the action.            *)
LEMMA TransmitTyped ==
  ASSUME TypeOK, Progress, NEW c \in Clients, Transmit(c)
  PROVE  TypeOK' /\ Progress'
<1>1. /\ pc[c] = "transmit"
      /\ UNCHANGED <<backend, queue, rx, recordVars, verb, target, via, reached,
                     packets>>
  BY TransmitParts
<1>2. /\ Len(PlanOf(c)) \in 1..2
      /\ Len(PlanOf(c))' = Len(PlanOf(c))
  BY <1>1, PlanLength DEF PlanOf, TypeOK
<1>3. /\ next[c] \in 1..Len(PlanOf(c)) /\ landed[c] < next[c]
      /\ landed[c] \in 0..2 /\ next[c] \in 1..2
  BY <1>1 DEF Progress, ProgressOf, TypeOK
<1>4. /\ holder' \in Others \cup {Us, Nobody}
      /\ heard' \in Others \cup {Unknown, Invalid}
  <2> DEFINE msg == PlanOf(c)[next[c]]
  <2>1. msg.op = "activeSource" => msg.arg = Us
    BY <1>3, PlansClaimForUs DEF PlanOf, TypeOK
  <2>2. UNCHANGED <<holder, heard>> \/ Lands(msg)
    BY TransmitParts
  <2> HIDE DEF msg
  <2>3. CASE UNCHANGED <<holder, heard>>
    BY <2>3 DEF TypeOK
  <2>4. CASE Lands(msg)
    <3>1. \/ holder' \in {holder, Nobody}
          \/ msg.op = "activeSource" /\ holder' = msg.arg
      BY <2>4 DEF Lands
    <3>2. heard' \in {heard, Unknown}
      BY <2>4, Zenon DEF Lands
    <3> QED
      BY <2>1, <3>1, <3>2 DEF TypeOK
  <2> QED
    BY <2>2, <2>3, <2>4
<1>6. CASE Finish(c, "failed") /\ UNCHANGED <<claimed, landed, next>>
  <2>1. TypeOK'
    BY <1>1, <1>4, <1>6 DEF TypeOK, Finish, recordVars
  <2>2. OthersStay(c) /\ pc'[c] = "idle"
    BY <1>1, <1>6 DEF TypeOK, Finish, OthersStay
  <2>3. ProgressOf(c)'
    BY <2>2 DEF ProgressOf
  <2> QED
    BY <2>1, <2>2, <2>3, ProgressOfOthers
<1>5. CASE /\ Proceeds(c)
           /\ \/ landed' = [landed EXCEPT ![c] = @ + 1]
              \/ UNCHANGED landed
           /\ claimed' \in BOOLEAN
  <2>1. landed' \in [Clients -> 0..2] /\ landed'[c] <= next[c]
    <3>1. landed \in [Clients -> 0..2]
      BY DEF TypeOK
    <3>2. landed[c] + 1 \in 0..2 /\ landed[c] + 1 <= next[c]
      BY <1>2, <1>3
    <3>3. CASE landed' = [landed EXCEPT ![c] = @ + 1]
      BY <3>1, <3>2, <3>3
    <3>4. CASE UNCHANGED landed
      BY <1>3, <3>1, <3>4
    <3> QED
      BY <1>5, <3>3, <3>4
  <2>2. next' \in [Clients -> 1..2]
    <3>1. CASE UNCHANGED next
      BY <3>1 DEF TypeOK
    <3>2. CASE next[c] < Len(PlanOf(c)) /\ next' = [next EXCEPT ![c] = @ + 1]
      <4>1. ASSUME NEW i \in 1..2, NEW n \in 1..2, i < n PROVE i + 1 \in 1..2
        BY <4>1
      <4>2. next[c] + 1 \in 1..2
        BY <1>2, <1>3, <3>2, <4>1, Zenon
      <4>3. next \in [Clients -> 1..2]
        BY DEF TypeOK
      <4> QED
        BY <3>2, <4>2, <4>3, Zenon
    <3> QED
      BY <1>5, <3>1, <3>2 DEF Proceeds
  <2>3. /\ pc' \in [Clients -> {"idle", "ipLeg", "gate", "transmit", "record",
                                "readBack"}]
        /\ outcome' \in [Clients -> {"none", "done", "refused", "failed"}]
    <3>1. /\ pc \in [Clients -> {"idle", "ipLeg", "gate", "transmit", "record",
                                 "readBack"}]
          /\ outcome \in [Clients -> {"none", "done", "refused", "failed"}]
      BY DEF TypeOK
    <3>2. /\ \/ UNCHANGED pc
             \/ \E p \in {"record", "readBack", "idle"} : pc' = [pc EXCEPT ![c] = p]
          /\ \/ UNCHANGED outcome
             \/ outcome' = [outcome EXCEPT ![c] = "done"]
      BY <1>5, Zenon DEF Proceeds
    <3> QED
      BY <3>1, <3>2
  <2>5. TypeOK'
    BY <1>1, <1>4, <1>5, <2>1, <2>2, <2>3 DEF TypeOK, recordVars
  <2>6. OthersStay(c)
    BY <1>1, <1>5 DEF TypeOK, Proceeds, OthersStay
  <2>7. \/ pc'[c] \in {"record", "readBack", "idle"}
        \/ pc'[c] = "transmit" /\ next'[c] = next[c] + 1
             /\ next[c] < Len(PlanOf(c))
    BY <1>1, <1>5 DEF TypeOK, Proceeds
  <2>8. ProgressOf(c)'
    BY <1>2, <1>3, <2>1, <2>2, <2>7 DEF ProgressOf
  <2> QED
    BY <2>5, <2>6, <2>8, ProgressOfOthers
<1>7. ASSUME claimed' = (claimed \/ PlanOf(c)[next[c]].op = "activeSource")
      PROVE  claimed' \in BOOLEAN
  BY <1>7, Zenon
<1>8. UNCHANGED claimed => claimed' \in BOOLEAN
  BY DEF TypeOK
<1> QED
  BY <1>5, <1>6, <1>7, <1>8, TransmitParts, ProceedIsProceeds

(* So do the record made of a claim or release, and the read-back.         *)
LEMMA EndTyped ==
  ASSUME TypeOK, Progress, NEW c \in Clients, Record(c) \/ ReadBack(c)
  PROVE  TypeOK' /\ Progress'
<1>1. /\ UNCHANGED <<envVars, queue, rx, historyVars, verb, target, via, next,
                     landed, reached, packets>>
      /\ \/ pc' = [pc EXCEPT ![c] = "readBack"] /\ UNCHANGED outcome
         \/ Finish(c, "done")
  BY DEF Record, ReadBack
<1>2. owner' \in Others \cup {Us, Unknown, Invalid}
  BY DEF Record, ReadBack, TypeOK
<1>3. tvPower' \in PowerStates \cup {Unknown}
  BY DEF Record, ReadBack, TypeOK
<1>4. TypeOK'
  BY <1>1, <1>2, <1>3 DEF TypeOK, Finish, envVars, historyVars
<1>5. OthersStay(c) /\ pc'[c] \in {"readBack", "idle"}
  BY <1>1 DEF TypeOK, Finish, OthersStay
<1>6. ProgressOf(c)'
  BY <1>5 DEF ProgressOf
<1> QED
  BY <1>4, <1>5, <1>6, ProgressOfOthers

(* Initially no client has come to its first message.                      *)
LEMMA TypedInitially == Init => TypeOK /\ Progress
<1> SUFFICES ASSUME Init PROVE TypeOK /\ Progress
  OBVIOUS
<1>1. /\ holder \in Others \cup {Us, Nobody} /\ backend \in {"cec", "ip"}
      /\ queue \in Seq(BusEvents) /\ Len(queue) <= MaxQueue
      /\ rx \in BusEvents \cup {NoEvent}
      /\ owner \in Others \cup {Us, Unknown, Invalid}
      /\ tvPower \in PowerStates \cup {Unknown}
      /\ heard \in Others \cup {Unknown, Invalid}
  BY BoundsAssumption DEF Init
<1>2. /\ pc \in [Clients -> {"idle", "ipLeg", "gate", "transmit", "record",
                             "readBack"}]
      /\ verb \in [Clients -> Verbs]
      /\ target \in [Clients -> Others \cup {Us, Unknown, Invalid}]
      /\ via \in [Clients -> {"cec", "ip"}]
      /\ next \in [Clients -> 1..2] /\ landed \in [Clients -> 0..2]
      /\ reached \in [Clients -> Seq(TelnetLines)]
      /\ packets \in [Clients -> 0..WolPacketRepeats]
      /\ outcome \in [Clients -> {"none", "done", "refused", "failed"}]
  BY DEF Init, Verbs, WolPacketRepeats
<1>3. claimed \in BOOLEAN
  BY DEF Init
<1>4. TypeOK
  BY <1>1, <1>2, <1>3 DEF TypeOK
<1>5. Progress
  BY DEF Init, Progress, ProgressOf
<1> QED
  BY <1>4, <1>5

(* Every step of the system keeps the types, step by step as above.        *)
LEMMA TypedInductive ==
  TypeOK /\ Progress /\ [Next]_vars => TypeOK' /\ Progress'
<1> SUFFICES ASSUME TypeOK, Progress, [Next]_vars PROVE TypeOK' /\ Progress'
  OBVIOUS
<1>1. ASSUME NEW c \in Clients, Begin(c) \/ ClientStep(c)
      PROVE  TypeOK' /\ Progress'
  BY <1>1, BeginTyped, RunIpLegTyped, GateTyped, TransmitTyped, EndTyped
     DEF ClientStep
<1>2. ASSUME UNCHANGED clientVars PROVE Progress'
  BY <1>2 DEF Progress, ProgressOf, PlanOf, clientVars
<1>3. CASE Outside
  <2>1. UNCHANGED clientVars
    BY <1>3, OutsideTyped
  <2>2. TypeOK'
    BY <1>3, OutsideTyped DEF TypeOK, clientVars
  <2> QED
    BY <1>2, <2>1, <2>2
<1>4. CASE UNCHANGED vars
  BY <1>2, <1>4 DEF vars, clientVars, TypeOK
<1> QED
  BY <1>1, <1>3, <1>4 DEF Next, Outside

(* The state is always well typed, whatever the number of clients and      *)
(* devices: in particular no action ever counts more accepted messages     *)
(* than its plan has, and no more magic packets than are to be sent.       *)
THEOREM TypeCorrect == Spec => []TypeOK
BY TypedInitially, TypedInductive, PTL DEF Spec

-----------------------------------------------------------------------------
(* A standby needs a claim of ours                                         *)

\* What StandbyNeedsOurClaim rests on, besides itself: a claim about to be
\* recorded has been accepted, and a standby past its gate found one recorded.
ClaimBehind(c) ==
  /\ pc[c] = "record" /\ verb[c] \in ClaimVerbs => claimed
  /\ verb[c] = "standby" /\ (pc[c] = "transmit" \/ landed[c] > 0) => claimed

ClaimsBehind ==
  /\ owner = Us => claimed
  /\ \A c \in Clients : ClaimBehind(c)

(* A client's step disturbs nobody else's claim, for no claim is undone.   *)
LEMMA ClaimBehindOthers ==
  ASSUME ClaimsBehind, NEW c \in Clients, OthersStay(c), claimed => claimed',
         ClaimBehind(c)', owner' = Us => claimed'
  PROVE  ClaimsBehind'
<1> SUFFICES ASSUME NEW x \in Clients, x # c PROVE ClaimBehind(x)'
  BY DEF ClaimsBehind
<1> QED
  BY DEF ClaimsBehind, ClaimBehind, OthersStay

(* The environment and the receive loop never make us the owner: every     *)
(* event they fold names another device, an invalid address or none.       *)
LEMMA OutsideNeverOwns ==
  ASSUME TypeOK,
         Outside
  PROVE  owner' = Us => owner = Us
<1>1. CASE Fold
  BY <1>1, OwnerAfterTyped, DevicesAssumption DEF Fold, TypeOK
<1> QED
  BY <1>1 DEF OtherClaims, OtherReleases, Reported, BackendMoves, Hear,
              Outside, ReceiveLoop, recordVars

(* A standby passes its gate on the record, which says "ours" only after a *)
(* claim of ours was accepted.                                             *)
LEMMA GateNeedsClaim ==
  ASSUME TypeOK, Progress, ClaimsBehind, NEW c \in Clients, Gate(c)
  PROVE  ClaimsBehind'
<1>1. /\ UNCHANGED <<owner, claimed, verb, target, next, landed>>
      /\ pc[c] = "gate"
      /\ \/ Finish(c, "refused")
         \/ /\ ~Refuses(verb[c], target[c], Us, owner)
            /\ pc' = [pc EXCEPT ![c] = "transmit"]
  BY DEF Gate, recordVars, historyVars
<1>2. OthersStay(c) /\ pc'[c] \in {"idle", "transmit"}
  BY <1>1 DEF Finish, OthersStay, TypeOK
<1>3. landed[c] = 0
  BY <1>1 DEF Progress, ProgressOf
<1>4. ASSUME verb[c] = "standby", pc'[c] = "transmit" PROVE claimed
  <2>1. ~Refuses("standby", target[c], Us, owner)
    BY <1>1, <1>4 DEF Finish, TypeOK
  <2>2. OwnsDisplay(owner, Us)
    <3>1. "standby" \notin ClaimVerbs
      BY DEF ClaimVerbs
    <3> QED
      BY <2>1, <3>1, Zenon DEF Refuses
  <2>3. owner = Us
    BY <2>2 DEF OwnsDisplay, Classify
  <2> QED
    BY <2>3 DEF ClaimsBehind
<1>5. ClaimBehind(c)'
  BY <1>1, <1>2, <1>3, <1>4 DEF ClaimBehind
<1> QED
  BY <1>1, <1>2, <1>5, ClaimBehindOthers DEF ClaimsBehind

(* The last message of a claim is never passed over: it is accepted, or    *)
(* the action fails and nothing is recorded.  A standby that transmits is  *)
(* already behind a claim.                                                 *)
LEMMA TransmitNeedsClaim ==
  ASSUME TypeOK, Progress, ClaimsBehind, NEW c \in Clients, Transmit(c)
  PROVE  ClaimsBehind'
<1>1. pc[c] = "transmit" /\ UNCHANGED <<owner, verb, target>>
  BY TransmitParts DEF recordVars
<1>2. \/ Finish(c, "failed") /\ UNCHANGED <<claimed, landed, next>>
      \/ /\ Proceeds(c)
         /\ landed' = [landed EXCEPT ![c] = @ + 1]
         /\ claimed' = (claimed \/ PlanOf(c)[next[c]].op = "activeSource")
      \/ /\ Proceeds(c) /\ verb[c] = "standby"
         /\ UNCHANGED <<claimed, landed>>
  BY TransmitParts, ProceedIsProceeds
<1>3. OthersStay(c)
  BY <1>1, <1>2 DEF TypeOK, Proceeds, Finish, OthersStay
<1>4. claimed => claimed'
  BY <1>2
<1>5. verb[c] = "standby" => claimed
  BY <1>1 DEF ClaimsBehind, ClaimBehind
<1>6. ASSUME pc'[c] = "record", verb[c] \in ClaimVerbs PROVE claimed'
  <2>1. verb[c] # "standby"
    BY <1>6 DEF ClaimVerbs
  <2>2. pc'[c] # pc[c]
    BY <1>1, <1>6
  <2>3. /\ next[c] = Len(PlanOf(c))
        /\ claimed' = (claimed \/ PlanOf(c)[next[c]].op = "activeSource")
    BY <1>2, <1>6, <2>1, <2>2 DEF Finish, Proceeds, TypeOK
  <2>4. PlanOf(c)[next[c]].op = "activeSource"
    BY <1>6, <2>3, ClaimEndsInActiveSource DEF PlanOf
  <2> QED
    BY <2>3, <2>4
<1>7. ClaimBehind(c)'
  BY <1>1, <1>4, <1>5, <1>6 DEF ClaimBehind
<1> QED
  BY <1>1, <1>3, <1>4, <1>7, ClaimBehindOthers DEF ClaimsBehind

(* Only the record of a claim makes us the owner.                          *)
LEMMA RecordNeedsClaim ==
  ASSUME TypeOK, ClaimsBehind, NEW c \in Clients, Record(c)
  PROVE  ClaimsBehind'
<1>1. /\ pc[c] = "record" /\ UNCHANGED <<claimed, verb, target, next, landed>>
      /\ owner' = IF RecordOf(verb[c]) = "claimed" THEN Us ELSE Unknown
      /\ \/ pc' = [pc EXCEPT ![c] = "readBack"]
         \/ pc' = [pc EXCEPT ![c] = "idle"]
  BY DEF Record, Finish, historyVars
<1>2. OthersStay(c) /\ pc'[c] \in {"readBack", "idle"}
  BY <1>1 DEF OthersStay, TypeOK
<1>3. ASSUME owner' = Us PROVE claimed
  <2>1. RecordOf(verb[c]) = "claimed"
    BY <1>1, <1>3, DevicesAssumption
  <2>2. verb[c] \in ClaimVerbs
    <3> SUFFICES ASSUME verb[c] \notin ClaimVerbs PROVE FALSE
      OBVIOUS
    <3>1. RecordOf(verb[c]) \in {"released", "none"}
      BY Zenon DEF RecordOf
    <3> QED
      BY <2>1, <3>1
  <2> QED
    BY <1>1, <2>2 DEF ClaimsBehind, ClaimBehind
<1>4. ClaimBehind(c)'
  BY <1>1, <1>2 DEF ClaimsBehind, ClaimBehind
<1> QED
  BY <1>1, <1>2, <1>3, <1>4, ClaimBehindOthers

(* Starting an action, its IP leg and its read-back touch no claim.        *)
LEMMA OtherStepsNeedNoClaim ==
  ASSUME TypeOK, ClaimsBehind, NEW c \in Clients,
         Begin(c) \/ RunIpLeg(c) \/ ReadBack(c)
  PROVE  ClaimsBehind'
<1>1. UNCHANGED <<owner, claimed>>
  BY DEF Begin, RunIpLeg, ReadBack, recordVars, historyVars
<1>2. CASE Begin(c)
  <2>1. PICK v \in Verbs, t \in Others \cup {Us, Invalid} :
          /\ verb' = [verb EXCEPT ![c] = v]
          /\ target' = [target EXCEPT ![c] = t]
    BY <1>2, BoundsAssumption DEF Begin
  <2>2. OthersStay(c) /\ pc'[c] = "ipLeg" /\ landed'[c] = 0
    BY <1>2, <2>1 DEF Begin, OthersStay, TypeOK
  <2>3. ClaimBehind(c)'
    BY <2>2 DEF ClaimBehind
  <2> QED
    BY <1>1, <2>2, <2>3, ClaimBehindOthers DEF ClaimsBehind
<1>3. CASE RunIpLeg(c) \/ ReadBack(c)
  <2>1. /\ UNCHANGED <<verb, target, next, landed>>
        /\ \/ pc' = [pc EXCEPT ![c] = "gate"]
           \/ pc' = [pc EXCEPT ![c] = "idle"]
    BY <1>3 DEF RunIpLeg, ReadBack, Finish
  <2>2. OthersStay(c) /\ pc'[c] \in {"gate", "idle"}
    BY <2>1 DEF OthersStay, TypeOK
  <2>3. ClaimBehind(c)'
    BY <1>1, <2>1, <2>2 DEF ClaimsBehind, ClaimBehind
  <2> QED
    BY <1>1, <2>2, <2>3, ClaimBehindOthers DEF ClaimsBehind
<1> QED
  BY <1>2, <1>3

(* No daemon transmits a standby unless the bus has accepted an            *)
(* <Active Source> of ours before, however many clients act at once,       *)
(* whatever other devices claim and whatever messages are lost.            *)
THEOREM StandbyCorrect == Spec => []StandbyNeedsOurClaim
<1>1. Init => ClaimsBehind
  BY DevicesAssumption DEF Init, ClaimsBehind, ClaimBehind
<1>2. TypeOK /\ Progress /\ ClaimsBehind /\ [Next]_vars => ClaimsBehind'
  <2> SUFFICES ASSUME TypeOK, Progress, ClaimsBehind, [Next]_vars
               PROVE  ClaimsBehind'
    OBVIOUS
  <2>1. ASSUME NEW c \in Clients, Begin(c) \/ ClientStep(c)
        PROVE  ClaimsBehind'
    BY <2>1, GateNeedsClaim, TransmitNeedsClaim, RecordNeedsClaim,
       OtherStepsNeedNoClaim DEF ClientStep
  <2>2. ASSUME UNCHANGED <<clientVars, claimed>>, owner' = Us => owner = Us
        PROVE  ClaimsBehind'
    BY <2>2 DEF ClaimsBehind, ClaimBehind, clientVars
  <2>3. CASE Outside
    BY <2>2, <2>3, OutsideTyped, OutsideNeverOwns
  <2>4. CASE UNCHANGED vars
    BY <2>2, <2>4 DEF vars, clientVars
  <2> QED
    BY <2>1, <2>3, <2>4 DEF Next, Outside
<1>3. ClaimsBehind => StandbyNeedsOurClaim
  BY DEF ClaimsBehind, ClaimBehind, StandbyNeedsOurClaim
<1> QED
  BY <1>1, <1>2, <1>3, TypedInitially, TypedInductive, PTL DEF Spec

-----------------------------------------------------------------------------
(* What the reply says is what happened                                    *)

(* "ok" from the leg alone means that it had something to do and did all   *)
(* of it, and for a standby that the main zone was told to go to standby.  *)
LEMMA LegDoneIsHonest ==
  ASSUME NEW v \in Verbs, NEW role, NEW report \in IpReports(v, role),
         Judge(v, report) = "done"
  PROVE  /\ report.reached = PlannedLines(v, role)
         /\ report.wolPackets = IF PlansWol(v) THEN WolPacketRepeats ELSE 0
         /\ report.reached # << >> \/ report.wolPackets > 0
         /\ v = "standby" => \E i \in DOMAIN report.reached :
                               report.reached[i] = "PWSTANDBY"
<1>1. /\ report.ok /\ Attempted(report)
      /\ v = "standby" => AvrConfigured /\ MainPower
  BY DEF Judge, StandbyShortfall
<1>2. /\ report.commands = PlannedLines(v, role)
      /\ report.reached = PlannedLines(v, role)
      /\ report.wolPackets = IF PlansWol(v) THEN WolPacketRepeats ELSE 0
  BY <1>1, ReportsTyped
<1>3. report.reached # << >> \/ report.wolPackets > 0
  BY <1>1, <1>2 DEF Attempted
<1>4. ASSUME v = "standby"
      PROVE  \E i \in DOMAIN report.reached : report.reached[i] = "PWSTANDBY"
  <2>1. report.reached = StandbyCommands
    BY <1>1, <1>2, <1>4, Zenon DEF PlannedLines
  <2>2. StandbyCommands = OptionalLine(Zone2Off, "Z2OFF") \o <<"PWSTANDBY">>
    BY <1>1, <1>4 DEF StandbyCommands, OptionalLine
  <2> DEFINE first == OptionalLine(Zone2Off, "Z2OFF")
  <2>3. first \in Seq(TelnetLines) /\ <<"PWSTANDBY">> \in Seq(TelnetLines)
    <3>1. "Z2OFF" \in TelnetLines /\ "PWSTANDBY" \in TelnetLines
      BY DEF TelnetLines
    <3> QED
      BY <3>1, OptionalLineTyped
  <2> HIDE DEF first
  <2>4. /\ Len(first \o <<"PWSTANDBY">>) = Len(first) + 1
        /\ (first \o <<"PWSTANDBY">>)[Len(first) + 1] = "PWSTANDBY"
    BY <2>3
  <2>5. /\ Len(first) \in Nat
        /\ Len(first) + 1 \in DOMAIN (first \o <<"PWSTANDBY">>)
    BY <2>3, <2>4
  <2> QED
    BY <2>1, <2>2, <2>4, <2>5 DEF first
<1> QED
  BY <1>2, <1>3, <1>4

\* What a client has been told, if anything.
HonestOf(c) ==
  /\ outcome[c] = "refused" => landed[c] = 0
  /\ outcome[c] = "failed" => landed[c] < Len(PlanOf(c))
  /\ outcome[c] = "done" /\ via[c] = "cec" =>
       IF verb[c] = "standby" THEN landed[c] > 0
                              ELSE landed[c] = Len(PlanOf(c))
  /\ outcome[c] = "done" /\ via[c] = "ip" =>
       /\ reached[c] = PlannedLines(verb[c], "authority")
       /\ packets[c] = IF PlansWol(verb[c]) THEN WolPacketRepeats ELSE 0
       /\ reached[c] # <<>> \/ packets[c] > 0
       /\ verb[c] = "standby" => \E i \in DOMAIN reached[c] :
                                  reached[c][i] = "PWSTANDBY"

\* A verb in progress has promised nothing, runs over CEC from its gate on,
\* and has passed over no message but a later one of a standby.
OnPlan(c) ==
  /\ pc[c] # "idle" => outcome[c] = "none"
  /\ pc[c] \notin {"idle", "ipLeg"} => via[c] = "cec"
  /\ pc[c] = "transmit" =>
       IF verb[c] = "standby" THEN next[c] = 1 \/ landed[c] > 0
                              ELSE landed[c] = next[c] - 1
  /\ pc[c] \in {"record", "readBack"} =>
       IF verb[c] = "standby" THEN landed[c] > 0
                              ELSE landed[c] = Len(PlanOf(c))

\* The inductive invariant.
Accounted == \A c \in Clients : HonestOf(c) /\ OnPlan(c)

(* A step of one client accounts for nobody else.                          *)
LEMMA AccountedOthers ==
  ASSUME Accounted, NEW c \in Clients, OthersStay(c),
         \A x \in Clients \ {c} :
           /\ via'[x] = via[x] /\ reached'[x] = reached[x]
           /\ packets'[x] = packets[x] /\ outcome'[x] = outcome[x],
         HonestOf(c)', OnPlan(c)'
  PROVE  Accounted'
<1> SUFFICES ASSUME NEW x \in Clients, x # c PROVE HonestOf(x)' /\ OnPlan(x)'
  BY DEF Accounted
<1>1. /\ HonestOf(x) /\ OnPlan(x)
      /\ pc'[x] = pc[x] /\ next'[x] = next[x] /\ landed'[x] = landed[x]
      /\ verb'[x] = verb[x] /\ target'[x] = target[x]
      /\ via'[x] = via[x] /\ reached'[x] = reached[x]
      /\ packets'[x] = packets[x] /\ outcome'[x] = outcome[x]
  BY DEF Accounted, OthersStay
<1>2. HonestOf(x)'
  BY <1>1 DEF HonestOf, PlanOf
<1>3. OnPlan(x)'
  BY <1>1 DEF OnPlan, PlanOf
<1> QED
  BY <1>2, <1>3

(* An action that begins has promised nothing.                             *)
LEMMA BeginAccounted ==
  ASSUME TypeOK, Accounted, NEW c \in Clients, Begin(c)
  PROVE  Accounted'
<1>1. PICK v \in Verbs, t \in Others \cup {Us, Invalid} :
        /\ verb' = [verb EXCEPT ![c] = v]
        /\ target' = [target EXCEPT ![c] = t]
  BY BoundsAssumption DEF Begin
<1>2. /\ pc' = [pc EXCEPT ![c] = "ipLeg"]
      /\ outcome' = [outcome EXCEPT ![c] = "none"]
      /\ via' = [via EXCEPT ![c] = backend]
      /\ reached' = [reached EXCEPT ![c] = <<>>]
      /\ packets' = [packets EXCEPT ![c] = 0]
      /\ next' = [next EXCEPT ![c] = 1]
      /\ landed' = [landed EXCEPT ![c] = 0]
  BY DEF Begin
<1>3. OthersStay(c)
  BY <1>1, <1>2 DEF OthersStay, TypeOK
<1>4. pc'[c] = "ipLeg" /\ outcome'[c] = "none"
  BY <1>2 DEF TypeOK
<1>5. HonestOf(c)' /\ OnPlan(c)'
  BY <1>4 DEF HonestOf, OnPlan
<1>6. \A x \in Clients \ {c} :
        /\ via'[x] = via[x] /\ reached'[x] = reached[x]
        /\ packets'[x] = packets[x] /\ outcome'[x] = outcome[x]
  BY <1>2 DEF TypeOK
<1> QED
  BY <1>3, <1>5, <1>6, AccountedOthers

(* The leg's verdict, when the leg carries the action alone; otherwise the *)
(* action goes on over CEC.                                                *)
LEMMA LegAccounted ==
  ASSUME TypeOK, Progress, Accounted, NEW c \in Clients, RunIpLeg(c)
  PROVE  Accounted'
<1>1. PICK report \in IpReports(verb[c], IpRole(via[c])) :
        /\ reached' = [reached EXCEPT ![c] = report.reached]
        /\ packets' = [packets EXCEPT ![c] = report.wolPackets]
        /\ IF via[c] = "ip"
           THEN Finish(c, Judge(verb[c], report))
           ELSE pc' = [pc EXCEPT ![c] = "gate"] /\ UNCHANGED outcome
  BY DEF RunIpLeg
<1>2. pc[c] = "ipLeg" /\ UNCHANGED <<verb, target, via, next, landed>>
  BY DEF RunIpLeg
<1>3. OthersStay(c)
  BY <1>1, <1>2 DEF OthersStay, Finish, TypeOK
<1>4. \A x \in Clients \ {c} :
        /\ via'[x] = via[x] /\ reached'[x] = reached[x]
        /\ packets'[x] = packets[x] /\ outcome'[x] = outcome[x]
  BY <1>1, <1>2 DEF Finish, TypeOK
<1>5. landed[c] = 0 /\ verb[c] \in Verbs /\ Len(PlanOf(c)) \in 1..2
  BY <1>2, PlanLength DEF Progress, ProgressOf, TypeOK, PlanOf
<1>6. CASE via[c] = "ip"
  <2>1. /\ pc'[c] = "idle" /\ outcome'[c] = Judge(verb[c], report)
        /\ reached'[c] = report.reached /\ packets'[c] = report.wolPackets
    BY <1>1, <1>6 DEF Finish, TypeOK
  <2>2. outcome'[c] \in {"done", "failed"}
    BY <2>1 DEF Judge
  <2>3. outcome'[c] = "done" =>
          /\ reached'[c] = PlannedLines(verb[c], "authority")
          /\ packets'[c] = IF PlansWol(verb[c]) THEN WolPacketRepeats ELSE 0
          /\ reached'[c] # <<>> \/ packets'[c] > 0
          /\ verb[c] = "standby" => \E i \in DOMAIN reached'[c] :
                                     reached'[c][i] = "PWSTANDBY"
    <3>1. IpRole(via[c]) = "authority"
      BY <1>6 DEF IpRole
    <3>2. report \in IpReports(verb[c], "authority")
      BY <3>1
    <3> SUFFICES ASSUME Judge(verb[c], report) = "done"
                 PROVE  /\ report.reached = PlannedLines(verb[c], "authority")
                        /\ report.wolPackets = IF PlansWol(verb[c])
                                               THEN WolPacketRepeats ELSE 0
                        /\ report.reached # <<>> \/ report.wolPackets > 0
                        /\ verb[c] = "standby" =>
                             \E i \in DOMAIN report.reached :
                               report.reached[i] = "PWSTANDBY"
      BY <2>1
    <3> QED
      BY <1>5, <3>2, LegDoneIsHonest
  <2>4. outcome'[c] = "failed" => landed'[c] < Len(PlanOf(c))'
    <3>1. Len(PlanOf(c))' = Len(PlanOf(c)) /\ landed'[c] = landed[c]
      BY <1>2 DEF PlanOf
    <3> QED
      BY <1>5, <3>1
  <2>5. HonestOf(c)'
    BY <1>2, <1>6, <2>2, <2>3, <2>4 DEF HonestOf
  <2>6. OnPlan(c)'
    BY <2>1 DEF OnPlan
  <2> QED
    BY <1>3, <1>4, <2>5, <2>6, AccountedOthers
<1>7. CASE via[c] # "ip"
  <2>1. pc'[c] = "gate" /\ outcome'[c] = outcome[c] /\ via[c] = "cec"
    BY <1>1, <1>7 DEF TypeOK
  <2>2. outcome[c] = "none"
    BY <1>2 DEF Accounted, OnPlan
  <2>3. HonestOf(c)' /\ OnPlan(c)'
    BY <1>2, <2>1, <2>2 DEF HonestOf, OnPlan
  <2> QED
    BY <1>3, <1>4, <2>3, AccountedOthers
<1> QED
  BY <1>6, <1>7

(* A refusal precedes the first message.                                   *)
LEMMA GateAccounted ==
  ASSUME TypeOK, Progress, Accounted, NEW c \in Clients, Gate(c)
  PROVE  Accounted'
<1>1. /\ pc[c] = "gate"
      /\ \/ Finish(c, "refused")
         \/ pc' = [pc EXCEPT ![c] = "transmit"] /\ UNCHANGED outcome
      /\ UNCHANGED <<verb, target, via, next, landed, reached, packets>>
  BY DEF Gate
<1>2. OthersStay(c) /\ \A x \in Clients \ {c} :
        /\ via'[x] = via[x] /\ reached'[x] = reached[x]
        /\ packets'[x] = packets[x] /\ outcome'[x] = outcome[x]
  BY <1>1 DEF OthersStay, Finish, TypeOK
<1>3. landed[c] = 0 /\ next[c] = 1 /\ via[c] = "cec" /\ outcome[c] = "none"
  BY <1>1 DEF Progress, ProgressOf, Accounted, OnPlan
<1>4. \/ pc'[c] = "idle" /\ outcome'[c] = "refused"
      \/ pc'[c] = "transmit" /\ outcome'[c] = "none"
  BY <1>1, <1>3 DEF Finish, TypeOK
<1>5. HonestOf(c)' /\ OnPlan(c)'
  BY <1>1, <1>3, <1>4 DEF HonestOf, OnPlan
<1> QED
  BY <1>2, <1>5, AccountedOthers

(* Going on past a message that landed, or that was rightly passed over.   *)
LEMMA ProceedAccounted ==
  ASSUME TypeOK, Progress, Accounted, NEW c \in Clients,
         pc[c] = "transmit", UNCHANGED <<verb, target, via, reached, packets>>,
         Proceed(c),
         \/ landed' = [landed EXCEPT ![c] = @ + 1]
         \/ UNCHANGED landed /\ verb[c] = "standby" /\ landed[c] > 0
  PROVE  Accounted'
<1>1. Proceeds(c)
  BY ProceedIsProceeds
<1>2. OthersStay(c)
  BY <1>1 DEF OthersStay, Proceeds, TypeOK
<1>3. \A x \in Clients \ {c} :
        /\ via'[x] = via[x] /\ reached'[x] = reached[x]
        /\ packets'[x] = packets[x] /\ outcome'[x] = outcome[x]
  BY <1>1 DEF Proceeds, TypeOK
<1>4. /\ next[c] \in 1..2 /\ landed[c] \in 0..2 /\ landed[c] < next[c]
      /\ Len(PlanOf(c)) \in 1..2 /\ next[c] <= Len(PlanOf(c))
      /\ via[c] = "cec" /\ outcome[c] = "none"
      /\ verb[c] # "standby" => landed[c] = next[c] - 1
  <2>1. next[c] \in 1..2 /\ landed[c] \in 0..2 /\ Len(PlanOf(c)) \in 1..2
    BY PlanLength DEF TypeOK, PlanOf
  <2>2. next[c] \in 1..Len(PlanOf(c)) /\ landed[c] < next[c]
    BY DEF Progress, ProgressOf
  <2>3. /\ via[c] = "cec" /\ outcome[c] = "none"
        /\ verb[c] # "standby" => landed[c] = next[c] - 1
    BY DEF Accounted, OnPlan
  <2> QED
    BY <2>1, <2>2, <2>3
<1>5. /\ verb[c] = "standby" => landed'[c] > 0
      /\ verb[c] # "standby" => landed'[c] = next[c]
  <2>1. landed'[c] = landed[c] + 1 \/ (landed'[c] = landed[c] /\ verb[c] = "standby"
                                         /\ landed[c] > 0)
    BY DEF TypeOK
  <2> QED
    BY <1>4, <2>1
<1>6. PlanOf(c)' = PlanOf(c)
  BY DEF PlanOf
<1>7. CASE next[c] < Len(PlanOf(c)) /\ next' = [next EXCEPT ![c] = @ + 1]
           /\ UNCHANGED <<pc, outcome>>
  <2>1. next'[c] = next[c] + 1 /\ pc'[c] = "transmit" /\ outcome'[c] = "none"
    BY <1>4, <1>7 DEF TypeOK
  <2>2. HonestOf(c)'
    BY <2>1 DEF HonestOf
  <2>3. OnPlan(c)'
    BY <1>4, <1>5, <2>1 DEF OnPlan
  <2> QED
    BY <1>2, <1>3, <2>2, <2>3, AccountedOthers
<1>8. CASE next[c] = Len(PlanOf(c))
  <2>1. \/ pc'[c] \in {"record", "readBack"} /\ outcome'[c] = "none"
        \/ pc'[c] = "idle" /\ outcome'[c] = "done"
    BY <1>4, <1>8 DEF Proceed, Finish, TypeOK
  <2>2. HonestOf(c)'
    BY <1>4, <1>5, <1>6, <1>8, <2>1 DEF HonestOf
  <2>3. OnPlan(c)'
    BY <1>4, <1>5, <1>6, <1>8, <2>1 DEF OnPlan
  <2> QED
    BY <1>2, <1>3, <2>2, <2>3, AccountedOthers
<1> QED
  BY <1>1, <1>7, <1>8 DEF Proceeds

(* A message that does not land ends the action short of its plan.         *)
LEMMA TransmitAccounted ==
  ASSUME TypeOK, Progress, Accounted, NEW c \in Clients, Transmit(c)
  PROVE  Accounted'
<1>1. CASE Finish(c, "failed") /\ UNCHANGED <<landed, next>>
  <2>1. /\ pc[c] = "transmit" /\ UNCHANGED <<verb, target, via, reached, packets>>
    BY TransmitParts
  <2>2. OthersStay(c)
    BY <1>1, <2>1 DEF OthersStay, Finish, TypeOK
  <2>3. \A x \in Clients \ {c} :
          /\ via'[x] = via[x] /\ reached'[x] = reached[x]
        /\ packets'[x] = packets[x] /\ outcome'[x] = outcome[x]
    BY <1>1, <2>1 DEF Finish, TypeOK
  <2>4. pc'[c] = "idle" /\ outcome'[c] = "failed"
    BY <1>1 DEF Finish, TypeOK
  <2>5. landed[c] < Len(PlanOf(c))
    <3>1. next[c] \in 1..Len(PlanOf(c)) /\ landed[c] < next[c] /\ landed[c] \in 0..2
      BY <2>1 DEF Progress, ProgressOf, TypeOK
    <3>2. Len(PlanOf(c)) \in 1..2
      BY PlanLength DEF TypeOK, PlanOf
    <3> QED
      BY <3>1, <3>2
  <2>6. HonestOf(c)'
    BY <1>1, <2>1, <2>4, <2>5 DEF HonestOf, PlanOf
  <2>7. OnPlan(c)'
    BY <2>4 DEF OnPlan
  <2> QED
    BY <2>2, <2>3, <2>6, <2>7, AccountedOthers
<1> QED
  BY <1>1, TransmitParts, ProceedAccounted

(* The record and the read-back come after the last message.               *)
LEMMA EndAccounted ==
  ASSUME TypeOK, Progress, Accounted, NEW c \in Clients, Record(c) \/ ReadBack(c)
  PROVE  Accounted'
<1>1. /\ pc[c] \in {"record", "readBack"}
      /\ UNCHANGED <<verb, target, via, next, landed, reached, packets>>
      /\ \/ pc' = [pc EXCEPT ![c] = "readBack"] /\ UNCHANGED outcome
         \/ Finish(c, "done")
  BY DEF Record, ReadBack
<1>2. OthersStay(c) /\ \A x \in Clients \ {c} :
        /\ via'[x] = via[x] /\ reached'[x] = reached[x]
        /\ packets'[x] = packets[x] /\ outcome'[x] = outcome[x]
  BY <1>1 DEF OthersStay, Finish, TypeOK
<1>3. /\ via[c] = "cec" /\ outcome[c] = "none"
      /\ IF verb[c] = "standby" THEN landed[c] > 0
                                ELSE landed[c] = Len(PlanOf(c))
  BY <1>1 DEF Accounted, OnPlan
<1>4. \/ pc'[c] = "readBack" /\ outcome'[c] = "none"
      \/ pc'[c] = "idle" /\ outcome'[c] = "done"
  BY <1>1, <1>3 DEF Finish, TypeOK
<1>5. HonestOf(c)' /\ OnPlan(c)'
  BY <1>1, <1>3, <1>4 DEF HonestOf, OnPlan, PlanOf
<1> QED
  BY <1>2, <1>5, AccountedOthers

(* What every reply line says is what happened on the bus and at the       *)
(* receiver, for any number of clients, any configuration of the IP leg,   *)
(* and every failure of either wire.                                       *)
THEOREM OutcomesAreHonest == Spec => []OutcomeIsHonest
<1>1. Init => Accounted
  BY DEF Init, Accounted, HonestOf, OnPlan
<1>2. TypeOK /\ Progress /\ Accounted /\ [Next]_vars => Accounted'
  <2> SUFFICES ASSUME TypeOK, Progress, Accounted, [Next]_vars
               PROVE  Accounted'
    OBVIOUS
  <2>1. ASSUME NEW c \in Clients, Begin(c) \/ ClientStep(c)
        PROVE  Accounted'
    BY <2>1, BeginAccounted, LegAccounted, GateAccounted, TransmitAccounted,
       EndAccounted DEF ClientStep
  <2>2. ASSUME UNCHANGED clientVars PROVE Accounted'
    BY <2>2 DEF clientVars, Accounted, HonestOf, OnPlan, PlanOf
  <2>3. CASE Outside
    BY <2>2, <2>3, OutsideTyped
  <2>4. CASE UNCHANGED vars
    BY <2>2, <2>4 DEF vars, clientVars
  <2> QED
    BY <2>1, <2>3, <2>4 DEF Next, Outside
<1>3. Accounted => OutcomeIsHonest
  BY DEF Accounted, HonestOf, OutcomeIsHonest
<1> QED
  BY <1>1, <1>2, <1>3, TypedInitially, TypedInductive, PTL DEF Spec

-----------------------------------------------------------------------------
(* How the record goes wrong *)

(* What a step of the environment adds to the queue is news or it is not,  *)
(* and what was news stays so until it is folded.                          *)
LEMMA DeliveryIsNews ==
  ASSUME TypeOK, NEW e \in BusEvents, Deliver(e), UNCHANGED rx
  PROVE  /\ IsNews(e) => NewsInFlight'
         /\ NewsInFlight => NewsInFlight'
<1>1. /\ queue \in Seq(BusEvents) /\ queue' = Append(queue, e)
  BY DEF Deliver, TypeOK
<1>2. /\ Len(queue) \in Nat /\ queue'[Len(queue) + 1] = e
      /\ Len(queue) + 1 \in DOMAIN queue'
  BY <1>1
<1>3. \A i \in DOMAIN queue : i \in DOMAIN queue' /\ queue'[i] = queue[i]
  BY <1>1
<1>4. ASSUME NewsInFlight PROVE NewsInFlight'
  BY <1>3, <1>4 DEF NewsInFlight
<1> QED
  BY <1>2, <1>4 DEF NewsInFlight

(* Reading the next event takes nothing out of flight.                     *)
LEMMA HearingKeepsNews ==
  ASSUME TypeOK, Hear
  PROVE  NewsInFlight' <=> NewsInFlight
<1>1. /\ rx = NoEvent /\ queue # <<>> /\ queue \in Seq(BusEvents)
      /\ rx' = Head(queue) /\ queue' = Tail(queue)
  BY DEF Hear, TypeOK
<1>2. ~IsNews(rx)
  BY <1>1 DEF NoEvent, Msg, IsNews
<1>3. /\ Len(queue) \in Nat /\ Len(queue) > 0
      /\ rx' = queue[1] /\ 1 \in DOMAIN queue
      /\ DOMAIN queue' = 1..(Len(queue) - 1)
      /\ \A i \in 1..(Len(queue) - 1) : queue'[i] = queue[i + 1]
      /\ DOMAIN queue = 1..Len(queue)
  BY <1>1
<1>4. ASSUME NewsInFlight PROVE NewsInFlight'
  <2>1. PICK i \in DOMAIN queue : IsNews(queue[i])
    BY <1>2, <1>4 DEF NewsInFlight
  <2>2. CASE i = 1
    BY <1>3, <2>1, <2>2 DEF NewsInFlight
  <2>3. CASE i # 1
    <3>1. i - 1 \in DOMAIN queue' /\ queue'[i - 1] = queue[i]
      BY <1>3, <2>3
    <3> QED
      BY <2>1, <3>1 DEF NewsInFlight
  <2> QED
    BY <2>2, <2>3
<1>5. ASSUME NewsInFlight' PROVE NewsInFlight
  <2>1. CASE IsNews(rx')
    <3>1. IsNews(queue[1])
      BY <1>3, <2>1 DEF IsNews
    <3> QED
      BY <1>3, <3>1 DEF NewsInFlight
  <2>2. CASE ~IsNews(rx')
    <3>1. PICK i \in DOMAIN queue' : IsNews(queue'[i])
      BY <1>5, <2>2 DEF NewsInFlight, IsNews
    <3>2. i + 1 \in DOMAIN queue /\ queue[i + 1] = queue'[i]
      BY <1>3
    <3> QED
      BY <3>1, <3>2 DEF NewsInFlight
  <2> QED
    BY <2>1, <2>2
<1> QED
  BY <1>4, <1>5

(* Folding what is no news leaves the record and what is in flight alone.  *)
LEMMA FoldingAsides ==
  ASSUME TypeOK, Fold, ~IsNews(rx)
  PROVE  UNCHANGED <<owner, heard, holder>> /\ (NewsInFlight' <=> NewsInFlight)
<1>1. UNCHANGED <<holder, queue>> /\ rx' = NoEvent
  BY DEF Fold, envVars
<1>2. UNCHANGED <<owner, heard>>
  BY OwnerAfterTyped DEF Fold, TypeOK
<1>3. ~IsNews(rx')
  BY <1>1 DEF NoEvent, Msg, IsNews
<1> QED
  BY <1>1, <1>2, <1>3 DEF NewsInFlight, IsNews

(* Of what the environment and the receive loop do, only claims and        *)
(* releases of other devices and the folding of news touch them.           *)
LEMMA OutsideParts ==
  ASSUME TypeOK, Outside
  PROVE  \/ \E d \in Others : OtherClaims(d) \/ OtherReleases(d)
         \/ Fold /\ IsNews(rx)
         \/ UNCHANGED <<owner, heard, holder>> /\ (NewsInFlight => NewsInFlight')
<1>1. ASSUME NEW e \in Asides, Reported(e)
      PROVE  UNCHANGED <<owner, heard, holder>> /\ (NewsInFlight => NewsInFlight')
  <2>1. e \in BusEvents /\ Deliver(e) /\ UNCHANGED rx
    BY <1>1 DEF BusEvents, Reported
  <2> QED
    BY <1>1, <2>1, DeliveryIsNews DEF Reported, envVars, recordVars, historyVars
<1>2. CASE BackendMoves
  BY <1>2 DEF BackendMoves, recordVars, historyVars, NewsInFlight, IsNews
<1>3. CASE Hear
  BY <1>3, HearingKeepsNews DEF Hear, envVars, recordVars, historyVars
<1>4. CASE Fold
  BY <1>4, FoldingAsides
<1> QED
  BY <1>1, <1>2, <1>3, <1>4 DEF Outside, ReceiveLoop

(* What a record made of a claim of ours says, and when it is made.        *)
LEMMA RecordParts ==
  ASSUME TypeOK, NEW c \in Clients, Record(c)
  PROVE  /\ InWindow(c) /\ UNCHANGED <<holder, heard, queue, rx>>
         /\ owner' = Us => RecordOf(verb[c]) = "claimed"
BY DevicesAssumption DEF Record, InWindow, envVars, historyVars

(* A client's other steps leave the record and the events alone, and only  *)
(* a transmit moves the display.                                           *)
LEMMA ClientParts ==
  ASSUME TypeOK, NEW c \in Clients, Begin(c) \/ ClientStep(c), ~Record(c)
  PROVE  /\ UNCHANGED <<owner, queue, rx>>
         /\ ~Transmit(c) => UNCHANGED <<holder, heard>>
         /\ ~InWindow(c)
         /\ \A x \in Clients \ {c} : pc'[x] = pc[x] /\ verb'[x] = verb[x]
<1>1. CASE Transmit(c)
  <2>1. /\ UNCHANGED <<owner, queue, rx, verb>> /\ pc[c] = "transmit"
        /\ Proceeds(c) \/ Finish(c, "failed")
    BY <1>1, TransmitParts, ProceedIsProceeds DEF recordVars
  <2>2. \A x \in Clients \ {c} : pc'[x] = pc[x] /\ verb'[x] = verb[x]
    BY <2>1 DEF Proceeds, Finish, TypeOK
  <2> QED
    BY <1>1, <2>1, <2>2 DEF InWindow
<1>2. CASE Begin(c) \/ RunIpLeg(c) \/ Gate(c) \/ ReadBack(c)
  <2>1. /\ UNCHANGED <<owner, queue, rx, holder, heard>>
        /\ pc[c] # "record"
    BY <1>2 DEF Begin, RunIpLeg, Gate, ReadBack, envVars, recordVars, historyVars
  <2>2. \A x \in Clients \ {c} : pc'[x] = pc[x] /\ verb'[x] = verb[x]
    BY <1>2 DEF Begin, RunIpLeg, Gate, ReadBack, Finish, TypeOK
  <2> QED
    BY <2>1, <2>2 DEF InWindow
<1> QED
  BY <1>1, <1>2 DEF ClientStep

(* An accepted release of ours is on its way to the record at once.        *)
LEMMA ReleaseIsRecorded ==
  ASSUME TypeOK, Progress, NEW c \in Clients, Transmit(c), landed' # landed,
         verb[c] = "inputRelease"
  PROVE  InWindow(c)' /\ verb'[c] = "inputRelease"
<1>1. pc[c] = "transmit" /\ UNCHANGED verb /\ Proceed(c)
  BY TransmitParts
<1>2. Len(PlanOf(c)) = 1 /\ verb[c] \in Verbs
  <2>1. PlanOf(c) = <<Msg("inactiveSource", Us)>>
    BY PlanOfVerb DEF PlanOf
  <2> QED
    BY <2>1 DEF Verbs
<1>3. next[c] = 1
  <2>1. next[c] \in 1..Len(PlanOf(c))
    BY <1>1 DEF Progress, ProgressOf
  <2> QED
    BY <1>2, <2>1
<1>4. RecordOf(verb[c]) = "released"
  BY Zenon DEF RecordOf, ClaimVerbs
<1>5. pc'[c] = "record"
  BY <1>1, <1>2, <1>3, <1>4 DEF Proceed, TypeOK
<1> QED
  BY <1>1, <1>5 DEF InWindow

(* The display leaves us by a transmit of ours only when it is a release.  *)
LEMMA OnlyReleasesRelease ==
  ASSUME TypeOK, Progress, NEW c \in Clients, Transmit(c), holder = Us,
         ~(holder' = Us)
  PROVE  verb[c] = "inputRelease"
<1> DEFINE msg == PlanOf(c)[next[c]]
<1>1. pc[c] = "transmit" /\ Lands(msg)
  BY TransmitParts
<1>2. next[c] \in 1..Len(PlanOf(c)) /\ verb[c] \in Verbs
  BY <1>1 DEF Progress, ProgressOf, TypeOK
<1>3. msg.op = "activeSource" => msg.arg = Us
  BY <1>2, PlansClaimForUs DEF PlanOf
<1>4. msg.op = "inactiveSource"
  <2> HIDE DEF msg
  <2> QED
    BY <1>1, <1>3 DEF Lands
<1> QED
  BY <1>2, <1>4, ReleasesAreReleases DEF PlanOf

(* For any number of clients and devices, however they interleave and      *)
(* whatever is lost: the record comes to say wrongly, with no news on the  *)
(* way, that the display is ours only in a step in which the loss of it    *)
(* goes unnoticed or a claim is recorded that another overtook.            *)
THEOREM OursGoesStale == Spec => OursGoesStaleByLossOrOvertaking
<1> DEFINE ByLoss == OursIsNotStale /\ ~OursIsNotStale' =>
                       LossGoesUnnoticed \/ OvertakenClaimIsRecorded
<1>1. TypeOK /\ Progress /\ [Next]_vars => [ByLoss]_vars
  <2> SUFFICES ASSUME TypeOK, Progress, Next, OursIsNotStale, ~OursIsNotStale'
               PROVE  LossGoesUnnoticed \/ OvertakenClaimIsRecorded
    OBVIOUS
  <2>1. /\ owner' = Us /\ ~(holder' = Us) /\ ~NewsInFlight'
        /\ \A x \in Clients : ~(InWindow(x)' /\ verb'[x] = "inputRelease")
    BY DEF OursIsNotStale
  <2>2. CASE Outside
    <3>1. ~(Fold /\ IsNews(rx))
      BY <2>1, OwnerAfterTyped, DevicesAssumption DEF Fold, TypeOK
    <3>2. UNCHANGED <<pc, verb>>
      BY <2>2, OutsideTyped DEF clientVars
    <3>3. ASSUME NEW d \in Others, OtherClaims(d) PROVE LossGoesUnnoticed
      <4>1. Msg("activeSource", d) \in BusEvents /\ IsNews(Msg("activeSource", d))
        BY DEF BusEvents, IsNews, Msg
      <4>2. ~Deliver(Msg("activeSource", d))
        BY <2>1, <3>3, <4>1, DeliveryIsNews DEF OtherClaims
      <4> QED
        BY <3>3, <4>2 DEF OtherClaims, LossGoesUnnoticed
    <3>4. ASSUME NEW d \in Others, OtherReleases(d) PROVE FALSE
      <4>1. Msg("inactiveSource", d) \in BusEvents
        BY DEF BusEvents
      <4>2. holder # Us /\ UNCHANGED <<owner, rx>>
        BY <3>4, DevicesAssumption DEF OtherReleases, recordVars
      <4>3. NewsInFlight => NewsInFlight'
        BY <3>4, <4>1, <4>2, DeliveryIsNews DEF OtherReleases, NewsInFlight, IsNews
      <4> QED
        BY <2>1, <3>2, <4>2, <4>3 DEF OursIsNotStale, InWindow
    <3>5. ASSUME UNCHANGED <<owner, heard, holder>>, NewsInFlight => NewsInFlight'
          PROVE  FALSE
      BY <2>1, <3>2, <3>5 DEF OursIsNotStale, InWindow
    <3> QED
      BY <2>2, <3>1, <3>3, <3>4, <3>5, OutsideParts
  <2>3. ASSUME NEW c \in Clients, Record(c) PROVE OvertakenClaimIsRecorded
    BY <2>1, <2>3, RecordParts DEF OvertakenClaimIsRecorded
  <2>4. ASSUME NEW c \in Clients, Begin(c) \/ ClientStep(c), ~Record(c)
        PROVE  LossGoesUnnoticed
    <3>1. /\ UNCHANGED <<owner, queue, rx>>
          /\ ~Transmit(c) => UNCHANGED <<holder, heard>>
          /\ ~InWindow(c)
          /\ \A x \in Clients \ {c} : pc'[x] = pc[x] /\ verb'[x] = verb[x]
      BY <2>4, ClientParts
    <3>2. ~NewsInFlight
      BY <2>1, <3>1 DEF NewsInFlight, IsNews
    <3>3. \A x \in Clients : ~(InWindow(x) /\ verb[x] = "inputRelease")
      BY <2>1, <3>1 DEF InWindow
    <3>4. holder = Us
      BY <2>1, <3>1, <3>2, <3>3 DEF OursIsNotStale
    <3>5. Transmit(c)
      BY <2>1, <3>1, <3>4
    <3>6. verb[c] = "inputRelease"
      BY <2>1, <3>4, <3>5, OnlyReleasesRelease
    <3>7. UNCHANGED landed
      BY <2>1, <3>5, <3>6, ReleaseIsRecorded
    <3> QED
      BY <3>5, <3>6, <3>7 DEF LossGoesUnnoticed
  <2> QED
    BY <2>2, <2>3, <2>4 DEF Next, Outside
<1> QED
  BY <1>1, TypedInitially, TypedInductive, PTL
     DEF Spec, OursGoesStaleByLossOrOvertaking

(* For any number of clients and devices, however they interleave and      *)
(* whatever is lost: once all news is folded, a device that holds the      *)
(* display and was the last one heard to claim it ceases to be the         *)
(* recorded owner only in a step that records a claim or release of ours.  *)
THEOREM HeardHolderStays == Spec => HeardHolderIsForgottenByOurRecord
<1> DEFINE ByRecord == HeardHolderIsRecorded /\ ~HeardHolderIsRecorded' =>
                         \E c \in Clients : Record(c)
<1>1. TypeOK /\ Progress /\ [Next]_vars => [ByRecord]_vars
  <2> SUFFICES ASSUME TypeOK, Progress, Next, HeardHolderIsRecorded,
                      ~HeardHolderIsRecorded'
               PROVE  \E c \in Clients : Record(c)
    OBVIOUS
  <2>1. /\ ~NewsInFlight' /\ holder' \in Others /\ heard' = holder'
        /\ ~(owner' = holder')
    BY DEF HeardHolderIsRecorded
  <2>2. CASE Outside
    <3>1. ASSUME Fold, IsNews(rx) PROVE FALSE
      BY <2>1, <3>1 DEF Fold
    <3>2. ASSUME NEW d \in Others, OtherClaims(d) PROVE FALSE
      <4>1. Msg("activeSource", d) \in BusEvents /\ IsNews(Msg("activeSource", d))
        BY DEF BusEvents, IsNews, Msg
      <4>2. ~Deliver(Msg("activeSource", d))
        BY <2>1, <3>2, <4>1, DeliveryIsNews DEF OtherClaims
      <4>3. heard' = Unknown
        BY <3>2, <4>2 DEF OtherClaims
      <4> QED
        BY <2>1, <4>3, DevicesAssumption
    <3>3. ASSUME NEW d \in Others, OtherReleases(d) PROVE FALSE
      BY <2>1, <3>3, DevicesAssumption DEF OtherReleases
    <3>4. ASSUME UNCHANGED <<owner, heard, holder>>, NewsInFlight => NewsInFlight'
          PROVE  FALSE
      BY <2>1, <3>4 DEF HeardHolderIsRecorded
    <3> QED
      BY <2>2, <3>1, <3>2, <3>3, <3>4, OutsideParts
  <2>3. ASSUME NEW c \in Clients, Begin(c) \/ ClientStep(c), ~Record(c)
        PROVE  FALSE
    <3>1. /\ UNCHANGED <<owner, queue, rx>>
          /\ ~Transmit(c) => UNCHANGED <<holder, heard>>
      BY <2>3, ClientParts
    <3>2. ~NewsInFlight
      BY <2>1, <3>1 DEF NewsInFlight, IsNews
    <3>3. CASE UNCHANGED <<holder, heard>>
      BY <2>1, <3>1, <3>2, <3>3 DEF HeardHolderIsRecorded
    <3>4. CASE Transmit(c) /\ ~(UNCHANGED <<holder, heard>>)
      <4> DEFINE msg == PlanOf(c)[next[c]]
      <4>1. Lands(msg)
        BY <3>4, TransmitParts
      <4> HIDE DEF msg
      <4>2. \/ heard' = Unknown
            \/ heard' = heard /\ holder' \in {holder, Nobody}
        BY <4>1 DEF Lands
      <4>3. heard' = heard /\ holder' = holder
        BY <2>1, <4>2, DevicesAssumption
      <4> QED
        BY <3>4, <4>3
    <3> QED
      BY <3>1, <3>3, <3>4
  <2> QED
    BY <2>2, <2>3 DEF Next, Outside, ClientStep
<1> QED
  BY <1>1, TypedInitially, TypedInductive, PTL
     DEF Spec, HeardHolderIsForgottenByOurRecord
=============================================================================
