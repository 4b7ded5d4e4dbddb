----------------------------- MODULE VolumeProofs -----------------------------
(***************************************************************************)
(* Proofs about Volume, for any number of clients, any range of levels and *)
(* every verb.                                                             *)
(***************************************************************************)
EXTENDS Volume, TLAPS

-----------------------------------------------------------------------------
(* Levels and reports                                                      *)

(* The receiver's level stays in its range, whatever acts on it.           *)
LEMMA StepTyped ==
  ASSUME NEW a, NEW l \in Levels
  PROVE  Step(a, l) \in Levels
BY VolumeAssumption DEF Step, Levels

(* A key that acts, or does not, leaves a level and a mute state.          *)
LEMMA KeyTyped ==
  ASSUME level \in Levels, muted \in BOOLEAN, NEW a, KeyActs(a)
  PROVE  level' \in Levels /\ muted' \in BOOLEAN
BY StepTyped DEF KeyActs

\* What a report may say of a receiver that is as it is now.
Says(report) ==
  /\ report \in Reports
  /\ report.muted \in BOOLEAN \cup {Unknown}
  /\ report # NoReport => report.muted = muted
  /\ report.muted # Unknown => report.muted = muted
  /\ report.level # Unknown => report.level = level

(* A report is folded as it is, says what the receiver is, and calls a     *)
(* reserved level unknown; no report says nothing and is not folded.       *)
LEMMA ReportsAreTrue ==
  ASSUME level \in Levels, muted \in BOOLEAN, recorded \in Reports,
         NEW report, ReadAudio(report)
  PROVE  Says(report) /\ recorded' \in Reports
<1>1. CASE report = NoReport /\ UNCHANGED recorded
  BY <1>1 DEF Says, NoReport, Reports
<1>2. CASE /\ \E raw \in {level, Reserved} :
                 report = [level |-> LevelObservation(raw), muted |-> muted]
           /\ recorded' = report
  <2>1. LevelObservation(level) = level
    BY VolumeAssumption DEF LevelObservation, Levels
  <2>2. LevelObservation(Reserved) = Unknown
    BY VolumeAssumption DEF LevelObservation
  <2>3. report \in Reports
    BY <1>2, <2>1, <2>2 DEF Reports
  <2> QED
    BY <1>2, <2>1, <2>2, <2>3 DEF Says
<1> QED
  BY <1>1, <1>2 DEF ReadAudio

(* A verdict is one of three, whatever it is made from.                    *)
LEMMA JudgedTyped ==
  ASSUME NEW c, NEW report
  PROVE  Judge(c, report) \in {"done", "failed"}
BY DEF Judge, JudgeMute, JudgeLevel

-----------------------------------------------------------------------------
(* Types                                                                   *)

AvrTyped ==
  /\ level \in Levels /\ muted \in BOOLEAN /\ samOn \in BOOLEAN
  /\ held \in VolumeActions \cup {"none"}
  /\ addressable \in BOOLEAN /\ recorded \in Reports
  /\ releaseLost \in BOOLEAN

Places == {"idle", "sam", "request", "before", "press", "release", "after",
           "query", "answer"}

VerbsTyped ==
  /\ pc \in [Clients -> Places]
  /\ action \in [Clients -> VolumeActions]
  /\ before \in [Clients -> Levels \cup {Unknown}]
  /\ pressed \in [Clients -> BOOLEAN]
  /\ outcome \in [Clients -> {"none", "done", "failed", "refused"}]
  /\ noted \in [Clients -> {"none", "txOk", "txError"}]
  /\ reply \in [Clients -> [report : Reports,
                            source : {"avrReport", "observed", Unknown}]]

SeenTyped ==
  /\ mutedSince \in [Clients -> SUBSET BOOLEAN]
  /\ levelSince \in [Clients -> SUBSET Levels]

(* TypeOK is the conjunction of the three, now and after a step.           *)
LEMMA TypesInParts ==
  /\ TypeOK <=> AvrTyped /\ VerbsTyped /\ SeenTyped
  /\ TypeOK' <=> AvrTyped' /\ VerbsTyped' /\ SeenTyped'
BY DEF TypeOK, AvrTyped, VerbsTyped, SeenTyped, Places

(* Witnessing keeps the history well typed.                                *)
LEMMA WitnessTyped ==
  ASSUME SeenTyped, level' \in Levels, muted' \in BOOLEAN, Witness
  PROVE  SeenTyped'
BY DEF SeenTyped, Witness

(* Moving a client on in its verb keeps the types of what that changes.    *)
LEMMA GotoTyped ==
  ASSUME VerbsTyped, NEW c \in Clients, NEW where \in Places, Goto(c, where),
         before' \in [Clients -> Levels \cup {Unknown}],
         pressed' \in [Clients -> BOOLEAN]
  PROVE  VerbsTyped'
BY DEF VerbsTyped, Goto

(* Ending a verb keeps the types of what that changes.                     *)
LEMMA FinishTyped ==
  ASSUME VerbsTyped, NEW c \in Clients, NEW result \in {"done", "failed"},
         Finish(c, result),
         before' \in [Clients -> Levels \cup {Unknown}],
         pressed' \in [Clients -> BOOLEAN]
  PROVE  VerbsTyped'
BY DEF VerbsTyped, Finish, Places

(* The environment's steps and the fold of a StateChange keep the types.   *)
LEMMA OutsideTyped ==
  ASSUME TypeOK, Repeats \/ Drifts \/ Fold
  PROVE  TypeOK'
<1>0. AvrTyped /\ VerbsTyped /\ SeenTyped
  BY TypesInParts
<1>1. CASE Repeats
  <2>1. level' \in Levels /\ muted' \in BOOLEAN
    BY <1>0, <1>1, KeyTyped DEF Repeats, AvrTyped
  <2>2. AvrTyped' /\ VerbsTyped'
    BY <1>0, <1>1, <2>1 DEF Repeats, AvrTyped, VerbsTyped, verbVars
  <2>3. SeenTyped'
    BY <1>0, <1>1, <2>1, WitnessTyped DEF Repeats
  <2> QED
    BY <2>2, <2>3, TypesInParts
<1>2. CASE Drifts
  <2>1. level' \in Levels /\ muted' \in BOOLEAN /\ samOn' \in BOOLEAN
    BY <1>0, <1>2 DEF Drifts, AvrTyped
  <2>2. AvrTyped' /\ VerbsTyped'
    BY <1>0, <1>2, <2>1 DEF Drifts, AvrTyped, VerbsTyped, verbVars
  <2>3. SeenTyped'
    BY <1>0, <1>2, <2>1, WitnessTyped DEF Drifts
  <2> QED
    BY <2>2, <2>3, TypesInParts
<1>3. CASE Fold
  <2>1. Folded \subseteq Reports
    <3>1. NoReport \in Reports
      BY DEF NoReport, Reports
    <3>2. \A raw \in Levels \cup {Reserved} : LevelObservation(raw) \in Levels \cup {Unknown}
      BY VolumeAssumption DEF LevelObservation, Levels
    <3> QED
      BY <3>1, <3>2 DEF Folded, Reports
  <2> QED
    BY <1>0, <1>3, <2>1 DEF Fold, TypeOK, AvrTyped, VerbsTyped,
                            SeenTyped, Places, avrVars, verbVars, seenVars
<1> QED
  BY <1>1, <1>2, <1>3

(* A verb begins on its first frame, or at its answer.                     *)
LEMMA BeginTyped ==
  ASSUME TypeOK, NEW c \in Clients, Begin(c)
  PROVE  TypeOK'
<1>0. AvrTyped /\ VerbsTyped /\ SeenTyped
  BY TypesInParts
<1>1. PICK a \in VolumeActions, p \in Places,
           result \in {"none", "failed", "refused"} :
        /\ action' = [action EXCEPT ![c] = a]
        /\ outcome' = [outcome EXCEPT ![c] = result]
        /\ pc' = [pc EXCEPT ![c] = p]
  <2>1. PICK a \in ServedActions, active \in {"cec", "ip"} :
          /\ action' = [action EXCEPT ![c] = a]
          /\ LET result == IF a = "state" THEN "none"
                           ELSE IF active = "ip" THEN "failed"
                           ELSE IF ~addressable THEN "refused" ELSE "none"
             IN /\ outcome' = [outcome EXCEPT ![c] = result]
                /\ pc' = [pc EXCEPT ![c] = IF a = "state" THEN "query"
                                           ELSE IF result = "none" THEN "sam"
                                           ELSE "answer"]
    BY DEF Begin
  <2> QED
    BY <2>1, VolumeAssumption DEF Places
<1>2. AvrTyped' /\ UNCHANGED <<before, pressed, noted, reply>>
  BY <1>0 DEF Begin, AvrTyped, avrVars
<1>3. VerbsTyped'
  BY <1>0, <1>1, <1>2 DEF VerbsTyped
<1>4. SeenTyped'
  BY <1>0 DEF Begin, SeenTyped, AvrTyped
<1> QED
  BY <1>2, <1>3, <1>4, TypesInParts

(* The frames that change nothing but the receiver's mode.                 *)
LEMMA ModeTyped ==
  ASSUME TypeOK, NEW c \in Clients,
         AskSystemAudioMode(c) \/ RequestSystemAudioMode(c)
  PROVE  TypeOK'
<1>0. AvrTyped /\ VerbsTyped /\ SeenTyped
  BY TypesInParts
<1>1. PICK where \in Places : Goto(c, where)
  BY DEF AskSystemAudioMode, RequestSystemAudioMode, Places
<1>2. UNCHANGED <<before, pressed, seenVars>>
  BY DEF AskSystemAudioMode, RequestSystemAudioMode
<1>3. AvrTyped'
  BY <1>0 DEF AskSystemAudioMode, RequestSystemAudioMode, AvrTyped, avrVars
<1>4. VerbsTyped'
  BY <1>0, <1>1, <1>2, GotoTyped DEF VerbsTyped
<1> QED
  BY <1>0, <1>2, <1>3, <1>4, TypesInParts DEF SeenTyped, seenVars

(* The reads of the receiver's state, and what the verb makes of them.     *)
LEMMA ReadBeforeTyped ==
  ASSUME TypeOK, NEW c \in Clients, ReadBefore(c)
  PROVE  TypeOK'
<1>0. AvrTyped /\ VerbsTyped /\ SeenTyped
  BY TypesInParts
<1>1. UNCHANGED <<avrVars, addressable, pressed, seenVars, releaseLost>>
  BY DEF ReadBefore
<1>2. PICK report : 
        /\ ReadAudio(report)
        /\ \/ /\ Goto(c, "press")
              /\ before' = [before EXCEPT ![c] =
                              IF IsMute(action[c]) THEN Unknown ELSE report.level]
           \/ /\ Finish(c, "done") \/ Finish(c, "failed")
              /\ UNCHANGED before
  BY Zenon DEF ReadBefore
<1>3. Says(report) /\ recorded' \in Reports
  BY <1>0, <1>2, ReportsAreTrue DEF AvrTyped
<1>4. before' \in [Clients -> Levels \cup {Unknown}]
  BY <1>0, <1>2, <1>3 DEF VerbsTyped, Says, Reports
<1>5. pressed' \in [Clients -> BOOLEAN]
  BY <1>0, <1>1 DEF VerbsTyped
<1>6. VerbsTyped'
  BY <1>0, <1>2, <1>4, <1>5, GotoTyped, FinishTyped DEF Places
<1>7. AvrTyped' /\ SeenTyped'
  BY <1>0, <1>1, <1>3 DEF AvrTyped, SeenTyped, avrVars, seenVars
<1> QED
  BY <1>6, <1>7, TypesInParts

(* The second read, and the verdict on it, keep the types.                 *)
LEMMA ReadAfterTyped ==
  ASSUME TypeOK, NEW c \in Clients, ReadAfter(c)
  PROVE  TypeOK'
<1>0. AvrTyped /\ VerbsTyped /\ SeenTyped
  BY TypesInParts
<1>1. UNCHANGED <<avrVars, addressable, before, pressed, seenVars, releaseLost>>
  BY DEF ReadAfter
<1>2. PICK report : ReadAudio(report) /\ Finish(c, Judge(c, report))
  BY DEF ReadAfter
<1>3. recorded' \in Reports
  BY <1>0, <1>2, ReportsAreTrue DEF AvrTyped
<1>4. VerbsTyped'
  BY <1>0, <1>1, <1>2, FinishTyped, JudgedTyped DEF VerbsTyped
<1>5. AvrTyped' /\ SeenTyped'
  BY <1>0, <1>1, <1>3 DEF AvrTyped, SeenTyped, avrVars, seenVars
<1> QED
  BY <1>4, <1>5, TypesInParts

(* A press and its release.                                                *)
LEMMA KeyStepTyped ==
  ASSUME TypeOK, NEW c \in Clients, Press(c) \/ Release(c)
  PROVE  TypeOK'
<1>0. AvrTyped /\ VerbsTyped /\ SeenTyped
  BY TypesInParts
<1>1. CASE Press(c)
  <2>1. PICK f \in Fates :
          /\ pressed' = [pressed EXCEPT ![c] = f.ok]
          /\ IF f.landed
             THEN held' = action[c] /\ KeyActs(action[c])
             ELSE UNCHANGED <<held, level, muted>>
    BY <1>1 DEF Press
  <2>2. f.ok \in BOOLEAN
    BY DEF Fates
  <2>3. level' \in Levels /\ muted' \in BOOLEAN
    BY <1>0, <2>1, KeyTyped DEF AvrTyped
  <2>4. held' \in VolumeActions \cup {"none"}
    BY <1>0, <2>1 DEF AvrTyped, VerbsTyped
  <2>5. UNCHANGED <<samOn, addressable, recorded, before, releaseLost>>
    BY <1>1 DEF Press
  <2>6. AvrTyped'
    BY <1>0, <2>3, <2>4, <2>5 DEF AvrTyped
  <2>7. pressed' \in [Clients -> BOOLEAN]
    BY <1>0, <2>1, <2>2 DEF VerbsTyped
  <2>8. VerbsTyped'
    BY <1>0, <1>1, <2>5, <2>7, GotoTyped DEF Press, VerbsTyped, Places
  <2>9. SeenTyped'
    BY <1>0, <1>1, <2>3, WitnessTyped DEF Press
  <2> QED
    BY <2>6, <2>8, <2>9, TypesInParts
<1>2. CASE Release(c)
  <2>1. UNCHANGED <<level, muted, samOn, addressable, recorded, before, pressed,
                    seenVars>>
    BY <1>2 DEF Release
  <2>2. PICK f \in Fates :
          /\ held' = IF f.landed THEN "none" ELSE held
          /\ releaseLost' = (~f.landed /\ held # "none")
          /\ Goto(c, "after") \/ Finish(c, "failed")
    BY <1>2 DEF Release
  <2>3. AvrTyped'
    BY <1>0, <2>1, <2>2 DEF AvrTyped
  <2>4. VerbsTyped'
    BY <1>0, <2>1, <2>2, GotoTyped, FinishTyped DEF VerbsTyped, Places
  <2> QED
    BY <1>0, <2>1, <2>3, <2>4, TypesInParts DEF SeenTyped, seenVars
<1> QED
  BY <1>1, <1>2

(* volume-state answers with a report, whichever it chooses.               *)
LEMMA QueryTyped ==
  ASSUME TypeOK, NEW c \in Clients, QueryState(c)
  PROVE  TypeOK'
<1>0. AvrTyped /\ VerbsTyped /\ SeenTyped
  BY TypesInParts
<1>1. /\ UNCHANGED <<avrVars, addressable, action, before, pressed, outcome,
                     noted, seenVars, releaseLost>>
      /\ pc' = [pc EXCEPT ![c] = "answer"]
  BY DEF QueryState
<1>2. PICK report :
        /\ ReadAudio(report)
        /\ \/ reply' = [reply EXCEPT ![c] = [report |-> report,
                                             source |-> "avrReport"]]
           \/ reply' = [reply EXCEPT ![c] = NoReply]
           \/ reply' = [reply EXCEPT ![c] = [report |-> recorded,
                                             source |-> "observed"]]
  BY Zenon DEF QueryState
<1>3. report \in Reports /\ recorded' \in Reports
  BY <1>0, <1>2, ReportsAreTrue DEF AvrTyped, Says
<1>4. NoReport \in Reports
  BY DEF NoReport, Reports
<1>5. VerbsTyped'
  BY <1>0, <1>1, <1>2, <1>3, <1>4 DEF VerbsTyped, AvrTyped, NoReply, Places
<1>6. AvrTyped' /\ SeenTyped'
  BY <1>0, <1>1, <1>3 DEF AvrTyped, SeenTyped, avrVars, seenVars
<1> QED
  BY <1>5, <1>6, TypesInParts

(* The answer puts the client's fields back as they began.                 *)
LEMMA AnswerTyped ==
  ASSUME TypeOK, NEW c \in Clients, Answer(c)
  PROVE  TypeOK'
<1>0. AvrTyped /\ VerbsTyped /\ SeenTyped
  BY TypesInParts
<1>1. NoReply \in [report : Reports, source : {"avrReport", "observed", Unknown}]
  BY DEF NoReply, NoReport, Reports
<1>2. VerbsTyped'
  BY <1>0, <1>1 DEF Answer, VerbsTyped, Places, VolumeActions
<1>3. AvrTyped' /\ SeenTyped'
  BY <1>0 DEF Answer, AvrTyped, SeenTyped, avrVars
<1> QED
  BY <1>2, <1>3, TypesInParts

(* The types hold at first and over every step.                            *)
LEMMA TypedInductive ==
  /\ Init => TypeOK
  /\ TypeOK /\ [Next]_vars => TypeOK'
<1>1. Init => TypeOK
  <2>1. NoReport \in Reports
    BY DEF NoReport, Reports
  <2>2. NoReply \in [report : Reports, source : {"avrReport", "observed", Unknown}]
    BY <2>1 DEF NoReply
  <2>3. Init => AvrTyped /\ SeenTyped
    BY <2>1 DEF Init, AvrTyped, SeenTyped
  <2>4. Init => VerbsTyped
    BY <2>2 DEF Init, VerbsTyped, Places, VolumeActions
  <2> QED
    BY <2>3, <2>4, TypesInParts
<1>2. TypeOK /\ [Next]_vars => TypeOK'
  <2>1. CASE UNCHANGED vars
    BY <2>1 DEF vars, TypeOK
  <2> QED
    BY <2>1, OutsideTyped, BeginTyped, ModeTyped, ReadBeforeTyped, ReadAfterTyped,
       KeyStepTyped, QueryTyped, AnswerTyped DEF Next, VerbStep
<1> QED
  BY <1>1, <1>2

(* Every reachable state is well typed: no reserved level is ever recorded *)
(* or reported as one.                                                     *)
THEOREM TypeCorrect == Spec => []TypeOK
BY TypedInductive, PTL DEF Spec

-----------------------------------------------------------------------------
(* No key is left down.                                                    *)

Parked == \A c \in Clients : pc[c] # "release"

(* Where no press or release is made, a client that was between the two    *)
(* still is.                                                               *)
LEMMA OnlyReleaseLeaves ==
  ASSUME TypeOK, Parked', ~Parked, [Next]_vars
  PROVE  \E c \in Clients : Release(c)
<1>1. PICK c \in Clients : pc[c] = "release"
  BY DEF Parked
<1>2. pc'[c] # pc[c] /\ pc[c] \in Places
  BY <1>1 DEF Parked, TypeOK, Places
<1>3. pc' # pc
  BY <1>2
<1>4. PICK d \in Clients : Begin(d) \/ VerbStep(d)
  BY <1>3, Zenon DEF Next, vars, Repeats, Drifts, Fold
<1>5. \A where : pc' = [pc EXCEPT ![d] = where] => c = d
  BY <1>2, <1>4 DEF TypeOK
<1>6. Begin(d) => pc[d] = "idle" /\ \E w : pc' = [pc EXCEPT ![d] = w]
  BY DEF Begin
<1>7. VerbStep(d) => \E w : pc' = [pc EXCEPT ![d] = w]
  BY DEF VerbStep, AskSystemAudioMode, RequestSystemAudioMode, ReadBefore,
         Press, Release, ReadAfter, QueryState, Answer, Goto, Finish
<1>8. c = d
  BY <1>4, <1>5, <1>6, <1>7
<1>9. VerbStep(d) /\ pc[d] = "release"
  BY <1>1, <1>4, <1>6, <1>8
<1> QED
  BY <1>9, Zenon DEF VerbStep, AskSystemAudioMode, RequestSystemAudioMode,
                     ReadBefore, Press, ReadAfter, QueryState, Answer

(* Besides a press and a release no step changes the key that is held or   *)
(* what became of the last release.                                        *)
LEMMA OnlyKeysHold ==
  ASSUME [Next]_vars, \A c \in Clients : ~Press(c) /\ ~Release(c)
  PROVE  UNCHANGED <<held, releaseLost>>
<1>1. CASE UNCHANGED vars
  BY <1>1 DEF vars
<1>2. CASE Repeats \/ Drifts \/ Fold
  BY <1>2 DEF Repeats, Drifts, Fold, avrVars
<1>3. CASE \E c \in Clients : Begin(c) \/ VerbStep(c)
  BY <1>3, Zenon DEF Begin, VerbStep, AskSystemAudioMode, RequestSystemAudioMode,
              ReadBefore, ReadAfter, QueryState, Answer, avrVars
<1> QED
  BY <1>1, <1>2, <1>3 DEF Next

(* While no verb stands between its press and its release, and the last    *)
(* release was not lost, the receiver holds no key of ours, whatever was   *)
(* refused and however the clients' verbs interleave.                      *)
THEOREM KeysComeUp == Spec => []NoKeyLeftDown
<1>1. Init => NoKeyLeftDown
  BY DEF Init, NoKeyLeftDown
<1>2. TypeOK /\ NoKeyLeftDown /\ [Next]_vars => NoKeyLeftDown'
  <2> SUFFICES ASSUME TypeOK, NoKeyLeftDown, [Next]_vars, Parked', ~releaseLost'
               PROVE  held' = "none"
    BY DEF NoKeyLeftDown, Parked
  <2>1. CASE \E c \in Clients : Release(c)
    BY <2>1 DEF Release
  <2>2. ASSUME NEW c \in Clients, Press(c) PROVE FALSE
    <3>1. pc'[c] = "release"
      BY <2>2 DEF Press, Goto, TypeOK
    <3> QED
      BY <3>1 DEF Parked
  <2>3. CASE \A c \in Clients : ~Press(c) /\ ~Release(c)
    <3>1. UNCHANGED <<held, releaseLost>>
      BY <2>3, OnlyKeysHold
    <3>2. Parked
      BY <2>3, OnlyReleaseLeaves
    <3> QED
      BY <3>1, <3>2 DEF NoKeyLeftDown, Parked
  <2> QED
    BY <2>1, <2>2, <2>3
<1> QED
  BY <1>1, <1>2, TypeCorrect, PTL DEF Spec

-----------------------------------------------------------------------------
(* What a verb has seen.                                                   *)

\* The verb in progress has witnessed the state the receiver is in.
Present(c) ==
  pc[c] # "idle" => muted \in mutedSince[c] /\ level \in levelSince[c]

\* The level it goes by is one it has witnessed, and a toggle it is about to
\* press is off a state it has witnessed.
WellFounded(c) ==
  /\ before[c] \in levelSince[c] \cup {Unknown}
  /\ pc[c] = "press" /\ IsMute(action[c]) => (~Wanted(action[c])) \in mutedSince[c]

\* A success it is about to answer has been seen.
SuccessSeen(c) ==
  /\ outcome[c] = "done" /\ IsMute(action[c]) => Wanted(action[c]) \in mutedSince[c]
  /\ outcome[c] = "done" /\ action[c] \in {"up", "down"} =>
       \/ \E l, m \in levelSince[c] : l # m
       \/ \E l \in levelSince[c] : AtLimit(action[c], l)

\* And so has a report.
ReportSeen(c) ==
  reply[c].source = "avrReport" =>
    /\ reply[c].report.muted \in mutedSince[c]
    /\ reply[c].report.level \in levelSince[c] \cup {Unknown}

Rested(c) ==
  pc[c] = "idle" =>
    /\ outcome[c] = "none" /\ reply[c] = NoReply /\ before[c] = Unknown

Attested(c) ==
  /\ Present(c) /\ WellFounded(c) /\ SuccessSeen(c) /\ ReportSeen(c) /\ Rested(c)

Grows(c) ==
  /\ mutedSince[c] \subseteq mutedSince'[c]
  /\ levelSince[c] \subseteq levelSince'[c]
  /\ pc[c] # "idle" => muted' \in mutedSince'[c] /\ level' \in levelSince'[c]

Keeps(c) ==
  /\ action'[c] = action[c] /\ before'[c] = before[c]
  /\ outcome'[c] = outcome[c] /\ reply'[c] = reply[c]

(* What a verb has seen stays seen: a step that leaves its fields alone,   *)
(* or only moves it on to another place, keeps all of it.                  *)
LEMMA SeenStays ==
  ASSUME NEW c \in Clients, Attested(c), Grows(c), Keeps(c),
         \/ pc'[c] = pc[c]
         \/ pc[c] # "idle" /\ pc'[c] \notin {"idle", "press"}
  PROVE  Attested(c)'
<1>1. Present(c)'
  BY DEF Present, Grows, Attested
<1>2. WellFounded(c)'
  BY DEF WellFounded, Grows, Keeps, Attested
<1>3. SuccessSeen(c)'
  <2>1. CASE outcome[c] = "done" /\ action[c] \in {"up", "down"}
    BY <2>1 DEF SuccessSeen, Grows, Keeps, Attested, IsMute, AtLimit
  <2>2. CASE outcome[c] = "done" /\ IsMute(action[c])
    BY <2>2 DEF SuccessSeen, Grows, Keeps, Attested, IsMute
  <2> QED
    BY <2>1, <2>2 DEF SuccessSeen, Keeps
<1>4. ReportSeen(c)'
  BY DEF ReportSeen, Grows, Keeps, Attested
<1>5. Rested(c)'
  BY DEF Rested, Keeps, Attested
<1> QED
  BY <1>1, <1>2, <1>3, <1>4, <1>5 DEF Attested

(* A verb is a bystander of what leaves the receiver's level and mute      *)
(* state, and its own history, alone, and of what it witnesses.            *)
LEMMA Unmoved ==
  ASSUME NEW c \in Clients, Attested(c), UNCHANGED <<level, muted>>,
         mutedSince'[c] = mutedSince[c], levelSince'[c] = levelSince[c]
  PROVE  Grows(c)
BY DEF Grows, Attested, Present

LEMMA Witnesses ==
  ASSUME NEW c \in Clients, Witness
  PROVE  Grows(c)
BY DEF Grows, Witness

(* What the environment does, every verb in progress witnesses.            *)
LEMMA OutsideSeen ==
  ASSUME NEW c \in Clients, Attested(c), Repeats \/ Drifts \/ Fold
  PROVE  Attested(c)'
<1>1. Keeps(c) /\ pc'[c] = pc[c]
  BY DEF Repeats, Drifts, Fold, verbVars, Keeps
<1>2. Grows(c)
  BY Witnesses, Unmoved DEF Repeats, Drifts, Fold, avrVars, seenVars
<1> QED
  BY <1>1, <1>2, SeenStays

(* And what another client's verb does.                                    *)
LEMMA OthersSeen ==
  ASSUME TypeOK, NEW c \in Clients, NEW d \in Clients \ {c}, Attested(d),
         Begin(c) \/ VerbStep(c)
  PROVE  Attested(d)'
<1>1. pc'[d] = pc[d]
  BY DEF Begin, VerbStep, AskSystemAudioMode, RequestSystemAudioMode, ReadBefore,
         Press, Release, ReadAfter, QueryState, Answer, Goto, Finish, TypeOK
<1>2. action'[d] = action[d]
  BY DEF Begin, VerbStep, AskSystemAudioMode, RequestSystemAudioMode, ReadBefore,
         Press, Release, ReadAfter, QueryState, Answer, Goto, Finish, TypeOK
<1>3. before'[d] = before[d]
  BY DEF Begin, VerbStep, AskSystemAudioMode, RequestSystemAudioMode, ReadBefore,
         Press, Release, ReadAfter, QueryState, Answer, TypeOK
<1>4. outcome'[d] = outcome[d]
  BY DEF Begin, VerbStep, AskSystemAudioMode, RequestSystemAudioMode, ReadBefore,
         Press, Release, ReadAfter, QueryState, Answer, Goto, Finish, TypeOK
<1>5. reply'[d] = reply[d]
  BY DEF Begin, VerbStep, AskSystemAudioMode, RequestSystemAudioMode, ReadBefore,
         Press, Release, ReadAfter, QueryState, Answer, Goto, Finish, TypeOK
<1>6. Grows(d)
  <2>1. CASE Press(c)
    BY <2>1, Witnesses DEF Press
  <2>2. CASE ~Press(c)
    <3>1. UNCHANGED <<level, muted>>
      BY <2>2 DEF Begin, VerbStep, AskSystemAudioMode, RequestSystemAudioMode,
                  ReadBefore, Release, ReadAfter, QueryState, Answer, avrVars
    <3>2. mutedSince'[d] = mutedSince[d] /\ levelSince'[d] = levelSince[d]
      BY <2>2 DEF Begin, VerbStep, AskSystemAudioMode, RequestSystemAudioMode,
                  ReadBefore, Release, ReadAfter, QueryState, Answer, seenVars,
                  TypeOK
    <3> QED
      BY <3>1, <3>2, Unmoved
  <2> QED
    BY <2>1, <2>2
<1> QED
  BY <1>1, <1>2, <1>3, <1>4, <1>5, <1>6, SeenStays DEF Keeps

(* A verb begins having seen the state of this moment, and nothing else.   *)
LEMMA BeginSeen ==
  ASSUME TypeOK, NEW c \in Clients, Attested(c), Begin(c)
  PROVE  Attested(c)'
<1>1. /\ outcome[c] = "none" /\ reply[c] = NoReply /\ before[c] = Unknown
  BY DEF Attested, Rested, Begin
<1>2. mutedSince'[c] = {muted} /\ levelSince'[c] = {level} /\ UNCHANGED <<level, muted>>
  BY DEF Begin, avrVars, TypeOK
<1>3. reply'[c] = NoReply /\ before'[c] = Unknown
  BY <1>1 DEF Begin
<1>4. outcome'[c] # "done"
  BY DEF Begin, TypeOK
<1>5. pc'[c] \in {"query", "sam", "answer"}
  BY DEF Begin, TypeOK
<1>6. ReportSeen(c)'
  BY <1>3, VolumeAssumption DEF ReportSeen, NoReply
<1>7. Present(c)' /\ WellFounded(c)' /\ SuccessSeen(c)' /\ Rested(c)'
  BY <1>2, <1>3, <1>4, <1>5 DEF Present, WellFounded, SuccessSeen, Rested
<1> QED
  BY <1>6, <1>7 DEF Attested

(* The frames that read nothing move the verb on.                          *)
LEMMA FramesSeen ==
  ASSUME TypeOK, NEW c \in Clients, Attested(c),
         \/ AskSystemAudioMode(c) \/ RequestSystemAudioMode(c)
         \/ Press(c) \/ (Release(c) /\ Goto(c, "after"))
  PROVE  Attested(c)'
<1>1. Keeps(c)
  BY DEF AskSystemAudioMode, RequestSystemAudioMode, Press, Release, Goto, Keeps
<1>2. pc[c] # "idle" /\ pc'[c] \notin {"idle", "press"}
  BY DEF AskSystemAudioMode, RequestSystemAudioMode, Press, Release, Goto, TypeOK
<1>3. Grows(c)
  BY Witnesses, Unmoved DEF AskSystemAudioMode, RequestSystemAudioMode, Press,
                            Release, avrVars, seenVars
<1> QED
  BY <1>1, <1>2, <1>3, SeenStays

(* A verb that ends with a failure promises nothing.                       *)
LEMMA FailureSeen ==
  ASSUME TypeOK, NEW c \in Clients, Attested(c), pc[c] # "idle",
         Finish(c, "failed"), UNCHANGED <<level, muted, before, seenVars>>
  PROVE  Attested(c)'
<1>1. outcome'[c] = "failed" /\ pc'[c] = "answer"
  BY DEF Finish, TypeOK
<1>2. Present(c)' /\ WellFounded(c)' /\ SuccessSeen(c)' /\ ReportSeen(c)' /\ Rested(c)'
  BY <1>1 DEF Attested, Present, WellFounded, SuccessSeen, ReportSeen, Rested,
              Finish, seenVars
<1> QED
  BY <1>2 DEF Attested

(* One that ends with a success has seen what it claims.                   *)
LEMMA DoneSeen ==
  ASSUME TypeOK, NEW c \in Clients, Attested(c), pc[c] # "idle",
         Finish(c, "done"), UNCHANGED <<level, muted, before, seenVars>>,
         IsMute(action[c]) => Wanted(action[c]) \in mutedSince[c],
         action[c] \in {"up", "down"} =>
           \/ \E l, m \in levelSince[c] : l # m
           \/ \E l \in levelSince[c] : AtLimit(action[c], l)
  PROVE  Attested(c)'
<1>1. outcome'[c] = "done" /\ pc'[c] = "answer"
  BY DEF Finish, TypeOK
<1>2. Present(c)' /\ WellFounded(c)' /\ ReportSeen(c)' /\ Rested(c)'
  BY <1>1 DEF Attested, Present, WellFounded, ReportSeen, Rested, Finish, seenVars
<1>3. SuccessSeen(c)'
  BY <1>1, Zenon DEF SuccessSeen, Finish, seenVars
<1> QED
  BY <1>2, <1>3 DEF Attested

(* The first read: a toggle is pressed off the state reported, and a mute  *)
(* or unmute that finds nothing to do found it so.                         *)
LEMMA ReadBeforeSeen ==
  ASSUME TypeOK, NEW c \in Clients, Attested(c), ReadBefore(c)
  PROVE  Attested(c)'
<1>1. UNCHANGED <<avrVars, seenVars>> /\ pc[c] = "before"
  BY DEF ReadBefore
<1>2. Present(c) /\ muted \in mutedSince[c] /\ level \in levelSince[c]
  BY <1>1 DEF Attested, Present
<1>3. PICK report :
        /\ ReadAudio(report)
        /\ LET step == IF IsMute(action[c])
                       THEN MuteStep(action[c], report.muted) ELSE "press"
           IN IF step \in {"press", "toggle"}
              THEN /\ Goto(c, "press")
                   /\ before' = [before EXCEPT ![c] =
                                   IF IsMute(action[c]) THEN Unknown
                                                        ELSE report.level]
              ELSE /\ Finish(c, IF step = "nothingToDo" THEN "done" ELSE "failed")
                   /\ UNCHANGED before
  BY <1>1, Zenon DEF ReadBefore
<1>4. Says(report)
  BY <1>3, ReportsAreTrue DEF TypeOK
<1>5. CASE IsMute(action[c]) /\ MuteStep(action[c], report.muted) = "undecidable"
  <2>1. Finish(c, "failed") /\ UNCHANGED before
    BY <1>3, <1>5
  <2> QED
    BY <1>1, <2>1, FailureSeen DEF avrVars
<1>6. CASE IsMute(action[c]) /\ MuteStep(action[c], report.muted) = "nothingToDo"
  <2>1. Finish(c, "done") /\ UNCHANGED before
    BY <1>3, <1>6
  <2>2. Wanted(action[c]) \in mutedSince[c]
    BY <1>2, <1>4, <1>6 DEF MuteStep, Says
  <2>3. action[c] \notin {"up", "down"}
    BY <1>6 DEF IsMute
  <2> QED
    BY <1>1, <2>1, <2>2, <2>3, DoneSeen DEF avrVars
<1>7. CASE \/ ~IsMute(action[c])
           \/ MuteStep(action[c], report.muted) = "toggle"
  <2>1. /\ Goto(c, "press")
        /\ before' = [before EXCEPT ![c] = IF IsMute(action[c]) THEN Unknown
                                                                ELSE report.level]
    BY <1>3, <1>7
  <2>2. pc'[c] = "press" /\ action' = action /\ outcome' = outcome /\ reply' = reply
    BY <2>1 DEF Goto, TypeOK
  <2>3. before'[c] \in levelSince[c] \cup {Unknown}
    BY <1>2, <1>4, <2>1 DEF TypeOK, Says
  <2>4. IsMute(action[c]) => (~Wanted(action[c])) \in mutedSince[c]
    BY <1>2, <1>4, <1>7 DEF MuteStep, Says, Wanted, TypeOK
  <2>5. Present(c)' /\ Rested(c)'
    BY <1>1, <1>2, <2>2 DEF Present, Rested, avrVars, seenVars
  <2>6. WellFounded(c)'
    BY <1>1, <2>2, <2>3, <2>4 DEF WellFounded, seenVars
  <2>7. SuccessSeen(c)' /\ ReportSeen(c)'
    BY <1>1, <2>2 DEF Attested, SuccessSeen, ReportSeen, seenVars
  <2> QED
    BY <2>5, <2>6, <2>7 DEF Attested
<1> QED
  BY <1>5, <1>6, <1>7 DEF MuteStep

(* The second read: the verdict is the receiver's own.                     *)
LEMMA ReadAfterSeen ==
  ASSUME TypeOK, NEW c \in Clients, Attested(c), ReadAfter(c)
  PROVE  Attested(c)'
<1>1. UNCHANGED <<level, muted, before, seenVars>> /\ pc[c] = "after"
  BY DEF ReadAfter, avrVars
<1>2. muted \in mutedSince[c] /\ level \in levelSince[c]
  BY <1>1 DEF Attested, Present
<1>3. PICK report : ReadAudio(report) /\ Finish(c, Judge(c, report))
  BY DEF ReadAfter
<1>4. Says(report)
  BY <1>3, ReportsAreTrue DEF TypeOK
<1>5. CASE Judge(c, report) = "failed"
  BY <1>1, <1>3, <1>5, FailureSeen
<1>6. CASE Judge(c, report) = "done"
  <2>1. IsMute(action[c]) => Wanted(action[c]) \in mutedSince[c]
    <3>1. IsMute(action[c]) => report.muted = Wanted(action[c])
      BY <1>6 DEF Judge, JudgeMute
    <3>2. Wanted(action[c]) # Unknown
      BY VolumeAssumption DEF Wanted
    <3> QED
      BY <1>2, <1>4, <3>1, <3>2 DEF Says
  <2>2. ASSUME action[c] \in {"up", "down"}
        PROVE  \/ \E l, m \in levelSince[c] : l # m
               \/ \E l \in levelSince[c] : AtLimit(action[c], l)
    <3>1. JudgeLevel(action[c], before[c], report.level) = "done"
      BY <1>6, <2>2 DEF Judge, IsMute
    <3>2. /\ before[c] # Unknown /\ report.level # Unknown
          /\ before[c] # report.level \/ AtLimit(action[c], before[c])
      BY <3>1 DEF JudgeLevel
    <3>3. before[c] \in levelSince[c] /\ report.level \in levelSince[c]
      BY <1>2, <1>4, <3>2 DEF Attested, WellFounded, Says
    <3> QED
      BY <3>2, <3>3
  <2>3. Finish(c, "done")
    BY <1>3, <1>6
  <2> QED
    BY <1>1, <2>1, <2>2, <2>3, DoneSeen
<1> QED
  BY <1>5, <1>6, JudgedTyped

(* volume-state: what it calls the receiver's report is what it just read. *)
LEMMA QuerySeen ==
  ASSUME TypeOK, NEW c \in Clients, Attested(c), QueryState(c)
  PROVE  Attested(c)'
<1>1. /\ UNCHANGED <<avrVars, action, before, outcome, seenVars>>
      /\ pc[c] = "query" /\ pc'[c] = "answer"
  BY DEF QueryState, TypeOK
<1>2. muted \in mutedSince[c] /\ level \in levelSince[c]
  BY <1>1 DEF Attested, Present
<1>3. PICK report :
        /\ ReadAudio(report)
        /\ \/ /\ report # NoReport
              /\ reply' = [reply EXCEPT ![c] = [report |-> report,
                                                source |-> "avrReport"]]
           \/ reply' = [reply EXCEPT ![c] = NoReply]
           \/ reply' = [reply EXCEPT ![c] = [report |-> recorded,
                                             source |-> "observed"]]
  BY Zenon DEF QueryState
<1>4. Says(report)
  BY <1>3, ReportsAreTrue DEF TypeOK
<1>5. ReportSeen(c)'
  <2>1. CASE reply'[c] = [report |-> report, source |-> "avrReport"] /\ report # NoReport
    BY <1>1, <1>2, <1>4, <2>1 DEF ReportSeen, Says, seenVars
  <2>2. CASE reply'[c] = NoReply
    BY <2>2, VolumeAssumption DEF ReportSeen, NoReply
  <2>3. CASE reply'[c] = [report |-> recorded, source |-> "observed"]
    BY <2>3 DEF ReportSeen
  <2> QED
    BY <1>3, <2>1, <2>2, <2>3 DEF TypeOK
<1>6. Present(c)' /\ WellFounded(c)' /\ Rested(c)'
  BY <1>1, <1>2 DEF Attested, Present, WellFounded, Rested, seenVars, avrVars
<1>7. SuccessSeen(c)'
  BY <1>1 DEF Attested, SuccessSeen, seenVars
<1> QED
  BY <1>5, <1>6, <1>7 DEF Attested

(* After its answer a client has nothing left to attest.                   *)
LEMMA AnswerSeen ==
  ASSUME TypeOK, NEW c \in Clients, Answer(c)
  PROVE  Attested(c)'
<1>1. /\ pc'[c] = "idle" /\ before'[c] = Unknown /\ outcome'[c] = "none"
      /\ reply'[c] = NoReply
  BY DEF Answer, TypeOK
<1> QED
  BY <1>1, VolumeAssumption DEF Attested, Present, WellFounded, SuccessSeen,
                                ReportSeen, Rested, NoReply

\* The inductive invariant.
AllAttested == \A c \in Clients : Attested(c)

(* Every verb attests what it says, at first and over every step.          *)
LEMMA AttestedInductive ==
  /\ Init => AllAttested
  /\ TypeOK /\ AllAttested /\ [Next]_vars => AllAttested'
<1>1. Init => AllAttested
  <2> SUFFICES ASSUME Init, NEW c \in Clients PROVE Attested(c)
    BY DEF AllAttested
  <2>1. pc[c] = "idle" /\ before[c] = Unknown
    BY Zenon DEF Init
  <2>2. outcome[c] = "none" /\ reply[c] = NoReply
    BY Zenon DEF Init
  <2>3. Present(c) /\ WellFounded(c)
    BY <2>1 DEF Present, WellFounded
  <2>4. SuccessSeen(c)
    BY <2>2 DEF SuccessSeen
  <2>5. NoReply.source # "avrReport"
    BY VolumeAssumption DEF NoReply
  <2>6. ReportSeen(c) /\ Rested(c)
    BY <2>1, <2>2, <2>5, Zenon DEF ReportSeen, Rested
  <2> QED
    BY <2>3, <2>4, <2>6 DEF Attested
<1>2. TypeOK /\ AllAttested /\ [Next]_vars => AllAttested'
  <2> SUFFICES ASSUME TypeOK, AllAttested, [Next]_vars, NEW d \in Clients
               PROVE  Attested(d)'
    BY DEF AllAttested
  <2>0. Attested(d)
    BY DEF AllAttested
  <2>1. CASE UNCHANGED vars
    BY <2>0, <2>1 DEF vars, Attested, Present, WellFounded, SuccessSeen,
                      ReportSeen, Rested
  <2>2. CASE Repeats \/ Drifts \/ Fold
    BY <2>0, <2>2, OutsideSeen
  <2>3. CASE \E c \in Clients : Begin(c) \/ VerbStep(c)
    <3>1. PICK c \in Clients : Begin(c) \/ VerbStep(c)
      BY <2>3
    <3>2. CASE c # d
      BY <2>0, <3>1, <3>2, OthersSeen
    <3>3. CASE c = d
      <4>1. Release(d) => Attested(d)'
        <5>1. Release(d) => /\ Goto(d, "after") \/ Finish(d, "failed")
                            /\ UNCHANGED <<level, muted, before, seenVars>>
                            /\ pc[d] # "idle"
          BY DEF Release
        <5> QED
          BY <2>0, <5>1, FramesSeen, FailureSeen
      <4> QED
        BY <2>0, <3>1, <3>3, <4>1, BeginSeen, FramesSeen, ReadBeforeSeen,
           ReadAfterSeen, QuerySeen, AnswerSeen DEF VerbStep
    <3> QED
      BY <3>2, <3>3
  <2> QED
    BY <2>1, <2>2, <2>3 DEF Next
<1> QED
  BY <1>1, <1>2

(* What every answer says of the receiver was so since its verb began, for *)
(* any number of clients and whatever else moves the receiver.             *)
THEOREM AnswersAreTrue == Spec => []AnswersWereTrue
<1>1. AllAttested => AnswersWereTrue
  BY DEF AllAttested, Attested, SuccessSeen, ReportSeen, AnswersWereTrue
<1> QED
  BY <1>1, TypeCorrect, AttestedInductive, PTL DEF Spec

(* No step presses a toggle away from the state it was asked for unless    *)
(* the receiver has been in the other state since the verb began.          *)
THEOREM TogglesAreInformed == Spec => NoBlindToggle
<1> DEFINE Informed ==
      \A c \in Clients :
        /\ pc[c] = "press" /\ pc'[c] = "release"
        /\ IsMute(action[c]) /\ muted = Wanted(action[c])
        => (~Wanted(action[c])) \in mutedSince[c]
<1>1. AllAttested /\ [Next]_vars => [Informed]_vars
  BY DEF AllAttested, Attested, WellFounded
<1>2. NoBlindToggle <=> [][Informed]_vars
  BY PTL DEF NoBlindToggle
<1> QED
  BY <1>1, <1>2, TypeCorrect, AttestedInductive, PTL DEF Spec
=============================================================================
