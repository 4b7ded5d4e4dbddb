-------------------------------- MODULE Volume --------------------------------
(***************************************************************************)
(* The volume verbs of the AV daemon: KernelBackend::volume and            *)
(* volume_state (src/cec/src/kernel/device.rs), the sequence of volume.rs  *)
(* and the frames of kernel/ops.rs, against one receiver.                  *)
(*                                                                         *)
(* A step is one frame and its reply; no lock is held from one to the      *)
(* next.  All clients transmit from the same logical address, so the       *)
(* receiver holds one key down for all of them, and the remote, the front  *)
(* panel and other devices change its state at any moment.                 *)
(***************************************************************************)
EXTENDS Integers

CONSTANTS
  Clients,        \* the client connections
  MaxLevel,       \* volume.rs, MAX_LEVEL (100)
  Reserved,       \* volume.rs, LEVEL_UNKNOWN (0x7F): not a level
  Unknown,        \* Observation::Unknown
  ServedActions   \* bound: the verbs the clients send

VolumeActions == {"up", "down", "mute", "unmute", "state"}

ASSUME VolumeAssumption ==
  /\ MaxLevel \in Nat \ {0} /\ Reserved \in Nat /\ Reserved > MaxLevel
  /\ ServedActions \subseteq VolumeActions
  /\ Unknown \notin Int /\ Unknown \notin BOOLEAN
  /\ Unknown \notin {"avrReport", "observed"}

VARIABLES
  level, muted,   \* the receiver's state
  samOn,          \* is it in system-audio mode?
  held,           \* the key it believes we are holding, or "none"
  addressable,    \* was our physical address readable at open?
  recorded,       \* Observations.volume and .muted
  pc,             \* where each client's verb is
  action,         \* the verb
  before,         \* the level read before the key press
  pressed,        \* was the <User Control Pressed> accepted?
  outcome,        \* the ActionOutcome about to be written to the client
  noted,          \* what the verb told the warm-path decision
  reply,          \* the volume-state reply about to be written to the client
  mutedSince, levelSince, \* history: the states the receiver has been in since
                          \* the client's verb began
  releaseLost     \* history: was the last release lost on the bus?

avrVars  == <<level, muted, samOn, held>>
verbVars == <<action, before, pressed, outcome, noted, reply>>
seenVars == <<mutedSince, levelSince>>
vars == <<level, muted, samOn, held, addressable, recorded, pc,
          action, before, pressed, outcome, noted, reply, mutedSince,
          levelSince, releaseLost>>

Levels   == 0..MaxLevel
Reports  == [level : Levels \cup {Unknown}, muted : BOOLEAN \cup {Unknown}]
NoReport == [level |-> Unknown, muted |-> Unknown]
NoReply  == [report |-> NoReport, source |-> Unknown]

-----------------------------------------------------------------------------
(* volume.rs: the pure half                                                *)

LevelObservationRaw(raw) == raw

LevelObservation(raw) == IF raw > MaxLevel THEN Unknown ELSE raw

IsMute(a) == a \in {"mute", "unmute"}
Wanted(a) == a = "mute"

MuteStepGuessing(a, current) ==
  IF current = Wanted(a) THEN "nothingToDo" ELSE "toggle"

MuteStep(a, current) ==
  IF current = Unknown THEN "undecidable"
  ELSE IF current = Wanted(a) THEN "nothingToDo" ELSE "toggle"

AtLimit(a, l) == l = IF a = "up" THEN MaxLevel ELSE 0

JudgeLevelOptimistic(a, from, to) ==
  IF from = to /\ ~AtLimit(a, from) THEN "failed" ELSE "done"

\* Changed and AtLimit are successes; Ignored and Unreadable are failures.
JudgeLevel(a, from, to) ==
  IF from # Unknown /\ to # Unknown /\ (from # to \/ AtLimit(a, from))
  THEN "done" ELSE "failed"

JudgeMute(a, after) == IF after = Wanted(a) THEN "done" ELSE "failed"

Judge(c, report) ==
  IF IsMute(action[c]) THEN JudgeMute(action[c], report.muted)
                       ELSE JudgeLevel(action[c], before[c], report.level)

-----------------------------------------------------------------------------
(* The receiver                                                            *)

Step(a, l) == IF a = "up" THEN IF l < MaxLevel THEN l + 1 ELSE l
                          ELSE IF l > 0 THEN l - 1 ELSE l

\* It accepts every key; it acts on ours in system-audio mode only, and while
\* our input is the selected one.
KeyActs(a) ==
  \/ /\ samOn
     /\ muted' = IF IsMute(a) THEN ~muted ELSE muted
     /\ level' = IF IsMute(a) THEN level ELSE Step(a, level)
  \/ UNCHANGED <<level, muted>>

\* The verbs in progress witness the state the receiver comes to be in.
Witness ==
  /\ mutedSince' = [c \in Clients |->
                      mutedSince[c] \cup IF pc[c] = "idle" THEN {} ELSE {muted'}]
  /\ levelSince' = [c \in Clients |->
                      levelSince[c] \cup IF pc[c] = "idle" THEN {} ELSE {level'}]

\* An unreleased level key repeats.
Repeats ==
  /\ held \in {"up", "down"} /\ KeyActs(held) /\ Witness
  /\ UNCHANGED <<samOn, held, addressable, recorded, pc, verbVars,
                 releaseLost>>

\* The remote, the front panel, the other devices on the bus.
Drifts ==
  /\ \/ level' \in Levels \ {level} /\ UNCHANGED <<muted, samOn>>
     \/ muted' = ~muted /\ UNCHANGED <<level, samOn>>
     \/ samOn' = ~samOn /\ UNCHANGED <<level, muted>>
  /\ Witness
  /\ UNCHANGED <<held, addressable, recorded, pc, verbVars, releaseLost>>

\* The receive loop folds what it hears: after a StateChange nothing observed is
\* current any more; a <Report Audio Status> may have waited in the queue, and any
\* device may have asked for it.
Folded ==
  {NoReport} \cup {[level |-> LevelObservation(raw), muted |-> isMuted] :
                     raw \in Levels \cup {Reserved}, isMuted \in BOOLEAN}

Fold ==
  /\ recorded' \in Folded
  /\ UNCHANGED <<avrVars, addressable, pc, verbVars, seenVars, releaseLost>>

-----------------------------------------------------------------------------
(* One verb of a client                                                    *)

Init ==
  /\ level \in Levels /\ muted \in BOOLEAN /\ samOn \in BOOLEAN
  /\ held = "none"
  /\ addressable \in BOOLEAN
  /\ recorded = NoReport
  /\ pc = [c \in Clients |-> "idle"]
  /\ action = [c \in Clients |-> "state"]
  /\ before = [c \in Clients |-> Unknown]
  /\ pressed = [c \in Clients |-> FALSE]
  /\ outcome = [c \in Clients |-> "none"]
  /\ noted = [c \in Clients |-> "none"]
  /\ reply = [c \in Clients |-> NoReply]
  /\ mutedSince = [c \in Clients |-> {}]
  /\ levelSince = [c \in Clients |-> {}]
  /\ releaseLost = FALSE

Goto(c, where) ==
  /\ pc' = [pc EXCEPT ![c] = where]
  /\ UNCHANGED <<action, outcome, noted, reply>>

\* volume: nothing is sent over a bus that the decision, which the environment
\* moves here, has given up, nor without an address of ours to name.
Begin(c) ==
  /\ pc[c] = "idle"
  /\ \E a \in ServedActions, active \in {"cec", "ip"} :
       /\ action' = [action EXCEPT ![c] = a]
       /\ LET result == IF a = "state" THEN "none"
                        ELSE IF active = "ip" THEN "failed"
                        ELSE IF ~addressable THEN "refused" ELSE "none"
          IN /\ outcome' = [outcome EXCEPT ![c] = result]
             /\ pc' = [pc EXCEPT ![c] = IF a = "state" THEN "query"
                                        ELSE IF result = "none" THEN "sam"
                                        ELSE "answer"]
  /\ mutedSince' = [mutedSince EXCEPT ![c] = {muted}]
  /\ levelSince' = [levelSince EXCEPT ![c] = {level}]
  /\ UNCHANGED <<avrVars, addressable, recorded, before, pressed, noted, reply,
                 releaseLost>>

\* The outcome, and note_tx.
Finish(c, result) ==
  /\ outcome' = [outcome EXCEPT ![c] = result]
  /\ noted' = [noted EXCEPT ![c] = IF result = "done" THEN "txOk" ELSE "txError"]
  /\ pc' = [pc EXCEPT ![c] = "answer"]
  /\ UNCHANGED <<action, reply>>

\* <Give System Audio Mode Status>: only a yes spares the request.
AskSystemAudioMode(c) ==
  /\ pc[c] = "sam"
  /\ Goto(c, "request") \/ (samOn /\ Goto(c, "before"))
  /\ UNCHANGED <<avrVars, addressable, recorded, before, pressed, seenVars,
                 releaseLost>>

\* <System Audio Mode Request>: never fatal, whatever becomes of it.
RequestSystemAudioMode(c) ==
  /\ pc[c] = "request"
  /\ Goto(c, "before")
  /\ samOn' \in {samOn, TRUE}
  /\ UNCHANGED <<level, muted, held, addressable, recorded, before,
                 pressed, seenVars, releaseLost>>

AudioReads == Reports \cup [level : {Reserved}, muted : BOOLEAN]

\* <Give Audio Status>: a report, folded into the record, or nothing, since
\* the frame was refused or the reply did not come.
ReadAudio(report) ==
  \/ /\ \E raw \in {level, Reserved} :
          report = [level |-> LevelObservation(raw), muted |-> muted]
     /\ recorded' = report
  \/ report = NoReport /\ UNCHANGED recorded

\* mute_step: done already, undecidable, or a key to press.
ReadBefore(c) ==
  /\ pc[c] = "before"
  /\ \E report \in AudioReads :
       /\ ReadAudio(report)
       /\ LET step == IF IsMute(action[c])
                      THEN MuteStep(action[c], report.muted) ELSE "press"
          IN IF step \in {"press", "toggle"}
             THEN /\ Goto(c, "press")
                  /\ before' = [before EXCEPT ![c] =
                                  IF IsMute(action[c]) THEN Unknown
                                                       ELSE report.level]
             ELSE /\ Finish(c, IF step = "nothingToDo" THEN "done" ELSE "failed")
                  /\ UNCHANGED before
  /\ UNCHANGED <<avrVars, addressable, pressed, seenVars, releaseLost>>

\* What becomes of a frame; a refusal may be spurious, and the frame arrived.
Fates == {f \in [landed : BOOLEAN, ok : BOOLEAN] : f.ok => f.landed}

\* <User Control Pressed>
Press(c) ==
  /\ pc[c] = "press"
  /\ Goto(c, "release")
  /\ \E f \in Fates :
       /\ pressed' = [pressed EXCEPT ![c] = f.ok]
       /\ IF f.landed
          THEN held' = action[c] /\ KeyActs(action[c])
          ELSE UNCHANGED <<held, level, muted>>
  /\ Witness
  /\ UNCHANGED <<samOn, addressable, recorded, before, releaseLost>>

ReleaseIfAccepted(c) ==
  /\ pc[c] = "release"
  /\ held' = IF pressed[c] THEN "none" ELSE held
  /\ IF pressed[c] THEN Goto(c, "after") ELSE Finish(c, "failed")
  /\ UNCHANGED <<level, muted, samOn, addressable, recorded, before,
                 pressed, seenVars, releaseLost>>

\* <User Control Released>: sent on every path, refused press or not.
Release(c) ==
  /\ pc[c] = "release"
  /\ \E f \in Fates :
       /\ held' = IF f.landed THEN "none" ELSE held
       /\ releaseLost' = (~f.landed /\ held # "none")
       /\ IF pressed[c] /\ f.ok THEN Goto(c, "after") ELSE Finish(c, "failed")
  /\ UNCHANGED <<level, muted, samOn, addressable, recorded, before,
                 pressed, seenVars>>

\* The verdict is the receiver's own report.
ReadAfter(c) ==
  /\ pc[c] = "after"
  /\ \E report \in AudioReads :
       ReadAudio(report) /\ Finish(c, Judge(c, report))
  /\ UNCHANGED <<avrVars, addressable, before, pressed, seenVars, releaseLost>>

\* volume_state: the answer of this moment, or what was last recorded.
QueryState(c) ==
  /\ pc[c] = "query"
  /\ \E report \in AudioReads :
       /\ ReadAudio(report)
       /\ LET told == IF report # NoReport
                      THEN [report |-> report, source |-> "avrReport"]
                      ELSE IF recorded = NoReport THEN NoReply
                      ELSE [report |-> recorded, source |-> "observed"]
          IN reply' = [reply EXCEPT ![c] = told]
  /\ pc' = [pc EXCEPT ![c] = "answer"]
  /\ UNCHANGED <<avrVars, addressable, action, before, pressed, outcome, noted,
                 seenVars, releaseLost>>

\* ipc.rs, dispatch: the reply line.
Answer(c) ==
  /\ pc[c] = "answer"
  /\ pc' = [pc EXCEPT ![c] = "idle"]
  /\ action' = [action EXCEPT ![c] = "state"]
  /\ before' = [before EXCEPT ![c] = Unknown]
  /\ pressed' = [pressed EXCEPT ![c] = FALSE]
  /\ outcome' = [outcome EXCEPT ![c] = "none"]
  /\ noted' = [noted EXCEPT ![c] = "none"]
  /\ reply' = [reply EXCEPT ![c] = NoReply]
  /\ mutedSince' = [mutedSince EXCEPT ![c] = {}]
  /\ levelSince' = [levelSince EXCEPT ![c] = {}]
  /\ UNCHANGED <<avrVars, addressable, recorded, releaseLost>>

-----------------------------------------------------------------------------
VerbStep(c) ==
  \/ AskSystemAudioMode(c) \/ RequestSystemAudioMode(c) \/ ReadBefore(c)
  \/ Press(c) \/ Release(c) \/ ReadAfter(c) \/ QueryState(c) \/ Answer(c)

Next ==
  \/ Repeats \/ Drifts \/ Fold
  \/ \E c \in Clients : Begin(c) \/ VerbStep(c)

Spec == Init /\ [][Next]_vars

-----------------------------------------------------------------------------
TypeOK ==
  /\ level \in Levels /\ muted \in BOOLEAN /\ samOn \in BOOLEAN
  /\ held \in VolumeActions \cup {"none"}
  /\ addressable \in BOOLEAN
  /\ recorded \in Reports
  /\ pc \in [Clients -> {"idle", "sam", "request", "before", "press",
                         "release", "after", "query", "answer"}]
  /\ action \in [Clients -> VolumeActions]
  /\ before \in [Clients -> Levels \cup {Unknown}]
  /\ pressed \in [Clients -> BOOLEAN]
  /\ outcome \in [Clients -> {"none", "done", "failed", "refused"}]
  /\ noted \in [Clients -> {"none", "txOk", "txError"}]
  /\ reply \in [Clients -> [report : Reports,
                            source : {"avrReport", "observed", Unknown}]]
  /\ mutedSince \in [Clients -> SUBSET BOOLEAN]
  /\ levelSince \in [Clients -> SUBSET Levels]
  /\ releaseLost \in BOOLEAN

(* No key is left down: when no verb stands between its press and its      *)
(* release, the receiver holds no key of ours, even after a press that was *)
(* reported refused and was not; only a release lost on the bus leaves one *)
(* (volume.rs, rule 1; ops.rs, perform).                                   *)
NoKeyLeftDown ==
  (\A c \in Clients : pc[c] # "release") /\ ~releaseLost => held = "none"

(* A toggle is never a guess: a mute or unmute that turns the receiver     *)
(* away from the state it was asked for does so only because that state    *)
(* changed after the verb began; never on a report that was not given      *)
(* (volume.rs, mute_step).                                                 *)
NoBlindToggle ==
  [][\A c \in Clients :
       /\ pc[c] = "press" /\ pc'[c] = "release"
       /\ IsMute(action[c]) /\ muted = Wanted(action[c])
       => (~Wanted(action[c])) \in mutedSince[c]]_vars

(* What a reply says of the receiver was so at some moment since the verb  *)
(* began: a mute or unmute answered ok found or left it so, a level step   *)
(* answered ok saw the level move or stand at its limit, and a             *)
(* volume-state that claims to be the receiver's report is one of this     *)
(* request and not of an earlier one (volume.rs, rule 3).                  *)
AnswersWereTrue ==
  \A c \in Clients :
    /\ outcome[c] = "done" /\ IsMute(action[c]) =>
         Wanted(action[c]) \in mutedSince[c]
    /\ outcome[c] = "done" /\ action[c] \in {"up", "down"} =>
         \/ \E l, m \in levelSince[c] : l # m
         \/ \E l \in levelSince[c] : AtLimit(action[c], l)
    /\ reply[c].source = "avrReport" =>
         /\ reply[c].report.muted \in mutedSince[c]
         /\ reply[c].report.level \in levelSince[c] \cup {Unknown}
=============================================================================
