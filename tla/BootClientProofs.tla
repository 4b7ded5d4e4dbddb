--------------------------- MODULE BootClientProofs ---------------------------
(***************************************************************************)
(* Proofs about BootClient, for any apps, any pool of processes and any    *)
(* fast-exit bounds: however the core and the app die and restart, there   *)
(* is one boot app, and one that was quit stays quit.                      *)
(***************************************************************************)
EXTENDS BootClient, ScreenSwitchProofs

USE ScreenAssumption, BootAssumption

-----------------------------------------------------------------------------
(* Types *)

(* The fast-exit counter stays within its width, however often the app     *)
(* fails.                                                                  *)
LEMMA RecordTyped ==
  ASSUME fastExits \in 0..MaxExits, NEW fast
  PROVE  Record(fast) \in 0..MaxExits /\ 0 \in 0..MaxExits
BY DEF Record

(* A launch given up leaves the boot client well typed.                    *)
LEMMA GivenUpTyped ==
  ASSUME boot \in BootStates, fastExits \in 0..MaxExits, LaunchGivenUp
  PROVE  /\ boot' \in BootStates /\ fastExits' \in 0..MaxExits
         /\ boot'.pc \in {"exited", "leave"}
<1>1. 0 \in 0..MaxExits /\ Record(TRUE) \in 0..MaxExits
  BY RecordTyped
<1>2. CASE boot.again
  <2>1. /\ boot' = [boot EXCEPT !.pc = "exited", !.exit = "failed"]
        /\ fastExits' = Record(TRUE)
    BY <1>2 DEF LaunchGivenUp
  <2> QED
    BY <1>1, <2>1 DEF BootStates
<1>3. CASE ~boot.again
  <2>1. boot' = [Off EXCEPT !.pc = "leave"] /\ fastExits' = 0
    BY <1>3 DEF LaunchGivenUp
  <2> QED
    BY <1>1, <2>1 DEF BootStates, Off
<1> QED
  BY <1>2, <1>3

(* Every step of the boot client keeps the types.                          *)
LEMMA BootStepTyped ==
  ASSUME TypeOK, BootStep
  PROVE  TypeOK'
<1> SUFFICES ScreenTypeOK' /\ BootTypeOK'
  BY DEF TypeOK
<1>0. ScreenTypeOK /\ BootTypeOK
  BY DEF TypeOK
<1>1. ASSUME UNCHANGED screenVars PROVE ScreenTypeOK'
  BY <1>0, <1>1 DEF screenVars, ScreenTypeOK
<1>2. CASE Adopt
  <2>1. boot' \in BootStates /\ (boot'.pc = "watching" => boot'.on \in Processes)
        /\ boot'.pc # "showing"
    <3>1. ASSUME NEW p \in Alive,
                 boot' = [boot EXCEPT !.pc = "watching", !.on = p, !.adopted = TRUE]
          PROVE  /\ boot' \in BootStates /\ boot'.pc = "watching"
                 /\ boot'.on \in Processes
      BY <1>0, <3>1 DEF BootTypeOK, BootStates, Alive
    <3>2. ASSUME boot' = [boot EXCEPT !.pc = "leave"]
          PROVE  boot' \in BootStates /\ boot'.pc = "leave"
      BY <1>0, <3>2 DEF BootTypeOK, BootStates
    <3> QED
      BY <1>2, <3>1, <3>2 DEF Adopt
  <2> QED
    BY <1>0, <1>1, <1>2, <2>1 DEF Adopt, BootTypeOK
<1>3. ASSUME NEW p \in Processes, Launch(p) PROVE ScreenTypeOK' /\ BootTypeOK'
  <2>1. ScreenTypeOK'
    BY <1>0, <1>3, AskTyped DEF Launch, Ids
  <2>2. boot' = [boot EXCEPT !.pc = "showing", !.on = p, !.adopted = FALSE]
    BY <1>3 DEF Launch
  <2>3. boot' \in BootStates /\ boot'.on \in Processes
    BY <1>0, <2>2 DEF BootTypeOK, BootStates
  <2> QED
    BY <1>0, <1>3, <2>1, <2>3 DEF Launch, BootTypeOK
<1>4. CASE LaunchFails
  BY <1>0, <1>1, <1>4, GivenUpTyped DEF LaunchFails, BootTypeOK
<1>5. ASSUME NEW p \in Processes, LaunchUnscoped(p) PROVE ScreenTypeOK' /\ BootTypeOK'
  BY <1>0, <1>1, <1>5, GivenUpTyped DEF LaunchUnscoped, BootTypeOK
<1>6. CASE ShowReplies
  <2>1. ScreenTypeOK'
    BY <1>0, <1>6, CollectTyped DEF ShowReplies
  <2>2. boot' = [boot EXCEPT !.pc = "watching"] /\ boot.on \in Processes
    BY <1>0, <1>6 DEF ShowReplies, BootTypeOK
  <2>3. boot' \in BootStates /\ boot'.on \in Processes
    BY <1>0, <2>2 DEF BootTypeOK, BootStates
  <2> QED
    BY <1>0, <1>6, <2>1, <2>3 DEF ShowReplies, BootTypeOK
<1>7. CASE HearExit
  <2>1. fastExits' \in 0..MaxExits
    BY <1>0, <1>7, RecordTyped DEF HearExit, BootTypeOK
  <2>2. /\ process' = [process EXCEPT ![boot.on] = "none"]
        /\ boot' = [boot EXCEPT !.pc = "exited", !.exit = ExitKnown]
    BY <1>7 DEF HearExit
  <2>3. boot.on \in Processes
    BY <1>0, <1>7 DEF HearExit, BootTypeOK
  <2>4. ExitKnown \in {"none", "clean", "failed", "unknown"}
    BY <1>0, <1>7, <2>3 DEF HearExit, ExitKnown, Alive, BootTypeOK
  <2>5. boot' \in BootStates /\ boot'.pc = "exited"
    BY <1>0, <2>2, <2>4 DEF BootTypeOK, BootStates
  <2> QED
    BY <1>0, <1>1, <1>7, <2>1, <2>2, <2>5 DEF HearExit, BootTypeOK
<1>8. CASE AfterExit
  <2>1. PICK seen \in {screen, Unreadable} :
          /\ boot' = [Off EXCEPT !.pc = NextAction(seen)]
          /\ fastExits' \in {0, fastExits}
    BY <1>8 DEF AfterExit
  <2>2. NextAction(seen) \in {"yielded", "stopped", "pausing", "backing off"}
    BY DEF NextAction
  <2>3. /\ boot' \in BootStates /\ fastExits' \in 0..MaxExits
        /\ boot'.pc \notin {"showing", "watching"}
    BY <1>0, <2>1, <2>2, RecordTyped DEF BootTypeOK, BootStates, Off
  <2> QED
    BY <1>0, <1>1, <1>8, <2>3 DEF AfterExit, BootTypeOK
<1>9. CASE Relaunch
  <2>1. boot' \in BootStates /\ boot'.pc = "launch"
    BY <1>9 DEF Relaunch, BootStates, Off
  <2> QED
    BY <1>0, <1>1, <1>9, <2>1 DEF Relaunch, BootTypeOK
<1> QED
  BY <1>2, <1>3, <1>4, <1>5, <1>6, <1>7, <1>8, <1>9 DEF BootStep

(* Every reachable state is well typed.                                    *)
THEOREM TypeCorrect == Spec => []TypeOK
<1>1. Init => TypeOK
  <2> SUFFICES ASSUME Init PROVE ScreenTypeOK /\ BootTypeOK
    BY DEF TypeOK
  <2>1. boot \in BootStates /\ boot.pc = "off"
    BY DEF Init, Off, BootStates
  <2>2. fastExits \in 0..MaxExits
    BY DEF Init
  <2> QED
    BY <2>1, <2>2, ScreenInitTyped DEF Init, BootTypeOK
<1>2. TypeOK /\ [Next]_vars => TypeOK'
  <2> SUFFICES ASSUME ScreenTypeOK, BootTypeOK, [Next]_vars
               PROVE  ScreenTypeOK' /\ BootTypeOK'
    BY DEF TypeOK
  <2>0. ASSUME UNCHANGED bootVars PROVE BootTypeOK'
    BY <2>0 DEF bootVars, BootTypeOK
  <2>1. CASE CoreStarts
    <3>1. PICK readable \in BOOLEAN : boot' = [Off EXCEPT !.pc = Decision(readable)]
      BY <2>1 DEF CoreStarts
    <3>2. boot' \in BootStates /\ boot'.pc \in {"leave", "adopt", "launch"}
      BY <3>1 DEF Off, BootStates, Decision
    <3> QED
      BY <2>1, <3>2 DEF CoreStarts, BootTypeOK, screenVars, ScreenTypeOK
  <2>2. CASE CoreDies
    <3>1. ScreenTypeOK'
      BY <2>2 DEF CoreDies, ScreenTypeOK, Idle, At, Intents, Screens
    <3>2. boot' \in BootStates /\ boot'.pc = "off" /\ fastExits' \in 0..MaxExits
      BY <2>2 DEF CoreDies, Off, BootStates
    <3> QED
      BY <2>2, <3>1, <3>2 DEF CoreDies, BootTypeOK
  <2>3. CASE BootStep
    BY <2>3, BootStepTyped DEF TypeOK
  <2>4. CASE ClientAsks
    BY <2>0, <2>4, AskTyped DEF ClientAsks
  <2>5. CASE ClientReply
    BY <2>0, <2>5, CollectTyped DEF ClientReply
  <2>6. CASE IntentWorks
    <3>1. ScreenTypeOK'
      BY <2>6, IntentStepTyped DEF IntentWorks
    <3> QED
      BY <2>6, <3>1 DEF IntentWorks, BootTypeOK
  <2>7. CASE Published
    BY <2>0, <2>7, PublishTyped DEF Published
  <2>8. ASSUME NEW p \in Processes, NEW how \in {"clean", "failed"},
               AppExits(p, how)
        PROVE  ScreenTypeOK' /\ BootTypeOK'
    <3>1. ScreenTypeOK'
      BY <2>8 DEF AppExits, ScreenTypeOK
    <3> QED
      BY <2>8, <3>1 DEF AppExits, BootTypeOK
  <2>9. CASE Windows
    BY <2>0, <2>9, WorldTyped DEF Windows
  <2>10. CASE Steam
    BY <2>0, <2>10, WorldTyped DEF Steam, Ids
  <2>11. CASE UNCHANGED vars
    BY <2>0, <2>11 DEF vars, screenVars, ScreenTypeOK
  <2> QED
    BY <2>1, <2>2, <2>3, <2>4, <2>5, <2>6, <2>7, <2>8, <2>9, <2>10, <2>11
       DEF Next
<1> QED
  BY <1>1, <1>2, PTL DEF Spec

-----------------------------------------------------------------------------
(* One boot app *)

Nobody == Alive = {}
Listed == baseLayer # <<>>

(* Why there is one: whoever launches knows that none runs, because an app *)
(* that runs is on the list, or its own show is still queued; and the one  *)
(* that is watched is the only one.                                        *)
OneInv ==
  /\ core = "down" => boot.pc = "off"
  /\ ~unclaimed =>
       /\ \A p, q \in Alive : p = q
       /\ boot.pc # "showing" => Nobody \/ Listed
       /\ boot.pc = "showing" => Listed \/ intent["boot"].pc = "queued"
       /\ boot.pc \in {"launch", "exited", "pausing", "backing off"} => Nobody
       /\ boot.pc \in {"showing", "watching"} => Alive \subseteq {boot.on}

(* A write of the core puts something on the list.                         *)
LEMMA StepLists ==
  ASSUME ScreenTypeOK, NEW w \in Writers, IntentStep(w)
  PROVE  /\ baseLayer' = baseLayer \/ baseLayer' # <<>>
         /\ intent["boot"].pc = "queued" =>
              \/ intent'["boot"].pc = "queued" \/ baseLayer' # <<>>
              \/ intent'["boot"].pc = "replied"
<1>0. intent \in [Writers -> Intents] /\ "boot" \in Writers
  BY DEF ScreenTypeOK
<1>1. CASE WriteList(w)
  <2>1. ListFor(intent[w].want) # <<>>
    BY DEF ListFor
  <2> QED
    BY <1>1, <2>1 DEF WriteList
<1>2. CASE WriteFails(w) \/ Confirm(w) \/ BoundPasses(w) \/ ReadFails(w)
  <2>1. PICK r \in {"ok", "error"} : Answered(w, r) /\ baseLayer' = baseLayer
    BY <1>2 DEF WriteFails, Confirm, BoundPasses, ReadFails
  <2> QED
    BY <1>0, <2>1 DEF Answered, At
<1>3. CASE NoticeMap(w)
  BY <1>0, <1>3 DEF NoticeMap, Intents
<1> QED
  BY <1>1, <1>2, <1>3 DEF IntentStep

(* A step of the boot client keeps the app one.                            *)
LEMMA BootStepKeepsOne ==
  ASSUME TypeOK, OneInv, BootStep
  PROVE  OneInv'
<1> USE DEF OneInv, Nobody, Listed
<1>0. /\ process \in [Processes -> {"none", "alive", "clean", "failed"}]
      /\ boot \in BootStates /\ intent \in [Writers -> Intents]
      /\ "boot" \in Writers
  BY DEF TypeOK, BootTypeOK, ScreenTypeOK
<1>1. CASE Adopt
  <2>1. /\ UNCHANGED <<core, unclaimed, baseLayer, process>> /\ Alive' = Alive
        /\ boot.pc = "adopt"
    BY <1>1 DEF Adopt, screenVars, Alive
  <2>2. CASE boot' = [boot EXCEPT !.pc = "leave"]
    <3>1. boot'.pc = "leave"
      BY <1>0, <2>2 DEF BootStates
    <3> QED
      BY <2>1, <3>1
  <2>3. CASE \E p \in Alive : boot' = [boot EXCEPT !.pc = "watching", !.on = p,
                                                  !.adopted = TRUE]
    <3>1. PICK p \in Alive : boot' = [boot EXCEPT !.pc = "watching", !.on = p,
                                                 !.adopted = TRUE]
      BY <2>3
    <3>2. boot'.pc = "watching" /\ boot'.on = p
      BY <1>0, <3>1 DEF BootStates
    <3> QED
      BY <2>1, <3>2
  <2> QED
    BY <1>1, <2>2, <2>3 DEF Adopt
<1>2. ASSUME NEW p \in Processes, Launch(p) PROVE OneInv'
  <2>1. /\ boot'.pc = "showing" /\ boot'.on = p /\ boot.pc = "launch"
        /\ UNCHANGED <<core, unclaimed>>
    BY <1>0, <1>2 DEF Launch, BootStates
  <2>2. intent'["boot"].pc = "queued"
    BY <1>0, <1>2 DEF Launch, Ask, At
  <2>3. Nobody => Alive' = {p}
    BY <1>0, <1>2 DEF Launch, Alive
  <2> QED
    BY <2>1, <2>2, <2>3
<1>3. CASE LaunchFails
  <2>1. /\ boot.pc = "launch" /\ boot'.pc \in {"exited", "leave"}
        /\ UNCHANGED <<core, unclaimed, baseLayer, process>> /\ Alive' = Alive
    BY <1>0, <1>3 DEF LaunchFails, LaunchGivenUp, BootStates, Off, screenVars,
                      Alive
  <2> QED
    BY <2>1
<1>4. ASSUME NEW p \in Processes, LaunchUnscoped(p) PROVE OneInv'
  BY <1>4 DEF LaunchUnscoped
<1>5. CASE ShowReplies
  <2>1. /\ boot.pc = "showing" /\ boot'.pc = "watching" /\ boot'.on = boot.on
        /\ intent["boot"].pc = "replied"
        /\ UNCHANGED <<core, unclaimed, baseLayer, process>> /\ Alive' = Alive
    BY <1>0, <1>5 DEF ShowReplies, Collect, BootStates, Alive
  <2> QED
    BY <2>1
<1>6. CASE HearExit
  <2>1. /\ boot.pc = "watching" /\ boot.on \notin Alive /\ boot'.pc = "exited"
        /\ UNCHANGED <<core, unclaimed, baseLayer>>
    BY <1>0, <1>6 DEF HearExit, BootStates, screenVars
  <2>2. Alive' = Alive
    BY <1>0, <1>6 DEF HearExit, Alive
  <2> QED
    BY <2>1, <2>2
<1>7. CASE AfterExit
  <2>1. /\ UNCHANGED <<core, unclaimed, baseLayer, process>> /\ Alive' = Alive
        /\ boot.pc = "exited"
    BY <1>7 DEF AfterExit, screenVars, Alive
  <2>2. boot'.pc \in {"yielded", "stopped", "pausing", "backing off"}
    BY <1>0, <1>7 DEF AfterExit, NextAction, BootStates, Off
  <2> QED
    BY <2>1, <2>2
<1>8. CASE Relaunch
  <2>1. /\ UNCHANGED <<core, unclaimed, baseLayer, process>> /\ Alive' = Alive
        /\ boot.pc \in {"pausing", "backing off"} /\ boot'.pc = "launch"
    BY <1>8 DEF Relaunch, Off, screenVars, Alive
  <2> QED
    BY <2>1
<1> QED
  BY <1>1, <1>2, <1>3, <1>4, <1>5, <1>6, <1>7, <1>8 DEF BootStep

(* So does every other step.                                               *)
LEMMA NextKeepsOne ==
  ASSUME TypeOK, OneInv, [Next]_vars
  PROVE  OneInv'
<1> USE DEF OneInv, Nobody, Listed
<1>0. /\ process \in [Processes -> {"none", "alive", "clean", "failed"}]
      /\ boot \in BootStates /\ intent \in [Writers -> Intents]
      /\ "boot" \in Writers /\ unclaimed \in BOOLEAN
  BY DEF TypeOK, BootTypeOK, ScreenTypeOK
<1>a. ASSUME UNCHANGED bootVars PROVE UNCHANGED <<core, unclaimed, boot>> /\ Alive' = Alive
  BY <1>a DEF bootVars, Alive
<1>1. CASE CoreStarts
  <2>1. /\ core = "down" /\ core' = "up"
        /\ UNCHANGED <<unclaimed, baseLayer, process>> /\ Alive' = Alive
        /\ boot'.pc \in {"leave", "adopt", "launch"}
        /\ boot'.pc = "launch" => ~Listed
    BY <1>1 DEF CoreStarts, Decision, Off, screenVars, Alive
  <2> QED
    BY <2>1
<1>2. CASE CoreDies
  <2>1. /\ boot'.pc = "off" /\ baseLayer' = baseLayer
        /\ unclaimed' = (unclaimed \/ (~Nobody /\ ~Listed))
    BY <1>2 DEF CoreDies, Off
  <2>2. Alive' = Alive
    BY <1>0, <1>2 DEF CoreDies, Alive
  <2> QED
    BY <1>0, <2>1, <2>2
<1>3. CASE BootStep
  BY <1>3, BootStepKeepsOne
<1>4. CASE ClientAsks
  <2>1. intent'["boot"] = intent["boot"] /\ baseLayer' = baseLayer
    BY <1>0, <1>4 DEF ClientAsks, Ask
  <2> QED
    BY <1>a, <1>4, <2>1 DEF ClientAsks
<1>5. CASE ClientReply
  <2>1. intent'["boot"] = intent["boot"] /\ baseLayer' = baseLayer
    BY <1>0, <1>5 DEF ClientReply, Collect
  <2> QED
    BY <1>a, <1>5, <2>1 DEF ClientReply
<1>6. CASE IntentWorks
  <2>1. PICK w \in Writers : IntentStep(w)
    BY <1>6 DEF IntentWorks
  <2>2. /\ baseLayer' = baseLayer \/ baseLayer' # <<>>
        /\ intent["boot"].pc = "queued" =>
              \/ intent'["boot"].pc = "queued" \/ baseLayer' # <<>>
              \/ intent'["boot"].pc = "replied"
    BY <2>1, StepLists DEF TypeOK
  <2>3. /\ UNCHANGED <<core, boot, process>> /\ Alive' = Alive
        /\ unclaimed' = (unclaimed \/ (intent["boot"].pc = "queued"
                                       /\ intent'["boot"].pc = "replied"
                                       /\ baseLayer = <<>>))
    BY <1>6 DEF IntentWorks, Alive
  <2> QED
    BY <1>0, <2>2, <2>3
<1>7. CASE Published
  BY <1>a, <1>7 DEF Published, Publish
<1>8. ASSUME NEW p \in Processes, NEW how \in {"clean", "failed"},
             AppExits(p, how)
      PROVE  OneInv'
  <2>1. /\ UNCHANGED <<core, boot, baseLayer, intent>>
        /\ unclaimed' = (unclaimed \/ ~Listed)
    BY <1>8 DEF AppExits
  <2>2. Alive' \subseteq Alive
    BY <1>0, <1>8 DEF AppExits, Alive
  <2> QED
    BY <1>0, <2>1, <2>2
<1>9. CASE Windows
  BY <1>a, <1>9 DEF Windows, MapWindow, UnmapWindow
<1>10. CASE Steam
  <2>1. baseLayer' # <<>> /\ intent' = intent
    <3>1. PICK id \in Apps \ {BootApp} : SteamWrites(id)
      BY <1>10 DEF Steam
    <3> QED
      BY <3>1 DEF SteamWrites
  <2> QED
    BY <1>a, <1>10, <2>1 DEF Steam
<1>11. CASE UNCHANGED vars
  BY <1>a, <1>11 DEF vars, screenVars
<1> QED
  BY <1>1, <1>2, <1>3, <1>4, <1>5, <1>6, <1>7, <1>8, <1>9, <1>10, <1>11 DEF Next

(* The initial states and every step keep OneInv.                          *)
LEMMA OneInvCorrect == Spec => []OneInv
<1>1. Init => OneInv
  BY DEF Init, OneInv, Nobody, Alive, Off
<1>2. TypeOK /\ OneInv /\ [Next]_vars => OneInv'
  BY NextKeepsOne
<1> QED
  BY <1>1, <1>2, TypeCorrect, PTL DEF Spec

(* However often the core and the app die and restart, there is at most    *)
(* one boot app.                                                           *)
THEOREM OneCorrect == Spec => []OneBootApp
<1>1. OneInv => OneBootApp
  BY DEF OneInv, OneBootApp
<1> QED
  BY <1>1, OneInvCorrect, PTL

-----------------------------------------------------------------------------
(* An app that was quit *)

(* Why a quit holds: the one app that ran is gone and its name is on the   *)
(* list, so no core will launch at a start, and the boot client that hears *)
(* of the exit hears a clean one or none at all.                           *)
QuitInv ==
  policy = "on-failure" /\ quit /\ ~unclaimed =>
    /\ Nobody /\ Listed
    /\ boot.pc \notin {"launch", "pausing", "backing off"}
    /\ boot.pc \in {"showing", "watching"} =>
         boot.adopted \/ process[boot.on] = "clean"
    /\ boot.pc = "exited" => boot.exit \in {"clean", "unknown"}

(* A step of the boot client keeps an app that was quit, quit.             *)
LEMMA BootStepKeepsQuit ==
  ASSUME TypeOK, OneInv, QuitInv, BootStep
  PROVE  QuitInv'
<1> USE DEF QuitInv, Nobody, Listed
<1>0. /\ process \in [Processes -> {"none", "alive", "clean", "failed"}]
      /\ boot \in BootStates
      /\ boot.pc \in {"showing", "watching"} => boot.on \in Processes
  BY DEF TypeOK, BootTypeOK
<1>1. CASE Adopt
  <2>1. /\ UNCHANGED <<policy, quit, unclaimed, baseLayer, process>>
        /\ Alive' = Alive
        /\ Nobody => boot' = [boot EXCEPT !.pc = "leave"]
    BY <1>1 DEF Adopt, screenVars, Alive
  <2>2. Nobody => boot'.pc = "leave"
    BY <1>0, <2>1 DEF BootStates
  <2> QED
    BY <2>1, <2>2
<1>2. ASSUME NEW p \in Processes, Launch(p) PROVE QuitInv'
  BY <1>2 DEF Launch
<1>3. CASE LaunchFails
  BY <1>3 DEF LaunchFails
<1>4. ASSUME NEW p \in Processes, LaunchUnscoped(p) PROVE QuitInv'
  BY <1>4 DEF LaunchUnscoped
<1>5. CASE ShowReplies
  <2>1. /\ boot.pc = "showing" /\ boot'.pc = "watching" /\ boot'.on = boot.on
        /\ boot'.adopted = boot.adopted
        /\ UNCHANGED <<policy, quit, unclaimed, baseLayer, process>>
        /\ Alive' = Alive
    BY <1>0, <1>5 DEF ShowReplies, Collect, BootStates, Alive
  <2> QED
    BY <2>1
<1>6. CASE HearExit
  <2>1. /\ boot.pc = "watching" /\ boot'.pc = "exited" /\ boot'.exit = ExitKnown
        /\ UNCHANGED <<policy, quit, unclaimed, baseLayer>>
    BY <1>0, <1>6 DEF HearExit, BootStates, screenVars
  <2>2. Alive' = Alive
    BY <1>0, <1>6 DEF HearExit, Alive
  <2> QED
    BY <2>1, <2>2 DEF ExitKnown
<1>7. CASE AfterExit
  <2>1. /\ UNCHANGED <<policy, quit, unclaimed, baseLayer, process>>
        /\ Alive' = Alive /\ boot.pc = "exited"
    BY <1>7 DEF AfterExit, screenVars, Alive
  <2>2. PICK seen \in {screen, Unreadable} :
          boot' = [Off EXCEPT !.pc = NextAction(seen)]
    BY <1>7 DEF AfterExit
  <2>3. policy = "on-failure" /\ boot.exit \in {"clean", "unknown"}
          => NextAction(seen) \in {"yielded", "stopped"}
    BY DEF NextAction
  <2>4. policy = "on-failure" /\ boot.exit \in {"clean", "unknown"}
          => boot'.pc \in {"yielded", "stopped"}
    BY <2>2, <2>3 DEF Off
  <2> QED
    BY <2>1, <2>4
<1>8. CASE Relaunch
  BY <1>8 DEF Relaunch
<1> QED
  BY <1>1, <1>2, <1>3, <1>4, <1>5, <1>6, <1>7, <1>8 DEF BootStep

(* So does every other step.                                               *)
LEMMA NextKeepsQuit ==
  ASSUME TypeOK, OneInv, QuitInv, [Next]_vars
  PROVE  QuitInv'
<1> USE DEF QuitInv, Nobody, Listed
<1>0. /\ process \in [Processes -> {"none", "alive", "clean", "failed"}]
      /\ boot \in BootStates /\ unclaimed \in BOOLEAN /\ quit \in BOOLEAN
      /\ boot.pc \in {"showing", "watching"} => boot.on \in Processes
  BY DEF TypeOK, BootTypeOK
<1>a. ASSUME UNCHANGED bootVars, baseLayer' = baseLayer \/ baseLayer' # <<>>
      PROVE  QuitInv'
  BY <1>a DEF bootVars, Alive
<1>1. CASE CoreStarts
  <2>1. /\ UNCHANGED <<policy, quit, unclaimed, baseLayer, process>>
        /\ Alive' = Alive
        /\ boot'.pc \in {"leave", "adopt", "launch"}
        /\ boot'.pc = "launch" => ~Listed
    BY <1>1 DEF CoreStarts, Decision, Off, screenVars, Alive
  <2> QED
    BY <2>1
<1>2. CASE CoreDies
  <2>1. /\ boot'.pc = "off" /\ UNCHANGED <<policy, quit, baseLayer>>
        /\ ~unclaimed' => ~unclaimed
    BY <1>0, <1>2 DEF CoreDies, Off
  <2>2. Alive' = Alive
    BY <1>0, <1>2 DEF CoreDies, Alive
  <2> QED
    BY <2>1, <2>2
<1>3. CASE BootStep
  BY <1>3, BootStepKeepsQuit
<1>4. CASE ClientAsks
  BY <1>a, <1>4 DEF ClientAsks, Ask
<1>5. CASE ClientReply
  BY <1>a, <1>5 DEF ClientReply, Collect
<1>6. CASE IntentWorks
  <2>1. baseLayer' = baseLayer \/ baseLayer' # <<>>
    BY <1>6, StepLists DEF IntentWorks, TypeOK
  <2>2. /\ UNCHANGED <<policy, quit, boot, process>> /\ Alive' = Alive
        /\ ~unclaimed' => ~unclaimed
    BY <1>0, <1>6 DEF IntentWorks, Alive
  <2> QED
    BY <2>1, <2>2
<1>7. CASE Published
  BY <1>a, <1>7 DEF Published, Publish
<1>8. ASSUME NEW p \in Processes, NEW how \in {"clean", "failed"},
             AppExits(p, how)
      PROVE  QuitInv'
  <2>1. /\ UNCHANGED <<policy, boot, baseLayer>> /\ p \in Alive
        /\ unclaimed' = (unclaimed \/ ~Listed)
        /\ quit' = (quit \/ (policy = "on-failure" /\ how = "clean" /\ Alive = {p}))
        /\ process' = [process EXCEPT ![p] = IF p = boot.on THEN how ELSE "none"]
    BY <1>8 DEF AppExits
  <2>2. SUFFICES ASSUME policy = "on-failure", quit', ~unclaimed'
                 PROVE  /\ Alive' = {}
                        /\ boot.pc \notin {"launch", "pausing", "backing off"}
                        /\ boot.pc \in {"showing", "watching"} =>
                             boot.adopted \/ process'[boot.on] = "clean"
                        /\ boot.pc # "exited"
    BY <1>0, <2>1
  <2>3. ~unclaimed /\ how = "clean" /\ Alive = {p}
    BY <1>0, <2>1, <2>2
  <2>4. Alive' = {}
    BY <1>0, <2>1, <2>3 DEF Alive
  <2>5. /\ boot.pc \notin {"launch", "exited", "pausing", "backing off"}
        /\ boot.pc \in {"showing", "watching"} => p = boot.on
    BY <2>3 DEF OneInv
  <2>6. p = boot.on => process'[boot.on] = "clean"
    BY <1>0, <2>1, <2>3
  <2> QED
    BY <2>4, <2>5, <2>6
<1>9. CASE Windows
  BY <1>a, <1>9 DEF Windows, MapWindow, UnmapWindow
<1>10. CASE Steam
  <2>1. PICK id \in Apps \ {BootApp} : SteamWrites(id)
    BY <1>10 DEF Steam
  <2>2. baseLayer' # <<>>
    BY <2>1 DEF SteamWrites
  <2> QED
    BY <1>a, <1>10, <2>2 DEF Steam
<1>11. CASE UNCHANGED vars
  BY <1>a, <1>11 DEF vars, screenVars
<1> QED
  BY <1>1, <1>2, <1>3, <1>4, <1>5, <1>6, <1>7, <1>8, <1>9, <1>10, <1>11 DEF Next

(* Under `on-failure` an app that the user quit is never resurrected.      *)
THEOREM QuitCorrect == Spec => []QuitStaysQuit
<1>1. Init => QuitInv
  BY DEF Init, QuitInv
<1>2. TypeOK /\ OneInv /\ QuitInv /\ [Next]_vars => QuitInv'
  BY NextKeepsQuit
<1>3. QuitInv => QuitStaysQuit
  BY DEF QuitInv, Nobody, QuitStaysQuit
<1> QED
  BY <1>1, <1>2, <1>3, TypeCorrect, OneInvCorrect, PTL DEF Spec
=============================================================================
