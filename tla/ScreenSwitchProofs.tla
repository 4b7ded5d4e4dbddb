--------------------------- MODULE ScreenSwitchProofs ---------------------------
(***************************************************************************)
(* The types that every step of ScreenSwitch keeps, for the modules that   *)
(* compose it with the rest of the core.                                   *)
(***************************************************************************)
EXTENDS ScreenSwitch, TLAPS

USE ScreenAssumption

(* What the core writes is a list of ids.                                  *)
LEMMA ListTyped ==
  ASSUME NEW id \in Ids
  PROVE  ListFor(id) \in Seq(Ids)
<1>1. Shell \in Ids
  BY DEF Ids
<1>2. <<Shell>> \in Seq(Ids) /\ <<id, Shell>> \in Seq(Ids)
  BY <1>1
<1> QED
  BY <1>2 DEF ListFor

(* A reply leaves the intents well typed.                                  *)
LEMMA AnsweredTyped ==
  ASSUME ScreenTypeOK, NEW w \in Writers, NEW r \in {"ok", "error"},
         Answered(w, r), UNCHANGED <<baseLayer, mapped, screen>>
  PROVE  ScreenTypeOK'
<1>2. intent' = [intent EXCEPT ![w] = [pc |-> "replied", want |-> None,
                                       sawMap |-> FALSE, reply |-> r]]
  BY DEF Answered, At
<1>3. intent' \in [Writers -> Intents]
  BY <1>2 DEF ScreenTypeOK, Intents, Screens
<1>4. \A v \in Writers : v # w => intent'[v] = intent[v]
  BY <1>2 DEF ScreenTypeOK
<1>5. intent'[w].pc = "replied"
  BY <1>2 DEF ScreenTypeOK
<1> QED
  BY <1>3, <1>4, <1>5 DEF ScreenTypeOK

(* So does a step of an intent.                                            *)
LEMMA IntentStepTyped ==
  ASSUME ScreenTypeOK, NEW w \in Writers, IntentStep(w)
  PROVE  ScreenTypeOK'
<1>1. CASE WriteList(w)
  <2>1. intent[w].want \in Ids
    BY <1>1 DEF WriteList, ScreenTypeOK
  <2>2. /\ intent' \in [Writers -> Intents]
        /\ \A v \in Writers : intent'[v].want = intent[v].want
        /\ \A v \in Writers : v # w => intent'[v] = intent[v]
    BY <1>1 DEF WriteList, ScreenTypeOK, Intents
  <2>3. baseLayer' \in Seq(Ids)
    BY <1>1, <2>1, ListTyped DEF WriteList
  <2> QED
    BY <1>1, <2>1, <2>2, <2>3 DEF WriteList, ScreenTypeOK
<1>2. CASE WriteFails(w)
  BY <1>2, AnsweredTyped DEF WriteFails
<1>3. CASE Confirm(w)
  BY <1>3, AnsweredTyped DEF Confirm
<1>4. CASE NoticeMap(w)
  <2>1. /\ intent' \in [Writers -> Intents]
        /\ \A v \in Writers : /\ intent'[v].want = intent[v].want
                              /\ intent'[v].pc = intent[v].pc
    BY <1>4 DEF NoticeMap, ScreenTypeOK, Intents
  <2> QED
    BY <1>4, <2>1 DEF NoticeMap, ScreenTypeOK
<1>5. CASE BoundPasses(w)
  BY <1>5, AnsweredTyped DEF BoundPasses
<1>6. CASE ReadFails(w)
  BY <1>6, AnsweredTyped DEF ReadFails
<1> QED
  BY <1>1, <1>2, <1>3, <1>4, <1>5, <1>6 DEF IntentStep

(* So do asking and collecting.                                            *)
LEMMA AskTyped ==
  ASSUME ScreenTypeOK, NEW w \in Writers, NEW id \in Ids, Ask(w, id)
  PROVE  ScreenTypeOK' /\ intent'[w].pc = "queued" /\ intent'[w].want = id
<1>2. intent' = [intent EXCEPT ![w] = [pc |-> "queued", want |-> id,
                                       sawMap |-> FALSE, reply |-> None]]
  BY DEF Ask, At
<1>3. intent' \in [Writers -> Intents]
  BY <1>2 DEF ScreenTypeOK, Intents, Screens
<1>4. \A v \in Writers : v # w => intent'[v] = intent[v]
  BY <1>2 DEF ScreenTypeOK
<1>5. intent'[w].pc = "queued" /\ intent'[w].want = id
  BY <1>2 DEF ScreenTypeOK
<1> QED
  BY <1>3, <1>4, <1>5 DEF ScreenTypeOK, Ask

(* Collecting a reply.                                                     *)
LEMMA CollectTyped ==
  ASSUME ScreenTypeOK, NEW w \in Writers, Collect(w)
  PROVE  ScreenTypeOK' /\ intent'[w] = Idle
<1>1. intent' \in [Writers -> Intents]
  BY DEF Collect, ScreenTypeOK, Intents, Screens, Idle, At
<1>2. \A v \in Writers : v # w => intent'[v] = intent[v]
  BY DEF Collect, ScreenTypeOK
<1>3. intent'[w] = Idle
  BY DEF Collect, ScreenTypeOK
<1> QED
  BY <1>1, <1>2, <1>3 DEF ScreenTypeOK, Collect, Idle, At

(* gamescope publishes an id, or none.                                     *)
LEMMA PublishTyped ==
  ASSUME ScreenTypeOK, Publish
  PROVE  ScreenTypeOK'
<1>1. Resolved \subseteq Screens
  BY DEF Resolved, ListedAndMapped, ScreenTypeOK, Screens
<1> QED
  BY <1>1 DEF Publish, ScreenTypeOK

(* Windows come and go, and Steam writes the list.                         *)
LEMMA WorldTyped ==
  ASSUME ScreenTypeOK, NEW id \in Ids,
         MapWindow(id) \/ UnmapWindow(id) \/ SteamWrites(id)
  PROVE  ScreenTypeOK'
<1>1. CASE MapWindow(id) \/ UnmapWindow(id)
  BY <1>1 DEF MapWindow, UnmapWindow, ScreenTypeOK
<1>2. CASE SteamWrites(id)
  <2>1. baseLayer' \in Seq(Ids)
    BY <1>2 DEF SteamWrites
  <2> QED
    BY <1>2, <2>1 DEF SteamWrites, ScreenTypeOK
<1> QED
  BY <1>1, <1>2

(* The core starts with nothing known of the screen.                       *)
LEMMA ScreenInitTyped ==
  ASSUME ScreenInit
  PROVE  ScreenTypeOK
<1>1. Idle \in Intents /\ Idle.pc = "idle"
  BY DEF Idle, At, Intents, Screens
<1> QED
  BY <1>1 DEF ScreenInit, ScreenTypeOK, Screens
=============================================================================
