---------------------------- MODULE PadRouteProofs ----------------------------
(***************************************************************************)
(* Proofs about PadRoute and the intents of ScreenSwitch, for any clients, *)
(* apps and number of inputs.                                              *)
(***************************************************************************)
EXTENDS PadRoute, ScreenSwitchProofs

USE ScreenAssumption, PadAssumption

-----------------------------------------------------------------------------
(* Types *)

(* Every step of PadRoute keeps the types of the rest of the state.        *)
LEMMA WatcherTyped ==
  ASSUME TypeOK, Look \/ LookFails \/ Decide
  PROVE  TypeOK'
<1> USE DEF TypeOK, PadTypeOK
<1>1. ASSUME NEW seen \in Screens \cup {Unreadable}, Seeing(seen)
      PROVE  /\ watcher' \in [pc: {"starting", "waiting", "deciding"},
                               wake: {"nudge", "poll"},
                               seen: Screens \cup {Unreadable}]
             /\ nudged' \in BOOLEAN
  BY <1>1 DEF Seeing
<1>2. CASE Look
  <2>1. screen \in Screens
    BY DEF ScreenTypeOK
  <2> QED
    BY <1>1, <1>2, <2>1 DEF Look, screenVars, ScreenTypeOK
<1>3. CASE LookFails
  <2>1. ScreenTypeOK' /\ inputs' \in 0..MaxInputs
    BY <1>3 DEF LookFails, Input, screenVars, ScreenTypeOK
  <2>2. Seeing(Unreadable) /\ calm' = FALSE
        /\ UNCHANGED <<overlay, queued, applied, pending, control, owner, owed,
                       lastLook, foreign>>
    BY <1>3 DEF LookFails
  <2> QED
    BY <1>1, <2>1, <2>2
<1>4. CASE Decide
  <2> DEFINE found == OwnerOf(watcher.seen, overlay)
  <2>1. found \in InputOwners
    BY DEF OwnerOf, InputOwners, Screens
  <2>2. Observed(found) \in [owner: InputOwners \cup {None}, ripe: BOOLEAN]
    BY <2>1 DEF Observed, NotPending
  <2>3. /\ pending' \in [owner: InputOwners \cup {None}, ripe: BOOLEAN]
        /\ applied' \in InputOwners /\ control' \in Seq(InputOwners)
        /\ lastLook' \in InputOwners
    <3>1. lastLook' = found
      BY <1>4 DEF Decide
    <3>2. CASE Apply(found)
      BY <2>1, <3>1, <3>2 DEF Apply, NotPending
    <3>3. CASE pending' = Observed(found) /\ UNCHANGED <<applied, control>>
      BY <2>1, <2>2, <3>1, <3>3
    <3> QED
      BY <1>4, <3>2, <3>3 DEF Decide
  <2>4. watcher' \in [pc: {"starting", "waiting", "deciding"},
                       wake: {"nudge", "poll"},
                       seen: Screens \cup {Unreadable}]
    BY <1>4 DEF Decide, Screens
  <2> QED
    BY <1>4, <2>3, <2>4 DEF Decide, screenVars, ScreenTypeOK
<1> QED
  BY <1>2, <1>3, <1>4

(* Every reachable state is well typed.                                    *)
THEOREM TypeCorrect == Spec => []TypeOK
<1>1. Init => TypeOK
  <2> SUFFICES ASSUME Init PROVE ScreenTypeOK /\ PadTypeOK
    BY DEF TypeOK
  <2>2. ScreenTypeOK
    BY ScreenInitTyped DEF Init
  <2>3. /\ watcher \in [pc: {"starting", "waiting", "deciding"},
                        wake: {"nudge", "poll"}, seen: Screens \cup {Unreadable}]
        /\ pending \in [owner: InputOwners \cup {None}, ripe: BOOLEAN]
    BY DEF Init, Screens, NotPending
  <2>4. /\ applied \in InputOwners /\ owner \in InputOwners
        /\ lastLook \in InputOwners /\ control \in Seq(InputOwners)
        /\ inputs \in 0..MaxInputs
    BY DEF Init, InputOwners
  <2>5. /\ overlay = FALSE /\ nudged = FALSE /\ queued = FALSE
        /\ owed = FALSE /\ calm = FALSE /\ foreign = FALSE
    BY DEF Init
  <2> QED
    BY <2>2, <2>3, <2>4, <2>5 DEF PadTypeOK
<1>2. TypeOK /\ [Next]_vars => TypeOK'
  <2> SUFFICES ASSUME TypeOK, [Next]_vars PROVE TypeOK'
    OBVIOUS
  <2> USE DEF TypeOK
  <2>1. ASSUME NEW c \in Clients, ClientAsks(c) PROVE TypeOK'
    <3>1. PICK id \in Ids : Ask(c, id)
      BY <2>1 DEF ClientAsks
    <3> QED
      BY <2>1, <3>1, AskTyped DEF ClientAsks, PadTypeOK, Input
  <2>2. ASSUME NEW w \in Writers, Works(w) PROVE TypeOK'
    <3>1. ScreenTypeOK'
      BY <2>2, IntentStepTyped DEF Works
    <3> QED
      BY <2>2, <3>1 DEF Works, PadTypeOK
  <2>3. ASSUME NEW w \in Writers, Reply(w) PROVE TypeOK'
    BY <2>3, CollectTyped DEF Reply, NudgeAfter, PadTypeOK
  <2>4. CASE InputFocus
    BY <2>4 DEF InputFocus, Input, PadTypeOK, ScreenTypeOK, screenVars
  <2>5. CASE Fire
    BY <2>5 DEF Fire, Input, PadTypeOK, ScreenTypeOK, screenVars
  <2>6. CASE TakeEscape
    <3>1. ScreenTypeOK'
      BY <2>6, AskTyped DEF TakeEscape, Ids
    <3> QED
      BY <2>6, <3>1 DEF TakeEscape, PadTypeOK
  <2>7. CASE Look \/ LookFails \/ Decide
    BY <2>7, WatcherTyped
  <2>8. CASE Ripen
    BY <2>8 DEF Ripen, PadTypeOK, ScreenTypeOK, screenVars
  <2>9. CASE SetOwner
    BY <2>9 DEF SetOwner, PadTypeOK, ScreenTypeOK, screenVars
  <2>10. CASE Published
    BY <2>10, PublishTyped DEF Published, Moves, PadTypeOK
  <2>11. CASE Windows
    <3>1. ScreenTypeOK'
      BY <2>11, WorldTyped DEF Windows
    <3>2. inputs' \in 0..MaxInputs
      BY <2>11 DEF Windows, Input, PadTypeOK
    <3>3. PadTypeOK'
      BY <2>11, <3>2 DEF Windows, Moves, PadTypeOK
    <3> QED
      BY <3>1, <3>3
  <2>12. CASE Steam
    <3>1. PICK id \in Ids : SteamWrites(id)
      BY <2>12 DEF Steam
    <3>2. ScreenTypeOK'
      BY <3>1, WorldTyped
    <3>3. inputs' \in 0..MaxInputs
      BY <2>12 DEF Steam, Input, PadTypeOK
    <3>4. PadTypeOK'
      BY <2>12, <3>3 DEF Steam, Moves, PadTypeOK
    <3> QED
      BY <3>2, <3>4
  <2>13. CASE UNCHANGED vars
    BY <2>13 DEF vars, padVars, screenVars, PadTypeOK, ScreenTypeOK
  <2> QED
    BY <2>1, <2>2, <2>3, <2>4, <2>5, <2>6, <2>7, <2>8, <2>9, <2>10, <2>11,
       <2>12, <2>13 DEF Next
<1> QED
  BY <1>1, <1>2, PTL DEF Spec

-----------------------------------------------------------------------------
(* The escape *)

(* OwedIsQueued is inductive with the types: only a hold makes an escape   *)
(* owed, only the worker's try takes it off the gate's queue, and that try *)
(* is what settles it.                                                     *)
THEOREM EscapeKept == Spec => []OwedIsQueued
<1>1. Init => OwedIsQueued
  BY DEF Init, OwedIsQueued
<1>2. TypeOK /\ OwedIsQueued /\ [Next]_vars => OwedIsQueued'
  <2> SUFFICES ASSUME TypeOK, OwedIsQueued, [Next]_vars PROVE OwedIsQueued'
    OBVIOUS
  <2> USE DEF OwedIsQueued
  <2>0. ScreenTypeOK /\ Escape \in Writers
    BY DEF TypeOK
  <2>1. ASSUME NEW c \in Clients, ClientAsks(c) PROVE OwedIsQueued'
    <3>1. intent'[Escape] = intent[Escape]
      BY <2>0, <2>1 DEF ClientAsks, Ask, ScreenTypeOK
    <3> QED
      BY <2>1, <3>1 DEF ClientAsks
  <2>2. ASSUME NEW w \in Writers, Works(w) PROVE OwedIsQueued'
    <3>1. CASE w = Escape
      BY <2>2, <3>1 DEF Works, Tries
    <3>2. CASE w # Escape
      <4>1. intent'[Escape] = intent[Escape]
        BY <2>0, <2>2, <3>2 DEF Works, IntentStep, WriteList, WriteFails,
             Confirm, NoticeMap, BoundPasses, ReadFails, Answered, ScreenTypeOK
      <4> QED
        BY <2>2, <4>1 DEF Works
    <3> QED
      BY <3>1, <3>2
  <2>3. ASSUME NEW w \in Writers, Reply(w) PROVE OwedIsQueued'
    BY <2>0, <2>3 DEF Reply, Collect, ScreenTypeOK
  <2>4. CASE InputFocus \/ Look \/ LookFails \/ Decide \/ Ripen \/ SetOwner
    BY <2>4 DEF InputFocus, Look, LookFails, Decide, Ripen, SetOwner, screenVars
  <2>5. CASE Fire
    BY <2>5 DEF Fire
  <2>6. CASE TakeEscape
    <3>1. intent'[Escape].pc = "queued"
      BY <2>0, <2>6, AskTyped DEF TakeEscape, Ids
    <3> QED
      BY <3>1
  <2>7. CASE Published \/ Windows \/ Steam
    BY <2>7 DEF Published, Windows, Steam, Moves, Publish, MapWindow,
                UnmapWindow, SteamWrites
  <2>8. CASE UNCHANGED vars
    BY <2>8 DEF vars, padVars, screenVars
  <2> QED
    BY <2>1, <2>2, <2>3, <2>4, <2>5, <2>6, <2>7, <2>8 DEF Next
<1> QED
  BY <1>1, <1>2, TypeCorrect, PTL DEF Spec

-----------------------------------------------------------------------------
(* The pad after a write *)

(* Why the pad follows a write: until its nudge is taken nothing is        *)
(* claimed, and the look that takes it sees the screen as it stands; any   *)
(* look after that, in the calm, confirms what was applied.                *)
Followed == applied = OwnerOf(screen, overlay)

CalmInv ==
  calm /\ ~nudged =>
    /\ watcher.pc # "starting"
    /\ watcher.pc = "waiting" => Followed
    /\ watcher.pc = "deciding" =>
         watcher.seen = screen /\ (watcher.wake = "nudge" \/ Followed)

(* A look keeps it, and so does a decision.                                *)
LEMMA WatcherKeepsCalm ==
  ASSUME TypeOK, CalmInv, Look \/ Decide
  PROVE  CalmInv'
<1> USE DEF CalmInv, Followed
<1>0. watcher \in [pc: {"starting", "waiting", "deciding"},
                   wake: {"nudge", "poll"}, seen: Screens \cup {Unreadable}]
  BY DEF TypeOK, PadTypeOK
<1>1. CASE Look
  <2>1. UNCHANGED <<screen, overlay, applied, calm>>
    BY <1>1 DEF Look, screenVars
  <2>2. /\ watcher.pc # "deciding"
        /\ watcher'.pc = "deciding" /\ watcher'.seen = screen
        /\ watcher'.wake = IF watcher.pc = "waiting" /\ nudged THEN "nudge"
                           ELSE "poll"
        /\ nudged' = (watcher.pc = "starting" /\ nudged)
    BY <1>1 DEF Look, Seeing
  <2> QED
    BY <1>0, <2>1, <2>2
<1>2. CASE Decide
  <2> DEFINE found == OwnerOf(watcher.seen, overlay)
  <2>1. UNCHANGED <<screen, overlay, nudged, calm>>
    BY <1>2 DEF Decide, screenVars
  <2>2. watcher.pc = "deciding" /\ watcher'.pc = "waiting"
    BY <1>0, <1>2 DEF Decide
  <2>3. SUFFICES ASSUME calm, ~nudged PROVE applied' = OwnerOf(screen, overlay)
    BY <2>1, <2>2
  <2>4. found = OwnerOf(screen, overlay)
    BY <2>2, <2>3
  <2>5. CASE Apply(found)
    BY <2>4, <2>5 DEF Apply
  <2>6. CASE ~Apply(found)
    <3>1. ~(watcher.wake = "nudge") /\ applied' = applied
      BY <1>2, <2>6 DEF Decide
    <3> QED
      BY <2>2, <2>3, <3>1
  <2> QED
    BY <2>5, <2>6
<1> QED
  BY <1>1, <1>2

(* Once an intent is answered, ok or error, the pad follows the screen as  *)
(* soon as the nudge is consumed, for any number of writers and inputs.    *)
THEOREM FollowsTheWrite == Spec => []PadFollowsTheWrite
<1>1. Init => CalmInv
  BY DEF Init, CalmInv
<1>2. TypeOK /\ CalmInv /\ [Next]_vars => CalmInv'
  <2> SUFFICES ASSUME TypeOK, CalmInv, [Next]_vars PROVE CalmInv'
    OBVIOUS
  <2> USE DEF CalmInv, Followed
  <2>1. ASSUME NEW c \in Clients, ClientAsks(c) PROVE CalmInv'
    BY <2>1 DEF ClientAsks, Ask
  <2>2. ASSUME NEW w \in Writers, Works(w) PROVE CalmInv'
    BY <2>2 DEF Works, IntentStep, WriteList, WriteFails, Confirm, NoticeMap,
                BoundPasses, ReadFails
  <2>3. ASSUME NEW w \in Writers, Reply(w) PROVE CalmInv'
    BY <2>3 DEF Reply, NudgeAfter
  <2>4. CASE InputFocus
    BY <2>4 DEF InputFocus
  <2>5. CASE Fire \/ Ripen \/ SetOwner
    BY <2>5 DEF Fire, Ripen, SetOwner, screenVars
  <2>6. CASE TakeEscape
    BY <2>6 DEF TakeEscape, Ask
  <2>7. CASE Look \/ Decide
    BY <2>7, WatcherKeepsCalm
  <2>8. CASE LookFails \/ Published \/ Windows \/ Steam
    BY <2>8 DEF LookFails, Published, Windows, Steam, Moves
  <2>9. CASE UNCHANGED vars
    BY <2>9 DEF vars, padVars, screenVars
  <2> QED
    BY <2>1, <2>2, <2>3, <2>4, <2>5, <2>6, <2>7, <2>8, <2>9 DEF Next
<1>3. CalmInv => PadFollowsTheWrite
  BY DEF CalmInv, Followed, PadFollowsTheWrite
<1> QED
  BY <1>1, <1>2, <1>3, TypeCorrect, PTL DEF Spec

-----------------------------------------------------------------------------
(* Settling *)

(* What is pending is what the last look found: an owner that no look      *)
(* confirms is dropped with its clock.                                     *)
PendingIsLastLook == pending = NotPending \/ pending.owner = lastLook

(* A poll applies only an owner that the look before it found too.         *)
THEOREM Collapses == Spec => FlapsCollapse
<1>1. Init => PendingIsLastLook
  BY DEF Init, PendingIsLastLook
<1>2. TypeOK /\ PendingIsLastLook /\ Decide
        => /\ PendingIsLastLook'
           /\ applied' # applied /\ watcher.wake = "poll" => lastLook = applied'
  <2> SUFFICES ASSUME TypeOK, PendingIsLastLook, Decide
               PROVE  /\ PendingIsLastLook'
                      /\ applied' # applied /\ watcher.wake = "poll"
                           => lastLook = applied'
    OBVIOUS
  <2> DEFINE found == OwnerOf(watcher.seen, overlay)
  <2>1. lastLook' = found
    BY DEF Decide
  <2>2. CASE Apply(found)
    <3>1. pending' = NotPending /\ applied' = found
      BY <2>2 DEF Apply
    <3>2. ASSUME applied' # applied, watcher.wake = "poll"
          PROVE  lastLook = found
      <4>1. ~(watcher.wake = "nudge")
        BY <3>2
      <4>4. Observed(found).ripe \/ applied' = applied
        BY <4>1 DEF Decide
      <4>2. found # applied /\ Observed(found).ripe
        BY <3>1, <3>2, <4>4
      <4>3. found = pending.owner /\ pending # NotPending
        BY <4>2 DEF Observed, NotPending
      <4> QED
        BY <4>3 DEF PendingIsLastLook
    <3> QED
      BY <3>1, <3>2 DEF PendingIsLastLook, NotPending
  <2>3. CASE pending' = Observed(found) /\ UNCHANGED <<applied, control>>
    <3>1. \/ pending' = NotPending
          \/ pending' = pending /\ pending.owner = found
          \/ pending' = [owner |-> found, ripe |-> FALSE]
      BY <2>3 DEF Observed
    <3> QED
      BY <2>1, <2>3, <3>1 DEF PendingIsLastLook, NotPending
  <2> QED
    BY <2>2, <2>3 DEF Decide
<1>3. TypeOK /\ PendingIsLastLook /\ [Next]_vars
        => /\ PendingIsLastLook'
           /\ applied' # applied /\ watcher.wake = "poll" => lastLook = applied'
  <2> SUFFICES ASSUME TypeOK, PendingIsLastLook, [Next]_vars, ~Decide
               PROVE  PendingIsLastLook' /\ applied' = applied
    BY <1>2
  <2> USE DEF PendingIsLastLook
  <2>1. CASE Ripen
    BY <2>1 DEF Ripen, TypeOK, PadTypeOK, NotPending
  <2>2. ASSUME NEW c \in Clients, ClientAsks(c)
        PROVE  UNCHANGED <<pending, lastLook, applied>>
    BY <2>2 DEF ClientAsks
  <2>3. ASSUME NEW w \in Writers, Works(w) \/ Reply(w)
        PROVE  UNCHANGED <<pending, lastLook, applied>>
    BY <2>3 DEF Works, Reply
  <2>4. CASE InputFocus \/ Fire \/ TakeEscape \/ Look \/ LookFails \/ SetOwner
    BY <2>4 DEF InputFocus, Fire, TakeEscape, Look, LookFails, SetOwner
  <2>5. CASE Published \/ Windows \/ Steam
    BY <2>5 DEF Published, Windows, Steam, Moves
  <2>6. CASE UNCHANGED vars
    BY <2>6 DEF vars, padVars
  <2> QED
    BY <2>1, <2>2, <2>3, <2>4, <2>5, <2>6 DEF Next
<1> QED
  BY <1>1, <1>3, TypeCorrect, PTL DEF Spec, FlapsCollapse

-----------------------------------------------------------------------------
(* The gate *)

(* Why an `ok` is one's own: the gate admits one verify at a time, and the *)
(* list stays what its holder wrote, except for Steam.                     *)
GateInv ==
  /\ \A v, w \in Writers :
       intent[v].pc = "verifying" /\ intent[w].pc = "verifying" => v = w
  /\ \A w \in Writers :
       intent[w].pc = "verifying" => foreign \/ baseLayer = ListFor(intent[w].want)

(* A step of an intent keeps the gate's invariant, and answers `ok` only   *)
(* under it.                                                               *)
LEMMA WorksKeepsGate ==
  ASSUME TypeOK, GateInv, NEW w \in Writers, Works(w)
  PROVE  /\ GateInv'
         /\ \A v \in Writers : intent'[v].reply = "ok" /\ intent[v].reply # "ok"
              => foreign \/ baseLayer = ListFor(intent[v].want)
<1>0. intent \in [Writers -> Intents]
  BY DEF TypeOK, ScreenTypeOK
<1>1. foreign' = (foreign /\ ~Writes(w)) /\ IntentStep(w)
  BY DEF Works
<1>2. CASE WriteList(w)
  <2>1. /\ intent' = [intent EXCEPT ![w].pc = "verifying"]
        /\ baseLayer' = ListFor(intent[w].want)
        /\ \A v \in Writers : intent[v].pc # "verifying"
    BY <1>2 DEF WriteList, GateIsFree
  <2>2. /\ \A v \in Writers : v # w => intent'[v] = intent[v]
        /\ intent'[w].want = intent[w].want /\ intent'[w].reply = intent[w].reply
    BY <1>0, <2>1 DEF Intents
  <2> QED
    BY <2>1, <2>2 DEF GateInv
<1>3. CASE WriteFails(w) \/ Confirm(w) \/ BoundPasses(w) \/ ReadFails(w)
  <2>1. PICK r \in {"ok", "error"} : Answered(w, r)
    BY <1>3 DEF WriteFails, Confirm, BoundPasses, ReadFails
  <2>2. /\ \A v \in Writers : v # w => intent'[v] = intent[v]
        /\ intent'[w].pc = "replied"
    BY <1>0, <2>1 DEF Answered, At
  <2>3. baseLayer' = baseLayer /\ foreign' = foreign
    BY <1>1, <1>3, <2>2 DEF WriteFails, Confirm, BoundPasses, ReadFails, Writes,
                            TypeOK, PadTypeOK
  <2>4. intent'[w].reply = "ok" => intent[w].pc = "verifying"
    BY <1>0, <1>3 DEF WriteFails, Confirm, BoundPasses, ReadFails, Answered, At
  <2> QED
    BY <2>2, <2>3, <2>4 DEF GateInv
<1>4. CASE NoticeMap(w)
  <2>1. \A v \in Writers : /\ intent'[v].pc = intent[v].pc
                           /\ intent'[v].want = intent[v].want
                           /\ intent'[v].reply = intent[v].reply
    BY <1>0, <1>4 DEF NoticeMap, Intents
  <2>2. baseLayer' = baseLayer /\ foreign' = foreign
    BY <1>1, <1>4, <2>1 DEF NoticeMap, Writes, TypeOK, PadTypeOK
  <2> QED
    BY <2>1, <2>2 DEF GateInv
<1> QED
  BY <1>1, <1>2, <1>3, <1>4 DEF IntentStep

(* For any number of writers, an intent is answered `ok` only while the    *)
(* list is its own, unless Steam has rewritten it.                         *)
THEOREM OwnOk == Spec => OkIsOwn
<1> DEFINE Ok == \A w \in Writers :
                   (intent'[w].reply = "ok" /\ intent[w].reply # "ok")
                     => foreign \/ baseLayer = ListFor(intent[w].want)
<1>1. Init => GateInv
  BY DEF Init, ScreenInit, GateInv, Idle, At
<1>2. TypeOK /\ GateInv /\ [Next]_vars => GateInv' /\ Ok
  <2> SUFFICES ASSUME TypeOK, GateInv, [Next]_vars PROVE GateInv' /\ Ok
    OBVIOUS
  <2>0. intent \in [Writers -> Intents]
    BY DEF TypeOK, ScreenTypeOK
  <2>1. ASSUME NEW w \in Writers, NEW id \in Ids, Ask(w, id), foreign' = foreign
        PROVE  GateInv' /\ Ok
    <3>1. \A v \in Writers : v # w => intent'[v] = intent[v]
      BY <2>0, <2>1 DEF Ask
    <3>2. intent'[w].pc = "queued" /\ intent'[w].reply = None
      BY <2>0, <2>1 DEF Ask, At
    <3>3. None # "ok" /\ baseLayer' = baseLayer
      BY <2>1 DEF Ask
    <3>4. GateInv'
      BY <2>1, <3>1, <3>2, <3>3 DEF GateInv
    <3> QED
      BY <3>1, <3>2, <3>3, <3>4
  <2>2. ASSUME NEW c \in Clients, ClientAsks(c) PROVE GateInv' /\ Ok
    BY <2>1, <2>2 DEF ClientAsks
  <2>3. ASSUME NEW w \in Writers, Works(w) PROVE GateInv' /\ Ok
    BY <2>3, WorksKeepsGate
  <2>4. ASSUME NEW w \in Writers, Reply(w) PROVE GateInv' /\ Ok
    BY <2>0, <2>4 DEF Reply, Collect, GateInv, Idle, At
  <2>5. CASE TakeEscape
    BY <2>1, <2>5 DEF TakeEscape, Ids
  <2>6. CASE InputFocus \/ Fire \/ Look \/ LookFails \/ Decide \/ Ripen \/ SetOwner
    BY <2>6 DEF InputFocus, Fire, Look, LookFails, Decide, Ripen, SetOwner,
                screenVars, GateInv
  <2>7. CASE Published \/ Windows
    BY <2>7 DEF Published, Publish, Windows, MapWindow, UnmapWindow, GateInv
  <2>8. CASE Steam
    BY <2>8 DEF Steam, SteamWrites, GateInv
  <2>9. CASE UNCHANGED vars
    BY <2>9 DEF vars, padVars, screenVars, GateInv
  <2> QED
    BY <2>2, <2>3, <2>4, <2>5, <2>6, <2>7, <2>8, <2>9 DEF Next
<1>3. Spec => []TypeOK
  BY TypeCorrect
<1>4. TypeOK /\ GateInv /\ [Next]_vars => [Ok]_vars
  BY <1>2
<1> QED
  BY <1>1, <1>2, <1>3, <1>4, PTL DEF Spec, OkIsOwn
=============================================================================
