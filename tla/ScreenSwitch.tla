----------------------------- MODULE ScreenSwitch -----------------------------
(***************************************************************************)
(* Who is on screen (src/core/src/baselayer.rs, compositor.rs).  The core  *)
(* has one lever, gamescope's base-layer list, and one gauge, the app id   *)
(* of the window that gamescope says it resolved.  An intent (`show`,      *)
(* `home`) is ONE write of the list, then reads of the gauge until the     *)
(* app is there or a bound passes; IntentGate serializes whole intents.    *)
(*                                                                         *)
(* gamescope publishes some time after a write, and Steam writes the same  *)
(* list: both are external here, and so is what windows are mapped.        *)
(***************************************************************************)
EXTENDS Integers, Sequences

CONSTANTS
  Apps,          \* app ids other than the shell's
  Shell,         \* [session].shell_app_id
  Writers,       \* the tasks and threads that express intents
  Unreadable,    \* boot::SCREEN_UNREADABLE
  None

Ids     == Apps \cup {Shell}
Screens == Ids \cup {None}

ASSUME ScreenAssumption ==
  /\ Shell \notin Apps
  /\ None \notin Ids \cup {"ok", "error"}
  /\ Unreadable \notin Screens

VARIABLES
  baseLayer,   \* GAMESCOPECTRL_BASELAYER_APPID
  mapped,      \* the ids that have a mapped window
  screen,      \* the id of the base window, as published
  intent       \* what each writer is doing

screenVars == <<baseLayer, mapped, screen, intent>>

At(pc, want, reply) ==
  [pc |-> pc, want |-> want, sawMap |-> FALSE, reply |-> reply]

Idle == At("idle", None, None)

Intents ==
  [pc: {"idle", "queued", "verifying", "replied"}, want: Screens,
   sawMap: BOOLEAN, reply: {"ok", "error", None}]

\* baselayer::list_for: the shell is the tail that an exit falls back to.
ListFor(id) == IF id = Shell THEN <<Shell>> ELSE <<id, Shell>>

ScreenInit ==
  /\ baseLayer = <<>> /\ mapped = {} /\ screen = None
  /\ intent = [w \in Writers |-> Idle]

-----------------------------------------------------------------------------
(***************************************************************************)
(* An intent, step by step.                                                *)
(***************************************************************************)
Ask(w, id) ==
  /\ intent[w].pc = "idle"
  /\ intent' = [intent EXCEPT ![w] = At("queued", id, None)]
  /\ UNCHANGED <<baseLayer, mapped, screen>>

GateIgnored == TRUE

\* IntentGate::run: the gate is held across the write and the verify.
GateIsFree == \A w \in Writers : intent[w].pc # "verifying"

Answered(w, reply) ==
  intent' = [intent EXCEPT ![w] = At("replied", None, reply)]

\* The one write.
WriteList(w) ==
  /\ intent[w].pc = "queued" /\ GateIsFree
  /\ intent' = [intent EXCEPT ![w].pc = "verifying"]
  /\ baseLayer' = ListFor(intent[w].want)
  /\ UNCHANGED <<mapped, screen>>

WriteFails(w) ==
  /\ intent[w].pc = "queued" /\ GateIsFree
  /\ Answered(w, "error")
  /\ UNCHANGED <<baseLayer, mapped, screen>>

\* One read of the loop finds the app, finds that its first window has come
\* (which starts the switch bound), finds its bound passed, or fails.
Confirm(w) ==
  /\ intent[w].pc = "verifying"
  /\ screen = intent[w].want
  /\ Answered(w, "ok")
  /\ UNCHANGED <<baseLayer, mapped, screen>>

NoticeMap(w) ==
  /\ intent[w].pc = "verifying"
  /\ screen # intent[w].want
  /\ ~intent[w].sawMap /\ intent[w].want \in mapped
  /\ intent' = [intent EXCEPT ![w].sawMap = TRUE]
  /\ UNCHANGED <<baseLayer, mapped, screen>>

BoundPasses(w) ==
  /\ intent[w].pc = "verifying"
  /\ screen # intent[w].want
  /\ intent[w].sawMap \/ intent[w].want \notin mapped
  /\ Answered(w, "error")
  /\ UNCHANGED <<baseLayer, mapped, screen>>

ReadFails(w) ==
  /\ intent[w].pc = "verifying"
  /\ Answered(w, "error")
  /\ UNCHANGED <<baseLayer, mapped, screen>>

IntentStep(w) ==
  \/ WriteList(w)
  \/ WriteFails(w)
  \/ Confirm(w)
  \/ NoticeMap(w)
  \/ BoundPasses(w)
  \/ ReadFails(w)

\* The caller has its reply.
Collect(w) ==
  /\ intent[w].pc = "replied"
  /\ intent' = [intent EXCEPT ![w] = Idle]
  /\ UNCHANGED <<baseLayer, mapped, screen>>

-----------------------------------------------------------------------------
(***************************************************************************)
(* External: gamescope, the windows and Steam.                             *)
(***************************************************************************)
ListedAndMapped == {i \in DOMAIN baseLayer : baseLayer[i] \in mapped}

\* The first listed id that has a window; with no list, any window may be.
Resolved ==
  IF ListedAndMapped # {}
  THEN {baseLayer[i] : i \in {j \in ListedAndMapped :
                                 \A k \in ListedAndMapped : j <= k}}
  ELSE IF baseLayer = <<>> /\ mapped # {} THEN mapped ELSE {None}

Publish ==
  /\ screen \notin Resolved
  /\ screen' \in Resolved
  /\ UNCHANGED <<baseLayer, mapped, intent>>

MapWindow(id) ==
  /\ id \notin mapped
  /\ mapped' = mapped \cup {id}
  /\ UNCHANGED <<baseLayer, screen, intent>>

UnmapWindow(id) ==
  /\ id \in mapped
  /\ mapped' = mapped \ {id}
  /\ UNCHANGED <<baseLayer, screen, intent>>

SteamWrites(id) ==
  /\ baseLayer' = <<id>>
  /\ UNCHANGED <<mapped, screen, intent>>

-----------------------------------------------------------------------------
ScreenTypeOK ==
  /\ baseLayer \in Seq(Ids)
  /\ mapped \subseteq Ids
  /\ screen \in Screens
  /\ intent \in [Writers -> Intents]
  /\ \A w \in Writers :
       intent[w].pc \in {"queued", "verifying"} => intent[w].want \in Ids
=============================================================================
