----------------------------- MODULE InputSession -----------------------------
(***************************************************************************)
(* The input session of the core (src/core/src/input): physical pads come  *)
(* and go, each claimed one drives the permanent presenter of its player   *)
(* slot (fleet.rs, presenter.rs) or, while the shell owns the screen, one  *)
(* keyboard that all pads share (keymap.rs).  Guide is the core's own: a   *)
(* tap is delivered on release, a hold escapes to the shell (escape.rs).   *)
(*                                                                         *)
(* The session runs on one thread (runtime.rs): a step is one wake of its  *)
(* loop, a poll, a timer, a pad's event, a failed stream or a decision of  *)
(* the screen watcher.  A pad's `position` is its state as of the last     *)
(* event read from it.  A refused emit, which the session counts and       *)
(* survives, and codes the presenter does not carry are left out.          *)
(***************************************************************************)
EXTENDS Integers, FiniteSets

CONSTANTS
  Pads,          \* the devnodes that discovery would claim (discovery.rs)
  Players,       \* [input].players: how many presenters there are
  Controls,      \* Controls[p]: the controls of pad p, besides Guide
  Owners,        \* the InputOwners that the watcher decides
  NoSlot, None

ASSUME PlayersAssumption == Players \in Nat \ {0} /\ NoSlot \notin Nat

Slots      == 0..(Players - 1)
Buttons    == {"south", "start", "west"}
Axes       == {"stickX", "hatX"}
Directions == {"left", "right"}
Keys       == {"enter", "tab", "left", "right"}
Centre     == None

ASSUME ControlsAssumption ==
  /\ Controls \in [Pads -> SUBSET (Buttons \cup Axes)]
  /\ None \notin Keys \cup {"unknown", "shell", "overlay", "down"}
  /\ "unknown" \in Owners

VARIABLES
  plugged,    \* environment: the pads that are connected
  position,   \* environment: what each pad last said of each control
  guideDown,  \* environment: the pads whose Guide is pressed
  broken,     \* claimed pads whose stream has failed
  slot,       \* Fleet: the player slot of each claimed pad
  heldKeys,   \* ClaimedPad.held_keys
  presenter,  \* what each presenter's readers see
  latch,      \* KeyMap: the key that each axis holds
  armed,      \* KeyMap: the axes whose auto-repeat is armed
  held,       \* KeyMap.held
  keyboard,   \* the keys that are down on the shell keyboard
  strayed,    \* history: keys that are down by a repeat that `held` missed
  owner,      \* InputSession.owner, which determines the route
  pinned,     \* [input].shell_keys
  guide,      \* GuideWatch of each claimed pad
  latched,    \* escape_latched
  escaped,    \* history: has an escape fired while a pad holds Guide?
  running     \* FALSE once the session is shut down

envVars    == <<plugged, position, guideDown>>
fleetVars  == <<broken, slot>>
appVars    == <<heldKeys, presenter>>
shellVars  == <<latch, armed, held, keyboard, strayed>>
routeVars  == <<owner, pinned>>
escapeVars == <<guide, latched, escaped>>
vars == <<plugged, position, guideDown, broken, slot, heldKeys, presenter,
          latch, armed, held, keyboard, strayed, owner, pinned, guide, latched, escaped,
          running>>

Route(o) == IF o \in {"shell", "overlay"} THEN "shell" ELSE "app"
Fleet    == {p \in Pads : slot[p] # NoSlot}
Readable == {p \in Fleet : p \notin broken}

Rest      == [keys |-> {}, axes |-> {}]
NoLatches == [a \in Axes |-> None]
AtRest    == [c \in Buttons \cup Axes |-> Centre]

-----------------------------------------------------------------------------
Init ==
  /\ plugged = {} /\ guideDown = {} /\ broken = {}
  /\ position = [p \in Pads |-> AtRest]
  /\ slot = [p \in Pads |-> NoSlot]
  /\ heldKeys = [p \in Pads |-> {}]
  /\ presenter = [s \in Slots |-> Rest]
  /\ latch = [p \in Pads |-> NoLatches]
  /\ armed = [p \in Pads |-> {}]
  /\ held = [p \in Pads |-> {}]
  /\ keyboard = {} /\ strayed = {}
  /\ pinned \in BOOLEAN
  /\ owner = IF pinned THEN "shell" ELSE "unknown"
  /\ guide = [p \in Pads |-> "up"]
  /\ latched = FALSE /\ escaped = FALSE /\ running = TRUE

-----------------------------------------------------------------------------
(* Pads leave, and what they hold is released                              *)

\* Keys that go up are astray no longer.
KeyboardBecomes(keys) == keyboard' = keys /\ strayed' = strayed \cap keys

\* Fleet::retire and presenter.rs, quiesce: held keys up, every axis centred.
PresentersWithout(gone) ==
  [s \in Slots |->
     IF \E p \in gone : slot[p] = s
     THEN [keys |-> presenter[s].keys
                      \ UNION {heldKeys[p] : p \in {q \in gone : slot[q] = s}},
           axes |-> {}]
     ELSE presenter[s]]

\* KeyMap::quiesce, for the maps of these pads.
QuiesceKeymaps(pads) ==
  /\ latch' = [p \in Pads |-> IF p \in pads THEN NoLatches ELSE latch[p]]
  /\ armed' = [p \in Pads |-> IF p \in pads THEN {} ELSE armed[p]]
  /\ held' = [p \in Pads |-> IF p \in pads THEN {} ELSE held[p]]
  /\ KeyboardBecomes(keyboard \ UNION {held[p] : p \in pads})

ClearLatchOnRelease(stillGuide) ==
  /\ latched' = FALSE
  /\ escaped' = (escaped /\ \E p \in Pads : stillGuide[p] # "up")

\* The latch falls once no pad holds Guide.
ClearLatch(stillGuide) ==
  /\ latched' = (latched /\ \E p \in Pads : stillGuide[p] # "up")
  /\ escaped' = (escaped /\ \E p \in Pads : stillGuide[p] # "up")

GuidesWithoutKept(gone) == guide

GuidesWithout(gone) == [p \in Pads |-> IF p \in gone THEN "up" ELSE guide[p]]

RetireForgettingKeys(gone) ==
  /\ presenter' = PresentersWithout(gone)
  /\ heldKeys' = [p \in Pads |-> IF p \in gone THEN {} ELSE heldKeys[p]]
  /\ guide' = GuidesWithout(gone)
  /\ latched' = (latched /\ \E p \in Pads : guide'[p] # "up")
  /\ escaped' = (escaped /\ \E p \in Pads : guide'[p] # "up")
  /\ broken' = broken \ gone
  /\ latch' = [p \in Pads |-> IF p \in gone THEN NoLatches ELSE latch[p]]
  /\ armed' = [p \in Pads |-> IF p \in gone THEN {} ELSE armed[p]]
  /\ held' = [p \in Pads |-> IF p \in gone THEN {} ELSE held[p]]
  /\ UNCHANGED <<keyboard, strayed>>

\* InputSession::retire, of each of these pads; the slots are the caller's.
Retire(gone) ==
  /\ presenter' = PresentersWithout(gone)
  /\ heldKeys' = [p \in Pads |-> IF p \in gone THEN {} ELSE heldKeys[p]]
  /\ QuiesceKeymaps(gone)
  /\ guide' = GuidesWithout(gone)
  /\ ClearLatch(guide')
  /\ broken' = broken \ gone

-----------------------------------------------------------------------------
(* Discovery                                                               *)

Plug(p) ==
  /\ p \notin plugged
  /\ plugged' = plugged \cup {p}
  /\ UNCHANGED <<position, guideDown, fleetVars, appVars, shellVars, routeVars,
                 escapeVars, running>>

\* A pad leaves in any position; its stream, if we hold one, will fail.
Unplug(p) ==
  /\ p \in plugged
  /\ plugged' = plugged \ {p}
  /\ position' = [position EXCEPT ![p] = AtRest]
  /\ guideDown' = guideDown \ {p}
  /\ broken' = IF p \in Fleet THEN broken \cup {p} ELSE broken
  /\ UNCHANGED <<slot, appVars, shellVars, routeVars, escapeVars, running>>

AdmissionsUnbounded(opened, free) ==
  {f \in [opened -> free \cup (Players..(Players + Cardinality(opened)))] :
     \A p, q \in opened : f[p] = f[q] => p = q}

\* SlotAllocator::alloc, the lowest free slots first, in enumeration order.
Admissions(opened, free) ==
  LET n == IF Cardinality(opened) <= Cardinality(free)
           THEN Cardinality(opened) ELSE Cardinality(free)
      lowest == {s \in free : Cardinality({t \in free : t < s}) < n}
  IN UNION {{f \in [admitted -> lowest] :
               \A p, q \in admitted : f[p] = f[q] => p = q} :
             admitted \in {a \in SUBSET opened : Cardinality(a) = n}}

PollReusingSlots ==
  /\ running
  /\ LET gone == Fleet \ plugged
     IN /\ Retire(gone)
        /\ \E opened \in SUBSET (plugged \ Fleet) :
             \E given \in Admissions(opened, Slots) :
               slot' = [p \in Pads |-> IF p \in gone THEN NoSlot
                                       ELSE IF p \in DOMAIN given THEN given[p]
                                       ELSE slot[p]]
  /\ UNCHANGED <<envVars, routeVars, running>>

\* InputSession::poll: what left is retired, what is new is claimed.  A claim
\* may fail, and a pad without a slot is released again.
Poll ==
  /\ running
  /\ LET gone == Fleet \ plugged
         free == Slots \ {slot[p] : p \in Fleet \ gone}
     IN /\ Retire(gone)
        /\ \E opened \in SUBSET (plugged \ Fleet) :
             \E given \in Admissions(opened, free) :
               slot' = [p \in Pads |-> IF p \in gone THEN NoSlot
                                       ELSE IF p \in DOMAIN given THEN given[p]
                                       ELSE slot[p]]
  /\ UNCHANGED <<envVars, routeVars, running>>

\* on_stream_error
StreamError(p) ==
  /\ running /\ p \in broken
  /\ Retire({p})
  /\ slot' = [slot EXCEPT ![p] = NoSlot]
  /\ UNCHANGED <<envVars, routeVars, running>>

Shutdown ==
  /\ running /\ running' = FALSE
  /\ Retire(Fleet)
  /\ slot' = [p \in Pads |-> NoSlot]
  /\ UNCHANGED <<envVars, routeVars>>

-----------------------------------------------------------------------------
(* One event of a claimed pad: InputSession::forward                       *)

\* keymap.rs, key_for_button
KeyFor(b) == IF b = "south" THEN "enter" ELSE IF b = "start" THEN "tab" ELSE None

\* KeyMap::release then press: only an edge of `held` reaches the keyboard.
Rekey(p, old, new) ==
  /\ held' = [held EXCEPT ![p] = (@ \ {old}) \cup ({new} \ {None})]
  /\ KeyboardBecomes((keyboard \ (held[p] \cap {old}))
                        \cup ({new} \ ({None} \cup (held[p] \ {old}))))

ShellButton(p, b, down) ==
  /\ Rekey(p, IF down THEN None ELSE KeyFor(b), IF down THEN KeyFor(b) ELSE None)
  /\ UNCHANGED <<latch, armed, appVars>>

AppButton(p, b, down) ==
  /\ heldKeys' = [heldKeys EXCEPT ![p] = IF down THEN @ \cup {b} ELSE @ \ {b}]
  /\ presenter' = [presenter EXCEPT ![slot[p]].keys =
                     IF down THEN @ \cup {b} ELSE @ \ {b}]
  /\ UNCHANGED shellVars

Button(p, b) ==
  /\ running /\ p \in Readable /\ b \in Controls[p] \cap Buttons
  /\ LET down == position[p][b] = Centre
     IN /\ position' = [position EXCEPT ![p][b] = IF down THEN "down" ELSE Centre]
        /\ IF Route(owner) = "shell" THEN ShellButton(p, b, down)
                                     ELSE AppButton(p, b, down)
  /\ UNCHANGED <<plugged, guideDown, fleetVars, routeVars, escapeVars, running>>

\* on_axis: the old direction is released before the new one is pressed; only
\* a stick repeats.
ShellAxis(p, a, dir) ==
  IF latch[p][a] = dir
  THEN UNCHANGED <<shellVars, appVars>>
  ELSE /\ latch' = [latch EXCEPT ![p][a] = dir]
       /\ armed' = [armed EXCEPT ![p] = IF dir # None /\ a = "stickX"
                                        THEN @ \cup {a} ELSE @ \ {a}]
       /\ Rekey(p, latch[p][a], dir)
       /\ UNCHANGED appVars

AppAxis(p, a, dir) ==
  /\ presenter' = [presenter EXCEPT ![slot[p]].axes =
                     IF dir # Centre THEN @ \cup {a} ELSE @ \ {a}]
  /\ UNCHANGED <<heldKeys, shellVars>>

\* An event may repeat the direction: to a map or a presenter that was quiesced
\* since, that is a fresh press.
Axis(p, a) ==
  /\ running /\ p \in Readable /\ a \in Controls[p] \cap Axes
  /\ \E dir \in Directions \cup {Centre} :
       /\ position' = [position EXCEPT ![p][a] = dir]
       /\ IF Route(owner) = "shell" THEN ShellAxis(p, a, dir)
                                    ELSE AppAxis(p, a, dir)
  /\ UNCHANGED <<plugged, guideDown, fleetVars, routeVars, escapeVars, running>>

\* A control is moved that we do not hear of: the pad is not claimed.
Unheard(p) ==
  /\ p \in plugged \ Fleet
  /\ \E c \in Controls[p] :
       \E to \in (IF c \in Axes THEN Directions \cup {Centre}
                                ELSE {"down", Centre}) \ {position[p][c]} :
         position' = [position EXCEPT ![p][c] = to]
  /\ UNCHANGED <<plugged, guideDown, fleetVars, appVars, shellVars, routeVars,
                 escapeVars, running>>

-----------------------------------------------------------------------------
(* Guide                                                                   *)

GuidePress(p) ==
  /\ running /\ p \in Readable \ guideDown
  /\ guideDown' = guideDown \cup {p}
  /\ guide' = [guide EXCEPT ![p] = "down"]
  /\ UNCHANGED <<plugged, position, fleetVars, appVars, shellVars, routeVars,
                 latched, escaped, running>>

\* on_guide: a tap reaches whatever has the route now, as a press and its
\* release; the release of a fired hold, or of an unseen press, is swallowed.
GuideRelease(p) ==
  /\ running /\ p \in Readable \cap guideDown
  /\ guideDown' = guideDown \ {p}
  /\ guide' = [guide EXCEPT ![p] = "up"]
  /\ ClearLatch(guide')
  /\ KeyboardBecomes(IF guide[p] = "down" /\ Route(owner) = "shell"
                     THEN keyboard \ {"tab"} ELSE keyboard)
  /\ UNCHANGED <<plugged, position, fleetVars, appVars, latch, armed, held,
                 routeVars, running>>

\* A pad may be claimed with its Guide already down.
GuideUnheard(p) ==
  /\ p \in plugged \ Fleet
  /\ guideDown' = IF p \in guideDown THEN guideDown \ {p} ELSE guideDown \cup {p}
  /\ UNCHANGED <<plugged, position, fleetVars, appVars, shellVars, routeVars,
                 escapeVars, running>>

-----------------------------------------------------------------------------
(* Timers and the watcher's decisions                                      *)

Repeating == {r \in Fleet \X Axes : r[2] \in armed[r[1]]}
Holding   == {p \in Fleet : guide[p] = "down"}

\* fire_escape: at most one for all the pads that hold Guide together.
Fires(due) == due # {} /\ ~latched

\* KeyMap::tick: a repeat is a release and a press of the latch's key, which
\* `held` does not hear of.
Repeats(due) ==
  LET keyOf(r) == latch[r[1]][r[2]]
  IN /\ keyboard' = keyboard \cup {keyOf(r) : r \in due}
     /\ strayed' = strayed \cup {keyOf(r) : r \in {s \in due : keyOf(s) \notin held[s[1]]}}

\* tick: the holds and the repeats that are due.
Tick ==
  /\ running
  /\ \E due \in SUBSET Holding, repeats \in SUBSET Repeating :
       /\ due # {} \/ repeats # {}
       /\ guide' = [p \in Pads |-> IF p \in due THEN "fired" ELSE guide[p]]
       /\ latched' = (latched \/ due # {})
       /\ escaped' = (escaped \/ Fires(due))
       /\ Repeats(repeats)
  /\ UNCHANGED <<envVars, fleetVars, appVars, latch, armed, held, routeVars,
                 running>>

SwitchQuiescingTarget(to) ==
  IF Route(to) = "shell"
  THEN QuiesceKeymaps(Pads) /\ UNCHANGED appVars
  ELSE /\ presenter' = PresentersWithout(Fleet)
       /\ heldKeys' = [p \in Pads |-> {}]
       /\ UNCHANGED shellVars

\* quiesce_route, of the route that is left.
SwitchQuiescing(to) ==
  IF Route(owner) = "shell"
  THEN QuiesceKeymaps(Pads) /\ UNCHANGED appVars
  ELSE /\ presenter' = PresentersWithout(Fleet)
       /\ heldKeys' = [p \in Pads |-> {}]
       /\ UNCHANGED shellVars

\* set_owner, with a decision of the watcher.
SetOwner(to) ==
  /\ running /\ ~pinned /\ to # owner
  /\ SwitchQuiescing(to)
  /\ owner' = to
  /\ UNCHANGED <<envVars, fleetVars, pinned, escapeVars, running>>

-----------------------------------------------------------------------------
Next ==
  \/ \E p \in Pads : \/ Plug(p) \/ Unplug(p) \/ StreamError(p)
                     \/ GuidePress(p) \/ GuideRelease(p) \/ GuideUnheard(p)
                     \/ Unheard(p)
                     \/ \E c \in Controls[p] : Button(p, c) \/ Axis(p, c)
  \/ Poll \/ Tick \/ Shutdown
  \/ \E to \in Owners : SetOwner(to)

Spec == Init /\ [][Next]_vars
-----------------------------------------------------------------------------
TypeOK ==
  /\ plugged \subseteq Pads /\ guideDown \subseteq Pads /\ broken \subseteq Fleet
  /\ position \in [Pads -> [Buttons \cup Axes -> Directions \cup {"down", None}]]
  /\ slot \in [Pads -> Slots \cup {NoSlot}]
  /\ heldKeys \in [Pads -> SUBSET Buttons]
  /\ presenter \in [Slots -> [keys : SUBSET Buttons, axes : SUBSET Axes]]
  /\ latch \in [Pads -> [Axes -> Directions \cup {None}]]
  /\ armed \in [Pads -> SUBSET {"stickX"}]
  /\ held \in [Pads -> SUBSET Keys] /\ keyboard \subseteq Keys /\ strayed \subseteq keyboard
  /\ owner \in Owners \cup {"shell"} /\ pinned \in BOOLEAN
  /\ guide \in [Pads -> {"up", "down", "fired"}]
  /\ latched \in BOOLEAN /\ escaped \in BOOLEAN /\ running \in BOOLEAN

(* Each claimed pad has a presenter of its own: no two pads drive one, in  *)
(* whatever order pads join, leave, fail and are polled (fleet.rs, admit;  *)
(* identity.rs, SlotAllocator).                                            *)
SlotsAreDistinct ==
  \A p, q \in Pads : slot[p] = slot[q] /\ slot[p] # NoSlot => p = q

(* A presenter that is not routed to, or that no pad drives, is at rest:   *)
(* it outlives its pad and its route, and nothing downstream would ever    *)
(* release what it was left holding (session.rs, quiesce_route, retire).   *)
PresenterRestsWhenNotRouted ==
  \A s \in Slots :
    Route(owner) = "shell" \/ (\A p \in Fleet : slot[p] # s)
      => presenter[s] = Rest

(* So is the shell's keyboard while an app has the pads, with whatever     *)
(* controls they have, but for a key that an auto-repeat pressed when its  *)
(* pad's map did not hold it (session.rs, quiesce_route; keymap.rs, tick). *)
KeyboardRestsWhenNotRouted == Route(owner) = "app" => keyboard \subseteq strayed

\* What drives a key: a button bound to it, or an axis pushed its way.
Drives(p, key) ==
  \E c \in Controls[p] :
    \/ c \in Buttons /\ position[p][c] = "down" /\ KeyFor(c) = key
    \/ c \in Axes /\ position[p][c] = key

\* A claimed pad holds these keys, or one whose stream has failed and that is
\* about to be retired.
AreHeld(keys) == \A key \in keys : \E p \in Fleet : p \in broken \/ Drives(p, key)

PresentersAreHeld ==
  \A s \in Slots : presenter[s] # Rest =>
    \E p \in Fleet :
      /\ slot[p] = s
      /\ p \notin broken =>
           \A c \in presenter[s].keys \cup presenter[s].axes :
             c \in Controls[p] /\ position[p][c] # Centre

(* What is down downstream is held by somebody: a presenter's button or    *)
(* axis by the pad of its slot, a key of the keyboard by a claimed pad     *)
(* (keymap.rs, held, quiesce; fleet.rs, held_keys).                        *)
DownIsHeld == PresentersAreHeld /\ AreHeld(keyboard)

(* The code keeps that for every button, axis and key but those a repeat   *)
(* pressed when its pad's map did not hold them, whatever pads are plugged,*)
(* unplugged, refused and retired, and whoever has the screen.             *)
DownIsHeldUnlessStrayed == PresentersAreHeld /\ AreHeld(keyboard \ strayed)

(* One gesture escapes once: while any pad has held Guide since the last   *)
(* escape, no other hold escapes (session.rs, fire_escape).                *)
EscapeOncePerGesture ==
  [][\A p \in Pads : guide[p] = "down" /\ guide'[p] = "fired" =>
       ~(escaped /\ ~latched)]_vars

(* The next gesture can escape: the latch never outlives the hold that set *)
(* it, even when the pad was unplugged in the middle of it (session.rs,    *)
(* retire and clear_escape_latch).                                         *)
LatchIsHeld == latched => \E p \in Fleet : guide[p] # "up"
=============================================================================
