------------------------------- MODULE PadRoute -------------------------------
(***************************************************************************)
(* Who owns the pad.  The screen watcher (src/core/src/input/watcher.rs)   *)
(* reads the screen on a thread of its own, folds in the shell's overlay   *)
(* declaration, and sends the owner (routing.rs) to the input session.  It *)
(* looks on a poll, debounced, and on a nudge from whoever just wrote the  *)
(* base layer, at once.  Holding Guide hands an escape to a worker thread  *)
(* (escape.rs) that writes `home` through the gate that IPC clients use.   *)
(***************************************************************************)
EXTENDS ScreenSwitch

CONSTANTS
  Clients,       \* IPC connections
  Escape,        \* the escape worker
  MaxInputs      \* bound: verbs, holds, declarations and events of the world

ASSUME PadAssumption ==
  /\ Escape \notin Clients /\ Writers = Clients \cup {Escape}
  /\ MaxInputs \in Nat

VARIABLES
  overlay,       \* OverlayFlag
  nudged,        \* the nudge channel, which holds one
  queued,        \* the escape channel, which holds one
  watcher,       \* the watcher's thread
  applied,       \* Settle.applied
  pending,       \* Settle.pending, and whether its window has passed
  control,       \* decisions on their way to the input thread
  owner,         \* InputSession.owner
  owed,          \* history: a hold fired since the worker last tried `home`
  lastLook,      \* history: the owner that the watcher last found
  calm,          \* history: nothing has moved since an intent was answered
  foreign,       \* history: has Steam written the list since the core last did?
  inputs         \* how many of MaxInputs have been used

padVars == <<overlay, nudged, queued, watcher, applied, pending, control, owner,
             owed, lastLook, calm, foreign, inputs>>
vars == <<screenVars, padVars>>

InputOwners == Ids \cup {"unknown", "overlay"}
NotPending  == [owner |-> None, ripe |-> FALSE]

\* routing::owner_of.  A declared overlay counts while the shell is on screen.
OwnerOfAnyId(seen, declared) ==
  IF seen = None THEN "unknown"
  ELSE IF seen = Shell /\ declared THEN "overlay" ELSE seen

OwnerOf(seen, declared) ==
  IF seen \in {Unreadable, None} THEN "unknown"
  ELSE IF seen = Shell /\ declared THEN "overlay" ELSE seen

Init ==
  /\ ScreenInit
  /\ overlay = FALSE /\ nudged = FALSE /\ queued = FALSE
  /\ watcher = [pc |-> "starting", wake |-> "poll", seen |-> None]
  /\ applied = "unknown" /\ pending = NotPending
  /\ control = <<>> /\ owner = "unknown"
  /\ owed = FALSE /\ lastLook = "unknown" /\ calm = FALSE /\ foreign = FALSE
  /\ inputs = 0

Input == inputs < MaxInputs /\ inputs' = inputs + 1

-----------------------------------------------------------------------------
(***************************************************************************)
(* The IPC surface (ipc.rs) and the escape worker.                         *)
(***************************************************************************)
ClientAsks(c) ==
  /\ \E id \in Ids : Ask(c, id)
  /\ Input
  /\ UNCHANGED <<overlay, nudged, queued, watcher, applied, pending, control,
                 owner, owed, lastLook, calm, foreign>>

\* Whoever wrote nudges once it has its reply, whatever the reply was.
NudgeIfItTook(w) == nudged' = (nudged \/ intent[w].reply = "ok")

NudgeAfter(w) == nudged' = TRUE

Reply(w) ==
  /\ Collect(w)
  /\ NudgeAfter(w)
  /\ calm' = TRUE
  /\ UNCHANGED <<overlay, queued, watcher, applied, pending, control, owner,
                 owed, lastLook, foreign, inputs>>

Tries(w) == w = Escape /\ intent[w].pc = "queued" /\ intent'[w].pc # "queued"

Writes(w) == intent[w].pc = "queued" /\ intent'[w].pc = "verifying"

Works(w) ==
  /\ IntentStep(w)
  /\ owed' = (owed /\ ~Tries(w))
  /\ foreign' = (foreign /\ ~Writes(w))
  /\ UNCHANGED <<overlay, nudged, queued, watcher, applied, pending, control,
                 owner, lastLook, calm, inputs>>

\* `input-focus take | release`: the flag is set, then the watcher is nudged.
InputFocus ==
  /\ Input
  /\ overlay' = ~overlay
  /\ nudged' = TRUE
  /\ UNCHANGED <<screenVars, queued, watcher, applied, pending, control, owner,
                 owed, lastLook, calm, foreign>>

\* ChannelEscape::fire: a full queue coalesces.
FireUnlessInFlight ==
  /\ Input
  /\ queued' = (queued \/ intent[Escape].pc = "idle")
  /\ owed' = TRUE
  /\ UNCHANGED <<screenVars, overlay, nudged, watcher, applied, pending, control,
                 owner, lastLook, calm, foreign>>

Fire ==
  /\ Input
  /\ queued' = TRUE
  /\ owed' = TRUE
  /\ UNCHANGED <<screenVars, overlay, nudged, watcher, applied, pending, control,
                 owner, lastLook, calm, foreign>>

\* run_worker: the request leaves the queue before `home` is tried.
TakeEscape ==
  /\ queued /\ Ask(Escape, Shell)
  /\ queued' = FALSE
  /\ UNCHANGED <<overlay, nudged, watcher, applied, pending, control, owner,
                 owed, lastLook, calm, foreign, inputs>>

-----------------------------------------------------------------------------
(***************************************************************************)
(* watcher::run.  A wake takes the nudge and reads the screen; then the    *)
(* flag is read and the owner decided.  The first pass waits for nothing.  *)
(***************************************************************************)
Seeing(seen) ==
  /\ watcher.pc # "deciding"
  /\ watcher' = [pc |-> "deciding", seen |-> seen,
                 wake |-> IF watcher.pc = "waiting" /\ nudged THEN "nudge" ELSE "poll"]
  /\ nudged' = (watcher.pc = "starting" /\ nudged)

Look ==
  /\ Seeing(screen)
  /\ UNCHANGED <<screenVars, overlay, queued, applied, pending, control, owner,
                 owed, lastLook, calm, foreign, inputs>>

LookFails ==
  /\ Seeing(Unreadable)
  /\ Input
  /\ calm' = FALSE
  /\ UNCHANGED <<screenVars, overlay, queued, applied, pending, control, owner,
                 owed, lastLook, foreign>>

\* Settle::observed, as a function of what was found.
ObservedKeepingItsClock(found) ==
  IF found = applied THEN NotPending ELSE [pending EXCEPT !.owner = found]

ObservedRenewing(found) ==
  IF found = applied THEN NotPending ELSE [owner |-> found, ripe |-> FALSE]

Observed(found) ==
  IF found = applied THEN NotPending
  ELSE IF found = pending.owner THEN pending
  ELSE [owner |-> found, ripe |-> FALSE]

Apply(found) ==
  /\ pending' = NotPending
  /\ applied' = found
  /\ control' = IF found = applied THEN control ELSE Append(control, found)

\* Settle::asserted after a nudge; Settle::observed, then due, after a poll.
Decide ==
  /\ watcher.pc = "deciding"
  /\ watcher' = [watcher EXCEPT !.pc = "waiting", !.seen = None]
  /\ LET found == OwnerOf(watcher.seen, overlay) IN
     /\ IF watcher.wake = "nudge" \/ Observed(found).ripe
        THEN Apply(found)
        ELSE pending' = Observed(found) /\ UNCHANGED <<applied, control>>
     /\ lastLook' = found
  /\ UNCHANGED <<screenVars, overlay, nudged, queued, owner, owed, calm, foreign, inputs>>

\* The settle window of the pending owner passes.
Ripen ==
  /\ pending # NotPending /\ ~pending.ripe
  /\ pending' = [pending EXCEPT !.ripe = TRUE]
  /\ UNCHANGED <<screenVars, overlay, nudged, queued, watcher, applied, control,
                 owner, owed, lastLook, calm, foreign, inputs>>

\* runtime.rs: the input thread takes the next decision.
SetOwner ==
  /\ control # <<>>
  /\ owner' = Head(control)
  /\ control' = Tail(control)
  /\ UNCHANGED <<screenVars, overlay, nudged, queued, watcher, applied, pending,
                 owed, lastLook, calm, foreign, inputs>>

-----------------------------------------------------------------------------
Moves ==
  /\ calm' = FALSE
  /\ UNCHANGED <<overlay, nudged, queued, watcher, applied, pending, control,
                 owner, owed, lastLook>>

Published == Publish /\ Moves /\ UNCHANGED <<foreign, inputs>>

Windows ==
  /\ \E id \in Ids : MapWindow(id) \/ UnmapWindow(id)
  /\ Input
  /\ Moves /\ UNCHANGED foreign

Steam ==
  /\ \E id \in Ids : SteamWrites(id)
  /\ Input
  /\ foreign' = TRUE
  /\ Moves

Next ==
  \/ \E c \in Clients : ClientAsks(c)
  \/ \E w \in Writers : Works(w) \/ Reply(w)
  \/ InputFocus
  \/ Fire
  \/ TakeEscape
  \/ Look
  \/ LookFails
  \/ Decide
  \/ Ripen
  \/ SetOwner
  \/ Published
  \/ Windows
  \/ Steam

Spec == Init /\ [][Next]_vars

\* Each thread runs, a read or a bound ends each verify, a settle window passes,
\* and gamescope publishes.
Watcher == Look \/ Decide

EscapeThread == TakeEscape \/ Works(Escape) \/ Reply(Escape)

Fairness ==
  /\ \A c \in Clients : WF_vars(Works(c) \/ Reply(c))
  /\ WF_vars(EscapeThread)
  /\ WF_vars(Watcher) /\ WF_vars(Ripen)
  /\ WF_vars(SetOwner)
  /\ WF_vars(Published)

FairSpec == Spec /\ Fairness

-----------------------------------------------------------------------------
PadTypeOK ==
  /\ overlay \in BOOLEAN /\ nudged \in BOOLEAN /\ queued \in BOOLEAN
  /\ watcher \in [pc: {"starting", "waiting", "deciding"},
                  wake: {"nudge", "poll"}, seen: Screens \cup {Unreadable}]
  /\ applied \in InputOwners /\ owner \in InputOwners
  /\ pending \in [owner: InputOwners \cup {None}, ripe: BOOLEAN]
  /\ control \in Seq(InputOwners)
  /\ inputs \in 0..MaxInputs
  /\ owed \in BOOLEAN /\ lastLook \in InputOwners /\ calm \in BOOLEAN
  /\ foreign \in BOOLEAN

TypeOK == ScreenTypeOK /\ PadTypeOK

\* An intent answers `ok` only while the list is the one that it wrote itself,
\* unless Steam has rewritten it: no other intent's write can pass for its own
\* (baselayer.rs, IntentGate).
OkIsOwn ==
  [][\A w \in Writers :
       (intent'[w].reply = "ok" /\ intent[w].reply # "ok") =>
          foreign \/ baseLayer = ListFor(intent[w].want)]_vars

\* An escape that is owed is queued or is on its way to the gate, so a hold that
\* comes while an earlier one is being served is never folded into that one.
OwedIsQueued == owed => queued \/ intent[Escape].pc = "queued"

\* Once an intent is answered, ok or error, the pad follows what is on screen as
\* soon as the nudge is consumed, with no settle window, while nothing moves.
PadFollowsTheWrite ==
  (calm /\ ~nudged /\ watcher.pc = "waiting") => applied = OwnerOf(screen, overlay)

\* A flap collapses: a poll applies only an owner that the look before it found too.
FlapsCollapse ==
  [][(applied' # applied /\ watcher.wake = "poll") => lastLook = applied']_vars

\* The session acts on the decisions in order, and once things stop moving the
\* pad's owner is what is on screen.
PadFollowsScreen == <>[](owner = OwnerOf(screen, overlay))

\* A held Guide is tried on the base layer, whoever else holds the gate; a write
\* that fails has been tried too (escape.rs, run_worker).
EscapeIsServed == owed ~> ~owed
=============================================================================
