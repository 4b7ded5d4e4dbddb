# TLA+ models of tv-shell

tv-shell turns a Linux box into a television appliance: a full-screen shell,
gamepads, and control of the television and receiver over HDMI-CEC.  This
directory holds formal models of its Rust code: TLA+ modules translated from the
source, TLC configurations that check them on small instances, and theorems
about them checked by the TLA+ proof system.  `PROJECT.json` maps every
definition that models code to the lines it models.

Two programs are modelled.  The AV daemon, `src/cec`, shares a bus with devices it
does not control, must never switch off a television that somebody is watching on
another input, and decides from incomplete evidence which of two backends carries
out an action.  The v2 core, `src/core`, forwards the pads to whatever owns the
screen, switches the screen through a compositor that answers late and that others
write to, and keeps one app alive across its crashes and its own.  Little of that
can be tested without the hardware and the unlucky timing.

## Inventory

### The AV daemon (`src/cec`)

| part | state | operations | hard behaviour |
|---|---|---|---|
| warm-path decision, `failover.rs` | override, committed backend, pending change and its start, last health verdict, deaf flag, failure window | `observe`, `set_pin` | evidence arrives from three tasks in any order; hysteresis on both edges; wall clock |
| adapter health, `health.rs` | four observed facts, of which two enter the verdict | `record_*`, `classify`, `should_feed_watchdog` | read by an ioctl outside the lock, recorded inside it |
| backend, `kernel/device.rs` | the open device, the locks on the three records | `open`, `probe`, `act`, `volume`, `pin_backend` | the decision and the ownership record are read before awaits |
| receive loop, `kernel/follower.rs` | none of its own | `run`, `note_health`, `fold` | ends for good on a poll error; messages lost by the kernel |
| actions, `action.rs`, `ownership.rs`, `kernel/ops.rs` | none (pure), then the transmits | `plan`, `execute`, `tolerable` | two-message plans that land by halves; our own claim is not looped back |
| observed state, `state.rs` | owner, power, volume, timestamps | `apply`, `record_our_claim`, `record_our_release` | two writers, the loop and the actions |
| IP leg, `ip/` | configuration | `plan_for`, `execute`, `judge` | connection that fails after some lines; not idempotent with a refusal |
| volume, `volume.rs` | a report before and one after | `perform_level`, `perform_mute`, `ensure_system_audio_mode` | somebody else moves the level between the two reports |
| IPC, `ipc.rs`, `protocol.rs` | none | one task per connection | no lock across an action |
| start and watchdog, `main.rs`, `notify.rs` | none | `open_backend`, `watchdog_feed` | feed stops, systemd restarts |

They interact as follows.  A client's line becomes `KernelBackend::act`.  It
reads the decision (failover lock), runs the IP leg, reads the record of who holds
the display (observations lock), makes or refuses a plan, transmits, records a
claim or release of ours (observations lock), reads the television's power back,
and tells the decision whether the transmit was accepted (failover lock).  The
receive loop folds what the others say into the same record, and the adapter's
own state changes into the health facts and the decision.  The probe reads the
health facts on a timer, notes the verdict to the decision and feeds the
watchdog.  No lock is held across an await and no two are held at once, so what
goes wrong goes wrong between them.

What makes these parts correct: a standby needs positive proof that the display
is ours; a claim is made only without proof that it is another's; the record
that both read is not stale for longer than news takes to arrive; the reply says
what happened; the decision moves only on evidence that lasted, and back only on
evidence of recovery; an adapter is judged deaf only on failures of its own;
the verdict converges to what the adapter is; and only a dead file descriptor
restarts the daemon.

### The v2 core (`src/core`)

| part | state | operations | hard behaviour |
|---|---|---|---|
| input session, `input/session.rs`, `fleet.rs`, `identity.rs` | claimed pads, their slots and held keys, the owner, the escape latch | `poll`, `forward`, `tick`, `set_owner`, `retire`, `shutdown` | pads vanish with keys held; the owner changes in the middle of a press; more pads than players |
| keymap and presenters, `input/keymap.rs`, `presenter.rs` | latches, armed repeats, keys held | press, release, repeat, `quiesce` | a repeat racing a release; two axes that share a key |
| Guide escape, `input/escape.rs` | a queue of one | `fire`, `run_worker` | holds of several pads; a hold during an escape |
| routing and watcher, `input/routing.rs`, `watcher.rs`, `runtime.rs` | the settle window, the nudge, the overlay flag | `run`, `Settle::observed`, `asserted`, `due` | the screen is read, then the flag, then it is decided |
| screen and base layer, `baselayer.rs`, `screen.rs`, `compositor.rs` | none; gamescope's atoms are the state | `show`, `home`, `reconcile` | verify after write, while others write |
| boot client, `boot.rs` | the process it supervises, fast exits | `decide`, `start`, `adopt`, `supervise` | app and core both crash and restart; a person launches something meanwhile |
| launch scopes, `launch.rs` | systemd's units | `launch` | a process that runs although its launch failed |
| IPC, screenshot, configuration | none, or files | one task per connection | |

The input session is one thread, the watcher another, the escape worker a third,
and each IPC connection is a task; the supervisor of the boot app is one more.
They share the screen through `IntentGate`, a mutex held across the write of the
base-layer list and its verification.  Whoever wrote nudges the watcher, whose
decisions reach the input thread by a channel.

What makes these parts correct: nothing is left pressed on a target that lost its
pad or its route; a pad has one slot and a slot one pad; a Guide hold escapes once,
and no hold is lost; a reported success is one's own; the pad ends up where the
screen is and does not follow flaps; there is never a second boot app, a quit is
final under `on-failure`, and a crash is not under `always`.

### The v1 daemon (`src/daemon`), the host sidecar, the panel, the shells

The daemon has one actor per desktop service (input, Bluetooth, network, power,
Hyprland, CEC), a display-ownership cache, a service-health poller, an MQTT
client, and HTTP and MCP bridges over one IPC grammar.  The host sidecar answers
what games a PC has, suspends it, and publishes a retained status over MQTT.  The
panel is a web front end over the IPC.  The two shells are QML.  Most of these
translate one wire format into another; the input runtime, the ordering of the
sidecar's last status with its suspend, and the pollers have state worth
modelling.

## Modules

| module | models | kind |
|---|---|---|
| `Failover` | `failover.rs`: one action per observation of `Failover::record` combined with the four arms of `observe`; `SetPin`; the clock | component |
| `HysteresisSwitch` | what the decision promises, whatever it is decided from | abstract specification |
| `Action` | `action.rs`, `ownership.rs`: gates, plans, what is recorded | pure operators |
| `IpLeg` | `ip/`: plans, every partial failure of a network, the judgement | pure operators |
| `DisplayControl` | `act`, `execute` and the receive loop's fold, on a shared bus, one process per client | composition of `Action`, `IpLeg` and the record |
| `AdapterHealth` | `health.rs`, `probe`, `watchdog_feed`, `note_health`, a transmit's note, systemd's restart | composition with `Failover` (`F == INSTANCE Failover`) |
| `Volume` | `volume.rs`, the volume half of `kernel/device.rs` and of `kernel/ops.rs`, and the receiver | component |
| `InputSession` | `input/session.rs` with the fleet, the slot allocator, the keymap, the presenters and the Guide watch | component |
| `ScreenSwitch` | `baselayer.rs`: an intent's write and verification under the gate; gamescope, the windows and Steam | component, used by the next two |
| `PadRoute` | `watcher.rs`, `routing.rs`, the escape worker and the IPC's intents over `ScreenSwitch` | composition |
| `BootClient` | `boot.rs` and the outcomes of `launch.rs` over `ScreenSwitch` | composition |
| `FailoverProofs`, `AdapterHealthProofs`, `DisplayControlProofs`, `VolumeProofs`, `InputSessionProofs`, `ScreenSwitchProofs`, `PadRouteProofs`, `BootClientProofs` | theorems and lemmas about the module they name | proofs |
| `MC...` | the instances TLC checks | model checking |

An operator that stands before a definition of the same name with a suffix
(`HoldSwapped` before `Hold`, `OwnerAfterForgetting` before `OwnerAfter`) is that
definition with a plausible bug.  No specification uses it; substituted for the
real one it shows which property would catch the bug.

History variables, which the program does not have, record what a property has to
remember; no guard reads one.

### Failover

`Observe(o)` is one call of `Failover::observe`: `Record(o)` updates the signals
and `Decide` runs on the updated ones, as the code does under one lock.  The four
arms of the match are four disjuncts, `Agree`, `Start`, `Wait` and `Commit`.
Differences of times saturate (`Since`), and so does the error counter at
`MaxErrors`.  `silentRun` is a history variable: the failures since something was
last accepted or heard, counted independently of the code's window so that the
code's counting can be compared with it; `steppedBack` remembers that the wall
clock was.  Reasons, which are text, are left out.

### DisplayControl

A client's action goes through the program counters `ipLeg`, `gate`, `transmit`,
`record`, `readBack`: the awaits and locks of `act` and `execute`.  `holder` is
the environment's truth, who the bus last agreed holds the display; `owner` is
the daemon's record of it.  Other devices claim and release, the kernel queues
what they say or (`MayLose`) drops it, the loop takes an event (`Hear`) and folds
it (`Fold`) in a later step, since `note_health` may await in between.  The bus also
says what does not change hands (`Asides`): an `<Active Source>` of f.f.f.f, which
`OwnerAfter` records as it is and `Action` classifies as invalid, a power report, and
the kernel's own events of an adapter reconfigured and of messages lost.  A message of
ours that is reported refused may have landed all the same (`Transmit`).  Nothing keeps
these from overlapping: anything may reach the bus, and be folded, between a claim of
ours being accepted and its being recorded.  `claimed`, `heard`, `reached` and `packets`
are history variables.  `ServedVerbs` selects the verbs that the clients of a run send.
The warm-path decision is moved by the environment here (`BackendMoves`), freely;
`Failover` and `AdapterHealth` say when it really does.

### AdapterHealth

The probe, the receive loop and a transmit are processes, whose steps are the
ioctls and the locked sections between them.  The decision is module `Failover`'s own
`Observe`, so each note is a step of it; a pin of the operator's is left to
`Failover`.  `FdStates` and `MayTransmit` select what the environment does.  The clock stands still at `Horizon` and
the timestamps age, which keeps the state space finite under liveness: only
differences matter to `Failover`, and an age beyond the longest threshold is
like any other.  `fd` and `onBus` are the environment's: what the ioctls do,
and whether the adapter has an address.  A lost or regained address always comes
with the kernel's StateChange.  `Restart` is systemd's answer to an unfed
watchdog, and of a daemon that hangs in a probe; the restarted daemon is the one
`main` starts.

### Volume

A verb is a sequence of frames, and each step is one frame with what becomes of it:
asking for system-audio mode, requesting it, reading the state, pressing,
releasing, reading again.  No lock is held between them, and all clients transmit
from one logical address, so the receiver knows one key of ours at a time (`held`).
The receiver is the environment's: the remote and the front panel move it
(`Drifts`), it repeats a key that is not released (`Repeats`), and it may ignore
ours (`KeyActs`).  A frame may be lost, may arrive and be reported refused, or may
be answered with a reserved level (`Fates`, `AudioReads`).  The receive loop writes the
same record as the reads (`Fold`): a report that may be old, one with a reserved level,
or nothing known after a StateChange.  `mutedSince` and
`levelSince` collect the states that the receiver has been in since a client's verb
began, so that an answer can be compared with the truth of that interval rather than
of one moment; `releaseLost` says that the last release did not arrive.

### InputSession

The session runs on one thread, so a step is one wake of its loop: a poll of the
devices, a timer (`Tick`), one event of a pad, a failed stream, or a decision of the
watcher.  `plugged`, `position` and `guideDown` are the environment's truth;
`presenter` and `keyboard` are what readers downstream see.  `slot` is the fleet,
`heldKeys` the fleet's record of what each pad pressed on its presenter, and
`latch`, `armed` and `held` a pad's keymap.  A pad's event goes by the route that
the owner determines (`ShellButton`, `ShellAxis`, `AppButton`, `AppAxis`).
`Retire` is what the code does when a pad leaves for whatever reason, and
`SwitchQuiescing` what it does before the owner changes.  An event of an axis may repeat
the direction that the pad was in when the route was another, which the keymap takes for
a fresh press.  `strayed` is a history variable: the keys that are down because a repeat
pressed them when the pad's `held` had no record of it (`Repeats`).  Guide is followed per pad
(`guide`) with one latch for all of them; `escaped` remembers that a hold of the
present gesture has already escaped.

### ScreenSwitch and PadRoute

An intent goes `idle`, `queued`, `verifying`, `replied`.  `GateIsFree` is the mutex;
`WriteList` the one write; each read of the verification confirms, notices that the
window has come, finds its bound passed, or fails.  gamescope is `Publish`: some time
after a write, or a change of the windows, the gauge shows the first listed app that
has one.  Steam writes the same list.

`PadRoute` adds the watcher.  A wake takes the nudge and reads the screen (`Look`,
`LookFails`); the overlay flag is read, and the owner decided, in a later step
(`Decide`), since other threads run in between.  `pending` is the settle window and
`Ripen` its passing; `control` the channel to the input thread.  The escape is a
queue of one (`Fire`, `TakeEscape`) in front of the gate.  History: `owed`, a hold
that has not been tried; `lastLook`, what the look before found; `calm`, nothing has
moved since the last reply; `foreign`, Steam has rewritten the list since the core
last did.

### BootClient

`CoreStarts` is the reconcile at the start and the decision made from it; `CoreDies`
may come between any two steps, forgets the client's state and every intent, and
leaves list, windows and apps alone.  `Launch`, `LaunchFails` and `LaunchUnscoped`
are the outcomes of `launch.rs`; `HearExit`, `AfterExit` and `Relaunch` the loop of
`supervise`, in the code's order.  A delay is a step, and the fast-exit count decides
which delay; it saturates at `MaxExits`, the bound that stands for the code's u32.
`process` keeps how a supervised app ended until the supervisor has heard
it.  `unclaimed` marks the executions in which an app ran that the list did not yet
name and something happened to it (the core was killed, the launch was not scoped,
the claim failed): there the code has nothing to recognise the app by.  `quit` says
that, under `on-failure`, the user quit the last process.

## Runs

Passing runs:

| run | question | bounds |
|---|---|---|
| `decision` | is a pending change called for, recovery observed, a deaf adapter one that really failed in silence, and the decision a switch with hysteresis? | thresholds 1 and 2, counter width 3, clock 0..5 in both directions |
| `display` | what makes a heard holder forgotten, or a record that the display is ours go stale; is every reply honest, and a standby preceded by a claim of ours? | two clients, one other device, queue of 1, wake, standby, claim and release, lost messages, refusals that landed, any overlap |
| `display_answers` | is every action answered, and honestly over the IP leg? | one client, all verbs, telnet lines and magic packets that fail anywhere, a moving backend, fairness of the client |
| `adapter_converges` | does the verdict converge, and what restarts the daemon? | an fd that fails and hangs, queue of 1, ages up to 2, no transmit, fairness |
| `adapter_failover` | does it fail over and recover, and does its count of errors saturate? | transmits, an fd that answers, counter width 2, ages up to 2, fairness |
| `volume` | is a key ever left down, an answer untrue, a toggle a guess? | two clients, levels 0 and 1, up, mute and state, every fate of every frame, any fold in between |
| `input_session` | do slots stay distinct, is anything left pressed that nobody holds, does a gesture escape once? | three pads on two presenters: one with a stick and a d-pad, one with a button, one with Guide alone; owners shell and unknown, which routes to the app |
| `pad_route` | is an ok one's own, is a hold ever lost, does the pad follow writes at once, collapse flaps and end where the screen is? | one client, the escape, one game, four inputs of the world, fairness |
| `boot` | is there ever a second boot app, a resurrected one, or one that never comes back? | two processes, one other app, policies `always` and `on-failure`, back-off after one fast exit, where the counter saturates too, any number of crashes, fairness |

The bounds suffice for what is asked.  Two clients are what it takes for one
action to interleave with another; a plan has at most two messages; one other
device is enough to hold the display in our stead, and the gates only ask whether
a holder is us.  A queue of 1 beside the event in hand (`rx`) lets a claim and what
follows it be folded in either of the windows of an action; `display_stale_claim` has a
queue of 2.  `input_session` has one owner of each route; that
entering the overlay releases the keyboard without changing the route is in
`input_stuck_key`'s instance, and the theorems hold for any set of owners.  The clock
of `Failover` runs past every window and threshold, with room for a second
window.  A run of `TxErrorThreshold = 2` is the least the configuration admits
(`Thresholds::validate`).  Two levels are a level, its limit and a step between
them.  Three pads on two presenters leave one pad waiting for a slot that another
frees, and three pads can hold Guide while a fourth would add nothing but symmetry.
Four inputs are a client's intent, a hold, a second one while the first is served, and
something of Steam's or of the windows.  Two processes are enough for a second boot
app; nothing distinguishes a third.

Runs that find a disagreement between the code and what is written about it:

| run | what the repository says | what the code does |
|---|---|---|
| `display_stale_claim` | `cec/src/ownership.rs:105`: owned only when the last observed claim was ours | a claim of ours is recorded after its await, over a later claim already folded |
| `input_stuck_key` | `core/src/input/keymap.rs:210`: `held` is every key that the map believes is pressed | a repeat presses its key without recording it; with a stick and a d-pad pushed the same way the key is never released |
| `boot_takes_screen` | `docs/V2_DESIGN.md:320`: a relaunch is refused if anything else is on screen | the screen is read before the delay of the relaunch and not after it |

Others were met and are not kept as runs, because the model's steps show them
directly:

- Releasing a display that we do not hold makes the record forget who does
  (`state.rs:367`), although `action.rs:241` says that an ungated release has no
  harm case.
- A refused action has already run its IP leg (`device.rs:500`), although
  `src/cec/README.md:641` says that it did not act.
- A deaf flag on a quiet bus is never cleared (`failover.rs:454`), although
  `failover.rs:19` calls CEC authoritative whenever it is healthy.
- The receive loop ends for good on a poll error (`follower.rs:97`) and the watchdog
  asks only about the fd, although `main.rs:317` counts on a restart.
- A volume verb that the receiver ignored is noted as a transmit error
  (`device.rs:407`), although every frame was accepted (`failover.rs:204`).
- A probe that read the addressing before the kernel's StateChange and records it
  after the loop has marked it stale (`device.rs:340`) makes the health say healthy for
  an instant that `follower.rs:181` means to exclude; `VerdictConverges` shows that
  it heals.

When the wall clock is stepped back within a run of failures, a message heard between
them may no longer count as heard in the window, which is why
`DeafOnlyAfterSilentRun` excepts executions with `steppedBack`.

Deadlock checking is on except where the system may stop: an input session that was
shut down, a pad route whose inputs are used up, and a boot client whose policy is done.

## Fairness

`DisplayControl`: weak fairness of each client's started action.  It is a task of a
running executor, every transmit, reply and connection has a timeout in the code, and
locks are held for no await.  Starting an action is not fair, nor is anything other
devices or the decision do, nor the receive loop, which a poll error ends.

`AdapterHealth`: weak fairness of the probe's and of the receive loop's steps
(an ioctl that hangs disables them), of the end of a transmit, of systemd's
restart, and of the passing of time.  The adapter, the bus and the clients owe
nothing; where a property needs an adapter that settles, or one
that is heard from again and again, the property says so.

`PadRoute`: weak fairness of the watcher, the escape thread, each client's intent
once asked, the settle window, the input thread, and gamescope.  A verification is
bounded in time and a failed read ends it, so the gate is always given back.  The
world's inputs are bounded, so that things stop moving, and none of them is fair.

`BootClient`: weak fairness of the supervisor's steps (a process's exit is heard, a
delay ends, a launch that cannot succeed fails within its bound) and strong fairness
of the launch: one that is tried again and again is some day confirmed.  Without that
assumption an app that never starts satisfies the code.  Core, apps, user and screen
owe nothing.

## Proofs

Every theorem holds for all values of the constants that satisfy the named
assumptions of the modules.

`FailoverProofs`:

- `TypeCorrect`: the type invariant.  It is inductive; one lemma per part of
  `Observe` (`RecordTyped`, `DesiredTyped`, `DecideTyped`) and one step per action.
- `PendingCorrect`: inductive with types alone, because `Decide` ends in a state
  in which the pending change is the desired one (`ObserveDecides`).
- `NoPhantomCorrect`: a box without an IP leg never announces, awaits or pins one,
  with the invariant that neither the committed backend, the pin nor the pending
  change is the IP leg's (`OnlyCecCorrect`).  Only the proof says this; every run
  has an IP leg.
- `RecoveryCorrect`: an action property, from the pending invariant.
- `DeafCorrect`: the strengthening relates the code's
  counter and window to the history: until the clock is stepped back the counter never
  exceeds the silent run
  unless something was heard since the window began, and then it was heard in the
  window (`RecordKeepsEvidence`).  Without it the property is not inductive: a
  state with a long counted run and a short silent one would be a counterexample.
- `ImplementsSwitch`: initial states map to initial states of
  `HysteresisSwitch`, each action to one of its steps or a stutter.

`AdapterHealthProofs`, for any thresholds, queue bound and behaviour of the fd, with
or without transmits:

- `TypeCorrect`: the type invariant.  `rxRead` and `probeRead` hold an addressing and
  later a verdict; the strengthening (`TasksType`) says which of the two is in hand
  where it is recorded.
- `RestartsCorrect`: an action property, from `DeadFdIsSeen`: a failed fd, a dead
  answer that an unfinished probe has in hand and an unfed watchdog each mean that the
  fd has failed since the daemon was started.
- `DecisionIsSound`: what `FailoverProofs` shows of the decision alone holds in the
  daemon that feeds it, with stale verdicts, restarts and ageing timestamps.  The
  lemmas about one observation are taken from `FailoverProofs` by `INSTANCE`
  (`SameObservation`, `ObservedDecision`); what is new is that ageing lets no
  timestamp overtake another (`AgedDecision`) and that a restart begins afresh
  (`RestartDecision`).
- `RecoveryIsEarned`: CEC becomes active again on a healthy verdict or by a restart.

`DisplayControlProofs`, for any number of clients and devices, any queue
bound, any configuration of the IP leg, with overlaps and losses of every kind:

- `TypeCorrect`: the type invariant, one lemma per action.  The count of accepted
  messages stays within the plan only with `Progress`: a client has had fewer
  messages accepted than it has come to, and none before its gate.
- `StandbyCorrect`: a standby is put on the bus only after an `<Active Source>`
  of ours was accepted.  The strengthening says where each part of the proof is
  on its way: a claim about to be recorded has been accepted, an event still to be
  folded never names us, and a standby past its gate passed it with a claim
  (`ClaimsBehind`, on top of types and `Progress`).
- `OutcomesAreHonest`, from `Accounted`: every client's answer agrees with what it has
  put on the bus and with what the IP leg delivered (`HonestOf`), and a client past its
  gate is within the plan of its verb (`OnPlan`).  The judgement of the IP leg rests on
  lemmas about its plans and reports (`LinesTyped`, `ReportsTyped`, `LegDoneIsHonest`):
  an action that it did alone delivered each line and packet of its plan.
- `OursGoesStale`, an action property: each step that makes the record "ours" wrong is
  one of the two kinds that it names, because an event that takes the display from us is
  news until it is folded (`DeliveryIsNews`, `HearingKeepsNews`), and folding news
  leaves no "ours" behind (`EventsNameOthers`).  The run `display_stale_claim` shows that the second kind
  does occur.
- `HeardHolderStays`, an action property, from the same lemmas: a claim once heard is
  forgotten only in `Record`.

`VolumeProofs`, for any number of clients and any levels, every fate of every frame
allowed:

- `TypeCorrect`: the type invariant; a reserved level is never recorded.
- `KeysComeUp`: inductive with types: each press is followed by its release, and while
  another client stands between the two the property does not ask.
- `AnswersAreTrue`, from `AllAttested`: while a verb runs, the receiver's present state
  is among those collected since it began (`Present`), so is each reading that it took
  (`WellFounded`), and what its answer will rest on (`SuccessSeen`, `ReportSeen`).
- `TogglesAreInformed`: an action property, from the same invariant.

`InputSessionProofs`, for any number of pads and presenters and any assignment of
controls:

- `TypeCorrect`: the type invariant, with the axes whose repeat is armed known to hold a
  key, without which a repeat could press none.
- `SlotsDistinct`, from `SlotInv`: every poll hands out free slots, one each
  (`Admissions`), and only slots that no remaining pad has.
- `LatchHeld`, from `GuideInv`: a latch implies a claimed pad whose Guide is followed.
  It needs that an unclaimed pad's watch is up, which every retirement restores.
- `EscapeOnce`, from the same `GuideInv`: the latch and the history rise and fall
  together (`LatchIsEscape`).
- `PresenterRests`, from `PresenterInv`: what is down on a presenter was recorded by
  the pad that has its slot (`Driven`), so that retiring the pad or leaving the route
  releases it all.
- `KeyboardRests`, from `KeymapInv`: a key of the keyboard is in some pad's `held` or
  was pressed astray by a repeat (`KeyboardHeld`), a held key is a latched axis's or a
  pressed button's (`HeldOf`), and on the app's route all of a map is at rest.
- `DownHeld`, from `PresenterInv`, `KeymapInv` and `Backed`: a control that a presenter
  shows as down is down at the pad that drives it, and a key that did not stray is driven
  by a claimed pad.  `input_stuck_key` shows the keys that do stray.

`ScreenSwitchProofs` has the lemmas that the next two share: each step of an intent,
and of the world, keeps the screen's types.

`PadRouteProofs`, for any number of apps and clients:

- `TypeCorrect`: an unreadable screen is never an owner.
- `EscapeKept`: inductive with the types; only a try settles what is owed.
- `FollowsTheWrite`, from `CalmInv`: while nothing moves and no nudge is pending, either
  the watcher is about to decide on what is on screen, or it has.
- `Collapses`: what is pending is what the last look found (`PendingIsLastLook`).
- `OwnOk`, from `GateInv`: under the gate the list is that of the one intent that is verifying, until
  Steam rewrites it.

`BootClientProofs`, for any number of processes and apps, any limits and any policies:

- `TypeCorrect`: the type invariant; the fast-exit counter saturates at its width, wherever
  that is at or above the two limits that it is compared with.
- `OneCorrect`, from `OneInv`: unless `unclaimed`, an app that lives is named by the
  list, or is about to be by the claim that is on its way; one that is shown or watched
  is the only one; and none lives when a launch is to come.  Since a core that starts
  launches only on an empty list, its restarts cannot lead to a second app.
- `QuitCorrect`, from `QuitInv`: after a quit, every way back to `launch` is closed by
  the exit that was heard, by `unknown` for an adopted app, or by the list at a start.

Each invariant and each action property of the passing runs is a theorem.  What is only
model-checked is what holds under fairness, which the proof system does not treat:
`EveryActionIsAnswered` of `DisplayControl`,
`VerdictConverges`, `FailsOver` and `RecoversWhenHeard` of `AdapterHealth`,
`PadFollowsScreen` and `EscapeIsServed` of `PadRoute`, and `ComesBack` of `BootClient`.

## Not modelled, and the plan

Left out for good: wording, parsing and logging; packet bytes; page rendering;
the QML; packaging; the catalogues and readers of the v1 daemon, which are one
request and one reply.

Left out of the modelled parts: health facts 3 and 4, which enter no verdict; the
published report and its timestamps; the open sequence's partial failures and the
topology read there; in the input session, emits that the kernel refuses, which are
counted and survived, and events that it drops (`SYN_DROPPED`); an operator's
launch of the boot app over IPC while the boot client supervises it; screenshots.

Next, in this order:

1. `AdapterOpen`: the open sequence, its failures and retries, and the topology read
   at open that the plans keep using.
2. `HostStatus` (`host/src/mqtt.rs`): retained status, last will and suspend.
3. The v1 daemon's input runtime, beside the session that succeeds it, and its
   confirm-token bridge (`bridge_core.rs`).

Theorems to add: an abstract specification of what the boot client promises of the app
that it keeps (one at a time, a quit is final) that `BootClient` implements.  That `AdapterHealth`
implements `Failover` outright is not to be had: its timestamps age until they are as
old as the horizon and no further, so that no clock fits them; `DecisionIsSound` says
what carries over.
