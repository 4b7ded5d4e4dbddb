------------------------------ MODULE BootClient ------------------------------
(***************************************************************************)
(* The boot client (src/core/src/boot.rs): a core that starts on a fresh   *)
(* compositor launches one app and shows it, then relaunches it when it    *)
(* dies; a core that starts under a live session leaves the screen alone,  *)
(* and adopts the app if that is what is on screen.  Apps live in scopes   *)
(* of their own (launch.rs), so they outlive the core, which keeps nothing *)
(* on disk.  An IPC client shares the screen with it through the gate.     *)
(*                                                                         *)
(* A configured boot app is assumed.  Delays are steps: the fast-exit      *)
(* count decides between a short and a long one.                           *)
(***************************************************************************)
EXTENDS ScreenSwitch

CONSTANTS
  BootApp,        \* [session].boot_app
  Policies,       \* the values of [session].boot_relaunch to check
  Processes,      \* a pool of processes of the boot app
  FastExitLimit,  \* [session].boot_fast_exit_limit
  GiveUpAfter,    \* [session].boot_give_up_after, 0 for never
  MaxExits,       \* bound: stands for u32::MAX, which no limit exceeds
  NoProcess

ASSUME BootAssumption ==
  /\ BootApp \in Apps
  /\ Writers = {"boot", "client"}
  /\ Policies \subseteq {"always", "on-failure", "never"}
  /\ MaxExits \in Nat /\ {FastExitLimit, GiveUpAfter} \subseteq 0..MaxExits
  /\ NoProcess \notin Processes

VARIABLES
  core,       \* is the core running?
  policy,     \* RestartPolicy.relaunch
  process,    \* the boot app's processes
  boot,       \* the boot client's task
  fastExits,  \* FastExits
  unclaimed,  \* history: something happened to the app before the list named it
  quit        \* history: under on-failure the user quit the app, the only one

bootVars == <<core, policy, process, boot, fastExits, unclaimed, quit>>
vars == <<screenVars, bootVars>>

Alive == {p \in Processes : process[p] = "alive"}

Off == [pc |-> "off", on |-> NoProcess, adopted |-> FALSE, exit |-> "none",
        again |-> FALSE]

Init ==
  /\ ScreenInit
  /\ core = "down" /\ policy \in Policies
  /\ process = [p \in Processes |-> "none"]
  /\ boot = Off /\ fastExits = 0
  /\ unclaimed = FALSE /\ quit = FALSE

-----------------------------------------------------------------------------
DecisionFromScreen(readable) ==
  IF ~readable \/ screen \notin {None, BootApp} THEN "leave"
  ELSE IF screen = BootApp THEN "adopt" ELSE "launch"

(***************************************************************************)
(* boot::decide, from what the reconcile read at the start (main.rs).      *)
(***************************************************************************)
Decision(readable) ==
  IF ~readable THEN "leave"
  ELSE IF screen = BootApp THEN "adopt"
  ELSE IF screen # None \/ baseLayer # <<>> THEN "leave" ELSE "launch"

CoreStarts ==
  /\ core = "down"
  /\ core' = "up"
  /\ \E readable \in BOOLEAN : boot' = [Off EXCEPT !.pc = Decision(readable)]
  /\ UNCHANGED <<screenVars, policy, process, fastExits, unclaimed, quit>>

\* The core dies between any two steps; its writes and its apps stay.
CoreDies ==
  /\ core = "up"
  /\ core' = "down" /\ boot' = Off /\ fastExits' = 0
  /\ intent' = [w \in Writers |-> Idle]
  /\ process' = [p \in Processes |-> IF p \in Alive THEN "alive" ELSE "none"]
  /\ unclaimed' = (unclaimed \/ (Alive # {} /\ baseLayer = <<>>))
  /\ UNCHANGED <<baseLayer, mapped, screen, policy, quit>>

-----------------------------------------------------------------------------
(***************************************************************************)
(* boot::start and the launch of launch.rs.                                *)
(***************************************************************************)
\* boot::adopt: the window's pid is in a scope to watch, or nothing is watched.
Adopt ==
  /\ boot.pc = "adopt"
  /\ \/ /\ BootApp \in mapped
        /\ \E p \in Alive : boot' = [boot EXCEPT !.pc = "watching", !.on = p,
                                                 !.adopted = TRUE]
     \/ boot' = [boot EXCEPT !.pc = "leave"]
  /\ UNCHANGED <<screenVars, core, policy, process, fastExits, unclaimed, quit>>

\* A process id is used again once its process is dead.
Fresh(p) == p \notin Alive

\* Confirmed alive in its scope: show it.
Launch(p) ==
  /\ boot.pc = "launch" /\ Fresh(p)
  /\ process' = [process EXCEPT ![p] = "alive"]
  /\ boot' = [boot EXCEPT !.pc = "showing", !.on = p, !.adopted = FALSE]
  /\ Ask("boot", BootApp)
  /\ UNCHANGED <<core, policy, fastExits, unclaimed, quit>>

RecordAdding(fast) == IF fast THEN fastExits + 1 ELSE 0

\* FastExits::record: the count saturates.
Record(fast) ==
  IF ~fast THEN 0 ELSE IF fastExits < MaxExits THEN fastExits + 1 ELSE MaxExits

LaunchNotRetried ==
  /\ boot' = [Off EXCEPT !.pc = "leave"]
  /\ fastExits' = 0

\* Unconfirmed.  The first launch is not retried; a relaunch is, as a fast exit.
LaunchGivenUp ==
  IF boot.again
  THEN /\ boot' = [boot EXCEPT !.pc = "exited", !.exit = "failed"]
       /\ fastExits' = Record(TRUE)
  ELSE boot' = [Off EXCEPT !.pc = "leave"] /\ fastExits' = 0

\* ExitedImmediately, or no spawn at all.
LaunchFails ==
  /\ boot.pc = "launch"
  /\ LaunchGivenUp
  /\ UNCHANGED <<screenVars, core, policy, process, unclaimed, quit>>

\* NotScoped: the process runs, outside any scope that names it.
LaunchUnscoped(p) ==
  /\ boot.pc = "launch" /\ Fresh(p)
  /\ process' = [process EXCEPT ![p] = "alive"]
  /\ unclaimed' = TRUE
  /\ LaunchGivenUp
  /\ UNCHANGED <<screenVars, core, policy, quit>>

\* The reply changes what is logged, never what is supervised.
ShowReplies ==
  /\ boot.pc = "showing"
  /\ Collect("boot")
  /\ boot' = [boot EXCEPT !.pc = "watching"]
  /\ UNCHANGED <<core, policy, process, fastExits, unclaimed, quit>>

-----------------------------------------------------------------------------
(***************************************************************************)
(* boot::supervise.                                                        *)
(***************************************************************************)
ExitGuessed == IF boot.adopted THEN "failed" ELSE process[boot.on]

\* Supervised::wait.  The status of a process that another core forked is lost.
ExitKnown == IF boot.adopted THEN "unknown" ELSE process[boot.on]

HearExit ==
  /\ boot.pc = "watching" /\ boot.on \notin Alive
  /\ boot' = [boot EXCEPT !.pc = "exited", !.exit = ExitKnown]
  /\ process' = [process EXCEPT ![boot.on] = "none"]
  /\ \E fast \in BOOLEAN : fastExits' = Record(fast)
  /\ UNCHANGED <<screenVars, core, policy, unclaimed, quit>>

\* boot::after_exit, in its order.
NextAction(seen) ==
  IF seen \notin {None, BootApp} THEN "yielded"
  ELSE IF \/ policy = "never"
          \/ policy = "on-failure" /\ boot.exit \in {"clean", "unknown"}
          \/ GiveUpAfter > 0 /\ fastExits >= GiveUpAfter
       THEN "stopped"
       ELSE IF fastExits >= FastExitLimit THEN "backing off" ELSE "pausing"

AfterExit ==
  /\ boot.pc = "exited"
  /\ \E seen \in {screen, Unreadable} :
       /\ boot' = [Off EXCEPT !.pc = NextAction(seen)]
       /\ fastExits' = IF NextAction(seen) \in {"yielded", "stopped"} THEN 0
                                                                     ELSE fastExits
  /\ UNCHANGED <<screenVars, core, policy, process, unclaimed, quit>>

\* The delay is over.  The screen is not read again.
Relaunch ==
  /\ boot.pc \in {"pausing", "backing off"}
  /\ boot' = [Off EXCEPT !.pc = "launch", !.again = TRUE]
  /\ UNCHANGED <<screenVars, core, policy, process, fastExits, unclaimed, quit>>

-----------------------------------------------------------------------------
(***************************************************************************)
(* Everyone else: the IPC client, the user and the windows.                *)
(***************************************************************************)
ClientAsks ==
  /\ core = "up"
  /\ \E id \in Ids \ {BootApp} : Ask("client", id)
  /\ UNCHANGED bootVars

ClientReply == Collect("client") /\ UNCHANGED bootVars

IntentWorks ==
  /\ \E w \in Writers : IntentStep(w)
  /\ unclaimed' = (unclaimed \/ (intent["boot"].pc = "queued"
                                 /\ intent'["boot"].pc = "replied"
                                 /\ baseLayer = <<>>))
  /\ UNCHANGED <<core, policy, process, boot, fastExits, quit>>

Published == Publish /\ UNCHANGED bootVars

\* An app quits or crashes, and takes its window along if it was the last one.
AppExits(p, how) ==
  /\ p \in Alive
  /\ process' = [process EXCEPT ![p] = IF p = boot.on THEN how ELSE "none"]
  /\ mapped' = IF Alive = {p} THEN mapped \ {BootApp} ELSE mapped
  /\ unclaimed' = (unclaimed \/ baseLayer = <<>>)
  /\ quit' = (quit \/ (policy = "on-failure" /\ how = "clean" /\ Alive = {p}))
  /\ UNCHANGED <<baseLayer, screen, intent, core, policy, boot, fastExits>>

Windows ==
  /\ \E id \in Ids : \/ (id = BootApp => Alive # {}) /\ MapWindow(id)
                     \/ UnmapWindow(id)
  /\ UNCHANGED bootVars

Steam == (\E id \in Apps \ {BootApp} : SteamWrites(id)) /\ UNCHANGED bootVars

BootStep ==
  \/ Adopt
  \/ \E p \in Processes : Launch(p)
  \/ LaunchFails
  \/ \E p \in Processes : LaunchUnscoped(p)
  \/ ShowReplies
  \/ HearExit
  \/ AfterExit
  \/ Relaunch

Next ==
  \/ CoreStarts
  \/ CoreDies
  \/ BootStep
  \/ ClientAsks
  \/ ClientReply
  \/ IntentWorks
  \/ Published
  \/ \E p \in Processes, how \in {"clean", "failed"} : AppExits(p, how)
  \/ Windows
  \/ Steam

Spec == Init /\ [][Next]_vars

\* The supervisor's thread runs and its delays end; a launch that is tried again
\* and again is some day confirmed.
FairSpec ==
  /\ Spec
  /\ WF_vars(HearExit) /\ WF_vars(AfterExit) /\ WF_vars(Relaunch)
  /\ WF_vars(LaunchFails)
  /\ SF_vars(\E p \in Processes : Launch(p))

-----------------------------------------------------------------------------
BootStates ==
  [pc: {"off", "leave", "adopt", "launch", "showing", "watching", "exited",
        "pausing", "backing off", "yielded", "stopped"},
   on: Processes \cup {NoProcess}, adopted: BOOLEAN,
   exit: {"none", "clean", "failed", "unknown"}, again: BOOLEAN]

BootTypeOK ==
  /\ core \in {"up", "down"} /\ policy \in Policies
  /\ process \in [Processes -> {"none", "alive", "clean", "failed"}]
  /\ boot \in BootStates
  /\ boot.pc \in {"showing", "watching"} => boot.on \in Processes
  /\ fastExits \in 0..MaxExits
  /\ unclaimed \in BOOLEAN /\ quit \in BOOLEAN

TypeOK == ScreenTypeOK /\ BootTypeOK

\* A core that restarts, however often, never starts a second boot app beside one
\* that runs, once a launch is confirmed and its claim has reached the list.
OneBootApp == ~unclaimed => \A p, q \in Alive : p = q

\* Under `on-failure` an app that the user quit is not resurrected, not by the
\* supervisor that heard the exit, nor by a core that adopted it, nor by a restart.
\* `unclaimed` excepts an app that the list never came to name: one spawned outside
\* its scope, one whose claim could not be written, or one that ended before its claim
\* was.  The next core finds no claim for it and launches the app again.
QuitStaysQuit == (policy = "on-failure" /\ quit /\ ~unclaimed) => Alive = {}

\* Under `always` a supervised app that died comes back, however many launches fail
\* on the way, unless something else is found on screen or the core goes down.
ComesBack ==
  (policy = "always" /\ boot.pc = "watching" /\ Alive = {}) ~>
    (Alive # {} \/ boot.pc \in {"off", "yielded"})

\* A relaunch takes the screen from nobody: when its delay is over, nothing but the
\* boot app is on screen.
RelaunchTakesNothing ==
  [][(boot.pc \in {"pausing", "backing off"} /\ boot'.pc = "launch") =>
        screen \in {None, BootApp}]_vars
=============================================================================
