-------------------------------- MODULE IpLeg --------------------------------
(***************************************************************************)
(* The IP leg of an action: Wake-on-LAN packets for a television at mains  *)
(* standby and telnet lines to the receiver (src/cec/src/ip/mod.rs and     *)
(* ip/avr.rs).  Pure operators over the configuration; the network is what *)
(* IpReports lets it do with a plan.                                       *)
(***************************************************************************)
EXTENDS Integers, Sequences

CONSTANTS
  AvrConfigured,  \* is [avr] in cec.toml?
  TvWol,          \* is [tv] in cec.toml?
  MainPower,      \* [avr].main_power
  Zone2Off,       \* [avr].zone2_off
  AvrInput        \* is [avr].input set?

ASSUME ConfigAssumption ==
  {AvrConfigured, TvWol, MainPower, Zone2Off, AvrInput} \subseteq BOOLEAN

IpConfigured == AvrConfigured \/ TvWol

WolPacketRepeats == 2

\* Backend::ip_role: what the leg is while a backend is authoritative.
IpRole(backend) == IF backend = "ip" THEN "authority" ELSE "complement"

OptionalLine(condition, line) == IF condition THEN <<line>> ELSE <<>>

TelnetLines == {"PWON", "SI", "Z2OFF", "PWSTANDBY"}

\* Avr::wake_commands
WakeCommands(role) ==
  OptionalLine(MainPower \/ role = "authority", "PWON")
    \o OptionalLine(AvrInput, "SI")

\* Avr::standby_commands; the role does not matter.
StandbyCommands ==
  OptionalLine(Zone2Off, "Z2OFF") \o OptionalLine(MainPower, "PWSTANDBY")

\* plan_for: the telnet lines, and whether magic packets are sent.
PlannedLines(verb, role) ==
  CASE ~AvrConfigured     -> <<>>
    [] verb = "wake"      -> WakeCommands(role)
    [] verb = "standby"   -> StandbyCommands
    [] OTHER              -> <<>>

PlansWol(verb) == verb = "wake" /\ TvWol

(* ip::execute: every report the network can make of a plan.  The magic    *)
(* packets stop at the first that fails; the telnet lines follow whatever  *)
(* became of them.  A connection that fails may have delivered any prefix  *)
(* of the lines, of which the report says nothing: "reached" is what the   *)
(* receiver got, "commands" what the report says.                          *)
IpReports(verb, role) ==
  LET lines == PlannedLines(verb, role)
      wols  == IF PlansWol(verb) THEN 0..WolPacketRepeats ELSE {0}
      wolFails(n) == PlansWol(verb) /\ n < WolPacketRepeats
  IN  {[wolPackets |-> n, commands |-> lines, reached |-> lines,
        ok |-> ~wolFails(n)] : n \in wols}
      \cup
      {[wolPackets |-> n, commands |-> <<>>, reached |-> SubSeq(lines, 1, k),
        ok |-> FALSE] : n \in wols, k \in IF lines = <<>> THEN {}
                                          ELSE 0..Len(lines)}

Attempted(report) ==
  report.wolPackets > 0 \/ report.commands # <<>> \/ ~report.ok

\* standby_shortfall, on the authority path.
StandbyShortfall == ~(AvrConfigured /\ MainPower)

JudgeByAttempt(verb, report) ==
  IF /\ Attempted(report)
     /\ verb = "standby" => ~StandbyShortfall
  THEN "done" ELSE "failed"

\* judge: the outcome of an action the IP leg carries alone.
Judge(verb, report) ==
  IF /\ report.ok /\ Attempted(report)
     /\ verb = "standby" => ~StandbyShortfall
  THEN "done" ELSE "failed"
=============================================================================
