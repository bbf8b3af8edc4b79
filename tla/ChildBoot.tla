----------------------------- MODULE ChildBoot -----------------------------
(***************************************************************************)
(* A child process from its spawn to its first announce                    *)
(* (crates/tabit-wire/client.rs, ChildSpec::spawn): the pump reads the     *)
(* child's lines, its report arms the lane, its first stamped frame        *)
(* resolves the boot, and the spawner waits for that under one bound.  The *)
(* process may say anything, in any order, or nothing.                     *)
(***************************************************************************)
EXTENDS Naturals, Sequences, FiniteSets

CONSTANT MaxLines  \* lines the process writes

\* What a line of its output is: no frame at all, a report of this build's or of
\* another version, another control frame, a frame with and without a stamp.
Lines == {"junk", "report", "other version", "control", "stamped", "unstamped"}

VARIABLES
  child,     \* the process: running, exited, killed
  written,   \* the lines it wrote
  read,      \* how many of them the pump read
  reported,  \* what the pump's first accepted report said
  crossing,  \* a stamped frame resolved what it resolves and has yet to cross
  lane,      \* the pump's lane: none, armed, retracted
  boot,      \* the boot's channel: pending, named, refused, dropped
  spawner,   \* waiting, killing, failed, serving
  crossed,   \* stamped frames the node took in
  folded     \* frames the drive fold was handed

bootVars == <<child, written, read, reported, crossing, lane, boot, spawner, crossed, folded>>
pumpVars == <<read, reported, crossing, lane, boot, crossed, folded>>

BootInit ==
  /\ child = "running" /\ written = <<>> /\ read = 0 /\ reported = "nothing"
  /\ lane = "none" /\ boot = "pending" /\ spawner = "waiting"
  /\ crossing = FALSE /\ crossed = 0 /\ folded = 0

Write(line) ==
  /\ child = "running" /\ Len(written) < MaxLines
  /\ written' = Append(written, line)
  /\ UNCHANGED <<child, pumpVars, spawner>>

ChildExits ==
  /\ child = "running" /\ child' = "exited"
  /\ UNCHANGED <<written, pumpVars, spawner>>

-----------------------------------------------------------------------------
(* The pump                                                                *)

Resolve(outcome) == boot' = IF boot = "pending" THEN outcome ELSE boot

\* The line ahead; the pump takes it whatever it is.
Takes(line) == /\ read < Len(written) /\ lane # "retracted" /\ ~crossing
               /\ written[read + 1] = line /\ read' = read + 1
               /\ UNCHANGED <<child, written, spawner>>

\* A line that is no frame, and a control frame behind the report, are dropped.
PumpDrops ==
  /\ \/ Takes("junk")
     \/ reported # "nothing" /\ \E line \in {"report", "other version", "control"} : Takes(line)
  /\ UNCHANGED <<reported, crossing, lane, boot, crossed, folded>>

\* The report arms the lane; another version's refuses the boot instead.
PumpReport ==
  /\ reported = "nothing"
  /\ \/ Takes("report") /\ reported' = "report" /\ lane' = "armed" /\ UNCHANGED boot
     \/ Takes("other version") /\ reported' = "other version" /\ Resolve("refused")
        /\ UNCHANGED lane
  /\ UNCHANGED <<crossing, crossed, folded>>

\* A control frame where the report belongs refuses the boot, and is no report.
PumpControl ==
  /\ reported = "nothing" /\ Takes("control") /\ Resolve("refused")
  /\ UNCHANGED <<reported, crossing, lane, crossed, folded>>

\* An event frame: a stamped one resolves the boot once there is a report, then
\* crosses once there is a lane, and the fold gets every one.
PumpStamped ==
  /\ Takes("stamped") /\ crossing' = TRUE
  /\ IF reported # "nothing" THEN Resolve("named") ELSE UNCHANGED boot
  /\ UNCHANGED <<reported, lane, crossed, folded>>
PumpCrosses ==
  /\ crossing /\ crossing' = FALSE
  /\ crossed' = IF lane = "armed" THEN crossed + 1 ELSE crossed
  /\ folded' = folded + 1
  /\ UNCHANGED <<child, written, read, reported, lane, boot, spawner>>
PumpUnstamped ==
  /\ Takes("unstamped") /\ folded' = folded + 1
  /\ UNCHANGED <<reported, crossing, lane, boot, crossed>>

\* The pipe's end: the lane retracts, and an unresolved boot channel drops.
PumpEnds ==
  /\ child # "running" /\ read = Len(written) /\ ~crossing /\ lane # "retracted"
  /\ lane' = "retracted" /\ Resolve("dropped")
  /\ UNCHANGED <<child, written, read, reported, crossing, spawner, crossed, folded>>

Pump == PumpDrops \/ PumpReport \/ PumpControl \/ PumpStamped \/ PumpCrosses \/ PumpUnstamped \/ PumpEnds

-----------------------------------------------------------------------------
(* The spawner                                                             *)

Booted ==
  /\ spawner = "waiting" /\ boot = "named" /\ spawner' = "serving"
  /\ UNCHANGED <<child, written, pumpVars>>

\* A refused boot, a pipe that ended, or BOOT_TIMEOUT: the child is killed.
GiveUp ==
  /\ spawner = "waiting" /\ boot \in {"refused", "dropped"} /\ spawner' = "killing"
  /\ UNCHANGED <<child, written, pumpVars>>
BootTimeout ==
  /\ spawner = "waiting" /\ spawner' = "killing"
  /\ UNCHANGED <<child, written, pumpVars>>

\* kill_now: the tree is killed and reaped before the spawn fails.
KillNow ==
  /\ spawner = "killing" /\ spawner' = "failed"
  /\ child' = IF child = "running" THEN "killed" ELSE child
  /\ UNCHANGED <<written, pumpVars>>

Spawner == Booted \/ GiveUp \/ BootTimeout \/ KillNow

BootNext == Pump \/ Spawner \/ ChildExits \/ \E line \in Lines : Write(line)

\* Pump and spawner run on, and the bound passes; the process owes nothing.
BootFairness == WF_bootVars(Pump) /\ WF_bootVars(Spawner)
BootSpec == BootInit /\ [][BootNext]_bootVars /\ BootFairness

-----------------------------------------------------------------------------
(* Properties                                                              *)

\* Frames of a child that reported another version never cross the net, however
\* long its kill takes.
MismatchNeverCrosses == reported = "other version" => crossed = 0

\* A spawn that succeeded has its lane mounted, so that nothing the session said
\* from its announce on missed the net, and only a frame still in the pump's
\* hands can be ahead of it.
ServingIsMounted ==
  spawner = "serving" => reported = "report" /\ lane # "none" /\ (crossing \/ crossed > 0)

\* Whatever a child says or leaves unsaid, the spawn ends: it serves, or it fails
\* with the process gone.
SpawnEnds == <>(spawner = "serving" \/ (spawner = "failed" /\ child # "running"))

\* NOT true of the code: client.rs: a refused child's frames never cross; the window between the
\* refusal and the kill drains instead of intakes.
RefusedNeverCrosses == boot = "refused" => crossed = 0
=============================================================================
