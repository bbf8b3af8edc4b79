--------------------------- MODULE ExtensionLane ---------------------------
(***************************************************************************)
(* The extension supervisor (tabit-ext supervisor.rs): per extension a     *)
(* supervision task, a reader of its stdout, the lane both share with the  *)
(* callers, and the sweep that both run when the extension ends.  Callers  *)
(* register, check and send while that happens.                            *)
(***************************************************************************)
EXTENDS Naturals, FiniteSets

CONSTANTS Exts, Items, Owner,  \* Owner: item -> its extension
          Asking,               \* the extensions that make service requests
          Faulty                \* those that may exit, break the contract or fail to spawn

ASSUME LaneAssumption == Owner \in [Items -> Exts] /\ Faulty \subseteq Exts /\ Asking \subseteq Exts

VARIABLES
  process,  \* "running", "exited", "killed"
  stdout,   \* "open" or "closed"; a descendant may keep it open behind the exit
  reader,   \* "reading", "closing", "flagged", "over"
  verdict,  \* what the reader sent of the handshake: "none", "good", "bad", "failed"
  death,    \* the reader's death signal is there
  task,     \* "booting", "mounting", "alive", "refusing", "reaping", "dying", "sweeping", "over"
  status,   \* "starting", "alive", "dead"
  dead,     \* the lane's flag
  minted,   \* the containment token: a live id was registered again
  subs,     \* the extensions whose watch list is subscribed
  service,  \* the extensions with a held service request
  item,     \* "idle", "held", "attached", "waiting", "done"
  result,   \* "none", "answered", "orphaned", "refused", "cancelled"
  holds, contexts,  \* the node's entries and the lane's capabilities, by item
  closing,  \* the host shuts down
  guilty    \* the extensions that broke their contract or kept silent

laneVars == <<process, stdout, reader, verdict, death, task, status, dead, minted, subs, service,
              item, result, holds, contexts, closing, guilty>>
guestVars == <<process, stdout>>
itemVars == <<item, result, holds, contexts>>
taskVars == <<task, status, subs, closing>>

Each(v) == [e \in Exts |-> v]
\* The others have booted when the faulty ones are started.
Booted(v, w) == [e \in Exts |-> IF e \in Faulty THEN w ELSE v]
LaneInit ==
  /\ process = Each("running") /\ stdout = Each("open") /\ reader = Each("reading")
  /\ verdict = Booted("good", "none") /\ task = Booted("alive", "booting")
  /\ status = Booted("alive", "starting") /\ subs = Exts \ Faulty
  /\ death = Each(FALSE) /\ dead = Each(FALSE) /\ minted = Each(FALSE) /\ service = {}
  /\ item = [c \in Items |-> "idle"] /\ result = [c \in Items |-> "none"]
  /\ holds = {} /\ contexts = {} /\ closing = FALSE /\ guilty = {}

Own(e) == {c \in Items : Owner[c] = e}

-----------------------------------------------------------------------------
\* The process (external): it exits, with or without a descendant on its stdout.
GuestExits(e) ==
  /\ process[e] = "running" /\ process' = [process EXCEPT ![e] = "exited"]
  /\ stdout' \in {stdout, [stdout EXCEPT ![e] = "closed"]}
  /\ UNCHANGED <<reader, verdict, death, dead, minted, service, guilty, taskVars, itemVars>>
HolderExits(e) ==
  /\ process[e] # "running" /\ stdout[e] = "open" /\ stdout' = [stdout EXCEPT ![e] = "closed"]
  /\ UNCHANGED <<process, reader, verdict, death, dead, minted, service, guilty, taskVars, itemVars>>

-----------------------------------------------------------------------------
\* The reader.
ReadReport(e, good) ==
  /\ reader[e] = "reading" /\ stdout[e] = "open"
  /\ verdict[e] = "none" /\ verdict' = [verdict EXCEPT ![e] = IF good THEN "good" ELSE "bad"]
  /\ guilty' = IF good THEN guilty ELSE guilty \cup {e}
  /\ UNCHANGED <<guestVars, reader, death, dead, minted, service, taskVars, itemVars>>
\* A tool or hook result; for an id that is gone it is dropped.
ReadResult(e, c) ==
  /\ reader[e] = "reading" /\ stdout[e] = "open" /\ Owner[c] = e /\ item[c] = "waiting"
  /\ c \in holds /\ holds' = holds \ {c} /\ contexts' = contexts \ {c}
  /\ result' = [result EXCEPT ![c] = "answered"]
  /\ UNCHANGED <<guestVars, reader, verdict, death, dead, minted, service, guilty, taskVars, item>>
\* hold_service: a request under a live id is the sender's violation.
ReadService(e) ==
  /\ reader[e] = "reading" /\ stdout[e] = "open"
  /\ e \in Asking
  /\ IF e \in service THEN /\ minted' = [minted EXCEPT ![e] = TRUE] /\ guilty' = guilty \cup {e}
                           /\ UNCHANGED service
                      ELSE service' = service \cup {e} /\ UNCHANGED <<minted, guilty>>
  /\ UNCHANGED <<guestVars, reader, verdict, death, dead, taskVars, itemVars>>
ServiceAnswers(e) ==
  /\ e \in service /\ service' = service \ {e}
  /\ UNCHANGED <<guestVars, reader, verdict, death, dead, minted, guilty, taskVars, itemVars>>

Signal(e, failed) == IF verdict[e] = "none" THEN verdict' = [verdict EXCEPT ![e] = failed] /\ UNCHANGED death
                     ELSE death' = [death EXCEPT ![e] = TRUE] /\ UNCHANGED verdict
\* An unparseable line or an answer of the wrong kind: refuse, and read no further.
ReadBreak(e) ==
  /\ reader[e] = "reading" /\ stdout[e] = "open" /\ reader' = [reader EXCEPT ![e] = "closing"]
  /\ Signal(e, "failed") /\ guilty' = guilty \cup {e}
  /\ UNCHANGED <<guestVars, dead, minted, service, taskVars, itemVars>>
ReadEof(e) ==
  /\ reader[e] = "reading" /\ stdout[e] = "closed" /\ reader' = [reader EXCEPT ![e] = "closing"]
  /\ UNCHANGED <<guestVars, verdict, death, dead, minted, service, guilty, taskVars, itemVars>>
\* Lane::die: the flag, then the sweep of contexts, holds and subscriptions.
ReaderFlags(e) ==
  /\ reader[e] = "closing" /\ reader' = [reader EXCEPT ![e] = "flagged"]
  /\ dead' = [dead EXCEPT ![e] = TRUE]
  /\ UNCHANGED <<guestVars, verdict, death, minted, service, guilty, taskVars, itemVars>>
Sweep(e) ==
  /\ contexts' = contexts \ Own(e) /\ holds' = holds \ Own(e)
  /\ service' = service \ {e} /\ subs' = subs \ {e}
  /\ result' = [c \in Items |-> IF c \in holds \cap Own(e) THEN "orphaned" ELSE result[c]]
ReaderSweeps(e) ==
  /\ reader[e] = "flagged" /\ reader' = [reader EXCEPT ![e] = "over"]
  /\ Sweep(e) /\ Signal(e, "failed")
  /\ UNCHANGED <<guestVars, task, status, dead, minted, item, closing, guilty>>

-----------------------------------------------------------------------------
\* The supervision task.
TaskTo(e, at) == task' = [task EXCEPT ![e] = at]
SpawnFails(e) ==
  /\ task[e] = "booting" /\ reader[e] = "reading" /\ verdict[e] = "none" /\ process[e] = "running"
  /\ TaskTo(e, "dying") /\ process' = [process EXCEPT ![e] = "exited"] /\ stdout' = [stdout EXCEPT ![e] = "closed"]
  /\ UNCHANGED <<reader, verdict, death, dead, minted, status, subs, service, closing, guilty, itemVars>>
Handshake(e) ==
  /\ task[e] = "booting" /\ verdict[e] # "none"
  /\ TaskTo(e, IF verdict[e] = "good" THEN "mounting" ELSE "refusing")
  /\ UNCHANGED <<guestVars, reader, verdict, death, dead, minted, status, subs, service, closing, guilty, itemVars>>
BootTimeout(e) ==
  /\ task[e] = "booting" /\ verdict[e] = "none" /\ TaskTo(e, "refusing") /\ guilty' = guilty \cup {e}
  /\ UNCHANGED <<guestVars, reader, verdict, death, dead, minted, status, subs, service, closing, itemVars>>
\* The watch list is subscribed, then the standing recorded.
Subscribe(e) ==
  /\ task[e] = "mounting" /\ TaskTo(e, "alive") /\ subs' = subs \cup {e}
  /\ status' = [status EXCEPT ![e] = "alive"]
  /\ UNCHANGED <<guestVars, reader, verdict, death, dead, minted, service, closing, guilty, itemVars>>
\* kill_now: the process tree.
Kills(e) == process' = [process EXCEPT ![e] = IF @ = "running" THEN "killed" ELSE @] /\ stdout' = [stdout EXCEPT ![e] = "closed"]
\* fail_before_mount, and the containment of a mint violation.
Refuse(e) ==
  /\ task[e] = "refusing" \/ (task[e] = "alive" /\ minted[e])
  /\ Kills(e) /\ TaskTo(e, "dying")
  /\ UNCHANGED <<reader, verdict, death, dead, minted, status, subs, service, closing, guilty, itemVars>>
AliveEnds(e) ==
  /\ task[e] = "alive" /\ (death[e] \/ process[e] # "running") /\ TaskTo(e, "reaping")
  /\ UNCHANGED <<guestVars, reader, verdict, death, dead, minted, status, subs, service, closing, guilty, itemVars>>
\* reap_with_grace: the exit, or the tree kill when the grace is over.
Reap(e) ==
  /\ task[e] = "reaping" /\ TaskTo(e, "dying")
  /\ IF process[e] = "running" THEN Kills(e) ELSE UNCHANGED guestVars
  /\ UNCHANGED <<reader, verdict, death, dead, minted, status, subs, service, closing, guilty, itemVars>>
CloseHost == /\ ~closing /\ closing' = TRUE
             /\ UNCHANGED <<guestVars, reader, verdict, death, task, status, dead, minted, subs, service, guilty, itemVars>>
ClosingReap(e) ==
  /\ task[e] = "alive" /\ closing /\ TaskTo(e, "over")
  /\ IF process[e] = "running" THEN Kills(e) ELSE UNCHANGED guestVars
  /\ UNCHANGED <<reader, verdict, death, dead, minted, status, subs, service, closing, guilty, itemVars>>
\* resolve_dead: the lane dies (again), the standing is recorded.
TaskFlags(e) ==
  /\ task[e] = "dying" /\ TaskTo(e, "sweeping") /\ dead' = [dead EXCEPT ![e] = TRUE]
  /\ UNCHANGED <<guestVars, reader, verdict, death, minted, status, subs, service, closing, guilty, itemVars>>
TaskSweeps(e) ==
  /\ task[e] = "sweeping" /\ TaskTo(e, "over") /\ Sweep(e)
  /\ status' = [status EXCEPT ![e] = "dead"]
  /\ UNCHANGED <<guestVars, reader, verdict, death, dead, minted, item, closing, guilty>>

-----------------------------------------------------------------------------
\* A caller: ExtensionHandle::call and hook.
ItemTo(c, at) == item' = [item EXCEPT ![c] = at]
Hold(c) ==
  /\ item[c] = "idle" /\ status[Owner[c]] # "starting" /\ ItemTo(c, "held") /\ holds' = holds \cup {c}
  /\ UNCHANGED <<guestVars, reader, verdict, death, dead, minted, service, taskVars, result, contexts, guilty>>
Attach(c) ==
  /\ item[c] = "held" /\ ItemTo(c, "attached") /\ contexts' = contexts \cup {c}
  /\ UNCHANGED <<guestVars, reader, verdict, death, dead, minted, service, taskVars, result, holds, guilty>>
Abandon(c, outcome) ==
  /\ holds' = holds \ {c} /\ contexts' = contexts \ {c}
  /\ result' = [result EXCEPT ![c] = outcome] /\ ItemTo(c, "done")
\* The send without the check.
SendBlind(c) ==
  /\ item[c] = "attached" /\ ItemTo(c, "waiting") /\ UNCHANGED <<result, holds, contexts>>
  /\ UNCHANGED <<guestVars, reader, verdict, death, dead, minted, service, taskVars, guilty>>
\* The flag is looked at behind the hold; a lane that closed fails the send.
Send(c) ==
  /\ item[c] = "attached"
  /\ \/ dead[Owner[c]] /\ Abandon(c, "refused")
     \/ closing /\ ~dead[Owner[c]] /\ Abandon(c, "refused")
     \/ ~dead[Owner[c]] /\ ItemTo(c, "waiting") /\ UNCHANGED <<result, holds, contexts>>
  /\ UNCHANGED <<guestVars, reader, verdict, death, dead, minted, service, taskVars, guilty>>
Deliver(c) ==
  /\ item[c] = "waiting" /\ result[c] # "none" /\ ItemTo(c, "done")
  /\ UNCHANGED <<guestVars, reader, verdict, death, dead, minted, service, taskVars, result, holds, contexts, guilty>>
Cancel(c) ==
  /\ item[c] = "waiting" /\ result[c] = "none" /\ Abandon(c, "cancelled")
  /\ UNCHANGED <<guestVars, reader, verdict, death, dead, minted, service, taskVars, guilty>>

ReaderStep(e) == ReadEof(e) \/ ReaderFlags(e) \/ ReaderSweeps(e)
TaskStep(e) == Handshake(e) \/ BootTimeout(e) \/ Subscribe(e) \/ Refuse(e) \/ AliveEnds(e) \/ Reap(e)
               \/ ClosingReap(e) \/ TaskFlags(e) \/ TaskSweeps(e)
ItemStep(c) == Attach(c) \/ Send(c) \/ Deliver(c)
LaneNext ==
  \/ \E e \in Faulty : GuestExits(e) \/ HolderExits(e) \/ ReadReport(e, FALSE) \/ ReadBreak(e) \/ SpawnFails(e)
  \/ \E e \in Exts : ReadReport(e, TRUE) \/ ReadService(e) \/ ServiceAnswers(e) \/ ReaderStep(e) \/ TaskStep(e)
  \/ \E c \in Items : ItemStep(c) \/ Hold(c) \/ Cancel(c) \/ \E e \in Exts : ReadResult(e, c)
  \/ CloseHost
LaneSpec == /\ LaneInit /\ [][LaneNext]_laneVars
            /\ \A e \in Exts : WF_laneVars(ReaderStep(e)) /\ WF_laneVars(TaskStep(e))
            /\ \A c \in Items : WF_laneVars(ItemStep(c))

-----------------------------------------------------------------------------
\* No item waits on a dead extension, whenever it registered.
ItemsSettle == \A c \in Items :
  item[c] \notin {"idle", "done"} /\ status[Owner[c]] = "dead" ~> item[c] = "done"

\* The boot waits for every verdict and gets one: a mute package is timed out.
BootResolves == \A e \in Exts : <>(status[e] # "starting")

\* An extension that is over is nowhere in the node's tables, save an item about to find out.
DeadLeavesNothing == \A e \in Exts : status[e] = "dead" /\ reader[e] = "over" =>
  /\ e \notin subs \cup service
  /\ \A c \in Own(e) : c \in holds \cup contexts => item[c] \in {"held", "attached"}

\* One package's failure is its own: a process is killed for what it did itself, or with the host.
SiblingsSurvive == \A e \in Exts : process[e] = "killed" => e \in guilty \/ closing
=============================================================================
