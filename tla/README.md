# Tabit: a verification project

Tabit is a coding agent: a backend in Rust that runs conversations with a
model, and a terminal frontend in TypeScript that talks to it in frames over a
pipe. This directory holds TLA+ models of it, the TLC runs that check them, and
proofs that TLAPS checks. Paths below are relative to the repository's root;
`PROJECT.json` gives, definition by definition, the lines each one models.

## 1. The system

| part | state | operations | talks to | modules |
|---|---|---|---|---|
| session log (`tabit-log`, `tabit-session/{parser,session/builder,persist,rewind,selection}.rs`) | the `.jsonl` file, the outbox and durable offset of `SessionWriter`, the resident tree and head, the model register, the degraded flag | commit, checkout, select a model, flush, tell a transition, close, resume | called by the session under its locks; the file outlives the process | `SessionLog`, `DurableLog` |
| session worker (`endpoint.rs`, `session/{mailbox,run,compaction_doors}.rs`) | the mailbox, the slots for a parked checkout, compaction and replay, the abort and shutdown tokens | deliver each command; the beat, the pump, a run, the compaction box, close, death | commands arrive on their caller's thread; events go to the node | `SessionWorker`, `MessageLedger` |
| session host (`endpoint.rs`, `session/world.rs`, `registry.rs`) | the table of workers, parked lifecycle commands, the world and its generation, the auth file | new, open, login, logout, arm, wind down | creates workers, refreshes every session | `SessionHost` |
| locks (`tabit-log/lock.rs`) | the table of held locks | claim, release, report a timeout | every task | `LockTable` |
| agent loop (`tabit-engine`) | turns used, retries, the pending stop; a batch's calls; the turn being assembled; the tool registry | converge, decide, model, settle, tools; hooks; list refreshes | a stream the run polls, steers from the mailbox, MCP servers | `EngineLoop`, `ToolBatch`, `TurnAssembly` |
| providers (`tabit-providers`) | a request's attempts, the event source, the accumulator of parts; the shared message vocabulary | send, retry, decode, convert | the model's HTTP endpoint (external) | `ProviderRequest`, `StreamParts`, `PartsAccumulator`, `ChatStream`, `AnthropicStream`, `ResponsesStream`, `WireHistory`, `RequestShape` |
| compaction (`compaction/`, `fold.rs`, `tree.rs`) | the view of the active branch, measured deltas, the wall | choose a cut, summarize, retry, commit | the worker's doors, the model | `CompactionBox` |
| cards (`tabit-wire/{asks,node}.rs`) | open and answered asks at each node | ask, answer, settle, sweep | the child's node, its parent's, every frontend | `PendingAsks` |
| wire node (`tabit-wire/{node,router}.rs`) | subscribers, learned routes | intake, local emission, retract | stdio, lanes of children, in-process consumers | `WireNode` |
| child processes (`tabit-wire/{client,process}.rs`, `tabit-session/{subagent,subagent_pool,subprocess}.rs`) | a pipe, a reader, a reaper, the pool's entries | spawn, handshake, drive, follow up, close, kill | the node | `ChildBoot`, `SubagentPool` |
| extensions (`tabit-ext`, `tabit-ext-sdk`, `tabit-app/extensions.rs`) | a supervised process, its held calls; the guest's tables; what the packages contribute | boot, call, hook, service, cancel, sweep; scan, partition, merge | the node's held round-trips | `ExtensionLane`, `ExtGuest`, `ExtensionWorld` |
| process edge (`edge.rs`, `replay.rs`) | stdin, stdout, one feed; the chain | dispatch, forward, write, leave; replay | a frontend | `StdioEdge`, `ReplayPass` |
| configuration (`tabit-config`, `tabit-app/{assemble,catalog}.rs`) | config layers, the catalog's cache and lock, keys | merge, resolve, refresh | files, mirrors | `ModelChoice`, `CatalogChannel` |
| tools and gate (`tabit-tools`, `tabit-gate`) | a lock per path spelling; the rule book | read, write, edit, shell; judge a call | files, processes, cards | `BuiltinTools`, `PermissionGate` |
| command line (`tabit-core`, `tabit-ext-install`) | the extensions directory, the printed buffer | parse, install, uninstall, prune, print | npm and git (external) | `TabitCore` |
| terminal frontend (`src/tui`) | the streams and the focus, the dock, cards, pickers, the transcript, notices | fold a frame, handle a key | the backend's frames | `TuiStreams`, `TuiDock`, `TuiTranscript` |

What is hard in it:

* **Interleavings.** A command is delivered step by step on its caller's
  thread, next to a worker in the middle of a beat; a batch's tools, an
  extension's reader and its supervisor, two processes over one cache.
* **Failure.** A disk write stops halfway and its clean-up fails as well; the
  process dies inside a write; a child dies with frames in its pipe; a stream
  breaks behind half an answer; an install stops between two renames.
* **Order.** Records reach the disk after they took effect in memory; an
  answer, a settle, a run's end and a sweep cross each other on two pipes;
  gateways send fragments in orders of their own.
* **Waiting.** A provider, a card, a child or an extension may never answer, and
  aborts, closes, deadlines and deaths must still end what they are meant to.

What makes each part correct, in one line each: the log shows live what a reload
would show and loses nothing it counted durable; every accepted message enters
the conversation or comes back, once and in order; every run tells its end, and
every turn, call and word it heard; every card closes, once; a dead child takes
its own things along and nobody else's; a compaction fits under the wall it
aimed at; a package lands behind its requirements; the gate judges what runs;
the terminal shows the stream that has the focus.

## 2. The modules

One module per component; state is `VARIABLES`, and an action is a handler or
the stretch of code between two suspension points. A comment names the code an
action models where its name does not. Definitions whose comment says so are
mutants: a plausible bug, against which the property beside it was tried.

**Session.** `DurableLog` is what a log promises, without file or writer: a
sequence of accepted records with a durable prefix, of which a stop loses
exactly a suffix. `SessionLog` implements it. `Enqueue` is one write of the
whole outbox that succeeds, is refused at the open, or fails after part of it;
`Crash` cuts a write. The file is a sequence of tokens, a record and its newline
per line, so a torn line, a lost newline and a glued line are different files;
`Parses` is the parser with every check that refuses a file, `Landing` is
`ContextManager::checkout`'s forward resolution. `MessageLedger` is the message
ledger of FRONTEND.md; `SessionWorker` implements it. `Script` lists the steps
of delivering each command, each an action of its own because each is a lock or
an atomic the worker can run between; `pc` is the place of the worker's task, and
inside `Engine`, `run.phase` follows drive.rs with a turn's outcome as one step.
`SessionHost` serves lifecycle commands on two threads, each lock claim one
step. `LockTable` is the lock helper with its bookkeeping. `CompactionBox` has
the doors, `SelectCut` over measured deltas, passes with overflow and violation
retries, and the walk of the history over cut children. An entry carries the sum
of the deltas up to it, so the code's suffix sums are differences, and a cut is
named by the first entry it keeps.

**Wire.** `PendingAsks` follows a question through two nodes: the child that
asks, the pipe with all frames in order, the parent that holds it, the
frontends. A sweep removes an entry and runs its closure in one step; an
answer's delivery is a step of its own, since it runs outside the registry's
lock. `WireNode` is one node of the net with lanes read by a task each, and
beside it one frame over a whole net of nodes with its budget of hops.
`ChildBoot` is a spawn under one bound, against a process that may write
anything. `SubagentPool` is the pool with concurrent drives, ageing and the
close with grace. `ExtGuest` is the guest's end of an extension's pipe.

**Engine.** `EngineLoop` is `drive_agent` between its suspensions; the owner may
drop the run at each. `ToolBatch` is one batch of calls under stacks of hooks, in
either concurrency; it also holds the shared registry under an MCP server's
notices. `TurnAssembly` is both consumers of a turn's stream, side by side.

**Providers.** `ProviderRequest` is a request with its attempts and event
source. `StreamParts` is the accumulator as operators, `PartsAccumulator` drives
it with arbitrary events, and `ChatStream`, `AnthropicStream`, `ResponsesStream`
with what each wire's adapter makes of its server's frames. `WireHistory`
converts whole conversations to the three wires and back; `RequestShape` does
the same for a request's knobs and an answer's counts and reason.

**Process.** `StdioEdge`, `ReplayPass`, `ExtensionWorld`, `ExtensionLane`,
`ModelChoice`, `CatalogChannel` and `TabitCore` as in the table above.
`BuiltinTools` has texts as sequences of characters where edits are matched, and
sizes of lines where output is paged. `PermissionGate` walks a script's syntax
tree; the shell's parser and the glob crate are external.

**Terminal.** `TuiStreams` folds the frames of a root session and its subagents,
their cards among them (an open card outranks a running session in the status
the terminal reports), leads the escape key from a stream to its parent, sweeps
streams nobody can reach, and raises, pins and ages notices; `TuiDock` has the one slot of cards and
pickers, the keyboard, the draft, and beside it one card and one picker key by
key; `TuiTranscript` folds entries it never sees the log of.

**Composition.** `MCSessionWorker` says who sends which commands. `MCWire`,
`MCTasks`, `MCEngine` and `MCEdges` instantiate several modules each: a behaviour
runs one of them (`part`) and leaves the others at rest, so one run checks
several components and states each one's properties in groups. The component
modules do not share state there; where components interact, the interaction is
inside a module (`SessionWorker` has mailbox, worker, run and doors; `PendingAsks`
both nodes; `SubagentPool` pool, pipe and process; `WireNode` readers and reapers).

## 3. What the runs check

Every passing run covers its whole state space.

| run | instance | checks |
|---|---|---|
| `log` | 4 nodes, 2 calls per turn, 6 records; writes that fail or are torn, deaths between and inside lines, reopening, checkouts of every position | `TypeOK`, `NoOrphan`, `NoticeTracksDegraded`, `FileIsTheSession`, `DurableNeverLost`, `ImplementsDurableLog` |
| `threads` | two threads that submit, abort and check out | `ImplementsLedger`, `QueuedBeforeFate` |
| `served` | a provider that answers in the end, a frontend that may close at any step, refused openings, overflow, stop | `TypeOK`, `NoLostWakeup`, `RunsAreTold`, `Watermark`, `CloseServesAndEnds`, `MessagesGetTheirFate`, `IntentIsServed` |
| `hanging` | a provider that may never answer | `AbortPreempts` |
| `cards` | 2 questions, 2 frontends, a run terminal, the child's death with both sweeps | `OneAnswerOneSettle`, `PendingIsReachable`, `CardsClose` |
| `wire` | `WireNode` with two lanes, one of which watches and has a grandchild, whose frames each hearer gets once and in order; nets of 4 nodes, one with a loop; a boot of 3 lines; one wedged child with 3 calls; a guest with 2 invocations | `FramesReachOnce`, `ChildrenAreOurs`, `WireSettles` |
| `tasks` | the edge; the box with one wall, 4 entries said and 2 doors; 2 processes and a child over one cache; 2 extensions; 2 threads with 2 lifecycle commands; 3 tasks and their locks; 2 tool calls on one file, pages and diffs of a few lines, a command with a helper | `CompactionIsSound`, `TasksStayApart`, `ToolsKeepTheirWord`, `TasksEnd`, `HostAnswersAll` |
| `engine` | every run of the loop with 2 steers, 2 turns, 1 retry; batches of 2 calls under up to 4 hooks; streams of 4 items; 2 names in the registry; short streams on each wire; conversations of two answers over the three wires; every knob of a request | `RunIsAccountable`, `BatchIsWhole`, `TurnIsFaithful`, `AdaptersTellTheTurn`, `RequestsKeepHistory`, `NothingIsLeftBehind`, `StreamKeepsEveryWord` |
| `edges` | small configurations and catalogs; 3 packages; chains of 4 entries; command lines with installs from a small registry; the terminal with one subagent, 2 asks, 5 entries, a root's run and two of the child; scripts, books and paths on two platforms | `ChoiceIsExact`, `ReplayTellsTheLog`, `TerminalShowsFocus`, `CardsStayAnswerable`, `GateJudgesWhatRuns`, `WorldFoldsByScan` |

A group's definition, in its MC module, names the properties of the component
modules it is the conjunction of; each of those says in its comment what it means.

Bounds, and why they suffice:

* Log: a user turn, a whole roundtrip of two results and a branch beside it fit
  in 4 nodes; `MaxRecords` 6 counts records accepted, so it bounds outbox and
  file together, with room for a header, a batch, a checkout and a retry.
* Worker: two messages give an order and an overtaking; `MaxAsks` 2 lets two
  commands overlap on one worker, or one follow another. `MaxTurns` 2 lets a
  message steer between turns, `MaxRepairs` 1 lets compaction repair an overflow.
* Wire: two questions meet in one pipe and one sweep, two frontends race, a
  lane's death meets another lane's watch; the loop of three nodes with a tail
  outlives a budget of 4 only if a hop is not spent; three calls meet one child.
* Tasks: two doors give an envelope on an envelope, and with four entries the
  talk goes on behind a compaction; two processes and a child
  race for one lock and two versions; a third copy adds no new order. Two threads
  race every pair of the host's commands, and three tasks can close a circle of
  waits that two cannot.
* Engine: two of a thing are enough to swap it (calls, items, names, blocks),
  four hooks fill an outer and an inner stack with equal priorities among them.
* Edges: three packages give a first, a second and a bystander; requirements
  with a diamond and a cycle. The gate's reference is a shell of its own, which
  expands words and follows directories without the walk's definitions; a script
  that meets a blind spot of the walk is held to everything else it does.

A system may stop where it is idle, over or at a bound, so only `log` looks for
deadlock, with a stuttering `Over` for a session that cannot be opened.

Fairness. `Scheduled` of `SessionWorker` is what the async runtime owes: the
worker's task goes on while it can, and a command's delivery, which awaits
nothing, ends. No command is ever owed. `HangingSpec` has nothing more, because
nothing makes a provider or a user answer; `AnsweringSpec` adds that the box and
the turn get an answer in the end, only where the property waits for a run's
end. In `PendingAsks` readers, the reaper and a delivery that began go on; nobody
has to ask, answer or die. In `MCWire`, `MCTasks` and the groups of `MCEngine` and
`MCEdges` the same: tasks of this process and timers go on (a reader, a pump, a
driver whose abort fired, a shell poll), and no frame, answer, exit or key of
another party is owed.

### Disagreements between the code and what it says

Three have a run that ends in a counterexample; `findings` in PROJECT.json quotes
the sentence each contradicts.

| run | property | what happens |
|---|---|---|
| `cut_child` | `CompactionBox.CutChildIsMet` | a pass shortened to the empty prefix cuts at the older compaction itself; the next walk of the history panics |
| `early_notice` | `ToolBatch.Converges` | a list notice served before `connect` numbers its own fetch loses to the older list |
| `edit_twice` | `MCTasks.AlikeLandOnce` | a replacement stated twice is applied twice at the same offsets |

The others stand in their modules, with a comment that says what the code does;
adding the name to the INVARIANTS or PROPERTIES of the cfg named here makes TLC
refute it.

| module, cfg | property | what happens |
|---|---|---|
| `SessionLog`, `log` with `CrashCuts = {"bare"}` | `CleanFileReopens` | a file torn by its last newline alone opens, and the next record is glued to that line |
| the same with `TruncateMayFail = TRUE` | `CleanFileReopens` | the clean-up truncation's result is ignored; a retry lands behind torn bytes |
| `SessionLog`, `log` | `LiveEqualsReload` | a checkout into an open roundtrip resolves forward live but records the target it was asked for; the file then refuses to open |
| `SessionWorker`, `served` or `threads` | `OneTerminal`, `CheckoutFirst`, `DeathWindsDown`, `EntryContract`, `CloseServesContinue`, `NothingLost`, `AbortDropsContinue` | an abort after the final response tells a second terminal; a checkout is overtaken; a token minted after the frontend's death is never cancelled; the engine is entered with nothing to answer; the last look forgets a continue or a message; an abort keeps a continue |
| `PendingAsks`, `cards` | `EveryDeadCardCloses`, `NeverSettlesTwice` | a second answer erases the settle a sweep owes; the reaper and a settle in the pipe settle one request twice |
| `CompactionBox`, `tasks` (the second with `Windows = {8, 12}`) | `OpensOnce`, `FitsTheWall` | an invocation whose first pass starts over announces its begin again; "compacted" is judged against the window before the last overflow lowered it |
| `CatalogChannel`, `tasks` | `StampTellsArtifact`, `StatusNamesMerged` | the sidecar's write is ignored when it fails; a status names another version than the one merged |
| `StdioEdge`, `tasks` | `LosslessEnd` | an edge that leaves at the end of the stream may leave before its last lines are written |
| `BuiltinTools`, `tasks` | `ConflictsStayOutTogether`, `EndingsStay`, `BothEndsShown`, `EndsByDeadline` | of three edits that overlap in a chain the third lands, over the second that was rejected; one CRLF makes all endings CRLF; a huge first line hides the last; a helper that holds the pipe keeps a call past its deadline |
| `SessionHost`, `tasks` | `EverySessionCurrent`, `OneWorkerPerSession`, `NothingAfterEnd` | a session inserted behind a refresh keeps the old world; two opens spawn two workers; a worker outlives the stream |
| `LockTable`, `tasks` | `TableTellsHeld` | a lock past its bookkeeping may be missing from the table a report reads |
| `ModelChoice`, `edges` | `ChosenBuilds`, `QualifiedResolves` | the default may have no client; a qualified reference may not resolve |
| `ExtensionWorld`, `edges` | `RequirementsMount`, `DisablesApply` | a requirement that failed to boot leaves its dependant mounted; a static package's disables are dropped |
| `WireNode`, `wire` | `FinalWord` | the reaper may settle a question on a stream whose close was told |
| `ChildBoot`, `wire` | `RefusedNeverCrosses` | frames between a refusal and the kill may cross |
| `SubagentPool`, `wire` | `AwaitedOnce` | a second call that reaps one child panics at the single-shot handle |
| `ExtGuest`, `wire` | `CancelReaches`, `HeardInOrder` | a cancel ahead of the call's token is lost; observations run on tasks of their own |
| `TabitCore`, `edges` | `AcceptedFlagsAct`, `NeedsAlwaysLand`, `FailedInstallKeepsOld`, `RootIsWhole`, `LitterIsUnseen`, `CardsOutliveTheKid`, `LinesMeetOpenCards`, `StdoutIsTheResponse` | `--session` silently wins over `--continue`; a requirement served under another name is not noticed; a second rename that fails loses the old package; a stage is listed as a package; a subagent's end clears its parent's cards; a settled card eats a line; a subagent's text joins the response |
| `PermissionGate`, `edges` | `LaterCatchAllWins`, `EverythingIsWalked`, `EveryCwdIsFollowed` | the first of two catch-alls sets the default; a command substitution in a blind spot of the walk (arithmetic, an operand it does not open, an expansion inside an operand) goes unseen; the `cd` of a job leaks inside a compound's list, that of a function never reaches its caller, and a compound's redirections are read where its body ended |
| `WireHistory`, `engine` | `SwitchConverts`, `OwnIdsOnly` | a conversation of one wire may be refused by another; ids of one provider go to the other |
| `RequestShape`, `engine` | `ToolsReachTheModel` | on chat, hosted tools in the raw parameters replace the tools of the request |
| `MCEngine`, `engine` | `TextKeepsItsBlock` | an Anthropic block interrupted by another becomes two parts |
| `EngineLoop`, `ToolBatch`, `engine` | `CallsWithinBudget`, `RedactionSurvives` | a retry is a model call that `max_turns` does not count; a hook that stops the run behind a redacting one surfaces the raw output |
| `TuiStreams`, `edges` with `SettledAhead <- FALSE` | `StatusTellsWork` | a settle that the reaper sends behind a close (`FinalWord`) is dropped once the stream was swept, and its card keeps the status at blocked |
| `TuiDock`, `TuiTranscript`, `edges` | `TerminalClosesCards`, `AskKeepsTheSlot`, `AskOwnsKeys`, `HeadTellsLog` | a `run_failed` leaves the cards of its stream open, against FRONTEND.md section 8; closing one card empties the slot although another ask is open, and a change of region takes an ask's keys; a turn that was never recorded stays the tree's head |

## 4. What is proved

`SessionLogProofs` proves of the log, for every value of the constants:
`TypeCorrect`, `NoOrphanEver`, `NoticesTrue` and `DurableForever`. The inductive
invariant `Inv` has two parts.
`NoOrphanEver` says that a file exists only once a message was minted; what a
death leaves in it is another matter: cut inside its first write, it may hold the
header alone. `TreeInv` types the tree, and is what `Open` needs from the parser (`NodesOfType`,
`HeadOfType`, `RegisterOfType`: what an accepted file yields). `LogInv` is needed
because none of the properties is inductive alone: a file exists only if a
writer was born or materialized (`writer.born => minted > 0`), the durable bytes
survive a failed write only while the offset lies inside the file, an open
handle implies a file, and a dead process leaves no writer behind for the next
open to inherit. `EnqueueStep` carries the argument: whatever the disk does, one
enqueue keeps the durable bytes, the types and the truth of the notices. The
assumptions on the constants are those of `SessionLog`.

Two theorems of the log have a hypothesis, `CleanWrites`: no death cuts exactly a
newline and the clean-up of a failed write succeeds. It is what the `log` run
assumes as well, because without either the code breaks its promise (section 3);
boundary cuts, torn lines, failed writes and lost outboxes are all in.

* `PromiseKept` (`ImplementsDurableLog`): the log implements `DurableLog`. The
  refinement rests on `FileInv`: the file is a blob of whole lines, one torn line
  behind it only after a death, and the offset is its end while a process lives.
  Then an enqueue writes all or nothing (`EnqueueAllOrNothing`), a close writes
  all or nothing, and a death keeps a beginning (`PartialCut`, `BlobCut`).
* `FileIsSession` (`FileIsTheSession`): what reopens is what lived. `SessionInv`
  says of the records accepted so far that they are a `Coherent` log: ids rise, a
  checkout names an earlier node, a turn is followed by its results with ids and
  parents in a row, and starts at the root or where a group ended. Of the live
  session it says that it is the one these records describe (`Reflects`), with no
  group cut short, in the records or on disk. A head that a checkout resolved
  forward agrees with the log no more; `Reflects` therefore claims links and head
  only while all checkouts name closed places (`AllClosed`), which is the
  hypothesis of `ClosedTargetsReload`. Such a log is accepted by the parser
  exactly when its nodes hang off the heads of their time (`Linked`); a reopened
  file has whole groups because the parser refuses an open tail
  (`WholeWhenClosed`); the beginning of a coherent log is coherent
  (`CoherentCut`), which is all a death leaves; and in the tree of a whole log an
  open node has its one child ahead until the roundtrip ends
  (`WholeTreeIsCompletable`), so a checkout always lands.

`SessionWorkerProofs` proves of the worker, for any number of threads, messages
and commands:

* `LedgerRefined`: the worker implements `MessageLedger`, and `QueuedFirst`:
  no message is acknowledged after its fate. Both rest on `LedgerInv`. What a
  thread still has to do is a remainder of a script (`Todos`: a push follows its
  announcement, a notify follows whatever leaves something for the worker); a
  message a thread still carries was submitted, belongs to that thread alone and
  is in no part of the ledger (`Carried`). Without it a push could accept a
  message twice. `StepKinds` sorts all steps by what they do to the ledger.
* `EveryRunTells`: `RunsAreTold`, from `RunInv`, which follows the run's phase,
  its result and what it told through every place of the worker that drives it.
* `NoWakeupIsLost`: `NoLostWakeup`, from `WakeInv`. `Seen` says what the beat has
  looked at by each of its places; what arrives behind a look is covered by the
  stored permit or by a thread whose next step is its notify (`Owed`). The
  worker gives up the permit only to start its beat over.
* `TypesAreKept`: `TypeOK`, which is not inductive. A checkout's slot names one
  that was asked for, and the count of those stays under the bound on commands
  only because each is parked once (`ParkInv` counts the threads that still have
  to); a run's counters stay under its caps because of where its phases test
  them (`RunBounds`).
* `MarksHold`: `Watermark`, the one of these with a hypothesis, that one thread
  submits and checks out, as the rule itself speaks of "the same frontend".
  `MarkInv` says of the queue, and of a message on its way to it, that nothing
  was parked since it was submitted, and that a checkout parks over an empty
  queue: it cleared it the step before (`Clears`), and nobody else pushes.

`PendingAsksProofs` proves of the cards, for any sets of questions and frontends,
`CardsSettleOnce` (`OneAnswerOneSettle`) and `PendingStaysReachable`
(`PendingIsReachable`). Its invariant is about the frames on the two pipes: at
most one request, one settle and one answer of a question, the settle behind the
request, nothing of a question in front of its request (`Quiet`), and what the
child's promise, the parent's entry and the cards must be for each of them to be
there. A second answer, or a sweep between a frame and its delivery, needs all
of it: one settle is owed by exactly one of the entry, the pipe and the sweep.

`WireProofs` proves of a node of the net `StreamsCloseOnce` (`FramesReachOnce`),
for any lanes, watchers and bounds. Frames reach their hearers once and in order
because what the frontend was handed of a channel is the beginning of what was
said there and the pipe holds the rest, while a watcher's copies rise
(`HandedInv`). `NodeInv` follows a lane's death through its
reader: once the pipe ended, nothing is on the wire and nothing of it is learned
(`DeadInv`), a stream's close takes the stamp it came from (`CloseInv`), and
every table holds of a lane only what that lane speaks (`TableInv`). So a close is
told by its own lane's drain (`ClosedByItsLane`), and a lane that was swept left no
registration, route or question behind; what may still follow the close is the
one settle that the reaper owes (`LastButTheReapers`; `FinalWord`, which excludes
it, is refuted). Two
assumptions are needed: every channel has its streams and its bound, and no two
channels speak one stream, which the node has from the identifiers it mints.

Its second half proves `ChildrenAreWell` (`ChildrenAreOurs`) of the three other
parts of the wire's run, for any children, calls, ids, invocations and loads.
`BootInv` orders a boot: the lane is armed by a report, and a boot that was named
has its frame on the way. `PoolInv` is the pool's: a handle is held by the call
that drives its child (`HandleInv`), a child has one name, given by the call it
was parked for (`NamesInv`), and it is found under that name until a call to it
fails (`KeptInv`). That a drive is answered by its own run needs the pipe, both
ways: before an abort, all there is between a drive and its child is the one
message, the run it opened or that run's end (`Awaited`). After an abort this is
false, and `OwnAnswer` does not claim it. Each action is first reduced to what it
changes (`PoolEffect`), so that every part of the invariant is stepped over the
same twenty effects. `GuestInv` is the guest's: a hold stands from its task's step
to its answer, one per id (`HeldInv`), a token belongs to a task of its id
(`TokenInv`), a card is open between its two lines (`CardOf`), and only a host
that broke its word kills a guest (`DeathInv`). Assumed: processes and
invocations are numbered from 1, and no call or id has the name of a marker.

`TasksProofs` proves `TasksAreApart` (`TasksStayApart`) of three components at
once. The edge's three queues are one pipe (`Pipe`): their numbers rise within
each and across them, and together they are all that was said. The catalog has
one refresher because a stage past the start is its holder's (`CatalogInv`), and
an artifact that parses was verified. A lane's harm is its own: what a process,
a reader and a supervisor may be found at is excused by its guilt (`GuiltInv`),
and a lane whose flag is up holds nothing, so both sweeps find all (`SweptInv`).
Assumed: no process is called `None`, and every item has an owner.

Its second half proves `HostIsAnswerable` (`HostAnswersAll`) of the host of the
sessions and of the lock helper, for any threads, commands, providers and tasks.
A command that came is answered, parked, to be drained or being served
(`CountInv`, which counts the threads that are busy), and it is parked only while
nothing is attached (`DoorInv`). Exactly the writer is inside a login, and only
its swap finds the auth file ahead of the world (`AuthInv`). That a session is
stale only through the gap is not inductive: it needs what a thread that no walk
passed is about to spawn and insert (`GapInv`), and that generations only rise
between a thread's two looks at them (`PaceInv`). The stream's end comes after
the workers because a live one is awaited, queued to be awaited, or not yet
handed over by the thread that made it (`JoinInv`). The locks' invariant is
`Nested`: a task's place in its nest says what it holds. So one that waits while it
holds has an outer lock and waits for the buffer, and who has the buffer waits for
nothing: there is no circle, of any length. Assumed: `"nobody"` is no thread,
the main one is a thread, and the boot's file is a file.

Its third part proves `CompactionHolds` (`CompactionIsSound`) of the compaction
box, for any windows, sizes, caps and length of talk. The newest compaction is the
one that counts and its cut lies behind it (`BranchInv`), so the view is one
stretch of the branch with a summary in front (`ViewShape`). Running sums never
fall (`RunningInv`, `SumsRise`): a cut moved back keeps no less (`TailSums`,
`EarlierBoundary`), which is why a request shortened again and again keeps the
floor. A boundary of the view is one of the branch although older compactions lie
between its entries (`BoundaryOnBranch`). That a further pass finds a cut is not
inductive as it stands; `OfferInv` names the one it finds: the commit's own cut
is a boundary still, keeps as much, and sends nothing but the summary, whose output
is small. `FitInv` remembers against which bound "compacted" was judged, `FramesInv`
counts the envelope's frames. Assumed of the constants: a summary says something,
and with one unit more it stays under three quarters of any window that is
supported (the code caps it at `SUMMARY_MAX_TOKENS`); a box has a pass.

`EngineProofs` proves of the agent loop `RunsAreAccountable`
(`RunIsAccountable`), for any caps and any number of messages and attempts. Its
two parts meet in no definition but the counters. `FlowInv` pays for attempts: a
model call is covered by what was told so far, times `2 * RetryCap + 1`, plus
the two streaks of the moment (`StreakInv`); that is what bounds a run nobody
attends. `HearInv` follows the conversation: it is closed and priced wherever the
loop may be suspended (`BookInv`), the messages folded are those told and lie
behind none that waits (`SteerInv`), the turns folded are those told but for the
last one (`TurnInv`). One step folds a stretch of entries; `Joined`, `Adds` and
`Grown` say once what joining a stretch does to each of these. `BatchesAreWhole`
(`BatchIsWhole`) holds for any size, width and hooks: `CallInv` has, stage by
stage, who rewrote a call's arguments and in which frame the rewrite lies, and
`StopInv` that the stop kept is the lowest so far. `TurnsAreFaithful`
(`TurnIsFaithful`) holds for streams of any length. Its invariant accounts for
the items fed while the stream is sound: an argument fed is told or buffered, and
buffered only until a name comes (`ArgumentInv`), a block of signed reasoning and
a call is kept for each one fed (`BlockInv`), and what the loop yielded is what
the one-shot consumer saw with the call's report and the held record behind it
(`RecordInv`). The lemmas on `Count` say how often an item stands in a join.

Only model-checked, and why:

* Liveness (`MessagesGetTheirFate`, `IntentIsServed`, `AbortPreempts`,
  `CloseServesAndEnds`, `CardsClose`, `WireSettles`, `TasksEnd`, ...) rests on
  fairness and `ENABLED`, which the prover does not reason about;
  `NothingIsLeftBehind` stands beside it, because it asks `ENABLED` of the loop
  and the batch.
* The two hazards of the log that no property covers (a death that cuts exactly a
  newline, a clean-up that fails as well) are the negation of `CleanWrites`:
  nothing is proved there, and TLC refutes `CleanFileReopens` in both.
* What a recursive function computes over a whole tree has no induction
  here: `TreesHearOnce`, `WorldFoldsByScan` (sorts, flattening).
* Data for data: `ChoiceIsExact`, `ReplayTellsTheLog`, `GateJudgesWhatRuns`,
  `AdaptersTellTheTurn`, `RequestsKeepHistory`, `ToolsKeepTheirWord` compare two
  computations over every small input; their modules have RECURSIVE operators,
  or folds the provers cannot unfold.
* `StreamKeepsEveryWord`, `TerminalShowsFocus` and `CardsStayAnswerable` have
  inductive invariants in reach of the provers and are not proved; the last two
  sit in `MCEdges`, which reaches the RECURSIVE operators of the permission gate.

## 5. What is not modelled

Wording, layout, logging and JSON shapes; the contents of prompts, summaries and
attachments; drawing, themes and autocompletion of the terminal; the store's scan
of its directory; the lock file of a session, which is the operating system's;
providers tabit does not configure; derive macros and message types. The shell
parser, the glob crate, npm, git and the HTTP client are external: the models
take any result they may give.

Left for later: a session with its host, and a run with its loop and its
batch in one state space, are composed only through the outcomes `SessionWorker`
enumerates.
