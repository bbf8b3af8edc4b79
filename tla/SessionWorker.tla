---------------------------- MODULE SessionWorker ----------------------------
(***************************************************************************)
(* One session at run time: the resident worker of the endpoint (the beat, *)
(* the pump, one run, the engine's outer loop, the compaction doors), the  *)
(* mailbox it drains, and the threads that deliver commands to it          *)
(* (crates/tabit-session: endpoint.rs, session/mailbox.rs, session/run.rs, *)
(* session/compaction_doors.rs; crates/tabit-engine: agent/drive.rs).      *)
(*                                                                         *)
(* Commands are delivered synchronously on the caller's thread, so a step  *)
(* of a command interleaves with any step of the worker: one action per    *)
(* lock, atomic or await that the other side can observe.                  *)
(***************************************************************************)
EXTENDS Naturals, Sequences, SequencesExt, FiniteSetsExt

CONSTANTS
  Clients,      \* threads that deliver commands (a frontend, an extension)
  Commands,     \* per thread: the kinds of command it sends
  MaxMessages,  \* bound: messages submitted
  MaxAsks,      \* bound: other commands sent
  Faults,       \* what may go wrong around a run
  MaxRepairs,   \* bound: overflowing contexts that compaction can shrink
  MaxTurns,     \* turns one run may commit
  RetryCap      \* consecutive attempts that may be discarded

ASSUME BoundsAssumption ==
  /\ MaxMessages \in Nat /\ MaxAsks \in Nat /\ MaxRepairs \in Nat
  /\ MaxTurns \in Nat \ {0} /\ RetryCap \in Nat

\* The steps of delivering each command, in the order of the code.  A checkout
\* composes abort; the frontend-death door aborts, then pulls the wind-down.
AbortSteps == <<"DropSlots", "Cancel", "Clear">>
\* Mutants: notify before the push, acknowledge after it, an abort that cancels
\* without clearing, a compaction parked without a notify.
MutantScript(message, abortSteps, compactSteps) ==
  [ message  |-> message,
    abort    |-> abortSteps,
    checkout |-> <<"Probe">> \o abortSteps \o <<"Park", "Notify">>,
    continue |-> <<"ParkContinue", "Notify">>,
    compact  |-> compactSteps,
    replay   |-> <<"ParkReplay", "Notify">>,
    close    |-> <<"Pull">>,
    death    |-> abortSteps \o <<"Pull">> ]
ScriptNotifyFirst == MutantScript(<<"Announce", "Notify", "Push">>, AbortSteps,
                                  <<"ParkCompact", "Notify">>)
ScriptAnnounceLate == MutantScript(<<"Push", "Announce", "Notify">>, AbortSteps,
                                   <<"ParkCompact", "Notify">>)
ScriptNoClear == MutantScript(<<"Announce", "Push", "Notify">>, <<"DropSlots", "Cancel">>,
                              <<"ParkCompact", "Notify">>)
ScriptSilentCompact == MutantScript(<<"Announce", "Push", "Notify">>, AbortSteps,
                                    <<"ParkCompact">>)
Script == [ message  |-> <<"Announce", "Push", "Notify">>,
            abort    |-> AbortSteps,
            checkout |-> <<"Probe">> \o AbortSteps \o <<"Park", "Notify">>,
            continue |-> <<"ParkContinue", "Notify">>,
            compact  |-> <<"ParkCompact", "Notify">>,
            replay   |-> <<"ParkReplay", "Notify">>,
            close    |-> <<"Pull">>,
            death    |-> AbortSteps \o <<"Pull">> ]

ASSUME CommandsAssumption == Commands \in [Clients -> SUBSET DOMAIN Script]

\* persist, agent: a run cannot open; overflow: the context is too large;
\* stop: a hook stops the run after a tool batch.
ASSUME FaultsAssumption == Faults \subseteq {"persist", "agent", "overflow", "stop"}

Messages == 1..MaxMessages

VARIABLES
  queue,      \* Mailbox.queue
  live,       \* Mailbox.live: a pump may drain at any instant
  continue,   \* Mailbox.continue_pending
  permit,     \* Mailbox.work: the one stored permit of the Notify
  checkout,   \* Worker.checkout_slot: the number of the parked checkout, or 0
  compact,    \* Worker.compact_slot
  replay,     \* Worker.replay_due
  cancelled,  \* is the token in Session.abort cancelled?
  shutdown,   \* worker_shutdown
  talked,     \* the conversation holds something
  pc,         \* where the worker is
  door,       \* the compaction door it opened last
  closing,    \* it serves the parked intent for the last time
  run,        \* the run it drives
  repairs,    \* overflows repaired so far
  calls,      \* per thread: what is left of the command it delivers
  sent,       \* messages submitted so far; a message is its number
  asks,       \* other commands sent so far
  checkouts,  \* checkouts parked so far
  stamp,      \* per message: the checkouts parked before it was submitted
  noticed,    \* messages acknowledged by message_queued
  entered,    \* messages announced by user_message, in order
  discarded   \* messages handed back by messages_discarded

mailbox == <<queue, live, continue, permit>>
intent == <<checkout, compact, replay>>
events == <<noticed, entered, discarded>>
worker == <<pc, door, closing, run, repairs>>
client == <<calls, sent, asks, checkouts, stamp>>
vars == <<mailbox, intent, cancelled, shutdown, talked, worker, client, events>>

NoRun == [phase |-> "none", queued |-> FALSE, turns |-> 0, defects |-> 0,
          retries |-> 0, stopping |-> FALSE, error |-> "none",
          result |-> "none", terminals |-> <<>>]

\* What a run leaves behind: the terminals it told.
Told(terminals) == [NoRun EXCEPT !.phase = "over", !.terminals = terminals]

Idle == [command |-> "none", todo |-> <<>>, message |-> 0]

Init ==
  /\ queue = <<>> /\ live = FALSE /\ continue = FALSE /\ permit = FALSE
  /\ checkout = 0 /\ compact = FALSE /\ replay = FALSE
  /\ cancelled = FALSE /\ shutdown = FALSE
  /\ talked \in BOOLEAN  \* a new session, or one resumed from its file
  /\ pc = "Replay" /\ door = "none" /\ closing = FALSE /\ run = NoRun /\ repairs = 0
  /\ calls = [c \in Clients |-> Idle] /\ sent = 0 /\ asks = 0 /\ checkouts = 0
  /\ stamp = [m \in Messages |-> 0]
  /\ noticed = {} /\ entered = <<>> /\ discarded = {}

-----------------------------------------------------------------------------
(* Delivering a command                                                    *)

Died == \E c \in Clients : calls[c].command = "death"

\* A new command of thread c.  A thread that closed the session sends nothing
\* more, and so does everyone once the frontend died.
Issue(c, command) ==
  /\ command \in Commands[c]
  /\ calls[c].todo = <<>> /\ calls[c].command # "close" /\ ~Died
  /\ IF command = "message"
       THEN sent < MaxMessages /\ sent' = sent + 1 /\ UNCHANGED asks
       ELSE asks < MaxAsks /\ asks' = asks + 1 /\ UNCHANGED sent
  /\ calls' = [calls EXCEPT ![c] =
                 [command |-> command, todo |-> Script[command],
                  message |-> IF command = "message" THEN sent' ELSE 0]]
  /\ stamp' = [m \in Messages |->
                 IF sent < m /\ m <= sent' THEN checkouts ELSE stamp[m]]
  /\ UNCHANGED <<mailbox, intent, cancelled, shutdown, talked, worker, checkouts,
                 events>>

\* Thread c takes the next step of its command.
At(c, step) == calls[c].todo # <<>> /\ Head(calls[c].todo) = step
Rest(call) ==
  IF Len(call.todo) = 1 /\ call.command \notin {"close", "death"}
    THEN Idle ELSE [call EXCEPT !.todo = Tail(@)]
Advance(c) ==
  /\ calls' = [calls EXCEPT ![c] = Rest(@)]
  /\ UNCHANGED <<sent, asks, stamp, talked, worker>>

\* push: while a pump is live the submission is acknowledged at once.
Announce(c) ==
  /\ At(c, "Announce") /\ Advance(c)
  /\ noticed' = IF live THEN noticed \cup {calls[c].message} ELSE noticed
  /\ UNCHANGED <<mailbox, intent, cancelled, shutdown, checkouts, entered, discarded>>

Push(c) ==
  /\ At(c, "Push") /\ Advance(c)
  /\ queue' = Append(queue, calls[c].message)
  /\ UNCHANGED <<live, continue, permit, intent, cancelled, shutdown, checkouts, events>>

Notify(c) ==
  /\ At(c, "Notify") /\ Advance(c)
  /\ permit' = TRUE
  /\ UNCHANGED <<queue, live, continue, intent, cancelled, shutdown, checkouts, events>>

ParkContinue(c) ==
  /\ At(c, "ParkContinue") /\ Advance(c)
  /\ continue' = TRUE
  /\ UNCHANGED <<queue, live, permit, intent, cancelled, shutdown, checkouts, events>>

ParkCompact(c) ==
  /\ At(c, "ParkCompact") /\ Advance(c)
  /\ compact' = TRUE
  /\ UNCHANGED <<mailbox, checkout, replay, cancelled, shutdown, checkouts, events>>

ParkReplay(c) ==
  /\ At(c, "ParkReplay") /\ Advance(c)
  /\ replay' = TRUE
  /\ UNCHANGED <<mailbox, checkout, compact, cancelled, shutdown, checkouts, events>>

\* A checkout must name an entry of the conversation; else it is only refused.
Probe(c) ==
  /\ At(c, "Probe")
  /\ \/ talked /\ Advance(c)
     \/ /\ calls' = [calls EXCEPT ![c] = Idle]
        /\ UNCHANGED <<sent, asks, stamp, talked, worker>>
  /\ UNCHANGED <<mailbox, intent, cancelled, shutdown, checkouts, events>>

\* Worker::abort: the parked checkout and compaction, the token, the queue.
DropSlots(c) ==
  /\ At(c, "DropSlots") /\ Advance(c)
  /\ checkout' = 0 /\ compact' = FALSE
  /\ UNCHANGED <<mailbox, replay, cancelled, shutdown, checkouts, events>>

Cancel(c) ==
  /\ At(c, "Cancel") /\ Advance(c)
  /\ cancelled' = TRUE
  /\ UNCHANGED <<mailbox, intent, shutdown, checkouts, events>>

Clear(c) ==
  /\ At(c, "Clear") /\ Advance(c)
  /\ queue' = <<>> /\ discarded' = discarded \cup ToSet(queue)
  /\ UNCHANGED <<live, continue, permit, intent, cancelled, shutdown, checkouts,
                 noticed, entered>>

Park(c) ==
  /\ At(c, "Park") /\ Advance(c)
  /\ checkouts' = checkouts + 1 /\ checkout' = checkouts'
  /\ UNCHANGED <<mailbox, compact, replay, cancelled, shutdown, events>>

\* close_commands, or the last act of the frontend-death door.
Pull(c) ==
  /\ At(c, "Pull") /\ Advance(c)
  /\ shutdown' = TRUE
  /\ UNCHANGED <<mailbox, intent, cancelled, checkouts, events>>

Deliver(c) ==
  \/ Announce(c) \/ Push(c) \/ Notify(c)
  \/ ParkContinue(c) \/ ParkCompact(c) \/ ParkReplay(c)
  \/ Probe(c) \/ DropSlots(c) \/ Cancel(c) \/ Clear(c) \/ Park(c) \/ Pull(c)

-----------------------------------------------------------------------------
(* The beat and the pump                                                   *)

Goto(place) ==
  /\ pc' = place
  /\ UNCHANGED <<client, shutdown>>

\* serve_parked: the pass first, then the checkout, then the compaction.
ServeReplay ==
  /\ pc = "Replay" /\ Goto("Checkout")
  /\ replay' = FALSE
  /\ UNCHANGED <<mailbox, checkout, compact, cancelled, talked, door, closing, run,
                 repairs, events>>

ServeCheckout ==
  /\ pc = "Checkout" /\ Goto("Compact")
  /\ checkout' = 0
  /\ UNCHANGED <<mailbox, compact, replay, cancelled, talked, door, closing, run,
                 repairs, events>>

AfterParked == IF closing THEN "Done" ELSE "Queued?"

ServeCompact ==
  /\ pc = "Compact" /\ Goto(IF compact THEN "OpenBox" ELSE AfterParked)
  /\ compact' = FALSE
  /\ door' = IF compact THEN "manual" ELSE door
  /\ UNCHANGED <<mailbox, checkout, replay, cancelled, talked, closing, run, repairs,
                 events>>

\* The beat's two checks; with neither a message nor a continue it goes on to
\* the idle compaction door.
BeatQueued ==
  /\ pc = "Queued?" /\ Goto(IF queue # <<>> THEN "Pump" ELSE "Continue?")
  /\ UNCHANGED <<mailbox, intent, cancelled, talked, door, closing, run, repairs, events>>

BeatContinue ==
  /\ pc = "Continue?" /\ Goto(IF continue THEN "Pump" ELSE "OpenBox")
  /\ door' = IF continue THEN door ELSE "idle"
  /\ UNCHANGED <<mailbox, intent, cancelled, talked, closing, run, repairs, events>>

PumpStarts ==
  /\ pc = "Pump" /\ Goto("PumpQueued?")
  /\ live' = TRUE
  /\ UNCHANGED <<queue, continue, permit, intent, cancelled, talked, door, closing, run,
                 repairs, events>>

PumpQueued ==
  /\ pc = "PumpQueued?" /\ Goto("PumpContinue?")
  /\ run' = [run EXCEPT !.queued = (queue # <<>>)]
  /\ UNCHANGED <<mailbox, intent, cancelled, talked, door, closing, repairs, events>>

\* Mutant: the pump looks at the continue intent without taking it.
PumpContinuePeeks ==
  /\ pc = "PumpContinue?"
  /\ Goto(IF run.queued \/ (continue /\ talked) THEN "OpenRun" ELSE "PumpEnd")
  /\ UNCHANGED <<mailbox, intent, cancelled, talked, door, closing, run, repairs, events>>

\* The continue intent is taken whatever follows; alone it starts a run only
\* over a conversation that holds something.
PumpContinue ==
  /\ pc = "PumpContinue?"
  /\ Goto(IF run.queued \/ (continue /\ talked) THEN "OpenRun" ELSE "PumpEnd")
  /\ continue' = FALSE
  /\ UNCHANGED <<queue, live, permit, intent, cancelled, talked, door, closing, run,
                 repairs, events>>

PumpEnds ==
  /\ pc = "PumpEnd" /\ Goto("Replay")
  /\ live' = FALSE
  /\ run' = NoRun
  /\ UNCHANGED <<queue, continue, permit, intent, cancelled, talked, door, closing,
                 repairs, events>>

\* The select of the idle worker.  Its two branches are polled one after the
\* other, so a wake may still win over a shutdown that just arrived.
Wake ==
  /\ pc = "Wait" /\ permit /\ Goto("Replay")
  /\ permit' = FALSE
  /\ UNCHANGED <<queue, live, continue, intent, cancelled, talked, door, closing, run,
                 repairs, events>>

WindDown ==
  /\ pc = "Wait" /\ shutdown /\ Goto("LastLook")
  /\ UNCHANGED <<mailbox, intent, cancelled, talked, door, closing, run, repairs, events>>

\* Queued messages are run before the end; else the parked intent is served
\* once more and the worker is done.
LastLook ==
  /\ pc = "LastLook" /\ Goto("Replay")
  /\ closing' = (queue = <<>>)
  /\ UNCHANGED <<mailbox, intent, cancelled, talked, door, run, repairs, events>>

-----------------------------------------------------------------------------
(* The compaction box                                                      *)

AfterBox == CASE door = "manual"   -> AfterParked
              [] door = "idle"     -> "Wait"
              [] door = "overflow" -> "Conclude"

\* run_box: a fresh token in the abort slot; then either the door does not fire
\* (thresholds, a short history, no usable model) or the model is asked.
OpenBox ==
  /\ pc = "OpenBox" /\ (Goto("Box") \/ Goto(AfterBox))
  /\ cancelled' = FALSE
  /\ UNCHANGED <<mailbox, intent, talked, door, closing, run, repairs, events>>

\* The box fails or summarizes; a context it repaired for a run that overflowed
\* is answered by the next run (overflow_intercept).
BoxAnswers ==
  /\ pc = "Box" /\ Goto(AfterBox)
  /\ \/ UNCHANGED <<continue, permit, repairs>>
     \/ /\ door = "overflow" /\ repairs < MaxRepairs
        /\ continue' = TRUE /\ permit' = TRUE /\ repairs' = repairs + 1
  /\ UNCHANGED <<queue, live, intent, cancelled, talked, door, closing, run, events>>

BoxCancelled ==
  /\ pc = "Box" /\ cancelled /\ Goto(AfterBox)
  /\ UNCHANGED <<mailbox, intent, cancelled, talked, door, closing, run, repairs, events>>

-----------------------------------------------------------------------------
(* One run                                                                 *)

\* run_one: a fresh token, then the guards that may refuse the run.
OpenRun ==
  /\ pc = "OpenRun" /\ Goto("Guard")
  /\ cancelled' = FALSE
  /\ run' = [NoRun EXCEPT !.phase = "Converge"]
  /\ UNCHANGED <<mailbox, intent, talked, door, closing, repairs, events>>

Ready ==
  /\ pc = "Guard" /\ Goto("Poll")
  /\ UNCHANGED <<mailbox, intent, cancelled, talked, door, closing, run, repairs, events>>

\* Mutant: a drain takes one message at a time.
EnterOne ==
  /\ queue' = IF queue = <<>> THEN queue ELSE Tail(queue)
  /\ entered' = entered \o SubSeq(queue, 1, 1)
  /\ talked' = (talked \/ queue # <<>>)
  /\ UNCHANGED <<live, noticed, discarded>>

\* The drained batch enters the conversation and is announced as one.
EnterQueued ==
  /\ queue' = <<>> /\ entered' = entered \o queue
  /\ talked' = (talked \/ queue # <<>>)
  /\ UNCHANGED <<live, noticed, discarded>>

\* Mutants: the failed open returns without telling; or leaves its batch queued.
FailBeforeEngineSilent ==
  /\ pc = "Guard" /\ Faults \cap {"persist", "agent"} # {}
  /\ Goto("PumpQueued?")
  /\ EnterQueued
  /\ UNCHANGED <<continue, permit, intent, cancelled, door, closing, run, repairs>>
FailBeforeEngineUndrained ==
  /\ pc = "Guard" /\ Faults \cap {"persist", "agent"} # {}
  /\ Goto("PumpQueued?")
  /\ run' = Told(<<"failed">>)
  /\ UNCHANGED <<mailbox, intent, cancelled, talked, door, closing, repairs, events>>

\* fail_before_engine: the batch is kept, the run fails, the pump goes on.
FailBeforeEngine ==
  /\ pc = "Guard" /\ Faults \cap {"persist", "agent"} # {}
  /\ Goto("PumpQueued?")
  /\ EnterQueued
  /\ run' = Told(<<"failed">>)
  /\ UNCHANGED <<continue, permit, intent, cancelled, door, closing, repairs>>

\* drive's biased select: the token first, at every item of the stream and
\* while the model call or the tools are awaited.
Poll ==
  /\ pc = "Poll" /\ ~cancelled /\ Goto("Engine")
  /\ UNCHANGED <<mailbox, intent, cancelled, talked, door, closing, run, repairs, events>>

\* Mutant: the token is looked at between two items only.
PreemptBetween ==
  /\ pc = "Poll"
  /\ cancelled /\ Goto("Conclude")
  /\ run' = [run EXCEPT !.result = "aborted"]
  /\ UNCHANGED <<mailbox, intent, cancelled, talked, door, closing, repairs, events>>

Preempt ==
  /\ pc = "Poll" \/ (pc = "Engine" /\ run.phase = "Turn")
  /\ cancelled /\ Goto("Conclude")
  /\ run' = [run EXCEPT !.result = "aborted"]
  /\ UNCHANGED <<mailbox, intent, cancelled, talked, door, closing, repairs, events>>

In(phase) == pc = "Engine" /\ run.phase = phase

\* CONVERGE of a run a hook stopped: nothing is drained, the queue is discarded.
Stop ==
  /\ In("Converge") /\ run.stopping /\ Goto("Conclude")
  /\ queue' = <<>> /\ discarded' = discarded \cup ToSet(queue)
  /\ run' = [run EXCEPT !.result = "failed"]
  /\ UNCHANGED <<live, continue, permit, intent, cancelled, talked, door, closing,
                 repairs, noticed, entered>>

\* CONVERGE: everything queued enters as one Steer item.
Converge ==
  /\ In("Converge") /\ ~run.stopping
  /\ Goto(IF queue = <<>> THEN "Engine" ELSE "Poll")
  /\ EnterQueued
  /\ run' = IF queue = <<>> THEN [run EXCEPT !.phase = "Decide"]
            ELSE [run EXCEPT !.phase = "Decide", !.defects = 0, !.retries = 0]
  /\ UNCHANGED <<continue, permit, intent, cancelled, door, closing, repairs>>

\* Mutant: one turn too many.
OverOneLate == \/ run.error # "none"
               \/ run.defects > RetryCap \/ run.retries > RetryCap
               \/ run.turns > MaxTurns
               \/ ~talked

\* DECIDE: what ends the run before another request.
Over == \/ run.error # "none"
        \/ run.defects > RetryCap \/ run.retries > RetryCap
        \/ run.turns >= MaxTurns
        \/ ~talked

Decide ==
  /\ In("Decide")
  /\ IF Over
       THEN /\ Goto(IF run.error = "overflow" THEN "OpenBox" ELSE "Conclude")
            /\ door' = IF run.error = "overflow" THEN "overflow" ELSE door
            /\ run' = [run EXCEPT !.result = "failed"]
       ELSE /\ Goto("Poll") /\ UNCHANGED door
            /\ run' = [run EXCEPT !.phase = "Turn"]
  /\ UNCHANGED <<mailbox, intent, cancelled, talked, closing, repairs, events>>

\* What the model call and its tools may come to, as the next poll and run.
Outcomes ==
  LET settled == [run EXCEPT !.defects = 0, !.retries = 0]
      batch == [settled EXCEPT !.phase = "Converge", !.turns = @ + 1]
      again == [run EXCEPT !.phase = "Converge"]
      failure(kind) == [again EXCEPT !.error = kind]
  IN  {[poll |-> "Poll",   run |-> [settled EXCEPT !.phase = "Final"]],
       [poll |-> "Poll",   run |-> batch],
       [poll |-> "Poll",   run |-> [again EXCEPT !.defects = @ + 1]],
       [poll |-> "Engine", run |-> [again EXCEPT !.retries = @ + 1]],
       [poll |-> "Engine", run |-> failure("terminal")]}
      \cup {[poll |-> "Poll", run |-> [batch EXCEPT !.stopping = TRUE]] :
               f \in Faults \cap {"stop"}}
      \cup {[poll |-> "Engine", run |-> failure("overflow")] :
               f \in Faults \cap {"overflow"}}

TurnEnds ==
  /\ In("Turn")
  /\ \E o \in Outcomes : Goto(o.poll) /\ run' = o.run
  /\ UNCHANGED <<mailbox, intent, cancelled, talked, door, closing, repairs, events>>

\* The final response: run_finished is announced, and the stream polled on.
Final ==
  /\ In("Final") /\ Goto("Poll")
  /\ run' = [run EXCEPT !.phase = "End", !.terminals = Append(@, "finished")]
  /\ UNCHANGED <<mailbox, intent, cancelled, talked, door, closing, repairs, events>>

StreamEnds ==
  /\ In("End") /\ Goto("Conclude")
  /\ run' = [run EXCEPT !.result = "finished"]
  /\ UNCHANGED <<mailbox, intent, cancelled, talked, door, closing, repairs, events>>

\* The terminal of an aborted or failed run; an aborted run stops the pump.
Conclude ==
  /\ pc = "Conclude"
  /\ Goto(IF run.result = "aborted" THEN "PumpEnd" ELSE "PumpQueued?")
  /\ run' = Told(IF run.result = "finished" THEN run.terminals
                  ELSE Append(run.terminals, run.result))
  /\ UNCHANGED <<mailbox, intent, cancelled, talked, door, closing, repairs, events>>

-----------------------------------------------------------------------------
(* The specification                                                       *)

\* What waits for a provider or a tool.
Answer == BoxAnswers \/ TurnEnds

\* What the worker's task does by itself.
Work ==
  \/ ServeReplay \/ ServeCheckout \/ ServeCompact
  \/ BeatQueued \/ BeatContinue \/ PumpStarts \/ PumpQueued \/ PumpContinue
  \/ PumpEnds \/ Wake \/ WindDown \/ LastLook
  \/ OpenBox \/ BoxCancelled
  \/ OpenRun \/ Ready \/ FailBeforeEngine \/ Poll \/ Preempt
  \/ Stop \/ Converge \/ Decide \/ Final \/ StreamEnds \/ Conclude

Next ==
  \/ \E c \in Clients : Deliver(c) \/ \E command \in Commands[c] : Issue(c, command)
  \/ Work
  \/ Answer

Spec == Init /\ [][Next]_vars

\* The runtime schedules the worker's task and finishes the delivery of a
\* command it began; nobody owes another command.
Scheduled == WF_vars(Work) /\ \A c \in Clients : WF_vars(Deliver(c))

\* A provider, or a user asked by a tool, may never answer.
HangingSpec == Spec /\ Scheduled

\* They always answer in the end.
AnsweringSpec == Spec /\ Scheduled /\ WF_vars(Answer)

-----------------------------------------------------------------------------
(* Properties                                                              *)

Places == {"Replay", "Checkout", "Compact", "Queued?", "Continue?", "Pump",
           "PumpQueued?", "PumpContinue?", "PumpEnd", "OpenRun", "Guard", "Poll",
           "Engine", "Conclude", "OpenBox", "Box", "Wait", "LastLook", "Done"}
Steps == UNION {ToSet(Script[command]) : command \in DOMAIN Script}
Terminals == {"finished", "aborted", "failed"}

Runs == [phase : {"none", "Converge", "Decide", "Turn", "Final", "End", "over"},
         queued : BOOLEAN, turns : 0..MaxTurns,
         defects : 0..(RetryCap + 1), retries : 0..(RetryCap + 1),
         stopping : BOOLEAN, error : {"none", "terminal", "overflow"},
         result : {"none"} \cup Terminals, terminals : Seq(Terminals)]

\* Every variable keeps the type its declaration gives it; in particular no run
\* commits more than max_turns turns, nor repeats an attempt beyond the cap.
TypeOK ==
  /\ queue \in Seq(Messages) /\ {live, continue, permit} \subseteq BOOLEAN
  /\ checkout \in 0..checkouts /\ {compact, replay} \subseteq BOOLEAN
  /\ {cancelled, shutdown, talked, closing} \subseteq BOOLEAN
  /\ pc \in Places /\ door \in {"none", "manual", "idle", "overflow"}
  /\ run \in Runs /\ repairs \in 0..MaxRepairs
  /\ calls \in [Clients -> [command : DOMAIN Script \cup {"none"}, todo : Seq(Steps),
                            message : 0..MaxMessages]]
  /\ sent \in 0..MaxMessages /\ asks \in 0..MaxAsks /\ checkouts \in 0..asks
  /\ stamp \in [Messages -> 0..checkouts]
  /\ noticed \subseteq Messages /\ entered \in Seq(Messages)
  /\ discarded \subseteq Messages

Ledger == INSTANCE MessageLedger

\* The message ledger (FRONTEND.md, section 9; mailbox.rs): whatever pumps, runs,
\* stops, aborts and checkouts race, a message is accepted once, keeps its place,
\* and leaves the mailbox exactly once, into the conversation or back as a draft.
ImplementsLedger == Ledger!Spec

\* Mailbox::push acknowledges before it queues: a frontend never reads
\* message_queued of a message whose user_message or discard it already saw, so
\* no pending row is left behind.
QueuedBeforeFate ==
  [][\A m \in noticed' \ noticed : m \notin ToSet(entered) \cup discarded]_vars

\* No wakeup is lost (Mailbox::work_signal): the worker sleeps over something
\* pending only while the thread that put it there still has to notify.
NoLostWakeup ==
  (pc = "Wait" /\ ~permit /\ (queue # <<>> \/ continue \/ compact \/ replay \/ checkout # 0))
    => \E c \in Clients : "Notify" \in ToSet(calls[c].todo)

\* Every run the pump opened has told its terminal by the time the pump goes on:
\* one of the three, or the run_aborted that follows a run_finished when an abort
\* lands between the final response and the end of the stream.
RunsAreTold ==
  /\ run.terminals \in {<<>>, <<"finished">>, <<"aborted">>, <<"failed">>,
                        <<"finished", "aborted">>}
  /\ (run.phase = "over") => run.terminals # <<>>
  /\ pc \in {"PumpQueued?", "PumpContinue?", "PumpEnd"} => run.phase \in {"none", "over"}

\* The watermark rule (FRONTEND.md, section 7): once a checkout is parked, no
\* message the same frontend submitted before it enters the conversation any more.
Watermark ==
  [][\A m \in ToSet(entered') \ ToSet(entered) : stamp[m] = checkouts]_vars

\* The polite close (spawn_worker): what the closing thread delivered before it
\* closed is drained, or served, before the worker is done.
CloseServes ==
  pc = "Done" => queue = <<>> /\ checkout = 0 /\ ~compact /\ ~replay

\* Abort ends the run at its next await (drive's biased select), also when the
\* provider or a card the tool waits on never answers.
AbortPreempts == (cancelled /\ pc \in {"Poll", "Engine"}) ~> pc \notin {"Poll", "Engine"}

\* Every queued message gets its fate, provided the provider answers.
MessagesGetTheirFate ==
  \A m \in Messages : m \in ToSet(queue) ~> m \notin ToSet(queue)

\* Every parked intent is served, superseded or dropped: the slots, the flag and
\* the continue intent never stay behind a run.  (A continue parked right before a
\* close may stay behind the worker's end.)
IntentIsServed ==
  /\ checkout # 0 ~> checkout = 0
  /\ compact ~> ~compact
  /\ replay ~> ~replay
  /\ continue ~> (~continue \/ pc = "Done")

\* Once the session closes, its worker reaches its end, so that the stream ends
\* and the file is released.
CloseWindsDown == shutdown ~> pc = "Done"

\* A close loses nothing it was handed and comes to its end.
CloseServesAndEnds == []CloseServes /\ CloseWindsDown

-----------------------------------------------------------------------------
(* What the documentation says and the code does not keep                  *)

\* FRONTEND.md, section 4: exactly one terminal per run.
OneTerminal == Len(run.terminals) <= 1

\* run.rs (pump): a checkout parked behind a run executes before a later message
\* runs, so no message enters the chain the checkout is about to leave.
CheckoutFirst ==
  [][\A m \in ToSet(entered') \ ToSet(entered) :
       checkout = 0 \/ stamp[m] < checkout]_vars

\* drive.rs (the entry rule): the pump prevents a run over an empty conversation
\* with nothing queued.
EntryContract == In("Decide") => talked

\* endpoint.rs (spawn_worker): everything submitted before the close is run
\* before winding down, the continue command included.
CloseServesContinue == pc = "Done" => ~continue

\* endpoint.rs (spawn_worker): submissions that race the wind-down simply run
\* too; nothing is lost.
NothingLost == pc = "Done" => queue = <<>>

\* endpoint.rs (Worker::abort): abort is drop-all-pending-intent, a continue the
\* frontend parked before it included.
AbortDropsContinue ==
  [][\A c \in Clients :
       (calls[c].command = "abort" /\ At(c, "Clear") /\ ~At(c, "Clear")') => ~continue']_vars

\* endpoint.rs (mount): the frontend's death aborts every run in flight and winds
\* the worker down, also when the run waits for a card nobody will answer.
DeathWindsDown == (shutdown /\ Died) ~> pc = "Done"
=============================================================================
