----------------------------- MODULE EngineLoop -----------------------------
(***************************************************************************)
(* The agent run's coroutine: converge, decide, the door, prepare, model   *)
(* and settle (tabit-engine agent/drive.rs drive_agent), over the durable  *)
(* conversation it writes and the item stream its owner reads.             *)
(*                                                                         *)
(* A step is what one poll does between two suspensions; the owner may     *)
(* drop the run at every suspension.  Turn ids are the attempts' numbers.  *)
(***************************************************************************)
EXTENDS Integers, FiniteSets, SequencesExt

CONSTANTS MaxSteers,   \* bound on the messages sent, numbered as they are sent
          MaxTurns,    \* AgentRunner::max_turns
          RetryCap,    \* TURN_RETRY_CAP
          MaxAttempts  \* bound on the attempts, beyond what a run can issue

ASSUME EngineAssumption ==
  /\ MaxTurns \in Nat \ {0} /\ MaxSteers \in Nat /\ RetryCap \in Nat /\ MaxAttempts \in Nat

VARIABLES at,        \* where the coroutine is suspended
          queue,     \* the mailbox the steering source drains
          sent,      \* messages ever queued, a count
          journal,   \* the conversation cell: every fold, in order
          turn,      \* current_turn: the last attempt
          defects,   \* defect_streak
          failures,  \* provider_streak
          pending,   \* pending_error with its class
          stopping,  \* terminating
          used,      \* turns_used
          slot,      \* the TurnCostSlot: whose dollars it holds, 0 for none
          told,      \* the steers and commits yielded, in order
          said       \* the item yielded last

loopVars == <<at, queue, sent, journal, turn, defects, failures, pending, stopping, used, slot, told, said>>

User(m) == [kind |-> "user", id |-> m]
Assistant(id, calls, cost) == [kind |-> "assistant", id |-> id, calls |-> calls, cost |-> cost]
Results(id) == [kind |-> "results", id |-> id]
Compaction == [kind |-> "compaction"]
Item(kind, what) == [kind |-> kind, what |-> what]
Tell(kind, what) ==
  /\ said' = Item(kind, what)
  /\ told' = IF kind \in {"steer", "committed"} THEN Append(told, said') ELSE told

LoopInit ==
  /\ at = "converge" /\ queue = <<>> /\ sent = 0
  /\ journal \in {<<>>, <<User(0)>>}
  /\ turn = 0 /\ defects = 0 /\ failures = 0 /\ pending = "none"
  /\ stopping = FALSE /\ used = 0 /\ slot = 0 /\ told = <<>> /\ said = Item("none", 0)

Send ==
  /\ at # "over" /\ sent < MaxSteers
  /\ sent' = sent + 1 /\ queue' = Append(queue, sent')
  /\ UNCHANGED <<at, journal, turn, defects, failures, pending, stopping, used, slot, told, said>>

\* The owner drops the run future; the cell keeps what was folded.
Abort ==
  /\ at # "over" /\ at' = "over" /\ Tell("aborted", 0)
  /\ UNCHANGED <<queue, sent, journal, turn, defects, failures, pending, stopping, used, slot>>

Stopped ==
  /\ at = "converge" /\ stopping
  /\ queue' = <<>> /\ at' = "over" /\ Tell("error", "stopped")
  /\ UNCHANGED <<sent, journal, turn, defects, failures, pending, stopping, used, slot>>

\* The one drain: fold the batch and announce it in the same poll.
Drain ==
  /\ at = "converge" /\ ~stopping
  /\ journal' = journal \o [n \in DOMAIN queue |-> User(queue[n])]
  /\ IF queue = <<>> THEN UNCHANGED <<told, said, defects, failures>>
     ELSE Tell("steer", queue) /\ defects' = 0 /\ failures' = 0
  /\ queue' = <<>> /\ at' = "decide"
  /\ UNCHANGED <<sent, turn, pending, stopping, used, slot>>

\* The one policy site, in its order; the entry rule binds the first decision.
Spent == used >= MaxTurns
Verdict ==
  CASE pending = "terminal" -> "provider"
    [] defects > RetryCap -> "defects"
    [] failures > RetryCap -> "retries"
    [] Spent -> "budget"
    [] turn = 0 /\ journal = <<>> -> "empty"
    [] OTHER -> "go"
Exit ==
  /\ at = "decide" /\ Verdict # "go"
  /\ at' = "over" /\ Tell("error", Verdict)
  /\ UNCHANGED <<queue, sent, journal, turn, defects, failures, pending, stopping, used, slot>>

\* at_door: the session's compaction may rewrite the conversation here.
Door ==
  /\ at = "decide" /\ Verdict = "go"
  /\ \/ UNCHANGED journal
     \/ Compaction \notin Range(journal) /\ journal' = Append(journal, Compaction)
  /\ at' = "prepare"
  /\ UNCHANGED <<queue, sent, turn, defects, failures, pending, stopping, used, slot, told, said>>

BadRequest ==
  /\ at = "prepare" /\ turn < MaxAttempts
  /\ turn' = turn + 1 /\ pending' = "terminal" /\ at' = "converge"
  /\ UNCHANGED <<queue, sent, journal, defects, failures, stopping, used, slot, told, said>>

Announce ==
  /\ at = "prepare" /\ turn < MaxAttempts
  /\ turn' = turn + 1 /\ at' = "model" /\ Tell("started", turn')
  /\ UNCHANGED <<queue, sent, journal, defects, failures, pending, stopping, used, slot>>

\* The provider's final record: the owner prices the call before it polls again.
Report ==
  /\ at = "model" /\ at' = "reported" /\ slot' = turn /\ Tell("call", turn)
  /\ UNCHANGED <<queue, sent, journal, turn, defects, failures, pending, stopping, used>>

Defect ==
  /\ at \in {"model", "reported"} /\ at' = "converge"
  /\ defects' = defects + 1 /\ Tell("retried", turn)
  /\ UNCHANGED <<queue, sent, journal, turn, failures, pending, stopping, used, slot>>
ProviderError ==
  /\ at \in {"model", "reported"} /\ at' = "converge"
  /\ \/ failures' = failures + 1 /\ pending' = "retryable"
     \/ pending' = "terminal" /\ UNCHANGED failures
  /\ UNCHANGED <<queue, sent, journal, turn, defects, stopping, used, slot, told, said>>

\* A completed turn without tools: its content is folded unless it is empty.
Final ==
  /\ at = "reported" /\ at' = "final"
  /\ \/ journal' = Append(journal, Assistant(turn, FALSE, slot)) /\ slot' = 0
     \/ UNCHANGED <<journal, slot>>
  /\ defects' = 0 /\ failures' = 0 /\ pending' = "none" /\ Tell("committed", turn)
  /\ UNCHANGED <<queue, sent, turn, stopping, used>>
Finish ==
  /\ at = "final" /\ at' = "over" /\ Tell("done", turn)
  /\ UNCHANGED <<queue, sent, journal, turn, defects, failures, pending, stopping, used, slot>>

\* A turn with tools stays a local until its batch has settled.
ToolsFoldEarly ==
  /\ at = "reported" /\ at' = "batch"
  /\ journal' = Append(journal, Assistant(turn, TRUE, slot))
  /\ defects' = 0 /\ failures' = 0 /\ pending' = "none"
  /\ UNCHANGED <<queue, sent, turn, stopping, used, slot, told, said>>
Tools ==
  /\ at = "reported" /\ at' = "batch"
  /\ defects' = 0 /\ failures' = 0 /\ pending' = "none"
  /\ UNCHANGED <<queue, sent, journal, turn, stopping, used, slot, told, said>>
Settled ==
  /\ at = "batch" /\ at' = "settled" /\ Tell("results", turn)
  /\ UNCHANGED <<queue, sent, journal, turn, defects, failures, pending, stopping, used, slot>>
\* The roundtrip commits whole; only now does the loop learn of a stop.
Roundtrip ==
  /\ at = "settled" /\ at' = "converge"
  /\ journal' = journal \o <<Assistant(turn, TRUE, slot), Results(turn)>> /\ slot' = 0
  /\ Tell("committed", turn) /\ used' = used + 1 /\ stopping' \in BOOLEAN
  /\ UNCHANGED <<queue, sent, turn, defects, failures, pending>>

LoopStep == \/ Stopped \/ Drain \/ Exit \/ Door \/ BadRequest \/ Announce \/ Report
            \/ Defect \/ ProviderError \/ Final \/ Finish \/ Tools \/ Settled \/ Roundtrip
LoopNext == LoopStep \/ Abort \/ Send

-----------------------------------------------------------------------------
LoopTypeOK ==
  /\ at \in {"converge", "decide", "prepare", "model", "reported", "final", "batch", "settled", "over"}
  /\ sent \in 0..MaxSteers /\ Range(queue) \subseteq 1..sent
  /\ {turn, slot} \subseteq 0..MaxAttempts /\ used \in 0..MaxTurns
  /\ {defects, failures} \subseteq 0..RetryCap + 1
  /\ pending \in {"none", "retryable", "terminal"} /\ stopping \in BOOLEAN

\* Wherever the run may be dropped, no call in the conversation lacks its
\* results and no results lack their call.
RoundtripBoundary ==
  \A n \in DOMAIN journal :
    /\ journal[n].kind = "assistant" /\ journal[n].calls =>
         n < Len(journal) /\ journal[n + 1] = Results(journal[n].id)
    /\ journal[n].kind = "results" =>
         n > 1 /\ journal[n - 1].kind = "assistant" /\ journal[n - 1].id = journal[n].id

\* Whatever was folded was announced by the same poll, and in the order it was sent and
\* attempted: the owner that drops the run has heard of every entry, once. A turn
\* without content is told as a commit and is no entry.
Entries(kind) == {n \in DOMAIN journal : journal[n].kind = kind}
Heard(kind) == {n \in DOMAIN told : told[n].kind = kind}
SteersAreTold ==
  LET said_by(n) == Range(told[n].what)
  IN /\ \A m, n \in Entries("user") : m < n => journal[m].id < journal[n].id
     /\ \A n \in Heard("steer") : \A i, j \in DOMAIN told[n].what : i < j => told[n].what[i] < told[n].what[j]
     /\ \A m, n \in Heard("steer") : m < n => \A a \in said_by(m) : \A b \in said_by(n) : a < b
     /\ {journal[n].id : n \in Entries("user")} \ {0} = UNION {said_by(n) : n \in Heard("steer")}
TurnsAreTold ==
  LET folded == {journal[n].id : n \in Entries("assistant")}
      heard == {told[n].what : n \in Heard("committed")}
  IN /\ \A m, n \in Entries("assistant") : m < n => journal[m].id < journal[n].id
     /\ \A m, n \in Heard("committed") : m < n => told[m].what < told[n].what
     /\ folded = heard \/ (at \in {"final", "over"} /\ folded = heard \ {turn})
CommitsAreTold == SteersAreTold /\ TurnsAreTold

\* Two classes of failure, RetryCap retries each: between two steers or completed
\* turns an unattended run issues no more than that many calls.
UnattendedIsBounded ==
  turn <= (2 * RetryCap + 1) * (1 + Len(told))

\* max_turns bounds the committed roundtrips, and a spent budget issues no call.
BudgetHolds ==
  LET rounds == Cardinality(Entries("results"))
  IN rounds <= MaxTurns /\ (rounds = MaxTurns => at \notin {"prepare", "model", "batch"})

\* A stop is final: its turn is the last thing committed, nothing queued behind
\* it is folded, and the queue is empty when the run is over.
StopIsFinal ==
  /\ stopping => Last(journal).kind = "results"
  /\ stopping /\ at = "over" /\ said.kind = "error" => queue = <<>>

\* The dollars on a committed turn are those of its own attempt, although a
\* discarded attempt may have left some in the slot.
CostIsItsOwn ==
  \A n \in DOMAIN journal : journal[n].kind = "assistant" => journal[n].cost = journal[n].id

\* No run hangs: while it is not over some step of the loop is possible, however
\* its calls failed and whatever was queued. With the bound above, every run ends.
RunGoesOn == at # "over" => ENABLED LoopStep

\* NOT true of the code: runner.rs, max_turns: "the total model-call budget, including the initial call
\* and every retry or continuation".
CallsWithinBudget == said.kind = "started" => turn <= MaxTurns
=============================================================================
