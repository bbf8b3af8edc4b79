----------------------------- MODULE TuiStreams -----------------------------
(***************************************************************************)
(* The terminal frontend's fold of a backend's streams (tui mode.ts): the  *)
(* root session and its subagents each have a state of their own, one of   *)
(* them has the focus and feeds the dock, the subagent list shows the      *)
(* others until they have been at rest for a while, and a closed stream    *)
(* nobody can reach is dropped.  The frames of a stream come in the order  *)
(* its session emits them, so `backend` is what the session is doing and   *)
(* `asking` what has become of the question it put.                        *)
(***************************************************************************)
EXTENDS Integers, SequencesExt, FiniteSetsExt

CONSTANTS Root, Kids,
  MaxRuns,       \* how many runs and compactions each session has left, a bound
  SettledAhead   \* whether a subagent's questions are settled ahead of its close, as mode.ts expects

VARIABLES
  backend,   \* what each session is doing
  runs,      \* the runs each session has left
  asking,    \* the question of each session: "none", "shown", "answered", or "quiet" for one without a card
  cards,     \* the streams with a card open (one question per stream)
  streams,   \* the StreamStates by id
  focused,   \* the stream the dock, the editor and Esc belong to
  listed,    \* the visible rows of the subagent list
  catalog,   \* the catalog channel: a check in flight, and its resolved state
  resting,   \* what the last outcome left for the program status
  dock       \* what the view was last told

asks == <<asking, cards>>
streamVars == <<backend, runs, asks, streams, focused, listed, catalog, resting, dock>>

Sessions == {Root} \cup Kids
Nobody == "nobody"
Registered == DOMAIN streams

\* A subagent has no subagents: its parent is the session that spawned it.
NewStream(s) ==
  [parent |-> IF s = Root THEN Nobody ELSE Root, running |-> FALSE, compacting |-> FALSE, replaying |-> FALSE,
   closed |-> FALSE, terminal |-> "none", faded |-> FALSE, queue |-> 0, context |-> 0]

-----------------------------------------------------------------------------
\* What the view is told: the strip, the footer and the queue of the focused stream.
StatusText(r, cat) == CASE r.compacting -> "compacting"
                        [] ~r.compacting /\ r.running -> "working"
                        [] OTHER -> IF cat.checking THEN "checking" ELSE "idle"
Footer(s, r, cat) == [session |-> s, context |-> r.context, running |-> r.running,
                      closed |-> r.closed, catalog |-> cat.state]
FocusedState(s, r, cat) ==
  [strip |-> StatusText(r, cat), footer |-> Footer(s, r, cat), queue |-> r.queue]

\* emitStatus, setPending and emitFooter: each only when its stream has the focus.
Emit(what, s, r) ==
  IF s # focused THEN dock.view
  ELSE CASE what = "nothing" -> dock.view
         [] what = "strip" -> [dock.view EXCEPT !.strip = StatusText(r, catalog)]
         [] what = "queue" -> [dock.view EXCEPT !.queue = r.queue]
         [] what = "all" -> FocusedState(s, r, catalog)

\* reportProgramStatus, at the end of every frame and of every answer: a card that waits
\* on the user before a stream at work before the last outcome.
ProgramStatus(open, sts, outcome) ==
  CASE open # {} -> "blocked"
    [] open = {} /\ (\E s \in DOMAIN sts : sts[s].running \/ sts[s].compacting) -> "working"
    [] OTHER -> outcome

\* SubagentList::reproject: a running row, one without a terminal, or a recent one.
Visible(sts) == {s \in DOMAIN sts \ {Root} : \/ sts[s].running \/ sts[s].terminal = "none"
                                            \/ ~sts[s].faded}
\* sweepClosed: the list answers with the rows it last showed.
Unreachable(sts, focus, rows) == {s \in DOMAIN sts \ {Root, focus} : sts[s].closed /\ s \notin rows}
Swept(sts, focus, rows) == Restrict(sts, DOMAIN sts \ Unreachable(sts, focus, rows))

\* One stamped frame: the handler's fold, its emission, the list, the cards, the status.
FoldCards(s, r, what, outcome, open) ==
  /\ s \in Registered /\ cards' = open
  /\ streams' = [streams EXCEPT ![s] = r]
  /\ listed' = Visible(streams')
  /\ resting' = outcome
  /\ dock' = [view |-> Emit(what, s, r), status |-> ProgramStatus(open, streams', outcome)]
  /\ UNCHANGED <<focused, catalog>>
Fold(s, r, what, outcome) == FoldCards(s, r, what, outcome, cards) /\ UNCHANGED asking
Session(s, from, to) == backend[s] \in from /\ backend' = [backend EXCEPT ![s] = to]

-----------------------------------------------------------------------------
StreamsInit ==
  /\ backend = [s \in Sessions |-> "unborn"] /\ runs = MaxRuns
  /\ asking = [s \in Sessions |-> "none"] /\ cards = {}
  /\ streams = <<>> /\ focused = Nobody /\ listed = {}
  /\ catalog = [checking |-> FALSE, state |-> "unsaid"] /\ resting = "idle"
  /\ dock = [view |-> [strip |-> "connecting", footer |-> "unsaid", queue |-> 0], status |-> "idle"]

\* registerStream and session_opened: a rootless announce takes the focus.
SessionOpened(s) ==
  /\ Session(s, {"unborn"}, "idle")
  /\ s # Root => Root \in Registered /\ backend[Root] = "run"
  /\ streams' = [t \in Registered \cup {s} |-> IF t = s THEN NewStream(s) ELSE streams[t]]
  /\ focused' = IF s = Root THEN s ELSE focused
  /\ listed' = Visible(streams')
  /\ dock' = [view |-> IF s = Root THEN FocusedState(s, NewStream(s), catalog) ELSE dock.view,
              status |-> ProgramStatus(cards, streams', resting)]
  /\ UNCHANGED <<runs, asks, catalog, resting>>

\* A run opens with its message, which may have waited in the queue; outside
\* of a replay pass it lights the stream.
Lit(r) == IF r.replaying THEN r ELSE [r EXCEPT !.running = TRUE, !.terminal = "none", !.faded = FALSE]
UserMessage(s) ==
  /\ Session(s, {"idle"}, "run") /\ runs[s] > 0 /\ runs' = [runs EXCEPT ![s] = @ - 1]
  /\ \E drained \in {0, streams[s].queue} : Fold(s, [Lit(streams[s]) EXCEPT !.queue = @ - drained], "all", resting)
\* A steer drains between two turns of the run it was queued in.
Steer(s) == /\ backend[s] = "run" /\ streams[s].queue > 0 /\ UNCHANGED <<backend, runs>>
            /\ Fold(s, [Lit(streams[s]) EXCEPT !.queue = @ - 1], "all", resting)
\* A continue is accepted in silence: its first turn is the first sign of the run.
ContinueAccepted(s) ==
  /\ Session(s, {"idle"}, "opening") /\ runs[s] > 0 /\ runs' = [runs EXCEPT ![s] = @ - 1]
  /\ UNCHANGED <<asks, streams, focused, listed, catalog, resting, dock>>
TurnStarted(s) ==
  /\ Session(s, {"opening", "run"}, "run")
  /\ Fold(s, IF streams[s].running THEN streams[s] ELSE Lit(streams[s]),
             IF streams[s].running THEN "nothing" ELSE "all", resting)
  /\ UNCHANGED runs
CompletionCall(s) ==
  /\ backend[s] = "run" /\ UNCHANGED <<backend, runs>>
  /\ Fold(s, [streams[s] EXCEPT !.context = 2], "all", resting)
MessageQueued(s) ==
  /\ backend[s] = "run" /\ streams[s].queue = 0 /\ UNCHANGED <<backend, runs>>
  /\ Fold(s, [streams[s] EXCEPT !.queue = 1], "queue", resting)
MessagesDiscarded(s) ==
  /\ backend[s] = "run" /\ streams[s].queue = 1 /\ UNCHANGED <<backend, runs>>
  /\ Fold(s, [streams[s] EXCEPT !.queue = 0], "queue", resting)

\* A question of the run, or of an extension beside it; one of an unknown shape has no card.
InteractionRequest(s) ==
  /\ backend[s] = "run" /\ asking[s] = "none" /\ UNCHANGED <<backend, runs>>
  /\ \E known \in BOOLEAN :
       /\ asking' = [asking EXCEPT ![s] = IF known THEN "shown" ELSE "quiet"]
       /\ FoldCards(s, streams[s], "nothing", resting, IF known THEN cards \cup {s} ELSE cards)
\* answerCard: whatever has the focus, the answer goes to the card's own stream.
AnswerCard(s) ==
  /\ s \in cards /\ cards' = cards \ {s} /\ asking' = [asking EXCEPT ![s] = "answered"]
  /\ dock' = [dock EXCEPT !.status = ProgramStatus(cards', streams, resting)]
  /\ UNCHANGED <<backend, runs, streams, focused, listed, catalog, resting>>
\* The settle of a question, answered or not; on a stream that is gone it is dropped.
InteractionSettled(s) ==
  /\ asking[s] # "none" /\ asking' = [asking EXCEPT ![s] = "none"] /\ UNCHANGED <<backend, runs>>
  /\ IF s \in Registered THEN FoldCards(s, streams[s], "nothing", resting, cards \ {s})
     ELSE UNCHANGED <<cards, streams, focused, listed, catalog, resting, dock>>

\* A run that finished or was aborted closes its stream's card, one that failed does not.
Rested(r, how) == [r EXCEPT !.running = FALSE, !.terminal = how, !.faded = FALSE]
Rests(s, how, outcome) == /\ FoldCards(s, Rested(streams[s], how), "all", outcome, cards \ {s})
                          /\ asking' = [asking EXCEPT ![s] = "none"]
RunFinished(s) == /\ Session(s, {"run"}, "idle") /\ UNCHANGED runs
                  /\ Rests(s, "completed", "done")
RunAborted(s) == /\ Session(s, {"run", "opening"}, "idle") /\ UNCHANGED runs
                 /\ Rests(s, "aborted", "idle")
RunFailed(s) == /\ Session(s, {"run", "opening"}, "idle") /\ UNCHANGED runs
                /\ Fold(s, Rested(streams[s], "failed"), "all", "error")

\* The brackets of a replay pass; a committed turn within them meters its call.
ReplayBegin(s) == /\ Session(s, {"idle"}, "replay") /\ UNCHANGED runs
                  /\ Fold(s, [streams[s] EXCEPT !.replaying = TRUE], "nothing", resting)
ReplayedMessage(s) == /\ backend[s] = "replay" /\ UNCHANGED <<backend, runs>>
                      /\ Fold(s, Lit(streams[s]), "nothing", resting)
ReplayedCall(s) == /\ backend[s] = "replay" /\ UNCHANGED <<backend, runs>>
                   /\ Fold(s, [streams[s] EXCEPT !.context = 2], "all", resting)
ReplayEnd(s) == /\ Session(s, {"replay"}, "idle") /\ UNCHANGED runs
                /\ Fold(s, [streams[s] EXCEPT !.replaying = FALSE], "nothing", resting)

\* On command, or at the door of a run's request.
CompactionBegin(s) == /\ Session(s, {"idle", "run"}, IF backend[s] = "run" THEN "compact in run" ELSE "compact")
                      /\ runs[s] > 0 /\ runs' = [runs EXCEPT ![s] = @ - 1]
                      /\ Fold(s, [streams[s] EXCEPT !.compacting = TRUE], "strip", resting)
Compacted(s) == Session(s, {"compact", "compact in run"}, IF backend[s] = "compact" THEN "idle" ELSE "run") /\ UNCHANGED runs
CompactionEnd(s) == /\ Compacted(s)
                    /\ Fold(s, [streams[s] EXCEPT !.compacting = FALSE, !.context = 1], "all", "done")
CompactionFailed(s) == /\ Compacted(s)
                       /\ Fold(s, [streams[s] EXCEPT !.compacting = FALSE], "strip", "error")

\* session_closed: the last frame of a subagent, whatever it was doing; it looks at no
\* card.  The sweep asks the list before the list hears of the close.
SessionClosed(s) ==
  LET r == [streams[s] EXCEPT !.closed = TRUE, !.running = FALSE, !.compacting = FALSE,
                              !.terminal = "closed", !.faded = FALSE, !.queue = 0]
  IN /\ s # Root /\ s \in Registered /\ (SettledAhead => asking[s] = "none")
     /\ Session(s, {"idle", "opening", "run", "compact", "compact in run"}, "closed")
     /\ streams' = Swept([streams EXCEPT ![s] = r], focused, listed)
     /\ listed' = Visible(streams')
     /\ dock' = [view |-> Emit("all", s, r), status |-> ProgramStatus(cards, streams', resting)]
     /\ UNCHANGED <<runs, asks, focused, catalog, resting>>

\* A minute at rest: the row hides, and a row that hid makes the mode sweep.
RowHides(s) ==
  /\ s \in listed /\ ~streams[s].running /\ streams[s].terminal # "none"
  /\ LET sts == [streams EXCEPT ![s].faded = TRUE]
     IN streams' = Swept(sts, focused, Visible(sts)) /\ listed' = Visible(sts)
  /\ UNCHANGED <<backend, runs, asks, focused, catalog, resting, dock>>

\* focusStream, from the list's Enter and from Esc on a subagent.
FocusStream(s) ==
  /\ focused # Nobody /\ s # focused /\ s \in Registered
  /\ focused' = s
  /\ streams' = Swept(streams, s, listed)
  /\ dock' = [dock EXCEPT !.view = FocusedState(s, streams[s], catalog)]
  /\ UNCHANGED <<backend, runs, asks, listed, catalog, resting>>
ListEnter == \E s \in listed : FocusStream(s)
\* Esc on a subagent walks to its parent, else to the root; on the root it aborts a run.
Escape ==
  /\ focused \notin {Nobody, Root}
  /\ FocusStream(IF streams[focused].parent # Nobody THEN streams[focused].parent ELSE Root)

\* Ahead of the announce only the catalog check replaces `connecting`.
CatalogStatus ==
  /\ backend[Root] = "unborn" /\ catalog.state = "unsaid" /\ ~catalog.checking
  /\ catalog' = [catalog EXCEPT !.checking = TRUE]
  /\ dock' = [dock EXCEPT !.view.strip = "checking"]
  /\ UNCHANGED <<backend, runs, asks, streams, focused, listed, resting>>
\* providers_available, again with every world refresh.
ProvidersAvailable ==
  \E state \in {"fresh", "offline"} :
    /\ catalog.state # state
    /\ catalog' = [checking |-> FALSE, state |-> state]
    /\ dock' = IF focused = Nobody THEN dock
               ELSE [dock EXCEPT !.view = FocusedState(focused, streams[focused], catalog')]
    /\ UNCHANGED <<backend, runs, asks, streams, focused, listed, resting>>

StreamsNext ==
  \/ \E s \in Sessions :
       \/ SessionOpened(s) \/ SessionClosed(s) \/ RowHides(s) \/ AnswerCard(s) \/ InteractionSettled(s)
       \/ s \in Registered /\ \/ UserMessage(s) \/ Steer(s) \/ ContinueAccepted(s) \/ TurnStarted(s) \/ CompletionCall(s)
                              \/ MessageQueued(s) \/ MessagesDiscarded(s) \/ InteractionRequest(s)
                              \/ RunFinished(s) \/ RunAborted(s) \/ RunFailed(s)
                              \/ ReplayBegin(s) \/ ReplayedMessage(s) \/ ReplayedCall(s) \/ ReplayEnd(s)
                              \/ CompactionBegin(s) \/ CompactionEnd(s) \/ CompactionFailed(s)
  \/ ListEnter \/ Escape \/ CatalogStatus \/ ProvidersAvailable

-----------------------------------------------------------------------------
StreamsTypeOK ==
  /\ Registered \subseteq Sessions
  /\ \A s \in Registered : streams[s].queue \in 0..1 /\ streams[s].context \in 0..2
  /\ focused \in Registered \cup {Nobody} /\ listed \subseteq Sessions

\* The dock always tells the focused stream's present state: no handler that
\* changes a fact of it leaves an older value on the screen, and no handler of
\* another stream writes over it.
DockTellsFocused ==
  focused # Nobody => dock.view = FocusedState(focused, streams[focused], catalog)

\* A stream is lit exactly while its session runs: a continue run has no
\* message to light it, and neither a replay pass nor a close leaves it lit.
LitWhileRunning ==
  \A s \in Registered : /\ streams[s].running <=> backend[s] \in {"run", "compact in run"}
                        /\ streams[s].compacting <=> backend[s] \in {"compact", "compact in run"}

\* The terminal is told the app is blocked exactly while a question waits on the user,
\* in whatever stream, and else that it works exactly while some session does.  A question
\* waits until it is answered or settled, or its run finished or was aborted.
StatusTellsWork ==
  LET waits == \E s \in Sessions : asking[s] = "shown"
      works == \E s \in Registered : backend[s] \in {"run", "compact", "compact in run"}
  IN  /\ (dock.status = "blocked") <=> waits
      /\ (dock.status = "working") <=> (works /\ ~waits)

\* A closed stream that nobody can reach is gone, and a reachable one is not:
\* the focus and every row of the list name a stream that exists.
NothingUnreachable == Unreachable(streams, focused, listed) = {}
ReachableIsKept == listed \subseteq Registered /\ (focused # Nobody => focused \in Registered)

-----------------------------------------------------------------------------
(***************************************************************************)
(* The live notices of the terminal frontend (tui mode.ts): a condition's  *)
(* id, scoped by the stream that stamped it or bare for the backend's own, *)
(* is raised, raised again and cleared; an error pins, the rest age with   *)
(* the turns that commit live, and the dock shows the worst of them.       *)
(***************************************************************************)
CONSTANTS
  Scopes,          \* the streams that stamp notices, and the backend
  NoticeIds,
  TRANSIENT_TURNS,
  MaxTurns         \* bound on the live turns that commit

VARIABLES
  live,       \* the map of notices in insertion order
  turnCount,  \* the live turns that committed
  replaying,  \* the streams within a replay pass
  bar,        \* what the dock was last told: the top notice, and how many more
  raised      \* the conditions that hold at their emitters, by key: level, and turns since

noticeVars == <<live, turnCount, replaying, bar, raised>>

Backend == "backend"
Keys == Scopes \X NoticeIds
Levels == {"error", "warn", "info"}
Unraised == [level |-> "none", age |-> 0]

Rank(level) == CASE level = "error" -> 0 [] level = "warn" -> 1 [] OTHER -> 2
\* emitNotice: a stable sort by severity; the first docks.
Docked(list) ==
  IF list = <<>> THEN [level |-> "none", key |-> "none", overflow |-> 0]
  ELSE LET best == Min({Rank(list[n].level) : n \in DOMAIN list})
           top == list[Min({n \in DOMAIN list : Rank(list[n].level) = best})]
       IN [level |-> top.level, key |-> top.key, overflow |-> Len(list) - 1]

\* Map.set keeps the place of a key that is there.
SetNotice(list, n) ==
  IF \E i \in DOMAIN list : list[i].key = n.key
  THEN [i \in DOMAIN list |-> IF list[i].key = n.key THEN n ELSE list[i]]
  ELSE Append(list, n)
EmitNotices(list) == live' = list /\ bar' = Docked(list)

-----------------------------------------------------------------------------
NoticesInit ==
  /\ live = <<>> /\ turnCount = 0 /\ replaying = {} /\ bar = Docked(<<>>)
  /\ raised = [k \in Keys |-> Unraised]

\* foldNotice under the key of its stamp: stream and id, or the bare id.
Notice(key, level) ==
  /\ EmitNotices(SetNotice(live, [key |-> key, level |-> level, pinned |-> level = "error", bornTurn |-> turnCount]))
  /\ raised' = [raised EXCEPT ![key] = [level |-> level, age |-> 0]]
  /\ UNCHANGED <<turnCount, replaying>>
NoticeCleared(key) ==
  /\ EmitNotices(SelectSeq(live, LAMBDA n : n.key # key))
  /\ raised' = [raised EXCEPT ![key] = Unraised]
  /\ UNCHANGED <<turnCount, replaying>>

\* turn_committed: outside a pass the turn clock ticks, and the dock hears of
\* it only when something aged out.
TickTurns ==
  LET old(n) == ~n.pinned /\ turnCount' - n.bornTurn >= TRANSIENT_TURNS
      kept == SelectSeq(live, LAMBDA n : ~old(n))
  IN /\ turnCount' = turnCount + 1
     /\ live' = kept
     /\ bar' = IF kept # live THEN Docked(kept) ELSE bar
TurnCommitted(s) ==
  /\ s # Backend
  /\ IF s \in replaying THEN UNCHANGED <<live, bar, turnCount, raised>>
     ELSE /\ turnCount < MaxTurns /\ TickTurns
          /\ raised' = [k \in Keys |-> [raised[k] EXCEPT !.age = Min({@ + 1, TRANSIENT_TURNS})]]
  /\ UNCHANGED replaying
PassBegin(s) == /\ s \notin replaying \cup {Backend} /\ replaying' = replaying \cup {s}
                  /\ UNCHANGED <<live, bar, turnCount, raised>>
PassEnd(s) == /\ s \in replaying /\ replaying' = replaying \ {s}
                /\ UNCHANGED <<live, bar, turnCount, raised>>

NoticesNext ==
  \/ \E key \in Keys : NoticeCleared(key) \/ \E level \in Levels : Notice(key, level)
  \/ \E s \in Scopes : TurnCommitted(s) \/ PassBegin(s) \/ PassEnd(s)

-----------------------------------------------------------------------------
\* A condition is live exactly as long as it should be: an error until its own
\* clear, another one for TRANSIENT_TURNS live turns since it was last raised,
\* whatever was replayed meanwhile and whatever else has the same id.
LiveExactly ==
  {live[n].key : n \in DOMAIN live} =
    {k \in Keys : \/ raised[k].level = "error"
                  \/ raised[k].level \in {"warn", "info"} /\ raised[k].age < TRANSIENT_TURNS}

\* The dock shows the worst live condition, at its present level, and counts
\* the others.
BarTellsTheWorst ==
  LET held == {live[n].key : n \in DOMAIN live}
  IN IF held = {} THEN bar.level = "none" /\ bar.overflow = 0
     ELSE /\ bar.key \in held /\ bar.level = raised[bar.key].level
          /\ \A k \in held : Rank(bar.level) <= Rank(raised[k].level)
          /\ bar.overflow = Cardinality(held) - 1
=============================================================================
