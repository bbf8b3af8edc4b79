----------------------------- MODULE PendingAsks -----------------------------
(***************************************************************************)
(* Interaction cards across one pipe (crates/tabit-wire: asks.rs, node.rs; *)
(* crates/tabit-session/interaction.rs): a child node asks, its parent     *)
(* holds the question in transit and fans the card to every frontend, the  *)
(* first answer goes down, the settle comes up, and a run terminal or the  *)
(* child's death sweeps what is left.  Both nodes keep the same registry;  *)
(* only a transit entry owes a settle to the sweep.                        *)
(***************************************************************************)
EXTENDS Naturals, Sequences, SequencesExt, FiniteSets

CONSTANTS
  Asks,      \* the questions of the child
  Frontends  \* who sees the cards and may answer, each at most once

None == "none"
ASSUME AsksAssumption == None \notin Asks

\* Two sweeps follow the child's death: its reader's at the pipe's end, and its
\* reaper's at the process's exit.
Sweepers == {"pipe", "exit"}

VARIABLES
  origin,    \* the child's registry: ask -> entry
  promise,   \* what the child's askers read: ask -> outcome
  ending,    \* asks a run terminal of the child collected for its sweep
  alive,     \* the child process
  up,        \* the pipe to the parent: requests and settles
  down,      \* the pipe to the child: answers
  transit,   \* the parent's registry: ask -> entry
  sweep,     \* sweeper of the parent -> waiting, sweeping, over
  swept,     \* sweeper -> asks it collected and has not looked up yet
  taken,     \* frontend -> the ask whose delivery it still has to run
  answered,  \* frontend -> the asks it answered
  card,      \* frontend -> ask -> the card it shows
  settles    \* ask -> settles fanned to the frontends

childVars == <<origin, promise, ending, alive>>
parentVars == <<transit, sweep, swept, taken>>
frontVars == <<answered, card, settles>>
vars == <<childVars, up, down, parentVars, frontVars>>

\* An entry: open, or answered and awaiting its settle; owing a settle or not.
\* "absent" is an id the registry does not hold.
Entry == {"absent", "open", "open owing", "answered", "answered owing"}
IsOpen(entry) == entry \in {"open", "open owing"}

\* Mutants: an entry that owes a settle closes on its answer, too; or stays open.
AfterAnswerClosed(entry) == IF IsOpen(entry) THEN "absent" ELSE entry

\* PendingAsks::answer: an open entry that owes nothing closes on its answer.
\* An answered entry is replaced before it is looked at, so that a late answer
\* leaves it without its obligation.
AfterAnswer(entry) == CASE entry = "open"           -> "absent"
                        [] entry = "open owing"     -> "answered owing"
                        [] entry = "answered owing" -> "answered"
                        [] OTHER                    -> entry

\* deliver_swept: a transit entry announces the settle its origin no longer can.
SweepAnnounces(entry) == entry \in {"open owing", "answered owing"}

Request(a) == [t |-> "request", ask |-> a]
Settled(a) == [t |-> "settled", ask |-> a]

Init ==
  /\ origin = [a \in Asks |-> "absent"] /\ promise = [a \in Asks |-> None]
  /\ ending = {} /\ alive = TRUE /\ up = <<>> /\ down = <<>>
  /\ transit = [a \in Asks |-> "absent"]
  /\ sweep = [s \in Sweepers |-> "waiting"] /\ swept = [s \in Sweepers |-> {}]
  /\ taken = [f \in Frontends |-> None] /\ answered = [f \in Frontends |-> {}]
  /\ card = [f \in Frontends |-> [a \in Asks |-> None]]
  /\ settles = [a \in Asks |-> 0]

-----------------------------------------------------------------------------
(* The child                                                               *)

\* Node::ask: the entry is registered, then the request crosses.
Ask(a) ==
  /\ alive /\ promise[a] = None
  /\ origin' = [origin EXCEPT ![a] = "open"]
  /\ promise' = [promise EXCEPT ![a] = "pending"]
  /\ up' = Append(up, Request(a))
  /\ UNCHANGED <<ending, alive, down, parentVars, frontVars>>

\* Mutant: an answered promise announces no settle.
AnswerArrivesSilently ==
  /\ alive /\ down # <<>>
  /\ down' = Tail(down)
  /\ origin' = [origin EXCEPT ![Head(down)] = AfterAnswer(@)]
  /\ promise' = IF IsOpen(origin[Head(down)]) THEN [promise EXCEPT ![Head(down)] = "answered"] ELSE promise
  /\ UNCHANGED <<up, ending, alive, parentVars, frontVars>>

\* An answer resolves an open promise, and its origin announces the settle.
AnswerArrives ==
  /\ alive /\ down # <<>>
  /\ down' = Tail(down)
  /\ LET a == Head(down)
     IN  /\ origin' = [origin EXCEPT ![a] = AfterAnswer(@)]
         /\ IF IsOpen(origin[a])
              THEN promise' = [promise EXCEPT ![a] = "answered"] /\ up' = Append(up, Settled(a))
              ELSE UNCHANGED <<promise, up>>
  /\ UNCHANGED <<ending, alive, parentVars, frontVars>>

\* A run terminal (clear_pending): first the ids, then each entry on its own.
Terminal ==
  /\ alive /\ ending = {}
  /\ ending' = {a \in Asks : origin[a] # "absent"}
  /\ UNCHANGED <<origin, promise, alive, up, down, parentVars, frontVars>>

\* Mutant: the sweep drops the entry without running its delivery.
DismissSilently(a) ==
  /\ alive /\ a \in ending
  /\ ending' = ending \ {a}
  /\ origin' = [origin EXCEPT ![a] = "absent"]
  /\ UNCHANGED <<promise, alive, up, down, parentVars, frontVars>>

Dismiss(a) ==
  /\ alive /\ a \in ending
  /\ ending' = ending \ {a}
  /\ origin' = [origin EXCEPT ![a] = "absent"]
  /\ IF IsOpen(origin[a])
       THEN promise' = [promise EXCEPT ![a] = "dismissed"] /\ up' = Append(up, Settled(a))
       ELSE UNCHANGED <<promise, up>>
  /\ UNCHANGED <<alive, down, parentVars, frontVars>>

\* The process dies; frames it had not yet written are lost.
Die ==
  /\ alive /\ alive' = FALSE
  /\ \E n \in 0..Len(up) : up' = SubSeq(up, 1, n)
  /\ UNCHANGED <<origin, promise, ending, down, parentVars, frontVars>>

-----------------------------------------------------------------------------
(* The parent                                                              *)

Show(a) == card' = [f \in Frontends |-> [card[f] EXCEPT ![a] = "shown"]]
Close(a) == /\ card' = [f \in Frontends |-> [card[f] EXCEPT ![a] = "closed"]]
            /\ settles' = [settles EXCEPT ![a] = @ + 1]

\* Mutant: the card fans, nobody holds its question.
RequestCrossesUnheld ==
  /\ up # <<>> /\ Head(up).t = "request" /\ up' = Tail(up)
  /\ Show(Head(up).ask)
  /\ UNCHANGED <<childVars, down, parentVars, answered, settles>>

\* Node::intake of a request: it registers, then fans.
RequestCrosses ==
  /\ up # <<>> /\ Head(up).t = "request" /\ up' = Tail(up)
  /\ transit' = [transit EXCEPT ![Head(up).ask] = "open owing"]
  /\ Show(Head(up).ask)
  /\ UNCHANGED <<childVars, down, sweep, swept, taken, answered, settles>>

\* Mutant: the settle fans, its entry stays.
SettleCrossesKept ==
  /\ up # <<>> /\ Head(up).t = "settled" /\ up' = Tail(up)
  /\ Close(Head(up).ask)
  /\ UNCHANGED <<childVars, down, parentVars, answered>>

\* Node::intake of a settle: it closes the entry, whatever its state, and fans.
SettleCrosses ==
  /\ up # <<>> /\ Head(up).t = "settled" /\ up' = Tail(up)
  /\ transit' = [transit EXCEPT ![Head(up).ask] = "absent"]
  /\ Close(Head(up).ask)
  /\ UNCHANGED <<childVars, down, sweep, swept, taken, answered>>

\* Frontend f answers a card it was shown; the answer may be in flight long
\* after the card closed.  The delivery runs after the registry's lock.
Answer(f, a) ==
  /\ card[f][a] # None /\ a \notin answered[f] /\ taken[f] = None
  /\ answered' = [answered EXCEPT ![f] = @ \cup {a}]
  /\ transit' = [transit EXCEPT ![a] = AfterAnswer(@)]
  /\ taken' = IF IsOpen(transit[a]) THEN [taken EXCEPT ![f] = a] ELSE taken
  /\ UNCHANGED <<childVars, up, down, sweep, swept, card, settles>>

DeliverAnswer(f) ==
  /\ taken[f] # None
  /\ taken' = [taken EXCEPT ![f] = None]
  /\ down' = IF alive THEN Append(down, taken[f]) ELSE down
  /\ UNCHANGED <<childVars, up, transit, sweep, swept, frontVars>>

\* The pipe's end (retract_lane) comes behind its last frame; the process's exit
\* (the reaper's retract_asks) comes whenever the runtime sees it.
SweepBegins(s) ==
  /\ ~alive /\ sweep[s] = "waiting"
  /\ s = "pipe" => up = <<>>
  /\ sweep' = [sweep EXCEPT ![s] = "sweeping"]
  /\ swept' = [swept EXCEPT ![s] = {a \in Asks : transit[a] # "absent"}]
  /\ UNCHANGED <<childVars, up, down, transit, taken, frontVars>>

\* PendingAsks::retract_owner: the ids were collected, each is looked up again.
Sweep(s, a) ==
  /\ sweep[s] = "sweeping" /\ a \in swept[s]
  /\ swept' = [swept EXCEPT ![s] = @ \ {a}]
  /\ transit' = [transit EXCEPT ![a] = "absent"]
  /\ IF SweepAnnounces(transit[a]) THEN Close(a) ELSE UNCHANGED <<card, settles>>
  /\ UNCHANGED <<childVars, up, down, sweep, taken, answered>>

SweepEnds(s) ==
  /\ sweep[s] = "sweeping" /\ swept[s] = {}
  /\ sweep' = [sweep EXCEPT ![s] = "over"]
  /\ UNCHANGED <<childVars, up, down, transit, swept, taken, frontVars>>

-----------------------------------------------------------------------------
(* The specification                                                       *)

Sweeping(s) == SweepBegins(s) \/ SweepEnds(s) \/ \E a \in Asks : Sweep(s, a)
Reader == RequestCrosses \/ SettleCrosses \/ Sweeping("pipe")
Reaper == Sweeping("exit")
Child == AnswerArrives \/ \E a \in Asks : Dismiss(a)

Next ==
  \/ \E a \in Asks : Ask(a)
  \/ Terminal \/ Die
  \/ Child
  \/ Reader \/ Reaper
  \/ \E f \in Frontends : DeliverAnswer(f) \/ \E a \in Asks : Answer(f, a)

\* The readers of both pipes run on, and a delivery that began ends; nobody has
\* to ask, answer, end a run or die.
Spec == /\ Init /\ [][Next]_vars
        /\ WF_vars(Reader) /\ WF_vars(Reaper) /\ WF_vars(Child)
        /\ \A f \in Frontends : WF_vars(DeliverAnswer(f))

-----------------------------------------------------------------------------
(* Properties                                                              *)

Frame == {Request(a) : a \in Asks} \cup {Settled(a) : a \in Asks}

\* Every variable keeps its type; the child's own entries never owe a settle,
\* and only an open one is awaited.
TypeOK ==
  /\ origin \in [Asks -> {"absent", "open"}]
  /\ promise \in [Asks -> {None, "pending", "answered", "dismissed"}]
  /\ \A a \in Asks : origin[a] = "open" <=> promise[a] = "pending"
  /\ ending \subseteq Asks /\ alive \in BOOLEAN
  /\ up \in Seq(Frame) /\ down \in Seq(Asks)
  /\ transit \in [Asks -> Entry]
  /\ sweep \in [Sweepers -> {"waiting", "sweeping", "over"}]
  /\ swept \in [Sweepers -> SUBSET Asks]
  /\ taken \in [Frontends -> Asks \cup {None}]
  /\ answered \in [Frontends -> SUBSET Asks]
  /\ card \in [Frontends -> [Asks -> {None, "shown", "closed"}]]
  /\ settles \in [Asks -> Nat]

\* However answers, run terminals and the end of the pipe race, no request
\* settles twice, nor before its card, until the reaper sees the exit.
SettledOnce ==
  \A a \in Asks : /\ sweep["exit"] = "waiting" => settles[a] <= 1
                  /\ \A f \in Frontends : card[f][a] = None => settles[a] = 0

\* Answers are races (asks.rs): of all the frontends' answers to one question at
\* most one is ever on its way to its asker, or resolved it.
FirstAnswerWins ==
  \A a \in Asks :
    Cardinality({f \in Frontends : taken[f] = a})
      + Cardinality({i \in DOMAIN down : down[i] = a})
      + (IF promise[a] = "answered" THEN 1 ELSE 0) <= 1

\* One answer, one settle, in that order at every holder, whose entries stay what they are.
OneAnswerOneSettle == TypeOK /\ SettledOnce /\ FirstAnswerWins

\* A question still pending at its asker can still be answered: while the child
\* lives, its card is on the way up or open here, unless an answer is on its way
\* down or the settle is on its way up.
PendingIsReachable ==
  \A a \in Asks : (alive /\ promise[a] = "pending") =>
    \/ Request(a) \in ToSet(up)
    \/ IsOpen(transit[a])
    \/ a \in ToSet(down)
    \/ \E f \in Frontends : taken[f] = a

\* Once both sweeps of a dead child are over, in whatever order they ran, no
\* holder keeps one of its cards that at most one frontend had answered.
DeadCardsClose ==
  (\A s \in Sweepers : sweep[s] = "over") =>
     \A a \in Asks : Cardinality({f \in Frontends : a \in answered[f]}) <= 1 =>
       \A f \in Frontends : card[f][a] # "shown"

\* Every card closes once its asker's promise is resolved or dismissed.
ResolvedCardsClose ==
  \A f \in Frontends, a \in Asks :
    (card[f][a] = "shown" /\ promise[a] \in {"answered", "dismissed"} /\ alive)
      ~> (card[f][a] = "closed" \/ ~alive)

\* No card outlives its question: neither the live child's nor the dead one's.
CardsClose == []DeadCardsClose /\ ResolvedCardsClose

-----------------------------------------------------------------------------
(* What the documentation says and the code does not keep                  *)

\* FRONTEND.md, section 8: requests never settle twice.
NeverSettlesTwice == \A a \in Asks : settles[a] <= 1

\* asks.rs: an answered card lingers until its settle arrives or a sweep closes
\* it, and later answers are tolerated no-ops.
EveryDeadCardCloses ==
  (\A s \in Sweepers : sweep[s] = "over") =>
     \A f \in Frontends, a \in Asks : card[f][a] # "shown"
=============================================================================
