------------------------------ MODULE ExtGuest ------------------------------
(***************************************************************************)
(* The guest's side of an extension's pipe (tabit-ext-sdk): one reader     *)
(* dispatches the host's lines, every call and consultation runs on a task *)
(* of its own, and one line pump carries what they say.  The ask table is  *)
(* the node's (tabit-wire); a body may ask the user, buy a completion and  *)
(* own a child whose card the extension lifts to its host or answers.      *)
(*                                                                         *)
(* Arguments, payloads and results are left out: a body's value, its error  *)
(* and its panic are one result line.                                      *)
(***************************************************************************)
EXTENDS Integers, FiniteSets, SequencesExt

CONSTANTS
  Invocations,  \* the calls and consultations the host sends, numbers from 1
  Loads,        \* what the host may call: invocation -> [id, served]
  MaxInbox      \* how many of the host's lines are under way

ChildCard == 0
HostCard == -1

VARIABLES
  load,      \* what it calls
  mode,      \* the card surface: "lift" or "answerer"
  inbox,     \* the host's lines that are under way
  asked,     \* the lines the host has sent, those apart that it may send again
  pipe,      \* line -> how often the guest wrote it
  entry,     \* the node's ask table: question -> "none", "open", "answered"
  tokens,    \* id -> the invocation whose token it names, or 0
  tripped,   \* the invocations whose token fired
  task,      \* invocation -> its step
  kid,       \* the owned child, or "absent" beside calls
  pending,   \* observations on their tasks
  heard,     \* what the answerers heard
  gone       \* how the process ended, "no" before

guestVars == <<load, mode, inbox, asked, pipe, entry, tokens, tripped, task, kid, pending, heard, gone>>

Line(type, of) == [type |-> type, of |-> of]
CallIds == {l[i].id : l \in Loads, i \in Invocations}
Call(i) == <<"call", load[i].id>>
Question(i) == <<"ask", i>>
Service(i) == <<"service", i>>
Questions == {<<"call", id>> : id \in CallIds} \cup {Question(i) : i \in Invocations \cup {ChildCard, HostCard}}
               \cup {Service(i) : i \in Invocations}
GuestLines == {Line(type, of) : type \in {"result", "buy", "request", "settled"}, of \in Invocations \cup {ChildCard, HostCard}}
Said(line) == pipe[line] > 0
Written(line) == [pipe EXCEPT ![line] = @ + 1]

-----------------------------------------------------------------------------
(* The host: it answers what it was asked, cancels what it called, and may *)
(* break the contract (external).                                          *)

\* What the host may send by the contract, and what breaks it: a live id called again, a
\* line nobody could read.
Lawful(line) ==
  CASE line.type = "call" -> \A j \in Invocations : Line("call", j) \in asked => load[j].id # load[line.of].id
    [] line.type = "cancel" -> Line("call", line.of) \in asked
    [] line.type = "answer" -> Said(Line("request", line.of))
    [] line.type = "service" -> Said(Line("buy", line.of))
    [] line.type = "settled" -> Line("request", HostCard) \in asked
    [] line.type \in {"request", "newer"} -> TRUE
    [] OTHER -> FALSE
Breaks(line) ==
  \/ line.type = "broken"
  \/ line.type = "call" /\ \E j \in Invocations : Line("call", j) \in asked /\ load[j].id = load[line.of].id
                                                  /\ ~Said(Line("result", j))
HostLines ==
  {Line(type, i) : type \in {"call", "cancel", "answer", "service"}, i \in Invocations}
    \cup {Line("answer", ChildCard), Line("request", HostCard), Line("settled", HostCard), Line("newer", ChildCard), Line("broken", ChildCard)}

HostSends(line) ==
  /\ gone = "no" /\ Len(inbox) < MaxInbox /\ line \notin asked
  /\ line.of \in (IF kid = "absent" THEN Invocations ELSE {ChildCard, HostCard})
  /\ Lawful(line) \/ Breaks(line)
  /\ inbox' = Append(inbox, line) /\ asked' = IF line.type \in {"answer", "service", "newer"} THEN asked ELSE asked \cup {line}
  /\ UNCHANGED <<load, mode, pipe, entry, tokens, tripped, task, kid, pending, heard, gone>>

Breached == \/ Line("broken", ChildCard) \in asked
            \/ \E i, j \in Invocations : i # j /\ load[i].id = load[j].id /\ {Line("call", i), Line("call", j)} \subseteq asked

-----------------------------------------------------------------------------
(* The doors of the guest's node. *)

Card(line) == line.type \in {"request", "settled"}
Observed(line) == IF mode = "answerer" /\ Card(line) THEN pending \cup {line} ELSE pending

\* Own speech crosses; what a child says crosses by the lift; what the host says never
\* goes back.  The answerers hear all three.
Says(line) == pipe' = Written(line) /\ pending' = Observed(line)
SaysIf(said, line) == IF said THEN Says(line) ELSE UNCHANGED <<pipe, pending>>
ChildSays(line) == pipe' = (IF mode = "lift" THEN Written(line) ELSE pipe) /\ pending' = Observed(line)
HostSays(line) == pending' = Observed(line) /\ UNCHANGED pipe

Hear(line) ==
  /\ gone = "no" /\ line \in pending
  /\ pending' = pending \ {line} /\ heard' = heard \cup {line}
  /\ UNCHANGED <<load, mode, inbox, asked, pipe, entry, tokens, tripped, task, kid, gone>>

-----------------------------------------------------------------------------
(* dispatch_line *)

Init ==
  /\ load \in Loads /\ mode \in {"lift", "answerer"} /\ inbox = <<>> /\ asked = {} /\ pipe = [line \in GuestLines |-> 0]
  /\ entry = [q \in Questions |-> "none"] /\ tokens = [id \in CallIds |-> 0] /\ tripped = {}
  /\ task = [i \in Invocations |-> "none"]
  /\ kid \in {"absent", "none"} /\ pending = {} /\ heard = {} /\ gone = "no"

Dispatch(type) ==
  /\ gone = "no" /\ inbox # <<>> /\ Head(inbox).type = type
  /\ inbox' = Tail(inbox)
  /\ UNCHANGED <<load, mode, asked, heard>>
Line1 == Head(inbox)

OnCall ==
  /\ Dispatch("call")
  /\ task' = [task EXCEPT ![Line1.of] = "spawned"]
  /\ UNCHANGED <<pipe, entry, tokens, tripped, kid, pending, gone>>

\* An id without a token is the race's loser.
OnCancel ==
  /\ Dispatch("cancel")
  /\ tripped' = tripped \cup ({tokens[load[Line1.of].id]} \ {0})
  /\ UNCHANGED <<pipe, entry, tokens, task, kid, pending, gone>>

\* An own question closes with its answer and says so; a child's lingers until it does.
OnAnswer ==
  /\ Dispatch("answer")
  /\ LET q == Question(Line1.of)
         opens == entry[q] = "open"
     IN  /\ SaysIf(opens /\ Line1.of # ChildCard, Line("settled", Line1.of))
         /\ entry' = IF ~opens THEN entry ELSE [entry EXCEPT ![q] = IF Line1.of = ChildCard THEN "answered" ELSE "none"]
         /\ task' = IF opens /\ Line1.of # ChildCard /\ task[Line1.of] = "asking" THEN [task EXCEPT ![Line1.of] = "running"] ELSE task
  /\ UNCHANGED <<tokens, tripped, kid, gone>>

OnService ==
  /\ Dispatch("service")
  /\ LET opens == entry[Service(Line1.of)] = "open"
     IN  /\ entry' = IF opens THEN [entry EXCEPT ![Service(Line1.of)] = "none"] ELSE entry
         /\ task' = IF opens THEN [task EXCEPT ![Line1.of] = "running"] ELSE task
  /\ UNCHANGED <<pipe, tokens, tripped, kid, pending, gone>>

\* A watched card of the host's: it registers against the host's channel, and its settle clears it.
OnHostCard ==
  /\ \E type \in {"request", "settled"} :
       /\ Dispatch(type) /\ HostSays(Line1)
       /\ entry' = [entry EXCEPT ![Question(HostCard)] = IF type = "request" THEN "open" ELSE "none"]
  /\ UNCHANGED <<tokens, tripped, task, kid, gone>>

\* What this SDK predates is ignored; what nobody can read is a broken host.
OnUnknown ==
  /\ \/ Dispatch("newer") /\ UNCHANGED gone
     \/ Dispatch("broken") /\ gone' = "died"
  /\ UNCHANGED <<pipe, entry, tokens, tripped, task, kid, pending>>

HostCloses ==
  /\ gone = "no" /\ inbox = <<>> /\ gone' = "eof"
  /\ UNCHANGED <<load, mode, inbox, asked, pipe, entry, tokens, tripped, task, kid, pending, heard>>

-----------------------------------------------------------------------------
(* run_call, run_consult *)

At(i, step) == gone = "no" /\ task[i] = step
Goes(i, step) == task' = [task EXCEPT ![i] = step]

\* A live id held again is the host's breach, and the process's end.
Hold(i) ==
  /\ At(i, "spawned")
  /\ IF entry[Call(i)] # "none" THEN gone' = "died" /\ UNCHANGED <<task, entry>>
     ELSE Goes(i, "held") /\ entry' = [entry EXCEPT ![Call(i)] = "open"] /\ UNCHANGED gone
  /\ UNCHANGED <<load, mode, inbox, asked, pipe, tokens, tripped, kid, pending, heard>>

\* The token is registered once the hold stands.
TakeToken(i) ==
  /\ At(i, "held") /\ Goes(i, IF ~load[i].served THEN "refusing" ELSE "running")
  /\ tokens' = [tokens EXCEPT ![load[i].id] = i]
  /\ UNCHANGED <<load, mode, inbox, asked, pipe, entry, tripped, kid, pending, heard, gone>>

\* Ctx::ask and Ctx::complete: at most one of each in a body's life here.
Ask(i) ==
  /\ At(i, "running") /\ ~Said(Line("request", i)) /\ Goes(i, "asking")
  /\ entry' = [entry EXCEPT ![Question(i)] = "open"] /\ Says(Line("request", i))
  /\ UNCHANGED <<load, mode, inbox, asked, tokens, tripped, kid, heard, gone>>

\* The fired token ends the wait and leaves the card open.
AskGivesUp(i) ==
  /\ At(i, "asking") /\ i \in tripped /\ Goes(i, "running")
  /\ UNCHANGED <<load, mode, inbox, asked, pipe, entry, tokens, tripped, kid, pending, heard, gone>>

\* An author's answerer may take the extension's own question as well.
SelfAnswers(i) ==
  /\ gone = "no" /\ Line("request", i) \in heard /\ entry[Question(i)] = "open"
  /\ entry' = [entry EXCEPT ![Question(i)] = "none"] /\ Says(Line("settled", i))
  /\ task' = IF task[i] = "asking" THEN [task EXCEPT ![i] = "running"] ELSE task
  /\ UNCHANGED <<load, mode, inbox, asked, tokens, tripped, kid, heard, gone>>

Complete(i) ==
  /\ At(i, "running") /\ ~Said(Line("buy", i)) /\ Goes(i, "buying")
  /\ entry' = [entry EXCEPT ![Service(i)] = "open"] /\ Says(Line("buy", i))
  /\ UNCHANGED <<load, mode, inbox, asked, tokens, tripped, kid, heard, gone>>

BodyEnds(i) ==
  /\ At(i, "running") /\ Goes(i, "done")
  /\ UNCHANGED <<load, mode, inbox, asked, pipe, entry, tokens, tripped, kid, pending, heard, gone>>

\* A tool nobody serves drops its token first, the others answer first.
Refuse(i) ==
  /\ At(i, "refusing") /\ Goes(i, "untokened") /\ tokens' = [tokens EXCEPT ![load[i].id] = 0]
  /\ UNCHANGED <<load, mode, inbox, asked, pipe, entry, tripped, kid, pending, heard, gone>>
Answers(i) ==
  /\ At(i, "done") \/ At(i, "untokened")
  /\ Goes(i, IF task[i] = "done" THEN "answered" ELSE "closing")
  /\ entry' = [entry EXCEPT ![Call(i)] = "none"]
  /\ SaysIf(entry[Call(i)] = "open", Line("result", i))
  /\ UNCHANGED <<load, mode, inbox, asked, tokens, tripped, kid, heard, gone>>
DropToken(i) ==
  /\ At(i, "answered") /\ Goes(i, "closing") /\ tokens' = [tokens EXCEPT ![load[i].id] = 0]
  /\ UNCHANGED <<load, mode, inbox, asked, pipe, entry, tripped, kid, pending, heard, gone>>

\* retract_asks: what the body left open dies with it, its card closed by name.
Retracted(i) == [entry EXCEPT ![Question(i)] = "none", ![Service(i)] = "none"]
Sweep(i) ==
  /\ At(i, "closing") /\ Goes(i, "over")
  /\ entry' = Retracted(i) /\ SaysIf(entry[Question(i)] = "open", Line("settled", i))
  /\ UNCHANGED <<load, mode, inbox, asked, tokens, tripped, kid, heard, gone>>

Task(i) == Hold(i) \/ TakeToken(i) \/ AskGivesUp(i) \/ Refuse(i) \/ Answers(i) \/ DropToken(i) \/ Sweep(i)

-----------------------------------------------------------------------------
(* An owned child and its card (children.rs, mount_card_surface). *)

ChildEntry == entry[Question(ChildCard)]
KidAsks ==
  /\ gone = "no" /\ kid = "none" /\ kid' = "asking"
  /\ entry' = [entry EXCEPT ![Question(ChildCard)] = "open"] /\ ChildSays(Line("request", ChildCard))
  /\ UNCHANGED <<load, mode, inbox, asked, tokens, tripped, task, heard, gone>>

\* The author's answer takes the same entry as the host's.
AuthorAnswers ==
  /\ gone = "no" /\ Line("request", ChildCard) \in heard /\ ChildEntry = "open"
  /\ entry' = [entry EXCEPT ![Question(ChildCard)] = "answered"]
  /\ UNCHANGED <<load, mode, inbox, asked, pipe, tokens, tripped, task, kid, pending, heard, gone>>

\* The child says its settle, on the answer or at its own terminal; the arrival closes the entry.
KidSettles ==
  /\ gone = "no" /\ kid = "asking" /\ kid' = "settled"
  /\ entry' = [entry EXCEPT ![Question(ChildCard)] = "none"] /\ ChildSays(Line("settled", ChildCard))
  /\ UNCHANGED <<load, mode, inbox, asked, tokens, tripped, task, heard, gone>>

\* Its death sweeps the entry, which says the settle as own speech.
KidDies ==
  /\ gone = "no" /\ kid \in {"asking", "settled"} /\ kid' = "dead"
  /\ entry' = [entry EXCEPT ![Question(ChildCard)] = "none"]
  /\ SaysIf(ChildEntry # "none", Line("settled", ChildCard))
  /\ UNCHANGED <<load, mode, inbox, asked, tokens, tripped, task, heard, gone>>

Reader == OnCall \/ OnCancel \/ OnAnswer \/ OnService \/ OnHostCard \/ OnUnknown
GuestNext ==
  \/ \E line \in HostLines : HostSends(line)
  \/ \E line \in pending : Hear(line)
  \/ Reader \/ HostCloses
  \/ \E i \in Invocations : Task(i) \/ Ask(i) \/ SelfAnswers(i) \/ Complete(i) \/ BodyEnds(i)
  \/ KidAsks \/ AuthorAnswers \/ KidSettles \/ KidDies

-----------------------------------------------------------------------------
(* What the guest promises. *)

\* A call has one result line, and is over only with it; however its body ended, its token
\* is gone by then, and only a call the host cancelled ever had its token fired.
OneResult ==
  ~Breached => \A i \in Invocations :
    /\ pipe[Line("result", i)] = IF task[i] \in {"answered", "closing", "over"} THEN 1 ELSE 0
    /\ task[i] = "over" => tokens[load[i].id] = 0 /\ entry[Call(i)] = "none"
    /\ i \in tripped => Line("cancel", i) \in asked

\* A card the host was shown is closed once and after it was shown, whoever closes it: the
\* host's answer, an answerer's, the call's end, the child's settle or its death; and no
\* call is over while its card is open (the settle law, node.rs).
CardsArePairs ==
  ~Breached => \A i \in Invocations \cup {ChildCard} :
    LET shown == Line("request", i)
        closed == Line("settled", i)
    IN  /\ pipe[shown] <= 1 /\ pipe[closed] <= 1
        /\ Said(closed) => Said(shown) \/ (i = ChildCard /\ mode = "answerer" /\ kid = "dead")
        /\ i # ChildCard /\ task[i] = "over" => (Said(shown) => Said(closed))

\* A child's card crosses with its settle or stays with the author; a card of the host's
\* never goes back to it, which would be a live id held again there (mount_card_surface).
CardsCrossByMode ==
  /\ mode = "answerer" => ~Said(Line("request", ChildCard))
  /\ mode = "lift" => (Said(Line("request", ChildCard)) <=> kid \notin {"absent", "none"})
  /\ mode = "lift" /\ kid \in {"settled", "dead"} => Said(Line("settled", ChildCard))
  /\ \A type \in {"request", "settled"} : ~Said(Line(type, HostCard))

\* The guest dies of a broken contract only, and of nothing a newer host may say.
DiesOfBreach == gone = "died" => Breached

\* A task that waits for nobody moves on until it runs a body or is over, and a question
\* is not waited for once its call's token fired.
Owes(i) ==
  /\ gone = "no" /\ task[i] \notin {"none", "running", "buying", "over"}
  /\ task[i] = "asking" => i \in tripped
GuestSettles == \A i \in Invocations : Owes(i) ~> ~Owes(i)

\* NOT true of the code: a cancel that arrived for a call not yet answered fires its token;
\* one dispatched before the call's task registered it is lost.
CancelReaches ==
  \A i \in Invocations : Line("cancel", i) \in asked /\ Line("cancel", i) \notin Range(inbox) /\ task[i] = "running" =>
    i \in tripped

\* NOT true of the code: answerers hear a card before its close; each frame has its own task.
HeardInOrder ==
  \A line \in heard : line.type = "settled" => Line("request", line.of) \in heard
=============================================================================
