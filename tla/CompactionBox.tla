--------------------------- MODULE CompactionBox ---------------------------
(***************************************************************************)
(* The compaction box: its four doors, the choice of the cut over measured *)
(* token deltas, the passes with their retries, and what each invocation   *)
(* leaves on the branch and on the wire (tabit-session compaction/mod.rs,  *)
(* session/compaction_doors.rs; the view and the measured total are        *)
(* tabit-log tree.rs and fold.rs).                                         *)
(*                                                                         *)
(* An entry's id is its place on the branch, and a cut is named by the     *)
(* first entry it keeps.  A tool batch is one entry: a turn and its        *)
(* results commit whole.  Tokens are counted in units of 8K.               *)
(***************************************************************************)
EXTENDS Integers, Sequences, FiniteSets, FiniteSetsExt

CONSTANTS Windows,       \* what a model's record or an overflow error may report
          Sizes,         \* how much a measured turn may add
          Outputs,       \* output tokens of a summary, at most SUMMARY_MAX_TOKENS
          UrgentReserve, KeepTail, MinSupportedWindow, ViolationRetryCap, MaxPasses,
          MaxEntries,    \* bound on what is said
          MaxDoors       \* bound on the invocations

ASSUME CompactionAssumption ==
  /\ Windows \subseteq Nat /\ Sizes \subseteq Nat
  /\ {UrgentReserve, KeepTail, MinSupportedWindow, ViolationRetryCap, MaxPasses} \subseteq Nat
  /\ MaxPasses # 0
  \* A summary says something, and is small against any window that is supported.
  /\ \A o \in Outputs : o \in Nat \ {0} /\ 4 * (o + 1) <= 3 * MinSupportedWindow

VARIABLES branch,   \* root to head
          window,   \* the selected model's context window, 0 when config has none
          taught,   \* Compaction.window_cache, 0 when no error taught one
          door,     \* the invocation: "none", "pre_request", "idle", "manual", "overflow"
          bound,    \* the window this invocation resolved
          now,      \* tokens_now
          passes, violations,
          boundary, \* what the request in flight would keep first; 0 between requests
          outcome,  \* of the last invocation
          events,   \* its frames
          doors, crashed

compactionVars == <<branch, window, taught, door, bound, now, passes, violations, boundary,
                    outcome, events, doors, crashed>>
boxVars == <<door, bound, now, passes, violations, boundary, outcome, events, doors, crashed>>

Measured(e) == e.kind \in {"answer", "batch"} /\ e.total > 0
User(sum) == [kind |-> "user", total |-> 0, sum |-> sum, cut |-> 0]
Turn(kind, total, sum) == [kind |-> kind, total |-> total, sum |-> sum, cut |-> 0]
Summary(cut, base, sum) == [kind |-> "compaction", total |-> base, sum |-> sum, cut |-> cut]

\* fold.rs regime_total over the raw branch; 0 when nothing was measured.
RegimeTotal(b) ==
  LET at == {n \in DOMAIN b : b[n].kind = "compaction" \/ Measured(b[n])}
  IN IF at = {} THEN 0 ELSE b[Max(at)].total

\* tree.rs history_to_head: the newest compaction leads, the entries from its cut child
\* on follow it in their order, older compactions are skipped.
Compactions(b) == {n \in DOMAIN b : b[n].kind = "compaction"}
Live == IF Compactions(branch) = {} THEN 0 ELSE Max(Compactions(branch))
Start == IF Live = 0 THEN 1 ELSE branch[Live].cut
Retained == {n \in Start..Len(branch) : branch[n].kind # "compaction"}
Lead == IF Live = 0 THEN 1 ELSE Live
WalkPanics == Live # 0 /\ branch[Start].kind = "compaction"

\* delta_suffix_sums: a turn's delta is what it adds to the running sum, so what is kept
\* from an entry on is a difference of two sums.
SumTo(n) == IF n = 0 THEN 0 ELSE branch[n].sum
TailSum(first) == SumTo(Len(branch)) - SumTo((IF first = Lead THEN Start ELSE first) - 1)

\* valid_boundary: what goes is nothing, or ends at an output without tool calls.
Before(first) ==
  LET older == {n \in Retained : n < first} IN IF older = {} THEN Lead ELSE Max(older)
AnyOutput(first) == first = Lead \/ branch[Before(first)].kind \in {"answer", "batch", "compaction"}
ValidBoundary(first) == first = Lead \/ branch[Before(first)].kind \in {"answer", "compaction"}

\* select_cut: the latest boundary that keeps enough and sends little enough.
Prefix(first) == IF now > TailSum(first) THEN now - TailSum(first) ELSE 0
Feasible(first) == /\ ValidBoundary(first) /\ TailSum(first) >= KeepTail
                   /\ Prefix(first) < (3 * bound) \div 4
Cuts == {first \in Retained \ {Lead} : Feasible(first)}
\* shorten: the latest one before, down to the empty prefix.
Shorter(from) == {first \in Retained \ {Lead} : first < from /\ ValidBoundary(first)}
Earlier(from) == IF Shorter(from) = {} THEN Lead ELSE Max(Shorter(from))

\* fires: condition B is the urgent bound, condition A the idle fraction.
OverUrgent(tokens, w) == tokens + UrgentReserve > w
Fires(d, tokens, w, mailboxEmpty) ==
  CASE d = "pre_request" -> OverUrgent(tokens, w)
    [] d = "idle" -> OverUrgent(tokens, w) \/ (mailboxEmpty /\ 4 * tokens > 3 * w)
    [] OTHER -> TRUE

-----------------------------------------------------------------------------
CompactionInit ==
  /\ branch = <<>> /\ window \in Windows \cup {0} /\ taught = 0
  /\ door = "none" /\ bound = 0 /\ now = 0 /\ passes = 0 /\ violations = 0 /\ boundary = 0
  /\ outcome = "none" /\ events = <<>> /\ doors = 0 /\ crashed = FALSE

\* The conversation between the doors: messages, turns with the delta of
\* ContextManager::turn_delta (none without a report, none when the total fell
\* below its predecessor), a switch of the model.
Spoken == {n \in DOMAIN branch : branch[n].kind # "compaction"}
Talking == door = "none" /\ ~crashed /\ Cardinality(Spoken) < MaxEntries
Sum == SumTo(Len(branch))
AddUser == Talking /\ branch' = Append(branch, User(Sum)) /\ UNCHANGED <<window, taught, boxVars>>
AddTurn(kind, grows) ==
  /\ Talking /\ branch # <<>>
  /\ branch' = Append(branch, Turn(kind, RegimeTotal(branch) + grows, Sum + grows))
  /\ UNCHANGED <<window, taught, boxVars>>
AddUnmeasured(kind, total) ==
  /\ Talking /\ branch # <<>> /\ (total = 0 \/ total < RegimeTotal(branch))
  /\ branch' = Append(branch, Turn(kind, total, Sum)) /\ UNCHANGED <<window, taught, boxVars>>
SwitchModel ==
  /\ Talking /\ window' \in Windows \ {window} /\ UNCHANGED <<branch, taught, boxVars>>

\* run: the reasons to decline come in this order and all leave no frame.
Resolved(lesson) == IF lesson # 0 THEN lesson ELSE window
Knock(d, lesson, mailboxEmpty) ==
  /\ door = "none" /\ ~crashed /\ doors < MaxDoors /\ doors' = doors + 1
  /\ taught' = IF lesson # 0 THEN lesson ELSE taught
  /\ LET w == Resolved(taught') IN
       IF w < MinSupportedWindow \/ RegimeTotal(branch) = 0
          \/ ~Fires(d, RegimeTotal(branch), w, mailboxEmpty)
       THEN outcome' = "skipped" /\ UNCHANGED <<door, bound, now>>
       ELSE door' = d /\ bound' = w /\ now' = RegimeTotal(branch) /\ outcome' = "none"
  /\ passes' = 0 /\ violations' = 0 /\ events' = <<>>
  /\ UNCHANGED <<branch, window, boundary, crashed>>
KnockAny == \/ \E d \in {"pre_request", "manual"} : Knock(d, 0, TRUE)
            \/ \E e \in BOOLEAN : Knock("idle", 0, e)
            \/ \E w \in Windows \cup {0} : Knock("overflow", w, TRUE)

Close(result, frames) ==
  door' = "none" /\ outcome' = result /\ boundary' = 0 /\ events' = events \o frames

\* The head of the loop: the view, the cut, the envelope before a first pass.
Begins == IF passes = 0 THEN Append(events, "begin") ELSE events
SelectCut ==
  /\ door # "none" /\ boundary = 0 /\ ~crashed
  /\ IF WalkPanics THEN crashed' = TRUE /\ UNCHANGED <<door, boundary, outcome, events>>
     ELSE /\ UNCHANGED crashed
          /\ IF Cuts # {} THEN boundary' = Max(Cuts) /\ events' = Begins /\ UNCHANGED <<door, outcome>>
             ELSE IF passes = 0 THEN Close("nothing", <<>>) ELSE Close("no cut left", <<"end">>)
  /\ UNCHANGED <<branch, window, taught, bound, now, passes, violations, doors>>

Answering == door # "none" /\ boundary # 0
\* PassOutcome::Committed: the node, then the post-check loop.
After(base) ==
  IF ~OverUrgent(base, bound) THEN Close("compacted", <<"step", "end">>)
  ELSE IF passes + 1 >= MaxPasses THEN Close("pass cap", <<"step", "end">>)
  ELSE IF base >= now THEN Close("cannot shrink", <<"step", "end">>)
  ELSE boundary' = 0 /\ events' = Append(events, "step") /\ UNCHANGED <<door, outcome>>
Commit(output) ==
  /\ Answering /\ passes' = passes + 1
  /\ LET base == TailSum(boundary) + output IN
       /\ branch' = Append(branch, Summary(boundary, base, Sum))
       /\ After(base) /\ now' = base
  /\ UNCHANGED <<window, taught, bound, violations, doors, crashed>>

\* A length-capped summary, or a rejection for length (which may teach the
\* window): one boundary earlier, down to the empty prefix.
Shorten(lesson) ==
  /\ Answering /\ taught' = IF lesson # 0 THEN lesson ELSE taught
  /\ IF boundary = Lead THEN Close("failed", <<"failed">>)
     ELSE boundary' = Earlier(boundary) /\ UNCHANGED <<door, outcome, events>>
  /\ UNCHANGED <<branch, window, bound, now, passes, violations, doors, crashed>>

\* PassOutcome::Violated: the response is thrown away and resent, a bounded
\* number of times per invocation.
Violate ==
  /\ Answering
  /\ IF violations < ViolationRetryCap
     THEN /\ violations' = violations + 1 /\ boundary' = 0
          /\ events' = Append(events, "retried") /\ UNCHANGED <<door, outcome>>
     ELSE Close("failed", <<"retried", "failed">>) /\ UNCHANGED violations
  /\ UNCHANGED <<branch, window, taught, bound, now, passes, doors, crashed>>

\* Any other failure, an empty summary, a cancelled stream: nothing persists.
Fail == /\ Answering /\ \E r \in {"failed", "cancelled"} : Close(r, <<"failed">>)
        /\ UNCHANGED <<branch, window, taught, bound, now, passes, violations, doors, crashed>>

PassStep == \/ Fail \/ Violate \/ SelectCut \/ (\E o \in Outputs : Commit(o))
            \/ (\E w \in Windows \cup {0} : Shorten(w))
CompactionNext ==
  \/ AddUser
  \/ \E k \in {"answer", "batch"} : \/ \E s \in Sizes : AddTurn(k, s)
                                    \/ \E t \in Sizes \cup {0} : AddUnmeasured(k, t)
  \/ SwitchModel \/ KnockAny \/ PassStep

\* The provider answers every request, whatever it says.
CompactionSpec == CompactionInit /\ [][CompactionNext]_compactionVars /\ WF_compactionVars(PassStep)
-----------------------------------------------------------------------------
CompactionTypeOK ==
  /\ \A n \in DOMAIN branch : /\ branch[n].kind \in {"user", "answer", "batch", "compaction"}
                             /\ branch[n].total \in Nat /\ branch[n].sum \in Nat
                             /\ branch[n].cut \in 0..n
  /\ passes \in 0..MaxPasses /\ violations \in 0..ViolationRetryCap
  /\ boundary \in 0..Len(branch) /\ door \in {"none", "pre_request", "idle", "manual", "overflow"}

\* An invocation is silent, or one envelope: it opens first, closes last and
\* once, and has a step for every pass that landed.
Count(frame) == Cardinality({n \in DOMAIN events : events[n] \in frame})
EnvelopeCloses ==
  door = "none" /\ events # <<>> =>
    /\ events[1] = "begin" /\ events[Len(events)] \in {"end", "failed"}
    /\ Count({"end", "failed"}) = 1 /\ Count({"step"}) = passes

\* "Compacted" says the context fits the urgent bound of the window the
\* invocation went by, until more is said: a retry behind it has room.
CompactedFits ==
  outcome = "compacted" /\ branch[Len(branch)].kind = "compaction" => ~OverUrgent(RegimeTotal(branch), bound)

\* The loop never runs out of cuts after a pass: the view offers the previous
\* summary again.
AlwaysACut == outcome # "no cut left"

\* What a compaction keeps is a whole number of exchanges worth at least the
\* floor, however often the request was shortened.
CutsBetweenExchanges ==
  \A c \in Compactions(branch) : LET cut == branch[c].cut IN
     /\ branch[cut].kind # "compaction" =>
          cut = 1 \/ branch[cut - 1].kind \in {"answer", "compaction"}
     /\ branch[c].total > KeepTail

\* Every invocation ends: the passes shrink the context or stop, the requests
\* of a pass get shorter, violations are bounded.
BoxEnds == door # "none" ~> door = "none" \/ crashed

\* NOT true of the code: the walk of the history always meets the cut child.
CutChildIsMet == ~crashed

\* NOT true of the code: an envelope opens once.
OpensOnce == Count({"begin"}) <= 1

\* NOT true of the code: "compacted" fits the window an error reported last.
FitsTheWall ==
  outcome = "compacted" /\ branch[Len(branch)].kind = "compaction" /\ taught # 0 =>
    ~OverUrgent(RegimeTotal(branch), taught)
=============================================================================
