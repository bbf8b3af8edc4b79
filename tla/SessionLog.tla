----------------------------- MODULE SessionLog -----------------------------
(***************************************************************************)
(* One session's durable conversation: the write-behind SessionWriter, the *)
(* ContextManager's tree, the session's register and checkout records, and *)
(* the parser that turns the file back into a session                      *)
(* (crates/tabit-log, and tabit-session's parser, builder and rewind).     *)
(*                                                                         *)
(* The data is abstracted to what the log can get wrong.  A line of the    *)
(* file is a record token followed by a newline token, so an offset counts *)
(* tokens; a write that stops half-way leaves a prefix of the blob's       *)
(* tokens, the last of which may be Torn.                                  *)
(***************************************************************************)
EXTENDS Integers, Sequences, SequencesExt, FiniteSetsExt

CONSTANTS
  Models,          \* the model selections a frontend can choose
  MaxNodes,        \* bound: conversation nodes ever minted
  MaxCalls,        \* bound: tool calls of one assistant turn
  MaxRecords,      \* bound: records the session ever accepts
  AskOpenTargets,  \* do checkouts name entries inside a tool roundtrip?
  CrashCuts,       \* how a process death may cut the write in progress
  TruncateMayFail  \* may the clean-up after a failed write fail as well?

ASSUME BoundsAssumption ==
  /\ MaxNodes \in Nat /\ MaxCalls \in Nat /\ MaxRecords \in Nat
  /\ AskOpenTargets \in BOOLEAN /\ TruncateMayFail \in BOOLEAN

\* A death between two lines, inside a line, or right before the newline of
\* a line.
Cuts == {"boundary", "torn", "bare"}

ASSUME CutsAssumption == CrashCuts \subseteq Cuts

VARIABLES
  phase,     \* "live": a process has the session; "closed"; "refused"
  nodes,     \* the resident tree: id -> node record
  head,      \* the tree's head, Root when the chain is empty
  register,  \* the selected model
  writer,    \* the SessionWriter
  file,      \* the session file's tokens
  exists,    \* is there a session file at all?
  told,      \* the frontend's view: is persistence degraded?
  minted     \* ids minted so far (ids are never reused)

vars == <<phase, nodes, head, register, writer, file, exists, told, minted>>

-----------------------------------------------------------------------------
(* Records, tokens and files                                               *)

Root == 0
NoModel == "no model"
Ids == 1..MaxNodes
Kinds == {"user", "final", "call", "result"}

Node == [t : {"node"}, id : Ids, parent : Ids \cup {Root}, kind : Kinds,
         calls : 0..MaxCalls]
Header == [t |-> "header"]
CheckoutRecord(to) == [t |-> "checkout", to |-> to]
ModelChange(m) == [t |-> "model", model |-> m]

Record == Node \cup {Header}
               \cup {CheckoutRecord(to) : to \in Ids \cup {Root}}
               \cup {ModelChange(m) : m \in Models}

NL == [t |-> "newline"]
Torn == [t |-> "torn"]
Token == Record \cup {NL, Torn}

\* The outbox as one blob: every line, each with its newline.
Blob(recs) ==
  [i \in 1..(2 * Len(recs)) |-> IF i % 2 = 1 THEN recs[(i + 1) \div 2] ELSE NL]

\* What the disk may hold of a blob whose write stopped early.
Partial(recs, cuts) ==
  LET kept(n) == SubSeq(Blob(recs), 1, n)
      ends == 0..(Len(recs) - 1)
  IN  UNION { IF "boundary" \in cuts THEN {kept(2 * k) : k \in ends} ELSE {},
              IF "torn" \in cuts
                THEN {Append(kept(2 * k), Torn) : k \in ends} ELSE {},
              IF "bare" \in cuts THEN {kept(2 * k + 1) : k \in ends} ELSE {} }

\* Does the text split into whole JSON lines?  (A last line without its
\* newline still parses.)
WholeLines(text) ==
  \A i \in 1..Len(text) : text[i] # Torn /\ (text[i] = NL <=> i % 2 = 0)

Lines(text) == [i \in 1..((Len(text) + 1) \div 2) |-> text[2 * i - 1]]

-----------------------------------------------------------------------------
(* The tree                                                                *)

NoNodes == [id \in {} |-> Header]

Grow(tree, recs) ==
  [id \in DOMAIN tree \cup {recs[i].id : i \in DOMAIN recs} |->
     IF id \in DOMAIN tree THEN tree[id]
     ELSE recs[CHOOSE i \in DOMAIN recs : recs[i].id = id]]

\* The tip is outside every tool roundtrip: the run of results that ends
\* there, if any, answers exactly the calls of the turn right before it.
TailIsClosed(tree, id) ==
  \/ id = Root
  \/ \E n \in 0..MaxCalls : \E run \in [0..n -> DOMAIN tree] :
       /\ run[n] = id
       /\ tree[run[0]].kind # "result" /\ tree[run[0]].calls = n
       /\ \A i \in 1..n : /\ tree[run[i]].kind = "result"
                          /\ tree[run[i]].parent = run[i - 1]

Children(tree, id) == {c \in DOMAIN tree : tree[c].parent = id}

\* The forward continuation of id: descendants reached through only children.
ForwardFrom(tree, id) ==
  {c \in DOMAIN tree :
     \E n \in 1..MaxNodes : \E run \in [0..n -> DOMAIN tree] :
       /\ run[0] = id /\ run[n] = c
       /\ \A i \in 1..n : Children(tree, run[i - 1]) = {run[i]}}

ClosedAhead(tree, id) == {c \in ForwardFrom(tree, id) : TailIsClosed(tree, c)}

\* Where a checkout of `target` lands: there, or at the first closed position
\* ahead of it.  Without either the door panics before it changed anything.
Landing(tree, target) ==
  LET ahead == ClosedAhead(tree, target)
  IN  IF TailIsClosed(tree, target) THEN {target}
      ELSE {c \in ahead : \A d \in ahead : c <= d}

-----------------------------------------------------------------------------
(* The parser: one pass over the file                                      *)

Moves(rec) == rec.t \in {"node", "checkout"}
MovesTo(rec) == IF rec.t = "node" THEN rec.id ELSE rec.to

\* The head after these records: where the last of them that moves it says.
HeadOf(recs) ==
  LET moves == {i \in DOMAIN recs : Moves(recs[i])}
  IN  IF moves = {} THEN Root ELSE MovesTo(recs[Max(moves)])

NodesOf(recs) ==
  LET at == {i \in DOMAIN recs : recs[i].t = "node"}
  IN  [id \in {recs[i].id : i \in at} |-> recs[CHOOSE i \in at : recs[i].id = id]]

\* Last model_change wins.
RegisterOf(recs) ==
  LET changes == {i \in DOMAIN recs : recs[i].t = "model"}
  IN  IF changes = {} THEN NoModel ELSE recs[Max(changes)].model

\* The header leads; every node hangs off the head of its time under an id
\* of its own; every checkout names an earlier node, or the root.
WellLinked(recs) ==
  /\ recs # <<>> /\ recs[1] = Header
  /\ \A i \in 2..Len(recs) :
       LET before == SubSeq(recs, 1, i - 1)
       IN  /\ recs[i] # Header
           /\ recs[i].t = "node" =>
                /\ recs[i].parent = HeadOf(before)
                /\ recs[i].id \notin DOMAIN NodesOf(before)
           /\ recs[i].t = "checkout" =>
                recs[i].to \in DOMAIN NodesOf(before) \cup {Root}

\* The open is refused on a torn line, a broken link, or a tail left inside
\* a tool roundtrip.
Parses(text) ==
  /\ WholeLines(text)
  /\ LET recs == Lines(text)
     IN  WellLinked(recs) /\ TailIsClosed(NodesOf(recs), HeadOf(recs))

-----------------------------------------------------------------------------
(* The writer                                                              *)

\* `transition` holds the last flip of `degraded` no notice told yet.
Writer == [outbox : Seq(Record), opened : BOOLEAN, offset : Nat,
           born : BOOLEAN, degraded : BOOLEAN,
           transition : {"none", "entered", "recovered"}]

FreshWriter(lines) ==
  [outbox |-> lines, opened |-> FALSE, offset |-> 0, born |-> FALSE,
   degraded |-> FALSE, transition |-> "none"]

\* A resumed session's writer: the file open in append mode at its end.
AppendWriter(len) ==
  [FreshWriter(<<>>) EXCEPT !.opened = TRUE, !.offset = len, !.born = TRUE]

IsUserMessage(rec) == rec.t = "node" /\ rec.kind = "user"

\* Mutant: new records overtake the ones still waiting for the disk.
QueuedInFront(w, recs) ==
  [w EXCEPT !.outbox = recs \o @,
            !.born = @ \/ \E i \in DOMAIN recs : IsUserMessage(recs[i])]

\* The records enter the outbox; a user message is the session's birth.
Queued(w, recs) ==
  [w EXCEPT !.outbox = @ \o recs,
            !.born = @ \/ \E i \in DOMAIN recs : IsUserMessage(recs[i])]

\* Mutant: the recovery is not recorded as a transition.
ReportOnlyEntering(w, ok) ==
  CASE ok /\ w.degraded -> [w EXCEPT !.degraded = FALSE]
    [] ~ok /\ ~w.degraded -> [w EXCEPT !.degraded = TRUE, !.transition = "entered"]
    [] OTHER -> w

\* The degraded flag follows the outcome of the write attempt.
Report(w, ok) ==
  CASE ok /\ w.degraded -> [w EXCEPT !.degraded = FALSE, !.transition = "recovered"]
    [] ~ok /\ ~w.degraded -> [w EXCEPT !.degraded = TRUE, !.transition = "entered"]
    [] OTHER -> w

\* Mutant: no gate for birth lines.
NothingToWriteUngated(w) == w.outbox = <<>>

\* Nothing queued, or only birth lines and no file: the no-orphan gate.
NothingToWrite(w) == w.outbox = <<>> \/ (~w.born /\ ~w.opened)

Written(w) ==
  [w EXCEPT !.outbox = <<>>, !.opened = TRUE, !.offset = @ + Len(Blob(w.outbox))]

\* Mutant: the whole lines of a failed write stay in the file.
AfterFailedWriteKept(w) == {file \o part : part \in Partial(w.outbox, {"boundary"})}

\* Mutant: the truncation forgets what was durable before this write.
AfterFailedWriteEmptied(w) == {<<>>}

\* What a failed write leaves: the torn bytes cut off at the durable offset,
\* or still there when the truncation failed too.
AfterFailedWrite(w) ==
  {SubSeq(file, 1, w.offset)}
    \cup (IF TruncateMayFail
          THEN {file \o part : part \in Partial(w.outbox, Cuts)} ELSE {})

\* One enqueue: serialise the batch, attempt one write of the whole outbox,
\* report.  A refused materialisation leaves no file behind.
Enqueue(w0, recs) ==
  LET w == Queued(w0, recs)
  IN  \/ /\ NothingToWrite(w)
         /\ writer' = Report(w, TRUE)
         /\ UNCHANGED <<file, exists>>
      \/ /\ ~NothingToWrite(w)
         /\ writer' = Report(Written(w), TRUE)
         /\ file' = file \o Blob(w.outbox)
         /\ exists' = TRUE
      \/ /\ ~NothingToWrite(w) /\ ~w.opened
         /\ writer' = Report(w, FALSE)
         /\ UNCHANGED <<file, exists>>
      \/ /\ ~NothingToWrite(w)
         /\ writer' = Report([w EXCEPT !.opened = TRUE], FALSE)
         /\ file' \in AfterFailedWrite(w)
         /\ exists' = TRUE

\* Records accepted so far, the ones a dead process took along excepted.
Accepted == Len(Lines(file)) + Len(writer.outbox)

-----------------------------------------------------------------------------
(* The session's operations                                                *)

\* Mutant: ids start at the last one handed out.
ChainFromLastId(batch) ==
  [i \in DOMAIN batch |->
     [t |-> "node", id |-> minted + i - 1,
      parent |-> IF i = 1 THEN head ELSE minted + i - 2,
      kind |-> batch[i].kind, calls |-> batch[i].calls]]

\* A batch of nodes chained under the head: (kind, calls) pairs.
Chain(batch) ==
  [i \in DOMAIN batch |->
     [t |-> "node", id |-> minted + i,
      parent |-> IF i = 1 THEN head ELSE minted + i - 1,
      kind |-> batch[i].kind, calls |-> batch[i].calls]]

Entry(kind, calls) == [kind |-> kind, calls |-> calls]

Roundtrip(n) ==
  <<Entry("call", n)>> \o [i \in 1..n |-> Entry("result", 0)]

\* The batches the engine commits; only a user message opens a conversation.
Batches ==
  {<<Entry("user", 0)>>}
    \cup (IF head = Root THEN {}
          ELSE {<<Entry("final", 0)>>} \cup {Roundtrip(n) : n \in 1..MaxCalls})

HasRoom(n) == Accepted + n <= MaxRecords

\* commit_with_ids: one enqueue for the whole batch, then the tree grows.
Commit(batch) ==
  /\ phase = "live"
  /\ minted + Len(batch) <= MaxNodes /\ HasRoom(Len(batch))
  /\ Enqueue(writer, Chain(batch))
  /\ nodes' = Grow(nodes, Chain(batch))
  /\ head' = minted + Len(batch)
  /\ minted' = minted + Len(batch)
  /\ UNCHANGED <<phase, register, told>>

\* apply_checkout: the head moves to where the target lands, and a checkout
\* record is queued.  The record names the target the caller asked for.
Targets ==
  {n \in DOMAIN nodes : AskOpenTargets \/ TailIsClosed(nodes, n)}
    \cup (IF nodes = NoNodes THEN {} ELSE {Root})

Checkout(target) ==
  /\ phase = "live" /\ HasRoom(1)
  /\ head' \in Landing(nodes, target)
  /\ Enqueue(writer, <<CheckoutRecord(target)>>)
  /\ UNCHANGED <<phase, nodes, register, told, minted>>

\* ModelRegister::write: record and swap under the selection lock.
SelectModel(m) ==
  /\ phase = "live" /\ HasRoom(1)
  /\ Enqueue(writer, <<ModelChange(m)>>)
  /\ register' = m
  /\ UNCHANGED <<phase, nodes, head, told, minted>>

\* enqueue(&[]): the run's entry guard and the clean-exit flush.
Flush ==
  /\ phase = "live"
  /\ Enqueue(writer, <<>>)
  /\ UNCHANGED <<phase, nodes, head, register, told, minted>>

\* drain_persist_transitions: the notice for the pending flip goes out.
TellTransition ==
  /\ phase = "live" /\ writer.transition # "none"
  /\ told' = (writer.transition = "entered")
  /\ writer' = [writer EXCEPT !.transition = "none"]
  /\ UNCHANGED <<phase, nodes, head, register, file, exists, minted>>

-----------------------------------------------------------------------------
(* The end of a session's process, and the next one                        *)

Gone ==
  /\ nodes' = NoNodes /\ head' = Root /\ register' = NoModel
  /\ writer' = FreshWriter(<<>>)
  /\ told' = FALSE

\* Drop: a writer with a file tries once more, and that was it.
Close ==
  /\ phase = "live"
  /\ phase' = "closed"
  /\ \/ file' = file \o (IF writer.opened THEN Blob(writer.outbox) ELSE <<>>)
     \/ writer.opened /\ writer.outbox # <<>> /\ file' \in AfterFailedWrite(writer)
  /\ Gone
  /\ UNCHANGED <<exists, minted>>

\* What may be in the middle of being written when the process dies.
InFlight ==
  {<<>>} \cup {Chain(b) : b \in {b \in Batches : minted + Len(b) <= MaxNodes}}
         \cup {<<CheckoutRecord(to)>> : to \in Targets}
         \cup {<<ModelChange(m)>> : m \in Models}

\* The process dies inside an enqueue, the write cut short.
Crash ==
  /\ phase = "live" /\ CrashCuts # {}
  /\ phase' = "closed"
  /\ \E recs \in InFlight :
       LET w == Queued(writer, recs)
       IN  /\ ~NothingToWrite(w) /\ HasRoom(Len(recs))
           /\ \E part \in Partial(w.outbox, CrashCuts) : file' = file \o part
           /\ minted' = Max({minted} \cup {recs[i].id : i \in
                              {j \in DOMAIN recs : recs[j].t = "node"}})
  /\ exists' = TRUE
  /\ Gone

\* Session::resume: claim, parse, append; a caller's other selection is
\* recorded at once.
Open ==
  /\ phase = "closed" /\ exists /\ Parses(file)
  /\ phase' = "live"
  /\ nodes' = NodesOf(Lines(file))
  /\ head' = HeadOf(Lines(file))
  /\ LET last == RegisterOf(Lines(file))
     IN  \E m \in Models \cup {last} :
           /\ m # last => HasRoom(1)
           /\ register' = m
           /\ Enqueue(AppendWriter(Len(file)),
                      IF m = last THEN <<>> ELSE <<ModelChange(m)>>)
  /\ UNCHANGED <<told, minted>>

Refuse ==
  /\ phase = "closed" /\ exists /\ ~Parses(file)
  /\ phase' = "refused"
  /\ UNCHANGED <<nodes, head, register, writer, file, exists, told, minted>>

\* Nothing is left to do: a session without a file cannot be resumed, and a
\* refused one stays refused.
Over ==
  /\ phase = "refused" \/ (phase = "closed" /\ ~exists)
  /\ UNCHANGED vars

Init ==
  /\ phase = "live"
  /\ nodes = NoNodes /\ head = Root
  /\ register \in Models \cup {NoModel}
  /\ writer = FreshWriter(
       IF register = NoModel THEN <<Header>> ELSE <<Header, ModelChange(register)>>)
  /\ file = <<>> /\ exists = FALSE
  /\ told = FALSE
  /\ minted = 0

Next ==
  \/ \E batch \in Batches : Commit(batch)
  \/ \E target \in Targets : Checkout(target)
  \/ \E m \in Models : SelectModel(m)
  \/ Flush
  \/ TellTransition
  \/ Close
  \/ Crash
  \/ Open
  \/ Refuse
  \/ Over

Spec == Init /\ [][Next]_vars

-----------------------------------------------------------------------------
(* Properties                                                              *)

\* The types of the variables.
TypeOK ==
  /\ phase \in {"live", "closed", "refused"}
  /\ DOMAIN nodes \subseteq Ids
  /\ \A id \in DOMAIN nodes : nodes[id] \in Node /\ nodes[id].id = id
  /\ head \in DOMAIN nodes \cup {Root}
  /\ register \in Models \cup {NoModel}
  /\ writer \in Writer
  /\ file \in Seq(Token)
  /\ exists \in BOOLEAN /\ told \in BOOLEAN
  /\ minted \in 0..MaxNodes

\* What is on disk followed by what waits in the outbox.
Text == file \o Blob(writer.outbox)

\* The text parses to exactly the tree, the head and the register the session
\* is running on.
ReloadsAsLive ==
  LET recs == Lines(Text)
  IN  /\ Parses(Text)
      /\ nodes = NodesOf(recs) /\ head = HeadOf(recs) /\ register = RegisterOf(recs)

\* Live and reload are the same derivation, whatever the disk did and however
\* often the session was reopened, as long as checkouts name closed positions.
ClosedTargetsReload ==
  LET recs == Lines(Text)
  IN  (/\ phase = "live"
       /\ \A i \in DOMAIN recs : recs[i].t = "checkout" => TailIsClosed(nodes, recs[i].to))
        => ReloadsAsLive

\* context_manager.rs: live and reload are literally the same derivation, a
\* checkout that resolved forward included.
LiveEqualsReload == phase = "live" => ReloadsAsLive

\* A session that was opened, with nothing left to write, can be opened
\* again: no torn byte ever ends up inside its file.
CleanFileReopens ==
  phase = "live" /\ writer.outbox = <<>> => Parses(file)

\* A tool-carrying assistant is never on disk without its results while the
\* session lives, whatever the disk did to the writes (law 4 of the manager).
RoundtripsWhole ==
  phase = "live" =>
    LET recs == Lines(file)
    IN  \A i \in DOMAIN recs :
          (recs[i].t = "node" /\ recs[i].kind = "call") =>
            \A k \in 1..recs[i].calls :
              /\ i + k \in DOMAIN recs
              /\ recs[i + k].t = "node" /\ recs[i + k].kind = "result"

\* The no-orphan gate: a session nobody wrote to leaves no file behind.  (A death inside the
\* first write may leave the header of one somebody did write to.)
NoOrphan == exists => minted > 0

\* What the frontend was last told about persistence is true up to the one
\* flip still waiting for its notice.
NoticeTracksDegraded ==
  /\ writer.transition = "none" => told = writer.degraded
  /\ writer.transition = "entered" => writer.degraded
  /\ writer.transition = "recovered" => ~writer.degraded

\* A checkout always finds a closed position ahead of an open target, so the
\* door's panic is unreachable: no branch ever starts inside a roundtrip.
OpenIsCompletable ==
  \A id \in DOMAIN nodes :
    TailIsClosed(nodes, id) \/ ClosedAhead(nodes, id) # {}

\* The file is the session: what reopens is what lived, no roundtrip is ever half on
\* disk, and no branch of it starts where no later checkout could close it.
FileIsTheSession == ClosedTargetsReload /\ RoundtripsWhole /\ OpenIsCompletable

\* No step, failed writes and deaths included, disturbs the bytes the writer
\* counts as durable.
DurableNeverLost ==
  [][IsPrefix(SubSeq(file, 1, writer.offset), file')]_vars

\* The log keeps the promise of DurableLog: the lines on disk followed by
\* the outbox are the accepted records.
Complete(text) ==
  Lines(IF text # <<>> /\ Last(text) = Torn THEN Front(text) ELSE text)

Promise == INSTANCE DurableLog WITH
  log <- Complete(file) \o writer.outbox,
  durable <- Len(Complete(file)),
  up <- phase = "live"

ImplementsDurableLog == Promise!Spec
=============================================================================
