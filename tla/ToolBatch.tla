----------------------------- MODULE ToolBatch -----------------------------
(***************************************************************************)
(* One turn's batch of tool calls: admission, the gate hooks, the body, the *)
(* result hooks and the settlement (tabit-engine agent/drive.rs            *)
(* drive_tool_calls, agent/runner.rs run_single_tool, agent/hook.rs).       *)
(*                                                                         *)
(* The hook stack is one hook and, behind it, a nested stack of two; the   *)
(* hooks are numbered in resolution order and 0 is the model's own value.  *)
(* Every hook and every body is an await, where the chains of a concurrent *)
(* batch interleave and where the owner may drop the run.                   *)
(***************************************************************************)
EXTENDS Integers, FiniteSets, SequencesExt

CONSTANTS BatchSize,       \* the calls of the batch are 1..BatchSize
          Widths,      \* the concurrencies a runner may have
          Priorities,  \* the priorities hooks are registered at
          MaxHooks     \* bound on the registrations

ASSUME BatchAssumption == BatchSize \in Nat /\ Widths \subseteq Nat \ {0} /\ Priorities \subseteq Int /\ MaxHooks \in Nat

VARIABLES width,      \* AgentRunner::concurrency
          offered,    \* the calls whose name the model was offered
          live,       \* the implementation the registry holds now; the turn pinned 1
          chain,      \* per call, how far it has come
          args,       \* per call, who wrote the arguments in force (args)
          inner,      \* per call, the rewrite the nested stack has accumulated
          frames,     \* ToolCallRewriteFrames, keyed by the internal call id
          rewrote,    \* per call, the gate hooks that rewrote its arguments
          ran,        \* per call, [by, with] of the body that ran, or Nothing
          view,       \* per call, who wrote the presentation
          redacted,   \* per call, whether a result hook rewrote the presentation
          stops,      \* the calls whose result hook stopped the run
          order,      \* the calls in the order their chains completed
          stop,       \* batch_stop: the call whose reason settles, 0 for none
          batch       \* "running", "settled" or "dropped"

batchVars == <<width, offered, live, chain, args, inner, frames, rewrote, ran, view, redacted,
               stops, order, stop, batch>>

Each(v) == [c \in 1..BatchSize |-> v]
Nothing == [by |-> 0, with |-> 0]
Stages == {"queued", "gate1", "gate2", "gate3", "body", "result1", "result3", "done"}

BatchInit ==
  /\ width \in Widths /\ offered \in SUBSET (1..BatchSize) /\ live = 1
  /\ chain = Each("queued") /\ args = Each(0) /\ inner = Each(0) /\ frames = Each(<<>>)
  /\ rewrote = Each({}) /\ ran = Each(Nothing) /\ view = Each(0) /\ redacted = Each(FALSE)
  /\ stops = {} /\ order = <<>> /\ stop = 0 /\ batch = "running"

InFlight == {c \in 1..BatchSize : chain[c] \notin {"queued", "done"}}
To(c, stage) == chain' = [chain EXCEPT ![c] = stage]

\* The registry may be replaced under the batch.
Reregister ==
  /\ batch = "running" /\ live = 1 /\ live' = 2
  /\ UNCHANGED <<width, offered, chain, args, inner, frames, rewrote, ran, view, redacted, stops, order, stop, batch>>

\* Chains start in call order, at most width at a time; a name that was not
\* offered settles at once with the rejection, past every hook.
Admitted == offered
Start(c) ==
  /\ batch = "running" /\ chain[c] = "queued" /\ \A d \in 1..c - 1 : chain[d] # "queued"
  /\ Cardinality(InFlight) < width
  /\ IF c \in Admitted THEN To(c, "gate1") /\ UNCHANGED order
                       ELSE To(c, "done") /\ order' = Append(order, c)
  /\ UNCHANGED <<width, offered, live, args, inner, frames, rewrote, ran, view, redacted, stops, stop, batch>>

\* HookStack::resolve_tool_call at the outer stack's own hook. Passing it enters
\* the nested stack, which the erased dispatch brackets with a frame.
OuterHook(c) ==
  /\ batch = "running" /\ chain[c] = "gate1"
  /\ \/ To(c, "gate2") /\ UNCHANGED <<args, rewrote>> /\ frames' = [frames EXCEPT ![c] = Append(@, 0)]
     \/ /\ To(c, "gate2") /\ args' = [args EXCEPT ![c] = 1]
        /\ rewrote' = [rewrote EXCEPT ![c] = @ \union {1}]
        /\ frames' = [frames EXCEPT ![c] = Append(@, 0)]
     \/ To(c, "result1") /\ UNCHANGED <<args, rewrote, frames>>
  /\ UNCHANGED <<width, offered, live, inner, ran, view, redacted, stops, order, stop, batch>>

\* A hook of the nested stack lets the call pass.
InnerHook(c) ==
  /\ batch = "running" /\ chain[c] = "gate2" /\ To(c, "gate3")
  /\ \/ UNCHANGED <<inner, rewrote>>
     \/ inner' = [inner EXCEPT ![c] = 2] /\ rewrote' = [rewrote EXCEPT ![c] = @ \union {2}]
  /\ UNCHANGED <<width, offered, live, args, frames, ran, view, redacted, stops, order, stop, batch>>
\* The last one passes: the nested stack answers with its rewrite, if it has one.
LastHook(c) ==
  /\ batch = "running" /\ chain[c] = "gate3" /\ To(c, "body")
  /\ frames' = [frames EXCEPT ![c] = Front(@)]
  /\ \/ /\ args' = [args EXCEPT ![c] = IF inner[c] = 0 THEN @ ELSE inner[c]]
        /\ UNCHANGED <<inner, rewrote>>
     \/ /\ args' = [args EXCEPT ![c] = 3] /\ inner' = [inner EXCEPT ![c] = 3]
        /\ rewrote' = [rewrote EXCEPT ![c] = @ \union {3}]
  /\ UNCHANGED <<width, offered, live, ran, view, redacted, stops, order, stop, batch>>

\* A skip inside the nested stack: its rewrite rides the frame to the outer
\* stack, so the skipped call still reports the arguments in force.
Skip(c) ==
  /\ batch = "running" /\ chain[c] \in {"gate2", "gate3"} /\ To(c, "result1")
  /\ frames' = [frames EXCEPT ![c] = Front(@)]
  /\ args' = [args EXCEPT ![c] = IF inner[c] = 0 THEN @ ELSE inner[c]]
  /\ UNCHANGED <<width, offered, live, inner, rewrote, ran, view, redacted, stops, order, stop, batch>>

\* The body, on the sidecar: the pinned implementation, whatever it returns; a
\* panic is contained as a failed result.
Body(c) ==
  /\ batch = "running" /\ chain[c] = "body" /\ To(c, "result1")
  /\ ran' = [ran EXCEPT ![c] = [by |-> 1, with |-> args[c]]]
  /\ UNCHANGED <<width, offered, live, args, inner, frames, rewrote, view, redacted, stops, order, stop, batch>>

\* on_tool_result: keep, rewrite the presentation, or stop the run after this batch.
Present(c) ==
  /\ batch = "running" /\ chain[c] = "result1" /\ To(c, "result3")
  /\ \/ UNCHANGED <<view, redacted>>
     \/ view' = [view EXCEPT ![c] = 1] /\ redacted' = [redacted EXCEPT ![c] = TRUE]
  /\ UNCHANGED <<width, offered, live, args, inner, frames, rewrote, ran, stops, order, stop, batch>>
PresentLast(c) ==
  /\ batch = "running" /\ chain[c] = "result3" /\ To(c, "done") /\ order' = Append(order, c)
  /\ \/ UNCHANGED <<view, redacted>>
     \/ view' = [view EXCEPT ![c] = 3] /\ redacted' = [redacted EXCEPT ![c] = TRUE]
  /\ UNCHANGED <<width, offered, live, args, inner, frames, rewrote, ran, stops, stop, batch>>

\* Stop answers in place of whatever the earlier hooks had made of the result.
StopFirstDone(c) ==
  /\ batch = "running" /\ chain[c] \in {"result1", "result3"} /\ To(c, "done")
  /\ order' = Append(order, c) /\ stops' = stops \union {c}
  /\ stop' = IF stop = 0 THEN c ELSE stop
  /\ view' = [view EXCEPT ![c] = 0]
  /\ UNCHANGED <<width, offered, live, args, inner, frames, rewrote, ran, redacted, batch>>
StopRun(c) ==
  /\ batch = "running" /\ chain[c] \in {"result1", "result3"} /\ To(c, "done")
  /\ order' = Append(order, c) /\ stops' = stops \union {c}
  /\ stop' = IF stop = 0 \/ c < stop THEN c ELSE stop
  /\ view' = [view EXCEPT ![c] = 0]
  /\ UNCHANGED <<width, offered, live, args, inner, frames, rewrote, ran, redacted, batch>>

\* What the settled batch surfaces and commits, slot by slot.
Surfaced(c) == IF ran[c] = Nothing THEN <<[kind |-> "result", call |-> c]>>
               ELSE <<[kind |-> "executed", call |-> c, with |-> args[c]], [kind |-> "result", call |-> c]>>
Slots == [n \in 1..BatchSize |-> n]
Items == FlattenSeq([n \in DOMAIN Slots |-> Surfaced(Slots[n])])

Settle ==
  /\ batch = "running" /\ \A c \in 1..BatchSize : chain[c] = "done"
  /\ batch' = "settled"
  /\ UNCHANGED <<width, offered, live, chain, args, inner, frames, rewrote, ran, view, redacted, stops, order, stop>>

\* Dropping the run drops the chains and their frames; a body runs on, detached.
DropRun ==
  /\ batch = "running" /\ batch' = "dropped" /\ frames' = Each(<<>>)
  /\ UNCHANGED <<width, offered, live, chain, args, inner, rewrote, ran, view, redacted, stops, order, stop>>

ChainStep(c) == \/ Start(c) \/ OuterHook(c) \/ InnerHook(c) \/ LastHook(c) \/ Skip(c)
                \/ Body(c) \/ Present(c) \/ PresentLast(c) \/ StopRun(c)
BatchStep == (\E c \in 1..BatchSize : ChainStep(c)) \/ Settle
BatchNext == BatchStep \/ Reregister \/ DropRun

-----------------------------------------------------------------------------
BatchTypeOK ==
  /\ chain \in [1..BatchSize -> Stages] /\ batch \in {"running", "settled", "dropped"}
  /\ {args, inner, view} \subseteq [1..BatchSize -> 0..3] /\ stop \in 0..BatchSize
  /\ Cardinality(InFlight) <= width

\* The committed results and the surfaced items stand in call order, one result
\* per call, whatever order the chains completed in.
ResultsInCallOrder ==
  batch = "settled" =>
    LET results == SelectSeq(Items, LAMBDA i : i.kind = "result")
    IN Len(results) = BatchSize /\ \A c \in 1..BatchSize : results[c].call = c

\* Of several stops the lowest call index settles, in either concurrency.
LowestStopWins == stop = IF stops = {} THEN 0 ELSE CHOOSE c \in stops : \A d \in stops : c <= d

\* The arguments the body receives, the execution commit shows and a skipped
\* call's result hooks are told are those of the last hook that rewrote them:
\* no skip and no nesting loses a rewrite.
EffectiveArgs ==
  \A c \in 1..BatchSize :
    chain[c] \in {"body", "result1", "result3", "done"} =>
      /\ args[c] = IF rewrote[c] = {} THEN 0 ELSE CHOOSE h \in rewrote[c] : \A g \in rewrote[c] : g <= h
      /\ ran[c] # Nothing => ran[c].with = args[c]

\* Only the implementation whose schema the model was sent ever runs for it.
PinnedImplementation == \A c \in 1..BatchSize : ran[c].by \in {0, 1}

\* A name that was not offered runs nothing and asks no hook.
RejectedTouchesNothing ==
  \A c \in 1..BatchSize \ offered : chain[c] \in {"queued", "done"} /\ ran[c] = Nothing /\ c \notin stops

\* Whatever the hooks decide, a batch nobody drops goes on until every call has
\* its result: no skip, no stop and no rejection strands a sibling.
BatchIsSealed == batch = "running" => ENABLED BatchStep

\* No rewrite outlives its resolution: the frame table is empty between batches.
FramesDrain == batch \in {"settled", "dropped"} => \A c \in 1..BatchSize : frames[c] = <<>>

\* NOT true of the code: runner.rs: "result content follows the same presentation policy as the model.
\* This keeps redaction and stop hooks from leaking raw tool output".
RedactionSurvives == \A c \in 1..BatchSize : chain[c] = "done" /\ redacted[c] => view[c] # 0

-----------------------------------------------------------------------------
(* The order of a stack: registrations at a priority, and the merge of the *)
(* extensions' stack under the same law (HookStack).                       *)

VARIABLES core,    \* the assembly's own stack: records [id, priority, seq], sorted
          extra,   \* the extensions' stack
          hooks_asked,   \* the registrations in the order the law counts them
          merged   \* whether the extensions' stack has been merged

hookVars == <<core, extra, hooks_asked, merged>>

Before(a, b) == a.priority < b.priority \/ (a.priority = b.priority /\ a.seq < b.seq)
Sorted(stack) == SortSeq(stack, Before)
Hook(id, priority, seq) == [id |-> id, priority |-> priority, seq |-> seq]
Pushed(stack, id, priority) == Sorted(Append(stack, Hook(id, priority, Len(stack))))

HookInit == core = <<>> /\ extra = <<>> /\ hooks_asked = [core |-> <<>>, extra |-> <<>>] /\ merged = FALSE

Total == Len(hooks_asked.core) + Len(hooks_asked.extra)
Register(p) ==
  /\ Total < MaxHooks /\ core' = Pushed(core, Total + 1, p)
  /\ hooks_asked' = [hooks_asked EXCEPT !.core = Append(@, <<Total + 1, p>>)]
  /\ UNCHANGED <<extra, merged>>
RegisterExtra(p) ==
  /\ Total < MaxHooks /\ ~merged /\ extra' = Pushed(extra, Total + 1, p)
  /\ hooks_asked' = [hooks_asked EXCEPT !.extra = Append(@, <<Total + 1, p>>)]
  /\ UNCHANGED <<core, merged>>

\* merge: the other's sequence numbers move past this stack's.
Merge ==
  /\ ~merged /\ merged' = TRUE /\ extra' = <<>>
  /\ core' = Sorted(core \o [n \in DOMAIN extra |-> [extra[n] EXCEPT !.seq = @ + Len(core)]])
  /\ hooks_asked' = [core |-> hooks_asked.core \o hooks_asked.extra, extra |-> <<>>]

HookNext == Merge \/ \E p \in Priorities : Register(p) \/ RegisterExtra(p)

\* One law for every assembly: hooks resolve by priority and, among equals, in
\* registration order, this stack's own before the merged ones, also for what is
\* registered after the merge.
OneOrderLaw ==
  /\ Len(core) = Len(hooks_asked.core)
  /\ \A i, j \in DOMAIN core : i < j =>
       \/ core[i].priority < core[j].priority
       \/ /\ core[i].priority = core[j].priority
          /\ \E a, b \in DOMAIN hooks_asked.core :
               a < b /\ hooks_asked.core[a][1] = core[i].id /\ hooks_asked.core[b][1] = core[j].id

-----------------------------------------------------------------------------
(***************************************************************************)
(* The shared tool registry and one MCP handler that keeps it in step with *)
(* its server's list (tabit-engine tool/server.rs, tool/rmcp.rs).  The     *)
(* registry is an ordered map; what a handler registered carries a token,  *)
(* here the number of the fetch that minted it.                            *)
(*                                                                         *)
(* Task 0 is connect(), tasks 1 and 2 the notification-driven refreshes.   *)
(***************************************************************************)
CONSTANTS Names,        \* the tool names a server may list
          Budgets,      \* what may happen to one run: bounds on the changes of the server's
                        \* list, the failed fetches, the local registrations and the closes
          EarlyNotice   \* whether a notification may be taken before connect numbers its fetch

ASSUME RegistryAssumption ==
  /\ Budgets \subseteq [changes : Nat, failures : Nat, locals : Nat, closes : Nat]
  /\ EarlyNotice \in BOOLEAN

VARIABLES list,       \* the server's list now
          left,       \* what remains of the budget
          notices,    \* notifications not yet taken
          up,         \* the transport is alive
          registry,   \* toolset: entries [name, owner] in order
          managed,    \* managed_generations: name -> token, 0 for none
          owned,      \* ManagedToolsState.registrations: name -> token, 0 for none
          committed,  \* committed_refresh
          next,       \* next_refresh
          active, dirty,  \* RefreshActivity
          task,       \* per task, [at, num, got]
          lost,       \* the number of the last fetch that failed
          snap        \* the owners in the last snapshot taken after the transport closed

regVars == <<list, left, notices, up, registry, managed, owned, committed,
             next, active, dirty, task, lost, snap>>

Lists == UNION {{s \in [1..n -> Names] : IsInjective(s)} : n \in 0..Cardinality(Names)}
Entry(n, owner) == [name |-> n, owner |-> owner]
NamesIn(r) == {r[i].name : i \in DOMAIN r}
Without(r, gone) == SelectSeq(r, LAMBDA e : e.name \notin gone)
\* ToolSet insertion: a known name is replaced in place, a new one goes to the end.
Insert(r, e) == IF e.name \in NamesIn(r)
                THEN [i \in DOMAIN r |-> IF r[i].name = e.name THEN e ELSE r[i]]
                ELSE Append(r, e)
Idle == [at |-> "idle", num |-> 0, got |-> <<>>]

RegInit ==
  /\ list = SetToSeq(Names) /\ left \in Budgets /\ notices = 0 /\ up = TRUE
  /\ registry = <<>> /\ managed = [n \in Names |-> 0] /\ owned = [n \in Names |-> 0]
  /\ committed = 0 /\ next = 0 /\ active = 0 /\ dirty = FALSE
  /\ task = [t \in 0..2 |-> IF t = 0 THEN [Idle EXCEPT !.at = "begin"] ELSE Idle]
  /\ lost = 0 /\ snap = {}

Change ==
  /\ up /\ left.changes > 0 /\ list' \in Lists \ {list}
  /\ left' = [left EXCEPT !.changes = @ - 1] /\ notices' = notices + 1
  /\ UNCHANGED <<up, registry, managed, owned, committed, next, active, dirty, task, lost, snap>>

\* add_tool: the newest registration wins and the handler's token is cleared.
AddLocal(n) ==
  /\ left.locals > 0 /\ left' = [left EXCEPT !.locals = @ - 1]
  /\ registry' = Insert(registry, Entry(n, "local")) /\ managed' = [managed EXCEPT ![n] = 0]
  /\ UNCHANGED <<list, notices, up, owned, committed, next, active, dirty, task, lost, snap>>

\* try_start_refresh: two fetches at most; further notices coalesce into one.
FreeSlot == IF task[1] = Idle THEN 1 ELSE 2
Notice(t) ==
  /\ up /\ notices > 0 /\ notices' = notices - 1
  /\ EarlyNotice \/ task[0].at # "begin"
  /\ IF active >= 2 THEN t = 2 /\ dirty' = TRUE /\ UNCHANGED <<active, task>>
     ELSE t = FreeSlot /\ task' = [task EXCEPT ![t].at = "begin"] /\ active' = active + 1 /\ UNCHANGED dirty
  /\ UNCHANGED <<list, left, up, registry, managed, owned, committed, next, lost, snap>>

\* begin_refresh: the number is taken when the fetch begins.
Begin(t) ==
  /\ task[t].at = "begin" /\ next' = next + 1
  /\ task' = [task EXCEPT ![t] = [at |-> "fetch", num |-> next', got |-> <<>>]]
  /\ UNCHANGED <<list, left, notices, up, registry, managed, owned, committed, active, dirty, lost, snap>>

\* The server answers with its list of that moment, in any order of the requests.
Answer(t) ==
  /\ up /\ task[t].at = "fetch"
  /\ task' = [task EXCEPT ![t].at = "answered", ![t].got = list]
  /\ UNCHANGED <<list, left, notices, up, registry, managed, owned, committed, next, active, dirty, lost, snap>>

\* A fetch error or deadline: connect fails and drops the service, a refresh is logged.
Fail(t) ==
  /\ task[t].at = "fetch" /\ (up => left.failures > 0)
  /\ left' = IF up THEN [left EXCEPT !.failures = @ - 1] ELSE left
  /\ lost' = IF task[t].num > lost THEN task[t].num ELSE lost
  /\ task' = [task EXCEPT ![t].at = IF t = 0 THEN "idle" ELSE "finish"]
  /\ up' = (up /\ t # 0)
  /\ UNCHANGED <<list, notices, registry, managed, owned, committed, next, active, dirty, snap>>

Disconnect ==
  /\ up /\ left.closes > 0 /\ left' = [left EXCEPT !.closes = @ - 1] /\ up' = FALSE
  /\ UNCHANGED <<list, notices, registry, managed, owned, committed, next, active, dirty, task, lost, snap>>

\* commit_initial: last registration wins, every listed name is taken over.
Stale(t) == task[t].num <= committed
Install(t, r) ==
  FoldLeft(LAMBDA acc, n : Insert(acc, Entry(n, "mcp")), r, IF up THEN task[t].got ELSE <<>>)
Listed(t) == IF up THEN Range(task[t].got) ELSE {}
CommitInitial ==
  /\ task[0].at = "answered" /\ task' = [task EXCEPT ![0] = Idle]
  /\ IF Stale(0) THEN UNCHANGED <<registry, managed, owned, committed>>
     ELSE /\ registry' = Install(0, registry)
          /\ managed' = [n \in Names |-> IF n \in Listed(0) THEN task[0].num ELSE managed[n]]
          /\ owned' = [n \in Names |-> IF n \in Listed(0) THEN task[0].num ELSE 0]
          /\ committed' = task[0].num
  /\ UNCHANGED <<list, left, notices, up, next, active, dirty, lost, snap>>

\* reconcile_managed_erased_tools: dead transports retire first; a name changes
\* hands only while its token is the one this handler holds, or its slot is empty.
Retired == IF up THEN registry ELSE SelectSeq(registry, LAMBDA e : e.owner = "local")
MayRegister(n) == n \notin NamesIn(Retired) \/ (owned[n] # 0 /\ managed[n] = owned[n])
Taken(t) == SelectSeq(IF up THEN task[t].got ELSE <<>>, MayRegister)
Dropped(t) == {n \in Names \ Listed(t) : owned[n] # 0 /\ managed[n] = owned[n]}
\* Mutant: a tool that is there keeps its old place.
ReconciledInPlace(t) ==
  FoldLeft(LAMBDA acc, n : Insert(acc, Entry(n, "mcp")), Without(Retired, Dropped(t)), Taken(t))
Reconciled(t) ==
  Without(Retired, Dropped(t) \union Range(Taken(t))) \o [i \in DOMAIN Taken(t) |-> Entry(Taken(t)[i], "mcp")]
CommitRefresh(t) ==
  /\ t # 0 /\ task[t].at = "answered" /\ task' = [task EXCEPT ![t].at = "finish"]
  /\ IF Stale(t) THEN UNCHANGED <<registry, managed, owned, committed>>
     ELSE /\ registry' = Reconciled(t)
          /\ managed' = [n \in Names |-> IF n \in Range(Taken(t)) THEN task[t].num
                                         ELSE IF ~up \/ n \in Dropped(t) THEN 0 ELSE managed[n]]
          /\ owned' = [n \in Names |-> IF n \in Range(Taken(t)) THEN task[t].num ELSE 0]
          /\ committed' = task[t].num
  /\ UNCHANGED <<list, left, notices, up, next, active, dirty, lost, snap>>

\* finish_or_restart_refresh: a dirty mark restarts the same task.
FinishRefresh(t) ==
  /\ task[t].at = "finish"
  /\ IF dirty THEN dirty' = FALSE /\ task' = [task EXCEPT ![t].at = "begin"] /\ UNCHANGED active
              ELSE active' = active - 1 /\ task' = [task EXCEPT ![t] = Idle] /\ UNCHANGED dirty
  /\ UNCHANGED <<list, left, notices, up, registry, managed, owned, committed, next, lost, snap>>

\* snapshot_tool_defs: dead transports retire before the turn's definitions are read.
Snapshot ==
  /\ ~up /\ registry # <<>> /\ registry' = Retired
  /\ managed' = [n \in Names |-> IF n \in NamesIn(registry) \ NamesIn(Retired) THEN 0 ELSE managed[n]]
  /\ snap' = {Retired[i].owner : i \in DOMAIN Retired}
  /\ UNCHANGED <<list, left, notices, up, owned, committed, next, active, dirty, task, lost>>

RegNext ==
  \/ Change \/ (\E n \in Names : AddLocal(n)) \/ CommitInitial \/ Snapshot \/ Disconnect
  \/ \E t \in 1..2 : Notice(t) \/ CommitRefresh(t) \/ FinishRefresh(t)
  \/ \E t \in 0..2 : Begin(t) \/ Answer(t) \/ Fail(t)

-----------------------------------------------------------------------------
Mine(r) == SelectSeq(r, LAMBDA e : e.owner = "mcp")
Quiet == up /\ notices = 0 /\ \A t \in 0..2 : task[t] = Idle

RegTypeOK ==
  /\ registry \in Seq([name : Names, owner : {"local", "mcp"}])
  /\ Cardinality(NamesIn(registry)) = Len(registry)
  /\ active \in 0..2 /\ active = Cardinality({t \in 1..2 : task[t] # Idle})
  /\ {committed, lost} \subseteq 0..next

\* Whatever order the fetches are answered and committed in, a registry at rest
\* offers the server's present list, local registrations apart: no older list
\* overwrites a newer one, no removed tool stays, no listed one is missing.
Converges ==
  Quiet /\ committed > lost =>
    NamesIn(Mine(registry)) = Range(list) \ {e.name : e \in {x \in Range(registry) : x.owner = "local"}}

\* A refresh never takes a name from a live local registration, nor deletes one.
LocalsStand ==
  [][\A t \in 1..2 : task[t].at = "answered" /\ task'[t].at = "finish" =>
       {e \in Range(registry) : e.owner = "local"} \subseteq Range(registry')]_regVars

\* What a refresh installs stands at the end, in the server's order, whatever
\* order its tools were in before.
OrderFollowsList ==
  [][\A t \in 1..2 : committed # committed' /\ committed' = task[t].num =>
       LET wanted == SelectSeq(task[t].got, LAMBDA n : owned'[n] = committed')
       IN wanted = [i \in DOMAIN wanted |-> registry'[Len(registry') - Len(wanted) + i].name]]_regVars

\* No turn is offered a tool whose transport is closed.
SnapshotIsLive == "mcp" \notin snap
=============================================================================
