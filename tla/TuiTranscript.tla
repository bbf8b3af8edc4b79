--------------------------- MODULE TuiTranscript ---------------------------
(***************************************************************************)
(* The transcript and the session tree of one stream in the terminal       *)
(* frontend (tui session-tree.ts, transcript-registry.ts and the           *)
(* transcript handlers of mode.ts), fed by a session whose log it never    *)
(* sees: entries come as frames, live or in the replay pass of an attach   *)
(* or a checkout, some of them of turns that are never recorded.           *)
(* An entry's id is the order of its birth.                                *)
(***************************************************************************)
EXTENDS Integers, Sequences, SequencesExt, FiniteSets, FiniteSetsExt, Functions

CONSTANTS MaxEntries, MaxMoves

VARIABLES
  log,       \* the session's entries by id: parent, kind, cut child, text
  tip,       \* the session's head
  born,      \* the ids handed out
  run,       \* the run: its phase, its open turn and that turn's result
  moves,     \* the checkouts left
  attached,  \* whether the frontend has seen the session
  nodes,     \* the tree: each node's parent
  head,      \* the tree's head
  openTurn,  \* the turn that accepts preview text
  preview,   \* the texts in each node's preview
  pane       \* the blocks of the transcript, <<kind, turn>>

transcriptVars == <<log, tip, born, run, moves, attached, nodes, head, openTurn, preview, pane>>
tree == <<nodes, head, openTurn, preview>>

None == 0
Rest == [phase |-> "rest", turn |-> None, result |-> None]
Tree == [nodes |-> nodes, head |-> head, openTurn |-> openTurn, preview |-> preview, pane |-> pane]

-----------------------------------------------------------------------------
\* SessionTree.enter: a known id moves the head, a new one parents on it.
Enter(t, id) ==
  IF id \in DOMAIN t.nodes THEN [t EXCEPT !.head = id]
  ELSE [t EXCEPT !.nodes = (id :> t.head) @@ @, !.head = id, !.preview = (id :> 0) @@ @]
OpenTurn(t, id) == [Enter(t, id) EXCEPT !.openTurn = IF id \in DOMAIN t.nodes THEN @ ELSE id]
AppendTurnText(t, id) == IF t.openTurn = id THEN [t EXCEPT !.preview[id] = @ + 1] ELSE t
CloseTurn(t) == [t EXCEPT !.openTurn = None]
CheckoutTree(t, id) == [t EXCEPT !.openTurn = None, !.head = id]

\* The path from an entry to its root.
PathUp(parents, id) ==
  LET up[k \in 0..Cardinality(DOMAIN parents)] ==
        IF k = 0 THEN {id} \cap DOMAIN parents
        ELSE up[k - 1] \cup ({parents[a] : a \in up[k - 1]} \cap DOMAIN parents)
  IN up[Cardinality(DOMAIN parents)]

\* Mutant: the head stays on the turn that went.
RetryTurnKeepsHead(t, id) ==
  LET gone == {n \in DOMAIN t.nodes : id \in PathUp(t.nodes, n)}
      kept == DOMAIN t.nodes \ gone
  IN [t EXCEPT !.nodes = Restrict(@, kept), !.preview = Restrict(@, kept),
               !.openTurn = IF @ = id THEN None ELSE @]
\* SessionTree.retryTurn: the turn and what hangs from it go.
RetryTurn(t, id) ==
  LET gone == {n \in DOMAIN t.nodes : id \in PathUp(t.nodes, n)}
      kept == DOMAIN t.nodes \ gone
  IN [t EXCEPT !.nodes = Restrict(@, kept), !.preview = Restrict(@, kept),
               !.openTurn = IF @ = id THEN None ELSE @,
               !.head = IF @ \in gone THEN t.nodes[id] ELSE @]

\* The transcript: a block at its first content, a turn's blocks together gone.
Block(t, kind, turn) == IF Contains(t.pane, <<kind, turn>>) THEN t
                        ELSE [t EXCEPT !.pane = Append(@, <<kind, turn>>)]
RemoveTurn(t, turn) ==
  [t EXCEPT !.pane = SelectSeq(@, LAMBDA b : b[2] # turn)]

\* The frames of the session, as the handlers fold them.
UserFrame(t, id) == Block(Enter(t, id), "user", id)
TextFrame(t, id) == Block(AppendTurnText(t, id), "text", id)
RetriedFrame(t, id) == RemoveTurn(RetryTurn(t, id), id)
ResultFrame(t, id) == Enter(t, id)
CompactionFrame(t, id) == Enter(t, id)

\* A replay pass clears the transcript and walks the chain; a compaction's
\* marker comes ahead of its cut child.
Chain(entries, top) == SortSeq(SetToSeq(PathUp([n \in DOMAIN entries |-> entries[n].parent], top)), <)
EntryFrames(t, id) ==
  CASE log[id].kind = "user" -> UserFrame(t, id)
    [] log[id].kind = "turn" -> LET u == OpenTurn(t, id)
                                    v == IF log[id].text THEN TextFrame(u, id) ELSE u
                                IN IF log[id].calls THEN Block(v, "tool", id) ELSE v
    [] log[id].kind = "result" -> ResultFrame(t, id)
    [] OTHER -> t
BeginReplay(t) == [CloseTurn(t) EXCEPT !.pane = <<>>]
Pass(t, top) ==
  LET chain == Chain(log, top)
      Cuts(n) == SelectSeq(chain, LAMBDA c : log[c].kind = "compaction" /\ log[c].cut = n)
      Step(acc, n) == EntryFrames(FoldLeft(CompactionFrame, acc, Cuts(n)), n)
  IN FoldLeft(Step, BeginReplay(t), chain)

Shows(t) == /\ nodes' = t.nodes /\ head' = t.head /\ openTurn' = t.openTurn
            /\ preview' = t.preview /\ pane' = t.pane
\* Frames reach only a frontend that is attached.
Frame(t) == Shows(IF attached THEN t ELSE Tree) /\ UNCHANGED attached

-----------------------------------------------------------------------------
TranscriptInit ==
  /\ log = <<>> /\ tip = None /\ born = 0 /\ run = Rest /\ moves = MaxMoves /\ attached = FALSE
  /\ nodes = <<>> /\ head = None /\ openTurn = None /\ preview = <<>> /\ pane = <<>>

Born == born < MaxEntries /\ born' = born + 1
Records(entries) == /\ log' = entries @@ log /\ tip' = Max(DOMAIN entries)
Entry(parent, kind) == [parent |-> parent, kind |-> kind, cut |-> None, text |-> FALSE, calls |-> FALSE]

UserMessage ==
  /\ run.phase \in {"rest", "between"} /\ Born
  /\ Records(born' :> Entry(tip, "user")) /\ run' = [Rest EXCEPT !.phase = "between"]
  /\ Frame(UserFrame(Tree, born')) /\ UNCHANGED moves
TurnStarted ==
  /\ run.phase = "between" /\ Born
  /\ run' = [phase |-> "turn", turn |-> born', result |-> None, text |-> FALSE]
  /\ Frame(OpenTurn(Tree, born')) /\ UNCHANGED <<log, tip, moves>>
TextDelta ==
  /\ run.phase = "turn" /\ ~run.text /\ run' = [run EXCEPT !.text = TRUE]
  /\ Frame(TextFrame(Tree, run.turn)) /\ UNCHANGED <<log, tip, born, moves>>
TurnRetried ==
  /\ run.phase = "turn" /\ run' = [Rest EXCEPT !.phase = "between"]
  /\ Frame(RetriedFrame(Tree, run.turn)) /\ UNCHANGED <<log, tip, born, moves>>
\* A turn without calls is recorded as it commits and ends the run.
TurnCommitted ==
  /\ run.phase = "turn" /\ run' = Rest
  /\ Records(run.turn :> [Entry(tip, "turn") EXCEPT !.text = run.text])
  /\ Frame(Tree) /\ UNCHANGED <<born, moves>>
\* A turn with a call waits for its result, and both are recorded together.
ToolCall ==
  /\ run.phase = "turn" /\ run' = [run EXCEPT !.phase = "calls"]
  /\ Frame(Block(Tree, "tool", run.turn)) /\ UNCHANGED <<log, tip, born, moves>>
ToolResult ==
  /\ run.phase = "calls" /\ Born
  /\ run' = [run EXCEPT !.phase = "settled", !.result = born']
  /\ Frame(ResultFrame(Tree, born')) /\ UNCHANGED <<log, tip, moves>>
BatchResults ==
  /\ run.phase = "settled" /\ run' = [Rest EXCEPT !.phase = "between"]
  /\ Records((run.turn :> [Entry(tip, "turn") EXCEPT !.text = run.text, !.calls = TRUE])
             @@ (run.result :> Entry(run.turn, "result")))
  /\ Frame(Tree) /\ UNCHANGED <<born, moves>>
\* An aborted or failed run records nothing of its open turn.
RunStops ==
  /\ run.phase # "rest" /\ run' = Rest
  /\ Frame(Tree) /\ UNCHANGED <<log, tip, born, moves>>

CompactionStep ==
  /\ run.phase = "rest" /\ tip # None /\ Born
  /\ \E cut \in PathUp([n \in DOMAIN log |-> log[n].parent], tip) :
       /\ log[cut].kind \in {"user", "turn"}
       /\ Records(born' :> [Entry(tip, "compaction") EXCEPT !.cut = cut])
  /\ Frame(CompactionFrame(Tree, born')) /\ UNCHANGED <<run, moves>>

\* checked_out names the entry the user picked, a row that is not the head; the session
\* refuses an entry it does not know, and resolves a turn with calls forward to its
\* result, so that the pass that follows may end past the entry (FRONTEND.md section 7).
Resolved(id) == IF log[id].calls THEN CHOOSE r \in DOMAIN log : log[r].parent = id ELSE id
CheckedOut ==
  /\ attached /\ run.phase = "rest" /\ moves > 0 /\ moves' = moves - 1
  /\ \E id \in (DOMAIN nodes \cap DOMAIN log) \ {head} :
       tip' = Resolved(id) /\ Shows(Pass(CheckoutTree(Tree, id), Resolved(id)))
  /\ UNCHANGED <<log, born, run, attached>>
\* An attach replays the session as it is.
Attach ==
  /\ ~attached /\ run.phase = "rest" /\ attached' = TRUE
  /\ Shows(IF tip = None THEN Tree ELSE Pass(Tree, tip))
  /\ UNCHANGED <<log, tip, born, run, moves>>

TranscriptNext ==
  \/ UserMessage \/ TurnStarted \/ TextDelta \/ TurnRetried \/ TurnCommitted
  \/ ToolCall \/ ToolResult \/ BatchResults \/ RunStops
  \/ CompactionStep \/ CheckedOut \/ Attach

-----------------------------------------------------------------------------
\* SessionTree.rows: depth first, the branch with the head first.
Rows(t) ==
  LET active == PathUp(t.nodes, t.head)
      Children(p) == SortSeq(SetToSeq({n \in DOMAIN t.nodes : t.nodes[n] = p}), <)
      ActiveFirst(s) == SelectSeq(s, LAMBDA n : n \in active) \o SelectSeq(s, LAMBDA n : n \notin active)
      walk[n \in DOMAIN t.nodes] ==
        FoldLeft(LAMBDA acc, c : acc \o walk[c], <<n>>, ActiveFirst(Children(n)))
  IN FoldLeft(LAMBDA acc, c : acc \o walk[c], <<>>, ActiveFirst(Children(None)))

Entries == {n \in DOMAIN nodes \cap DOMAIN log : log[n].kind # "compaction"}
LogParents == [n \in DOMAIN log |-> log[n].parent]

\* The tree is one: every parent is a node, the head is one, and the rows list
\* every node once with the live branch on top, root to head.
RowsReadTopDown ==
  LET rows == Rows(Tree)
      path == SortSeq(SetToSeq(PathUp(nodes, head)), LAMBDA a, b : a \in PathUp(nodes, b) /\ a # b)
  IN /\ \A n \in DOMAIN nodes : nodes[n] \in DOMAIN nodes \cup {None}
     /\ head \in DOMAIN nodes \cup {None}
     /\ ToSet(rows) = DOMAIN nodes /\ Len(rows) = Cardinality(DOMAIN nodes)
     /\ IsPrefix(path, rows)

\* The frontend's branches are the session's: of two recorded entries it knows,
\* one lies behind the other exactly when it does in the log, whatever turns
\* were shown and never recorded and however often the chain was replayed.
BranchesAgree ==
  \A a, b \in Entries : a \in PathUp(nodes, b) <=> a \in PathUp(LogParents, b)

\* Every entry of the session's chain is in the tree once the frontend attached.
ChainIsKnown == attached => PathUp(LogParents, tip) \subseteq DOMAIN nodes

\* No pass doubles a preview or a block, and none loses one.
PreviewOnce ==
  /\ \A n \in DOMAIN nodes : preview[n] <= 1
  /\ \A n \in Entries : preview[n] = IF log[n].text THEN 1 ELSE 0
  /\ \A m, n \in DOMAIN pane : pane[m] = pane[n] => m = n

\* The transcript shows the chain: every message and every turn with content on
\* it, in the order of the chain, and of an abandoned branch nothing once the
\* pass went through.
TranscriptTellsChain ==
  LET chain == Chain(log, tip)
      Shown == SelectSeq(pane, LAMBDA b : b[2] \in DOMAIN log)
  IN attached =>
     /\ \A n \in ToSet(chain) : log[n].kind = "user" => Contains(pane, <<"user", n>>)
     /\ \A n \in ToSet(chain) : log[n].kind = "turn" /\ log[n].text => Contains(pane, <<"text", n>>)
     /\ \A i \in DOMAIN Shown : Shown[i][2] \in ToSet(chain)
     /\ \A i, j \in DOMAIN Shown : i < j => Shown[i][2] <= Shown[j][2]

\* NOT true of the code: The tree's head is the session's.
HeadTellsLog == (attached /\ run.phase = "rest") => head = tip
=============================================================================
