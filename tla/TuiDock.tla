------------------------------ MODULE TuiDock ------------------------------
(***************************************************************************)
(* The terminal frontend's dock (tui root.ts, input-controller.ts and the  *)
(* cards of mode.ts): one slot, where the asks of every stream and four    *)
(* pickers of the user's own take their turns, the keyboard, which the     *)
(* slot, the editor and the subagent list pass to one another, and the     *)
(* draft in the editor.  Streams ask, settle and end their runs while the  *)
(* user types.  Beside it, key by key, one card of what the slot hosts: an *)
(* ask's with its cursor, its toggles and its note (card-view.ts), the     *)
(* pickers, which list a snapshot with the current row on top, filter it   *)
(* and page through it (model-picker.ts, thinking-picker.ts), and the two  *)
(* phases of the login card (auth-card.ts).                                *)
(***************************************************************************)
EXTENDS Integers, Sequences, SequencesExt, FiniteSets, FiniteSetsExt

CONSTANTS
  Main, Sub,    \* the root session and a subagent
  Asks,         \* the asks
  Items,        \* the rows a picker may list, and a card's options
  PageRows      \* MAX_VISIBLE_ROWS

VARIABLES
  asked,     \* each ask: unasked, open, failed (its run did), answered, settled or gone (with its run)
  cards,     \* the mode's open cards, <<ask, stream>>, oldest first
  slot,      \* what the dock's slot hosts
  keys,      \* where the toolkit sends the keys: slot, editor or list
  region,    \* the controller's region
  row,       \* whether the list shows the subagent
  shown,     \* the focused stream
  draft,     \* the streams the editor's text was written for
  answers,   \* the answers sent, <<ask, stream>>, and the streams texts went to
  card,      \* one component: its kind, its rows, which of them is current
  view,      \* its cursor, its shown rows, its toggles, its note and mode
  picked,    \* the provider the login card asks a key for
  outcome    \* what it raised: pending, closed, or the answer

dockVars == <<asked, cards, slot, keys, region, row, shown, draft, answers>>
cardVars == <<card, view, picked, outcome>>

TheirStream == {Main, Sub}
Pickers == {"tree", "model", "thinking", "auth"}
IsAskCard(s) == s \notin Pickers \cup {"empty"}
hasOpenCard == cards # <<>>
\* isCardOpen: the controller stands down.  The thinking picker is not asked about.
isCardOpen == hasOpenCard \/ slot \in {"tree", "model", "auth"}

-----------------------------------------------------------------------------
DockInit ==
  /\ asked = [a \in Asks |-> "unasked"] /\ cards = <<>> /\ slot = "empty"
  /\ keys = "editor" /\ region = "editor" /\ row \in BOOLEAN /\ shown = Main
  /\ draft = {} /\ answers = {}

\* setRegion moves the toolkit's focus along, whatever the slot hosts.
SetRegion(r) == region' = r /\ keys' = IF r = "list" THEN "list" ELSE "editor"

\* interaction_request and showCard: the newest ask takes the slot from anybody.
InteractionRequest(a, s) ==
  /\ asked[a] = "unasked"
  /\ s = Sub => row
  /\ asked' = [asked EXCEPT ![a] = "open"]
  /\ cards' = Append(cards, <<a, s>>)
  /\ slot' = a /\ keys' = "slot"
  /\ UNCHANGED <<region, row, shown, draft, answers>>

\* closeCard empties the slot, whichever card of them is in it.
CloseCard == slot' = "empty" /\ keys' = "editor"
WithoutCards(gone) == SelectSeq(cards, LAMBDA c : c[1] \notin gone)
Leave(gone, how) ==
  /\ asked' = [a \in Asks |-> IF a \in gone THEN how ELSE asked[a]]
  /\ cards' = WithoutCards(gone)
  /\ CloseCard
  /\ UNCHANGED <<region, row, shown, draft>>

\* The card in the slot answers for its own id, to its own stream.
AnswerCard ==
  /\ keys = "slot" /\ \E n \in DOMAIN cards : cards[n][1] = slot
  /\ LET own == cards[CHOOSE n \in DOMAIN cards : cards[n][1] = slot]
     IN Leave({own[1]}, "answered") /\ answers' = answers \cup {own}

\* interaction_settled: the ask was retracted, or its channel died.
InteractionSettled(a) ==
  /\ \E n \in DOMAIN cards : cards[n][1] = a
  /\ Leave({a}, "settled") /\ UNCHANGED answers
\* run_finished and run_aborted close the cards their stream still has; run_failed ends
\* its asks as well and closes no card (nor does session_closed).
CardsOf(s) == {cards[n][1] : n \in {m \in DOMAIN cards : cards[m][2] = s}}
RunTerminal(s) == CardsOf(s) # {} /\ Leave(CardsOf(s), "gone") /\ UNCHANGED answers
RunFailed(s) ==
  /\ \E a \in CardsOf(s) : asked[a] = "open"
  /\ asked' = [a \in Asks |-> IF a \in CardsOf(s) THEN "failed" ELSE asked[a]]
  /\ UNCHANGED <<cards, slot, keys, region, row, shown, draft, answers>>

\* The row of a subagent hides once it rested for a while, and comes back with
\* its next run.  An empty list gives its region back.
RowGone ==
  /\ row /\ \A a \in CardsOf(Sub) : asked[a] = "failed"
  /\ row' = FALSE
  /\ IF region = "list" THEN SetRegion("editor") ELSE UNCHANGED <<region, keys>>
  /\ UNCHANGED <<asked, cards, slot, shown, draft, answers>>
RowBack == /\ ~row /\ row' = TRUE
           /\ UNCHANGED <<asked, cards, slot, keys, region, shown, draft, answers>>

-----------------------------------------------------------------------------
\* A key the transcript region has no use for hands the region back before the editor
\* gets it; behind an open card the controller stands down and the region stays.
TakesRegion == region' = IF region = "transcript" /\ ~isCardOpen THEN "editor" ELSE region

\* showTree, showModelPicker, showThinkingPicker and showAuthCard: an open ask
\* keeps them out, one of them displaces another, and none opens twice.
OpenPicker(p) ==
  /\ keys = "editor" /\ ~hasOpenCard /\ slot # p
  /\ slot' = p /\ keys' = "slot" /\ TakesRegion
  /\ UNCHANGED <<asked, cards, row, shown, draft, answers>>
\* Its enter or its escape, when the keys reach it.
ClosePicker ==
  /\ keys = "slot" /\ slot \in Pickers /\ CloseCard
  /\ UNCHANGED <<asked, cards, region, row, shown, draft, answers>>

\* Mutant: the draft moves along.
ShowStreamWithDraft(s) ==
  /\ shown' = s /\ SetRegion("editor")
  /\ UNCHANGED <<asked, cards, slot, row, draft, answers>>
\* showStream: another stream discards the draft.
ShowStream(s) ==
  /\ shown' = s /\ draft' = IF s = shown THEN draft ELSE {}
  /\ SetRegion("editor")
  /\ UNCHANGED <<asked, cards, slot, row, answers>>
\* The controller's keys: it stands down behind an open card.
ListEnter == keys = "list" /\ row /\ shown # Sub /\ ShowStream(Sub)
EscapeKey ==
  /\ ~isCardOpen
  /\ IF region = "editor"
     THEN shown # Main /\ ShowStream(Main)
     ELSE SetRegion("editor") /\ UNCHANGED <<asked, cards, slot, row, shown, draft, answers>>
RegionUp ==
  /\ ~isCardOpen /\ SetRegion(IF region = "list" THEN "editor" ELSE "transcript")
  /\ region # "transcript"
  /\ UNCHANGED <<asked, cards, slot, row, shown, draft, answers>>
RegionDown ==
  /\ ~isCardOpen
  /\ IF region = "transcript" THEN SetRegion("editor")
     ELSE region = "editor" /\ row /\ SetRegion("list")
  /\ UNCHANGED <<asked, cards, slot, row, shown, draft, answers>>

\* Keys that reach the editor: a text is written, and submitted to the focused stream.
Type ==
  /\ keys = "editor" /\ draft' = draft \cup {shown} /\ TakesRegion
  /\ UNCHANGED <<asked, cards, slot, keys, row, shown, answers>>
Submit ==
  /\ keys = "editor" /\ draft # {}
  /\ answers' = answers \cup {<<author, shown>> : author \in draft} /\ draft' = {}
  /\ UNCHANGED <<asked, cards, slot, keys, region, row, shown>>

DockNext ==
  \/ \E a \in Asks : InteractionSettled(a) \/ \E s \in TheirStream : InteractionRequest(a, s)
  \/ \E s \in TheirStream : RunTerminal(s) \/ RunFailed(s)
  \/ AnswerCard \/ RowGone \/ RowBack
  \/ (\E p \in Pickers : OpenPicker(p)) \/ ClosePicker
  \/ ListEnter \/ EscapeKey \/ RegionUp \/ RegionDown \/ Type \/ Submit

-----------------------------------------------------------------------------
\* The slot never shows an ask that is closed.
NoStaleCard == IsAskCard(slot) => \E n \in DOMAIN cards : cards[n][1] = slot

\* NOT true of the code: An open ask stays in the slot until it is closed.
AskKeepsTheSlot == hasOpenCard => IsAskCard(slot)

\* NOT true of the code: An open ask owns the keyboard.
AskOwnsKeys == IsAskCard(slot) => keys = "slot"

\* The keys always reach something: not an emptied slot, and not a list whose
\* last row has gone.
KeysReachSomething ==
  /\ keys = "slot" => slot # "empty"
  /\ keys = "list" => row /\ region = "list"

\* Text written for one stream is never sent to another, and an answer goes to
\* the stream that asked.
NothingCrossesStreams ==
  \A x \in answers : /\ x[1] \in TheirStream => x[1] = x[2]
                     /\ x[1] \in Asks => asked[x[1]] = "answered"

\* A card stands from its request to its answer, its settle, or the finish or abort of its
\* run: none that still waits is closed, and none stays behind but those of a failed run.
CardsAreTheOpenAsks == {cards[n][1] : n \in DOMAIN cards} = {a \in Asks : asked[a] \in {"open", "failed"}}

\* NOT true of the code: the run terminals close every pending request, run_failed among
\* them (FRONTEND.md section 8; mode.ts "run terminals stay the safety net").
TerminalClosesCards == \A n \in DOMAIN cards : asked[cards[n][1]] = "open"

-----------------------------------------------------------------------------
(* One card, key by key                                                    *)

Nothing == "nothing"
Pending == [state |-> "pending", selected |-> <<>>, text |-> FALSE]
Chose(selected, text) == [state |-> "answered", selected |-> selected, text |-> text]
Fresh(rows) == [cursor |-> 1, rows |-> rows, toggled |-> {}, note |-> FALSE, noteMode |-> FALSE]

\* buildModelRows and buildThinkingRows: the current row moves to the front.
PinCurrent(rows, current) ==
  SelectSeq(rows, LAMBDA r : r = current) \o SelectSeq(rows, LAMBDA r : r # current)
Orders == UNION {SetToSeqs(S) : S \in SUBSET Items}

CardsInit ==
  /\ \E rows \in Orders \ {<<>>}, kind \in {"select_one", "select_any", "model", "thinking", "login", "logout"},
        current \in Items \cup {Nothing}, freeText \in BOOLEAN :
       /\ kind \notin {"model", "thinking"} => current = Nothing
       /\ kind \notin {"select_one", "select_any"} => ~freeText
       /\ card = [kind |-> kind, rows |-> rows, current |-> current, freeText |-> freeText]
       /\ view = Fresh(IF kind \in {"model", "thinking"} THEN PinCurrent(rows, current) ELSE rows)
  /\ picked = Nothing /\ outcome = Pending

Is(kinds) == outcome = Pending /\ card.kind \in kinds
Shows(v) == view' = v /\ UNCHANGED <<card, picked, outcome>>
Raises(what) == outcome' = what /\ UNCHANGED <<card, view, picked>>
Total == Len(view.rows)

-----------------------------------------------------------------------------
\* ChoiceCardView: the arrows leave the note and move, without wrapping.
Templates == {"select_one", "select_any"}
ArrowUp == Is(Templates) /\ Shows([view EXCEPT !.noteMode = FALSE, !.cursor = Max({1, @ - 1})])
ArrowDown == Is(Templates) /\ Shows([view EXCEPT !.noteMode = FALSE, !.cursor = Min({Total, @ + 1})])
NoteKey == Is(Templates) /\ view.noteMode /\ Shows([view EXCEPT !.note = TRUE])
ClearNote == Is(Templates) /\ (view.noteMode \/ card.freeText) /\ Shows([view EXCEPT !.note = FALSE])
Tab == Is(Templates) /\ (view.noteMode \/ card.freeText) /\ Shows([view EXCEPT !.noteMode = ~@])
Space == /\ Is({"select_any"}) /\ ~view.noteMode
         /\ Shows([view EXCEPT !.toggled = SymDiff(@, {view.cursor})])
Digit == /\ Is(Templates) /\ ~view.noteMode
         /\ \E d \in 1..Total : Shows([view EXCEPT !.cursor = d])
\* answer: the row under the cursor, or the toggled ones in the card's order.
Answer ==
  /\ Is(Templates)
  /\ Raises(Chose(IF card.kind = "select_one" THEN <<card.rows[view.cursor]>>
                  ELSE LET on == SortSeq(SetToSeq(view.toggled), <)
                       IN [n \in DOMAIN on |-> card.rows[on[n]]],
                  view.note))

\* The pickers: the arrows wrap, the model picker's pages do not.
Lists == {"model", "thinking", "login", "logout"}
Phase1 == picked = Nothing /\ Total > 0
PickUp == Is(Lists) /\ Phase1 /\ Shows([view EXCEPT !.cursor = IF @ = 1 THEN Total ELSE @ - 1])
PickDown == Is(Lists) /\ Phase1 /\ Shows([view EXCEPT !.cursor = IF @ = Total THEN 1 ELSE @ + 1])
Page == /\ Is({"model"}) /\ Phase1
        /\ \E delta \in {-PageRows, PageRows} :
             Shows([view EXCEPT !.cursor = Min({Total, Max({1, @ + delta})})])
\* A changed query filters all rows afresh and homes the cursor.
Query == /\ Is({"model"})
         /\ \E match \in SUBSET Items :
              Shows([view EXCEPT !.rows = SelectSeq(PinCurrent(card.rows, card.current), LAMBDA r : r \in match),
                                 !.cursor = 1])
Confirm ==
  /\ Is({"model", "thinking", "logout"}) /\ view.cursor \in DOMAIN view.rows
  /\ Raises(Chose(<<view.rows[view.cursor]>>, FALSE))
Cancel == Is(Lists) /\ Raises([Pending EXCEPT !.state = "closed"])
\* The login card: the pick opens the key phase, an empty key raises nothing.
PickProvider ==
  /\ Is({"login"}) /\ picked = Nothing /\ view.cursor \in DOMAIN view.rows
  /\ picked' = view.rows[view.cursor] /\ UNCHANGED <<card, view, outcome>>
KeyTyped == Is({"login"}) /\ picked # Nothing /\ Shows([view EXCEPT !.note = TRUE])
SubmitKey == /\ Is({"login"}) /\ picked # Nothing /\ view.note
             /\ Raises(Chose(<<picked>>, TRUE))

CardsNext ==
  \/ ArrowUp \/ ArrowDown \/ NoteKey \/ ClearNote \/ Tab \/ Space \/ Digit \/ Answer
  \/ PickUp \/ PickDown \/ Page \/ Query \/ Confirm \/ Cancel
  \/ PickProvider \/ KeyTyped \/ SubmitKey

-----------------------------------------------------------------------------
Answered == outcome.state = "answered"

\* What a card answers is what its template allows: one option of a select_one,
\* distinct options in the card's order of a select_any, and a note only where
\* the card invited one.
AnswersAreLegal ==
  Answered =>
    /\ card.kind # "select_any" => Len(outcome.selected) = 1
    /\ ToSet(outcome.selected) \subseteq ToSet(card.rows)
    /\ outcome.selected \in {SelectSeq(card.rows, LAMBDA r : r \in S) : S \in SUBSET Items}
    /\ outcome.text => card.freeText \/ card.kind = "login"

\* Whatever moved, filtered or paged, there is a row under the cursor as long
\* as any is shown, and what was chosen is that row.
CursorOnARow ==
  /\ Total > 0 => view.cursor \in 1..Total
  /\ Answered /\ card.kind \in Lists \ {"login"} => outcome.selected = <<view.rows[view.cursor]>>

\* A picker lists rows of its snapshot only, each once, with the current one on
\* top as long as the query lets it through.
RowsAreTheSnapshot ==
  /\ ToSet(view.rows) \subseteq ToSet(card.rows)
  /\ IsInjective(view.rows)
  /\ card.current \in ToSet(view.rows) => view.rows[1] = card.current
=============================================================================
