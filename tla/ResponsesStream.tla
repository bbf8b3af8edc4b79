--------------------------- MODULE ResponsesStream ---------------------------
(***************************************************************************)
(* A Responses stream (RawChoiceAccumulator and ResponsesAdapter of        *)
(* openai/responses_api/streaming.rs under run_wire_stream) folded into    *)
(* the turn of StreamParts.  An item of the output has a slot and an id    *)
(* that some gateways leave off some of its events; its done event states  *)
(* it whole again.                                                         *)
(***************************************************************************)
EXTENDS StreamParts, SequencesExt

CONSTANTS Slots,
          ItemIds,   \* slot to the item's own id
          SlotIds,   \* slot to the id minted for it
          Manners,   \* of {"full", "bare", "mixed"}: every event has the id, none has, tools have it now and then
          MaxEvents

VARIABLES
  manner,
  items,         \* slot to what the wire sent of the item: [kind, words, pieces, done]
  events,
  tool_slots,    \* slot to the assembly key
  minted_reasoning_ids, \* the slots whose deltas had no id
  tool_calls,    \* the ends buffered for the terminal
  current_text_item,
  saw_terminal, status,
  acc,
  ending         \* None, "eof", "failed", "transport"

adapterVars == <<tool_slots, minted_reasoning_ids, tool_calls, current_text_item, saw_terminal, status>>
responsesVars == <<manner, items, events, adapterVars, acc, ending>>

ResponsesInit ==
  /\ manner \in Manners /\ items = <<>> /\ events = 0 /\ tool_slots = <<>> /\ minted_reasoning_ids = {}
  /\ tool_calls = <<>> /\ current_text_item = None /\ saw_terminal = FALSE /\ status = None
  /\ acc = Empty /\ ending = None

Fold(raw) == FoldLeft(Apply, acc, raw)
Piece(key, name, piece) == [Raw("fragment", key, 0) EXCEPT !.name = name, !.piece = piece]
Sent(slot, kind) == IF slot \in DOMAIN items THEN items[slot] ELSE [kind |-> kind, words |-> <<>>, pieces |-> <<>>, done |-> None]
Notes(slot, item) == items' = (slot :> item) @@ items
Reads == ending = None /\ events < MaxEvents /\ events' = events + 1 /\ UNCHANGED manner

\* ToolCallBridge::open on this wire: identity is the event's, or the slot's first.
KeyOfEvent(slot, withId) == IF withId THEN ItemIds[slot] ELSE SlotIds[slot]
ToolKey(slot, withId) == IF slot \in DOMAIN tool_slots THEN tool_slots[slot] ELSE KeyOfEvent(slot, withId)
\* output_item.added of a function call, and function_call_arguments.delta.
ToolEvent(slot, withId, name, piece) ==
  LET key == ToolKey(slot, withId) IN
  /\ tool_slots' = (slot :> key) @@ tool_slots /\ current_text_item' = None
  /\ acc' = Fold(<<Piece(key, name, piece)>>)
  /\ Notes(slot, [Sent(slot, "tool") EXCEPT !.pieces = IF piece = None THEN @ ELSE Append(@, piece)])
  /\ UNCHANGED <<minted_reasoning_ids, tool_calls, saw_terminal, status, ending>>

\* Any other output item ends the open message item.
ForgetTextItem == current_text_item' = None
\* output_text.delta and refusal.delta: start_text_item.
TextDelta(slot, withId) ==
  LET starts == withId /\ current_text_item # ItemIds[slot] IN
  /\ current_text_item' = IF starts THEN ItemIds[slot] ELSE current_text_item
  /\ acc' = Fold((IF starts THEN <<Raw("start", ItemIds[slot], 0)>> ELSE <<>>) \o <<Raw("text", None, events')>>)
  /\ Notes(slot, [Sent(slot, "message") EXCEPT !.words = Append(@, events')])
  /\ UNCHANGED <<tool_slots, minted_reasoning_ids, tool_calls, saw_terminal, status, ending>>

\* reasoning_item_id.
ReasoningId(slot, withId) == IF withId THEN ItemIds[slot] ELSE SlotIds[slot]
\* reasoning_summary_text.delta and reasoning_text.delta.
ReasoningDelta(slot, withId) ==
  /\ minted_reasoning_ids' = IF withId THEN minted_reasoning_ids ELSE minted_reasoning_ids \cup {slot}
  /\ ForgetTextItem
  /\ acc' = Fold(<<Raw("delta", ReasoningId(slot, withId), events')>>)
  /\ Notes(slot, [Sent(slot, "reasoning") EXCEPT !.words = Append(@, events')])
  /\ UNCHANGED <<tool_slots, tool_calls, saw_terminal, status, ending>>

\* output_item.done of a function call: its arguments stated again, or cut short; the end waits.
DoneKey(slot, withId) == IF slot \in DOMAIN tool_slots THEN tool_slots[slot] ELSE KeyOfEvent(slot, withId)
DoneCall(slot, withId, whole) ==
  LET key == DoneKey(slot, withId)
      end == [Raw("end", key, 0) EXCEPT !.name = "f", !.policy = IF whole THEN "stated" ELSE "drop",
                                        !.given = IF withId THEN ItemIds[slot] ELSE ""]
  IN /\ tool_slots' = [s \in DOMAIN tool_slots \ {slot} |-> tool_slots[s]]
     /\ tool_calls' = Append(tool_calls, end) /\ current_text_item' = None
     /\ acc' = IF whole THEN acc ELSE Fold(<<Piece(key, "", "half")>>)
     /\ Notes(slot, [Sent(slot, "tool") EXCEPT !.done = IF whole THEN "whole" ELSE "cut"])
     /\ UNCHANGED <<minted_reasoning_ids, saw_terminal, status, ending>>
\* Of a reasoning item: its blocks, under the id its deltas had; the item's own id, whatever they had.
DoneId(slot) == IF slot \in minted_reasoning_ids THEN SlotIds[slot] ELSE ItemIds[slot]
DoneReasoning(slot, blocks) ==
  /\ acc' = Fold([i \in 1..blocks |-> Raw("full", DoneId(slot), events')])
  /\ minted_reasoning_ids' = minted_reasoning_ids \ {slot} /\ ForgetTextItem
  /\ Notes(slot, [Sent(slot, "reasoning") EXCEPT !.done = IF blocks = 0 THEN "empty" ELSE "whole"])
  /\ UNCHANGED <<tool_slots, tool_calls, saw_terminal, status, ending>>
\* Of a message.
DoneMessage(slot) ==
  /\ ForgetTextItem /\ Notes(slot, [Sent(slot, "message") EXCEPT !.done = "whole"])
  /\ UNCHANGED <<tool_slots, minted_reasoning_ids, tool_calls, saw_terminal, status, acc, ending>>

\* record_response_chunk: completed and incomplete are terminals, but the stream is read to its end.
ResponseChunk(reason) ==
  /\ saw_terminal' = TRUE /\ status' = reason
  /\ UNCHANGED <<items, tool_slots, minted_reasoning_ids, tool_calls, current_text_item, acc, ending>>
Flushed(policy) == [i \in DOMAIN tool_calls |->
  [tool_calls[i] EXCEPT !.policy = IF @ = "stated" THEN @ ELSE policy]]
\* response.failed, and the transport's error: take_tool_calls, the error, the end.
Fail(how) == /\ ending' = how /\ tool_calls' = <<>>
             /\ acc' = Finished([Fold(Flushed("drop")) EXCEPT !.errors = @ + 1])
             /\ UNCHANGED <<manner, items, events, tool_slots, minted_reasoning_ids, current_text_item, saw_terminal, status>>
\* finish.
FinishStream ==
  /\ ending' = "eof" /\ tool_calls' = <<>>
  /\ acc' = Finished(Fold(IF saw_terminal THEN Flushed("error") \o <<Raw("final", status, 0)>> ELSE Flushed("drop")))
  /\ UNCHANGED <<manner, items, events, tool_slots, minted_reasoning_ids, current_text_item, saw_terminal, status>>

\* What the wire sends: bare items come one after the other, no item goes on when it is done.
May(slot, kind, withId) ==
  /\ ~saw_terminal
  /\ slot \in DOMAIN items => items[slot].kind = kind /\ items[slot].done = None
  /\ slot \notin DOMAIN items => slot = Cardinality(DOMAIN items) + 1
  /\ CASE manner = "full" -> withId [] manner = "bare" -> ~withId [] OTHER -> kind = "tool"
  /\ manner = "bare" => \A other \in DOMAIN items \ {slot} : items[other].done # None
Fits(slot, piece) == LET before == items[slot].pieces IN IF piece = "rest" THEN before = <<"half">> ELSE before = <<>>

ResponsesNext ==
  \/ \E slot \in Slots, withId \in BOOLEAN :
       \/ slot \notin DOMAIN items /\ May(slot, "tool", withId) /\ Reads /\ ToolEvent(slot, withId, "f", None)
       \/ \E piece \in {"half", "rest", "all"} : slot \in DOMAIN items /\ May(slot, "tool", withId) /\ Fits(slot, piece)
            /\ Reads /\ ToolEvent(slot, withId, "", piece)
       \/ May(slot, "message", withId) /\ Reads /\ TextDelta(slot, withId)
       \/ May(slot, "reasoning", withId) /\ Reads /\ ReasoningDelta(slot, withId)
       \/ \E whole \in BOOLEAN : (May(slot, "tool", withId) \/ May(slot, "tool", ~withId))
            /\ (manner = "full" => withId) /\ Reads /\ DoneCall(slot, withId, whole)
       \/ \E blocks \in 0..2 : May(slot, "reasoning", withId) /\ Reads /\ DoneReasoning(slot, blocks)
       \/ May(slot, "message", withId) /\ Reads /\ DoneMessage(slot)
  \/ \E reason \in {"stop", "length"} : ~saw_terminal /\ Reads /\ ResponseChunk(reason)
  \/ \E how \in {"failed", "transport"} : ending = None /\ Fail(how)
  \/ ending = None /\ FinishStream
ResponsesSpec == ResponsesInit /\ [][ResponsesNext]_responsesVars

-----------------------------------------------------------------------------
Holding(n) == {i \in DOMAIN acc.parts : \E j \in DOMAIN acc.parts[i].body : acc.parts[i].body[j] = n}
Done(kind) == {s \in DOMAIN items : items[s].kind = kind /\ items[s].done # None}
ToolParts(slot) == {i \in Calls(acc) : acc.parts[i].id \in {ItemIds[slot], SlotIds[slot]}}

\* However the stream ends, a call restated whole is told once, and its fragments were its own; one
\* cut short is never told, and an error of a turn that claims to be complete.
RestatedCallsAreTold == ending # None => \A slot \in DOMAIN items : items[slot].kind = "tool" =>
  /\ Cardinality(ToolParts(slot)) = IF items[slot].done = "whole" THEN 1 ELSE 0
  /\ items[slot].done = "cut" /\ acc.final # None => acc.errors > 0

\* Fragments with and without the item's id are one assembly: none is dropped beside a call restated whole.
ResponsesFragmentsMeet ==
  /\ FragmentsMeet(acc)
  /\ (ending # None /\ \A slot \in DOMAIN items : items[slot].kind = "tool" => items[slot].done = "whole") =>
       acc.dropped = {}

\* What a reasoning item streamed gives way to what its done event states; nothing of it is told twice.
DoneSupersedesDeltas == \A slot \in Done("reasoning") :
  items[slot].done = "whole" => \A n \in ToSet(items[slot].words) : Holding(n) = {}

\* The words of an item that names itself are one part, whatever came between them, and of it alone.
MessagesStayApart == manner = "full" =>
  \A a, b \in DOMAIN items : items[a].kind = "message" /\ items[b].kind = "message" =>
    \A n \in ToSet(items[a].words), m \in ToSet(items[b].words) : (Holding(n) = Holding(m)) = (a = b)

\* A complete turn has the provider's word for it, and no call behind it.
CompletedOnItsWord == acc.final # None =>
  /\ saw_terminal /\ ending = "eof" /\ tool_calls = <<>> /\ (acc.final = "stop" => Calls(acc) = {})
=============================================================================
