----------------------------- MODULE ChatStream -----------------------------
(***************************************************************************)
(* A chat-completions stream (tabit-providers internal/adapter.rs, the     *)
(* CompatAdapter of openai_chat_completions_compatible.rs and              *)
(* tool_call_bridge.rs) folded into the turn of StreamParts.  The wire     *)
(* keys its tool calls by a chunk index; gateways differ in what they make *)
(* of it.                                                                  *)
(***************************************************************************)
EXTENDS StreamParts, SequencesExt, Functions

CONSTANTS Gateways,  \* of {"indexed", "reusing", "whole"}: an index per call, or one index for all
          MintedIds, \* the ids the bridge mints, in order
          MaxCalls, MaxFrames

VARIABLES
  gateway,
  calls,     \* what the wire sent of each call: [index, id, key, pieces]; key is the slot's
  signalled, \* the wire signalled the end of the turn; decoded: a frame decoded
  decoded,
  frames,
  slots,     \* ToolCallBridge: index to [key, id, name]
  mints,
  saw_terminal, saw_any_valid_frame, finish_reason,
  acc,
  outcome    \* "open", "ended", "failed" (the transport's error was the last item)

wireVars == <<gateway, calls, signalled, decoded, frames>>
adapterVars == <<slots, mints, saw_terminal, saw_any_valid_frame, finish_reason>>
chatVars == <<wireVars, adapterVars, acc, outcome>>

ChatInit == /\ gateway \in Gateways /\ calls = <<>> /\ signalled = FALSE /\ decoded = FALSE /\ frames = 0
            /\ slots = <<>> /\ mints = 0 /\ acc = Empty /\ outcome = "open"
            /\ saw_terminal = FALSE /\ saw_any_valid_frame = FALSE /\ finish_reason = None

Fold(events) == FoldLeft(Apply, acc, events)
\* ToolCallSlot::end_event.
EndOf(slot, policy) == [Raw("end", slot.key, 0) EXCEPT !.policy = policy, !.given = slot.id]
\* drain_ordered.
Drained(policy) ==
  LET order == SetToSortSeq(DOMAIN slots, <) IN [i \in DOMAIN order |-> EndOf(slots[order[i]], policy)]

\* should_evict_distinct_named_tool_call.
ShouldEvict(slot, c) == /\ c.id # "" /\ c.name # "" /\ slot.id \notin {"", c.id} /\ slot.name # ""
                        /\ slot.name # c.name \/ c.piece = None
\* ToolCallBridge::open: the key is fixed at first sight.
KeyByIndex(c) == [key |-> "call", id |-> c.id, name |-> c.name]
FirstSlot(c) == [key |-> IF c.id # "" THEN c.id ELSE MintedIds[mints + 1], id |-> c.id, name |-> c.name]
Evicts(c) == c.index \in DOMAIN slots /\ ShouldEvict(slots[c.index], c)
SlotOf(c) ==
  IF c.index \notin DOMAIN slots \/ Evicts(c) THEN FirstSlot(c)
  ELSE [slots[c.index] EXCEPT !.id = IF c.id = "" THEN @ ELSE c.id, !.name = IF c.name = "" THEN @ ELSE c.name]
\* should_emit_completed_tool_call_immediately: the profile of a gateway that sends calls whole.
Probes(c) == gateway = "whole" /\ c.name # "" /\ c.piece # None
\* interpret's tool calls: evict, open, name, arguments, probe.
ToolEvents(c) ==
  LET slot == SlotOf(c)  fragment == Raw("fragment", slot.key, 0)
  IN (IF Evicts(c) THEN <<EndOf(slots[c.index], "empty")>> ELSE <<>>)
     \o (IF c.name # "" THEN <<[fragment EXCEPT !.name = c.name]>> ELSE <<>>)
     \o (IF c.piece # None THEN <<[fragment EXCEPT !.piece = c.piece]>> ELSE <<>>)
     \o (IF Probes(c) THEN <<EndOf(slot, "keep")>> ELSE <<>>)

Receives == outcome = "open" /\ frames < MaxFrames /\ frames' = frames + 1 /\ UNCHANGED <<gateway, outcome>>
\* What a decoded chunk notes before its choice is read.
Decodes == decoded' = TRUE /\ saw_any_valid_frame' = TRUE
\* A chunk of a tool call.
Interpret(c) ==
  /\ Decodes
  /\ mints' = IF FirstSlot(c).key \notin Minted \/ (c.index \in DOMAIN slots /\ ~Evicts(c)) THEN mints ELSE mints + 1
  /\ slots' = (c.index :> SlotOf(c)) @@ slots
  /\ acc' = Fold(ToolEvents(c))
  /\ UNCHANGED <<saw_terminal, finish_reason, signalled>>

Chunk(index, id, name, piece) == [index |-> index, id |-> id, name |-> name, piece |-> piece]
Ids == <<"c1", "c2", "c3">>
\* The wire opens a call.
CallOpens(name, id, piece) ==
  LET k == Len(calls) + 1  c == Chunk(IF gateway = "indexed" THEN k ELSE 1, id, name, piece)
  IN /\ k <= MaxCalls /\ ~signalled /\ Receives
     /\ id = IF gateway = "indexed" /\ id = "" THEN "" ELSE Ids[k]
     /\ gateway = "reusing" => piece = None
     /\ gateway = "whole" => piece \in {"all", "half"} /\ (k > 1 => calls[k - 1].pieces = <<"all">>)
     /\ Interpret(c)
     /\ calls' = Append(calls, [index |-> c.index, id |-> id, key |-> SlotOf(c).key,
                                pieces |-> IF piece = None THEN <<>> ELSE <<piece>>])
\* The wire goes on with one: any of them when each has its index, the latest otherwise.
CallGoesOn(k, piece) ==
  /\ ~signalled /\ Receives /\ (gateway # "indexed" => k = Len(calls))
  /\ calls[k].pieces = IF piece = "rest" THEN <<"half">> ELSE <<>>
  /\ Interpret(Chunk(calls[k].index, "", "", piece))
  /\ calls' = [calls EXCEPT ![k].pieces = Append(@, piece)]
\* A chunk with reasoning, then text: reasoning has one minted id.
Prose == /\ ~signalled /\ Receives /\ Decodes
         /\ acc' = Fold(<<Raw("delta", "r", frames'), Raw("text", None, frames')>>)
         /\ UNCHANGED <<calls, signalled, slots, mints, saw_terminal, finish_reason>>
\* A chunk without a choice: the usage.
Usage == /\ Receives /\ Decodes
         /\ UNCHANGED <<calls, signalled, slots, mints, saw_terminal, finish_reason, acc>>
\* A chunk with a finish reason; tool_calls drains the calls.
FinishChunk(reason) ==
  /\ ~signalled /\ Receives /\ Decodes /\ signalled' = TRUE /\ saw_terminal' = TRUE /\ finish_reason' = reason
  /\ slots' = IF reason = "tools" THEN <<>> ELSE slots
  /\ acc' = IF reason = "tools" THEN Fold(Drained("error")) ELSE acc
  /\ UNCHANGED <<calls, mints>>
\* [DONE] is no frame of the model.
Done == /\ Receives /\ signalled' = TRUE /\ saw_terminal' = TRUE
        /\ UNCHANGED <<calls, decoded, slots, mints, saw_any_valid_frame, finish_reason, acc>>
\* triage_frame: a corrupt frame is an item of its own, an unknown one passes by; both are survived.
Defective(errors) == /\ Receives /\ acc' = [acc EXCEPT !.errors = @ + errors]
                     /\ UNCHANGED <<calls, signalled, decoded, adapterVars>>
Fail == /\ outcome = "open" /\ outcome' = "failed"
        /\ acc' = Finished([Fold(Drained("drop")) EXCEPT !.errors = @ + 1])
        /\ slots' = <<>> /\ UNCHANGED <<wireVars, mints, saw_terminal, saw_any_valid_frame, finish_reason>>
\* finish, at the end of the transport.
Completed == saw_terminal /\ saw_any_valid_frame
TerminalEvents ==
  IF Completed THEN <<Raw("final", IF finish_reason = None THEN "unreported" ELSE finish_reason, 0)>> ELSE <<>>
FinishStream ==
  /\ outcome = "open" /\ outcome' = "ended" /\ slots' = <<>>
  /\ acc' = Finished(Fold(Drained(IF Completed THEN "error" ELSE "drop") \o TerminalEvents))
  /\ UNCHANGED <<wireVars, mints, saw_terminal, saw_any_valid_frame, finish_reason>>

ChatNext == \/ \E name \in {"f", "g"}, id \in {""} \cup ToSet(Ids), piece \in {None, "half", "all"} : CallOpens(name, id, piece)
            \/ \E k \in DOMAIN calls, piece \in {"half", "rest", "all"} : CallGoesOn(k, piece)
            \/ Prose \/ Usage \/ (\E reason \in {"stop", "tools", "length"} : FinishChunk(reason))
            \/ Done \/ (\E errors \in {0, 1} : Defective(errors)) \/ Fail \/ FinishStream
ChatSpec == ChatInit /\ [][ChatNext]_chatVars

-----------------------------------------------------------------------------
Over == outcome # "open"
NameOf(k) == IF calls[k].id # "" THEN calls[k].id ELSE calls[k].key
Told(k) == {i \in Calls(acc) : acc.parts[i].id = NameOf(k)}
Delivered(k) == calls[k].pieces \in {<<>>, <<"all">>, <<"half", "rest">>}

\* However a stream ends, a call the wire delivered whole was told before the end, once, under its
\* own id, and in the wire's order, whichever way the gateway numbers its calls.
DeliveredCallsAreTold == Over =>
  /\ \A k \in DOMAIN calls : Delivered(k) => Cardinality(Told(k)) = 1
  /\ \A j, k \in DOMAIN calls : j < k /\ Delivered(j) /\ Delivered(k) =>
       \A a \in Told(j), b \in Told(k) : a # b /\ (gateway # "indexed" => a < b)

\* A call cut short is told by a gateway that went on to another one on its index, and by no other;
\* a completed turn that lost it carries an error.
LostCallsAreErrors == Over => \A k \in DOMAIN calls : ~Delivered(k) =>
  /\ Told(k) # {} => gateway # "indexed" /\ k < Len(calls)
  /\ acc.final # None /\ Told(k) = {} => acc.errors > 0

\* A turn is complete only on the wire's word, after a frame that said something, at the end of the
\* transport, with every call before it; a natural stop has none.
TerminalIsGenuine == acc.final # None =>
  /\ outcome = "ended" /\ signalled /\ decoded
  /\ acc.inputs = <<>> /\ (acc.final = "stop" => Calls(acc) = {})

\* Calls the wire told apart never share an assembly.
KeysApart == \A j, k \in DOMAIN calls : j # k /\ gateway # "whole" => calls[j].key # calls[k].key
=============================================================================
