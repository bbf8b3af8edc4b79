----------------------------- MODULE StreamParts -----------------------------
(***************************************************************************)
(* One assistant turn assembled from a provider's stream, as a function of *)
(* the raw events (tabit-providers streaming/parts.rs, identity.rs and the *)
(* event arms of streaming/mod.rs): text blocks and reasoning items keyed  *)
(* by identity, wire-given or minted; tool calls in fragments, whole, or   *)
(* both.  Words are the numbers of the events that brought them.           *)
(***************************************************************************)
EXTENDS Naturals, Sequences, FiniteSets, TLC

CONSTANTS Minted,    \* the ids a stream boundary minted
          MaxPieces  \* the bound on a tool input, in pieces

None == "none"
\* RawStreamingChoice: n numbers the word, name and piece are a fragment's, policy and given (the
\* provider's own id) an end's.
Raw(kind, id, n) ==
  [kind |-> kind, id |-> id, n |-> n, name |-> "", piece |-> None, policy |-> None, given |-> ""]

\* PartsAccumulator: text is text_index (0: none), announced pending_text_id; internal ids are numbers.
Empty == [parts |-> <<>>,
          keys |-> <<>>, ordinal |-> <<>>, openMinted |-> {},
          text |-> 0, blocks |-> <<>>, announced |-> None,
          inputs |-> <<>>, restated |-> {}, minted |-> 0,
          published |-> {}, dropped |-> {}, errors |-> 0, final |-> None]
Part(kind, id, ord, whole, body) ==
  [kind |-> kind, id |-> id, ordinal |-> ord, whole |-> whole, body |-> body, signed |-> FALSE]
IsCall(part) == part.kind = "call"

-----------------------------------------------------------------------------
\* Text.
Ordinal(a, id) == IF id \in DOMAIN a.ordinal THEN a.ordinal[id] ELSE 0
\* Boundaries that leave minted reasoning open.
KeepMinted(a) == a
\* close_minted_reasoning: other output ends a minted item.
CloseMinted(a) == [a EXCEPT !.ordinal = [id \in a.openMinted |-> Ordinal(a, id) + 1] @@ @, !.openMinted = {}]

\* text_delta, text_additional_params, ensure_text_block: a block opens lazily, under the announced id.
Text(a0, e) == LET a == CloseMinted(a0)  new == Len(a.parts) + 1 IN
  IF a.text # 0 THEN [a EXCEPT !.parts[a.text].body = Append(@, e.n)]
  ELSE [a EXCEPT !.parts = Append(@, Part("text", a.announced, 0, FALSE, <<e.n>>)), !.text = new,
                 !.blocks = IF a.announced = None THEN @ ELSE (a.announced :> new) @@ @, !.announced = None]
\* text_start: a known id is active again, a new one is only announced.
TextStart(a, e) == LET known == e.id \in DOMAIN a.blocks IN
  [CloseMinted(a) EXCEPT !.text = IF known THEN a.blocks[e.id] ELSE 0, !.announced = IF known THEN None ELSE e.id]

-----------------------------------------------------------------------------
\* Reasoning.
\* push_reasoning.
Push(a, id, ord, whole, n) ==
  [a EXCEPT !.parts = Append(@, Part("reasoning", id, ord, whole, <<n>>)),
            !.keys = (<<id, ord>> :> Len(a.parts) + 1) @@ @, !.ordinal = (id :> ord) @@ @,
            !.openMinted = @ \cup ({id} \cap Minted)]
Standing(a, id) == <<id, Ordinal(a, id)>>
\* reasoning_delta.
Delta(a, e) == LET key == Standing(a, e.id) IN
  IF key \notin DOMAIN a.keys THEN [Push(a, e.id, key[2], FALSE, e.n) EXCEPT !.text = 0]
  ELSE IF a.parts[a.keys[key]].whole THEN [Push(a, e.id, key[2] + 1, FALSE, e.n) EXCEPT !.text = 0]
  ELSE [a EXCEPT !.parts[a.keys[key]].body = Append(@, e.n), !.text = 0]
\* reasoning_full: it replaces the deltas of its own part, and stands beside a complete one.
Full(a, e) == LET key == Standing(a, e.id) IN
  IF key \notin DOMAIN a.keys THEN [Push(a, e.id, key[2], TRUE, e.n) EXCEPT !.text = 0]
  ELSE IF a.parts[a.keys[key]].whole THEN [Push(a, e.id, key[2] + 1, TRUE, e.n) EXCEPT !.text = 0]
  ELSE [a EXCEPT !.parts[a.keys[key]] = Part("reasoning", e.id, key[2], TRUE, <<e.n>>), !.text = 0]
\* A part of its own for every signature.
Ordinals(a, id) == {k[2] : k \in {k \in DOMAIN a.keys : k[1] = id}}
\* reasoning_signature: on the item's latest part, or alone.
Signature(a, e) ==
  IF Ordinals(a, e.id) = {} THEN Full(a, e)
  ELSE LET top == CHOOSE o \in Ordinals(a, e.id) : \A p \in Ordinals(a, e.id) : p <= o
       IN [a EXCEPT !.parts[a.keys[<<e.id, top>>]].signed = TRUE]

-----------------------------------------------------------------------------
\* Tool calls.
Inputs(a, id) == {i \in DOMAIN a.inputs : a.inputs[i].id = id}
Without(seq, i) == SubSeq(seq, 1, i - 1) \o SubSeq(seq, i + 1, Len(seq))
\* push_tool_call: a completed call is a boundary; its part's ordinal is the internal id.
PushCall(a, id, internal, n) ==
  [CloseMinted(a) EXCEPT !.parts = Append(@, Part("call", id, internal, TRUE, <<n>>)), !.text = 0]
\* tool_call: the assembly of the id, or the only minted one for a late wire id, is adopted.
Adopted(a, id) ==
  LET fabricated == {i \in DOMAIN a.inputs : a.inputs[i].id \in Minted}
  IN IF Inputs(a, id) # {} THEN Inputs(a, id)
     ELSE IF id \notin Minted /\ Cardinality(fabricated) = 1 THEN fabricated ELSE {}
\* A full call that takes its fragments' place, and not their id.
Call(a, e) ==
  IF Adopted(a, e.id) = {} THEN [PushCall(a, e.id, a.minted + 1, e.n) EXCEPT !.minted = @ + 1]
  ELSE LET i == CHOOSE i \in Adopted(a, e.id) : TRUE
       IN [PushCall(a, e.id, a.inputs[i].internal, e.n) EXCEPT
             !.minted = @ + 1, !.inputs = Without(@, i), !.restated = @ \cup {a.inputs[i].id}]

\* A null placeholder gives way to the first real piece; a capped buffer takes no more.
Filled(buffer, piece) == IF buffer = <<"null">> THEN <<piece>> ELSE Append(buffer, piece)
Extended(input, e) ==
  IF e.piece = None THEN [input EXCEPT !.name = IF e.name = "" THEN @ ELSE e.name]
  ELSE IF input.buffer # <<>> /\ Len(Filled(input.buffer, e.piece)) > MaxPieces THEN [input EXCEPT !.over = TRUE]
  ELSE [input EXCEPT !.buffer = Filled(@, e.piece)]
\* tool_name_delta, tool_args_delta, ensure_open_tool_input.
Fragment(a, e) ==
  LET fresh == [id |-> e.id, internal |-> a.minted + 1, name |-> "", buffer |-> <<>>, over |-> FALSE]
      b == IF Inputs(a, e.id) # {} THEN a
           ELSE [a EXCEPT !.inputs = Append(@, fresh), !.minted = @ + 1, !.restated = @ \ {e.id}]
      i == CHOOSE i \in DOMAIN b.inputs : b.inputs[i].id = e.id
  IN [b EXCEPT !.inputs[i] = Extended(@, e), !.published = @ \cup {b.inputs[i].internal}]

\* parse_tool_arguments, and the bound.
Whole(input) == ~input.over /\ input.buffer \in {<<>>, <<"null">>, <<"all">>, <<"half", "rest">>}
\* tool_input_end; e.name and the policy "stated" are the wire's own name and arguments.
End(a, e) ==
  IF Inputs(a, e.id) = {}
  THEN IF e.name # "" /\ e.id \notin a.restated THEN [PushCall(a, e.id, a.minted + 1, e.n) EXCEPT !.minted = @ + 1] ELSE a
  ELSE LET i == CHOOSE i \in Inputs(a, e.id) : TRUE
           input == a.inputs[i]
           named == input.name # "" \/ e.name # ""
           b == [a EXCEPT !.inputs = Without(@, i)]
       IN IF named /\ (Whole(input) \/ e.policy \in {"stated", "empty"}) THEN PushCall(b, IF e.given # "" THEN e.given ELSE e.id, input.internal, e.n)
          ELSE IF e.policy = "keep" THEN a
          ELSE [b EXCEPT !.dropped = IF named /\ Whole(input) THEN @ ELSE @ \cup {input.internal},
                         !.errors = IF named /\ e.policy = "error" THEN @ + 1 ELSE @]

\* reconcile_with_output, and the one terminal that counts.
Final(a, e) ==
  IF a.final # None THEN a
  ELSE [a EXCEPT !.final = IF e.id = "stop" /\ \E i \in DOMAIN a.parts : IsCall(a.parts[i]) THEN "tools" ELSE e.id]

\* The arms of poll_next.
Apply(a, e) ==
  CASE e.kind \in {"text", "meta"} -> Text(a, e) [] e.kind = "start" -> TextStart(a, e)
    [] e.kind = "delta" -> Delta(a, e) [] e.kind = "full" -> Full(a, e) [] e.kind = "signature" -> Signature(a, e)
    [] e.kind = "call" -> Call(a, e) [] e.kind = "fragment" -> Fragment(a, e) [] e.kind = "end" -> End(a, e)
    [] e.kind = "final" -> Final(a, e)
    [] OTHER -> a
\* finish: what is still open never arrived, and the choice is never empty.
Finished(a) ==
  [a EXCEPT !.inputs = <<>>, !.dropped = @ \cup {a.inputs[i].internal : i \in DOMAIN a.inputs},
            !.parts = IF @ = <<>> THEN <<Part("text", None, 0, FALSE, <<>>)>> ELSE @]

Calls(a) == {i \in DOMAIN a.parts : IsCall(a.parts[i])}
Opened(a) == {a.inputs[i].internal : i \in DOMAIN a.inputs}
\* The id a consumer saw on the fragments is the id of exactly one call, unless the input never was one.
FragmentsMeet(a) ==
  /\ \A i, j \in Calls(a) : a.parts[i].ordinal = a.parts[j].ordinal => i = j
  /\ a.published \subseteq Opened(a) \cup a.dropped \cup {a.parts[i].ordinal : i \in Calls(a)}
  /\ Opened(a) \cap {a.parts[i].ordinal : i \in Calls(a)} = {}
=============================================================================
