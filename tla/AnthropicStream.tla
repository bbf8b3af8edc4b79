--------------------------- MODULE AnthropicStream ---------------------------
(***************************************************************************)
(* A Messages stream (AnthropicAdapter of anthropic/streaming.rs under     *)
(* run_wire_stream) folded into the turn of StreamParts.  The wire opens,  *)
(* feeds and stops indexed content blocks; it usually does so one after    *)
(* the other, and the adapter guards the sequences it cannot read.         *)
(***************************************************************************)
EXTENDS StreamParts, SequencesExt

CONSTANTS Blocks,      \* the blocks' indexes
          BlockIds,    \* index to the id minted for it
          ToolIds,     \* index to a tool block's own id
          Manners,     \* of {"sequential", "tools", "any"}: tool blocks overlap, or anything happens
          MaxEvents    \* a bound for each manner

VARIABLES
  manner,
  sent,        \* index to what the wire sent of the block: [kind, words, pieces, signed, stopped]
  events,
  aborted,     \* the wire sent its error event
  open_blocks, \* index to [kind, thinking, signed, input]; input is a server tool's fragments
  failed,
  acc,
  ending       \* None, "eof", "failed", "terminal", "transport"

anthropicVars == <<manner, sent, events, aborted, open_blocks, failed, acc, ending>>

AnthropicInit == /\ manner \in Manners /\ sent = <<>> /\ events = 0 /\ aborted = FALSE /\ open_blocks = <<>>
                 /\ failed = FALSE /\ acc = Empty /\ ending = None

Fold(raw) == FoldLeft(Apply, acc, raw)
Kinds == {"text", "tool", "server", "result", "thinking", "redacted", "opaque"}
Prose == {"text", "server", "result"}
Open(index) == index \in DOMAIN open_blocks
Inert == [thinking |-> <<>>, signed |-> FALSE, input |-> <<>>]
Block(kind) == [kind |-> kind] @@ Inert
Closed(index) == [i \in DOMAIN open_blocks \ {index} |-> open_blocks[i]]

Reads == ending = None /\ events < MaxEvents[manner] /\ events' = events + 1 /\ UNCHANGED manner
Quietly == UNCHANGED aborted
\* run_wire_stream after an event: a failed adapter, or a terminal, ends the stream.
Goes(raw) == acc' = Fold(raw) /\ UNCHANGED <<failed, ending>>
\* fail_malformed.
FailMalformed == /\ failed' = TRUE /\ ending' = "failed" /\ acc' = Finished([acc EXCEPT !.errors = @ + 1])
                 /\ UNCHANGED <<sent, open_blocks>>

\* content_block_start.
StartEvents(index, kind) ==
  CASE kind = "text" -> <<Raw("start", BlockIds[index], 0)>>
    [] kind = "result" -> <<Raw("start", BlockIds[index], 0), Raw("meta", None, events')>>
    [] kind = "tool" -> <<[Raw("fragment", ToolIds[index], 0) EXCEPT !.name = "f"]>>
    [] kind = "redacted" -> <<Raw("full", BlockIds[index], events')>>
    [] OTHER -> <<>>
ContentBlockStart(index, kind) ==
  IF Open(index) THEN FailMalformed
  ELSE /\ open_blocks' = (index :> Block(kind)) @@ open_blocks /\ Goes(StartEvents(index, kind))
       /\ sent' = (index :> [kind |-> kind, words |-> IF kind = "result" THEN <<events'>> ELSE <<>>, pieces |-> <<>>, signed |-> FALSE, stopped |-> FALSE]) @@ sent

\* The deltas a block takes: a text delta, or a citation, is written wherever it came from.
Takes(kind) == CASE kind = "tool" -> {"text", "json"} [] kind = "server" -> {"text", "json"}
                 [] kind = "thinking" -> {"text", "thinking", "signature"} [] OTHER -> {"text"}
DeltaEvents(index, delta, piece) ==
  CASE delta = "text" -> <<Raw("text", None, events')>>
    [] delta = "json" /\ open_blocks[index].kind = "tool" -> <<[Raw("fragment", ToolIds[index], 0) EXCEPT !.piece = piece]>>
    [] delta = "thinking" -> <<Raw("delta", BlockIds[index], events')>>
    [] OTHER -> <<>>
Grown(block, delta, piece) ==
  CASE delta = "thinking" -> [block EXCEPT !.thinking = Append(@, events')]
    [] delta = "signature" -> [block EXCEPT !.signed = TRUE]
    [] delta = "json" /\ block.kind = "server" -> [block EXCEPT !.input = Append(@, piece)]
    [] OTHER -> block
\* content_block_delta; a delta of a new type passes by wherever it comes.
ContentBlockDelta(index, delta, piece) ==
  IF delta = "novel" THEN UNCHANGED <<sent, open_blocks, failed, acc, ending>>
  ELSE IF ~Open(index) \/ delta \notin Takes(open_blocks[index].kind) THEN FailMalformed
  ELSE /\ Goes(DeltaEvents(index, delta, piece))
       /\ open_blocks' = [open_blocks EXCEPT ![index] = Grown(@, delta, piece)]
       /\ sent' = [sent EXCEPT ![index] =
            CASE delta \in {"text", "thinking"} -> [@ EXCEPT !.words = Append(@, events')]
              [] delta = "json" -> [@ EXCEPT !.pieces = Append(@, piece)]
              [] OTHER -> [@ EXCEPT !.signed = TRUE]]

\* content_block_stop: a thinking block is restated whole when it has a text or a signature.
Restated(block) == block.thinking # <<>> \/ block.signed
StopEvents(index) ==
  LET block == open_blocks[index] IN
  CASE block.kind = "thinking" /\ Restated(block) -> <<Raw("full", BlockIds[index], events')>>
    [] block.kind = "server" -> <<Raw("start", BlockIds[index], 0), Raw("meta", None, events')>>
    [] block.kind = "tool" -> <<[Raw("end", ToolIds[index], 0) EXCEPT !.policy = "error"]>>
    [] OTHER -> <<>>
BadServerInput(block) == block.kind = "server" /\ block.input \notin {<<>>, <<"all">>, <<"half", "rest">>}
ContentBlockStop(index) ==
  IF ~Open(index) THEN FailMalformed
  ELSE LET bad == BadServerInput(open_blocks[index]) IN
       /\ open_blocks' = Closed(index)
       /\ sent' = [sent EXCEPT ![index].stopped = TRUE,
                               ![index].words = IF ~bad /\ sent[index].kind = "server" THEN <<events'>> ELSE @]
       /\ IF bad THEN acc' = [acc EXCEPT !.errors = @ + 1] /\ UNCHANGED <<failed, ending>>
          ELSE Goes(StopEvents(index))

\* message_delta: only one with a stop reason is the terminal, and it is the last thing read.
MessageDelta(reason) ==
  IF reason = None THEN UNCHANGED <<sent, open_blocks, failed, acc, ending>>
  ELSE /\ acc' = Finished(Fold(<<Raw("final", reason, 0)>>)) /\ ending' = "terminal"
       /\ UNCHANGED <<sent, open_blocks, failed>>
\* The provider's error event; one that is read on.
ErrorEvent == aborted' = TRUE /\ FailMalformed
\* The end of the transport, and its error: nothing is flushed.
Eof(how) == /\ ending = None /\ ending' = how
            /\ acc' = Finished([acc EXCEPT !.errors = IF how = "transport" THEN @ + 1 ELSE @])
            /\ UNCHANGED <<manner, sent, events, aborted, open_blocks, failed>>

\* What the wire may send next.
Fits(index, piece) == LET before == sent[index].pieces IN
  IF piece = "rest" THEN before = <<"half">> ELSE piece # None /\ before = <<>>
InTurn(index) == \A other \in DOMAIN sent : other # index => sent[other].stopped
MayStart(index, kind) ==
  CASE manner = "any" -> index \in DOMAIN sent => ~sent[index].stopped
    [] manner = "tools" -> index = Cardinality(DOMAIN sent) + 1 /\ kind = "tool"
    [] OTHER -> index = Cardinality(DOMAIN sent) + 1 /\ InTurn(index)
MayFeed(index, delta, piece) ==
  \/ manner = "any" /\ (delta = "json") = (piece = "all")
  \/ index \in DOMAIN sent /\ ~sent[index].stopped
     /\ \/ delta = "novel" /\ piece = None
        \/ delta = "json" /\ sent[index].kind \in {"tool", "server"} /\ Fits(index, piece)
        \/ delta = "text" /\ sent[index].kind = "text" /\ piece = None
        \/ delta \in {"thinking", "signature"} /\ sent[index].kind = "thinking" /\ piece = None /\ ~sent[index].signed
MayStop(index) == manner = "any" \/ (index \in DOMAIN sent /\ ~sent[index].stopped)

AnthropicNext ==
  \/ \E index \in Blocks, kind \in Kinds : MayStart(index, kind) /\ Reads /\ Quietly /\ ContentBlockStart(index, kind)
  \/ \E index \in Blocks, delta \in {"text", "json", "thinking", "signature", "novel"}, piece \in {None, "half", "rest", "all"} :
       MayFeed(index, delta, piece) /\ Reads /\ Quietly /\ ContentBlockDelta(index, delta, piece)
  \/ \E index \in Blocks : MayStop(index) /\ Reads /\ Quietly /\ ContentBlockStop(index)
  \/ \E reason \in {None, "stop", "tools", "length"} : Reads /\ Quietly /\ MessageDelta(reason)
  \/ Reads /\ ErrorEvent
  \/ \E how \in {"eof", "transport"} : Eof(how)
AnthropicSpec == AnthropicInit /\ [][AnthropicNext]_anthropicVars

-----------------------------------------------------------------------------
Holding(n) == {i \in DOMAIN acc.parts : \E j \in DOMAIN acc.parts[i].body : acc.parts[i].body[j] = n}
Stopped(kind) == {i \in DOMAIN sent : sent[i].kind = kind /\ sent[i].stopped}
ToolParts(index) == {i \in Calls(acc) : acc.parts[i].id = ToolIds[index]}
ReasoningParts(index) == {i \in DOMAIN acc.parts : acc.parts[i].kind = "reasoning" /\ acc.parts[i].id = BlockIds[index]}
WholeInput(pieces) == pieces \in {<<>>, <<"all">>, <<"half", "rest">>}

\* A stopped tool block is one call whatever came between its pieces, or an error the consumer hears.
BlocksBecomeCalls == manner # "any" => \A index \in Stopped("tool") :
  /\ Cardinality(ToolParts(index)) = IF WholeInput(sent[index].pieces) THEN 1 ELSE 0
  /\ ToolParts(index) = {} => acc.errors > 0

\* A thinking block leaves one part, its restatement in the place of its deltas, and an empty text
\* with a signature leaves one too: the provider wants it back.
ThinkingLeavesOnePart == manner # "any" => \A index \in Stopped("thinking") :
  Cardinality(ReasoningParts(index)) = IF sent[index].words # <<>> \/ sent[index].signed THEN 1 ELSE 0

\* The words of a text block, and a server tool's use and result, are one part of their own.
TextKeepsItsBlock == \A a, b \in DOMAIN sent : sent[a].kind \in Prose /\ sent[b].kind \in Prose =>
  \A n \in ToSet(sent[a].words), m \in ToSet(sent[b].words) : Holding(n) # {} /\ (Holding(n) = Holding(m)) = (a = b)
TextStaysInTurn == manner # "any" => TextKeepsItsBlock

\* A turn the provider aborted, or a wire out of its own protocol, never reads as a complete one: the
\* consumer hears an error and no terminal, whatever is sent behind it.
FailureIsFinal == aborted \/ failed => acc.errors > 0 /\ acc.final = None
=============================================================================
