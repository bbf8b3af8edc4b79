---------------------------- MODULE WireHistory ----------------------------
(***************************************************************************)
(* One conversation on three wires: every answer is normalized into the    *)
(* shared message vocabulary and every request converts that vocabulary    *)
(* back (tabit-providers: completion/message.rs, openai/responses_api,     *)
(* openai/completion and anthropic/completion.rs).  The model may be       *)
(* switched between turns, so a wire meets what another one said.          *)
(* An identifier is a sequence, <<>> when there is none.                   *)
(***************************************************************************)
EXTENDS Integers, Sequences, SequencesExt, FiniteSets

CONSTANTS Outputs,     \* wire -> the answers it may send, each a sequence of its own items
          Attachments,  \* the media parts a prompt may carry
          ToolImages,   \* the images a tool may return
          Placements,   \* subset of {"instructions", "all", "input"}
          MaxMessages,  \* bound: messages after the preamble
          MaxAnswers    \* bound: turns answered

VARIABLES history,  \* CompletionRequest::chat_history: the messages, oldest first
          turn,     \* answers so far, which keeps the identifiers of the wires distinct
          speakers  \* the wires that answered

historyVars == <<history, turn, speakers>>

Wires == DOMAIN Outputs

Text(t) == [kind |-> "text", body |-> t]
Media(k, source, media) == [kind |-> k, source |-> source, media |-> media]
Call(id, call_id, args) == [kind |-> "call", id |-> id, call_id |-> call_id, args |-> args]
Result(id, call_id, content) == [kind |-> "result", id |-> id, call_id |-> call_id, content |-> content]
Reasoning(id, blocks) == [kind |-> "reasoning", id |-> id, blocks |-> blocks]
Block(k, body) == [kind |-> k, body |-> body]
Message(role, id, content) == [role |-> role, id |-> id, content |-> content]
MediaKinds == {"image", "document", "audio", "video"}

\* What a request carries, whatever the wire's own spelling.
Item(role, kind, key, body) == [role |-> role, kind |-> kind, key |-> key, body |-> body]

OfKind(parts, kinds) == SelectSeq(parts, LAMBDA p : p.kind \in kinds)
CallsOf(message) == IF message.role = "assistant" THEN OfKind(message.content, {"call"}) ELSE <<>>
ResultsOf(message) == IF message.role = "user" THEN OfKind(message.content, {"result"}) ELSE <<>>
Flat(seqs) == FoldLeft(LAMBDA all, s : all \o s, <<>>, seqs)
Each(s, Op(_)) == [n \in DOMAIN s |-> Op(s[n])]

-----------------------------------------------------------------------------
\* Media.  A wire takes a part from some sources, and says how it sends it.
ResponsesTakes(p) ==
  CASE p.kind = "image" -> [base64 |-> "data", url |-> "url"]
    [] p.kind = "document" /\ p.source = "file_id" -> [file_id |-> "file"]
    [] p.kind = "document" /\ p.media = "pdf" -> [base64 |-> "data", url |-> "url"]
    [] p.kind = "document" /\ p.media # "pdf" -> [base64 |-> "text", string |-> "text"]
    [] OTHER -> <<>>
ChatTakes(p) ==
  CASE p.kind \in {"image", "video"} ->
         IF p.media = "none" THEN [url |-> "url"] ELSE [base64 |-> "data", url |-> "url"]
    [] p.kind = "document" /\ p.source = "file_id" -> [file_id |-> "file"]
    [] p.kind = "document" /\ p.media = "pdf" -> [base64 |-> "data"]
    [] p.kind = "document" /\ p.media # "pdf" -> [base64 |-> "text", string |-> "text"]
    [] p.kind = "audio" -> [base64 |-> "data"]
AnthropicTakes(p) ==
  CASE p.kind = "image" -> IF p.media = "png" THEN [base64 |-> "data", url |-> "url"] ELSE [url |-> "url"]
    [] p.kind = "document" /\ p.source = "file_id" -> [file_id |-> "file"]
    [] p.kind = "document" /\ p.media = "none" -> [url |-> "url"]
    [] p.kind = "document" /\ p.media = "pdf" -> [base64 |-> "data", string |-> "data", url |-> "url"]
    [] p.kind = "document" /\ p.media = "txt" -> [base64 |-> "text", string |-> "text"]
    [] OTHER -> <<>>
TakenBy(wire, p) ==
  CASE wire = "responses" -> ResponsesTakes(p)
    [] wire = "chat" -> ChatTakes(p)
    [] wire = "anthropic" -> AnthropicTakes(p)

\* An image in a tool result.
ResultImageTakes(wire, p) ==
  CASE wire = "responses" ->
         IF p.media = "none" THEN [url |-> "url", file_id |-> "file"]
         ELSE [base64 |-> "data", url |-> "url", file_id |-> "file"]
    [] wire = "anthropic" -> IF p.media = "png" THEN [base64 |-> "data"] ELSE <<>>
    [] wire = "chat" -> <<>>

Rejects(takes, p) == p.source \notin DOMAIN takes
Sent(takes, p) == takes[p.source]

\* Both Anthropic's and chat's own parts parse back into the shared vocabulary.
ParsedBack(wire, p, how) ==
  CASE how = "url" -> Media(p.kind, "url", "none")
    [] how = "file" -> Media(p.kind, "file_id", "none")
    [] how = "text" /\ wire = "anthropic" -> Media(p.kind, "string", "txt")
    [] how = "text" /\ wire = "chat" -> Text("document")
    [] how = "data" /\ p.kind = "document" ->
         Media(p.kind, IF wire = "anthropic" THEN "string" ELSE "base64", "pdf")
    [] how = "data" /\ wire = "chat" /\ p.kind = "image" -> Media(p.kind, "url", "none")
    [] OTHER -> p

-----------------------------------------------------------------------------
\* A result names its call by the key its wire correlates on; an orphan fails the
\* request before anything else is converted.
KeyOf(wire, p) == IF wire # "anthropic" /\ p.call_id # <<>> THEN p.call_id ELSE p.id
Correlated(wire, messages) ==
  \A n \in DOMAIN messages : \A r \in ToSet(ResultsOf(messages[n])) :
    \E m \in 1..n - 1 : \E c \in ToSet(CallsOf(messages[m])) : KeyOf(wire, c) = KeyOf(wire, r)

ResultRejects(wire, p) ==
  \E c \in ToSet(OfKind(p.content, {"image"})) : Rejects(ResultImageTakes(wire, c), c)
ResultBody(wire, p) ==
  Each(p.content, LAMBDA c : IF c.kind = "text" THEN c.body ELSE Sent(ResultImageTakes(wire, c), c))

PartRejects(wire, p) ==
  \/ p.kind \in MediaKinds /\ Rejects(TakenBy(wire, p), p)
  \/ p.kind = "result" /\ ResultRejects(wire, p)
  \/ p.kind \in {"call", "result"} /\ wire = "responses" /\ p.call_id = <<>>  \* require_call_id
  \/ p.kind = "reasoning" /\ wire = "anthropic" /\ p.blocks = <<>>

MediaItem(wire, p) == Item("user", p.kind, <<>>, <<Sent(TakenBy(wire, p), p)>>)

-----------------------------------------------------------------------------
\* The Responses wire: one item per part; reasoning goes ahead of what it led to,
\* and only with the id the wire gave it.
ResponsesReasoning(p) ==
  Item("assistant", "reasoning", p.id,
       Each(OfKind(p.blocks, {"text", "summary"}), LAMBDA b : b.body)
         \o LET opaque == OfKind(p.blocks, {"encrypted", "redacted"})
            IN  IF opaque = <<>> THEN <<>> ELSE <<opaque[1].body>>)
ResponsesAssistant(message) ==
  LET thought == SelectSeq(message.content, LAMBDA p : p.kind = "reasoning" /\ p.id # <<>>)
      spoken == SelectSeq(message.content,
                          LAMBDA p : p.kind = "call" \/ (p.kind = "text" /\ p.body # ""))
  IN  Each(thought, ResponsesReasoning)
        \o Each(spoken, LAMBDA p : IF p.kind = "call"
                                   THEN Item("assistant", "call", p.call_id, <<p.args>>)
                                   ELSE Item("assistant", "text", message.id, <<p.body>>))
ResponsesUser(p) ==
  CASE p.kind = "text" -> Item("user", "text", <<>>, <<p.body>>)
    [] p.kind = "result" -> Item("user", "result", p.call_id, ResultBody("responses", p))
    [] p.kind \in MediaKinds -> MediaItem("responses", p)
SystemItem(message) == Item("system", "text", <<>>, <<message.content[1].body>>)
ResponsesItems(message) ==
  CASE message.role = "system" -> <<SystemItem(message)>>
    [] message.role = "user" -> Each(message.content, ResponsesUser)
    [] message.role = "assistant" -> ResponsesAssistant(message)

\* SystemInstructionsPlacement: the leading run, every one or none of the system items
\* move to the top-level field, and a request of nothing but system items keeps them.
Leading(input) ==
  CHOOSE n \in 0..Len(input) : /\ \A k \in 1..n : input[k].role = "system"
                               /\ n = Len(input) \/ input[n + 1].role # "system"
Lifted(placement, input) ==
  LET lead == Leading(input)
      cut == CASE placement = "instructions" /\ lead < Len(input) -> 1..lead
               [] placement = "all" -> {n \in DOMAIN input : input[n].role = "system"}
               [] OTHER -> {}
      Pick(S) == LET kept == SelectSeq([n \in DOMAIN input |-> n], LAMBDA n : n \in S)
                 IN  Each(kept, LAMBDA n : input[n])
  IN  [instructions |-> Each(SelectSeq(Pick(cut), LAMBDA i : i.body # <<"">>), LAMBDA i : i.body[1]),
       input |-> Pick(DOMAIN input \ cut)]

-----------------------------------------------------------------------------
\* The chat wire: a user message is split around its results, and an assistant
\* message that only thought is not sent.
LosePending(acc) == acc
FlushUser(acc) ==
  IF acc.pending = <<>> THEN acc ELSE [out |-> acc.out \o acc.pending, pending |-> <<>>]
ChatUserPart(acc, p) ==
  CASE p.kind = "result" ->
         LET flushed == FlushUser(acc)
         IN  [flushed EXCEPT !.out = Append(@, Item("user", "result", KeyOf("chat", p), ResultBody("chat", p)))]
    [] p.kind = "text" -> [acc EXCEPT !.pending = Append(@, Item("user", "text", <<>>, <<p.body>>))]
    [] OTHER -> [acc EXCEPT !.pending = Append(@, MediaItem("chat", p))]
ChatUser(message) ==
  FlushUser(FoldLeft(ChatUserPart, [out |-> <<>>, pending |-> <<>>], message.content)).out

\* Reasoning::display_text, joined over the message's reasoning parts.
Displayed(p) ==
  Each(SelectSeq(p.blocks, LAMBDA b : b.kind # "encrypted" /\ b.body # ""), LAMBDA b : b.body)
ChatAssistant(message) ==
  LET texts == OfKind(message.content, {"text"})
      calls == OfKind(message.content, {"call"})
      thoughts == Flat(Each(OfKind(message.content, {"reasoning"}), Displayed))
  IN  IF texts = <<>> /\ calls = <<>> THEN <<>>
      ELSE (IF thoughts = <<>> THEN <<>> ELSE <<Item("assistant", "reasoning", <<>>, thoughts)>>)
             \o Each(texts, LAMBDA p : Item("assistant", "text", <<>>, <<p.body>>))
             \o Each(calls, LAMBDA p : Item("assistant", "call", KeyOf("chat", p), <<p.args>>))
ChatItems(message) ==
  CASE message.role = "system" -> <<SystemItem(message)>>
    [] message.role = "user" -> ChatUser(message)
    [] message.role = "assistant" -> ChatAssistant(message)

-----------------------------------------------------------------------------
\* Anthropic: system texts leave the history for the top-level array, a reasoning
\* part becomes its blocks, and a call's input is an object whatever it was.
CoerceInput(args) == IF args \in {"object", "object_text"} THEN "object" ELSE "empty"
AnthropicBlock(b) ==
  Item("assistant", IF b.kind \in {"text", "summary"} THEN "thinking" ELSE "redacted", <<>>, <<b.body>>)
AnthropicPart(p) ==
  CASE p.kind = "text" -> <<Item("assistant", "text", <<>>, <<p.body>>)>>
    [] p.kind = "call" -> <<Item("assistant", "call", p.id, <<CoerceInput(p.args)>>)>>
    [] p.kind = "reasoning" -> Each(p.blocks, AnthropicBlock)
AnthropicUser(p) ==
  CASE p.kind = "text" -> Item("user", "text", <<>>, <<p.body>>)
    [] p.kind = "result" -> Item("user", "result", p.id, ResultBody("anthropic", p))
    [] p.kind \in MediaKinds -> MediaItem("anthropic", p)
AnthropicItems(message) ==
  CASE message.role = "system" -> IF message.content[1].body = "" THEN <<>> ELSE <<SystemItem(message)>>
    [] message.role = "user" -> Each(message.content, AnthropicUser)
    [] message.role = "assistant" -> Flat(Each(message.content, AnthropicPart))

-----------------------------------------------------------------------------
\* TryFrom<..RequestParams> of the three wires.
Fails(wire, messages) ==
  \/ ~Correlated(wire, messages)
  \/ \E n \in DOMAIN messages : \E p \in ToSet(messages[n].content) : PartRejects(wire, p)
Converted(wire, messages) ==
  Flat(Each(messages, LAMBDA m : CASE wire = "responses" -> ResponsesItems(m)
                                   [] wire = "chat" -> ChatItems(m)
                                   [] wire = "anthropic" -> AnthropicItems(m)))
EmptyRequest(wire, placement, messages) ==
  wire = "responses" /\ Lifted(placement, Converted(wire, messages)).input = <<>>

-----------------------------------------------------------------------------
\* What each wire's answer becomes in the history (NormalizeCompletionResponse).
ResponsesOutput(o) ==
  CASE o.kind = "message" -> Each(o.texts, Text)
    [] o.kind = "function_call" -> <<Call(o.id, o.call_id, o.args)>>
    [] o.kind = "reasoning" ->
         <<Reasoning(o.id, Each(o.summary, LAMBDA t : Block("summary", t))
                             \o Each(o.texts, LAMBDA t : Block("text", t))
                             \o Each(o.encrypted, LAMBDA t : Block("encrypted", t)))>>
    [] o.kind = "unknown" -> <<>>
AnthropicOutput(o) ==
  CASE o.kind = "text" -> Text(o.body)
    [] o.kind = "tool_use" -> Call(o.id, <<>>, o.args)
    [] o.kind = "thinking" -> Reasoning(<<>>, <<Block("text", o.body)>>)
    [] o.kind = "redacted" -> Reasoning(<<>>, <<Block("redacted", o.body)>>)
ChatOutput(kind, output) ==
  LET of == SelectSeq(output, LAMBDA o : o.kind = kind)
  IN  CASE kind = "text" -> Each(SelectSeq(of, LAMBDA o : o.body # ""), LAMBDA o : Text(o.body))
        [] kind = "reasoning" -> Each(of, LAMBDA o : Reasoning(<<>>, <<Block("text", o.body)>>))
        [] kind = "call" -> Each(of, LAMBDA o : Call(o.id, <<>>, o.args))

FirstMessageId(output) ==
  LET ids == Each(SelectSeq(output, LAMBDA o : o.kind = "message"), LAMBDA o : o.id)
  IN  IF ids = <<>> THEN <<>> ELSE ids[1]
ResponsesAnswer(output) == Message("assistant", FirstMessageId(output), Flat(Each(output, ResponsesOutput)))
AnthropicAnswer(output, id) ==
  Message("assistant", id, IF output = <<>> THEN <<Text("")>> ELSE Each(output, AnthropicOutput))
ChatAnswer(output) ==
  LET content == ChatOutput("text", output) \o ChatOutput("reasoning", output) \o ChatOutput("call", output)
  IN  Message("assistant", <<>>, IF content = <<>> THEN <<Text("")>> ELSE content)

\* The wires mint every identifier anew.
Minted(o) ==
  LET Fresh(field) == IF o[field] = <<>> THEN <<>> ELSE Append(o[field], turn)
  IN  [f \in DOMAIN o |-> IF f \in {"id", "call_id"} THEN Fresh(f) ELSE o[f]]
Normalized(wire, output) ==
  CASE wire = "responses" -> ResponsesAnswer(output)
    [] wire = "chat" -> ChatAnswer(output)
    [] wire = "anthropic" -> AnthropicAnswer(output, <<"msg_a", turn>>)

-----------------------------------------------------------------------------
HistoryInit ==
  /\ history \in {<<Message("system", <<>>, <<Text(t)>>)>> : t \in {"", "preamble"}}
  /\ turn = 0 /\ speakers = {}

Newest == history[Len(history)]
Grow(message) == Len(history) <= MaxMessages /\ history' = Append(history, message)

\* A prompt, a steer behind the results of the last batch, or one more behind a
\* prompt whose run failed.
Prompt(attached) ==
  /\ CallsOf(Newest) = <<>>
  /\ Grow(Message("user", <<>>, <<Text("prompt")>> \o attached))
  /\ UNCHANGED <<turn, speakers>>

\* The turn a provider answered: a request that fails to convert never gets one.
Answer(wire, output) ==
  /\ Newest.role = "user" /\ ~Fails(wire, history) /\ turn < MaxAnswers
  /\ Grow(Normalized(wire, Each(output, Minted)))
  /\ turn' = turn + 1 /\ speakers' = speakers \cup {wire}

\* The results of a batch, in call order, in one user message (fold_branch).
ToolResults(shown) ==
  /\ CallsOf(Newest) # <<>>
  /\ Grow(Message("user", <<>>,
                  Each(CallsOf(Newest), LAMBDA c : Result(c.id, c.call_id, <<Text("output")>> \o shown))))
  /\ UNCHANGED <<turn, speakers>>

\* A compaction node: what stands before it is the wrapped summary.
Compact ==
  /\ Len(history) > 2 /\ CallsOf(Newest) = <<>>
  /\ history' = <<history[1], Message("user", <<>>, <<Text("summary")>>)>>
  /\ UNCHANGED <<turn, speakers>>

HistoryNext ==
  \/ \E attached \in {<<>>} \cup {<<p>> : p \in Attachments} : Prompt(attached)
  \/ \E wire \in Wires : \E output \in Outputs[wire] : Answer(wire, output)
  \/ \E shown \in {<<>>} \cup {<<p>> : p \in ToolImages} : ToolResults(shown)
  \/ Compact

HistorySpec == HistoryInit /\ [][HistoryNext]_historyVars

-----------------------------------------------------------------------------
\* A conversation one wire spoke alone converts for that wire, unless an image it
\* does not take stands in it.
OwnWordsConvert ==
  \A wire \in Wires :
    speakers \subseteq {wire}
    /\ (\A n \in DOMAIN history : \A p \in ToSet(history[n].content) :
          (p.kind \in MediaKinds => ~Rejects(TakenBy(wire, p), p)) /\ (p.kind = "result" => ~ResultRejects(wire, p)))
    => ~Fails(wire, history)

\* Every word and every call of the conversation is in every request that converts,
\* and every result stands behind its call: what a model may lose by a switch is
\* reasoning, never speech (providers/mod.rs:100).
Spoken(items) == SelectSeq(items, LAMBDA i : i.kind = "text" /\ i.body # <<"">> /\ i.role # "system")
Words(role) ==
  Flat(Each(SelectSeq(history, LAMBDA m : m.role = role),
            LAMBDA m : Each(SelectSeq(m.content, LAMBDA p : p.kind = "text" /\ p.body # ""), LAMBDA p : <<p.body>>)))
EveryWordIsSent ==
  \A wire \in Wires : ~Fails(wire, history) =>
    LET items == Converted(wire, history)
        Said(role) == Each(SelectSeq(Spoken(items), LAMBDA i : i.role = role), LAMBDA i : i.body)
        Keys(kind) == Each(SelectSeq(items, LAMBDA i : i.kind = kind), LAMBDA i : i.key)
        Named(Of(_)) == Flat(Each(history, LAMBDA m : Each(Of(m), LAMBDA p : KeyOf(wire, p))))
    IN  /\ Said("user") = Words("user") /\ Said("assistant") = Words("assistant")
        /\ Keys("call") = Named(CallsOf) /\ Keys("result") = Named(ResultsOf)
        /\ \A n \in DOMAIN items : items[n].kind = "result" =>
             \E m \in 1..n - 1 : items[m].kind = "call" /\ items[m].key = items[n].key

\* The instructions reach the model once, wherever a provider wants them, and a
\* conversation always leaves something to answer.
InstructionsStand ==
  \A placement \in Placements :
    LET lifted == Lifted(placement, Converted("responses", history))
        told == lifted.instructions
                  \o Each(SelectSeq(lifted.input, LAMBDA i : i.role = "system"), LAMBDA i : i.body[1])
    IN  ~Fails("responses", history) =>
          /\ SelectSeq(told, LAMBDA t : t # "") = SelectSeq(<<history[1].content[1].body>>, LAMBDA t : t # "")
          /\ Len(history) > 1 => ~EmptyRequest("responses", placement, history)

\* Anthropic verifies its own thinking: each block goes back where it stood, before
\* the call it led to.
ThinkingKeepsItsPlace ==
  speakers \subseteq {"anthropic"} /\ ~Fails("anthropic", history) =>
    Flat(Each(SelectSeq(history, LAMBDA m : m.role = "assistant"),
              LAMBDA m : Each(m.content, LAMBDA p : IF p.kind = "reasoning" THEN p.blocks[1].body ELSE p.kind)))
      = Each(SelectSeq(Converted("anthropic", history), LAMBDA i : i.role = "assistant"),
             LAMBDA i : IF i.kind \in {"thinking", "redacted"} THEN i.body[1] ELSE i.kind)

\* Every part the shared vocabulary can hold.
AllMedia ==
  {Media(k, source, media) : k \in MediaKinds,
                             source \in {"base64", "url", "file_id", "string", "raw", "unknown"},
                             media \in {"none", "png", "svg", "pdf", "txt", "code", "mp4"}}
Typed(p) ==
  p.media \in CASE p.kind = "image" -> {"none", "png", "svg"}
               [] p.kind = "document" -> {"none", "pdf", "txt", "code"}
               [] p.kind = "audio" -> {"none"}
               [] p.kind = "video" -> {"none", "mp4"}
\* A part that was parsed back from a request is sent as it was.
ReparsedIsResent ==
  \A wire \in {"anthropic", "chat"} \cap Wires, p \in {p \in AllMedia : Typed(p)} : ~Rejects(TakenBy(wire, p), p) =>
    LET how == Sent(TakenBy(wire, p), p)
        back == ParsedBack(wire, p, how)
    IN  back.kind = "text" \/ /\ ~Rejects(TakenBy(wire, back), back)
                              /\ Sent(TakenBy(wire, back), back) \in {how, "url"}

\* NOT true of the code: the conversation of one model is one another can continue.
\* A call of Anthropic or chat has no call_id, and Responses requires one; reasoning
\* that Responses left empty fails on Anthropic; chat takes no image in a result.
SwitchConverts == \A wire \in Wires : ~Fails(wire, history)

\* NOT true of the code: an output message goes back under the id it came with.  The
\* turn keeps the id of its first message, and Anthropic's id is sent to Responses.
OwnIdsOnly ==
  ~Fails("responses", history) =>
    LET items == Converted("responses", history)
    IN  \A n, m \in DOMAIN items :
          items[n].kind = "text" /\ items[n].key # <<>> =>
            items[n].key[1] # "msg_a" /\ (items[m].key = items[n].key => n = m)
=============================================================================
