---------------------------- MODULE RequestShape ----------------------------
(***************************************************************************)
(* The knobs of one request, on the wire it is sent to: the thinking       *)
(* level, the tool choice, the tools, the streaming flag, the cache        *)
(* markers and the cache key; and the way back, where an answer's token    *)
(* counts and the reason it ended become the shared record                 *)
(* (tabit-providers: completion/request.rs, anthropic/completion.rs,       *)
(* openai/responses_api, openai/completion).                               *)
(***************************************************************************)
EXTENDS Integers, Sequences, SequencesExt, FiniteSets, FiniteSetsExt

CONSTANTS Unnamed,  \* levels outside the vocabulary
          Turns,    \* the turns a wire measures, [fresh, cached, output]
          Odd       \* the reasons no vocabulary names

VARIABLES asked,  \* the request, <<>> until it is made
          wire,   \* the wire of the model it was made for
          sent,   \* the body built for it, <<Refused>>, or <<>>
          told    \* the usage and the reason of its answer, or <<>>

shapeVars == <<asked, wire, sent, told>>

Wires == {"anthropic", "responses", "chat"}
Refused == "refused"
Known == {"off", "minimal", "low", "medium", "high", "xhigh", "max"}
Ttls == {"5m", "1h"}

\* A request: the level or "unset"; the choice, its kind and the functions it names;
\* the typed tools; the raw parameters, as a bool (the streaming flag alone) or an
\* object with tools of its own; the provider tools added last; the caching asked for.
Request(level, choice, tools, params, hosted, cache) ==
  [level |-> level, choice |-> choice, tools |-> tools, params |-> params, hosted |-> hosted, cache |-> cache]
Choice(kind, names) == [kind |-> kind, names |-> names]
Tool(name, type, deferred, mark) == [name |-> name, type |-> type, deferred |-> deferred, mark |-> mark]
Params(shape, stream, tools) == [shape |-> shape, stream |-> stream, tools |-> tools]
Cache(manual, automatic, raw, system, key, model_key) ==
  [manual |-> manual, automatic |-> automatic, raw |-> raw, system |-> system, key |-> key, model_key |-> model_key]

-----------------------------------------------------------------------------
\* with_provider_tools: whatever the parameters were, they become an object that keeps
\* the streaming flag and its own tools, and the provider's stand behind them.
MergeTools(params, hosted) ==
  IF hosted = <<>> THEN params ELSE Params("object", params.stream, params.tools \o hosted)

\* The level in the wire's own dialect.
Realized(on, level) ==
  CASE level = "unset" -> "unset"
    [] on = "chat" /\ level = "off" -> "unset"
    [] level \notin Known \/ (on = "anthropic" /\ level = "minimal") -> Refused
    [] on = "responses" /\ level = "off" -> "none"
    [] on = "anthropic" /\ level = "off" -> "disabled"
    [] OTHER -> level

\* A choice of functions is one function, or on Responses a required subset.
Chosen(on, choice) ==
  LET n == Len(choice.names)
  IN  CASE choice.kind # "specific" -> choice
        [] n = 1 -> Choice("function", choice.names)
        [] n > 1 /\ on = "responses" -> Choice("allowed_tools", choice.names)
        [] OTHER -> Choice(Refused, <<>>)
\* create_streaming_request_body: no choice without tools, always one with them.
Streamed(choice, tools) ==
  IF tools = <<>> THEN Choice("unset", <<>>)
  ELSE IF choice.kind = "unset" THEN Choice("auto", <<>>) ELSE choice

\* The raw tools join the typed ones; on chat only functions do, and what is left in
\* the flattened parameters takes the place of the typed field.
IsFunction(tool) == tool.type = "function"
Tooled(on, typed, raw) ==
  IF on # "chat" THEN typed \o raw
  ELSE LET others == SelectSeq(raw, LAMBDA t : ~IsFunction(t))
       IN  IF others = <<>> THEN typed \o SelectSeq(raw, IsFunction) ELSE others

\* The request's key wins over the model's.
CacheKey(cache) == IF cache.key # "unset" THEN cache.key ELSE cache.model_key

-----------------------------------------------------------------------------
\* Anthropic's cache markers: four at most, the top-level one among them.
MaxMarkers == 4
Marked(marks) == {n \in DOMAIN marks : marks[n] # "none"}

\* resolve_top_level_cache_control
TopLevel(cache) ==
  LET raw == IF cache.raw = "null" THEN "none" ELSE cache.raw
  IN  CASE cache.automatic = "none" -> raw
        [] raw = "none" -> cache.automatic
        [] cache.automatic = "1h" /\ raw # "1h" -> Refused
        [] OTHER -> raw

\* A marker of null is no marker.
NormalizedMarks(tools) == [n \in DOMAIN tools |-> IF tools[n].mark = "null" THEN "none" ELSE tools[n].mark]
LastCallable(tools) == {n \in DOMAIN tools : /\ ~tools[n].deferred
                                             /\ \A m \in n + 1..Len(tools) : tools[m].deferred}

Unmarked(tools, marks) == {n \in LastCallable(tools) : marks[n] = "none"}
ToolMarks(tools, marks, ttl) == [n \in DOMAIN marks |-> IF n \in Unmarked(tools, marks) THEN ttl ELSE marks[n]]

\* In the order the API reads them, a longer TTL stands before a shorter one.
LongerFirst(marks) ==
  \A n, m \in Marked(marks) : n < m => ~(marks[n] = "5m" /\ marks[m] = "1h")

\* apply_prompt_cache_control: tools, system, messages, and the top-level marker.
Ceiling(cache) == IF TopLevel(cache) = "none" THEN MaxMarkers ELSE MaxMarkers - 1
CacheMarks(tools, cache) ==
  LET top == TopLevel(cache)
      marks == NormalizedMarks(tools)
      ttl == IF top = "1h" THEN "1h" ELSE "5m"
      onTools == ToolMarks(tools, marks, ttl)
      left == Ceiling(cache) - Cardinality(Marked(onTools))
      onSystem == cache.system > 0 /\ left > 0
      onMessages == top = "none" /\ left > (IF onSystem THEN 1 ELSE 0)
      Mark(on) == IF cache.manual /\ on THEN ttl ELSE "none"
  IN  [tools |-> IF cache.manual THEN onTools ELSE marks,
       system |-> Mark(onSystem), messages |-> Mark(onMessages), top |-> top]
InReadingOrder(marks) == marks.tools \o <<marks.system, marks.messages, marks.top>>
CacheRefused(tools, cache) ==
  LET explicit == Cardinality(Marked(NormalizedMarks(tools)))
  IN  \/ TopLevel(cache) = Refused
      \/ explicit > Ceiling(cache)
      \/ cache.manual /\ Unmarked(tools, NormalizedMarks(tools)) # {} /\ explicit = Ceiling(cache)
      \/ ~LongerFirst(InReadingOrder(CacheMarks(tools, cache)))

-----------------------------------------------------------------------------
\* The body of a wire, or the error that builds none.
Body(on, request) ==
  LET params == MergeTools(request.params, request.hosted)
      tools == Tooled(on, request.tools, params.tools)
      effort == Realized(on, request.level)
      choice == Chosen(on, request.choice)
  IN  IF \/ Refused \in {effort, choice.kind}
         \/ on = "anthropic" /\ CacheRefused(tools, request.cache)
      THEN <<Refused>>
      ELSE [effort |-> effort,
            choice |-> IF on = "anthropic" THEN Streamed(choice, tools) ELSE choice,
            tools |-> tools,
            encrypted |-> on = "responses" /\ effort # "unset",
            stream |-> IF on = "responses" THEN params.stream ELSE "on",
            marks |-> IF on = "anthropic" THEN CacheMarks(tools, request.cache) ELSE <<>>,
            key |-> IF on = "responses" THEN CacheKey(request.cache) ELSE "unset"]

\* Token counts as each wire states them: the OpenAI wires count cached input inside
\* the input, Anthropic beside it; chat may leave the output out.
Usage(input, cached, output, total) == [input |-> input, cached |-> cached, output |-> output, total |-> total]
Less(a, b) == IF a > b THEN a - b ELSE 0
Normal(on, stated) ==
  CASE on = "anthropic" ->
         Usage(stated.input, stated.cached, stated.output, stated.input + stated.cached + stated.output)
    [] on = "responses" ->
         Usage(Less(stated.input, stated.cached), stated.cached, stated.output, stated.total)
    [] on = "chat" ->
         Usage(Less(stated.input, stated.cached), stated.cached,
               IF stated.output = -1 THEN Less(stated.total, stated.input) ELSE stated.output, stated.total)
Stated(on, turn, omits) ==
  LET input == IF on = "anthropic" THEN turn.fresh ELSE turn.fresh + turn.cached
  IN  Usage(input, turn.cached, IF omits THEN -1 ELSE turn.output, turn.fresh + turn.cached + turn.output)

\* The reason in the wire's words, in the shared vocabulary; a natural stop of a turn
\* that called is a stop to call (reconcile_with_output).
Reason(on, word) ==
  CASE on = "anthropic" /\ word \in {"end_turn", "stop_sequence"} -> "stop"
    [] on = "anthropic" /\ word = "tool_use" -> "tool_calls"
    [] on = "anthropic" /\ word = "refusal" -> "content_filter"
    [] on = "responses" /\ word = "completed" -> "stop"
    [] on = "responses" /\ word = "max_output_tokens" -> "length"
    [] on = "chat" /\ word = "stop" -> "stop"
    [] on = "chat" /\ word \in {"tool_calls", "function_call"} -> "tool_calls"
    [] on = "chat" /\ word \in {"length", "model_length"} -> "length"
    [] on # "responses" /\ word = "max_tokens" -> "length"
    [] on # "anthropic" /\ word = "content_filter" -> "content_filter"
    [] OTHER -> word
Reconciled(reason, called) == IF called /\ reason = "stop" THEN "tool_calls" ELSE reason

\* What the wires say when a turn ends so.
Spelled(on, end) ==
  CASE end = "natural" -> [anthropic |-> {"end_turn", "stop_sequence"}, responses |-> {"completed"}, chat |-> {"stop"}][on]
    [] end = "calls" -> [anthropic |-> {"tool_use"}, responses |-> {"completed"},
                         chat |-> {"tool_calls", "function_call", "stop"}][on]
    [] end = "limit" -> [anthropic |-> {"max_tokens"}, responses |-> {"max_output_tokens"},
                         chat |-> {"length", "max_tokens", "model_length"}][on]
    [] end = "filter" -> [anthropic |-> {"refusal"}, responses |-> {"content_filter"}, chat |-> {"content_filter"}][on]
    [] end = "odd" -> Odd

-----------------------------------------------------------------------------
\* Requests, one knob at a time; the markers of the raw tools meet every caching.
Function(name) == Tool(name, "function", FALSE, "none")
Hosted(name) == Tool(name, "hosted", FALSE, "none")
Bare == Params("null", "unset", <<>>)
Plain == Request("unset", Choice("unset", <<>>), <<Function("a")>>, Bare, <<>>,
                 Cache(FALSE, "none", "none", 1, "unset", "session"))
LevelRequests == {[Plain EXCEPT !.level = level] : level \in Known \cup Unnamed}
ChoiceRequests ==
  {[Plain EXCEPT !.choice = choice, !.tools = tools] :
     choice \in {Choice(kind, <<>>) : kind \in {"auto", "none", "required", "specific"}}
                  \cup {Choice("specific", names) : names \in {<<"a">>, <<"a", "b">>}},
     tools \in {<<>>, <<Function("a")>>}}
ToolRequests ==
  {[Plain EXCEPT !.params = params, !.hosted = hosted, !.tools = tools] :
     params \in {Bare, Params("bool", "on", <<>>), Params("object", "off", <<Function("x")>>),
                 Params("object", "unset", <<Hosted("w"), Function("x")>>)},
     hosted \in {<<>>, <<Hosted("h")>>}, tools \in {<<>>, <<Function("a")>>}}
Pair == {Tool("r", "function", deferred, mark) : deferred \in BOOLEAN, mark \in {"none"} \cup Ttls}
Long == {Tool("r", "function", FALSE, mark) : mark \in {"1h", "none"}}
RawTools ==
  {<<>>, <<Tool("r", "function", FALSE, "null")>>} \cup {<<t, u>> : t \in Pair, u \in Pair}
  \cup {<<t, t, t, u>> : t \in Long, u \in Long} \cup {<<t, t, t, t, u>> : t \in Long, u \in Long}
CachingRequests ==
  {[Plain EXCEPT !.params = Params("object", "unset", raw),
                 !.cache = Cache(manual, automatic, mark, 1, "unset", "session")] :
     raw \in RawTools, manual \in BOOLEAN, automatic \in {"none"} \cup Ttls, mark \in {"none", "null"} \cup Ttls}
KeyRequests ==
  {[Plain EXCEPT !.cache = Cache(FALSE, "1h", "none", system, key, model_key)] :
     system \in {0, 1}, key \in {"unset", "mine"}, model_key \in {"unset", "session"}}
Requests == LevelRequests \cup ChoiceRequests \cup ToolRequests \cup CachingRequests \cup KeyRequests

ShapeInit == asked = <<>> /\ wire \in Wires /\ sent = <<>> /\ told = <<>>

Ask ==
  /\ asked = <<>> /\ \E request \in Requests : asked' = request
  /\ UNCHANGED <<wire, sent, told>>

Build ==
  /\ asked # <<>> /\ sent = <<>>
  /\ sent' = Body(wire, asked)
  /\ UNCHANGED <<asked, wire, told>>

\* The answer: a turn that ended so, in the words of this wire.
Reply(turn, end, word, omits) ==
  /\ sent \notin {<<>>, <<Refused>>} /\ told = <<>>
  /\ word \in Spelled(wire, end) /\ (omits => wire = "chat")
  /\ told' = [turn |-> turn, end |-> end,
              usage |-> Normal(wire, Stated(wire, turn, omits)),
              reason |-> Reconciled(Reason(wire, word), end = "calls")]
  /\ UNCHANGED <<asked, wire, sent>>

Ends == {"natural", "calls", "limit", "filter", "odd"}
ShapeNext ==
  \/ Ask
  \/ Build
  \/ \E turn \in Turns, end \in Ends, omits \in BOOLEAN :
       \E word \in Spelled(wire, end) : Reply(turn, end, word, omits)

ShapeSpec == ShapeInit /\ [][ShapeNext]_shapeVars

-----------------------------------------------------------------------------
Built == sent \notin {<<>>, <<Refused>>}

\* A level is realized or refused, never quietly another one (completion/request.rs:648).
LevelIsHonoured ==
  Built =>
    LET means == CASE sent.effort \in {"none", "disabled"} -> {"off"}
                   [] sent.effort = "unset" -> {"unset"} \cup (IF wire = "chat" THEN {"off"} ELSE {})
                   [] OTHER -> {sent.effort}
    IN  /\ asked.level \in means
        /\ wire = "responses" /\ asked.level # "unset" => sent.encrypted

\* A choice that forces a call forces one of the functions named, on every wire that
\* took it, and Anthropic hears a choice only with tools to choose from.
ForcedCallsAreForced ==
  Built =>
    /\ asked.choice.kind = "specific" /\ sent.tools # <<>> =>
         sent.choice.kind \in {"function", "allowed_tools"} /\ sent.choice.names = asked.choice.names
    /\ wire = "anthropic" => (sent.choice.kind = "unset") = (sent.tools = <<>>)

\* What a caller marked stays marked, the budget holds, no shorter marker stands
\* before a longer one, and manual caching always covers the tools a model can call.
MarkersStand ==
  Built /\ wire = "anthropic" =>
    LET marks == sent.marks
        tools == sent.tools
    IN  /\ Cardinality(Marked(InReadingOrder(marks))) <= MaxMarkers /\ LongerFirst(InReadingOrder(marks))
        /\ \A n \in DOMAIN tools : tools[n].mark \in Ttls => marks.tools[n] = tools[n].mark
        /\ asked.cache.manual => LastCallable(tools) \subseteq Marked(marks.tools)
        /\ marks.top # "none" => marks.messages = "none"
        /\ asked.cache.automatic = "1h" => marks.top = "1h"

\* Whatever the wire, the same turn costs the same: its counts are disjoint and add up.
UsageAgrees ==
  told # <<>> =>
    LET turn == told.turn
    IN  told.usage = Usage(turn.fresh, turn.cached, turn.output, turn.fresh + turn.cached + turn.output)

\* And it ends for the same reason: a turn that called never reads as a natural stop,
\* nor does one that was cut or that ended in words nobody knows.
EndsAgree ==
  told # <<>> =>
    CASE told.end = "natural" -> told.reason = "stop"
      [] told.end = "calls" -> told.reason = "tool_calls"
      [] told.end = "limit" -> told.reason = "length"
      [] told.end = "filter" -> told.reason = "content_filter"
      [] told.end = "odd" -> told.reason \in Odd

\* Every tool of a request that no parameter hides reaches the model.
ToolsArrive ==
  Built =>
    LET raw == MergeTools(asked.params, asked.hosted).tools
    IN  wire # "chat" \/ (\A n \in DOMAIN raw : IsFunction(raw[n])) => sent.tools = asked.tools \o raw

\* NOT true of the code: on chat a hosted tool in the raw parameters takes the place
\* of every typed tool (openai/completion/mod.rs:1629 names the hazard and leaves it
\* to a hook no provider of the repository has).
ToolsReachTheModel == Built => ToSet(asked.tools) \subseteq ToSet(sent.tools)
=============================================================================
