------------------------------ MODULE MCEngine ------------------------------
(***************************************************************************)
(* The agent run and what it runs on, side by side: the loop, one turn's   *)
(* assembly, one batch of tool calls, the hooks' order, the tool registry, *)
(* and the provider's answer under them: a request and its retries, the    *)
(* accumulator under any adapter, the three wires' adapters over it, and   *)
(* the way there: the history and the knobs each wire is sent.             *)
(* A behaviour runs one of them and leaves the others at rest.             *)
(***************************************************************************)
EXTENDS ProviderRequest, EngineLoop, ToolBatch, TurnAssembly

VARIABLES
  part,  \* the module this behaviour runs
  wire, log, latest, acc, complete, over,
  gateway, chat_calls, signalled, decoded, chat_frames, slots, mints, saw_terminal, saw_any_valid_frame, finish_reason,
  chat_acc, chat_outcome,
  manner, posted, events, aborted, open_blocks, failed, messages_acc, ending,
  style, outputs, read, tool_slots, minted_reasoning_ids, tool_calls, current_text_item, has_terminal, status,
  responses_acc, closing,
  talk, talk_turn, speakers,
  request, carrier, body, reply

MCBudgets == {[changes |-> 3, failures |-> 0, locals |-> 0, closes |-> 0],
              [changes |-> 2, failures |-> 1, locals |-> 1, closes |-> 1]}

partsVars == <<wire, log, latest, acc, complete, over>>
chatVars == <<gateway, chat_calls, signalled, decoded, chat_frames, slots, mints, saw_terminal, saw_any_valid_frame,
              finish_reason, chat_acc, chat_outcome>>
anthropicVars == <<manner, posted, events, aborted, open_blocks, failed, messages_acc, ending>>
responsesVars == <<style, outputs, read, tool_slots, minted_reasoning_ids, tool_calls, current_text_item,
                   has_terminal, status, responses_acc, closing>>

historyVars == <<talk, talk_turn, speakers>>
shapeVars == <<request, carrier, body, reply>>

MCWires == {
  [texts |-> {"t"}, reasonings |-> {"m", "c"}, tools |-> {"c"}, policies |-> {}, finals |-> {"stop"}, events |-> 4],
  [texts |-> {"t", "w"}, reasonings |-> {"c"}, tools |-> {}, policies |-> {}, finals |-> {}, events |-> 5],
  [texts |-> {}, reasonings |-> {}, tools |-> {"c", "k"}, policies |-> {"drop", "keep", "stated"}, finals |-> {},
   events |-> 4]}

Parts == INSTANCE PartsAccumulator WITH Wires <- MCWires, Minted <- {"m", "k"}, MaxPieces <- 2
Chat == INSTANCE ChatStream WITH
  Gateways <- {"indexed", "reusing", "whole"}, MintedIds <- <<"t1", "t2", "t3">>, Minted <- {"t1", "t2", "t3", "r"},
  MaxPieces <- 3, MaxCalls <- 2, MaxFrames <- 5,
  calls <- chat_calls, frames <- chat_frames, outcome <- chat_outcome, acc <- chat_acc
Messages == INSTANCE AnthropicStream WITH
  Blocks <- {1, 2}, BlockIds <- <<"b1", "b2">>, ToolIds <- <<"c1", "c2">>, Minted <- {"b1", "b2"}, MaxPieces <- 3,
  Manners <- {"sequential", "tools", "any"}, MaxEvents <- [sequential |-> 6, tools |-> 8, any |-> 3],
  sent <- posted, acc <- messages_acc
Responses == INSTANCE ResponsesStream WITH
  Slots <- {1, 2}, ItemIds <- <<"i1", "i2">>, SlotIds <- <<"s1", "s2">>, Minted <- {"s1", "s2"}, MaxPieces <- 3,
  Manners <- {"full", "bare", "mixed"}, MaxEvents <- 5,
  manner <- style, items <- outputs, events <- read, saw_terminal <- has_terminal, acc <- responses_acc,
  ending <- closing

\* One conversation on three wires, and the items each of them may answer with.
Says(id, texts) == [kind |-> "message", id |-> id, texts |-> texts]
Invokes(id, call_id) == [kind |-> "function_call", id |-> id, call_id |-> call_id, args |-> "object"]
Thought(id, summary, encrypted) ==
  [kind |-> "reasoning", id |-> id, summary |-> summary, texts |-> <<>>, encrypted |-> encrypted]
Piece(kind, words) == [kind |-> kind, body |-> words]
Use(kind, id, input) == [kind |-> kind, id |-> id, args |-> input]
MCAnswers ==
  [responses |-> {<<Thought(<<"r1">>, <<"s">>, <<"e">>), Says(<<"m1">>, <<"t">>), Invokes(<<"f1">>, <<"c1">>)>>,
                  <<Says(<<"m1">>, <<"t">>), Says(<<"m2">>, <<"u", "">>)>>,
                  <<Invokes(<<"f1">>, <<"c1">>), Invokes(<<"f2">>, <<"c2">>)>>,
                  <<Thought(<<"r1">>, <<>>, <<>>), Says(<<"m1">>, <<"t">>)>>},
   anthropic |-> {<<Piece("text", "t")>>, <<>>,
                  <<Piece("thinking", "s"), Piece("text", "t"), Use("tool_use", <<"u1">>, "object")>>,
                  <<Piece("redacted", "d"), Use("tool_use", <<"u1">>, "object"), Piece("thinking", "s"),
                    Use("tool_use", <<"u2">>, "text")>>},
   chat |-> {<<Piece("text", "")>>, <<Piece("reasoning", "s")>>,
             <<Piece("reasoning", "s"), Piece("text", "t"), Use("call", <<"c1">>, "object_text")>>,
             <<Use("call", <<"c1">>, "object"), Use("call", <<"c2">>, "object")>>}]
MCMedia(k, source, media) == [kind |-> k, source |-> source, media |-> media]
History == INSTANCE WireHistory WITH
  Outputs <- MCAnswers,
  Attachments <- {MCMedia("image", "base64", "png"), MCMedia("image", "base64", "svg")},
  ToolImages <- {MCMedia("image", "base64", "png")},
  Placements <- {"instructions", "all", "input"}, MaxMessages <- 4, MaxAnswers <- 2,
  history <- talk, turn <- talk_turn

Requested == INSTANCE RequestShape WITH
  Unnamed <- {"loud"},
  Turns <- {[fresh |-> 3, cached |-> 2, output |-> 4], [fresh |-> 0, cached |-> 5, output |-> 0]},
  Odd <- {"failed", "sensitive"}, asked <- request, wire <- carrier, sent <- body, told <- reply

allVars == <<part, historyVars, shapeVars, requestVars, partsVars, chatVars, anthropicVars, responsesVars,
             loopVars, batchVars, asmVars, regVars, hookVars>>

\* A module that is not run rests in one of its initial states.
Init ==
  /\ part \in {"loop", "batch", "turn", "registry", "hooks", "request", "parts", "chat", "messages", "responses",
              "history", "shape"}
  /\ LoopInit /\ (part # "loop" => journal = <<>>)
  /\ BatchInit /\ (part # "batch" => width = 1 /\ offered = {})
  /\ AsmInit
  /\ RegInit /\ (part # "registry" => left.closes = 0)
  /\ HookInit
  /\ RequestInit
  /\ Parts!PartsInit /\ (part # "parts" => wire.texts = {})
  /\ Chat!ChatInit /\ (part # "chat" => gateway = "whole")
  /\ Messages!AnthropicInit /\ (part # "messages" => manner = "tools")
  /\ Responses!ResponsesInit /\ (part # "responses" => style = "full")
  /\ History!HistoryInit /\ (part # "history" => talk[1].content[1].body = "")
  /\ Requested!ShapeInit /\ (part # "shape" => carrier = "chat")

Only(m) ==
  /\ part = m /\ UNCHANGED part
  /\ m # "loop" => UNCHANGED loopVars
  /\ m # "batch" => UNCHANGED batchVars
  /\ m # "turn" => UNCHANGED asmVars
  /\ m # "registry" => UNCHANGED regVars
  /\ m # "hooks" => UNCHANGED hookVars
  /\ m # "request" => UNCHANGED requestVars
  /\ m # "parts" => UNCHANGED partsVars
  /\ m # "chat" => UNCHANGED chatVars
  /\ m # "messages" => UNCHANGED anthropicVars
  /\ m # "responses" => UNCHANGED responsesVars
  /\ m # "history" => UNCHANGED historyVars
  /\ m # "shape" => UNCHANGED shapeVars

Next == \/ Only("loop") /\ LoopNext
        \/ Only("batch") /\ BatchNext
        \/ Only("turn") /\ AsmNext
        \/ Only("registry") /\ RegNext
        \/ Only("hooks") /\ HookNext
        \/ Only("request") /\ RequestNext
        \/ Only("parts") /\ Parts!PartsNext
        \/ Only("chat") /\ Chat!ChatNext
        \/ Only("messages") /\ Messages!AnthropicNext
        \/ Only("responses") /\ Responses!ResponsesNext
        \/ Only("history") /\ History!HistoryNext
        \/ Only("shape") /\ Requested!ShapeNext

Spec == Init /\ [][Next]_allVars

\* A run stops at roundtrip boundaries, tells what it commits and spends what it was
\* given: its turns, its retries and its own cost (agent/drive.rs).
RunIsAccountable ==
  /\ LoopTypeOK /\ RoundtripBoundary /\ CommitsAreTold /\ UnattendedIsBounded /\ BudgetHolds
  /\ StopIsFinal /\ CostIsItsOwn

\* However the calls of a batch interleave, the lowest stop settles, each body ran what
\* the gate let through, a rejected call touched nothing, and no frame is left behind.
BatchIsWhole ==
  /\ BatchTypeOK /\ LowestStopWins /\ EffectiveArgs /\ PinnedImplementation
  /\ RejectedTouchesNothing /\ FramesDrain

\* Both drivers assemble the same turn, whole, signed and in canonical order.
TurnIsFaithful ==
  /\ AsmTypeOK /\ DriversAgree /\ NoTruncatedTurn /\ ArgumentsFollowTheirName /\ ReasoningIsSigned /\ CanonicalOrder

\* Nothing is left behind: a run that is not over and a batch that is not settled have a
\* step to take, results and hooks stand in their order, and the registry follows the server's list whatever the notices, with the
\* local tools in place (agent/drive.rs, agent/batch.rs, tool/rmcp.rs).
NothingIsLeftBehind ==
  /\ [](RunGoesOn /\ BatchIsSealed /\ ResultsInCallOrder /\ OneOrderLaw)
  /\ [](RegTypeOK /\ Converges /\ SnapshotIsLive) /\ LocalsStand /\ OrderFollowsList

\* A request fails once and last, within its budget, and replays nothing a caller saw;
\* what the accumulator was told it tells once, in the part it belongs to.
StreamKeepsEveryWord ==
  /\ [](OneErrorAndLast /\ WaitsWithinReason /\ BudgetIsSpent) /\ NothingReplayed
  /\ [](Parts!EveryWordOnce /\ Parts!ItemsEndAtBoundaries /\ Parts!OneBlockPerId /\ Parts!FragmentsMeetTheirCall)
  /\ Parts!NothingUnwritten /\ Parts!SignaturesAddNothing /\ Parts!RestatedOnce /\ Parts!StopHidesNoCall

\* On each wire a call that arrived is told or is an error, blocks and items keep
\* apart, and only a genuine terminal completes the turn.
AdaptersTellTheTurn ==
  /\ Chat!DeliveredCallsAreTold /\ Chat!LostCallsAreErrors /\ Chat!TerminalIsGenuine /\ Chat!KeysApart
  /\ Messages!BlocksBecomeCalls /\ Messages!ThinkingLeavesOnePart /\ Messages!TextStaysInTurn /\ Messages!FailureIsFinal
  /\ Responses!RestatedCallsAreTold /\ Responses!ResponsesFragmentsMeet /\ Responses!DoneSupersedesDeltas
  /\ Responses!MessagesStayApart /\ Responses!CompletedOnItsWord

\* A conversation converts for the wires that spoke it, and a request says on its wire
\* what was asked: every word once, the level, the choice, the tools and the markers,
\* and the turn it answers costs the same and ends the same wherever it was sent.
RequestsKeepHistory ==
  /\ part = "history" =>
       /\ History!OwnWordsConvert /\ History!EveryWordIsSent /\ History!InstructionsStand
       /\ History!ThinkingKeepsItsPlace
       /\ Len(talk) = 1 => History!ReparsedIsResent  \* of every part, whatever the history
  /\ part = "shape" =>
       /\ Requested!LevelIsHonoured /\ Requested!ForcedCallsAreForced /\ Requested!MarkersStand
       /\ Requested!ToolsArrive /\ Requested!UsageAgrees /\ Requested!EndsAgree

\* NOT true of the code: text of one block stays one part.
TextKeepsItsBlock == Messages!TextKeepsItsBlock
=============================================================================
