---------------------------- MODULE TurnAssembly ----------------------------
(***************************************************************************)
(* One model call's item stream, assembled into a turn by the two drivers  *)
(* that consume it: the run loop's source (tabit-engine                    *)
(* agent/prompt_request/streaming.rs run_model_turn) and the one-shot      *)
(* consumer (agent/turn.rs consume_completion_stream), each over a         *)
(* StreamedTurnAssembler (agent/run/streamed.rs).                          *)
(***************************************************************************)
EXTENDS Integers, FiniteSets, SequencesExt

CONSTANT MaxItems   \* bound on the items a stream carries

ASSUME AssemblyAssumption == MaxItems \in Nat

VARIABLES fed,        \* the stream's items so far
          reasoning,  \* accumulated_reasoning: per block, its id and parts
          thoughts,   \* pending_reasoning_delta_text, a count of deltas
          calls,      \* pending_tool_calls, a count
          named,      \* delta_states: name_validated
          buffered,   \* delta_states: buffered_arguments
          sawText,    \* saw_text
          finals,     \* provider_final_seen
          run,        \* the items the loop's source yielded
          sunk,       \* the items the one-shot consumer's callback received
          outcome     \* per driver: "open" or what the call settled as

asmVars == <<fed, reasoning, thoughts, calls, named, buffered, sawText, finals, run, sunk, outcome>>

Live == {"text", "block", "anonymous", "thought", "call", "name", "argument", "unknown"}
Faults == {"malformed", "broken"}
Block(id, parts) == [id |-> id, parts |-> parts]
Settles(how) == outcome' = [d \in {"loop", "once"} |-> how]

AsmInit ==
  /\ fed = <<>> /\ reasoning = <<>> /\ thoughts = 0 /\ calls = 0 /\ named = FALSE
  /\ buffered = 0 /\ sawText = FALSE /\ finals = FALSE /\ run = <<>> /\ sunk = <<>>
  /\ outcome = [d \in {"loop", "once"} |-> "open"]

Arrives(item) ==
  /\ outcome = [d \in {"loop", "once"} |-> "open"] /\ Len(fed) < MaxItems
  /\ fed' = Append(fed, item)

\* An item that carries content: what the assembler keeps of it, and what it clears.
Cleared(item) ==
  CASE item \in {"text", "block", "anonymous", "thought", "unknown"} -> <<item>>
    [] item = "call" -> <<>>
    [] item = "name" -> <<"name">> \o [n \in 1..buffered |-> "argument"]
    [] item = "argument" -> IF named THEN <<"argument">> ELSE <<>>

\* merge_reasoning_blocks: a block extends the last one of its own id.
Merged(incoming) ==
  IF incoming.id # "none" /\ \E n \in DOMAIN reasoning : reasoning[n].id = incoming.id
  THEN [n \in DOMAIN reasoning |->
          IF reasoning[n].id = incoming.id
          THEN Block(incoming.id, reasoning[n].parts + incoming.parts) ELSE reasoning[n]]
  ELSE Append(reasoning, incoming)

Ingest(item) ==
  /\ Arrives(item) /\ item \in Live /\ ~finals
  /\ reasoning' = IF item = "block" THEN Merged(Block("r", 1))
                  ELSE IF item = "anonymous" THEN Merged(Block("none", 1)) ELSE reasoning
  /\ thoughts' = IF item = "thought" THEN thoughts + 1 ELSE thoughts
  /\ calls' = IF item = "call" THEN calls + 1 ELSE calls
  /\ named' = (named \/ item = "name")
  /\ buffered' = IF item = "name" THEN 0
                 ELSE IF item = "argument" /\ ~named THEN buffered + 1 ELSE buffered
  /\ sawText' = (sawText \/ item = "text")
  /\ run' = run \o Cleared(item) /\ sunk' = sunk \o Cleared(item)
  /\ UNCHANGED <<finals, outcome>>

\* Content after the terminal record is a protocol fault, for either driver.
AfterFinalSunk(item) ==
  /\ Arrives(item) /\ item \in Live \union {"final"} /\ finals
  /\ outcome' = [outcome EXCEPT !["loop"] = "failed"]
  /\ UNCHANGED <<reasoning, thoughts, calls, named, buffered, sawText, finals, run, sunk>>
AfterFinal(item) ==
  /\ Arrives(item) /\ item \in Live \union {"final"} /\ finals /\ Settles("failed")
  /\ UNCHANGED <<reasoning, thoughts, calls, named, buffered, sawText, finals, run, sunk>>

\* The stream's own error: unparseable tool arguments, or any other.
Fault(item) ==
  /\ Arrives(item) /\ item \in Faults
  /\ Settles(IF item = "malformed" THEN "defect" ELSE "failed")
  /\ UNCHANGED <<reasoning, thoughts, calls, named, buffered, sawText, finals, run, sunk>>

\* The terminal record: refused while arguments wait for a name; the loop's
\* source reports the call at once and holds the record itself back.
TerminalRecord ==
  /\ Arrives("final") /\ ~finals
  /\ IF buffered > 0 THEN Settles("failed") /\ UNCHANGED <<finals, run>>
     ELSE finals' = TRUE /\ run' = Append(run, "report") /\ UNCHANGED outcome
  /\ UNCHANGED <<reasoning, thoughts, calls, named, buffered, sawText, sunk>>

\* The stream's end: a turn only when the terminal record came.
End ==
  /\ outcome = [d \in {"loop", "once"} |-> "open"]
  /\ IF finals THEN Settles("completed") /\ run' = IF sawText THEN Append(run, "final") ELSE run
               ELSE Settles("failed") /\ UNCHANGED run
  /\ UNCHANGED <<fed, reasoning, thoughts, calls, named, buffered, sawText, finals, sunk>>

\* The abort, polled before the stream: the loop's source is dropped with its run.
Cancel ==
  /\ outcome = [d \in {"loop", "once"} |-> "open"] /\ Settles("cancelled")
  /\ UNCHANGED <<fed, reasoning, thoughts, calls, named, buffered, sawText, finals, run, sunk>>

AsmNext == \/ \E item \in Live : Ingest(item) \/ AfterFinal(item)
           \/ AfterFinal("final") \/ \E item \in Faults : Fault(item)
           \/ TerminalRecord \/ End \/ Cancel

\* finish: reasoning, text and calls in replay order, or the provider's own
\* aggregate when there is neither reasoning nor a call.
Thinking == IF reasoning = <<>> /\ thoughts > 0 THEN <<Block("delta", thoughts)>> ELSE reasoning
Count(s, i) == Cardinality({n \in DOMAIN s : s[n] = i})
Texts == [n \in 1..Count(fed, "text") |-> "text"]
Choice == [n \in DOMAIN Thinking |-> "reasoning"] \o Texts \o [n \in 1..calls |-> "call"]

-----------------------------------------------------------------------------
Completed == outcome["loop"] = "completed"

AsmTypeOK ==
  /\ {thoughts, calls, buffered} \subseteq 0..MaxItems
  /\ {outcome["loop"], outcome["once"]} \subseteq {"open", "completed", "failed", "defect", "cancelled"}
  /\ \A n \in DOMAIN reasoning : reasoning[n].id \in {"r", "none"} /\ reasoning[n].parts \in 1..MaxItems

\* The loop and the one-shot consumer give every stream one classification and
\* show the same items, the call report and the held terminal record apart.
DriversAgree ==
  /\ outcome["loop"] = outcome["once"]
  /\ \E tail \in {<<>>, <<"report">>, <<"report", "final">>} : run = sunk \o tail

\* A stream cut anywhere is never a turn: completion means the terminal record
\* was the last item, reported once, and only a completed turn shows it.
NoTruncatedTurn ==
  /\ Completed => fed # <<>> /\ Last(fed) = "final" /\ Count(run, "report") = 1
  /\ Count(run, "final") > 0 => Completed /\ Last(run) = "final"

\* Arguments reach the consumer behind their name, none lost and none twice.
ArgumentsFollowTheirName ==
  /\ \A n \in DOMAIN sunk : sunk[n] = "argument" => Count(SubSeq(sunk, 1, n), "name") > 0
  /\ Completed => Count(sunk, "argument") = Count(fed, "argument")

\* Signed reasoning is never mixed with unsigned deltas, and same-id blocks are
\* one: what replays to the provider is what it signed.
ReasoningIsSigned ==
  Completed =>
    /\ {"block", "anonymous"} \intersect Range(fed) # {} =>
         \A n \in DOMAIN Thinking : Thinking[n].id # "delta"
    /\ Cardinality({n \in DOMAIN reasoning : reasoning[n].id = "r"}) <= 1
    /\ Cardinality({n \in DOMAIN reasoning : reasoning[n].id = "none"}) = Count(fed, "anonymous")

\* A completed turn replays whole: reasoning first, every text and every call of
\* the stream, the calls last.
CanonicalOrder ==
  Completed =>
    /\ Count(Choice, "text") = Count(fed, "text") /\ Count(Choice, "call") = Count(fed, "call")
    /\ \A n \in DOMAIN Choice : \A k \in 1..n :
         /\ Choice[n] = "reasoning" => Choice[k] = "reasoning"
         /\ Choice[k] = "call" => Choice[n] = "call"
=============================================================================
