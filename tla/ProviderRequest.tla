--------------------------- MODULE ProviderRequest ---------------------------
(***************************************************************************)
(* One request to a provider: the attempts of http_client/retry.rs, then   *)
(* the event source of http_client/sse.rs over the response that answered, *)
(* under the client's stall warnings (client/mod.rs, http_client/mod.rs).  *)
(* Delays are in eighths of a second.                                      *)
(***************************************************************************)
EXTENDS Naturals, Sequences

CONSTANTS MaxRetries,  \* RetryConfig::max_retries
          ServerCap,   \* RetryConfig::max_server_delay
          Asked,       \* the delays a server may ask for
          MaxChunks
ASSUME RequestAssumption == MaxRetries \in Nat /\ ServerCap \in Nat /\ Asked \subseteq Nat /\ MaxChunks \in Nat

VARIABLES
  phase,       \* "attempting", "sleeping", "open", "closed"
  retry_index,
  failure,     \* the latest failed attempt
  slept,       \* the delays, in order: [asked, delay]; asked: the server did
  answered,    \* a success answered an attempt; attempts went out before and after it
  attempts,
  items        \* what the consumer of the stream saw

requestVars == <<phase, retry_index, failure, slept, answered, attempts, items>>

None == "none"
Delays == {<<>>} \cup {<<a>> : a \in Asked}
Transports == {"timeout", "connect", "request", "body", "invalid"}
\* An answer that refuses: a failure with the delays its headers ask for.
Failure(what, should, wanted) == [what |-> what, should |-> should, wanted |-> wanted]
RequestInit == /\ phase = "attempting" /\ retry_index = 0 /\ failure = Failure(None, None, <<>>) /\ slept = <<>>
               /\ answered = FALSE /\ attempts = 1 /\ items = <<>>
\* The milliseconds' header wins; one that does not parse is not there.
Refusals == {Failure(what, should, IF millis # <<>> THEN millis ELSE seconds) :
               what \in {"client_error", "timeout_status", "too_many", "server_error"},
               should \in {None, "true", "false"}, millis \in Delays, seconds \in Delays}
\* is_retryable_status, is_retryable_error.
Retryable(f) == IF f.what \in Transports THEN f.what \in {"timeout", "connect", "request"}
                ELSE f.should = "true" \/ (f.should # "false" /\ f.what # "client_error")
\* server_retry_delay's cap.
TooLong(f) == f.wanted # <<>> /\ f.wanted[1] > ServerCap

\* backoff_delay with its jitter.
Backoff(i, delay) == LET full == IF 4 * 2^i > 64 THEN 64 ELSE 4 * 2^i IN 3 * full <= 4 * delay /\ delay <= full

Sleeps(asked, delay) ==
  /\ phase' = "sleeping" /\ retry_index' = retry_index + 1
  /\ slept' = Append(slept, [asked |-> asked, delay |-> delay]) /\ UNCHANGED items
\* One retry too many.
RetriesSpent(f) == retry_index >= MaxRetries \/ ~Retryable(f)
\* execute, when an attempt failed: the client gives up, or sleeps as it was asked to, or as it sees fit.
GivesUp(f) == /\ phase = "attempting" /\ (RetriesSpent(f) \/ TooLong(f))
              /\ failure' = f /\ phase' = "closed" /\ items' = Append(items, "error")
              /\ UNCHANGED <<retry_index, slept, answered, attempts>>
Retries(f) == /\ phase = "attempting" /\ ~RetriesSpent(f) /\ ~TooLong(f) /\ failure' = f
              /\ IF f.wanted # <<>> THEN Sleeps(TRUE, f.wanted[1])
                 ELSE \E delay \in 0..64 : Backoff(retry_index, delay) /\ Sleeps(FALSE, delay)
              /\ UNCHANGED <<answered, attempts>>
Wake == /\ phase = "sleeping" /\ phase' = "attempting" /\ attempts' = attempts + 1
        /\ UNCHANGED <<retry_index, failure, slept, answered, items>>
\* A success answers; check_response wants 200 and an event stream.
Answered(fits) ==
  /\ phase = "attempting" /\ answered' = TRUE
  /\ IF fits THEN phase' = "open" /\ items' = Append(items, "open") ELSE phase' = "closed" /\ items' = Append(items, "error")
  /\ UNCHANGED <<retry_index, failure, slept, attempts>>

\* poll_next on an open source: a bad byte is passed over, a stall is a warning.
Message == /\ phase = "open" /\ Len(items) <= MaxChunks /\ items' = Append(items, "message")
           /\ UNCHANGED <<phase, retry_index, failure, slept, answered, attempts>>
\* A transport's or a parser's error: once, and the source closes.
StreamError == /\ phase = "open" /\ phase' = "closed" /\ items' = Append(items, "error")
               /\ UNCHANGED <<retry_index, failure, slept, answered, attempts>>
StreamEnd == /\ phase = "open" /\ phase' = "closed" /\ UNCHANGED <<retry_index, failure, slept, answered, attempts, items>>

Failures == Refusals \cup {Failure(kind, None, <<>>) : kind \in Transports}
RequestNext == \/ (\E f \in Failures : GivesUp(f) \/ Retries(f)) \/ Wake
               \/ (\E fits \in BOOLEAN : Answered(fits)) \/ Message \/ StreamError \/ StreamEnd
RequestSpec == RequestInit /\ [][RequestNext]_requestVars

-----------------------------------------------------------------------------
\* A consumer sees one opening, messages, and at most one error behind which there is nothing; and a
\* request that was answered is never sent again, whatever becomes of its stream.
OneErrorAndLast == \A i \in DOMAIN items :
  /\ items[i] = "open" => i = 1 /\ answered
  /\ items[i] = "error" => i = Len(items) /\ phase = "closed"
NothingReplayed == [][answered => attempts' = attempts]_requestVars

\* The client sleeps as long as it was asked to, never longer than its caps, and its own delays grow.
WaitsWithinReason ==
  /\ \A i \in DOMAIN slept : slept[i].delay <= IF slept[i].asked THEN ServerCap ELSE 64
  /\ \A i, j \in DOMAIN slept : i < j /\ ~slept[i].asked /\ ~slept[j].asked =>
       slept[i].delay < slept[j].delay \/ slept[j].delay >= 48
\* No request goes out more often than the budget allows, and while one more is allowed the client gives
\* up only on a refusal or on a wait it will not make.
BudgetIsSpent ==
  /\ attempts <= MaxRetries + 1
  /\ (phase = "closed" /\ ~answered /\ attempts <= MaxRetries) => ~Retryable(failure) \/ TooLong(failure)
=============================================================================
