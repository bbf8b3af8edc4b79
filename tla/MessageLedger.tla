---------------------------- MODULE MessageLedger ----------------------------
(***************************************************************************)
(* What a session promises of the user messages it accepts, whatever its   *)
(* threads do (FRONTEND.md, "the message ledger"): one mailbox in arrival  *)
(* order, which is always emptied whole, either into the conversation or   *)
(* back to the user as discarded drafts.                                   *)
(***************************************************************************)
EXTENDS Naturals, Sequences, SequencesExt

CONSTANT Messages  \* the messages that may ever be submitted

VARIABLES
  queue,     \* accepted, fate still open
  entered,   \* the messages of the conversation, in the order they entered
  discarded  \* the messages handed back

ledger == <<queue, entered, discarded>>

Accepted == ToSet(queue) \cup ToSet(entered) \cup discarded

Init == queue = <<>> /\ entered = <<>> /\ discarded = {}

\* A message is accepted once, behind everything that still waits.
Accept(m) ==
  /\ m \notin Accepted
  /\ queue' = Append(queue, m)
  /\ UNCHANGED <<entered, discarded>>

\* A drain takes everything queued at that instant, in order.
Enter ==
  /\ queue' = <<>>
  /\ entered' = entered \o queue
  /\ UNCHANGED discarded

\* A clear hands back everything queued at that instant.
Discard ==
  /\ queue' = <<>>
  /\ discarded' = discarded \cup ToSet(queue)
  /\ UNCHANGED entered

Next == (\E m \in Messages : Accept(m)) \/ Enter \/ Discard

Spec == Init /\ [][Next]_ledger
=============================================================================
