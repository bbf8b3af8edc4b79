----------------------------- MODULE DurableLog -----------------------------
(***************************************************************************)
(* What a session log promises to the code above it, with no file, no      *)
(* outbox and no writer in sight: a sequence of accepted records, of which *)
(* a prefix is durable.  Accepted records are never reordered, repeated or *)
(* dropped while the process lives; when it stops, exactly a suffix of the *)
(* records that were not yet durable goes.                                 *)
(***************************************************************************)
EXTENDS Naturals, Sequences, SequencesExt

CONSTANT Record

VARIABLES
  log,      \* every record accepted and not lost, in order
  durable,  \* how many of them are on disk
  up        \* whether a process has the session open

vars == <<log, durable, up>>

Init ==
  /\ log \in Seq(Record)
  /\ durable = 0
  /\ up = TRUE

\* Records are accepted; the disk takes everything pending, or nothing.
Accept ==
  /\ up
  /\ IsPrefix(log, log')
  /\ durable' \in {durable, Len(log')}
  /\ UNCHANGED up

\* The process stops: what was durable stays; of the rest (and of what was
\* being accepted) some prefix may still have landed, and nothing else.
Stop ==
  /\ up
  /\ up' = FALSE
  /\ IsPrefix(SubSeq(log, 1, durable), log')
  /\ IsPrefix(log', log) \/ IsPrefix(log, log')
  /\ durable' = Len(log')

\* A process opens the session and finds exactly what was durable; it may
\* accept a record of its own in the same step.
Resume ==
  /\ ~up
  /\ up' = TRUE
  /\ IsPrefix(log, log')
  /\ durable' \in {durable, Len(log')}

Next == Accept \/ Stop \/ Resume

Spec == Init /\ [][Next]_vars
=============================================================================
