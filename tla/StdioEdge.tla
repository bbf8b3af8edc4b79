----------------------------- MODULE StdioEdge -----------------------------
(***************************************************************************)
(* The stdio edge of a backend: a reader thread that dispatches the        *)
(* client's lines, a forwarder that pumps the host's events into one feed, *)
(* a writer that owns stdout, and the two ways out: the client's EOF and   *)
(* the end of the host's stream (tabit-session edge.rs).                   *)
(***************************************************************************)
EXTENDS Integers, Sequences

CONSTANTS MaxLines, MaxEvents

VARIABLES
  lines,      \* lines the client still sends: "command", "empty" (a blank message), "bad", "blank"
  eof, ended, \* the client closed its input; the host's stream end has fired
  stream, feed, out, \* the host's events, the writer's feed, stdout
  emitted,    \* events the host emitted
  errors,     \* protocol errors the reader sent
  reader, forwarder, writer, \* "runs" or "done"
  edge        \* serve: "serving", "closing" (the host is dropped), "exited"

edgeVars == <<lines, eof, ended, stream, feed, out, emitted, errors,
              reader, forwarder, writer, edge>>

Line == {"command", "empty", "bad", "blank"}
Event == [kind : {"event"}, n : 1..MaxEvents]
Error(n) == [kind |-> "error", n |-> n]  \* numbered as the reader sends them

EdgeInit ==
  /\ lines = 0 /\ eof = FALSE /\ ended = FALSE
  /\ stream = <<>> /\ feed = <<>> /\ out = <<>>
  /\ emitted = 0 /\ errors = 0
  /\ reader = "runs" /\ forwarder = "runs" /\ writer = "runs" /\ edge = "serving"

\* The host's side of the stream; its end fires once, when every worker is down.
Emit ==
  /\ ~ended /\ emitted < MaxEvents /\ emitted' = emitted + 1
  /\ stream' = Append(stream, [kind |-> "event", n |-> emitted'])
  /\ UNCHANGED <<lines, eof, ended, feed, out, errors, reader, forwarder, writer, edge>>
WindDown ==
  /\ ~ended /\ ended' = TRUE
  /\ UNCHANGED <<lines, eof, stream, feed, out, emitted, errors, reader, forwarder,
                 writer, edge>>

\* read_loop: a blank line is skipped, a message without text and a line that
\* does not parse are protocol errors and the connection stays open; a command
\* goes to the node.
ReadLine(line) ==
  /\ reader = "runs" /\ ~eof /\ lines < MaxLines /\ lines' = lines + 1
  /\ IF line \in {"empty", "bad"} THEN errors' = errors + 1 /\ feed' = Append(feed, Error(errors'))
                                  ELSE UNCHANGED <<errors, feed>>
  /\ UNCHANGED <<eof, ended, stream, out, emitted, reader, forwarder, writer, edge>>
Eof == /\ reader = "runs" /\ eof' = TRUE /\ reader' = "done"
       /\ UNCHANGED <<lines, ended, stream, feed, out, emitted, errors, forwarder,
                      writer, edge>>

\* forward_events: one frame, or at the end what the stream still holds.
Forward ==
  /\ forwarder = "runs"
  /\ \/ stream # <<>> /\ feed' = Append(feed, Head(stream)) /\ stream' = Tail(stream)
        /\ UNCHANGED forwarder
     \/ ended /\ feed' = feed \o stream /\ stream' = <<>> /\ forwarder' = "done"
  /\ UNCHANGED <<lines, eof, ended, out, emitted, errors, reader, writer, edge>>

\* write_loop: one frame, or at the end what the feed holds.  A failed write
\* ends it.
Write ==
  /\ writer = "runs"
  /\ \/ feed # <<>> /\ out' = Append(out, Head(feed)) /\ feed' = Tail(feed) /\ UNCHANGED writer
     \/ ended /\ out' = out \o feed /\ feed' = <<>> /\ writer' = "done"
     \/ feed # <<>> /\ eof /\ feed' = Tail(feed) /\ writer' = "done" /\ UNCHANGED out
  /\ UNCHANGED <<lines, eof, ended, stream, emitted, errors, reader, forwarder, edge>>

\* serve: the reader's end or the stream's end, whichever comes first; the
\* host is dropped, which winds it down, and the two tasks are awaited.
Leave ==
  /\ edge = "serving" /\ (reader = "done" \/ ended) /\ edge' = "closing"
  /\ UNCHANGED <<lines, eof, ended, stream, feed, out, emitted, errors, reader,
                 forwarder, writer>>
Exit ==
  /\ edge = "closing" /\ forwarder = "done" /\ writer = "done" /\ edge' = "exited"
  /\ UNCHANGED <<lines, eof, ended, stream, feed, out, emitted, errors, reader,
                 forwarder, writer>>

EdgeNext == \/ Emit \/ WindDown \/ (\E l \in Line : ReadLine(l)) \/ Eof
            \/ Forward \/ Write \/ Leave \/ Exit

\* The runtime polls what is ready; a dropped host winds down; the client may
\* never close its input.
EdgeFairness == /\ WF_edgeVars(Forward) /\ WF_edgeVars(Write)
                /\ WF_edgeVars(Leave) /\ WF_edgeVars(Exit)
                /\ WF_edgeVars(edge = "closing" /\ WindDown)
EdgeSpec == EdgeInit /\ [][EdgeNext]_edgeVars /\ EdgeFairness

-----------------------------------------------------------------------------
Numbers(kind, frames) == {frames[i].n : i \in {j \in DOMAIN frames : frames[j].kind = kind}}

\* The client reads the events in the order the host emitted them and the protocol errors
\* in the order of its lines, none twice and none skipped: what it has of either is a
\* prefix of what was sent.
InOrderOut ==
  /\ \A i, j \in DOMAIN out : i < j /\ out[i].kind = out[j].kind => out[i].n < out[j].n
  /\ \A kind \in {"event", "error"} :
       \A n \in Numbers(kind, out) : 1..n \subseteq Numbers(kind, out)

\* Until the stream's end or a dead client, nothing is lost on the way: stdout,
\* the feed and the stream together hold every event and every protocol error, once.
NothingDropped ==
  writer = "runs" =>
    /\ Numbers("event", out) \cup Numbers("event", feed) \cup Numbers("event", stream) = 1..emitted
    /\ Numbers("error", out) \cup Numbers("error", feed) = 1..errors
    /\ Len(out) + Len(feed) + Len(stream) = emitted + errors

\* A connection whose input or stream is over ends, even when the client never
\* closes its input.
EdgeResolves == (eof \/ ended) ~> edge = "exited"

\* NOT true of the code under every order of its tasks: an edge that leaves at
\* the stream's end has written every event ("the drain is lossless").
LosslessEnd == edge = "exited" /\ ~eof => Numbers("event", out) = 1..emitted
=============================================================================
