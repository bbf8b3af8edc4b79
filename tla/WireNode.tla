------------------------------ MODULE WireNode ------------------------------
(***************************************************************************)
(* One node of the net (crates/tabit-wire: node.rs, router.rs, client.rs): *)
(* subscribers by kind and door, the table of learned streams, and what    *)
(* happens to both when the process at the end of a lane dies.  Every lane *)
(* is read by a task of its own; a dead lane is swept by that reader at    *)
(* the pipe's end and by the reaper at the process's exit.  Beside it, one *)
(* frame across a whole net of such nodes (node.rs, law 1): in a tree the  *)
(* skipped channel alone keeps a frame from coming back; where somebody    *)
(* wired a loop, the budget of hops every frame carries ends it.           *)
(***************************************************************************)
EXTENDS Naturals, Sequences, SequencesExt, FiniteSets, Relation

CONSTANTS
  Lanes,       \* the child processes
  Speaks,      \* channel -> the streams whose frames it stamps
  MaxFrames,   \* channel -> frames it sends at most
  Watchers,    \* the lanes that ask to hear the others' events
  MaxMisses,   \* commands of the frontend that find no session
  Nodes,
  Nets,        \* the nets to try: symmetric sets of pairs of nodes
  Budget       \* HOP_BUDGET

None == "none"
Host == "host"
Frontend == "front"
Streams == UNION {Speaks[c] : c \in DOMAIN Speaks}

\* A stream is one session's, and one process speaks for it.
ASSUME ChannelsAssumption ==
  /\ DOMAIN Speaks = Lanes \cup {Host} /\ {None, Host, Frontend} \cap Lanes = {}
  /\ MaxFrames \in [DOMAIN Speaks -> Nat]
ASSUME StreamsAssumption ==
  /\ \A c, d \in DOMAIN Speaks : c # d => Speaks[c] \cap Speaks[d] = {}
  /\ {None, "waiting", "over"} \cap Streams = {}

VARIABLES
  process,   \* lane -> BOOLEAN, its process lives
  sent,      \* channel -> frames it sent
  wire,      \* lane -> frames its reader has not read
  reader,    \* lane -> reading, drained, swept, over
  stamps,    \* lane -> streams its reader has yet to close
  subs,      \* the subscribers: channel, kind, locality
  learned,   \* stream -> the channel it was last heard on
  question,  \* lane -> the stream of the question the registry holds, or None
  reaper,    \* lane -> waiting, over, or the stream whose settle it has yet to announce
  seen,      \* stream -> the kinds of its frames the frontend was told, in order
  handed,    \* hearer -> channel -> the numbers of the frames it was handed of that channel's
  net,       \* a net of nodes
  speaker,   \* the node whose frame crosses it, once it spoke
  inflight,  \* copies between two nodes
  heard      \* node -> how often it heard the frame, up to two

laneVars == <<process, sent, wire>>
tableVars == <<reader, stamps, subs, learned, question, reaper>>
outVars == <<seen, handed>>
nodeVars == <<laneVars, tableVars, outVars>>
hopVars == <<net, speaker, inflight, heard>>

\* A frame of a channel's own carries its number there; the node's word is nobody's.
Frame(kind, stream, by, number) == [kind |-> kind, stream |-> stream, by |-> by, number |-> number]
Word(kind, stream) == Frame(kind, stream, None, 0)

\* A lane may watch one kind; the frontend hears everything.  The router keeps lists, in
\* which a registration may stand more than once.
Watch(l) == [channel |-> l, kind |-> "event", locality |-> "both", nth |-> 1]
Everything == [channel |-> Frontend, kind |-> "all", locality |-> "both", nth |-> 1]

NodeInit ==
  /\ process = [l \in Lanes |-> TRUE] /\ sent = [c \in DOMAIN Speaks |-> 0]
  /\ wire = [l \in Lanes |-> <<>>]
  /\ reader = [l \in Lanes |-> "reading"] /\ stamps = [l \in Lanes |-> {}]
  /\ subs = {Everything} /\ learned = [s \in Streams |-> None]
  /\ question = [l \in Lanes |-> None] /\ reaper = [l \in Lanes |-> "waiting"]
  /\ seen = [s \in Streams \cup {None} |-> <<>>]
  /\ handed = [h \in Lanes \cup {Frontend} |-> [c \in DOMAIN Speaks |-> <<>>]]

-----------------------------------------------------------------------------
(* The router                                                              *)

\* Locality::hears: a subscription names the doors it listens at.
HearsAt(locality, door) == locality = "both" \/ locality = door

\* dispatch_skipping: the subscribers of the kind and of every kind, but never
\* the channel the frame came in on; every one of them is called.
Hearers(frame, skip, door) ==
  {sub \in subs : /\ sub.kind \in {frame.kind, "all"}
                  /\ HearsAt(sub.locality, door) /\ sub.channel # skip}

Callbacks(hearer, frame, skip, door) == {sub \in Hearers(frame, skip, door) : sub.channel = hearer}
Copied(number, callbacks) == [k \in 1..Cardinality(callbacks) |-> number]
Dispatch(frame, skip, door) ==
  /\ seen' = IF Callbacks(Frontend, frame, skip, door) = {} THEN seen
               ELSE [seen EXCEPT ![frame.stream] = Append(@, frame.kind)]
  /\ handed' = IF frame.by = None THEN handed ELSE
       [h \in Lanes \cup {Frontend} |->
         [handed[h] EXCEPT ![frame.by] = @ \o Copied(frame.number, Callbacks(h, frame, skip, door))]]

\* Mutant: every registration stands.
RegisterAgain(sub) ==
  subs' = subs \cup {[sub EXCEPT !.nth = IF sub \in subs THEN 2 ELSE 1]}

\* register_channel: one participant holds a kind once.
Register(sub) ==
  subs' = IF \E held \in subs : held.channel = sub.channel /\ held.kind = sub.kind
            THEN subs ELSE subs \cup {sub}

\* retract_owner: the owner's every registration goes.
Registrations(l) == {sub \in subs : sub.channel # l}

-----------------------------------------------------------------------------
(* The processes                                                           *)

\* A lane asks to hear a kind (subscribe_channel, at its boot).
Subscribe(l) ==
  /\ l \in Watchers /\ process[l] /\ Register(Watch(l))
  /\ UNCHANGED <<laneVars, reader, stamps, learned, question, reaper, outVars>>

Send(l, kind, stream) ==
  /\ process[l] /\ sent[l] < MaxFrames[l]
  /\ sent' = [sent EXCEPT ![l] = @ + 1]
  /\ wire' = [wire EXCEPT ![l] = Append(@, Frame(kind, stream, l, sent[l] + 1))]
  /\ UNCHANGED <<process, tableVars, outVars>>

Speak(l) == \E s \in Speaks[l] : Send(l, "event", s)

\* The process's one question, and its settle: answered, or its run is over.
AskUp(l) == \E s \in Speaks[l] :
  sent[l] = 0 /\ Send(l, "request", s)
SettleUp(l) == /\ question[l] # None
               /\ ~\E frame \in ToSet(wire[l]) : frame.kind = "settled" /\ frame.stream = question[l]
               /\ Send(l, "settled", question[l])

Die(l) ==
  /\ process[l] /\ process' = [process EXCEPT ![l] = FALSE]
  /\ UNCHANGED <<sent, wire, tableVars, outVars>>

-----------------------------------------------------------------------------
(* The node's doors                                                        *)

\* Node::intake: an arrival teaches its stream's channel, closes or registers
\* its question, and fans to all but its own lane.
Intake(l) ==
  LET frame == Head(wire[l])
  IN  /\ reader[l] = "reading" /\ wire[l] # <<>>
      /\ wire' = [wire EXCEPT ![l] = Tail(@)]
      /\ learned' = [learned EXCEPT ![frame.stream] = l]
      /\ question' = CASE frame.kind = "request" -> [question EXCEPT ![l] = frame.stream]
                       [] frame.kind = "settled" -> [question EXCEPT ![l] = None]
                       [] OTHER                  -> question
      /\ Dispatch(frame, l, "remote")
      /\ UNCHANGED <<process, sent, reader, stamps, subs, reaper>>

\* Node::emit: the host's own speech teaches its own channel.
Emit ==
  /\ sent[Host] < MaxFrames[Host] /\ sent' = [sent EXCEPT ![Host] = @ + 1]
  /\ \E s \in Speaks[Host] : /\ learned' = [learned EXCEPT ![s] = Host]
                             /\ Dispatch(Frame("event", s, Host, sent[Host] + 1), None, "local")
  /\ UNCHANGED <<process, wire, reader, stamps, subs, question, reaper>>

\* route_command: one lookup hands it to the channel learned for its stream; a
\* miss is a notice that belongs to no stream.
CommandMisses(s) ==
  /\ learned[s] = None /\ Len(seen[None]) < MaxMisses
  /\ Dispatch(Word("notice", None), None, "local")
  /\ UNCHANGED <<laneVars, tableVars>>

-----------------------------------------------------------------------------
(* Death                                                                   *)

\* The routes that remain without the lane's.
Forget(l) == [s \in Streams |-> IF learned[s] = l THEN None ELSE learned[s]]

\* Mutant: the lane is swept before its streams are noted.
DrainForgets(l) ==
  /\ ~process[l] /\ reader[l] = "reading" /\ wire[l] = <<>>
  /\ reader' = [reader EXCEPT ![l] = "drained"] /\ learned' = Forget(l)
  /\ UNCHANGED <<laneVars, stamps, subs, question, reaper, outVars>>

\* retract_lane, first: the lane's streams are noted and forgotten in one step.
Drain(l) ==
  /\ ~process[l] /\ reader[l] = "reading" /\ wire[l] = <<>>
  /\ reader' = [reader EXCEPT ![l] = "drained"]
  /\ stamps' = [stamps EXCEPT ![l] = {s \in Streams : learned[s] = l}]
  /\ learned' = Forget(l)
  /\ UNCHANGED <<laneVars, subs, question, reaper, outVars>>

\* retract: registrations and routes go, the open question settles.
Retract(l) ==
  /\ reader[l] = "drained" /\ reader' = [reader EXCEPT ![l] = "swept"]
  /\ subs' = Registrations(l) /\ learned' = Forget(l)
  /\ question' = [question EXCEPT ![l] = None]
  /\ IF question[l] # None THEN Dispatch(Word("settled", question[l]), None, "local")
                           ELSE UNCHANGED outVars
  /\ UNCHANGED <<laneVars, stamps, reaper>>

\* Last, each noted stream closes as if the lane had said so.
CloseStream(l, s) ==
  /\ reader[l] = "swept" /\ s \in stamps[l]
  /\ stamps' = [stamps EXCEPT ![l] = @ \ {s}]
  /\ Dispatch(Word("closed", s), l, "remote")
  /\ UNCHANGED <<laneVars, reader, subs, learned, question, reaper>>

\* The reaper sees the exit: retract_asks takes the question out of the
\* registry, then announces its settle without the registry's lock.
Reap(l) ==
  /\ ~process[l] /\ reaper[l] = "waiting"
  /\ reaper' = [reaper EXCEPT ![l] = IF question[l] = None THEN "over" ELSE question[l]]
  /\ question' = [question EXCEPT ![l] = None]
  /\ UNCHANGED <<laneVars, reader, stamps, subs, learned, outVars>>

ReapAnnounces(l) ==
  /\ reaper[l] \in Streams /\ reaper' = [reaper EXCEPT ![l] = "over"]
  /\ Dispatch(Word("settled", reaper[l]), None, "local")
  /\ UNCHANGED <<laneVars, reader, stamps, subs, learned, question>>

-----------------------------------------------------------------------------
(* The specification                                                       *)

Reader(l) == Intake(l) \/ Drain(l) \/ Retract(l) \/ \E s \in Streams : CloseStream(l, s)

NodeNext ==
  \/ \E l \in Lanes : \/ Subscribe(l) \/ Speak(l) \/ AskUp(l) \/ SettleUp(l) \/ Die(l)
                      \/ Reader(l) \/ Reap(l) \/ ReapAnnounces(l)
  \/ Emit \/ \E s \in Streams : CommandMisses(s)

\* The readers run on; nobody has to speak, answer, die or be reaped.
NodeFairness == \A l \in Lanes : WF_nodeVars(Reader(l))
NodeSpec == NodeInit /\ [][NodeNext]_nodeVars /\ NodeFairness

-----------------------------------------------------------------------------
(* A frame across a net                                                    *)

Silent == "silent"
Neighbours(n) == {m \in Nodes : <<n, m>> \in net}

\* One copy per channel of node n, except the one to skip.
Copies(n, skip, ttl) == {[from |-> n, to |-> m, ttl |-> ttl] : m \in Neighbours(n) \ {skip}}

HopInit ==
  /\ net \in Nets /\ speaker = Silent /\ inflight = {}
  /\ heard = [n \in Nodes |-> 0]

\* Node::emit: the node stamps the budget.
Utter(n) ==
  /\ speaker = Silent /\ speaker' = n
  /\ inflight' = Copies(n, n, Budget)
  /\ UNCHANGED <<net, heard>>

\* Node::intake: each crossing spends one hop and fans the frame onward.
Cross(copy) ==
  /\ copy \in inflight /\ copy.ttl > 0
  /\ inflight' = (inflight \ {copy}) \cup Copies(copy.to, copy.from, copy.ttl - 1)
  /\ heard' = [heard EXCEPT ![copy.to] = IF @ = 2 THEN 2 ELSE @ + 1]
  /\ UNCHANGED <<net, speaker>>

\* Node::intake: a frame whose budget is spent is dropped.
Expire(copy) ==
  /\ copy \in inflight /\ copy.ttl = 0
  /\ inflight' = inflight \ {copy}
  /\ UNCHANGED <<net, speaker, heard>>

Forwarding == \E copy \in inflight : Cross(copy) \/ Expire(copy)
HopNext == (\E n \in Nodes : Utter(n)) \/ Forwarding
HopFairness == WF_hopVars(Forwarding)
HopSpec == HopInit /\ [][HopNext]_hopVars /\ HopFairness

-----------------------------------------------------------------------------
(* Properties                                                              *)

Channels == Lanes \cup {Host}

\* Every variable keeps its type, and a swept lane has nothing left in the
\* tables of the node: no registration, no route, no ask.
NodeTypeOK ==
  /\ process \in [Lanes -> BOOLEAN] /\ \A c \in Channels : sent[c] \in 0..MaxFrames[c]
  /\ reader \in [Lanes -> {"reading", "drained", "swept"}]
  /\ stamps \in [Lanes -> SUBSET Streams]
  /\ \A sub \in subs : sub.channel \in Lanes \cup {Frontend}
  /\ learned \in [Streams -> Channels \cup {None}]
  /\ question \in [Lanes -> Streams \cup {None}]
  /\ reaper \in [Lanes -> Streams \cup {"waiting", "over"}]
  /\ \A l \in Lanes : reader[l] = "swept" =>
       /\ Watch(l) \notin subs /\ question[l] = None
       /\ \A s \in Streams : learned[s] # l

\* What a channel said and no reader has read yet, by its numbers.
Unread(c) == IF c = Host THEN <<>> ELSE [i \in DOMAIN wire[c] |-> wire[c][i].number]

\* The frontend was handed everything a channel said, each frame once and in order, but
\* for what the pipe still holds: a death loses nothing that was said before it.
AllIsHanded ==
  \A c \in Channels : handed[Frontend][c] \o Unread(c) = [n \in 1..sent[c] |-> n]

\* A lane that watches is handed a frame of another channel at most once and in order,
\* however often it asked to hear the kind.
HandedOnce ==
  \A l \in Lanes, c \in Channels : \A i, j \in DOMAIN handed[l][c] :
    i < j => handed[l][c][i] < handed[l][c][j]

\* A node hands a lane nothing its own process said, whatever dies meanwhile.
NoEcho == \A l \in Lanes : handed[l][l] = <<>>

\* A stream whose close the frontend heard is unknown to the node from then on,
\* so that a command for it is answered by the notice of a miss and never sent
\* down the pipe of a dead process.
ClosedMeansMissed ==
  \A s \in Streams : "closed" \in ToSet(seen[s]) => learned[s] = None

\* A death closes each stream the lane had taught once, descendants' included.
ClosesOnce ==
  \A s \in Streams : Cardinality({i \in DOMAIN seen[s] : seen[s][i] = "closed"}) <= 1

\* A stream is closed only by the lane it speaks on: that process is dead, everything it
\* said was read before, and the lane is swept.
ClosedByItsLane ==
  \A s \in Streams : "closed" \in ToSet(seen[s]) =>
    \E l \in Lanes : s \in Speaks[l] /\ ~process[l] /\ wire[l] = <<>> /\ reader[l] = "swept"

\* Nothing follows a stream's close but a settle, which the reaper of its lane took out of
\* the registry before the reader swept it and announces when it gets to it.
LastButTheReapers ==
  \A s \in Streams : \A i, j \in DOMAIN seen[s] :
    (i < j /\ seen[s][i] = "closed") =>
      seen[s][j] = "settled" /\ \E l \in Lanes : s \in Speaks[l] /\ reaper[l] = "over"

\* Every stream a dead process had taught is closed in the end.
SubtreesClose ==
  \A l \in Lanes : \A s \in Speaks[l] :
    (learned[s] = l /\ ~process[l]) ~> "closed" \in ToSet(seen[s])

\* NOT true of the code: node.rs: the synthesized closes are the final word on every dying stream.
FinalWord ==
  \A s \in Streams : \A i, j \in DOMAIN seen[s] : i < j => seen[s][i] # "closed"

IsTree == /\ IsConnected([n, m \in Nodes |-> <<n, m>> \in net], Nodes)
          /\ Cardinality(net) = 2 * (Cardinality(Nodes) - 1)

\* In a connected net without a loop no node hears a frame twice, and the speaker never
\* hears its own.
TreesHearOnce ==
  IsTree => \A n \in Nodes : heard[n] <= 1 /\ (n = speaker => heard[n] = 0)

\* However the nodes are wired, a frame stops crossing the net.
LoopsEnd == (speaker # Silent) ~> (inflight = {})
=============================================================================
