----------------------------- MODULE WireProofs -----------------------------
(***************************************************************************)
(* Proofs about the wire: a node's streams, their closes and what is heard *)
(* of them, whatever the lanes say and whenever their processes die.       *)
(***************************************************************************)
EXTENDS MCWire, FiniteSetTheorems, SequenceTheorems, TLAPS

Spoken == {"event", "request", "settled"}
Kinds == Spoken \cup {"closed", "notice"}
Told == Streams \cup {None}
Carried == [kind : Spoken, stream : Streams, by : Lanes, number : Nat]

\* What every lane carries is its own process's.
LaneInv ==
  /\ process \in [Lanes -> BOOLEAN] /\ sent \in [Channels -> Nat]
  /\ \A c \in Channels : sent[c] <= MaxFrames[c]
  /\ wire \in [Lanes -> Seq(Carried)]
  /\ \A l \in Lanes : \A i \in DOMAIN wire[l] : wire[l][i].stream \in Speaks[l] /\ wire[l][i].by = l

\* What the node's tables hold of a lane is of its own streams.
TableInv ==
  /\ reader \in [Lanes -> {"reading", "drained", "swept"}]
  /\ stamps \in [Lanes -> SUBSET Streams] /\ \A l \in Lanes : stamps[l] \subseteq Speaks[l]
  /\ subs \subseteq {Everything} \cup {Watch(l) : l \in Lanes}
  /\ learned \in [Streams -> Channels \cup {None}]
  /\ \A c \in Channels : \A s \in Speaks[c] : learned[s] \in {c, None}
  /\ question \in [Lanes -> Streams \cup {None}]
  /\ \A l \in Lanes : question[l] \in Speaks[l] \cup {None}
  /\ reaper \in [Lanes -> Streams \cup {"waiting", "over"}]
  /\ \A l \in Lanes : reaper[l] \in Speaks[l] \cup {"waiting", "over"}

\* A lane whose pipe ended says and teaches nothing more.
DeadInv ==
  \A l \in Lanes : reader[l] # "reading" =>
    /\ ~process[l] /\ wire[l] = <<>>
    /\ \A s \in Speaks[l] : learned[s] = None
    /\ reader[l] = "swept" => Watch(l) \notin subs /\ question[l] = None

Closed(s) == \E i \in DOMAIN seen[s] : seen[s][i] = "closed"

\* A stream closes after its lane was swept, when its stamp is taken.
CloseInv ==
  /\ seen \in [Told -> Seq(Kinds)]
  /\ \A l \in Lanes : \A s \in Speaks[l] : Closed(s) => reader[l] = "swept" /\ s \notin stamps[l]
  /\ \A s \in Speaks[Host] : ~Closed(s)
  /\ \A s \in Streams : \A i, j \in DOMAIN seen[s] :
       seen[s][i] = "closed" /\ seen[s][j] = "closed" => i = j

Rising(numbers) == \A i, j \in DOMAIN numbers : i < j => numbers[i] < numbers[j]

\* The frontend was handed the first frames of every channel, the pipe holds those that
\* follow, and a lane was handed some of the frontend's, never its own.
HandedInv ==
  /\ Everything \in subs /\ handed \in [Lanes \cup {Frontend} -> [Channels -> Seq(Nat)]]
  /\ \A c \in Channels : \A i \in DOMAIN handed[Frontend][c] : handed[Frontend][c][i] = i
  /\ Len(handed[Frontend][Host]) = sent[Host]
  /\ \A l \in Lanes :
       /\ Len(handed[Frontend][l]) + Len(wire[l]) = sent[l]
       /\ \A i \in DOMAIN wire[l] : wire[l][i].number = Len(handed[Frontend][l]) + i
       /\ handed[l][l] = <<>>
  /\ \A l \in Lanes, c \in Channels :
       /\ Rising(handed[l][c])
       /\ \A i \in DOMAIN handed[l][c] : handed[l][c][i] <= Len(handed[Frontend][c])

NodeInv == LaneInv /\ TableInv /\ DeadInv /\ CloseInv /\ LastButTheReapers /\ HandedInv

-----------------------------------------------------------------------------
(* The router                                                              *)

\* Every stream is one channel's.
LEMMA OneSpeaker ==
  ASSUME NEW s \in Streams
  PROVE  \E c \in Channels : s \in Speaks[c] /\ \A d \in Channels : s \in Speaks[d] => d = c
<1>1. DOMAIN Speaks = Channels
  BY ChannelsAssumption DEF Channels
<1>2. PICK c \in Channels : s \in Speaks[c]
  BY <1>1 DEF Streams
<1> QED
  BY <1>1, <1>2, StreamsAssumption

LEMMA LanesAreChannels == Lanes \subseteq Channels /\ Host \in Channels
  BY DEF Channels

LEMMA SpokenAreStreams == \A c \in Channels : Speaks[c] \subseteq Streams
  BY ChannelsAssumption DEF Channels, Streams

LEMMA FramesAreBounded == \A c \in Channels : MaxFrames[c] \in Nat
  BY ChannelsAssumption DEF Channels

\* What a dispatched frame changes of what was told: one append at most, to its stream.
LEMMA DispatchTells ==
  ASSUME CloseInv, NEW kind \in Kinds, NEW stream \in Told, NEW by, NEW number, NEW skip, NEW door,
         Dispatch(Frame(kind, stream, by, number), skip, door)
  PROVE  /\ seen' \in [Told -> Seq(Kinds)]
         /\ seen'[stream] \in {seen[stream], Append(seen[stream], kind)}
         /\ \A s \in Told \ {stream} : seen'[s] = seen[s]
<1>1. Frame(kind, stream, by, number).stream = stream /\ Frame(kind, stream, by, number).kind = kind
  BY DEF Frame
<1>2. seen' \in {seen, [seen EXCEPT ![stream] = Append(seen[stream], kind)]}
  BY <1>1, Zenon DEF Dispatch
<1>3. seen \in [Told -> Seq(Kinds)]
  BY DEF CloseInv
<1>4. seen[stream] \in Seq(Kinds) /\ Append(seen[stream], kind) \in Seq(Kinds)
  BY <1>3
<1>5. CASE seen' = seen
  BY <1>3, <1>5, Zenon
<1>6. CASE seen' = [seen EXCEPT ![stream] = Append(seen[stream], kind)]
  <2> DEFINE more == Append(seen[stream], kind)
  <2> HIDE DEF more
  <2>1. seen' = [seen EXCEPT ![stream] = more] /\ more \in Seq(Kinds)
    BY <1>4, <1>6 DEF more
  <2>2. seen' \in [Told -> Seq(Kinds)] /\ seen'[stream] = more /\ \A s \in Told \ {stream} : seen'[s] = seen[s]
    BY <1>3, <2>1, Zenon
  <2> QED
    BY <2>2 DEF more
<1> QED
  BY <1>2, <1>5, <1>6

\* The frontend is called by its one registration, a lane by its watch at most, and nobody
\* by the lane the frame came in on.
LEMMA CallbacksOf ==
  ASSUME TableInv, Everything \in subs, NEW kind, NEW stream, NEW by, NEW number,
         NEW skip \in Lanes \cup {None}, NEW door
  PROVE  LET frame == Frame(kind, stream, by, number)
         IN  /\ Callbacks(Frontend, frame, skip, door) = {Everything}
             /\ \A l \in Lanes : Callbacks(l, frame, skip, door) \in {{}, {Watch(l)}}
             /\ \A l \in Lanes : l = skip => Callbacks(l, frame, skip, door) = {}
<1> DEFINE frame == Frame(kind, stream, by, number)
<1>1. \A sub \in subs : sub = Everything \/ \E l \in Lanes : sub = Watch(l)
  BY DEF TableInv
<1>2. Everything.channel = Frontend /\ Everything.kind = "all" /\ Everything.locality = "both"
  BY DEF Everything
<1>3. \A l \in Lanes : Watch(l).channel = l
  BY DEF Watch
<1>4. Frontend \notin Lanes /\ skip # Frontend
  BY ChannelsAssumption DEF Frontend, None
<1>5. \A h : Callbacks(h, frame, skip, door) \subseteq {sub \in subs : sub.channel = h /\ sub.channel # skip}
  BY DEF Callbacks, Hearers
<1>6. Everything \in Callbacks(Frontend, frame, skip, door)
  BY <1>2, <1>4 DEF Callbacks, Hearers, HearsAt
<1> HIDE DEF frame
<1>7. Callbacks(Frontend, frame, skip, door) = {Everything}
  BY <1>1, <1>3, <1>4, <1>5, <1>6
<1>8. ASSUME NEW l \in Lanes
      PROVE  Callbacks(l, frame, skip, door) \subseteq {Watch(l)}
  BY <1>1, <1>2, <1>3, <1>4, <1>5
<1>9. \A l \in Lanes : l = skip => Callbacks(l, frame, skip, door) = {}
  BY <1>5
<1> QED
  BY <1>7, <1>8, <1>9 DEF frame

\* One call hands over one copy.
LEMMA CopiedOnce ==
  ASSUME NEW number
  PROVE  Copied(number, {}) = <<>> /\ \A sub : Copied(number, {sub}) = <<number>>
<1>1. Cardinality({}) = 0 /\ \A sub : Cardinality({sub}) = 1
  BY FS_EmptySet, FS_Singleton
<1>2. 1..0 = {} /\ 1..1 = {1}
  OBVIOUS
<1>3. Copied(number, {}) = <<>>
  <2>1. Copied(number, {}) = [k \in 1..0 |-> number]
    BY <1>1 DEF Copied
  <2>2. [k \in 1..0 |-> number] \in Seq({number}) /\ Len([k \in 1..0 |-> number]) = 0
    OBVIOUS
  <2> QED
    BY <2>1, <2>2, EmptySeq
<1>4. ASSUME NEW sub
      PROVE  Copied(number, {sub}) = <<number>>
  <2>1. Copied(number, {sub}) = [k \in 1..1 |-> number]
    BY <1>1 DEF Copied
  <2> QED
    BY <1>2, <2>1
<1> QED
  BY <1>3, <1>4

LEMMA Joined ==
  ASSUME NEW S, NEW q \in Seq(S), NEW e \in S
  PROVE  q \o <<>> = q /\ q \o <<e>> = Append(q, e)
OBVIOUS

\* A frame of a channel's own is appended once to what the frontend was handed of that
\* channel, and once at most to what a lane was.
Hands(c, number, skip) ==
  /\ handed' \in [Lanes \cup {Frontend} -> [Channels -> Seq(Nat)]]
  /\ handed'[Frontend] = [handed[Frontend] EXCEPT ![c] = Append(handed[Frontend][c], number)]
  /\ \A l \in Lanes :
       handed'[l] \in {handed[l], [handed[l] EXCEPT ![c] = Append(handed[l][c], number)]}
  /\ \A l \in Lanes : l = skip => handed'[l] = handed[l]

LEMMA DispatchHands ==
  ASSUME HandedInv, TableInv, NEW kind, NEW stream, NEW by \in Channels, NEW number \in Nat,
         NEW skip \in Lanes \cup {None}, NEW door,
         Dispatch(Frame(kind, stream, by, number), skip, door)
  PROVE  Hands(by, number, skip)
<1> DEFINE frame == Frame(kind, stream, by, number)
           Of(h) == Callbacks(h, frame, skip, door)
<1>1. frame.by = by /\ frame.number = number /\ by # None
  BY ChannelsAssumption DEF Frame, Channels, Host, None
<1>2. handed' = [h \in Lanes \cup {Frontend} |->
                  [handed[h] EXCEPT ![by] = handed[h][by] \o Copied(number, Of(h))]]
  BY <1>1, Zenon DEF Dispatch
<1>3. /\ Of(Frontend) = {Everything} /\ \A l \in Lanes : Of(l) \in {{}, {Watch(l)}}
      /\ \A l \in Lanes : l = skip => Of(l) = {}
  BY CallbacksOf DEF HandedInv
<1> HIDE DEF Of
<1>4. \A h \in Lanes \cup {Frontend} : handed[h] \in [Channels -> Seq(Nat)] /\ handed[h][by] \in Seq(Nat)
  BY DEF HandedInv
<1>5. Copied(number, Of(Frontend)) = <<number>>
  BY <1>3, CopiedOnce
<1>6. \A l \in Lanes : Copied(number, Of(l)) \in {<<>>, <<number>>} /\ (l = skip => Copied(number, Of(l)) = <<>>)
  BY <1>3, CopiedOnce
<1>7. \A h \in Lanes \cup {Frontend} :
        /\ handed[h][by] \o <<>> = handed[h][by]
        /\ handed[h][by] \o <<number>> = Append(handed[h][by], number)
        /\ Append(handed[h][by], number) \in Seq(Nat)
  BY <1>4, Joined
<1>8. \A h \in Lanes \cup {Frontend} : [handed[h] EXCEPT ![by] = handed[h][by]] = handed[h]
  BY <1>4
<1>9. handed'[Frontend] = [handed[Frontend] EXCEPT ![by] = Append(handed[Frontend][by], number)]
  BY <1>2, <1>5, <1>7
<1>10. ASSUME NEW l \in Lanes
       PROVE  /\ handed'[l] \in {handed[l], [handed[l] EXCEPT ![by] = Append(handed[l][by], number)]}
              /\ l = skip => handed'[l] = handed[l]
  <2>1. handed'[l] = [handed[l] EXCEPT ![by] = handed[l][by] \o Copied(number, Of(l))]
    BY <1>2
  <2>2. CASE Copied(number, Of(l)) = <<>>
    BY <1>7, <1>8, <2>1, <2>2
  <2>3. CASE Copied(number, Of(l)) = <<number>> /\ l # skip
    BY <1>7, <2>1, <2>3
  <2> QED
    BY <1>6, <2>2, <2>3
<1>11. \A h \in Lanes \cup {Frontend} : handed'[h] \in [Channels -> Seq(Nat)]
  <2>1. \A h \in Lanes \cup {Frontend} :
          [handed[h] EXCEPT ![by] = Append(handed[h][by], number)] \in [Channels -> Seq(Nat)]
    BY <1>4, <1>7
  <2>2. \A l \in Lanes : handed'[l] \in [Channels -> Seq(Nat)]
    <3>1. ASSUME NEW l \in Lanes
          PROVE  handed'[l] \in [Channels -> Seq(Nat)]
      <4>1. handed'[l] = handed[l] \/ handed'[l] = [handed[l] EXCEPT ![by] = Append(handed[l][by], number)]
        BY <1>10
      <4>2. /\ handed[l] \in [Channels -> Seq(Nat)]
            /\ [handed[l] EXCEPT ![by] = Append(handed[l][by], number)] \in [Channels -> Seq(Nat)]
        BY <1>4, <2>1
      <4> QED
        BY <4>1, <4>2, Zenon
    <3> QED
      BY <3>1
  <2>3. handed'[Frontend] \in [Channels -> Seq(Nat)]
    BY <1>9, <2>1
  <2> QED
    BY <2>2, <2>3
<1>12. handed' \in [Lanes \cup {Frontend} -> [Channels -> Seq(Nat)]]
  <2>1. DOMAIN handed' = Lanes \cup {Frontend} /\ handed' = [h \in Lanes \cup {Frontend} |-> handed'[h]]
    BY <1>2
  <2> QED
    BY <1>11, <2>1
<1> QED
  BY <1>9, <1>10, <1>12 DEF Hands

\* The node's own word is numbered nowhere.
LEMMA WordHandsNothing ==
  ASSUME NEW kind, NEW stream, NEW skip, NEW door,
         Dispatch(Frame(kind, stream, None, 0), skip, door)
  PROVE  UNCHANGED handed
BY DEF Dispatch, Frame

-----------------------------------------------------------------------------
(* The tables                                                              *)

\* Reading a lane's next frame leaves what it carries its own.
LEMMA HeadAndTail ==
  ASSUME NEW S, NEW q \in Seq(S), q # <<>>
  PROVE  /\ Head(q) \in S /\ Head(q) = q[1] /\ 1 \in DOMAIN q /\ Tail(q) \in Seq(S)
         /\ \A i \in DOMAIN Tail(q) : Tail(q)[i] = q[i + 1] /\ i + 1 \in DOMAIN q
  OBVIOUS

LEMMA Appended ==
  ASSUME NEW S, NEW q \in Seq(S), NEW e \in S
  PROVE  /\ Append(q, e) \in Seq(S) /\ Append(q, e)[Len(q) + 1] = e
         /\ DOMAIN Append(q, e) = DOMAIN q \cup {Len(q) + 1} /\ Len(q) + 1 \notin DOMAIN q
         /\ \A i \in DOMAIN q : Append(q, e)[i] = q[i] /\ i < Len(q) + 1
  OBVIOUS

LEMMA NodeInitInv == NodeInit => NodeInv
<1> SUFFICES ASSUME NodeInit PROVE NodeInv
  OBVIOUS
<1> USE ChannelsAssumption, StreamsAssumption
<1>1. LaneInv
  BY DEF NodeInit, LaneInv, Channels
<1>2. TableInv
  BY SpokenAreStreams DEF NodeInit, TableInv, Channels
<1>3. DeadInv
  BY DEF NodeInit, DeadInv
<1>4. CloseInv
  <2>1. \A s \in Told : seen[s] = <<>>
    BY DEF NodeInit, Told
  <2>2. \A s \in Told : ~Closed(s)
    BY <2>1 DEF Closed
  <2>3. seen \in [Told -> Seq(Kinds)]
    BY DEF NodeInit, Told
  <2> QED
    BY <2>1, <2>2, <2>3, SpokenAreStreams, LanesAreChannels DEF CloseInv, Told
<1>5. LastButTheReapers
  BY DEF NodeInit, LastButTheReapers
<1>6. HandedInv
  <2>1. \A h \in Lanes \cup {Frontend} : \A c \in Channels : handed[h][c] = <<>>
    BY DEF NodeInit, Channels
  <2>2. handed \in [Lanes \cup {Frontend} -> [Channels -> Seq(Nat)]]
    BY DEF NodeInit, Channels
  <2>3. sent[Host] = 0 /\ \A l \in Lanes : sent[l] = 0 /\ wire[l] = <<>>
    BY LanesAreChannels DEF NodeInit, Channels
  <2>4. Everything \in subs
    BY DEF NodeInit
  <2>5. \A l \in Lanes : l \in Channels /\ l \in Lanes \cup {Frontend}
    BY LanesAreChannels
  <2>6. Frontend \in Lanes \cup {Frontend} /\ Host \in Channels
    BY LanesAreChannels
  <2> DEFINE none == <<>>
  <2>7. Len(none) = 0 /\ DOMAIN none = {}
    OBVIOUS
  <2>8. /\ \A h \in Lanes \cup {Frontend} : \A c \in Channels : handed[h][c] = none
        /\ \A l \in Lanes : sent[l] = 0 /\ wire[l] = none
    BY <2>1, <2>3
  <2> HIDE DEF none
  <2>9. /\ \A c \in Channels : \A i \in DOMAIN handed[Frontend][c] : handed[Frontend][c][i] = i
        /\ Len(handed[Frontend][Host]) = sent[Host]
    BY <2>3, <2>6, <2>7, <2>8
  <2>10. \A l \in Lanes :
           /\ Len(handed[Frontend][l]) + Len(wire[l]) = sent[l]
           /\ \A i \in DOMAIN wire[l] : wire[l][i].number = Len(handed[Frontend][l]) + i
           /\ handed[l][l] = none
    <3>1. \A l \in Lanes : handed[Frontend][l] = none /\ handed[l][l] = none /\ wire[l] = none /\ sent[l] = 0
      BY <2>5, <2>6, <2>8
    <3>2. 0 + 0 = 0
      OBVIOUS
    <3> QED
      BY <2>7, <3>1, <3>2
  <2>11. \A l \in Lanes, c \in Channels :
           /\ Rising(handed[l][c])
           /\ \A i \in DOMAIN handed[l][c] : handed[l][c][i] <= Len(handed[Frontend][c])
    BY <2>5, <2>7, <2>8 DEF Rising
  <2> QED
    BY <2>2, <2>4, <2>9, <2>10, <2>11 DEF HandedInv, none
<1> QED
  BY <1>1, <1>2, <1>3, <1>4, <1>5, <1>6 DEF NodeInv

-----------------------------------------------------------------------------
(* One step of a node                                                      *)

\* A process sends frames of its own streams, one at a time.
LEMMA SendsItsOwn ==
  ASSUME NodeInv, NEW l \in Lanes, Speak(l) \/ AskUp(l) \/ SettleUp(l)
  PROVE  \E kind \in Spoken, stream \in Speaks[l] : Send(l, kind, stream)
<1>1. CASE Speak(l)
  BY <1>1 DEF Speak, Spoken
<1>2. CASE AskUp(l)
  BY <1>2 DEF AskUp, Spoken
<1>3. CASE SettleUp(l)
  BY <1>3 DEF SettleUp, Spoken, NodeInv, TableInv
<1> QED
  BY <1>1, <1>2, <1>3

\* The frame a reader takes next.
LEMMA NextFrame ==
  ASSUME NodeInv, NEW l \in Lanes, wire[l] # <<>>
  PROVE  /\ Head(wire[l]) = Frame(Head(wire[l]).kind, Head(wire[l]).stream, Head(wire[l]).by, Head(wire[l]).number)
         /\ Head(wire[l]).kind \in Spoken /\ Head(wire[l]).stream \in Speaks[l]
         /\ Head(wire[l]).by = l /\ Tail(wire[l]) \in Seq(Carried)
         /\ \A i \in DOMAIN Tail(wire[l]) : Tail(wire[l])[i].stream \in Speaks[l] /\ Tail(wire[l])[i].by = l
<1>1. /\ wire[l] \in Seq(Carried)
      /\ \A i \in DOMAIN wire[l] : wire[l][i].stream \in Speaks[l] /\ wire[l][i].by = l
  BY DEF NodeInv, LaneInv
<1>2. /\ Head(wire[l]) \in Carried /\ Head(wire[l]) = wire[l][1]
      /\ 1 \in DOMAIN wire[l] /\ Tail(wire[l]) \in Seq(Carried)
      /\ \A i \in DOMAIN Tail(wire[l]) : Tail(wire[l])[i] = wire[l][i + 1] /\ i + 1 \in DOMAIN wire[l]
  BY <1>1, HeadAndTail, Zenon
<1> QED
  BY <1>1, <1>2 DEF Frame, Carried

LEMMA LaneStep ==
  ASSUME NodeInv, NodeNext
  PROVE  LaneInv'
<1> USE DEF NodeInv, LaneInv
<1>1. ASSUME NEW l \in Lanes, NEW kind \in Spoken, NEW stream \in Speaks[l], Send(l, kind, stream)
      PROVE  LaneInv'
  <2> DEFINE frame == Frame(kind, stream, l, sent[l] + 1)
  <2>1. /\ UNCHANGED process /\ sent' = [sent EXCEPT ![l] = @ + 1] /\ sent[l] < MaxFrames[l]
        /\ wire' = [wire EXCEPT ![l] = Append(@, frame)]
    BY <1>1 DEF Send
  <2>2. sent' \in [Channels -> Nat] /\ \A c \in Channels : sent'[c] <= MaxFrames[c]
    BY <2>1, FramesAreBounded, LanesAreChannels
  <2>3. frame \in Carried /\ frame.stream \in Speaks[l] /\ frame.by = l
    BY SpokenAreStreams, LanesAreChannels DEF Frame, Carried
  <2> HIDE DEF frame
  <2>4. /\ Append(wire[l], frame) \in Seq(Carried)
        /\ \A i \in DOMAIN Append(wire[l], frame) :
             Append(wire[l], frame)[i].stream \in Speaks[l] /\ Append(wire[l], frame)[i].by = l
    <3>1. wire[l] \in Seq(Carried)
      OBVIOUS
    <3> QED
      BY <2>3, <3>1, Appended
  <2> QED
    BY <2>1, <2>2, <2>4
<1>2. ASSUME NEW l \in Lanes, Intake(l)
      PROVE  LaneInv'
  <2>1. UNCHANGED <<process, sent>> /\ wire' = [wire EXCEPT ![l] = Tail(@)] /\ wire[l] # <<>>
    BY <1>2 DEF Intake
  <2> QED
    BY <2>1, NextFrame
<1>3. ASSUME NEW l \in Lanes, Die(l)
      PROVE  LaneInv'
  BY <1>3 DEF Die
<1>4. CASE Emit
  <2>1. sent' = [sent EXCEPT ![Host] = @ + 1] /\ sent[Host] < MaxFrames[Host] /\ UNCHANGED <<process, wire>>
    BY <1>4 DEF Emit
  <2>2. sent' \in [Channels -> Nat] /\ \A c \in Channels : sent'[c] <= MaxFrames[c]
    BY <2>1, FramesAreBounded, LanesAreChannels
  <2> QED
    BY <2>1, <2>2
<1>5. ASSUME UNCHANGED laneVars
      PROVE  LaneInv'
  BY <1>5 DEF laneVars
<1>6. ASSUME NEW l \in Lanes, Subscribe(l) \/ Drain(l) \/ Retract(l) \/ Reap(l) \/ ReapAnnounces(l)
      PROVE  LaneInv'
  BY <1>5, <1>6 DEF Subscribe, Drain, Retract, Reap, ReapAnnounces
<1>7. ASSUME NEW s \in Streams, CommandMisses(s) \/ \E l \in Lanes : CloseStream(l, s)
      PROVE  LaneInv'
  BY <1>5, <1>7 DEF CloseStream, CommandMisses
<1>8. ASSUME NEW l \in Lanes, Speak(l) \/ AskUp(l) \/ SettleUp(l)
      PROVE  LaneInv'
  BY <1>1, <1>8, SendsItsOwn
<1> HIDE DEF NodeInv, LaneInv
<1> QED
  BY <1>2, <1>3, <1>4, <1>6, <1>7, <1>8 DEF NodeNext, Reader

LEMMA TableStep ==
  ASSUME NodeInv, NodeNext
  PROVE  TableInv'
<1> USE DEF NodeInv, TableInv
<1>1. ASSUME UNCHANGED tableVars
      PROVE  TableInv'
  BY <1>1 DEF tableVars
<1>2. ASSUME NEW l \in Lanes, Subscribe(l)
      PROVE  TableInv'
  <2>1. subs' \subseteq subs \cup {Watch(l)}
    BY <1>2 DEF Subscribe, Register
  <2>2. subs' \subseteq {Everything} \cup {Watch(other) : other \in Lanes}
    BY <2>1, Zenon
  <2> QED
    BY <1>2, <2>2 DEF Subscribe
<1>3. ASSUME NEW l \in Lanes, Intake(l)
      PROVE  TableInv'
  <2> DEFINE frame == Head(wire[l])
  <2>1. frame.stream \in Speaks[l] /\ frame.stream \in Streams
    BY <1>3, NextFrame, SpokenAreStreams, LanesAreChannels DEF Intake
  <2>2. learned' = [learned EXCEPT ![frame.stream] = l] /\ UNCHANGED <<reader, stamps, subs, reaper>>
    BY <1>3 DEF Intake
  <2>3. question' \in {question, [question EXCEPT ![l] = frame.stream], [question EXCEPT ![l] = None]}
    BY <1>3, Zenon DEF Intake
  <2> HIDE DEF frame
  <2>4. \A c \in Channels : \A s \in Speaks[c] : learned'[s] \in {c, None}
    <3>1. SUFFICES ASSUME NEW c \in Channels, NEW s \in Speaks[c] PROVE learned'[s] \in {c, None}
      OBVIOUS
    <3>2. s \in Streams /\ (s = frame.stream => c = l)
      BY <2>1, SpokenAreStreams, OneSpeaker, LanesAreChannels
    <3> QED
      BY <2>1, <2>2, <3>2
  <2>5. learned' \in [Streams -> Channels \cup {None}]
    BY <2>1, <2>2, LanesAreChannels
  <2>6. question' \in [Lanes -> Streams \cup {None}] /\ \A k \in Lanes : question'[k] \in Speaks[k] \cup {None}
    BY <2>1, <2>3
  <2> QED
    BY <2>2, <2>4, <2>5, <2>6
<1>4. CASE Emit
  <2>1. PICK s \in Speaks[Host] : learned' = [learned EXCEPT ![s] = Host]
    BY <1>4 DEF Emit
  <2>2. s \in Streams /\ \A c \in Channels : s \in Speaks[c] => c = Host
    BY <2>1, SpokenAreStreams, OneSpeaker, LanesAreChannels
  <2>3. /\ learned' \in [Streams -> Channels \cup {None}]
        /\ \A c \in Channels : \A r \in Speaks[c] : learned'[r] \in {c, None}
    BY <2>1, <2>2, SpokenAreStreams, LanesAreChannels
  <2> QED
    BY <1>4, <2>3 DEF Emit
<1>5. ASSUME NEW l \in Lanes, Drain(l)
      PROVE  TableInv'
  <2>1. /\ reader' = [reader EXCEPT ![l] = "drained"] /\ UNCHANGED <<subs, question, reaper>>
        /\ stamps' = [stamps EXCEPT ![l] = {s \in Streams : learned[s] = l}]
        /\ learned' = Forget(l)
    BY <1>5 DEF Drain
  <2>2. {s \in Streams : learned[s] = l} \subseteq Speaks[l]
    BY OneSpeaker, LanesAreChannels, ChannelsAssumption
  <2> QED
    BY <2>1, <2>2, SpokenAreStreams DEF Forget
<1>6. ASSUME NEW l \in Lanes, Retract(l)
      PROVE  TableInv'
  <2>1. /\ reader' = [reader EXCEPT ![l] = "swept"] /\ UNCHANGED <<stamps, reaper>>
        /\ subs' \subseteq subs /\ learned' = Forget(l) /\ question' = [question EXCEPT ![l] = None]
    BY <1>6 DEF Retract, Registrations
  <2> QED
    BY <2>1, SpokenAreStreams DEF Forget
<1>7. ASSUME NEW l \in Lanes, NEW s \in Streams, CloseStream(l, s)
      PROVE  TableInv'
  BY <1>7 DEF CloseStream
<1>8. ASSUME NEW l \in Lanes, Reap(l)
      PROVE  TableInv'
  <2>1. /\ reaper' \in {[reaper EXCEPT ![l] = "over"], [reaper EXCEPT ![l] = question[l]]}
        /\ question[l] = None => reaper' = [reaper EXCEPT ![l] = "over"]
        /\ question' = [question EXCEPT ![l] = None] /\ UNCHANGED <<reader, stamps, subs, learned>>
    BY <1>8 DEF Reap
  <2> QED
    BY <2>1
<1>9. ASSUME NEW l \in Lanes, ReapAnnounces(l)
      PROVE  TableInv'
  BY <1>9 DEF ReapAnnounces
<1>10. ASSUME NEW l \in Lanes, (\E kind, stream : Send(l, kind, stream)) \/ Die(l)
       PROVE  UNCHANGED tableVars
  BY <1>10 DEF Send, Die
<1>11. ASSUME NEW s \in Streams, CommandMisses(s)
       PROVE  UNCHANGED tableVars
  BY <1>11 DEF CommandMisses
<1> QED
  BY <1>1, <1>2, <1>3, <1>4, <1>5, <1>6, <1>7, <1>8, <1>9, <1>10, <1>11, SendsItsOwn, Zenon DEF NodeNext, Reader

\* What every step leaves alone of a lane whose pipe ended.
LEMMA DeadStep ==
  ASSUME NodeInv, NodeNext
  PROVE  DeadInv'
<1> USE DEF NodeInv, DeadInv
<1>1. ASSUME UNCHANGED <<process, wire, reader, learned, subs, question>>
      PROVE  DeadInv'
  BY <1>1
<1>2. ASSUME NEW l \in Lanes, Subscribe(l)
      PROVE  DeadInv'
  <2>1. /\ process[l] /\ subs' \subseteq subs \cup {Watch(l)}
        /\ UNCHANGED <<process, wire, reader, learned, question>>
    BY <1>2 DEF Subscribe, Register, laneVars
  <2>2. \A k \in Lanes : Watch(k) = Watch(l) => k = l
    BY DEF Watch
  <2> QED
    BY <2>1, <2>2
<1>3. ASSUME NEW l \in Lanes, NEW kind, NEW stream, Send(l, kind, stream)
      PROVE  DeadInv'
  <2>1. /\ process[l] /\ UNCHANGED <<process, reader, learned, subs, question>>
        /\ \E frame : wire' = [wire EXCEPT ![l] = Append(@, frame)]
    BY <1>3 DEF Send, tableVars
  <2>2. \A k \in Lanes : k # l => wire'[k] = wire[k]
    BY <2>1 DEF LaneInv
  <2>3. reader[l] = "reading"
    BY <2>1
  <2> QED
    BY <2>1, <2>2, <2>3
<1>4. ASSUME NEW l \in Lanes, Die(l)
      PROVE  DeadInv'
  BY <1>4 DEF Die, tableVars, LaneInv
<1>5. ASSUME NEW l \in Lanes, Intake(l)
      PROVE  DeadInv'
  <2>1. /\ reader[l] = "reading" /\ wire[l] # <<>> /\ UNCHANGED <<process, reader, subs>>
        /\ wire' = [wire EXCEPT ![l] = Tail(@)]
        /\ learned' = [learned EXCEPT ![Head(wire[l]).stream] = l]
        /\ \A k \in Lanes : k # l => question'[k] = question[k]
    BY <1>5 DEF Intake, TableInv
  <2>2. \A k \in Lanes : k # l => wire'[k] = wire[k]
    BY <2>1 DEF LaneInv
  <2>3. \A k \in Lanes : k # l => \A s \in Speaks[k] : learned'[s] = learned[s]
    <3>1. Head(wire[l]).stream \in Speaks[l]
      BY <2>1, NextFrame
    <3>2. \A k \in Lanes : k # l => Head(wire[l]).stream \notin Speaks[k]
      BY <3>1, StreamsAssumption, ChannelsAssumption
    <3> QED
      BY <2>1, <3>2, SpokenAreStreams, LanesAreChannels DEF TableInv
  <2> QED
    BY <2>1, <2>2, <2>3
<1>6. CASE Emit
  <2>1. PICK s \in Speaks[Host] : learned' = [learned EXCEPT ![s] = Host]
    BY <1>6 DEF Emit
  <2>2. \A k \in Lanes : s \notin Speaks[k]
    BY StreamsAssumption, ChannelsAssumption
  <2>3. \A k \in Lanes : \A r \in Speaks[k] : learned'[r] = learned[r]
    BY <2>1, <2>2, SpokenAreStreams, LanesAreChannels DEF TableInv
  <2> QED
    BY <1>6, <2>3 DEF Emit
<1>7. ASSUME NEW l \in Lanes
      PROVE  /\ \A s \in Speaks[l] : Forget(l)[s] = None
             /\ \A k \in Lanes : \A s \in Speaks[k] : learned[s] = None => Forget(l)[s] = None
  BY SpokenAreStreams, LanesAreChannels DEF TableInv, Forget
<1>8. ASSUME NEW l \in Lanes, Drain(l)
      PROVE  DeadInv'
  <2>1. /\ ~process[l] /\ wire[l] = <<>> /\ reader' = [reader EXCEPT ![l] = "drained"]
        /\ learned' = Forget(l) /\ UNCHANGED <<process, wire, subs, question>>
    BY <1>8 DEF Drain, laneVars
  <2> QED
    BY <1>7, <2>1 DEF TableInv
<1>9. ASSUME NEW l \in Lanes, Retract(l)
      PROVE  DeadInv'
  <2>1. /\ reader[l] = "drained" /\ reader' = [reader EXCEPT ![l] = "swept"]
        /\ learned' = Forget(l) /\ UNCHANGED <<process, wire>>
        /\ subs' = Registrations(l) /\ question' = [question EXCEPT ![l] = None]
    BY <1>9 DEF Retract, laneVars
  <2>2. Watch(l) \notin subs' /\ subs' \subseteq subs
    BY <2>1 DEF Registrations, Watch
  <2>3. \A k \in Lanes : /\ reader'[k] = IF k = l THEN "swept" ELSE reader[k]
                         /\ question'[k] = IF k = l THEN None ELSE question[k]
    BY <2>1 DEF TableInv
  <2>4. \A k \in Lanes : reader'[k] # "reading" => ~process'[k] /\ wire'[k] = <<>> /\ \A s \in Speaks[k] : learned'[s] = None
    BY <1>7, <2>1, <2>3
  <2> QED
    BY <2>2, <2>3, <2>4
<1>10. ASSUME NEW l \in Lanes, Reap(l)
       PROVE  DeadInv'
  <2>1. question' = [question EXCEPT ![l] = None] /\ UNCHANGED <<process, wire, reader, learned, subs>>
    BY <1>10 DEF Reap, laneVars
  <2>2. \A k \in Lanes : question[k] = None => question'[k] = None
    BY <2>1 DEF TableInv
  <2> QED
    BY <2>1, <2>2
<1>11. ASSUME NEW l \in Lanes, ReapAnnounces(l) \/ \E s \in Streams : CloseStream(l, s)
       PROVE  DeadInv'
  BY <1>1, <1>11 DEF ReapAnnounces, CloseStream, laneVars
<1>12. ASSUME NEW s \in Streams, CommandMisses(s)
       PROVE  DeadInv'
  BY <1>1, <1>12 DEF CommandMisses, laneVars, tableVars
<1>13. ASSUME NEW l \in Lanes, Speak(l) \/ AskUp(l) \/ SettleUp(l)
       PROVE  DeadInv'
  BY <1>3, <1>13, SendsItsOwn
<1> HIDE DEF NodeInv, DeadInv
<1> QED
  BY <1>2, <1>4, <1>5, <1>6, <1>8, <1>9, <1>10, <1>11, <1>12, <1>13, Zenon DEF NodeNext, Reader

-----------------------------------------------------------------------------
(* What is told                                                            *)

\* A frame that is no close leaves the closes as they are, and a stream that is not
\* closed may be told anything.
LEMMA TellKeepsCloses ==
  ASSUME CloseInv, NEW kind \in Kinds \ {"closed"}, NEW stream \in Told, NEW by, NEW number, NEW skip, NEW door,
         Dispatch(Frame(kind, stream, by, number), skip, door)
  PROVE  /\ \A s \in Told : Closed(s)' <=> Closed(s)
         /\ \A s \in Told : \A i \in DOMAIN seen'[s] :
              seen'[s][i] = "closed" => i \in DOMAIN seen[s] /\ seen[s][i] = "closed"
<1>1. /\ seen'[stream] \in {seen[stream], Append(seen[stream], kind)}
      /\ \A s \in Told \ {stream} : seen'[s] = seen[s]
  BY DispatchTells
<1>2. seen[stream] \in Seq(Kinds)
  BY DEF CloseInv
<1>3. /\ Append(seen[stream], kind)[Len(seen[stream]) + 1] = kind
      /\ DOMAIN Append(seen[stream], kind) = DOMAIN seen[stream] \cup {Len(seen[stream]) + 1}
      /\ \A i \in DOMAIN seen[stream] : Append(seen[stream], kind)[i] = seen[stream][i]
  BY <1>2, Appended
<1>4. \A s \in Told : \A i \in DOMAIN seen'[s] :
        seen'[s][i] = "closed" => i \in DOMAIN seen[s] /\ seen[s][i] = "closed"
  BY <1>1, <1>3
<1>5. \A s \in Told : \A i \in DOMAIN seen[s] : i \in DOMAIN seen'[s] /\ seen'[s][i] = seen[s][i]
  BY <1>1, <1>3
<1> QED
  BY <1>4, <1>5 DEF Closed

\* No such frame disturbs the closes while the lanes that closed stay swept.
LEMMA TellKeepsCloseInv ==
  ASSUME CloseInv, NEW kind \in Kinds \ {"closed"}, NEW stream \in Told, NEW by, NEW number, NEW skip, NEW door,
         Dispatch(Frame(kind, stream, by, number), skip, door),
         \A l \in Lanes : reader[l] = "swept" => reader'[l] = "swept" /\ stamps'[l] \subseteq stamps[l]
  PROVE  CloseInv'
<1>1. seen' \in [Told -> Seq(Kinds)]
  BY DispatchTells
<1>2. /\ \A s \in Told : Closed(s)' <=> Closed(s)
      /\ \A s \in Told : \A i \in DOMAIN seen'[s] :
           seen'[s][i] = "closed" => i \in DOMAIN seen[s] /\ seen[s][i] = "closed"
  BY TellKeepsCloses
<1>3. Streams \subseteq Told /\ \A c \in Channels : Speaks[c] \subseteq Told
  BY SpokenAreStreams DEF Told
<1> QED
  BY <1>1, <1>2, <1>3, LanesAreChannels DEF CloseInv

LEMMA CloseStep ==
  ASSUME NodeInv, NodeNext
  PROVE  CloseInv'
<1> USE DEF NodeInv
<1>0. /\ Streams \subseteq Told /\ None \in Told /\ \A c \in Channels : Speaks[c] \subseteq Told
      /\ Spoken \subseteq Kinds \ {"closed"} /\ "notice" \in Kinds \ {"closed"}
  BY SpokenAreStreams DEF Told, Kinds, Spoken
<1>1. ASSUME UNCHANGED seen,
             \A l \in Lanes : reader[l] = "swept" => reader'[l] = "swept" /\ stamps'[l] \subseteq stamps[l]
      PROVE  CloseInv'
  BY <1>1 DEF CloseInv, Closed
<1>2. ASSUME NEW l \in Lanes, Subscribe(l) \/ (\E kind, stream : Send(l, kind, stream)) \/ Die(l) \/ Reap(l)
      PROVE  CloseInv'
  BY <1>1, <1>2 DEF Subscribe, Send, Die, Reap, tableVars, outVars
<1>3. ASSUME NEW l \in Lanes, Intake(l)
      PROVE  CloseInv'
  <2>1. /\ Head(wire[l]).kind \in Spoken /\ Head(wire[l]).stream \in Speaks[l]
        /\ Dispatch(Frame(Head(wire[l]).kind, Head(wire[l]).stream, Head(wire[l]).by, Head(wire[l]).number), l, "remote")
    BY <1>3, NextFrame DEF Intake
  <2> QED
    BY <1>0, <1>3, <2>1, TellKeepsCloseInv, LanesAreChannels DEF Intake
<1>4. CASE Emit
  <2>1. \E s \in Speaks[Host] : Dispatch(Frame("event", s, Host, sent[Host] + 1), None, "local")
    BY <1>4 DEF Emit
  <2> QED
    BY <1>0, <1>4, <2>1, TellKeepsCloseInv, LanesAreChannels DEF Emit, Spoken
<1>5. ASSUME NEW s \in Streams, CommandMisses(s)
      PROVE  CloseInv'
  BY <1>0, <1>5, TellKeepsCloseInv DEF CommandMisses, tableVars, Word
<1>6. ASSUME NEW l \in Lanes, Drain(l)
      PROVE  CloseInv'
  <2>1. UNCHANGED seen /\ \A k \in Lanes : reader[k] = "swept" => reader'[k] = "swept" /\ stamps'[k] = stamps[k]
    BY <1>6 DEF Drain, outVars, TableInv
  <2> QED
    BY <1>1, <2>1
<1>7. ASSUME NEW l \in Lanes, Retract(l)
      PROVE  CloseInv'
  <2>1. UNCHANGED stamps /\ \A k \in Lanes : reader[k] = "swept" => reader'[k] = "swept"
    BY <1>7 DEF Retract, TableInv
  <2>2. CASE question[l] = None
    BY <1>1, <1>7, <2>1, <2>2 DEF Retract, outVars
  <2>3. CASE question[l] # None
    <3>1. Dispatch(Frame("settled", question[l], None, 0), None, "local") /\ question[l] \in Told
      BY <1>0, <1>7, <2>3 DEF Retract, TableInv, Word
    <3> QED
      BY <1>0, <2>1, <3>1, TellKeepsCloseInv DEF Spoken
  <2> QED
    BY <2>2, <2>3
<1>8. ASSUME NEW l \in Lanes, ReapAnnounces(l)
      PROVE  CloseInv'
  <2>1. Dispatch(Frame("settled", reaper[l], None, 0), None, "local") /\ reaper[l] \in Told /\ UNCHANGED <<reader, stamps>>
    BY <1>0, <1>8 DEF ReapAnnounces, TableInv, Word
  <2> QED
    BY <1>0, <2>1, TellKeepsCloseInv DEF Spoken
<1>9. ASSUME NEW l \in Lanes, NEW s \in Streams, CloseStream(l, s)
      PROVE  CloseInv'
  <2>1. /\ reader[l] = "swept" /\ s \in stamps[l] /\ s \in Speaks[l] /\ s \in Told
        /\ stamps' = [stamps EXCEPT ![l] = @ \ {s}] /\ UNCHANGED reader
        /\ Dispatch(Frame("closed", s, None, 0), l, "remote")
    BY <1>0, <1>9 DEF CloseStream, TableInv, Word
  <2>2. /\ seen' \in [Told -> Seq(Kinds)]
        /\ seen'[s] \in {seen[s], Append(seen[s], "closed")}
        /\ \A r \in Told \ {s} : seen'[r] = seen[r]
    BY <2>1, DispatchTells DEF Kinds
  <2>3. ~Closed(s)
    BY <2>1 DEF CloseInv
  <2>4. \A c \in Channels : s \in Speaks[c] => c = l
    BY <2>1, OneSpeaker, LanesAreChannels
  <2>5. \A r \in Told \ {s} : Closed(r)' <=> Closed(r)
    BY <2>2 DEF Closed
  <2>6. \A i, j \in DOMAIN seen'[s] : seen'[s][i] = "closed" /\ seen'[s][j] = "closed" => i = j
    <3>1. /\ DOMAIN Append(seen[s], "closed") = DOMAIN seen[s] \cup {Len(seen[s]) + 1}
          /\ \A i \in DOMAIN seen[s] : Append(seen[s], "closed")[i] = seen[s][i]
      <4>1. seen[s] \in Seq(Kinds) /\ "closed" \in Kinds
        BY <2>1 DEF CloseInv, Kinds
      <4> QED
        BY <4>1, Appended
    <3>2. \A i \in DOMAIN seen[s] : seen[s][i] # "closed"
      BY <2>3 DEF Closed
    <3>3. CASE seen'[s] = seen[s]
      BY <3>2, <3>3
    <3>4. CASE seen'[s] = Append(seen[s], "closed")
      BY <3>1, <3>2, <3>4
    <3> QED
      BY <2>2, <3>3, <3>4
  <2>7. \A k \in Lanes : stamps'[k] \subseteq stamps[k] /\ (k = l => s \notin stamps'[k])
    BY <2>1 DEF TableInv
  <2>8. \A k \in Lanes : \A r \in Speaks[k] : Closed(r)' => reader'[k] = "swept" /\ r \notin stamps'[k]
    BY <1>0, <2>1, <2>4, <2>5, <2>7, LanesAreChannels DEF CloseInv
  <2>9. \A r \in Speaks[Host] : ~Closed(r)'
    BY <1>0, <2>4, <2>5, LanesAreChannels, ChannelsAssumption DEF CloseInv
  <2> QED
    BY <1>0, <2>2, <2>6, <2>8, <2>9 DEF CloseInv
<1>10. ASSUME NEW l \in Lanes, Speak(l) \/ AskUp(l) \/ SettleUp(l)
       PROVE  CloseInv'
  BY <1>2, <1>10, SendsItsOwn
<1> HIDE DEF NodeInv
<1> QED
  BY <1>2, <1>3, <1>4, <1>5, <1>6, <1>7, <1>8, <1>9, <1>10, Zenon DEF NodeNext, Reader

\* A frame told of a closed stream has to be the settle of a reaper that is done.
LEMMA TellKeepsLast ==
  ASSUME CloseInv, LastButTheReapers, NEW kind \in Kinds, NEW stream \in Told, NEW by, NEW number, NEW skip, NEW door,
         Dispatch(Frame(kind, stream, by, number), skip, door),
         \A l \in Lanes : reaper[l] = "over" => reaper'[l] = "over",
         Closed(stream) => /\ kind = "settled"
                           /\ \E l \in Lanes : stream \in Speaks[l] /\ reaper'[l] = "over"
  PROVE  LastButTheReapers'
<1>1. /\ seen'[stream] \in {seen[stream], Append(seen[stream], kind)}
      /\ \A s \in Told \ {stream} : seen'[s] = seen[s]
  BY DispatchTells
<1>2. seen[stream] \in Seq(Kinds)
  BY DEF CloseInv
<1>3. /\ Append(seen[stream], kind)[Len(seen[stream]) + 1] = kind
      /\ DOMAIN Append(seen[stream], kind) = DOMAIN seen[stream] \cup {Len(seen[stream]) + 1}
      /\ \A i \in DOMAIN seen[stream] : Append(seen[stream], kind)[i] = seen[stream][i] /\ i < Len(seen[stream]) + 1
      /\ Len(seen[stream]) \in Nat
  BY <1>2, Appended
<1>4. SUFFICES ASSUME NEW s \in Streams, NEW i \in DOMAIN seen'[s], NEW j \in DOMAIN seen'[s],
                      i < j, seen'[s][i] = "closed"
               PROVE  seen'[s][j] = "settled" /\ \E l \in Lanes : s \in Speaks[l] /\ reaper'[l] = "over"
  BY DEF LastButTheReapers
<1>5. CASE seen'[s] = seen[s]
  <2>1. seen[s][j] = "settled" /\ \E l \in Lanes : s \in Speaks[l] /\ reaper[l] = "over"
    BY <1>4, <1>5 DEF LastButTheReapers
  <2> QED
    BY <1>5, <2>1
<1>6. CASE s = stream /\ seen'[s] = Append(seen[s], kind)
  <2>1. i \in DOMAIN seen[s] /\ seen[s][i] = "closed"
    BY <1>3, <1>4, <1>6
  <2>2. CASE j \in DOMAIN seen[s]
    <3>1. seen[s][j] = "settled" /\ \E l \in Lanes : s \in Speaks[l] /\ reaper[l] = "over"
      BY <1>4, <2>1, <2>2 DEF LastButTheReapers
    <3> QED
      BY <1>3, <1>6, <2>2, <3>1
  <2>3. CASE j = Len(seen[s]) + 1
    BY <1>3, <1>6, <2>1, <2>3 DEF Closed
  <2> QED
    BY <1>3, <1>6, <2>2, <2>3
<1> QED
  BY <1>1, <1>5, <1>6 DEF Told

LEMMA LastStep ==
  ASSUME NodeInv, NodeNext
  PROVE  LastButTheReapers'
<1> USE DEF NodeInv
<1>0. /\ Streams \subseteq Told /\ None \in Told /\ \A c \in Channels : Speaks[c] \subseteq Told
      /\ Spoken \subseteq Kinds \ {"closed"} /\ {"notice", "closed", "settled", "event"} \subseteq Kinds
  BY SpokenAreStreams DEF Told, Kinds, Spoken
<1>1. ASSUME UNCHANGED seen, \A l \in Lanes : reaper[l] = "over" => reaper'[l] = "over"
      PROVE  LastButTheReapers'
  BY <1>1 DEF LastButTheReapers
<1>2. ASSUME NEW l \in Lanes, Subscribe(l) \/ (\E kind, stream : Send(l, kind, stream)) \/ Die(l) \/ Drain(l)
      PROVE  LastButTheReapers'
  BY <1>1, <1>2 DEF Subscribe, Send, Die, Drain, tableVars, outVars
<1>3. ASSUME NEW l \in Lanes, Intake(l)
      PROVE  LastButTheReapers'
  <2>1. /\ Head(wire[l]).kind \in Kinds /\ Head(wire[l]).stream \in Speaks[l]
        /\ Head(wire[l]).stream \in Told
        /\ Dispatch(Frame(Head(wire[l]).kind, Head(wire[l]).stream, Head(wire[l]).by, Head(wire[l]).number), l, "remote")
        /\ UNCHANGED reaper /\ reader[l] = "reading"
    BY <1>0, <1>3, NextFrame, LanesAreChannels DEF Intake
  <2>2. ~Closed(Head(wire[l]).stream)
    BY <2>1 DEF CloseInv
  <2> QED
    BY <2>1, <2>2, TellKeepsLast
<1>4. CASE Emit
  <2>1. \E s \in Speaks[Host] : Dispatch(Frame("event", s, Host, sent[Host] + 1), None, "local")
    BY <1>4 DEF Emit
  <2>2. \A s \in Speaks[Host] : ~Closed(s) /\ s \in Told
    BY <1>0, LanesAreChannels DEF CloseInv
  <2> QED
    BY <1>0, <1>4, <2>1, <2>2, TellKeepsLast DEF Emit
<1>5. ASSUME NEW s \in Streams, CommandMisses(s)
      PROVE  LastButTheReapers'
  <2>1. Dispatch(Frame("notice", None, None, 0), None, "local") /\ UNCHANGED reaper
    BY <1>5 DEF CommandMisses, tableVars, Word
  <2>2. UNCHANGED seen \/ \A r \in Streams : seen'[r] = seen[r]
    BY <1>0, <2>1, DispatchTells, StreamsAssumption
  <2> QED
    BY <2>1, <2>2 DEF LastButTheReapers
<1>6. ASSUME NEW l \in Lanes, Retract(l)
      PROVE  LastButTheReapers'
  <2>1. UNCHANGED reaper /\ reader[l] = "drained"
    BY <1>6 DEF Retract
  <2>2. CASE question[l] = None
    BY <1>1, <1>6, <2>1, <2>2 DEF Retract, outVars
  <2>3. CASE question[l] # None
    <3>1. /\ Dispatch(Frame("settled", question[l], None, 0), None, "local")
          /\ question[l] \in Speaks[l] /\ question[l] \in Told
      BY <1>0, <1>6, <2>3, LanesAreChannels DEF Retract, TableInv, Word
    <3>2. ~Closed(question[l])
      BY <2>1, <3>1 DEF CloseInv
    <3> QED
      BY <1>0, <2>1, <3>1, <3>2, TellKeepsLast
  <2> QED
    BY <2>2, <2>3
<1>7. ASSUME NEW l \in Lanes, NEW s \in Streams, CloseStream(l, s)
      PROVE  LastButTheReapers'
  <2>1. s \in stamps[l] /\ s \in Speaks[l] /\ Dispatch(Frame("closed", s, None, 0), l, "remote") /\ UNCHANGED reaper
    BY <1>7 DEF CloseStream, TableInv, Word
  <2>2. ~Closed(s)
    BY <2>1 DEF CloseInv
  <2> QED
    BY <1>0, <2>1, <2>2, TellKeepsLast
<1>8. ASSUME NEW l \in Lanes, Reap(l)
      PROVE  LastButTheReapers'
  <2>1. /\ UNCHANGED seen /\ reaper[l] = "waiting"
        /\ \A k \in Lanes : k # l => reaper'[k] = reaper[k]
    BY <1>8 DEF Reap, outVars, TableInv
  <2> QED
    BY <1>1, <2>1
<1>9. ASSUME NEW l \in Lanes, ReapAnnounces(l)
      PROVE  LastButTheReapers'
  <2>1. /\ reaper[l] \in Speaks[l] /\ reaper[l] \in Told
        /\ \A k \in Lanes : reaper'[k] = IF k = l THEN "over" ELSE reaper[k]
        /\ Dispatch(Frame("settled", reaper[l], None, 0), None, "local")
    BY <1>0, <1>9, StreamsAssumption DEF ReapAnnounces, TableInv, Word
  <2> QED
    BY <1>0, <2>1, TellKeepsLast
<1>10. ASSUME NEW l \in Lanes, Speak(l) \/ AskUp(l) \/ SettleUp(l)
       PROVE  LastButTheReapers'
  BY <1>2, <1>10, SendsItsOwn
<1> HIDE DEF NodeInv
<1> QED
  BY <1>2, <1>3, <1>4, <1>5, <1>6, <1>7, <1>8, <1>9, <1>10, Zenon DEF NodeNext, Reader

\* Handing on the channel's next frame keeps what was handed first, whole and in order.
LEMMA HandsTheNext ==
  ASSUME HandedInv, NEW c \in Channels, NEW number \in Nat, number = Len(handed[Frontend][c]) + 1,
         NEW skip, Hands(c, number, skip)
  PROVE  /\ \A d \in Channels : \A i \in DOMAIN handed'[Frontend][d] : handed'[Frontend][d][i] = i
         /\ Len(handed'[Frontend][c]) = Len(handed[Frontend][c]) + 1
         /\ \A d \in Channels \ {c} : handed'[Frontend][d] = handed[Frontend][d]
         /\ \A l \in Lanes, d \in Channels \ {c} : handed'[l][d] = handed[l][d]
         /\ \A l \in Lanes, d \in Channels :
              /\ Rising(handed'[l][d])
              /\ \A i \in DOMAIN handed'[l][d] : handed'[l][d][i] <= Len(handed'[Frontend][d])
<1>1. \A h \in Lanes \cup {Frontend} : handed[h] \in [Channels -> Seq(Nat)] /\ handed[h][c] \in Seq(Nat)
  BY DEF HandedInv
<1>2. ASSUME NEW h \in Lanes \cup {Frontend}
      PROVE  /\ Append(handed[h][c], number) \in Seq(Nat)
             /\ Append(handed[h][c], number)[Len(handed[h][c]) + 1] = number
             /\ DOMAIN Append(handed[h][c], number) = DOMAIN handed[h][c] \cup {Len(handed[h][c]) + 1}
             /\ \A i \in DOMAIN handed[h][c] :
                  Append(handed[h][c], number)[i] = handed[h][c][i] /\ i < Len(handed[h][c]) + 1
             /\ Len(Append(handed[h][c], number)) = Len(handed[h][c]) + 1
             /\ Len(handed[h][c]) \in Nat
  <2> DEFINE q == handed[h][c]
  <2>1. q \in Seq(Nat)
    BY <1>1
  <2> HIDE DEF q
  <2>2. Len(Append(q, number)) = Len(q) + 1 /\ Len(q) \in Nat
    BY <2>1
  <2>3. /\ Append(q, number) \in Seq(Nat) /\ Append(q, number)[Len(q) + 1] = number
        /\ DOMAIN Append(q, number) = DOMAIN q \cup {Len(q) + 1}
        /\ \A i \in DOMAIN q : Append(q, number)[i] = q[i] /\ i < Len(q) + 1
    BY <2>1, Appended
  <2> QED
    BY <2>2, <2>3 DEF q
<1>3. Frontend \in Lanes \cup {Frontend}
  OBVIOUS
<1>4. /\ handed'[Frontend][c] = Append(handed[Frontend][c], number)
      /\ \A d \in Channels \ {c} : handed'[Frontend][d] = handed[Frontend][d]
  BY <1>1 DEF Hands
<1>5. \A l \in Lanes : /\ handed'[l][c] \in {handed[l][c], Append(handed[l][c], number)}
                       /\ \A d \in Channels \ {c} : handed'[l][d] = handed[l][d]
  <2>1. SUFFICES ASSUME NEW l \in Lanes
                 PROVE  /\ handed'[l][c] \in {handed[l][c], Append(handed[l][c], number)}
                        /\ \A d \in Channels \ {c} : handed'[l][d] = handed[l][d]
    OBVIOUS
  <2>2. handed[l] \in [Channels -> Seq(Nat)]
    BY <1>1
  <2>3. handed'[l] = handed[l] \/ handed'[l] = [handed[l] EXCEPT ![c] = Append(handed[l][c], number)]
    BY DEF Hands
  <2> QED
    BY <2>2, <2>3
<1>6. Len(handed'[Frontend][c]) = Len(handed[Frontend][c]) + 1
  BY <1>2, <1>3, <1>4
<1>7. \A i \in DOMAIN handed'[Frontend][c] : handed'[Frontend][c][i] = i
  <2>1. \A i \in DOMAIN handed[Frontend][c] : handed[Frontend][c][i] = i
    BY DEF HandedInv
  <2> QED
    BY <1>2, <1>3, <1>4, <2>1
<1>8. \A d \in Channels : \A i \in DOMAIN handed'[Frontend][d] : handed'[Frontend][d][i] = i
  <2>1. \A d \in Channels \ {c} : \A i \in DOMAIN handed'[Frontend][d] : handed'[Frontend][d][i] = i
    BY <1>4 DEF HandedInv
  <2> QED
    BY <1>7, <2>1
<1>9. ASSUME NEW l \in Lanes
      PROVE  /\ Rising(handed'[l][c])
             /\ \A i \in DOMAIN handed'[l][c] : handed'[l][c][i] <= Len(handed'[Frontend][c])
  <2>1. /\ Rising(handed[l][c]) /\ \A i \in DOMAIN handed[l][c] : handed[l][c][i] <= Len(handed[Frontend][c])
        /\ \A i \in DOMAIN handed[l][c] : i \in Nat /\ handed[l][c][i] \in Nat
    BY <1>1 DEF HandedInv
  <2>2. \A i \in DOMAIN handed[l][c] : handed[l][c][i] < number
    BY <1>2, <1>3, <2>1
  <2>3. CASE handed'[l][c] = handed[l][c]
    BY <1>2, <1>3, <1>6, <2>1, <2>3
  <2>4. CASE handed'[l][c] = Append(handed[l][c], number)
    <3>1. Rising(Append(handed[l][c], number))
      BY <1>2, <2>1, <2>2 DEF Rising
    <3>2. \A i \in DOMAIN Append(handed[l][c], number) : Append(handed[l][c], number)[i] <= number
      BY <1>2, <2>1, <2>2
    <3> QED
      BY <1>6, <2>4, <3>1, <3>2
  <2> QED
    BY <1>5, <2>3, <2>4
<1>10. \A l \in Lanes, d \in Channels :
         /\ Rising(handed'[l][d])
         /\ \A i \in DOMAIN handed'[l][d] : handed'[l][d][i] <= Len(handed'[Frontend][d])
  <2>1. ASSUME NEW l \in Lanes, NEW d \in Channels, d # c
        PROVE  /\ Rising(handed'[l][d])
               /\ \A i \in DOMAIN handed'[l][d] : handed'[l][d][i] <= Len(handed'[Frontend][d])
    <3>1. handed'[l][d] = handed[l][d] /\ handed'[Frontend][d] = handed[Frontend][d]
      BY <1>4, <1>5, <2>1
    <3> QED
      BY <3>1 DEF HandedInv
  <2> QED
    BY <1>9, <2>1
<1> QED
  BY <1>4, <1>5, <1>6, <1>8, <1>10

\* What a step leaves alone when it hands nothing on and sends nothing.
LEMMA HandedStays ==
  ASSUME HandedInv, UNCHANGED <<handed, sent, wire>>, Everything \in subs'
  PROVE  HandedInv'
BY DEF HandedInv, Rising

LEMMA HandedStep ==
  ASSUME NodeInv, NodeNext
  PROVE  HandedInv'
<1> USE DEF NodeInv
<1>1. Everything \in subs /\ handed \in [Lanes \cup {Frontend} -> [Channels -> Seq(Nat)]]
  BY DEF HandedInv
<1>2. ASSUME NEW l \in Lanes, Subscribe(l) \/ Die(l) \/ Drain(l) \/ Reap(l)
      PROVE  HandedInv'
  <2>1. UNCHANGED <<handed, sent, wire>>
    BY <1>2 DEF Subscribe, Die, Drain, Reap, outVars, laneVars
  <2>2. subs \subseteq subs'
    BY <1>2 DEF Subscribe, Register, Die, Drain, Reap, tableVars
  <2> QED
    BY <1>1, <2>1, <2>2, HandedStays
<1>3. ASSUME NEW l \in Lanes, NEW kind \in Spoken, NEW stream \in Speaks[l], Send(l, kind, stream)
      PROVE  HandedInv'
  <2> DEFINE frame == Frame(kind, stream, l, sent[l] + 1)
  <2>1. /\ sent' = [sent EXCEPT ![l] = @ + 1] /\ wire' = [wire EXCEPT ![l] = Append(@, frame)]
        /\ UNCHANGED <<subs, handed>> /\ l \in Channels /\ l # Host
    BY <1>3, LanesAreChannels, ChannelsAssumption DEF Send, tableVars, outVars
  <2>2. frame \in Carried /\ frame.number = sent[l] + 1
    BY <2>1, SpokenAreStreams DEF Frame, Carried, LaneInv
  <2> HIDE DEF frame
  <2>3. /\ wire[l] \in Seq(Carried) /\ sent[l] \in Nat
        /\ sent[l] = Len(handed[Frontend][l]) + Len(wire[l]) /\ Len(handed[Frontend][l]) \in Nat
    BY <1>1, <2>1 DEF LaneInv, HandedInv
  <2>4. /\ Append(wire[l], frame)[Len(wire[l]) + 1] = frame
        /\ DOMAIN Append(wire[l], frame) = DOMAIN wire[l] \cup {Len(wire[l]) + 1}
        /\ \A i \in DOMAIN wire[l] : Append(wire[l], frame)[i] = wire[l][i]
    BY <2>2, <2>3, Appended
  <2>5. Len(Append(wire[l], frame)) = Len(wire[l]) + 1 /\ Len(wire[l]) \in Nat
    BY <2>3
  <2>6. /\ wire'[l] = Append(wire[l], frame) /\ sent'[l] = sent[l] + 1 /\ sent'[Host] = sent[Host]
        /\ \A k \in Lanes \ {l} : wire'[k] = wire[k] /\ sent'[k] = sent[k]
    BY <2>1, LanesAreChannels DEF LaneInv
  <2>7. \A i \in DOMAIN wire[l] : wire[l][i].number = Len(handed[Frontend][l]) + i
    BY DEF HandedInv
  <2> DEFINE told == Len(handed[Frontend][l])
             left == Len(wire[l])
  <2>8. told + Len(wire'[l]) = sent'[l]
    <3>1. Len(wire'[l]) = left + 1 /\ sent'[l] = sent[l] + 1
      BY <2>5, <2>6
    <3>2. sent[l] = told + left /\ told \in Nat /\ left \in Nat
      BY <2>3, <2>5
    <3> HIDE DEF told, left
    <3> QED
      BY <3>1, <3>2
  <2>9. \A i \in DOMAIN wire'[l] : wire'[l][i].number = Len(handed[Frontend][l]) + i
    <3>1. SUFFICES ASSUME NEW i \in DOMAIN wire'[l] PROVE wire'[l][i].number = Len(handed[Frontend][l]) + i
      OBVIOUS
    <3>2. CASE i \in DOMAIN wire[l]
      BY <2>4, <2>6, <2>7, <3>2
    <3>3. CASE i = Len(wire[l]) + 1
      <4>1. wire'[l][i] = frame
        BY <2>4, <2>6, <3>3
      <4>2. wire'[l][i].number = sent[l] + 1 /\ i = left + 1
        BY <2>2, <3>3, <4>1
      <4>3. sent[l] = told + left /\ told \in Nat /\ left \in Nat
        BY <2>3, <2>5
      <4>4. wire'[l][i].number = told + i
        <5> HIDE DEF told, left
        <5> QED
          BY <4>2, <4>3
      <4> QED
        BY <4>4
    <3> QED
      BY <2>4, <2>6, <3>1, <3>2, <3>3
  <2>10. handed' = handed /\ subs' = subs
    BY <2>1
  <2>11. ASSUME NEW k \in Lanes
         PROVE  /\ Len(handed'[Frontend][k]) + Len(wire'[k]) = sent'[k]
                /\ \A i \in DOMAIN wire'[k] : wire'[k][i].number = Len(handed'[Frontend][k]) + i
                /\ handed'[k][k] = <<>>
    <3>1. handed'[k][k] = <<>>
      BY <2>10 DEF HandedInv
    <3>2. CASE k = l
      BY <2>8, <2>9, <2>10, <3>1, <3>2
    <3>3. CASE k # l
      <4>1. wire'[k] = wire[k] /\ sent'[k] = sent[k]
        BY <2>6, <3>3
      <4>2. /\ Len(handed[Frontend][k]) + Len(wire[k]) = sent[k]
            /\ \A i \in DOMAIN wire[k] : wire[k][i].number = Len(handed[Frontend][k]) + i
        BY DEF HandedInv
      <4> QED
        BY <2>10, <3>1, <4>1, <4>2
    <3> QED
      BY <3>2, <3>3
  <2>12. Len(handed'[Frontend][Host]) = sent'[Host]
    BY <2>6, <2>10 DEF HandedInv
  <2>13. HandedInv
    OBVIOUS
  <2> HIDE DEF NodeInv
  <2> QED
    BY <2>10, <2>11, <2>12, <2>13 DEF HandedInv
<1>4. ASSUME NEW l \in Lanes, Intake(l)
      PROVE  HandedInv'
  <2> DEFINE head == Head(wire[l])
  <2>1. /\ wire[l] # <<>> /\ wire' = [wire EXCEPT ![l] = Tail(@)] /\ UNCHANGED <<sent, subs>>
        /\ Dispatch(head, l, "remote")
    BY <1>4 DEF Intake
  <2>2. wire[l] \in Seq(Carried) /\ l \in Channels /\ Len(handed[Frontend][l]) \in Nat
    BY <1>1, LanesAreChannels DEF LaneInv
  <2>3. /\ head = wire[l][1] /\ 1 \in DOMAIN wire[l] /\ head \in Carried
        /\ \A i \in DOMAIN Tail(wire[l]) : Tail(wire[l])[i] = wire[l][i + 1] /\ i + 1 \in DOMAIN wire[l]
    BY <2>1, <2>2, HeadAndTail, Zenon
  <2>4. \A i \in DOMAIN wire[l] : wire[l][i].number = Len(handed[Frontend][l]) + i
    BY DEF HandedInv
  <2>5. head.number = Len(handed[Frontend][l]) + 1 /\ head.number \in Nat
    BY <2>2, <2>3, <2>4
  <2>6. head = Frame(head.kind, head.stream, l, head.number)
    BY <2>1, NextFrame
  <2> HIDE DEF head
  <2>7. Hands(l, head.number, l)
    <3>1. Dispatch(Frame(head.kind, head.stream, l, head.number), l, "remote")
      BY <2>1, <2>6
    <3>2. l \in Lanes \cup {None} /\ HandedInv /\ TableInv
      OBVIOUS
    <3> QED
      BY <2>2, <2>5, <3>1, <3>2, DispatchHands
  <2>8. /\ \A d \in Channels : \A i \in DOMAIN handed'[Frontend][d] : handed'[Frontend][d][i] = i
        /\ Len(handed'[Frontend][l]) = Len(handed[Frontend][l]) + 1
        /\ \A d \in Channels \ {l} : handed'[Frontend][d] = handed[Frontend][d]
        /\ \A k \in Lanes, d \in Channels \ {l} : handed'[k][d] = handed[k][d]
        /\ \A k \in Lanes, d \in Channels :
              /\ Rising(handed'[k][d])
              /\ \A i \in DOMAIN handed'[k][d] : handed'[k][d][i] <= Len(handed'[Frontend][d])
    BY <2>2, <2>5, <2>7, HandsTheNext
  <2>9. /\ wire'[l] = Tail(wire[l]) /\ \A k \in Lanes \ {l} : wire'[k] = wire[k]
        /\ Len(wire'[l]) = Len(wire[l]) - 1 /\ Len(wire[l]) \in Nat
    <3>1. wire'[l] = Tail(wire[l]) /\ \A k \in Lanes \ {l} : wire'[k] = wire[k]
      BY <2>1 DEF LaneInv
    <3>2. Len(Tail(wire[l])) = Len(wire[l]) - 1 /\ Len(wire[l]) \in Nat
      BY <2>1, <2>2
    <3> QED
      BY <3>1, <3>2
  <2>10. \A k \in Lanes : Len(handed[Frontend][k]) + Len(wire[k]) = sent[k]
    BY DEF HandedInv
  <2>11. /\ Len(handed'[Frontend][l]) + Len(wire'[l]) = sent'[l]
         /\ \A i \in DOMAIN wire'[l] : wire'[l][i].number = Len(handed'[Frontend][l]) + i
    <3>1. sent'[l] = sent[l] /\ Len(handed'[Frontend][l]) = Len(handed[Frontend][l]) + 1
      BY <2>1, <2>8
    <3> DEFINE told == Len(handed[Frontend][l])
               left == Len(wire[l])
    <3>2. Len(handed'[Frontend][l]) + Len(wire'[l]) = sent'[l]
      <4>1. told + left = sent[l] /\ told \in Nat /\ left \in Nat
        BY <2>2, <2>9, <2>10
      <4>2. Len(handed'[Frontend][l]) = told + 1 /\ Len(wire'[l]) = left - 1
        BY <2>9, <3>1
      <4> HIDE DEF told, left
      <4> QED
        BY <3>1, <4>1, <4>2
    <3>3. DOMAIN wire'[l] = DOMAIN Tail(wire[l]) /\ \A i \in DOMAIN Tail(wire[l]) : i \in Nat
      BY <2>1, <2>2, <2>9
    <3>4. ASSUME NEW i \in DOMAIN wire'[l]
          PROVE  wire'[l][i].number = Len(handed'[Frontend][l]) + i
      <4>1. wire'[l][i] = wire[l][i + 1] /\ i + 1 \in DOMAIN wire[l] /\ i \in Nat
        BY <2>3, <2>9, <3>3
      <4>2. wire[l][i + 1].number = Len(handed[Frontend][l]) + (i + 1)
        BY <2>4, <4>1
      <4>3. wire'[l][i].number = told + (i + 1) /\ told \in Nat /\ Len(handed'[Frontend][l]) = told + 1
        BY <2>2, <3>1, <4>1, <4>2
      <4> HIDE DEF told
      <4> QED
        BY <4>1, <4>3
    <3> QED
      BY <3>2, <3>4
  <2>12. ASSUME NEW k \in Lanes
         PROVE  /\ Len(handed'[Frontend][k]) + Len(wire'[k]) = sent'[k]
                /\ \A i \in DOMAIN wire'[k] : wire'[k][i].number = Len(handed'[Frontend][k]) + i
                /\ handed'[k][k] = <<>>
    <3>1. CASE k = l
      <4>1. handed'[l][l] = <<>>
        BY <2>7 DEF HandedInv, Hands
      <4> QED
        BY <2>11, <3>1, <4>1
    <3>2. CASE k # l
      <4>1. /\ handed'[Frontend][k] = handed[Frontend][k] /\ wire'[k] = wire[k] /\ sent'[k] = sent[k]
            /\ handed'[k][k] = handed[k][k]
        BY <2>1, <2>8, <2>9, <3>2, LanesAreChannels
      <4>2. /\ Len(handed[Frontend][k]) + Len(wire[k]) = sent[k]
            /\ \A i \in DOMAIN wire[k] : wire[k][i].number = Len(handed[Frontend][k]) + i
            /\ handed[k][k] = <<>>
        BY DEF HandedInv
      <4> QED
        BY <4>1, <4>2
    <3> QED
      BY <3>1, <3>2
  <2>13. Len(handed'[Frontend][Host]) = sent'[Host]
    BY <2>1, <2>8, LanesAreChannels, ChannelsAssumption DEF HandedInv
  <2> QED
    BY <1>1, <2>1, <2>7, <2>8, <2>12, <2>13 DEF HandedInv, Hands
<1>5. CASE Emit
  <2>1. /\ sent' = [sent EXCEPT ![Host] = @ + 1] /\ UNCHANGED <<wire, subs>>
        /\ \E s \in Speaks[Host] : Dispatch(Frame("event", s, Host, sent[Host] + 1), None, "local")
    BY <1>5 DEF Emit
  <2>2. sent[Host] = Len(handed[Frontend][Host]) /\ sent[Host] \in Nat /\ Host \in Channels
    BY LanesAreChannels DEF HandedInv, LaneInv
  <2> DEFINE next == sent[Host] + 1
  <2>3. next \in Nat /\ next = Len(handed[Frontend][Host]) + 1
    BY <2>2
  <2>4. \E s \in Speaks[Host] : Dispatch(Frame("event", s, Host, next), None, "local")
    BY <2>1
  <2>5. sent'[Host] = next /\ \A k \in Lanes : sent'[k] = sent[k]
    BY <2>1, LanesAreChannels, ChannelsAssumption DEF LaneInv
  <2> HIDE DEF next
  <2>6. Hands(Host, next, None)
    <3>1. None \in Lanes \cup {None} /\ HandedInv /\ TableInv
      OBVIOUS
    <3> QED
      BY <2>2, <2>3, <2>4, <3>1, DispatchHands
  <2>7. /\ \A d \in Channels : \A i \in DOMAIN handed'[Frontend][d] : handed'[Frontend][d][i] = i
        /\ Len(handed'[Frontend][Host]) = Len(handed[Frontend][Host]) + 1
        /\ \A d \in Channels \ {Host} : handed'[Frontend][d] = handed[Frontend][d]
        /\ \A k \in Lanes, d \in Channels \ {Host} : handed'[k][d] = handed[k][d]
        /\ \A k \in Lanes, d \in Channels :
              /\ Rising(handed'[k][d])
              /\ \A i \in DOMAIN handed'[k][d] : handed'[k][d][i] <= Len(handed'[Frontend][d])
    BY <2>2, <2>3, <2>6, HandsTheNext
  <2>8. \A k \in Lanes : k \in Channels \ {Host}
    BY LanesAreChannels, ChannelsAssumption
  <2>9. ASSUME NEW k \in Lanes
        PROVE  /\ Len(handed'[Frontend][k]) + Len(wire'[k]) = sent'[k]
               /\ \A i \in DOMAIN wire'[k] : wire'[k][i].number = Len(handed'[Frontend][k]) + i
               /\ handed'[k][k] = <<>>
    <3>2. /\ handed'[Frontend][k] = handed[Frontend][k] /\ handed'[k][k] = handed[k][k]
          /\ wire'[k] = wire[k] /\ sent'[k] = sent[k]
      BY <2>1, <2>5, <2>7, <2>8
    <3>3. /\ Len(handed[Frontend][k]) + Len(wire[k]) = sent[k]
          /\ \A i \in DOMAIN wire[k] : wire[k][i].number = Len(handed[Frontend][k]) + i
          /\ handed[k][k] = <<>>
      BY DEF HandedInv
    <3> QED
      BY <3>2, <3>3
  <2> QED
    BY <1>1, <2>1, <2>2, <2>3, <2>5, <2>6, <2>7, <2>9 DEF HandedInv, Hands
<1>6. ASSUME UNCHANGED handed, UNCHANGED laneVars, UNCHANGED subs
      PROVE  HandedInv'
  BY <1>1, <1>6, HandedStays DEF laneVars
<1>7. ASSUME NEW s \in Streams, CommandMisses(s) \/ \E l \in Lanes : CloseStream(l, s)
      PROVE  HandedInv'
  <2>1. UNCHANGED <<laneVars, subs>>
    BY <1>7 DEF CommandMisses, CloseStream, tableVars
  <2>2. \E kind, stream, skip, door : Dispatch(Frame(kind, stream, None, 0), skip, door)
    BY <1>7 DEF CommandMisses, CloseStream, Word
  <2> QED
    BY <1>6, <2>1, <2>2, WordHandsNothing
<1>8. ASSUME NEW l \in Lanes, Retract(l)
      PROVE  HandedInv'
  <2>1. UNCHANGED laneVars /\ subs' = Registrations(l)
    BY <1>8 DEF Retract
  <2>2. Everything \in subs'
    BY <1>1, <2>1, ChannelsAssumption DEF Registrations, Everything
  <2>3. UNCHANGED handed
    <3>1. CASE question[l] = None
      BY <1>8, <3>1 DEF Retract, outVars
    <3>2. CASE question[l] # None
      <4>1. Dispatch(Frame("settled", question[l], None, 0), None, "local")
        BY <1>8, <3>2 DEF Retract, Word
      <4> QED
        BY <4>1, WordHandsNothing
    <3> QED
      BY <3>1, <3>2
  <2> QED
    BY <2>1, <2>2, <2>3, HandedStays DEF laneVars
<1>9. ASSUME NEW l \in Lanes, ReapAnnounces(l)
      PROVE  HandedInv'
  <2>1. UNCHANGED <<laneVars, subs>> /\ Dispatch(Frame("settled", reaper[l], None, 0), None, "local")
    BY <1>9 DEF ReapAnnounces, Word
  <2> QED
    BY <1>6, <2>1, WordHandsNothing
<1>10. ASSUME NEW l \in Lanes, Speak(l) \/ AskUp(l) \/ SettleUp(l)
       PROVE  HandedInv'
  BY <1>3, <1>10, SendsItsOwn
<1> HIDE DEF NodeInv
<1> QED
  BY <1>2, <1>4, <1>5, <1>7, <1>8, <1>9, <1>10, Zenon DEF NodeNext, Reader

LEMMA NodeStep == NodeInv /\ (NodeNext \/ UNCHANGED nodeVars) => NodeInv'
<1>1. ASSUME NodeInv, UNCHANGED nodeVars PROVE NodeInv'
  <2> USE <1>1 DEF nodeVars, laneVars, tableVars, outVars, NodeInv
  <2>1. LaneInv' /\ TableInv'
    BY DEF LaneInv, TableInv
  <2>2. DeadInv'
    BY DEF DeadInv
  <2>3. CloseInv' /\ LastButTheReapers'
    BY DEF CloseInv, Closed, LastButTheReapers
  <2>4. HandedInv'
    BY HandedStays DEF HandedInv
  <2> QED
    BY <2>1, <2>2, <2>3, <2>4
<1> QED
  BY <1>1, LaneStep, TableStep, DeadStep, CloseStep, LastStep, HandedStep DEF NodeInv

LEMMA Concatenated ==
  ASSUME NEW S, NEW q \in Seq(S), NEW r \in Seq(S)
  PROVE  q \o r = [i \in 1..(Len(q) + Len(r)) |-> IF i <= Len(q) THEN q[i] ELSE r[i - Len(q)]]
<1> DEFINE whole == [i \in 1..(Len(q) + Len(r)) |-> IF i <= Len(q) THEN q[i] ELSE r[i - Len(q)]]
<1>1. /\ q \o r \in Seq(S) /\ Len(q \o r) = Len(q) + Len(r)
      /\ \A i \in 1..(Len(q) + Len(r)) : (q \o r)[i] = IF i <= Len(q) THEN q[i] ELSE r[i - Len(q)]
  BY ConcatProperties
<1>2. Len(q) \in Nat /\ Len(r) \in Nat
  OBVIOUS
<1>3. whole \in Seq(S) /\ Len(whole) = Len(q) + Len(r)
  <2>1. \A i \in 1..(Len(q) + Len(r)) : (IF i <= Len(q) THEN q[i] ELSE r[i - Len(q)]) \in S
    OBVIOUS
  <2> QED
    BY <1>2, <2>1
<1>4. \A i \in 1..Len(q \o r) : (q \o r)[i] = whole[i]
  BY <1>1
<1>5. Len(q \o r) = Len(whole)
  BY <1>1, <1>3
<1>6. \A a, b \in Seq(S) : Len(a) = Len(b) /\ (\A i \in 1..Len(a) : a[i] = b[i]) => a = b
  BY SeqEqual
<1> HIDE DEF whole
<1>7. q \o r = whole
  BY <1>1, <1>3, <1>4, <1>5, <1>6, Zenon
<1> QED
  BY <1>7 DEF whole

\* What the frontend was handed and what the pipe holds are the channel's frames.
LEMMA HandedIsAll == NodeInv => AllIsHanded /\ HandedOnce /\ NoEcho
<1> SUFFICES ASSUME NodeInv PROVE AllIsHanded /\ HandedOnce /\ NoEcho
  OBVIOUS
<1> USE DEF NodeInv
<1>1. HandedOnce /\ NoEcho
  BY DEF HandedInv, HandedOnce, NoEcho, Rising
<1>2. ASSUME NEW c \in Channels
      PROVE  handed[Frontend][c] \o Unread(c) = [n \in 1..sent[c] |-> n]
  <2> DEFINE told == handed[Frontend][c]
             left == Unread(c)
  <2>1. told \in Seq(Nat) /\ \A i \in DOMAIN told : told[i] = i
    BY DEF HandedInv
  <2>2. /\ left \in Seq(Nat) /\ Len(told) + Len(left) = sent[c]
        /\ \A i \in DOMAIN left : left[i] = Len(told) + i
    <3>1. CASE c = Host
      <4>1. left = <<>> /\ Len(told) = sent[c] /\ sent[c] \in Nat
        BY <3>1 DEF Unread, HandedInv, LaneInv
      <4> QED
        BY <2>1, <4>1
    <3>2. CASE c \in Lanes
      <4>1. c # Host /\ wire[c] \in Seq(Carried)
        BY <3>2, ChannelsAssumption DEF LaneInv
      <4>2. left = [i \in DOMAIN wire[c] |-> wire[c][i].number]
        BY <4>1 DEF Unread
      <4>3. \A i \in DOMAIN wire[c] : wire[c][i] \in Carried
        BY <4>1
      <4>4. \A i \in DOMAIN wire[c] : wire[c][i].number \in Nat
        BY <4>3 DEF Carried
      <4>5. DOMAIN wire[c] = 1..Len(wire[c]) /\ Len(wire[c]) \in Nat
        BY <4>1
      <4>6. left \in Seq(Nat) /\ Len(left) = Len(wire[c]) /\ DOMAIN left = DOMAIN wire[c]
        BY <4>2, <4>4, <4>5
      <4>7. /\ Len(told) + Len(wire[c]) = sent[c]
            /\ \A i \in DOMAIN wire[c] : wire[c][i].number = Len(told) + i
        BY <3>2 DEF HandedInv
      <4> QED
        BY <4>2, <4>6, <4>7
    <3> QED
      BY <3>1, <3>2 DEF Channels
  <2> HIDE DEF told, left
  <2>3. told \o left = [i \in 1..(Len(told) + Len(left)) |-> IF i <= Len(told) THEN told[i] ELSE left[i - Len(told)]]
    BY <2>1, <2>2, Concatenated
  <2>4. ASSUME NEW i \in 1..(Len(told) + Len(left))
        PROVE  (IF i <= Len(told) THEN told[i] ELSE left[i - Len(told)]) = i
    <3>1. CASE i <= Len(told)
      <4>1. i \in DOMAIN told
        BY <2>1, <2>2, <3>1
      <4> QED
        BY <2>1, <3>1, <4>1
    <3>2. CASE ~(i <= Len(told))
      <4>1. i - Len(told) \in DOMAIN left /\ Len(told) + (i - Len(told)) = i
        BY <2>1, <2>2, <3>2
      <4> QED
        BY <2>2, <3>2, <4>1
    <3> QED
      BY <3>1, <3>2
  <2>5. told \o left = [n \in 1..(Len(told) + Len(left)) |-> n]
    BY <2>3, <2>4
  <2> QED
    BY <2>2, <2>5 DEF told, left
<1> QED
  BY <1>1, <1>2 DEF AllIsHanded

\* The invariant says of a node what the run checks.
LEMMA NodeHolds == NodeInv => FramesReachOnce
<1> SUFFICES ASSUME NodeInv PROVE FramesReachOnce
  OBVIOUS
<1> USE DEF NodeInv
<1>1. NodeTypeOK
  <2>1. \A c \in Channels : sent[c] \in 0..MaxFrames[c]
    BY FramesAreBounded DEF LaneInv
  <2>2. \A sub \in subs : sub.channel \in Lanes \cup {Frontend}
    BY DEF TableInv, Everything, Watch
  <2>3. ASSUME NEW l \in Lanes, reader[l] = "swept"
        PROVE  /\ Watch(l) \notin subs /\ question[l] = None
               /\ \A s \in Streams : learned[s] # l
    <3>1. ASSUME NEW s \in Streams, learned[s] = l
          PROVE  FALSE
      <4>1. PICK c \in Channels : s \in Speaks[c]
        BY OneSpeaker
      <4>2. l = c
        BY <3>1, <4>1, ChannelsAssumption DEF TableInv
      <4> QED
        BY <2>3, <3>1, <4>1, <4>2, ChannelsAssumption DEF DeadInv
    <3> QED
      BY <2>3, <3>1 DEF DeadInv
  <2> QED
    BY <2>1, <2>2, <2>3 DEF NodeTypeOK, LaneInv, TableInv
<1>2. ASSUME NEW s \in Streams, Closed(s)
      PROVE  /\ learned[s] = None
             /\ \E l \in Lanes : s \in Speaks[l] /\ ~process[l] /\ wire[l] = <<>> /\ reader[l] = "swept"
  <2>1. PICK c \in Channels : s \in Speaks[c]
    BY OneSpeaker
  <2>2. c \in Lanes /\ reader[c] = "swept"
    BY <1>2, <2>1 DEF CloseInv, Channels
  <2> QED
    BY <2>1, <2>2 DEF DeadInv
<1>3. ClosedMeansMissed /\ ClosedByItsLane
  <2>1. \A s \in Streams : "closed" \in ToSet(seen[s]) <=> Closed(s)
    BY DEF ToSet, Closed
  <2> QED
    BY <1>2, <2>1 DEF ClosedMeansMissed, ClosedByItsLane
<1>4. ClosesOnce
  <2>1. SUFFICES ASSUME NEW s \in Streams
                 PROVE  Cardinality({i \in DOMAIN seen[s] : seen[s][i] = "closed"}) <= 1
    BY DEF ClosesOnce
  <2> DEFINE closes == {i \in DOMAIN seen[s] : seen[s][i] = "closed"}
  <2>2. \A i, j \in closes : i = j
    BY DEF CloseInv
  <2>3. closes = {} \/ \E i \in closes : closes = {i}
    BY <2>2
  <2> HIDE DEF closes
  <2>4. Cardinality(closes) \in {0, 1}
    BY <2>3, FS_EmptySet, FS_Singleton
  <2> QED
    BY <2>4 DEF closes
<1> QED
  BY <1>1, <1>3, <1>4, HandedIsAll DEF FramesReachOnce

\* Whatever the children say, ask to hear and leave unsaid when they die: the frontend is
\* handed every frame of a channel once and in order, a watching lane each at most once
\* and its own never; a stream is closed once, only by its own lane, dead, read to its end
\* and swept of its registration, route and ask; nothing follows but a settle the reaper
\* owed (node.rs, router.rs).
THEOREM StreamsCloseOnce == Spec => []FramesReachOnce
<1>1. Init => NodeInv
  BY NodeInitInv DEF Init
<1>2. NodeInv /\ [Next]_allVars => NodeInv'
  <2>1. [Next]_allVars => NodeNext \/ UNCHANGED nodeVars
    BY DEF Next, Only, allVars
  <2> QED
    BY <2>1, NodeStep
<1> QED
  BY <1>1, <1>2, NodeHolds, PTL DEF Spec

-----------------------------------------------------------------------------
(* A child's boot                                                          *)

\* The report comes first: nothing crosses before it, and a boot that was named has its
\* frame on the way or across, on a lane that was armed.
BootInv ==
  /\ crossed \in Nat /\ lane \in {"none", "armed", "retracted"} /\ crossing \in BOOLEAN
  /\ reported \in {"nothing", "report", "other version"} /\ (boot = "pending" => reported # "other version")
  /\ lane = "armed" \/ crossed # 0 => reported = "report"
  /\ reported = "report" => lane # "none"
  /\ crossing = TRUE => lane # "retracted"
  /\ boot = "named" => reported = "report" /\ (crossing = TRUE \/ crossed > 0)
  /\ spawner = "serving" => boot = "named"

LEMMA NextIsPositive == \A n \in Nat : n + 1 \in Nat /\ n + 1 # 0 /\ n + 1 > 0
OBVIOUS

LEMMA BootStarts == Boot!BootInit => BootInv
<1> SUFFICES ASSUME Boot!BootInit PROVE BootInv
  OBVIOUS
<1> USE DEF Boot!BootInit
<1>1. crossing = FALSE /\ crossing \in BOOLEAN
  BY Zenon
<1>2. lane = "none" /\ boot = "pending" /\ spawner = "waiting" /\ crossed = 0 /\ reported = "nothing"
  BY Zenon
<1> QED
  BY <1>1, <1>2, SMT DEF BootInv

LEMMA BootMoves == BootInv /\ (Boot!BootNext \/ UNCHANGED bootVars) => BootInv'
<1> SUFFICES ASSUME BootInv, Boot!BootNext \/ UNCHANGED bootVars PROVE BootInv'
  OBVIOUS
<1> USE DEF BootInv, Boot!pumpVars, Boot!Takes, Boot!Resolve
<1>1. CASE Boot!PumpDrops
  BY <1>1 DEF Boot!PumpDrops
<1>2. CASE Boot!PumpReport
  BY <1>2 DEF Boot!PumpReport
<1>3. CASE Boot!PumpControl
  BY <1>3 DEF Boot!PumpControl
<1>4. CASE Boot!PumpStamped
  <2>1. /\ crossing' = TRUE /\ crossing' \in BOOLEAN /\ lane # "retracted"
        /\ UNCHANGED <<reported, lane, crossed, spawner>>
        /\ boot' \in {boot, "named"} /\ (boot' # boot => boot = "pending" /\ reported # "nothing")
    BY <1>4, Zenon DEF Boot!PumpStamped
  <2> QED
    BY <2>1, Zenon
<1>5. CASE Boot!PumpCrosses
  <2>1. /\ crossing = TRUE /\ crossing' = FALSE /\ crossing' \in BOOLEAN
        /\ UNCHANGED <<reported, lane, boot, spawner>>
        /\ crossed' = IF lane = "armed" THEN crossed + 1 ELSE crossed
    BY <1>5, Zenon DEF Boot!PumpCrosses
  <2>2. /\ crossed' \in Nat /\ (lane # "armed" => crossed' = crossed)
        /\ reported = "report" => crossed' > 0
        /\ crossed' # 0 => reported = "report"
    BY <2>1, NextIsPositive, Zenon
  <2> QED
    BY <2>1, <2>2, Zenon
<1>6. CASE Boot!PumpUnstamped
  BY <1>6 DEF Boot!PumpUnstamped
<1>7. CASE Boot!PumpEnds
  BY <1>7 DEF Boot!PumpEnds
<1>8. CASE UNCHANGED Boot!pumpVars /\ (spawner' = spawner \/ spawner' # "serving" \/ boot = "named")
  <2>1. UNCHANGED <<reported, crossing, lane, boot, crossed>>
    BY <1>8, Zenon
  <2> QED
    BY <1>8, <2>1, Zenon
<1>9. Boot!Spawner => UNCHANGED Boot!pumpVars /\ (spawner' # "serving" \/ boot = "named")
  BY Zenon DEF Boot!Spawner, Boot!Booted, Boot!GiveUp, Boot!BootTimeout, Boot!KillNow
<1>10. Boot!ChildExits \/ (\E line \in Boot!Lines : Boot!Write(line)) \/ UNCHANGED bootVars
         => UNCHANGED Boot!pumpVars /\ UNCHANGED spawner
  BY Zenon DEF Boot!ChildExits, Boot!Write, bootVars
<1> QED
  BY <1>1, <1>2, <1>3, <1>4, <1>5, <1>6, <1>7, <1>8, <1>9, <1>10, Zenon DEF Boot!BootNext, Boot!Pump

LEMMA BootHolds == BootInv => Boot!MismatchNeverCrosses /\ Boot!ServingIsMounted
<1>1. (crossing = TRUE \/ crossed > 0) => (crossing \/ crossed > 0)
  BY Zenon
<1>2. BootInv => Boot!MismatchNeverCrosses
  BY DEF BootInv, Boot!MismatchNeverCrosses
<1>3. BootInv => Boot!ServingIsMounted
  BY <1>1, Zenon DEF BootInv, Boot!ServingIsMounted
<1> QED
  BY <1>2, <1>3

-----------------------------------------------------------------------------
(* An extension's guest                                                    *)

Held == {"held", "running", "asking", "buying", "done", "refusing", "untokened"}
Tokened == {"running", "asking", "buying", "done", "refusing", "answered"}
Answered == {"answered", "closing", "over"}
Repeatable == {"answer", "service", "newer"}
Steps == Held \cup Answered \cup {"none", "spawned"}
Openness == {"none", "open", "answered"}
CallOf(id) == <<"call", id>>

GuestTypes ==
  /\ mode \in {"lift", "answerer"} /\ load \in Loads
  /\ inbox \in Seq(Guest!HostLines) /\ asked \subseteq Guest!HostLines
  /\ pipe \in [Guest!GuestLines -> Nat] /\ entry \in [Guest!Questions -> Openness]
  /\ tokens \in [Guest!CallIds -> Invocations \cup {0}] /\ tripped \subseteq Invocations
  /\ task \in [Invocations -> Steps]
  /\ kid \in {"absent", "none", "asking", "settled", "dead"} /\ gone \in {"no", "died", "eof"}

\* What is under way was asked, and a call once, before its task.
InboxInv ==
  /\ \A n \in DOMAIN inbox : inbox[n].type \notin Repeatable => inbox[n] \in asked
  /\ \A n \in DOMAIN inbox : inbox[n].type = "call" =>
       task[inbox[n].of] = "none" /\ \A m \in DOMAIN inbox : inbox[m] = inbox[n] => m = n
  /\ \A i \in Invocations : task[i] # "none" \/ Guest!Line("cancel", i) \in asked => Guest!Line("call", i) \in asked

\* A hold stands from its task's step to its answer, one per id, and a token for its task.
HeldInv ==
  /\ \A i \in Invocations : task[i] \in Held => entry[CallOf(load[i].id)] = "open"
  /\ \A i, j \in Invocations : task[i] \in Held /\ task[j] \in Held /\ load[i].id = load[j].id => i = j
  /\ \A i \in Invocations : entry[CallOf(load[i].id)] # "none" =>
       \E j \in Invocations : load[j].id = load[i].id /\ task[j] \in Held
TokenInv ==
  \A i \in Invocations : LET t == tokens[load[i].id] IN t # 0 => load[t].id = load[i].id /\ task[t] \in Tokened
ResultInv == \A i \in Invocations : pipe[Guest!Line("result", i)] = IF task[i] \in Answered THEN 1 ELSE 0
BuyInv == \A i \in Invocations : entry[Guest!Service(i)] = "open" => task[i] = "buying"
DeathInv == gone = "died" => Guest!Breached
HoldInv == HeldInv /\ TokenInv /\ ResultInv /\ BuyInv /\ DeathInv

\* A question is open between its two lines; a child's card lives as long as the child's ask.
CardOf(i) ==
  LET shown == pipe[Guest!Line("request", i)]
      closed == pipe[Guest!Line("settled", i)]
      card == entry[Guest!Question(i)]
  IN  /\ shown \in {0, 1} /\ (card = "open" => shown = 1) /\ closed = (IF shown = 1 /\ card # "open" THEN 1 ELSE 0)
      /\ task[i] = "over" => card # "open"
KidCard ==
  LET shown == pipe[Guest!Line("request", 0)]
      closed == pipe[Guest!Line("settled", 0)]
  IN  /\ mode = "lift" => shown = (IF kid \in {"absent", "none"} THEN 0 ELSE 1)
                           /\ closed = (IF kid \in {"settled", "dead"} THEN 1 ELSE 0)
      /\ mode = "answerer" => shown = 0 /\ closed \in {0, 1} /\ (kid # "dead" => closed = 0)
      /\ entry[Guest!Question(0)] = "none" <=> kid # "asking"
CardInv ==
  /\ \A i \in Invocations : CardOf(i)
  /\ KidCard
  /\ \A type \in {"request", "settled"} : pipe[Guest!Line(type, -1)] = 0

\* A token that fired was cancelled, as long as the host keeps its word.
TrippedInv ==
  ~Guest!Breached => \A i \in tripped : Guest!Line("cancel", i) \in asked

GuestInv == GuestTypes /\ InboxInv /\ HoldInv /\ CardInv /\ TrippedInv

\* Lines and questions are told apart by what they are made of.
Numbers == Invocations \cup {0, -1}
LineTypes == {"result", "buy", "request", "settled"}

LEMMA NumbersAre ==
  /\ 0 \notin Invocations /\ -1 \notin Invocations /\ 0 # -1
  /\ Numbers = Invocations \cup {Guest!ChildCard, Guest!HostCard} /\ Guest!ChildCard = 0 /\ Guest!HostCard = -1
BY ChildrenAssumption DEF Numbers, Guest!ChildCard, Guest!HostCard

LEMMA LinesAre ==
  /\ \A t, o : Guest!Line(t, o).type = t /\ Guest!Line(t, o).of = o
  /\ \A t, o, u, p : Guest!Line(t, o) = Guest!Line(u, p) <=> t = u /\ o = p
  /\ \A t \in LineTypes, o \in Numbers : Guest!Line(t, o) \in Guest!GuestLines
<1>1. \A t \in LineTypes, o \in Numbers : Guest!Line(t, o) \in Guest!GuestLines
  BY DEF Guest!GuestLines, LineTypes, Numbers, Guest!ChildCard, Guest!HostCard
<1>2. \A t, o, u, p : Guest!Line(t, o) = Guest!Line(u, p) <=> t = u /\ o = p
  BY DEF Guest!Line
<1> QED
  BY <1>1, <1>2 DEF Guest!Line

LEMMA HostLinesAre ==
  \A line \in Guest!HostLines :
    /\ line = Guest!Line(line.type, line.of) /\ line.of \in Numbers
    /\ line.type \in {"call", "cancel", "service"} => line.of \in Invocations
    /\ line.type = "answer" => line.of \in Invocations \cup {0}
    /\ line.type \in {"request", "settled"} => line.of = -1
    /\ line.type = "broken" => line.of = 0
BY DEF Guest!HostLines, Guest!Line, Numbers, Guest!ChildCard, Guest!HostCard

LEMMA QuestionsAre ==
  /\ \A i \in Numbers : Guest!Question(i) \in Guest!Questions
  /\ \A i \in Invocations : Guest!Service(i) \in Guest!Questions
  /\ \A id \in Guest!CallIds : CallOf(id) \in Guest!Questions
  /\ \A i, j : Guest!Question(i) # Guest!Service(j) /\ CallOf(i) # Guest!Question(j) /\ CallOf(i) # Guest!Service(j)
  /\ \A i, j : /\ Guest!Question(i) = Guest!Question(j) <=> i = j
               /\ Guest!Service(i) = Guest!Service(j) <=> i = j
               /\ CallOf(i) = CallOf(j) <=> i = j
BY DEF Guest!Question, Guest!Service, Guest!Questions, CallOf, Numbers, Guest!ChildCard, Guest!HostCard

LEMMA LoadsHaveIds == load \in Loads => \A i \in Invocations : load[i].id \in Guest!CallIds
BY DEF Guest!CallIds

\* What the reader takes was under way, and the rest moves up.
LEMMA DispatchTakes ==
  ASSUME GuestTypes, NEW type, Guest!Dispatch(type)
  PROVE  /\ inbox[1] \in Guest!HostLines /\ inbox[1].type = type /\ Guest!Line1 = inbox[1] /\ 1 \in DOMAIN inbox
         /\ inbox' \in Seq(Guest!HostLines)
         /\ \A n \in DOMAIN inbox' : n + 1 \in DOMAIN inbox /\ inbox'[n] = inbox[n + 1] /\ n + 1 # 1
         /\ \A m, n \in DOMAIN inbox' : m + 1 = n + 1 => m = n
         /\ gone = "no" /\ UNCHANGED <<load, mode, asked>>
<1>1. inbox \in Seq(Guest!HostLines) /\ inbox # <<>> /\ inbox' = Tail(inbox) /\ Head(inbox).type = type
  BY DEF Guest!Dispatch, GuestTypes
<1>2. Head(inbox) = inbox[1] /\ inbox[1] \in Guest!HostLines /\ 1 \in DOMAIN inbox
  BY <1>1
<1>3. inbox' \in Seq(Guest!HostLines) /\ \A n \in DOMAIN inbox' : n \in Nat /\ n + 1 \in DOMAIN inbox /\ inbox'[n] = inbox[n + 1] /\ n + 1 # 1
  BY <1>1
<1>4. \A m, n \in DOMAIN inbox' : m + 1 = n + 1 => m = n
  BY <1>3
<1> QED
  BY <1>1, <1>2, <1>3, <1>4 DEF Guest!Dispatch, Guest!Line1

\* A line that is written, and an entry that changes, change nothing else.
Writes(t, o) ==
  /\ pipe' \in [Guest!GuestLines -> Nat]
  /\ \A u \in LineTypes, p \in Numbers :
       pipe'[Guest!Line(u, p)] = IF u = t /\ p = o THEN pipe[Guest!Line(t, o)] + 1 ELSE pipe[Guest!Line(u, p)]
LEMMA SaysWrites ==
  ASSUME GuestTypes, NEW t \in LineTypes, NEW o \in Numbers, pipe' = Guest!Written(Guest!Line(t, o))
  PROVE  Writes(t, o)
<1> DEFINE line == Guest!Line(t, o)
<1>1. line \in Guest!GuestLines /\ pipe \in [Guest!GuestLines -> Nat] /\ pipe' = [pipe EXCEPT ![line] = pipe[line] + 1]
  BY LinesAre DEF Guest!Written, GuestTypes
<1>2. pipe[line] + 1 \in Nat
  BY <1>1
<1> HIDE DEF line
<1>3. /\ pipe' \in [Guest!GuestLines -> Nat] /\ pipe'[line] = pipe[line] + 1
      /\ \A other \in Guest!GuestLines : other # line => pipe'[other] = pipe[other]
  BY <1>1, <1>2
<1>4. \A u \in LineTypes, p \in Numbers : Guest!Line(u, p) \in Guest!GuestLines /\ (Guest!Line(u, p) = line <=> u = t /\ p = o)
  BY LinesAre DEF line
<1> QED
  BY <1>3, <1>4, Zenon DEF Writes, line

Rests(q, s, c) ==
  /\ \A j \in Numbers \ q : entry'[Guest!Question(j)] = entry[Guest!Question(j)]
  /\ \A j \in Invocations \ s : entry'[Guest!Service(j)] = entry[Guest!Service(j)]
  /\ \A id \in Guest!CallIds \ c : entry'[CallOf(id)] = entry[CallOf(id)]
LEMMA EntryTurns ==
  ASSUME GuestTypes, NEW q \in Guest!Questions, NEW v \in Openness, entry' = [entry EXCEPT ![q] = v]
  PROVE  entry' \in [Guest!Questions -> Openness] /\ entry'[q] = v /\ \A r \in Guest!Questions : r # q => entry'[r] = entry[r]
BY DEF GuestTypes
LEMMA QuestionTurns ==
  ASSUME GuestTypes, NEW i \in Numbers, NEW v \in Openness, entry' = [entry EXCEPT ![Guest!Question(i)] = v]
  PROVE  entry' \in [Guest!Questions -> Openness] /\ entry'[Guest!Question(i)] = v /\ Rests({i}, {}, {})
<1>1. Guest!Question(i) \in Guest!Questions
  BY QuestionsAre
<1>2. /\ entry' \in [Guest!Questions -> Openness] /\ entry'[Guest!Question(i)] = v
      /\ \A r \in Guest!Questions : r # Guest!Question(i) => entry'[r] = entry[r]
  BY <1>1, EntryTurns
<1> QED
  BY <1>2, QuestionsAre DEF Rests
LEMMA ServiceTurns ==
  ASSUME GuestTypes, NEW i \in Invocations, NEW v \in Openness, entry' = [entry EXCEPT ![Guest!Service(i)] = v]
  PROVE  entry' \in [Guest!Questions -> Openness] /\ entry'[Guest!Service(i)] = v /\ Rests({}, {i}, {})
<1>1. Guest!Service(i) \in Guest!Questions
  BY QuestionsAre
<1>2. /\ entry' \in [Guest!Questions -> Openness] /\ entry'[Guest!Service(i)] = v
      /\ \A r \in Guest!Questions : r # Guest!Service(i) => entry'[r] = entry[r]
  BY <1>1, EntryTurns
<1> QED
  BY <1>2, QuestionsAre DEF Rests
LEMMA CallTurns ==
  ASSUME GuestTypes, NEW i \in Invocations, NEW v \in Openness, entry' = [entry EXCEPT ![Guest!Call(i)] = v]
  PROVE  entry' \in [Guest!Questions -> Openness] /\ entry'[CallOf(load[i].id)] = v /\ Rests({}, {}, {load[i].id})
<1>1. Guest!Call(i) = CallOf(load[i].id) /\ CallOf(load[i].id) \in Guest!Questions
  BY QuestionsAre, LoadsHaveIds DEF Guest!Call, CallOf, GuestTypes
<1>2. /\ entry' \in [Guest!Questions -> Openness] /\ entry'[CallOf(load[i].id)] = v
      /\ \A r \in Guest!Questions : r # CallOf(load[i].id) => entry'[r] = entry[r]
  BY <1>1, EntryTurns
<1> QED
  BY <1>2, QuestionsAre DEF Rests
LEMMA BothTurn ==
  ASSUME GuestTypes, NEW i \in Invocations, entry' = Guest!Retracted(i)
  PROVE  /\ entry' \in [Guest!Questions -> Openness] /\ entry'[Guest!Question(i)] = "none" /\ entry'[Guest!Service(i)] = "none"
         /\ Rests({i}, {i}, {})
<1>1. Guest!Question(i) \in Guest!Questions /\ Guest!Service(i) \in Guest!Questions /\ Guest!Question(i) # Guest!Service(i)
  BY QuestionsAre DEF Numbers
<1>2. /\ entry' \in [Guest!Questions -> Openness] /\ entry'[Guest!Question(i)] = "none" /\ entry'[Guest!Service(i)] = "none"
      /\ \A r \in Guest!Questions : r # Guest!Question(i) /\ r # Guest!Service(i) => entry'[r] = entry[r]
  BY <1>1 DEF GuestTypes, Guest!Retracted, Openness
<1> QED
  BY <1>2, QuestionsAre DEF Rests

\* A card that closes, and the wait for it.
Closes(i) ==
  /\ entry[Guest!Question(i)] = "open" /\ entry'[Guest!Question(i)] = "none" /\ Writes("settled", i)
Resumes(i) ==
  task' = IF task[i] = "asking" THEN [task EXCEPT ![i] = "running"] ELSE task

LEMMA AnswerDoes ==
  ASSUME GuestTypes, Guest!OnAnswer
  PROVE  LET i == inbox[1].of
         IN  /\ UNCHANGED <<tokens, tripped, kid, gone>>
             /\ \/ UNCHANGED <<pipe, entry, task>>
                \/ /\ i = 0 /\ entry[Guest!Question(0)] = "open" /\ entry'[Guest!Question(0)] = "answered"
                   /\ entry' \in [Guest!Questions -> Openness] /\ Rests({0}, {}, {}) /\ UNCHANGED <<pipe, task>>
                \/ /\ i \in Invocations /\ Closes(i) /\ Resumes(i)
                   /\ entry' \in [Guest!Questions -> Openness] /\ Rests({i}, {}, {})
<1> DEFINE i == inbox[1].of
<1>1. Guest!Dispatch("answer")
  BY DEF Guest!OnAnswer
<1>2. i \in Invocations \cup {0} /\ Guest!Line1.of = i /\ i \in Numbers
  BY <1>1, DispatchTakes, HostLinesAre
<1> HIDE DEF i
<1>3. CASE entry[Guest!Question(i)] # "open"
  BY <1>2, <1>3 DEF Guest!OnAnswer, Guest!SaysIf
<1>4. CASE entry[Guest!Question(i)] = "open" /\ i = 0
  <2>1. /\ UNCHANGED <<tokens, tripped, kid, gone, pipe, task>>
        /\ entry' = [entry EXCEPT ![Guest!Question(0)] = "answered"]
    BY <1>2, <1>4, NumbersAre DEF Guest!OnAnswer, Guest!SaysIf
  <2>2. 0 \in Numbers /\ "answered" \in Openness
    BY NumbersAre DEF Openness
  <2> QED
    BY <1>4, <2>1, <2>2, QuestionTurns DEF i
<1>5. CASE entry[Guest!Question(i)] = "open" /\ i # 0
  <2>1. /\ UNCHANGED <<tokens, tripped, kid, gone>>
        /\ entry' = [entry EXCEPT ![Guest!Question(i)] = "none"] /\ pipe' = Guest!Written(Guest!Line("settled", i))
        /\ task' = IF task[i] = "asking" THEN [task EXCEPT ![i] = "running"] ELSE task
    BY <1>2, <1>5, NumbersAre DEF Guest!OnAnswer, Guest!SaysIf, Guest!Says
  <2>2. "none" \in Openness /\ "settled" \in LineTypes
    BY DEF Openness, LineTypes
  <2>3. Writes("settled", i) /\ entry' \in [Guest!Questions -> Openness] /\ entry'[Guest!Question(i)] = "none" /\ Rests({i}, {}, {})
    BY <1>2, <2>1, <2>2, QuestionTurns, SaysWrites
  <2> QED
    BY <1>2, <1>5, <2>1, <2>3, NumbersAre DEF Closes, Resumes, i
<1> QED
  BY <1>3, <1>4, <1>5 DEF i

LEMMA ServiceDoes ==
  ASSUME GuestTypes, Guest!OnService
  PROVE  LET i == inbox[1].of
         IN  /\ UNCHANGED <<pipe, tokens, tripped, kid, gone>>
             /\ \/ UNCHANGED <<entry, task>>
                \/ /\ i \in Invocations /\ entry[Guest!Service(i)] = "open" /\ entry'[Guest!Service(i)] = "none"
                   /\ entry' \in [Guest!Questions -> Openness] /\ Rests({}, {i}, {}) /\ task' = [task EXCEPT ![i] = "running"]
<1> DEFINE i == inbox[1].of
<1>1. Guest!Dispatch("service")
  BY DEF Guest!OnService
<1>2. i \in Invocations /\ Guest!Line1.of = i
  BY <1>1, DispatchTakes, HostLinesAre
<1> HIDE DEF i
<1>3. "none" \in Openness
  BY DEF Openness
<1>4. CASE entry[Guest!Service(i)] # "open"
  BY <1>2, <1>4 DEF Guest!OnService, i
<1>5. CASE entry[Guest!Service(i)] = "open"
  <2>1. /\ UNCHANGED <<pipe, tokens, tripped, kid, gone>>
        /\ entry' = [entry EXCEPT ![Guest!Service(i)] = "none"] /\ task' = [task EXCEPT ![i] = "running"]
    BY <1>2, <1>5 DEF Guest!OnService
  <2> QED
    BY <1>2, <1>3, <1>5, <2>1, ServiceTurns DEF i
<1> QED
  BY <1>4, <1>5

LEMMA HostCardDoes ==
  ASSUME GuestTypes, Guest!OnHostCard
  PROVE  /\ UNCHANGED <<pipe, tokens, tripped, task, kid, gone>> /\ (Guest!Dispatch("request") \/ Guest!Dispatch("settled"))
         /\ entry' \in [Guest!Questions -> Openness] /\ Rests({-1}, {}, {})
<1>1. PICK v \in Openness : entry' = [entry EXCEPT ![Guest!Question(-1)] = v]
  BY NumbersAre DEF Guest!OnHostCard, Openness
<1>2. -1 \in Numbers
  BY NumbersAre
<1> QED
  BY <1>1, <1>2, QuestionTurns DEF Guest!OnHostCard, Guest!HostSays

LEMMA HoldDoes ==
  ASSUME GuestTypes, NEW i \in Invocations, Guest!Hold(i)
  PROVE  /\ task[i] = "spawned" /\ gone = "no" /\ UNCHANGED <<load, mode, inbox, asked, pipe, tokens, tripped, kid>>
         /\ \/ entry[CallOf(load[i].id)] # "none" /\ gone' = "died" /\ UNCHANGED <<task, entry>>
            \/ /\ entry[CallOf(load[i].id)] = "none" /\ entry'[CallOf(load[i].id)] = "open" /\ task' = [task EXCEPT ![i] = "held"]
               /\ entry' \in [Guest!Questions -> Openness] /\ Rests({}, {}, {load[i].id}) /\ UNCHANGED gone
<1>1. Guest!Call(i) = CallOf(load[i].id) /\ "open" \in Openness
  BY DEF Guest!Call, CallOf, Openness
<1>2. CASE entry[Guest!Call(i)] # "none"
  BY <1>1, <1>2 DEF Guest!Hold, Guest!At
<1>3. CASE entry[Guest!Call(i)] = "none"
  <2>1. entry' = [entry EXCEPT ![Guest!Call(i)] = "open"] /\ task' = [task EXCEPT ![i] = "held"] /\ UNCHANGED gone
    BY <1>3 DEF Guest!Hold, Guest!Goes
  <2>2. entry' \in [Guest!Questions -> Openness] /\ entry'[CallOf(load[i].id)] = "open" /\ Rests({}, {}, {load[i].id})
    BY <1>1, <2>1, CallTurns
  <2> QED
    BY <1>1, <1>3, <2>1, <2>2 DEF Guest!Hold, Guest!At
<1> QED
  BY <1>2, <1>3

LEMMA AskDoes ==
  ASSUME GuestTypes, NEW i \in Invocations, Guest!Ask(i)
  PROVE  /\ task[i] = "running" /\ pipe[Guest!Line("request", i)] = 0 /\ task' = [task EXCEPT ![i] = "asking"] /\ Writes("request", i)
         /\ entry' \in [Guest!Questions -> Openness] /\ entry'[Guest!Question(i)] = "open" /\ Rests({i}, {}, {})
         /\ UNCHANGED <<load, mode, inbox, asked, tokens, tripped, kid, gone>>
<1>1. i \in Numbers /\ "open" \in Openness /\ "request" \in LineTypes
  BY DEF Numbers, Openness, LineTypes
<1>2. pipe[Guest!Line("request", i)] \in Nat
  BY <1>1, LinesAre DEF GuestTypes
<1>3. entry' = [entry EXCEPT ![Guest!Question(i)] = "open"] /\ pipe' = Guest!Written(Guest!Line("request", i))
  BY DEF Guest!Ask, Guest!Says
<1>4. Writes("request", i) /\ entry' \in [Guest!Questions -> Openness] /\ entry'[Guest!Question(i)] = "open" /\ Rests({i}, {}, {})
  BY <1>1, <1>3, SaysWrites, QuestionTurns
<1> QED
  BY <1>2, <1>4 DEF Guest!Ask, Guest!At, Guest!Goes, Guest!Said

LEMMA SelfAnswerDoes ==
  ASSUME GuestTypes, NEW i \in Invocations, Guest!SelfAnswers(i)
  PROVE  /\ Closes(i) /\ Resumes(i) /\ entry' \in [Guest!Questions -> Openness] /\ Rests({i}, {}, {})
         /\ UNCHANGED <<load, mode, inbox, asked, tokens, tripped, kid, gone>>
<1>1. i \in Numbers /\ "none" \in Openness /\ "settled" \in LineTypes
  BY DEF Numbers, Openness, LineTypes
<1>2. entry' = [entry EXCEPT ![Guest!Question(i)] = "none"] /\ pipe' = Guest!Written(Guest!Line("settled", i))
  BY DEF Guest!SelfAnswers, Guest!Says
<1>3. Writes("settled", i) /\ entry' \in [Guest!Questions -> Openness] /\ entry'[Guest!Question(i)] = "none" /\ Rests({i}, {}, {})
  BY <1>1, <1>2, SaysWrites, QuestionTurns
<1> QED
  BY <1>3 DEF Guest!SelfAnswers, Closes, Resumes

LEMMA CompleteDoes ==
  ASSUME GuestTypes, NEW i \in Invocations, Guest!Complete(i)
  PROVE  /\ task[i] = "running" /\ task' = [task EXCEPT ![i] = "buying"] /\ Writes("buy", i)
         /\ entry' \in [Guest!Questions -> Openness] /\ entry'[Guest!Service(i)] = "open" /\ Rests({}, {i}, {})
         /\ UNCHANGED <<load, mode, inbox, asked, tokens, tripped, kid, gone>>
<1>1. i \in Numbers /\ "open" \in Openness /\ "buy" \in LineTypes
  BY DEF Numbers, Openness, LineTypes
<1>2. entry' = [entry EXCEPT ![Guest!Service(i)] = "open"] /\ pipe' = Guest!Written(Guest!Line("buy", i))
  BY DEF Guest!Complete, Guest!Says
<1>3. Writes("buy", i) /\ entry' \in [Guest!Questions -> Openness] /\ entry'[Guest!Service(i)] = "open" /\ Rests({}, {i}, {})
  BY <1>1, <1>2, SaysWrites, ServiceTurns
<1> QED
  BY <1>3 DEF Guest!Complete, Guest!At, Guest!Goes

LEMMA AnswersDoes ==
  ASSUME GuestTypes, NEW i \in Invocations, Guest!Answers(i)
  PROVE  /\ \/ task[i] = "done" /\ task' = [task EXCEPT ![i] = "answered"]
            \/ task[i] = "untokened" /\ task' = [task EXCEPT ![i] = "closing"]
         /\ entry' \in [Guest!Questions -> Openness] /\ entry'[CallOf(load[i].id)] = "none" /\ Rests({}, {}, {load[i].id})
         /\ entry[CallOf(load[i].id)] = "open" => Writes("result", i)
         /\ entry[CallOf(load[i].id)] # "open" => UNCHANGED pipe
         /\ UNCHANGED <<load, mode, inbox, asked, tokens, tripped, kid, gone>>
<1>1. i \in Numbers /\ "none" \in Openness /\ "result" \in LineTypes /\ Guest!Call(i) = CallOf(load[i].id)
  BY DEF Numbers, Openness, LineTypes, Guest!Call, CallOf
<1>2. /\ entry' = [entry EXCEPT ![Guest!Call(i)] = "none"]
      /\ entry[Guest!Call(i)] = "open" => pipe' = Guest!Written(Guest!Line("result", i))
      /\ entry[Guest!Call(i)] # "open" => UNCHANGED pipe
  BY DEF Guest!Answers, Guest!SaysIf, Guest!Says
<1>3. entry' \in [Guest!Questions -> Openness] /\ entry'[CallOf(load[i].id)] = "none" /\ Rests({}, {}, {load[i].id})
  BY <1>1, <1>2, CallTurns
<1>4. entry[Guest!Call(i)] = "open" => Writes("result", i)
  BY <1>1, <1>2, SaysWrites
<1> QED
  BY <1>1, <1>2, <1>3, <1>4 DEF Guest!Answers, Guest!At, Guest!Goes

LEMMA SweepDoes ==
  ASSUME GuestTypes, NEW i \in Invocations, Guest!Sweep(i)
  PROVE  /\ task[i] = "closing" /\ task' = [task EXCEPT ![i] = "over"]
         /\ entry' \in [Guest!Questions -> Openness] /\ entry'[Guest!Question(i)] = "none" /\ entry'[Guest!Service(i)] = "none"
         /\ Rests({i}, {i}, {})
         /\ IF entry[Guest!Question(i)] = "open" THEN Closes(i) ELSE UNCHANGED pipe
         /\ UNCHANGED <<load, mode, inbox, asked, tokens, tripped, kid, gone>>
<1>1. i \in Numbers /\ "settled" \in LineTypes
  BY DEF Numbers, LineTypes
<1>2. /\ entry' = Guest!Retracted(i)
      /\ entry[Guest!Question(i)] = "open" => pipe' = Guest!Written(Guest!Line("settled", i))
      /\ entry[Guest!Question(i)] # "open" => UNCHANGED pipe
  BY DEF Guest!Sweep, Guest!SaysIf, Guest!Says
<1>3. /\ entry' \in [Guest!Questions -> Openness] /\ entry'[Guest!Question(i)] = "none" /\ entry'[Guest!Service(i)] = "none"
      /\ Rests({i}, {i}, {})
  BY <1>2, BothTurn
<1>4. entry[Guest!Question(i)] = "open" => Closes(i)
  BY <1>1, <1>2, <1>3, SaysWrites DEF Closes
<1> QED
  BY <1>2, <1>3, <1>4 DEF Guest!Sweep, Guest!At, Guest!Goes

\* What the owned child's card does: its question alone changes.
LEMMA KidDoes ==
  ASSUME GuestTypes, Guest!KidAsks \/ Guest!AuthorAnswers \/ Guest!KidSettles \/ Guest!KidDies
  PROVE  /\ UNCHANGED <<load, mode, inbox, asked, tokens, tripped, task, gone>>
         /\ entry' \in [Guest!Questions -> Openness] /\ Rests({0}, {}, {})
         /\ \/ /\ kid = "none" /\ kid' = "asking" /\ entry'[Guest!Question(0)] = "open"
               /\ IF mode = "lift" THEN Writes("request", 0) ELSE UNCHANGED pipe
            \/ UNCHANGED <<kid, pipe>> /\ entry[Guest!Question(0)] = "open" /\ entry'[Guest!Question(0)] = "answered"
            \/ /\ kid = "asking" /\ kid' = "settled" /\ entry'[Guest!Question(0)] = "none"
               /\ IF mode = "lift" THEN Writes("settled", 0) ELSE UNCHANGED pipe
            \/ /\ kid \in {"asking", "settled"} /\ kid' = "dead" /\ entry'[Guest!Question(0)] = "none"
               /\ IF entry[Guest!Question(0)] # "none" THEN Writes("settled", 0) ELSE UNCHANGED pipe
<1> USE NumbersAre
<1>1. 0 \in Numbers /\ Openness = {"none", "open", "answered"} /\ "request" \in LineTypes /\ "settled" \in LineTypes
  BY DEF Numbers, Openness, LineTypes
<1>2. ASSUME NEW v \in Openness, entry' = [entry EXCEPT ![Guest!Question(0)] = v]
      PROVE  entry' \in [Guest!Questions -> Openness] /\ entry'[Guest!Question(0)] = v /\ Rests({0}, {}, {})
  BY <1>1, <1>2, QuestionTurns
<1>3. ASSUME NEW t \in LineTypes, pipe' = Guest!Written(Guest!Line(t, 0))
      PROVE  Writes(t, 0)
  BY <1>1, <1>3, SaysWrites
<1>4. CASE Guest!KidAsks
  BY <1>1, <1>2, <1>3, <1>4 DEF Guest!KidAsks, Guest!ChildSays
<1>5. CASE Guest!AuthorAnswers
  BY <1>1, <1>2, <1>5 DEF Guest!AuthorAnswers, Guest!ChildEntry
<1>6. CASE Guest!KidSettles
  BY <1>1, <1>2, <1>3, <1>6 DEF Guest!KidSettles, Guest!ChildSays
<1>7. CASE Guest!KidDies
  BY <1>1, <1>2, <1>3, <1>7 DEF Guest!KidDies, Guest!SaysIf, Guest!Says, Guest!ChildEntry
<1> QED
  BY <1>4, <1>5, <1>6, <1>7

LEMMA GuestTypesStep == ASSUME GuestInv, Guest!GuestNext \/ UNCHANGED guestVars PROVE GuestTypes'
<1> USE DEF GuestInv, GuestTypes, Held, Answered, Steps, Writes, Closes, Resumes
<1>1. ASSUME NEW line \in Guest!HostLines, Guest!HostSends(line) PROVE GuestTypes'
  BY <1>1 DEF Guest!HostSends
<1>2. ASSUME NEW line, Guest!Hear(line) PROVE GuestTypes'
  BY <1>2 DEF Guest!Hear
<1>3. ASSUME Guest!OnCall PROVE GuestTypes'
  BY <1>3, DispatchTakes, HostLinesAre DEF Guest!OnCall
<1>4. ASSUME Guest!OnCancel PROVE GuestTypes'
  BY <1>4, DispatchTakes, HostLinesAre, LoadsHaveIds DEF Guest!OnCancel
<1>5. ASSUME Guest!OnAnswer PROVE GuestTypes'
  BY <1>5, DispatchTakes, AnswerDoes DEF Guest!OnAnswer
<1>6. ASSUME Guest!OnService PROVE GuestTypes'
  BY <1>6, DispatchTakes, ServiceDoes DEF Guest!OnService
<1>7. ASSUME Guest!OnHostCard PROVE GuestTypes'
  BY <1>7, DispatchTakes, HostCardDoes
<1>8. ASSUME Guest!OnUnknown PROVE GuestTypes'
  BY <1>8, DispatchTakes DEF Guest!OnUnknown
<1>9. ASSUME Guest!HostCloses PROVE GuestTypes'
  BY <1>9 DEF Guest!HostCloses
<1>10. ASSUME NEW i \in Invocations, Guest!Hold(i) PROVE GuestTypes'
  BY <1>10, HoldDoes
<1>11. ASSUME NEW i \in Invocations, Guest!TakeToken(i) PROVE GuestTypes'
  BY <1>11 DEF Guest!TakeToken, Guest!At, Guest!Goes
<1>12. ASSUME NEW i \in Invocations, Guest!Ask(i) PROVE GuestTypes'
  BY <1>12, AskDoes
<1>13. ASSUME NEW i \in Invocations, Guest!AskGivesUp(i) PROVE GuestTypes'
  BY <1>13 DEF Guest!AskGivesUp, Guest!At, Guest!Goes
<1>14. ASSUME NEW i \in Invocations, Guest!SelfAnswers(i) PROVE GuestTypes'
  BY <1>14, SelfAnswerDoes
<1>15. ASSUME NEW i \in Invocations, Guest!Complete(i) PROVE GuestTypes'
  BY <1>15, CompleteDoes
<1>16. ASSUME NEW i \in Invocations, Guest!BodyEnds(i) PROVE GuestTypes'
  BY <1>16 DEF Guest!BodyEnds, Guest!At, Guest!Goes
<1>17. ASSUME NEW i \in Invocations, Guest!Refuse(i) PROVE GuestTypes'
  BY <1>17 DEF Guest!Refuse, Guest!At, Guest!Goes
<1>18. ASSUME NEW i \in Invocations, Guest!Answers(i) PROVE GuestTypes'
  BY <1>18, AnswersDoes
<1>19. ASSUME NEW i \in Invocations, Guest!DropToken(i) PROVE GuestTypes'
  BY <1>19 DEF Guest!DropToken, Guest!At, Guest!Goes
<1>20. ASSUME NEW i \in Invocations, Guest!Sweep(i) PROVE GuestTypes'
  BY <1>20, SweepDoes
<1>21. ASSUME Guest!KidAsks \/ Guest!AuthorAnswers \/ Guest!KidSettles \/ Guest!KidDies PROVE GuestTypes'
  BY <1>21, KidDoes
<1>22. CASE UNCHANGED guestVars
  BY <1>22 DEF guestVars
<1> QED
  BY <1>1, <1>2, <1>3, <1>4, <1>5, <1>6, <1>7, <1>8, <1>9, <1>10, <1>11, <1>12, <1>13, <1>14, <1>15, <1>16, <1>17, <1>18, <1>19, <1>20, <1>21, <1>22, Zenon DEF Guest!GuestNext, Guest!Reader, Guest!Task

\* Most steps start no task, ask nothing and trip no token; some take a line.
Ordinary ==
  /\ \A j \in Invocations : task'[j] = "none" <=> task[j] = "none"
  /\ UNCHANGED <<load, asked, tripped>> /\ (UNCHANGED inbox \/ \E type : Guest!Dispatch(type))

LEMMA GuestSteps ==
  ASSUME GuestTypes, HoldInv, Guest!GuestNext \/ UNCHANGED guestVars
  PROVE  \/ \E line \in Guest!HostLines : Guest!HostSends(line)
         \/ Guest!OnCall \/ Guest!OnCancel
         \/ Ordinary
<1> USE DEF GuestTypes, Ordinary, Resumes
<1>1. ASSUME NEW line, Guest!Hear(line) PROVE Ordinary
  BY <1>1 DEF Guest!Hear
<1>2. ASSUME Guest!OnAnswer PROVE Ordinary
  BY <1>2, DispatchTakes, AnswerDoes DEF Guest!OnAnswer
<1>3. ASSUME Guest!OnService PROVE Ordinary
  BY <1>3, DispatchTakes, ServiceDoes DEF Guest!OnService, HoldInv, BuyInv
<1>4. ASSUME Guest!OnHostCard PROVE Ordinary
  BY <1>4, DispatchTakes, HostCardDoes
<1>5. ASSUME Guest!OnUnknown PROVE Ordinary
  BY <1>5, DispatchTakes DEF Guest!OnUnknown
<1>6. ASSUME Guest!HostCloses PROVE Ordinary
  BY <1>6 DEF Guest!HostCloses
<1>7. ASSUME NEW i \in Invocations, Guest!Hold(i) PROVE Ordinary
  BY <1>7, HoldDoes
<1>8. ASSUME NEW i \in Invocations, Guest!TakeToken(i) PROVE Ordinary
  BY <1>8 DEF Guest!TakeToken, Guest!At, Guest!Goes
<1>9. ASSUME NEW i \in Invocations, Guest!Ask(i) PROVE Ordinary
  BY <1>9, AskDoes
<1>10. ASSUME NEW i \in Invocations, Guest!AskGivesUp(i) PROVE Ordinary
  BY <1>10 DEF Guest!AskGivesUp, Guest!At, Guest!Goes
<1>11. ASSUME NEW i \in Invocations, Guest!SelfAnswers(i) PROVE Ordinary
  BY <1>11, SelfAnswerDoes
<1>12. ASSUME NEW i \in Invocations, Guest!Complete(i) PROVE Ordinary
  BY <1>12, CompleteDoes
<1>13. ASSUME NEW i \in Invocations, Guest!BodyEnds(i) PROVE Ordinary
  BY <1>13 DEF Guest!BodyEnds, Guest!At, Guest!Goes
<1>14. ASSUME NEW i \in Invocations, Guest!Refuse(i) PROVE Ordinary
  BY <1>14 DEF Guest!Refuse, Guest!At, Guest!Goes
<1>15. ASSUME NEW i \in Invocations, Guest!Answers(i) PROVE Ordinary
  BY <1>15, AnswersDoes
<1>16. ASSUME NEW i \in Invocations, Guest!DropToken(i) PROVE Ordinary
  BY <1>16 DEF Guest!DropToken, Guest!At, Guest!Goes
<1>17. ASSUME NEW i \in Invocations, Guest!Sweep(i) PROVE Ordinary
  BY <1>17, SweepDoes
<1>18. ASSUME Guest!KidAsks \/ Guest!AuthorAnswers \/ Guest!KidSettles \/ Guest!KidDies PROVE Ordinary
  BY <1>18, KidDoes
<1>19. CASE UNCHANGED guestVars
  BY <1>19 DEF guestVars
<1> QED
  BY <1>1, <1>2, <1>3, <1>4, <1>5, <1>6, <1>7, <1>8, <1>9, <1>10, <1>11, <1>12, <1>13, <1>14, <1>15, <1>16, <1>17, <1>18, <1>19, Zenon DEF Guest!GuestNext, Guest!Reader, Guest!Task

LEMMA InboxStep == ASSUME GuestInv, Guest!GuestNext \/ UNCHANGED guestVars PROVE InboxInv'
<1> USE DEF GuestInv, GuestTypes, InboxInv
<1>1. ASSUME NEW line \in Guest!HostLines, Guest!HostSends(line) PROVE InboxInv'
  <2>1. /\ inbox' = Append(inbox, line) /\ line \notin asked /\ UNCHANGED task
        /\ asked' = (IF line.type \in Repeatable THEN asked ELSE asked \cup {line})
    BY <1>1 DEF Guest!HostSends, Repeatable
  <2>2. /\ DOMAIN inbox' = DOMAIN inbox \cup {Len(inbox) + 1} /\ Len(inbox) + 1 \notin DOMAIN inbox
        /\ inbox'[Len(inbox) + 1] = line /\ \A n \in DOMAIN inbox : inbox'[n] = inbox[n]
    BY <2>1
  <2>3. \A n \in DOMAIN inbox : inbox[n].type = "call" => inbox[n] # line
    BY <2>1 DEF Repeatable
  <2>4. line.type = "call" => line.of \in Invocations /\ line = Guest!Line("call", line.of)
    BY HostLinesAre
  <2>5. line.type = "call" => task[line.of] = "none"
    BY <2>1, <2>4
  <2>6. ASSUME NEW i \in Invocations, Guest!Line("cancel", i) = line
        PROVE  Guest!Line("call", i) \in asked
    <3>1. line.type = "cancel" /\ line.of = i
      BY <2>6, LinesAre
    <3>2. ~Guest!Breaks(line)
      BY <3>1 DEF Guest!Breaks
    <3>3. Guest!Lawful(line)
      BY <1>1, <3>2 DEF Guest!HostSends
    <3> QED
      BY <3>1, <3>3 DEF Guest!Lawful
  <2>7. asked \subseteq asked' /\ asked' \subseteq asked \cup {line} /\ (line.type \notin Repeatable => line \in asked')
    BY <2>1
  <2>8. /\ \A n \in DOMAIN inbox' : inbox'[n].type \notin Repeatable => inbox'[n] \in asked'
        /\ \A n \in DOMAIN inbox' : inbox'[n].type = "call" =>
             task'[inbox'[n].of] = "none" /\ \A m \in DOMAIN inbox' : inbox'[m] = inbox'[n] => m = n
    BY <2>1, <2>2, <2>3, <2>5, <2>7
  <2>9. \A i \in Invocations : task'[i] # "none" \/ Guest!Line("cancel", i) \in asked' => Guest!Line("call", i) \in asked'
    BY <2>1, <2>6, <2>7
  <2> QED
    BY <2>8, <2>9
<1>2. CASE Guest!OnCall
  <2>1. Guest!Dispatch("call") /\ task' = [task EXCEPT ![Guest!Line1.of] = "spawned"]
    BY <1>2 DEF Guest!OnCall
  <2>2. inbox[1].of \in Invocations /\ inbox[1] = Guest!Line("call", inbox[1].of)
    <3>1. inbox[1] \in Guest!HostLines /\ inbox[1].type = "call"
      BY <2>1, DispatchTakes
    <3> QED
      BY <3>1, HostLinesAre
  <2>3. inbox[1] \in asked
    <3>1. 1 \in DOMAIN inbox /\ inbox[1].type = "call"
      BY <2>1, DispatchTakes
    <3> QED
      BY <3>1 DEF Repeatable
  <2>4. /\ UNCHANGED asked /\ task'[inbox[1].of] # "none"
        /\ \A j \in Invocations : j # inbox[1].of => task'[j] = task[j]
    BY <2>1, <2>2, DispatchTakes
  <2>5. ASSUME NEW n \in DOMAIN inbox', inbox'[n].type = "call"
        PROVE  /\ task'[inbox'[n].of] = "none"
               /\ \A m \in DOMAIN inbox' : inbox'[m] = inbox'[n] => m = n
    <3>1. n + 1 \in DOMAIN inbox /\ inbox'[n] = inbox[n + 1] /\ inbox[n + 1] # inbox[1]
      BY <2>1, <2>5, DispatchTakes
    <3>2. inbox[n + 1].of \in Invocations /\ inbox[n + 1] = Guest!Line("call", inbox[n + 1].of)
      BY <2>5, <3>1, HostLinesAre
    <3> QED
      BY <2>1, <2>2, <2>4, <2>5, <3>1, <3>2, DispatchTakes
  <2> QED
    BY <2>1, <2>2, <2>3, <2>4, <2>5, DispatchTakes
<1>3. ASSUME NEW type, Guest!Dispatch(type), UNCHANGED asked, \A j \in Invocations : task'[j] = "none" <=> task[j] = "none"
      PROVE  InboxInv'
  <2>1. \A n \in DOMAIN inbox' : inbox'[n].type = "call" => inbox'[n].of \in Invocations
    BY <1>3, DispatchTakes, HostLinesAre
  <2> QED
    BY <1>3, <2>1, DispatchTakes
<1>4. CASE Guest!OnCancel
  BY <1>3, <1>4, DispatchTakes DEF Guest!OnCancel
<1>5. CASE Ordinary /\ UNCHANGED inbox
  <2>1. \A n \in DOMAIN inbox : inbox[n].type = "call" => inbox[n].of \in Invocations
    BY HostLinesAre
  <2> QED
    BY <1>5, <2>1 DEF Ordinary
<1> QED
  BY <1>1, <1>2, <1>3, <1>4, <1>5, GuestSteps DEF Ordinary

LEMMA TrippedStep == ASSUME GuestInv, Guest!GuestNext \/ UNCHANGED guestVars PROVE TrippedInv'
<1> USE DEF GuestInv, TrippedInv
<1>1. ASSUME NEW line, Guest!HostSends(line) PROVE TrippedInv'
  <2>1. asked \subseteq asked' /\ UNCHANGED <<tripped, load>>
    BY <1>1 DEF Guest!HostSends
  <2>2. Guest!Breached => Guest!Breached'
    BY <2>1 DEF Guest!Breached
  <2> QED
    BY <2>1, <2>2
<1>2. CASE UNCHANGED <<asked, tripped, load>>
  BY <1>2 DEF Guest!Breached
<1>3. CASE Guest!OnCancel
  <2> DEFINE of == inbox[1].of
             i == tokens[load[of].id]
  <2>1. Guest!Dispatch("cancel")
    BY <1>3 DEF Guest!OnCancel
  <2>2. of \in Invocations /\ inbox[1] = Guest!Line("cancel", of) /\ UNCHANGED <<asked, load>>
    BY <2>1, DispatchTakes, HostLinesAre
  <2>3. Guest!Line("cancel", of) \in asked /\ Guest!Line("call", of) \in asked
    BY <2>1, <2>2, DispatchTakes DEF InboxInv, Repeatable
  <2>4. tripped' = tripped \cup ({i} \ {0})
    BY <1>3, <2>1, DispatchTakes DEF Guest!OnCancel
  <2>5. i \in Invocations \cup {0}
    BY <2>2, LoadsHaveIds DEF GuestTypes
  <2>6. ASSUME i # 0, ~Guest!Breached PROVE i = of
    <3>1. load[i].id = load[of].id /\ task[i] \in Tokened /\ i \in Invocations
      BY <2>2, <2>5, <2>6 DEF HoldInv, TokenInv
    <3>2. Guest!Line("call", i) \in asked
      BY <3>1 DEF InboxInv, Tokened
    <3> QED
      BY <2>2, <2>3, <2>6, <3>1, <3>2 DEF Guest!Breached
  <2>7. Guest!Breached <=> Guest!Breached'
    BY <2>2 DEF Guest!Breached
  <2> HIDE DEF i, of
  <2> QED
    BY <2>2, <2>3, <2>4, <2>6, <2>7
<1>4. CASE Guest!OnCall
  BY <1>2, <1>4, DispatchTakes DEF Guest!OnCall
<1> QED
  BY <1>1, <1>2, <1>3, <1>4, GuestSteps DEF Ordinary

\* Where a step leaves the lines, the question and the end of a task alone, its card stays.
Quiet(i) ==
  /\ \A type \in {"request", "settled"} : pipe'[Guest!Line(type, i)] = pipe[Guest!Line(type, i)]
  /\ entry'[Guest!Question(i)] = entry[Guest!Question(i)]
LEMMA CardsStay ==
  ASSUME CardInv, NEW i \in Numbers, \A j \in Numbers \ {i} : Quiet(j),
         \A j \in Invocations \ {i} : task'[j] = "over" => task[j] = "over", i # 0 => UNCHANGED <<mode, kid>>
  PROVE  /\ \A j \in Invocations \ {i} : CardOf(j)'
         /\ i # 0 => KidCard'
         /\ i # -1 => \A type \in {"request", "settled"} : pipe'[Guest!Line(type, -1)] = 0
<1>1. ASSUME NEW j \in Invocations \ {i} PROVE CardOf(j)'
  BY <1>1 DEF CardInv, CardOf, Quiet, Numbers
<1>2. ASSUME i # 0 PROVE KidCard'
  BY <1>2 DEF CardInv, KidCard, Quiet, Numbers
<1>3. ASSUME i # -1 PROVE \A type \in {"request", "settled"} : pipe'[Guest!Line(type, -1)] = 0
  BY <1>3 DEF CardInv, Quiet, Numbers
<1> QED
  BY <1>1, <1>2, <1>3
LEMMA WritesQuietly ==
  \A t \in LineTypes, i \in Numbers :
    (Writes(t, i) \/ UNCHANGED pipe) /\ (Rests({i}, {}, {}) \/ Rests({i}, {i}, {})) => \A j \in Numbers \ {i} : Quiet(j)
<1> SUFFICES ASSUME NEW t \in LineTypes, NEW i \in Numbers, Writes(t, i) \/ UNCHANGED pipe, Rests({i}, {}, {}) \/ Rests({i}, {i}, {})
             PROVE  \A j \in Numbers \ {i} : Quiet(j)
  OBVIOUS
<1>1. \A type \in {"request", "settled"}, j \in Numbers \ {i} : pipe'[Guest!Line(type, j)] = pipe[Guest!Line(type, j)]
  BY DEF Writes, LineTypes
<1> QED
  BY <1>1 DEF Rests, Quiet
LEMMA CloseKeeps ==
  ASSUME NEW i \in Invocations, CardOf(i), Closes(i)
  PROVE  CardOf(i)'
<1>1. /\ pipe'[Guest!Line("request", i)] = pipe[Guest!Line("request", i)]
      /\ pipe'[Guest!Line("settled", i)] = pipe[Guest!Line("settled", i)] + 1
  BY DEF Closes, Writes, LineTypes, Numbers
<1> QED
  BY <1>1 DEF CardOf, Closes

LEMMA CardStep == ASSUME GuestInv, Guest!GuestNext \/ UNCHANGED guestVars PROVE CardInv'
<1> USE DEF GuestInv
<1>1. ASSUME NEW line \in Guest!HostLines, Guest!HostSends(line) PROVE CardInv'
  BY <1>1 DEF Guest!HostSends, GuestTypes, CardInv, CardOf, KidCard, Writes, Rests, LineTypes, Numbers
<1>2. ASSUME NEW line, Guest!Hear(line) PROVE CardInv'
  BY <1>2 DEF Guest!Hear, GuestTypes, CardInv, CardOf, KidCard, Writes, Rests, LineTypes, Numbers
<1>3. ASSUME Guest!OnCall PROVE CardInv'
  BY <1>3, DispatchTakes, HostLinesAre DEF Guest!OnCall, GuestTypes, CardInv, CardOf, KidCard, Writes, Rests, LineTypes, Numbers
<1>4. ASSUME Guest!OnCancel PROVE CardInv'
  BY <1>4, DispatchTakes, HostLinesAre, LoadsHaveIds DEF Guest!OnCancel, GuestTypes, CardInv, CardOf, KidCard, Writes, Rests, LineTypes, Numbers
<1>5. ASSUME Guest!OnAnswer PROVE CardInv'
  <2>1. PICK i :
        /\ UNCHANGED <<mode, kid>>
        /\ \/ UNCHANGED <<pipe, entry, task>>
           \/ /\ i = 0 /\ entry[Guest!Question(0)] = "open" /\ entry'[Guest!Question(0)] = "answered"
              /\ Rests({0}, {}, {}) /\ UNCHANGED <<pipe, task>>
           \/ i \in Invocations /\ Closes(i) /\ Resumes(i) /\ Rests({i}, {}, {})
    BY <1>5, AnswerDoes, DispatchTakes DEF Guest!OnAnswer
  <2>2. CASE UNCHANGED <<pipe, entry, task>>
    BY <2>1, <2>2 DEF CardInv, CardOf, KidCard
  <2>3. CASE i = 0 /\ entry[Guest!Question(0)] = "open" /\ entry'[Guest!Question(0)] = "answered" /\ Rests({0}, {}, {}) /\ UNCHANGED <<pipe, task>>
    <3>1. 0 \in Numbers /\ "request" \in LineTypes
      BY DEF Numbers, LineTypes
    <3>2. \A j \in Numbers \ {0} : Quiet(j)
      BY <2>3, <3>1, WritesQuietly, Zenon
    <3>3. KidCard'
      BY <2>1, <2>3 DEF KidCard, CardInv
    <3> QED
      BY <2>3, <3>1, <3>2, <3>3, CardsStay, NumbersAre DEF CardInv
  <2>4. CASE i \in Invocations /\ Closes(i) /\ Resumes(i) /\ Rests({i}, {}, {})
    <3>1. i \in Numbers /\ i # 0 /\ i # -1 /\ "settled" \in LineTypes /\ CardOf(i)
      BY <2>4, NumbersAre DEF Numbers, LineTypes, CardInv
    <3>2. \A j \in Invocations : task'[j] = "over" => task[j] = "over"
      BY <2>4 DEF Resumes, GuestTypes
    <3>3. CardOf(i)'
      BY <2>4, <3>1, CloseKeeps
    <3>4. \A j \in Numbers \ {i} : Quiet(j)
      BY <2>4, <3>1, WritesQuietly, Zenon DEF Closes
    <3> QED
      BY <2>1, <2>4, <3>1, <3>2, <3>3, <3>4, CardsStay DEF CardInv
  <2> QED
    BY <2>1, <2>2, <2>3, <2>4
<1>6. ASSUME Guest!OnService PROVE CardInv'
  BY <1>6, DispatchTakes, ServiceDoes DEF Guest!OnService, GuestTypes, CardInv, CardOf, KidCard, Writes, Rests, LineTypes, Numbers
<1>7. ASSUME Guest!OnHostCard PROVE CardInv'
  <2>1. UNCHANGED <<pipe, task, mode, kid>> /\ Rests({-1}, {}, {}) /\ -1 \in Numbers /\ "request" \in LineTypes
    BY <1>7, DispatchTakes, HostCardDoes DEF Numbers, LineTypes
  <2>2. \A j \in Numbers \ {-1} : Quiet(j)
    BY <2>1, WritesQuietly, Zenon
  <2>3. (\A i \in Invocations : CardOf(i)') /\ KidCard'
    BY <2>1, <2>2, CardsStay, NumbersAre
  <2> QED
    BY <2>1, <2>3 DEF CardInv
<1>8. ASSUME Guest!OnUnknown PROVE CardInv'
  BY <1>8, DispatchTakes DEF Guest!OnUnknown, GuestTypes, CardInv, CardOf, KidCard, Writes, Rests, LineTypes, Numbers
<1>9. ASSUME Guest!HostCloses PROVE CardInv'
  BY <1>9 DEF Guest!HostCloses, GuestTypes, CardInv, CardOf, KidCard, Writes, Rests, LineTypes, Numbers
<1>10. ASSUME NEW i \in Invocations, Guest!Hold(i) PROVE CardInv'
  BY <1>10, HoldDoes DEF GuestTypes, CardInv, CardOf, KidCard, Writes, Rests, LineTypes, Numbers
<1>11. ASSUME NEW i \in Invocations, Guest!TakeToken(i) PROVE CardInv'
  BY <1>11 DEF Guest!TakeToken, Guest!At, Guest!Goes, GuestTypes, CardInv, CardOf, KidCard, Writes, Rests, LineTypes, Numbers
<1>12. ASSUME NEW i \in Invocations, Guest!Ask(i) PROVE CardInv'
  <2>1. i \in Numbers /\ i # 0 /\ i # -1 /\ "request" \in LineTypes /\ CardOf(i)
    BY NumbersAre DEF Numbers, LineTypes, CardInv
  <2>2. \A j \in Numbers \ {i} : Quiet(j)
    <3>1. Writes("request", i) /\ Rests({i}, {}, {})
      BY <1>12, AskDoes
    <3> QED
      BY <2>1, <3>1, WritesQuietly, Zenon
  <2>3. /\ pipe[Guest!Line("request", i)] = 0 /\ pipe'[Guest!Line("request", i)] = 1
        /\ pipe'[Guest!Line("settled", i)] = pipe[Guest!Line("settled", i)]
    <3>1. Writes("request", i) /\ pipe[Guest!Line("request", i)] = 0
      BY <1>12, AskDoes
    <3> QED
      BY <2>1, <3>1 DEF Writes, LineTypes
  <2>4. entry'[Guest!Question(i)] = "open" /\ UNCHANGED <<mode, kid>> /\ task'[i] = "asking" /\ \A j \in Invocations \ {i} : task'[j] = task[j]
    <3>1. task \in [Invocations -> Steps] /\ task' = [task EXCEPT ![i] = "asking"]
      BY <1>12, AskDoes DEF GuestTypes
    <3>2. entry'[Guest!Question(i)] = "open" /\ UNCHANGED <<mode, kid>>
      BY <1>12, AskDoes
    <3> QED
      BY <3>1, <3>2
  <2>5. CardOf(i)'
    BY <2>1, <2>3, <2>4 DEF CardOf
  <2> QED
    BY <2>1, <2>2, <2>4, <2>5, CardsStay DEF CardInv
<1>13. ASSUME NEW i \in Invocations, Guest!AskGivesUp(i) PROVE CardInv'
  BY <1>13 DEF Guest!AskGivesUp, Guest!At, Guest!Goes, GuestTypes, CardInv, CardOf, KidCard, Writes, Rests, LineTypes, Numbers
<1>14. ASSUME NEW i \in Invocations, Guest!SelfAnswers(i) PROVE CardInv'
  <2>1. Closes(i) /\ Rests({i}, {}, {}) /\ UNCHANGED <<mode, kid>> /\ i \in Invocations
    BY <1>14, SelfAnswerDoes
  <2>2. i \in Numbers /\ i # 0 /\ i # -1 /\ "settled" \in LineTypes /\ CardOf(i)
    BY <2>1, NumbersAre DEF Numbers, LineTypes, CardInv
  <2>3. \A j \in Invocations : task'[j] = "over" => task[j] = "over"
    BY <1>14, SelfAnswerDoes DEF Resumes, GuestTypes
  <2>4. CardOf(i)'
    BY <2>1, <2>2, CloseKeeps
  <2>5. \A j \in Numbers \ {i} : Quiet(j)
    BY <2>1, <2>2, WritesQuietly, Zenon DEF Closes
  <2> QED
    BY <2>1, <2>2, <2>3, <2>4, <2>5, CardsStay DEF CardInv
<1>15. ASSUME NEW i \in Invocations, Guest!Complete(i) PROVE CardInv'
  BY <1>15, CompleteDoes DEF GuestTypes, CardInv, CardOf, KidCard, Writes, Rests, LineTypes, Numbers
<1>16. ASSUME NEW i \in Invocations, Guest!BodyEnds(i) PROVE CardInv'
  BY <1>16 DEF Guest!BodyEnds, Guest!At, Guest!Goes, GuestTypes, CardInv, CardOf, KidCard, Writes, Rests, LineTypes, Numbers
<1>17. ASSUME NEW i \in Invocations, Guest!Refuse(i) PROVE CardInv'
  BY <1>17 DEF Guest!Refuse, Guest!At, Guest!Goes, GuestTypes, CardInv, CardOf, KidCard, Writes, Rests, LineTypes, Numbers
<1>18. ASSUME NEW i \in Invocations, Guest!Answers(i) PROVE CardInv'
  BY <1>18, AnswersDoes DEF GuestTypes, CardInv, CardOf, KidCard, Writes, Rests, LineTypes, Numbers
<1>19. ASSUME NEW i \in Invocations, Guest!DropToken(i) PROVE CardInv'
  BY <1>19 DEF Guest!DropToken, Guest!At, Guest!Goes, GuestTypes, CardInv, CardOf, KidCard, Writes, Rests, LineTypes, Numbers
<1>20. ASSUME NEW i \in Invocations, Guest!Sweep(i) PROVE CardInv'
  <2>1. i \in Numbers /\ i # 0 /\ i # -1 /\ "settled" \in LineTypes /\ CardOf(i)
    BY NumbersAre DEF Numbers, LineTypes, CardInv
  <2>2. Closes(i) \/ (entry[Guest!Question(i)] # "open" /\ UNCHANGED pipe)
    BY <1>20, SweepDoes
  <2>3. \A j \in Numbers \ {i} : Quiet(j)
    <3>1. Rests({i}, {i}, {})
      BY <1>20, SweepDoes
    <3> QED
      BY <2>1, <2>2, <3>1, WritesQuietly, Zenon DEF Closes
  <2>4. entry'[Guest!Question(i)] = "none" /\ UNCHANGED <<mode, kid>> /\ \A j \in Invocations \ {i} : task'[j] = task[j]
    <3>1. entry'[Guest!Question(i)] = "none" /\ UNCHANGED <<mode, kid>> /\ task' = [task EXCEPT ![i] = "over"]
      BY <1>20, SweepDoes
    <3> QED
      BY <3>1 DEF GuestTypes
  <2>5. CardOf(i)'
    <3>1. CASE Closes(i)
      BY <2>1, <3>1, CloseKeeps
    <3>2. CASE entry[Guest!Question(i)] # "open" /\ UNCHANGED pipe
      BY <2>1, <2>4, <3>2 DEF CardOf
    <3> QED
      BY <2>2, <3>1, <3>2
  <2> QED
    BY <2>1, <2>3, <2>4, <2>5, CardsStay DEF CardInv
<1>21. ASSUME Guest!KidAsks \/ Guest!AuthorAnswers \/ Guest!KidSettles \/ Guest!KidDies PROVE CardInv'
  <2>1. /\ UNCHANGED <<mode, task>> /\ Rests({0}, {}, {}) /\ 0 \in Numbers /\ LineTypes = {"result", "buy", "request", "settled"}
        /\ \/ Writes("request", 0) \/ UNCHANGED pipe \/ Writes("settled", 0)
    BY <1>21, KidDoes, NumbersAre DEF Numbers, LineTypes
  <2>2. \A j \in Numbers \ {0} : Quiet(j)
    BY <2>1, WritesQuietly
  <2>3. /\ Writes("request", 0) => /\ pipe'[Guest!Line("request", 0)] = pipe[Guest!Line("request", 0)] + 1
                                   /\ pipe'[Guest!Line("settled", 0)] = pipe[Guest!Line("settled", 0)]
        /\ Writes("settled", 0) => /\ pipe'[Guest!Line("request", 0)] = pipe[Guest!Line("request", 0)]
                                   /\ pipe'[Guest!Line("settled", 0)] = pipe[Guest!Line("settled", 0)] + 1
    BY <2>1 DEF Writes
  <2>4. KidCard'
    BY <1>21, <2>1, <2>3, KidDoes DEF CardInv, KidCard, GuestTypes
  <2> QED
    BY <2>1, <2>2, <2>4, CardsStay, NumbersAre DEF CardInv
<1>22. CASE UNCHANGED guestVars
  BY <1>22 DEF guestVars, GuestTypes, CardInv, CardOf, KidCard, Writes, Rests, LineTypes, Numbers
<1> QED
  BY <1>1, <1>2, <1>3, <1>4, <1>5, <1>6, <1>7, <1>8, <1>9, <1>10, <1>11, <1>12, <1>13, <1>14, <1>15, <1>16, <1>17, <1>18, <1>19, <1>20, <1>21, <1>22, Zenon DEF Guest!GuestNext, Guest!Reader, Guest!Task

\* Only the hold, the token's steps and the answer end or begin what a call holds.
CarriesOn ==
  /\ \A j \in Invocations : /\ task'[j] \in Held <=> task[j] \in Held
                            /\ task'[j] \in Tokened <=> task[j] \in Tokened
                            /\ task'[j] \in Answered <=> task[j] \in Answered
                            /\ pipe'[Guest!Line("result", j)] = pipe[Guest!Line("result", j)]
  /\ \A id \in Guest!CallIds : entry'[CallOf(id)] = entry[CallOf(id)]
  /\ UNCHANGED <<tokens, load>>
LEMMA GuestCarriesOn ==
  ASSUME GuestInv, Guest!GuestNext \/ UNCHANGED guestVars
  PROVE  \/ CarriesOn
         \/ \E i \in Invocations : Guest!Hold(i) \/ Guest!TakeToken(i) \/ Guest!Refuse(i) \/ Guest!Answers(i) \/ Guest!DropToken(i)
<1>0. GuestTypes /\ InboxInv /\ BuyInv /\ LineTypes = {"result", "buy", "request", "settled"} /\ Invocations \subseteq Numbers
  BY DEF GuestInv, HoldInv, LineTypes, Numbers
<1> USE DEF CarriesOn, GuestTypes, Held, Tokened, Answered
<1>1. ASSUME NEW line \in Guest!HostLines, Guest!HostSends(line) PROVE CarriesOn
  BY <1>0, <1>1 DEF Guest!HostSends
<1>2. ASSUME NEW line, Guest!Hear(line) PROVE CarriesOn
  BY <1>0, <1>2 DEF Guest!Hear
<1>3. ASSUME Guest!OnCall PROVE CarriesOn
  BY <1>0, <1>3, DispatchTakes, HostLinesAre DEF Guest!OnCall, InboxInv
<1>4. ASSUME Guest!OnCancel PROVE CarriesOn
  BY <1>0, <1>4, DispatchTakes, HostLinesAre, LoadsHaveIds DEF Guest!OnCancel
<1>5. ASSUME Guest!OnAnswer PROVE CarriesOn
  BY <1>0, <1>5, DispatchTakes, AnswerDoes DEF Guest!OnAnswer, Resumes, Closes, Writes, Rests
<1>6. ASSUME Guest!OnService PROVE CarriesOn
  BY <1>0, <1>6, DispatchTakes, ServiceDoes DEF Guest!OnService, BuyInv, Writes, Rests
<1>7. ASSUME Guest!OnHostCard PROVE CarriesOn
  BY <1>0, <1>7, DispatchTakes, HostCardDoes DEF Rests
<1>8. ASSUME Guest!OnUnknown PROVE CarriesOn
  BY <1>0, <1>8, DispatchTakes DEF Guest!OnUnknown
<1>9. ASSUME Guest!HostCloses PROVE CarriesOn
  BY <1>0, <1>9 DEF Guest!HostCloses
<1>10. ASSUME NEW i \in Invocations, Guest!Ask(i) PROVE CarriesOn
  BY <1>0, <1>10, AskDoes DEF Writes, Rests
<1>11. ASSUME NEW i \in Invocations, Guest!AskGivesUp(i) PROVE CarriesOn
  BY <1>0, <1>11 DEF Guest!AskGivesUp, Guest!At, Guest!Goes
<1>12. ASSUME NEW i \in Invocations, Guest!SelfAnswers(i) PROVE CarriesOn
  BY <1>0, <1>12, SelfAnswerDoes DEF Resumes, Closes, Writes, Rests
<1>13. ASSUME NEW i \in Invocations, Guest!Complete(i) PROVE CarriesOn
  BY <1>0, <1>13, CompleteDoes DEF Writes, Rests
<1>14. ASSUME NEW i \in Invocations, Guest!BodyEnds(i) PROVE CarriesOn
  BY <1>0, <1>14 DEF Guest!BodyEnds, Guest!At, Guest!Goes
<1>15. ASSUME NEW i \in Invocations, Guest!Sweep(i) PROVE CarriesOn
  BY <1>0, <1>15, SweepDoes DEF Writes, Rests, Closes
<1>16. ASSUME Guest!KidAsks \/ Guest!AuthorAnswers \/ Guest!KidSettles \/ Guest!KidDies PROVE CarriesOn
  BY <1>0, <1>16, KidDoes DEF Writes, Rests
<1>17. CASE UNCHANGED guestVars
  BY <1>17 DEF guestVars
<1> QED
  BY <1>1, <1>2, <1>3, <1>4, <1>5, <1>6, <1>7, <1>8, <1>9, <1>10, <1>11, <1>12, <1>13, <1>14, <1>15, <1>16, <1>17, Zenon DEF Guest!GuestNext, Guest!Reader, Guest!Task

LEMMA TaskGoes ==
  ASSUME GuestTypes, NEW i \in Invocations, NEW s \in Steps, task' = [task EXCEPT ![i] = s]
  PROVE  task'[i] = s /\ \A j \in Invocations \ {i} : task'[j] = task[j]
BY DEF GuestTypes

LEMMA HeldStep == ASSUME GuestInv, Guest!GuestNext \/ UNCHANGED guestVars PROVE HeldInv'
<1>0. GuestTypes /\ HeldInv /\ HeldInv /\ \A j \in Invocations : load[j].id \in Guest!CallIds
  BY LoadsHaveIds DEF GuestInv, HoldInv, GuestTypes
<1> USE DEF HeldInv, Held, Tokened, Answered
<1>1. CASE CarriesOn
  BY <1>0, <1>1 DEF CarriesOn
<1>2. ASSUME NEW i \in Invocations, Guest!Hold(i) PROVE HeldInv'
  <2>1. CASE UNCHANGED <<load, task, entry>>
    BY <1>0, <2>1
  <2>2. CASE /\ entry[CallOf(load[i].id)] = "none" /\ entry'[CallOf(load[i].id)] = "open"
             /\ task' = [task EXCEPT ![i] = "held"] /\ Rests({}, {}, {load[i].id}) /\ UNCHANGED load
    <3>1. task'[i] = "held" /\ \A j \in Invocations \ {i} : task'[j] = task[j]
      BY <1>0, <2>2 DEF GuestTypes
    <3> QED
      BY <1>0, <2>2, <3>1 DEF Rests
  <2> QED
    BY <1>0, <1>2, <2>1, <2>2, HoldDoes
<1>3. ASSUME NEW i \in Invocations, Guest!TakeToken(i) PROVE HeldInv'
  BY <1>0, <1>3 DEF Guest!TakeToken, Guest!At, Guest!Goes, GuestTypes
<1>4. ASSUME NEW i \in Invocations, Guest!Refuse(i) PROVE HeldInv'
  BY <1>0, <1>4 DEF Guest!Refuse, Guest!At, Guest!Goes, GuestTypes
<1>5. ASSUME NEW i \in Invocations, Guest!Answers(i) PROVE HeldInv'
  <2>0. /\ UNCHANGED <<load, tokens>> /\ "answered" \in Steps /\ "closing" \in Steps
        /\ \/ task[i] = "done" /\ task' = [task EXCEPT ![i] = "answered"]
           \/ task[i] = "untokened" /\ task' = [task EXCEPT ![i] = "closing"]
    BY <1>0, <1>5, AnswersDoes DEF Steps, Answered
  <2>1. /\ UNCHANGED <<load, tokens>> /\ \A j \in Invocations \ {i} : task'[j] = task[j]
        /\ \/ task[i] = "done" /\ task'[i] = "answered"
           \/ task[i] = "untokened" /\ task'[i] = "closing"
    <3>1. ASSUME NEW s \in Steps, task' = [task EXCEPT ![i] = s]
          PROVE  task'[i] = s /\ \A j \in Invocations \ {i} : task'[j] = task[j]
      BY <1>0, <3>1, TaskGoes
    <3> QED
      BY <2>0, <3>1
  <2>2. entry'[CallOf(load[i].id)] = "none" /\ Rests({}, {}, {load[i].id})
    BY <1>0, <1>5, AnswersDoes
  <2> QED
    BY <1>0, <2>1, <2>2 DEF Rests
<1>6. ASSUME NEW i \in Invocations, Guest!DropToken(i) PROVE HeldInv'
  BY <1>0, <1>6 DEF Guest!DropToken, Guest!At, Guest!Goes, GuestTypes
<1> QED
  BY <1>1, <1>2, <1>3, <1>4, <1>5, <1>6, GuestCarriesOn, Zenon

LEMMA TokenStep == ASSUME GuestInv, Guest!GuestNext \/ UNCHANGED guestVars PROVE TokenInv'
<1>0. GuestTypes /\ HeldInv /\ TokenInv /\ \A j \in Invocations : load[j].id \in Guest!CallIds
  BY LoadsHaveIds DEF GuestInv, HoldInv, GuestTypes
<1> USE DEF TokenInv, Held, Tokened, Answered
<1>1. CASE CarriesOn
  BY <1>0, <1>1 DEF CarriesOn, GuestTypes
<1>2. ASSUME NEW i \in Invocations, Guest!Hold(i) PROVE TokenInv'
  <2>0. /\ UNCHANGED <<load, tokens, pipe>> /\ "held" \in Steps
        /\ \/ UNCHANGED task
           \/ task[i] = "spawned" /\ task' = [task EXCEPT ![i] = "held"]
    BY <1>0, <1>2, HoldDoes DEF Steps
  <2>1. /\ UNCHANGED <<load, tokens, pipe>>
        /\ \/ UNCHANGED task
           \/ task[i] = "spawned" /\ task'[i] = "held" /\ \A j \in Invocations \ {i} : task'[j] = task[j]
    <3>1. ASSUME NEW s \in Steps, task' = [task EXCEPT ![i] = s]
          PROVE  task'[i] = s /\ \A j \in Invocations \ {i} : task'[j] = task[j]
      BY <1>0, <3>1, TaskGoes
    <3> QED
      BY <2>0, <3>1
  <2> QED
    BY <1>0, <2>1 DEF GuestTypes
<1>3. ASSUME NEW i \in Invocations, Guest!TakeToken(i) PROVE TokenInv'
  BY <1>0, <1>3 DEF Guest!TakeToken, Guest!At, Guest!Goes, GuestTypes
<1>4. ASSUME NEW i \in Invocations, Guest!Refuse(i) PROVE TokenInv'
  BY <1>0, <1>4 DEF Guest!Refuse, Guest!At, Guest!Goes, GuestTypes
<1>5. ASSUME NEW i \in Invocations, Guest!Answers(i) PROVE TokenInv'
  <2>0. /\ UNCHANGED <<load, tokens>> /\ "answered" \in Steps /\ "closing" \in Steps
        /\ \/ task[i] = "done" /\ task' = [task EXCEPT ![i] = "answered"]
           \/ task[i] = "untokened" /\ task' = [task EXCEPT ![i] = "closing"]
    BY <1>0, <1>5, AnswersDoes DEF Steps, Answered
  <2>1. /\ UNCHANGED <<load, tokens>> /\ \A j \in Invocations \ {i} : task'[j] = task[j]
        /\ \/ task[i] = "done" /\ task'[i] = "answered"
           \/ task[i] = "untokened" /\ task'[i] = "closing"
    <3>1. ASSUME NEW s \in Steps, task' = [task EXCEPT ![i] = s]
          PROVE  task'[i] = s /\ \A j \in Invocations \ {i} : task'[j] = task[j]
      BY <1>0, <3>1, TaskGoes
    <3> QED
      BY <2>0, <3>1
  <2> QED
    BY <1>0, <2>1 DEF GuestTypes
<1>6. ASSUME NEW i \in Invocations, Guest!DropToken(i) PROVE TokenInv'
  BY <1>0, <1>6 DEF Guest!DropToken, Guest!At, Guest!Goes, GuestTypes
<1> QED
  BY <1>1, <1>2, <1>3, <1>4, <1>5, <1>6, GuestCarriesOn, Zenon

LEMMA ResultStep == ASSUME GuestInv, Guest!GuestNext \/ UNCHANGED guestVars PROVE ResultInv'
<1>0. GuestTypes /\ HeldInv /\ ResultInv /\ \A j \in Invocations : load[j].id \in Guest!CallIds
  BY LoadsHaveIds DEF GuestInv, HoldInv, GuestTypes
<1> USE DEF ResultInv, Held, Tokened, Answered
<1>1. CASE CarriesOn
  BY <1>0, <1>1 DEF CarriesOn
<1>2. ASSUME NEW i \in Invocations, Guest!Hold(i) PROVE ResultInv'
  <2>0. /\ UNCHANGED <<load, tokens, pipe>> /\ "held" \in Steps
        /\ \/ UNCHANGED task
           \/ task[i] = "spawned" /\ task' = [task EXCEPT ![i] = "held"]
    BY <1>0, <1>2, HoldDoes DEF Steps
  <2>1. /\ UNCHANGED <<load, tokens, pipe>>
        /\ \/ UNCHANGED task
           \/ task[i] = "spawned" /\ task'[i] = "held" /\ \A j \in Invocations \ {i} : task'[j] = task[j]
    <3>1. ASSUME NEW s \in Steps, task' = [task EXCEPT ![i] = s]
          PROVE  task'[i] = s /\ \A j \in Invocations \ {i} : task'[j] = task[j]
      BY <1>0, <3>1, TaskGoes
    <3> QED
      BY <2>0, <3>1
  <2> QED
    BY <1>0, <2>1 DEF GuestTypes
<1>3. ASSUME NEW i \in Invocations, Guest!TakeToken(i) PROVE ResultInv'
  BY <1>0, <1>3 DEF Guest!TakeToken, Guest!At, Guest!Goes, GuestTypes
<1>4. ASSUME NEW i \in Invocations, Guest!Refuse(i) PROVE ResultInv'
  BY <1>0, <1>4 DEF Guest!Refuse, Guest!At, Guest!Goes, GuestTypes
<1>5. ASSUME NEW i \in Invocations, Guest!Answers(i) PROVE ResultInv'
  <2>0. /\ UNCHANGED <<load, tokens>> /\ "answered" \in Steps /\ "closing" \in Steps
        /\ \/ task[i] = "done" /\ task' = [task EXCEPT ![i] = "answered"]
           \/ task[i] = "untokened" /\ task' = [task EXCEPT ![i] = "closing"]
    BY <1>0, <1>5, AnswersDoes DEF Steps, Answered
  <2>1. /\ UNCHANGED <<load, tokens>> /\ \A j \in Invocations \ {i} : task'[j] = task[j]
        /\ \/ task[i] = "done" /\ task'[i] = "answered"
           \/ task[i] = "untokened" /\ task'[i] = "closing"
    <3>1. ASSUME NEW s \in Steps, task' = [task EXCEPT ![i] = s]
          PROVE  task'[i] = s /\ \A j \in Invocations \ {i} : task'[j] = task[j]
      BY <1>0, <3>1, TaskGoes
    <3> QED
      BY <2>0, <3>1
  <2>2. Writes("result", i) /\ pipe[Guest!Line("result", i)] = 0
    BY <1>0, <1>5, <2>1, AnswersDoes DEF HeldInv
  <2>3. \A j \in Invocations : pipe'[Guest!Line("result", j)] = IF j = i THEN 1 ELSE pipe[Guest!Line("result", j)]
    BY <2>2 DEF Writes, LineTypes, Numbers
  <2> QED
    BY <1>0, <2>1, <2>3
<1>6. ASSUME NEW i \in Invocations, Guest!DropToken(i) PROVE ResultInv'
  BY <1>0, <1>6 DEF Guest!DropToken, Guest!At, Guest!Goes, GuestTypes
<1> QED
  BY <1>1, <1>2, <1>3, <1>4, <1>5, <1>6, GuestCarriesOn, Zenon

LEMMA BuyStep == ASSUME GuestInv, Guest!GuestNext \/ UNCHANGED guestVars PROVE BuyInv'
<1> USE DEF GuestInv, HoldInv, GuestTypes, BuyInv, Resumes, Rests
<1>1. ASSUME NEW line \in Guest!HostLines, Guest!HostSends(line) PROVE BuyInv'
  BY <1>1 DEF Guest!HostSends
<1>2. ASSUME NEW line, Guest!Hear(line) PROVE BuyInv'
  BY <1>2 DEF Guest!Hear
<1>3. ASSUME Guest!OnCall PROVE BuyInv'
  BY <1>3, DispatchTakes, HostLinesAre DEF InboxInv, Guest!OnCall
<1>4. ASSUME Guest!OnCancel PROVE BuyInv'
  BY <1>4, DispatchTakes, HostLinesAre, LoadsHaveIds DEF Guest!OnCancel
<1>5. ASSUME Guest!OnAnswer PROVE BuyInv'
  BY <1>5, DispatchTakes, AnswerDoes DEF Guest!OnAnswer
<1>6. ASSUME Guest!OnService PROVE BuyInv'
  BY <1>6, DispatchTakes, ServiceDoes DEF Guest!OnService
<1>7. ASSUME Guest!OnHostCard PROVE BuyInv'
  BY <1>7, DispatchTakes, HostCardDoes
<1>8. ASSUME Guest!OnUnknown PROVE BuyInv'
  BY <1>8, DispatchTakes DEF Guest!OnUnknown
<1>9. ASSUME Guest!HostCloses PROVE BuyInv'
  BY <1>9 DEF Guest!HostCloses
<1>10. ASSUME NEW i \in Invocations, Guest!Hold(i) PROVE BuyInv'
  BY <1>10, HoldDoes
<1>11. ASSUME NEW i \in Invocations, Guest!TakeToken(i) PROVE BuyInv'
  BY <1>11 DEF Guest!TakeToken, Guest!At, Guest!Goes
<1>12. ASSUME NEW i \in Invocations, Guest!Ask(i) PROVE BuyInv'
  BY <1>12, AskDoes
<1>13. ASSUME NEW i \in Invocations, Guest!AskGivesUp(i) PROVE BuyInv'
  BY <1>13 DEF Guest!AskGivesUp, Guest!At, Guest!Goes
<1>14. ASSUME NEW i \in Invocations, Guest!SelfAnswers(i) PROVE BuyInv'
  BY <1>14, SelfAnswerDoes
<1>15. ASSUME NEW i \in Invocations, Guest!Complete(i) PROVE BuyInv'
  BY <1>15, CompleteDoes
<1>16. ASSUME NEW i \in Invocations, Guest!BodyEnds(i) PROVE BuyInv'
  BY <1>16 DEF Guest!BodyEnds, Guest!At, Guest!Goes
<1>17. ASSUME NEW i \in Invocations, Guest!Refuse(i) PROVE BuyInv'
  BY <1>17 DEF Guest!Refuse, Guest!At, Guest!Goes
<1>18. ASSUME NEW i \in Invocations, Guest!Answers(i) PROVE BuyInv'
  BY <1>18, AnswersDoes
<1>19. ASSUME NEW i \in Invocations, Guest!DropToken(i) PROVE BuyInv'
  BY <1>19 DEF Guest!DropToken, Guest!At, Guest!Goes
<1>20. ASSUME NEW i \in Invocations, Guest!Sweep(i) PROVE BuyInv'
  BY <1>20, SweepDoes
<1>21. ASSUME Guest!KidAsks \/ Guest!AuthorAnswers \/ Guest!KidSettles \/ Guest!KidDies PROVE BuyInv'
  BY <1>21, KidDoes
<1>22. CASE UNCHANGED guestVars
  BY <1>22 DEF guestVars
<1> QED
  BY <1>1, <1>2, <1>3, <1>4, <1>5, <1>6, <1>7, <1>8, <1>9, <1>10, <1>11, <1>12, <1>13, <1>14, <1>15, <1>16, <1>17, <1>18, <1>19, <1>20, <1>21, <1>22, Zenon DEF Guest!GuestNext, Guest!Reader, Guest!Task

LEMMA DeathStep == ASSUME GuestInv, Guest!GuestNext \/ UNCHANGED guestVars PROVE DeathInv'
<1>0. GuestTypes /\ InboxInv /\ HeldInv /\ DeathInv
  BY DEF GuestInv, HoldInv
<1>1. ASSUME NEW line \in Guest!HostLines, Guest!HostSends(line) PROVE DeathInv'
  <2>1. asked \subseteq asked' /\ UNCHANGED <<gone, load>>
    BY <1>1 DEF Guest!HostSends
  <2> QED
    BY <1>0, <2>1 DEF DeathInv, Guest!Breached
<1>2. CASE UNCHANGED <<asked, load, gone>>
  BY <1>0, <1>2 DEF DeathInv, Guest!Breached
<1>3. CASE Guest!OnUnknown
  <2>1. UNCHANGED <<asked, load>> /\ gone = "no"
    BY <1>0, <1>3, DispatchTakes DEF Guest!OnUnknown
  <2>2. ASSUME gone' = "died" PROVE Guest!Line("broken", Guest!ChildCard) \in asked
    <3>0. gone' # gone
      BY <2>1, <2>2
    <3>1. Guest!Dispatch("broken")
      BY <1>3, <3>0 DEF Guest!OnUnknown
    <3>2. inbox[1] = Guest!Line("broken", 0) /\ inbox[1].type = "broken" /\ 1 \in DOMAIN inbox
      BY <1>0, <3>1, DispatchTakes, HostLinesAre
    <3> QED
      BY <1>0, <3>2, NumbersAre DEF InboxInv, Repeatable
  <2> QED
    BY <2>1, <2>2 DEF DeathInv, Guest!Breached
<1>4. ASSUME NEW i \in Invocations, Guest!Hold(i) PROVE DeathInv'
  <2>1. UNCHANGED <<asked, load>> /\ task[i] = "spawned" /\ gone = "no" /\ (UNCHANGED gone \/ entry[CallOf(load[i].id)] # "none")
    BY <1>0, <1>4, HoldDoes
  <2>2. ASSUME gone' = "died" PROVE Guest!Breached
    <3>1. PICK j \in Invocations : load[j].id = load[i].id /\ task[j] \in Held
      BY <1>0, <2>1, <2>2 DEF HeldInv
    <3>2. i # j /\ Guest!Line("call", i) \in asked /\ Guest!Line("call", j) \in asked
      BY <1>0, <2>1, <3>1 DEF InboxInv, Held
    <3> QED
      BY <3>1, <3>2 DEF Guest!Breached
  <2> QED
    BY <2>1, <2>2 DEF DeathInv, Guest!Breached
<1>5. CASE Guest!HostCloses
  BY <1>5 DEF DeathInv, Guest!HostCloses
<1>6. CASE UNCHANGED guestVars
  BY <1>2, <1>6 DEF guestVars
<1>7. \/ UNCHANGED <<asked, load, gone>> \/ Guest!OnUnknown \/ Guest!HostCloses
      \/ (\E i \in Invocations : Guest!Hold(i)) \/ (\E line \in Guest!HostLines : Guest!HostSends(line))
  <2>1. ASSUME NEW line, Guest!Hear(line) PROVE UNCHANGED <<asked, load, gone>>
    BY <1>0, <2>1 DEF Guest!Hear
  <2>2. ASSUME Guest!OnCall PROVE UNCHANGED <<asked, load, gone>>
    BY <1>0, <2>2, DispatchTakes, HostLinesAre DEF Guest!OnCall
  <2>3. ASSUME Guest!OnCancel PROVE UNCHANGED <<asked, load, gone>>
    BY <1>0, <2>3, DispatchTakes, HostLinesAre, LoadsHaveIds DEF Guest!OnCancel
  <2>4. ASSUME Guest!OnAnswer PROVE UNCHANGED <<asked, load, gone>>
    BY <1>0, <2>4, DispatchTakes, AnswerDoes DEF Guest!OnAnswer
  <2>5. ASSUME Guest!OnService PROVE UNCHANGED <<asked, load, gone>>
    BY <1>0, <2>5, DispatchTakes, ServiceDoes DEF Guest!OnService
  <2>6. ASSUME Guest!OnHostCard PROVE UNCHANGED <<asked, load, gone>>
    BY <1>0, <2>6, DispatchTakes, HostCardDoes
  <2>7. ASSUME NEW i \in Invocations, Guest!TakeToken(i) PROVE UNCHANGED <<asked, load, gone>>
    BY <1>0, <2>7 DEF Guest!TakeToken, Guest!At, Guest!Goes
  <2>8. ASSUME NEW i \in Invocations, Guest!Ask(i) PROVE UNCHANGED <<asked, load, gone>>
    BY <1>0, <2>8, AskDoes
  <2>9. ASSUME NEW i \in Invocations, Guest!AskGivesUp(i) PROVE UNCHANGED <<asked, load, gone>>
    BY <1>0, <2>9 DEF Guest!AskGivesUp, Guest!At, Guest!Goes
  <2>10. ASSUME NEW i \in Invocations, Guest!SelfAnswers(i) PROVE UNCHANGED <<asked, load, gone>>
    BY <1>0, <2>10, SelfAnswerDoes
  <2>11. ASSUME NEW i \in Invocations, Guest!Complete(i) PROVE UNCHANGED <<asked, load, gone>>
    BY <1>0, <2>11, CompleteDoes
  <2>12. ASSUME NEW i \in Invocations, Guest!BodyEnds(i) PROVE UNCHANGED <<asked, load, gone>>
    BY <1>0, <2>12 DEF Guest!BodyEnds, Guest!At, Guest!Goes
  <2>13. ASSUME NEW i \in Invocations, Guest!Refuse(i) PROVE UNCHANGED <<asked, load, gone>>
    BY <1>0, <2>13 DEF Guest!Refuse, Guest!At, Guest!Goes
  <2>14. ASSUME NEW i \in Invocations, Guest!Answers(i) PROVE UNCHANGED <<asked, load, gone>>
    BY <1>0, <2>14, AnswersDoes
  <2>15. ASSUME NEW i \in Invocations, Guest!DropToken(i) PROVE UNCHANGED <<asked, load, gone>>
    BY <1>0, <2>15 DEF Guest!DropToken, Guest!At, Guest!Goes
  <2>16. ASSUME NEW i \in Invocations, Guest!Sweep(i) PROVE UNCHANGED <<asked, load, gone>>
    BY <1>0, <2>16, SweepDoes
  <2>17. ASSUME Guest!KidAsks \/ Guest!AuthorAnswers \/ Guest!KidSettles \/ Guest!KidDies PROVE UNCHANGED <<asked, load, gone>>
    BY <1>0, <2>17, KidDoes
  <2> QED
    BY <2>1, <2>2, <2>3, <2>4, <2>5, <2>6, <2>7, <2>8, <2>9, <2>10, <2>11, <2>12, <2>13, <2>14, <2>15, <2>16, <2>17, <1>6, Zenon DEF Guest!GuestNext, Guest!Reader, Guest!Task, guestVars
<1> QED
  BY <1>1, <1>2, <1>3, <1>4, <1>5, <1>7

LEMMA GuestMoves == ASSUME GuestInv, Guest!GuestNext \/ UNCHANGED guestVars PROVE GuestInv'
BY GuestTypesStep, InboxStep, TrippedStep, CardStep, HeldStep, TokenStep, ResultStep, BuyStep, DeathStep DEF GuestInv, HoldInv

LEMMA GuestStarts == Guest!Init => GuestInv
<1> SUFFICES ASSUME Guest!Init PROVE GuestInv
  OBVIOUS
<1>1. /\ \A line \in Guest!GuestLines : pipe[line] = 0
      /\ \A q \in Guest!Questions : entry[q] = "none"
      /\ \A i \in Invocations : task[i] = "none"
      /\ \A id \in Guest!CallIds : tokens[id] = 0
      /\ asked = {} /\ inbox = <<>> /\ tripped = {} /\ gone = "no" /\ load \in Loads /\ kid \in {"absent", "none"}
  BY DEF Guest!Init
<1>2. \A t \in LineTypes, o \in Numbers : pipe[Guest!Line(t, o)] = 0
  BY <1>1, LinesAre
<1>3. /\ \A i \in Numbers : entry[Guest!Question(i)] = "none"
      /\ \A i \in Invocations : entry[Guest!Service(i)] = "none"
      /\ \A id \in Guest!CallIds : entry[CallOf(id)] = "none"
  BY <1>1, QuestionsAre
<1>4. GuestTypes
  BY DEF Guest!Init, GuestTypes, Openness, Steps
<1>5. InboxInv /\ TrippedInv
  BY <1>1 DEF InboxInv, TrippedInv
<1>6. HoldInv
  BY <1>1, <1>2, <1>3, LoadsHaveIds
     DEF HoldInv, HeldInv, TokenInv, ResultInv, BuyInv, DeathInv, Held, Answered, LineTypes, Numbers
<1>7. CardInv
  BY <1>1, <1>2, <1>3 DEF CardInv, CardOf, KidCard, LineTypes, Numbers
<1> QED
  BY <1>4, <1>5, <1>6, <1>7 DEF GuestInv

\* What the guest promises follows.
LEMMA GuestHolds == GuestInv => Guest!OneResult /\ Guest!CardsArePairs /\ Guest!CardsCrossByMode /\ Guest!DiesOfBreach
<1> SUFFICES ASSUME GuestInv PROVE Guest!OneResult /\ Guest!CardsArePairs /\ Guest!CardsCrossByMode /\ Guest!DiesOfBreach
  OBVIOUS
<1>0. GuestTypes /\ InboxInv /\ HeldInv /\ TokenInv /\ ResultInv /\ DeathInv /\ CardInv /\ TrippedInv
  BY DEF GuestInv, HoldInv
<1>1. ASSUME NEW i \in Invocations, ~Guest!Breached, task[i] = "over"
      PROVE  tokens[load[i].id] = 0 /\ entry[Guest!Call(i)] = "none"
  <2>1. Guest!Line("call", i) \in asked
    BY <1>0, <1>1 DEF InboxInv
  <2>2. ASSUME NEW j \in Invocations, load[j].id = load[i].id, task[j] \in Held \cup Tokened
        PROVE  FALSE
    <3>1. j # i /\ Guest!Line("call", j) \in asked
      BY <1>0, <1>1, <2>2 DEF InboxInv, Held, Tokened
    <3> QED
      BY <1>1, <2>1, <2>2, <3>1 DEF Guest!Breached
  <2>3. tokens[load[i].id] \in Invocations \cup {0}
    BY <1>0, LoadsHaveIds DEF GuestTypes
  <2>4. tokens[load[i].id] = 0
    BY <1>0, <2>2, <2>3 DEF TokenInv
  <2>5. entry[CallOf(load[i].id)] = "none"
    BY <1>0, <2>2 DEF HeldInv
  <2> QED
    BY <2>4, <2>5 DEF Guest!Call, CallOf
<1>2. Guest!OneResult
  BY <1>0, <1>1 DEF Guest!OneResult, ResultInv, TrippedInv, Answered
<1>3. ASSUME NEW i \in Invocations
      PROVE  /\ pipe[Guest!Line("request", i)] <= 1 /\ pipe[Guest!Line("settled", i)] <= 1
             /\ Guest!Said(Guest!Line("settled", i)) => Guest!Said(Guest!Line("request", i))
             /\ task[i] = "over" => (Guest!Said(Guest!Line("request", i)) => Guest!Said(Guest!Line("settled", i)))
  <2>1. CardOf(i)
    BY <1>0 DEF CardInv
  <2> QED
    BY <2>1 DEF CardOf, Guest!Said
<1>4. /\ pipe[Guest!Line("request", 0)] <= 1 /\ pipe[Guest!Line("settled", 0)] <= 1
      /\ Guest!Said(Guest!Line("settled", 0)) => Guest!Said(Guest!Line("request", 0)) \/ (mode = "answerer" /\ kid = "dead")
  BY <1>0 DEF CardInv, KidCard, Guest!Said, GuestTypes
<1>5. Guest!CardsArePairs
  BY <1>3, <1>4, NumbersAre DEF Guest!CardsArePairs
<1>6. Guest!CardsCrossByMode
  BY <1>0, NumbersAre DEF CardInv, KidCard, Guest!CardsCrossByMode, Guest!Said, GuestTypes
<1> QED
  BY <1>0, <1>2, <1>5, <1>6 DEF DeathInv, Guest!DiesOfBreach

-----------------------------------------------------------------------------
(* The pool's children                                                     *)

Driven(k) == call[k] \in {"driving", "reaping"}
Failed(c) == \E j \in Calls : at[j] = c /\ call[j] \in {"reaping", "failed", "panicked"}

Lives == {"unborn", "idle", "working", "gone"}
Messages == Calls \cup {"user"}
Inputs == Messages \cup {"abort"}
Endings == {"waiting", "over", "awaited"}
CallSteps == {"new", "queued", "driving", "reaping", "completed", "failed", "panicked", "missed", "refused"}
Frames == [own : BOOLEAN, outcome : {"completed", "aborted", "failed"}, run : SUBSET Messages]
PoolTypes ==
  /\ life \in [Children -> Lives] /\ serving \in [Children -> SUBSET Messages] /\ lines \in [Children -> Seq(Inputs)]
  /\ closing \in [Children -> BOOLEAN] /\ hungup \in [Children -> BOOLEAN] /\ frames \in [Children -> Seq(Frames)]
  /\ ending \in [Children -> Endings] /\ parked \in [Ids -> Children \cup {0}] /\ lastUsed \in [Children -> Nat]
  /\ slot \in [Children -> Calls \cup {"none"}] /\ call \in [Calls -> CallSteps]
  /\ at \in [Calls -> Children \cup {0}] /\ named \in [Calls -> Ids \cup {"none"}] /\ answer \in [Calls -> SUBSET Messages]
  /\ turn \in Nat /\ steers \in Nat /\ fired \in BOOLEAN

\* A handle is held by the call that drives its child, and nothing is known of the unborn.
HandleInv ==
  /\ \A k \in Calls : Pool!Active(k) \/ named[k] # "none" => at[k] # 0
  /\ \A k \in Calls : Driven(k) => slot[at[k]] = k
  /\ \A c \in Children : slot[c] # "none" => at[slot[c]] = c /\ Driven(slot[c])
  /\ \A k \in Calls : at[k] # 0 => life[at[k]] # "unborn"
  /\ \A i \in Ids : parked[i] # 0 => life[parked[i]] # "unborn"
  /\ \A c \in Children : life[c] = "unborn" => lines[c] = <<>> /\ serving[c] = {} /\ frames[c] = <<>>
  /\ \A c \in Children : ending[c] # "waiting" => life[c] = "gone"

\* A child is named once, by the call it was parked for, and others meet it by that name.
NamesInv ==
  /\ \A k \in Calls : call[k] = "completed" <=> named[k] # "none"
  /\ \A j, k \in Calls : at[j] = at[k] /\ named[j] # "none" /\ named[k] # "none" => named[j] = named[k]
  /\ \A i \in Ids : parked[i] # 0 => \E j \in Calls : at[j] = parked[i] /\ named[j] = i
  /\ \A j, k \in Calls : j # k /\ at[j] = at[k] /\ at[j] # 0 => \E m \in Calls : at[m] = at[j] /\ named[m] # "none"

\* Before an abort, a drive finds its child under the name it has, unless a call to it failed.
KeptInv ==
  ~fired => \A j, k \in Calls : Pool!Active(k) /\ at[j] = at[k] /\ named[j] # "none" =>
    parked[named[j]] = at[j] \/ Failed(at[j])

\* Before an abort, all there is between a drive and its child is the one message, the run
\* it opened or that run's end.
Awaited(c) ==
  /\ frames[c] # <<>> \/ life[c] = "working" \/ (lines[c] # <<>> /\ life[c] # "gone") =>
       slot[c] # "none" /\ call[slot[c]] = "driving"
  /\ life[c] = "working" => lines[c] = <<>> /\ serving[c] = {slot[c]}
  /\ life[c] = "idle" => serving[c] = {} /\ (lines[c] # <<>> => lines[c] = <<slot[c]>> /\ frames[c] = <<>>)
  /\ \A n \in DOMAIN frames[c] :
       frames[c][n].own = TRUE => frames[c][n].run = {slot[c]} /\ n = Len(frames[c]) /\ life[c] # "working"
AllAwaited == \A c \in Children : Awaited(c)
MessageInv == steers = 0 /\ (fired # TRUE => AllAwaited)

PoolInv ==
  /\ PoolTypes /\ HandleInv /\ NamesInv /\ KeptInv /\ MessageInv
  /\ Pool!NoOrphans /\ Pool!OwnAnswer /\ Pool!NamedIdAnswers /\ Pool!NoneOverstays

\* The ways a drive reads a terminal: not its own stream's, the first completed one, a later
\* one, any other.
Done(k) ==
  /\ call[k] = "driving" /\ frames[at[k]] # <<>> /\ Head(frames[at[k]]).own = TRUE
  /\ frames' = [frames EXCEPT ![at[k]] = Tail(frames[at[k]])]
  /\ answer' = [answer EXCEPT ![k] = Head(frames[at[k]]).run]
  /\ UNCHANGED <<life, serving, hungup, ending, lines, turn, at, fired, steers>>
Parks(k, i) ==
  /\ Done(k) /\ call' = [call EXCEPT ![k] = "completed"]
  /\ slot' = [slot EXCEPT ![at[k]] = "none"] /\ lastUsed' = [lastUsed EXCEPT ![at[k]] = turn]
  /\ Pool!IdOf(at[k]) = {} /\ (\A j \in Calls \ {k} : at[j] # at[k])
  /\ parked[i] = 0 /\ parked' = [parked EXCEPT ![i] = at[k]] /\ named' = [named EXCEPT ![k] = i]
  /\ UNCHANGED closing
LetGo(k) == Pool!IdOf(at[k]) = {} /\ ~\E j \in Calls \ {k} : at[j] = at[k] /\ Pool!Active(j)
Stamps(k, i) ==
  /\ Done(k) /\ call' = [call EXCEPT ![k] = "completed"]
  /\ slot' = [slot EXCEPT ![at[k]] = "none"] /\ lastUsed' = [lastUsed EXCEPT ![at[k]] = turn]
  /\ \E j \in Calls : at[j] = at[k] /\ named[j] = i
  /\ named' = [named EXCEPT ![k] = i] /\ UNCHANGED parked
  /\ IF LetGo(k) THEN closing' = [closing EXCEPT ![at[k]] = TRUE] ELSE UNCHANGED closing
Fails(k) ==
  /\ Done(k) /\ call' = [call EXCEPT ![k] = "reaping"] /\ closing' = [closing EXCEPT ![at[k]] = TRUE]
  /\ UNCHANGED <<parked, lastUsed, slot, named>>
Foreign(k) ==
  /\ call[k] = "driving" /\ frames[at[k]] # <<>> /\ Head(frames[at[k]]).own # TRUE
  /\ frames' = [frames EXCEPT ![at[k]] = Tail(frames[at[k]])]
  /\ UNCHANGED <<life, serving, hungup, ending, lines, turn, at, fired, steers, closing, parked, lastUsed, slot, call, answer, named>>

EndsRun(c, outcome) ==
  /\ Pool!ChildEndsRun(c)
  /\ frames' = [frames EXCEPT ![c] = Append(@, [own |-> TRUE, outcome |-> outcome, run |-> serving[c]])]

\* A child that was named has that name, and one that others reach was named.
LEMMA NamesAre ==
  ASSUME NamesInv, PoolTypes, NEW c \in Children
  PROVE  /\ \A j \in Calls : at[j] = c /\ named[j] # "none" => Pool!NameOf(c) = named[j]
         /\ \A k \in Calls : at[k] = c /\ (Pool!IdOf(c) # {} \/ \E j \in Calls \ {k} : at[j] = c) =>
              Pool!NameOf(c) \in Ids /\ \E j \in Calls : at[j] = at[k] /\ named[j] = Pool!NameOf(c)
<1>1. ASSUME NEW j \in Calls, at[j] = c, named[j] # "none" PROVE Pool!NameOf(c) = named[j]
  <2> DEFINE P(i) == \E m \in Calls : at[m] = c /\ named[m] = i
  <2>1. named[j] \in Ids /\ P(named[j])
    BY <1>1 DEF PoolTypes
  <2>2. \A i \in Ids : P(i) => i = named[j]
    BY <1>1, ChildrenAssumption DEF NamesInv
  <2>3. Pool!NameOf(c) = CHOOSE i \in Ids : P(i)
    BY DEF Pool!NameOf
  <2> HIDE DEF P
  <2> QED
    BY <2>1, <2>2, <2>3
<1>2. ASSUME NEW k \in Calls, at[k] = c, Pool!IdOf(c) # {} \/ \E j \in Calls \ {k} : at[j] = c
      PROVE  \E j \in Calls : at[j] = c /\ named[j] # "none"
  <2>1. CASE Pool!IdOf(c) # {}
    BY <2>1, ChildrenAssumption DEF Pool!IdOf, NamesInv
  <2>2. CASE \E j \in Calls \ {k} : at[j] = c
    BY <1>2, <2>2, ChildrenAssumption DEF NamesInv
  <2> QED
    BY <1>2, <2>1, <2>2
<1> QED
  BY <1>1, <1>2 DEF PoolTypes

LEMMA SettlesDoes ==
  ASSUME PoolTypes, HandleInv, NamesInv, NEW k \in Calls, Pool!Settles(k)
  PROVE  Foreign(k) \/ (\E i \in Ids : Parks(k, i) \/ Stamps(k, i)) \/ Fails(k)
<1> DEFINE c == at[k]
           frame == Head(frames[c])
<1>1. /\ call[k] = "driving" /\ frames[c] # <<>> /\ frames' = [frames EXCEPT ![c] = Tail(frames[c])]
      /\ UNCHANGED <<life, serving, hungup, ending, lines, turn, at, fired, steers>>
  BY DEF Pool!Settles
<1>2. CASE ~frame.own
  BY <1>1, <1>2 DEF Pool!Settles, Foreign
<1>3. CASE frame.own /\ frame.outcome = "completed"
  <2>1. Pool!Completes(k, c, frame.run)
    BY <1>3 DEF Pool!Settles
  <2>2. c \in Children /\ frames[c] \in Seq(Frames)
    BY <1>1 DEF PoolTypes, HandleInv, Pool!Active
  <2>3. frame \in Frames
    BY <1>1, <2>2
  <2>4. frame.own = TRUE
    BY <1>3, <2>3 DEF Frames
  <2>5. Done(k)
    BY <1>1, <2>1, <2>4 DEF Done, Pool!Completes
  <2>6. CASE /\ Pool!IdOf(c) = {} /\ (\A j \in Calls \ {k} : at[j] # c)
             /\ \E i \in Pool!Fresh : parked' = [parked EXCEPT ![i] = c] /\ named' = [named EXCEPT ![k] = i]
             /\ UNCHANGED closing
    BY <2>1, <2>5, <2>6 DEF Parks, Pool!Completes, Pool!Fresh, Pool!NoChild, Pool!None
  <2>7. CASE /\ Pool!IdOf(c) # {} \/ (\E j \in Calls \ {k} : at[j] = c)
             /\ named' = [named EXCEPT ![k] = Pool!NameOf(c)]
             /\ UNCHANGED parked /\ Pool!Leaves(k, c)
    BY <2>1, <2>2, <2>5, <2>7, NamesAre DEF Stamps, LetGo, Pool!Completes, Pool!Leaves, Pool!Close, Pool!None
  <2> QED
    BY <2>1, <2>6, <2>7 DEF Pool!Completes
<1>4. CASE frame.own /\ frame.outcome # "completed"
  <2>2. c \in Children /\ frames[c] \in Seq(Frames)
    BY <1>1 DEF PoolTypes, HandleInv, Pool!Active
  <2>3. frame \in Frames
    BY <1>1, <2>2
  <2>4. frame.own = TRUE
    BY <1>4, <2>3 DEF Frames
  <2> QED
    BY <1>1, <1>4, <2>4 DEF Pool!Settles, Fails, Done, Pool!Close
<1> QED
  BY <1>2, <1>3, <1>4

-----------------------------------------------------------------------------
(* What each step of the pool changes                                      *)

Alters(D, f, g, x, v) == g[x] = v /\ \A y \in D \ {x} : g[y] = f[y]
LEMMA PoolShapes ==
  PoolTypes => /\ \A k \in Calls : at[k] \in Children \cup {0} /\ named[k] \in Ids \cup {"none"}
               /\ \A c \in Children : slot[c] \in Calls \cup {"none"} /\ lastUsed[c] \in Nat
               /\ \A i \in Ids : parked[i] \in Children \cup {0}
               /\ turn \in Nat /\ MaxIdle \in Nat /\ 0 \notin Children /\ "none" \notin Calls /\ "none" \notin Ids
BY ChildrenAssumption DEF PoolTypes

LEMMA PoolParts ==
  /\ \A own \in BOOLEAN, outcome \in {"completed", "aborted", "failed"}, run \in SUBSET Messages :
       [own |-> own, outcome |-> outcome, run |-> run] \in Frames
  /\ \A frame \in Frames : frame.own \in BOOLEAN /\ frame.run \in SUBSET Messages
  /\ \A s \in Seq(Frames) : s # <<>> => Head(s) \in Frames /\ Tail(s) \in Seq(Frames)
  /\ \A s \in Seq(Frames), frame \in Frames : Append(s, frame) \in Seq(Frames)
  /\ \A s \in Seq(Inputs) : s # <<>> => Head(s) \in Inputs /\ Tail(s) \in Seq(Inputs)
  /\ \A s \in Seq(Inputs), line \in Inputs : Append(s, line) \in Seq(Inputs)
  /\ "abort" \in Inputs /\ Calls \subseteq Inputs /\ <<>> \in Seq(Inputs) /\ \A line \in Inputs : line # "abort" => line \in Messages
  /\ {"idle", "working", "gone"} \subseteq Lives /\ "over" \in Endings
  /\ {"queued", "driving", "reaping", "completed", "missed", "refused"} \subseteq CallSteps
<1>1. \A s \in Seq(Frames), frame \in Frames : Append(s, frame) \in Seq(Frames)
  OBVIOUS
<1>2. \A s \in Seq(Inputs), line \in Inputs : Append(s, line) \in Seq(Inputs)
  OBVIOUS
<1>3. \A s \in Seq(Frames) : s # <<>> => Head(s) \in Frames /\ Tail(s) \in Seq(Frames)
  OBVIOUS
<1>4. \A s \in Seq(Inputs) : s # <<>> => Head(s) \in Inputs /\ Tail(s) \in Seq(Inputs)
  OBVIOUS
<1>5. /\ \A own \in BOOLEAN, outcome \in {"completed", "aborted", "failed"}, run \in SUBSET Messages :
           [own |-> own, outcome |-> outcome, run |-> run] \in Frames
      /\ \A frame \in Frames : frame.own \in BOOLEAN /\ frame.run \in SUBSET Messages
  BY DEF Frames
<1>6. <<>> \in Seq(Inputs)
  OBVIOUS
<1> QED
  BY <1>1, <1>2, <1>3, <1>4, <1>5, <1>6 DEF Messages, Inputs, Lives, Endings, CallSteps

ReadsLine(c) ==
  /\ UNCHANGED <<closing, hungup, ending, parked, lastUsed, slot, call, at, named, answer, turn, steers, fired>>
  /\ \/ /\ lines[c] # <<>> /\ Head(lines[c]) = "abort" /\ life[c] = "idle"
        /\ Alters(Children, lines, lines', c, Tail(lines[c])) /\ Alters(Children, life, life', c, "idle")
        /\ Alters(Children, serving, serving', c, {})
        /\ UNCHANGED <<frames>>
     \/ /\ lines[c] # <<>> /\ Head(lines[c]) = "abort" /\ life[c] = "working"
        /\ Alters(Children, lines, lines', c, Tail(lines[c])) /\ Alters(Children, life, life', c, "idle")
        /\ Alters(Children, serving, serving', c, {})
        /\ Alters(Children, frames, frames', c, Append(frames[c], [own |-> TRUE, outcome |-> "aborted", run |-> serving[c]]))
     \/ /\ lines[c] # <<>> /\ Head(lines[c]) # "abort" /\ life[c] \in {"idle", "working"}
        /\ Alters(Children, lines, lines', c, Tail(lines[c])) /\ Alters(Children, life, life', c, "working")
        /\ Alters(Children, serving, serving', c, serving[c] \cup {Head(lines[c])})
        /\ UNCHANGED <<frames>>
LEMMA ChildReadsDoes ==
  ASSUME PoolTypes, HandleInv, NEW c \in Children, Pool!ChildReads(c)
  PROVE  PoolTypes' /\ ReadsLine(c)
<1>1. CASE lines[c] # <<>> /\ Head(lines[c]) = "abort" /\ life[c] = "idle"
  <2>1. /\ lines' = [lines EXCEPT ![c] = Tail(lines[c])]
        /\ life' = [life EXCEPT ![c] = "idle"]
        /\ serving' = [serving EXCEPT ![c] = {}]
        /\ UNCHANGED <<closing, hungup, frames, ending, parked, lastUsed, slot, call, at, named, answer, turn, steers, fired>>
    BY <1>1 DEF Pool!ChildReads, Pool!Abort, Pool!procVars, Pool!poolVars, Pool!callVars
  <2>2. Tail(lines[c]) \in Seq(Inputs) /\ "idle" \in Lives /\ {} \in SUBSET Messages
    BY <1>1, <2>1, PoolParts DEF PoolTypes
  <2>3. /\ lines' \in [Children -> Seq(Inputs)] /\ Alters(Children, lines, lines', c, Tail(lines[c]))
        /\ life' \in [Children -> Lives] /\ Alters(Children, life, life', c, "idle")
        /\ serving' \in [Children -> SUBSET Messages] /\ Alters(Children, serving, serving', c, {})
    BY <2>1, <2>2 DEF PoolTypes, Alters
  <2> QED
    BY <1>1, <2>1, <2>3 DEF PoolTypes, ReadsLine
<1>2. CASE lines[c] # <<>> /\ Head(lines[c]) = "abort" /\ life[c] = "working"
  <2>1. /\ lines' = [lines EXCEPT ![c] = Tail(lines[c])]
        /\ life' = [life EXCEPT ![c] = "idle"]
        /\ serving' = [serving EXCEPT ![c] = {}]
        /\ frames' = [frames EXCEPT ![c] = Append(frames[c], [own |-> TRUE, outcome |-> "aborted", run |-> serving[c]])]
        /\ UNCHANGED <<closing, hungup, ending, parked, lastUsed, slot, call, at, named, answer, turn, steers, fired>>
    BY <1>2 DEF Pool!ChildReads, Pool!Abort, Pool!procVars, Pool!poolVars, Pool!callVars
  <2>2. Tail(lines[c]) \in Seq(Inputs) /\ "idle" \in Lives /\ {} \in SUBSET Messages /\ Append(frames[c], [own |-> TRUE, outcome |-> "aborted", run |-> serving[c]]) \in Seq(Frames)
    BY <1>2, <2>1, PoolParts DEF PoolTypes
  <2>3. /\ lines' \in [Children -> Seq(Inputs)] /\ Alters(Children, lines, lines', c, Tail(lines[c]))
        /\ life' \in [Children -> Lives] /\ Alters(Children, life, life', c, "idle")
        /\ serving' \in [Children -> SUBSET Messages] /\ Alters(Children, serving, serving', c, {})
        /\ frames' \in [Children -> Seq(Frames)] /\ Alters(Children, frames, frames', c, Append(frames[c], [own |-> TRUE, outcome |-> "aborted", run |-> serving[c]]))
    BY <2>1, <2>2 DEF PoolTypes, Alters
  <2> QED
    BY <1>2, <2>1, <2>3 DEF PoolTypes, ReadsLine
<1>3. CASE lines[c] # <<>> /\ Head(lines[c]) # "abort" /\ life[c] \in {"idle", "working"}
  <2>1. /\ lines' = [lines EXCEPT ![c] = Tail(lines[c])]
        /\ life' = [life EXCEPT ![c] = "working"]
        /\ serving' = [serving EXCEPT ![c] = serving[c] \cup {Head(lines[c])}]
        /\ UNCHANGED <<closing, hungup, frames, ending, parked, lastUsed, slot, call, at, named, answer, turn, steers, fired>>
    BY <1>3 DEF Pool!ChildReads, Pool!Abort, Pool!procVars, Pool!poolVars, Pool!callVars
  <2>2. Tail(lines[c]) \in Seq(Inputs) /\ "working" \in Lives /\ serving[c] \cup {Head(lines[c])} \in SUBSET Messages
    BY <1>3, <2>1, PoolParts DEF PoolTypes
  <2>3. /\ lines' \in [Children -> Seq(Inputs)] /\ Alters(Children, lines, lines', c, Tail(lines[c]))
        /\ life' \in [Children -> Lives] /\ Alters(Children, life, life', c, "working")
        /\ serving' \in [Children -> SUBSET Messages] /\ Alters(Children, serving, serving', c, serving[c] \cup {Head(lines[c])})
    BY <2>1, <2>2 DEF PoolTypes, Alters
  <2> QED
    BY <1>3, <2>1, <2>3 DEF PoolTypes, ReadsLine
<1> QED
  BY <1>1, <1>2, <1>3 DEF Pool!ChildReads, Pool!Abort, Pool!procVars, Pool!poolVars, Pool!callVars, PoolTypes, HandleInv, Pool!Active

EndsOwnRun(c, outcome) ==
  /\ UNCHANGED <<lines, closing, hungup, ending, parked, lastUsed, slot, call, at, named, answer, turn, steers, fired>>
  /\ life[c] = "working"
  /\ Alters(Children, life, life', c, "idle") /\ Alters(Children, serving, serving', c, {})
  /\ Alters(Children, frames, frames', c, Append(frames[c], [own |-> TRUE, outcome |-> outcome, run |-> serving[c]]))
LEMMA ChildEndsRunDoes ==
  ASSUME PoolTypes, HandleInv, NEW c \in Children, NEW outcome \in {"completed", "failed"}, EndsRun(c, outcome)
  PROVE  PoolTypes' /\ EndsOwnRun(c, outcome)
<1>1. /\ life[c] = "working"
      /\ life' = [life EXCEPT ![c] = "idle"]
      /\ serving' = [serving EXCEPT ![c] = {}]
      /\ frames' = [frames EXCEPT ![c] = Append(frames[c], [own |-> TRUE, outcome |-> outcome, run |-> serving[c]])]
      /\ UNCHANGED <<lines, closing, hungup, ending, parked, lastUsed, slot, call, at, named, answer, turn, steers, fired>>
  BY DEF EndsRun, Pool!ChildEndsRun, Pool!procVars, Pool!poolVars, Pool!callVars
<1>2. "idle" \in Lives /\ {} \in SUBSET Messages /\ Append(frames[c], [own |-> TRUE, outcome |-> outcome, run |-> serving[c]]) \in Seq(Frames)
  BY <1>1, PoolParts DEF PoolTypes
<1>3. /\ life' \in [Children -> Lives] /\ Alters(Children, life, life', c, "idle")
      /\ serving' \in [Children -> SUBSET Messages] /\ Alters(Children, serving, serving', c, {})
      /\ frames' \in [Children -> Seq(Frames)] /\ Alters(Children, frames, frames', c, Append(frames[c], [own |-> TRUE, outcome |-> outcome, run |-> serving[c]]))
  BY <1>1, <1>2 DEF PoolTypes, Alters
<1> QED
  BY <1>1, <1>3 DEF PoolTypes, EndsOwnRun

EndsOtherRun(c) ==
  /\ UNCHANGED <<life, serving, lines, closing, hungup, ending, parked, lastUsed, slot, call, at, named, answer, turn, steers, fired>>
  /\ life[c] = "working" /\ \A n \in DOMAIN frames[c] : frames[c][n].own
  /\ Alters(Children, frames, frames', c, Append(frames[c], [own |-> FALSE, outcome |-> "completed", run |-> {}]))
LEMMA GrandchildEndsRunDoes ==
  ASSUME PoolTypes, HandleInv, NEW c \in Children, Pool!GrandchildEndsRun(c)
  PROVE  PoolTypes' /\ EndsOtherRun(c)
<1>1. /\ life[c] = "working" /\ \A n \in DOMAIN frames[c] : frames[c][n].own
      /\ frames' = [frames EXCEPT ![c] = Append(frames[c], [own |-> FALSE, outcome |-> "completed", run |-> {}])]
      /\ UNCHANGED <<life, serving, lines, closing, hungup, ending, parked, lastUsed, slot, call, at, named, answer, turn, steers, fired>>
  BY DEF Pool!GrandchildEndsRun, Pool!procVars, Pool!poolVars, Pool!callVars
<1>2. Append(frames[c], [own |-> FALSE, outcome |-> "completed", run |-> {}]) \in Seq(Frames)
  BY <1>1, PoolParts DEF PoolTypes
<1>3. /\ frames' \in [Children -> Seq(Frames)] /\ Alters(Children, frames, frames', c, Append(frames[c], [own |-> FALSE, outcome |-> "completed", run |-> {}]))
  BY <1>1, <1>2 DEF PoolTypes, Alters
<1> QED
  BY <1>1, <1>3 DEF PoolTypes, EndsOtherRun

Exits(c) ==
  /\ UNCHANGED <<serving, lines, closing, hungup, frames, ending, parked, lastUsed, slot, call, at, named, answer, turn, steers, fired>>
  /\ life[c] \in {"idle", "working"}
  /\ Alters(Children, life, life', c, "gone")
LEMMA ChildExitsDoes ==
  ASSUME PoolTypes, HandleInv, NEW c \in Children, Pool!ChildExits(c)
  PROVE  PoolTypes' /\ Exits(c)
<1>1. /\ life[c] \in {"idle", "working"}
      /\ life' = [life EXCEPT ![c] = "gone"]
      /\ UNCHANGED <<serving, lines, closing, hungup, frames, ending, parked, lastUsed, slot, call, at, named, answer, turn, steers, fired>>
  BY DEF Pool!ChildExits, Pool!procVars, Pool!poolVars, Pool!callVars
<1>2. "gone" \in Lives
  BY <1>1, PoolParts DEF PoolTypes
<1>3. /\ life' \in [Children -> Lives] /\ Alters(Children, life, life', c, "gone")
  BY <1>1, <1>2 DEF PoolTypes, Alters
<1> QED
  BY <1>1, <1>3 DEF PoolTypes, Exits

HangsUp(c) ==
  /\ UNCHANGED <<life, serving, closing, frames, ending, parked, lastUsed, slot, call, at, named, answer, turn, steers, fired>>
  /\ life[c] # "unborn"
  /\ Alters(Children, hungup, hungup', c, TRUE) /\ Alters(Children, lines, lines', c, <<>>)
LEMMA HangUpDoes ==
  ASSUME PoolTypes, HandleInv, NEW c \in Children, Pool!HangUp(c)
  PROVE  PoolTypes' /\ HangsUp(c)
<1>1. /\ life[c] # "unborn"
      /\ hungup' = [hungup EXCEPT ![c] = TRUE]
      /\ lines' = [lines EXCEPT ![c] = <<>>]
      /\ UNCHANGED <<life, serving, closing, frames, ending, parked, lastUsed, slot, call, at, named, answer, turn, steers, fired>>
  BY DEF Pool!HangUp, Pool!procVars, Pool!poolVars, Pool!callVars
<1>2. TRUE \in BOOLEAN /\ <<>> \in Seq(Inputs)
  BY <1>1, PoolParts DEF PoolTypes
<1>3. /\ hungup' \in [Children -> BOOLEAN] /\ Alters(Children, hungup, hungup', c, TRUE)
      /\ lines' \in [Children -> Seq(Inputs)] /\ Alters(Children, lines, lines', c, <<>>)
  BY <1>1, <1>2 DEF PoolTypes, Alters
<1> QED
  BY <1>1, <1>3 DEF PoolTypes, HangsUp

IsReaped(c) ==
  /\ UNCHANGED <<serving, lines, closing, hungup, frames, parked, lastUsed, slot, call, at, named, answer, turn, steers, fired>>
  /\ life[c] # "unborn"
  /\ Alters(Children, ending, ending', c, "over") /\ Alters(Children, life, life', c, "gone")
LEMMA ReapDoes ==
  ASSUME PoolTypes, HandleInv, NEW c \in Children, Pool!Reap(c)
  PROVE  PoolTypes' /\ IsReaped(c)
<1>1. /\ life[c] # "unborn"
      /\ ending' = [ending EXCEPT ![c] = "over"]
      /\ life' = [life EXCEPT ![c] = "gone"]
      /\ UNCHANGED <<serving, lines, closing, hungup, frames, parked, lastUsed, slot, call, at, named, answer, turn, steers, fired>>
  BY DEF Pool!Reap, Pool!procVars, Pool!poolVars, Pool!callVars
<1>2. "over" \in Endings /\ "gone" \in Lives
  BY <1>1, PoolParts DEF PoolTypes
<1>3. /\ ending' \in [Children -> Endings] /\ Alters(Children, ending, ending', c, "over")
      /\ life' \in [Children -> Lives] /\ Alters(Children, life, life', c, "gone")
  BY <1>1, <1>2 DEF PoolTypes, Alters
<1> QED
  BY <1>1, <1>3 DEF PoolTypes, IsReaped

SeesTheEnd(k) ==
  /\ UNCHANGED <<life, serving, lines, closing, hungup, frames, ending, parked, lastUsed, slot, at, named, answer, turn, steers, fired>>
  /\ call[k] = "driving" /\ life[at[k]] = "gone" /\ frames[at[k]] = <<>>
  /\ Alters(Calls, call, call', k, "reaping")
LEMMA CrashesDoes ==
  ASSUME PoolTypes, HandleInv, NEW k \in Calls, Pool!Crashes(k)
  PROVE  PoolTypes' /\ SeesTheEnd(k)
<1>1. /\ call[k] = "driving" /\ life[at[k]] = "gone" /\ frames[at[k]] = <<>>
      /\ call' = [call EXCEPT ![k] = "reaping"]
      /\ UNCHANGED <<life, serving, lines, closing, hungup, frames, ending, parked, lastUsed, slot, at, named, answer, turn, steers, fired>>
  BY DEF Pool!Crashes, Pool!procVars, Pool!poolVars, Pool!callVars
<1>2. "reaping" \in CallSteps
  BY <1>1, PoolParts DEF PoolTypes
<1>3. /\ call' \in [Calls -> CallSteps] /\ Alters(Calls, call, call', k, "reaping")
  BY <1>1, <1>2 DEF PoolTypes, Alters
<1> QED
  BY <1>1, <1>3 DEF PoolTypes, SeesTheEnd

IsAborted(k) ==
  /\ UNCHANGED <<life, serving, hungup, frames, ending, parked, lastUsed, slot, at, named, answer, turn, steers, fired>>
  /\ \/ /\ call[k] = "driving" /\ fired /\ hungup[at[k]]
        /\ Alters(Children, closing, closing', at[k], TRUE) /\ Alters(Calls, call, call', k, "reaping")
        /\ UNCHANGED <<lines>>
     \/ /\ call[k] = "driving" /\ fired /\ ~hungup[at[k]]
        /\ Alters(Children, lines, lines', at[k], Append(lines[at[k]], "abort"))
        /\ Alters(Children, closing, closing', at[k], TRUE) /\ Alters(Calls, call, call', k, "reaping")
LEMMA AbortsDoes ==
  ASSUME PoolTypes, HandleInv, NEW k \in Calls, Pool!Aborts(k)
  PROVE  PoolTypes' /\ IsAborted(k)
<1>1. CASE call[k] = "driving" /\ fired /\ hungup[at[k]]
  <2>1. /\ closing' = [closing EXCEPT ![at[k]] = TRUE]
        /\ call' = [call EXCEPT ![k] = "reaping"]
        /\ UNCHANGED <<life, serving, lines, hungup, frames, ending, parked, lastUsed, slot, at, named, answer, turn, steers, fired>>
    BY <1>1 DEF Pool!Aborts, Pool!Sends, Pool!Close, Pool!Abort, Pool!procVars, Pool!poolVars, Pool!callVars
  <2>2. at[k] \in Children /\ TRUE \in BOOLEAN /\ "reaping" \in CallSteps
    <3>1. at[k] \in Children
      BY <1>1, <2>1 DEF HandleInv, PoolTypes, Pool!Active
    <3> QED
      BY <1>1, <2>1, <3>1, PoolParts DEF PoolTypes
  <2>3. /\ closing' \in [Children -> BOOLEAN] /\ Alters(Children, closing, closing', at[k], TRUE)
        /\ call' \in [Calls -> CallSteps] /\ Alters(Calls, call, call', k, "reaping")
    BY <2>1, <2>2 DEF PoolTypes, Alters
  <2> QED
    BY <1>1, <2>1, <2>3 DEF PoolTypes, IsAborted
<1>2. CASE call[k] = "driving" /\ fired /\ ~hungup[at[k]]
  <2>1. /\ lines' = [lines EXCEPT ![at[k]] = Append(lines[at[k]], "abort")]
        /\ closing' = [closing EXCEPT ![at[k]] = TRUE]
        /\ call' = [call EXCEPT ![k] = "reaping"]
        /\ UNCHANGED <<life, serving, hungup, frames, ending, parked, lastUsed, slot, at, named, answer, turn, steers, fired>>
    BY <1>2 DEF Pool!Aborts, Pool!Sends, Pool!Close, Pool!Abort, Pool!procVars, Pool!poolVars, Pool!callVars
  <2>2. at[k] \in Children /\ Append(lines[at[k]], "abort") \in Seq(Inputs) /\ TRUE \in BOOLEAN /\ "reaping" \in CallSteps
    <3>1. at[k] \in Children
      BY <1>2, <2>1 DEF HandleInv, PoolTypes, Pool!Active
    <3> QED
      BY <1>2, <2>1, <3>1, PoolParts DEF PoolTypes
  <2>3. /\ lines' \in [Children -> Seq(Inputs)] /\ Alters(Children, lines, lines', at[k], Append(lines[at[k]], "abort"))
        /\ closing' \in [Children -> BOOLEAN] /\ Alters(Children, closing, closing', at[k], TRUE)
        /\ call' \in [Calls -> CallSteps] /\ Alters(Calls, call, call', k, "reaping")
    BY <2>1, <2>2 DEF PoolTypes, Alters
  <2> QED
    BY <1>2, <2>1, <2>3 DEF PoolTypes, IsAborted
<1> QED
  BY <1>1, <1>2 DEF Pool!Aborts, Pool!Sends, Pool!Close, Pool!Abort, Pool!procVars, Pool!poolVars, Pool!callVars, PoolTypes, HandleInv, Pool!Active

HoldsSlot(k) ==
  /\ UNCHANGED <<life, serving, closing, hungup, frames, ending, parked, lastUsed, at, named, answer, turn, steers, fired>>
  /\ \/ /\ call[k] = "queued" /\ slot[at[k]] = "none" /\ hungup[at[k]]
        /\ Alters(Children, slot, slot', at[k], k) /\ Alters(Calls, call, call', k, "driving")
        /\ UNCHANGED <<lines>>
     \/ /\ call[k] = "queued" /\ slot[at[k]] = "none" /\ ~hungup[at[k]]
        /\ Alters(Children, slot, slot', at[k], k) /\ Alters(Calls, call, call', k, "driving")
        /\ Alters(Children, lines, lines', at[k], Append(lines[at[k]], k))
LEMMA TakesSlotDoes ==
  ASSUME PoolTypes, HandleInv, NEW k \in Calls, Pool!TakesSlot(k)
  PROVE  PoolTypes' /\ HoldsSlot(k)
<1>1. CASE call[k] = "queued" /\ slot[at[k]] = "none" /\ hungup[at[k]]
  <2>1. /\ slot' = [slot EXCEPT ![at[k]] = k]
        /\ call' = [call EXCEPT ![k] = "driving"]
        /\ UNCHANGED <<life, serving, lines, closing, hungup, frames, ending, parked, lastUsed, at, named, answer, turn, steers, fired>>
    BY <1>1 DEF Pool!TakesSlot, Pool!Sends, Pool!None, Pool!procVars, Pool!poolVars, Pool!callVars
  <2>2. at[k] \in Children /\ "driving" \in CallSteps
    <3>1. at[k] \in Children
      BY <1>1, <2>1 DEF HandleInv, PoolTypes, Pool!Active
    <3> QED
      BY <1>1, <2>1, <3>1, PoolParts DEF PoolTypes
  <2>3. /\ slot' \in [Children -> Calls \cup {"none"}] /\ Alters(Children, slot, slot', at[k], k)
        /\ call' \in [Calls -> CallSteps] /\ Alters(Calls, call, call', k, "driving")
    BY <2>1, <2>2 DEF PoolTypes, Alters
  <2> QED
    BY <1>1, <2>1, <2>3 DEF PoolTypes, HoldsSlot
<1>2. CASE call[k] = "queued" /\ slot[at[k]] = "none" /\ ~hungup[at[k]]
  <2>1. /\ slot' = [slot EXCEPT ![at[k]] = k]
        /\ call' = [call EXCEPT ![k] = "driving"]
        /\ lines' = [lines EXCEPT ![at[k]] = Append(lines[at[k]], k)]
        /\ UNCHANGED <<life, serving, closing, hungup, frames, ending, parked, lastUsed, at, named, answer, turn, steers, fired>>
    BY <1>2 DEF Pool!TakesSlot, Pool!Sends, Pool!None, Pool!procVars, Pool!poolVars, Pool!callVars
  <2>2. at[k] \in Children /\ "driving" \in CallSteps /\ Append(lines[at[k]], k) \in Seq(Inputs)
    <3>1. at[k] \in Children
      BY <1>2, <2>1 DEF HandleInv, PoolTypes, Pool!Active
    <3> QED
      BY <1>2, <2>1, <3>1, PoolParts DEF PoolTypes
  <2>3. /\ slot' \in [Children -> Calls \cup {"none"}] /\ Alters(Children, slot, slot', at[k], k)
        /\ call' \in [Calls -> CallSteps] /\ Alters(Calls, call, call', k, "driving")
        /\ lines' \in [Children -> Seq(Inputs)] /\ Alters(Children, lines, lines', at[k], Append(lines[at[k]], k))
    BY <2>1, <2>2 DEF PoolTypes, Alters
  <2> QED
    BY <1>2, <2>1, <2>3 DEF PoolTypes, HoldsSlot
<1> QED
  BY <1>1, <1>2 DEF Pool!TakesSlot, Pool!Sends, Pool!None, Pool!procVars, Pool!poolVars, Pool!callVars, PoolTypes, HandleInv, Pool!Active

PassesOver(k) ==
  /\ UNCHANGED <<life, serving, lines, closing, hungup, ending, parked, lastUsed, slot, call, at, named, answer, turn, steers, fired>>
  /\ call[k] = "driving" /\ frames[at[k]] # <<>> /\ Head(frames[at[k]]).own # TRUE
  /\ Alters(Children, frames, frames', at[k], Tail(frames[at[k]]))
LEMMA ForeignDoes ==
  ASSUME PoolTypes, HandleInv, NEW k \in Calls, Foreign(k)
  PROVE  PoolTypes' /\ PassesOver(k)
<1>1. /\ call[k] = "driving" /\ frames[at[k]] # <<>> /\ Head(frames[at[k]]).own # TRUE
      /\ frames' = [frames EXCEPT ![at[k]] = Tail(frames[at[k]])]
      /\ UNCHANGED <<life, serving, lines, closing, hungup, ending, parked, lastUsed, slot, call, at, named, answer, turn, steers, fired>>
  BY DEF Foreign, Pool!procVars, Pool!poolVars, Pool!callVars
<1>2. at[k] \in Children /\ Tail(frames[at[k]]) \in Seq(Frames)
  <2>1. at[k] \in Children
    BY <1>1 DEF HandleInv, PoolTypes, Pool!Active
  <2> QED
    BY <1>1, <2>1, PoolParts DEF PoolTypes
<1>3. /\ frames' \in [Children -> Seq(Frames)] /\ Alters(Children, frames, frames', at[k], Tail(frames[at[k]]))
  BY <1>1, <1>2 DEF PoolTypes, Alters
<1> QED
  BY <1>1, <1>3 DEF PoolTypes, PassesOver

ParksChild(k, i) ==
  /\ UNCHANGED <<life, serving, lines, closing, hungup, ending, at, turn, steers, fired>>
  /\ call[k] = "driving" /\ frames[at[k]] # <<>> /\ Head(frames[at[k]]).own = TRUE /\ parked[i] = 0 /\ (\A j \in Calls \ {k} : at[j] # at[k])
  /\ Alters(Children, frames, frames', at[k], Tail(frames[at[k]]))
  /\ Alters(Calls, answer, answer', k, Head(frames[at[k]]).run) /\ Alters(Calls, call, call', k, "completed")
  /\ Alters(Children, slot, slot', at[k], "none") /\ Alters(Children, lastUsed, lastUsed', at[k], turn)
  /\ Alters(Ids, parked, parked', i, at[k]) /\ Alters(Calls, named, named', k, i)
LEMMA ParksDoes ==
  ASSUME PoolTypes, HandleInv, NEW k \in Calls, NEW i \in Ids, Parks(k, i)
  PROVE  PoolTypes' /\ ParksChild(k, i)
<1>1. /\ call[k] = "driving" /\ frames[at[k]] # <<>> /\ Head(frames[at[k]]).own = TRUE /\ parked[i] = 0 /\ (\A j \in Calls \ {k} : at[j] # at[k])
      /\ frames' = [frames EXCEPT ![at[k]] = Tail(frames[at[k]])]
      /\ answer' = [answer EXCEPT ![k] = Head(frames[at[k]]).run]
      /\ call' = [call EXCEPT ![k] = "completed"]
      /\ slot' = [slot EXCEPT ![at[k]] = "none"]
      /\ lastUsed' = [lastUsed EXCEPT ![at[k]] = turn]
      /\ parked' = [parked EXCEPT ![i] = at[k]]
      /\ named' = [named EXCEPT ![k] = i]
      /\ UNCHANGED <<life, serving, lines, closing, hungup, ending, at, turn, steers, fired>>
  BY DEF Parks, Done, Pool!procVars, Pool!poolVars, Pool!callVars
<1>2. at[k] \in Children /\ Tail(frames[at[k]]) \in Seq(Frames) /\ Head(frames[at[k]]).run \in SUBSET Messages /\ "completed" \in CallSteps /\ "none" \in Calls \cup {"none"}
  <2>1. at[k] \in Children
    BY <1>1 DEF HandleInv, PoolTypes, Pool!Active
  <2> QED
    BY <1>1, <2>1, PoolParts DEF PoolTypes
<1>3. /\ frames' \in [Children -> Seq(Frames)] /\ Alters(Children, frames, frames', at[k], Tail(frames[at[k]]))
      /\ answer' \in [Calls -> SUBSET Messages] /\ Alters(Calls, answer, answer', k, Head(frames[at[k]]).run)
      /\ call' \in [Calls -> CallSteps] /\ Alters(Calls, call, call', k, "completed")
      /\ slot' \in [Children -> Calls \cup {"none"}] /\ Alters(Children, slot, slot', at[k], "none")
      /\ lastUsed' \in [Children -> Nat] /\ Alters(Children, lastUsed, lastUsed', at[k], turn)
      /\ parked' \in [Ids -> Children \cup {0}] /\ Alters(Ids, parked, parked', i, at[k])
      /\ named' \in [Calls -> Ids \cup {"none"}] /\ Alters(Calls, named, named', k, i)
  BY <1>1, <1>2 DEF PoolTypes, Alters
<1> QED
  BY <1>1, <1>3 DEF PoolTypes, ParksChild

StampsChild(k, i) ==
  /\ UNCHANGED <<life, serving, lines, hungup, ending, parked, at, turn, steers, fired>>
  /\ (\E j \in Calls : at[j] = at[k] /\ named[j] = i) /\ call[k] = "driving" /\ frames[at[k]] # <<>> /\ Head(frames[at[k]]).own = TRUE
  /\ \/ /\ LetGo(k)
        /\ Alters(Children, frames, frames', at[k], Tail(frames[at[k]]))
        /\ Alters(Calls, answer, answer', k, Head(frames[at[k]]).run) /\ Alters(Calls, call, call', k, "completed")
        /\ Alters(Children, slot, slot', at[k], "none") /\ Alters(Children, lastUsed, lastUsed', at[k], turn)
        /\ Alters(Calls, named, named', k, i) /\ Alters(Children, closing, closing', at[k], TRUE)
     \/ /\ ~LetGo(k)
        /\ Alters(Children, frames, frames', at[k], Tail(frames[at[k]]))
        /\ Alters(Calls, answer, answer', k, Head(frames[at[k]]).run) /\ Alters(Calls, call, call', k, "completed")
        /\ Alters(Children, slot, slot', at[k], "none") /\ Alters(Children, lastUsed, lastUsed', at[k], turn)
        /\ Alters(Calls, named, named', k, i)
        /\ UNCHANGED <<closing>>
LEMMA StampsDoes ==
  ASSUME PoolTypes, HandleInv, NEW k \in Calls, NEW i \in Ids, Stamps(k, i)
  PROVE  PoolTypes' /\ StampsChild(k, i)
<1>1. CASE LetGo(k)
  <2>1. /\ (\E j \in Calls : at[j] = at[k] /\ named[j] = i) /\ call[k] = "driving" /\ frames[at[k]] # <<>> /\ Head(frames[at[k]]).own = TRUE
        /\ frames' = [frames EXCEPT ![at[k]] = Tail(frames[at[k]])]
        /\ answer' = [answer EXCEPT ![k] = Head(frames[at[k]]).run]
        /\ call' = [call EXCEPT ![k] = "completed"]
        /\ slot' = [slot EXCEPT ![at[k]] = "none"]
        /\ lastUsed' = [lastUsed EXCEPT ![at[k]] = turn]
        /\ named' = [named EXCEPT ![k] = i]
        /\ closing' = [closing EXCEPT ![at[k]] = TRUE]
        /\ UNCHANGED <<life, serving, lines, hungup, ending, parked, at, turn, steers, fired>>
    BY <1>1 DEF Stamps, Done, Pool!procVars, Pool!poolVars, Pool!callVars
  <2>2. at[k] \in Children /\ Tail(frames[at[k]]) \in Seq(Frames) /\ Head(frames[at[k]]).run \in SUBSET Messages /\ "completed" \in CallSteps /\ "none" \in Calls \cup {"none"} /\ TRUE \in BOOLEAN
    <3>1. at[k] \in Children
      BY <1>1, <2>1 DEF HandleInv, PoolTypes, Pool!Active
    <3> QED
      BY <1>1, <2>1, <3>1, PoolParts DEF PoolTypes
  <2>3. /\ frames' \in [Children -> Seq(Frames)] /\ Alters(Children, frames, frames', at[k], Tail(frames[at[k]]))
        /\ answer' \in [Calls -> SUBSET Messages] /\ Alters(Calls, answer, answer', k, Head(frames[at[k]]).run)
        /\ call' \in [Calls -> CallSteps] /\ Alters(Calls, call, call', k, "completed")
        /\ slot' \in [Children -> Calls \cup {"none"}] /\ Alters(Children, slot, slot', at[k], "none")
        /\ lastUsed' \in [Children -> Nat] /\ Alters(Children, lastUsed, lastUsed', at[k], turn)
        /\ named' \in [Calls -> Ids \cup {"none"}] /\ Alters(Calls, named, named', k, i)
        /\ closing' \in [Children -> BOOLEAN] /\ Alters(Children, closing, closing', at[k], TRUE)
    BY <2>1, <2>2 DEF PoolTypes, Alters
  <2> QED
    BY <1>1, <2>1, <2>3 DEF PoolTypes, StampsChild
<1>2. CASE ~LetGo(k)
  <2>1. /\ (\E j \in Calls : at[j] = at[k] /\ named[j] = i) /\ call[k] = "driving" /\ frames[at[k]] # <<>> /\ Head(frames[at[k]]).own = TRUE
        /\ frames' = [frames EXCEPT ![at[k]] = Tail(frames[at[k]])]
        /\ answer' = [answer EXCEPT ![k] = Head(frames[at[k]]).run]
        /\ call' = [call EXCEPT ![k] = "completed"]
        /\ slot' = [slot EXCEPT ![at[k]] = "none"]
        /\ lastUsed' = [lastUsed EXCEPT ![at[k]] = turn]
        /\ named' = [named EXCEPT ![k] = i]
        /\ UNCHANGED <<life, serving, lines, closing, hungup, ending, parked, at, turn, steers, fired>>
    BY <1>2 DEF Stamps, Done, Pool!procVars, Pool!poolVars, Pool!callVars
  <2>2. at[k] \in Children /\ Tail(frames[at[k]]) \in Seq(Frames) /\ Head(frames[at[k]]).run \in SUBSET Messages /\ "completed" \in CallSteps /\ "none" \in Calls \cup {"none"}
    <3>1. at[k] \in Children
      BY <1>2, <2>1 DEF HandleInv, PoolTypes, Pool!Active
    <3> QED
      BY <1>2, <2>1, <3>1, PoolParts DEF PoolTypes
  <2>3. /\ frames' \in [Children -> Seq(Frames)] /\ Alters(Children, frames, frames', at[k], Tail(frames[at[k]]))
        /\ answer' \in [Calls -> SUBSET Messages] /\ Alters(Calls, answer, answer', k, Head(frames[at[k]]).run)
        /\ call' \in [Calls -> CallSteps] /\ Alters(Calls, call, call', k, "completed")
        /\ slot' \in [Children -> Calls \cup {"none"}] /\ Alters(Children, slot, slot', at[k], "none")
        /\ lastUsed' \in [Children -> Nat] /\ Alters(Children, lastUsed, lastUsed', at[k], turn)
        /\ named' \in [Calls -> Ids \cup {"none"}] /\ Alters(Calls, named, named', k, i)
    BY <2>1, <2>2 DEF PoolTypes, Alters
  <2> QED
    BY <1>2, <2>1, <2>3 DEF PoolTypes, StampsChild
<1> QED
  BY <1>1, <1>2 DEF Stamps, Done, Pool!procVars, Pool!poolVars, Pool!callVars, PoolTypes, HandleInv, Pool!Active

FailsDrive(k) ==
  /\ UNCHANGED <<life, serving, lines, hungup, ending, parked, lastUsed, slot, at, named, turn, steers, fired>>
  /\ call[k] = "driving" /\ frames[at[k]] # <<>> /\ Head(frames[at[k]]).own = TRUE
  /\ Alters(Children, frames, frames', at[k], Tail(frames[at[k]]))
  /\ Alters(Calls, answer, answer', k, Head(frames[at[k]]).run) /\ Alters(Calls, call, call', k, "reaping")
  /\ Alters(Children, closing, closing', at[k], TRUE)
LEMMA FailsDoes ==
  ASSUME PoolTypes, HandleInv, NEW k \in Calls, Fails(k)
  PROVE  PoolTypes' /\ FailsDrive(k)
<1>1. /\ call[k] = "driving" /\ frames[at[k]] # <<>> /\ Head(frames[at[k]]).own = TRUE
      /\ frames' = [frames EXCEPT ![at[k]] = Tail(frames[at[k]])]
      /\ answer' = [answer EXCEPT ![k] = Head(frames[at[k]]).run]
      /\ call' = [call EXCEPT ![k] = "reaping"]
      /\ closing' = [closing EXCEPT ![at[k]] = TRUE]
      /\ UNCHANGED <<life, serving, lines, hungup, ending, parked, lastUsed, slot, at, named, turn, steers, fired>>
  BY DEF Fails, Done, Pool!procVars, Pool!poolVars, Pool!callVars
<1>2. at[k] \in Children /\ Tail(frames[at[k]]) \in Seq(Frames) /\ Head(frames[at[k]]).run \in SUBSET Messages /\ "reaping" \in CallSteps /\ TRUE \in BOOLEAN
  <2>1. at[k] \in Children
    BY <1>1 DEF HandleInv, PoolTypes, Pool!Active
  <2> QED
    BY <1>1, <2>1, PoolParts DEF PoolTypes
<1>3. /\ frames' \in [Children -> Seq(Frames)] /\ Alters(Children, frames, frames', at[k], Tail(frames[at[k]]))
      /\ answer' \in [Calls -> SUBSET Messages] /\ Alters(Calls, answer, answer', k, Head(frames[at[k]]).run)
      /\ call' \in [Calls -> CallSteps] /\ Alters(Calls, call, call', k, "reaping")
      /\ closing' \in [Children -> BOOLEAN] /\ Alters(Children, closing, closing', at[k], TRUE)
  BY <1>1, <1>2 DEF PoolTypes, Alters
<1> QED
  BY <1>1, <1>3 DEF PoolTypes, FailsDrive

IsRefused(k) ==
  /\ UNCHANGED <<life, serving, lines, closing, hungup, frames, ending, parked, lastUsed, slot, at, named, answer, turn, steers, fired>>
  /\ call[k] = "new"
  /\ Alters(Calls, call, call', k, "refused")
LEMMA RefuseDoes ==
  ASSUME PoolTypes, HandleInv, NEW k \in Calls, Pool!Refuse(k)
  PROVE  PoolTypes' /\ IsRefused(k)
<1>1. /\ call[k] = "new"
      /\ call' = [call EXCEPT ![k] = "refused"]
      /\ UNCHANGED <<life, serving, lines, closing, hungup, frames, ending, parked, lastUsed, slot, at, named, answer, turn, steers, fired>>
  BY DEF Pool!Refuse, Pool!procVars, Pool!poolVars, Pool!callVars
<1>2. "refused" \in CallSteps
  BY <1>1, PoolParts DEF PoolTypes
<1>3. /\ call' \in [Calls -> CallSteps] /\ Alters(Calls, call, call', k, "refused")
  BY <1>1, <1>2 DEF PoolTypes, Alters
<1> QED
  BY <1>1, <1>3 DEF PoolTypes, IsRefused

StartsChild(k, c) ==
  /\ UNCHANGED <<serving, closing, hungup, frames, ending, parked, lastUsed, named, answer, turn, steers, fired>>
  /\ \/ /\ call[k] = "new" /\ life[c] = "unborn" /\ hungup[c]
        /\ Alters(Children, life, life', c, "idle") /\ Alters(Calls, call, call', k, "driving")
        /\ Alters(Calls, at, at', k, c) /\ Alters(Children, slot, slot', c, k)
        /\ UNCHANGED <<lines>>
     \/ /\ call[k] = "new" /\ life[c] = "unborn" /\ ~hungup[c]
        /\ Alters(Children, life, life', c, "idle") /\ Alters(Calls, call, call', k, "driving")
        /\ Alters(Calls, at, at', k, c) /\ Alters(Children, slot, slot', c, k)
        /\ Alters(Children, lines, lines', c, Append(lines[c], k))
LEMMA StartDoes ==
  ASSUME PoolTypes, HandleInv, NEW k \in Calls, NEW c \in Children, Pool!Start(k, c)
  PROVE  PoolTypes' /\ StartsChild(k, c)
<1>1. CASE call[k] = "new" /\ life[c] = "unborn" /\ hungup[c]
  <2>1. /\ life' = [life EXCEPT ![c] = "idle"]
        /\ call' = [call EXCEPT ![k] = "driving"]
        /\ at' = [at EXCEPT ![k] = c]
        /\ slot' = [slot EXCEPT ![c] = k]
        /\ UNCHANGED <<serving, lines, closing, hungup, frames, ending, parked, lastUsed, named, answer, turn, steers, fired>>
    BY <1>1 DEF Pool!Start, Pool!Sends, Pool!procVars, Pool!poolVars, Pool!callVars
  <2>2. "idle" \in Lives /\ "driving" \in CallSteps
    BY <1>1, <2>1, PoolParts DEF PoolTypes
  <2>3. /\ life' \in [Children -> Lives] /\ Alters(Children, life, life', c, "idle")
        /\ call' \in [Calls -> CallSteps] /\ Alters(Calls, call, call', k, "driving")
        /\ at' \in [Calls -> Children \cup {0}] /\ Alters(Calls, at, at', k, c)
        /\ slot' \in [Children -> Calls \cup {"none"}] /\ Alters(Children, slot, slot', c, k)
    BY <2>1, <2>2 DEF PoolTypes, Alters
  <2> QED
    BY <1>1, <2>1, <2>3 DEF PoolTypes, StartsChild
<1>2. CASE call[k] = "new" /\ life[c] = "unborn" /\ ~hungup[c]
  <2>1. /\ life' = [life EXCEPT ![c] = "idle"]
        /\ call' = [call EXCEPT ![k] = "driving"]
        /\ at' = [at EXCEPT ![k] = c]
        /\ slot' = [slot EXCEPT ![c] = k]
        /\ lines' = [lines EXCEPT ![c] = Append(lines[c], k)]
        /\ UNCHANGED <<serving, closing, hungup, frames, ending, parked, lastUsed, named, answer, turn, steers, fired>>
    BY <1>2 DEF Pool!Start, Pool!Sends, Pool!procVars, Pool!poolVars, Pool!callVars
  <2>2. "idle" \in Lives /\ "driving" \in CallSteps /\ Append(lines[c], k) \in Seq(Inputs)
    BY <1>2, <2>1, PoolParts DEF PoolTypes
  <2>3. /\ life' \in [Children -> Lives] /\ Alters(Children, life, life', c, "idle")
        /\ call' \in [Calls -> CallSteps] /\ Alters(Calls, call, call', k, "driving")
        /\ at' \in [Calls -> Children \cup {0}] /\ Alters(Calls, at, at', k, c)
        /\ slot' \in [Children -> Calls \cup {"none"}] /\ Alters(Children, slot, slot', c, k)
        /\ lines' \in [Children -> Seq(Inputs)] /\ Alters(Children, lines, lines', c, Append(lines[c], k))
    BY <2>1, <2>2 DEF PoolTypes, Alters
  <2> QED
    BY <1>2, <2>1, <2>3 DEF PoolTypes, StartsChild
<1> QED
  BY <1>1, <1>2 DEF Pool!Start, Pool!Sends, Pool!procVars, Pool!poolVars, Pool!callVars, PoolTypes, HandleInv, Pool!Active

FollowsUp(k, i) ==
  /\ UNCHANGED <<life, serving, lines, closing, hungup, frames, ending, parked, lastUsed, slot, named, answer, turn, steers, fired>>
  /\ \/ /\ call[k] = "new" /\ parked[i] = 0
        /\ Alters(Calls, call, call', k, "missed")
        /\ UNCHANGED <<at>>
     \/ /\ call[k] = "new" /\ parked[i] # 0
        /\ Alters(Calls, call, call', k, "queued") /\ Alters(Calls, at, at', k, parked[i])
LEMMA FollowDoes ==
  ASSUME PoolTypes, HandleInv, NEW k \in Calls, NEW i \in Ids, Pool!Follow(k, i)
  PROVE  PoolTypes' /\ FollowsUp(k, i)
<1>1. CASE call[k] = "new" /\ parked[i] = 0
  <2>1. /\ call' = [call EXCEPT ![k] = "missed"]
        /\ UNCHANGED <<life, serving, lines, closing, hungup, frames, ending, parked, lastUsed, slot, at, named, answer, turn, steers, fired>>
    BY <1>1 DEF Pool!Follow, Pool!NoChild, Pool!procVars, Pool!poolVars, Pool!callVars
  <2>2. "missed" \in CallSteps
    BY <1>1, <2>1, PoolParts DEF PoolTypes
  <2>3. /\ call' \in [Calls -> CallSteps] /\ Alters(Calls, call, call', k, "missed")
    BY <2>1, <2>2 DEF PoolTypes, Alters
  <2> QED
    BY <1>1, <2>1, <2>3 DEF PoolTypes, FollowsUp
<1>2. CASE call[k] = "new" /\ parked[i] # 0
  <2>1. /\ call' = [call EXCEPT ![k] = "queued"]
        /\ at' = [at EXCEPT ![k] = parked[i]]
        /\ UNCHANGED <<life, serving, lines, closing, hungup, frames, ending, parked, lastUsed, slot, named, answer, turn, steers, fired>>
    BY <1>2 DEF Pool!Follow, Pool!NoChild, Pool!procVars, Pool!poolVars, Pool!callVars
  <2>2. "queued" \in CallSteps /\ parked[i] \in Children \cup {0}
    BY <1>2, <2>1, PoolParts DEF PoolTypes
  <2>3. /\ call' \in [Calls -> CallSteps] /\ Alters(Calls, call, call', k, "queued")
        /\ at' \in [Calls -> Children \cup {0}] /\ Alters(Calls, at, at', k, parked[i])
    BY <2>1, <2>2 DEF PoolTypes, Alters
  <2> QED
    BY <1>2, <2>1, <2>3 DEF PoolTypes, FollowsUp
<1> QED
  BY <1>1, <1>2 DEF Pool!Follow, Pool!NoChild, Pool!procVars, Pool!poolVars, Pool!callVars, PoolTypes, HandleInv, Pool!Active

ReclaimsChild(k) ==
  /\ UNCHANGED <<life, serving, lines, closing, hungup, frames, lastUsed, at, named, answer, turn, steers, fired>>
  /\ call[k] = "reaping" /\ ending[at[k]] # "waiting" /\ Alters(Children, slot, slot', at[k], "none")
  /\ \/ Alters(Calls, call, call', k, "panicked") /\ UNCHANGED <<ending, parked>>
     \/ /\ Alters(Calls, call, call', k, "failed") /\ Alters(Children, ending, ending', at[k], "awaited")
        /\ \A i \in Ids : parked'[i] = IF parked[i] = at[k] THEN 0 ELSE parked[i]
LEMMA ReclaimsDoes ==
  ASSUME PoolTypes, HandleInv, NEW k \in Calls, Pool!Reclaims(k)
  PROVE  PoolTypes' /\ ReclaimsChild(k)
<1>1. /\ call[k] = "reaping" /\ ending[at[k]] # "waiting" /\ slot' = [slot EXCEPT ![at[k]] = "none"]
      /\ \/ call' = [call EXCEPT ![k] = "panicked"] /\ UNCHANGED <<ending, parked>>
         \/ /\ call' = [call EXCEPT ![k] = "failed"] /\ ending' = [ending EXCEPT ![at[k]] = "awaited"]
            /\ parked' = [i \in Ids |-> IF parked[i] = at[k] THEN 0 ELSE parked[i]]
      /\ UNCHANGED <<life, serving, lines, closing, hungup, frames, lastUsed, at, named, answer, turn, steers, fired>>
  BY DEF Pool!Reclaims, Pool!NoChild, Pool!None
<1>2. at[k] \in Children
  BY <1>1 DEF HandleInv, PoolTypes, Pool!Active
<1>3. {"panicked", "failed"} \subseteq CallSteps /\ "awaited" \in Endings
  BY DEF CallSteps, Endings
<1>4. slot' \in [Children -> Calls \cup {"none"}] /\ Alters(Children, slot, slot', at[k], "none")
  BY <1>1, <1>2 DEF PoolTypes, Alters
<1>5. CASE call' = [call EXCEPT ![k] = "panicked"] /\ UNCHANGED <<ending, parked>>
  <2>1. call' \in [Calls -> CallSteps] /\ Alters(Calls, call, call', k, "panicked")
    BY <1>3, <1>5 DEF PoolTypes, Alters
  <2> QED
    BY <1>1, <1>4, <1>5, <2>1 DEF PoolTypes, ReclaimsChild
<1>6. CASE /\ call' = [call EXCEPT ![k] = "failed"] /\ ending' = [ending EXCEPT ![at[k]] = "awaited"]
           /\ parked' = [i \in Ids |-> IF parked[i] = at[k] THEN 0 ELSE parked[i]]
  <2>1. call' \in [Calls -> CallSteps] /\ Alters(Calls, call, call', k, "failed")
    BY <1>3, <1>6 DEF PoolTypes, Alters
  <2>2. ending' \in [Children -> Endings] /\ Alters(Children, ending, ending', at[k], "awaited")
    BY <1>2, <1>3, <1>6 DEF PoolTypes, Alters
  <2>3. parked' \in [Ids -> Children \cup {0}] /\ \A i \in Ids : parked'[i] = IF parked[i] = at[k] THEN 0 ELSE parked[i]
    BY <1>6 DEF PoolTypes
  <2> QED
    BY <1>1, <1>4, <2>1, <2>2, <2>3 DEF PoolTypes, ReclaimsChild
<1> QED
  BY <1>1, <1>5, <1>6

TurnPasses ==
  /\ turn' = turn + 1 /\ (fired \/ \A k \in Calls : ~Pool!Active(k))
  /\ UNCHANGED <<life, serving, lines, hungup, frames, ending, lastUsed, slot, call, at, named, answer, steers, fired>>
  /\ \A i \in Ids : parked'[i] = IF parked[i] # 0 /\ turn + 1 - lastUsed[parked[i]] > MaxIdle THEN 0 ELSE parked[i]
  /\ \A c \in Children : closing[c] \/ (Pool!IdOf(c) # {} /\ turn + 1 - lastUsed[c] > MaxIdle /\ slot[c] = "none") => closing'[c]
LEMMA TurnDoes == ASSUME PoolTypes, Pool!TurnPassed PROVE PoolTypes' /\ TurnPasses
<1>1. /\ turn' = turn + 1 /\ (fired \/ \A k \in Calls : ~Pool!Active(k))
      /\ UNCHANGED <<life, serving, lines, hungup, frames, ending, lastUsed, slot, call, at, named, answer, steers, fired>>
  BY DEF Pool!TurnPassed, Pool!procVars, Pool!callVars
<1>2. /\ parked' = [i \in Ids |-> IF parked[i] # 0 /\ turn + 1 - lastUsed[parked[i]] > MaxIdle THEN 0 ELSE parked[i]]
      /\ closing' = [c \in Children |-> closing[c] \/ (Pool!IdOf(c) # {} /\ turn + 1 - lastUsed[c] > MaxIdle /\ slot[c] = "none")]
  BY DEF Pool!TurnPassed, Pool!Expired, Pool!NoChild, Pool!None
<1>3. /\ parked' \in [Ids -> Children \cup {0}]
      /\ \A i \in Ids : parked'[i] = IF parked[i] # 0 /\ turn + 1 - lastUsed[parked[i]] > MaxIdle THEN 0 ELSE parked[i]
  BY <1>2 DEF PoolTypes
<1>4. closing' \in [Children -> BOOLEAN]
  BY <1>2, Zenon DEF PoolTypes
<1>5. \A c \in Children : closing[c] \/ (Pool!IdOf(c) # {} /\ turn + 1 - lastUsed[c] > MaxIdle /\ slot[c] = "none") => closing'[c]
  BY <1>2, Zenon
<1> QED
  BY <1>1, <1>3, <1>4, <1>5 DEF PoolTypes, TurnPasses

Fires ==
  /\ fired' = TRUE
  /\ UNCHANGED <<life, serving, lines, closing, hungup, frames, ending, parked, lastUsed, slot, call, at, named, answer, turn, steers>>
LEMMA FireDoes == ASSUME PoolTypes, Pool!Fire PROVE PoolTypes' /\ Fires
BY DEF PoolTypes, Fires, Pool!Fire, Pool!procVars, Pool!poolVars, Pool!callVars

\* Every step of the pool is one of these.
PoolEffect ==
  \/ \E c \in Children : ReadsLine(c)
  \/ \E c \in Children, outcome \in {"completed", "failed"} : EndsOwnRun(c, outcome)
  \/ \E c \in Children : EndsOtherRun(c)
  \/ \E c \in Children : Exits(c)
  \/ \E c \in Children : HangsUp(c)
  \/ \E c \in Children : IsReaped(c)
  \/ \E k \in Calls : SeesTheEnd(k)
  \/ \E k \in Calls : IsAborted(k)
  \/ \E k \in Calls : ReclaimsChild(k)
  \/ \E k \in Calls : HoldsSlot(k)
  \/ \E k \in Calls : PassesOver(k)
  \/ \E k \in Calls, i \in Ids : ParksChild(k, i)
  \/ \E k \in Calls, i \in Ids : StampsChild(k, i)
  \/ \E k \in Calls : FailsDrive(k)
  \/ \E k \in Calls : IsRefused(k)
  \/ \E k \in Calls, c \in Children : StartsChild(k, c)
  \/ \E k \in Calls, i \in Ids : FollowsUp(k, i)
  \/ Fires
  \/ TurnPasses
  \/ UNCHANGED poolVars
LEMMA PoolMoves == ASSUME PoolInv, Pool!SubNext \/ UNCHANGED poolVars PROVE PoolTypes' /\ PoolEffect
<1>0. PoolTypes /\ HandleInv /\ NamesInv /\ steers = 0
  BY DEF PoolInv, MessageInv
<1> DEFINE Goal == PoolTypes' /\ PoolEffect
<1>1. ASSUME NEW c \in Children, Pool!ChildReads(c) PROVE Goal
  <2>1. PoolTypes' /\ ReadsLine(c)
    BY <1>0, <1>1, ChildReadsDoes
  <2> QED
    BY <2>1 DEF PoolEffect
<1>2. ASSUME NEW c \in Children, NEW outcome \in {"completed", "failed"}, EndsRun(c, outcome) PROVE Goal
  <2>1. PoolTypes' /\ EndsOwnRun(c, outcome)
    BY <1>0, <1>2, ChildEndsRunDoes
  <2> QED
    BY <2>1 DEF PoolEffect
<1>3. ASSUME NEW c \in Children, Pool!GrandchildEndsRun(c) PROVE Goal
  <2>1. PoolTypes' /\ EndsOtherRun(c)
    BY <1>0, <1>3, GrandchildEndsRunDoes
  <2> QED
    BY <2>1 DEF PoolEffect
<1>4. ASSUME NEW c \in Children, Pool!ChildExits(c) PROVE Goal
  <2>1. PoolTypes' /\ Exits(c)
    BY <1>0, <1>4, ChildExitsDoes
  <2> QED
    BY <2>1 DEF PoolEffect
<1>5. ASSUME NEW c \in Children, Pool!HangUp(c) PROVE Goal
  <2>1. PoolTypes' /\ HangsUp(c)
    BY <1>0, <1>5, HangUpDoes
  <2> QED
    BY <2>1 DEF PoolEffect
<1>6. ASSUME NEW c \in Children, Pool!Reap(c) PROVE Goal
  <2>1. PoolTypes' /\ IsReaped(c)
    BY <1>0, <1>6, ReapDoes
  <2> QED
    BY <2>1 DEF PoolEffect
<1>7. ASSUME NEW k \in Calls, Pool!Crashes(k) PROVE Goal
  <2>1. PoolTypes' /\ SeesTheEnd(k)
    BY <1>0, <1>7, CrashesDoes
  <2> QED
    BY <2>1 DEF PoolEffect
<1>8. ASSUME NEW k \in Calls, Pool!Aborts(k) PROVE Goal
  <2>1. PoolTypes' /\ IsAborted(k)
    BY <1>0, <1>8, AbortsDoes
  <2> QED
    BY <2>1 DEF PoolEffect
<1>9. ASSUME NEW k \in Calls, Pool!Reclaims(k) PROVE Goal
  <2>1. PoolTypes' /\ ReclaimsChild(k)
    BY <1>0, <1>9, ReclaimsDoes
  <2> QED
    BY <2>1 DEF PoolEffect
<1>10. ASSUME NEW k \in Calls, Pool!TakesSlot(k) PROVE Goal
  <2>1. PoolTypes' /\ HoldsSlot(k)
    BY <1>0, <1>10, TakesSlotDoes
  <2> QED
    BY <2>1 DEF PoolEffect
<1>11. ASSUME NEW k \in Calls, Foreign(k) PROVE Goal
  <2>1. PoolTypes' /\ PassesOver(k)
    BY <1>0, <1>11, ForeignDoes
  <2> QED
    BY <2>1 DEF PoolEffect
<1>12. ASSUME NEW k \in Calls, NEW i \in Ids, Parks(k, i) PROVE Goal
  <2>1. PoolTypes' /\ ParksChild(k, i)
    BY <1>0, <1>12, ParksDoes
  <2> QED
    BY <2>1 DEF PoolEffect
<1>13. ASSUME NEW k \in Calls, NEW i \in Ids, Stamps(k, i) PROVE Goal
  <2>1. PoolTypes' /\ StampsChild(k, i)
    BY <1>0, <1>13, StampsDoes
  <2> QED
    BY <2>1 DEF PoolEffect
<1>14. ASSUME NEW k \in Calls, Fails(k) PROVE Goal
  <2>1. PoolTypes' /\ FailsDrive(k)
    BY <1>0, <1>14, FailsDoes
  <2> QED
    BY <2>1 DEF PoolEffect
<1>15. ASSUME NEW k \in Calls, Pool!Refuse(k) PROVE Goal
  <2>1. PoolTypes' /\ IsRefused(k)
    BY <1>0, <1>15, RefuseDoes
  <2> QED
    BY <2>1 DEF PoolEffect
<1>16. ASSUME NEW k \in Calls, NEW c \in Children, Pool!Start(k, c) PROVE Goal
  <2>1. PoolTypes' /\ StartsChild(k, c)
    BY <1>0, <1>16, StartDoes
  <2> QED
    BY <2>1 DEF PoolEffect
<1>17. ASSUME NEW k \in Calls, NEW i \in Ids, Pool!Follow(k, i) PROVE Goal
  <2>1. PoolTypes' /\ FollowsUp(k, i)
    BY <1>0, <1>17, FollowDoes
  <2> QED
    BY <2>1 DEF PoolEffect
<1>18. ASSUME Pool!Fire PROVE Goal
  <2>1. PoolTypes' /\ Fires
    BY <1>0, <1>18, FireDoes
  <2> QED
    BY <2>1 DEF PoolEffect
<1>19. ASSUME Pool!TurnPassed PROVE Goal
  <2>1. PoolTypes' /\ TurnPasses
    BY <1>0, <1>19, TurnDoes
  <2> QED
    BY <2>1 DEF PoolEffect
<1>20. ASSUME NEW c \in Children, Pool!ChildEndsRun(c) PROVE Goal
  BY <1>2, <1>20 DEF Pool!ChildEndsRun, EndsRun
<1>21. ASSUME NEW k \in Calls, Pool!Settles(k) PROVE Goal
  BY <1>0, <1>11, <1>12, <1>13, <1>14, <1>21, SettlesDoes, Zenon
<1>22. ASSUME NEW c \in Children PROVE ~Pool!Steer(c)
  BY <1>0 DEF Pool!Steer
<1>23. ASSUME UNCHANGED poolVars PROVE Goal
  BY <1>0, <1>23 DEF PoolEffect, PoolTypes, poolVars
<1> HIDE DEF Goal
<1>24. ASSUME NEW c \in Children, \/ Pool!ChildReads(c) \/ Pool!ChildEndsRun(c) \/ Pool!GrandchildEndsRun(c)
                                   \/ Pool!ChildExits(c) \/ Pool!Steer(c) \/ Pool!Keeper(c)
      PROVE  Goal
  BY <1>1, <1>3, <1>4, <1>5, <1>6, <1>20, <1>22, <1>24 DEF Pool!Keeper
<1>25. ASSUME NEW k \in Calls, \/ Pool!Driver(k) \/ Pool!Refuse(k) \/ (\E c \in Children : Pool!Start(k, c))
                                \/ (\E i \in Ids : Pool!Follow(k, i))
      PROVE  Goal
  BY <1>7, <1>8, <1>9, <1>10, <1>15, <1>16, <1>17, <1>21, <1>25 DEF Pool!Driver
<1>26. Goal
  BY <1>18, <1>19, <1>23, <1>24, <1>25, Zenon DEF Pool!SubNext
<1> QED
  BY <1>26 DEF Goal

LEMMA HandleStep == ASSUME PoolInv, PoolTypes', PoolEffect PROVE HandleInv'
<1>0. HandleInv
  BY DEF PoolInv, MessageInv
<1>t. PoolTypes /\ PoolTypes'
  BY DEF PoolInv
<1> USE DEF Pool!Active, Driven, HandleInv, Alters
<1>1. ASSUME NEW c \in Children, ReadsLine(c) PROVE HandleInv'
  BY <1>0, <1>1, <1>t, PoolShapes DEF ReadsLine
<1>2. ASSUME NEW c \in Children, NEW outcome \in {"completed", "failed"}, EndsOwnRun(c, outcome) PROVE HandleInv'
  BY <1>0, <1>2, <1>t, PoolShapes DEF EndsOwnRun
<1>3. ASSUME NEW c \in Children, EndsOtherRun(c) PROVE HandleInv'
  BY <1>0, <1>3, <1>t, PoolShapes DEF EndsOtherRun
<1>4. ASSUME NEW c \in Children, Exits(c) PROVE HandleInv'
  BY <1>0, <1>4, <1>t, PoolShapes DEF Exits
<1>5. ASSUME NEW c \in Children, HangsUp(c) PROVE HandleInv'
  BY <1>0, <1>5, <1>t, PoolShapes DEF HangsUp
<1>6. ASSUME NEW c \in Children, IsReaped(c) PROVE HandleInv'
  BY <1>0, <1>6, <1>t, PoolShapes DEF IsReaped
<1>7. ASSUME NEW k \in Calls, SeesTheEnd(k) PROVE HandleInv'
  BY <1>0, <1>7, <1>t, PoolShapes DEF SeesTheEnd
<1>8. ASSUME NEW k \in Calls, IsAborted(k) PROVE HandleInv'
  BY <1>0, <1>8, <1>t, PoolShapes DEF IsAborted
<1>9. ASSUME NEW k \in Calls, ReclaimsChild(k) PROVE HandleInv'
  BY <1>0, <1>9, <1>t, PoolShapes DEF ReclaimsChild
<1>10. ASSUME NEW k \in Calls, HoldsSlot(k) PROVE HandleInv'
  BY <1>0, <1>10, <1>t, PoolShapes DEF HoldsSlot
<1>11. ASSUME NEW k \in Calls, PassesOver(k) PROVE HandleInv'
  BY <1>0, <1>11, <1>t, PoolShapes DEF PassesOver
<1>12. ASSUME NEW k \in Calls, NEW i \in Ids, ParksChild(k, i) PROVE HandleInv'
  BY <1>0, <1>12, <1>t, PoolShapes DEF ParksChild
<1>13. ASSUME NEW k \in Calls, NEW i \in Ids, StampsChild(k, i) PROVE HandleInv'
  BY <1>0, <1>13, <1>t, PoolShapes DEF StampsChild
<1>14. ASSUME NEW k \in Calls, FailsDrive(k) PROVE HandleInv'
  BY <1>0, <1>14, <1>t, PoolShapes DEF FailsDrive
<1>15. ASSUME NEW k \in Calls, IsRefused(k) PROVE HandleInv'
  BY <1>0, <1>15, <1>t, PoolShapes DEF IsRefused
<1>16. ASSUME NEW k \in Calls, NEW c \in Children, StartsChild(k, c) PROVE HandleInv'
  BY <1>0, <1>16, <1>t, PoolShapes DEF StartsChild
<1>17. ASSUME NEW k \in Calls, NEW i \in Ids, FollowsUp(k, i) PROVE HandleInv'
  BY <1>0, <1>17, <1>t, PoolShapes DEF FollowsUp
<1>18. ASSUME Fires PROVE HandleInv'
  BY <1>0, <1>18, <1>t, PoolShapes DEF Fires
<1>19. ASSUME TurnPasses PROVE HandleInv'
  BY <1>0, <1>19, <1>t, PoolShapes DEF TurnPasses
<1>20. CASE UNCHANGED poolVars
  BY <1>0, <1>20 DEF poolVars
<1> QED
  BY <1>1, <1>2, <1>3, <1>4, <1>5, <1>6, <1>7, <1>8, <1>9, <1>10, <1>11, <1>12, <1>13, <1>14, <1>15, <1>16, <1>17, <1>18, <1>19, <1>20, Zenon DEF PoolEffect

LEMMA NamesStep == ASSUME PoolInv, PoolTypes', PoolEffect PROVE NamesInv'
<1>0. HandleInv /\ NamesInv
  BY DEF PoolInv, MessageInv
<1>t. PoolTypes /\ PoolTypes'
  BY DEF PoolInv
<1> USE DEF Pool!Active, HandleInv, NamesInv, Alters
<1>1. ASSUME NEW c \in Children, ReadsLine(c) PROVE NamesInv'
  BY <1>0, <1>1, <1>t, PoolShapes DEF ReadsLine
<1>2. ASSUME NEW c \in Children, NEW outcome \in {"completed", "failed"}, EndsOwnRun(c, outcome) PROVE NamesInv'
  BY <1>0, <1>2, <1>t, PoolShapes DEF EndsOwnRun
<1>3. ASSUME NEW c \in Children, EndsOtherRun(c) PROVE NamesInv'
  BY <1>0, <1>3, <1>t, PoolShapes DEF EndsOtherRun
<1>4. ASSUME NEW c \in Children, Exits(c) PROVE NamesInv'
  BY <1>0, <1>4, <1>t, PoolShapes DEF Exits
<1>5. ASSUME NEW c \in Children, HangsUp(c) PROVE NamesInv'
  BY <1>0, <1>5, <1>t, PoolShapes DEF HangsUp
<1>6. ASSUME NEW c \in Children, IsReaped(c) PROVE NamesInv'
  BY <1>0, <1>6, <1>t, PoolShapes DEF IsReaped
<1>7. ASSUME NEW k \in Calls, SeesTheEnd(k) PROVE NamesInv'
  BY <1>0, <1>7, <1>t, PoolShapes DEF SeesTheEnd
<1>8. ASSUME NEW k \in Calls, IsAborted(k) PROVE NamesInv'
  BY <1>0, <1>8, <1>t, PoolShapes DEF IsAborted
<1>9. ASSUME NEW k \in Calls, ReclaimsChild(k) PROVE NamesInv'
  BY <1>0, <1>9, <1>t, PoolShapes DEF ReclaimsChild
<1>10. ASSUME NEW k \in Calls, HoldsSlot(k) PROVE NamesInv'
  BY <1>0, <1>10, <1>t, PoolShapes DEF HoldsSlot
<1>11. ASSUME NEW k \in Calls, PassesOver(k) PROVE NamesInv'
  BY <1>0, <1>11, <1>t, PoolShapes DEF PassesOver
<1>12. ASSUME NEW k \in Calls, NEW i \in Ids, ParksChild(k, i) PROVE NamesInv'
  BY <1>0, <1>12, <1>t, PoolShapes DEF ParksChild
<1>13. ASSUME NEW k \in Calls, NEW i \in Ids, StampsChild(k, i) PROVE NamesInv'
  BY <1>0, <1>13, <1>t, PoolShapes DEF StampsChild
<1>14. ASSUME NEW k \in Calls, FailsDrive(k) PROVE NamesInv'
  BY <1>0, <1>14, <1>t, PoolShapes DEF FailsDrive
<1>15. ASSUME NEW k \in Calls, IsRefused(k) PROVE NamesInv'
  BY <1>0, <1>15, <1>t, PoolShapes DEF IsRefused
<1>16. ASSUME NEW k \in Calls, NEW c \in Children, StartsChild(k, c) PROVE NamesInv'
  BY <1>0, <1>16, <1>t, PoolShapes DEF StartsChild
<1>17. ASSUME NEW k \in Calls, NEW i \in Ids, FollowsUp(k, i) PROVE NamesInv'
  BY <1>0, <1>17, <1>t, PoolShapes DEF FollowsUp
<1>18. ASSUME Fires PROVE NamesInv'
  BY <1>0, <1>18, <1>t, PoolShapes DEF Fires
<1>19. ASSUME TurnPasses PROVE NamesInv'
  BY <1>0, <1>19, <1>t, PoolShapes DEF TurnPasses
<1>20. CASE UNCHANGED poolVars
  BY <1>0, <1>20 DEF poolVars
<1> QED
  BY <1>1, <1>2, <1>3, <1>4, <1>5, <1>6, <1>7, <1>8, <1>9, <1>10, <1>11, <1>12, <1>13, <1>14, <1>15, <1>16, <1>17, <1>18, <1>19, <1>20, Zenon DEF PoolEffect

LEMMA KeptStep == ASSUME PoolInv, PoolTypes', PoolEffect PROVE KeptInv'
<1>0. HandleInv /\ NamesInv /\ KeptInv
  BY DEF PoolInv, MessageInv
<1>t. PoolTypes /\ PoolTypes'
  BY DEF PoolInv
<1> USE DEF Pool!Active, Failed, HandleInv, NamesInv, KeptInv, Alters
<1>1. ASSUME NEW c \in Children, ReadsLine(c) PROVE KeptInv'
  BY <1>0, <1>1, <1>t, PoolShapes DEF ReadsLine
<1>2. ASSUME NEW c \in Children, NEW outcome \in {"completed", "failed"}, EndsOwnRun(c, outcome) PROVE KeptInv'
  BY <1>0, <1>2, <1>t, PoolShapes DEF EndsOwnRun
<1>3. ASSUME NEW c \in Children, EndsOtherRun(c) PROVE KeptInv'
  BY <1>0, <1>3, <1>t, PoolShapes DEF EndsOtherRun
<1>4. ASSUME NEW c \in Children, Exits(c) PROVE KeptInv'
  BY <1>0, <1>4, <1>t, PoolShapes DEF Exits
<1>5. ASSUME NEW c \in Children, HangsUp(c) PROVE KeptInv'
  BY <1>0, <1>5, <1>t, PoolShapes DEF HangsUp
<1>6. ASSUME NEW c \in Children, IsReaped(c) PROVE KeptInv'
  BY <1>0, <1>6, <1>t, PoolShapes DEF IsReaped
<1>7. ASSUME NEW k \in Calls, SeesTheEnd(k) PROVE KeptInv'
  BY <1>0, <1>7, <1>t, PoolShapes DEF SeesTheEnd
<1>8. ASSUME NEW k \in Calls, IsAborted(k) PROVE KeptInv'
  BY <1>0, <1>8, <1>t, PoolShapes DEF IsAborted
<1>9. ASSUME NEW k \in Calls, ReclaimsChild(k) PROVE KeptInv'
  BY <1>0, <1>9, <1>t, PoolShapes DEF ReclaimsChild
<1>10. ASSUME NEW k \in Calls, HoldsSlot(k) PROVE KeptInv'
  BY <1>0, <1>10, <1>t, PoolShapes DEF HoldsSlot
<1>11. ASSUME NEW k \in Calls, PassesOver(k) PROVE KeptInv'
  BY <1>0, <1>11, <1>t, PoolShapes DEF PassesOver
<1>12. ASSUME NEW k \in Calls, NEW i \in Ids, ParksChild(k, i) PROVE KeptInv'
  BY <1>0, <1>12, <1>t, PoolShapes DEF ParksChild
<1>13. ASSUME NEW k \in Calls, NEW i \in Ids, StampsChild(k, i) PROVE KeptInv'
  BY <1>0, <1>13, <1>t, PoolShapes DEF StampsChild
<1>14. ASSUME NEW k \in Calls, FailsDrive(k) PROVE KeptInv'
  BY <1>0, <1>14, <1>t, PoolShapes DEF FailsDrive
<1>15. ASSUME NEW k \in Calls, IsRefused(k) PROVE KeptInv'
  BY <1>0, <1>15, <1>t, PoolShapes DEF IsRefused
<1>16. ASSUME NEW k \in Calls, NEW c \in Children, StartsChild(k, c) PROVE KeptInv'
  BY <1>0, <1>16, <1>t, PoolShapes DEF StartsChild
<1>17. ASSUME NEW k \in Calls, NEW i \in Ids, FollowsUp(k, i) PROVE KeptInv'
  BY <1>0, <1>17, <1>t, PoolShapes DEF FollowsUp
<1>18. ASSUME Fires PROVE KeptInv'
  BY <1>0, <1>18, <1>t, PoolShapes DEF Fires
<1>19. ASSUME TurnPasses PROVE KeptInv'
  BY <1>0, <1>19, <1>t, PoolShapes DEF TurnPasses
<1>20. CASE UNCHANGED poolVars
  BY <1>0, <1>20 DEF poolVars
<1> QED
  BY <1>1, <1>2, <1>3, <1>4, <1>5, <1>6, <1>7, <1>8, <1>9, <1>10, <1>11, <1>12, <1>13, <1>14, <1>15, <1>16, <1>17, <1>18, <1>19, <1>20, Zenon DEF PoolEffect

LEMMA NoOrphansStep == ASSUME PoolInv, PoolTypes', PoolEffect PROVE Pool!NoOrphans'
<1>0. HandleInv /\ Pool!NoOrphans
  BY DEF PoolInv, MessageInv
<1>t. PoolTypes /\ PoolTypes'
  BY DEF PoolInv
<1> USE DEF Pool!Active, Driven, HandleInv, Pool!NoOrphans, Pool!IdOf, Alters
<1>1. ASSUME NEW c \in Children, ReadsLine(c) PROVE Pool!NoOrphans'
  BY <1>0, <1>1, <1>t, PoolShapes DEF ReadsLine
<1>2. ASSUME NEW c \in Children, NEW outcome \in {"completed", "failed"}, EndsOwnRun(c, outcome) PROVE Pool!NoOrphans'
  BY <1>0, <1>2, <1>t, PoolShapes DEF EndsOwnRun
<1>3. ASSUME NEW c \in Children, EndsOtherRun(c) PROVE Pool!NoOrphans'
  BY <1>0, <1>3, <1>t, PoolShapes DEF EndsOtherRun
<1>4. ASSUME NEW c \in Children, Exits(c) PROVE Pool!NoOrphans'
  BY <1>0, <1>4, <1>t, PoolShapes DEF Exits
<1>5. ASSUME NEW c \in Children, HangsUp(c) PROVE Pool!NoOrphans'
  BY <1>0, <1>5, <1>t, PoolShapes DEF HangsUp
<1>6. ASSUME NEW c \in Children, IsReaped(c) PROVE Pool!NoOrphans'
  BY <1>0, <1>6, <1>t, PoolShapes DEF IsReaped
<1>7. ASSUME NEW k \in Calls, SeesTheEnd(k) PROVE Pool!NoOrphans'
  BY <1>0, <1>7, <1>t, PoolShapes DEF SeesTheEnd
<1>8. ASSUME NEW k \in Calls, IsAborted(k) PROVE Pool!NoOrphans'
  BY <1>0, <1>8, <1>t, PoolShapes DEF IsAborted
<1>9. ASSUME NEW k \in Calls, ReclaimsChild(k) PROVE Pool!NoOrphans'
  BY <1>0, <1>9, <1>t, PoolShapes DEF ReclaimsChild
<1>10. ASSUME NEW k \in Calls, HoldsSlot(k) PROVE Pool!NoOrphans'
  BY <1>0, <1>10, <1>t, PoolShapes DEF HoldsSlot
<1>11. ASSUME NEW k \in Calls, PassesOver(k) PROVE Pool!NoOrphans'
  BY <1>0, <1>11, <1>t, PoolShapes DEF PassesOver
<1>12. ASSUME NEW k \in Calls, NEW i \in Ids, ParksChild(k, i) PROVE Pool!NoOrphans'
  BY <1>0, <1>12, <1>t, PoolShapes DEF ParksChild
<1>13. ASSUME NEW k \in Calls, NEW i \in Ids, StampsChild(k, i) PROVE Pool!NoOrphans'
  BY <1>0, <1>13, <1>t, PoolShapes DEF StampsChild, LetGo
<1>14. ASSUME NEW k \in Calls, FailsDrive(k) PROVE Pool!NoOrphans'
  BY <1>0, <1>14, <1>t, PoolShapes DEF FailsDrive
<1>15. ASSUME NEW k \in Calls, IsRefused(k) PROVE Pool!NoOrphans'
  BY <1>0, <1>15, <1>t, PoolShapes DEF IsRefused
<1>16. ASSUME NEW k \in Calls, NEW c \in Children, StartsChild(k, c) PROVE Pool!NoOrphans'
  BY <1>0, <1>16, <1>t, PoolShapes DEF StartsChild
<1>17. ASSUME NEW k \in Calls, NEW i \in Ids, FollowsUp(k, i) PROVE Pool!NoOrphans'
  BY <1>0, <1>17, <1>t, PoolShapes DEF FollowsUp
<1>18. ASSUME Fires PROVE Pool!NoOrphans'
  BY <1>0, <1>18, <1>t, PoolShapes DEF Fires
<1>19. ASSUME TurnPasses PROVE Pool!NoOrphans'
  BY <1>0, <1>19, <1>t, PoolShapes DEF TurnPasses
<1>20. CASE UNCHANGED poolVars
  BY <1>0, <1>20 DEF poolVars
<1> QED
  BY <1>1, <1>2, <1>3, <1>4, <1>5, <1>6, <1>7, <1>8, <1>9, <1>10, <1>11, <1>12, <1>13, <1>14, <1>15, <1>16, <1>17, <1>18, <1>19, <1>20, Zenon DEF PoolEffect

LEMMA NamedStep == ASSUME PoolInv, PoolTypes', PoolEffect PROVE Pool!NamedIdAnswers'
<1>0. HandleInv /\ NamesInv /\ KeptInv /\ Pool!NamedIdAnswers
  BY DEF PoolInv, MessageInv
<1>t. PoolTypes /\ PoolTypes'
  BY DEF PoolInv
<1> USE DEF Pool!Active, Failed, HandleInv, NamesInv, KeptInv, Pool!NamedIdAnswers, Pool!None, Alters
<1>1. ASSUME NEW c \in Children, ReadsLine(c) PROVE Pool!NamedIdAnswers'
  BY <1>0, <1>1, <1>t, PoolShapes DEF ReadsLine
<1>2. ASSUME NEW c \in Children, NEW outcome \in {"completed", "failed"}, EndsOwnRun(c, outcome) PROVE Pool!NamedIdAnswers'
  BY <1>0, <1>2, <1>t, PoolShapes DEF EndsOwnRun
<1>3. ASSUME NEW c \in Children, EndsOtherRun(c) PROVE Pool!NamedIdAnswers'
  BY <1>0, <1>3, <1>t, PoolShapes DEF EndsOtherRun
<1>4. ASSUME NEW c \in Children, Exits(c) PROVE Pool!NamedIdAnswers'
  BY <1>0, <1>4, <1>t, PoolShapes DEF Exits
<1>5. ASSUME NEW c \in Children, HangsUp(c) PROVE Pool!NamedIdAnswers'
  BY <1>0, <1>5, <1>t, PoolShapes DEF HangsUp
<1>6. ASSUME NEW c \in Children, IsReaped(c) PROVE Pool!NamedIdAnswers'
  BY <1>0, <1>6, <1>t, PoolShapes DEF IsReaped
<1>7. ASSUME NEW k \in Calls, SeesTheEnd(k) PROVE Pool!NamedIdAnswers'
  BY <1>0, <1>7, <1>t, PoolShapes DEF SeesTheEnd
<1>8. ASSUME NEW k \in Calls, IsAborted(k) PROVE Pool!NamedIdAnswers'
  BY <1>0, <1>8, <1>t, PoolShapes DEF IsAborted
<1>9. ASSUME NEW k \in Calls, ReclaimsChild(k) PROVE Pool!NamedIdAnswers'
  BY <1>0, <1>9, <1>t, PoolShapes DEF ReclaimsChild
<1>10. ASSUME NEW k \in Calls, HoldsSlot(k) PROVE Pool!NamedIdAnswers'
  BY <1>0, <1>10, <1>t, PoolShapes DEF HoldsSlot
<1>11. ASSUME NEW k \in Calls, PassesOver(k) PROVE Pool!NamedIdAnswers'
  BY <1>0, <1>11, <1>t, PoolShapes DEF PassesOver
<1>12. ASSUME NEW k \in Calls, NEW i \in Ids, ParksChild(k, i) PROVE Pool!NamedIdAnswers'
  BY <1>0, <1>12, <1>t, PoolShapes DEF ParksChild
<1>13. ASSUME NEW k \in Calls, NEW i \in Ids, StampsChild(k, i) PROVE Pool!NamedIdAnswers'
  BY <1>0, <1>13, <1>t, PoolShapes DEF StampsChild
<1>14. ASSUME NEW k \in Calls, FailsDrive(k) PROVE Pool!NamedIdAnswers'
  BY <1>0, <1>14, <1>t, PoolShapes DEF FailsDrive
<1>15. ASSUME NEW k \in Calls, IsRefused(k) PROVE Pool!NamedIdAnswers'
  BY <1>0, <1>15, <1>t, PoolShapes DEF IsRefused
<1>16. ASSUME NEW k \in Calls, NEW c \in Children, StartsChild(k, c) PROVE Pool!NamedIdAnswers'
  BY <1>0, <1>16, <1>t, PoolShapes DEF StartsChild
<1>17. ASSUME NEW k \in Calls, NEW i \in Ids, FollowsUp(k, i) PROVE Pool!NamedIdAnswers'
  BY <1>0, <1>17, <1>t, PoolShapes DEF FollowsUp
<1>18. ASSUME Fires PROVE Pool!NamedIdAnswers'
  BY <1>0, <1>18, <1>t, PoolShapes DEF Fires
<1>19. ASSUME TurnPasses PROVE Pool!NamedIdAnswers'
  BY <1>0, <1>19, <1>t, PoolShapes DEF TurnPasses
<1>20. CASE UNCHANGED poolVars
  BY <1>0, <1>20 DEF poolVars
<1> QED
  BY <1>1, <1>2, <1>3, <1>4, <1>5, <1>6, <1>7, <1>8, <1>9, <1>10, <1>11, <1>12, <1>13, <1>14, <1>15, <1>16, <1>17, <1>18, <1>19, <1>20, Zenon DEF PoolEffect

LEMMA NoneOverstaysStep == ASSUME PoolInv, PoolTypes', PoolEffect PROVE Pool!NoneOverstays'
<1>0. Pool!NoneOverstays
  BY DEF PoolInv, MessageInv
<1>t. PoolTypes /\ PoolTypes'
  BY DEF PoolInv
<1> USE DEF Pool!NoneOverstays, Pool!NoChild, Alters
<1>1. ASSUME NEW c \in Children, ReadsLine(c) PROVE Pool!NoneOverstays'
  BY <1>0, <1>1, <1>t, PoolShapes DEF ReadsLine
<1>2. ASSUME NEW c \in Children, NEW outcome \in {"completed", "failed"}, EndsOwnRun(c, outcome) PROVE Pool!NoneOverstays'
  BY <1>0, <1>2, <1>t, PoolShapes DEF EndsOwnRun
<1>3. ASSUME NEW c \in Children, EndsOtherRun(c) PROVE Pool!NoneOverstays'
  BY <1>0, <1>3, <1>t, PoolShapes DEF EndsOtherRun
<1>4. ASSUME NEW c \in Children, Exits(c) PROVE Pool!NoneOverstays'
  BY <1>0, <1>4, <1>t, PoolShapes DEF Exits
<1>5. ASSUME NEW c \in Children, HangsUp(c) PROVE Pool!NoneOverstays'
  BY <1>0, <1>5, <1>t, PoolShapes DEF HangsUp
<1>6. ASSUME NEW c \in Children, IsReaped(c) PROVE Pool!NoneOverstays'
  BY <1>0, <1>6, <1>t, PoolShapes DEF IsReaped
<1>7. ASSUME NEW k \in Calls, SeesTheEnd(k) PROVE Pool!NoneOverstays'
  BY <1>0, <1>7, <1>t, PoolShapes DEF SeesTheEnd
<1>8. ASSUME NEW k \in Calls, IsAborted(k) PROVE Pool!NoneOverstays'
  BY <1>0, <1>8, <1>t, PoolShapes DEF IsAborted
<1>9. ASSUME NEW k \in Calls, ReclaimsChild(k) PROVE Pool!NoneOverstays'
  BY <1>0, <1>9, <1>t, PoolShapes DEF ReclaimsChild
<1>10. ASSUME NEW k \in Calls, HoldsSlot(k) PROVE Pool!NoneOverstays'
  BY <1>0, <1>10, <1>t, PoolShapes DEF HoldsSlot
<1>11. ASSUME NEW k \in Calls, PassesOver(k) PROVE Pool!NoneOverstays'
  BY <1>0, <1>11, <1>t, PoolShapes DEF PassesOver
<1>12. ASSUME NEW k \in Calls, NEW i \in Ids, ParksChild(k, i) PROVE Pool!NoneOverstays'
  BY <1>0, <1>12, <1>t, PoolShapes DEF ParksChild
<1>13. ASSUME NEW k \in Calls, NEW i \in Ids, StampsChild(k, i) PROVE Pool!NoneOverstays'
  BY <1>0, <1>13, <1>t, PoolShapes DEF StampsChild
<1>14. ASSUME NEW k \in Calls, FailsDrive(k) PROVE Pool!NoneOverstays'
  BY <1>0, <1>14, <1>t, PoolShapes DEF FailsDrive
<1>15. ASSUME NEW k \in Calls, IsRefused(k) PROVE Pool!NoneOverstays'
  BY <1>0, <1>15, <1>t, PoolShapes DEF IsRefused
<1>16. ASSUME NEW k \in Calls, NEW c \in Children, StartsChild(k, c) PROVE Pool!NoneOverstays'
  BY <1>0, <1>16, <1>t, PoolShapes DEF StartsChild
<1>17. ASSUME NEW k \in Calls, NEW i \in Ids, FollowsUp(k, i) PROVE Pool!NoneOverstays'
  BY <1>0, <1>17, <1>t, PoolShapes DEF FollowsUp
<1>18. ASSUME Fires PROVE Pool!NoneOverstays'
  BY <1>0, <1>18, <1>t, PoolShapes DEF Fires
<1>19. ASSUME TurnPasses PROVE Pool!NoneOverstays'
  BY <1>0, <1>19, <1>t, PoolShapes DEF TurnPasses
<1>20. CASE UNCHANGED poolVars
  BY <1>0, <1>20 DEF poolVars
<1> QED
  BY <1>1, <1>2, <1>3, <1>4, <1>5, <1>6, <1>7, <1>8, <1>9, <1>10, <1>11, <1>12, <1>13, <1>14, <1>15, <1>16, <1>17, <1>18, <1>19, <1>20, Zenon DEF PoolEffect

\* Before an abort, what a drive reads of its child is the end of the run its message opened,
\* and nothing is left between them.
LEMMA SeqsAre ==
  /\ \A x : Head(<<x>>) = x /\ Tail(<<x>>) = <<>> /\ <<x>> # <<>>
  /\ \A n : n \notin DOMAIN <<>>
  /\ \A line \in Inputs : Append(<<>>, line) = <<line>>
  /\ \A s \in Seq(Inputs), line \in Inputs : Append(s, line) # <<>>
  /\ \A s \in Seq(Frames), frame \in Frames :
       /\ Append(s, frame) # <<>> /\ Len(Append(s, frame)) = Len(s) + 1
       /\ \A n \in DOMAIN Append(s, frame) : \/ n = Len(s) + 1 /\ Append(s, frame)[n] = frame
                                             \/ n \in DOMAIN s /\ Append(s, frame)[n] = s[n]
  /\ \A s \in Seq(Frames) : s # <<>> =>
       /\ 1 \in DOMAIN s /\ s[1] = Head(s) /\ (Len(s) = 1 => Tail(s) = <<>>)
       /\ \A n \in DOMAIN Tail(s) : n + 1 \in DOMAIN s /\ Tail(s)[n] = s[n + 1] /\ (n + 1 = Len(s) => n = Len(Tail(s)))
<1>1. \A line \in Inputs : Append(<<>>, line) = <<line>>
  OBVIOUS
<1>2. ASSUME NEW s \in Seq(Frames), NEW frame \in Frames
      PROVE  /\ Append(s, frame) # <<>> /\ Len(Append(s, frame)) = Len(s) + 1
             /\ \A n \in DOMAIN Append(s, frame) : \/ n = Len(s) + 1 /\ Append(s, frame)[n] = frame
                                                   \/ n \in DOMAIN s /\ Append(s, frame)[n] = s[n]
  <2>1. Append(s, frame) \in Seq(Frames) /\ Len(Append(s, frame)) = Len(s) + 1 /\ Len(s) \in Nat
    OBVIOUS
  <2>2. Append(s, frame) # <<>>
    BY <2>1, EmptySeq
  <2>3. ASSUME NEW n \in DOMAIN Append(s, frame)
        PROVE  \/ n = Len(s) + 1 /\ Append(s, frame)[n] = frame
               \/ n \in DOMAIN s /\ Append(s, frame)[n] = s[n]
    <3>1. DOMAIN Append(s, frame) = 1 .. (Len(s) + 1) /\ DOMAIN s = 1 .. Len(s)
      OBVIOUS
    <3>2. Append(s, frame)[n] = IF n = Len(s) + 1 THEN frame ELSE s[n]
      BY <2>1, <2>3, <3>1, AppendProperties
    <3> QED
      BY <2>1, <2>3, <3>1, <3>2
  <2> QED
    BY <2>1, <2>2, <2>3
<1>3. ASSUME NEW s \in Seq(Frames), s # <<>>
      PROVE  /\ 1 \in DOMAIN s /\ s[1] = Head(s) /\ (Len(s) = 1 => Tail(s) = <<>>)
             /\ \A n \in DOMAIN Tail(s) : n + 1 \in DOMAIN s /\ Tail(s)[n] = s[n + 1] /\ (n + 1 = Len(s) => n = Len(Tail(s)))
  <2>1. 1 \in DOMAIN s /\ s[1] = Head(s) /\ Tail(s) \in Seq(Frames) /\ Len(Tail(s)) = Len(s) - 1
    BY <1>3
  <2>2. Len(s) = 1 => Tail(s) = <<>>
    <3>1. Len(s) = 1 => Len(Tail(s)) = 0
      BY <2>1
    <3>2. Len(Tail(s)) = 0 => Tail(s) = <<>>
      BY <2>1, EmptySeq, Zenon
    <3> QED
      BY <3>1, <3>2
  <2>3. ASSUME NEW n \in DOMAIN Tail(s)
        PROVE  n + 1 \in DOMAIN s /\ Tail(s)[n] = s[n + 1] /\ (n + 1 = Len(s) => n = Len(Tail(s)))
    BY <1>3, <2>1, <2>3
  <2> QED
    BY <2>1, <2>2, <2>3
<1>4. ASSUME NEW s \in Seq(Inputs), NEW line \in Inputs PROVE Append(s, line) # <<>>
  <2>1. Append(s, line) \in Seq(Inputs) /\ Len(Append(s, line)) = Len(s) + 1 /\ Len(s) \in Nat
    OBVIOUS
  <2> QED
    BY <2>1, EmptySeq
<1> QED
  BY <1>1, <1>2, <1>3, <1>4
LEMMA AwaitedStays ==
  ASSUME NEW c \in Children, Awaited(c), frames'[c] = frames[c], life'[c] = life[c], lines'[c] = lines[c],
         serving'[c] = serving[c], slot'[c] = slot[c], slot[c] # "none" => call'[slot[c]] = call[slot[c]]
  PROVE  Awaited(c)'
BY DEF Awaited
LEMMA OwnEnd ==
  ASSUME PoolTypes, HandleInv, AllAwaited, NEW k \in Calls,
         call[k] = "driving", frames[at[k]] # <<>>, Head(frames[at[k]]).own = TRUE
  PROVE  /\ at[k] \in Children /\ slot[at[k]] = k
         /\ Head(frames[at[k]]).run = {k} /\ Tail(frames[at[k]]) = <<>> /\ life[at[k]] # "working"
         /\ lines[at[k]] # <<>> => life[at[k]] = "gone"
<1>1. at[k] \in Children /\ slot[at[k]] = k
  BY PoolShapes DEF HandleInv, Driven, Pool!Active
<1>2. frames[at[k]] \in Seq(Frames) /\ life[at[k]] \in Lives
  BY <1>1 DEF PoolTypes
<1>3. 1 \in DOMAIN frames[at[k]] /\ frames[at[k]][1].own = TRUE /\ frames[at[k]][1] = Head(frames[at[k]])
  BY <1>2, SeqsAre
<1>4. Head(frames[at[k]]).run = {k} /\ 1 = Len(frames[at[k]]) /\ life[at[k]] # "working"
  <2>1. \A n \in DOMAIN frames[at[k]] :
          frames[at[k]][n].own = TRUE =>
            frames[at[k]][n].run = {slot[at[k]]} /\ n = Len(frames[at[k]]) /\ life[at[k]] # "working"
    BY <1>1 DEF AllAwaited, Awaited
  <2>2. frames[at[k]][1].run = {slot[at[k]]} /\ 1 = Len(frames[at[k]]) /\ life[at[k]] # "working"
    BY <1>3, <2>1, Zenon
  <2> QED
    BY <1>1, <1>3, <2>2
<1>5. lines[at[k]] # <<>> => life[at[k]] = "gone"
  BY <1>1, <1>2, <1>4 DEF AllAwaited, Awaited, HandleInv, Lives
<1> QED
  BY <1>1, <1>2, <1>4, <1>5, SeqsAre

LEMMA AnswerStep == ASSUME PoolInv, PoolTypes', PoolEffect PROVE Pool!OwnAnswer'
<1>0. HandleInv /\ MessageInv /\ Pool!OwnAnswer
  BY DEF PoolInv, MessageInv
<1>t. PoolTypes /\ PoolTypes'
  BY DEF PoolInv
<1> USE DEF Pool!OwnAnswer, Alters
<1>1. ASSUME NEW c \in Children, ReadsLine(c) PROVE Pool!OwnAnswer'
  BY <1>0, <1>1, <1>t, PoolShapes DEF ReadsLine
<1>2. ASSUME NEW c \in Children, NEW outcome \in {"completed", "failed"}, EndsOwnRun(c, outcome) PROVE Pool!OwnAnswer'
  BY <1>0, <1>2, <1>t, PoolShapes DEF EndsOwnRun
<1>3. ASSUME NEW c \in Children, EndsOtherRun(c) PROVE Pool!OwnAnswer'
  BY <1>0, <1>3, <1>t, PoolShapes DEF EndsOtherRun
<1>4. ASSUME NEW c \in Children, Exits(c) PROVE Pool!OwnAnswer'
  BY <1>0, <1>4, <1>t, PoolShapes DEF Exits
<1>5. ASSUME NEW c \in Children, HangsUp(c) PROVE Pool!OwnAnswer'
  BY <1>0, <1>5, <1>t, PoolShapes DEF HangsUp
<1>6. ASSUME NEW c \in Children, IsReaped(c) PROVE Pool!OwnAnswer'
  BY <1>0, <1>6, <1>t, PoolShapes DEF IsReaped
<1>7. ASSUME NEW k \in Calls, SeesTheEnd(k) PROVE Pool!OwnAnswer'
  BY <1>0, <1>7, <1>t, PoolShapes DEF SeesTheEnd
<1>8. ASSUME NEW k \in Calls, IsAborted(k) PROVE Pool!OwnAnswer'
  BY <1>0, <1>8, <1>t, PoolShapes DEF IsAborted
<1>9. ASSUME NEW k \in Calls, ReclaimsChild(k) PROVE Pool!OwnAnswer'
  BY <1>0, <1>9, <1>t, PoolShapes DEF ReclaimsChild
<1>10. ASSUME NEW k \in Calls, HoldsSlot(k) PROVE Pool!OwnAnswer'
  BY <1>0, <1>10, <1>t, PoolShapes DEF HoldsSlot
<1>11. ASSUME NEW k \in Calls, PassesOver(k) PROVE Pool!OwnAnswer'
  BY <1>0, <1>11, <1>t, PoolShapes DEF PassesOver
<1>12. ASSUME NEW k \in Calls, NEW i \in Ids, ParksChild(k, i) PROVE Pool!OwnAnswer'
  <2>1. fired # TRUE => Head(frames[at[k]]).run = {k}
    BY <1>0, <1>12, <1>t, OwnEnd DEF ParksChild, MessageInv
  <2>2. k \in answer'[k] \/ fired = TRUE
    BY <1>12, <2>1 DEF ParksChild
  <2> QED
    BY <1>0, <1>12, <2>2 DEF ParksChild
<1>13. ASSUME NEW k \in Calls, NEW i \in Ids, StampsChild(k, i) PROVE Pool!OwnAnswer'
  <2>1. fired # TRUE => Head(frames[at[k]]).run = {k}
    BY <1>0, <1>13, <1>t, OwnEnd DEF StampsChild, MessageInv
  <2>2. k \in answer'[k] \/ fired = TRUE
    BY <1>13, <2>1 DEF StampsChild
  <2> QED
    BY <1>0, <1>13, <2>2 DEF StampsChild
<1>14. ASSUME NEW k \in Calls, FailsDrive(k) PROVE Pool!OwnAnswer'
  BY <1>0, <1>14, <1>t, PoolShapes DEF FailsDrive
<1>15. ASSUME NEW k \in Calls, IsRefused(k) PROVE Pool!OwnAnswer'
  BY <1>0, <1>15, <1>t, PoolShapes DEF IsRefused
<1>16. ASSUME NEW k \in Calls, NEW c \in Children, StartsChild(k, c) PROVE Pool!OwnAnswer'
  BY <1>0, <1>16, <1>t, PoolShapes DEF StartsChild
<1>17. ASSUME NEW k \in Calls, NEW i \in Ids, FollowsUp(k, i) PROVE Pool!OwnAnswer'
  BY <1>0, <1>17, <1>t, PoolShapes DEF FollowsUp
<1>18. ASSUME Fires PROVE Pool!OwnAnswer'
  BY <1>0, <1>18, <1>t, PoolShapes DEF Fires
<1>19. ASSUME TurnPasses PROVE Pool!OwnAnswer'
  BY <1>0, <1>19, <1>t, PoolShapes DEF TurnPasses
<1>20. CASE UNCHANGED poolVars
  BY <1>0, <1>20 DEF poolVars
<1> QED
  BY <1>1, <1>2, <1>3, <1>4, <1>5, <1>6, <1>7, <1>8, <1>9, <1>10, <1>11, <1>12, <1>13, <1>14, <1>15, <1>16, <1>17, <1>18, <1>19, <1>20, Zenon DEF PoolEffect

LEMMA AwaitedStep == ASSUME PoolInv, PoolTypes', PoolEffect, fired # TRUE, fired' # TRUE PROVE AllAwaited'
<1>0. HandleInv /\ AllAwaited
  BY DEF PoolInv, MessageInv
<1>t. PoolTypes /\ PoolTypes'
  BY DEF PoolInv
<1> USE DEF Alters
<1>1. ASSUME NEW c \in Children, ReadsLine(c) PROVE AllAwaited'
  <2>1. lines[c] = <<slot[c]>> /\ slot[c] \in Calls /\ call[slot[c]] = "driving" /\ life[c] = "idle" /\ frames[c] = <<>> /\ serving[c] = {}
    BY <1>0, <1>1, <1>t, PoolShapes DEF ReadsLine, AllAwaited, Awaited
  <2>2. Head(lines[c]) = slot[c] /\ slot[c] # "abort" /\ Tail(lines[c]) = <<>>
    BY <2>1, SeqsAre, ChildrenAssumption
  <2>3. /\ lines'[c] = <<>> /\ life'[c] = "working" /\ serving'[c] = {slot[c]} /\ frames'[c] = <<>>
        /\ slot'[c] = slot[c] /\ call'[slot[c]] = "driving" /\ slot'[c] # "none"
    BY <1>t, <1>1, <2>1, <2>2, PoolShapes DEF ReadsLine
  <2>7. Awaited(c)'
    BY <2>3, SeqsAre DEF Awaited
  <2>8. ASSUME NEW d \in Children, d # c PROVE Awaited(d)'
    <3>1. /\ frames'[d] = frames[d] /\ life'[d] = life[d] /\ lines'[d] = lines[d] /\ serving'[d] = serving[d]
          /\ slot'[d] = slot[d] /\ (slot[d] # "none" => call'[slot[d]] = call[slot[d]])
      BY <1>1, <2>8 DEF ReadsLine
    <3> QED
      BY <1>0, <3>1, AwaitedStays DEF AllAwaited
  <2> QED
    BY <2>7, <2>8 DEF AllAwaited
<1>2. ASSUME NEW c \in Children, NEW outcome \in {"completed", "failed"}, EndsOwnRun(c, outcome) PROVE AllAwaited'
  <2>1. frames[c] \in Seq(Frames) /\ lines[c] = <<>> /\ serving[c] = {slot[c]} /\ slot[c] # "none" /\ call[slot[c]] = "driving"
    BY <1>0, <1>2, <1>t DEF EndsOwnRun, AllAwaited, Awaited, PoolTypes
  <2>2. \A n \in DOMAIN frames[c] : frames[c][n].own # TRUE
    BY <1>0, <1>2 DEF EndsOwnRun, AllAwaited, Awaited
  <2>3. PICK frame \in Frames : frame = [own |-> TRUE, outcome |-> outcome, run |-> serving[c]]
    BY <1>t, PoolParts DEF PoolTypes
  <2>4. frame.run = {slot[c]}
    BY <2>1, <2>3
  <2>5. /\ frames'[c] = Append(frames[c], frame) /\ life'[c] = "idle" /\ serving'[c] = {} /\ lines'[c] = <<>>
        /\ slot'[c] = slot[c] /\ call'[slot[c]] = "driving"
    BY <1>2, <2>1, <2>3 DEF EndsOwnRun
  <2>6. \A n \in DOMAIN frames'[c] : frames'[c][n].own = TRUE => frames'[c][n].run = {slot[c]} /\ n = Len(frames'[c])
    <3>1. Len(frames'[c]) = Len(frames[c]) + 1
      BY <2>1, <2>3, <2>5, SeqsAre
    <3>2. ASSUME NEW n \in DOMAIN frames'[c]
          PROVE  \/ n = Len(frames[c]) + 1 /\ frames'[c][n] = frame
                 \/ n \in DOMAIN frames[c] /\ frames'[c][n] = frames[c][n]
      BY <2>1, <2>3, <2>5, <3>2, SeqsAre
    <3> QED
      BY <2>2, <2>4, <3>1, <3>2
  <2>7. Awaited(c)'
    BY <2>1, <2>5, <2>6 DEF Awaited
  <2>8. ASSUME NEW d \in Children, d # c PROVE Awaited(d)'
    <3>1. /\ frames'[d] = frames[d] /\ life'[d] = life[d] /\ lines'[d] = lines[d] /\ serving'[d] = serving[d]
          /\ slot'[d] = slot[d] /\ (slot[d] # "none" => call'[slot[d]] = call[slot[d]])
      BY <1>2, <2>8 DEF EndsOwnRun
    <3> QED
      BY <1>0, <3>1, AwaitedStays DEF AllAwaited
  <2> QED
    BY <2>7, <2>8 DEF AllAwaited
<1>3. ASSUME NEW c \in Children, EndsOtherRun(c) PROVE AllAwaited'
  BY <1>0, <1>3, <1>t, PoolShapes DEF EndsOtherRun, Pool!Active, Driven, HandleInv, AllAwaited, Awaited
<1>4. ASSUME NEW c \in Children, Exits(c) PROVE AllAwaited'
  BY <1>0, <1>4, <1>t, PoolShapes DEF Exits, Pool!Active, Driven, HandleInv, AllAwaited, Awaited
<1>5. ASSUME NEW c \in Children, HangsUp(c) PROVE AllAwaited'
  BY <1>0, <1>5, <1>t, PoolShapes DEF HangsUp, Pool!Active, Driven, HandleInv, AllAwaited, Awaited
<1>6. ASSUME NEW c \in Children, IsReaped(c) PROVE AllAwaited'
  BY <1>0, <1>6, <1>t, PoolShapes DEF IsReaped, Pool!Active, Driven, HandleInv, AllAwaited, Awaited
<1>7. ASSUME NEW k \in Calls, SeesTheEnd(k) PROVE AllAwaited'
  BY <1>0, <1>7, <1>t, PoolShapes DEF SeesTheEnd, Pool!Active, Driven, HandleInv, AllAwaited, Awaited
<1>8. ASSUME NEW k \in Calls, IsAborted(k) PROVE AllAwaited'
  BY <1>0, <1>8, <1>t, PoolShapes DEF IsAborted, Pool!Active, Driven, HandleInv, AllAwaited, Awaited
<1>9. ASSUME NEW k \in Calls, ReclaimsChild(k) PROVE AllAwaited'
  BY <1>0, <1>9, <1>t, PoolShapes DEF ReclaimsChild, Pool!Active, Driven, HandleInv, AllAwaited, Awaited
<1>10. ASSUME NEW k \in Calls, HoldsSlot(k) PROVE AllAwaited'
  BY <1>0, <1>10, <1>t, PoolShapes DEF HoldsSlot, Pool!Active, Driven, HandleInv, AllAwaited, Awaited
<1>11. ASSUME NEW k \in Calls, PassesOver(k) PROVE AllAwaited'
  <2>1. at[k] \in Children /\ slot[at[k]] = k
    BY <1>0, <1>11, <1>t, PoolShapes DEF PassesOver, HandleInv, Driven, Pool!Active
  <2>2. PICK c \in Children : c = at[k]
    BY <2>1
  <2>3. frames[c] \in Seq(Frames) /\ frames[c] # <<>>
    BY <1>11, <1>t, <2>2 DEF PoolTypes, PassesOver
  <2>4. /\ frames'[c] = Tail(frames[c]) /\ life'[c] = life[c] /\ serving'[c] = serving[c] /\ lines'[c] = lines[c]
        /\ slot'[c] = k /\ slot[c] = k /\ call'[k] = "driving" /\ k # "none"
    BY <1>11, <1>t, <2>1, <2>2, PoolShapes DEF PassesOver
  <2>5. Awaited(c)
    BY <1>0 DEF AllAwaited
  <2>6. \A n \in DOMAIN frames'[c] :
          frames'[c][n].own = TRUE => frames'[c][n].run = {k} /\ n = Len(frames'[c]) /\ life[c] # "working"
    <3>1. \A n \in DOMAIN frames[c] :
            frames[c][n].own = TRUE => frames[c][n].run = {k} /\ n = Len(frames[c]) /\ life[c] # "working"
      BY <2>4, <2>5 DEF Awaited
    <3> QED
      BY <2>3, <2>4, <3>1, SeqsAre
  <2>7. Awaited(c)'
    <3>1. life[c] = "working" => lines[c] = <<>> /\ serving[c] = {k}
      BY <2>4, <2>5 DEF Awaited
    <3>2. life[c] = "idle" => serving[c] = {} /\ lines[c] = <<>>
      BY <2>3, <2>5 DEF Awaited
    <3> QED
      BY <2>4, <2>6, <3>1, <3>2 DEF Awaited
  <2>8. ASSUME NEW d \in Children, d # c PROVE Awaited(d)'
    <3>1. /\ frames'[d] = frames[d] /\ life'[d] = life[d] /\ lines'[d] = lines[d] /\ serving'[d] = serving[d]
          /\ slot'[d] = slot[d] /\ (slot[d] # "none" => call'[slot[d]] = call[slot[d]])
      BY <1>11, <2>2, <2>8 DEF PassesOver
    <3> QED
      BY <1>0, <3>1, AwaitedStays DEF AllAwaited
  <2> QED
    BY <2>7, <2>8 DEF AllAwaited
<1>12. ASSUME NEW k \in Calls, NEW i \in Ids, ParksChild(k, i) PROVE AllAwaited'
  <2>1. /\ at[k] \in Children /\ slot[at[k]] = k /\ Tail(frames[at[k]]) = <<>> /\ life[at[k]] # "working"
        /\ lines[at[k]] # <<>> => life[at[k]] = "gone"
    BY <1>0, <1>12, <1>t, OwnEnd DEF ParksChild
  <2>2. PICK c \in Children : c = at[k]
    BY <2>1
  <2>3. /\ frames'[c] = <<>> /\ life'[c] # "working" /\ (lines'[c] # <<>> => life'[c] = "gone")
        /\ serving'[c] = serving[c] /\ life'[c] = life[c]
    BY <1>12, <2>1, <2>2 DEF ParksChild
  <2>4. Awaited(c)'
    BY <1>0, <2>1, <2>2, <2>3, SeqsAre DEF AllAwaited, Awaited
  <2>5. ASSUME NEW d \in Children, d # c PROVE Awaited(d)'
    <3>1. slot[d] # "none" => slot[d] \in Calls /\ slot[d] # k
      BY <1>0, <1>t, <2>2, <2>5, PoolShapes DEF HandleInv
    <3>2. /\ frames'[d] = frames[d] /\ life'[d] = life[d] /\ lines'[d] = lines[d] /\ serving'[d] = serving[d]
          /\ slot'[d] = slot[d] /\ (slot[d] # "none" => call'[slot[d]] = call[slot[d]])
      BY <1>12, <2>2, <2>5, <3>1 DEF ParksChild
    <3> QED
      BY <1>0, <3>2, AwaitedStays DEF AllAwaited
  <2> QED
    BY <2>4, <2>5 DEF AllAwaited
<1>13. ASSUME NEW k \in Calls, NEW i \in Ids, StampsChild(k, i) PROVE AllAwaited'
  <2>1. /\ at[k] \in Children /\ slot[at[k]] = k /\ Tail(frames[at[k]]) = <<>> /\ life[at[k]] # "working"
        /\ lines[at[k]] # <<>> => life[at[k]] = "gone"
    BY <1>0, <1>13, <1>t, OwnEnd DEF StampsChild
  <2>2. PICK c \in Children : c = at[k]
    BY <2>1
  <2>3. /\ frames'[c] = <<>> /\ life'[c] # "working" /\ (lines'[c] # <<>> => life'[c] = "gone")
        /\ serving'[c] = serving[c] /\ life'[c] = life[c]
    BY <1>13, <2>1, <2>2 DEF StampsChild
  <2>4. Awaited(c)'
    BY <1>0, <2>1, <2>2, <2>3, SeqsAre DEF AllAwaited, Awaited
  <2>5. ASSUME NEW d \in Children, d # c PROVE Awaited(d)'
    <3>1. slot[d] # "none" => slot[d] \in Calls /\ slot[d] # k
      BY <1>0, <1>t, <2>2, <2>5, PoolShapes DEF HandleInv
    <3>2. /\ frames'[d] = frames[d] /\ life'[d] = life[d] /\ lines'[d] = lines[d] /\ serving'[d] = serving[d]
          /\ slot'[d] = slot[d] /\ (slot[d] # "none" => call'[slot[d]] = call[slot[d]])
      BY <1>13, <2>2, <2>5, <3>1 DEF StampsChild
    <3> QED
      BY <1>0, <3>2, AwaitedStays DEF AllAwaited
  <2> QED
    BY <2>4, <2>5 DEF AllAwaited
<1>14. ASSUME NEW k \in Calls, FailsDrive(k) PROVE AllAwaited'
  <2>1. /\ at[k] \in Children /\ slot[at[k]] = k /\ Tail(frames[at[k]]) = <<>> /\ life[at[k]] # "working"
        /\ lines[at[k]] # <<>> => life[at[k]] = "gone"
    BY <1>0, <1>14, <1>t, OwnEnd DEF FailsDrive
  <2>2. PICK c \in Children : c = at[k]
    BY <2>1
  <2>3. /\ frames'[c] = <<>> /\ life'[c] # "working" /\ (lines'[c] # <<>> => life'[c] = "gone")
        /\ serving'[c] = serving[c] /\ life'[c] = life[c]
    BY <1>14, <2>1, <2>2 DEF FailsDrive
  <2>4. Awaited(c)'
    BY <1>0, <2>1, <2>2, <2>3, SeqsAre DEF AllAwaited, Awaited
  <2>5. ASSUME NEW d \in Children, d # c PROVE Awaited(d)'
    <3>1. slot[d] # "none" => slot[d] \in Calls /\ slot[d] # k
      BY <1>0, <1>t, <2>2, <2>5, PoolShapes DEF HandleInv
    <3>2. /\ frames'[d] = frames[d] /\ life'[d] = life[d] /\ lines'[d] = lines[d] /\ serving'[d] = serving[d]
          /\ slot'[d] = slot[d] /\ (slot[d] # "none" => call'[slot[d]] = call[slot[d]])
      BY <1>14, <2>2, <2>5, <3>1 DEF FailsDrive
    <3> QED
      BY <1>0, <3>2, AwaitedStays DEF AllAwaited
  <2> QED
    BY <2>4, <2>5 DEF AllAwaited
<1>15. ASSUME NEW k \in Calls, IsRefused(k) PROVE AllAwaited'
  BY <1>0, <1>15, <1>t, PoolShapes DEF IsRefused, Pool!Active, Driven, HandleInv, AllAwaited, Awaited
<1>16. ASSUME NEW k \in Calls, NEW c \in Children, StartsChild(k, c) PROVE AllAwaited'
  BY <1>0, <1>16, <1>t, PoolShapes DEF StartsChild, Pool!Active, Driven, HandleInv, AllAwaited, Awaited
<1>17. ASSUME NEW k \in Calls, NEW i \in Ids, FollowsUp(k, i) PROVE AllAwaited'
  BY <1>0, <1>17, <1>t, PoolShapes DEF FollowsUp, Pool!Active, Driven, HandleInv, AllAwaited, Awaited
<1>18. ASSUME Fires PROVE AllAwaited'
  BY <1>0, <1>18, <1>t, PoolShapes DEF Fires, Pool!Active, Driven, HandleInv, AllAwaited, Awaited
<1>19. ASSUME TurnPasses PROVE AllAwaited'
  BY <1>0, <1>19, <1>t, PoolShapes DEF TurnPasses, Pool!Active, Driven, HandleInv, AllAwaited, Awaited
<1>20. CASE UNCHANGED poolVars
  BY <1>0, <1>20 DEF poolVars, AllAwaited, Awaited
<1> QED
  BY <1>1, <1>2, <1>3, <1>4, <1>5, <1>6, <1>7, <1>8, <1>9, <1>10, <1>11, <1>12, <1>13, <1>14, <1>15, <1>16, <1>17, <1>18, <1>19, <1>20, Zenon DEF PoolEffect

LEMMA FiredStep == ASSUME PoolInv, PoolTypes', PoolEffect PROVE steers' = 0 /\ (fired = TRUE => fired' = TRUE)
<1>0. steers = 0
  BY DEF PoolInv, MessageInv
<1>t. PoolTypes /\ PoolTypes'
  BY DEF PoolInv
<1> USE DEF Alters
<1>1. ASSUME NEW c \in Children, ReadsLine(c) PROVE steers' = 0 /\ (fired = TRUE => fired' = TRUE)
  BY <1>0, <1>1, <1>t, PoolShapes DEF ReadsLine
<1>2. ASSUME NEW c \in Children, NEW outcome \in {"completed", "failed"}, EndsOwnRun(c, outcome) PROVE steers' = 0 /\ (fired = TRUE => fired' = TRUE)
  BY <1>0, <1>2, <1>t, PoolShapes DEF EndsOwnRun
<1>3. ASSUME NEW c \in Children, EndsOtherRun(c) PROVE steers' = 0 /\ (fired = TRUE => fired' = TRUE)
  BY <1>0, <1>3, <1>t, PoolShapes DEF EndsOtherRun
<1>4. ASSUME NEW c \in Children, Exits(c) PROVE steers' = 0 /\ (fired = TRUE => fired' = TRUE)
  BY <1>0, <1>4, <1>t, PoolShapes DEF Exits
<1>5. ASSUME NEW c \in Children, HangsUp(c) PROVE steers' = 0 /\ (fired = TRUE => fired' = TRUE)
  BY <1>0, <1>5, <1>t, PoolShapes DEF HangsUp
<1>6. ASSUME NEW c \in Children, IsReaped(c) PROVE steers' = 0 /\ (fired = TRUE => fired' = TRUE)
  BY <1>0, <1>6, <1>t, PoolShapes DEF IsReaped
<1>7. ASSUME NEW k \in Calls, SeesTheEnd(k) PROVE steers' = 0 /\ (fired = TRUE => fired' = TRUE)
  BY <1>0, <1>7, <1>t, PoolShapes DEF SeesTheEnd
<1>8. ASSUME NEW k \in Calls, IsAborted(k) PROVE steers' = 0 /\ (fired = TRUE => fired' = TRUE)
  BY <1>0, <1>8, <1>t, PoolShapes DEF IsAborted
<1>9. ASSUME NEW k \in Calls, ReclaimsChild(k) PROVE steers' = 0 /\ (fired = TRUE => fired' = TRUE)
  BY <1>0, <1>9, <1>t, PoolShapes DEF ReclaimsChild
<1>10. ASSUME NEW k \in Calls, HoldsSlot(k) PROVE steers' = 0 /\ (fired = TRUE => fired' = TRUE)
  BY <1>0, <1>10, <1>t, PoolShapes DEF HoldsSlot
<1>11. ASSUME NEW k \in Calls, PassesOver(k) PROVE steers' = 0 /\ (fired = TRUE => fired' = TRUE)
  BY <1>0, <1>11, <1>t, PoolShapes DEF PassesOver
<1>12. ASSUME NEW k \in Calls, NEW i \in Ids, ParksChild(k, i) PROVE steers' = 0 /\ (fired = TRUE => fired' = TRUE)
  BY <1>0, <1>12, <1>t, PoolShapes DEF ParksChild
<1>13. ASSUME NEW k \in Calls, NEW i \in Ids, StampsChild(k, i) PROVE steers' = 0 /\ (fired = TRUE => fired' = TRUE)
  BY <1>0, <1>13, <1>t, PoolShapes DEF StampsChild
<1>14. ASSUME NEW k \in Calls, FailsDrive(k) PROVE steers' = 0 /\ (fired = TRUE => fired' = TRUE)
  BY <1>0, <1>14, <1>t, PoolShapes DEF FailsDrive
<1>15. ASSUME NEW k \in Calls, IsRefused(k) PROVE steers' = 0 /\ (fired = TRUE => fired' = TRUE)
  BY <1>0, <1>15, <1>t, PoolShapes DEF IsRefused
<1>16. ASSUME NEW k \in Calls, NEW c \in Children, StartsChild(k, c) PROVE steers' = 0 /\ (fired = TRUE => fired' = TRUE)
  BY <1>0, <1>16, <1>t, PoolShapes DEF StartsChild
<1>17. ASSUME NEW k \in Calls, NEW i \in Ids, FollowsUp(k, i) PROVE steers' = 0 /\ (fired = TRUE => fired' = TRUE)
  BY <1>0, <1>17, <1>t, PoolShapes DEF FollowsUp
<1>18. ASSUME Fires PROVE steers' = 0 /\ (fired = TRUE => fired' = TRUE)
  BY <1>0, <1>18, <1>t, PoolShapes DEF Fires
<1>19. ASSUME TurnPasses PROVE steers' = 0 /\ (fired = TRUE => fired' = TRUE)
  BY <1>0, <1>19, <1>t, PoolShapes DEF TurnPasses
<1>20. CASE UNCHANGED poolVars
  BY <1>0, <1>20 DEF poolVars
<1> QED
  BY <1>1, <1>2, <1>3, <1>4, <1>5, <1>6, <1>7, <1>8, <1>9, <1>10, <1>11, <1>12, <1>13, <1>14, <1>15, <1>16, <1>17, <1>18, <1>19, <1>20, Zenon DEF PoolEffect

\* The pool keeps its invariant, which holds the properties in it.
LEMMA PoolKeeps == ASSUME PoolInv, Pool!SubNext \/ UNCHANGED poolVars PROVE PoolInv'
<1>1. PoolTypes' /\ PoolEffect
  BY PoolMoves
<1>2. HandleInv' /\ NamesInv' /\ KeptInv' /\ Pool!NoOrphans' /\ Pool!NamedIdAnswers' /\ Pool!NoneOverstays' /\ Pool!OwnAnswer'
  BY <1>1, HandleStep, NamesStep, KeptStep, NoOrphansStep, NamedStep, NoneOverstaysStep, AnswerStep
<1>3. steers' = 0 /\ (fired = TRUE => fired' = TRUE)
  BY <1>1, FiredStep
<1>4. MessageInv'
  BY <1>1, <1>3, AwaitedStep DEF MessageInv
<1> QED
  BY <1>1, <1>2, <1>4 DEF PoolInv
LEMMA PoolStarts == Pool!SubInit => PoolInv
<1> SUFFICES ASSUME Pool!SubInit PROVE PoolInv
  OBVIOUS
<1>1. PoolTypes
  <2>1. "unborn" \in Lives /\ "waiting" \in Endings /\ "new" \in CallSteps /\ FALSE \in BOOLEAN /\ 0 \in Nat
    BY DEF Lives, Endings, CallSteps
  <2>2. <<>> \in Seq(Inputs) /\ <<>> \in Seq(Frames) /\ {} \in SUBSET Messages
    OBVIOUS
  <2>3. /\ life \in [Children -> Lives] /\ serving \in [Children -> SUBSET Messages]
        /\ closing \in [Children -> BOOLEAN] /\ hungup \in [Children -> BOOLEAN]
    BY <2>1, <2>2 DEF Pool!SubInit
  <2>4. lines \in [Children -> Seq(Inputs)] /\ frames \in [Children -> Seq(Frames)] /\ ending \in [Children -> Endings]
    BY <2>1, <2>2 DEF Pool!SubInit
  <2>5. /\ parked \in [Ids -> Children \cup {0}] /\ lastUsed \in [Children -> Nat]
        /\ slot \in [Children -> Calls \cup {"none"}] /\ call \in [Calls -> CallSteps]
    BY <2>1 DEF Pool!SubInit, Pool!NoChild, Pool!None
  <2>6. /\ at \in [Calls -> Children \cup {0}] /\ named \in [Calls -> Ids \cup {"none"}]
        /\ answer \in [Calls -> SUBSET Messages] /\ turn \in Nat /\ steers \in Nat /\ fired \in BOOLEAN
    BY <2>1, <2>2 DEF Pool!SubInit, Pool!NoChild, Pool!None
  <2> QED
    BY <2>3, <2>4, <2>5, <2>6 DEF PoolTypes
<1>2. /\ \A c \in Children : life[c] = "unborn" /\ serving[c] = {} /\ lines[c] = <<>> /\ frames[c] = <<>>
      /\ \A c \in Children : slot[c] = "none" /\ ending[c] = "waiting"
      /\ \A i \in Ids : parked[i] = 0
      /\ \A k \in Calls : call[k] = "new" /\ at[k] = 0 /\ named[k] = "none"
      /\ steers = 0
  BY DEF Pool!SubInit, Pool!NoChild, Pool!None
<1>4. HandleInv /\ NamesInv /\ KeptInv
  BY <1>2, ChildrenAssumption DEF HandleInv, NamesInv, KeptInv, Pool!Active, Driven
<1>5. MessageInv
  BY <1>2, SeqsAre DEF MessageInv, AllAwaited, Awaited
<1>3. Pool!NoOrphans /\ Pool!OwnAnswer /\ Pool!NamedIdAnswers /\ Pool!NoneOverstays
  BY <1>1, ChildrenAssumption
     DEF Pool!SubInit, Pool!NoOrphans, Pool!OwnAnswer, Pool!NamedIdAnswers, Pool!NoneOverstays, Pool!Active, Pool!NoChild, Pool!None
<1> QED
  BY <1>1, <1>3, <1>4, <1>5 DEF PoolInv

-----------------------------------------------------------------------------
(* The children of the wire                                               *)

\* A child is heard only once it spoke our version and mounted; before an abort a drive is
\* answered by the run its own message opened, an id names the child it was given for, no
\* child outlives its pool's handle, and a guest gives every call one result and closes every
\* card it showed (boot.rs, pool.rs, ext-sdk lib.rs).
THEOREM ChildrenAreWell == Spec => []ChildrenAreOurs
<1> DEFINE Inv == BootInv /\ PoolInv /\ GuestInv
<1>1. Init => Inv
  <2>1. Init => Boot!BootInit /\ Pool!SubInit /\ Guest!Init
    BY DEF Init
  <2> QED
    BY <2>1, BootStarts, PoolStarts, GuestStarts
<1>2. Inv /\ [Next]_allVars => Inv'
  <2>1. [Next]_allVars => Boot!BootNext \/ UNCHANGED bootVars
    BY DEF Next, Only, allVars
  <2>2. [Next]_allVars => Pool!SubNext \/ UNCHANGED poolVars
    BY DEF Next, Only, allVars
  <2>3. [Next]_allVars => Guest!GuestNext \/ UNCHANGED guestVars
    BY DEF Next, Only, allVars
  <2> QED
    BY <2>1, <2>2, <2>3, BootMoves, PoolKeeps, GuestMoves
<1>3. Inv => ChildrenAreOurs
  BY BootHolds, GuestHolds DEF PoolInv, ChildrenAreOurs
<1> HIDE DEF Inv
<1> QED
  BY <1>1, <1>2, <1>3, PTL DEF Spec
=============================================================================
