-------------------------- MODULE SessionLogProofs --------------------------
(***************************************************************************)
(* What TLAPS proves of the session log, for every value of its constants: *)
(* its types and notices, that durable bytes stay, that the log keeps the  *)
(* promise of DurableLog, and that the file is the session.                *)
(***************************************************************************)
EXTENDS SessionLog, WellFoundedInduction, TLAPS

-----------------------------------------------------------------------------
(* Greatest elements                                                       *)

\* The library's relation of an operator, for the order of the naturals.
LEMMA LessThanRelation == OpToRel(<, Nat) = {ss \in Nat \X Nat : ss[1] < ss[2]}
  BY DEF OpToRel

\* A nonempty set of natural numbers has a least element.
LEMMA LeastExists ==
  ASSUME NEW S \in SUBSET Nat, S # {}
  PROVE  \E x \in S : \A y \in S : x <= y
<1> DEFINE less == {ss \in Nat \X Nat : ss[1] < ss[2]}
<1>1. IsWellFoundedOn(less, Nat)
  BY NatLessThanWellFounded, LessThanRelation, Zenon
<1>2. PICK x \in S : \A y \in S : ~(<<y, x>> \in less)
  <2> HIDE DEF less
  <2> QED
    BY <1>1, WFMin, Zenon
<1>3. \A y \in S : ~(y < x)
  <2>1. SUFFICES ASSUME NEW y \in S, y < x PROVE FALSE
    OBVIOUS
  <2>2. <<y, x>> \in less
    BY <2>1
  <2> QED
    BY <1>2, <2>2
<1> QED
  BY <1>3

\* A nonempty bounded set of natural numbers has a greatest element.
LEMMA MaxProperties ==
  ASSUME NEW n \in Nat, NEW S \in SUBSET (0..n), S # {}
  PROVE  Max(S) \in S /\ \A y \in S : y <= Max(S)
<1> DEFINE mirror == {n - x : x \in S}
<1>1. mirror \in SUBSET Nat /\ mirror # {}
  <2>1. \A x \in S : n - x \in Nat
    OBVIOUS
  <2>2. PICK x \in S : TRUE
    OBVIOUS
  <2>3. n - x \in mirror
    OBVIOUS
  <2> QED
    BY <2>1, <2>3, Zenon
<1>2. PICK least \in mirror : \A y \in mirror : least <= y
  BY <1>1, LeastExists
<1>3. PICK x \in S : least = n - x
  BY <1>2
<1>4. \A y \in S : x >= y
  <2>1. SUFFICES ASSUME NEW y \in S PROVE x >= y
    OBVIOUS
  <2>2. least <= n - y
    BY <1>2
  <2> QED
    BY <2>2, <1>3
<1>5. Max(S) \in S /\ \A y \in S : Max(S) >= y
  BY <1>4, Zenon DEF Max
<1> QED
  BY <1>5

-----------------------------------------------------------------------------
(* Records and text                                                        *)

\* A function on 1..n is a sequence of length n.
LEMMA SeqOfFunction ==
  ASSUME NEW S, NEW n \in Nat, NEW f \in [1..n -> S]
  PROVE  f \in Seq(S) /\ Len(f) = n
  OBVIOUS

\* Each of the session's own records is a record of the file.
LEMMA RecordTypes ==
  /\ Header \in Record
  /\ \A to \in Ids \cup {Root} : CheckoutRecord(to) \in Record
  /\ \A m \in Models : ModelChange(m) \in Record
  BY DEF Record

\* An outbox becomes two tokens per record: the line and its newline.
LEMMA BlobType ==
  ASSUME NEW recs \in Seq(Record)
  PROVE  /\ Blob(recs) \in Seq(Token)
         /\ Len(Blob(recs)) = 2 * Len(recs)
<1>1. \A i \in 1..(2 * Len(recs)) : i % 2 = 1 => (i + 1) \div 2 \in 1..Len(recs)
  OBVIOUS
<1>2. Blob(recs) \in [1..(2 * Len(recs)) -> Token]
  BY <1>1 DEF Blob, Token
<1> QED
  BY <1>2, SeqOfFunction

\* Whatever a cut write leaves of a blob is still text.
LEMMA PartialType ==
  ASSUME NEW recs \in Seq(Record), NEW cuts, NEW part \in Partial(recs, cuts)
  PROVE  part \in Seq(Token)
<1> DEFINE kept(n) == SubSeq(Blob(recs), 1, n)
<1>1. \A n \in 0..(2 * Len(recs)) : kept(n) \in Seq(Token)
  BY BlobType
<1>2. \E k \in 0..(Len(recs) - 1) :
         part \in {kept(2 * k), Append(kept(2 * k), Torn), kept(2 * k + 1)}
  BY Zenon DEF Partial
<1>3. Torn \in Token
  BY DEF Token
<1> QED
  BY <1>1, <1>2, <1>3

\* Whole lines are records, so what a parser returns can be typed.
LEMMA LinesType ==
  ASSUME NEW text \in Seq(Token), WholeLines(text)
  PROVE  Lines(text) \in Seq(Record)
<1>1. \A i \in 1..((Len(text) + 1) \div 2) : 2 * i - 1 \in 1..Len(text)
  OBVIOUS
<1>2. \A i \in 1..((Len(text) + 1) \div 2) : (2 * i - 1) % 2 # 0
  OBVIOUS
<1>3. \A i \in 1..((Len(text) + 1) \div 2) : text[2 * i - 1] \in Record
  BY <1>1, <1>2 DEF WholeLines, Token
<1>4. Lines(text) \in [1..((Len(text) + 1) \div 2) -> Record]
  BY <1>3 DEF Lines
<1> QED
  BY <1>4, SeqOfFunction
-----------------------------------------------------------------------------
(* What the parser returns                                                 *)

\* The tag of a record decides which fields it has.
LEMMA RecordsByType ==
  ASSUME NEW rec \in Record
  PROVE  /\ rec.t = "node" => rec \in Node
         /\ rec.t = "checkout" => rec.to \in Ids \cup {Root}
         /\ rec.t = "model" => rec.model \in Models
  BY DEF Record, Node, Header, CheckoutRecord, ModelChange

\* The nodes a parse returns are nodes, each under its own id.
LEMMA NodesOfType ==
  ASSUME NEW recs \in Seq(Record)
  PROVE  /\ DOMAIN NodesOf(recs) \subseteq Ids
         /\ \A id \in DOMAIN NodesOf(recs) :
              NodesOf(recs)[id] \in Node /\ NodesOf(recs)[id].id = id
         /\ \A i \in DOMAIN recs :
              recs[i].t = "node" => recs[i].id \in DOMAIN NodesOf(recs)
<1> DEFINE at == {i \in DOMAIN recs : recs[i].t = "node"}
           found(id) == CHOOSE i \in at : recs[i].id = id
<1>1. \A i \in at : recs[i] \in Node /\ recs[i].id \in Ids
  BY RecordsByType DEF Node
<1>2. NodesOf(recs) = [id \in {recs[i].id : i \in at} |-> recs[found(id)]]
  BY Zenon DEF NodesOf
<1>3. ASSUME NEW id \in {recs[i].id : i \in at}
      PROVE  found(id) \in at /\ recs[found(id)].id = id
  <2>1. \E i \in at : recs[i].id = id
    OBVIOUS
  <2> QED
    BY <2>1, Zenon
<1> HIDE DEF found
<1> QED
  BY <1>1, <1>2, <1>3

\* The head a parse returns is a node it returned, or the root.
LEMMA HeadOfType ==
  ASSUME NEW recs \in Seq(Record), WellLinked(recs)
  PROVE  HeadOf(recs) \in DOMAIN NodesOf(recs) \cup {Root}
<1> DEFINE moves == {i \in DOMAIN recs : Moves(recs[i])}
<1>1. CASE moves = {}
  BY <1>1 DEF HeadOf
<1>2. CASE moves # {}
  <2>1. Len(recs) \in Nat /\ moves \in SUBSET (0..Len(recs))
    OBVIOUS
  <2>2. PICK last \in moves : last = Max(moves)
    <3> HIDE DEF moves
    <3> QED
      BY <1>2, <2>1, MaxProperties, Zenon
  <2>3. HeadOf(recs) = MovesTo(recs[last])
    BY <1>2, <2>2 DEF HeadOf
  <2>4. CASE recs[last].t = "node"
    BY <2>3, <2>4, NodesOfType DEF MovesTo
  <2>5. CASE recs[last].t = "checkout"
    <3> DEFINE before == SubSeq(recs, 1, last - 1)
    <3>1. last \in 2..Len(recs)
      BY <2>5 DEF WellLinked, Header
    <3>2. recs[last].to \in DOMAIN NodesOf(before) \cup {Root}
      BY <3>1, <2>5, Zenon DEF WellLinked
    <3>3. DOMAIN NodesOf(before) \subseteq DOMAIN NodesOf(recs)
      <4>1. before \in Seq(Record) /\ \A i \in DOMAIN before :
              i \in DOMAIN recs /\ before[i] = recs[i]
        BY <3>1
      <4> HIDE DEF before
      <4> QED
        BY <4>1 DEF NodesOf
    <3> QED
      BY <2>3, <2>5, <3>2, <3>3 DEF MovesTo
  <2> QED
    BY <2>4, <2>5 DEF Moves
<1> QED
  BY <1>1, <1>2

\* A parse finds one of the models, or none.
LEMMA RegisterOfType ==
  ASSUME NEW recs \in Seq(Record)
  PROVE  RegisterOf(recs) \in Models \cup {NoModel}
<1> DEFINE changes == {i \in DOMAIN recs : recs[i].t = "model"}
<1>1. CASE changes = {}
  BY <1>1 DEF RegisterOf
<1>2. CASE changes # {}
  <2>1. Len(recs) \in Nat /\ changes \in SUBSET (0..Len(recs))
    OBVIOUS
  <2>2. PICK last \in changes : last = Max(changes)
    <3> HIDE DEF changes
    <3> QED
      BY <1>2, <2>1, MaxProperties, Zenon
  <2> QED
    BY <1>2, <2>2, RecordsByType DEF RegisterOf
<1> QED
  BY <1>1, <1>2

-----------------------------------------------------------------------------
(* One enqueue                                                             *)

\* The notice the frontend holds (or will get) fits this writer.
Tracks(w, t) ==
  /\ w.transition = "none" => t = w.degraded
  /\ w.transition = "entered" => w.degraded
  /\ w.transition = "recovered" => ~w.degraded

\* Reporting an outcome touches the flag and its transition only, and the
\* transition it leaves agrees with what the frontend was told.
LEMMA ReportStep ==
  ASSUME NEW w \in Writer, NEW ok \in BOOLEAN, NEW t \in BOOLEAN
  PROVE  /\ Report(w, ok) \in Writer
         /\ Report(w, ok).outbox = w.outbox /\ Report(w, ok).opened = w.opened
         /\ Report(w, ok).offset = w.offset /\ Report(w, ok).born = w.born
         /\ Tracks(w, t) => Tracks(Report(w, ok), t)
  BY DEF Writer, Report, Tracks

\* Queueing keeps the file's side of the writer, and birth is for good.
LEMMA QueuedStep ==
  ASSUME NEW w \in Writer, NEW recs \in Seq(Record)
  PROVE  /\ Queued(w, recs) \in Writer
         /\ Queued(w, recs).opened = w.opened
         /\ Queued(w, recs).offset = w.offset
         /\ Queued(w, recs).born =
              (w.born \/ \E i \in DOMAIN recs : IsUserMessage(recs[i]))
         /\ \A t : Tracks(w, t) => Tracks(Queued(w, recs), t)
<1>1. (w.born \/ \E i \in DOMAIN recs : IsUserMessage(recs[i])) \in BOOLEAN
  BY DEF Writer
<1>2. w.outbox \o recs \in Seq(Record)
  BY DEF Writer
<1> QED
  BY <1>1, <1>2 DEF Writer, Queued, Tracks

\* A successful write moves the offset to the end of what it wrote.
LEMMA WrittenStep ==
  ASSUME NEW w \in Writer
  PROVE  /\ Written(w) \in Writer
         /\ Written(w).opened /\ Written(w).born = w.born
         /\ Written(w).offset = w.offset + Len(Blob(w.outbox))
         /\ Written(w).transition = w.transition
         /\ Written(w).degraded = w.degraded
<1>1. w.outbox \in Seq(Record) /\ w.offset \in Nat
  BY DEF Writer
<1>2. Len(Blob(w.outbox)) \in Nat
  BY <1>1, BlobType
<1> DEFINE len == Len(Blob(w.outbox))
<1> HIDE DEF len
<1>3. Written(w) = [w EXCEPT !.outbox = <<>>, !.opened = TRUE,
                             !.offset = w.offset + len]
  BY DEF Written, len
<1>4. <<>> \in Seq(Record) /\ w.offset + len \in Nat
  BY <1>1, <1>2 DEF len
<1>5. /\ Written(w) \in Writer
      /\ Written(w).opened /\ Written(w).born = w.born
      /\ Written(w).offset = w.offset + len
      /\ Written(w).transition = w.transition
      /\ Written(w).degraded = w.degraded
  BY <1>3, <1>4 DEF Writer
<1> QED
  BY <1>5 DEF len

\* What a failed write leaves still begins with the durable bytes.
LEMMA FailedWriteStep ==
  ASSUME file \in Seq(Token), NEW w \in Writer, w.offset <= Len(file),
         NEW left \in AfterFailedWrite(w)
  PROVE  /\ left \in Seq(Token) /\ w.offset <= Len(left)
         /\ IsPrefix(SubSeq(file, 1, w.offset), left)
<1>1. w.offset \in 0..Len(file) /\ w.outbox \in Seq(Record)
  BY DEF Writer
<1>2. CASE left = SubSeq(file, 1, w.offset)
  BY <1>1, <1>2 DEF IsPrefix
<1>3. ASSUME NEW part \in Partial(w.outbox, Cuts), left = file \o part
      PROVE  /\ left \in Seq(Token) /\ w.offset <= Len(left)
             /\ IsPrefix(SubSeq(file, 1, w.offset), left)
  BY <1>1, <1>3, PartialType DEF IsPrefix
<1> QED
  BY <1>2, <1>3, Zenon DEF AfterFailedWrite

\* An accepted batch keeps the writer a writer, its offset inside the file,
\* its notices true, and the durable bytes where they were.
LEMMA EnqueueStep ==
  ASSUME file \in Seq(Token), exists \in BOOLEAN,
         NEW w0 \in Writer, w0.offset <= Len(file), w0.opened => exists,
         NEW recs \in Seq(Record), Enqueue(w0, recs)
  PROVE  /\ writer' \in Writer /\ file' \in Seq(Token) /\ exists' \in BOOLEAN
         /\ writer'.offset <= Len(file') /\ (writer'.opened => exists')
         /\ writer'.born = Queued(w0, recs).born
         /\ exists' => exists \/ writer'.born
         /\ \A t \in BOOLEAN : Tracks(w0, t) => Tracks(writer', t)
         /\ IsPrefix(SubSeq(file, 1, w0.offset), file')
<1> DEFINE w == Queued(w0, recs)
<1>1. /\ w \in Writer /\ w.opened = w0.opened /\ w.offset = w0.offset
      /\ \A t : Tracks(w0, t) => Tracks(w, t)
  BY QueuedStep
<1>0. w.born = Queued(w0, recs).born
  OBVIOUS
<1> HIDE DEF w
<1>2. w.offset \in 0..Len(file) /\ w.outbox \in Seq(Record)
  BY <1>1 DEF Writer
<1>3. IsPrefix(SubSeq(file, 1, w.offset), file)
  BY <1>2 DEF IsPrefix
<1>4. CASE /\ NothingToWrite(w)
           /\ writer' = Report(w, TRUE)
           /\ UNCHANGED <<file, exists>>
  BY <1>0, <1>1, <1>2, <1>3, <1>4, ReportStep DEF NothingToWrite
<1>5. CASE /\ ~NothingToWrite(w)
           /\ writer' = Report(Written(w), TRUE)
           /\ file' = file \o Blob(w.outbox)
           /\ exists' = TRUE
  <2>1. /\ Blob(w.outbox) \in Seq(Token) /\ Len(Blob(w.outbox)) \in Nat
    BY <1>2, BlobType
  <2> DEFINE wn == Written(w)
  <2>2. /\ wn \in Writer /\ wn.born = w.born /\ wn.opened
        /\ wn.offset = w.offset + Len(Blob(w.outbox))
        /\ wn.transition = w.transition /\ wn.degraded = w.degraded
    BY <1>1, WrittenStep
  <2>6. writer' = Report(wn, TRUE)
    BY <1>5
  <2> HIDE DEF wn
  <2>7. \A t : Tracks(w, t) => Tracks(wn, t)
    BY <2>2 DEF Tracks
  <2>3. file' \in Seq(Token) /\ Len(file') = Len(file) + Len(Blob(w.outbox))
    BY <1>5, <2>1
  <2>4. IsPrefix(SubSeq(file, 1, w.offset), file')
    BY <1>2, <1>5, <2>1 DEF IsPrefix
  <2>5. w.born \/ w.opened
    BY <1>5 DEF NothingToWrite
  <2>8. /\ writer' \in Writer /\ writer'.offset <= Len(file')
        /\ writer'.born = w.born
    <3>1. wn.offset <= Len(file')
      BY <1>2, <2>1, <2>2, <2>3
    <3> QED
      BY <3>1, <2>2, <2>6, ReportStep
  <2>9. \A t \in BOOLEAN : Tracks(w, t) => Tracks(writer', t)
    BY <2>2, <2>6, <2>7, ReportStep
  <2> QED
    BY <1>0, <1>1, <1>5, <2>3, <2>4, <2>5, <2>8, <2>9
<1>6. CASE /\ ~NothingToWrite(w) /\ ~w.opened
           /\ writer' = Report(w, FALSE)
           /\ UNCHANGED <<file, exists>>
  BY <1>0, <1>1, <1>2, <1>3, <1>6, ReportStep DEF NothingToWrite
<1>7. CASE /\ ~NothingToWrite(w)
           /\ writer' = Report([w EXCEPT !.opened = TRUE], FALSE)
           /\ file' \in AfterFailedWrite(w)
           /\ exists' = TRUE
  <2> DEFINE wo == [w EXCEPT !.opened = TRUE]
  <2>1. /\ wo \in Writer /\ wo.born = w.born /\ wo.offset = w.offset
        /\ \A t : Tracks(w, t) => Tracks(wo, t)
    BY <1>1 DEF Writer, Tracks
  <2>2. /\ file' \in Seq(Token) /\ w.offset <= Len(file')
        /\ IsPrefix(SubSeq(file, 1, w.offset), file')
    BY <1>1, <1>7, FailedWriteStep
  <2>3. w.born \/ w.opened
    BY <1>7 DEF NothingToWrite
  <2> HIDE DEF wo
  <2>4. writer' = Report(wo, FALSE)
    BY <1>7 DEF wo
  <2>5. /\ writer' \in Writer /\ writer'.offset <= Len(file')
        /\ writer'.born = w.born
    BY <2>1, <2>2, <2>4, ReportStep
  <2>6. \A t \in BOOLEAN : Tracks(w, t) => Tracks(writer', t)
    BY <2>1, <2>4, ReportStep
  <2> QED
    BY <1>0, <1>1, <1>7, <2>2, <2>3, <2>5, <2>6
<1> QED
  BY <1>4, <1>5, <1>6, <1>7, Zenon DEF Enqueue, w

-----------------------------------------------------------------------------
(* The inductive invariant                                                 *)

\* The conversation: what the parser and the doors build.
TreeInv ==
  /\ DOMAIN nodes \subseteq Ids
  /\ \A id \in DOMAIN nodes : nodes[id] \in Node /\ nodes[id].id = id
  /\ head \in DOMAIN nodes \cup {Root}
  /\ register \in Models \cup {NoModel}

\* The log: its types, the properties, and what they rest on: the durable
\* offset lies inside the file, a session is born by a minted user message,
\* an open handle has a file, and a dead process leaves no writer behind.
LogInv ==
  /\ phase \in {"live", "closed", "refused"}
  /\ writer \in Writer /\ file \in Seq(Token)
  /\ exists \in BOOLEAN /\ told \in BOOLEAN /\ minted \in 0..MaxNodes
  /\ Tracks(writer, told)
  /\ exists => minted > 0
  /\ writer.offset <= Len(file)
  /\ writer.born => minted > 0
  /\ writer.opened => exists
  /\ phase # "live" => writer = FreshWriter(<<>>) /\ told = FALSE

Inv == TreeInv /\ LogInv

\* The inductive invariant contains the properties it was found for.
LEMMA InvImplies == Inv => TypeOK /\ NoOrphan /\ NoticeTracksDegraded
  BY Zenon DEF Inv, TreeInv, LogInv, TypeOK, NoOrphan, NoticeTracksDegraded, Tracks

\* A writer without a file has nothing durable and nothing to tell.
LEMMA FreshWriterType ==
  ASSUME NEW lines \in Seq(Record)
  PROVE  /\ FreshWriter(lines) \in Writer /\ FreshWriter(lines).offset = 0
         /\ ~FreshWriter(lines).born /\ ~FreshWriter(lines).opened
         /\ Tracks(FreshWriter(lines), FALSE)
  BY DEF FreshWriter, Writer, Tracks

\* A resumed writer counts the whole file as durable.
LEMMA AppendWriterType ==
  ASSUME NEW len \in Nat
  PROVE  /\ AppendWriter(len) \in Writer /\ AppendWriter(len).offset = len
         /\ AppendWriter(len).opened = TRUE
         /\ Tracks(AppendWriter(len), FALSE)
<1> DEFINE fresh == FreshWriter(<<>>)
<1>1. <<>> \in Seq(Record)
  OBVIOUS
<1>2. /\ fresh \in Writer /\ fresh.transition = "none"
      /\ fresh.degraded = FALSE
  BY <1>1, FreshWriterType DEF FreshWriter
<1>3. AppendWriter(len) =
        [fresh EXCEPT !.opened = TRUE, !.offset = len, !.born = TRUE]
  BY DEF AppendWriter
<1> HIDE DEF fresh
<1> QED
  BY <1>2, <1>3 DEF Writer, Tracks

\* Every enqueue of the live session preserves the log's invariant.
LEMMA EnqueuePreserves ==
  ASSUME Inv, phase = "live", NEW recs \in Seq(Record), Enqueue(writer, recs),
         phase' = phase, told' = told,
         minted' \in 0..MaxNodes, minted <= minted',
         (\E i \in DOMAIN recs : IsUserMessage(recs[i])) => minted' > 0
  PROVE  LogInv'
<1>1. /\ writer \in Writer /\ file \in Seq(Token) /\ exists \in BOOLEAN
      /\ writer.offset <= Len(file) /\ (writer.opened => exists)
      /\ told \in BOOLEAN /\ Tracks(writer, told) /\ minted \in 0..MaxNodes
      /\ (exists => minted > 0) /\ (writer.born => minted > 0)
  BY Zenon DEF Inv, LogInv
<1>2. /\ writer' \in Writer /\ file' \in Seq(Token) /\ exists' \in BOOLEAN
      /\ writer'.offset <= Len(file') /\ (writer'.opened => exists')
      /\ writer'.born = Queued(writer, recs).born
      /\ exists' => exists \/ writer'.born
      /\ \A t \in BOOLEAN : Tracks(writer, t) => Tracks(writer', t)
  BY <1>1, EnqueueStep
<1>3. Tracks(writer', told')
  BY <1>1, <1>2
<1>4. Queued(writer, recs).born => minted' > 0
  <2>1. CASE writer.born
    BY <2>1, <1>1
  <2>2. CASE ~writer.born
    BY <2>2, <1>1, QueuedStep
  <2> QED
    BY <2>1, <2>2
<1>5. (writer'.born => minted' > 0) /\ (exists' => minted' > 0)
  BY <1>1, <1>2, <1>4
<1> QED
  BY <1>1, <1>2, <1>3, <1>5 DEF LogInv

-----------------------------------------------------------------------------
(* Batches and the tree                                                    *)

EntryType == [kind : Kinds, calls : 0..MaxCalls]

\* The engine never commits an empty batch.
LEMMA BatchType ==
  ASSUME NEW batch \in Batches
  PROVE  batch \in Seq(EntryType) /\ Len(batch) > 0
<1>1. /\ Entry("user", 0) \in EntryType /\ Entry("final", 0) \in EntryType
      /\ Entry("result", 0) \in EntryType
      /\ \A n \in 1..MaxCalls : Entry("call", n) \in EntryType
  BY BoundsAssumption DEF Entry, EntryType, Kinds
<1>2. CASE batch = <<Entry("user", 0)>> \/ batch = <<Entry("final", 0)>>
  <2>1. PICK e \in EntryType : batch = <<e>>
    BY <1>1, <1>2
  <2> QED
    BY <2>1
<1>3. ASSUME NEW n \in 1..MaxCalls, batch = Roundtrip(n)
      PROVE  batch \in Seq(EntryType) /\ Len(batch) > 0
  <2>1. n \in Nat
    BY BoundsAssumption
  <2>2. [i \in 1..n |-> Entry("result", 0)] \in Seq(EntryType)
    BY <1>1, <2>1, SeqOfFunction
  <2>3. <<Entry("call", n)>> \in Seq(EntryType) /\ Len(<<Entry("call", n)>>) = 1
    BY <1>1
  <2> QED
    BY <1>3, <2>2, <2>3 DEF Roundtrip
<1> QED
  BY <1>2, <1>3, Zenon DEF Batches

\* A batch that fits the bound becomes a chain of new nodes under the head.
LEMMA ChainType ==
  ASSUME NEW batch \in Seq(EntryType), minted \in 0..MaxNodes,
         minted + Len(batch) <= MaxNodes, head \in Ids \cup {Root}
  PROVE  /\ Chain(batch) \in Seq(Node) /\ Len(Chain(batch)) = Len(batch)
         /\ \A i \in 1..Len(batch) : Chain(batch)[i].id = minted + i
<1>1. Len(batch) \in Nat /\ DOMAIN batch = 1..Len(batch)
  OBVIOUS
<1>2. ASSUME NEW i \in 1..Len(batch)
      PROVE  /\ Chain(batch)[i] \in Node
             /\ Chain(batch)[i].id = minted + i
  <2>1. /\ minted + i \in Ids
        /\ (IF i = 1 THEN head ELSE minted + i - 1) \in Ids \cup {Root}
    BY BoundsAssumption DEF Ids
  <2>2. batch[i].kind \in Kinds /\ batch[i].calls \in 0..MaxCalls
    <3>1. batch[i] \in EntryType
      OBVIOUS
    <3> QED
      BY <3>1 DEF EntryType
  <2> QED
    BY <1>1, <2>1, <2>2 DEF Chain, Node
<1>3. Chain(batch) \in [1..Len(batch) -> Node]
  BY <1>1, <1>2 DEF Chain
<1> QED
  BY <1>1, <1>2, <1>3, SeqOfFunction

\* Growing by chained records keeps every node under its own id.
LEMMA GrowType ==
  ASSUME NEW recs \in Seq(Node), TreeInv
  PROVE  /\ DOMAIN Grow(nodes, recs) =
              DOMAIN nodes \cup {recs[i].id : i \in DOMAIN recs}
         /\ DOMAIN Grow(nodes, recs) \subseteq Ids
         /\ \A id \in DOMAIN Grow(nodes, recs) :
              Grow(nodes, recs)[id] \in Node /\ Grow(nodes, recs)[id].id = id
<1> DEFINE found(id) == CHOOSE i \in DOMAIN recs : recs[i].id = id
           new == {recs[i].id : i \in DOMAIN recs}
<1>1. Grow(nodes, recs) =
        [id \in DOMAIN nodes \cup new |->
           IF id \in DOMAIN nodes THEN nodes[id] ELSE recs[found(id)]]
  BY Zenon DEF Grow
<1>2. \A i \in DOMAIN recs : recs[i] \in Node /\ recs[i].id \in Ids
  <2>1. \A i \in DOMAIN recs : recs[i] \in Node
    OBVIOUS
  <2> QED
    BY <2>1 DEF Node
<1>3. ASSUME NEW id \in new
      PROVE  found(id) \in DOMAIN recs /\ recs[found(id)].id = id
  <2>1. \E i \in DOMAIN recs : recs[i].id = id
    OBVIOUS
  <2> QED
    BY <2>1, Zenon
<1>4. /\ DOMAIN nodes \subseteq Ids
      /\ \A id \in DOMAIN nodes : nodes[id] \in Node /\ nodes[id].id = id
  BY DEF TreeInv
<1> HIDE DEF found
<1> QED
  BY <1>1, <1>2, <1>3, <1>4

-----------------------------------------------------------------------------
(* The invariant is inductive                                              *)

\* A new session satisfies the invariant.
LEMMA InvInit == Init => Inv
<1> SUFFICES ASSUME Init PROVE Inv
  OBVIOUS
<1>1. register = NoModel \/ register \in Models
  BY DEF Init
<1>2. PICK lines \in Seq(Record) : writer = FreshWriter(lines)
  <2>1. <<Header>> \in Seq(Record)
    BY RecordTypes
  <2>2. register \in Models => <<Header, ModelChange(register)>> \in Seq(Record)
    BY RecordTypes
  <2> QED
    BY <1>1, <2>1, <2>2 DEF Init
<1>3. /\ writer \in Writer /\ writer.offset = 0 /\ ~writer.born /\ ~writer.opened
      /\ Tracks(writer, FALSE)
  BY <1>2, FreshWriterType
<1>4. TreeInv
  BY DEF Init, TreeInv, NoNodes
<1>5. /\ phase = "live" /\ file \in Seq(Token) /\ Len(file) = 0
      /\ exists = FALSE /\ told = FALSE /\ minted \in 0..MaxNodes
  BY BoundsAssumption DEF Init
<1>6. Tracks(writer, told) /\ writer.offset <= Len(file)
  <2>1. Tracks(writer, told)
    BY <1>3, <1>5, Zenon
  <2> QED
    BY <1>3, <1>5, <2>1
<1>7. LogInv
  BY <1>3, <1>5, <1>6 DEF LogInv
<1> QED
  BY <1>4, <1>7 DEF Inv

\* The ids a commit mints are new, and its enqueue keeps the log.
LEMMA CommitPreserves ==
  ASSUME Inv, NEW batch \in Batches, Commit(batch)
  PROVE  Inv'
<1> DEFINE recs == Chain(batch)
<1>1. batch \in Seq(EntryType) /\ Len(batch) > 0
  BY BatchType
<1>2. /\ minted \in 0..MaxNodes /\ minted + Len(batch) <= MaxNodes
      /\ minted' = minted + Len(batch) /\ head \in Ids \cup {Root}
      /\ minted' \in 0..MaxNodes /\ minted <= minted' /\ minted' > 0
  BY <1>1 DEF Commit, Inv, LogInv, TreeInv
<1>3. /\ recs \in Seq(Node) /\ Len(recs) = Len(batch)
      /\ \A i \in 1..Len(batch) : recs[i].id = minted + i
  BY <1>1, <1>2, ChainType
<1>4. /\ Enqueue(writer, recs) /\ phase = "live"
      /\ UNCHANGED <<phase, register, told>>
      /\ nodes' = Grow(nodes, recs) /\ head' = minted + Len(batch)
  BY Zenon DEF Commit
<1> HIDE DEF recs
<1>5. recs \in Seq(Record)
  BY <1>3 DEF Record
<1>6. LogInv'
  BY <1>2, <1>4, <1>5, EnqueuePreserves
<1>7. TreeInv'
  <2>1. /\ DOMAIN nodes' \subseteq Ids
        /\ \A id \in DOMAIN nodes' : nodes'[id] \in Node /\ nodes'[id].id = id
        /\ DOMAIN nodes' = DOMAIN nodes \cup {recs[i].id : i \in DOMAIN recs}
    BY <1>3, <1>4, GrowType DEF Inv
  <2>2. Len(batch) \in DOMAIN recs /\ recs[Len(batch)].id = head'
    BY <1>1, <1>3, <1>4
  <2>3. head' \in DOMAIN nodes'
    BY <2>1, <2>2
  <2> QED
    BY <2>1, <2>3, <1>4 DEF Inv, TreeInv
<1> QED
  BY <1>6, <1>7 DEF Inv

\* A checkout lands on its target or on a node ahead of it.
LEMMA CheckoutPreserves ==
  ASSUME Inv, NEW target \in Targets, Checkout(target)
  PROVE  Inv'
<1>1. target \in DOMAIN nodes \cup {Root}
  BY DEF Targets
<1>2. /\ phase = "live" /\ Enqueue(writer, <<CheckoutRecord(target)>>)
      /\ head' \in {target} \cup DOMAIN nodes
      /\ UNCHANGED <<phase, nodes, register, told, minted>>
  BY DEF Checkout, Landing, ClosedAhead, ForwardFrom
<1>3. CheckoutRecord(target) \in Record /\ ~IsUserMessage(CheckoutRecord(target))
  BY <1>1, RecordTypes DEF Inv, TreeInv, CheckoutRecord, IsUserMessage
<1> DEFINE recs == <<CheckoutRecord(target)>>
<1>4. recs \in Seq(Record) /\ \A i \in DOMAIN recs : ~IsUserMessage(recs[i])
  BY <1>3
<1>5. minted' \in 0..MaxNodes /\ minted <= minted'
  BY <1>2 DEF Inv, LogInv
<1>6. Enqueue(writer, recs)
  BY <1>2
<1> HIDE DEF recs
<1>7. LogInv'
  BY <1>2, <1>4, <1>5, <1>6, EnqueuePreserves
<1>8. TreeInv'
  BY <1>1, <1>2 DEF Inv, TreeInv
<1> QED
  BY <1>7, <1>8 DEF Inv

\* A selection changes the register and the log.
LEMMA SelectModelPreserves ==
  ASSUME Inv, NEW m \in Models, SelectModel(m)
  PROVE  Inv'
<1>2. /\ phase = "live" /\ Enqueue(writer, <<ModelChange(m)>>)
      /\ register' = m
      /\ UNCHANGED <<phase, nodes, head, told, minted>>
  BY DEF SelectModel
<1>3. ModelChange(m) \in Record /\ ~IsUserMessage(ModelChange(m))
  BY RecordTypes DEF ModelChange, IsUserMessage
<1> DEFINE recs == <<ModelChange(m)>>
<1>4. recs \in Seq(Record) /\ \A i \in DOMAIN recs : ~IsUserMessage(recs[i])
  BY <1>3
<1>5. minted' \in 0..MaxNodes /\ minted <= minted'
  BY <1>2 DEF Inv, LogInv
<1>6. Enqueue(writer, recs)
  BY <1>2
<1> HIDE DEF recs
<1>7. LogInv'
  BY <1>2, <1>4, <1>5, <1>6, EnqueuePreserves
<1>8. TreeInv'
  BY <1>2 DEF Inv, TreeInv
<1> QED
  BY <1>7, <1>8 DEF Inv

\* A flush is an enqueue of nothing.
LEMMA FlushPreserves ==
  ASSUME Inv, Flush
  PROVE  Inv'
<1>1. /\ phase = "live" /\ Enqueue(writer, <<>>)
      /\ UNCHANGED <<phase, nodes, head, register, told, minted>>
  BY DEF Flush
<1>2. <<>> \in Seq(Record) /\ \A i \in DOMAIN <<>> : ~IsUserMessage(<<>>[i])
  OBVIOUS
<1>3. minted' \in 0..MaxNodes /\ minted <= minted'
  BY <1>1 DEF Inv, LogInv
<1>4. LogInv'
  BY <1>1, <1>2, <1>3, EnqueuePreserves
<1>5. TreeInv'
  BY <1>1 DEF Inv, TreeInv
<1> QED
  BY <1>4, <1>5 DEF Inv

\* The notice brings the frontend's view and the flag together.
LEMMA TellTransitionPreserves ==
  ASSUME Inv, TellTransition
  PROVE  Inv'
<1>1. /\ writer' \in Writer /\ told' \in BOOLEAN /\ Tracks(writer', told')
      /\ writer'.offset = writer.offset /\ writer'.born = writer.born
      /\ writer'.opened = writer.opened
  BY DEF TellTransition, Inv, LogInv, Writer, Tracks
<1>2. LogInv'
  BY <1>1 DEF TellTransition, Inv, LogInv
<1>3. TreeInv'
  BY DEF TellTransition, Inv, TreeInv
<1> QED
  BY <1>2, <1>3 DEF Inv

\* The process is gone and its writer with it; the file is some text.
LEMMA GonePreserves ==
  ASSUME Inv, Gone, phase' = "closed", file' \in Seq(Token),
         exists' \in BOOLEAN, exists' => minted' > 0, minted' \in 0..MaxNodes
  PROVE  Inv'
<1>1. <<>> \in Seq(Record)
  OBVIOUS
<1>2. /\ writer' = FreshWriter(<<>>) /\ told' = FALSE
      /\ writer' \in Writer /\ writer'.offset = 0
      /\ ~writer'.born /\ ~writer'.opened /\ Tracks(writer', told')
  BY <1>1, FreshWriterType DEF Gone
<1>3. writer'.offset <= Len(file')
  BY <1>2
<1>4. LogInv'
  BY <1>2, <1>3 DEF LogInv
<1>5. TreeInv'
  BY DEF Gone, TreeInv, NoNodes
<1> QED
  BY <1>4, <1>5 DEF Inv

\* The last write of a closing session leaves a file that can be typed.
LEMMA ClosePreserves ==
  ASSUME Inv, Close
  PROVE  Inv'
<1>1. writer \in Writer /\ file \in Seq(Token) /\ writer.offset <= Len(file)
  BY DEF Inv, LogInv
<1>2. writer.outbox \in Seq(Record)
  BY <1>1 DEF Writer
<1>3. /\ Gone /\ phase' = "closed" /\ UNCHANGED <<exists, minted>>
      /\ \/ file' = file \o (IF writer.opened THEN Blob(writer.outbox) ELSE <<>>)
         \/ file' \in AfterFailedWrite(writer)
  BY Zenon DEF Close
<1>4. file' \in Seq(Token)
  <2>1. file \o Blob(writer.outbox) \in Seq(Token) /\ file \o <<>> \in Seq(Token)
    BY <1>1, <1>2, BlobType
  <2>2. CASE file' \in AfterFailedWrite(writer)
    BY <1>1, <2>2, FailedWriteStep
  <2> QED
    BY <1>3, <2>1, <2>2
<1>5. exists' \in BOOLEAN /\ (exists' => minted' > 0) /\ minted' \in 0..MaxNodes
  BY <1>3 DEF Inv, LogInv
<1> QED
  BY <1>3, <1>4, <1>5, GonePreserves

\* What a crash may catch in flight are records of the session.
LEMMA InFlightType ==
  ASSUME Inv, NEW recs \in InFlight
  PROVE  /\ recs \in Seq(Record)
         /\ \A i \in DOMAIN recs :
              recs[i].t = "node" => recs[i].id \in 1..MaxNodes
<1>1. CASE recs = <<>>
  BY <1>1
<1>2. ASSUME NEW batch \in Batches, minted + Len(batch) <= MaxNodes,
             recs = Chain(batch)
      PROVE  /\ recs \in Seq(Record)
             /\ \A i \in DOMAIN recs :
                  recs[i].t = "node" => recs[i].id \in 1..MaxNodes
  <2>1. /\ minted \in 0..MaxNodes /\ head \in Ids \cup {Root}
        /\ batch \in Seq(EntryType)
    BY BatchType DEF Inv, LogInv, TreeInv
  <2>2. recs \in Seq(Node)
    BY <1>2, <2>1, ChainType
  <2>3. \A i \in DOMAIN recs : recs[i] \in Node
    BY <2>2
  <2> QED
    BY <2>2, <2>3 DEF Record, Node, Ids
<1>3. ASSUME NEW to \in Targets, recs = <<CheckoutRecord(to)>>
      PROVE  /\ recs \in Seq(Record)
             /\ \A i \in DOMAIN recs :
                  recs[i].t = "node" => recs[i].id \in 1..MaxNodes
  <2>1. CheckoutRecord(to) \in Record /\ CheckoutRecord(to).t # "node"
    BY RecordTypes DEF Targets, Inv, TreeInv, CheckoutRecord
  <2> QED
    BY <1>3, <2>1
<1>4. ASSUME NEW m \in Models, recs = <<ModelChange(m)>>
      PROVE  /\ recs \in Seq(Record)
             /\ \A i \in DOMAIN recs :
                  recs[i].t = "node" => recs[i].id \in 1..MaxNodes
  <2>1. ModelChange(m) \in Record /\ ModelChange(m).t # "node"
    BY RecordTypes DEF ModelChange
  <2> QED
    BY <1>4, <2>1
<1> QED
  BY <1>1, <1>2, <1>3, <1>4, Zenon DEF InFlight

\* A crash leaves text behind, a birth before any file, and no writer.
LEMMA CrashPreserves ==
  ASSUME Inv, Crash
  PROVE  Inv'
<1>1. PICK recs \in InFlight :
        /\ ~NothingToWrite(Queued(writer, recs))
        /\ \E part \in Partial(Queued(writer, recs).outbox, CrashCuts) :
             file' = file \o part
        /\ minted' = Max({minted} \cup {recs[i].id : i \in
                            {j \in DOMAIN recs : recs[j].t = "node"}})
  BY Zenon DEF Crash
<1>2. /\ Gone /\ phase = "live" /\ phase' = "closed" /\ exists' = TRUE
  BY DEF Crash
<1>3. /\ recs \in Seq(Record)
      /\ \A i \in DOMAIN recs : recs[i].t = "node" => recs[i].id \in 1..MaxNodes
  BY InFlightType
<1>4. /\ writer \in Writer /\ file \in Seq(Token) /\ minted \in 0..MaxNodes
      /\ (writer.born => minted > 0) /\ (writer.opened => exists)
      /\ (exists => minted > 0)
  BY DEF Inv, LogInv
<1> DEFINE w == Queued(writer, recs)
<1>5. /\ w \in Writer /\ w.opened = writer.opened
      /\ w.born = (writer.born \/ \E i \in DOMAIN recs : IsUserMessage(recs[i]))
  BY <1>3, <1>4, QueuedStep
<1>6. file' \in Seq(Token)
  <2>1. w.outbox \in Seq(Record)
    BY <1>5 DEF Writer
  <2>2. PICK part \in Partial(w.outbox, CrashCuts) : file' = file \o part
    BY <1>1
  <2>3. part \in Seq(Token)
    BY <2>1, PartialType
  <2> QED
    BY <1>4, <2>2, <2>3
<1> DEFINE ids == {recs[i].id : i \in {j \in DOMAIN recs : recs[j].t = "node"}}
           all == {minted} \cup ids
<1>7. ids \subseteq 1..MaxNodes
  BY <1>3
<1>8. minted' = Max(all)
  BY <1>1
<1>9. (\E i \in DOMAIN recs : IsUserMessage(recs[i])) => ids # {}
  BY DEF IsUserMessage
<1> HIDE DEF ids
<1>10. all \in SUBSET (0..MaxNodes) /\ all # {} /\ MaxNodes \in Nat
  BY <1>4, <1>7, BoundsAssumption
<1>11. Max(all) \in all /\ \A y \in all : y <= Max(all)
  <2> HIDE DEF all
  <2> QED
    BY <1>10, MaxProperties, Zenon
<1>12. minted' \in 0..MaxNodes /\ minted <= minted'
  BY <1>8, <1>10, <1>11
<1>13. ids # {} => minted' > 0
  BY <1>7, <1>8, <1>10, <1>11
<1>14. minted' > 0
  <2>1. w.born \/ w.opened
    BY <1>1 DEF NothingToWrite
  <2>2. CASE writer.born \/ w.opened
    BY <1>4, <1>5, <1>12, <2>2
  <2>3. CASE \E i \in DOMAIN recs : IsUserMessage(recs[i])
    BY <1>9, <1>13, <2>3
  <2> HIDE DEF w
  <2> QED
    BY <1>5, <2>1, <2>2, <2>3, Zenon
<1> QED
  BY <1>2, <1>6, <1>12, <1>14, GonePreserves

\* An accepted file yields a tree, a head and a register of the right type.
LEMMA OpenPreserves ==
  ASSUME Inv, Open
  PROVE  Inv'
<1> DEFINE recs == Lines(file)
           w0 == AppendWriter(Len(file))
<1>1. /\ writer \in Writer /\ file \in Seq(Token) /\ exists = TRUE /\ minted > 0
      /\ told = FALSE /\ minted \in 0..MaxNodes
  BY DEF Open, Inv, LogInv
<1>2. recs \in Seq(Record) /\ WellLinked(recs)
  BY <1>1, LinesType DEF Open, Parses
<1>3. /\ phase' = "live" /\ UNCHANGED <<told, minted>>
      /\ nodes' = NodesOf(recs) /\ head' = HeadOf(recs)
  BY DEF Open
<1>4. PICK m \in Models \cup {RegisterOf(recs)} :
        /\ register' = m
        /\ Enqueue(w0, IF m = RegisterOf(recs) THEN <<>> ELSE <<ModelChange(m)>>)
  BY Zenon DEF Open
<1>5. PICK added \in Seq(Record) : Enqueue(w0, added)
  <2>1. CASE m = RegisterOf(recs)
    <3>1. <<>> \in Seq(Record)
      OBVIOUS
    <3> QED
      BY <1>4, <2>1, <3>1, Zenon
  <2>2. CASE m # RegisterOf(recs)
    <3>1. m \in Models
      BY <2>2
    <3>2. <<ModelChange(m)>> \in Seq(Record)
      BY <3>1, RecordTypes
    <3> QED
      BY <1>4, <2>2, <3>2, Zenon
  <2> QED
    BY <2>1, <2>2
<1>6. /\ w0 \in Writer /\ w0.offset = Len(file) /\ w0.opened = TRUE
      /\ Tracks(w0, FALSE)
  <2>1. Len(file) \in Nat
    BY <1>1
  <2> QED
    BY <2>1, AppendWriterType
<1> HIDE DEF w0, recs
<1>7. /\ writer' \in Writer /\ file' \in Seq(Token) /\ exists' \in BOOLEAN
      /\ writer'.offset <= Len(file') /\ (writer'.opened => exists')
      /\ \A t \in BOOLEAN : Tracks(w0, t) => Tracks(writer', t)
  <2>1. w0.offset <= Len(file)
    BY <1>1, <1>6
  <2> QED
    BY <1>1, <1>5, <1>6, <2>1, EnqueueStep
<1>8. LogInv'
  BY <1>1, <1>3, <1>6, <1>7 DEF LogInv
<1>9. register' \in Models \cup {NoModel}
  BY <1>2, <1>4, RegisterOfType
<1>10. TreeInv'
  BY <1>2, <1>3, <1>9, NodesOfType, HeadOfType DEF TreeInv
<1> QED
  BY <1>8, <1>10 DEF Inv

\* The invariant reads no variable that a stuttering step changes.
LEMMA StutterPreserves ==
  ASSUME Inv, UNCHANGED vars
  PROVE  Inv'
<1>1. TreeInv'
  BY DEF Inv, TreeInv, vars
<1>2. LogInv'
  BY DEF Inv, LogInv, vars
<1> QED
  BY <1>1, <1>2 DEF Inv

\* Every step keeps the invariant.
LEMMA InvNext ==
  ASSUME Inv, [Next]_vars
  PROVE  Inv'
<1>1. ASSUME NEW batch \in Batches, Commit(batch) PROVE Inv'
  BY <1>1, CommitPreserves
<1>2. ASSUME NEW target \in Targets, Checkout(target) PROVE Inv'
  BY <1>2, CheckoutPreserves
<1>3. ASSUME NEW m \in Models, SelectModel(m) PROVE Inv'
  BY <1>3, SelectModelPreserves
<1>4. CASE Flush
  BY <1>4, FlushPreserves
<1>5. CASE TellTransition
  BY <1>5, TellTransitionPreserves
<1>6. CASE Close
  BY <1>6, ClosePreserves
<1>7. CASE Crash
  BY <1>7, CrashPreserves
<1>8. CASE Open
  BY <1>8, OpenPreserves
<1>9. CASE Refuse
  <2>1. TreeInv'
    BY <1>9 DEF Refuse, Inv, TreeInv
  <2>2. LogInv'
    BY <1>9 DEF Refuse, Inv, LogInv
  <2> QED
    BY <2>1, <2>2 DEF Inv
<1>10. CASE Over
  BY <1>10, StutterPreserves DEF Over
<1>11. CASE UNCHANGED vars
  BY <1>11, StutterPreserves
<1> QED
  BY <1>1, <1>2, <1>3, <1>4, <1>5, <1>6, <1>7, <1>8, <1>9, <1>10, <1>11, Zenon
     DEF Next

-----------------------------------------------------------------------------
(* The theorems                                                            *)

\* The invariant holds of every behaviour.
LEMMA Invariance == Spec => []Inv
<1>1. Init => Inv
  BY InvInit
<1>2. Inv /\ [Next]_vars => Inv'
  BY InvNext
<1> QED
  BY <1>1, <1>2, PTL DEF Spec

\* Every variable keeps its type: in particular what a reopened file parses
\* to is a tree over known ids whose head and register are in range.
THEOREM TypeCorrect == Spec => []TypeOK
<1>1. Inv => TypeOK
  BY InvImplies
<1> QED
  BY <1>1, Invariance, PTL

\* A session file exists only once a message was accepted, whatever writes
\* failed and wherever a process died.
THEOREM NoOrphanEver == Spec => []NoOrphan
<1>1. Inv => NoOrphan
  BY InvImplies
<1> QED
  BY <1>1, Invariance, PTL

\* The frontend's last notice is right up to the one flip still pending.
THEOREM NoticesTrue == Spec => []NoticeTracksDegraded
<1>1. Inv => NoticeTracksDegraded
  BY InvImplies
<1> QED
  BY <1>1, Invariance, PTL

\* No step, a failed write or a death included, disturbs the bytes the
\* writer counts as durable.
THEOREM DurableForever == Spec => DurableNeverLost
<1> DEFINE kept == SubSeq(file, 1, writer.offset)
<1>1. ASSUME Inv, [Next]_vars
      PROVE  [IsPrefix(kept, file')]_vars
  <2> SUFFICES ASSUME Next PROVE IsPrefix(kept, file')
    BY <1>1
  <2>1. /\ writer \in Writer /\ file \in Seq(Token) /\ exists \in BOOLEAN
        /\ writer.offset <= Len(file) /\ (writer.opened => exists)
    BY <1>1 DEF Inv, LogInv
  <2>2. writer.offset \in 0..Len(file) /\ writer.outbox \in Seq(Record)
    BY <2>1 DEF Writer
  <2>3. IsPrefix(kept, file)
    BY <2>1, <2>2 DEF IsPrefix
  <2>4. ASSUME NEW more \in Seq(Token), file' = file \o more
        PROVE  IsPrefix(kept, file')
    BY <2>1, <2>2, <2>4 DEF IsPrefix
  <2>5. ASSUME NEW recs \in Seq(Record), Enqueue(writer, recs)
        PROVE  IsPrefix(kept, file')
    BY <2>1, <2>5, EnqueueStep
  <2>6. ASSUME NEW batch \in Batches, Commit(batch)
        PROVE  IsPrefix(kept, file')
    <3>1. Chain(batch) \in Seq(Record)
      <4>1. /\ minted \in 0..MaxNodes /\ minted + Len(batch) <= MaxNodes
            /\ head \in Ids \cup {Root} /\ batch \in Seq(EntryType)
        BY <1>1, <2>6, BatchType DEF Commit, Inv, LogInv, TreeInv
      <4> QED
        BY <4>1, ChainType DEF Record
    <3> QED
      BY <2>5, <2>6, <3>1 DEF Commit
  <2>7. ASSUME NEW target \in Targets, Checkout(target)
        PROVE  IsPrefix(kept, file')
    <3>1. <<CheckoutRecord(target)>> \in Seq(Record)
      BY <1>1, RecordTypes DEF Targets, Inv, TreeInv
    <3> QED
      BY <2>5, <2>7, <3>1 DEF Checkout
  <2>8. ASSUME NEW m \in Models, SelectModel(m)
        PROVE  IsPrefix(kept, file')
    <3>1. <<ModelChange(m)>> \in Seq(Record)
      BY RecordTypes
    <3> QED
      BY <2>5, <2>8, <3>1 DEF SelectModel
  <2>9. CASE Flush
    <3>1. <<>> \in Seq(Record)
      OBVIOUS
    <3> QED
      BY <2>5, <2>9, <3>1 DEF Flush
  <2>10. CASE Close
    <3>1. CASE file' \in AfterFailedWrite(writer)
      BY <2>1, <3>1, FailedWriteStep
    <3>2. Blob(writer.outbox) \in Seq(Token) /\ <<>> \in Seq(Token)
      BY <2>2, BlobType
    <3>3. CASE file' = file \o (IF writer.opened THEN Blob(writer.outbox) ELSE <<>>)
      BY <2>4, <3>2, <3>3
    <3> QED
      BY <2>10, <3>1, <3>3, Zenon DEF Close
  <2>11. CASE Crash
    <3>1. PICK recs \in InFlight :
            \E part \in Partial(Queued(writer, recs).outbox, CrashCuts) :
              file' = file \o part
      BY <2>11, Zenon DEF Crash
    <3>2. Queued(writer, recs).outbox \in Seq(Record)
      BY <1>1, <2>1, InFlightType, QueuedStep DEF Writer
    <3>3. PICK part \in Partial(Queued(writer, recs).outbox, CrashCuts) :
            file' = file \o part
      BY <3>1
    <3> QED
      BY <2>4, <3>2, <3>3, PartialType
  <2>12. CASE Open
    <3>1. phase # "live" /\ writer = FreshWriter(<<>>)
      BY <1>1, <2>12 DEF Open, Inv, LogInv
    <3>2. kept = <<>>
      BY <2>1, <3>1 DEF FreshWriter
    <3>3. file' \in Seq(Token)
      BY <1>1, InvNext DEF Inv, LogInv
    <3>4. SubSeq(file', 1, 0) = <<>> /\ Len(<<>>) = 0 /\ SubSeq(<<>>, 1, 0) = <<>>
      BY <3>3
    <3>5. IsPrefix(<<>>, file')
      BY <3>3, <3>4 DEF IsPrefix
    <3> QED
      BY <3>2, <3>5, Zenon
  <2>13. CASE TellTransition \/ Refuse \/ Over
    BY <2>3, <2>13 DEF TellTransition, Refuse, Over, vars
  <2> QED
    BY <2>6, <2>7, <2>8, <2>9, <2>10, <2>11, <2>12, <2>13, Zenon DEF Next
<1>2. Inv /\ [Next]_vars => [IsPrefix(kept, file')]_vars
  BY <1>1
<1> QED
  BY <1>2, Invariance, PTL DEF Spec, DurableNeverLost

-----------------------------------------------------------------------------
(* Sequences, cut and joined                                               *)

\* Two sequences of the same length with the same elements are the same.
LEMMA SameSeq ==
  ASSUME NEW S, NEW a \in Seq(S), NEW b \in Seq(S), Len(a) = Len(b),
         \A i \in 1..Len(a) : a[i] = b[i]
  PROVE  a = b
  OBVIOUS

\* Where the elements of a concatenation come from.
LEMMA JoinedSeq ==
  ASSUME NEW S, NEW a \in Seq(S), NEW b \in Seq(S), NEW both, both = a \o b
  PROVE  /\ both \in Seq(S) /\ Len(both) = Len(a) + Len(b)
         /\ \A i \in 1..Len(a) : both[i] = a[i]
         /\ \A i \in 1..Len(b) : both[Len(a) + i] = b[i]
  OBVIOUS

\* A sequence with the elements of one and then of another is the two joined.
LEMMA RejoinedSeq ==
  ASSUME NEW a \in Seq(Record), NEW x \in Seq(Record), NEW y \in Seq(Record),
         Len(a) = Len(x) + Len(y),
         \A i \in 1..Len(x) : a[i] = x[i],
         \A i \in 1..Len(y) : a[Len(x) + i] = y[i]
  PROVE  a = x \o y
<1>1. PICK both : both = x \o y
  OBVIOUS
<1>2. /\ both \in Seq(Record) /\ Len(both) = Len(x) + Len(y)
      /\ \A i \in 1..Len(x) : both[i] = x[i]
      /\ \A i \in 1..Len(y) : both[Len(x) + i] = y[i]
  BY <1>1
<1>3. ASSUME NEW i \in 1..Len(a) PROVE a[i] = both[i]
  <2>1. CASE i <= Len(x)
    BY <1>2, <2>1
  <2>2. CASE i > Len(x)
    <3>1. PICK j \in 1..Len(y) : i = Len(x) + j
      <4>1. i - Len(x) \in 1..Len(y) /\ i = Len(x) + (i - Len(x))
        BY <2>2
      <4> QED
        BY <4>1
    <3> QED
      BY <1>2, <3>1
  <2> QED
    BY <2>1, <2>2
<1>4. a = both
  BY <1>2, <1>3
<1> QED
  BY <1>1, <1>4

\* A first part of the second sequence behind the first is a first part of
\* the two joined.
LEMMA JoinedCut ==
  ASSUME NEW a \in Seq(Record), NEW b \in Seq(Record), NEW n \in 0..Len(b)
  PROVE  a \o SubSeq(b, 1, n) = SubSeq(a \o b, 1, Len(a) + n)
  OBVIOUS

\* A torn line at the end of what is added ends up at the end of it all.
LEMMA JoinTorn ==
  ASSUME NEW a \in Seq(Token), NEW b \in Seq(Token)
  PROVE  a \o Append(b, Torn) = Append(a \o b, Torn)
<1>1. Torn \in Token
  BY DEF Token
<1> QED
  BY <1>1

\* Joining is associative.
LEMMA JoinTwice ==
  ASSUME NEW a \in Seq(Record), NEW b \in Seq(Record), NEW c \in Seq(Record)
  PROVE  a \o (b \o c) \in Seq(Record) /\ a \o (b \o c) = (a \o b) \o c
  OBVIOUS

\* A sequence is what comes up to a place and what comes after it.
LEMMA SplitSeq ==
  ASSUME NEW a \in Seq(Record), NEW k \in 0..Len(a)
  PROVE  \E x, y \in Seq(Record) : x = SubSeq(a, 1, k) /\ Len(x) = k /\ a = x \o y
<1>1. /\ SubSeq(a, 1, k) \in Seq(Record) /\ Len(SubSeq(a, 1, k)) = k
      /\ SubSeq(a, k + 1, Len(a)) \in Seq(Record)
      /\ Len(SubSeq(a, k + 1, Len(a))) = Len(a) - k
      /\ \A i \in 1..k : SubSeq(a, 1, k)[i] = a[i]
      /\ \A i \in 1..(Len(a) - k) : SubSeq(a, k + 1, Len(a))[i] = a[k + i]
  OBVIOUS
<1>2. ASSUME NEW x, NEW y, x = SubSeq(a, 1, k), y = SubSeq(a, k + 1, Len(a))
      PROVE  /\ x \in Seq(Record) /\ Len(x) = k /\ y \in Seq(Record) /\ Len(y) = Len(a) - k
             /\ \A i \in 1..k : x[i] = a[i]
             /\ \A i \in 1..(Len(a) - k) : y[i] = a[k + i]
  BY <1>1, <1>2, Zenon
<1>3. PICK x, y : x = SubSeq(a, 1, k) /\ y = SubSeq(a, k + 1, Len(a))
  OBVIOUS
<1>4. /\ x \in Seq(Record) /\ Len(x) = k /\ y \in Seq(Record) /\ Len(y) = Len(a) - k
      /\ \A i \in 1..k : x[i] = a[i]
      /\ \A i \in 1..(Len(a) - k) : y[i] = a[k + i]
  BY <1>2, <1>3, Zenon
<1>5. /\ Len(a) = Len(x) + Len(y)
      /\ \A i \in 1..Len(x) : a[i] = x[i]
      /\ \A i \in 1..Len(y) : a[Len(x) + i] = y[i]
  BY <1>4
<1>6. a = x \o y
  BY <1>4, <1>5, RejoinedSeq
<1> QED
  BY <1>3, <1>4, <1>6, Zenon

-----------------------------------------------------------------------------
(* Lines and blobs                                                         *)

\* No record is a newline or a torn line.
LEMMA RecordTags ==
  ASSUME NEW rec \in Record
  PROVE  rec # NL /\ rec # Torn
<1>1. rec.t \in {"node", "header", "checkout", "model"}
  BY DEF Record, Node, Header, CheckoutRecord, ModelChange
<1> QED
  BY <1>1 DEF NL, Torn

\* Token by token: the lines at the odd places, newlines at the even ones.
LEMMA BlobTokens ==
  ASSUME NEW recs \in Seq(Record)
  PROVE  /\ \A i \in 1..Len(recs) : Blob(recs)[2 * i - 1] = recs[i]
         /\ \A i \in 1..Len(recs) : Blob(recs)[2 * i] = NL
         /\ \A j \in 1..(2 * Len(recs)) :
              \E i \in 1..Len(recs) : j = 2 * i - 1 \/ j = 2 * i
<1>1. \A i \in 1..Len(recs) :
        /\ 2 * i - 1 \in 1..(2 * Len(recs)) /\ (2 * i - 1) % 2 = 1
        /\ (2 * i - 1 + 1) \div 2 = i
        /\ 2 * i \in 1..(2 * Len(recs)) /\ (2 * i) % 2 = 0
  OBVIOUS
<1>2. ASSUME NEW j \in 1..(2 * Len(recs))
      PROVE  \E i \in 1..Len(recs) : j = 2 * i - 1 \/ j = 2 * i
  <2> DEFINE i == (j + 1) \div 2
  <2>1. i \in 1..Len(recs) /\ (j = 2 * i - 1 \/ j = 2 * i)
    OBVIOUS
  <2> QED
    BY <2>1
<1> QED
  BY <1>1, <1>2 DEF Blob

\* A blob reads back as the records it was made of.
LEMMA BlobLines ==
  ASSUME NEW recs \in Seq(Record)
  PROVE  WholeLines(Blob(recs)) /\ Lines(Blob(recs)) = recs
<1> DEFINE text == Blob(recs)
<1>1. text \in Seq(Token) /\ Len(text) = 2 * Len(recs)
  BY BlobType
<1>2. /\ \A i \in 1..Len(recs) : text[2 * i - 1] = recs[i] /\ text[2 * i] = NL
      /\ \A j \in 1..(2 * Len(recs)) :
           \E i \in 1..Len(recs) : j = 2 * i - 1 \/ j = 2 * i
  BY BlobTokens
<1> HIDE DEF text
<1>3. \A i \in 1..Len(recs) : (2 * i) % 2 = 0 /\ (2 * i - 1) % 2 # 0
  OBVIOUS
<1>4. WholeLines(text)
  <2>1. \A i \in 1..Len(recs) : recs[i] # NL /\ recs[i] # Torn
    BY RecordTags
  <2>2. NL # Torn
    BY DEF NL, Torn
  <2>3. SUFFICES ASSUME NEW j \in 1..Len(text)
                 PROVE  text[j] # Torn /\ (text[j] = NL <=> j % 2 = 0)
    BY DEF WholeLines
  <2>4. PICK i \in 1..Len(recs) : j = 2 * i - 1 \/ j = 2 * i
    BY <1>1, <1>2
  <2> QED
    BY <1>2, <1>3, <2>1, <2>2, <2>4
<1>5. (Len(text) + 1) \div 2 = Len(recs)
  BY <1>1
<1>6. Lines(text) = [i \in 1..Len(recs) |-> recs[i]]
  BY <1>2, <1>5 DEF Lines
<1> QED
  BY <1>4, <1>6 DEF text

\* The records of a text are the whole lines it starts with, with or without
\* a torn one behind them.
LEMMA CompleteLines ==
  ASSUME NEW recs \in Seq(Record)
  PROVE  /\ Complete(Blob(recs)) = recs
         /\ Complete(Append(Blob(recs), Torn)) = recs
<1> DEFINE text == Blob(recs)
<1>1. text \in Seq(Token) /\ WholeLines(text) /\ Lines(text) = recs
  BY BlobType, BlobLines
<1> HIDE DEF text
<1>2. Complete(text) = recs
  <2>1. text # <<>> => Last(text) # Torn
    BY <1>1 DEF WholeLines, Last
  <2> QED
    BY <1>1, <2>1 DEF Complete
<1>3. Complete(Append(text, Torn)) = recs
  <2> DEFINE longer == Append(text, Torn)
  <2>1. longer # <<>> /\ Last(longer) = Torn
    BY <1>1 DEF Last
  <2>2. Front(longer) = text
    BY <1>1 DEF Front
  <2> HIDE DEF longer
  <2>3. Complete(longer) = Lines(text)
    BY <2>1, <2>2 DEF Complete
  <2> QED
    BY <1>1, <2>3 DEF longer
<1> QED
  BY <1>2, <1>3 DEF text

\* Writing two batches one behind the other is writing them at once.
LEMMA BlobConcat ==
  ASSUME NEW a \in Seq(Record), NEW b \in Seq(Record)
  PROVE  Blob(a) \o Blob(b) = Blob(a \o b)
<1>1. PICK first \in Seq(Token) : first = Blob(a) /\ Len(first) = 2 * Len(a)
  BY BlobType
<1>2. PICK second \in Seq(Token) : second = Blob(b) /\ Len(second) = 2 * Len(b)
  BY BlobType
<1>3. PICK both : both = a \o b
  OBVIOUS
<1>9. /\ both \in Seq(Record) /\ Len(both) = Len(a) + Len(b)
      /\ \A i \in 1..Len(a) : both[i] = a[i]
      /\ \A i \in 1..Len(b) : both[Len(a) + i] = b[i]
  BY <1>3, JoinedSeq
<1>4. PICK right \in Seq(Token) : right = Blob(both) /\ Len(right) = 2 * Len(both)
  BY <1>9, BlobType
<1>5. PICK left : left = first \o second
  OBVIOUS
<1>10. /\ left \in Seq(Token) /\ Len(left) = Len(first) + Len(second)
       /\ \A j \in 1..Len(first) : left[j] = first[j]
       /\ \A j \in 1..Len(second) : left[Len(first) + j] = second[j]
  BY <1>5, JoinedSeq
<1>6. Len(a) \in Nat /\ Len(b) \in Nat
  OBVIOUS
<1>7. ASSUME NEW i \in 1..Len(both)
      PROVE  left[2 * i - 1] = both[i] /\ left[2 * i] = NL
  <2>1. CASE i <= Len(a)
    <3>1. i \in 1..Len(a) /\ both[i] = a[i]
      BY <1>6, <1>9, <2>1
    <3>2. first[2 * i - 1] = a[i] /\ first[2 * i] = NL
      BY <1>1, <3>1, BlobTokens
    <3>3. 2 * i - 1 \in 1..Len(first) /\ 2 * i \in 1..Len(first)
      BY <1>1, <1>6, <3>1
    <3> QED
      BY <1>10, <3>1, <3>2, <3>3
  <2>2. CASE i > Len(a)
    <3>1. PICK k \in 1..Len(b) : i = Len(a) + k
      <4>1. i - Len(a) \in 1..Len(b) /\ i = Len(a) + (i - Len(a))
        BY <1>9, <1>6, <2>2
      <4> QED
        BY <4>1
    <3>2. second[2 * k - 1] = b[k] /\ second[2 * k] = NL
      BY <1>2, BlobTokens
    <3>3. 2 * k - 1 \in 1..Len(second) /\ 2 * k \in 1..Len(second)
      BY <1>2, <1>6
    <3>4. /\ left[Len(first) + (2 * k - 1)] = second[2 * k - 1]
          /\ left[Len(first) + 2 * k] = second[2 * k]
      BY <1>10, <3>3
    <3>5. 2 * i - 1 = Len(first) + (2 * k - 1) /\ 2 * i = Len(first) + 2 * k
      BY <1>1, <1>6, <3>1
    <3>6. both[i] = b[k]
      BY <1>9, <3>1
    <3> QED
      BY <3>2, <3>4, <3>5, <3>6
  <2> QED
    BY <1>6, <2>1, <2>2
<1>11. Len(left) = Len(right) /\ Len(left) = 2 * Len(both)
  BY <1>1, <1>2, <1>4, <1>6, <1>9, <1>10
<1>12. ASSUME NEW j \in 1..Len(left) PROVE left[j] = right[j]
  <2>1. PICK i \in 1..Len(both) : j = 2 * i - 1 \/ j = 2 * i
    BY <1>9, <1>11, BlobTokens
  <2>2. right[2 * i - 1] = both[i] /\ right[2 * i] = NL
    BY <1>4, <1>9, BlobTokens
  <2>3. left[2 * i - 1] = both[i] /\ left[2 * i] = NL
    BY <1>7
  <2>4. CASE j = 2 * i - 1
    BY <2>2, <2>3, <2>4, Zenon
  <2>5. CASE j = 2 * i
    BY <2>2, <2>3, <2>5, Zenon
  <2> QED
    BY <2>1, <2>4, <2>5
<1>8. left = right
  BY <1>4, <1>10, <1>11, <1>12, SameSeq
<1> QED
  BY <1>1, <1>2, <1>3, <1>4, <1>5, <1>8

\* A write cut between two lines wrote the lines before the cut.
LEMMA BlobCut ==
  ASSUME NEW recs \in Seq(Record), NEW k \in 0..Len(recs)
  PROVE  SubSeq(Blob(recs), 1, 2 * k) = Blob(SubSeq(recs, 1, k))
<1>1. PICK a, b \in Seq(Record) :
         a = SubSeq(recs, 1, k) /\ Len(a) = k /\ recs = a \o b
  BY SplitSeq
<1>3. Blob(recs) = Blob(a) \o Blob(b)
  BY <1>1, BlobConcat
<1>4. /\ Blob(a) \in Seq(Token) /\ Len(Blob(a)) = 2 * k
      /\ Blob(b) \in Seq(Token)
  BY <1>1, BlobType
<1>5. SubSeq(Blob(a) \o Blob(b), 1, Len(Blob(a))) = Blob(a)
  BY <1>4
<1> QED
  BY <1>1, <1>3, <1>4, <1>5

\* A death that does not cut a bare newline leaves whole lines, and perhaps
\* one torn line behind them.
LEMMA PartialCut ==
  ASSUME "bare" \notin CrashCuts, NEW recs \in Seq(Record),
         NEW part \in Partial(recs, CrashCuts)
  PROVE  \E k \in 0..Len(recs) :
           part \in {Blob(SubSeq(recs, 1, k)), Append(Blob(SubSeq(recs, 1, k)), Torn)}
<1>1. \E k \in 0..(Len(recs) - 1) :
         part \in {SubSeq(Blob(recs), 1, 2 * k),
                   Append(SubSeq(Blob(recs), 1, 2 * k), Torn)}
  BY Zenon DEF Partial
<1>2. PICK k \in 0..(Len(recs) - 1) :
         part \in {SubSeq(Blob(recs), 1, 2 * k),
                   Append(SubSeq(Blob(recs), 1, 2 * k), Torn)}
  BY <1>1
<1>3. k \in 0..Len(recs)
  OBVIOUS
<1>4. SubSeq(Blob(recs), 1, 2 * k) = Blob(SubSeq(recs, 1, k))
  BY <1>3, BlobCut
<1> QED
  BY <1>2, <1>3, <1>4, Zenon
-----------------------------------------------------------------------------
(* The file and the outbox                                                 *)

\* The records the session ever accepted and did not lose: those on disk,
\* then those that wait.
Records == Complete(file) \o writer.outbox

\* The file is whole lines, a torn one behind them only once the process is
\* gone, and the live writer counts all of it as durable.
FileInv ==
  /\ Complete(file) \in Seq(Record)
  /\ \/ file = Blob(Complete(file))
     \/ phase # "live" /\ file = Append(Blob(Complete(file)), Torn)
  /\ phase = "live" => writer.offset = Len(file)

\* Under these two conditions a write is all or nothing: the truncation after
\* a failed write succeeds, and a death never cuts exactly the last newline.
\* Both are hazards of the code, and without either the file is lost.
CleanWrites == ~TruncateMayFail /\ "bare" \notin CrashCuts

\* What a text reads back as when it is a blob, with or without a torn line.
LEMMA FileOfBlob ==
  ASSUME NEW recs \in Seq(Record), NEW text,
         text = Blob(recs) \/ text = Append(Blob(recs), Torn)
  PROVE  Complete(text) = recs
  BY CompleteLines

\* One enqueue on a writer that counts the whole file: the batch joins the
\* outbox, and the outbox goes to the disk as a whole or stays as a whole.
LEMMA EnqueueAllOrNothing ==
  ASSUME CleanWrites, file \in Seq(Token), NEW kept \in Seq(Record),
         file = Blob(kept), NEW w0 \in Writer, w0.offset = Len(file),
         NEW recs \in Seq(Record), Enqueue(w0, recs)
  PROVE  /\ writer'.offset = Len(file')
         /\ \/ file' = file /\ writer'.outbox = w0.outbox \o recs
            \/ /\ file' = Blob(kept \o (w0.outbox \o recs))
               /\ writer'.outbox = <<>>
<1> DEFINE w == Queued(w0, recs)
<1>1. /\ w \in Writer /\ w.offset = Len(file) /\ w.outbox = w0.outbox \o recs
      /\ w.outbox \in Seq(Record)
  BY QueuedStep DEF Queued, Writer
<1> HIDE DEF w
<1>2. AfterFailedWrite(w) = {file}
  <2>1. SubSeq(file, 1, w.offset) = file
    BY <1>1
  <2> QED
    BY <2>1 DEF AfterFailedWrite, CleanWrites
<1>3. CASE writer' = Report(w, TRUE) /\ file' = file
  BY <1>1, <1>3, ReportStep
<1>4. CASE writer' = Report(w, FALSE) /\ file' = file
  BY <1>1, <1>4, ReportStep
<1>5. CASE /\ writer' = Report([w EXCEPT !.opened = TRUE], FALSE)
           /\ file' \in AfterFailedWrite(w)
  <2>1. PICK wo : wo = [w EXCEPT !.opened = TRUE]
    OBVIOUS
  <2>2. wo \in Writer /\ wo.offset = w.offset /\ wo.outbox = w.outbox
    BY <1>1, <2>1 DEF Writer
  <2>3. writer' = Report(wo, FALSE) /\ file' = file
    BY <1>2, <1>5, <2>1
  <2> QED
    BY <1>1, <2>2, <2>3, ReportStep
<1>6. CASE /\ writer' = Report(Written(w), TRUE)
           /\ file' = file \o Blob(w.outbox)
  <2>1. PICK wn : wn = Written(w)
    OBVIOUS
  <2>2. wn \in Writer /\ wn.offset = w.offset + Len(Blob(w.outbox))
    BY <1>1, <2>1, WrittenStep
  <2>3. wn.outbox = <<>>
    BY <1>1, <2>1 DEF Written, Writer
  <2>4. writer'.offset = wn.offset /\ writer'.outbox = <<>>
    BY <1>6, <2>1, <2>2, <2>3, ReportStep
  <2>5. Blob(w.outbox) \in Seq(Token) /\ Len(Blob(w.outbox)) \in Nat
    <3>1. PICK out \in Seq(Record) : out = w.outbox
      BY <1>1
    <3>2. Blob(out) \in Seq(Token) /\ Len(Blob(out)) = 2 * Len(out)
      BY BlobType
    <3> QED
      BY <3>1, <3>2
  <2>6. Len(file') = Len(file) + Len(Blob(w.outbox))
    BY <1>6, <2>5
  <2>7. file' = Blob(kept \o w.outbox)
    BY <1>1, <1>6, BlobConcat
  <2> QED
    BY <1>1, <2>2, <2>4, <2>6, <2>7
<1> QED
  BY <1>3, <1>4, <1>5, <1>6, Zenon DEF Enqueue, w

\* So the accepted records grow by the batch, and the file stays in shape.
LEMMA EnqueueGrowsRecords ==
  ASSUME CleanWrites, Inv, FileInv, phase = "live", phase' = "live",
         NEW recs \in Seq(Record), Enqueue(writer, recs)
  PROVE  /\ FileInv' /\ Records' = Records \o recs
         /\ \/ Complete(file)' = Complete(file)
            \/ Complete(file)' = Records'
<1>1. /\ file \in Seq(Token) /\ writer \in Writer /\ writer.offset = Len(file)
      /\ Complete(file) \in Seq(Record) /\ writer.outbox \in Seq(Record)
  BY DEF Inv, LogInv, FileInv, Writer
<1>2. PICK kept \in Seq(Record) : kept = Complete(file) /\ file = Blob(kept)
  BY <1>1 DEF FileInv
<1>3. /\ writer'.offset = Len(file')
      /\ \/ file' = file /\ writer'.outbox = writer.outbox \o recs
         \/ /\ file' = Blob(kept \o (writer.outbox \o recs))
            /\ writer'.outbox = <<>>
  BY <1>1, <1>2, EnqueueAllOrNothing
<1>4. PICK all \in Seq(Record) :
         /\ all = kept \o (writer.outbox \o recs)
         /\ all = (kept \o writer.outbox) \o recs
         /\ all \o <<>> = all
  <2>1. /\ kept \o (writer.outbox \o recs) \in Seq(Record)
        /\ kept \o (writer.outbox \o recs) = (kept \o writer.outbox) \o recs
    BY <1>1, JoinTwice, Zenon
  <2>2. PICK all \in Seq(Record) : all = kept \o (writer.outbox \o recs)
    BY <2>1, Zenon
  <2>3. all \o <<>> = all
    OBVIOUS
  <2> QED
    BY <2>1, <2>2, <2>3, Zenon
<1>5. CASE file' = file /\ writer'.outbox = writer.outbox \o recs
  <2>1. Complete(file)' = kept /\ Complete(file') = kept
    BY <1>2, <1>5
  <2>2. Records' = Records \o recs
    BY <1>2, <1>4, <1>5, <2>1 DEF Records
  <2> QED
    BY <1>2, <1>3, <1>5, <2>1, <2>2 DEF FileInv
<1>6. CASE file' = Blob(all) /\ writer'.outbox = <<>>
  <2>1. Complete(file') = all
    BY <1>6, CompleteLines
  <2>2. Records' = all
    BY <1>4, <1>6, <2>1 DEF Records
  <2> QED
    BY <1>2, <1>3, <1>4, <1>6, <2>1, <2>2 DEF FileInv, Records
<1> QED
  BY <1>3, <1>4, <1>5, <1>6

\* Flushing with nothing to say, and saying it, are steps of this kind too.
LEMMA QuietKeepsRecords ==
  ASSUME FileInv, UNCHANGED <<phase, file, writer>>
  PROVE  FileInv' /\ Records' = Records /\ Complete(file)' = Complete(file)
  BY DEF FileInv, Records

\* The notice says nothing to the file.
LEMMA TellKeepsRecords ==
  ASSUME Inv, FileInv, TellTransition
  PROVE  FileInv' /\ Records' = Records /\ Complete(file)' = Complete(file)
<1>1. writer \in Writer /\ writer' = [writer EXCEPT !.transition = "none"]
  BY DEF TellTransition, Inv, LogInv
<1>2. writer'.outbox = writer.outbox /\ writer'.offset = writer.offset
  BY <1>1 DEF Writer
<1> QED
  BY <1>2 DEF TellTransition, FileInv, Records

\* A process that ends leaves the file it had or one with its outbox in it.
LEMMA CloseKeepsRecords ==
  ASSUME CleanWrites, Inv, FileInv, Close
  PROVE  /\ FileInv' /\ Complete(file)' = Records'
         /\ Records' = Complete(file) \/ Records' = Records
<1>1. /\ file \in Seq(Token) /\ writer \in Writer /\ writer.offset = Len(file)
      /\ Complete(file) \in Seq(Record) /\ writer.outbox \in Seq(Record)
  BY DEF Close, Inv, LogInv, FileInv, Writer
<1>2. PICK kept \in Seq(Record) : kept = Complete(file) /\ file = Blob(kept)
  BY <1>1 DEF Close, FileInv
<1>3. PICK all : all = kept \o writer.outbox
  OBVIOUS
<1>7. all \in Seq(Record)
  BY <1>1, <1>3
<1>4. /\ phase' # "live" /\ writer'.outbox = <<>>
      /\ \/ file' = file \o Blob(writer.outbox)
         \/ file' = file \o <<>>
         \/ file' \in AfterFailedWrite(writer)
  BY Zenon DEF Close, Gone, FreshWriter
<1>5. file' = Blob(all) \/ file' = Blob(kept)
  <2>1. file \o <<>> = file /\ SubSeq(file, 1, writer.offset) = file
    BY <1>1
  <2>2. AfterFailedWrite(writer) = {file}
    BY <2>1 DEF AfterFailedWrite, CleanWrites
  <2>3. file \o Blob(writer.outbox) = Blob(all)
    BY <1>1, <1>2, <1>3, BlobConcat
  <2> QED
    BY <1>2, <1>4, <2>1, <2>2, <2>3
<1>6. ASSUME NEW left \in Seq(Record), file' = Blob(left)
      PROVE  FileInv' /\ Complete(file)' = left /\ Records' = left
  <2>1. Complete(file') = left /\ left \o <<>> = left
    BY <1>6, CompleteLines
  <2> QED
    BY <1>4, <1>6, <2>1 DEF FileInv, Records
<1> QED
  BY <1>2, <1>3, <1>5, <1>6, <1>7 DEF Records

\* A process that dies leaves the file it had and whole records behind it: a
\* first part of what it had accepted and was accepting.
LEMMA CrashKeepsRecords ==
  ASSUME CleanWrites, Inv, FileInv, Crash
  PROVE  /\ FileInv' /\ Complete(file)' = Records'
         /\ \E recs \in InFlight :
              /\ \E k \in 0..Len(Records \o recs) :
                   /\ Len(Complete(file)) <= k
                   /\ Records' = SubSeq(Records \o recs, 1, k)
              /\ minted' = Max({minted} \cup {recs[i].id : i \in
                                  {j \in DOMAIN recs : recs[j].t = "node"}})
<1>1. PICK recs \in InFlight :
        /\ \E part \in Partial(Queued(writer, recs).outbox, CrashCuts) :
             file' = file \o part
        /\ minted' = Max({minted} \cup {recs[i].id : i \in
                            {j \in DOMAIN recs : recs[j].t = "node"}})
  BY Zenon DEF Crash
<1>2. /\ phase = "live" /\ phase' # "live" /\ writer'.outbox = <<>>
  BY DEF Crash, Gone, FreshWriter
<1>3. /\ file \in Seq(Token) /\ writer.outbox \in Seq(Record)
      /\ Complete(file) \in Seq(Record) /\ recs \in Seq(Record)
  BY InFlightType DEF Inv, LogInv, FileInv, Writer
<1>4. PICK kept \in Seq(Record) : kept = Complete(file) /\ file = Blob(kept)
  BY <1>2, <1>3 DEF FileInv
<1>5. PICK out \in Seq(Record) :
        out = writer.outbox \o recs /\ Queued(writer, recs).outbox = out
  <2>1. writer \in Writer
    BY DEF Inv, LogInv
  <2>2. Queued(writer, recs).outbox = writer.outbox \o recs
    BY <2>1 DEF Queued, Writer
  <2>3. writer.outbox \o recs \in Seq(Record)
    BY <1>3
  <2> QED
    BY <2>2, <2>3, Zenon
<1>19. PICK n \in 0..Len(out) : \E part :
        /\ part = Blob(SubSeq(out, 1, n))
        /\ file' = file \o part \/ file' = file \o Append(part, Torn)
  <2>1. PICK piece \in Partial(out, CrashCuts) : file' = file \o piece
    BY <1>1, <1>5
  <2>2. PICK n \in 0..Len(out) :
           piece \in {Blob(SubSeq(out, 1, n)), Append(Blob(SubSeq(out, 1, n)), Torn)}
    BY PartialCut DEF CleanWrites
  <2> QED
    BY <2>1, <2>2
<1>6. PICK part :
        /\ part = Blob(SubSeq(out, 1, n))
        /\ file' = file \o part \/ file' = file \o Append(part, Torn)
  BY <1>19
<1>7. PICK written \in Seq(Record) :
        written = SubSeq(out, 1, n) /\ Len(written) = n
  BY SplitSeq
<1>8. PICK left : left = kept \o written
  OBVIOUS
<1>16. left \in Seq(Record)
  BY <1>8
<1>9. part \in Seq(Token) /\ file \o part = Blob(left)
  <2>1. part = Blob(written)
    BY <1>6, <1>7
  <2> QED
    BY <1>4, <1>8, <2>1, BlobType, BlobConcat
<1>10. file' = Blob(left) \/ file' = Append(Blob(left), Torn)
  <2>1. file \o Append(part, Torn) = Append(file \o part, Torn)
    BY <1>3, <1>9, JoinTorn
  <2> QED
    BY <1>6, <1>9, <2>1
<1>11. Complete(file') = left
  BY <1>10, <1>16, FileOfBlob
<1>17. left \o <<>> = left
  BY <1>16
<1>12. FileInv' /\ Complete(file)' = left /\ Records' = left
  BY <1>2, <1>10, <1>11, <1>16, <1>17 DEF FileInv, Records
<1>13. PICK all : all = Records \o recs
  OBVIOUS
<1>18. all \in Seq(Record) /\ all = kept \o out
  <2>1. /\ kept \o (writer.outbox \o recs) \in Seq(Record)
        /\ kept \o (writer.outbox \o recs) = (kept \o writer.outbox) \o recs
    BY <1>3, JoinTwice, Zenon
  <2>2. Records = kept \o writer.outbox
    BY <1>4 DEF Records
  <2> QED
    BY <1>5, <1>13, <2>1, <2>2, Zenon
<1>14. PICK k \in 0..Len(all) : k = Len(kept) + n
  <2>1. Len(all) = Len(kept) + Len(out)
    BY <1>18
  <2>2. Len(kept) + n \in 0..Len(all)
    BY <2>1
  <2> QED
    BY <2>2
<1>15. left = SubSeq(all, 1, k) /\ Len(kept) <= k
  BY <1>7, <1>8, <1>18, <1>14, JoinedCut
<1> QED
  BY <1>1, <1>4, <1>12, <1>13, <1>14, <1>15, Zenon

\* A file that parses is whole lines, and its lines are the session's records.
LEMMA ParsedFile ==
  ASSUME Inv, FileInv, phase # "live", Parses(file)
  PROVE  /\ file = Blob(Complete(file)) /\ Lines(file) = Complete(file)
         /\ Records = Complete(file)
<1>1. Complete(file) \in Seq(Record) /\ writer.outbox = <<>>
  BY DEF Inv, LogInv, FileInv, FreshWriter
<1>2. PICK kept \in Seq(Record) : kept = Complete(file)
  BY <1>1
<1>3. file # Append(Blob(kept), Torn)
  <2>1. SUFFICES ASSUME file = Append(Blob(kept), Torn) PROVE FALSE
    OBVIOUS
  <2>2. PICK text \in Seq(Token) : text = Blob(kept)
    BY BlobType
  <2>3. Len(file) = Len(text) + 1 /\ file[Len(text) + 1] = Torn
    BY <2>1, <2>2
  <2>4. WholeLines(file)
    BY DEF Parses
  <2> QED
    BY <2>3, <2>4 DEF WholeLines
<1>4. file = Blob(kept)
  BY <1>2, <1>3 DEF FileInv
<1>5. Lines(file) = kept
  BY <1>4, BlobLines
<1>6. kept \o <<>> = kept
  OBVIOUS
<1> QED
  BY <1>1, <1>2, <1>4, <1>5, <1>6 DEF Records

\* A reopened session has the records of its file, and perhaps the selection
\* its caller brought along.
LEMMA OpenKeepsRecords ==
  ASSUME CleanWrites, Inv, FileInv, Open
  PROVE  /\ FileInv'
         /\ \E recs \in Seq(Record) :
              /\ \/ recs = <<>> /\ register' = RegisterOf(Records)
                 \/ \E m \in Models : recs = <<ModelChange(m)>> /\ register' = m
              /\ Records' = Records \o recs
         /\ Complete(file)' = Complete(file) \/ Complete(file)' = Records'
<1> DEFINE w0 == AppendWriter(Len(file))
<1>1. /\ file \in Seq(Token) /\ phase' = "live"
      /\ Complete(file) \in Seq(Record)
  BY DEF Open, Inv, LogInv, FileInv
<1>2. /\ file = Blob(Complete(file)) /\ Lines(file) = Complete(file)
      /\ Records = Complete(file)
  BY ParsedFile DEF Open
<1>3. PICK kept \in Seq(Record) : kept = Complete(file) /\ file = Blob(kept)
  BY <1>1, <1>2
<1>4. PICK recs \in Seq(Record) :
        /\ \/ recs = <<>> /\ register' = RegisterOf(kept)
           \/ \E m \in Models : recs = <<ModelChange(m)>> /\ register' = m
        /\ Enqueue(w0, recs)
  <2>1. PICK m \in Models \cup {RegisterOf(kept)} :
          /\ register' = m
          /\ Enqueue(w0, IF m = RegisterOf(kept) THEN <<>> ELSE <<ModelChange(m)>>)
    BY <1>2, <1>3, Zenon DEF Open
  <2>2. CASE m = RegisterOf(kept)
    <3>1. <<>> \in Seq(Record)
      OBVIOUS
    <3> QED
      BY <2>1, <2>2, <3>1, Zenon
  <2>3. CASE m # RegisterOf(kept)
    <3>1. m \in Models /\ <<ModelChange(m)>> \in Seq(Record)
      BY <2>3, RecordTypes
    <3> QED
      BY <2>1, <2>3, <3>1, Zenon
  <2> QED
    BY <2>2, <2>3
<1>5. w0 \in Writer /\ w0.offset = Len(file) /\ w0.outbox = <<>>
  <2>1. Len(file) \in Nat
    BY <1>1
  <2> QED
    BY <2>1, AppendWriterType DEF AppendWriter, FreshWriter
<1> HIDE DEF w0
<1>6. /\ writer'.offset = Len(file')
      /\ \/ file' = file /\ writer'.outbox = w0.outbox \o recs
         \/ /\ file' = Blob(kept \o (w0.outbox \o recs))
            /\ writer'.outbox = <<>>
  BY <1>1, <1>3, <1>4, <1>5, EnqueueAllOrNothing
<1>7. w0.outbox \o recs = recs
  BY <1>5
<1>8. PICK all : all = kept \o recs
  OBVIOUS
<1>9. all \in Seq(Record) /\ all \o <<>> = all
  BY <1>8
<1>10. CASE file' = file /\ writer'.outbox = recs
  <2>1. Complete(file)' = kept
    BY <1>3, <1>10
  <2>2. Records' = kept \o recs
    BY <1>10, <2>1 DEF Records
  <2> QED
    BY <1>1, <1>2, <1>3, <1>4, <1>6, <1>10, <2>1, <2>2 DEF FileInv
<1>11. CASE file' = Blob(all) /\ writer'.outbox = <<>>
  <2>1. Complete(file') = all
    BY <1>9, <1>11, CompleteLines
  <2>2. Records' = all
    BY <1>9, <1>11, <2>1 DEF Records
  <2>3. FileInv'
    BY <1>6, <1>9, <1>11, <2>1 DEF FileInv
  <2> QED
    BY <1>2, <1>3, <1>4, <1>8, <2>1, <2>2, <2>3
<1> QED
  BY <1>6, <1>7, <1>8, <1>10, <1>11

-----------------------------------------------------------------------------
(* The log keeps the promise of DurableLog                                 *)

\* Joining something to a sequence leaves it a prefix.
LEMMA PrefixOfJoin ==
  ASSUME NEW a \in Seq(Record), NEW b \in Seq(Record)
  PROVE  IsPrefix(a, a \o b)
  BY DEF IsPrefix

\* Of two first parts of a sequence the shorter is a prefix of the longer.
LEMMA PrefixOfCut ==
  ASSUME NEW a \in Seq(Record), NEW m \in 0..Len(a), NEW n \in m..Len(a)
  PROVE  IsPrefix(SubSeq(a, 1, m), SubSeq(a, 1, n))
  BY DEF IsPrefix

\* The states of the file and the outbox that both theorems start from.
LEMMA FileInvInit == Init => FileInv /\ Complete(file) = <<>> /\ file = <<>>
<1> SUFFICES ASSUME Init PROVE FileInv /\ Complete(file) = <<>> /\ file = <<>>
  OBVIOUS
<1>1. <<>> \in Seq(Record) /\ Len(<<>>) = 0
  OBVIOUS
<1>2. Blob(<<>>) = <<>>
  <2>1. Blob(<<>>) \in Seq(Token) /\ Len(Blob(<<>>)) = 2 * Len(<<>>)
    BY <1>1, BlobType, Zenon
  <2> QED
    BY <1>1, <2>1
<1>3. Complete(<<>>) = <<>>
  BY <1>1, <1>2, CompleteLines
<1>4. file = <<>> /\ writer.offset = 0 /\ phase = "live"
  BY DEF Init, FreshWriter
<1> QED
  BY <1>1, <1>2, <1>3, <1>4 DEF FileInv

\* Every step keeps the file in shape and is a step of the abstract log, or
\* does not touch it.
LEMMA PromiseStep ==
  ASSUME CleanWrites, Inv, FileInv, Inv', [Next]_vars
  PROVE  FileInv' /\ [Promise!Next]_(Promise!vars)
<1>1. /\ Complete(file) \in Seq(Record) /\ writer.outbox \in Seq(Record)
      /\ writer'.outbox \in Seq(Record)
  BY DEF Inv, LogInv, FileInv, Writer
<1>2. Records \in Seq(Record) /\ Records = Complete(file) \o writer.outbox
  BY <1>1 DEF Records
<1>3. \A s, t : Promise!IsPrefix(s, t) <=> IsPrefix(s, t)
  BY DEF IsPrefix, Promise!IsPrefix
<1>4. ASSUME phase = "live", phase' = "live", IsPrefix(Records, Records'),
             Complete(file)' = Complete(file) \/ Complete(file)' = Records'
      PROVE  Promise!Accept
  BY <1>3, <1>4 DEF Promise!Accept, Records
<1>5. ASSUME phase = "live", phase' = "live", NEW recs \in Seq(Record),
             Enqueue(writer, recs)
      PROVE  FileInv' /\ Promise!Accept
  <2>1. /\ FileInv' /\ Records' = Records \o recs
        /\ Complete(file)' = Complete(file) \/ Complete(file)' = Records'
    BY <1>5, EnqueueGrowsRecords
  <2>2. IsPrefix(Records, Records')
    BY <1>2, <2>1, PrefixOfJoin
  <2> QED
    BY <1>4, <1>5, <2>1, <2>2
<1>6. ASSUME NEW batch \in Batches, Commit(batch)
      PROVE  FileInv' /\ Promise!Accept
  <2>1. Chain(batch) \in Seq(Record)
    <3>1. /\ minted \in 0..MaxNodes /\ minted + Len(batch) <= MaxNodes
          /\ head \in Ids \cup {Root} /\ batch \in Seq(EntryType)
      BY <1>6, BatchType DEF Commit, Inv, LogInv, TreeInv
    <3> QED
      BY <3>1, ChainType DEF Record
  <2> QED
    BY <1>5, <1>6, <2>1 DEF Commit
<1>7. ASSUME NEW target \in Targets, Checkout(target)
      PROVE  FileInv' /\ Promise!Accept
  <2>1. <<CheckoutRecord(target)>> \in Seq(Record)
    BY RecordTypes DEF Targets, Inv, TreeInv
  <2> QED
    BY <1>5, <1>7, <2>1 DEF Checkout
<1>8. ASSUME NEW m \in Models, SelectModel(m)
      PROVE  FileInv' /\ Promise!Accept
  <2>1. <<ModelChange(m)>> \in Seq(Record)
    BY RecordTypes
  <2> QED
    BY <1>5, <1>8, <2>1 DEF SelectModel
<1>9. ASSUME Flush PROVE FileInv' /\ Promise!Accept
  <2>1. <<>> \in Seq(Record)
    OBVIOUS
  <2> QED
    BY <1>5, <1>9, <2>1 DEF Flush
<1>10. ASSUME phase = "live", phase' # "live", Complete(file)' = Records',
              IsPrefix(Complete(file), Records'),
              IsPrefix(Records', Records) \/ IsPrefix(Records, Records')
       PROVE  Promise!Stop
  <2>1. SubSeq(Records, 1, Len(Complete(file))) = Complete(file)
    BY <1>1, <1>2
  <2>2. PICK log, later : log = Records /\ later = Records'
    OBVIOUS
  <2> QED
    BY <1>3, <1>10, <2>1 DEF Promise!Stop, Records
<1>11. ASSUME Close PROVE FileInv' /\ Promise!Stop
  <2>1. /\ FileInv' /\ Complete(file)' = Records'
        /\ Records' = Complete(file) \/ Records' = Records
    BY <1>11, CloseKeepsRecords
  <2>2. /\ IsPrefix(Complete(file), Records) /\ IsPrefix(Records, Records)
        /\ IsPrefix(Complete(file), Complete(file))
    BY <1>1, <1>2 DEF IsPrefix
  <2>3. phase = "live" /\ phase' # "live"
    BY <1>11 DEF Close
  <2> QED
    BY <1>10, <2>1, <2>2, <2>3, Zenon
<1>12. ASSUME Crash PROVE FileInv' /\ Promise!Stop
  <2>0. FileInv' /\ Complete(file)' = Records'
    BY <1>12, CrashKeepsRecords
  <2>8. PICK recs \in InFlight :
          \E k \in 0..Len(Records \o recs) :
            /\ Len(Complete(file)) <= k
            /\ Records' = SubSeq(Records \o recs, 1, k)
    BY <1>12, CrashKeepsRecords
  <2>1. PICK k \in 0..Len(Records \o recs) :
          /\ Len(Complete(file)) <= k
          /\ Records' = SubSeq(Records \o recs, 1, k)
    BY <2>8
  <2>2. recs \in Seq(Record)
    BY InFlightType
  <2>3. PICK all : all = Records \o recs
    OBVIOUS
  <2>4. /\ all \in Seq(Record) /\ Len(Records) \in 0..Len(all)
        /\ Len(Complete(file)) \in 0..Len(Records)
        /\ SubSeq(all, 1, Len(Records)) = Records
        /\ SubSeq(all, 1, Len(Complete(file))) = Complete(file)
    <3>1. Len(all) = Len(Records) + Len(recs) /\ all \in Seq(Record)
      BY <1>2, <2>2, <2>3
    <3>2. Len(Records) = Len(Complete(file)) + Len(writer.outbox)
      BY <1>1, <1>2
    <3>3. SubSeq(all, 1, Len(Records)) = Records
      BY <1>2, <2>2, <2>3
    <3>4. SubSeq(all, 1, Len(Complete(file))) = Complete(file)
      <4>1. /\ (Complete(file) \o writer.outbox) \o recs
                 = Complete(file) \o (writer.outbox \o recs)
            /\ writer.outbox \o recs \in Seq(Record)
        <5>1. writer.outbox \o recs \in Seq(Record)
          BY <1>1, <2>2
        <5> QED
          BY <1>1, <2>2, <5>1, JoinTwice, Zenon
      <4>2. PICK rest \in Seq(Record) : rest = writer.outbox \o recs
        BY <4>1
      <4>3. all = Complete(file) \o rest
        BY <1>2, <2>3, <4>1, <4>2
      <4> QED
        BY <1>1, <4>3
    <3>5. Len(Records) \in 0..Len(all) /\ Len(Complete(file)) \in 0..Len(Records)
      BY <1>1, <1>2, <2>2, <3>1, <3>2
    <3> QED
      BY <3>1, <3>3, <3>4, <3>5, Zenon
  <2>5. IsPrefix(Complete(file), Records')
    <3>1. k \in Len(Complete(file))..Len(all)
      BY <2>1, <2>3, <2>4
    <3>2. IsPrefix(SubSeq(all, 1, Len(Complete(file))), SubSeq(all, 1, k))
      BY <2>4, <3>1, PrefixOfCut
    <3> QED
      BY <2>1, <2>3, <2>4, <3>2
  <2>6. IsPrefix(Records', Records) \/ IsPrefix(Records, Records')
    <3>1. CASE k <= Len(Records)
      <4>1. IsPrefix(SubSeq(all, 1, k), SubSeq(all, 1, Len(Records)))
        <5>1. k \in 0..Len(all) /\ Len(Records) \in k..Len(all)
          BY <2>1, <2>3, <2>4, <3>1
        <5> QED
          BY <2>4, <5>1, PrefixOfCut
      <4> QED
        BY <2>1, <2>3, <2>4, <4>1
    <3>2. CASE k >= Len(Records)
      <4>1. IsPrefix(SubSeq(all, 1, Len(Records)), SubSeq(all, 1, k))
        <5>1. k \in Len(Records)..Len(all)
          BY <2>1, <2>3, <2>4, <3>2
        <5> QED
          BY <2>4, <5>1, PrefixOfCut
      <4> QED
        BY <2>1, <2>3, <2>4, <4>1
    <3> QED
      BY <2>1, <2>4, <3>1, <3>2
  <2>7. phase = "live" /\ phase' # "live"
    BY <1>12 DEF Crash
  <2> QED
    BY <1>10, <2>0, <2>5, <2>6, <2>7, Zenon
<1>13. ASSUME Open PROVE FileInv' /\ Promise!Resume
  <2>1. PICK recs \in Seq(Record) :
          /\ FileInv' /\ Records' = Records \o recs
          /\ Complete(file)' = Complete(file) \/ Complete(file)' = Records'
    BY <1>13, OpenKeepsRecords
  <2>2. IsPrefix(Records, Records')
    BY <1>2, <2>1, PrefixOfJoin
  <2>3. phase # "live" /\ phase' = "live"
    BY <1>13 DEF Open
  <2> QED
    BY <1>3, <2>1, <2>2, <2>3 DEF Promise!Resume, Records
<1>14. ASSUME phase = "live" <=> phase' = "live", FileInv', Records' = Records,
              Complete(file)' = Complete(file)
       PROVE  UNCHANGED Promise!vars
  BY <1>14 DEF Promise!vars, Records
<1>15. CASE TellTransition
  <2>1. FileInv' /\ Records' = Records /\ Complete(file)' = Complete(file)
    BY <1>15, TellKeepsRecords
  <2>2. phase' = phase
    BY <1>15 DEF TellTransition
  <2> QED
    BY <1>14, <2>1, <2>2
<1>16. CASE Refuse
  BY <1>14, <1>16 DEF Refuse, FileInv, Records
<1>17. CASE UNCHANGED vars
  BY <1>14, <1>17, QuietKeepsRecords DEF vars
<1>18. CASE Over
  BY <1>17, <1>18 DEF Over
<1> QED
  BY <1>6, <1>7, <1>8, <1>9, <1>11, <1>12, <1>13, <1>15, <1>16, <1>17, <1>18, Zenon
     DEF Next, Promise!Next

\* The writer keeps the promise of the abstract log: accepted records are
\* never reordered, repeated or dropped while the process lives, whatever
\* writes fail; when it ends, exactly a suffix of those not yet on disk goes;
\* and the next process finds exactly what was on disk.
THEOREM PromiseKept == CleanWrites => (Spec => ImplementsDurableLog)
<1> SUFFICES ASSUME CleanWrites PROVE Spec => ImplementsDurableLog
  OBVIOUS
<1>1. Init => FileInv
  BY FileInvInit
<1>2. Init => Promise!Init
  <2> SUFFICES ASSUME Init PROVE Promise!Init
    OBVIOUS
  <2>1. writer.outbox \in Seq(Record)
    BY InvInit DEF Inv, LogInv, Writer
  <2>2. Complete(file) = <<>> /\ phase = "live"
    BY FileInvInit DEF Init
  <2>3. <<>> \o writer.outbox \in Seq(Record) /\ Len(<<>>) = 0
    BY <2>1
  <2> QED
    BY <2>2, <2>3 DEF Promise!Init
<1>3. Inv /\ Inv' /\ FileInv /\ [Next]_vars => FileInv' /\ [Promise!Next]_(Promise!vars)
  BY PromiseStep
<1> QED
  BY <1>1, <1>2, <1>3, Invariance, PTL DEF Spec, ImplementsDurableLog, Promise!Spec

-----------------------------------------------------------------------------
(* Roundtrips in the tree                                                  *)

\* A record that is a node, and one that opens a group: a message, an answer,
\* or a turn with calls.  Only results belong to somebody else's group.
IsNode(rec) == rec.t = "node"
IsTurn(rec) == IsNode(rec) /\ rec.kind # "result"

\* The nodes from c to r are the turn c and the results that answer it in turn.
Answers(tree, c, r) ==
  /\ c \in DOMAIN tree /\ tree[c].kind # "result"
  /\ r \in c..(c + tree[c].calls)
  /\ \A x \in (c + 1)..r :
       x \in DOMAIN tree /\ tree[x].kind = "result" /\ tree[x].parent = x - 1

\* A node of a roundtrip is outside of it exactly when it is its last one.
LEMMA ClosedAtTheEnd ==
  ASSUME NEW tree, DOMAIN tree \subseteq Ids,
         \A id \in DOMAIN tree : tree[id].calls \in 0..MaxCalls,
         NEW c, NEW r, Answers(tree, c, r)
  PROVE  TailIsClosed(tree, r) <=> r = c + tree[c].calls
<1>1. /\ c \in Ids /\ tree[c].calls \in 0..MaxCalls /\ MaxCalls \in Nat
      /\ c \in Nat /\ c > 0 /\ r \in Nat /\ r >= c
  BY BoundsAssumption DEF Answers, Ids
<1>2. ASSUME r = c + tree[c].calls
      PROVE  TailIsClosed(tree, r)
  <2> DEFINE n == tree[c].calls
             run == [i \in 0..n |-> c + i]
  <2>1. n \in 0..MaxCalls
    BY <1>1
  <2>2. \A i \in 1..n : /\ c + i \in DOMAIN tree /\ tree[c + i].kind = "result"
                        /\ tree[c + i].parent = c + i - 1
    BY <1>1, <1>2 DEF Answers
  <2>3. run \in [0..n -> DOMAIN tree]
    <3>1. c + 0 \in DOMAIN tree
      BY <1>1 DEF Answers
    <3> QED
      BY <1>1, <2>2, <3>1
  <2>4. run[n] = r /\ run[0] = c /\ tree[run[0]].kind # "result" /\ tree[run[0]].calls = n
    BY <1>1, <1>2 DEF Answers
  <2>5. \A i \in 1..n : /\ tree[run[i]].kind = "result"
                        /\ tree[run[i]].parent = run[i - 1]
    BY <1>1, <2>2
  <2> HIDE DEF run, n
  <2> QED
    BY <2>1, <2>3, <2>4, <2>5 DEF TailIsClosed
<1>3. ASSUME TailIsClosed(tree, r)
      PROVE  r = c + tree[c].calls
  <2>1. r # Root
    BY <1>1 DEF Root
  <2>2. PICK n \in 0..MaxCalls : \E run \in [0..n -> DOMAIN tree] :
           /\ run[n] = r
           /\ tree[run[0]].kind # "result" /\ tree[run[0]].calls = n
           /\ \A i \in 1..n : /\ tree[run[i]].kind = "result"
                              /\ tree[run[i]].parent = run[i - 1]
    BY <1>3, <2>1 DEF TailIsClosed
  <2>3. PICK run \in [0..n -> DOMAIN tree] :
           /\ run[n] = r
           /\ tree[run[0]].kind # "result" /\ tree[run[0]].calls = n
           /\ \A i \in 1..n : /\ tree[run[i]].kind = "result"
                              /\ tree[run[i]].parent = run[i - 1]
    BY <2>2
  <2>4. n \in Nat
    BY <1>1
  <2> DEFINE wrong == {i \in Nat : i <= n /\ i <= r - c /\ run[n - i] # r - i}
  <2>5. wrong = {}
    <3>1. SUFFICES ASSUME wrong # {} PROVE FALSE
      OBVIOUS
    <3>2. PICK i \in wrong : \A j \in wrong : i <= j
      <4>1. wrong \in SUBSET Nat
        OBVIOUS
      <4> HIDE DEF wrong
      <4> QED
        BY <3>1, <4>1, LeastExists
    <3>3. i # 0
      BY <1>1, <2>3, <2>4
    <3>4. i - 1 \in Nat /\ i - 1 \notin wrong
      BY <3>2, <3>3
    <3>5. run[n - (i - 1)] = r - (i - 1)
      BY <1>1, <2>4, <3>4
    <3>6. n - (i - 1) \in 1..n /\ (n - (i - 1)) - 1 = n - i
      BY <2>4, <3>3
    <3>7. tree[r - (i - 1)].parent = run[n - i]
      BY <2>3, <3>5, <3>6
    <3>8. r - (i - 1) \in (c + 1)..r
      BY <1>1, <3>3
    <3>9. tree[r - (i - 1)].parent = r - (i - 1) - 1
      BY <3>8 DEF Answers
    <3>10. run[n - i] = r - i
      BY <1>1, <3>7, <3>9
    <3> QED
      BY <3>10
  <2>6. \A i \in Nat : i <= n /\ i <= r - c => run[n - i] = r - i
    BY <2>5
  <2>7. n >= r - c
    <3>1. SUFFICES ASSUME n < r - c PROVE FALSE
      BY <1>1, <2>4
    <3>2. run[0] = r - n
      <4>1. n <= n /\ n <= r - c /\ n - n = 0
        BY <1>1, <2>4, <3>1
      <4> QED
        BY <2>4, <2>6, <4>1
    <3>3. r - n \in (c + 1)..r
      BY <1>1, <2>4, <3>1
    <3> QED
      BY <2>3, <3>2, <3>3 DEF Answers
  <2>8. n <= r - c
    <3>1. SUFFICES ASSUME n > r - c PROVE FALSE
      BY <1>1, <2>4
    <3>2. r - c \in Nat /\ r - (r - c) = c
      BY <1>1
    <3>3. run[n - (r - c)] = c
      BY <2>4, <2>6, <3>1, <3>2
    <3>4. n - (r - c) \in 1..n
      BY <1>1, <2>4, <3>1
    <3> QED
      BY <2>3, <3>3, <3>4 DEF Answers
  <2>9. n = r - c /\ run[0] = c
    <3>1. n = r - c
      BY <1>1, <2>4, <2>7, <2>8
    <3>2. n <= n /\ n <= r - c /\ n - n = 0 /\ r - n = c
      BY <1>1, <2>4, <3>1
    <3>3. run[n - n] = r - n
      BY <2>4, <2>6, <3>2
    <3> QED
      BY <3>1, <3>2, <3>3
  <2> QED
    BY <1>1, <2>3, <2>9
<1> QED
  BY <1>2, <1>3

\* The shape of the tree: every node belongs to a roundtrip (a turn without
\* calls is one by itself), no roundtrip is missing a result, and every turn
\* starts at the root or outside of the roundtrips.
WholeTree(tree) ==
  /\ DOMAIN tree \subseteq Ids
  /\ \A id \in DOMAIN tree : tree[id] \in Node
  /\ \A r \in DOMAIN tree : \E c \in DOMAIN tree : Answers(tree, c, r)
  /\ \A c \in DOMAIN tree :
       tree[c].kind # "result" =>
         /\ Answers(tree, c, c + tree[c].calls)
         /\ TailIsClosed(tree, tree[c].parent)

\* Inside a roundtrip every node has the next one as its only child.
LEMMA OnlyChildInside ==
  ASSUME NEW tree, WholeTree(tree), NEW c, NEW r,
         Answers(tree, c, r), r < c + tree[c].calls
  PROVE  Children(tree, r) = {r + 1} /\ Answers(tree, c, r + 1)
<1>1. /\ DOMAIN tree \subseteq Ids /\ \A id \in DOMAIN tree : tree[id] \in Node
      /\ \A id \in DOMAIN tree : tree[id].calls \in 0..MaxCalls
      /\ c \in DOMAIN tree /\ tree[c].kind # "result" /\ c \in Nat /\ r \in Nat
      /\ r >= c /\ tree[c].calls \in Nat
  BY BoundsAssumption DEF WholeTree, Node, Answers, Ids
<1>2. Answers(tree, c, c + tree[c].calls)
  BY <1>1 DEF WholeTree
<1>3. Answers(tree, c, r + 1)
  BY <1>1, <1>2 DEF Answers
<1>4. r + 1 \in DOMAIN tree /\ tree[r + 1].parent = r
  BY <1>1, <1>3 DEF Answers
<1>5. ~TailIsClosed(tree, r)
  BY <1>1, ClosedAtTheEnd
<1>6. ASSUME NEW x \in DOMAIN tree, tree[x].parent = r
      PROVE  x = r + 1
  <2>1. tree[x].kind = "result"
    BY <1>5, <1>6 DEF WholeTree
  <2>2. PICK d \in DOMAIN tree : Answers(tree, d, x)
    BY DEF WholeTree
  <2>3. d \in Nat /\ x \in Nat /\ x > d
    BY <1>1, <2>1, <2>2 DEF Answers, Ids
  <2>4. tree[x].parent = x - 1
    BY <2>2, <2>3 DEF Answers
  <2> QED
    BY <1>1, <1>6, <2>3, <2>4
<1> QED
  BY <1>3, <1>4, <1>6 DEF Children

\* In a tree of whole roundtrips, an open node has a closed one ahead of it:
\* the end of its roundtrip, through only children.
LEMMA WholeTreeIsCompletable ==
  ASSUME NEW tree, WholeTree(tree), NEW r \in DOMAIN tree, ~TailIsClosed(tree, r)
  PROVE  ClosedAhead(tree, r) # {}
<1>1. PICK c \in DOMAIN tree : Answers(tree, c, r)
  BY DEF WholeTree
<1>2. /\ DOMAIN tree \subseteq Ids /\ \A id \in DOMAIN tree : tree[id].calls \in 0..MaxCalls
      /\ c \in Nat /\ r \in Nat /\ r >= c /\ tree[c].calls \in Nat
      /\ tree[c].kind # "result" /\ MaxNodes \in Nat
  BY <1>1, BoundsAssumption DEF WholeTree, Node, Answers, Ids
<1> DEFINE last == c + tree[c].calls
           n == last - r
           run == [i \in 0..n |-> r + i]
<1>3. Answers(tree, c, last) /\ last \in Nat
  BY <1>1, <1>2 DEF WholeTree
<1>4. TailIsClosed(tree, last)
  BY <1>2, <1>3, ClosedAtTheEnd
<1>5. r # last /\ r <= last
  BY <1>1, <1>2, <1>4 DEF Answers
<1>6. last \in DOMAIN tree /\ last \in 1..MaxNodes
  BY <1>2, <1>3, <1>5 DEF Answers, Ids
<1>7. n \in 1..MaxNodes
  <2>1. r \in 1..MaxNodes
    BY <1>2 DEF Ids
  <2> QED
    BY <1>2, <1>5, <1>6, <2>1
<1>8. \A i \in 0..n : r + i \in DOMAIN tree /\ Answers(tree, c, r + i)
  <2>1. SUFFICES ASSUME NEW i \in 0..n PROVE r + i \in DOMAIN tree /\ Answers(tree, c, r + i)
    OBVIOUS
  <2>2. CASE i = 0
    BY <1>1, <1>2, <2>2
  <2>3. CASE i > 0
    BY <1>1, <1>2, <1>3, <2>3 DEF Answers
  <2> QED
    BY <1>7, <2>2, <2>3
<1>9. run \in [0..n -> DOMAIN tree]
  BY <1>8
<1>10. run[0] = r /\ run[n] = last
  BY <1>2, <1>7
<1>11. \A i \in 1..n : Children(tree, run[i - 1]) = {run[i]}
  <2>1. SUFFICES ASSUME NEW i \in 1..n PROVE Children(tree, run[i - 1]) = {run[i]}
    OBVIOUS
  <2>2. Answers(tree, c, r + (i - 1)) /\ r + (i - 1) < last
    BY <1>2, <1>7, <1>8
  <2>3. Children(tree, r + (i - 1)) = {r + (i - 1) + 1}
    BY <2>2, OnlyChildInside
  <2>4. run[i - 1] = r + (i - 1) /\ run[i] = r + (i - 1) + 1
    BY <1>2, <1>7
  <2> QED
    BY <2>3, <2>4
<1> HIDE DEF run, n, last
<1>12. last \in ForwardFrom(tree, r)
  BY <1>6, <1>7, <1>9, <1>10, <1>11 DEF ForwardFrom
<1> QED
  BY <1>4, <1>12 DEF ClosedAhead

-----------------------------------------------------------------------------
(* Coherent logs                                                           *)

\* Record i answers the turn at c: it lies among the calls of c.
Follows(recs, c, i) ==
  c \in DOMAIN recs /\ IsTurn(recs[c]) /\ i \in c..(c + recs[c].calls)

\* The log of a session, also one that was cut somewhere: the header leads,
\* ids grow, checkouts name earlier nodes, every node belongs to a turn or is
\* one, the records after a turn are its results, and a turn starts at the
\* root or where an earlier group ended.
Coherent(recs) ==
  /\ \A i \in DOMAIN recs : recs[i] = Header <=> i = 1
  /\ \A i, j \in DOMAIN recs :
       IsNode(recs[i]) /\ IsNode(recs[j]) /\ i < j => recs[i].id < recs[j].id
  /\ \A i \in DOMAIN recs : recs[i].t = "checkout" =>
       \/ recs[i].to = Root
       \/ \E j \in 1..(i - 1) : IsNode(recs[j]) /\ recs[j].id = recs[i].to
  /\ \A i \in DOMAIN recs : IsNode(recs[i]) => \E c \in 1..i : Follows(recs, c, i)
  /\ \A c, i \in DOMAIN recs : Follows(recs, c, i) /\ c < i =>
       /\ IsNode(recs[i]) /\ recs[i].kind = "result"
       /\ recs[i].id = recs[c].id + (i - c) /\ recs[i].parent = recs[i].id - 1
  /\ \A i \in DOMAIN recs : IsTurn(recs[i]) =>
       \/ recs[i].parent = Root
       \/ \E c \in DOMAIN recs :
            /\ IsTurn(recs[c]) /\ c + recs[c].calls < i
            /\ recs[i].parent = recs[c].id + recs[c].calls

\* No group is missing its end.
WholeGroups(recs) ==
  \A c \in DOMAIN recs : IsTurn(recs[c]) => c + recs[c].calls <= Len(recs)

\* A first part of a coherent log is coherent.
LEMMA CoherentCut ==
  ASSUME NEW recs \in Seq(Record), Coherent(recs), NEW k \in 0..Len(recs),
         NEW part \in Seq(Record), part = SubSeq(recs, 1, k)
  PROVE  Coherent(part)
<1>1. /\ Len(part) = k /\ DOMAIN part = 1..k /\ DOMAIN recs = 1..Len(recs)
      /\ \A i \in 1..k : part[i] = recs[i] /\ i \in DOMAIN recs
  OBVIOUS
<1>2. \A i \in DOMAIN part : part[i] = Header <=> i = 1
  BY <1>1 DEF Coherent
<1>3. \A i, j \in DOMAIN part :
         IsNode(part[i]) /\ IsNode(part[j]) /\ i < j => part[i].id < part[j].id
  BY <1>1 DEF Coherent
<1>4. \A i \in DOMAIN part : part[i].t = "checkout" =>
        \/ part[i].to = Root
        \/ \E j \in 1..(i - 1) : IsNode(part[j]) /\ part[j].id = part[i].to
  <2>1. SUFFICES ASSUME NEW i \in 1..k, part[i].t = "checkout", part[i].to # Root
                 PROVE  \E j \in 1..(i - 1) : IsNode(part[j]) /\ part[j].id = part[i].to
    BY <1>1
  <2>2. PICK j \in 1..(i - 1) : IsNode(recs[j]) /\ recs[j].id = recs[i].to
    BY <1>1, <2>1 DEF Coherent
  <2>3. part[j] = recs[j]
    BY <1>1
  <2> QED
    BY <1>1, <2>2, <2>3
<1>5. \A i \in DOMAIN part : IsNode(part[i]) => \E c \in 1..i : Follows(part, c, i)
  <2>1. SUFFICES ASSUME NEW i \in 1..k, IsNode(part[i])
                 PROVE  \E c \in 1..i : Follows(part, c, i)
    BY <1>1
  <2>2. PICK c \in 1..i : Follows(recs, c, i)
    BY <1>1, <2>1 DEF Coherent
  <2>3. part[c] = recs[c] /\ c \in DOMAIN part
    BY <1>1
  <2> QED
    BY <2>2, <2>3 DEF Follows
<1>6. \A c, i \in DOMAIN part : Follows(part, c, i) /\ c < i =>
        /\ IsNode(part[i]) /\ part[i].kind = "result"
        /\ part[i].id = part[c].id + (i - c) /\ part[i].parent = part[i].id - 1
  BY <1>1 DEF Coherent, Follows
<1>7. \A i \in DOMAIN part : IsTurn(part[i]) =>
        \/ part[i].parent = Root
        \/ \E c \in DOMAIN part :
             /\ IsTurn(part[c]) /\ c + part[c].calls < i
             /\ part[i].parent = part[c].id + part[c].calls
  <2>1. SUFFICES ASSUME NEW i \in 1..k, IsTurn(part[i]), part[i].parent # Root
                 PROVE  \E c \in DOMAIN part :
                          /\ IsTurn(part[c]) /\ c + part[c].calls < i
                          /\ part[i].parent = part[c].id + part[c].calls
    BY <1>1
  <2>2. PICK c \in DOMAIN recs :
           /\ IsTurn(recs[c]) /\ c + recs[c].calls < i
           /\ recs[i].parent = recs[c].id + recs[c].calls
    BY <1>1, <2>1 DEF Coherent
  <2>3. recs[c].calls \in Nat
    BY <2>2, RecordsByType, BoundsAssumption DEF IsTurn, IsNode, Node
  <2>4. c \in 1..k
    BY <1>1, <2>2, <2>3
  <2> QED
    BY <1>1, <2>2, <2>4
<1> QED
  BY <1>2, <1>3, <1>4, <1>5, <1>6, <1>7 DEF Coherent

\* In a coherent log the parser finds every node under its own id.
LEMMA NodeUnderItsId ==
  ASSUME NEW recs \in Seq(Record), Coherent(recs),
         NEW i \in DOMAIN recs, IsNode(recs[i])
  PROVE  recs[i].id \in DOMAIN NodesOf(recs) /\ NodesOf(recs)[recs[i].id] = recs[i]
<1> DEFINE at == {j \in DOMAIN recs : recs[j].t = "node"}
           found == CHOOSE j \in at : recs[j].id = recs[i].id
<1>1. i \in at
  BY DEF IsNode
<1>2. found \in at /\ recs[found].id = recs[i].id
  BY <1>1, Zenon
<1>3. found = i
  <2>1. /\ found \in DOMAIN recs /\ IsNode(recs[found]) /\ recs[found].id = recs[i].id
        /\ recs[i].id \in Nat
    BY <1>1, <1>2, RecordsByType DEF IsNode, Node, Ids
  <2> HIDE DEF found
  <2>2. ~(found < i) /\ ~(i < found)
    BY <2>1 DEF Coherent
  <2> QED
    BY <2>1, <2>2
<1>4. recs[i].id \in {recs[j].id : j \in at}
  BY <1>1
<1>5. NodesOf(recs) = [id \in {recs[j].id : j \in at} |->
                         recs[CHOOSE j \in at : recs[j].id = id]]
  BY Zenon DEF NodesOf
<1> QED
  BY <1>3, <1>4, <1>5

\* Every node the parser finds is one of the records.
LEMMA NodeOfRecord ==
  ASSUME NEW recs \in Seq(Record), NEW id \in DOMAIN NodesOf(recs)
  PROVE  \E i \in DOMAIN recs : IsNode(recs[i]) /\ recs[i].id = id
  BY DEF NodesOf, IsNode

\* What the parser finds is a function on the ids it found.
LEMMA NodesOfFunction ==
  ASSUME NEW recs
  PROVE  NodesOf(recs) = [id \in DOMAIN NodesOf(recs) |-> NodesOf(recs)[id]]
  BY DEF NodesOf

\* A record and the turn it follows, in the log and in the tree.
LEMMA FollowsInTree ==
  ASSUME NEW recs \in Seq(Record), Coherent(recs),
         NEW c, NEW i \in DOMAIN recs, Follows(recs, c, i)
  PROVE  /\ recs[i].id = recs[c].id + (i - c) /\ recs[c].id \in Nat
         /\ recs[c].calls \in Nat /\ c \in 1..i
         /\ NodesOf(recs)[recs[c].id] = recs[c]
         /\ Answers(NodesOf(recs), recs[c].id, recs[i].id)
<1> DEFINE tree == NodesOf(recs)
<1>1. /\ c \in DOMAIN recs /\ IsNode(recs[c]) /\ recs[c].kind # "result"
      /\ i \in c..(c + recs[c].calls)
  BY DEF Follows, IsTurn
<1>2. /\ recs[c].id \in Nat /\ recs[c].calls \in Nat /\ c \in 1..i /\ i \in 1..Len(recs)
      /\ DOMAIN recs = 1..Len(recs)
  <2>1. recs[c] \in Node
    BY <1>1, RecordsByType DEF IsNode
  <2> QED
    BY <1>1, <2>1, BoundsAssumption DEF Node, Ids
<1>3. recs[c].id \in DOMAIN tree /\ tree[recs[c].id] = recs[c]
  BY <1>1, NodeUnderItsId
<1>4. ASSUME NEW j \in (c + 1)..i
      PROVE  /\ recs[j].id = recs[c].id + (j - c)
             /\ recs[j].id \in DOMAIN tree /\ tree[recs[j].id] = recs[j]
             /\ recs[j].kind = "result" /\ recs[j].parent = recs[j].id - 1
  <2>1. j \in DOMAIN recs /\ c < j /\ Follows(recs, c, j)
    BY <1>1, <1>2 DEF Follows
  <2>2. /\ IsNode(recs[j]) /\ recs[j].kind = "result"
        /\ recs[j].id = recs[c].id + (j - c) /\ recs[j].parent = recs[j].id - 1
    BY <1>1, <2>1 DEF Coherent
  <2> QED
    BY <2>1, <2>2, NodeUnderItsId
<1>5. recs[i].id = recs[c].id + (i - c)
  BY <1>2, <1>4
<1>6. ASSUME NEW x \in (recs[c].id + 1)..recs[i].id
      PROVE  x \in DOMAIN tree /\ tree[x].kind = "result" /\ tree[x].parent = x - 1
  <2>1. PICK j \in (c + 1)..i : x = recs[c].id + (j - c)
    <3>1. c + (x - recs[c].id) \in (c + 1)..i
      BY <1>2, <1>5
    <3>2. x = recs[c].id + ((c + (x - recs[c].id)) - c)
      BY <1>2
    <3> QED
      BY <3>1, <3>2
  <2> QED
    BY <1>4, <2>1
<1>7. recs[i].id \in recs[c].id..(recs[c].id + recs[c].calls)
  BY <1>1, <1>2, <1>5
<1>8. Answers(tree, recs[c].id, recs[i].id)
  BY <1>1, <1>3, <1>6, <1>7 DEF Answers
<1> QED
  BY <1>2, <1>3, <1>5, <1>8

\* A record is outside of the roundtrips exactly when its group ends there.
LEMMA ClosedRecord ==
  ASSUME NEW recs \in Seq(Record), Coherent(recs),
         NEW c, NEW i \in DOMAIN recs, Follows(recs, c, i)
  PROVE  TailIsClosed(NodesOf(recs), recs[i].id) <=> i = c + recs[c].calls
<1>1. /\ recs[i].id = recs[c].id + (i - c) /\ recs[c].id \in Nat
      /\ recs[c].calls \in Nat /\ c \in 1..i
      /\ NodesOf(recs)[recs[c].id] = recs[c]
      /\ Answers(NodesOf(recs), recs[c].id, recs[i].id)
  BY FollowsInTree
<1>2. /\ DOMAIN NodesOf(recs) \subseteq Ids
      /\ \A id \in DOMAIN NodesOf(recs) : NodesOf(recs)[id].calls \in 0..MaxCalls
  BY NodesOfType DEF Node
<1>3. TailIsClosed(NodesOf(recs), recs[i].id)
        <=> recs[i].id = recs[c].id + NodesOf(recs)[recs[c].id].calls
  BY <1>1, <1>2, ClosedAtTheEnd
<1>4. recs[i].id = recs[c].id + NodesOf(recs)[recs[c].id].calls
        <=> i = c + recs[c].calls
  <2>1. PICK a \in Nat, b \in Nat : a = recs[c].id /\ b = recs[c].calls
    BY <1>1
  <2>2. NodesOf(recs)[a].calls = b /\ recs[i].id = a + (i - c) /\ c \in Nat /\ i \in Nat
    BY <1>1, <2>1
  <2>3. a + (i - c) = a + b <=> i = c + b
    BY <2>2
  <2> QED
    BY <2>1, <2>2, <2>3, Zenon
<1> QED
  BY <1>3, <1>4, Zenon

\* A closed node of a coherent log is where some group ends.
LEMMA ClosedIsAnEnd ==
  ASSUME NEW recs \in Seq(Record), Coherent(recs),
         NEW id \in DOMAIN NodesOf(recs), TailIsClosed(NodesOf(recs), id)
  PROVE  \E c \in DOMAIN recs :
           /\ IsTurn(recs[c]) /\ c + recs[c].calls <= Len(recs)
           /\ id = recs[c].id + recs[c].calls
<1>1. PICK i \in DOMAIN recs : IsNode(recs[i]) /\ recs[i].id = id
  BY NodeOfRecord
<1>2. PICK c \in 1..i : Follows(recs, c, i)
  BY <1>1 DEF Coherent
<1>3. /\ recs[i].id = recs[c].id + (i - c) /\ recs[c].id \in Nat
      /\ recs[c].calls \in Nat
  BY <1>2, FollowsInTree
<1>4. i = c + recs[c].calls
  BY <1>1, <1>2, ClosedRecord
<1>5. PICK a \in Nat, b \in Nat : a = recs[c].id /\ b = recs[c].calls
  BY <1>3
<1>6. id = a + b /\ c + b <= Len(recs)
  BY <1>1, <1>2, <1>3, <1>4, <1>5
<1>7. c \in DOMAIN recs /\ IsTurn(recs[c])
  BY <1>2 DEF Follows
<1> QED
  BY <1>5, <1>6, <1>7, Zenon

\* The tree of a coherent log with whole groups is whole.
LEMMA LogTreeIsWhole ==
  ASSUME NEW recs \in Seq(Record), Coherent(recs), WholeGroups(recs)
  PROVE  WholeTree(NodesOf(recs))
<1> DEFINE tree == NodesOf(recs)
<1>1. DOMAIN tree \subseteq Ids /\ \A id \in DOMAIN tree : tree[id] \in Node
  BY NodesOfType
<1>2. ASSUME NEW r \in DOMAIN tree
      PROVE  \E c \in DOMAIN tree : Answers(tree, c, r)
  <2>1. PICK i \in DOMAIN recs : IsNode(recs[i]) /\ recs[i].id = r
    BY NodeOfRecord
  <2>2. PICK c \in 1..i : Follows(recs, c, i)
    BY <2>1 DEF Coherent
  <2>3. Answers(tree, recs[c].id, r)
    BY <2>1, <2>2, FollowsInTree
  <2> QED
    BY <2>3 DEF Answers
<1>3. ASSUME NEW r \in DOMAIN tree, tree[r].kind # "result"
      PROVE  Answers(tree, r, r + tree[r].calls) /\ TailIsClosed(tree, tree[r].parent)
  <2>1. PICK c \in DOMAIN recs : IsNode(recs[c]) /\ recs[c].id = r
    BY NodeOfRecord
  <2>2. tree[r] = recs[c] /\ IsTurn(recs[c])
    BY <1>3, <2>1, NodeUnderItsId DEF IsTurn
  <2>3. recs[c].calls \in Nat /\ c + recs[c].calls \in DOMAIN recs
    <3>1. recs[c] \in Node
      BY <1>1, <2>2
    <3>2. recs[c].calls \in Nat
      BY <3>1, BoundsAssumption DEF Node
    <3> QED
      BY <2>2, <3>2 DEF WholeGroups
  <2>4. Follows(recs, c, c + recs[c].calls)
    BY <2>2, <2>3 DEF Follows
  <2>5. /\ Answers(tree, recs[c].id, recs[c + recs[c].calls].id)
        /\ recs[c + recs[c].calls].id = recs[c].id + ((c + recs[c].calls) - c)
        /\ recs[c].id \in Nat
    BY <2>3, <2>4, FollowsInTree
  <2>6. recs[c + recs[c].calls].id = r + tree[r].calls
    BY <2>1, <2>2, <2>3, <2>5
  <2>7. TailIsClosed(tree, recs[c].parent)
    <3>1. CASE recs[c].parent = Root
      BY <3>1 DEF TailIsClosed
    <3>2. CASE recs[c].parent # Root
      <4>1. PICK d \in DOMAIN recs :
               /\ IsTurn(recs[d]) /\ d + recs[d].calls < c
               /\ recs[c].parent = recs[d].id + recs[d].calls
        BY <2>2, <3>2 DEF Coherent
      <4>2. recs[d].calls \in Nat
        BY <4>1, RecordsByType, BoundsAssumption DEF IsTurn, IsNode, Node
      <4> DEFINE e == d + recs[d].calls
      <4>3. e \in DOMAIN recs /\ Follows(recs, d, e)
        BY <4>1, <4>2 DEF Follows
      <4>4. recs[e].id = recs[d].id + (e - d) /\ recs[d].id \in Nat
        BY <4>3, FollowsInTree
      <4>5. TailIsClosed(tree, recs[e].id)
        BY <4>3, ClosedRecord
      <4> QED
        BY <4>1, <4>2, <4>4, <4>5
    <3> QED
      BY <3>1, <3>2
  <2> QED
    BY <2>1, <2>2, <2>5, <2>6, <2>7
<1> HIDE DEF tree
<1> QED
  BY <1>1, <1>2, <1>3 DEF WholeTree, tree

-----------------------------------------------------------------------------
(* Logs that grow                                                          *)

\* A turn can start here: at the root, or where a group of the log ended.
GroupEnd(recs, top) ==
  \/ top = Root
  \/ \E c \in DOMAIN recs : /\ IsTurn(recs[c]) /\ c + recs[c].calls <= Len(recs)
                            /\ top = recs[c].id + recs[c].calls

\* A turn that hangs off `top` and its results, under the ids behind `base`.
GroupOf(new, m, base, top) ==
  /\ Len(new) = m /\ m > 0
  /\ \A j \in 1..m : /\ IsNode(new[j]) /\ new[j].id = base + j
                     /\ new[j].parent = IF j = 1 THEN top ELSE base + j - 1
                     /\ j > 1 => new[j].kind = "result"
  /\ IsTurn(new[1]) /\ new[1].calls = m - 1

\* The log `both` is the log `recs` with such a group behind it.
GroupAdded(recs, new, both, n, m, base, top) ==
  /\ n > 0 /\ m > 0 /\ Len(recs) = n /\ Len(new) = m /\ Len(both) = n + m
  /\ \A i \in 1..n : both[i] = recs[i]
  /\ \A j \in 1..m : both[n + j] = new[j]
  /\ \A i \in (n + 1)..(n + m) :
       /\ IsNode(both[i]) /\ both[i].id = base + (i - n)
       /\ i > n + 1 => both[i].kind = "result" /\ both[i].parent = both[i].id - 1
  /\ IsTurn(both[n + 1]) /\ both[n + 1].calls = m - 1 /\ both[n + 1].parent = top
  /\ GroupEnd(recs, top)

\* What the engine commits: a turn and then as many results as it has calls.
LEMMA BatchShape ==
  ASSUME NEW batch \in Batches
  PROVE  /\ batch \in Seq(EntryType) /\ Len(batch) > 0
         /\ batch[1].kind # "result" /\ batch[1].calls = Len(batch) - 1
         /\ \A i \in 2..Len(batch) : batch[i].kind = "result"
<1>1. batch \in Seq(EntryType) /\ Len(batch) > 0
  BY BatchType
<1>2. CASE batch = <<Entry("user", 0)>> \/ batch = <<Entry("final", 0)>>
  <2>1. Len(batch) = 1 /\ (batch[1] = Entry("user", 0) \/ batch[1] = Entry("final", 0))
    BY <1>2
  <2>2. batch[1].kind # "result" /\ batch[1].calls = 0
    BY <2>1 DEF Entry
  <2> QED
    BY <1>1, <2>1, <2>2
<1>3. ASSUME NEW n \in 1..MaxCalls, batch = Roundtrip(n)
      PROVE  /\ batch[1].kind # "result" /\ batch[1].calls = Len(batch) - 1
             /\ \A i \in 2..Len(batch) : batch[i].kind = "result"
  <2>1. PICK results : results = [i \in 1..n |-> Entry("result", 0)]
    OBVIOUS
  <2>2. n \in Nat
    BY BoundsAssumption
  <2>3. /\ results \in Seq({Entry("result", 0)}) /\ Len(results) = n
        /\ \A i \in 1..n : results[i] = Entry("result", 0)
    BY <2>1, <2>2, SeqOfFunction
  <2>4. batch = <<Entry("call", n)>> \o results
    BY <1>3, <2>1 DEF Roundtrip
  <2>5. Len(batch) = n + 1 /\ batch[1] = Entry("call", n)
    BY <2>2, <2>3, <2>4
  <2>6. ASSUME NEW i \in 2..Len(batch) PROVE batch[i] = Entry("result", 0)
    <3>1. batch[i] = results[i - 1] /\ i - 1 \in 1..n
      BY <2>2, <2>3, <2>4, <2>5
    <3> QED
      BY <2>3, <3>1
  <2>7. batch[1].kind # "result" /\ batch[1].calls = n
    BY <2>5 DEF Entry
  <2>8. \A i \in 2..Len(batch) : batch[i].kind = "result"
    BY <2>6 DEF Entry
  <2> QED
    BY <2>2, <2>5, <2>7, <2>8
<1> QED
  BY <1>1, <1>2, <1>3, Zenon DEF Batches

\* The records of a batch: nodes with the next ids, a turn and its results,
\* each hanging off the one before, the first off the head.
LEMMA ChainShape ==
  ASSUME NEW batch \in Batches, minted \in 0..MaxNodes,
         minted + Len(batch) <= MaxNodes, head \in Ids \cup {Root}
  PROVE  /\ Chain(batch) \in Seq(Record) /\ Chain(batch) \in Seq(Node)
         /\ GroupOf(Chain(batch), Len(batch), minted, head)
<1>1. /\ batch \in Seq(EntryType) /\ Len(batch) > 0
      /\ batch[1].kind # "result" /\ batch[1].calls = Len(batch) - 1
      /\ \A i \in 2..Len(batch) : batch[i].kind = "result"
  BY BatchShape
<1>2. /\ Chain(batch) \in Seq(Node) /\ Len(Chain(batch)) = Len(batch)
      /\ \A i \in 1..Len(batch) : Chain(batch)[i].id = minted + i
  BY <1>1, ChainType
<1>3. \A i \in 1..Len(batch) :
        Chain(batch)[i] = [t |-> "node", id |-> minted + i,
                           parent |-> IF i = 1 THEN head ELSE minted + i - 1,
                           kind |-> batch[i].kind, calls |-> batch[i].calls]
  <2>1. DOMAIN batch = 1..Len(batch)
    BY <1>1
  <2> QED
    BY <2>1, Zenon DEF Chain
<1>4. \A i \in 1..Len(batch) :
        /\ IsNode(Chain(batch)[i])
        /\ Chain(batch)[i].parent = IF i = 1 THEN head ELSE minted + i - 1
        /\ Chain(batch)[i].kind = batch[i].kind
        /\ Chain(batch)[i].calls = batch[i].calls
  <2>1. SUFFICES ASSUME NEW i \in 1..Len(batch)
                 PROVE  /\ IsNode(Chain(batch)[i])
                        /\ Chain(batch)[i].parent
                             = IF i = 1 THEN head ELSE minted + i - 1
                        /\ Chain(batch)[i].kind = batch[i].kind
                        /\ Chain(batch)[i].calls = batch[i].calls
    OBVIOUS
  <2>2. PICK up : up = IF i = 1 THEN head ELSE minted + i - 1
    OBVIOUS
  <2>3. Chain(batch)[i] = [t |-> "node", id |-> minted + i, parent |-> up,
                           kind |-> batch[i].kind, calls |-> batch[i].calls]
    BY <1>3, <2>2, Zenon
  <2> QED
    BY <2>2, <2>3 DEF IsNode
<1>5. \A i \in DOMAIN Chain(batch) : Chain(batch)[i] \in Node
  BY <1>2
<1>6. Chain(batch) \in Seq(Record)
  <2>1. Node \subseteq Record
    BY DEF Record
  <2> QED
    BY <1>2, <2>1
<1>7. /\ 1 \in 1..Len(batch)
      /\ \A i \in 1..Len(batch) : i > 1 => i \in 2..Len(batch)
  BY <1>1
<1>8. \A i \in 1..Len(batch) : i > 1 => Chain(batch)[i].kind = "result"
  BY <1>1, <1>4, <1>7
<1>9. IsTurn(Chain(batch)[1]) /\ Chain(batch)[1].calls = Len(batch) - 1
  BY <1>1, <1>4, <1>7 DEF IsTurn
<1>10. GroupOf(Chain(batch), Len(batch), minted, head)
  BY <1>1, <1>2, <1>4, <1>8, <1>9, Zenon DEF GroupOf
<1> QED
  BY <1>2, <1>6, <1>10

\* The log stays coherent with the group, and its groups whole.
LEMMA GrownIsCoherent ==
  ASSUME NEW recs \in Seq(Record), NEW new, NEW both \in Seq(Record),
         NEW n \in Nat, NEW m \in Nat, NEW base \in Nat, NEW top,
         GroupAdded(recs, new, both, n, m, base, top),
         Coherent(recs), WholeGroups(recs),
         \A i \in DOMAIN recs : IsNode(recs[i]) => recs[i].id <= base
  PROVE  /\ Coherent(both) /\ WholeGroups(both)
         /\ \A i \in DOMAIN both : IsNode(both[i]) => both[i].id <= base + m
<1>0. /\ n > 0 /\ m > 0 /\ Len(recs) = n /\ Len(both) = n + m
      /\ \A i \in 1..n : both[i] = recs[i]
      /\ \A i \in (n + 1)..(n + m) :
           /\ IsNode(both[i]) /\ both[i].id = base + (i - n)
           /\ i > n + 1 => both[i].kind = "result" /\ both[i].parent = both[i].id - 1
      /\ IsTurn(both[n + 1]) /\ both[n + 1].calls = m - 1 /\ both[n + 1].parent = top
  BY DEF GroupAdded
<1> USE <1>0
<1>1. DOMAIN recs = 1..n /\ DOMAIN both = 1..(n + m)
  OBVIOUS
<1>2. \A i \in 1..(n + m) : i \in 1..n \/ i \in (n + 1)..(n + m)
  OBVIOUS
<1>3. \A i \in 1..n : IsNode(recs[i]) =>
        recs[i].id \in Nat /\ recs[i].calls \in Nat /\ recs[i].id <= base
  <2>1. \A i \in 1..n : IsNode(recs[i]) => recs[i] \in Node
    BY <1>1, RecordsByType DEF IsNode
  <2>2. \A i \in 1..n : IsNode(recs[i]) => recs[i].id \in Nat /\ recs[i].calls \in Nat
    BY <2>1, BoundsAssumption DEF Node, Ids
  <2>3. \A i \in 1..n : IsNode(recs[i]) => recs[i].id <= base
    BY <1>1
  <2> QED
    BY <2>2, <2>3
<1>4. \A c \in 1..n : IsTurn(recs[c]) =>
        c + recs[c].calls <= n /\ recs[c].calls \in Nat /\ recs[c].id \in Nat
  BY <1>1, <1>3 DEF WholeGroups, IsTurn
<1>5. \A c \in (n + 1)..(n + m) : IsTurn(both[c]) => c = n + 1
  BY DEF IsTurn
<1>6. \A i \in DOMAIN both : both[i] = Header <=> i = 1
  <2>1. \A i \in (n + 1)..(n + m) : both[i] # Header
    BY DEF IsNode, Header
  <2>2. \A i \in 1..n : recs[i] = Header <=> i = 1
    BY <1>1 DEF Coherent
  <2>3. \A i \in (n + 1)..(n + m) : i # 1
    OBVIOUS
  <2> QED
    BY <1>1, <1>2, <2>1, <2>2, <2>3
<1>7. \A i, j \in DOMAIN both :
         IsNode(both[i]) /\ IsNode(both[j]) /\ i < j => both[i].id < both[j].id
  <2>1. \A i, j \in 1..n :
          IsNode(recs[i]) /\ IsNode(recs[j]) /\ i < j => recs[i].id < recs[j].id
    BY <1>1 DEF Coherent
  <2>2. \A i \in 1..n, j \in (n + 1)..(n + m) :
          IsNode(both[i]) => both[i].id < both[j].id
    BY <1>3
  <2>3. \A i, j \in (n + 1)..(n + m) : i < j => both[i].id < both[j].id
    OBVIOUS
  <2>4. \A i \in (n + 1)..(n + m), j \in 1..n : ~(i < j)
    OBVIOUS
  <2> QED
    BY <1>1, <1>2, <2>1, <2>2, <2>3, <2>4
<1>8. \A i \in DOMAIN both : both[i].t = "checkout" =>
         \/ both[i].to = Root
         \/ \E j \in 1..(i - 1) : IsNode(both[j]) /\ both[j].id = both[i].to
  <2>1. SUFFICES ASSUME NEW i \in 1..(n + m), both[i].t = "checkout", both[i].to # Root
                 PROVE  \E j \in 1..(i - 1) : IsNode(both[j]) /\ both[j].id = both[i].to
    BY <1>1
  <2>2. i \in 1..n
    BY <1>2, <2>1 DEF IsNode
  <2>3. PICK j \in 1..(i - 1) : IsNode(recs[j]) /\ recs[j].id = recs[i].to
    BY <1>1, <2>1, <2>2 DEF Coherent
  <2>4. both[j] = recs[j]
    BY <2>2
  <2> QED
    BY <2>2, <2>3, <2>4
<1>9. \A i \in DOMAIN both : IsNode(both[i]) => \E c \in 1..i : Follows(both, c, i)
  <2>1. SUFFICES ASSUME NEW i \in 1..(n + m), IsNode(both[i])
                 PROVE  \E c \in 1..i : Follows(both, c, i)
    BY <1>1
  <2>2. CASE i \in 1..n
    <3>1. PICK c \in 1..i : Follows(recs, c, i)
      BY <1>1, <2>1, <2>2 DEF Coherent
    <3>2. both[c] = recs[c] /\ c \in DOMAIN both
      BY <1>1, <2>2
    <3> QED
      BY <3>1, <3>2 DEF Follows
  <2>3. CASE i \in (n + 1)..(n + m)
    <3>1. n + 1 \in DOMAIN both /\ n + 1 \in 1..i /\ i \in (n + 1)..((n + 1) + (m - 1))
      BY <1>1, <2>3
    <3>2. Follows(both, n + 1, i)
      BY <3>1 DEF Follows
    <3> QED
      BY <3>1, <3>2
  <2> QED
    BY <1>1, <1>2, <2>2, <2>3
<1>10. \A c, i \in DOMAIN both : Follows(both, c, i) /\ c < i =>
         /\ IsNode(both[i]) /\ both[i].kind = "result"
         /\ both[i].id = both[c].id + (i - c) /\ both[i].parent = both[i].id - 1
  <2>1. SUFFICES ASSUME NEW c \in 1..(n + m), NEW i \in 1..(n + m),
                        Follows(both, c, i), c < i
                 PROVE  /\ IsNode(both[i]) /\ both[i].kind = "result"
                        /\ both[i].id = both[c].id + (i - c)
                        /\ both[i].parent = both[i].id - 1
    BY <1>1
  <2>2. IsTurn(both[c]) /\ i \in c..(c + both[c].calls)
    BY <2>1 DEF Follows
  <2>3. CASE c \in 1..n
    <3>1. i \in 1..n
      BY <1>4, <2>2, <2>3
    <3>2. Follows(recs, c, i)
      BY <1>1, <2>2, <2>3 DEF Follows
    <3>3. /\ IsNode(recs[i]) /\ recs[i].kind = "result"
          /\ recs[i].id = recs[c].id + (i - c) /\ recs[i].parent = recs[i].id - 1
      BY <1>1, <2>1, <2>3, <3>1, <3>2 DEF Coherent
    <3> QED
      BY <2>3, <3>1, <3>3
  <2>4. CASE c \in (n + 1)..(n + m)
    <3>1. c = n + 1 /\ i \in (n + 1)..(n + m) /\ i > n + 1
      BY <1>5, <2>1, <2>2, <2>4
    <3>2. both[c].id = base + 1
      BY <3>1
    <3>3. /\ IsNode(both[i]) /\ both[i].kind = "result"
          /\ both[i].id = base + (i - n) /\ both[i].parent = both[i].id - 1
      BY <3>1
    <3>4. base + (i - n) = (base + 1) + (i - c)
      BY <3>1
    <3> QED
      BY <3>2, <3>3, <3>4
  <2> QED
    BY <1>1, <1>2, <2>3, <2>4
<1>11. \A i \in DOMAIN both : IsTurn(both[i]) =>
         \/ both[i].parent = Root
         \/ \E c \in DOMAIN both :
              /\ IsTurn(both[c]) /\ c + both[c].calls < i
              /\ both[i].parent = both[c].id + both[c].calls
  <2>1. SUFFICES ASSUME NEW i \in 1..(n + m), IsTurn(both[i]), both[i].parent # Root
                 PROVE  \E c \in DOMAIN both :
                          /\ IsTurn(both[c]) /\ c + both[c].calls < i
                          /\ both[i].parent = both[c].id + both[c].calls
    BY <1>1
  <2>2. \A c \in 1..n : c \in DOMAIN both /\ both[c] = recs[c]
    BY <1>1
  <2>3. CASE i \in 1..n
    <3>1. PICK c \in DOMAIN recs :
             /\ IsTurn(recs[c]) /\ c + recs[c].calls < i
             /\ recs[i].parent = recs[c].id + recs[c].calls
      <4>1. IsTurn(recs[i]) /\ recs[i].parent # Root /\ i \in DOMAIN recs
        BY <1>1, <2>1, <2>3
      <4> QED
        BY <4>1, Zenon DEF Coherent
    <3>2. /\ both[i] = recs[i] /\ both[c] = recs[c] /\ c \in DOMAIN both
      BY <1>1, <2>2, <2>3, <3>1
    <3>3. /\ IsTurn(both[c]) /\ c + both[c].calls < i
          /\ both[i].parent = both[c].id + both[c].calls
      BY <3>1, <3>2
    <3> QED
      BY <3>2, <3>3
  <2>4. CASE i \in (n + 1)..(n + m)
    <3>1. i = n + 1 /\ both[i].parent = top
      BY <1>5, <2>1, <2>4
    <3>2. PICK c \in 1..n : /\ IsTurn(recs[c]) /\ c + recs[c].calls <= n
                            /\ top = recs[c].id + recs[c].calls
      <4>1. GroupEnd(recs, top)
        BY DEF GroupAdded
      <4> QED
        BY <1>1, <2>1, <3>1, <4>1 DEF GroupEnd
    <3>3. c + recs[c].calls < i
      BY <1>4, <3>1, <3>2
    <3> QED
      BY <2>2, <3>1, <3>2, <3>3
  <2> QED
    BY <1>1, <1>2, <2>3, <2>4
<1>12. Coherent(both)
  BY <1>1, <1>6, <1>7, <1>8, <1>9, <1>10, <1>11 DEF Coherent
<1>13. \A c \in 1..(n + m) : IsTurn(both[c]) => c + both[c].calls <= n + m
  <2>1. \A c \in 1..n : IsTurn(both[c]) => c + both[c].calls <= n + m
    BY <1>4
  <2>2. \A c \in (n + 1)..(n + m) : IsTurn(both[c]) => c + both[c].calls <= n + m
    BY <1>5
  <2> QED
    BY <1>2, <2>1, <2>2
<1>14. \A i \in 1..(n + m) : IsNode(both[i]) => both[i].id <= base + m
  <2>1. ASSUME NEW i \in 1..n, IsNode(both[i])
        PROVE  both[i].id <= base + m
    <3>1. both[i] = recs[i] /\ recs[i].id \in Nat /\ recs[i].id <= base
      BY <1>3, <2>1
    <3> QED
      BY <3>1
  <2>2. \A i \in (n + 1)..(n + m) : both[i].id <= base + m
    OBVIOUS
  <2> QED
    BY <1>2, <2>1, <2>2
<1> QED
  BY <1>1, <1>12, <1>13, <1>14 DEF WholeGroups

\* The log `recs` is how the log `both` begins.
Begins(recs, both) ==
  DOMAIN recs \subseteq DOMAIN both /\ \A i \in DOMAIN recs : both[i] = recs[i]

\* What the parser found it finds again in a longer log.
LEMMA NodesKept ==
  ASSUME NEW recs \in Seq(Record), NEW both \in Seq(Record), Begins(recs, both),
         Coherent(recs), Coherent(both), NEW id \in DOMAIN NodesOf(recs)
  PROVE  id \in DOMAIN NodesOf(both) /\ NodesOf(both)[id] = NodesOf(recs)[id]
<1>1. PICK i \in DOMAIN recs : IsNode(recs[i]) /\ recs[i].id = id
  BY NodeOfRecord
<1>2. i \in DOMAIN both /\ both[i] = recs[i]
  BY DEF Begins
<1>3. NodesOf(recs)[id] = recs[i]
  BY <1>1, NodeUnderItsId
<1>4. id \in DOMAIN NodesOf(both) /\ NodesOf(both)[id] = both[i]
  BY <1>1, <1>2, NodeUnderItsId
<1> QED
  BY <1>2, <1>3, <1>4

\* Whether a node is outside of the roundtrips does not change as the log grows.
LEMMA ClosedKept ==
  ASSUME NEW recs \in Seq(Record), NEW both \in Seq(Record), Begins(recs, both),
         Coherent(recs), Coherent(both), NEW id \in DOMAIN NodesOf(recs) \cup {Root}
  PROVE  TailIsClosed(NodesOf(both), id) <=> TailIsClosed(NodesOf(recs), id)
<1>1. CASE id = Root
  BY <1>1 DEF TailIsClosed
<1>2. CASE id # Root
  <2>1. PICK i \in DOMAIN recs : IsNode(recs[i]) /\ recs[i].id = id
    BY <1>2, NodeOfRecord
  <2>2. PICK c \in 1..i : Follows(recs, c, i)
    BY <2>1 DEF Coherent
  <2>3. /\ i \in DOMAIN both /\ both[i] = recs[i]
        /\ c \in DOMAIN both /\ both[c] = recs[c]
    BY <2>2 DEF Begins, Follows
  <2>4. Follows(both, c, i)
    BY <2>2, <2>3 DEF Follows
  <2>5. TailIsClosed(NodesOf(recs), id) <=> i = c + recs[c].calls
    BY <2>1, <2>2, ClosedRecord
  <2>6. TailIsClosed(NodesOf(both), id) <=> i = c + both[c].calls
    BY <2>1, <2>3, <2>4, ClosedRecord
  <2> QED
    BY <2>3, <2>5, <2>6, Zenon
<1> QED
  BY <1>1, <1>2

\* Nodes added to the log are added to the tree.
LEMMA NodesGrow ==
  ASSUME NEW recs \in Seq(Record), NEW new \in Seq(Record), NEW both \in Seq(Record),
         Begins(recs, both), Coherent(recs), Coherent(both),
         Len(both) = Len(recs) + Len(new),
         \A j \in 1..Len(new) : both[Len(recs) + j] = new[j] /\ IsNode(new[j])
  PROVE  NodesOf(both) = Grow(NodesOf(recs), new)
<1> DEFINE old == DOMAIN NodesOf(recs)
           ids == {new[j].id : j \in DOMAIN new}
           found(id) == CHOOSE j \in DOMAIN new : new[j].id = id
<1>1. Grow(NodesOf(recs), new) =
        [id \in old \cup ids |-> IF id \in old THEN NodesOf(recs)[id] ELSE new[found(id)]]
  BY Zenon DEF Grow
<1>2. \A id \in old : id \in DOMAIN NodesOf(both) /\ NodesOf(both)[id] = NodesOf(recs)[id]
  BY NodesKept
<1>3. ASSUME NEW id \in ids
      PROVE  id \in DOMAIN NodesOf(both) /\ NodesOf(both)[id] = new[found(id)]
  <2>1. \E j \in DOMAIN new : new[j].id = id
    OBVIOUS
  <2>2. found(id) \in DOMAIN new /\ new[found(id)].id = id
    BY <2>1, Zenon
  <2>3. PICK j \in DOMAIN new : j = found(id) /\ new[j].id = id
    BY <2>2
  <2>4. PICK i : i = Len(recs) + j
    OBVIOUS
  <2>5. i \in DOMAIN both /\ both[i] = new[j] /\ IsNode(both[i]) /\ both[i].id = id
    BY <2>3, <2>4
  <2>6. id \in DOMAIN NodesOf(both) /\ NodesOf(both)[id] = both[i]
    BY <2>5, NodeUnderItsId
  <2> QED
    BY <2>3, <2>5, <2>6
<1>4. ASSUME NEW id \in DOMAIN NodesOf(both)
      PROVE  id \in old \cup ids
  <2>1. PICK i \in DOMAIN both : IsNode(both[i]) /\ both[i].id = id
    BY NodeOfRecord
  <2>2. CASE i \in DOMAIN recs
    BY <2>1, <2>2, NodeUnderItsId DEF Begins
  <2>3. CASE i \notin DOMAIN recs
    <3>1. PICK j \in 1..Len(new) : i = Len(recs) + j
      <4>1. i - Len(recs) \in 1..Len(new) /\ i = Len(recs) + (i - Len(recs))
        BY <2>3
      <4> QED
        BY <4>1
    <3>2. both[i] = new[j] /\ j \in DOMAIN new
      BY <3>1
    <3> QED
      BY <2>1, <3>2
  <2> QED
    BY <2>2, <2>3
<1>5. DOMAIN NodesOf(both) = old \cup ids
  BY <1>2, <1>3, <1>4
<1>6. NodesOf(both) = [id \in DOMAIN NodesOf(both) |-> NodesOf(both)[id]]
  BY NodesOfFunction
<1> HIDE DEF old, ids, found
<1>7. NodesOf(both) = [id \in old \cup ids |-> NodesOf(both)[id]]
  BY <1>5, <1>6
<1> QED
  BY <1>1, <1>2, <1>3, <1>7

\* Records that are no nodes leave the tree as it was.
LEMMA NodesSame ==
  ASSUME NEW recs \in Seq(Record), NEW both \in Seq(Record),
         Begins(recs, both), Coherent(recs), Coherent(both),
         \A i \in DOMAIN both : IsNode(both[i]) => i \in DOMAIN recs
  PROVE  NodesOf(both) = NodesOf(recs)
<1>1. \A id \in DOMAIN NodesOf(recs) :
        id \in DOMAIN NodesOf(both) /\ NodesOf(both)[id] = NodesOf(recs)[id]
  BY NodesKept
<1>2. ASSUME NEW id \in DOMAIN NodesOf(both)
      PROVE  id \in DOMAIN NodesOf(recs)
  <2>1. PICK i \in DOMAIN both : IsNode(both[i]) /\ both[i].id = id
    BY NodeOfRecord
  <2>2. i \in DOMAIN recs /\ recs[i] = both[i]
    BY <2>1 DEF Begins
  <2> QED
    BY <2>1, <2>2, NodeUnderItsId
<1>3. DOMAIN NodesOf(both) = DOMAIN NodesOf(recs)
  BY <1>1, <1>2
<1>4. /\ NodesOf(both) = [id \in DOMAIN NodesOf(both) |-> NodesOf(both)[id]]
      /\ NodesOf(recs) = [id \in DOMAIN NodesOf(recs) |-> NodesOf(recs)[id]]
  BY NodesOfFunction
<1> QED
  BY <1>1, <1>3, <1>4

-----------------------------------------------------------------------------
(* Heads and registers                                                     *)

\* A last record that moves the head says where it is.
LEMMA HeadOfLast ==
  ASSUME NEW recs \in Seq(Record), NEW n \in DOMAIN recs, n = Len(recs), Moves(recs[n])
  PROVE  HeadOf(recs) = MovesTo(recs[n])
<1> DEFINE moves == {i \in DOMAIN recs : Moves(recs[i])}
<1>1. n \in moves /\ n \in Nat /\ moves \in SUBSET (0..n)
  OBVIOUS
<1>2. HeadOf(recs) = IF moves = {} THEN Root ELSE MovesTo(recs[Max(moves)])
  BY Zenon DEF HeadOf
<1> HIDE DEF moves
<1>3. Max(moves) \in moves /\ \A y \in moves : y <= Max(moves)
  BY <1>1, MaxProperties, Zenon
<1>4. Max(moves) = n
  BY <1>1, <1>3
<1> QED
  BY <1>1, <1>2, <1>4

\* Records that do not move the head leave it where it was.
LEMMA HeadOfQuiet ==
  ASSUME NEW recs \in Seq(Record), NEW both \in Seq(Record), Begins(recs, both),
         \A i \in DOMAIN both : Moves(both[i]) => i \in DOMAIN recs
  PROVE  HeadOf(both) = HeadOf(recs)
<1> DEFINE moves(r) == {i \in DOMAIN r : Moves(r[i])}
<1>1. moves(both) = moves(recs)
  BY DEF Begins
<1>2. /\ HeadOf(recs) = IF moves(recs) = {} THEN Root ELSE MovesTo(recs[Max(moves(recs))])
      /\ HeadOf(both) = IF moves(both) = {} THEN Root ELSE MovesTo(both[Max(moves(both))])
  BY Zenon DEF HeadOf
<1>3. moves(recs) \in SUBSET (0..Len(recs)) /\ Len(recs) \in Nat
  OBVIOUS
<1>4. moves(recs) \subseteq DOMAIN recs
  OBVIOUS
<1> HIDE DEF moves
<1>5. moves(recs) # {} => Max(moves(recs)) \in moves(recs)
  BY <1>3, MaxProperties, Zenon
<1>6. moves(recs) # {} => both[Max(moves(recs))] = recs[Max(moves(recs))]
  BY <1>4, <1>5 DEF Begins
<1> QED
  BY <1>1, <1>2, <1>6

\* A last model change is the register.
LEMMA RegisterOfLast ==
  ASSUME NEW recs \in Seq(Record), NEW n \in DOMAIN recs, n = Len(recs),
         recs[n].t = "model"
  PROVE  RegisterOf(recs) = recs[n].model
<1> DEFINE changes == {i \in DOMAIN recs : recs[i].t = "model"}
<1>1. n \in changes /\ n \in Nat /\ changes \in SUBSET (0..n)
  OBVIOUS
<1>2. RegisterOf(recs) = IF changes = {} THEN NoModel ELSE recs[Max(changes)].model
  BY Zenon DEF RegisterOf
<1> HIDE DEF changes
<1>3. Max(changes) \in changes /\ \A y \in changes : y <= Max(changes)
  BY <1>1, MaxProperties, Zenon
<1>4. Max(changes) = n
  BY <1>1, <1>3
<1> QED
  BY <1>1, <1>2, <1>4

\* Other records leave the register alone.
LEMMA RegisterOfQuiet ==
  ASSUME NEW recs \in Seq(Record), NEW both \in Seq(Record), Begins(recs, both),
         \A i \in DOMAIN both : both[i].t = "model" => i \in DOMAIN recs
  PROVE  RegisterOf(both) = RegisterOf(recs)
<1> DEFINE changes(r) == {i \in DOMAIN r : r[i].t = "model"}
<1>1. changes(both) = changes(recs)
  BY DEF Begins
<1>2. /\ RegisterOf(recs) = IF changes(recs) = {} THEN NoModel
                            ELSE recs[Max(changes(recs))].model
      /\ RegisterOf(both) = IF changes(both) = {} THEN NoModel
                            ELSE both[Max(changes(both))].model
  BY Zenon DEF RegisterOf
<1>3. changes(recs) \in SUBSET (0..Len(recs)) /\ Len(recs) \in Nat
  OBVIOUS
<1>4. changes(recs) \subseteq DOMAIN recs
  OBVIOUS
<1> HIDE DEF changes
<1>5. changes(recs) # {} => Max(changes(recs)) \in changes(recs)
  BY <1>3, MaxProperties, Zenon
<1>6. changes(recs) # {} => both[Max(changes(recs))] = recs[Max(changes(recs))]
  BY <1>4, <1>5 DEF Begins
<1> QED
  BY <1>1, <1>2, <1>6

-----------------------------------------------------------------------------
(* Logs a parser accepts                                                   *)

\* Every node hangs off the head of its time: only then do the record of a
\* checkout and the place where it landed agree.
Hangs(recs) ==
  \A i \in DOMAIN recs : IsNode(recs[i]) => recs[i].parent = HeadOf(SubSeq(recs, 1, i - 1))

\* A first part of a sequence.
LEMMA CutSeq ==
  ASSUME NEW recs \in Seq(Record), NEW k \in 0..Len(recs), NEW part, part = SubSeq(recs, 1, k)
  PROVE  /\ part \in Seq(Record) /\ Len(part) = k /\ DOMAIN part = 1..k
         /\ \A i \in 1..k : i \in DOMAIN recs /\ part[i] = recs[i]
  OBVIOUS

\* The links of a coherent log are what the parser checks, up to the heads.
LEMMA Linked ==
  ASSUME NEW recs \in Seq(Record), Coherent(recs), recs # <<>>
  PROVE  WellLinked(recs) <=> Hangs(recs)
<1>1. recs[1] = Header /\ \A i \in 2..Len(recs) : recs[i] # Header
  BY DEF Coherent
<1>2. ASSUME NEW i \in 2..Len(recs), NEW before, before = SubSeq(recs, 1, i - 1)
      PROVE  /\ recs[i].t = "node" => recs[i].id \notin DOMAIN NodesOf(before)
             /\ recs[i].t = "checkout" => recs[i].to \in DOMAIN NodesOf(before) \cup {Root}
  <2>1. /\ before \in Seq(Record) /\ DOMAIN before = 1..(i - 1) /\ i \in DOMAIN recs
        /\ \A j \in 1..(i - 1) : j \in DOMAIN recs /\ before[j] = recs[j]
    BY <1>2, CutSeq
  <2>2. ASSUME recs[i].t = "node", recs[i].id \in DOMAIN NodesOf(before)
        PROVE  FALSE
    <3>1. PICK j \in 1..(i - 1) : IsNode(before[j]) /\ before[j].id = recs[i].id
      BY <2>1, <2>2, NodeOfRecord
    <3>2. j \in DOMAIN recs /\ IsNode(recs[j]) /\ IsNode(recs[i]) /\ j < i /\ recs[j].id = recs[i].id
      BY <2>1, <2>2, <3>1 DEF IsNode
    <3>3. recs[j].id < recs[i].id
      BY <2>1, <3>2 DEF Coherent
    <3>4. recs[i].id \in Nat
      BY <2>1, <2>2, RecordsByType DEF Node, Ids
    <3> QED
      BY <3>2, <3>3, <3>4
  <2>3. ASSUME recs[i].t = "checkout", recs[i].to # Root
        PROVE  recs[i].to \in DOMAIN NodesOf(before)
    <3>1. PICK j \in 1..(i - 1) : IsNode(recs[j]) /\ recs[j].id = recs[i].to
      BY <2>1, <2>3 DEF Coherent
    <3>2. j \in DOMAIN before /\ before[j].t = "node" /\ before[j].id = recs[i].to
      BY <2>1, <3>1 DEF IsNode
    <3> QED
      BY <2>1, <3>2, NodesOfType
  <2> QED
    BY <2>2, <2>3
<1>3. WellLinked(recs) <=>
        \A i \in 2..Len(recs) :
          recs[i].t = "node" => recs[i].parent = HeadOf(SubSeq(recs, 1, i - 1))
  BY <1>1, <1>2 DEF WellLinked
<1>4. Hangs(recs) <=>
        \A i \in 2..Len(recs) :
          recs[i].t = "node" => recs[i].parent = HeadOf(SubSeq(recs, 1, i - 1))
  <2>1. recs[1].t # "node"
    BY <1>1 DEF Header
  <2>2. \A i \in DOMAIN recs : i = 1 \/ i \in 2..Len(recs)
    OBVIOUS
  <2>3. \A i \in 2..Len(recs) : i \in DOMAIN recs
    OBVIOUS
  <2> QED
    BY <2>1, <2>2, <2>3, Zenon DEF Hangs, IsNode
<1> QED
  BY <1>3, <1>4, Zenon

\* A coherent log that ends outside of the roundtrips has no group cut short.
LEMMA WholeWhenClosed ==
  ASSUME NEW recs \in Seq(Record), Coherent(recs),
         TailIsClosed(NodesOf(recs), HeadOf(recs))
  PROVE  WholeGroups(recs)
<1> SUFFICES ASSUME NEW c \in DOMAIN recs, IsTurn(recs[c]), c + recs[c].calls > Len(recs)
             PROVE  FALSE
  <2>1. \A c \in DOMAIN recs : IsTurn(recs[c]) => recs[c].calls \in Nat
    <3>1. \A c \in DOMAIN recs : IsTurn(recs[c]) => recs[c] \in Node
      BY RecordsByType DEF IsTurn, IsNode
    <3> QED
      BY <3>1, BoundsAssumption DEF Node
  <2> QED
    BY <2>1 DEF WholeGroups
<1>1. PICK n \in DOMAIN recs : n = Len(recs)
  OBVIOUS
<1>2. recs[c].calls \in Nat
  <2>1. recs[c] \in Node
    BY RecordsByType DEF IsTurn, IsNode
  <2> QED
    BY <2>1, BoundsAssumption DEF Node
<1>3. Follows(recs, c, n)
  BY <1>1, <1>2 DEF Follows
<1>4. IsNode(recs[n])
  BY <1>1, <1>3 DEF Coherent, IsTurn
<1>5. HeadOf(recs) = recs[n].id
  BY <1>1, <1>4, HeadOfLast DEF Moves, MovesTo, IsNode
<1>6. n = c + recs[c].calls
  BY <1>3, <1>5, ClosedRecord
<1> QED
  BY <1>1, <1>2, <1>6

\* One more record that is no node keeps a log coherent and its groups whole.
LEMMA RemarkIsCoherent ==
  ASSUME NEW recs \in Seq(Record), NEW both \in Seq(Record), NEW n \in Nat,
         Len(recs) = n, n > 0, Len(both) = n + 1, \A i \in 1..n : both[i] = recs[i],
         ~IsNode(both[n + 1]), both[n + 1] # Header,
         both[n + 1].t = "checkout" => both[n + 1].to \in DOMAIN NodesOf(recs) \cup {Root},
         Coherent(recs), WholeGroups(recs)
  PROVE  /\ Coherent(both) /\ WholeGroups(both) /\ Begins(recs, both)
         /\ NodesOf(both) = NodesOf(recs)
<1>1. /\ DOMAIN recs = 1..n /\ DOMAIN both = 1..(n + 1)
      /\ \A i \in 1..(n + 1) : i \in 1..n \/ i = n + 1
  OBVIOUS
<1>2. Begins(recs, both)
  BY <1>1 DEF Begins
<1>3. \A c \in 1..n : IsTurn(recs[c]) => c + recs[c].calls <= n /\ recs[c].calls \in Nat
  <2>1. \A c \in 1..n : IsTurn(recs[c]) => recs[c] \in Node
    BY <1>1, RecordsByType DEF IsTurn, IsNode
  <2> QED
    BY <1>1, <2>1, BoundsAssumption DEF Node, WholeGroups
<1>4. \A i \in DOMAIN both : both[i] = Header <=> i = 1
  <2>1. \A i \in 1..n : recs[i] = Header <=> i = 1
    BY <1>1 DEF Coherent
  <2> QED
    BY <1>1, <2>1
<1>5. \A i, j \in DOMAIN both :
         IsNode(both[i]) /\ IsNode(both[j]) /\ i < j => both[i].id < both[j].id
  <2>1. \A i, j \in 1..n :
          IsNode(recs[i]) /\ IsNode(recs[j]) /\ i < j => recs[i].id < recs[j].id
    BY <1>1 DEF Coherent
  <2> QED
    BY <1>1, <2>1
<1>6. \A i \in DOMAIN both : both[i].t = "checkout" =>
         \/ both[i].to = Root
         \/ \E j \in 1..(i - 1) : IsNode(both[j]) /\ both[j].id = both[i].to
  <2>1. SUFFICES ASSUME NEW i \in DOMAIN both, both[i].t = "checkout", both[i].to # Root
                 PROVE  \E j \in 1..(i - 1) : IsNode(both[j]) /\ both[j].id = both[i].to
    OBVIOUS
  <2>2. CASE i \in 1..n
    <3>1. i \in DOMAIN recs /\ recs[i] = both[i]
      BY <1>1, <2>2
    <3>2. PICK j \in 1..(i - 1) : IsNode(recs[j]) /\ recs[j].id = recs[i].to
      BY <2>1, <3>1, Zenon DEF Coherent
    <3>3. both[j] = recs[j]
      BY <2>2, <3>2
    <3> QED
      BY <3>1, <3>2, <3>3
  <2>3. CASE i = n + 1
    <3>1. both[i].to \in DOMAIN NodesOf(recs)
      BY <2>1, <2>3
    <3>2. PICK j \in 1..n : IsNode(recs[j]) /\ recs[j].id = both[i].to
      BY <1>1, <3>1, NodeOfRecord
    <3>3. both[j] = recs[j] /\ j \in 1..(i - 1)
      BY <2>3, <3>2
    <3> QED
      BY <3>2, <3>3
  <2> QED
    BY <1>1, <2>2, <2>3
<1>7. \A i \in DOMAIN both : IsNode(both[i]) => \E c \in 1..i : Follows(both, c, i)
  <2>1. SUFFICES ASSUME NEW i \in 1..n, IsNode(both[i])
                 PROVE  \E c \in 1..i : Follows(both, c, i)
    BY <1>1
  <2>2. PICK c \in 1..i : Follows(recs, c, i)
    BY <1>1, <2>1 DEF Coherent
  <2>3. both[c] = recs[c] /\ c \in DOMAIN both
    BY <1>1
  <2> QED
    BY <2>2, <2>3 DEF Follows
<1>8. \A c, i \in DOMAIN both : Follows(both, c, i) /\ c < i =>
         /\ IsNode(both[i]) /\ both[i].kind = "result"
         /\ both[i].id = both[c].id + (i - c) /\ both[i].parent = both[i].id - 1
  <2>1. SUFFICES ASSUME NEW c \in 1..(n + 1), NEW i \in 1..(n + 1),
                        Follows(both, c, i), c < i
                 PROVE  /\ IsNode(both[i]) /\ both[i].kind = "result"
                        /\ both[i].id = both[c].id + (i - c)
                        /\ both[i].parent = both[i].id - 1
    BY <1>1
  <2>2. IsTurn(both[c]) /\ i \in c..(c + both[c].calls) /\ c \in 1..n
    BY <2>1 DEF Follows
  <2>3. i \in 1..n
    BY <1>3, <2>2
  <2>4. Follows(recs, c, i)
    BY <1>1, <2>2 DEF Follows
  <2>5. /\ IsNode(recs[i]) /\ recs[i].kind = "result"
        /\ recs[i].id = recs[c].id + (i - c) /\ recs[i].parent = recs[i].id - 1
    BY <1>1, <2>1, <2>2, <2>3, <2>4 DEF Coherent
  <2> QED
    BY <2>2, <2>3, <2>5
<1>9. \A i \in DOMAIN both : IsTurn(both[i]) =>
         \/ both[i].parent = Root
         \/ \E c \in DOMAIN both :
              /\ IsTurn(both[c]) /\ c + both[c].calls < i
              /\ both[i].parent = both[c].id + both[c].calls
  <2>1. SUFFICES ASSUME NEW i \in 1..n, IsTurn(both[i]), both[i].parent # Root
                 PROVE  \E c \in DOMAIN both :
                          /\ IsTurn(both[c]) /\ c + both[c].calls < i
                          /\ both[i].parent = both[c].id + both[c].calls
    BY <1>1 DEF IsTurn
  <2>2. i \in DOMAIN recs /\ IsTurn(recs[i]) /\ recs[i].parent # Root /\ both[i] = recs[i]
    BY <1>1, <2>1
  <2>3. PICK c \in DOMAIN recs : /\ IsTurn(recs[c]) /\ c + recs[c].calls < i
                                 /\ recs[i].parent = recs[c].id + recs[c].calls
    BY <2>2, Zenon DEF Coherent
  <2>4. c \in DOMAIN both /\ both[c] = recs[c]
    BY <1>1
  <2>5. /\ IsTurn(both[c]) /\ c + both[c].calls < i
        /\ both[i].parent = both[c].id + both[c].calls
    BY <2>2, <2>3, <2>4
  <2> QED
    BY <2>4, <2>5
<1>10. Coherent(both)
  BY <1>4, <1>5, <1>6, <1>7, <1>8, <1>9 DEF Coherent
<1>11. WholeGroups(both)
  <2>1. \A c \in 1..(n + 1) : IsTurn(both[c]) => c + both[c].calls <= n + 1
    BY <1>1, <1>3 DEF IsTurn
  <2> QED
    BY <1>1, <2>1 DEF WholeGroups
<1>12. \A i \in DOMAIN both : IsNode(both[i]) => i \in DOMAIN recs
  BY <1>1
<1> QED
  BY <1>2, <1>10, <1>11, <1>12, NodesSame

\* Two sequences that begin alike have the same first parts.
LEMMA SameCut ==
  ASSUME NEW recs \in Seq(Record), NEW both \in Seq(Record), Begins(recs, both),
         NEW k \in 0..Len(recs)
  PROVE  SubSeq(both, 1, k) = SubSeq(recs, 1, k)
<1>1. k \in 0..Len(both)
  BY DEF Begins
<1>2. PICK x, y : x = SubSeq(recs, 1, k) /\ y = SubSeq(both, 1, k)
  OBVIOUS
<1>3. /\ x \in Seq(Record) /\ Len(x) = k /\ \A i \in 1..k : i \in DOMAIN recs /\ x[i] = recs[i]
  BY <1>2, CutSeq
<1>4. /\ y \in Seq(Record) /\ Len(y) = k /\ \A i \in 1..k : i \in DOMAIN both /\ y[i] = both[i]
  BY <1>1, <1>2, CutSeq
<1>5. \A i \in 1..k : x[i] = y[i]
  BY <1>3, <1>4 DEF Begins
<1>6. x = y
  BY <1>3, <1>4, <1>5
<1> QED
  BY <1>2, <1>6

\* All of a sequence is a first part of it.
LEMMA WholeCut ==
  ASSUME NEW recs \in Seq(Record)
  PROVE  SubSeq(recs, 1, Len(recs)) = recs
  OBVIOUS

\* What one more record that is no node changes: the head or the register.
LEMMA RemarkedLog ==
  ASSUME NEW recs \in Seq(Record), Coherent(recs), WholeGroups(recs),
         NEW rec \in Record, ~IsNode(rec), rec # Header,
         rec.t = "checkout" => rec.to \in DOMAIN NodesOf(recs) \cup {Root},
         NEW both \in Seq(Record), NEW n \in Nat,
         Len(recs) = n, n > 0, Len(both) = n + 1, both[n + 1] = rec,
         \A i \in 1..n : both[i] = recs[i]
  PROVE  /\ both # <<>> /\ Begins(recs, both)
         /\ Coherent(both) /\ WholeGroups(both) /\ NodesOf(both) = NodesOf(recs)
         /\ \A i \in DOMAIN both : IsNode(both[i]) => i \in DOMAIN recs
         /\ Hangs(recs) => Hangs(both)
         /\ rec.t = "checkout" => HeadOf(both) = rec.to
         /\ rec.t = "model" => HeadOf(both) = HeadOf(recs) /\ RegisterOf(both) = rec.model
         /\ rec.t # "model" => RegisterOf(both) = RegisterOf(recs)
<1>2. DOMAIN recs = 1..n /\ DOMAIN both = 1..(n + 1)
  OBVIOUS
<1>3. /\ Coherent(both) /\ WholeGroups(both) /\ Begins(recs, both)
      /\ NodesOf(both) = NodesOf(recs)
  BY RemarkIsCoherent
<1>4. \A i \in DOMAIN both : i # n + 1 => i \in DOMAIN recs
  BY <1>2
<1>5. \A i \in DOMAIN both : IsNode(both[i]) => i \in DOMAIN recs
  BY <1>2, <1>4
<1>6. ASSUME Hangs(recs), NEW i \in DOMAIN both, IsNode(both[i])
      PROVE  both[i].parent = HeadOf(SubSeq(both, 1, i - 1))
  <2>1. i \in DOMAIN recs /\ both[i] = recs[i] /\ i - 1 \in 0..Len(recs)
    BY <1>2, <1>5, <1>6
  <2>2. SubSeq(both, 1, i - 1) = SubSeq(recs, 1, i - 1)
    BY <1>2, <1>3, <2>1, SameCut
  <2> QED
    BY <1>6, <2>1, <2>2 DEF Hangs
<1>7. Hangs(recs) => Hangs(both)
  BY <1>6 DEF Hangs
<1>8. n + 1 \in DOMAIN both /\ n + 1 = Len(both) /\ both # <<>>
  BY <1>2
<1>9. ASSUME rec.t = "checkout"
      PROVE  HeadOf(both) = rec.to
  BY <1>2, <1>8, <1>9, HeadOfLast DEF Moves, MovesTo
<1>10. ASSUME rec.t = "model"
       PROVE  HeadOf(both) = HeadOf(recs) /\ RegisterOf(both) = rec.model
  <2>1. \A i \in DOMAIN both : Moves(both[i]) => i \in DOMAIN recs
    BY <1>2, <1>4, <1>10 DEF Moves
  <2>2. HeadOf(both) = HeadOf(recs)
    BY <1>2, <1>3, <2>1, HeadOfQuiet
  <2> QED
    BY <1>2, <1>8, <1>10, <2>2, RegisterOfLast
<1>11. ASSUME rec.t # "model"
       PROVE  RegisterOf(both) = RegisterOf(recs)
  <2>1. \A i \in DOMAIN both : both[i].t = "model" => i \in DOMAIN recs
    BY <1>2, <1>4, <1>11
  <2> QED
    BY <1>2, <1>3, <2>1, RegisterOfQuiet
<1> QED
  BY <1>2, <1>3, <1>5, <1>7, <1>8, <1>9, <1>10, <1>11

\* A log with one more record that is no node.
LEMMA QuietLog ==
  ASSUME NEW recs \in Seq(Record), recs # <<>>, Coherent(recs), WholeGroups(recs),
         NEW rec \in Record, ~IsNode(rec), rec # Header,
         rec.t = "checkout" => rec.to \in DOMAIN NodesOf(recs) \cup {Root},
         NEW both, both = recs \o <<rec>>
  PROVE  /\ both \in Seq(Record) /\ both # <<>> /\ Begins(recs, both)
         /\ Coherent(both) /\ WholeGroups(both) /\ NodesOf(both) = NodesOf(recs)
         /\ \A i \in DOMAIN both : IsNode(both[i]) => i \in DOMAIN recs
         /\ Hangs(recs) => Hangs(both)
         /\ rec.t = "checkout" => HeadOf(both) = rec.to
         /\ rec.t = "model" => HeadOf(both) = HeadOf(recs) /\ RegisterOf(both) = rec.model
         /\ rec.t # "model" => RegisterOf(both) = RegisterOf(recs)
<1>1. PICK n \in Nat : n = Len(recs) /\ n > 0
  OBVIOUS
<1>2. PICK all \in Seq(Record) : all = recs \o <<rec>>
  OBVIOUS
<1>3. /\ Len(all) = n + 1 /\ all[n + 1] = rec
      /\ \A i \in 1..n : all[i] = recs[i]
  BY <1>1, <1>2
<1>4. /\ all # <<>> /\ Begins(recs, all)
      /\ Coherent(all) /\ WholeGroups(all) /\ NodesOf(all) = NodesOf(recs)
      /\ \A i \in DOMAIN all : IsNode(all[i]) => i \in DOMAIN recs
      /\ Hangs(recs) => Hangs(all)
      /\ rec.t = "checkout" => HeadOf(all) = rec.to
      /\ rec.t = "model" => HeadOf(all) = HeadOf(recs) /\ RegisterOf(all) = rec.model
      /\ rec.t # "model" => RegisterOf(all) = RegisterOf(recs)
  BY <1>1, <1>3, RemarkedLog
<1>5. all = both
  BY <1>2
<1> QED
  BY <1>4, <1>5, Zenon

\* What a group adds to what the parser finds.
LEMMA GrownLog ==
  ASSUME NEW recs \in Seq(Record), NEW new \in Seq(Record), NEW both \in Seq(Record),
         NEW n \in Nat, NEW m \in Nat, NEW base \in Nat, NEW top,
         GroupAdded(recs, new, both, n, m, base, top),
         Coherent(recs), WholeGroups(recs),
         \A i \in DOMAIN recs : IsNode(recs[i]) => recs[i].id <= base
  PROVE  /\ both # <<>> /\ Begins(recs, both)
         /\ Coherent(both) /\ WholeGroups(both)
         /\ NodesOf(both) = Grow(NodesOf(recs), new)
         /\ \A i \in DOMAIN both : IsNode(both[i]) => both[i].id <= base + m
         /\ TailIsClosed(NodesOf(both), base + m)
         /\ HeadOf(both) = base + m
         /\ RegisterOf(both) = RegisterOf(recs)
         /\ Hangs(recs) /\ top = HeadOf(recs) => Hangs(both)
<1>11. /\ Coherent(both) /\ WholeGroups(both)
       /\ \A i \in DOMAIN both : IsNode(both[i]) => both[i].id <= base + m
  BY GrownIsCoherent
<1>0. /\ n > 0 /\ m > 0 /\ Len(recs) = n /\ Len(new) = m /\ Len(both) = n + m
      /\ \A i \in 1..n : both[i] = recs[i]
      /\ \A j \in 1..m : both[n + j] = new[j]
      /\ \A i \in (n + 1)..(n + m) :
           /\ IsNode(both[i]) /\ both[i].id = base + (i - n)
           /\ i > n + 1 => both[i].kind = "result" /\ both[i].parent = both[i].id - 1
      /\ IsTurn(both[n + 1]) /\ both[n + 1].calls = m - 1 /\ both[n + 1].parent = top
  BY DEF GroupAdded
<1> USE <1>0
<1>5. \A j \in 1..m : IsNode(new[j])
  <2>1. \A j \in 1..m : n + j \in (n + 1)..(n + m)
    OBVIOUS
  <2> QED
    BY <2>1
<1>6. DOMAIN recs = 1..n /\ DOMAIN both = 1..(n + m)
  OBVIOUS
<1>12. Begins(recs, both)
  BY <1>6 DEF Begins
<1>13. NodesOf(both) = Grow(NodesOf(recs), new)
  BY <1>5, <1>11, <1>12, NodesGrow
<1>14. n + m \in (n + 1)..(n + m) /\ n + m \in DOMAIN both
       /\ IsNode(both[n + m]) /\ both[n + m].id = base + m
  BY <1>6
<1>15. TailIsClosed(NodesOf(both), base + m)
  <2>1. Follows(both, n + 1, n + m)
    BY <1>6, <1>14 DEF Follows
  <2>2. n + m = (n + 1) + both[n + 1].calls
    OBVIOUS
  <2> QED
    BY <1>6, <1>11, <1>14, <2>1, <2>2, ClosedRecord
<1>16. HeadOf(both) = base + m
  BY <1>6, <1>14, HeadOfLast DEF Moves, MovesTo, IsNode
<1>17. RegisterOf(both) = RegisterOf(recs)
  <2>1. \A i \in DOMAIN both : both[i].t = "model" => i \in DOMAIN recs
    BY <1>6 DEF IsNode
  <2> QED
    BY <1>6, <1>12, <2>1, RegisterOfQuiet
<1>18. ASSUME Hangs(recs), top = HeadOf(recs), NEW i \in DOMAIN both, IsNode(both[i])
       PROVE  both[i].parent = HeadOf(SubSeq(both, 1, i - 1))
  <2>1. CASE i \in 1..n
    <3>1. i \in DOMAIN recs /\ both[i] = recs[i] /\ i - 1 \in 0..Len(recs)
      BY <1>6, <2>1
    <3>2. SubSeq(both, 1, i - 1) = SubSeq(recs, 1, i - 1)
      BY <1>6, <1>12, <3>1, SameCut
    <3> QED
      BY <1>18, <3>1, <3>2 DEF Hangs
  <2>2. CASE i = n + 1
    <3>1. SubSeq(both, 1, n) = recs
      BY <1>6, <1>12, SameCut, WholeCut
    <3>2. i - 1 = n /\ both[i].parent = top
      BY <2>2
    <3> QED
      BY <1>18, <3>1, <3>2
  <2>3. CASE i \in (n + 2)..(n + m)
    <3>1. i - 1 \in (n + 1)..(n + m) /\ i \in (n + 1)..(n + m) /\ i > n + 1 /\ i - 1 \in 0..Len(both)
      BY <1>6, <2>3
    <3>2. PICK part : part = SubSeq(both, 1, i - 1)
      OBVIOUS
    <3>0. PICK k \in 1..Len(both) : k = i - 1
      BY <3>1
    <3>3. /\ part \in Seq(Record) /\ Len(part) = k /\ k \in DOMAIN part
          /\ part[k] = both[k]
      BY <3>0, <3>2, CutSeq
    <3>4. HeadOf(part) = both[i - 1].id
      <4>1. IsNode(part[k]) /\ k = Len(part) /\ part[k] = both[i - 1]
        BY <3>0, <3>1, <3>3
      <4> QED
        BY <3>3, <4>1, HeadOfLast DEF Moves, MovesTo, IsNode
    <3>5. both[i - 1].id = base + ((i - 1) - n) /\ both[i].id = base + (i - n)
          /\ both[i].parent = both[i].id - 1
      BY <3>1
    <3> QED
      BY <3>1, <3>2, <3>4, <3>5
  <2> QED
    BY <1>6, <2>1, <2>2, <2>3
<1>19. Hangs(recs) /\ top = HeadOf(recs) => Hangs(both)
  BY <1>18 DEF Hangs
<1>20. both # <<>>
  OBVIOUS
<1> QED
  BY <1>11, <1>12, <1>13, <1>15, <1>16, <1>17, <1>19, <1>20

\* Where the records of a joined log come from.
LEMMA JoinedRecords ==
  ASSUME NEW a \in Seq(Record), NEW b \in Seq(Record)
  PROVE  \E both \in Seq(Record) :
           /\ both = a \o b /\ Len(both) = Len(a) + Len(b)
           /\ \A i \in 1..Len(a) : both[i] = a[i]
           /\ \A j \in 1..Len(b) : both[Len(a) + j] = b[j]
<1>1. PICK both : both = a \o b
  OBVIOUS
<1>2. /\ both \in Seq(Record) /\ Len(both) = Len(a) + Len(b)
      /\ \A i \in 1..Len(a) : both[i] = a[i]
      /\ \A j \in 1..Len(b) : both[Len(a) + j] = b[j]
  BY <1>1
<1> QED
  BY <1>1, <1>2, Zenon

\* A group joined to a log is added to it.
LEMMA JoinedGroup ==
  ASSUME NEW recs \in Seq(Record), NEW new \in Seq(Record),
         NEW n \in Nat, NEW m \in Nat, n > 0, Len(recs) = n,
         NEW base \in Nat, NEW top, GroupOf(new, m, base, top), GroupEnd(recs, top)
  PROVE  \E both \in Seq(Record) :
           both = recs \o new /\ GroupAdded(recs, new, both, n, m, base, top)
<1>0. /\ Len(new) = m /\ m > 0
      /\ \A j \in 1..m : /\ IsNode(new[j]) /\ new[j].id = base + j
                         /\ new[j].parent = IF j = 1 THEN top ELSE base + j - 1
                         /\ j > 1 => new[j].kind = "result"
      /\ IsTurn(new[1]) /\ new[1].calls = m - 1
  BY DEF GroupOf
<1>1. PICK both \in Seq(Record) :
        /\ both = recs \o new /\ Len(both) = n + m
        /\ \A i \in 1..n : both[i] = recs[i]
        /\ \A j \in 1..m : both[n + j] = new[j]
  <2>1. PICK both \in Seq(Record) :
          /\ both = recs \o new /\ Len(both) = Len(recs) + Len(new)
          /\ \A i \in 1..Len(recs) : both[i] = recs[i]
          /\ \A j \in 1..Len(new) : both[Len(recs) + j] = new[j]
    BY JoinedRecords, Zenon
  <2>2. Len(new) = m
    BY <1>0
  <2> QED
    BY <2>1, <2>2, Zenon
<1>2. \A i \in (n + 1)..(n + m) :
        /\ IsNode(both[i]) /\ both[i].id = base + (i - n)
        /\ i > n + 1 => both[i].kind = "result" /\ both[i].parent = both[i].id - 1
  <2>1. SUFFICES ASSUME NEW i \in (n + 1)..(n + m)
                 PROVE  /\ IsNode(both[i]) /\ both[i].id = base + (i - n)
                        /\ i > n + 1 => both[i].kind = "result" /\ both[i].parent = both[i].id - 1
    OBVIOUS
  <2>2. PICK j \in 1..m : i = n + j
    <3>1. i - n \in 1..m /\ i = n + (i - n)
      OBVIOUS
    <3> QED
      BY <3>1
  <2>3. both[i] = new[j] /\ j = i - n
    BY <1>1, <2>2
  <2> QED
    BY <1>0, <2>2, <2>3
<1>3. both[n + 1] = new[1] /\ new[1].parent = top
  BY <1>0, <1>1
<1>4. IsTurn(both[n + 1]) /\ both[n + 1].calls = m - 1 /\ both[n + 1].parent = top
  BY <1>0, <1>3
<1> QED
  BY <1>0, <1>1, <1>2, <1>4, Zenon DEF GroupAdded

\* A log with one more batch, chained under a head outside of the roundtrips.
LEMMA CommittedLog ==
  ASSUME NEW recs \in Seq(Record), recs # <<>>, Coherent(recs), WholeGroups(recs),
         minted \in 0..MaxNodes,
         \A i \in DOMAIN recs : IsNode(recs[i]) => recs[i].id <= minted,
         head \in DOMAIN NodesOf(recs) \cup {Root}, TailIsClosed(NodesOf(recs), head),
         NEW batch \in Batches, minted + Len(batch) <= MaxNodes
  PROVE  \E both \in Seq(Record) :
         /\ both = recs \o Chain(batch) /\ both # <<>> /\ Begins(recs, both)
         /\ Coherent(both) /\ WholeGroups(both)
         /\ NodesOf(both) = Grow(NodesOf(recs), Chain(batch))
         /\ \A i \in DOMAIN both : IsNode(both[i]) => both[i].id <= minted + Len(batch)
         /\ TailIsClosed(NodesOf(both), minted + Len(batch))
         /\ HeadOf(both) = minted + Len(batch)
         /\ RegisterOf(both) = RegisterOf(recs)
         /\ Hangs(recs) /\ head = HeadOf(recs) => Hangs(both)
<1>1. head \in Ids \cup {Root}
  BY NodesOfType
<1>2. PICK n \in Nat : Len(recs) = n /\ n > 0
  OBVIOUS
<1>3. PICK m \in Nat : Len(batch) = m /\ m > 0
  BY BatchShape
<1>4. PICK new : new = Chain(batch)
  OBVIOUS
<1>5. new \in Seq(Record) /\ GroupOf(new, m, minted, head)
  BY <1>1, <1>3, <1>4, ChainShape
<1>6. minted \in Nat
  BY BoundsAssumption
<1>7. GroupEnd(recs, head)
  BY ClosedIsAnEnd DEF GroupEnd
<1>8. PICK both \in Seq(Record) :
        both = recs \o new /\ GroupAdded(recs, new, both, n, m, minted, head)
  BY <1>2, <1>5, <1>6, <1>7, JoinedGroup
<1>10. /\ both # <<>> /\ Begins(recs, both)
       /\ Coherent(both) /\ WholeGroups(both)
       /\ NodesOf(both) = Grow(NodesOf(recs), new)
       /\ \A i \in DOMAIN both : IsNode(both[i]) => both[i].id <= minted + m
       /\ TailIsClosed(NodesOf(both), minted + m)
       /\ HeadOf(both) = minted + m
       /\ RegisterOf(both) = RegisterOf(recs)
       /\ Hangs(recs) /\ head = HeadOf(recs) => Hangs(both)
  <2>1. GroupAdded(recs, new, both, n, m, minted, head)
    BY <1>8
  <2> QED
    BY <1>5, <1>6, <2>1, GrownLog
<1> QED
  BY <1>3, <1>4, <1>8, <1>10, Zenon

-----------------------------------------------------------------------------
(* The log and the session that lives on it                                *)

\* No checkout of the log names a place inside a roundtrip.
AllClosed(recs) ==
  \A i \in DOMAIN recs : recs[i].t = "checkout" => TailIsClosed(NodesOf(recs), recs[i].to)

\* No node of the log has an id beyond `top`.
Bounded(recs, top) ==
  \A i \in DOMAIN recs : IsNode(recs[i]) => recs[i].id <= top

\* The session runs on what its records say, its head outside of the
\* roundtrips; the head is theirs too as long as no checkout was resolved
\* forward.
Reflects(recs, tree, tip, model) ==
  /\ recs # <<>> /\ WholeGroups(recs)
  /\ tree = NodesOf(recs) /\ model = RegisterOf(recs)
  /\ TailIsClosed(tree, tip)
  /\ AllClosed(recs) => Hangs(recs) /\ tip = HeadOf(recs)

\* The records accepted so far are a coherent log, the live session is the one
\* they describe, and no roundtrip is half on disk while it lives.
SessionInv ==
  /\ Coherent(Records) /\ Bounded(Records, minted)
  /\ phase = "live" => WholeGroups(Complete(file)) /\ Reflects(Records, nodes, head, register)
  /\ phase # "live" => nodes = NoNodes

\* Checkouts that were closed in a longer log were so in how it began.
LEMMA AllClosedBefore ==
  ASSUME NEW recs \in Seq(Record), NEW both \in Seq(Record), Begins(recs, both),
         Coherent(recs), Coherent(both), AllClosed(both)
  PROVE  AllClosed(recs)
<1> SUFFICES ASSUME NEW i \in DOMAIN recs, recs[i].t = "checkout"
             PROVE  TailIsClosed(NodesOf(recs), recs[i].to)
  BY DEF AllClosed
<1>1. i \in DOMAIN both /\ both[i] = recs[i]
  BY DEF Begins
<1>2. TailIsClosed(NodesOf(both), recs[i].to)
  BY <1>1 DEF AllClosed
<1>3. recs[i].to \in DOMAIN NodesOf(recs) \cup {Root}
  <2>1. CASE recs[i].to # Root
    <3>1. PICK j \in 1..(i - 1) : IsNode(recs[j]) /\ recs[j].id = recs[i].to
      BY <2>1 DEF Coherent
    <3>2. j \in DOMAIN recs
      OBVIOUS
    <3> QED
      BY <3>1, <3>2, NodesOfType DEF IsNode
  <2> QED
    BY <2>1
<1> QED
  BY <1>2, <1>3, ClosedKept, Zenon

\* A commit keeps the session what its records say.
LEMMA CommitReflects ==
  ASSUME Inv, NEW recs \in Seq(Record), Coherent(recs), Bounded(recs, minted),
         Reflects(recs, nodes, head, register),
         NEW batch \in Batches, minted + Len(batch) <= MaxNodes
  PROVE  \E both \in Seq(Record) :
           /\ both = recs \o Chain(batch) /\ Coherent(both) /\ WholeGroups(both)
           /\ Bounded(both, minted + Len(batch))
           /\ Reflects(both, Grow(nodes, Chain(batch)), minted + Len(batch), register)
<1>1. /\ recs # <<>> /\ WholeGroups(recs) /\ nodes = NodesOf(recs)
      /\ register = RegisterOf(recs) /\ TailIsClosed(NodesOf(recs), head)
      /\ AllClosed(recs) => Hangs(recs) /\ head = HeadOf(recs)
  BY Zenon DEF Reflects
<1>2. head \in DOMAIN NodesOf(recs) \cup {Root} /\ minted \in 0..MaxNodes
  BY <1>1 DEF Inv, TreeInv, LogInv
<1>3. \A i \in DOMAIN recs : IsNode(recs[i]) => recs[i].id <= minted
  BY DEF Bounded
<1>4. PICK both \in Seq(Record) :
         /\ both = recs \o Chain(batch) /\ both # <<>> /\ Begins(recs, both)
         /\ Coherent(both) /\ WholeGroups(both)
         /\ NodesOf(both) = Grow(NodesOf(recs), Chain(batch))
         /\ \A i \in DOMAIN both : IsNode(both[i]) => both[i].id <= minted + Len(batch)
         /\ TailIsClosed(NodesOf(both), minted + Len(batch))
         /\ HeadOf(both) = minted + Len(batch)
         /\ RegisterOf(both) = RegisterOf(recs)
         /\ Hangs(recs) /\ head = HeadOf(recs) => Hangs(both)
  BY <1>1, <1>2, <1>3, CommittedLog, Zenon
<1>5. AllClosed(both) => AllClosed(recs)
  BY <1>4, AllClosedBefore
<1> QED
  BY <1>1, <1>4, <1>5, Zenon DEF Reflects, Bounded

\* A checkout of a place `target` that lands on `tip`, on the target itself
\* when that is closed, does too.
LEMMA CheckoutReflects ==
  ASSUME NEW recs \in Seq(Record), Coherent(recs), Bounded(recs, minted),
         Reflects(recs, nodes, head, register),
         NEW target \in DOMAIN nodes \cup {Root}
  PROVE  \E both \in Seq(Record) :
           /\ both = recs \o <<CheckoutRecord(target)>>
           /\ Coherent(both) /\ WholeGroups(both) /\ Bounded(both, minted)
           /\ \A tip : /\ TailIsClosed(nodes, tip)
                       /\ TailIsClosed(nodes, target) => tip = target
                       => Reflects(both, nodes, tip, register)
<1>1. /\ recs # <<>> /\ WholeGroups(recs) /\ nodes = NodesOf(recs)
      /\ register = RegisterOf(recs)
      /\ AllClosed(recs) => Hangs(recs) /\ head = HeadOf(recs)
  BY Zenon DEF Reflects
<1>2. PICK rec : rec = CheckoutRecord(target)
  OBVIOUS
<1>3. /\ rec \in Record /\ rec.t = "checkout" /\ rec.to = target
      /\ ~IsNode(rec) /\ rec # Header
  <2>1. target \in Ids \cup {Root}
    BY <1>1, NodesOfType
  <2> QED
    BY <1>2, <2>1 DEF CheckoutRecord, Record, IsNode, Header
<1>4. PICK both : both = recs \o <<rec>>
  OBVIOUS
<1>5. /\ both \in Seq(Record) /\ both # <<>> /\ Begins(recs, both)
      /\ Coherent(both) /\ WholeGroups(both) /\ NodesOf(both) = NodesOf(recs)
      /\ \A i \in DOMAIN both : IsNode(both[i]) => i \in DOMAIN recs
      /\ Hangs(recs) => Hangs(both)
      /\ HeadOf(both) = target /\ RegisterOf(both) = RegisterOf(recs)
  BY <1>1, <1>3, <1>4, QuietLog
<1>6. Bounded(both, minted)
  BY <1>5 DEF Bounded, Begins
<1>7. AllClosed(both) => AllClosed(recs)
  BY <1>5, AllClosedBefore
<1>8. AllClosed(both) => TailIsClosed(nodes, target)
  <2>1. PICK n : n = Len(both)
    OBVIOUS
  <2>2. n \in DOMAIN both /\ both[n] = rec
    BY <1>3, <1>4, <2>1
  <2> QED
    BY <1>1, <1>3, <1>5, <2>2 DEF AllClosed
<1>9. ASSUME NEW tip, TailIsClosed(nodes, tip), TailIsClosed(nodes, target) => tip = target
      PROVE  Reflects(both, nodes, tip, register)
  BY <1>1, <1>5, <1>7, <1>8, <1>9, Zenon DEF Reflects
<1> QED
  BY <1>2, <1>4, <1>5, <1>6, <1>9, Zenon

\* So does a selection, also of a session about to be reopened.
LEMMA SelectReflects ==
  ASSUME NEW recs \in Seq(Record), Coherent(recs), Bounded(recs, minted),
         NEW tree, NEW tip, NEW model, Reflects(recs, tree, tip, model), NEW m \in Models
  PROVE  \E both \in Seq(Record) :
           /\ both = recs \o <<ModelChange(m)>>
           /\ Coherent(both) /\ WholeGroups(both) /\ Bounded(both, minted)
           /\ Reflects(both, tree, tip, m)
<1>1. /\ recs # <<>> /\ WholeGroups(recs) /\ tree = NodesOf(recs)
      /\ TailIsClosed(tree, tip)
      /\ AllClosed(recs) => Hangs(recs) /\ tip = HeadOf(recs)
  BY Zenon DEF Reflects
<1>2. PICK rec : rec = ModelChange(m)
  OBVIOUS
<1>3. /\ rec \in Record /\ rec.t = "model" /\ rec.model = m
      /\ ~IsNode(rec) /\ rec # Header /\ rec.t # "checkout"
  BY <1>2 DEF ModelChange, Record, IsNode, Header
<1>4. PICK both : both = recs \o <<rec>>
  OBVIOUS
<1>5. /\ both \in Seq(Record) /\ both # <<>> /\ Begins(recs, both)
      /\ Coherent(both) /\ WholeGroups(both) /\ NodesOf(both) = NodesOf(recs)
      /\ \A i \in DOMAIN both : IsNode(both[i]) => i \in DOMAIN recs
      /\ Hangs(recs) => Hangs(both)
      /\ HeadOf(both) = HeadOf(recs) /\ RegisterOf(both) = m
  BY <1>1, <1>3, <1>4, QuietLog
<1>6. Bounded(both, minted)
  BY <1>5 DEF Bounded, Begins
<1>7. AllClosed(both) => AllClosed(recs)
  BY <1>5, AllClosedBefore
<1>8. Reflects(both, tree, tip, m)
  BY <1>1, <1>5, <1>7, Zenon DEF Reflects
<1> QED
  BY <1>2, <1>4, <1>5, <1>6, <1>8, Zenon

\* The accepted records are records.
LEMMA RecordsType ==
  ASSUME Inv, FileInv
  PROVE  Records \in Seq(Record) /\ Complete(file) \in Seq(Record)
<1>1. Complete(file) \in Seq(Record) /\ writer.outbox \in Seq(Record)
  BY DEF Inv, LogInv, FileInv, Writer
<1> QED
  BY <1>1 DEF Records

\* A log without nodes and checkouts is coherent once its header leads.
LEMMA BirthLog ==
  ASSUME NEW recs \in Seq(Record), recs # <<>>,
         \A i \in DOMAIN recs : /\ recs[i] = Header <=> i = 1
                                /\ recs[i].t \in {"header", "model"}
  PROVE  /\ Coherent(recs) /\ WholeGroups(recs) /\ Bounded(recs, 0)
         /\ NodesOf(recs) = NoNodes
         /\ Reflects(recs, NoNodes, Root, RegisterOf(recs))
<1>1. \A i \in DOMAIN recs : ~IsNode(recs[i]) /\ recs[i].t # "checkout" /\ ~Moves(recs[i])
  BY DEF IsNode, Moves
<1>2. \A c, i : ~Follows(recs, c, i)
  BY <1>1 DEF Follows, IsTurn
<1>3. Coherent(recs)
  BY <1>1, <1>2 DEF Coherent, IsTurn
<1>4. WholeGroups(recs) /\ Bounded(recs, 0) /\ Hangs(recs)
  BY <1>1 DEF WholeGroups, Bounded, IsTurn, Hangs
<1>5. NodesOf(recs) = NoNodes
  <2>1. {i \in DOMAIN recs : recs[i].t = "node"} = {}
    BY <1>1 DEF IsNode
  <2>2. DOMAIN NodesOf(recs) = {} /\ DOMAIN NoNodes = {}
    BY <2>1 DEF NodesOf, NoNodes
  <2>3. /\ NodesOf(recs) = [id \in DOMAIN NodesOf(recs) |-> NodesOf(recs)[id]]
        /\ NoNodes = [id \in DOMAIN NoNodes |-> NoNodes[id]]
    BY NodesOfFunction DEF NoNodes
  <2> QED
    BY <2>2, <2>3
<1>6. HeadOf(recs) = Root
  <2>1. {i \in DOMAIN recs : Moves(recs[i])} = {}
    BY <1>1
  <2> QED
    BY <2>1, Zenon DEF HeadOf
<1>7. TailIsClosed(NoNodes, Root)
  BY DEF TailIsClosed
<1> QED
  BY <1>3, <1>4, <1>5, <1>6, <1>7, Zenon DEF Reflects

\* A new session is what its birth lines say.
LEMMA SessionInit ==
  ASSUME Init
  PROVE  SessionInv
<1>1. /\ phase = "live" /\ nodes = NoNodes /\ head = Root /\ minted = 0
      /\ Complete(file) = <<>> /\ file = <<>>
  BY FileInvInit DEF Init
<1>2. Records = <<>> \o writer.outbox
  BY <1>1 DEF Records
<1>3. PICK lines :
        /\ lines = IF register = NoModel THEN <<Header>> ELSE <<Header, ModelChange(register)>>
        /\ writer = FreshWriter(lines)
  BY Zenon DEF Init
<1>4. writer.outbox = lines
  BY <1>3 DEF FreshWriter
<1>5. Header \in Record /\ Header.t = "header"
  BY DEF Header, Record
<1>6. /\ lines \in Seq(Record) /\ lines # <<>> /\ RegisterOf(lines) = register
      /\ \A i \in DOMAIN lines : /\ lines[i] = Header <=> i = 1
                                 /\ lines[i].t \in {"header", "model"}
  <2>1. CASE register = NoModel
    <3>1. lines = <<Header>>
      BY <1>3, <2>1
    <3>2. lines \in Seq(Record) /\ Len(lines) = 1 /\ lines[1] = Header /\ DOMAIN lines = {1}
      BY <1>5, <3>1
    <3>3. {i \in DOMAIN lines : lines[i].t = "model"} = {}
      BY <1>5, <3>2
    <3>4. RegisterOf(lines) = NoModel
      BY <3>3, Zenon DEF RegisterOf
    <3>5. /\ lines # <<>>
          /\ \A i \in DOMAIN lines : i = 1 /\ lines[i] = Header /\ lines[i].t = "header"
      BY <1>5, <3>2
    <3> QED
      BY <2>1, <3>2, <3>4, <3>5
  <2>2. CASE register # NoModel
    <3>1. lines = <<Header, ModelChange(register)>> /\ register \in Models
      BY <1>3, <2>2 DEF Init
    <3>2. /\ ModelChange(register) \in Record /\ ModelChange(register).t = "model"
          /\ ModelChange(register).model = register
      BY <3>1 DEF ModelChange, Record
    <3>3. /\ lines \in Seq(Record) /\ Len(lines) = 2 /\ lines[1] = Header
          /\ lines[2] = ModelChange(register) /\ DOMAIN lines = {1, 2}
      BY <1>5, <3>1, <3>2
    <3>4. RegisterOf(lines) = register
      BY <3>2, <3>3, RegisterOfLast
    <3>5. lines[2] # Header /\ lines # <<>>
      BY <1>5, <3>2, <3>3
    <3>6. \A i \in DOMAIN lines : /\ lines[i] = Header <=> i = 1
                                 /\ lines[i].t \in {"header", "model"}
      BY <1>5, <3>2, <3>3, <3>5
    <3> QED
      BY <3>3, <3>4, <3>5, <3>6
  <2> QED
    BY <2>1, <2>2
<1>7. Records = lines
  <2>1. <<>> \o lines = lines
    BY <1>6
  <2> QED
    BY <1>2, <1>4, <2>1
<1>8. /\ Coherent(Records) /\ Bounded(Records, 0)
      /\ Reflects(Records, NoNodes, Root, register)
  BY <1>6, <1>7, BirthLog
<1>9. WholeGroups(Complete(file))
  BY <1>1 DEF WholeGroups
<1> QED
  BY <1>1, <1>8, <1>9 DEF SessionInv

\* A commit keeps the invariant.
LEMMA CommitKeepsSession ==
  ASSUME CleanWrites, Inv, FileInv, SessionInv, NEW batch \in Batches, Commit(batch)
  PROVE  SessionInv'
<1>1. /\ phase = "live" /\ phase' = "live" /\ minted + Len(batch) <= MaxNodes
      /\ Enqueue(writer, Chain(batch))
      /\ nodes' = Grow(nodes, Chain(batch)) /\ head' = minted + Len(batch)
      /\ minted' = minted + Len(batch) /\ register' = register
  BY Zenon DEF Commit
<1>2. PICK recs \in Seq(Record) : recs = Records
  BY RecordsType
<1>3. /\ Coherent(recs) /\ Bounded(recs, minted) /\ WholeGroups(Complete(file))
      /\ Reflects(recs, nodes, head, register)
  BY <1>1, <1>2 DEF SessionInv
<1>4. PICK both \in Seq(Record) :
        /\ both = recs \o Chain(batch) /\ Coherent(both) /\ WholeGroups(both)
        /\ Bounded(both, minted + Len(batch))
        /\ Reflects(both, Grow(nodes, Chain(batch)), minted + Len(batch), register)
  BY <1>1, <1>3, CommitReflects
<1>5. Chain(batch) \in Seq(Record)
  BY <1>1, ChainShape DEF Inv, LogInv, TreeInv
<1>6. /\ Records' = Records \o Chain(batch)
      /\ Complete(file)' = Complete(file) \/ Complete(file)' = Records'
  BY <1>1, <1>5, EnqueueGrowsRecords
<1>7. Records' = both
  BY <1>2, <1>4, <1>6
<1>8. Coherent(Records') /\ Bounded(Records', minted') /\ Reflects(Records', nodes', head', register')
  BY <1>1, <1>4, <1>7
<1>9. WholeGroups(Complete(file)')
  BY <1>3, <1>4, <1>6, <1>7
<1> QED
  BY <1>1, <1>8, <1>9 DEF SessionInv

\* A checkout keeps it, also one that resolves forward.
LEMMA CheckoutKeepsSession ==
  ASSUME CleanWrites, Inv, FileInv, SessionInv, NEW target \in Targets, Checkout(target)
  PROVE  SessionInv'
<1>1. /\ phase = "live" /\ phase' = "live" /\ head' \in Landing(nodes, target)
      /\ Enqueue(writer, <<CheckoutRecord(target)>>)
      /\ nodes' = nodes /\ minted' = minted /\ register' = register
  BY Zenon DEF Checkout
<1>2. PICK recs \in Seq(Record) : recs = Records
  BY RecordsType
<1>3. /\ Coherent(recs) /\ Bounded(recs, minted) /\ WholeGroups(Complete(file))
      /\ Reflects(recs, nodes, head, register)
  BY <1>1, <1>2 DEF SessionInv
<1>4. target \in DOMAIN nodes \cup {Root}
  BY DEF Targets
<1>5. PICK both \in Seq(Record) :
        /\ both = recs \o <<CheckoutRecord(target)>>
        /\ Coherent(both) /\ WholeGroups(both) /\ Bounded(both, minted)
        /\ \A tip : /\ TailIsClosed(nodes, tip)
                    /\ TailIsClosed(nodes, target) => tip = target
                    => Reflects(both, nodes, tip, register)
  BY <1>3, <1>4, CheckoutReflects
<1>6. TailIsClosed(nodes, head') /\ (TailIsClosed(nodes, target) => head' = target)
  BY <1>1 DEF Landing, ClosedAhead
<1>7. <<CheckoutRecord(target)>> \in Seq(Record)
  <2>1. target \in Ids \cup {Root}
    BY <1>4 DEF Inv, TreeInv
  <2>2. CheckoutRecord(target) \in Record
    BY <2>1 DEF Record
  <2> QED
    BY <2>2
<1>8. /\ Records' = Records \o <<CheckoutRecord(target)>>
      /\ Complete(file)' = Complete(file) \/ Complete(file)' = Records'
  BY <1>1, <1>7, EnqueueGrowsRecords
<1>9. Records' = both
  BY <1>2, <1>5, <1>8
<1>10. Reflects(both, nodes, head', register)
  BY <1>5, <1>6
<1>11. Coherent(Records') /\ Bounded(Records', minted') /\ Reflects(Records', nodes', head', register')
  BY <1>1, <1>5, <1>9, <1>10
<1>12. WholeGroups(Complete(file)')
  BY <1>3, <1>5, <1>8, <1>9
<1> QED
  BY <1>1, <1>11, <1>12 DEF SessionInv

\* A selection keeps it.
LEMMA SelectKeepsSession ==
  ASSUME CleanWrites, Inv, FileInv, SessionInv, NEW m \in Models, SelectModel(m)
  PROVE  SessionInv'
<1>1. /\ phase = "live" /\ phase' = "live" /\ register' = m
      /\ Enqueue(writer, <<ModelChange(m)>>)
      /\ nodes' = nodes /\ minted' = minted /\ head' = head
  BY Zenon DEF SelectModel
<1>2. PICK recs \in Seq(Record) : recs = Records
  BY RecordsType
<1>3. /\ Coherent(recs) /\ Bounded(recs, minted) /\ WholeGroups(Complete(file))
      /\ Reflects(recs, nodes, head, register)
  BY <1>1, <1>2 DEF SessionInv
<1>4. PICK both \in Seq(Record) :
        /\ both = recs \o <<ModelChange(m)>>
        /\ Coherent(both) /\ WholeGroups(both) /\ Bounded(both, minted)
        /\ Reflects(both, nodes, head, m)
  BY <1>3, SelectReflects
<1>5. <<ModelChange(m)>> \in Seq(Record)
  BY RecordTypes
<1>6. /\ Records' = Records \o <<ModelChange(m)>>
      /\ Complete(file)' = Complete(file) \/ Complete(file)' = Records'
  BY <1>1, <1>5, EnqueueGrowsRecords
<1>7. Records' = both
  BY <1>2, <1>4, <1>6
<1>8. Coherent(Records') /\ Bounded(Records', minted') /\ Reflects(Records', nodes', head', register')
  BY <1>1, <1>4, <1>7
<1>9. WholeGroups(Complete(file)')
  BY <1>3, <1>4, <1>6, <1>7
<1> QED
  BY <1>1, <1>8, <1>9 DEF SessionInv

\* A flush moves records from the outbox to the file, or leaves them.
LEMMA FlushKeepsSession ==
  ASSUME CleanWrites, Inv, FileInv, SessionInv, Flush
  PROVE  SessionInv'
<1>1. /\ phase = "live" /\ phase' = "live" /\ register' = register
      /\ Enqueue(writer, <<>>)
      /\ nodes' = nodes /\ minted' = minted /\ head' = head
  BY Zenon DEF Flush
<1>2. PICK recs \in Seq(Record) : recs = Records
  BY RecordsType
<1>3. <<>> \in Seq(Record) /\ recs \o <<>> = recs
  OBVIOUS
<1>4. /\ Records' = Records \o <<>>
      /\ Complete(file)' = Complete(file) \/ Complete(file)' = Records'
  BY <1>1, <1>3, EnqueueGrowsRecords
<1>5. Records' = Records
  BY <1>2, <1>3, <1>4
<1>6. WholeGroups(Records)
  BY <1>1 DEF SessionInv, Reflects
<1> QED
  BY <1>1, <1>4, <1>5, <1>6 DEF SessionInv

\* Steps that touch neither the records nor the session.
LEMMA QuietKeepsSession ==
  ASSUME SessionInv, Records' = Records, Complete(file)' = Complete(file),
         UNCHANGED <<nodes, head, register, minted>>,
         phase' = phase \/ (phase # "live" /\ phase' # "live")
  PROVE  SessionInv'
  BY DEF SessionInv

\* The beginning of a coherent log is a coherent log, under the same bound
\* and under every larger one.
LEMMA CutLog ==
  ASSUME NEW recs \in Seq(Record), Coherent(recs),
         NEW a \in Nat, NEW b \in Nat, a <= b, Bounded(recs, a),
         NEW k \in 0..Len(recs), NEW part, part = SubSeq(recs, 1, k)
  PROVE  part \in Seq(Record) /\ Coherent(part) /\ Bounded(part, b)
<1>1. /\ part \in Seq(Record) /\ DOMAIN part = 1..k
      /\ \A i \in 1..k : i \in DOMAIN recs /\ part[i] = recs[i]
  BY CutSeq
<1>2. Coherent(part)
  BY <1>1, CoherentCut
<1>3. ASSUME NEW i \in DOMAIN part, IsNode(part[i])
      PROVE  part[i].id <= b
  <2>1. i \in DOMAIN recs /\ part[i] = recs[i]
    BY <1>1
  <2>2. recs[i].id <= a
    BY <1>3, <2>1 DEF Bounded
  <2>3. recs[i] \in Node
    BY <1>3, <2>1, RecordsByType DEF IsNode
  <2>4. recs[i].id \in Nat
    BY <2>3, BoundsAssumption DEF Node, Ids
  <2> QED
    BY <2>1, <2>2, <2>4
<1> QED
  BY <1>1, <1>2, <1>3 DEF Bounded

\* The file is the beginning of the records.
LEMMA FileIsCut ==
  ASSUME Inv, FileInv
  PROVE  \E k \in 0..Len(Records) : Complete(file) = SubSeq(Records, 1, k)
<1>1. Complete(file) \in Seq(Record) /\ writer.outbox \in Seq(Record)
  BY DEF Inv, LogInv, FileInv, Writer
<1>2. PICK a \in Seq(Record) : a = Complete(file)
  BY <1>1
<1>3. PICK b \in Seq(Record) : b = writer.outbox
  BY <1>1
<1>4. Len(a) \in 0..Len(a \o b) /\ SubSeq(a \o b, 1, Len(a)) = a
  OBVIOUS
<1> QED
  BY <1>2, <1>3, <1>4 DEF Records

\* The end of the process leaves a log, whatever it could still write.
LEMMA CloseKeepsSession ==
  ASSUME CleanWrites, Inv, FileInv, SessionInv, Close
  PROVE  SessionInv'
<1>1. phase' = "closed" /\ nodes' = NoNodes /\ minted' = minted
  BY DEF Close, Gone
<1>2. PICK recs \in Seq(Record) : recs = Records
  BY RecordsType
<1>3. Coherent(recs) /\ Bounded(recs, minted) /\ minted \in Nat
  BY <1>2 DEF SessionInv, Inv, LogInv
<1>4. Records' = Complete(file) \/ Records' = Records
  BY CloseKeepsRecords
<1>5. PICK k \in 0..Len(Records) : Complete(file) = SubSeq(Records, 1, k)
  BY FileIsCut
<1>6. k \in 0..Len(recs) /\ Complete(file) = SubSeq(recs, 1, k)
  BY <1>2, <1>5
<1>7. Coherent(Complete(file)) /\ Bounded(Complete(file), minted)
  <2>1. minted <= minted
    BY <1>3
  <2> QED
    BY <1>3, <1>6, <2>1, CutLog
<1>8. Coherent(Records') /\ Bounded(Records', minted')
  BY <1>1, <1>2, <1>3, <1>4, <1>7
<1> QED
  BY <1>1, <1>8 DEF SessionInv

\* What is in flight when the process dies would have kept the log coherent.
LEMMA InFlightIsCoherent ==
  ASSUME Inv, NEW recs \in Seq(Record), Coherent(recs), Bounded(recs, minted),
         Reflects(recs, nodes, head, register), NEW new \in InFlight
  PROVE  \E both \in Seq(Record), top \in 0..MaxNodes :
           /\ both = recs \o new /\ Coherent(both) /\ Bounded(both, top)
           /\ top <= Max({minted} \cup {new[i].id : i \in
                              {j \in DOMAIN new : new[j].t = "node"}})
<1> DEFINE ids == {new[i].id : i \in {j \in DOMAIN new : new[j].t = "node"}}
           later == Max({minted} \cup ids)
<1>1. minted \in 0..MaxNodes /\ MaxNodes \in Nat
  BY BoundsAssumption DEF Inv, LogInv
<1>2. \A i \in DOMAIN new : new[i].t = "node" => new[i].id \in 1..MaxNodes
  BY InFlightType
<1>3. {minted} \cup ids \in SUBSET (0..MaxNodes) /\ {minted} \cup ids # {}
  BY <1>1, <1>2
<1>4. \A y \in {minted} \cup ids : y <= later
  <2> HIDE DEF ids
  <2> QED
    BY <1>1, <1>3, MaxProperties
<1>5. minted <= later
  BY <1>4
<1>6. ASSUME new = <<>>
      PROVE  \E both \in Seq(Record), top \in 0..MaxNodes :
               both = recs \o new /\ Coherent(both) /\ Bounded(both, top) /\ top <= later
  <2>1. recs \o new = recs
    BY <1>6
  <2> QED
    BY <1>1, <1>5, <2>1
<1>7. ASSUME NEW batch \in Batches, minted + Len(batch) <= MaxNodes, new = Chain(batch)
      PROVE  \E both \in Seq(Record), top \in 0..MaxNodes :
               both = recs \o new /\ Coherent(both) /\ Bounded(both, top) /\ top <= later
  <2>1. PICK both \in Seq(Record) :
          /\ both = recs \o Chain(batch) /\ Coherent(both)
          /\ Bounded(both, minted + Len(batch))
    BY <1>7, CommitReflects
  <2>2. GroupOf(new, Len(batch), minted, head) /\ Len(batch) > 0 /\ Len(batch) \in Nat
    BY <1>7, ChainShape, BatchShape DEF Inv, LogInv, TreeInv
  <2>3. PICK m \in Nat : m = Len(batch)
    BY <2>2
  <2>4. m \in DOMAIN new /\ IsNode(new[m]) /\ new[m].id = minted + m
    <3>1. new \in Seq(Record)
      BY InFlightType
    <3> QED
      BY <2>2, <2>3, <3>1 DEF GroupOf
  <2>5. minted + m \in ids
    BY <2>4 DEF IsNode
  <2>6. minted + m \in 0..MaxNodes
    BY <1>1, <1>7, <2>3
  <2> QED
    BY <1>4, <1>7, <2>1, <2>3, <2>5, <2>6
<1>8. ASSUME NEW to \in Targets, new = <<CheckoutRecord(to)>>
      PROVE  \E both \in Seq(Record), top \in 0..MaxNodes :
               both = recs \o new /\ Coherent(both) /\ Bounded(both, top) /\ top <= later
  <2>1. to \in DOMAIN nodes \cup {Root}
    BY DEF Targets
  <2>2. PICK both \in Seq(Record) :
          both = recs \o new /\ Coherent(both) /\ Bounded(both, minted)
    BY <1>8, <2>1, CheckoutReflects
  <2> QED
    BY <1>1, <1>5, <2>2
<1>9. ASSUME NEW m \in Models, new = <<ModelChange(m)>>
      PROVE  \E both \in Seq(Record), top \in 0..MaxNodes :
               both = recs \o new /\ Coherent(both) /\ Bounded(both, top) /\ top <= later
  <2>1. PICK both \in Seq(Record) :
          both = recs \o new /\ Coherent(both) /\ Bounded(both, minted)
    BY <1>9, SelectReflects
  <2> QED
    BY <1>1, <1>5, <2>1
<1>10. \/ new = <<>>
       \/ \E batch \in Batches : minted + Len(batch) <= MaxNodes /\ new = Chain(batch)
       \/ \E to \in Targets : new = <<CheckoutRecord(to)>>
       \/ \E m \in Models : new = <<ModelChange(m)>>
  BY DEF InFlight
<1> HIDE DEF later, ids
<1>11. \E both \in Seq(Record), top \in 0..MaxNodes :
         both = recs \o new /\ Coherent(both) /\ Bounded(both, top) /\ top <= later
  BY <1>6, <1>7, <1>8, <1>9, <1>10, Zenon
<1> QED
  BY <1>11 DEF later, ids

\* A death leaves a log that begins the one the process was writing.
LEMMA CrashKeepsSession ==
  ASSUME CleanWrites, Inv, FileInv, SessionInv, Inv', Crash
  PROVE  SessionInv'
<1>1. phase = "live" /\ phase' = "closed" /\ nodes' = NoNodes
  BY DEF Crash, Gone
<1>2. PICK recs \in Seq(Record) : recs = Records
  BY RecordsType
<1>3. Coherent(recs) /\ Bounded(recs, minted) /\ Reflects(recs, nodes, head, register)
  BY <1>1, <1>2 DEF SessionInv
<1>4. PICK new \in InFlight :
        /\ \E k \in 0..Len(Records \o new) : Records' = SubSeq(Records \o new, 1, k)
        /\ minted' = Max({minted} \cup {new[i].id : i \in
                            {j \in DOMAIN new : new[j].t = "node"}})
  BY CrashKeepsRecords
<1>5. PICK both \in Seq(Record), top \in 0..MaxNodes :
        /\ both = recs \o new /\ Coherent(both) /\ Bounded(both, top) /\ top <= minted'
  BY <1>3, <1>4, InFlightIsCoherent
<1>6. PICK k \in 0..Len(both) : Records' = SubSeq(both, 1, k)
  BY <1>2, <1>4, <1>5
<1>7. minted' \in Nat /\ top \in Nat
  BY BoundsAssumption DEF Inv, LogInv
<1>8. Coherent(Records') /\ Bounded(Records', minted')
  BY <1>5, <1>6, <1>7, CutLog
<1> QED
  BY <1>1, <1>8 DEF SessionInv

\* A session is reopened as what its file says.
LEMMA OpenKeepsSession ==
  ASSUME CleanWrites, Inv, FileInv, SessionInv, Open
  PROVE  SessionInv'
<1>1. /\ phase # "live" /\ phase' = "live" /\ Parses(file) /\ minted' = minted
      /\ nodes' = NodesOf(Lines(file)) /\ head' = HeadOf(Lines(file))
  BY DEF Open
<1>2. Lines(file) = Complete(file) /\ Records = Complete(file)
  BY <1>1, ParsedFile
<1>3. PICK recs \in Seq(Record) : recs = Records
  BY RecordsType
<1>4. /\ Coherent(recs) /\ Bounded(recs, minted)
      /\ WellLinked(recs) /\ TailIsClosed(NodesOf(recs), HeadOf(recs))
      /\ nodes' = NodesOf(recs) /\ head' = HeadOf(recs)
  BY <1>1, <1>2, <1>3 DEF SessionInv, Parses
<1>5. recs # <<>> /\ Hangs(recs) /\ WholeGroups(recs)
  BY <1>4, Linked, WholeWhenClosed DEF WellLinked
<1>6. Reflects(recs, nodes', head', RegisterOf(recs))
  BY <1>4, <1>5, Zenon DEF Reflects
<1>7. PICK more \in Seq(Record) :
        /\ \/ more = <<>> /\ register' = RegisterOf(Records)
           \/ \E m \in Models : more = <<ModelChange(m)>> /\ register' = m
        /\ Records' = Records \o more
  BY OpenKeepsRecords
<1>8. PICK both \in Seq(Record) :
        /\ both = recs \o more /\ Coherent(both) /\ WholeGroups(both)
        /\ Bounded(both, minted) /\ Reflects(both, nodes', head', register')
  <2>1. CASE more = <<>> /\ register' = RegisterOf(Records)
    <3>1. recs \o more = recs
      BY <2>1
    <3> QED
      BY <1>3, <1>4, <1>5, <1>6, <2>1, <3>1
  <2>2. ASSUME NEW m \in Models, more = <<ModelChange(m)>>, register' = m
        PROVE  \E both \in Seq(Record) :
                 /\ both = recs \o more /\ Coherent(both) /\ WholeGroups(both)
                 /\ Bounded(both, minted) /\ Reflects(both, nodes', head', register')
    BY <1>4, <1>6, <2>2, SelectReflects
  <2> QED
    BY <1>7, <2>1, <2>2
<1>9. Records' = both
  BY <1>3, <1>7, <1>8
<1>10. Complete(file)' = Complete(file) \/ Complete(file)' = Records'
  BY OpenKeepsRecords
<1>11. WholeGroups(Complete(file)')
  BY <1>2, <1>3, <1>5, <1>8, <1>9, <1>10
<1>12. Coherent(Records') /\ Bounded(Records', minted') /\ Reflects(Records', nodes', head', register')
  BY <1>1, <1>8, <1>9
<1> QED
  BY <1>1, <1>11, <1>12 DEF SessionInv

\* Every step keeps it.
LEMMA SessionStep ==
  ASSUME CleanWrites, Inv, FileInv, SessionInv, Inv', [Next]_vars
  PROVE  SessionInv'
<1>1. ASSUME NEW batch \in Batches, Commit(batch) PROVE SessionInv'
  BY <1>1, CommitKeepsSession
<1>2. ASSUME NEW target \in Targets, Checkout(target) PROVE SessionInv'
  BY <1>2, CheckoutKeepsSession
<1>3. ASSUME NEW m \in Models, SelectModel(m) PROVE SessionInv'
  BY <1>3, SelectKeepsSession
<1>4. CASE Flush
  BY <1>4, FlushKeepsSession
<1>5. CASE TellTransition
  <2>1. UNCHANGED <<nodes, head, register, minted, phase>>
    BY <1>5 DEF TellTransition
  <2> QED
    BY <1>5, <2>1, TellKeepsRecords, QuietKeepsSession
<1>6. CASE Close
  BY <1>6, CloseKeepsSession
<1>7. CASE Crash
  BY <1>7, CrashKeepsSession
<1>8. CASE Open
  BY <1>8, OpenKeepsSession
<1>9. CASE Refuse
  <2>1. /\ UNCHANGED <<nodes, head, register, minted, file, writer>>
        /\ phase # "live" /\ phase' # "live"
    BY <1>9 DEF Refuse
  <2>2. Complete(file)' = Complete(file) /\ Records' = Records
    BY <2>1 DEF Records, Complete, Lines
  <2> QED
    BY <2>1, <2>2, QuietKeepsSession
<1>10. ASSUME UNCHANGED vars PROVE SessionInv'
  <2>1. UNCHANGED <<nodes, head, register, minted, file, writer, phase>>
    BY <1>10 DEF vars
  <2>2. Complete(file)' = Complete(file) /\ Records' = Records
    BY <2>1 DEF Records, Complete, Lines
  <2> QED
    BY <2>1, <2>2, QuietKeepsSession
<1> QED
  BY <1>1, <1>2, <1>3, <1>4, <1>5, <1>6, <1>7, <1>8, <1>9, <1>10 DEF Next, Over

-----------------------------------------------------------------------------
(* The file is the session                                                 *)

\* What is on disk and what waits for it are the lines of the records.
LEMMA TextIsRecords ==
  ASSUME Inv, FileInv, phase = "live"
  PROVE  WholeLines(Text) /\ Lines(Text) = Records /\ Lines(file) = Complete(file)
<1>1. PICK a \in Seq(Record) : a = Complete(file)
  BY RecordsType
<1>2. PICK b \in Seq(Record) : b = writer.outbox
  BY DEF Inv, LogInv, Writer
<1>3. file = Blob(a)
  BY <1>1 DEF FileInv
<1>4. PICK both \in Seq(Record) : both = a \o b
  BY JoinedRecords
<1>5. Blob(a) \o Blob(b) = Blob(both)
  BY <1>4, BlobConcat
<1>6. Records = both /\ Text = Blob(both)
  BY <1>1, <1>2, <1>3, <1>4, <1>5 DEF Records, Text
<1> QED
  BY <1>1, <1>3, <1>6, BlobLines

\* While checkouts name closed positions, a reload would find the live session.
LEMMA SessionReloads ==
  ASSUME Inv, FileInv, SessionInv
  PROVE  ClosedTargetsReload
<1> SUFFICES ASSUME phase = "live",
                    \A i \in DOMAIN Lines(Text) :
                      Lines(Text)[i].t = "checkout" => TailIsClosed(nodes, Lines(Text)[i].to)
             PROVE  ReloadsAsLive
  BY DEF ClosedTargetsReload
<1>1. WholeLines(Text) /\ Lines(Text) = Records
  BY TextIsRecords
<1>2. PICK recs \in Seq(Record) : recs = Records
  BY RecordsType
<1>3. Coherent(recs) /\ Reflects(recs, nodes, head, register)
  BY <1>2 DEF SessionInv
<1>4. nodes = NodesOf(recs)
  BY <1>3 DEF Reflects
<1>5. AllClosed(recs)
  BY <1>1, <1>2, <1>4 DEF AllClosed
<1>6. /\ recs # <<>> /\ Hangs(recs) /\ register = RegisterOf(recs)
      /\ head = HeadOf(recs) /\ TailIsClosed(nodes, head)
  BY <1>3, <1>5, Zenon DEF Reflects
<1>7. WellLinked(recs)
  BY <1>3, <1>6, Linked
<1> QED
  BY <1>1, <1>2, <1>4, <1>6, <1>7 DEF ReloadsAsLive, Parses

\* No turn is on disk without the results that answer its calls.
LEMMA SessionIsWholeOnDisk ==
  ASSUME Inv, FileInv, SessionInv
  PROVE  RoundtripsWhole
<1> SUFFICES ASSUME phase = "live"
             PROVE  RoundtripsWhole
  BY DEF RoundtripsWhole
<1>1. PICK recs \in Seq(Record) : recs = Records
  BY RecordsType
<1>2. PICK part \in Seq(Record) : part = Complete(file)
  BY RecordsType
<1>3. Lines(file) = part
  BY <1>2, TextIsRecords
<1>4. Coherent(part)
  <2>1. Coherent(recs)
    BY <1>1 DEF SessionInv
  <2>2. PICK k \in 0..Len(recs) : part = SubSeq(recs, 1, k)
    BY <1>1, <1>2, FileIsCut
  <2> QED
    BY <2>1, <2>2, CoherentCut
<1>5. WholeGroups(part)
  BY <1>2 DEF SessionInv
<1>6. ASSUME NEW i \in DOMAIN part, part[i].t = "node", part[i].kind = "call",
             NEW k \in 1..part[i].calls
      PROVE  /\ i + k \in DOMAIN part
             /\ part[i + k].t = "node" /\ part[i + k].kind = "result"
  <2>1. IsTurn(part[i])
    BY <1>6 DEF IsTurn, IsNode
  <2>2. i + part[i].calls <= Len(part)
    BY <1>5, <2>1 DEF WholeGroups
  <2>3. part[i].calls \in Nat
    <3>1. part[i] \in Node
      BY <1>6, RecordsByType
    <3> QED
      BY <3>1, BoundsAssumption DEF Node
  <2>4. i + k \in DOMAIN part /\ i < i + k /\ i + k \in i..(i + part[i].calls)
    BY <2>2, <2>3
  <2>5. Follows(part, i, i + k)
    BY <2>1, <2>4 DEF Follows
  <2> QED
    BY <1>4, <2>4, <2>5 DEF Coherent, IsNode
<1> QED
  BY <1>3, <1>6 DEF RoundtripsWhole

\* Every node of the tree is closed or has a closed position ahead of it.
LEMMA SessionIsCompletable ==
  ASSUME Inv, FileInv, SessionInv
  PROVE  OpenIsCompletable
<1>1. CASE phase = "live"
  <2>1. PICK recs \in Seq(Record) : recs = Records
    BY RecordsType
  <2>2. Coherent(recs) /\ Reflects(recs, nodes, head, register)
    BY <1>1, <2>1 DEF SessionInv
  <2>3. WholeGroups(recs) /\ nodes = NodesOf(recs)
    BY <2>2 DEF Reflects
  <2>4. WholeTree(nodes)
    BY <2>2, <2>3, LogTreeIsWhole
  <2> QED
    BY <2>4, WholeTreeIsCompletable DEF OpenIsCompletable
<1>2. CASE phase # "live"
  BY <1>2 DEF SessionInv, NoNodes, OpenIsCompletable
<1> QED
  BY <1>1, <1>2

\* The file is the session for every number of nodes, calls and models, every
\* failed write and every death between or inside lines: what reopens is what
\* lived, no roundtrip is half on disk, and every branch can be closed.  It
\* needs clean-ups that succeed and no death that cuts exactly a newline; the
\* two hazards of the writer are outside of it.
THEOREM FileIsSession == CleanWrites => (Spec => []FileIsTheSession)
<1> SUFFICES ASSUME CleanWrites PROVE Spec => []FileIsTheSession
  OBVIOUS
<1>1. Init => FileInv /\ SessionInv
  BY FileInvInit, SessionInit
<1>2. Inv /\ Inv' /\ FileInv /\ SessionInv /\ [Next]_vars => FileInv' /\ SessionInv'
  BY PromiseStep, SessionStep
<1>3. Inv /\ FileInv /\ SessionInv => FileIsTheSession
  BY SessionReloads, SessionIsWholeOnDisk, SessionIsCompletable DEF FileIsTheSession
<1> QED
  BY <1>1, <1>2, <1>3, Invariance, PTL DEF Spec
=============================================================================
