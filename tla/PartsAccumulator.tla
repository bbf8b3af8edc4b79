-------------------------- MODULE PartsAccumulator --------------------------
(***************************************************************************)
(* Every short stream of raw events through the accumulator of             *)
(* StreamParts: what any adapter, in the tree or out of it, may send.      *)
(***************************************************************************)
EXTENDS StreamParts

CONSTANT Wires  \* what an adapter emits: [texts, reasonings, tools, policies, finals, events]

VARIABLES
  wire,
  log,       \* the events of a wire with prose
  latest,    \* the latest event of any wire
  acc,
  complete,  \* the ids a full call completed, and no fragment reopened
  over

partsVars == <<wire, log, latest, acc, complete, over>>

PartsInit == /\ wire \in Wires /\ log = <<>> /\ latest = Raw(None, None, 0) /\ acc = Empty
             /\ complete = {} /\ over = FALSE

Send(e) ==
  /\ ~over /\ latest.n < wire.events
  /\ latest' = [e EXCEPT !.n = latest.n + 1]
  /\ acc' = Apply(acc, latest')
  /\ log' = IF wire.texts # {} THEN Append(log, latest') ELSE log
  /\ complete' = CASE e.kind = "call" -> complete \cup {acc.inputs[i].id : i \in Adopted(acc, e.id)}
                   [] e.kind = "fragment" /\ Inputs(acc, e.id) = {} -> complete \ {e.id}
                   [] OTHER -> complete
  /\ UNCHANGED <<wire, over>>
Finish == ~over /\ over' = TRUE /\ acc' = Finished(acc) /\ UNCHANGED <<wire, log, latest, complete>>

Prose == \/ wire.texts # {} /\ \E kind \in {"text", "meta"} : Send(Raw(kind, None, 0))
         \/ \E id \in wire.texts : Send(Raw("start", id, 0))
         \/ \E id \in wire.reasonings, kind \in {"delta", "full", "signature"} : Send(Raw(kind, id, 0))
Fragments == wire.policies # {} /\ \E id \in wire.tools :
  \/ Send(Raw("fragment", id, 0)) \/ Send([Raw("fragment", id, 0) EXCEPT !.name = "f"])
  \/ \E piece \in {"null", "half", "rest"} : Send([Raw("fragment", id, 0) EXCEPT !.piece = piece])
  \/ \E policy \in wire.policies :
       Send([Raw("end", id, 0) EXCEPT !.policy = policy, !.name = IF policy = "stated" THEN "f" ELSE ""])
PartsNext == Prose \/ Fragments \/ Finish
             \/ \E id \in wire.tools : Send(Raw("call", id, 0))
             \/ \E reason \in wire.finals : Send(Raw("final", reason, 0))
PartsSpec == PartsInit /\ [][PartsNext]_partsVars

-----------------------------------------------------------------------------
parts == acc.parts
Holding(n) == {i \in DOMAIN parts : \E j \in DOMAIN parts[i].body : parts[i].body[j] = n}
Said(kinds) == {n \in DOMAIN log : log[n].kind \in kinds}
Between(a, b, kinds) == \E n \in Said(kinds) : a < n /\ n < b

\* No word is lost or told twice: it is in one part of its kind, in the order it came, unless the
\* full block of its own reasoning item replaced it.
EveryWordOnce ==
  /\ \A n \in Said({"text", "meta", "delta", "full"}) :
       \/ Cardinality(Holding(n)) = 1
       \/ log[n].kind = "delta" /\ Holding(n) = {}
          /\ \E m \in Said({"full"}) : m > n /\ log[m].id = log[n].id /\ Holding(m) # {}
  /\ \A i \in DOMAIN parts : \A a, b \in DOMAIN parts[i].body : a < b => parts[i].body[a] < parts[i].body[b]
  /\ \A i \in DOMAIN parts : parts[i].kind = "reasoning" =>
       \A a \in DOMAIN parts[i].body : wire.texts # {} => log[parts[i].body[a]].id = parts[i].id

\* A minted item ends at other output, a wire item does not: its deltas stay together until a full
\* block completes them.
ItemsEndAtBoundaries == \A a, b \in Said({"delta"}) :
  a < b /\ log[a].id = log[b].id /\ Holding(a) # {} /\ Holding(b) # {} =>
    IF log[a].id \in Minted
    THEN Between(a, b, {"text", "meta", "start", "call"}) => Holding(a) # Holding(b)
    ELSE ~(\E m \in Said({"full"}) : a < m /\ m < b /\ log[m].id = log[a].id) => Holding(a) = Holding(b)

\* What is written under an announced text id is one block, however often the id comes back.
TextUnder(n) ==
  LET before == {m \in Said({"start", "delta", "full", "call", "signature"}) : m < n}
      top == CHOOSE m \in before : \A k \in before : k <= m
  IN IF before # {} /\ log[top].kind = "start" THEN log[top].id ELSE None
OneBlockPerId == \A a, b \in Said({"text", "meta"}) :
  TextUnder(a) # None /\ TextUnder(a) = TextUnder(b) => Holding(a) = Holding(b)

\* What arrived whole is never rewritten, and no part changes place; text only grows.
NothingUnwritten == [][~over' => \A i \in DOMAIN parts :
  /\ i \in DOMAIN parts' /\ parts'[i].kind = parts[i].kind /\ parts'[i].id = parts[i].id
  /\ parts[i].whole => parts'[i].body = parts[i].body
  /\ ~parts'[i].whole => SubSeq(parts'[i].body, 1, Len(parts[i].body)) = parts[i].body]_partsVars

\* A signature signs what was streamed: it opens no part beside the item's own and closes no text.
SignaturesAddNothing == [][
  latest' # latest /\ latest'.kind = "signature" /\ Ordinals(acc, latest'.id) # {} =>
    Len(parts') = Len(parts) /\ acc'.text = acc.text]_partsVars

FragmentsMeetTheirCall == FragmentsMeet(acc)

\* A call restated whole is over: no end event of the same id repeats it until fragments reopen it.
RestatedOnce == [][latest' # latest /\ latest'.kind = "end" /\ latest'.id \in complete => parts' = parts]_partsVars

\* A terminal of a natural stop has no call before it.
StopHidesNoCall == [][acc.final = None /\ acc'.final = "stop" => Calls(acc) = {}]_partsVars
=============================================================================
