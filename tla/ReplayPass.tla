----------------------------- MODULE ReplayPass -----------------------------
(***************************************************************************)
(* A replay pass: the active chain of a session projected into the events  *)
(* a live run would have emitted (tabit-session replay.rs).  The chain     *)
(* grows here as the recorder writes it: a roundtrip as one blob, a        *)
(* compaction whose cut child is an entry of the chain.                    *)
(***************************************************************************)
EXTENDS Integers, Sequences, SequencesExt, FiniteSets

CONSTANTS CallIds, MaxEntries

VARIABLES chain,   \* the entries, root to head
          events   \* the pass over them

replayVars == <<chain, events>>

\* An entry's id is its place in the chain.  Content is a sequence of blocks.
Block == {<<"text">>, <<"reasoning">>} \cup {<<"call", c>> : c \in CallIds}
Contents == {<<b>> : b \in Block} \cup {<<b, d>> : b, d \in Block}
CallsOf(content) == SelectSeq(content, LAMBDA b : b[1] = "call")

-----------------------------------------------------------------------------
\* Projection::assistant_turn: the blocks in order, the text of adjacent blocks
\* gathered until a call, a reasoning block or the end flushes it.
Flush(acc) == IF acc.text THEN [out |-> Append(acc.out, <<"text">>), text |-> FALSE] ELSE acc
EmitBlock(acc, b) ==
  IF b[1] = "text" THEN [acc EXCEPT !.text = TRUE]
  ELSE [out |-> Append(Flush(acc).out, b), text |-> FALSE]
Blocks(content) == Flush(FoldLeft(EmitBlock, [out |-> <<>>, text |-> FALSE], content)).out
Stamp(turn, blocks) == [n \in DOMAIN blocks |-> [kind |-> "block", turn |-> turn, block |-> blocks[n]]]
Turn(c, n) == <<[kind |-> "begin", turn |-> n]>> \o Stamp(n, Blocks(c[n].content))
           \o <<[kind |-> "usage", turn |-> n], [kind |-> "commit", turn |-> n]>>

FirstTurn(c, n) == CHOOSE m \in 1..n : /\ c[m].kind = "assistant"
                                    /\ \A k \in 1..m - 1 : c[k].kind # "assistant"
\* Projection::tool_result: the turn is the last one of the chain so far.
CurrentTurn(c, n) == CHOOSE m \in 1..n : /\ c[m].kind = "assistant"
                                      /\ \A k \in m + 1..n : c[k].kind # "assistant"
Result(c, n) == <<[kind |-> "result", turn |-> CurrentTurn(c, n), call |-> c[n].call]>>

EntryEvents(c, n) ==
  CASE c[n].kind = "user" -> <<[kind |-> "user", entry |-> n]>>
    [] c[n].kind = "assistant" -> Turn(c, n)
    [] c[n].kind = "result" -> Result(c, n)
    [] OTHER -> <<>>

\* The markers of the compactions cut at an entry, oldest first, ahead of it.
Markers(c, n) ==
  LET cuts == SelectSeq([k \in DOMAIN c |-> k],
                        LAMBDA k : c[k].kind = "compaction" /\ c[k].cut = n)
  IN [k \in DOMAIN cuts |-> [kind |-> "compaction", entry |-> cuts[k], cut |-> n]]

ProjectEvents(c) == FoldLeft(LAMBDA acc, n : acc \o Markers(c, n) \o EntryEvents(c, n), <<>>,
                          [n \in DOMAIN c |-> n])

-----------------------------------------------------------------------------
\* The chain grows as the recorder writes it: a user message, a turn with its
\* results, a compaction cut at an entry.  Every session can be opened, so
\* every chain is replayed.
ReplayInit == chain = <<>> /\ events = <<>>
Grow(entries) == chain' = chain \o entries /\ events' = ProjectEvents(chain')
AddUser == Grow(<<[kind |-> "user"]>>)
AddTurn(content) ==
  /\ Len(chain) + 1 + Len(CallsOf(content)) <= MaxEntries
  /\ \A m, n \in DOMAIN content : content[m] = content[n] /\ content[m][1] = "call" => m = n
  /\ Grow(<<[kind |-> "assistant", content |-> content]>>
          \o [n \in DOMAIN CallsOf(content) |-> [kind |-> "result", call |-> CallsOf(content)[n][2]]])
AddCompaction ==
  \E cut \in DOMAIN chain : chain[cut].kind # "result" /\ Grow(<<[kind |-> "compaction", cut |-> cut]>>)

ReplayNext ==
  /\ Len(chain) < MaxEntries
  /\ AddUser \/ (\E c \in Contents : AddTurn(c)) \/ AddCompaction
ReplaySpec == ReplayInit /\ [][ReplayNext]_replayVars

-----------------------------------------------------------------------------
Kinds(ks) == {n \in DOMAIN events : events[n].kind \in ks}

\* A turn's brackets are balanced and never nest, and its blocks lie within them.
BracketsBalance ==
  \A n \in Kinds({"block", "usage", "commit"}) :
     \E b \in 1..n : /\ events[b] = [kind |-> "begin", turn |-> events[n].turn]
                     /\ \A k \in b + 1..n - 1 : /\ events[k].kind \in {"block", "usage"}
                                                /\ events[k].turn = events[n].turn

\* Every result names a call its own turn emitted ahead of it, although call
\* ids come back in later turns, and every emitted call gets exactly one.
ResultsFollowCalls ==
  LET Answers(n, c) == /\ events[n].kind = "result" /\ events[n].turn = events[c].turn
                       /\ events[c].block = <<"call", events[n].call>>
      Calls == {c \in Kinds({"block"}) : events[c].block[1] = "call"}
  IN /\ \A n \in Kinds({"result"}) : \E c \in Calls : c < n /\ Answers(n, c)
     /\ \A c \in Calls : Cardinality({n \in DOMAIN events : Answers(n, c)}) = 1

\* The marker of a compaction stands at its cut: every event ahead of it is of
\* an entry before the cut child, every event behind it of that entry or a later one.
EntryOf(e) == CASE e.kind \in {"user", "compaction"} -> e.entry
                [] OTHER -> e.turn
MarkersAtTheCut ==
  \A n \in Kinds({"compaction"}) : \A k \in DOMAIN events : events[k].kind # "compaction" =>
     (k < n <=> EntryOf(events[k]) < events[n].cut)

\* No entry of the chain is rendered twice, and only compactions are not in place.
OneRendering ==
  \A n \in DOMAIN chain : Cardinality({k \in Kinds({"user", "compaction", "begin"}) :
     EntryOf(events[k]) = n}) = IF chain[n].kind = "result" THEN 0 ELSE 1
=============================================================================
