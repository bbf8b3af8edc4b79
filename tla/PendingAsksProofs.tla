-------------------------- MODULE PendingAsksProofs --------------------------
(***************************************************************************)
(* Proofs about PendingAsks: every state is well typed, no question        *)
(* settles twice before the reaper sees the exit, of all the answers to    *)
(* one question at most one is on its way or arrived, and a pending        *)
(* question can still be answered.                                         *)
(*                                                                         *)
(* The four rest on one inductive invariant.  What makes it inductive is   *)
(* the order on the pipe: a question's request is ahead of its settle, and *)
(* while the request is on the pipe nobody can have answered it.           *)
(***************************************************************************)
EXTENDS PendingAsks, FiniteSetTheorems, TLAPS

\* No answer to a is on its way, and none arrived.
Quiet(a) ==
  /\ \A f \in Frontends : taken[f] # a
  /\ \A i \in 1..Len(down) : down[i] # a
  /\ promise[a] # "answered"

\* At most one answer to a is on its way or arrived.
AtMostOne(a) ==
  /\ \A f, g \in Frontends : taken[f] = a /\ taken[g] = a => f = g
  /\ \A i, j \in 1..Len(down) : down[i] = a /\ down[j] = a => i = j
  /\ \A f \in Frontends, i \in 1..Len(down) : ~(taken[f] = a /\ down[i] = a)
  /\ promise[a] = "answered" =>
       (\A f \in Frontends : taken[f] # a) /\ (\A i \in 1..Len(down) : down[i] # a)

\* The pipe up: no frame twice, a request ahead of its settle and while its question
\* is unregistered here, a settle behind its promise.
PipeInv ==
  /\ \A i, j \in 1..Len(up) : up[i] = up[j] => i = j
  /\ \A i, j \in 1..Len(up), a \in Asks : up[i] = Request(a) /\ up[j] = Settled(a) => i < j
  /\ \A i \in 1..Len(up), a \in Asks : up[i] = Settled(a) => promise[a] \in {"answered", "dismissed"}
  /\ \A i \in 1..Len(up), a \in Asks : up[i] = Request(a) => promise[a] # None /\ transit[a] = "absent"

AnswerInv ==
  /\ \A a \in Asks : promise[a] = None => Quiet(a) /\ transit[a] = "absent"
  /\ \A i \in 1..Len(up), a \in Asks : up[i] = Request(a) => Quiet(a)
  /\ \A a \in Asks : IsOpen(transit[a]) => Quiet(a)
  /\ \A a \in Asks : AtMostOne(a)

SettleInv ==
  /\ \A a \in Asks : promise[a] = None => settles[a] = 0
  /\ \A a \in Asks : alive /\ promise[a] = "pending" => settles[a] = 0
  /\ \A a \in Asks : transit[a] # "absent" => settles[a] = 0
  /\ \A i \in 1..Len(up), a \in Asks : up[i] = Request(a) => settles[a] = 0
  /\ \A i \in 1..Len(up), a \in Asks : up[i] = Settled(a) /\ sweep["exit"] = "waiting" => settles[a] = 0
  /\ sweep["pipe"] # "waiting" => up = <<>>
  /\ \A s \in Sweepers : sweep[s] # "waiting" => ~alive
  /\ SettledOnce

Reachable ==
  \A a \in Asks : (alive /\ promise[a] = "pending") =>
    \/ \E i \in 1..Len(up) : up[i] = Request(a)
    \/ IsOpen(transit[a])
    \/ \E i \in 1..Len(down) : down[i] = a
    \/ \E f \in Frontends : taken[f] = a

Inv == TypeOK /\ PipeInv /\ AnswerInv /\ SettleInv /\ Reachable

-----------------------------------------------------------------------------
(* Facts about the operators.                                              *)

\* A frame is a request or a settle of one question, and tells which.
LEMMA FrameFacts ==
  /\ \A a \in Asks : Request(a) \in Frame /\ Settled(a) \in Frame
  /\ \A x \in Frame : x.t = "request" => x.ask \in Asks /\ x = Request(x.ask)
  /\ \A x \in Frame : x.t = "settled" => x.ask \in Asks /\ x = Settled(x.ask)
  /\ \A a, b \in Asks : Request(a) = Request(b) => a = b
  /\ \A a, b \in Asks : Settled(a) = Settled(b) => a = b
  /\ \A a, b \in Asks : Request(a) # Settled(b)
<1>1. \A a \in Asks : Request(a) \in Frame /\ Settled(a) \in Frame
  BY DEF Frame
<1>2. \A a : /\ Request(a).t = "request" /\ Request(a).ask = a
             /\ Settled(a).t = "settled" /\ Settled(a).ask = a
  BY DEF Request, Settled
<1>3. \A x \in Frame : \E a \in Asks : x = Request(a) \/ x = Settled(a)
  BY DEF Frame
<1>4. "request" # "settled"
  OBVIOUS
<1>5. ASSUME NEW x \in Frame
      PROVE  /\ x.t = "request" => x.ask \in Asks /\ x = Request(x.ask)
             /\ x.t = "settled" => x.ask \in Asks /\ x = Settled(x.ask)
  <2>1. PICK a \in Asks : x = Request(a) \/ x = Settled(a)
    BY <1>3
  <2>2. QED
    BY <2>1, <1>2, <1>4
<1>6. \A a, b \in Asks : /\ Request(a) = Request(b) => a = b
                         /\ Settled(a) = Settled(b) => a = b
                         /\ Request(a) # Settled(b)
  BY <1>2, <1>4
<1>7. QED
  BY <1>1, <1>5, <1>6

LEMMA EntryFacts ==
  /\ \A e \in Entry : AfterAnswer(e) \in Entry
  /\ \A e \in Entry : ~IsOpen(AfterAnswer(e))
  /\ \A e \in Entry : AfterAnswer(e) # "absent" => e # "absent"
  /\ AfterAnswer("absent") = "absent"
<1>1. AfterAnswer("open") = "absent"
  BY DEF AfterAnswer
<1>2. AfterAnswer("open owing") = "answered owing"
  BY DEF AfterAnswer
<1>3. AfterAnswer("answered owing") = "answered"
  BY DEF AfterAnswer
<1>4. AfterAnswer("answered") = "answered" /\ AfterAnswer("absent") = "absent"
  BY DEF AfterAnswer
<1>5. QED
  BY <1>1, <1>2, <1>3, <1>4 DEF Entry, IsOpen

\* What Append, Tail and a prefix are, index by index.
LEMMA AppendFacts ==
  ASSUME NEW S, NEW s \in Seq(S), NEW e \in S
  PROVE  /\ Append(s, e) \in Seq(S)
         /\ Len(s) \in Nat /\ Len(Append(s, e)) = Len(s) + 1
         /\ \A i \in 1..Len(s) : Append(s, e)[i] = s[i]
         /\ Append(s, e)[Len(s) + 1] = e
OBVIOUS

LEMMA TailFacts ==
  ASSUME NEW S, NEW s \in Seq(S), s # <<>>
  PROVE  /\ Tail(s) \in Seq(S) /\ Head(s) \in S /\ Head(s) = s[1]
         /\ Len(s) \in Nat /\ Len(s) >= 1 /\ Len(Tail(s)) = Len(s) - 1
         /\ \A i \in 1..Len(Tail(s)) : Tail(s)[i] = s[i + 1]
OBVIOUS

LEMMA PrefixFacts ==
  ASSUME NEW S, NEW s \in Seq(S), NEW n \in 0..Len(s)
  PROVE  /\ SubSeq(s, 1, n) \in Seq(S)
         /\ Len(s) \in Nat /\ Len(SubSeq(s, 1, n)) = n
         /\ \A i \in 1..n : SubSeq(s, 1, n)[i] = s[i]
OBVIOUS

-----------------------------------------------------------------------------
(* Types.                                                                  *)

\* A settle closes the card of its question everywhere, and counts once.
LEMMA CloseFacts ==
  ASSUME TypeOK, NEW a \in Asks, Close(a)
  PROVE  /\ card' \in [Frontends -> [Asks -> {None, "shown", "closed"}]]
         /\ settles' \in [Asks -> Nat]
         /\ settles' = [settles EXCEPT ![a] = settles[a] + 1]
         /\ \A f \in Frontends : card'[f][a] = "closed"
         /\ \A f \in Frontends, b \in Asks : b # a => card'[f][b] = card[f][b]
<1>1. card' = [f \in Frontends |-> [card[f] EXCEPT ![a] = "closed"]]
  BY DEF Close
<1>2. settles' = [settles EXCEPT ![a] = settles[a] + 1]
  BY DEF Close
<1>3. \A f \in Frontends : card[f] \in [Asks -> {None, "shown", "closed"}]
  BY DEF TypeOK
<1>4. settles \in [Asks -> Nat]
  BY DEF TypeOK
<1>5. QED
  BY <1>1, <1>2, <1>3, <1>4

LEMMA TypeInit == Init => TypeOK
BY DEF Init, TypeOK, Entry, None

LEMMA TypeStep == TypeOK /\ [Next]_vars => TypeOK'
<1> SUFFICES ASSUME TypeOK, [Next]_vars PROVE TypeOK'
  OBVIOUS
<1> USE DEF TypeOK
<1>1. ASSUME NEW a \in Asks, Ask(a) PROVE TypeOK'
  BY <1>1, FrameFacts DEF Ask, parentVars, frontVars, None
<1>2. CASE AnswerArrives
  <2> DEFINE a == Head(down)
  <2>1. a \in Asks /\ down' \in Seq(Asks)
    BY <1>2, TailFacts DEF AnswerArrives
  <2>2. origin' = [origin EXCEPT ![a] = "absent"]
    BY <1>2, <2>1 DEF AnswerArrives, AfterAnswer
  <2>3. CASE IsOpen(origin[a])
    <3>1. promise' = [promise EXCEPT ![a] = "answered"] /\ up' = Append(up, Settled(a))
      BY <1>2, <2>3 DEF AnswerArrives
    <3>2. up' \in Seq(Frame)
      BY <2>1, <3>1, FrameFacts, AppendFacts
    <3> HIDE DEF a
    <3>3. QED
      BY <1>2, <2>1, <2>2, <3>1, <3>2 DEF AnswerArrives, parentVars, frontVars, None
  <2>4. CASE ~IsOpen(origin[a])
    <3>1. UNCHANGED <<promise, up>> /\ origin[a] = "absent"
      BY <1>2, <2>1, <2>4 DEF AnswerArrives, IsOpen
    <3> HIDE DEF a
    <3>2. QED
      BY <1>2, <2>1, <2>2, <3>1 DEF AnswerArrives, parentVars, frontVars, None
  <2>5. QED
    BY <2>3, <2>4
<1>3. CASE Terminal
  BY <1>3 DEF Terminal, parentVars, frontVars
<1>4. ASSUME NEW a \in Asks, Dismiss(a) PROVE TypeOK'
  <2>1. CASE IsOpen(origin[a])
    <3>1. promise' = [promise EXCEPT ![a] = "dismissed"] /\ up' = Append(up, Settled(a))
      BY <1>4, <2>1 DEF Dismiss
    <3>. up' \in Seq(Frame)
      BY <3>1, FrameFacts, AppendFacts
    <3>2. QED
      BY <1>4, <3>1 DEF Dismiss, parentVars, frontVars, None
  <2>2. CASE ~IsOpen(origin[a])
    <3>1. UNCHANGED <<promise, up>> /\ origin[a] = "absent"
      BY <1>4, <2>2 DEF Dismiss, IsOpen
    <3>2. QED
      BY <1>4, <3>1 DEF Dismiss, parentVars, frontVars, None
  <2>3. QED
    BY <2>1, <2>2
<1>5. CASE Die
  <2>1. up' \in Seq(Frame)
    BY <1>5, PrefixFacts DEF Die
  <2>2. QED
    BY <1>5, <2>1 DEF Die, parentVars, frontVars
<1>6. CASE RequestCrosses
  <2>1. Head(up).ask \in Asks /\ up' \in Seq(Frame)
    BY <1>6, TailFacts, FrameFacts DEF RequestCrosses
  <2>2. QED
    BY <1>6, <2>1 DEF RequestCrosses, Show, childVars, Entry
<1>7. CASE SettleCrosses
  <2>1. Head(up).ask \in Asks /\ up' \in Seq(Frame)
    BY <1>7, TailFacts, FrameFacts DEF SettleCrosses
  <2>2. card' \in [Frontends -> [Asks -> {None, "shown", "closed"}]] /\ settles' \in [Asks -> Nat]
    BY <1>7, <2>1, CloseFacts DEF SettleCrosses
  <2>3. QED
    BY <1>7, <2>1, <2>2 DEF SettleCrosses, childVars, Entry
<1>8. ASSUME NEW f \in Frontends, NEW a \in Asks, Answer(f, a) PROVE TypeOK'
  BY <1>8, EntryFacts DEF Answer, childVars
<1>9. ASSUME NEW f \in Frontends, DeliverAnswer(f) PROVE TypeOK'
  BY <1>9 DEF DeliverAnswer, childVars, frontVars
<1>10. ASSUME NEW s \in Sweepers, Sweeping(s) PROVE TypeOK'
  <2>1. CASE SweepBegins(s)
    BY <2>1 DEF SweepBegins, childVars, frontVars
  <2>2. CASE SweepEnds(s)
    BY <2>2 DEF SweepEnds, childVars, frontVars
  <2>3. ASSUME NEW a \in Asks, Sweep(s, a) PROVE TypeOK'
    <3>1. card' \in [Frontends -> [Asks -> {None, "shown", "closed"}]] /\ settles' \in [Asks -> Nat]
      BY <2>3, CloseFacts DEF Sweep
    <3>2. QED
      BY <2>3, <3>1 DEF Sweep, childVars, Entry
  <2>4. QED
    BY <1>10, <2>1, <2>2, <2>3 DEF Sweeping
<1>11. CASE UNCHANGED vars
  BY <1>11 DEF vars, childVars, parentVars, frontVars
<1>12. QED
  BY <1>1, <1>2, <1>3, <1>4, <1>5, <1>6, <1>7, <1>8, <1>9, <1>10, <1>11
     DEF Next, Child, Reader, Reaper, Sweepers

-----------------------------------------------------------------------------
(* The pipe.                                                               *)

\* What shrinks the pipe at either end, or leaves it, keeps its order.
LEMMA PipeShrinks ==
  ASSUME TypeOK, PipeInv, NEW k \in {0, 1}, Len(up') \in Nat, Len(up') + k <= Len(up),
         \A i \in 1..Len(up') : up'[i] = up[i + k],
         promise' = promise,
         \A i \in 1..Len(up'), a \in Asks : up'[i] = Request(a) => transit'[a] = "absent"
  PROVE  PipeInv'
<1>1. Len(up) \in Nat
  BY DEF TypeOK
<1>2. \A i \in 1..Len(up') : i + k \in 1..Len(up)
  BY <1>1
<1>3. \A i, j \in 1..Len(up') : up'[i] = up'[j] => i = j
  BY <1>1, <1>2 DEF PipeInv
<1>4. \A i, j \in 1..Len(up'), a \in Asks : up'[i] = Request(a) /\ up'[j] = Settled(a) => i < j
  BY <1>1, <1>2 DEF PipeInv
<1>5. \A i \in 1..Len(up'), a \in Asks : up'[i] = Settled(a) => promise'[a] \in {"answered", "dismissed"}
  BY <1>1, <1>2 DEF PipeInv
<1>6. \A i \in 1..Len(up'), a \in Asks : up'[i] = Request(a) => promise'[a] # None
  BY <1>1, <1>2 DEF PipeInv
<1>7. QED
  BY <1>3, <1>4, <1>5, <1>6 DEF PipeInv

\* A frame that is new, and no request behind its settle, keeps the order.
LEMMA PipeGrows ==
  ASSUME TypeOK, PipeInv, NEW a \in Asks, NEW x \in Frame, up' = Append(up, x),
         \A i \in 1..Len(up) : up[i] # x,
         x = Request(a) \/ x = Settled(a),
         x = Request(a) => /\ promise'[a] # None /\ transit'[a] = "absent"
                           /\ \A i \in 1..Len(up) : up[i] # Settled(a),
         x = Settled(a) => promise'[a] \in {"answered", "dismissed"},
         \A b \in Asks : promise[b] \in {"answered", "dismissed"} => promise'[b] \in {"answered", "dismissed"},
         \A b \in Asks : promise[b] # None => promise'[b] # None,
         transit' = transit
  PROVE  PipeInv'
<1>1. /\ Len(up) \in Nat /\ Len(up') = Len(up) + 1 /\ up'[Len(up) + 1] = x
      /\ \A i \in 1..Len(up) : up'[i] = up[i]
  BY AppendFacts DEF TypeOK
<1>2. \A i \in 1..Len(up') : i \in 1..Len(up) \/ i = Len(up) + 1
  BY <1>1
<1>3. \A i, j \in 1..Len(up') : up'[i] = up'[j] => i = j
  BY <1>1, <1>2 DEF PipeInv
<1>4. ASSUME NEW i \in 1..Len(up'), NEW j \in 1..Len(up'), NEW b \in Asks,
             up'[i] = Request(b), up'[j] = Settled(b)
      PROVE  i < j
  <2>1. CASE i \in 1..Len(up) /\ j \in 1..Len(up)
    BY <1>1, <1>4, <2>1 DEF PipeInv
  <2>2. CASE i \in 1..Len(up) /\ j = Len(up) + 1
    BY <1>1, <2>2
  <2>3. CASE i = Len(up) + 1 /\ j = Len(up) + 1
    BY <1>1, <1>4, <2>3, FrameFacts
  <2>4. CASE i = Len(up) + 1 /\ j \in 1..Len(up)
    <3>1. x = Request(b) /\ up[j] = Settled(b)
      BY <1>1, <1>4, <2>4
    <3>2. b = a /\ x = Request(a)
      BY <3>1, FrameFacts
    <3>3. QED
      BY <3>1, <3>2, <2>4
  <2>5. QED
    BY <1>2, <2>1, <2>2, <2>3, <2>4
<1>5. ASSUME NEW i \in 1..Len(up'), NEW b \in Asks, up'[i] = Settled(b)
      PROVE  promise'[b] \in {"answered", "dismissed"}
  <2>1. CASE i \in 1..Len(up)
    BY <1>1, <1>5, <2>1 DEF PipeInv
  <2>2. CASE i = Len(up) + 1
    BY <1>1, <1>5, <2>2, FrameFacts
  <2>3. QED
    BY <1>2, <2>1, <2>2
<1>6. ASSUME NEW i \in 1..Len(up'), NEW b \in Asks, up'[i] = Request(b)
      PROVE  promise'[b] # None /\ transit'[b] = "absent"
  <2>1. CASE i \in 1..Len(up)
    BY <1>1, <1>6, <2>1 DEF PipeInv
  <2>2. CASE i = Len(up) + 1
    BY <1>1, <1>6, <2>2, FrameFacts
  <2>3. QED
    BY <1>2, <2>1, <2>2
<1>7. QED
  BY <1>3, <1>4, <1>5, <1>6 DEF PipeInv

LEMMA PipeStep == TypeOK /\ PipeInv /\ AnswerInv /\ [Next]_vars => PipeInv'
<1> SUFFICES ASSUME TypeOK, PipeInv, AnswerInv, [Next]_vars PROVE PipeInv'
  OBVIOUS
<1> Len(up) \in Nat
  BY DEF TypeOK
<1>1. ASSUME NEW a \in Asks, Ask(a) PROVE PipeInv'
  <2>1. /\ promise[a] = None /\ transit[a] = "absent"
        /\ \A i \in 1..Len(up) : up[i] # Request(a) /\ up[i] # Settled(a)
    BY <1>1 DEF Ask, PipeInv, AnswerInv, None
  <2>2. up' = Append(up, Request(a)) /\ transit' = transit /\ promise' = [promise EXCEPT ![a] = "pending"]
    BY <1>1 DEF Ask, parentVars
  <2>3. /\ promise'[a] # None
        /\ \A b \in Asks : promise[b] \in {"answered", "dismissed"} => promise'[b] \in {"answered", "dismissed"}
        /\ \A b \in Asks : promise[b] # None => promise'[b] # None
    BY <2>1, <2>2 DEF TypeOK, None
  <2>4. QED
    BY <2>1, <2>2, <2>3, FrameFacts, PipeGrows
<1>2. ASSUME NEW a \in Asks, promise[a] = "pending", up' = Append(up, Settled(a)), transit' = transit,
             NEW o \in {"answered", "dismissed"}, promise' = [promise EXCEPT ![a] = o]
      PROVE  PipeInv'
  <2>1. \A i \in 1..Len(up) : up[i] # Settled(a)
    BY <1>2 DEF PipeInv
  <2>2. /\ promise'[a] \in {"answered", "dismissed"}
        /\ \A b \in Asks : promise[b] \in {"answered", "dismissed"} => promise'[b] \in {"answered", "dismissed"}
        /\ \A b \in Asks : promise[b] # None => promise'[b] # None
    BY <1>2 DEF TypeOK, None
  <2>3. QED
    BY <1>2, <2>1, <2>2, FrameFacts, PipeGrows
<1>3. ASSUME up' = up, promise' = promise,
             \A a \in Asks : transit[a] = "absent" => transit'[a] = "absent"
      PROVE  PipeInv'
  BY <1>3 DEF PipeInv
<1>4. CASE AnswerArrives
  <2> DEFINE a == Head(down)
  <2>1. a \in Asks /\ transit' = transit
    BY <1>4, TailFacts DEF AnswerArrives, parentVars, TypeOK
  <2>2. CASE IsOpen(origin[a])
    <3>1. promise[a] = "pending" /\ promise' = [promise EXCEPT ![a] = "answered"] /\ up' = Append(up, Settled(a))
      BY <1>4, <2>1, <2>2 DEF AnswerArrives, IsOpen, TypeOK
    <3> HIDE DEF a
    <3>2. QED
      BY <1>2, <2>1, <3>1
  <2>3. CASE ~IsOpen(origin[a])
    BY <1>4, <2>1, <2>3, <1>3 DEF AnswerArrives
  <2>4. QED
    BY <2>2, <2>3
<1>5. ASSUME NEW a \in Asks, Dismiss(a) PROVE PipeInv'
  <2>1. transit' = transit
    BY <1>5 DEF Dismiss, parentVars
  <2>2. CASE IsOpen(origin[a])
    <3>1. promise[a] = "pending" /\ promise' = [promise EXCEPT ![a] = "dismissed"] /\ up' = Append(up, Settled(a))
      BY <1>5, <2>2 DEF Dismiss, IsOpen, TypeOK
    <3>2. QED
      BY <1>2, <2>1, <3>1
  <2>3. CASE ~IsOpen(origin[a])
    BY <1>5, <2>1, <2>3, <1>3 DEF Dismiss
  <2>4. QED
    BY <2>2, <2>3
<1>6. CASE Die
  <2>1. PICK n \in 0..Len(up) : up' = SubSeq(up, 1, n)
    BY <1>6 DEF Die
  <2>2. Len(up') = n /\ \A i \in 1..n : up'[i] = up[i + 0]
    BY <2>1, PrefixFacts DEF TypeOK
  <2>3. promise' = promise /\ transit' = transit
    BY <1>6 DEF Die, parentVars
  <2>4. \A i \in 1..Len(up'), a \in Asks : up'[i] = Request(a) => transit'[a] = "absent"
    BY <2>2, <2>3 DEF PipeInv
  <2>5. QED
    BY <2>2, <2>3, <2>4, PipeShrinks
<1>7. CASE RequestCrosses \/ SettleCrosses
  <2> DEFINE a == Head(up).ask
  <2>1. up # <<>> /\ up' = Tail(up) /\ promise' = promise /\ Head(up) \in {Request(a), Settled(a)} /\ a \in Asks
    BY <1>7, TailFacts, FrameFacts DEF RequestCrosses, SettleCrosses, childVars, TypeOK
  <2>2. /\ Len(up') \in Nat /\ Len(up') + 1 <= Len(up) /\ Head(up) = up[1]
        /\ \A i \in 1..Len(up') : up'[i] = up[i + 1]
    BY <2>1, TailFacts DEF TypeOK
  <2>3. \A b \in Asks : b # a => transit'[b] = transit[b]
    BY <1>7, <2>1 DEF RequestCrosses, SettleCrosses, TypeOK
  <2>4. SettleCrosses => transit'[a] = "absent"
    BY <2>1 DEF SettleCrosses, TypeOK
  <2>5. ASSUME RequestCrosses PROVE up[1] = Request(a)
    <3>1. Head(up).t = "request" /\ Head(up) \in Frame
      BY <2>1, <2>5, FrameFacts DEF RequestCrosses
    <3>2. QED
      BY <3>1, <2>2, FrameFacts
  <2> HIDE DEF a
  <2>6. ASSUME NEW i \in 1..Len(up'), NEW b \in Asks, up'[i] = Request(b)
        PROVE  transit'[b] = "absent"
    <3>1. i + 1 \in 1..Len(up) /\ 1 \in 1..Len(up) /\ i + 1 # 1 /\ up[i + 1] = Request(b)
      BY <2>2, <2>6
    <3>2. transit[b] = "absent"
      BY <3>1 DEF PipeInv
    <3>3. b = a => ~RequestCrosses
      BY <2>5, <3>1 DEF PipeInv
    <3>4. QED
      BY <1>7, <2>3, <2>4, <3>2, <3>3
  <2>7. QED
    BY <2>1, <2>2, <2>6, PipeShrinks
<1>8. ASSUME NEW f \in Frontends, NEW a \in Asks, Answer(f, a) PROVE PipeInv'
  <2>1. up' = up /\ promise' = promise /\ transit' = [transit EXCEPT ![a] = AfterAnswer(transit[a])]
    BY <1>8 DEF Answer, childVars
  <2>2. \A b \in Asks : transit[b] = "absent" => transit'[b] = "absent"
    BY <2>1, EntryFacts DEF TypeOK
  <2>3. QED
    BY <2>1, <2>2, <1>3
<1>9. ASSUME NEW s \in Sweepers, NEW a \in Asks, Sweep(s, a) PROVE PipeInv'
  <2>1. up' = up /\ promise' = promise /\ transit' = [transit EXCEPT ![a] = "absent"]
    BY <1>9 DEF Sweep, childVars
  <2>2. \A b \in Asks : transit[b] = "absent" => transit'[b] = "absent"
    BY <2>1 DEF TypeOK
  <2>3. QED
    BY <2>1, <2>2, <1>3
<1>10. CASE \/ Terminal \/ UNCHANGED vars
            \/ \E f \in Frontends : DeliverAnswer(f)
            \/ \E s \in Sweepers : SweepBegins(s) \/ SweepEnds(s)
  <2>1. up' = up /\ promise' = promise /\ transit' = transit
    BY <1>10 DEF Terminal, DeliverAnswer, SweepBegins, SweepEnds, vars, childVars, parentVars
  <2>2. QED
    BY <2>1, <1>3
<1>11. QED
  BY <1>1, <1>4, <1>5, <1>6, <1>7, <1>8, <1>9, <1>10
     DEF Next, Child, Reader, Reaper, Sweeping, Sweepers


-----------------------------------------------------------------------------
(* The answers.                                                            *)

\* What moves no answer and opens no entry of an answered question.
LEMMA AnswerKept ==
  ASSUME AnswerInv, taken' = taken, down' = down,
         \A a \in Asks : promise'[a] = "answered" <=> promise[a] = "answered",
         \A a \in Asks : promise'[a] = None => promise[a] = None /\ transit'[a] = "absent",
         \A a \in Asks : IsOpen(transit'[a]) => Quiet(a),
         \A i \in 1..Len(up'), a \in Asks : up'[i] = Request(a) => Quiet(a)
  PROVE  AnswerInv'
<1>1. \A a \in Asks : Quiet(a) => Quiet(a)'
  BY DEF Quiet
<1>2. \A a \in Asks : AtMostOne(a) => AtMostOne(a)'
  BY DEF AtMostOne
<1>3. QED
  BY <1>1, <1>2 DEF AnswerInv

\* A settle sent adds no request to the pipe.
LEMMA SettleSent ==
  ASSUME TypeOK, NEW a \in Asks, up' = Append(up, Settled(a))
  PROVE  /\ \A i \in 1..Len(up'), b \in Asks :
              up'[i] = Request(b) => i \in 1..Len(up) /\ up[i] = Request(b)
         /\ \A i \in 1..Len(up'), b \in Asks :
              up'[i] = Settled(b) => b = a \/ (i \in 1..Len(up) /\ up[i] = Settled(b))
         /\ \A i \in 1..Len(up) : i \in 1..Len(up') /\ up'[i] = up[i]
<1>1. /\ Len(up) \in Nat /\ Len(up') = Len(up) + 1 /\ up'[Len(up) + 1] = Settled(a)
      /\ \A i \in 1..Len(up) : up'[i] = up[i]
  BY AppendFacts, FrameFacts DEF TypeOK
<1>2. \A i \in 1..Len(up') : i \in 1..Len(up) \/ i = Len(up) + 1
  BY <1>1
<1>3. QED
  BY <1>1, <1>2, FrameFacts

LEMMA AnswerStep == TypeOK /\ PipeInv /\ AnswerInv /\ [Next]_vars => AnswerInv'
<1> SUFFICES ASSUME TypeOK, PipeInv, AnswerInv, [Next]_vars PROVE AnswerInv'
  OBVIOUS
<1> Len(up) \in Nat /\ Len(down) \in Nat
  BY DEF TypeOK
<1>1. ASSUME NEW a \in Asks, Ask(a) PROVE AnswerInv'
  <2>1. promise[a] = None /\ Quiet(a)
    BY <1>1 DEF Ask, AnswerInv
  <2>2. /\ up' = Append(up, Request(a)) /\ transit' = transit /\ taken' = taken /\ down' = down
        /\ promise' = [promise EXCEPT ![a] = "pending"]
    BY <1>1 DEF Ask, parentVars
  <2>3. /\ Len(up') = Len(up) + 1 /\ up'[Len(up) + 1] = Request(a)
        /\ \A i \in 1..Len(up) : up'[i] = up[i]
    BY <2>2, AppendFacts, FrameFacts DEF TypeOK
  <2>4. \A b \in Asks : /\ promise'[b] = "answered" <=> promise[b] = "answered"
                        /\ promise'[b] = None => promise[b] = None
    BY <2>1, <2>2 DEF TypeOK, None
  <2>5. ASSUME NEW i \in 1..Len(up'), NEW b \in Asks, up'[i] = Request(b) PROVE Quiet(b)
    <3>1. CASE i \in 1..Len(up)
      BY <2>3, <2>5, <3>1 DEF AnswerInv
    <3>2. CASE i = Len(up) + 1
      BY <2>1, <2>3, <2>5, <3>2, FrameFacts
    <3>3. QED
      BY <2>3, <3>1, <3>2
  <2>6. \A b \in Asks : /\ IsOpen(transit'[b]) => Quiet(b)
                        /\ promise[b] = None => transit'[b] = "absent"
    BY <2>2 DEF AnswerInv
  <2>7. QED
    BY <2>2, <2>4, <2>5, <2>6, AnswerKept
<1>2. CASE AnswerArrives
  <2> DEFINE a == Head(down)
  <2>1. a \in Asks /\ transit' = transit /\ taken' = taken
    BY <1>2, TailFacts DEF AnswerArrives, parentVars, TypeOK
  <2>2. /\ Len(down') = Len(down) - 1 /\ Len(down) >= 1 /\ down[1] = a
        /\ \A i \in 1..Len(down') : down'[i] = down[i + 1]
    BY <1>2, TailFacts DEF AnswerArrives, TypeOK
  <2>3. \A b \in Asks : b # a => promise'[b] = promise[b]
    BY <1>2, <2>1 DEF AnswerArrives, TypeOK
  <2>4. promise'[a] = None => promise[a] = None
    BY <1>2, <2>1 DEF AnswerArrives, TypeOK, None
  <2>5. \A i \in 1..Len(up'), b \in Asks : up'[i] = Request(b) => \E k \in 1..Len(up) : up[k] = Request(b)
    <3>1. CASE up' = up
      BY <3>1
    <3>2. CASE up' = Append(up, Settled(a))
      BY <2>1, <3>2, SettleSent
    <3>3. QED
      BY <1>2, <3>1, <3>2 DEF AnswerArrives
  <2> HIDE DEF a
  <2>6. ASSUME NEW b \in Asks, Quiet(b) PROVE Quiet(b)'
    <3>1. b # a
      BY <2>2, <2>6 DEF Quiet
    <3>2. QED
      BY <2>1, <2>2, <2>3, <2>6, <3>1 DEF Quiet
  <2>7. ASSUME NEW b \in Asks PROVE AtMostOne(b)'
    <3>1. AtMostOne(b) /\ \A i \in 1..Len(down') : i + 1 \in 1..Len(down) /\ 1 \in 1..Len(down)
      BY <2>2 DEF AnswerInv
    <3>2. \A i, k \in 1..Len(down') : down'[i] = b /\ down'[k] = b => i = k
      BY <2>2, <3>1 DEF AtMostOne
    <3>3. \A f \in Frontends, i \in 1..Len(down') : ~(taken'[f] = b /\ down'[i] = b)
      BY <2>1, <2>2, <3>1 DEF AtMostOne
    <3>4. ASSUME promise'[b] = "answered"
          PROVE  (\A f \in Frontends : taken'[f] # b) /\ (\A i \in 1..Len(down') : down'[i] # b)
      <4>1. CASE b = a
        <5>1. \A i \in 1..Len(down') : i + 1 # 1
          BY <2>2
        <5>2. QED
          BY <2>1, <2>2, <3>1, <4>1, <5>1 DEF AtMostOne
      <4>2. CASE b # a
        BY <2>1, <2>2, <2>3, <3>1, <3>4, <4>2 DEF AtMostOne
      <4>3. QED
        BY <4>1, <4>2
    <3>5. QED
      BY <2>1, <3>1, <3>2, <3>3, <3>4 DEF AtMostOne
  <2>8. \A b \in Asks : promise'[b] = None => promise[b] = None
    BY <2>3, <2>4
  <2>9. \A i \in 1..Len(up'), b \in Asks : up'[i] = Request(b) => Quiet(b)'
    BY <2>5, <2>6 DEF AnswerInv
  <2>10. QED
    BY <2>1, <2>6, <2>7, <2>8, <2>9 DEF AnswerInv
<1>3. ASSUME NEW a \in Asks, Dismiss(a) PROVE AnswerInv'
  <2>1. taken' = taken /\ down' = down /\ transit' = transit
    BY <1>3 DEF Dismiss, parentVars
  <2>2. \A b \in Asks : /\ promise'[b] = "answered" <=> promise[b] = "answered"
                        /\ promise'[b] = None => promise[b] = None
    BY <1>3 DEF Dismiss, TypeOK, None, IsOpen
  <2>3. \A i \in 1..Len(up'), b \in Asks : up'[i] = Request(b) => \E k \in 1..Len(up) : up[k] = Request(b)
    <3>1. CASE up' = up
      BY <3>1
    <3>2. CASE up' = Append(up, Settled(a))
      BY <3>2, SettleSent
    <3>3. QED
      BY <1>3, <3>1, <3>2 DEF Dismiss
  <2>4. \A b \in Asks : /\ IsOpen(transit'[b]) => Quiet(b)
                        /\ promise[b] = None => transit'[b] = "absent"
    BY <2>1 DEF AnswerInv
  <2>5. \A i \in 1..Len(up'), b \in Asks : up'[i] = Request(b) => Quiet(b)
    BY <2>3 DEF AnswerInv
  <2>6. QED
    BY <2>1, <2>2, <2>4, <2>5, AnswerKept
<1>4. ASSUME NEW f \in Frontends, NEW a \in Asks, Answer(f, a) PROVE AnswerInv'
  <2>1. /\ up' = up /\ down' = down /\ promise' = promise /\ taken[f] = None
        /\ transit' = [transit EXCEPT ![a] = AfterAnswer(transit[a])]
    BY <1>4 DEF Answer, childVars
  <2>2. \A b \in Asks : /\ IsOpen(transit'[b]) => IsOpen(transit[b]) /\ b # a
                        /\ transit[b] = "absent" => transit'[b] = "absent"
    BY <2>1, EntryFacts DEF TypeOK
  <2>3. CASE ~IsOpen(transit[a])
    <3>1. taken' = taken
      BY <1>4, <2>3 DEF Answer
    <3>2. QED
      BY <2>1, <2>2, <3>1, AnswerKept DEF AnswerInv
  <2>4. CASE IsOpen(transit[a])
    <3>1. taken' = [taken EXCEPT ![f] = a]
      BY <1>4, <2>4 DEF Answer
    <3>2. Quiet(a) /\ transit[a] # "absent"
      BY <2>4 DEF AnswerInv, IsOpen
    <3>3. \A b \in Asks : b # a /\ Quiet(b) => Quiet(b)'
      BY <2>1, <3>1 DEF Quiet, TypeOK
    <3>4. AtMostOne(a)'
      BY <2>1, <3>1, <3>2 DEF AtMostOne, Quiet, TypeOK
    <3>5. ASSUME NEW b \in Asks, b # a PROVE AtMostOne(b)'
      <4>1. AtMostOne(b)
        BY DEF AnswerInv
      <4>2. \A g \in Frontends : taken'[g] = b => taken[g] = b
        BY <3>1, <3>5 DEF TypeOK
      <4>3. QED
        BY <2>1, <4>1, <4>2 DEF AtMostOne
    <3>6. \A b \in Asks : promise'[b] = None => Quiet(b)' /\ transit'[b] = "absent"
      BY <2>1, <2>2, <3>2, <3>3 DEF AnswerInv
    <3>7. \A i \in 1..Len(up'), b \in Asks : up'[i] = Request(b) => Quiet(b)'
      BY <2>1, <3>2, <3>3 DEF AnswerInv, PipeInv
    <3>8. \A b \in Asks : IsOpen(transit'[b]) => Quiet(b)'
      BY <2>2, <3>3 DEF AnswerInv
    <3>9. QED
      BY <3>4, <3>5, <3>6, <3>7, <3>8 DEF AnswerInv
  <2>5. QED
    BY <2>3, <2>4
<1>5. ASSUME NEW f \in Frontends, DeliverAnswer(f) PROVE AnswerInv'
  <2>1. /\ up' = up /\ promise' = promise /\ transit' = transit /\ taken[f] # None
        /\ taken' = [taken EXCEPT ![f] = None]
    BY <1>5 DEF DeliverAnswer, childVars
  <2>2. taken[f] \in Asks
    BY <2>1 DEF TypeOK
  <2>3. /\ \A g \in Frontends : g # f => taken'[g] = taken[g]
        /\ \A b \in Asks : taken'[f] # b
    BY <2>1, AsksAssumption DEF TypeOK
  <2>4. CASE down' = down
    <3>1. \A b \in Asks : Quiet(b) => Quiet(b)'
      BY <2>1, <2>3, <2>4 DEF Quiet
    <3>2. \A b \in Asks : AtMostOne(b) => AtMostOne(b)'
      BY <2>1, <2>3, <2>4 DEF AtMostOne
    <3>3. QED
      BY <2>1, <3>1, <3>2 DEF AnswerInv
  <2>5. CASE down' = Append(down, taken[f])
    <3>1. /\ Len(down') = Len(down) + 1 /\ down'[Len(down) + 1] = taken[f]
          /\ \A i \in 1..Len(down) : down'[i] = down[i]
          /\ \A i \in 1..Len(down') : i \in 1..Len(down) \/ i = Len(down) + 1
      BY <2>2, <2>5, AppendFacts DEF TypeOK
    <3>2. \A b \in Asks : Quiet(b) => Quiet(b)'
      BY <2>1, <2>3, <3>1 DEF Quiet
    <3>3. ASSUME NEW b \in Asks PROVE AtMostOne(b)'
      <4>1. AtMostOne(b)
        BY DEF AnswerInv
      <4>2. CASE b = taken[f]
        <5>1. /\ \A g \in Frontends : taken'[g] # b
              /\ \A i \in 1..Len(down) : down[i] # b
              /\ promise'[b] # "answered"
          BY <2>1, <2>3, <4>1, <4>2 DEF AtMostOne
        <5>2. QED
          BY <3>1, <5>1 DEF AtMostOne
      <4>3. CASE b # taken[f]
        <5>1. \A i \in 1..Len(down') : down'[i] = b => i \in 1..Len(down) /\ down[i] = b
          BY <3>1, <4>3
        <5>2. \A g \in Frontends : taken'[g] = b => taken[g] = b
          BY <2>3
        <5>3. QED
          BY <2>1, <4>1, <5>1, <5>2 DEF AtMostOne
      <4>4. QED
        BY <4>2, <4>3
    <3>4. QED
      BY <2>1, <3>2, <3>3 DEF AnswerInv
  <2>6. QED
    BY <1>5, <2>4, <2>5 DEF DeliverAnswer
<1>6. CASE Die
  <2>1. PICK n \in 0..Len(up) : up' = SubSeq(up, 1, n)
    BY <1>6 DEF Die
  <2>2. Len(up') = n /\ \A i \in 1..n : up'[i] = up[i] /\ i \in 1..Len(up)
    BY <2>1, PrefixFacts DEF TypeOK
  <2>3. promise' = promise /\ transit' = transit /\ taken' = taken /\ down' = down
    BY <1>6 DEF Die, parentVars
  <2>4. QED
    BY <2>2, <2>3, AnswerKept DEF AnswerInv
<1>7. CASE RequestCrosses \/ SettleCrosses
  <2> DEFINE a == Head(up).ask
  <2>1. /\ up # <<>> /\ up' = Tail(up) /\ Head(up) \in Frame /\ a \in Asks
        /\ promise' = promise /\ taken' = taken /\ down' = down
    BY <1>7, TailFacts, FrameFacts DEF RequestCrosses, SettleCrosses, childVars, TypeOK
  <2>2. /\ Len(up') \in Nat /\ Len(up') + 1 = Len(up) /\ Head(up) = up[1]
        /\ \A i \in 1..Len(up') : up'[i] = up[i + 1] /\ i + 1 \in 1..Len(up)
    BY <2>1, TailFacts DEF TypeOK
  <2>3. \A b \in Asks : b # a => transit'[b] = transit[b]
    BY <1>7, <2>1 DEF RequestCrosses, SettleCrosses, TypeOK
  <2>4. SettleCrosses => transit'[a] = "absent"
    BY <2>1 DEF SettleCrosses, TypeOK
  <2>5. ASSUME RequestCrosses PROVE up[1] = Request(a) /\ 1 \in 1..Len(up)
    <3>1. Head(up).t = "request"
      BY <2>5 DEF RequestCrosses
    <3>2. QED
      BY <2>1, <2>2, <3>1, FrameFacts
  <2> HIDE DEF a
  <2>6. RequestCrosses => Quiet(a) /\ promise[a] # None
    BY <2>1, <2>5 DEF AnswerInv, PipeInv
  <2>7. \A b \in Asks : /\ promise[b] = None => transit'[b] = "absent"
                        /\ IsOpen(transit'[b]) => Quiet(b)
    BY <1>7, <2>3, <2>4, <2>6 DEF AnswerInv, IsOpen
  <2>8. \A i \in 1..Len(up'), b \in Asks : up'[i] = Request(b) => Quiet(b)
    BY <2>2 DEF AnswerInv
  <2>9. QED
    BY <2>1, <2>7, <2>8, AnswerKept
<1>8. ASSUME NEW s \in Sweepers, NEW a \in Asks, Sweep(s, a) PROVE AnswerInv'
  <2>1. /\ up' = up /\ down' = down /\ promise' = promise /\ taken' = taken
        /\ transit' = [transit EXCEPT ![a] = "absent"]
    BY <1>8 DEF Sweep, childVars
  <2>2. \A b \in Asks : /\ IsOpen(transit'[b]) => IsOpen(transit[b])
                        /\ transit[b] = "absent" => transit'[b] = "absent"
    BY <2>1 DEF TypeOK, IsOpen
  <2>3. QED
    BY <2>1, <2>2, AnswerKept DEF AnswerInv
<1>9. CASE \/ Terminal \/ UNCHANGED vars
           \/ \E s \in Sweepers : SweepBegins(s) \/ SweepEnds(s)
  <2>1. up' = up /\ down' = down /\ promise' = promise /\ transit' = transit /\ taken' = taken
    BY <1>9 DEF Terminal, SweepBegins, SweepEnds, vars, childVars, parentVars
  <2>2. QED
    BY <2>1, AnswerKept DEF AnswerInv
<1>10. QED
  BY <1>1, <1>2, <1>3, <1>4, <1>5, <1>6, <1>7, <1>8, <1>9
     DEF Next, Child, Reader, Reaper, Sweeping, Sweepers


-----------------------------------------------------------------------------
(* The settles.                                                            *)

\* What fans no settle, opens no entry of a settled question, and sends no frame of one.
LEMMA SettleKept ==
  ASSUME SettleInv, settles' = settles, sweep' = sweep,
         \A f \in Frontends, a \in Asks : card'[f][a] = None => card[f][a] = None,
         \A a \in Asks : promise'[a] = None => promise[a] = None,
         \A a \in Asks : alive' /\ promise'[a] = "pending" => settles[a] = 0,
         \A a \in Asks : transit'[a] # "absent" => settles[a] = 0,
         \A i \in 1..Len(up'), a \in Asks : up'[i] = Request(a) => settles[a] = 0,
         \A i \in 1..Len(up'), a \in Asks : up'[i] = Settled(a) /\ sweep["exit"] = "waiting" => settles[a] = 0,
         sweep["pipe"] # "waiting" => up' = <<>>,
         alive' => alive
  PROVE  SettleInv'
<1>1. SettledOnce'
  BY DEF SettleInv, SettledOnce
<1>2. \A a \in Asks : promise'[a] = None => settles'[a] = 0
  BY DEF SettleInv
<1>3. \A s \in Sweepers : sweep'[s] # "waiting" => ~alive'
  BY DEF SettleInv
<1>4. QED
  BY <1>1, <1>2, <1>3 DEF SettleInv

LEMMA SettleStep == TypeOK /\ PipeInv /\ AnswerInv /\ SettleInv /\ [Next]_vars => SettleInv'
<1> SUFFICES ASSUME TypeOK, PipeInv, AnswerInv, SettleInv, [Next]_vars PROVE SettleInv'
  OBVIOUS
<1> Len(up) \in Nat /\ "pipe" \in Sweepers /\ "exit" \in Sweepers
  BY DEF TypeOK, Sweepers
<1>0. /\ \A a \in Asks : promise[a] = None => settles[a] = 0
      /\ \A a \in Asks : alive /\ promise[a] = "pending" => settles[a] = 0
      /\ \A a \in Asks : transit[a] # "absent" => settles[a] = 0
      /\ \A i \in 1..Len(up), a \in Asks : up[i] = Request(a) => settles[a] = 0
      /\ \A i \in 1..Len(up), a \in Asks : up[i] = Settled(a) /\ sweep["exit"] = "waiting" => settles[a] = 0
      /\ sweep["pipe"] # "waiting" => up = <<>>
      /\ \A s \in Sweepers : sweep[s] # "waiting" => ~alive
  BY DEF SettleInv
<1>1. ASSUME NEW a \in Asks, Ask(a) PROVE SettleInv'
  <2>1. /\ promise[a] = None /\ alive /\ alive' = alive /\ up' = Append(up, Request(a))
        /\ promise' = [promise EXCEPT ![a] = "pending"]
        /\ transit' = transit /\ sweep' = sweep /\ card' = card /\ settles' = settles
    BY <1>1 DEF Ask, parentVars, frontVars
  <2>2. /\ Len(up') = Len(up) + 1 /\ up'[Len(up) + 1] = Request(a)
        /\ \A i \in 1..Len(up) : up'[i] = up[i]
        /\ \A i \in 1..Len(up') : i \in 1..Len(up) \/ i = Len(up) + 1
    BY <2>1, AppendFacts, FrameFacts DEF TypeOK
  <2>3. \A b \in Asks : b # a => promise'[b] = promise[b]
    BY <2>1 DEF TypeOK
  <2>4. \A i \in 1..Len(up'), b \in Asks : up'[i] = Request(b) => settles[b] = 0
    BY <1>0, <2>1, <2>2, FrameFacts
  <2>5. \A i \in 1..Len(up'), b \in Asks : up'[i] = Settled(b) => i \in 1..Len(up) /\ up[i] = Settled(b)
    BY <2>2, FrameFacts
  <2>6. sweep["pipe"] = "waiting"
    BY <1>0, <2>1
  <2>7. \A b \in Asks : promise'[b] = None => promise[b] = None
    BY <2>1, <2>3
  <2>8. \A b \in Asks : alive' /\ promise'[b] = "pending" => settles[b] = 0
    BY <1>0, <2>1, <2>3
  <2>9. \A i \in 1..Len(up'), b \in Asks : up'[i] = Settled(b) /\ sweep["exit"] = "waiting" => settles[b] = 0
    BY <1>0, <2>5
  <2>10. QED
    BY <1>0, <2>1, <2>4, <2>6, <2>7, <2>8, <2>9, SettleKept
<1>2. ASSUME NEW a \in Asks, alive, alive' = alive, promise[a] = "pending", up' = Append(up, Settled(a)),
             transit' = transit, sweep' = sweep, card' = card, settles' = settles,
             NEW o \in {"answered", "dismissed"}, promise' = [promise EXCEPT ![a] = o]
      PROVE  SettleInv'
  <2>1. settles[a] = 0
    BY <1>0, <1>2
  <2>2. \A b \in Asks : /\ promise'[b] = None => promise[b] = None
                        /\ promise'[b] = "pending" => promise[b] = "pending"
    BY <1>2 DEF TypeOK, None
  <2>3. \A i \in 1..Len(up'), b \in Asks : up'[i] = Request(b) => settles[b] = 0
    BY <1>0, <1>2, SettleSent
  <2>4. \A i \in 1..Len(up'), b \in Asks : up'[i] = Settled(b) /\ sweep["exit"] = "waiting" => settles[b] = 0
    BY <1>0, <1>2, <2>1, SettleSent
  <2>5. sweep["pipe"] = "waiting"
    BY <1>0, <1>2
  <2>6. QED
    BY <1>0, <1>2, <2>2, <2>3, <2>4, <2>5, SettleKept
<1>3. CASE AnswerArrives
  <2> DEFINE a == Head(down)
  <2>1. /\ a \in Asks /\ transit' = transit /\ sweep' = sweep /\ card' = card /\ settles' = settles
        /\ alive /\ alive' = alive
    BY <1>3, TailFacts DEF AnswerArrives, parentVars, frontVars, TypeOK
  <2>2. CASE IsOpen(origin[a])
    <3>1. promise[a] = "pending" /\ promise' = [promise EXCEPT ![a] = "answered"] /\ up' = Append(up, Settled(a))
      BY <1>3, <2>1, <2>2 DEF AnswerArrives, IsOpen, TypeOK
    <3> HIDE DEF a
    <3>2. QED
      BY <1>2, <2>1, <3>1
  <2>3. CASE ~IsOpen(origin[a])
    <3>1. up' = up /\ promise' = promise
      BY <1>3, <2>3 DEF AnswerArrives
    <3>2. QED
      BY <1>0, <2>1, <3>1, SettleKept
  <2>4. QED
    BY <2>2, <2>3
<1>4. ASSUME NEW a \in Asks, Dismiss(a) PROVE SettleInv'
  <2>1. /\ transit' = transit /\ sweep' = sweep /\ card' = card /\ settles' = settles
        /\ alive /\ alive' = alive
    BY <1>4 DEF Dismiss, parentVars, frontVars
  <2>2. CASE IsOpen(origin[a])
    <3>1. promise[a] = "pending" /\ promise' = [promise EXCEPT ![a] = "dismissed"] /\ up' = Append(up, Settled(a))
      BY <1>4, <2>2 DEF Dismiss, IsOpen, TypeOK
    <3>2. QED
      BY <1>2, <2>1, <3>1
  <2>3. CASE ~IsOpen(origin[a])
    <3>1. up' = up /\ promise' = promise
      BY <1>4, <2>3 DEF Dismiss
    <3>2. QED
      BY <1>0, <2>1, <3>1, SettleKept
  <2>4. QED
    BY <2>2, <2>3
<1>5. CASE Die
  <2>1. PICK n \in 0..Len(up) : up' = SubSeq(up, 1, n)
    BY <1>5 DEF Die
  <2>2. Len(up') = n /\ \A i \in 1..n : up'[i] = up[i] /\ i \in 1..Len(up)
    BY <2>1, PrefixFacts DEF TypeOK
  <2>3. /\ promise' = promise /\ transit' = transit /\ alive /\ ~alive' /\ sweep' = sweep
        /\ card' = card /\ settles' = settles
    BY <1>5 DEF Die, parentVars, frontVars
  <2>4. \A i \in 1..Len(up'), a \in Asks :
           /\ up'[i] = Request(a) => settles[a] = 0
           /\ up'[i] = Settled(a) /\ sweep["exit"] = "waiting" => settles[a] = 0
    BY <1>0, <2>2
  <2>5. QED
    BY <1>0, <2>3, <2>4, SettleKept
<1>6. CASE RequestCrosses \/ SettleCrosses
  <2> DEFINE a == Head(up).ask
  <2>1. /\ up # <<>> /\ up' = Tail(up) /\ Head(up) \in Frame /\ a \in Asks
        /\ promise' = promise /\ alive' = alive /\ sweep' = sweep
    BY <1>6, TailFacts, FrameFacts DEF RequestCrosses, SettleCrosses, childVars, TypeOK
  <2>2. /\ Len(up') \in Nat /\ Len(up') + 1 = Len(up) /\ Head(up) = up[1]
        /\ \A i \in 1..Len(up') : up'[i] = up[i + 1] /\ i + 1 \in 1..Len(up) /\ i + 1 > 1
        /\ 1 \in 1..Len(up)
    BY <2>1, TailFacts DEF TypeOK
  <2>3. \A b \in Asks : b # a => transit'[b] = transit[b]
    BY <1>6, <2>1 DEF RequestCrosses, SettleCrosses, TypeOK
  <2>4. sweep["pipe"] = "waiting"
    BY <1>0, <2>1
  <2>5. CASE RequestCrosses
    <3>1. Head(up).t = "request" /\ settles' = settles /\ card' = [f \in Frontends |-> [card[f] EXCEPT ![a] = "shown"]]
      BY <2>5 DEF RequestCrosses, Show
    <3>2. up[1] = Request(a)
      BY <2>1, <2>2, <3>1, FrameFacts
    <3> HIDE DEF a
    <3>3. settles[a] = 0
      BY <1>0, <2>1, <2>2, <3>2
    <3>4. \A f \in Frontends, b \in Asks : card'[f][b] = None => card[f][b] = None
      BY <2>1, <3>1 DEF TypeOK, None
    <3>5. \A b \in Asks : transit'[b] # "absent" => settles[b] = 0
      BY <1>0, <2>3, <3>3
    <3>6. \A i \in 1..Len(up'), b \in Asks :
           /\ up'[i] = Request(b) => settles[b] = 0
           /\ up'[i] = Settled(b) /\ sweep["exit"] = "waiting" => settles[b] = 0
      BY <1>0, <2>2
    <3>7. QED
      BY <1>0, <2>1, <2>4, <3>1, <3>4, <3>5, <3>6, SettleKept
  <2>6. CASE SettleCrosses
    <3>1. Head(up).t = "settled" /\ Close(a) /\ transit'[a] = "absent"
      BY <2>1, <2>6 DEF SettleCrosses, TypeOK
    <3>2. up[1] = Settled(a)
      BY <2>1, <2>2, <3>1, FrameFacts
    <3> HIDE DEF a
    <3>3. /\ settles' = [settles EXCEPT ![a] = settles[a] + 1]
          /\ \A f \in Frontends : card'[f][a] = "closed"
          /\ \A f \in Frontends, b \in Asks : b # a => card'[f][b] = card[f][b]
      BY <2>1, <3>1, CloseFacts
    <3>4. /\ \A b \in Asks : b # a => settles'[b] = settles[b]
          /\ settles'[a] = settles[a] + 1
      BY <2>1, <3>3 DEF TypeOK
    <3>5. promise[a] \in {"answered", "dismissed"}
      BY <2>1, <2>2, <3>2 DEF PipeInv
    <3>6. \A i \in 1..Len(up') : up'[i] # Request(a) /\ up'[i] # Settled(a)
      BY <2>1, <2>2, <3>2 DEF PipeInv
    <3>7. sweep["exit"] = "waiting" => settles[a] = 0
      BY <1>0, <2>1, <2>2, <3>2
    <3>8. SettledOnce'
      BY <2>1, <3>3, <3>4, <3>7 DEF SettleInv, SettledOnce, None
    <3>9. \A b \in Asks : /\ promise'[b] = None => settles'[b] = 0
                          /\ alive' /\ promise'[b] = "pending" => settles'[b] = 0
                          /\ transit'[b] # "absent" => settles'[b] = 0
      BY <1>0, <2>1, <2>3, <3>1, <3>4, <3>5 DEF None
    <3>10. \A i \in 1..Len(up'), b \in Asks :
           /\ up'[i] = Request(b) => settles'[b] = 0
           /\ up'[i] = Settled(b) /\ sweep'["exit"] = "waiting" => settles'[b] = 0
      BY <1>0, <2>1, <2>2, <3>4, <3>6
    <3>11. QED
      BY <1>0, <2>1, <2>4, <3>8, <3>9, <3>10 DEF SettleInv
  <2>7. QED
    BY <1>6, <2>5, <2>6
<1>7. ASSUME NEW f \in Frontends, NEW a \in Asks, Answer(f, a) PROVE SettleInv'
  <2>1. /\ up' = up /\ promise' = promise /\ alive' = alive /\ sweep' = sweep /\ card' = card
        /\ settles' = settles /\ transit' = [transit EXCEPT ![a] = AfterAnswer(transit[a])]
    BY <1>7 DEF Answer, childVars
  <2>2. \A b \in Asks : transit'[b] # "absent" => transit[b] # "absent"
    BY <2>1, EntryFacts DEF TypeOK
  <2>3. QED
    BY <1>0, <2>1, <2>2, SettleKept
<1>8. ASSUME NEW s \in Sweepers, NEW a \in Asks, Sweep(s, a) PROVE SettleInv'
  <2>1. /\ up' = up /\ promise' = promise /\ alive' = alive /\ sweep' = sweep
        /\ sweep[s] = "sweeping" /\ transit' = [transit EXCEPT ![a] = "absent"]
    BY <1>8 DEF Sweep, childVars
  <2>2. transit'[a] = "absent" /\ \A b \in Asks : b # a => transit'[b] = transit[b]
    BY <2>1 DEF TypeOK
  <2>3. CASE ~SweepAnnounces(transit[a])
    <3>1. card' = card /\ settles' = settles
      BY <1>8, <2>3 DEF Sweep
    <3>2. QED
      BY <1>0, <2>1, <2>2, <3>1, SettleKept
  <2>4. CASE SweepAnnounces(transit[a])
    <3>1. Close(a) /\ transit[a] # "absent" /\ ~alive
      BY <1>0, <1>8, <2>1, <2>4 DEF Sweep, SweepAnnounces
    <3>2. /\ settles' = [settles EXCEPT ![a] = settles[a] + 1]
          /\ \A f \in Frontends : card'[f][a] = "closed"
          /\ \A f \in Frontends, b \in Asks : b # a => card'[f][b] = card[f][b]
      BY <3>1, CloseFacts
    <3>3. /\ \A b \in Asks : b # a => settles'[b] = settles[b]
          /\ settles'[a] = 1
      BY <1>0, <3>1, <3>2 DEF TypeOK
    <3>4. promise[a] # None
      BY <3>1 DEF AnswerInv
    <3>5. \A i \in 1..Len(up) : up[i] # Request(a)
      BY <3>1 DEF PipeInv
    <3>6. sweep["exit"] = "waiting" => up = <<>>
      BY <1>0, <2>1 DEF Sweepers
    <3>7. SettledOnce'
      BY <2>1, <3>2, <3>3 DEF SettleInv, SettledOnce, None
    <3>8. \A b \in Asks : /\ promise'[b] = None => settles'[b] = 0
                          /\ transit'[b] # "absent" => settles'[b] = 0
      BY <1>0, <2>1, <2>2, <3>3, <3>4
    <3>9. \A i \in 1..Len(up'), b \in Asks :
           /\ up'[i] = Request(b) => settles'[b] = 0
           /\ up'[i] = Settled(b) /\ sweep'["exit"] = "waiting" => settles'[b] = 0
      <4>1. up' = <<>> => 1..Len(up') = {}
        OBVIOUS
      <4>2. QED
        BY <1>0, <2>1, <3>3, <3>5, <3>6, <4>1
    <3>10. QED
      BY <1>0, <2>1, <3>1, <3>7, <3>8, <3>9 DEF SettleInv
  <2>5. QED
    BY <2>3, <2>4
<1>9. ASSUME NEW s \in Sweepers, SweepBegins(s) \/ SweepEnds(s) PROVE SettleInv'
  <2>1. /\ up' = up /\ promise' = promise /\ alive' = alive /\ transit' = transit
        /\ card' = card /\ settles' = settles
    BY <1>9 DEF SweepBegins, SweepEnds, childVars, frontVars
  <2>2. /\ ~alive
        /\ \A r \in Sweepers : sweep'[r] = "waiting" => sweep[r] = "waiting"
        /\ sweep'["pipe"] # "waiting" => up = <<>>
    BY <1>0, <1>9 DEF SweepBegins, SweepEnds, TypeOK
  <2>3. SettledOnce'
    BY <2>1, <2>2 DEF SettleInv, SettledOnce
  <2>4. QED
    BY <1>0, <2>1, <2>2, <2>3 DEF SettleInv
<1>10. CASE Terminal \/ UNCHANGED vars \/ \E f \in Frontends : DeliverAnswer(f)
  <2>1. /\ up' = up /\ promise' = promise /\ alive' = alive /\ transit' = transit
        /\ card' = card /\ settles' = settles /\ sweep' = sweep
    BY <1>10 DEF Terminal, DeliverAnswer, vars, childVars, parentVars, frontVars
  <2>2. QED
    BY <1>0, <2>1, SettleKept
<1>11. QED
  BY <1>1, <1>3, <1>4, <1>5, <1>6, <1>7, <1>8, <1>9, <1>10
     DEF Next, Child, Reader, Reaper, Sweeping, Sweepers


-----------------------------------------------------------------------------
(* A pending question stays reachable.                                     *)

\* What keeps each of the four ways to an asker, for the questions still pending.
LEMMA ReachableKept ==
  ASSUME Reachable, alive' => alive,
         \A a \in Asks : promise'[a] = "pending" => promise[a] = "pending",
         \A i \in 1..Len(up), a \in Asks : up[i] = Request(a) =>
            \/ \E k \in 1..Len(up') : up'[k] = Request(a)
            \/ IsOpen(transit'[a]),
         \A a \in Asks : alive' /\ promise'[a] = "pending" /\ IsOpen(transit[a]) =>
            IsOpen(transit'[a]) \/ \E f \in Frontends : taken'[f] = a,
         \A i \in 1..Len(down), a \in Asks : alive' /\ promise'[a] = "pending" /\ down[i] = a =>
            \E k \in 1..Len(down') : down'[k] = a,
         \A f \in Frontends, a \in Asks : alive' /\ taken[f] = a =>
            \/ \E g \in Frontends : taken'[g] = a
            \/ \E k \in 1..Len(down') : down'[k] = a
  PROVE  Reachable'
<1> SUFFICES ASSUME NEW a \in Asks, alive', promise'[a] = "pending"
             PROVE  \/ \E i \in 1..Len(up') : up'[i] = Request(a)
                    \/ IsOpen(transit'[a])
                    \/ \E i \in 1..Len(down') : down'[i] = a
                    \/ \E f \in Frontends : taken'[f] = a
  BY DEF Reachable
<1>1. \/ \E i \in 1..Len(up) : up[i] = Request(a)
      \/ IsOpen(transit[a])
      \/ \E i \in 1..Len(down) : down[i] = a
      \/ \E f \in Frontends : taken[f] = a
  BY DEF Reachable
<1>2. QED
  BY <1>1

LEMMA ReachableStep == TypeOK /\ PipeInv /\ SettleInv /\ Reachable /\ [Next]_vars => Reachable'
<1> SUFFICES ASSUME TypeOK, PipeInv, SettleInv, Reachable, [Next]_vars PROVE Reachable'
  OBVIOUS
<1> Len(up) \in Nat /\ Len(down) \in Nat
  BY DEF TypeOK
<1>1. ASSUME NEW a \in Asks, Ask(a) PROVE Reachable'
  <2>1. /\ up' = Append(up, Request(a)) /\ promise' = [promise EXCEPT ![a] = "pending"]
        /\ alive' = alive /\ transit' = transit /\ down' = down /\ taken' = taken
    BY <1>1 DEF Ask, parentVars
  <2>2. /\ Len(up') = Len(up) + 1 /\ up'[Len(up) + 1] = Request(a) /\ Len(up) + 1 \in 1..Len(up')
        /\ \A i \in 1..Len(up) : up'[i] = up[i] /\ i \in 1..Len(up')
    BY <2>1, AppendFacts, FrameFacts DEF TypeOK
  <2>3. \A b \in Asks : b # a => promise'[b] = promise[b]
    BY <2>1 DEF TypeOK
  <2>4. ASSUME NEW b \in Asks, alive', promise'[b] = "pending"
        PROVE  \/ \E i \in 1..Len(up') : up'[i] = Request(b)
               \/ IsOpen(transit'[b])
               \/ \E i \in 1..Len(down') : down'[i] = b
               \/ \E f \in Frontends : taken'[f] = b
    <3>1. CASE b = a
      BY <2>2, <3>1
    <3>2. CASE b # a
      <4>1. \/ \E i \in 1..Len(up) : up[i] = Request(b)
            \/ IsOpen(transit[b])
            \/ \E i \in 1..Len(down) : down[i] = b
            \/ \E f \in Frontends : taken[f] = b
        BY <2>1, <2>3, <2>4, <3>2 DEF Reachable
      <4>2. QED
        BY <2>1, <2>2, <4>1
    <3>3. QED
      BY <3>1, <3>2
  <2>5. QED
    BY <2>4 DEF Reachable
<1>2. CASE AnswerArrives
  <2> DEFINE a == Head(down)
  <2>1. a \in Asks /\ transit' = transit /\ taken' = taken /\ alive' = alive
    BY <1>2, TailFacts DEF AnswerArrives, parentVars, TypeOK
  <2>2. /\ Len(down') = Len(down) - 1 /\ Len(down) >= 1 /\ down[1] = a
        /\ \A i \in 1..Len(down') : down'[i] = down[i + 1]
    BY <1>2, TailFacts DEF AnswerArrives, TypeOK
  <2>3. /\ promise'[a] # "pending"
        /\ \A b \in Asks : promise'[b] = "pending" => promise[b] = "pending"
    BY <1>2, <2>1 DEF AnswerArrives, TypeOK, IsOpen
  <2>4. \A i \in 1..Len(up) : i \in 1..Len(up') /\ up'[i] = up[i]
    <3>1. CASE up' = up
      BY <3>1
    <3>2. CASE up' = Append(up, Settled(a))
      BY <2>1, <3>2, SettleSent
    <3>3. QED
      BY <1>2, <3>1, <3>2 DEF AnswerArrives
  <2> HIDE DEF a
  <2>5. ASSUME NEW i \in 1..Len(down), NEW b \in Asks, promise'[b] = "pending", down[i] = b
        PROVE  \E k \in 1..Len(down') : down'[k] = b
    <3>1. i # 1
      BY <2>2, <2>3, <2>5
    <3>2. i - 1 \in 1..Len(down') /\ down'[i - 1] = b
      BY <2>2, <2>5, <3>1
    <3>3. QED
      BY <3>2
  <2>6. QED
    BY <2>1, <2>3, <2>4, <2>5, ReachableKept
<1>3. ASSUME NEW a \in Asks, Dismiss(a) PROVE Reachable'
  <2>1. transit' = transit /\ taken' = taken /\ down' = down /\ alive' = alive
    BY <1>3 DEF Dismiss, parentVars
  <2>2. \A b \in Asks : promise'[b] = "pending" => promise[b] = "pending"
    BY <1>3 DEF Dismiss, TypeOK
  <2>3. \A i \in 1..Len(up) : i \in 1..Len(up') /\ up'[i] = up[i]
    <3>1. CASE up' = up
      BY <3>1
    <3>2. CASE up' = Append(up, Settled(a))
      BY <3>2, SettleSent
    <3>3. QED
      BY <1>3, <3>1, <3>2 DEF Dismiss
  <2>4. QED
    BY <2>1, <2>2, <2>3, ReachableKept
<1>4. CASE RequestCrosses \/ SettleCrosses
  <2> DEFINE a == Head(up).ask
  <2>1. /\ up # <<>> /\ up' = Tail(up) /\ Head(up) \in Frame /\ a \in Asks
        /\ promise' = promise /\ taken' = taken /\ down' = down /\ alive' = alive
    BY <1>4, TailFacts, FrameFacts DEF RequestCrosses, SettleCrosses, childVars, TypeOK
  <2>2. /\ Len(up') \in Nat /\ Len(up') + 1 = Len(up) /\ Head(up) = up[1] /\ 1 \in 1..Len(up)
        /\ \A i \in 1..Len(up') : up'[i] = up[i + 1]
    BY <2>1, TailFacts DEF TypeOK
  <2>3. \A b \in Asks : b # a => transit'[b] = transit[b]
    BY <1>4, <2>1 DEF RequestCrosses, SettleCrosses, TypeOK
  <2>4. ASSUME RequestCrosses PROVE IsOpen(transit'[a])
    BY <2>1, <2>4 DEF RequestCrosses, IsOpen, TypeOK
  <2>5. ASSUME SettleCrosses PROVE up[1] = Settled(a)
    <3>1. Head(up).t = "settled"
      BY <2>5 DEF SettleCrosses
    <3>2. QED
      BY <2>1, <2>2, <3>1, FrameFacts
  <2> HIDE DEF a
  <2>6. SettleCrosses => promise[a] # "pending"
    BY <2>1, <2>2, <2>5 DEF PipeInv
  <2>7. ASSUME NEW i \in 1..Len(up), NEW b \in Asks, up[i] = Request(b)
        PROVE  (\E k \in 1..Len(up') : up'[k] = Request(b)) \/ IsOpen(transit'[b])
    <3>1. CASE i = 1
      <4>1. ~SettleCrosses
        BY <2>1, <2>5, <2>7, <3>1, FrameFacts
      <4>2. Head(up).t = "request"
        BY <1>4, <4>1 DEF RequestCrosses
      <4>3. up[1] = Request(Head(up).ask) /\ Head(up).ask = a
        BY <2>1, <2>2, <4>2, FrameFacts DEF a
      <4>4. b = a
        BY <2>1, <2>7, <3>1, <4>3, FrameFacts
      <4>5. QED
        BY <1>4, <2>4, <4>1, <4>4
    <3>2. CASE i # 1
      <4>1. i - 1 \in 1..Len(up') /\ up'[i - 1] = Request(b)
        BY <2>2, <2>7, <3>2
      <4>2. QED
        BY <4>1
    <3>3. QED
      BY <3>1, <3>2
  <2>8. \A b \in Asks : promise'[b] = "pending" /\ IsOpen(transit[b]) => IsOpen(transit'[b])
    BY <1>4, <2>1, <2>3, <2>4, <2>6
  <2>9. QED
    BY <2>1, <2>7, <2>8, ReachableKept
<1>5. ASSUME NEW f \in Frontends, NEW a \in Asks, Answer(f, a) PROVE Reachable'
  <2>1. /\ up' = up /\ promise' = promise /\ alive' = alive /\ down' = down /\ taken[f] = None
        /\ transit' = [transit EXCEPT ![a] = AfterAnswer(transit[a])]
    BY <1>5 DEF Answer, childVars
  <2>2. \A b \in Asks : b # a => transit'[b] = transit[b]
    BY <2>1 DEF TypeOK
  <2>3. IsOpen(transit[a]) => taken' = [taken EXCEPT ![f] = a]
    BY <1>5 DEF Answer
  <2>4. ~IsOpen(transit[a]) => taken' = taken
    BY <1>5 DEF Answer
  <2>5. \A g \in Frontends, b \in Asks : taken[g] = b => taken'[g] = b
    BY <2>1, <2>3, <2>4, AsksAssumption DEF TypeOK
  <2>6. IsOpen(transit[a]) => taken'[f] = a
    BY <2>3 DEF TypeOK
  <2>7. \A b \in Asks : IsOpen(transit[b]) => IsOpen(transit'[b]) \/ \E g \in Frontends : taken'[g] = b
    BY <2>2, <2>6
  <2>8. QED
    BY <2>1, <2>5, <2>7, ReachableKept
<1>6. ASSUME NEW f \in Frontends, DeliverAnswer(f) PROVE Reachable'
  <2>1. /\ up' = up /\ promise' = promise /\ alive' = alive /\ transit' = transit
        /\ taken[f] \in Asks /\ taken' = [taken EXCEPT ![f] = None]
        /\ down' = IF alive THEN Append(down, taken[f]) ELSE down
    BY <1>6 DEF DeliverAnswer, childVars, TypeOK
  <2>2. alive => /\ Len(down') = Len(down) + 1 /\ down'[Len(down) + 1] = taken[f]
                 /\ Len(down) + 1 \in 1..Len(down')
                 /\ \A i \in 1..Len(down) : i \in 1..Len(down') /\ down'[i] = down[i]
    BY <2>1, AppendFacts DEF TypeOK
  <2>3. \A g \in Frontends : g # f => taken'[g] = taken[g]
    BY <2>1 DEF TypeOK
  <2>4. \A g \in Frontends, a \in Asks : alive' /\ taken[g] = a =>
            \/ \E h \in Frontends : taken'[h] = a
            \/ \E k \in 1..Len(down') : down'[k] = a
    BY <2>1, <2>2, <2>3
  <2>5. \A i \in 1..Len(down), a \in Asks : alive' /\ down[i] = a => \E k \in 1..Len(down') : down'[k] = a
    BY <2>1, <2>2
  <2>6. QED
    BY <2>1, <2>4, <2>5, ReachableKept
<1>7. CASE Die
  BY <1>7 DEF Die, Reachable
<1>8. ASSUME NEW s \in Sweepers, Sweeping(s) PROVE Reachable'
  <2>1. ~alive /\ alive' = alive
    BY <1>8 DEF Sweeping, SweepBegins, SweepEnds, Sweep, childVars, SettleInv, TypeOK
  <2>2. QED
    BY <2>1 DEF Reachable
<1>9. CASE Terminal \/ UNCHANGED vars
  BY <1>9 DEF Terminal, vars, childVars, parentVars, Reachable
<1>10. QED
  BY <1>1, <1>2, <1>3, <1>4, <1>5, <1>6, <1>7, <1>8, <1>9
     DEF Next, Child, Reader, Reaper, Sweepers

-----------------------------------------------------------------------------
(* The theorems.                                                           *)

LEMMA InvInit == Init => Inv
<1> SUFFICES ASSUME Init PROVE Inv
  OBVIOUS
<1>1. TypeOK
  BY TypeInit
<1>2. up = <<>> /\ down = <<>> /\ 1..Len(up) = {} /\ 1..Len(down) = {}
  BY DEF Init
<1>3. \A a \in Asks : Quiet(a) /\ AtMostOne(a)
  BY <1>2, AsksAssumption DEF Init, Quiet, AtMostOne, None
<1>4. PipeInv /\ AnswerInv
  BY <1>2, <1>3 DEF Init, PipeInv, AnswerInv
<1>5. SettleInv
  BY <1>2 DEF Init, SettleInv, SettledOnce
<1>6. Reachable
  BY DEF Init, Reachable, None
<1>7. QED
  BY <1>1, <1>4, <1>5, <1>6 DEF Inv

LEMMA InvStep == Inv /\ [Next]_vars => Inv'
BY TypeStep, PipeStep, AnswerStep, SettleStep, ReachableStep DEF Inv

\* Two answers to one question are never both on their way: the counts of FirstAnswerWins.
LEMMA OneAnswer == Inv => FirstAnswerWins
<1> SUFFICES ASSUME Inv, NEW a \in Asks
             PROVE  Cardinality({f \in Frontends : taken[f] = a})
                      + Cardinality({i \in DOMAIN down : down[i] = a})
                      + (IF promise[a] = "answered" THEN 1 ELSE 0) <= 1
  BY DEF FirstAnswerWins
<1> DEFINE F == {f \in Frontends : taken[f] = a}
           D == {i \in DOMAIN down : down[i] = a}
<1>1. AtMostOne(a) /\ DOMAIN down = 1..Len(down)
  BY DEF Inv, AnswerInv, TypeOK
<1>2. Cardinality({}) = 0 /\ \A x : Cardinality({x}) = 1
  BY FS_EmptySet, FS_Singleton
<1>3. F = {} \/ \E f : F = {f}
  BY <1>1 DEF AtMostOne
<1>4. D = {} \/ \E i : D = {i}
  <2>1. \A i, j \in D : i = j
    BY <1>1 DEF AtMostOne
  <2> HIDE DEF D
  <2>2. QED
    BY <2>1
<1>5. F = {} \/ D = {}
  BY <1>1 DEF AtMostOne
<1>6. promise[a] = "answered" => F = {} /\ D = {}
  BY <1>1 DEF AtMostOne
<1> HIDE DEF F, D
<1>7. Cardinality(F) \in {0, 1} /\ Cardinality(D) \in {0, 1}
  BY <1>2, <1>3, <1>4
<1>8. Cardinality(F) = 0 \/ Cardinality(D) = 0
  BY <1>2, <1>5
<1>9. promise[a] = "answered" => Cardinality(F) = 0 /\ Cardinality(D) = 0
  BY <1>2, <1>6
<1>10. Cardinality(F) + Cardinality(D) + (IF promise[a] = "answered" THEN 1 ELSE 0) <= 1
  BY <1>7, <1>8, <1>9
<1>11. QED
  BY <1>10 DEF F, D

\* Of the answers that race for one question (asks.rs, answer) at most one travels to its
\* asker or resolved it, whatever run terminals, sweeps and the child's death do meanwhile,
\* and no question settles twice before the reaper has seen the exit.
THEOREM CardsSettleOnce == Spec => []OneAnswerOneSettle
<1>1. Inv => OneAnswerOneSettle
  BY OneAnswer DEF Inv, SettleInv, OneAnswerOneSettle
<1>2. QED
  BY InvInit, InvStep, <1>1, PTL DEF Spec

\* While its asker waits and its process lives, a question can still be answered: no entry
\* of the parent's registry closes (asks.rs, answer, settle) but behind an answer under way.
THEOREM PendingStaysReachable == Spec => []PendingIsReachable
<1>1. Inv => PendingIsReachable
  <2> SUFFICES ASSUME Inv, NEW a \in Asks, alive, promise[a] = "pending"
               PROVE  \/ Request(a) \in ToSet(up)
                      \/ IsOpen(transit[a])
                      \/ a \in ToSet(down)
                      \/ \E f \in Frontends : taken[f] = a
    BY DEF PendingIsReachable
  <2>1. DOMAIN up = 1..Len(up) /\ DOMAIN down = 1..Len(down)
    BY DEF Inv, TypeOK
  <2>2. \/ \E i \in 1..Len(up) : up[i] = Request(a)
        \/ IsOpen(transit[a])
        \/ \E i \in 1..Len(down) : down[i] = a
        \/ \E f \in Frontends : taken[f] = a
    BY DEF Inv, Reachable
  <2>3. QED
    BY <2>1, <2>2 DEF ToSet
<1>2. QED
  BY InvInit, InvStep, <1>1, PTL DEF Spec
=============================================================================
