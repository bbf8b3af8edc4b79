---------------------------- MODULE EngineProofs ----------------------------
(***************************************************************************)
(* Proofs about the engine: an agent run is accountable for what it folds, *)
(* tells and spends, a batch of tool calls is whole and a turn's assembly  *)
(* is faithful, for any caps, messages, batch sizes, concurrencies and     *)
(* streams.                                                                *)
(***************************************************************************)
EXTENDS MCEngine, FiniteSetTheorems, FunctionTheorems, SequenceTheorems, TLAPS

-----------------------------------------------------------------------------
(* The agent run: what it spends                                           *)

Places == {"converge", "decide", "prepare", "model", "reported", "final", "batch", "settled", "over"}
Calling == {"model", "reported", "batch", "settled"}

\* Calls allowed between two signs of progress.
Streak == 2 * RetryCap + 1
Allowance(n) == Streak * n

FlowTypes ==
  /\ at \in Places /\ sent \in Nat /\ sent <= MaxSteers
  /\ turn \in Nat /\ slot \in Nat /\ turn <= MaxAttempts /\ slot <= MaxAttempts
  /\ used \in Nat /\ used <= MaxTurns
  /\ defects \in Nat /\ failures \in Nat /\ defects <= RetryCap + 1 /\ failures <= RetryCap + 1
  /\ pending \in {"none", "retryable", "terminal"} /\ stopping \in BOOLEAN
  /\ told \in Seq([kind : {"steer", "committed"}, what : Nat \cup Seq(Nat)])

\* What the streaks say of the attempts so far, place by place, before the next sign of progress.
StreakInv ==
  LET spent == Allowance(Len(told)) + defects + failures
      low == defects <= RetryCap /\ failures <= RetryCap
  IN /\ at \in {"converge", "decide"} /\ pending # "terminal" => turn <= spent /\ defects + failures <= Streak
     /\ at \in {"converge", "decide"} /\ pending = "terminal" => turn <= spent + 1 /\ low
     /\ at = "prepare" => turn <= spent /\ low /\ pending # "terminal"
     /\ at \in {"model", "reported"} => turn <= spent + 1 /\ low /\ pending # "terminal"
     /\ at \in {"batch", "settled"} => turn <= Allowance(Len(told)) + Streak /\ defects = 0 /\ failures = 0 /\ pending = "none"
     /\ at = "final" => turn <= Allowance(Len(told))
     /\ at = "over" => turn <= Allowance(Len(told)) + Streak

PlaceInv ==
  /\ at \in {"prepare", "model", "reported", "batch", "settled", "final"} => used < MaxTurns
  /\ at \in {"reported", "batch", "settled"} => slot = turn
  /\ stopping => at \in {"converge", "over"}
  /\ stopping /\ at = "over" /\ said.kind = "error" => queue = <<>>

FlowInv == FlowTypes /\ StreakInv /\ PlaceInv

LEMMA AllowanceGrows ==
  /\ Streak \in Nat /\ Streak >= 1 /\ Allowance(0) = 0
  /\ \A n \in Nat : Allowance(n) \in Nat /\ Allowance(n + 1) = Allowance(n) + Streak
<1>1. Streak \in Nat /\ Streak >= 1
  BY EngineAssumption DEF Streak
<1>2. Allowance(0) = 0
  BY <1>1 DEF Allowance
<1>3. ASSUME NEW n \in Nat PROVE Allowance(n) \in Nat /\ Allowance(n + 1) = Allowance(n) + Streak
  <2>1. \A k \in Nat : k * n \in Nat /\ k * (n + 1) = k * n + k
    OBVIOUS
  <2> QED
    BY <1>1, <2>1 DEF Allowance
<1> QED
  BY <1>1, <1>2, <1>3

LEMMA TellTells ==
  ASSUME NEW kind, NEW what, Tell(kind, what)
  PROVE  /\ said' = Item(kind, what) /\ said'.kind = kind
         /\ kind \in {"steer", "committed"} => told' = Append(told, Item(kind, what))
         /\ kind \notin {"steer", "committed"} => told' = told
BY DEF Tell, Item

LEMMA ToldGrows ==
  ASSUME FlowTypes, NEW kind \in {"steer", "committed"}, NEW what \in Nat \cup Seq(Nat),
         told' = Append(told, Item(kind, what))
  PROVE  /\ told' \in Seq([kind : {"steer", "committed"}, what : Nat \cup Seq(Nat)])
         /\ Len(told') = Len(told) + 1 /\ Len(told) \in Nat
         /\ Allowance(Len(told')) = Allowance(Len(told)) + Streak /\ Allowance(Len(told)) \in Nat
<1>1. Item(kind, what) \in [kind : {"steer", "committed"}, what : Nat \cup Seq(Nat)]
  BY DEF Item
<1>2. /\ told' \in Seq([kind : {"steer", "committed"}, what : Nat \cup Seq(Nat)])
      /\ Len(told') = Len(told) + 1 /\ Len(told) \in Nat
  BY <1>1 DEF FlowTypes
<1> QED
  BY <1>2, AllowanceGrows

LEMMA FlowStarts == LoopInit => FlowInv
<1> SUFFICES ASSUME LoopInit PROVE FlowInv
  OBVIOUS
<1>0. \A S : <<>> \in Seq(S)
  OBVIOUS
<1>1. FlowTypes
  <2>1. told = <<>>
    BY DEF LoopInit
  <2>2. told \in Seq([kind : {"steer", "committed"}, what : Nat \cup Seq(Nat)])
    BY <1>0, <2>1, Zenon
  <2>3. /\ at = "converge" /\ sent = 0 /\ turn = 0 /\ slot = 0 /\ used = 0 /\ defects = 0 /\ failures = 0
        /\ pending = "none" /\ stopping = FALSE
    BY DEF LoopInit
  <2>4. 0 <= MaxSteers /\ 0 <= MaxAttempts /\ 0 <= MaxTurns /\ 0 <= RetryCap + 1
    BY EngineAssumption
  <2> QED
    BY <2>2, <2>3, <2>4 DEF FlowTypes, Places
<1>2. StreakInv
  BY AllowanceGrows, EngineAssumption DEF LoopInit, StreakInv
<1>3. PlaceInv
  BY DEF LoopInit, PlaceInv
<1> QED
  BY <1>1, <1>2, <1>3 DEF FlowInv

LEMMA FlowMoves == ASSUME FlowInv, queue \in Seq(Nat), LoopNext PROVE FlowInv'
<1> USE EngineAssumption DEF Places
<1>0. /\ FlowTypes /\ StreakInv /\ PlaceInv
      /\ Allowance(Len(told)) \in Nat /\ Streak \in Nat /\ Streak = 2 * RetryCap + 1
  BY AllowanceGrows DEF FlowInv, FlowTypes, Streak
<1>1. CASE Send
  BY <1>0, <1>1 DEF Send, FlowInv, FlowTypes, StreakInv, PlaceInv
<1>2. CASE Abort
  <2>1. told' = told /\ said'.kind = "aborted"
    BY <1>2, TellTells DEF Abort
  <2> QED
    BY <1>0, <1>2, <2>1 DEF Abort, FlowInv, FlowTypes, StreakInv, PlaceInv
<1>3. CASE Stopped
  <2>1. told' = told
    BY <1>3, TellTells DEF Stopped
  <2> QED
    BY <1>0, <1>3, <2>1 DEF Stopped, FlowInv, FlowTypes, StreakInv, PlaceInv
<1>4. CASE Drain
  <2>1. CASE queue = <<>>
    BY <1>0, <1>4, <2>1 DEF Drain, FlowInv, FlowTypes, StreakInv, PlaceInv
  <2>2. CASE queue # <<>>
    <3>1. told' = Append(told, Item("steer", queue))
      BY <1>4, <2>2, TellTells DEF Drain
    <3>2. /\ told' \in Seq([kind : {"steer", "committed"}, what : Nat \cup Seq(Nat)])
          /\ Allowance(Len(told')) = Allowance(Len(told)) + Streak
      BY <1>0, <3>1, ToldGrows
    <3> QED
      BY <1>0, <1>4, <2>2, <3>2 DEF Drain, FlowInv, FlowTypes, StreakInv, PlaceInv
  <2> QED
    BY <2>1, <2>2
<1>5. CASE Exit
  <2>1. told' = told
    BY <1>5, TellTells DEF Exit
  <2> QED
    BY <1>0, <1>5, <2>1 DEF Exit, FlowInv, FlowTypes, StreakInv, PlaceInv
<1>6. CASE Door
  <2>1. pending # "terminal" /\ defects <= RetryCap /\ failures <= RetryCap /\ used < MaxTurns
    BY <1>0, <1>6 DEF Door, Verdict, Spent, FlowTypes
  <2> QED
    BY <1>0, <1>6, <2>1 DEF Door, FlowInv, FlowTypes, StreakInv, PlaceInv
<1>7. CASE BadRequest
  BY <1>0, <1>7 DEF BadRequest, FlowInv, FlowTypes, StreakInv, PlaceInv
<1>8. CASE Announce
  <2>1. told' = told
    BY <1>8, TellTells DEF Announce
  <2> QED
    BY <1>0, <1>8, <2>1 DEF Announce, FlowInv, FlowTypes, StreakInv, PlaceInv
<1>9. CASE Report
  <2>1. told' = told
    BY <1>9, TellTells DEF Report
  <2> QED
    BY <1>0, <1>9, <2>1 DEF Report, FlowInv, FlowTypes, StreakInv, PlaceInv
<1>10. CASE Defect
  <2>1. told' = told
    BY <1>10, TellTells DEF Defect
  <2> QED
    BY <1>0, <1>10, <2>1 DEF Defect, FlowInv, FlowTypes, StreakInv, PlaceInv
<1>11. CASE ProviderError
  BY <1>0, <1>11 DEF ProviderError, FlowInv, FlowTypes, StreakInv, PlaceInv
<1>12. CASE Final
  <2>1. told' = Append(told, Item("committed", turn))
    BY <1>12, TellTells DEF Final
  <2>2. /\ told' \in Seq([kind : {"steer", "committed"}, what : Nat \cup Seq(Nat)])
        /\ Allowance(Len(told')) = Allowance(Len(told)) + Streak
    BY <1>0, <2>1, ToldGrows DEF FlowTypes
  <2>3. turn <= Allowance(Len(told')) /\ at' = "final" /\ defects' = 0 /\ failures' = 0 /\ pending' = "none"
    BY <1>0, <1>12, <2>2 DEF Final, FlowTypes, StreakInv
  <2>4. UNCHANGED <<queue, sent, turn, stopping, used>> /\ slot' \in {0, slot} /\ at = "reported" /\ slot = turn
    BY <1>0, <1>12 DEF Final, PlaceInv
  <2>5. FlowTypes'
    BY <1>0, <2>2, <2>3, <2>4 DEF FlowTypes
  <2>6. StreakInv' /\ PlaceInv'
    BY <1>0, <2>3, <2>4 DEF StreakInv, PlaceInv
  <2> QED
    BY <2>5, <2>6 DEF FlowInv
<1>13. CASE Finish
  <2>1. told' = told
    BY <1>13, TellTells DEF Finish
  <2> QED
    BY <1>0, <1>13, <2>1 DEF Finish, FlowInv, FlowTypes, StreakInv, PlaceInv
<1>14. CASE Tools
  BY <1>0, <1>14 DEF Tools, FlowInv, FlowTypes, StreakInv, PlaceInv
<1>15. CASE Settled
  <2>1. told' = told
    BY <1>15, TellTells DEF Settled
  <2> QED
    BY <1>0, <1>15, <2>1 DEF Settled, FlowInv, FlowTypes, StreakInv, PlaceInv
<1>16. CASE Roundtrip
  <2>1. told' = Append(told, Item("committed", turn))
    BY <1>16, TellTells DEF Roundtrip
  <2>2. /\ told' \in Seq([kind : {"steer", "committed"}, what : Nat \cup Seq(Nat)])
        /\ Allowance(Len(told')) = Allowance(Len(told)) + Streak
    BY <1>0, <2>1, ToldGrows DEF FlowTypes
  <2> QED
    BY <1>0, <1>16, <2>2 DEF Roundtrip, FlowInv, FlowTypes, StreakInv, PlaceInv
<1> QED
  BY <1>1, <1>2, <1>3, <1>4, <1>5, <1>6, <1>7, <1>8, <1>9, <1>10, <1>11, <1>12, <1>13, <1>14, <1>15, <1>16
     DEF LoopNext, LoopStep

-----------------------------------------------------------------------------
(* The agent run: what it folds and what it tells                          *)

Folded == [kind : {"user"}, id : Nat]
         \cup [kind : {"assistant"}, id : Nat, calls : BOOLEAN, cost : Nat]
         \cup [kind : {"results"}, id : Nat] \cup [kind : {"compaction"}]
Telling == [kind : {"steer"}, what : Seq(Nat)] \cup [kind : {"committed"}, what : Nat]

\* The same questions of any conversation and of any stretch of it.
Spots(s, kind) == {n \in DOMAIN s : s[n].kind = kind}
IdsOf(s, kind) == {s[n].id : n \in Spots(s, kind)}
Rises(s, kind) == \A m, n \in Spots(s, kind) : m < n => s[m].id < s[n].id
Closed(s) ==
  \A n \in DOMAIN s :
    /\ s[n].kind = "assistant" /\ s[n].calls => n < Len(s) /\ s[n + 1] = Results(s[n].id)
    /\ s[n].kind = "results" => n > 1 /\ s[n - 1].kind = "assistant" /\ s[n - 1].id = s[n].id
Priced(s) == \A n \in DOMAIN s : s[n].kind = "assistant" => s[n].cost = s[n].id

\* What joining two stretches gives, position by position.
Joined(s, x, j) ==
  /\ DOMAIN s = 1..Len(s) /\ DOMAIN x = 1..Len(x) /\ DOMAIN j = 1..Len(s) + Len(x)
  /\ Len(s) \in Nat /\ Len(x) \in Nat /\ Len(j) = Len(s) + Len(x)
  /\ \A n \in 1..Len(s) : j[n] = s[n]
  /\ \A n \in 1..Len(x) : j[Len(s) + n] = x[n]
  /\ \A n \in Len(s) + 1..Len(s) + Len(x) : n - Len(s) \in 1..Len(x) /\ j[n] = x[n - Len(s)]

LEMMA JoinedIs == ASSUME NEW S, NEW s \in Seq(S), NEW x \in Seq(S) PROVE s \o x \in Seq(S) /\ Joined(s, x, s \o x)
<1>1. /\ s \o x \in Seq(S) /\ Len(s \o x) = Len(s) + Len(x) /\ Len(s) \in Nat /\ Len(x) \in Nat
      /\ DOMAIN s = 1..Len(s) /\ DOMAIN x = 1..Len(x)
  OBVIOUS
<1>2. DOMAIN (s \o x) = 1..Len(s) + Len(x)
  BY <1>1
<1>3. \A n \in 1..Len(s) : (s \o x)[n] = s[n]
  OBVIOUS
<1>4. \A n \in Len(s) + 1..Len(s) + Len(x) : n - Len(s) \in 1..Len(x) /\ (s \o x)[n] = x[n - Len(s)]
  BY <1>1
<1>5. \A n \in 1..Len(x) : Len(s) + n \in Len(s) + 1..Len(s) + Len(x) /\ (Len(s) + n) - Len(s) = n
  BY <1>1
<1>6. \A n \in 1..Len(x) : (s \o x)[Len(s) + n] = x[n]
  BY <1>4, <1>5
<1> QED
  BY <1>1, <1>2, <1>3, <1>4, <1>6 DEF Joined

LEMMA AppendedIs == ASSUME NEW S, NEW s \in Seq(S), NEW e \in S PROVE Append(s, e) = s \o <<e>> /\ <<e>> \in Seq(S)
OBVIOUS

\* Positions, ids, order, closure and cost carry over a join.
LEMMA PlacesJoin ==
  ASSUME NEW s, NEW x, NEW j, Joined(s, x, j), NEW k
  PROVE  /\ Spots(j, k) = Spots(s, k) \cup {Len(s) + n : n \in Spots(x, k)}
         /\ IdsOf(j, k) = IdsOf(s, k) \cup IdsOf(x, k)
<1>1. \A n \in Spots(s, k) : n \in Spots(j, k) /\ j[n] = s[n]
  BY DEF Joined, Spots
<1>2. \A n \in Spots(x, k) : Len(s) + n \in Spots(j, k) /\ j[Len(s) + n] = x[n]
  BY DEF Joined, Spots
<1>3. ASSUME NEW n \in Spots(j, k)
      PROVE  \/ n \in Spots(s, k) /\ j[n] = s[n]
             \/ n - Len(s) \in Spots(x, k) /\ n = Len(s) + (n - Len(s)) /\ j[n] = x[n - Len(s)]
  <2>1. n \in 1..Len(s) + Len(x) /\ Len(s) \in Nat /\ Len(x) \in Nat /\ j[n].kind = k
    BY DEF Joined, Spots
  <2>2. n \in 1..Len(s) \/ n \in Len(s) + 1..Len(s) + Len(x)
    BY <2>1
  <2>3. n = Len(s) + (n - Len(s))
    BY <2>1
  <2>4. CASE n \in 1..Len(s)
    BY <2>1, <2>4 DEF Joined, Spots
  <2>5. CASE n \in Len(s) + 1..Len(s) + Len(x)
    <3>1. n - Len(s) \in DOMAIN x /\ j[n] = x[n - Len(s)]
      BY <2>5 DEF Joined
    <3> QED
      BY <2>1, <2>3, <3>1 DEF Spots
  <2> QED
    BY <2>2, <2>4, <2>5
<1>4. \A n \in Spots(j, k) : n \notin Spots(s, k) => \E m \in Spots(x, k) : n = Len(s) + m
  BY <1>3
<1>5. Spots(j, k) = Spots(s, k) \cup {Len(s) + n : n \in Spots(x, k)}
  BY <1>1, <1>2, <1>4
<1>6. IdsOf(j, k) \subseteq IdsOf(s, k) \cup IdsOf(x, k)
  BY <1>1, <1>3 DEF IdsOf
<1>7. IdsOf(s, k) \cup IdsOf(x, k) \subseteq IdsOf(j, k)
  BY <1>1, <1>2 DEF IdsOf
<1> QED
  BY <1>5, <1>6, <1>7

LEMMA RisesJoin ==
  ASSUME NEW s, NEW x, NEW j, Joined(s, x, j), NEW k, Rises(s, k), Rises(x, k),
         \A a \in IdsOf(s, k) : \A b \in IdsOf(x, k) : a < b
  PROVE  Rises(j, k)
<1> SUFFICES ASSUME NEW m \in Spots(j, k), NEW n \in Spots(j, k), m < n PROVE j[m].id < j[n].id
  BY DEF Rises
<1>1. /\ m \in 1..Len(s) + Len(x) /\ n \in 1..Len(s) + Len(x) /\ j[m].kind = k /\ j[n].kind = k
      /\ Len(s) \in Nat /\ Len(x) \in Nat
  BY DEF Joined, Spots
<1>2. CASE n <= Len(s)
  <2>1. m \in Spots(s, k) /\ n \in Spots(s, k) /\ j[m] = s[m] /\ j[n] = s[n]
    BY <1>1, <1>2 DEF Joined, Spots
  <2> QED
    BY <2>1 DEF Rises
<1>3. CASE m > Len(s)
  <2>1. /\ m - Len(s) \in Spots(x, k) /\ n - Len(s) \in Spots(x, k) /\ m - Len(s) < n - Len(s)
        /\ j[m] = x[m - Len(s)] /\ j[n] = x[n - Len(s)]
    BY <1>1, <1>3 DEF Joined, Spots
  <2> QED
    BY <2>1 DEF Rises
<1>4. CASE m <= Len(s) /\ n > Len(s)
  <2>1. m \in Spots(s, k) /\ n - Len(s) \in Spots(x, k) /\ j[m] = s[m] /\ j[n] = x[n - Len(s)]
    BY <1>1, <1>4 DEF Joined, Spots
  <2> QED
    BY <2>1 DEF IdsOf
<1> QED
  BY <1>1, <1>2, <1>3, <1>4

LEMMA ClosedJoins ==
  ASSUME NEW s, NEW x, NEW j, Joined(s, x, j), Closed(s), Closed(x)
  PROVE  Closed(j)
<1> SUFFICES ASSUME NEW n \in DOMAIN j
             PROVE  /\ j[n].kind = "assistant" /\ j[n].calls => n < Len(j) /\ j[n + 1] = Results(j[n].id)
                    /\ j[n].kind = "results" => n > 1 /\ j[n - 1].kind = "assistant" /\ j[n - 1].id = j[n].id
  BY DEF Closed
<1>1. n \in 1..Len(s) + Len(x) /\ Len(s) \in Nat /\ Len(x) \in Nat
  BY DEF Joined
<1>2. CASE n \in 1..Len(s)
  <2>1. n \in DOMAIN s /\ j[n] = s[n]
    BY <1>2 DEF Joined
  <2>2. n < Len(s) => n < Len(j) /\ j[n + 1] = s[n + 1]
    BY <1>1, <1>2 DEF Joined
  <2>3. n > 1 => j[n - 1] = s[n - 1]
    BY <1>1, <1>2 DEF Joined
  <2> QED
    BY <2>1, <2>2, <2>3 DEF Closed
<1>3. CASE n \in Len(s) + 1..Len(s) + Len(x)
  <2> DEFINE m == n - Len(s)
  <2>1. m \in DOMAIN x /\ m \in 1..Len(x) /\ j[n] = x[m]
    BY <1>3 DEF Joined
  <2>2. m < Len(x) => n < Len(j) /\ n + 1 \in Len(s) + 1..Len(s) + Len(x) /\ (n + 1) - Len(s) = m + 1
    BY <1>1, <1>3 DEF Joined
  <2>3. m > 1 => n > 1 /\ n - 1 \in Len(s) + 1..Len(s) + Len(x) /\ (n - 1) - Len(s) = m - 1
    BY <1>1, <1>3 DEF Joined
  <2>4. m < Len(x) => j[n + 1] = x[m + 1]
    BY <2>2 DEF Joined
  <2>5. m > 1 => j[n - 1] = x[m - 1]
    BY <2>3 DEF Joined
  <2> HIDE DEF m
  <2> QED
    BY <2>1, <2>2, <2>3, <2>4, <2>5 DEF Closed
<1> QED
  BY <1>1, <1>2, <1>3

LEMMA PricedJoins == ASSUME NEW s, NEW x, NEW j, Joined(s, x, j), Priced(s), Priced(x) PROVE Priced(j)
<1> SUFFICES ASSUME NEW n \in DOMAIN j PROVE j[n].kind = "assistant" => j[n].cost = j[n].id
  BY DEF Priced
<1>1. n \in 1..Len(s) \/ n \in Len(s) + 1..Len(s) + Len(x)
  BY DEF Joined
<1>2. \/ n \in DOMAIN s /\ j[n] = s[n]
      \/ n - Len(s) \in DOMAIN x /\ j[n] = x[n - Len(s)]
  BY <1>1 DEF Joined
<1> QED
  BY <1>2 DEF Priced

\* What the items told have announced.
Steered(t) == UNION {Range(t[n].what) : n \in Spots(t, "steer")}
Commits(t) == {t[n].what : n \in Spots(t, "committed")}
Ascends(q) == \A i, j \in DOMAIN q : i < j => q[i] < q[j]
SteersRise(t) ==
  /\ \A n \in Spots(t, "steer") : Ascends(t[n].what)
  /\ \A m, n \in Spots(t, "steer") : m < n => \A a \in Range(t[m].what) : \A b \in Range(t[n].what) : a < b
CommitsRise(t) == \A m, n \in Spots(t, "committed") : m < n => t[m].what < t[n].what

LEMMA OneMore ==
  ASSUME NEW S, NEW t \in Seq(S), NEW e \in S, NEW u, u = Append(t, e)
  PROVE  /\ u \in Seq(S) /\ Len(t) \in Nat
         /\ \A n \in DOMAIN t : n \in DOMAIN u /\ u[n] = t[n] /\ n < Len(t) + 1 /\ n \in Nat
         /\ Len(t) + 1 \in DOMAIN u /\ u[Len(t) + 1] = e
         /\ \A n \in DOMAIN u : n \in DOMAIN t \/ n = Len(t) + 1
OBVIOUS

LEMMA CommitTold ==
  ASSUME NEW t \in Seq(Telling), NEW w \in Nat, NEW u, u = Append(t, Item("committed", w))
  PROVE  /\ u \in Seq(Telling) /\ Steered(u) = Steered(t) /\ Commits(u) = Commits(t) \cup {w}
         /\ SteersRise(t) => SteersRise(u)
         /\ CommitsRise(t) /\ (\A a \in Commits(t) : a < w) => CommitsRise(u)
<1> DEFINE e == Item("committed", w)
<1>1. e \in Telling /\ e.kind = "committed" /\ e.what = w
  BY DEF Item, Telling
<1>2. /\ u \in Seq(Telling) /\ Len(t) \in Nat
      /\ \A n \in DOMAIN t : n \in DOMAIN u /\ u[n] = t[n] /\ n < Len(t) + 1 /\ n \in Nat
      /\ Len(t) + 1 \in DOMAIN u /\ u[Len(t) + 1] = e
      /\ \A n \in DOMAIN u : n \in DOMAIN t \/ n = Len(t) + 1
  BY <1>1, OneMore
<1> HIDE DEF e
<1>3. Spots(u, "steer") = Spots(t, "steer") /\ \A n \in Spots(t, "steer") : u[n] = t[n]
  BY <1>1, <1>2 DEF Spots
<1>4. /\ Spots(u, "committed") = Spots(t, "committed") \cup {Len(t) + 1}
      /\ \A n \in Spots(t, "committed") : u[n] = t[n] /\ n < Len(t) + 1 /\ n \in Nat
  BY <1>1, <1>2 DEF Spots
<1>5. Steered(u) = Steered(t)
  BY <1>3 DEF Steered
<1>6. Commits(u) = Commits(t) \cup {w}
  <2>1. \A n \in Spots(u, "committed") : \/ n \in Spots(t, "committed") /\ u[n].what = t[n].what
                                        \/ u[n].what = w
    BY <1>1, <1>2, <1>4
  <2>2. \A n \in Spots(t, "committed") : n \in Spots(u, "committed") /\ u[n].what = t[n].what
    BY <1>4
  <2>3. Len(t) + 1 \in Spots(u, "committed") /\ u[Len(t) + 1].what = w
    BY <1>1, <1>2, <1>4
  <2>4. Commits(u) \subseteq Commits(t) \cup {w}
    BY <2>1 DEF Commits
  <2>5. Commits(t) \subseteq Commits(u) /\ w \in Commits(u)
    BY <2>2, <2>3 DEF Commits
  <2> QED
    BY <2>4, <2>5
<1>7. SteersRise(t) => SteersRise(u)
  BY <1>3 DEF SteersRise
<1>8. ASSUME CommitsRise(t), \A a \in Commits(t) : a < w PROVE CommitsRise(u)
  <2> SUFFICES ASSUME NEW m \in Spots(u, "committed"), NEW n \in Spots(u, "committed"), m < n
               PROVE  u[m].what < u[n].what
    BY DEF CommitsRise
  <2>1. m # Len(t) + 1
    <3>1. CASE n \in Spots(t, "committed")
      <4>1. n < Len(t) + 1 /\ n \in Nat
        BY <1>4, <3>1
      <4> QED
        BY <1>2, <4>1
    <3>2. CASE n = Len(t) + 1
      BY <1>2, <3>2
    <3> QED
      BY <1>4, <3>1, <3>2
  <2>2. m \in Spots(t, "committed") /\ u[m] = t[m]
    BY <1>4, <2>1
  <2>3. CASE n \in Spots(t, "committed")
    BY <1>4, <1>8, <2>2, <2>3 DEF CommitsRise
  <2>4. CASE n = Len(t) + 1
    <3>1. u[n].what = w /\ u[m].what \in Commits(t)
      BY <1>1, <1>2, <2>2, <2>4 DEF Commits
    <3> QED
      BY <1>8, <3>1
  <2> QED
    BY <1>4, <2>3, <2>4
<1> QED
  BY <1>2, <1>5, <1>6, <1>7, <1>8

LEMMA SteerTold ==
  ASSUME NEW t \in Seq(Telling), NEW w \in Seq(Nat), NEW u, u = Append(t, Item("steer", w))
  PROVE  /\ u \in Seq(Telling) /\ Steered(u) = Steered(t) \cup Range(w) /\ Commits(u) = Commits(t)
         /\ CommitsRise(t) => CommitsRise(u)
         /\ SteersRise(t) /\ Ascends(w) /\ (\A a \in Steered(t) : \A b \in Range(w) : a < b) => SteersRise(u)
<1> DEFINE e == Item("steer", w)
<1>1. e \in Telling /\ e.kind = "steer" /\ e.what = w
  BY DEF Item, Telling
<1>2. /\ u \in Seq(Telling) /\ Len(t) \in Nat
      /\ \A n \in DOMAIN t : n \in DOMAIN u /\ u[n] = t[n] /\ n < Len(t) + 1 /\ n \in Nat
      /\ Len(t) + 1 \in DOMAIN u /\ u[Len(t) + 1] = e
      /\ \A n \in DOMAIN u : n \in DOMAIN t \/ n = Len(t) + 1
  BY <1>1, OneMore
<1> HIDE DEF e
<1>3. Spots(u, "committed") = Spots(t, "committed") /\ \A n \in Spots(t, "committed") : u[n] = t[n]
  BY <1>1, <1>2 DEF Spots
<1>4. /\ Spots(u, "steer") = Spots(t, "steer") \cup {Len(t) + 1}
      /\ \A n \in Spots(t, "steer") : u[n] = t[n] /\ n < Len(t) + 1 /\ n \in Nat
  BY <1>1, <1>2 DEF Spots
<1>5. Commits(u) = Commits(t)
  BY <1>3 DEF Commits
<1>6. Steered(u) = Steered(t) \cup Range(w)
  <2>1. \A n \in Spots(u, "steer") : \/ n \in Spots(t, "steer") /\ u[n].what = t[n].what
                                    \/ u[n].what = w
    BY <1>1, <1>2, <1>4
  <2>2. \A n \in Spots(t, "steer") : n \in Spots(u, "steer") /\ u[n].what = t[n].what
    BY <1>4
  <2>3. Len(t) + 1 \in Spots(u, "steer") /\ u[Len(t) + 1].what = w
    BY <1>1, <1>2, <1>4
  <2>4. Steered(u) \subseteq Steered(t) \cup Range(w)
    BY <2>1 DEF Steered
  <2>5. Steered(t) \subseteq Steered(u)
    BY <2>2 DEF Steered
  <2>6. Range(w) \subseteq Steered(u)
    BY <2>3 DEF Steered
  <2> QED
    BY <2>4, <2>5, <2>6
<1>7. CommitsRise(t) => CommitsRise(u)
  BY <1>3 DEF CommitsRise
<1>8. ASSUME SteersRise(t), Ascends(w), \A a \in Steered(t) : \A b \in Range(w) : a < b PROVE SteersRise(u)
  <2>1. \A n \in Spots(u, "steer") : Ascends(u[n].what)
    BY <1>1, <1>2, <1>4, <1>8 DEF SteersRise
  <2>2. ASSUME NEW m \in Spots(u, "steer"), NEW n \in Spots(u, "steer"), m < n
        PROVE  \A a \in Range(u[m].what) : \A b \in Range(u[n].what) : a < b
    <3>0. m # Len(t) + 1
      <4>1. CASE n \in Spots(t, "steer")
        <5>1. n < Len(t) + 1 /\ n \in Nat
          BY <1>4, <4>1
        <5> QED
          BY <1>2, <2>2, <5>1
      <4>2. CASE n = Len(t) + 1
        BY <1>2, <2>2, <4>2
      <4> QED
        BY <1>4, <4>1, <4>2
    <3>1. m \in Spots(t, "steer") /\ u[m] = t[m]
      BY <1>4, <3>0
    <3>2. CASE n \in Spots(t, "steer")
      BY <1>4, <1>8, <2>2, <3>1, <3>2 DEF SteersRise
    <3>3. CASE n = Len(t) + 1
      <4>1. u[n].what = w
        BY <1>1, <1>2, <3>3
      <4>2. Range(u[m].what) \subseteq Steered(t)
        BY <3>1 DEF Steered
      <4> QED
        BY <1>8, <4>1, <4>2
    <3> QED
      BY <1>4, <3>2, <3>3
  <2> QED
    BY <2>1, <2>2 DEF SteersRise
<1> QED
  BY <1>2, <1>5, <1>6, <1>7, <1>8

-----------------------------------------------------------------------------
(* The stretches the loop adds to the conversation *)

Users(q) == [n \in DOMAIN q |-> User(q[n])]
Adds(x, users, turns, rounds) ==
  /\ x \in Seq(Folded) /\ Closed(x) /\ Priced(x)
  /\ IdsOf(x, "user") = users /\ Rises(x, "user")
  /\ IdsOf(x, "assistant") = turns /\ Rises(x, "assistant")
  /\ Spots(x, "results") = rounds

LEMMA UsersAdd == ASSUME NEW q \in Seq(Nat), Ascends(q) PROVE Adds(Users(q), Range(q), {}, {})
<1> DEFINE x == Users(q)
<1>1. /\ DOMAIN x = DOMAIN q /\ DOMAIN q = 1..Len(q) /\ Len(q) \in Nat
      /\ \A n \in DOMAIN q : q[n] \in Nat /\ x[n] = User(q[n])
  BY DEF Users
<1>2. \A n \in DOMAIN q : x[n] \in Folded /\ x[n].kind = "user" /\ x[n].id = q[n]
  BY <1>1 DEF User, Folded
<1>3. x \in Seq(Folded)
  <2>1. x = [n \in 1..Len(q) |-> x[n]]
    BY <1>1 DEF Users
  <2>2. \A n \in 1..Len(q) : x[n] \in Folded
    BY <1>1, <1>2
  <2> HIDE DEF x
  <2>3. \A f : f = [n \in 1..Len(q) |-> f[n]] /\ (\A n \in 1..Len(q) : f[n] \in Folded) => f \in Seq(Folded)
    BY <1>1
  <2> QED
    BY <2>1, <2>2, <2>3
<1> HIDE DEF x
<1>4. Closed(x) /\ Priced(x) /\ Spots(x, "results") = {} /\ Spots(x, "assistant") = {} /\ Spots(x, "user") = DOMAIN q
  BY <1>1, <1>2 DEF Closed, Priced, Spots
<1>5. IdsOf(x, "assistant") = {} /\ Rises(x, "assistant")
  BY <1>4 DEF IdsOf, Rises
<1>6. IdsOf(x, "user") = Range(q)
  BY <1>1, <1>2, <1>4 DEF IdsOf, Range
<1>7. Rises(x, "user")
  BY <1>1, <1>2, <1>4 DEF Rises, Ascends
<1> QED
  BY <1>3, <1>4, <1>5, <1>6, <1>7 DEF Adds, x

LEMMA CompactionAdds == Adds(<<Compaction>>, {}, {}, {})
<1>1. Compaction \in Folded /\ Compaction.kind = "compaction"
  BY DEF Compaction, Folded
<1>2. DOMAIN <<Compaction>> = {1} /\ <<Compaction>>[1] = Compaction /\ <<Compaction>> \in Seq(Folded)
  BY <1>1
<1>3. Closed(<<Compaction>>) /\ Priced(<<Compaction>>) /\ \A k \in {"user", "assistant", "results"} : Spots(<<Compaction>>, k) = {}
  BY <1>1, <1>2 DEF Closed, Priced, Spots
<1> QED
  BY <1>2, <1>3 DEF Adds, IdsOf, Rises

LEMMA TurnAdds == ASSUME NEW t \in Nat PROVE Adds(<<Assistant(t, FALSE, t)>>, {}, {t}, {})
<1> DEFINE e == Assistant(t, FALSE, t)
           x == <<e>>
<1>1. e \in Folded /\ e.kind = "assistant" /\ e.id = t /\ e.cost = t /\ e.calls = FALSE
  BY DEF Assistant, Folded
<1> HIDE DEF e
<1>2. DOMAIN x = {1} /\ x[1] = e /\ x \in Seq(Folded)
  BY <1>1
<1> HIDE DEF x
<1>3. /\ Closed(x) /\ Priced(x)
      /\ Spots(x, "user") = {} /\ Spots(x, "results") = {} /\ Spots(x, "assistant") = {1}
  BY <1>1, <1>2 DEF Closed, Priced, Spots
<1>4. Adds(x, {}, {t}, {})
  BY <1>1, <1>2, <1>3 DEF Adds, IdsOf, Rises
<1> QED
  BY <1>4 DEF e, x

LEMMA RoundAdds == ASSUME NEW t \in Nat PROVE Adds(<<Assistant(t, TRUE, t), Results(t)>>, {}, {t}, {2})
<1> DEFINE e == Assistant(t, TRUE, t)
           r == Results(t)
           x == <<e, r>>
<1>1. e \in Folded /\ e.kind = "assistant" /\ e.id = t /\ e.cost = t /\ e.calls = TRUE
  BY DEF Assistant, Folded
<1>2. r \in Folded /\ r.kind = "results" /\ r.id = t /\ r = Results(t)
  BY DEF Results, Folded
<1> HIDE DEF e, r
<1>3. DOMAIN x = {1, 2} /\ Len(x) = 2 /\ x[1] = e /\ x[2] = r /\ x \in Seq(Folded)
  BY <1>1, <1>2
<1> HIDE DEF x
<1>4. /\ Closed(x) /\ Priced(x)
      /\ Spots(x, "user") = {} /\ Spots(x, "results") = {2} /\ Spots(x, "assistant") = {1}
  BY <1>1, <1>2, <1>3 DEF Closed, Priced, Spots
<1>5. Adds(x, {}, {t}, {2})
  BY <1>1, <1>2, <1>3, <1>4 DEF Adds, IdsOf, Rises
<1> QED
  BY <1>5 DEF e, r, x

-----------------------------------------------------------------------------
(* What the run has folded and told, at every suspension *)

\* Closed and priced, one result entry per roundtrip, and a stop committed last.
BookInv ==
  /\ journal \in Seq(Folded) /\ Closed(journal) /\ Priced(journal)
  /\ IsFiniteSet(Spots(journal, "results")) /\ Cardinality(Spots(journal, "results")) = used
  /\ stopping => journal # <<>> /\ journal[Len(journal)].kind = "results"

\* The messages: what is queued is behind what is folded, and what is folded was told.
SteerInv ==
  /\ told \in Seq(Telling) /\ queue \in Seq(Nat) /\ Ascends(queue)
  /\ \A q \in Range(queue) : q >= 1 /\ q <= sent
  /\ \A a \in IdsOf(journal, "user") : a \in Nat /\ a <= sent /\ \A q \in Range(queue) : a < q
  /\ Rises(journal, "user") /\ SteersRise(told)
  /\ IdsOf(journal, "user") \ {0} = Steered(told)

\* The turns: the one in flight is behind all that were folded or told.
TurnInv ==
  /\ Rises(journal, "assistant") /\ CommitsRise(told)
  /\ \A a \in IdsOf(journal, "assistant") \cup Commits(told) : a \in Nat /\ a <= turn /\ (at \in Calling => a < turn)
  /\ \/ IdsOf(journal, "assistant") = Commits(told)
     \/ at \in {"final", "over"} /\ IdsOf(journal, "assistant") = Commits(told) \ {turn}

HearInv == BookInv /\ SteerInv /\ TurnInv

\* What joining a stretch does to the conversation.
Shifted(k, spots) == {k + n : n \in spots}
Follows(s, users, turns) ==
  /\ s \in Seq(Folded) /\ Closed(s) /\ Priced(s) /\ Rises(s, "user") /\ Rises(s, "assistant")
  /\ \A a \in IdsOf(s, "user") : \A b \in users : a < b
  /\ \A a \in IdsOf(s, "assistant") : \A b \in turns : a < b
Grown(s, j, users, turns, rounds) ==
  /\ j \in Seq(Folded) /\ Closed(j) /\ Priced(j) /\ Rises(j, "user") /\ Rises(j, "assistant")
  /\ IdsOf(j, "user") = IdsOf(s, "user") \cup users
  /\ IdsOf(j, "assistant") = IdsOf(s, "assistant") \cup turns
  /\ Spots(j, "results") = Spots(s, "results") \cup Shifted(Len(s), rounds)

LEMMA BookGrows ==
  \A s, x, users, turns, rounds :
    Follows(s, users, turns) /\ Adds(x, users, turns, rounds) => Grown(s, s \o x, users, turns, rounds)
<1> SUFFICES ASSUME NEW s, NEW x, NEW users, NEW turns, NEW rounds, Follows(s, users, turns), Adds(x, users, turns, rounds)
             PROVE  Grown(s, s \o x, users, turns, rounds)
  OBVIOUS
<1> DEFINE j == s \o x
<1>1. s \in Seq(Folded) /\ x \in Seq(Folded)
  BY DEF Follows, Adds
<1>2. j \in Seq(Folded) /\ Joined(s, x, j)
  BY <1>1, JoinedIs
<1> HIDE DEF j
<1>3. Closed(j)
  BY <1>2, ClosedJoins DEF Follows, Adds
<1>4. Priced(j)
  BY <1>2, PricedJoins DEF Follows, Adds
<1>5. \A k : /\ Spots(j, k) = Spots(s, k) \cup {Len(s) + n : n \in Spots(x, k)}
             /\ IdsOf(j, k) = IdsOf(s, k) \cup IdsOf(x, k)
  BY <1>2, PlacesJoin
<1>6. Rises(j, "user")
  BY <1>2, RisesJoin DEF Follows, Adds
<1>7. Rises(j, "assistant")
  BY <1>2, RisesJoin DEF Follows, Adds
<1>8. Grown(s, j, users, turns, rounds)
  BY <1>2, <1>3, <1>4, <1>5, <1>6, <1>7 DEF Adds, Grown, Shifted
<1> QED
  BY <1>8 DEF j

LEMMA HearStarts == LoopInit => HearInv
<1> SUFFICES ASSUME LoopInit PROVE HearInv
  OBVIOUS
<1>1. /\ told = <<>> /\ queue = <<>> /\ stopping = FALSE /\ sent = 0 /\ turn = 0 /\ used = 0 /\ at = "converge"
      /\ journal = <<>> \/ journal = <<User(0)>>
  BY DEF LoopInit
<1>2. /\ \A S : <<>> \in Seq(S)
      /\ DOMAIN <<>> = {} /\ Range(<<>>) = {}
  BY DEF Range
<1>3. /\ journal \in Seq(Folded) /\ Closed(journal) /\ Priced(journal) /\ Rises(journal, "user")
      /\ IdsOf(journal, "user") \subseteq {0} /\ IdsOf(journal, "assistant") = {} /\ Spots(journal, "results") = {}
      /\ Rises(journal, "assistant")
  <2>1. CASE journal = <<>>
    <3>1. journal \in Seq(Folded) /\ DOMAIN journal = {}
      BY <2>1, <1>2, Zenon
    <3>2. \A k : Spots(journal, k) = {}
      BY <3>1 DEF Spots
    <3> QED
      BY <3>1, <3>2 DEF Closed, Priced, Rises, IdsOf
  <2>2. CASE journal = <<User(0)>>
    <3>1. User(0) \in Folded /\ User(0).kind = "user" /\ User(0).id = 0
      BY DEF User, Folded
    <3>2. journal \in Seq(Folded) /\ DOMAIN journal = {1} /\ journal[1] = User(0)
      BY <2>2, <3>1
    <3>3. Spots(journal, "user") = {1} /\ Spots(journal, "assistant") = {} /\ Spots(journal, "results") = {}
      BY <3>1, <3>2 DEF Spots
    <3>4. Closed(journal) /\ Priced(journal)
      BY <3>1, <3>2 DEF Closed, Priced
    <3>5. IdsOf(journal, "user") = {0} /\ IdsOf(journal, "assistant") = {} /\ Rises(journal, "user") /\ Rises(journal, "assistant")
      BY <3>1, <3>2, <3>3 DEF IdsOf, Rises
    <3> QED
      BY <3>2, <3>3, <3>4, <3>5
  <2> QED
    BY <1>1, <2>1, <2>2
<1>4. /\ told \in Seq(Telling) /\ queue \in Seq(Nat) /\ Ascends(queue) /\ Range(queue) = {}
      /\ Spots(told, "steer") = {} /\ Spots(told, "committed") = {}
  <2>1. told \in Seq(Telling) /\ queue \in Seq(Nat) /\ DOMAIN told = {} /\ DOMAIN queue = {} /\ Range(queue) = {}
    BY <1>1, <1>2, Zenon
  <2> QED
    BY <2>1 DEF Ascends, Spots
<1>5. SteersRise(told) /\ CommitsRise(told) /\ Steered(told) = {} /\ Commits(told) = {}
  BY <1>4 DEF SteersRise, CommitsRise, Steered, Commits
<1>6. IsFiniteSet(Spots(journal, "results")) /\ Cardinality(Spots(journal, "results")) = used
  BY <1>1, <1>3, FS_EmptySet
<1>7. BookInv
  BY <1>1, <1>3, <1>6 DEF BookInv
<1>8. SteerInv
  BY <1>1, <1>3, <1>4, <1>5 DEF SteerInv
<1>9. TurnInv
  BY <1>3, <1>5 DEF TurnInv
<1> QED
  BY <1>7, <1>8, <1>9 DEF HearInv

LEMMA HearMoves == ASSUME FlowInv, HearInv, LoopNext PROVE HearInv'
<1> USE DEF Calling
<1>0. /\ BookInv /\ SteerInv /\ TurnInv
      /\ sent \in Nat /\ turn \in Nat /\ slot \in Nat /\ used \in Nat
      /\ at \in {"reported", "batch", "settled"} => slot = turn
      /\ stopping => at \in {"converge", "over"}
  BY DEF HearInv, FlowInv, FlowTypes, PlaceInv
<1>1. CASE Send
  <2>1. UNCHANGED <<journal, used, stopping, told, turn, at>> /\ sent' = sent + 1 /\ queue' = Append(queue, sent + 1)
    BY <1>1 DEF Send
  <2>2. queue \in Seq(Nat) /\ sent + 1 \in Nat
    BY <1>0 DEF SteerInv
  <2>3. /\ queue' \in Seq(Nat) /\ Len(queue) \in Nat
        /\ \A n \in DOMAIN queue : n \in DOMAIN queue' /\ queue'[n] = queue[n] /\ n < Len(queue) + 1 /\ n \in Nat
        /\ Len(queue) + 1 \in DOMAIN queue' /\ queue'[Len(queue) + 1] = sent + 1
        /\ \A n \in DOMAIN queue' : n \in DOMAIN queue \/ n = Len(queue) + 1
    BY <2>1, <2>2, OneMore
  <2>4. Range(queue') = Range(queue) \cup {sent + 1}
    BY <2>3 DEF Range
  <2>5. \A n \in DOMAIN queue : queue[n] \in Range(queue)
    BY DEF Range
  <2>6. Ascends(queue')
    <3> SUFFICES ASSUME NEW i \in DOMAIN queue', NEW j \in DOMAIN queue', i < j PROVE queue'[i] < queue'[j]
      BY DEF Ascends
    <3>1. i # Len(queue) + 1
      <4>1. CASE j \in DOMAIN queue
        <5>1. j < Len(queue) + 1 /\ j \in Nat
          BY <2>3, <4>1
        <5> QED
          BY <2>3, <5>1
      <4> QED
        BY <2>3, <4>1
    <3>2. i \in DOMAIN queue /\ queue'[i] = queue[i] /\ queue[i] \in Range(queue)
      BY <2>3, <2>5, <3>1
    <3>3. CASE j \in DOMAIN queue
      BY <1>0, <2>3, <3>2, <3>3 DEF SteerInv, Ascends
    <3>4. CASE j = Len(queue) + 1
      <4>1. queue[i] <= sent /\ queue'[j] = sent + 1 /\ queue[i] \in Nat
        BY <1>0, <2>2, <2>3, <3>2, <3>4 DEF SteerInv
      <4> QED
        BY <1>0, <3>2, <4>1
    <3> QED
      BY <2>3, <3>3, <3>4
  <2>7. SteerInv'
    <3>1. /\ \A q \in Range(queue) : q \in Nat /\ q >= 1 /\ q <= sent
          /\ \A a \in IdsOf(journal, "user") : a \in Nat /\ a <= sent /\ \A q \in Range(queue) : a < q
      <4>1. \A q \in Range(queue) : q \in Nat
        BY <2>2 DEF Range
      <4> QED
        BY <1>0, <4>1 DEF SteerInv
    <3>2. \A q \in Range(queue') : q >= 1 /\ q <= sent'
      BY <1>0, <2>1, <2>4, <3>1
    <3>3. \A a \in IdsOf(journal', "user") : a \in Nat /\ a <= sent' /\ \A q \in Range(queue') : a < q
      BY <1>0, <2>1, <2>4, <3>1
    <3> QED
      BY <1>0, <2>1, <2>3, <2>6, <3>2, <3>3 DEF SteerInv
  <2>8. BookInv' /\ TurnInv'
    BY <1>0, <2>1 DEF BookInv, TurnInv
  <2> QED
    BY <2>7, <2>8 DEF HearInv
<1>2. CASE Abort
  <2>1. told' = told
    BY <1>2, TellTells DEF Abort
  <2>2. /\ UNCHANGED <<journal, queue, sent, used, stopping, told>> /\ at # "over" /\ turn' \in Nat
        /\ \/ UNCHANGED turn /\ (at' \in Calling => at \in Calling) /\ (at = "final" => at' = "over")
           \/ turn' = turn + 1 /\ at = "prepare"
    BY <1>0, <2>1, <1>2 DEF Abort
  <2>3. BookInv' /\ SteerInv'
    BY <1>0, <2>2 DEF BookInv, SteerInv
  <2>4. TurnInv'
    BY <1>0, <2>2 DEF TurnInv
  <2> QED
    BY <2>3, <2>4 DEF HearInv
<1>3. CASE Stopped
  <2>1. told' = told
    BY <1>3, TellTells DEF Stopped
  <2>2. UNCHANGED <<journal, sent, used, stopping, turn>> /\ queue' = <<>> /\ at = "converge" /\ at' = "over"
    BY <1>3 DEF Stopped
  <2>3. queue' \in Seq(Nat) /\ Range(queue') = {} /\ Ascends(queue')
    BY <2>2 DEF Range, Ascends
  <2>4. SteerInv'
    BY <1>0, <2>1, <2>2, <2>3 DEF SteerInv
  <2>5. BookInv' /\ TurnInv'
    BY <1>0, <2>1, <2>2 DEF BookInv, TurnInv
  <2> QED
    BY <2>4, <2>5 DEF HearInv
<1>4. CASE Drain
  <2>1. /\ journal' = journal \o Users(queue) /\ queue' = <<>> /\ at = "converge" /\ at' = "decide"
        /\ UNCHANGED <<sent, turn, stopping, used>> /\ ~stopping
    BY <1>4 DEF Drain, Users
  <2>2. queue \in Seq(Nat) /\ Ascends(queue) /\ Adds(Users(queue), Range(queue), {}, {})
    BY <1>0, UsersAdd DEF SteerInv
  <2>3. \A a \in IdsOf(journal, "user") : \A b \in Range(queue) : a < b
    BY <1>0 DEF SteerInv
  <2>4. /\ journal' \in Seq(Folded) /\ Closed(journal') /\ Priced(journal')
        /\ IdsOf(journal', "user") = IdsOf(journal, "user") \cup Range(queue)
        /\ IdsOf(journal', "assistant") = IdsOf(journal, "assistant")
        /\ Spots(journal', "results") = Spots(journal, "results")
        /\ Rises(journal', "user") /\ Rises(journal', "assistant")
    <3>1. Rises(journal, "user") /\ Rises(journal, "assistant")
      BY <1>0 DEF SteerInv, TurnInv
    <3>2. Follows(journal, Range(queue), {})
      BY <1>0, <2>3, <3>1 DEF Follows, BookInv
    <3>3. Grown(journal, journal', Range(queue), {}, {})
      BY <2>1, <2>2, <3>2, BookGrows, Zenon
    <3> QED
      BY <3>3 DEF Grown, Shifted
  <2>5. /\ told' \in Seq(Telling) /\ Steered(told') = Steered(told) \cup Range(queue)
        /\ Commits(told') = Commits(told) /\ CommitsRise(told') /\ SteersRise(told')
    <3>1. CASE queue = <<>>
      <4>1. told' = told /\ Range(queue) = {}
        BY <1>4, <3>1 DEF Drain, Range
      <4> QED
        BY <1>0, <4>1 DEF SteerInv, TurnInv
    <3>2. CASE queue # <<>>
      <4>1. told' = Append(told, Item("steer", queue))
        BY <1>4, <3>2, TellTells DEF Drain
      <4>2. \A a \in Steered(told) : \A b \in Range(queue) : a < b
        BY <1>0, <2>3 DEF SteerInv
      <4> QED
        BY <1>0, <2>2, <4>1, <4>2, SteerTold DEF SteerInv, TurnInv
    <3> QED
      BY <3>1, <3>2
  <2>6. queue' \in Seq(Nat) /\ Range(queue') = {} /\ Ascends(queue') /\ Range(queue) \subseteq Nat
    BY <2>1, <2>2 DEF Range, Ascends
  <2>7. SteerInv'
    BY <1>0, <2>1, <2>4, <2>5, <2>6 DEF SteerInv
  <2>8. BookInv'
    BY <1>0, <2>1, <2>4 DEF BookInv
  <2>9. TurnInv'
    BY <1>0, <2>1, <2>4, <2>5 DEF TurnInv
  <2> QED
    BY <2>7, <2>8, <2>9 DEF HearInv
<1>5. CASE Exit
  <2>1. told' = told
    BY <1>5, TellTells DEF Exit
  <2>2. /\ UNCHANGED <<journal, queue, sent, used, stopping, told>> /\ at # "over" /\ turn' \in Nat
        /\ \/ UNCHANGED turn /\ (at' \in Calling => at \in Calling) /\ (at = "final" => at' = "over")
           \/ turn' = turn + 1 /\ at = "prepare"
    BY <1>0, <2>1, <1>5 DEF Exit
  <2>3. BookInv' /\ SteerInv'
    BY <1>0, <2>2 DEF BookInv, SteerInv
  <2>4. TurnInv'
    BY <1>0, <2>2 DEF TurnInv
  <2> QED
    BY <2>3, <2>4 DEF HearInv
<1>6. CASE Door
  <2>1. /\ UNCHANGED <<queue, sent, turn, stopping, used, told>> /\ at = "decide" /\ at' = "prepare" /\ ~stopping
        /\ journal' = journal \/ journal' = Append(journal, Compaction)
    BY <1>0, <1>6 DEF Door
  <2>2. /\ journal' \in Seq(Folded) /\ Closed(journal') /\ Priced(journal')
        /\ IdsOf(journal', "user") = IdsOf(journal, "user") /\ IdsOf(journal', "assistant") = IdsOf(journal, "assistant")
        /\ Spots(journal', "results") = Spots(journal, "results")
        /\ Rises(journal', "user") /\ Rises(journal', "assistant")
    <3>1. CASE journal' = journal
      BY <1>0, <3>1 DEF BookInv, SteerInv, TurnInv
    <3>2. CASE journal' = Append(journal, Compaction)
      <4>1. Compaction \in Folded
        BY DEF Compaction, Folded
      <4>2. journal' = journal \o <<Compaction>>
        BY <1>0, <3>2, <4>1, AppendedIs DEF BookInv
      <4> QED
        <5>1. Rises(journal, "user") /\ Rises(journal, "assistant")
          BY <1>0 DEF SteerInv, TurnInv
        <5>2. Follows(journal, {}, {})
          BY <1>0, <5>1 DEF Follows, BookInv
        <5>3. Grown(journal, journal', {}, {}, {})
          BY <4>2, <5>2, CompactionAdds, BookGrows, Zenon
        <5> QED
          BY <5>3 DEF Grown, Shifted
    <3> QED
      BY <2>1, <3>1, <3>2
  <2>3. BookInv'
    BY <1>0, <2>1, <2>2 DEF BookInv
  <2>4. SteerInv'
    BY <1>0, <2>1, <2>2 DEF SteerInv
  <2>5. TurnInv'
    BY <1>0, <2>1, <2>2 DEF TurnInv
  <2> QED
    BY <2>3, <2>4, <2>5 DEF HearInv
<1>7. CASE BadRequest
  <2>2. /\ UNCHANGED <<journal, queue, sent, used, stopping, told>> /\ at # "over" /\ turn' \in Nat
        /\ \/ UNCHANGED turn /\ (at' \in Calling => at \in Calling) /\ (at = "final" => at' = "over")
           \/ turn' = turn + 1 /\ at = "prepare"
    BY <1>0, <1>7 DEF BadRequest
  <2>3. BookInv' /\ SteerInv'
    BY <1>0, <2>2 DEF BookInv, SteerInv
  <2>4. TurnInv'
    BY <1>0, <2>2 DEF TurnInv
  <2> QED
    BY <2>3, <2>4 DEF HearInv
<1>8. CASE Announce
  <2>1. told' = told
    BY <1>8, TellTells DEF Announce
  <2>2. /\ UNCHANGED <<journal, queue, sent, used, stopping, told>> /\ at # "over" /\ turn' \in Nat
        /\ \/ UNCHANGED turn /\ (at' \in Calling => at \in Calling) /\ (at = "final" => at' = "over")
           \/ turn' = turn + 1 /\ at = "prepare"
    BY <1>0, <2>1, <1>8 DEF Announce
  <2>3. BookInv' /\ SteerInv'
    BY <1>0, <2>2 DEF BookInv, SteerInv
  <2>4. TurnInv'
    BY <1>0, <2>2 DEF TurnInv
  <2> QED
    BY <2>3, <2>4 DEF HearInv
<1>9. CASE Report
  <2>1. told' = told
    BY <1>9, TellTells DEF Report
  <2>2. /\ UNCHANGED <<journal, queue, sent, used, stopping, told>> /\ at # "over" /\ turn' \in Nat
        /\ \/ UNCHANGED turn /\ (at' \in Calling => at \in Calling) /\ (at = "final" => at' = "over")
           \/ turn' = turn + 1 /\ at = "prepare"
    BY <1>0, <2>1, <1>9 DEF Report
  <2>3. BookInv' /\ SteerInv'
    BY <1>0, <2>2 DEF BookInv, SteerInv
  <2>4. TurnInv'
    BY <1>0, <2>2 DEF TurnInv
  <2> QED
    BY <2>3, <2>4 DEF HearInv
<1>10. CASE Defect
  <2>1. told' = told
    BY <1>10, TellTells DEF Defect
  <2>2. /\ UNCHANGED <<journal, queue, sent, used, stopping, told>> /\ at # "over" /\ turn' \in Nat
        /\ \/ UNCHANGED turn /\ (at' \in Calling => at \in Calling) /\ (at = "final" => at' = "over")
           \/ turn' = turn + 1 /\ at = "prepare"
    BY <1>0, <2>1, <1>10 DEF Defect
  <2>3. BookInv' /\ SteerInv'
    BY <1>0, <2>2 DEF BookInv, SteerInv
  <2>4. TurnInv'
    BY <1>0, <2>2 DEF TurnInv
  <2> QED
    BY <2>3, <2>4 DEF HearInv
<1>11. CASE ProviderError
  <2>2. /\ UNCHANGED <<journal, queue, sent, used, stopping, told>> /\ at # "over" /\ turn' \in Nat
        /\ \/ UNCHANGED turn /\ (at' \in Calling => at \in Calling) /\ (at = "final" => at' = "over")
           \/ turn' = turn + 1 /\ at = "prepare"
    BY <1>0, <1>11 DEF ProviderError
  <2>3. BookInv' /\ SteerInv'
    BY <1>0, <2>2 DEF BookInv, SteerInv
  <2>4. TurnInv'
    BY <1>0, <2>2 DEF TurnInv
  <2> QED
    BY <2>3, <2>4 DEF HearInv
<1>12. CASE Final
  <2>1. /\ UNCHANGED <<queue, sent, turn, stopping, used>> /\ at = "reported" /\ at' = "final" /\ ~stopping /\ slot = turn
        /\ journal' = journal \/ journal' = Append(journal, Assistant(turn, FALSE, turn))
    BY <1>0, <1>12 DEF Final
  <2>2. told' = Append(told, Item("committed", turn))
    BY <1>12, TellTells DEF Final
  <2>3. \A a \in IdsOf(journal, "assistant") \cup Commits(told) : a \in Nat /\ a < turn
    BY <1>0, <2>1 DEF TurnInv
  <2>4. /\ told' \in Seq(Telling) /\ Steered(told') = Steered(told) /\ Commits(told') = Commits(told) \cup {turn}
        /\ SteersRise(told') /\ CommitsRise(told')
    BY <1>0, <2>2, <2>3, CommitTold DEF SteerInv, TurnInv
  <2>5. /\ journal' \in Seq(Folded) /\ Closed(journal') /\ Priced(journal')
        /\ IdsOf(journal', "user") = IdsOf(journal, "user")
        /\ \/ IdsOf(journal', "assistant") = IdsOf(journal, "assistant")
           \/ IdsOf(journal', "assistant") = IdsOf(journal, "assistant") \cup {turn}
        /\ Spots(journal', "results") = Spots(journal, "results")
        /\ Rises(journal', "user") /\ Rises(journal', "assistant")
    <3>1. CASE journal' = journal
      BY <1>0, <3>1 DEF BookInv, SteerInv, TurnInv
    <3>2. CASE journal' = Append(journal, Assistant(turn, FALSE, turn))
      <4>1. Assistant(turn, FALSE, turn) \in Folded
        BY <1>0 DEF Assistant, Folded
      <4>2. journal' = journal \o <<Assistant(turn, FALSE, turn)>>
        BY <1>0, <3>2, <4>1, AppendedIs DEF BookInv
      <4>3. Adds(<<Assistant(turn, FALSE, turn)>>, {}, {turn}, {})
        BY <1>0, TurnAdds
      <4> QED
        <5>1. Rises(journal, "user") /\ Rises(journal, "assistant")
          BY <1>0 DEF SteerInv, TurnInv
        <5>2. Follows(journal, {}, {turn})
          BY <1>0, <2>3, <5>1 DEF Follows, BookInv
        <5>3. Grown(journal, journal', {}, {turn}, {})
          BY <4>2, <4>3, <5>2, BookGrows, Zenon
        <5> QED
          BY <5>3 DEF Grown, Shifted
    <3> QED
      BY <2>1, <3>1, <3>2
  <2>6. BookInv'
    BY <1>0, <2>1, <2>5 DEF BookInv
  <2>7. SteerInv'
    BY <1>0, <2>1, <2>4, <2>5 DEF SteerInv
  <2>8. IdsOf(journal, "assistant") = Commits(told)
    BY <1>0, <2>1 DEF TurnInv
  <2>9. turn \notin Commits(told)
    BY <1>0, <2>3
  <2>10. TurnInv'
    BY <1>0, <2>1, <2>3, <2>4, <2>5, <2>8, <2>9 DEF TurnInv
  <2> QED
    BY <2>6, <2>7, <2>10 DEF HearInv
<1>13. CASE Finish
  <2>1. told' = told
    BY <1>13, TellTells DEF Finish
  <2>2. /\ UNCHANGED <<journal, queue, sent, used, stopping, told>> /\ at # "over" /\ turn' \in Nat
        /\ \/ UNCHANGED turn /\ (at' \in Calling => at \in Calling) /\ (at = "final" => at' = "over")
           \/ turn' = turn + 1 /\ at = "prepare"
    BY <1>0, <2>1, <1>13 DEF Finish
  <2>3. BookInv' /\ SteerInv'
    BY <1>0, <2>2 DEF BookInv, SteerInv
  <2>4. TurnInv'
    BY <1>0, <2>2 DEF TurnInv
  <2> QED
    BY <2>3, <2>4 DEF HearInv
<1>14. CASE Tools
  <2>2. /\ UNCHANGED <<journal, queue, sent, used, stopping, told>> /\ at # "over" /\ turn' \in Nat
        /\ \/ UNCHANGED turn /\ (at' \in Calling => at \in Calling) /\ (at = "final" => at' = "over")
           \/ turn' = turn + 1 /\ at = "prepare"
    BY <1>0, <1>14 DEF Tools
  <2>3. BookInv' /\ SteerInv'
    BY <1>0, <2>2 DEF BookInv, SteerInv
  <2>4. TurnInv'
    BY <1>0, <2>2 DEF TurnInv
  <2> QED
    BY <2>3, <2>4 DEF HearInv
<1>15. CASE Settled
  <2>1. told' = told
    BY <1>15, TellTells DEF Settled
  <2>2. /\ UNCHANGED <<journal, queue, sent, used, stopping, told>> /\ at # "over" /\ turn' \in Nat
        /\ \/ UNCHANGED turn /\ (at' \in Calling => at \in Calling) /\ (at = "final" => at' = "over")
           \/ turn' = turn + 1 /\ at = "prepare"
    BY <1>0, <2>1, <1>15 DEF Settled
  <2>3. BookInv' /\ SteerInv'
    BY <1>0, <2>2 DEF BookInv, SteerInv
  <2>4. TurnInv'
    BY <1>0, <2>2 DEF TurnInv
  <2> QED
    BY <2>3, <2>4 DEF HearInv
<1>16. CASE Roundtrip
  <2>1. /\ UNCHANGED <<queue, sent, turn>> /\ at = "settled" /\ at' = "converge" /\ used' = used + 1 /\ slot = turn
        /\ journal' = journal \o <<Assistant(turn, TRUE, turn), Results(turn)>> /\ stopping' \in BOOLEAN
    BY <1>0, <1>16 DEF Roundtrip
  <2>2. told' = Append(told, Item("committed", turn))
    BY <1>16, TellTells DEF Roundtrip
  <2>3. \A a \in IdsOf(journal, "assistant") \cup Commits(told) : a \in Nat /\ a < turn
    BY <1>0, <2>1 DEF TurnInv
  <2>4. /\ told' \in Seq(Telling) /\ Steered(told') = Steered(told) /\ Commits(told') = Commits(told) \cup {turn}
        /\ SteersRise(told') /\ CommitsRise(told')
    BY <1>0, <2>2, <2>3, CommitTold DEF SteerInv, TurnInv
  <2>5. Adds(<<Assistant(turn, TRUE, turn), Results(turn)>>, {}, {turn}, {2})
    BY <1>0, RoundAdds
  <2>6. /\ journal' \in Seq(Folded) /\ Closed(journal') /\ Priced(journal')
        /\ IdsOf(journal', "user") = IdsOf(journal, "user")
        /\ IdsOf(journal', "assistant") = IdsOf(journal, "assistant") \cup {turn}
        /\ Spots(journal', "results") = Spots(journal, "results") \cup {Len(journal) + n : n \in {2}}
        /\ Rises(journal', "user") /\ Rises(journal', "assistant")
    <3>1. Rises(journal, "user") /\ Rises(journal, "assistant")
      BY <1>0 DEF SteerInv, TurnInv
    <3>2. Follows(journal, {}, {turn})
      BY <1>0, <2>3, <3>1 DEF Follows, BookInv
    <3>3. Grown(journal, journal', {}, {turn}, {2})
      BY <2>1, <2>5, <3>2, BookGrows, Zenon
    <3> QED
      BY <3>3 DEF Grown, Shifted
  <2>7. /\ Spots(journal', "results") = Spots(journal, "results") \cup {Len(journal) + 2}
        /\ Len(journal) + 2 \notin Spots(journal, "results")
    BY <1>0, <2>6 DEF BookInv, Spots
  <2>8. /\ IsFiniteSet(Spots(journal', "results"))
        /\ Cardinality(Spots(journal', "results")) = used'
    <3> DEFINE S == Spots(journal, "results")
    <3>1. IsFiniteSet(S) /\ Cardinality(S) = used /\ Len(journal) + 2 \notin S
      BY <1>0, <2>7 DEF BookInv
    <3> HIDE DEF S
    <3>2. /\ IsFiniteSet(S \cup {Len(journal) + 2})
          /\ Cardinality(S \cup {Len(journal) + 2}) = used + 1
      BY <3>1, FS_AddElement
    <3> QED
      BY <2>1, <2>7, <3>2 DEF S
  <2>9. journal' # <<>> /\ journal'[Len(journal')].kind = "results"
    <3>1. journal \in Seq(Folded) /\ <<Assistant(turn, TRUE, turn), Results(turn)>> \in Seq(Folded)
      BY <1>0, <2>5 DEF BookInv, Adds
    <3> DEFINE x == <<Assistant(turn, TRUE, turn), Results(turn)>>
    <3>2. Joined(journal, x, journal') /\ Len(x) = 2 /\ x[2] = Results(turn)
      BY <2>1, <3>1, JoinedIs
    <3> HIDE DEF x
    <3>3. Len(journal') = Len(journal) + 2 /\ journal'[Len(journal) + 2] = Results(turn) /\ Len(journal) \in Nat
      BY <3>2 DEF Joined
    <3> QED
      BY <3>3 DEF Results
  <2>10. BookInv'
    BY <2>6, <2>8, <2>9 DEF BookInv
  <2>11. SteerInv'
    BY <1>0, <2>1, <2>4, <2>6 DEF SteerInv
  <2>12. IdsOf(journal, "assistant") = Commits(told)
    BY <1>0, <2>1 DEF TurnInv
  <2>13. TurnInv'
    <3>1. \A a \in IdsOf(journal', "assistant") \cup Commits(told') : a \in Nat /\ a <= turn' /\ at' \notin Calling
      <4>1. \A a \in IdsOf(journal', "assistant") \cup Commits(told') :
              a \in IdsOf(journal, "assistant") \cup Commits(told) \/ a = turn
        BY <2>4, <2>6
      <4>2. /\ \A a \in IdsOf(journal, "assistant") \cup Commits(told) : a \in Nat /\ a <= turn'
            /\ turn \in Nat /\ turn <= turn' /\ at' \notin Calling
        BY <1>0, <2>1, <2>3
      <4> QED
        BY <4>1, <4>2
    <3> QED
      BY <2>4, <2>6, <2>12, <3>1 DEF TurnInv
  <2> QED
    BY <2>10, <2>11, <2>13 DEF HearInv
<1> QED
  BY <1>1, <1>2, <1>3, <1>4, <1>5, <1>6, <1>7, <1>8, <1>9, <1>10, <1>11, <1>12, <1>13, <1>14, <1>15, <1>16
     DEF LoopNext, LoopStep

\* What the run promises, read off the invariant.
LEMMA LoopKeeps ==
  ASSUME FlowInv, HearInv
  PROVE  /\ LoopTypeOK /\ RoundtripBoundary /\ CommitsAreTold /\ UnattendedIsBounded /\ BudgetHolds
         /\ StopIsFinal /\ CostIsItsOwn
<1> USE EngineAssumption
<1>0. BookInv /\ SteerInv /\ TurnInv /\ FlowTypes /\ StreakInv /\ PlaceInv
  BY DEF HearInv, FlowInv
<1>1. LoopTypeOK
  <2>1. Range(queue) \subseteq 1..sent
    BY <1>0 DEF SteerInv, FlowTypes, Range
  <2> QED
    BY <1>0, <2>1 DEF FlowTypes, LoopTypeOK, Places
<1>2. RoundtripBoundary /\ CostIsItsOwn
  BY <1>0 DEF BookInv, Closed, Priced, RoundtripBoundary, CostIsItsOwn
<1>3. /\ \A k : Entries(k) = Spots(journal, k)
      /\ \A k : Heard(k) = Spots(told, k)
  BY DEF Entries, Heard, Spots
<1>4. SteersAreTold
  <2>1. {journal[n].id : n \in Entries("user")} = IdsOf(journal, "user")
    BY <1>3 DEF IdsOf
  <2>2. UNION {Range(told[n].what) : n \in Heard("steer")} = Steered(told)
    BY <1>3 DEF Steered
  <2>3. \A m, n \in Entries("user") : m < n => journal[m].id < journal[n].id
    BY <1>0, <1>3 DEF SteerInv, Rises
  <2>4. /\ \A n \in Heard("steer") : \A i, j \in DOMAIN told[n].what : i < j => told[n].what[i] < told[n].what[j]
        /\ \A m, n \in Heard("steer") : m < n => \A a \in Range(told[m].what) : \A b \in Range(told[n].what) : a < b
    BY <1>0, <1>3 DEF SteerInv, SteersRise, Ascends
  <2>5. IdsOf(journal, "user") \ {0} = Steered(told)
    BY <1>0 DEF SteerInv
  <2> QED
    BY <2>1, <2>2, <2>3, <2>4, <2>5, Zenon DEF SteersAreTold
<1>5. TurnsAreTold
  <2>1. {journal[n].id : n \in Entries("assistant")} = IdsOf(journal, "assistant")
    BY <1>3 DEF IdsOf
  <2>2. {told[n].what : n \in Heard("committed")} = Commits(told)
    BY <1>3 DEF Commits
  <2>3. /\ \A m, n \in Entries("assistant") : m < n => journal[m].id < journal[n].id
        /\ \A m, n \in Heard("committed") : m < n => told[m].what < told[n].what
    BY <1>0, <1>3 DEF TurnInv, Rises, CommitsRise
  <2>4. \/ IdsOf(journal, "assistant") = Commits(told)
        \/ at \in {"final", "over"} /\ IdsOf(journal, "assistant") = Commits(told) \ {turn}
    BY <1>0 DEF TurnInv
  <2> QED
    BY <2>1, <2>2, <2>3, <2>4, Zenon DEF TurnsAreTold
<1>6. UnattendedIsBounded
  <2>1. Len(told) \in Nat /\ Allowance(Len(told)) \in Nat /\ Streak \in Nat /\ Streak = 2 * RetryCap + 1
    BY <1>0, AllowanceGrows DEF FlowTypes, Streak
  <2>2. turn <= Allowance(Len(told)) + Streak
    BY <1>0, <2>1 DEF StreakInv, FlowTypes, Places
  <2>3. Streak * (1 + Len(told)) = Allowance(Len(told)) + Streak
    <3>1. \A k, n \in Nat : k * (1 + n) = k * n + k
      OBVIOUS
    <3> QED
      BY <2>1, <3>1 DEF Allowance
  <2> QED
    BY <2>2, <2>3 DEF UnattendedIsBounded, Streak
<1>7. BudgetHolds
  <2>1. Cardinality(Entries("results")) = used
    BY <1>0, <1>3 DEF BookInv
  <2> QED
    BY <1>0, <2>1 DEF BudgetHolds, FlowTypes, PlaceInv
<1>8. StopIsFinal
  BY <1>0 DEF StopIsFinal, BookInv, PlaceInv, Last
<1> QED
  BY <1>1, <1>2, <1>4, <1>5, <1>6, <1>7, <1>8 DEF CommitsAreTold

-----------------------------------------------------------------------------
(* A batch of tool calls *)

Batch == 1..BatchSize
Passed == {"body", "result1", "result3", "done"}

CallTypes ==
  /\ chain \in [Batch -> Stages] /\ args \in [Batch -> 0..3] /\ inner \in [Batch -> 0..3] /\ view \in [Batch -> 0..3]
  /\ frames \in [Batch -> {<<>>, <<0>>}] /\ rewrote \in [Batch -> SUBSET {1, 2, 3}]
  /\ ran \in [Batch -> [by : {0, 1}, with : 0..3]]
  /\ stops \subseteq Batch /\ offered \subseteq Batch /\ width \in Nat /\ stop \in 0..BatchSize
  /\ batch \in {"running", "settled", "dropped"}

\* How far a call has come tells who rewrote its arguments and where the rewrite lies:
\* with the call, with the nested stack, or in no frame at all.
LastOf(hooks, by) ==
  \/ hooks = {} /\ by = 0
  \/ by \in hooks /\ \A g \in hooks : g <= by
CallIsAt(at_, by, in, told_, hooks, result) ==
  /\ at_ \in {"queued", "gate1"} => by = 0 /\ in = 0 /\ told_ = <<>> /\ hooks = {} /\ result = Nothing
  /\ at_ = "gate2" => in = 0 /\ hooks \subseteq {1} /\ by = (IF 1 \in hooks THEN 1 ELSE 0) /\ result = Nothing
  /\ at_ = "gate3" =>
       /\ hooks \subseteq {1, 2} /\ by = (IF 1 \in hooks THEN 1 ELSE 0)
       /\ in = (IF 2 \in hooks THEN 2 ELSE 0) /\ result = Nothing
  /\ at_ \in Passed =>
       /\ told_ = <<>> /\ LastOf(hooks, by)
       /\ result # Nothing => at_ # "body" /\ result.with = by
CallInv(c) ==
  /\ CallIsAt(chain[c], args[c], inner[c], frames[c], rewrote[c], ran[c])
  /\ batch = "running" /\ chain[c] \in {"gate2", "gate3"} => frames[c] = <<0>>
  /\ batch = "settled" => chain[c] = "done"
  /\ batch = "dropped" => frames[c] = <<>>
  /\ c \notin offered => chain[c] \in {"queued", "done"} /\ ran[c] = Nothing /\ c \notin stops

StopInv ==
  \/ stops = {} /\ stop = 0
  \/ stop \in stops /\ \A d \in stops : stop <= d
WidthInv == Cardinality(InFlight) <= width
BatchInv == CallTypes /\ (\A c \in Batch : CallInv(c)) /\ StopInv /\ WidthInv

LEMMA FlightIsFinite == IsFiniteSet(InFlight) /\ Cardinality(InFlight) \in Nat
<1>1. InFlight \subseteq Batch /\ IsFiniteSet(Batch)
  BY BatchAssumption, FS_Interval DEF InFlight, Batch
<1> QED
  BY <1>1, FS_Subset, FS_CardinalityType

\* A call that was in flight may land, and one more may leave while there is room.
LEMMA FlightNarrows ==
  ASSUME CallTypes, WidthInv, InFlight' \subseteq InFlight, width' = width
  PROVE  WidthInv'
<1>1. Cardinality(InFlight') <= Cardinality(InFlight) /\ Cardinality(InFlight') \in Nat
  BY FlightIsFinite, FS_Subset, FS_CardinalityType
<1> QED
  BY <1>1, FlightIsFinite DEF WidthInv, CallTypes

LEMMA FlightGains ==
  ASSUME CallTypes, Cardinality(InFlight) < width, NEW c, InFlight' \subseteq InFlight \cup {c}, width' = width
  PROVE  WidthInv'
<1>1. /\ IsFiniteSet(InFlight \cup {c}) /\ Cardinality(InFlight \cup {c}) \in Nat
      /\ Cardinality(InFlight \cup {c}) <= Cardinality(InFlight) + 1
  BY FlightIsFinite, FS_AddElement, FS_CardinalityType
<1>2. Cardinality(InFlight') <= Cardinality(InFlight \cup {c}) /\ Cardinality(InFlight') \in Nat
  BY <1>1, FS_Subset, FS_CardinalityType
<1> QED
  BY <1>1, <1>2, FlightIsFinite DEF WidthInv, CallTypes

LEMMA BatchStarts == BatchInit => BatchInv
<1> SUFFICES ASSUME BatchInit PROVE BatchInv
  OBVIOUS
<1> USE BatchAssumption DEF Batch
<1>1. CallTypes
  BY DEF BatchInit, Each, CallTypes, Stages, Nothing
<1>2. ASSUME NEW c \in Batch PROVE CallInv(c)
  BY DEF BatchInit, Each, CallInv, CallIsAt, Passed
<1>3. StopInv
  BY DEF BatchInit, StopInv
<1>4. InFlight = {}
  BY DEF InFlight, BatchInit, Each
<1>5. WidthInv
  BY <1>1, <1>4, FS_EmptySet DEF WidthInv, CallTypes
<1> QED
  BY <1>1, <1>2, <1>3, <1>5 DEF BatchInv

LEMMA FrontOfFrame == Front(<<0>>) = <<>>
BY DEF Front

\* The calls a step does not touch stay as they are.
Beside(c) ==
  /\ \A d \in Batch : d # c =>
       /\ chain'[d] = chain[d] /\ args'[d] = args[d] /\ inner'[d] = inner[d] /\ frames'[d] = frames[d]
       /\ rewrote'[d] = rewrote[d] /\ ran'[d] = ran[d] /\ (d \in stops' <=> d \in stops)
  /\ batch' = batch /\ offered' = offered

LEMMA OthersStay ==
  ASSUME NEW c, Beside(c), \A d \in Batch : CallInv(d), CallInv(c)'
  PROVE  \A d \in Batch : CallInv(d)'
<1> SUFFICES ASSUME NEW d \in Batch PROVE CallInv(d)'
  OBVIOUS
<1>1. CASE d = c
  BY <1>1
<1>2. CASE d # c
  BY <1>2 DEF Beside, CallInv
<1> QED
  BY <1>1, <1>2

LEMMA ChainMoves == ASSUME BatchInv, NEW c \in Batch, ChainStep(c) PROVE BatchInv'
<1> USE DEF To
<1>0. CallTypes /\ CallInv(c) /\ (\A d \in Batch : CallInv(d)) /\ StopInv /\ WidthInv
  BY DEF BatchInv
<1>1. CASE Start(c)
  <2>1. CallTypes'
    BY <1>0, <1>1 DEF Start, CallTypes, Stages, Admitted
  <2>2. Beside(c)
    BY <1>0, <1>1 DEF Start, CallTypes, Beside, Admitted
  <2>3. CallInv(c)'
    <3>1. /\ UNCHANGED <<args, inner, frames, rewrote, ran, stops, batch, offered>> /\ batch = "running"
          /\ chain[c] = "queued"
          /\ \/ c \in offered /\ chain'[c] = "gate1"
             \/ c \notin offered /\ chain'[c] = "done"
      <4>1. UNCHANGED <<args, inner, frames, rewrote, ran, stops, batch, offered>> /\ batch = "running" /\ chain[c] = "queued"
        BY <1>1 DEF Start
      <4>2. \/ c \in offered /\ chain' = [chain EXCEPT ![c] = "gate1"]
            \/ c \notin offered /\ chain' = [chain EXCEPT ![c] = "done"]
        BY <1>1 DEF Start, Admitted
      <4> QED
        BY <1>0, <4>1, <4>2 DEF CallTypes
    <3>2. /\ args[c] = 0 /\ inner[c] = 0 /\ frames[c] = <<>> /\ rewrote[c] = {} /\ ran[c] = Nothing
          /\ c \notin offered => c \notin stops
      BY <1>0, <3>1 DEF CallInv, CallIsAt
    <3>3. CallIsAt(chain'[c], args[c], inner[c], frames[c], rewrote[c], ran[c])
      BY <3>1, <3>2 DEF CallIsAt, Passed, LastOf
    <3> QED
      BY <3>1, <3>2, <3>3 DEF CallInv
  <2>4. StopInv'
    BY <1>0, <1>1 DEF Start, StopInv
  <2>5. InFlight' \subseteq InFlight \cup {c}
    BY <1>0, <1>1 DEF Start, InFlight, CallTypes, Batch
  <2>6. WidthInv'
    BY <1>0, <1>1, <2>5, FlightGains DEF Start
  <2> QED
    BY <1>0, <2>1, <2>2, <2>3, <2>4, <2>6, OthersStay DEF BatchInv
<1>2. CASE OuterHook(c)
  <2>0. /\ batch = "running" /\ chain[c] = "gate1" /\ UNCHANGED <<inner, ran, stops, stop, batch, offered, view, width>>
        /\ args[c] = 0 /\ inner[c] = 0 /\ frames[c] = <<>> /\ rewrote[c] = {} /\ ran[c] = Nothing
        /\ c \in offered /\ Append(frames[c], 0) = <<0>>
    <3>1. batch = "running" /\ chain[c] = "gate1" /\ UNCHANGED <<inner, ran, stops, stop, batch, offered, view, width>>
      BY <1>2 DEF OuterHook
    <3>2. args[c] = 0 /\ inner[c] = 0 /\ frames[c] = <<>> /\ rewrote[c] = {} /\ ran[c] = Nothing /\ c \in offered
      BY <1>0, <3>1 DEF CallInv, CallIsAt
    <3>3. Append(<<>>, 0) = <<0>>
      OBVIOUS
    <3> QED
      BY <3>1, <3>2, <3>3
  <2>1. CallTypes'
    <3>1. /\ chain' = [chain EXCEPT ![c] = "gate2"] \/ chain' = [chain EXCEPT ![c] = "result1"]
          /\ args' = args \/ args' = [args EXCEPT ![c] = 1]
          /\ rewrote' = rewrote \/ rewrote' = [rewrote EXCEPT ![c] = {1}]
          /\ frames' = frames \/ frames' = [frames EXCEPT ![c] = <<0>>]
      BY <1>0, <1>2, <2>0 DEF OuterHook, CallTypes
    <3>0. \A S : \A f \in [Batch -> S] : \A v \in S : [f EXCEPT ![c] = v] \in [Batch -> S]
      OBVIOUS
    <3>2. chain' \in [Batch -> Stages]
      <4>1. chain \in [Batch -> Stages] /\ "gate2" \in Stages /\ "result1" \in Stages
        BY <1>0 DEF CallTypes, Stages
      <4> QED
        BY <3>0, <3>1, <4>1
    <3>3. args' \in [Batch -> 0..3]
      <4>1. args \in [Batch -> 0..3] /\ 1 \in 0..3
        BY <1>0 DEF CallTypes
      <4> QED
        BY <3>0, <3>1, <4>1
    <3>4. frames' \in [Batch -> {<<>>, <<0>>}]
      <4>1. frames \in [Batch -> {<<>>, <<0>>}] /\ <<0>> \in {<<>>, <<0>>}
        BY <1>0 DEF CallTypes
      <4> QED
        BY <3>0, <3>1, <4>1, Zenon
    <3>5. rewrote' \in [Batch -> SUBSET {1, 2, 3}]
      <4>1. rewrote \in [Batch -> SUBSET {1, 2, 3}] /\ {1} \in SUBSET {1, 2, 3}
        BY <1>0 DEF CallTypes
      <4> QED
        BY <3>0, <3>1, <4>1, Zenon
    <3> QED
      BY <1>0, <2>0, <3>2, <3>3, <3>4, <3>5 DEF CallTypes
  <2>2. Beside(c)
    BY <1>0, <1>2 DEF OuterHook, CallTypes, Beside
  <2>3. CallInv(c)'
    <3>1. \/ chain'[c] = "gate2" /\ args'[c] = 0 /\ rewrote'[c] = {} /\ frames'[c] = <<0>>
          \/ chain'[c] = "gate2" /\ args'[c] = 1 /\ rewrote'[c] = {1} /\ frames'[c] = <<0>>
          \/ chain'[c] = "result1" /\ args'[c] = 0 /\ rewrote'[c] = {} /\ frames'[c] = <<>>
      BY <1>0, <1>2, <2>0 DEF OuterHook, CallTypes
    <3>2. CallIsAt(chain'[c], args'[c], inner[c], frames'[c], rewrote'[c], ran[c])
      BY <2>0, <3>1 DEF CallIsAt, Passed, LastOf
    <3> QED
      BY <2>0, <3>1, <3>2 DEF CallInv
  <2>4. StopInv'
    BY <1>0, <1>2 DEF OuterHook, StopInv
  <2>5. InFlight' \subseteq InFlight
    BY <1>0, <1>2 DEF OuterHook, InFlight, CallTypes, Batch
  <2>6. WidthInv'
    BY <1>0, <1>2, <2>5, FlightNarrows DEF OuterHook
  <2> QED
    BY <1>0, <2>1, <2>2, <2>3, <2>4, <2>6, OthersStay DEF BatchInv
<1>3. CASE InnerHook(c)
  <2>1. CallTypes'
    BY <1>0, <1>3 DEF InnerHook, CallTypes, Stages
  <2>2. Beside(c)
    BY <1>0, <1>3 DEF InnerHook, CallTypes, Beside
  <2>3. CallInv(c)'
    BY <1>0, <1>3, <2>1 DEF InnerHook, CallInv, CallIsAt, CallTypes, Passed
  <2>4. StopInv'
    BY <1>0, <1>3 DEF InnerHook, StopInv
  <2>5. InFlight' \subseteq InFlight
    BY <1>0, <1>3 DEF InnerHook, InFlight, CallTypes, Batch
  <2>6. WidthInv'
    BY <1>0, <1>3, <2>5, FlightNarrows DEF InnerHook
  <2> QED
    BY <1>0, <2>1, <2>2, <2>3, <2>4, <2>6, OthersStay DEF BatchInv
<1>4. CASE LastHook(c)
  <2>0. /\ batch = "running" /\ chain[c] = "gate3" /\ UNCHANGED <<ran, stops, stop, batch, offered, view, width>>
        /\ frames[c] = <<0>> /\ rewrote[c] \subseteq {1, 2} /\ ran[c] = Nothing /\ c \in offered
        /\ args[c] = (IF 1 \in rewrote[c] THEN 1 ELSE 0) /\ inner[c] = (IF 2 \in rewrote[c] THEN 2 ELSE 0)
    BY <1>0, <1>4 DEF LastHook, CallInv, CallIsAt
  <2>00. Front(frames[c]) = <<>>
    BY <2>0, FrontOfFrame
  <2>1. CallTypes'
    BY <1>0, <1>4, <2>0, <2>00 DEF LastHook, CallTypes, Stages
  <2>2. Beside(c)
    BY <1>0, <1>4 DEF LastHook, CallTypes, Beside
  <2>3. CallInv(c)'
    <3>1. /\ chain'[c] = "body" /\ frames'[c] = <<>>
          /\ \/ args'[c] = (IF inner[c] = 0 THEN args[c] ELSE inner[c]) /\ rewrote'[c] = rewrote[c]
             \/ args'[c] = 3 /\ rewrote'[c] = rewrote[c] \cup {3}
      BY <1>0, <1>4, <2>00 DEF LastHook, CallTypes
    <3>2. LastOf(rewrote'[c], args'[c])
      BY <2>0, <3>1 DEF LastOf
    <3>3. CallIsAt(chain'[c], args'[c], inner'[c], frames'[c], rewrote'[c], ran[c])
      BY <2>0, <3>1, <3>2 DEF CallIsAt, Passed
    <3> QED
      BY <2>0, <3>1, <3>3 DEF CallInv
  <2>4. StopInv'
    BY <1>0, <1>4 DEF LastHook, StopInv
  <2>5. InFlight' \subseteq InFlight
    BY <1>0, <1>4 DEF LastHook, InFlight, CallTypes, Batch
  <2>6. WidthInv'
    BY <1>0, <1>4, <2>5, FlightNarrows DEF LastHook
  <2> QED
    BY <1>0, <2>1, <2>2, <2>3, <2>4, <2>6, OthersStay DEF BatchInv
<1>5. CASE Skip(c)
  <2>0. /\ batch = "running" /\ chain[c] \in {"gate2", "gate3"}
        /\ UNCHANGED <<inner, rewrote, ran, stops, stop, batch, offered, view, width>>
        /\ frames[c] = <<0>> /\ rewrote[c] \subseteq {1, 2} /\ ran[c] = Nothing /\ c \in offered
        /\ args[c] = (IF 1 \in rewrote[c] THEN 1 ELSE 0)
        /\ inner[c] = (IF 2 \in rewrote[c] THEN 2 ELSE 0)
    BY <1>0, <1>5 DEF Skip, CallInv, CallIsAt
  <2>00. Front(frames[c]) = <<>>
    BY <2>0, FrontOfFrame
  <2>1. CallTypes'
    BY <1>0, <1>5, <2>0, <2>00 DEF Skip, CallTypes, Stages
  <2>2. Beside(c)
    BY <1>0, <1>5 DEF Skip, CallTypes, Beside
  <2>3. CallInv(c)'
    <3>1. /\ chain'[c] = "result1" /\ frames'[c] = <<>> /\ rewrote'[c] = rewrote[c]
          /\ args'[c] = (IF inner[c] = 0 THEN args[c] ELSE inner[c])
      BY <1>0, <1>5, <2>00 DEF Skip, CallTypes
    <3>2. LastOf(rewrote'[c], args'[c])
      BY <2>0, <3>1 DEF LastOf
    <3>3. CallIsAt(chain'[c], args'[c], inner'[c], frames'[c], rewrote'[c], ran[c])
      BY <2>0, <3>1, <3>2 DEF CallIsAt, Passed
    <3> QED
      BY <2>0, <3>1, <3>3 DEF CallInv
  <2>4. StopInv'
    BY <1>0, <1>5 DEF Skip, StopInv
  <2>5. InFlight' \subseteq InFlight
    BY <1>0, <1>5 DEF Skip, InFlight, CallTypes, Batch
  <2>6. WidthInv'
    BY <1>0, <1>5, <2>5, FlightNarrows DEF Skip
  <2> QED
    BY <1>0, <2>1, <2>2, <2>3, <2>4, <2>6, OthersStay DEF BatchInv
<1>6. CASE Body(c)
  <2>1. CallTypes'
    BY <1>0, <1>6 DEF Body, CallTypes, Stages
  <2>2. Beside(c)
    BY <1>0, <1>6 DEF Body, CallTypes, Beside
  <2>3. CallInv(c)'
    BY <1>0, <1>6, <2>1 DEF Body, CallInv, CallIsAt, CallTypes, Passed, Nothing
  <2>4. StopInv'
    BY <1>0, <1>6 DEF Body, StopInv
  <2>5. InFlight' \subseteq InFlight
    BY <1>0, <1>6 DEF Body, InFlight, CallTypes, Batch
  <2>6. WidthInv'
    BY <1>0, <1>6, <2>5, FlightNarrows DEF Body
  <2> QED
    BY <1>0, <2>1, <2>2, <2>3, <2>4, <2>6, OthersStay DEF BatchInv
<1>7. CASE Present(c)
  <2>1. CallTypes'
    BY <1>0, <1>7 DEF Present, CallTypes, Stages
  <2>2. Beside(c)
    BY <1>0, <1>7 DEF Present, CallTypes, Beside
  <2>3. CallInv(c)'
    BY <1>0, <1>7, <2>1 DEF Present, CallInv, CallIsAt, CallTypes, Passed
  <2>4. StopInv'
    BY <1>0, <1>7 DEF Present, StopInv
  <2>5. InFlight' \subseteq InFlight
    BY <1>0, <1>7 DEF Present, InFlight, CallTypes, Batch
  <2>6. WidthInv'
    BY <1>0, <1>7, <2>5, FlightNarrows DEF Present
  <2> QED
    BY <1>0, <2>1, <2>2, <2>3, <2>4, <2>6, OthersStay DEF BatchInv
<1>8. CASE PresentLast(c)
  <2>0. /\ UNCHANGED <<width, offered, args, inner, frames, rewrote, ran, stops, stop, batch>>
        /\ chain' = [chain EXCEPT ![c] = "done"] /\ (view' = view \/ view' = [view EXCEPT ![c] = 3])
    BY <1>8 DEF PresentLast
  <2>1. CallTypes'
    BY <1>0, <2>0 DEF CallTypes, Stages
  <2>2. Beside(c)
    BY <1>0, <1>8 DEF PresentLast, CallTypes, Beside
  <2>3. CallInv(c)'
    BY <1>0, <1>8, <2>1 DEF PresentLast, CallInv, CallIsAt, CallTypes, Passed
  <2>4. StopInv'
    BY <1>0, <1>8 DEF PresentLast, StopInv
  <2>5. InFlight' \subseteq InFlight
    BY <1>0, <1>8 DEF PresentLast, InFlight, CallTypes, Batch
  <2>6. WidthInv'
    BY <1>0, <1>8, <2>5, FlightNarrows DEF PresentLast
  <2> QED
    BY <1>0, <2>1, <2>2, <2>3, <2>4, <2>6, OthersStay DEF BatchInv
<1>9. CASE StopRun(c)
  <2>1. CallTypes'
    BY <1>0, <1>9 DEF StopRun, CallTypes, Stages, Batch
  <2>2. Beside(c)
    BY <1>0, <1>9 DEF StopRun, CallTypes, Beside
  <2>3. CallInv(c)'
    BY <1>0, <1>9, <2>1 DEF StopRun, CallInv, CallIsAt, CallTypes, Passed
  <2>4. StopInv'
    BY <1>0, <1>9 DEF StopRun, StopInv, CallTypes, Batch
  <2>5. InFlight' \subseteq InFlight
    BY <1>0, <1>9 DEF StopRun, InFlight, CallTypes, Batch
  <2>6. WidthInv'
    BY <1>0, <1>9, <2>5, FlightNarrows DEF StopRun
  <2> QED
    BY <1>0, <2>1, <2>2, <2>3, <2>4, <2>6, OthersStay DEF BatchInv
<1> QED
  BY <1>1, <1>2, <1>3, <1>4, <1>5, <1>6, <1>7, <1>8, <1>9 DEF ChainStep

LEMMA BatchMoves == ASSUME BatchInv, BatchNext PROVE BatchInv'
<1>0. CallTypes /\ (\A d \in Batch : CallInv(d)) /\ StopInv /\ WidthInv
  BY DEF BatchInv
<1>1. CASE \E c \in 1..BatchSize : ChainStep(c)
  BY <1>1, ChainMoves DEF Batch
<1>2. CASE Settle
  <2>1. /\ UNCHANGED <<width, offered, chain, args, inner, frames, rewrote, ran, view, stops, stop>>
        /\ batch' = "settled" /\ \A c \in Batch : chain[c] = "done"
    BY <1>2 DEF Settle, Batch
  <2>2. CallTypes'
    BY <1>0, <2>1 DEF CallTypes
  <2>3. \A c \in Batch : CallInv(c)'
    BY <1>0, <2>1 DEF CallInv
  <2>4. StopInv'
    BY <1>0, <2>1 DEF StopInv
  <2>5. WidthInv'
    BY <1>0, <2>1 DEF WidthInv, InFlight
  <2> QED
    BY <2>2, <2>3, <2>4, <2>5 DEF BatchInv
<1>3. CASE Reregister
  <2>1. UNCHANGED <<width, offered, chain, args, inner, frames, rewrote, ran, view, stops, stop, batch>>
    BY <1>3 DEF Reregister
  <2>2. CallTypes'
    BY <1>0, <2>1 DEF CallTypes
  <2>3. \A c \in Batch : CallInv(c)'
    BY <1>0, <2>1 DEF CallInv
  <2>4. StopInv'
    BY <1>0, <2>1 DEF StopInv
  <2>5. WidthInv'
    BY <1>0, <2>1 DEF WidthInv, InFlight
  <2> QED
    BY <2>2, <2>3, <2>4, <2>5 DEF BatchInv
<1>4. CASE DropRun
  <2>1. /\ UNCHANGED <<width, offered, chain, args, inner, rewrote, ran, view, stops, stop>>
        /\ batch' = "dropped" /\ frames' = [c \in Batch |-> <<>>]
    BY <1>4 DEF DropRun, Each, Batch
  <2>2. CallTypes'
    BY <1>0, <2>1 DEF CallTypes
  <2>3. \A c \in Batch : CallInv(c)'
    BY <1>0, <2>1 DEF CallInv, CallIsAt
  <2>4. StopInv'
    BY <1>0, <2>1 DEF StopInv
  <2>5. WidthInv'
    BY <1>0, <2>1 DEF WidthInv, InFlight
  <2> QED
    BY <2>2, <2>3, <2>4, <2>5 DEF BatchInv
<1> QED
  BY <1>1, <1>2, <1>3, <1>4 DEF BatchNext, BatchStep

\* The least stop and the last rewrite are the ones the definitions choose.
LEMMA ChosenIs ==
  ASSUME NEW S \in SUBSET Nat, NEW x \in S
  PROVE  /\ (\A g \in S : g <= x) => x = CHOOSE h \in S : \A g \in S : g <= h
         /\ (\A g \in S : x <= g) => x = CHOOSE h \in S : \A g \in S : h <= g
<1>1. ASSUME \A g \in S : g <= x PROVE x = CHOOSE h \in S : \A g \in S : g <= h
  <2> DEFINE y == CHOOSE h \in S : \A g \in S : g <= h
  <2>1. y \in S /\ \A g \in S : g <= y
    BY <1>1, Zenon
  <2> HIDE DEF y
  <2>2. x = y
    BY <1>1, <2>1
  <2> QED
    BY <2>2 DEF y
<1>2. ASSUME \A g \in S : x <= g PROVE x = CHOOSE h \in S : \A g \in S : h <= g
  <2> DEFINE y == CHOOSE h \in S : \A g \in S : h <= g
  <2>1. y \in S /\ \A g \in S : y <= g
    BY <1>2, Zenon
  <2> HIDE DEF y
  <2>2. x = y
    BY <1>2, <2>1
  <2> QED
    BY <2>2 DEF y
<1> QED
  BY <1>1, <1>2

LEMMA BatchKeeps == ASSUME BatchInv PROVE BatchIsWhole
<1>0. CallTypes /\ (\A d \in Batch : CallInv(d)) /\ StopInv /\ WidthInv
  BY DEF BatchInv
<1>1. BatchTypeOK
  BY <1>0 DEF BatchTypeOK, CallTypes, WidthInv, Batch
<1>2. LowestStopWins
  <2>1. CASE stops = {}
    BY <1>0, <2>1 DEF LowestStopWins, StopInv
  <2>2. CASE stops # {}
    <3>0. stops \subseteq Nat
      BY <1>0, BatchAssumption DEF CallTypes, Batch
    <3>1. stop \in stops /\ stops \in SUBSET Nat /\ \A d \in stops : stop <= d
      BY <1>0, <2>2, <3>0 DEF StopInv
    <3>2. stop = CHOOSE h \in stops : \A g \in stops : h <= g
      BY <3>1, ChosenIs
    <3> QED
      BY <2>2, <3>2 DEF LowestStopWins
  <2> QED
    BY <2>1, <2>2
<1>3. EffectiveArgs
  <2> SUFFICES ASSUME NEW c \in 1..BatchSize, chain[c] \in Passed
               PROVE  /\ args[c] = IF rewrote[c] = {} THEN 0 ELSE CHOOSE h \in rewrote[c] : \A g \in rewrote[c] : g <= h
                      /\ ran[c] # Nothing => ran[c].with = args[c]
    BY DEF EffectiveArgs, Passed
  <2>1. /\ LastOf(rewrote[c], args[c])
        /\ ran[c] # Nothing => ran[c].with = args[c]
        /\ rewrote[c] \in SUBSET Nat
    BY <1>0 DEF CallInv, CallIsAt, CallTypes, Batch
  <2>2. CASE rewrote[c] = {}
    BY <2>1, <2>2 DEF LastOf
  <2>3. CASE rewrote[c] # {}
    <3>1. args[c] \in rewrote[c] /\ \A g \in rewrote[c] : g <= args[c]
      BY <2>1, <2>3 DEF LastOf
    <3>2. args[c] = CHOOSE h \in rewrote[c] : \A g \in rewrote[c] : g <= h
      BY <2>1, <3>1, ChosenIs
    <3> QED
      BY <2>1, <2>3, <3>2
  <2> QED
    BY <2>2, <2>3
<1>4. PinnedImplementation
  BY <1>0 DEF PinnedImplementation, CallTypes, Batch
<1>5. RejectedTouchesNothing
  BY <1>0 DEF RejectedTouchesNothing, CallInv, Batch
<1>6. FramesDrain
  BY <1>0 DEF FramesDrain, CallInv, CallIsAt, Passed, Batch
<1> QED
  BY <1>1, <1>2, <1>3, <1>4, <1>5, <1>6 DEF BatchIsWhole

-----------------------------------------------------------------------------
(* One turn's assembly: how often an item stands in a sequence             *)

Hits(s, i) == {n \in DOMAIN s : s[n] = i}

LEMMA CountIs ==
  ASSUME NEW S, NEW s \in Seq(S), NEW i
  PROVE  /\ IsFiniteSet(Hits(s, i)) /\ Count(s, i) \in Nat /\ Count(s, i) = Cardinality(Hits(s, i))
         /\ Count(s, i) > 0 <=> \E n \in DOMAIN s : s[n] = i
         /\ Count(s, i) <= Len(s)
<1>1. DOMAIN s = 1..Len(s) /\ Len(s) \in Nat
  OBVIOUS
<1>2. IsFiniteSet(1..Len(s)) /\ Cardinality(1..Len(s)) = Len(s)
  BY <1>1, FS_Interval
<1>3. Hits(s, i) \in SUBSET (1..Len(s))
  BY <1>1 DEF Hits
<1>4. IsFiniteSet(Hits(s, i)) /\ Cardinality(Hits(s, i)) <= Len(s)
  BY <1>2, <1>3, FS_Subset, Zenon
<1>5. Count(s, i) = Cardinality(Hits(s, i))
  BY Zenon DEF Count, Hits
<1>6. Cardinality(Hits(s, i)) \in Nat /\ (Cardinality(Hits(s, i)) = 0 <=> Hits(s, i) = {})
  BY <1>4, FS_CardinalityType, FS_EmptySet
<1>7. Count(s, i) > 0 <=> Hits(s, i) # {}
  BY <1>5, <1>6
<1>8. Hits(s, i) # {} <=> \E n \in DOMAIN s : s[n] = i
  BY DEF Hits
<1> QED
  BY <1>4, <1>5, <1>6, <1>7, <1>8

LEMMA ShiftedKeep ==
  ASSUME NEW k \in Nat, NEW H \in SUBSET Nat, IsFiniteSet(H)
  PROVE  IsFiniteSet(Shifted(k, H)) /\ Cardinality(Shifted(k, H)) = Cardinality(H)
<1> DEFINE f == [n \in H |-> k + n]
<1>1. f \in [H -> Shifted(k, H)]
  BY DEF Shifted
<1>2. \A a, b \in H : f[a] = f[b] => a = b
  <2>1. \A a, b \in H : a \in Nat /\ b \in Nat /\ f[a] = k + a /\ f[b] = k + b
    OBVIOUS
  <2> QED
    BY <2>1
<1>3. \A t \in Shifted(k, H) : \E n \in H : f[n] = t
  BY DEF Shifted
<1> HIDE DEF f
<1>4. f \in Bijection(H, Shifted(k, H))
  BY <1>1, <1>2, <1>3, Fun_IsBij
<1>5. ExistsBijection(H, Shifted(k, H))
  BY <1>4 DEF ExistsBijection
<1> QED
  BY <1>5, FS_Bijection

LEMMA CountJoined ==
  ASSUME NEW S, NEW s \in Seq(S), NEW x \in Seq(S), NEW i
  PROVE  s \o x \in Seq(S) /\ Count(s \o x, i) = Count(s, i) + Count(x, i)
<1>1. PICK j : j = s \o x
  OBVIOUS
<1>2. j \in Seq(S) /\ Joined(s, x, j)
  BY <1>1, JoinedIs, Zenon
<1>3. Hits(j, i) = Hits(s, i) \cup Shifted(Len(s), Hits(x, i))
  <2>1. \A n \in Hits(s, i) : n \in Hits(j, i)
    BY <1>2 DEF Joined, Hits
  <2>2. \A n \in Hits(x, i) : Len(s) + n \in Hits(j, i)
    BY <1>2 DEF Joined, Hits
  <2>3. ASSUME NEW n \in Hits(j, i) PROVE n \in Hits(s, i) \/ (n - Len(s) \in Hits(x, i) /\ n = Len(s) + (n - Len(s)))
    BY <1>2 DEF Joined, Hits
  <2>4. ASSUME NEW n \in Hits(j, i), n - Len(s) \in Hits(x, i), n = Len(s) + (n - Len(s))
        PROVE  n \in Shifted(Len(s), Hits(x, i))
    BY <2>4, Zenon DEF Shifted
  <2>5. \A n \in Shifted(Len(s), Hits(x, i)) : n \in Hits(j, i)
    BY <2>2, Zenon DEF Shifted
  <2> QED
    BY <2>1, <2>3, <2>4, <2>5
<1>4. Hits(s, i) \cap Shifted(Len(s), Hits(x, i)) = {}
  BY <1>2 DEF Joined, Hits, Shifted
<1>5. /\ IsFiniteSet(Hits(s, i)) /\ Count(s, i) \in Nat /\ Count(s, i) = Cardinality(Hits(s, i))
      /\ IsFiniteSet(Hits(x, i)) /\ Count(x, i) \in Nat /\ Count(x, i) = Cardinality(Hits(x, i))
      /\ Count(j, i) = Cardinality(Hits(j, i)) 
  BY <1>2, CountIs
<1>6. Len(s) \in Nat /\ Hits(x, i) \in SUBSET Nat
  BY <1>2 DEF Joined, Hits
<1>7. /\ IsFiniteSet(Shifted(Len(s), Hits(x, i)))
      /\ Cardinality(Shifted(Len(s), Hits(x, i))) = Count(x, i)
  BY <1>5, <1>6, ShiftedKeep
<1>8. Count(j, i) = Count(s, i) + Count(x, i) - 0
  <2>1. PICK A : A = Hits(s, i)
    OBVIOUS
  <2>2. PICK B : B = Shifted(Len(s), Hits(x, i))
    OBVIOUS
  <2>3. IsFiniteSet(A) /\ IsFiniteSet(B) /\ A \cap B = {}
    BY <1>4, <1>5, <1>7, <2>1, <2>2, Zenon
  <2>4. Cardinality(A \cup B) = Cardinality(A) + Cardinality(B) - Cardinality(A \cap B)
    BY <2>3, FS_Union
  <2>5. Cardinality(A \cup B) = Cardinality(A) + Cardinality(B) - 0
    BY <2>3, <2>4, FS_EmptySet
  <2>6. Count(j, i) = Cardinality(A \cup B) /\ Cardinality(A) = Count(s, i) /\ Cardinality(B) = Count(x, i)
    BY <1>3, <1>5, <1>7, <2>1, <2>2
  <2> QED
    BY <2>5, <2>6
<1>9. Count(j, i) = Count(s, i) + Count(x, i)
  BY <1>5, <1>8
<1> QED
  BY <1>1, <1>2, <1>9

Repeats(r, e, b) == r = [n \in 1..b |-> e]
LEMMA CountRepeated ==
  ASSUME NEW b \in Nat, NEW e, NEW r, Repeats(r, e, b)
  PROVE  /\ r \in Seq({e}) /\ Len(r) = b /\ \A n \in 1..b : r[n] = e
         /\ \A i : Count(r, i) = IF i = e THEN b ELSE 0
<1>1. r \in Seq({e}) /\ Len(r) = b /\ \A n \in 1..b : r[n] = e
  BY DEF Repeats
<1>2. ASSUME NEW i PROVE Count(r, i) = IF i = e THEN b ELSE 0
  <2>1. Hits(r, i) = IF i = e THEN 1..b ELSE {}
    BY <1>1 DEF Hits
  <2>2. Count(r, i) = Cardinality(Hits(r, i))
    BY <1>1, CountIs
  <2>3. Cardinality(1..b) = b /\ Cardinality({}) = 0
    BY FS_Interval, FS_EmptySet
  <2> QED
    BY <2>1, <2>2, <2>3
<1> QED
  BY <1>1, <1>2

LEMMA CountOne == ASSUME NEW e, NEW i PROVE Count(<<e>>, i) = IF i = e THEN 1 ELSE 0
<1>1. <<e>> \in Seq({e}) /\ DOMAIN <<e>> = {1} /\ <<e>>[1] = e
  OBVIOUS
<1>2. Hits(<<e>>, i) = IF i = e THEN {1} ELSE {}
  BY <1>1 DEF Hits
<1>3. Count(<<e>>, i) = Cardinality(Hits(<<e>>, i))
  BY <1>1, CountIs
<1>4. Cardinality({1}) = 1 /\ Cardinality({}) = 0
  BY FS_Singleton, FS_EmptySet
<1> QED
  BY <1>2, <1>3, <1>4

LEMMA CountAppended ==
  ASSUME NEW S, NEW s \in Seq(S), NEW e \in S, NEW i
  PROVE  Count(Append(s, e), i) = IF i = e THEN Count(s, i) + 1 ELSE Count(s, i)
<1>1. Append(s, e) = s \o <<e>> /\ <<e>> \in Seq(S)
  BY AppendedIs
<1>2. PICK y : y = <<e>>
  OBVIOUS
<1>4. y \in Seq(S) /\ Append(s, e) = s \o y
  BY <1>1, <1>2
<1>5. Count(s \o y, i) = Count(s, i) + Count(y, i)
  BY <1>4, CountJoined
<1>3. Count(s, i) \in Nat
  BY CountIs
<1> QED
  BY <1>2, <1>3, <1>4, <1>5, CountOne

-----------------------------------------------------------------------------
(* One turn's assembly: what the assembler holds of the items fed          *)

\* The ids of the reasoning blocks, in their order.
Marks(r) == [n \in DOMAIN r |-> r[n].id]
Settlements == {"open", "completed", "failed", "defect", "cancelled"}
\* The stream has not failed: what was counted still says what was fed.
Sound == outcome["loop"] \in {"open", "completed"}
Blocks == [id : {"r", "none"}, parts : Nat]
AsmTypes ==
  /\ fed \in Seq(Live \cup Faults \cup {"final"}) /\ Len(fed) <= MaxItems /\ sunk \in Seq(Live)
  /\ thoughts \in 0..Len(fed) /\ calls \in 0..Len(fed) /\ buffered \in 0..Len(fed)
  /\ named \in BOOLEAN /\ sawText \in BOOLEAN /\ finals \in BOOLEAN
  /\ reasoning \in Seq(Blocks) /\ \A n \in DOMAIN reasoning : reasoning[n].parts \in 1..Len(fed)
  /\ outcome["loop"] = outcome["once"] /\ outcome["loop"] \in Settlements
\* What the loop's source yielded behind the items the one-shot consumer saw.
Held == IF ~finals THEN <<>> ELSE IF Completed /\ sawText THEN <<"report", "final">> ELSE <<"report">>
RecordInv ==
  /\ run = sunk \o Held
  /\ Completed => finals
  /\ finals => buffered = 0
  /\ Sound /\ finals => fed # <<>> /\ Last(fed) = "final"
\* Arguments without a name are buffered, and a name sends them on.
ArgumentInv ==
  /\ named => buffered = 0 /\ \E n \in DOMAIN sunk : sunk[n] = "name"
  /\ \A n \in DOMAIN sunk : sunk[n] = "argument" => \E k \in 1..n : sunk[k] = "name"
  /\ Sound => Count(fed, "argument") = Count(sunk, "argument") + buffered
BlockInv ==
  /\ Count(Marks(reasoning), "r") <= 1
  /\ Sound => Count(Marks(reasoning), "none") = Count(fed, "anonymous")
  /\ Sound /\ {"block", "anonymous"} \cap Range(fed) # {} => reasoning # <<>>
  /\ Sound => calls = Count(fed, "call")
AsmInv == AsmTypes /\ RecordInv /\ ArgumentInv /\ BlockInv

LEMMA CountEmpty == ASSUME NEW i PROVE Count(<<>>, i) = 0
<1>1. Hits(<<>>, i) = {} /\ <<>> \in Seq({})
  BY DEF Hits
<1> QED
  BY <1>1, CountIs, FS_EmptySet

LEMMA AsmStarts == AsmInit => AsmInv
<1> SUFFICES ASSUME AsmInit PROVE AsmInv
  OBVIOUS
<1>1. /\ fed = <<>> /\ reasoning = <<>> /\ thoughts = 0 /\ calls = 0 /\ named = FALSE
      /\ buffered = 0 /\ sawText = FALSE /\ finals = FALSE /\ run = <<>> /\ sunk = <<>>
      /\ outcome["loop"] = "open" /\ outcome["once"] = "open"
  BY DEF AsmInit
<1>2. \A S : <<>> \in Seq(S)
  OBVIOUS
<1>3. Len(<<>>) = 0 /\ DOMAIN <<>> = {} /\ <<>> \o <<>> = <<>> /\ 0 <= MaxItems /\ Range(<<>>) = {}
  BY AssemblyAssumption DEF Range
<1>4. AsmTypes
  <2>1. fed \in Seq(Live \cup Faults \cup {"final"}) /\ sunk \in Seq(Live) /\ reasoning \in Seq(Blocks)
    BY <1>1, <1>2, Zenon
  <2>2. 0 \in 0..Len(fed) /\ Len(fed) <= MaxItems /\ \A n \in DOMAIN reasoning : reasoning[n].parts \in 1..Len(fed)
    BY <1>1, <1>3
  <2> QED
    BY <1>1, <2>1, <2>2 DEF AsmTypes, Settlements
<1>5. RecordInv
  BY <1>1, <1>3 DEF RecordInv, Held, Completed
<1>6. ArgumentInv
  BY <1>1, <1>3, CountEmpty DEF ArgumentInv
<1>7. BlockInv
  <2>1. Marks(reasoning) = <<>>
    BY <1>1, <1>3 DEF Marks
  <2> QED
    BY <1>1, <1>3, <2>1, CountEmpty DEF BlockInv
<1> QED
  BY <1>4, <1>5, <1>6, <1>7 DEF AsmInv

LEMMA ClearedIs ==
  ASSUME AsmTypes, NEW item \in Live, NEW c, c = Cleared(item)
  PROVE  /\ c \in Seq(Live)
         /\ Count(c, "argument") = IF item = "name" THEN buffered
                                   ELSE IF item = "argument" /\ named THEN 1 ELSE 0
         /\ item = "name" => 1 \in DOMAIN c /\ c[1] = "name"
         /\ item # "name" => \A n \in DOMAIN c : c[n] = "argument" => item = "argument" /\ named
<1>1. CASE item \in {"text", "block", "anonymous", "thought", "unknown"} \/ (item = "argument" /\ named)
  <2>1. c = <<item>>
    BY <1>1 DEF Cleared
  <2>2. c \in Seq(Live) /\ DOMAIN c = {1} /\ c[1] = item
    BY <2>1
  <2>3. Count(c, "argument") = IF item = "argument" THEN 1 ELSE 0
    BY <2>1, CountOne
  <2> QED
    BY <1>1, <2>2, <2>3
<1>2. CASE item = "call" \/ (item = "argument" /\ ~named)
  <2>1. c = <<>>
    BY <1>2 DEF Cleared
  <2>2. c \in Seq(Live) /\ DOMAIN c = {}
    BY <2>1
  <2>3. Count(c, "argument") = 0
    BY <2>1, CountEmpty
  <2> QED
    BY <1>2, <2>2, <2>3
<1>3. CASE item = "name"
  <2>1. PICK r : r = [n \in 1..buffered |-> "argument"]
    OBVIOUS
  <2>2. PICK y : y = <<"name">>
    OBVIOUS
  <2>3. c = y \o r
    BY <1>3, <2>1, <2>2 DEF Cleared
  <2>4. buffered \in Nat
    BY DEF AsmTypes
  <2>5. r \in Seq({"argument"}) /\ Count(r, "argument") = buffered
    <3>1. Repeats(r, "argument", buffered)
      BY <2>1 DEF Repeats
    <3>2. r \in Seq({"argument"}) /\ \A i : Count(r, i) = IF i = "argument" THEN buffered ELSE 0
      BY <2>4, <3>1, CountRepeated
    <3> QED
      BY <3>2
  <2>6. r \in Seq(Live) /\ y \in Seq(Live) /\ Len(y) = 1 /\ y[1] = "name"
    BY <2>2, <2>5 DEF Live
  <2>7. Count(y, "argument") = 0
    BY <2>2, CountOne
  <2>8. c \in Seq(Live) /\ Count(c, "argument") = Count(y, "argument") + Count(r, "argument")
    BY <2>3, <2>6, CountJoined
  <2>9. 1 \in DOMAIN c /\ c[1] = "name"
    <3>1. Joined(y, r, c)
      BY <2>3, <2>6, JoinedIs
    <3> QED
      BY <2>6, <3>1 DEF Joined
  <2>10. Count(c, "argument") = buffered
    BY <2>4, <2>5, <2>7, <2>8
  <2> QED
    BY <1>3, <2>8, <2>9, <2>10
<1>4. \/ item \in {"text", "block", "anonymous", "thought", "unknown"} \/ (item = "argument" /\ named)
      \/ item = "call" \/ (item = "argument" /\ ~named) \/ item = "name"
  BY DEF Live
<1> QED
  BY <1>1, <1>2, <1>3, <1>4

LEMMA MarksOfSequence ==
  ASSUME NEW r \in Seq(Blocks)
  PROVE  Marks(r) \in Seq({"r", "none"}) /\ DOMAIN Marks(r) = DOMAIN r /\ \A n \in DOMAIN r : Marks(r)[n] = r[n].id
<1>1. DOMAIN r = 1..Len(r) /\ Len(r) \in Nat
  OBVIOUS
<1>2. \A n \in 1..Len(r) : r[n].id \in {"r", "none"}
  <2>1. \A n \in 1..Len(r) : r[n] \in Blocks
    OBVIOUS
  <2> QED
    BY <2>1 DEF Blocks
<1>3. PICK m : m = [n \in 1..Len(r) |-> r[n].id]
  OBVIOUS
<1>4. m \in Seq({"r", "none"}) /\ DOMAIN m = 1..Len(r) /\ \A n \in 1..Len(r) : m[n] = r[n].id
  BY <1>1, <1>2, <1>3
<1>5. Marks(r) = m
  BY <1>1, <1>3 DEF Marks
<1> QED
  BY <1>1, <1>4, <1>5

LEMMA MergedIs ==
  ASSUME NEW k \in Nat, reasoning \in Seq(Blocks), \A n \in DOMAIN reasoning : reasoning[n].parts \in 1..k,
         NEW id \in {"r", "none"}, NEW r, r = Merged(Block(id, 1))
  PROVE  /\ r \in Seq(Blocks) /\ r # <<>> /\ \A n \in DOMAIN r : r[n].parts \in 1..k + 1
         /\ Count(Marks(reasoning), "r") <= 1 => Count(Marks(r), "r") <= 1
         /\ Count(Marks(r), "none") = IF id = "none" THEN Count(Marks(reasoning), "none") + 1
                                      ELSE Count(Marks(reasoning), "none")
<1>0. /\ Marks(reasoning) \in Seq({"r", "none"}) /\ DOMAIN Marks(reasoning) = DOMAIN reasoning
      /\ \A n \in DOMAIN reasoning : Marks(reasoning)[n] = reasoning[n].id
      /\ DOMAIN reasoning = 1..Len(reasoning) /\ Len(reasoning) \in Nat
  BY MarksOfSequence
<1>1. Block(id, 1) = [id |-> id, parts |-> 1] /\ Block(id, 1).id = id /\ Block(id, 1).parts = 1 /\ Block(id, 1) \in Blocks
  BY DEF Block, Blocks
<1>2. CASE id = "r" /\ \E n \in DOMAIN reasoning : reasoning[n].id = "r"
  <2>1. r = [n \in DOMAIN reasoning |->
               IF reasoning[n].id = "r" THEN Block("r", reasoning[n].parts + 1) ELSE reasoning[n]]
    BY <1>1, <1>2 DEF Merged
  <2>2. DOMAIN r = 1..Len(reasoning)
    BY <1>0, <2>1
  <2>3. ASSUME NEW n \in DOMAIN reasoning
        PROVE  r[n] \in Blocks /\ r[n].id = reasoning[n].id /\ r[n].parts \in 1..k + 1
    <3>1. reasoning[n] \in Blocks /\ reasoning[n].parts \in 1..k
      OBVIOUS
    <3>2. CASE reasoning[n].id = "r"
      <4>1. r[n] = [id |-> "r", parts |-> reasoning[n].parts + 1]
        BY <2>1, <3>2 DEF Block
      <4> QED
        BY <3>1, <3>2, <4>1 DEF Blocks
    <3>3. CASE reasoning[n].id # "r"
      <4>1. r[n] = reasoning[n]
        BY <2>1, <3>3
      <4> QED
        BY <3>1, <4>1
    <3> QED
      BY <3>2, <3>3
  <2>4. r \in Seq(Blocks) /\ r # <<>>
    <3>1. r = [n \in 1..Len(reasoning) |-> r[n]] /\ \A n \in 1..Len(reasoning) : r[n] \in Blocks
      BY <1>0, <2>1, <2>3
    <3>2. r \in Seq(Blocks)
      BY <1>0, <3>1
    <3>3. DOMAIN r # {}
      BY <1>0, <1>2, <2>2
    <3> QED
      BY <3>2, <3>3
  <2>5. Marks(r) = Marks(reasoning)
    BY <1>0, <2>2, <2>3 DEF Marks
  <2> QED
    BY <1>0, <1>2, <2>2, <2>3, <2>4, <2>5
<1>3. CASE ~(id = "r" /\ \E n \in DOMAIN reasoning : reasoning[n].id = "r")
  <2>1. r = Append(reasoning, Block(id, 1))
    BY <1>1, <1>3 DEF Merged
  <2>2. PICK e \in Blocks : e = Block(id, 1)
    BY <1>1
  <2>3. /\ r \in Seq(Blocks) /\ DOMAIN r = 1..Len(reasoning) + 1 /\ Len(r) = Len(reasoning) + 1
        /\ r[Len(reasoning) + 1] = e /\ \A n \in DOMAIN reasoning : r[n] = reasoning[n]
    BY <1>0, <2>1, <2>2
  <2>4. \A n \in DOMAIN r : r[n].parts \in 1..k + 1
    <3>1. \A n \in DOMAIN r : n \in DOMAIN reasoning \/ n = Len(reasoning) + 1
      BY <1>0, <2>3
    <3>2. \A n \in DOMAIN reasoning : r[n].parts \in 1..k + 1
      BY <2>3
    <3>3. r[Len(reasoning) + 1].parts = 1 /\ 1 \in 1..k + 1
      BY <1>1, <2>2, <2>3
    <3> QED
      BY <3>1, <3>2, <3>3
  <2>5. Marks(r) = Append(Marks(reasoning), id)
    <3>1. PICK m \in Seq({"r", "none"}) : m = Marks(reasoning)
      BY <1>0
    <3>2. Len(m) = Len(reasoning) /\ \A n \in DOMAIN reasoning : m[n] = reasoning[n].id
      BY <1>0, <3>1
    <3>3. DOMAIN Append(m, id) = 1..Len(reasoning) + 1
      BY <1>0, <3>2
    <3>4. \A n \in 1..Len(reasoning) + 1 : Append(m, id)[n] = r[n].id
      BY <1>0, <1>1, <2>2, <2>3, <3>2
    <3>5. Append(m, id) \in Seq({"r", "none"})
      BY <3>1
    <3>6. DOMAIN Marks(r) = 1..Len(reasoning) + 1 /\ Marks(r) \in Seq({"r", "none"})
      BY <2>3, MarksOfSequence
    <3>7. \A n \in 1..Len(reasoning) + 1 : Marks(r)[n] = r[n].id
      BY <2>3, MarksOfSequence
    <3>8. PICK v : v = Append(m, id)
      OBVIOUS
    <3>9. PICK w : w = Marks(r)
      OBVIOUS
    <3>10. v = w
      <4>1. v \in Seq({"r", "none"}) /\ w \in Seq({"r", "none"}) /\ DOMAIN v = DOMAIN w /\ \A n \in DOMAIN v : v[n] = w[n]
        BY <3>3, <3>4, <3>5, <3>6, <3>7, <3>8, <3>9
      <4> QED
        BY <4>1
    <3> QED
      BY <3>1, <3>8, <3>9, <3>10
  <2>6. \A i : Count(Marks(r), i) = IF i = id THEN Count(Marks(reasoning), i) + 1 ELSE Count(Marks(reasoning), i)
    <3>1. PICK m \in Seq({"r", "none"}) : m = Marks(reasoning)
      BY <1>0
    <3>2. \A i : Count(Append(m, id), i) = IF i = id THEN Count(m, i) + 1 ELSE Count(m, i)
      BY CountAppended
    <3> QED
      BY <2>5, <3>1, <3>2
  <2>7. \A i : Count(Marks(reasoning), i) \in Nat /\ (Count(Marks(reasoning), i) > 0 <=> \E n \in DOMAIN reasoning : reasoning[n].id = i)
    BY <1>0, CountIs
  <2>8. r # <<>>
    BY <1>0, <2>3
  <2>9. id = "r" => Count(Marks(reasoning), "r") = 0
    BY <1>3, <2>7
  <2> QED
    BY <2>3, <2>4, <2>6, <2>7, <2>8, <2>9
<1> QED
  BY <1>2, <1>3

Carried == Live \cup Faults \cup {"final"}
FedWith(item) ==
  /\ fed' \in Seq(Carried) /\ fed' # <<>> /\ Last(fed') = item
  /\ Len(fed) \in Nat /\ Len(fed') = Len(fed) + 1 /\ Len(fed') <= MaxItems
  /\ Range(fed') = Range(fed) \cup {item}
  /\ \A i : Count(fed, i) \in Nat /\ Count(fed', i) = IF i = item THEN Count(fed, i) + 1 ELSE Count(fed, i)
LEMMA FedGrows ==
  ASSUME AsmTypes, NEW item \in Carried, Arrives(item)
  PROVE  FedWith(item)
<1>0. fed \in Seq(Carried) /\ Len(fed) \in Nat /\ DOMAIN fed = 1..Len(fed) /\ Len(fed) < MaxItems
  BY DEF AsmTypes, Arrives, Carried
<1>1. PICK f \in Seq(Carried) : f = fed
  BY <1>0
<1>2. PICK g : g = fed'
  OBVIOUS
<1>3. g = Append(f, item)
  BY <1>1, <1>2 DEF Arrives
<1>4. /\ g \in Seq(Carried) /\ Len(g) = Len(f) + 1 /\ g[Len(f) + 1] = item /\ Len(f) \in Nat
      /\ DOMAIN g = 1..Len(f) + 1 /\ \A n \in 1..Len(f) : g[n] = f[n]
  BY <1>3
<1>5. \A i : Count(f, i) \in Nat /\ Count(g, i) = IF i = item THEN Count(f, i) + 1 ELSE Count(f, i)
  BY <1>3, CountIs, CountAppended
<1>6. Range(g) = Range(f) \cup {item}
  <2>1. \A n \in 1..Len(f) + 1 : n \in 1..Len(f) \/ n = Len(f) + 1
    BY <1>4
  <2>2. \A n \in 1..Len(f) : n \in 1..Len(f) + 1
    BY <1>4
  <2>3. Len(f) + 1 \in 1..Len(f) + 1 /\ DOMAIN f = 1..Len(f)
    BY <1>4
  <2> QED
    BY <1>4, <2>1, <2>2, <2>3 DEF Range
<1>7. g # <<>> /\ Last(g) = item
  BY <1>4 DEF Last
<1>8. Len(f) + 1 <= MaxItems
  BY <1>0, <1>1, AssemblyAssumption
<1> QED
  BY <1>1, <1>2, <1>4, <1>5, <1>6, <1>7, <1>8 DEF FedWith

\* A call that settles otherwise than completed keeps everything it had.
LEMMA SettledKeeps ==
  ASSUME AsmInv, outcome["loop"] = "open",
         fed' = fed \/ (\E item \in Carried : FedWith(item)),
         outcome'["loop"] = outcome'["once"], outcome'["loop"] \in {"failed", "defect", "cancelled"},
         UNCHANGED <<reasoning, thoughts, calls, named, buffered, sawText, finals, run, sunk>>
  PROVE  AsmInv'
<1>0. AsmTypes /\ RecordInv /\ ArgumentInv /\ BlockInv
  BY DEF AsmInv
<1>1. fed' \in Seq(Carried) /\ Len(fed') <= MaxItems /\ Len(fed) <= Len(fed') /\ Len(fed) \in Nat /\ Len(fed') \in Nat
  BY <1>0 DEF AsmTypes, FedWith, Carried
<1>2. ~Sound' /\ ~Completed' /\ ~Completed
  BY DEF Sound, Completed
<1>3. AsmTypes'
  <2>1. \A n \in Nat : n \in 0..Len(fed) => n \in 0..Len(fed')
    BY <1>1
  <2>2. \A n \in DOMAIN reasoning : reasoning[n].parts \in 1..Len(fed')
    <3>1. \A k : k \in 1..Len(fed) => k \in 1..Len(fed')
      BY <1>1
    <3> QED
      BY <1>0, <3>1, Zenon DEF AsmTypes
  <2>3. thoughts' \in 0..Len(fed') /\ calls' \in 0..Len(fed') /\ buffered' \in 0..Len(fed')
    BY <1>0, <1>1 DEF AsmTypes
  <2> QED
    BY <1>0, <1>1, <2>2, <2>3 DEF AsmTypes, Settlements, Carried
<1>4. RecordInv'
  BY <1>0, <1>2, Zenon DEF RecordInv, Held
<1>5. ArgumentInv'
  BY <1>0, <1>2, Zenon DEF ArgumentInv
<1>6. BlockInv'
  BY <1>0, <1>2, Zenon DEF BlockInv
<1> QED
  BY <1>3, <1>4, <1>5, <1>6 DEF AsmInv

LEMMA RecordKeeps ==
  ASSUME AsmInv, TerminalRecord
  PROVE  AsmInv'
<1>0. /\ AsmTypes /\ RecordInv /\ ArgumentInv /\ BlockInv /\ outcome["loop"] = "open" /\ Arrives("final") /\ ~finals
      /\ UNCHANGED <<reasoning, thoughts, calls, named, buffered, sawText, sunk>>
  BY DEF AsmInv, TerminalRecord, Arrives
<1>1. FedWith("final") /\ "final" \in Carried
  BY <1>0, FedGrows DEF Carried
<1>2. CASE buffered > 0
  <2>1. Settles("failed") /\ UNCHANGED <<finals, run>>
    BY <1>2 DEF TerminalRecord
  <2>2. outcome'["loop"] = outcome'["once"] /\ outcome'["loop"] = "failed"
    BY <2>1 DEF Settles
  <2>3. UNCHANGED <<reasoning, thoughts, calls, named, buffered, sawText, finals, run, sunk>>
    BY <1>0, <2>1
  <2> QED
    BY <1>0, <1>1, <2>2, <2>3, SettledKeeps
<1>3. CASE ~(buffered > 0)
  <2>1. finals' = TRUE /\ run' = Append(run, "report") /\ outcome' = outcome
    BY <1>3 DEF TerminalRecord
  <2>2. buffered = 0
    BY <1>0, <1>3 DEF AsmTypes
  <2>3. ~Completed /\ ~Completed' /\ Sound /\ Sound'
    BY <1>0, <2>1 DEF Completed, Sound
  <2>4. AsmTypes'
    <3>1. Len(fed) \in Nat /\ Len(fed') = Len(fed) + 1
      BY <1>1 DEF FedWith
    <3>2. thoughts' \in 0..Len(fed') /\ calls' \in 0..Len(fed') /\ buffered' \in 0..Len(fed')
      BY <1>0, <3>1 DEF AsmTypes
    <3>3. \A n \in DOMAIN reasoning : reasoning[n].parts \in 1..Len(fed')
      <4>1. \A k : k \in 1..Len(fed) => k \in 1..Len(fed')
        BY <3>1
      <4> QED
        BY <1>0, <4>1, Zenon DEF AsmTypes
    <3> QED
      BY <1>0, <1>1, <2>1, <3>2, <3>3 DEF AsmTypes, FedWith, Carried
  <2>5. RecordInv'
    <3>1. run = sunk \o <<>> /\ Held = <<>> /\ Held' = <<"report">>
      BY <1>0, <2>1, <2>3 DEF RecordInv, Held
    <3>2. sunk \in Seq(Live)
      BY <1>0 DEF AsmTypes
    <3>3. run = sunk
      BY <3>1, <3>2
    <3>4. Append(sunk, "report") = sunk \o <<"report">>
      BY <3>2
    <3>5. run' = sunk' \o Held'
      BY <1>0, <2>1, <3>1, <3>3, <3>4
    <3> QED
      BY <1>0, <1>1, <2>1, <2>2, <2>3, <3>5 DEF RecordInv, FedWith
  <2>6. ArgumentInv'
    <3>1. Count(fed', "argument") = Count(fed, "argument")
      BY <1>1 DEF FedWith
    <3> QED
      BY <1>0, <2>3, <3>1, Zenon DEF ArgumentInv
  <2>7. BlockInv'
    <3>1. Count(fed', "anonymous") = Count(fed, "anonymous") /\ Count(fed', "call") = Count(fed, "call")
      BY <1>1 DEF FedWith
    <3>2. {"block", "anonymous"} \cap Range(fed') = {"block", "anonymous"} \cap Range(fed)
      BY <1>1 DEF FedWith
    <3> QED
      BY <1>0, <2>3, <3>1, <3>2, Zenon DEF BlockInv
  <2> QED
    BY <2>4, <2>5, <2>6, <2>7 DEF AsmInv
<1> QED
  BY <1>2, <1>3

LEMMA EndKeeps ==
  ASSUME AsmInv, End
  PROVE  AsmInv'
<1>0. /\ AsmTypes /\ RecordInv /\ ArgumentInv /\ BlockInv /\ outcome["loop"] = "open"
      /\ UNCHANGED <<fed, reasoning, thoughts, calls, named, buffered, sawText, finals, sunk>>
  BY DEF AsmInv, End
<1>1. CASE ~finals
  <2>1. Settles("failed") /\ run' = run
    BY <1>1 DEF End
  <2>2. outcome'["loop"] = outcome'["once"] /\ outcome'["loop"] = "failed"
    BY <2>1 DEF Settles
  <2>3. UNCHANGED <<reasoning, thoughts, calls, named, buffered, sawText, finals, run, sunk>> /\ fed' = fed
    BY <1>0, <2>1
  <2> QED
    BY <1>0, <2>2, <2>3, SettledKeeps
<1>2. CASE finals
  <2>1. Settles("completed") /\ run' = IF sawText THEN Append(run, "final") ELSE run
    BY <1>2 DEF End
  <2>2. outcome'["loop"] = outcome'["once"] /\ outcome'["loop"] = "completed"
    BY <2>1 DEF Settles
  <2>3. Completed' /\ ~Completed /\ Sound /\ Sound'
    BY <1>0, <2>2 DEF Completed, Sound
  <2>4. AsmTypes'
    BY <1>0, <2>2 DEF AsmTypes, Settlements
  <2>5. run' = sunk' \o Held'
    <3>1. run = sunk \o <<"report">> /\ sunk \in Seq(Live)
      BY <1>0, <1>2, <2>3 DEF RecordInv, Held, AsmTypes
    <3>2. CASE sawText
      <4>1. Held' = <<"report", "final">> /\ run' = Append(run, "final")
        BY <1>0, <1>2, <2>1, <2>3, <3>2 DEF Held
      <4>2. Append(sunk \o <<"report">>, "final") = sunk \o <<"report", "final">>
        <5>1. PICK s \in Seq(Live \cup {"report", "final"}) : s = sunk
          BY <3>1
        <5>2. Append(s \o <<"report">>, "final") = s \o <<"report", "final">>
          OBVIOUS
        <5> QED
          BY <5>1, <5>2
      <4> QED
        BY <1>0, <3>1, <4>1, <4>2
    <3>3. CASE ~sawText
      <4>1. Held' = <<"report">> /\ run' = run
        BY <1>0, <1>2, <2>1, <2>3, <3>3 DEF Held
      <4> QED
        BY <1>0, <3>1, <4>1
    <3> QED
      BY <3>2, <3>3
  <2>6. RecordInv'
    BY <1>0, <1>2, <2>3, <2>5, Zenon DEF RecordInv
  <2>7. ArgumentInv' /\ BlockInv'
    BY <1>0, <2>3, Zenon DEF ArgumentInv, BlockInv
  <2> QED
    BY <2>4, <2>6, <2>7 DEF AsmInv
<1> QED
  BY <1>1, <1>2

\* What the reasoning kept says of the items fed.
Remembers ==
  /\ reasoning \in Seq(Blocks) /\ \A n \in DOMAIN reasoning : reasoning[n].parts \in 1..Len(fed)
  /\ Count(Marks(reasoning), "r") <= 1
  /\ Count(Marks(reasoning), "none") = Count(fed, "anonymous")
  /\ {"block", "anonymous"} \cap Range(fed) # {} => reasoning # <<>>
LEMMA IngestKeeps ==
  ASSUME AsmInv, NEW item \in Live, Ingest(item)
  PROVE  AsmInv'
<1>0. /\ AsmTypes /\ RecordInv /\ ArgumentInv /\ BlockInv /\ outcome["loop"] = "open" /\ Arrives(item) /\ ~finals
      /\ outcome' = outcome /\ finals' = finals
  BY DEF AsmInv, Ingest, Arrives
<1>1. FedWith(item)
  BY <1>0, FedGrows DEF Carried
<1>2. ~Completed /\ ~Completed' /\ Sound /\ Sound'
  BY <1>0 DEF Completed, Sound
<1>3. PICK c : c = Cleared(item)
  OBVIOUS
<1>4. /\ c \in Seq(Live)
      /\ Count(c, "argument") = IF item = "name" THEN buffered
                                ELSE IF item = "argument" /\ named THEN 1 ELSE 0
      /\ item = "name" => 1 \in DOMAIN c /\ c[1] = "name"
      /\ item # "name" => \A n \in DOMAIN c : c[n] = "argument" => item = "argument" /\ named
  BY <1>0, <1>3, ClearedIs
<1>5. run' = run \o c /\ sunk' = sunk \o c
  BY <1>3 DEF Ingest
<1>6. /\ named' = (named \/ item = "name")
      /\ buffered' = IF item = "name" THEN 0
                     ELSE IF item = "argument" /\ ~named THEN buffered + 1 ELSE buffered
      /\ sawText' = (sawText \/ item = "text")
      /\ thoughts' = IF item = "thought" THEN thoughts + 1 ELSE thoughts
      /\ calls' = IF item = "call" THEN calls + 1 ELSE calls
  BY DEF Ingest
<1>7. sunk \in Seq(Live) /\ sunk' \in Seq(Live) /\ Joined(sunk, c, sunk')
  <2>1. sunk \in Seq(Live)
    BY <1>0 DEF AsmTypes
  <2>2. PICK t : t = sunk'
    OBVIOUS
  <2>3. t \in Seq(Live) /\ Joined(sunk, c, t)
    BY <1>4, <1>5, <2>1, <2>2, JoinedIs
  <2> QED
    BY <2>1, <2>2, <2>3
<1>8. Remembers'
  <2>0. /\ Len(fed) \in Nat /\ Len(fed') = Len(fed) + 1 /\ reasoning \in Seq(Blocks)
        /\ \A n \in DOMAIN reasoning : reasoning[n].parts \in 1..Len(fed)
        /\ Count(Marks(reasoning), "r") <= 1
        /\ Count(Marks(reasoning), "none") = Count(fed, "anonymous")
        /\ {"block", "anonymous"} \cap Range(fed) # {} => reasoning # <<>>
    BY <1>0, <1>1, <1>2 DEF AsmTypes, BlockInv, FedWith
  <2>1. ASSUME NEW id \in {"r", "none"}, reasoning' = Merged(Block(id, 1)),
               id = "none" <=> item = "anonymous"
        PROVE  Remembers'
    <3>1. PICK q : q = reasoning'
      OBVIOUS
    <3>2. /\ q \in Seq(Blocks) /\ q # <<>> /\ \A n \in DOMAIN q : q[n].parts \in 1..Len(fed) + 1
          /\ Count(Marks(q), "r") <= 1
          /\ Count(Marks(q), "none") = IF id = "none" THEN Count(Marks(reasoning), "none") + 1
                                       ELSE Count(Marks(reasoning), "none")
      BY <2>0, <2>1, <3>1, MergedIs
    <3>3. Count(fed', "anonymous") = IF item = "anonymous" THEN Count(fed, "anonymous") + 1 ELSE Count(fed, "anonymous")
      BY <1>1 DEF FedWith
    <3> QED
      BY <2>0, <2>1, <3>1, <3>2, <3>3 DEF Remembers
  <2>2. CASE item = "block"
    <3>1. reasoning' = Merged(Block("r", 1))
      BY <2>2 DEF Ingest
    <3> QED
      BY <2>1, <2>2, <3>1
  <2>3. CASE item = "anonymous"
    <3>1. reasoning' = Merged(Block("none", 1))
      BY <2>3 DEF Ingest
    <3> QED
      BY <2>1, <2>3, <3>1
  <2>4. CASE item # "block" /\ item # "anonymous"
    <3>1. reasoning' = reasoning
      BY <2>4 DEF Ingest
    <3>2. Count(fed', "anonymous") = Count(fed, "anonymous")
      BY <1>1, <2>4 DEF FedWith
    <3>3. {"block", "anonymous"} \cap Range(fed') = {"block", "anonymous"} \cap Range(fed)
      BY <1>1, <2>4 DEF FedWith
    <3>4. \A k : k \in 1..Len(fed) => k \in 1..Len(fed')
      BY <2>0
    <3>5. \A n \in DOMAIN reasoning : reasoning[n].parts \in 1..Len(fed')
      BY <2>0, <3>4, Zenon
    <3> QED
      BY <2>0, <3>1, <3>2, <3>3, <3>5, Zenon DEF Remembers
  <2> QED
    BY <2>2, <2>3, <2>4
<1>9. AsmTypes'
  <2>0. /\ Len(fed) \in Nat /\ Len(fed') = Len(fed) + 1 /\ fed' \in Seq(Carried) /\ Len(fed') <= MaxItems
        /\ thoughts \in 0..Len(fed) /\ calls \in 0..Len(fed) /\ buffered \in 0..Len(fed)
        /\ named \in BOOLEAN /\ sawText \in BOOLEAN /\ finals \in BOOLEAN
        /\ outcome["loop"] = outcome["once"] /\ outcome["loop"] \in Settlements
    BY <1>0, <1>1 DEF AsmTypes, FedWith
  <2>1. thoughts' \in 0..Len(fed') /\ calls' \in 0..Len(fed') /\ buffered' \in 0..Len(fed')
    BY <1>6, <2>0
  <2>2. named' \in BOOLEAN /\ sawText' \in BOOLEAN /\ finals' \in BOOLEAN
    BY <1>0, <1>6, <2>0
  <2> QED
    BY <1>0, <1>7, <1>8, <2>0, <2>1, <2>2 DEF AsmTypes, Carried, Remembers
<1>10. RecordInv'
  <2>1. Held = <<>> /\ Held' = <<>>
    BY <1>0, <1>2 DEF Held
  <2>2. run = sunk \o <<>> /\ sunk \o <<>> = sunk
    BY <1>0, <1>7, <2>1 DEF RecordInv
  <2>3. sunk' \o <<>> = sunk'
    BY <1>7
  <2>4. run' = sunk' \o Held'
    BY <1>5, <2>1, <2>2, <2>3
  <2> QED
    BY <1>0, <1>2, <2>4 DEF RecordInv
<1>11. ArgumentInv'
  <2>0. /\ named => buffered = 0 /\ \E n \in DOMAIN sunk : sunk[n] = "name"
        /\ \A n \in DOMAIN sunk : sunk[n] = "argument" => \E k \in 1..n : sunk[k] = "name"
        /\ Count(fed, "argument") = Count(sunk, "argument") + buffered
    BY <1>0, <1>2 DEF ArgumentInv
  <2>1. named' => buffered' = 0
    BY <1>6, <2>0
  <2>2. named => \E n \in 1..Len(sunk) : sunk'[n] = "name"
    BY <1>7, <2>0 DEF Joined
  <2>3. /\ DOMAIN sunk = 1..Len(sunk) /\ DOMAIN sunk' = 1..Len(sunk) + Len(c) /\ Len(sunk) \in Nat /\ Len(c) \in Nat
        /\ \A n \in 1..Len(sunk) : sunk'[n] = sunk[n]
        /\ \A n \in Len(sunk) + 1..Len(sunk) + Len(c) : n - Len(sunk) \in DOMAIN c /\ sunk'[n] = c[n - Len(sunk)]
        /\ DOMAIN c = 1..Len(c)
    BY <1>7 DEF Joined
  <2>4. item = "name" => Len(c) >= 1 /\ sunk'[Len(sunk) + 1] = "name"
    <3>1. item = "name" => Len(c) >= 1 /\ (Len(sunk) + 1) - Len(sunk) = 1 /\ Len(sunk) + 1 \in Len(sunk) + 1..Len(sunk) + Len(c)
      BY <1>4, <2>3
    <3> QED
      BY <1>4, <2>3, <3>1
  <2>5. named' => \E n \in DOMAIN sunk' : sunk'[n] = "name"
    <3>1. CASE named
      BY <2>2, <2>3, <3>1
    <3>2. CASE item = "name"
      BY <2>3, <2>4, <3>2
    <3> QED
      BY <1>6, <3>1, <3>2
  <2>6. ASSUME NEW n \in DOMAIN sunk', sunk'[n] = "argument" PROVE \E k \in 1..n : sunk'[k] = "name"
    <3>1. CASE n \in 1..Len(sunk)
      <4>1. PICK k \in 1..n : sunk[k] = "name"
        BY <2>0, <2>3, <2>6, <3>1
      <4>2. k \in 1..Len(sunk)
        BY <2>3, <3>1
      <4> QED
        BY <2>3, <4>1, <4>2
    <3>2. CASE n \in Len(sunk) + 1..Len(sunk) + Len(c)
      <4>1. CASE item = "name"
        <5>1. Len(sunk) + 1 \in 1..n
          BY <2>3, <3>2
        <5> QED
          BY <2>4, <4>1, <5>1
      <4>2. CASE item # "name"
        <5>1. named
          BY <1>4, <2>3, <2>6, <3>2, <4>2
        <5>2. PICK k \in 1..Len(sunk) : sunk'[k] = "name"
          BY <2>2, <5>1
        <5>3. k \in 1..n
          BY <2>3, <3>2
        <5> QED
          BY <5>2, <5>3
      <4> QED
        BY <4>1, <4>2
    <3>3. n \in 1..Len(sunk) \/ n \in Len(sunk) + 1..Len(sunk) + Len(c)
      BY <2>3
    <3> QED
      BY <3>1, <3>2, <3>3
  <2>7. Count(fed', "argument") = Count(sunk', "argument") + buffered'
    <3>1. PICK t : t = sunk'
      OBVIOUS
    <3>2. Count(t, "argument") = Count(sunk, "argument") + Count(c, "argument")
      BY <1>4, <1>5, <1>7, <3>1, CountJoined
    <3>3. Count(fed', "argument") = IF item = "argument" THEN Count(fed, "argument") + 1 ELSE Count(fed, "argument")
      BY <1>1 DEF FedWith
    <3>4. Count(sunk, "argument") \in Nat /\ Count(c, "argument") \in Nat /\ buffered \in Nat
      BY <1>0, <1>4, <1>7, CountIs DEF AsmTypes
    <3> QED
      BY <1>4, <1>6, <2>0, <3>1, <3>2, <3>3, <3>4
  <2> QED
    BY <2>1, <2>5, <2>6, <2>7 DEF ArgumentInv
<1>12. BlockInv'
  <2>1. calls' = Count(fed', "call")
    <3>1. calls = Count(fed, "call") /\ Count(fed, "call") \in Nat
      BY <1>0, <1>1, <1>2 DEF BlockInv, FedWith
    <3>2. Count(fed', "call") = IF item = "call" THEN Count(fed, "call") + 1 ELSE Count(fed, "call")
      BY <1>1 DEF FedWith
    <3> QED
      BY <1>6, <3>1, <3>2
  <2> QED
    BY <1>8, <2>1 DEF BlockInv, Remembers
<1> QED
  BY <1>9, <1>10, <1>11, <1>12 DEF AsmInv

LEMMA AsmMoves == ASSUME AsmInv, AsmNext PROVE AsmInv'
<1>1. ASSUME NEW item \in Live, Ingest(item) PROVE AsmInv'
  BY <1>1, IngestKeeps
<1>2. ASSUME NEW item \in Carried, Arrives(item), Settles("failed") \/ Settles("defect"),
             UNCHANGED <<reasoning, thoughts, calls, named, buffered, sawText, finals, run, sunk>>
      PROVE  AsmInv'
  <2>1. FedWith(item)
    BY <1>2, FedGrows DEF AsmInv
  <2>2. outcome["loop"] = "open"
    BY <1>2 DEF Arrives
  <2>3. outcome'["loop"] = outcome'["once"] /\ outcome'["loop"] \in {"failed", "defect", "cancelled"}
    BY <1>2 DEF Settles
  <2> QED
    BY <1>2, <2>1, <2>2, <2>3, SettledKeeps
<1>3. ASSUME NEW item \in Live \cup {"final"}, AfterFinal(item) PROVE AsmInv'
  <2>1. item \in Carried
    BY DEF Carried
  <2> QED
    BY <1>2, <1>3, <2>1 DEF AfterFinal
<1>4. ASSUME NEW item \in Faults, Fault(item) PROVE AsmInv'
  <2>1. item \in Carried
    BY DEF Carried
  <2>2. Settles("failed") \/ Settles("defect")
    BY <1>4 DEF Fault
  <2> QED
    BY <1>2, <1>4, <2>1, <2>2 DEF Fault
<1>5. CASE TerminalRecord
  BY <1>5, RecordKeeps
<1>6. CASE End
  BY <1>6, EndKeeps
<1>7. CASE Cancel
  <2>1. /\ outcome["loop"] = "open" /\ Settles("cancelled") /\ fed' = fed
        /\ UNCHANGED <<reasoning, thoughts, calls, named, buffered, sawText, finals, run, sunk>>
    BY <1>7 DEF Cancel
  <2>2. outcome'["loop"] = outcome'["once"] /\ outcome'["loop"] \in {"failed", "defect", "cancelled"}
    BY <2>1 DEF Settles
  <2> QED
    BY <2>1, <2>2, SettledKeeps
<1> QED
  BY <1>1, <1>3, <1>4, <1>5, <1>6, <1>7 DEF AsmNext

LEMMA AsmRests == ASSUME AsmInv, UNCHANGED asmVars PROVE AsmInv'
<1>1. /\ UNCHANGED <<fed, reasoning, thoughts, calls, named, buffered>>
      /\ UNCHANGED <<sawText, finals, run, sunk, outcome>>
  BY DEF asmVars
<1>2. AsmTypes' /\ RecordInv'
  BY <1>1 DEF AsmInv, AsmTypes, RecordInv, Held, Completed, Sound
<1>3. ArgumentInv' /\ BlockInv'
  BY <1>1 DEF AsmInv, ArgumentInv, BlockInv, Sound
<1> QED
  BY <1>2, <1>3 DEF AsmInv

LEMMA DriversKeep == ASSUME AsmInv PROVE AsmTypeOK /\ DriversAgree
<1>0. AsmTypes /\ RecordInv
  BY DEF AsmInv
<1>1. AsmTypeOK
  <2>1. Len(fed) \in Nat /\ Len(fed) <= MaxItems /\ MaxItems \in Nat
    BY <1>0, AssemblyAssumption DEF AsmTypes
  <2>2. {thoughts, calls, buffered} \subseteq 0..MaxItems
    BY <1>0, <2>1 DEF AsmTypes
  <2>3. \A k : k \in 1..Len(fed) => k \in 1..MaxItems
    BY <2>1
  <2>4. \A n \in DOMAIN reasoning : reasoning[n].id \in {"r", "none"} /\ reasoning[n].parts \in 1..MaxItems
    <3>1. \A n \in DOMAIN reasoning : reasoning[n] \in Blocks /\ reasoning[n].parts \in 1..Len(fed)
      BY <1>0 DEF AsmTypes
    <3>2. \A e \in Blocks : e.id \in {"r", "none"}
      BY DEF Blocks
    <3> QED
      BY <2>3, <3>1, <3>2, Zenon
  <2>5. {outcome["loop"], outcome["once"]} \subseteq Settlements
    BY <1>0 DEF AsmTypes
  <2> QED
    BY <2>2, <2>4, <2>5 DEF AsmTypeOK, Settlements
<1>2. \E tail \in {<<>>, <<"report">>, <<"report", "final">>} : run = sunk \o tail
  <2>1. Held \in {<<>>, <<"report">>, <<"report", "final">>}
    BY DEF Held
  <2> QED
    BY <1>0, <2>1 DEF RecordInv
<1> QED
  BY <1>0, <1>1, <1>2 DEF DriversAgree, AsmTypes

LEMMA TruncationKeeps == ASSUME AsmInv PROVE NoTruncatedTurn
<1>0. AsmTypes /\ RecordInv
  BY DEF AsmInv
<1>1. PICK h : h = Held
  OBVIOUS
<1>2. PICK s \in Seq(Live \cup {"report", "final"}) : s = sunk /\ \A n \in DOMAIN s : s[n] \in Live
  <2>1. sunk \in Seq(Live)
    BY <1>0 DEF AsmTypes
  <2>2. sunk \in Seq(Live \cup {"report", "final"}) /\ \A n \in DOMAIN sunk : sunk[n] \in Live
    BY <2>1
  <2> QED
    BY <2>2
<1>3. Count(s, "report") = 0 /\ Count(s, "final") = 0
  <2>1. "report" \notin Live /\ "final" \notin Live
    BY DEF Live
  <2>2. \A i : Count(s, i) \in Nat /\ (Count(s, i) > 0 <=> \E n \in DOMAIN s : s[n] = i)
    BY CountIs
  <2> QED
    BY <1>2, <2>1, <2>2
<1>4. run = s \o h
  BY <1>0, <1>1, <1>2 DEF RecordInv
<1>5. CASE h = <<>>
  <2>1. run = s
    BY <1>4, <1>5
  <2>2. ~Completed
    BY <1>0, <1>1, <1>5 DEF Held, RecordInv
  <2> QED
    BY <1>3, <2>1, <2>2 DEF NoTruncatedTurn
<1>6. CASE h = <<"report">>
  <2>1. h \in Seq(Live \cup {"report", "final"})
    BY <1>6
  <2>2. \A i : Count(run, i) = Count(s, i) + Count(h, i)
    BY <1>4, <2>1, CountJoined
  <2>3. Count(h, "report") = 1 /\ Count(h, "final") = 0
    BY <1>6, CountOne
  <2>4. Count(run, "report") = 1 /\ Count(run, "final") = 0
    BY <1>3, <2>2, <2>3
  <2>5. Completed => fed # <<>> /\ Last(fed) = "final"
    BY <1>0 DEF RecordInv, Sound, Completed
  <2> QED
    BY <2>4, <2>5 DEF NoTruncatedTurn
<1>7. CASE h = <<"report", "final">>
  <2>1. Completed
    <3>1. Len(<<>>) = 0 /\ Len(<<"report">>) = 1 /\ Len(h) = 2
      BY <1>7
    <3>2. Held # <<>> /\ Held # <<"report">>
      BY <1>1, <3>1
    <3> QED
      BY <3>2 DEF Held
  <2>8. h \in Seq(Live \cup {"report", "final"})
    BY <1>7
  <2>2. h = Append(<<"report">>, "final") /\ <<"report">> \in Seq({"report", "final"})
    BY <1>7
  <2>3. \A i : Count(run, i) = Count(s, i) + Count(h, i)
    BY <1>4, <2>8, CountJoined
  <2>4. Count(h, "report") = 1
    <3>1. PICK e : e = <<"report">>
      OBVIOUS
    <3>2. e \in Seq({"report", "final"}) /\ h = Append(e, "final")
      BY <2>2, <3>1
    <3>3. Count(h, "report") = Count(e, "report")
      BY <3>2, CountAppended
    <3> QED
      BY <3>1, <3>3, CountOne
  <2>5. Count(run, "report") = 1
    BY <1>3, <2>3, <2>4
  <2>6. fed # <<>> /\ Last(fed) = "final"
    BY <1>0, <2>1 DEF RecordInv, Sound, Completed
  <2>7. Last(run) = "final"
    <3>1. Len(h) = 2 /\ h[2] = "final"
      BY <1>7
    <3>2. PICK j : j = run
      OBVIOUS
    <3>3. Joined(s, h, j)
      BY <1>4, <2>8, <3>2, JoinedIs
    <3>4. 2 \in 1..Len(h) /\ Len(j) = Len(s) + 2
      BY <3>1, <3>3 DEF Joined
    <3>5. j[Len(s) + 2] = "final"
      BY <3>1, <3>3, <3>4 DEF Joined
    <3> QED
      BY <3>2, <3>4, <3>5 DEF Last
  <2> QED
    BY <2>1, <2>5, <2>6, <2>7 DEF NoTruncatedTurn
<1> QED
  BY <1>1, <1>5, <1>6, <1>7 DEF Held

LEMMA ArgumentsKeep == ASSUME AsmInv PROVE ArgumentsFollowTheirName
<1>0. AsmTypes /\ RecordInv /\ ArgumentInv
  BY DEF AsmInv
<1>1. PICK s \in Seq(Live) : s = sunk
  BY <1>0 DEF AsmTypes
<1>2. ASSUME NEW n \in DOMAIN s, s[n] = "argument" PROVE Count(SubSeq(s, 1, n), "name") > 0
  <2>1. PICK k \in 1..n : s[k] = "name"
    BY <1>0, <1>1, <1>2 DEF ArgumentInv
  <2>2. PICK cut : cut = SubSeq(s, 1, n)
    OBVIOUS
  <2>3. cut \in Seq(Live) /\ Len(cut) = n /\ DOMAIN cut = 1..n /\ \A m \in 1..n : cut[m] = s[m]
    BY <2>2
  <2>4. Count(cut, "name") > 0 <=> \E m \in DOMAIN cut : cut[m] = "name"
    BY <2>3, CountIs
  <2> QED
    BY <2>1, <2>2, <2>3, <2>4
<1>3. ASSUME Completed PROVE Count(sunk, "argument") = Count(fed, "argument")
  <2>1. Count(fed, "argument") = Count(sunk, "argument") + 0
    BY <1>0, <1>3 DEF Completed, Sound, RecordInv, ArgumentInv
  <2>2. Count(s, "argument") \in Nat
    BY CountIs
  <2> QED
    BY <1>1, <2>1, <2>2
<1> QED
  BY <1>1, <1>2, <1>3 DEF ArgumentsFollowTheirName

LEMMA ReasoningKeeps == ASSUME AsmInv PROVE ReasoningIsSigned
<1> SUFFICES ASSUME Completed PROVE ReasoningIsSigned
  BY DEF ReasoningIsSigned
<1>0. AsmTypes /\ BlockInv /\ Sound
  BY DEF AsmInv, Completed, Sound
<1>1. reasoning \in Seq(Blocks)
  BY <1>0 DEF AsmTypes
<1>2. \A i : Count(Marks(reasoning), i) = Cardinality({n \in DOMAIN reasoning : reasoning[n].id = i})
  <2>1. ASSUME NEW i
        PROVE  {n \in DOMAIN Marks(reasoning) : Marks(reasoning)[n] = i} = {n \in DOMAIN reasoning : reasoning[n].id = i}
    BY <1>1, MarksOfSequence
  <2> QED
    BY <2>1, Zenon DEF Count
<1>3. ASSUME {"block", "anonymous"} \intersect Range(fed) # {} PROVE \A n \in DOMAIN Thinking : Thinking[n].id # "delta"
  <2>1. reasoning # <<>>
    BY <1>0, <1>3 DEF BlockInv
  <2>2. Thinking = reasoning
    BY <2>1 DEF Thinking
  <2>3. \A n \in DOMAIN reasoning : reasoning[n] \in Blocks
    BY <1>1
  <2>4. \A e \in Blocks : e.id # "delta"
    BY DEF Blocks
  <2> QED
    BY <2>2, <2>3, <2>4
<1>4. Count(Marks(reasoning), "r") <= 1 /\ Count(Marks(reasoning), "none") = Count(fed, "anonymous")
  BY <1>0 DEF BlockInv
<1> QED
  BY <1>2, <1>3, <1>4 DEF ReasoningIsSigned

Thirds(w, a, b, c) == w = [n \in 1..a |-> "reasoning"] \o [n \in 1..b |-> "text"] \o [n \in 1..c |-> "call"]
LEMMA ThirdsInOrder ==
  ASSUME NEW a \in Nat, NEW b \in Nat, NEW c \in Nat, NEW w, Thirds(w, a, b, c)
  PROVE  /\ Count(w, "text") = b /\ Count(w, "call") = c
         /\ \A n \in DOMAIN w : \A k \in 1..n :
              /\ w[n] = "reasoning" => w[k] = "reasoning"
              /\ w[k] = "call" => w[n] = "call"
<1> DEFINE S == {"reasoning", "text", "call"}
<1>1. PICK x : x = [n \in 1..a |-> "reasoning"]
  OBVIOUS
<1>2. PICK y : y = [n \in 1..b |-> "text"]
  OBVIOUS
<1>3. PICK z : z = [n \in 1..c |-> "call"]
  OBVIOUS
<1>4. /\ x \in Seq(S) /\ Len(x) = a /\ Count(x, "text") = 0 /\ Count(x, "call") = 0
      /\ \A n \in 1..a : x[n] = "reasoning"
  <2>1. Repeats(x, "reasoning", a)
    BY <1>1 DEF Repeats
  <2>2. x \in Seq({"reasoning"}) /\ Len(x) = a /\ (\A n \in 1..a : x[n] = "reasoning") /\ \A i : Count(x, i) = IF i = "reasoning" THEN a ELSE 0
    BY <2>1, CountRepeated
  <2> QED
    BY <2>2
<1>5. /\ y \in Seq(S) /\ Len(y) = b /\ Count(y, "text") = b /\ Count(y, "call") = 0
      /\ \A n \in 1..b : y[n] = "text"
  <2>1. Repeats(y, "text", b)
    BY <1>2 DEF Repeats
  <2>2. y \in Seq({"text"}) /\ Len(y) = b /\ (\A n \in 1..b : y[n] = "text") /\ \A i : Count(y, i) = IF i = "text" THEN b ELSE 0
    BY <2>1, CountRepeated
  <2> QED
    BY <2>2
<1>6. /\ z \in Seq(S) /\ Len(z) = c /\ Count(z, "text") = 0 /\ Count(z, "call") = c
      /\ \A n \in 1..c : z[n] = "call"
  <2>1. Repeats(z, "call", c)
    BY <1>3 DEF Repeats
  <2>2. z \in Seq({"call"}) /\ Len(z) = c /\ (\A n \in 1..c : z[n] = "call") /\ \A i : Count(z, i) = IF i = "call" THEN c ELSE 0
    BY <2>1, CountRepeated
  <2> QED
    BY <2>2
<1>7. PICK v : v = x \o y
  OBVIOUS
<1>8. w = v \o z
  BY <1>1, <1>2, <1>3, <1>7 DEF Thirds
<1> HIDE DEF S
<1>9. v \in Seq(S) /\ Joined(x, y, v) /\ Count(v, "text") = 0 + b /\ Count(v, "call") = 0 + 0
  <2>1. v \in Seq(S) /\ Joined(x, y, v)
    BY <1>4, <1>5, <1>7, JoinedIs
  <2>2. \A i : Count(v, i) = Count(x, i) + Count(y, i)
    BY <1>4, <1>5, <1>7, CountJoined
  <2> QED
    BY <1>4, <1>5, <2>1, <2>2
<1>10. Joined(v, z, w) /\ Count(w, "text") = b /\ Count(w, "call") = c
  <2>1. Joined(v, z, w)
    BY <1>6, <1>8, <1>9, JoinedIs
  <2>2. \A i : Count(w, i) = Count(v, i) + Count(z, i)
    <3>1. PICK u : u = v \o z
      OBVIOUS
    <3>2. \A i : Count(u, i) = Count(v, i) + Count(z, i)
      BY <1>6, <1>9, <3>1, CountJoined
    <3> QED
      BY <1>8, <3>1, <3>2
  <2>3. Count(w, "text") = b /\ Count(w, "call") = c
    BY <1>6, <1>9, <2>2
  <2> QED
    BY <2>1, <2>3
<1>11. /\ DOMAIN w = 1..a + b + c
       /\ \A n \in 1..a : w[n] = "reasoning"
       /\ \A n \in a + 1..a + b : w[n] = "text"
       /\ \A n \in a + b + 1..a + b + c : w[n] = "call"
  <2>1. Len(v) = a + b /\ DOMAIN w = 1..a + b + c
    BY <1>4, <1>5, <1>6, <1>9, <1>10 DEF Joined
  <2>2. \A n \in 1..a + b : w[n] = v[n]
    BY <1>10, <2>1 DEF Joined
  <2>3. \A n \in 1..a : v[n] = "reasoning"
    BY <1>4, <1>9 DEF Joined
  <2>4. \A n \in a + 1..a + b : v[n] = "text"
    BY <1>4, <1>5, <1>9 DEF Joined
  <2>5. \A n \in a + b + 1..a + b + c : w[n] = "call"
    BY <1>6, <1>10, <2>1 DEF Joined
  <2>6. \A n \in 1..a : n \in 1..a + b
    OBVIOUS
  <2>7. \A n \in a + 1..a + b : n \in 1..a + b
    OBVIOUS
  <2> QED
    BY <2>1, <2>2, <2>3, <2>4, <2>5, <2>6, <2>7
<1>12. ASSUME NEW n \in DOMAIN w, NEW k \in 1..n
       PROVE  /\ w[n] = "reasoning" => w[k] = "reasoning"
              /\ w[k] = "call" => w[n] = "call"
  <2>1. n \in 1..a \/ n \in a + 1..a + b \/ n \in a + b + 1..a + b + c
    BY <1>11
  <2>2. k \in 1..a \/ k \in a + 1..a + b \/ k \in a + b + 1..a + b + c
    BY <1>11
  <2>3. n \in 1..a => k \in 1..a
    BY <1>11
  <2>4. k \in a + b + 1..a + b + c => n \in a + b + 1..a + b + c
    BY <1>11
  <2> QED
    BY <1>11, <2>1, <2>2, <2>3, <2>4
<1> QED
  BY <1>10, <1>12

LEMMA OrderKeeps == ASSUME AsmInv PROVE CanonicalOrder
<1> SUFFICES ASSUME Completed PROVE CanonicalOrder
  BY DEF CanonicalOrder
<1>0. AsmTypes /\ BlockInv /\ Sound
  BY DEF AsmInv, Completed, Sound
<1>1. PICK a \in Nat : DOMAIN Thinking = 1..a
  <2>1. reasoning \in Seq(Blocks)
    BY <1>0 DEF AsmTypes
  <2>2. DOMAIN reasoning = 1..Len(reasoning) /\ Len(reasoning) \in Nat
    BY <2>1
  <2>3. DOMAIN <<Block("delta", thoughts)>> = 1..1
    OBVIOUS
  <2> QED
    BY <2>2, <2>3 DEF Thinking
<1>2. PICK b \in Nat : b = Count(fed, "text")
  <2>1. fed \in Seq(Carried)
    BY <1>0 DEF AsmTypes, Carried
  <2> QED
    BY <2>1, CountIs
<1>3. calls \in Nat /\ calls = Count(fed, "call")
  BY <1>0 DEF AsmTypes, BlockInv
<1>4. PICK w : w = Choice
  OBVIOUS
<1>5. Thirds(w, a, b, calls)
  BY <1>1, <1>2, <1>4 DEF Choice, Texts, Thirds
<1>6. /\ Count(w, "text") = b /\ Count(w, "call") = calls
      /\ \A n \in DOMAIN w : \A k \in 1..n :
           /\ w[n] = "reasoning" => w[k] = "reasoning"
           /\ w[k] = "call" => w[n] = "call"
  BY <1>3, <1>5, ThirdsInOrder
<1> QED
  BY <1>2, <1>3, <1>4, <1>6, Zenon DEF CanonicalOrder

LEMMA AsmKeeps == AsmInv => TurnIsFaithful
BY DriversKeep, TruncationKeeps, ArgumentsKeep, ReasoningKeeps, OrderKeeps DEF TurnIsFaithful

-----------------------------------------------------------------------------
(* The engine: one part runs, the others rest *)

EngineInv == FlowInv /\ HearInv /\ BatchInv /\ AsmInv

LEMMA LoopRests == ASSUME FlowInv, HearInv, UNCHANGED loopVars PROVE FlowInv' /\ HearInv'
<1>1. /\ UNCHANGED <<at, queue, sent, journal, turn, defects, failures>>
      /\ UNCHANGED <<pending, stopping, used, slot, told, said>>
  BY DEF loopVars
<1>2. FlowInv'
  BY <1>1 DEF FlowInv, FlowTypes, StreakInv, PlaceInv
<1>3. HearInv'
  BY <1>1 DEF HearInv, BookInv, SteerInv, TurnInv
<1> QED
  BY <1>2, <1>3

LEMMA BatchRests == ASSUME BatchInv, UNCHANGED batchVars PROVE BatchInv'
<1>1. /\ UNCHANGED <<width, offered, chain, args, inner, frames, rewrote>>
      /\ UNCHANGED <<ran, view, stops, stop, batch>>
  BY DEF batchVars
<1>2. CallTypes' /\ StopInv'
  BY <1>1 DEF BatchInv, CallTypes, StopInv
<1>3. \A c \in Batch : CallInv(c)'
  BY <1>1 DEF BatchInv, CallInv
<1>4. WidthInv'
  BY <1>1 DEF BatchInv, WidthInv, InFlight
<1> QED
  BY <1>2, <1>3, <1>4 DEF BatchInv

LEMMA EngineStarts == Init => EngineInv
<1> SUFFICES ASSUME Init PROVE EngineInv
  OBVIOUS
<1>1. LoopInit /\ BatchInit /\ AsmInit
  BY Zenon DEF Init
<1> QED
  BY <1>1, FlowStarts, HearStarts, BatchStarts, AsmStarts DEF EngineInv

LEMMA EngineMoves == ASSUME EngineInv, [Next]_allVars PROVE EngineInv'
<1>0. FlowInv /\ HearInv /\ BatchInv /\ AsmInv /\ queue \in Seq(Nat)
  BY DEF EngineInv, HearInv, SteerInv
<1>1. CASE Only("loop") /\ LoopNext
  <2>1. UNCHANGED batchVars /\ UNCHANGED asmVars /\ LoopNext
    BY <1>1 DEF Only
  <2>2. FlowInv' /\ HearInv'
    BY <1>0, <2>1, FlowMoves, HearMoves
  <2>3. BatchInv' /\ AsmInv'
    BY <1>0, <2>1, BatchRests, AsmRests
  <2> QED
    BY <2>2, <2>3 DEF EngineInv
<1>2. CASE Only("batch") /\ BatchNext
  <2>1. UNCHANGED loopVars /\ UNCHANGED asmVars /\ BatchNext
    BY <1>2 DEF Only
  <2>2. FlowInv' /\ HearInv' /\ AsmInv'
    BY <1>0, <2>1, LoopRests, AsmRests
  <2>3. BatchInv'
    BY <1>0, <2>1, BatchMoves
  <2> QED
    BY <2>2, <2>3 DEF EngineInv
<1>3. CASE Only("turn") /\ AsmNext
  <2>1. UNCHANGED loopVars /\ UNCHANGED batchVars /\ AsmNext
    BY <1>3 DEF Only
  <2>2. FlowInv' /\ HearInv' /\ BatchInv'
    BY <1>0, <2>1, LoopRests, BatchRests
  <2>3. AsmInv'
    BY <1>0, <2>1, AsmMoves
  <2> QED
    BY <2>2, <2>3 DEF EngineInv
<1>4. CASE UNCHANGED <<loopVars, batchVars, asmVars>>
  <2>1. UNCHANGED loopVars /\ UNCHANGED batchVars /\ UNCHANGED asmVars
    BY <1>4, Zenon
  <2> QED
    BY <1>0, <2>1, LoopRests, BatchRests, AsmRests DEF EngineInv
<1>5. ASSUME NEW m, m # "loop", m # "batch", m # "turn", Only(m) PROVE UNCHANGED <<loopVars, batchVars, asmVars>>
  <2>1. UNCHANGED loopVars /\ UNCHANGED batchVars /\ UNCHANGED asmVars
    BY <1>5, Zenon DEF Only
  <2> QED
    BY <2>1, Zenon
<1>6. CASE Next
  <2>1. \/ Only("loop") /\ LoopNext
        \/ Only("batch") /\ BatchNext
        \/ Only("turn") /\ AsmNext
        \/ Only("registry") \/ Only("hooks") \/ Only("request") \/ Only("parts") \/ Only("chat")
        \/ Only("messages") \/ Only("responses") \/ Only("history") \/ Only("shape")
    BY <1>6, Zenon DEF Next
  <2> QED
    BY <1>1, <1>2, <1>3, <1>4, <1>5, <2>1
<1>7. CASE UNCHANGED allVars
  <2>1. UNCHANGED <<loopVars, batchVars, asmVars>>
    BY <1>7, Zenon DEF allVars
  <2> QED
    BY <1>4, <2>1
<1> QED
  BY <1>6, <1>7

\* An agent run is accountable, whatever its caps and whatever is queued, however its calls
\* fail and wherever its owner drops it (agent/drive.rs drive_agent).
THEOREM RunsAreAccountable == Spec => []RunIsAccountable
<1>1. EngineInv => RunIsAccountable
  BY LoopKeeps DEF EngineInv, RunIsAccountable
<1> QED
  BY <1>1, EngineStarts, EngineMoves, PTL DEF Spec

\* A batch of any size, at any concurrency and in any order of its chains, is whole
\* (agent/drive.rs drive_tool_calls, agent/runner.rs run_single_tool).
THEOREM BatchesAreWhole == Spec => []BatchIsWhole
<1>1. EngineInv => BatchIsWhole
  BY BatchKeeps DEF EngineInv
<1> QED
  BY <1>1, EngineStarts, EngineMoves, PTL DEF Spec

\* Both drivers assemble the same turn of any stream of any length: no cut stream is a
\* turn, no argument is lost, signed reasoning stays apart and the order is canonical
\* (agent/run/streamed.rs, agent/turn.rs consume_completion_stream).
THEOREM TurnsAreFaithful == Spec => []TurnIsFaithful
<1>1. EngineInv => TurnIsFaithful
  BY AsmKeeps DEF EngineInv
<1> QED
  BY <1>1, EngineStarts, EngineMoves, PTL DEF Spec
=============================================================================
