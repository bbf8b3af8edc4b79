----------------------------- MODULE TasksProofs -----------------------------
(***************************************************************************)
(* Proofs about what runs on tasks of its own: the stdio edge loses and    *)
(* reorders nothing, the catalog has one refresher and merges only what it *)
(* verified, an extension that dies takes only its own items with it, the  *)
(* host of the sessions answers every command and keeps catalog, world and *)
(* keys in step, the lock helper never deadlocks nor blames falsely, and   *)
(* the compaction box cuts between exchanges and tells what it did, for    *)
(* any number of processes, extensions, items, lines, events, threads,     *)
(* sessions, commands, tasks, entries and passes.                          *)
(***************************************************************************)
EXTENDS MCTasks, SequenceTheorems, FiniteSetTheorems, WellFoundedInduction, TLAPS

-----------------------------------------------------------------------------
(* Frames in a pipe                                                        *)

FrameKinds == {"event", "error"}
EdgeFrame == [kind : FrameKinds, n : Nat]
Numbered(kind, frames) == Edge!Numbers(kind, frames)

\* Of either kind a later frame has a larger number, in one queue and across two.
Rising(s) == \A i, j \in DOMAIN s : i < j /\ s[i].kind = s[j].kind => s[i].n < s[j].n
Precedes(s, t) ==
  \A kind \in FrameKinds : \A m \in Numbered(kind, s) : \A n \in Numbered(kind, t) : m < n

LEMMA NumberedIs ==
  \A s, kind, n : n \in Numbered(kind, s) <=> \E i \in DOMAIN s : s[i].kind = kind /\ s[i].n = n
BY Zenon DEF Numbered, Edge!Numbers

LEMMA NumberedEmpty == \A kind : Numbered(kind, <<>>) = {}
<1> SUFFICES ASSUME NEW kind, NEW n \in Numbered(kind, <<>>) PROVE FALSE
  OBVIOUS
<1>1. PICK i \in DOMAIN <<>> : TRUE
  BY NumberedIs
<1> QED
  BY <1>1

LEMMA NumberedAreNat ==
  ASSUME NEW s \in Seq(EdgeFrame), NEW kind
  PROVE  Numbered(kind, s) \subseteq Nat
<1> SUFFICES ASSUME NEW n \in Numbered(kind, s) PROVE n \in Nat
  OBVIOUS
<1>1. PICK i \in DOMAIN s : s[i].n = n
  BY NumberedIs
<1>2. s[i] \in EdgeFrame
  OBVIOUS
<1> QED
  BY <1>1, <1>2 DEF EdgeFrame

LEMMA AppendFrame ==
  ASSUME NEW s \in Seq(EdgeFrame), NEW f \in EdgeFrame
  PROVE  /\ Append(s, f) \in Seq(EdgeFrame) /\ Len(Append(s, f)) = Len(s) + 1
         /\ \A kind : Numbered(kind, Append(s, f)) = Numbered(kind, s) \cup (IF f.kind = kind THEN {f.n} ELSE {})
         /\ Rising(s) /\ (\A n \in Numbered(f.kind, s) : n < f.n) => Rising(Append(s, f))
<1> DEFINE t == Append(s, f)
<1>1. /\ t \in Seq(EdgeFrame) /\ Len(t) = Len(s) + 1 /\ Len(s) \in Nat
      /\ DOMAIN s = 1..Len(s) /\ DOMAIN t = 1..Len(s) + 1
      /\ t[Len(s) + 1] = f /\ \A i \in 1..Len(s) : t[i] = s[i]
  OBVIOUS
<1> HIDE DEF t
<1>2. ASSUME NEW kind, NEW n
      PROVE  n \in Numbered(kind, t) <=> n \in Numbered(kind, s) \cup (IF f.kind = kind THEN {f.n} ELSE {})
  <2>1. n \in Numbered(kind, t) <=> \E i \in DOMAIN t : t[i].kind = kind /\ t[i].n = n
    BY NumberedIs
  <2>2. n \in Numbered(kind, s) <=> \E i \in DOMAIN s : s[i].kind = kind /\ s[i].n = n
    BY NumberedIs
  <2> QED
    BY <1>1, <2>1, <2>2
<1>3. ASSUME Rising(s), \A n \in Numbered(f.kind, s) : n < f.n PROVE Rising(t)
  <2>1. \A i \in DOMAIN s : s[i].kind = f.kind => s[i].n \in Numbered(f.kind, s)
    BY NumberedIs
  <2> QED
    BY <1>1, <1>3, <2>1 DEF Rising
<1> QED
  BY <1>1, <1>2, <1>3 DEF t

LEMMA TakeFrame ==
  ASSUME NEW s \in Seq(EdgeFrame), s # <<>>
  PROVE  /\ Head(s) \in EdgeFrame /\ Tail(s) \in Seq(EdgeFrame) /\ Len(s) = Len(Tail(s)) + 1
         /\ \A kind : Numbered(kind, s) = Numbered(kind, Tail(s)) \cup (IF Head(s).kind = kind THEN {Head(s).n} ELSE {})
         /\ Rising(s) => Rising(Tail(s)) /\ \A n \in Numbered(Head(s).kind, Tail(s)) : Head(s).n < n
<1> DEFINE t == Tail(s)
           f == Head(s)
<1>1. /\ t \in Seq(EdgeFrame) /\ Len(s) = Len(t) + 1 /\ Len(t) \in Nat
      /\ DOMAIN t = 1..Len(t) /\ DOMAIN s = 1..Len(t) + 1
      /\ f \in EdgeFrame /\ s[1] = f /\ \A i \in 1..Len(t) : t[i] = s[i + 1]
  OBVIOUS
<1> HIDE DEF t, f
<1>2. ASSUME NEW kind, NEW n
      PROVE  n \in Numbered(kind, s) <=> n \in Numbered(kind, t) \cup (IF f.kind = kind THEN {f.n} ELSE {})
  <2>1. n \in Numbered(kind, t) <=> \E i \in DOMAIN t : t[i].kind = kind /\ t[i].n = n
    BY NumberedIs
  <2>2. n \in Numbered(kind, s) <=> \E i \in DOMAIN s : s[i].kind = kind /\ s[i].n = n
    BY NumberedIs
  <2>3. n \in Numbered(kind, t) => n \in Numbered(kind, s)
    BY <1>1, <2>1, <2>2
  <2>4. f.kind = kind /\ f.n = n => n \in Numbered(kind, s)
    BY <1>1, <2>2
  <2>5. ASSUME NEW i \in DOMAIN s, s[i].kind = kind, s[i].n = n
        PROVE  n \in Numbered(kind, t) \/ (f.kind = kind /\ f.n = n)
    <3>1. CASE i = 1
      BY <1>1, <2>5, <3>1
    <3>2. CASE i # 1
      <4>1. i - 1 \in DOMAIN t /\ t[i - 1] = s[i]
        BY <1>1, <3>2
      <4> QED
        BY <2>1, <2>5, <4>1
    <3> QED
      BY <3>1, <3>2
  <2> QED
    BY <2>2, <2>3, <2>4, <2>5
<1>3. ASSUME Rising(s) PROVE Rising(t) /\ \A n \in Numbered(f.kind, t) : f.n < n
  <2>1. Rising(t)
    BY <1>1, <1>3 DEF Rising
  <2>2. ASSUME NEW n \in Numbered(f.kind, t) PROVE f.n < n
    <3>1. PICK i \in DOMAIN t : t[i].kind = f.kind /\ t[i].n = n
      BY NumberedIs, <2>2
    <3>2. 1 \in DOMAIN s /\ i + 1 \in DOMAIN s /\ 1 < i + 1 /\ s[i + 1] = t[i] /\ s[1] = f
      BY <1>1
    <3>3. s[1].kind = s[i + 1].kind => s[1].n < s[i + 1].n
      BY <1>3, <3>2 DEF Rising
    <3> QED
      BY <3>1, <3>2, <3>3
  <2> QED
    BY <2>1, <2>2
<1> QED
  BY <1>1, <1>2, <1>3 DEF t, f

LEMMA PourFrames ==
  ASSUME NEW s \in Seq(EdgeFrame), NEW r \in Seq(EdgeFrame)
  PROVE  /\ s \o r \in Seq(EdgeFrame) /\ Len(s \o r) = Len(s) + Len(r)
         /\ \A kind : Numbered(kind, s \o r) = Numbered(kind, s) \cup Numbered(kind, r)
         /\ Rising(s) /\ Rising(r) /\ Precedes(s, r) => Rising(s \o r)
<1> DEFINE t == s \o r
<1>1. /\ t \in Seq(EdgeFrame) /\ Len(t) = Len(s) + Len(r) /\ Len(s) \in Nat /\ Len(r) \in Nat
      /\ DOMAIN s = 1..Len(s) /\ DOMAIN r = 1..Len(r) /\ DOMAIN t = 1..Len(s) + Len(r)
      /\ \A i \in 1..Len(s) : t[i] = s[i]
      /\ \A i \in Len(s) + 1..Len(s) + Len(r) : t[i] = r[i - Len(s)]
  OBVIOUS
<1> HIDE DEF t
<1>2. /\ \A i \in DOMAIN r : Len(s) + i \in DOMAIN t /\ t[Len(s) + i] = r[i]
      /\ \A i \in DOMAIN t : \/ i \in DOMAIN s /\ t[i] = s[i]
                             \/ i - Len(s) \in DOMAIN r /\ i > Len(s) /\ t[i] = r[i - Len(s)]
  <2>1. ASSUME NEW i \in DOMAIN r PROVE Len(s) + i \in DOMAIN t /\ t[Len(s) + i] = r[i]
    <3>1. Len(s) + i \in Len(s) + 1..Len(s) + Len(r) /\ (Len(s) + i) - Len(s) = i
      BY <1>1
    <3>2. t[Len(s) + i] = r[(Len(s) + i) - Len(s)]
      BY <1>1, <3>1
    <3> QED
      BY <1>1, <3>1, <3>2
  <2>2. ASSUME NEW i \in DOMAIN t
        PROVE  \/ i \in DOMAIN s /\ t[i] = s[i]
               \/ i - Len(s) \in DOMAIN r /\ i > Len(s) /\ t[i] = r[i - Len(s)]
    BY <1>1
  <2> QED
    BY <2>1, <2>2
<1>3. ASSUME NEW kind, NEW n
      PROVE  n \in Numbered(kind, t) <=> n \in Numbered(kind, s) \cup Numbered(kind, r)
  <2>1. n \in Numbered(kind, t) <=> \E i \in DOMAIN t : t[i].kind = kind /\ t[i].n = n
    BY NumberedIs
  <2>2. n \in Numbered(kind, s) <=> \E i \in DOMAIN s : s[i].kind = kind /\ s[i].n = n
    BY NumberedIs
  <2>3. n \in Numbered(kind, r) <=> \E i \in DOMAIN r : r[i].kind = kind /\ r[i].n = n
    BY NumberedIs
  <2>4. n \in Numbered(kind, s) => n \in Numbered(kind, t)
    BY <1>1, <2>1, <2>2
  <2>5. n \in Numbered(kind, r) => n \in Numbered(kind, t)
    BY <1>2, <2>1, <2>3
  <2>6. n \in Numbered(kind, t) => n \in Numbered(kind, s) \/ n \in Numbered(kind, r)
    BY <1>2, <2>1, <2>2, <2>3
  <2> QED
    BY <2>4, <2>5, <2>6
<1>4. ASSUME Rising(s), Rising(r), Precedes(s, r) PROVE Rising(t)
  <2> SUFFICES ASSUME NEW i \in DOMAIN t, NEW j \in DOMAIN t, i < j, t[i].kind = t[j].kind
               PROVE  t[i].n < t[j].n
    BY DEF Rising
  <2>1. CASE j \in DOMAIN s
    BY <1>1, <1>4, <2>1 DEF Rising
  <2>2. CASE i - Len(s) \in DOMAIN r /\ i > Len(s)
    <3>1. i \in Int /\ j \in Int /\ j > Len(s)
      BY <1>1, <2>2
    <3>2. j - Len(s) \in DOMAIN r /\ t[j] = r[j - Len(s)] /\ t[i] = r[i - Len(s)]
      BY <1>1, <1>2, <2>2, <3>1
    <3>3. i - Len(s) < j - Len(s)
      BY <1>1, <3>1
    <3> QED
      BY <1>4, <2>2, <3>2, <3>3 DEF Rising
  <2>3. CASE i \in DOMAIN s /\ j - Len(s) \in DOMAIN r /\ j > Len(s)
    <3>1. t[i] = s[i] /\ t[j] = r[j - Len(s)] /\ s[i].kind = r[j - Len(s)].kind
      BY <1>1, <2>3
    <3>2. s[i].n \in Numbered(s[i].kind, s) /\ r[j - Len(s)].n \in Numbered(s[i].kind, r)
      BY <2>3, <3>1, NumberedIs, Zenon
    <3>3. s[i] \in EdgeFrame
      BY <2>3
    <3>4. s[i].kind \in FrameKinds
      BY <3>3 DEF EdgeFrame
    <3> QED
      BY <1>4, <3>1, <3>2, <3>4 DEF Precedes
  <2> QED
    BY <1>1, <1>2, <2>1, <2>2, <2>3
<1> QED
  BY <1>1, <1>3, <1>4 DEF t

-----------------------------------------------------------------------------
(* The stdio edge                                                          *)

\* What the three queues hold together while the writer runs.
Pipe(o, f, s, m, e) ==
  /\ Rising(o) /\ Rising(f) /\ Rising(s)
  /\ Precedes(o, f) /\ Precedes(o, s) /\ Precedes(f, s) /\ Numbered("error", s) = {}
  /\ Numbered("event", o) \cup Numbered("event", f) \cup Numbered("event", s) = 1..m
  /\ Numbered("error", o) \cup Numbered("error", f) = 1..e
  /\ Len(o) + Len(f) + Len(s) = m + e
Unbroken(o) ==
  Rising(o) /\ \A kind \in FrameKinds : \A n \in Numbered(kind, o) : 1..n \subseteq Numbered(kind, o)

EdgeInv ==
  /\ {stream, feed, out} \subseteq Seq(EdgeFrame) /\ {emitted, errors} \subseteq Nat
  /\ printer = "runs" => Pipe(out, feed, stream, emitted, errors)
  /\ Unbroken(out)

LEMMA PipeEmits ==
  ASSUME NEW o \in Seq(EdgeFrame), NEW f \in Seq(EdgeFrame), NEW s \in Seq(EdgeFrame),
         NEW m \in Nat, NEW e \in Nat, Pipe(o, f, s, m, e)
  PROVE  LET t == Append(s, [kind |-> "event", n |-> m + 1])
         IN t \in Seq(EdgeFrame) /\ Pipe(o, f, t, m + 1, e)
<1> DEFINE ev == [kind |-> "event", n |-> m + 1]
           t == Append(s, ev)
<1>1. ev \in EdgeFrame /\ ev.kind = "event" /\ ev.n = m + 1
  BY DEF EdgeFrame, FrameKinds
<1> HIDE DEF ev
<1>2. /\ t \in Seq(EdgeFrame) /\ Len(t) = Len(s) + 1
      /\ \A kind : Numbered(kind, t) = Numbered(kind, s) \cup (IF ev.kind = kind THEN {ev.n} ELSE {})
      /\ Rising(s) /\ (\A n \in Numbered(ev.kind, s) : n < ev.n) => Rising(t)
  BY <1>1, AppendFrame
<1> HIDE DEF t
<1>3. /\ Numbered("event", t) = Numbered("event", s) \cup {m + 1}
      /\ Numbered("error", t) = Numbered("error", s)
  BY <1>1, <1>2
<1>4. \A n \in Numbered("event", o) \cup Numbered("event", f) \cup Numbered("event", s) : n < m + 1
  BY DEF Pipe
<1>5. Rising(t)
  BY <1>1, <1>2, <1>4 DEF Pipe
<1>6. Precedes(o, t) /\ Precedes(f, t)
  BY <1>3, <1>4 DEF Pipe, Precedes, FrameKinds
<1>7. Numbered("event", o) \cup Numbered("event", f) \cup Numbered("event", t) = 1..m + 1
  BY <1>3 DEF Pipe
<1>8. Len(o) + Len(f) + Len(t) = (m + 1) + e
  <2>1. Len(t) = Len(s) + 1 /\ Len(o) + Len(f) + Len(s) = m + e
    BY <1>2 DEF Pipe
  <2>2. Len(o) \in Nat /\ Len(f) \in Nat /\ Len(s) \in Nat
    OBVIOUS
  <2> QED
    BY <2>1, <2>2
<1>9. Pipe(o, f, t, m + 1, e)
  BY <1>3, <1>5, <1>6, <1>7, <1>8 DEF Pipe
<1> QED
  BY <1>2, <1>9 DEF t, ev

LEMMA PipeRefuses ==
  ASSUME NEW o \in Seq(EdgeFrame), NEW f \in Seq(EdgeFrame), NEW s \in Seq(EdgeFrame),
         NEW m \in Nat, NEW e \in Nat, Pipe(o, f, s, m, e)
  PROVE  LET t == Append(f, [kind |-> "error", n |-> e + 1])
         IN t \in Seq(EdgeFrame) /\ Pipe(o, t, s, m, e + 1)
<1> DEFINE er == [kind |-> "error", n |-> e + 1]
           t == Append(f, er)
<1>1. er \in EdgeFrame /\ er.kind = "error" /\ er.n = e + 1
  BY DEF EdgeFrame, FrameKinds
<1> HIDE DEF er
<1>2. /\ t \in Seq(EdgeFrame) /\ Len(t) = Len(f) + 1
      /\ \A kind : Numbered(kind, t) = Numbered(kind, f) \cup (IF er.kind = kind THEN {er.n} ELSE {})
      /\ Rising(f) /\ (\A n \in Numbered(er.kind, f) : n < er.n) => Rising(t)
  BY <1>1, AppendFrame
<1> HIDE DEF t
<1>3. /\ Numbered("error", t) = Numbered("error", f) \cup {e + 1}
      /\ Numbered("event", t) = Numbered("event", f)
  BY <1>1, <1>2
<1>4. \A n \in Numbered("error", o) \cup Numbered("error", f) : n < e + 1
  BY DEF Pipe
<1>5. Rising(t)
  BY <1>1, <1>2, <1>4 DEF Pipe
<1>6. Precedes(o, t) /\ Precedes(t, s)
  BY <1>3, <1>4 DEF Pipe, Precedes, FrameKinds
<1>7. Numbered("error", o) \cup Numbered("error", t) = 1..e + 1
  BY <1>3 DEF Pipe
<1>8. Len(o) + Len(t) + Len(s) = m + (e + 1)
  <2>1. Len(t) = Len(f) + 1 /\ Len(o) + Len(f) + Len(s) = m + e
    BY <1>2 DEF Pipe
  <2>2. Len(o) \in Nat /\ Len(f) \in Nat /\ Len(s) \in Nat
    OBVIOUS
  <2>3. \A a, b, c, d \in Nat : a + b + c = d + e => a + (b + 1) + c = d + (e + 1)
    OBVIOUS
  <2> QED
    BY <2>1, <2>2, <2>3
<1>9. Pipe(o, t, s, m, e + 1)
  BY <1>3, <1>5, <1>6, <1>7, <1>8 DEF Pipe
<1> QED
  BY <1>2, <1>9 DEF t, er

\* The two hands on the way, one frame at a time or all that is left.
LEMMA PipeForwards ==
  ASSUME NEW o \in Seq(EdgeFrame), NEW f \in Seq(EdgeFrame), NEW s \in Seq(EdgeFrame),
         NEW m \in Nat, NEW e \in Nat, Pipe(o, f, s, m, e)
  PROVE  /\ s # <<>> => /\ Append(f, Head(s)) \in Seq(EdgeFrame) /\ Tail(s) \in Seq(EdgeFrame)
                        /\ Pipe(o, Append(f, Head(s)), Tail(s), m, e)
         /\ f \o s \in Seq(EdgeFrame) /\ Pipe(o, f \o s, <<>>, m, e)
<1>1. ASSUME s # <<>>
      PROVE  /\ Append(f, Head(s)) \in Seq(EdgeFrame) /\ Tail(s) \in Seq(EdgeFrame)
             /\ Pipe(o, Append(f, Head(s)), Tail(s), m, e)
  <2> DEFINE h == Head(s)
             r == Tail(s)
             t == Append(f, h)
  <2>1. /\ h \in EdgeFrame /\ r \in Seq(EdgeFrame) /\ Len(s) = Len(r) + 1
        /\ \A kind : Numbered(kind, s) = Numbered(kind, r) \cup (IF h.kind = kind THEN {h.n} ELSE {})
        /\ Rising(r) /\ \A n \in Numbered(h.kind, r) : h.n < n
    BY <1>1, TakeFrame DEF Pipe
  <2> HIDE DEF h, r
  <2>2. /\ t \in Seq(EdgeFrame) /\ Len(t) = Len(f) + 1
        /\ \A kind : Numbered(kind, t) = Numbered(kind, f) \cup (IF h.kind = kind THEN {h.n} ELSE {})
        /\ Rising(f) /\ (\A n \in Numbered(h.kind, f) : n < h.n) => Rising(t)
    BY <2>1, AppendFrame
  <2> HIDE DEF t
  <2>3. h.kind \in FrameKinds /\ h.kind = "event"
    BY <2>1 DEF Pipe, EdgeFrame, FrameKinds
  <2>4. /\ Numbered("event", s) = Numbered("event", r) \cup {h.n}
        /\ Numbered("error", s) = Numbered("error", r)
        /\ Numbered("event", t) = Numbered("event", f) \cup {h.n}
        /\ Numbered("error", t) = Numbered("error", f)
    BY <2>1, <2>2, <2>3
  <2>5. Rising(t)
    BY <2>2, <2>3, <2>4 DEF Pipe, Precedes, FrameKinds
  <2>6. Precedes(o, t) /\ Precedes(o, r) /\ Precedes(t, r)
    BY <2>1, <2>3, <2>4 DEF Pipe, Precedes, FrameKinds
  <2>7. Numbered("event", o) \cup Numbered("event", t) \cup Numbered("event", r) = 1..m
    BY <2>4 DEF Pipe
  <2>8. Len(o) + Len(t) + Len(r) = m + e /\ Numbered("error", r) = {}
        /\ Numbered("error", o) \cup Numbered("error", t) = 1..e
    BY <2>1, <2>2, <2>4 DEF Pipe
  <2> QED
    BY <2>1, <2>2, <2>5, <2>6, <2>7, <2>8 DEF Pipe, t, h, r
<1>2. f \o s \in Seq(EdgeFrame) /\ Pipe(o, f \o s, <<>>, m, e)
  <2> DEFINE t == f \o s
  <2>1. /\ t \in Seq(EdgeFrame) /\ Len(t) = Len(f) + Len(s) /\ Rising(t)
        /\ \A kind : Numbered(kind, t) = Numbered(kind, f) \cup Numbered(kind, s)
    BY PourFrames DEF Pipe
  <2> HIDE DEF t
  <2>2. \A kind : Numbered(kind, <<>>) = {}
    BY NumberedEmpty
  <2>3. Precedes(o, t) /\ Precedes(o, <<>>) /\ Precedes(t, <<>>) /\ Rising(<<>>)
    BY <2>1, <2>2 DEF Pipe, Precedes, Rising
  <2>4. Len(o) + Len(t) + Len(<<>>) = m + e
    BY <2>1 DEF Pipe
  <2> QED
    BY <2>1, <2>2, <2>3, <2>4 DEF Pipe, t
<1> QED
  BY <1>1, <1>2

LEMMA PipeWrites ==
  ASSUME NEW o \in Seq(EdgeFrame), NEW f \in Seq(EdgeFrame), NEW s \in Seq(EdgeFrame),
         NEW m \in Nat, NEW e \in Nat, Pipe(o, f, s, m, e)
  PROVE  /\ f # <<>> => /\ Append(o, Head(f)) \in Seq(EdgeFrame) /\ Tail(f) \in Seq(EdgeFrame)
                        /\ Pipe(Append(o, Head(f)), Tail(f), s, m, e)
         /\ o \o f \in Seq(EdgeFrame) /\ Pipe(o \o f, <<>>, s, m, e)
<1>1. ASSUME f # <<>>
      PROVE  /\ Append(o, Head(f)) \in Seq(EdgeFrame) /\ Tail(f) \in Seq(EdgeFrame)
             /\ Pipe(Append(o, Head(f)), Tail(f), s, m, e)
  <2> DEFINE h == Head(f)
             r == Tail(f)
             t == Append(o, h)
  <2>1. /\ h \in EdgeFrame /\ r \in Seq(EdgeFrame) /\ Len(f) = Len(r) + 1
        /\ \A kind : Numbered(kind, f) = Numbered(kind, r) \cup (IF h.kind = kind THEN {h.n} ELSE {})
        /\ Rising(r) /\ \A n \in Numbered(h.kind, r) : h.n < n
    BY <1>1, TakeFrame DEF Pipe
  <2> HIDE DEF h, r
  <2>2. /\ t \in Seq(EdgeFrame) /\ Len(t) = Len(o) + 1
        /\ \A kind : Numbered(kind, t) = Numbered(kind, o) \cup (IF h.kind = kind THEN {h.n} ELSE {})
        /\ Rising(o) /\ (\A n \in Numbered(h.kind, o) : n < h.n) => Rising(t)
    BY <2>1, AppendFrame
  <2> HIDE DEF t
  <2>3. h.kind \in FrameKinds
    BY <2>1 DEF EdgeFrame
  <2>4. h.n \in Numbered(h.kind, f) /\ \A kind : Numbered(kind, r) \subseteq Numbered(kind, f)
    BY <2>1
  <2>5. Rising(t)
    BY <2>2, <2>3, <2>4 DEF Pipe, Precedes
  <2>6. Precedes(t, r) /\ Precedes(t, s) /\ Precedes(r, s)
    <3>1. ASSUME NEW kind, NEW i \in Numbered(kind, t)
          PROVE  i \in Numbered(kind, o) \/ (kind = h.kind /\ i = h.n)
      BY <2>2
    <3>2. Precedes(t, r)
      BY <2>1, <2>4, <3>1 DEF Pipe, Precedes
    <3>3. Precedes(t, s)
      BY <2>4, <3>1 DEF Pipe, Precedes
    <3>4. Precedes(r, s)
      BY <2>4 DEF Pipe, Precedes
    <3> QED
      BY <3>2, <3>3, <3>4
  <2>7. \A kind : Numbered(kind, t) \cup Numbered(kind, r) = Numbered(kind, o) \cup Numbered(kind, f)
    BY <2>1, <2>2
  <2>8. Len(t) + Len(r) + Len(s) = m + e
    <3>1. Len(o) \in Nat /\ Len(r) \in Nat /\ Len(s) \in Nat /\ Len(o) + Len(f) + Len(s) = m + e
      BY <2>1 DEF Pipe
    <3>2. Len(t) = Len(o) + 1 /\ Len(f) = Len(r) + 1
      BY <2>1, <2>2
    <3> QED
      BY <3>1, <3>2
  <2> QED
    BY <2>1, <2>2, <2>5, <2>6, <2>7, <2>8 DEF Pipe, t, h, r
<1>2. o \o f \in Seq(EdgeFrame) /\ Pipe(o \o f, <<>>, s, m, e)
  <2> DEFINE t == o \o f
  <2>1. /\ t \in Seq(EdgeFrame) /\ Len(t) = Len(o) + Len(f) /\ Rising(t)
        /\ \A kind : Numbered(kind, t) = Numbered(kind, o) \cup Numbered(kind, f)
    BY PourFrames DEF Pipe
  <2> HIDE DEF t
  <2>2. \A kind : Numbered(kind, <<>>) = {}
    BY NumberedEmpty
  <2>3. Precedes(t, <<>>) /\ Precedes(t, s) /\ Precedes(<<>>, s) /\ Rising(<<>>)
    BY <2>1, <2>2 DEF Pipe, Precedes, Rising
  <2>4. Len(t) + Len(<<>>) + Len(s) = m + e
    BY <2>1 DEF Pipe
  <2> QED
    BY <2>1, <2>2, <2>3, <2>4 DEF Pipe, t
<1> QED
  BY <1>1, <1>2

\* What was written is a prefix of what was sent, of either kind.
LEMMA PipePrefixes ==
  ASSUME NEW o \in Seq(EdgeFrame), NEW f \in Seq(EdgeFrame), NEW s \in Seq(EdgeFrame),
         NEW m \in Nat, NEW e \in Nat, Pipe(o, f, s, m, e)
  PROVE  Unbroken(o)
<1> SUFFICES ASSUME NEW kind \in FrameKinds, NEW n \in Numbered(kind, o), NEW k \in 1..n
             PROVE  k \in Numbered(kind, o)
  BY DEF Pipe, Unbroken
<1>1. k \in Numbered(kind, o) \cup Numbered(kind, f) \cup Numbered(kind, s)
  BY DEF Pipe, FrameKinds
<1>2. n \in Nat /\ k \in Nat /\ k <= n
  BY NumberedAreNat
<1>3. k \notin Numbered(kind, f) \cup Numbered(kind, s)
  BY <1>2 DEF Pipe, Precedes
<1> QED
  BY <1>1, <1>3

LEMMA EdgeStarts == Edge!EdgeInit => EdgeInv
<1> SUFFICES ASSUME Edge!EdgeInit PROVE EdgeInv
  OBVIOUS
<1>1. stream = <<>> /\ feed = <<>> /\ out = <<>> /\ emitted = 0 /\ errors = 0
  BY DEF Edge!EdgeInit
<1>2. <<>> \in Seq(EdgeFrame) /\ Len(<<>>) = 0 /\ Rising(<<>>) /\ 1..0 = {}
  BY DEF Rising
<1>3. Pipe(<<>>, <<>>, <<>>, 0, 0)
  BY <1>2, NumberedEmpty DEF Pipe, Precedes
<1>4. Unbroken(<<>>)
  BY <1>2, <1>3, PipePrefixes
<1> QED
  BY <1>1, <1>2, <1>3, <1>4 DEF EdgeInv

LEMMA EdgeMoves == ASSUME EdgeInv, Edge!EdgeNext PROVE EdgeInv'
<1>1. /\ stream \in Seq(EdgeFrame) /\ feed \in Seq(EdgeFrame) /\ out \in Seq(EdgeFrame)
      /\ emitted \in Nat /\ errors \in Nat
  BY DEF EdgeInv
<1>2. ASSUME UNCHANGED <<stream, feed, out, emitted, errors, printer>> PROVE EdgeInv'
  BY <1>2 DEF EdgeInv
<1>3. CASE Edge!Emit
  <2>1. /\ emitted' = emitted + 1 /\ stream' = Append(stream, [kind |-> "event", n |-> emitted + 1])
        /\ UNCHANGED <<feed, out, errors, printer>>
    BY <1>3 DEF Edge!Emit
  <2>2. printer = "runs" => Pipe(out, feed, stream', emitted + 1, errors)
    BY <1>1, <2>1, PipeEmits DEF EdgeInv
  <2>3. [kind |-> "event", n |-> emitted + 1] \in EdgeFrame
    BY <1>1 DEF EdgeFrame, FrameKinds
  <2>4. stream' \in Seq(EdgeFrame)
    BY <1>1, <2>1, <2>3
  <2> QED
    BY <1>1, <2>1, <2>2, <2>4 DEF EdgeInv
<1>4. ASSUME NEW line \in Edge!Line, Edge!ReadLine(line) PROVE EdgeInv'
  <2>1. CASE errors' = errors + 1 /\ feed' = Append(feed, Edge!Error(errors'))
    <3>1. /\ errors' = errors + 1 /\ feed' = Append(feed, [kind |-> "error", n |-> errors + 1])
          /\ UNCHANGED <<stream, out, emitted, printer>>
      BY <1>4, <2>1 DEF Edge!ReadLine, Edge!Error
    <3>2. printer = "runs" => Pipe(out, feed', stream, emitted, errors + 1)
      BY <1>1, <3>1, PipeRefuses DEF EdgeInv
    <3>3. [kind |-> "error", n |-> errors + 1] \in EdgeFrame
      BY <1>1 DEF EdgeFrame, FrameKinds
    <3>4. feed' \in Seq(EdgeFrame)
      BY <1>1, <3>1, <3>3
    <3> QED
      BY <1>1, <3>1, <3>2, <3>4 DEF EdgeInv
  <2>2. CASE UNCHANGED <<errors, feed>>
    BY <1>2, <1>4, <2>2 DEF Edge!ReadLine
  <2> QED
    BY <1>4, <2>1, <2>2 DEF Edge!ReadLine
<1>5. CASE Edge!Forward
  <2>1. UNCHANGED <<out, emitted, errors, printer>>
    BY <1>5 DEF Edge!Forward
  <2>2. CASE stream # <<>> /\ feed' = Append(feed, Head(stream)) /\ stream' = Tail(stream)
    <3>1. printer = "runs" => Pipe(out, feed', stream', emitted, errors)
      BY <1>1, <2>2, PipeForwards DEF EdgeInv
    <3>2. feed' \in Seq(EdgeFrame) /\ stream' \in Seq(EdgeFrame)
      BY <1>1, <2>2
    <3> QED
      BY <1>1, <2>1, <3>1, <3>2 DEF EdgeInv
  <2>3. CASE feed' = feed \o stream /\ stream' = <<>>
    <3>1. printer = "runs" => Pipe(out, feed', stream', emitted, errors)
      BY <1>1, <2>3, PipeForwards DEF EdgeInv
    <3>2. feed' \in Seq(EdgeFrame) /\ stream' \in Seq(EdgeFrame)
      BY <1>1, <2>3
    <3> QED
      BY <1>1, <2>1, <3>1, <3>2 DEF EdgeInv
  <2> QED
    BY <1>5, <2>2, <2>3 DEF Edge!Forward
<1>6. CASE Edge!Write
  <2>1. UNCHANGED <<stream, emitted, errors>> /\ printer = "runs"
    BY <1>6 DEF Edge!Write
  <2>2. CASE feed # <<>> /\ out' = Append(out, Head(feed)) /\ feed' = Tail(feed)
    <3>1. Pipe(out', feed', stream, emitted, errors) /\ feed' \in Seq(EdgeFrame) /\ out' \in Seq(EdgeFrame)
      BY <1>1, <2>1, <2>2, PipeWrites DEF EdgeInv
    <3>2. Unbroken(out')
      BY <1>1, <3>1, PipePrefixes
    <3> QED
      BY <1>1, <2>1, <3>1, <3>2 DEF EdgeInv
  <2>3. CASE out' = out \o feed /\ feed' = <<>>
    <3>1. Pipe(out', feed', stream, emitted, errors) /\ out' \in Seq(EdgeFrame)
      BY <1>1, <2>1, <2>3, PipeWrites DEF EdgeInv
    <3>2. feed' \in Seq(EdgeFrame)
      BY <2>3
    <3>3. Unbroken(out')
      BY <1>1, <3>1, <3>2, PipePrefixes
    <3> QED
      BY <1>1, <2>1, <3>1, <3>2, <3>3 DEF EdgeInv
  <2>4. CASE feed # <<>> /\ feed' = Tail(feed) /\ printer' = "done" /\ UNCHANGED out
    <3>1. feed' \in Seq(EdgeFrame)
      BY <1>1, <2>4
    <3> QED
      BY <1>1, <2>1, <2>4, <3>1 DEF EdgeInv
  <2> QED
    BY <1>6, <2>2, <2>3, <2>4 DEF Edge!Write
<1>7. CASE Edge!WindDown
  BY <1>2, <1>7 DEF Edge!WindDown
<1>8. CASE Edge!Eof
  BY <1>2, <1>8 DEF Edge!Eof
<1>9. CASE Edge!Leave
  BY <1>2, <1>9 DEF Edge!Leave
<1>10. CASE Edge!Exit
  BY <1>2, <1>10 DEF Edge!Exit
<1> QED
  BY <1>3, <1>4, <1>5, <1>6, <1>7, <1>8, <1>9, <1>10 DEF Edge!EdgeNext

LEMMA EdgeKeeps == EdgeInv => Edge!InOrderOut /\ Edge!NothingDropped
<1> SUFFICES ASSUME EdgeInv PROVE Edge!InOrderOut /\ Edge!NothingDropped
  OBVIOUS
<1>1. Edge!InOrderOut
  BY DEF EdgeInv, Unbroken, Rising, FrameKinds, Numbered, Edge!InOrderOut
<1>2. Edge!NothingDropped
  BY DEF EdgeInv, Pipe, Numbered, Edge!NothingDropped
<1> QED
  BY <1>1, <1>2

-----------------------------------------------------------------------------
(* The catalog                                                             *)

RefreshStages == {"none", "start", "pointer", "artifact", "stamp", "done"}
CatalogInv ==
  /\ mirror \in Nat /\ artifact \in Nat /\ found \in [Procs -> Nat] /\ merged \in [Procs -> Nat]
  /\ refresh \in [Procs -> RefreshStages]
  /\ Parses(artifact) => artifact \in verified
  /\ OneRefresher /\ MergedWasVerified

LEMMA CatalogStarts == CatalogInit => CatalogInv
BY DEF CatalogInit, CatalogInv, OneRefresher, MergedWasVerified, Refreshing, Parses, RefreshStages, None

LEMMA CatalogMoves == ASSUME CatalogInv, CatalogNext PROVE CatalogInv'
<1> USE CatalogAssumption
<1>1. ASSUME NEW p \in Procs, Boot(p) PROVE CatalogInv'
  <2>1. UNCHANGED <<mirror, artifact, holder, found, merged, verified>>
        /\ (UNCHANGED refresh \/ refresh' = [refresh EXCEPT ![p] = "start"])
    BY <1>1 DEF Boot
  <2> QED
    BY <2>1 DEF CatalogInv, OneRefresher, MergedWasVerified, Refreshing, Parses, RefreshStages
<1>2. ASSUME NEW p \in Procs, NEW kind, NEW version, Ends(p, kind, version)
      PROVE  OneRefresher' /\ refresh' \in [Procs -> RefreshStages]
  BY <1>2 DEF CatalogInv, Ends, OneRefresher, Refreshing, RefreshStages
<1>3. ASSUME NEW p \in Procs, Lock(p) PROVE CatalogInv'
  <2>1. UNCHANGED <<mirror, artifact, found, merged, verified>>
    BY <1>3 DEF Lock
  <2>2. CASE \E kind, version : Ends(p, kind, version)
    BY <1>2, <2>1, <2>2 DEF CatalogInv, MergedWasVerified, Parses
  <2>3. CASE holder = None /\ holder' = p /\ refresh' = [refresh EXCEPT ![p] = "pointer"]
    BY <2>1, <2>3 DEF CatalogInv, OneRefresher, MergedWasVerified, Refreshing, Parses, RefreshStages
  <2> QED
    BY <1>3, <2>2, <2>3 DEF Lock
<1>4. ASSUME NEW p \in Procs, FetchPointer(p) PROVE CatalogInv'
  <2>1. UNCHANGED <<mirror, artifact, merged, verified>>
    BY <1>4 DEF FetchPointer
  <2>2. CASE Ends(p, "offline", None) /\ UNCHANGED found
    BY <1>2, <2>1, <2>2 DEF CatalogInv, MergedWasVerified, Parses
  <2>3. ASSUME NEW v \in 1..mirror, found' = [found EXCEPT ![p] = v], refresh[p] = "pointer",
               refresh' = [refresh EXCEPT ![p] = "artifact"], UNCHANGED holder
        PROVE  CatalogInv'
    BY <2>1, <2>3 DEF CatalogInv, OneRefresher, MergedWasVerified, Refreshing, Parses, RefreshStages
  <2> QED
    BY <1>4, <2>2, <2>3 DEF FetchPointer
<1>5. ASSUME NEW p \in Procs, Current(p) \/ FetchFails(p) \/ Stamp(p) PROVE CatalogInv'
  <2>1. UNCHANGED <<mirror, artifact, found, merged, verified>> /\ \E kind, version : Ends(p, kind, version)
    BY <1>5 DEF Current, FetchFails, Stamp
  <2> QED
    BY <1>2, <2>1 DEF CatalogInv, MergedWasVerified, Parses
<1>6. ASSUME NEW p \in Procs, Install(p) PROVE CatalogInv'
  BY <1>6 DEF Install, CatalogInv, OneRefresher, MergedWasVerified, Refreshing, Parses, RefreshStages
<1>7. ASSUME NEW p \in Procs, NEW final, Built(p, final) PROVE CatalogInv'
  BY <1>7 DEF Built, CatalogInv, OneRefresher, MergedWasVerified, Refreshing, Parses, RefreshStages, None
<1>8. ASSUME NEW p \in Procs, Exit(p) PROVE CatalogInv'
  BY <1>8 DEF Exit, CatalogInv, OneRefresher, MergedWasVerified, Refreshing, Parses, RefreshStages, None
<1>9. CASE Publish \/ Expire
  BY <1>9 DEF Publish, Expire, CatalogInv, OneRefresher, MergedWasVerified, Refreshing, Parses, RefreshStages
<1>10. CASE Spoil
  BY <1>10 DEF Spoil, CatalogInv, OneRefresher, MergedWasVerified, Refreshing, Parses, RefreshStages, None, Torn
<1>11. ASSUME NEW p \in Procs, BuildRegistry(p) \/ BudgetExpires(p) PROVE \E final : Built(p, final)
  BY <1>11, Zenon DEF BuildRegistry, BudgetExpires
<1> QED
  BY <1>1, <1>3, <1>4, <1>5, <1>6, <1>7, <1>8, <1>9, <1>10, <1>11 DEF CatalogNext, RefreshStep

-----------------------------------------------------------------------------
(* The extension lanes                                                     *)

LaneTypes ==
  /\ process \in [Exts -> {"running", "exited", "killed"}] /\ stdout \in [Exts -> {"open", "closed"}]
  /\ reader \in [Exts -> {"reading", "closing", "flagged", "over"}]
  /\ verdict \in [Exts -> {"none", "good", "bad", "failed"}]
  /\ task \in [Exts -> {"booting", "mounting", "alive", "refusing", "reaping", "dying", "sweeping", "over"}]
  /\ status \in [Exts -> {"starting", "alive", "dead"}]
  /\ death \in [Exts -> BOOLEAN] /\ dead \in [Exts -> BOOLEAN] /\ minted \in [Exts -> BOOLEAN]
  /\ closing \in BOOLEAN
  /\ item \in [Items -> {"idle", "held", "attached", "waiting", "done"}]

\* What may befall a package's process: it ended by itself, or it is to blame.
Excused(e) == process[e] # "running" \/ e \in guilty
GuiltInv ==
  \A e \in Exts :
    /\ stdout[e] = "closed" => process[e] # "running"
    /\ reader[e] # "reading" \/ verdict[e] \in {"bad", "failed"} \/ death[e] \/ task[e] \in {"refusing", "reaping"}
         => Excused(e)
    /\ minted[e] => e \in guilty
    /\ process[e] = "killed" => e \in guilty \/ closing

\* Once a lane's flag is up nothing is sent on it, and each of the two sweeps finds all there was.
SweptInv ==
  \A e \in Exts :
    /\ reader[e] \in {"flagged", "over"} \/ task[e] = "sweeping" \/ status[e] = "dead" => dead[e]
    /\ status[e] = "dead" => task[e] = "over" /\ e \notin subs
    /\ reader[e] = "over" => e \notin service
    /\ reader[e] = "over" \/ status[e] = "dead" =>
         \A c \in Own(e) : c \in holds \cup contexts => item[c] \in {"held", "attached"}

LEMMA LaneStarts == LaneInit => LaneTypes /\ GuiltInv /\ SweptInv
<1> SUFFICES ASSUME LaneInit PROVE LaneTypes /\ GuiltInv /\ SweptInv
  OBVIOUS
<1>1. LaneTypes
  BY DEF LaneInit, LaneTypes, Each, Booted
<1>2. GuiltInv
  BY DEF LaneInit, GuiltInv, Excused, Each, Booted
<1>3. SweptInv
  BY DEF LaneInit, SweptInv, Each, Booted
<1> QED
  BY <1>1, <1>2, <1>3

LEMMA LaneKeepsTypes == ASSUME LaneTypes, GuiltInv, SweptInv, LaneNext PROVE LaneTypes'
<1> USE LaneAssumption DEF LaneTypes, guestVars, itemVars, taskVars
<1>1. ASSUME NEW e \in Exts, GuestExits(e) PROVE LaneTypes'
  BY <1>1 DEF GuestExits, Own
<1>2. ASSUME NEW e \in Exts, HolderExits(e) PROVE LaneTypes'
  BY <1>2 DEF HolderExits, Own
<1>3. ASSUME NEW e \in Exts, ReadReport(e, FALSE) PROVE LaneTypes'
  BY <1>3 DEF ReadReport, Own
<1>4. ASSUME NEW e \in Exts, ReadReport(e, TRUE) PROVE LaneTypes'
  BY <1>4 DEF ReadReport, Own
<1>5. ASSUME NEW e \in Exts, ReadBreak(e) PROVE LaneTypes'
  BY <1>5 DEF ReadBreak, Signal, Own
<1>6. ASSUME NEW e \in Exts, SpawnFails(e) PROVE LaneTypes'
  BY <1>6 DEF SpawnFails, TaskTo, Own
<1>7. ASSUME NEW e \in Exts, ReadService(e) PROVE LaneTypes'
  BY <1>7 DEF ReadService, Own
<1>8. ASSUME NEW e \in Exts, ServiceAnswers(e) PROVE LaneTypes'
  BY <1>8 DEF ServiceAnswers, Own
<1>9. ASSUME NEW e \in Exts, ReadEof(e) PROVE LaneTypes'
  BY <1>9 DEF ReadEof, Own
<1>10. ASSUME NEW e \in Exts, ReaderFlags(e) PROVE LaneTypes'
  BY <1>10 DEF ReaderFlags, Own
<1>11. ASSUME NEW e \in Exts, ReaderSweeps(e) PROVE LaneTypes'
  BY <1>11 DEF ReaderSweeps, Sweep, Signal, Own
<1>12. ASSUME NEW e \in Exts, Handshake(e) PROVE LaneTypes'
  BY <1>12 DEF Handshake, TaskTo, Own
<1>13. ASSUME NEW e \in Exts, BootTimeout(e) PROVE LaneTypes'
  BY <1>13 DEF BootTimeout, TaskTo, Own
<1>14. ASSUME NEW e \in Exts, Subscribe(e) PROVE LaneTypes'
  BY <1>14 DEF Subscribe, TaskTo, Own
<1>15. ASSUME NEW e \in Exts, Refuse(e) PROVE LaneTypes'
  BY <1>15 DEF Refuse, Kills, TaskTo, Own
<1>16. ASSUME NEW e \in Exts, AliveEnds(e) PROVE LaneTypes'
  BY <1>16 DEF AliveEnds, TaskTo, Own
<1>17. ASSUME NEW e \in Exts, Reap(e) PROVE LaneTypes'
  BY <1>17 DEF Reap, Kills, TaskTo, Own
<1>18. ASSUME NEW e \in Exts, ClosingReap(e) PROVE LaneTypes'
  BY <1>18 DEF ClosingReap, Kills, TaskTo, Own
<1>19. ASSUME NEW e \in Exts, TaskFlags(e) PROVE LaneTypes'
  BY <1>19 DEF TaskFlags, TaskTo, Own
<1>20. ASSUME NEW e \in Exts, TaskSweeps(e) PROVE LaneTypes'
  BY <1>20 DEF TaskSweeps, TaskTo, Sweep, Own
<1>21. ASSUME NEW c \in Items, Attach(c) PROVE LaneTypes'
  BY <1>21 DEF Attach, ItemTo, Own
<1>22. ASSUME NEW c \in Items, Send(c) PROVE LaneTypes'
  BY <1>22 DEF Send, ItemTo, Abandon, Own
<1>23. ASSUME NEW c \in Items, Deliver(c) PROVE LaneTypes'
  BY <1>23 DEF Deliver, ItemTo, Own
<1>24. ASSUME NEW c \in Items, Hold(c) PROVE LaneTypes'
  BY <1>24 DEF Hold, ItemTo, Own
<1>25. ASSUME NEW c \in Items, Cancel(c) PROVE LaneTypes'
  BY <1>25 DEF Cancel, ItemTo, Abandon, Own
<1>26. ASSUME NEW c \in Items, NEW e \in Exts, ReadResult(e, c) PROVE LaneTypes'
  BY <1>26 DEF ReadResult, Own
<1>27. CASE CloseHost
  BY <1>27 DEF CloseHost, Own
<1> QED
  BY <1>1, <1>2, <1>3, <1>4, <1>5, <1>6, <1>7, <1>8, <1>9, <1>10, <1>11, <1>12, <1>13, <1>14, <1>15, 
     <1>16, <1>17, <1>18, <1>19, <1>20, <1>21, <1>22, <1>23, <1>24, <1>25, <1>26, <1>27
     DEF LaneNext, ReaderStep, TaskStep, ItemStep

LEMMA LaneKeepsGuilt == ASSUME LaneTypes, GuiltInv, SweptInv, LaneNext PROVE GuiltInv'
<1> USE LaneAssumption DEF LaneTypes, guestVars, itemVars, taskVars
<1>1. ASSUME NEW e \in Exts, GuestExits(e) PROVE GuiltInv'
  BY <1>1 DEF GuestExits, GuiltInv, Excused
<1>2. ASSUME NEW e \in Exts, HolderExits(e) PROVE GuiltInv'
  BY <1>2 DEF HolderExits, GuiltInv, Excused
<1>3. ASSUME NEW e \in Exts, ReadReport(e, FALSE) PROVE GuiltInv'
  BY <1>3 DEF ReadReport, GuiltInv, Excused
<1>4. ASSUME NEW e \in Exts, ReadReport(e, TRUE) PROVE GuiltInv'
  BY <1>4 DEF ReadReport, GuiltInv, Excused
<1>5. ASSUME NEW e \in Exts, ReadBreak(e) PROVE GuiltInv'
  BY <1>5 DEF ReadBreak, Signal, GuiltInv, Excused
<1>6. ASSUME NEW e \in Exts, SpawnFails(e) PROVE GuiltInv'
  BY <1>6 DEF SpawnFails, TaskTo, GuiltInv, Excused
<1>7. ASSUME NEW e \in Exts, ReadService(e) PROVE GuiltInv'
  BY <1>7 DEF ReadService, GuiltInv, Excused
<1>8. ASSUME NEW e \in Exts, ServiceAnswers(e) PROVE GuiltInv'
  BY <1>8 DEF ServiceAnswers, GuiltInv, Excused
<1>9. ASSUME NEW e \in Exts, ReadEof(e) PROVE GuiltInv'
  BY <1>9 DEF ReadEof, GuiltInv, Excused
<1>10. ASSUME NEW e \in Exts, ReaderFlags(e) PROVE GuiltInv'
  BY <1>10 DEF ReaderFlags, GuiltInv, Excused
<1>11. ASSUME NEW e \in Exts, ReaderSweeps(e) PROVE GuiltInv'
  BY <1>11 DEF ReaderSweeps, Sweep, Signal, GuiltInv, Excused
<1>12. ASSUME NEW e \in Exts, Handshake(e) PROVE GuiltInv'
  BY <1>12 DEF Handshake, TaskTo, GuiltInv, Excused
<1>13. ASSUME NEW e \in Exts, BootTimeout(e) PROVE GuiltInv'
  BY <1>13 DEF BootTimeout, TaskTo, GuiltInv, Excused
<1>14. ASSUME NEW e \in Exts, Subscribe(e) PROVE GuiltInv'
  BY <1>14 DEF Subscribe, TaskTo, GuiltInv, Excused
<1>15. ASSUME NEW e \in Exts, Refuse(e) PROVE GuiltInv'
  BY <1>15 DEF Refuse, Kills, TaskTo, GuiltInv, Excused
<1>16. ASSUME NEW e \in Exts, AliveEnds(e) PROVE GuiltInv'
  BY <1>16 DEF AliveEnds, TaskTo, GuiltInv, Excused
<1>17. ASSUME NEW e \in Exts, Reap(e) PROVE GuiltInv'
  BY <1>17 DEF Reap, Kills, TaskTo, GuiltInv, Excused
<1>18. ASSUME NEW e \in Exts, ClosingReap(e) PROVE GuiltInv'
  BY <1>18 DEF ClosingReap, Kills, TaskTo, GuiltInv, Excused
<1>19. ASSUME NEW e \in Exts, TaskFlags(e) PROVE GuiltInv'
  BY <1>19 DEF TaskFlags, TaskTo, GuiltInv, Excused
<1>20. ASSUME NEW e \in Exts, TaskSweeps(e) PROVE GuiltInv'
  BY <1>20 DEF TaskSweeps, TaskTo, Sweep, GuiltInv, Excused
<1>21. ASSUME NEW c \in Items, Attach(c) PROVE GuiltInv'
  BY <1>21 DEF Attach, ItemTo, GuiltInv, Excused
<1>22. ASSUME NEW c \in Items, Send(c) PROVE GuiltInv'
  BY <1>22 DEF Send, ItemTo, Abandon, GuiltInv, Excused
<1>23. ASSUME NEW c \in Items, Deliver(c) PROVE GuiltInv'
  BY <1>23 DEF Deliver, ItemTo, GuiltInv, Excused
<1>24. ASSUME NEW c \in Items, Hold(c) PROVE GuiltInv'
  BY <1>24 DEF Hold, ItemTo, GuiltInv, Excused
<1>25. ASSUME NEW c \in Items, Cancel(c) PROVE GuiltInv'
  BY <1>25 DEF Cancel, ItemTo, Abandon, GuiltInv, Excused
<1>26. ASSUME NEW c \in Items, NEW e \in Exts, ReadResult(e, c) PROVE GuiltInv'
  BY <1>26 DEF ReadResult, GuiltInv, Excused
<1>27. CASE CloseHost
  BY <1>27 DEF CloseHost, GuiltInv, Excused
<1> QED
  BY <1>1, <1>2, <1>3, <1>4, <1>5, <1>6, <1>7, <1>8, <1>9, <1>10, <1>11, <1>12, <1>13, <1>14, <1>15, 
     <1>16, <1>17, <1>18, <1>19, <1>20, <1>21, <1>22, <1>23, <1>24, <1>25, <1>26, <1>27
     DEF LaneNext, ReaderStep, TaskStep, ItemStep

LEMMA LaneKeepsSweeps == ASSUME LaneTypes, GuiltInv, SweptInv, LaneNext PROVE SweptInv'
<1> USE LaneAssumption DEF LaneTypes, guestVars, itemVars, taskVars
<1>1. ASSUME NEW e \in Exts, GuestExits(e) PROVE SweptInv'
  BY <1>1 DEF GuestExits, SweptInv, Own
<1>2. ASSUME NEW e \in Exts, HolderExits(e) PROVE SweptInv'
  BY <1>2 DEF HolderExits, SweptInv, Own
<1>3. ASSUME NEW e \in Exts, ReadReport(e, FALSE) PROVE SweptInv'
  BY <1>3 DEF ReadReport, SweptInv, Own
<1>4. ASSUME NEW e \in Exts, ReadReport(e, TRUE) PROVE SweptInv'
  BY <1>4 DEF ReadReport, SweptInv, Own
<1>5. ASSUME NEW e \in Exts, ReadBreak(e) PROVE SweptInv'
  BY <1>5 DEF ReadBreak, Signal, SweptInv, Own
<1>6. ASSUME NEW e \in Exts, SpawnFails(e) PROVE SweptInv'
  BY <1>6 DEF SpawnFails, TaskTo, SweptInv, Own
<1>7. ASSUME NEW e \in Exts, ReadService(e) PROVE SweptInv'
  BY <1>7 DEF ReadService, SweptInv, Own
<1>8. ASSUME NEW e \in Exts, ServiceAnswers(e) PROVE SweptInv'
  BY <1>8 DEF ServiceAnswers, SweptInv, Own
<1>9. ASSUME NEW e \in Exts, ReadEof(e) PROVE SweptInv'
  BY <1>9 DEF ReadEof, SweptInv, Own
<1>10. ASSUME NEW e \in Exts, ReaderFlags(e) PROVE SweptInv'
  BY <1>10 DEF ReaderFlags, SweptInv, Own
<1>11. ASSUME NEW e \in Exts, ReaderSweeps(e) PROVE SweptInv'
  BY <1>11 DEF ReaderSweeps, Sweep, Signal, SweptInv, Own
<1>12. ASSUME NEW e \in Exts, Handshake(e) PROVE SweptInv'
  BY <1>12 DEF Handshake, TaskTo, SweptInv, Own
<1>13. ASSUME NEW e \in Exts, BootTimeout(e) PROVE SweptInv'
  BY <1>13 DEF BootTimeout, TaskTo, SweptInv, Own
<1>14. ASSUME NEW e \in Exts, Subscribe(e) PROVE SweptInv'
  BY <1>14 DEF Subscribe, TaskTo, SweptInv, Own
<1>15. ASSUME NEW e \in Exts, Refuse(e) PROVE SweptInv'
  BY <1>15 DEF Refuse, Kills, TaskTo, SweptInv, Own
<1>16. ASSUME NEW e \in Exts, AliveEnds(e) PROVE SweptInv'
  BY <1>16 DEF AliveEnds, TaskTo, SweptInv, Own
<1>17. ASSUME NEW e \in Exts, Reap(e) PROVE SweptInv'
  BY <1>17 DEF Reap, Kills, TaskTo, SweptInv, Own
<1>18. ASSUME NEW e \in Exts, ClosingReap(e) PROVE SweptInv'
  BY <1>18 DEF ClosingReap, Kills, TaskTo, SweptInv, Own
<1>19. ASSUME NEW e \in Exts, TaskFlags(e) PROVE SweptInv'
  BY <1>19 DEF TaskFlags, TaskTo, SweptInv, Own
<1>20. ASSUME NEW e \in Exts, TaskSweeps(e) PROVE SweptInv'
  BY <1>20 DEF TaskSweeps, TaskTo, Sweep, SweptInv, Own
<1>21. ASSUME NEW c \in Items, Attach(c) PROVE SweptInv'
  BY <1>21 DEF Attach, ItemTo, SweptInv, Own
<1>22. ASSUME NEW c \in Items, Send(c) PROVE SweptInv'
  BY <1>22 DEF Send, ItemTo, Abandon, SweptInv, Own
<1>23. ASSUME NEW c \in Items, Deliver(c) PROVE SweptInv'
  BY <1>23 DEF Deliver, ItemTo, SweptInv, Own
<1>24. ASSUME NEW c \in Items, Hold(c) PROVE SweptInv'
  BY <1>24 DEF Hold, ItemTo, SweptInv, Own
<1>25. ASSUME NEW c \in Items, Cancel(c) PROVE SweptInv'
  BY <1>25 DEF Cancel, ItemTo, Abandon, SweptInv, Own
<1>26. ASSUME NEW c \in Items, NEW e \in Exts, ReadResult(e, c) PROVE SweptInv'
  BY <1>26 DEF ReadResult, SweptInv, Own
<1>27. CASE CloseHost
  BY <1>27 DEF CloseHost, SweptInv, Own
<1> QED
  BY <1>1, <1>2, <1>3, <1>4, <1>5, <1>6, <1>7, <1>8, <1>9, <1>10, <1>11, <1>12, <1>13, <1>14, <1>15, 
     <1>16, <1>17, <1>18, <1>19, <1>20, <1>21, <1>22, <1>23, <1>24, <1>25, <1>26, <1>27
     DEF LaneNext, ReaderStep, TaskStep, ItemStep

LEMMA LaneKeepsApart == LaneTypes /\ GuiltInv /\ SweptInv => DeadLeavesNothing /\ SiblingsSurvive
BY DEF GuiltInv, SweptInv, DeadLeavesNothing, SiblingsSurvive

-----------------------------------------------------------------------------
(* The host of the sessions                                                *)

Stages == {"idle", "new", "open", "login", "logout", "build", "check", "spawn", "insert", "join",
           "write", "swap", "walk", "announce"}
Writing == {"write", "swap", "walk", "announce"}
Worker == [id : Host!Ids, generation : Nat, alive : BOOLEAN]

DoorTypes == armed \in BOOLEAN /\ parked \in Seq(Host!Commands) /\ todo \in [Threads -> Seq(Host!Commands)]
ServeTypes ==
  /\ at \in [Threads -> Stages] /\ cmd \in [Threads -> Host!Commands]
  /\ before \in [Threads -> Nat] /\ built \in [Threads -> Nat]
AuthTypes ==
  /\ keys \in SUBSET Providers /\ world.keys \in SUBSET Providers /\ world.generation \in Nat
  /\ writer \in Threads \cup {"nobody"}
WorkerTypes ==
  /\ sessions \in Seq(Worker) /\ missed \in SUBSET Threads /\ gap \subseteq DOMAIN sessions
  /\ DOMAIN table \subseteq Host!Ids
  /\ \A id \in DOMAIN table : table[id] \in DOMAIN sessions /\ sessions[table[id]].id = id
  /\ \A t \in Threads : at[t] \in {"insert", "join"} => built[t] \in DOMAIN sessions
WindTypes == joins \in Seq(Nat) /\ awaited \in Nat
\* Before the attach nothing is served and there is no worker; only Main drains.
DoorInv ==
  /\ ~armed => sessions = <<>> /\ \A t \in Threads : at[t] = "idle" /\ todo[t] = <<>>
  /\ armed => parked = <<>>
  /\ \A t \in Threads : t # Main => todo[t] = <<>>
HostTypes == DoorTypes /\ ServeTypes /\ AuthTypes /\ WorkerTypes /\ WindTypes

LEMMA CommandsAre ==
  ASSUME NEW c \in Host!Commands
  PROVE  \/ c.kind = "new"
         \/ c.kind = "open" /\ c.of \in Files
         \/ c.kind \in {"login", "logout"} /\ c.of \in Providers
BY DEF Host!Commands

LEMMA HostKeepsDoor == ASSUME HostTypes, Host!HostNext PROVE DoorTypes'
<1> USE HostAssumption DEF Host!doorVars, Host!serveVars, Host!buildVars, Host!authVars, Host!workerVars, Host!windVars
<1>1. ASSUME Host!Attach PROVE DoorTypes'
  <2>1. parked \in Seq(Host!Commands) /\ <<>> \in Seq(Host!Commands)
    BY DEF HostTypes, DoorTypes
  <2>2. parked' = <<>> /\ armed' = TRUE /\ todo' = [todo EXCEPT ![Main] = parked]
    BY <1>1 DEF Host!Attach
  <2> QED
    BY <2>1, <2>2 DEF HostTypes, DoorTypes
<1>2. ASSUME NEW t \in Threads, NEW c \in Host!Commands, Host!Enter(t, c) PROVE DoorTypes'
  <2>1. parked \in Seq(Host!Commands) /\ Append(parked, c) \in Seq(Host!Commands)
    BY DEF HostTypes, DoorTypes
  <2>2. UNCHANGED <<armed, todo>> /\ (parked' = parked \/ parked' = Append(parked, c))
    BY <1>2 DEF Host!Enter
  <2> QED
    BY <2>1, <2>2 DEF HostTypes, DoorTypes
<1>3. ASSUME NEW t \in Threads, Host!Drain(t) PROVE DoorTypes'
  BY <1>3 DEF Host!Drain, Host!Start, Host!Go, HostTypes, DoorTypes
<1>4. ASSUME NEW t \in Threads, Host!Replay(t) PROVE DoorTypes'
  BY <1>4 DEF Host!Replay, Host!Done, Host!Go, HostTypes, DoorTypes
<1>5. ASSUME NEW t \in Threads, Host!ReadGeneration(t) PROVE DoorTypes'
  BY <1>5 DEF Host!ReadGeneration, Host!Go, HostTypes, DoorTypes
<1>6. ASSUME NEW t \in Threads, Host!Build(t) PROVE DoorTypes'
  BY <1>6 DEF Host!Build, Host!Done, Host!Go, HostTypes, DoorTypes
<1>7. ASSUME NEW t \in Threads, Host!CheckGeneration(t) PROVE DoorTypes'
  BY <1>7 DEF Host!CheckGeneration, Host!Go, HostTypes, DoorTypes
<1>8. ASSUME NEW t \in Threads, Host!Spawn(t) PROVE DoorTypes'
  BY <1>8 DEF Host!Spawn, Host!SpawnWorker, Host!Go, HostTypes, DoorTypes
<1>9. ASSUME NEW t \in Threads, Host!Insert(t) PROVE DoorTypes'
  BY <1>9 DEF Host!Insert, Host!Go, HostTypes, DoorTypes
<1>10. ASSUME NEW t \in Threads, Host!PushJoin(t) PROVE DoorTypes'
  BY <1>10 DEF Host!PushJoin, Host!Done, Host!Go, HostTypes, DoorTypes
<1>11. ASSUME NEW t \in Threads, Host!ClaimAuth(t) PROVE DoorTypes'
  BY <1>11 DEF Host!ClaimAuth, Host!Go, HostTypes, DoorTypes
<1>12. ASSUME NEW t \in Threads, Host!WriteAuth(t) PROVE DoorTypes'
  BY <1>12 DEF Host!WriteAuth, Host!Done, Host!Go, Host!Stored, HostTypes, DoorTypes
<1>13. ASSUME NEW t \in Threads, Host!SwapWorld(t) PROVE DoorTypes'
  BY <1>13 DEF Host!SwapWorld, Host!Go, HostTypes, DoorTypes
<1>14. ASSUME NEW t \in Threads, Host!Walk(t) PROVE DoorTypes'
  BY <1>14 DEF Host!Walk, Host!Go, Host!Resident, HostTypes, DoorTypes
<1>15. ASSUME NEW t \in Threads, Host!AnnounceCatalog(t) PROVE DoorTypes'
  BY <1>15 DEF Host!AnnounceCatalog, Host!Done, Host!Go, HostTypes, DoorTypes
<1>16. ASSUME Host!Close PROVE DoorTypes'
  BY <1>16 DEF Host!Close, HostTypes, DoorTypes
<1>17. ASSUME NEW i \in DOMAIN sessions, Host!WorkerEnds(i) PROVE DoorTypes'
  BY <1>17 DEF Host!WorkerEnds, HostTypes, DoorTypes
<1>18. ASSUME Host!TakeJoin PROVE DoorTypes'
  BY <1>18 DEF Host!TakeJoin, HostTypes, DoorTypes
<1>19. ASSUME Host!JoinDone PROVE DoorTypes'
  BY <1>19 DEF Host!JoinDone, HostTypes, DoorTypes
<1> QED
  BY <1>1, <1>2, <1>3, <1>4, <1>5, <1>6, <1>7, <1>8, <1>9, <1>10, <1>11, <1>12, <1>13, <1>14, <1>15, <1>16, <1>17, <1>18, <1>19
     DEF Host!HostNext, Host!Serve

LEMMA HostKeepsServe == ASSUME HostTypes, Host!HostNext PROVE ServeTypes'
<1> USE HostAssumption DEF Host!doorVars, Host!serveVars, Host!buildVars, Host!authVars, Host!workerVars, Host!windVars
<1>1. ASSUME Host!Attach PROVE ServeTypes'
  BY <1>1 DEF Host!Attach, Host!SpawnWorker, HostTypes, DoorTypes, ServeTypes, AuthTypes, Stages, Host!Commands
<1>2. ASSUME NEW t \in Threads, NEW c \in Host!Commands, Host!Enter(t, c) PROVE ServeTypes'
  <2>1. c.kind \in Stages
    BY CommandsAre DEF Stages
  <2> QED
    BY <1>2, <2>1 DEF Host!Enter, Host!Start, Host!Go, HostTypes, ServeTypes
<1>3. ASSUME NEW t \in Threads, Host!Drain(t) PROVE ServeTypes'
  BY <1>3 DEF Host!Drain, Host!Start, Host!Go, HostTypes, DoorTypes, ServeTypes, AuthTypes, Stages, Host!Commands
<1>4. ASSUME NEW t \in Threads, Host!Replay(t) PROVE ServeTypes'
  BY <1>4 DEF Host!Replay, Host!Done, Host!Go, HostTypes, DoorTypes, ServeTypes, AuthTypes, Stages, Host!Commands
<1>5. ASSUME NEW t \in Threads, Host!ReadGeneration(t) PROVE ServeTypes'
  BY <1>5 DEF Host!ReadGeneration, Host!Go, HostTypes, DoorTypes, ServeTypes, AuthTypes, Stages, Host!Commands
<1>6. ASSUME NEW t \in Threads, Host!Build(t) PROVE ServeTypes'
  BY <1>6 DEF Host!Build, Host!Done, Host!Go, HostTypes, DoorTypes, ServeTypes, AuthTypes, Stages, Host!Commands
<1>7. ASSUME NEW t \in Threads, Host!CheckGeneration(t) PROVE ServeTypes'
  BY <1>7 DEF Host!CheckGeneration, Host!Go, HostTypes, DoorTypes, ServeTypes, AuthTypes, Stages, Host!Commands
<1>8. ASSUME NEW t \in Threads, Host!Spawn(t) PROVE ServeTypes'
  <2>1. Len(sessions) + 1 \in Nat
    BY DEF HostTypes, WorkerTypes
  <2> QED
    BY <1>8, <2>1 DEF Host!Spawn, Host!Go, HostTypes, ServeTypes, Stages
<1>9. ASSUME NEW t \in Threads, Host!Insert(t) PROVE ServeTypes'
  BY <1>9 DEF Host!Insert, Host!Go, HostTypes, DoorTypes, ServeTypes, AuthTypes, Stages, Host!Commands
<1>10. ASSUME NEW t \in Threads, Host!PushJoin(t) PROVE ServeTypes'
  BY <1>10 DEF Host!PushJoin, Host!Done, Host!Go, HostTypes, DoorTypes, ServeTypes, AuthTypes, Stages, Host!Commands
<1>11. ASSUME NEW t \in Threads, Host!ClaimAuth(t) PROVE ServeTypes'
  BY <1>11 DEF Host!ClaimAuth, Host!Go, HostTypes, DoorTypes, ServeTypes, AuthTypes, Stages, Host!Commands
<1>12. ASSUME NEW t \in Threads, Host!WriteAuth(t) PROVE ServeTypes'
  BY <1>12 DEF Host!WriteAuth, Host!Done, Host!Go, Host!Stored, HostTypes, DoorTypes, ServeTypes, AuthTypes, Stages, Host!Commands
<1>13. ASSUME NEW t \in Threads, Host!SwapWorld(t) PROVE ServeTypes'
  BY <1>13 DEF Host!SwapWorld, Host!Go, HostTypes, DoorTypes, ServeTypes, AuthTypes, Stages, Host!Commands
<1>14. ASSUME NEW t \in Threads, Host!Walk(t) PROVE ServeTypes'
  BY <1>14 DEF Host!Walk, Host!Go, Host!Resident, HostTypes, DoorTypes, ServeTypes, AuthTypes, Stages, Host!Commands
<1>15. ASSUME NEW t \in Threads, Host!AnnounceCatalog(t) PROVE ServeTypes'
  BY <1>15 DEF Host!AnnounceCatalog, Host!Done, Host!Go, HostTypes, DoorTypes, ServeTypes, AuthTypes, Stages, Host!Commands
<1>16. ASSUME Host!Close PROVE ServeTypes'
  BY <1>16 DEF Host!Close, HostTypes, DoorTypes, ServeTypes, AuthTypes, Stages, Host!Commands
<1>17. ASSUME NEW i \in DOMAIN sessions, Host!WorkerEnds(i) PROVE ServeTypes'
  BY <1>17 DEF Host!WorkerEnds, HostTypes, DoorTypes, ServeTypes, AuthTypes, Stages, Host!Commands
<1>18. ASSUME Host!TakeJoin PROVE ServeTypes'
  BY <1>18 DEF Host!TakeJoin, HostTypes, DoorTypes, ServeTypes, AuthTypes, Stages, Host!Commands
<1>19. ASSUME Host!JoinDone PROVE ServeTypes'
  BY <1>19 DEF Host!JoinDone, HostTypes, DoorTypes, ServeTypes, AuthTypes, Stages, Host!Commands
<1> QED
  BY <1>1, <1>2, <1>3, <1>4, <1>5, <1>6, <1>7, <1>8, <1>9, <1>10, <1>11, <1>12, <1>13, <1>14, <1>15, <1>16, <1>17, <1>18, <1>19
     DEF Host!HostNext, Host!Serve

LEMMA HostKeepsAuth == ASSUME HostTypes, Host!HostNext PROVE AuthTypes'
<1> USE HostAssumption DEF Host!doorVars, Host!serveVars, Host!buildVars, Host!authVars, Host!workerVars, Host!windVars
<1>1. ASSUME Host!Attach PROVE AuthTypes'
  BY <1>1 DEF Host!Attach, Host!SpawnWorker, HostTypes, ServeTypes, AuthTypes, Host!Commands, Host!Nobody
<1>2. ASSUME NEW t \in Threads, NEW c \in Host!Commands, Host!Enter(t, c) PROVE AuthTypes'
  BY <1>2 DEF Host!Enter, Host!Start, Host!Go, HostTypes, ServeTypes, AuthTypes, Host!Commands, Host!Nobody
<1>3. ASSUME NEW t \in Threads, Host!Drain(t) PROVE AuthTypes'
  BY <1>3 DEF Host!Drain, Host!Start, Host!Go, HostTypes, ServeTypes, AuthTypes, Host!Commands, Host!Nobody
<1>4. ASSUME NEW t \in Threads, Host!Replay(t) PROVE AuthTypes'
  BY <1>4 DEF Host!Replay, Host!Done, Host!Go, HostTypes, ServeTypes, AuthTypes, Host!Commands, Host!Nobody
<1>5. ASSUME NEW t \in Threads, Host!ReadGeneration(t) PROVE AuthTypes'
  BY <1>5 DEF Host!ReadGeneration, Host!Go, HostTypes, ServeTypes, AuthTypes, Host!Commands, Host!Nobody
<1>6. ASSUME NEW t \in Threads, Host!Build(t) PROVE AuthTypes'
  BY <1>6 DEF Host!Build, Host!Done, Host!Go, HostTypes, ServeTypes, AuthTypes, Host!Commands, Host!Nobody
<1>7. ASSUME NEW t \in Threads, Host!CheckGeneration(t) PROVE AuthTypes'
  BY <1>7 DEF Host!CheckGeneration, Host!Go, HostTypes, ServeTypes, AuthTypes, Host!Commands, Host!Nobody
<1>8. ASSUME NEW t \in Threads, Host!Spawn(t) PROVE AuthTypes'
  BY <1>8 DEF Host!Spawn, Host!SpawnWorker, Host!Go, HostTypes, ServeTypes, AuthTypes, Host!Commands, Host!Nobody
<1>9. ASSUME NEW t \in Threads, Host!Insert(t) PROVE AuthTypes'
  BY <1>9 DEF Host!Insert, Host!Go, HostTypes, ServeTypes, AuthTypes, Host!Commands, Host!Nobody
<1>10. ASSUME NEW t \in Threads, Host!PushJoin(t) PROVE AuthTypes'
  BY <1>10 DEF Host!PushJoin, Host!Done, Host!Go, HostTypes, ServeTypes, AuthTypes, Host!Commands, Host!Nobody
<1>11. ASSUME NEW t \in Threads, Host!ClaimAuth(t) PROVE AuthTypes'
  BY <1>11 DEF Host!ClaimAuth, Host!Go, HostTypes, ServeTypes, AuthTypes, Host!Commands, Host!Nobody
<1>12. ASSUME NEW t \in Threads, Host!WriteAuth(t) PROVE AuthTypes'
  BY <1>12 DEF Host!WriteAuth, Host!Done, Host!Go, Host!Stored, HostTypes, ServeTypes, AuthTypes, Host!Commands, Host!Nobody
<1>13. ASSUME NEW t \in Threads, Host!SwapWorld(t) PROVE AuthTypes'
  BY <1>13 DEF Host!SwapWorld, Host!Go, HostTypes, ServeTypes, AuthTypes, Host!Commands, Host!Nobody
<1>14. ASSUME NEW t \in Threads, Host!Walk(t) PROVE AuthTypes'
  BY <1>14 DEF Host!Walk, Host!Go, Host!Resident, HostTypes, ServeTypes, AuthTypes, Host!Commands, Host!Nobody
<1>15. ASSUME NEW t \in Threads, Host!AnnounceCatalog(t) PROVE AuthTypes'
  BY <1>15 DEF Host!AnnounceCatalog, Host!Done, Host!Go, HostTypes, ServeTypes, AuthTypes, Host!Commands, Host!Nobody
<1>16. ASSUME Host!Close PROVE AuthTypes'
  BY <1>16 DEF Host!Close, HostTypes, ServeTypes, AuthTypes, Host!Commands, Host!Nobody
<1>17. ASSUME NEW i \in DOMAIN sessions, Host!WorkerEnds(i) PROVE AuthTypes'
  BY <1>17 DEF Host!WorkerEnds, HostTypes, ServeTypes, AuthTypes, Host!Commands, Host!Nobody
<1>18. ASSUME Host!TakeJoin PROVE AuthTypes'
  BY <1>18 DEF Host!TakeJoin, HostTypes, ServeTypes, AuthTypes, Host!Commands, Host!Nobody
<1>19. ASSUME Host!JoinDone PROVE AuthTypes'
  BY <1>19 DEF Host!JoinDone, HostTypes, ServeTypes, AuthTypes, Host!Commands, Host!Nobody
<1> QED
  BY <1>1, <1>2, <1>3, <1>4, <1>5, <1>6, <1>7, <1>8, <1>9, <1>10, <1>11, <1>12, <1>13, <1>14, <1>15, <1>16, <1>17, <1>18, <1>19
     DEF Host!HostNext, Host!Serve

\* A command sets out.
LEMMA HostSetsOut ==
  ASSUME HostTypes, NEW t \in Threads, NEW c \in Host!Commands, Host!Start(t, c)
  PROVE  /\ at' = [at EXCEPT ![t] = c.kind] /\ cmd' = [cmd EXCEPT ![t] = c]
         /\ c.kind \in {"new", "open", "login", "logout"}
BY CommandsAre DEF Host!Start, Host!Go

LEMMA HostDrains ==
  ASSUME HostTypes, NEW t \in Threads, Host!Drain(t)
  PROVE  /\ Head(todo[t]) \in Host!Commands /\ Host!Start(t, Head(todo[t])) /\ todo[t] \in Seq(Host!Commands)
         /\ todo' = [todo EXCEPT ![t] = Tail(@)] /\ at[t] = "idle" /\ todo[t] # <<>>
<1>1. Host!Start(t, Head(todo[t])) /\ at[t] = "idle" /\ todo[t] # <<>> /\ todo' = [todo EXCEPT ![t] = Tail(@)]
  BY DEF Host!Drain
<1>2. todo[t] \in Seq(Host!Commands)
  BY DEF HostTypes, DoorTypes
<1> QED
  BY <1>1, <1>2

\* One more worker, a changed one, and all of them gone over.
LEMMA WorkersGrow ==
  ASSUME NEW s \in Seq(Worker), NEW w \in Worker
  PROVE  /\ Append(s, w) \in Seq(Worker) /\ Len(s) + 1 \notin DOMAIN s
         /\ DOMAIN Append(s, w) = DOMAIN s \cup {Len(s) + 1}
         /\ Append(s, w)[Len(s) + 1] = w /\ \A i \in DOMAIN s : Append(s, w)[i] = s[i]
OBVIOUS

LEMMA WorkersKeep ==
  ASSUME NEW s \in Seq(Worker), NEW f, f = [i \in DOMAIN s |-> f[i]], \A i \in DOMAIN s : f[i] \in Worker
  PROVE  f \in Seq(Worker)
OBVIOUS

LEMMA HostSpawns ==
  ASSUME HostTypes, NEW t \in Threads, Host!Spawn(t)
  PROVE  \E w \in Worker :
           /\ w.generation = built[t] /\ sessions' = Append(sessions, w)
           /\ built' = [built EXCEPT ![t] = Len(sessions) + 1] /\ at' = [at EXCEPT ![t] = "insert"]
           /\ at[t] = "spawn" /\ Len(sessions) + 1 \in Nat \ {0}
<1>1. PICK id \in Host!Ids : sessions' = Append(sessions, [id |-> id, generation |-> built[t], alive |-> TRUE])
  BY CommandsAre DEF Host!Spawn, Host!SpawnWorker, Host!Ids, HostTypes, ServeTypes
<1>2. PICK w \in Worker : w = [id |-> id, generation |-> built[t], alive |-> TRUE]
  BY DEF Worker, HostTypes, ServeTypes
<1>3. w.generation = built[t] /\ sessions' = Append(sessions, w)
  BY <1>1, <1>2
<1>4. /\ built' = [built EXCEPT ![t] = Len(sessions) + 1] /\ at' = [at EXCEPT ![t] = "insert"]
      /\ at[t] = "spawn"
  BY DEF Host!Spawn, Host!Go
<1>5. Len(sessions) + 1 \in Nat \ {0}
  BY DEF HostTypes, WorkerTypes
<1> QED
  BY <1>3, <1>4, <1>5

LEMMA HostWalks ==
  ASSUME HostTypes, NEW t \in Threads, Host!Walk(t)
  PROVE  /\ sessions' \in Seq(Worker) /\ DOMAIN sessions' = DOMAIN sessions
         /\ \A i \in DOMAIN sessions :
              /\ sessions'[i].id = sessions[i].id /\ sessions'[i].alive = sessions[i].alive
              /\ sessions'[i].generation = IF i \in Host!Resident THEN world.generation ELSE sessions[i].generation
<1>1. sessions \in Seq(Worker) /\ world.generation \in Nat
  BY DEF HostTypes, WorkerTypes, AuthTypes
<1>2. sessions' = [i \in DOMAIN sessions |->
        IF i \in Host!Resident THEN [sessions[i] EXCEPT !.generation = world.generation] ELSE sessions[i]]
  BY DEF Host!Walk
<1>3. ASSUME NEW i \in DOMAIN sessions
      PROVE  /\ sessions'[i] \in Worker
             /\ sessions'[i].id = sessions[i].id /\ sessions'[i].alive = sessions[i].alive
             /\ sessions'[i].generation = IF i \in Host!Resident THEN world.generation ELSE sessions[i].generation
  <2>1. sessions[i] \in Worker
    BY <1>1
  <2>2. sessions'[i] = IF i \in Host!Resident THEN [sessions[i] EXCEPT !.generation = world.generation] ELSE sessions[i]
    BY <1>2
  <2>3. /\ [sessions[i] EXCEPT !.generation = world.generation] \in Worker
        /\ [sessions[i] EXCEPT !.generation = world.generation].id = sessions[i].id
        /\ [sessions[i] EXCEPT !.generation = world.generation].alive = sessions[i].alive
        /\ [sessions[i] EXCEPT !.generation = world.generation].generation = world.generation
    BY <1>1, <2>1 DEF Worker
  <2> QED
    BY <2>1, <2>2, <2>3
<1>4. PICK f : f = sessions'
  OBVIOUS
<1>5. f = [i \in DOMAIN sessions |-> f[i]] /\ DOMAIN f = DOMAIN sessions
  BY <1>2, <1>4
<1>6. f \in Seq(Worker)
  BY <1>1, <1>3, <1>4, <1>5, WorkersKeep
<1> QED
  BY <1>3, <1>4, <1>5, <1>6

LEMMA HostWorkerEnds ==
  ASSUME HostTypes, NEW i \in DOMAIN sessions, Host!WorkerEnds(i)
  PROVE  /\ sessions' \in Seq(Worker) /\ DOMAIN sessions' = DOMAIN sessions
         /\ \A j \in DOMAIN sessions :
              /\ sessions'[j].id = sessions[j].id /\ sessions'[j].generation = sessions[j].generation
              /\ sessions'[j].alive => sessions[j].alive
<1>1. sessions \in Seq(Worker)
  BY DEF HostTypes, WorkerTypes
<1>2. sessions' = [sessions EXCEPT ![i].alive = FALSE]
  BY DEF Host!WorkerEnds
<1>3. PICK w : w = [sessions[i] EXCEPT !.alive = FALSE]
  OBVIOUS
<1>4. w \in Worker /\ w.id = sessions[i].id /\ w.generation = sessions[i].generation /\ ~w.alive
  <2>1. sessions[i] \in Worker
    BY <1>1
  <2> QED
    BY <1>3, <2>1 DEF Worker
<1>5. sessions' = [sessions EXCEPT ![i] = w]
  BY <1>2, <1>3
<1>6. PICK f : f = sessions'
  OBVIOUS
<1>7. f \in Seq(Worker) /\ DOMAIN f = DOMAIN sessions /\ \A j \in DOMAIN sessions : f[j] = IF j = i THEN w ELSE sessions[j]
  BY <1>1, <1>4, <1>5, <1>6
<1> QED
  BY <1>4, <1>6, <1>7

LEMMA HostInserts ==
  ASSUME HostTypes, NEW t \in Threads, Host!Insert(t)
  PROVE  /\ at[t] = "insert" /\ at' = [at EXCEPT ![t] = "join"] /\ built[t] \in DOMAIN sessions /\ sessions' = sessions
         /\ sessions[built[t]].id \in Host!Ids
         /\ DOMAIN table' = DOMAIN table \cup {sessions[built[t]].id}
         /\ \A id \in DOMAIN table' : \/ id = sessions[built[t]].id /\ table'[id] = built[t]
                                      \/ id \in DOMAIN table /\ table'[id] = table[id]
         /\ gap' = IF t \in missed THEN gap \cup {built[t]} ELSE gap
<1>1. at[t] = "insert" /\ at' = [at EXCEPT ![t] = "join"] /\ sessions' = sessions
  BY DEF Host!Insert, Host!Go, Host!workerVars
<1>2. PICK i : i = built[t]
  OBVIOUS
<1>3. PICK new : new = sessions[i].id
  OBVIOUS
<1>4. i \in DOMAIN sessions /\ new \in Host!Ids
  <2>1. i \in DOMAIN sessions /\ sessions \in Seq(Worker)
    BY <1>1, <1>2 DEF HostTypes, WorkerTypes
  <2>2. sessions[i] \in Worker
    BY <2>1
  <2> QED
    BY <1>3, <2>1, <2>2 DEF Worker
<1>5. /\ table' = [id \in DOMAIN table \cup {new} |-> IF id = new THEN i ELSE table[id]]
      /\ gap' = IF t \in missed THEN gap \cup {i} ELSE gap
  BY <1>2, <1>3 DEF Host!Insert
<1>6. /\ DOMAIN table' = DOMAIN table \cup {new}
      /\ \A id \in DOMAIN table' : \/ id = new /\ table'[id] = i
                                   \/ id \in DOMAIN table /\ table'[id] = table[id]
  BY <1>5
<1> QED
  BY <1>1, <1>2, <1>3, <1>4, <1>5, <1>6

LEMMA HostKeepsWorkers == ASSUME HostTypes, DoorInv, Host!HostNext PROVE WorkerTypes'
<1> USE HostAssumption DEF Host!doorVars, Host!serveVars, Host!buildVars, Host!authVars, Host!workerVars, Host!windVars
<1>1. ASSUME Host!Attach PROVE WorkerTypes'
  <2>1. PICK w \in Worker : w = [id |-> BootFile, generation |-> world.generation, alive |-> TRUE]
    BY DEF Worker, Host!Ids, HostTypes, AuthTypes
  <2>2. /\ sessions' = Append(sessions, w) /\ table' = [id \in {BootFile} |-> 1]
        /\ UNCHANGED <<missed, gap, at, built>> /\ sessions = <<>>
    BY <1>1, <2>1 DEF Host!Attach, Host!SpawnWorker, DoorInv
  <2>3. BootFile \in Host!Ids /\ w.id = BootFile /\ Len(<<>>) + 1 = 1
    BY <2>1 DEF Host!Ids
  <2>4. sessions' \in Seq(Worker) /\ DOMAIN sessions' = DOMAIN sessions \cup {1} /\ sessions'[1] = w
    BY <2>2, <2>3, WorkersGrow DEF HostTypes, WorkerTypes
  <2> QED
    BY <2>2, <2>3, <2>4 DEF HostTypes, WorkerTypes
<1>2. ASSUME NEW t \in Threads, NEW c \in Host!Commands, Host!Enter(t, c) PROVE WorkerTypes'
  <2>1. UNCHANGED <<sessions, table, missed, gap, built>> /\ (at' = at \/ Host!Start(t, c))
    BY <1>2 DEF Host!Enter
  <2> QED
    BY <2>1, HostSetsOut DEF HostTypes, WorkerTypes, ServeTypes
<1>3. ASSUME NEW t \in Threads, Host!Drain(t) PROVE WorkerTypes'
  <2>1. UNCHANGED <<sessions, table, missed, gap, built>>
    BY <1>3 DEF Host!Drain
  <2>2. PICK k \in {"new", "open", "login", "logout"} : at' = [at EXCEPT ![t] = k]
    BY <1>3, HostDrains, HostSetsOut, Zenon
  <2> QED
    BY <2>1, <2>2 DEF HostTypes, WorkerTypes, ServeTypes
<1>4. ASSUME NEW t \in Threads, Host!Replay(t) PROVE WorkerTypes'
  BY <1>4 DEF Host!Replay, Host!Done, Host!Go, HostTypes, WorkerTypes, ServeTypes
<1>5. ASSUME NEW t \in Threads, Host!ReadGeneration(t) PROVE WorkerTypes'
  BY <1>5 DEF Host!ReadGeneration, Host!Go, HostTypes, WorkerTypes, ServeTypes
<1>6. ASSUME NEW t \in Threads, Host!Build(t) PROVE WorkerTypes'
  BY <1>6 DEF Host!Build, Host!Done, Host!Go, HostTypes, WorkerTypes, ServeTypes
<1>7. ASSUME NEW t \in Threads, Host!CheckGeneration(t) PROVE WorkerTypes'
  BY <1>7 DEF Host!CheckGeneration, Host!Go, HostTypes, WorkerTypes, ServeTypes
<1>8. ASSUME NEW t \in Threads, Host!Spawn(t) PROVE WorkerTypes'
  <2>1. UNCHANGED <<table, missed, gap>>
    BY <1>8 DEF Host!Spawn
  <2>2. PICK w \in Worker : /\ sessions' = Append(sessions, w) /\ built' = [built EXCEPT ![t] = Len(sessions) + 1]
                            /\ at' = [at EXCEPT ![t] = "insert"]
    BY <1>8, HostSpawns
  <2> QED
    BY <2>1, <2>2, WorkersGrow DEF HostTypes, WorkerTypes, ServeTypes
<1>9. ASSUME NEW t \in Threads, Host!Insert(t) PROVE WorkerTypes'
  <2>1. missed' \in SUBSET Threads /\ built' = built
    BY <1>9 DEF Host!Insert, HostTypes, WorkerTypes
  <2>2. \A id \in DOMAIN table' : table'[id] \in DOMAIN sessions /\ sessions[table'[id]].id = id
    BY <1>9, HostInserts DEF HostTypes, WorkerTypes
  <2>3. DOMAIN table' \subseteq Host!Ids
    BY <1>9, HostInserts DEF HostTypes, WorkerTypes
  <2>4. gap' \subseteq DOMAIN sessions
    <3>1. gap' \subseteq gap \cup {built[t]} /\ built[t] \in DOMAIN sessions
      BY <1>9, HostInserts, Zenon
    <3> QED
      BY <3>1 DEF HostTypes, WorkerTypes
  <2>5. \A u \in Threads : at'[u] \in {"insert", "join"} => built[u] \in DOMAIN sessions
    BY <1>9, HostInserts DEF HostTypes, WorkerTypes, ServeTypes
  <2>6. sessions' = sessions
    BY <1>9, HostInserts
  <2> QED
    BY <2>1, <2>2, <2>3, <2>4, <2>5, <2>6 DEF HostTypes, WorkerTypes
<1>10. ASSUME NEW t \in Threads, Host!PushJoin(t) PROVE WorkerTypes'
  BY <1>10 DEF Host!PushJoin, Host!Done, Host!Go, HostTypes, WorkerTypes, ServeTypes
<1>11. ASSUME NEW t \in Threads, Host!ClaimAuth(t) PROVE WorkerTypes'
  BY <1>11 DEF Host!ClaimAuth, Host!Go, HostTypes, WorkerTypes, ServeTypes
<1>12. ASSUME NEW t \in Threads, Host!WriteAuth(t) PROVE WorkerTypes'
  BY <1>12 DEF Host!WriteAuth, Host!Done, Host!Go, Host!Stored, HostTypes, WorkerTypes, ServeTypes
<1>13. ASSUME NEW t \in Threads, Host!SwapWorld(t) PROVE WorkerTypes'
  BY <1>13 DEF Host!SwapWorld, Host!Go, HostTypes, WorkerTypes, ServeTypes
<1>14. ASSUME NEW t \in Threads, Host!Walk(t) PROVE WorkerTypes'
  <2>1. /\ UNCHANGED <<table, gap, built>> /\ missed' \in SUBSET Threads
        /\ \A u \in Threads : at'[u] \in {"insert", "join"} => at[u] \in {"insert", "join"}
    BY <1>14 DEF Host!Walk, Host!Go, HostTypes, WorkerTypes, ServeTypes
  <2>2. /\ sessions' \in Seq(Worker) /\ DOMAIN sessions' = DOMAIN sessions
        /\ \A j \in DOMAIN sessions : sessions'[j].id = sessions[j].id
    BY <1>14, HostWalks
  <2> QED
    BY <2>1, <2>2 DEF HostTypes, WorkerTypes
<1>15. ASSUME NEW t \in Threads, Host!AnnounceCatalog(t) PROVE WorkerTypes'
  BY <1>15 DEF Host!AnnounceCatalog, Host!Done, Host!Go, HostTypes, WorkerTypes, ServeTypes
<1>16. ASSUME Host!Close PROVE WorkerTypes'
  BY <1>16 DEF Host!Close, HostTypes, WorkerTypes, ServeTypes
<1>17. ASSUME NEW i \in DOMAIN sessions, Host!WorkerEnds(i) PROVE WorkerTypes'
  <2>1. UNCHANGED <<table, missed, gap, at, built>>
    BY <1>17 DEF Host!WorkerEnds
  <2>2. /\ sessions' \in Seq(Worker) /\ DOMAIN sessions' = DOMAIN sessions
        /\ \A j \in DOMAIN sessions : sessions'[j].id = sessions[j].id
    BY <1>17, HostWorkerEnds
  <2> QED
    BY <2>1, <2>2 DEF HostTypes, WorkerTypes
<1>18. ASSUME Host!TakeJoin PROVE WorkerTypes'
  BY <1>18 DEF Host!TakeJoin, HostTypes, WorkerTypes, ServeTypes
<1>19. ASSUME Host!JoinDone PROVE WorkerTypes'
  BY <1>19 DEF Host!JoinDone, HostTypes, WorkerTypes, ServeTypes
<1> QED
  BY <1>1, <1>2, <1>3, <1>4, <1>5, <1>6, <1>7, <1>8, <1>9, <1>10, <1>11, <1>12, <1>13, <1>14, <1>15, <1>16, <1>17, <1>18, <1>19
     DEF Host!HostNext, Host!Serve

LEMMA HostKeepsWinds == ASSUME HostTypes, Host!HostNext PROVE WindTypes'
<1> USE HostAssumption DEF Host!doorVars, Host!serveVars, Host!buildVars, Host!authVars, Host!workerVars, Host!windVars
<1>1. ASSUME Host!Attach PROVE WindTypes'
  BY <1>1 DEF Host!Attach, Host!SpawnWorker, HostTypes, ServeTypes, WindTypes
<1>2. ASSUME NEW t \in Threads, NEW c \in Host!Commands, Host!Enter(t, c) PROVE WindTypes'
  BY <1>2 DEF Host!Enter, Host!Start, Host!Go, HostTypes, ServeTypes, WindTypes
<1>3. ASSUME NEW t \in Threads, Host!Drain(t) PROVE WindTypes'
  BY <1>3 DEF Host!Drain, Host!Start, Host!Go, HostTypes, ServeTypes, WindTypes
<1>4. ASSUME NEW t \in Threads, Host!Replay(t) PROVE WindTypes'
  BY <1>4 DEF Host!Replay, Host!Done, Host!Go, HostTypes, ServeTypes, WindTypes
<1>5. ASSUME NEW t \in Threads, Host!ReadGeneration(t) PROVE WindTypes'
  BY <1>5 DEF Host!ReadGeneration, Host!Go, HostTypes, ServeTypes, WindTypes
<1>6. ASSUME NEW t \in Threads, Host!Build(t) PROVE WindTypes'
  BY <1>6 DEF Host!Build, Host!Done, Host!Go, HostTypes, ServeTypes, WindTypes
<1>7. ASSUME NEW t \in Threads, Host!CheckGeneration(t) PROVE WindTypes'
  BY <1>7 DEF Host!CheckGeneration, Host!Go, HostTypes, ServeTypes, WindTypes
<1>8. ASSUME NEW t \in Threads, Host!Spawn(t) PROVE WindTypes'
  BY <1>8 DEF Host!Spawn, Host!SpawnWorker, Host!Go, HostTypes, ServeTypes, WindTypes
<1>9. ASSUME NEW t \in Threads, Host!Insert(t) PROVE WindTypes'
  BY <1>9 DEF Host!Insert, Host!Go, HostTypes, ServeTypes, WindTypes
<1>10. ASSUME NEW t \in Threads, Host!PushJoin(t) PROVE WindTypes'
  BY <1>10 DEF Host!PushJoin, Host!Done, Host!Go, HostTypes, ServeTypes, WindTypes
<1>11. ASSUME NEW t \in Threads, Host!ClaimAuth(t) PROVE WindTypes'
  BY <1>11 DEF Host!ClaimAuth, Host!Go, HostTypes, ServeTypes, WindTypes
<1>12. ASSUME NEW t \in Threads, Host!WriteAuth(t) PROVE WindTypes'
  BY <1>12 DEF Host!WriteAuth, Host!Done, Host!Go, Host!Stored, HostTypes, ServeTypes, WindTypes
<1>13. ASSUME NEW t \in Threads, Host!SwapWorld(t) PROVE WindTypes'
  BY <1>13 DEF Host!SwapWorld, Host!Go, HostTypes, ServeTypes, WindTypes
<1>14. ASSUME NEW t \in Threads, Host!Walk(t) PROVE WindTypes'
  BY <1>14 DEF Host!Walk, Host!Go, Host!Resident, HostTypes, ServeTypes, WindTypes
<1>15. ASSUME NEW t \in Threads, Host!AnnounceCatalog(t) PROVE WindTypes'
  BY <1>15 DEF Host!AnnounceCatalog, Host!Done, Host!Go, HostTypes, ServeTypes, WindTypes
<1>16. ASSUME Host!Close PROVE WindTypes'
  BY <1>16 DEF Host!Close, HostTypes, ServeTypes, WindTypes
<1>17. ASSUME NEW i \in DOMAIN sessions, Host!WorkerEnds(i) PROVE WindTypes'
  BY <1>17 DEF Host!WorkerEnds, HostTypes, ServeTypes, WindTypes
<1>18. ASSUME Host!TakeJoin PROVE WindTypes'
  <2>1. joins \in Seq(Nat) /\ awaited \in Nat
    BY DEF HostTypes, WindTypes
  <2>2. \/ UNCHANGED <<joins, awaited>>
        \/ joins # <<>> /\ awaited' = Head(joins) /\ joins' = Tail(joins)
    BY <1>18 DEF Host!TakeJoin
  <2>3. joins # <<>> => Head(joins) \in Nat /\ Tail(joins) \in Seq(Nat)
    BY <2>1
  <2> QED
    BY <2>1, <2>2, <2>3 DEF WindTypes
<1>19. ASSUME Host!JoinDone PROVE WindTypes'
  BY <1>19 DEF Host!JoinDone, HostTypes, ServeTypes, WindTypes
<1> QED
  BY <1>1, <1>2, <1>3, <1>4, <1>5, <1>6, <1>7, <1>8, <1>9, <1>10, <1>11, <1>12, <1>13, <1>14, <1>15, <1>16, <1>17, <1>18, <1>19
     DEF Host!HostNext, Host!Serve

\* Every command that came is answered, parked, still to be drained, or being served.
Busy == {t \in Threads : at[t] # "idle"}
CountInv ==
  /\ asked \in Nat /\ answered \in Nat /\ IsFiniteSet(Busy)
  /\ asked = answered + Len(parked) + Len(todo[Main]) + Cardinality(Busy)

\* Exactly the writer is in a login or logout; only its swap finds the file ahead of the
\* world, and only behind its swap is the catalog behind.
AuthInv ==
  /\ \A t \in Threads : at[t] \in Writing <=> writer = t
  /\ (\A t \in Threads : at[t] # "swap") => keys = world.keys
  /\ armed /\ (\A t \in Threads : at[t] \notin {"walk", "announce"}) => catalog = <<world.keys>>

\* While no walk is due: a resident session is on the world's generation or was missed, and so
\* is what a thread that the last walk did not pass is about to spawn and to insert.
GapInv ==
  (\A t \in Threads : at[t] # "walk") =>
    /\ \A id \in DOMAIN table : sessions[table[id]].generation = world.generation \/ table[id] \in gap
    /\ \A t \in Threads \ missed :
         /\ at[t] = "spawn" => built[t] = world.generation
         /\ at[t] = "insert" => sessions[built[t]].generation = world.generation
PaceInv ==
  \A t \in Threads :
    /\ at[t] \in {"build", "check"} => before[t] <= world.generation
    /\ at[t] = "check" => before[t] <= built[t] /\ built[t] <= world.generation

\* A live worker is awaited, to be awaited, or its thread has not yet said so.
Joined(i) ==
  \/ i = awaited \/ (\E n \in DOMAIN joins : joins[n] = i)
  \/ \E t \in Threads : at[t] \in {"insert", "join"} /\ built[t] = i
JoinInv == \A i \in DOMAIN sessions : sessions[i].alive => Joined(i)

LEMMA HostKeepsDoors == ASSUME HostTypes, DoorInv, Host!HostNext PROVE DoorInv'
<1> USE HostAssumption DEF Host!doorVars, Host!serveVars, Host!buildVars, Host!authVars, Host!workerVars, Host!windVars
<1>1. ASSUME Host!Attach PROVE DoorInv'
  BY <1>1 DEF Host!Attach, Host!SpawnWorker, HostTypes, DoorTypes, WorkerTypes, ServeTypes, DoorInv, Stages
<1>2. ASSUME NEW t \in Threads, NEW c \in Host!Commands, Host!Enter(t, c) PROVE DoorInv'
  <2>1. UNCHANGED <<armed, todo, sessions>> /\ (~armed => UNCHANGED at) /\ (armed => UNCHANGED parked)
    BY <1>2 DEF Host!Enter
  <2> QED
    BY <2>1 DEF DoorInv
<1>3. ASSUME NEW t \in Threads, Host!Drain(t) PROVE DoorInv'
  <2>1. UNCHANGED <<armed, parked>> /\ todo[t] # <<>> /\ todo' = [todo EXCEPT ![t] = Tail(@)]
    BY <1>3 DEF Host!Drain
  <2>2. armed /\ t = Main
    BY <2>1 DEF DoorInv
  <2> QED
    BY <2>1, <2>2 DEF DoorInv, HostTypes, DoorTypes
<1>4. ASSUME NEW t \in Threads, Host!Replay(t) PROVE DoorInv'
  BY <1>4 DEF Host!Replay, Host!Done, Host!Go, HostTypes, DoorTypes, WorkerTypes, ServeTypes, DoorInv, Stages
<1>5. ASSUME NEW t \in Threads, Host!ReadGeneration(t) PROVE DoorInv'
  BY <1>5 DEF Host!ReadGeneration, Host!Go, HostTypes, DoorTypes, WorkerTypes, ServeTypes, DoorInv, Stages
<1>6. ASSUME NEW t \in Threads, Host!Build(t) PROVE DoorInv'
  BY <1>6 DEF Host!Build, Host!Done, Host!Go, HostTypes, DoorTypes, WorkerTypes, ServeTypes, DoorInv, Stages
<1>7. ASSUME NEW t \in Threads, Host!CheckGeneration(t) PROVE DoorInv'
  BY <1>7 DEF Host!CheckGeneration, Host!Go, HostTypes, DoorTypes, WorkerTypes, ServeTypes, DoorInv, Stages
<1>8. ASSUME NEW t \in Threads, Host!Spawn(t) PROVE DoorInv'
  <2>1. at[t] = "spawn" /\ UNCHANGED <<armed, parked, todo>>
    BY <1>8 DEF Host!Spawn
  <2>2. armed
    BY <2>1 DEF DoorInv
  <2> QED
    BY <2>1, <2>2 DEF DoorInv
<1>9. ASSUME NEW t \in Threads, Host!Insert(t) PROVE DoorInv'
  BY <1>9 DEF Host!Insert, Host!Go, HostTypes, DoorTypes, WorkerTypes, ServeTypes, DoorInv, Stages
<1>10. ASSUME NEW t \in Threads, Host!PushJoin(t) PROVE DoorInv'
  BY <1>10 DEF Host!PushJoin, Host!Done, Host!Go, HostTypes, DoorTypes, WorkerTypes, ServeTypes, DoorInv, Stages
<1>11. ASSUME NEW t \in Threads, Host!ClaimAuth(t) PROVE DoorInv'
  BY <1>11 DEF Host!ClaimAuth, Host!Go, HostTypes, DoorTypes, WorkerTypes, ServeTypes, DoorInv, Stages
<1>12. ASSUME NEW t \in Threads, Host!WriteAuth(t) PROVE DoorInv'
  BY <1>12 DEF Host!WriteAuth, Host!Done, Host!Go, Host!Stored, HostTypes, DoorTypes, WorkerTypes, ServeTypes, DoorInv, Stages
<1>13. ASSUME NEW t \in Threads, Host!SwapWorld(t) PROVE DoorInv'
  BY <1>13 DEF Host!SwapWorld, Host!Go, HostTypes, DoorTypes, WorkerTypes, ServeTypes, DoorInv, Stages
<1>14. ASSUME NEW t \in Threads, Host!Walk(t) PROVE DoorInv'
  <2>1. at[t] = "walk" /\ UNCHANGED <<armed, parked, todo>>
    BY <1>14 DEF Host!Walk
  <2>2. armed
    BY <2>1 DEF DoorInv
  <2> QED
    BY <2>1, <2>2 DEF DoorInv
<1>15. ASSUME NEW t \in Threads, Host!AnnounceCatalog(t) PROVE DoorInv'
  BY <1>15 DEF Host!AnnounceCatalog, Host!Done, Host!Go, HostTypes, DoorTypes, WorkerTypes, ServeTypes, DoorInv, Stages
<1>16. ASSUME Host!Close PROVE DoorInv'
  BY <1>16 DEF Host!Close, HostTypes, DoorTypes, WorkerTypes, ServeTypes, DoorInv, Stages
<1>17. ASSUME NEW i \in DOMAIN sessions, Host!WorkerEnds(i) PROVE DoorInv'
  <2>1. UNCHANGED <<armed, parked, todo, at>>
    BY <1>17 DEF Host!WorkerEnds
  <2>2. sessions # <<>>
    OBVIOUS
  <2>3. armed
    BY <2>2 DEF DoorInv
  <2> QED
    BY <2>1, <2>3 DEF DoorInv
<1>18. ASSUME Host!TakeJoin PROVE DoorInv'
  BY <1>18 DEF Host!TakeJoin, HostTypes, DoorTypes, WorkerTypes, ServeTypes, DoorInv, Stages
<1>19. ASSUME Host!JoinDone PROVE DoorInv'
  BY <1>19 DEF Host!JoinDone, HostTypes, DoorTypes, WorkerTypes, ServeTypes, DoorInv, Stages
<1> QED
  BY <1>1, <1>2, <1>3, <1>4, <1>5, <1>6, <1>7, <1>8, <1>9, <1>10, <1>11, <1>12, <1>13, <1>14, <1>15, <1>16, <1>17, <1>18, <1>19
     DEF Host!HostNext, Host!Serve

LEMMA HostKeepsAuthInv == ASSUME HostTypes, DoorInv, AuthInv, Host!HostNext PROVE AuthInv'
<1> USE HostAssumption DEF Host!doorVars, Host!serveVars, Host!buildVars, Host!authVars, Host!workerVars, Host!windVars
<1>1. ASSUME Host!Attach PROVE AuthInv'
  BY <1>1 DEF Host!Attach, Host!SpawnWorker, HostTypes, DoorInv, AuthTypes, ServeTypes, AuthInv, Writing, Host!Nobody
<1>2. ASSUME NEW t \in Threads, NEW c \in Host!Commands, Host!Enter(t, c) PROVE AuthInv'
  <2>1. UNCHANGED <<armed, keys, world, catalog, writer>> /\ (at' = at \/ (at[t] = "idle" /\ Host!Start(t, c)))
    BY <1>2 DEF Host!Enter
  <2> QED
    BY <2>1, HostSetsOut DEF AuthInv, HostTypes, ServeTypes, Writing
<1>3. ASSUME NEW t \in Threads, Host!Drain(t) PROVE AuthInv'
  <2>1. UNCHANGED <<armed, keys, world, catalog, writer>> /\ at[t] = "idle"
    BY <1>3 DEF Host!Drain
  <2>2. PICK k \in {"new", "open", "login", "logout"} : at' = [at EXCEPT ![t] = k]
    BY <1>3, HostDrains, HostSetsOut, Zenon
  <2> QED
    BY <2>1, <2>2 DEF AuthInv, HostTypes, ServeTypes, Writing
<1>4. ASSUME NEW t \in Threads, Host!Replay(t) PROVE AuthInv'
  BY <1>4 DEF Host!Replay, Host!Done, Host!Go, HostTypes, DoorInv, AuthTypes, ServeTypes, AuthInv, Writing, Host!Nobody
<1>5. ASSUME NEW t \in Threads, Host!ReadGeneration(t) PROVE AuthInv'
  BY <1>5 DEF Host!ReadGeneration, Host!Go, HostTypes, DoorInv, AuthTypes, ServeTypes, AuthInv, Writing, Host!Nobody
<1>6. ASSUME NEW t \in Threads, Host!Build(t) PROVE AuthInv'
  BY <1>6 DEF Host!Build, Host!Done, Host!Go, HostTypes, DoorInv, AuthTypes, ServeTypes, AuthInv, Writing, Host!Nobody
<1>7. ASSUME NEW t \in Threads, Host!CheckGeneration(t) PROVE AuthInv'
  BY <1>7 DEF Host!CheckGeneration, Host!Go, HostTypes, DoorInv, AuthTypes, ServeTypes, AuthInv, Writing, Host!Nobody
<1>8. ASSUME NEW t \in Threads, Host!Spawn(t) PROVE AuthInv'
  BY <1>8 DEF Host!Spawn, Host!SpawnWorker, Host!Go, HostTypes, DoorInv, AuthTypes, ServeTypes, AuthInv, Writing, Host!Nobody
<1>9. ASSUME NEW t \in Threads, Host!Insert(t) PROVE AuthInv'
  BY <1>9 DEF Host!Insert, Host!Go, HostTypes, DoorInv, AuthTypes, ServeTypes, AuthInv, Writing, Host!Nobody
<1>10. ASSUME NEW t \in Threads, Host!PushJoin(t) PROVE AuthInv'
  BY <1>10 DEF Host!PushJoin, Host!Done, Host!Go, HostTypes, DoorInv, AuthTypes, ServeTypes, AuthInv, Writing, Host!Nobody
<1>11. ASSUME NEW t \in Threads, Host!ClaimAuth(t) PROVE AuthInv'
  BY <1>11 DEF Host!ClaimAuth, Host!Go, HostTypes, DoorInv, AuthTypes, ServeTypes, AuthInv, Writing, Host!Nobody
<1>12. ASSUME NEW t \in Threads, Host!WriteAuth(t) PROVE AuthInv'
  BY <1>12 DEF Host!WriteAuth, Host!Done, Host!Go, Host!Stored, HostTypes, DoorInv, AuthTypes, ServeTypes, AuthInv, Writing, Host!Nobody
<1>13. ASSUME NEW t \in Threads, Host!SwapWorld(t) PROVE AuthInv'
  BY <1>13 DEF Host!SwapWorld, Host!Go, HostTypes, DoorInv, AuthTypes, ServeTypes, AuthInv, Writing, Host!Nobody
<1>14. ASSUME NEW t \in Threads, Host!Walk(t) PROVE AuthInv'
  BY <1>14 DEF Host!Walk, Host!Go, Host!Resident, HostTypes, DoorInv, AuthTypes, ServeTypes, AuthInv, Writing, Host!Nobody
<1>15. ASSUME NEW t \in Threads, Host!AnnounceCatalog(t) PROVE AuthInv'
  BY <1>15 DEF Host!AnnounceCatalog, Host!Done, Host!Go, HostTypes, DoorInv, AuthTypes, ServeTypes, AuthInv, Writing, Host!Nobody
<1>16. ASSUME Host!Close PROVE AuthInv'
  BY <1>16 DEF Host!Close, HostTypes, DoorInv, AuthTypes, ServeTypes, AuthInv, Writing, Host!Nobody
<1>17. ASSUME NEW i \in DOMAIN sessions, Host!WorkerEnds(i) PROVE AuthInv'
  BY <1>17 DEF Host!WorkerEnds, HostTypes, DoorInv, AuthTypes, ServeTypes, AuthInv, Writing, Host!Nobody
<1>18. ASSUME Host!TakeJoin PROVE AuthInv'
  BY <1>18 DEF Host!TakeJoin, HostTypes, DoorInv, AuthTypes, ServeTypes, AuthInv, Writing, Host!Nobody
<1>19. ASSUME Host!JoinDone PROVE AuthInv'
  BY <1>19 DEF Host!JoinDone, HostTypes, DoorInv, AuthTypes, ServeTypes, AuthInv, Writing, Host!Nobody
<1> QED
  BY <1>1, <1>2, <1>3, <1>4, <1>5, <1>6, <1>7, <1>8, <1>9, <1>10, <1>11, <1>12, <1>13, <1>14, <1>15, <1>16, <1>17, <1>18, <1>19
     DEF Host!HostNext, Host!Serve

LEMMA HostKeepsPace == ASSUME HostTypes, PaceInv, AuthInv, Host!HostNext PROVE PaceInv'
<1> USE HostAssumption DEF Host!doorVars, Host!serveVars, Host!buildVars, Host!authVars, Host!workerVars, Host!windVars
<1>1. ASSUME Host!Attach PROVE PaceInv'
  BY <1>1 DEF Host!Attach, Host!SpawnWorker, HostTypes, AuthTypes, ServeTypes, PaceInv
<1>2. ASSUME NEW t \in Threads, NEW c \in Host!Commands, Host!Enter(t, c) PROVE PaceInv'
  <2>1. UNCHANGED <<before, built, world>> /\ (at' = at \/ (at[t] = "idle" /\ Host!Start(t, c)))
    BY <1>2 DEF Host!Enter
  <2> QED
    BY <2>1, HostSetsOut DEF PaceInv, HostTypes, ServeTypes
<1>3. ASSUME NEW t \in Threads, Host!Drain(t) PROVE PaceInv'
  <2>1. UNCHANGED <<before, built, world>> /\ at[t] = "idle"
    BY <1>3 DEF Host!Drain
  <2>2. PICK k \in {"new", "open", "login", "logout"} : at' = [at EXCEPT ![t] = k]
    BY <1>3, HostDrains, HostSetsOut, Zenon
  <2> QED
    BY <2>1, <2>2 DEF PaceInv, HostTypes, ServeTypes
<1>4. ASSUME NEW t \in Threads, Host!Replay(t) PROVE PaceInv'
  BY <1>4 DEF Host!Replay, Host!Done, Host!Go, HostTypes, AuthTypes, ServeTypes, PaceInv
<1>5. ASSUME NEW t \in Threads, Host!ReadGeneration(t) PROVE PaceInv'
  BY <1>5 DEF Host!ReadGeneration, Host!Go, HostTypes, AuthTypes, ServeTypes, PaceInv
<1>6. ASSUME NEW t \in Threads, Host!Build(t) PROVE PaceInv'
  BY <1>6 DEF Host!Build, Host!Done, Host!Go, HostTypes, AuthTypes, ServeTypes, PaceInv
<1>7. ASSUME NEW t \in Threads, Host!CheckGeneration(t) PROVE PaceInv'
  BY <1>7 DEF Host!CheckGeneration, Host!Go, HostTypes, AuthTypes, ServeTypes, PaceInv
<1>8. ASSUME NEW t \in Threads, Host!Spawn(t) PROVE PaceInv'
  BY <1>8 DEF Host!Spawn, Host!SpawnWorker, Host!Go, HostTypes, AuthTypes, ServeTypes, PaceInv
<1>9. ASSUME NEW t \in Threads, Host!Insert(t) PROVE PaceInv'
  BY <1>9 DEF Host!Insert, Host!Go, HostTypes, AuthTypes, ServeTypes, PaceInv
<1>10. ASSUME NEW t \in Threads, Host!PushJoin(t) PROVE PaceInv'
  BY <1>10 DEF Host!PushJoin, Host!Done, Host!Go, HostTypes, AuthTypes, ServeTypes, PaceInv
<1>11. ASSUME NEW t \in Threads, Host!ClaimAuth(t) PROVE PaceInv'
  BY <1>11 DEF Host!ClaimAuth, Host!Go, HostTypes, AuthTypes, ServeTypes, PaceInv
<1>12. ASSUME NEW t \in Threads, Host!WriteAuth(t) PROVE PaceInv'
  BY <1>12 DEF Host!WriteAuth, Host!Done, Host!Go, Host!Stored, HostTypes, AuthTypes, ServeTypes, PaceInv
<1>13. ASSUME NEW t \in Threads, Host!SwapWorld(t) PROVE PaceInv'
  BY <1>13 DEF Host!SwapWorld, Host!Go, HostTypes, AuthTypes, ServeTypes, PaceInv
<1>14. ASSUME NEW t \in Threads, Host!Walk(t) PROVE PaceInv'
  BY <1>14 DEF Host!Walk, Host!Go, Host!Resident, HostTypes, AuthTypes, ServeTypes, PaceInv
<1>15. ASSUME NEW t \in Threads, Host!AnnounceCatalog(t) PROVE PaceInv'
  BY <1>15 DEF Host!AnnounceCatalog, Host!Done, Host!Go, HostTypes, AuthTypes, ServeTypes, PaceInv
<1>16. ASSUME Host!Close PROVE PaceInv'
  BY <1>16 DEF Host!Close, HostTypes, AuthTypes, ServeTypes, PaceInv
<1>17. ASSUME NEW i \in DOMAIN sessions, Host!WorkerEnds(i) PROVE PaceInv'
  BY <1>17 DEF Host!WorkerEnds, HostTypes, AuthTypes, ServeTypes, PaceInv
<1>18. ASSUME Host!TakeJoin PROVE PaceInv'
  BY <1>18 DEF Host!TakeJoin, HostTypes, AuthTypes, ServeTypes, PaceInv
<1>19. ASSUME Host!JoinDone PROVE PaceInv'
  BY <1>19 DEF Host!JoinDone, HostTypes, AuthTypes, ServeTypes, PaceInv
<1> QED
  BY <1>1, <1>2, <1>3, <1>4, <1>5, <1>6, <1>7, <1>8, <1>9, <1>10, <1>11, <1>12, <1>13, <1>14, <1>15, <1>16, <1>17, <1>18, <1>19
     DEF Host!HostNext, Host!Serve

LEMMA HostKeepsGap == ASSUME HostTypes, DoorInv, PaceInv, GapInv, Host!HostNext PROVE GapInv'
<1> USE HostAssumption DEF Host!doorVars, Host!serveVars, Host!buildVars, Host!authVars, Host!workerVars, Host!windVars
<1>1. ASSUME Host!Attach PROVE GapInv'
  <2>1. PICK w \in Worker : w = [id |-> BootFile, generation |-> world.generation, alive |-> TRUE]
    BY DEF Worker, Host!Ids, HostTypes, AuthTypes
  <2>2. /\ sessions' = Append(sessions, w) /\ table' = [id \in {BootFile} |-> 1]
        /\ UNCHANGED <<missed, gap, at, built, world>> /\ sessions = <<>> /\ \A t \in Threads : at[t] = "idle"
    BY <1>1, <2>1 DEF Host!Attach, Host!SpawnWorker, DoorInv
  <2>3. sessions'[1] = w
    BY <2>2, WorkersGrow DEF HostTypes, WorkerTypes
  <2> QED
    BY <2>1, <2>2, <2>3 DEF GapInv
<1>2. ASSUME NEW t \in Threads, NEW c \in Host!Commands, Host!Enter(t, c) PROVE GapInv'
  <2>1. UNCHANGED <<built, world, table, sessions, missed, gap>> /\ (at' = at \/ (at[t] = "idle" /\ Host!Start(t, c)))
    BY <1>2 DEF Host!Enter
  <2> QED
    BY <2>1, HostSetsOut DEF GapInv, HostTypes, ServeTypes
<1>3. ASSUME NEW t \in Threads, Host!Drain(t) PROVE GapInv'
  <2>1. UNCHANGED <<built, world, table, sessions, missed, gap>> /\ at[t] = "idle"
    BY <1>3 DEF Host!Drain
  <2>2. PICK k \in {"new", "open", "login", "logout"} : at' = [at EXCEPT ![t] = k]
    BY <1>3, HostDrains, HostSetsOut, Zenon
  <2> QED
    BY <2>1, <2>2 DEF GapInv, HostTypes, ServeTypes
<1>4. ASSUME NEW t \in Threads, Host!Replay(t) PROVE GapInv'
  BY <1>4 DEF Host!Replay, Host!Done, Host!Go, HostTypes, WorkerTypes, AuthTypes, ServeTypes, PaceInv, GapInv
<1>5. ASSUME NEW t \in Threads, Host!ReadGeneration(t) PROVE GapInv'
  BY <1>5 DEF Host!ReadGeneration, Host!Go, HostTypes, WorkerTypes, AuthTypes, ServeTypes, PaceInv, GapInv
<1>6. ASSUME NEW t \in Threads, Host!Build(t) PROVE GapInv'
  BY <1>6 DEF Host!Build, Host!Done, Host!Go, HostTypes, WorkerTypes, AuthTypes, ServeTypes, PaceInv, GapInv
<1>7. ASSUME NEW t \in Threads, Host!CheckGeneration(t) PROVE GapInv'
  BY <1>7 DEF Host!CheckGeneration, Host!Go, HostTypes, WorkerTypes, AuthTypes, ServeTypes, PaceInv, GapInv
<1>8. ASSUME NEW t \in Threads, Host!Spawn(t) PROVE GapInv'
  <2>1. UNCHANGED <<table, missed, gap, world>>
    BY <1>8 DEF Host!Spawn
  <2>2. PICK w \in Worker : /\ w.generation = built[t] /\ sessions' = Append(sessions, w)
                            /\ built' = [built EXCEPT ![t] = Len(sessions) + 1]
                            /\ at' = [at EXCEPT ![t] = "insert"] /\ at[t] = "spawn"
    BY <1>8, HostSpawns
  <2>3. /\ sessions'[Len(sessions) + 1] = w /\ \A i \in DOMAIN sessions : sessions'[i] = sessions[i]
    BY <2>2, WorkersGrow DEF HostTypes, WorkerTypes
  <2>4. /\ built'[t] = Len(sessions) + 1 /\ at'[t] = "insert"
        /\ \A u \in Threads : u # t => built'[u] = built[u] /\ at'[u] = at[u]
    BY <2>2 DEF HostTypes, ServeTypes
  <2> SUFFICES ASSUME \A u \in Threads : at'[u] # "walk" PROVE GapInv'
    BY DEF GapInv
  <2>5. \A u \in Threads : at[u] # "walk"
    BY <2>2, <2>4
  <2>6. \A id \in DOMAIN table : sessions'[table[id]].generation = world.generation \/ table[id] \in gap
    BY <2>3, <2>5 DEF GapInv, HostTypes, WorkerTypes
  <2>7. ASSUME NEW u \in Threads \ missed
        PROVE  /\ at'[u] = "spawn" => built'[u] = world.generation
               /\ at'[u] = "insert" => sessions'[built'[u]].generation = world.generation
    <3>1. CASE u = t
      BY <2>2, <2>3, <2>4, <2>5, <2>7, <3>1 DEF GapInv
    <3>2. CASE u # t
      <4>1. at[u] = "insert" => built[u] \in DOMAIN sessions
        BY DEF HostTypes, WorkerTypes
      <4> QED
        BY <2>3, <2>4, <2>5, <2>7, <3>2, <4>1 DEF GapInv
    <3> QED
      BY <3>1, <3>2
  <2> QED
    BY <2>1, <2>6, <2>7 DEF GapInv
<1>9. ASSUME NEW t \in Threads, Host!Insert(t) PROVE GapInv'
  <2>1. UNCHANGED <<world, built>> /\ missed' = missed \ {t}
    BY <1>9 DEF Host!Insert
  <2>2. /\ at[t] = "insert" /\ at' = [at EXCEPT ![t] = "join"] /\ sessions' = sessions
        /\ \A id \in DOMAIN table' : \/ id = sessions[built[t]].id /\ table'[id] = built[t]
                                     \/ id \in DOMAIN table /\ table'[id] = table[id]
        /\ gap' = IF t \in missed THEN gap \cup {built[t]} ELSE gap
    BY <1>9, HostInserts
  <2>3. at'[t] = "join" /\ \A u \in Threads : u # t => at'[u] = at[u]
    BY <2>2 DEF HostTypes, ServeTypes
  <2> SUFFICES ASSUME \A u \in Threads : at'[u] # "walk" PROVE GapInv'
    BY DEF GapInv
  <2>4. \A u \in Threads : at[u] # "walk"
    BY <2>2, <2>3
  <2>5. sessions[built[t]].generation = world.generation \/ built[t] \in gap'
    BY <2>2, <2>4 DEF GapInv
  <2>6. ASSUME NEW id \in DOMAIN table'
        PROVE  sessions[table'[id]].generation = world.generation \/ table'[id] \in gap'
    <3>1. CASE table'[id] = built[t]
      BY <2>5, <3>1
    <3>2. CASE id \in DOMAIN table /\ table'[id] = table[id]
      BY <2>2, <2>4, <3>2 DEF GapInv
    <3> QED
      BY <2>2, <3>1, <3>2
  <2>7. ASSUME NEW u \in Threads \ missed'
        PROVE  /\ at'[u] = "spawn" => built[u] = world.generation
               /\ at'[u] = "insert" => sessions[built[u]].generation = world.generation
    BY <2>1, <2>3, <2>4, <2>7 DEF GapInv
  <2> QED
    BY <2>1, <2>2, <2>6, <2>7 DEF GapInv
<1>10. ASSUME NEW t \in Threads, Host!PushJoin(t) PROVE GapInv'
  BY <1>10 DEF Host!PushJoin, Host!Done, Host!Go, HostTypes, WorkerTypes, AuthTypes, ServeTypes, PaceInv, GapInv
<1>11. ASSUME NEW t \in Threads, Host!ClaimAuth(t) PROVE GapInv'
  BY <1>11 DEF Host!ClaimAuth, Host!Go, HostTypes, WorkerTypes, AuthTypes, ServeTypes, PaceInv, GapInv
<1>12. ASSUME NEW t \in Threads, Host!WriteAuth(t) PROVE GapInv'
  BY <1>12 DEF Host!WriteAuth, Host!Done, Host!Go, Host!Stored, HostTypes, WorkerTypes, AuthTypes, ServeTypes, PaceInv, GapInv
<1>13. ASSUME NEW t \in Threads, Host!SwapWorld(t) PROVE GapInv'
  BY <1>13 DEF Host!SwapWorld, Host!Go, HostTypes, WorkerTypes, AuthTypes, ServeTypes, PaceInv, GapInv
<1>14. ASSUME NEW t \in Threads, Host!Walk(t) PROVE GapInv'
  <2>1. /\ UNCHANGED <<table, gap, built, world>> /\ at' = [at EXCEPT ![t] = "announce"]
        /\ missed' = missed \cup {u \in Threads : at[u] \in {"spawn", "insert"}}
    BY <1>14 DEF Host!Walk, Host!Go
  <2>2. \A i \in DOMAIN sessions : i \in Host!Resident => sessions'[i].generation = world.generation
    BY <1>14, HostWalks
  <2>3. \A id \in DOMAIN table : sessions'[table[id]].generation = world.generation
    BY <2>2 DEF Host!Resident, HostTypes, WorkerTypes
  <2>4. \A u \in Threads \ missed' : at'[u] \notin {"spawn", "insert"}
    BY <2>1 DEF HostTypes, ServeTypes
  <2> QED
    BY <2>1, <2>3, <2>4 DEF GapInv
<1>15. ASSUME NEW t \in Threads, Host!AnnounceCatalog(t) PROVE GapInv'
  BY <1>15 DEF Host!AnnounceCatalog, Host!Done, Host!Go, HostTypes, WorkerTypes, AuthTypes, ServeTypes, PaceInv, GapInv
<1>16. ASSUME Host!Close PROVE GapInv'
  BY <1>16 DEF Host!Close, HostTypes, WorkerTypes, AuthTypes, ServeTypes, PaceInv, GapInv
<1>17. ASSUME NEW i \in DOMAIN sessions, Host!WorkerEnds(i) PROVE GapInv'
  <2>1. UNCHANGED <<table, missed, gap, at, built, world>>
    BY <1>17 DEF Host!WorkerEnds
  <2>2. \A j \in DOMAIN sessions : sessions'[j].generation = sessions[j].generation
    BY <1>17, HostWorkerEnds
  <2> QED
    BY <2>1, <2>2 DEF GapInv, HostTypes, WorkerTypes
<1>18. ASSUME Host!TakeJoin PROVE GapInv'
  BY <1>18 DEF Host!TakeJoin, HostTypes, WorkerTypes, AuthTypes, ServeTypes, PaceInv, GapInv
<1>19. ASSUME Host!JoinDone PROVE GapInv'
  BY <1>19 DEF Host!JoinDone, HostTypes, WorkerTypes, AuthTypes, ServeTypes, PaceInv, GapInv
<1> QED
  BY <1>1, <1>2, <1>3, <1>4, <1>5, <1>6, <1>7, <1>8, <1>9, <1>10, <1>11, <1>12, <1>13, <1>14, <1>15, <1>16, <1>17, <1>18, <1>19
     DEF Host!HostNext, Host!Serve

LEMMA HostKeepsJoins == ASSUME HostTypes, DoorInv, JoinInv, Host!HostNext PROVE JoinInv'
<1> USE HostAssumption DEF Host!doorVars, Host!serveVars, Host!buildVars, Host!authVars, Host!workerVars, Host!windVars
<1>1. ASSUME Host!Attach PROVE JoinInv'
  <2>1. PICK w \in Worker : w = [id |-> BootFile, generation |-> world.generation, alive |-> TRUE]
    BY DEF Worker, Host!Ids, HostTypes, AuthTypes
  <2>2. sessions' = Append(sessions, w) /\ sessions = <<>> /\ joins' = <<1>>
    BY <1>1, <2>1 DEF Host!Attach, Host!SpawnWorker, DoorInv
  <2>3. DOMAIN sessions' = {1} /\ 1 \in DOMAIN joins' /\ joins'[1] = 1
    BY <2>2, WorkersGrow DEF HostTypes, WorkerTypes
  <2> QED
    BY <2>3 DEF JoinInv, Joined
<1>2. ASSUME NEW t \in Threads, NEW c \in Host!Commands, Host!Enter(t, c) PROVE JoinInv'
  <2>1. UNCHANGED <<built, awaited, joins, sessions>> /\ (at' = at \/ (at[t] = "idle" /\ Host!Start(t, c)))
    BY <1>2 DEF Host!Enter
  <2> QED
    BY <2>1, HostSetsOut DEF JoinInv, Joined, HostTypes, ServeTypes
<1>3. ASSUME NEW t \in Threads, Host!Drain(t) PROVE JoinInv'
  <2>1. UNCHANGED <<built, awaited, joins, sessions>> /\ at[t] = "idle"
    BY <1>3 DEF Host!Drain
  <2>2. PICK k \in {"new", "open", "login", "logout"} : at' = [at EXCEPT ![t] = k]
    BY <1>3, HostDrains, HostSetsOut, Zenon
  <2> QED
    BY <2>1, <2>2 DEF JoinInv, Joined, HostTypes, ServeTypes
<1>4. ASSUME NEW t \in Threads, Host!Replay(t) PROVE JoinInv'
  BY <1>4 DEF Host!Replay, Host!Done, Host!Go, HostTypes, WorkerTypes, ServeTypes, WindTypes, JoinInv, Joined
<1>5. ASSUME NEW t \in Threads, Host!ReadGeneration(t) PROVE JoinInv'
  BY <1>5 DEF Host!ReadGeneration, Host!Go, HostTypes, WorkerTypes, ServeTypes, WindTypes, JoinInv, Joined
<1>6. ASSUME NEW t \in Threads, Host!Build(t) PROVE JoinInv'
  BY <1>6 DEF Host!Build, Host!Done, Host!Go, HostTypes, WorkerTypes, ServeTypes, WindTypes, JoinInv, Joined
<1>7. ASSUME NEW t \in Threads, Host!CheckGeneration(t) PROVE JoinInv'
  BY <1>7 DEF Host!CheckGeneration, Host!Go, HostTypes, WorkerTypes, ServeTypes, WindTypes, JoinInv, Joined
<1>8. ASSUME NEW t \in Threads, Host!Spawn(t) PROVE JoinInv'
  <2>1. UNCHANGED <<joins, awaited>>
    BY <1>8 DEF Host!Spawn
  <2>2. PICK w \in Worker : /\ sessions' = Append(sessions, w)
                            /\ built' = [built EXCEPT ![t] = Len(sessions) + 1]
                            /\ at' = [at EXCEPT ![t] = "insert"] /\ at[t] = "spawn"
    BY <1>8, HostSpawns
  <2>3. /\ DOMAIN sessions' = DOMAIN sessions \cup {Len(sessions) + 1}
        /\ \A i \in DOMAIN sessions : sessions'[i] = sessions[i]
    BY <2>2, WorkersGrow DEF HostTypes, WorkerTypes
  <2>4. /\ built'[t] = Len(sessions) + 1 /\ at'[t] = "insert"
        /\ \A u \in Threads : u # t => built'[u] = built[u] /\ at'[u] = at[u]
    BY <2>2 DEF HostTypes, ServeTypes
  <2> SUFFICES ASSUME NEW i \in DOMAIN sessions', sessions'[i].alive PROVE Joined(i)'
    BY DEF JoinInv
  <2>5. CASE i = Len(sessions) + 1
    BY <2>4, <2>5 DEF Joined
  <2>6. CASE i \in DOMAIN sessions
    <3>1. Joined(i)
      BY <2>3, <2>6 DEF JoinInv
    <3> QED
      BY <2>1, <2>2, <2>4, <3>1 DEF Joined
  <2> QED
    BY <2>3, <2>5, <2>6
<1>9. ASSUME NEW t \in Threads, Host!Insert(t) PROVE JoinInv'
  <2>1. UNCHANGED <<built, awaited, joins, sessions>> /\ at[t] = "insert" /\ at' = [at EXCEPT ![t] = "join"]
    BY <1>9 DEF Host!Insert, Host!Go
  <2> QED
    BY <2>1 DEF JoinInv, Joined, HostTypes, ServeTypes
<1>10. ASSUME NEW t \in Threads, Host!PushJoin(t) PROVE JoinInv'
  <2>1. UNCHANGED <<built, awaited, sessions>> /\ joins' = Append(joins, built[t]) /\ at' = [at EXCEPT ![t] = "idle"]
    BY <1>10 DEF Host!PushJoin, Host!Done, Host!Go
  <2>2. \A u \in Threads : u # t => at'[u] = at[u]
    BY <2>1 DEF HostTypes, ServeTypes
  <2>3. /\ \A n \in DOMAIN joins : n \in DOMAIN joins' /\ joins'[n] = joins[n]
        /\ Len(joins) + 1 \in DOMAIN joins' /\ joins'[Len(joins) + 1] = built[t]
    <3>1. joins \in Seq(Nat) /\ built[t] \in Nat
      BY DEF HostTypes, WindTypes, ServeTypes
    <3> QED
      BY <2>1, <3>1
  <2> SUFFICES ASSUME NEW i \in DOMAIN sessions, Joined(i) PROVE Joined(i)'
    BY <2>1 DEF JoinInv
  <2>4. CASE i = awaited
    BY <2>1, <2>4 DEF Joined
  <2>5. CASE \E n \in DOMAIN joins : joins[n] = i
    BY <2>3, <2>5 DEF Joined
  <2>6. CASE \E u \in Threads : at[u] \in {"insert", "join"} /\ built[u] = i
    BY <2>1, <2>2, <2>3, <2>6 DEF Joined
  <2> QED
    BY <2>4, <2>5, <2>6 DEF Joined
<1>11. ASSUME NEW t \in Threads, Host!ClaimAuth(t) PROVE JoinInv'
  BY <1>11 DEF Host!ClaimAuth, Host!Go, HostTypes, WorkerTypes, ServeTypes, WindTypes, JoinInv, Joined
<1>12. ASSUME NEW t \in Threads, Host!WriteAuth(t) PROVE JoinInv'
  BY <1>12 DEF Host!WriteAuth, Host!Done, Host!Go, Host!Stored, HostTypes, WorkerTypes, ServeTypes, WindTypes, JoinInv, Joined
<1>13. ASSUME NEW t \in Threads, Host!SwapWorld(t) PROVE JoinInv'
  BY <1>13 DEF Host!SwapWorld, Host!Go, HostTypes, WorkerTypes, ServeTypes, WindTypes, JoinInv, Joined
<1>14. ASSUME NEW t \in Threads, Host!Walk(t) PROVE JoinInv'
  <2>1. UNCHANGED <<built, awaited, joins>> /\ at[t] = "walk" /\ at' = [at EXCEPT ![t] = "announce"]
    BY <1>14 DEF Host!Walk, Host!Go
  <2>2. DOMAIN sessions' = DOMAIN sessions /\ \A j \in DOMAIN sessions : sessions'[j].alive = sessions[j].alive
    BY <1>14, HostWalks
  <2> QED
    BY <2>1, <2>2 DEF JoinInv, Joined, HostTypes, ServeTypes
<1>15. ASSUME NEW t \in Threads, Host!AnnounceCatalog(t) PROVE JoinInv'
  BY <1>15 DEF Host!AnnounceCatalog, Host!Done, Host!Go, HostTypes, WorkerTypes, ServeTypes, WindTypes, JoinInv, Joined
<1>16. ASSUME Host!Close PROVE JoinInv'
  BY <1>16 DEF Host!Close, HostTypes, WorkerTypes, ServeTypes, WindTypes, JoinInv, Joined
<1>17. ASSUME NEW i \in DOMAIN sessions, Host!WorkerEnds(i) PROVE JoinInv'
  <2>1. UNCHANGED <<built, awaited, joins, at>>
    BY <1>17 DEF Host!WorkerEnds
  <2>2. DOMAIN sessions' = DOMAIN sessions /\ \A j \in DOMAIN sessions : sessions'[j].alive => sessions[j].alive
    BY <1>17, HostWorkerEnds
  <2> QED
    BY <2>1, <2>2 DEF JoinInv, Joined
<1>18. ASSUME Host!TakeJoin PROVE JoinInv'
  <2>1. UNCHANGED <<built, at, sessions>> /\ awaited = 0
        /\ (UNCHANGED <<joins, awaited>> \/ (joins # <<>> /\ awaited' = Head(joins) /\ joins' = Tail(joins)))
    BY <1>18 DEF Host!TakeJoin
  <2>2. joins # <<>> => \A n \in DOMAIN joins : joins[n] = Head(joins) \/ \E m \in DOMAIN Tail(joins) : Tail(joins)[m] = joins[n]
    <3> SUFFICES ASSUME joins # <<>>, NEW n \in DOMAIN joins, n # 1
                 PROVE  \E m \in DOMAIN Tail(joins) : Tail(joins)[m] = joins[n]
      BY DEF HostTypes, WindTypes
    <3>1. joins \in Seq(Nat)
      BY DEF HostTypes, WindTypes
    <3>2. n - 1 \in DOMAIN Tail(joins) /\ Tail(joins)[n - 1] = joins[n]
      BY <3>1
    <3> QED
      BY <3>2
  <2> SUFFICES ASSUME NEW i \in DOMAIN sessions, Joined(i) PROVE Joined(i)'
    BY <2>1 DEF JoinInv
  <2>3. i # 0
    BY DEF HostTypes, WorkerTypes
  <2>4. CASE \E n \in DOMAIN joins : joins[n] = i
    BY <2>1, <2>2, <2>4 DEF Joined
  <2>5. CASE \E u \in Threads : at[u] \in {"insert", "join"} /\ built[u] = i
    BY <2>1, <2>5 DEF Joined
  <2> QED
    BY <2>1, <2>3, <2>4, <2>5 DEF Joined
<1>19. ASSUME Host!JoinDone PROVE JoinInv'
  <2>1. UNCHANGED <<built, at, sessions, joins>> /\ ~sessions[awaited].alive
    BY <1>19 DEF Host!JoinDone
  <2> QED
    BY <2>1 DEF JoinInv, Joined
<1> QED
  BY <1>1, <1>2, <1>3, <1>4, <1>5, <1>6, <1>7, <1>8, <1>9, <1>10, <1>11, <1>12, <1>13, <1>14, <1>15, <1>16, <1>17, <1>18, <1>19
     DEF Host!HostNext, Host!Serve

\* The busy threads: one more on a start, one fewer on an answer, the same in between.
LEMMA BusyMoves ==
  ASSUME ServeTypes, IsFiniteSet(Busy), NEW t \in Threads, NEW k, at' = [at EXCEPT ![t] = k]
  PROVE  /\ IsFiniteSet(Busy') /\ Cardinality(Busy) \in Nat /\ Cardinality(Busy') \in Nat
         /\ at[t] = "idle" /\ k # "idle" => Cardinality(Busy') = Cardinality(Busy) + 1
         /\ at[t] # "idle" /\ k = "idle" => Cardinality(Busy) = Cardinality(Busy') + 1
         /\ at[t] # "idle" /\ k # "idle" => Cardinality(Busy') = Cardinality(Busy)
<1>1. PICK B : B = Busy
  OBVIOUS
<1>2. PICK C : C = Busy'
  OBVIOUS
<1>3. C = IF k = "idle" THEN B \ {t} ELSE B \cup {t}
  BY <1>1, <1>2 DEF Busy, ServeTypes
<1>4. t \in B <=> at[t] # "idle"
  BY <1>1 DEF Busy
<1>5. IsFiniteSet(B) /\ Cardinality(B) \in Nat
  BY <1>1, FS_CardinalityType
<1>6. /\ IsFiniteSet(B \cup {t})
      /\ Cardinality(B \cup {t}) = IF t \in B THEN Cardinality(B) ELSE Cardinality(B) + 1
  BY <1>5, FS_AddElement, Zenon
<1>7. /\ IsFiniteSet(B \ {t})
      /\ Cardinality(B \ {t}) = IF t \in B THEN Cardinality(B) - 1 ELSE Cardinality(B)
  BY <1>5, FS_RemoveElement, Zenon
<1>8. IsFiniteSet(C) /\ Cardinality(C) \in Nat
  BY <1>3, <1>6, <1>7, FS_CardinalityType, Zenon
<1>9. CASE k = "idle"
  <2>1. C = B \ {t}
    BY <1>3, <1>9
  <2>2. t \in B => Cardinality(B) = Cardinality(C) + 1
    BY <1>5, <1>7, <2>1
  <2> QED
    BY <1>1, <1>2, <1>4, <1>5, <1>8, <1>9, <2>2, Zenon
<1>10. CASE k # "idle"
  <2>1. C = B \cup {t}
    BY <1>3, <1>10
  <2>2. Cardinality(C) = IF t \in B THEN Cardinality(B) ELSE Cardinality(B) + 1
    BY <1>6, <2>1, Zenon
  <2> QED
    BY <1>1, <1>2, <1>4, <1>5, <1>8, <1>10, <2>2, Zenon
<1> QED
  BY <1>9, <1>10

\* A step that answers, and one that only goes on.
LEMMA CountAnswers ==
  ASSUME HostTypes, CountInv, NEW t \in Threads, at[t] # "idle", Host!Done(t),
         UNCHANGED <<asked, parked, todo>>
  PROVE  CountInv'
<1>1. at' = [at EXCEPT ![t] = "idle"] /\ answered' = answered + 1
  BY DEF Host!Done, Host!Go
<1>2. /\ IsFiniteSet(Busy') /\ Cardinality(Busy) = Cardinality(Busy') + 1
      /\ Cardinality(Busy') \in Nat
  BY <1>1, BusyMoves DEF HostTypes, CountInv
<1>3. PICK p \in Nat, q \in Nat, r \in Nat, b \in Nat :
        p = Len(parked) /\ q = Len(todo[Main]) /\ r = answered /\ b = Cardinality(Busy')
  <2>1. Len(parked) \in Nat /\ Len(todo[Main]) \in Nat
    BY HostAssumption DEF HostTypes, DoorTypes
  <2>2. answered \in Nat /\ Cardinality(Busy') \in Nat
    BY <1>2 DEF CountInv
  <2> QED
    BY <2>1, <2>2, Zenon
<1>4. asked = r + p + q + (b + 1) /\ asked \in Nat
  BY <1>2, <1>3 DEF CountInv
<1>5. asked = (r + 1) + p + q + b /\ r + 1 \in Nat
  BY <1>4
<1> QED
  BY <1>1, <1>2, <1>3, <1>4, <1>5 DEF CountInv

LEMMA CountGoesOn ==
  ASSUME HostTypes, CountInv, NEW t \in Threads, at[t] # "idle", NEW k, k # "idle", Host!Go(t, k),
         UNCHANGED <<asked, answered, parked, todo>>
  PROVE  CountInv'
<1>1. IsFiniteSet(Busy') /\ Cardinality(Busy') = Cardinality(Busy)
  BY BusyMoves DEF HostTypes, CountInv, Host!Go
<1> QED
  BY <1>1 DEF CountInv

LEMMA CountRests ==
  ASSUME CountInv, UNCHANGED <<at, asked, answered, parked, todo>> PROVE CountInv'
BY DEF CountInv, Busy

LEMMA HostKeepsCount == ASSUME HostTypes, DoorInv, CountInv, Host!HostNext PROVE CountInv'
<1> USE HostAssumption DEF Host!doorVars, Host!serveVars, Host!buildVars, Host!authVars, Host!workerVars, Host!windVars
<1>1. ASSUME Host!Attach PROVE CountInv'
  <2>1. /\ ~armed /\ parked' = <<>> /\ todo' = [todo EXCEPT ![Main] = parked]
        /\ UNCHANGED <<asked, answered, at>>
    BY <1>1 DEF Host!Attach
  <2>2. todo[Main] = <<>> /\ todo'[Main] = parked
    BY <2>1 DEF DoorInv, HostTypes, DoorTypes
  <2>3. Len(parked) \in Nat /\ Len(<<>>) = 0 /\ UNCHANGED Busy
    BY <2>1 DEF HostTypes, DoorTypes, Busy
  <2>4. Cardinality(Busy) \in Nat /\ answered \in Nat
    BY FS_CardinalityType DEF CountInv
  <2>5. PICK p \in Nat, r \in Nat, b \in Nat : p = Len(parked) /\ r = answered /\ b = Cardinality(Busy)
    BY <2>3, <2>4, Zenon
  <2>6. r + p + 0 + b = r + 0 + p + b
    OBVIOUS
  <2> QED
    BY <2>1, <2>2, <2>3, <2>5, <2>6 DEF CountInv
<1>2. ASSUME NEW t \in Threads, NEW c \in Host!Commands, Host!Enter(t, c) PROVE CountInv'
  <2>1. UNCHANGED <<todo, answered>> /\ asked' = asked + 1 /\ at[t] = "idle"
    BY <1>2 DEF Host!Enter
  <2>2. Len(todo[Main]) \in Nat /\ Len(parked) \in Nat /\ Cardinality(Busy) \in Nat
    BY FS_CardinalityType DEF HostTypes, DoorTypes, CountInv
  <2>3. CASE Host!Start(t, c) /\ UNCHANGED parked
    <3>1. PICK k : at' = [at EXCEPT ![t] = k] /\ k # "idle"
      BY <2>3, HostSetsOut
    <3>2. IsFiniteSet(Busy') /\ Cardinality(Busy') = Cardinality(Busy) + 1
      BY <2>1, <3>1, BusyMoves DEF HostTypes, CountInv
    <3>3. PICK p \in Nat, q \in Nat, r \in Nat, b \in Nat :
            p = Len(parked) /\ q = Len(todo[Main]) /\ r = answered /\ b = Cardinality(Busy)
      BY <2>2 DEF CountInv
    <3>4. asked = r + p + q + b
      BY <3>3 DEF CountInv
    <3>5. asked + 1 = r + p + q + (b + 1) /\ asked + 1 \in Nat
      BY <3>4
    <3> QED
      BY <2>1, <2>3, <3>2, <3>3, <3>5 DEF CountInv
  <2>4. CASE parked' = Append(parked, c) /\ UNCHANGED at
    <3>1. Len(parked') = Len(parked) + 1
      BY <2>4 DEF HostTypes, DoorTypes
    <3>2. PICK p \in Nat, q \in Nat, r \in Nat, b \in Nat :
            p = Len(parked) /\ q = Len(todo[Main]) /\ r = answered /\ b = Cardinality(Busy)
      BY <2>2 DEF CountInv
    <3>3. asked = r + p + q + b
      BY <3>2 DEF CountInv
    <3>4. asked + 1 = r + (p + 1) + q + b /\ asked + 1 \in Nat
      BY <3>3
    <3>5. UNCHANGED Busy
      BY <2>4 DEF Busy
    <3> QED
      BY <2>1, <2>4, <3>1, <3>2, <3>4, <3>5 DEF CountInv
  <2> QED
    BY <1>2, <2>3, <2>4 DEF Host!Enter
<1>3. ASSUME NEW t \in Threads, Host!Drain(t) PROVE CountInv'
  <2>1. UNCHANGED <<asked, parked, answered>>
    BY <1>3 DEF Host!Drain
  <2>2. /\ todo[t] \in Seq(Host!Commands) /\ todo' = [todo EXCEPT ![t] = Tail(@)] /\ at[t] = "idle" /\ todo[t] # <<>>
        /\ Head(todo[t]) \in Host!Commands /\ Host!Start(t, Head(todo[t]))
    BY <1>3, HostDrains
  <2>3. PICK k : at' = [at EXCEPT ![t] = k] /\ k # "idle"
    BY <2>2, HostSetsOut
  <2>4. /\ IsFiniteSet(Busy') /\ Cardinality(Busy') = Cardinality(Busy) + 1
        /\ Cardinality(Busy) \in Nat
    <3>1. ServeTypes /\ IsFiniteSet(Busy) /\ at[t] = "idle"
      BY <2>2 DEF HostTypes, CountInv
    <3>2. IsFiniteSet(Busy') /\ Cardinality(Busy') = Cardinality(Busy) + 1
      BY <2>3, <3>1, BusyMoves
    <3>3. Cardinality(Busy) \in Nat
      BY <3>1, FS_CardinalityType
    <3> QED
      BY <3>2, <3>3
  <2>5. t = Main
    BY <2>2 DEF DoorInv
  <2>6. todo'[Main] = Tail(todo[Main])
    BY <2>2, <2>5 DEF HostTypes, DoorTypes
  <2>7. PICK rest : rest = todo[Main]
    OBVIOUS
  <2>8. rest \in Seq(Host!Commands) /\ rest # <<>>
    BY <2>2, <2>5, <2>7
  <2>9. Len(rest) = Len(Tail(rest)) + 1 /\ Len(Tail(rest)) \in Nat
    BY <2>8
  <2>10. PICK p \in Nat, q \in Nat, r \in Nat, b \in Nat :
            p = Len(parked) /\ q = Len(Tail(rest)) /\ r = answered /\ b = Cardinality(Busy)
    <3>1. Len(parked) \in Nat /\ answered \in Nat
      BY DEF HostTypes, DoorTypes, CountInv
    <3> QED
      BY <2>4, <2>9, <3>1, Zenon
  <2>11. asked = r + p + (q + 1) + b /\ asked \in Nat
    BY <2>7, <2>9, <2>10 DEF CountInv
  <2>12. asked = r + p + q + (b + 1)
    BY <2>11
  <2> QED
    BY <2>1, <2>4, <2>6, <2>7, <2>10, <2>11, <2>12 DEF CountInv
<1>4. ASSUME NEW t \in Threads, Host!Replay(t) PROVE CountInv'
  BY <1>4, CountAnswers DEF Host!Replay
<1>5. ASSUME NEW t \in Threads, Host!ReadGeneration(t) PROVE CountInv'
  BY <1>5, CountGoesOn DEF Host!ReadGeneration
<1>6. ASSUME NEW t \in Threads, Host!Build(t) PROVE CountInv'
  BY <1>6, CountAnswers, CountGoesOn DEF Host!Build
<1>7. ASSUME NEW t \in Threads, Host!CheckGeneration(t) PROVE CountInv'
  BY <1>7, CountGoesOn DEF Host!CheckGeneration
<1>8. ASSUME NEW t \in Threads, Host!Spawn(t) PROVE CountInv'
  BY <1>8, CountGoesOn DEF Host!Spawn
<1>9. ASSUME NEW t \in Threads, Host!Insert(t) PROVE CountInv'
  BY <1>9, CountGoesOn DEF Host!Insert
<1>10. ASSUME NEW t \in Threads, Host!PushJoin(t) PROVE CountInv'
  BY <1>10, CountAnswers DEF Host!PushJoin
<1>11. ASSUME NEW t \in Threads, Host!ClaimAuth(t) PROVE CountInv'
  BY <1>11, CountGoesOn DEF Host!ClaimAuth
<1>12. ASSUME NEW t \in Threads, Host!WriteAuth(t) PROVE CountInv'
  BY <1>12, CountAnswers, CountGoesOn DEF Host!WriteAuth
<1>13. ASSUME NEW t \in Threads, Host!SwapWorld(t) PROVE CountInv'
  BY <1>13, CountGoesOn DEF Host!SwapWorld
<1>14. ASSUME NEW t \in Threads, Host!Walk(t) PROVE CountInv'
  BY <1>14, CountGoesOn DEF Host!Walk
<1>15. ASSUME NEW t \in Threads, Host!AnnounceCatalog(t) PROVE CountInv'
  BY <1>15, CountAnswers DEF Host!AnnounceCatalog
<1>16. ASSUME Host!Close PROVE CountInv'
  BY <1>16, CountRests DEF Host!Close
<1>17. ASSUME NEW i \in DOMAIN sessions, Host!WorkerEnds(i) PROVE CountInv'
  BY <1>17, CountRests DEF Host!WorkerEnds
<1>18. ASSUME Host!TakeJoin PROVE CountInv'
  BY <1>18, CountRests DEF Host!TakeJoin
<1>19. ASSUME Host!JoinDone PROVE CountInv'
  BY <1>19, CountRests DEF Host!JoinDone
<1> QED
  BY <1>1, <1>2, <1>3, <1>4, <1>5, <1>6, <1>7, <1>8, <1>9, <1>10, <1>11, <1>12, <1>13, <1>14, <1>15, <1>16, <1>17, <1>18, <1>19
     DEF Host!HostNext, Host!Serve

HostInv == HostTypes /\ DoorInv /\ CountInv /\ AuthInv /\ PaceInv /\ GapInv /\ JoinInv

LEMMA HostStarts == Host!HostInit => HostInv
<1> SUFFICES ASSUME Host!HostInit PROVE HostInv
  OBVIOUS
<1> USE HostAssumption DEF Host!HostInit
<1>0. <<>> \in Seq(Host!Commands) /\ \A t \in Threads : todo[t] = <<>>
  OBVIOUS
<1>1. DoorTypes /\ ServeTypes /\ AuthTypes
  BY <1>0 DEF DoorTypes, ServeTypes, AuthTypes, Stages, Host!Commands, Host!Nobody
<1>2. WorkerTypes /\ WindTypes
  BY DEF WorkerTypes, WindTypes, Worker
<1>3. DoorInv
  BY DEF DoorInv
<1>4. CountInv
  <2>1. Busy = {}
    BY DEF Busy
  <2>2. IsFiniteSet({}) /\ Cardinality({}) = 0
    BY FS_EmptySet
  <2>3. asked = 0 /\ answered = 0 /\ Len(parked) = 0 /\ Len(todo[Main]) = 0
    OBVIOUS
  <2>4. 0 = 0 + 0 + 0 + 0 /\ 0 \in Nat
    OBVIOUS
  <2> HIDE DEF Host!HostInit
  <2> QED
    BY <2>1, <2>2, <2>3, <2>4 DEF CountInv
<1>5. AuthInv
  BY DEF AuthInv, Writing, Host!Nobody
<1>6. PaceInv /\ GapInv
  BY DEF PaceInv, GapInv
<1>7. JoinInv
  BY DEF JoinInv
<1> QED
  BY <1>1, <1>2, <1>3, <1>4, <1>5, <1>6, <1>7 DEF HostInv, HostTypes

LEMMA HostMoves == ASSUME HostInv, Host!HostNext PROVE HostInv'
<1>1. HostTypes'
  BY HostKeepsDoor, HostKeepsServe, HostKeepsAuth, HostKeepsWorkers, HostKeepsWinds DEF HostInv, HostTypes
<1>2. DoorInv' /\ CountInv' /\ AuthInv'
  BY HostKeepsDoors, HostKeepsCount, HostKeepsAuthInv DEF HostInv
<1>3. PaceInv' /\ GapInv' /\ JoinInv'
  BY HostKeepsPace, HostKeepsGap, HostKeepsJoins DEF HostInv
<1> QED
  BY <1>1, <1>2, <1>3 DEF HostInv

LEMMA HostKeeps ==
  HostInv => Host!HostTypeOK /\ Host!AllAnswered /\ Host!CatalogTellsWorld /\ Host!StaleOnlyThroughGap
<1> SUFFICES ASSUME HostInv PROVE Host!HostTypeOK /\ Host!AllAnswered /\ Host!CatalogTellsWorld /\ Host!StaleOnlyThroughGap
  OBVIOUS
<1>1. Host!HostTypeOK
  BY DEF HostInv, HostTypes, DoorTypes, AuthTypes, WorkerTypes, Host!HostTypeOK, Host!Resident, Host!Nobody
<1>2. Host!AllAnswered
  <2> SUFFICES ASSUME Host!Quiet PROVE answered = asked
    BY DEF Host!AllAnswered
  <2>1. Busy = {} /\ todo[Main] = <<>> /\ parked = <<>>
    BY HostAssumption DEF Host!Quiet, Busy, HostInv, DoorInv
  <2>2. Cardinality({}) = 0 /\ Len(<<>>) = 0
    BY FS_EmptySet
  <2>3. asked \in Nat /\ answered \in Nat /\ asked = answered + Len(parked) + Len(todo[Main]) + Cardinality(Busy)
    BY DEF HostInv, CountInv
  <2> QED
    BY <2>1, <2>2, <2>3
<1>3. writer = "nobody" => \A t \in Threads : at[t] \notin Writing
  BY HostAssumption DEF HostInv, AuthInv
<1>4. Host!CatalogTellsWorld
  BY <1>3 DEF HostInv, AuthInv, Host!CatalogTellsWorld, Host!Nobody, Writing
<1>5. Host!StaleOnlyThroughGap
  BY <1>3 DEF HostInv, GapInv, Host!StaleOnlyThroughGap, Host!Nobody, Writing
<1> QED
  BY <1>1, <1>2, <1>4, <1>5

LEMMA HostEnds ==
  ASSUME HostInv, Host!HostNext, ended' # ended
  PROVE  \A i \in DOMAIN sessions : sessions[i].alive => i \in Host!InTransit
<1>1. joins = <<>> /\ awaited = 0
  BY DEF Host!HostNext, Host!Serve, Host!TakeJoin, Host!Attach, Host!Enter, Host!Drain, Host!Replay,
     Host!ReadGeneration, Host!Build, Host!CheckGeneration, Host!Spawn, Host!Insert, Host!PushJoin,
     Host!ClaimAuth, Host!WriteAuth, Host!SwapWorld, Host!Walk, Host!AnnounceCatalog, Host!Close,
     Host!WorkerEnds, Host!JoinDone, Host!windVars
<1> SUFFICES ASSUME NEW i \in DOMAIN sessions, sessions[i].alive PROVE i \in Host!InTransit
  OBVIOUS
<1>2. i # 0 /\ DOMAIN joins = {}
  BY <1>1 DEF HostInv, HostTypes, WorkerTypes
<1>3. Joined(i)
  BY DEF HostInv, JoinInv
<1> QED
  BY <1>1, <1>2, <1>3 DEF Joined, Host!InTransit

LEMMA HostRests == ASSUME HostInv, UNCHANGED hostVars PROVE HostInv' /\ UNCHANGED Host!hostVars
<1>1. /\ UNCHANGED <<armed, parked, todo, at, cmd, before, built, keys, world, catalog, writer, sessions, table>>
      /\ UNCHANGED <<joins, awaited, shutdown, ended, asked, answered, missed, gap>>
  BY DEF hostVars
<1>2. UNCHANGED Host!hostVars
  BY <1>1 DEF Host!hostVars, Host!doorVars, Host!serveVars, Host!buildVars, Host!authVars, Host!workerVars, Host!windVars
<1>3. HostTypes' /\ DoorInv'
  BY <1>1 DEF HostInv, HostTypes, DoorTypes, ServeTypes, AuthTypes, WorkerTypes, WindTypes, DoorInv
<1>4. CountInv' /\ AuthInv' /\ PaceInv'
  BY <1>1 DEF HostInv, CountInv, Busy, AuthInv, PaceInv
<1>5. GapInv' /\ JoinInv'
  BY <1>1 DEF HostInv, GapInv, JoinInv, Joined
<1> QED
  BY <1>2, <1>3, <1>4, <1>5 DEF HostInv

-----------------------------------------------------------------------------
(* The lock helper                                                         *)

InBuffer == <<"buffer", "write">>
Outer == {"conversation", "selection"}

\* Where a task is in its nest: what it still claims, its stage, what it holds.
Nested(p, a, h) ==
  \/ a = "free" /\ (p = <<>> \/ p \in Table!Nests) /\ h = <<>>
  \/ a = "held" /\ p \in Table!Nests /\ h = <<p[1][1]>>
  \/ \E l \in Outer : \/ a = "free" /\ p = <<InBuffer>> /\ h = <<l>>
                      \/ a = "held" /\ p = <<InBuffer>> /\ h = <<l, "buffer">>
                      \/ a \in {"in", "out"} /\ p = <<>> /\ h = <<l, "buffer">>
  \/ \E l \in Outer \cup {"leaf"} : a \in {"in", "out"} /\ p = <<>> /\ h = <<l>>
HasLock(h, l) == \E n \in DOMAIN h : h[n] = l

\* The nestings are kept to, who holds a lock has it among what it holds, and an entry
\* names one that holds the lock and has not yet taken the entry out.
NestInv == \A t \in Tasks : Nested(nest[t], claiming[t], here[t])
HoldInv == \A l \in Table!Locks : \A t \in Tasks : t \in holders[l].by <=> HasLock(here[t], l)
NameInv ==
  \A l \in DOMAIN entered :
    /\ l \in Table!Locks /\ entered[l] \in Tasks /\ HasLock(here[entered[l]], l)
    /\ claiming[entered[l]] = "out" => Table!Last(entered[l]) # l
LockTypes ==
  /\ DOMAIN nest = Tasks /\ DOMAIN claiming = Tasks /\ DOMAIN here = Tasks
  /\ holders \in [Table!Locks -> [mode : {"read", "write"}, by : SUBSET Tasks]]
LockInv == LockTypes /\ NestInv /\ HoldInv /\ NameInv

LEMMA LockStarts == Table!LockInit => LockInv
<1> SUFFICES ASSUME Table!LockInit PROVE LockInv
  OBVIOUS
<1>1. \A l : ~HasLock(<<>>, l)
  BY DEF HasLock
<1>2. LockTypes /\ NestInv
  BY DEF Table!LockInit, LockTypes, NestInv, Nested, Table!Locks
<1>3. HoldInv
  BY <1>1 DEF Table!LockInit, HoldInv
<1>4. NameInv
  BY DEF Table!LockInit, NameInv
<1> QED
  BY <1>2, <1>3, <1>4 DEF LockInv

\* What each shape holds, and in which order.
LEMMA HasLocks ==
  /\ \A l : ~HasLock(<<>>, l)
  /\ \A l, k : HasLock(<<k>>, l) <=> l = k
  /\ \A l, k, m : HasLock(<<k, m>>, l) <=> l = k \/ l = m
<1>1. \A l : ~HasLock(<<>>, l)
  BY DEF HasLock
<1>2. \A l, k : HasLock(<<k>>, l) <=> l = k
  BY DEF HasLock
<1>3. ASSUME NEW l, NEW k, NEW m PROVE HasLock(<<k, m>>, l) <=> l = k \/ l = m
  <2>1. DOMAIN <<k, m>> = {1, 2} /\ <<k, m>>[1] = k /\ <<k, m>>[2] = m
    OBVIOUS
  <2> QED
    BY <2>1 DEF HasLock
<1> QED
  BY <1>1, <1>2, <1>3

\* What a claim adds and an unlock takes off.
LEMMA Two ==
  ASSUME NEW l, NEW k
  PROVE  Append(<<l>>, k) = <<l, k>> /\ SubSeq(<<l, k>>, 1, 1) = <<l>>
<1>1. PICK S : S = {l, k}
  OBVIOUS
<1>2. PICK one : one = <<l>>
  OBVIOUS
<1>3. PICK two : two = <<l, k>>
  OBVIOUS
<1>4. one \in Seq(S) /\ Len(one) = 1 /\ one[1] = l /\ k \in S
  BY <1>1, <1>2
<1>5. two \in Seq(S) /\ Len(two) = 2 /\ two[1] = l /\ two[2] = k
  BY <1>1, <1>3
<1>6. Append(one, k) = two
  <2>1. /\ Append(one, k) \in Seq(S) /\ Len(Append(one, k)) = 2
        /\ Append(one, k)[1] = l /\ Append(one, k)[2] = k
    <3>1. 1 \in 1..Len(one) /\ Len(one) + 1 = 2
      BY <1>4
    <3>2. one \in Seq(S) /\ k \in S
      BY <1>4
    <3>3. Append(one, k) \in Seq(S) /\ Len(Append(one, k)) = Len(one) + 1
      BY <3>2
    <3>4. \A i \in 1..Len(one) : Append(one, k)[i] = one[i]
      BY <3>2
    <3>5. Append(one, k)[Len(one) + 1] = k
      BY <3>2
    <3> QED
      BY <1>4, <3>1, <3>3, <3>4, <3>5, Zenon
  <2>2. \A i \in 1..2 : Append(one, k)[i] = two[i]
    BY <1>5, <2>1
  <2> QED
    BY <1>5, <2>1, <2>2, SeqEqual
<1>7. SubSeq(two, 1, 1) = one
  <2>1. \A i \in 1..1 : two[i] \in S
    BY <1>5
  <2>2. /\ SubSeq(two, 1, 1) \in Seq(S) /\ Len(SubSeq(two, 1, 1)) = 1
        /\ SubSeq(two, 1, 1)[1] = l
    BY <1>5, <2>1, SubSeqProperties
  <2>3. \A i \in 1..1 : SubSeq(two, 1, 1)[i] = one[i]
    BY <1>4, <2>2
  <2> QED
    BY <1>4, <2>2, <2>3, SeqEqual
<1> QED
  BY <1>2, <1>3, <1>6, <1>7, Zenon

\* The shapes a nest may have, and its way through them.
LEMMA NestsAre ==
  ASSUME NEW n \in Table!Nests
  PROVE  \/ /\ n[1][1] \in Outer /\ n[1] = Head(n) /\ Len(n) = 2 /\ Tail(n) = <<InBuffer>> /\ n # <<>>
            /\ n[1][2] = "write"
         \/ /\ n[1][1] \in Outer \cup {"leaf"} /\ n[1] = Head(n) /\ Len(n) = 1 /\ Tail(n) = <<>> /\ n # <<>>
            /\ n[1][2] \in {"read", "write"}
<1>1. \A l : LET m == <<<<l, "write">>, InBuffer>> IN
        m[1][1] = l /\ m[1] = Head(m) /\ Len(m) = 2 /\ Tail(m) = <<InBuffer>> /\ m # <<>> /\ m[1][2] = "write"
  OBVIOUS
<1>2. \A l, mode : LET m == <<<<l, mode>>>> IN
        m[1][1] = l /\ m[1] = Head(m) /\ Len(m) = 1 /\ Tail(m) = <<>> /\ m # <<>> /\ m[1][2] = mode
  OBVIOUS
<1>3. \/ \E l \in Outer : n = <<<<l, "write">>, InBuffer>>
      \/ \E l \in Outer \cup {"leaf"}, mode \in {"read", "write"} : n = <<<<l, mode>>>>
  BY DEF Table!Nests, Outer, InBuffer
<1>4. ASSUME NEW l \in Outer, n = <<<<l, "write">>, InBuffer>>
      PROVE  /\ n[1][1] \in Outer /\ n[1] = Head(n) /\ Len(n) = 2 /\ Tail(n) = <<InBuffer>> /\ n # <<>>
             /\ n[1][2] = "write"
  BY <1>1, <1>4
<1>5. ASSUME NEW l \in Outer \cup {"leaf"}, NEW mode \in {"read", "write"}, n = <<<<l, mode>>>>
      PROVE  /\ n[1][1] \in Outer \cup {"leaf"} /\ n[1] = Head(n) /\ Len(n) = 1 /\ Tail(n) = <<>> /\ n # <<>>
             /\ n[1][2] \in {"read", "write"}
  BY <1>2, <1>5
<1> QED
  BY <1>3, <1>4, <1>5, Zenon

\* A claim begins.
LEMMA NestBegins ==
  ASSUME NEW p, NEW a, NEW h, Nested(p, a, h), p = <<>>, h = <<>>, a = "free", NEW n \in Table!Nests
  PROVE  Nested(n, "free", h)
BY DEF Nested

LEMMA NestAcquires ==
  ASSUME NEW p, NEW h, Nested(p, "free", h), p # <<>>
  PROVE  /\ Head(p)[1] \in Table!Locks /\ Head(p)[2] \in {"read", "write"}
         /\ Nested(p, "held", Append(h, Head(p)[1]))
         /\ \A l : HasLock(Append(h, Head(p)[1]), l) <=> HasLock(h, l) \/ l = Head(p)[1]
<1>1. CASE p \in Table!Nests /\ h = <<>>
  <2>1. Head(p) = p[1] /\ p[1][1] \in Outer \cup {"leaf"} /\ p[1][2] \in {"read", "write"}
    BY <1>1, NestsAre, Zenon
  <2>2. Append(h, Head(p)[1]) = <<p[1][1]>>
    BY <1>1, <2>1
  <2>3. Nested(p, "held", <<p[1][1]>>)
    BY <1>1 DEF Nested
  <2>4. p[1][1] \in Table!Locks
    BY <2>1 DEF Outer, Table!Locks
  <2> QED
    BY <1>1, <2>1, <2>2, <2>3, <2>4, HasLocks
<1>2. CASE \E l \in Outer : p = <<InBuffer>> /\ h = <<l>>
  <2>1. PICK l \in Outer : p = <<InBuffer>> /\ h = <<l>>
    BY <1>2
  <2>2. Head(p) = InBuffer /\ Head(p)[1] = "buffer" /\ Head(p)[2] = "write"
    BY <2>1 DEF InBuffer
  <2>6. PICK k : k = Head(p)[1]
    OBVIOUS
  <2>7. Append(<<l>>, k) = <<l, k>>
    BY Two
  <2>3. Append(h, Head(p)[1]) = <<l, "buffer">>
    BY <2>1, <2>2, <2>6, <2>7, Zenon
  <2>4. Nested(p, "held", <<l, "buffer">>)
    BY <2>1 DEF Nested
  <2>5. \A m : HasLock(<<l, "buffer">>, m) <=> HasLock(<<l>>, m) \/ m = "buffer"
    BY HasLocks, Zenon
  <2> QED
    BY <2>1, <2>2, <2>3, <2>4, <2>5 DEF Table!Locks
<1> QED
  BY <1>1, <1>2 DEF Nested

LEMMA NestHolds ==
  ASSUME NEW p, NEW h, Nested(p, "held", h)
  PROVE  /\ Nested(Tail(p), IF Len(p) = 1 THEN "in" ELSE "free", h)
         /\ h[Len(h)] \in Table!Locks /\ HasLock(h, h[Len(h)])
<1>1. CASE p \in Table!Nests /\ h = <<p[1][1]>>
  <2>1. h[Len(h)] = p[1][1]
    BY <1>1
  <2>2. CASE p[1][1] \in Outer /\ Len(p) = 2 /\ Tail(p) = <<InBuffer>>
    BY <1>1, <2>1, <2>2, HasLocks DEF Nested, Outer, Table!Locks
  <2>3. CASE p[1][1] \in Outer \cup {"leaf"} /\ Len(p) = 1 /\ Tail(p) = <<>>
    BY <1>1, <2>1, <2>3, HasLocks DEF Nested, Outer, Table!Locks
  <2> QED
    BY <1>1, <2>2, <2>3, NestsAre, Zenon
<1>2. CASE \E l \in Outer : p = <<InBuffer>> /\ h = <<l, "buffer">>
  <2>1. PICK l \in Outer : p = <<InBuffer>> /\ h = <<l, "buffer">>
    BY <1>2
  <2>2. h[Len(h)] = "buffer" /\ Len(p) = 1 /\ Tail(p) = <<>>
    BY <2>1
  <2> QED
    BY <2>1, <2>2, HasLocks DEF Nested, Table!Locks
<1> QED
  BY <1>1, <1>2 DEF Nested

LEMMA NestReleases ==
  ASSUME NEW p, NEW h, Nested(p, "in", h)
  PROVE  Nested(p, "out", h) /\ h[Len(h)] \in Table!Locks
<1>1. CASE \E l \in Outer : p = <<>> /\ h = <<l, "buffer">>
  <2>1. PICK l \in Outer : p = <<>> /\ h = <<l, "buffer">>
    BY <1>1
  <2> QED
    BY <2>1 DEF Nested, Table!Locks
<1>2. CASE \E l \in Outer \cup {"leaf"} : p = <<>> /\ h = <<l>>
  <2>1. PICK l \in Outer \cup {"leaf"} : p = <<>> /\ h = <<l>>
    BY <1>2
  <2> QED
    BY <2>1 DEF Nested, Outer, Table!Locks
<1> QED
  BY <1>1, <1>2 DEF Nested

LEMMA NestUnlocks ==
  ASSUME NEW p, NEW h, Nested(p, "out", h)
  PROVE  /\ Nested(p, IF Len(h) = 1 THEN "free" ELSE "in", SubSeq(h, 1, Len(h) - 1))
         /\ h[Len(h)] \in Table!Locks
         /\ \A l : HasLock(SubSeq(h, 1, Len(h) - 1), l) <=> HasLock(h, l) /\ l # h[Len(h)]
<1>1. CASE \E l \in Outer : p = <<>> /\ h = <<l, "buffer">>
  <2>1. PICK l \in Outer : p = <<>> /\ h = <<l, "buffer">>
    BY <1>1
  <2>2. h[Len(h)] = "buffer" /\ Len(h) = 2 /\ SubSeq(h, 1, Len(h) - 1) = <<l>> /\ l # "buffer"
    <3>1. Len(<<l, "buffer">>) = 2 /\ <<l, "buffer">>[2] = "buffer" /\ 2 - 1 = 1 /\ l # "buffer"
      BY DEF Outer
    <3>2. SubSeq(<<l, "buffer">>, 1, 1) = <<l>>
      BY Two
    <3> QED
      BY <2>1, <3>1, <3>2, Zenon
  <2>4. Nested(p, "in", <<l>>)
    BY <2>1 DEF Nested
  <2>3. \A k : HasLock(<<l>>, k) <=> HasLock(<<l, "buffer">>, k) /\ k # "buffer"
    BY <2>2, HasLocks, Zenon
  <2>5. "buffer" \in Table!Locks /\ Len(h) # 1
    BY <2>2 DEF Table!Locks
  <2> QED
    BY <2>1, <2>2, <2>3, <2>4, <2>5, Zenon
<1>2. CASE \E l \in Outer \cup {"leaf"} : p = <<>> /\ h = <<l>>
  <2>1. PICK l \in Outer \cup {"leaf"} : p = <<>> /\ h = <<l>>
    BY <1>2
  <2>2. h[Len(h)] = l /\ Len(h) = 1 /\ SubSeq(h, 1, Len(h) - 1) = <<>>
    BY <2>1
  <2>3. \A k : HasLock(<<>>, k) <=> HasLock(<<l>>, k) /\ k # l
    BY HasLocks, Zenon
  <2> QED
    BY <2>1, <2>2, <2>3 DEF Nested, Outer, Table!Locks
<1> QED
  BY <1>1, <1>2 DEF Nested

LEMMA LockMoves == ASSUME LockInv, Table!LockNext PROVE LockInv'
<1> USE DEF LockInv
<1>1. ASSUME NEW t \in Tasks, Table!Begin(t) PROVE LockInv'
  <2>1. PICK n \in Table!Nests : nest' = [nest EXCEPT ![t] = n]
    BY <1>1 DEF Table!Begin
  <2>2. UNCHANGED <<claiming, here, holders, entered>> /\ nest[t] = <<>> /\ here[t] = <<>> /\ claiming[t] = "free"
    BY <1>1 DEF Table!Begin
  <2>3. LockTypes'
    BY <2>1, <2>2 DEF LockTypes
  <2>4. NestInv'
    <3> SUFFICES ASSUME NEW u \in Tasks PROVE Nested(nest'[u], claiming'[u], here'[u])
      BY DEF NestInv
    <3>1. CASE u = t
      <4>1. nest'[u] = n
        BY <2>1, <3>1 DEF LockTypes
      <4> QED
        BY <2>2, <3>1, <4>1, NestBegins DEF NestInv
    <3>2. CASE u # t
      BY <2>1, <2>2, <3>2 DEF LockTypes, NestInv
    <3> QED
      BY <3>1, <3>2
  <2>5. HoldInv' /\ NameInv'
    BY <2>2 DEF HoldInv, NameInv, Table!Last
  <2> QED
    BY <2>3, <2>4, <2>5
<1>2. ASSUME NEW t \in Tasks, Table!Acquire(t) PROVE LockInv'
  <2> DEFINE k == Head(nest[t])[1]
             mode == Head(nest[t])[2]
  <2>1. /\ nest[t] # <<>> /\ claiming[t] = "free" /\ UNCHANGED <<nest, entered>>
        /\ holders' = [holders EXCEPT ![k] = [mode |-> mode, by |-> @.by \cup {t}]]
        /\ here' = [here EXCEPT ![t] = Append(@, k)] /\ claiming' = [claiming EXCEPT ![t] = "held"]
    BY <1>2 DEF Table!Acquire
  <2>2. /\ k \in Table!Locks /\ mode \in {"read", "write"} /\ Nested(nest[t], "held", Append(here[t], k))
        /\ \A l : HasLock(Append(here[t], k), l) <=> HasLock(here[t], l) \/ l = k
    <3>1. Nested(nest[t], "free", here[t])
      BY <2>1, Zenon DEF NestInv
    <3> QED
      BY <2>1, <3>1, NestAcquires
  <2> HIDE DEF k, mode
  <2>3. /\ here'[t] = Append(here[t], k) /\ claiming'[t] = "held"
        /\ \A u \in Tasks : u # t => here'[u] = here[u] /\ claiming'[u] = claiming[u]
    BY <2>1 DEF LockTypes
  <2>4. /\ holders'[k].by = holders[k].by \cup {t}
        /\ \A l \in Table!Locks : l # k => holders'[l] = holders[l]
    BY <2>1, <2>2 DEF LockTypes
  <2>5. LockTypes'
    BY <2>1, <2>2 DEF LockTypes
  <2>6. NestInv'
    BY <2>1, <2>2, <2>3, Zenon DEF NestInv
  <2>7. HoldInv'
    <3> SUFFICES ASSUME NEW l \in Table!Locks, NEW u \in Tasks PROVE u \in holders'[l].by <=> HasLock(here'[u], l)
      BY DEF HoldInv
    <3>1. u \in holders[l].by <=> HasLock(here[u], l)
      BY DEF HoldInv
    <3>2. u \in holders'[l].by <=> u \in holders[l].by \/ (l = k /\ u = t)
      BY <2>4
    <3>3. HasLock(here'[u], l) <=> HasLock(here[u], l) \/ (l = k /\ u = t)
      BY <2>2, <2>3
    <3> QED
      BY <3>1, <3>2, <3>3
  <2>8. NameInv'
    <3> SUFFICES ASSUME NEW l \in DOMAIN entered
                 PROVE  /\ HasLock(here'[entered[l]], l)
                        /\ claiming'[entered[l]] = "out" => Table!Last(entered[l])' # l
      BY <2>1 DEF NameInv
    <3>1. HasLock(here'[entered[l]], l)
      BY <2>2, <2>3 DEF NameInv
    <3>2. CASE entered[l] = t
      BY <2>3, <3>1, <3>2
    <3>3. CASE entered[l] # t
      <4>1. here'[entered[l]] = here[entered[l]] /\ claiming'[entered[l]] = claiming[entered[l]]
        BY <2>3, <3>3 DEF NameInv
      <4> QED
        BY <2>1, <3>1, <4>1 DEF NameInv, Table!Last
    <3> QED
      BY <3>2, <3>3, <3>1
  <2> QED
    BY <2>5, <2>6, <2>7, <2>8
<1>3. ASSUME NEW t \in Tasks, Table!OnHeld(t) PROVE LockInv'
  <2> DEFINE k == Table!Last(t)
             a == IF Len(nest[t]) = 1 THEN "in" ELSE "free"
  <2>1. /\ claiming[t] = "held" /\ UNCHANGED <<here, holders>>
        /\ entered' = [l \in DOMAIN entered \cup {k} |-> IF l = k THEN t ELSE entered[l]]
        /\ nest' = [nest EXCEPT ![t] = Tail(@)] /\ claiming' = [claiming EXCEPT ![t] = a]
    BY <1>3 DEF Table!OnHeld
  <2>2. Nested(Tail(nest[t]), a, here[t]) /\ k \in Table!Locks /\ HasLock(here[t], k) /\ a # "out"
    <3>1. Nested(nest[t], "held", here[t])
      BY <2>1, Zenon DEF NestInv
    <3> QED
      BY <3>1, NestHolds DEF Table!Last
  <2> HIDE DEF k, a
  <2>3. /\ nest'[t] = Tail(nest[t]) /\ claiming'[t] = a
        /\ \A u \in Tasks : u # t => nest'[u] = nest[u] /\ claiming'[u] = claiming[u]
    BY <2>1 DEF LockTypes
  <2>4. /\ DOMAIN entered' = DOMAIN entered \cup {k} /\ entered'[k] = t
        /\ \A l \in DOMAIN entered : l # k => entered'[l] = entered[l]
    BY <2>1
  <2>5. LockTypes'
    BY <2>1 DEF LockTypes
  <2>6. NestInv'
    BY <2>1, <2>2, <2>3, Zenon DEF NestInv
  <2>7. HoldInv'
    BY <2>1 DEF HoldInv
  <2>8. NameInv'
    <3> SUFFICES ASSUME NEW l \in DOMAIN entered'
                 PROVE  /\ l \in Table!Locks /\ entered'[l] \in Tasks /\ HasLock(here[entered'[l]], l)
                        /\ claiming'[entered'[l]] = "out" => here[entered'[l]][Len(here[entered'[l]])] # l
      BY <2>1 DEF NameInv, Table!Last
    <3>1. CASE l = k
      BY <2>2, <2>3, <2>4, <3>1
    <3>2. CASE l # k
      <4>1. l \in DOMAIN entered /\ entered'[l] = entered[l]
        BY <2>4, <3>2
      <4>2. claiming'[entered[l]] = "out" => claiming[entered[l]] = "out"
        BY <2>2, <2>3, <4>1 DEF NameInv
      <4> QED
        BY <4>1, <4>2 DEF NameInv, Table!Last
    <3> QED
      BY <3>1, <3>2
  <2> QED
    BY <2>5, <2>6, <2>7, <2>8
<1>4. ASSUME NEW t \in Tasks, Table!OnRelease(t) PROVE LockInv'
  <2> DEFINE k == Table!Last(t)
  <2>1. /\ claiming[t] = "in" /\ UNCHANGED <<nest, here, holders>>
        /\ entered' = [l \in DOMAIN entered \ {k} |-> entered[l]]
        /\ claiming' = [claiming EXCEPT ![t] = "out"]
    BY <1>4 DEF Table!OnRelease
  <2>2. Nested(nest[t], "out", here[t])
    <3>1. Nested(nest[t], "in", here[t])
      BY <2>1, Zenon DEF NestInv
    <3> QED
      BY <3>1, NestReleases
  <2>3. claiming'[t] = "out" /\ \A u \in Tasks : u # t => claiming'[u] = claiming[u]
    BY <2>1 DEF LockTypes
  <2>4. LockTypes'
    BY <2>1 DEF LockTypes
  <2>5. NestInv'
    BY <2>1, <2>2, <2>3, Zenon DEF NestInv
  <2>6. HoldInv'
    BY <2>1 DEF HoldInv
  <2>7. NameInv'
    <3> SUFFICES ASSUME NEW l \in DOMAIN entered'
                 PROVE  /\ l \in Table!Locks /\ entered'[l] \in Tasks /\ HasLock(here[entered'[l]], l)
                        /\ claiming'[entered'[l]] = "out" => here[entered'[l]][Len(here[entered'[l]])] # l
      BY <2>1 DEF NameInv, Table!Last
    <3>1. l \in DOMAIN entered /\ entered'[l] = entered[l] /\ l # here[t][Len(here[t])]
      BY <2>1 DEF Table!Last
    <3>2. CASE entered[l] = t
      BY <3>1, <3>2 DEF NameInv
    <3>3. CASE entered[l] # t
      <4>1. claiming'[entered[l]] = claiming[entered[l]]
        BY <2>3, <3>1, <3>3 DEF NameInv
      <4> QED
        BY <3>1, <4>1 DEF NameInv, Table!Last
    <3> QED
      BY <3>2, <3>3
  <2> QED
    BY <2>4, <2>5, <2>6, <2>7
<1>5. ASSUME NEW t \in Tasks, Table!Unlock(t) PROVE LockInv'
  <2> DEFINE k == here[t][Len(here[t])]
             r == SubSeq(here[t], 1, Len(here[t]) - 1)
             a == IF Len(here[t]) = 1 THEN "free" ELSE "in"
  <2>1. /\ claiming[t] = "out" /\ UNCHANGED <<nest, entered>>
        /\ holders' = [holders EXCEPT ![k].by = @ \ {t}]
        /\ here' = [here EXCEPT ![t] = r] /\ claiming' = [claiming EXCEPT ![t] = a]
    BY <1>5 DEF Table!Unlock, Table!Last
  <2>2. /\ Nested(nest[t], a, r) /\ k \in Table!Locks /\ a # "out"
        /\ \A l : HasLock(r, l) <=> HasLock(here[t], l) /\ l # k
    <3>1. Nested(nest[t], "out", here[t])
      BY <2>1, Zenon DEF NestInv
    <3> QED
      BY <3>1, NestUnlocks
  <2>3. \A l \in DOMAIN entered : entered[l] = t => l # k
    BY <2>1 DEF NameInv, Table!Last
  <2> HIDE DEF k, r, a
  <2>4. /\ here'[t] = r /\ claiming'[t] = a
        /\ \A u \in Tasks : u # t => here'[u] = here[u] /\ claiming'[u] = claiming[u]
    BY <2>1 DEF LockTypes
  <2>5. /\ holders'[k].by = holders[k].by \ {t}
        /\ \A l \in Table!Locks : l # k => holders'[l] = holders[l]
    BY <2>1, <2>2 DEF LockTypes
  <2>6. LockTypes'
    BY <2>1, <2>2 DEF LockTypes
  <2>7. NestInv'
    BY <2>1, <2>2, <2>4, Zenon DEF NestInv
  <2>8. HoldInv'
    <3> SUFFICES ASSUME NEW l \in Table!Locks, NEW u \in Tasks PROVE u \in holders'[l].by <=> HasLock(here'[u], l)
      BY DEF HoldInv
    <3>1. u \in holders[l].by <=> HasLock(here[u], l)
      BY DEF HoldInv
    <3>2. u \in holders'[l].by <=> u \in holders[l].by /\ ~(l = k /\ u = t)
      BY <2>5
    <3>3. HasLock(here'[u], l) <=> HasLock(here[u], l) /\ ~(l = k /\ u = t)
      BY <2>2, <2>4
    <3> QED
      BY <3>1, <3>2, <3>3
  <2>9. NameInv'
    <3> SUFFICES ASSUME NEW l \in DOMAIN entered
                 PROVE  /\ HasLock(here'[entered[l]], l)
                        /\ claiming'[entered[l]] = "out" => here'[entered[l]][Len(here'[entered[l]])] # l
      BY <2>1 DEF NameInv, Table!Last
    <3>1. entered[l] \in Tasks /\ HasLock(here[entered[l]], l)
      BY DEF NameInv
    <3>2. CASE entered[l] = t
      BY <2>2, <2>3, <2>4, <3>1, <3>2
    <3>3. CASE entered[l] # t
      <4>1. here'[entered[l]] = here[entered[l]] /\ claiming'[entered[l]] = claiming[entered[l]]
        BY <2>4, <3>1, <3>3
      <4> QED
        BY <3>1, <4>1 DEF NameInv, Table!Last
    <3> QED
      BY <3>2, <3>3
  <2> QED
    BY <2>6, <2>7, <2>8, <2>9
<1> QED
  BY <1>1, <1>2, <1>3, <1>4, <1>5 DEF Table!LockNext

\* A holder that waits has an outer lock and waits for the buffer; whoever has the buffer
\* waits for nothing.
LEMMA LockKeeps == LockInv => Table!NoCycle /\ Table!BlameIsTrue
<1> SUFFICES ASSUME LockInv PROVE Table!NoCycle /\ Table!BlameIsTrue
  OBVIOUS
<1>1. Table!NoCycle
  <2> SUFFICES ASSUME NEW S \in SUBSET Tasks, S # {}, \A t \in S : \E u \in S : Table!Waits(t, u)
               PROVE  FALSE
    BY DEF Table!NoCycle
  <2>1. ASSUME NEW t \in S, NEW u \in S, NEW l, l \in Table!Locks, u \in holders[l].by, nest[u] # <<>>, claiming[u] = "free"
        PROVE  /\ l \in Outer /\ Head(nest[u])[1] = "buffer"
    <3>1. HasLock(here[u], l) /\ Nested(nest[u], "free", here[u])
      BY <2>1 DEF LockInv, HoldInv, NestInv
    <3>2. PICK k \in Outer : nest[u] = <<InBuffer>> /\ here[u] = <<k>>
      BY <2>1, <3>1, HasLocks DEF Nested
    <3>3. l = k
      BY <3>1, <3>2, HasLocks
    <3> QED
      BY <3>2, <3>3 DEF InBuffer
  <2>2. \A t \in S : nest[t] # <<>> /\ claiming[t] = "free"
    BY DEF Table!Waits
  <2>3. \A t \in S : Head(nest[t])[1] \in Table!Locks
    <3> SUFFICES ASSUME NEW t \in S PROVE Head(nest[t])[1] \in Table!Locks
      OBVIOUS
    <3>1. Nested(nest[t], "free", here[t])
      BY <2>2, Zenon DEF LockInv, NestInv
    <3> QED
      BY <2>2, <3>1, NestAcquires
  <2>4. PICK t \in S : TRUE
    OBVIOUS
  <2>5. PICK u \in S : u \in holders[Head(nest[t])[1]].by
    BY DEF Table!Waits, Table!Holds
  <2>6. PICK w \in S : w \in holders[Head(nest[u])[1]].by
    BY DEF Table!Waits, Table!Holds
  <2>7. Head(nest[u])[1] = "buffer"
    BY <2>1, <2>2, <2>3, <2>5
  <2>8. "buffer" \in Outer
    BY <2>1, <2>2, <2>3, <2>6, <2>7
  <2> QED
    BY <2>8 DEF Outer
<1>2. Table!BlameIsTrue
  BY DEF LockInv, NameInv, HoldInv, Table!BlameIsTrue, Table!Holds
<1> QED
  BY <1>1, <1>2

LEMMA LockRests == ASSUME LockInv, UNCHANGED lockVars PROVE LockInv'
<1> UNCHANGED <<nest, claiming, here, holders, entered>>
  BY DEF lockVars
<1> QED
  BY DEF LockInv, LockTypes, NestInv, HoldInv, NameInv, Table!Last

-----------------------------------------------------------------------------
(* Greatest elements                                                       *)

\* The library's relation of an operator, for the order of the naturals.
LEMMA LessThanRelation == OpToRel(<, Nat) = {ss \in Nat \X Nat : ss[1] < ss[2]}
  BY DEF OpToRel

\* A nonempty set of natural numbers has a least element.
LEMMA LeastExists ==
  ASSUME NEW S \in SUBSET Nat, S # {}
  PROVE  \E x \in S : \A y \in S : x <= y
<1> DEFINE less == {ss \in Nat \X Nat : ss[1] < ss[2]}
<1>1. IsWellFoundedOn(less, Nat)
  BY NatLessThanWellFounded, LessThanRelation, Zenon
<1>2. PICK x \in S : \A y \in S : ~(<<y, x>> \in less)
  <2> HIDE DEF less
  <2> QED
    BY <1>1, WFMin, Zenon
<1>3. \A y \in S : ~(y < x)
  <2>1. SUFFICES ASSUME NEW y \in S, y < x PROVE FALSE
    OBVIOUS
  <2>2. <<y, x>> \in less
    BY <2>1
  <2> QED
    BY <1>2, <2>2
<1> QED
  BY <1>3

\* A nonempty bounded set of natural numbers has a greatest element.
LEMMA MaxProperties ==
  ASSUME NEW n \in Nat, NEW S \in SUBSET (0..n), S # {}
  PROVE  Max(S) \in S /\ \A y \in S : y <= Max(S)
<1> DEFINE flipped == {n - x : x \in S}
<1>1. flipped \in SUBSET Nat /\ flipped # {}
  <2>1. \A x \in S : n - x \in Nat
    OBVIOUS
  <2>2. PICK x \in S : TRUE
    OBVIOUS
  <2>3. n - x \in flipped
    OBVIOUS
  <2> QED
    BY <2>1, <2>3, Zenon
<1>2. PICK least \in flipped : \A y \in flipped : least <= y
  BY <1>1, LeastExists
<1>3. PICK x \in S : least = n - x
  BY <1>2
<1>4. \A y \in S : x >= y
  <2>1. SUFFICES ASSUME NEW y \in S PROVE x >= y
    OBVIOUS
  <2>2. least <= n - y
    BY <1>2
  <2> QED
    BY <2>2, <1>3
<1>5. Max(S) \in S /\ \A y \in S : Max(S) >= y
  BY <1>4, Zenon DEF Max
<1> QED
  BY <1>5

-----------------------------------------------------------------------------
(* The compaction box                                                      *)

Frames == {"begin", "step", "retried", "end", "failed"}
Doors == {"none", "pre_request", "idle", "manual", "overflow"}
Entry == [kind : {"user", "answer", "batch", "compaction"}, total : Nat, sum : Nat, cut : Nat]
BoxTypes ==
  /\ branch \in Seq(Entry) /\ events \in Seq(Frames) /\ window \in Nat /\ taught \in Nat
  /\ door \in Doors /\ bound \in Nat /\ now \in Nat /\ boundary \in Nat /\ crashed \in BOOLEAN
  /\ passes \in 0..MaxPasses /\ violations \in 0..ViolationRetryCap

\* The running sum never falls, and a compaction cuts behind itself.
BranchInv ==
  /\ \A m, n \in DOMAIN branch : m <= n => branch[m].sum <= branch[n].sum
  /\ \A n \in DOMAIN branch : branch[n].cut \in 0..n - 1 /\ (branch[n].kind = "compaction" => branch[n].cut # 0)

\* While an invocation runs it has a pass left and a supported window; what it is asking
\* about is a boundary of the view that keeps enough; and once it opened there is a cut.
RunningInv ==
  /\ door = "none" => boundary = 0
  /\ door # "none" => passes < MaxPasses /\ MinSupportedWindow <= bound /\ outcome = "none"
FlightInv ==
  boundary # 0 =>
    /\ branch # <<>> /\ ~WalkPanics /\ boundary \in Retained \cup {Lead}
    /\ ValidBoundary(boundary) /\ TailSum(boundary) >= KeepTail
OfferInv == door # "none" /\ events # <<>> => WalkPanics \/ Cuts # {}
FitInv ==
  outcome = "compacted" =>
    branch # <<>> /\ (branch[Len(branch)].kind = "compaction" => ~OverUrgent(branch[Len(branch)].total, bound))

FramesOf(s, frames) == Cardinality({n \in DOMAIN s : s[n] \in frames})
Steps(s) == FramesOf(s, {"step"})
Closings(s) == FramesOf(s, {"end", "failed"})
FramesInv ==
  /\ Steps(events) = passes
  /\ events # <<>> => events[1] = "begin"
  /\ door # "none" => Closings(events) = 0
  /\ door # "none" /\ (boundary # 0 \/ passes > 0) => events # <<>>
  /\ door = "none" /\ events # <<>> => events[Len(events)] \in {"end", "failed"} /\ Closings(events) = 1

BoxInv == /\ BoxTypes /\ BranchInv /\ RunningInv /\ FlightInv /\ OfferInv /\ FitInv /\ FramesInv
          /\ AlwaysACut /\ CutsBetweenExchanges

LEMMA BoxConstants ==
  /\ KeepTail \in Nat /\ UrgentReserve \in Nat /\ MinSupportedWindow \in Nat
  /\ ViolationRetryCap \in Nat /\ MaxPasses \in Nat /\ MaxPasses # 0
  /\ Windows \subseteq Nat /\ Sizes \subseteq Nat
  /\ \A o \in Outputs : o \in Nat /\ o # 0 /\ 4 * (o + 1) <= 3 * MinSupportedWindow
BY CompactionAssumption

LEMMA EntryFields ==
  ASSUME BoxTypes
  PROVE  /\ Len(branch) \in Nat /\ DOMAIN branch = 1..Len(branch)
         /\ \A n \in 1..Len(branch) : /\ branch[n] \in Entry /\ branch[n].total \in Nat
                                      /\ branch[n].sum \in Nat /\ branch[n].cut \in Nat
                                      /\ branch[n].kind \in {"user", "answer", "batch", "compaction"}
<1>1. branch \in Seq(Entry)
  BY DEF BoxTypes
<1>2. \A n \in DOMAIN branch : branch[n] \in Entry
  BY <1>1
<1>3. DOMAIN branch = 1..Len(branch) /\ Len(branch) \in Nat
  BY <1>1
<1> QED
  BY <1>2, <1>3 DEF Entry

\* The view: the newest compaction is the last, and what follows it starts before it.
LEMMA ViewShape ==
  ASSUME BoxTypes, BranchInv
  PROVE  /\ Live \in 0..Len(branch) /\ Start \in Nat /\ Start # 0
         /\ Live = 0 => Compactions(branch) = {} /\ Start = 1 /\ Lead = 1
         /\ Live # 0 => /\ branch[Live].kind = "compaction" /\ Live \in 1..Len(branch) /\ Lead = Live
                        /\ Start = branch[Live].cut /\ Start < Live
         /\ \A c \in Compactions(branch) : c <= Live
         /\ Retained \subseteq 1..Len(branch)
         /\ \A n \in Retained : Start <= n /\ branch[n].kind # "compaction"
         /\ \A n \in Start..Len(branch) : n \in Retained \/ branch[n].kind = "compaction"
<1>1. CASE Compactions(branch) = {}
  <2>1. Live = 0 /\ Start = 1 /\ Lead = 1
    BY <1>1 DEF Live, Start, Lead
  <2> QED
    BY <1>1, <2>1, EntryFields DEF Retained
<1>2. CASE Compactions(branch) # {}
  <2>1. Compactions(branch) \in SUBSET (0..Len(branch)) /\ Len(branch) \in Nat
    BY EntryFields DEF Compactions
  <2>2. Live = Max(Compactions(branch))
    BY <1>2 DEF Live
  <2>3. Live \in Compactions(branch) /\ \A c \in Compactions(branch) : c <= Live
    BY <1>2, <2>1, <2>2, MaxProperties
  <2>4. Live \in 1..Len(branch) /\ branch[Live].kind = "compaction"
    BY <2>3, EntryFields DEF Compactions
  <2>5. branch[Live].cut \in 0..Live - 1 /\ branch[Live].cut # 0
    BY <2>4, EntryFields DEF BranchInv
  <2>6. Live # 0 /\ Start = branch[Live].cut /\ Lead = Live
    BY <2>4 DEF Start, Lead
  <2> QED
    BY <2>3, <2>4, <2>5, <2>6, EntryFields DEF Retained
<1> QED
  BY <1>1, <1>2

LEMMA SumsRise ==
  ASSUME BoxTypes, BranchInv, NEW m \in 0..Len(branch), NEW n \in 0..Len(branch), m <= n
  PROVE  SumTo(m) \in Nat /\ SumTo(n) \in Nat /\ SumTo(m) <= SumTo(n)
<1>1. \A k \in 1..Len(branch) : branch[k].sum \in Nat
  BY EntryFields
<1>2. m # 0 => branch[m].sum <= branch[n].sum
  BY EntryFields DEF BranchInv
<1> QED
  BY <1>1, <1>2, EntryFields DEF SumTo

\* Where what a boundary keeps begins.
KeptFrom(first) == IF first = Lead THEN Start ELSE first

LEMMA TailSums ==
  ASSUME BoxTypes, BranchInv, branch # <<>>,
         NEW p \in Retained \cup {Lead}, NEW q \in Retained \cup {Lead}, KeptFrom(p) <= KeptFrom(q)
  PROVE  TailSum(p) \in Nat /\ TailSum(q) \in Nat /\ TailSum(q) <= TailSum(p)
<1>1. Len(branch) \in Nat /\ Len(branch) # 0
  BY EntryFields, EmptySeq DEF BoxTypes
<1>2. \A first \in Retained \cup {Lead} : KeptFrom(first) \in 1..Len(branch)
  BY <1>1, ViewShape DEF KeptFrom
<1>3. \A first \in Retained \cup {Lead} : TailSum(first) = SumTo(Len(branch)) - SumTo(KeptFrom(first) - 1)
  BY DEF TailSum, KeptFrom
<1>4. KeptFrom(p) - 1 \in 0..Len(branch) /\ KeptFrom(q) - 1 \in 0..Len(branch) /\ Len(branch) \in 0..Len(branch)
  BY <1>1, <1>2
<1> DEFINE a == KeptFrom(p) - 1
           b == KeptFrom(q) - 1
           n == Len(branch)
<1>5. a \in 0..n /\ b \in 0..n /\ n \in 0..n /\ a <= b /\ b <= n /\ a <= n
  BY <1>2, <1>4, <1>1
<1>6. TailSum(p) = SumTo(n) - SumTo(a) /\ TailSum(q) = SumTo(n) - SumTo(b)
  BY <1>3
<1> HIDE DEF a, b
<1>7. /\ SumTo(a) \in Nat /\ SumTo(b) \in Nat /\ SumTo(n) \in Nat
      /\ SumTo(a) <= SumTo(b) /\ SumTo(b) <= SumTo(n) /\ SumTo(a) <= SumTo(n)
  BY <1>5, SumsRise
<1> QED
  BY <1>6, <1>7

\* Going back from a boundary of the view finds one that keeps no less.
LEMMA EarlierBoundary ==
  ASSUME BoxTypes, BranchInv, branch # <<>>, NEW p \in Retained \ {Lead}, TailSum(p) >= KeepTail
  PROVE  /\ Earlier(p) \in Retained \cup {Lead} /\ ValidBoundary(Earlier(p)) /\ TailSum(Earlier(p)) >= KeepTail
         /\ Earlier(p) # 0
<1>1. Shorter(p) \in SUBSET (0..Len(branch)) /\ Len(branch) \in Nat
  BY ViewShape, EntryFields DEF Shorter
<1>2. KeptFrom(p) = p /\ Start <= p /\ p \in Nat /\ KeptFrom(Lead) = Start
  BY ViewShape DEF KeptFrom
<1>3. CASE Shorter(p) = {}
  <2>1. Earlier(p) = Lead
    BY <1>3 DEF Earlier
  <2>2. TailSum(Lead) \in Nat /\ TailSum(p) \in Nat /\ TailSum(p) <= TailSum(Lead)
    BY <1>2, TailSums
  <2> QED
    BY <2>1, <2>2, ViewShape, BoxConstants DEF ValidBoundary
<1>4. CASE Shorter(p) # {}
  <2>1. Earlier(p) \in Shorter(p)
    BY <1>1, <1>4, MaxProperties DEF Earlier
  <2>2. PICK q \in Shorter(p) : q = Earlier(p)
    BY <2>1
  <2>3. q \in Retained \ {Lead} /\ q < p /\ ValidBoundary(q)
    BY DEF Shorter
  <2>4. KeptFrom(q) = q /\ q \in Nat /\ q # 0 /\ KeptFrom(q) <= KeptFrom(p)
    BY <1>2, <2>3, ViewShape DEF KeptFrom
  <2>5. TailSum(q) \in Nat /\ TailSum(p) \in Nat /\ TailSum(p) <= TailSum(q)
    BY <2>3, <2>4, TailSums
  <2> QED
    BY <2>2, <2>3, <2>4, <2>5, BoxConstants
<1> QED
  BY <1>3, <1>4

\* A boundary of the view lies between two exchanges of the branch, wherever the entries
\* in front of it are that the view has skipped.
LEMMA BoundaryOnBranch ==
  ASSUME BoxTypes, BranchInv, CutsBetweenExchanges, ~WalkPanics, branch # <<>>,
         NEW p \in Retained \cup {Lead}, ValidBoundary(p), branch[p].kind # "compaction"
  PROVE  p = 1 \/ branch[p - 1].kind \in {"answer", "compaction"}
<1>1. CASE p = Lead
  BY <1>1, ViewShape
<1>2. CASE p # Lead
  <2> DEFINE older == {n \in Retained : n < p}
  <2>1. p \in Retained /\ branch[Before(p)].kind \in {"answer", "compaction"}
    BY <1>2 DEF ValidBoundary
  <2>2. p \in 1..Len(branch) /\ Start <= p /\ Len(branch) \in Nat /\ Start \in Nat /\ Start # 0
    BY <2>1, ViewShape, EntryFields
  <2>3. CASE older = {}
    <3>1. CASE p = Start
      <4>1. Live # 0
        BY <1>2, <3>1, ViewShape
      <4>2. Live \in Compactions(branch) /\ branch[Live].cut = p /\ branch[branch[Live].cut].kind # "compaction"
        BY <3>1, <4>1, ViewShape, EntryFields DEF Compactions
      <4> QED
        BY <4>2 DEF CutsBetweenExchanges
    <3>2. CASE p # Start
      <4>1. p - 1 \in Start..Len(branch) /\ p - 1 \notin Retained
        BY <2>2, <2>3, <3>2
      <4> QED
        BY <4>1, ViewShape
    <3> QED
      BY <3>1, <3>2
  <2>4. CASE older # {}
    <3>1. older \in SUBSET (0..Len(branch))
      BY ViewShape
    <3>2. Before(p) = Max(older)
      BY <2>4 DEF Before
    <3> HIDE DEF older
    <3>3. Max(older) \in older /\ \A y \in older : y <= Max(older)
      BY <2>2, <2>4, <3>1, MaxProperties
    <3> USE DEF older
    <3>4. /\ Before(p) \in Retained /\ Before(p) < p
          /\ \A y \in Retained : y < p => y <= Before(p)
      BY <3>2, <3>3
    <3>5. Before(p) \in 1..Len(branch) /\ Start <= Before(p) /\ branch[Before(p)].kind = "answer"
      BY <2>1, <3>4, ViewShape
    <3>6. CASE Before(p) = p - 1
      BY <3>5, <3>6
    <3>7. CASE Before(p) # p - 1
      <4>1. p - 1 \in Start..Len(branch)
        BY <2>2, <3>4, <3>5
      <4>2. p - 1 \notin Retained
        <5>1. SUFFICES ASSUME p - 1 \in Retained PROVE FALSE
          OBVIOUS
        <5>2. p - 1 <= Before(p)
          BY <2>2, <3>4, <5>1
        <5> QED
          BY <2>2, <3>4, <3>5, <3>7, <5>2
      <4> QED
        BY <4>1, <4>2, ViewShape
    <3> QED
      BY <3>6, <3>7
  <2> QED
    BY <2>3, <2>4
<1> QED
  BY <1>1, <1>2

LEMMA TellMark ==
  ASSUME NEW s \in Seq(Frames), NEW x \in Frames, NEW F
  PROVE  /\ FramesOf(s, F) \in Nat
         /\ FramesOf(Append(s, x), F) = IF x \in F THEN FramesOf(s, F) + 1 ELSE FramesOf(s, F)
<1> DEFINE marks(t) == {n \in DOMAIN t : t[n] \in F}
           t == Append(s, x)
<1>1. /\ Len(s) \in Nat /\ DOMAIN s = 1..Len(s) /\ DOMAIN t = 1..Len(s) + 1
      /\ t[Len(s) + 1] = x /\ \A n \in 1..Len(s) : t[n] = s[n]
  OBVIOUS
<1>2. IsFiniteSet(marks(s))
  <2>1. marks(s) \subseteq 1..Len(s) /\ IsFiniteSet(1..Len(s))
    BY <1>1, FS_Interval
  <2> QED
    BY <2>1, FS_Subset
<1>3. marks(t) = IF x \in F THEN marks(s) \cup {Len(s) + 1} ELSE marks(s)
  <2> HIDE DEF t
  <2> QED
    BY <1>1
<1>4. Len(s) + 1 \notin marks(s)
  BY <1>1
<1> HIDE DEF marks, t
<1>5. Cardinality(marks(s)) \in Nat
  BY <1>2, FS_CardinalityType
<1>6. Cardinality(marks(s) \cup {Len(s) + 1}) = Cardinality(marks(s)) + 1
  BY <1>2, <1>4, FS_AddElement
<1>7. Cardinality(marks(t)) = IF x \in F THEN Cardinality(marks(s)) + 1 ELSE Cardinality(marks(s))
  BY <1>3, <1>6
<1> QED
  BY <1>5, <1>7 DEF marks, t, FramesOf

\* What one more frame does to a telling.
LEMMA TellOne ==
  ASSUME NEW s \in Seq(Frames), NEW x \in Frames
  PROVE  /\ Append(s, x) \in Seq(Frames) /\ Append(s, x) # <<>> /\ Append(s, x)[Len(Append(s, x))] = x
         /\ s # <<>> => Append(s, x)[1] = s[1]
         /\ s = <<>> => Append(s, x)[1] = x
         /\ Steps(s) \in Nat /\ Closings(s) \in Nat
         /\ Steps(Append(s, x)) = IF x = "step" THEN Steps(s) + 1 ELSE Steps(s)
         /\ Closings(Append(s, x)) = IF x \in {"end", "failed"} THEN Closings(s) + 1 ELSE Closings(s)
<1>1. /\ Append(s, x) \in Seq(Frames) /\ Append(s, x) # <<>> /\ Append(s, x)[Len(Append(s, x))] = x
      /\ s # <<>> => Append(s, x)[1] = s[1]
      /\ s = <<>> => Append(s, x)[1] = x
  OBVIOUS
<1>2. Steps(s) \in Nat /\ Steps(Append(s, x)) = IF x \in {"step"} THEN Steps(s) + 1 ELSE Steps(s)
  BY TellMark DEF Steps
<1>3. Closings(s) \in Nat /\ Closings(Append(s, x)) = IF x \in {"end", "failed"} THEN Closings(s) + 1 ELSE Closings(s)
  BY TellMark DEF Closings
<1> QED
  BY <1>1, <1>2, <1>3

LEMMA NothingTold == Steps(<<>>) = 0 /\ Closings(<<>>) = 0
<1>1. \A F : {n \in DOMAIN <<>> : <<>>[n] \in F} = {}
  OBVIOUS
<1> QED
  BY <1>1, FS_EmptySet DEF Steps, Closings, FramesOf

LEMMA JoinFrames ==
  ASSUME NEW s \in Seq(Frames), NEW a \in Frames, NEW b \in Frames
  PROVE  /\ s \o <<>> = s
         /\ s \o <<a>> = Append(s, a)
         /\ s \o <<a, b>> = Append(Append(s, a), b)
<1>1. s \o <<>> = s
  BY ConcatEmptySeq
<1>2. s \o <<a>> = Append(s, a)
  BY AppendIsConcat
<1>3. s \o <<a, b>> = Append(Append(s, a), b)
  <2> DEFINE u == s \o <<a, b>>
             v == Append(Append(s, a), b)
  <2>1. u \in Seq(Frames) /\ v \in Seq(Frames) /\ Len(u) = Len(s) + 2 /\ Len(v) = Len(s) + 2 /\ Len(s) \in Nat
    OBVIOUS
  <2>2. \A i \in 1..Len(u) : u[i] = v[i]
    OBVIOUS
  <2> HIDE DEF u, v
  <2>3. u = v
    BY <2>1, <2>2, SeqEqual
  <2> QED
    BY <2>3 DEF u, v
<1> QED
  BY <1>1, <1>2, <1>3

LEMMA BoxStarts == CompactionInit => BoxInv
<1> SUFFICES ASSUME CompactionInit PROVE BoxInv
  OBVIOUS
<1>1. /\ branch = <<>> /\ events = <<>> /\ door = "none" /\ boundary = 0 /\ passes = 0 /\ outcome = "none"
  BY DEF CompactionInit
<1>2. BoxTypes
  <2>1. branch \in Seq(Entry) /\ events \in Seq(Frames)
    BY <1>1
  <2>2. window \in Nat /\ taught \in Nat /\ bound \in Nat /\ now \in Nat
    BY BoxConstants DEF CompactionInit
  <2>4. crashed \in BOOLEAN
    BY Zenon DEF CompactionInit
  <2>3. passes \in 0..MaxPasses /\ violations \in 0..ViolationRetryCap /\ boundary \in Nat /\ door \in Doors
    BY BoxConstants DEF CompactionInit, Doors
  <2> QED
    BY <2>1, <2>2, <2>3, <2>4 DEF BoxTypes
<1>3. BranchInv /\ RunningInv /\ FlightInv /\ OfferInv /\ FitInv /\ AlwaysACut
  BY <1>1 DEF BranchInv, RunningInv, FlightInv, OfferInv, FitInv, AlwaysACut
<1>4. FramesInv
  BY <1>1, NothingTold DEF FramesInv
<1>5. CutsBetweenExchanges
  BY <1>1 DEF CutsBetweenExchanges, Compactions
<1> QED
  BY <1>2, <1>3, <1>4, <1>5 DEF BoxInv

\* One entry more on the branch, spoken or of a compaction.
LEMMA BranchGrows ==
  ASSUME BoxTypes, BranchInv, CutsBetweenExchanges, NEW e \in Entry, e.sum >= Sum,
         e.cut \in 0..Len(branch), e.kind = "compaction" => e.cut # 0,
         e.kind = "compaction" => /\ e.total > KeepTail
                                  /\ branch[e.cut].kind # "compaction" =>
                                       e.cut = 1 \/ branch[e.cut - 1].kind \in {"answer", "compaction"},
         branch' = Append(branch, e)
  PROVE  branch' \in Seq(Entry) /\ BranchInv' /\ CutsBetweenExchanges'
<1> DEFINE n == Len(branch)
<1>1. /\ branch' \in Seq(Entry) /\ Len(branch') = n + 1 /\ n \in Nat
      /\ DOMAIN branch = 1..n /\ DOMAIN branch' = 1..n + 1
      /\ branch'[n + 1] = e /\ \A i \in 1..n : branch'[i] = branch[i]
  BY DEF BoxTypes
<1>2. \A i \in 1..n : branch[i].sum \in Nat /\ branch[i].sum <= e.sum
  <2> SUFFICES ASSUME NEW i \in 1..n PROVE branch[i].sum \in Nat /\ branch[i].sum <= e.sum
    OBVIOUS
  <2>1. i # 0 /\ i \in 0..n /\ n \in 0..n /\ i <= n
    BY <1>1
  <2>2. SumTo(i) \in Nat /\ SumTo(n) \in Nat /\ SumTo(i) <= SumTo(n)
    BY <2>1, SumsRise
  <2>3. SumTo(i) = branch[i].sum /\ Sum = SumTo(n)
    BY <2>1 DEF SumTo, Sum
  <2>4. e.sum \in Nat
    BY DEF Entry
  <2> QED
    BY <2>2, <2>3, <2>4
<1>3. BranchInv'
  <2>1. \A i, j \in DOMAIN branch' : i <= j => branch'[i].sum <= branch'[j].sum
    <3> SUFFICES ASSUME NEW i \in 1..n + 1, NEW j \in 1..n + 1, i <= j PROVE branch'[i].sum <= branch'[j].sum
      BY <1>1
    <3>1. CASE j = n + 1 /\ i = n + 1
      BY <1>1, <3>1 DEF Entry
    <3>2. CASE j = n + 1 /\ i # n + 1
      BY <1>1, <1>2, <3>2
    <3>3. CASE j # n + 1
      BY <1>1, <3>3 DEF BranchInv
    <3> QED
      BY <3>1, <3>2, <3>3
  <2>2. \A i \in DOMAIN branch' : branch'[i].cut \in 0..i - 1 /\ (branch'[i].kind = "compaction" => branch'[i].cut # 0)
    BY <1>1 DEF BranchInv
  <2> QED
    BY <2>1, <2>2 DEF BranchInv
<1>4. CutsBetweenExchanges'
  <2> SUFFICES ASSUME NEW c \in 1..n + 1, branch'[c].kind = "compaction"
               PROVE  LET cut == branch'[c].cut IN
                        /\ branch'[cut].kind # "compaction" =>
                             cut = 1 \/ branch'[cut - 1].kind \in {"answer", "compaction"}
                        /\ branch'[c].total > KeepTail
    BY <1>1 DEF CutsBetweenExchanges, Compactions
  <2>1. CASE c = n + 1
    <3>1. e.cut \in 1..n /\ (e.cut # 1 => e.cut - 1 \in 1..n)
      BY <1>1, <2>1
    <3> QED
      BY <1>1, <2>1, <3>1
  <2>2. CASE c # n + 1
    <3>1. c \in 1..n /\ branch'[c] = branch[c] /\ c \in Compactions(branch)
      BY <1>1, <2>2 DEF Compactions
    <3>2. branch[c].cut \in 0..c - 1 /\ branch[c].cut # 0
      BY <1>1, <3>1 DEF BranchInv
    <3>3. branch[c].cut \in 1..n /\ (branch[c].cut # 1 => branch[c].cut - 1 \in 1..n)
      BY <1>1, <3>1, <3>2
    <3> QED
      BY <1>1, <3>1, <3>3 DEF CutsBetweenExchanges
  <2> QED
    BY <2>1, <2>2
<1> QED
  BY <1>1, <1>3, <1>4

LEMMA ThreeQuarters ==
  ASSUME NEW o \in Nat, NEW low \in Nat, NEW w \in Nat, 4 * (o + 1) <= 3 * low, low <= w
  PROVE  o < (3 * w) \div 4
<1>1. 4 * (o + 1) <= 3 * w
  OBVIOUS
<1> QED
  BY <1>1

LEMMA RegimeIsNat == ASSUME BoxTypes PROVE RegimeTotal(branch) \in Nat
<1> DEFINE bearing == {n \in DOMAIN branch : branch[n].kind = "compaction" \/ Measured(branch[n])}
<1>1. bearing \in SUBSET (0..Len(branch)) /\ Len(branch) \in Nat
  BY EntryFields
<1>2. CASE bearing = {}
  BY <1>2 DEF RegimeTotal
<1>3. CASE bearing # {}
  <2>1. RegimeTotal(branch) = branch[Max(bearing)].total
    BY <1>3 DEF RegimeTotal
  <2> HIDE DEF bearing
  <2>2. Max(bearing) \in bearing
    BY <1>1, <1>3, MaxProperties
  <2> USE DEF bearing
  <2> QED
    BY <2>1, <2>2, EntryFields
<1> QED
  BY <1>2, <1>3

LEMMA RegimeOfLast ==
  ASSUME BoxTypes, branch # <<>>, branch[Len(branch)].kind = "compaction"
  PROVE  RegimeTotal(branch) = branch[Len(branch)].total
<1> DEFINE bearing == {n \in DOMAIN branch : branch[n].kind = "compaction" \/ Measured(branch[n])}
<1>1. bearing \in SUBSET (0..Len(branch)) /\ Len(branch) \in Nat /\ Len(branch) # 0
  BY EntryFields, EmptySeq DEF BoxTypes
<1>2. Len(branch) \in bearing
  BY <1>1, EntryFields
<1>3. RegimeTotal(branch) = branch[Max(bearing)].total
  BY <1>2 DEF RegimeTotal
<1> HIDE DEF bearing
<1>4. Max(bearing) \in bearing /\ \A y \in bearing : y <= Max(bearing)
  BY <1>1, <1>2, MaxProperties
<1>5. Max(bearing) \in 0..Len(branch) /\ Len(branch) <= Max(bearing)
  BY <1>1, <1>2, <1>4
<1> QED
  BY <1>1, <1>3, <1>5

LEMMA BoxSpeaks ==
  ASSUME BoxInv, door = "none", NEW e \in Entry, e.kind # "compaction", e.cut = 0, e.sum >= Sum,
         branch' = Append(branch, e), UNCHANGED <<window, taught, boxVars>>
  PROVE  BoxInv'
<1>1. UNCHANGED <<window, taught, door, bound, now, passes, violations, boundary, outcome, events, doors, crashed>>
  BY DEF boxVars
<1>2. BoxTypes /\ BranchInv /\ CutsBetweenExchanges /\ Len(branch) \in Nat
  BY EntryFields DEF BoxInv
<1>3. e.cut \in 0..Len(branch)
  BY <1>2
<1>4. branch' \in Seq(Entry) /\ BranchInv' /\ CutsBetweenExchanges'
  BY <1>2, <1>3, BranchGrows
<1>5. branch' # <<>> /\ branch'[Len(branch')] = e
  BY <1>2 DEF BoxTypes
<1>6. BoxTypes'
  BY <1>1, <1>2, <1>4 DEF BoxTypes
<1>7. RunningInv' /\ FlightInv' /\ OfferInv' /\ boundary' = 0
  BY <1>1 DEF BoxInv, RunningInv, FlightInv, OfferInv
<1>8. FitInv'
  BY <1>5 DEF FitInv
<1>9. FramesInv' /\ AlwaysACut'
  BY <1>1 DEF BoxInv, FramesInv, AlwaysACut
<1> QED
  BY <1>4, <1>6, <1>7, <1>8, <1>9 DEF BoxInv

LEMMA SumIsNat == ASSUME BoxTypes, BranchInv PROVE Sum \in Nat
<1>1. Len(branch) \in 0..Len(branch) /\ Len(branch) <= Len(branch)
  BY EntryFields
<1> QED
  BY <1>1, SumsRise DEF Sum

LEMMA BoxAddsUser == ASSUME BoxInv, AddUser PROVE BoxInv'
<1>1. User(Sum) \in Entry /\ User(Sum).kind # "compaction" /\ User(Sum).cut = 0 /\ User(Sum).sum = Sum /\ Sum \in Nat
  BY SumIsNat DEF BoxInv, User, Entry
<1>2. door = "none" /\ branch' = Append(branch, User(Sum)) /\ UNCHANGED <<window, taught, boxVars>>
  BY DEF AddUser, Talking
<1>3. User(Sum).sum >= Sum
  BY <1>1
<1> QED
  BY <1>1, <1>2, <1>3, BoxSpeaks

LEMMA BoxAddsTurn ==
  ASSUME BoxInv, NEW kind \in {"answer", "batch"}, NEW total \in Nat, NEW sum \in Nat, sum >= Sum, Talking,
         branch' = Append(branch, Turn(kind, total, sum)), UNCHANGED <<window, taught, boxVars>>
  PROVE  BoxInv'
<1> DEFINE e == Turn(kind, total, sum)
<1>1. e \in Entry /\ e.kind # "compaction" /\ e.cut = 0 /\ e.sum >= Sum
  BY DEF Turn, Entry
<1>2. door = "none"
  BY DEF Talking
<1> HIDE DEF e
<1>3. branch' = Append(branch, e)
  BY DEF e
<1> QED
  BY <1>1, <1>2, <1>3, BoxSpeaks

LEMMA BoxTalks ==
  ASSUME BoxInv, NEW k \in {"answer", "batch"}, NEW s \in Sizes \cup {0}, AddTurn(k, s) \/ AddUnmeasured(k, s)
  PROVE  BoxInv'
<1>1. s \in Nat /\ Sum \in Nat /\ RegimeTotal(branch) \in Nat
  BY BoxConstants, SumIsNat, RegimeIsNat DEF BoxInv
<1>2. CASE AddTurn(k, s)
  <2>1. /\ Talking /\ branch' = Append(branch, Turn(k, RegimeTotal(branch) + s, Sum + s))
        /\ UNCHANGED <<window, taught, boxVars>>
    BY <1>2 DEF AddTurn
  <2>2. RegimeTotal(branch) + s \in Nat /\ Sum + s \in Nat /\ Sum + s >= Sum
    BY <1>1
  <2> QED
    BY <2>1, <2>2, BoxAddsTurn
<1>3. CASE AddUnmeasured(k, s)
  <2>1. Talking /\ branch' = Append(branch, Turn(k, s, Sum)) /\ UNCHANGED <<window, taught, boxVars>>
    BY <1>3 DEF AddUnmeasured
  <2>2. Sum >= Sum
    BY <1>1
  <2> QED
    BY <1>1, <2>1, <2>2, BoxAddsTurn
<1> QED
  BY <1>2, <1>3

\* What does not touch the branch leaves the view alone.
LEMMA SameView ==
  ASSUME branch' = branch
  PROVE  /\ Live' = Live /\ Start' = Start /\ Lead' = Lead /\ Retained' = Retained
         /\ (WalkPanics)' = WalkPanics
         /\ \A f : (TailSum(f))' = TailSum(f)
         /\ \A f : (ValidBoundary(f))' = ValidBoundary(f)
         /\ CutsBetweenExchanges => CutsBetweenExchanges'
         /\ BranchInv => BranchInv'
<1>1. Live' = Live
  BY DEF Live
<1>2. Start' = Start /\ Lead' = Lead
  BY <1>1 DEF Start, Lead
<1>3. Retained' = Retained
  BY <1>2 DEF Retained
<1>4. (WalkPanics)' = WalkPanics
  BY <1>1, <1>2 DEF WalkPanics
<1>5. \A n : (SumTo(n))' = SumTo(n)
  BY DEF SumTo
<1>6. \A f : (TailSum(f))' = TailSum(f)
  BY <1>2, <1>5 DEF TailSum, SumTo
<1>7. \A f : (Before(f))' = Before(f)
  BY <1>2, <1>3 DEF Before
<1>8. \A f : (ValidBoundary(f))' = ValidBoundary(f)
  BY <1>2, <1>7 DEF ValidBoundary
<1> QED
  BY <1>1, <1>2, <1>3, <1>4, <1>6, <1>8 DEF CutsBetweenExchanges, BranchInv

LEMMA SameCuts == ASSUME branch' = branch, now' = now, bound' = bound PROVE Cuts' = Cuts
<1>1. \A f : (TailSum(f))' = TailSum(f) /\ (ValidBoundary(f))' = ValidBoundary(f)
  BY SameView
<1>2. \A f : (Prefix(f))' = Prefix(f)
  BY <1>1 DEF Prefix
<1>3. \A f : (Feasible(f))' = Feasible(f)
  BY <1>1, <1>2 DEF Feasible
<1>4. Retained' = Retained /\ Lead' = Lead
  BY SameView
<1> QED
  BY <1>3, <1>4 DEF Cuts

LEMMA BoxSwitches == ASSUME BoxInv, SwitchModel PROVE BoxInv'
<1>1. /\ branch' = branch /\ taught' = taught /\ door' = door /\ bound' = bound /\ now' = now
      /\ passes' = passes /\ violations' = violations /\ boundary' = boundary
      /\ outcome' = outcome /\ events' = events /\ crashed' = crashed /\ window' \in Nat
  BY BoxConstants DEF SwitchModel, boxVars
<1>2. BoxTypes'
  BY <1>1 DEF BoxInv, BoxTypes
<1>3. BranchInv' /\ CutsBetweenExchanges'
  BY <1>1, SameView DEF BoxInv
<1>4. RunningInv' /\ FitInv' /\ FramesInv' /\ AlwaysACut'
  BY <1>1 DEF BoxInv, RunningInv, FitInv, FramesInv, AlwaysACut
<1>5. door = "none" /\ boundary = 0
  BY DEF SwitchModel, Talking, BoxInv, RunningInv
<1>6. FlightInv' /\ OfferInv'
  BY <1>1, <1>5 DEF FlightInv, OfferInv
<1> QED
  BY <1>2, <1>3, <1>4, <1>6 DEF BoxInv

LEMMA BoxKnocks ==
  ASSUME BoxInv, NEW d \in Doors \ {"none"}, NEW lesson \in Nat, NEW e \in BOOLEAN, Knock(d, lesson, e)
  PROVE  BoxInv'
<1>1. /\ door = "none" /\ branch' = branch /\ window' = window /\ boundary' = boundary /\ crashed' = crashed
      /\ passes' = 0 /\ violations' = 0 /\ events' = <<>>
      /\ taught' = IF lesson # 0 THEN lesson ELSE taught
  BY DEF Knock
<1>2. \/ outcome' = "skipped" /\ door' = door /\ bound' = bound /\ now' = now
      \/ /\ door' = d /\ bound' = Resolved(taught') /\ now' = RegimeTotal(branch) /\ outcome' = "none"
         /\ ~(Resolved(taught') < MinSupportedWindow)
  BY DEF Knock
<1>3. BoxTypes /\ boundary = 0 /\ RegimeTotal(branch) \in Nat
  BY <1>1, RegimeIsNat DEF BoxInv, RunningInv
<1>4. taught' \in Nat /\ Resolved(taught') \in Nat
  BY <1>1, <1>3 DEF BoxTypes, Resolved
<1>5. BoxTypes'
  <2>1. branch' \in Seq(Entry) /\ events' \in Seq(Frames) /\ window' \in Nat /\ boundary' \in Nat
    BY <1>1, <1>3 DEF BoxTypes
  <2>2. door' \in Doors /\ bound' \in Nat /\ now' \in Nat
    BY <1>2, <1>3, <1>4 DEF BoxTypes
  <2>3. passes' \in 0..MaxPasses /\ violations' \in 0..ViolationRetryCap
    BY <1>1, BoxConstants
  <2>4. crashed' \in BOOLEAN
    BY <1>1, <1>3, Zenon DEF BoxTypes
  <2> QED
    BY <1>4, <2>1, <2>2, <2>3, <2>4 DEF BoxTypes
<1>6. BranchInv' /\ CutsBetweenExchanges'
  BY <1>1, SameView DEF BoxInv
<1>7. RunningInv'
  BY <1>1, <1>2, <1>3, <1>4, BoxConstants DEF RunningInv
<1>8. FlightInv' /\ OfferInv' /\ FitInv' /\ AlwaysACut'
  BY <1>1, <1>2, <1>3 DEF FlightInv, OfferInv, FitInv, AlwaysACut
<1>9. FramesInv'
  BY <1>1, <1>3, NothingTold DEF FramesInv
<1> QED
  BY <1>5, <1>6, <1>7, <1>8, <1>9 DEF BoxInv

\* An invocation that ends without a commit: what it says, and what stays.
LEMMA BoxCloses ==
  ASSUME BoxInv, door # "none", branch' = branch, window' = window, bound' = bound, now' = now,
         passes' = passes, crashed' = crashed, taught' \in Nat, violations' \in 0..ViolationRetryCap,
         door' = "none", boundary' = 0, outcome' \notin {"compacted", "no cut left"}, FramesInv',
         events' \in Seq(Frames)
  PROVE  BoxInv'
<1>1. BoxTypes'
  BY DEF BoxInv, BoxTypes, Doors
<1>2. BranchInv' /\ CutsBetweenExchanges'
  BY SameView DEF BoxInv
<1>3. RunningInv' /\ FlightInv' /\ OfferInv' /\ FitInv' /\ AlwaysACut'
  BY DEF RunningInv, FlightInv, OfferInv, FitInv, AlwaysACut
<1> QED
  BY <1>1, <1>2, <1>3 DEF BoxInv

\* An invocation that goes on over the same branch.
LEMMA BoxGoesOn ==
  ASSUME BoxInv, door # "none", branch' = branch, window' = window, bound' = bound, now' = now,
         passes' = passes, door' = door, outcome' = outcome, taught' \in Nat, crashed' \in BOOLEAN,
         violations' \in 0..ViolationRetryCap, boundary' \in Nat, events' \in Seq(Frames),
         boundary' # 0 =>
           /\ branch # <<>> /\ ~WalkPanics /\ boundary' \in Retained \cup {Lead}
           /\ ValidBoundary(boundary') /\ TailSum(boundary') >= KeepTail,
         events' # <<>> => WalkPanics \/ Cuts # {},
         FramesInv'
  PROVE  BoxInv'
<1>1. BoxTypes'
  BY DEF BoxInv, BoxTypes
<1>2. BranchInv' /\ CutsBetweenExchanges'
  BY SameView DEF BoxInv
<1>3. RunningInv' /\ FitInv' /\ AlwaysACut'
  BY DEF BoxInv, RunningInv, FitInv, AlwaysACut
<1>4. FlightInv'
  <2> SUFFICES ASSUME boundary' # 0
               PROVE  /\ branch' # <<>> /\ ~(WalkPanics)' /\ boundary' \in Retained' \cup {Lead'}
                      /\ (ValidBoundary(boundary))' /\ (TailSum(boundary) >= KeepTail)'
    BY Zenon DEF FlightInv
  <2>1. branch # <<>> /\ ~(WalkPanics)' /\ boundary' \in Retained' \cup {Lead'}
    BY SameView
  <2>2. Retained' = Retained /\ Start' = Start /\ Lead' = Lead
    BY SameView
  <2>3. (ValidBoundary(boundary))' = ValidBoundary(boundary')
    BY <2>2 DEF ValidBoundary, Before
  <2>4. (TailSum(boundary))' = TailSum(boundary')
    BY <2>2 DEF TailSum, SumTo
  <2> QED
    BY <2>1, <2>3, <2>4
<1>5. OfferInv'
  <2>1. Cuts' = Cuts /\ (WalkPanics)' = WalkPanics
    BY SameCuts, SameView
  <2> QED
    BY <2>1 DEF OfferInv
<1> QED
  BY <1>1, <1>2, <1>3, <1>4, <1>5 DEF BoxInv

\* The telling's steps: one more frame of an open envelope, or its last.
LEMMA FramesGoOn ==
  ASSUME BoxInv, door # "none", NEW x \in {"begin", "retried"}, events' = Append(events, x),
         x = "begin" => passes = 0, x = "retried" => events # <<>>, passes' = passes, door' = door
  PROVE  FramesInv' /\ events' \in Seq(Frames) /\ events' # <<>>
<1>1. events \in Seq(Frames) /\ x \in Frames
  BY DEF BoxInv, BoxTypes, Frames
<1>2. /\ events' \in Seq(Frames) /\ events' # <<>> /\ (events # <<>> => events'[1] = events[1])
      /\ (events = <<>> => events'[1] = x)
      /\ Steps(events') = Steps(events) /\ Closings(events') = Closings(events)
  BY <1>1, TellOne
<1> QED
  BY <1>2 DEF BoxInv, FramesInv

LEMMA FramesClose ==
  ASSUME BoxInv, door # "none", events # <<>>, NEW s \in Seq(Frames), s # <<>>, s[1] = "begin",
         Steps(s) = passes', Closings(s) = 0, NEW x \in {"end", "failed"}, events' = Append(s, x), door' = "none"
  PROVE  FramesInv' /\ events' \in Seq(Frames)
<1>1. x \in Frames
  BY DEF Frames
<1>2. /\ events' \in Seq(Frames) /\ events' # <<>> /\ events'[1] = s[1] /\ events'[Len(events')] = x
      /\ Steps(events') = Steps(s) /\ Closings(events') = Closings(s) + 1
  BY <1>1, TellOne
<1> QED
  BY <1>2 DEF FramesInv

LEMMA BoxSelects == ASSUME BoxInv, SelectCut PROVE BoxInv'
<1>1. /\ door # "none" /\ boundary = 0 /\ branch' = branch /\ window' = window /\ taught' = taught
      /\ bound' = bound /\ now' = now /\ passes' = passes /\ violations' = violations
  BY DEF SelectCut
<1>2. /\ taught' \in Nat /\ violations' \in 0..ViolationRetryCap /\ events \in Seq(Frames)
      /\ BoxTypes /\ BranchInv /\ Len(branch) \in Nat
  BY <1>1, EntryFields DEF BoxInv, BoxTypes
<1>3. CASE WalkPanics
  <2>1. crashed' = TRUE /\ door' = door /\ boundary' = boundary /\ outcome' = outcome /\ events' = events
    BY <1>3 DEF SelectCut
  <2>2. FramesInv' /\ crashed' \in BOOLEAN /\ events' \in Seq(Frames) /\ boundary' = 0 /\ boundary' \in Nat
    BY <1>1, <1>2, <2>1 DEF BoxInv, FramesInv
  <2> QED
    BY <1>1, <1>2, <1>3, <2>1, <2>2, BoxGoesOn
<1>4. CASE ~WalkPanics /\ Cuts # {}
  <2>1. boundary' = Max(Cuts) /\ events' = Begins /\ door' = door /\ outcome' = outcome /\ crashed' = crashed
    BY <1>4 DEF SelectCut
  <2>2. Cuts \in SUBSET (0..Len(branch))
    BY <1>2, ViewShape DEF Cuts
  <2>3. boundary' \in Cuts
    BY <1>2, <1>4, <2>1, <2>2, MaxProperties
  <2>4. /\ boundary' \in Retained \cup {Lead} /\ ValidBoundary(boundary') /\ TailSum(boundary') >= KeepTail
        /\ boundary' \in Nat /\ boundary' \in 1..Len(branch)
    BY <1>2, <2>3, ViewShape DEF Cuts, Feasible
  <2>5. branch # <<>>
    BY <1>2, <2>4
  <2>6. FramesInv' /\ events' \in Seq(Frames)
    <3>1. CASE passes = 0
      <4>1. events' = Append(events, "begin")
        BY <2>1, <3>1 DEF Begins
      <4> QED
        BY <1>1, <2>1, <3>1, <4>1, FramesGoOn
    <3>2. CASE passes # 0
      <4>1. events' = events
        BY <2>1, <3>2 DEF Begins
      <4>2. passes > 0
        BY <1>2, <3>2, BoxConstants DEF BoxTypes
      <4> QED
        BY <1>1, <1>2, <2>1, <4>1, <4>2 DEF BoxInv, FramesInv
    <3> QED
      BY <3>1, <3>2
  <2>7. crashed' \in BOOLEAN
    BY <1>2, <2>1, Zenon DEF BoxTypes
  <2> QED
    BY <1>1, <1>2, <1>4, <2>1, <2>4, <2>5, <2>6, <2>7, BoxGoesOn
<1>5. CASE ~WalkPanics /\ Cuts = {}
  <2>1. events = <<>>
    BY <1>1, <1>5 DEF BoxInv, OfferInv
  <2>2. passes = 0
    BY <1>1, <1>2, <2>1, BoxConstants DEF BoxInv, FramesInv, BoxTypes
  <2>3. Close("nothing", <<>>) /\ crashed' = crashed
    BY <1>5, <2>2 DEF SelectCut
  <2>4. door' = "none" /\ outcome' = "nothing" /\ boundary' = 0 /\ events' = <<>> \o <<>>
    BY <2>1, <2>3 DEF Close
  <2>5. events' = <<>> /\ events' \in Seq(Frames)
    BY <2>4
  <2>6. FramesInv'
    BY <1>1, <2>2, <2>4, <2>5, NothingTold DEF FramesInv
  <2> QED
    BY <1>1, <1>2, <2>3, <2>4, <2>5, <2>6, BoxCloses
<1> QED
  BY <1>3, <1>4, <1>5

LEMMA BoxShortens == ASSUME BoxInv, NEW lesson \in Nat, Shorten(lesson) PROVE BoxInv'
<1>1. /\ door # "none" /\ boundary # 0 /\ branch' = branch /\ window' = window
      /\ bound' = bound /\ now' = now /\ passes' = passes /\ violations' = violations /\ crashed' = crashed
      /\ taught' = IF lesson # 0 THEN lesson ELSE taught
  BY DEF Shorten, Answering
<1>2. /\ taught' \in Nat /\ violations' \in 0..ViolationRetryCap /\ events \in Seq(Frames) /\ events # <<>>
      /\ BoxTypes /\ BranchInv /\ events[1] = "begin" /\ Steps(events) = passes /\ Closings(events) = 0
  BY <1>1 DEF BoxInv, BoxTypes, FramesInv
<1>3. crashed' \in BOOLEAN
  BY <1>1, <1>2, Zenon DEF BoxTypes
<1>4. CASE boundary = Lead
  <2>1. door' = "none" /\ outcome' = "failed" /\ boundary' = 0 /\ events' = events \o <<"failed">>
    BY <1>4 DEF Shorten, Close
  <2>2. events' = Append(events, "failed")
    BY <1>2, <2>1, JoinFrames DEF Frames
  <2>3. FramesInv' /\ events' \in Seq(Frames)
    BY <1>1, <1>2, <2>1, <2>2, FramesClose
  <2> QED
    BY <1>1, <1>2, <2>1, <2>3, BoxCloses
<1>5. CASE boundary # Lead
  <2>1. boundary' = Earlier(boundary) /\ door' = door /\ outcome' = outcome /\ events' = events
    BY <1>5 DEF Shorten
  <2>2. branch # <<>> /\ ~WalkPanics /\ boundary \in Retained \ {Lead} /\ TailSum(boundary) >= KeepTail
    BY <1>1, <1>5 DEF BoxInv, FlightInv
  <2>3. /\ boundary' \in Retained \cup {Lead} /\ ValidBoundary(boundary') /\ TailSum(boundary') >= KeepTail
    BY <1>2, <2>1, <2>2, EarlierBoundary
  <2>4. boundary' \in Nat
    BY <1>2, <2>3, ViewShape
  <2>5. FramesInv' /\ events' \in Seq(Frames)
    BY <1>1, <1>2, <2>1 DEF BoxInv, FramesInv
  <2>6. WalkPanics \/ Cuts # {}
    BY <1>1, <1>2 DEF BoxInv, OfferInv
  <2> QED
    BY <1>1, <1>2, <1>3, <2>1, <2>2, <2>3, <2>4, <2>5, <2>6, BoxGoesOn
<1> QED
  BY <1>4, <1>5

LEMMA BoxIsViolated == ASSUME BoxInv, Violate PROVE BoxInv'
<1>1. /\ door # "none" /\ boundary # 0 /\ branch' = branch /\ window' = window /\ taught' = taught
      /\ bound' = bound /\ now' = now /\ passes' = passes /\ crashed' = crashed
  BY DEF Violate, Answering
<1>2. /\ taught' \in Nat /\ events \in Seq(Frames) /\ events # <<>> /\ violations \in 0..ViolationRetryCap
      /\ BoxTypes /\ events[1] = "begin" /\ Steps(events) = passes /\ Closings(events) = 0
  BY <1>1 DEF BoxInv, BoxTypes, FramesInv
<1>3. crashed' \in BOOLEAN
  BY <1>1, <1>2, Zenon DEF BoxTypes
<1>4. CASE violations < ViolationRetryCap
  <2>1. /\ violations' = violations + 1 /\ boundary' = 0 /\ events' = Append(events, "retried")
        /\ door' = door /\ outcome' = outcome
    BY <1>4 DEF Violate
  <2>2. violations' \in 0..ViolationRetryCap /\ boundary' \in Nat
    BY <1>2, <1>4, <2>1, BoxConstants
  <2>3. FramesInv' /\ events' \in Seq(Frames)
    BY <1>1, <1>2, <2>1, FramesGoOn
  <2>4. WalkPanics \/ Cuts # {}
    BY <1>1, <1>2 DEF BoxInv, OfferInv
  <2> QED
    BY <1>1, <1>2, <1>3, <2>1, <2>2, <2>3, <2>4, BoxGoesOn
<1>5. CASE ~(violations < ViolationRetryCap)
  <2>1. /\ violations' = violations /\ door' = "none" /\ outcome' = "failed" /\ boundary' = 0
        /\ events' = events \o <<"retried", "failed">>
    BY <1>5 DEF Violate, Close
  <2>2. events' = Append(Append(events, "retried"), "failed")
    BY <1>2, <2>1, JoinFrames DEF Frames
  <2> DEFINE s == Append(events, "retried")
  <2>3. "retried" \in Frames
    BY DEF Frames
  <2>4. s \in Seq(Frames) /\ s # <<>> /\ s[1] = "begin" /\ Steps(s) = passes' /\ Closings(s) = 0
    BY <1>1, <1>2, <2>3, TellOne
  <2>5. events' = Append(s, "failed")
    BY <2>2
  <2> HIDE DEF s
  <2>6. FramesInv' /\ events' \in Seq(Frames)
    BY <1>1, <1>2, <2>1, <2>4, <2>5, FramesClose
  <2> QED
    BY <1>1, <1>2, <2>1, <2>6, BoxCloses
<1> QED
  BY <1>4, <1>5

LEMMA BoxFails == ASSUME BoxInv, Fail PROVE BoxInv'
<1>1. /\ door # "none" /\ boundary # 0 /\ branch' = branch /\ window' = window /\ taught' = taught
      /\ bound' = bound /\ now' = now /\ passes' = passes /\ violations' = violations /\ crashed' = crashed
  BY DEF Fail, Answering
<1>2. PICK r \in {"failed", "cancelled"} : Close(r, <<"failed">>)
  BY DEF Fail
<1>3. door' = "none" /\ outcome' \in {"failed", "cancelled"} /\ boundary' = 0 /\ events' = events \o <<"failed">>
  BY <1>2 DEF Close
<1>4. /\ taught' \in Nat /\ violations' \in 0..ViolationRetryCap /\ events \in Seq(Frames) /\ events # <<>>
      /\ events[1] = "begin" /\ Steps(events) = passes /\ Closings(events) = 0
  BY <1>1 DEF BoxInv, BoxTypes, FramesInv
<1>5. events' = Append(events, "failed")
  BY <1>3, <1>4, JoinFrames DEF Frames
<1>6. FramesInv' /\ events' \in Seq(Frames)
  BY <1>1, <1>3, <1>4, <1>5, FramesClose
<1> QED
  BY <1>1, <1>3, <1>4, <1>6, BoxCloses

\* The view behind a commit: the summary leads what the boundary kept.
LEMMA SummaryLeads ==
  ASSUME BoxTypes, NEW e \in Entry, e.kind = "compaction", e.cut \in 1..Len(branch), branch' = Append(branch, e)
  PROVE  /\ Live' = Len(branch) + 1 /\ Lead' = Len(branch) + 1 /\ Start' = e.cut
         /\ Retained' = {n \in e.cut..Len(branch) : branch[n].kind # "compaction"}
         /\ (WalkPanics)' = (branch[e.cut].kind = "compaction")
<1> DEFINE n == Len(branch)
<1>1. /\ Len(branch') = n + 1 /\ n \in Nat /\ DOMAIN branch' = 1..n + 1
      /\ branch'[n + 1] = e /\ \A i \in 1..n : branch'[i] = branch[i]
  BY DEF BoxTypes
<1>2. Compactions(branch') \in SUBSET (0..n + 1) /\ n + 1 \in Compactions(branch')
  BY <1>1 DEF Compactions
<1>3. Live' = Max(Compactions(branch'))
  BY <1>2 DEF Live
<1>4. /\ Max(Compactions(branch')) \in Compactions(branch')
      /\ \A y \in Compactions(branch') : y <= Max(Compactions(branch'))
  <2> DEFINE S == Compactions(branch')
             top == n + 1
  <2>1. top \in Nat /\ S \in SUBSET (0..top) /\ S # {}
    BY <1>1, <1>2
  <2> HIDE DEF S, top
  <2>2. Max(S) \in S /\ \A y \in S : y <= Max(S)
    BY <2>1, MaxProperties
  <2> QED
    BY <2>2 DEF S
<1>5. Live' = n + 1
  <2>1. Max(Compactions(branch')) \in 0..n + 1 /\ n + 1 <= Max(Compactions(branch'))
    BY <1>2, <1>4
  <2> QED
    BY <1>1, <1>3, <2>1
<1>6. Lead' = n + 1 /\ Start' = e.cut
  BY <1>1, <1>5 DEF Lead, Start
<1>7. Retained' = {k \in e.cut..n : branch[k].kind # "compaction"}
  <2>1. Retained' = {k \in e.cut..n + 1 : branch'[k].kind # "compaction"}
    BY <1>1, <1>6 DEF Retained
  <2> QED
    BY <1>1, <2>1
<1>8. (WalkPanics)' = (branch[e.cut].kind = "compaction")
  BY <1>1, <1>5, <1>6 DEF WalkPanics
<1> QED
  BY <1>5, <1>6, <1>7, <1>8

\* What a pass commits: the kept tail and the summary's own tokens, cut between exchanges.
LEMMA CommitsSoundly ==
  ASSUME BoxInv, door # "none", boundary # 0, NEW o \in Outputs,
         branch' = Append(branch, Summary(boundary, TailSum(boundary) + o, Sum)),
         now' = TailSum(boundary) + o, bound' = bound
  PROVE  /\ branch' \in Seq(Entry) /\ branch' # <<>> /\ now' \in Nat /\ BranchInv' /\ CutsBetweenExchanges'
         /\ branch'[Len(branch')].kind = "compaction" /\ branch'[Len(branch')].total = now'
         /\ (WalkPanics)' \/ Cuts' # {}
<1> DEFINE n == Len(branch)
           p == boundary
           base == TailSum(boundary) + o
           e == Summary(p, base, Sum)
<1>1. /\ BoxTypes /\ BranchInv /\ CutsBetweenExchanges /\ branch # <<>> /\ ~WalkPanics
      /\ p \in Retained \cup {Lead} /\ ValidBoundary(p) /\ TailSum(p) >= KeepTail
      /\ bound \in Nat /\ MinSupportedWindow <= bound
  BY DEF BoxInv, FlightInv, RunningInv, BoxTypes
<1>2. n \in Nat /\ n # 0
  BY <1>1, EntryFields, EmptySeq DEF BoxTypes
<1>3. p \in 1..n
  BY <1>1, <1>2, ViewShape
<1>4. KeptFrom(p) <= KeptFrom(p) /\ KeptFrom(p) \in Nat
  BY <1>1, <1>3, ViewShape DEF KeptFrom
<1>5. TailSum(p) \in Nat
  BY <1>1, <1>4, TailSums
<1>6. o \in Nat /\ o # 0 /\ 4 * (o + 1) <= 3 * MinSupportedWindow /\ KeepTail \in Nat /\ MinSupportedWindow \in Nat
  BY BoxConstants
<1>7. base \in Nat /\ base > KeepTail /\ base > TailSum(p)
  BY <1>1, <1>5, <1>6
<1>8. Sum \in Nat
  BY <1>1, SumIsNat
<1> HIDE DEF base
<1>9. e \in Entry /\ e.kind = "compaction" /\ e.cut = p /\ e.total = base /\ e.sum = Sum
  BY <1>3, <1>7, <1>8 DEF Summary, Entry
<1>10. branch' = Append(branch, e)
  BY DEF base
<1> HIDE DEF e
<1>11. branch[p].kind # "compaction" => p = 1 \/ branch[p - 1].kind \in {"answer", "compaction"}
  BY <1>1, BoundaryOnBranch
<1>12. branch' \in Seq(Entry) /\ BranchInv' /\ CutsBetweenExchanges'
  <2>1. e.sum >= Sum /\ e.cut \in 0..Len(branch) /\ e.cut # 0 /\ e.total > KeepTail
    BY <1>2, <1>3, <1>7, <1>8, <1>9
  <2>2. branch[e.cut].kind # "compaction" => e.cut = 1 \/ branch[e.cut - 1].kind \in {"answer", "compaction"}
    BY <1>9, <1>11
  <2> QED
    BY <1>1, <1>9, <1>10, <2>1, <2>2, BranchGrows
<1>13. /\ Len(branch') = n + 1 /\ branch'[n + 1] = e /\ branch' # <<>>
       /\ \A i \in 1..n : branch'[i] = branch[i]
  BY <1>1, <1>2, <1>10 DEF BoxTypes
<1>14. now' = base
  BY DEF base
<1>15. (WalkPanics)' \/ Cuts' # {}
  <2> SUFFICES ASSUME branch[p].kind # "compaction" PROVE Cuts' # {}
    <3>1. e.cut \in 1..Len(branch)
      BY <1>3, <1>9
    <3>2. (WalkPanics)' = (branch[e.cut].kind = "compaction")
      BY <1>1, <1>9, <1>10, <3>1, SummaryLeads
    <3> QED
      BY <1>9, <3>2
  <2>1. e.cut \in 1..Len(branch)
    BY <1>3, <1>9
  <2>2. /\ Lead' = n + 1 /\ Start' = p
        /\ Retained' = {k \in p..n : branch[k].kind # "compaction"}
    BY <1>1, <1>9, <1>10, <2>1, SummaryLeads
  <2>3. p \in Retained' /\ p # Lead' /\ p \in Nat /\ p # 0
    BY <1>2, <1>3, <2>2
  <2>4. (p \in Retained /\ p # Lead) \/ (p = Lead /\ Start = p)
    BY <1>1, ViewShape
  <2>5. KeptFrom(p) = p
    BY <2>4 DEF KeptFrom
  <2>6. TailSum(p) = SumTo(n) - SumTo(p - 1)
    BY <2>5 DEF TailSum, KeptFrom
  <2>7. (SumTo(Len(branch)))' = Sum /\ SumTo(n) = Sum
    BY <1>2, <1>9, <1>13 DEF SumTo, Sum
  <2>8. \A k \in 0..n : (SumTo(k))' = SumTo(k)
    BY <1>2, <1>13 DEF SumTo
  <2>9. p - 1 \in 0..n
    BY <1>2, <1>3
  <2>10. (IF p - 1 = 0 THEN 0 ELSE branch'[p - 1].sum) = SumTo(p - 1)
    BY <2>8, <2>9 DEF SumTo
  <2>11. \A f : f \in Retained' /\ f # Lead' => (TailSum(f))' = (SumTo(Len(branch)))' - (IF f - 1 = 0 THEN 0 ELSE branch'[f - 1].sum)
    BY DEF TailSum, SumTo
  <2>12. \A f : f = p => (TailSum(f))' = TailSum(p)
    BY <2>3, <2>6, <2>7, <2>10, <2>11
  <2>13. \A f : f = p => (ValidBoundary(f))'
    <3>1. \A k \in Retained' : ~(k < p)
      BY <1>2, <1>3, <2>2
    <3>2. \A f : f = p => (Before(f))' = Lead'
      BY <3>1 DEF Before
    <3>3. branch'[Lead'].kind = "compaction"
      BY <1>9, <1>13, <2>2
    <3> QED
      BY <3>2, <3>3 DEF ValidBoundary
  <2>14. o < (3 * bound) \div 4
    BY <1>1, <1>6, ThreeQuarters
  <2>15. base - TailSum(p) = o /\ base > TailSum(p)
    BY <1>5, <1>6 DEF base
  <2>16. \A f : f = p => (Prefix(f))' = o
    BY <1>14, <2>12, <2>15 DEF Prefix
  <2>17. \A f : f = p => (Feasible(f))'
    BY <1>1, <2>12, <2>13, <2>14, <2>16 DEF Feasible
  <2> QED
    BY <2>3, <2>17 DEF Cuts
<1> QED
  BY <1>7, <1>9, <1>12, <1>13, <1>14, <1>15

LEMMA BoxCommits == ASSUME BoxInv, NEW o \in Outputs, Commit(o) PROVE BoxInv'
<1> DEFINE base == TailSum(boundary) + o
<1>1. /\ door # "none" /\ boundary # 0 /\ passes' = passes + 1
      /\ branch' = Append(branch, Summary(boundary, base, Sum)) /\ After(base) /\ now' = base
      /\ window' = window /\ taught' = taught /\ bound' = bound /\ violations' = violations /\ crashed' = crashed
  BY DEF Commit, Answering
<1>2. /\ branch' \in Seq(Entry) /\ branch' # <<>> /\ now' \in Nat /\ BranchInv' /\ CutsBetweenExchanges'
      /\ branch'[Len(branch')].kind = "compaction" /\ branch'[Len(branch')].total = now'
      /\ (WalkPanics)' \/ Cuts' # {}
  BY <1>1, CommitsSoundly
<1> HIDE DEF base
<1>3. /\ events \in Seq(Frames) /\ events # <<>> /\ events[1] = "begin" /\ Steps(events) = passes /\ Closings(events) = 0
      /\ passes \in 0..MaxPasses /\ passes < MaxPasses /\ MaxPasses \in Nat /\ BoxTypes
      /\ outcome = "none" /\ MinSupportedWindow <= bound
  BY <1>1, BoxConstants DEF BoxInv, BoxTypes, FramesInv, RunningInv
<1>4. passes' \in 0..MaxPasses
  BY <1>1, <1>3
<1>5. "step" \in Frames /\ "end" \in Frames
  BY DEF Frames
<1> DEFINE s == Append(events, "step")
<1>6. s \in Seq(Frames) /\ s # <<>> /\ s[1] = "begin" /\ Steps(s) = passes' /\ Closings(s) = 0
  BY <1>1, <1>3, <1>5, TellOne
<1>7. events \o <<"step", "end">> = Append(s, "end")
  BY <1>3, <1>5, JoinFrames
<1> HIDE DEF s
<1>8. \/ /\ door' = "none" /\ boundary' = 0 /\ events' = Append(s, "end")
         /\ outcome' \in {"compacted", "pass cap", "cannot shrink"}
         /\ outcome' = "compacted" => ~OverUrgent(base, bound)
      \/ /\ door' = door /\ boundary' = 0 /\ events' = s /\ outcome' = outcome
         /\ ~(passes + 1 >= MaxPasses)
  BY <1>1, <1>7 DEF After, Close, s
<1>16. /\ door' = "none" \/ door' = door
       /\ boundary' = 0
       /\ door' = "none" \/ (~(passes + 1 >= MaxPasses) /\ outcome' = outcome)
  BY <1>8, Zenon
<1>9. BoxTypes'
  <2>1. events' \in Seq(Frames)
    <3>1. Append(s, "end") \in Seq(Frames)
      BY <1>5, <1>6
    <3> QED
      BY <1>6, <1>8, <3>1
  <2>2. door' \in Doors /\ boundary' \in Nat
    BY <1>3, <1>16 DEF BoxTypes, Doors
  <2>3. window' \in Nat /\ taught' \in Nat /\ bound' \in Nat /\ violations' \in 0..ViolationRetryCap
    BY <1>1, <1>3 DEF BoxTypes
  <2>4. crashed' \in BOOLEAN
    BY <1>1, <1>3, Zenon DEF BoxTypes
  <2> QED
    BY <1>2, <1>4, <2>1, <2>2, <2>3, <2>4 DEF BoxTypes
<1>10. FramesInv'
  <2>1. CASE door' = "none"
    <3>1. events' = Append(s, "end")
      BY <1>1, <1>8, <2>1
    <3> QED
      BY <1>1, <1>3, <1>6, <2>1, <3>1, FramesClose
  <2>2. CASE door' # "none"
    <3>1. events' = s /\ boundary' = 0
      BY <1>8, <2>2
    <3> QED
      BY <1>6, <2>2, <3>1 DEF FramesInv
  <2> QED
    BY <2>1, <2>2
<1>11. RunningInv'
  BY <1>1, <1>3, <1>4, <1>16 DEF RunningInv
<1>12. FlightInv'
  BY <1>8 DEF FlightInv
<1>13. OfferInv'
  BY <1>2 DEF OfferInv
<1>14. FitInv'
  <2>1. outcome' = "compacted" => ~OverUrgent(now', bound')
    BY <1>1, <1>3, <1>8
  <2> QED
    BY <1>2, <2>1 DEF FitInv
<1>15. AlwaysACut'
  BY <1>3, <1>8 DEF AlwaysACut
<1> QED
  BY <1>2, <1>9, <1>10, <1>11, <1>12, <1>13, <1>14, <1>15 DEF BoxInv

LEMMA BoxMoves == ASSUME BoxInv, CompactionNext PROVE BoxInv'
<1>1. CASE AddUser
  BY <1>1, BoxAddsUser
<1>2. ASSUME NEW k \in {"answer", "batch"}, NEW g \in Sizes, AddTurn(k, g) PROVE BoxInv'
  BY <1>2, BoxTalks
<1>3. ASSUME NEW k \in {"answer", "batch"}, NEW t \in Sizes \cup {0}, AddUnmeasured(k, t) PROVE BoxInv'
  BY <1>3, BoxTalks
<1>4. CASE SwitchModel
  BY <1>4, BoxSwitches
<1>5. CASE KnockAny
  <2>1. ASSUME NEW d \in {"pre_request", "manual"}, Knock(d, 0, TRUE) PROVE BoxInv'
    BY <2>1, BoxKnocks DEF Doors
  <2>2. ASSUME NEW e \in BOOLEAN, Knock("idle", 0, e) PROVE BoxInv'
    BY <2>2, BoxKnocks DEF Doors
  <2>3. ASSUME NEW w \in Windows \cup {0}, Knock("overflow", w, TRUE) PROVE BoxInv'
    <3>1. w \in Nat
      BY BoxConstants
    <3> QED
      BY <2>3, <3>1, BoxKnocks DEF Doors
  <2> QED
    BY <1>5, <2>1, <2>2, <2>3 DEF KnockAny
<1>6. CASE PassStep
  <2>1. ASSUME NEW w \in Windows \cup {0}, Shorten(w) PROVE BoxInv'
    <3>1. w \in Nat
      BY BoxConstants
    <3> QED
      BY <2>1, <3>1, BoxShortens
  <2> QED
    BY <1>6, <2>1, BoxSelects, BoxCommits, BoxIsViolated, BoxFails DEF PassStep
<1> QED
  BY <1>1, <1>2, <1>3, <1>4, <1>5, <1>6 DEF CompactionNext

LEMMA BoxRests == ASSUME BoxInv, UNCHANGED compactionVars PROVE BoxInv'
<1>1. /\ branch' = branch /\ window' = window /\ taught' = taught /\ door' = door /\ bound' = bound /\ now' = now
      /\ passes' = passes /\ violations' = violations /\ boundary' = boundary
      /\ outcome' = outcome /\ events' = events /\ crashed' = crashed
  BY DEF compactionVars
<1>2. BoxTypes' /\ RunningInv' /\ FitInv' /\ FramesInv' /\ AlwaysACut'
  BY <1>1 DEF BoxInv, BoxTypes, RunningInv, FitInv, FramesInv, AlwaysACut
<1>3. BranchInv' /\ CutsBetweenExchanges'
  BY <1>1, SameView DEF BoxInv
<1>4. OfferInv'
  <2>1. Cuts' = Cuts /\ (WalkPanics)' = WalkPanics
    BY <1>1, SameCuts, SameView
  <2> QED
    BY <1>1, <2>1 DEF BoxInv, OfferInv
<1>5. FlightInv'
  <2>1. Retained' = Retained /\ Start' = Start /\ Lead' = Lead /\ (WalkPanics)' = WalkPanics
    BY <1>1, SameView
  <2>2. (ValidBoundary(boundary))' = ValidBoundary(boundary)
    BY <1>1, <2>1 DEF ValidBoundary, Before
  <2>3. (TailSum(boundary))' = TailSum(boundary)
    BY <1>1, <2>1 DEF TailSum, SumTo
  <2> QED
    BY <1>1, <2>1, <2>2, <2>3 DEF BoxInv, FlightInv
<1> QED
  BY <1>2, <1>3, <1>4, <1>5 DEF BoxInv

LEMMA BoxKeeps == BoxInv => CompactionTypeOK /\ EnvelopeCloses /\ CompactedFits /\ AlwaysACut /\ CutsBetweenExchanges
<1> SUFFICES ASSUME BoxInv
             PROVE  CompactionTypeOK /\ EnvelopeCloses /\ CompactedFits /\ AlwaysACut /\ CutsBetweenExchanges
  OBVIOUS
<1>1. BoxTypes /\ BranchInv /\ AlwaysACut /\ CutsBetweenExchanges
  BY DEF BoxInv
<1>2. CompactionTypeOK
  <2>1. boundary \in 0..Len(branch)
    BY <1>1, ViewShape, EntryFields, EmptySeq DEF BoxInv, FlightInv, BoxTypes
  <2>2. \A n \in DOMAIN branch : branch[n].cut \in 0..n
    BY <1>1, EntryFields DEF BranchInv
  <2> QED
    BY <1>1, <2>1, <2>2, EntryFields DEF CompactionTypeOK, BoxTypes, Doors
<1>3. EnvelopeCloses
  BY DEF BoxInv, FramesInv, EnvelopeCloses, Count, Steps, Closings, FramesOf
<1>4. CompactedFits
  BY <1>1, RegimeOfLast DEF BoxInv, FitInv, CompactedFits
<1> QED
  BY <1>1, <1>2, <1>3, <1>4

-----------------------------------------------------------------------------
(* Side by side                                                            *)

LaneInv == LaneTypes /\ GuiltInv /\ SweptInv
TasksInv == EdgeInv /\ CatalogInv /\ LaneInv /\ HostInv /\ LockInv /\ BoxInv

LEMMA EdgeRests == ASSUME EdgeInv, UNCHANGED edgeVars PROVE EdgeInv'
<1> UNCHANGED <<stream, feed, out, emitted, errors, printer>>
  BY DEF edgeVars
<1> QED
  BY DEF EdgeInv

LEMMA CatalogRests == ASSUME CatalogInv, UNCHANGED catalogVars PROVE CatalogInv'
<1> UNCHANGED <<mirror, artifact, found, merged, refresh, verified, holder>>
  BY DEF catalogVars
<1> QED
  BY DEF CatalogInv, Parses, OneRefresher, Refreshing, MergedWasVerified

LEMMA LaneRests == ASSUME LaneInv, UNCHANGED laneVars PROVE LaneInv'
<1> USE DEF LaneInv, laneVars
<1>1. LaneTypes'
  BY DEF LaneTypes
<1>2. GuiltInv'
  BY DEF GuiltInv, Excused
<1>3. SweptInv'
  BY DEF SweptInv, Own
<1> QED
  BY <1>1, <1>2, <1>3

LEMMA TasksStart == Init => TasksInv
BY EdgeStarts, CatalogStarts, LaneStarts, HostStarts, LockStarts, BoxStarts DEF Init, TasksInv, LaneInv

\* A step that leaves a part alone keeps that part's invariant.
LEMMA TasksRest ==
  ASSUME TasksInv
  PROVE  /\ UNCHANGED edgeVars => EdgeInv'
         /\ UNCHANGED catalogVars => CatalogInv'
         /\ UNCHANGED laneVars => LaneInv'
         /\ UNCHANGED hostVars => HostInv'
         /\ UNCHANGED lockVars => LockInv'
         /\ UNCHANGED compactionVars => BoxInv'
BY EdgeRests, CatalogRests, LaneRests, HostRests, LockRests, BoxRests, Zenon DEF TasksInv

LEMMA TasksMove == TasksInv /\ [Next]_allVars => TasksInv'
<1> SUFFICES ASSUME TasksInv, [Next]_allVars PROVE TasksInv'
  OBVIOUS
<1>1. ASSUME NEW m \in {"box", "files", "pages", "shell", "edge", "channel", "lane", "host", "lock"}, Only(m)
      PROVE  /\ m # "edge" => EdgeInv'
             /\ m # "channel" => CatalogInv'
             /\ m # "lane" => LaneInv'
             /\ m # "host" => HostInv'
             /\ m # "lock" => LockInv'
             /\ m # "box" => BoxInv'
  BY <1>1, TasksRest, Zenon DEF Only
<1>2. CASE Only("edge") /\ Edge!EdgeNext
  <2>1. EdgeInv'
    BY <1>2, EdgeMoves DEF TasksInv
  <2> QED
    BY <1>1, <1>2, <2>1 DEF TasksInv
<1>3. CASE Only("channel") /\ CatalogNext
  <2>1. CatalogInv'
    BY <1>3, CatalogMoves DEF TasksInv
  <2> QED
    BY <1>1, <1>3, <2>1 DEF TasksInv
<1>4. CASE Only("lane") /\ LaneNext
  <2>1. LaneInv'
    BY <1>4, LaneKeepsTypes, LaneKeepsGuilt, LaneKeepsSweeps DEF TasksInv, LaneInv
  <2> QED
    BY <1>1, <1>4, <2>1 DEF TasksInv
<1>5. CASE Only("host") /\ Host!HostNext
  <2>1. HostInv'
    BY <1>5, HostMoves DEF TasksInv
  <2> QED
    BY <1>1, <1>5, <2>1 DEF TasksInv
<1>6. CASE Only("lock") /\ Table!LockNext
  <2>1. LockInv'
    BY <1>6, LockMoves DEF TasksInv
  <2> QED
    BY <1>1, <1>6, <2>1 DEF TasksInv
<1>7. CASE Only("box") /\ CompactionNext
  <2>1. BoxInv'
    BY <1>7, BoxMoves DEF TasksInv
  <2> QED
    BY <1>1, <1>7, <2>1 DEF TasksInv
<1>8. ASSUME NEW m \in {"files", "pages", "shell"}, Only(m) PROVE TasksInv'
  <2>1. EdgeInv' /\ CatalogInv' /\ LaneInv' /\ HostInv' /\ LockInv' /\ BoxInv'
    BY <1>1, <1>8
  <2> QED
    BY <2>1 DEF TasksInv
<1>9. CASE UNCHANGED allVars
  <2>1. UNCHANGED edgeVars /\ UNCHANGED catalogVars /\ UNCHANGED laneVars /\ UNCHANGED hostVars /\ UNCHANGED lockVars /\ UNCHANGED compactionVars
    BY <1>9, Zenon DEF allVars
  <2> QED
    BY <2>1, TasksRest DEF TasksInv
<1> QED
  BY <1>2, <1>3, <1>4, <1>5, <1>6, <1>7, <1>8, <1>9, Zenon DEF Next

\* Through the edge, the catalog and the lanes, whatever the clients, mirrors and packages
\* do: nothing is lost or reordered on the way to stdout, one process refreshes the cache
\* and merges only what it verified, and a dead extension takes its own items only.
THEOREM TasksAreApart == Spec => []TasksStayApart
<1>1. TasksInv => TasksStayApart
  BY EdgeKeeps, LaneKeepsApart DEF TasksInv, LaneInv, CatalogInv, TasksStayApart
<1> QED
  BY <1>1, TasksStart, TasksMove, PTL DEF Spec

\* For every window, sizes of turns and summaries, caps and lengths, however the doors, the
\* provider's answers, its rejections and violations alternate: an envelope opens first and
\* closes once with a step for every pass, what says "compacted" fits the bound it went by,
\* a pass that goes on finds a cut again, and every cut lies between two exchanges and keeps
\* more than the floor.
THEOREM CompactionHolds == Spec => []CompactionIsSound
<1>1. TasksInv => CompactionIsSound
  BY BoxKeeps DEF TasksInv, CompactionIsSound
<1> QED
  BY <1>1, TasksStart, TasksMove, PTL DEF Spec

\* The stream's end, seen from a step of the whole.
LEMMA HostEndsLast ==
  ASSUME TasksInv, [Next]_allVars
  PROVE  [ended' # ended => \A i \in DOMAIN sessions : sessions[i].alive => i \in Host!InTransit]_Host!hostVars
<1>1. CASE Host!HostNext
  BY <1>1, HostEnds DEF TasksInv
<1>2. CASE UNCHANGED hostVars
  BY <1>2, HostRests DEF TasksInv
<1>3. ASSUME NEW m \in {"box", "files", "pages", "shell", "edge", "channel", "lane", "lock"}, Only(m)
      PROVE  UNCHANGED hostVars
  BY <1>3, Zenon DEF Only
<1>4. CASE UNCHANGED allVars
  BY <1>2, <1>4, Zenon DEF allVars
<1> QED
  BY <1>1, <1>2, <1>3, <1>4, Zenon DEF Next

\* However the commands of any number of threads race the attach, one another's logins and
\* the wind-down: each is answered once, the auth file, the world and the last catalog agree
\* whenever no login is under way, a session is on an older world only if a walk missed it
\* between its check and its insert, the stream ends after the workers; and of any number of
\* tasks that claim locks none waits in a circle, and who is named as a holder holds.
THEOREM HostIsAnswerable == Spec => HostAnswersAll
<1>1. TasksInv => /\ Host!HostTypeOK /\ Host!AllAnswered /\ Host!CatalogTellsWorld /\ Host!StaleOnlyThroughGap
                  /\ Table!NoCycle /\ Table!BlameIsTrue
  BY HostKeeps, LockKeeps DEF TasksInv
<1>2. TasksInv /\ [Next]_allVars =>
        [ended' # ended => \A i \in DOMAIN sessions : sessions[i].alive => i \in Host!InTransit]_Host!hostVars
  BY HostEndsLast
<1> QED
  BY <1>1, <1>2, TasksStart, TasksMove, PTL DEF Spec, HostAnswersAll, Host!EndsLast
=============================================================================
