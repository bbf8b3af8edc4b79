------------------------- MODULE SessionWorkerProofs -------------------------
(* What TLAPS proves of the session worker, for any number of threads,     *)
(* messages and commands, any faults and any bounds.                       *)
EXTENDS SessionWorker, FiniteSetTheorems, SequenceTheorems, TLAPS

-----------------------------------------------------------------------------
(* What is left of a command                                               *)

\* The steps that leave something for the worker to find.
Leaving == {"Push", "ParkContinue", "ParkCompact", "ParkReplay", "Park"}

StepNames == Leaving \cup {"Announce", "Notify", "Probe", "DropSlots", "Cancel",
                           "Clear", "Pull"}

\* Step i of a remainder of a script: a step that leaves something is followed
\* by the notify, which comes last; a push follows its announcement, which comes
\* first.
Fits(todo, i) ==
  /\ todo[i] \in Leaving => i + 1 = Len(todo) /\ todo[i + 1] = "Notify"
  /\ todo[i] = "Notify" => i = Len(todo)
  /\ todo[i] = "Announce" => i = 1
  /\ todo[i] = "Push" /\ i > 1 => todo[i - 1] = "Announce"

Todos == {todo \in Seq(StepNames) : \A i \in 1..Len(todo) : Fits(todo, i)}

Call == [command : DOMAIN Script \cup {"none"}, todo : Todos, message : 0..MaxMessages]

\* The call still has to push its message, or to notify.
Carries(call) == call.todo # <<>> /\ Head(call.todo) \in {"Announce", "Push"}
Owes(call) == call.todo # <<>> /\ Head(call.todo) = "Notify"

\* Taking a step off a remainder leaves a remainder; it begins with the push
\* only after the announcement, and with the notify after any step that leaves
\* something.
LEMMA TailOfTodo ==
  ASSUME NEW todo \in Todos, todo # <<>>
  PROVE  /\ Tail(todo) \in Todos
         /\ Tail(todo) # <<>> => Head(Tail(todo)) # "Announce"
         /\ Tail(todo) # <<>> /\ Head(Tail(todo)) = "Push" => Head(todo) = "Announce"
         /\ Head(todo) \in Leaving => Tail(todo) # <<>> /\ Head(Tail(todo)) = "Notify"
<1> DEFINE rest == Tail(todo)
<1>1. /\ Len(todo) \in Nat /\ Len(todo) > 0
      /\ \A i \in 1..Len(todo) : Fits(todo, i)
  BY DEF Todos
<1>2. /\ rest \in Seq(StepNames) /\ Len(rest) = Len(todo) - 1
      /\ \A i \in 1..Len(rest) : rest[i] = todo[i + 1]
      /\ rest # <<>> => Len(rest) > 0 /\ Head(rest) = rest[1]
  BY DEF Todos
<1>3. 1 \in 1..Len(todo) /\ Head(todo) = todo[1]
  BY <1>1
<1> HIDE DEF rest
<1>4. ASSUME NEW i \in 1..Len(rest)
      PROVE  Fits(rest, i) /\ rest[i] # "Announce"
  <2>1. i + 1 \in 1..Len(todo) /\ Fits(todo, i + 1) /\ rest[i] = todo[i + 1]
    BY <1>1, <1>2
  <2>2. i > 1 => rest[i - 1] = todo[i]
    BY <1>1, <1>2
  <2>3. i + 1 \in 1..Len(rest) => rest[i + 1] = todo[i + 2]
    BY <1>1, <1>2
  <2> QED
    BY <1>1, <1>2, <2>1, <2>2, <2>3 DEF Fits, Leaving
<1>5. rest \in Todos /\ (rest # <<>> => Head(rest) # "Announce")
  BY <1>2, <1>4 DEF Todos
<1>6. rest # <<>> => Fits(todo, 2) /\ Head(rest) = todo[2]
  BY <1>1, <1>2
<1>7. rest # <<>> /\ Head(rest) = "Push" => Head(todo) = "Announce"
  BY <1>3, <1>6 DEF Fits
<1>8. Head(todo) \in Leaving => Len(todo) = 2 /\ todo[2] = "Notify"
  <2>1. Fits(todo, 1)
    BY <1>1, <1>3
  <2> QED
    BY <1>1, <1>3, <2>1 DEF Fits
<1>9. Head(todo) \in Leaving => rest # <<>> /\ Head(rest) = "Notify"
  BY <1>2, <1>6, <1>8
<1> QED
  BY <1>5, <1>7, <1>9 DEF rest

\* Every command begins with a remainder, and only a message pushes.
LEMMA ScriptType ==
  ASSUME NEW command \in DOMAIN Script
  PROVE  /\ Script[command] \in Todos /\ Script[command] # <<>>
         /\ Head(Script[command]) \in {"Announce", "Push"} => command = "message"
<1> DEFINE todo == Script[command]
<1>1. todo \in
        {<<"Announce", "Push", "Notify">>, <<"DropSlots", "Cancel", "Clear">>,
         <<"Probe", "DropSlots", "Cancel", "Clear", "Park", "Notify">>,
         <<"ParkContinue", "Notify">>, <<"ParkCompact", "Notify">>,
         <<"ParkReplay", "Notify">>, <<"Pull">>,
         <<"DropSlots", "Cancel", "Clear", "Pull">>}
  BY DEF Script, AbortSteps
<1>2. todo[1] \in {"Announce", "Push"} => command = "message"
  BY DEF Script, AbortSteps
<1> HIDE DEF todo
<1>3. todo # <<>> /\ Head(todo) = todo[1]
  BY <1>1
<1>4. todo \in Seq(StepNames) /\ \A i \in 1..Len(todo) : Fits(todo, i)
  <2>1. CASE todo = <<"Announce", "Push", "Notify">>
    BY <2>1 DEF StepNames, Leaving, Fits
  <2>2. CASE todo = <<"DropSlots", "Cancel", "Clear">>
    BY <2>2 DEF StepNames, Leaving, Fits
  <2>3. CASE todo = <<"ParkContinue", "Notify">>
    BY <2>3 DEF StepNames, Leaving, Fits
  <2>4. CASE todo = <<"ParkCompact", "Notify">>
    BY <2>4 DEF StepNames, Leaving, Fits
  <2>5. CASE todo = <<"ParkReplay", "Notify">>
    BY <2>5 DEF StepNames, Leaving, Fits
  <2>6. CASE todo = <<"Pull">>
    BY <2>6 DEF StepNames, Leaving, Fits
  <2>7. CASE todo = <<"DropSlots", "Cancel", "Clear", "Pull">>
    BY <2>7 DEF StepNames, Leaving, Fits
  <2>8. CASE todo = <<"Probe", "DropSlots", "Cancel", "Clear", "Park", "Notify">>
    <3>1. /\ Len(todo) = 6 /\ todo[1] = "Probe" /\ todo[2] = "DropSlots"
          /\ todo[3] = "Cancel" /\ todo[4] = "Clear" /\ todo[5] = "Park"
          /\ todo[6] = "Notify"
      BY <2>8
    <3>2. todo \in Seq(StepNames)
      BY <2>8 DEF StepNames, Leaving
    <3> QED
      BY <3>1, <3>2 DEF Fits, Leaving
  <2> QED
    BY <1>1, <2>1, <2>2, <2>3, <2>4, <2>5, <2>6, <2>7, <2>8, Zenon
<1> QED
  BY <1>2, <1>3, <1>4 DEF Todos, todo

\* A thread that takes a step of its call goes on with a call; it still carries
\* its message only if it just announced it, and owes a notify after any step
\* that leaves something.
LEMMA RestType ==
  ASSUME NEW call \in Call, call.todo # <<>>
  PROVE  /\ Rest(call) \in Call
         /\ Carries(Rest(call)) =>
              Head(call.todo) = "Announce" /\ Rest(call).message = call.message
         /\ Head(call.todo) \in Leaving => Owes(Rest(call))
<1> DEFINE todo == call.todo
           rest == [call EXCEPT !.todo = Tail(todo)]
<1>1. todo \in Todos /\ call.command \in DOMAIN Script \cup {"none"}
      /\ call.message \in 0..MaxMessages
  BY DEF Call
<1>2. /\ Tail(todo) \in Todos
      /\ Tail(todo) # <<>> => Head(Tail(todo)) # "Announce"
      /\ Tail(todo) # <<>> /\ Head(Tail(todo)) = "Push" => Head(todo) = "Announce"
      /\ Head(todo) \in Leaving => Tail(todo) # <<>> /\ Head(Tail(todo)) = "Notify"
  BY <1>1, TailOfTodo, Zenon
<1>3. Len(todo) = 1 => Tail(todo) = <<>>
  <2>1. Tail(todo) \in Seq(StepNames)
    BY <1>2 DEF Todos
  <2>2. Len(todo) = 1 => Len(Tail(todo)) = 0
    BY <1>1 DEF Todos
  <2> QED
    BY <2>1, <2>2, EmptySeq
<1>4. rest \in Call /\ rest.todo = Tail(todo) /\ rest.message = call.message
  BY <1>1, <1>2 DEF Call
<1>5. CASE Rest(call) = Idle /\ Len(todo) = 1
  <2>1. Idle \in Call /\ Idle.todo = <<>>
    BY BoundsAssumption DEF Idle, Call, Todos
  <2> QED
    BY <1>2, <1>3, <1>5, <2>1 DEF Carries
<1>6. CASE Rest(call) = rest
  BY <1>2, <1>4, <1>6 DEF Carries, Owes
<1> QED
  BY <1>5, <1>6 DEF Rest

-----------------------------------------------------------------------------
(* The message ledger                                                      *)

CallsType == calls \in [Clients -> Call] /\ sent \in 0..MaxMessages

LedgerType == /\ queue \in Seq(Messages) /\ entered \in Seq(Messages)
              /\ discarded \in SUBSET Messages

\* A message a thread still carries was submitted, by that thread alone, and the
\* session has not accepted it.
Carried ==
  /\ Ledger!Accepted \subseteq 1..sent
  /\ \A c \in Clients : Carries(calls[c]) =>
       calls[c].message \in (1..sent) \ Ledger!Accepted
  /\ \A c, d \in Clients : Carries(calls[c]) /\ Carries(calls[d]) /\ c # d =>
       calls[c].message # calls[d].message

LedgerInv == CallsType /\ LedgerType /\ Carried

\* The kinds of step, as the ledger sees them.
Moves(c) == /\ calls[c].todo # <<>> /\ sent' = sent
            /\ \/ calls' = [calls EXCEPT ![c] = Rest(calls[c])]
               \/ calls' = [calls EXCEPT ![c] = Idle]
Keeps == UNCHANGED <<calls, sent>>

\* Every step of the worker and its threads is one of them.
LEMMA StepKinds ==
  ASSUME [Next]_vars
  PROVE  \/ \E c \in Clients : \E command \in Commands[c] : Issue(c, command)
         \/ \E c \in Clients : Push(c)
         \/ \E c \in Clients : Moves(c) /\ Ledger!Discard
         \/ \E c \in Clients : Moves(c) /\ UNCHANGED Ledger!ledger
         \/ Keeps /\ (Ledger!Enter \/ Ledger!Discard \/ UNCHANGED Ledger!ledger)
<1> USE DEF Ledger!Discard, Ledger!Enter, Ledger!ledger, Keeps, client, events, mailbox,
           ToSet, Ledger!ToSet
<1>1. ASSUME NEW c \in Clients, Deliver(c), ~Push(c)
      PROVE  Moves(c) /\ (Ledger!Discard \/ UNCHANGED Ledger!ledger)
  <2>1. CASE Clear(c)
    BY <2>1 DEF Clear, Advance, At, Moves
  <2>2. CASE Probe(c)
    BY <2>2 DEF Probe, Advance, At, Moves
  <2>3. CASE Announce(c) \/ Notify(c) \/ DropSlots(c) \/ Cancel(c) \/ Pull(c)
    BY <2>3 DEF Announce, Notify, DropSlots, Cancel, Pull, Advance, At, Moves
  <2>4. CASE ParkContinue(c) \/ ParkCompact(c) \/ ParkReplay(c) \/ Park(c)
    BY <2>4 DEF ParkContinue, ParkCompact, ParkReplay, Park, Advance, At, Moves
  <2> QED
    BY <1>1, <2>1, <2>2, <2>3, <2>4 DEF Deliver
<1>2. CASE Answer
  BY <1>2 DEF Answer, BoxAnswers, TurnEnds, Goto
<1>3. CASE ServeReplay \/ ServeCheckout \/ ServeCompact \/ BeatQueued \/ BeatContinue
           \/ PumpStarts \/ PumpQueued \/ PumpContinue \/ PumpEnds \/ Wake \/ WindDown
           \/ LastLook \/ OpenBox \/ BoxCancelled
  BY <1>3 DEF ServeReplay, ServeCheckout, ServeCompact, BeatQueued, BeatContinue,
              PumpStarts, PumpQueued, PumpContinue, PumpEnds, Wake, WindDown, LastLook,
              OpenBox, BoxCancelled, Goto
<1>4. CASE OpenRun \/ Ready \/ Poll \/ Preempt \/ Decide \/ Final \/ StreamEnds \/ Conclude
  BY <1>4 DEF OpenRun, Ready, Poll, Preempt, Decide, Final, StreamEnds, Conclude, Goto
<1>5. CASE FailBeforeEngine \/ Stop \/ Converge
  BY <1>5 DEF FailBeforeEngine, Stop, Converge, EnterQueued, Goto
<1>6. CASE UNCHANGED vars
  BY <1>6 DEF vars
<1> QED
  BY <1>1, <1>2, <1>3, <1>4, <1>5, <1>6, Zenon DEF Next, Work

\* What an append, a concatenation and the empty queue hold.
LEMMA ToSetFacts ==
  ASSUME NEW S, NEW s \in Seq(S), NEW t \in Seq(S)
  PROVE  /\ ToSet(<<>>) = {}
         /\ \A x \in S : ToSet(Append(s, x)) = ToSet(s) \cup {x}
         /\ ToSet(s \o t) = ToSet(s) \cup ToSet(t)
         /\ ToSet(s) \subseteq S
<1>1. ToSet(<<>>) = {}
  BY DEF ToSet
<1>2. ASSUME NEW x \in S PROVE ToSet(Append(s, x)) = ToSet(s) \cup {x}
  <2>1. /\ DOMAIN Append(s, x) = 1..(Len(s) + 1) /\ DOMAIN s = 1..Len(s)
        /\ \A i \in 1..Len(s) : Append(s, x)[i] = s[i]
        /\ Append(s, x)[Len(s) + 1] = x /\ Len(s) \in Nat
    OBVIOUS
  <2> QED
    BY <2>1 DEF ToSet
<1>3. ToSet(s \o t) = ToSet(s) \cup ToSet(t)
  <2> DEFINE st == s \o t
  <2>1. /\ DOMAIN st = 1..(Len(s) + Len(t)) /\ Len(s) \in Nat /\ Len(t) \in Nat
        /\ DOMAIN s = 1..Len(s) /\ DOMAIN t = 1..Len(t)
        /\ \A i \in 1..Len(s) : st[i] = s[i]
        /\ \A i \in 1..Len(t) : st[Len(s) + i] = t[i]
    OBVIOUS
  <2>2. \A i \in DOMAIN st : i \in 1..Len(s) \/ \E j \in 1..Len(t) : i = Len(s) + j
    <3>1. SUFFICES ASSUME NEW i \in DOMAIN st, i > Len(s)
                   PROVE  i - Len(s) \in 1..Len(t) /\ i = Len(s) + (i - Len(s))
      BY <2>1
    <3> QED
      BY <2>1, <3>1
  <2> HIDE DEF st
  <2>3. ASSUME NEW i \in DOMAIN st
        PROVE  st[i] \in ToSet(s) \cup ToSet(t)
    BY <2>1, <2>2 DEF ToSet
  <2>4. ASSUME NEW i \in DOMAIN s
        PROVE  s[i] \in ToSet(st)
    BY <2>1 DEF ToSet
  <2>5. ASSUME NEW i \in DOMAIN t
        PROVE  t[i] \in ToSet(st)
    <3>1. Len(s) + i \in DOMAIN st /\ st[Len(s) + i] = t[i]
      BY <2>1
    <3> QED
      BY <3>1, Zenon DEF ToSet
  <2>6. ToSet(st) = ToSet(s) \cup ToSet(t)
    BY <2>3, <2>4, <2>5, Zenon DEF ToSet
  <2> QED
    BY <2>6 DEF st
<1>4. ToSet(s) \subseteq S
  BY DEF ToSet
<1> QED
  BY <1>1, <1>2, <1>3, <1>4

\* Appending to a sequence of one.
LEMMA Appends ==
  ASSUME NEW S, NEW x \in S, NEW y \in S
  PROVE  Append(<<x>>, y) = <<x, y>>
<1>1. \A s \in Seq(S) : /\ Append(s, y) \in Seq(S) /\ Len(Append(s, y)) = Len(s) + 1
                        /\ \A i \in 1..Len(s) : Append(s, y)[i] = s[i]
                        /\ Append(s, y)[Len(s) + 1] = y
  OBVIOUS
<1> DEFINE s == <<x>>
           t == Append(s, y)
           u == <<x, y>>
<1>2. s \in Seq(S) /\ Len(s) = 1 /\ s[1] = x
  OBVIOUS
<1>3. u \in Seq(S) /\ Len(u) = 2 /\ u[1] = x /\ u[2] = y
  OBVIOUS
<1> HIDE DEF s
<1>4. /\ t \in Seq(S) /\ Len(t) = Len(s) + 1
      /\ \A i \in 1..Len(s) : t[i] = s[i]
      /\ t[Len(s) + 1] = y
  BY <1>1, <1>2, Zenon
<1> HIDE DEF t, u
<1>5. Len(t) = Len(u) /\ \A i \in 1..Len(t) : t[i] = u[i]
  BY <1>2, <1>3, <1>4
<1>6. t = u
  BY <1>3, <1>4, <1>5, SeqEqual
<1> QED
  BY <1>6 DEF s, t, u

\* The ledger's accepted messages, before and after a step.
LEMMA AcceptedIs ==
  /\ Ledger!Accepted = ToSet(queue) \cup ToSet(entered) \cup discarded
  /\ Ledger!Accepted' = ToSet(queue') \cup ToSet(entered') \cup discarded'
  BY DEF Ledger!Accepted, Ledger!ToSet, ToSet

\* At first nothing is accepted or carried.
LEMMA LedgerInit == Init => LedgerInv
<1> SUFFICES ASSUME Init PROVE LedgerInv
  OBVIOUS
<1>1. Idle \in Call /\ ~Carries(Idle)
  BY BoundsAssumption DEF Idle, Call, Todos, Carries
<1>2. CallsType
  BY <1>1, BoundsAssumption DEF Init, CallsType
<1>3. LedgerType
  BY DEF Init, LedgerType
<1>4. Ledger!Accepted = {}
  BY AcceptedIs DEF Init, ToSet
<1>5. Carried
  BY <1>1, <1>4 DEF Init, Carried
<1> QED
  BY <1>2, <1>3, <1>5 DEF LedgerInv

\* What a drain or a clear does to the accepted messages: nothing.
LEMMA DrainKeeps ==
  ASSUME LedgerType, Ledger!Enter \/ Ledger!Discard \/ UNCHANGED Ledger!ledger
  PROVE  LedgerType' /\ Ledger!Accepted' = Ledger!Accepted
<1>1. \A s, t \in Seq(Messages) : /\ ToSet(<<>>) = {}
                                 /\ ToSet(s \o t) = ToSet(s) \cup ToSet(t)
                                 /\ ToSet(s) \subseteq Messages
  BY ToSetFacts
<1>2. Ledger!ToSet(queue) = ToSet(queue)
  BY DEF Ledger!ToSet, ToSet
<1>3. CASE Ledger!Enter
  BY <1>1, <1>3, AcceptedIs DEF LedgerType, Ledger!Enter
<1>4. CASE Ledger!Discard
  BY <1>1, <1>2, <1>4, AcceptedIs DEF LedgerType, Ledger!Discard
<1>5. CASE UNCHANGED Ledger!ledger
  BY <1>5, AcceptedIs DEF LedgerType, Ledger!ledger
<1> QED
  BY <1>3, <1>4, <1>5

\* A step of a thread that pushes nothing keeps what the others carry.
LEMMA MoveKeeps ==
  ASSUME CallsType, Carried, Ledger!Accepted' = Ledger!Accepted,
         NEW c \in Clients, Moves(c)
  PROVE  CallsType' /\ Carried'
<1>1. PICK call \in {Rest(calls[c]), Idle} : calls' = [calls EXCEPT ![c] = call]
  BY DEF Moves
<1>2. /\ call \in Call
      /\ Carries(call) => Carries(calls[c]) /\ call.message = calls[c].message
  <2>1. calls[c] \in Call /\ calls[c].todo # <<>>
    BY DEF CallsType, Moves
  <2>2. CASE call = Rest(calls[c])
    BY <2>1, <2>2, RestType DEF Carries
  <2>3. CASE call = Idle
    BY <2>3, BoundsAssumption DEF Idle, Call, Todos, Carries
  <2> QED
    BY <1>1, <2>2, <2>3
<1>3. /\ calls'[c] = call /\ sent' = sent
      /\ \A d \in Clients \ {c} : calls'[d] = calls[d]
  BY <1>1 DEF CallsType, Moves
<1>4. CallsType'
  BY <1>1, <1>2, <1>3 DEF CallsType
<1>5. \A d \in Clients : Carries(calls'[d]) =>
        Carries(calls[d]) /\ calls'[d].message = calls[d].message
  BY <1>2, <1>3
<1>6. Carried'
  BY <1>3, <1>5 DEF Carried
<1> QED
  BY <1>4, <1>6

\* A message enters the queue from the thread that carried it.
LEMMA PushKeeps ==
  ASSUME LedgerInv, NEW c \in Clients, Push(c)
  PROVE  LedgerInv' /\ Ledger!Accept(calls[c].message)
<1> DEFINE m == calls[c].message
<1>1. /\ calls[c] \in Call /\ calls[c].todo # <<>> /\ Head(calls[c].todo) = "Push"
      /\ calls' = [calls EXCEPT ![c] = Rest(calls[c])] /\ sent' = sent
      /\ queue' = Append(queue, m) /\ entered' = entered /\ discarded' = discarded
  BY DEF LedgerInv, CallsType, Push, At, Advance, events
<1>2. m \in 1..sent /\ m \in Messages /\ m \notin Ledger!Accepted
  BY <1>1, BoundsAssumption DEF LedgerInv, Carried, CallsType, Carries, Messages
<1>3. Rest(calls[c]) \in Call /\ ~Carries(Rest(calls[c]))
  BY <1>1, RestType
<1>4. Ledger!Accepted' = Ledger!Accepted \cup {m}
  <2>1. ToSet(queue') = ToSet(queue) \cup {m}
    <3>1. queue \in Seq(Messages)
      BY DEF LedgerInv, LedgerType
    <3>2. \A x \in Messages : ToSet(Append(queue, x)) = ToSet(queue) \cup {x}
      BY <3>1, ToSetFacts
    <3> QED
      BY <1>1, <1>2, <3>2, Zenon
  <2> QED
    BY <1>1, <2>1, AcceptedIs
<1>5. LedgerType'
  BY <1>1, <1>2 DEF LedgerInv, LedgerType
<1>6. /\ calls'[c] = Rest(calls[c])
      /\ \A d \in Clients \ {c} : calls'[d] = calls[d]
  BY <1>1 DEF LedgerInv, CallsType
<1>7. CallsType'
  BY <1>1, <1>3, <1>6 DEF LedgerInv, CallsType
<1>8. Carried'
  <2>1. Carries(calls[c])
    BY <1>1 DEF Carries
  <2>2. \A d \in Clients : Carries(calls'[d]) =>
          /\ Carries(calls[d]) /\ calls'[d].message = calls[d].message
          /\ calls'[d].message # m
    BY <1>3, <1>6, <2>1 DEF LedgerInv, Carried
  <2>3. Ledger!Accepted' \subseteq 1..sent'
    BY <1>1, <1>2, <1>4 DEF LedgerInv, Carried
  <2>4. \A d \in Clients : Carries(calls'[d]) =>
          calls'[d].message \in (1..sent') \ Ledger!Accepted'
    BY <1>1, <1>4, <2>2 DEF LedgerInv, Carried
  <2>5. \A d, e \in Clients : Carries(calls'[d]) /\ Carries(calls'[e]) /\ d # e =>
          calls'[d].message # calls'[e].message
    BY <2>2 DEF LedgerInv, Carried
  <2> QED
    BY <2>3, <2>4, <2>5 DEF Carried
<1>9. Ledger!Accept(m)
  BY <1>1, <1>2 DEF Ledger!Accept
<1> QED
  BY <1>5, <1>7, <1>8, <1>9 DEF LedgerInv

\* A message is submitted with a number of its own.
LEMMA IssueKeeps ==
  ASSUME LedgerInv, NEW c \in Clients, NEW command \in Commands[c], Issue(c, command)
  PROVE  LedgerInv' /\ UNCHANGED Ledger!ledger
<1> DEFINE call == [command |-> command, todo |-> Script[command],
                    message |-> IF command = "message" THEN sent' ELSE 0]
<1>1. command \in DOMAIN Script
  BY CommandsAssumption
<1>2. /\ sent \in 0..MaxMessages /\ sent' \in 0..MaxMessages
      /\ IF command = "message" THEN sent' = sent + 1 ELSE sent' = sent
  BY BoundsAssumption DEF LedgerInv, CallsType, Issue
<1>3. /\ Script[command] \in Todos /\ Script[command] # <<>>
      /\ Head(Script[command]) \in {"Announce", "Push"} => command = "message"
  BY <1>1, ScriptType
<1>4. call \in Call
  BY <1>1, <1>2, <1>3, BoundsAssumption DEF Call
<1>5. Carries(call) => call.message = sent + 1 /\ sent' = sent + 1
  BY <1>2, <1>3 DEF Carries
<1>6. calls' = [calls EXCEPT ![c] = call] /\ UNCHANGED <<queue, entered, discarded>>
  BY DEF Issue, mailbox, events
<1> HIDE DEF call
<1>7. CallsType'
  BY <1>2, <1>4, <1>6 DEF LedgerInv, CallsType
<1>8. LedgerType' /\ Ledger!Accepted' = Ledger!Accepted
  BY <1>6, AcceptedIs DEF LedgerInv, LedgerType
<1>9. calls'[c] = call /\ \A d \in Clients \ {c} : calls'[d] = calls[d]
  BY <1>6 DEF LedgerInv, CallsType
<1>10. Carried'
  <2>1. \A d \in Clients \ {c} : Carries(calls'[d]) =>
          calls'[d].message \in (1..sent) \ Ledger!Accepted
    BY <1>9 DEF LedgerInv, Carried
  <2>2. Carries(calls'[c]) => calls'[c].message = sent + 1 /\ sent' = sent + 1
    BY <1>5, <1>9
  <2>3. Ledger!Accepted \subseteq 1..sent /\ 1..sent \subseteq 1..sent'
    BY <1>2 DEF LedgerInv, Carried
  <2>4. sent + 1 \notin 1..sent /\ (sent' = sent + 1 => sent + 1 \in 1..sent')
    BY <1>2
  <2>5. \A d \in Clients : Carries(calls'[d]) =>
          calls'[d].message \in (1..sent') \ Ledger!Accepted'
    BY <1>8, <2>1, <2>2, <2>3, <2>4
  <2>6. \A d, e \in Clients : Carries(calls'[d]) /\ Carries(calls'[e]) /\ d # e =>
          calls'[d].message # calls'[e].message
    BY <1>9, <2>1, <2>2, <2>4 DEF LedgerInv, Carried
  <2> QED
    BY <1>8, <2>3, <2>5, <2>6 DEF Carried
<1> QED
  BY <1>6, <1>7, <1>8, <1>10 DEF LedgerInv, Ledger!ledger

\* Every step keeps the invariant, and is a step of the ledger or leaves it alone.
LEMMA LedgerStep ==
  ASSUME LedgerInv, [Next]_vars
  PROVE  LedgerInv' /\ [Ledger!Next]_(Ledger!ledger)
<1>1. CASE \E c \in Clients : \E command \in Commands[c] : Issue(c, command)
  BY <1>1, IssueKeeps
<1>2. CASE \E c \in Clients : Push(c)
  <2>1. PICK c \in Clients : Push(c)
    BY <1>2
  <2>2. LedgerInv' /\ Ledger!Accept(calls[c].message)
    BY <2>1, PushKeeps
  <2>3. calls[c].message \in Messages
    BY <2>1, BoundsAssumption
       DEF LedgerInv, CallsType, Carried, Carries, Push, At, Messages
  <2> QED
    BY <2>2, <2>3 DEF Ledger!Next
<1>3. CASE \E c \in Clients : Moves(c) /\ (Ledger!Discard \/ UNCHANGED Ledger!ledger)
  BY <1>3, DrainKeeps, MoveKeeps DEF LedgerInv, Ledger!Next
<1>4. CASE Keeps /\ (Ledger!Enter \/ Ledger!Discard \/ UNCHANGED Ledger!ledger)
  <2>1. LedgerType' /\ Ledger!Accepted' = Ledger!Accepted
    BY <1>4, DrainKeeps DEF LedgerInv
  <2>2. CallsType' /\ Carried'
    BY <1>4, <2>1 DEF LedgerInv, CallsType, Carried, Keeps
  <2> QED
    BY <1>4, <2>1, <2>2 DEF LedgerInv, Ledger!Next
<1> QED
  BY <1>1, <1>2, <1>3, <1>4, StepKinds

\* No message is accepted twice, lost or kept behind a drain: whatever the
\* threads, the pump, the aborts and the stops do, the mailbox of session/mailbox.rs
\* goes through the steps of the message ledger only.
THEOREM LedgerRefined == Spec => ImplementsLedger
<1>1. Init => Ledger!Init
  BY DEF Init, Ledger!Init
<1>2. LedgerInv /\ [Next]_vars => LedgerInv' /\ [Ledger!Next]_(Ledger!ledger)
  BY LedgerStep
<1> QED
  BY <1>1, <1>2, LedgerInit, PTL DEF Spec, ImplementsLedger, Ledger!Spec

\* A frontend never reads message_queued of a message whose fate it already saw
\* (Mailbox::push acknowledges before it queues).
THEOREM QueuedFirst == Spec => QueuedBeforeFate
<1>1. ASSUME LedgerInv, Next,  NEW m \in noticed' \ noticed
      PROVE  m \notin ToSet(entered) \cup discarded
  <2>1. PICK c \in Clients : Announce(c) /\ m = calls[c].message
    <3> USE DEF events
    <3>1. ASSUME NEW c \in Clients, Deliver(c)
          PROVE  UNCHANGED noticed \/ Announce(c)
      BY <3>1 DEF Deliver, Push, Notify, ParkContinue, ParkCompact, ParkReplay, Probe,
                  DropSlots, Cancel, Clear, Park, Pull
    <3>2. ASSUME NEW c \in Clients, NEW command \in Commands[c], Issue(c, command)
          PROVE  UNCHANGED noticed
      BY <3>2 DEF Issue
    <3>3. Work \/ Answer => UNCHANGED noticed
      BY DEF Work, Answer, BoxAnswers, TurnEnds, ServeReplay, ServeCheckout,
             ServeCompact, BeatQueued, BeatContinue, PumpStarts, PumpQueued,
             PumpContinue, PumpEnds, Wake, WindDown, LastLook, OpenBox, BoxCancelled,
             OpenRun, Ready, FailBeforeEngine, Poll, Preempt, Stop, Converge, Decide,
             Final, StreamEnds, Conclude, EnterQueued
    <3>4. PICK c \in Clients : Announce(c)
      BY <1>1, <3>1, <3>2, <3>3 DEF Next
    <3> QED
      BY <1>1, <3>4 DEF Announce
  <2>2. Carries(calls[c])
    BY <2>1 DEF Announce, At, Carries
  <2> QED
    BY <1>1, <2>1, <2>2, AcceptedIs DEF LedgerInv, Carried
<1>2. LedgerInv /\ [Next]_vars =>
        [\A m \in noticed' \ noticed : m \notin ToSet(entered) \cup discarded]_vars
  BY <1>1
<1>3. LedgerInv /\ [Next]_vars => LedgerInv'
  BY LedgerStep
<1> QED
  BY <1>2, <1>3, LedgerInit, PTL DEF Spec, QueuedBeforeFate

-----------------------------------------------------------------------------
(* Every run tells its terminal                                            *)

Active == {"Converge", "Decide", "Turn", "Final", "End"}

\* What a run may have told.
Tellings == {<<>>, <<"finished">>, <<"aborted">>, <<"failed">>, <<"finished", "aborted">>}

RunShape ==
  [phase : Active \cup {"none", "over"}, queued : BOOLEAN, turns : Nat,
   defects : Nat, retries : Nat, stopping : BOOLEAN,
   error : {"none", "terminal", "overflow"}, result : {"none"} \cup Terminals,
   terminals : Tellings]

\* The worker drives a run: in the engine, or in the box that repairs its context.
Box(doors) == pc \in {"OpenBox", "Box"} /\ door \in doors
Driving == pc \in {"Guard", "Poll", "Engine", "Conclude"} \/ Box({"overflow"})

\* Only the final response tells a terminal before the run is concluded, and the
\* run that told it concludes finished or aborted.
RunInv ==
  /\ run \in RunShape
  /\ Driving => run.phase \in Active
  /\ ~Driving => run.phase \in {"none", "over"}
  /\ run.phase = "End" => run.terminals = <<"finished">>
  /\ run.phase \in Active \ {"End"} => run.terminals = <<>>
  /\ run.phase = "over" => run.terminals # <<>>
  /\ pc = "Conclude" => /\ run.result \in Terminals
                        /\ run.result = "finished" => run.phase = "End"
                        /\ run.result = "failed" => run.phase # "End"
  /\ Box({"overflow"}) => run.result = "failed" /\ run.phase # "End"
  /\ pc \in {"OpenBox", "Box"} => door \in {"manual", "idle", "overflow"}

\* At first there is no run.
LEMMA RunInvInit == Init => RunInv
  BY DEF Init, RunInv, RunShape, NoRun, Driving, Box, Active, Tellings

\* A thread's step leaves the run alone.
LEMMA ThreadsLeaveRun ==
  ASSUME NEW c \in Clients,
         Deliver(c) \/ \E command \in Commands[c] : Issue(c, command)
  PROVE  UNCHANGED <<pc, door, closing, run>>
  BY DEF Deliver, Announce, Push, Notify, ParkContinue, ParkCompact, ParkReplay, Probe,
         DropSlots, Cancel, Clear, Park, Pull, Advance, Issue, worker

\* The beat and the pump open and close runs; they conclude none.
LEMMA BeatKeepsRun ==
  ASSUME RunInv,
         \/ ServeReplay \/ ServeCheckout \/ ServeCompact \/ BeatQueued \/ BeatContinue
         \/ PumpStarts \/ PumpQueued \/ PumpContinue \/ PumpEnds \/ Wake \/ WindDown
         \/ LastLook \/ OpenRun
  PROVE  RunInv'
<1> USE DEF RunInv, Driving, Box, Goto
<1>1. CASE ServeReplay \/ ServeCheckout \/ BeatQueued \/ BeatContinue \/ PumpStarts
           \/ PumpContinue \/ Wake \/ WindDown \/ LastLook
  BY <1>1 DEF ServeReplay, ServeCheckout, BeatQueued, BeatContinue, PumpStarts,
              PumpContinue, Wake, WindDown, LastLook
<1>2. CASE ServeCompact
  BY <1>2 DEF ServeCompact, AfterParked
<1>3. CASE PumpQueued
  BY <1>3 DEF PumpQueued, RunShape, Active
<1>4. CASE PumpEnds
  BY <1>4 DEF PumpEnds, NoRun, RunShape, Active, Tellings
<1>5. CASE OpenRun
  BY <1>5 DEF OpenRun, NoRun, RunShape, Active, Tellings
<1> QED
  BY <1>1, <1>2, <1>3, <1>4, <1>5

\* A box returns to the beat or to the conclusion of the run that overflowed.
LEMMA BoxKeepsRun ==
  ASSUME RunInv, OpenBox \/ BoxCancelled \/ BoxAnswers
  PROVE  RunInv'
<1>1. /\ UNCHANGED <<door, run>> /\ Box({"manual", "idle", "overflow"})
      /\ pc' = "Box" \/ pc' = AfterBox
  BY DEF RunInv, Box, OpenBox, BoxCancelled, BoxAnswers, Goto
<1>2. CASE pc' = "Box"
  BY <1>1, <1>2 DEF RunInv, Driving, Box
<1>3. CASE pc' = AfterBox
  <2>1. /\ door = "overflow" => pc' = "Conclude"
        /\ door # "overflow" => pc' \in {"Done", "Queued?", "Wait"}
    BY <1>1, <1>3 DEF AfterBox, AfterParked, Box
  <2> QED
    BY <1>1, <2>1 DEF RunInv, Driving, Box, Terminals
<1> QED
  BY <1>1, <1>2, <1>3

\* Inside a run.
LEMMA EngineKeepsRun ==
  ASSUME RunInv,
         \/ Ready \/ FailBeforeEngine \/ Poll \/ Preempt \/ Stop \/ Converge \/ Decide
         \/ TurnEnds \/ Final \/ StreamEnds \/ Conclude
  PROVE  RunInv'
<1> USE DEF RunInv, Driving, Box, Goto, RunShape, Active, Terminals
<1>1. CASE Ready \/ Poll
  BY <1>1 DEF Ready, Poll
<1>2. CASE FailBeforeEngine
  BY <1>2 DEF FailBeforeEngine, Told, NoRun, Tellings
<1>3. CASE Preempt
  BY <1>3 DEF Preempt
<1>4. CASE Stop
  BY <1>4 DEF Stop, In
<1>5. CASE Converge
  <2>1. pc = "Engine" /\ run.phase = "Converge" /\ pc' \in {"Engine", "Poll"}
        /\ run'.phase = "Decide" /\ run'.terminals = run.terminals /\ run' \in RunShape
    BY <1>5 DEF Converge, In
  <2> QED
    BY <2>1
<1>6. CASE Decide
  <2>1. CASE Over
    <3>1. /\ pc = "Engine" /\ run.phase = "Decide" /\ run' = [run EXCEPT !.result = "failed"]
          /\ \/ pc' = "Conclude"
             \/ pc' = "OpenBox" /\ door' = "overflow"
      BY <1>6, <2>1 DEF Decide, In
    <3> QED
      BY <3>1
  <2>2. CASE ~Over
    BY <1>6, <2>2 DEF Decide, In
  <2> QED
    BY <2>1, <2>2
<1>7. CASE TurnEnds
  <2>1. PICK o \in Outcomes : pc' = o.poll /\ run' = o.run
    BY <1>7 DEF TurnEnds
  <2> DEFINE settled == [run EXCEPT !.defects = 0, !.retries = 0]
             batch == [settled EXCEPT !.phase = "Converge", !.turns = @ + 1]
             again == [run EXCEPT !.phase = "Converge"]
             Good(r) == /\ r \in RunShape /\ r.phase \in {"Final", "Converge"}
                        /\ r.terminals = run.terminals
  <2>2. settled \in RunShape /\ settled.terminals = run.terminals
    OBVIOUS
  <2>3. o.poll \in {"Poll", "Engine"} /\ Good(o.run)
    <3>1. /\ o.poll \in {"Poll", "Engine"}
          /\ \/ o.run \in {[settled EXCEPT !.phase = "Final"], batch,
                           [batch EXCEPT !.stopping = TRUE]}
             \/ o.run \in {[again EXCEPT !.defects = @ + 1],
                           [again EXCEPT !.retries = @ + 1],
                           [again EXCEPT !.error = "terminal"],
                           [again EXCEPT !.error = "overflow"]}
      <4>1. \/ o = [poll |-> "Poll",   run |-> [settled EXCEPT !.phase = "Final"]]
            \/ o = [poll |-> "Poll",   run |-> batch]
            \/ o = [poll |-> "Poll",   run |-> [again EXCEPT !.defects = @ + 1]]
            \/ o = [poll |-> "Engine", run |-> [again EXCEPT !.retries = @ + 1]]
            \/ o = [poll |-> "Engine", run |-> [again EXCEPT !.error = "terminal"]]
            \/ o = [poll |-> "Poll",   run |-> [batch EXCEPT !.stopping = TRUE]]
            \/ o = [poll |-> "Engine", run |-> [again EXCEPT !.error = "overflow"]]
        BY Zenon DEF Outcomes
      <4> HIDE DEF settled, batch, again
      <4> QED
        BY <4>1
    <3>2. /\ again \in RunShape /\ again.phase = "Converge"
          /\ again.terminals = run.terminals
      OBVIOUS
    <3> HIDE DEF settled, again
    <3>3. Good([settled EXCEPT !.phase = "Final"]) /\ Good(batch)
      <4>1. Good([settled EXCEPT !.phase = "Final"])
        BY <2>2
      <4>2. settled.turns + 1 \in Nat
        BY <2>2
      <4>3. Good(batch)
        BY <2>2, <4>2
      <4> QED
        BY <4>1, <4>3
    <3>4. /\ Good([again EXCEPT !.defects = @ + 1])
          /\ Good([again EXCEPT !.retries = @ + 1])
          /\ \A kind \in {"terminal", "overflow"} : Good([again EXCEPT !.error = kind])
      BY <3>2
    <3> HIDE DEF batch
    <3>5. Good([batch EXCEPT !.stopping = TRUE])
      BY <3>3
    <3> HIDE DEF Good
    <3> QED
      BY <3>1, <3>3, <3>4, <3>5
  <2>4. In("Turn")
    BY <1>7 DEF TurnEnds
  <2> QED
    BY <2>1, <2>3, <2>4 DEF In
<1>8. CASE Final
  <2>1. /\ pc = "Engine" /\ pc' = "Poll" /\ run.phase = "Final"
        /\ run' = [run EXCEPT !.phase = "End", !.terminals = Append(@, "finished")]
    BY <1>8 DEF Final, In
  <2>2. Append(<<>>, "finished") = <<"finished">>
    OBVIOUS
  <2>3. run' = [run EXCEPT !.phase = "End", !.terminals = <<"finished">>]
    BY <2>1, <2>2
  <2> QED
    BY <2>1, <2>3 DEF Tellings
<1>9. CASE StreamEnds
  BY <1>9 DEF StreamEnds, In
<1>10. CASE Conclude
  <2>1. /\ pc = "Conclude" /\ pc' \in {"PumpEnd", "PumpQueued?"}
        /\ run' = Told(IF run.result = "finished" THEN run.terminals
                        ELSE Append(run.terminals, run.result))
    BY <1>10 DEF Conclude
  <2>2. PICK t \in Tellings \ {<<>>} : run' = Told(t)
    <3>1. /\ Append(<<>>, "failed") = <<"failed">>
          /\ Append(<<>>, "aborted") = <<"aborted">>
          /\ Append(<<"finished">>, "aborted") = <<"finished", "aborted">>
      <4>1. Append(<<>>, "failed") = <<"failed">>
        OBVIOUS
      <4>2. Append(<<>>, "aborted") = <<"aborted">>
        OBVIOUS
      <4>3. \A S : \A x, y \in S : Append(<<x>>, y) = <<x, y>>
        BY Appends
      <4>4. \A x, y \in Terminals : Append(<<x>>, y) = <<x, y>>
        BY <4>3, Zenon
      <4>5. "finished" \in Terminals /\ "aborted" \in Terminals
        OBVIOUS
      <4> HIDE DEF Terminals
      <4>6. Append(<<"finished">>, "aborted") = <<"finished", "aborted">>
        BY <4>4, <4>5, Zenon
      <4> QED
        BY <4>1, <4>2, <4>6
    <3>2. /\ run.result \in {"finished", "aborted", "failed"} /\ run.phase \in Active
          /\ run.result = "finished" => run.terminals = <<"finished">>
          /\ run.result = "failed" => run.terminals = <<>>
          /\ run.terminals \in {<<>>, <<"finished">>}
      BY <2>1
    <3>3. CASE run.result = "finished"
      BY <2>1, <3>2, <3>3 DEF Tellings
    <3>4. CASE run.result = "failed"
      BY <2>1, <3>1, <3>2, <3>4 DEF Tellings
    <3>5. CASE run.result = "aborted"
      BY <2>1, <3>1, <3>2, <3>5 DEF Tellings
    <3> QED
      BY <3>2, <3>3, <3>4, <3>5
  <2> QED
    <3>1. /\ run' \in RunShape /\ run'.phase = "over" /\ run'.terminals = t
      BY <2>2 DEF Told, NoRun
    <3> QED
      BY <2>1, <2>2, <3>1
<1> QED
  BY <1>1, <1>2, <1>3, <1>4, <1>5, <1>6, <1>7, <1>8, <1>9, <1>10

\* Every step keeps the run's invariant.
LEMMA RunStep ==
  ASSUME RunInv, [Next]_vars
  PROVE  RunInv'
<1>1. ASSUME NEW c \in Clients,
             Deliver(c) \/ \E command \in Commands[c] : Issue(c, command)
      PROVE  RunInv'
  BY <1>1, ThreadsLeaveRun DEF RunInv, Driving, Box
<1>2. CASE Work
  BY <1>2, BeatKeepsRun, BoxKeepsRun, EngineKeepsRun, Zenon DEF Work
<1>3. CASE Answer
  BY <1>3, BoxKeepsRun, EngineKeepsRun, Zenon DEF Answer
<1>4. CASE UNCHANGED vars
  BY <1>4 DEF vars, worker, RunInv, Driving, Box
<1> QED
  BY <1>1, <1>2, <1>3, <1>4, Zenon DEF Next

\* By the time the pump goes on, every run it opened has told its terminal
\* (session/run.rs), whatever failed, stopped, overflowed or was aborted.
THEOREM EveryRunTells == Spec => []RunsAreTold
<1>1. RunInv => RunsAreTold
  BY DEF RunInv, RunsAreTold, RunShape, Tellings, Driving, Box
<1>2. RunInv /\ [Next]_vars => RunInv'
  BY RunStep
<1> QED
  BY <1>1, <1>2, RunInvInit, PTL DEF Spec

-----------------------------------------------------------------------------
(* No wakeup is lost                                                       *)

\* The worker will be woken.
Owed == permit \/ \E c \in Clients : Owes(calls[c])

\* The places of the beat past each of its looks, up to its sleep.
PastContinue == pc = "Wait" \/ Box({"idle"})
PastQueue == pc = "Continue?" \/ PastContinue
PastCompact == pc = "Queued?" \/ Box({"manual"}) \/ PastQueue
PastCheckout == pc = "Compact" \/ PastCompact
PastReplay == pc = "Checkout" \/ PastCheckout

\* Nothing is pending past its look.
Seen ==
  /\ PastReplay => ~replay
  /\ PastCheckout => checkout = 0
  /\ PastCompact => ~compact
  /\ PastQueue => queue = <<>>
  /\ PastContinue => ~continue

\* What arrives behind the beat's look is owed a wakeup.
WakeInv == Seen \/ Owed

\* At first nothing is pending.
LEMMA WakeInvInit == Init => WakeInv
  BY DEF Init, WakeInv, Seen, PastReplay, PastCheckout, PastCompact, PastQueue,
         PastContinue, Box

\* What a thread's step leaves for the worker is owed by the notify that follows;
\* its other steps leave nothing and wake nobody less.
LEMMA DeliverKeepsWake ==
  ASSUME CallsType, WakeInv, NEW c \in Clients, Deliver(c)
  PROVE  WakeInv'
<1> USE DEF At, Advance, mailbox, intent, worker
<1>1. calls[c] \in Call /\ calls[c].todo # <<>>
  BY DEF CallsType, Deliver, Announce, Push, Notify, ParkContinue, ParkCompact,
         ParkReplay, Probe, DropSlots, Cancel, Clear, Park, Pull
<1>2. CASE Push(c) \/ ParkContinue(c) \/ ParkCompact(c) \/ ParkReplay(c) \/ Park(c)
  <2>1. Head(calls[c].todo) \in Leaving /\ calls' = [calls EXCEPT ![c] = Rest(calls[c])]
    BY <1>2 DEF Push, ParkContinue, ParkCompact, ParkReplay, Park, Leaving
  <2>2. Owes(calls'[c])
    BY <1>1, <2>1, RestType DEF CallsType
  <2> QED
    BY <2>2 DEF WakeInv, Owed
<1>3. CASE Notify(c)
  BY <1>3 DEF Notify, WakeInv, Owed
<1>4. CASE Announce(c) \/ Probe(c) \/ DropSlots(c) \/ Cancel(c) \/ Clear(c) \/ Pull(c)
  <2>1. /\ Head(calls[c].todo) # "Notify" /\ UNCHANGED permit
        /\ \/ calls' = [calls EXCEPT ![c] = Rest(calls[c])]
           \/ calls' = [calls EXCEPT ![c] = Idle]
    BY <1>4 DEF Announce, Probe, DropSlots, Cancel, Clear, Pull
  <2>2. \A d \in Clients \ {c} : calls'[d] = calls[d]
    BY <2>1 DEF CallsType
  <2>3. Owed => Owed'
    BY <2>1, <2>2 DEF Owed, Owes
  <2>4. Seen => Seen'
    <3> USE DEF Seen, PastReplay, PastCheckout, PastCompact, PastQueue, PastContinue, Box
    <3>1. CASE Announce(c)
      BY <3>1 DEF Announce
    <3>2. CASE Probe(c)
      BY <3>2 DEF Probe
    <3>3. CASE DropSlots(c)
      BY <3>3 DEF DropSlots
    <3>4. CASE Cancel(c) \/ Pull(c)
      BY <3>4 DEF Cancel, Pull
    <3>5. CASE Clear(c)
      BY <3>5 DEF Clear
    <3> QED
      BY <1>4, <3>1, <3>2, <3>3, <3>4, <3>5
  <2> QED
    BY <2>3, <2>4 DEF WakeInv
<1> QED
  BY <1>2, <1>3, <1>4 DEF Deliver

\* A new command only adds to what is owed.
LEMMA IssueKeepsWake ==
  ASSUME CallsType, WakeInv, NEW c \in Clients, NEW command \in Commands[c],
         Issue(c, command)
  PROVE  WakeInv'
<1>1. /\ ~Owes(calls[c]) /\ \A d \in Clients \ {c} : calls'[d] = calls[d]
      /\ UNCHANGED <<mailbox, intent, worker>>
  BY DEF Issue, CallsType, Owes
<1>2. Owed => Owed'
  BY <1>1 DEF Owed, mailbox
<1>3. Seen => Seen'
  BY <1>1 DEF Seen, PastReplay, PastCheckout, PastCompact, PastQueue, PastContinue, Box,
              mailbox, intent, worker
<1> QED
  BY <1>2, <1>3 DEF WakeInv

\* The worker consumes the wakeup only to start its beat over; every other step
\* that brings it nearer to its sleep has just looked.
LEMMA WorkKeepsWake ==
  ASSUME WakeInv, RunInv, Work \/ Answer
  PROVE  WakeInv'
<1> USE DEF Goto, client, mailbox, intent, events
<1>1. UNCHANGED calls
  BY DEF Work, Answer, BoxAnswers, TurnEnds, ServeReplay, ServeCheckout, ServeCompact,
         BeatQueued, BeatContinue, PumpStarts, PumpQueued, PumpContinue, PumpEnds, Wake,
         WindDown, LastLook, OpenBox, BoxCancelled, OpenRun, Ready, FailBeforeEngine,
         Poll, Preempt, Stop, Converge, Decide, Final, StreamEnds, Conclude
<1>2. ASSUME ~Wake PROVE Owed => Owed'
  <2>1. permit => permit'
    BY <1>2 DEF Work, Answer, BoxAnswers, TurnEnds, ServeReplay, ServeCheckout,
       ServeCompact, BeatQueued, BeatContinue, PumpStarts, PumpQueued, PumpContinue,
       PumpEnds, WindDown, LastLook, OpenBox, BoxCancelled, OpenRun, Ready,
       FailBeforeEngine, Poll, Preempt, Stop, Converge, Decide, Final, StreamEnds,
       Conclude
  <2> QED
    BY <1>1, <2>1 DEF Owed
<1>3. Seen => Seen' \/ Owed'
  <2> USE DEF Seen, PastReplay, PastCheckout, PastCompact, PastQueue, PastContinue, Box
  <2>1. CASE ServeReplay \/ ServeCheckout \/ BeatQueued \/ BeatContinue
    BY <2>1 DEF ServeReplay, ServeCheckout, BeatQueued, BeatContinue
  <2>2. CASE ServeCompact
    BY <2>2 DEF ServeCompact, AfterParked
  <2>3. CASE PumpStarts \/ PumpQueued \/ PumpContinue \/ PumpEnds \/ Wake \/ WindDown
             \/ LastLook
    BY <2>3 DEF PumpStarts, PumpQueued, PumpContinue, PumpEnds, Wake, WindDown, LastLook
  <2>4. CASE OpenBox \/ BoxCancelled \/ BoxAnswers
    <3>1. /\ UNCHANGED <<door, replay, checkout, compact, queue>>
          /\ Box({"manual", "idle", "overflow"})
          /\ pc' = "Box" \/ pc' = AfterBox
          /\ UNCHANGED continue \/ permit'
      BY <2>4 DEF RunInv, OpenBox, BoxCancelled, BoxAnswers
    <3>2. CASE pc' = "Box"
      BY <3>1, <3>2 DEF Owed
    <3>3. CASE pc' = AfterBox
      <4>1. /\ door = "overflow" => pc' = "Conclude"
            /\ door = "manual" => pc' \in {"Done", "Queued?"}
            /\ door = "idle" => pc' = "Wait"
        BY <3>1, <3>3 DEF AfterBox, AfterParked
      <4> QED
        BY <3>1, <4>1 DEF Owed
    <3> QED
      BY <3>1, <3>2, <3>3
  <2>5. CASE OpenRun \/ Ready \/ FailBeforeEngine \/ Poll \/ Preempt \/ Stop
    BY <2>5 DEF OpenRun, Ready, FailBeforeEngine, Poll, Preempt, Stop
  <2>6. CASE Converge \/ Decide
    BY <2>6 DEF Converge, Decide
  <2>7. CASE TurnEnds
    BY <2>7 DEF TurnEnds, Outcomes
  <2>8. CASE Final \/ StreamEnds \/ Conclude
    BY <2>8 DEF Final, StreamEnds, Conclude
  <2> QED
    BY <2>1, <2>2, <2>3, <2>4, <2>5, <2>6, <2>7, <2>8, Zenon DEF Work, Answer
<1>4. CASE Wake
  BY <1>4 DEF Wake, WakeInv, Seen, PastReplay, PastCheckout, PastCompact, PastQueue,
              PastContinue, Box
<1> QED
  BY <1>2, <1>3, <1>4 DEF WakeInv

\* Every step keeps the wakeup's invariant.
LEMMA WakeStep ==
  ASSUME CallsType, WakeInv, RunInv, [Next]_vars
  PROVE  WakeInv'
<1>1. CASE UNCHANGED vars
  BY <1>1 DEF vars, mailbox, intent, worker, client, WakeInv, Owed, Seen, PastReplay,
              PastCheckout, PastCompact, PastQueue, PastContinue, Box
<1>2. CASE Next
  BY <1>2, DeliverKeepsWake, IssueKeepsWake, WorkKeepsWake, Zenon DEF Next
<1> QED
  BY <1>1, <1>2

\* The worker never sleeps over a message, a continue, a checkout, a compaction or
\* a replay that nobody will wake it for (Mailbox::work_signal, the beat's select).
THEOREM NoWakeupIsLost == Spec => []NoLostWakeup
<1>1. CallsType /\ WakeInv => NoLostWakeup
  <2> SUFFICES ASSUME CallsType, WakeInv, pc = "Wait", ~permit,
                      queue # <<>> \/ continue \/ compact \/ replay \/ checkout # 0
               PROVE  \E c \in Clients : "Notify" \in ToSet(calls[c].todo)
    BY DEF NoLostWakeup
  <2>1. ~Seen
    BY DEF Seen, PastReplay, PastCheckout, PastCompact, PastQueue, PastContinue
  <2>2. PICK c \in Clients : Owes(calls[c])
    BY <2>1 DEF WakeInv, Owed
  <2>3. calls[c].todo \in Seq(StepNames) /\ calls[c].todo # <<>>
    BY <2>2 DEF CallsType, Call, Todos, Owes
  <2>4. 1 \in DOMAIN calls[c].todo /\ calls[c].todo[1] = "Notify"
    BY <2>2, <2>3 DEF Owes
  <2> QED
    BY <2>4, Zenon DEF ToSet
<1>2. LedgerInv /\ RunInv /\ WakeInv /\ [Next]_vars => LedgerInv' /\ RunInv' /\ WakeInv'
  BY LedgerStep, RunStep, WakeStep DEF LedgerInv
<1>3. LedgerInv => CallsType
  BY DEF LedgerInv
<1> QED
  BY <1>1, <1>2, <1>3, LedgerInit, RunInvInit, WakeInvInit, PTL DEF Spec
-----------------------------------------------------------------------------
(* Types                                                                   *)

\* No run goes beyond its turns or its attempts: a turn begins below both bounds.
RunBounds ==
  /\ run.turns \in 0..MaxTurns
  /\ run.defects \in 0..(RetryCap + 1) /\ run.retries \in 0..(RetryCap + 1)
  /\ run.phase = "Turn" =>
       run.turns < MaxTurns /\ run.defects <= RetryCap /\ run.retries <= RetryCap

\* The checkouts still to be parked.
Parks(call) == "Park" \in ToSet(call.todo)
Parkers == {c \in Clients : Parks(calls[c])}

\* A checkout is asked for before it is parked, and parked once.
ParkInv ==
  /\ IsFiniteSet(Parkers) /\ asks \in 0..MaxAsks /\ checkouts \in Nat
  /\ checkouts + Cardinality(Parkers) <= asks

FlagsType ==
  /\ live \in BOOLEAN /\ continue \in BOOLEAN /\ permit \in BOOLEAN
  /\ compact \in BOOLEAN /\ replay \in BOOLEAN
  /\ cancelled \in BOOLEAN /\ shutdown \in BOOLEAN /\ talked \in BOOLEAN /\ closing \in BOOLEAN

WorkerType == pc \in Places /\ door \in {"none", "manual", "idle", "overflow"}

CountsType ==
  /\ repairs \in 0..MaxRepairs /\ checkout \in 0..checkouts
  /\ stamp \in [Messages -> 0..checkouts] /\ noticed \subseteq Messages

TypeInv == LedgerInv /\ RunInv /\ RunBounds /\ ParkInv /\ FlagsType /\ WorkerType /\ CountsType

\* The steps the scripts have are the steps by their names.
LEMMA StepsNamed == StepNames \subseteq Steps
<1>1. /\ {"message", "abort", "checkout", "continue", "compact", "replay", "close"} \subseteq DOMAIN Script
      /\ Script["message"] = <<"Announce", "Push", "Notify">>
      /\ Script["abort"] = <<"DropSlots", "Cancel", "Clear">>
      /\ Script["continue"] = <<"ParkContinue", "Notify">>
      /\ Script["compact"] = <<"ParkCompact", "Notify">>
      /\ Script["replay"] = <<"ParkReplay", "Notify">>
      /\ Script["close"] = <<"Pull">>
  BY DEF Script, AbortSteps
<1>2. ASSUME NEW command \in DOMAIN Script, NEW i \in DOMAIN Script[command]
      PROVE  Script[command][i] \in Steps
  <2>1. Script[command][i] \in ToSet(Script[command])
    BY Zenon DEF ToSet
  <2>2. ToSet(Script[command]) \in {ToSet(Script[other]) : other \in DOMAIN Script}
    BY Zenon
  <2> QED
    BY <2>1, <2>2, Zenon DEF Steps
<1>3. "Announce" \in Steps /\ "Push" \in Steps /\ "Notify" \in Steps
  <2>1. 1 \in DOMAIN Script["message"] /\ 2 \in DOMAIN Script["message"] /\ 3 \in DOMAIN Script["message"]
    BY <1>1
  <2> QED
    BY <1>1, <1>2, <2>1
<1>4. "DropSlots" \in Steps /\ "Cancel" \in Steps /\ "Clear" \in Steps
  <2>1. 1 \in DOMAIN Script["abort"] /\ 2 \in DOMAIN Script["abort"] /\ 3 \in DOMAIN Script["abort"]
    BY <1>1
  <2> QED
    BY <1>1, <1>2, <2>1
<1>5. "Probe" \in Steps /\ "Park" \in Steps
  <2> DEFINE first == <<"Probe">> \o AbortSteps
             last == <<"Park", "Notify">>
             names == {"Probe", "DropSlots", "Cancel", "Clear", "Park", "Notify"}
  <2>1. "checkout" \in DOMAIN Script /\ Script["checkout"] = first \o last
    BY DEF Script
  <2>2. first \in Seq(names) /\ Len(first) = 4 /\ first[1] = "Probe"
    BY DEF AbortSteps
  <2>3. last \in Seq(names) /\ Len(last) = 2 /\ last[1] = "Park"
    OBVIOUS
  <2> HIDE DEF first, last, names
  <2>4. /\ first \o last \in Seq(names)
        /\ Len(first \o last) = Len(first) + Len(last)
        /\ \A i \in 1 .. Len(first) + Len(last) :
             (first \o last)[i] = IF i <= Len(first) THEN first[i] ELSE last[i - Len(first)]
    BY <2>2, <2>3, ConcatProperties, Zenon
  <2>5. /\ (first \o last)[1] = "Probe" /\ (first \o last)[5] = "Park"
        /\ 1 \in DOMAIN (first \o last) /\ 5 \in DOMAIN (first \o last)
    BY <2>2, <2>3, <2>4
  <2>6. /\ 1 \in DOMAIN Script["checkout"] /\ 5 \in DOMAIN Script["checkout"]
        /\ Script["checkout"][1] = "Probe" /\ Script["checkout"][5] = "Park"
    BY <2>1, <2>5
  <2>7. Script["checkout"][1] \in Steps /\ Script["checkout"][5] \in Steps
    BY <1>2, <2>1, <2>6
  <2> QED
    BY <2>6, <2>7
<1>6. "ParkContinue" \in Steps /\ "ParkCompact" \in Steps /\ "ParkReplay" \in Steps /\ "Pull" \in Steps
  <2>1. /\ 1 \in DOMAIN Script["continue"] /\ 1 \in DOMAIN Script["compact"]
        /\ 1 \in DOMAIN Script["replay"] /\ 1 \in DOMAIN Script["close"]
    BY <1>1
  <2> QED
    BY <1>1, <1>2, <2>1
<1> QED
  BY <1>3, <1>4, <1>5, <1>6 DEF StepNames, Leaving

\* A thread that takes a step parks no more than before, and parking is over with
\* the step that parks.
LEMMA RestParks ==
  ASSUME NEW call \in Call, call.todo # <<>>
  PROVE  /\ Parks(Rest(call)) => Parks(call)
         /\ Head(call.todo) = "Park" => Parks(call) /\ ~Parks(Rest(call))
<1> DEFINE todo == call.todo
           rest == Tail(todo)
<1>1. /\ todo \in Seq(StepNames) /\ Len(todo) \in Nat /\ Len(todo) > 0
      /\ \A i \in 1..Len(todo) : Fits(todo, i)
      /\ DOMAIN todo = 1..Len(todo) /\ Head(todo) = todo[1]
  BY DEF Call, Todos
<1>2. /\ Len(rest) = Len(todo) - 1 /\ DOMAIN rest = 1..(Len(todo) - 1)
      /\ \A i \in 1..(Len(todo) - 1) : rest[i] = todo[i + 1]
  BY <1>1
<1>3. Idle.todo = <<>> /\ [call EXCEPT !.todo = rest].todo = rest
  BY DEF Idle, Call
<1>4. Rest(call).todo = <<>> \/ Rest(call).todo = rest
  BY <1>3 DEF Rest
<1>5. ToSet(<<>>) = {}
  BY DEF ToSet
<1> HIDE DEF rest
<1>6. ToSet(rest) \subseteq ToSet(todo)
  <2>1. ASSUME NEW i \in DOMAIN rest
        PROVE  rest[i] \in ToSet(todo)
    <3>1. i + 1 \in DOMAIN todo /\ rest[i] = todo[i + 1]
      BY <1>1, <1>2
    <3> QED
      BY <3>1, Zenon DEF ToSet
  <2> QED
    BY <2>1 DEF ToSet
<1>7. Parks(Rest(call)) => Parks(call)
  BY <1>4, <1>5, <1>6 DEF Parks
<1>8. ASSUME Head(todo) = "Park"
      PROVE  "Park" \in ToSet(todo) /\ "Park" \notin ToSet(rest)
  <2>1. Len(todo) = 2 /\ todo[2] = "Notify" /\ 1 \in DOMAIN todo
    <3>1. 1 \in 1..Len(todo) /\ todo[1] = "Park"
      BY <1>1, <1>8
    <3>2. Fits(todo, 1)
      BY <1>1, <3>1
    <3> QED
      BY <1>1, <3>1, <3>2 DEF Fits, Leaving
  <2>2. \A i \in DOMAIN rest : rest[i] = "Notify"
    BY <1>2, <2>1
  <2> QED
    BY <1>1, <1>8, <2>1, <2>2 DEF ToSet
<1> QED
  BY <1>4, <1>5, <1>7, <1>8 DEF Parks

\* Of the scripts only a checkout's parks.
LEMMA MessageParksNothing == ~Parks([command |-> "message", todo |-> Script["message"], message |-> sent'])
<1>1. Script["message"] = <<"Announce", "Push", "Notify">>
  BY DEF Script
<1> QED
  BY <1>1 DEF Parks, ToSet

\* The count of checkouts, through a thread's step.
LEMMA ParkStep ==
  ASSUME LedgerInv, ParkInv, [Next]_vars
  PROVE  ParkInv' /\ checkouts <= checkouts'
<1> USE DEF LedgerInv, CallsType
<1>1. ASSUME NEW c \in Clients, Deliver(c)
      PROVE  ParkInv' /\ checkouts <= checkouts'
  <2>1. /\ calls[c] \in Call /\ calls[c].todo # <<>> /\ UNCHANGED asks
        /\ calls' = [calls EXCEPT ![c] = Rest(calls[c])] \/ calls' = [calls EXCEPT ![c] = Idle]
        /\ UNCHANGED checkouts \/ Park(c)
    BY <1>1 DEF Deliver, Announce, Push, Notify, ParkContinue, ParkCompact, ParkReplay, Probe,
                DropSlots, Cancel, Clear, Park, Pull, Advance, At
  <2>2. /\ \A d \in Clients \ {c} : calls'[d] = calls[d]
        /\ calls'[c] = Rest(calls[c]) \/ calls'[c] = Idle
    BY <2>1
  <2>3. ~Parks(Idle)
    BY DEF Idle, Parks, ToSet
  <2>4. Parks(calls'[c]) => Parks(calls[c])
    BY <2>1, <2>2, <2>3, RestParks
  <2>5. Parkers' \subseteq Parkers
    BY <2>2, <2>4 DEF Parkers
  <2>6. IsFiniteSet(Parkers') /\ Cardinality(Parkers') \in Nat /\ Cardinality(Parkers') <= Cardinality(Parkers)
    BY <2>5, FS_Subset, FS_CardinalityType DEF ParkInv
  <2>7. CASE UNCHANGED checkouts
    BY <2>1, <2>6, <2>7, FS_CardinalityType DEF ParkInv
  <2>8. CASE Park(c)
    <3>1. Head(calls[c].todo) = "Park" /\ calls'[c] = Rest(calls[c]) /\ checkouts' = checkouts + 1
      BY <2>1, <2>8 DEF Park, At, Advance
    <3>2. c \in Parkers /\ Parkers' \subseteq Parkers \ {c}
      BY <2>1, <2>5, <3>1, RestParks DEF Parkers
    <3>3. IsFiniteSet(Parkers \ {c}) /\ Cardinality(Parkers \ {c}) = Cardinality(Parkers) - 1
      BY <3>2, FS_RemoveElement DEF ParkInv
    <3>4. Cardinality(Parkers') <= Cardinality(Parkers) - 1
      BY <3>2, <3>3, FS_Subset
    <3> QED
      BY <2>1, <2>6, <3>1, <3>4, FS_CardinalityType DEF ParkInv
  <2> QED
    BY <2>1, <2>7, <2>8
<1>2. ASSUME NEW c \in Clients, NEW command \in Commands[c], Issue(c, command)
      PROVE  ParkInv' /\ checkouts <= checkouts'
  <2>1. /\ \A d \in Clients \ {c} : calls'[d] = calls[d]
        /\ UNCHANGED checkouts
    BY <1>2 DEF Issue
  <2>2. IsFiniteSet(Parkers \cup {c}) /\ Cardinality(Parkers \cup {c}) <= Cardinality(Parkers) + 1
    <3>1. IsFiniteSet(Parkers) /\ Cardinality(Parkers) \in Nat
      BY FS_CardinalityType DEF ParkInv
    <3>2. /\ IsFiniteSet(Parkers \cup {c})
          /\ Cardinality(Parkers \cup {c}) \in {Cardinality(Parkers), Cardinality(Parkers) + 1}
      BY <3>1, FS_AddElement, Zenon
    <3> QED
      BY <3>1, <3>2
  <2>3. Parkers' \subseteq Parkers \cup {c}
    BY <2>1 DEF Parkers
  <2>4. IsFiniteSet(Parkers') /\ Cardinality(Parkers') \in Nat /\ Cardinality(Parkers') <= Cardinality(Parkers) + 1
    BY <2>2, <2>3, FS_Subset, FS_CardinalityType DEF ParkInv
  <2>5. CASE command = "message"
    <3>1. calls'[c] = [command |-> "message", todo |-> Script["message"], message |-> sent'] /\ UNCHANGED asks
      BY <1>2, <2>5 DEF Issue
    <3>2. Parkers' \subseteq Parkers
      BY <2>1, <3>1, MessageParksNothing DEF Parkers
    <3>3. Cardinality(Parkers') <= Cardinality(Parkers)
      BY <3>2, FS_Subset DEF ParkInv
    <3> QED
      BY <2>1, <2>4, <3>1, <3>3, FS_CardinalityType DEF ParkInv
  <2>6. CASE command # "message"
    <3>1. asks < MaxAsks /\ asks' = asks + 1
      BY <1>2, <2>6 DEF Issue
    <3> QED
      BY <2>1, <2>4, <3>1, BoundsAssumption, FS_CardinalityType DEF ParkInv
  <2> QED
    BY <2>5, <2>6
<1>3. CASE UNCHANGED client
  BY <1>3 DEF client, ParkInv, Parkers
<1>4. Work \/ Answer \/ UNCHANGED vars => UNCHANGED client
  BY DEF Work, Answer, BoxAnswers, TurnEnds, ServeReplay, ServeCheckout, ServeCompact, BeatQueued,
         BeatContinue, PumpStarts, PumpQueued, PumpContinue, PumpEnds, Wake, WindDown, LastLook,
         OpenBox, BoxCancelled, OpenRun, Ready, FailBeforeEngine, Poll, Preempt, Stop, Converge,
         Decide, Final, StreamEnds, Conclude, Goto, vars
<1> QED
  BY <1>1, <1>2, <1>3, <1>4 DEF Next

\* A turn begins below the bounds, so no run passes them.
LEMMA RunBoundsStep ==
  ASSUME RunInv, RunBounds, [Next]_vars
  PROVE  RunBounds'
<1> USE BoundsAssumption DEF RunInv, RunShape, Active
<1>1. ASSUME UNCHANGED run
      PROVE  RunBounds'
  BY <1>1 DEF RunBounds
<1>3. ASSUME NEW c \in Clients, Deliver(c) \/ \E command \in Commands[c] : Issue(c, command)
      PROVE  RunBounds'
  BY <1>1, <1>3, ThreadsLeaveRun
<1>4. CASE \/ ServeReplay \/ ServeCheckout \/ ServeCompact \/ BeatQueued \/ BeatContinue
           \/ PumpStarts \/ PumpContinue \/ Wake \/ WindDown \/ LastLook
           \/ OpenBox \/ BoxCancelled \/ BoxAnswers \/ Ready \/ Poll \/ UNCHANGED vars
  BY <1>1, <1>4 DEF ServeReplay, ServeCheckout, ServeCompact, BeatQueued, BeatContinue, PumpStarts,
                    PumpContinue, Wake, WindDown, LastLook, OpenBox, BoxCancelled, BoxAnswers, Ready,
                    Poll, vars, worker
<1>5. CASE PumpQueued
  BY <1>5 DEF PumpQueued, RunBounds
<1>6. CASE PumpEnds \/ OpenRun
  BY <1>6 DEF PumpEnds, OpenRun, RunBounds, NoRun
<1>7. CASE FailBeforeEngine \/ Conclude
  <2>1. \E terminals : run' = Told(terminals)
    BY <1>7 DEF FailBeforeEngine, Conclude
  <2>2. /\ run'.phase = "over" /\ run'.turns = 0
        /\ run'.defects = 0 /\ run'.retries = 0
    BY <2>1 DEF Told, NoRun
  <2> QED
    BY <2>2 DEF RunBounds
<1>8. CASE Preempt \/ Stop \/ StreamEnds \/ Final
  BY <1>8 DEF Preempt, Stop, StreamEnds, Final, RunBounds
<1>9. CASE Converge
  BY <1>9 DEF Converge, RunBounds
<1>10. CASE Decide
  <2>1. CASE Over
    BY <1>10, <2>1 DEF Decide, In, RunBounds
  <2>2. CASE ~Over
    <3>1. run' = [run EXCEPT !.phase = "Turn"]
      BY <1>10, <2>2 DEF Decide
    <3>2. run.turns < MaxTurns /\ run.defects <= RetryCap /\ run.retries <= RetryCap
      BY <2>2 DEF Over, RunBounds
    <3> QED
      BY <3>1, <3>2 DEF RunBounds
  <2> QED
    BY <2>1, <2>2
<1>11. CASE TurnEnds
  <2>1. PICK o \in Outcomes : run' = o.run
    BY <1>11 DEF TurnEnds
  <2>2. run.turns < MaxTurns /\ run.defects <= RetryCap /\ run.retries <= RetryCap
    BY <1>11 DEF TurnEnds, In, RunBounds
  <2> DEFINE settled == [run EXCEPT !.defects = 0, !.retries = 0]
             batch == [settled EXCEPT !.phase = "Converge", !.turns = @ + 1]
             again == [run EXCEPT !.phase = "Converge"]
  <2>3. \/ o.run \in {[settled EXCEPT !.phase = "Final"], batch, [batch EXCEPT !.stopping = TRUE]}
        \/ o.run \in {[again EXCEPT !.defects = @ + 1], [again EXCEPT !.retries = @ + 1],
                      [again EXCEPT !.error = "terminal"], [again EXCEPT !.error = "overflow"]}
    <3>1. \/ o = [poll |-> "Poll",   run |-> [settled EXCEPT !.phase = "Final"]]
          \/ o = [poll |-> "Poll",   run |-> batch]
          \/ o = [poll |-> "Poll",   run |-> [again EXCEPT !.defects = @ + 1]]
          \/ o = [poll |-> "Engine", run |-> [again EXCEPT !.retries = @ + 1]]
          \/ o = [poll |-> "Engine", run |-> [again EXCEPT !.error = "terminal"]]
          \/ o = [poll |-> "Poll",   run |-> [batch EXCEPT !.stopping = TRUE]]
          \/ o = [poll |-> "Engine", run |-> [again EXCEPT !.error = "overflow"]]
      BY Zenon DEF Outcomes
    <3> HIDE DEF settled, batch, again
    <3> QED
      BY <3>1
  <2>4. CASE o.run \in {[settled EXCEPT !.phase = "Final"], batch, [batch EXCEPT !.stopping = TRUE]}
    <3>1. /\ run'.turns \in {run.turns, run.turns + 1} /\ run'.phase # "Turn"
          /\ run'.defects = 0 /\ run'.retries = 0
      BY <2>1, <2>4
    <3> QED
      BY <2>2, <3>1 DEF RunBounds
  <2>5. CASE o.run \in {[again EXCEPT !.defects = @ + 1], [again EXCEPT !.retries = @ + 1],
                        [again EXCEPT !.error = "terminal"], [again EXCEPT !.error = "overflow"]}
    <3>1. /\ run'.turns = run.turns /\ run'.phase # "Turn"
          /\ run'.defects \in {run.defects, run.defects + 1}
          /\ run'.retries \in {run.retries, run.retries + 1}
      BY <2>1, <2>5
    <3> QED
      BY <2>2, <3>1 DEF RunBounds
  <2> QED
    BY <2>3, <2>4, <2>5
<1> QED
  BY <1>3, <1>4, <1>5, <1>6, <1>7, <1>8, <1>9, <1>10, <1>11 DEF Next, Work, Answer

\* A flag is set or dropped, never anything else.
LEMMA FlagsStep ==
  ASSUME FlagsType, [Next]_vars
  PROVE  FlagsType'
<1> USE DEF FlagsType, Goto, client, mailbox, intent, worker
<1>1. ASSUME NEW c \in Clients, Announce(c) \/ Push(c) \/ Notify(c) \/ ParkContinue(c)
      PROVE  FlagsType'
  BY <1>1 DEF Announce, Push, Notify, ParkContinue, Advance
<1>2. ASSUME NEW c \in Clients, ParkCompact(c) \/ ParkReplay(c) \/ Probe(c) \/ DropSlots(c)
      PROVE  FlagsType'
  BY <1>2 DEF ParkCompact, ParkReplay, Probe, DropSlots, Advance
<1>3. ASSUME NEW c \in Clients, Cancel(c) \/ Clear(c) \/ Park(c) \/ Pull(c)
      PROVE  FlagsType'
  BY <1>3 DEF Cancel, Clear, Park, Pull, Advance
<1>4. ASSUME NEW c \in Clients, NEW command \in Commands[c], Issue(c, command)
      PROVE  FlagsType'
  BY <1>4 DEF Issue
<1>5. CASE ServeReplay \/ ServeCheckout \/ ServeCompact
  BY <1>5 DEF ServeReplay, ServeCheckout, ServeCompact
<1>6. CASE BeatQueued \/ BeatContinue \/ PumpStarts \/ PumpQueued
  BY <1>6 DEF BeatQueued, BeatContinue, PumpStarts, PumpQueued
<1>7. CASE PumpContinue \/ PumpEnds \/ Wake \/ WindDown
  BY <1>7 DEF PumpContinue, PumpEnds, Wake, WindDown
<1>8. CASE LastLook
  BY <1>8 DEF LastLook
<1>9. CASE OpenBox \/ BoxCancelled \/ BoxAnswers
  BY <1>9 DEF OpenBox, BoxCancelled, BoxAnswers
<1>10. CASE OpenRun \/ Ready \/ Poll \/ Preempt
  BY <1>10 DEF OpenRun, Ready, Poll, Preempt
<1>11. CASE Decide \/ TurnEnds
  BY <1>11 DEF Decide, TurnEnds
<1>12. CASE Final \/ StreamEnds \/ Conclude
  BY <1>12 DEF Final, StreamEnds, Conclude
<1>13. CASE FailBeforeEngine \/ Stop \/ Converge
  BY <1>13 DEF FailBeforeEngine, Stop, Converge, EnterQueued
<1>14. CASE UNCHANGED vars
  BY <1>14 DEF vars
<1> QED
  BY <1>1, <1>2, <1>3, <1>4, <1>5, <1>6, <1>7, <1>8, <1>9, <1>10, <1>11, <1>12, <1>13, <1>14
     DEF Next, Deliver, Work, Answer

\* The worker goes from place to place; what a box does next its door decides.
LEMMA WorkerStep ==
  ASSUME RunInv, WorkerType, [Next]_vars
  PROVE  WorkerType'
<1> USE DEF WorkerType, Places, Goto
<1>1. ASSUME NEW c \in Clients, Deliver(c) \/ \E command \in Commands[c] : Issue(c, command)
      PROVE  WorkerType'
  BY <1>1, ThreadsLeaveRun
<1>2. CASE \/ ServeReplay \/ ServeCheckout \/ ServeCompact \/ BeatQueued \/ BeatContinue
           \/ PumpStarts \/ PumpQueued \/ PumpContinue \/ PumpEnds \/ Wake \/ WindDown \/ LastLook
  BY <1>2 DEF ServeReplay, ServeCheckout, ServeCompact, BeatQueued, BeatContinue, PumpStarts,
              PumpQueued, PumpContinue, PumpEnds, Wake, WindDown, LastLook, AfterParked
<1>3. CASE OpenBox \/ BoxCancelled \/ BoxAnswers
  <2>1. /\ UNCHANGED door /\ door \in {"manual", "idle", "overflow"}
        /\ pc' = "Box" \/ pc' = AfterBox
    BY <1>3 DEF OpenBox, BoxCancelled, BoxAnswers, RunInv
  <2> QED
    BY <2>1 DEF AfterBox, AfterParked
<1>4. CASE OpenRun \/ Ready \/ FailBeforeEngine \/ Poll \/ Preempt \/ Stop \/ Converge \/ Decide
           \/ Final \/ StreamEnds \/ Conclude
  BY <1>4 DEF OpenRun, Ready, FailBeforeEngine, Poll, Preempt, Stop, Converge, Decide, Final,
              StreamEnds, Conclude
<1>5. CASE TurnEnds
  <2>1. PICK o \in Outcomes : pc' = o.poll /\ UNCHANGED door
    BY <1>5 DEF TurnEnds
  <2>2. o.poll \in {"Poll", "Engine"}
    BY <2>1 DEF Outcomes
  <2> QED
    BY <2>1, <2>2
<1>6. CASE UNCHANGED vars
  BY <1>6 DEF vars, worker
<1> QED
  BY <1>1, <1>2, <1>3, <1>4, <1>5, <1>6 DEF Next, Work, Answer

\* The parked checkout and the stamps are numbers of checkouts already parked, an
\* acknowledged message was submitted, and a repair is bounded.
LEMMA CountsStep ==
  ASSUME LedgerInv, ParkInv, CountsType, [Next]_vars
  PROVE  CountsType'
<1> USE DEF CountsType, Goto, client, intent, worker, events
<1>1. checkouts' \in Nat /\ checkouts \in Nat /\ checkouts <= checkouts'
  BY ParkStep DEF ParkInv
<1>2. 0..checkouts \subseteq 0..checkouts'
  BY <1>1
<1>3. ASSUME UNCHANGED <<repairs, stamp, noticed>>, checkout' \in {checkout, 0, checkouts'}
      PROVE  CountsType'
  BY <1>1, <1>2, <1>3
<1>4. ASSUME NEW c \in Clients, Deliver(c), ~Announce(c)
      PROVE  CountsType'
  BY <1>3, <1>4 DEF Deliver, Push, Notify, ParkContinue, ParkCompact, ParkReplay, Probe, DropSlots,
                    Cancel, Clear, Park, Pull, Advance
<1>5. ASSUME NEW c \in Clients, Announce(c)
      PROVE  CountsType'
  <2>1. calls[c].message \in Messages
    BY <1>5, BoundsAssumption DEF LedgerInv, CallsType, Carried, Carries, Announce, At, Messages
  <2> QED
    BY <1>2, <1>5, <2>1 DEF Announce, Advance
<1>6. ASSUME NEW c \in Clients, NEW command \in Commands[c], Issue(c, command)
      PROVE  CountsType'
  BY <1>1, <1>6 DEF Issue
<1>7. CASE BoxAnswers
  BY <1>1, <1>7, BoundsAssumption DEF BoxAnswers
<1>8. CASE Work \/ TurnEnds
  BY <1>3, <1>8 DEF Work, TurnEnds, ServeReplay, ServeCheckout, ServeCompact, BeatQueued, BeatContinue,
         PumpStarts, PumpQueued, PumpContinue, PumpEnds, Wake, WindDown, LastLook, OpenBox, BoxCancelled,
         OpenRun, Ready, FailBeforeEngine, Poll, Preempt, Stop, Converge, EnterQueued, Decide, Final,
         StreamEnds, Conclude
<1>9. CASE UNCHANGED vars
  BY <1>9 DEF vars
<1> QED
  BY <1>4, <1>5, <1>6, <1>7, <1>8, <1>9 DEF Next, Answer

\* The parts give the types as declared.
LEMMA TypesHold == TypeInv => TypeOK
<1> SUFFICES ASSUME TypeInv PROVE TypeOK
  OBVIOUS
<1>1. /\ queue \in Seq(Messages) /\ entered \in Seq(Messages) /\ discarded \subseteq Messages
      /\ sent \in 0..MaxMessages
  BY DEF TypeInv, LedgerInv, LedgerType, CallsType
<1>2. /\ {live, continue, permit} \subseteq BOOLEAN /\ {compact, replay} \subseteq BOOLEAN
      /\ {cancelled, shutdown, talked, closing} \subseteq BOOLEAN
  BY DEF TypeInv, FlagsType
<1>3. run \in Runs
  <2>1. Tellings \subseteq Seq(Terminals)
    BY DEF Tellings, Terminals
  <2>2. /\ run \in RunShape /\ run.turns \in 0..MaxTurns
        /\ run.defects \in 0..(RetryCap + 1) /\ run.retries \in 0..(RetryCap + 1)
    BY DEF TypeInv, RunInv, RunBounds
  <2>3. /\ run = [phase |-> run.phase, queued |-> run.queued, turns |-> run.turns, defects |-> run.defects,
                  retries |-> run.retries, stopping |-> run.stopping, error |-> run.error,
                  result |-> run.result, terminals |-> run.terminals]
        /\ run.phase \in {"none", "Converge", "Decide", "Turn", "Final", "End", "over"}
        /\ run.queued \in BOOLEAN /\ run.stopping \in BOOLEAN
        /\ run.error \in {"none", "terminal", "overflow"} /\ run.result \in {"none"} \cup Terminals
        /\ run.terminals \in Seq(Terminals)
    BY <2>1, <2>2 DEF RunShape, Active
  <2> QED
    BY <2>2, <2>3 DEF Runs
<1>4. calls \in [Clients -> [command : DOMAIN Script \cup {"none"}, todo : Seq(Steps),
                             message : 0..MaxMessages]]
  <2>1. ASSUME NEW todo \in Todos
        PROVE  todo \in Seq(Steps)
    BY StepsNamed DEF Todos
  <2>2. Call \subseteq [command : DOMAIN Script \cup {"none"}, todo : Seq(Steps), message : 0..MaxMessages]
    BY <2>1 DEF Call
  <2>3. calls \in [Clients -> Call]
    BY DEF TypeInv, LedgerInv, CallsType
  <2> QED
    BY <2>2, <2>3
<1>5. asks \in 0..MaxAsks /\ checkouts \in 0..asks
  <2>1. Cardinality(Parkers) \in Nat
    BY FS_CardinalityType DEF TypeInv, ParkInv
  <2> QED
    BY <2>1, BoundsAssumption DEF TypeInv, ParkInv
<1>6. /\ repairs \in 0..MaxRepairs /\ checkout \in 0..checkouts
      /\ stamp \in [Messages -> 0..checkouts] /\ noticed \subseteq Messages
      /\ pc \in Places /\ door \in {"none", "manual", "idle", "overflow"}
  BY DEF TypeInv, CountsType, WorkerType
<1> QED
  BY <1>1, <1>2, <1>3, <1>4, <1>5, <1>6 DEF TypeOK

LEMMA TypeInit == Init => TypeInv
<1> SUFFICES ASSUME Init PROVE TypeInv
  OBVIOUS
<1>1. LedgerInv /\ RunInv
  BY LedgerInit, RunInvInit
<1>2. RunBounds
  BY BoundsAssumption DEF Init, RunBounds, NoRun
<1>3. ParkInv
  <2>1. ToSet(<<>>) = {}
    BY DEF ToSet
  <2>2. \A c \in Clients : ~Parks(calls[c])
    BY <2>1 DEF Init, Idle, Parks
  <2>3. Parkers = {}
    BY <2>2 DEF Parkers
  <2> QED
    BY <2>3, FS_EmptySet, BoundsAssumption DEF Init, ParkInv
<1>4. FlagsType
  BY DEF Init, FlagsType
<1>5. WorkerType
  BY DEF Init, WorkerType, Places
<1>6. CountsType
  BY BoundsAssumption DEF Init, CountsType
<1> QED
  BY <1>1, <1>2, <1>3, <1>4, <1>5, <1>6 DEF TypeInv

\* Every variable keeps its type: no run commits more than max_turns turns or repeats an
\* attempt beyond the cap (agent/drive.rs), and no checkout is parked that was not asked for.
THEOREM TypesAreKept == Spec => []TypeOK
<1>1. TypeInv /\ [Next]_vars => TypeInv'
  BY LedgerStep, RunStep, RunBoundsStep, ParkStep, FlagsStep, WorkerStep, CountsStep DEF TypeInv
<1> QED
  BY <1>1, TypeInit, TypesHold, PTL DEF Spec

-----------------------------------------------------------------------------
(* The watermark of one frontend                                           *)

\* A checkout parks what it names right after it cleared the queue.
Clears(todo) == \A i \in 1..Len(todo) : i > 1 /\ todo[i] = "Park" => todo[i - 1] = "Clear"
ParksNext(call) == call.todo # <<>> /\ Head(call.todo) = "Park"

\* What is queued, or about to be, was submitted since the last checkout was parked, and the
\* next one is parked over an empty queue.
MarkInv ==
  /\ \A m \in ToSet(queue) : stamp[m] = checkouts
  /\ \A c \in Clients : Carries(calls[c]) => stamp[calls[c].message] = checkouts
  /\ \A c \in Clients : Clears(calls[c].todo) /\ (ParksNext(calls[c]) => queue = <<>>)

LEMMA ScriptClears ==
  ASSUME NEW command \in DOMAIN Script
  PROVE  Clears(Script[command]) /\ Head(Script[command]) # "Park"
<1> DEFINE todo == Script[command]
<1>1. todo \in
        {<<"Announce", "Push", "Notify">>, <<"DropSlots", "Cancel", "Clear">>,
         <<"Probe", "DropSlots", "Cancel", "Clear", "Park", "Notify">>,
         <<"ParkContinue", "Notify">>, <<"ParkCompact", "Notify">>,
         <<"ParkReplay", "Notify">>, <<"Pull">>,
         <<"DropSlots", "Cancel", "Clear", "Pull">>}
  BY DEF Script, AbortSteps
<1> HIDE DEF todo
<1>2. CASE todo = <<"Probe", "DropSlots", "Cancel", "Clear", "Park", "Notify">>
  <2>1. /\ Len(todo) = 6 /\ todo[1] = "Probe" /\ todo[2] = "DropSlots"
        /\ todo[3] = "Cancel" /\ todo[4] = "Clear" /\ todo[5] = "Park"
        /\ todo[6] = "Notify" /\ Head(todo) = "Probe"
    BY <1>2
  <2> QED
    BY <2>1 DEF Clears, todo
<1>3. CASE todo # <<"Probe", "DropSlots", "Cancel", "Clear", "Park", "Notify">>
  <2>1. todo[1] # "Park" /\ Head(todo) = todo[1] /\ \A i \in 1..Len(todo) : todo[i] # "Park"
    BY <1>1, <1>3
  <2> QED
    BY <2>1 DEF Clears, todo
<1> QED
  BY <1>2, <1>3

\* A step taken off a remainder leaves its order, and a parking only behind the clearing.
LEMMA RestClears ==
  ASSUME NEW call \in Call, call.todo # <<>>, Clears(call.todo)
  PROVE  Clears(Rest(call).todo) /\ (ParksNext(Rest(call)) => Head(call.todo) = "Clear")
<1> DEFINE todo == call.todo
           rest == Tail(todo)
<1>1. todo \in Seq(StepNames) /\ Len(todo) \in Nat /\ Len(todo) > 0 /\ Head(todo) = todo[1]
  BY DEF Call, Todos
<1>2. /\ rest \in Seq(StepNames) /\ Len(rest) = Len(todo) - 1
      /\ \A i \in 1..Len(rest) : rest[i] = todo[i + 1]
      /\ rest # <<>> => Len(rest) > 0 /\ Head(rest) = rest[1]
  BY <1>1
<1>3. Clears(rest)
  <2>1. SUFFICES ASSUME NEW i \in 1..Len(rest), i > 1, rest[i] = "Park" PROVE rest[i - 1] = "Clear"
    BY DEF Clears
  <2>2. i + 1 \in 1..Len(todo) /\ i + 1 > 1 /\ todo[i + 1] = "Park" /\ (i + 1) - 1 = i
    BY <1>1, <1>2, <2>1
  <2>3. todo[(i + 1) - 1] = "Clear"
    BY <2>2 DEF Clears
  <2> QED
    BY <1>1, <1>2, <2>1, <2>2, <2>3
<1>4. rest # <<>> /\ Head(rest) = "Park" => Head(todo) = "Clear"
  <2>1. SUFFICES ASSUME rest # <<>>, Head(rest) = "Park" PROVE todo[1] = "Clear"
    BY <1>1
  <2>2. 2 \in 1..Len(todo) /\ todo[2] = "Park" /\ 2 > 1 /\ 2 - 1 = 1
    BY <1>1, <1>2, <2>1
  <2>3. todo[2 - 1] = "Clear"
    BY <2>2 DEF Clears
  <2> QED
    BY <2>2, <2>3
<1>5. CASE Rest(call) = Idle
  <2>1. Idle.todo = <<>> /\ Len(<<>>) = 0
    BY DEF Idle
  <2> QED
    BY <1>5, <2>1 DEF Clears, ParksNext
<1>6. CASE Rest(call) = [call EXCEPT !.todo = Tail(todo)]
  <2>1. Rest(call).todo = rest
    BY <1>6 DEF Call
  <2> QED
    BY <1>3, <1>4, <2>1 DEF ParksNext
<1> QED
  BY <1>5, <1>6 DEF Rest

\* The kinds of step, as the marks see them.
Marks == <<stamp, checkouts>>
LEMMA MarkKinds ==
  ASSUME [Next]_vars
  PROVE  \/ \E c \in Clients : \E command \in Commands[c] : Issue(c, command)
         \/ \E c \in Clients : Push(c)
         \/ \E c \in Clients : Park(c)
         \/ \E c \in Clients : At(c, "Clear") /\ Moves(c) /\ UNCHANGED <<entered, Marks>> /\ queue' = <<>>
         \/ \E c \in Clients : ~At(c, "Clear") /\ Moves(c) /\ UNCHANGED <<entered, queue, Marks>>
         \/ UNCHANGED <<calls, Marks, entered>> /\ queue' \in {queue, <<>>}
         \/ UNCHANGED <<calls, Marks>> /\ queue' = <<>> /\ entered' = entered \o queue
<1> USE DEF client, events, mailbox, Marks
<1>1. ASSUME NEW c \in Clients, Deliver(c), ~Push(c), ~Park(c)
      PROVE  \/ At(c, "Clear") /\ Moves(c) /\ UNCHANGED <<entered, Marks>> /\ queue' = <<>>
             \/ ~At(c, "Clear") /\ Moves(c) /\ UNCHANGED <<entered, queue, Marks>>
  <2>1. CASE Clear(c)
    BY <2>1 DEF Clear, Advance, At, Moves
  <2>2. CASE Probe(c)
    BY <2>2 DEF Probe, Advance, At, Moves
  <2>3. CASE Announce(c) \/ Notify(c) \/ DropSlots(c) \/ Cancel(c) \/ Pull(c)
    BY <2>3 DEF Announce, Notify, DropSlots, Cancel, Pull, Advance, At, Moves
  <2>4. CASE ParkContinue(c) \/ ParkCompact(c) \/ ParkReplay(c)
    BY <2>4 DEF ParkContinue, ParkCompact, ParkReplay, Advance, At, Moves
  <2> QED
    BY <1>1, <2>1, <2>2, <2>3, <2>4 DEF Deliver
<1>2. CASE Answer
  BY <1>2 DEF Answer, BoxAnswers, TurnEnds, Goto
<1>3. CASE ServeReplay \/ ServeCheckout \/ ServeCompact \/ BeatQueued \/ BeatContinue
           \/ PumpStarts \/ PumpQueued \/ PumpContinue \/ PumpEnds \/ Wake \/ WindDown
           \/ LastLook \/ OpenBox \/ BoxCancelled
  BY <1>3 DEF ServeReplay, ServeCheckout, ServeCompact, BeatQueued, BeatContinue,
              PumpStarts, PumpQueued, PumpContinue, PumpEnds, Wake, WindDown, LastLook,
              OpenBox, BoxCancelled, Goto
<1>4. CASE OpenRun \/ Ready \/ Poll \/ Preempt \/ Decide \/ Final \/ StreamEnds \/ Conclude
  BY <1>4 DEF OpenRun, Ready, Poll, Preempt, Decide, Final, StreamEnds, Conclude, Goto
<1>5. CASE FailBeforeEngine \/ Stop \/ Converge
  BY <1>5 DEF FailBeforeEngine, Stop, Converge, EnterQueued, Goto
<1>6. CASE UNCHANGED vars
  BY <1>6 DEF vars
<1> QED
  BY <1>1, <1>2, <1>3, <1>4, <1>5, <1>6, Zenon DEF Next, Work

LEMMA MarkInit == Init => MarkInv
<1> SUFFICES ASSUME Init PROVE MarkInv
  OBVIOUS
<1>1. queue = <<>> /\ \A c \in Clients : calls[c] = Idle
  BY DEF Init
<1>2. Idle.todo = <<>> /\ Len(<<>>) = 0 /\ ToSet(<<>>) = {}
  BY DEF Idle, ToSet
<1> QED
  BY <1>1, <1>2 DEF MarkInv, Carries, ParksNext, Clears

\* With one thread to submit and to check out, every step keeps the marks.
LEMMA MarkStep ==
  ASSUME \A c, d \in Clients : c = d, LedgerInv, MarkInv, [Next]_vars
  PROVE  MarkInv'
<1>0. /\ calls \in [Clients -> Call] /\ sent \in 0..MaxMessages /\ MaxMessages \in Nat
      /\ queue \in Seq(Messages) /\ ToSet(queue) \subseteq 1..sent
      /\ \A c \in Clients : Carries(calls[c]) => calls[c].message \in 1..sent
  BY AcceptedIs, BoundsAssumption DEF LedgerInv, CallsType, LedgerType, Carried
<1>1. ASSUME NEW c \in Clients, NEW command \in Commands[c], Issue(c, command) PROVE MarkInv'
  <2>1. /\ calls[c].todo = <<>> /\ sent' \in Nat /\ sent' \in {sent, sent + 1} /\ checkouts' = checkouts /\ queue' = queue
        /\ command = "message" => sent' = sent + 1 /\ sent < MaxMessages
        /\ calls' = [calls EXCEPT ![c] = [command |-> command, todo |-> Script[command],
                                          message |-> IF command = "message" THEN sent' ELSE 0]]
        /\ stamp' = [m \in Messages |-> IF sent < m /\ m <= sent' THEN checkouts ELSE stamp[m]]
    BY <1>0, <1>1 DEF Issue, mailbox
  <2>2. command \in DOMAIN Script
    BY CommandsAssumption
  <2>3. /\ calls'[c].todo = Script[command] /\ calls'[c].message = (IF command = "message" THEN sent' ELSE 0)
        /\ \A d \in Clients : d = c
    BY <1>0, <2>1
  <2>4. \A m \in 1..sent : stamp'[m] = stamp[m]
    BY <1>0, <2>1 DEF Messages
  <2>5. \A m \in ToSet(queue') : stamp'[m] = checkouts'
    BY <1>0, <2>1, <2>4 DEF MarkInv
  <2>6. Carries(calls'[c]) => stamp'[calls'[c].message] = checkouts'
    <3>1. Carries(calls'[c]) => command = "message"
      BY <2>2, <2>3, ScriptType DEF Carries
    <3>2. command = "message" => sent' \in Messages /\ stamp'[sent'] = checkouts
      BY <1>0, <2>1 DEF Messages
    <3> QED
      BY <2>1, <2>3, <3>1, <3>2
  <2>7. Clears(calls'[c].todo) /\ ~ParksNext(calls'[c])
    BY <2>2, <2>3, ScriptClears DEF ParksNext
  <2> QED
    BY <2>3, <2>5, <2>6, <2>7 DEF MarkInv
<1>2. ASSUME NEW c \in Clients, calls[c].todo # <<>>, calls' = [calls EXCEPT ![c] = Rest(calls[c])]
      PROVE  /\ \A d \in Clients : d = c /\ calls'[d] = Rest(calls[c])
             /\ Clears(calls'[c].todo) /\ (ParksNext(calls'[c]) => Head(calls[c].todo) = "Clear")
             /\ Carries(calls'[c]) => Head(calls[c].todo) = "Announce" /\ calls'[c].message = calls[c].message
             /\ Head(calls[c].todo) \in Leaving => Owes(calls'[c])
  <2>1. calls[c] \in Call /\ Clears(calls[c].todo) /\ calls'[c] = Rest(calls[c])
    BY <1>0, <1>2 DEF MarkInv
  <2>2. \A d \in Clients : d = c
    OBVIOUS
  <2> QED
    BY <1>2, <2>1, <2>2, RestClears, RestType
<1>3. ASSUME NEW c \in Clients, Push(c) PROVE MarkInv'
  <2>1. /\ calls[c].todo # <<>> /\ Head(calls[c].todo) = "Push" /\ calls' = [calls EXCEPT ![c] = Rest(calls[c])]
        /\ queue' = Append(queue, calls[c].message) /\ UNCHANGED <<stamp, checkouts>>
    BY <1>3 DEF Push, At, Advance
  <2>2. Carries(calls[c]) /\ calls[c].message \in Messages
    BY <1>0, <2>1 DEF Carries, Messages
  <2>3. ToSet(queue') = ToSet(queue) \cup {calls[c].message}
    BY <1>0, <2>1, <2>2, ToSetFacts
  <2>4. /\ ~Carries(calls'[c]) /\ ~ParksNext(calls'[c])
        /\ Clears(calls'[c].todo) /\ \A d \in Clients : d = c
    BY <1>2, <2>1 DEF Leaving, Owes, ParksNext, Carries
  <2>5. \A m \in ToSet(queue') : stamp'[m] = checkouts'
    <3>1. stamp[calls[c].message] = checkouts /\ \A m \in ToSet(queue) : stamp[m] = checkouts
      BY <2>2 DEF MarkInv
    <3> QED
      BY <2>1, <2>3, <3>1
  <2>6. \A d \in Clients : calls'[d] = calls'[c]
    BY <2>4
  <2> QED
    BY <2>4, <2>5, <2>6 DEF MarkInv
<1>4. ASSUME NEW c \in Clients, Park(c) PROVE MarkInv'
  <2>1. /\ calls[c].todo # <<>> /\ Head(calls[c].todo) = "Park" /\ calls' = [calls EXCEPT ![c] = Rest(calls[c])]
        /\ queue' = queue
    BY <1>4 DEF Park, At, Advance, mailbox
  <2>2. queue = <<>>
    BY <2>1 DEF MarkInv, ParksNext
  <2>3. ~Carries(calls'[c]) /\ ~ParksNext(calls'[c])
    BY <1>2, <2>1
  <2>4. ToSet(queue') = {}
    BY <2>1, <2>2 DEF ToSet
  <2> QED
    BY <1>2, <2>1, <2>3, <2>4 DEF MarkInv
<1>5. ASSUME NEW c \in Clients, Moves(c), UNCHANGED Marks,
             queue' = <<>> \/ (queue' = queue /\ ~At(c, "Clear"))
      PROVE  MarkInv'
  <2>1. calls[c].todo # <<>> /\ ToSet(queue') \subseteq ToSet(queue) /\ UNCHANGED <<stamp, checkouts>>
    BY <1>5 DEF Moves, ToSet, Marks
  <2>2. CASE calls' = [calls EXCEPT ![c] = Idle]
    <3>1. Idle.todo = <<>> /\ Len(<<>>) = 0 /\ \A d \in Clients : calls'[d] = Idle
      BY <1>0, <2>2 DEF Idle
    <3> QED
      BY <2>1, <3>1 DEF MarkInv, Clears, Carries, ParksNext
  <2>3. CASE calls' = [calls EXCEPT ![c] = Rest(calls[c])]
    <3>1. ParksNext(calls'[c]) => queue' = <<>>
      BY <1>2, <1>5, <2>1, <2>3 DEF At
    <3>2. Carries(calls'[c]) => stamp[calls'[c].message] = checkouts
      BY <1>2, <2>1, <2>3 DEF MarkInv, Carries
    <3> QED
      BY <1>2, <2>1, <2>3, <3>1, <3>2 DEF MarkInv
  <2> QED
    BY <1>5, <2>2, <2>3 DEF Moves
<1>6. ASSUME UNCHANGED <<calls, Marks>>, queue' \in {queue, <<>>} PROVE MarkInv'
  <2>1. ToSet(queue') \subseteq ToSet(queue) /\ UNCHANGED <<calls, stamp, checkouts>>
    BY <1>6 DEF ToSet, Marks
  <2> QED
    BY <1>6, <2>1 DEF MarkInv
<1> QED
  BY <1>1, <1>3, <1>4, <1>5, <1>6, MarkKinds

\* One frontend's watermark (FRONTEND.md, section 7; Worker::abort, Mailbox::clear): where one
\* thread submits and checks out, no message it submitted before a checkout was parked enters the
\* conversation after it, whatever the worker does in between.
THEOREM MarksHold ==
  ASSUME \A c, d \in Clients : c = d
  PROVE  Spec => Watermark
<1>1. Init => LedgerInv /\ MarkInv
  BY LedgerInit, MarkInit
<1>2. LedgerInv /\ MarkInv /\ [Next]_vars => LedgerInv' /\ MarkInv'
  BY LedgerStep, MarkStep
<1>3. LedgerInv /\ MarkInv /\ [Next]_vars
        => [\A m \in ToSet(entered') \ ToSet(entered) : stamp[m] = checkouts]_vars
  <2> SUFFICES ASSUME LedgerInv, MarkInv, [Next]_vars, NEW m \in ToSet(entered') \ ToSet(entered)
               PROVE  stamp[m] = checkouts
    OBVIOUS
  <2>1. entered' # entered
    OBVIOUS
  <2>2. entered' = entered \o queue
    BY <2>1, MarkKinds DEF Issue, Push, Park, events
  <2>3. ToSet(entered') = ToSet(entered) \cup ToSet(queue)
    BY <2>2, ToSetFacts DEF LedgerInv, LedgerType
  <2> QED
    BY <2>3 DEF MarkInv
<1> QED
  BY <1>1, <1>2, <1>3, PTL DEF Spec, Watermark
=============================================================================
